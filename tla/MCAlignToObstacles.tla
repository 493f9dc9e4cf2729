-------------------------- MODULE MCAlignToObstacles --------------------------
(* Instances of AlignToObstacles for TLC.                                      *)
EXTENDS AlignToObstacles

==============================================================================
