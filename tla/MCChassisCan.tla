---------------------------- MODULE MCChassisCan ----------------------------
(* Instances of ChassisCan for TLC.                                        *)
EXTENDS ChassisCan

==============================================================================
