---------------------------- MODULE MCWheelFeedback ----------------------------
(* Instances of WheelFeedback for TLC.                                         *)
EXTENDS WheelFeedback, TLC

\* Half a range down is the largest step a reading can tell apart, half a range up
\* already slips; a quarter reaches the boundary in two moves.
MCMoves == {16384, 32768, -32768}

Symmetry == Permutations(Wheels)

==============================================================================
