---------------------------- MODULE MCWaitLidarGate ----------------------------
(* Instances of WaitLidarGate for TLC.                                         *)
EXTENDS WaitLidarGate

==============================================================================
