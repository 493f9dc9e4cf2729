---------------------------- MODULE MCLidarProtocol ----------------------------
(* An instance of LidarProtocol for TLC.                                       *)
EXTENDS LidarProtocol
==============================================================================
