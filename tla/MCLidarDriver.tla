---------------------------- MODULE MCLidarDriver ----------------------------
(* An instance of LidarDriver for TLC.                                       *)
EXTENDS LidarDriver
==============================================================================
