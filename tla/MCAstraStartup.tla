--------------------------- MODULE MCAstraStartup ---------------------------
(* An instance of AstraStartup for TLC.                                      *)
EXTENDS AstraStartup
=============================================================================
