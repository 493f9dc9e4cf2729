---------------------------- MODULE FrameMailbox ----------------------------
(***************************************************************************)
(* What the laser driver promises its node about frames, without threads,  *)
(* locks or flags: a place for the newest frame.  A frame that is not      *)
(* taken before the next one is replaced by it; a frame that is taken is   *)
(* the newest there is; and the newest frame is taken unless another       *)
(* replaces it or the node stops asking.                                   *)
(***************************************************************************)
EXTENDS Naturals

VARIABLES
  made,    \* frames put into the mailbox so far; the newest one is frame made
  got,     \* the frame last taken, 0 for none
  closed   \* the node no longer asks

mailbox == <<made, got, closed>>

Init == made = 0 /\ got = 0 /\ closed = FALSE

Put == made' = made + 1 /\ UNCHANGED <<got, closed>>

Take ==
  /\ ~closed /\ got # made
  /\ got' = made
  /\ UNCHANGED <<made, closed>>

Close == ~closed /\ closed' = TRUE /\ UNCHANGED <<made, got>>

Next == Put \/ Take \/ Close

Spec == Init /\ [][Next]_mailbox /\ WF_mailbox(Take)

=============================================================================
