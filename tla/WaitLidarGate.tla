---------------------------- MODULE WaitLidarGate ----------------------------
(***************************************************************************)
(* wait_lidar_gate.py: the script that holds r2_run.sh back until somebody *)
(* has covered the lidar and taken the hand away.  It is one loop over     *)
(* completed lidar turns, here called scans; time passes between scans and *)
(* in the sleep before the alignment is started.  The parser and the       *)
(* direction estimator below it (direction.py) give one reading per side.  *)
(***************************************************************************)
EXTENDS Integers

CONSTANTS
  Hold,        \* hold_s, in ticks
  Grace,       \* near_grace_s, in ticks
  PostDelay,   \* post_delay_s, in ticks
  None         \* Python's None

ASSUME GateAssumption ==
  /\ Hold \in Nat /\ Grace \in Nat /\ PostDelay \in Nat
  /\ None \notin Int

Side == {"front", "left"}

\* A distance is "NA", or "near", "at" or "far" by its order to threshold_mm.
Reading == {"NA", "near", "at", "far"}

VARIABLES
  pc,          \* "waiting" for a scan, in the "delay", or ended in "exit0", "exit1"
  lowAge,      \* None, or ticks since low_since, saturating at Hold
  graceLeft,   \* ticks until near_until, -1 once it is over
  armed,       \* armed
  delayLeft,   \* what is left of the sleep
  last,        \* history: the readings of the last scan
  sinceHigh,   \* history: ticks since the start or a scan with a side not near
  sinceNear,   \* history: ticks since a scan with a side near
  quiet        \* history: sinceNear as of the last scan

gate    == <<lowAge, graceLeft, armed>>
history == <<last, sinceHigh, sinceNear, quiet>>
vars    == <<pc, gate, delayLeft, history>>

UpTo(age, cap) == IF age < cap THEN age + 1 ELSE age

\* near_until starts at 0.0, long past.
Init ==
  /\ pc = "waiting"
  /\ lowAge = None /\ graceLeft = -1 /\ armed = FALSE
  /\ delayLeft = 0
  /\ last = [s \in Side |-> "NA"]
  /\ sinceHigh = 0 /\ sinceNear = Grace + 1 /\ quiet = Grace + 1

IsNear(r) == \E s \in Side : r[s] = "near"

\* Variant with a bug: N/A always counts as below.
BelowThresholdOrNA(r, graceActive) == \A s \in Side : r[s] \in {"NA", "near"}

BelowThreshold(r, graceActive) ==
  IF \A s \in Side : r[s] # "NA"
    THEN \A s \in Side : r[s] = "near"
    ELSE graceActive /\ \A s \in Side : r[s] \in {"NA", "near"}

AboveThreshold(r) == \A s \in Side : r[s] = "far"

-----------------------------------------------------------------------------
\* Variant with a bug: near_until += near_grace_s.
GraceAdded(r) == IF IsNear(r) THEN graceLeft + Grace ELSE graceLeft

\* near_until as of this scan.
GraceAfter(r) == IF IsNear(r) THEN Grace ELSE graceLeft

Arm(below) == below /\ lowAge # None /\ lowAge >= Hold

\* Variants with a bug: an interruption does not reset low_since, and low_since
\* moves with every scan.
TimeHoldThrough(r) ==
  LET below == BelowThreshold(r, GraceAfter(r) >= 0)
  IN  /\ ~armed
      /\ lowAge' = IF below /\ lowAge = None THEN 0 ELSE lowAge
      /\ armed' = Arm(below)
      /\ UNCHANGED <<pc, delayLeft>>

TimeHoldSinceLastScan(r) ==
  LET below == BelowThreshold(r, GraceAfter(r) >= 0)
  IN  /\ ~armed
      /\ lowAge' = IF below THEN 0 ELSE None
      /\ armed' = Arm(below)
      /\ UNCHANGED <<pc, delayLeft>>

\* Timing the hold: start it, carry on, arm, or give up.
TimeHold(r) ==
  LET below == BelowThreshold(r, GraceAfter(r) >= 0)
  IN  /\ ~armed
      /\ lowAge' = IF ~below THEN None ELSE IF lowAge = None THEN 0 ELSE lowAge
      /\ armed' = Arm(below)
      /\ UNCHANGED <<pc, delayLeft>>

\* Armed: the first scan with both sides far starts the sleep.
AwaitRelease(r) ==
  /\ armed
  /\ IF AboveThreshold(r) THEN pc' = "delay" /\ delayLeft' = PostDelay
                          ELSE UNCHANGED <<pc, delayLeft>>
  /\ UNCHANGED <<lowAge, armed>>

Scan(r) ==
  /\ pc = "waiting"
  /\ graceLeft' = GraceAfter(r)
  /\ TimeHold(r) \/ AwaitRelease(r)
  /\ last' = r
  /\ sinceHigh' = IF \E s \in Side : r[s] \in {"at", "far"} THEN 0 ELSE sinceHigh
  /\ sinceNear' = IF IsNear(r) THEN 0 ELSE sinceNear
  /\ quiet' = sinceNear'

Tick ==
  /\ pc = "waiting" \/ (pc = "delay" /\ delayLeft > 0)
  /\ delayLeft' = IF pc = "delay" THEN delayLeft - 1 ELSE delayLeft
  /\ lowAge' = IF lowAge = None THEN None ELSE UpTo(lowAge, Hold)
  /\ graceLeft' = IF graceLeft >= 0 THEN graceLeft - 1 ELSE -1
  /\ sinceHigh' = UpTo(sinceHigh, Hold)
  /\ sinceNear' = UpTo(sinceNear, Grace + 1)
  /\ UNCHANGED <<pc, armed, last, quiet>>

Start ==
  /\ pc = "delay"
  /\ delayLeft = 0
  /\ pc' = "exit0"
  /\ UNCHANGED <<gate, delayLeft, history>>

\* An exception of the reader while waiting, or Ctrl-C at any time.
Fail ==
  /\ pc \in {"waiting", "delay"}
  /\ pc' = "exit1"
  /\ UNCHANGED <<gate, delayLeft, history>>

Next ==
  \/ \E r \in [Side -> Reading] : Scan(r)
  \/ Tick
  \/ Start
  \/ Fail

\* The lidar keeps turning, time passes, and the sleep returns.
Fairness == WF_vars(\E r \in [Side -> Reading] : Scan(r)) /\ WF_vars(Tick) /\ WF_vars(Start)

Spec == Init /\ [][Next]_vars /\ Fairness

-----------------------------------------------------------------------------
TypeOK ==
  /\ pc \in {"waiting", "delay", "exit0", "exit1"}
  /\ lowAge \in 0..Hold \cup {None} /\ graceLeft \in -1..Grace
  /\ armed \in BOOLEAN /\ delayLeft \in 0..PostDelay
  /\ last \in [Side -> Reading]
  /\ sinceHigh \in 0..Hold
  /\ sinceNear \in 0..(Grace + 1) /\ quiet \in 0..(Grace + 1)

(* Arming takes a full hold: no scan of the last Hold ticks, nor the one    *)
(* that arms, had a side at or above the threshold, however the timing was  *)
(* interrupted and restarted before (main loop, low_since).                 *)
ArmsAfterHold == [][~armed /\ armed' => sinceHigh' >= Hold]_vars

(* Sensor dropouts do not carry a hold: while it is being timed, the last   *)
(* scan was never more than the grace after one with a side near, so a      *)
(* lidar that only answers N/A stops the clock (near_until).                *)
DropoutEndsHold == ~armed /\ lowAge # None => quiet <= Grace

(* The gate answers the hand: both sides kept near arm it, and an armed     *)
(* gate whose sides become far starts the alignment, unless it fails.       *)
GateAnswers ==
  /\ <>[](\A s \in Side : last[s] = "near") => <>(armed \/ pc = "exit1")
  /\ <>armed /\ <>[](\A s \in Side : last[s] = "far") => <>(pc \in {"exit0", "exit1"})

==============================================================================
