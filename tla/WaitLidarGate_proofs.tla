------------------------ MODULE WaitLidarGate_proofs ------------------------
(***************************************************************************)
(* Proofs about WaitLidarGate, for every hold, grace and delay.            *)
(***************************************************************************)
EXTENDS WaitLidarGate, TLAPS

\* The clocks the script keeps never run ahead of what the scans really said.
ClockInv ==
  /\ ~armed /\ lowAge # None => lowAge <= sinceHigh
  /\ graceLeft >= 0 => sinceNear + graceLeft <= Grace

Inv ==
  /\ TypeOK
  /\ ClockInv
  /\ DropoutEndsHold

(* A scan that counts as below the threshold has no side at or above it,    *)
(* and a side near now or within the grace (below_threshold).               *)
LEMMA BelowMeansNotHigh ==
  ASSUME NEW r \in [Side -> Reading], BelowThreshold(r, GraceAfter(r) >= 0)
  PROVE  /\ ~ \E s \in Side : r[s] \in {"at", "far"}
         /\ IsNear(r) \/ graceLeft >= 0
<1>1. CASE \A s \in Side : r[s] # "NA"
  <2>1. \A s \in Side : r[s] = "near"
    BY <1>1 DEF BelowThreshold
  <2>. QED BY <2>1 DEF IsNear, Side
<1>2. CASE ~ \A s \in Side : r[s] # "NA"
  <2>1. /\ GraceAfter(r) >= 0
        /\ \A s \in Side : r[s] \in {"NA", "near"}
    BY <1>2 DEF BelowThreshold
  <2>. QED BY <2>1 DEF GraceAfter
<1>. QED BY <1>1, <1>2

LEMMA InitInv == Init => Inv
<1>. SUFFICES ASSUME Init PROVE Inv
  OBVIOUS
<1>1. last \in [Side -> Reading]
  BY DEF Init, Reading
<1>2. TypeOK
  <2>1. graceLeft \in -1..Grace /\ sinceHigh \in 0..Hold /\ delayLeft \in 0..PostDelay
    BY GateAssumption DEF Init
  <2>2. sinceNear \in 0..(Grace + 1) /\ quiet \in 0..(Grace + 1)
    BY GateAssumption DEF Init
  <2>3. lowAge \in 0..Hold \cup {None} /\ armed \in BOOLEAN
    BY DEF Init
  <2>4. pc \in {"waiting", "delay", "exit0", "exit1"}
    BY DEF Init
  <2>. QED BY <1>1, <2>1, <2>2, <2>3, <2>4 DEF TypeOK
<1>. QED BY <1>2, GateAssumption DEF Init, Inv, ClockInv, DropoutEndsHold

LEMMA TickInv == Inv /\ Tick => Inv'
<1>. SUFFICES ASSUME Inv, Tick PROVE Inv'
  OBVIOUS
<1>. USE GateAssumption DEF Inv
<1>1. TypeOK'
  BY DEF TypeOK, Tick, UpTo, Side, Reading
<1>2. ClockInv'
  BY DEF TypeOK, Tick, UpTo, ClockInv
<1>3. DropoutEndsHold'
  BY DEF TypeOK, Tick, DropoutEndsHold
<1>. QED BY <1>1, <1>2, <1>3

LEMMA ScanInv == ASSUME NEW r \in [Side -> Reading], Inv, Scan(r) PROVE Inv'
<1>. USE GateAssumption DEF Inv
<1>1. TypeOK'
  <2>1. last' \in [Side -> Reading]
    BY DEF Scan
  <2>2. armed' \in BOOLEAN
    BY DEF TypeOK, Scan, TimeHold, AwaitRelease, Arm
  <2>3. graceLeft' \in -1..Grace /\ sinceHigh' \in 0..Hold
    BY DEF TypeOK, Scan, GraceAfter
  <2>4. sinceNear' \in 0..(Grace + 1) /\ quiet' \in 0..(Grace + 1)
    BY DEF TypeOK, Scan
  <2>5. lowAge' \in 0..Hold \cup {None}
    BY DEF TypeOK, Scan, TimeHold, AwaitRelease
  <2>6. pc' \in {"waiting", "delay", "exit0", "exit1"} /\ delayLeft' \in 0..PostDelay
    BY DEF TypeOK, Scan, TimeHold, AwaitRelease
  <2>. QED BY <2>1, <2>2, <2>3, <2>4, <2>5, <2>6 DEF TypeOK
<1>2. /\ graceLeft' >= 0 => sinceNear' + graceLeft' <= Grace
      /\ quiet' = sinceNear'
      /\ graceLeft' = GraceAfter(r)
  BY DEF TypeOK, Scan, ClockInv, GraceAfter
<1>3. CASE TimeHold(r)
  <2>1. CASE BelowThreshold(r, GraceAfter(r) >= 0)
    <3>1. ~ \E s \in Side : r[s] \in {"at", "far"}
      BY <2>1, BelowMeansNotHigh
    <3>2. sinceHigh' = sinceHigh
      BY <3>1 DEF Scan
    <3>3. sinceNear' <= Grace
      BY <2>1, <1>2, BelowMeansNotHigh DEF GraceAfter, TypeOK, Scan, ClockInv
    <3>4. ~armed' /\ lowAge' # None => lowAge' <= sinceHigh'
      BY <1>3, <3>2 DEF TimeHold, TypeOK, ClockInv
    <3>5. DropoutEndsHold'
      BY <3>3, <1>2 DEF DropoutEndsHold
    <3>. QED BY <1>1, <1>2, <3>4, <3>5 DEF ClockInv
  <2>2. CASE ~BelowThreshold(r, GraceAfter(r) >= 0)
    <3>1. lowAge' = None
      BY <1>3, <2>2 DEF TimeHold
    <3>. QED BY <1>1, <1>2, <3>1 DEF ClockInv, DropoutEndsHold
  <2>. QED BY <2>1, <2>2
<1>4. CASE AwaitRelease(r)
  <2>1. armed'
    BY <1>4 DEF AwaitRelease
  <2>. QED BY <1>1, <1>2, <2>1 DEF ClockInv, DropoutEndsHold
<1>. QED BY <1>3, <1>4 DEF Scan

(* The gate's invariant: every step keeps it.                               *)
LEMMA InvIsInvariant == Spec => []Inv
<1>1. ASSUME Inv, [Next]_vars PROVE Inv'
  <2>1. CASE \E r \in [Side -> Reading] : Scan(r)
    BY <1>1, <2>1, ScanInv
  <2>2. CASE Tick
    BY <1>1, <2>2, TickInv
  <2>3. CASE Start
    BY <1>1, <2>3 DEF Start, gate, history, Inv, TypeOK, ClockInv, DropoutEndsHold
  <2>4. CASE Fail
    BY <1>1, <2>4 DEF Fail, gate, history, Inv, TypeOK, ClockInv, DropoutEndsHold
  <2>5. CASE UNCHANGED vars
    BY <1>1, <2>5 DEF vars, gate, history, Inv, TypeOK, ClockInv, DropoutEndsHold
  <2>. QED BY <1>1, <2>1, <2>2, <2>3, <2>4, <2>5 DEF Next
<1>. QED BY InitInv, <1>1, PTL DEF Spec

(* Every variable of the gate keeps to its type (main).                     *)
THEOREM TypeCorrect == Spec => []TypeOK
BY InvIsInvariant, PTL DEF Inv

(* A hold that is being timed had a side near within the grace before its   *)
(* last scan, for every grace (near_until).                                 *)
THEOREM DropoutsEndTheHold == Spec => []DropoutEndsHold
BY InvIsInvariant, PTL DEF Inv

LEMMA ArmingStep ==
  ASSUME Inv, [Next]_vars PROVE [~armed /\ armed' => sinceHigh' >= Hold]_vars
<1>. SUFFICES ASSUME Next, ~armed, armed' PROVE sinceHigh' >= Hold
  BY DEF vars, gate
<1>. PICK r \in [Side -> Reading] : Scan(r)
  BY DEF Next, Tick, Start, Fail, gate
<1>1. TimeHold(r)
  BY DEF Scan, AwaitRelease
<1>2. BelowThreshold(r, GraceAfter(r) >= 0) /\ lowAge # None /\ lowAge >= Hold
  BY <1>1 DEF TimeHold, Arm
<1>3. sinceHigh' = sinceHigh
  BY <1>2, BelowMeansNotHigh DEF Scan
<1>. QED BY <1>2, <1>3, GateAssumption DEF Inv, TypeOK, ClockInv

(* The gate arms only after a full hold without a side at or above the      *)
(* threshold, for every length of the hold (low_since).                     *)
THEOREM ArmingTakesTheHold == Spec => ArmsAfterHold
<1>1. Inv /\ [Next]_vars => [~armed /\ armed' => sinceHigh' >= Hold]_vars
  BY ArmingStep
<1>. QED BY InvIsInvariant, <1>1, PTL DEF Spec, ArmsAfterHold

==============================================================================
