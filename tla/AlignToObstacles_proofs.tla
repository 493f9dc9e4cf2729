----------------------- MODULE AlignToObstacles_proofs -----------------------
(***************************************************************************)
(* Proofs about AlignToObstacles, for every source, timeout and period.    *)
(***************************************************************************)
EXTENDS AlignToObstacles, TLAPS

USE DEF Thread, Getting, MainPoint, ReaderPoint, Assigning, Alive

(* The reader stores the distances before their time and get_distances      *)
(* reads them after it, so neither order shows data older than their time.  *)
FreshInv ==
  /\ stampAge # None => serialAge <= stampAge
  /\ pc["reader"] = "stamp" => serialAge = 0
  /\ pc["main"] = "copy" => serialAge <= DataTimeout
  /\ FreshDistances

(* stop_sent can be relied on except between a publication and its reset,   *)
(* and in the finish that an untimely Ctrl-C starts from there.             *)
StopInv ==
  /\ ~untimely /\ stopSent /\ pc["main"] # "published" => lastCmd = "stop"
  /\ untimely => interrupted
  /\ interrupted => \/ pc["main"] \in {"finally", "exited"}
                    \/ pc["main"] \in Getting \cup {"act"} /\ doing = "finish"
  /\ pc["main"] \in Getting \cup {"act"} /\ doing = "control" => result = None
  /\ StopsAtExit

Inv == TypeOK /\ FreshInv /\ StopInv

LEMMA CapType == AgeCap \in Nat /\ 0 \in 0..AgeCap /\ RunCap \in Nat
BY TimeAssumption DEF AgeCap, RunCap

LEMMA OlderType ==
  ASSUME NEW age \in 0..AgeCap PROVE Older(age, AgeCap) \in 0..AgeCap
BY CapType, NoneAssumption DEF Older

LEMMA InitInv == Init => Inv
<1>. SUFFICES ASSUME Init PROVE Inv
  OBVIOUS
<1>. USE TimeAssumption, SourceAssumption DEF Init
<1>1. /\ pc \in [Thread -> MainPoint \cup ReaderPoint] /\ pc["main"] = "spin"
      /\ pc["reader"] \in {"off", "open"}
  OBVIOUS
<1>2. TypeOK
  <2>1. usedAge \in 0..AgeCap /\ serialAge \in 0..AgeCap /\ scanAge \in 0..AgeCap
    BY CapType
  <2>2. runAge \in 0..RunCap /\ controlAge \in 0..ControlPeriod
    BY CapType
  <2>. QED BY <1>1, <2>1, <2>2 DEF TypeOK
<1>3. FreshInv
  BY <1>1 DEF FreshInv, FreshDistances
<1>4. StopInv
  BY <1>1 DEF StopInv, StopsAtExit
<1>. QED BY <1>2, <1>3, <1>4 DEF Inv

-----------------------------------------------------------------------------
(* Each kind of step keeps the type.                                        *)

LEMMA TypeTick == TypeOK /\ Tick => TypeOK'
<1>. SUFFICES ASSUME TypeOK, Tick PROVE TypeOK'
  OBVIOUS
<1>. USE TimeAssumption, NoneAssumption DEF TypeOK
<1>1. serialAge' \in 0..AgeCap /\ scanAge' \in 0..AgeCap
  BY OlderType DEF Tick
<1>2. stampAge' \in 0..AgeCap \cup {None}
  BY OlderType DEF Tick, Older
<1>3. runAge' \in 0..RunCap
  BY CapType DEF Tick, Older
<1>4. controlAge' \in 0..ControlPeriod
  BY DEF Tick
<1>. QED BY <1>1, <1>2, <1>3, <1>4 DEF Tick, ctl, cmd, extern

LEMMA TypeReader == TypeOK /\ ReaderStep => TypeOK'
<1>. SUFFICES ASSUME TypeOK, ReaderStep PROVE TypeOK'
  OBVIOUS
<1>. USE TimeAssumption DEF TypeOK
<1>1. /\ pc' \in [Thread -> MainPoint \cup ReaderPoint]
      /\ pc'["main"] = pc["main"] /\ pc'["reader"] \in ReaderPoint
  BY DEF ReaderStep, OpenReader, StampDistances, ReadFails, ClearDistances, ClearTime,
     Retry, StoreDistances, Goto
<1>2. serial' \in Distances \cup {None} /\ serialError' \in BOOLEAN
  BY DEF ReaderStep, OpenReader, StampDistances, ReadFails, ClearDistances, ClearTime,
     Retry, StoreDistances, shared
<1>3. stampAge' \in 0..AgeCap \cup {None} /\ serialAge' \in 0..AgeCap
  BY CapType DEF ReaderStep, OpenReader, StampDistances, ReadFails, ClearDistances,
     ClearTime, Retry, StoreDistances, shared
<1>. QED BY <1>1, <1>2, <1>3 DEF ReaderStep, ctl, cmd, ros, clock, extern

LEMMA TypeCallback ==
  TypeOK /\ ((\E d \in Distances : OnScan(d)) \/ \E h \in Heading : OnOdom(h)) => TypeOK'
<1>1. ASSUME TypeOK, NEW d \in Distances, OnScan(d) PROVE TypeOK'
  BY <1>1, CapType DEF TypeOK, OnScan, ctl, cmd, shared, clock, extern
<1>2. ASSUME TypeOK, NEW h \in Heading, OnOdom(h) PROVE TypeOK'
  BY <1>2, CapType DEF TypeOK, OnOdom, ctl, cmd, shared, clock, extern, Heading
<1>. QED BY <1>1, <1>2

LEMMA TypeGet == TypeOK /\ GetDistances => TypeOK'
<1>. SUFFICES ASSUME TypeOK, GetDistances PROVE TypeOK'
  OBVIOUS
<1>. USE TimeAssumption DEF TypeOK
<1>1. /\ pc' \in [Thread -> MainPoint \cup ReaderPoint]
      /\ pc'["main"] \in MainPoint /\ pc'["reader"] = pc["reader"]
  BY DEF GetDistances, Return, Goto
<1>2. used' \in Distances \cup {None} /\ usedAge' \in 0..AgeCap
  <2>1. ASSUME NEW d \in Distances \cup {None}, Return(d)
        PROVE  used' \in Distances \cup {None} /\ usedAge' \in 0..AgeCap
    BY <2>1, CapType DEF Return
  <2>2. CASE UNCHANGED <<used, usedAge>>
    BY <2>2
  <2>. QED BY <2>1, <2>2 DEF GetDistances
<1>. QED BY <1>1, <1>2 DEF GetDistances, cmd, shared, ros, clock, extern

LEMMA TypeAct == TypeOK /\ Act => TypeOK'
<1>. SUFFICES ASSUME TypeOK, Act PROVE TypeOK'
  OBVIOUS
<1>. USE DEF TypeOK
<1>1. /\ pc' \in [Thread -> MainPoint \cup ReaderPoint]
      /\ pc'["main"] \in MainPoint /\ pc'["reader"] = pc["reader"]
  BY DEF Act, NoDistances, TargetMissing, Aligned, Drive, Finish, PublishStop, Publish,
     StartFinish, Goto
<1>2. doing' \in {"control", "finish"}
  BY DEF Act, NoDistances, TargetMissing, Aligned, Drive, StartFinish
<1>3. result' \in {None, "aligned", "failed"}
  BY DEF Act, NoDistances, TargetMissing, Aligned, Drive, Finish, Publish, cmd
<1>4. lastCmd' \in {"stop", "translate", "rotate"}
  BY DEF Act, NoDistances, TargetMissing, Aligned, Drive, Finish, PublishStop, Publish, cmd
<1>5. stopSent' \in BOOLEAN
  BY DEF Act, NoDistances, TargetMissing, Aligned, Drive, Finish, PublishStop, Publish, cmd
<1>6. used' \in Distances \cup {None} /\ usedAge' \in 0..AgeCap
  BY CapType DEF Act
<1>. QED BY <1>1, <1>2, <1>3, <1>4, <1>5, <1>6 DEF Act, shared, ros, clock, extern

LEMMA TypeRest ==
  TypeOK /\ (OnControl \/ ClearStopSent \/ LeaveLoop \/ Finally \/ Interrupt \/ ShutdownContext)
    => TypeOK'
<1>. USE TimeAssumption, CapType DEF TypeOK, Goto, StartFinish
<1>1. TypeOK /\ OnControl => TypeOK'
  BY DEF OnControl, cmd, shared, ros, extern
<1>2. ASSUME TypeOK, ClearStopSent PROVE TypeOK'
  <2>1. stopSent' \in BOOLEAN
    BY <1>2 DEF ClearStopSent
  <2>. QED BY <1>2, <2>1 DEF ClearStopSent, ctl, shared, ros, clock, extern
<1>3. TypeOK /\ LeaveLoop => TypeOK'
  BY DEF LeaveLoop, ctl, cmd, shared, ros, clock, extern
<1>4. ASSUME TypeOK, Finally PROVE TypeOK'
  <2>1. stopSent' \in BOOLEAN
    BY <1>4 DEF Finally, PublishStop
  <2>2. /\ pc' \in [Thread -> MainPoint \cup ReaderPoint]
        /\ pc'["main"] \in MainPoint /\ pc'["reader"] = pc["reader"]
    BY <1>4 DEF Finally, PublishStop
  <2>3. lastCmd' \in {"stop", "translate", "rotate"}
    BY <1>4 DEF Finally, PublishStop
  <2>. QED BY <1>4, <2>1, <2>2, <2>3 DEF Finally, ctl, shared, ros, clock, extern
<1>5. TypeOK /\ Interrupt => TypeOK'
  BY DEF Interrupt, cmd, shared, ros, clock
<1>6. TypeOK /\ ShutdownContext => TypeOK'
  BY DEF ShutdownContext, ctl, cmd, shared, ros, clock
<1>. QED BY <1>1, <1>2, <1>3, <1>4, <1>5, <1>6

LEMMA TypeStep == TypeOK /\ [Next]_vars => TypeOK'
<1>. SUFFICES ASSUME TypeOK, [Next]_vars PROVE TypeOK'
  OBVIOUS
<1>1. CASE Next
  BY <1>1, TypeTick, TypeReader, TypeCallback, TypeGet, TypeAct, TypeRest DEF Next, MainStep
<1>2. CASE UNCHANGED vars
  BY <1>2 DEF vars, ctl, cmd, shared, ros, clock, extern, TypeOK
<1>. QED BY <1>1, <1>2

-----------------------------------------------------------------------------
(* Freshness: one lemma per thread, and one for time.                       *)

LEMMA FreshReader == Inv /\ ReaderStep => FreshInv'
<1>. SUFFICES ASSUME Inv, ReaderStep PROVE FreshInv'
  OBVIOUS
<1>. USE TimeAssumption DEF Inv, TypeOK, FreshInv
<1>1. pc'["main"] = pc["main"] /\ serialAge' \in {serialAge, 0}
  BY DEF ReaderStep, OpenReader, StampDistances, ReadFails, ClearDistances, ClearTime,
     Retry, StoreDistances, Goto, shared
<1>2. stampAge' # None => serialAge' <= stampAge'
  BY NoneAssumption DEF ReaderStep, OpenReader, StampDistances, ReadFails, ClearDistances,
     ClearTime, Retry, StoreDistances, shared, AgeCap
<1>3. pc'["reader"] = "stamp" => serialAge' = 0
  BY DEF ReaderStep, OpenReader, StampDistances, ReadFails, ClearDistances, ClearTime,
     Retry, StoreDistances, Goto, shared
<1>4. FreshDistances'
  BY DEF ReaderStep, ctl, FreshDistances
<1>. QED BY <1>1, <1>2, <1>3, <1>4

LEMMA FreshTick == Inv /\ Tick => FreshInv'
<1>. SUFFICES ASSUME Inv, Tick PROVE FreshInv'
  OBVIOUS
<1>. USE TimeAssumption, CapType DEF Inv, TypeOK, FreshInv
<1>1. stampAge' # None => serialAge' <= stampAge'
  BY NoneAssumption DEF Tick, Older
<1>2. pc' = pc /\ pc["main"] = "spin" /\ pc["reader"] # "stamp"
  BY DEF Tick
<1>3. FreshDistances'
  BY DEF Tick, ctl, FreshDistances
<1>. QED BY <1>1, <1>2, <1>3

LEMMA FreshGet == Inv /\ GetDistances => FreshInv'
<1>. SUFFICES ASSUME Inv, GetDistances PROVE FreshInv'
  OBVIOUS
<1>. USE TimeAssumption DEF Inv, TypeOK, FreshInv
<1>1. /\ pc'["reader"] = pc["reader"]
      /\ serialAge' = serialAge /\ stampAge' = stampAge /\ scanAge' = scanAge
  BY DEF GetDistances, Return, Goto, shared, ros
<1>2. pc'["main"] = "copy" => serialAge <= DataTimeout
  <2>. SUFFICES ASSUME pc'["main"] = "copy" PROVE serialAge <= DataTimeout
    OBVIOUS
  <2>1. pc["main"] = "age" /\ stampAge # None /\ ~(stampAge > DataTimeout)
    BY DEF GetDistances, Return, Goto
  <2>. QED BY <2>1, NoneAssumption DEF AgeCap
<1>3. FreshDistances'
  <2>1. ASSUME NEW d, Return(d), d # None => serialAge <= DataTimeout
        PROVE  FreshDistances'
    BY <2>1 DEF Return, FreshDistances
  <2>2. CASE UNCHANGED <<used, usedAge>>
    BY <2>2 DEF FreshDistances
  <2>3. Return(None) => FreshDistances'
    BY <2>1
  <2>4. pc["main"] = "copy" /\ Return(serial) => FreshDistances'
    BY <2>1
  <2>. QED BY <2>2, <2>3, <2>4 DEF GetDistances
<1>. QED BY <1>1, <1>2, <1>3

LEMMA FreshRest ==
  Inv /\ (OnControl \/ Act \/ ClearStopSent \/ LeaveLoop \/ Finally \/ Interrupt
           \/ ShutdownContext \/ (\E d \in Distances : OnScan(d)) \/ \E h \in Heading : OnOdom(h))
    => FreshInv'
<1>. SUFFICES ASSUME Inv, \/ OnControl \/ Act \/ ClearStopSent \/ LeaveLoop \/ Finally
                          \/ Interrupt \/ ShutdownContext
                          \/ (\E d \in Distances : OnScan(d)) \/ (\E h \in Heading : OnOdom(h))
              PROVE FreshInv'
  OBVIOUS
<1>. USE DEF Inv, TypeOK
<1>1. serialAge' = serialAge /\ stampAge' = stampAge
  BY DEF OnControl, Act, ClearStopSent, LeaveLoop, Finally, Interrupt, ShutdownContext,
     OnScan, OnOdom, shared
<1>2. pc'["reader"] = pc["reader"]
  BY DEF OnControl, Act, ClearStopSent, LeaveLoop, Finally, Interrupt, ShutdownContext,
     OnScan, OnOdom, NoDistances, TargetMissing, Aligned, Drive, Finish, PublishStop,
     Publish, StartFinish, Goto
<1>3. pc'["main"] = "copy" => pc["main"] = "copy"
  BY DEF OnControl, Act, ClearStopSent, LeaveLoop, Finally, Interrupt, ShutdownContext,
     OnScan, OnOdom, NoDistances, TargetMissing, Aligned, Drive, Finish, PublishStop,
     Publish, StartFinish, Goto
<1>4. used' = None \/ UNCHANGED <<used, usedAge>>
  BY DEF OnControl, Act, ClearStopSent, LeaveLoop, Finally, Interrupt, ShutdownContext,
     OnScan, OnOdom, ctl
<1>. QED BY <1>1, <1>2, <1>3, <1>4 DEF FreshInv, FreshDistances

-----------------------------------------------------------------------------
(* Stopping: what each step of the main thread does to /cmd_vel.            *)

LEMMA StopAct == Inv /\ Act => StopInv'
<1>. SUFFICES ASSUME Inv, Act PROVE StopInv'
  OBVIOUS
<1>. USE DEF Inv, TypeOK, StopInv
<1>0. pc["main"] = "act" /\ UNCHANGED <<interrupted, untimely, contextUp>>
  BY DEF Act, extern
<1>1. CASE doing = "control" /\ NoDistances
  <2>1. /\ pc'["main"] \in {"test", "spin"}
        /\ pc'["main"] = "test" => doing' = "finish"
        /\ UNCHANGED <<result, stopSent, lastCmd>>
    BY <1>1 DEF NoDistances, StartFinish, Goto, cmd
  <2>. QED BY <1>0, <1>1, <2>1 DEF StopsAtExit
<1>2. CASE doing = "control" /\ TargetMissing
  <2>1. /\ pc'["main"] \in {"spin", "finally"}
        /\ stopSent' => stopSent \/ contextUp
        /\ lastCmd' = IF ~stopSent /\ contextUp THEN "stop" ELSE lastCmd
    BY <1>0, <1>2 DEF TargetMissing, PublishStop, Goto
  <2>. QED BY <1>0, <1>2, <2>1 DEF StopsAtExit
<1>3. CASE Finish("aligned") \/ Finish("failed")
  <2>1. /\ pc'["main"] \in {"spin", "finally"}
        /\ interrupted => pc'["main"] = "finally"
        /\ stopSent' => stopSent \/ contextUp
        /\ lastCmd' = IF ~stopSent /\ contextUp THEN "stop" ELSE lastCmd
    BY <1>0, <1>3 DEF Finish, PublishStop, Goto
  <2>. QED BY <1>0, <1>3, <2>1 DEF StopsAtExit
<1>4. CASE doing = "control" /\ Drive
  <2>1. /\ pc'["main"] \in {"published", "finally"}
        /\ pc'["main"] = "finally" => lastCmd' = lastCmd
        /\ stopSent' = stopSent
    BY <1>0, <1>4 DEF Drive, Publish, Goto
  <2>. QED BY <1>0, <1>4, <2>1 DEF StopsAtExit
<1>. QED BY <1>1, <1>2, <1>3, <1>4 DEF Act, Aligned

LEMMA StopGet == Inv /\ (GetDistances \/ OnControl) => StopInv'
<1>. SUFFICES ASSUME Inv, GetDistances \/ OnControl PROVE StopInv'
  OBVIOUS
<1>. USE DEF Inv, TypeOK, StopInv
<1>1. CASE GetDistances
  <2>1. /\ pc["main"] \in Getting /\ pc'["main"] \in Getting \cup {"act", "finally"}
        /\ UNCHANGED <<doing, result, stopSent, lastCmd, interrupted, untimely, contextUp>>
    BY <1>1 DEF GetDistances, Return, Goto, cmd, extern
  <2>. QED BY <2>1 DEF StopsAtExit
<1>2. CASE OnControl
  <2>1. /\ pc["main"] = "spin" /\ pc'["main"] = "test" /\ result = None
        /\ UNCHANGED <<result, stopSent, lastCmd, interrupted, untimely, contextUp>>
    BY <1>2 DEF OnControl, StartFinish, Goto, cmd, extern
  <2>. QED BY <2>1 DEF StopsAtExit
<1>. QED BY <1>1, <1>2

LEMMA StopRest ==
  Inv /\ (ClearStopSent \/ LeaveLoop \/ Finally \/ Interrupt \/ ShutdownContext) => StopInv'
<1>. USE DEF Inv, TypeOK, StopInv
<1>1. ASSUME Inv, ClearStopSent PROVE StopInv'
  <2>1. /\ pc["main"] = "published" /\ pc'["main"] = "spin" /\ stopSent' = FALSE
        /\ UNCHANGED <<doing, result, lastCmd, interrupted, untimely, contextUp>>
    BY <1>1 DEF ClearStopSent, Goto, ctl, extern
  <2>. QED BY <1>1, <2>1 DEF StopsAtExit
<1>2. ASSUME Inv, LeaveLoop PROVE StopInv'
  <2>1. /\ pc["main"] = "spin" /\ pc'["main"] = "finally"
        /\ UNCHANGED <<doing, result, stopSent, lastCmd, interrupted, untimely, contextUp>>
    BY <1>2 DEF LeaveLoop, Goto, ctl, cmd, extern
  <2>. QED BY <1>2, <2>1 DEF StopsAtExit
<1>3. ASSUME Inv, Finally PROVE StopInv'
  <2>1. /\ pc["main"] = "finally" /\ pc'["main"] = "exited"
        /\ stopSent' => stopSent \/ contextUp
        /\ lastCmd' = IF ~stopSent /\ contextUp THEN "stop" ELSE lastCmd
        /\ UNCHANGED <<doing, result, interrupted, untimely, contextUp>>
    BY <1>3 DEF Finally, PublishStop, Goto, ctl, extern
  <2>. QED BY <1>3, <2>1 DEF StopsAtExit
<1>4. ASSUME Inv, Interrupt PROVE StopInv'
  <2>1. /\ interrupted' = TRUE /\ ~interrupted
        /\ untimely' <=> pc["main"] \in {"published", "finally"}
        /\ \/ pc'["main"] = "exited" /\ pc["main"] = "finally"
           \/ pc'["main"] = "test" /\ doing' = "finish"
        /\ UNCHANGED <<stopSent, lastCmd>>
    BY <1>4 DEF Interrupt, StartFinish, Goto, cmd
  <2>. QED BY <1>4, <2>1 DEF StopsAtExit
<1>5. ASSUME Inv, ShutdownContext PROVE StopInv'
  BY <1>5 DEF ShutdownContext, ctl, cmd, StopsAtExit
<1>. QED BY <1>1, <1>2, <1>3, <1>4, <1>5

LEMMA StopOther ==
  Inv /\ (ReaderStep \/ Tick \/ (\E d \in Distances : OnScan(d)) \/ \E h \in Heading : OnOdom(h))
    => StopInv'
<1>. SUFFICES ASSUME Inv, \/ ReaderStep \/ Tick
                          \/ (\E d \in Distances : OnScan(d)) \/ (\E h \in Heading : OnOdom(h))
              PROVE StopInv'
  OBVIOUS
<1>1. /\ pc'["main"] = pc["main"]
      /\ UNCHANGED <<doing, result, stopSent, lastCmd, interrupted, untimely, contextUp>>
  BY DEF Inv, TypeOK, ReaderStep, OpenReader, StampDistances, ReadFails, ClearDistances,
     ClearTime, Retry, StoreDistances, Tick, OnScan, OnOdom, Goto, ctl, cmd, extern
<1>. QED BY <1>1 DEF Inv, StopInv, StopsAtExit

-----------------------------------------------------------------------------
LEMMA InvIsInvariant == Spec => []Inv
<1>1. Inv /\ [Next]_vars => Inv'
  <2>. SUFFICES ASSUME Inv, [Next]_vars PROVE Inv'
    OBVIOUS
  <2>1. TypeOK'
    BY TypeStep DEF Inv
  <2>2. CASE Next
    <3>1. FreshInv'
      BY <2>2, FreshReader, FreshTick, FreshGet, FreshRest DEF Next, MainStep
    <3>2. StopInv'
      BY <2>2, StopAct, StopGet, StopRest, StopOther DEF Next, MainStep
    <3>. QED BY <2>1, <3>1, <3>2 DEF Inv
  <2>3. CASE UNCHANGED vars
    BY <2>1, <2>3 DEF vars, ctl, cmd, shared, ros, clock, extern, Inv, FreshInv,
       FreshDistances, StopInv, StopsAtExit
  <2>. QED BY <2>2, <2>3
<1>. QED BY InitInv, <1>1, PTL DEF Spec

(* Every attribute of the node keeps to its type, whatever the source and   *)
(* the timeouts (AlignToObstacles).                                         *)
THEOREM TypeCorrect == Spec => []TypeOK
BY InvIsInvariant, PTL DEF Inv

(* A control cycle never works on distances older than data_timeout_s, in   *)
(* every interleaving with the reader thread (get_distances).               *)
THEOREM DistancesAreFresh == Spec => []FreshDistances
BY InvIsInvariant, PTL DEF Inv, FreshInv

(* The node's last command is a stop, however it ends, unless Ctrl-C came   *)
(* between a publish and the reset of stop_sent or in the finally clause    *)
(* (publish_stop, finally).                                                 *)
THEOREM ExitStops == Spec => []StopsAtExit
BY InvIsInvariant, PTL DEF Inv, StopInv

LEMMA RestStep ==
  ASSUME Inv, Next
  PROVE  /\ result' = "aligned" /\ result # "aligned"
              => used = "ok" /\ usedAge <= DataTimeout /\ lastCmd' = "stop"
         /\ result # None => lastCmd' \in {lastCmd, "stop"}
<1>. USE DEF Inv, TypeOK, StopInv
<1>1. CASE Act
  <2>1. ASSUME result' = "aligned", result # "aligned"
        PROVE  used = "ok" /\ usedAge <= DataTimeout /\ lastCmd' = "stop"
    <3>1. /\ doing = "control" /\ Aligned /\ pc["main"] = "act"
      BY <1>1, <2>1, NoneAssumption
         DEF Act, NoDistances, TargetMissing, Drive, Finish, Publish, cmd
    <3>2. ~interrupted
      BY <3>1
    <3>3. lastCmd' = "stop"
      BY <3>1, <3>2, <2>1 DEF Aligned, Finish, PublishStop
    <3>4. used # None
      BY <3>1, NoneAssumption DEF Aligned, Distances
    <3>. QED BY <3>1, <3>3, <3>4 DEF Aligned, FreshInv, FreshDistances
  <2>2. ASSUME result # None PROVE lastCmd' \in {lastCmd, "stop"}
    <3>1. doing = "finish"
      BY <1>1, <2>2 DEF Act
    <3>. QED BY <1>1, <3>1 DEF Act, Finish, PublishStop
  <2>. QED BY <2>1, <2>2
<1>2. CASE Finally
  BY <1>2 DEF Finally, PublishStop
<1>3. CASE ~Act /\ ~Finally
  BY <1>3 DEF Next, MainStep, OnControl, GetDistances, ClearStopSent, LeaveLoop, ReaderStep,
     OnScan, OnOdom, Interrupt, ShutdownContext, Tick, cmd
<1>. QED BY <1>1, <1>2, <1>3

(* Success is reported only for fresh distances within tolerance and with   *)
(* the chassis told to stop; nothing drives after a result (on_control).    *)
THEOREM AlignedIsAtRest == Spec => AlignedAtRest
<1>1. Inv /\ [Next]_vars
        => [/\ result' = "aligned" /\ result # "aligned"
                 => used = "ok" /\ usedAge <= DataTimeout /\ lastCmd' = "stop"
            /\ result # None => lastCmd' \in {lastCmd, "stop"}]_vars
  BY RestStep
<1>. QED BY InvIsInvariant, <1>1, PTL DEF Spec, AlignedAtRest

==============================================================================
