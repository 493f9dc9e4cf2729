-------------------------- MODULE ChassisCan_proofs --------------------------
(***************************************************************************)
(* The safety of the chassis driver's two threads, for any set of          *)
(* commands, any number of wheels, any timeout and any send period.        *)
(***************************************************************************)
EXTENDS ChassisCan, TLAPS

USE DEF Thread, Goto, link, cycle, clock

-----------------------------------------------------------------------------
(* Type correctness, one step per action.                                   *)

LEMMA InitTypeOK == Init => TypeOK
<1> SUFFICES ASSUME Init PROVE TypeOK
  OBVIOUS
<1>1. pc \in [Thread -> MainPoint \cup RecvPoint] /\ pc["main"] = "spin" /\ pc["recv"] = "loop"
  BY DEF Init, MainPoint, RecvPoint
<1>2. AgeCap \in Nat /\ 0 \in 0..AgeCap /\ 0 \in 0..SendPeriod /\ 1 \in Wheels
  BY TimeAssumption, WheelAssumption DEF AgeCap, Wheels
<1>3. QED
  BY <1>1, <1>2, CommandAssumption DEF Init, TypeOK, MainPoint, RecvPoint

LEMMA NextTypeOK == TypeOK /\ [Next]_vars => TypeOK'
<1> SUFFICES ASSUME TypeOK, [Next]_vars PROVE TypeOK'
  OBVIOUS
<1> USE DEF TypeOK
<1>1. ASSUME NEW c \in Command, CmdVelCallback(c) PROVE TypeOK'
  <2>1. 0 \in 0..AgeCap
    BY TimeAssumption DEF AgeCap
  <2>2. QED  BY <1>1, <2>1 DEF CmdVelCallback
<1>2. CASE SendTimer
  <2>1. Payload \in Command /\ 0 \in 0..SendPeriod /\ 1 \in Wheels
    BY CommandAssumption, TimeAssumption, WheelAssumption DEF Payload, Wheels
  <2>2. QED  BY <1>2, <2>1 DEF SendTimer, MainPoint, RecvPoint
<1>3. CASE SendCheck
  BY <1>3 DEF SendCheck, OnOSError, MainPoint, RecvPoint
<1>4. CASE SendCall
  <2>1. CASE FrameSent
    <3>1. next # WheelCount => next + 1 \in Wheels
      BY WheelAssumption DEF Wheels
    <3>2. QED  BY <1>4, <2>1, <3>1 DEF SendCall, FrameSent, MainPoint, RecvPoint
  <2>2. CASE SendFails
    BY <1>4, <2>2 DEF SendCall, SendFails, OnOSError, OnAttributeError, MainPoint, RecvPoint
  <2>3. QED  BY <1>4, <2>1, <2>2 DEF SendCall
<1>5. CASE Destroy
  <2>1. 1 \in Wheels
    BY WheelAssumption DEF Wheels
  <2>2. QED  BY <1>5, <2>1, CommandAssumption DEF Destroy, MainPoint, RecvPoint
<1>6. CASE Join
  BY <1>6 DEF Join, MainPoint, RecvPoint
<1>7. ASSUME NEW t \in Thread, CloseCanSocket(t) PROVE TypeOK'
  BY <1>7 DEF CloseCanSocket, CloseCheck, CloseCall, CloseSet, OnAttributeError,
              AfterClose, MainPoint, RecvPoint
<1>8. CASE RecvThread
  BY <1>8 DEF RecvThread, RecvLoop, RecvTest, OpenCanSocket, RecvReturns, RecvFails,
              RecvSleep, OnAttributeError, MainPoint, RecvPoint
<1>9. CASE Interrupt
  BY <1>9 DEF Interrupt, MainPoint, RecvPoint
<1>10. CASE Tick
  <2>1. cmdAge' \in 0..AgeCap /\ sendAge' \in 0..SendPeriod
    BY <1>10, TimeAssumption DEF Tick, AgeCap
  <2>2. QED  BY <1>10, <2>1 DEF Tick
<1>11. CASE LinkFault
  BY <1>11 DEF LinkFault
<1>12. CASE LinkRepair
  BY <1>12 DEF LinkRepair
<1>13. CASE UNCHANGED vars
  BY <1>13 DEF vars
<1>14. QED
  BY <1>1, <1>2, <1>3, <1>4, <1>5, <1>6, <1>7, <1>8, <1>9, <1>10, <1>11, <1>12, <1>13
     DEF Next, MainStep, RecvStep

(* Both threads stay at their program points and every variable in its      *)
(* range (chassis_can_driver.py).                                           *)
THEOREM TypeCorrect == Spec => []TypeOK
  BY InitTypeOK, NextTypeOK, PTL DEF Spec

-----------------------------------------------------------------------------
(* The payload of a cycle stays valid while its frames go out: callbacks    *)
(* run on the same thread, and destroy_node changes it to a stop.           *)
InCycle == pc["main"] \in {"check", "send"}

FrameInv ==
  /\ pc["main"] = "spin" => running
  /\ InCycle => frame = Stop \/ (frame = target /\ running)

LEMMA FrameInvIsInvariant == Spec => []FrameInv
<1>1. Init => FrameInv
  BY DEF Init, FrameInv
<1>2. TypeOK /\ FrameInv /\ [Next]_vars => FrameInv'
  <2> SUFFICES ASSUME TypeOK, FrameInv, [Next]_vars PROVE FrameInv'
    OBVIOUS
  <2> USE DEF FrameInv, InCycle, TypeOK
  <2>1. ASSUME NEW c \in Command, CmdVelCallback(c) PROVE FrameInv'
    BY <2>1 DEF CmdVelCallback
  <2>2. CASE SendTimer
    BY <2>2 DEF SendTimer, Payload
  <2>3. CASE SendCheck
    BY <2>3 DEF SendCheck, OnOSError
  <2>4. CASE SendCall
    BY <2>4 DEF SendCall, FrameSent, SendFails, OnOSError, OnAttributeError
  <2>5. CASE Destroy
    BY <2>5 DEF Destroy
  <2>6. CASE Join
    BY <2>6 DEF Join
  <2>7. ASSUME NEW t \in Thread, CloseCanSocket(t) PROVE FrameInv'
    BY <2>7 DEF CloseCanSocket, CloseCheck, CloseCall, CloseSet, OnAttributeError, AfterClose
  <2>8. CASE RecvThread
    BY <2>8 DEF RecvThread, RecvLoop, RecvTest, OpenCanSocket, RecvReturns, RecvFails,
                RecvSleep, OnAttributeError
  <2>9. CASE Interrupt
    BY <2>9 DEF Interrupt
  <2>10. CASE Tick
    BY <2>10 DEF Tick
  <2>11. CASE LinkFault \/ LinkRepair
    BY <2>11 DEF LinkFault, LinkRepair
  <2>12. CASE UNCHANGED vars
    BY <2>12 DEF vars
  <2>13. QED
    BY <2>1, <2>2, <2>3, <2>4, <2>5, <2>6, <2>7, <2>8, <2>9, <2>10, <2>11, <2>12
       DEF Next, MainStep, RecvStep
<1>3. QED
  BY <1>1, <1>2, TypeCorrect, PTL DEF Spec

(* No frame of an abandoned or outdated cycle reaches the bus, and only     *)
(* stops once destroy_node has begun (_send_cmd_loop, destroy_node).        *)
THEOREM OnlyTheLatestCommandIsSent == Spec => FramesObeyLatestCommand
<1> DEFINE Obeys == \A w \in Wheels : motor'[w] # motor[w] =>
                       \/ motor'[w] = Stop
                       \/ motor'[w] = target /\ running
<1>1. TypeOK /\ FrameInv /\ [Next]_vars => [Obeys]_vars
  <2> SUFFICES ASSUME TypeOK, FrameInv, Next PROVE Obeys
    OBVIOUS
  <2>1. CASE SendCall
    <3>1. motor' = motor \/ motor' = [motor EXCEPT ![next] = frame]
      BY <2>1 DEF SendCall, FrameSent, SendFails
    <3>2. frame = Stop \/ (frame = target /\ running)
      BY <2>1 DEF FrameInv, InCycle, SendCall
    <3>3. QED
      BY <3>1, <3>2 DEF TypeOK
  <2>2. CASE ~SendCall
    <3>1. motor' = motor
      BY <2>2 DEF Next, MainStep, RecvStep, CmdVelCallback, SendTimer, SendCheck, Destroy,
                  Join, CloseCanSocket, RecvThread, Interrupt, Tick, LinkFault, LinkRepair
    <3>2. QED  BY <3>1
  <2>3. QED
    BY <2>1, <2>2
<1>2. QED
  BY <1>1, TypeCorrect, FrameInvIsInvariant, PTL DEF Spec, FramesObeyLatestCommand

-----------------------------------------------------------------------------
(* The inductive invariant behind the two stopping properties.  A driver    *)
(* whose link never failed keeps its socket open, and its receive thread in *)
(* the loop, until destroy_node has sent the stops; within a cycle the      *)
(* wheels already served obey its payload.                                  *)

Ending == pc["main"] \in {"join", "closeCheck", "close", "closeSet", "exited", "crashed"}

\* The command has been too old for longer than since the last cycle began.
Late == cmdAge > CommandTimeout + (IF pc["main"] = "spin" THEN sendAge ELSE SendPeriod)

Connected ==
  ~Ending => canSocket = "open" /\ pc["recv"] \in {"loop", "test", "recv", "done"}

EndedStopped == Ending => ~running /\ AllStopped

CycleInv ==
  InCycle => /\ \A w \in Wheels : w < next => motor[w] = frame
             /\ ~running \/ cmdAge > CommandTimeout => frame = Stop

Quiet ==
  /\ healthy
  /\ Connected
  /\ EndedStopped
  /\ pc["main"] = "spin" => running
  /\ CycleInv
  /\ Late => AllStopped

IInv == ~faultSeen => Quiet

LEMMA InitIInv == Init => IInv
<1> SUFFICES ASSUME Init, ~faultSeen PROVE Quiet
  BY DEF IInv
<1>1. ~(0 > CommandTimeout + 0)
  BY TimeAssumption
<1>2. QED
  BY <1>1 DEF Init, Quiet, Connected, EndedStopped, CycleInv, InCycle, Ending, Late

LEMMA NextIInv == TypeOK /\ IInv /\ [Next]_vars => IInv'
<1> SUFFICES ASSUME TypeOK, IInv, [Next]_vars, ~faultSeen' PROVE Quiet'
  BY DEF IInv
<1>1. ~faultSeen /\ healthy' = healthy
  <2>1. CASE LinkFault
    BY <2>1 DEF LinkFault
  <2>2. CASE LinkRepair
    BY <2>2 DEF LinkRepair, IInv, Quiet
  <2>3. CASE ~LinkFault /\ ~LinkRepair
    BY <2>3 DEF vars, Next, MainStep, RecvStep, CmdVelCallback, SendTimer, SendCheck, SendCall,
                Destroy, Join, CloseCanSocket, RecvThread, Interrupt, Tick
  <2>4. QED  BY <2>1, <2>2, <2>3
<1>2. Quiet
  BY <1>1 DEF IInv
<1> USE DEF Quiet, Connected, EndedStopped, CycleInv, InCycle, Ending, AllStopped, TypeOK
<1>3. ASSUME NEW c \in Command, CmdVelCallback(c) PROVE Quiet'
  <2>1. ~Late'
    BY <1>3, TimeAssumption DEF CmdVelCallback, Late
  <2>2. QED  BY <1>1, <1>2, <1>3, <2>1 DEF CmdVelCallback
<1>4. CASE SendTimer
  <2>1. Late' => Late
    BY <1>2, <1>4 DEF SendTimer, Late
  <2>2. cmdAge' > CommandTimeout => frame' = Stop
    BY <1>2, <1>4 DEF SendTimer, Payload
  <2>3. \A w \in Wheels : ~(w < next')
    BY <1>2, <1>4 DEF SendTimer, Wheels
  <2>4. QED  BY <1>1, <1>2, <1>4, <2>1, <2>2, <2>3 DEF SendTimer
<1>5. CASE SendCheck
  BY <1>1, <1>2, <1>5 DEF SendCheck, Late
<1>6. CASE SendCall
  <2>1. FrameSent
    BY <1>2, <1>6 DEF SendCall, SendFails
  <2>2. \A w \in Wheels : w < next \/ w = next => motor'[w] = frame'
    BY <1>2, <1>6, <2>1 DEF SendCall, FrameSent
  <2>3. Late => \A w \in Wheels : motor'[w] = Stop
    <3>1. Late => frame = Stop /\ AllStopped
      BY <1>2, <1>6, TimeAssumption DEF SendCall, Late
    <3>2. QED  BY <1>6, <2>1, <3>1 DEF SendCall, FrameSent
  <2>4. CASE next # WheelCount
    <3>1. \A w \in Wheels : w < next' => w < next \/ w = next
      BY <2>1, <2>4 DEF FrameSent, Wheels
    <3>2. pc'["main"] = "check" /\ pc'["recv"] = pc["recv"]
      BY <2>1, <2>4 DEF FrameSent
    <3>3. Late' => Late
      BY <1>6, <3>2 DEF SendCall, Late
    <3>4. QED  BY <1>1, <1>2, <1>6, <2>2, <2>3, <3>1, <3>2, <3>3 DEF SendCall
  <2>5. CASE next = WheelCount
    <3>1. \A w \in Wheels : motor'[w] = frame
      BY <1>6, <2>2, <2>5, WheelAssumption DEF SendCall, Wheels
    <3>2. pc'["main"] = (IF running THEN "spin" ELSE "join") /\ pc'["recv"] = pc["recv"]
      BY <2>1, <2>5 DEF FrameSent
    <3>3. Late' => frame = Stop
      BY <1>2, <1>6, <3>2, TimeAssumption DEF SendCall, Late
    <3>4. QED  BY <1>1, <1>2, <1>6, <3>1, <3>2, <3>3 DEF SendCall
  <2>6. QED  BY <2>4, <2>5
<1>7. CASE Destroy
  <2>1. Late' => Late
    BY <1>7 DEF Destroy, Late
  <2>2. \A w \in Wheels : ~(w < next')
    BY <1>7 DEF Destroy, Wheels
  <2>3. QED  BY <1>1, <1>2, <1>7, <2>1, <2>2 DEF Destroy
<1>8. CASE Join
  BY <1>1, <1>2, <1>8 DEF Join
<1>9. ASSUME NEW t \in Thread, CloseCanSocket(t) PROVE Quiet'
  BY <1>1, <1>2, <1>9 DEF CloseCanSocket, CloseCheck, CloseCall, CloseSet, OnAttributeError,
                          AfterClose, Late
<1>10. CASE RecvThread
  BY <1>1, <1>2, <1>10 DEF RecvThread, RecvLoop, RecvTest, OpenCanSocket, RecvReturns,
                           RecvFails, RecvSleep, OnAttributeError, Late
<1>11. CASE Interrupt
  <2>1. Late' => Late
    BY <1>11, TimeAssumption DEF Interrupt, Late
  <2>2. QED  BY <1>1, <1>2, <1>11, <2>1 DEF Interrupt
<1>12. CASE Tick
  <2>1. pc["main"] = "spin" /\ pc' = pc /\ sendAge' = sendAge + 1
    BY <1>2, <1>12 DEF Tick
  <2>2. Late' => Late
    BY <1>12, <2>1, TimeAssumption DEF Tick, Late, AgeCap
  <2>3. QED  BY <1>1, <1>2, <1>12, <2>1, <2>2 DEF Tick
<1>13. CASE LinkFault \/ LinkRepair
  BY <1>1, <1>2, <1>13 DEF LinkFault, LinkRepair
<1>14. CASE UNCHANGED vars
  BY <1>1, <1>2, <1>14 DEF vars, Late
<1>15. QED
  BY <1>3, <1>4, <1>5, <1>6, <1>7, <1>8, <1>9, <1>10, <1>11, <1>12, <1>13, <1>14
     DEF Next, MainStep, RecvStep

LEMMA IInvIsInvariant == Spec => []IInv
  BY InitIInv, NextIInv, TypeCorrect, PTL DEF Spec

(* The command timeout bounds the motion of the wheels (_send_cmd_loop).    *)
THEOREM TimeoutStopsTheWheels == Spec => []TimeoutStops
<1>1. TypeOK /\ IInv => TimeoutStops
  <2> SUFFICES ASSUME TypeOK, IInv, ~faultSeen, cmdAge > CommandTimeout + SendPeriod
               PROVE  AllStopped
    BY DEF TimeoutStops
  <2>1. Late
    BY TimeAssumption DEF Late, TypeOK
  <2>2. QED  BY <2>1 DEF IInv, Quiet
<1>2. QED
  BY <1>1, TypeCorrect, IInvIsInvariant, PTL

(* A driver whose link never failed leaves the wheels stopped, whenever and *)
(* wherever it is interrupted (destroy_node).                               *)
THEOREM ShutdownStopsTheWheels == Spec => []ShutdownStops
<1>1. TypeOK /\ IInv => ShutdownStops
  BY DEF TypeOK, IInv, Quiet, EndedStopped, Ending, ShutdownStops, Alive
<1>2. QED
  BY <1>1, TypeCorrect, IInvIsInvariant, PTL

==============================================================================
