------------------------------ MODULE ChassisCan ------------------------------
(***************************************************************************)
(* The CAN side of the chassis driver, chassis_can_driver.py: two threads  *)
(* of one process share the attribute self.can_socket without a lock.      *)
(*                                                                         *)
(*   "main"  the rclpy executor: cmd_vel_callback, the send timer          *)
(*           _send_cmd_loop, and destroy_node after spin() is left;        *)
(*   "recv"  the daemon thread _recv_loop, which alone reopens the socket. *)
(*                                                                         *)
(* A program point stands before each read of self.can_socket that another *)
(* thread can invalidate.  Reading the attribute and calling the method on *)
(* it is one step: a close that falls between the two makes the call fail  *)
(* with OSError, which is an outcome of the call anyway.                   *)
(*                                                                         *)
(* A command is a model value, and a frame is the command its payload was  *)
(* computed from: motor[w] is the command wheel w last received, which the *)
(* wheel controller obeys until the next frame.  How a command becomes     *)
(* four speeds, and what heading hold does to it first, is DriveCommand    *)
(* (neither turns a Stop into motion).                                     *)
(***************************************************************************)
EXTENDS Naturals

CONSTANTS
  Command,         \* what /cmd_vel can ask for
  Stop,            \* the command whose four wheel speeds are zero
  WheelCount,      \* Len(WHEEL_NAMES)
  CommandTimeout,  \* command_timeout, in ticks
  SendPeriod       \* send_period, in ticks

ASSUME CommandAssumption == Stop \in Command
ASSUME WheelAssumption   == WheelCount \in Nat \ {0}
ASSUME TimeAssumption    == CommandTimeout \in Nat /\ SendPeriod \in Nat \ {0}

VARIABLES
  pc,         \* next program point of each thread
  canSocket,  \* self.can_socket: "None", an "open" socket, or a "closed" one
  running,    \* self._running
  target,     \* self.target_cmd
  cmdAge,     \* ticks since last_cmd_time, saturating at AgeCap
  sendAge,    \* ticks since the send timer last fired
  frame,      \* payload of the cycle being sent
  next,       \* the wheel whose frame goes out next
  motor,      \* external: the command each wheel controller obeys
  healthy,    \* external: the CAN link accepts every call
  faultSeen   \* history: the link has failed at least once

link  == <<healthy, faultSeen>>
cycle == <<frame, next, motor>>
clock == <<cmdAge, sendAge>>
vars  == <<pc, canSocket, running, target, clock, cycle, link>>

Thread == {"main", "recv"}
Wheels == 1..WheelCount

\* The ages are only compared with the timeout and the period, so they may
\* saturate just above both.
AgeCap == CommandTimeout + SendPeriod + 1

MainPoint == {"spin", "check", "send", "closeCheck", "close", "closeSet",
              "destroy", "join", "exited", "crashed"}
RecvPoint == {"loop", "test", "open", "recv", "closeCheck", "close", "closeSet",
              "sleep", "done", "dead"}

Alive == pc["main"] \notin {"exited", "crashed"}

Goto(t, point) == pc' = [pc EXCEPT ![t] = point]

-----------------------------------------------------------------------------
\* __init__: the first open may fail; the wheels still obey whatever an earlier
\* process sent them.
Init ==
  /\ pc = [t \in Thread |-> IF t = "main" THEN "spin" ELSE "loop"]
  /\ running = TRUE
  /\ target = Stop
  /\ cmdAge = 0 /\ sendAge = 0
  /\ frame = Stop /\ next = 1
  /\ motor \in [Wheels -> Command]
  /\ healthy \in BOOLEAN
  /\ faultSeen = ~healthy
  /\ canSocket \in IF healthy THEN {"open"} ELSE {"open", "None"}

-----------------------------------------------------------------------------
(* External: the link and time.  While the link is healthy a send does not *)
(* block and the executor serves a due timer before the next tick.         *)

LinkFault ==
  /\ Alive /\ healthy
  /\ healthy' = FALSE /\ faultSeen' = TRUE
  /\ UNCHANGED <<pc, canSocket, running, target, clock, cycle>>

LinkRepair ==
  /\ Alive /\ ~healthy
  /\ healthy' = TRUE
  /\ UNCHANGED <<pc, canSocket, running, target, clock, cycle, faultSeen>>

Tick ==
  /\ Alive
  /\ healthy => pc["main"] = "spin" /\ sendAge < SendPeriod
  /\ cmdAge' = IF cmdAge < AgeCap THEN cmdAge + 1 ELSE cmdAge
  /\ sendAge' = IF sendAge < SendPeriod THEN sendAge + 1 ELSE sendAge
  /\ UNCHANGED <<pc, canSocket, running, target, cycle, link>>

-----------------------------------------------------------------------------
(* The executor thread.                                                    *)

\* Variant with a bug: a second executor thread runs the callback during a cycle.
CmdVelCallbackDuringCycle(c) ==
  /\ Alive
  /\ target' = c
  /\ cmdAge' = 0
  /\ UNCHANGED <<pc, canSocket, running, sendAge, cycle, link>>

CmdVelCallback(c) ==
  /\ pc["main"] = "spin"
  /\ target' = c
  /\ cmdAge' = 0
  /\ UNCHANGED <<pc, canSocket, running, sendAge, cycle, link>>

\* The payload of a cycle: zero once the last command is older than the timeout.
Payload == IF cmdAge > CommandTimeout THEN Stop ELSE target

\* Variant with a bug: an expired command sends nothing instead of zeros.
SendTimerSilentOnceExpired ==
  /\ pc["main"] = "spin"
  /\ sendAge = SendPeriod
  /\ sendAge' = 0
  /\ IF canSocket = "None" \/ cmdAge > CommandTimeout
       THEN UNCHANGED <<pc, frame, next>>
       ELSE /\ frame' = Payload
            /\ next' = 1
            /\ Goto("main", "check")
  /\ UNCHANGED <<canSocket, running, target, cmdAge, motor, link>>

SendTimer ==
  /\ pc["main"] = "spin"
  /\ sendAge = SendPeriod
  /\ sendAge' = 0
  /\ IF canSocket = "None"
       THEN UNCHANGED <<pc, frame, next>>
       ELSE /\ frame' = Payload
            /\ next' = 1
            /\ Goto("main", "check")
  /\ UNCHANGED <<canSocket, running, target, cmdAge, motor, link>>

\* An OSError in the send loop closes the socket; in destroy_node it is passed over.
OnOSError == Goto("main", IF running THEN "closeCheck" ELSE "join")

\* AttributeError is caught nowhere: it leaves spin() for the finally clause of
\* main(), and leaves destroy_node for the end of the process.
OnAttributeError(t) ==
  Goto(t, CASE t = "recv"             -> "dead"
            [] t = "main" /\ running  -> "destroy"
            [] t = "main" /\ ~running -> "crashed")

SendCheck ==
  /\ pc["main"] = "check"
  /\ IF canSocket = "None" THEN OnOSError ELSE Goto("main", "send")
  /\ UNCHANGED <<canSocket, running, target, clock, cycle, link>>

\* Variant with a bug: one wheel too many.
FrameSentTooFar ==
  /\ canSocket = "open"
  /\ motor' = [motor EXCEPT ![next] = frame]
  /\ IF next > WheelCount
       THEN /\ Goto("main", IF running THEN "spin" ELSE "join")
            /\ UNCHANGED next
       ELSE /\ Goto("main", "check")
            /\ next' = next + 1

FrameSent ==
  /\ canSocket = "open"
  /\ motor' = [motor EXCEPT ![next] = frame]
  /\ IF next = WheelCount
       THEN /\ Goto("main", IF running THEN "spin" ELSE "join")
            /\ UNCHANGED next
       ELSE /\ Goto("main", "check")
            /\ next' = next + 1

SendFails ==
  /\ \/ canSocket = "None" /\ OnAttributeError("main")
     \/ canSocket = "closed" /\ OnOSError
     \/ canSocket = "open" /\ ~healthy /\ OnOSError
  /\ UNCHANGED <<next, motor>>

SendCall ==
  /\ pc["main"] = "send"
  /\ FrameSent \/ SendFails
  /\ UNCHANGED <<canSocket, running, target, clock, frame, link>>

\* Ctrl-C or a context shutdown: control leaves spin() wherever it is.
Interrupt ==
  /\ running
  /\ pc["main"] \in {"spin", "check", "send", "closeCheck", "close", "closeSet"}
  /\ Goto("main", "destroy")
  /\ UNCHANGED <<canSocket, running, target, clock, cycle, link>>

\* Variant with a bug: the node leaves the bus without zero frames.
DestroyWithoutStop ==
  /\ pc["main"] = "destroy"
  /\ running' = FALSE
  /\ Goto("main", "join")
  /\ UNCHANGED <<canSocket, target, clock, cycle, link>>

\* destroy_node: stop the threads' loop, then send four zero frames if connected.
Destroy ==
  /\ pc["main"] = "destroy"
  /\ running' = FALSE
  /\ frame' = Stop
  /\ next' = 1
  /\ Goto("main", IF canSocket = "None" THEN "join" ELSE "check")
  /\ UNCHANGED <<canSocket, target, clock, motor, link>>

\* join(timeout=1.0) returns when the receive thread has ended or after a second.
Join ==
  /\ pc["main"] = "join"
  /\ Goto("main", "closeCheck")
  /\ UNCHANGED <<canSocket, running, target, clock, cycle, link>>

-----------------------------------------------------------------------------
(* _close_can_socket, called by both threads.                              *)

AfterClose(t) ==
  CASE t = "recv"             -> "sleep"
    [] t = "main" /\ running  -> "spin"
    [] t = "main" /\ ~running -> "exited"

CloseCheck(t) ==
  /\ pc[t] = "closeCheck"
  /\ Goto(t, IF canSocket = "None" THEN "closeSet" ELSE "close")
  /\ UNCHANGED canSocket

CloseCall(t) ==
  /\ pc[t] = "close"
  /\ IF canSocket = "None"
       THEN OnAttributeError(t) /\ UNCHANGED canSocket
       ELSE Goto(t, "closeSet") /\ canSocket' = "closed"

CloseSet(t) ==
  /\ pc[t] = "closeSet"
  /\ canSocket' = "None"
  /\ Goto(t, AfterClose(t))

CloseCanSocket(t) ==
  /\ Alive
  /\ CloseCheck(t) \/ CloseCall(t) \/ CloseSet(t)
  /\ UNCHANGED <<running, target, clock, cycle, link>>

-----------------------------------------------------------------------------
(* The receive thread, which dies with the process.                        *)

RecvLoop ==
  /\ pc["recv"] = "loop"
  /\ Goto("recv", IF running THEN "test" ELSE "done")
  /\ UNCHANGED canSocket

RecvTest ==
  /\ pc["recv"] = "test"
  /\ Goto("recv", IF canSocket = "None" THEN "open" ELSE "recv")
  /\ UNCHANGED canSocket

\* Variant with a bug: a failed open ends the thread instead of retrying.
OpenCanSocketOnce ==
  /\ pc["recv"] = "open"
  /\ \/ canSocket' = "open" /\ Goto("recv", "recv")
     \/ ~healthy /\ canSocket' = "None" /\ Goto("recv", "done")

OpenCanSocket ==
  /\ pc["recv"] = "open"
  /\ \/ canSocket' = "open" /\ Goto("recv", "recv")
     \/ ~healthy /\ canSocket' = "None" /\ Goto("recv", "sleep")

\* A frame (handled by WheelFeedback), a short read or a timeout.
RecvReturns ==
  /\ pc["recv"] = "recv"
  /\ canSocket = "open"
  /\ Goto("recv", "loop")
  /\ UNCHANGED canSocket

RecvFails ==
  /\ pc["recv"] = "recv"
  /\ \/ canSocket = "None" /\ OnAttributeError("recv")
     \/ canSocket = "closed" /\ Goto("recv", "closeCheck")
     \/ canSocket = "open" /\ ~healthy /\ Goto("recv", "closeCheck")
  /\ UNCHANGED canSocket

RecvSleep ==
  /\ pc["recv"] = "sleep"
  /\ Goto("recv", "loop")
  /\ UNCHANGED canSocket

RecvThread ==
  /\ Alive
  /\ RecvLoop \/ RecvTest \/ OpenCanSocket \/ RecvReturns \/ RecvFails \/ RecvSleep
  /\ UNCHANGED <<running, target, clock, cycle, link>>

-----------------------------------------------------------------------------
MainStep ==
  SendTimer \/ SendCheck \/ SendCall \/ Destroy \/ Join \/ CloseCanSocket("main")

RecvStep == RecvThread \/ CloseCanSocket("recv")

Next ==
  \/ \E c \in Command : CmdVelCallback(c)
  \/ MainStep
  \/ RecvStep
  \/ Interrupt
  \/ Tick
  \/ LinkFault
  \/ LinkRepair

\* Both threads are scheduled and time passes; nobody need send commands,
\* interrupt the process, or repair the link.
Fairness == WF_vars(MainStep) /\ WF_vars(RecvStep) /\ WF_vars(Tick)

Spec == Init /\ [][Next]_vars /\ Fairness

-----------------------------------------------------------------------------
TypeOK ==
  /\ pc \in [Thread -> MainPoint \cup RecvPoint]
  /\ pc["main"] \in MainPoint /\ pc["recv"] \in RecvPoint
  /\ canSocket \in {"None", "open", "closed"}
  /\ running \in BOOLEAN
  /\ target \in Command
  /\ cmdAge \in 0..AgeCap /\ sendAge \in 0..SendPeriod
  /\ frame \in Command /\ next \in Wheels /\ motor \in [Wheels -> Command]
  /\ healthy \in BOOLEAN /\ faultSeen \in BOOLEAN

AllStopped == \A w \in Wheels : motor[w] = Stop

(* command_timeout is a bound on the wheels, not only on one cycle: as long *)
(* as the link has not failed, no wheel still turns once the last command   *)
(* is more than a timeout and a send period old, whatever an earlier        *)
(* process left the wheels doing (_send_cmd_loop, `expired`).               *)
TimeoutStops ==
  ~faultSeen /\ cmdAge > CommandTimeout + SendPeriod => AllStopped

(* Wherever Ctrl-C finds the driver - half-way through a cycle too - a      *)
(* process whose link never failed leaves all wheels stopped when it ends,  *)
(* even if destroy_node itself ends in the close race (destroy_node).       *)
ShutdownStops == ~faultSeen /\ ~Alive => AllStopped

(* A wheel is never sent anything but a stop or the newest command, and     *)
(* never anything but a stop once destroy_node has begun: no frame of an    *)
(* abandoned or outdated cycle reaches the bus (_send_cmd_loop).            *)
FramesObeyLatestCommand ==
  [][\A w \in Wheels : motor'[w] # motor[w] =>
       \/ motor'[w] = Stop
       \/ motor'[w] = target /\ running]_vars

(* Recovery: once the link stays up, the driver runs on and its receive     *)
(* thread survived, an expired command ends with all wheels stopped, even   *)
(* after a cycle that failed between two wheels (_recv_loop reopening the   *)
(* socket that _send_cmd_loop closed).                                      *)
StopsOnceLinkRecovers ==
  <>[](healthy /\ running /\ pc["recv"] # "dead" /\ cmdAge > CommandTimeout)
    => <>[]AllStopped

(* The warning of __init__ "the first open of CAN failed, will reconnect    *)
(* automatically": as long as the node runs, the thread that reconnects is  *)
(* alive.  The code breaks it: _recv_loop reads self.can_socket again after *)
(* its check, and a send error of the executor can set it to None between.  *)
ReconnectThreadAlive == running => pc["recv"] # "dead"

==============================================================================
