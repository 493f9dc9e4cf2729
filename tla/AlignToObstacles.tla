--------------------------- MODULE AlignToObstacles ---------------------------
(***************************************************************************)
(* align_to_obstacles.py: the node that drives the chassis to its target   *)
(* distances and exits.  Two threads of one process share the attributes   *)
(* serial_distances_mm, serial_time_monotonic and _serial_error without a  *)
(* lock:                                                                   *)
(*                                                                         *)
(*   "main"    the rclpy executor (on_scan, on_odom, on_control), then     *)
(*             the except and finally clauses of main();                   *)
(*   "reader"  the serial worker thread.                                   *)
(*                                                                         *)
(* A program point stands before each access to a shared attribute.  What  *)
(* the distances of the target directions amount to is all the control     *)
(* flow depends on: "NA" if one is missing, "ok" if all are within         *)
(* tolerance_mm, else "off"; a heading is "ok" or "off" by its distance to *)
(* lock_yaw.  How far the wheels turn for a command is WheelKinematics.    *)
(***************************************************************************)
EXTENDS Naturals

CONSTANTS
  Sources,        \* the values of --source
  DataTimeout,    \* data_timeout_s, in ticks
  Timeout,        \* timeout_s, in ticks; 0 for none
  ControlPeriod,  \* the period of on_control, in ticks
  None            \* Python's None

ASSUME SourceAssumption == Sources \subseteq {"auto", "ros", "serial"}
ASSUME TimeAssumption ==
  DataTimeout \in Nat /\ Timeout \in Nat /\ ControlPeriod \in Nat \ {0}

Distances == {"NA", "off", "ok"}
Heading   == {"off", "ok"}
ASSUME NoneAssumption == None \notin Distances \cup Heading \cup Nat

VARIABLES
  pc,          \* next program point of each thread
  source,      \* self.source_mode
  doing,       \* what get_distances was called for: "control" or "finish"
  used,        \* what get_distances returned last
  result,      \* self.result: None, "aligned" or "failed"
  stopSent,    \* self.stop_sent
  lastCmd,     \* the last twist published: "stop", "translate" or "rotate"
  serial,      \* self.serial_distances_mm
  stampAge,    \* None, or ticks since serial_time_monotonic
  serialError, \* self._serial_error is not None
  scan,        \* the distances in self.scan_msg, or None
  scanAge,     \* ticks since scan_time_monotonic
  yaw,         \* self.current_yaw against self.lock_yaw, or None
  runAge,      \* ticks since start_time_monotonic
  controlAge,  \* ticks since on_control was last due
  contextUp,   \* external: rclpy.ok()
  interrupted, \* history: Ctrl-C came
  untimely,    \* history: while stop_sent could not be believed, or in finally
  serialAge,   \* history: the true age of serial
  usedAge      \* history: the true age of used when it was read

shared == <<serial, stampAge, serialError, serialAge>>
ros    == <<scan, scanAge, yaw>>
clock  == <<runAge, controlAge>>
ctl    == <<doing, used, usedAge>>
cmd    == <<result, stopSent, lastCmd>>
extern == <<contextUp, interrupted, untimely>>
vars   == <<pc, source, ctl, cmd, shared, ros, clock, extern>>

Thread == {"main", "reader"}

AgeCap == DataTimeout + 1
RunCap == Timeout + 1

Getting == {"test", "testTime", "age", "copy"}   \* in get_distances
MainPoint   == {"spin", "act", "published", "finally", "exited"} \cup Getting
ReaderPoint == {"off", "open", "wait", "read", "stamp", "clear", "clearTime"}

Older(age, cap) == IF age = None \/ age = cap THEN age ELSE age + 1

Goto(t, point) == pc' = [pc EXCEPT ![t] = point]
Alive == pc["main"] # "exited"

-----------------------------------------------------------------------------
Init ==
  /\ source \in Sources
  /\ pc = [t \in Thread |->
             IF t = "main" THEN "spin" ELSE IF source = "ros" THEN "off" ELSE "open"]
  /\ doing = "control" /\ used = None /\ usedAge = 0
  /\ result = None /\ stopSent = FALSE /\ lastCmd = "stop"
  /\ serial = None /\ stampAge = None /\ serialError = FALSE /\ serialAge = 0
  /\ scan = None /\ scanAge = 0 /\ yaw = None
  /\ runAge = 0 /\ controlAge = 0
  /\ contextUp = TRUE /\ interrupted = FALSE /\ untimely = FALSE

-----------------------------------------------------------------------------
(* The serial worker thread.                                               *)

OpenReader ==
  /\ pc["reader"] = "open"
  /\ \/ serialError' = FALSE /\ Goto("reader", "read")
     \/ serialError' = TRUE /\ Goto("reader", "wait")
  /\ UNCHANGED <<serial, stampAge, serialAge>>

\* A full turn: the distances are assigned before their time.
StoreDistances(d) ==
  /\ pc["reader"] = "read"
  /\ serial' = d /\ serialAge' = 0
  /\ Goto("reader", "stamp")
  /\ UNCHANGED <<stampAge, serialError>>

StampDistances ==
  /\ pc["reader"] = "stamp"
  /\ stampAge' = 0
  /\ Goto("reader", "read")
  /\ UNCHANGED <<serial, serialError, serialAge>>

ReadFails ==
  /\ pc["reader"] = "read"
  /\ serialError' = TRUE
  /\ Goto("reader", "clear")
  /\ UNCHANGED <<serial, stampAge, serialAge>>

ClearDistances ==
  /\ pc["reader"] = "clear"
  /\ serial' = None
  /\ Goto("reader", "clearTime")
  /\ UNCHANGED <<stampAge, serialError, serialAge>>

\* Variant with a bug: the time is reset to 0.0.
ClearTimeToZero ==
  /\ pc["reader"] = "clearTime"
  /\ stampAge' = AgeCap + 1
  /\ Goto("reader", "wait")
  /\ UNCHANGED <<serial, serialError, serialAge>>

ClearTime ==
  /\ pc["reader"] = "clearTime"
  /\ stampAge' = None
  /\ Goto("reader", "wait")
  /\ UNCHANGED <<serial, serialError, serialAge>>

Retry ==
  /\ pc["reader"] = "wait"
  /\ Goto("reader", "open")
  /\ UNCHANGED shared

\* The thread is a daemon: it ends with the process.
ReaderStep ==
  /\ Alive
  /\ \/ OpenReader \/ StampDistances \/ ReadFails \/ ClearDistances \/ ClearTime \/ Retry
     \/ \E d \in Distances : StoreDistances(d)
  /\ UNCHANGED <<source, ctl, cmd, ros, clock, extern>>

-----------------------------------------------------------------------------
(* The executor's callbacks.                                               *)

\* External: the one lidar is either read by the worker or published on /scan.
OnScan(d) ==
  /\ pc["main"] = "spin"
  /\ source # "serial"
  /\ scan' = d /\ scanAge' = 0
  /\ UNCHANGED <<pc, source, ctl, cmd, shared, yaw, clock, extern>>

\* The first heading becomes lock_yaw.  Nothing reads the time stored with it.
OnOdom(h) ==
  /\ pc["main"] = "spin"
  /\ yaw' = IF yaw = None THEN "ok" ELSE h
  /\ UNCHANGED <<pc, source, ctl, cmd, shared, scan, scanAge, clock, extern>>

\* finish without final_mm, which calls get_distances first.
StartFinish == doing' = "finish" /\ Goto("main", "test")

\* Variant with a bug: the timeout is looked at only where there is data.
OnControlWithData ==
  /\ pc["main"] = "spin"
  /\ contextUp
  /\ controlAge = ControlPeriod
  /\ controlAge' = 0
  /\ result = None
  /\ IF Timeout > 0 /\ runAge > Timeout /\ serial # None
       THEN StartFinish
       ELSE doing' = "control" /\ Goto("main", "test")
  /\ UNCHANGED <<source, used, usedAge, cmd, shared, ros, runAge, extern>>

\* With a result it returns at once, and the loop ends.
OnControl ==
  /\ pc["main"] = "spin"
  /\ contextUp
  /\ controlAge = ControlPeriod
  /\ controlAge' = 0
  /\ result = None
  /\ IF Timeout > 0 /\ runAge > Timeout
       THEN StartFinish
       ELSE doing' = "control" /\ Goto("main", "test")
  /\ UNCHANGED <<source, used, usedAge, cmd, shared, ros, runAge, extern>>

\* Variant with a bug: a scan of any age is taken.
ReturnOldScan(d) ==
  LET takeScan == source = "ros" \/ (source = "auto" /\ scan # None)
  IN  /\ used' = IF takeScan THEN scan ELSE d
      /\ usedAge' = IF used' = None THEN 0 ELSE IF takeScan THEN scanAge ELSE serialAge
      /\ Goto("main", "act")

\* get_distances returns: d is its serial_distances.
Return(d) ==
  LET freshScan == scan # None /\ scanAge <= DataTimeout
      takeScan  == source = "ros" \/ (source = "auto" /\ freshScan)
  IN  /\ used' = IF ~takeScan THEN d ELSE IF freshScan THEN scan ELSE None
      /\ usedAge' = IF used' = None THEN 0 ELSE IF takeScan THEN scanAge ELSE serialAge
      /\ Goto("main", "act")

\* Comparing or copying None raises TypeError, which only finally sees.
GetDistances ==
  /\ \/ /\ pc["main"] = "test"
        /\ IF serial = None THEN Return(None)
                            ELSE Goto("main", "testTime") /\ UNCHANGED <<used, usedAge>>
     \/ /\ pc["main"] = "testTime"
        /\ IF stampAge = None THEN Return(None)
                              ELSE Goto("main", "age") /\ UNCHANGED <<used, usedAge>>
     \/ /\ pc["main"] = "age"
        /\ IF stampAge # None /\ stampAge > DataTimeout
             THEN Return(None)
             ELSE /\ Goto("main", IF stampAge = None THEN "finally" ELSE "copy")
                  /\ UNCHANGED <<used, usedAge>>
     \/ /\ pc["main"] = "copy"
        /\ IF serial = None THEN Goto("main", "finally") /\ UNCHANGED <<used, usedAge>>
                            ELSE Return(serial)
  /\ UNCHANGED <<source, doing, cmd, shared, ros, clock, extern>>

\* publish_stop on its way to point; publishing on a context that is down raises.
PublishStop(point) ==
  /\ Goto("main", IF stopSent \/ contextUp THEN point
                  ELSE IF pc["main"] = "finally" THEN "exited" ELSE "finally")
  /\ lastCmd' = IF ~stopSent /\ contextUp THEN "stop" ELSE lastCmd
  /\ stopSent' = (stopSent \/ contextUp)

\* Variant with a bug: the stop is left to the finally clause.
FinishMoving(outcome) ==
  /\ Goto("main", IF interrupted THEN "finally" ELSE "spin")
  /\ result' = outcome
  /\ UNCHANGED <<stopSent, lastCmd>>

\* The rest of finish, called from on_control or from the except clause.
Finish(outcome) ==
  /\ PublishStop(IF interrupted THEN "finally" ELSE "spin")
  /\ result' = IF stopSent \/ contextUp THEN outcome ELSE result

YawLocked == yaw # "off"   \* without odometry the heading counts as held

Publish(c) ==
  /\ Goto("main", IF contextUp THEN "published" ELSE "finally")
  /\ lastCmd' = IF contextUp THEN c ELSE lastCmd
  /\ UNCHANGED <<result, stopSent>>

NoDistances ==
  /\ used = None
  /\ IF \/ source = "serial" /\ serialError
        \/ source = "ros" /\ scan # None /\ scanAge > DataTimeout
       THEN StartFinish
       ELSE Goto("main", "spin") /\ UNCHANGED doing
  /\ UNCHANGED cmd

TargetMissing == used = "NA" /\ PublishStop("spin") /\ UNCHANGED <<result, doing>>

Aligned == used = "ok" /\ YawLocked /\ Finish("aligned") /\ UNCHANGED doing

Drive ==
  /\ used = "off" \/ (used = "ok" /\ ~YawLocked)
  /\ Publish(IF YawLocked THEN "translate" ELSE "rotate")
  /\ UNCHANGED doing

\* on_control from get_distances on, or the end of finish; used is local to both.
Act ==
  /\ pc["main"] = "act"
  /\ \/ doing = "control" /\ (NoDistances \/ TargetMissing \/ Aligned \/ Drive)
     \/ doing = "finish" /\ Finish("failed") /\ UNCHANGED doing
  /\ used' = None /\ usedAge' = 0
  /\ UNCHANGED <<source, shared, ros, clock, extern>>

\* Variant with a bug: driving leaves stop_sent as it was.
KeepStopSent ==
  /\ pc["main"] = "published"
  /\ Goto("main", "spin")
  /\ UNCHANGED <<source, ctl, cmd, shared, ros, clock, extern>>

\* After cmd_pub.publish.
ClearStopSent ==
  /\ pc["main"] = "published"
  /\ stopSent' = FALSE
  /\ Goto("main", "spin")
  /\ UNCHANGED <<source, ctl, result, lastCmd, shared, ros, clock, extern>>

-----------------------------------------------------------------------------
(* main()                                                                  *)

LeaveLoop ==
  /\ pc["main"] = "spin"
  /\ result # None \/ ~contextUp
  /\ Goto("main", "finally")
  /\ UNCHANGED <<source, ctl, cmd, shared, ros, clock, extern>>

Finally ==
  /\ pc["main"] = "finally"
  /\ PublishStop("exited")
  /\ UNCHANGED <<source, ctl, result, shared, ros, clock, extern>>

\* Ctrl-C, once: the except clause calls finish, in finally it ends the process.
Interrupt ==
  /\ Alive /\ ~interrupted
  /\ interrupted' = TRUE /\ untimely' = (pc["main"] \in {"published", "finally"})
  /\ IF pc["main"] = "finally" THEN Goto("main", "exited") /\ UNCHANGED doing
                               ELSE StartFinish
  /\ used' = None /\ usedAge' = 0
  /\ UNCHANGED <<source, cmd, shared, ros, clock, contextUp>>

\* External: rclpy's signal handling shuts the context down.
ShutdownContext ==
  /\ Alive /\ contextUp
  /\ contextUp' = FALSE
  /\ UNCHANGED <<pc, source, ctl, cmd, shared, ros, clock, interrupted, untimely>>

\* Between two assignments of the worker.
Assigning == {"stamp", "clear", "clearTime"}

\* A callback is short against a tick, as is the worker's way from one assignment
\* to the next, and a due timer is served before the next tick.
Tick ==
  /\ pc["main"] = "spin"
  /\ pc["reader"] \notin Assigning
  /\ controlAge < ControlPeriod
  /\ controlAge' = controlAge + 1
  /\ runAge' = IF Timeout = 0 THEN 0 ELSE Older(runAge, RunCap)
  /\ stampAge' = Older(stampAge, AgeCap)
  /\ serialAge' = Older(serialAge, AgeCap)
  /\ scanAge' = Older(scanAge, AgeCap)
  /\ UNCHANGED <<pc, source, ctl, cmd, serial, serialError, scan, yaw, extern>>

MainStep == OnControl \/ GetDistances \/ Act \/ ClearStopSent \/ LeaveLoop \/ Finally

Next ==
  \/ MainStep
  \/ ReaderStep
  \/ \E d \in Distances : OnScan(d)
  \/ \E h \in Heading : OnOdom(h)
  \/ Interrupt
  \/ ShutdownContext
  \/ Tick

\* The executor thread runs, the worker finishes what it is assigning, and time
\* passes however many messages arrive; the lidar and odometry may be silent.
Fairness ==
  /\ WF_vars(MainStep)
  /\ WF_vars(ReaderStep /\ pc["reader"] \in Assigning)
  /\ SF_vars(Tick)

Spec == Init /\ [][Next]_vars /\ Fairness

-----------------------------------------------------------------------------
TypeOK ==
  /\ pc \in [Thread -> MainPoint \cup ReaderPoint]
  /\ pc["main"] \in MainPoint /\ pc["reader"] \in ReaderPoint
  /\ source \in Sources /\ doing \in {"control", "finish"}
  /\ used \in Distances \cup {None} /\ usedAge \in 0..AgeCap
  /\ result \in {None, "aligned", "failed"}
  /\ stopSent \in BOOLEAN /\ lastCmd \in {"stop", "translate", "rotate"}
  /\ serial \in Distances \cup {None} /\ stampAge \in 0..AgeCap \cup {None}
  /\ serialError \in BOOLEAN /\ serialAge \in 0..AgeCap
  /\ scan \in Distances \cup {None} /\ scanAge \in 0..AgeCap
  /\ yaw \in Heading \cup {None}
  /\ runAge \in 0..RunCap /\ controlAge \in 0..ControlPeriod
  /\ {contextUp, interrupted, untimely} \subseteq BOOLEAN

(* However the reader thread and get_distances interleave, what a control   *)
(* cycle works on was measured within data_timeout_s: the time is stored    *)
(* after the distances and read before them.                                *)
FreshDistances == used # None => usedAge <= DataTimeout

(* Whatever ends the node - success, failure, the TypeError of a reader     *)
(* that failed in the middle of get_distances, Ctrl-C almost anywhere - its *)
(* last word on /cmd_vel is a stop.  Excepted are Ctrl-C between a publish  *)
(* and the reset of stop_sent, or in the finally clause, and a context that *)
(* is shut down already (publish_stop, stop_sent, finally).                 *)
StopsAtExit == ~Alive /\ contextUp /\ ~untimely => lastCmd = "stop"

(* Reporting success takes fresh distances within tolerance and a chassis   *)
(* told to stop, and once a result stands nothing drives any more           *)
(* (on_control, finish).                                                    *)
AlignedAtRest ==
  [][/\ result' = "aligned" /\ result # "aligned"
          => used = "ok" /\ usedAge <= DataTimeout /\ lastCmd' = "stop"
     /\ result # None => lastCmd' \in {lastCmd, "stop"}]_vars

(* With a timeout the node ends, even with neither lidar nor odometry       *)
(* (on_control checks the timeout before it looks for data).                *)
EndsByTimeout == Timeout > 0 => <>(~Alive)

==============================================================================
