----------------------------- MODULE LidarDriver -----------------------------
(***************************************************************************)
(* The laser scanner's ROS node with its driver: a receive thread          *)
(* (SerialInterfaceLinux::RxThreadProc) reads packets, cuts them into turns*)
(* (LidarFrames) and leaves the newest turn behind one mutex and a flag    *)
(* behind another; main polls the flag at 10 Hz, takes the turn and        *)
(* publishes it, and on shutdown closes the port under the receive thread  *)
(* and joins it.  Packets are lost on the line, a read returns whatever has*)
(* piled up, and the motor may stop.  A point is its number (LidarFrames). *)
(***************************************************************************)
EXTENDS LidarFrames

CONSTANTS
  MaxRead,     \* bound of the model: packets one read may return
  FirstPacket, \* the packet the scanner is about to send when the node starts
  LastPacket   \* bound of the model: packets the scanner sends

ASSUME BoundAssumption ==
  MaxRead \in Nat /\ LastPacket \in Nat /\ FirstPacket \in 0..LastPacket

VARIABLES
  main,       \* where main stands
  rx,         \* where the receive thread stands; "none" before Open
  handle,     \* com_handle_ is a descriptor, not -1
  exitFlag,   \* rx_thread_exit_flag_
  shutdown,   \* external: SIGINT came, rclcpp::ok() is false
  powerOn,    \* is_poweron_comm_normal_
  spinning,   \* speed_ > 0
  stamped,    \* last_pkg_timestamp_ is set
  vec,        \* tmp_lidar_scan_data_vec_, as a set of points
  scan,       \* lidar_scan_data_vec_, as a set of points
  ready,      \* is_frame_ready_
  sent,       \* external: packets the scanner has sent
  lost,       \* external: the last of them was lost
  made,       \* history: frames put behind the mutex
  got,        \* which of them laser_scan_points is, by its number
  heard       \* history: points parsed since the turn of the newest frame

threads == <<main, rx, handle, exitFlag, shutdown>>
stream  == <<powerOn, spinning, stamped, vec, sent, lost, heard>>
inbox   == <<scan, ready, made>>
vars    == <<threads, stream, inbox, got>>

Init ==
  /\ main = "connect" /\ rx = "none" /\ handle = FALSE /\ exitFlag = FALSE
  /\ shutdown = FALSE
  /\ powerOn = FALSE /\ spinning = FALSE /\ stamped = FALSE /\ vec = {}
  /\ sent = FirstPacket /\ lost = FALSE /\ heard = {}
  /\ scan = {} /\ ready = FALSE /\ made = 0 /\ got = 0

-----------------------------------------------------------------------------
(* The receive thread.                                                      *)
RxGoes(from, to) == rx = from /\ rx' = to /\ UNCHANGED <<main, handle, exitFlag, shutdown>>

\* while (!rx_thread_exit_flag_)
RxTest ==
  /\ RxGoes("test", IF exitFlag THEN "done" ELSE "read")
  /\ UNCHANGED <<stream, inbox, got>>

\* pselect times out, or the descriptor was closed under it.
RxNothing == RxGoes("read", "test") /\ UNCHANGED <<stream, inbox, got>>

\* FD_SET(-1) is undefined: it reads nothing (RxNothing), or glibc's check aborts.
RxAborts ==
  /\ rx = "read" /\ ~handle
  /\ rx' = "done" /\ main' = "aborted"
  /\ UNCHANGED <<handle, exitFlag, shutdown, stream, inbox, got>>

\* What one read returns: the next n packets less the lost ones, no two of them
\* in a row (a longer gap can hide the end of a turn from AssemblePacket).
Arrivals(n) ==
  {a \in SUBSET (1..n) : \A k \in 1..n : k \in a \/ (IF k = 1 THEN ~lost ELSE k - 1 \in a)}

Newest(points) == {p \in points : \A q \in scan' : TurnOf(p) >= TurnOf(q)}

\* CommReadCallback up to SetLaserScanData: Parse, then AssemblePacket once.  The
\* first packet only starts the clock; a scanner that stands still empties vec.
RxRead(n, arrived, spins, vanish) ==
  LET points  == Parsed(PerPacket * sent, n, arrived)
      stamps  == arrived # {} /\ ~stamped
      added   == IF stamps THEN points \ Packet(PerPacket * sent, Min(arrived)) ELSE points
      turning == IF arrived = {} THEN spinning ELSE spins
      result  == IF turning THEN Assembled(vec \cup added, vanish) ELSE [frame |-> {}, rest |-> {}]
  IN  /\ rx = "read" /\ handle /\ sent + n <= LastPacket
      /\ sent' = sent + n /\ lost' = (n \notin arrived)
      /\ powerOn' = (powerOn \/ arrived # {})
      /\ spinning' = turning /\ stamped' = (stamped \/ stamps)
      /\ vec' = result.rest
      /\ IF result.frame = {}
           THEN RxGoes("read", "test") /\ UNCHANGED <<scan, made>>
           ELSE RxGoes("read", "flag") /\ scan' = result.frame /\ made' = made + 1
      /\ heard' = IF turning THEN Newest(heard \cup added) ELSE heard \cap scan'
      /\ UNCHANGED <<ready, got>>

\* SetFrameReady
RxFlag ==
  /\ RxGoes("flag", "test")
  /\ ready' = TRUE
  /\ UNCHANGED <<stream, scan, made, got>>

RxThread ==
  \/ RxTest \/ RxNothing \/ RxAborts \/ RxFlag
  \/ \E n \in 1..MaxRead, spins, vanish \in BOOLEAN :
       \E arrived \in Arrivals(n) : RxRead(n, arrived, spins, vanish)

-----------------------------------------------------------------------------
(* main.                                                                    *)
MainGoes(from, to) == main = from /\ main' = to /\ UNCHANGED shutdown

\* Variant with a bug: the receive thread is started before the port is opened.
ConnectThreadFirst ==
  \/ /\ MainGoes("connect", "connect")
     /\ rx = "none" /\ rx' = "test" /\ exitFlag' = FALSE
     /\ UNCHANGED <<handle, stream, inbox, got>>
  \/ /\ MainGoes("connect", "comm")
     /\ rx # "none" /\ handle' = TRUE
     /\ UNCHANGED <<exitFlag, rx, stream, inbox, got>>

\* Connect: Open starts the receive thread, or the port cannot be opened.
Connect ==
  \/ /\ MainGoes("connect", "comm")
     /\ handle' = TRUE /\ exitFlag' = FALSE /\ rx' = "test"
     /\ UNCHANGED <<stream, inbox, got>>
  \/ /\ MainGoes("connect", "failed")
     /\ UNCHANGED <<handle, exitFlag, rx, stream, inbox, got>>

\* WaitLidarComm: a packet came, or none did for 3.5 s.
WaitLidarComm ==
  /\ MainGoes("comm", IF powerOn THEN "poll" ELSE "failed")
  /\ powerOn' = FALSE
  /\ UNCHANGED <<rx, handle, exitFlag, spinning, stamped, vec, sent, lost, heard, inbox, got>>

\* The loop's test and IsFrameReady; without a frame, sleep and ask again.
Poll ==
  /\ MainGoes("poll", IF shutdown THEN "stop" ELSE "reset")
  /\ shutdown \/ ready
  /\ UNCHANGED <<rx, handle, exitFlag, stream, inbox, got>>

\* Variant with a bug: the turn is copied before the flag is reset.
TakeThenReset ==
  \/ /\ MainGoes("reset", "copy")
     /\ got' = made
     /\ UNCHANGED <<rx, handle, exitFlag, stream, inbox>>
  \/ /\ MainGoes("copy", "publish")
     /\ ready' = FALSE
     /\ UNCHANGED <<rx, handle, exitFlag, stream, scan, made, got>>

\* GetLaserScanData: ResetFrameReady, then copy whatever turn is there by now.
Take ==
  \/ /\ MainGoes("reset", "copy")
     /\ ready' = FALSE
     /\ UNCHANGED <<rx, handle, exitFlag, stream, scan, made, got>>
  \/ /\ MainGoes("copy", "publish")
     /\ got' = made
     /\ UNCHANGED <<rx, handle, exitFlag, stream, inbox>>

\* The two publishing functions (LaserScan), and the sleep behind them.
Publish ==
  /\ MainGoes("publish", "poll")
  /\ UNCHANGED <<rx, handle, exitFlag, stream, inbox, got>>

\* Variant with a bug: the receive thread is not told to end.
CloseUntold ==
  /\ MainGoes("stop", "close")
  /\ UNCHANGED <<rx, handle, exitFlag, stream, inbox, got>>

\* Close, step by step: the exit flag, the descriptor, the join.
SetExitFlag ==
  /\ MainGoes("stop", "close")
  /\ exitFlag' = TRUE
  /\ UNCHANGED <<rx, handle, stream, inbox, got>>

CloseHandle ==
  /\ MainGoes("close", "join")
  /\ handle' = FALSE
  /\ UNCHANGED <<rx, exitFlag, stream, inbox, got>>

Join ==
  /\ MainGoes("join", "destroy")
  /\ rx = "done"
  /\ UNCHANGED <<rx, handle, exitFlag, stream, inbox, got>>

\* Destory frees the data the receive thread works on.
Destroy ==
  /\ MainGoes("destroy", "ended")
  /\ UNCHANGED <<rx, handle, exitFlag, stream, inbox, got>>

MainThread ==
  \/ Connect \/ WaitLidarComm \/ Poll \/ Take \/ Publish
  \/ SetExitFlag \/ CloseHandle \/ Join \/ Destroy

\* External: the user or the launch system ends the node.
Interrupt ==
  /\ ~shutdown /\ shutdown' = TRUE
  /\ UNCHANGED <<main, rx, handle, exitFlag, stream, inbox, got>>

Running == main \notin {"ended", "failed", "aborted"}

Next == Running /\ (RxThread \/ MainThread \/ Interrupt)

\* Each thread is scheduled, and pselect returns after 100 ms at the latest.
Spec == Init /\ [][Next]_vars /\ WF_vars(Running /\ RxThread) /\ WF_vars(Running /\ MainThread)

-----------------------------------------------------------------------------
Points == 0..(LastPacket * PerPacket - 1)

TypeOK ==
  /\ main \in {"connect", "comm", "poll", "reset", "copy", "publish", "stop", "close",
               "join", "destroy", "ended", "failed", "aborted"}
  /\ rx \in {"none", "test", "read", "flag", "done"}
  /\ {handle, exitFlag, shutdown, powerOn, spinning, stamped, ready, lost}
       \subseteq BOOLEAN
  /\ vec \subseteq Points /\ scan \subseteq Points
  /\ heard \subseteq Points
  /\ sent \in 0..LastPacket /\ made \in 0..LastPacket /\ got \in 0..made

(* Between the two mutexes no frame is lost: when the flag is down, and     *)
(* neither thread stands between its two steps, main has the newest turn    *)
(* (SetLaserScanData, SetFrameReady; ResetFrameReady, GetLaserScanData).    *)
NothingStranded == ready \/ rx = "flag" \/ main = "copy" \/ got = made

(* A frame is one turn of the scanner, all of it that arrived: packets lost *)
(* one at a time, reads that return less or more than a turn, a motor that  *)
(* stops and a turn the filter empties neither join two turns nor cut one.  *)
(* A turn the motor stopped in starts anew where it goes on: AssemblePacket *)
(* was emptied, and what came before the stop is not missed (AssemblePacket *)
(* and its two thresholds).                                                 *)
FrameIsOneTurn ==
  scan # {} => \E p \in scan : scan = {q \in heard : TurnOf(q) = TurnOf(p)}

(* The receive thread selects on a descriptor that is not there only in a   *)
(* node that was told to end: Open has it before the thread starts, a       *)
(* scanner that stays silent ends the node with the port still open, and    *)
(* only Close, behind the loop, takes it away under the thread.  So what    *)
(* FD_SET(-1) may do never costs a node that is wanted (Open, Close,        *)
(* ReadFromIO, demo.cpp's main).                                            *)
AbortsOnlyAtShutdown == main = "aborted" => shutdown

(* A node told to end ends, whatever the scanner and the receive thread are *)
(* doing: the join cannot hang (Close, RxThreadProc).                       *)
EndsOnShutdown == shutdown ~> ~Running

(* The node and its driver keep the mailbox's promise.                      *)
Mailbox == INSTANCE FrameMailbox
             WITH closed <- main \in {"stop", "close", "join", "destroy",
                                     "ended", "failed", "aborted"}
KeepsMailbox == Mailbox!Spec

=============================================================================
