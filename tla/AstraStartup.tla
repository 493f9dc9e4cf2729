---------------------------- MODULE AstraStartup ----------------------------
(***************************************************************************)
(* Several Astra cameras on one machine (device_num > 1): one process per  *)
(* camera, and every process tries every camera it sees until it finds the *)
(* one with its serial number.  They take turns by a named semaphore that  *)
(* the last to connect removes, counting in a shared memory segment        *)
(* (OBCameraNodeFactory, OBContext).  Processes are killed or told to end, *)
(* cameras come and go, a start fails, and cleanup_shm_node runs at any    *)
(* time.  A camera is named by the process that looks for it.  Not here:   *)
(* streams, parameters, and the races on device_ itself.                   *)
(***************************************************************************)
EXTENDS Naturals, FiniteSets

CONSTANTS
  Proc,      \* the processes, and the cameras
  MaxFaults  \* bound of the model: faults and ends

ASSUME ProcAssumption == IsFiniteSet(Proc) /\ Cardinality(Proc) > 1
ASSUME FaultAssumption == MaxFaults \in Nat

VARIABLES
  pc,         \* where the query thread stands; "off" without a process
  cur,        \* the camera it tries
  todo,       \* the rest of its device_list
  handle,     \* device_sem: the semaphore it opened, 0 for none
  known,      \* device_info_list_
  uri,        \* device_uri_ is set, to its own camera
  connected,  \* device_connected_
  leaving,    \* is_alive_ is false: the destructor waits for the thread
  name,       \* the semaphore behind the name, 0 for none
  value,      \* value of each semaphore
  counter,    \* the segment's number, 0 without a segment
  tool,       \* cleanup_shm_node: "off", or "opened"
  plugged,    \* external: the cameras on the bus
  faults,     \* how many of MaxFaults happened
  disturbed   \* history: something unusual touched the semaphore or the
              \* segment since they were last removed with no process running

thread == <<pc, cur, todo, handle>>
device == <<known, uri, connected>>
shared == <<name, value, counter>>
vars   == <<thread, device, leaving, shared, tool, plugged, faults, disturbed>>

DeviceNum == Cardinality(Proc)
Sems == 1..(DeviceNum + 1)
On == {p \in Proc : pc[p] # "off"}
Fresh == CHOOSE s \in Sems : s # name /\ \A p \in Proc : handle[p] # s

Init ==
  /\ pc = [p \in Proc |-> "off"] /\ cur = [p \in Proc |-> p]
  /\ todo = [p \in Proc |-> {}] /\ handle = [p \in Proc |-> 0]
  /\ known = [p \in Proc |-> {}] /\ uri = [p \in Proc |-> FALSE]
  /\ connected = [p \in Proc |-> FALSE] /\ leaving = [p \in Proc |-> FALSE]
  /\ name = 0 /\ value = [s \in Sems |-> 0] /\ counter = 0
  /\ tool = "off" /\ plugged \in SUBSET Proc /\ faults = 0 /\ disturbed = FALSE

Goes(p, from, to) == pc[p] = from /\ pc' = [pc EXCEPT ![p] = to]
\* A semaphore without a name is gone with the last process that has it open.
Frees(v) ==
  value' = [s \in Sems |-> IF s = name' \/ \E p \in Proc : handle'[p] = s THEN v[s] ELSE 0]

Fault == faults < MaxFaults /\ faults' = faults + 1

-----------------------------------------------------------------------------
(* queryDeviceThread and onDeviceConnected of process p.                    *)

\* init, and the first queryDeviceList, which asks the bus.
Launch(p) ==
  /\ Goes(p, "off", "loop")
  /\ todo' = [todo EXCEPT ![p] = plugged]
  /\ known' = [known EXCEPT ![p] = plugged]
  /\ UNCHANGED <<cur, handle, uri, connected, leaving, shared, tool, plugged, faults, disturbed>>

\* The loop and queryDeviceList, while no camera is connected.
Query(p) ==
  /\ pc[p] = "loop" /\ todo[p] = {} /\ ~leaving[p] /\ ~connected[p]
  /\ todo' = [todo EXCEPT ![p] = known[p]]
  /\ UNCHANGED <<pc, cur, handle, device, leaving, shared, tool, plugged, faults, disturbed>>

\* sem_open(O_CREAT, 1) for the next camera of the list; it may fail.
OpenSem(p, d) ==
  /\ pc[p] = "loop" /\ d \in todo[p]
  /\ todo' = [todo EXCEPT ![p] = @ \ {d}]
  /\ \/ /\ Goes(p, "loop", "wait")
        /\ cur' = [cur EXCEPT ![p] = d]
        /\ name' = IF name = 0 THEN Fresh ELSE name
        /\ value' = IF name = 0 THEN [value EXCEPT ![Fresh] = 1] ELSE value
        /\ handle' = [handle EXCEPT ![p] = name']
        /\ UNCHANGED <<counter, faults>>
     \/ Fault /\ UNCHANGED <<pc, cur, handle, shared>>
  /\ UNCHANGED <<device, leaving, tool, plugged, disturbed>>

\* sem_wait
Wait(p) ==
  /\ Goes(p, "wait", "probe")
  /\ value[handle[p]] > 0
  /\ value' = [value EXCEPT ![handle[p]] = @ - 1]
  /\ UNCHANGED <<cur, todo, handle, device, leaving, name, counter, tool, plugged, faults, disturbed>>

\* Variant with a bug: it posts before it returns, and its guard posts again.
LetsGoTwice(p) ==
  /\ handle' = [handle EXCEPT ![p] = 0] /\ cur' = [cur EXCEPT ![p] = p]
  /\ UNCHANGED name
  /\ Frees([value EXCEPT ![handle[p]] = @ + 2])

LetsGo(p) ==
  /\ handle' = [handle EXCEPT ![p] = 0] /\ cur' = [cur EXCEPT ![p] = p]
  /\ UNCHANGED name
  /\ Frees([value EXCEPT ![handle[p]] = @ + 1])

\* A signal ends sem_wait: the function returns, and its guard posts all the same.
Interrupted(p) ==
  /\ Fault /\ Goes(p, "wait", "loop")
  /\ LetsGo(p) /\ disturbed' = TRUE
  /\ UNCHANGED <<todo, device, leaving, counter, tool, plugged>>

\* External: another process holds the camera open to read its serial number.
Busy(d) == \E q \in Proc \ {d} : pc[q] = "leave" /\ cur[q] = d

\* Open, and compare the serial number: its own camera starts, unless the bus fails.
Probe(p) ==
  /\ pc[p] = "probe"
  /\ \/ /\ cur[p] = p /\ p \in plugged /\ ~Busy(p)
        /\ Goes(p, "probe", "start")
        /\ uri' = [uri EXCEPT ![p] = TRUE]
        /\ UNCHANGED faults
     \/ /\ cur[p] # p \/ p \notin plugged \/ Busy(p)
        /\ Goes(p, "probe", "leave")
        /\ UNCHANGED <<uri, faults>>
     \/ /\ Fault /\ Goes(p, "probe", "leave") /\ UNCHANGED uri
  /\ UNCHANGED <<cur, todo, handle, known, connected, leaving, shared, tool, plugged, disturbed>>

\* The rest of startDevice; a constructor that throws removes the shared objects.
Start(p) ==
  /\ Goes(p, "start", "count")
  /\ \/ /\ connected' = [connected EXCEPT ![p] = TRUE]
        /\ UNCHANGED <<name, counter, faults, disturbed>>
     \/ /\ Fault /\ name' = 0 /\ counter' = 0 /\ disturbed' = TRUE
        /\ UNCHANGED connected
  /\ UNCHANGED handle /\ Frees(value)
  /\ UNCHANGED <<cur, todo, known, uri, leaving, tool, plugged>>

Counting(p, last) ==
  /\ pc[p] = "count"
  /\ pc' = [pc EXCEPT ![p] = IF last THEN "leaveLast" ELSE "leave"]
  /\ UNCHANGED <<cur, todo, handle, device, leaving, name, value, tool, plugged, faults, disturbed>>

\* Variants with a bug: one camera too few; the segment of the last one stays.
CountOneShort(p) ==
  /\ Counting(p, counter + 1 >= DeviceNum - 1)
  /\ counter' = IF counter + 1 >= DeviceNum - 1 THEN 0 ELSE counter + 1
CountKeepsSegment(p) ==
  /\ Counting(p, counter + 1 >= DeviceNum)
  /\ counter' = counter + 1

\* The segment counts the starts, the failed ones too; the last removes it.
Count(p) ==
  /\ Counting(p, counter + 1 >= DeviceNum)
  /\ counter' = IF counter + 1 >= DeviceNum THEN 0 ELSE counter + 1

\* shmget or shmat fails: the start is not counted.
CountFails(p) ==
  /\ Fault /\ Goes(p, "count", "leave") /\ disturbed' = TRUE
  /\ UNCHANGED <<cur, todo, handle, device, leaving, shared, tool, plugged>>

\* Close what is not connected, and the guard's sem_post.
Leave(p) ==
  /\ \/ Goes(p, "leave", "loop")
     \/ Goes(p, "leaveLast", "unlink")
  /\ LetsGo(p)
  /\ UNCHANGED <<todo, device, leaving, counter, tool, plugged, faults, disturbed>>

\* The guard's sem_unlink, behind the last start.
Unlink(p) ==
  /\ Goes(p, "unlink", "loop")
  /\ name' = 0 /\ UNCHANGED handle /\ Frees(value)
  /\ UNCHANGED <<cur, todo, device, leaving, counter, tool, plugged, faults, disturbed>>

-----------------------------------------------------------------------------
(* The OpenNI event thread of process p (OBContext's listener).             *)
OnDeviceConnected(p, d) ==
  /\ p \in On /\ d \in plugged \ known[p]
  /\ known' = [known EXCEPT ![p] = @ \cup {d}]
  /\ UNCHANGED <<thread, uri, connected, leaving, shared, tool, plugged, faults, disturbed>>

OnDeviceDisconnected(p, d) ==
  /\ p \in On /\ d \in known[p] \ plugged
  /\ known' = [known EXCEPT ![p] = @ \ {d}]
  /\ IF d = p /\ uri[p]
       THEN /\ uri' = [uri EXCEPT ![p] = FALSE]
            /\ connected' = [connected EXCEPT ![p] = FALSE]
            /\ name' = 0 /\ disturbed' = TRUE
       ELSE UNCHANGED <<uri, connected, name, disturbed>>
  /\ UNCHANGED thread /\ Frees(value)
  /\ UNCHANGED <<leaving, counter, tool, plugged, faults>>

-----------------------------------------------------------------------------
(* The end of process p.                                                    *)
Forget(p) ==
  /\ pc' = [pc EXCEPT ![p] = "off"] /\ cur' = [cur EXCEPT ![p] = p]
  /\ todo' = [todo EXCEPT ![p] = {}] /\ handle' = [handle EXCEPT ![p] = 0]
  /\ known' = [known EXCEPT ![p] = {}]
  /\ uri' = [uri EXCEPT ![p] = FALSE] /\ connected' = [connected EXCEPT ![p] = FALSE]
  /\ leaving' = [leaving EXCEPT ![p] = FALSE]

\* External: killed anywhere; the kernel keeps the semaphore as it stood.
Crash(p) ==
  /\ Fault /\ p \in On
  /\ Forget(p) /\ disturbed' = TRUE
  /\ UNCHANGED <<name, counter, tool, plugged>> /\ Frees(value)

\* The destructor up to the join.
Stop(p) ==
  /\ Fault /\ p \in On /\ ~leaving[p]
  /\ leaving' = [leaving EXCEPT ![p] = TRUE]
  /\ connected' = [connected EXCEPT ![p] = FALSE] /\ disturbed' = TRUE
  /\ UNCHANGED <<thread, known, uri, shared, tool, plugged>>

\* The thread's loop ends, and the destructor behind the join: cleanUpSharedMemory.
End(p) ==
  /\ pc[p] = "loop" /\ todo[p] = {} /\ leaving[p]
  /\ Forget(p)
  /\ name' = 0 /\ counter' = 0 /\ disturbed' = (On # {p}) /\ Frees(value)
  /\ UNCHANGED <<tool, plugged, faults>>

-----------------------------------------------------------------------------
(* cleanup_shm_node: its sem_open creates a semaphore of value 0, which it  *)
(* then removes, and the segment.  The README runs it before the cameras,   *)
(* multi_dabai_pro.launch.xml starts it together with them (a fault).       *)
CleanUpOpen ==
  /\ tool = "off" /\ tool' = "opened"
  /\ (On = {} /\ UNCHANGED faults) \/ Fault
  /\ name' = IF name = 0 THEN Fresh ELSE name
  /\ value' = IF name = 0 THEN [value EXCEPT ![Fresh] = 0] ELSE value
  /\ UNCHANGED <<thread, device, leaving, counter, plugged, disturbed>>

RemovesAll ==
  /\ tool = "opened" /\ tool' = "off"
  /\ counter' = 0 /\ disturbed' = (On # {})
  /\ UNCHANGED <<thread, device, leaving, plugged, faults>>

\* Variant with a bug: the semaphore is closed and not removed.
CleanUpCloseOnly == RemovesAll /\ UNCHANGED <<name, value>>

CleanUpRemove == RemovesAll /\ name' = 0 /\ Frees(value)

(* External: the bus.  A camera comes back after its going has been heard.  *)
Plug(d) ==
  /\ d \notin plugged /\ \A p \in Proc : d \notin known[p]
  /\ plugged' = plugged \cup {d}
  /\ UNCHANGED <<thread, device, leaving, shared, tool, faults, disturbed>>

Unplug(d) ==
  /\ Fault /\ d \in plugged
  /\ plugged' = plugged \ {d}
  /\ UNCHANGED <<thread, device, leaving, shared, tool, disturbed>>

-----------------------------------------------------------------------------
QueryThread(p) ==
  \/ Query(p) \/ (\E d \in Proc : OpenSem(p, d)) \/ Probe(p) \/ Start(p)
  \/ Count(p) \/ Leave(p) \/ Unlink(p) \/ End(p)

EventThread(p) == \E d \in Proc : OnDeviceConnected(p, d) \/ OnDeviceDisconnected(p, d)

Next ==
  \/ \E p \in Proc : \/ Launch(p) \/ QueryThread(p) \/ Wait(p) \/ EventThread(p)
                     \/ Interrupted(p) \/ CountFails(p) \/ Crash(p) \/ Stop(p)
                     \/ Plug(p) \/ Unplug(p)
  \/ CleanUpOpen \/ CleanUpRemove

\* Threads are scheduled.  A process that finds no camera sleeps 100 ms with the
\* semaphore free, so whoever waits gets it in the end.
Spec ==
  /\ Init /\ [][Next]_vars
  /\ \A p \in Proc :
       WF_vars(QueryThread(p)) /\ SF_vars(Wait(p)) /\ WF_vars(EventThread(p))
  /\ WF_vars(CleanUpRemove)

-----------------------------------------------------------------------------
Inside(p) == pc[p] \in {"probe", "start", "count", "leave", "leaveLast"}

TypeOK ==
  /\ pc \in [Proc -> {"off", "loop", "wait", "probe", "start", "count",
                      "leave", "leaveLast", "unlink"}]
  /\ cur \in [Proc -> Proc] /\ todo \in [Proc -> SUBSET Proc]
  /\ handle \in [Proc -> 0..(DeviceNum + 1)] /\ known \in [Proc -> SUBSET Proc]
  /\ {uri, connected, leaving} \subseteq [Proc -> BOOLEAN]
  /\ name \in 0..(DeviceNum + 1) /\ value \in [Sems -> 0..(MaxFaults + 1)]
  /\ counter \in 0..(DeviceNum - 1) /\ tool \in {"off", "opened"}
  /\ plugged \subseteq Proc /\ faults \in 0..MaxFaults /\ disturbed \in BOOLEAN

(* A process that still looks for its camera tries cameras alone, although  *)
(* the last to connect removes the semaphore while others go on with their  *)
(* lists, and those create it again: as long as nothing unusual happened,   *)
(* and again after what killed processes left behind was cleaned up with no *)
(* process running (onDeviceConnected, cleanup_shm_node).                   *)
StartsAlone ==
  ~disturbed =>
    \A p, q \in Proc : (Inside(p) /\ ~connected[p] /\ Inside(q)) => p = q

Holders(s) == {p \in Proc : Inside(p) /\ handle[p] = s}

(* Each fault gives a semaphore one unit too many at most: never more       *)
(* processes than one, and one more for each signal, kill, failure or end   *)
(* so far, try cameras by one semaphore, also when sem_wait failed and the  *)
(* guard posts all the same, and when a semaphore is removed under those    *)
(* that hold it (onDeviceConnected, sem_guard).                             *)
UnitPerFault == \A s \in Sems : value[s] + Cardinality(Holders(s)) <= 1 + faults

(* All processes find their cameras, in whatever order they and the cameras *)
(* appear, and again after processes were killed anywhere and the shared    *)
(* objects cleaned up (onDeviceConnected, queryDeviceThread; README.MD's    *)
(* advice to run cleanup_shm_node).                                         *)
AllOn == On = Proc /\ plugged = Proc
AllConnect ==
  (AllOn /\ ~disturbed) ~> (disturbed \/ ~AllOn \/ \A p \in Proc : connected[p])
=============================================================================
