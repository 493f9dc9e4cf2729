------------------------ MODULE AstraStartup_proofs ------------------------
(***************************************************************************)
(* Proofs about AstraStartup, for any number of cameras and faults: until  *)
(* something disturbs the semaphore or the counter, the processes try      *)
(* cameras one at a time; and how much worse each fault makes it.          *)
(***************************************************************************)
EXTENDS AstraStartup, FiniteSetTheorems, TLAPS

Waiting == {"wait", "probe", "start", "count", "leave", "leaveLast"}   \* device_sem is open
Points  == {"off", "loop", "unlink"} \cup Waiting

\* What holds whatever happened.
Types ==
  /\ pc \in [Proc -> Points] /\ cur \in [Proc -> Proc] /\ todo \in [Proc -> SUBSET Proc]
  /\ handle \in [Proc -> Sems \cup {0}] /\ known \in [Proc -> SUBSET Proc]
  /\ connected \in [Proc -> BOOLEAN]
  /\ name \in Sems \cup {0} /\ value \in [Sems -> Nat] /\ counter \in Nat
  /\ plugged \subseteq Proc
  /\ \A p \in Proc : pc[p] = "off" => handle[p] = 0 /\ ~connected[p]
  /\ \A p \in Proc : pc[p] \in Waiting => handle[p] # 0

\* The starts in the segment are the cameras that are connected.
Counted == {p \in Proc : connected[p] /\ pc[p] # "count"}

CountInv ==
  /\ counter = Cardinality(Counted)
  /\ \A p \in Proc : pc[p] \notin {"leaveLast", "unlink"}
  /\ \A p \in Proc : pc[p] = "count" => connected[p]

\* A process goes through its list once for its own camera.
ListInv ==
  \A p \in Proc :
    /\ pc[p] \in Waiting => cur[p] \notin todo[p]
    /\ pc[p] = "start" => cur[p] = p /\ ~connected[p]
    /\ connected[p] => p \notin todo[p]
    /\ connected[p] /\ pc[p] \in {"wait", "probe"} => cur[p] # p

\* There is one semaphore, and whoever is inside has taken its only unit.
SemInv ==
  /\ \A p \in Proc : handle[p] \in {0, name}
  /\ name # 0 => value[name] <= 1
  /\ \A p \in Proc : Inside(p) => value[name] = 0
  /\ \A p, q \in Proc : Inside(p) /\ Inside(q) => p = q

AllConnected == \A p \in Proc : connected[p]

Undisturbed == AllConnected \/ (CountInv /\ ListInv /\ SemInv)

Inv == Types /\ (~disturbed => Undisturbed)

-----------------------------------------------------------------------------
LEMMA NumberOfProcesses == DeviceNum \in Nat /\ DeviceNum > 1
BY ProcAssumption, FS_CardinalityType DEF DeviceNum

(* As many semaphores as processes can have open leave one for a new name.  *)
LEMMA FreshIsFree ==
  ASSUME Types, name = 0
  PROVE  Fresh \in Sems /\ Fresh # 0 /\ \A p \in Proc : handle[p] # Fresh
<1>. DEFINE H == {handle[p] : p \in Proc}
            used == H \cap Sems
<1>1. IsFiniteSet(H) /\ Cardinality(H) <= DeviceNum
  <2>1. handle \in Surjection(Proc, H)
    BY DEF Types, Surjection
  <2>. QED BY <2>1, ProcAssumption, FS_Surjection DEF DeviceNum
<1>2. IsFiniteSet(Sems) /\ Cardinality(Sems) = DeviceNum + 1
  BY NumberOfProcesses, FS_Interval DEF Sems
<1>3. ~(Sems \subseteq H)
  <2>1. CASE Sems \subseteq H
    <3>1. Cardinality(Sems) <= Cardinality(H)
      BY <1>1, <2>1, FS_Subset
    <3>2. Cardinality(H) \in Nat
      BY <1>1, FS_CardinalityType
    <3>. QED BY <1>1, <1>2, <3>1, <3>2, NumberOfProcesses
  <2>. QED BY <2>1
<1>4. \E s \in Sems : s # name /\ \A p \in Proc : handle[p] # s
  BY <1>3, NumberOfProcesses DEF Sems
<1>. QED BY <1>4, NumberOfProcesses DEF Fresh, Sems

LEMMA InitInv == Init => Inv
<1>. SUFFICES ASSUME Init PROVE Inv
  OBVIOUS
<1>1. Types
  BY NumberOfProcesses DEF Init, Types, Points, Sems, Waiting
<1>2. Counted = {}
  BY DEF Init, Counted
<1>3. CountInv
  BY <1>2, FS_EmptySet DEF Init, CountInv
<1>4. ListInv /\ SemInv
  BY DEF Init, ListInv, SemInv, Inside, Waiting
<1>. QED BY <1>1, <1>3, <1>4 DEF Inv, Undisturbed

-----------------------------------------------------------------------------
\* Semaphores that nobody has open go back to 0, the others keep what they have.
LEMMA FreesTyped ==
  ASSUME NEW v \in [Sems -> Nat], Frees(v) PROVE value' \in [Sems -> Nat]
BY DEF Frees

LEMMA QueryTypes ==
  ASSUME Types, NEW p \in Proc, QueryThread(p) \/ Wait(p) \/ Interrupted(p) \/ CountFails(p)
  PROVE  Types'
<1>. USE DEF thread, device, shared, Goes
<1>1. CASE Query(p)
  BY <1>1 DEF Query, Types
<1>2. ASSUME NEW d \in Proc, OpenSem(p, d) PROVE Types'
  <2>1. name = 0 => Fresh \in Sems /\ Fresh # 0
    BY FreshIsFree
  <2>2. name' \in Sems \cup {0} /\ value' \in [Sems -> Nat]
    BY <1>2, <2>1 DEF OpenSem, Types
  <2>3. CASE UNCHANGED <<pc, cur, handle, shared>>
    BY <1>2, <2>2, <2>3 DEF OpenSem, Types
  <2>4. CASE ~UNCHANGED <<pc, cur, handle, shared>>
    <3>1. name' # 0
      BY <1>2, <2>1, <2>4 DEF OpenSem
    <3>2. /\ todo' \in [Proc -> SUBSET Proc] /\ known' = known /\ connected' = connected
          /\ plugged' = plugged /\ counter' = counter
      BY <1>2, <2>4 DEF OpenSem, Types
    <3>3. /\ pc[p] = "loop" /\ pc' = [pc EXCEPT ![p] = "wait"]
          /\ handle' = [handle EXCEPT ![p] = name'] /\ cur' = [cur EXCEPT ![p] = d]
      BY <1>2, <2>4 DEF OpenSem
    <3>. QED BY <2>2, <3>1, <3>2, <3>3 DEF Types, Points, Waiting
  <2>. QED BY <2>3, <2>4
<1>3. CASE Wait(p)
  <2>1. handle[p] \in Sems
    BY <1>3 DEF Wait, Types, Waiting
  <2>2. value' \in [Sems -> Nat]
    BY <1>3, <2>1 DEF Wait, Types
  <2>. QED BY <1>3, <2>2 DEF Wait, Types, Points, Waiting
<1>4. CASE Interrupted(p)
  <2>0. handle[p] \in Sems
    BY <1>4 DEF Interrupted, Types, Waiting
  <2>1. [value EXCEPT ![handle[p]] = @ + 1] \in [Sems -> Nat]
    BY <2>0 DEF Types
  <2>2. value' \in [Sems -> Nat]
    BY <1>4, <2>1, FreesTyped DEF Interrupted, LetsGo
  <2>. QED BY <1>4, <2>2 DEF Interrupted, LetsGo, Types, Points, Waiting
<1>5. CASE Probe(p)
  BY <1>5 DEF Probe, Types, Points, Waiting
<1>6. CASE Start(p)
  <2>1. value' \in [Sems -> Nat]
    BY <1>6, FreesTyped DEF Start, Types
  <2>2. /\ connected' \in [Proc -> BOOLEAN]
        /\ name' \in Sems \cup {0} /\ counter' \in Nat
    <3>1. CASE connected' = [connected EXCEPT ![p] = TRUE] /\ UNCHANGED <<name, counter>>
      BY <3>1 DEF Types
    <3>2. CASE name' = 0 /\ counter' = 0 /\ UNCHANGED connected
      BY <3>2 DEF Types
    <3>. QED BY <1>6, <3>1, <3>2 DEF Start
  <2>3. /\ pc[p] = "start" /\ pc' = [pc EXCEPT ![p] = "count"]
        /\ connected' = connected \/ connected' = [connected EXCEPT ![p] = TRUE]
        /\ UNCHANGED <<handle, cur, todo, known, plugged>>
    BY <1>6 DEF Start
  <2>4. \A q \in Proc : /\ pc'[q] = "off" => handle'[q] = 0 /\ ~connected'[q]
                        /\ pc'[q] \in Waiting => handle'[q] # 0
    <3>. SUFFICES ASSUME NEW q \in Proc
                  PROVE  /\ pc'[q] = "off" => handle'[q] = 0 /\ ~connected'[q]
                         /\ pc'[q] \in Waiting => handle'[q] # 0
      OBVIOUS
    <3>1. CASE q = p
      BY <2>3, <3>1 DEF Types, Waiting
    <3>2. CASE q # p
      BY <2>3, <3>2 DEF Types
    <3>. QED BY <3>1, <3>2
  <2>5. pc' \in [Proc -> Points]
    BY <2>3 DEF Types, Points, Waiting
  <2>. QED BY <2>1, <2>2, <2>3, <2>4, <2>5 DEF Types
<1>7. CASE Count(p)
  BY <1>7 DEF Count, Counting, Types, Points, Waiting
<1>8. CASE Leave(p)
  <2>0. handle[p] \in Sems
    BY <1>8 DEF Leave, Types, Waiting
  <2>1. [value EXCEPT ![handle[p]] = @ + 1] \in [Sems -> Nat]
    BY <2>0 DEF Types
  <2>2. value' \in [Sems -> Nat]
    BY <1>8, <2>1, FreesTyped DEF Leave, LetsGo
  <2>. QED BY <1>8, <2>2 DEF Leave, LetsGo, Types, Points, Waiting
<1>9. CASE Unlink(p)
  <2>1. value' \in [Sems -> Nat]
    BY <1>9, FreesTyped DEF Unlink, Types
  <2>. QED BY <1>9, <2>1 DEF Unlink, Types, Points, Waiting
<1>10. CASE End(p)
  <2>1. value' \in [Sems -> Nat]
    BY <1>10, FreesTyped DEF End, Types
  <2>. QED BY <1>10, <2>1 DEF End, Forget, Types, Points, Waiting
<1>11. CASE CountFails(p)
  BY <1>11 DEF CountFails, Types, Points, Waiting
<1>. QED BY <1>1, <1>2, <1>3, <1>4, <1>5, <1>6, <1>7, <1>8, <1>9, <1>10, <1>11 DEF QueryThread

LEMMA OtherTypes ==
  ASSUME Types,
         \/ CleanUpOpen \/ CleanUpRemove
         \/ \E p \in Proc : \/ Launch(p) \/ EventThread(p) \/ Crash(p) \/ Stop(p)
                            \/ Plug(p) \/ Unplug(p)
  PROVE  Types'
<1>. USE DEF thread, device, shared, Goes
<1>1. CASE CleanUpOpen
  <2>1. name = 0 => Fresh \in Sems
    BY FreshIsFree
  <2>. QED BY <1>1, <2>1 DEF CleanUpOpen, Types
<1>2. CASE CleanUpRemove
  <2>1. value' \in [Sems -> Nat]
    BY <1>2, FreesTyped DEF CleanUpRemove, Types
  <2>. QED BY <1>2, <2>1 DEF CleanUpRemove, RemovesAll, Types
<1>3. ASSUME NEW p \in Proc, Launch(p) PROVE Types'
  BY <1>3 DEF Launch, Types, Points, Waiting
<1>4. ASSUME NEW p \in Proc, NEW d \in Proc, OnDeviceConnected(p, d) PROVE Types'
  BY <1>4 DEF OnDeviceConnected, Types
<1>5. ASSUME NEW p \in Proc, NEW d \in Proc, OnDeviceDisconnected(p, d) PROVE Types'
  <2>1. value' \in [Sems -> Nat]
    BY <1>5, FreesTyped DEF OnDeviceDisconnected, Types
  <2>. QED BY <1>5, <2>1 DEF OnDeviceDisconnected, Types
<1>6. ASSUME NEW p \in Proc, Crash(p) PROVE Types'
  <2>1. value' \in [Sems -> Nat]
    BY <1>6, FreesTyped DEF Crash, Types
  <2>. QED BY <1>6, <2>1 DEF Crash, Forget, Types, Points, Waiting
<1>7. ASSUME NEW p \in Proc, Stop(p) PROVE Types'
  BY <1>7 DEF Stop, Types
<1>8. ASSUME NEW p \in Proc, Plug(p) \/ Unplug(p) PROVE Types'
  BY <1>8 DEF Plug, Unplug, Types
<1>. QED BY <1>1, <1>2, <1>3, <1>4, <1>5, <1>6, <1>7, <1>8 DEF EventThread

-----------------------------------------------------------------------------
(* The last process to end, and a cleanup without processes, leave things   *)
(* as they were before the first.                                           *)
LEMMA Reset ==
  ASSUME Types', \A p \in Proc : pc'[p] = "off", name' = 0, counter' = 0
  PROVE  Undisturbed'
<1>1. \A p \in Proc : handle'[p] = 0 /\ ~connected'[p]
  BY DEF Types
<1>2. Counted' = {}
  BY <1>1 DEF Counted
<1>3. CountInv'
  BY <1>2, FS_EmptySet DEF CountInv
<1>4. ListInv' /\ SemInv'
  BY <1>1 DEF ListInv, SemInv, Inside, Waiting
<1>. QED BY <1>3, <1>4 DEF Undisturbed

\* A connected camera stays connected while nothing disturbs.
LEMMA ConnectedStays ==
  ASSUME Types, AllConnected, ~disturbed', NEW p \in Proc,
         \/ Launch(p) \/ (QueryThread(p) /\ ~End(p)) \/ Wait(p) \/ EventThread(p)
         \/ Interrupted(p) \/ CountFails(p) \/ Crash(p) \/ Stop(p) \/ Plug(p) \/ Unplug(p)
         \/ CleanUpOpen
  PROVE  AllConnected'
<1>1. connected' = connected \/ connected' = [connected EXCEPT ![p] = TRUE]
  BY DEF Launch, QueryThread, Query, OpenSem, Probe, Start, Count, Counting, CountFails, Leave,
         Unlink, Wait,
         EventThread, OnDeviceConnected, OnDeviceDisconnected, Interrupted, Crash, Stop, Plug,
         Unplug, CleanUpOpen, device
<1>. QED BY <1>1 DEF AllConnected, Types

LEMMA CountKept ==
  ASSUME Types, CountInv, NEW p \in Proc, NEW to, UNCHANGED <<connected, counter>>,
         pc[p] # "count", to \notin {"count", "leaveLast", "unlink"},
         pc' = pc \/ pc' = [pc EXCEPT ![p] = to]
  PROVE  CountInv'
<1>1. \A q \in Proc : pc'[q] = pc[q] \/ (q = p /\ pc'[q] = to)
  BY DEF Types
<1>2. Counted' = Counted
  BY <1>1 DEF Counted
<1>. QED BY <1>1, <1>2 DEF CountInv

-----------------------------------------------------------------------------
Phase == CountInv /\ ListInv /\ SemInv

LEMMA OpenSemPhase ==
  ASSUME Types, Types', Phase, NEW p \in Proc, NEW d \in Proc, OpenSem(p, d) PROVE Phase'
<1>. DEFINE Failed == UNCHANGED <<pc, cur, handle, shared>>
<1>1. /\ pc[p] = "loop" /\ d \in todo[p] /\ todo' = [todo EXCEPT ![p] = @ \ {d}]
      /\ UNCHANGED <<connected, counter>>
      /\ Failed \/ /\ pc' = [pc EXCEPT ![p] = "wait"] /\ cur' = [cur EXCEPT ![p] = d]
                   /\ name' = (IF name = 0 THEN Fresh ELSE name)
                   /\ value' = (IF name = 0 THEN [value EXCEPT ![Fresh] = 1] ELSE value)
                   /\ handle' = [handle EXCEPT ![p] = name']
  BY DEF OpenSem, Goes, device, shared
<1>2. CountInv'
  <2>1. pc' = pc \/ pc' = [pc EXCEPT ![p] = "wait"]
    BY <1>1 DEF shared
  <2>. QED BY <1>1, <2>1, CountKept DEF Phase
<1>3. ListInv'
  BY <1>1 DEF Types, Phase, ListInv, Waiting, shared
<1>4. SemInv'
  <2>1. CASE Failed
    BY <2>1 DEF Phase, SemInv, Inside, shared
  <2>2. CASE ~Failed /\ name = 0
    <3>1. \A q \in Proc : handle[q] = 0 /\ ~Inside(q)
      BY <2>2 DEF Types, Phase, SemInv, Waiting, Inside
    <3>2. Fresh \in Sems /\ value'[name'] = 1
      BY <1>1, <2>2, FreshIsFree DEF Types
    <3>3. \A q \in Proc : ~Inside(q)'
      BY <1>1, <2>2, <3>1 DEF Types, Inside
    <3>4. \A q \in Proc : handle'[q] \in {0, name'}
      BY <1>1, <2>2, <3>1 DEF Types
    <3>. QED BY <3>2, <3>3, <3>4 DEF SemInv
  <2>3. CASE ~Failed /\ name # 0
    <3>1. \A q \in Proc : Inside(q)' <=> Inside(q)
      BY <1>1, <2>3 DEF Types, Inside
    <3>0. name' = name /\ value' = value /\ handle' = [handle EXCEPT ![p] = name]
      BY <1>1, <2>3
    <3>2. name' = name /\ value' = value /\ \A q \in Proc : handle'[q] \in {0, name'}
      BY <3>0 DEF Types, Phase, SemInv
    <3>. QED BY <3>1, <3>2, <2>3 DEF Phase, SemInv
  <2>. QED BY <2>1, <2>2, <2>3
<1>. QED BY <1>2, <1>3, <1>4 DEF Phase

LEMMA WaitPhase ==
  ASSUME Types, Types', Phase, NEW p \in Proc, Wait(p) PROVE Phase'
<1>1. /\ pc[p] = "wait" /\ pc' = [pc EXCEPT ![p] = "probe"]
      /\ value[handle[p]] > 0 /\ value' = [value EXCEPT ![handle[p]] = @ - 1]
      /\ UNCHANGED <<cur, todo, handle, connected, name, counter>>
  BY DEF Wait, Goes, device
<1>2. CountInv'
  <2>1. /\ UNCHANGED <<connected, counter>> /\ pc[p] # "count"
        /\ pc' = pc \/ pc' = [pc EXCEPT ![p] = "probe"]
    BY <1>1
  <2>. QED BY <2>1, CountKept DEF Phase
<1>3. ListInv'
  BY <1>1 DEF Types, Phase, ListInv, Waiting
<1>4. SemInv'
  <2>1. handle[p] = name /\ name \in Sems /\ name # 0
    BY <1>1 DEF Types, Phase, SemInv, Waiting
  <2>2. value[name] = 1 /\ value'[name] = 0
    BY <1>1, <2>1 DEF Types, Phase, SemInv
  <2>3. \A q \in Proc : ~Inside(q) /\ (Inside(q)' => q = p)
    BY <1>1, <2>2 DEF Types, Phase, SemInv, Inside
  <2>. QED BY <1>1, <2>2, <2>3 DEF Phase, SemInv
<1>. QED BY <1>2, <1>3, <1>4 DEF Phase

\* Steps between the semaphore's two operations: nobody comes in or out.
LEMMA InsideKept ==
  ASSUME Types, SemInv, UNCHANGED <<handle, name>>, name # 0 => value'[name] = value[name],
         \A q \in Proc : Inside(q)' => Inside(q)
  PROVE  SemInv'
<1>1. \A q \in Proc : Inside(q) => name # 0
  BY DEF Types, SemInv, Inside, Waiting
<1>. QED BY <1>1 DEF SemInv

LEMMA ProbePhase ==
  ASSUME Types, Types', Phase, NEW p \in Proc, Probe(p) PROVE Phase'
<1>1. /\ pc[p] = "probe"
      /\ \/ cur[p] = p /\ pc' = [pc EXCEPT ![p] = "start"]
         \/ pc' = [pc EXCEPT ![p] = "leave"]
      /\ UNCHANGED <<cur, todo, handle, connected, name, value, counter>>
  BY DEF Probe, Goes, shared
<1>2. CountInv'
  BY <1>1, CountKept DEF Phase
<1>3. ListInv'
  BY <1>1 DEF Types, Phase, ListInv, Waiting
<1>4. SemInv'
  <2>1. \A q \in Proc : Inside(q)' => Inside(q)
    BY <1>1 DEF Types, Inside
  <2>. QED BY <1>1, <2>1, InsideKept DEF Phase
<1>. QED BY <1>2, <1>3, <1>4 DEF Phase

LEMMA StartPhase ==
  ASSUME Types, Types', Phase, NEW p \in Proc, Start(p), ~disturbed' PROVE Phase'
<1>1. /\ pc[p] = "start" /\ pc' = [pc EXCEPT ![p] = "count"]
      /\ connected' = [connected EXCEPT ![p] = TRUE]
      /\ Frees(value) /\ UNCHANGED <<cur, todo, handle, name, counter>>
  BY DEF Start, Goes
<1>2. CountInv'
  <2>1. Counted' = Counted
    BY <1>1 DEF Types, Phase, ListInv, Counted
  <2>. QED BY <1>1, <2>1 DEF Types, Phase, CountInv
<1>3. ListInv'
  BY <1>1 DEF Types, Phase, ListInv, Waiting
<1>4. SemInv'
  <2>1. name # 0 => value'[name] = value[name]
    BY <1>1 DEF Types, Frees
  <2>2. \A q \in Proc : Inside(q)' => Inside(q)
    BY <1>1 DEF Types, Inside
  <2>. QED BY <1>1, <2>1, <2>2, InsideKept DEF Phase
<1>. QED BY <1>2, <1>3, <1>4 DEF Phase

\* The last start is counted when every camera is connected.
LEMMA CountUndisturbed ==
  ASSUME Types, Types', Phase, NEW p \in Proc, Count(p) PROVE Undisturbed'
<1>. DEFINE last == counter + 1 >= DeviceNum
<1>1. /\ pc[p] = "count" /\ pc' = [pc EXCEPT ![p] = IF last THEN "leaveLast" ELSE "leave"]
      /\ counter' = IF last THEN 0 ELSE counter + 1
      /\ UNCHANGED <<cur, todo, handle, connected, name, value>>
  BY DEF Count, Counting, device
<1>2. connected[p] /\ Counted' = Counted \cup {p} /\ p \notin Counted
  BY <1>1 DEF Types, Phase, CountInv, Counted
<1>3. Counted' \subseteq Proc /\ IsFiniteSet(Counted)
  BY <1>2, ProcAssumption, FS_Subset DEF Counted
<1>4. Cardinality(Counted') = counter + 1
  BY <1>2, <1>3, FS_AddElement DEF Phase, CountInv
<1>5. CASE last
  <2>1. Cardinality(Counted') <= DeviceNum /\ (DeviceNum = Cardinality(Counted') => Proc = Counted')
    BY <1>3, ProcAssumption, FS_Subset DEF DeviceNum
  <2>2. Counted' = Proc
    BY <1>4, <1>5, <2>1, NumberOfProcesses DEF Types
  <2>. QED BY <2>2 DEF Counted, AllConnected, Undisturbed
<1>6. CASE ~last
  <2>1. CountInv'
    BY <1>1, <1>4, <1>6 DEF Types, Phase, CountInv
  <2>2. ListInv'
    BY <1>1, <1>6 DEF Types, Phase, ListInv, Waiting
  <2>3. \A q \in Proc : Inside(q)' => Inside(q)
    BY <1>1 DEF Types, Inside
  <2>4. SemInv'
    BY <1>1, <2>3, InsideKept DEF Phase
  <2>. QED BY <2>1, <2>2, <2>4 DEF Undisturbed
<1>. QED BY <1>5, <1>6

LEMMA LeavePhase ==
  ASSUME Types, Types', Phase, NEW p \in Proc, Leave(p) PROVE Phase'
<1>1. /\ pc[p] = "leave" /\ pc' = [pc EXCEPT ![p] = "loop"]
      /\ LetsGo(p) /\ UNCHANGED <<todo, connected, counter>>
  BY DEF Leave, Goes, device, Phase, CountInv
<1>2. CountInv'
  <2>1. /\ UNCHANGED <<connected, counter>> /\ pc[p] # "count"
        /\ pc' = pc \/ pc' = [pc EXCEPT ![p] = "loop"]
    BY <1>1
  <2>. QED BY <2>1, CountKept DEF Phase
<1>3. ListInv'
  BY <1>1 DEF LetsGo, Types, Phase, ListInv, Waiting
<1>4. SemInv'
  <2>1. handle[p] = name /\ name \in Sems /\ value[name] = 0
    BY <1>1 DEF Types, Phase, SemInv, Waiting, Inside
  <2>2. name' = name /\ value'[name] = 1 /\ \A q \in Proc : handle'[q] \in {0, name}
    BY <1>1, <2>1 DEF LetsGo, Frees, Types, Phase, SemInv
  <2>3. \A q \in Proc : ~Inside(q)'
    BY <1>1 DEF Types, Phase, SemInv, Inside
  <2>. QED BY <2>2, <2>3 DEF SemInv
<1>. QED BY <1>2, <1>3, <1>4 DEF Phase

\* A process appears, or takes up its list again.
LEMMA ListPhase ==
  ASSUME Types, Types', Phase, NEW p \in Proc, Launch(p) \/ Query(p) PROVE Phase'
<1>1. /\ pc[p] \in {"off", "loop"} /\ ~connected[p]
      /\ pc' = pc \/ pc' = [pc EXCEPT ![p] = "loop"]
      /\ \E list \in SUBSET Proc : todo' = [todo EXCEPT ![p] = list]
      /\ UNCHANGED <<cur, handle, connected, name, value, counter>>
  BY DEF Launch, Query, Goes, device, shared, Types
<1>2. CountInv'
  <2>1. pc[p] # "count" /\ UNCHANGED <<connected, counter>>
    BY <1>1
  <2>. QED BY <1>1, <2>1, CountKept DEF Phase
<1>3. ListInv'
  <2>. SUFFICES ASSUME NEW q \in Proc
                PROVE  /\ pc'[q] \in Waiting => cur'[q] \notin todo'[q]
                       /\ pc'[q] = "start" => cur'[q] = q /\ ~connected'[q]
                       /\ connected'[q] => q \notin todo'[q]
                       /\ connected'[q] /\ pc'[q] \in {"wait", "probe"} => cur'[q] # q
    BY DEF ListInv
  <2>1. CASE q = p
    BY <1>1, <2>1 DEF Types, Waiting
  <2>2. CASE q # p
    BY <1>1, <2>2 DEF Types, Phase, ListInv
  <2>. QED BY <2>1, <2>2
<1>4. SemInv'
  <2>1. \A q \in Proc : Inside(q)' => Inside(q)
    BY <1>1 DEF Types, Inside
  <2>. QED BY <1>1, <2>1, InsideKept DEF Phase
<1>. QED BY <1>2, <1>3, <1>4 DEF Phase

LEMMA CleanUpOpenPhase ==
  ASSUME Types, Types', Phase, CleanUpOpen PROVE Phase'
<1>1. /\ UNCHANGED <<pc, cur, todo, handle, connected, counter>>
      /\ name' = (IF name = 0 THEN Fresh ELSE name)
      /\ value' = (IF name = 0 THEN [value EXCEPT ![Fresh] = 0] ELSE value)
  BY DEF CleanUpOpen, thread, device
<1>2. CountInv' /\ ListInv'
  BY <1>1 DEF Phase, CountInv, Counted, ListInv
<1>3. SemInv'
  <2>1. CASE name = 0
    <3>1. \A q \in Proc : handle[q] = 0 /\ ~Inside(q)
      BY <2>1 DEF Types, Phase, SemInv, Waiting, Inside
    <3>2. value'[name'] = 0
      BY <1>1, <2>1, FreshIsFree DEF Types
    <3>. QED BY <1>1, <3>1, <3>2 DEF SemInv, Inside
  <2>2. CASE name # 0
    BY <1>1, <2>2 DEF Phase, SemInv, Inside
  <2>. QED BY <2>1, <2>2
<1>. QED BY <1>2, <1>3 DEF Phase

LEMMA EventPhase ==
  ASSUME Types, Phase, NEW p \in Proc, ~disturbed',
         EventThread(p) \/ Plug(p) \/ Unplug(p)
  PROVE  Phase'
<1>1. CASE UNCHANGED <<pc, cur, todo, handle, connected, name, value, counter>>
  BY <1>1 DEF Phase, CountInv, Counted, ListInv, SemInv, Inside
<1>2. ASSUME NEW d \in Proc, OnDeviceDisconnected(p, d) PROVE Phase'
  <2>1. UNCHANGED <<pc, cur, todo, handle, connected, name, counter>> /\ Frees(value)
    BY <1>2 DEF OnDeviceDisconnected, thread
  <2>2. name # 0 => value'[name] = value[name]
    BY <2>1 DEF Frees, Types
  <2>3. SemInv'
    BY <2>1, <2>2, InsideKept DEF Phase, Inside
  <2>. QED BY <2>1, <2>3 DEF Phase, CountInv, Counted, ListInv
<1>. QED BY <1>1, <1>2 DEF EventThread, OnDeviceConnected, Plug, Unplug, thread, device, shared

LEMMA StepUndisturbed ==
  ASSUME Types, Types', Undisturbed, ~disturbed', NEW p \in Proc,
         \/ Launch(p) \/ (QueryThread(p) /\ ~End(p)) \/ Wait(p) \/ EventThread(p)
         \/ Interrupted(p) \/ CountFails(p) \/ Crash(p) \/ Stop(p) \/ Plug(p) \/ Unplug(p)
         \/ CleanUpOpen
  PROVE  Undisturbed'
<1>1. CASE AllConnected
  BY <1>1, ConnectedStays DEF Undisturbed
<1>2. CASE Phase
  <2>1. CASE \E d \in Proc : OpenSem(p, d)
    BY <1>2, <2>1, OpenSemPhase DEF Phase, Undisturbed
  <2>2. CASE Wait(p)
    BY <1>2, <2>2, WaitPhase DEF Phase, Undisturbed
  <2>3. CASE Probe(p)
    BY <1>2, <2>3, ProbePhase DEF Phase, Undisturbed
  <2>4. CASE Start(p)
    BY <1>2, <2>4, StartPhase DEF Phase, Undisturbed
  <2>5. CASE Count(p)
    BY <1>2, <2>5, CountUndisturbed
  <2>6. CASE Leave(p)
    BY <1>2, <2>6, LeavePhase DEF Phase, Undisturbed
  <2>7. CASE Launch(p) \/ Query(p)
    BY <1>2, <2>7, ListPhase DEF Phase, Undisturbed
  <2>8. CASE CleanUpOpen
    BY <1>2, <2>8, CleanUpOpenPhase DEF Phase, Undisturbed
  <2>9. CASE EventThread(p) \/ Plug(p) \/ Unplug(p)
    BY <1>2, <2>9, EventPhase DEF Phase, Undisturbed
  <2>10. ~Unlink(p)
    BY <1>2 DEF Unlink, Goes, Phase, CountInv
  <2>11. ~(Interrupted(p) \/ CountFails(p) \/ Crash(p) \/ Stop(p))
    BY DEF Interrupted, CountFails, Crash, Stop
  <2>. QED BY <2>1, <2>2, <2>3, <2>4, <2>5, <2>6, <2>7, <2>8, <2>9, <2>10, <2>11 DEF QueryThread
<1>. QED BY <1>1, <1>2 DEF Undisturbed, Phase

LEMMA NextInv == Inv /\ [Next]_vars => Inv'
<1>. SUFFICES ASSUME Inv, [Next]_vars PROVE Inv'
  OBVIOUS
<1>1. CASE UNCHANGED vars
  BY <1>1 DEF vars, thread, device, shared, Inv, Types, Undisturbed, AllConnected, CountInv,
              Counted, ListInv, SemInv, Inside
<1>2. CASE Next
  <2>1. Types'
    BY <1>2, QueryTypes, OtherTypes DEF Next, Inv
  <2>2. ASSUME NEW p \in Proc, End(p), ~disturbed' PROVE Undisturbed'
    <3>1. On = {p} /\ pc' = [pc EXCEPT ![p] = "off"] /\ name' = 0 /\ counter' = 0
      BY <2>2 DEF End, Forget
    <3>2. \A q \in Proc : pc'[q] = "off"
      BY <3>1 DEF On, Inv, Types
    <3>. QED BY <2>1, <3>1, <3>2, Reset
  <2>3. ASSUME CleanUpRemove, ~disturbed' PROVE Undisturbed'
    <3>1. \A q \in Proc : pc'[q] = "off"
      BY <2>3 DEF CleanUpRemove, RemovesAll, On, thread
    <3>. QED BY <2>1, <2>3, <3>1, Reset DEF CleanUpRemove, RemovesAll
  <2>4. ASSUME NEW p \in Proc, ~disturbed',
               \/ Launch(p) \/ (QueryThread(p) /\ ~End(p)) \/ Wait(p) \/ EventThread(p)
               \/ Interrupted(p) \/ CountFails(p) \/ Crash(p) \/ Stop(p) \/ Plug(p) \/ Unplug(p)
               \/ CleanUpOpen
        PROVE  Undisturbed'
    <3>1. ~disturbed
      BY <2>4 DEF Launch, QueryThread, Query, OpenSem, Probe, Start, Count, Counting, CountFails, Leave,
         Unlink,
             Wait, EventThread, OnDeviceConnected, OnDeviceDisconnected, Interrupted, Crash, Stop,
             Plug, Unplug, CleanUpOpen
    <3>. QED BY <2>1, <2>4, <3>1, StepUndisturbed DEF Inv
  <2>5. \E p \in Proc : TRUE
    BY ProcAssumption, FS_EmptySet
  <2>. QED BY <1>2, <2>1, <2>2, <2>3, <2>4, <2>5 DEF Next, Inv, QueryThread
<1>. QED BY <1>1, <1>2

THEOREM Invariance == Spec => []Inv
BY InitInv, NextInv, PTL DEF Spec

(* For any number of cameras and any number of faults and ends: until one   *)
(* of them has disturbed the semaphore or the segment, no process that      *)
(* still looks for its camera has another beside it between sem_wait and    *)
(* sem_post (onDeviceConnected), although the last start removes the        *)
(* semaphore while others hold it: by then every camera is connected.       *)
THEOREM CamerasTakeTurns == Spec => []StartsAlone
<1>1. Inv => StartsAlone
  BY DEF Inv, Undisturbed, AllConnected, SemInv, StartsAlone
<1>. QED BY <1>1, Invariance, PTL

-----------------------------------------------------------------------------
(* The types, and the units of the semaphores, disturbed or not.            *)

\* The rest of the types.
Flags ==
  /\ uri \in [Proc -> BOOLEAN] /\ leaving \in [Proc -> BOOLEAN]
  /\ tool \in {"off", "opened"} /\ disturbed \in BOOLEAN
  /\ faults \in 0..MaxFaults /\ counter < DeviceNum

UnitInv == Types /\ Flags /\ UnitPerFault

(* The holders are finitely many.                                           *)
LEMMA HoldersSize ==
  ASSUME NEW s
  PROVE  IsFiniteSet(Holders(s)) /\ Cardinality(Holders(s)) \in Nat
<1>1. Holders(s) \in SUBSET Proc
  BY DEF Holders
<1>. QED BY <1>1, ProcAssumption, FS_Subset, FS_CardinalityType

(* At the start there is no semaphore.                                      *)
LEMMA InitUnits == Init => UnitInv
<1>. SUFFICES ASSUME Init PROVE UnitInv
  OBVIOUS
<1>1. Types
  BY InitInv DEF Inv
<1>2. Flags
  <2>1. uri \in [Proc -> BOOLEAN] /\ leaving \in [Proc -> BOOLEAN]
    BY DEF Init
  <2>2. faults \in 0..MaxFaults /\ counter < DeviceNum
    BY NumberOfProcesses, FaultAssumption DEF Init
  <2>. QED BY <2>1, <2>2 DEF Init, Flags
<1>3. \A s : Holders(s) = {}
  BY DEF Init, Holders, Inside
<1>4. UnitPerFault
  BY <1>3, FS_EmptySet DEF Init, UnitPerFault
<1>. QED BY <1>1, <1>2, <1>4 DEF UnitInv

-----------------------------------------------------------------------------
\* Each step spends a fault or none, and has the flags set or not.
LEMMA StepFaults ==
  ASSUME UnitInv, Next
  PROVE  Flags' /\ (faults' = faults \/ faults' = faults + 1)
<1>. USE DEF thread, device, shared, Goes, Fault
<1>1. faults \in Nat /\ faults <= MaxFaults /\ MaxFaults \in Nat
  BY FaultAssumption DEF UnitInv, Flags
<1>2. (faults' = faults \/ (faults < MaxFaults /\ faults' = faults + 1))
  BY DEF Next, QueryThread, EventThread, Launch, Query, OpenSem, Wait, Interrupted, Probe, Start, Count,
     Counting, CountFails, Leave, Unlink, OnDeviceConnected, OnDeviceDisconnected, Crash, Stop,
     End, CleanUpOpen,
     CleanUpRemove, RemovesAll, Plug, Unplug
<1>3. faults' \in 0..MaxFaults
  BY <1>1, <1>2
<1>4. counter' = counter \/ counter' = 0 \/ (counter + 1 < DeviceNum /\ counter' = counter + 1)
  <2>1. ASSUME NEW p \in Proc, Count(p)
        PROVE  counter' = 0 \/ (counter + 1 < DeviceNum /\ counter' = counter + 1)
    <3>1. counter \in Nat
      BY DEF UnitInv, Types
    <3>. QED BY <2>1, <3>1, NumberOfProcesses DEF Count
  <2>. QED BY <2>1 DEF Next, QueryThread, EventThread, Launch, Query, OpenSem, Wait, Interrupted, Probe,
     Start, CountFails, Leave, Unlink, OnDeviceConnected, OnDeviceDisconnected, Crash, Stop,
     End, CleanUpOpen,
     CleanUpRemove, RemovesAll, Plug, Unplug
<1>5. counter' < DeviceNum
  BY <1>4, NumberOfProcesses DEF UnitInv, Flags, Types
<1>6. \/ uri' = uri \/ \E p \in Proc, b \in BOOLEAN : uri' = [uri EXCEPT ![p] = b]
  BY DEF Next, QueryThread, EventThread, Launch, Query, OpenSem, Wait, Interrupted, Probe, Start, Count,
     Counting, CountFails, Leave, Unlink, OnDeviceConnected, OnDeviceDisconnected, Crash, Stop,
     End, CleanUpOpen,
     CleanUpRemove, RemovesAll, Plug, Unplug, Forget
<1>7. \/ leaving' = leaving \/ \E p \in Proc, b \in BOOLEAN : leaving' = [leaving EXCEPT ![p] = b]
  BY DEF Next, QueryThread, EventThread, Launch, Query, OpenSem, Wait, Interrupted, Probe, Start, Count,
     Counting, CountFails, Leave, Unlink, OnDeviceConnected, OnDeviceDisconnected, Crash, Stop,
     End, CleanUpOpen,
     CleanUpRemove, RemovesAll, Plug, Unplug, Forget
<1>8. uri' \in [Proc -> BOOLEAN] /\ leaving' \in [Proc -> BOOLEAN]
  <2>1. ASSUME NEW f \in [Proc -> BOOLEAN], NEW p \in Proc, NEW b \in BOOLEAN
        PROVE  [f EXCEPT ![p] = b] \in [Proc -> BOOLEAN]
    OBVIOUS
  <2>2. uri \in [Proc -> BOOLEAN] /\ leaving \in [Proc -> BOOLEAN]
    BY DEF UnitInv, Flags
  <2>3. uri' \in [Proc -> BOOLEAN]
    BY <1>6, <2>1, <2>2
  <2>4. leaving' \in [Proc -> BOOLEAN]
    BY <1>7, <2>1, <2>2
  <2>. QED BY <2>3, <2>4
<1>9. tool' = tool \/ tool' \in {"off", "opened"}
  BY DEF Next, QueryThread, EventThread, Launch, Query, OpenSem, Wait, Interrupted, Probe, Start, Count,
     Counting, CountFails, Leave, Unlink, OnDeviceConnected, OnDeviceDisconnected, Crash, Stop,
     End, CleanUpOpen,
     CleanUpRemove, RemovesAll, Plug, Unplug, Forget
<1>10. disturbed' \in {disturbed, TRUE, FALSE}
  BY DEF Next, QueryThread, EventThread, Launch, Query, OpenSem, Wait, Interrupted, Probe, Start, Count,
     Counting, CountFails, Leave, Unlink, OnDeviceConnected, OnDeviceDisconnected, Crash, Stop,
     End, CleanUpOpen,
     CleanUpRemove, RemovesAll, Plug, Unplug, Forget
<1>11. tool' \in {"off", "opened"} /\ disturbed' \in BOOLEAN
  BY <1>9, <1>10 DEF UnitInv, Flags
<1>. QED BY <1>2, <1>3, <1>5, <1>8, <1>11 DEF UnitInv, Flags

-----------------------------------------------------------------------------
\* Steps that let nobody in and add no unit.
LEMMA NobodyIn ==
  ASSUME UnitInv, faults' = faults \/ faults' = faults + 1, value' \in [Sems -> Nat], NEW s \in Sems,
         value'[s] <= value[s], \A q \in Proc : Inside(q)' /\ handle'[q] = s => Inside(q) /\ handle[q] = s
  PROVE  value'[s] + Cardinality(Holders(s))' <= 1 + faults'
<1>1. Holders(s)' \subseteq Holders(s)
  BY DEF Holders
<1>2. IsFiniteSet(Holders(s)) /\ Cardinality(Holders(s)) \in Nat
  BY HoldersSize
<1>3. Cardinality(Holders(s)') <= Cardinality(Holders(s)) /\ Cardinality(Holders(s)') \in Nat
  BY <1>1, <1>2, FS_Subset, FS_CardinalityType
<1>4. faults \in Nat /\ value[s] \in Nat /\ value'[s] \in Nat
  BY FaultAssumption DEF UnitInv, Flags, Types
<1>5. value[s] + Cardinality(Holders(s)) <= 1 + faults
  BY DEF UnitInv, UnitPerFault
<1>. QED BY <1>2, <1>3, <1>4, <1>5

\* Frees adds nothing.
LEMMA FreesLess ==
  ASSUME NEW v \in [Sems -> Nat], Frees(v), NEW s \in Sems PROVE value'[s] <= v[s]
BY DEF Frees

(* sem_wait turns a unit into a holder.                                     *)
LEMMA WaitUnits ==
  ASSUME UnitInv, NEW p \in Proc, Wait(p) PROVE UnitPerFault'
<1>0. pc[p] = "wait"
  BY DEF Wait, Goes
<1>10. PICK h \in Sems : h = handle[p]
  BY <1>0 DEF UnitInv, Types, Waiting
<1>1. /\ pc' = [pc EXCEPT ![p] = "probe"] /\ value[h] > 0
      /\ value' = [value EXCEPT ![h] = @ - 1] /\ handle' = handle /\ faults' = faults
  BY <1>10 DEF Wait, Goes
<1>2. value[h] \in Nat /\ faults \in Nat
  BY FaultAssumption DEF UnitInv, Types, Flags
<1>3. value' \in [Sems -> Nat]
  BY <1>1, <1>2 DEF UnitInv, Types
<1>4. ASSUME NEW s \in Sems, s # h PROVE value'[s] + Cardinality(Holders(s))' <= 1 + faults'
  <2>1. \A q \in Proc : Inside(q)' /\ handle'[q] = s => Inside(q) /\ handle[q] = s
    BY <1>1, <1>4, <1>10 DEF UnitInv, Types, Inside
  <2>2. value'[s] <= value[s]
    BY <1>1, <1>4 DEF UnitInv, Types
  <2>. QED BY <1>1, <1>3, <2>1, <2>2, NobodyIn
<1>5. value'[h] + Cardinality(Holders(h)') <= 1 + faults'
  <2>1. p \notin Holders(h) /\ Holders(h)' = Holders(h) \cup {p}
    BY <1>0, <1>10, <1>1 DEF Holders, Inside, UnitInv, Types
  <2>2. IsFiniteSet(Holders(h)) /\ Cardinality(Holders(h)) \in Nat
    BY HoldersSize
  <2>3. Cardinality(Holders(h)') = Cardinality(Holders(h)) + 1
    BY <2>1, <2>2, FS_AddElement
  <2>4. value'[h] = value[h] - 1
    BY <1>1, <1>2 DEF UnitInv, Types
  <2>5. value[h] + Cardinality(Holders(h)) <= 1 + faults
    BY DEF UnitInv, UnitPerFault
  <2>. QED BY <1>1, <1>2, <2>2, <2>3, <2>4, <2>5
<1>6. ASSUME NEW s \in Sems PROVE value'[s] + Cardinality(Holders(s)') <= 1 + faults'
  BY <1>4, <1>5
<1>. QED BY <1>6 DEF UnitPerFault

\* sem_post: of the process that is inside, or of one that is not, by a fault.
LEMMA PostUnits ==
  ASSUME UnitInv, NEW p \in Proc, LetsGo(p), pc[p] \in Waiting,
         NEW to, to \in {"loop", "unlink"}, pc' = [pc EXCEPT ![p] = to],
         \/ Inside(p) /\ faults' = faults
         \/ faults' = faults + 1
  PROVE  UnitPerFault'
<1>10. PICK h \in Sems : h = handle[p]
  BY DEF UnitInv, Types
<1>. DEFINE v == [value EXCEPT ![h] = @ + 1]
<1>1. /\ handle' = [handle EXCEPT ![p] = 0] /\ Frees(v) /\ value[h] \in Nat /\ faults \in Nat
  BY <1>10, FaultAssumption DEF LetsGo, UnitInv, Types, Flags
<1>2. v \in [Sems -> Nat]
  BY <1>1 DEF UnitInv, Types
<1>3. value' \in [Sems -> Nat] /\ \A s \in Sems : value'[s] <= v[s]
  <2>. HIDE DEF v
  <2>. QED BY <1>1, <1>2, FreesTyped, FreesLess
<1>4. \A s \in Sems : \A q \in Proc : Inside(q)' /\ handle'[q] = s => Inside(q) /\ handle[q] = s
  BY <1>1 DEF UnitInv, Types, Inside
<1>5. ASSUME NEW s \in Sems, s # h PROVE value'[s] + Cardinality(Holders(s))' <= 1 + faults'
  <2>1. value'[s] <= value[s]
    BY <1>3, <1>5 DEF UnitInv, Types
  <2>. QED BY <1>3, <1>4, <2>1, NobodyIn
<1>6. value'[h] + Cardinality(Holders(h)') <= 1 + faults'
  <2>1. value'[h] \in Nat /\ value'[h] <= value[h] + 1
    <3>1. v[h] = value[h] + 1
      BY <1>1 DEF UnitInv, Types
    <3>. HIDE DEF v
    <3>. QED BY <1>1, <1>3, <3>1
  <2>2. IsFiniteSet(Holders(h)) /\ Cardinality(Holders(h)) \in Nat
    BY HoldersSize
  <2>3. Holders(h)' \subseteq Holders(h) /\ p \notin Holders(h)'
    BY <1>1, <1>4 DEF Holders, UnitInv, Types, Inside
  <2>4. value[h] + Cardinality(Holders(h)) <= 1 + faults
    BY <1>1 DEF UnitInv, UnitPerFault
  <2>5. CASE Inside(p) /\ faults' = faults
    <3>1. p \in Holders(h)
      BY <1>10, <2>5 DEF Holders
    <3>2. IsFiniteSet(Holders(h) \ {p}) /\ Cardinality(Holders(h) \ {p}) = Cardinality(Holders(h)) - 1
      BY <2>2, <3>1, FS_RemoveElement
    <3>3. Holders(h)' \subseteq Holders(h) \ {p}
      BY <2>3
    <3>4. Cardinality(Holders(h)') <= Cardinality(Holders(h) \ {p}) /\ Cardinality(Holders(h)') \in Nat
      BY <3>2, <3>3, FS_Subset, FS_CardinalityType
    <3>. QED BY <1>1, <2>1, <2>2, <2>4, <2>5, <3>2, <3>4
  <2>6. CASE faults' = faults + 1
    <3>1. Cardinality(Holders(h)') <= Cardinality(Holders(h)) /\ Cardinality(Holders(h)') \in Nat
      BY <2>2, <2>3, FS_Subset, FS_CardinalityType
    <3>. QED BY <1>1, <2>1, <2>2, <2>4, <2>6, <3>1
  <2>. QED BY <2>5, <2>6
<1>7. ASSUME NEW s \in Sems PROVE value'[s] + Cardinality(Holders(s)') <= 1 + faults'
  BY <1>5, <1>6
<1>. QED BY <1>7 DEF UnitPerFault

\* A new semaphore, that nobody has open, with its unit or without.
LEMMA NewUnits ==
  ASSUME UnitInv, faults' = faults \/ faults' = faults + 1, NEW u \in 0..1,
         value' = (IF name = 0 THEN [value EXCEPT ![Fresh] = u] ELSE value),
         \A q \in Proc : Inside(q)' => Inside(q) /\ handle'[q] = handle[q]
  PROVE  UnitPerFault'
<1>1. name = 0 => Fresh \in Sems /\ Fresh # 0 /\ \A q \in Proc : handle[q] # Fresh
  BY FreshIsFree DEF UnitInv
<1>2. value' \in [Sems -> Nat] /\ \A s \in Sems : value'[s] <= value[s] \/ (name = 0 /\ s = Fresh /\ value'[s] = u)
  BY <1>1 DEF UnitInv, Types
<1>3. ASSUME NEW s \in Sems PROVE value'[s] + Cardinality(Holders(s)') <= 1 + faults'
  <2>1. CASE value'[s] <= value[s]
    BY <1>2, <2>1, NobodyIn
  <2>2. CASE name = 0 /\ s = Fresh /\ value'[s] = u
    <3>1. Holders(s)' = {}
      BY <1>1, <2>2 DEF Holders
    <3>2. Cardinality(Holders(s)') = 0
      BY <3>1, FS_EmptySet
    <3>3. faults \in Nat
      BY FaultAssumption DEF UnitInv, Flags
    <3>. QED BY <2>2, <3>2, <3>3
  <2>. QED BY <1>2, <2>1, <2>2
<1>. QED BY <1>3 DEF UnitPerFault

\* Steps that change the semaphores' values only by freeing them.
LEMMA FreeUnits ==
  ASSUME UnitInv, faults' = faults \/ faults' = faults + 1, value' = value \/ Frees(value),
         \A q \in Proc : Inside(q)' => Inside(q) /\ handle'[q] = handle[q]
  PROVE  UnitPerFault'
<1>1. value \in [Sems -> Nat]
  BY DEF UnitInv, Types
<1>2. value' \in [Sems -> Nat] /\ \A s \in Sems : value'[s] <= value[s]
  <2>1. CASE value' = value
    BY <1>1, <2>1
  <2>2. CASE Frees(value)
    BY <1>1, <2>2, FreesTyped, FreesLess
  <2>. QED BY <2>1, <2>2
<1>3. ASSUME NEW s \in Sems PROVE value'[s] + Cardinality(Holders(s)') <= 1 + faults'
  BY <1>2, NobodyIn
<1>. QED BY <1>3 DEF UnitPerFault

(* So in every step.                                                        *)
LEMMA StepUnits ==
  ASSUME UnitInv, Next PROVE UnitPerFault'
<1>0. faults' = faults \/ faults' = faults + 1
  BY StepFaults
<1>. USE DEF thread, device, shared, Goes
<1>1. ASSUME NEW p \in Proc, NEW d \in Proc, OpenSem(p, d) PROVE UnitPerFault'
  <2>1. CASE UNCHANGED <<pc, cur, handle, shared>>
    BY <2>1, <1>0, FreeUnits DEF Inside
  <2>2. CASE ~UNCHANGED <<pc, cur, handle, shared>>
    <3>1. /\ value' = (IF name = 0 THEN [value EXCEPT ![Fresh] = 1] ELSE value)
          /\ pc[p] = "loop" /\ pc' = [pc EXCEPT ![p] = "wait"]
          /\ \E n : handle' = [handle EXCEPT ![p] = n]
      BY <1>1, <2>2 DEF OpenSem
    <3>2. \A q \in Proc : Inside(q)' => Inside(q) /\ handle'[q] = handle[q]
      BY <3>1 DEF UnitInv, Types, Inside
    <3>. QED BY <1>0, <3>1, <3>2, NewUnits
  <2>. QED BY <2>1, <2>2
<1>2. ASSUME NEW p \in Proc, Wait(p) PROVE UnitPerFault'
  BY <1>2, WaitUnits
<1>3. ASSUME NEW p \in Proc, Interrupted(p) PROVE UnitPerFault'
  <2>1. faults' = faults + 1 /\ LetsGo(p) /\ pc[p] \in Waiting /\ pc' = [pc EXCEPT ![p] = "loop"]
    BY <1>3 DEF Interrupted, Fault, Waiting
  <2>. QED BY <2>1, PostUnits
<1>4. ASSUME NEW p \in Proc, Leave(p) PROVE UnitPerFault'
  <2>1. /\ faults' = faults /\ LetsGo(p) /\ Inside(p) /\ pc[p] \in Waiting
        /\ pc' = [pc EXCEPT ![p] = "loop"] \/ pc' = [pc EXCEPT ![p] = "unlink"]
    BY <1>4 DEF Leave, Inside, Waiting
  <2>. QED BY <2>1, PostUnits
<1>5. ASSUME CleanUpOpen PROVE UnitPerFault'
  <2>1. /\ value' = (IF name = 0 THEN [value EXCEPT ![Fresh] = 0] ELSE value)
        /\ pc' = pc /\ handle' = handle
    BY <1>5 DEF CleanUpOpen
  <2>2. \A q \in Proc : Inside(q)' => Inside(q) /\ handle'[q] = handle[q]
    BY <2>1 DEF Inside
  <2>. QED BY <1>0, <2>1, <2>2, NewUnits
<1>6. ASSUME NEW p \in Proc, Query(p) \/ Launch(p) \/ EventThread(p) \/ Stop(p) \/ Plug(p) \/ Unplug(p)
      PROVE  UnitPerFault'
  <2>1. /\ value' = value \/ Frees(value)
        /\ handle' = handle
        /\ pc' = pc \/ pc' = [pc EXCEPT ![p] = "loop"]
    BY <1>6 DEF Query, Launch, EventThread, OnDeviceConnected, OnDeviceDisconnected, Stop, Plug, Unplug
  <2>2. \A q \in Proc : Inside(q)' => Inside(q) /\ handle'[q] = handle[q]
    BY <2>1 DEF UnitInv, Types, Inside
  <2>. QED BY <1>0, <2>1, <2>2, FreeUnits
<1>7. ASSUME NEW p \in Proc, Probe(p) \/ Start(p) \/ Count(p) \/ CountFails(p)
      PROVE  UnitPerFault'
  <2>1. /\ value' = value \/ Frees(value)
        /\ handle' = handle /\ Inside(p)
        /\ \E to : pc' = [pc EXCEPT ![p] = to]
    BY <1>7 DEF Probe, Start, Count, Counting, CountFails, Inside
  <2>2. \A q \in Proc : Inside(q)' => Inside(q) /\ handle'[q] = handle[q]
    BY <2>1 DEF UnitInv, Types, Inside
  <2>. QED BY <1>0, <2>1, <2>2, FreeUnits
<1>8. ASSUME NEW p \in Proc, Unlink(p) \/ End(p) \/ Crash(p) PROVE UnitPerFault'
  <2>1. /\ Frees(value)
        /\ handle' = handle \/ handle' = [handle EXCEPT ![p] = 0]
        /\ pc' = [pc EXCEPT ![p] = "loop"] \/ pc' = [pc EXCEPT ![p] = "off"]
    BY <1>8 DEF Unlink, End, Crash, Forget
  <2>2. \A q \in Proc : Inside(q)' => Inside(q) /\ handle'[q] = handle[q]
    BY <2>1 DEF UnitInv, Types, Inside
  <2>. QED BY <1>0, <2>1, <2>2, FreeUnits
<1>9. ASSUME CleanUpRemove PROVE UnitPerFault'
  <2>1. Frees(value) /\ pc' = pc /\ handle' = handle
    BY <1>9 DEF CleanUpRemove, RemovesAll
  <2>2. \A q \in Proc : Inside(q)' => Inside(q) /\ handle'[q] = handle[q]
    BY <2>1 DEF Inside
  <2>. QED BY <1>0, <2>1, <2>2, FreeUnits
<1>. QED BY <1>1, <1>2, <1>3, <1>4, <1>5, <1>6, <1>7, <1>8, <1>9 DEF Next, QueryThread

(* So the invariant stays.                                                  *)
LEMMA NextUnits == UnitInv /\ [Next]_vars => UnitInv'
<1>. SUFFICES ASSUME UnitInv, [Next]_vars PROVE UnitInv'
  OBVIOUS
<1>1. CASE UNCHANGED vars
  BY <1>1 DEF vars, thread, device, shared, UnitInv, Types, Flags, UnitPerFault, Holders, Inside
<1>2. CASE Next
  <2>1. Types'
    BY <1>2, QueryTypes, OtherTypes DEF Next, UnitInv
  <2>. QED BY <1>2, <2>1, StepFaults, StepUnits DEF UnitInv
<1>. QED BY <1>1, <1>2

(* For any number of cameras and faults, disturbed or not: a semaphore's    *)
(* units and the processes that hold one are never more than one and one    *)
(* for each fault (onDeviceConnected).                                      *)
THEOREM UnitsKept == Spec => []UnitPerFault
<1>1. UnitInv => UnitPerFault
  BY DEF UnitInv
<1>. QED BY <1>1, InitUnits, NextUnits, PTL DEF Spec

(* The types, for any number of cameras and faults: the segment's count     *)
(* stays below the number of cameras, and a semaphore has as many units at  *)
(* most as there may be faults, and one (onDeviceConnected,                 *)
(* cleanUpSharedMemory).                                                    *)
THEOREM Typing == Spec => []TypeOK
<1>1. UnitInv => TypeOK
  <2>. SUFFICES ASSUME UnitInv PROVE TypeOK
    OBVIOUS
  <2>1. ASSUME NEW s \in Sems PROVE value[s] \in 0..(MaxFaults + 1)
    <3>1. value[s] \in Nat /\ faults \in Nat /\ faults <= MaxFaults /\ MaxFaults \in Nat
      BY FaultAssumption DEF UnitInv, Types, Flags
    <3>2. Cardinality(Holders(s)) \in Nat
      BY HoldersSize
    <3>3. value[s] + Cardinality(Holders(s)) <= 1 + faults
      BY DEF UnitInv, UnitPerFault
    <3>. QED BY <3>1, <3>2, <3>3
  <2>2. value \in [Sems -> 0..(MaxFaults + 1)]
    BY <2>1 DEF UnitInv, Types
  <2>3. Sems \cup {0} = 0..(DeviceNum + 1)
    BY NumberOfProcesses DEF Sems
  <2>4. counter \in 0..(DeviceNum - 1)
    BY NumberOfProcesses DEF UnitInv, Types, Flags
  <2>. QED BY <2>2, <2>3, <2>4 DEF UnitInv, Types, Flags, TypeOK, Points, Waiting
<1>. QED BY <1>1, InitUnits, NextUnits, PTL DEF Spec
=============================================================================
