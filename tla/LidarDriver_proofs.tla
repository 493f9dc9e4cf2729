------------------------- MODULE LidarDriver_proofs -------------------------
(***************************************************************************)
(* Proofs about LidarDriver, for every turn, packet and window, whatever   *)
(* is lost on the line: the hand-over of frames between the two threads,   *)
(* the end of the node, and the cut of the stream into turns.              *)
(***************************************************************************)
EXTENDS LidarDriver, FiniteSetTheorems, TLAPS

Asking == {"connect", "comm", "poll", "reset", "copy", "publish"}
Ending == {"stop", "close", "join", "destroy", "ended", "failed", "aborted"}

\* The descriptor is there while main asks for frames, the receive thread does not
\* run before it is, and main leaves the loop only when it is told to.
Opened ==
  /\ main \in Asking \cup Ending
  /\ main \in Asking \ {"connect"} => handle
  /\ main = "connect" => rx = "none"
  /\ main \in Ending \ {"failed"} => shutdown

Inv == Opened /\ NothingStranded

(* The descriptor and the newest frame at the start.                        *)
LEMMA InitInv == Init => Inv
BY DEF Init, Inv, Opened, Asking, Ending, NothingStranded

(* Where main stands does not change in a step of the receive thread, but   *)
(* that the undefined FD_SET may end the process, when main is in Close.    *)
LEMMA RxSteps ==
  ASSUME Inv, RxThread
  PROVE  /\ handle' = handle /\ got' = got /\ shutdown' = shutdown
         /\ main' = main \/ (~handle /\ main' = "aborted")
         /\ rx # "none"
         /\ \/ made' = made /\ (rx = "flag" => ready') /\ (ready => ready')
            \/ made' = made + 1 /\ rx' = "flag"
<1>1. CASE RxTest
  BY <1>1 DEF RxTest, RxGoes, inbox
<1>2. CASE RxNothing
  BY <1>2 DEF RxNothing, RxGoes, inbox
<1>3. CASE RxAborts
  BY <1>3 DEF RxAborts, inbox
<1>4. CASE RxFlag
  BY <1>4 DEF RxFlag, RxGoes
<1>5. ASSUME NEW n \in 1..MaxRead, NEW spins \in BOOLEAN, NEW vanish \in BOOLEAN,
             NEW arrived \in Arrivals(n), RxRead(n, arrived, spins, vanish)
      PROVE  /\ rx = "read" /\ shutdown' = shutdown /\ handle' = handle /\ got' = got /\ main' = main /\ ready' = ready
             /\ made' = made \/ (made' = made + 1 /\ rx' = "flag")
  BY <1>5 DEF RxRead, RxGoes
<1>. QED BY <1>1, <1>2, <1>3, <1>4, <1>5 DEF RxThread

(* The receive thread's steps keep them.                                    *)
LEMMA RxInv == Inv /\ Running /\ RxThread => Inv'
<1>. SUFFICES ASSUME Inv, Running, RxThread PROVE Inv'
  OBVIOUS
<1>1. Opened'
  BY RxSteps DEF Inv, Opened, Asking, Ending, Running
<1>2. NothingStranded'
  BY RxSteps DEF Inv, Opened, Asking, NothingStranded
<1>. QED BY <1>1, <1>2 DEF Inv

(* So do main's.                                                            *)
LEMMA MainInv == Inv /\ MainThread => Inv'
<1>. SUFFICES ASSUME Inv, MainThread PROVE Inv'
  OBVIOUS
<1>. USE DEF Inv, Opened, Asking, Ending, NothingStranded, MainGoes, inbox
<1>1. CASE Connect
  BY <1>1 DEF Connect
<1>2. CASE WaitLidarComm
  BY <1>2 DEF WaitLidarComm
<1>3. CASE Poll
  BY <1>3 DEF Poll
<1>4. CASE Take
  BY <1>4 DEF Take
<1>5. CASE Publish
  BY <1>5 DEF Publish
<1>6. CASE SetExitFlag
  BY <1>6 DEF SetExitFlag
<1>7. CASE CloseHandle
  BY <1>7 DEF CloseHandle
<1>8. CASE Join
  BY <1>8 DEF Join
<1>9. CASE Destroy
  BY <1>9 DEF Destroy
<1>. QED BY <1>1, <1>2, <1>3, <1>4, <1>5, <1>6, <1>7, <1>8, <1>9 DEF MainThread

(* So does every step.                                                      *)
LEMMA NextInv == Inv /\ [Next]_vars => Inv'
<1>. SUFFICES ASSUME Inv, [Next]_vars PROVE Inv'
  OBVIOUS
<1>1. CASE Running /\ RxThread
  BY <1>1, RxInv
<1>2. CASE MainThread
  BY <1>2, MainInv
<1>3. CASE Interrupt \/ UNCHANGED vars
  BY <1>3 DEF Interrupt, vars, threads, inbox, Inv, Opened, NothingStranded
<1>. QED BY <1>1, <1>2, <1>3 DEF Next

(* So they hold in every state.                                             *)
LEMMA Invariance == Spec => []Inv
BY InitInv, NextInv, PTL DEF Spec

-----------------------------------------------------------------------------
(* Whatever the order of the two threads' four steps, the newest frame is   *)
(* either taken or announced.                                               *)
THEOREM NoFrameIsStranded == Spec => []NothingStranded
<1>1. Inv => NothingStranded
  BY DEF Inv
<1>. QED BY Invariance, <1>1, PTL

(* A descriptor that is not there is selected on only in a node told to     *)
(* end, wherever the shutdown finds the two threads.                        *)
THEOREM NoAbortWhileWanted == Spec => []AbortsOnlyAtShutdown
<1>1. Inv => AbortsOnlyAtShutdown
  BY DEF Inv, Opened, Ending, AbortsOnlyAtShutdown
<1>. QED BY Invariance, <1>1, PTL

-----------------------------------------------------------------------------
(* The refinement: each step is one of the mailbox or changes nothing of it.*)

(* The receive thread's steps put a frame into the mailbox, or nothing.     *)
LEMMA RxMaps == Inv /\ RxThread => [Mailbox!Next]_(Mailbox!mailbox)
<1>. SUFFICES ASSUME Inv, RxThread PROVE [Mailbox!Next]_(Mailbox!mailbox)
  OBVIOUS
<1>1. (main' \in Ending) = (main \in Ending)
  BY RxSteps DEF Inv, Opened, Asking, Ending
<1>. QED BY <1>1, RxSteps DEF Ending, Mailbox!Next, Mailbox!Put, Mailbox!mailbox

(* Main's steps take the newest frame, close the mailbox, or change         *)
(* nothing.                                                                 *)
LEMMA MainMaps == Inv /\ MainThread => [Mailbox!Next]_(Mailbox!mailbox)
<1>. SUFFICES ASSUME Inv, MainThread PROVE [Mailbox!Next]_(Mailbox!mailbox)
  OBVIOUS
<1>. USE DEF MainGoes, inbox, Mailbox!Next, Mailbox!mailbox
<1>1. CASE Connect
  BY <1>1 DEF Connect, Mailbox!Close
<1>2. CASE WaitLidarComm
  BY <1>2 DEF WaitLidarComm, Mailbox!Close
<1>3. CASE Poll
  BY <1>3 DEF Poll, Mailbox!Close
<1>4. CASE Take
  BY <1>4 DEF Take, Mailbox!Take
<1>5. CASE Publish
  BY <1>5 DEF Publish
<1>6. CASE SetExitFlag
  BY <1>6 DEF SetExitFlag
<1>7. CASE CloseHandle
  BY <1>7 DEF CloseHandle
<1>8. CASE Join
  BY <1>8 DEF Join
<1>9. CASE Destroy
  BY <1>9 DEF Destroy
<1>. QED BY <1>1, <1>2, <1>3, <1>4, <1>5, <1>6, <1>7, <1>8, <1>9 DEF MainThread

(* The node and its driver implement the mailbox: frames are replaced or    *)
(* taken, only the newest is taken, and none after the node stopped asking. *)
(* That the newest one is taken in the end is left to TLC (KeepsMailbox).   *)
THEOREM ImplementsMailbox == Spec => Mailbox!Init /\ [][Mailbox!Next]_(Mailbox!mailbox)
<1>1. Init => Mailbox!Init
  BY DEF Init, Mailbox!Init
<1>2. Inv /\ [Next]_vars => [Mailbox!Next]_(Mailbox!mailbox)
  <2>. SUFFICES ASSUME Inv, [Next]_vars PROVE [Mailbox!Next]_(Mailbox!mailbox)
    OBVIOUS
  <2>1. CASE RxThread
    BY <2>1, RxMaps
  <2>2. CASE MainThread
    BY <2>2, MainMaps
  <2>3. CASE Interrupt \/ UNCHANGED vars
    BY <2>3 DEF Interrupt, vars, threads, inbox, Mailbox!mailbox
  <2>. QED BY <2>1, <2>2, <2>3 DEF Next
<1>. QED BY Invariance, <1>1, <1>2, PTL DEF Spec
-----------------------------------------------------------------------------
(* Points, turns and packets.                                               *)

\* Of two packets in a row one arrived: where a point is missing, the one a packet
\* before is there, unless that is older than any.
NoTwoLost(v, end) ==
  \A p \in 0..(end - 1) :
    p \notin v /\ (\E q \in v : q + PerPacket <= p) => p - PerPacket \in v

(* The constants are numbers, and positive.                                 *)
LEMMA TurnPos == Turn \in Nat /\ Turn > 0 /\ PerPacket \in Nat /\ PerPacket > 0 /\ Window \in Nat
BY TurnAssumption, WindowAssumption

(* A point is so many turns and an angle.                                   *)
LEMMA Dividing ==
  ASSUME NEW p \in Nat
  PROVE  /\ TurnOf(p) \in Nat /\ Angle(p) \in 0..(Turn - 1)
         /\ p = Turn * TurnOf(p) + Angle(p)
BY TurnPos DEF TurnOf, Angle

(* The products of neighbours differ by the factor.                         *)
LEMMA NextTurn ==
  ASSUME NEW n \in Nat, NEW a \in Nat, NEW b \in Nat, a < b
  PROVE  n * a + n <= n * b
<1>. DEFINE k == b - a - 1
<1>1. k \in Nat /\ b = a + 1 + k
  OBVIOUS
<1>. HIDE DEF k
<1>2. n * b = n * a + n + n * k
  BY <1>1
<1>3. n * k \in Nat /\ n * a \in Nat
  BY <1>1
<1>. QED BY <1>2, <1>3

(* The points of a turn are an interval.                                    *)
LEMMA TurnBounds ==
  ASSUME NEW p \in Nat, NEW t \in Nat
  PROVE  TurnOf(p) = t <=> Turn * t <= p /\ p < Turn * t + Turn
<1>1. TurnOf(p) = t => Turn * t <= p /\ p < Turn * t + Turn
  BY TurnPos, Dividing
<1>2. ASSUME TurnOf(p) < t PROVE p < Turn * t
  <2>1. Turn * TurnOf(p) + Turn <= Turn * t
    BY <1>2, TurnPos, Dividing, NextTurn
  <2>. QED BY <2>1, TurnPos, Dividing
<1>3. ASSUME t < TurnOf(p) PROVE Turn * t + Turn <= p
  <2>1. Turn * t + Turn <= Turn * TurnOf(p)
    BY <1>3, TurnPos, Dividing, NextTurn
  <2>. QED BY <2>1, TurnPos, Dividing
<1>. QED BY <1>1, <1>2, <1>3, TurnPos, Dividing

(* Later points are of later turns.                                         *)
LEMMA Monotone ==
  ASSUME NEW p \in Nat, NEW q \in Nat, p <= q
  PROVE  TurnOf(p) <= TurnOf(q)
<1>1. ASSUME TurnOf(q) < TurnOf(p) PROVE FALSE
  <2>1. Turn * TurnOf(q) + Turn <= Turn * TurnOf(p)
    BY <1>1, TurnPos, Dividing, NextTurn
  <2>. QED BY <2>1, TurnPos, Dividing
<1>. QED BY <1>1, Dividing

(* A nonempty set of numbers has a first element: of the intervals from 0   *)
(* to one of its elements, one is least.                                    *)
LEMMA MinOf ==
  ASSUME NEW S \in SUBSET Nat, S # {}
  PROVE  Min(S) \in S /\ \A x \in S : Min(S) <= x
<1>1. PICK n \in S : TRUE
  OBVIOUS
<1>. DEFINE Heads == {0..k : k \in S \cap (0..n)}
<1>2. Heads \subseteq FiniteSubsetsOf(0..n) /\ Heads # {}
  <2>1. ASSUME NEW k \in S \cap (0..n) PROVE (0..k) \in FiniteSubsetsOf(0..n)
    <3>1. (0..k) \subseteq (0..n)
      OBVIOUS
    <3>2. IsFiniteSet(0..k)
      BY FS_Interval
    <3>. QED BY <3>1, <3>2 DEF FiniteSubsetsOf
  <2>2. (0..n) \in Heads
    OBVIOUS
  <2>. QED BY <2>1, <2>2
<1>3. PICK X \in Heads : \A Y \in Heads : <<Y, X>> \notin StrictSubsetOrdering(0..n)
  BY <1>2, WFMin, FS_StrictSubsetOrderingWellFounded
<1>4. PICK m \in S \cap (0..n) : X = 0..m
  OBVIOUS
<1>5. ASSUME NEW y \in S, y < m PROVE FALSE
  <2>1. y \in S \cap (0..n)
    BY <1>5
  <2>2. (0..y) \subseteq (0..m) /\ m \in 0..m /\ m \notin 0..y
    BY <1>5, <2>1
  <2>3. (0..y) \in SUBSET (0..n) /\ (0..m) \in SUBSET (0..n)
    BY <2>1
  <2>4. <<0..y, 0..m>> \in StrictSubsetOrdering(0..n)
    BY <2>2, <2>3 DEF StrictSubsetOrdering
  <2>. QED BY <1>3, <1>4, <2>1, <2>4
<1>6. m \in S /\ \A y \in S : m <= y
  BY <1>5
<1>7. \E x \in S : \A y \in S : x <= y
  BY <1>6
<1>. QED BY <1>7 DEF Min

(* A nonempty bounded set of numbers has a last element.                    *)
LEMMA MaxOf ==
  ASSUME NEW S \in SUBSET Nat, S # {}, NEW n \in Nat, \A x \in S : x <= n
  PROVE  Max(S) \in S /\ \A x \in S : Max(S) >= x
<1>. DEFINE R == {n - x : x \in S}
<1>1. R \in SUBSET Nat /\ R # {}
  <2>1. ASSUME NEW x \in S PROVE n - x \in Nat
    OBVIOUS
  <2>2. PICK x \in S : TRUE
    OBVIOUS
  <2>3. n - x \in R
    OBVIOUS
  <2>4. R \subseteq Nat
    BY <2>1
  <2>. QED BY <2>3, <2>4
<1>2. Min(R) \in R /\ \A y \in R : Min(R) <= y
  BY <1>1, MinOf
<1>3. PICK m \in S : Min(R) = n - m
  BY <1>2
<1>4. \A x \in S : n - m <= n - x
  BY <1>2, <1>3
<1>5. \A x \in S : m >= x
  BY <1>4
<1>. QED BY <1>5 DEF Max

(* The points in front of one are finitely many numbers.                    *)
LEMMA BeforeType ==
  ASSUME NEW V \in SUBSET Nat, NEW s \in Nat
  PROVE  Before(V, s) \in SUBSET Nat /\ IsFiniteSet(Before(V, s)) /\ \A q \in Before(V, s) : q <= s
<1>1. ASSUME NEW q \in Before(V, s) PROVE q \in Nat /\ q <= s
  BY DEF Before
<1>2. Before(V, s) \subseteq Nat
  BY <1>1
<1>. QED BY <1>1, <1>2, FS_BoundedSetOfNaturals

(* A point that AssemblePacket takes for the first of a turn is of a later  *)
(* turn than all in front of it.                                            *)
LEMMA WrapIsTurn ==
  ASSUME NEW V \in SUBSET Nat, NEW s \in V, WrapAt(V, s)
  PROVE  \A q \in Before(V, s) : TurnOf(q) < TurnOf(s)
<1>. DEFINE last == Max(Before(V, s))
<1>1. last \in Before(V, s) /\ \A q \in Before(V, s) : last >= q
  <2>1. Before(V, s) \in SUBSET Nat /\ s \in Nat /\ \A q \in Before(V, s) : q <= s
    BY BeforeType
  <2>2. Before(V, s) # {}
    BY DEF WrapAt
  <2>. QED BY <2>1, <2>2, MaxOf
<1>0. Angle(s) < Window /\ Angle(last) >= Turn - Window
  BY DEF WrapAt
<1>. HIDE DEF last
<1>2. last \in Nat /\ last < s /\ s \in Nat
  BY <1>1 DEF Before
<1>6. Angle(s) < Angle(last)
  BY <1>0, <1>2, Dividing, TurnPos, WindowAssumption
<1>3. TurnOf(last) # TurnOf(s)
  BY <1>2, <1>6, Dividing, TurnPos
<1>4. TurnOf(last) < TurnOf(s)
  <2>1. TurnOf(last) <= TurnOf(s)
    BY <1>2, Monotone
  <2>. QED BY <2>1, <1>2, <1>3, Dividing
<1>5. ASSUME NEW q \in Before(V, s) PROVE TurnOf(q) < TurnOf(s)
  <2>1. q \in Nat /\ q <= last
    BY <1>1, <1>2 DEF Before
  <2>2. TurnOf(q) <= TurnOf(last)
    BY <2>1, <1>2, Monotone
  <2>. QED BY <2>1, <2>2, <1>2, <1>4, Dividing
<1>. QED BY <1>5

(* Where points of turn t or older and of later turns are there, and no two *)
(* packets in a row are lost, AssemblePacket takes a point for the first of *)
(* a turn, and in front of it are all those up to turn t.                   *)
LEMMA TurnWraps ==
  ASSUME NEW V \in SUBSET Nat, NEW end \in Nat, \A p \in V : p < end, NoTwoLost(V, end),
         NEW t \in Nat, NEW old \in V, TurnOf(old) <= t, NEW new \in V, t < TurnOf(new)
  PROVE  \E s \in V : /\ s <= new /\ t < TurnOf(s) /\ WrapAt(V, s)
                      /\ Before(V, s) = {q \in V : TurnOf(q) <= t}
<1>. DEFINE Later == {q \in V : t < TurnOf(q)}
            s     == Min(Later)
            last  == Max(Before(V, s))
            b     == Turn * (t + 1)
<1>0. b \in Nat /\ b = Turn * t + Turn
  BY TurnPos
<1>. HIDE DEF b
<1>1. s \in Later /\ \A q \in Later : s <= q
  BY MinOf
<1>2. s \in V /\ s \in Nat /\ s <= new /\ t < TurnOf(s)
  BY <1>1
<1>. HIDE DEF s
<1>3. Before(V, s) = {q \in V : TurnOf(q) <= t}
  <2>1. ASSUME NEW q \in V, q < s PROVE TurnOf(q) <= t
    BY <2>1, <1>1, <1>2, Dividing
  <2>2. ASSUME NEW q \in V, TurnOf(q) <= t PROVE q < s
    <3>1. ASSUME s <= q PROVE FALSE
      <4>1. TurnOf(s) <= TurnOf(q)
        BY <3>1, <1>2, Monotone
      <4>. QED BY <4>1, <2>2, <1>2, Dividing
    <3>. QED BY <3>1, <1>2
  <2>. QED BY <2>1, <2>2 DEF Before
<1>4. last \in Before(V, s) /\ \A q \in Before(V, s) : last >= q
  <2>1. old \in Before(V, s)
    BY <1>3
  <2>2. Before(V, s) \in SUBSET Nat /\ Before(V, s) # {} /\ \A q \in Before(V, s) : q <= s
    BY <2>1, <1>2, BeforeType
  <2>. QED BY <2>2, <1>2, MaxOf
<1>. HIDE DEF last
<1>5. \A q \in Nat : t < TurnOf(q) <=> b <= q
  <2>1. ASSUME NEW q \in Nat, t < TurnOf(q) PROVE b <= q
    <3>1. b <= Turn * TurnOf(q)
      <4>1. TurnOf(q) \in Nat
        BY Dividing
      <4>2. Turn * t + Turn <= Turn * TurnOf(q)
        BY <2>1, <4>1, NextTurn, TurnPos
      <4>. QED BY <4>2, <1>0
    <3>2. TurnOf(q) \in Nat /\ Angle(q) \in 0..(Turn - 1) /\ q = Turn * TurnOf(q) + Angle(q)
      BY Dividing
    <3>3. Turn * TurnOf(q) \in Nat
      BY <3>2, TurnPos
    <3>. QED BY <3>1, <3>2, <3>3, <1>0, TurnPos
  <2>2. ASSUME NEW q \in Nat, TurnOf(q) <= t PROVE q < b
    <3>1. TurnOf(q) \in Nat /\ Angle(q) \in 0..(Turn - 1) /\ q = Turn * TurnOf(q) + Angle(q)
      BY Dividing
    <3>2. TurnOf(q) = t \/ Turn * TurnOf(q) + Turn <= Turn * t
      <4>1. CASE TurnOf(q) < t
        BY <4>1, <3>1, NextTurn, TurnPos
      <4>. QED BY <4>1, <2>2, <3>1
    <3>3. Turn * t \in Nat /\ Turn * TurnOf(q) \in Nat
      BY <3>1, TurnPos
    <3>4. CASE TurnOf(q) = t
      BY <3>1, <3>3, <3>4, <1>0, TurnPos
    <3>5. CASE Turn * TurnOf(q) + Turn <= Turn * t
      BY <3>1, <3>3, <3>5, <1>0, TurnPos
    <3>. QED BY <3>2, <3>4, <3>5
  <2>. QED BY <2>1, <2>2, <1>0, Dividing
<1>6. b <= s /\ last < b /\ last \in V /\ last \in Nat
  <2>1. last \in V /\ TurnOf(last) <= t
    BY <1>3, <1>4
  <2>. QED BY <2>1, <1>0, <1>2, <1>5, Dividing
<1>7. s <= b + PerPacket
  <2>. SUFFICES ASSUME b + PerPacket < s PROVE FALSE
    BY <1>0, <1>2, TurnPos
  <2>1. ASSUME NEW p \in V, b <= p PROVE s <= p
    BY <2>1, <1>1, <1>5
  <2>2. b + PerPacket \notin V /\ b \notin V
    BY <2>1, <1>0, TurnPos, <1>2
  <2>3. b + PerPacket \in 0..(end - 1) /\ last + PerPacket <= b + PerPacket
    BY <1>0, <1>2, <1>6, TurnPos
  <2>4. (b + PerPacket) - PerPacket \in V
    BY <2>2, <2>3, <1>6 DEF NoTwoLost
  <2>. QED BY <2>2, <2>4, <1>0, TurnPos
<1>8. last >= b - 1 - PerPacket
  <2>. SUFFICES ASSUME last < b - 1 - PerPacket PROVE FALSE
    BY <1>0, <1>6, TurnPos
  <2>1. ASSUME NEW p \in V, p < b PROVE p <= last
    <3>1. p \in Nat /\ TurnOf(p) \in Nat /\ ~(t < TurnOf(p))
      BY <2>1, <1>0, <1>5, Dividing
    <3>2. p \in Before(V, s)
      BY <3>1, <1>3
    <3>. QED BY <3>1, <3>2, <1>4, <1>6
  <2>2. b - 1 \notin V /\ (b - 1) - PerPacket \notin V
    BY <2>1, <1>0, <1>6, TurnPos
  <2>3. b - 1 \in 0..(end - 1) /\ last + PerPacket <= b - 1
    BY <1>0, <1>2, <1>6, TurnPos
  <2>. QED BY <2>2, <2>3, <1>6 DEF NoTwoLost
<1>9. Angle(s) < Window
  <2>1. b <= s /\ s < b + Turn
    BY <1>0, <1>2, <1>6, <1>7, TurnPos, WindowAssumption
  <2>2. TurnOf(s) = t + 1
    BY <2>1, <1>2, TurnBounds DEF b
  <2>3. s = b + Angle(s)
    BY <2>2, <1>2, Dividing DEF b
  <2>. QED BY <2>3, <1>0, <1>2, <1>7, TurnPos, WindowAssumption, Dividing
<1>10. Angle(last) >= Turn - Window
  <2>1. Turn * t <= last /\ last < Turn * t + Turn
    BY <1>0, <1>6, <1>8, TurnPos, WindowAssumption
  <2>2. TurnOf(last) = t
    BY <2>1, <1>6, TurnBounds
  <2>3. last = (b - Turn) + Angle(last)
    BY <2>2, <1>0, <1>6, Dividing, TurnPos
  <2>. QED BY <2>3, <1>0, <1>6, <1>8, TurnPos, WindowAssumption, Dividing
<1>11. WrapAt(V, s)
  BY <1>4, <1>9, <1>10 DEF WrapAt, last
<1>. QED BY <1>2, <1>3, <1>11

(* A finite set is as large as its two parts together.                      *)
LEMMA SplitSize ==
  ASSUME NEW A, IsFiniteSet(A), NEW B
  PROVE  /\ IsFiniteSet(A \cap B) /\ IsFiniteSet(A \ B)
         /\ Cardinality(A \cap B) \in Nat /\ Cardinality(A \ B) \in Nat
         /\ Cardinality(A \cap B) + Cardinality(A \ B) = Cardinality(A)
<1>1. /\ IsFiniteSet(A \cap B) /\ IsFiniteSet(A \ B)
      /\ Cardinality(A \ B) = Cardinality(A) - Cardinality(A \cap B)
  BY FS_Difference, FS_Intersection
<1>2. Cardinality(A \cap B) \in Nat /\ Cardinality(A \ B) \in Nat /\ Cardinality(A) \in Nat
  BY <1>1, FS_CardinalityType
<1>. QED BY <1>1, <1>2

(* So are two disjoint sets together.                                       *)
LEMMA JoinSize ==
  ASSUME NEW A, IsFiniteSet(A), NEW B, IsFiniteSet(B), A \cap B = {}
  PROVE  IsFiniteSet(A \cup B) /\ Cardinality(A \cup B) = Cardinality(A) + Cardinality(B)
<1>1. Cardinality(A) \in Nat /\ Cardinality(B) \in Nat /\ Cardinality(A \cap B) = 0
  BY FS_CardinalityType, FS_EmptySet
<1>2. IsFiniteSet(A \cup B) /\ Cardinality(A \cup B) = Cardinality(A) + Cardinality(B) - Cardinality(A \cap B)
  BY FS_Union
<1>. QED BY <1>1, <1>2

(* The size of an interval.                                                 *)
LEMMA Interval ==
  ASSUME NEW a \in Nat, NEW n \in Nat
  PROVE  IsFiniteSet(a..(a + n - 1)) /\ Cardinality(a..(a + n - 1)) = n
<1>. DEFINE z == a + n - 1
<1>1. a \in Int /\ z \in Int
  OBVIOUS
<1>2. IsFiniteSet(a..z) /\ Cardinality(a..z) = IF a > z THEN 0 ELSE z - a + 1
  <2>. HIDE DEF z
  <2>. QED BY <1>1, FS_Interval
<1>. QED BY <1>2

(* The points of one turn are at most Turn, and if as many, all of it.      *)
LEMMA OneTurn ==
  ASSUME NEW b, NEW t \in Nat, \A q \in b : q \in Nat /\ TurnOf(q) = t
  PROVE  /\ b \subseteq (Turn * t)..(Turn * t + Turn - 1)
         /\ IsFiniteSet(b) /\ Cardinality(b) \in Nat /\ Cardinality(b) <= Turn
         /\ Cardinality(b) >= Turn => b = (Turn * t)..(Turn * t + Turn - 1)
<1>. DEFINE all == (Turn * t)..(Turn * t + Turn - 1)
            low == Turn * t
<1>1. low \in Nat
  BY TurnPos
<1>2. \A q \in b : q \in all
  BY <1>1, TurnBounds, TurnPos
<1>. HIDE DEF low
<1>3. IsFiniteSet(low..(low + Turn - 1)) /\ Cardinality(low..(low + Turn - 1)) = Turn
  BY <1>1, TurnPos, Interval
<1>4. IsFiniteSet(all) /\ Cardinality(all) = Turn
  BY <1>3 DEF low
<1>. HIDE DEF all
<1>5. b \in SUBSET all
  BY <1>2
<1>6. /\ IsFiniteSet(b) /\ Cardinality(b) <= Cardinality(all)
      /\ Cardinality(all) = Cardinality(b) => all = b
  BY <1>4, <1>5, FS_Subset
<1>7. Cardinality(b) \in Nat
  BY <1>6, FS_CardinalityType
<1>. QED BY <1>4, <1>5, <1>6, <1>7, TurnPos DEF all

(* A turn without a gap in front of another one: of the second at least     *)
(* half arrived, less a packet, so both are too long for one.               *)
LEMMA SecondTurn ==
  ASSUME NEW V \in SUBSET Nat, NEW end \in Nat, \A p \in V : p < end, NoTwoLost(V, end),
         NEW t \in Nat, (Turn * t)..(Turn * t + Turn - 1) \subseteq V,
         NEW s \in V, TurnOf(s) > t + 1
  PROVE  TooLong(Cardinality(Before(V, s)))
<1>. DEFINE low == Turn * t
            b   == low + Turn
            fst == low..(low + Turn - 1)
            snd == b..(b + Turn - 1)
            S   == snd \cap V
            M   == snd \ V
            I   == b..(b + PerPacket - 1)
            N   == {p + PerPacket : p \in S}
<1>1. low \in Nat /\ b \in Nat /\ b = low + Turn /\ b = Turn * (t + 1)
  <2>1. Turn * t \in Nat /\ Turn * (t + 1) = Turn * t + Turn
    BY TurnPos
  <2>. QED BY <2>1, TurnPos
<1>0. fst \subseteq V
  BY <1>1
<1>. HIDE DEF low, b
<1>2. b + Turn <= s
  <2>1. TurnOf(s) \in Nat /\ Angle(s) \in 0..(Turn - 1) /\ s = Turn * TurnOf(s) + Angle(s)
    BY Dividing
  <2>2. Turn * (t + 1) + Turn <= Turn * TurnOf(s)
    BY <2>1, NextTurn, TurnPos
  <2>3. Turn * TurnOf(s) \in Nat
    BY <2>1, TurnPos
  <2>4. b = Turn * (t + 1)
    BY <1>1
  <2>. HIDE DEF low, b
  <2>. QED BY <2>1, <2>2, <2>3, <2>4, TurnPos
<1>3. IsFiniteSet(snd) /\ Cardinality(snd) = Turn
  BY <1>1, TurnPos, Interval
<1>4. IsFiniteSet(fst) /\ Cardinality(fst) = Turn
  BY <1>1, TurnPos, Interval
<1>5. IsFiniteSet(I) /\ Cardinality(I) = PerPacket
  BY <1>1, TurnPos, Interval
<1>6. /\ IsFiniteSet(S) /\ IsFiniteSet(M) /\ Cardinality(S) \in Nat /\ Cardinality(M) \in Nat
      /\ Cardinality(S) + Cardinality(M) = Turn
  <2>. HIDE DEF snd
  <2>. QED BY <1>3, SplitSize
<1>7. IsFiniteSet(N) /\ Cardinality(N) <= Cardinality(S) /\ Cardinality(N) \in Nat
  <2>. DEFINE f == [p \in S |-> p + PerPacket]
  <2>1. f \in Surjection(S, N)
    BY DEF Surjection
  <2>2. IsFiniteSet(N) /\ Cardinality(N) <= Cardinality(S)
    <3>. HIDE DEF f, N, S
    <3>. QED BY <1>6, <2>1, FS_Surjection
  <2>. QED BY <2>2, FS_CardinalityType
<1>8. M \subseteq I \cup N
  <2>. SUFFICES ASSUME NEW p \in M, p \notin I PROVE p \in N
    OBVIOUS
  <2>1. p \in Nat /\ p \notin V /\ b + PerPacket <= p /\ p < b + Turn
    BY <1>1, TurnPos
  <2>2. b \in Nat /\ low \in V /\ low + PerPacket <= p /\ p \in 0..(end - 1)
    <3>1. low \in fst
      BY <1>1, TurnPos
    <3>. QED BY <3>1, <1>0, <1>1, <1>2, <2>1, TurnPos
  <2>3. p - PerPacket \in V
    BY <2>1, <2>2 DEF NoTwoLost
  <2>4. p - PerPacket \in S /\ p = (p - PerPacket) + PerPacket
    BY <2>1, <2>2, <2>3, TurnPos
  <2>. QED BY <2>4
<1>9. Cardinality(M) <= PerPacket + Cardinality(S)
  <2>. HIDE DEF M, I, N
  <2>1. IsFiniteSet(I \cup N) /\ Cardinality(I \cup N) = Cardinality(I) + Cardinality(N) - Cardinality(I \cap N)
    BY <1>5, <1>7, FS_Union
  <2>2. Cardinality(I \cap N) \in Nat
    BY <1>5, FS_Intersection, FS_CardinalityType
  <2>3. Cardinality(M) <= Cardinality(I \cup N)
    BY <2>1, <1>8, FS_Subset
  <2>. QED BY <2>1, <2>2, <2>3, <1>5, <1>6, <1>7, TurnPos
<1>10. IsFiniteSet(fst \cup S) /\ Cardinality(fst \cup S) = Turn + Cardinality(S)
  <2>1. fst \cap S = {}
    BY <1>1, TurnPos
  <2>. HIDE DEF fst, S
  <2>. QED BY <2>1, <1>4, <1>6, JoinSize
<1>11. fst \cup S \subseteq Before(V, s)
  <2>1. ASSUME NEW q \in fst \cup S PROVE q \in V /\ q < s
    BY <1>0, <1>1, <1>2, TurnPos
  <2>. QED BY <2>1 DEF Before
<1>12. /\ IsFiniteSet(Before(V, s)) /\ Cardinality(Before(V, s)) \in Nat
       /\ Turn + Cardinality(S) <= Cardinality(Before(V, s))
  <2>. HIDE DEF fst, S
  <2>1. IsFiniteSet(Before(V, s))
    BY BeforeType
  <2>. QED BY <2>1, <1>10, <1>11, FS_Subset, FS_CardinalityType
<1>13. 5 * (Turn + Cardinality(S)) > 7 * Turn
  <2>1. Cardinality(S) \in 0..Turn /\ 2 * Cardinality(S) >= Turn - PerPacket
    BY <1>6, <1>9, TurnPos
  <2>. QED BY <2>1, TwoTurnsAssumption
<1>. QED BY <1>12, <1>13, <1>6, TurnPos DEF TooLong

(* Points of one turn alone are not too many for a frame, and only a turn   *)
(* without a gap vanishes in the filter.                                    *)
LEMMA FullTurn ==
  ASSUME NEW V \in SUBSET Nat, NEW s \in Nat, NEW t \in Nat,
         \A q \in Before(V, s) : TurnOf(q) = t
  PROVE  /\ ~TooLong(Cardinality(Before(V, s)))
         /\ ~Overfull(Cardinality(Before(V, s)) + 1)
         /\ Seamless(Before(V, s)) => (Turn * t)..(Turn * t + Turn - 1) \subseteq V
<1>. DEFINE b == Before(V, s)
<1>1. \A q \in b : q \in Nat /\ TurnOf(q) = t
  BY BeforeType
<1>2. /\ Cardinality(b) \in Nat /\ Cardinality(b) <= Turn
      /\ Cardinality(b) >= Turn => b = (Turn * t)..(Turn * t + Turn - 1)
  <2>. HIDE DEF b
  <2>. QED BY <1>1, OneTurn
<1>3. b \subseteq V
  BY DEF Before
<1>. HIDE DEF b
<1>4. ~TooLong(Cardinality(b)) /\ ~Overfull(Cardinality(b) + 1)
  BY <1>2, TurnPos, WindowAssumption DEF TooLong, Overfull
<1>. QED BY <1>2, <1>3, <1>4 DEF Seamless, b

(* Points of at most two turns are not too many for AssemblePacket to wait. *)
LEMMA TwoTurns ==
  ASSUME NEW V \in SUBSET Nat, NEW s \in V, NEW t \in Nat,
         \A q \in V : q <= s => TurnOf(q) = t \/ TurnOf(q) = t + 1
  PROVE  ~Overfull(Cardinality(Before(V, s)) + 1)
<1>. DEFINE P(n) == {q \in V : q <= s /\ TurnOf(q) = n}
            A    == P(t)
            B    == P(t + 1)
<1>1. ASSUME NEW n \in Nat
      PROVE  IsFiniteSet(P(n)) /\ Cardinality(P(n)) \in Nat /\ Cardinality(P(n)) <= Turn
  <2>1. \A q \in P(n) : q \in Nat /\ TurnOf(q) = n
    OBVIOUS
  <2>. HIDE DEF P
  <2>. QED BY <2>1, OneTurn
<1>2. /\ IsFiniteSet(A) /\ Cardinality(A) \in Nat /\ Cardinality(A) <= Turn
      /\ IsFiniteSet(B) /\ Cardinality(B) \in Nat /\ Cardinality(B) <= Turn
  <2>1. t + 1 \in Nat
    OBVIOUS
  <2>. HIDE DEF P
  <2>. QED BY <1>1, <2>1
<1>3. A \cap B = {}
  OBVIOUS
<1>4. Before(V, s) \cup {s} = A \cup B /\ s \notin Before(V, s)
  <2>1. s \in Nat
    OBVIOUS
  <2>2. ASSUME NEW q \in V PROVE q \in Before(V, s) \cup {s} <=> q <= s
    BY <2>1 DEF Before
  <2>3. A \cup B = {q \in V : q <= s}
    OBVIOUS
  <2>4. s \notin Before(V, s) /\ Before(V, s) \cup {s} \subseteq V
    BY <2>1 DEF Before
  <2>. QED BY <2>2, <2>3, <2>4
<1>. HIDE DEF A, B, P
<1>5. Cardinality(A \cup B) <= 2 * Turn
  <2>1. Cardinality(A \cup B) = Cardinality(A) + Cardinality(B)
    BY <1>2, <1>3, JoinSize
  <2>. QED BY <2>1, <1>2, TurnPos
<1>6. IsFiniteSet(Before(V, s)) /\ Cardinality(Before(V, s)) \in Nat
  BY BeforeType, FS_CardinalityType
<1>7. Cardinality(Before(V, s) \cup {s}) = Cardinality(Before(V, s)) + 1
  BY <1>4, <1>6, FS_AddElement
<1>8. Cardinality(Before(V, s)) + 1 <= 2 * Turn
  BY <1>4, <1>5, <1>7
<1>. QED BY <1>6, <1>8, TurnPos DEF Overfull

(* Whatever part of the turns' points is missing, no two packets in a row:  *)
(* AssemblePacket keeps all points, or drops or hands on those in front of  *)
(* a point that begins a turn, and what it hands on is of one turn.         *)
THEOREM CutAtTurns ==
  ASSUME NEW V \in SUBSET Nat, NEW end \in Nat, \A p \in V : p < end, NoTwoLost(V, end),
         NEW vanish \in BOOLEAN
  PROVE  LET result == Assembled(V, vanish)
         IN  \/ result.frame = {} /\ result.rest = V
             \/ \E s \in V :
                  /\ result.rest = V \ Before(V, s)
                  /\ \A q \in Before(V, s) : TurnOf(q) < TurnOf(s)
                  /\ \/ result.frame = {}
                     \/ /\ result.frame = Before(V, s)
                        /\ \A p, q \in Before(V, s) : TurnOf(p) = TurnOf(q)
<1>. DEFINE Count(p) == Cardinality(Before(V, p))
            Drops(p) == WrapAt(V, p) /\ TooLong(Count(p))
            Emits(p) == WrapAt(V, p) /\ ~TooLong(Count(p)) /\ ~(vanish /\ Seamless(Before(V, p)))
            Stops    == {p \in V : Emits(p) \/ Drops(p) \/ Overfull(Count(p) + 1)}
            stop     == Min(Stops)
            used     == Before(V, stop) \cup (IF Emits(stop) \/ Drops(stop) THEN {} ELSE {stop})
            result   == Assembled(V, vanish)
<1>1. result = IF Stops = {} THEN [frame |-> {}, rest |-> V]
               ELSE [frame |-> IF Emits(stop) THEN used ELSE {}, rest |-> V \ used]
  BY DEF Assembled
<1>2. CASE Stops = {}
  <2>. HIDE DEF Stops, stop, used, Emits
  <2>1. result = [frame |-> {}, rest |-> V]
    BY <1>1, <1>2
  <2>. HIDE DEF result
  <2>2. result.frame = {} /\ result.rest = V
    BY <2>1
  <2>. QED BY <2>2 DEF result
<1>3. CASE Stops # {}
  <2>. DEFINE t == TurnOf(Min(V))
  <2>1. stop \in V /\ stop \in Stops /\ \A q \in Stops : stop <= q
    <3>1. Stops \in SUBSET Nat
      OBVIOUS
    <3>. HIDE DEF Stops
    <3>2. stop \in Stops /\ \A q \in Stops : stop <= q
      BY <1>3, <3>1, MinOf
    <3>. QED BY <3>2 DEF Stops
  <2>. HIDE DEF stop
  <2>2. Min(V) \in V /\ \A q \in V : Min(V) <= q
    BY <2>1, MinOf
  <2>3. t \in Nat /\ \A q \in V : TurnOf(q) \in Nat /\ t <= TurnOf(q)
    BY <2>2, Dividing, Monotone
  <2>4. ASSUME NEW x \in V, x < stop, TurnOf(x) > t
        PROVE  (Turn * t)..(Turn * t + Turn - 1) \subseteq V
    <3>1. PICK s \in V : /\ s <= x /\ t < TurnOf(s) /\ WrapAt(V, s)
                         /\ Before(V, s) = {q \in V : TurnOf(q) <= t}
      BY <2>2, <2>3, <2>4, TurnWraps
    <3>2. ASSUME NEW q \in Before(V, s) PROVE TurnOf(q) = t
      <4>. HIDE DEF t
      <4>1. q \in V /\ TurnOf(q) <= t
        BY <3>1
      <4>. QED BY <4>1, <2>3
    <3>3. s \notin Stops
      BY <2>1, <2>4, <3>1
    <3>4. ~TooLong(Count(s))
      BY <3>2, <2>3, FullTurn
    <3>5. ~Emits(s)
      <4>. HIDE DEF Emits, Drops, Count
      <4>. QED BY <3>3
    <3>6. Seamless(Before(V, s))
      BY <3>1, <3>4, <3>5
    <3>. QED BY <3>2, <3>6, <2>3, FullTurn
  <2>5. ASSUME NEW x \in V, x < stop, TurnOf(x) > t, NEW y \in V, TurnOf(y) > t + 1
        PROVE  TooLong(Count(y))
    BY <2>3, <2>4, <2>5, SecondTurn
  <2>6. WrapAt(V, stop)
    <3>. SUFFICES ASSUME ~WrapAt(V, stop) PROVE FALSE
      OBVIOUS
    <3>1. Overfull(Count(stop) + 1)
      BY <2>1
    <3>2. PICK y \in V : y <= stop /\ ~(TurnOf(y) = t \/ TurnOf(y) = t + 1)
      BY <3>1, <2>1, <2>3, TwoTurns
    <3>3. TurnOf(y) > t + 1
      BY <3>2, <2>3
    <3>4. PICK s \in V : s <= y /\ t + 1 < TurnOf(s) /\ WrapAt(V, s)
      <4>1. t + 1 \in Nat /\ TurnOf(Min(V)) <= t + 1
        BY <2>3
      <4>. QED BY <4>1, <2>2, <3>3, TurnWraps
    <3>5. PICK x \in V : x < stop /\ TurnOf(x) > t
      <4>1. ~(\A q \in Before(V, stop) : TurnOf(q) = t)
        BY <3>1, <2>1, <2>3, FullTurn
      <4>. QED BY <4>1, <2>3 DEF Before
    <3>6. TooLong(Count(s))
      BY <3>4, <3>5, <2>5
    <3>7. s \in Stops
      BY <3>4, <3>6
    <3>8. s = stop
      BY <3>7, <3>4, <3>2, <2>1
    <3>. QED BY <3>4, <3>8
  <2>7. Emits(stop) \/ Drops(stop)
    <3>1. Count(stop) \in Nat
      BY <2>1, BeforeType, FS_CardinalityType
    <3>2. Overfull(Count(stop) + 1) => TooLong(Count(stop))
      BY <3>1, TurnPos, WindowAssumption DEF Overfull, TooLong
    <3>. QED BY <3>2, <2>1, <2>6
  <2>8. used = Before(V, stop)
    BY <2>7
  <2>9. /\ result.rest = V \ Before(V, stop)
        /\ result.frame = IF Emits(stop) THEN Before(V, stop) ELSE {}
    <3>1. result = [frame |-> IF Emits(stop) THEN used ELSE {}, rest |-> V \ used]
      BY <1>1, <1>3
    <3>. HIDE DEF used, Emits, result
    <3>. QED BY <3>1, <2>8
  <2>10. \A q \in Before(V, stop) : TurnOf(q) < TurnOf(stop)
    BY <2>1, <2>6, WrapIsTurn
  <2>11. ASSUME Emits(stop), NEW x \in Before(V, stop) PROVE TurnOf(x) = t
    <3>. SUFFICES ASSUME TurnOf(x) > t PROVE FALSE
      BY <2>3 DEF Before
    <3>1. x \in V /\ x < stop /\ TurnOf(stop) > t + 1
      BY <2>1, <2>3, <2>10 DEF Before
    <3>2. TooLong(Count(stop))
      BY <3>1, <2>1, <2>5
    <3>. QED BY <2>11, <3>2
  <2>. HIDE DEF result, t, Emits
  <2>. QED BY <2>1, <2>9, <2>10, <2>11 DEF result
<1>. QED BY <1>2, <1>3

(* Of whatever points, and however many were lost, a frame is those in      *)
(* front of a point that begins a turn, never more than 1.4 turns of them,  *)
(* and all the others are kept: no point is dropped with a frame or goes    *)
(* into two (AssemblePacket).                                               *)
THEOREM FrameIsHead ==
  ASSUME NEW V \in SUBSET Nat, NEW vanish \in BOOLEAN, Assembled(V, vanish).frame # {}
  PROVE  \E s \in V :
           /\ WrapAt(V, s) /\ 5 * Cardinality(Before(V, s)) <= 7 * Turn
           /\ Assembled(V, vanish).frame = Before(V, s)
           /\ Assembled(V, vanish).rest = V \ Before(V, s)
<1>. DEFINE Count(p) == Cardinality(Before(V, p))
            Drops(p) == WrapAt(V, p) /\ TooLong(Count(p))
            Emits(p) == WrapAt(V, p) /\ ~TooLong(Count(p)) /\ ~(vanish /\ Seamless(Before(V, p)))
            Stops    == {p \in V : Emits(p) \/ Drops(p) \/ Overfull(Count(p) + 1)}
            stop     == Min(Stops)
            used     == Before(V, stop) \cup (IF Emits(stop) \/ Drops(stop) THEN {} ELSE {stop})
            result   == Assembled(V, vanish)
<1>1. result = IF Stops = {} THEN [frame |-> {}, rest |-> V]
               ELSE [frame |-> IF Emits(stop) THEN used ELSE {}, rest |-> V \ used]
  BY DEF Assembled
<1>2. Stops # {} /\ Emits(stop) /\ result.frame = used /\ result.rest = V \ used
  <2>1. result.frame # {}
    OBVIOUS
  <2>. HIDE DEF Stops, stop, used, Emits, result
  <2>. QED BY <1>1, <2>1
<1>3. stop \in V
  <2>1. Stops \in SUBSET Nat
    OBVIOUS
  <2>. HIDE DEF Stops
  <2>2. stop \in Stops
    BY <1>2, <2>1, MinOf
  <2>. QED BY <2>2 DEF Stops
<1>4. used = Before(V, stop)
  BY <1>2
<1>5. Count(stop) \in Nat
  BY <1>3, BeforeType, FS_CardinalityType
<1>6. WrapAt(V, stop) /\ 5 * Count(stop) <= 7 * Turn
  <2>1. WrapAt(V, stop) /\ ~(5 * Count(stop) > 7 * Turn)
    BY <1>2 DEF TooLong
  <2>. HIDE DEF stop, Count
  <2>. QED BY <2>1, <1>5, TurnPos
<1>. HIDE DEF stop, used, result, Emits
<1>7. result.frame = Before(V, stop) /\ result.rest = V \ Before(V, stop)
  BY <1>2, <1>4
<1>. QED BY <1>3, <1>6, <1>7 DEF result

-----------------------------------------------------------------------------
(* The frames of the run.                                                   *)

\* The points of the turns so far: f is the newest frame, v what is not yet in one,
\* h what was heard of since that frame's turn began.
Sorted(v, h, f, end) ==
  /\ v \subseteq h /\ h \subseteq 0..(end - 1) /\ f \subseteq h \ v
  /\ \A q \in h \ v : TurnOf(q) < TurnOf(end) /\ \A p \in v : TurnOf(q) < TurnOf(p)
  /\ f # {} => \E p \in f : f = {q \in h : TurnOf(q) = TurnOf(p)}

(* Newer points are sorted behind the older ones.                           *)
LEMMA SortedAdd ==
  ASSUME NEW v, NEW h, NEW f, NEW end \in Nat, Sorted(v, h, f, end),
         NEW end2 \in Nat, end <= end2, NEW add \in SUBSET (end..(end2 - 1))
  PROVE  Sorted(v \cup add, h \cup add, f, end2)
<1>1. \A q \in h : q \in Nat /\ q < end /\ q < end2 /\ TurnOf(q) \in Nat
  BY Dividing DEF Sorted
<1>2. TurnOf(end) \in Nat /\ TurnOf(end2) \in Nat /\ TurnOf(end) <= TurnOf(end2)
  BY Dividing, Monotone
<1>3. ASSUME NEW p \in add PROVE p \in Nat /\ end <= p /\ p < end2 /\ TurnOf(p) \in Nat /\ TurnOf(end) <= TurnOf(p)
  <2>1. p \in Nat /\ end <= p /\ p < end2
    OBVIOUS
  <2>. QED BY <2>1, Dividing, Monotone
<1>4. add \cap h = {}
  BY <1>1, <1>3
<1>5. /\ v \cup add \subseteq h \cup add /\ f \subseteq (h \cup add) \ (v \cup add)
      /\ (h \cup add) \ (v \cup add) = h \ v
  BY <1>4 DEF Sorted
<1>6. h \cup add \subseteq 0..(end2 - 1)
  <2>1. \A q \in h : q \in 0..(end2 - 1)
    BY <1>1
  <2>2. \A p \in add : p \in 0..(end2 - 1)
    BY <1>3
  <2>. QED BY <2>1, <2>2
<1>7. ASSUME NEW q \in h \ v
      PROVE  TurnOf(q) < TurnOf(end2) /\ \A p \in v \cup add : TurnOf(q) < TurnOf(p)
  <2>1. TurnOf(q) < TurnOf(end) /\ \A p \in v : TurnOf(q) < TurnOf(p)
    BY DEF Sorted
  <2>2. TurnOf(q) \in Nat
    BY <1>1
  <2>3. TurnOf(q) < TurnOf(end2)
    BY <2>1, <2>2, <1>2
  <2>4. ASSUME NEW p \in add PROVE TurnOf(q) < TurnOf(p)
    BY <2>1, <2>2, <1>2, <1>3
  <2>. QED BY <2>1, <2>3, <2>4
<1>8. ASSUME f # {} PROVE \E p \in f : f = {q \in h \cup add : TurnOf(q) = TurnOf(p)}
  <2>1. PICK p \in f : f = {q \in h : TurnOf(q) = TurnOf(p)}
    BY <1>8 DEF Sorted
  <2>2. p \in h \ v
    BY DEF Sorted
  <2>3. \A q \in add : TurnOf(q) # TurnOf(p)
    BY <2>2, <1>1, <1>3, <1>7
  <2>. QED BY <2>1, <2>3
<1>. QED BY <1>5, <1>6, <1>7, <1>8 DEF Sorted

(* Points of turns before the newest frame's may be forgotten.              *)
LEMMA SortedForget ==
  ASSUME NEW v, NEW h, NEW f, NEW end \in Nat, Sorted(v, h, f, end)
  PROVE  Sorted(v, {p \in h : \A q \in f : TurnOf(p) >= TurnOf(q)}, f, end)
<1>. DEFINE h2 == {p \in h : \A q \in f : TurnOf(p) >= TurnOf(q)}
<1>1. \A q \in h : q \in Nat /\ TurnOf(q) \in Nat
  BY Dividing DEF Sorted
<1>2. v \subseteq h2
  <2>1. ASSUME NEW p \in v, NEW q \in f PROVE TurnOf(p) >= TurnOf(q)
    <3>1. TurnOf(q) < TurnOf(p) /\ p \in h /\ q \in h
      BY DEF Sorted
    <3>. QED BY <3>1, <1>1
  <2>. QED BY <2>1 DEF Sorted
<1>3. f \subseteq h2
  <2>1. ASSUME NEW p \in f, NEW q \in f PROVE TurnOf(p) >= TurnOf(q)
    <3>1. TurnOf(q) = TurnOf(p) /\ p \in h /\ q \in h
      BY DEF Sorted
    <3>. QED BY <3>1, <1>1
  <2>. QED BY <2>1 DEF Sorted
<1>4. f \subseteq h2 \ v /\ h2 \subseteq h
  BY <1>3 DEF Sorted
<1>5. ASSUME f # {} PROVE \E p \in f : f = {q \in h2 : TurnOf(q) = TurnOf(p)}
  <2>1. PICK p \in f : f = {q \in h : TurnOf(q) = TurnOf(p)}
    BY <1>5 DEF Sorted
  <2>. HIDE DEF h2
  <2>. QED BY <2>1, <1>3, <1>4
<1>. HIDE DEF h2
<1>6. Sorted(v, h2, f, end)
  BY <1>2, <1>4, <1>5 DEF Sorted
<1>. QED BY <1>6 DEF h2

(* Points in front of the first of a turn may be dropped.                   *)
LEMMA SortedCut ==
  ASSUME NEW v, NEW h, NEW f, NEW end \in Nat, Sorted(v, h, f, end),
         NEW s \in v, \A q \in Before(v, s) : TurnOf(q) < TurnOf(s)
  PROVE  Sorted(v \ Before(v, s), h, f, end)
<1>1. \A q \in h : q \in Nat /\ TurnOf(q) \in Nat /\ q < end
  BY Dividing DEF Sorted
<1>2. s \in h /\ TurnOf(s) <= TurnOf(end) /\ TurnOf(end) \in Nat
  <2>1. s \in h
    BY DEF Sorted
  <2>. QED BY <2>1, <1>1, Dividing, Monotone
<1>3. ASSUME NEW p \in v \ Before(v, s) PROVE p \in h /\ TurnOf(s) <= TurnOf(p)
  <2>1. p \in h /\ ~(p < s)
    BY DEF Before, Sorted
  <2>2. s <= p
    BY <2>1, <1>1, <1>2
  <2>. QED BY <2>1, <2>2, <1>1, <1>2, Monotone
<1>4. ASSUME NEW q \in h \ (v \ Before(v, s))
      PROVE  TurnOf(q) < TurnOf(end) /\ \A p \in v \ Before(v, s) : TurnOf(q) < TurnOf(p)
  <2>1. CASE q \in v
    <3>1. TurnOf(q) < TurnOf(s)
      BY <2>1
    <3>. QED BY <3>1, <1>1, <1>2, <1>3
  <2>2. CASE q \notin v
    BY <2>2 DEF Sorted
  <2>. QED BY <2>1, <2>2
<1>. QED BY <1>4 DEF Sorted

(* Those of one turn may become the newest frame.                           *)
LEMMA SortedEmit ==
  ASSUME NEW v, NEW h, NEW f, NEW end \in Nat, Sorted(v, h, f, end),
         NEW s \in v, \A q \in Before(v, s) : TurnOf(q) < TurnOf(s),
         Before(v, s) # {}, \A p, q \in Before(v, s) : TurnOf(p) = TurnOf(q)
  PROVE  Sorted(v \ Before(v, s), {p \in h : \A q \in Before(v, s) : TurnOf(p) >= TurnOf(q)},
                Before(v, s), end)
<1>. DEFINE g  == Before(v, s)
            h2 == {p \in h : \A q \in g : TurnOf(p) >= TurnOf(q)}
<1>1. \A q \in h : q \in Nat /\ TurnOf(q) \in Nat
  BY Dividing DEF Sorted
<1>2. PICK x \in g : TRUE
  OBVIOUS
<1>3. g \subseteq v /\ v \subseteq h /\ s \in h /\ x \in h
  BY DEF Before, Sorted
<1>4. \A q \in g : TurnOf(q) = TurnOf(x)
  OBVIOUS
<1>5. ASSUME NEW q \in h, TurnOf(q) = TurnOf(x) PROVE q \in g
  <2>1. q \in v
    <3>1. \A p \in h \ v : TurnOf(p) < TurnOf(x)
      BY <1>3 DEF Sorted
    <3>. QED BY <3>1, <1>1, <1>3, <1>5
  <2>2. q < s
    <3>1. TurnOf(q) < TurnOf(s)
      BY <1>5
    <3>2. ~(s <= q)
      <4>1. ASSUME s <= q PROVE FALSE
        <5>1. TurnOf(s) <= TurnOf(q)
          BY <4>1, <1>1, <1>3, Monotone
        <5>. QED BY <5>1, <3>1, <1>1, <1>3
      <4>. QED BY <4>1
    <3>. QED BY <3>2, <1>1, <1>3
  <2>. QED BY <2>1, <2>2 DEF Before
<1>6. Sorted(v \ g, h, f, end)
  BY SortedCut
<1>7. ASSUME NEW p \in v PROVE TurnOf(p) >= TurnOf(x)
  <2>1. CASE p \in g
    BY <2>1, <1>4, <1>1, <1>3
  <2>2. CASE p \notin g
    <3>1. s <= p
      BY <2>2, <1>1, <1>3 DEF Before
    <3>2. TurnOf(s) <= TurnOf(p)
      BY <3>1, <1>1, <1>3, Monotone
    <3>. QED BY <3>2, <1>1, <1>3
  <2>. QED BY <2>1, <2>2
<1>. HIDE DEF g
<1>8. v \subseteq h2 /\ h2 \subseteq h
  BY <1>3, <1>4, <1>7
<1>9. g = {q \in h2 : TurnOf(q) = TurnOf(x)}
  BY <1>3, <1>4, <1>5, <1>8
<1>. HIDE DEF h2
<1>10. \A q \in h2 \ (v \ g) : TurnOf(q) < TurnOf(end) /\ \A p \in v \ g : TurnOf(q) < TurnOf(p)
  BY <1>6, <1>8 DEF Sorted
<1>11. v \ g \subseteq h2 /\ h2 \subseteq 0..(end - 1) /\ g \subseteq h2 \ (v \ g)
  BY <1>3, <1>8 DEF Sorted
<1>12. Sorted(v \ g, h2, g, end)
  BY <1>2, <1>9, <1>10, <1>11 DEF Sorted
<1>. QED BY <1>12 DEF h2, g

(* A motor that stops empties what is not yet in a frame.                   *)
LEMMA SortedStop ==
  ASSUME NEW v, NEW h, NEW f, NEW end \in Nat, Sorted(v, h, f, end)
  PROVE  Sorted({}, h \cap f, f, end)
BY DEF Sorted

(* The points of the k-th packet.                                           *)
LEMMA PacketIs ==
  ASSUME NEW e \in Nat, NEW k \in Nat \ {0}, NEW p \in Nat
  PROVE  p \in Packet(e, k) <=> e + PerPacket * (k - 1) <= p /\ p < e + PerPacket * (k - 1) + PerPacket
<1>. DEFINE x == PerPacket * (k - 1)
            y == (k - 1) * PerPacket
            z == k * PerPacket
<1>1. x \in Nat /\ y = x /\ z = x + PerPacket
  BY TurnPos
<1>2. Packet(e, k) = (e + y)..(e + z - 1)
  BY DEF Packet
<1>. HIDE DEF x, y, z
<1>3. p \in Packet(e, k) <=> e + x <= p /\ p < e + x + PerPacket
  BY <1>1, <1>2, TurnPos
<1>. QED BY <1>3 DEF x

(* Every later point is in a packet.                                        *)
LEMMA PacketNumber ==
  ASSUME NEW e \in Nat, NEW p \in Nat, e <= p
  PROVE  \E k \in Nat \ {0} : p \in Packet(e, k)
<1>. DEFINE x == p - e
            j == x \div PerPacket
            r == x % PerPacket
<1>0. x \in Nat /\ p = e + x
  OBVIOUS
<1>1. j \in Nat /\ r \in 0..(PerPacket - 1) /\ x = PerPacket * j + r
  <2>. HIDE DEF x
  <2>. QED BY <1>0, TurnPos
<1>2. PerPacket * j \in Nat
  BY <1>1, TurnPos
<1>. HIDE DEF x, j, r
<1>3. e + PerPacket * j <= p /\ p < e + PerPacket * j + PerPacket
  BY <1>0, <1>1, <1>2, TurnPos
<1>4. j + 1 \in Nat \ {0} /\ (j + 1) - 1 = j
  BY <1>1
<1>5. p \in Packet(e, j + 1)
  BY <1>3, <1>4, PacketIs
<1>. QED BY <1>4, <1>5

(* Later packets have later points.                                         *)
LEMMA PacketOrder ==
  ASSUME NEW e \in Nat, NEW j \in Nat \ {0}, NEW k \in Nat \ {0}, j < k,
         NEW p \in Packet(e, j), NEW q \in Packet(e, k), p \in Nat, q \in Nat
  PROVE  p < q
<1>1. (j - 1) \in Nat /\ (k - 1) \in Nat /\ j - 1 < k - 1
  OBVIOUS
<1>2. PerPacket * (j - 1) + PerPacket <= PerPacket * (k - 1)
  BY <1>1, NextTurn, TurnPos
<1>3. PerPacket * (j - 1) \in Nat /\ PerPacket * (k - 1) \in Nat
  BY <1>1, TurnPos
<1>4. p < e + PerPacket * (j - 1) + PerPacket /\ e + PerPacket * (k - 1) <= q
  BY PacketIs
<1>. QED BY <1>2, <1>3, <1>4, TurnPos

(* The points of a read are those the scanner sent in it.                   *)
LEMMA ParsedRange ==
  ASSUME NEW e \in Nat, NEW n \in Nat, NEW b \in SUBSET (1..n)
  PROVE  Parsed(e, n, b) \subseteq e..(e + PerPacket * n - 1)
<1>. SUFFICES ASSUME NEW k \in b, NEW p \in Packet(e, k)
              PROVE  p \in e..(e + PerPacket * n - 1)
  BY DEF Parsed
<1>1. k \in Nat \ {0} /\ k - 1 \in Nat /\ k - 1 < n
  OBVIOUS
<1>2. PerPacket * (k - 1) \in Nat /\ PerPacket * n \in Nat
  BY <1>1, TurnPos
<1>3. PerPacket * (k - 1) + PerPacket <= PerPacket * n
  BY <1>1, NextTurn, TurnPos
<1>4. p \in Int
  BY DEF Packet
<1>5. p \in Nat
  <2>. DEFINE y == (k - 1) * PerPacket
  <2>1. y \in Nat
    BY <1>1, TurnPos
  <2>2. e + y <= p
    BY DEF Packet
  <2>. HIDE DEF y
  <2>. QED BY <1>4, <2>1, <2>2
<1>6. e + PerPacket * (k - 1) <= p /\ p < e + PerPacket * (k - 1) + PerPacket
  BY <1>1, <1>5, PacketIs
<1>. QED BY <1>2, <1>3, <1>5, <1>6, TurnPos

\* The end of what may be missing: after a packet that arrived, one more.
Due(end, gap) == IF gap THEN end ELSE end + PerPacket

(* Packets no two of which in a row are lost, behind points of such, are    *)
(* such.                                                                    *)
LEMMA NoTwoLostAdd ==
  ASSUME NEW v \in SUBSET Nat, NEW e \in Nat, \A p \in v : p < e,
         NEW gap \in BOOLEAN, NoTwoLost(v, Due(e, gap)),
         NEW n \in Nat, NEW b \in SUBSET (1..n), NEW gap2 \in BOOLEAN,
         \A k \in 1..(n + 1) :
           k \notin b /\ (v # {} \/ \E m \in b : m < k) /\ (k <= n \/ ~gap2)
             => IF k = 1 THEN ~gap ELSE k - 1 \in b
  PROVE  NoTwoLost(v \cup Parsed(e, n, b), Due(e + PerPacket * n, gap2))
<1>. DEFINE add == Parsed(e, n, b)
            w   == PerPacket * n
<1>1. w \in Nat
  BY TurnPos
<1>2. \A q \in add : q \in Nat /\ e <= q /\ q < e + w
  <2>1. add \subseteq e..(e + w - 1)
    BY ParsedRange
  <2>. HIDE DEF add, w
  <2>. QED BY <2>1, <1>1
<1>3. ASSUME NEW k \in b, NEW p \in Packet(e, k) PROVE p \in add
  BY <1>3 DEF Parsed
<1>4. ASSUME NEW q \in add PROVE \E k \in b : q \in Packet(e, k)
  BY <1>4 DEF Parsed
<1>. SUFFICES ASSUME NEW p \in 0..(Due(e + w, gap2) - 1), p \notin v \cup add,
                     NEW q \in v \cup add, q + PerPacket <= p
              PROVE  p - PerPacket \in v \cup add
  BY DEF NoTwoLost
<1>5. q \in Nat /\ p \in Nat /\ p < e + w + PerPacket /\ (gap2 => p < e + w)
  BY <1>1, <1>2, TurnPos DEF Due
<1>6. CASE p < e
  <2>1. q \in v
    BY <1>2, <1>5, <1>6, TurnPos
  <2>2. p \in 0..(Due(e, gap) - 1)
    BY <1>5, <1>6, TurnPos DEF Due
  <2>. QED BY <2>1, <2>2 DEF NoTwoLost
<1>7. CASE e <= p
  <2>1. PICK k \in Nat \ {0} : p \in Packet(e, k)
    BY <1>5, <1>7, PacketNumber
  <2>2. e + PerPacket * (k - 1) <= p /\ p < e + PerPacket * (k - 1) + PerPacket
    BY <2>1, <1>5, PacketIs
  <2>3. k \notin b
    BY <2>1, <1>3
  <2>4. PerPacket * (k - 1) \in Nat
    BY TurnPos
  <2>5. k \in 1..(n + 1)
    <3>. SUFFICES ASSUME n + 1 < k PROVE FALSE
      OBVIOUS
    <3>1. k - 1 \in Nat /\ n < k - 1
      OBVIOUS
    <3>2. w + PerPacket <= PerPacket * (k - 1)
      BY <3>1, NextTurn, TurnPos
    <3>. HIDE DEF w
    <3>. QED BY <3>2, <2>2, <2>4, <1>1, <1>5, TurnPos
  <2>6. k <= n \/ ~gap2
    <3>. SUFFICES ASSUME k = n + 1, gap2 PROVE FALSE
      BY <2>5
    <3>1. k - 1 = n
      OBVIOUS
    <3>2. e + w <= p
      BY <3>1, <2>2
    <3>. HIDE DEF w
    <3>. QED BY <3>2, <1>1, <1>5
  <2>7. v # {} \/ \E m \in b : m < k
    <3>. SUFFICES ASSUME q \in add PROVE \E m \in b : m < k
      OBVIOUS
    <3>1. PICK m \in b : q \in Packet(e, m)
      BY <1>4
    <3>2. m \in Nat \ {0}
      OBVIOUS
    <3>3. ASSUME k <= m PROVE FALSE
      <4>1. CASE k < m
        <5>1. p < q
          BY <4>1, <3>1, <3>2, <2>1, <1>5, PacketOrder
        <5>. QED BY <5>1, <1>5, TurnPos
      <4>2. CASE k = m
        BY <4>2, <3>1, <2>3
      <4>. QED BY <4>1, <4>2, <3>2, <3>3
    <3>. QED BY <3>2, <3>3
  <2>8. IF k = 1 THEN ~gap ELSE k - 1 \in b
    BY <2>3, <2>5, <2>6, <2>7
  <2>9. CASE k = 1
    <3>1. ~gap /\ p < e + PerPacket
      BY <2>2, <2>8, <2>9, TurnPos
    <3>2. p \in 0..(Due(e, gap) - 1) /\ p \notin v
      BY <3>1, <1>5, TurnPos DEF Due
    <3>3. q \in v
      BY <3>1, <1>2, <1>5, TurnPos
    <3>. QED BY <3>2, <3>3 DEF NoTwoLost
  <2>10. CASE k # 1
    <3>1. k - 1 \in b /\ k - 1 \in Nat \ {0}
      BY <2>8, <2>10
    <3>2. PerPacket * (k - 1) = PerPacket * ((k - 1) - 1) + PerPacket /\ PerPacket * ((k - 1) - 1) \in Nat
      BY <3>1, TurnPos
    <3>3. p - PerPacket \in Nat
      BY <1>5, TurnPos
    <3>4. /\ e + PerPacket * ((k - 1) - 1) <= p - PerPacket
          /\ p - PerPacket < e + PerPacket * ((k - 1) - 1) + PerPacket
      BY <2>2, <2>4, <3>2, <1>5, TurnPos
    <3>5. p - PerPacket \in Packet(e, k - 1)
      BY <3>1, <3>3, <3>4, PacketIs
    <3>. QED BY <3>1, <3>5, <1>3
  <2>. QED BY <2>9, <2>10
<1>. QED BY <1>5, <1>6, <1>7

\* The points of the turns, of which no two packets in a row are lost.
StreamInv ==
  /\ ~stamped => heard = {}
  /\ Sorted(vec, heard, scan, PerPacket * sent)
  /\ NoTwoLost(vec, Due(PerPacket * sent, lost))

\* The invariant of the frames.
FrameInv == TypeOK /\ made <= sent /\ StreamInv

(* The bounds are numbers, and the scanner has packets left to send.        *)
LEMMA BoundPos == LastPacket \in Nat /\ MaxRead \in Nat /\ FirstPacket \in Nat /\ FirstPacket <= LastPacket
BY BoundAssumption

(* What was sent are points of the run.                                     *)
LEMMA SentPoints ==
  ASSUME NEW n \in Nat, n <= LastPacket
  PROVE  PerPacket * n \in Nat /\ 0..(PerPacket * n - 1) \subseteq Points
<1>. DEFINE x == PerPacket * n
            y == LastPacket * PerPacket
<1>1. x \in Nat /\ y \in Nat
  BY TurnPos, BoundPos
<1>2. x <= y
  <2>1. CASE n < LastPacket
    <3>1. PerPacket * n + PerPacket <= PerPacket * LastPacket
      BY <2>1, NextTurn, TurnPos, BoundPos
    <3>. QED BY <3>1, TurnPos, BoundPos
  <2>2. CASE n = LastPacket
    BY <2>2, TurnPos, BoundPos
  <2>. QED BY <2>1, <2>2, BoundPos
<1>3. Points = 0..(y - 1)
  BY DEF Points
<1>. HIDE DEF x, y
<1>4. x \in Nat /\ 0..(x - 1) \subseteq Points
  BY <1>1, <1>2, <1>3
<1>. QED BY <1>4 DEF x

(* Nothing was heard at the start.                                          *)
LEMMA InitFrame == Init => FrameInv
<1>. SUFFICES ASSUME Init PROVE FrameInv
  OBVIOUS
<1>1. TypeOK
  <2>1. {handle, exitFlag, shutdown, powerOn, spinning, stamped, ready, lost} \subseteq BOOLEAN
    BY DEF Init
  <2>2. sent \in 0..LastPacket /\ made \in 0..LastPacket /\ got \in 0..made
    BY BoundPos DEF Init
  <2>3. vec \subseteq Points /\ scan \subseteq Points /\ heard \subseteq Points
    BY DEF Init
  <2>. QED BY <2>1, <2>2, <2>3 DEF Init, TypeOK
<1>2. StreamInv
  BY DEF Init, StreamInv, Sorted, NoTwoLost
<1>3. made <= sent
  BY BoundPos DEF Init
<1>. QED BY <1>1, <1>2, <1>3 DEF FrameInv

\* A cut at the first point of a turn loses nothing the cut still needs.
LEMMA NoTwoLostCut ==
  ASSUME NEW v \in SUBSET Nat, NEW end \in Nat, NoTwoLost(v, end), NEW s \in v
  PROVE  NoTwoLost(v \ Before(v, s), end)
<1>. DEFINE r == v \ Before(v, s)
<1>1. \A q \in v : q \in r <=> s <= q
  BY DEF Before
<1>. SUFFICES ASSUME NEW p \in 0..(end - 1), p \notin r, NEW q \in r, q + PerPacket <= p
              PROVE  p - PerPacket \in r
  BY DEF NoTwoLost
<1>2. q \in v /\ q \in Nat /\ s <= q /\ s <= p /\ p \in Nat /\ s \in Nat /\ s <= p - PerPacket
  BY <1>1, TurnPos
<1>3. p \notin v
  BY <1>1, <1>2
<1>4. p - PerPacket \in v
  BY <1>2, <1>3 DEF NoTwoLost
<1>. QED BY <1>1, <1>2, <1>4

\* The points one read adds (RxRead).
Added(n, arrived) ==
  IF arrived # {} /\ ~stamped
    THEN Parsed(PerPacket * sent, n, arrived) \ Packet(PerPacket * sent, Min(arrived))
    ELSE Parsed(PerPacket * sent, n, arrived)

\* They are those of packets no two of which in a row are missing.
LEMMA ReadAdds ==
  ASSUME FrameInv, NEW n \in 1..MaxRead, NEW arrived \in Arrivals(n)
  PROVE  /\ Added(n, arrived) \subseteq (PerPacket * sent)..(PerPacket * (sent + n) - 1)
         /\ NoTwoLost(vec \cup Added(n, arrived), Due(PerPacket * (sent + n), n \notin arrived))
         /\ arrived = {} => Added(n, arrived) = {}
<1>. DEFINE e      == PerPacket * sent
            points == Parsed(e, n, arrived)
            stamps == arrived # {} /\ ~stamped
            added  == Added(n, arrived)
            b      == IF stamps THEN arrived \ {Min(arrived)} ELSE arrived
            end    == PerPacket * (sent + n)
            due    == e + PerPacket * n
<1>0. added = IF stamps THEN points \ Packet(e, Min(arrived)) ELSE points
  BY DEF Added
<1>1. /\ n \in Nat /\ n > 0 /\ sent \in Nat /\ arrived \in SUBSET (1..n) /\ lost \in BOOLEAN
      /\ \A k \in 1..n : k \in arrived \/ (IF k = 1 THEN ~lost ELSE k - 1 \in arrived)
  BY BoundPos DEF FrameInv, TypeOK, Arrivals
<1>2. e \in Nat /\ PerPacket * (sent + n) = e + PerPacket * n
  BY <1>1, TurnPos
<1>3. /\ Sorted(vec, heard, scan, e) /\ NoTwoLost(vec, Due(e, lost))
      /\ ~stamped => vec = {}
  BY DEF FrameInv, StreamInv, Sorted
<1>4. arrived # {} => Min(arrived) \in arrived /\ \A k \in arrived : Min(arrived) <= k
  <2>1. arrived \in SUBSET Nat
    BY <1>1
  <2>. QED BY <2>1, MinOf
<1>5. vec \in SUBSET Nat /\ \A p \in vec : p < e
  <2>1. vec \subseteq 0..(e - 1)
    BY <1>3 DEF Sorted
  <2>. HIDE DEF e
  <2>. QED BY <1>2, <2>1
<1>. HIDE DEF e, added
<1>6. added = Parsed(e, n, b)
  <2>1. ASSUME stamps, NEW k \in arrived, k # Min(arrived), NEW p \in Packet(e, k)
        PROVE  p \notin Packet(e, Min(arrived))
    <3>0. Min(arrived) \in arrived /\ Min(arrived) <= k
      BY <2>1, <1>4
    <3>1. Min(arrived) \in Nat \ {0} /\ k \in Nat \ {0} /\ Min(arrived) < k
      <4>1. \A x \in arrived : x \in Nat \ {0}
        BY <1>1
      <4>. QED BY <3>0, <4>1, <2>1
    <3>2. p \in Nat
      <4>1. p \in points
        BY <2>1 DEF Parsed
      <4>2. points \subseteq e..(e + PerPacket * n - 1)
        BY <1>1, <1>2, ParsedRange
      <4>. QED BY <4>1, <4>2, <1>2
    <3>. QED BY <3>1, <3>2, <1>2, <2>1, PacketOrder
  <2>2. CASE stamps
    BY <1>0, <2>1, <2>2 DEF Parsed
  <2>. QED BY <1>0, <2>2
<1>7. b \in SUBSET (1..n)
  BY <1>1
<1>8. added \subseteq e..(due - 1)
  <2>1. due - 1 = e + (PerPacket * n - 1)
    BY <1>1, <1>2, TurnPos
  <2>2. Parsed(e, n, b) \subseteq e..(e + PerPacket * n - 1)
    BY <1>1, <1>2, <1>7, ParsedRange
  <2>. HIDE DEF due, b
  <2>. QED BY <2>1, <2>2, <1>6
<1>9. ASSUME NEW k \in 1..(n + 1), k \notin b, vec # {} \/ \E m \in b : m < k,
             k <= n \/ n \in arrived
      PROVE  IF k = 1 THEN ~lost ELSE k - 1 \in b
  <2>1. k \notin arrived
    <3>. SUFFICES ASSUME stamps, k = Min(arrived) PROVE FALSE
      BY <1>9
    <3>1. PICK m \in arrived : m < k
      BY <1>3, <1>9
    <3>. QED BY <3>1, <1>1, <1>4
  <2>2. IF k = 1 THEN ~lost ELSE k - 1 \in arrived
    <3>1. CASE k <= n
      BY <3>1, <1>1, <2>1
    <3>2. CASE k > n
      BY <3>2, <1>1, <1>9
    <3>. QED BY <3>1, <3>2, <1>1
  <2>3. ASSUME k # 1, stamps, k - 1 = Min(arrived) PROVE FALSE
    <3>1. PICK m \in b : m < k
      BY <2>3, <1>3, <1>9
    <3>2. m \in arrived /\ m # Min(arrived)
      BY <2>3
    <3>. QED BY <3>1, <3>2, <2>3, <1>1, <1>4
  <2>. QED BY <2>2, <2>3
<1>10. NoTwoLost(vec \cup added, Due(due, n \notin arrived))
  <2>. HIDE DEF b, added
  <2>1. (n \notin arrived) \in BOOLEAN
    OBVIOUS
  <2>2. \A k \in 1..(n + 1) :
          k \notin b /\ (vec # {} \/ \E m \in b : m < k) /\ (k <= n \/ ~(n \notin arrived))
            => IF k = 1 THEN ~lost ELSE k - 1 \in b
    BY <1>9
  <2>3. NoTwoLost(vec \cup Parsed(e, n, b), Due(due, n \notin arrived))
    BY <1>1, <1>2, <1>3, <1>5, <1>7, <2>1, <2>2, NoTwoLostAdd
  <2>. QED BY <2>3, <1>6
<1>11. arrived = {} => added = {}
  BY <1>0 DEF Parsed
<1>12. end = due
  BY <1>2
<1>. HIDE DEF added, b, end, due
<1>13. added \subseteq e..(end - 1) /\ NoTwoLost(vec \cup added, Due(end, n \notin arrived))
  BY <1>8, <1>10, <1>12
<1>. QED BY <1>11, <1>13 DEF added, e, end

\* AssemblePacket keeps the points sorted, whatever it does with them.
LEMMA SortedAssemble ==
  ASSUME NEW v, NEW h, NEW f, NEW end \in Nat, Sorted(v, h, f, end),
         NEW due \in Nat, end <= due, NoTwoLost(v, due), NEW vanish \in BOOLEAN,
         NEW result, result = Assembled(v, vanish),
         NEW f2, f2 = IF result.frame = {} THEN f ELSE result.frame,
         NEW h2, h2 = {p \in h : \A q \in f2 : TurnOf(p) >= TurnOf(q)}
  PROVE  Sorted(result.rest, h2, f2, end) /\ NoTwoLost(result.rest, due)
<1>1. v \in SUBSET Nat /\ \A p \in v : p < due
  BY DEF Sorted
<1>2. \/ result.frame = {} /\ result.rest = v
      \/ \E s \in v :
           /\ result.rest = v \ Before(v, s)
           /\ \A q \in Before(v, s) : TurnOf(q) < TurnOf(s)
           /\ \/ result.frame = {}
              \/ /\ result.frame = Before(v, s)
                 /\ \A p, q \in Before(v, s) : TurnOf(p) = TurnOf(q)
  BY <1>1, CutAtTurns
<1>3. CASE result.frame = {} /\ result.rest = v
  <2>1. f2 = f
    BY <1>3
  <2>. QED BY <1>3, <2>1, SortedForget
<1>4. ASSUME NEW s \in v, result.rest = v \ Before(v, s),
             \A q \in Before(v, s) : TurnOf(q) < TurnOf(s),
             result.frame = {} \/ /\ result.frame = Before(v, s)
                                  /\ \A p, q \in Before(v, s) : TurnOf(p) = TurnOf(q)
      PROVE  Sorted(result.rest, h2, f2, end) /\ NoTwoLost(result.rest, due)
  <2>1. NoTwoLost(result.rest, due)
    BY <1>1, <1>4, NoTwoLostCut
  <2>2. CASE result.frame = {}
    <3>1. f2 = f
      BY <2>2
    <3>2. Sorted(v \ Before(v, s), h, f, end)
      BY <1>4, SortedCut
    <3>3. Sorted(v \ Before(v, s), {p \in h : \A q \in f : TurnOf(p) >= TurnOf(q)}, f, end)
      BY <3>2, SortedForget
    <3>. QED BY <1>4, <2>1, <3>1, <3>3
  <2>3. CASE result.frame # {}
    <3>1. f2 = Before(v, s) /\ Before(v, s) # {}
      BY <1>4, <2>3
    <3>2. \A p, q \in Before(v, s) : TurnOf(p) = TurnOf(q)
      BY <1>4, <2>3
    <3>3. Sorted(v \ Before(v, s), {p \in h : \A q \in Before(v, s) : TurnOf(p) >= TurnOf(q)},
                 Before(v, s), end)
      BY <1>4, <3>1, <3>2, SortedEmit
    <3>. QED BY <1>4, <2>1, <3>1, <3>3
  <2>. QED BY <2>2, <2>3
<1>. QED BY <1>2, <1>3, <1>4

(* Sorted points are points of the run.                                     *)
LEMMA SortedPoints ==
  ASSUME NEW v, NEW h, NEW f, NEW n \in Nat, n <= LastPacket, Sorted(v, h, f, PerPacket * n)
  PROVE  v \subseteq Points /\ h \subseteq Points /\ f \subseteq Points
<1>. DEFINE all == 0..(PerPacket * n - 1)
<1>1. all \subseteq Points
  BY SentPoints
<1>2. v \subseteq h /\ f \subseteq h /\ h \subseteq all
  BY DEF Sorted
<1>. HIDE DEF all
<1>. QED BY <1>1, <1>2

(* A read keeps the frames turns.                                           *)
LEMMA ReadFrame ==
  ASSUME FrameInv, NEW n \in 1..MaxRead, NEW spins \in BOOLEAN, NEW vanish \in BOOLEAN,
         NEW arrived \in Arrivals(n), RxRead(n, arrived, spins, vanish)
  PROVE  FrameInv'
<1>. DEFINE added   == Added(n, arrived)
            stamps  == arrived # {} /\ ~stamped
            turning == IF arrived = {} THEN spinning ELSE spins
            result  == IF turning THEN Assembled(vec \cup added, vanish) ELSE [frame |-> {}, rest |-> {}]
            end     == PerPacket * (sent + n)
            e       == PerPacket * sent
            due     == Due(end, n \notin arrived)
<1>1. /\ sent + n <= LastPacket /\ sent' = sent + n /\ lost' = (n \notin arrived)
      /\ powerOn' = (powerOn \/ arrived # {})
      /\ spinning' = turning /\ stamped' = (stamped \/ stamps)
      /\ vec' = result.rest
      /\ IF result.frame = {}
           THEN RxGoes("read", "test") /\ UNCHANGED <<scan, made>>
           ELSE RxGoes("read", "flag") /\ scan' = result.frame /\ made' = made + 1
      /\ heard' = IF turning THEN Newest(heard \cup added) ELSE heard \cap scan'
      /\ UNCHANGED <<ready, got>>
  BY DEF RxRead, Added
<1>2. /\ n \in Nat /\ n > 0 /\ sent \in Nat /\ sent + n \in Nat /\ e \in Nat /\ end \in Nat /\ e <= end
      /\ due \in Nat /\ end <= due
  <2>1. n \in Nat /\ n > 0 /\ sent \in Nat /\ sent + n \in Nat
    BY BoundPos DEF FrameInv, TypeOK
  <2>2. end = e + PerPacket * n /\ PerPacket * n \in Nat /\ e \in Nat /\ end \in Nat
    BY <2>1, TurnPos
  <2>. HIDE DEF end, e
  <2>. QED BY <2>1, <2>2, TurnPos DEF Due
<1>3. added \in SUBSET (e..(end - 1)) /\ NoTwoLost(vec \cup added, due) /\ (arrived = {} => added = {})
  BY ReadAdds
<1>4. Sorted(vec, heard, scan, e) /\ (~stamped => heard = {})
  BY DEF FrameInv, StreamInv
<1>. HIDE DEF added, end, e, due
<1>5. Sorted(vec \cup added, heard \cup added, scan, end)
  BY <1>2, <1>3, <1>4, SortedAdd
<1>6. scan' = IF result.frame = {} THEN scan ELSE result.frame
  BY <1>1
<1>7. Sorted(vec', heard', scan', end) /\ NoTwoLost(vec', due)
  <2>1. CASE turning
    <3>1. result = Assembled(vec \cup added, vanish)
      BY <2>1
    <3>2. heard' = {p \in heard \cup added : \A q \in scan' : TurnOf(p) >= TurnOf(q)}
      BY <1>1, <2>1 DEF Newest
    <3>. HIDE DEF result, turning
    <3>. DEFINE v == vec \cup added
                h == heard \cup added
    <3>3. Sorted(v, h, scan, end) /\ NoTwoLost(v, due)
      BY <1>3, <1>5
    <3>. HIDE DEF v, h
    <3>4. Sorted(result.rest, heard', scan', end) /\ NoTwoLost(result.rest, due)
      BY <1>2, <1>6, <3>1, <3>2, <3>3, SortedAssemble DEF v, h
    <3>. QED BY <1>1, <3>4
  <2>2. CASE ~turning
    <3>1. result = [frame |-> {}, rest |-> {}]
      BY <2>2
    <3>2. result.frame = {} /\ result.rest = {}
      BY <3>1
    <3>3. heard' = heard \cap scan /\ scan' = scan /\ vec' = {}
      BY <1>1, <1>6, <2>2, <3>2
    <3>4. heard \cap scan = (heard \cup added) \cap scan
      BY <1>4 DEF Sorted
    <3>5. Sorted({}, (heard \cup added) \cap scan, scan, end)
      BY <1>2, <1>5, SortedStop
    <3>. QED BY <3>3, <3>4, <3>5 DEF NoTwoLost
  <2>. QED BY <2>1, <2>2
<1>8. ~stamped' => heard' = {}
  <2>. SUFFICES ASSUME ~stamped' PROVE heard' = {}
    OBVIOUS
  <2>1. ~stamped /\ arrived = {}
    BY <1>1
  <2>2. heard \cup added = {}
    BY <2>1, <1>3, <1>4
  <2>. HIDE DEF turning, result
  <2>3. heard' \subseteq heard \cup added
    BY <1>1 DEF Newest
  <2>. QED BY <2>2, <2>3
<1>9. made' \in Nat /\ made' <= sent' /\ made <= made' /\ got' = got
  <2>1. made \in Nat /\ made <= sent
    BY BoundPos DEF FrameInv, TypeOK
  <2>2. (made' = made \/ made' = made + 1) /\ got' = got
    BY <1>1
  <2>. QED BY <1>1, <1>2, <2>1, <2>2
<1>10. StreamInv'
  <2>1. PerPacket * sent' = end /\ Due(PerPacket * sent', lost') = due
    BY <1>1 DEF end, due
  <2>. QED BY <1>7, <1>8, <2>1 DEF StreamInv
<1>11. TypeOK'
  <2>1. {handle, exitFlag, shutdown, powerOn, spinning, stamped, ready, lost} \subseteq BOOLEAN
    BY DEF FrameInv, TypeOK
  <2>2. handle' = handle /\ exitFlag' = exitFlag /\ shutdown' = shutdown /\ main' = main
        /\ ready' = ready /\ rx' \in {"test", "flag"}
    <3>. HIDE DEF result, turning
    <3>. QED BY <1>1 DEF RxGoes
  <2>3. {spinning, spins} \subseteq BOOLEAN
    BY <2>1
  <2>4. turning \in BOOLEAN
    BY <2>3
  <2>5. {handle', exitFlag', shutdown', powerOn', spinning', stamped', ready', lost'} \subseteq BOOLEAN
    <3>. HIDE DEF result, turning
    <3>. QED BY <1>1, <2>1, <2>2, <2>4
  <2>6. vec' \subseteq Points /\ heard' \subseteq Points /\ scan' \subseteq Points
    <3>1. Sorted(vec', heard', scan', PerPacket * (sent + n))
      BY <1>7 DEF end
    <3>. QED BY <1>1, <1>2, <3>1, SortedPoints
  <2>7. sent' \in 0..LastPacket /\ made' \in 0..LastPacket /\ got' \in 0..made'
    <3>1. got \in 0..made /\ made \in Nat
      BY DEF FrameInv, TypeOK
    <3>. HIDE DEF result, turning
    <3>. QED BY <1>1, <1>2, <1>9, <3>1, BoundPos
  <2>8. main \in {"connect", "comm", "poll", "reset", "copy", "publish", "stop", "close",
                  "join", "destroy", "ended", "failed", "aborted"}
    BY DEF FrameInv, TypeOK
  <2>. HIDE DEF result, turning
  <2>. QED BY <2>2, <2>5, <2>6, <2>7, <2>8 DEF TypeOK
<1>. QED BY <1>9, <1>10, <1>11 DEF FrameInv

\* What the other steps leave alone, and what they may change.
LEMMA OtherSteps ==
  ASSUME FrameInv, UNCHANGED <<stamped, vec, sent, lost, heard, scan, made>>,
         main' \in {"connect", "comm", "poll", "reset", "copy", "publish", "stop", "close",
                    "join", "destroy", "ended", "failed", "aborted"},
         rx' \in {"none", "test", "read", "flag", "done"},
         {handle', exitFlag', shutdown', powerOn', spinning', ready'} \subseteq BOOLEAN,
         got' = got \/ got' = made
  PROVE  FrameInv'
<1>1. got' \in 0..made'
  BY DEF FrameInv, TypeOK
<1>. QED BY <1>1 DEF FrameInv, TypeOK, StreamInv

(* So do the receive thread's other steps.                                  *)
LEMMA RxFrame == FrameInv /\ RxThread => FrameInv'
<1>. SUFFICES ASSUME FrameInv, RxThread PROVE FrameInv'
  OBVIOUS
<1>1. ASSUME RxTest \/ RxNothing \/ RxAborts \/ RxFlag PROVE FrameInv'
  <2>. USE DEF FrameInv, TypeOK, RxGoes, stream, inbox
  <2>1. CASE RxTest
    BY <2>1, OtherSteps DEF RxTest
  <2>2. CASE RxNothing
    BY <2>2, OtherSteps DEF RxNothing
  <2>3. CASE RxAborts
    BY <2>3, OtherSteps DEF RxAborts
  <2>4. CASE RxFlag
    BY <2>4, OtherSteps DEF RxFlag
  <2>. QED BY <1>1, <2>1, <2>2, <2>3, <2>4
<1>. QED BY <1>1, ReadFrame DEF RxThread

(* So do main's.                                                            *)
LEMMA MainFrame == FrameInv /\ MainThread => FrameInv'
<1>. SUFFICES ASSUME FrameInv, MainThread PROVE FrameInv'
  OBVIOUS
<1>. USE DEF FrameInv, TypeOK, MainGoes, stream, inbox
<1>1. CASE Connect
  BY <1>1, OtherSteps DEF Connect
<1>2. CASE WaitLidarComm
  BY <1>2, OtherSteps DEF WaitLidarComm
<1>3. CASE Poll
  BY <1>3, OtherSteps DEF Poll
<1>4. CASE Take
  BY <1>4, OtherSteps DEF Take
<1>5. CASE Publish
  BY <1>5, OtherSteps DEF Publish
<1>6. CASE SetExitFlag
  BY <1>6, OtherSteps DEF SetExitFlag
<1>7. CASE CloseHandle
  BY <1>7, OtherSteps DEF CloseHandle
<1>8. CASE Join
  BY <1>8, OtherSteps DEF Join
<1>9. CASE Destroy
  BY <1>9, OtherSteps DEF Destroy
<1>. QED BY <1>1, <1>2, <1>3, <1>4, <1>5, <1>6, <1>7, <1>8, <1>9 DEF MainThread

(* So does every step.                                                      *)
LEMMA NextFrame == FrameInv /\ [Next]_vars => FrameInv'
<1>. SUFFICES ASSUME FrameInv, [Next]_vars PROVE FrameInv'
  OBVIOUS
<1>1. CASE RxThread
  BY <1>1, RxFrame
<1>2. CASE MainThread
  BY <1>2, MainFrame
<1>3. CASE Interrupt
  BY <1>3, OtherSteps DEF Interrupt, FrameInv, TypeOK, stream, inbox
<1>4. CASE UNCHANGED vars
  BY <1>4, OtherSteps DEF vars, threads, stream, inbox, FrameInv, TypeOK
<1>. QED BY <1>1, <1>2, <1>3, <1>4 DEF Next

(* The node's variables keep their types: no frame has a point the scanner  *)
(* did not send, and main never has a frame that was not made.              *)
THEOREM Typing == Spec => []TypeOK
<1>1. FrameInv => TypeOK
  BY DEF FrameInv
<1>. QED BY <1>1, InitFrame, NextFrame, PTL DEF Spec

(* A frame is one turn, all of it that arrived, whatever packets are lost   *)
(* one at a time and whatever the reads return (AssemblePacket), for every  *)
(* turn, packet and window that the two assumptions on its thresholds       *)
(* allow.                                                                   *)
THEOREM FramesAreTurns == Spec => []FrameIsOneTurn
<1>1. FrameInv => FrameIsOneTurn
  BY DEF FrameInv, StreamInv, Sorted, FrameIsOneTurn
<1>. QED BY <1>1, InitFrame, NextFrame, PTL DEF Spec
=============================================================================
