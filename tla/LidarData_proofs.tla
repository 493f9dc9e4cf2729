-------------------------- MODULE LidarData_proofs --------------------------
(***************************************************************************)
(* Proofs about the two ends of the way from the scanner's bytes to the    *)
(* published scan: the byte parser (LidarProtocol), for packets of any     *)
(* lengths, and the laser scan (LaserScan), for any number of steps to a   *)
(* turn and any turns of points.                                           *)
(***************************************************************************)
EXTENDS LidarProtocol, LaserScan, TLAPS, FiniteSetTheorems, WellFoundedInduction

(* What tmp holds in each state of the parser. *)
Counted ==
  /\ state = "HEADER" => count = 0
  /\ state = "VER_LEN" => count = 1
  /\ state \in Kinds => 2 <= count /\ count < Length[state]

(* The parser and the scanner are at the same byte of a whole packet. *)
Aligned ==
  whole => /\ pos > 0 /\ count = pos
           /\ IF pos = 1 THEN state = "VER_LEN" ELSE state = kind

(* Behind a whole packet the parser looks for a header and still holds the *)
(* health report it owes.                                                  *)
Behind ==
  before # "none" =>
    /\ pos = 0 => state = "HEADER"
    /\ before = "health" /\ pos = 0 => healthinf
    /\ before = "health" /\ pos = 1 => whole /\ healthinf

(* A false packet was begun before the clean bytes, and what is left of it  *)
(* is no more than a packet less those bytes.                               *)
Blind ==
  ~whole => /\ state = "VER_LEN" => clean = 0
            /\ state \in Kinds => Length[state] - count + clean <= DataLen - 1

IInv ==
  /\ TypeOK /\ pos < Length[kind]
  /\ Counted /\ Aligned /\ Behind /\ Blind /\ IntactIsReported

(* Every packet has a header, a type and at least one byte of payload, and  *)
(* none is longer than a data packet.                                       *)
LEMMA LengthBounds ==
  /\ DataLen \in Nat /\ 3 <= DataLen
  /\ \A k \in Kinds : Length[k] \in Nat /\ 3 <= Length[k] /\ Length[k] <= DataLen
BY LengthAssumption, BodyAssumption DEF Kinds, Length

LEMMA InitInvariant == Init => IInv
<1> SUFFICES ASSUME Init PROVE IInv
  OBVIOUS
<1>1. TypeOK
  <2>1. healthinf \in BOOLEAN /\ whole \in BOOLEAN
    BY DEF Init
  <2>2. QED BY <2>1, LengthBounds DEF Init, TypeOK
<1>2. pos < Length[kind]
  BY LengthBounds DEF Init
<1>3. Counted /\ Aligned /\ Behind /\ Blind /\ IntactIsReported
  BY DEF Init, Counted, Aligned, Behind, Blind, IntactIsReported, Kinds
<1>4. QED BY <1>1, <1>2, <1>3 DEF IInv

(* The parser keeps its own bookkeeping whatever byte it is given. *)
LEMMA AnalyseCounts ==
  ASSUME IInv, NEW b \in Bytes, NEW crc \in BOOLEAN, Analyse(b, crc)
  PROVE  /\ Counted'
         /\ state' \in {"HEADER", "VER_LEN"} \cup Kinds
         /\ count' \in 0..(DataLen - 1) /\ healthinf' \in BOOLEAN
         /\ ret' \in {"error", "pcd", "health", "manuf"}
<1>1. healthinf' \in BOOLEAN
  <2>1. healthinf \in BOOLEAN
    BY DEF IInv, TypeOK
  <2>2. QED BY <2>1, Zenon DEF Analyse, Header, VerLen, Body, EndOfPacket
<1>2. /\ Counted' /\ state' \in {"HEADER", "VER_LEN"} \cup Kinds
      /\ count' \in 0..(DataLen - 1) /\ ret' \in {"error", "pcd", "health", "manuf"}
  <2>1. CASE Header(b)
    BY <2>1, LengthBounds DEF IInv, TypeOK, Counted, Header, Kinds
  <2>2. CASE VerLen(b)
    BY <2>2, LengthBounds DEF IInv, TypeOK, Counted, VerLen, Kinds
  <2>3. CASE Body
    BY <2>3, LengthBounds DEF IInv, TypeOK, Counted, Body, Kinds
  <2>4. CASE EndOfPacket(crc)
    BY <2>4, LengthBounds DEF IInv, TypeOK, Counted, EndOfPacket, Kinds
  <2>5. QED BY <2>1, <2>2, <2>3, <2>4 DEF Analyse
<1>3. QED BY <1>1, <1>2

(* The scanner stays within its packet. *)
LEMMA AdvanceBounds ==
  ASSUME IInv, Advance
  PROVE  kind' \in Kinds /\ pos' \in 0..(DataLen - 1) /\ pos' < Length[kind']
BY LengthBounds DEF IInv, TypeOK, Advance, Last, Kinds

(* A disturbance leaves nothing to align with, and at most a packet to wait. *)
LEMMA DisturbedInvariant ==
  ASSUME IInv, Disturbed, Counted',
         state' \in {"HEADER", "VER_LEN"} \cup Kinds,
         count' \in 0..(DataLen - 1), healthinf' \in BOOLEAN,
         ret' \in {"error", "pcd", "health", "manuf"},
         kind' \in Kinds, pos' \in 0..(DataLen - 1), pos' < Length[kind']
  PROVE  IInv'
<1>1. whole' = FALSE /\ whole' \in BOOLEAN /\ before' = "none" /\ due' = "none" /\ clean' = 0
  BY DEF Disturbed
<1>2. TypeOK'
  BY <1>1, LengthBounds DEF TypeOK
<1>3. Blind'
  BY <1>1, LengthBounds DEF Blind, Counted, Kinds
<1>4. Aligned' /\ Behind' /\ IntactIsReported'
  BY <1>1 DEF Aligned, Behind, IntactIsReported
<1>5. QED BY <1>2, <1>3, <1>4 DEF IInv

(* One byte that arrives as it was sent. *)
LEMMA DeliverInvariant ==
  ASSUME IInv, NEW b \in Bytes, NEW crc \in BOOLEAN, Deliver(b, crc)
  PROVE  IInv'
<1> DEFINE now == IF pos = 0 THEN state = "HEADER" ELSE whole
<1>1. /\ Analyse(b, crc) /\ Advance /\ b \in Following
      /\ now => crc
      /\ due' = Due(now) /\ whole' = (now /\ ~Last)
      /\ before' = IF ~Last THEN before ELSE IF now THEN kind ELSE "none"
      /\ clean' = IF pos > 0 /\ b = "head" THEN 0 ELSE Min2(clean + 1, DataLen - 1)
  BY DEF Deliver
<1>2. /\ Counted' /\ state' \in {"HEADER", "VER_LEN"} \cup Kinds
      /\ count' \in 0..(DataLen - 1) /\ healthinf' \in BOOLEAN
      /\ ret' \in {"error", "pcd", "health", "manuf"}
  BY <1>1, AnalyseCounts
<1>3. kind' \in Kinds /\ pos' \in 0..(DataLen - 1) /\ pos' < Length[kind']
  BY <1>1, AdvanceBounds
<1>4. clean' \in 0..(DataLen - 1) /\ clean' <= clean + 1
  BY <1>1, LengthBounds DEF IInv, TypeOK, Min2
<1>5. TypeOK'
  BY <1>1, <1>2, <1>3, <1>4 DEF IInv, TypeOK, Due, Kinds
<1>6. ASSUME now
      PROVE  /\ pos = 0 => b = "head" /\ state = "HEADER" /\ count = 0
             /\ pos = 1 => b = kind /\ state = "VER_LEN" /\ count = 1
             /\ pos > 1 => state = kind /\ count = pos
  BY <1>1, <1>6 DEF IInv, TypeOK, Counted, Aligned, Following
<1>7. ASSUME now
      PROVE  /\ ~Last => count' = pos + 1 /\ IF pos = 0 THEN state' = "VER_LEN" ELSE state' = kind
             /\ Last => state' = "HEADER" /\ pos > 1
  <2>1. CASE pos = 0
    BY <1>1, <1>6, <1>7, <2>1, LengthBounds
       DEF IInv, TypeOK, Analyse, Header, VerLen, Body, EndOfPacket, Last, Kinds
  <2>2. CASE pos = 1
    BY <1>1, <1>6, <1>7, <2>2, LengthBounds
       DEF IInv, TypeOK, Analyse, Header, VerLen, Body, EndOfPacket, Last, Kinds
  <2>3. CASE pos > 1
    BY <1>1, <1>6, <1>7, <2>3, LengthBounds
       DEF IInv, TypeOK, Analyse, Header, VerLen, Body, EndOfPacket, Last, Kinds
  <2>4. QED BY <2>1, <2>2, <2>3 DEF IInv, TypeOK
<1>8. Aligned'
  <2>1. CASE now /\ ~Last
    <3>1. pos' = pos + 1 /\ kind' = kind /\ count' = pos + 1 /\ pos \in Nat
      BY <1>1, <1>7, <2>1 DEF Advance, IInv, TypeOK
    <3>2. IF pos = 0 THEN state' = "VER_LEN" ELSE state' = kind
      BY <1>7, <2>1
    <3>3. QED BY <3>1, <3>2 DEF Aligned
  <2>2. CASE ~(now /\ ~Last)
    BY <1>1, <2>2 DEF Aligned
  <2>3. QED BY <2>1, <2>2
<1>9. Behind'
  <2>1. CASE Last
    <3>1. CASE now /\ kind = "health"
      BY <1>1, <1>6, <1>7, <2>1, <3>1, LengthBounds
         DEF IInv, TypeOK, Behind, Advance, Analyse, Header, VerLen, Body, EndOfPacket, Kinds
    <3>2. CASE ~(now /\ kind = "health")
      BY <1>1, <1>7, <2>1, <3>2 DEF IInv, TypeOK, Behind, Advance, Kinds
    <3>3. QED BY <3>1, <3>2
  <2>2. CASE ~Last /\ pos = 0
    BY <1>1, <2>2 DEF IInv, TypeOK, Behind, Advance, Analyse, Header, VerLen, Body,
                      EndOfPacket, Following, Kinds
  <2>3. CASE ~Last /\ pos > 0
    BY <1>1, <2>3 DEF IInv, TypeOK, Behind, Advance
  <2>4. QED BY <2>1, <2>2, <2>3 DEF IInv, TypeOK
<1>10. Blind'
  <2>1. CASE now
    BY <1>1, <1>7, <2>1, LengthBounds DEF IInv, TypeOK, Blind, Kinds
  <2>2. CASE ~now
    <3>1. CASE Header(b)
      BY <1>1, <2>2, <3>1 DEF IInv, TypeOK, Blind, Header, Kinds, Following
    <3>2. CASE VerLen(b)
      <4>1. ~whole \/ pos = 0
        BY <2>2
      <4>2. ~whole
        BY <4>1 DEF IInv, TypeOK, Aligned
      <4>3. clean = 0 /\ count = 1
        BY <3>2, <4>2 DEF IInv, Blind, Counted, VerLen
      <4>4. state' \in Kinds => count' = 2 /\ state' # "VER_LEN"
        BY <3>2, <4>3 DEF VerLen, Kinds
      <4>5. state' # "VER_LEN"
        BY <3>2 DEF VerLen, Kinds
      <4>6. QED
        BY <1>4, <4>3, <4>4, <4>5, LengthBounds DEF Blind
    <3>3. CASE Body
      BY <1>1, <1>4, <2>2, <3>3, LengthBounds
         DEF IInv, TypeOK, Aligned, Blind, Body, Kinds
    <3>4. CASE EndOfPacket(crc)
      BY <3>4 DEF Blind, EndOfPacket, Kinds
    <3>5. QED BY <1>1, <3>1, <3>2, <3>3, <3>4 DEF Analyse
  <2>3. QED BY <2>1, <2>2
<1>11. IntactIsReported'
  <2>1. CASE now /\ Last /\ kind # "health"
    <3>1. EndOfPacket(crc) /\ state = kind /\ crc
      BY <1>1, <1>6, <1>7, <2>1, LengthBounds
         DEF IInv, TypeOK, Analyse, Header, VerLen, Body, Last, Kinds
    <3>2. QED
      BY <1>1, <2>1, <3>1 DEF IInv, TypeOK, IntactIsReported, Due, EndOfPacket, Kinds
  <2>2. CASE ~(now /\ Last /\ kind # "health") /\ now /\ pos = 1
    <3>1. VerLen(b) /\ b = kind
      BY <1>1, <1>6, <2>2 DEF Analyse, Header, Body, EndOfPacket, Kinds
    <3>2. QED
      BY <1>1, <2>2, <3>1 DEF IInv, TypeOK, Behind, IntactIsReported, Due, VerLen, Kinds
  <2>3. CASE ~(now /\ Last /\ kind # "health") /\ ~(now /\ pos = 1)
    BY <1>1, <2>3 DEF IntactIsReported, Due
  <2>4. QED BY <2>1, <2>2, <2>3
<1>12. QED BY <1>2, <1>3, <1>5, <1>8, <1>9, <1>10, <1>11 DEF IInv

LEMMA NextInvariant == IInv /\ [Next]_vars => IInv'
<1> SUFFICES ASSUME IInv, [Next]_vars PROVE IInv'
  OBVIOUS
<1>1. ASSUME NEW b \in Bytes, NEW crc \in BOOLEAN, Deliver(b, crc) PROVE IInv'
  BY <1>1, DeliverInvariant
<1>2. ASSUME NEW b \in Bytes, NEW crc \in BOOLEAN, Damage(b, crc) PROVE IInv'
  BY <1>2, AnalyseCounts, AdvanceBounds, DisturbedInvariant DEF Damage
<1>3. ASSUME NEW b \in Bytes, NEW crc \in BOOLEAN, Noise(b, crc) PROVE IInv'
  <2>1. kind' \in Kinds /\ pos' \in 0..(DataLen - 1) /\ pos' < Length[kind']
    BY <1>3 DEF Noise, sender, IInv, TypeOK
  <2>2. QED BY <1>3, <2>1, AnalyseCounts, DisturbedInvariant DEF Noise
<1>4. CASE Lose
  <2>1. Counted' /\ state' = state /\ count' = count /\ healthinf' = healthinf /\ ret' = ret
    BY <1>4 DEF Lose, parser, IInv, Counted
  <2>2. QED BY <1>4, <2>1, AdvanceBounds, DisturbedInvariant DEF Lose, IInv, TypeOK
<1>5. CASE PowerCycle
  <2>1. Counted' /\ state' = state /\ count' = count /\ healthinf' = healthinf /\ ret' = ret
    BY <1>5 DEF PowerCycle, parser, IInv, Counted
  <2>2. kind' \in Kinds /\ pos' \in 0..(DataLen - 1) /\ pos' < Length[kind']
    BY <1>5, LengthBounds DEF PowerCycle
  <2>3. QED BY <1>5, <2>1, <2>2, DisturbedInvariant DEF PowerCycle, IInv, TypeOK
<1>6. CASE UNCHANGED vars
  BY <1>6 DEF vars, parser, sender, history, IInv, TypeOK, Counted, Aligned, Behind,
              Blind, IntactIsReported
<1>7. QED BY <1>1, <1>2, <1>3, <1>4, <1>5, <1>6 DEF Next

(* The parser's variables keep their types: tmp is never written past a     *)
(* data packet, whatever bytes arrive (AnalysisDataPacket).                 *)
THEOREM TypeCorrect == Spec => []TypeOK
<1>1. IInv => TypeOK
  BY DEF IInv
<1>2. QED BY <1>1, InitInvariant, NextInvariant, PTL DEF Spec

(* For packets of any lengths, a longest packet's worth of clean bytes puts *)
(* the parser back in step after any disturbance.                           *)
THEOREM ResynchronisesAlways == Spec => []Resynchronises
<1>1. IInv => Resynchronises
  BY LengthBounds
     DEF IInv, TypeOK, Counted, Aligned, Blind, Resynchronises, Kinds
<1>2. QED BY <1>1, InitInvariant, NextInvariant, PTL DEF Spec

(* Whatever its payload, no packet that arrives whole is missed.            *)
THEOREM IntactAlwaysReported == Spec => []IntactIsReported
<1>1. IInv => IntactIsReported
  BY DEF IInv
<1>2. QED BY <1>1, InitInvariant, NextInvariant, PTL DEF Spec

-----------------------------------------------------------------------------
(* Arithmetic of the circle.                                                *)

(* A nonempty set of numbers has a first element: of the intervals from 0   *)
(* to one of its elements, one is least.                                    *)
LEMMA MinOf ==
  ASSUME NEW S \in SUBSET Nat, S # {}
  PROVE  Min(S) \in S /\ \A x \in S : Min(S) <= x
<1>1. PICK n \in S : TRUE
  OBVIOUS
<1>. DEFINE Heads == {0..k : k \in S \cap (0..n)}
<1>2. Heads \subseteq FiniteSubsetsOf(0..n) /\ Heads # {}
  <2>1. ASSUME NEW k \in S \cap (0..n) PROVE (0..k) \in FiniteSubsetsOf(0..n)
    <3>1. (0..k) \subseteq (0..n)
      OBVIOUS
    <3>2. IsFiniteSet(0..k)
      BY FS_Interval
    <3>. QED BY <3>1, <3>2 DEF FiniteSubsetsOf
  <2>2. (0..n) \in Heads
    OBVIOUS
  <2>. QED BY <2>1, <2>2
<1>3. PICK X \in Heads : \A Y \in Heads : <<Y, X>> \notin StrictSubsetOrdering(0..n)
  BY <1>2, WFMin, FS_StrictSubsetOrderingWellFounded
<1>4. PICK m \in S \cap (0..n) : X = 0..m
  OBVIOUS
<1>5. ASSUME NEW y \in S, y < m PROVE FALSE
  <2>1. y \in S \cap (0..n)
    BY <1>5
  <2>2. (0..y) \subseteq (0..m) /\ m \in 0..m /\ m \notin 0..y
    BY <1>5, <2>1
  <2>3. (0..y) \in SUBSET (0..n) /\ (0..m) \in SUBSET (0..n)
    BY <2>1
  <2>4. <<0..y, 0..m>> \in StrictSubsetOrdering(0..n)
    BY <2>2, <2>3 DEF StrictSubsetOrdering
  <2>. QED BY <1>3, <1>4, <2>1, <2>4
<1>6. m \in S /\ \A y \in S : m <= y
  BY <1>5
<1>7. \E x \in S : \A y \in S : x <= y
  BY <1>6
<1>. QED BY <1>7 DEF Min

(* A nonempty bounded set of numbers has a last element.                    *)
LEMMA MaxOf ==
  ASSUME NEW S \in SUBSET Nat, S # {}, NEW n \in Nat, \A x \in S : x <= n
  PROVE  Max(S) \in S /\ \A x \in S : Max(S) >= x
<1>. DEFINE R == {n - x : x \in S}
<1>1. R \in SUBSET Nat /\ R # {}
  <2>1. ASSUME NEW x \in S PROVE n - x \in Nat
    OBVIOUS
  <2>2. PICK x \in S : TRUE
    OBVIOUS
  <2>3. n - x \in R
    OBVIOUS
  <2>4. R \subseteq Nat
    BY <2>1
  <2>. QED BY <2>3, <2>4
<1>2. Min(R) \in R /\ \A y \in R : Min(R) <= y
  BY <1>1, MinOf
<1>3. PICK m \in S : Min(R) = n - m
  BY <1>2
<1>4. \A x \in S : n - m <= n - x
  BY <1>2, <1>3
<1>5. \A x \in S : m >= x
  BY <1>4
<1>. QED BY <1>5 DEF Max

(* Division leaves a remainder.                                             *)
LEMMA Dividing ==
  ASSUME NEW z \in Int, NEW b \in Nat, b > 0
  PROVE  z \div b \in Int /\ z % b \in 0..(b - 1) /\ z = b * (z \div b) + (z % b)
OBVIOUS

(* There is only one remainder.                                             *)
LEMMA Remainder ==
  ASSUME NEW b \in Nat, b > 0, NEW k \in Int, NEW r \in 0..(b - 1)
  PROVE  (b * k + r) % b = r
<1>. DEFINE z == b * k + r
            q == z \div b
            m == z % b
<1>1. z \in Int
  OBVIOUS
<1>2. q \in Int /\ m \in 0..(b - 1) /\ z = b * q + m
  <2>. HIDE DEF z
  <2>. QED BY <1>1, Dividing
<1>. HIDE DEF q, m
<1>3. b * (k - q) = m - r
  <2>1. b * (k - q) = b * k - b * q
    BY <1>2
  <2>2. b * k \in Int /\ b * q \in Int
    BY <1>2
  <2>. QED BY <1>2, <2>1, <2>2
<1>4. ASSUME k - q >= 1 PROVE FALSE
  <2>1. b * (k - q) - b = b * (k - q - 1) /\ b * (k - q - 1) >= 0
    BY <1>2, <1>4, k - q - 1 \in Nat
  <2>2. b * (k - q) >= b
    BY <1>2, <2>1
  <2>. QED BY <1>2, <1>3, <2>2
<1>5. ASSUME q - k >= 1 PROVE FALSE
  <2>1. b * (q - k) - b = b * (q - k - 1) /\ b * (q - k - 1) >= 0
    BY <1>2, <1>5, q - k - 1 \in Nat
  <2>2. b * (q - k) = r - m
    <3>1. b * (q - k) = -(b * (k - q))
      BY <1>2
    <3>. QED BY <1>2, <1>3, <3>1
  <2>3. b * (q - k) >= b
    BY <1>2, <2>1
  <2>. QED BY <1>2, <2>2, <2>3
<1>6. k = q
  BY <1>2, <1>4, <1>5
<1>7. m = r
  BY <1>2, <1>6
<1>. QED BY <1>7 DEF m

-----------------------------------------------------------------------------
\* A turn of points over the circle.
IsTurn(f) == DOMAIN f \subseteq 0..(Circle - 1) /\ f \in [DOMAIN f -> Point]

(* The angles of a turn are finitely many numbers.                          *)
LEMMA TurnAngles ==
  ASSUME NEW f, IsTurn(f)
  PROVE  DOMAIN f \subseteq Nat /\ IsFiniteSet(DOMAIN f) /\ Cardinality(DOMAIN f) \in Nat
<1>1. DOMAIN f \subseteq 0..(Circle - 1) /\ Circle \in Nat
  BY CircleAssumption DEF IsTurn
<1>2. IsFiniteSet(0..(Circle - 1))
  BY <1>1, FS_Interval
<1>. QED BY <1>1, <1>2, FS_Subset, FS_CardinalityType

LEMMA NothingIsEmpty == IsTurn(Nothing) /\ DOMAIN Nothing = {}
BY DEF Nothing, IsTurn

(* The filter makes a turn of a turn, and adds no point.                    *)
LEMMA FilterKeepsTurn ==
  ASSUME NEW f, IsTurn(f)
  PROVE  IsTurn(NearFilter(f)) /\ DOMAIN NearFilter(f) \subseteq DOMAIN f
<1>1. ASSUME NEW starts, NEW s PROVE Group(f, starts, s) \subseteq Pending(f)
  BY DEF Group
<1>2. ASSUME NEW g \in Groups(f) PROVE g \subseteq Pending(f)
  BY <1>1 DEF Groups
<1>3. Pending(f) \subseteq DOMAIN f
  BY DEF Pending
<1>. DEFINE groups == Groups(f)
            noise  == UNION {g \in groups : ~Solid(f, g)}
            D      == (DOMAIN f \ Pending(f)) \cup UNION groups
<1>4. D \subseteq DOMAIN f
  BY <1>2, <1>3
<1>5. NearFilter(f) = [a \in D |-> IF a \in noise THEN Filtered ELSE f[a]]
  BY DEF NearFilter
<1>6. Filtered \in Point
  BY DEF Filtered, Point
<1>7. \A a \in D : f[a] \in Point
  BY <1>4 DEF IsTurn
<1>. HIDE DEF D, noise
<1>8. NearFilter(f) \in [D -> Point] /\ DOMAIN NearFilter(f) = D
  BY <1>5, <1>6, <1>7
<1>. QED BY <1>4, <1>8 DEF IsTurn

-----------------------------------------------------------------------------
(* A sector that may go across 0 degrees is what is swept from its low end. *)
LEMMA SectorIsSwept ==
  ASSUME NEW x \in Int, NEW s \in Int \X Int
  PROVE  InRange(x % Circle, s) <=> Swept(x, s[1], s[2])
<1>. DEFINE c == Circle
            angle == x % c
            low   == s[1] % c
            high  == s[2] % c
<1>1. c \in Nat /\ c > 0 /\ s[1] \in Int /\ s[2] \in Int
  BY CircleAssumption
<1>2. ASSUME NEW y \in Int, NEW z \in Int
      PROVE  (y - z) % c = IF z % c <= y % c THEN (y % c) - (z % c) ELSE (y % c) - (z % c) + c
  <2>. DEFINE q == y \div c
              m == y % c
              r == z \div c
              n == z % c
  <2>1. q \in Int /\ m \in 0..(c - 1) /\ y = c * q + m
    BY <1>1, Dividing
  <2>2. r \in Int /\ n \in 0..(c - 1) /\ z = c * r + n
    BY <1>1, Dividing
  <2>. HIDE DEF q, m, r, n, c
  <2>3. CASE n <= m
    <3>1. m - n \in 0..(c - 1) /\ q - r \in Int
      BY <1>1, <2>1, <2>2, <2>3
    <3>2. (c * (q - r) + (m - n)) % c = m - n
      BY <1>1, <3>1, Remainder
    <3>3. c * (q - r) = c * q - c * r /\ c * q \in Int /\ c * r \in Int
      BY <1>1, <2>1, <2>2
    <3>4. y - z = c * (q - r) + (m - n)
      BY <2>1, <2>2, <3>3
    <3>. QED BY <2>3, <3>2, <3>4 DEF m, n
  <2>4. CASE ~(n <= m)
    <3>1. m - n + c \in 0..(c - 1) /\ q - r - 1 \in Int
      BY <1>1, <2>1, <2>2, <2>4
    <3>2. (c * (q - r - 1) + (m - n + c)) % c = m - n + c
      BY <1>1, <3>1, Remainder
    <3>3. c * (q - r - 1) = c * q - c * r - c /\ c * q \in Int /\ c * r \in Int
      BY <1>1, <2>1, <2>2
    <3>4. y - z = c * (q - r - 1) + (m - n + c)
      BY <1>1, <2>1, <2>2, <3>3
    <3>. QED BY <2>4, <3>2, <3>4 DEF m, n
  <2>. QED BY <2>3, <2>4
<1>3. (x - s[1]) % c = IF low <= angle THEN angle - low ELSE angle - low + c
  BY <1>1, <1>2
<1>4. (s[2] - s[1]) % c = IF low <= high THEN high - low ELSE high - low + c
  BY <1>1, <1>2
<1>5. angle \in 0..(c - 1) /\ low \in 0..(c - 1) /\ high \in 0..(c - 1)
  BY <1>1, Dividing
<1>6. angle % c = angle
  BY <1>1, <1>5
<1>7. InRange(angle, s) <=> IF low <= high THEN low <= angle /\ angle <= high
                                           ELSE low <= angle \/ angle <= high
  BY DEF InRange
<1>8. Swept(x, s[1], s[2]) <=> (x - s[1]) % c <= (s[2] - s[1]) % c
  BY DEF Swept
<1>. HIDE DEF angle, low, high, c
<1>9. (IF low <= angle THEN angle - low ELSE angle - low + c)
        <= (IF low <= high THEN high - low ELSE high - low + c)
      <=> IF low <= high THEN low <= angle /\ angle <= high
                         ELSE low <= angle \/ angle <= high
  BY <1>1, <1>5
<1>10. InRange(angle, s) <=> Swept(x, s[1], s[2])
  BY <1>3, <1>4, <1>7, <1>8, <1>9
<1>. QED BY <1>10 DEF angle, c

(* A point's angle for the robot, whichever way the scanner counts.         *)
LEMMA RobotAngleOf ==
  ASSUME setting \in Settings, NEW a \in 0..(Circle - 1)
  PROVE  /\ RobotAngle(a) = (IF setting.dir THEN Circle - a ELSE a) % Circle
         /\ RobotAngle(a) = IF setting.dir THEN IF a = 0 THEN 0 ELSE Circle - a ELSE a
<1>1. Circle \in Nat /\ Circle > 0 /\ a \in Nat /\ a < Circle
  BY CircleAssumption
<1>2. a % Circle = a
  BY <1>1
<1>3. ASSUME a # 0 PROVE (Circle - a) % Circle = Circle - a
  BY <1>1, <1>3
<1>4. ASSUME a = 0 PROVE (Circle - a) % Circle = 0
  <2>1. Circle - a = Circle * 1 + 0 /\ 0 \in 0..(Circle - 1)
    BY <1>1, <1>4
  <2>. QED BY <1>1, <2>1, Remainder
<1>. QED BY <1>2, <1>3, <1>4 DEF RobotAngle

(* A point is left out by the sectors to keep and to crop.                  *)
LEMMA MaskedBySectors ==
  ASSUME setting \in Settings, NEW a \in 0..(Circle - 1)
  PROVE  LET angle == IF setting.dir THEN Circle - a ELSE a
         IN  ~Masked(a) <=>
               /\ setting.keep # {} => \E s \in setting.keep : Swept(angle, s[1], s[2])
               /\ \A s \in setting.crop : ~Swept(angle, s[1], s[2])
<1>. DEFINE angle == IF setting.dir THEN Circle - a ELSE a
<1>1. angle \in Int
  BY CircleAssumption
<1>2. RobotAngle(a) = angle % Circle
  BY RobotAngleOf
<1>3. setting.keep \subseteq Int \X Int /\ setting.crop \subseteq Int \X Int
  BY SettingsAssumption
<1>. HIDE DEF angle
<1>4. \A s \in Int \X Int : InRange(RobotAngle(a), s) <=> Swept(angle, s[1], s[2])
  BY <1>1, <1>2, SectorIsSwept
<1>5. ~Masked(a) <=>
        /\ setting.keep # {} => \E s \in setting.keep : InRange(RobotAngle(a), s)
        /\ \A s \in setting.crop : ~InRange(RobotAngle(a), s)
  BY DEF Masked
<1>6. ~Masked(a) <=>
        /\ setting.keep # {} => \E s \in setting.keep : Swept(angle, s[1], s[2])
        /\ \A s \in setting.crop : ~Swept(angle, s[1], s[2])
  BY <1>3, <1>4, <1>5
<1>. QED BY <1>6 DEF angle

(* A point's index is the next increment at or after its angle, and one of  *)
(* the beams.                                                               *)
LEMMA IndexOf ==
  ASSUME IsTurn(scan), Beams > 1, NEW a \in DOMAIN scan
  PROVE  /\ Beams \in Nat /\ a \in 0..(Circle - 1)
         /\ Index(a) \in 0..(Beams - 1)
         /\ Index(a) * Circle - a * (Beams - 1) \in 0..(Circle - 1)
<1>. DEFINE c == Circle
            n == Beams - 1
            x == a * n
            i == (x + c - 1) \div c
            y == c * i
<1>1. Beams \in Nat
  BY TurnAngles DEF Beams
<1>2. c \in Nat /\ c > 0 /\ a \in 0..(c - 1)
  BY CircleAssumption DEF IsTurn
<1>3. n \in Nat /\ n > 0
  BY <1>1
<1>4. x \in Nat /\ x <= c * n - n /\ c * n \in Nat
  <2>. HIDE DEF n, c
  <2>1. (c - 1 - a) * n >= 0
    BY <1>2, <1>3, c - 1 - a \in Nat
  <2>2. (c - 1 - a) * n = c * n - n - a * n
    BY <1>2, <1>3
  <2>3. a * n \in Nat /\ c * n \in Nat
    BY <1>2, <1>3
  <2>. QED BY <1>3, <2>1, <2>2, <2>3
<1>5. i \in Int /\ y \in Int /\ y <= x + c - 1 /\ x + c - 1 < y + c
  <2>. HIDE DEF x, c
  <2>1. x + c - 1 \in Int
    BY <1>2, <1>4
  <2>2. /\ (x + c - 1) \div c \in Int
        /\ (x + c - 1) % c \in 0..(c - 1)
        /\ x + c - 1 = y + ((x + c - 1) % c)
    BY <1>2, <2>1, Dividing
  <2>3. y \in Int
    BY <1>2, <2>2
  <2>. QED BY <1>2, <1>4, <2>2, <2>3
<1>6. Index(a) = i
  BY DEF Index
<1>7. i * c = y
  <2>. HIDE DEF c, x
  <2>. QED BY <1>2, <1>5
<1>8. i >= 0
  <2>. SUFFICES ASSUME i <= -1 PROVE FALSE
    BY <1>5
  <2>1. (-1 - i) * c >= 0 /\ (-1 - i) * c = -c - i * c
    <3>. HIDE DEF i, c
    <3>1. -1 - i \in Nat
      BY <1>5
    <3>. QED BY <1>2, <1>5, <3>1
  <2>. HIDE DEF i, c, x, y
  <2>. QED BY <1>2, <1>4, <1>5, <1>7, <2>1
<1>9. i <= n
  <2>. SUFFICES ASSUME i >= n + 1 PROVE FALSE
    BY <1>3, <1>5
  <2>1. (i - n - 1) * c >= 0 /\ (i - n - 1) * c = i * c - c * n - c
    <3>. HIDE DEF i, c, n
    <3>1. i - n - 1 \in Nat
      BY <1>3, <1>5
    <3>. QED BY <1>2, <1>3, <1>5, <3>1
  <2>. HIDE DEF i, c, x, y, n
  <2>. QED BY <1>2, <1>3, <1>4, <1>5, <1>7, <2>1
<1>10. i * c - x \in 0..(c - 1)
  <2>. HIDE DEF i, c, x, y, n
  <2>. QED BY <1>2, <1>4, <1>5, <1>7
<1>11. i \in 0..n
  <2>. HIDE DEF i, n
  <2>. QED BY <1>3, <1>5, <1>8, <1>9
<1>. QED BY <1>1, <1>2, <1>6, <1>10, <1>11

(* A point's beam is one of the scan's and points in the point's direction. *)
LEMMA BeamOf ==
  ASSUME setting \in Settings, IsTurn(scan), Beams > 1, NEW a \in DOMAIN scan
  PROVE  Beam(a) \in 0..(Beams - 1) /\ Towards(Beam(a), RobotAngle(a))
<1>. DEFINE c == Circle
            n == Beams - 1
            i == Index(a)
            j == Beam(a)
            r == RobotAngle(a)
<1>1. /\ Beams \in Nat /\ c \in Nat /\ c > 0 /\ a \in 0..(c - 1)
      /\ i \in 0..n /\ i * c - a * n \in 0..(c - 1)
  BY IndexOf, CircleAssumption
<1>2. n \in Nat
  BY <1>1
<1>3. j = IF setting.dir THEN n - i ELSE i
  <2>1. j = IF setting.dir THEN Beams - i - 1 ELSE i
    BY DEF Beam
  <2>. HIDE DEF j, i
  <2>. QED BY <1>1, <2>1
<1>4. r = IF setting.dir THEN IF a = 0 THEN 0 ELSE c - a ELSE a
  BY <1>1, RobotAngleOf
<1>5. r \in Int
  BY <1>1, <1>4
<1>6. j \in 0..n
  <2>. HIDE DEF j, n, i
  <2>. QED BY <1>1, <1>2, <1>3
<1>. HIDE DEF c, n, i, j, r
<1>. DEFINE ic == i * c
            an == a * n
            jc == j * c
            cn == c * n
<1>7. ic \in Int /\ an \in Int /\ cn \in Int /\ ic - an \in 0..(c - 1)
  BY <1>1, <1>2
<1>8. ASSUME NEW turn \in {-1, 0, 1}, NEW angle, angle = r + turn * c,
             NEW t, t = angle * n, -c < jc - t, jc - t < c
      PROVE  Towards(j, r)
  <2>1. \E k \in {-1, 0, 1} :
          LET off == j * c - (r + k * c) * n IN -c < off /\ off < c
    BY <1>8
  <2>. QED BY <2>1 DEF Towards, c, n
<1>9. ASSUME ~setting.dir PROVE Towards(j, r)
  <2>1. jc = ic /\ r * n = an /\ r = r + 0 * c
    BY <1>1, <1>2, <1>3, <1>4, <1>9
  <2>2. -c < jc - an /\ jc - an < c
    <3>. HIDE DEF ic, an, jc
    <3>. QED BY <1>1, <1>7, <2>1
  <2>. HIDE DEF an, jc
  <2>. QED BY <1>8, <2>1, <2>2
<1>10. ASSUME setting.dir, a = 0 PROVE Towards(j, r)
  <2>1. jc = cn - ic /\ (r + c) * n = cn /\ an = 0 /\ r + c = r + 1 * c
    BY <1>1, <1>2, <1>3, <1>4, <1>10
  <2>2. -c < jc - cn /\ jc - cn < c
    <3>. HIDE DEF ic, an, jc, cn
    <3>. QED BY <1>1, <1>7, <2>1
  <2>. HIDE DEF cn, jc
  <2>. QED BY <1>8, <2>1, <2>2
<1>11. ASSUME setting.dir, a # 0 PROVE Towards(j, r)
  <2>1. jc = cn - ic /\ r * n = cn - an /\ r = r + 0 * c
    BY <1>1, <1>2, <1>3, <1>4, <1>11
  <2>2. -c < jc - (cn - an) /\ jc - (cn - an) < c
    <3>. HIDE DEF ic, an, jc, cn
    <3>. QED BY <1>1, <1>7, <2>1
  <2>. HIDE DEF an, cn, jc
  <2>. QED BY <1>8, <2>1, <2>2
<1>12. Towards(j, r)
  BY <1>9, <1>10, <1>11
<1>. QED BY <1>6, <1>12 DEF j, n, r

(* The range of a beam is that of the nearest of its points, if any.        *)
LEMMA NearestOf ==
  ASSUME IsTurn(scan), NEW j
  PROVE  LET points == {a \in DOMAIN scan : Beam(a) = j /\ HasRange(a)}
         IN  /\ points = {} => Nearest(j) = NaN
             /\ points # {} => /\ Nearest(j) \in Nat
                               /\ \E a \in points : Nearest(j) = scan[a].dist
                               /\ \A a \in points : Nearest(j) <= scan[a].dist
<1>. DEFINE points == {a \in DOMAIN scan : Beam(a) = j /\ HasRange(a)}
            dists  == {scan[a].dist : a \in points}
<1>1. \A a \in DOMAIN scan : scan[a].dist \in Nat
  BY DEF IsTurn, Point
<1>2. Nearest(j) = IF points = {} THEN NaN ELSE Min(dists)
  BY DEF Nearest
<1>3. dists \in SUBSET Nat
  BY <1>1
<1>4. ASSUME points # {} PROVE Min(dists) \in dists /\ \A d \in dists : Min(dists) <= d
  <2>1. dists # {}
    BY <1>4
  <2>. HIDE DEF dists
  <2>. QED BY <1>3, <2>1, MinOf
<1>. QED BY <1>2, <1>3, <1>4

-----------------------------------------------------------------------------
(* The groups of NearFilter and the clusters around the circle.             *)

\* The near points before and after one on the way round.
Below(f, a) == {b \in Pending(f) : b < a}
Above(f, a) == {b \in Pending(f) : b > a}

\* Two near points next to each other go over into one another.
Linked(f, a, b) == b - a <= GapLimit /\ ~Apart(f[a], f[b])

\* No group begins on the way from p up to q.
Unbroken(f, p, q) == \A t \in Starts(f) : ~(p < t /\ t <= q)

\* No edge is on the way round from p to q.
Reaches(edges, p, q) == \A c \in edges : (c - p) % Circle >= (q - p) % Circle

LEMMA NearAngles ==
  ASSUME NEW f, IsTurn(f)
  PROVE  Pending(f) \subseteq 0..(Circle - 1) /\ Pending(f) \in SUBSET Nat
<1>1. Pending(f) \subseteq 0..(Circle - 1)
  BY DEF Pending, IsTurn
<1>. QED BY <1>1, CircleAssumption

(* The way round the circle from one angle to another.                      *)
LEMMA WayRound ==
  ASSUME NEW y \in 0..(Circle - 1), NEW z \in 0..(Circle - 1)
  PROVE  /\ (y - z) % Circle = IF z <= y THEN y - z ELSE y - z + Circle
         /\ (y - z - 1) % Circle = IF z < y THEN y - z - 1 ELSE y - z - 1 + Circle
<1>1. Circle \in Nat /\ Circle > 0 /\ y \in Nat /\ z \in Nat
  BY CircleAssumption
<1>2. \A r \in 0..(Circle - 1) : (Circle * 0 + r) % Circle = r
  BY <1>1, Remainder
<1>3. \A r \in 0..(Circle - 1) : (Circle * (-1) + r) % Circle = r
  BY <1>1, Remainder
<1>4. ASSUME z <= y PROVE (y - z) % Circle = y - z
  BY <1>1, <1>2, <1>4
<1>5. ASSUME y < z PROVE (y - z) % Circle = y - z + Circle
  BY <1>1, <1>3, <1>5
<1>6. ASSUME z < y PROVE (y - z - 1) % Circle = y - z - 1
  BY <1>1, <1>2, <1>6
<1>7. ASSUME y <= z PROVE (y - z - 1) % Circle = y - z - 1 + Circle
  BY <1>1, <1>3, <1>7
<1>. QED BY <1>1, <1>4, <1>5, <1>6, <1>7

(* The nearest neighbour below and above.                                   *)
LEMMA Neighbours ==
  ASSUME NEW f, IsTurn(f), NEW a \in Pending(f)
  PROVE  /\ Below(f, a) # {} => /\ Max(Below(f, a)) \in Below(f, a)
                                /\ \A b \in Below(f, a) : b <= Max(Below(f, a))
         /\ Above(f, a) # {} => /\ Min(Above(f, a)) \in Above(f, a)
                                /\ \A b \in Above(f, a) : Min(Above(f, a)) <= b
<1>1. Below(f, a) \in SUBSET Nat /\ Above(f, a) \in SUBSET Nat /\ a \in Nat
  BY NearAngles DEF Below, Above
<1>2. \A b \in Below(f, a) : b <= a
  BY <1>1, NearAngles DEF Below
<1>. QED BY <1>1, <1>2, MinOf, MaxOf

LEMMA StartIff ==
  ASSUME NEW f, IsTurn(f), NEW a \in Pending(f)
  PROVE  a \in Starts(f) <=> (Below(f, a) # {} => ~Linked(f, Max(Below(f, a)), a))
<1>1. a \in Starts(f) <=>
        (Below(f, a) # {} => \/ a - Max(Below(f, a)) > GapLimit
                             \/ Apart(f[Max(Below(f, a))], f[a]))
  BY DEF Starts, Below
<1>2. ASSUME Below(f, a) # {} PROVE Max(Below(f, a)) \in Nat /\ a \in Nat
  BY <1>2, Neighbours, NearAngles DEF Below
<1>. QED BY <1>1, <1>2 DEF Linked, GapLimit

(* The neighbour above has this point for its neighbour below, and is the   *)
(* one that follows around the circle.                                      *)
LEMMA NeighbourAbove ==
  ASSUME NEW f, IsTurn(f), NEW a \in Pending(f), Above(f, a) # {}
  PROVE  LET b == Min(Above(f, a))
         IN  /\ b \in Pending(f) /\ a < b
             /\ Below(f, b) # {} /\ Max(Below(f, b)) = a
             /\ NextAround(f, a) = b
<1>. DEFINE b == Min(Above(f, a))
            P == Pending(f)
<1>1. b \in P /\ a < b /\ (\A c \in P : c > a => b <= c)
  BY Neighbours DEF Above
<1>2. P \subseteq 0..(Circle - 1) /\ Circle \in Nat /\ a \in P /\ \A c \in P : c \in Nat
  BY NearAngles, CircleAssumption
<1>. HIDE DEF b
<1>3. a \in Below(f, b)
  BY <1>1 DEF Below
<1>4. Max(Below(f, b)) = a
  <2>1. Max(Below(f, b)) \in P /\ Max(Below(f, b)) < b /\ a <= Max(Below(f, b))
    BY <1>1, <1>3, Neighbours DEF Below
  <2>. DEFINE m == Max(Below(f, b))
  <2>2. m \in Nat /\ b \in Nat /\ a \in Nat /\ m < b /\ a <= m /\ (m > a => b <= m)
    BY <1>1, <1>2, <2>1
  <2>. HIDE DEF m
  <2>3. m = a
    BY <2>2
  <2>. QED BY <2>3 DEF m
<1>5. (b - a - 1) % Circle = b - a - 1
  BY <1>1, <1>2, WayRound
<1>6. ASSUME NEW c \in P PROVE (b - a - 1) % Circle <= (c - a - 1) % Circle
  <2>1. (c - a - 1) % Circle = IF a < c THEN c - a - 1 ELSE c - a - 1 + Circle
    BY <1>2, WayRound
  <2>2. a < c => b <= c
    BY <1>1, <1>2
  <2>3. b < Circle
    BY <1>1, <1>2
  <2>. HIDE DEF P
  <2>. QED BY <1>1, <1>2, <1>5, <2>1, <2>2, <2>3
<1>7. ASSUME NEW x \in P, \A c \in P : (x - a - 1) % Circle <= (c - a - 1) % Circle
      PROVE  x = b
  <2>1. (x - a - 1) % Circle <= b - a - 1
    BY <1>1, <1>5, <1>7
  <2>2. (x - a - 1) % Circle = IF a < x THEN x - a - 1 ELSE x - a - 1 + Circle
    BY <1>2, WayRound
  <2>3. b < Circle /\ (a < x => b <= x)
    BY <1>1, <1>2
  <2>. HIDE DEF P
  <2>. QED BY <1>1, <1>2, <1>7, <2>1, <2>2, <2>3
<1>8. NextAround(f, a) = b
  BY <1>1, <1>6, <1>7 DEF NextAround
<1>. QED BY <1>1, <1>3, <1>4, <1>8 DEF b

(* After the last near point comes the first.                               *)
LEMMA NeighbourAround ==
  ASSUME NEW f, IsTurn(f), NEW a \in Pending(f), Above(f, a) = {}
  PROVE  NextAround(f, a) = Min(Pending(f)) /\ Max(Pending(f)) = a
<1>. DEFINE P == Pending(f)
            b == Min(P)
<1>1. P \subseteq 0..(Circle - 1) /\ Circle \in Nat /\ (\A c \in P : c \in Nat) /\ P \in SUBSET Nat
  BY NearAngles, CircleAssumption
<1>2. \A c \in P : c <= a
  <2>1. \A c \in P : ~(c > a)
    BY DEF Above
  <2>. HIDE DEF P
  <2>. QED BY <1>1, <2>1, a \in P DEF P
<1>3. b \in P /\ \A c \in P : b <= c
  <2>. HIDE DEF P
  <2>. QED BY <1>1, a \in P, MinOf DEF P
<1>4. Max(P) = a
  <2>1. Max(P) \in P /\ \A x \in P : Max(P) >= x
    <3>. HIDE DEF P
    <3>. QED BY <1>1, <1>2, a \in P, MaxOf DEF P
  <2>2. Max(P) >= a /\ Max(P) <= a /\ Max(P) \in Nat
    BY <1>1, <1>2, <2>1
  <2>. QED BY <1>1, <2>2
<1>. HIDE DEF b
<1>5. \A c \in P : (c - a - 1) % Circle = c - a - 1 + Circle
  <2>. TAKE c \in P
  <2>1. (c - a - 1) % Circle = IF a < c THEN c - a - 1 ELSE c - a - 1 + Circle
    BY <1>1, WayRound
  <2>. QED BY <1>1, <1>2, <2>1
<1>6. \A c \in P : (b - a - 1) % Circle <= (c - a - 1) % Circle
  BY <1>1, <1>3, <1>5
<1>7. ASSUME NEW x \in P, \A c \in P : (x - a - 1) % Circle <= (c - a - 1) % Circle
      PROVE  x = b
  <2>1. x - a - 1 + Circle <= b - a - 1 + Circle
    BY <1>3, <1>5, <1>7
  <2>. QED BY <1>1, <1>3, <2>1
<1>8. NextAround(f, a) = b
  BY <1>3, <1>6, <1>7 DEF NextAround
<1>. QED BY <1>4, <1>8 DEF b

(* An edge is where the next group begins, or where the last does not join  *)
(* the first.                                                               *)
LEMMA EdgeIff ==
  ASSUME NEW f, IsTurn(f), NEW a \in Pending(f)
  PROVE  /\ Above(f, a) # {} => (a \in Edges(f) <=> Min(Above(f, a)) \in Starts(f))
         /\ Above(f, a) = {} => (a \in Edges(f) <=> ~Joins(f))
<1>. DEFINE b == NextAround(f, a)
<1>1. a \in Edges(f) <=> ~IF a < b THEN b - a <= GapLimit /\ ~Apart(f[a], f[b])
                                   ELSE b + Circle - a < GapLimit /\ Within(f[a], f[b])
  BY DEF Edges
<1>2. ASSUME Above(f, a) # {} PROVE a \in Edges(f) <=> Min(Above(f, a)) \in Starts(f)
  <2>1. /\ b \in Pending(f) /\ a < b /\ b = Min(Above(f, a))
        /\ Below(f, b) # {} /\ Max(Below(f, b)) = a
    BY <1>2, NeighbourAbove
  <2>. HIDE DEF b
  <2>2. b \in Starts(f) <=> ~Linked(f, a, b)
    BY <2>1, StartIff
  <2>. QED BY <1>1, <2>1, <2>2 DEF Linked
<1>3. ASSUME Above(f, a) = {} PROVE a \in Edges(f) <=> ~Joins(f)
  <2>1. b = Min(Pending(f)) /\ a = Max(Pending(f))
    BY <1>3, NeighbourAround
  <2>2. ~(a < b)
    <3>1. Pending(f) \in SUBSET Nat /\ Pending(f) # {}
      BY NearAngles
    <3>2. b \in Nat /\ b <= a /\ a \in Nat
      BY <2>1, <3>1, MinOf
    <3>. QED BY <3>2
  <2>. HIDE DEF b
  <2>. QED BY <1>1, <2>1, <2>2 DEF Joins
<1>. QED BY <1>2, <1>3

(* There is no edge on the way up where no group begins.                    *)
LEMMA NoEdgeBetween ==
  ASSUME NEW f, IsTurn(f), NEW p \in Pending(f), NEW q \in Pending(f)
  PROVE  (\A c \in Edges(f) : ~(p <= c /\ c < q)) <=> Unbroken(f, p, q)
<1>1. \A x \in Pending(f) : x \in Nat
  BY NearAngles
<1>2. Edges(f) \subseteq Pending(f) /\ Starts(f) \subseteq Pending(f)
  BY DEF Edges, Starts
<1>3. ASSUME Unbroken(f, p, q), NEW c \in Edges(f), p <= c, c < q PROVE FALSE
  <2>1. q \in Above(f, c) /\ c \in Pending(f)
    BY <1>1, <1>2, <1>3 DEF Above
  <2>. DEFINE t == Min(Above(f, c))
  <2>2. t \in Starts(f) /\ t \in Above(f, c) /\ t <= q
    BY <1>3, <2>1, EdgeIff, Neighbours
  <2>3. t \in Nat /\ c < t /\ p \in Nat /\ c \in Nat
    BY <1>1, <2>1, <2>2 DEF Above
  <2>. HIDE DEF t
  <2>4. p < t
    BY <1>3, <2>3
  <2>. QED BY <1>3, <2>2, <2>4 DEF Unbroken
<1>4. ASSUME \A c \in Edges(f) : ~(p <= c /\ c < q), NEW t \in Starts(f), p < t, t <= q
      PROVE  FALSE
  <2>1. t \in Pending(f) /\ p \in Below(f, t)
    BY <1>2, <1>4 DEF Below
  <2>. DEFINE c == Max(Below(f, t))
              d == Min(Above(f, c))
  <2>2. c \in Pending(f) /\ c < t /\ p <= c /\ \A b \in Below(f, t) : b <= c
    BY <2>1, Neighbours DEF Below
  <2>. HIDE DEF c
  <2>3. t \in Above(f, c)
    BY <1>1, <2>1, <2>2 DEF Above
  <2>4. d \in Pending(f) /\ c < d /\ d <= t
    BY <2>2, <2>3, Neighbours, <1>1 DEF Above
  <2>. HIDE DEF d
  <2>5. d = t
    <3>1. d < t => d <= c
      BY <2>2, <2>4 DEF Below
    <3>2. d \in Nat /\ c \in Nat /\ t \in Nat
      BY <1>1, <2>1, <2>2, <2>4
    <3>. QED BY <2>4, <3>1, <3>2
  <2>6. c \in Edges(f)
    BY <1>4, <2>2, <2>3, <2>5, EdgeIff DEF d
  <2>7. c < q
    BY <1>1, <1>4, <2>1, <2>2
  <2>. QED BY <1>4, <2>2, <2>6, <2>7
<1>. QED BY <1>3, <1>4 DEF Unbroken

LEMMA ReachesUp ==
  ASSUME NEW f, IsTurn(f), NEW p \in Pending(f), NEW q \in Pending(f), p <= q
  PROVE  Reaches(Edges(f), p, q) <=> Unbroken(f, p, q)
<1>1. Pending(f) \subseteq 0..(Circle - 1) /\ Circle \in Nat /\ Edges(f) \subseteq Pending(f)
  BY NearAngles, CircleAssumption DEF Edges
<1>2. p \in 0..(Circle - 1) /\ q \in 0..(Circle - 1) /\ Edges(f) \subseteq 0..(Circle - 1)
  BY <1>1
<1>3. (q - p) % Circle = q - p
  BY <1>2, WayRound
<1>4. ASSUME NEW c \in Edges(f)
      PROVE  (c - p) % Circle >= (q - p) % Circle <=> ~(p <= c /\ c < q)
  <2>1. (c - p) % Circle = IF p <= c THEN c - p ELSE c - p + Circle
    BY <1>2, WayRound
  <2>. QED BY <1>1, <1>2, <1>3, <2>1
<1>5. Reaches(Edges(f), p, q) <=> \A c \in Edges(f) : ~(p <= c /\ c < q)
  BY <1>4 DEF Reaches
<1>. QED BY <1>5, NoEdgeBetween

LEMMA ReachesAround ==
  ASSUME NEW f, IsTurn(f), NEW p \in Pending(f), NEW q \in Pending(f), q < p
  PROVE  Reaches(Edges(f), p, q) <=>
           Joins(f) /\ Unbroken(f, p, Max(Pending(f))) /\ Unbroken(f, Min(Pending(f)), q)
<1>. DEFINE P == Pending(f)
            bot == Min(P)
            top == Max(P)
            E == Edges(f)
<1>1. /\ P \subseteq 0..(Circle - 1) /\ P \in SUBSET Nat /\ Circle \in Nat
      /\ E \subseteq P /\ p \in P /\ q \in P
  BY NearAngles, CircleAssumption DEF Edges
<1>2. p \in 0..(Circle - 1) /\ q \in 0..(Circle - 1) /\ E \subseteq 0..(Circle - 1)
  BY <1>1
<1>3. (q - p) % Circle = q - p + Circle
  BY <1>2, WayRound
<1>4. ASSUME NEW c \in E
      PROVE  (c - p) % Circle >= (q - p) % Circle <=> c < p /\ q <= c
  <2>1. (c - p) % Circle = IF p <= c THEN c - p ELSE c - p + Circle
    BY <1>2, WayRound
  <2>. HIDE DEF E
  <2>. QED BY <1>1, <1>2, <1>3, <2>1
<1>5. Reaches(E, p, q) <=> \A c \in E : c < p /\ q <= c
  BY <1>4 DEF Reaches
<1>6. bot \in P /\ (\A x \in P : bot <= x) /\ top \in P /\ (\A x \in P : x <= top)
  <2>. HIDE DEF P
  <2>1. \A x \in P : x <= Circle
    BY <1>1
  <2>. QED BY <1>1, <2>1, MinOf, MaxOf
<1>7. Above(f, top) = {}
  BY <1>1, <1>6 DEF Above
<1>8. top \in E <=> ~Joins(f)
  BY <1>6, <1>7, EdgeIff
<1>9. Unbroken(f, p, top) <=> \A c \in E : ~(p <= c /\ c < top)
  BY <1>6, NoEdgeBetween
<1>10. Unbroken(f, bot, q) <=> \A c \in E : ~(bot <= c /\ c < q)
  BY <1>6, NoEdgeBetween
<1>. HIDE DEF P, E, bot, top
<1>11. \A x \in P : x \in Nat
  BY <1>1
<1>12. (\A c \in E : c < p /\ q <= c) =>
         top \notin E /\ (\A c \in E : ~(p <= c /\ c < top)) /\ \A c \in E : ~(bot <= c /\ c < q)
  BY <1>1, <1>6, <1>11
<1>13. top \notin E /\ (\A c \in E : ~(p <= c /\ c < top)) /\ (\A c \in E : ~(bot <= c /\ c < q)) =>
         \A c \in E : c < p /\ q <= c
  <2>. SUFFICES ASSUME top \notin E, \A c \in E : ~(p <= c /\ c < top),
                       \A c \in E : ~(bot <= c /\ c < q), NEW c \in E
                PROVE  c < p /\ q <= c
    OBVIOUS
  <2>1. /\ c \in Nat /\ p \in Nat /\ q \in Nat /\ top \in Nat /\ bot \in Nat
        /\ bot <= c /\ c <= top /\ c # top
    BY <1>1, <1>6, <1>11
  <2>2. ~(p <= c /\ c < top) /\ ~(bot <= c /\ c < q)
    OBVIOUS
  <2>. QED BY <2>1, <2>2
<1>14. (\A c \in E : c < p /\ q <= c) <=> Joins(f) /\ Unbroken(f, p, top) /\ Unbroken(f, bot, q)
  BY <1>8, <1>9, <1>10, <1>12, <1>13
<1>. QED BY <1>5, <1>14 DEF E, P, bot, top

\* No group begins between two near points.
Together(f, a, b) == IF a <= b THEN Unbroken(f, a, b) ELSE Unbroken(f, b, a)

(* The group that begins at or before a near point is what is together with *)
(* it, and every near point is in one.                                      *)
LEMMA GroupOf ==
  ASSUME NEW f, IsTurn(f), NEW a \in Pending(f)
  PROVE  /\ \E s \in Starts(f) : a \in Group(f, Starts(f), s)
         /\ \A s \in Starts(f) : a \in Group(f, Starts(f), s) =>
              Group(f, Starts(f), s) = {b \in Pending(f) : Together(f, a, b)}
<1>. DEFINE P == Pending(f)
            S == Starts(f)
<1>1. (\A x \in P : x \in Nat) /\ S \subseteq P /\ P \in SUBSET Nat
  BY NearAngles DEF Starts
<1>2. PICK s \in S : s <= a /\ \A t \in S : t > s => a < t
  <2>. DEFINE D == {t \in S : t <= a}
              bot == Min(P)
  <2>1. bot \in P /\ \A x \in P : bot <= x
    <3>. HIDE DEF P
    <3>. QED BY <1>1, a \in P, MinOf DEF P
  <2>. HIDE DEF bot
  <2>2. Below(f, bot) = {}
    BY <1>1, <2>1 DEF Below
  <2>3. bot \in S
    BY <2>1, <2>2, StartIff
  <2>4. bot \in D
    BY <2>1, <2>3
  <2>5. D \in SUBSET Nat /\ a \in Nat /\ \A t \in D : t <= a
    BY <1>1
  <2>6. Max(D) \in D /\ \A t \in D : Max(D) >= t
    <3>. HIDE DEF D
    <3>. QED BY <2>4, <2>5, MaxOf
  <2>. DEFINE m == Max(D)
  <2>7. m \in S /\ m <= a
    BY <2>6
  <2>8. ASSUME NEW t \in S, t > m PROVE a < t
    <3>1. t \in Nat /\ m \in Nat /\ a \in Nat
      BY <1>1, <2>7
    <3>2. t <= a => m >= t
      BY <2>6
    <3>. HIDE DEF m
    <3>. QED BY <2>8, <3>1, <3>2
  <2>. HIDE DEF m
  <2>. QED BY <2>7, <2>8
<1>3. a \in Group(f, S, s)
  BY <1>2 DEF Group
<1>4. ASSUME NEW r \in S, a \in Group(f, S, r), NEW b \in P
      PROVE  b \in Group(f, S, r) <=> Together(f, a, b)
  <2>1. a >= r /\ (\A t \in S : t > r => a < t) /\ a \in Nat /\ b \in Nat /\ r \in Nat
        /\ \A t \in S : t \in Nat
    BY <1>1, <1>4 DEF Group
  <2>2. b \in Group(f, S, r) <=> b >= r /\ \A t \in S : t > r => b < t
    BY DEF Group
  <2>3. Together(f, a, b) <=> IF a <= b THEN \A t \in S : ~(a < t /\ t <= b)
                                        ELSE \A t \in S : ~(b < t /\ t <= a)
    BY DEF Together, Unbroken
  <2>. HIDE DEF S
  <2>4. CASE a <= b
    <3>1. ASSUME \A t \in S : ~(a < t /\ t <= b) PROVE b >= r /\ \A t \in S : t > r => b < t
      BY <2>1, <2>4, <3>1
    <3>2. ASSUME \A t \in S : t > r => b < t PROVE \A t \in S : ~(a < t /\ t <= b)
      BY <2>1, <2>4, <3>2
    <3>. QED BY <2>2, <2>3, <2>4, <3>1, <3>2
  <2>5. CASE ~(a <= b)
    <3>1. ASSUME \A t \in S : ~(b < t /\ t <= a) PROVE b >= r /\ \A t \in S : t > r => b < t
      BY <2>1, <2>5, <3>1
    <3>2. ASSUME b >= r PROVE \A t \in S : ~(b < t /\ t <= a)
      BY <2>1, <2>5, <3>2
    <3>. QED BY <2>2, <2>3, <2>5, <3>1, <3>2
  <2>. QED BY <2>4, <2>5
<1>5. ASSUME NEW r \in S, a \in Group(f, S, r)
      PROVE  Group(f, S, r) = {b \in P : Together(f, a, b)}
  <2>1. Group(f, S, r) \subseteq P
    BY DEF Group
  <2>. QED BY <1>4, <1>5, <2>1
<1>. QED BY <1>2, <1>3, <1>5

(* Being together is an equivalence.                                        *)
LEMMA TogetherIsEquivalence ==
  ASSUME NEW f, IsTurn(f), NEW a \in Pending(f), NEW b \in Pending(f)
  PROVE  /\ Together(f, a, a)
         /\ Together(f, a, b) =>
              {c \in Pending(f) : Together(f, a, c)} = {c \in Pending(f) : Together(f, b, c)}
<1>. DEFINE S == Starts(f)
<1>1. PICK s \in S : a \in Group(f, S, s)
  BY GroupOf
<1>2. Group(f, S, s) = {c \in Pending(f) : Together(f, a, c)}
  BY <1>1, GroupOf
<1>3. Together(f, a, a)
  BY <1>1, <1>2
<1>4. ASSUME Together(f, a, b)
      PROVE  {c \in Pending(f) : Together(f, a, c)} = {c \in Pending(f) : Together(f, b, c)}
  <2>1. b \in Group(f, S, s)
    BY <1>2, <1>4
  <2>. QED BY <1>2, <2>1, GroupOf
<1>. QED BY <1>3, <1>4

(* The first and the last group, and when they are one.                     *)
LEMMA EndGroups ==
  ASSUME NEW f, IsTurn(f), Pending(f) # {}
  PROVE  LET S   == Starts(f)
             bot == Min(Pending(f))
             top == Max(Pending(f))
         IN  /\ bot \in Pending(f) /\ top \in Pending(f)
             /\ \A x \in Pending(f) : bot <= x /\ x <= top
             /\ Group(f, S, Min(S)) = {b \in Pending(f) : Unbroken(f, bot, b)}
             /\ Group(f, S, Max(S)) = {b \in Pending(f) : Unbroken(f, b, top)}
<1>. DEFINE P == Pending(f)
            S == Starts(f)
            bot == Min(P)
            top == Max(P)
<1>1. (\A x \in P : x \in Nat) /\ P \in SUBSET Nat /\ S \subseteq P /\ Circle \in Nat
      /\ \A x \in P : x <= Circle
  BY NearAngles, CircleAssumption DEF Starts
<1>2. bot \in P /\ (\A x \in P : bot <= x) /\ top \in P /\ \A x \in P : top >= x
  <2>1. P # {}
    OBVIOUS
  <2>. HIDE DEF P
  <2>. QED BY <1>1, <2>1, MinOf, MaxOf
<1>. HIDE DEF bot, top
<1>3. \A x \in P : bot <= x /\ x <= top
  BY <1>1, <1>2
<1>4. bot \in S
  <2>1. Below(f, bot) = {}
    BY <1>1, <1>2 DEF Below
  <2>. QED BY <1>2, <2>1, StartIff
<1>5. Min(S) \in S /\ (\A t \in S : Min(S) <= t) /\ Max(S) \in S /\ \A t \in S : Max(S) >= t
  <2>1. S \in SUBSET Nat /\ \A t \in S : t <= Circle
    BY <1>1
  <2>. HIDE DEF S
  <2>. QED BY <1>1, <1>4, <2>1, MinOf, MaxOf
<1>. DEFINE m == Min(S)
            n == Max(S)
<1>6. m \in S /\ (\A t \in S : m <= t) /\ n \in S /\ \A t \in S : n >= t
  BY <1>5
<1>. HIDE DEF m, n
<1>7. \A t \in S : t \in Nat /\ bot <= t /\ t <= top
  BY <1>1, <1>3
<1>8. m = bot
  <2>1. m <= bot /\ bot <= m /\ m \in Nat /\ bot \in Nat
    BY <1>4, <1>6, <1>7
  <2>. QED BY <2>1
<1>9. bot \in Group(f, S, m)
  BY <1>2, <1>7, <1>8 DEF Group
<1>10. top \in Group(f, S, n)
  <2>1. n <= top /\ n \in Nat /\ top \in Nat /\ \A t \in S : ~(t > n)
    BY <1>1, <1>2, <1>6, <1>7
  <2>. QED BY <1>2, <2>1 DEF Group
<1>11. Group(f, S, m) = {b \in P : Together(f, bot, b)}
  BY <1>2, <1>6, <1>9, GroupOf
<1>12. Group(f, S, n) = {b \in P : Together(f, top, b)}
  BY <1>2, <1>6, <1>10, GroupOf
<1>13. \A b \in P : Together(f, bot, b) <=> Unbroken(f, bot, b)
  BY <1>3 DEF Together
<1>14. \A b \in P : Together(f, top, b) <=> Unbroken(f, b, top)
  <2>. TAKE b \in P
  <2>1. CASE b = top
    BY <2>1 DEF Together
  <2>2. CASE b # top
    <3>1. ~(top <= b)
      <4>1. b \in Nat /\ top \in Nat /\ b <= top
        BY <1>1, <1>2, <1>3
      <4>. QED BY <2>2, <4>1
    <3>. QED BY <3>1 DEF Together
  <2>. QED BY <2>1, <2>2
<1>15. /\ Group(f, S, m) = {b \in P : Unbroken(f, bot, b)}
       /\ Group(f, S, n) = {b \in P : Unbroken(f, b, top)}
  BY <1>11, <1>12, <1>13, <1>14
<1>. QED BY <1>2, <1>3, <1>15 DEF bot, top, m, n

(* The cluster of a near point, around the circle.                          *)
LEMMA ClusterOf ==
  ASSUME NEW f, IsTurn(f), NEW a \in Pending(f), NEW b \in Pending(f)
  PROVE  LET bot == Min(Pending(f))
             top == Max(Pending(f))
         IN  b \in Cluster(f, Edges(f), a) <=>
               \/ Together(f, a, b)
               \/ /\ Joins(f)
                  /\ \/ Unbroken(f, bot, a) /\ Unbroken(f, b, top) /\ a < b
                     \/ Unbroken(f, bot, b) /\ Unbroken(f, a, top) /\ b < a
<1>. DEFINE E == Edges(f)
<1>1. a \in Nat /\ b \in Nat
  BY NearAngles
<1>2. b \in Cluster(f, E, a) <=> Reaches(E, a, b) \/ Reaches(E, b, a)
  BY DEF Cluster, Reaches
<1>3. CASE a < b
  <2>1. Reaches(E, a, b) <=> Unbroken(f, a, b)
    BY <1>1, <1>3, ReachesUp
  <2>2. Reaches(E, b, a) <=>
          Joins(f) /\ Unbroken(f, b, Max(Pending(f))) /\ Unbroken(f, Min(Pending(f)), a)
    BY <1>3, ReachesAround
  <2>. QED BY <1>1, <1>2, <1>3, <2>1, <2>2 DEF Together
<1>4. CASE b < a
  <2>1. Reaches(E, b, a) <=> Unbroken(f, b, a)
    BY <1>1, <1>4, ReachesUp
  <2>2. Reaches(E, a, b) <=>
          Joins(f) /\ Unbroken(f, a, Max(Pending(f))) /\ Unbroken(f, Min(Pending(f)), b)
    BY <1>4, ReachesAround
  <2>. QED BY <1>1, <1>2, <1>4, <2>1, <2>2 DEF Together
<1>5. CASE a = b
  <2>1. Reaches(E, a, b) <=> Unbroken(f, a, b)
    BY <1>1, <1>5, ReachesUp
  <2>. QED BY <1>1, <1>2, <1>5, <2>1 DEF Together
<1>. QED BY <1>1, <1>3, <1>4, <1>5

(* Of the groups as they are selected, each near point is in one, and that  *)
(* one is its cluster.                                                      *)
LEMMA GroupsAreClusters ==
  ASSUME NEW f, IsTurn(f), Edges(f) # {}, NEW a \in Pending(f)
  PROVE  /\ a \in Cluster(f, Edges(f), a) /\ Cluster(f, Edges(f), a) \in Groups(f)
         /\ \A g \in Groups(f) : g \subseteq Pending(f)
                                 /\ (a \in g => g = Cluster(f, Edges(f), a))
<1>. DEFINE P      == Pending(f)
            S      == Starts(f)
            K      == Cluster(f, Edges(f), a)
            A      == {b \in P : Together(f, a, b)}
            bot    == Min(P)
            top    == Max(P)
            all    == {Group(f, S, s) : s \in S}
            front  == Group(f, S, Min(S))
            back   == Group(f, S, Max(S))
            joined == (all \ {front, back}) \cup {front \cup back}
<1>1. /\ bot \in P /\ top \in P /\ \A x \in P : bot <= x /\ x <= top
      /\ front = {b \in P : Unbroken(f, bot, b)}
      /\ back = {b \in P : Unbroken(f, b, top)}
  BY EndGroups
<1>2. P # {} /\ \A x \in P : x \in Nat
  BY NearAngles
<1>3. /\ A \in all
      /\ \A g \in all : g \subseteq P /\ (a \in g => g = A)
  <2>1. \A s \in S : Group(f, S, s) \subseteq P
    BY DEF Group
  <2>. QED BY <2>1, GroupOf
<1>4. a \in A
  BY TogetherIsEquivalence
<1>5. K \subseteq P
  BY DEF Cluster
<1>6. Groups(f) = IF ~Joins(f) THEN all ELSE IF front = back THEN {} ELSE joined
  BY <1>2 DEF Groups
<1>7. ASSUME NEW b \in P
      PROVE  b \in K <=> \/ Together(f, a, b)
                         \/ /\ Joins(f)
                            /\ \/ Unbroken(f, bot, a) /\ Unbroken(f, b, top) /\ a < b
                               \/ Unbroken(f, bot, b) /\ Unbroken(f, a, top) /\ b < a
  BY ClusterOf
<1>8. CASE ~Joins(f)
  <2>1. K = A
    BY <1>5, <1>7, <1>8
  <2>. HIDE DEF K, A, all, P
  <2>. QED BY <1>3, <1>4, <1>6, <1>8, <2>1 DEF P, K
<1>9. CASE Joins(f)
  <2>1. ~Unbroken(f, bot, top)
    <3>1. PICK c \in Edges(f) : c \in P
      BY DEF Edges
    <3>2. Above(f, c) # {}
      BY <1>9, <3>1, EdgeIff
    <3>. DEFINE t == Min(Above(f, c))
    <3>3. t \in S /\ t \in P /\ c < t
      BY <3>1, <3>2, EdgeIff, Neighbours DEF Above
    <3>4. bot <= c /\ t <= top /\ bot \in Nat /\ c \in Nat /\ t \in Nat
      BY <1>1, <1>2, <3>1, <3>3
    <3>. HIDE DEF t, bot, top
    <3>5. bot < t
      BY <3>3, <3>4
    <3>. QED BY <3>3, <3>4, <3>5 DEF Unbroken
  <2>. HIDE DEF bot, top
  <2>2. front \in all /\ back \in all /\ top \notin front /\ top \in back
    <3>1. S # {}
      BY GroupOf, <1>1
    <3>2. front = {b \in P : Together(f, bot, b)} /\ back = {b \in P : Together(f, top, b)}
      <4>1. \A b \in P : Together(f, bot, b) <=> Unbroken(f, bot, b)
        BY <1>1 DEF Together
      <4>2. ASSUME NEW b \in P PROVE Together(f, top, b) <=> Unbroken(f, b, top)
        <5>1. CASE b = top
          BY <5>1 DEF Together
        <5>2. CASE b # top
          <6>1. ~(top <= b)
            BY <1>1, <1>2, <5>2
          <6>. QED BY <6>1 DEF Together
        <5>. QED BY <5>1, <5>2
      <4>. QED BY <1>1, <4>1, <4>2
    <3>3. \A x \in P : {b \in P : Together(f, x, b)} \in all
      BY GroupOf
    <3>4. Unbroken(f, top, top)
      BY <1>1, TogetherIsEquivalence DEF Together
    <3>. HIDE DEF front, back, all
    <3>5. front \in all /\ back \in all
      BY <1>1, <3>2, <3>3
    <3>. QED BY <1>1, <2>1, <3>4, <3>5
  <2>3. front # back
    BY <2>2
  <2>4. Groups(f) = joined
    BY <1>6, <1>9, <2>3
  <2>5. a \in front => A = front
    BY <1>3, <2>2
  <2>6. a \in back => A = back
    BY <1>3, <2>2
  <2>7. ASSUME NEW x \in P, NEW y \in P, Unbroken(f, bot, x), Unbroken(f, y, top) PROVE x < y
    <3>. SUFFICES ASSUME y <= x PROVE FALSE
      BY <1>2
    <3>1. PICK t \in S : bot < t /\ t <= top
      BY <2>1 DEF Unbroken
    <3>2. ~(bot < t /\ t <= x) /\ ~(y < t /\ t <= top)
      BY <2>7 DEF Unbroken
    <3>3. t \in Nat /\ x \in Nat /\ y \in Nat
      BY <1>2, <3>1 DEF Starts
    <3>. QED BY <3>1, <3>2, <3>3
  <2>8. ASSUME NEW b \in P
        PROVE  b \in K <=> b \in A \/ (a \in front /\ b \in back) \/ (b \in front /\ a \in back)
    <3>1. b \in front <=> Unbroken(f, bot, b)
      BY <1>1
    <3>2. b \in back <=> Unbroken(f, b, top)
      BY <1>1
    <3>3. a \in front <=> Unbroken(f, bot, a)
      BY <1>1
    <3>4. a \in back <=> Unbroken(f, a, top)
      BY <1>1
    <3>. HIDE DEF front, back, K
    <3>. QED BY <1>7, <1>9, <2>7, <3>1, <3>2, <3>3, <3>4
  <2>9. front \subseteq P /\ back \subseteq P /\ A \subseteq P
    BY <1>1
  <2>10. front \cap back = {}
    <3>1. ASSUME NEW x \in front, x \in back PROVE FALSE
      <4>1. x \in P /\ Unbroken(f, bot, x) /\ Unbroken(f, x, top)
        BY <1>1, <3>1
      <4>2. x < x /\ x \in Nat
        BY <1>2, <2>7, <4>1
      <4>. QED BY <4>2
    <3>. QED BY <3>1
  <2>. HIDE DEF front, back, A, K, all
  <2>11. CASE a \in front \cup back
    <3>1. K = front \cup back
      BY <1>5, <2>5, <2>6, <2>8, <2>9, <2>10, <2>11
    <3>2. a \in K /\ K \in joined
      BY <2>11, <3>1
    <3>3. ASSUME NEW g \in joined PROVE g \subseteq P /\ (a \in g => g = K)
      BY <1>3, <2>2, <2>5, <2>6, <2>9, <2>11, <3>1
    <3>. QED BY <2>4, <3>2, <3>3 DEF K
  <2>12. CASE a \notin front \cup back
    <3>1. K = A
      BY <1>5, <2>8, <2>9, <2>12
    <3>2. a \in K /\ K \in joined
      BY <1>3, <1>4, <2>12, <3>1
    <3>3. ASSUME NEW g \in joined PROVE g \subseteq P /\ (a \in g => g = K)
      BY <1>3, <2>9, <2>12, <3>1
    <3>. QED BY <2>4, <3>2, <3>3 DEF K
  <2>. QED BY <2>11, <2>12
<1>. QED BY <1>8, <1>9

(* The filter decides by the cluster.                                       *)
LEMMA FilterByCluster ==
  ASSUME NEW f, IsTurn(f), Edges(f) # {} \/ Pending(f) = {}
  PROVE  NearFilter(f) = [a \in DOMAIN f |->
                            IF a \in Pending(f) /\ ~Solid(f, Cluster(f, Edges(f), a))
                              THEN Filtered ELSE f[a]]
<1>. DEFINE P      == Pending(f)
            groups == Groups(f)
            noise  == UNION {g \in groups : ~Solid(f, g)}
            K(a)   == Cluster(f, Edges(f), a)
<1>1. NearFilter(f) = [a \in (DOMAIN f \ P) \cup UNION groups |->
                         IF a \in noise THEN Filtered ELSE f[a]]
  BY DEF NearFilter
<1>2. \A g \in groups : g \subseteq P
  <2>1. \A starts, s : Group(f, starts, s) \subseteq P
    BY DEF Group
  <2>. QED BY <2>1 DEF Groups
<1>3. ASSUME NEW a \in P
      PROVE  a \in K(a) /\ K(a) \in groups /\ \A g \in groups : a \in g => g = K(a)
  <2>1. Edges(f) # {}
    OBVIOUS
  <2>. QED BY <2>1, GroupsAreClusters
<1>4. P \subseteq DOMAIN f
  BY DEF Pending
<1>. HIDE DEF K, P, groups
<1>5. UNION groups = P
  BY <1>2, <1>3
<1>6. (DOMAIN f \ P) \cup UNION groups = DOMAIN f
  BY <1>4, <1>5
<1>7. ASSUME NEW a \in DOMAIN f PROVE a \in noise <=> a \in P /\ ~Solid(f, K(a))
  BY <1>2, <1>3
<1>. HIDE DEF noise
<1>8. NearFilter(f) = [a \in DOMAIN f |-> IF a \in P /\ ~Solid(f, K(a)) THEN Filtered ELSE f[a]]
  BY <1>1, <1>6, <1>7
<1>. QED BY <1>8 DEF P, K

-----------------------------------------------------------------------------
(* The invariant of the laser scan.                                         *)

\* What has been made of a turn when each of the three functions has run.
ScanInv ==
  /\ setting \in Settings /\ first \in BOOLEAN
  /\ step \in {"filter", "scan", "cloud", "done"}
  /\ IsTurn(src) /\ IsTurn(scan) /\ DOMAIN scan \subseteq DOMAIN src
  /\ ranges = Nothing \/ (Beams > 1 /\ ranges = [j \in 0..(Beams - 1) |-> Nearest(j)])
  /\ \/ cloud = Nothing
     \/ cloud = [a \in DOMAIN scan |->
                   IF Masked(a) THEN Nothing ELSE <<RobotAngle(a), scan[a].dist, scan[a].int>>]
  /\ step # "filter" => scan = NearFilter(src)
  /\ step \in {"filter", "scan"} => ranges = Nothing
  /\ step # "done" => cloud = Nothing

LEMMA InitScanInv == ScanInit => ScanInv
BY NothingIsEmpty DEF ScanInit, ScanInv

LEMMA FilterScanInv == ASSUME NEW turn \in Turns, ScanInv, Filter(turn) PROVE ScanInv'
<1>1. IsTurn(turn)
  BY TurnsAssumption DEF IsTurn
<1>2. IsTurn(NearFilter(turn)) /\ DOMAIN NearFilter(turn) \subseteq DOMAIN turn
  BY <1>1, FilterKeepsTurn
<1>3. src' = turn /\ scan' = NearFilter(turn) /\ UNCHANGED <<setting, first, ranges, cloud>>
  BY DEF Filter
<1>4. ranges = Nothing /\ cloud = Nothing /\ step' \in {"scan", "done"}
  BY DEF Filter, ScanInv
<1>5. /\ IsTurn(src)' /\ IsTurn(scan)' /\ (DOMAIN scan \subseteq DOMAIN src)'
      /\ scan' = NearFilter(src')
  BY <1>1, <1>2, <1>3 DEF IsTurn
<1>. QED BY <1>3, <1>4, <1>5 DEF ScanInv

\* The scan depends on the turn and the setting only.
LEMMA ScanStays ==
  ASSUME UNCHANGED <<setting, scan>>
  PROVE  Beams' = Beams /\ \A j : Nearest(j)' = Nearest(j)
<1>1. Beams' = Beams
  BY DEF Beams
<1>2. ASSUME NEW a PROVE Beam(a)' = Beam(a) /\ (HasRange(a)' <=> HasRange(a))
  <2>1. Index(a)' = Index(a)
    BY <1>1 DEF Index
  <2>2. RobotAngle(a)' = RobotAngle(a)
    BY DEF RobotAngle
  <2>3. Masked(a)' <=> Masked(a)
    BY <2>2 DEF Masked
  <2>. QED BY <1>1, <2>1, <2>3 DEF Beam, HasRange
<1>3. ASSUME NEW j PROVE Nearest(j)' = Nearest(j)
  <2>1. {a \in DOMAIN scan : Beam(a) = j /\ HasRange(a)}'
          = {a \in DOMAIN scan : Beam(a) = j /\ HasRange(a)}
    BY <1>2
  <2>. QED BY <2>1 DEF Nearest
<1>. QED BY <1>1, <1>3

LEMMA CloudStays ==
  ASSUME UNCHANGED setting
  PROVE  \A a : RobotAngle(a)' = RobotAngle(a) /\ (Masked(a)' <=> Masked(a))
<1>1. \A a : RobotAngle(a)' = RobotAngle(a)
  BY DEF RobotAngle
<1>. QED BY <1>1 DEF Masked

LEMMA PublishScanInv ==
  ASSUME NEW spinning \in BOOLEAN, ScanInv, ToLaserscanMessagePublish(spinning)
  PROVE  ScanInv'
<1>1. /\ step' = "cloud" /\ UNCHANGED <<setting, first, src, scan, cloud>> /\ cloud = Nothing
      /\ scan = NearFilter(src)
      /\ ranges' = Nothing \/ (Beams > 1 /\ ranges' = [j \in 0..(Beams - 1) |-> Nearest(j)])
  <2>1. Beams <= 1 \/ Beams > 1
    <3>1. Beams \in Nat
      BY TurnAngles DEF ScanInv, Beams
    <3>. QED BY <3>1
  <2>. QED BY <2>1 DEF ToLaserscanMessagePublish, ScanInv
<1>2. ranges' = Nothing \/ (Beams > 1 /\ ranges = [j \in 0..(Beams - 1) |-> Nearest(j)])'
  BY <1>1, ScanStays
<1>3. IsTurn(src)' /\ IsTurn(scan)' /\ (DOMAIN scan \subseteq DOMAIN src)'
      /\ scan' = NearFilter(src')
  BY <1>1 DEF ScanInv, IsTurn
<1>. QED BY <1>1, <1>2, <1>3 DEF ScanInv

LEMMA PublishCloudInv ==
  ASSUME ScanInv, ToSensorPointCloudMessagePublish
  PROVE  ScanInv'
<1>1. /\ step' = "done" /\ UNCHANGED <<setting, src, scan, ranges>> /\ first' \in BOOLEAN
      /\ scan = NearFilter(src)
      /\ \/ cloud' = Nothing
         \/ cloud' = [a \in DOMAIN scan |->
                        IF Masked(a) THEN Nothing
                        ELSE <<RobotAngle(a), scan[a].dist, scan[a].int>>]
  BY DEF ToSensorPointCloudMessagePublish, ScanInv
<1>2. \/ cloud' = Nothing
      \/ (cloud = [a \in DOMAIN scan |->
                     IF Masked(a) THEN Nothing
                     ELSE <<RobotAngle(a), scan[a].dist, scan[a].int>>])'
  BY <1>1, CloudStays
<1>3. ranges' = Nothing \/ (Beams > 1 /\ ranges = [j \in 0..(Beams - 1) |-> Nearest(j)])'
  BY <1>1, ScanStays DEF ScanInv
<1>4. IsTurn(src)' /\ IsTurn(scan)' /\ (DOMAIN scan \subseteq DOMAIN src)'
      /\ scan' = NearFilter(src')
  BY <1>1 DEF ScanInv, IsTurn
<1>. QED BY <1>1, <1>2, <1>3, <1>4 DEF ScanInv

(* The invariant of the scan: every step keeps it.                          *)
LEMMA ScanInvIsInvariant == ScanSpec => []ScanInv
<1>1. ScanInv /\ [ScanNext]_scanVars => ScanInv'
  <2>. SUFFICES ASSUME ScanInv, [ScanNext]_scanVars PROVE ScanInv'
    OBVIOUS
  <2>1. CASE UNCHANGED scanVars
    <3>1. UNCHANGED <<setting, first, src, scan, ranges, cloud, step>>
      BY <2>1 DEF scanVars
    <3>2. ranges' = Nothing \/ (Beams > 1 /\ ranges = [j \in 0..(Beams - 1) |-> Nearest(j)])'
      BY <3>1, ScanStays DEF ScanInv
    <3>3. \/ cloud' = Nothing
          \/ (cloud = [a \in DOMAIN scan |->
                         IF Masked(a) THEN Nothing
                         ELSE <<RobotAngle(a), scan[a].dist, scan[a].int>>])'
      BY <3>1, CloudStays DEF ScanInv
    <3>4. IsTurn(src)' /\ IsTurn(scan)' /\ (DOMAIN scan \subseteq DOMAIN src)'
      BY <3>1 DEF ScanInv, IsTurn
    <3>. QED BY <3>1, <3>2, <3>3, <3>4 DEF ScanInv
  <2>. QED BY <2>1, FilterScanInv, PublishScanInv, PublishCloudInv DEF ScanNext
<1>. QED BY InitScanInv, <1>1, PTL DEF ScanSpec

-----------------------------------------------------------------------------
(* Every point of a turn has a beam among those the scan has, so the scan   *)
(* is written inside its arrays (ToLaserscanMessagePublish); the filter     *)
(* makes no point (Tofbf::NearFilter).                                      *)
THEOREM ScanTypeCorrect == ScanSpec => []ScanTypeOK
<1>1. ScanInv => ScanTypeOK
  <2>. SUFFICES ASSUME ScanInv PROVE ScanTypeOK
    OBVIOUS
  <2>1. \A a \in DOMAIN scan : Beams > 1 => Beam(a) \in 0..(Beams - 1)
    BY BeamOf DEF ScanInv
  <2>2. ranges = Nothing \/ ranges \in [0..(Beams - 1) -> Nat \cup {NaN}]
    <3>1. \A j : Nearest(j) \in Nat \cup {NaN}
      BY NearestOf DEF ScanInv
    <3>. QED BY <3>1 DEF ScanInv
  <2>3. cloud = Nothing \/ DOMAIN cloud = DOMAIN scan
    BY DEF ScanInv
  <2>. QED BY <2>1, <2>2, <2>3 DEF ScanInv, ScanTypeOK, IsTurn
<1>. QED BY ScanInvIsInvariant, <1>1, PTL

(* Exactly the points outside the sectors to keep and inside those to crop  *)
(* are masked, for all sectors, both senses of rotation and any number of   *)
(* steps to a turn (ShouldMaskAngle).                                       *)
THEOREM SectorsAlwaysHold == ScanSpec => []SectorsHold
<1>1. ScanInv => SectorsHold
  <2>. SUFFICES ASSUME ScanInv, NEW a \in DOMAIN cloud
                PROVE  LET angle == IF setting.dir THEN Circle - a ELSE a
                       IN  cloud[a] # Nothing <=>
                             /\ setting.keep # {} =>
                                  \E s \in setting.keep : Swept(angle, s[1], s[2])
                             /\ \A s \in setting.crop : ~Swept(angle, s[1], s[2])
    BY DEF SectorsHold
  <2>1. cloud # Nothing
    BY NothingIsEmpty
  <2>2. a \in DOMAIN scan /\ a \in 0..(Circle - 1) /\ setting \in Settings
    BY <2>1 DEF ScanInv, IsTurn
  <2>3. cloud[a] = IF Masked(a) THEN Nothing ELSE <<RobotAngle(a), scan[a].dist, scan[a].int>>
    BY <2>1, <2>2 DEF ScanInv
  <2>4. \A x, y, z : <<x, y, z>> # Nothing
    BY DEF Nothing
  <2>5. cloud[a] # Nothing <=> ~Masked(a)
    BY <2>3, <2>4
  <2>. QED BY <2>2, <2>5, MaskedBySectors
<1>. QED BY ScanInvIsInvariant, <1>1, PTL

(* Every finite range of a published scan is a point of the cloud in the    *)
(* beam's direction, and every point of the cloud that is not filtered is   *)
(* seen or hidden behind a nearer one, for every turn, number of points and *)
(* setting (ToLaserscanMessagePublish, ToSensorPointCloudMessagePublish).   *)
THEOREM ScanAlwaysShowsCloud == ScanSpec => []ScanShowsCloud
<1>1. ScanInv => ScanShowsCloud
  <2>. SUFFICES ASSUME ScanInv, ranges # Nothing, cloud # Nothing PROVE ScanShowsCloud
    BY DEF ScanShowsCloud
  <2>. DEFINE real == {a \in DOMAIN cloud :
                        cloud[a] # Nothing /\ (cloud[a][2] # 0 \/ cloud[a][3] # 0)}
              seen == {cloud[a] : a \in real}
  <2>1. /\ setting \in Settings /\ IsTurn(scan) /\ Beams > 1
        /\ ranges = [j \in 0..(Beams - 1) |-> Nearest(j)]
        /\ cloud = [a \in DOMAIN scan |->
                      IF Masked(a) THEN Nothing ELSE <<RobotAngle(a), scan[a].dist, scan[a].int>>]
    BY DEF ScanInv
  <2>2. ASSUME NEW a \in DOMAIN scan
        PROVE  /\ scan[a] # Filtered <=> scan[a].dist # 0 \/ scan[a].int # 0
               /\ scan[a].dist \in Nat
    <3>1. scan[a] \in Point
      BY <2>1 DEF IsTurn
    <3>2. scan[a] = [dist |-> scan[a].dist, int |-> scan[a].int]
      BY <3>1 DEF Point
    <3>. QED BY <3>1, <3>2 DEF Filtered, Point
  <2>3. ASSUME NEW a \in DOMAIN scan
        PROVE  /\ a \in real <=> HasRange(a)
               /\ a \in real => /\ cloud[a][1] = RobotAngle(a)
                                /\ cloud[a][2] = scan[a].dist
    <3>1. \A x, y, z : <<x, y, z>> # Nothing
      BY DEF Nothing
    <3>2. CASE Masked(a)
      <4>1. cloud[a] = Nothing
        BY <2>1, <3>2
      <4>. QED BY <3>2, <4>1 DEF HasRange
    <3>3. CASE ~Masked(a)
      <4>1. cloud[a] = <<RobotAngle(a), scan[a].dist, scan[a].int>>
        BY <2>1, <3>3
      <4>2. a \in DOMAIN cloud /\ cloud[a] # Nothing
        BY <2>1, <3>1, <4>1
      <4>. QED BY <2>2, <3>3, <4>1, <4>2 DEF HasRange
    <3>. QED BY <3>2, <3>3
  <2>4. real \subseteq DOMAIN scan
    BY <2>1
  <2>. HIDE DEF real
  <2>5. ASSUME NEW j \in DOMAIN ranges, ranges[j] # NaN
        PROVE  \E p \in seen : p[2] = ranges[j] /\ Towards(j, p[1])
    <3>1. ranges[j] = Nearest(j)
      BY <2>1
    <3>2. PICK a \in DOMAIN scan : Beam(a) = j /\ HasRange(a) /\ Nearest(j) = scan[a].dist
      BY <2>1, <2>5, <3>1, NearestOf
    <3>3. a \in real /\ cloud[a][1] = RobotAngle(a) /\ cloud[a][2] = ranges[j]
      BY <2>3, <3>1, <3>2
    <3>4. Towards(j, RobotAngle(a))
      BY <2>1, <3>2, BeamOf
    <3>. QED BY <3>3, <3>4
  <2>6. ASSUME NEW p \in seen
        PROVE  \E j \in DOMAIN ranges : ranges[j] # NaN /\ ranges[j] <= p[2] /\ Towards(j, p[1])
    <3>1. PICK a \in real : p = cloud[a]
      OBVIOUS
    <3>2. a \in DOMAIN scan /\ HasRange(a) /\ p[1] = RobotAngle(a) /\ p[2] = scan[a].dist
      BY <2>3, <2>4, <3>1
    <3>. DEFINE j == Beam(a)
    <3>3. j \in DOMAIN ranges /\ Towards(j, p[1])
      BY <2>1, <3>2, BeamOf
    <3>4. ranges[j] = Nearest(j)
      BY <2>1, <3>3
    <3>5. Nearest(j) \in Nat /\ Nearest(j) <= scan[a].dist
      BY <2>1, <3>2, NearestOf
    <3>6. ranges[j] # NaN
      BY <3>4, <3>5 DEF NaN
    <3>. QED BY <3>2, <3>3, <3>4, <3>5, <3>6
  <2>. QED BY <2>5, <2>6 DEF ScanShowsCloud, real
<1>. QED BY ScanInvIsInvariant, <1>1, PTL

(* The filter decides for each near point by its cluster around the circle, *)
(* of which 0 degrees may be the middle, for every number of steps to a     *)
(* turn and every turn with near points that do not close the circle, with  *)
(* the code's stricter limits for a pair across 0 degrees                   *)
(* (Tofbf::NearFilter).                                                     *)
THEOREM FilterFollowsClusters == ScanSpec => []FilteredByCluster
<1>1. ScanInv => FilteredByCluster
  <2>1. ScanInv /\ step = "scan" => IsTurn(src) /\ scan = NearFilter(src)
    BY DEF ScanInv
  <2>. QED BY <2>1, FilterByCluster DEF FilteredByCluster
<1>. QED BY ScanInvIsInvariant, <1>1, PTL

=============================================================================
