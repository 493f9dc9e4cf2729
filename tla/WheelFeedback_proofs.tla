------------------------ MODULE WheelFeedback_proofs ------------------------
(***************************************************************************)
(* That encoder_full follows the wheel, for every set of wheels, every     *)
(* movement and every loss of frames.  A reading is split into whole       *)
(* ranges and a remainder once (Split); the rest is linear arithmetic.     *)
(***************************************************************************)
EXTENDS WheelFeedback, TLAPS

LEMMA Split ==
  ASSUME NEW n \in Int
  PROVE  \E q, r \in Int : /\ n = 65536 * q + r /\ (n % 65536) = r
                           /\ 0 <= r /\ r < 65536
<1>1. (n % 65536) \in Int /\ (n \div 65536) \in Int
  BY SMT
<1>2. 0 <= (n % 65536) /\ (n % 65536) < 65536
  BY SMT
<1>3. n = 65536 * (n \div 65536) + (n % 65536)
  BY SMT
<1>4. QED
  BY <1>1, <1>2, <1>3, SMT

(* Two remainders differ by the movement or by the movement and one range:  *)
(* of these, the step of at most half a range is the movement.              *)
LEMMA ShorterWayIsTheMovement ==
  ASSUME NEW p \in Int, NEW q \in Int, NEW b \in Int, NEW m \in Int, NEW d \in Int,
         0 <= b, b < 65536, 0 <= m, m < 65536, -32768 <= d, d < 32768,
         65536 * q + m = 65536 * p + b + d
  PROVE  (IF m - b > 32767 THEN m - b - 65536
          ELSE IF m - b < -32768 THEN m - b + 65536 ELSE m - b) = d
<1>1. p = q \/ p = q + 1 \/ p = q - 1
  BY SMT
<1>2. QED
  BY <1>1, SMT

(* _extend_encoder, given a count that agrees with the last reading, moves  *)
(* it by the wheel's movement if one reading can tell that movement apart.  *)
LEMMA ExtendFollows ==
  ASSUME NEW full \in Int, NEW before \in Int, NEW now \in Int, NEW off \in Int,
         Low16(full) = Low16(before), full = before + off, Unambiguous(now - before)
  PROVE  Extend(full, Low16(now)) = now + off
<1>1. PICK p, b \in Int : before = 65536 * p + b /\ (before % 65536) = b /\ 0 <= b /\ b < 65536
  BY Split, SMT
<1>2. PICK q, m \in Int : now = 65536 * q + m /\ (now % 65536) = m /\ 0 <= m /\ m < 65536
  BY Split, SMT
<1>3. (full % 65536) = b
  BY <1>1, SMT DEF Low16, Range16
<1>4. Extend(full, Low16(now)) =
        full + (IF m - b > 32767 THEN m - b - 65536
                ELSE IF m - b < -32768 THEN m - b + 65536 ELSE m - b)
  BY <1>1, <1>2, <1>3, SMT DEF Extend, Low16, Range16, HalfRange
<1>5. -32768 <= now - before /\ now - before < 32768
  BY SMT DEF Unambiguous, HalfRange
<1>6. 65536 * q + m = 65536 * p + b + (now - before)
  BY <1>1, <1>2, SMT
<1>7. QED
  BY <1>1, <1>2, <1>4, <1>5, <1>6, ShorterWayIsTheMovement, SMT

(* Whatever the movement, the unwrapped count agrees with the reading.      *)
LEMMA ExtendCongruent ==
  ASSUME NEW full \in Int, NEW now \in Int
  PROVE  /\ Extend(full, Low16(now)) \in Int
         /\ Low16(Extend(full, Low16(now))) = Low16(now)
<1>1. PICK p, b \in Int : full = 65536 * p + b /\ (full % 65536) = b /\ 0 <= b /\ b < 65536
  BY Split, SMT
<1>2. PICK q, m \in Int : now = 65536 * q + m /\ (now % 65536) = m /\ 0 <= m /\ m < 65536
  BY Split, SMT
<1>3. Extend(full, Low16(now)) =
        full + (IF m - b > 32767 THEN m - b - 65536
                ELSE IF m - b < -32768 THEN m - b + 65536 ELSE m - b)
  BY <1>1, <1>2, SMT DEF Extend, Low16, Range16, HalfRange
<1>4. \E k \in {p - 1, p, p + 1} : Extend(full, Low16(now)) = 65536 * k + m
  BY <1>1, <1>2, <1>3, SMT
<1>5. PICK k \in Int : Extend(full, Low16(now)) = 65536 * k + m
  BY <1>1, <1>4, SMT
<1>6. PICK j, r \in Int : /\ 65536 * k + m = 65536 * j + r /\ ((65536 * k + m) % 65536) = r
                          /\ 0 <= r /\ r < 65536
  BY <1>2, Split, SMT
<1>7. r = m
  BY <1>2, <1>6, SMT
<1>8. Extend(full, Low16(now)) \in Int
  BY <1>2, <1>5, SMT
<1>9. Low16(Extend(full, Low16(now))) = Low16(now)
  BY <1>2, <1>5, <1>6, <1>7, SMT DEF Low16, Range16
<1>10. QED
  BY <1>8, <1>9

LEMMA Low16Idempotent ==
  ASSUME NEW n \in Int
  PROVE  Low16(n) \in Int /\ Low16(Low16(n)) = Low16(n)
  BY SMT DEF Low16, Range16

-----------------------------------------------------------------------------
(* The inductive invariant: the unwrapped count of a wheel agrees with its  *)
(* last reading modulo the range - which is what lets _extend_encoder find  *)
(* the movement - and differs from it by the wheel's offset until it slips. *)
Agrees(w)  == Low16(encoderFull[w]) = Low16(reported[w])
Follows(w) == encoderFull[w] = reported[w] + offset[w]

IInv ==
  /\ TypeOK
  /\ \A w \in initialized : Agrees(w)
  /\ \A w \in initialized : w \in slipped \/ Follows(w)
  /\ heard = updated
  /\ batch = Wheels

(* What a frame of wheel w does to that wheel's count.                      *)
LEMMA FullCountOfFrame ==
  ASSUME IInv, NEW w \in Wheels
  PROVE  /\ FullCount(w) \in Int
         /\ Low16(FullCount(w)) = Low16(count[w])
         /\ w \notin initialized => FullCount(w) = Low16(count[w])
         /\ (w \in initialized /\ w \notin slipped /\ Unambiguous(count[w] - reported[w]))
               => FullCount(w) = count[w] + offset[w]
<1>1. /\ count[w] \in Int /\ reported[w] \in Int
      /\ encoderFull[w] \in Int /\ offset[w] \in Int
  BY DEF IInv, TypeOK
<1>2. CASE w \in initialized
  <2>1. FullCount(w) = Extend(encoderFull[w], Low16(count[w]))
    BY <1>2 DEF FullCount
  <2>2. FullCount(w) \in Int /\ Low16(FullCount(w)) = Low16(count[w])
    BY <1>1, <2>1, ExtendCongruent
  <2>3. Low16(encoderFull[w]) = Low16(reported[w])
    BY <1>2 DEF IInv, Agrees
  <2>4. w \in slipped \/ encoderFull[w] = reported[w] + offset[w]
    BY <1>2 DEF IInv, Follows
  <2>5. ASSUME w \notin slipped, Unambiguous(count[w] - reported[w])
        PROVE  FullCount(w) = count[w] + offset[w]
    BY <1>1, <2>1, <2>3, <2>4, <2>5, ExtendFollows
  <2>6. QED
    BY <1>2, <2>2, <2>5
<1>3. CASE w \notin initialized
  <2>1. FullCount(w) = Low16(count[w])
    BY <1>3 DEF FullCount
  <2>2. QED
    BY <1>1, <1>3, <2>1, Low16Idempotent
<1>4. QED
  BY <1>2, <1>3

LEMMA FrameKeepsIInv ==
  ASSUME IInv, NEW w \in Wheels, HandleFrame(w)
  PROVE  IInv'
<1> USE DEF HandleFrame
<1>1. /\ FullCount(w) \in Int
      /\ Low16(FullCount(w)) = Low16(count[w])
      /\ w \notin initialized => FullCount(w) = Low16(count[w])
      /\ (w \in initialized /\ w \notin slipped /\ Unambiguous(count[w] - reported[w]))
            => FullCount(w) = count[w] + offset[w]
  BY FullCountOfFrame
<1>2. /\ count[w] \in Int /\ Low16(count[w]) \in Int
      /\ Low16(count[w]) - count[w] \in Int
  <2>1. count[w] \in Int
    BY DEF IInv, TypeOK
  <2>2. Low16(count[w]) \in Int
    BY <2>1, Low16Idempotent
  <2>3. QED
    BY <2>1, <2>2, SMT
<1>3. TypeOK'
  <2>1. count' \in [Wheels -> Int] /\ encoderFull' \in [Wheels -> Int]
    BY <1>1 DEF IInv, TypeOK
  <2>2. reported' \in [Wheels -> Int] /\ offset' \in [Wheels -> Int]
    BY <1>2 DEF IInv, TypeOK
  <2>3. initialized' \subseteq Wheels /\ slipped' \subseteq Wheels
    BY DEF IInv, TypeOK
  <2>4. updated' \subseteq Wheels /\ heard' \subseteq Wheels /\ batch' \subseteq Wheels
    BY DEF IInv, TypeOK, PublishFeedback
  <2>5. QED
    BY <2>1, <2>2, <2>3, <2>4 DEF TypeOK
<1>4. encoderFull'[w] = FullCount(w) /\ reported'[w] = count[w]
  BY DEF IInv, TypeOK
<1>5. ASSUME NEW v \in Wheels, v # w
      PROVE  /\ encoderFull'[v] = encoderFull[v] /\ reported'[v] = reported[v]
             /\ offset'[v] = offset[v]
             /\ v \in initialized' => v \in initialized
             /\ v \in slipped => v \in slipped'
  BY <1>5 DEF IInv, TypeOK
<1>6. ASSUME NEW v \in initialized' PROVE Agrees(v)'
  <2>1. CASE v = w
    BY <1>1, <1>4, <2>1 DEF Agrees
  <2>2. CASE v # w
    <3>1. v \in Wheels
      BY <1>3 DEF TypeOK
    <3>2. Agrees(v)
      BY <1>5, <1>6, <2>2, <3>1 DEF IInv
    <3>3. QED
      BY <1>5, <2>2, <3>1, <3>2 DEF Agrees
  <2>3. QED  BY <2>1, <2>2
<1>7. ASSUME NEW v \in initialized' PROVE v \in slipped' \/ Follows(v)'
  <2>1. CASE v = w /\ w \in initialized
    BY <1>1, <1>4, <2>1 DEF Follows
  <2>2. CASE v = w /\ w \notin initialized
    <3>1. offset'[w] = Low16(count[w]) - count[w] /\ FullCount(w) = Low16(count[w])
      BY <1>1, <2>2 DEF IInv, TypeOK
    <3>2. Low16(count[w]) = count[w] + (Low16(count[w]) - count[w])
      BY <1>2, SMT
    <3>3. QED
      BY <1>4, <2>2, <3>1, <3>2 DEF Follows
  <2>3. CASE v # w
    <3>1. v \in Wheels
      BY <1>3 DEF TypeOK
    <3>2. v \in slipped \/ Follows(v)
      BY <1>5, <1>7, <2>3, <3>1 DEF IInv
    <3>3. QED
      BY <1>5, <2>3, <3>1, <3>2 DEF Follows
  <2>4. QED  BY <2>1, <2>2, <2>3
<1>8. heard' = updated' /\ batch' = Wheels
  BY DEF IInv, PublishFeedback
<1>9. QED
  BY <1>3, <1>6, <1>7, <1>8 DEF IInv

LEMMA MoveKeepsIInv ==
  ASSUME IInv, NEW w \in Wheels, NEW d \in Moves, Move(w, d)
  PROVE  IInv'
<1>1. UNCHANGED <<encoderFull, initialized, updated, reported, offset, slipped, heard, batch>>
  BY DEF Move, driver, history
<1>2. count' \in [Wheels -> Int]
  BY MovesAssumption, SMT DEF Move, IInv, TypeOK
<1>3. TypeOK'
  BY <1>1, <1>2 DEF IInv, TypeOK
<1>4. QED
  BY <1>1, <1>3 DEF IInv, Agrees, Follows

LEMMA IInvIsInvariant == Spec => []IInv
<1>1. Init => IInv
  <2> SUFFICES ASSUME Init PROVE IInv
    OBVIOUS
  <2>1. count \in [Wheels -> Int]
    BY MovesAssumption DEF Init
  <2>2. TypeOK
    BY <2>1 DEF Init, TypeOK
  <2>3. QED
    BY <2>2 DEF Init, IInv
<1>2. IInv /\ [Next]_vars => IInv'
  <2> SUFFICES ASSUME IInv, [Next]_vars PROVE IInv'
    OBVIOUS
  <2>1. ASSUME NEW w \in Wheels, NEW d \in Moves, Move(w, d) PROVE IInv'
    BY <2>1, MoveKeepsIInv
  <2>2. ASSUME NEW w \in Wheels, HandleFrame(w) PROVE IInv'
    BY <2>2, FrameKeepsIInv
  <2>3. CASE UNCHANGED vars
    BY <2>3 DEF IInv, TypeOK, Agrees, Follows, vars, driver, history
  <2>4. QED
    BY <2>1, <2>2, <2>3 DEF Next
<1>3. QED
  BY <1>1, <1>2, PTL DEF Spec

(* The types of the feedback state (_handle_frame).                         *)
THEOREM TypeCorrect == Spec => []TypeOK
<1>1. IInv => TypeOK
  BY DEF IInv
<1>2. QED
  BY <1>1, IInvIsInvariant, PTL

(* The unwrapped count follows a wheel that never slipped, tick by tick     *)
(* (_extend_encoder).                                                       *)
THEOREM EncoderTracksTheWheel == Spec => []EncoderTracks
<1>1. IInv => EncoderTracks
  BY DEF IInv, Follows, EncoderTracks
<1>2. QED
  BY <1>1, IInvIsInvariant, PTL

(* A wheel that slipped is off by whole ranges (_extend_encoder).           *)
THEOREM EncoderStaysCongruent == Spec => []EncoderCongruent
<1>1. IInv => EncoderCongruent
  BY DEF IInv, Agrees, EncoderCongruent
<1>2. QED
  BY <1>1, IInvIsInvariant, PTL

(* A publication draws on a fresh frame of every wheel (_handle_frame).     *)
THEOREM PublicationIsFresh == Spec => []PublishedIsFresh
<1>1. IInv => PublishedIsFresh
  BY DEF IInv, PublishedIsFresh
<1>2. QED
  BY <1>1, IInvIsInvariant, PTL

==============================================================================
