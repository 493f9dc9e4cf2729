---------------------------- MODULE WheelFeedback ----------------------------
(***************************************************************************)
(* The feedback side of the chassis driver: _handle_frame, run by the      *)
(* receive thread under state_lock for every status frame.  A wheel's      *)
(* controller reports the low 16 bits of its tick count; _extend_encoder   *)
(* unwraps them, and feedback is published when every wheel has reported   *)
(* since the last publication.  Frames are lost whenever the socket is     *)
(* down (ChassisCan) or the receive queue overflows: a wheel may move any  *)
(* number of times between two of its frames that are handled.             *)
(***************************************************************************)
EXTENDS Integers

CONSTANTS
  Wheels,      \* WHEEL_NAMES
  Moves,       \* ticks a wheel may turn by between two events
  MaxCount,    \* bound of the model: the largest tick count, either way
  MaxDrift     \* bound of the model: a wheel further off stands still

ASSUME WheelsAssumption == Wheels # {}
ASSUME MovesAssumption  == Moves \subseteq Int
ASSUME BoundAssumption  == MaxCount \in Nat /\ MaxDrift \in Nat

VARIABLES
  count,        \* external: the true tick count of each wheel
  encoderFull,  \* WheelState.encoder_full
  initialized,  \* the wheels with WheelState.encoder_initialized
  updated,      \* self.updated_wheels_since_publish
  reported,     \* history: the tick count behind the last handled frame
  offset,       \* history: encoderFull - count at the first frame
  slipped,      \* history: wheels that moved too far between two frames
  heard,        \* history: wheels with a frame handled since the last publication
  batch         \* history: the wheels heard for the last published message

driver  == <<encoderFull, initialized, updated>>
history == <<reported, offset, slipped, heard, batch>>
vars    == <<count, driver, history>>

Range16   == 65536
HalfRange == 32768

Low16(n) == n % Range16

\* Variant with a bug: half a range up counts as up.
ExtendOffByOne(full, low16) ==
  LET delta == low16 - Low16(full)
  IN  full + (IF delta > HalfRange THEN delta - Range16
              ELSE IF delta < -HalfRange THEN delta + Range16
              ELSE delta)

\* Variant with a bug: the range is taken for its largest value.
ExtendShort(full, low16) ==
  LET delta == low16 - Low16(full)
  IN  full + (IF delta > HalfRange - 1 THEN delta - (Range16 - 1)
              ELSE IF delta < -HalfRange THEN delta + (Range16 - 1)
              ELSE delta)

\* _extend_encoder after the first frame: take the shorter way round.
Extend(full, low16) ==
  LET delta == low16 - Low16(full)
  IN  full + (IF delta > HalfRange - 1 THEN delta - Range16
              ELSE IF delta < -HalfRange THEN delta + Range16
              ELSE delta)

\* What one 16-bit reading can tell apart.
Unambiguous(ticks) == -HalfRange <= ticks /\ ticks < HalfRange

Init ==
  /\ count \in [Wheels -> Moves]
  /\ encoderFull = [w \in Wheels |-> 0]
  /\ initialized = {}
  /\ updated = {}
  /\ reported = count
  /\ offset = [w \in Wheels |-> 0]
  /\ slipped = {}
  /\ heard = {} /\ batch = Wheels

\* External: a wheel turns, unseen by the driver.
Move(w, d) ==
  /\ count[w] + d \in -MaxCount..MaxCount
  /\ encoderFull[w] - count[w] \in -MaxDrift..MaxDrift
  /\ count' = [count EXCEPT ![w] = @ + d]
  /\ UNCHANGED <<driver, history>>

FullCount(w) ==
  IF w \in initialized THEN Extend(encoderFull[w], Low16(count[w])) ELSE Low16(count[w])

\* Variant with a bug: the batch is not restarted.
PublishFeedbackForever(w) ==
  /\ updated' = updated \cup {w}
  /\ IF updated \cup {w} = Wheels
       THEN batch' = heard \cup {w} /\ heard' = {}
       ELSE heard' = heard \cup {w} /\ UNCHANGED batch

\* Variant with a bug: the batch collects CAN identifiers instead of wheels.
PublishFeedbackById(w) ==
  /\ updated' = updated \cup {291}
  /\ UNCHANGED <<batch, heard>>

\* Publish speeds and counts once every wheel is in, and start the next batch.
PublishFeedback(w) ==
  IF updated \cup {w} = Wheels
    THEN /\ updated' = {}
         /\ batch' = heard \cup {w}
         /\ heard' = {}
    ELSE /\ updated' = updated \cup {w}
         /\ heard' = heard \cup {w}
         /\ UNCHANGED batch

\* _handle_frame for a full status frame of wheel w; it ignores all other frames.
HandleFrame(w) ==
  /\ encoderFull' = [encoderFull EXCEPT ![w] = FullCount(w)]
  /\ initialized' = initialized \cup {w}
  /\ PublishFeedback(w)
  /\ reported' = [reported EXCEPT ![w] = count[w]]
  /\ IF w \in initialized
       THEN /\ slipped' = IF Unambiguous(count[w] - reported[w]) THEN slipped
                                                                 ELSE slipped \cup {w}
            /\ UNCHANGED offset
       ELSE /\ offset' = [offset EXCEPT ![w] = Low16(count[w]) - count[w]]
            /\ UNCHANGED slipped
  /\ UNCHANGED count

Next ==
  \/ \E w \in Wheels, d \in Moves : Move(w, d)
  \/ \E w \in Wheels : HandleFrame(w)

Spec == Init /\ [][Next]_vars

-----------------------------------------------------------------------------
TypeOK ==
  /\ count \in [Wheels -> Int] /\ encoderFull \in [Wheels -> Int]
  /\ reported \in [Wheels -> Int] /\ offset \in [Wheels -> Int]
  /\ initialized \subseteq Wheels /\ updated \subseteq Wheels
  /\ slipped \subseteq Wheels
  /\ heard \subseteq Wheels /\ batch \subseteq Wheels

(* The unwrapped count follows the wheel tick by tick, across any number of *)
(* wraps of the 16-bit register in either direction and any loss of frames, *)
(* as long as the wheel never turned by half the register's range between   *)
(* two frames that were handled (_extend_encoder).                          *)
EncoderTracks ==
  \A w \in initialized \ slipped : encoderFull[w] = reported[w] + offset[w]

(* Even a wheel that did turn too far unseen stays right modulo 2^16: the   *)
(* count jumps by whole ranges, so later differences are exact again.       *)
EncoderCongruent ==
  \A w \in initialized : Low16(encoderFull[w]) = Low16(reported[w])

(* A publication draws on a frame of every wheel handled since the one      *)
(* before: the batch is restarted with it, so a wheel that falls silent     *)
(* stops the feedback instead of having its last speed repeated             *)
(* (_handle_frame).                                                         *)
PublishedIsFresh == batch = Wheels

==============================================================================
