---------------------------- MODULE LidarFrames ----------------------------
(***************************************************************************)
(* How LdLidarDataProcess cuts the stream of laser points into turns.      *)
(* The points are numbered in the order the scanner measures them, Turn of *)
(* them to a revolution: the angle of point p is p % Turn.  The vector of  *)
(* points not yet in a frame is always in that order, so it is a set here. *)
(***************************************************************************)
EXTENDS Integers, FiniteSets, FiniteSetsExt

CONSTANTS
  Turn,       \* lidar_measure_freq_ / GetSpeed(), 450 for an LD06 at 10 Hz
  PerPacket,  \* POINT_PER_PACK, 12
  Window      \* points in the 20 degrees on either side of 0, 25

ASSUME TurnAssumption   == Turn \in Nat /\ PerPacket \in Nat \ {0} /\ Window \in Nat \ {0}
ASSUME WindowAssumption == 2 * Window < Turn /\ PerPacket < Window

\* A turn and another one of which every other packet is lost are too long for one.
ASSUME TwoTurnsAssumption ==
  \A c \in 0..Turn : 2 * c >= Turn - PerPacket => 5 * (Turn + c) > 7 * Turn

Angle(p)  == p % Turn
TurnOf(p) == p \div Turn

Before(vec, p) == {q \in vec : q < p}

\* A point just past 0 degrees behind one just before begins a turn.
WrapAt(vec, p) ==
  /\ Angle(p) < Window
  /\ Before(vec, p) # {} /\ Angle(Max(Before(vec, p))) >= Turn - Window

\* Variant with a bug: what is more than a turn counts as a turn.
TooLongByTwo(count) == count > 2 * Turn

TooLong(count)  == 5 * count > 7 * Turn
Overfull(count) == count > 2 * Turn

\* The noise filter may return nothing for a turn without a gap (LaserScan).
Seamless(points) == Cardinality(points) >= Turn /\ points = Min(points)..Max(points)

(* AssemblePacket: walk over vec, the points not yet in a frame, up to the  *)
(* first that ends a turn.  A frame the filter leaves empty does not end    *)
(* one: the walk goes on over the next turn with its points kept, and they  *)
(* are put into the next frame once more; a set has them once.              *)
Assembled(vec, vanish) ==
  LET Count(p) == Cardinality(Before(vec, p))
      Drops(p) == WrapAt(vec, p) /\ TooLong(Count(p))
      Emits(p) == WrapAt(vec, p) /\ ~TooLong(Count(p)) /\ ~(vanish /\ Seamless(Before(vec, p)))
      Stops    == {p \in vec : Emits(p) \/ Drops(p) \/ Overfull(Count(p) + 1)}
      stop     == Min(Stops)
      used     == Before(vec, stop) \cup (IF Emits(stop) \/ Drops(stop) THEN {} ELSE {stop})
  IN  IF Stops = {} THEN [frame |-> {}, rest |-> vec]
      ELSE [frame |-> IF Emits(stop) THEN used ELSE {}, rest |-> vec \ used]

\* The points of the k-th packet from point first on.
Packet(first, k) == (first + (k - 1) * PerPacket)..(first + k * PerPacket - 1)

\* Variant with a bug: one packet more than was read.
ParsedPastEnd(first, n, arrived) == UNION {Packet(first, k) : k \in arrived \cup {n + 1}}

\* Parse: the points of the packets that arrived of the next n.
Parsed(first, n, arrived) == UNION {Packet(first, k) : k \in arrived}

=============================================================================
