------------------------------ MODULE LaserScan ------------------------------
(***************************************************************************)
(* What the laser node makes of one turn of points: the noise filter       *)
(* (Tofbf::NearFilter), the laser scan (ToLaserscanMessagePublish) and the *)
(* point cloud (ToSensorPointCloudMessagePublish).  Angles are counted in  *)
(* steps of the scanner, Circle to a turn, clockwise as it measures them;  *)
(* a turn of points is a function from the angles that have a point to its *)
(* distance in mm and its intensity.                                       *)
(***************************************************************************)
EXTENDS Integers, FiniteSets, FiniteSetsExt

CONSTANTS
  Circle,   \* 360 / (curr_speed_ / scan_frequency_), 450 at 10 Hz
  Many,     \* groups of more points than this are not filtered, 15
  Turns,    \* the turns of points to look at
  Settings  \* the LaserScanSettings: [dir, keep, crop], angles as of the robot

Point == [dist : Nat, int : Nat]

ASSUME CircleAssumption == Circle \in Nat \ {0} /\ Many \in Nat
ASSUME TurnsAssumption ==
  \A turn \in Turns :
    DOMAIN turn \subseteq 0..(Circle - 1) /\ turn \in [DOMAIN turn -> Point]
ASSUME SettingsAssumption ==
  Settings \subseteq [dir  : BOOLEAN,
                     keep : SUBSET (Int \X Int),
                     crop : SUBSET (Int \X Int)]

VARIABLES
  setting,   \* LaserScanSetting
  first,     \* first_scan, of both functions: main calls them in turn
  src,       \* the turn of points, as it was measured
  scan,      \* the turn, filtered and sorted by stamp again
  ranges,    \* LaserScan.ranges, Nothing before it is published
  cloud,     \* PointCloud.points and intensity, Nothing before it is published
  step       \* the next of the three functions

scanVars == <<setting, first, src, scan, ranges, cloud, step>>

NearLimit == 5000       \* mm
GapLimit  == 2          \* angle_delta_up_limit
Low       == 15         \* intensity_low_
Single    == 220        \* intensity_single_
Nothing   == <<>>
NaN       == -1
Filtered  == [dist |-> 0, int |-> 0]

-----------------------------------------------------------------------------
(* Tofbf::NearFilter.                                                       *)
Pending(f) == {a \in DOMAIN f : f[a].dist < NearLimit}

\* The distances of neighbours differ by more (less) than 3% of the former's.
Apart(p, q)  == 100 * (IF p.dist < q.dist THEN q.dist - p.dist ELSE p.dist - q.dist) > 3 * p.dist
Within(p, q) == 100 * (IF p.dist < q.dist THEN q.dist - p.dist ELSE p.dist - q.dist) < 3 * p.dist

\* The angles at which a group begins, and the group that begins at one.
Starts(f) ==
  {a \in Pending(f) :
     LET before == {b \in Pending(f) : b < a}
     IN  before # {} => \/ a - Max(before) > GapLimit
                        \/ Apart(f[Max(before)], f[a])}

Group(f, starts, s) ==
  {a \in Pending(f) : a >= s /\ \A t \in starts : t > s => a < t}

\* Does the last group go on across 0 degrees?
Joins(f) ==
  LET front == Min(Pending(f))
      back  == Max(Pending(f))
  IN  front + Circle - back < GapLimit /\ Within(f[back], f[front])

\* Variant with a bug: the groups on either side of 0 degrees stay two.
GroupsApart(f) == LET starts == Starts(f) IN {Group(f, starts, s) : s \in starts}

\* The last group is put in front of the first and erased; when it is the first
\* itself, nothing is left.
Groups(f) ==
  LET starts == Starts(f)
      all    == {Group(f, starts, s) : s \in starts}
      front  == Group(f, starts, Min(starts))
      back   == Group(f, starts, Max(starts))
  IN  IF Pending(f) = {} \/ ~Joins(f) THEN all
      ELSE IF front = back THEN {}
      ELSE (all \ {front, back}) \cup {front \cup back}

\* Is a group of points taken for an obstacle, not for noise?
Solid(f, g) ==
  LET n == Cardinality(g)
      c == MapThenSumSet(LAMBDA a : f[a].int, g)
  IN  \/ n > Many
      \/ (n < 3 => c \div n >= Single) /\ c > Low * n

NearFilter(f) ==
  LET groups == Groups(f)
      noise  == UNION {g \in groups : ~Solid(f, g)}
  IN  [a \in (DOMAIN f \ Pending(f)) \cup UNION groups |->
         IF a \in noise THEN Filtered ELSE f[a]]

-----------------------------------------------------------------------------
(* The angles of a point for the robot, and the sectors that are masked.    *)
RobotAngle(a) == IF setting.dir THEN (Circle - a) % Circle ELSE a

\* IsAngleWithinRangeDeg: a sector may go across 0 degrees.
InRange(angle, range) ==
  LET low  == range[1] % Circle
      high == range[2] % Circle
  IN  IF low <= high THEN low <= angle /\ angle <= high
                     ELSE low <= angle \/ angle <= high

\* Variant with a bug: the sectors are compared with the scanner's angles.
MaskedAsMeasured(a) ==
  \/ setting.keep # {} /\ \A range \in setting.keep : ~InRange(a, range)
  \/ \E range \in setting.crop : InRange(a, range)

\* ShouldMaskAngle; crop is empty when enable_angle_crop_func is off.
Masked(a) ==
  \/ setting.keep # {} /\ \A range \in setting.keep : ~InRange(RobotAngle(a), range)
  \/ \E range \in setting.crop : InRange(RobotAngle(a), range)

-----------------------------------------------------------------------------
Beams == Cardinality(DOMAIN scan)

\* Variant with a bug: as many increments as beams.
IndexByBeams(a) == (a * Beams + Circle - 1) \div Circle

\* ceil((angle - angle_min) / angle_increment), with Beams - 1 increments a turn.
Index(a) == (a * (Beams - 1) + Circle - 1) \div Circle

\* Variant with a bug: the scan is published as it was measured.
BeamUnturned(a) == Index(a)

\* The beam of a point; the scan is turned round when it counts clockwise.
Beam(a) == IF setting.dir THEN Beams - Index(a) - 1 ELSE Index(a)

HasRange(a) == scan[a] # Filtered /\ ~Masked(a)

\* A beam has the smallest range of its points, NaN counting for none.
Nearest(j) ==
  LET points == {a \in DOMAIN scan : Beam(a) = j /\ HasRange(a)}
  IN  IF points = {} THEN NaN ELSE Min({scan[a].dist : a \in points})

ScanInit ==
  /\ setting \in Settings /\ first \in BOOLEAN
  /\ src = Nothing /\ scan = Nothing /\ ranges = Nothing /\ cloud = Nothing
  /\ step = "filter"

\* AssemblePacket hands on the filtered turn unless it is empty.
Filter(turn) ==
  /\ step = "filter"
  /\ src' = turn /\ scan' = NearFilter(turn)
  /\ step' = IF DOMAIN scan' = {} THEN "done" ELSE "scan"
  /\ UNCHANGED <<setting, first, ranges, cloud>>

\* Nothing is published of the first turn, of a single point, or at no speed.
ToLaserscanMessagePublish(spinning) ==
  /\ step = "scan" /\ step' = "cloud"
  /\ ranges' = IF first \/ Beams <= 1 \/ ~spinning THEN Nothing
               ELSE [j \in 0..(Beams - 1) |-> Nearest(j)]
  /\ UNCHANGED <<setting, first, src, scan, cloud>>

\* A filtered point is put at the robot itself, with intensity 0, a masked one nowhere.
ToSensorPointCloudMessagePublish ==
  /\ step = "cloud" /\ step' = "done"
  /\ first' = FALSE
  /\ cloud' = IF first THEN Nothing
              ELSE [a \in DOMAIN scan |->
                      IF Masked(a) THEN Nothing
                      ELSE <<RobotAngle(a), scan[a].dist, scan[a].int>>]
  /\ UNCHANGED <<setting, src, scan, ranges>>

ScanNext ==
  \/ \E turn \in Turns : Filter(turn)
  \/ \E spinning \in BOOLEAN : ToLaserscanMessagePublish(spinning)
  \/ ToSensorPointCloudMessagePublish

ScanSpec == ScanInit /\ [][ScanNext]_scanVars

-----------------------------------------------------------------------------
ScanTypeOK ==
  /\ setting \in Settings /\ DOMAIN src \subseteq 0..(Circle - 1) /\ first \in BOOLEAN
  /\ step \in {"filter", "scan", "cloud", "done"}
  /\ DOMAIN scan \subseteq DOMAIN src \/ scan = Nothing
  /\ Beams > 1 => \A a \in DOMAIN scan : Beam(a) \in 0..(Beams - 1)
  /\ ranges = Nothing \/ ranges \in [0..(Beams - 1) -> Nat \cup {NaN}]
  /\ cloud = Nothing \/ DOMAIN cloud = DOMAIN scan

\* Near points next to each other around the circle, without a beginning.
NextAround(f, a) ==
  CHOOSE b \in Pending(f) :
    \A c \in Pending(f) : (b - a - 1) % Circle <= (c - a - 1) % Circle

\* The near points that do not go over into the one that follows.  The code has two
\* rules: a pair exactly at a limit goes over, but not across 0 degrees.
Edges(f) ==
  {a \in Pending(f) :
     LET b == NextAround(f, a)
     IN  ~IF a < b THEN b - a <= GapLimit /\ ~Apart(f[a], f[b])
                   ELSE b + Circle - a < GapLimit /\ Within(f[a], f[b])}

\* The near points with no edge between them and a, on one way or the other.
Cluster(f, edges, a) ==
  LET Reaches(p, q) == \A c \in edges : (c - p) % Circle >= (q - p) % Circle
  IN  {b \in Pending(f) : Reaches(a, b) \/ Reaches(b, a)}

(* The filter decides for each near point by the cluster it belongs to, of  *)
(* which 0 degrees may be the middle; it keeps the place of every point and *)
(* touches no far one (Tofbf::NearFilter: grouping and the connection of 0  *)
(* and 359 degrees), unless the cluster closes the circle.  Where the turn  *)
(* begins matters to a cluster in one way: the two points on either side of *)
(* 0 degrees go over into each other only below both limits, as the code    *)
(* has `<` there, and `>` for a break elsewhere.                            *)
FilteredByCluster ==
  LET edges == Edges(src)
  IN  step = "scan" /\ (edges # {} \/ Pending(src) = {}) =>
        scan = [a \in DOMAIN src |->
                  IF a \in Pending(src) /\ ~Solid(src, Cluster(src, edges, a))
                    THEN Filtered ELSE src[a]]

(* "No filtering if there are many points" (tofbf.cpp:134).                 *)
ManyPointsKept ==
  LET edges == Edges(src)
  IN  step \in {"scan", "done"} =>
        \A a \in Pending(src) :
          Cardinality(Cluster(src, edges, a)) > Many => a \in DOMAIN scan /\ scan[a] = src[a]

\* Is robot angle r within one increment of beam j, the circle closed?
Towards(j, r) ==
  \E turn \in {-1, 0, 1} :
    LET off == j * Circle - (r + turn * Circle) * (Beams - 1)
    IN  -Circle < off /\ off < Circle

(* The published scan shows what the cloud shows: every finite range is a   *)
(* point of the cloud in the beam's direction, and every point of the cloud *)
(* that the filter left is seen by a beam in its direction, or hidden there *)
(* behind a nearer one; for both senses of rotation, sectors across 0       *)
(* degrees and turns with points missing                                    *)
(* (ToLaserscanMessagePublish, ToSensorPointCloudMessagePublish).           *)
ScanShowsCloud ==
  ranges # Nothing /\ cloud # Nothing =>
    LET real == {a \in DOMAIN cloud :
                   cloud[a] # Nothing /\ (cloud[a][2] # 0 \/ cloud[a][3] # 0)}
        seen == {cloud[a] : a \in real}
    IN  /\ \A j \in DOMAIN ranges : ranges[j] # NaN =>
             \E p \in seen : p[2] = ranges[j] /\ Towards(j, p[1])
        /\ \A p \in seen : \E j \in DOMAIN ranges :
             ranges[j] # NaN /\ ranges[j] <= p[2] /\ Towards(j, p[1])

\* Is a robot angle in the sector swept counterclockwise from low to high?
Swept(angle, low, high) == (angle - low) % Circle <= (high - low) % Circle

(* Exactly the points outside the sectors to keep, and inside the sectors   *)
(* to crop, are masked, in angles as of the robot: also across 0 degrees    *)
(* and whichever way the scanner turns (ShouldMaskAngle).                   *)
SectorsHold ==
  \A a \in DOMAIN cloud :
    LET angle == IF setting.dir THEN Circle - a ELSE a
    IN  cloud[a] # Nothing <=>
          /\ setting.keep # {} => \E s \in setting.keep : Swept(angle, s[1], s[2])
          /\ \A s \in setting.crop : ~Swept(angle, s[1], s[2])

=============================================================================
