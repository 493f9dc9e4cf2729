---------------------------- MODULE MCLaserScan ----------------------------
(* Instances of LaserScan for TLC: every turn of points over a small circle. *)
EXTENDS LaserScan

\* No return, two surfaces 2% apart of which one is bright, one behind, one far.
MCSurfaces == {[dist |-> 0, int |-> 0], [dist |-> 1000, int |-> 10], [dist |-> 1020, int |-> 230],
               [dist |-> 2000, int |-> 10], [dist |-> 6000, int |-> 10]}

\* No return, something bright at no distance, a bright surface.
MCNoDistance == {[dist |-> 0, int |-> 0], [dist |-> 0, int |-> 230], [dist |-> 1020, int |-> 230]}

\* Any two angles may be missing, their packet lost.
TurnsOver(points) ==
  UNION {[angles -> points] : angles \in {a \in SUBSET (0..(Circle - 1)) :
                                             Cardinality(a) >= Circle - 2}}
MCTurns == TurnsOver(MCSurfaces) \cup TurnsOver(MCNoDistance)

\* The robot's launch files count counterclockwise and keep all or 270..90.
MCSettings ==
  {[dir |-> TRUE,  keep |-> {<<4, 1>>}, crop |-> {}],
   [dir |-> TRUE,  keep |-> {}, crop |-> {<<1, 2>>}],
   [dir |-> FALSE, keep |-> {}, crop |-> {}]}

============================================================================
