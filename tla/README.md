# Verification of the R2 robot's software

TLA+ models of the robot's own control code, checked by TLC on small instances
and, for the safety properties, proved by TLAPS for every value of the
constants. `PROJECT.json` lists the components, runs, mutants, source lines,
hazards, findings and theorems; this file explains them.

## 1. The system

The robot drives a four-wheel omnidirectional chassis over CAN. One mission
script starts everything; ROS 2 nodes (each a Python process with one rclpy
executor thread and at most one worker thread) do the work.

    r2_run.sh --runs--> can_command.py        (bring up can0)
              --runs--> wait_lidar_gate.py    (wait for a hand over the lidar)
              --runs--> ros2 launch align_once.launch.py  (twice)
              --cansend-> arm and wheels      (pick, home, rotate, pick)

    align_once.launch.py starts
       align_to_obstacles.py --/cmd_vel--> chassis_can_driver.py --CAN--> wheels
              ^      ^                          |      ^                    |
              |      +--------/odom---------+   |      +---- /odom ---+     |
         lidar serial                       |   +--current_velocity-> | <---+ CAN status
         port or /scan                      +------ odom_calculator.py      frames
                                                        ^ IMU serial port

| part | state | operations | what is hard |
|---|---|---|---|
| `chassis_can_driver.py`, commands | `target_cmd`, `last_cmd_time`, `can_socket`, `_running` | `cmd_vel_callback`, send timer, receive thread, reconnect, `destroy_node` | `can_socket` is shared by two threads without a lock; a cycle is four frames and can fail or be interrupted between them |
| same, heading hold | `current_yaw`, `last_yaw_time`, `yaw_lock` | `odom_callback`, `_apply_heading_hold`, `_reset_heading_hold` | stale headings, locks that outlive a turn |
| same, feedback | `wheel_states`, `updated_wheels_since_publish` | `_handle_frame`, `_extend_encoder` | lost frames, wraps of a 16-bit register |
| `wait_lidar_gate.py` | `low_since`, `near_until`, `armed` | one loop over lidar turns | N/A readings, interrupted holds, time between scans |
| `align_to_obstacles.py` | distances and their times, heading lock, `result`, `stop_sent` | serial worker, `on_scan`, `on_odom`, `on_control`, `finish`, exit clauses of `main` | worker and control loop share three attributes without a lock; data of any age; Ctrl-C and context shutdown anywhere |
| `odom_calculator.py` | pose, wheel velocity, IMU yaw | velocity callback, IMU thread, 30 Hz update | IMU gaps, velocities that stop coming |
| `r2_run.sh` | step of the mission | runs the programs above in order | what an exit status means, wheels commanded by two senders |
| `direction.py` | byte buffer, current turn | resynchronise, check, split into turns | lost bytes, partial turns |
| `ldlidar_ros2`, packets | parser state, bytes counted, health flag (function-local statics) | `AnalysisDataPacket` | lost, damaged and inserted bytes; a false header; a scanner that loses power |
| same, threads | points not yet in a turn, newest turn, frame flag, descriptor, exit flag | receive thread: read, parse, assemble; `main`: wait, poll, take, publish, close | turn and flag behind two mutexes; the port closed under the receive thread; reads shorter and longer than a turn |
| same, turns | one turn of points | `NearFilter`, masks, laser scan, point cloud | 0 degrees, missing points, two senses of rotation |
| `ros2_astra_camera`, start | `device_connected_`, `device_uri_`, device list; named semaphore and shared counter | query thread, hotplug callbacks, destructor, `cleanup_shm_node` | processes that are killed inside the semaphore; its name removed under those who use it |
| `approach_lidar_box_face.py`, `rgbd_object_approach.py` | target track, state of the approach | sensor callbacks, control timer | lost targets, two publishers on `/cmd_vel` |

`ldlidar_ros2` (the scanner's own node, an alternative to the script's reader of
the serial port) and `ros2_astra_camera` (a camera driver, whose start of several
cameras is the part with behaviour of its own) are third-party packages adapted
in this tree. The camera node and `odom2tf` copy messages; launch, map, urdf and
rviz files and the backups of earlier versions hold no state.

What makes each part correct: the chassis never moves on an outdated command and
is left stopped when its driver ends; heading hold never steers to a heading of
another segment or on old data; feedback is what the wheels did; the gate starts
the robot only for a deliberate hold and release; the alignment works on fresh
distances, reports success at rest and always leaves a stop behind; the scanner's node
gets back in step with the line, publishes whole turns, loses none between its
threads and ends when told to, and what it publishes is where it was measured;
cameras are tried one process at a time and all connect; odometry
follows the robot across sensor gaps; the mission's steps happen once, in order,
each after the one before succeeded.

## 2. The modules

| module | code | its properties |
|---|---|---|
| `ChassisCan` | sending, reconnecting and shutting down in `chassis_can_driver.py` | `TimeoutStops`, `ShutdownStops`, `FramesObeyLatestCommand`, `StopsOnceLinkRecovers`; broken: `ReconnectThreadAlive` |
| `DriveCommand` | one send cycle: timeout, heading hold | `NoLockAcrossTurn`, `NoStaleInput`, `WheelsFollowTwist`; broken: `FeedbackReportsMotion` |
| `WheelKinematics` | the arithmetic `DriveCommand` EXTENDS: kinematics, scaling, rounding, bytes | (through `DriveCommand`) |
| `WheelFeedback` | `_handle_frame`, `_extend_encoder` | `EncoderTracks`, `EncoderCongruent`, `PublishedIsFresh` |
| `WaitLidarGate` | `wait_lidar_gate.py` | `ArmsAfterHold`, `DropoutEndsHold`, `GateAnswers` |
| `AlignToObstacles` | `align_to_obstacles.py` | `FreshDistances`, `StopsAtExit`, `AlignedAtRest`, `EndsByTimeout` |
| `LidarProtocol` | `AnalysisDataPacket` in `ldlidar_protocol.cpp`; the line and the scanner are external | `Resynchronises`, `IntactIsReported` |
| `LidarFrames` | `Parse` and `AssemblePacket` in `ldlidar_dataprocess.cpp`, as operators on sets of points | (through `LidarDriver`) |
| `LidarDriver` | `serial_interface_linux.cpp`, the flag and mutexes of `ldlidar_dataprocess.cpp`, `ldlidar_driver_linux.cpp`, `main` of `demo.cpp`; EXTENDS `LidarFrames` | `NothingStranded`, `FrameIsOneTurn`, `AbortsOnlyAtShutdown`, `EndsOnShutdown`, `KeepsMailbox` |
| `FrameMailbox` | abstract: what node and driver promise about frames | implemented by `LidarDriver` |
| `LaserScan` | `NearFilter` in `tofbf.cpp`; masks, laser scan and point cloud in `demo.cpp` | `FilteredByCluster`, `ScanShowsCloud`, `SectorsHold`; broken: `ManyPointsKept` |
| `AstraStartup` | `ob_camera_node_factory.cpp`, `ob_context.cpp`, `clean_up_shm_node.cpp` | `StartsAlone`, `UnitPerFault`, `AllConnect` |

Every module with a specification of the code has a `MC...` module with its
`.cfg` files and its proofs in a
`..._proofs` module, `LidarProtocol` and `LaserScan` theirs in one, `LidarData_proofs`. Operators commented "Variant with a
bug" are not part of any specification: each is what a plausible slip in one
operation would look like, and the mutant runs put it in that operation's place
to see that a property notices.

**Conventions.** A thread is an entry of `pc`; a program point stands before
each access to an attribute another thread may change, so each step is one such
access with the local work around it. Python's interpreter lock makes one
attribute access indivisible and orders all of them; no weaker memory model
applies. Callbacks of one node run on one executor thread, each to its end.
Time is a `Tick` that ages every time stamp; an age saturates just above the
largest bound it is compared with, which keeps the state space finite without
cutting off any behaviour. A timer that is due fires before the next tick, in
keeping with periods of 50 ms and more against callbacks of microseconds; in
`ChassisCan` this holds only while the link is healthy, since a blocking send
can delay the executor.

**ChassisCan.** The points of `main` are the executor (`spin`), the loop of four
sends (`check`, `send`: the two reads of `can_socket` in `_send_frame`),
`_close_can_socket` (`closeCheck`, `close`, `closeSet`) and `destroy_node`
(`destroy`, `join`); those of `recv` are the loop of `_recv_loop` and the same
close. `canSocket` is `"None"`, `"open"`, or `"closed"` (the object whose
`close()` was called and which the attribute still names). `OSError` leads to
the code's except clauses, the `AttributeError` of a `None` socket to nobody's:
it ends the receive thread (`dead`), leaves `spin()` for `destroy_node`, or ends
the process from within `destroy_node` (`crashed`). `healthy` is the CAN
interface: while it is not, any call may fail; `motor[w]` is the command the
last frame wheel `w` got was computed from, initially anything, since an earlier
process may have left the wheels turning. `Interrupt` is Ctrl-C at any point of
the executor thread until `destroy_node` has begun.

**DriveCommand.** A cycle is one step, as callbacks and timer share a thread.
Headings are `YawSteps` positions of the circle with the code's `normalize_angle`.
Twists are integers in the units a wheel contributes, so that the four
combinations of `_inverse_kinematics` are exact; twists smaller than one unit,
which the final `round` turns into a stop, are below this resolution; the scale to the peak, Python's
rounding to even, the clamp and the byte are computed as in the code. `turned` is
a history variable: a rotation was commanded since the lock was taken. Heading hold
is enabled, as it is by default; with `enable_heading_hold` false `_apply_heading_hold`
returns every command as it is (lines 315-316) and never locks.

**WheelFeedback.** One step handles one frame under `state_lock`. Wheels turn
unseen between frames, which is where lost frames come in; `slipped` remembers
which wheel moved by half the register's range or more between two frames that
were handled.

**WaitLidarGate.** A reading per side is N/A or its order to the threshold; the
module covers each statement of the loop. Time passes between scans in any amount,
so a scan gap longer than the hold is included. That
the start needs both sides far is the guard of `AwaitRelease` itself and no property.

**AlignToObstacles.** What the target directions' distances amount to is `"NA"`
(one is missing), `"off"` or `"ok"` (all within tolerance); the heading is `"ok"`
or `"off"` against `lock_yaw`. `testTime`, `age` and `copy` are the reads of the
worker's attributes in `get_distances`; a `None` in the last two is the
`TypeError` that only the finally clause sees. `finish` called from the timeout,
from an error and from Ctrl-C runs `get_distances` again, as the code does.
`usedAge` and `serialAge` are history variables with the true age of the data, and
`untimely` one for a Ctrl-C between a publish and the clearing of `stop_sent`, where the
final stop is a no-op, or in the finally clause, which it ends. `StopsAtExit` covers
every other Ctrl-C and every exception, with the context up; in the two excluded
cases the chassis driver's `command_timeout` stops the wheels.

**LidarProtocol.** One action per state of the parser and what it looks for; a
call is one step. Bytes are the header, the three packet types after it, and any
other, since the parser distinguishes no more; a payload may contain all of them.
The CRC is its outcome: right for a packet that came whole, either otherwise.
External actions deliver, damage, insert and lose a byte, and restart the scanner
in the middle of a packet, which the parser's statics do not notice. `whole`,
`before`, `due` and `clean` are history variables.

**LidarDriver.** A point is its number in the order of measurement, and its angle
the number modulo a turn, which is all `AssemblePacket` looks at; the vector of points not yet in a frame is always in that
order, so it is a set. The points of
the receive thread `rx` are the test of the exit flag, the read with everything
up to `SetLaserScanData`, and `SetFrameReady`; those of `main` are the steps that
touch what the other thread touches: the flag's test, its reset, the copy, and
the three steps of `Close`. A descriptor of -1 reaching `FD_SET` is undefined:
it reads nothing or aborts (`RxAborts`). `Parse`'s test whether a packet is plausible
(`ldlidar_dataprocess.cpp:91`) is taken together with the loss of packets; that a packet
it throws away still sets `speed_` and the health flag makes no difference here. The noise filter is reduced here to the one
thing that matters to a turn's end, whether it leaves anything (`Seamless`,
`vanish`). `made`, `got` and `heard` number the frames and remember the points.

**LaserScan.** Angles are steps of the scanner, so a turn is a function from the
angles that have a point; distance thresholds (5 m, 3 %) and intensities (15,
220) are the code's. Ranges stay in mm; a point of the cloud is its angle for the robot,
distance and intensity. The names begin with `Scan`, as the proofs EXTEND this module and
`LidarProtocol` together. The three functions run in the order of
`main`; the first turn is published by neither. A point may come at no distance, which is
also what the filter makes of one; only its intensity tells them apart.

**AstraStartup.** One query thread and one OpenNI event thread per process; the
points of the former are the loop, `sem_wait`, the probe of a camera, the start,
the counting, the guard's `sem_post` and its `sem_unlink`. A semaphore is an
object that outlives its name while some process has it open, so two of them can
exist at once. Reading and writing the counter is one step: no two processes
get there at once (`StartsAlone`), but when something disturbed the semaphore, and
`StartsAlone` and `AllConnect` state nothing of those behaviours. A failed `shmget` or
`shmat` is a start that is not counted (`CountFails`). `cleanup_shm_node` is two steps, the
`sem_open` that may create a semaphore of value 0 and the removal.

## 3. The runs

| run | constants | result |
|---|---|---|
| `chassis` | 2 wheels, commands Stop/Drive/Turn, timeout 1, period 1 | all hold, 153 000 states |
| `chassis_reconnect` | 2 wheels, 2 commands | `ReconnectThreadAlive` violated |
| `drive` | 6 headings, limit 100, twists straight, lateral, diagonal, rotating, too slow and above the limit | all hold, 18 500 states |
| `drive_feedback` | same | `FeedbackReportsMotion` violated |
| `feedback` | 2 wheels, moves of 16 384, 32 768 and -32 768 ticks across wraps | all hold, 55 000 states |
| `gate` | hold 4, grace 2, delay 2 ticks | all hold, 1 200 states |
| `align` | all three sources, data timeout 1, timeout 2, control period 1 | all hold, 811 000 states |
| `lidar_packets` | the real lengths: 47, 4 and 23 bytes | all hold, 145 000 states |
| `lidar` | 9 points a turn, 2 a packet, window 3, reads of up to 3 packets, packets 3 to 14 | all hold, 135 000 states |
| `lidar_scan` | 5 angles, groups of more than 3 points unfiltered, points at no distance | all hold, 195 000 states |
| `lidar_ring` | same | `ManyPointsKept` violated |
| `astra_startup` | 2 processes and cameras, 1 fault | all hold, 100 000 states |

Why the bounds are enough: two wheels already give a cycle with a first and a
last frame and a failure between them, two worker threads are all there are, and
every time stamp is compared with one constant, so what matters is below, at and
above it. The gate's hold is longer than its grace, as in the code (2 s and
1 s). `WheelFeedback` bounds the tick counts by one wrap in each direction
(`MaxCount`, `MaxDrift`); its proofs need no bound. `LidarProtocol`
needs no bound. In `LidarDriver` eleven packets are over two turns of nine points, whose
bounds do not fall together with those of packets, so that
a turn is emitted, one is dropped or replaced and one is left over, from a start
in the middle of a turn; a read of up to three of a turn's four to five packets ends anywhere in a turn, before, at and after its end
(`MaxRead`, `FirstPacket`, `LastPacket` are the bounds).
`Arrivals` bounds the loss: no two packets in a row. The code itself has that
limit: a gap that hides all of the 20 degrees on one side of 0, three packets of an LD06 and two
of the instance, hides the end of the turn. `TwoTurnsAssumption` is what the limit of 1.4 turns needs for it: a turn
and one of which every other packet is lost are too long for one (450 points in packets of 12 are).
Five angles and `Many` 3 give `LaserScan` groups below,
at and above the limit, gaps, groups across 0 degrees and a full circle.
`MaxFaults` 1 lets one crash, signal, failed `sem_open` or start, unplugging or
uncounted start or early end happen anywhere, each of which is cleaned up before
`AllConnect` speaks again; two processes already give a first and a last. A disturbed
system counts as cleaned up only when no process is left, and one fault ends one
process: the crash that is cleaned up is that of a process running alone. What
`StartsAlone` and `AllConnect` say of killed processes is about the time after the cleanup.
`UnitPerFault` counts every fault alike; only a signal in `sem_wait` can really add a
unit, so for the other faults the bound is not tight.

The processes end, so their configurations do not check deadlock, nor does
`lidar_scan`, which looks at two or three function calls, or `astra_startup`, where
everything may be connected or, after a crash, wait for ever; `drive`, `feedback`
and `lidar_packets` run for ever and check it.

**Fairness.** `ChassisCan`: weak fairness of both threads (they are scheduled by
the operating system) and of time; no fairness of commands, of Ctrl-C or of the
link's repair - recovery is stated under a link that stays up. `WaitLidarGate`:
weak fairness of scans, time and the sleep; that the lidar keeps turning is the
condition under which the script can answer at all. `AlignToObstacles`: weak
fairness of the executor, of the worker in the middle of its assignments, and
strong fairness of time, since a tick waits for callbacks that can always be
preceded by another message; neither lidar nor odometry need ever say anything.
`EndsByTimeout` is about nodes that have a timeout: `r2_run.sh` passes `timeout_s:=0`,
with which the code promises no end, and neither does the property.
`LidarDriver`: weak fairness of each thread; `pselect` returns after 100 ms at the
latest, so the receive thread is never stuck, and no packet need ever come.
`AstraStartup`: weak fairness of both threads of a process and of the rest of a cleanup
that has begun; strong fairness of `sem_wait`, since a process that finds no camera
sleeps 100 ms with the semaphore free while its `sem_post` has woken a waiter. None of
launches, ends, plugging or faults.

**Refinement.** `KeepsMailbox` is `FrameMailbox!Spec` under the mapping of
`closed` to `main` having left its loop; `made` and `got` are the same: frames
replace each other, a frame taken is the newest at the moment of the copy, and by the
mailbox's weak fairness the newest frame is taken in the end unless another
replaces it or the node ends. That is more than `NothingStranded`: it also needs
the flag to be raised after the turn and the loop to ask again.

## 4. Findings

1. `ReconnectThreadAlive` (`chassis_can_driver.py:385`): the receive thread
   tests `self.can_socket` and reads it again; the executor's close after a send
   error can come between, and the thread that reconnects dies of
   `AttributeError`, while line 230 promises an automatic reconnect. From then
   on no frame is sent: the recovery property is stated for a thread that
   survived.
2. `FeedbackReportsMotion` (`:582`): since the lateral signs of the right wheels
   changed, the lateral speed published on `current_velocity` is 0 for every
   twist. The backup `chassis_can_driver.py.bak_before_vy_20260713_195932`
   has the signs for which the same feedback formula is right.
   `FeedbackLosesLateralSpeed` proves the extent of it. If the new signs are
   right for the wheels, it is the feedback that has to follow them.
3. `ManyPointsKept` (`tofbf.cpp:129`): near points that close the circle without
   an edge are one group, the first and the last; joining the last to the first
   and erasing the last erases it whole. A robot surrounded by one smooth surface
   within 5 m gets no frame at all (`ldlidar_dataprocess.cpp:182`), although
   line 134 promises that many points are not filtered; `slbf.cpp` guards the
   same join.

Divergences without a run, met while modelling:

- `wait_lidar_gate.py:5` asks for front and left both below the threshold for the
  hold; one side's hits renew the grace of the other (`:50`, `:98-99`), which may
  answer N/A throughout: a hand over one side of the lidar arms the gate.
- `align_to_obstacles.py:75` documents a freshness timeout for scan and odometry;
  `odom_time_monotonic` (`:328`) is stored and never read, so when odometry stops the
  robot is turned by the last heading for as long as the alignment lasts.
- `NearFilter` has two rules for neighbours. Within the turn a group breaks at a gap `>` 2
  degrees or a difference `>` 3 % (`tofbf.cpp:108-109`); across 0 degrees the groups are
  joined at a gap `<` 2 degrees and a difference `<` 3 % (`:126-127`). A pair exactly at a
  limit is one cluster, or two, depending on where on the circle it lies, and with it the
  decision whether it is noise. In the instance, on five angles: 1000 mm of
  intensity 10 at 0 and 1020 mm of intensity 230 at 2 are one group, both of which
  are filtered; at 4 and 1 they are two, and the bright one is kept. `FilteredByCluster`
  states the rule with these two limits (`Edges`), so it allows for the difference.
- `README.MD` of the camera package says to run `cleanup_shm_node` before the launch,
  for a semaphore that was left behind; `multi_dabai_pro.launch.xml:12` and its
  relatives start it together with the cameras. Its own `sem_open` creates a
  semaphore of value 0 for a moment, and a camera that opens that one waits for ever.
- A camera unplugged while its node is constructed is taken for connected
  (`ob_camera_node_factory.cpp:97`), and a start that failed is counted as one
  (`:161-172`).
- Points the filter removed are NaN in the laser scan and at the robot's own origin
  in the point cloud; a sector given as 0 to 360 degrees normalises to the one ray at 0;
  a beam's intensity may be that of another point than its range.

## 5. What is proved

All theorems hold for every value of the constants under the named assumptions
(a stop is a command, at least one wheel, timeouts are naturals, periods are
positive, `None` is none of the other values, `max_motor_speed_cmd` is at most
127 so that it fits the byte, more than one camera process, the window around 0 degrees is
longer than a packet and shorter than half a turn, distances and intensities are naturals).

- `ChassisCan_proofs`: type correctness; `TimeoutStops`; `ShutdownStops`;
  `FramesObeyLatestCommand`. The stopping properties are not inductive: they do
  not say how far a cycle has come. Their strengthening `IInv` says, for a link
  that never failed: until `destroy_node` has sent its stops the socket is open
  and the receive thread in its loop (`Connected`), so no send fails; the wheels
  before `next` obey `frame`, which is a stop once the command has expired or
  `destroy_node` has begun (`CycleInv`); from `join` on all wheels are stopped
  (`EndedStopped`); and a command that has been too old for longer than since
  the last cycle began finds them stopped (`Late`). `FramesObeyLatestCommand`
  needs only `FrameInv`: a payload on its way is the newest command or a stop.
- `DriveCommand_proofs`: type correctness; `NoLockAcrossTurn`; `NoStaleInput`,
  strengthened to `AgeInv`, which counts from the last cycle (`sendAge`);
  `WheelsFollowTwist`; and `FeedbackLosesLateralSpeed`, pure arithmetic.
  `WheelsFollowTwist` is arithmetic too, in lemmas that leave one nonlinear fact each to
  the prover: a rounded quotient is off by half the divisor at most (`Rounding`),
  so a scaled wheel fits the limit, keeps its sign, and is not 0 for the fastest one
  (`ScaledWheel`), two of them keep their proportion but for half of each (`Proportion`),
  and the byte gives back the speed (`ByteRoundTrip`). That the twist of no motion is the only one of
  which all wheels stand still is `Standstill`.
- `WheelFeedback_proofs`: type correctness; `EncoderTracks` and
  `EncoderCongruent` from lemmas on `Extend` (`ExtendFollows`: a movement within
  half a range is added exactly; `ExtendCongruent`: the result always has the
  low bits of the reading); `PublishedIsFresh` from `heard = updated`.
- `WaitLidarGate_proofs`: type correctness; `ArmsAfterHold` and `DropoutEndsHold`,
  from `ClockInv`: the script's clocks never run ahead of what the scans said.
- `AlignToObstacles_proofs`: type correctness; `FreshDistances`, from the order in
  which the worker stores and `get_distances` reads (`FreshInv`: the stored time is
  never newer than the data); `StopsAtExit` and `AlignedAtRest`, from `StopInv`:
  `stop_sent` may be believed everywhere but between a publish and its clearing.
- `LidarData_proofs`, on `LidarProtocol`, for any three packet lengths in the order of the code's:
  type correctness; `ResynchronisesAlways`, whose invariant bounds how far into a
  false packet the parser can still be by the clean bytes since; and
  `IntactAlwaysReported`, whose invariant says that a parser which saw a packet
  begin is as far into it as the scanner.
- `LidarData_proofs`, on `LaserScan`, for any number of steps to a turn and any turns and
  settings: all that its run checks. `ScanInv` says what each of the three
  functions has made of the turn; the properties follow from it by what the functions are.
  `SectorsAlwaysHold`: `InRange` on normalised angles is the sweep around the circle.
  `ScanAlwaysShowsCloud`: a point's index is within one increment of its angle (`Index`
  rounds up), whichever way the beams are counted, so each range is from a point in its
  direction and the nearest point of a beam hides the others. `FilterFollowsClusters`: the
  code compares neighbours in a row and joins the ends, the property goes around the
  circle, with the code's stricter limits for the pair across 0 degrees. A near point is an edge exactly when a group begins behind it or, for the
  last one, when the ends do not join; so two points with no edge between them
  are `Together` in a group or in two groups that are joined, and `Groups` are the clusters,
  unless the near points close the circle without any edge (finding 3).
- `LidarDriver_proofs`: `NothingStranded` and `AbortsOnlyAtShutdown` from one inductive
  invariant, which adds that the descriptor is open while `main` asks for frames, that the
  receive thread does not run before it is, and that `main` leaves its loop only when
  told to (`Opened`); `ImplementsMailbox`, by which initial states map to
  initial states of `FrameMailbox` and steps to steps or stutters; `FrameIsHead`, about
  `Assembled` for every set of points; type correctness and `FrameIsOneTurn`, from
  `FrameInv`: the points not yet in a frame lie behind those that are, by whole
  turns (`Sorted`), and of those since the first no two packets in a row are missing, the
  one just lost included (`NoTwoLost`). From such points `CutAtTurns` shows that a turn's end is
  always seen, as at least one packet arrived on either side of 0 degrees, that it is seen nowhere else,
  and that two turns are too long for one, so that what is emitted is one turn.
- `AstraStartup_proofs`, for any number of cameras: `StartsAlone`. `Inv` says of an
  undisturbed system that either every camera is connected, so that nobody looks
  for one, or there is a single semaphore whose unit is with whoever is inside
  (`SemInv`), the segment counts exactly the connected cameras (`CountInv`) and no
  process counts twice, since its list holds its own camera once (`ListInv`). The
  step from the one to the other is the last count, by cardinality. That a name
  is always free for a new semaphore is `FreshIsFree`, a pigeonhole argument.
  `UnitPerFault`, of all systems, disturbed or not, is `UnitInv`, which adds the types:
  every step that gives a semaphore a unit takes it from a holder, or spends a fault.

Only model-checked: the liveness properties (`StopsOnceLinkRecovers`,
`GateAnswers`, `EndsByTimeout`, `EndsOnShutdown`, `AllConnect` and the fairness half of
`KeepsMailbox`), since fairness and ENABLED are beyond the prover. Every invariant of a
passing run is proved.

## 6. What is not modelled, and why

Left out of the modelled parts: the wheel PID (off by default and in every
launch file), heading hold switched off by parameter, the size of the alignment's velocities, floating-point rounding
before the final `round`, log messages and argument parsing; the scanner's network
transports (the node opens a serial port), its Windows files, the filters of other
scanners (`slbf.cpp`, `sl_transform.cpp`, `NoiseFilter`), its time stamps; the
cameras' streams, UVC, services and parameters, and the data races on `device_`.

Not modelled at all, and what a model would have to say:

- `r2_run.sh`: a sequence of external programs. What could go wrong is what their
  exit statuses mean (`ros2 launch` stays up after the alignment has ended) and wheels
  commanded by raw frames next to a driver that may still be sending; both are listed
  as hazards.
- `odom_calculator.py`: integration in floating point. IMU gaps and velocities
  that stop coming are listed as hazards.
- `direction.py`: a second parser of the packets of `LidarProtocol`, by searching a
  buffer; the gate and the alignment take its distances as inputs.
- `approach_lidar_box_face.py`, `rgbd_object_approach.py`: two more controllers on
  `/cmd_vel`, dominated by geometry and image processing.
- The rest of the camera driver: calls of a closed library and conversions of
  images.

**Size.** By lines the tree is mostly headers of others: of some 43 000 lines of C and
C++, 24 300 are `json.hpp`, 6 900 the headers of OpenNI, 1 500 `magic_enum.hpp`; of the remaining 10 000 most are camera streams, the headers of the two packages and files the
robot does not build or use. The map therefore covers about 1 100 of the C and C++ lines,
which are most of the nine C++ files it touches, and 800 of Python; widening it
to headers without behaviour would say nothing.
