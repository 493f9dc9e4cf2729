----------------------------- MODULE DriveCommand -----------------------------
(***************************************************************************)
(* What the chassis driver makes of /cmd_vel and /odom in one send cycle:  *)
(* the command timeout, heading hold and the wheel commands.  Callbacks    *)
(* and the send timer run on the one executor thread, each to its end, so  *)
(* a cycle is one step; its way onto the bus is ChassisCan's.              *)
(*                                                                         *)
(* A heading is one of YawSteps positions of the circle.  The wheel PID is *)
(* disabled by default and in every launch file, and is left out; heading  *)
(* hold is enabled, as it is by default: with enable_heading_hold false    *)
(* _apply_heading_hold returns every command as it is, and locks nothing.  *)
(***************************************************************************)
EXTENDS WheelKinematics

CONSTANTS
  CmdVel,          \* the twists /cmd_vel may carry
  CommandTimeout,  \* command_timeout, in ticks
  SendPeriod,      \* send_period, in ticks
  YawTimeout,      \* heading_hold_yaw_timeout, in ticks
  YawSteps,        \* positions of the circle
  None,            \* Python's None
  Kp, MaxWz, MinLinearSpeed, WzDeadband   \* the parameters heading_hold_*

ASSUME CmdVelAssumption == CmdVel \subseteq TwistType
ASSUME TimeAssumption ==
  CommandTimeout \in Nat /\ SendPeriod \in Nat \ {0} /\ YawTimeout \in Nat
ASSUME YawAssumption ==
  YawSteps \in Nat \ {0} /\ None \notin 0..(YawSteps - 1)
ASSUME HoldAssumption ==
  Kp \in Int /\ MaxWz \in Nat /\ MinLinearSpeed \in Nat /\ WzDeadband \in Nat

VARIABLES
  target,       \* self.target_cmd
  cmdAge,       \* ticks since last_cmd_time, saturating
  sendAge,      \* ticks since the send timer last fired
  currentYaw,   \* self.current_yaw
  yawAge,       \* ticks since last_yaw_time, saturating
  yawLock,      \* self.yaw_lock
  active,       \* self.heading_hold_active
  out,          \* the twist whose wheel commands went out last
  held,         \* history: out was corrected by heading hold
  turned        \* history: a rotation was commanded since yawLock was taken

heading == <<currentYaw, yawAge>>
lock    == <<yawLock, active>>
history == <<held, turned>>
vars    == <<target, cmdAge, sendAge, heading, lock, out, history>>

Yaw    == 0..(YawSteps - 1)
Zero   == Twist(0, 0, 0)
CmdCap == CommandTimeout + SendPeriod + 1
YawCap == YawTimeout + SendPeriod + 1

Saturating(age, cap) == IF age < cap THEN age + 1 ELSE age

\* normalize_angle: the representative in (-half, half].
NormalizeAngle(d) ==
  LET m == d % YawSteps IN IF 2 * m > YawSteps THEN m - YawSteps ELSE m

Rotating(c) == Abs(c.wz) > WzDeadband
TooSlow(c)  == c.vx * c.vx + c.vy * c.vy < MinLinearSpeed * MinLinearSpeed

-----------------------------------------------------------------------------
Init ==
  /\ target = Zero /\ cmdAge = 0 /\ sendAge = 0
  /\ currentYaw = None /\ yawAge = YawCap   \* last_yaw_time = 0.0
  /\ yawLock = None /\ active = FALSE
  /\ out = Zero
  /\ held = FALSE /\ turned = FALSE

ResetHeadingHold == yawLock' = None /\ active' = FALSE

\* Variant with a bug: the lock is left to the next send cycle.
CmdVelCallbackKeepsLock(c) ==
  /\ target' = c
  /\ cmdAge' = 0
  /\ turned' = (turned \/ Rotating(c))
  /\ UNCHANGED <<sendAge, heading, lock, out, held>>

CmdVelCallback(c) ==
  /\ target' = c
  /\ cmdAge' = 0
  /\ IF Rotating(c) THEN ResetHeadingHold ELSE UNCHANGED lock
  /\ turned' = (turned \/ Rotating(c))
  /\ UNCHANGED <<sendAge, heading, out, held>>

OdomCallback(yaw) ==
  /\ currentYaw' = yaw
  /\ yawAge' = 0
  /\ UNCHANGED <<target, cmdAge, sendAge, lock, out, history>>

Expired == cmdAge > CommandTimeout

\* The command heading hold is given.
Requested == IF Expired THEN Zero ELSE target

HoldRefused == Expired \/ Rotating(Requested) \/ TooSlow(Requested)

\* Variant with a bug: a heading of any age will do.
YawEverSeen == currentYaw # None

YawAvailable == currentYaw # None /\ yawAge <= YawTimeout

\* The heading a cycle steers to: the one it locks if none is locked yet.
HeldYaw == IF yawLock = None THEN currentYaw ELSE yawLock

Correction == Clamp(-Kp * NormalizeAngle(HeldYaw - currentYaw), -MaxWz, MaxWz)

\* _apply_heading_hold
PassThrough ==
  /\ HoldRefused \/ ~YawAvailable
  /\ ResetHeadingHold
  /\ out' = Requested
  /\ held' = FALSE
  /\ UNCHANGED turned

\* Variant with a bug: the error is stored for the heading.
HoldHeadingError ==
  /\ ~HoldRefused
  /\ YawAvailable
  /\ yawLock' = NormalizeAngle(HeldYaw - currentYaw)
  /\ active' = TRUE
  /\ out' = [Requested EXCEPT !.wz = Correction]
  /\ held' = TRUE
  /\ turned' = (turned /\ yawLock # None)

HoldHeading ==
  /\ ~HoldRefused
  /\ YawAvailable
  /\ yawLock' = HeldYaw
  /\ active' = TRUE
  /\ out' = [Requested EXCEPT !.wz = Correction]
  /\ held' = TRUE
  /\ turned' = (turned /\ yawLock # None)

SendCycle ==
  /\ sendAge = SendPeriod
  /\ sendAge' = 0
  /\ PassThrough \/ HoldHeading
  /\ UNCHANGED <<target, cmdAge, heading>>

\* Time passes; a due send timer is served first.
Tick ==
  /\ sendAge < SendPeriod
  /\ sendAge' = sendAge + 1
  /\ cmdAge' = Saturating(cmdAge, CmdCap)
  /\ yawAge' = Saturating(yawAge, YawCap)
  /\ UNCHANGED <<target, currentYaw, lock, out, history>>

Next ==
  \/ \E c \in CmdVel : CmdVelCallback(c)
  \/ \E yaw \in Yaw : OdomCallback(yaw)
  \/ SendCycle
  \/ Tick

Spec == Init /\ [][Next]_vars

-----------------------------------------------------------------------------
TypeOK ==
  /\ target \in CmdVel \cup {Zero}
  /\ cmdAge \in 0..CmdCap /\ sendAge \in 0..SendPeriod /\ yawAge \in 0..YawCap
  /\ currentYaw \in Yaw \cup {None} /\ yawLock \in Yaw \cup {None}
  /\ active \in BOOLEAN /\ held \in BOOLEAN /\ turned \in BOOLEAN
  /\ out \in TwistType

(* A heading locked before a rotation is never steered back to: the lock    *)
(* goes with the command that asks for the rotation, even when that command *)
(* and the next straight one both arrive between two send cycles            *)
(* (cmd_vel_callback, _reset_heading_hold).                                 *)
NoLockAcrossTurn == yawLock # None => ~turned

(* The wheels never obey a correction computed from a heading older than    *)
(* the yaw timeout plus the one send period until the next cycle, and never *)
(* any motion for a command older than its timeout plus a period            *)
(* (_apply_heading_hold, _send_cmd_loop).                                   *)
NoStaleInput ==
  /\ held => yawAge <= YawTimeout + SendPeriod
  /\ cmdAge > CommandTimeout + SendPeriod => out = Zero /\ yawLock = None

(* What reaches the wheels is the commanded motion: each speed fits the     *)
(* limit as read back from its byte, the wheels keep their proportions but  *)
(* for rounding - so the robot moves in the commanded direction - and no    *)
(* motion of a unit or more is scaled down to a stop; what is below a unit, *)
(* which the code rounds to 0, is not in CmdVel (_scale_wheel_commands,     *)
(* _encode_scaled_commands, `& 0xFF`).                                      *)
WheelsFollowTwist ==
  LET speed == InverseKinematics(out)
      sent  == WheelSpeeds(out)
  IN  /\ \A w \in WHEEL_NAMES :
           /\ Abs(sent[w]) <= MaxMotorSpeedCmd
           /\ sent[w] * speed[w] >= 0
           /\ \A v \in WHEEL_NAMES :
                2 * Abs(sent[v] * speed[w] - sent[w] * speed[v]) <= Abs(speed[v]) + Abs(speed[w])
      /\ (\A w \in WHEEL_NAMES : sent[w] = 0) <=> out = Zero

(* The topic current_velocity: wheels that do what they are told are        *)
(* reported as the motion that was asked for (the factor is what            *)
(* _compute_chassis_feedback_locked divides by).  The code breaks it since  *)
(* the right wheels of _inverse_kinematics changed their lateral sign: the  *)
(* feedback still uses the old one, and its vy is always 0.                 *)
FeedbackReportsMotion ==
  ForwardKinematics(InverseKinematics(out)) = Twist(4 * out.vx, 4 * out.vy, 4 * out.wz)

==============================================================================
