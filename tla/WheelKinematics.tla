--------------------------- MODULE WheelKinematics ---------------------------
(***************************************************************************)
(* The arithmetic between a Twist and the four wheel commands of           *)
(* chassis_can_driver.py, on integers: a linear component is given in the  *)
(* wheel units it contributes (INV_SQRT2 and the tick conversion applied), *)
(* a rotation in the units radius * wz contributes.                        *)
(***************************************************************************)
EXTENDS Integers, FiniteSetsExt

CONSTANT MaxMotorSpeedCmd    \* max_motor_speed_cmd

\* The code only checks the parameter to be positive, but a command travels in
\* one byte that the wheel reads as an int8; 100 is the value it ships with.
ASSUME MotorAssumption == MaxMotorSpeedCmd \in 1..127

WHEEL_NAMES == {"lf", "lr", "rf", "rr"}

Abs(x) == IF x < 0 THEN -x ELSE x
Clamp(x, low, high) == IF x < low THEN low ELSE IF x > high THEN high ELSE x

TwistType == [vx : Int, vy : Int, wz : Int]
Twist(vx, vy, wz) == [vx |-> vx, vy |-> vy, wz |-> wz]

InverseKinematics(c) ==
  [w \in WHEEL_NAMES |->
     CASE w = "lf" ->  c.vx - c.vy - c.wz
       [] w = "lr" ->  c.vx + c.vy - c.wz
       [] w = "rf" -> -c.vx + c.vy - c.wz
       [] w = "rr" -> -c.vx - c.vy - c.wz]

\* _compute_chassis_feedback_locked, up to the factors it divides by.
ForwardKinematics(s) ==
  Twist(s["lf"] + s["lr"] - s["rf"] - s["rr"],
        s["lr"] - s["lf"] - s["rf"] + s["rr"],
        -(s["lf"] + s["lr"] + s["rf"] + s["rr"]))

\* a / b to the nearest integer, ties to even, as Python's round.
RoundedQuotient(a, b) ==
  LET q == a \div b
      twice == 2 * (a - q * b)
  IN  IF twice < b \/ (twice = b /\ q % 2 = 0) THEN q ELSE q + 1

\* Variant with a bug: each wheel is cut off by itself.
ClipWheelCommands(s) ==
  [w \in WHEEL_NAMES |-> Clamp(s[w], -MaxMotorSpeedCmd, MaxMotorSpeedCmd)]

\* _scale_wheel_commands and _encode_scaled_commands: a peak above the limit scales
\* all wheels by the same factor.
ScaleWheelCommands(s) ==
  LET peak == Max({Abs(s[w]) : w \in WHEEL_NAMES})
  IN  [w \in WHEEL_NAMES |->
         Clamp(IF peak > MaxMotorSpeedCmd THEN RoundedQuotient(s[w] * MaxMotorSpeedCmd, peak)
                                          ELSE s[w],
               -MaxMotorSpeedCmd, MaxMotorSpeedCmd)]

\* encoded[name] & 0xFF, and how the wheel controller reads the byte back.
Byte(x) == x % 256
Int8(b) == IF b >= 128 THEN b - 256 ELSE b

\* The speeds the wheels obey for command c.
WheelSpeeds(c) ==
  LET encoded == ScaleWheelCommands(InverseKinematics(c))
  IN  [w \in WHEEL_NAMES |-> Int8(Byte(encoded[w]))]

==============================================================================
