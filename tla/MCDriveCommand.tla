---------------------------- MODULE MCDriveCommand ----------------------------
(* Instances of DriveCommand for TLC.                                        *)
EXTENDS DriveCommand

\* Standing still, a creep below heading_hold_min_linear_speed, two straight drives
\* (one diagonal, with a rotation inside the deadband) and two rotations, one of
\* them beyond the motor limit.
MCCmdVel == {Twist(0, 0, 0), Twist(1, 0, 1), Twist(2, 0, 0), Twist(3, 2, 1),
             Twist(0, 0, 2), Twist(40, -70, 60)}
MCNone == -1

==============================================================================
