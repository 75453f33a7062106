----------------------------- MODULE ServoMath -----------------------------
(***************************************************************************)
(* The arithmetic of the turret: degrees, servo pulses in microseconds,    *)
(* PCA9685 ticks, the manual step with its clamps, and the translation of  *)
(* a bounding box into the two angles of the platform.                     *)
(*                                                                         *)
(* The Python expressions are floating point; every one of them is used    *)
(* under int(), and over the ranges the program uses (0..180 degrees,      *)
(* 501..2600 microseconds) int() of the float equals the exact rational    *)
(* written here: int(a * (2000/180) + 501) is (100 * a) \div 9 + 501.      *)
(***************************************************************************)
EXTENDS Integers

\* TurretHandler.__init__: the image size, the limits and the base position.
CameraWidth  == 1152
CameraHeight == 1152
LimitX == 47
StartX == 5
LimitY == 25
StartY == 0
BaseX  == 31
BaseY  == 23

\* The two PCA9685 channels of the platform: 0 is vertical, 1 is horizontal.
Vertical   == 0
Horizontal == 1
Channels   == {Vertical, Horizontal}

\* Positions the limits of TurretHandler.__init__ allow.
XRange == StartX .. LimitX
YRange == StartY .. LimitY

----------------------------------------------------------------------------
(* Degrees, microseconds and ticks. *)

\* Python's int() of a quotient: division that truncates toward zero.
TruncDiv(n, d) == IF n >= 0 THEN n \div d ELSE -((-n) \div d)

\* Mutant: the 501 microseconds of zero degrees are forgotten.
PulseOf_NoOffset(angle) == (100 * angle) \div 9

\* getLastServoPulses, and the pulses of the PCA9685 rotations.
PulseOf(angle) == (100 * angle) \div 9 + 501

\* rotateGraduallyByPulse: target_angle.
AngleOf(pulse) == TruncDiv(9 * (pulse - 501), 100)

\* setServoPulse: a 20000 us period of 4096 ticks.
Ticks(pulse) == (pulse * 4096) \div 20000

----------------------------------------------------------------------------
(* One manual step, from the pulse of the recorded angle. *)

StepLength == 15

Clamp(lo, hi, p) == IF p > hi THEN hi ELSE IF p < lo THEN lo ELSE p

StepH(angle, step) == Clamp(560, 1040, PulseOf(angle) + step)
StepV(angle, step) == Clamp(560, 780, PulseOf(angle) - step)

\* The guard of rotateGraduallyByPulse on the angle the pulse stands for.
Accepts(channel, angle) ==
    \/ channel = Vertical   /\ angle < LimitY /\ angle >= StartY
    \/ channel = Horizontal /\ angle < LimitX /\ angle >= StartX

----------------------------------------------------------------------------
(* setRotationAngleGradually: range(prevPulse, pulse, +-5), whose last      *)
(* element stops short of the pulse that was asked for.                     *)

SweepStep == 5

\* The last pulse of a sweep between two different pulses.
SweepLast(from, to) ==
    IF from < to THEN from + SweepStep * ((to - from - 1) \div SweepStep)
                 ELSE from - SweepStep * ((from - to - 1) \div SweepStep)

\* The sweep writes only pulses strictly between 500 and 2500.
Writable(pulse) == pulse > 500 /\ pulse < 2500

----------------------------------------------------------------------------
(* From a bounding box <<x0, y0, x1, y1>> to angles. *)

\* startDetectionCycle: the box must lie in the frame.
InFrame(box) ==
    ~ (\/ box[1] < -1
       \/ box[3] > CameraWidth + 10
       \/ box[2] < 0
       \/ box[4] > CameraHeight - 10)

CentreX(box) == TruncDiv(box[1] + box[3], 2)
CentreY(box) == TruncDiv(box[2] + box[4], 2)

\* pointAndFire: calculated_angle_x and calculated_angle_y.
AimX(box) == BaseX + 5 - TruncDiv(CentreX(box) - CameraWidth \div 2, 25)

AimY(box) ==
    LET y == TruncDiv(CentreY(box) - CameraHeight \div 2, 15) + BaseY + 5
    IN  IF y > 18 THEN 18 + (y - LimitY) \div 3 ELSE y

\* pointAndFire: the calculated angles are within the limits.
Reachable(box) == AimX(box) \in XRange /\ AimY(box) \in YRange
=============================================================================
