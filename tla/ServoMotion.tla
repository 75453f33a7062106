---------------------------- MODULE ServoMotion ----------------------------
(***************************************************************************)
(* Where the platform points: the pulse each servo was last given, the     *)
(* angles TurretHandler records for it, and the file that carries the      *)
(* angles over a restart.                                                  *)
(*                                                                         *)
(* The movers are the threads of TurretSystem, with no lock between them:  *)
(*   det   rotates to targets while the turret is enabled;                 *)
(*   web   enables and disables, which rotates to the base (gracefulExit,  *)
(*         in the signal handler of this thread, is one more rotation);    *)
(*   ctl   makes manual steps while the turret is disabled.                *)
(* Without the other two, det is the example of TurretHandler's docstring: *)
(* it enables the turret itself and then enters the cycle.                 *)
(*                                                                         *)
(* A step of a sweep is one pulse, as the code sleeps between two of them. *)
(* That start_PCA9685 and exit_PCA9685 switch the outputs of all channels  *)
(* is in TurretSystem.                                                     *)
(***************************************************************************)
EXTENDS ServoMath, Sequences

CONSTANTS
    Movers,      \* the threads at work
    Targets,     \* <<x, y>> angles det is sent to (the rest is pointAndFire's)
    Steps,       \* <<channel, step>> manual steps clients ask for
    Saved,       \* <<x, y>> angles an earlier run of the program has saved
    MaxMoves,    \* bound: rotations and manual steps clients ask for
    MaxCrashes   \* bound: ends of the process, followed by a new start

ASSUME MoversAssumption == Movers \subseteq {"det", "web", "ctl"}
ASSUME TargetsAssumption == Targets \subseteq XRange \X YRange
ASSUME StepsAssumption == Steps \subseteq Channels \X {StepLength, -StepLength}
ASSUME SavedAssumption == Saved \subseteq XRange \X YRange
ASSUME MotionBoundsAssumption == MaxMoves \in Nat /\ MaxCrashes \in Nat

VARIABLES
    pc,       \* where each mover stands
    enabled,  \* is_turret_enabled
    angle,    \* angle_x and angle_y, by channel
    job,      \* what each mover does: its arguments and locals
    pulse,    \* the pulse each channel was last given, in microseconds
    file,     \* last_servo_state.txt
    fresh,    \* history: no rotation has ended since the process started
    moves, crashes

bounds == <<moves, crashes>>
vars   == <<pc, enabled, angle, job, pulse, file, fresh, bounds>>

Pair(y, x) == [c \in Channels |-> IF c = Vertical THEN y ELSE x]
Base == Pair(BaseY, BaseX)

NoJob == [to |-> Base, from |-> Base, channel |-> Horizontal, at |-> 0, text |-> <<>>]

Go(t, from, to) == pc[t] = from /\ pc' = [pc EXCEPT ![t] = to]

----------------------------------------------------------------------------
(* The file: "<angle_x> <angle_y>" as a sequence of digits and one space.  *)

Space == 10

Digits[n \in Nat] == IF n < 10 THEN <<n>> ELSE Append(Digits[n \div 10], n % 10)
Number(ds) ==
    LET value[n \in 0 .. Len(ds)] == IF n = 0 THEN 0 ELSE 10 * value[n - 1] + ds[n]
    IN  value[Len(ds)]

TextOf(a) == Digits[a[Horizontal]] \o <<Space>> \o Digits[a[Vertical]]

\* next(f).split() finds two numbers; anything else is a ValueError.
Loads(text) ==
    \E i \in 2 .. Len(text) - 1 :
        \A j \in 1 .. Len(text) : text[j] = Space <=> j = i

AnglesOf(text) ==
    LET i == CHOOSE i \in 1 .. Len(text) : text[i] = Space
    IN  Pair(Number(SubSeq(text, i + 1, Len(text))), Number(SubSeq(text, 1, i - 1)))

\* Mutant: the file is opened for appending.
Overwrite_Append(old, new) == old \o new

\* What a write at offset 0 leaves of a longer text.
Overwrite(old, new) == new \o SubSeq(old, Len(new) + 1, Len(old))

----------------------------------------------------------------------------
(* rotateGradually *)

\* Mutant: the recorded angles are overwritten before they are used.
Rotate_LosesFrom(t, from, to) ==
    /\ Go(t, from, "sweep")
    /\ job' = [job EXCEPT ![t] = [to |-> to, from |-> to, channel |-> Horizontal,
                                  at |-> PulseOf(to[Horizontal]), text |-> <<>>]]
    /\ angle' = to
    /\ UNCHANGED <<pulse, file, fresh, crashes>>

\* The arguments are the recorded angles, which are overwritten at once; the
\* horizontal servo is swept first.
Rotate(t, from, to) ==
    /\ Go(t, from, "sweep")
    /\ job' = [job EXCEPT ![t] = [to |-> to, from |-> angle, channel |-> Horizontal,
                                  at |-> PulseOf(angle[Horizontal]), text |-> <<>>]]
    /\ angle' = to
    /\ UNCHANGED <<pulse, file, fresh, crashes>>

\* setTurretState, of the server or of the docstring's example.
SetTurretState(t, from) ==
    /\ moves < MaxMoves /\ moves' = moves + 1
    /\ enabled' \in BOOLEAN
    /\ Rotate(t, from, Base)

\* The test of the flag at the top of an iteration; the rotation comes later.
Look ==
    /\ enabled /\ Go("det", "idle", "aim")
    /\ UNCHANGED <<enabled, angle, job, pulse, file, fresh, bounds>>

RotateToTarget ==
    /\ \E target \in Targets : Rotate("det", "aim", Pair(target[2], target[1]))
    /\ UNCHANGED <<enabled, moves>>

\* range(int(prevPulse), int(pulse), d) of setRotationAngleGradually.
Upward(j) == PulseOf(j.from[j.channel]) <= PulseOf(j.to[j.channel])
More(j) == IF Upward(j) THEN j.at < PulseOf(j.to[j.channel])
                        ELSE j.at > PulseOf(j.to[j.channel])

SweepPulse(t) ==
    /\ pc[t] = "sweep" /\ More(job[t])
    /\ IF Writable(job[t].at)
       THEN pulse' = [pulse EXCEPT ![job[t].channel] = job[t].at]
       ELSE UNCHANGED pulse
    /\ job' = [job EXCEPT ![t].at = IF Upward(job[t]) THEN @ + SweepStep ELSE @ - SweepStep]
    /\ UNCHANGED <<pc, enabled, angle, file, fresh, bounds>>

\* Mutant: the second sweep starts from the angle of the other servo.
SweepVertical_FromX(t) ==
    /\ pc[t] = "sweep" /\ ~More(job[t]) /\ job[t].channel = Horizontal
    /\ job' = [job EXCEPT ![t].channel = Vertical, ![t].at = PulseOf(job[t].from[Horizontal])]
    /\ UNCHANGED <<pc, enabled, angle, pulse, file, fresh, bounds>>

SweepVertical(t) ==
    /\ pc[t] = "sweep" /\ ~More(job[t]) /\ job[t].channel = Horizontal
    /\ job' = [job EXCEPT ![t].channel = Vertical, ![t].at = PulseOf(job[t].from[Vertical])]
    /\ UNCHANGED <<pc, enabled, angle, pulse, file, fresh, bounds>>

\* 0.2 s after the last pulse.
SweepDone(t) ==
    /\ ~More(job[t]) /\ job[t].channel = Vertical
    /\ Go(t, "sweep", "open")
    /\ job' = [job EXCEPT ![t] = NoJob]
    /\ fresh' = FALSE
    /\ UNCHANGED <<enabled, angle, pulse, file, bounds>>

----------------------------------------------------------------------------
(* turretControlfunc and rotateGraduallyByPulse *)

\* The pulse of one step from the recorded angle.
StepPulse(c, step) ==
    IF c = Vertical THEN StepV(angle[c], step) ELSE StepH(angle[c], step)

\* The pulses are read before the flag is tested.
Test ==
    /\ ~enabled /\ moves < MaxMoves
    /\ Go("ctl", "idle", "aim")
    /\ \E s \in Steps :
          job' = [job EXCEPT !["ctl"].channel = s[1], !["ctl"].at = StepPulse(s[1], s[2])]
    /\ moves' = moves + 1
    /\ UNCHANGED <<enabled, angle, pulse, file, fresh, crashes>>

\* Mutant: the limits are not looked at.
ManualStep_Unlimited ==
    /\ Go("ctl", "aim", "move")
    /\ angle' = [angle EXCEPT ![job["ctl"].channel] = AngleOf(job["ctl"].at)]
    /\ UNCHANGED <<enabled, job, pulse, file, fresh, bounds>>

\* The angle is recorded or refused.
ManualStep ==
    LET c == job["ctl"].channel
        a == AngleOf(job["ctl"].at)
    IN  /\ \/ Accepts(c, a) /\ Go("ctl", "aim", "move") /\ angle' = [angle EXCEPT ![c] = a]
           \/ ~Accepts(c, a) /\ Go("ctl", "aim", "idle") /\ UNCHANGED angle
        /\ UNCHANGED <<enabled, job, pulse, file, fresh, bounds>>

ManualPulse ==
    /\ Go("ctl", "move", "open")
    /\ pulse' = [pulse EXCEPT ![job["ctl"].channel] = job["ctl"].at]
    /\ job' = [job EXCEPT !["ctl"] = NoJob]
    /\ UNCHANGED <<enabled, angle, file, fresh, bounds>>

----------------------------------------------------------------------------
(* persistServoState: open(..., 'w') empties the file, f.write fills a     *)
(* buffer, the end of `with` writes it at the start of the file.           *)

\* Mutant: the file is not emptied.
OpenFile_Keeps(t) ==
    /\ Go(t, "open", "write")
    /\ UNCHANGED <<enabled, angle, job, pulse, file, fresh, bounds>>

OpenFile(t) ==
    /\ Go(t, "open", "write")
    /\ file' = <<>>
    /\ UNCHANGED <<enabled, angle, job, pulse, fresh, bounds>>

WriteFile(t) ==
    /\ Go(t, "write", "close")
    /\ job' = [job EXCEPT ![t].text = TextOf(angle)]
    /\ UNCHANGED <<enabled, angle, pulse, file, fresh, bounds>>

CloseFile(t) ==
    /\ Go(t, "close", "idle")
    /\ file' = Overwrite(file, job[t].text)
    /\ job' = [job EXCEPT ![t] = NoJob]
    /\ UNCHANGED <<enabled, angle, pulse, fresh, bounds>>

----------------------------------------------------------------------------
(* The start of the process, and its end at any moment. *)

\* __init__: the servos are driven to the base whatever the file says; without
\* a file, or with an empty one, the angles are the base as well and are saved.
Started(text) ==
    /\ pc' = [t \in Movers |-> IF Movers = {"det"} THEN "boot" ELSE "idle"]
    /\ enabled' = FALSE
    /\ \/ text = <<>> /\ angle' = Base /\ file' = TextOf(Base)
       \/ Loads(text) /\ angle' = AnglesOf(text) /\ file' = text
    /\ job' = [t \in Movers |-> NoJob]
    /\ pulse' = [c \in Channels |-> PulseOf(Base[c])]
    /\ fresh' = TRUE

Restart ==
    /\ crashes < MaxCrashes /\ crashes' = crashes + 1
    /\ Started(file)
    /\ UNCHANGED moves

\* Right after __init__, with a file an earlier run has left.
Init ==
    /\ pc = [t \in Movers |-> IF Movers = {"det"} THEN "boot" ELSE "idle"]
    /\ enabled = FALSE
    /\ angle \in {Pair(s[2], s[1]) : s \in Saved}
    /\ file = TextOf(angle)
    /\ job = [t \in Movers |-> NoJob]
    /\ pulse = [c \in Channels |-> PulseOf(Base[c])]
    /\ fresh = TRUE
    /\ moves = 0 /\ crashes = 0

Move(t) ==
    \/ SweepPulse(t) \/ SweepVertical(t) \/ SweepDone(t)
    \/ OpenFile(t) \/ WriteFile(t) \/ CloseFile(t)

Next ==
    \/ \E t \in Movers : Move(t)
    \/ "det" \in Movers /\ (Look \/ RotateToTarget \/ SetTurretState("det", "boot"))
    \/ "web" \in Movers /\ SetTurretState("web", "idle")
    \/ "ctl" \in Movers /\ (Test \/ ManualStep \/ ManualPulse)
    \/ Restart

Spec == Init /\ [][Next]_vars

----------------------------------------------------------------------------

\* Where a mover may stand, and the pulses that Writable lets through.
Places == {"boot", "idle", "aim", "sweep", "move", "open", "write", "close"}
Pulses == 501 .. 2499

AtRest == \A t \in Movers : pc[t] \in {"boot", "idle", "aim"}

\* Where each mover may stand and what each variable may hold; what is recorded
\* is an angle the limits allow, unless a file was misread after a crash.
TypeOK ==
    /\ pc \in [Movers -> Places]
    /\ enabled \in BOOLEAN /\ fresh \in BOOLEAN
    /\ angle \in [Channels -> Nat] /\ pulse \in [Channels -> Pulses]
    /\ \A i \in 1 .. Len(file) : file[i] \in 0 .. Space
    /\ moves \in 0 .. MaxMoves /\ crashes \in 0 .. MaxCrashes

\* A servo rests within one sweep step of the angle recorded for it, once a
\* rotation has ended: the microseconds every sweep falls short of never add up,
\* however many rotations follow one another.
ServoFollows ==
    AtRest /\ ~fresh =>
        \A c \in Channels : pulse[c] - PulseOf(angle[c]) \in -SweepStep .. SweepStep

\* Every change of a pulse is gradual once the first rotation after a start has
\* ended: one step of a sweep at most, also from where the last rotation has
\* stopped short to the first pulse of the next, whichever target follows which.
GradualMotion ==
    [][~fresh /\ ~fresh' =>
         \A c \in Channels : pulse'[c] - pulse[c] \in -SweepStep .. SweepStep]_vars

\* TurretHandler.py:48-49, "bounds x: 5 - 47 deg" and "bounds y: 5 - 25 deg":
\* the servos are only given pulses of angles within the limits (of which the
\* code makes 0 the lower one for y).
PulseInLimits ==
    /\ pulse[Horizontal] \in PulseOf(StartX) .. PulseOf(LimitX)
    /\ pulse[Vertical] \in PulseOf(StartY) .. PulseOf(LimitY)

\* Whatever is in the file when the process ends, the next start can read it: it
\* is empty or it holds two numbers, also when several movers save at once and
\* the longer of two texts shows from under the shorter one.
FileLoads == file = <<>> \/ Loads(file)

\* At rest the file holds the recorded angles.
FileRecords == AtRest => file = TextOf(angle)
=============================================================================
