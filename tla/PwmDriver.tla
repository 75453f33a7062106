----------------------------- MODULE PwmDriver -----------------------------
(***************************************************************************)
(* PCA9685.py over the registers of the chip.  A register is written by    *)
(* one transfer on the I2C bus; everything longer is several transfers, so *)
(* that threads come between, a transfer may fail, and the process may end *)
(* half way.  The chip keeps its registers when the process ends.          *)
(*                                                                         *)
(* The pulses are those within the limits of the axes (PulseInLimits of    *)
(* ServoMotion says when that holds).                                      *)
(***************************************************************************)
EXTENDS ServoMath

CONSTANTS
    Threads,    \* that may rotate or step
    Pulses      \* lengths of pulses, in microseconds

ASSUME PulsesAssumption == Pulses \subseteq PulseOf(StartY) .. 1040

VARIABLES
    boot,       \* where the main thread stands in __init__ and setPWMFreq
    oldmode,    \* its local: MODE1 as it was read
    mode1,      \* bits of MODE1 that are set
    mode2,      \* MODE2
    prescale,   \* PRESCALE
    onL, onH, offL, offH,   \* LEDn_ON_L, ... of each channel
    pc,         \* where each thread stands
    job,        \* "rotate" (rotateGradually) or "step" (rotateGraduallyByPulse)
    target,     \* the channel and count that the thread writes
    held        \* outputs may stay on: since MODE2 was last switched off somebody
                \* who does not switch it off, or failed to, has switched it on

modes == <<mode1, mode2, prescale>>
leds == <<onL, onH, offL, offH>>
bootVars == <<boot, oldmode>>
vars == <<bootVars, modes, leds, pc, job, target, held>>

Counts == {Ticks(p) : p \in Pulses}
Targets == [channel : Channels, count : Counts]

\* & 0xFF and >> 8 of setPWM.
Low(n)  == n % 256
High(n) == n \div 256

\* 25 MHz / 4096 / 50 Hz - 1, rounded.
Prescale == 121
FullOff == 16

----------------------------------------------------------------------------
(* __init__ and setPWMFreq, in the main thread before any other runs *)

Boot(from, to) == boot = from /\ boot' = to

Reset ==
    /\ Boot("reset", "read") /\ mode1' = {}
    /\ UNCHANGED <<oldmode, mode2, prescale, leds, pc, job, target, held>>

ReadMode ==
    /\ Boot("read", "sleep") /\ oldmode' = mode1
    /\ UNCHANGED <<modes, leds, pc, job, target, held>>

\* Mutant: the chip is not put to sleep.
Sleep_Awake ==
    /\ Boot("sleep", "prescale") /\ mode1' = oldmode
    /\ UNCHANGED <<oldmode, mode2, prescale, leds, pc, job, target, held>>

Sleep ==
    /\ Boot("sleep", "prescale")
    /\ mode1' = (oldmode \ {"RESTART"}) \cup {"SLEEP"}
    /\ UNCHANGED <<oldmode, mode2, prescale, leds, pc, job, target, held>>

\* The chip takes a prescaler only while it sleeps.
SetPrescale ==
    /\ Boot("prescale", "wake")
    /\ prescale' = IF "SLEEP" \in mode1 THEN Prescale ELSE prescale
    /\ UNCHANGED <<oldmode, mode1, mode2, leds, pc, job, target, held>>

WakeChip ==
    /\ Boot("wake", "restart") /\ mode1' = oldmode
    /\ UNCHANGED <<oldmode, mode2, prescale, leds, pc, job, target, held>>

RestartChip ==
    /\ Boot("restart", "outputs") /\ mode1' = oldmode \cup {"RESTART"}
    /\ UNCHANGED <<oldmode, mode2, prescale, leds, pc, job, target, held>>

EnableOutputs ==
    /\ Boot("outputs", "ready") /\ mode2' = 4 /\ held' = TRUE
    /\ UNCHANGED <<oldmode, mode1, prescale, leds, pc, job, target>>

----------------------------------------------------------------------------
(* start_PCA9685, setPWM and exit_PCA9685, in thread t *)

Go(t, from, to) == pc[t] = from /\ pc' = [pc EXCEPT ![t] = to]

Begin(t) ==
    /\ boot = "ready" /\ Go(t, "idle", "start")
    /\ \E j \in {"rotate", "step"} : job' = [job EXCEPT ![t] = j]
    /\ UNCHANGED <<bootVars, modes, leds, target, held>>

\* A step is not followed by exit_PCA9685.
Start(t) ==
    /\ Go(t, "start", "pulse") /\ mode2' = 4
    /\ held' = (held \/ job[t] = "step")
    /\ UNCHANGED <<bootVars, mode1, prescale, leds, job, target>>

\* The next pulse of a sweep, or the only one of a step.
Pulse(t) ==
    /\ Go(t, "pulse", "on_l")
    /\ target' \in {[target EXCEPT ![t] = w] : w \in Targets}
    /\ UNCHANGED <<bootVars, modes, leds, job, held>>

\* Mutant: the low byte of the count goes to the on-register as well.
WriteOnL_Count(t) ==
    /\ Go(t, "on_l", "on_h") /\ onL' = [onL EXCEPT ![target[t].channel] = Low(target[t].count)]
    /\ UNCHANGED <<bootVars, modes, onH, offL, offH, job, target, held>>

WriteOnL(t) ==
    /\ Go(t, "on_l", "on_h") /\ onL' = [onL EXCEPT ![target[t].channel] = 0]
    /\ UNCHANGED <<bootVars, modes, onH, offL, offH, job, target, held>>

WriteOnH(t) ==
    /\ Go(t, "on_h", "off_l") /\ onH' = [onH EXCEPT ![target[t].channel] = 0]
    /\ UNCHANGED <<bootVars, modes, onL, offL, offH, job, target, held>>

\* Mutant: seven bits of the count are written.
WriteOffL_Masked(t) ==
    /\ Go(t, "off_l", "off_h")
    /\ offL' = [offL EXCEPT ![target[t].channel] = Low(target[t].count) % 128]
    /\ UNCHANGED <<bootVars, modes, onL, onH, offH, job, target, held>>

WriteOffL(t) ==
    /\ Go(t, "off_l", "off_h")
    /\ offL' = [offL EXCEPT ![target[t].channel] = Low(target[t].count)]
    /\ UNCHANGED <<bootVars, modes, onL, onH, offH, job, target, held>>

WriteOffH(t) ==
    /\ Go(t, "off_h", IF job[t] = "step" THEN "idle" ELSE "pulse")
    /\ offH' = [offH EXCEPT ![target[t].channel] = High(target[t].count)]
    /\ UNCHANGED <<bootVars, modes, onL, onH, offL, job, target, held>>

\* Mutant: the outputs stay on after a rotation.
Exit_LeavesOn(t) ==
    /\ job[t] = "rotate" /\ Go(t, "pulse", "idle")
    /\ held' = FALSE
    /\ UNCHANGED <<bootVars, modes, leds, job, target>>

\* The end of both sweeps; under the sweep of another thread as well.
Exit(t) ==
    /\ job[t] = "rotate" /\ Go(t, "pulse", "idle")
    /\ mode2' = 0 /\ held' = FALSE
    /\ UNCHANGED <<bootVars, mode1, prescale, leds, job, target>>

\* The bus fails: the exception leaves the rotation or the step where it is.
Fault(t) ==
    /\ pc[t] # "idle" /\ pc' = [pc EXCEPT ![t] = "idle"]
    /\ held' = (held \/ mode2 = 4)
    /\ UNCHANGED <<bootVars, modes, leds, job, target>>

----------------------------------------------------------------------------

\* The process ends and is started again.
Crash ==
    /\ boot' = "reset" /\ pc' = [t \in Threads |-> "idle"]
    /\ held' = (held \/ mode2 = 4)
    /\ UNCHANGED <<oldmode, modes, leds, job, target>>

\* The chip as it is after power-on or as an earlier run has left it.
Init ==
    /\ boot = "reset" /\ oldmode = {}
    /\ mode1 \in SUBSET {"SLEEP", "RESTART"} /\ mode2 \in {0, 4}
    /\ prescale \in {30, Prescale}
    /\ onL = [c \in Channels |-> 0] /\ onH = [c \in Channels |-> 0]
    /\ offL = [c \in Channels |-> 0]
    /\ offH \in [Channels -> {0, FullOff}]
    /\ pc = [t \in Threads |-> "idle"] /\ job = [t \in Threads |-> "step"]
    /\ target \in [Threads -> {w \in Targets : w.channel = Vertical}]
    /\ held = TRUE

BootStep ==
    \/ Reset \/ ReadMode \/ Sleep \/ SetPrescale \/ WakeChip \/ RestartChip
    \/ EnableOutputs

Write(t) == WriteOnL(t) \/ WriteOnH(t) \/ WriteOffL(t) \/ WriteOffH(t)

ThreadStep(t) == Begin(t) \/ Start(t) \/ Pulse(t) \/ Write(t) \/ Exit(t) \/ Fault(t)

Next == BootStep \/ (\E t \in Threads : ThreadStep(t)) \/ Crash

Spec == Init /\ [][Next]_vars

----------------------------------------------------------------------------

Writing == {"on_l", "on_h", "off_l", "off_h"}

\* Types.  The on-registers stay 0 and the high byte of the off-register 0 or
\* full-off; nobody writes before the chip is set up.
TypeOK ==
    /\ boot \in {"reset", "read", "sleep", "prescale", "wake", "restart", "outputs", "ready"}
    /\ oldmode \subseteq {"SLEEP", "RESTART"} /\ mode1 \subseteq {"SLEEP", "RESTART"}
    /\ mode2 \in {0, 4} /\ prescale \in 3 .. 255
    /\ onL = [c \in Channels |-> 0] /\ onH = [c \in Channels |-> 0]
    /\ offL \in [Channels -> 0 .. 255] /\ offH \in [Channels -> {0, FullOff}]
    /\ pc \in [Threads -> {"idle", "start", "pulse"} \cup Writing]
    /\ job \in [Threads -> {"rotate", "step"}]
    /\ target \in [Threads -> Targets]
    /\ held \in BOOLEAN
    /\ boot # "ready" => \A t \in Threads : pc[t] = "idle"

\* PCA9685.py:82, "The PWM frequency must be 50HZ": whoever writes a pulse finds
\* the chip awake and at 50 Hz, whatever a process that ended in the middle of
\* setPWMFreq has left in the registers.
FrequencySet ==
    \A t \in Threads : pc[t] # "idle" => prescale = Prescale /\ "SLEEP" \notin mode1

\* When no thread moves anything the outputs are off, in whichever order the
\* rotations and the steps of the threads ended, unless a step, a fault or the
\* start of the program has left them on.
OutputsOff ==
    (\A t \in Threads : pc[t] = "idle") /\ mode2 = 4 => held

\* The count that a channel compares with, apart from the full-off bit.
Width(c) == offL[c] + 256 * (offH[c] % FullOff) - (onL[c] + 256 * onH[c])

Register == INSTANCE PulseRegister WITH
    width  <- [c \in Channels |-> Width(c)],
    lit    <- [c \in Channels |-> offH[c] # FullOff],
    status <- [t \in Threads |-> IF pc[t] \in {"on_l", "on_h", "off_l"} THEN "asked"
                                 ELSE IF pc[t] = "off_h" THEN "done" ELSE "none"]

\* The four transfers of setPWM are one write: a servo is never given a count
\* that is half of one pulse and half of another.
ImplementsRegister == Register!Spec
=============================================================================
