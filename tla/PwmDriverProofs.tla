-------------------------- MODULE PwmDriverProofs --------------------------
(***************************************************************************)
(* The PWM driver for any number of threads and any set of pulses within   *)
(* the limits: types, the frequency, the outputs, and the register that    *)
(* the four transfers of setPWM implement.                                 *)
(***************************************************************************)
EXTENDS PwmDriver, TLAPS

\* What the main thread has done to the chip when it stands at a step of
\* setPWMFreq, whatever it found.
BootOK ==
    /\ boot \in {"read", "restart"} => mode1 = {}
    /\ boot \in {"sleep", "prescale", "wake", "restart", "outputs"} => oldmode = {}
    /\ boot = "prescale" => mode1 = {"SLEEP"}
    /\ boot \in {"outputs", "ready"} => mode1 = {"RESTART"}
    /\ boot \in {"wake", "restart", "outputs", "ready"} => prescale = Prescale

\* Outputs that nobody holds on are those of a rotation that will end.
HeldOK ==
    mode2 = 4 /\ ~held =>
        \E t \in Threads : job[t] = "rotate" /\ pc[t] \in {"pulse"} \cup Writing

\* The inductive invariant.
IInv == TypeOK /\ BootOK /\ HeldOK

LEMMA CountsFit == \A n \in Counts : n \in 0 .. 255 /\ Low(n) = n /\ High(n) = 0
<1>1. \A p \in PulseOf(StartY) .. 1040 : Ticks(p) \in 0 .. 255
    BY DEF PulseOf, StartY, Ticks
<1>2. \A n \in 0 .. 255 : Low(n) = n /\ High(n) = 0
    BY DEF Low, High
<1> QED BY <1>1, <1>2, PulsesAssumption DEF Counts

LEMMA InitEstablishes == Init => IInv
<1> SUFFICES ASSUME Init PROVE IInv
    OBVIOUS
<1>1. TypeOK
    BY DEF Init, TypeOK, Prescale, FullOff
<1>2. BootOK /\ HeldOK
    BY DEF Init, BootOK, HeldOK
<1> QED BY <1>1, <1>2 DEF IInv

LEMMA TypePreserved == TypeOK /\ [Next]_vars => TypeOK'
<1> SUFFICES ASSUME TypeOK, [Next]_vars PROVE TypeOK'
    OBVIOUS
<1> USE DEF TypeOK, modes, leds, bootVars
<1>1. CASE BootStep
    <2> USE DEF Boot
    <2>1. CASE Reset BY <2>1 DEF Reset
    <2>2. CASE ReadMode BY <2>2 DEF ReadMode
    <2>3. CASE Sleep BY <2>3 DEF Sleep
    <2>4. CASE SetPrescale BY <2>4 DEF SetPrescale, Prescale
    <2>5. CASE WakeChip BY <2>5 DEF WakeChip
    <2>6. CASE RestartChip BY <2>6 DEF RestartChip
    <2>7. CASE EnableOutputs BY <2>7 DEF EnableOutputs
    <2> QED BY <1>1, <2>1, <2>2, <2>3, <2>4, <2>5, <2>6, <2>7 DEF BootStep
<1>2. ASSUME NEW t \in Threads, ThreadStep(t) PROVE TypeOK'
    <2> USE DEF Go, Writing
    <2>1. CASE Begin(t) BY <2>1 DEF Begin
    <2>2. CASE Start(t) BY <2>2 DEF Start
    <2>3. CASE Pulse(t) BY <2>3 DEF Pulse
    <2>4. CASE WriteOnL(t) BY <2>4 DEF WriteOnL
    <2>5. CASE WriteOnH(t) BY <2>5 DEF WriteOnH
    <2>6. CASE WriteOffL(t)
        BY <2>6, CountsFit DEF WriteOffL, Targets
    <2>7. CASE WriteOffH(t)
        BY <2>7, CountsFit DEF WriteOffH, Targets
    <2>8. CASE Exit(t) BY <2>8 DEF Exit
    <2>9. CASE Fault(t) BY <2>9 DEF Fault
    <2> QED
        BY <1>2, <2>1, <2>2, <2>3, <2>4, <2>5, <2>6, <2>7, <2>8, <2>9 DEF ThreadStep, Write
<1>3. CASE Crash BY <1>3 DEF Crash
<1>4. CASE UNCHANGED vars BY <1>4 DEF vars
<1> QED BY <1>1, <1>2, <1>3, <1>4 DEF Next

\* No thread touches MODE1 or the prescaler.
LEMMA BootPreserved == TypeOK /\ BootOK /\ [Next]_vars => BootOK'
<1> SUFFICES ASSUME TypeOK, BootOK, [Next]_vars PROVE BootOK'
    OBVIOUS
<1> USE DEF BootOK
<1>1. CASE BootStep
    BY <1>1 DEF BootStep, Boot, Reset, ReadMode, Sleep, SetPrescale, WakeChip, RestartChip,
                EnableOutputs
<1>2. ASSUME NEW t \in Threads, ThreadStep(t) PROVE BootOK'
    BY <1>2 DEF ThreadStep, Write, Begin, Start, Pulse, WriteOnL, WriteOnH, WriteOffL, WriteOffH,
                Exit, Fault, modes, bootVars
<1>3. CASE Crash BY <1>3 DEF Crash, modes
<1>4. CASE UNCHANGED vars BY <1>4 DEF vars, modes, bootVars
<1> QED BY <1>1, <1>2, <1>3, <1>4 DEF Next

\* A thread that could switch the outputs off does so before it is idle.
LEMMA HeldPreserved == TypeOK /\ HeldOK /\ [Next]_vars => HeldOK'
<1> SUFFICES ASSUME TypeOK, HeldOK, [Next]_vars, mode2' = 4, ~held'
             PROVE  \E t \in Threads : job'[t] = "rotate" /\ pc'[t] \in {"pulse"} \cup Writing
    BY DEF HeldOK
<1> USE DEF TypeOK, HeldOK, modes, Go, Writing
<1>1. CASE BootStep
    BY <1>1 DEF BootStep, Reset, ReadMode, Sleep, SetPrescale, WakeChip, RestartChip,
                EnableOutputs
<1>2. ASSUME NEW t \in Threads, ThreadStep(t)
      PROVE  \E u \in Threads : job'[u] = "rotate" /\ pc'[u] \in {"pulse"} \cup Writing
    <2>1. CASE Start(t) BY <2>1 DEF Start
    <2>2. CASE Exit(t) BY <2>2 DEF Exit
    <2>3. CASE Fault(t) BY <2>3 DEF Fault
    <2>4. CASE Begin(t) BY <2>4 DEF Begin
    <2>5. CASE Pulse(t) BY <2>5 DEF Pulse
    <2>6. CASE Write(t)
        BY <2>6 DEF Write, WriteOnL, WriteOnH, WriteOffL, WriteOffH
    <2> QED BY <1>2, <2>1, <2>2, <2>3, <2>4, <2>5, <2>6 DEF ThreadStep
<1>3. CASE Crash BY <1>3 DEF Crash
<1>4. CASE UNCHANGED vars BY <1>4 DEF vars
<1> QED BY <1>1, <1>2, <1>3, <1>4 DEF Next

THEOREM Inductive == Spec => []IInv
<1>1. Init => IInv
    BY InitEstablishes
<1>2. IInv /\ [Next]_vars => IInv'
    BY TypePreserved, BootPreserved, HeldPreserved DEF IInv
<1> QED BY <1>1, <1>2, PTL DEF Spec

\* Types, and registers that only ever hold one byte of a count.
THEOREM TypeCorrect == Spec => []TypeOK
<1>1. IInv => TypeOK
    BY DEF IInv
<1> QED BY <1>1, Inductive, PTL

\* No pulse is written to a chip that sleeps or runs at another frequency.
THEOREM FrequencyRight == Spec => []FrequencySet
<1>1. IInv => FrequencySet
    BY DEF IInv, TypeOK, BootOK, FrequencySet
<1> QED BY <1>1, Inductive, PTL

\* Without steps and faults the outputs are off when nothing moves.
THEOREM OutputsSwitchedOff == Spec => []OutputsOff
<1>1. IInv => OutputsOff
    BY DEF IInv, HeldOK, OutputsOff, Writing
<1> QED BY <1>1, Inductive, PTL

----------------------------------------------------------------------------
(* The refinement: the low byte of the off-register is the moment of a write. *)

LEMMA WidthIsLow ==
    TypeOK => \A c \in Channels : Width(c) = offL[c]
BY DEF TypeOK, Width, FullOff

LEMMA InitRefines == Init => Register!Init
BY DEF Init, Register!Init, FullOff

LEMMA StepRefines ==
    TypeOK /\ TypeOK' /\ [Next]_vars => [Register!Next]_Register!vars
<1> SUFFICES ASSUME TypeOK, TypeOK', [Next]_vars
             PROVE  [Register!Next]_Register!vars
    OBVIOUS
<1>a. /\ \A c \in Channels : Width(c) = offL[c]
      /\ \A c \in Channels : Width(c)' = offL'[c]
    <2>1. \A c \in Channels : Width(c) = offL[c]
        BY WidthIsLow
    <2>2. ASSUME NEW c \in Channels PROVE Width(c)' = offL'[c]
        <3>1. offL'[c] \in 0 .. 255 /\ onL'[c] = 0 /\ onH'[c] = 0 /\ offH'[c] \in {0, 16}
            BY DEF TypeOK, FullOff
        <3>2. offH'[c] % 16 = 0
            BY <3>1
        <3> QED BY <3>1, <3>2 DEF Width, FullOff
    <2> QED BY <2>1, <2>2
<1> DEFINE status == [t \in Threads |-> IF pc[t] \in {"on_l", "on_h", "off_l"} THEN "asked"
                                     ELSE IF pc[t] = "off_h" THEN "done" ELSE "none"]
           width == [c \in Channels |-> Width(c)]
           lit == [c \in Channels |-> offH[c] # FullOff]
<1>1. CASE BootStep
    BY <1>1, <1>a DEF BootStep, Reset, ReadMode, Sleep, SetPrescale, WakeChip, RestartChip,
                EnableOutputs, leds, Register!vars
<1>2. ASSUME NEW t \in Threads, ThreadStep(t)
      PROVE  [Register!Next]_Register!vars
    <2> USE DEF Go, leds, TypeOK
    <2>1. CASE Begin(t) BY <2>1, <1>a DEF Begin, Register!vars
    <2>2. CASE Start(t) BY <2>2, <1>a DEF Start, Register!vars
    <2>3. CASE Pulse(t)
        <3>1. PICK w \in Targets : target' = [target EXCEPT ![t] = w]
            BY <2>3 DEF Pulse
        <3>2. \E c \in Channels, n \in Counts :
                  target' = [target EXCEPT ![t] = [channel |-> c, count |-> n]]
            BY <3>1 DEF Targets
        <3>3. status[t] = "none" /\ status' = [status EXCEPT ![t] = "asked"]
            BY <2>3 DEF Pulse
        <3>4. width' = width /\ lit' = lit
            BY <2>3, <1>a DEF Pulse
        <3>5. Register!Ask(t)
            BY <3>2, <3>3, <3>4 DEF Register!Ask
        <3> QED BY <3>5 DEF Register!Next
    <2>4. CASE WriteOnL(t)
        BY <2>4, <1>a DEF WriteOnL, Register!vars
    <2>5. CASE WriteOnH(t)
        BY <2>5, <1>a DEF WriteOnH, Register!vars
    <2>6. CASE WriteOffL(t)
        <3>1. target[t].channel \in Channels /\ Low(target[t].count) = target[t].count
            BY CountsFit DEF Targets
        <3>2. status[t] = "asked" /\ status' = [status EXCEPT ![t] = "done"]
            BY <2>6 DEF WriteOffL
        <3>3. width' = [width EXCEPT ![target[t].channel] = target[t].count]
            BY <2>6, <3>1, <1>a DEF WriteOffL
        <3>4. lit' = lit /\ target' = target
            BY <2>6 DEF WriteOffL
        <3>5. Register!Effect(t)
            BY <3>2, <3>3, <3>4 DEF Register!Effect
        <3> QED BY <3>5 DEF Register!Next
    <2>7. CASE WriteOffH(t)
        <3>1. target[t].channel \in Channels /\ High(target[t].count) = 0
            BY CountsFit DEF Targets
        <3>2. status[t] = "done" /\ status' = [status EXCEPT ![t] = "none"]
            BY <2>7 DEF WriteOffH
        <3>3. lit' = [lit EXCEPT ![target[t].channel] = TRUE]
            <4>1. offH' = [offH EXCEPT ![target[t].channel] = 0]
                BY <2>7, <3>1 DEF WriteOffH
            <4>2. \A c \in Channels :
                     (offH'[c] # FullOff) <=> (c = target[t].channel \/ offH[c] # FullOff)
                BY <4>1, <3>1 DEF FullOff
            <4>3. lit' = [c \in Channels |-> c = target[t].channel \/ offH[c] # FullOff]
                BY <4>2, Zenon
            <4> QED BY <4>3, <3>1, Zenon
        <3>4. width' = width /\ target' = target
            BY <2>7, <1>a DEF WriteOffH
        <3>5. Register!Return(t)
            BY <3>2, <3>3, <3>4 DEF Register!Return
        <3> QED BY <3>5 DEF Register!Next
    <2>8. CASE Exit(t) BY <2>8, <1>a DEF Exit, Register!vars
    <2>9. CASE Fault(t)
        <3>1. width' = width /\ lit' = lit /\ target' = target
            BY <2>9, <1>a DEF Fault
        <3>2. CASE pc[t] \in Writing
            <4>1. status[t] # "none" /\ status' = [status EXCEPT ![t] = "none"]
                BY <2>9, <3>2 DEF Fault, Writing
            <4>2. Register!Fail(t)
                BY <3>1, <4>1 DEF Register!Fail
            <4> QED BY <4>2 DEF Register!Next
        <3>3. CASE pc[t] \notin Writing
            <4>1. status' = status
                BY <2>9, <3>3 DEF Fault, Writing
            <4> QED BY <3>1, <4>1 DEF Register!vars
        <3> QED BY <3>2, <3>3
    <2> QED
        BY <1>2, <2>1, <2>2, <2>3, <2>4, <2>5, <2>6, <2>7, <2>8, <2>9 DEF ThreadStep, Write
<1>3. CASE Crash
    <2>1. status' = [t \in Threads |-> "none"]
        BY <1>3 DEF Crash
    <2>2. width' = width /\ lit' = lit /\ target' = target
        BY <1>3, <1>a DEF Crash, leds
    <2>3. Register!Crash
        BY <2>1, <2>2 DEF Register!Crash
    <2> QED BY <2>3 DEF Register!Next
<1>4. CASE UNCHANGED vars BY <1>4, <1>a DEF vars, leds, Register!vars
<1> QED BY <1>1, <1>2, <1>3, <1>4 DEF Next

\* The four transfers of setPWM are one write, for any number of threads.
THEOREM Implements == Spec => ImplementsRegister
<1>1. Init => Register!Init
    BY InitRefines
<1>2. TypeOK /\ TypeOK' /\ [Next]_vars => [Register!Next]_Register!vars
    BY StepRefines
<1> QED BY <1>1, <1>2, TypeCorrect, PTL DEF Spec, Register!Spec, ImplementsRegister
=============================================================================
