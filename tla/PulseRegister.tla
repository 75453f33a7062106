--------------------------- MODULE PulseRegister ---------------------------
(***************************************************************************)
(* What the PWM driver promises the threads that move servos: a channel    *)
(* holds the count of the pulse that was written last, as if every write   *)
(* took place at one moment, and it puts out pulses once a write has ended.*)
(***************************************************************************)
CONSTANTS
    Threads,    \* who writes
    Channels,   \* the servos
    Counts      \* lengths of a pulse, in ticks

VARIABLES
    width,      \* the count each channel holds
    lit,        \* the channel puts out pulses
    status,     \* what each thread does: "none", "asked" or "done"
    target      \* the channel and the count each thread writes

vars == <<width, lit, status, target>>

Ask(t) ==
    /\ status[t] = "none" /\ status' = [status EXCEPT ![t] = "asked"]
    /\ \E c \in Channels, n \in Counts :
          target' = [target EXCEPT ![t] = [channel |-> c, count |-> n]]
    /\ UNCHANGED <<width, lit>>

\* The one moment of the write.
Effect(t) ==
    /\ status[t] = "asked" /\ status' = [status EXCEPT ![t] = "done"]
    /\ width' = [width EXCEPT ![target[t].channel] = target[t].count]
    /\ UNCHANGED <<lit, target>>

Return(t) ==
    /\ status[t] = "done" /\ status' = [status EXCEPT ![t] = "none"]
    /\ lit' = [lit EXCEPT ![target[t].channel] = TRUE]
    /\ UNCHANGED <<width, target>>

\* A write that fails has taken place or has not.
Fail(t) ==
    /\ status[t] # "none" /\ status' = [status EXCEPT ![t] = "none"]
    /\ UNCHANGED <<width, lit, target>>

\* The process ends; the channels keep what they hold.
Crash ==
    /\ status' = [t \in Threads |-> "none"]
    /\ UNCHANGED <<width, lit, target>>

Init ==
    /\ lit \in [Channels -> BOOLEAN]
    /\ status = [t \in Threads |-> "none"]

Next ==
    \/ \E t \in Threads : Ask(t) \/ Effect(t) \/ Return(t) \/ Fail(t)
    \/ Crash

Spec == Init /\ [][Next]_vars
=============================================================================
