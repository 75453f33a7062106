----------------------------- MODULE FrameFeed -----------------------------
(***************************************************************************)
(* What the streaming server promises its clients: one source announces    *)
(* frames, and a client that waits is given the frame that is the latest   *)
(* at the moment it takes it, whole and in one step.                       *)
(***************************************************************************)
CONSTANTS
    Clients,    \* the browsers
    Frames,     \* what the source may announce
    NoFrame,    \* nothing was announced yet, or an empty frame
    Garbage     \* what memory holds that is in use no more

VARIABLES
    latest,     \* the frame announced last
    alive,      \* the source has not ended
    state,      \* what each client does
    held        \* the frame each client was given last

vars == <<latest, alive, state, held>>

\* A frame is announced: everybody who waits may take it.
Announce(f) ==
    /\ alive
    /\ latest' = f
    /\ state' = [c \in Clients |-> IF state[c] = "waiting" THEN "ready" ELSE state[c]]
    /\ UNCHANGED <<alive, held>>

End ==
    /\ alive /\ alive' = FALSE
    /\ UNCHANGED <<latest, state, held>>

Ask(c) ==
    /\ state[c] = "idle" /\ state' = [state EXCEPT ![c] = "waiting"]
    /\ UNCHANGED <<latest, alive, held>>

\* A wait may end without a frame.
Nudge(c) ==
    /\ state[c] = "waiting" /\ state' = [state EXCEPT ![c] = "ready"]
    /\ UNCHANGED <<latest, alive, held>>

\* Once the source has ended nothing is promised about what is taken.
Take(c) ==
    /\ state[c] = "ready" /\ state' = [state EXCEPT ![c] = "idle"]
    /\ \E f \in Frames \cup {NoFrame, Garbage} :
          /\ alive => f = latest
          /\ held' = [held EXCEPT ![c] = f]
    /\ UNCHANGED <<latest, alive>>

GiveUp(c) ==
    /\ state[c] = "ready" /\ state' = [state EXCEPT ![c] = "idle"]
    /\ UNCHANGED <<latest, alive, held>>

Init ==
    /\ latest = NoFrame /\ alive = TRUE
    /\ state = [c \in Clients |-> "idle"]
    /\ held = [c \in Clients |-> NoFrame]

Next ==
    \/ \E f \in Frames \cup {NoFrame} : Announce(f)
    \/ End
    \/ \E c \in Clients : Ask(c) \/ Nudge(c) \/ Take(c) \/ GiveUp(c)

Spec == Init /\ [][Next]_vars
=============================================================================
