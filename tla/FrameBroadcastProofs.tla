------------------------ MODULE FrameBroadcastProofs ------------------------
(***************************************************************************)
(* The frame buffer for any number of connections and any set of frames:   *)
(* types and mutual exclusion, whole frames, copies that fit, and the      *)
(* implementation of the abstract feed.                                    *)
(***************************************************************************)
EXTENDS FrameBroadcast, TLAPS

\* While a thread is between reading frame_size and copying, the buffer is the
\* one whose size it has read, and its allocation is large enough.
SizeHolds ==
    \A c \in Clients : pc[c] = "copy" => frame_size[c] = jpeg.size /\ frame_size[c] <= cap[c]

\* The inductive invariant.  WholeFrame depends on what is copied, which depends
\* on nobody re-encoding between the two reads, which is the mutex of TypeOK.
IInv == TypeOK /\ SizeHolds /\ WholeFrame

LEMMA SizesAreNumbers ==
    /\ \A f \in Frames \cup {NoFrame} : f.size \in Nat
    /\ Garbage \notin Frames
BY FramesAssumption DEF NoFrame, Garbage

LEMMA InitEstablishes == Init => IInv
<1> SUFFICES ASSUME Init PROVE IInv
    OBVIOUS
<1>1. TypeOK
    BY ClientsAssumption DEF Init, TypeOK, Copying, NoFrame, Kinds, Read
<1>2. SizeHolds /\ WholeFrame
    BY DEF Init, SizeHolds, WholeFrame
<1> QED
    BY <1>1, <1>2 DEF IInv

\* Every step keeps the types and the mutual exclusion.
LEMMA TypePreserved == TypeOK /\ [Next]_vars => TypeOK'
<1> SUFFICES ASSUME TypeOK, [Next]_vars PROVE TypeOK'
    OBVIOUS
<1> USE ClientsAssumption DEF TypeOK, Copying, Read
<1>1. CASE WorkerStep
    <2>1. CASE Capture BY <2>1 DEF Capture
    <2>2. CASE Leave BY <2>2 DEF Leave
    <2>3. CASE LockBuffer BY <2>3 DEF LockBuffer
    <2>4. CASE Publish BY <2>4 DEF Publish
    <2>5. CASE UnlockBuffer BY <2>5 DEF UnlockBuffer
    <2> QED BY <1>1, <2>1, <2>2, <2>3, <2>4, <2>5 DEF WorkerStep
<1>2. ASSUME NEW c \in Clients, Connect(c) \/ ClientStep(c) \/ WakeUp(c) PROVE TypeOK'
    <2> USE DEF workerVars, Go, Close
    <2>1. CASE Connect(c) BY <2>1 DEF Connect
    <2>2. CASE Await(c) BY <2>2 DEF Await
    <2>3. CASE StopStream(c) BY <2>3 DEF StopStream
    <2>4. CASE WakeUp(c) BY <2>4 DEF WakeUp
    <2>5. CASE Relock(c) BY <2>5 DEF Relock
    <2>6. CASE Allocate(c) BY <2>6, SizesAreNumbers, MarginAssumption DEF Allocate
    <2>7. CASE AllocateFails(c) BY <2>7 DEF AllocateFails
    <2>8. CASE Copy(c) BY <2>8 DEF Copy
    <2>9. CASE Send(c) BY <2>9 DEF Send
    <2> QED
        BY <1>2, <2>1, <2>2, <2>3, <2>4, <2>5, <2>6, <2>7, <2>8, <2>9 DEF ClientStep
<1>3. CASE SetStop BY <1>3 DEF SetStop, workerVars
<1>4. CASE UNCHANGED vars BY <1>4 DEF vars
<1> QED BY <1>1, <1>2, <1>3, <1>4 DEF Next

\* Only Allocate brings a thread to the copy, and nobody re-encodes before it
\* copies: the worker would have to hold the mutex.
LEMMA SizePreserved == TypeOK /\ SizeHolds /\ [Next]_vars => SizeHolds'
<1> SUFFICES ASSUME TypeOK, SizeHolds, [Next]_vars PROVE SizeHolds'
    OBVIOUS
<1> USE DEF SizeHolds
<1>1. CASE WorkerStep
    <2>1. CASE Publish
        <3>1. \A d \in Clients : pc[d] # "copy"
            BY <2>1, ClientsAssumption DEF Publish, TypeOK, Copying
        <3> QED BY <2>1, <3>1 DEF Publish
    <2>2. CASE Capture \/ Leave \/ LockBuffer \/ UnlockBuffer
        BY <2>2 DEF Capture, Leave, LockBuffer, UnlockBuffer
    <2> QED BY <1>1, <2>1, <2>2 DEF WorkerStep
<1>2. ASSUME NEW c \in Clients, Connect(c) \/ ClientStep(c) \/ WakeUp(c) PROVE SizeHolds'
    <2> USE DEF TypeOK, workerVars, Go, Close
    <2>1. CASE Connect(c) \/ Await(c) \/ WakeUp(c) \/ Relock(c)
        BY <2>1 DEF Connect, Await, WakeUp, Relock
    <2>2. CASE StopStream(c) \/ AllocateFails(c)
        BY <2>2 DEF StopStream, AllocateFails
    <2>3. CASE Allocate(c)
        BY <2>3, SizesAreNumbers, MarginAssumption DEF Allocate
    <2>4. CASE Copy(c) BY <2>4 DEF Copy
    <2>5. CASE Send(c) BY <2>5 DEF Send
    <2> QED BY <1>2, <2>1, <2>2, <2>3, <2>4, <2>5 DEF ClientStep
<1>3. CASE SetStop BY <1>3 DEF SetStop, workerVars
<1>4. CASE UNCHANGED vars BY <1>4 DEF vars
<1> QED BY <1>1, <1>2, <1>3, <1>4 DEF Next

LEMMA WholePreserved == IInv /\ [Next]_vars => WholeFrame'
<1> SUFFICES ASSUME IInv, [Next]_vars PROVE WholeFrame'
    OBVIOUS
<1> USE DEF IInv, WholeFrame
<1>1. CASE WorkerStep
    BY <1>1 DEF WorkerStep, Capture, Leave, LockBuffer, Publish, UnlockBuffer
<1>2. ASSUME NEW c \in Clients, Connect(c) \/ ClientStep(c) \/ WakeUp(c) PROVE WholeFrame'
    <2> USE DEF TypeOK, workerVars, Go, Close
    <2>1. CASE Connect(c) \/ Await(c) \/ WakeUp(c) \/ Relock(c)
        BY <2>1 DEF Connect, Await, WakeUp, Relock
    <2>2. CASE StopStream(c) \/ AllocateFails(c)
        BY <2>2 DEF StopStream, AllocateFails
    <2>3. CASE Allocate(c) BY <2>3 DEF Allocate
    <2>4. CASE Copy(c) BY <2>4 DEF Copy, SizeHolds
    <2>5. CASE Send(c) BY <2>5 DEF Send
    <2> QED BY <1>2, <2>1, <2>2, <2>3, <2>4, <2>5 DEF ClientStep
<1>3. CASE SetStop BY <1>3 DEF SetStop, workerVars
<1>4. CASE UNCHANGED vars BY <1>4 DEF vars
<1> QED BY <1>1, <1>2, <1>3, <1>4 DEF Next

THEOREM Inductive == Spec => []IInv
<1>1. Init => IInv
    BY InitEstablishes
<1>2. IInv /\ [Next]_vars => IInv'
    BY TypePreserved, SizePreserved, WholePreserved DEF IInv
<1> QED BY <1>1, <1>2, PTL DEF Spec

\* Types, and mutual exclusion on in->db, for any number of connections.
THEOREM TypeCorrect == Spec => []TypeOK
<1>1. IInv => TypeOK
    BY DEF IInv
<1> QED BY <1>1, Inductive, PTL

\* The size and the bytes a client sends belong together.
THEOREM FramesWhole == Spec => []WholeFrame
<1>1. IInv => WholeFrame
    BY DEF IInv
<1> QED BY <1>1, Inductive, PTL

\* No copy runs past its allocation.
THEOREM CopiesFit == Spec => []CopyFits
<1>1. IInv => CopyFits
    BY DEF IInv, SizeHolds, CopyFits
<1> QED BY <1>1, Inductive, PTL

----------------------------------------------------------------------------
(* The refinement, step by step. *)

LEMMA InitRefines == Init => Feed!Init
BY DEF Init, Feed!Init, Copying

\* Each step of the server is one step of the feed or none.
LEMMA StepRefines == IInv /\ [Next]_vars => [Feed!Next]_Feed!vars
<1> SUFFICES ASSUME IInv, [Next]_vars PROVE [Feed!Next]_Feed!vars
    OBVIOUS
<1> USE DEF IInv, TypeOK, Copying
<1>1. CASE WorkerStep
    <2>1. CASE Publish
        <3>1. worker # "ended" /\ worker' # "ended"
            BY <2>1 DEF Publish
        <3>2. PICK f \in Frames \cup {NoFrame} : f = jpeg'
            BY <2>1 DEF Publish, Read
        <3>3. Feed!Announce(f)
            BY <2>1, <3>1, <3>2 DEF Publish, Feed!Announce
        <3> QED BY <3>3 DEF Feed!Next
    <2>2. CASE Leave
        BY <2>2 DEF Leave, Feed!Next, Feed!End
    <2>3. CASE Capture \/ LockBuffer \/ UnlockBuffer
        BY <2>3 DEF Capture, LockBuffer, UnlockBuffer, Feed!vars
    <2> QED BY <1>1, <2>1, <2>2, <2>3 DEF WorkerStep
<1>2. ASSUME NEW c \in Clients, Connect(c) \/ ClientStep(c) \/ WakeUp(c)
      PROVE [Feed!Next]_Feed!vars
    <2> USE DEF workerVars, Go, Close
    <2>1. CASE Connect(c) BY <2>1 DEF Connect, Feed!vars
    <2>2. CASE Await(c)
        <3>1. Feed!Ask(c) BY <2>2 DEF Await, Feed!Ask
        <3> QED BY <3>1 DEF Feed!Next
    <2>3. CASE StopStream(c) BY <2>3 DEF StopStream, Feed!vars
    <2>4. CASE WakeUp(c) BY <2>4 DEF WakeUp, Feed!Next, Feed!Nudge
    <2>5. CASE Relock(c) BY <2>5 DEF Relock, Feed!vars
    <2>6. CASE Allocate(c) BY <2>6 DEF Allocate, Feed!vars
    <2>7. CASE AllocateFails(c) BY <2>7 DEF AllocateFails, Feed!Next, Feed!GiveUp
    <2>8. CASE Copy(c)
        <3>1. Feed!Take(c) BY <2>8 DEF Copy, Feed!Take
        <3> QED BY <3>1 DEF Feed!Next
    <2>9. CASE Send(c) BY <2>9 DEF Send, Feed!vars
    <2> QED
        BY <1>2, <2>1, <2>2, <2>3, <2>4, <2>5, <2>6, <2>7, <2>8, <2>9 DEF ClientStep
<1>3. CASE SetStop BY <1>3 DEF SetStop, workerVars, Feed!vars
<1>4. CASE UNCHANGED vars BY <1>4 DEF vars, Feed!vars
<1> QED BY <1>1, <1>2, <1>3, <1>4 DEF Next

\* The server implements the feed, for any number of connections.
THEOREM Implements == Spec => ImplementsFeed
<1>1. Init => Feed!Init
    BY InitRefines
<1>2. IInv /\ [Next]_vars => [Feed!Next]_Feed!vars
    BY StepRefines
<1> QED BY <1>1, <1>2, Inductive, PTL DEF Spec, Feed!Spec, ImplementsFeed
=============================================================================
