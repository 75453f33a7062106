--------------------------- MODULE FrameBroadcast ---------------------------
(***************************************************************************)
(* The one frame buffer of mjpg_streamer as main.py starts it: the worker  *)
(* of input_opencv.so fills it, one thread per connection of               *)
(* output_http.so copies it.  A pthread mutex guards it and a condition    *)
(* variable tells of new frames.  in->buf points into jpeg_buffer, a local *)
(* of the worker that is gone when the worker returns.                     *)
(*                                                                         *)
(* What the signal handler of mjpg_streamer does after setting `stop`      *)
(* (cancelling threads, unloading plugins) is not part of this module.     *)
(***************************************************************************)
EXTENDS Integers

CONSTANTS
    Clients,    \* connections at a time
    Frames,     \* encoded frames, records with an id and a size
    Margin,     \* TEN_K
    Spurious    \* pthread_cond_wait may return although nobody broadcast

\* The buffer before the first frame, and after one that could not be encoded.
NoFrame == [id |-> 0, size |-> 0]
Garbage == [id |-> -1, size |-> -1]
Kinds   == {"stream", "snapshot"}

ASSUME FramesAssumption == Frames \subseteq [id : Nat \ {0}, size : Nat \ {0}]
ASSUME MarginAssumption == Margin \in Nat
ASSUME SpuriousAssumption == Spurious \in BOOLEAN
ASSUME ClientsAssumption == Clients \cap {"free", "worker"} = {}

VARIABLES
    worker,     \* where the worker stands
    src,        \* the frame it has read
    jpeg,       \* what in->buf points to, and in->size
    mutex,      \* the holder of in->db
    stop,       \* pglobal->stop
    pc,         \* where the thread of each connection stands
    kind,       \* what the connection asked for
    cap,        \* bytes allocated for `frame`
    frame_size, \* of the frame to be copied
    frame       \* the frame copied

vars == <<worker, src, jpeg, mutex, stop, pc, kind, cap, frame_size, frame>>
workerVars == <<worker, src, jpeg>>

Go(c, from, to) == pc[c] = from /\ pc' = [pc EXCEPT ![c] = to]

----------------------------------------------------------------------------
(* worker_thread *)

Capture ==
    /\ worker = "top" /\ ~stop
    /\ worker' = "lock"
    /\ src' \in Frames
    /\ UNCHANGED <<jpeg, mutex, stop, pc, kind, cap, frame_size, frame>>

\* The loop ends for `stop` or when the camera delivers nothing.
Leave ==
    /\ worker = "top"
    /\ worker' = "ended"
    /\ UNCHANGED <<src, jpeg, mutex, stop, pc, kind, cap, frame_size, frame>>

\* Mutant: the buffer is filled without the mutex.
LockBuffer_Skipped ==
    /\ worker = "lock" /\ worker' = "fill"
    /\ UNCHANGED <<src, jpeg, mutex, stop, pc, kind, cap, frame_size, frame>>

LockBuffer ==
    /\ worker = "lock" /\ worker' = "fill"
    /\ mutex = "free" /\ mutex' = "worker"
    /\ UNCHANGED <<src, jpeg, stop, pc, kind, cap, frame_size, frame>>

\* Mutant: the frame is not announced.
Publish_Silent ==
    /\ worker = "fill" /\ worker' = "unlock"
    /\ jpeg' \in {src, NoFrame} /\ src' = NoFrame
    /\ UNCHANGED <<mutex, stop, pc, kind, cap, frame_size, frame>>

\* imencode, the two assignments and the broadcast, all under the mutex.  Nobody
\* asks whether imencode failed: jpeg_buffer is then empty, and announced all the
\* same.
Publish ==
    /\ worker = "fill" /\ worker' = "unlock"
    /\ jpeg' \in {src, NoFrame} /\ src' = NoFrame
    /\ pc' = [c \in Clients |-> IF pc[c] = "wait" THEN "woken" ELSE pc[c]]
    /\ UNCHANGED <<mutex, stop, kind, cap, frame_size, frame>>

UnlockBuffer ==
    /\ worker = "unlock" /\ worker' = "top"
    /\ mutex' = "free"
    /\ UNCHANGED <<src, jpeg, stop, pc, kind, cap, frame_size, frame>>

----------------------------------------------------------------------------
(* send_stream and send_snapshot, in the thread of connection c *)

Connect(c) ==
    /\ Go(c, "idle", "top")
    /\ \E k \in Kinds : kind' = [kind EXCEPT ![c] = k]
    /\ UNCHANGED <<workerVars, mutex, stop, cap, frame_size, frame>>

\* The connection is closed and its buffer freed.
Close(c, from) ==
    /\ Go(c, from, "idle")
    /\ cap' = [cap EXCEPT ![c] = 0]

\* pthread_mutex_lock and pthread_cond_wait, which gives the mutex back at once.
Await(c) ==
    /\ kind[c] = "stream" => ~stop
    /\ Go(c, "top", "wait")
    /\ mutex = "free"
    /\ UNCHANGED <<workerVars, mutex, stop, kind, cap, frame_size, frame>>

StopStream(c) ==
    /\ kind[c] = "stream" /\ stop
    /\ Close(c, "top")
    /\ UNCHANGED <<workerVars, mutex, stop, kind, frame_size, frame>>

WakeUp(c) ==
    /\ Spurious
    /\ Go(c, "wait", "woken")
    /\ UNCHANGED <<workerVars, mutex, stop, kind, cap, frame_size, frame>>

\* The end of pthread_cond_wait: the mutex is taken again.
Relock(c) ==
    /\ Go(c, "woken", "size")
    /\ mutex = "free" /\ mutex' = c
    /\ UNCHANGED <<workerVars, stop, kind, cap, frame_size, frame>>

\* Mutant: a larger frame does not enlarge the buffer.
Allocate_Once(c) ==
    /\ Go(c, "size", "copy")
    /\ frame_size' = [frame_size EXCEPT ![c] = jpeg.size]
    /\ cap' = [cap EXCEPT ![c] = IF @ = 0 THEN jpeg.size + Margin ELSE @]
    /\ UNCHANGED <<workerVars, mutex, stop, kind, frame>>

\* frame_size is read and room for it is made.
Allocate(c) ==
    /\ Go(c, "size", "copy")
    /\ frame_size' = [frame_size EXCEPT ![c] = jpeg.size]
    /\ cap' = [cap EXCEPT ![c] =
                  IF kind[c] = "snapshot" THEN jpeg.size + 1
                  ELSE IF jpeg.size > @ THEN jpeg.size + Margin ELSE @]
    /\ UNCHANGED <<workerVars, mutex, stop, kind, frame>>

\* Out of memory: the mutex is given back and the answer is 500.
AllocateFails(c) ==
    /\ Close(c, "size")
    /\ mutex' = "free"
    /\ UNCHANGED <<workerVars, stop, kind, frame_size, frame>>

\* Mutant: the thread keeps the mutex while it writes to the client.
Copy_KeepsMutex(c) ==
    /\ Go(c, "copy", "send")
    /\ \E f \in IF worker = "ended" THEN Frames \cup {NoFrame, Garbage} ELSE {jpeg} :
          frame' = [frame EXCEPT ![c] = f]
    /\ UNCHANGED <<workerVars, mutex, stop, kind, cap, frame_size>>

\* memcpy and unlock.  After the worker has returned, in->buf points to memory
\* that is in use no more: the copy may still be a frame or anything else.
Copy(c) ==
    /\ Go(c, "copy", "send")
    /\ \E f \in IF worker = "ended" THEN Frames \cup {NoFrame, Garbage} ELSE {jpeg} :
          frame' = [frame EXCEPT ![c] = f]
    /\ mutex' = "free"
    /\ UNCHANGED <<workerVars, stop, kind, cap, frame_size>>

\* The write to the client; a stream goes on unless it fails.
Send(c) ==
    /\ \/ kind[c] = "stream" /\ Go(c, "send", "top") /\ UNCHANGED cap
       \/ Close(c, "send")
    /\ frame_size' = [frame_size EXCEPT ![c] = 0]
    /\ UNCHANGED <<workerVars, mutex, stop, kind, frame>>

----------------------------------------------------------------------------

\* signal_handler, from another thread than those above.
SetStop ==
    /\ ~stop /\ stop' = TRUE
    /\ UNCHANGED <<workerVars, mutex, pc, kind, cap, frame_size, frame>>

Init ==
    /\ worker = "top" /\ src = NoFrame /\ jpeg = NoFrame
    /\ mutex = "free" /\ stop = FALSE
    /\ pc = [c \in Clients |-> "idle"]
    /\ kind = [c \in Clients |-> "stream"]
    /\ cap = [c \in Clients |-> 0]
    /\ frame_size = [c \in Clients |-> 0] /\ frame = [c \in Clients |-> NoFrame]

WorkerStep == Capture \/ Leave \/ LockBuffer \/ Publish \/ UnlockBuffer

ClientStep(c) ==
    \/ Await(c) \/ StopStream(c) \/ Relock(c)
    \/ Allocate(c) \/ AllocateFails(c) \/ Copy(c) \/ Send(c)

Next ==
    \/ WorkerStep
    \/ \E c \in Clients : Connect(c) \/ ClientStep(c) \/ WakeUp(c)
    \/ SetStop

Spec == Init /\ [][Next]_vars

\* Threads run.  A thread that wants the mutex is not passed over for ever: the
\* mutex is free for the whole of every capture.  Nothing obliges a client to
\* connect, a wait to end by itself or a signal to come.
Fairness ==
    /\ WF_vars(WorkerStep) /\ SF_vars(LockBuffer)
    /\ \A c \in Clients :
          WF_vars(ClientStep(c)) /\ SF_vars(Relock(c)) /\ SF_vars(Await(c))

FairSpec == Spec /\ Fairness

----------------------------------------------------------------------------

Copying == {"size", "copy"}

\* What is known of src: between capture and encoding it is a frame.
Read == worker \in {"lock", "fill"} => src \in Frames

\* Where each thread may stand; whoever holds the mutex is between taking it and
\* giving it back, and nobody else is.
TypeOK ==
    /\ worker \in {"top", "lock", "fill", "unlock", "ended"}
    /\ src \in Frames \cup {NoFrame} /\ Read /\ jpeg \in Frames \cup {NoFrame}
    /\ stop \in BOOLEAN
    /\ pc \in [Clients -> {"idle", "top", "wait", "woken", "send"} \cup Copying]
    /\ kind \in [Clients -> Kinds] /\ cap \in [Clients -> Nat]
    /\ frame_size \in [Clients -> Nat]
    /\ frame \in [Clients -> Frames \cup {NoFrame, Garbage}]
    /\ mutex = "worker" <=> worker \in {"fill", "unlock"}
    /\ \A c \in Clients : mutex = c <=> pc[c] \in Copying

\* What is sent is whole while the worker lives: the bytes are those of the frame
\* whose size was read before, although the size and the bytes are read in two
\* steps and the worker re-encodes into the same memory.
WholeFrame ==
    \A c \in Clients :
        pc[c] = "send" /\ worker # "ended" => frame_size[c] = frame[c].size

\* memcpy never runs past the allocation, whichever sizes follow one another
\* within a stream.
CopyFits == \A c \in Clients : pc[c] = "copy" => frame_size[c] <= cap[c]

\* Every connection that waits is served as long as the worker lives: the mutex
\* and the lone cond_wait lose no client.
WaitersServed ==
    \A c \in Clients : pc[c] = "wait" ~> (pc[c] \in {"send", "idle"} \/ worker = "ended")

\* The server implements the abstract feed.
Feed == INSTANCE FrameFeed WITH
    latest <- jpeg,
    alive  <- worker # "ended",
    state  <- [c \in Clients |-> IF pc[c] = "wait" THEN "waiting"
                                 ELSE IF pc[c] \in {"woken"} \cup Copying THEN "ready"
                                 ELSE "idle"],
    held   <- frame

ImplementsFeed == Feed!Spec
=============================================================================
