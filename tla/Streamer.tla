------------------------------ MODULE Streamer ------------------------------
(***************************************************************************)
(* The life of the mjpg_streamer process that main.py starts: main() loads *)
(* input_opencv.so and output_http.so and starts the worker and the server *)
(* thread, the server starts a thread for each connection, and CTRL+C runs *)
(* signal_handler, which interrupts main() wherever it is.                 *)
(*                                                                         *)
(* The handler sleeps twice for a second and relies on what the other      *)
(* threads do meanwhile.  Settled says what that is: whoever computes gets *)
(* on, whoever waits for the camera, a connection or a frame may go on     *)
(* waiting.  Frames and requests themselves are those of FrameBroadcast    *)
(* and HttpConnection.                                                     *)
(***************************************************************************)
EXTENDS Naturals, Sequences, FiniteSets

CONSTANTS
    Conns,      \* clients that connect, once each
    Sockets,    \* numbers of the listening sockets, one per address family
    MaxErrors   \* bound: how often accept() returns -1

ASSUME ConnsAssumption == "error" \notin Conns /\ MaxErrors \in Nat
ASSUME SocketsAssumption == Sockets # {} /\ Sockets \subseteq Nat

VARIABLES
    camera,     \* "steady", or "hangs": read() may last longer than a sleep
    main,       \* where main() stands
    handler,    \* where signal_handler stands
    stop,       \* global.stop
    status,     \* of the process
    known,      \* pointers that start-up has set
    mapped,     \* plugins whose code is loaded
    context,    \* in->context: "none", "owned" or "dangling"
    cond,       \* in->db_update and in->db: "none", "ok" or "destroyed"
    cancelled,  \* threads that pthread_cancel was called for
    worker,     \* where worker_thread stands
    server,     \* where server_thread stands
    queue,      \* connections waiting to be accepted, by socket
    ready,      \* selectfds
    cells,      \* memory from malloc(sizeof(cfd)): what it holds, how often freed
    threads,    \* client threads in the order of their creation
    refused,    \* connections closed because no thread could be started, and those
                \* whose client was gone before accept()
    absent      \* clients that have not connected yet

control == <<camera, stop, status, cancelled>>
setup == <<known, mapped, context, cond>>
accepting == <<queue, ready, cells, refused, absent>>
vars == <<control, main, handler, setup, worker, server, accepting, threads>>

Running == status = "running"

----------------------------------------------------------------------------
(* main(): one plugin of each kind *)

Main(from, to) == Running /\ handler = "idle" /\ main = from /\ main' = to

OpenInput ==
    /\ Main("in_open", "in_symbols")
    /\ mapped' = mapped \cup {"input"} /\ cond' = "ok"
    /\ UNCHANGED <<control, handler, known, context, worker, server, accepting, threads>>

FindInput ==
    /\ Main("in_symbols", "in_init") /\ known' = known \cup {"input_stop"}
    /\ UNCHANGED <<control, handler, mapped, context, cond, worker, server, accepting,
                   threads>>

\* input_init: the context is there before the camera is opened.
InitInput ==
    /\ Main("in_init", "in_camera")
    /\ known' = known \cup {"pglobal"} /\ context' = "owned"
    /\ UNCHANGED <<control, handler, mapped, cond, worker, server, accepting, threads>>

OpenCamera ==
    /\ Main("in_camera", "out_open")
    /\ UNCHANGED <<control, handler, setup, worker, server, accepting, threads>>

OpenOutput ==
    /\ Main("out_open", "out_symbols") /\ mapped' = mapped \cup {"output"}
    /\ UNCHANGED <<control, handler, known, context, cond, worker, server, accepting, threads>>

FindOutput ==
    /\ Main("out_symbols", "in_run") /\ known' = known \cup {"output_stop"}
    /\ UNCHANGED <<control, handler, mapped, context, cond, worker, server, accepting,
                   threads>>

RunInput ==
    /\ Main("in_run", "out_run") /\ worker' = "top"
    /\ UNCHANGED <<control, handler, setup, server, accepting, threads>>

RunOutput ==
    /\ Main("out_run", "pause") /\ server' = "listen"
    /\ UNCHANGED <<control, handler, setup, worker, accepting, threads>>

\* A library, a symbol or the camera is missing, or an option is refused; the
\* process ends with EXIT_FAILURE, or with 0 when input_init returns it.
StartFails ==
    /\ Running /\ handler = "idle" /\ main \notin {"out_run", "pause"}
    /\ status' \in {"failed"} \cup (IF main = "in_camera" THEN {"exited"} ELSE {})
    /\ UNCHANGED <<camera, stop, cancelled, main, handler, setup, worker, server, accepting,
                   threads>>

MainStep ==
    \/ OpenInput \/ FindInput \/ InitInput \/ OpenCamera
    \/ OpenOutput \/ FindOutput \/ RunInput \/ RunOutput

----------------------------------------------------------------------------
(* worker_thread and worker_cleanup of input_opencv *)

Work(from, to) == Running /\ worker = from /\ worker' = to

TestStop ==
    /\ Work("top", IF stop THEN "cleanup" ELSE "read")
    /\ UNCHANGED <<control, main, handler, setup, server, accepting, threads>>

Deliver ==
    /\ Work("read", "publish")
    /\ UNCHANGED <<control, main, handler, setup, server, accepting, threads>>

CameraFails ==
    /\ Work("read", "cleanup")
    /\ UNCHANGED <<control, main, handler, setup, server, accepting, threads>>

\* read() is a cancellation point.
WorkerCancelled ==
    /\ "worker" \in cancelled /\ Work("read", "cleanup")
    /\ UNCHANGED <<control, main, handler, setup, server, accepting, threads>>

Publish ==
    /\ Work("publish", "top")
    /\ threads' = [t \in DOMAIN threads |->
                      IF threads[t].at = "wait" THEN [threads[t] EXCEPT !.at = "send"]
                      ELSE threads[t]]
    /\ UNCHANGED <<control, main, handler, setup, server, accepting>>

\* delete pctx, then in->context = NULL.
DeleteContext ==
    /\ Work("cleanup", "clear") /\ context' = "dangling"
    /\ UNCHANGED <<control, main, handler, known, mapped, cond, server, accepting, threads>>

ClearContext ==
    /\ Work("clear", "ended") /\ context' = "none"
    /\ UNCHANGED <<control, main, handler, known, mapped, cond, server, accepting, threads>>

Camera == Deliver \/ CameraFails
WorkerStep == TestStop \/ Publish \/ WorkerCancelled \/ DeleteContext \/ ClearContext

----------------------------------------------------------------------------
(* server_thread of output_http *)

Serve(from, to) == Running /\ server = from /\ server' = to

Listen ==
    /\ Serve("listen", "top")
    /\ UNCHANGED <<control, main, handler, setup, worker, accepting, threads>>

\* No address can be bound: the whole process ends.
BindFails ==
    /\ Running /\ server = "listen" /\ status' = "failed"
    /\ UNCHANGED <<camera, stop, cancelled, main, handler, setup, worker, server, accepting,
                   threads>>

\* Mutant: the memory for the descriptor is taken once, before the loop.
NextRound_OneCell ==
    /\ Serve("top", IF stop THEN "ended" ELSE "select")
    /\ cells' = IF cells = <<>> THEN <<[fd |-> "none", frees |-> 0]>> ELSE cells
    /\ UNCHANGED <<control, main, handler, setup, worker, queue, ready, refused, absent,
                   threads>>

\* One malloc for each turn of the loop.
NextRound ==
    /\ Serve("top", IF stop THEN "ended" ELSE "select")
    /\ cells' = IF stop THEN cells ELSE Append(cells, [fd |-> "none", frees |-> 0])
    /\ UNCHANGED <<control, main, handler, setup, worker, queue, ready, refused, absent,
                   threads>>

Queued == {s \in Sockets : queue[s] # <<>>}

\* Mutant: the result of select() is not tested.
Select_Untested ==
    /\ Serve("select", "accept") /\ ready' = Sockets
    /\ UNCHANGED <<control, main, handler, setup, worker, queue, cells, refused, absent,
                   threads>>

Select ==
    /\ Serve("select", "accept") /\ Queued # {} /\ ready' = Queued
    /\ UNCHANGED <<control, main, handler, setup, worker, queue, cells, refused, absent,
                   threads>>

\* The ready socket whose turn it is.
Turn(s) == s \in ready /\ \A r \in ready : s <= r

\* What accept() returns: the first connection of the queue, or -1.  Then the
\* client has gone, or no descriptor is left and the connection stays.
Errors == Cardinality({k \in DOMAIN cells : cells[k].fd = "error"})
Descriptors(s) == {Head(queue[s])} \cup (IF Errors < MaxErrors THEN {"error"} ELSE {})

Store(fd) == [cells EXCEPT ![Len(cells)].fd = fd]

Accepted(s, fd) ==
    /\ ready' = ready \ {s}
    /\ \/ queue' = [queue EXCEPT ![s] = Tail(@)]
       \/ fd = "error" /\ UNCHANGED queue
    /\ Serve("accept", IF ready' = {} THEN "top" ELSE "accept")

\* The connection that left the queue, if one did.
Left(s) == IF queue' = queue THEN {} ELSE {Head(queue[s])}

NewThread == [at |-> "start", cell |-> Len(cells), fd |-> "none", kind |-> "none"]

\* Mutant: the thread ends with its first connection.
Accept_Once(s) ==
    /\ Turn(s) /\ queue' = [queue EXCEPT ![s] = Tail(@)] /\ ready' = ready \ {s}
    /\ Serve("accept", "ended")
    /\ cells' = Store(Head(queue[s])) /\ threads' = Append(threads, NewThread)
    /\ UNCHANGED <<control, main, handler, setup, worker, refused, absent>>

\* accept() writes to the memory of this turn, whichever socket it is for, and a
\* thread is started for whatever it returned.
Accept(s) ==
    /\ Turn(s)
    /\ \E fd \in Descriptors(s) :
          /\ Accepted(s, fd)
          /\ cells' = Store(fd) /\ threads' = Append(threads, NewThread)
          /\ refused' = IF fd = "error" THEN refused \cup Left(s) ELSE refused
    /\ UNCHANGED <<control, main, handler, setup, worker, absent>>

\* pthread_create fails.
NoThread(s) ==
    /\ Turn(s)
    /\ \E fd \in Descriptors(s) :
          /\ Accepted(s, fd)
          /\ cells' = [Store(fd) EXCEPT ![Len(cells)].frees = @ + 1]
          /\ refused' = refused \cup Left(s)
    /\ UNCHANGED <<control, main, handler, setup, worker, absent, threads>>

\* select() and accept() are cancellation points; server_cleanup closes the sockets.
ServerCancelled ==
    /\ Running /\ "server" \in cancelled
    /\ server \in {"select", "accept"} /\ server' = "ended"
    /\ UNCHANGED <<control, main, handler, setup, worker, accepting, threads>>

ServerStep ==
    \/ Listen \/ NextRound \/ Select \/ ServerCancelled
    \/ \E s \in Sockets : Accept(s) \/ NoThread(s)

\* A client connects.
Connect(c, s) ==
    /\ Running /\ server \in {"top", "select", "accept"} /\ c \in absent
    /\ queue' = [queue EXCEPT ![s] = Append(@, c)] /\ absent' = absent \ {c}
    /\ UNCHANGED <<control, main, handler, setup, worker, server, ready, cells, refused,
                   threads>>

----------------------------------------------------------------------------
(* client_thread of output_http, t-th thread *)

\* The thread goes on while the code of output_http is loaded; what was asked for
\* is forgotten at its end.
Client(t, from, to) ==
    /\ Running /\ "output" \in mapped /\ threads[t].at = from
    /\ threads' = [threads EXCEPT ![t].at = to,
                                  ![t].kind = IF to = "ended" THEN "none" ELSE @]

\* memcpy(&lcfd, arg) and free(arg).
TakeArgument(t) ==
    LET k == threads[t].cell IN
    /\ Running /\ "output" \in mapped /\ threads[t].at = "start"
    /\ threads' = [threads EXCEPT ![t].at = "receive", ![t].fd = cells[k].fd]
    /\ cells' = [cells EXCEPT ![k].frees = @ + 1]
    /\ UNCHANGED <<control, main, handler, setup, worker, server, queue, ready, refused,
                   absent>>

\* The request asks for frames; from descriptor -1 nothing can be read.
Request(t) ==
    /\ Running /\ "output" \in mapped /\ threads[t].at = "receive"
    /\ threads[t].fd # "error"
    /\ \E k \in {"stream", "snapshot"} :
          threads' = [threads EXCEPT ![t].at = "top", ![t].kind = k]
    /\ UNCHANGED <<control, main, handler, setup, worker, server, accepting>>

\* It asks for something else, or nothing came for five seconds.
AnswerOther(t) ==
    /\ Client(t, "receive", "ended")
    /\ UNCHANGED <<control, main, handler, setup, worker, server, accepting>>

\* The handler may have destroyed the mutex and the condition variable: a wait on
\* them may return at once.
Await(t) ==
    /\ threads[t].kind = "stream" => ~stop
    /\ Client(t, "top", "wait") \/ (cond = "destroyed" /\ Client(t, "top", "send"))
    /\ UNCHANGED <<control, main, handler, setup, worker, server, accepting>>

StopStream(t) ==
    /\ threads[t].kind = "stream" /\ stop /\ Client(t, "top", "ended")
    /\ UNCHANGED <<control, main, handler, setup, worker, server, accepting>>

\* A frame has gone to the client; or the client has gone.
Send(t) ==
    /\ \/ threads[t].kind = "stream" /\ Client(t, "send", "top")
       \/ Client(t, "send", "ended")
    /\ UNCHANGED <<control, main, handler, setup, worker, server, accepting>>

\* The code of a thread is unmapped under it.
CodeGone(t) ==
    /\ Running /\ "output" \notin mapped /\ threads[t].at # "ended"
    /\ status' = "crashed"
    /\ UNCHANGED <<camera, stop, cancelled, main, handler, setup, worker, server, accepting,
                   threads>>

ClientStep(t) ==
    \/ TakeArgument(t) \/ Request(t) \/ AnswerOther(t) \/ Await(t) \/ StopStream(t)
    \/ Send(t) \/ CodeGone(t)

----------------------------------------------------------------------------
(* signal_handler *)

\* CTRL+C, once; main() stands still from now on.
Signal ==
    /\ Running /\ handler = "idle" /\ handler' = "sleep" /\ stop' = TRUE
    /\ UNCHANGED <<camera, status, cancelled, main, setup, worker, server, accepting, threads>>

\* A second is enough for everybody who does not wait.
Settled ==
    /\ \/ worker \in {"none", "ended"}
       \/ worker = "read" /\ camera = "hangs" /\ "worker" \notin cancelled
    /\ \/ server \in {"none", "ended"}
       \/ server = "select" /\ Queued = {} /\ "server" \notin cancelled
    /\ \A t \in DOMAIN threads : threads[t].at \in {"receive", "wait", "send", "ended"}

Handle(from, to) == Running /\ handler = from /\ handler' = to

\* Mutant: the handler does not wait for the threads.
WakeUp_AtOnce ==
    /\ Handle("sleep", "input_stop")
    /\ UNCHANGED <<control, main, setup, worker, server, accepting, threads>>

WakeUp ==
    /\ Settled /\ Handle("sleep", "input_stop")
    /\ UNCHANGED <<control, main, setup, worker, server, accepting, threads>>

Crash(from) == Handle(from, "crash") /\ status' = "crashed"

\* input_stop up to the test of the context.
StopInput ==
    /\ {"input_stop", "pglobal"} \subseteq known
    /\ Handle("input_stop", IF context = "none" THEN "output_stop" ELSE "cancel")
    /\ UNCHANGED <<control, main, setup, worker, server, accepting, threads>>

\* pctx->worker is read from the context once more, which may be gone.
CancelWorker ==
    /\ worker # "none" /\ Handle("cancel", "output_stop")
    /\ cancelled' = cancelled \cup {"worker"}
    /\ UNCHANGED <<camera, stop, status, main, setup, worker, server, accepting, threads>>

\* Mutant: the server is left alone.
StopOutput_Not ==
    /\ "output_stop" \in known /\ server # "none" /\ Handle("output_stop", "destroy")
    /\ UNCHANGED <<control, main, setup, worker, server, accepting, threads>>

StopOutput ==
    /\ "output_stop" \in known /\ server # "none" /\ Handle("output_stop", "destroy")
    /\ cancelled' = cancelled \cup {"server"}
    /\ UNCHANGED <<camera, stop, status, main, setup, worker, server, accepting, threads>>

\* Calls through pointers that start-up has not set, pthread_cancel of a thread
\* that has not been created, and of one that is read from freed memory.
BadCall ==
    /\ \/ ~({"input_stop", "pglobal"} \subseteq known) /\ Crash("input_stop")
       \/ worker = "none" /\ Crash("cancel")
       \/ context # "owned" /\ Crash("cancel")
       \/ (server = "none" \/ "output_stop" \notin known) /\ Crash("output_stop")
    /\ UNCHANGED <<camera, stop, cancelled, main, setup, worker, server, accepting, threads>>

Waiting == {t \in DOMAIN threads : threads[t].at = "wait"}

\* Mutant: the handler waits for the client threads to end.
Destroy_Joins ==
    /\ \A t \in DOMAIN threads : threads[t].at = "ended"
    /\ Handle("destroy", "sleep2") /\ cond' = "destroyed"
    /\ UNCHANGED <<control, main, known, mapped, context, worker, server, accepting, threads>>

\* pthread_cond_destroy of glibc waits until nobody waits any more.
Destroy ==
    /\ Waiting = {} /\ Handle("destroy", "sleep2") /\ cond' = "destroyed"
    /\ UNCHANGED <<control, main, known, mapped, context, worker, server, accepting, threads>>

WakeUp2 ==
    /\ Settled /\ Handle("sleep2", "input_close")
    /\ UNCHANGED <<control, main, setup, worker, server, accepting, threads>>

CloseInput ==
    /\ Handle("input_close", "output_close") /\ mapped' = mapped \ {"input"}
    /\ UNCHANGED <<control, main, known, context, cond, worker, server, accepting, threads>>

CloseOutput ==
    /\ Handle("output_close", "exit") /\ mapped' = mapped \ {"output"}
    /\ UNCHANGED <<control, main, known, context, cond, worker, server, accepting, threads>>

Exit ==
    /\ Handle("exit", "done") /\ status' = "exited"
    /\ UNCHANGED <<camera, stop, cancelled, main, setup, worker, server, accepting, threads>>

HandlerStep ==
    \/ WakeUp \/ StopInput \/ CancelWorker \/ StopOutput \/ BadCall \/ Destroy \/ WakeUp2
    \/ CloseInput \/ CloseOutput \/ Exit

----------------------------------------------------------------------------

Init ==
    /\ camera \in {"steady", "hangs"} /\ stop = FALSE /\ status = "running"
    /\ cancelled = {} /\ main = "in_open" /\ handler = "idle"
    /\ known = {} /\ mapped = {} /\ context = "none" /\ cond = "none"
    /\ worker = "none" /\ server = "none"
    /\ queue = [s \in Sockets |-> <<>>] /\ ready = {} /\ cells = <<>>
    /\ refused = {} /\ absent = Conns /\ threads = <<>>

Next ==
    \/ MainStep \/ StartFails \/ Camera \/ WorkerStep \/ ServerStep \/ BindFails
    \/ HandlerStep \/ Signal
    \/ \E c \in Conns, s \in Sockets : Connect(c, s)
    \/ \E t \in DOMAIN threads : ClientStep(t)

\* Threads that can go on do; nobody has to send CTRL+C, to connect, to ask for
\* something or to take what is sent, and a camera may hang.
Fairness ==
    /\ WF_vars(MainStep \/ HandlerStep) /\ WF_vars(ServerStep)
    /\ WF_vars(WorkerStep \/ (camera = "steady" /\ Camera))
    /\ \A t \in 1 .. Cardinality(Conns) + MaxErrors : WF_vars(t \in DOMAIN threads /\
          (TakeArgument(t) \/ AnswerOther(t) \/ Await(t) \/ StopStream(t) \/ CodeGone(t)))

Spec == Init /\ [][Next]_vars /\ Fairness

----------------------------------------------------------------------------

\* Types.
TypeOK ==
    /\ status \in {"running", "exited", "failed", "crashed"}
    /\ known \subseteq {"input_stop", "output_stop", "pglobal"}
    /\ mapped \subseteq {"input", "output"} /\ cancelled \subseteq {"worker", "server"}
    /\ context \in {"none", "owned", "dangling"} /\ cond \in {"none", "ok", "destroyed"}
    /\ worker \in {"none", "top", "read", "publish", "cleanup", "clear", "ended"}
    /\ server \in {"none", "listen", "top", "select", "accept", "ended"}
    /\ ready \subseteq Queued /\ refused \subseteq Conns /\ absent \subseteq Conns
    /\ \A t \in DOMAIN threads : threads[t].cell \in DOMAIN cells

\* Every connection that was accepted is served by one thread, and every thread,
\* those that accept() gave no connection included, frees the memory of its
\* descriptor once (httpd.c:1030-1032, "It must have been allocated so it is
\* freeable by this thread function").
Taken(t) == IF threads[t].at = "start" THEN cells[threads[t].cell].fd ELSE threads[t].fd

ServedByOne ==
    /\ \A k \in DOMAIN cells : cells[k].frees <= 1
    /\ \A t, u \in DOMAIN threads : t # u => Taken(t) # Taken(u) \/ Taken(t) = "error"

\* What runs when the plugins are unloaded is at most client threads, of which
\* output_stop says that they are not cleaned up; and the condition variable is,
\* with a camera that delivers, destroyed under no worker that may yet signal it.
PluginsQuiet ==
    /\ handler \in {"output_close", "exit", "done"} =>
          worker = "ended" /\ server = "ended"
    /\ cond = "destroyed" /\ camera = "steady" => worker = "ended"

\* CTRL+C makes the process crash only before main() has come to its pause(), or
\* when a client is still connected after two seconds, or when the camera wakes up
\* from a hang while the handler cancels its thread.
CrashExplained ==
    status = "crashed" =>
        \/ main # "pause"
        \/ "output" \notin mapped /\ \E t \in DOMAIN threads : threads[t].at # "ended"
        \/ camera = "hangs" /\ context # "owned"

\* CTRL+C ends the process, tidily or not, unless a client waits for a frame that
\* a worker that has ended cannot deliver any more: pthread_cond_destroy then
\* blocks for ever (mjpg_streamer.c:115).  The worker may have ended because the
\* camera failed, or because of the CTRL+C itself, before a snapshot was asked for.
Stuck == handler = "destroy" /\ Waiting # {} /\ worker = "ended"

SignalEnds == stop ~> (~Running \/ Stuck)

\* A connection in the queue is accepted and served, refused or lost, while nobody
\* stops the server and accept() does not fail for ever.
EveryoneServed ==
    \A c \in Conns :
        (\E s \in Sockets : \E i \in DOMAIN queue[s] : queue[s][i] = c)
        ~> \/ stop \/ ~Running \/ c \in refused
           \/ \E t \in DOMAIN threads : threads[t].fd = c
=============================================================================
