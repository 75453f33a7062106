--------------------------- MODULE StreamerProofs ---------------------------
(***************************************************************************)
(* For any number of clients and sockets: the shutdown of mjpg_streamer,   *)
(* which threads may still run when the plugins are unloaded and which     *)
(* crashes are possible; and how connections are handed to their threads.  *)
(***************************************************************************)
EXTENDS Streamer, TLAPS

Stopped == {"destroy", "sleep2", "input_close", "output_close", "exit", "done"}
Unloading == {"input_close", "output_close", "exit", "done"}

\* Start-up: main() creates the threads in its last two steps.
StartInv ==
    /\ main \in {"in_open", "in_symbols", "in_init", "in_camera", "out_open", "out_symbols",
                "in_run", "out_run", "pause"}
    /\ main \in {"in_run", "out_run", "pause"} => "output_stop" \in known
    /\ main \notin {"in_open", "in_symbols"} => "input_stop" \in known
    /\ main \notin {"in_open", "in_symbols", "in_init"} => "pglobal" \in known
    /\ worker # "none" <=> main \in {"out_run", "pause"}
    /\ server # "none" <=> main = "pause"

\* The context is the worker's to delete.
ContextInv ==
    /\ "pglobal" \in known => context # "none" \/ worker = "ended"
    /\ worker = "ended" => context = "none"

\* What the handler may rely on, place by place.
HandlerInv ==
    /\ handler = "sleep2" => "server" \in cancelled
    /\ handler \in {"input_stop", "cancel", "output_stop"} \cup Stopped /\ camera = "steady"
          => worker \in {"none", "ended"}
    /\ handler = "cancel" /\ camera = "steady" => worker = "none"
    /\ handler \in {"output_stop"} \cup Stopped =>
          worker \in {"none", "ended"} \/ "worker" \in cancelled
    /\ handler \in Stopped => server # "none" /\ "server" \in cancelled
    /\ handler \in Unloading => worker = "ended" /\ server = "ended"
    /\ cond = "destroyed" => handler \in Stopped \cup {"crash"}
    /\ cond = "destroyed" /\ camera = "steady" => worker = "ended"

CameraKinds == camera \in {"steady", "hangs"}

IInv == CameraKinds /\ StartInv /\ ContextInv /\ HandlerInv /\ CrashExplained

LEMMA InitInv == Init => IInv
BY DEF Init, IInv, CameraKinds, StartInv, ContextInv, HandlerInv, CrashExplained, Stopped,
    Unloading, Running

LEMMA NextInv == IInv /\ [Next]_vars => IInv'
<1> SUFFICES ASSUME IInv, [Next]_vars PROVE IInv'
    OBVIOUS
<1> USE DEF IInv, CameraKinds, StartInv, ContextInv, HandlerInv, CrashExplained, Stopped,
        Unloading, Running
<1>1. CASE MainStep
    <2> USE DEF Main, control, accepting, setup
    <2>1. CASE OpenInput \/ FindInput \/ OpenOutput
        BY <2>1 DEF OpenInput, FindInput, OpenOutput
    <2>2. CASE InitInput \/ OpenCamera \/ RunInput \/ RunOutput
        BY <2>2 DEF InitInput, OpenCamera, RunInput, RunOutput
    <2>3. CASE FindOutput
        BY <2>3 DEF FindOutput
    <2> QED BY <1>1, <2>1, <2>2, <2>3 DEF MainStep
<1>2. CASE StartFails
    BY <1>2 DEF StartFails, accepting, setup
<1>3. CASE Camera
    BY <1>3 DEF Camera, Deliver, CameraFails, Work, control, accepting, setup
<1>4. CASE WorkerStep
    BY <1>4 DEF WorkerStep, TestStop, Publish, WorkerCancelled, DeleteContext, ClearContext,
        Work, control, accepting, setup
<1>5. CASE ServerStep
    BY <1>5 DEF ServerStep, Listen, NextRound, Select, ServerCancelled, Accept, NoThread,
        Accepted, Serve, control, accepting, setup
<1>6. CASE BindFails
    BY <1>6 DEF BindFails, accepting, setup
<1>7. CASE HandlerStep
    <2> USE DEF Handle, control, accepting, setup
    <2>1. CASE WakeUp
        BY <2>1 DEF WakeUp, Settled
    <2>2. CASE StopInput \/ CancelWorker
        BY <2>2 DEF StopInput, CancelWorker
    <2>3. CASE StopOutput \/ Destroy
        BY <2>3 DEF StopOutput, Destroy
    <2>4. CASE BadCall
        <3>1. /\ handler' = "crash" /\ status' = "crashed"
              /\ UNCHANGED <<main, known, worker, server, context, cond, cancelled, mapped, camera,
                             threads>>
            BY <2>4 DEF BadCall, Crash
        <3>2. cond # "destroyed"
            BY <2>4 DEF BadCall, Crash
        <3>3. main # "pause" \/ (camera = "hangs" /\ context # "owned")
            <4>1. CASE handler = "input_stop" \/ handler = "output_stop"
                BY <2>4, <4>1 DEF BadCall, Crash
            <4>2. CASE handler = "cancel" /\ worker = "none"
                BY <4>2
            <4>3. CASE handler = "cancel" /\ worker # "none" /\ context # "owned"
                BY <4>3
            <4> QED BY <2>4, <4>1, <4>2, <4>3 DEF BadCall, Crash
        <3> QED BY <3>1, <3>2, <3>3
    <2>5. CASE WakeUp2
        BY <2>5 DEF WakeUp2, Settled
    <2>6. CASE CloseInput \/ CloseOutput \/ Exit
        BY <2>6 DEF CloseInput, CloseOutput, Exit
    <2> QED BY <1>7, <2>1, <2>2, <2>3, <2>4, <2>5, <2>6 DEF HandlerStep
<1>8. CASE Signal
    BY <1>8 DEF Signal, accepting, setup
<1>9. CASE \E c \in Conns, s \in Sockets : Connect(c, s)
    BY <1>9 DEF Connect, control, setup
<1>10. CASE \E t \in DOMAIN threads : ClientStep(t)
    BY <1>10 DEF ClientStep, TakeArgument, Request, AnswerOther, Await, StopStream, Send, CodeGone,
        Client, control, accepting, setup
<1>11. CASE UNCHANGED vars
    BY <1>11 DEF vars, control, accepting, setup
<1> QED BY <1>1, <1>2, <1>3, <1>4, <1>5, <1>6, <1>7, <1>8, <1>9, <1>10, <1>11 DEF Next

\* When the plugins are unloaded the worker and the server have ended, and with a
\* camera that delivers the condition variable is destroyed after the worker.
THEOREM ShutdownQuiet == Spec => []PluginsQuiet
<1>1. IInv => PluginsQuiet
    BY DEF IInv, HandlerInv, PluginsQuiet, Unloading
<1> QED BY <1>1, InitInv, NextInv, PTL DEF Spec

\* The three causes of a crash after CTRL+C are all there are.
THEOREM CrashesExplained == Spec => []CrashExplained
<1>1. IInv => CrashExplained
    BY DEF IInv
<1> QED BY <1>1, InitInv, NextInv, PTL DEF Spec

----------------------------------------------------------------------------
(* The server and its client threads. *)

Places == {"start", "receive", "top", "wait", "send", "ended"}
Held == Conns \cup {"none", "error"}
Cell == [fd : Held, frees : Nat]
Thread == [at : Places, cell : Nat, fd : Held,
           kind : {"none", "stream", "snapshot"}]

\* A step of one or more client threads past the copy of its argument.
Onward ==
    /\ threads' \in Seq(Thread) /\ DOMAIN threads' = DOMAIN threads
    /\ \A t \in DOMAIN threads :
          /\ threads'[t].cell = threads[t].cell /\ threads'[t].fd = threads[t].fd
          /\ threads'[t].at = "start" <=> threads[t].at = "start"

\* A step that accepts nothing and takes no argument.
Quiet ==
    /\ UNCHANGED accepting /\ Onward
    /\ server' \in {server, "listen", "top", "ended"}

LEMMA SetThread ==
    ASSUME threads \in Seq(Thread), NEW t \in DOMAIN threads, NEW v \in Thread,
           v.cell = threads[t].cell, v.fd = threads[t].fd,
           v.at = "start" <=> threads[t].at = "start", threads' = [threads EXCEPT ![t] = v]
    PROVE  Onward
<1>1. threads' \in [1 .. Len(threads) -> Thread] /\ Len(threads) \in Nat
    OBVIOUS
<1>2. threads' \in Seq(Thread) /\ DOMAIN threads' = DOMAIN threads
    BY <1>1
<1>3. ASSUME NEW u \in DOMAIN threads
      PROVE  /\ threads'[u].cell = threads[u].cell /\ threads'[u].fd = threads[u].fd
             /\ threads'[u].at = "start" <=> threads[u].at = "start"
    <2>1. CASE u = t
        BY <2>1
    <2>2. CASE u # t
        BY <2>2
    <2> QED BY <2>1, <2>2
<1> QED BY <1>2, <1>3 DEF Onward

LEMMA SetPlace ==
    ASSUME threads \in Seq(Thread), NEW t \in DOMAIN threads, NEW to \in Places \ {"start"},
           NEW k \in {"none", "stream", "snapshot"}, threads[t].at # "start",
           threads' = [threads EXCEPT ![t].at = to, ![t].kind = k]
    PROVE  Onward
<1> DEFINE r == threads[t]
           v == [r EXCEPT !.at = to, !.kind = k]
<1>1. r \in Thread /\ threads' = [threads EXCEPT ![t] = v]
    <2>1. r \in Thread
        OBVIOUS
    <2> DEFINE w == [threads EXCEPT ![t] = v]
    <2>2. DOMAIN threads' = DOMAIN w /\ w[t] = v
        OBVIOUS
    <2>3. threads'[t] = v
        BY <2>1 DEF Thread
    <2>4. \A u \in DOMAIN threads : threads'[u] = w[u]
        BY <2>2, <2>3
    <2> QED BY <2>1, <2>2, <2>4
<1>2. v \in Thread /\ v.cell = r.cell /\ v.fd = r.fd /\ v.at = to
    <2> HIDE DEF r
    <2> QED BY <1>1 DEF Thread
<1> HIDE DEF v
<1> QED BY <1>1, <1>2, SetThread

LEMMA MoveOn ==
    ASSUME threads \in Seq(Thread), NEW t \in DOMAIN threads,
           NEW from \in Places \ {"start"}, NEW to \in Places \ {"start"},
           Client(t, from, to)
    PROVE  Onward
<1> DEFINE k == IF to = "ended" THEN "none" ELSE threads[t].kind
<1>1. threads[t] \in Thread
    OBVIOUS
<1>2. k \in {"none", "stream", "snapshot"}
    BY <1>1 DEF Thread
<1>3. [threads EXCEPT ![t].at = to][t].kind = threads[t].kind
    BY <1>1 DEF Thread
<1>4. threads' = [threads EXCEPT ![t].at = to, ![t].kind = k]
    BY <1>1, <1>3 DEF Client, Thread
<1> HIDE DEF k
<1> QED BY <1>2, <1>4, SetPlace DEF Client

\* What a step may do to the client threads, their memory and their connections.
LEMMA WhatHappens ==
    ASSUME [Next]_vars, threads \in Seq(Thread)
    PROVE  \/ NextRound \/ Select \/ Quiet
           \/ \E s \in Sockets : Accept(s) \/ NoThread(s)
           \/ \E c \in Conns, s \in Sockets : Connect(c, s)
           \/ \E t \in DOMAIN threads : TakeArgument(t)
<1>o. ASSUME UNCHANGED threads PROVE Onward
    BY <1>o DEF Onward
<1>1. CASE MainStep \/ StartFails
    BY <1>1, <1>o DEF MainStep, OpenInput, FindInput, InitInput, OpenCamera, OpenOutput, FindOutput,
        RunInput, RunOutput, Main, StartFails, control, setup, Quiet
<1>2. CASE Camera \/ WorkerStep
    <2>1. CASE Publish
        <3> DEFINE f(t) == IF threads[t].at = "wait" THEN [threads[t] EXCEPT !.at = "send"]
                           ELSE threads[t]
        <3>1. threads' = [t \in DOMAIN threads |-> f(t)]
            BY <2>1 DEF Publish
        <3>2. ASSUME NEW t \in DOMAIN threads
              PROVE  /\ f(t) \in Thread /\ f(t).cell = threads[t].cell /\ f(t).fd = threads[t].fd
                     /\ f(t).at = "start" <=> threads[t].at = "start"
            <4>1. threads[t] \in Thread
                OBVIOUS
            <4> QED BY <4>1 DEF Thread, Places
        <3> HIDE DEF f
        <3>3. threads' \in [1 .. Len(threads) -> Thread] /\ Len(threads) \in Nat
            BY <3>1, <3>2
        <3>4. threads' \in Seq(Thread) /\ DOMAIN threads' = DOMAIN threads
            BY <3>3
        <3>5. Onward
            BY <3>1, <3>2, <3>4 DEF Onward
        <3> QED BY <2>1, <3>5 DEF Publish, Work, Quiet
    <2>2. CASE Deliver \/ CameraFails \/ TestStop \/ WorkerCancelled \/ DeleteContext \/ ClearContext
        BY <2>2, <1>o DEF Deliver, CameraFails, TestStop, WorkerCancelled, DeleteContext,
            ClearContext, Work, Quiet
    <2> QED BY <1>2, <2>1, <2>2 DEF Camera, WorkerStep
<1>3. CASE ServerStep \/ BindFails
    <2>1. CASE Listen \/ ServerCancelled \/ BindFails
        BY <2>1, <1>o DEF Listen, ServerCancelled, BindFails, Serve, Quiet
    <2> QED BY <1>3, <2>1 DEF ServerStep
<1>4. CASE HandlerStep \/ Signal
    BY <1>4, <1>o DEF HandlerStep, WakeUp, StopInput, CancelWorker, StopOutput, BadCall, Destroy,
        WakeUp2, CloseInput, CloseOutput, Exit, Handle, Signal, Quiet
<1>5. ASSUME NEW t \in DOMAIN threads, ClientStep(t), ~TakeArgument(t) PROVE Quiet
    <2>1. CASE Request(t)
        <3>1. PICK k \in {"stream", "snapshot"} :
                  threads' = [threads EXCEPT ![t].at = "top", ![t].kind = k]
            BY <2>1 DEF Request
        <3>2. threads[t].at = "receive"
            BY <2>1 DEF Request
        <3>3. Onward
            BY <3>1, <3>2, SetPlace DEF Places
        <3> QED BY <2>1, <3>3 DEF Request, Quiet
    <2>2. CASE AnswerOther(t)
        BY <2>2, MoveOn DEF AnswerOther, Places, Quiet
    <2>3. CASE Await(t)
        BY <2>3, MoveOn DEF Await, Places, Quiet
    <2>4. CASE StopStream(t)
        BY <2>4, MoveOn DEF StopStream, Places, Quiet
    <2>5. CASE Send(t)
        BY <2>5, MoveOn DEF Send, Places, Quiet
    <2>6. CASE CodeGone(t)
        BY <2>6, <1>o DEF CodeGone, Quiet
    <2> QED BY <1>5, <2>1, <2>2, <2>3, <2>4, <2>5, <2>6 DEF ClientStep
<1>6. CASE UNCHANGED vars
    BY <1>6, <1>o DEF vars, Quiet
<1> QED BY <1>1, <1>2, <1>3, <1>4, <1>5, <1>6 DEF Next, ServerStep

\* Types of the threads, their memory and the connections; the memory of a turn is
\* there before anything is accepted in it.
ServerTypes ==
    /\ queue \in [Sockets -> Seq(Conns)] /\ ready \subseteq Queued
    /\ refused \subseteq Conns /\ absent \subseteq Conns
    /\ cells \in Seq(Cell) /\ threads \in Seq(Thread)
    /\ server \in {"select", "accept"} => cells # <<>>
    /\ \A t \in DOMAIN threads : threads[t].cell \in DOMAIN cells

\* accept() on a ready socket: its first connection leaves the queue, if it is
\* not an error that leaves it there.
LEMMA AcceptedTypes ==
    ASSUME ServerTypes, NEW s \in Sockets, NEW fd \in Descriptors(s), Turn(s), Accepted(s, fd)
    PROVE  /\ queue[s] # <<>> /\ queue[s] \in Seq(Conns)
           /\ fd \in Conns \cup {"error"} /\ (fd = Head(queue[s]) \/ fd = "error")
           /\ queue' \in [Sockets -> Seq(Conns)] /\ ready' \subseteq Queued'
           /\ \/ queue' = queue /\ fd = "error"
              \/ queue'[s] = Tail(queue[s]) /\ \A r \in Sockets \ {s} : queue'[r] = queue[r]
           /\ Left(s) \subseteq Conns
           /\ Len(cells) \in DOMAIN cells /\ server = "accept" /\ server' \in {"top", "accept"}
<1>1. /\ s \in ready /\ ready' = ready \ {s}
      /\ \/ queue' = [queue EXCEPT ![s] = Tail(queue[s])]
         \/ queue' = queue /\ fd = "error"
      /\ server = "accept" /\ server' \in {"top", "accept"}
    BY DEF Accepted, Turn, Serve
<1>2. queue[s] # <<>> /\ queue[s] \in Seq(Conns)
    BY <1>1 DEF ServerTypes, Queued
<1>3. Head(queue[s]) \in Conns /\ Tail(queue[s]) \in Seq(Conns)
    <2> DEFINE q == queue[s]
    <2>1. q \in Seq(Conns) /\ q # <<>>
        BY <1>2
    <2> HIDE DEF q
    <2>2. Head(q) \in Conns /\ Tail(q) \in Seq(Conns)
        BY <2>1
    <2> QED BY <2>2 DEF q
<1>4. fd = Head(queue[s]) \/ fd = "error"
    BY DEF Descriptors
<1>5. /\ queue' \in [Sockets -> Seq(Conns)]
      /\ \/ queue' = queue /\ fd = "error"
         \/ queue'[s] = Tail(queue[s]) /\ \A r \in Sockets \ {s} : queue'[r] = queue[r]
    BY <1>1, <1>3 DEF ServerTypes
<1>6. ready' \subseteq Queued'
    BY <1>1, <1>5 DEF ServerTypes, Queued
<1>7. Len(cells) \in DOMAIN cells
    BY <1>1 DEF ServerTypes
<1> QED BY <1>1, <1>2, <1>3, <1>4, <1>5, <1>6, <1>7 DEF Left

\* The memory of this turn holds what accept() returned.
LEMMA StoreTypes ==
    ASSUME ServerTypes, NEW fd \in Conns \cup {"error"}, Len(cells) \in DOMAIN cells
    PROVE  /\ Store(fd) \in Seq(Cell) /\ DOMAIN Store(fd) = DOMAIN cells
           /\ Store(fd)[Len(cells)].fd = fd
           /\ Store(fd)[Len(cells)].frees = cells[Len(cells)].frees
           /\ \A k \in DOMAIN cells \ {Len(cells)} : Store(fd)[k] = cells[k]
<1>1. cells \in Seq(Cell)
    BY DEF ServerTypes
<1>2. DOMAIN cells = 1 .. Len(cells) /\ Len(cells) \in Nat
    BY <1>1
<1> DEFINE last == Len(cells)
           c == cells[last]
           v == [c EXCEPT !.fd = fd]
<1>3. v \in Cell /\ v.fd = fd /\ v.frees = c.frees
    <2>1. c \in Cell
        BY <1>1, <1>2
    <2> HIDE DEF c
    <2> QED BY <2>1 DEF Cell, Held
<1>4. Store(fd) = [cells EXCEPT ![last] = v]
    BY DEF Store
<1> HIDE DEF v
<1>5. /\ Store(fd) \in [1 .. Len(cells) -> Cell] /\ Store(fd)[last] = v
      /\ \A k \in DOMAIN cells \ {last} : Store(fd)[k] = cells[k]
    BY <1>1, <1>2, <1>3, <1>4
<1>6. Store(fd) \in Seq(Cell) /\ DOMAIN Store(fd) = DOMAIN cells
    BY <1>2, <1>5
<1> QED BY <1>3, <1>5, <1>6

LEMMA ServerTypesStep == ServerTypes /\ [Next]_vars => ServerTypes'
<1> SUFFICES ASSUME ServerTypes, [Next]_vars PROVE ServerTypes'
    OBVIOUS
<1>t. cells \in Seq(Cell) /\ threads \in Seq(Thread)
    BY DEF ServerTypes
<1>1. CASE NextRound
    <2> DEFINE c == [fd |-> "none", frees |-> 0]
    <2>1. /\ UNCHANGED <<queue, ready, refused, absent, threads>>
          /\ \/ cells' = cells /\ server' = "ended"
             \/ cells' = Append(cells, c) /\ server' = "select"
        BY <1>1 DEF NextRound, Serve
    <2>2. CASE cells' = cells /\ server' = "ended"
        BY <2>1, <2>2 DEF ServerTypes, Queued
    <2>3. CASE cells' = Append(cells, c)
        <3>1. c \in Cell
            BY DEF Cell, Held
        <3> HIDE DEF c
        <3>2. cells' \in Seq(Cell) /\ cells' # <<>> /\ DOMAIN cells \subseteq DOMAIN cells'
            BY <1>t, <2>3, <3>1
        <3> QED BY <2>1, <3>2 DEF ServerTypes, Queued
    <2> QED BY <2>1, <2>2, <2>3
<1>2. CASE Select
    BY <1>2 DEF Select, Serve, ServerTypes, Queued
<1>3. CASE Quiet
    <2>1. \A t \in DOMAIN threads' : threads'[t].cell \in DOMAIN cells'
        BY <1>3 DEF Quiet, Onward, accepting, ServerTypes
    <2> QED BY <1>3, <2>1 DEF Quiet, Onward, accepting, ServerTypes, Queued
<1>4. ASSUME NEW s \in Sockets, Accept(s) PROVE ServerTypes'
    <2> DEFINE last == Len(cells)
               v == NewThread
    <2>0. PICK fd \in Descriptors(s) :
              /\ Accepted(s, fd) /\ cells' = Store(fd) /\ threads' = Append(threads, v)
              /\ refused' = IF fd = "error" THEN refused \cup Left(s) ELSE refused
        BY <1>4 DEF Accept
    <2>1. Turn(s) /\ absent' = absent
        BY <1>4 DEF Accept
    <2>2. /\ queue' \in [Sockets -> Seq(Conns)] /\ ready' \subseteq Queued'
          /\ last \in DOMAIN cells /\ fd \in Conns \cup {"error"} /\ Left(s) \subseteq Conns
        BY <2>0, <2>1, AcceptedTypes
    <2>7. cells' \in Seq(Cell) /\ DOMAIN cells' = DOMAIN cells
        BY <2>0, <2>2, StoreTypes
    <2>8. refused' \subseteq Conns
        BY <2>0, <2>2 DEF ServerTypes
    <2>3. cells' # <<>> /\ last \in Nat
        BY <1>t, <2>2, <2>7
    <2>4. v \in Thread /\ v.cell = last
        BY <2>3 DEF NewThread, Thread, Places, Held
    <2> HIDE DEF v
    <2>5. /\ threads' \in Seq(Thread)
          /\ \A t \in DOMAIN threads' :
                (t \in DOMAIN threads /\ threads'[t] = threads[t]) \/ threads'[t] = v
        BY <1>t, <2>0, <2>4
    <2>6. \A t \in DOMAIN threads' : threads'[t].cell \in DOMAIN cells'
        BY <2>2, <2>4, <2>5, <2>7 DEF ServerTypes
    <2> QED BY <2>1, <2>2, <2>3, <2>5, <2>6, <2>7, <2>8 DEF ServerTypes
<1>5. ASSUME NEW s \in Sockets, NoThread(s) PROVE ServerTypes'
    <2>0. PICK fd \in Descriptors(s) :
              /\ Accepted(s, fd)
              /\ cells' = [Store(fd) EXCEPT ![Len(cells)].frees = @ + 1]
              /\ refused' = refused \cup Left(s)
        BY <1>5 DEF NoThread
    <2> DEFINE last == Len(cells)
               S == Store(fd)
    <2>1. Turn(s) /\ UNCHANGED <<absent, threads>>
        BY <1>5 DEF NoThread
    <2>6. /\ queue' \in [Sockets -> Seq(Conns)] /\ ready' \subseteq Queued'
          /\ fd \in Conns \cup {"error"} /\ Left(s) \subseteq Conns /\ last \in DOMAIN cells
        BY <2>0, <2>1, AcceptedTypes
    <2>2. last \in DOMAIN cells /\ S \in Seq(Cell) /\ DOMAIN S = DOMAIN cells
        BY <2>6, StoreTypes
    <2> DEFINE c == S[last]
               v == [c EXCEPT !.frees = c.frees + 1]
    <2>3. v \in Cell
        <3>1. c \in Cell
            BY <2>2
        <3> HIDE DEF c
        <3> QED BY <3>1 DEF Cell
    <2>4. cells' = [S EXCEPT ![last] = v]
        BY <2>0
    <2> HIDE DEF v, S
    <2>5. cells' \in Seq(Cell) /\ DOMAIN cells' = DOMAIN cells /\ cells' # <<>>
        BY <2>2, <2>3, <2>4
    <2> QED BY <2>0, <2>1, <2>5, <2>6 DEF ServerTypes
<1>6. ASSUME NEW c \in Conns, NEW s \in Sockets, Connect(c, s) PROVE ServerTypes'
    <2>1. /\ queue' = [queue EXCEPT ![s] = Append(queue[s], c)] /\ absent' = absent \ {c}
          /\ UNCHANGED <<server, ready, cells, refused, threads>>
        BY <1>6 DEF Connect
    <2> DEFINE q == queue[s]
    <2>2. Append(q, c) \in Seq(Conns) /\ Append(q, c) # <<>>
        <3>1. q \in Seq(Conns)
            BY DEF ServerTypes
        <3> HIDE DEF q
        <3>2. Append(q, c) \in Seq(Conns)
            BY <3>1
        <3>3. Append(q, c) # <<>>
            <4>1. Len(Append(q, c)) = Len(q) + 1 /\ Len(q) \in Nat
                BY <3>1
            <4>2. Len(Append(q, c)) # 0 /\ Len(<<>>) = 0
                BY <4>1
            <4> HIDE <3>1
            <4> QED BY <4>2
        <3> QED BY <3>2, <3>3
    <2>3. queue' \in [Sockets -> Seq(Conns)]
        BY <2>1, <2>2 DEF ServerTypes
    <2>4. ready' \subseteq Queued'
        BY <2>1, <2>2 DEF ServerTypes, Queued
    <2> QED BY <2>1, <2>3, <2>4 DEF ServerTypes
<1>7. ASSUME NEW t \in DOMAIN threads, TakeArgument(t) PROVE ServerTypes'
    <2> DEFINE r == threads[t]
               k == r.cell
               c == cells[k]
               v == [r EXCEPT !.at = "receive", !.fd = c.fd]
               w == [c EXCEPT !.frees = c.frees + 1]
    <2>1. /\ threads' = [threads EXCEPT ![t].at = "receive", ![t].fd = c.fd]
          /\ cells' = [cells EXCEPT ![k] = w]
          /\ UNCHANGED <<queue, ready, refused, absent, server>>
        BY <1>7 DEF TakeArgument
    <2>2. r \in Thread /\ k \in DOMAIN cells
        BY <1>t DEF ServerTypes
    <2>3. c \in Cell
        BY <1>t, <2>2
    <2>4. v \in Thread /\ v.cell = k /\ w \in Cell
        <3> HIDE DEF c, r
        <3>1. v \in Thread
            BY <2>2, <2>3 DEF Thread, Cell, Places
        <3>2. v.cell = k
            BY <2>2 DEF Thread
        <3>3. w \in Cell
            BY <2>3 DEF Cell
        <3> QED BY <3>1, <3>2, <3>3
    <2>5. threads' \in Seq(Thread) /\ DOMAIN threads' = DOMAIN threads
          /\ \A u \in DOMAIN threads : threads'[u].cell = threads[u].cell
        <3>1. \A u \in DOMAIN threads : threads'[u] = IF u = t THEN v ELSE threads[u]
            BY <2>1, <2>2 DEF Thread
        <3>2. DOMAIN threads' = DOMAIN threads /\ threads' = [u \in DOMAIN threads |-> threads'[u]]
            BY <2>1
        <3> HIDE DEF v
        <3>3. threads' \in [1 .. Len(threads) -> Thread] /\ Len(threads) \in Nat
            BY <1>t, <2>4, <3>1, <3>2
        <3>4. threads' \in Seq(Thread)
            BY <3>3
        <3> QED BY <2>4, <3>1, <3>2, <3>4
    <2> HIDE DEF w, c
    <2>6. cells' \in Seq(Cell) /\ DOMAIN cells' = DOMAIN cells /\ cells' # <<>>
        BY <1>t, <2>1, <2>2, <2>4
    <2> QED BY <2>1, <2>5, <2>6 DEF ServerTypes, Queued
<1> QED BY <1>t, <1>1, <1>2, <1>3, <1>4, <1>5, <1>6, <1>7, WhatHappens

\* Types of the other variables.
PlainTypes ==
    /\ status \in {"running", "exited", "failed", "crashed"}
    /\ known \subseteq {"input_stop", "output_stop", "pglobal"}
    /\ mapped \subseteq {"input", "output"} /\ cancelled \subseteq {"worker", "server"}
    /\ context \in {"none", "owned", "dangling"} /\ cond \in {"none", "ok", "destroyed"}
    /\ worker \in {"none", "top", "read", "publish", "cleanup", "clear", "ended"}
    /\ server \in {"none", "listen", "top", "select", "accept", "ended"}

LEMMA PlainTypesStep == PlainTypes /\ [Next]_vars => PlainTypes'
<1> SUFFICES ASSUME PlainTypes, [Next]_vars PROVE PlainTypes'
    OBVIOUS
<1> USE DEF PlainTypes, control, setup
<1>1. CASE MainStep \/ StartFails
    <2>1. CASE OpenInput \/ OpenOutput
        <3>1. /\ UNCHANGED <<status, known, cancelled, context, worker, server>>
              /\ cond' \in {cond, "ok"} /\ \E p \in {"input", "output"} : mapped' = mapped \cup {p}
            BY <2>1 DEF OpenInput, OpenOutput
        <3> QED BY <3>1
    <2>2. CASE FindInput \/ FindOutput \/ InitInput
        <3>1. /\ UNCHANGED <<status, mapped, cancelled, cond, worker, server>>
              /\ context' \in {context, "owned"}
              /\ \E p \in {"input_stop", "output_stop", "pglobal"} : known' = known \cup {p}
            BY <2>2 DEF FindInput, FindOutput, InitInput
        <3> QED BY <3>1
    <2>4. CASE OpenCamera \/ RunInput \/ RunOutput
        <3>1. /\ UNCHANGED <<status, known, mapped, cancelled, context, cond>>
              /\ worker' \in {worker, "top"} /\ server' \in {server, "listen"}
            BY <2>4 DEF OpenCamera, RunInput, RunOutput
        <3> QED BY <3>1
    <2>3. CASE StartFails
        BY <2>3 DEF StartFails
    <2> QED BY <1>1, <2>1, <2>2, <2>3, <2>4 DEF MainStep
<1>2. CASE Camera \/ WorkerStep
    BY <1>2 DEF Camera, Deliver, CameraFails, WorkerStep, TestStop, Publish, WorkerCancelled,
        DeleteContext, ClearContext, Work
<1>3. CASE ServerStep \/ BindFails
    BY <1>3 DEF ServerStep, Listen, NextRound, Select, ServerCancelled, Accept, NoThread,
        Accepted, Serve, BindFails
<1>4. CASE HandlerStep \/ Signal
    <2>1. CASE WakeUp \/ StopInput \/ CancelWorker \/ StopOutput
        <3>1. /\ UNCHANGED <<status, known, mapped, context, cond, worker, server>>
              /\ \/ cancelled' = cancelled
                 \/ \E p \in {"worker", "server"} : cancelled' = cancelled \cup {p}
            BY <2>1 DEF WakeUp, StopInput, CancelWorker, StopOutput
        <3> QED BY <3>1
    <2>2. CASE BadCall
        <3>1. status' = "crashed" /\ UNCHANGED <<cancelled, setup, worker, server>>
            BY <2>2 DEF BadCall, Crash
        <3> QED BY <3>1
    <2>3. CASE Destroy \/ WakeUp2 \/ CloseInput \/ CloseOutput
        <3>1. /\ UNCHANGED <<status, known, cancelled, context, worker, server>>
              /\ cond' \in {cond, "destroyed"} /\ mapped' \subseteq mapped
            BY <2>3 DEF Destroy, WakeUp2, CloseInput, CloseOutput
        <3> QED BY <3>1
    <2>4. CASE Exit \/ Signal
        BY <2>4 DEF Exit, Signal
    <2> QED BY <1>4, <2>1, <2>2, <2>3, <2>4 DEF HandlerStep
<1>5. CASE \E c \in Conns, s \in Sockets : Connect(c, s)
    BY <1>5 DEF Connect
<1>6. CASE \E t \in DOMAIN threads : ClientStep(t)
    BY <1>6 DEF ClientStep, TakeArgument, Request, AnswerOther, Await, StopStream, Send, CodeGone,
        Client
<1>7. CASE UNCHANGED vars
    BY <1>7 DEF vars
<1> QED BY <1>1, <1>2, <1>3, <1>4, <1>5, <1>6, <1>7 DEF Next

LEMMA TypesInit == Init => PlainTypes /\ ServerTypes
<1> SUFFICES ASSUME Init PROVE PlainTypes /\ ServerTypes
    OBVIOUS
<1>1. PlainTypes
    BY DEF Init, PlainTypes
<1>2. queue \in [Sockets -> Seq(Conns)] /\ cells \in Seq(Cell) /\ threads \in Seq(Thread)
    BY DEF Init
<1>3. DOMAIN threads = {}
    BY DEF Init
<1>4. ServerTypes
    BY <1>2, <1>3 DEF Init, ServerTypes, Queued
<1> QED BY <1>1, <1>4

\* Types of every variable, for any number of clients and sockets.
THEOREM StreamerTypes == Spec => []TypeOK
<1>1. PlainTypes /\ ServerTypes => TypeOK
    BY DEF PlainTypes, ServerTypes, TypeOK
<1> QED BY <1>1, TypesInit, PlainTypesStep, ServerTypesStep, PTL DEF Spec

----------------------------------------------------------------------------
(* Each connection is handed to one thread, as long as no turn of the      *)
(* server finds two sockets ready.                                         *)

OneReady == \A r, s \in ready : r = s

\* Each thread has memory of its own, freed when it has taken its argument, and
\* the memory of the turn at hand is nobody's yet.
CellsInv ==
    /\ server \in {"select", "accept"} =>
          /\ cells[Len(cells)].frees = 0
          /\ \A t \in DOMAIN threads : threads[t].cell # Len(cells)
    /\ \A t, u \in DOMAIN threads : t # u => threads[t].cell # threads[u].cell
    /\ \A t \in DOMAIN threads :
          cells[threads[t].cell].frees = IF threads[t].at = "start" THEN 0 ELSE 1
    /\ \A k \in DOMAIN cells : cells[k].frees <= 1

\* Each connection is in one place: with its client, in a queue or with a thread.
ConnsInv ==
    /\ \A t \in DOMAIN threads : Taken(t) \notin absent
    /\ \A s \in Sockets : \A i \in DOMAIN queue[s] :
          /\ queue[s][i] \notin absent
          /\ \A t \in DOMAIN threads : Taken(t) # queue[s][i]
    /\ \A r, s \in Sockets : \A i \in DOMAIN queue[r], j \in DOMAIN queue[s] :
          queue[r][i] = queue[s][j] => r = s /\ i = j
    /\ \A t, u \in DOMAIN threads : t # u => Taken(t) # Taken(u) \/ Taken(t) = "error"

HandOver == ServerTypes /\ CellsInv /\ ConnsInv

\* Steps that move no connection.
LEMMA ConnsSame ==
    ASSUME ConnsInv, UNCHANGED <<queue, absent>>, DOMAIN threads' = DOMAIN threads,
           \A t \in DOMAIN threads : Taken(t)' = Taken(t)
    PROVE  ConnsInv'
BY DEF ConnsInv

LEMMA HandOverQuiet == HandOver /\ Quiet => CellsInv' /\ ConnsInv'
<1> SUFFICES ASSUME HandOver, Quiet PROVE CellsInv' /\ ConnsInv'
    OBVIOUS
<1>1. /\ UNCHANGED <<queue, ready, cells, refused, absent>> /\ DOMAIN threads' = DOMAIN threads
      /\ \A t \in DOMAIN threads :
            /\ threads'[t].cell = threads[t].cell /\ threads'[t].fd = threads[t].fd
            /\ threads'[t].at = "start" <=> threads[t].at = "start"
      /\ server' \in {server, "listen", "top", "ended"}
    BY DEF Quiet, Onward, accepting
<1>2. \A t \in DOMAIN threads : Taken(t)' = Taken(t)
    BY <1>1 DEF Taken
<1>3. ConnsInv'
    BY <1>1, <1>2, ConnsSame DEF HandOver
<1>4. CellsInv'
    BY <1>1 DEF HandOver, CellsInv
<1> QED BY <1>3, <1>4

LEMMA HandOverRound == HandOver /\ (NextRound \/ Select) => CellsInv' /\ ConnsInv'
<1> SUFFICES ASSUME HandOver, NextRound \/ Select PROVE CellsInv' /\ ConnsInv'
    OBVIOUS
<1> DEFINE c == [fd |-> "none", frees |-> 0]
<1>1. /\ UNCHANGED <<queue, absent, threads>>
      /\ \/ cells' = cells /\ server' = "ended"
         \/ cells' = Append(cells, c)
         \/ cells' = cells /\ server = "select"
    BY DEF NextRound, Select, Serve
<1>2. CASE cells' = cells
    <2>1. \A t \in DOMAIN threads : Taken(t)' = Taken(t)
        BY <1>1, <1>2 DEF Taken
    <2>2. CellsInv'
        BY <1>1, <1>2 DEF HandOver, CellsInv
    <2> QED BY <1>1, <2>1, <2>2, ConnsSame DEF HandOver
<1>3. CASE cells' = Append(cells, c)
    <2>1. c.frees = 0 /\ c \in Cell /\ cells \in Seq(Cell)
        BY DEF Cell, Held, HandOver, ServerTypes
    <2> HIDE DEF c
    <2>2. /\ Len(cells') = Len(cells) + 1 /\ cells'[Len(cells')] = c
          /\ \A k \in DOMAIN cells : cells'[k] = cells[k] /\ k # Len(cells')
          /\ \A k \in DOMAIN cells' : k \in DOMAIN cells \/ k = Len(cells')
        BY <1>3, <2>1
    <2>3. \A t \in DOMAIN threads : threads[t].cell \in DOMAIN cells
        BY DEF HandOver, ServerTypes
    <2>4. \A t \in DOMAIN threads : Taken(t)' = Taken(t)
        BY <1>1, <2>2, <2>3 DEF Taken
    <2>5. CellsInv'
        BY <1>1, <2>1, <2>2, <2>3 DEF HandOver, CellsInv
    <2> QED BY <1>1, <2>4, <2>5, ConnsSame DEF HandOver
<1> QED BY <1>1, <1>2, <1>3

\* A queue stays or loses its first connection; what accept() returned is in no
\* queue afterwards, with no client and with no thread.
Moved(s, d) ==
    \A r \in Sockets : \A i \in DOMAIN queue'[r] :
        LET j == IF r = s THEN i + d ELSE i
        IN  j \in DOMAIN queue[r] /\ queue'[r][i] = queue[r][j] /\ (r = s /\ d = 1 => j # 1)

LEMMA QueueMoves ==
    ASSUME ServerTypes, ConnsInv, NEW s \in Sockets, NEW fd \in Descriptors(s), Turn(s),
           Accepted(s, fd)
    PROVE  /\ fd \notin absent
           /\ \A t \in DOMAIN threads : Taken(t) # fd \/ fd = "error"
           /\ \A r \in Sockets : \A i \in DOMAIN queue'[r] : queue'[r][i] # fd
           /\ \E d \in {0, 1} : Moved(s, d)
<1> DEFINE q == queue[s]
<1>1. /\ q # <<>> /\ q \in Seq(Conns) /\ queue' \in [Sockets -> Seq(Conns)]
      /\ fd = Head(q) \/ fd = "error"
      /\ \/ queue' = queue /\ fd = "error"
         \/ queue'[s] = Tail(q) /\ \A r \in Sockets \ {s} : queue'[r] = queue[r]
    BY AcceptedTypes
<1>2. /\ 1 \in DOMAIN q /\ q[1] = Head(q)
      /\ \A i \in DOMAIN Tail(q) : i + 1 \in DOMAIN q /\ Tail(q)[i] = q[i + 1] /\ i + 1 # 1
    <2> HIDE DEF q
    <2> QED BY <1>1
<1>3. CASE queue' = queue /\ fd = "error"
    <2>1. \A r \in Sockets : \A i \in DOMAIN queue[r] : i \in Nat /\ queue[r][i] \in Conns
        BY DEF ServerTypes
    <2>2. Moved(s, 0)
        BY <1>3, <2>1 DEF Moved
    <2> QED BY <1>3, <2>1, <2>2, ConnsAssumption DEF ServerTypes
<1>4. CASE queue'[s] = Tail(q) /\ \A r \in Sockets \ {s} : queue'[r] = queue[r]
    <2>1. Moved(s, 1)
        <3> SUFFICES ASSUME NEW r \in Sockets, NEW i \in DOMAIN queue'[r]
                     PROVE  LET j == IF r = s THEN i + 1 ELSE i
                            IN  /\ j \in DOMAIN queue[r] /\ queue'[r][i] = queue[r][j]
                                /\ r = s => j # 1
            BY DEF Moved
        <3>1. CASE r = s
            BY <1>2, <1>4, <3>1
        <3>2. CASE r # s
            BY <1>4, <3>2
        <3> QED BY <3>1, <3>2
    <2>2. CASE fd = "error"
        <3>1. \A r \in Sockets : \A i \in DOMAIN queue'[r] : queue'[r][i] \in Conns
            BY <1>1
        <3> QED BY <2>1, <2>2, <3>1, ConnsAssumption DEF ServerTypes
    <2>3. CASE fd = q[1]
        <3>1. fd \notin absent /\ \A t \in DOMAIN threads : Taken(t) # fd
            BY <1>2, <2>3 DEF ConnsInv
        <3>2. \A r \in Sockets : \A i \in DOMAIN queue'[r] : queue'[r][i] # fd
            BY <1>2, <2>1, <2>3 DEF ConnsInv, Moved
        <3> QED BY <2>1, <3>1, <3>2
    <2> QED BY <1>1, <1>2, <2>2, <2>3
<1> QED BY <1>1, <1>3, <1>4

\* The connections left in the queues are there once, with no client and no thread.
LEMMA QueuesStay ==
    ASSUME ServerTypes, ConnsInv, NEW s \in Sockets, NEW d \in {0, 1}, Moved(s, d),
           queue' \in [Sockets -> Seq(Conns)]
    PROVE  /\ \A r \in Sockets : \A i \in DOMAIN queue'[r] :
                 /\ queue'[r][i] \notin absent
                 /\ \A t \in DOMAIN threads : Taken(t) # queue'[r][i]
           /\ \A r, u \in Sockets : \A i \in DOMAIN queue'[r], j \in DOMAIN queue'[u] :
                 queue'[r][i] = queue'[u][j] => r = u /\ i = j
<1>1. \A r \in Sockets : \A i \in DOMAIN queue'[r] :
          /\ queue'[r][i] \notin absent
          /\ \A t \in DOMAIN threads : Taken(t) # queue'[r][i]
    BY DEF Moved, ConnsInv
<1>2. ASSUME NEW r \in Sockets, NEW u \in Sockets,
             NEW i \in DOMAIN queue'[r], NEW j \in DOMAIN queue'[u],
             queue'[r][i] = queue'[u][j]
      PROVE  r = u /\ i = j
    <2> DEFINE a == IF r = s THEN i + d ELSE i
               b == IF u = s THEN j + d ELSE j
    <2>1. /\ a \in DOMAIN queue[r] /\ b \in DOMAIN queue[u] /\ queue[r][a] = queue[u][b]
        BY <1>2 DEF Moved
    <2>2. r = u /\ a = b
        <3> HIDE DEF a, b
        <3> QED BY <2>1 DEF ConnsInv
    <2>3. i \in Nat /\ j \in Nat
        OBVIOUS
    <2> QED BY <2>2, <2>3
<1> QED BY <1>1, <1>2

\* A thread is started for the connection, with the memory of this turn.
LEMMA HandOverAccept ==
    ASSUME HandOver, OneReady, NEW s \in Sockets, Accept(s)
    PROVE  CellsInv' /\ ConnsInv'
<1> DEFINE last == Len(cells)
           v == NewThread
<1>h. PICK h \in Descriptors(s) :
          Accepted(s, h) /\ cells' = Store(h) /\ threads' = Append(threads, v)
    BY DEF Accept
<1>1. Turn(s) /\ absent' = absent
    BY DEF Accept
<1>a. /\ last \in DOMAIN cells /\ server = "accept" /\ h \in Conns \cup {"error"}
      /\ queue' \in [Sockets -> Seq(Conns)]
    BY <1>h, <1>1, AcceptedTypes DEF HandOver
<1>2. /\ DOMAIN cells' = DOMAIN cells
      /\ cells'[last].fd = h /\ cells'[last].frees = cells[last].frees
      /\ \A k \in DOMAIN cells \ {last} : cells'[k] = cells[k]
    BY <1>h, <1>a, StoreTypes DEF HandOver
<1>3. /\ h \notin absent
      /\ \A t \in DOMAIN threads : Taken(t) # h \/ h = "error"
      /\ \A r \in Sockets : \A i \in DOMAIN queue'[r] : queue'[r][i] # h
      /\ \E d \in {0, 1} : Moved(s, d)
    BY <1>h, <1>1, QueueMoves DEF HandOver
<1>4. server' = "top"
    BY <1>h, <1>1 DEF Accepted, Serve, Turn, OneReady
<1>n. PICK n : n = Len(threads) + 1
    OBVIOUS
<1>5. /\ v.at = "start" /\ v.cell = last
      /\ threads'[n] = v /\ n \in DOMAIN threads' /\ n \notin DOMAIN threads
      /\ \A t \in DOMAIN threads : t \in DOMAIN threads' /\ threads'[t] = threads[t]
      /\ \A t \in DOMAIN threads' : t \in DOMAIN threads \/ t = n
    <2>1. threads \in Seq(Thread)
        BY DEF HandOver, ServerTypes
    <2>2. v.at = "start" /\ v.cell = last
        BY DEF NewThread
    <2> HIDE DEF v
    <2> QED BY <1>h, <1>n, <2>1, <2>2
<1> HIDE DEF v, last
<1>6. /\ \A t \in DOMAIN threads : threads[t].cell # last /\ threads[t].cell \in DOMAIN cells
      /\ cells[last].frees = 0
    BY <1>a DEF HandOver, CellsInv, ServerTypes, last
<1>7. \A t \in DOMAIN threads : Taken(t)' = Taken(t)
    BY <1>2, <1>5, <1>6 DEF Taken
<1>8. Taken(n)' = h
    BY <1>2, <1>5 DEF Taken
<1>9. CellsInv'
    <2>1. \A t, u \in DOMAIN threads' : t # u => threads'[t].cell # threads'[u].cell
        BY <1>5, <1>6 DEF HandOver, CellsInv
    <2>2. \A t \in DOMAIN threads' :
              cells'[threads'[t].cell].frees = IF threads'[t].at = "start" THEN 0 ELSE 1
        BY <1>2, <1>5, <1>6 DEF HandOver, CellsInv
    <2>3. \A k \in DOMAIN cells' : cells'[k].frees <= 1
        BY <1>2, <1>6 DEF HandOver, CellsInv
    <2> QED BY <1>4, <2>1, <2>2, <2>3 DEF CellsInv
<1>11. /\ \A r \in Sockets : \A i \in DOMAIN queue'[r] :
             /\ queue'[r][i] \notin absent
             /\ \A t \in DOMAIN threads : Taken(t) # queue'[r][i]
       /\ \A r, u \in Sockets : \A i \in DOMAIN queue'[r], j \in DOMAIN queue'[u] :
             queue'[r][i] = queue'[u][j] => r = u /\ i = j
    BY <1>3, <1>a, QueuesStay DEF HandOver
<1>13. \A t, u \in DOMAIN threads : t # u => Taken(t) # Taken(u) \/ Taken(t) = "error"
    BY DEF HandOver, ConnsInv
<1>14. \A t \in DOMAIN threads : Taken(t) \notin absent
    BY DEF HandOver, ConnsInv
<1>15. ConnsInv'
    <2>1. \A t \in DOMAIN threads' :
              (t \in DOMAIN threads /\ Taken(t)' = Taken(t)) \/ (t = n /\ Taken(t)' = h)
        BY <1>5, <1>7, <1>8
    <2>2. \A t \in DOMAIN threads' : Taken(t)' \notin absent'
        BY <1>1, <1>3, <1>14, <2>1
    <2>3. \A r \in Sockets : \A i \in DOMAIN queue'[r] :
             /\ queue'[r][i] \notin absent'
             /\ \A t \in DOMAIN threads' : Taken(t)' # queue'[r][i]
        BY <1>1, <1>3, <1>11, <2>1
    <2>4. \A t, u \in DOMAIN threads' : t # u => Taken(t)' # Taken(u)' \/ Taken(t)' = "error"
        BY <1>3, <1>13, <2>1
    <2> QED BY <1>11, <2>2, <2>3, <2>4 DEF ConnsInv
<1> QED BY <1>9, <1>15

\* No thread can be started: the connection leaves its queue and the memory is freed.
LEMMA HandOverRefuse ==
    ASSUME HandOver, OneReady, NEW s \in Sockets, NoThread(s)
    PROVE  CellsInv' /\ ConnsInv'
<1>h. PICK h \in Descriptors(s) :
          /\ Accepted(s, h)
          /\ cells' = [Store(h) EXCEPT ![Len(cells)].frees = Store(h)[Len(cells)].frees + 1]
    BY DEF NoThread
<1> DEFINE last == Len(cells)
           S == Store(h)
<1>1. /\ Turn(s) /\ cells' = [S EXCEPT ![last].frees = S[last].frees + 1]
      /\ UNCHANGED <<absent, threads>>
    BY <1>h DEF NoThread
<1>a. /\ last \in DOMAIN cells /\ server = "accept" /\ h \in Conns \cup {"error"}
      /\ queue' \in [Sockets -> Seq(Conns)]
    BY <1>h, <1>1, AcceptedTypes DEF HandOver
<1>2. /\ last \in DOMAIN cells /\ DOMAIN S = DOMAIN cells
      /\ S[last].frees = cells[last].frees /\ S \in Seq(Cell)
      /\ \A k \in DOMAIN cells \ {last} : S[k] = cells[k]
    BY <1>a, StoreTypes DEF HandOver
<1>3. \E d \in {0, 1} : Moved(s, d)
    BY <1>h, <1>1, QueueMoves DEF HandOver
<1>4. server' = "top"
    BY <1>h, <1>1 DEF Accepted, Serve, Turn, OneReady
<1>5. cells[last].frees = 0 /\ \A t \in DOMAIN threads : threads[t].cell # last
    BY <1>a DEF HandOver, CellsInv
<1> HIDE DEF last, S
<1>6. /\ DOMAIN cells' = DOMAIN cells /\ cells'[last].frees = 1
      /\ \A k \in DOMAIN cells \ {last} : cells'[k] = cells[k]
    BY <1>1, <1>2, <1>5 DEF Cell
<1>7. \A t \in DOMAIN threads : threads[t].cell \in DOMAIN cells \ {last}
    BY <1>5 DEF HandOver, ServerTypes
<1>8. \A t \in DOMAIN threads : Taken(t)' = Taken(t)
    BY <1>1, <1>6, <1>7 DEF Taken
<1>9. CellsInv'
    <2>1. \A t \in DOMAIN threads' :
              cells'[threads'[t].cell].frees = IF threads'[t].at = "start" THEN 0 ELSE 1
        BY <1>1, <1>6, <1>7 DEF HandOver, CellsInv
    <2>2. \A k \in DOMAIN cells' : cells'[k].frees <= 1
        BY <1>6 DEF HandOver, CellsInv
    <2> QED BY <1>1, <1>4, <2>1, <2>2 DEF HandOver, CellsInv
<1>10. /\ \A r \in Sockets : \A i \in DOMAIN queue'[r] :
             /\ queue'[r][i] \notin absent
             /\ \A t \in DOMAIN threads : Taken(t) # queue'[r][i]
       /\ \A r, u \in Sockets : \A i \in DOMAIN queue'[r], j \in DOMAIN queue'[u] :
             queue'[r][i] = queue'[u][j] => r = u /\ i = j
    BY <1>3, <1>a, QueuesStay DEF HandOver
<1>12. ConnsInv'
    BY <1>1, <1>8, <1>10 DEF HandOver, ConnsInv
<1> QED BY <1>9, <1>12

\* A client connects: its connection was nowhere before.
LEMMA HandOverConnect ==
    ASSUME HandOver, NEW c \in Conns, NEW s \in Sockets, Connect(c, s)
    PROVE  CellsInv' /\ ConnsInv'
<1> DEFINE q == queue[s]
<1>1. /\ queue' = [queue EXCEPT ![s] = Append(q, c)] /\ absent' = absent \ {c} /\ c \in absent
      /\ UNCHANGED <<server, cells, threads>>
    BY DEF Connect
<1>2. /\ q \in Seq(Conns) /\ queue \in [Sockets -> Seq(Conns)]
    BY DEF HandOver, ServerTypes
<1>n. PICK n : n = Len(q) + 1
    OBVIOUS
<1>3. \A i \in DOMAIN Append(q, c) :
          (i \in DOMAIN q /\ Append(q, c)[i] = q[i]) \/ (i = n /\ Append(q, c)[i] = c)
    <2> HIDE DEF q
    <2> QED BY <1>2, <1>n
<1>4. \A r \in Sockets : \A i \in DOMAIN queue'[r] :
          \/ i \in DOMAIN queue[r] /\ queue'[r][i] = queue[r][i]
          \/ r = s /\ i = n /\ queue'[r][i] = c
    <2> SUFFICES ASSUME NEW r \in Sockets
                 PROVE  \A i \in DOMAIN queue'[r] :
                            \/ i \in DOMAIN queue[r] /\ queue'[r][i] = queue[r][i]
                            \/ r = s /\ i = n /\ queue'[r][i] = c
        OBVIOUS
    <2>1. CASE r = s
        <3>1. queue'[r] = Append(q, c)
            BY <1>1, <1>2, <2>1
        <3> QED BY <1>3, <2>1, <3>1
    <2>2. CASE r # s
        BY <1>1, <1>2, <2>2
    <2> QED BY <2>1, <2>2
<1> HIDE DEF q
<1>5. \A t \in DOMAIN threads : Taken(t)' = Taken(t)
    BY <1>1 DEF Taken
<1>6. CellsInv'
    BY <1>1 DEF HandOver, CellsInv
<1>7. \A r \in Sockets : \A i \in DOMAIN queue[r] :
          queue[r][i] \notin absent /\ queue[r][i] # c
    BY <1>1 DEF HandOver, ConnsInv
<1>8. \A r \in Sockets : \A i \in DOMAIN queue'[r] :
          /\ queue'[r][i] \notin absent'
          /\ \A t \in DOMAIN threads : Taken(t) # queue'[r][i]
    BY <1>1, <1>4 DEF HandOver, ConnsInv
<1>9. \A r, u \in Sockets : \A i \in DOMAIN queue'[r], j \in DOMAIN queue'[u] :
          queue'[r][i] = queue'[u][j] => r = u /\ i = j
    BY <1>4, <1>7 DEF HandOver, ConnsInv
<1>10. ConnsInv'
    BY <1>1, <1>5, <1>8, <1>9 DEF HandOver, ConnsInv
<1> QED BY <1>6, <1>10

\* A thread copies its argument and frees the memory.
LEMMA HandOverArgument ==
    ASSUME HandOver, NEW t \in DOMAIN threads, TakeArgument(t)
    PROVE  CellsInv' /\ ConnsInv'
<1> DEFINE k == threads[t].cell
<1>1. /\ threads' = [threads EXCEPT ![t].at = "receive", ![t].fd = cells[k].fd]
      /\ cells' = [cells EXCEPT ![k].frees = cells[k].frees + 1]
      /\ threads[t].at = "start" /\ UNCHANGED <<queue, absent, server>>
    BY DEF TakeArgument
<1>2. cells \in Seq(Cell) /\ threads \in Seq(Thread) /\ k \in DOMAIN cells
    BY DEF HandOver, ServerTypes
<1>3. cells[k] \in Cell /\ threads[t] \in Thread
    BY <1>2
<1>4. /\ DOMAIN cells' = DOMAIN cells /\ Len(cells') = Len(cells)
      /\ cells'[k].frees = cells[k].frees + 1 /\ cells'[k].fd = cells[k].fd
      /\ \A j \in DOMAIN cells \ {k} : cells'[j] = cells[j]
    <2>1. DOMAIN cells' = DOMAIN cells /\ \A j \in DOMAIN cells \ {k} : cells'[j] = cells[j]
        BY <1>1, <1>2
    <2>2. cells'[k].frees = cells[k].frees + 1 /\ cells'[k].fd = cells[k].fd
        BY <1>1, <1>2, <1>3 DEF Cell
    <2>3. Len(cells') = Len(cells)
        BY <1>1, <1>2
    <2> QED BY <2>1, <2>2, <2>3
<1>5. /\ DOMAIN threads' = DOMAIN threads
      /\ threads'[t].at = "receive" /\ threads'[t].fd = cells[k].fd /\ threads'[t].cell = k
      /\ \A u \in DOMAIN threads \ {t} : threads'[u] = threads[u]
    BY <1>1, <1>2, <1>3 DEF Thread
<1>6. /\ cells[k].frees = 0
      /\ \A u \in DOMAIN threads \ {t} : threads[u].cell \in DOMAIN cells \ {k}
    BY <1>1 DEF HandOver, CellsInv, ServerTypes
<1>7. server \in {"select", "accept"} => k # Len(cells)
    BY DEF HandOver, CellsInv
<1>8. \A u \in DOMAIN threads : Taken(u)' = Taken(u)
    <2>1. Taken(t)' = Taken(t)
        BY <1>1, <1>5 DEF Taken
    <2>2. ASSUME NEW u \in DOMAIN threads \ {t} PROVE Taken(u)' = Taken(u)
        BY <1>4, <1>5, <1>6 DEF Taken
    <2> QED BY <2>1, <2>2
<1> HIDE DEF k
<1>9. CellsInv'
    <2>1. server' \in {"select", "accept"} =>
              /\ cells'[Len(cells')].frees = 0
              /\ \A u \in DOMAIN threads' : threads'[u].cell # Len(cells')
        <3> SUFFICES ASSUME server \in {"select", "accept"}
                     PROVE  /\ cells'[Len(cells)].frees = 0
                            /\ \A u \in DOMAIN threads' : threads'[u].cell # Len(cells)
            BY <1>1, <1>4
        <3>1. cells # <<>>
            BY DEF HandOver, ServerTypes
        <3>2. Len(cells) \in DOMAIN cells
            BY <1>2, <3>1
        <3>3. cells'[Len(cells)] = cells[Len(cells)]
            BY <1>4, <1>7, <3>2
        <3>4. cells[Len(cells)].frees = 0 /\ \A u \in DOMAIN threads : threads[u].cell # Len(cells)
            BY DEF HandOver, CellsInv
        <3> QED BY <1>5, <1>7, <3>3, <3>4
    <2>2. \A u, w \in DOMAIN threads' : u # w => threads'[u].cell # threads'[w].cell
        BY <1>5, <1>6 DEF HandOver, CellsInv
    <2>3. \A u \in DOMAIN threads' :
              cells'[threads'[u].cell].frees = IF threads'[u].at = "start" THEN 0 ELSE 1
        BY <1>4, <1>5, <1>6 DEF HandOver, CellsInv
    <2>4. \A j \in DOMAIN cells' : cells'[j].frees <= 1
        BY <1>4, <1>6 DEF HandOver, CellsInv
    <2> QED BY <2>1, <2>2, <2>3, <2>4 DEF CellsInv
<1>10. ConnsInv'
    BY <1>1, <1>5, <1>8, ConnsSame DEF HandOver
<1> QED BY <1>9, <1>10

LEMMA HandOverStep == HandOver /\ OneReady /\ [Next]_vars => HandOver'
<1> SUFFICES ASSUME HandOver, OneReady, [Next]_vars PROVE HandOver'
    OBVIOUS
<1>1. ServerTypes'
    BY ServerTypesStep DEF HandOver
<1>2. threads \in Seq(Thread)
    BY DEF HandOver, ServerTypes
<1>3. CellsInv' /\ ConnsInv'
    BY <1>2, WhatHappens, HandOverQuiet, HandOverRound, HandOverAccept, HandOverRefuse,
        HandOverConnect, HandOverArgument
<1> QED BY <1>1, <1>3 DEF HandOver

LEMMA HandOverInit == Init => HandOver
<1> SUFFICES ASSUME Init PROVE HandOver
    OBVIOUS
<1>1. ServerTypes
    BY TypesInit
<1>2. /\ DOMAIN threads = {} /\ DOMAIN cells = {} /\ server = "none"
      /\ \A s \in Sockets : DOMAIN queue[s] = {}
    BY DEF Init
<1>3. CellsInv /\ ConnsInv
    BY <1>2 DEF CellsInv, ConnsInv
<1> QED BY <1>1, <1>3 DEF HandOver

\* With any number of sockets: a connection is served twice, or memory is freed
\* twice, only after a turn of the server in which two sockets were ready.
THEOREM OneReadyServesOne == Spec /\ []OneReady => []ServedByOne
<1>1. HandOver => ServedByOne
    BY DEF HandOver, CellsInv, ConnsInv, ServedByOne
<1> QED BY <1>1, HandOverInit, HandOverStep, PTL DEF Spec

\* With one socket, as on a machine with one address family, that never happens.
THEOREM OneSocketServesOne ==
    ASSUME \A r, s \in Sockets : r = s
    PROVE  Spec => []ServedByOne
<1>1. ServerTypes => OneReady
    BY DEF ServerTypes, Queued, OneReady
<1>2. Spec => []OneReady
    BY <1>1, TypesInit, ServerTypesStep, PTL DEF Spec
<1> QED BY <1>2, OneReadyServesOne, PTL
=============================================================================
