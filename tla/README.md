# pi-turret: TLA+ models and proofs

pi-turret is a laser turret on a Raspberry Pi: a camera and a neural network
look for pigeons, a two-axis servo platform points at them, a laser is switched
on. A web page shows the state and a live stream and moves the platform by hand.
This directory holds TLA+ models of the program, the TLC configurations that
check them on small instances, and TLAPS proofs for every value of the constants.

Check a run with `tlc -config <X>.cfg <module>.tla`, the proofs with
`tlapm <module>.tla`. `PROJECT.json` lists the runs, the lines each definition
models, the mutant of each property, the findings, the hazards and the theorems.

## 1. Inventory

| Part | State | Operations | Talks to |
|---|---|---|---|
| `main.py` | `HStep`, `VStep`, `HPulse`, `VPulse`, `start`; three threads and the main thread | `cmd`, `controlCmd`, `turretControlfunc`, `turretFunc`, `streamingFunc`, the `except:` at the end | one `TurretHandler`, shared by all threads without a lock |
| `TurretHandler.py`, detection | `is_turret_enabled`, two counters, three LEDs | `startDetectionCycle`, `pointAndFire`, `isPersonInCurrentFrame`, `triggerAuxLaser`, `triggerMainLaser`, `setTurretState`, `gracefulExit` | camera, `YOLOv8`, GPIO |
| `TurretHandler.py`, servos | `angle_x`, `angle_y`, `last_servo_state.txt` | `__init__`, `rotateGradually`, `rotateGraduallyByPulse`, `persistServoState`, `loadLastServoState` | `PCA9685`, file system |
| `PCA9685.py` | the registers of the chip | `setPWM`, `setServoPulse`, `setRotationAngleGradually`, `start_PCA9685`, `exit_PCA9685` | I2C bus |
| `YOLOv8.py`, `Utils.py` | boxes, scores, classes of the last image | `process_output`, `getClassificationResults`, `multiclass_nms` | ONNX, OpenCV |
| mjpg-streamer, process | plugins with their function pointers, threads, sockets, `stop` | `main`, `input_init`, `input_run`, `worker_cleanup`, `output_run`, `server_thread`, `signal_handler` | started by `streamingFunc` as a process of its own |
| mjpg-streamer, frames | one frame buffer with mutex and condition | worker of `input_opencv`, `send_stream` and `send_snapshot` of `output_http` | all connections share the buffer |
| mjpg-streamer, HTTP | the `iobuffer`, the request and the answer of a connection | `_read`, `_readline`, `client_thread`, `send_file`, `execute_cgi`, `command` | browsers and `index.html` |
| `index.html` | none | one POST per button, `stop` on release | `main.py` over HTTP |

What is hard here:

* **Interleaving.** The detector, the chain of control Timers, the server and the
  signal handler (which Python runs inside the main thread) share the handler, the
  servos and the file. The flag `is_turret_enabled` is read once per iteration and
  once per tick, and both go on for seconds.
* **Partial failure.** Every I2C write may raise. The detector has a `finally`, the
  control tick has nothing, the server answers 500, and `gracefulExit` itself may
  fail before the lasers are off.
* **Crash and restart.** The angles survive in a file that is emptied before it is
  filled; on a restart the servos are driven to the base whatever the file says.
* **Arithmetic.** Degrees, microseconds and ticks are converted with `int()`, sweeps
  stop short, clamps and limits disagree by a few microseconds.
* **Several transfers for one thing.** A pulse is four writes on the I2C bus and the
  set-up of the chip seven; threads come between, a transfer fails, the process ends,
  and the chip keeps what it has.
* **Index arithmetic.** The suppression of duplicates works with places in lists of
  places, shifted and translated twice, and decides whether a crow is seen.
* **Condition variables.** Streaming clients wait without a predicate on a buffer
  that belongs to another thread.
* **Shutdown by sleeping.** `signal_handler` cancels threads, destroys their mutex and
  unloads their code after two sleeps of one second.
* **Requests in pieces.** A request arrives in any chunks, falls silent anywhere, and
  is searched by position.

What makes each part correct: the main laser burns only inside a burst and only
after a frame passed every test; the counters stay in step; disabling ends the
shooting and enabling locks the hand control; the servos stay within their limits
and near what is recorded; the file can be read back; a client gets whole frames
and is never forgotten; four transfers act as one and the chip runs at 50 Hz; what
the suppression keeps is what a set-theoretic definition says, and a crow is never
lost; every connection is served by one thread, understood whatever its chunks, and
closed once; CTRL+C ends the streamer. The complete list of hazards, each at its line, is in
`PROJECT.json`.

## 2. Modules

| Module | Models |
|---|---|
| `ServoMath` | the arithmetic as integer operators: `PulseOf`, `AngleOf`, `StepH`/`StepV`, `Accepts`, `SweepLast`, `InFrame`, `AimX`, `AimY`, `Reachable` |
| `TurretSystem` | the four threads at work on one handler |
| `ServoMotion` | pulses, recorded angles and the file, pulse by pulse, with restarts |
| `FrameFeed` | what the stream promises: the latest frame, whole, in one step |
| `FrameBroadcast` | the worker, the connections, the mutex and the condition variable; shown to implement `FrameFeed` |
| `PulseRegister` | what the PWM driver promises: a channel is written at one moment |
| `PwmDriver` | `PCA9685.py`, one transfer on the bus at a time, from several threads, with faults and crashes; shown to implement `PulseRegister` |
| `Vision` | from the output of the detection network to the target box |
| `HttpConnection` | one connection of `output_http`: reading, understanding, answering |
| `Streamer` | the process: start-up, worker, server and client threads, CTRL+C |
| `MC*` | constants for TLC (`Streamer` needs none) |
| `NumberLemmas` | least and greatest elements, induction over natural numbers |
| `*Proofs` | theorems and proofs |

### TurretSystem

`det`, `ctl`, `web` and `sig` say where each thread stands; a step ends where the
code can be overtaken (a sleep, a GPIO or I2C write, a capture, an inference).
`det` runs `startDetectionCycle`: `Park`/`Wake` is the disabled branch, `NextFrame`
the counting, `Capture` (= `SkipFrame` or `CountFrame`) the detection, then
`CheckPerson`, `Aim`, `AimDone`, `TriggerAux`, `FireOn`, `FireOff`, `Tail`. `ctl`
runs `turretControlfunc`: `Tick` reads the flag, then either `ClearSteps` or
`StepHorizontal`, `StepVertical`, `Watchdog`. `web` takes any of the `Requests` at
any time (the page and the network are the environment), and ends the program
through `EndProgram`. `sig` runs `gracefulExit` while `web` stands still.
`GracefulExit` is one set of actions used by all three threads that run it. `Fault`
raises an exception wherever a device is touched.

A camera frame is a record: the classes that were reported, the box of the best
result, the best score of a person. Boxes are whole pixels; scores are percent.
`FiringFrameChecked` says what the code establishes before a shot, with the person
threshold the code has; what the comment at that threshold asks for is `NoPersonInShot`
(`turret_person`, section 3).
Both comparisons with 0.7 (the detector's and `getTargetPigeonCandidateBox`'s) are
one, because a reported class passed both.

**How the program starts.** As committed, `TurretHandler.py` ends with the three
lines of its docstring's example (364-366), so that importing it from `main.py`
line 10 runs the detection cycle in the main thread and the server is reached only
when that cycle fails. `README.md` lines 19-20 describe the other program: the
server starts, and detection is off until a client enables it. `TurretSystem` models
that one, i.e. `main.py` with the class and without the example; `ServoMotion` with
`Movers = {"det"}` models the example. A module on the start itself is planned.

Other readings: no window is ever shown, so `cv2.waitKey` reports no key and the
loop does not break; gpiozero releases its pins when the interpreter exits
(external); time appears only as the order of steps, except for the watchdog, whose
five seconds are `QuietTicks` ticks. A sleep of five seconds may or may not count as
more than five once both ends are rounded down, and the model allows both.

### ServoMotion

`angle` is what `TurretHandler` records, `pulse` what the servo was given, `file`
the text of `last_servo_state.txt` as a sequence of digits and one space. A sweep is
one step per pulse; a save is three steps (the file is emptied, the text is put into
a buffer, the buffer is written over the start of the file), so that two saves can
overlap as they do in the code. `Restart` may happen at any moment. `fresh` is a
history variable: no rotation has ended since the start. An exception in the middle
of a rotation is the subject of `TurretSystem` and does not occur here; a process
that ends there does.

### FrameBroadcast

The worker captures, takes the mutex, fills the buffer, broadcasts, gives the mutex
back. A connection waits, takes the mutex again, reads the size, makes room, copies,
gives the mutex back, writes. The size and the bytes are read in two steps.
`imencode`, the two assignments and the broadcast are one, as they happen under the
mutex and nobody reads the buffer without it. An `imencode` that fails leaves the buffer
empty, and the empty frame (`NoFrame`, size 0) is announced and sent like any other; one
that throws ends the process and is left out. `jpeg_buffer` is a local of the worker:
once the worker has returned, a copy may be anything (a crash of the process, the
other outcome, ends everything and violates nothing). Feed-level correspondence:
`latest` is `jpeg`, a waiting thread is `waiting`, one that was woken and has not
copied is `ready`, `held` is `frame`.

### PwmDriver and PulseRegister

One action is one transfer: `Reset` to `EnableOutputs` are `__init__` and
`setPWMFreq`, `WriteOnL` to `WriteOffH` are `setPWM`, `Start` and `Exit` switch
`MODE2`. A thread does a rotation (any number of pulses, then `Exit`) or a manual step
(one pulse, no `Exit`: that line is commented out in the code). `Fault` is an exception
in any transfer, `Crash` the end of the process at any moment, after which the main
thread sets the chip up again and finds the registers as they were. Of the chip, three
facts are external: the prescaler is taken only while it sleeps, a write to
`LEDn_OFF_H` clears the full-off bit, registers survive the process. `held` is a
history variable: somebody who does not switch the outputs off has switched them on.
The pulses are those within the limits of the axes (`PulseInLimits` of `ServoMotion`
says when that holds). The promise is `PulseRegister`: `Effect` is `WriteOffL`, the
moment at which the count changes; the other three transfers are stutters or the
return, because within the limits the other registers hold 0.

### Vision

One step is one turn of a loop: `Infer`, `ProcessOutput`, then for each class
`NextClass`, `Pick` (one turn of `nms`) and `ClassDone`, then `Suppressed` and
`ChooseTarget`. `members`, `order`, `kept` and `keep` are the places the code computes
with, so the two shifts (`keep_indices + 1`, `class_indices[...]`) are in the model;
`Listings` is the ascending order in which numpy returns the places it selects. A
sort that is not stable is any order of equal scores. Boxes are small whole numbers,
scores percent. 0 / 0 of numpy is modelled as what it does: the comparison is false.
The reference for `KeepsKernel` knows no index and no ratio: a box is the set of its
cells. `Vision` is the inside of `HasTarget` of `TurretSystem`, whose frames are
reports that have gone through it.

### HttpConnection

`sent` is what the client sends until it falls silent, as words: stretches of text
that one comparison of the code looks for. `Fill` returns any number of words up to
the size of the buffer and aligns them at its end, `TakeByte` takes one into the line,
`GiveUp` is the timeout of five seconds or a closed connection. What a client may do for
ever is told by two more of its variables: with `extra` it sends one header line after
the other, each in time (`Trickle`), without `reads` it takes nothing, and a `write()`
need not return. `ParseRequest` tries
the patterns in the order of the code; the plugin number is the digit after the first
underscore anywhere in the line. Then header lines, password, number, and one action
per type of answer; `closed` counts how often the descriptor was closed. A thread that
waits for frames is in `frame`; what happens there is `FrameBroadcast`. A call through
a null pointer (`httpd.c:992` and `999` do not test the optional command of a plugin)
and a CGI request without a www folder (`httpd.c:797`) end in `crashed`. A header field is looked for anywhere in a line
(`strcasestr`), and its value is what follows the length of its name: where a field does
not begin its line (`FieldsBeginLines`), which HTTP does not allow, the value is cut at
the wrong place, so `HeaderUnderstood` says nothing of the credentials then. That the
digits of plugin numbers are digits is `DigitsAssumption`; the number of a command
(`PluginIds`) is any integer, as `strtol` reads a sign. What lies below the table of
plugins is not known: `Call` with a negative number crashes or is answered like a
success. Left out: the text of pages, `malloc` that fails and ends the process, the
builds with `MANAGMENT` and `WXP_COMPAT`.

### Streamer

`main` and `handler` say where `main()` and `signal_handler` stand; the handler
interrupts `main()`, which then stands still. `known` are the pointers that start-up
has set, `mapped` the plugins whose code is loaded, `context` the memory that worker
and handler share, `cells` the allocations that carry a descriptor from the server
thread to a client thread, with the number of times each was freed. `accept()` may return
-1 ("error"), up to `MaxErrors` times: the client has gone, or no descriptor is left and
the connection stays in its queue; a thread is started all the same, `select()` with its
descriptor of -1 returns at once or after five seconds, and it ends. A read from freed
memory may give anything; the model lets `input_stop` with a stale context either find
the thread or crash (`CancelWorker`, `BadCall`).

Four assumptions: the signal comes once and in the main thread; `Settled`, a sleep of
one second is enough for a thread that computes, and not for one that waits (the model
has no other clock); a camera is `steady`, a capture takes less than a second, or
`hangs`; `pthread_cond_destroy` of glibc (2.25 and later) waits for those who wait already. A
snapshot that is asked for afterwards waits on a destroyed condition variable (`stop` is
tested by streams only), and that wait may block or return.

## 3. Runs

| Run | Question | Bounds | States |
|---|---|---|---|
| `turret_safety` | types, lasers, checks before a shot, counters; the main thread gets out | 5 frames, thresholds 2/2, 3 requests, 1 fault, 1 signal | 361 thousand |
| `turret_live` | disabling, enabling, stopping take effect | 5 frames, thresholds 2/2, 8 requests, no fault | 58 thousand |
| `turret_person` | (violation) a person in the frame of a shot | 5 frames, one fault-free detector | stops at about 400 |
| `servo_alone` | driven, recorded and saved angles agree | 3 targets, 2 saved files, 1 crash | 1.9 thousand |
| `servo_shared` | the file stays readable, pulses stay in limits | 3 threads, 3 client moves | 1.1 million |
| `pwm` | 50 Hz, outputs off, four transfers as one write | 2 threads, 3 pulses, any faults and crashes | 1 million |
| `vision` | suppression, crows, best target | every report of up to 3 of 20 predictions | 118 thousand |
| `frames` | whole frames, fitting copies, refinement, no forgotten client | 2 connections, 2 sizes, frames that cannot be encoded | 166 thousand |
| `http` | reading, understanding, access, errors, end | 74 requests, 6 configurations, chunks of 1 to 3 words, 4 kinds of client | 176 thousand |
| `streamer` | one thread per connection, quiet shutdown, explained crashes; CTRL+C ends the process, every connection is accepted | 2 clients, 1 socket, 1 failing `accept()` | 342 thousand |

The other violation runs (`servo_restart`, `streamer_two_sockets`) are below. `streamer` takes
about three minutes, the others less than two.

Why the bounds are enough. The thresholds are 2 and 30 in the code; 2 and 2 make
every comparison of the two counters happen on both sides within a few iterations,
and the theorems cover all values. The frames contain one of every way an iteration
can go: another bird, over the edge, unreachable, a person above the threshold, and a target with a person of
60 percent, between the threshold of the code and that of its comment. One fault and one
signal occur at every place, including inside the other's clean-up. The targets of `servo_alone` lie on both sides
of the base and change the number of digits in the file, and every ordered pair of
them is rotated between. In `servo_shared` the vertical servo crosses from one digit
to two, so texts of different lengths overlap. In `frames` the larger frame does not
fit the margin the smaller one leaves. The pulses of `pwm` are the shortest, the base
and the longest, with different low bytes; a third thread adds no new pair of writers,
and the theorems are about any number. The boxes of `vision` contain a chain of three
(each a duplicate of the next, the ends none of each other), an overlap of exactly one
half, and boxes without area; three are the least that make a chain. The lines of
`http` are longer than the buffer of three words, the header line that is too long is
longer than the line buffer; plugin numbers are one below the first, the first, one that
exists and one beyond the last. One failing `accept()` comes before, between and after
the connections; a second one adds no new neighbour, and the theorems are about any
number. Two clients of `streamer` can be in the queue, in the
accept loop and in their threads at once; with one socket the second never shares a
cell with the first, with two (`streamer_two_sockets`) it can.

Deadlock is checked in `turret_live`. It is not where the system really stops: a
process that ended (`turret_safety`, the streamer runs), clients that stopped asking (the
servo runs), a worker that left (`frames`), a connection that was closed (`http`).

**Fairness.** `turret_live` and `turret_safety` assume weak fairness of each thread:
the interpreter runs every thread that can run, and every sleep, I2C write and
inference ends. Nothing is assumed of clients, signals or devices. `frames` assumes
that threads run and that a thread waiting for the mutex is not passed over for ever
(strong fairness of the lock steps); the worker leaves the mutex free during every
capture, some 30 ms each time, so this is what the scheduler does. No fairness makes
a client connect, a wait end by itself, or the camera end or go on. `http` assumes
that the thread runs, that a read ends after five seconds and that frames keep coming.
It does not assume that a write returns to a client that does not read (a step that adds
an answer is fair only where `reads` holds), nor that a header ends; so `ConnectionEnds`
names the three ways in which a connection may last for ever: it has become a stream,
its header has no end, or a write waits. `streamer` assumes that the main thread
(`main()`, then the handler), the server, the worker and the client threads run on while they can, and
that a steady camera delivers or fails; it does not oblige a client to connect, to ask
for anything or to take what is sent, nor a camera that hangs to wake up.

Liveness properties exclude what the code gives up on: a detector that died, a
process that ended, a worker that left.

### What the violation runs show

| Run | A document says | The code does |
|---|---|---|
| `turret_person` | `TurretHandler.py:290`, of the threshold of the person check, "should not be higher than 0.3 (30% confidence)  for safety!" | the threshold is 0.9: a person of 60 percent in the frame does not keep the turret from aiming and firing |
| `servo_restart` | `TurretHandler.py:49` "bounds y: 5 - 25 deg" | "31 9" written over "31 10" leaves "31 90", and the first rotation after a restart starts there. The trace needs a save that is overtaken between `write` and the end of `with`; the model has no clock and does not say how likely that is |
| `streamer_two_sockets` | `httpd.c:1030-1032` "It must have been allocated so it is freeable by this thread function" | one allocation per `select()` (`httpd.c:1548`) is handed to a thread for every socket that is ready: on a host with IPv4 and IPv6, of two connections that arrive together the first may be served by nobody and the second by two threads, and the memory is freed twice |

Further disagreements between a document and the code that follow from the models
without a run of their own: `main.py:122` skips a tick "to avoid clashing with automatic
detection movements", but the flag is looked at once, at the start of a tick (`Tick` of
`TurretSystem`), and says nothing of an iteration that is under way: a tick that begins
right after `disable_turret` moves the servos while the detector still aims and fires, and
one that passed the test moves them while an enabled detector begins to
(`DisableQuiesces` and `EnableLocksManual` say that both come to an end);
`httpd.c:994` reports "Invalid plugin number: %d because only %d input plugins loaded", but
the test before it (`httpd.c:991`) has an upper bound only and the number is signed, so
`plugin=-1` passes and what stands before the first plugin is called (`Command` of
`HttpConnection`; `PluginsCounted` confines it to this case); `httpd.c:1368-1369` says of the
`output_file` plugin "If it not loaded, or the file could not be saved then we won't transmit
the frame.", but a take without `filename=` saves nothing, sends 404, and the frame behind it
(`TakeWithoutName`, the exception of `ErrorIsLast`); the iteration in progress fires after `disable_turret` was
answered with OK (`TurretHandler.py:298`; `README.md:20` calls detection "disabled");
the handler of a signal prints "Program end"
(`TurretHandler.py:179`) and returns to a server that goes on; a connection woken by
the last frame copies from a buffer that went with the worker (`input_opencv.cpp:439`,
`Garbage` in `FrameBroadcast`); a plugin without its "optional command"
(`mjpg_streamer.c:332`) is called all the same (`httpd.c:992`, `Call` in
`HttpConnection`); CTRL+C, meant for plugins to "tidily shutdown"
(`mjpg_streamer.c:87`), does not end a process in which a client waits and the worker has
ended, because the camera failed or because a snapshot was asked for after the CTRL+C
(`Stuck` in `Streamer`); the comment after `imencode` (`input_opencv.cpp:436`) asks what to
do about an error, and the code sends an empty frame (`NoFrame` in `FrameBroadcast`).

## 4. Proofs

**TurretSystemProofs** (any frames, thresholds, requests, numbers of faults and
signals; assumptions `FramesAssumption` and `BoundsAssumption` of the module).
`TypeCorrect`, `LaserConfined`, `CountersConfined` and `FiringChecked` state the four
invariants of `turret_safety` for every instance. The inductive invariant is

    IInv == TypeOK /\ Examined /\ LaserOnlyInBurst /\ CountersInStep

`FiringFrameChecked` is not inductive: that the frame aimed at passed the tests of
its capture is known only if it was known between the capture and the person check.
`Examined` says what is established at each place from the capture on. `TypeOK` needs
`CountersInStep`, which bounds the counters that `CountFrame` and `NextFrame`
increment. The proof goes conjunct by conjunct and, in each, action by action; steps
of the other threads are settled once, in `OthersLeaveDetector`. `BoxInside` and
`ExaminedFrame` take from the tests of the code what `FiringFrameChecked` states
about the box.

**FrameBroadcastProofs** (any number of connections, any frames). `TypeCorrect`
includes mutual exclusion on the buffer. `FramesWhole` and `CopiesFit` need
`SizeHolds`: between the two reads of a thread nobody re-encodes, because that takes
the mutex the thread holds. `Implements` shows `Spec => FrameFeed!Spec`: initial
states map to initial states (`InitRefines`), each step to a step or a stutter
(`StepRefines`).

**ServoMotionProofs**, the arithmetic, for all arguments: `RoundTrip`, `StepAsymmetry` (a
step up the scale is one degree, a step down it two), `ManualStepInLimits`,
`SweepStopsShort`, `CountFitsByte` (the high byte of a channel is always 0 within the
limits, so interleaved writes of one channel do not mix), `AimFollowsTarget` (the
translation of a box into angles never turns back horizontally; vertically it turns back
by up to two degrees, where `TurretHandler.py:237` begins to compress: a box aimed at
with 18 degrees is followed, further down, by one aimed at with 16).

**ServoMotionProofs**, the motion (any targets, manual steps and saved angles within the
limits, any number of rotations). `PulsesWithinLimits` holds without a restart
(`MaxCrashes = 0`) for every set of movers, although they share the angles without a
lock: `LimitsInv` says that recorded angles, and the arguments a sweep has taken from
them, are always allowed ones, that a sweep has not left its start in the wrong
direction, and that a manual step on its way has been clamped. With a restart the
property is false (`servo_restart`). `ServosFollow` and `MotionIsGradual` are about the
detector on its own (`Movers = {"det"}`), the example of the docstring. `ServoFollows` is
not inductive: `FollowInv` adds how far each servo is behind the sweep that moves it
(`UnderWay`), where the one that has not moved yet stands (`Waiting`), and that the first
rotation goes to the base, where `__init__` has put the servos whatever the file says.

**ServoMotionProofs**, the file (any movers unless said otherwise, any number of
restarts). `Digits` and `Number` are recursive functions; `DigitsAre`, `NumberIs` and
`NumberAppend` show that they have values which satisfy their equations, `DigitsRead` that
the digits of a number stand for it. From these `SavedIsRead`: what a save writes is read
back as the same angles. `MotionTypes` (`TypeOK`) cannot use the limits, as a start takes
any two numbers for angles; `TypeInv` says instead that the file is a sequence of digits
and spaces, and a pulse is in range because `Writable` or a clamp has let it through.
`FileIsReadable` (`FileLoads`) holds with restarts too, although what is read may not be
what was meant. `FileLoads` alone is not inductive: a text could be written over one whose
space is further back, and there would be two. `LoadsInv` says that no horizontal angle
ever has more than two digits, so the space of every text, on its way or in the file, is
at its second or third place (`Loadable`), and each text covers the space of the one it is
written over (`OverwriteLoadable`); the vertical angle may grow by the digits that show
from under it. The invariant was checked on an instance with three movers and a restart
before it was proved. So `Restart` is never refused by the file. `FileRecordsAngles`
(`FileRecords`), of the detector alone: `RecordInv` says what the file holds at each place,
and a start reads from it either the angles of the last save (`SavedIsRead`) or nothing.
With three movers `FileRecords` is false: the save of one is overtaken by the angles of
another.

**PwmDriverProofs** (any threads, any pulses within the limits). `TypeCorrect`,
`FrequencyRight`, `OutputsSwitchedOff`, and `Implements`: `Spec => PulseRegister!Spec`.
The inductive invariant adds to the types where the boot has brought the chip (`BootOK`:
asleep while the prescaler is written, 50 Hz from then on) and that outputs which are
on have somebody who still switches them off, or `held` (`HeldOK`). The refinement
rests on `CountsFit`: every count is below 256, so the registers that are not written
at the moment of `Effect` hold what they will hold.

**HttpConnectionProofs** (every request, chunking, buffer size and configuration).
`ReaderExact`: the part of the buffer before its `level`-th place from the end is never
read again, and the rest is what arrived and was not taken. `ErrorsEnd`: at every place
of the thread, how many answers there can be and which (`AnswersInv`). `ConnectionTypes`
and `PluginNumbers` from `ConnectionInv`, the types of the reader, of the request and
of the thread together with where `number` has been compared with the number of plugins
(`PluginsInv`); `PluginNumbers` (`PluginsCounted`) is for plugin numbers of either sign,
and says of negative ones what is true of them: a command reaches below the table with
them, and nothing else does (`BelowInv`). `RequestUnderstood` and `OnlyAuthorised` need to know what the thread has
taken when it believes that the header is over: `HeadInv` relates the line and the words
taken to what was sent (`NothingLost` gives this), the credentials to the last field
before the place reached; `AuthorisedInv` adds that nothing is delivered
before the comparison of the credentials, and that it has succeeded from `locate` on.

**StreamerProofs** (any clients, any sockets). `ShutdownQuiet` and `CrashesExplained`
from one invariant: which pointers, threads and mappings exist at each place of `main()`
and of the handler, and what `Settled` has left of the worker and the server.
`StreamerTypes` from the types of server, clients and main thread. `ServedByOne` is false
for several sockets (`streamer_two_sockets`); `OneReadyServesOne` says precisely when:
under `[]OneReady`, no two sockets ready in one turn of the server, it holds for any
number of them. `HandOver` follows an allocation from the server to its thread: who holds
it, that it was not freed before, and that a connection is with its client, in a queue
or with one thread; threads that `accept()` gave no connection are told apart by
`ConnsAssumption`, "error" is no connection. `OneSocketServesOne` discharges the hypothesis where there is one socket.

**VisionProofs** (any predictions with integer boxes and scores, reports of any length).
`KernelKept` shows the loops equal to the definition by sets of cells. `VisionInv` says what
has been decided so far: `MembersInv` that the members of the class at work are the places
of that class, each once; `SuppressionInv` that the boxes picked are no duplicates of each
other nor of those in `order`, and that a member in neither is the duplicate of a picked one
with no lower score; `KeepInv` the same for the classes that are done. `ThresholdIs` turns
the quotient of `compute_iou`, with its 0 / 0, into a comparison of numbers of cells.
`CrowsVeto` and `BestIsTarget` follow: whatever is missing from `keep` has a member of its
own class there that scores as high.

**NumberLemmas**: `LeastExists`, `GreatestExists`, `Induction`, `StrongInduction`. The
library's induction theorems take an operator as a parameter; these quantify over sets of
numbers and are derived from the well-foundedness of strict inclusion among finite sets.
They carry the proofs about the digits of the file and the lists of `Vision`.

Every invariant and every action property of the passing runs is stated by a theorem. Only
model-checked is what is under fairness (`DisableQuiesces`, `EnabledKeepsLooking`,
`EnableLocksManual`, `StopReachesServo`, `MainThreadReturns`, `WaitersServed`,
`ConnectionEnds`, `SignalEnds`, `EveryoneServed`), which the prover does not reach. Theorems
under a hypothesis, with what happens without it: `PulsesWithinLimits` (no restart;
`servo_restart` violates it), `ServosFollow`, `MotionIsGradual` and `FileRecordsAngles` (the
detector alone; others move the servos and save at the same time), `OneReadyServesOne`
(`streamer_two_sockets`). `NoPersonInShot` is false (`turret_person`).

## 5. Not modelled

The neural networks (what they report is an input), the scaling of images, drawing,
logging and the page's layout; `raspi_bash_history.txt`, fonts, style sheets, jQuery,
models. Of mjpg-streamer: option parsing, the text of the JSON pages, MIME types and
unescaping of file names.

Most lines of the repository are vendored plugins that this system never loads:
`main.py:103` starts `input_opencv.so` and `output_http.so`. `input_uvc`,
`input_raspicam` with its copy of MMAL, `input_file`, `input_http`, `input_ptp2`,
`output_udp`, `output_rtsp`, `output_viewer`, `output_autofocus` and the 9809 lines of
image data in `input_testpicture/testpictures.h` have no behaviour in the turret, and a
model of them would say nothing about it. They are why the share of all lines that the
models cover is small, while the turret's own Python and the two loaded plugins are
covered nearly whole.

The electrical meaning of `MODE2` is not modelled beyond its value.

## 6. Plan

Done, in this order: `ServoMath`, `TurretSystem` and its proofs, `ServoMotion`,
`FrameFeed` and `FrameBroadcast` with the refinement proof; then `HttpConnection`,
`PwmDriver` with the refinement of `PulseRegister`, `Vision` and `Streamer`, each with
proofs of all its invariants.

1. `Boot`: the start of the program, with and without the module-level example:
   the import that runs the cycle, the second `TurretHandler` after a failure and
   the pins it cannot claim, the handlers that are registered too late. It will show
   `README.md:18` ("This will start Bottle WSGI server") against the code.
2. `ManualControl`: pulses, steps and the watchdog with times, for a command lost to
   the watchdog and for a "stop" that is lost; an abstract promise "a held button
   moves, a released one stops" refined by `TurretSystem`'s control thread.
3. What a client is told: the state reported by `/api/turret-state` and the answer to
   a request against what the turret does; the memory of detections across a quick
   disable and enable.
4. Proofs to come: that the abstract feed and the register keep promises of their own
   (`FrameFeed` with numbered frames: none is sent after a newer one), so that the
   refinements carry them to the code; what remains true of the file and the servos when a
   start has misread the file; the modules above.
