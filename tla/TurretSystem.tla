---------------------------- MODULE TurretSystem ----------------------------
(***************************************************************************)
(* The threads of main.py at work on one TurretHandler:                    *)
(*                                                                         *)
(*   det   turretThread, which runs startDetectionCycle;                   *)
(*   ctl   the chain of Timers that runs turretControlfunc every 0.05 s;   *)
(*   web   the main thread: the Bottle server, one request at a time, then *)
(*         the "except:" that ends the program;                            *)
(*   sig   the SIGTERM/SIGINT handler, which Python runs in the main       *)
(*         thread: web stands still until it returns.                      *)
(*                                                                         *)
(* No lock is used anywhere.  A step of the model ends where the code can  *)
(* be overtaken: at a sleep, a GPIO or I2C write, a capture or an          *)
(* inference.  Where the platform points is the subject of ServoMotion;    *)
(* here a rotation is an interval between its first and its last write.    *)
(***************************************************************************)
EXTENDS ServoMath

CONSTANTS
    Frames,          \* what the camera may deliver (see FramesAssumption)
    NoFrame,         \* no frame is being worked on
    ConfThreshold,   \* detection_confidende_threshold
    ResetThreshold,  \* detection_reset_threshold
    Requests,        \* the POST requests clients send
    QuietTicks,      \* control ticks that add up to more than 5 s
    MaxFaults,       \* bound: exceptions raised by I2C, camera or files
    MaxSignals       \* bound: SIGTERM/SIGINT received

Classes == {"pigeon", "crow", "magpie"}

\* A frame: the classes getObjects reports, the box <<x0, y0, x1, y1>> of its
\* best result in whole pixels, and the highest score, in percent, of a person.
ASSUME FramesAssumption ==
    /\ \A f \in Frames :
          /\ f.birds \subseteq Classes
          /\ \A i \in 1 .. 4 : f.box[i] \in Int
          /\ f.box[1] <= f.box[3] /\ f.box[2] <= f.box[4]
          /\ f.person \in 0 .. 100
    /\ NoFrame \notin Frames
ASSUME BoundsAssumption ==
    /\ ConfThreshold \in Nat \ {0} /\ ResetThreshold \in Nat
    /\ QuietTicks \in Nat \ {0} /\ MaxFaults \in Nat /\ MaxSignals \in Nat

VARIABLES
    det, ctl, web, sig,     \* where each thread stands
    enabled,    \* is_turret_enabled
    conf,       \* detection_confidende_counter, local to det
    reset,      \* detection_reset_counter, local to det
    frame,      \* the frame whose target is being examined, local to det
    mainLaser, auxLaser, statusLed,     \* the three gpiozero LEDs
    driving,    \* MODE2 of the PCA9685 is 0x04 (start) and not 0x00 (exit)
    hstep, vstep,   \* HStep and VStep, in units of 15 microseconds
    idle,       \* control ticks since `start` was last set, up to QuietTicks
    exits,      \* gracefulExits the ending main thread has still to run
    faults, signals

threads == <<det, ctl, web, sig>>
local   == <<conf, reset, frame>>
lights  == <<mainLaser, auxLaser, statusLed>>
manual  == <<hstep, vstep, idle>>
vars    == <<threads, enabled, local, lights, driving, manual, exits, faults, signals>>

Step(at, from, to) == at = from /\ at' = to

ServerFree == sig = "off"      \* the main thread is not in a signal handler
Running    == web # "gone"     \* the process exists

----------------------------------------------------------------------------
(* What startDetectionCycle and pointAndFire decide from one frame. *)

\* getObjects and getTargetPigeonCandidateBox: both compare with 0.7, so the
\* classes a frame reports have passed the second comparison as well.
HasTarget(f) ==
    /\ f.birds # {}
    /\ ~("crow" \in f.birds \/ "magpie" \in f.birds)

IsCandidate(f) == HasTarget(f) /\ InFrame(f.box)

\* getClassificationResults drops what scores 0.5 or less, and
\* isPersonInCurrentFrame compares with person_class_detection_threshold.
PersonThreshold == 90
SeesPerson(f) == f.person > 50 /\ f.person > PersonThreshold

----------------------------------------------------------------------------
(* rotateGradually seen from outside, shared by det, web and sig:          *)
(* start_PCA9685, the two sweeps, exit_PCA9685 and the file.               *)

RotateBegin(at, from, to) == Step(at, from, to) /\ driving' = TRUE
RotateEnd(at, from, to)   == Step(at, from, to) /\ driving' = FALSE

----------------------------------------------------------------------------
(* gracefulExit, run by det when its loop fails, by sig for a signal, and  *)
(* by web when the program ends: once for "except:", once for atexit.      *)

ExitPlaces == {"x_rotate", "x_rotating", "x_park", "x_status", "x_aux", "x_main"}

ExitRotate(at) ==
    /\ \/ RotateBegin(at, "x_rotate", "x_rotating")
       \/ RotateEnd(at, "x_rotating", "x_park")
       \/ RotateEnd(at, "x_park", "x_status")      \* exit_PCA9685 once more
    /\ UNCHANGED lights

ExitLights(at) ==
    /\ \/ Step(at, "x_status", "x_aux") /\ statusLed' = FALSE /\ UNCHANGED auxLaser
       \/ Step(at, "x_aux", "x_main") /\ auxLaser' = FALSE /\ UNCHANGED statusLed
    /\ UNCHANGED <<mainLaser, driving>>

\* The last LED; the thread goes on to `next`.
ExitDone(at, next) ==
    /\ Step(at, "x_main", next)
    /\ mainLaser' = FALSE
    /\ UNCHANGED <<auxLaser, statusLed, driving>>

GracefulExit(at, next) == ExitRotate(at) \/ ExitLights(at) \/ ExitDone(at, next)

----------------------------------------------------------------------------
(* det: startDetectionCycle *)

StartCamera ==
    /\ Step(det, "new", "loop")
    /\ auxLaser' = TRUE
    /\ UNCHANGED <<local, mainLaser, statusLed, driving>>

\* Mutant: the test of the flag inverted.
Park_Inverted ==
    /\ enabled
    /\ Step(det, "loop", "nap")
    /\ conf' = 0
    /\ statusLed' = FALSE
    /\ UNCHANGED <<reset, frame, mainLaser, auxLaser, driving>>

\* The turret is disabled: five seconds of sleep.
Park ==
    /\ ~enabled
    /\ Step(det, "loop", "nap")
    /\ conf' = 0
    /\ statusLed' = FALSE
    /\ UNCHANGED <<reset, frame, mainLaser, auxLaser, driving>>

Wake ==
    /\ Step(det, "nap", "loop")
    /\ UNCHANGED <<local, lights, driving>>

\* Mutants: the counters never start again; the flag is not looked at.
NextFrame_NeverResets ==
    /\ enabled
    /\ Step(det, "loop", "capture")
    /\ statusLed' = TRUE
    /\ reset' = reset + 1
    /\ UNCHANGED <<conf, frame, mainLaser, auxLaser, driving>>
NextFrame_Unguarded ==
    /\ Step(det, "loop", "capture")
    /\ statusLed' = TRUE
    /\ UNCHANGED <<local, mainLaser, auxLaser, driving>>

\* The turret is enabled: count the iteration, forget stale detections.
NextFrame ==
    /\ enabled
    /\ Step(det, "loop", "capture")
    /\ statusLed' = TRUE
    /\ IF conf < ConfThreshold /\ reset + 1 > ResetThreshold
       THEN conf' = 0 /\ reset' = 0
       ELSE conf' = conf /\ reset' = reset + 1
    /\ UNCHANGED <<frame, mainLaser, auxLaser, driving>>

SkipFrame(f) ==
    /\ ~IsCandidate(f)
    /\ Step(det, "capture", "tail")
    /\ UNCHANGED local

CountFrame(f) ==
    /\ IsCandidate(f)
    /\ conf' = conf + 1
    /\ IF conf + 1 >= ConfThreshold
       THEN Step(det, "capture", "person") /\ frame' = f
       ELSE Step(det, "capture", "tail") /\ UNCHANGED frame
    /\ UNCHANGED reset

Capture ==
    /\ \E f \in Frames : SkipFrame(f) \/ CountFrame(f)
    /\ UNCHANGED <<lights, driving>>

\* Mutants: a person is noticed but the `continue` is missing; the counter is
\* not spent on a person.
CheckPerson_NoContinue ==
    /\ Step(det, "person", "aim")
    /\ conf' = 0
    /\ UNCHANGED <<reset, frame, lights, driving>>
CheckPerson_KeepsCount ==
    /\ det = "person"
    /\ \/ SeesPerson(frame) /\ det' = "loop" /\ frame' = NoFrame /\ UNCHANGED conf
       \/ ~SeesPerson(frame) /\ det' = "aim" /\ UNCHANGED frame /\ conf' = 0
    /\ UNCHANGED <<reset, lights, driving>>

\* The counter starts again whichever way the check goes.  After a person the
\* `continue` skips the tail of the loop, and the status LED stays on.
CheckPerson ==
    /\ det = "person"
    /\ \/ SeesPerson(frame) /\ det' = "loop" /\ frame' = NoFrame
       \/ ~SeesPerson(frame) /\ det' = "aim" /\ UNCHANGED frame
    /\ conf' = 0
    /\ UNCHANGED <<reset, lights, driving>>

\* pointAndFire: nothing happens unless both angles are within the limits.
Aim ==
    /\ det = "aim"
    /\ \/ Reachable(frame.box) /\ RotateBegin(det, "aim", "sweep") /\ UNCHANGED frame
       \/ ~Reachable(frame.box) /\ det' = "tail" /\ frame' = NoFrame /\ UNCHANGED driving
    /\ UNCHANGED <<conf, reset, lights>>

AimDone ==
    /\ RotateEnd(det, "sweep", "aux")
    /\ UNCHANGED <<local, lights>>

\* triggerAuxLaser, two seconds.
TriggerAux ==
    /\ \/ Step(det, "aux", "auxBurst") /\ auxLaser' = TRUE
       \/ Step(det, "auxBurst", "main") /\ auxLaser' = FALSE
    /\ UNCHANGED <<local, mainLaser, statusLed, driving>>

\* triggerMainLaser, two seconds.
FireOn ==
    /\ Step(det, "main", "burst")
    /\ mainLaser' = TRUE
    /\ UNCHANGED <<local, auxLaser, statusLed, driving>>

\* Mutant: the burst ends with the other LED.
FireOff_WrongLed ==
    /\ Step(det, "burst", "tail")
    /\ auxLaser' = FALSE
    /\ frame' = NoFrame
    /\ UNCHANGED <<conf, reset, mainLaser, statusLed, driving>>

FireOff ==
    /\ Step(det, "burst", "tail")
    /\ mainLaser' = FALSE
    /\ frame' = NoFrame
    /\ UNCHANGED <<conf, reset, auxLaser, statusLed, driving>>

\* No window is open, so waitKey reports no key and the loop never breaks.
Tail ==
    /\ Step(det, "tail", "loop")
    /\ statusLed' = FALSE
    /\ UNCHANGED <<local, mainLaser, auxLaser, driving>>

Detect ==
    \/ StartCamera \/ Park \/ Wake \/ NextFrame \/ Capture \/ CheckPerson
    \/ Aim \/ AimDone \/ TriggerAux \/ FireOn \/ FireOff \/ Tail
    \/ GracefulExit(det, "dead") /\ UNCHANGED local

DetectorStep ==
    /\ Running /\ Detect
    /\ UNCHANGED <<ctl, web, sig, enabled, manual, exits, faults, signals>>

----------------------------------------------------------------------------
(* ctl: turretControlfunc *)

\* Mutant: manual control does not look at the flag.
Tick_Unchecked == Step(ctl, "tick", "h") /\ UNCHANGED <<driving, manual>>

\* The one look at is_turret_enabled in a tick.
Tick ==
    /\ \/ enabled /\ Step(ctl, "tick", "clear")
       \/ ~enabled /\ Step(ctl, "tick", "h")
    /\ UNCHANGED <<driving, manual>>

\* Enabled: drop the steps, sleep 5 s.  The sleep alone may or may not be
\* "more than five seconds" once both ends are rounded down.
ClearSteps ==
    /\ Step(ctl, "clear", "tick")
    /\ hstep' = 0
    /\ vstep' = 0
    /\ idle' \in {QuietTicks - 1, QuietTicks}
    /\ UNCHANGED driving

\* rotateGraduallyByPulse writes nothing when it refuses the angle, and leaves
\* the driver on (exit_PCA9685 is commented out) when it accepts it.
MoveOrRefuse(from, moving, refused) ==
    \/ RotateBegin(ctl, from, moving) /\ UNCHANGED idle
    \/ Step(ctl, from, refused) /\ idle' = 0 /\ UNCHANGED driving

\* Mutant: a step of zero is a step as well.
StepHorizontal_NoTest ==
    /\ vstep' = 0 /\ MoveOrRefuse("h", "hmove", "v")
    /\ UNCHANGED hstep

StepHorizontal ==
    /\ \/ hstep # 0 /\ vstep' = 0 /\ MoveOrRefuse("h", "hmove", "v")
       \/ hstep = 0 /\ Step(ctl, "h", "v") /\ UNCHANGED <<vstep, idle, driving>>
    /\ UNCHANGED hstep

StepVertical ==
    /\ \/ vstep # 0 /\ hstep' = 0 /\ MoveOrRefuse("v", "vmove", "watch")
       \/ vstep = 0 /\ Step(ctl, "v", "watch") /\ UNCHANGED <<hstep, idle, driving>>
    /\ UNCHANGED vstep

\* The end of a movement sets `start` again.
StepDone ==
    /\ Step(ctl, "hmove", "v") \/ Step(ctl, "vmove", "watch")
    /\ idle' = 0
    /\ UNCHANGED <<driving, hstep, vstep>>

\* The watchdog, then the Timer for the next tick.
Watchdog ==
    /\ Step(ctl, "watch", "tick")
    /\ IF idle = QuietTicks
       THEN hstep' = 0 /\ vstep' = 0 /\ idle' = 0
       ELSE UNCHANGED <<hstep, vstep>> /\ idle' = idle + 1
    /\ UNCHANGED driving

Control == Tick \/ ClearSteps \/ StepHorizontal \/ StepVertical \/ StepDone \/ Watchdog

ControlStep ==
    /\ Running /\ Control
    /\ UNCHANGED <<det, web, sig, enabled, local, lights, exits, faults, signals>>

----------------------------------------------------------------------------
(* web: the main thread *)

\* setTurretState: the flag, then a rotation to the base position.
SetTurretState(is_enabled) ==
    /\ RotateBegin(web, "serve", "set")
    /\ enabled' = is_enabled
    /\ UNCHANGED <<auxLaser, hstep, vstep>>

SetAuxLaser(on) ==
    /\ Step(web, "serve", "serve")
    /\ auxLaser' = on
    /\ UNCHANGED <<enabled, driving, hstep, vstep>>

\* "up" and "down", "left" and "right".
Hold(h, v) ==
    /\ Step(web, "serve", "serve")
    /\ hstep' = h
    /\ vstep' = v
    /\ UNCHANGED <<enabled, auxLaser, driving>>

\* "stop" assigns the two globals one after the other.
StopH ==
    /\ Step(web, "serve", "stop")
    /\ hstep' = 0
    /\ UNCHANGED <<enabled, auxLaser, driving, vstep>>

Request(r) ==
    \/ r = "enable_turret"     /\ SetTurretState(TRUE)
    \/ r = "disable_turret"    /\ SetTurretState(FALSE)
    \/ r = "enable_aux_laser"  /\ SetAuxLaser(TRUE)
    \/ r = "disable_aux_laser" /\ SetAuxLaser(FALSE)
    \/ r = "stop"  /\ StopH
    \/ r = "up"    /\ Hold(hstep, 1)
    \/ r = "down"  /\ Hold(hstep, -1)
    \/ r = "left"  /\ Hold(1, vstep)
    \/ r = "right" /\ Hold(-1, vstep)

TakeRequest ==
    /\ Running /\ ServerFree
    /\ \E r \in Requests : Request(r)
    /\ UNCHANGED <<det, ctl, sig, local, mainLaser, statusLed, idle, exits, faults, signals>>

Serve ==
    /\ Step(web, "start", "serve")
    /\ UNCHANGED <<lights, driving, vstep, exits>>

SetTurretStateDone ==
    /\ RotateEnd(web, "set", "serve")
    /\ UNCHANGED <<lights, vstep, exits>>

StopV ==
    /\ Step(web, "stop", "serve")
    /\ vstep' = 0
    /\ UNCHANGED <<lights, driving, exits>>

\* At the end of the process gpiozero releases the pins and the LEDs go out.
ReleasePins == mainLaser' = FALSE /\ auxLaser' = FALSE /\ statusLed' = FALSE

\* Mutant: the exits are not counted.
NextExit_NoCount(main) ==
    /\ \/ exits > 1 /\ web' = "x_rotate" /\ mainLaser' = main /\ UNCHANGED <<auxLaser, statusLed>>
       \/ exits = 1 /\ web' = "gone" /\ ReleasePins
    /\ UNCHANGED exits

\* One gracefulExit of the main thread is over, finished or failed: that of
\* "except:" is followed by exit() and that of atexit.
NextExit(main) ==
    /\ exits' = exits - 1
    /\ \/ exits > 1 /\ web' = "x_rotate" /\ mainLaser' = main /\ UNCHANGED <<auxLaser, statusLed>>
       \/ exits = 1 /\ web' = "gone" /\ ReleasePins

EndProgram ==
    /\ \/ (ExitRotate(web) \/ ExitLights(web)) /\ UNCHANGED exits
       \/ web = "x_main" /\ NextExit(FALSE) /\ UNCHANGED driving
    /\ UNCHANGED vstep

ServerStep ==
    /\ Running /\ ServerFree
    /\ Serve \/ SetTurretStateDone \/ StopV \/ EndProgram
    /\ UNCHANGED <<det, ctl, sig, enabled, local, hstep, idle, faults, signals>>

----------------------------------------------------------------------------
(* sig: the handler of SIGTERM and SIGINT *)

\* A signal interrupts the main thread wherever it stands.
Signal ==
    /\ Running /\ signals < MaxSignals
    /\ Step(sig, "off", "x_rotate")
    /\ signals' = signals + 1
    /\ UNCHANGED <<det, ctl, web, enabled, local, lights, driving, manual, exits, faults>>

HandlerStep ==
    /\ Running /\ GracefulExit(sig, "off")
    /\ UNCHANGED <<det, ctl, web, enabled, local, manual, exits, faults, signals>>

----------------------------------------------------------------------------
(* Exceptions: an I2C write (OSError), the camera, an inference, the file. *)

\* The part of gracefulExit that reaches the I2C bus; the LEDs come after it.
ExitCanRaise == {"x_rotate", "x_rotating", "x_park"}

\* The camera is opened outside the try; inside it, `finally` cleans up, unless
\* the clean-up raises too.
DetectorRaises ==
    /\ \/ det \in {"capture", "person", "sweep"} /\ det' = "x_rotate"
       \/ det \in {"new"} \cup ExitCanRaise /\ det' = "dead"
    /\ frame' = NoFrame
    /\ UNCHANGED <<ctl, web, sig, lights, exits>>

\* Nothing catches it: the Timer of the next tick is never created.
ControlRaises ==
    /\ ctl \in {"hmove", "vmove"} /\ ctl' = "dead"
    /\ UNCHANGED <<det, web, sig, frame, lights, exits>>

\* In a request Bottle answers 500 and serves on; outside one, the exception
\* reaches "except:"; in gracefulExit it ends that gracefulExit.
MainThreadRaises ==
    /\ \/ web \in {"start", "serve"} /\ web' = "x_rotate" /\ exits' = 2 /\ UNCHANGED lights
       \/ web \in {"set", "stop"} /\ web' = "serve" /\ UNCHANGED <<exits, lights>>
       \/ web \in ExitPlaces /\ NextExit(mainLaser)
    /\ UNCHANGED <<det, ctl, frame>>

ServerRaises ==
    /\ ServerFree /\ web \in {"start", "set"} \cup ExitCanRaise
    /\ MainThreadRaises
    /\ UNCHANGED sig

\* A handler that fails raises in the code it interrupted.
HandlerRaises ==
    /\ sig \in ExitCanRaise /\ sig' = "off"
    /\ MainThreadRaises

Fault ==
    /\ Running /\ faults < MaxFaults
    /\ DetectorRaises \/ ControlRaises \/ ServerRaises \/ HandlerRaises
    /\ faults' = faults + 1
    /\ UNCHANGED <<enabled, conf, reset, driving, manual, signals>>

----------------------------------------------------------------------------

Init ==
    /\ det = "new" /\ ctl = "tick" /\ web = "start" /\ sig = "off"
    /\ enabled = FALSE
    /\ conf = 0 /\ reset = 0 /\ frame = NoFrame
    /\ mainLaser = FALSE /\ auxLaser = FALSE /\ statusLed = FALSE
    /\ driving = TRUE
    /\ hstep = 0 /\ vstep = 0 /\ idle = 0
    /\ exits = 0 /\ faults = 0 /\ signals = 0

Next ==
    \/ DetectorStep \/ ControlStep \/ ServerStep \/ HandlerStep
    \/ TakeRequest \/ Signal \/ Fault

Spec == Init /\ [][Next]_vars

\* The interpreter runs every thread that can run; nothing obliges a client to
\* send a request, a signal to arrive or a device to fail.
Fairness ==
    /\ WF_vars(DetectorStep)
    /\ WF_vars(ControlStep)
    /\ WF_vars(ServerStep)
    /\ WF_vars(HandlerStep)

FairSpec == Spec /\ Fairness

----------------------------------------------------------------------------
(* Safety *)

DetectorPlaces ==
    {"new", "loop", "nap", "capture", "person", "aim", "sweep", "aux", "auxBurst",
     "main", "burst", "tail", "dead"} \cup ExitPlaces
ControlPlaces == {"tick", "clear", "h", "hmove", "v", "vmove", "watch", "dead"}
ServerPlaces  == {"start", "serve", "set", "stop", "gone"} \cup ExitPlaces
HandlerPlaces == {"off"} \cup ExitPlaces

\* From the first movement toward a target to the end of the shot.
Firing == {"sweep", "aux", "auxBurst", "main", "burst"}

Placed ==
    /\ det \in DetectorPlaces /\ ctl \in ControlPlaces
    /\ web \in ServerPlaces /\ sig \in HandlerPlaces
    /\ exits \in 0 .. 2 /\ (web \in ExitPlaces => exits > 0)

Switched ==
    /\ enabled \in BOOLEAN /\ driving \in BOOLEAN
    /\ mainLaser \in BOOLEAN /\ auxLaser \in BOOLEAN /\ statusLed \in BOOLEAN

Counted ==
    /\ conf \in 0 .. ConfThreshold /\ reset \in 0 .. ResetThreshold
    /\ frame \in Frames \cup {NoFrame}
    /\ hstep \in {-1, 0, 1} /\ vstep \in {-1, 0, 1}
    /\ idle \in 0 .. QuietTicks
    /\ faults \in 0 .. MaxFaults /\ signals \in 0 .. MaxSignals

\* Where each thread may stand and what each variable may hold.
TypeOK == Placed /\ Switched /\ Counted

\* The main laser is on only while det is inside triggerMainLaser, whatever
\* requests, signals and exceptions do to the other threads: none of the ways
\* out of the loop leaves it burning.
LaserOnlyInBurst == mainLaser => det = "burst"

\* Whatever is aimed and fired at is the target of one frame that passed every
\* test: a pigeon and neither a crow nor a magpie, in that same frame no person
\* scored above the threshold of the program (0.9: for less see NoPersonInShot),
\* the target inside the frame and where the servos reach; and the detections
\* that led to the shot are spent, so that the next shot needs new ones.
FiringFrameChecked ==
    det \in Firing =>
        /\ frame \in Frames
        /\ frame.birds = {"pigeon"}
        /\ frame.person <= PersonThreshold
        /\ \A i \in 1 .. 4 : frame.box[i] \in -1 .. CameraWidth + 10
        /\ AimX(frame.box) \in XRange /\ AimY(frame.box) \in YRange
        /\ conf = 0

\* The two counters together: a running detector reaches the threshold nowhere
\* but before the person check, and so the reset counter, which is only reset
\* while the confidence counter is low, never runs past its own threshold.
CountersInStep ==
    /\ conf = ConfThreshold => det \in {"person", "dead"} \cup ExitPlaces
    /\ reset <= ResetThreshold

----------------------------------------------------------------------------
(* Liveness, under FairSpec *)

\* A turret that stays disabled stops firing: the iteration in progress ends
\* and the detector parks, unless it died.
DisableQuiesces ==
    <>[]~enabled => <>[](~mainLaser /\ det \notin {"person", "aim"} \cup Firing)

\* A turret that stays enabled keeps looking, unless the detector or the
\* process ended: no path through the loop gets stuck.
EnabledKeepsLooking ==
    <>[]enabled => []<>(det \in {"capture", "dead"} \/ ~Running)

\* A turret that stays enabled ends every manual movement.
EnableLocksManual ==
    <>[]enabled => (<>[](ctl \notin {"hmove", "vmove"}) \/ <>~Running)

\* Once both steps are zero and stay so (the "stop" request was the last), the
\* servos stop.
StopReachesServo ==
    <>[](hstep = 0 /\ vstep = 0) => (<>[](ctl \notin {"hmove", "vmove"}) \/ <>~Running)

\* Every request is answered, and a main thread that began to end ends: neither
\* a signal handler nor a failing device keeps it.
MainThreadReturns == web # "serve" ~> web \in {"serve", "gone"}

----------------------------------------------------------------------------
(* What a comment says of the program *)

\* TurretHandler.py:290, "should not be higher than 0.3 (30% confidence)  for
\* safety!", of the threshold of the person check: nothing is aimed or fired at
\* in a frame that shows a person with more than that confidence.
NoPersonInShot == det \in Firing => frame.person <= 30
=============================================================================
