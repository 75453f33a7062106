------------------------- MODULE TurretSystemProofs -------------------------
(***************************************************************************)
(* What TurretSystem guarantees for every set of frames, every threshold,  *)
(* every set of requests and any number of faults and signals.             *)
(***************************************************************************)
EXTENDS TurretSystem, TLAPS

\* What the frame det holds has passed so far, place by place.
Examined ==
    /\ det \in {"person", "aim"} \cup Firing => frame \in Frames /\ IsCandidate(frame)
    /\ det \in {"aim"} \cup Firing => ~SeesPerson(frame) /\ conf = 0
    /\ det \in Firing => Reachable(frame.box)

\* The inductive invariant.
IInv == TypeOK /\ Examined /\ LaserOnlyInBurst /\ CountersInStep

----------------------------------------------------------------------------
(* The initial state *)

LEMMA InitEstablishes == Init => IInv
<1> SUFFICES ASSUME Init PROVE IInv
  OBVIOUS
<1>1. Placed
  BY DEF Init, Placed, DetectorPlaces, ControlPlaces, ServerPlaces, HandlerPlaces, ExitPlaces
<1>2. Switched
  BY DEF Init, Switched
<1>3. Counted
  BY BoundsAssumption DEF Init, Counted
<1>4. Examined
  BY DEF Init, Examined, Firing
<1>5. LaserOnlyInBurst /\ CountersInStep
  BY BoundsAssumption DEF Init, LaserOnlyInBurst, CountersInStep
<1> QED
  BY <1>1, <1>2, <1>3, <1>4, <1>5 DEF IInv, TypeOK

----------------------------------------------------------------------------
(* Types: one step for each disjunct of Next *)

LEMMA PlacedPreserved == ASSUME Placed, Next PROVE Placed'
<1> USE DEF Placed, Step, ExitPlaces
<1>1. CASE DetectorStep
  BY <1>1 DEF DetectorStep, Detect, StartCamera, Park, Wake, NextFrame, Capture, SkipFrame,
     CountFrame, CheckPerson, Aim, AimDone, TriggerAux, FireOn, FireOff, Tail,
     GracefulExit, ExitRotate, ExitLights, ExitDone, RotateBegin, RotateEnd, DetectorPlaces
<1>2. CASE ControlStep
  BY <1>2 DEF ControlStep, Control, Tick, ClearSteps, StepHorizontal, StepVertical,
     StepDone, Watchdog, MoveOrRefuse, RotateBegin, ControlPlaces
<1>3. CASE ServerStep
  BY <1>3 DEF ServerStep, Serve, SetTurretStateDone, StopV, EndProgram, NextExit,
     ExitRotate, ExitLights, RotateBegin, RotateEnd, ServerPlaces
<1>4. CASE HandlerStep
  BY <1>4 DEF HandlerStep, GracefulExit, ExitRotate, ExitLights, ExitDone, RotateBegin,
     RotateEnd, HandlerPlaces
<1>5. CASE TakeRequest
  BY <1>5 DEF TakeRequest, Request, SetTurretState, SetAuxLaser, Hold, StopH, RotateBegin,
     ServerPlaces
<1>6. CASE Signal
  BY <1>6 DEF Signal, HandlerPlaces
<1>7. CASE Fault
  BY <1>7 DEF Fault, DetectorRaises, ControlRaises, ServerRaises, HandlerRaises,
     MainThreadRaises, NextExit, ExitCanRaise, DetectorPlaces, ControlPlaces, ServerPlaces,
     HandlerPlaces
<1> QED
  BY <1>1, <1>2, <1>3, <1>4, <1>5, <1>6, <1>7 DEF Next

LEMMA SwitchedPreserved == ASSUME Switched, Next PROVE Switched'
<1> USE DEF Switched, lights
<1>1. CASE DetectorStep
  BY <1>1 DEF DetectorStep, Detect, StartCamera, Park, Wake, NextFrame, Capture,
     CheckPerson, Aim, AimDone, TriggerAux, FireOn, FireOff, Tail,
     GracefulExit, ExitRotate, ExitLights, ExitDone, RotateBegin, RotateEnd
<1>2. CASE ControlStep
  BY <1>2 DEF ControlStep, Control, Tick, ClearSteps, StepHorizontal, StepVertical,
     StepDone, Watchdog, MoveOrRefuse, RotateBegin
<1>3. CASE ServerStep
  BY <1>3 DEF ServerStep, Serve, SetTurretStateDone, StopV, EndProgram, NextExit,
     ReleasePins, ExitRotate, ExitLights, RotateBegin, RotateEnd
<1>4. CASE HandlerStep
  BY <1>4 DEF HandlerStep, GracefulExit, ExitRotate, ExitLights, ExitDone, RotateBegin,
     RotateEnd
<1>5. CASE TakeRequest
  BY <1>5 DEF TakeRequest, Request, SetTurretState, SetAuxLaser, Hold, StopH, RotateBegin
<1>6. CASE Signal
  BY <1>6 DEF Signal
<1>7. CASE Fault
  BY <1>7 DEF Fault, DetectorRaises, ControlRaises, ServerRaises, HandlerRaises,
     MainThreadRaises, NextExit, ReleasePins
<1> QED
  BY <1>1, <1>2, <1>3, <1>4, <1>5, <1>6, <1>7 DEF Next

\* CountersInStep bounds the confidence counter where a frame is counted.
LEMMA CountedPreserved == ASSUME Placed, Counted, CountersInStep, Next PROVE Counted'
<1> USE BoundsAssumption DEF Counted, Step, local, manual
<1>1. CASE DetectorStep
  BY <1>1 DEF DetectorStep, Detect, StartCamera, Park, Wake, NextFrame, Capture, SkipFrame,
     CountFrame, CheckPerson, Aim, AimDone, TriggerAux, FireOn, FireOff, Tail,
     CountersInStep, ExitPlaces
<1>2. CASE ControlStep
  BY <1>2 DEF ControlStep, Control, Tick, ClearSteps, StepHorizontal, StepVertical,
     StepDone, Watchdog, MoveOrRefuse
<1>3. CASE ServerStep
  BY <1>3 DEF ServerStep, Serve, SetTurretStateDone, StopV, EndProgram
<1>4. CASE HandlerStep
  BY <1>4 DEF HandlerStep
<1>5. CASE TakeRequest
  BY <1>5 DEF TakeRequest, Request, SetTurretState, SetAuxLaser, Hold, StopH
<1>6. CASE Signal
  BY <1>6 DEF Signal
<1>7. CASE Fault
  BY <1>7 DEF Fault, DetectorRaises, ControlRaises, ServerRaises, HandlerRaises,
     MainThreadRaises
<1> QED
  BY <1>1, <1>2, <1>3, <1>4, <1>5, <1>6, <1>7 DEF Next

----------------------------------------------------------------------------
(* The detector's own variables *)

\* Only det moves det and changes its counters and its frame; an exception may
\* send it into gracefulExit or end it, and then it holds no frame.
LEMMA OthersLeaveDetector ==
    ASSUME Next, ~DetectorStep
    PROVE  /\ UNCHANGED <<conf, reset>>
           /\ \/ UNCHANGED <<det, frame>>
              \/ det' \in {"dead", "x_rotate"} /\ frame' = NoFrame /\ det # "burst"
           /\ mainLaser' => mainLaser
<1>1. CASE ControlStep
  BY <1>1 DEF ControlStep, local, lights
<1>2. CASE ServerStep
  BY <1>2 DEF ServerStep, Serve, SetTurretStateDone, StopV, EndProgram, NextExit,
     ReleasePins, ExitRotate, ExitLights, local, lights
<1>3. CASE HandlerStep
  BY <1>3 DEF HandlerStep, GracefulExit, ExitRotate, ExitLights, ExitDone, local, lights
<1>4. CASE TakeRequest
  BY <1>4 DEF TakeRequest, local
<1>5. CASE Signal
  BY <1>5 DEF Signal, local, lights
<1>6. CASE Fault
  BY <1>6 DEF Fault, DetectorRaises, ControlRaises, ServerRaises, HandlerRaises,
     MainThreadRaises, NextExit, ReleasePins, ExitCanRaise, lights
<1> QED
  BY <1>1, <1>2, <1>3, <1>4, <1>5, <1>6 DEF Next

\* A frame is only ever carried from one test to the next.
LEMMA ExaminedPreserved ==
    ASSUME Counted, Examined, Next
    PROVE  Examined'
<1> USE DEF Examined, Firing, Step, local
<1>1. CASE DetectorStep
  <2>1. CASE StartCamera \/ Park \/ Wake \/ NextFrame
    BY <2>1 DEF StartCamera, Park, Wake, NextFrame
  <2>2. CASE Capture
    BY <2>2 DEF Capture, SkipFrame, CountFrame
  <2>3. CASE CheckPerson
    BY <2>3 DEF CheckPerson
  <2>4. CASE Aim
    BY <2>4 DEF Aim, RotateBegin
  <2>5. CASE AimDone \/ TriggerAux \/ FireOn
    BY <2>5 DEF AimDone, TriggerAux, FireOn, RotateEnd
  <2>6. CASE FireOff \/ Tail
    BY <2>6 DEF FireOff, Tail
  <2>7. CASE GracefulExit(det, "dead") /\ UNCHANGED local
    BY <2>7 DEF GracefulExit, ExitRotate, ExitLights, ExitDone, RotateBegin, RotateEnd
  <2> QED
    BY <1>1, <2>1, <2>2, <2>3, <2>4, <2>5, <2>6, <2>7 DEF DetectorStep, Detect
<1>2. CASE ~DetectorStep
  BY <1>2, OthersLeaveDetector
<1> QED
  BY <1>1, <1>2

LEMMA LaserPreserved ==
    ASSUME LaserOnlyInBurst, Next
    PROVE  LaserOnlyInBurst'
<1> USE DEF LaserOnlyInBurst
<1>1. CASE DetectorStep
  BY <1>1 DEF DetectorStep, Detect, StartCamera, Park, Wake, NextFrame, Capture, SkipFrame,
     CountFrame, CheckPerson, Aim, AimDone, TriggerAux, FireOn, FireOff, Tail, Step,
     GracefulExit, ExitRotate, ExitLights, ExitDone, RotateBegin, RotateEnd, lights
<1>2. CASE ~DetectorStep
  BY <1>2, OthersLeaveDetector
<1> QED
  BY <1>1, <1>2

LEMMA CountersPreserved ==
    ASSUME Counted, CountersInStep, Next
    PROVE  CountersInStep'
<1> USE BoundsAssumption DEF Counted, CountersInStep, ExitPlaces, Step, local
<1>1. CASE DetectorStep
  <2>1. CASE StartCamera \/ Park \/ Wake
    BY <2>1 DEF StartCamera, Park, Wake
  <2>2. CASE NextFrame
    BY <2>2 DEF NextFrame
  <2>3. CASE Capture
    BY <2>3 DEF Capture, SkipFrame, CountFrame
  <2>4. CASE CheckPerson
    BY <2>4 DEF CheckPerson
  <2>5. CASE Aim \/ AimDone \/ TriggerAux
    BY <2>5 DEF Aim, AimDone, TriggerAux, RotateBegin, RotateEnd
  <2>6. CASE FireOn \/ FireOff \/ Tail
    BY <2>6 DEF FireOn, FireOff, Tail
  <2>7. CASE GracefulExit(det, "dead") /\ UNCHANGED local
    BY <2>7 DEF GracefulExit, ExitRotate, ExitLights, ExitDone, RotateBegin, RotateEnd
  <2> QED
    BY <1>1, <2>1, <2>2, <2>3, <2>4, <2>5, <2>6, <2>7 DEF DetectorStep, Detect
<1>2. CASE ~DetectorStep
  BY <1>2, OthersLeaveDetector
<1> QED
  BY <1>1, <1>2

----------------------------------------------------------------------------

LEMMA Inductive == Spec => []IInv
<1>1. IInv /\ Next => IInv'
  BY PlacedPreserved, SwitchedPreserved, CountedPreserved, ExaminedPreserved,
     LaserPreserved, CountersPreserved DEF IInv, TypeOK
<1>2. IInv /\ UNCHANGED vars => IInv'
  BY DEF vars, threads, local, lights, manual, IInv, TypeOK, Placed, Switched, Counted,
     Examined, LaserOnlyInBurst, CountersInStep
<1> QED
  BY InitEstablishes, <1>1, <1>2, PTL DEF Spec

\* Every thread stands at one of its places and every variable holds a value of
\* its type; in particular both detection counters stay within their thresholds
\* however long the program runs.
THEOREM TypeCorrect == Spec => []TypeOK
BY Inductive, PTL DEF IInv

\* The main laser burns only inside triggerMainLaser, whatever the server, the
\* control timer, signals and exceptions do.
THEOREM LaserConfined == Spec => []LaserOnlyInBurst
BY Inductive, PTL DEF IInv

\* The counters reach their thresholds only where the code tests them.
THEOREM CountersConfined == Spec => []CountersInStep
BY Inductive, PTL DEF IInv

\* Two ordered numbers between the edges of the frame that InFrame allows.
LEMMA BetweenEdges ==
    ASSUME NEW a \in Int, NEW b \in Int, -1 <= a, a <= b, b <= 1162
    PROVE  a \in -1 .. 1162 /\ b \in -1 .. 1162
OBVIOUS

\* The corners of an ordered box that InFrame accepts.
LEMMA BoxInside ==
    ASSUME NEW box, \A i \in 1 .. 4 : box[i] \in Int,
           box[1] <= box[3], box[2] <= box[4], InFrame(box)
    PROVE  \A i \in 1 .. 4 : box[i] \in -1 .. CameraWidth + 10
<1>1. \A i \in 1 .. 4 : i = 1 \/ i = 2 \/ i = 3 \/ i = 4
  OBVIOUS
<1>2. PICK l \in Int, t \in Int, r \in Int, b \in Int :
            box[1] = l /\ box[2] = t /\ box[3] = r /\ box[4] = b
  OBVIOUS
<1>3. -1 <= l /\ r <= 1162 /\ -1 <= t /\ b <= 1162 /\ l <= r /\ t <= b
  BY <1>2 DEF InFrame, CameraWidth, CameraHeight
<1>4. l \in -1 .. 1162 /\ r \in -1 .. 1162
  BY <1>3, BetweenEdges
<1>5. t \in -1 .. 1162 /\ b \in -1 .. 1162
  BY <1>3, BetweenEdges
<1>6. ASSUME NEW i \in 1 .. 4 PROVE box[i] \in -1 .. 1162
  <2>1. CASE i = 1
    BY <1>2, <1>4, <2>1
  <2>2. CASE i = 2
    BY <1>2, <1>5, <2>2
  <2>3. CASE i = 3
    BY <1>2, <1>4, <2>3
  <2>4. CASE i = 4
    BY <1>2, <1>5, <2>4
  <2> QED
    BY <1>1, <2>1, <2>2, <2>3, <2>4
<1> QED
  BY <1>6 DEF CameraWidth

\* What a frame must show to get as far as the servos.
LEMMA ExaminedFrame ==
    ASSUME NEW f \in Frames, IsCandidate(f), ~SeesPerson(f), Reachable(f.box)
    PROVE  /\ f.birds = {"pigeon"}
           /\ f.person <= PersonThreshold
           /\ \A i \in 1 .. 4 : f.box[i] \in -1 .. CameraWidth + 10
           /\ AimX(f.box) \in XRange /\ AimY(f.box) \in YRange
<1>1. f.birds = {"pigeon"}
  BY FramesAssumption DEF IsCandidate, HasTarget, Classes
<1>2. f.person <= PersonThreshold
  BY FramesAssumption DEF SeesPerson, PersonThreshold
<1>3. \A i \in 1 .. 4 : f.box[i] \in -1 .. CameraWidth + 10
  BY FramesAssumption, BoxInside DEF IsCandidate
<1> QED
  BY <1>1, <1>2, <1>3 DEF Reachable

\* Nothing is aimed or fired at but a pigeon of one frame that passed every
\* test, with its detections spent: whatever the frames are, and whatever the
\* other threads do meanwhile.
THEOREM FiringChecked == Spec => []FiringFrameChecked
<1>1. IInv => FiringFrameChecked
  <2> SUFFICES ASSUME IInv, det \in Firing PROVE FiringFrameChecked
    BY DEF FiringFrameChecked
  <2>1. /\ frame \in Frames /\ IsCandidate(frame) /\ ~SeesPerson(frame)
        /\ Reachable(frame.box) /\ conf = 0
    BY DEF IInv, Examined
  <2> QED
    BY <2>1, ExaminedFrame DEF FiringFrameChecked
<1> QED
  BY Inductive, <1>1, PTL
=============================================================================
