------------------------- MODULE ServoMotionProofs -------------------------
(***************************************************************************)
(* What the integer arithmetic of the turret guarantees for every angle,   *)
(* every pulse and every box, and what ServoMotion guarantees for every    *)
(* set of movers, targets, manual steps and saved angles and any number of *)
(* rotations: pulses, recorded angles and the text of the file.            *)
(***************************************************************************)
EXTENDS ServoMotion, SequenceTheorems, NumberLemmas

----------------------------------------------------------------------------
(* The arithmetic *)

\* Every angle that may be recorded turns into a pulse, and back into the same
\* angle or the one below: recording an angle read back from a pulse loses at
\* most one degree.
THEOREM RoundTrip == \A a \in Nat : AngleOf(PulseOf(a)) \in {a - 1, a}
<1> SUFFICES ASSUME NEW a \in Nat PROVE AngleOf(PulseOf(a)) \in {a - 1, a}
    OBVIOUS
<1> DEFINE q == (100 * a) \div 9
<1>1. q \in Nat /\ 9 * q <= 100 * a /\ 100 * a < 9 * q + 9
    OBVIOUS
<1>2. PulseOf(a) - 501 = q
    BY <1>1 DEF PulseOf
<1>3. AngleOf(PulseOf(a)) = (9 * q) \div 100
    BY <1>1, <1>2 DEF AngleOf, TruncDiv
<1> QED
    BY <1>1, <1>3

\* A manual step is not symmetric (turretControlfunc adds 15 us either way): up
\* the scale it records the next degree, down the scale it records two degrees
\* less, because the angle is rounded down on the way to the pulse and back.
THEOREM StepAsymmetry ==
    \A a \in Nat : /\ AngleOf(PulseOf(a) + StepLength) = a + 1
                   /\ a > 1 => AngleOf(PulseOf(a) - StepLength) = a - 2
<1> SUFFICES ASSUME NEW a \in Nat
             PROVE  /\ AngleOf(PulseOf(a) + StepLength) = a + 1
                    /\ a > 1 => AngleOf(PulseOf(a) - StepLength) = a - 2
    OBVIOUS
<1> DEFINE q == (100 * a) \div 9
<1>1. q \in Nat /\ 9 * q <= 100 * a /\ 100 * a < 9 * q + 9
    OBVIOUS
<1>2. PulseOf(a) = q + 501
    BY DEF PulseOf
<1>3. AngleOf(PulseOf(a) + StepLength) = (9 * (q + 15)) \div 100
    BY <1>1, <1>2 DEF AngleOf, TruncDiv, StepLength
<1>4. (9 * (q + 15)) \div 100 = a + 1
    BY <1>1
<1>5. ASSUME a > 1 PROVE AngleOf(PulseOf(a) - StepLength) = a - 2
    <2>1. q >= 15
        BY <1>1, <1>5
    <2>2. AngleOf(PulseOf(a) - StepLength) = (9 * (q - 15)) \div 100
        BY <1>1, <1>2, <2>1 DEF AngleOf, TruncDiv, StepLength
    <2> QED
        BY <1>1, <2>1, <2>2
<1> QED
    BY <1>3, <1>4, <1>5

\* A manual step that rotateGraduallyByPulse accepts stays in the limits of its
\* axis, in degrees and in microseconds, whatever angle was recorded before.
THEOREM ManualStepInLimits ==
    \A a \in Int, step \in {StepLength, -StepLength} :
        /\ Accepts(Horizontal, AngleOf(StepH(a, step))) =>
              /\ AngleOf(StepH(a, step)) \in XRange
              /\ StepH(a, step) \in PulseOf(StartX) .. PulseOf(LimitX)
        /\ Accepts(Vertical, AngleOf(StepV(a, step))) =>
              /\ AngleOf(StepV(a, step)) \in YRange
              /\ StepV(a, step) \in PulseOf(StartY) .. PulseOf(LimitY)
<1> SUFFICES ASSUME NEW a \in Int, NEW step \in {StepLength, -StepLength}
             PROVE  /\ Accepts(Horizontal, AngleOf(StepH(a, step))) =>
                          /\ AngleOf(StepH(a, step)) \in XRange
                          /\ StepH(a, step) \in PulseOf(StartX) .. PulseOf(LimitX)
                    /\ Accepts(Vertical, AngleOf(StepV(a, step))) =>
                          /\ AngleOf(StepV(a, step)) \in YRange
                          /\ StepV(a, step) \in PulseOf(StartY) .. PulseOf(LimitY)
    OBVIOUS
<1>1. StepH(a, step) \in 560 .. 1040 /\ StepV(a, step) \in 560 .. 780
    BY DEF StepH, StepV, Clamp, PulseOf, StepLength
<1>2. PulseOf(StartX) = 556 /\ PulseOf(LimitX) = 1023 /\ PulseOf(StartY) = 501
      /\ PulseOf(LimitY) = 778
    BY DEF PulseOf, StartX, LimitX, StartY, LimitY
<1>3. \A p \in 560 .. 1040 : AngleOf(p) = (9 * (p - 501)) \div 100
    BY DEF AngleOf, TruncDiv
<1>4. ASSUME NEW p \in 560 .. 1040
      PROVE  /\ Accepts(Horizontal, AngleOf(p)) => AngleOf(p) \in XRange /\ p \in 556 .. 1023
             /\ Accepts(Vertical, AngleOf(p)) => AngleOf(p) \in YRange /\ p \in 501 .. 778
    BY <1>3 DEF Accepts, Horizontal, Vertical, XRange, YRange, LimitX, StartX, LimitY, StartY
<1> QED
    BY <1>1, <1>2, <1>4

\* setRotationAngleGradually stops short: a sweep that writes anything ends
\* between 1 and 5 microseconds before the pulse it was asked for, and never
\* leaves the interval between the two pulses.
THEOREM SweepStopsShort ==
    \A from, to \in Int :
        /\ from < to => SweepLast(from, to) \in from .. to - 1
                        /\ to - SweepLast(from, to) <= SweepStep
        /\ from > to => SweepLast(from, to) \in to + 1 .. from
                        /\ SweepLast(from, to) - to <= SweepStep
    BY DEF SweepLast, SweepStep

\* Within the limits the off-count of a channel fits one byte, so the high byte
\* setPWM writes after the low byte never changes, and two threads that write the
\* same channel at once leave a count that one of them asked for.
THEOREM CountFitsByte ==
    \A p \in PulseOf(StartY) .. PulseOf(LimitX) : Ticks(p) \in 0 .. 255
    BY DEF PulseOf, Ticks, StartY, LimitX

LEMMA TruncDivMonotone ==
    ASSUME NEW d \in {2, 15, 25}, NEW m \in Int, NEW n \in Int, m <= n
    PROVE  /\ TruncDiv(m, d) \in Int /\ TruncDiv(n, d) \in Int
           /\ TruncDiv(m, d) <= TruncDiv(n, d)
<1>1. CASE d = 2
    BY <1>1 DEF TruncDiv
<1>2. CASE d = 15
    BY <1>2 DEF TruncDiv
<1>3. CASE d = 25
    BY <1>3 DEF TruncDiv
<1> QED BY <1>1, <1>2, <1>3

Boxes == [1 .. 4 -> Int]

\* pointAndFire translates the middle of a box into angles in one direction only:
\* a box further right is never pointed at further left. Of two boxes the lower
\* one may be pointed at higher, but by no more than two degrees: the part of the
\* image from 19 degrees on is compressed to start below 18 (at
\* TurretHandler.py:237, 18 + (19 - 25) // 3 is 16).
THEOREM AimFollowsTarget ==
    \A b, c \in Boxes :
        /\ CentreX(b) <= CentreX(c) => AimX(c) <= AimX(b)
        /\ CentreY(b) <= CentreY(c) => AimY(b) - 2 <= AimY(c)
<1> SUFFICES ASSUME NEW b \in Boxes, NEW c \in Boxes
             PROVE  /\ CentreX(b) <= CentreX(c) => AimX(c) <= AimX(b)
                    /\ CentreY(b) <= CentreY(c) => AimY(b) - 2 <= AimY(c)
    OBVIOUS
<1>1. \A a \in Boxes : CentreX(a) \in Int /\ CentreY(a) \in Int
    <2> SUFFICES ASSUME NEW a \in Boxes PROVE CentreX(a) \in Int /\ CentreY(a) \in Int
        OBVIOUS
    <2>1. a[1] + a[3] \in Int /\ a[2] + a[4] \in Int
        BY DEF Boxes
    <2> QED BY <2>1, TruncDivMonotone DEF CentreX, CentreY
<1>2. PICK m \in Int : m = CentreX(b) - CameraWidth \div 2
    BY <1>1 DEF CameraWidth
<1>3. PICK n \in Int : n = CentreX(c) - CameraWidth \div 2
    BY <1>1 DEF CameraWidth
<1>4. CentreX(b) <= CentreX(c) => AimX(c) <= AimX(b)
    <2> SUFFICES ASSUME CentreX(b) <= CentreX(c) PROVE AimX(c) <= AimX(b)
        OBVIOUS
    <2>1. m <= n
        BY <1>1, <1>2, <1>3 DEF CameraWidth
    <2>2. /\ TruncDiv(m, 25) \in Int /\ TruncDiv(n, 25) \in Int
          /\ TruncDiv(m, 25) <= TruncDiv(n, 25)
        BY <2>1, TruncDivMonotone
    <2> QED BY <1>2, <1>3, <2>2 DEF AimX, BaseX
<1>5. PICK p \in Int : p = CentreY(b) - CameraHeight \div 2
    BY <1>1 DEF CameraHeight
<1>6. PICK q \in Int : q = CentreY(c) - CameraHeight \div 2
    BY <1>1 DEF CameraHeight
<1>7. CentreY(b) <= CentreY(c) => AimY(b) - 2 <= AimY(c)
    <2> SUFFICES ASSUME CentreY(b) <= CentreY(c) PROVE AimY(b) - 2 <= AimY(c)
        OBVIOUS
    <2>1. p <= q
        BY <1>1, <1>5, <1>6 DEF CameraHeight
    <2>2. /\ TruncDiv(p, 15) \in Int /\ TruncDiv(q, 15) \in Int
          /\ TruncDiv(p, 15) <= TruncDiv(q, 15)
        BY <2>1, TruncDivMonotone
    <2>3. PICK x \in Int : x = TruncDiv(p, 15)
        BY <2>2
    <2>4. PICK y \in Int : y = TruncDiv(q, 15)
        BY <2>2
    <2>5. /\ AimY(b) = IF x + 28 > 18 THEN 18 + (x + 3) \div 3 ELSE x + 28
          /\ AimY(c) = IF y + 28 > 18 THEN 18 + (y + 3) \div 3 ELSE y + 28
        BY <1>5, <1>6, <2>3, <2>4 DEF AimY, BaseY, LimitY
    <2>6. x <= y
        BY <2>2, <2>3, <2>4
    <2> QED BY <2>5, <2>6
<1> QED BY <1>4, <1>7

----------------------------------------------------------------------------
(* The invariant of the limits *)

\* The angles the limits of both axes allow, and the pulses of such angles.
AllowedAngles ==
    {a \in [Channels -> Int] : a[Horizontal] \in XRange /\ a[Vertical] \in YRange}

AllowedPulses(c) ==
    IF c = Horizontal THEN PulseOf(StartX) .. PulseOf(LimitX)
                      ELSE PulseOf(StartY) .. PulseOf(LimitY)

\* A sweep runs between the pulses of two allowed angles and has not yet left the
\* pulse it starts from in the wrong direction.
SweepAllowed(j) ==
    /\ j.from \in AllowedAngles /\ j.to \in AllowedAngles /\ j.at \in Int
    /\ IF Upward(j) THEN j.at >= PulseOf(j.from[j.channel])
                    ELSE j.at <= PulseOf(j.from[j.channel])

\* A manual step in preparation is a pulse turretControlfunc has clamped; once
\* its angle is accepted the pulse is allowed.
StepAllowed(place, j) ==
    /\ place = "aim" => \/ j.channel = Horizontal /\ j.at \in 560 .. 1040
                        \/ j.channel = Vertical /\ j.at \in 560 .. 780
    /\ place = "move" => j.at \in AllowedPulses(j.channel)

JobTypes ==
    /\ DOMAIN pc = Movers /\ DOMAIN job = Movers
    /\ \A t \in Movers : /\ DOMAIN job[t] = {"to", "from", "channel", "at", "text"}
                         /\ job[t].channel \in Channels

LimitsInv ==
    /\ crashes \in Nat
    /\ JobTypes
    /\ angle \in AllowedAngles
    /\ pulse \in [Channels -> Int]
    /\ \A c \in Channels : pulse[c] \in AllowedPulses(c)
    /\ \A t \in Movers : pc[t] = "sweep" => SweepAllowed(job[t])
    /\ "ctl" \in Movers => StepAllowed(pc["ctl"], job["ctl"])

----------------------------------------------------------------------------
(* Allowed angles have allowed pulses *)

LEMMA LimitPulses ==
    /\ PulseOf(StartX) = 556 /\ PulseOf(LimitX) = 1023
    /\ PulseOf(StartY) = 501 /\ PulseOf(LimitY) = 778
  BY DEF PulseOf, StartX, LimitX, StartY, LimitY

LEMMA AngleHasPulse ==
    ASSUME NEW a \in AllowedAngles, NEW c \in Channels
    PROVE  PulseOf(a[c]) \in AllowedPulses(c) /\ PulseOf(a[c]) \in Int
<1>1. CASE c = Horizontal
  BY <1>1, LimitPulses DEF AllowedAngles, AllowedPulses, PulseOf, XRange, StartX, LimitX
<1>2. CASE c = Vertical
  BY <1>2, LimitPulses
     DEF AllowedAngles, AllowedPulses, PulseOf, YRange, StartY, LimitY, Horizontal, Vertical
<1> QED
  BY <1>1, <1>2 DEF Channels

LEMMA PairAllowed ==
    ASSUME NEW y \in YRange, NEW x \in XRange PROVE Pair(y, x) \in AllowedAngles
  BY DEF Pair, AllowedAngles, Channels, Horizontal, Vertical, XRange, YRange, StartX, LimitX,
         StartY, LimitY

LEMMA BaseAllowed == Base \in AllowedAngles
<1>1. BaseX \in XRange /\ BaseY \in YRange
  BY DEF BaseX, BaseY, XRange, YRange, StartX, LimitX, StartY, LimitY
<1> QED
  BY <1>1, PairAllowed DEF Base

\* What a sweep writes lies between its ends.
LEMMA SweepWritesAllowed ==
    ASSUME NEW j, j.channel \in Channels, SweepAllowed(j), More(j)
    PROVE  j.at \in AllowedPulses(j.channel) /\ j.at \in Int
<1> DEFINE from == PulseOf(j.from[j.channel])
           to == PulseOf(j.to[j.channel])
           c == j.channel
           at == j.at
<1>1. from \in AllowedPulses(c) /\ to \in AllowedPulses(c)
  <2>1. j.from \in AllowedAngles /\ j.to \in AllowedAngles
    BY DEF SweepAllowed
  <2> QED
    BY <2>1, AngleHasPulse
<1>2. \/ from <= at /\ at < to
      \/ to < at /\ at <= from
  BY DEF SweepAllowed, More
<1>3. at \in Int
  BY DEF SweepAllowed
<1>4. AllowedPulses(c) = 556 .. 1023 \/ AllowedPulses(c) = 501 .. 778
  BY LimitPulses DEF AllowedPulses
<1> HIDE DEF from, to, c, at
<1>5. at \in AllowedPulses(c)
  <2>1. CASE AllowedPulses(c) = 556 .. 1023
    <3>1. from \in 556 .. 1023 /\ to \in 556 .. 1023
      BY <1>1, <2>1
    <3>2. at \in 556 .. 1023
      BY <3>1, <1>2, <1>3
    <3> QED
      BY <3>2, <2>1
  <2>2. CASE AllowedPulses(c) = 501 .. 778
    <3>1. from \in 501 .. 778 /\ to \in 501 .. 778
      BY <1>1, <2>2
    <3>2. at \in 501 .. 778
      BY <3>1, <1>2, <1>3
    <3> QED
      BY <3>2, <2>2
  <2> QED
    BY <1>4, <2>1, <2>2
<1> QED
  BY <1>3, <1>5 DEF c, at

\* The next pulse of a sweep is further on its way.
LEMMA SweepGoesOn ==
    ASSUME NEW j, NEW k, j.channel \in Channels, SweepAllowed(j), More(j),
           k.from = j.from, k.to = j.to, k.channel = j.channel,
           k.at = IF Upward(j) THEN j.at + SweepStep ELSE j.at - SweepStep
    PROVE  SweepAllowed(k)
<1> DEFINE from == PulseOf(j.from[j.channel])
<1>1. from \in Int
  BY AngleHasPulse, SMTT(60) DEF SweepAllowed
<1>2. Upward(k) <=> Upward(j)
  BY DEF Upward
<1>3. from = PulseOf(k.from[k.channel])
  OBVIOUS
<1>4. CASE Upward(j)
  <2>1. j.at \in Int /\ j.at >= from /\ k.at = j.at + SweepStep
    BY <1>4 DEF SweepAllowed
  <2> HIDE DEF from
  <2>2. k.at \in Int /\ k.at >= from
    BY <2>1, <1>1 DEF SweepStep
  <2> QED
    BY <2>2, <1>2, <1>3, <1>4 DEF SweepAllowed
<1>5. CASE ~Upward(j)
  <2>1. j.at \in Int /\ j.at <= from /\ k.at = j.at - SweepStep
    BY <1>5 DEF SweepAllowed
  <2> HIDE DEF from
  <2>2. k.at \in Int /\ k.at <= from
    BY <2>1, <1>1 DEF SweepStep
  <2> QED
    BY <2>2, <1>2, <1>3, <1>5 DEF SweepAllowed
<1> QED
  BY <1>4, <1>5

\* rotateGraduallyByPulse: what the clamps let through and the limits accept.
LEMMA AcceptedStep ==
    ASSUME NEW c \in Channels, NEW p \in Int, Accepts(c, AngleOf(p)),
           \/ c = Horizontal /\ p \in 560 .. 1040
           \/ c = Vertical /\ p \in 560 .. 780
    PROVE  /\ p \in AllowedPulses(c)
           /\ AngleOf(p) \in Int
           /\ c = Horizontal => AngleOf(p) \in XRange
           /\ c = Vertical => AngleOf(p) \in YRange
<1>1. p \in 560 .. 1040 /\ AngleOf(p) = (9 * (p - 501)) \div 100
  BY DEF AngleOf, TruncDiv
<1>2. CASE c = Horizontal
  BY <1>1, <1>2, LimitPulses
     DEF Accepts, AllowedPulses, Horizontal, Vertical, XRange, StartX, LimitX
<1>3. CASE c = Vertical
  BY <1>1, <1>3, LimitPulses
     DEF Accepts, AllowedPulses, Horizontal, Vertical, YRange, StartY, LimitY
<1> QED
  BY <1>2, <1>3 DEF Channels
----------------------------------------------------------------------------
(* PulseInLimits: no interleaving of the movers, which share the angles    *)
(* without a lock, takes a servo out of the limits. The steps of a sweep    *)
(* and of a manual move are kept by the lemmas above; all other actions     *)
(* leave the pulses alone.                                                  *)

LEMMA InitInLimits == Init => LimitsInv
<1> SUFFICES ASSUME Init PROVE LimitsInv
  OBVIOUS
<1>1. angle \in AllowedAngles
  BY SavedAssumption, PairAllowed DEF Init
<1>2. JobTypes
  BY DEF Init, JobTypes, NoJob, Channels
<1>3. pulse \in [Channels -> Int] /\ \A c \in Channels : pulse[c] \in AllowedPulses(c)
  BY BaseAllowed, AngleHasPulse DEF Init
<1>4. \A t \in Movers : pc[t] \notin {"sweep", "aim", "move"}
  BY DEF Init
<1> QED
  BY <1>1, <1>2, <1>3, <1>4 DEF LimitsInv, StepAllowed, Init

LEMMA RotateInLimits ==
    ASSUME LimitsInv, NEW t \in Movers, NEW from, NEW to \in AllowedAngles,
           Rotate(t, from, to)
    PROVE  LimitsInv'
<1>1. JobTypes' /\ crashes' \in Nat /\ angle' \in AllowedAngles /\ UNCHANGED pulse
  BY DEF LimitsInv, JobTypes, Rotate, Go, Channels
<1>2. ASSUME NEW u \in Movers, pc'[u] = "sweep" PROVE SweepAllowed(job[u])'
  <2>1. CASE u = t
    <3>1. /\ job'[u].from = angle /\ job'[u].to = to /\ job'[u].channel = Horizontal
          /\ job'[u].at = PulseOf(angle[Horizontal])
      BY <2>1 DEF Rotate, LimitsInv, JobTypes
    <3>2. PulseOf(angle[Horizontal]) \in Int
      BY AngleHasPulse DEF LimitsInv, Channels
    <3> QED
      BY <3>1, <3>2 DEF SweepAllowed, LimitsInv
  <2>2. CASE u # t
    BY <1>2, <2>2 DEF Rotate, Go, LimitsInv, JobTypes, SweepAllowed, Upward
  <2> QED
    BY <2>1, <2>2
<1>3. "ctl" \in Movers => StepAllowed(pc["ctl"], job["ctl"])'
  BY DEF Rotate, Go, LimitsInv, JobTypes, StepAllowed
<1> QED
  BY <1>1, <1>2, <1>3 DEF LimitsInv, AllowedPulses

LEMMA SweepPulseInLimits ==
    ASSUME LimitsInv, NEW t \in Movers, SweepPulse(t) PROVE LimitsInv'
<1>1. job[t].channel \in Channels /\ SweepAllowed(job[t]) /\ More(job[t]) /\ pc[t] = "sweep"
  BY DEF LimitsInv, JobTypes, SweepPulse
<1>2. job[t].at \in AllowedPulses(job[t].channel) /\ job[t].at \in Int
  BY <1>1, SweepWritesAllowed
<1>3. JobTypes' /\ UNCHANGED <<pc, angle, crashes>>
  BY DEF LimitsInv, JobTypes, SweepPulse, bounds
<1>4. pulse' \in [Channels -> Int] /\ \A c \in Channels : pulse'[c] \in AllowedPulses(c)
  BY <1>1, <1>2 DEF LimitsInv, SweepPulse
<1>5. ASSUME NEW u \in Movers, pc[u] = "sweep" PROVE SweepAllowed(job'[u])
  <2>1. CASE u = t
    <3>1. /\ job'[t].from = job[t].from /\ job'[t].to = job[t].to
          /\ job'[t].channel = job[t].channel
          /\ job'[t].at = IF Upward(job[t]) THEN job[t].at + SweepStep
                                           ELSE job[t].at - SweepStep
      BY DEF SweepPulse, LimitsInv, JobTypes
    <3> QED
      BY <1>1, <2>1, <3>1, SweepGoesOn
  <2>2. CASE u # t
    BY <1>5, <2>2 DEF SweepPulse, LimitsInv, JobTypes
  <2> QED
    BY <2>1, <2>2
<1>6. "ctl" \in Movers => StepAllowed(pc["ctl"], job'["ctl"])
  <2>1. CASE t = "ctl"
    BY <1>1, <2>1 DEF StepAllowed
  <2>2. CASE t # "ctl"
    BY <2>2 DEF SweepPulse, LimitsInv, JobTypes
  <2> QED
    BY <2>1, <2>2
<1> QED
  BY <1>3, <1>4, <1>5, <1>6 DEF LimitsInv, AllowedPulses

LEMMA SweepVerticalInLimits ==
    ASSUME LimitsInv, NEW t \in Movers, SweepVertical(t) PROVE LimitsInv'
<1>1. JobTypes' /\ UNCHANGED <<pc, angle, pulse, crashes>>
  BY DEF LimitsInv, JobTypes, SweepVertical, bounds, Channels
<1>2. ASSUME NEW u \in Movers, pc[u] = "sweep" PROVE SweepAllowed(job'[u])
  <2>1. CASE u = t
    <3>1. /\ job'[t].from = job[t].from /\ job'[t].to = job[t].to
          /\ job'[t].channel = Vertical
          /\ job'[t].at = PulseOf(job[t].from[Vertical])
      BY DEF SweepVertical, LimitsInv, JobTypes
    <3>2. job[t].from \in AllowedAngles /\ job[t].to \in AllowedAngles
      BY <1>2, <2>1 DEF LimitsInv, SweepAllowed
    <3>3. PulseOf(job[t].from[Vertical]) \in Int
      BY <3>2, AngleHasPulse DEF Channels
    <3> QED
      BY <2>1, <3>1, <3>2, <3>3 DEF SweepAllowed
  <2>2. CASE u # t
    BY <1>2, <2>2 DEF SweepVertical, LimitsInv, JobTypes
  <2> QED
    BY <2>1, <2>2
<1>3. "ctl" \in Movers => StepAllowed(pc["ctl"], job'["ctl"])
  <2>1. CASE t = "ctl"
    BY <2>1 DEF SweepVertical, StepAllowed
  <2>2. CASE t # "ctl"
    BY <2>2 DEF SweepVertical, LimitsInv, JobTypes
  <2> QED
    BY <2>1, <2>2
<1> QED
  BY <1>1, <1>2, <1>3 DEF LimitsInv, AllowedPulses

LEMMA TestInLimits ==
    ASSUME LimitsInv, "ctl" \in Movers, Test PROVE LimitsInv'
<1>1. PICK s \in Steps :
        job' = [job EXCEPT !["ctl"].channel = s[1], !["ctl"].at = StepPulse(s[1], s[2])]
  BY DEF Test
<1>2. s[1] \in Channels /\ s[2] \in {StepLength, -StepLength}
  BY StepsAssumption
<1>3. \/ s[1] = Horizontal /\ StepPulse(s[1], s[2]) \in 560 .. 1040
      \/ s[1] = Vertical /\ StepPulse(s[1], s[2]) \in 560 .. 780
  <2>1. \A c \in Channels : PulseOf(angle[c]) \in Int
    BY AngleHasPulse DEF LimitsInv
  <2>2. \A c \in Channels : StepH(angle[c], s[2]) \in 560 .. 1040
                          /\ StepV(angle[c], s[2]) \in 560 .. 780
    BY <1>2, <2>1 DEF StepH, StepV, Clamp, StepLength
  <2> QED
    <3>1. \/ s[1] = Horizontal /\ StepPulse(s[1], s[2]) = StepH(angle[s[1]], s[2])
          \/ s[1] = Vertical /\ StepPulse(s[1], s[2]) = StepV(angle[s[1]], s[2])
      BY <1>2 DEF StepPulse, Channels, Horizontal, Vertical
    <3> QED
      BY <1>2, <2>2, <3>1
<1>4. /\ job'["ctl"].channel = s[1] /\ job'["ctl"].at = StepPulse(s[1], s[2])
      /\ DOMAIN job'["ctl"] = {"to", "from", "channel", "at", "text"}
      /\ DOMAIN job' = Movers
      /\ \A t \in Movers \ {"ctl"} : job'[t] = job[t]
  BY <1>1 DEF LimitsInv, JobTypes
<1>5. DOMAIN pc' = Movers /\ pc' = [pc EXCEPT !["ctl"] = "aim"]
      /\ UNCHANGED <<angle, pulse, crashes>>
  BY DEF Test, Go, LimitsInv, JobTypes
<1>6. JobTypes'
  BY <1>2, <1>4, <1>5 DEF LimitsInv, JobTypes
<1>7. pc'["ctl"] = "aim" /\ \A t \in Movers \ {"ctl"} : pc'[t] = pc[t]
  BY <1>5 DEF LimitsInv, JobTypes
<1>8. StepAllowed(pc'["ctl"], job'["ctl"])
  BY <1>3, <1>4, <1>7 DEF StepAllowed
<1>9. ASSUME NEW t \in Movers, pc'[t] = "sweep" PROVE SweepAllowed(job'[t])
  BY <1>4, <1>7, <1>9 DEF LimitsInv
<1> QED
  BY <1>5, <1>6, <1>8, <1>9 DEF LimitsInv, AllowedPulses

LEMMA ManualStepKeepsLimits ==
    ASSUME LimitsInv, "ctl" \in Movers, ManualStep PROVE LimitsInv'
<1> DEFINE c == job["ctl"].channel
           p == job["ctl"].at
<1>1. /\ c \in Channels /\ p \in Int /\ pc["ctl"] = "aim"
      /\ \/ c = Horizontal /\ p \in 560 .. 1040
         \/ c = Vertical /\ p \in 560 .. 780
  BY DEF ManualStep, Go, LimitsInv, JobTypes, StepAllowed
<1>2. CASE /\ Accepts(c, AngleOf(p)) /\ Go("ctl", "aim", "move")
           /\ angle' = [angle EXCEPT ![c] = AngleOf(p)]
  <2>1. /\ p \in AllowedPulses(c) /\ AngleOf(p) \in Int
        /\ c = Horizontal => AngleOf(p) \in XRange
        /\ c = Vertical => AngleOf(p) \in YRange
    BY <1>1, <1>2, AcceptedStep
  <2>2. angle' \in AllowedAngles
    BY <1>1, <1>2, <2>1 DEF LimitsInv, AllowedAngles, Channels
  <2>3. JobTypes' /\ UNCHANGED <<job, pulse, crashes>>
    BY <1>2 DEF ManualStep, Go, LimitsInv, JobTypes, bounds
  <2>4. pc'["ctl"] = "move" /\ \A t \in Movers \ {"ctl"} : pc'[t] = pc[t]
    BY <1>2 DEF Go, LimitsInv, JobTypes
  <2> QED
    BY <2>1, <2>2, <2>3, <2>4 DEF LimitsInv, StepAllowed, AllowedPulses
<1>3. CASE Go("ctl", "aim", "idle") /\ UNCHANGED angle
  <2>1. JobTypes' /\ UNCHANGED <<job, angle, pulse, crashes>>
    BY <1>3 DEF ManualStep, Go, LimitsInv, JobTypes, bounds
  <2>2. pc'["ctl"] = "idle" /\ \A t \in Movers \ {"ctl"} : pc'[t] = pc[t]
    BY <1>3 DEF Go, LimitsInv, JobTypes
  <2> QED
    BY <2>1, <2>2 DEF LimitsInv, StepAllowed, AllowedPulses
<1> QED
  BY <1>2, <1>3 DEF ManualStep

LEMMA ManualPulseKeepsLimits ==
    ASSUME LimitsInv, "ctl" \in Movers, ManualPulse PROVE LimitsInv'
<1> DEFINE c == job["ctl"].channel
           p == job["ctl"].at
<1>1. c \in Channels /\ p \in AllowedPulses(c) /\ p \in Int
  <2>1. c \in Channels /\ p \in AllowedPulses(c)
    BY DEF ManualPulse, Go, LimitsInv, JobTypes, StepAllowed
  <2> QED
    BY <2>1, LimitPulses DEF AllowedPulses
<1>2. pulse' \in [Channels -> Int] /\ \A d \in Channels : pulse'[d] \in AllowedPulses(d)
  BY <1>1 DEF ManualPulse, LimitsInv
<1>3. JobTypes' /\ UNCHANGED <<angle, crashes>>
  BY DEF ManualPulse, Go, LimitsInv, JobTypes, NoJob, Channels, bounds
<1>4. pc'["ctl"] = "open" /\ \A t \in Movers \ {"ctl"} : pc'[t] = pc[t] /\ job'[t] = job[t]
  BY DEF ManualPulse, Go, LimitsInv, JobTypes
<1> QED
  BY <1>2, <1>3, <1>4 DEF LimitsInv, StepAllowed, AllowedPulses

LEMMA FileStepsKeepLimits ==
    ASSUME LimitsInv, NEW t \in Movers,
           SweepDone(t) \/ OpenFile(t) \/ WriteFile(t) \/ CloseFile(t)
    PROVE  LimitsInv'
<1>1. JobTypes' /\ UNCHANGED <<angle, pulse, crashes>>
  BY DEF SweepDone, OpenFile, WriteFile, CloseFile, Go, LimitsInv, JobTypes, NoJob, Channels,
     bounds
<1>2. /\ pc'[t] \in {"open", "write", "close", "idle"}
      /\ \A u \in Movers \ {t} : pc'[u] = pc[u] /\ job'[u] = job[u]
  BY DEF SweepDone, OpenFile, WriteFile, CloseFile, Go, LimitsInv, JobTypes
<1>3. \A u \in Movers : pc'[u] = "sweep" => SweepAllowed(job'[u])
  BY <1>2 DEF LimitsInv
<1>4. "ctl" \in Movers => StepAllowed(pc'["ctl"], job'["ctl"])
  <2>1. CASE t = "ctl"
    BY <1>2, <2>1 DEF StepAllowed
  <2>2. CASE t # "ctl"
    BY <1>2, <2>2 DEF LimitsInv
  <2> QED
    BY <2>1, <2>2
<1> QED
  BY <1>1, <1>3, <1>4 DEF LimitsInv, AllowedPulses

LEMMA LookKeepsLimits == ASSUME LimitsInv, Look PROVE LimitsInv'
<1>1. JobTypes' /\ UNCHANGED <<angle, pulse, crashes, job>>
  BY DEF Look, Go, LimitsInv, JobTypes, bounds
<1>2. /\ \A u \in Movers : pc'[u] = "sweep" => pc[u] = "sweep"
      /\ pc'["ctl"] = pc["ctl"] \/ "ctl" \notin Movers
  BY DEF Look, Go, LimitsInv, JobTypes
<1> QED
  BY <1>1, <1>2 DEF LimitsInv, AllowedPulses

LEMMA StutterKeepsLimits == ASSUME LimitsInv, UNCHANGED vars PROVE LimitsInv'
  BY DEF LimitsInv, JobTypes, AllowedPulses, vars, bounds

LEMMA NextKeepsLimits ==
    ASSUME MaxCrashes = 0, LimitsInv, [Next]_vars PROVE LimitsInv'
<1>1. ASSUME NEW t \in Movers, Move(t) PROVE LimitsInv'
  BY <1>1, SweepPulseInLimits, SweepVerticalInLimits, FileStepsKeepLimits DEF Move
<1>2. CASE "det" \in Movers /\ Look
  BY <1>2, LookKeepsLimits
<1>3. CASE "det" \in Movers /\ RotateToTarget
  <2>1. PICK target \in Targets : Rotate("det", "aim", Pair(target[2], target[1]))
    BY <1>3 DEF RotateToTarget
  <2>2. Pair(target[2], target[1]) \in AllowedAngles
    BY TargetsAssumption, PairAllowed
  <2> QED
    BY <1>3, <2>1, <2>2, RotateInLimits
<1>4. CASE \/ "det" \in Movers /\ SetTurretState("det", "boot")
           \/ "web" \in Movers /\ SetTurretState("web", "idle")
  BY <1>4, BaseAllowed, RotateInLimits DEF SetTurretState
<1>5. CASE "ctl" \in Movers /\ (Test \/ ManualStep \/ ManualPulse)
  BY <1>5, TestInLimits, ManualStepKeepsLimits, ManualPulseKeepsLimits
<1>6. CASE Restart
  BY <1>6 DEF Restart, LimitsInv
<1>7. CASE UNCHANGED vars
  BY <1>7, StutterKeepsLimits
<1> QED
  BY <1>1, <1>2, <1>3, <1>4, <1>5, <1>6, <1>7 DEF Next

\* While the process runs the servos are only given pulses of angles within the
\* limits of __init__, whatever the detector, the server and the control thread
\* do at the same time (rotateGradually, rotateGraduallyByPulse). A restart that
\* misreads last_servo_state.txt breaks it, as the run servo_restart shows.
THEOREM PulsesWithinLimits == ASSUME MaxCrashes = 0 PROVE Spec => []PulseInLimits
<1>1. LimitsInv => PulseInLimits
  BY DEF LimitsInv, PulseInLimits, AllowedPulses, Channels, Horizontal, Vertical
<1> QED
  BY InitInLimits, NextKeepsLimits, <1>1, PTL DEF Spec

----------------------------------------------------------------------------
(* ServoFollows and GradualMotion, for the detector on its own: the sweep   *)
(* always stops short, and the next one starts from the recorded angle, not *)
(* from where the servo is. Two facts are missing from ServoFollows to make *)
(* it inductive: where the servos are before the first rotation, which goes *)
(* to the base, and how far each is behind the sweep that moves it.         *)

Near(p, q) == p - q \in -SweepStep .. SweepStep

\* A servo the sweep j has not moved yet.
Waiting(j, c) ==
    IF fresh THEN j.to = Base /\ pulse[c] = PulseOf(Base[c])
             ELSE Near(pulse[c], PulseOf(j.from[c]))

\* The servo the sweep j moves is one step behind it.
UnderWay(j) ==
    LET from == PulseOf(j.from[j.channel])
        to   == PulseOf(j.to[j.channel])
    IN  \/ j.at = from /\ Waiting(j, j.channel)
        \/ from < j.at /\ j.at < to + SweepStep /\ pulse[j.channel] = j.at - SweepStep
        \/ from > j.at /\ j.at > to - SweepStep /\ pulse[j.channel] = j.at + SweepStep

Sweeping(j) ==
    /\ j.to = angle
    /\ UnderWay(j)
    /\ IF j.channel = Horizontal THEN Waiting(j, Vertical)
                                 ELSE Near(pulse[Horizontal], PulseOf(j.to[Horizontal]))

FollowInv ==
    /\ pc["det"] \in {"boot", "idle", "aim", "sweep", "open", "write", "close"}
    /\ fresh \in BOOLEAN
    /\ fresh => pc["det"] \in {"boot", "sweep"}
    /\ pc["det"] = "boot" => fresh /\ \A c \in Channels : pulse[c] = PulseOf(Base[c])
    /\ pc["det"] = "sweep" => Sweeping(job["det"])
    /\ ~fresh /\ pc["det"] # "sweep" =>
          \A c \in Channels : Near(pulse[c], PulseOf(angle[c]))

LEMMA InitFollows == ASSUME Movers = {"det"}, Init PROVE FollowInv
  BY DEF Init, FollowInv

\* setTurretState enters the first rotation, pointAndFire every other one.
LEMMA RotateFollows ==
    ASSUME LimitsInv, FollowInv, "det" \in Movers, NEW to \in AllowedAngles,
           \/ Rotate("det", "boot", to) /\ to = Base
           \/ Rotate("det", "aim", to)
    PROVE  FollowInv'
<1>1. /\ pc'["det"] = "sweep" /\ angle' = to /\ UNCHANGED <<pulse, fresh>>
      /\ job'["det"].to = to /\ job'["det"].from = angle
      /\ job'["det"].channel = Horizontal
      /\ job'["det"].at = PulseOf(angle[Horizontal])
      /\ \/ pc["det"] = "boot" /\ to = Base
         \/ pc["det"] = "aim"
  BY DEF Rotate, Go, LimitsInv, JobTypes
<1>2. \A c \in Channels : Waiting(job["det"], c)'
  <2>1. CASE pc["det"] = "boot" /\ to = Base
    BY <1>1, <2>1 DEF Waiting, FollowInv
  <2>2. CASE pc["det"] = "aim"
    BY <1>1, <2>2 DEF Waiting, FollowInv, Near
  <2> QED
    BY <1>1, <2>1, <2>2
<1>3. Sweeping(job["det"])'
  BY <1>1, <1>2 DEF Sweeping, UnderWay, Channels
<1> QED
  BY <1>1, <1>3 DEF FollowInv

\* Every pulse of a sweep is written, as it lies within the limits, and brings
\* the servo from at most one step behind to exactly one step behind.
LEMMA SweepPulseFollows ==
    ASSUME LimitsInv, FollowInv, "det" \in Movers, SweepPulse("det")
    PROVE  /\ FollowInv'
           /\ ~fresh => \A c \in Channels :
                 pulse'[c] - pulse[c] \in -SweepStep .. SweepStep
<1> DEFINE j == job["det"]
           k == job'["det"]
           c == j.channel
           from == PulseOf(j.from[c])
           to == PulseOf(j.to[c])
<1>1. c \in Channels /\ SweepAllowed(j) /\ More(j) /\ Sweeping(j) /\ pc["det"] = "sweep"
  BY DEF LimitsInv, JobTypes, FollowInv, SweepPulse
<1>2. j.at \in Int /\ from \in Int /\ to \in Int
  <2>1. j.from \in AllowedAngles /\ j.to \in AllowedAngles /\ j.at \in Int
    BY <1>1 DEF SweepAllowed
  <2> HIDE DEF j
  <2> QED
    BY <1>1, <2>1, AngleHasPulse
<1>3. Writable(j.at)
  <2>1. j.at \in AllowedPulses(c)
    BY <1>1, SweepWritesAllowed
  <2> QED
    BY <2>1, LimitPulses DEF Writable, AllowedPulses
<1>4. /\ pulse' = [pulse EXCEPT ![c] = j.at]
      /\ UNCHANGED <<pc, angle, fresh>>
  BY <1>3 DEF SweepPulse, bounds
<1>5. /\ k.from = j.from /\ k.to = j.to /\ k.channel = c
      /\ k.at = IF Upward(j) THEN j.at + SweepStep ELSE j.at - SweepStep
  BY DEF SweepPulse, LimitsInv, JobTypes
<1>6. /\ pulse[c] \in Int /\ pulse'[c] = j.at
      /\ \A d \in Channels \ {c} : pulse'[d] = pulse[d] /\ pulse[d] \in Int
  BY <1>1, <1>4 DEF LimitsInv
<1>7. UnderWay(j)'
  <2>1. \/ from < k.at /\ k.at < to + SweepStep /\ pulse'[c] = k.at - SweepStep
        \/ from > k.at /\ k.at > to - SweepStep /\ pulse'[c] = k.at + SweepStep
    <3>1. CASE Upward(j)
      <4>1. /\ from <= j.at /\ j.at < to
            /\ k.at = j.at + SweepStep
        BY <1>1, <1>5, <3>1 DEF SweepAllowed, More
      <4> HIDE DEF from, to, c, j, k
      <4> QED
        BY <4>1, <1>2, <1>6 DEF SweepStep
    <3>2. CASE ~Upward(j)
      <4>1. /\ from >= j.at /\ j.at > to
            /\ k.at = j.at - SweepStep
        BY <1>1, <1>5, <3>2 DEF SweepAllowed, More
      <4> HIDE DEF from, to, c, j, k
      <4> QED
        BY <4>1, <1>2, <1>6 DEF SweepStep
    <3> QED
      BY <3>1, <3>2
  <2> QED
    BY <2>1, <1>5 DEF UnderWay
<1>8. Sweeping(j)'
  <2>1. k.to = angle'
    BY <1>1, <1>4, <1>5 DEF Sweeping
  <2>2. CASE c = Horizontal
    <3>1. Waiting(j, Vertical) /\ pulse'[Vertical] = pulse[Vertical]
      BY <1>1, <1>6, <2>2 DEF Sweeping, Channels, Horizontal, Vertical
    <3>2. Waiting(j, Vertical)'
      BY <3>1, <1>4, <1>5 DEF Waiting
    <3> QED
      BY <1>5, <1>7, <2>1, <2>2, <3>2 DEF Sweeping
  <2>3. CASE c # Horizontal
    <3>1. /\ Near(pulse[Horizontal], PulseOf(j.to[Horizontal]))
          /\ pulse'[Horizontal] = pulse[Horizontal]
      BY <1>1, <1>6, <2>3 DEF Sweeping, Channels
    <3> QED
      BY <1>5, <1>7, <2>1, <2>3, <3>1 DEF Sweeping
  <2> QED
    BY <2>2, <2>3
<1>9. FollowInv'
  BY <1>1, <1>4, <1>8 DEF FollowInv
<1>10. ASSUME ~fresh PROVE pulse'[c] - pulse[c] \in -SweepStep .. SweepStep
  <2>1. \/ j.at = from /\ Near(pulse[c], from)
        \/ pulse[c] = j.at - SweepStep
        \/ pulse[c] = j.at + SweepStep
    BY <1>1, <1>10 DEF Sweeping, UnderWay, Waiting
  <2> HIDE DEF from, c, j
  <2> QED
    BY <2>1, <1>2, <1>6 DEF Near, SweepStep
<1>11. \A d \in Channels \ {c} : pulse'[d] - pulse[d] \in -SweepStep .. SweepStep
  BY <1>6 DEF SweepStep
<1> QED
  BY <1>9, <1>10, <1>11

\* A sweep that has no pulse left has stopped within one step of its end.
LEMMA SweepEndsNear ==
    ASSUME NEW j, j.channel \in Channels, SweepAllowed(j), Sweeping(j), ~More(j),
           pulse[j.channel] \in Int
    PROVE  Near(pulse[j.channel], PulseOf(j.to[j.channel]))
<1> DEFINE from == PulseOf(j.from[j.channel])
           to == PulseOf(j.to[j.channel])
           p == pulse[j.channel]
<1>1. j.at \in Int /\ from \in Int /\ to \in Int
  <2>1. j.from \in AllowedAngles /\ j.to \in AllowedAngles /\ j.at \in Int
    BY DEF SweepAllowed
  <2> QED
    BY <2>1, AngleHasPulse
<1>2. \/ from <= to /\ j.at >= to
      \/ from > to /\ j.at <= to
  <2>1. CASE Upward(j)
    <3>1. from <= to /\ ~(j.at < to)
      BY <2>1 DEF Upward, More
    <3> HIDE DEF from, to
    <3> QED
      BY <1>1, <3>1
  <2>2. CASE ~Upward(j)
    <3>1. ~(from <= to) /\ ~(j.at > to)
      BY <2>2 DEF Upward, More
    <3> HIDE DEF from, to
    <3> QED
      BY <1>1, <3>1
  <2> QED
    BY <2>1, <2>2
<1>3. CASE j.at = from
  <2>1. from = to
    <3> HIDE DEF from, to
    <3> QED
      BY <1>1, <1>2, <1>3
  <2>2. Waiting(j, j.channel)
    BY <1>1, <1>3 DEF Sweeping, UnderWay
  <2> QED
    BY <1>1, <2>1, <2>2, SMTT(60) DEF Waiting, Near, SweepStep
<1>4. CASE j.at # from
  <2>1. \/ from < j.at /\ j.at < to + SweepStep /\ p = j.at - SweepStep
        \/ from > j.at /\ j.at > to - SweepStep /\ p = j.at + SweepStep
    BY <1>4 DEF Sweeping, UnderWay
  <2> HIDE DEF from, to, p
  <2>2. Near(p, to)
    BY <1>1, <1>2, <2>1 DEF Near, SweepStep
  <2> QED
    BY <2>2 DEF p, to
<1> QED
  BY <1>3, <1>4

LEMMA SweepVerticalFollows ==
    ASSUME LimitsInv, FollowInv, "det" \in Movers, SweepVertical("det") PROVE FollowInv'
<1> DEFINE j == job["det"]
           k == job'["det"]
<1>1. /\ j.channel \in Channels /\ j.channel = Horizontal /\ SweepAllowed(j) /\ ~More(j)
      /\ Sweeping(j) /\ pc["det"] = "sweep" /\ pulse[j.channel] \in Int
  BY DEF LimitsInv, JobTypes, FollowInv, SweepVertical
<1>2. /\ k.from = j.from /\ k.to = j.to /\ k.channel = Vertical
      /\ k.at = PulseOf(j.from[Vertical])
      /\ UNCHANGED <<pc, angle, pulse, fresh>>
  BY DEF SweepVertical, LimitsInv, JobTypes, bounds
<1>3. Near(pulse[Horizontal], PulseOf(j.to[Horizontal]))
  <2> HIDE DEF j
  <2>1. Near(pulse[j.channel], PulseOf(j.to[j.channel]))
    BY <1>1, SweepEndsNear
  <2> QED
    BY <1>1, <2>1
<1>4. Waiting(j, Vertical)'
  BY <1>1, <1>2 DEF Sweeping, Waiting
<1>5. UnderWay(j)'
  BY <1>2, <1>4 DEF UnderWay
<1>6. Sweeping(j)'
  BY <1>1, <1>2, <1>3, <1>5 DEF Sweeping, Horizontal, Vertical
<1> QED
  BY <1>1, <1>2, <1>6 DEF FollowInv

LEMMA SweepDoneFollows ==
    ASSUME LimitsInv, FollowInv, "det" \in Movers, SweepDone("det") PROVE FollowInv'
<1> DEFINE j == job["det"]
<1>1. /\ j.channel \in Channels /\ j.channel = Vertical /\ SweepAllowed(j) /\ ~More(j)
      /\ Sweeping(j) /\ pc["det"] = "sweep" /\ pulse[j.channel] \in Int
  BY DEF LimitsInv, JobTypes, FollowInv, SweepDone, Go
<1>2. pc'["det"] = "open" /\ fresh' = FALSE /\ UNCHANGED <<angle, pulse>>
  BY DEF SweepDone, Go, LimitsInv, JobTypes
<1>3. Near(pulse[Vertical], PulseOf(j.to[Vertical]))
  <2> HIDE DEF j
  <2>1. Near(pulse[j.channel], PulseOf(j.to[j.channel]))
    BY <1>1, SweepEndsNear
  <2> QED
    BY <1>1, <2>1
<1>4. Near(pulse[Horizontal], PulseOf(j.to[Horizontal])) /\ j.to = angle
  BY <1>1 DEF Sweeping, Horizontal, Vertical
<1>5. \A c \in Channels : Near(pulse[c], PulseOf(angle[c]))
  BY <1>3, <1>4 DEF Channels
<1> QED
  BY <1>2, <1>5 DEF FollowInv, Near

\* No other action moves a servo or records an angle.
LEMMA RestFollows ==
    ASSUME LimitsInv, FollowInv, "det" \in Movers,
           \/ Look \/ OpenFile("det") \/ WriteFile("det") \/ CloseFile("det")
    PROVE  FollowInv'
<1>1. UNCHANGED <<angle, pulse, fresh>>
  BY DEF Look, OpenFile, WriteFile, CloseFile
<1>2. pc["det"] \in {"idle", "open", "write", "close"}
      /\ pc'["det"] \in {"aim", "write", "close", "idle"}
  BY DEF Look, OpenFile, WriteFile, CloseFile, Go, LimitsInv, JobTypes
<1> QED
  BY <1>1, <1>2 DEF FollowInv, Near

LEMMA StutterFollows == ASSUME FollowInv, UNCHANGED vars PROVE FollowInv'
  BY DEF FollowInv, Sweeping, UnderWay, Waiting, Near, vars

LEMMA NextFollows ==
    ASSUME Movers = {"det"}, MaxCrashes = 0, LimitsInv, FollowInv, [Next]_vars
    PROVE  FollowInv'
<1>1. CASE SweepPulse("det")
  BY <1>1, SweepPulseFollows
<1>2. CASE SweepVertical("det")
  BY <1>2, SweepVerticalFollows
<1>3. CASE SweepDone("det")
  BY <1>3, SweepDoneFollows
<1>4. CASE \/ Look \/ OpenFile("det") \/ WriteFile("det") \/ CloseFile("det")
  BY <1>4, RestFollows
<1>5. CASE RotateToTarget
  <2>1. PICK target \in Targets : Rotate("det", "aim", Pair(target[2], target[1]))
    BY <1>5 DEF RotateToTarget
  <2>2. Pair(target[2], target[1]) \in AllowedAngles
    BY TargetsAssumption, PairAllowed
  <2> QED
    BY <2>1, <2>2, RotateFollows
<1>6. CASE SetTurretState("det", "boot")
  BY <1>6, BaseAllowed, RotateFollows DEF SetTurretState
<1>7. CASE Restart
  BY <1>7 DEF Restart, LimitsInv
<1>8. CASE UNCHANGED vars
  BY <1>8, StutterFollows
<1> QED
  BY <1>1, <1>2, <1>3, <1>4, <1>5, <1>6, <1>7, <1>8 DEF Next, Move

\* Only the pulses of a sweep move a servo.
LEMMA StepIsGradual ==
    ASSUME Movers = {"det"}, MaxCrashes = 0, LimitsInv, FollowInv, [Next]_vars, ~fresh
    PROVE  \A c \in Channels : pulse'[c] - pulse[c] \in -SweepStep .. SweepStep
<1>1. CASE SweepPulse("det")
  BY <1>1, SweepPulseFollows
<1>2. CASE UNCHANGED pulse
  BY <1>2 DEF LimitsInv, SweepStep
<1>3. CASE Restart
  BY <1>3 DEF Restart, LimitsInv
<1> QED
  BY <1>1, <1>2, <1>3
     DEF Next, Move, SweepVertical, SweepDone, OpenFile, WriteFile, CloseFile, Look,
         RotateToTarget, SetTurretState, Rotate, vars

\* The example of TurretHandler's docstring, for any targets and any number of
\* rotations: once a rotation has ended each servo rests within one sweep step
\* of the angle recorded for it (setRotationAngleGradually stops short, and the
\* next rotation starts from the recorded angle).
THEOREM ServosFollow ==
    ASSUME Movers = {"det"}, MaxCrashes = 0 PROVE Spec => []ServoFollows
<1>1. FollowInv => ServoFollows
  BY DEF FollowInv, ServoFollows, AtRest, Near
<1> QED
  BY InitInLimits, NextKeepsLimits, InitFollows, NextFollows, <1>1, PTL DEF Spec

\* And no pulse is further than one sweep step from the one before it, from the
\* end of the first rotation on.
THEOREM MotionIsGradual ==
    ASSUME Movers = {"det"}, MaxCrashes = 0 PROVE Spec => GradualMotion
<1>1. LimitsInv /\ FollowInv /\ [Next]_vars =>
        [~fresh /\ ~fresh' =>
           \A c \in Channels : pulse'[c] - pulse[c] \in -SweepStep .. SweepStep]_vars
  BY StepIsGradual
<1> QED
  BY InitInLimits, NextKeepsLimits, InitFollows, NextFollows, <1>1, PTL
     DEF Spec, GradualMotion

----------------------------------------------------------------------------
(* The text of the file. Digits and Number are recursive functions: that    *)
(* they satisfy their equations is shown first.                             *)

\* The digits of the numbers up to m.
DigitsUpTo(m) ==
    {g \in [0 .. m -> Seq(Nat)] : \A n \in 0 .. m :
        g[n] = IF n < 10 THEN <<n>> ELSE Append(g[n \div 10], n % 10)}

LEMMA Tenth ==
    ASSUME NEW n \in Nat, n >= 10
    PROVE  /\ n \div 10 \in Nat /\ n \div 10 < n /\ n % 10 \in 0 .. 9
           /\ n = 10 * (n \div 10) + (n % 10)
OBVIOUS

LEMMA DigitsUpToExists ==
    ASSUME NEW m \in Nat
    PROVE  DigitsUpTo(m) # {}
<1> DEFINE S == {k \in Nat : DigitsUpTo(k) # {}}
<1>1. 0 \in S
    <2>1. [n \in 0 .. 0 |-> <<n>>] \in DigitsUpTo(0)
        BY DEF DigitsUpTo
    <2> QED BY <2>1
<1>2. ASSUME NEW k \in Nat, k \in S PROVE k + 1 \in S
    <2>1. PICK g : g \in DigitsUpTo(k)
        BY <1>2
    <2>2. g \in [0 .. k -> Seq(Nat)] /\ \A n \in 0 .. k :
              g[n] = IF n < 10 THEN <<n>> ELSE Append(g[n \div 10], n % 10)
        BY <2>1 DEF DigitsUpTo
    <2> DEFINE l == k + 1
               last == IF l < 10 THEN <<l>> ELSE Append(g[l \div 10], l % 10)
               h == [n \in 0 .. l |-> IF n = l THEN last ELSE g[n]]
    <2>3. l \in Nat /\ l = k + 1 /\ \A n \in 0 .. l : n = l \/ n \in 0 .. k
        OBVIOUS
    <2> HIDE DEF l
    <2>4. last \in Seq(Nat)
        <3>1. CASE l < 10
            BY <2>3, <3>1
        <3>2. CASE ~(l < 10)
            <4>1. l \div 10 \in 0 .. k /\ l % 10 \in Nat
                BY <2>3, <3>2, Tenth
            <4>2. g[l \div 10] \in Seq(Nat)
                BY <2>2, <4>1
            <4> QED BY <3>2, <4>1, <4>2
        <3> QED BY <3>1, <3>2
    <2> HIDE DEF last
    <2>5. h \in [0 .. l -> Seq(Nat)]
        BY <2>2, <2>3, <2>4
    <2>6. \A n \in 0 .. k : h[n] = g[n]
        BY <2>3
    <2>7. h[l] = last
        BY <2>3
    <2> HIDE DEF h
    <2>8. ASSUME NEW n \in 0 .. l
          PROVE  h[n] = IF n < 10 THEN <<n>> ELSE Append(h[n \div 10], n % 10)
        <3>1. CASE n < 10
            BY <2>2, <2>3, <2>6, <2>7, <3>1 DEF last
        <3>2. CASE ~(n < 10)
            <4>1. n \div 10 \in 0 .. k
                BY <2>3, <3>2, Tenth
            <4> QED BY <2>2, <2>3, <2>6, <2>7, <3>2, <4>1 DEF last
        <3> QED BY <3>1, <3>2
    <2>9. h \in DigitsUpTo(l)
        BY <2>5, <2>8 DEF DigitsUpTo
    <2> QED BY <2>3, <2>9
<1>3. Nat \subseteq S
    <2> HIDE DEF S
    <2> QED BY <1>1, <1>2, Induction
<1> QED BY <1>3

LEMMA DigitsUpToAgree ==
    ASSUME NEW m \in Nat, NEW k \in Nat, k <= m, NEW g \in DigitsUpTo(m), NEW h \in DigitsUpTo(k)
    PROVE  \A n \in 0 .. k : g[n] = h[n]
<1> DEFINE S == {n \in Nat : n \in 0 .. k => g[n] = h[n]}
<1>1. /\ \A n \in 0 .. m : g[n] = IF n < 10 THEN <<n>> ELSE Append(g[n \div 10], n % 10)
      /\ \A n \in 0 .. k : h[n] = IF n < 10 THEN <<n>> ELSE Append(h[n \div 10], n % 10)
    BY DEF DigitsUpTo
<1>2. ASSUME NEW n \in Nat, \A i \in Nat : i < n => i \in S PROVE n \in S
    <2> SUFFICES ASSUME n \in 0 .. k PROVE g[n] = h[n]
        OBVIOUS
    <2>1. n \in 0 .. m
        OBVIOUS
    <2>2. CASE n < 10
        <3>1. g[n] = <<n>>
            BY <1>1, <2>1, <2>2, Zenon
        <3>2. h[n] = <<n>>
            BY <1>1, <2>2, Zenon
        <3> QED BY <3>1, <3>2
    <2>3. CASE ~(n < 10)
        <3>1. n \div 10 \in Nat /\ n \div 10 < n /\ n \div 10 \in 0 .. k
            BY <2>3, Tenth
        <3>2. g[n \div 10] = h[n \div 10]
            BY <1>2, <3>1
        <3> QED BY <1>1, <2>1, <2>3, <3>2
    <2> QED BY <2>2, <2>3
<1>3. Nat \subseteq S
    <2> HIDE DEF S
    <2> QED BY <1>2, StrongInduction
<1> QED BY <1>3

LEMMA DigitsAre ==
    Digits = [n \in Nat |-> IF n < 10 THEN <<n>> ELSE Append(Digits[n \div 10], n % 10)]
<1> DEFINE P(v) == v = [n \in Nat |-> IF n < 10 THEN <<n>> ELSE Append(v[n \div 10], n % 10)]
           G(n) == CHOOSE g : g \in DigitsUpTo(n)
           d == [n \in Nat |-> G(n)[n]]
<1>1. \A n \in Nat : G(n) \in DigitsUpTo(n)
    BY DigitsUpToExists, Zenon
<1> HIDE DEF G
<1>2. \A n \in Nat : d[n] = G(n)[n]
    OBVIOUS
<1>3. ASSUME NEW n \in Nat
      PROVE  d[n] = IF n < 10 THEN <<n>> ELSE Append(d[n \div 10], n % 10)
    <2>1. \A i \in 0 .. n :
              G(n)[i] = IF i < 10 THEN <<i>> ELSE Append(G(n)[i \div 10], i % 10)
        BY <1>1 DEF DigitsUpTo
    <2>2. n \in 0 .. n
        OBVIOUS
    <2>3. CASE n < 10
        BY <1>2, <2>1, <2>2, <2>3
    <2>4. CASE ~(n < 10)
        <3>1. n \div 10 \in Nat /\ n \div 10 <= n /\ n \div 10 \in 0 .. n \div 10
            BY <2>4, Tenth
        <3>2. G(n)[n \div 10] = G(n \div 10)[n \div 10]
            BY <1>1, <3>1, DigitsUpToAgree
        <3>3. G(n)[n] = Append(G(n)[n \div 10], n % 10)
            BY <2>1, <2>2, <2>4
        <3>4. d[n] = G(n)[n] /\ d[n \div 10] = G(n \div 10)[n \div 10]
            BY <1>2, <3>1
        <3> QED BY <2>4, <3>2, <3>3, <3>4
    <2> QED BY <2>3, <2>4
<1>4. P(d)
    <2> DEFINE e == [n \in Nat |-> IF n < 10 THEN <<n>> ELSE Append(d[n \div 10], n % 10)]
    <2>1. \A n \in Nat : d[n] = e[n]
        BY <1>3
    <2>2. d = [n \in Nat |-> d[n]] /\ e = [n \in Nat |-> e[n]]
        OBVIOUS
    <2> HIDE DEF d, e
    <2>3. d = e
        BY <2>1, <2>2
    <2> QED BY <2>3 DEF e
<1>5. \E v : P(v)
    BY <1>4
<1>6. P(CHOOSE v : P(v))
    BY <1>5, Zenon
<1>7. Digits = (CHOOSE v : P(v))
    BY DEF Digits
<1> QED BY <1>6, <1>7, Zenon

LEMMA DigitsEqual ==
    ASSUME NEW n \in Nat
    PROVE  Digits[n] = IF n < 10 THEN <<n>> ELSE Append(Digits[n \div 10], n % 10)
BY DigitsAre

\* Number, by the values of the first so many digits.
Value(ds, v) ==
    /\ v \in [0 .. Len(ds) -> Nat] /\ v[0] = 0
    /\ \A n \in 1 .. Len(ds) : v[n] = 10 * v[n - 1] + ds[n]

LEMMA NumberIs ==
    ASSUME NEW ds \in Seq(Nat)
    PROVE  \E v : Value(ds, v) /\ Number(ds) = v[Len(ds)]
<1> DEFINE l == Len(ds)
           P(v) == v = [n \in 0 .. l |-> IF n = 0 THEN 0 ELSE 10 * v[n - 1] + ds[n]]
           Q(m) == \E g \in [0 .. m -> Nat] :
                       g[0] = 0 /\ \A n \in 1 .. m : g[n] = 10 * g[n - 1] + ds[n]
           S == {m \in Nat : m <= l => Q(m)}
<1>1. l \in Nat /\ \A n \in 1 .. l : ds[n] \in Nat
    OBVIOUS
<1>2. Number(ds) = (CHOOSE v : P(v))[l]
    BY DEF Number
<1> HIDE DEF l
<1>3. 0 \in S
    <2> DEFINE z == [n \in 0 .. 0 |-> 0]
    <2>1. z \in [0 .. 0 -> Nat] /\ z[0] = 0 /\ 1 .. 0 = {}
        OBVIOUS
    <2> HIDE DEF z
    <2>2. Q(0)
        BY <2>1
    <2> QED BY <2>2
<1>4. ASSUME NEW m \in Nat, m \in S PROVE m + 1 \in S
    <2> SUFFICES ASSUME m + 1 <= l PROVE Q(m + 1)
        <3> HIDE DEF Q
        <3> QED OBVIOUS
    <2>1. PICK g \in [0 .. m -> Nat] :
              g[0] = 0 /\ \A n \in 1 .. m : g[n] = 10 * g[n - 1] + ds[n]
        BY <1>1, <1>4
    <2> DEFINE last == 10 * g[m] + ds[m + 1]
               h == [n \in 0 .. m + 1 |-> IF n = m + 1 THEN last ELSE g[n]]
    <2>2. last \in Nat
        <3>1. g[m] \in Nat /\ m + 1 \in 1 .. l
            BY <1>1
        <3> QED BY <1>1, <3>1
    <2>3. last = 10 * g[m] + ds[m + 1]
        OBVIOUS
    <2> HIDE DEF last
    <2>4. h \in [0 .. m + 1 -> Nat]
        BY <2>2
    <2>5. h[m + 1] = last /\ \A n \in 0 .. m : h[n] = g[n]
        OBVIOUS
    <2> HIDE DEF h
    <2>6. h[0] = 0
        BY <2>1, <2>5
    <2>7. ASSUME NEW n \in 1 .. m + 1 PROVE h[n] = 10 * h[n - 1] + ds[n]
        <3>1. CASE n = m + 1
            <4>1. n - 1 = m /\ m \in 0 .. m
                BY <3>1
            <4> QED BY <2>3, <2>5, <3>1, <4>1
        <3>2. CASE n # m + 1
            <4>1. n \in 1 .. m /\ n \in 0 .. m /\ n - 1 \in 0 .. m
                BY <3>2
            <4> QED BY <2>1, <2>5, <4>1
        <3> QED BY <3>1, <3>2
    <2> QED BY <2>4, <2>6, <2>7
<1>5. l \in S
    <2>1. Nat \subseteq S
        <3> HIDE DEF S
        <3> QED BY <1>3, <1>4, Induction
    <2> QED BY <1>1, <2>1
<1>6. PICK g \in [0 .. l -> Nat] :
          g[0] = 0 /\ \A n \in 1 .. l : g[n] = 10 * g[n - 1] + ds[n]
    BY <1>1, <1>5
<1>7. P(g)
    <2> DEFINE e == [n \in 0 .. l |-> IF n = 0 THEN 0 ELSE 10 * g[n - 1] + ds[n]]
    <2>1. ASSUME NEW n \in 0 .. l PROVE g[n] = e[n]
        <3>1. n = 0 \/ n \in 1 .. l
            BY <1>1
        <3> QED BY <1>6, <3>1
    <2>2. g = [n \in 0 .. l |-> g[n]] /\ e = [n \in 0 .. l |-> e[n]]
        OBVIOUS
    <2> HIDE DEF e
    <2>3. g = e
        BY <2>1, <2>2
    <2> QED BY <2>3 DEF e
<1>8. PICK v : P(v) /\ Number(ds) = v[l]
    <2>1. \E v : P(v)
        BY <1>7
    <2>2. P(CHOOSE v : P(v))
        BY <2>1, Zenon
    <2> HIDE DEF P
    <2> QED BY <1>2, <2>2, Zenon
<1>9. v[0] = 0 /\ \A n \in 1 .. l : v[n] = 10 * v[n - 1] + ds[n]
    <2>1. \A n \in 0 .. l : v[n] = IF n = 0 THEN 0 ELSE 10 * v[n - 1] + ds[n]
        BY <1>8, Zenon
    <2>2. 0 \in 0 .. l /\ \A n \in 1 .. l : n \in 0 .. l /\ n # 0
        BY <1>1
    <2> QED BY <2>1, <2>2, Zenon
<1>10. \A n \in 0 .. l : v[n] \in Nat
    <2> DEFINE T == {n \in Nat : n <= l => v[n] \in Nat}
    <2>1. 0 \in T
        BY <1>9
    <2>2. ASSUME NEW n \in Nat, n \in T PROVE n + 1 \in T
        <3> SUFFICES ASSUME n + 1 <= l PROVE v[n + 1] \in Nat
            OBVIOUS
        <3>1. n + 1 \in 1 .. l /\ (n + 1) - 1 = n /\ n <= l
            BY <1>1
        <3>2. v[n] \in Nat /\ ds[n + 1] \in Nat
            BY <1>1, <2>2, <3>1
        <3>3. v[n + 1] = 10 * v[n] + ds[n + 1]
            BY <1>9, <3>1
        <3> QED BY <3>2, <3>3
    <2>3. Nat \subseteq T
        <3> HIDE DEF T
        <3> QED BY <2>1, <2>2, Induction
    <2> QED BY <1>1, <2>3
<1>11. v = [n \in 0 .. l |-> v[n]]
    BY <1>8
<1>12. v \in [0 .. l -> Nat]
    BY <1>10, <1>11
<1> QED BY <1>8, <1>9, <1>12 DEF Value, l

LEMMA NumberType ==
    ASSUME NEW ds \in Seq(Nat)
    PROVE  Number(ds) \in Nat
<1>1. PICK v : Value(ds, v) /\ Number(ds) = v[Len(ds)]
    BY NumberIs
<1>2. Len(ds) \in 0 .. Len(ds)
    OBVIOUS
<1> QED BY <1>1, <1>2 DEF Value

\* One digit more.
LEMMA NumberAppend ==
    ASSUME NEW ds \in Seq(Nat), NEW d \in Nat
    PROVE  Number(Append(ds, d)) = 10 * Number(ds) + d
<1> DEFINE e == Append(ds, d)
           l == Len(ds)
<1>1. /\ e \in Seq(Nat) /\ l \in Nat /\ Len(e) = l + 1 /\ e[l + 1] = d
      /\ \A n \in 1 .. l : e[n] = ds[n]
    OBVIOUS
<1>2. PICK v : Value(ds, v) /\ Number(ds) = v[l]
    BY NumberIs
<1> HIDE DEF e
<1>3. PICK w : Value(e, w) /\ Number(e) = w[l + 1]
    BY <1>1, NumberIs
<1>4. v[0] = 0 /\ \A n \in 1 .. l : v[n] = 10 * v[n - 1] + ds[n]
    BY <1>2 DEF Value
<1>5. w[0] = 0 /\ \A n \in 1 .. l + 1 : w[n] = 10 * w[n - 1] + e[n]
    BY <1>1, <1>3 DEF Value
<1> HIDE DEF l
<1> DEFINE S == {n \in Nat : n <= l => v[n] = w[n]}
<1>6. 0 \in S
    BY <1>4, <1>5
<1>7. ASSUME NEW n \in Nat, n \in S PROVE n + 1 \in S
    <2> SUFFICES ASSUME n + 1 <= l PROVE v[n + 1] = w[n + 1]
        OBVIOUS
    <2>1. n + 1 \in 1 .. l /\ n + 1 \in 1 .. l + 1 /\ (n + 1) - 1 = n /\ n <= l
        BY <1>1
    <2>2. v[n] = w[n] /\ e[n + 1] = ds[n + 1]
        BY <1>1, <1>7, <2>1
    <2>3. v[n + 1] = 10 * v[n] + ds[n + 1] /\ w[n + 1] = 10 * w[n] + e[n + 1]
        BY <1>4, <1>5, <2>1
    <2> QED BY <2>2, <2>3
<1>8. Nat \subseteq S
    <2> HIDE DEF S
    <2> QED BY <1>6, <1>7, Induction
<1>9. v[l] = w[l]
    BY <1>1, <1>8
<1>10. w[l + 1] = 10 * w[l] + d
    <2>1. l + 1 \in 1 .. l + 1 /\ (l + 1) - 1 = l
        BY <1>1
    <2> QED BY <1>1, <1>5, <2>1
<1> QED BY <1>2, <1>3, <1>9, <1>10 DEF e

LEMMA NumberOfOne ==
    ASSUME NEW d \in Nat
    PROVE  Number(<<d>>) = d
<1>1. Append(<<>>, d) = <<d>> /\ <<>> \in Seq(Nat)
    OBVIOUS
<1>2. Number(<<>>) = 0
    <2> DEFINE e == <<>>
    <2>1. e \in Seq(Nat) /\ Len(e) = 0
        OBVIOUS
    <2> HIDE DEF e
    <2>2. PICK v : Value(e, v) /\ Number(e) = v[Len(e)]
        BY <2>1, NumberIs
    <2> QED BY <2>1, <2>2 DEF Value, e
<1>3. Number(Append(<<>>, d)) = 10 * Number(<<>>) + d
    BY <1>1, NumberAppend
<1> QED BY <1>1, <1>2, <1>3

\* The digits of a number are digits, and they stand for it.
LEMMA DigitsRead ==
    ASSUME NEW m \in Nat
    PROVE  /\ Digits[m] \in Seq(0 .. 9) /\ Len(Digits[m]) >= 1
           /\ Number(Digits[m]) = m
<1> DEFINE S == {n \in Nat : /\ Digits[n] \in Seq(0 .. 9) /\ Len(Digits[n]) >= 1
                             /\ Number(Digits[n]) = n}
<1>1. ASSUME NEW n \in Nat, \A i \in Nat : i < n => i \in S PROVE n \in S
    <2>1. CASE n < 10
        <3>1. Digits[n] = <<n>>
            BY <2>1, DigitsEqual
        <3>2. Number(<<n>>) = n
            BY NumberOfOne
        <3>3. <<n>> \in Seq(0 .. 9) /\ Len(<<n>>) = 1
            BY <2>1
        <3>4. /\ Digits[n] \in Seq(0 .. 9) /\ Len(Digits[n]) >= 1
              /\ Number(Digits[n]) = n
            BY <3>1, <3>2, <3>3
        <3> QED BY <3>4, Zenon
    <2>2. CASE ~(n < 10)
        <3> DEFINE k == n \div 10
                   d == n % 10
                   ds == Digits[k]
        <3>1. k \in Nat /\ k < n /\ d \in 0 .. 9 /\ n = 10 * k + d
            BY <2>2, Tenth
        <3>2. Digits[n] = Append(ds, d)
            BY <2>2, DigitsEqual
        <3>3. ds \in Seq(0 .. 9) /\ Len(ds) >= 1 /\ Number(ds) = k
            BY <1>1, <3>1
        <3> HIDE DEF k, d, ds
        <3>4. Append(ds, d) \in Seq(0 .. 9) /\ Len(Append(ds, d)) >= 1
            BY <3>1, <3>3
        <3>5. ds \in Seq(Nat) /\ d \in Nat
            BY <3>1, <3>3
        <3>6. Number(Append(ds, d)) = n
            BY <3>1, <3>3, <3>5, NumberAppend
        <3>7. /\ Digits[n] \in Seq(0 .. 9) /\ Len(Digits[n]) >= 1
              /\ Number(Digits[n]) = n
            BY <3>2, <3>4, <3>6
        <3> QED BY <3>7, Zenon
    <2> QED BY <2>1, <2>2
<1>2. Nat \subseteq S
    <2> HIDE DEF S
    <2> QED BY <1>1, StrongInduction
<1> QED BY <1>2

Symbols == 0 .. Space

\* The horizontal angle, one space, the vertical angle.
LEMMA TextIs ==
    ASSUME NEW a \in [Channels -> Nat]
    PROVE  LET x == Digits[a[Horizontal]]
               y == Digits[a[Vertical]]
               text == TextOf(a)
           IN  /\ text \in Seq(Symbols) /\ Len(text) = Len(x) + 1 + Len(y)
               /\ \A j \in 1 .. Len(text) : text[j] = Space <=> j = Len(x) + 1
               /\ SubSeq(text, 1, Len(x)) = x
               /\ SubSeq(text, Len(x) + 2, Len(text)) = y
<1> DEFINE x == Digits[a[Horizontal]]
           y == Digits[a[Vertical]]
           h == x \o <<Space>>
           text == h \o y
           k == Len(x)
           l == Len(y)
<1>1. a[Horizontal] \in Nat /\ a[Vertical] \in Nat
    BY DEF Channels
<1>2. /\ x \in Seq(0 .. 9) /\ Len(x) >= 1
      /\ y \in Seq(0 .. 9) /\ Len(y) >= 1
    BY <1>1, DigitsRead
<1>3. TextOf(a) = text
    BY DEF TextOf
<1> HIDE DEF x, y
<1>4. /\ k \in Nat /\ k >= 1 /\ l \in Nat /\ l >= 1
      /\ \A i \in 1 .. k : x[i] \in 0 .. 9
      /\ \A i \in 1 .. l : y[i] \in 0 .. 9
    BY <1>2
<1>5. x \in Seq(Symbols) /\ y \in Seq(Symbols) /\ <<Space>> \in Seq(Symbols) /\ Len(<<Space>>) = 1
    BY <1>2 DEF Symbols, Space
<1>6. /\ h \in Seq(Symbols) /\ Len(h) = k + 1 /\ h[k + 1] = Space
      /\ \A i \in 1 .. k : h[i] = x[i]
    <2>1. /\ h \in Seq(Symbols) /\ Len(h) = k + 1
          /\ \A i \in 1 .. k + 1 : h[i] = IF i <= k THEN x[i] ELSE <<Space>>[i - k]
        BY <1>5, ConcatProperties
    <2> HIDE DEF h, k
    <2>2. k + 1 \in 1 .. k + 1 /\ ~(k + 1 <= k) /\ (k + 1) - k = 1
        BY <1>4
    <2>3. \A i \in 1 .. k : i \in 1 .. k + 1 /\ i <= k
        BY <1>4
    <2> QED BY <2>1, <2>2, <2>3
<1> HIDE DEF h
<1>7. /\ text \in Seq(Symbols) /\ Len(text) = k + 1 + l
      /\ \A i \in 1 .. k + 1 + l : text[i] = IF i <= k + 1 THEN h[i] ELSE y[i - (k + 1)]
    <2>1. /\ text \in Seq(Symbols) /\ Len(text) = Len(h) + Len(y)
          /\ \A i \in 1 .. Len(h) + Len(y) :
                text[i] = IF i <= Len(h) THEN h[i] ELSE y[i - Len(h)]
        BY <1>5, <1>6, ConcatProperties
    <2>2. Len(h) = k + 1 /\ Len(y) = l
        BY <1>6
    <2> HIDE DEF text, k, l
    <2> QED BY <2>1, <2>2
<1>8. SubSeq(text, 1, k) = x
    <2>1. SubSeq(text, 1, k) = SubSeq(h, 1, k)
        <3>1. 1 \in 1 .. Len(h) /\ k \in 1 .. Len(h)
            BY <1>4, <1>6
        <3> QED BY <1>5, <1>6, <3>1, SubSeqOfConcat1
    <2>2. SubSeq(h, 1, k) = SubSeq(x, 1, k)
        <3>1. 1 \in 1 .. Len(x) /\ k \in 1 .. Len(x)
            BY <1>4
        <3> QED BY <1>5, <3>1, SubSeqOfConcat1 DEF h
    <2>3. SubSeq(x, 1, k) = x
        BY <1>5, SubSeqFull
    <2> QED BY <2>1, <2>2, <2>3
<1>9. SubSeq(text, k + 2, k + 1 + l) = y
    <2>1. /\ k + 2 \in Len(h) + 1 .. Len(h) + Len(y)
          /\ k + 1 + l \in Len(h) + 1 .. Len(h) + Len(y)
          /\ (k + 2) - Len(h) = 1 /\ (k + 1 + l) - Len(h) = Len(y)
        BY <1>4, <1>6
    <2>2. SubSeq(text, k + 2, k + 1 + l) = SubSeq(y, (k + 2) - Len(h), (k + 1 + l) - Len(h))
        BY <1>5, <1>6, <2>1, SubSeqOfConcat2
    <2>3. SubSeq(y, 1, Len(y)) = y
        BY <1>5, SubSeqFull
    <2> QED BY <2>1, <2>2, <2>3
<1> HIDE DEF text, k, l
<1>10. ASSUME NEW j \in 1 .. k + 1 + l PROVE text[j] = Space <=> j = k + 1
    <2>1. CASE j <= k
        <3>1. j \in 1 .. k /\ j # k + 1 /\ j <= k + 1
            BY <1>4, <2>1
        <3>2. text[j] = x[j] /\ x[j] \in 0 .. 9
            BY <1>4, <1>6, <1>7, <3>1
        <3> QED BY <3>1, <3>2 DEF Space
    <2>2. CASE j = k + 1
        <3>1. j <= k + 1
            BY <1>4, <2>2
        <3> QED BY <1>6, <1>7, <2>2, <3>1
    <2>3. CASE j > k + 1
        <3>1. j - (k + 1) \in 1 .. l /\ ~(j <= k + 1) /\ j # k + 1
            BY <1>4, <2>3
        <3>2. text[j] = y[j - (k + 1)] /\ y[j - (k + 1)] \in 0 .. 9
            BY <1>4, <1>7, <3>1
        <3> QED BY <3>1, <3>2 DEF Space
    <2> QED BY <1>4, <2>1, <2>2, <2>3
<1>11. /\ text \in Seq(Symbols) /\ Len(text) = Len(x) + 1 + Len(y)
       /\ \A j \in 1 .. Len(text) : text[j] = Space <=> j = Len(x) + 1
       /\ SubSeq(text, 1, Len(x)) = x /\ SubSeq(text, Len(x) + 2, Len(text)) = y
    BY <1>7, <1>8, <1>9, <1>10 DEF k, l
<1> QED BY <1>3, <1>11, Zenon DEF x, y

\* For all angles, however many digits they have: what persistServoState writes
\* is read back by the next start as the same angles, unless something else is
\* written in between.
THEOREM SavedIsRead ==
    \A a \in [Channels -> Nat] : Loads(TextOf(a)) /\ AnglesOf(TextOf(a)) = a
<1> SUFFICES ASSUME NEW a \in [Channels -> Nat]
             PROVE  Loads(TextOf(a)) /\ AnglesOf(TextOf(a)) = a
    OBVIOUS
<1> DEFINE x == Digits[a[Horizontal]]
           y == Digits[a[Vertical]]
           text == TextOf(a)
           k == Len(x)
           l == Len(y)
           n == Len(text)
<1>1. a[Horizontal] \in Nat /\ a[Vertical] \in Nat
    BY DEF Channels
<1>2. /\ x \in Seq(0 .. 9) /\ k >= 1 /\ Number(x) = a[Horizontal]
      /\ y \in Seq(0 .. 9) /\ l >= 1 /\ Number(y) = a[Vertical]
    BY <1>1, DigitsRead
<1>3. /\ n = k + 1 + l
      /\ \A j \in 1 .. n : text[j] = Space <=> j = k + 1
      /\ SubSeq(text, 1, k) = x /\ SubSeq(text, k + 2, n) = y
    BY TextIs
<1> HIDE DEF x, y, text
<1>4. k \in Nat /\ l \in Nat
    BY <1>2
<1> HIDE DEF k, l, n
<1>5. k + 1 \in 2 .. n - 1 /\ k + 1 \in 1 .. n /\ (k + 1) + 1 = k + 2 /\ (k + 1) - 1 = k
    BY <1>2, <1>3, <1>4
<1>6. Loads(text)
    BY <1>3, <1>5 DEF Loads, n
<1>7. (CHOOSE i \in 1 .. Len(text) : text[i] = Space) = k + 1
    BY <1>3, <1>5 DEF n
<1>8. AnglesOf(text) = Pair(Number(SubSeq(text, k + 2, n)), Number(SubSeq(text, 1, k)))
    BY <1>5, <1>7 DEF AnglesOf, n
<1>9. AnglesOf(text) = Pair(a[Vertical], a[Horizontal])
    BY <1>2, <1>3, <1>8
<1>10. Pair(a[Vertical], a[Horizontal]) = a
    BY DEF Pair, Channels
<1> QED BY <1>6, <1>9, <1>10 DEF text

----------------------------------------------------------------------------
(* TypeOK, with restarts. A start takes whatever two numbers the file holds *)
(* for angles, so the limits do not bound them, nor what a sweep goes       *)
(* through: its pulses are bounded because the sweep leaves out those that  *)
(* Writable refuses, and manual steps because they are clamped.             *)

Clamped == 560 .. 1040

JobOK(t) ==
    /\ job[t].text \in Seq(Symbols)
    /\ pc[t] = "sweep" => /\ job[t].from \in [Channels -> Nat]
                          /\ job[t].to \in [Channels -> Nat]
                          /\ job[t].at \in Int
    /\ t = "ctl" /\ pc[t] \in {"aim", "move"} => job[t].at \in Clamped

TypeInv ==
    /\ pc \in [Movers -> Places]
    /\ enabled \in BOOLEAN /\ fresh \in BOOLEAN
    /\ angle \in [Channels -> Nat] /\ pulse \in [Channels -> Pulses]
    /\ file \in Seq(Symbols)
    /\ moves \in 0 .. MaxMoves /\ crashes \in 0 .. MaxCrashes
    /\ JobTypes
    /\ \A t \in Movers : JobOK(t)

LEMMA PulseIsInt ==
    ASSUME NEW a \in [Channels -> Nat], NEW c \in Channels
    PROVE  PulseOf(a[c]) \in Int
<1>1. a[c] \in Nat
    OBVIOUS
<1> QED BY <1>1 DEF PulseOf

LEMMA WritableIs ==
    ASSUME NEW p \in Int, Writable(p)
    PROVE  p \in Pulses
<1>1. p > 500 /\ p < 2500
    BY DEF Writable
<1> QED BY <1>1 DEF Pulses

LEMMA AngleIsInt ==
    ASSUME NEW p \in Clamped
    PROVE  AngleOf(p) \in Int
<1>1. p \in Int
    BY DEF Clamped
<1> DEFINE q == 9 * (p - 501)
<1>2. q \in Int /\ -q \in Int
    BY <1>1
<1> HIDE DEF q
<1>3. TruncDiv(q, 100) \in Int
    BY <1>2 DEF TruncDiv
<1> QED BY <1>3 DEF AngleOf, q

LEMMA BaseTypes ==
    /\ Base \in [Channels -> Nat]
    /\ [c \in Channels |-> PulseOf(Base[c])] \in [Channels -> Pulses]
<1>1. Base \in [Channels -> Nat] /\ \A c \in Channels : Base[c] \in {BaseX, BaseY}
    BY DEF Base, Pair, BaseX, BaseY
<1>2. ASSUME NEW c \in Channels PROVE PulseOf(Base[c]) \in Pulses
    <2>1. Base[c] = BaseX \/ Base[c] = BaseY
        BY <1>1
    <2>2. CASE Base[c] = BaseX
        BY <2>2 DEF PulseOf, BaseX, Pulses
    <2>3. CASE Base[c] = BaseY
        BY <2>3 DEF PulseOf, BaseY, Pulses
    <2> QED BY <2>1, <2>2, <2>3
<1> QED BY <1>1, <1>2

\* Two numbers, whatever else the file may be.
LEMMA ReadAngles ==
    ASSUME NEW text \in Seq(Symbols), Loads(text)
    PROVE  AnglesOf(text) \in [Channels -> Nat]
<1> DEFINE n == Len(text)
<1>1. n \in Nat /\ \A j \in 1 .. n : text[j] \in Nat
    BY DEF Symbols, Space
<1>2. PICK i \in 2 .. n - 1 : \A j \in 1 .. n : text[j] = Space <=> j = i
    BY DEF Loads
<1> HIDE DEF n
<1>3. i \in 1 .. n /\ text[i] = Space
    BY <1>1, <1>2
<1>4. PICK k \in 1 .. n : k = CHOOSE m \in 1 .. Len(text) : text[m] = Space
    BY <1>3 DEF n
<1>5. SubSeq(text, k + 1, n) \in Seq(Nat) /\ SubSeq(text, 1, k - 1) \in Seq(Nat)
    <2>1. /\ k + 1 \in Int /\ k - 1 \in Int /\ 1 \in Int /\ n \in Int
          /\ \A j \in k + 1 .. n : j \in 1 .. n
          /\ \A j \in 1 .. k - 1 : j \in 1 .. n
        BY <1>1
    <2>2. (\A j \in k + 1 .. n : text[j] \in Nat) /\ (\A j \in 1 .. k - 1 : text[j] \in Nat)
        BY <1>1, <2>1
    <2>3. SubSeq(text, k + 1, n) \in Seq(Nat)
        BY <2>1, <2>2, SubSeqProperties
    <2>4. SubSeq(text, 1, k - 1) \in Seq(Nat)
        BY <2>1, <2>2, SubSeqProperties
    <2> QED BY <2>3, <2>4
<1> DEFINE y == Number(SubSeq(text, k + 1, n))
           x == Number(SubSeq(text, 1, k - 1))
<1>6. x \in Nat /\ y \in Nat
    BY <1>5, NumberType
<1>7. AnglesOf(text) = Pair(y, x)
    BY <1>4 DEF AnglesOf, n
<1> HIDE DEF x, y
<1> QED BY <1>6, <1>7 DEF Pair

LEMMA OverwriteType ==
    ASSUME NEW S, NEW old \in Seq(S), NEW new \in Seq(S)
    PROVE  Overwrite(old, new) \in Seq(S)
<1> DEFINE m == Len(new)
           n == Len(old)
<1>1. m \in Nat /\ n \in Nat /\ \A j \in 1 .. n : old[j] \in S
    OBVIOUS
<1> HIDE DEF m, n
<1>2. SubSeq(old, m + 1, n) \in Seq(S)
    <2>1. m + 1 \in Int /\ n \in Int /\ \A j \in m + 1 .. n : j \in 1 .. n
        BY <1>1
    <2>2. \A j \in m + 1 .. n : old[j] \in S
        BY <1>1, <2>1
    <2> QED BY <2>1, <2>2, SubSeqProperties
<1>3. new \o SubSeq(old, m + 1, n) \in Seq(S)
    BY <1>2, ConcatProperties
<1> QED BY <1>3 DEF Overwrite, m, n

LEMMA InitTypes == Init => TypeInv
<1> SUFFICES ASSUME Init PROVE TypeInv
    OBVIOUS
<1>1. angle \in [Channels -> Nat]
    <2>1. PICK s \in Saved : angle = Pair(s[2], s[1])
        BY DEF Init
    <2>2. s[1] \in Nat /\ s[2] \in Nat
        BY SavedAssumption DEF XRange, YRange, StartX, LimitX, StartY, LimitY
    <2> QED BY <2>1, <2>2 DEF Pair
<1>2. file \in Seq(Symbols)
    BY <1>1, TextIs DEF Init
<1>4. pulse \in [Channels -> Pulses]
    BY BaseTypes DEF Init
<1>5. JobTypes
    BY DEF Init, JobTypes, NoJob, Channels
<1>6. \A t \in Movers : JobOK(t)
    <2> SUFFICES ASSUME NEW t \in Movers PROVE JobOK(t)
        OBVIOUS
    <2>1. job[t].text = <<>> /\ pc[t] \in {"boot", "idle"}
        BY DEF Init, NoJob
    <2>2. job[t].text \in Seq(Symbols)
        BY <2>1
    <2> QED BY <2>1, <2>2 DEF JobOK
<1>7. pc \in [Movers -> Places] /\ enabled \in BOOLEAN /\ fresh \in BOOLEAN
    BY DEF Init, Places
<1>8. moves \in 0 .. MaxMoves /\ crashes \in 0 .. MaxCrashes
    BY MotionBoundsAssumption DEF Init
<1> QED BY <1>1, <1>2, <1>4, <1>5, <1>6, <1>7, <1>8 DEF TypeInv

\* What one mover does to its own place and job leaves those of the others alone.
LEMMA OthersOK ==
    ASSUME TypeInv, NEW t \in Movers, NEW place, NEW j,
           pc' = [pc EXCEPT ![t] = place], job' = [job EXCEPT ![t] = j],
           place \in Places,
           DOMAIN j = {"to", "from", "channel", "at", "text"}, j.channel \in Channels,
           j.text \in Seq(Symbols),
           place = "sweep" => /\ j.from \in [Channels -> Nat] /\ j.to \in [Channels -> Nat]
                              /\ j.at \in Int,
           t = "ctl" /\ place \in {"aim", "move"} => j.at \in Clamped
    PROVE  /\ pc' \in [Movers -> Places]
           /\ JobTypes'
           /\ \A u \in Movers : JobOK(u)'
<1>1. DOMAIN pc = Movers /\ DOMAIN job = Movers
    BY DEF TypeInv, JobTypes
<1>2. /\ pc'[t] = place /\ job'[t] = j /\ DOMAIN pc' = Movers /\ DOMAIN job' = Movers
      /\ \A u \in Movers \ {t} : pc'[u] = pc[u] /\ job'[u] = job[u]
    BY <1>1
<1>3. pc' \in [Movers -> Places]
    BY DEF TypeInv
<1>4. ASSUME NEW u \in Movers PROVE JobOK(u)'
    <2>1. CASE u = t
        <3>1. pc'[u] = place /\ job'[u] = j
            BY <1>2, <2>1
        <3> QED BY <2>1, <3>1 DEF JobOK
    <2>2. CASE u # t
        <3>1. JobOK(u)
            BY DEF TypeInv
        <3>2. pc'[u] = pc[u] /\ job'[u] = job[u]
            BY <1>2, <2>2
        <3> QED BY <3>1, <3>2 DEF JobOK
    <2> QED BY <2>1, <2>2
<1>5. JobTypes'
    <2>1. ASSUME NEW u \in Movers
          PROVE  DOMAIN job'[u] = {"to", "from", "channel", "at", "text"}
                 /\ job'[u].channel \in Channels
        <3>1. CASE u = t
            BY <1>2, <3>1
        <3>2. CASE u # t
            BY <1>2, <3>2 DEF TypeInv, JobTypes
        <3> QED BY <3>1, <3>2
    <2> QED BY <1>2, <2>1 DEF JobTypes
<1> QED BY <1>3, <1>4, <1>5

LEMMA JobIs ==
    ASSUME TypeInv, NEW t \in Movers
    PROVE  /\ DOMAIN job[t] = {"to", "from", "channel", "at", "text"}
           /\ job[t].channel \in Channels /\ job[t].text \in Seq(Symbols)
           /\ pc[t] \in Places
           /\ pc[t] = "sweep" => /\ job[t].from \in [Channels -> Nat]
                                 /\ job[t].to \in [Channels -> Nat] /\ job[t].at \in Int
           /\ t = "ctl" /\ pc[t] \in {"aim", "move"} => job[t].at \in Clamped
           /\ pc = [pc EXCEPT ![t] = pc[t]]
<1>1. JobOK(t) /\ JobTypes /\ pc[t] \in Places
    BY DEF TypeInv
<1>2. pc = [pc EXCEPT ![t] = pc[t]]
    BY DEF TypeInv
<1> QED BY <1>1, <1>2 DEF JobOK, JobTypes

LEMMA PlaceOK ==
    ASSUME TypeInv, NEW t \in Movers, NEW place \in Places, place # "sweep",
           pc' = [pc EXCEPT ![t] = place], job' = job,
           t = "ctl" /\ place \in {"aim", "move"} => job[t].at \in Clamped
    PROVE  /\ pc' \in [Movers -> Places]
           /\ JobTypes'
           /\ \A u \in Movers : JobOK(u)'
<1>1. /\ DOMAIN pc = Movers /\ pc'[t] = place /\ DOMAIN pc' = Movers
      /\ \A u \in Movers \ {t} : pc'[u] = pc[u]
    BY DEF TypeInv, JobTypes
<1>2. pc' \in [Movers -> Places]
    BY DEF TypeInv
<1>3. ASSUME NEW u \in Movers PROVE JobOK(u)'
    <2>1. JobOK(u)
        BY DEF TypeInv
    <2>2. CASE u = t
        BY <1>1, <2>1, <2>2 DEF JobOK
    <2>3. CASE u # t
        <3>1. pc'[u] = pc[u]
            BY <1>1, <2>3
        <3> QED BY <2>1, <3>1 DEF JobOK
    <2> QED BY <2>2, <2>3
<1>4. JobTypes'
    BY <1>1 DEF TypeInv, JobTypes
<1> QED BY <1>2, <1>3, <1>4

LEMMA NoJobIs ==
    /\ DOMAIN NoJob = {"to", "from", "channel", "at", "text"}
    /\ NoJob.channel \in Channels /\ NoJob.text = <<>> /\ NoJob.text \in Seq(Symbols)
BY DEF NoJob, Channels

LEMMA RotateTypes ==
    ASSUME TypeInv, NEW t \in Movers, NEW from, NEW to \in [Channels -> Nat],
           Rotate(t, from, to), enabled' \in BOOLEAN, moves' \in 0 .. MaxMoves
    PROVE  TypeInv'
<1> DEFINE k == [to |-> to, from |-> angle, channel |-> Horizontal,
                 at |-> PulseOf(angle[Horizontal]), text |-> <<>>]
<1>1. /\ pc' = [pc EXCEPT ![t] = "sweep"] /\ job' = [job EXCEPT ![t] = k] /\ angle' = to
      /\ UNCHANGED <<pulse, file, fresh, crashes>>
    BY DEF Rotate, Go
<1>2. angle \in [Channels -> Nat]
    BY DEF TypeInv
<1>3. /\ DOMAIN k = {"to", "from", "channel", "at", "text"} /\ k.channel \in Channels
      /\ k.text \in Seq(Symbols)
    BY DEF Channels
<1>4. k.from \in [Channels -> Nat] /\ k.to \in [Channels -> Nat] /\ k.at \in Int
    BY <1>2, PulseIsInt DEF Channels
<1>5. "sweep" \in Places /\ "sweep" \notin {"aim", "move"}
    BY DEF Places
<1> HIDE DEF k
<1>6. pc' \in [Movers -> Places] /\ JobTypes' /\ \A u \in Movers : JobOK(u)'
    BY <1>1, <1>3, <1>4, <1>5, OthersOK
<1> QED BY <1>1, <1>6 DEF TypeInv

LEMMA SweepTypes ==
    ASSUME TypeInv, NEW t \in Movers, SweepPulse(t) \/ SweepVertical(t) \/ SweepDone(t)
    PROVE  TypeInv'
<1>1. /\ DOMAIN job[t] = {"to", "from", "channel", "at", "text"}
      /\ job[t].channel \in Channels /\ job[t].text \in Seq(Symbols) /\ pc[t] = "sweep"
      /\ job[t].from \in [Channels -> Nat] /\ job[t].to \in [Channels -> Nat]
      /\ job[t].at \in Int /\ pc = [pc EXCEPT ![t] = pc[t]]
    <2>1. pc[t] = "sweep"
        BY DEF SweepPulse, SweepVertical, SweepDone, Go
    <2> QED BY <2>1, JobIs
<1>2. "sweep" \in Places /\ "open" \in Places
    BY DEF Places
<1>3. DOMAIN job = Movers /\ DOMAIN pc = Movers
    BY DEF TypeInv, JobTypes
<1>4. PICK k : k = job'[t]
    OBVIOUS
<1>5. CASE SweepPulse(t)
    <2>1. /\ job' = [job EXCEPT ![t] = k]
          /\ DOMAIN k = DOMAIN job[t] /\ k.from = job[t].from /\ k.to = job[t].to
          /\ k.channel = job[t].channel /\ k.text = job[t].text
          /\ k.at = IF Upward(job[t]) THEN job[t].at + SweepStep ELSE job[t].at - SweepStep
        BY <1>1, <1>3, <1>4, <1>5 DEF SweepPulse
    <2>2. k.at \in Int
        BY <1>1, <2>1 DEF SweepStep
    <2>3. UNCHANGED <<pc, enabled, angle, file, fresh, moves, crashes>>
        BY <1>5 DEF SweepPulse, bounds
    <2>4. pulse' \in [Channels -> Pulses]
        <3>1. CASE Writable(job[t].at)
            <4>1. job[t].at \in Pulses
                BY <1>1, <3>1, WritableIs
            <4>2. pulse' = [pulse EXCEPT ![job[t].channel] = job[t].at]
                BY <1>5, <3>1 DEF SweepPulse
            <4> QED BY <1>1, <4>1, <4>2 DEF TypeInv
        <3>2. CASE ~Writable(job[t].at)
            BY <1>5, <3>2 DEF SweepPulse, TypeInv
        <3> QED BY <3>1, <3>2
    <2>5. pc' = [pc EXCEPT ![t] = "sweep"]
        BY <1>1, <2>3
    <2>6. pc' \in [Movers -> Places] /\ JobTypes' /\ \A u \in Movers : JobOK(u)'
        BY <1>1, <1>2, <2>1, <2>2, <2>5, OthersOK
    <2> QED BY <2>3, <2>4, <2>6 DEF TypeInv
<1>6. CASE SweepVertical(t)
    <2>1. /\ job' = [job EXCEPT ![t] = k]
          /\ DOMAIN k = DOMAIN job[t] /\ k.from = job[t].from /\ k.to = job[t].to
          /\ k.channel = Vertical /\ k.text = job[t].text
          /\ k.at = PulseOf(job[t].from[Vertical])
        BY <1>1, <1>3, <1>4, <1>6 DEF SweepVertical
    <2>2. k.at \in Int /\ Vertical \in Channels
        <3>1. Vertical \in Channels
            BY DEF Channels
        <3> QED BY <1>1, <2>1, <3>1, PulseIsInt
    <2>3. UNCHANGED <<pc, enabled, angle, pulse, file, fresh, moves, crashes>>
        BY <1>6 DEF SweepVertical, bounds
    <2>4. pc' = [pc EXCEPT ![t] = "sweep"]
        BY <1>1, <2>3
    <2>5. pc' \in [Movers -> Places] /\ JobTypes' /\ \A u \in Movers : JobOK(u)'
        BY <1>1, <1>2, <2>1, <2>2, <2>4, OthersOK
    <2> QED BY <2>3, <2>5 DEF TypeInv
<1>7. CASE SweepDone(t)
    <2>1. /\ pc' = [pc EXCEPT ![t] = "open"] /\ job' = [job EXCEPT ![t] = NoJob]
          /\ fresh' = FALSE /\ UNCHANGED <<enabled, angle, pulse, file, moves, crashes>>
        BY <1>7 DEF SweepDone, Go, bounds
    <2>2. pc' \in [Movers -> Places] /\ JobTypes' /\ \A u \in Movers : JobOK(u)'
        BY <1>2, <2>1, NoJobIs, OthersOK
    <2> QED BY <2>1, <2>2 DEF TypeInv
<1> QED BY <1>5, <1>6, <1>7

LEMMA LookTypes ==
    ASSUME TypeInv, "det" \in Movers, Look
    PROVE  TypeInv'
<1>1. /\ pc' = [pc EXCEPT !["det"] = "aim"] /\ pc["det"] = "idle"
      /\ UNCHANGED <<enabled, angle, job, pulse, file, fresh, moves, crashes>>
    BY DEF Look, Go, bounds
<1>3. "aim" \in Places /\ "aim" # "sweep" /\ "det" # "ctl"
    BY DEF Places
<1>4. pc' \in [Movers -> Places] /\ JobTypes' /\ \A u \in Movers : JobOK(u)'
    BY <1>1, <1>3, PlaceOK
<1> QED BY <1>1, <1>4 DEF TypeInv

\* The pulse of a manual step is clamped, whatever the recorded angle.
LEMMA TestTypes ==
    ASSUME TypeInv, "ctl" \in Movers, Test
    PROVE  TypeInv'
<1>1. PICK s \in Steps :
          job' = [job EXCEPT !["ctl"].channel = s[1], !["ctl"].at = StepPulse(s[1], s[2])]
    BY DEF Test
<1>2. s[1] \in Channels /\ s[2] \in {StepLength, -StepLength}
    BY StepsAssumption
<1>3. StepPulse(s[1], s[2]) \in Clamped
    <2>1. PulseOf(angle[s[1]]) \in Int
        BY <1>2, PulseIsInt DEF TypeInv
    <2>2. StepH(angle[s[1]], s[2]) \in 560 .. 1040 /\ StepV(angle[s[1]], s[2]) \in 560 .. 1040
        BY <1>2, <2>1 DEF StepH, StepV, Clamp, StepLength
    <2> QED BY <2>2 DEF StepPulse, Clamped
<1>4. /\ pc' = [pc EXCEPT !["ctl"] = "aim"] /\ moves < MaxMoves /\ moves' = moves + 1
      /\ UNCHANGED <<enabled, angle, pulse, file, fresh, crashes>>
    BY DEF Test, Go
<1>5. PICK k : k = job'["ctl"]
    OBVIOUS
<1>6. DOMAIN job = Movers /\ DOMAIN job["ctl"] = {"to", "from", "channel", "at", "text"}
    BY DEF TypeInv, JobTypes
<1>7. /\ job' = [job EXCEPT !["ctl"] = k] /\ DOMAIN k = DOMAIN job["ctl"]
      /\ k.channel = s[1] /\ k.at = StepPulse(s[1], s[2]) /\ k.text = job["ctl"].text
    BY <1>1, <1>5, <1>6
<1>8. "aim" \in Places /\ "aim" # "sweep"
    BY DEF Places
<1>9. pc' \in [Movers -> Places] /\ JobTypes' /\ \A u \in Movers : JobOK(u)'
    <2>1. job["ctl"].text \in Seq(Symbols)
        BY JobIs
    <2>2. /\ DOMAIN k = {"to", "from", "channel", "at", "text"} /\ k.channel \in Channels
          /\ k.text \in Seq(Symbols) /\ k.at \in Clamped
        BY <1>2, <1>3, <1>6, <1>7, <2>1
    <2>3. pc' = [pc EXCEPT !["ctl"] = "aim"] /\ job' = [job EXCEPT !["ctl"] = k]
        BY <1>4, <1>7
    <2> HIDE DEF Places
    <2> QED BY <1>8, <2>2, <2>3, OthersOK
<1>10. moves' \in 0 .. MaxMoves
    BY <1>4, MotionBoundsAssumption DEF TypeInv
<1> QED BY <1>4, <1>9, <1>10 DEF TypeInv

LEMMA ManualTypes ==
    ASSUME TypeInv, "ctl" \in Movers, ManualStep \/ ManualPulse
    PROVE  TypeInv'
<1>1. /\ job["ctl"].channel \in Channels /\ job["ctl"].text \in Seq(Symbols)
      /\ DOMAIN job["ctl"] = {"to", "from", "channel", "at", "text"}
      /\ pc["ctl"] \in {"aim", "move"} /\ job["ctl"].at \in Clamped
    <2>1. pc["ctl"] \in {"aim", "move"}
        BY DEF ManualStep, ManualPulse, Go
    <2> QED BY <2>1, JobIs
<1>2. "idle" \in Places /\ "move" \in Places /\ "open" \in Places /\ "move" # "sweep"
    BY DEF Places
<1>3. CASE ManualStep
    <2> DEFINE c == job["ctl"].channel
               a == AngleOf(job["ctl"].at)
    <2>1. UNCHANGED <<enabled, job, pulse, file, fresh, moves, crashes>>
        BY <1>3 DEF ManualStep, bounds
    <2>2. \/ Accepts(c, a) /\ pc' = [pc EXCEPT !["ctl"] = "move"] /\ angle' = [angle EXCEPT ![c] = a]
          \/ pc' = [pc EXCEPT !["ctl"] = "idle"] /\ UNCHANGED angle
        BY <1>3 DEF ManualStep, Go
    <2>3. a \in Int
        BY <1>1, AngleIsInt
    <2> HIDE DEF a
    <2>4. angle' \in [Channels -> Nat]
        <3>1. Accepts(c, a) => a \in Nat
            BY <2>3 DEF Accepts, StartX, StartY
        <3> QED BY <1>1, <2>2, <3>1 DEF TypeInv
    <2>6. pc' \in [Movers -> Places] /\ JobTypes' /\ \A u \in Movers : JobOK(u)'
        <3>1. CASE pc' = [pc EXCEPT !["ctl"] = "move"]
            BY <1>1, <1>2, <2>1, <3>1, PlaceOK
        <3>2. CASE pc' = [pc EXCEPT !["ctl"] = "idle"]
            BY <1>1, <1>2, <2>1, <3>2, PlaceOK
        <3> QED BY <2>2, <3>1, <3>2
    <2> QED BY <2>1, <2>4, <2>6 DEF TypeInv
<1>4. CASE ManualPulse
    <2>1. /\ pc' = [pc EXCEPT !["ctl"] = "open"] /\ job' = [job EXCEPT !["ctl"] = NoJob]
          /\ pulse' = [pulse EXCEPT ![job["ctl"].channel] = job["ctl"].at]
          /\ UNCHANGED <<enabled, angle, file, fresh, moves, crashes>>
        BY <1>4 DEF ManualPulse, Go, bounds
    <2>2. job["ctl"].at \in Pulses
        BY <1>1 DEF Clamped, Pulses
    <2>3. pulse' \in [Channels -> Pulses]
        BY <1>1, <2>1, <2>2 DEF TypeInv
    <2>4. pc' \in [Movers -> Places] /\ JobTypes' /\ \A u \in Movers : JobOK(u)'
        BY <1>2, <2>1, NoJobIs, OthersOK
    <2> QED BY <2>1, <2>3, <2>4 DEF TypeInv
<1> QED BY <1>3, <1>4

LEMMA FileTypes ==
    ASSUME TypeInv, NEW t \in Movers, OpenFile(t) \/ WriteFile(t) \/ CloseFile(t)
    PROVE  TypeInv'
<1>1. /\ DOMAIN job[t] = {"to", "from", "channel", "at", "text"}
      /\ job[t].channel \in Channels /\ job[t].text \in Seq(Symbols)
    BY JobIs
<1>2. "idle" \in Places /\ "write" \in Places /\ "close" \in Places
    BY DEF Places
<1>3. CASE OpenFile(t)
    <2>1. /\ pc' = [pc EXCEPT ![t] = "write"] /\ file' = <<>>
          /\ UNCHANGED <<enabled, angle, job, pulse, fresh, moves, crashes>>
        BY <1>3 DEF OpenFile, Go, bounds
    <2>2. file' \in Seq(Symbols)
        BY <2>1
    <2>3. pc' \in [Movers -> Places] /\ JobTypes' /\ \A u \in Movers : JobOK(u)'
        BY <1>2, <2>1, PlaceOK
    <2> QED BY <2>1, <2>2, <2>3 DEF TypeInv
<1>4. CASE WriteFile(t)
    <2>1. /\ pc' = [pc EXCEPT ![t] = "close"] /\ job' = [job EXCEPT ![t].text = TextOf(angle)]
          /\ UNCHANGED <<enabled, angle, pulse, file, fresh, moves, crashes>>
        BY <1>4 DEF WriteFile, Go, bounds
    <2>2. TextOf(angle) \in Seq(Symbols)
        BY TextIs DEF TypeInv
    <2>3. PICK k : k = job'[t]
        OBVIOUS
    <2>4. DOMAIN job = Movers
        BY DEF TypeInv, JobTypes
    <2>5. /\ job' = [job EXCEPT ![t] = k] /\ DOMAIN k = DOMAIN job[t]
          /\ k.channel = job[t].channel /\ k.text = TextOf(angle)
        BY <1>1, <2>1, <2>3, <2>4
    <2>6. pc' \in [Movers -> Places] /\ JobTypes' /\ \A u \in Movers : JobOK(u)'
        BY <1>1, <1>2, <2>1, <2>2, <2>5, OthersOK
    <2> QED BY <2>1, <2>6 DEF TypeInv
<1>5. CASE CloseFile(t)
    <2>1. /\ pc' = [pc EXCEPT ![t] = "idle"] /\ job' = [job EXCEPT ![t] = NoJob]
          /\ file' = Overwrite(file, job[t].text)
          /\ UNCHANGED <<enabled, angle, pulse, fresh, moves, crashes>>
        BY <1>5 DEF CloseFile, Go, bounds
    <2>2. file' \in Seq(Symbols)
        BY <1>1, <2>1, OverwriteType DEF TypeInv
    <2>3. pc' \in [Movers -> Places] /\ JobTypes' /\ \A u \in Movers : JobOK(u)'
        BY <1>2, <2>1, NoJobIs, OthersOK
    <2> QED BY <2>1, <2>2, <2>3 DEF TypeInv
<1> QED BY <1>3, <1>4, <1>5

LEMMA RestartTypes ==
    ASSUME TypeInv, Restart
    PROVE  TypeInv'
<1>1. /\ crashes < MaxCrashes /\ crashes' = crashes + 1 /\ UNCHANGED moves
      /\ pc' = [t \in Movers |-> IF Movers = {"det"} THEN "boot" ELSE "idle"]
      /\ enabled' = FALSE /\ fresh' = TRUE /\ job' = [t \in Movers |-> NoJob]
      /\ pulse' = [c \in Channels |-> PulseOf(Base[c])]
      /\ \/ file = <<>> /\ angle' = Base /\ file' = TextOf(Base)
         \/ Loads(file) /\ angle' = AnglesOf(file) /\ file' = file
    BY DEF Restart, Started
<1>2. file \in Seq(Symbols) /\ crashes \in 0 .. MaxCrashes
    BY DEF TypeInv
<1>3. angle' \in [Channels -> Nat] /\ file' \in Seq(Symbols)
    <2>1. TextOf(Base) \in Seq(Symbols)
        BY BaseTypes, TextIs
    <2>2. Loads(file) => AnglesOf(file) \in [Channels -> Nat]
        BY <1>2, ReadAngles
    <2> QED BY <1>1, <1>2, <2>1, <2>2, BaseTypes
<1>4. crashes' \in 0 .. MaxCrashes
    BY <1>1, <1>2, MotionBoundsAssumption
<1>5. pulse' \in [Channels -> Pulses]
    BY <1>1, BaseTypes
<1>6. pc' \in [Movers -> Places] /\ \A t \in Movers : pc'[t] \in {"boot", "idle"}
    BY <1>1 DEF Places
<1>7. JobTypes'
    BY <1>1, NoJobIs DEF JobTypes
<1>8. \A t \in Movers : JobOK(t)'
    <2> SUFFICES ASSUME NEW t \in Movers PROVE JobOK(t)'
        OBVIOUS
    <2>1. job'[t].text \in Seq(Symbols) /\ pc'[t] \notin {"sweep", "aim", "move"}
        BY <1>1, <1>6, NoJobIs
    <2> QED BY <2>1 DEF JobOK
<1>9. enabled' \in BOOLEAN /\ fresh' \in BOOLEAN /\ moves' \in 0 .. MaxMoves
    BY <1>1 DEF TypeInv
<1> QED BY <1>3, <1>4, <1>5, <1>6, <1>7, <1>8, <1>9 DEF TypeInv

\* The angles that a rotation is asked for.
LEMMA TargetTypes ==
    ASSUME NEW target \in Targets
    PROVE  Pair(target[2], target[1]) \in [Channels -> Nat]
<1>1. target[1] \in Nat /\ target[2] \in Nat
    BY TargetsAssumption DEF XRange, YRange, StartX, LimitX, StartY, LimitY
<1> QED BY <1>1 DEF Pair

LEMMA NextTypes ==
    ASSUME TypeInv, [Next]_vars
    PROVE  TypeInv'
<1>1. CASE \E t \in Movers : Move(t)
    BY <1>1, SweepTypes, FileTypes DEF Move
<1>2. CASE "det" \in Movers /\ Look
    BY <1>2, LookTypes
<1>3. CASE "det" \in Movers /\ RotateToTarget
    <2>1. PICK target \in Targets : Rotate("det", "aim", Pair(target[2], target[1]))
        BY <1>3 DEF RotateToTarget
    <2>2. enabled' \in BOOLEAN /\ moves' \in 0 .. MaxMoves
        BY <1>3 DEF RotateToTarget, TypeInv
    <2> QED BY <1>3, <2>1, <2>2, TargetTypes, RotateTypes
<1>4. ASSUME NEW t \in Movers, NEW from, SetTurretState(t, from) PROVE TypeInv'
    <2>1. /\ moves < MaxMoves /\ moves' = moves + 1 /\ enabled' \in BOOLEAN
          /\ Rotate(t, from, Base)
        BY <1>4 DEF SetTurretState
    <2>2. moves' \in 0 .. MaxMoves
        BY <2>1, MotionBoundsAssumption DEF TypeInv
    <2> QED BY <2>1, <2>2, BaseTypes, RotateTypes
<1>5. CASE "ctl" \in Movers /\ (Test \/ ManualStep \/ ManualPulse)
    BY <1>5, TestTypes, ManualTypes
<1>6. CASE Restart
    BY <1>6, RestartTypes
<1>7. CASE UNCHANGED vars
    BY <1>7 DEF vars, bounds, TypeInv, JobTypes, JobOK
<1> QED BY <1>1, <1>2, <1>3, <1>4, <1>5, <1>6, <1>7 DEF Next

\* For all sets of movers, targets, steps and saved angles and any number of
\* restarts: every pulse is one that the PCA9685 driver accepts and every angle
\* recorded is a number that the file can hold.
THEOREM MotionTypes == Spec => []TypeOK
<1>1. TypeInv => TypeOK
    <2> SUFFICES ASSUME TypeInv PROVE TypeOK
        OBVIOUS
    <2>1. \A i \in 1 .. Len(file) : file[i] \in 0 .. Space
        <3>1. \A i \in 1 .. Len(file) : file[i] \in Symbols
            BY DEF TypeInv
        <3> QED BY <3>1 DEF Symbols
    <2>2. /\ enabled \in BOOLEAN /\ fresh \in BOOLEAN /\ angle \in [Channels -> Nat]
          /\ pc \in [Movers -> Places] /\ pulse \in [Channels -> Pulses]
          /\ moves \in 0 .. MaxMoves /\ crashes \in 0 .. MaxCrashes
        BY DEF TypeInv
    <2> QED BY <2>1, <2>2 DEF TypeOK
<1> QED BY InitTypes, NextTypes, <1>1, PTL DEF Spec

----------------------------------------------------------------------------
(* FileLoads: no horizontal angle that is ever recorded has more than two   *)
(* digits, so the space of a text is at its second or third place, and a    *)
(* text has at least three: the one written over another covers its space.  *)
(* The vertical angle may grow by the digits that show from under it.       *)

SpaceAt(x, i) == i < Len(x) /\ \A j \in 1 .. Len(x) : x[j] = Space <=> j = i

Loadable == {x \in Seq(Symbols) : SpaceAt(x, 2) \/ SpaceAt(x, 3)}

LoadsInv ==
    /\ TypeInv
    /\ angle[Horizontal] <= 99
    /\ file = <<>> \/ file \in Loadable
    /\ \A t \in Movers : pc[t] = "close" => job[t].text \in Loadable

LEMMA LoadableIs ==
    ASSUME NEW x \in Loadable
    PROVE  /\ x \in Seq(Symbols) /\ Len(x) \in Nat
           /\ \E i \in {2, 3} : SpaceAt(x, i)
BY DEF Loadable

LEMMA IsLoadable ==
    ASSUME NEW x \in Seq(Symbols), NEW i \in {2, 3}, SpaceAt(x, i)
    PROVE  x \in Loadable
<1>1. SpaceAt(x, 2) \/ SpaceAt(x, 3)
    OBVIOUS
<1> QED BY <1>1, Zenon DEF Loadable

LEMMA LoadableLoads ==
    ASSUME NEW x \in Loadable
    PROVE  Loads(x)
<1>1. PICK i \in {2, 3} : SpaceAt(x, i)
    BY LoadableIs
<1>2. Len(x) \in Nat /\ i < Len(x) /\ \A j \in 1 .. Len(x) : x[j] = Space <=> j = i
    BY <1>1, LoadableIs DEF SpaceAt
<1>3. i \in 2 .. Len(x) - 1
    BY <1>2
<1> QED BY <1>2, <1>3, Zenon DEF Loads

\* Numbers below a hundred have one digit or two.
LEMMA FewDigits ==
    ASSUME NEW n \in Nat, n <= 99
    PROVE  Len(Digits[n]) \in {1, 2}
<1>1. CASE n < 10
    <2>1. Digits[n] = <<n>>
        BY <1>1, DigitsEqual
    <2>2. Len(<<n>>) = 1
        OBVIOUS
    <2> QED BY <2>1, <2>2
<1>2. CASE ~(n < 10)
    <2> DEFINE k == n \div 10
               d == n % 10
    <2>1. k \in Nat /\ k < 10 /\ d \in Nat
        BY <1>2
    <2>2. Digits[n] = Append(Digits[k], d)
        BY <1>2, DigitsEqual
    <2> HIDE DEF k, d
    <2>3. Digits[k] = <<k>>
        BY <2>1, DigitsEqual
    <2>4. <<k>> \in Seq(Nat) /\ Len(<<k>>) = 1
        BY <2>1
    <2>5. Len(Append(<<k>>, d)) = 2
        BY <2>1, <2>4
    <2> QED BY <2>2, <2>3, <2>5
<1> QED BY <1>1, <1>2

\* One digit or two make a number below a hundred.
LEMMA SmallNumber ==
    ASSUME NEW ds \in Seq(0 .. 9), Len(ds) \in {1, 2}
    PROVE  Number(ds) \in Nat /\ Number(ds) <= 99
<1>1. PICK e : e = ds[1]
    OBVIOUS
<1>2. e \in 0 .. 9 /\ Number(<<e>>) = e
    <2>1. e \in 0 .. 9
        BY <1>1
    <2> QED BY <2>1, NumberOfOne
<1>3. CASE Len(ds) = 1
    <2>1. ds = <<e>>
        BY <1>1, <1>3
    <2> QED BY <1>2, <2>1
<1>4. CASE Len(ds) = 2
    <2>1. PICK d : d = ds[2]
        OBVIOUS
    <2>2. d \in 0 .. 9 /\ ds = Append(<<e>>, d)
        <3>1. \A j \in 1 .. Len(ds) : ds[j] \in 0 .. 9
            OBVIOUS
        <3>2. d \in 0 .. 9
            BY <1>4, <2>1, <3>1
        <3>3. <<e>> \in Seq(0 .. 9) /\ Len(<<e>>) = 1 /\ <<e>>[1] = e
            BY <1>2
        <3>4. /\ Append(<<e>>, d) \in Seq(0 .. 9) /\ Len(Append(<<e>>, d)) = 2
              /\ Append(<<e>>, d)[1] = e /\ Append(<<e>>, d)[2] = d
            BY <3>2, <3>3
        <3>5. PICK w \in Seq(0 .. 9) : w = Append(<<e>>, d)
            BY <3>4
        <3>6. \A j \in 1 .. Len(ds) : ds[j] = w[j]
            BY <1>1, <1>4, <2>1, <3>4, <3>5
        <3>7. ds = w
            BY <1>4, <3>4, <3>5, <3>6, SeqEqual
        <3> QED BY <3>2, <3>5, <3>7
    <2>3. <<e>> \in Seq(Nat) /\ d \in Nat
        BY <1>2, <2>2
    <2>4. Number(ds) = 10 * Number(<<e>>) + d
        BY <2>2, <2>3, NumberAppend
    <2> QED BY <1>2, <2>2, <2>4
<1> QED BY <1>3, <1>4

LEMMA TextLoadable ==
    ASSUME NEW a \in [Channels -> Nat], a[Horizontal] <= 99
    PROVE  TextOf(a) \in Loadable
<1> DEFINE text == TextOf(a)
           k == Len(Digits[a[Horizontal]])
           l == Len(Digits[a[Vertical]])
<1>1. a[Horizontal] \in Nat /\ a[Vertical] \in Nat
    BY DEF Channels
<1>2. k \in {1, 2} /\ l \in Nat /\ l >= 1
    BY <1>1, FewDigits, DigitsRead
<1>3. /\ text \in Seq(Symbols) /\ Len(text) = k + 1 + l
      /\ \A j \in 1 .. Len(text) : text[j] = Space <=> j = k + 1
    BY TextIs
<1> HIDE DEF text, k, l
<1>4. k + 1 \in {2, 3} /\ k + 1 < Len(text)
    BY <1>2, <1>3
<1>5. SpaceAt(text, k + 1)
    BY <1>3, <1>4 DEF SpaceAt
<1>6. text \in Loadable
    BY <1>3, <1>4, <1>5, IsLoadable
<1> QED BY <1>6 DEF text

\* The horizontal angle of the next start.
LEMMA LoadedAngle ==
    ASSUME NEW text \in Loadable
    PROVE  AnglesOf(text)[Horizontal] <= 99
<1> DEFINE n == Len(text)
<1>1. n \in Nat /\ text \in Seq(Symbols) /\ \A j \in 1 .. n : text[j] \in 0 .. Space
    <2>1. n \in Nat /\ text \in Seq(Symbols)
        BY LoadableIs
    <2>2. \A j \in 1 .. n : text[j] \in Symbols
        BY <2>1
    <2> QED BY <2>1, <2>2 DEF Symbols
<1>2. PICK i \in {2, 3} : i < n /\ \A j \in 1 .. n : text[j] = Space <=> j = i
    BY LoadableIs DEF SpaceAt
<1>3. (CHOOSE m \in 1 .. Len(text) : text[m] = Space) = i
    <2>1. i \in 1 .. n
        BY <1>1, <1>2
    <2> QED BY <1>2, <2>1
<1> DEFINE ds == SubSeq(text, 1, i - 1)
<1>4. AnglesOf(text)[Horizontal] = Number(ds)
    <2>1. AnglesOf(text) = Pair(Number(SubSeq(text, i + 1, n)), Number(ds))
        BY <1>3 DEF AnglesOf
    <2> QED BY <2>1 DEF Pair, Channels, Horizontal, Vertical
<1> HIDE DEF n
<1>5. ds \in Seq(0 .. 9) /\ Len(ds) \in {1, 2}
    <2>1. \A j \in 1 .. i - 1 : j \in 1 .. n /\ j # i
        BY <1>1, <1>2
    <2>2. \A j \in 1 .. i - 1 : text[j] \in 0 .. 9
        BY <1>1, <1>2, <2>1 DEF Space
    <2>3. 1 \in Int /\ i - 1 \in Int /\ 1 <= i - 1 /\ (i - 1) - 1 + 1 = i - 1 /\ i - 1 \in {1, 2}
        OBVIOUS
    <2>4. /\ SubSeq(text, 1, i - 1) \in Seq(0 .. 9)
          /\ Len(SubSeq(text, 1, i - 1)) = IF 1 <= i - 1 THEN (i - 1) - 1 + 1 ELSE 0
        BY <2>2, <2>3, SubSeqProperties
    <2> QED BY <2>3, <2>4
<1> HIDE DEF ds
<1> QED BY <1>4, <1>5, SmallNumber

\* What shows from under a text is after its third place, where the text it is
\* written over has no space any more.
LEMMA OverwriteLoadable ==
    ASSUME NEW old, old = <<>> \/ old \in Loadable, NEW new \in Loadable
    PROVE  Overwrite(old, new) \in Loadable
<1> DEFINE m == Len(new)
           n == Len(old)
           rest == SubSeq(old, m + 1, n)
           text == new \o rest
<1>1. new \in Seq(Symbols) /\ old \in Seq(Symbols) /\ m \in Nat /\ n \in Nat
    <2>1. CASE old = <<>>
        BY <2>1, LoadableIs
    <2>2. CASE old \in Loadable
        BY <2>2, LoadableIs
    <2> QED BY <2>1, <2>2
<1>2. PICK i \in {2, 3} : i < m /\ \A j \in 1 .. m : new[j] = Space <=> j = i
    BY LoadableIs DEF SpaceAt
<1>3. \A j \in 1 .. n : j > 3 => old[j] # Space
    <2>1. CASE old = <<>>
        BY <2>1
    <2>2. CASE old \in Loadable
        <3>1. PICK k \in {2, 3} : \A j \in 1 .. n : old[j] = Space <=> j = k
            BY <2>2, LoadableIs DEF SpaceAt
        <3>2. \A j \in 1 .. n : j > 3 => j # k
            OBVIOUS
        <3> QED BY <3>1, <3>2
    <2> QED BY <2>1, <2>2
<1>4. \A j \in 1 .. n : old[j] \in Symbols
    BY <1>1
<1> HIDE DEF n
<1>5. \A j \in m + 1 .. n : j \in 1 .. n /\ j > 3
    BY <1>1, <1>2
<1>6. /\ rest \in Seq(Symbols)
      /\ \A j \in 1 .. Len(rest) : rest[j] # Space
    <2>1. \A j \in m + 1 .. n : old[j] \in Symbols
        BY <1>4, <1>5
    <2>2. m + 1 \in Int /\ n \in Int
        BY <1>1
    <2>3. /\ rest \in Seq(Symbols)
          /\ Len(rest) = IF m + 1 <= n THEN n - (m + 1) + 1 ELSE 0
          /\ \A j \in 1 .. n - (m + 1) + 1 : rest[j] = old[m + 1 + j - 1]
        BY <2>1, <2>2, SubSeqProperties
    <2> HIDE DEF rest
    <2>4. ASSUME NEW j \in 1 .. Len(rest) PROVE rest[j] # Space
        <3>1. Len(rest) \in Nat
            BY <2>3
        <3>2. m + 1 <= n
            BY <2>3, <3>1
        <3>3. j \in 1 .. n - (m + 1) + 1
            BY <2>3, <3>2
        <3>0. m + 1 + j - 1 \in Int
            BY <1>1, <3>1, <3>3
        <3>4. PICK k \in Int : k = m + 1 + j - 1
            BY <3>0
        <3>5. k \in m + 1 .. n
            BY <1>1, <3>3, <3>4
        <3>6. rest[j] = old[k]
            BY <2>3, <3>3, <3>4
        <3> QED BY <1>3, <1>5, <3>5, <3>6
    <2> QED BY <2>3, <2>4
<1> HIDE DEF rest
<1>7. /\ text \in Seq(Symbols) /\ Len(text) = m + Len(rest)
      /\ \A j \in 1 .. m + Len(rest) : text[j] = IF j <= m THEN new[j] ELSE rest[j - m]
    BY <1>1, <1>6, ConcatProperties
<1> HIDE DEF text, m
<1>8. Len(rest) \in Nat
    BY <1>6
<1>9. ASSUME NEW j \in 1 .. m + Len(rest) PROVE text[j] = Space <=> j = i
    <2>1. CASE j <= m
        <3>1. j \in 1 .. m
            BY <1>1, <2>1
        <3> QED BY <1>2, <1>7, <2>1, <3>1
    <2>2. CASE ~(j <= m)
        <3>1. j - m \in 1 .. Len(rest) /\ j # i
            BY <1>1, <1>2, <1>8, <2>2
        <3>2. rest[j - m] # Space
            BY <1>6, <3>1
        <3> QED BY <1>7, <2>2, <3>1, <3>2
    <2> QED BY <2>1, <2>2
<1>10. i < Len(text)
    BY <1>1, <1>2, <1>7, <1>8
<1>11. SpaceAt(text, i)
    BY <1>7, <1>9, <1>10 DEF SpaceAt
<1>12. text \in Loadable
    BY <1>7, <1>11, IsLoadable
<1>13. Overwrite(old, new) = text
    BY DEF Overwrite, text, rest, m, n
<1> QED BY <1>12, <1>13

\* The texts that wait to be written are those of the movers at "close".
LEMMA TextsKept ==
    ASSUME LoadsInv, NEW t \in Movers, pc'[t] # "close",
           \A u \in Movers \ {t} : pc'[u] = pc[u] /\ job'[u] = job[u]
    PROVE  \A u \in Movers : pc'[u] = "close" => job'[u].text \in Loadable
BY DEF LoadsInv

LEMMA RotateLoads ==
    ASSUME LoadsInv, NEW t \in Movers, NEW from, NEW to, to[Horizontal] <= 99,
           Rotate(t, from, to), TypeInv'
    PROVE  LoadsInv'
<1>1. DOMAIN pc = Movers /\ DOMAIN job = Movers
    BY DEF LoadsInv, TypeInv, JobTypes
<1>2. /\ pc'[t] = "sweep" /\ angle' = to /\ file' = file
      /\ \A u \in Movers \ {t} : pc'[u] = pc[u] /\ job'[u] = job[u]
    BY <1>1 DEF Rotate, Go
<1>3. \A u \in Movers : pc'[u] = "close" => job'[u].text \in Loadable
    BY <1>2, TextsKept
<1> QED BY <1>2, <1>3 DEF LoadsInv

LEMMA MoveLoads ==
    ASSUME LoadsInv, NEW t \in Movers, Move(t), TypeInv'
    PROVE  LoadsInv'
<1>1. DOMAIN pc = Movers /\ DOMAIN job = Movers /\ angle \in [Channels -> Nat]
    BY DEF LoadsInv, TypeInv, JobTypes
<1>2. CASE SweepPulse(t) \/ SweepVertical(t)
    <2>1. /\ pc[t] = "sweep" /\ pc' = pc /\ angle' = angle /\ file' = file
          /\ \A u \in Movers \ {t} : job'[u] = job[u]
        BY <1>1, <1>2 DEF SweepPulse, SweepVertical
    <2>2. \A u \in Movers : pc'[u] = "close" => job'[u].text \in Loadable
        BY <2>1, TextsKept
    <2> QED BY <2>1, <2>2 DEF LoadsInv
<1>3. CASE SweepDone(t)
    <2>1. /\ pc'[t] = "open" /\ angle' = angle /\ file' = file
          /\ \A u \in Movers \ {t} : pc'[u] = pc[u] /\ job'[u] = job[u]
        BY <1>1, <1>3 DEF SweepDone, Go
    <2>2. \A u \in Movers : pc'[u] = "close" => job'[u].text \in Loadable
        BY <2>1, TextsKept
    <2> QED BY <2>1, <2>2 DEF LoadsInv
<1>4. CASE OpenFile(t)
    <2>1. /\ pc'[t] = "write" /\ angle' = angle /\ file' = <<>> /\ job' = job
          /\ \A u \in Movers \ {t} : pc'[u] = pc[u]
        BY <1>1, <1>4 DEF OpenFile, Go
    <2>2. \A u \in Movers : pc'[u] = "close" => job'[u].text \in Loadable
        BY <2>1, TextsKept
    <2> QED BY <2>1, <2>2 DEF LoadsInv
<1>5. CASE WriteFile(t)
    <2>1. /\ job'[t].text = TextOf(angle) /\ angle' = angle /\ file' = file
          /\ \A u \in Movers \ {t} : pc'[u] = pc[u] /\ job'[u] = job[u]
        <3>1. DOMAIN job[t] = {"to", "from", "channel", "at", "text"}
            BY DEF LoadsInv, TypeInv, JobTypes
        <3> QED BY <1>1, <1>5, <3>1 DEF WriteFile, Go
    <2>2. TextOf(angle) \in Loadable
        BY <1>1, TextLoadable DEF LoadsInv
    <2>3. ASSUME NEW u \in Movers, pc'[u] = "close" PROVE job'[u].text \in Loadable
        <3>1. CASE u = t
            BY <2>1, <2>2, <3>1
        <3>2. CASE u # t
            BY <2>1, <2>3, <3>2 DEF LoadsInv
        <3> QED BY <3>1, <3>2
    <2> QED BY <2>1, <2>3 DEF LoadsInv
<1>6. CASE CloseFile(t)
    <2>1. /\ pc[t] = "close" /\ pc'[t] = "idle" /\ angle' = angle
          /\ file' = Overwrite(file, job[t].text)
          /\ \A u \in Movers \ {t} : pc'[u] = pc[u] /\ job'[u] = job[u]
        BY <1>1, <1>6 DEF CloseFile, Go
    <2>2. \A u \in Movers : pc'[u] = "close" => job'[u].text \in Loadable
        BY <2>1, TextsKept
    <2>3. job[t].text \in Loadable /\ (file = <<>> \/ file \in Loadable)
        BY <2>1 DEF LoadsInv
    <2>4. file' \in Loadable
        BY <2>1, <2>3, OverwriteLoadable
    <2> QED BY <2>1, <2>2, <2>4 DEF LoadsInv
<1> QED BY <1>2, <1>3, <1>4, <1>5, <1>6 DEF Move

LEMMA ManualLoads ==
    ASSUME LoadsInv, "ctl" \in Movers, Test \/ ManualStep \/ ManualPulse, TypeInv'
    PROVE  LoadsInv'
<1>1. DOMAIN pc = Movers /\ DOMAIN job = Movers /\ angle \in [Channels -> Nat]
    BY DEF LoadsInv, TypeInv, JobTypes
<1>2. /\ pc'["ctl"] # "close" /\ file' = file
      /\ \A u \in Movers \ {"ctl"} : pc'[u] = pc[u] /\ job'[u] = job[u]
    <2>1. CASE Test
        BY <1>1, <2>1 DEF Test, Go
    <2>2. CASE ManualStep
        BY <1>1, <2>2 DEF ManualStep, Go
    <2>3. CASE ManualPulse
        BY <1>1, <2>3 DEF ManualPulse, Go
    <2> QED BY <2>1, <2>2, <2>3
<1>3. \A u \in Movers : pc'[u] = "close" => job'[u].text \in Loadable
    BY <1>2, TextsKept
<1>4. angle'[Horizontal] <= 99
    <2>1. CASE ManualStep
        <3> DEFINE c == job["ctl"].channel
                   a == AngleOf(job["ctl"].at)
        <3>1. (Accepts(c, a) /\ angle' = [angle EXCEPT ![c] = a]) \/ UNCHANGED angle
            BY <2>1 DEF ManualStep
        <3>2. a \in Int /\ c \in Channels
            <4>1. pc["ctl"] \in {"aim", "move"}
                BY <2>1 DEF ManualStep, Go
            <4> QED BY <4>1, JobIs, AngleIsInt DEF LoadsInv
        <3> HIDE DEF a, c
        <3>3. Accepts(c, a) /\ c = Horizontal => a <= 99
            BY <3>2 DEF Accepts, LimitX, Horizontal, Vertical
        <3>4. angle[Horizontal] <= 99 /\ Horizontal \in Channels
            BY DEF LoadsInv, Channels
        <3>5. CASE Accepts(c, a) /\ angle' = [angle EXCEPT ![c] = a]
            <4>1. angle'[Horizontal] = IF c = Horizontal THEN a ELSE angle[Horizontal]
                BY <1>1, <3>2, <3>4, <3>5
            <4> QED BY <3>3, <3>4, <3>5, <4>1
        <3> QED BY <3>1, <3>4, <3>5
    <2>2. CASE Test \/ ManualPulse
        BY <2>2 DEF Test, ManualPulse, LoadsInv
    <2> QED BY <2>1, <2>2
<1> QED BY <1>2, <1>3, <1>4 DEF LoadsInv

LEMMA RestartLoads ==
    ASSUME LoadsInv, Restart, TypeInv'
    PROVE  LoadsInv'
<1>1. /\ pc' = [t \in Movers |-> IF Movers = {"det"} THEN "boot" ELSE "idle"]
      /\ \/ file = <<>> /\ angle' = Base /\ file' = TextOf(Base)
         \/ Loads(file) /\ angle' = AnglesOf(file) /\ file' = file
    BY DEF Restart, Started
<1>2. Base \in [Channels -> Nat] /\ Base[Horizontal] <= 99
    <2>1. Base[Horizontal] = BaseX
        BY DEF Base, Pair, Channels, Horizontal, Vertical
    <2> QED BY <2>1, BaseTypes DEF BaseX
<1>3. TextOf(Base) \in Loadable
    BY <1>2, TextLoadable
<1>4. ~Loads(<<>>)
    BY DEF Loads
<1>5. Loads(file) => file \in Loadable /\ AnglesOf(file)[Horizontal] <= 99
    BY <1>4, LoadedAngle DEF LoadsInv
<1>6. \A t \in Movers : pc'[t] # "close"
    BY <1>1
<1> QED BY <1>1, <1>2, <1>3, <1>5, <1>6 DEF LoadsInv

LEMMA InitLoads == Init => LoadsInv
<1> SUFFICES ASSUME Init PROVE LoadsInv
    OBVIOUS
<1>1. angle \in [Channels -> Nat] /\ TypeInv
    BY InitTypes DEF TypeInv
<1>2. angle[Horizontal] <= 99
    <2>1. PICK s \in Saved : angle = Pair(s[2], s[1])
        BY DEF Init
    <2>2. s[1] \in Nat /\ s[1] <= 99
        BY SavedAssumption DEF XRange, StartX, LimitX
    <2> QED BY <2>1, <2>2 DEF Pair, Channels, Horizontal, Vertical
<1>3. file \in Loadable
    BY <1>1, <1>2, TextLoadable DEF Init
<1>4. \A t \in Movers : pc[t] # "close"
    BY DEF Init
<1> QED BY <1>1, <1>2, <1>3, <1>4 DEF LoadsInv

LEMMA NextLoads ==
    ASSUME LoadsInv, [Next]_vars
    PROVE  LoadsInv'
<1>1. TypeInv'
    BY NextTypes DEF LoadsInv
<1>2. CASE \E t \in Movers : Move(t)
    BY <1>1, <1>2, MoveLoads
<1>3. CASE "det" \in Movers /\ Look
    <2>1. DOMAIN pc = Movers
        BY DEF LoadsInv, TypeInv, JobTypes
    <2>2. /\ pc'["det"] = "aim" /\ angle' = angle /\ file' = file /\ job' = job
          /\ \A u \in Movers \ {"det"} : pc'[u] = pc[u]
        BY <1>3, <2>1 DEF Look, Go
    <2>3. \A u \in Movers : pc'[u] = "close" => job'[u].text \in Loadable
        BY <1>3, <2>2, TextsKept
    <2> QED BY <1>1, <2>2, <2>3 DEF LoadsInv
<1>4. CASE "det" \in Movers /\ RotateToTarget
    <2>1. PICK target \in Targets : Rotate("det", "aim", Pair(target[2], target[1]))
        BY <1>4 DEF RotateToTarget
    <2>2. Pair(target[2], target[1])[Horizontal] <= 99
        <3>1. target[1] <= 99
            BY TargetsAssumption DEF XRange, StartX, LimitX
        <3> QED BY <3>1 DEF Pair, Channels, Horizontal, Vertical
    <2> QED BY <1>1, <1>4, <2>1, <2>2, RotateLoads
<1>5. ASSUME NEW t \in Movers, NEW from, SetTurretState(t, from) PROVE LoadsInv'
    <2>1. Rotate(t, from, Base)
        BY <1>5 DEF SetTurretState
    <2>2. Base[Horizontal] <= 99
        BY DEF Base, Pair, BaseX, Channels, Horizontal, Vertical
    <2> QED BY <1>1, <2>1, <2>2, RotateLoads
<1>6. CASE "ctl" \in Movers /\ (Test \/ ManualStep \/ ManualPulse)
    BY <1>1, <1>6, ManualLoads
<1>7. CASE Restart
    BY <1>1, <1>7, RestartLoads
<1>8. CASE UNCHANGED vars
    <2>1. pc' = pc /\ angle' = angle /\ file' = file /\ job' = job
        BY <1>8 DEF vars
    <2> QED BY <1>1, <2>1 DEF LoadsInv
<1> QED BY <1>2, <1>3, <1>4, <1>5, <1>6, <1>7, <1>8 DEF Next

\* For all movers that save at once, all targets, steps and saved angles, and
\* however often the process ends between two steps of a save: the next start
\* finds two numbers in last_servo_state.txt, or an empty file.
THEOREM FileIsReadable == Spec => []FileLoads
<1>1. LoadsInv => FileLoads
    BY LoadableLoads DEF LoadsInv, FileLoads
<1> QED BY InitLoads, NextLoads, <1>1, PTL DEF Spec

----------------------------------------------------------------------------
(* FileRecords: the detector alone, with restarts. Between two saves the    *)
(* file holds the angles of the last one; while it is empty the angles of   *)
(* the next are already recorded.                                           *)

RecordInv ==
    /\ TypeInv
    /\ pc["det"] # "move"
    /\ pc["det"] \in {"boot", "idle", "aim"} => file = TextOf(angle)
    /\ pc["det"] \in {"sweep", "open"} => \E a \in [Channels -> Nat] : file = TextOf(a)
    /\ pc["det"] \in {"write", "close"} => file = <<>>
    /\ pc["det"] = "close" => job["det"].text = TextOf(angle)

LEMMA OverwriteNothing ==
    ASSUME NEW S, NEW new \in Seq(S)
    PROVE  Overwrite(<<>>, new) = new
<1>1. Len(<<>>) = 0
    BY EmptySeq
<1>2. Len(new) + 1 \in Int /\ 0 \in Int /\ 0 < Len(new) + 1
    OBVIOUS
<1>3. SubSeq(<<>>, Len(new) + 1, 0) = <<>>
    BY <1>2, SubSeqEmpty
<1>4. new \o <<>> = new
    BY ConcatEmptySeq
<1> QED BY <1>1, <1>3, <1>4 DEF Overwrite

LEMMA RotateRecords ==
    ASSUME RecordInv, "det" \in Movers, NEW from \in {"boot", "aim"}, NEW to,
           Rotate("det", from, to), TypeInv'
    PROVE  RecordInv'
<1>1. DOMAIN pc = Movers /\ angle \in [Channels -> Nat]
    BY DEF RecordInv, TypeInv, JobTypes
<1>2. pc["det"] = from /\ pc'["det"] = "sweep" /\ file' = file
    BY <1>1 DEF Rotate, Go
<1>3. file = TextOf(angle)
    BY <1>2 DEF RecordInv
<1> QED BY <1>1, <1>2, <1>3 DEF RecordInv

LEMMA MoveRecords ==
    ASSUME RecordInv, "det" \in Movers, Move("det"), TypeInv'
    PROVE  RecordInv'
<1>1. DOMAIN pc = Movers /\ DOMAIN job = Movers /\ angle \in [Channels -> Nat]
    BY DEF RecordInv, TypeInv, JobTypes
<1>2. CASE SweepPulse("det") \/ SweepVertical("det")
    <2>1. pc["det"] = "sweep" /\ pc' = pc /\ angle' = angle /\ file' = file
        BY <1>2 DEF SweepPulse, SweepVertical
    <2> QED BY <2>1 DEF RecordInv
<1>3. CASE SweepDone("det")
    <2>1. pc["det"] = "sweep" /\ pc'["det"] = "open" /\ angle' = angle /\ file' = file
        BY <1>1, <1>3 DEF SweepDone, Go
    <2> QED BY <2>1 DEF RecordInv
<1>4. CASE OpenFile("det")
    <2>1. pc'["det"] = "write" /\ file' = <<>>
        BY <1>1, <1>4 DEF OpenFile, Go
    <2> QED BY <2>1 DEF RecordInv
<1>5. CASE WriteFile("det")
    <2>1. /\ pc["det"] = "write" /\ pc'["det"] = "close" /\ angle' = angle /\ file' = file
          /\ job'["det"].text = TextOf(angle)
        <3>1. DOMAIN job["det"] = {"to", "from", "channel", "at", "text"}
            BY DEF RecordInv, TypeInv, JobTypes
        <3> QED BY <1>1, <1>5, <3>1 DEF WriteFile, Go
    <2> QED BY <2>1 DEF RecordInv
<1>6. CASE CloseFile("det")
    <2>1. /\ pc["det"] = "close" /\ pc'["det"] = "idle" /\ angle' = angle
          /\ file' = Overwrite(file, job["det"].text)
        BY <1>1, <1>6 DEF CloseFile, Go
    <2>2. file = <<>> /\ job["det"].text = TextOf(angle)
        BY <2>1 DEF RecordInv
    <2>3. TextOf(angle) \in Seq(Symbols)
        BY <1>1, TextIs
    <2>4. file' = TextOf(angle)
        BY <2>1, <2>2, <2>3, OverwriteNothing
    <2> QED BY <2>1, <2>4 DEF RecordInv
<1> QED BY <1>2, <1>3, <1>4, <1>5, <1>6 DEF Move

\* The angles of the last save, or the base if the process ended during one.
LEMMA RestartRecords ==
    ASSUME RecordInv, Movers = {"det"}, Restart, TypeInv'
    PROVE  RecordInv'
<1>1. /\ pc' = [t \in Movers |-> IF Movers = {"det"} THEN "boot" ELSE "idle"]
      /\ \/ file = <<>> /\ angle' = Base /\ file' = TextOf(Base)
         \/ Loads(file) /\ angle' = AnglesOf(file) /\ file' = file
    BY DEF Restart, Started
<1>2. pc'["det"] = "boot"
    BY <1>1
<1>3. file' = TextOf(angle')
    <2>1. CASE file = <<>>
        <3>1. ~Loads(file)
            BY <2>1 DEF Loads
        <3> QED BY <1>1, <3>1
    <2>2. CASE \E a \in [Channels -> Nat] : file = TextOf(a)
        <3>1. PICK a \in [Channels -> Nat] : file = TextOf(a)
            BY <2>2
        <3>2. AnglesOf(file) = a
            BY <3>1, SavedIsRead
        <3> QED BY <1>1, <3>1, <3>2
    <2>3. file = <<>> \/ \E a \in [Channels -> Nat] : file = TextOf(a)
        <3>1. pc["det"] \in Places /\ angle \in [Channels -> Nat]
            BY DEF RecordInv, TypeInv
        <3> QED BY <3>1 DEF RecordInv, Places
    <2> QED BY <2>1, <2>2, <2>3
<1> QED BY <1>2, <1>3 DEF RecordInv

LEMMA NextRecords ==
    ASSUME Movers = {"det"}, RecordInv, [Next]_vars
    PROVE  RecordInv'
<1>1. TypeInv' /\ "det" \in Movers /\ "web" \notin Movers /\ "ctl" \notin Movers
    BY NextTypes DEF RecordInv
<1>2. CASE \E t \in Movers : Move(t)
    BY <1>1, <1>2, MoveRecords
<1>3. CASE Look
    <2>1. pc["det"] = "idle" /\ pc'["det"] = "aim" /\ angle' = angle /\ file' = file
        BY <1>3, <1>1 DEF Look, Go, RecordInv, TypeInv, JobTypes
    <2> QED BY <1>1, <2>1 DEF RecordInv
<1>4. CASE RotateToTarget
    BY <1>1, <1>4, RotateRecords DEF RotateToTarget
<1>5. CASE SetTurretState("det", "boot")
    BY <1>1, <1>5, RotateRecords DEF SetTurretState
<1>6. CASE Restart
    BY <1>1, <1>6, RestartRecords
<1>7. CASE UNCHANGED vars
    <2>1. pc' = pc /\ angle' = angle /\ file' = file /\ job' = job
        BY <1>7 DEF vars
    <2> QED BY <1>1, <2>1 DEF RecordInv
<1> QED BY <1>1, <1>2, <1>3, <1>4, <1>5, <1>6, <1>7 DEF Next

\* Of the detector alone, for all targets and however often its process ends and
\* starts again: whenever it is at rest the file holds the angles recorded, those
\* a start has read from it included. (With a client or a manual step at work at
\* the same time it need not: two saves read the angles at different times.)
THEOREM FileRecordsAngles == ASSUME Movers = {"det"} PROVE Spec => []FileRecords
<1>1. Init => RecordInv
    <2>1. Init => pc["det"] = "boot" /\ file = TextOf(angle)
        BY DEF Init
    <2> QED BY <2>1, InitTypes DEF RecordInv
<1>2. RecordInv /\ [Next]_vars => RecordInv'
    BY NextRecords
<1>3. RecordInv => FileRecords
    BY DEF RecordInv, FileRecords, AtRest
<1> QED BY <1>1, <1>2, <1>3, PTL DEF Spec
=============================================================================
