---------------------------- MODULE VisionProofs ----------------------------
(***************************************************************************)
(* What the choice of the target is proved to do, for every set of         *)
(* predictions and every length of a report.                               *)
(*                                                                         *)
(* The invariant follows the loops.  ReportInv: the detections are the     *)
(* predictions that pass.  MembersInv: nms is at work on all detections of *)
(* one class.  SuppressionInv: the order falls, what is kept duplicates    *)
(* neither what is kept nor what is left, and what has gone is covered by  *)
(* something that is kept.  KeepInv: the same of the classes that are      *)
(* done.                                                                   *)
(***************************************************************************)
EXTENDS Vision, SequenceTheorems, NumberLemmas

Boxes == {b \in Int \X Int \X Int \X Int : b[1] <= b[3] /\ b[2] <= b[4]}
Detections == [box : Boxes, score : 0 .. 100, class : Classes]

VisionTypes ==
    /\ pc \in {"frame", "output", "classes", "nms", "objects", "done"}
    /\ predictions \in Seq(Predictions)
    /\ detections \in Seq(Detections)
    /\ classes \in SUBSET Classes
    /\ members \in Seq(DOMAIN detections)
    /\ order \in Seq(DOMAIN members) /\ kept \in Seq(DOMAIN members)
    /\ keep \in Seq(DOMAIN detections)

FrameInv ==
    /\ pc = "frame" => predictions = <<>>
    /\ pc \in {"frame", "output"} =>
          /\ detections = <<>> /\ classes = {} /\ members = <<>>
          /\ order = <<>> /\ kept = <<>> /\ keep = <<>>
    /\ pc \in {"objects", "done"} => classes = {}

ReportInv ==
    pc \notin {"frame", "output"} =>
        /\ \A i \in DOMAIN detections : \E p \in Seen : detections[i] = Detection(p)
        /\ \A p \in Seen : \E i \in DOMAIN detections : detections[i] = Detection(p)

\* The first makes the second superfluous.
Covers(d, e) == Duplicate(d, e) /\ d.score >= e.score

Current == {detections[members[k]].class : k \in DOMAIN members}

MembersInv ==
    pc = "nms" =>
        /\ \A i \in DOMAIN detections :
              detections[i].class \in Current => \E k \in DOMAIN members : members[k] = i
        /\ \A j, k \in DOMAIN members :
              /\ j # k => members[j] # members[k]
              /\ At(members, j).class = At(members, k).class
        /\ Current \cap classes = {}

Falling(m, o) ==
    \A i, j \in DOMAIN o :
        i < j => o[i] # o[j] /\ At(m, o[i]).score >= At(m, o[j]).score

Apart(m, s) ==
    \A n, k \in DOMAIN s : n # k => s[n] # s[k] /\ ~Duplicate(At(m, s[n]), At(m, s[k]))

Cleared(m, s, o) ==
    \A n \in DOMAIN s, i \in DOMAIN o :
        s[n] # o[i] /\ ~Duplicate(At(m, s[n]), At(m, o[i]))

Accounted(m, s, o) ==
    \A k \in DOMAIN m :
        \/ \E i \in DOMAIN o : o[i] = k
        \/ \E n \in DOMAIN s : Covers(At(m, s[n]), At(m, k))

SuppressionInv ==
    pc = "nms" =>
        /\ Falling(members, order)
        /\ Apart(members, kept)
        /\ Cleared(members, kept, order)
        /\ Accounted(members, kept, order)

\* The classes of which nothing is in keep yet.
Ahead == classes \cup (IF pc = "nms" THEN Current ELSE {})

KeepInv ==
    pc \notin {"frame", "output"} =>
        /\ \A n, k \in DOMAIN keep :
              n # k => keep[n] # keep[k] /\ ~Duplicate(detections[keep[n]], detections[keep[k]])
        /\ \A n \in DOMAIN keep : detections[keep[n]].class \notin Ahead
        /\ \A i \in DOMAIN detections :
              \/ detections[i].class \in Ahead
              \/ \E n \in DOMAIN keep : Covers(detections[keep[n]], detections[i])

\* What ChooseTarget has made of keep.
TargetInv ==
    pc = "done" =>
        target = IF keep = <<>> \/ CrowPresent \/ detections[keep[First]].score <= Confidence
                 THEN NoBox ELSE detections[keep[First]].box

VisionInv ==
    VisionTypes /\ FrameInv /\ ReportInv /\ MembersInv /\ SuppressionInv /\ KeepInv /\ TargetInv

----------------------------------------------------------------------------
(* The values *)

LEMMA ScoreIs ==
    ASSUME NEW p \in Predictions
    PROVE  Score(p) \in 0 .. 100 /\ \A c \in Classes : p.conf[c] <= Score(p)
<1> DEFINE T == {p.conf[c] : c \in Classes}
<1>1. p.conf \in [Classes -> 0 .. 100]
    BY PredictionsAssumption
<1>2. T \subseteq 0 .. 100 /\ T # {}
    BY <1>1 DEF Classes
<1>3. \E x \in T : \A y \in T : y <= x
    <2> HIDE DEF T
    <2> QED BY <1>2, GreatestExists
<1>4. \E s \in T : \A c \in Classes : p.conf[c] <= s
    BY <1>3
<1>5. Score(p) \in T /\ \A c \in Classes : p.conf[c] <= Score(p)
    BY <1>4, Zenon DEF Score
<1> QED BY <1>2, <1>5

LEMMA ClassIs ==
    ASSUME NEW p \in Predictions
    PROVE  ClassOf(p) \in Classes
<1> DEFINE T == {c \in Classes : p.conf[c] = Score(p)}
<1>1. p.conf \in [Classes -> 0 .. 100]
    BY PredictionsAssumption
<1>2. Score(p) \in {p.conf[c] : c \in Classes}
    <2> DEFINE V == {p.conf[c] : c \in Classes}
    <2>1. V \subseteq 0 .. 100 /\ V # {}
        BY <1>1 DEF Classes
    <2>2. \E x \in V : \A y \in V : y <= x
        <3> HIDE DEF V
        <3> QED BY <2>1, GreatestExists
    <2>3. \E s \in V : \A c \in Classes : p.conf[c] <= s
        BY <2>2
    <2> QED BY <2>3, Zenon DEF Score
<1>3. T # {}
    BY <1>2
<1>4. T \subseteq Nat
    BY DEF Classes, Crow, Magpie, Pigeon
<1>5. PICK c \in T : \A d \in T : c <= d
    <2> HIDE DEF T
    <2> QED BY <1>3, <1>4, LeastExists
<1>6. ASSUME NEW d \in Classes, d < c PROVE p.conf[d] < Score(p)
    <2>1. d \in Nat /\ c \in Nat
        BY <1>4 DEF Classes, Crow, Magpie, Pigeon
    <2>2. d \notin T
        BY <1>5, <1>6, <2>1
    <2>3. p.conf[d] # Score(p) /\ p.conf[d] <= Score(p) /\ Score(p) \in Int
        BY <2>2, ScoreIs
    <2>4. p.conf[d] \in Int
        BY <1>1
    <2> QED BY <2>3, <2>4
<1>7. \E e \in Classes : p.conf[e] = Score(p) /\ \A d \in Classes : d < e => p.conf[d] < Score(p)
    BY <1>6
<1> QED BY <1>7, Zenon DEF ClassOf

LEMMA DetectionIs ==
    ASSUME NEW p \in Predictions
    PROVE  Detection(p) \in Detections
<1>1. p.box \in Nat \X Nat \X Nat \X Nat
    BY PredictionsAssumption
<1>2. PICK x \in Nat, y \in Nat, w \in Nat, h \in Nat : p.box = <<x, y, w, h>>
    BY <1>1
<1>3. Xyxy(p.box) = <<2 * x - w, 2 * y - h, 2 * x + w, 2 * y + h>>
    BY <1>2 DEF Xyxy
<1>4. Xyxy(p.box) \in Boxes
    BY <1>3 DEF Boxes
<1> QED BY <1>4, ScoreIs, ClassIs DEF Detection, Detections

----------------------------------------------------------------------------
(* compute_iou and the cells that two boxes cover *)

\* What an interval of cells has, and what two intervals share.
LEMMA SpanIs ==
    ASSUME NEW a \in Int, NEW b \in Int
    PROVE  /\ IsFiniteSet(a + 1 .. b)
           /\ Cardinality(a + 1 .. b) = Larger(0, b - a)
<1>1. IsFiniteSet(a + 1 .. b) /\ Cardinality(a + 1 .. b) = IF a + 1 > b THEN 0 ELSE b - (a + 1) + 1
    BY FS_Interval
<1> QED BY <1>1 DEF Larger

LEMMA SpansMeet ==
    ASSUME NEW a \in Int, NEW b \in Int, NEW c \in Int, NEW d \in Int
    PROVE  (a + 1 .. b) \cap (c + 1 .. d) = (Larger(a, c) + 1 .. Smaller(b, d))
BY DEF Larger, Smaller

LEMMA CellsAre ==
    ASSUME NEW a \in Boxes
    PROVE  IsFiniteSet(Cells(a)) /\ Cardinality(Cells(a)) = Area(a)
<1>1. /\ a[1] \in Int /\ a[2] \in Int /\ a[3] \in Int /\ a[4] \in Int
      /\ a[1] <= a[3] /\ a[2] <= a[4]
    BY DEF Boxes
<1> DEFINE S == a[1] + 1 .. a[3]
           T == a[2] + 1 .. a[4]
<1>2. IsFiniteSet(S) /\ Cardinality(S) = a[3] - a[1]
    BY <1>1, SpanIs DEF Larger
<1>3. IsFiniteSet(T) /\ Cardinality(T) = a[4] - a[2]
    BY <1>1, SpanIs DEF Larger
<1>4. Cells(a) = S \X T
    BY DEF Cells
<1> HIDE DEF S, T
<1> QED BY <1>2, <1>3, <1>4, FS_Product DEF Area

LEMMA CellsMeet ==
    ASSUME NEW a \in Boxes, NEW b \in Boxes
    PROVE  Cardinality(Cells(a) \cap Cells(b)) = Intersection(a, b)
<1>1. PICK p \in Int, q \in Int, r \in Int, s \in Int :
          a[1] = p /\ a[2] = q /\ a[3] = r /\ a[4] = s
    BY DEF Boxes
<1>2. PICK v \in Int, w \in Int, x \in Int, y \in Int :
          b[1] = v /\ b[2] = w /\ b[3] = x /\ b[4] = y
    BY DEF Boxes
<1> DEFINE S == Larger(p, v) + 1 .. Smaller(r, x)
           T == Larger(q, w) + 1 .. Smaller(s, y)
<1>3. (p + 1 .. r) \cap (v + 1 .. x) = S /\ (q + 1 .. s) \cap (w + 1 .. y) = T
    BY SpansMeet
<1>4. Cells(a) = (p + 1 .. r) \X (q + 1 .. s) /\ Cells(b) = (v + 1 .. x) \X (w + 1 .. y)
    BY <1>1, <1>2 DEF Cells
<1>5. ASSUME NEW A, NEW B, NEW C, NEW D
      PROVE  (A \X C) \cap (B \X D) = (A \cap B) \X (C \cap D)
    OBVIOUS
<1>6. Cells(a) \cap Cells(b) = S \X T
    <2> HIDE DEF S, T
    <2> QED BY <1>3, <1>4, <1>5, Zenon
<1>7. IsFiniteSet(S) /\ Cardinality(S) = Larger(0, Smaller(r, x) - Larger(p, v))
    <2>1. Larger(p, v) \in Int /\ Smaller(r, x) \in Int
        BY DEF Larger, Smaller
    <2> QED BY <2>1, SpanIs
<1>8. IsFiniteSet(T) /\ Cardinality(T) = Larger(0, Smaller(s, y) - Larger(q, w))
    <2>1. Larger(q, w) \in Int /\ Smaller(s, y) \in Int
        BY DEF Larger, Smaller
    <2> QED BY <2>1, SpanIs
<1>9. Intersection(a, b) =
          Larger(0, Smaller(r, x) - Larger(p, v)) * Larger(0, Smaller(s, y) - Larger(q, w))
    BY <1>1, <1>2 DEF Intersection
<1> HIDE DEF S, T
<1> QED BY <1>6, <1>7, <1>8, <1>9, FS_Product

\* compute_iou counts cells: two boxes pass the threshold exactly if they cover
\* less than half of their union twice.
LEMMA ThresholdIs ==
    ASSUME NEW a \in Boxes, NEW b \in Boxes
    PROVE  BelowThreshold(a, b) <=>
              2 * Cardinality(Cells(a) \cap Cells(b)) < Cardinality(Cells(a) \cup Cells(b))
<1> DEFINE i == Cardinality(Cells(a) \cap Cells(b))
           u == Cardinality(Cells(a) \cup Cells(b))
<1>1. i = Intersection(a, b)
    BY CellsMeet
<1>2. /\ IsFiniteSet(Cells(a)) /\ Cardinality(Cells(a)) = Area(a)
      /\ IsFiniteSet(Cells(b)) /\ Cardinality(Cells(b)) = Area(b)
    BY CellsAre
<1>3. IsFiniteSet(Cells(a) \cup Cells(b)) /\ u = Area(a) + Area(b) - Intersection(a, b)
    BY <1>1, <1>2, FS_Union
<1>4. IsFiniteSet(Cells(a) \cap Cells(b))
    BY <1>2, FS_Intersection
<1>5. i \in Nat /\ u \in Nat
    BY <1>3, <1>4, FS_CardinalityType
<1> HIDE DEF i, u
<1>6. BelowThreshold(a, b) <=> u # 0 /\ 2 * i < u
    BY <1>1, <1>3 DEF BelowThreshold
<1> QED BY <1>5, <1>6 DEF i, u

LEMMA DuplicateIs ==
    ASSUME NEW d \in Detections, NEW e \in Detections
    PROVE  Duplicate(d, e) <=> d.class = e.class /\ ~BelowThreshold(d.box, e.box)
<1>1. d.box \in Boxes /\ e.box \in Boxes
    BY DEF Detections
<1> DEFINE i == Cardinality(Cells(d.box) \cap Cells(e.box))
           u == Cardinality(Cells(d.box) \cup Cells(e.box))
<1>2. BelowThreshold(d.box, e.box) <=> 2 * i < u
    BY <1>1, ThresholdIs
<1>3. i \in Nat /\ u \in Nat
    BY <1>1, CellsAre, FS_Union, FS_Intersection, FS_CardinalityType
<1>4. Duplicate(d, e) <=> d.class = e.class /\ 2 * i >= u
    BY DEF Duplicate
<1> HIDE DEF i, u
<1> QED BY <1>2, <1>3, <1>4

LEMMA DuplicateCommutes ==
    ASSUME NEW d, NEW e
    PROVE  Duplicate(d, e) <=> Duplicate(e, d)
<1>1. Cells(d.box) \cap Cells(e.box) = Cells(e.box) \cap Cells(d.box)
    OBVIOUS
<1>2. Cells(d.box) \cup Cells(e.box) = Cells(e.box) \cup Cells(d.box)
    OBVIOUS
<1> QED BY <1>1, <1>2, Zenon DEF Duplicate

LEMMA CoversItself ==
    ASSUME NEW d \in Detections
    PROVE  Covers(d, d)
<1>1. d.box \in Boxes /\ d.score \in Int
    BY DEF Detections
<1> DEFINE c == Cardinality(Cells(d.box))
<1>2. c \in Nat
    BY <1>1, CellsAre, FS_CardinalityType
<1>3. Duplicate(d, d) <=> 2 * c >= c
    <2>1. Cells(d.box) \cap Cells(d.box) = Cells(d.box) /\ Cells(d.box) \cup Cells(d.box) = Cells(d.box)
        OBVIOUS
    <2> QED BY <2>1, Zenon DEF Duplicate
<1> HIDE DEF c
<1> QED BY <1>1, <1>2, <1>3 DEF Covers

----------------------------------------------------------------------------
(* Listings *)

LEMMA IntervalPart ==
    ASSUME NEW n \in Nat, NEW S \in SUBSET (1 .. n)
    PROVE  IsFiniteSet(S) /\ S \subseteq Int
<1>1. IsFiniteSet(1 .. n)
    BY FS_Interval
<1>2. S \subseteq Int
    OBVIOUS
<1>3. IsFiniteSet(S)
    BY <1>1, FS_Subset
<1> QED BY <1>2, <1>3

LEMMA ListingIs ==
    ASSUME NEW S, IsFiniteSet(S), S \subseteq Int, NEW l \in Listings(S)
    PROVE  /\ l \in Seq(S)
           /\ \A x \in S : \E i \in DOMAIN l : l[i] = x
           /\ \A i, j \in DOMAIN l : i # j => l[i] # l[j]
           /\ \A i, j \in DOMAIN l : i < j => l[i] < l[j]
<1> DEFINE c == Cardinality(S)
<1>3. c \in Nat
    BY FS_CardinalityType
<1>4. /\ l \in [1 .. c -> S]
      /\ \A x \in S : \E i \in DOMAIN l : l[i] = x
      /\ \A i, j \in DOMAIN l : i < j => l[i] < l[j]
    BY DEF Listings
<1> HIDE DEF c
<1>5. l \in Seq(S) /\ DOMAIN l = 1 .. c
    BY <1>3, <1>4
<1>6. ASSUME NEW i \in DOMAIN l, NEW j \in DOMAIN l, i # j PROVE l[i] # l[j]
    <2>1. i < j \/ j < i
        BY <1>3, <1>5, <1>6
    <2>2. l[i] < l[j] \/ l[j] < l[i]
        BY <1>4, <2>1
    <2>3. l[i] \in S /\ l[j] \in S
        BY <1>4, <1>5
    <2>4. l[i] \in Int /\ l[j] \in Int
        BY <2>3, Zenon
    <2> QED BY <2>2, <2>4
<1> QED BY <1>4, <1>5, <1>6

----------------------------------------------------------------------------
(* The steps *)

LEMMA VisionInit == Init => VisionInv
<1> SUFFICES ASSUME Init PROVE VisionInv
    OBVIOUS
<1>1. VisionTypes
    BY DEF Init, VisionTypes
<1>2. FrameInv /\ ReportInv /\ MembersInv /\ SuppressionInv /\ KeepInv /\ TargetInv
    BY DEF Init, FrameInv, ReportInv, MembersInv, SuppressionInv, KeepInv, TargetInv
<1> QED BY <1>1, <1>2 DEF VisionInv

\* The detections are those of the predictions that pass.
LEMMA ProcessOutputStep ==
    ASSUME VisionInv, ProcessOutput
    PROVE  VisionInv'
<1>1. /\ pc = "output" /\ predictions \in Seq(Predictions)
      /\ members = <<>> /\ order = <<>> /\ kept = <<>> /\ keep = <<>>
    BY DEF VisionInv, VisionTypes, FrameInv, ProcessOutput
<1>2. /\ UNCHANGED <<predictions, members, order, kept, keep, target>>
      /\ classes' = {detections'[i].class : i \in DOMAIN detections'}
      /\ pc' = IF detections' = <<>> THEN "objects" ELSE "classes"
    BY DEF ProcessOutput
<1> DEFINE S == {i \in DOMAIN predictions : Passing(predictions[i])}
<1>3. PICK some \in Listings(S) :
          detections' = [n \in DOMAIN some |-> Detection(predictions[some[n]])]
    BY DEF ProcessOutput
<1>4. Len(predictions) \in Nat /\ S \in SUBSET (1 .. Len(predictions))
    BY <1>1
<1>5. some \in Seq(S) /\ \A x \in S : \E i \in DOMAIN some : some[i] = x
    <2>1. IsFiniteSet(S) /\ S \subseteq Int
        BY <1>4, IntervalPart
    <2> HIDE DEF S
    <2> QED BY <2>1, ListingIs
<1>6. ASSUME NEW k \in DOMAIN some
      PROVE  /\ some[k] \in DOMAIN predictions /\ Passing(predictions[some[k]])
             /\ predictions[some[k]] \in Predictions
    <2>1. some[k] \in S
        <3> HIDE DEF S
        <3> QED BY <1>5
    <2> QED BY <1>1, <2>1
<1>7. detections' \in Seq(Detections) /\ DOMAIN detections' = DOMAIN some
    <2>1. DOMAIN some = 1 .. Len(some) /\ Len(some) \in Nat
        <3> HIDE DEF S
        <3> QED BY <1>5
    <2>2. \A k \in DOMAIN some : Detection(predictions[some[k]]) \in Detections
        BY <1>6, DetectionIs
    <2> QED BY <1>3, <2>1, <2>2
<1>8. classes' \in SUBSET Classes
    <2>1. \A i \in DOMAIN detections' : detections'[i] \in Detections
        BY <1>7
    <2> QED BY <1>2, <2>1 DEF Detections
<1>9. VisionTypes'
    BY <1>1, <1>2, <1>7, <1>8 DEF VisionTypes
<1>10. FrameInv'
    <2>1. detections' = <<>> => classes' = {}
        BY <1>2
    <2> QED BY <1>2, <2>1 DEF FrameInv
<1>11. ReportInv'
    <2>1. ASSUME NEW i \in DOMAIN detections'
          PROVE  \E p \in Seen' : detections'[i] = Detection(p)
        <3>1. predictions[some[i]] \in Seen
            BY <1>6, <1>7 DEF Seen
        <3> QED BY <1>2, <1>3, <1>7, <3>1 DEF Seen
    <2>2. ASSUME NEW p \in Seen'
          PROVE  \E i \in DOMAIN detections' : detections'[i] = Detection(p)
        <3>1. PICK i \in DOMAIN predictions : p = predictions[i] /\ Passing(p)
            BY <1>2, <2>2 DEF Seen
        <3>2. PICK k \in DOMAIN some : some[k] = i
            BY <1>5, <3>1
        <3> QED BY <1>3, <1>7, <3>1, <3>2
    <2> QED BY <2>1, <2>2 DEF ReportInv
<1>12. MembersInv' /\ SuppressionInv' /\ TargetInv'
    BY <1>2 DEF MembersInv, SuppressionInv, TargetInv
<1>13. KeepInv'
    <2>1. keep' = <<>> /\ \A i \in DOMAIN detections' : detections'[i].class \in classes'
        BY <1>1, <1>2
    <2>2. \A i \in DOMAIN detections' : detections'[i].class \in Ahead'
        BY <2>1 DEF Ahead
    <2> QED BY <2>1, <2>2 DEF KeepInv
<1> QED BY <1>9, <1>10, <1>11, <1>12, <1>13 DEF VisionInv

\* The order in which nms begins has every member once.
LEMMA OrderIs ==
    ASSUME NEW n \in Nat, NEW o \in [1 .. n -> 1 .. n],
           \A k \in 1 .. n : \E i \in 1 .. n : o[i] = k
    PROVE  \A i, j \in 1 .. n : i # j => o[i] # o[j]
<1>1. o \in Surjection(1 .. n, 1 .. n)
    BY DEF Surjection
<1>2. IsFiniteSet(1 .. n)
    BY FS_Interval
<1>3. o \in Injection(1 .. n, 1 .. n)
    BY <1>1, <1>2, FS_SurjSameCardinalityImpliesInj
<1> QED BY <1>3 DEF Injection, IsInjective

LEMMA NextClassStep ==
    ASSUME VisionInv, NextClass
    PROVE  VisionInv'
<1>1. pc = "classes" /\ pc' = "nms" /\ kept' = <<>>
    BY DEF NextClass
<1>2. UNCHANGED <<predictions, detections, keep, target>>
    BY DEF NextClass
<1>3. PICK c \in classes : classes' = classes \ {c} /\ members' \in Listings(PlacesOf(c))
    BY DEF NextClass
<1>4. PICK m : m = members'
    OBVIOUS
<1>5. PICK o : o = order'
    OBVIOUS
<1>6. o \in [DOMAIN m -> DOMAIN m] /\ Ordered(m, o)
    BY <1>4, <1>5 DEF NextClass
<1>7. detections \in Seq(Detections) /\ classes \in SUBSET Classes
    BY DEF VisionInv, VisionTypes
<1>8. Len(detections) \in Nat /\ PlacesOf(c) \in SUBSET (1 .. Len(detections))
    BY <1>7 DEF PlacesOf
<1>9. /\ m \in Seq(PlacesOf(c))
      /\ \A x \in PlacesOf(c) : \E i \in DOMAIN m : m[i] = x
      /\ \A i, j \in DOMAIN m : i # j => m[i] # m[j]
    <2>1. IsFiniteSet(PlacesOf(c)) /\ PlacesOf(c) \subseteq Int
        BY <1>8, IntervalPart
    <2> QED BY <1>3, <1>4, <2>1, ListingIs
<1>10. \A k \in DOMAIN m : m[k] \in DOMAIN detections /\ detections[m[k]].class = c
    <2>1. \A k \in DOMAIN m : m[k] \in PlacesOf(c)
        BY <1>9
    <2> QED BY <2>1 DEF PlacesOf
<1>11. Len(m) \in Nat /\ DOMAIN m = 1 .. Len(m)
    BY <1>9
<1>12. \A i, j \in DOMAIN o : i # j => o[i] # o[j]
    <2> DEFINE n == Len(m)
    <2>1. n \in Nat /\ DOMAIN m = 1 .. n
        BY <1>11
    <2> HIDE DEF n
    <2>2. o \in [1 .. n -> 1 .. n] /\ DOMAIN o = 1 .. n /\ \A k \in 1 .. n : \E i \in 1 .. n : o[i] = k
        BY <1>6, <2>1 DEF Ordered
    <2>3. \A i, j \in 1 .. n : i # j => o[i] # o[j]
        BY <2>1, <2>2, OrderIs
    <2> QED BY <2>2, <2>3
<1>13. VisionTypes'
    <2>1. m \in Seq(DOMAIN detections)
        BY <1>9 DEF PlacesOf
    <2>2. o \in Seq(DOMAIN m)
        BY <1>6, <1>11
    <2> QED BY <1>1, <1>2, <1>3, <1>4, <1>5, <2>1, <2>2 DEF VisionInv, VisionTypes
<1>14. FrameInv' /\ TargetInv'
    BY <1>1 DEF FrameInv, TargetInv
<1>15. ReportInv'
    BY <1>1, <1>2 DEF VisionInv, ReportInv, Seen
<1>16. \A x \in Current' : x = c
    BY <1>2, <1>4, <1>10 DEF Current
<1>17. ASSUME NEW i \in DOMAIN detections, detections[i].class = c
       PROVE  \E k \in DOMAIN members' : members'[k] = i
    <2>1. i \in PlacesOf(c)
        BY <1>17 DEF PlacesOf
    <2> QED BY <1>4, <1>9, <2>1
<1>18. MembersInv'
    <2>1. \A i \in DOMAIN detections' :
              detections'[i].class \in Current' => \E k \in DOMAIN members' : members'[k] = i
        BY <1>2, <1>16, <1>17
    <2>2. \A j, k \in DOMAIN m :
              (j # k => m[j] # m[k]) /\ detections[m[j]].class = detections[m[k]].class
        BY <1>9, <1>10
    <2>3. Current' \cap classes' = {}
        BY <1>3, <1>16
    <2> QED BY <1>2, <1>4, <2>1, <2>2, <2>3 DEF MembersInv, At
<1>19. SuppressionInv'
    <2>1. Falling(m, o)
        <3>1. \A i, j \in DOMAIN o : i < j => i # j
            BY <1>6, <1>11
        <3> QED BY <1>6, <1>12, <3>1 DEF Falling, Ordered
    <2>2. Accounted(m, <<>>, o)
        BY <1>6 DEF Accounted, Ordered
    <2>3. Apart(m, <<>>) /\ Cleared(m, <<>>, o)
        BY DEF Apart, Cleared
    <2>4. Falling(members, order)' /\ Accounted(members, kept, order)'
        BY <1>1, <1>2, <1>4, <1>5, <2>1, <2>2 DEF Falling, Accounted, At
    <2>5. Apart(members, kept)' /\ Cleared(members, kept, order)'
        BY <1>1, <1>2, <1>4, <1>5, <2>3 DEF Apart, Cleared, At
    <2> QED BY <2>4, <2>5 DEF SuppressionInv
<1>20. KeepInv'
    <2>1. KeepInv /\ Ahead = classes
        BY <1>1 DEF VisionInv, Ahead
    <2>2. Ahead' \subseteq classes
        BY <1>1, <1>3, <1>16 DEF Ahead
    <2>3. ASSUME NEW i \in DOMAIN detections, detections[i].class \in classes
          PROVE  detections[i].class \in Ahead'
        <3>1. CASE detections[i].class = c
            BY <1>1, <1>2, <1>4, <1>17, <3>1 DEF Ahead, Current
        <3>2. CASE detections[i].class # c
            BY <1>3, <2>3, <3>2 DEF Ahead
        <3> QED BY <3>1, <3>2
    <2>4. /\ \A n, k \in DOMAIN keep :
                n # k => keep[n] # keep[k] /\ ~Duplicate(detections[keep[n]], detections[keep[k]])
          /\ \A n \in DOMAIN keep : detections[keep[n]].class \notin classes
          /\ \A i \in DOMAIN detections :
                \/ detections[i].class \in classes
                \/ \E n \in DOMAIN keep : Covers(detections[keep[n]], detections[i])
        BY <1>1, <2>1, Zenon DEF KeepInv
    <2>5. \A n \in DOMAIN keep : detections[keep[n]].class \notin Ahead'
        BY <2>2, <2>4
    <2>6. \A i \in DOMAIN detections :
                \/ detections[i].class \in Ahead'
                \/ \E n \in DOMAIN keep : Covers(detections[keep[n]], detections[i])
        BY <2>3, <2>4
    <2> QED BY <1>2, <2>4, <2>5, <2>6 DEF KeepInv
<1> QED BY <1>13, <1>14, <1>15, <1>18, <1>19, <1>20 DEF VisionInv

\* What Pick takes goes to kept, and what is left does not duplicate it; what goes
\* is covered by it, because the order falls.
LEMMA PickStep ==
    ASSUME VisionInv, Pick
    PROVE  VisionInv'
<1>1. /\ pc = "nms" /\ pc' = "nms" /\ order # <<>> /\ kept' = Append(kept, Head(order))
      /\ UNCHANGED <<predictions, detections, classes, members, keep, target>>
    BY DEF Pick
<1>2. PICK rest \in Listings(Survivors(order)) :
          order' = [n \in DOMAIN rest |-> order[rest[n] + 1]]
    BY DEF Pick
<1>3. /\ order \in Seq(DOMAIN members) /\ kept \in Seq(DOMAIN members)
      /\ members \in Seq(DOMAIN detections) /\ detections \in Seq(Detections)
    BY DEF VisionInv, VisionTypes
<1>4. SuppressionInv
    BY DEF VisionInv
<1>5. /\ Falling(members, order) /\ Apart(members, kept)
      /\ Cleared(members, kept, order) /\ Accounted(members, kept, order)
    BY <1>1, <1>4 DEF SuppressionInv
<1> DEFINE l == Len(order)
           n0 == Len(kept)
<1>6. /\ l \in Nat /\ l >= 1 /\ DOMAIN order = 1 .. l /\ Head(order) = order[1]
      /\ n0 \in Nat /\ DOMAIN kept = 1 .. n0
    BY <1>1, <1>3
<1>7. \A k \in DOMAIN members : At(members, k) \in Detections
    BY <1>3 DEF At
<1>8. /\ Len(kept') = n0 + 1 /\ DOMAIN kept' = 1 .. n0 + 1 /\ kept'[n0 + 1] = order[1]
      /\ \A n \in 1 .. n0 : kept'[n] = kept[n]
    BY <1>1, <1>3, <1>6
<1>9. Survivors(order) \in SUBSET (1 .. l - 1)
    BY <1>6 DEF Survivors
<1> HIDE DEF l, n0
<1>10. /\ rest \in Seq(Survivors(order))
       /\ \A x \in Survivors(order) : \E i \in DOMAIN rest : rest[i] = x
       /\ \A i, j \in DOMAIN rest : i < j => rest[i] < rest[j]
    <2> DEFINE n == l - 1
               S == Survivors(order)
    <2>1. n \in Nat /\ S \in SUBSET (1 .. n) /\ rest \in Listings(S)
        BY <1>2, <1>6, <1>9
    <2>2. IsFiniteSet(S) /\ S \subseteq Int
        BY <2>1, IntervalPart
    <2> HIDE DEF n, S
    <2>3. /\ rest \in Seq(S)
          /\ \A x \in S : \E i \in DOMAIN rest : rest[i] = x
          /\ \A i, j \in DOMAIN rest : i < j => rest[i] < rest[j]
        BY <2>1, <2>2, ListingIs
    <2> QED BY <2>3 DEF S
<1>11. Len(rest) \in Nat /\ DOMAIN rest = 1 .. Len(rest)
    BY <1>10
\* A place of the rest is a later place of the order.
<1>12. ASSUME NEW k \in DOMAIN rest
       PROVE  /\ rest[k] + 1 \in 2 .. l /\ rest[k] + 1 \in DOMAIN order
              /\ rest[k] \in Survivors(order) /\ order'[k] = order[rest[k] + 1]
    <2>1. rest[k] \in Survivors(order)
        BY <1>10
    <2>2. rest[k] \in 1 .. l - 1
        BY <1>9, <2>1
    <2> QED BY <1>2, <1>6, <2>1, <2>2
<1>13. order' \in Seq(DOMAIN members) /\ DOMAIN order' = DOMAIN rest
    <2>1. \A k \in DOMAIN rest : order[rest[k] + 1] \in DOMAIN members
        BY <1>3, <1>12
    <2> QED BY <1>2, <1>11, <2>1
<1>14. order[1] \in DOMAIN members /\ 1 \in DOMAIN order
    BY <1>3, <1>6
<1>15. VisionTypes'
    <2>1. kept' \in Seq(DOMAIN members)
        BY <1>1, <1>3, <1>6, <1>14
    <2> QED BY <1>1, <1>13, <2>1 DEF VisionInv, VisionTypes
<1>16. FrameInv' /\ TargetInv'
    BY <1>1 DEF FrameInv, TargetInv
<1>17. ReportInv'
    BY <1>1 DEF VisionInv, ReportInv, Seen
<1>18. MembersInv'
    BY <1>1 DEF VisionInv, MembersInv, Current, At
<1>19. KeepInv'
    BY <1>1 DEF VisionInv, KeepInv, Ahead, Current
<1>20. Falling(members, order')
    <2> SUFFICES ASSUME NEW i \in DOMAIN rest, NEW j \in DOMAIN rest, i < j
                 PROVE  /\ order'[i] # order'[j]
                        /\ At(members, order'[i]).score >= At(members, order'[j]).score
        BY <1>13 DEF Falling
    <2>1. rest[i] + 1 < rest[j] + 1
        <3>1. rest[i] < rest[j] /\ rest[i] \in 1 .. l - 1 /\ rest[j] \in 1 .. l - 1
            BY <1>9, <1>10, <1>12
        <3> QED BY <1>6, <3>1
    <2>2. /\ order[rest[i] + 1] # order[rest[j] + 1]
          /\ At(members, order[rest[i] + 1]).score >= At(members, order[rest[j] + 1]).score
        BY <1>5, <1>12, <2>1, Zenon DEF Falling
    <2> QED BY <1>12, <2>2
\* The picked one and what is left.
<1>21. ASSUME NEW i \in DOMAIN rest
       PROVE  order[1] # order'[i] /\ ~Duplicate(At(members, order[1]), At(members, order'[i]))
    <2>1. 1 < rest[i] + 1
        BY <1>6, <1>12
    <2>2. order[1] # order[rest[i] + 1]
        BY <1>5, <1>12, <1>14, <2>1 DEF Falling
    <2>3. BelowThreshold(At(members, order[1]).box, At(members, order[rest[i] + 1]).box)
        BY <1>12 DEF Survivors
    <2>4. order'[i] = order[rest[i] + 1] /\ order'[i] \in DOMAIN members
        BY <1>3, <1>12
    <2>5. ~Duplicate(At(members, order[1]), At(members, order[rest[i] + 1]))
        BY <1>7, <1>14, <2>3, <2>4, DuplicateIs
    <2> QED BY <2>2, <2>4, <2>5
<1>22. Cleared(members, kept', order')
    <2> SUFFICES ASSUME NEW n \in 1 .. n0 + 1, NEW i \in DOMAIN rest
                 PROVE  /\ kept'[n] # order'[i]
                        /\ ~Duplicate(At(members, kept'[n]), At(members, order'[i]))
        BY <1>8, <1>13 DEF Cleared
    <2>1. CASE n = n0 + 1
        BY <1>8, <1>21, <2>1
    <2>2. CASE n # n0 + 1
        <3>1. n \in 1 .. n0
            BY <1>6, <2>2
        <3> QED BY <1>5, <1>6, <1>8, <1>12, <3>1 DEF Cleared
    <2> QED BY <2>1, <2>2
<1>23. Apart(members, kept')
    <2> SUFFICES ASSUME NEW n \in 1 .. n0 + 1, NEW k \in 1 .. n0 + 1, n # k
                 PROVE  /\ kept'[n] # kept'[k]
                        /\ ~Duplicate(At(members, kept'[n]), At(members, kept'[k]))
        BY <1>8 DEF Apart
    <2>1. ASSUME NEW j \in 1 .. n0
          PROVE  kept[j] # order[1] /\ ~Duplicate(At(members, kept[j]), At(members, order[1]))
        BY <1>5, <1>6, <1>14 DEF Cleared
    <2>2. CASE n = n0 + 1
        <3>1. k \in 1 .. n0
            BY <1>6, <2>2
        <3> QED BY <1>8, <2>1, <2>2, <3>1, DuplicateCommutes
    <2>3. CASE n # n0 + 1 /\ k = n0 + 1
        <3>1. n \in 1 .. n0
            BY <1>6, <2>3
        <3> QED BY <1>8, <2>1, <2>3, <3>1
    <2>4. CASE n # n0 + 1 /\ k # n0 + 1
        <3>1. n \in 1 .. n0 /\ k \in 1 .. n0
            BY <1>6, <2>4
        <3> QED BY <1>5, <1>6, <1>8, <3>1 DEF Apart
    <2> QED BY <2>2, <2>3, <2>4
<1>24. Accounted(members, kept', order')
    <2> SUFFICES ASSUME NEW k \in DOMAIN members
                 PROVE  \/ \E i \in DOMAIN order' : order'[i] = k
                        \/ \E n \in DOMAIN kept' : Covers(At(members, kept'[n]), At(members, k))
        BY DEF Accounted
    <2>1. n0 + 1 \in DOMAIN kept' /\ \A n \in DOMAIN kept : n \in DOMAIN kept' /\ kept'[n] = kept[n]
        BY <1>6, <1>8
    <2>2. CASE \E n \in DOMAIN kept : Covers(At(members, kept[n]), At(members, k))
        BY <2>1, <2>2
    <2>3. ASSUME NEW i \in DOMAIN order, order[i] = k, i = 1 PROVE Covers(At(members, order[1]), At(members, k))
        BY <1>7, <2>3, CoversItself
    <2>4. ASSUME NEW i \in DOMAIN order, order[i] = k, i # 1, i - 1 \in Survivors(order)
          PROVE  \E j \in DOMAIN order' : order'[j] = k
        <3>1. PICK j \in DOMAIN rest : rest[j] = i - 1
            BY <1>10, <2>4
        <3>2. rest[j] + 1 = i
            BY <1>6, <3>1
        <3> QED BY <1>12, <1>13, <2>4, <3>2
    <2>5. ASSUME NEW i \in DOMAIN order, order[i] = k, i # 1, i - 1 \notin Survivors(order)
          PROVE  Covers(At(members, order[1]), At(members, k))
        <3>1. i - 1 \in 1 .. l - 1 /\ (i - 1) + 1 = i /\ 1 < i
            BY <1>6, <2>5
        <3>2. ~BelowThreshold(At(members, order[1]).box, At(members, order[i]).box)
            BY <2>5, <3>1 DEF Survivors, l
        <3>3. At(members, order[1]).class = At(members, k).class
            BY <1>1, <1>14 DEF VisionInv, MembersInv
        <3>4. At(members, order[1]).score >= At(members, order[i]).score
            BY <1>5, <1>14, <3>1 DEF Falling
        <3>5. Duplicate(At(members, order[1]), At(members, k))
            BY <1>7, <1>14, <2>5, <3>2, <3>3, DuplicateIs
        <3> QED BY <2>5, <3>4, <3>5 DEF Covers
    <2>6. \/ \E i \in DOMAIN order : order[i] = k
          \/ \E n \in DOMAIN kept : Covers(At(members, kept[n]), At(members, k))
        BY <1>5 DEF Accounted
    <2> QED BY <1>8, <2>1, <2>2, <2>3, <2>4, <2>5, <2>6
<1>25. SuppressionInv'
    <2>1. Falling(members, order)' /\ Apart(members, kept)'
        BY <1>1, <1>20, <1>23 DEF Falling, Apart, At
    <2>2. Cleared(members, kept, order)' /\ Accounted(members, kept, order)'
        BY <1>1, <1>22, <1>24 DEF Cleared, Accounted, At
    <2> QED BY <2>1, <2>2 DEF SuppressionInv
<1> QED BY <1>15, <1>16, <1>17, <1>18, <1>19, <1>25 DEF VisionInv

\* What the class leaves in kept goes to keep; nothing in keep is of that class.
LEMMA ClassDoneStep ==
    ASSUME VisionInv, ClassDone
    PROVE  VisionInv'
<1>1. /\ pc = "nms" /\ pc' = "classes" /\ order = <<>>
      /\ keep' = keep \o [n \in DOMAIN kept |-> members[kept[n]]]
      /\ UNCHANGED <<predictions, detections, classes, members, order, kept, target>>
    BY DEF ClassDone
<1>2. /\ kept \in Seq(DOMAIN members) /\ members \in Seq(DOMAIN detections)
      /\ detections \in Seq(Detections) /\ keep \in Seq(DOMAIN detections)
    BY DEF VisionInv, VisionTypes
<1> DEFINE s == [n \in DOMAIN kept |-> members[kept[n]]]
           a == Len(keep)
           b == Len(kept)
<1>3. a \in Nat /\ DOMAIN keep = 1 .. a /\ b \in Nat /\ DOMAIN kept = 1 .. b
    BY <1>2
<1>4. /\ s \in Seq(DOMAIN detections) /\ Len(s) = b /\ DOMAIN s = 1 .. b
      /\ \A n \in 1 .. b : s[n] = members[kept[n]]
    <2>1. \A n \in 1 .. b : members[kept[n]] \in DOMAIN detections
        BY <1>2, <1>3
    <2> QED BY <1>3, <2>1
<1> HIDE DEF s
<1>5. /\ keep' \in Seq(DOMAIN detections) /\ DOMAIN keep' = 1 .. a + b
      /\ \A n \in 1 .. a : keep'[n] = keep[n]
      /\ \A n \in 1 .. b : keep'[a + n] = s[n]
    <2>1. keep' = keep \o s
        BY <1>1 DEF s
    <2>2. keep' \in Seq(DOMAIN detections) /\ Len(keep') = a + b
        BY <1>2, <1>3, <1>4, <2>1
    <2>3. \A n \in 1 .. a : keep'[n] = keep[n]
        BY <1>2, <1>3, <1>4, <2>1
    <2>4. \A n \in 1 .. b : keep'[a + n] = s[n]
        BY <1>2, <1>3, <1>4, <2>1
    <2> HIDE DEF a, b
    <2>5. DOMAIN keep' = 1 .. a + b
        BY <2>2
    <2> QED BY <2>2, <2>3, <2>4, <2>5
<1> HIDE DEF a, b
<1>6. /\ Apart(members, kept) /\ Accounted(members, kept, order)
      /\ \A i \in DOMAIN detections :
            detections[i].class \in Current => \E k \in DOMAIN members : members[k] = i
      /\ \A j, k \in DOMAIN members : j # k => members[j] # members[k]
      /\ Current \cap classes = {}
    BY <1>1 DEF VisionInv, SuppressionInv, MembersInv
<1>7. /\ \A n, k \in DOMAIN keep :
              n # k => keep[n] # keep[k] /\ ~Duplicate(detections[keep[n]], detections[keep[k]])
      /\ \A n \in DOMAIN keep :
            detections[keep[n]].class \notin classes /\ detections[keep[n]].class \notin Current
      /\ \A i \in DOMAIN detections :
            \/ detections[i].class \in classes \/ detections[i].class \in Current
            \/ \E n \in DOMAIN keep : Covers(detections[keep[n]], detections[i])
    BY <1>1 DEF VisionInv, KeepInv, Ahead
<1>8. ASSUME NEW n \in 1 .. b
      PROVE  /\ kept[n] \in DOMAIN members /\ s[n] = members[kept[n]]
             /\ detections[s[n]].class \in Current /\ At(members, kept[n]) = detections[s[n]]
    BY <1>2, <1>3, <1>4 DEF Current, At
<1>9. VisionTypes'
    BY <1>1, <1>5 DEF VisionInv, VisionTypes
<1>10. FrameInv' /\ TargetInv' /\ MembersInv' /\ SuppressionInv'
    BY <1>1 DEF FrameInv, TargetInv, MembersInv, SuppressionInv
<1>11. ReportInv'
    BY <1>1 DEF VisionInv, ReportInv, Seen
\* What is new in keep, against the old and against the new.
<1>12. ASSUME NEW n \in 1 .. a, NEW k \in 1 .. b
       PROVE  keep[n] # s[k] /\ ~Duplicate(detections[keep[n]], detections[s[k]])
    <2>1. detections[keep[n]].class # detections[s[k]].class
        BY <1>3, <1>7, <1>8
    <2> QED BY <2>1 DEF Duplicate
<1>13. ASSUME NEW n \in 1 .. b, NEW k \in 1 .. b, n # k
       PROVE  s[n] # s[k] /\ ~Duplicate(detections[s[n]], detections[s[k]])
    <2>1. kept[n] # kept[k] /\ ~Duplicate(At(members, kept[n]), At(members, kept[k]))
        BY <1>3, <1>6, <1>13 DEF Apart
    <2> QED BY <1>6, <1>8, <2>1
<1>14. ASSUME NEW n \in DOMAIN keep', n \notin 1 .. a
       PROVE  n - a \in 1 .. b /\ keep'[n] = s[n - a]
    <2>1. n - a \in 1 .. b /\ n = a + (n - a)
        BY <1>3, <1>5, <1>14
    <2>2. keep'[a + (n - a)] = s[n - a]
        BY <1>5, <2>1
    <2> QED BY <2>1, <2>2
<1>15. ASSUME NEW n \in DOMAIN keep', NEW k \in DOMAIN keep', n # k
       PROVE  keep'[n] # keep'[k] /\ ~Duplicate(detections[keep'[n]], detections[keep'[k]])
    <2>1. CASE n \in 1 .. a /\ k \in 1 .. a
        BY <1>3, <1>5, <1>7, <1>15, <2>1
    <2>2. CASE n \in 1 .. a /\ k \notin 1 .. a
        BY <1>5, <1>12, <1>14, <2>2
    <2>3. CASE n \notin 1 .. a /\ k \in 1 .. a
        BY <1>5, <1>12, <1>14, <2>3, DuplicateCommutes
    <2>4. CASE n \notin 1 .. a /\ k \notin 1 .. a
        <3>1. n - a # k - a
            BY <1>3, <1>5, <1>15
        <3> QED BY <1>13, <1>14, <2>4, <3>1
    <2> QED BY <2>1, <2>2, <2>3, <2>4
<1>16. ASSUME NEW n \in DOMAIN keep'
       PROVE  detections[keep'[n]].class \notin classes
    <2>1. CASE n \in 1 .. a
        BY <1>3, <1>5, <1>7, <2>1
    <2>2. CASE n \notin 1 .. a
        BY <1>6, <1>8, <1>14, <2>2
    <2> QED BY <2>1, <2>2
<1>17. ASSUME NEW i \in DOMAIN detections, detections[i].class \notin classes
       PROVE  \E n \in DOMAIN keep' : Covers(detections[keep'[n]], detections[i])
    <2>1. CASE \E n \in DOMAIN keep : Covers(detections[keep[n]], detections[i])
        <3>1. PICK n \in 1 .. a : Covers(detections[keep[n]], detections[i])
            BY <1>3, <2>1
        <3>2. n \in DOMAIN keep' /\ keep'[n] = keep[n]
            BY <1>3, <1>5
        <3> QED BY <3>1, <3>2
    <2>2. CASE detections[i].class \in Current
        <3>1. PICK k \in DOMAIN members : members[k] = i
            BY <1>6, <2>2
        <3>2. PICK n \in DOMAIN kept : Covers(At(members, kept[n]), At(members, k))
            BY <1>1, <1>6 DEF Accounted
        <3>3. n \in 1 .. b /\ Covers(detections[s[n]], detections[i])
            BY <1>3, <1>8, <3>1, <3>2 DEF At
        <3>4. a + n \in DOMAIN keep' /\ keep'[a + n] = s[n]
            BY <1>3, <1>5, <3>3
        <3> QED BY <3>3, <3>4
    <2> QED BY <1>7, <1>17, <2>1, <2>2
<1>18. KeepInv'
    <2>1. Ahead' = classes
        BY <1>1 DEF Ahead
    <2> QED BY <1>1, <1>15, <1>16, <1>17, <2>1 DEF KeepInv
<1> QED BY <1>9, <1>10, <1>11, <1>18 DEF VisionInv

\* Each of these does little, or begins again.
LEMMA OtherSteps ==
    ASSUME VisionInv, Suppressed \/ ChooseTarget \/ NextFrame \/ Infer \/ UNCHANGED vars
    PROVE  VisionInv'
<1>1. CASE Suppressed
    <2>1. /\ pc = "classes" /\ classes = {} /\ pc' = "objects"
          /\ UNCHANGED <<predictions, detections, classes, members, order, kept, keep, target>>
        BY <1>1 DEF Suppressed
    <2>2. VisionTypes' /\ FrameInv' /\ ReportInv'
        BY <2>1 DEF VisionInv, VisionTypes, FrameInv, ReportInv, Seen
    <2>3. MembersInv' /\ SuppressionInv' /\ TargetInv'
        BY <2>1 DEF MembersInv, SuppressionInv, TargetInv
    <2>4. KeepInv'
        BY <2>1 DEF VisionInv, KeepInv, Ahead
    <2> QED BY <2>2, <2>3, <2>4 DEF VisionInv
<1>2. CASE ChooseTarget
    <2>1. /\ pc = "objects" /\ pc' = "done"
          /\ UNCHANGED <<predictions, detections, classes, members, order, kept, keep>>
        BY <1>2 DEF ChooseTarget
    <2>2. VisionTypes' /\ FrameInv' /\ ReportInv'
        BY <2>1 DEF VisionInv, VisionTypes, FrameInv, ReportInv, Seen
    <2>3. MembersInv' /\ SuppressionInv'
        BY <2>1 DEF MembersInv, SuppressionInv
    <2>4. KeepInv'
        BY <2>1 DEF VisionInv, KeepInv, Ahead
    <2>5. TargetInv'
        <3>1. CrowPresent' = CrowPresent /\ First' = First
            BY <2>1 DEF CrowPresent, First
        <3>2. target' = IF keep = <<>> \/ CrowPresent \/ detections[keep[First]].score <= Confidence
                        THEN NoBox ELSE detections[keep[First]].box
            BY <1>2 DEF ChooseTarget
        <3> QED BY <2>1, <3>1, <3>2 DEF TargetInv
    <2> QED BY <2>2, <2>3, <2>4, <2>5 DEF VisionInv
<1>3. CASE NextFrame
    <2>1. /\ pc' = "frame" /\ predictions' = <<>> /\ detections' = <<>> /\ classes' = {}
          /\ members' = <<>> /\ order' = <<>> /\ kept' = <<>> /\ keep' = <<>>
        BY <1>3 DEF NextFrame
    <2>2. VisionTypes' /\ FrameInv'
        BY <2>1 DEF VisionTypes, FrameInv
    <2>3. ReportInv' /\ MembersInv' /\ SuppressionInv' /\ KeepInv' /\ TargetInv'
        BY <2>1 DEF ReportInv, MembersInv, SuppressionInv, KeepInv, TargetInv
    <2> QED BY <2>2, <2>3 DEF VisionInv
<1>4. CASE Infer
    <2>1. /\ pc = "frame" /\ pc' = "output"
          /\ UNCHANGED <<detections, classes, members, order, kept, keep, target>>
          /\ predictions' \in UNION {[1 .. n -> Predictions] : n \in 0 .. Longest}
        BY <1>4 DEF Infer
    <2>2. predictions' \in Seq(Predictions)
        <3>1. PICK n \in 0 .. Longest : predictions' \in [1 .. n -> Predictions]
            BY <2>1
        <3>2. n \in Nat
            OBVIOUS
        <3> QED BY <3>1, <3>2
    <2>3. VisionTypes' /\ FrameInv'
        BY <2>1, <2>2 DEF VisionInv, VisionTypes, FrameInv
    <2>4. ReportInv' /\ MembersInv' /\ SuppressionInv' /\ KeepInv' /\ TargetInv'
        BY <2>1 DEF ReportInv, MembersInv, SuppressionInv, KeepInv, TargetInv
    <2> QED BY <2>3, <2>4 DEF VisionInv
<1>5. CASE UNCHANGED vars
    <2>1. VisionTypes' /\ FrameInv' /\ ReportInv'
        <3>1. UNCHANGED <<predictions, detections, classes, members, order, kept, keep, target, pc>>
            BY <1>5 DEF vars
        <3>2. VisionTypes'
            BY <3>1 DEF VisionInv, VisionTypes
        <3>3. FrameInv'
            BY <3>1 DEF VisionInv, FrameInv
        <3>4. ReportInv'
            BY <3>1 DEF VisionInv, ReportInv, Seen
        <3> QED BY <3>2, <3>3, <3>4
    <2>2. MembersInv' /\ SuppressionInv'
        <3>1. MembersInv'
            BY <1>5 DEF vars, VisionInv, MembersInv, Current, At
        <3>2. SuppressionInv'
            BY <1>5 DEF vars, VisionInv, SuppressionInv, Falling, Apart, Cleared, Accounted, At
        <3> QED BY <3>1, <3>2
    <2>3. KeepInv'
        BY <1>5 DEF vars, VisionInv, KeepInv, Ahead, Current
    <2>4. TargetInv'
        BY <1>5 DEF vars, VisionInv, TargetInv, CrowPresent, First
    <2> QED BY <2>1, <2>2, <2>3, <2>4 DEF VisionInv
<1> QED BY <1>1, <1>2, <1>3, <1>4, <1>5

LEMMA VisionInvariance == Spec => []VisionInv
<1>1. ASSUME VisionInv, [Next]_vars PROVE VisionInv'
    BY <1>1, ProcessOutputStep, NextClassStep, PickStep, ClassDoneStep, OtherSteps DEF Next
<1> QED BY <1>1, VisionInit, PTL DEF Spec

----------------------------------------------------------------------------
(* What holds of the target *)

\* For every set of predictions and every length of a report: what nms leaves is
\* the kernel of the duplicates, where two boxes are duplicates if at least half
\* of the cells of either are cells of both.
THEOREM KernelKept == Spec => []KeepsKernel
<1>1. ASSUME VisionInv, pc = "objects"
      PROVE  LET K == {keep[n] : n \in DOMAIN keep}
             IN  /\ Len(keep) = Cardinality(K)
                 /\ \A i, j \in K : i # j => ~Duplicate(detections[i], detections[j])
                 /\ \A i \in DOMAIN detections \ K : \E j \in K :
                       /\ Duplicate(detections[i], detections[j])
                       /\ detections[j].score >= detections[i].score
    <2> DEFINE K == {keep[n] : n \in DOMAIN keep}
    <2>1. keep \in Seq(DOMAIN detections)
        BY <1>1 DEF VisionInv, VisionTypes
    <2>2. Ahead = {}
        BY <1>1 DEF VisionInv, FrameInv, Ahead
    <2>3. /\ \A n, k \in DOMAIN keep :
                n # k => keep[n] # keep[k] /\ ~Duplicate(detections[keep[n]], detections[keep[k]])
          /\ \A i \in DOMAIN detections : \E n \in DOMAIN keep :
                Covers(detections[keep[n]], detections[i])
        BY <1>1, <2>2 DEF VisionInv, KeepInv
    <2>4. Len(keep) = Cardinality(K)
        <3> DEFINE l == Len(keep)
        <3>1. l \in Nat /\ DOMAIN keep = 1 .. l
            BY <2>1
        <3> HIDE DEF l
        <3>2. keep \in [1 .. l -> K]
            BY <2>1, <3>1
        <3>3. keep \in Surjection(1 .. l, K) /\ keep \in Injection(1 .. l, K)
            BY <2>3, <3>1, <3>2 DEF Surjection, Injection, IsInjective
        <3> HIDE DEF K
        <3>4. IsFiniteSet(1 .. l) /\ Cardinality(1 .. l) = l
            BY <3>1, FS_Interval
        <3>5. Cardinality(K) = Cardinality(1 .. l)
            BY <3>3, <3>4, FS_Surjection
        <3> QED BY <3>4, <3>5 DEF l
    <2>5. ASSUME NEW i \in K, NEW j \in K, i # j
          PROVE  ~Duplicate(detections[i], detections[j])
        BY <2>3, <2>5
    <2>6. ASSUME NEW i \in DOMAIN detections
          PROVE  \E j \in K : Duplicate(detections[i], detections[j])
                              /\ detections[j].score >= detections[i].score
        <3>1. PICK n \in DOMAIN keep : Covers(detections[keep[n]], detections[i])
            BY <2>3
        <3> QED BY <3>1, DuplicateCommutes DEF Covers
    <2> QED BY <2>4, <2>5, <2>6
<1>2. VisionInv => KeepsKernel
    BY <1>1, Zenon DEF KeepsKernel
<1> QED BY <1>2, VisionInvariance, PTL

\* At the end each detection is covered by one that was kept.
LEMMA AllCovered ==
    ASSUME VisionInv, pc = "done"
    PROVE  /\ \A p \in Seen : \E n \in DOMAIN keep :
                  /\ Covers(detections[keep[n]], Detection(p))
                  /\ detections[keep[n]] \in Detections
           /\ \A n \in DOMAIN keep : \E p \in Seen : detections[keep[n]] = Detection(p)
<1>1. keep \in Seq(DOMAIN detections) /\ detections \in Seq(Detections)
    BY DEF VisionInv, VisionTypes
<1>2. Ahead = {}
    BY DEF VisionInv, FrameInv, Ahead
<1>3. \A i \in DOMAIN detections : \E n \in DOMAIN keep : Covers(detections[keep[n]], detections[i])
    BY <1>2 DEF VisionInv, KeepInv
<1>4. /\ \A i \in DOMAIN detections : \E p \in Seen : detections[i] = Detection(p)
      /\ \A p \in Seen : \E i \in DOMAIN detections : detections[i] = Detection(p)
    BY DEF VisionInv, ReportInv
<1>5. \A n \in DOMAIN keep : keep[n] \in DOMAIN detections /\ detections[keep[n]] \in Detections
    BY <1>1
<1> QED BY <1>3, <1>4, <1>5

\* For every set of predictions: however many detections lie over a crow or a
\* magpie, the turret has no target.
THEOREM CrowsVeto == Spec => []CrowVetoes
<1>1. ASSUME VisionInv, pc = "done", NEW p \in Seen, ClassOf(p) \in {Crow, Magpie}
      PROVE  target = NoBox
    <2>1. PICK n \in DOMAIN keep : Covers(detections[keep[n]], Detection(p))
        BY <1>1, AllCovered
    <2>2. detections[keep[n]].class = ClassOf(p)
        BY <2>1 DEF Covers, Duplicate, Detection
    <2>3. CrowPresent
        BY <1>1, <2>2 DEF CrowPresent
    <2> QED BY <1>1, <2>3 DEF VisionInv, TargetInv
<1>2. VisionInv => CrowVetoes
    BY <1>1 DEF CrowVetoes
<1> QED BY <1>2, VisionInvariance, PTL

\* Of what is kept there is a first of the highest score.
LEMMA FirstIs ==
    ASSUME VisionInv, keep # <<>>
    PROVE  /\ First \in DOMAIN keep
           /\ \A k \in DOMAIN keep : detections[keep[First]].score >= detections[keep[k]].score
<1> DEFINE sc(n) == detections[keep[n]].score
           l == Len(keep)
<1>1. keep \in Seq(DOMAIN detections) /\ detections \in Seq(Detections)
    BY DEF VisionInv, VisionTypes
<1>2. \A n \in DOMAIN keep : sc(n) \in 0 .. 100 /\ sc(n) \in Int
    <2>1. \A n \in DOMAIN keep : detections[keep[n]] \in Detections
        BY <1>1
    <2>2. \A d \in Detections : d.score \in 0 .. 100
        BY DEF Detections
    <2>3. \A x \in 0 .. 100 : x \in Int
        OBVIOUS
    <2> QED BY <2>1, <2>2, <2>3, Zenon
<1>3. l \in Nat /\ DOMAIN keep = 1 .. l /\ 1 \in DOMAIN keep
    BY <1>1
<1> HIDE DEF sc, l
<1> DEFINE T == {sc(n) : n \in DOMAIN keep}
<1>4. T \subseteq 0 .. 100 /\ T # {}
    BY <1>2, <1>3
<1>5. PICK x \in T : \A y \in T : y <= x
    <2> HIDE DEF T
    <2> QED BY <1>4, GreatestExists
<1> DEFINE U == {n \in DOMAIN keep : sc(n) = x}
<1>6. U \subseteq Nat /\ U # {}
    BY <1>3
<1>7. PICK u \in U : \A v \in U : u <= v
    <2> HIDE DEF U
    <2> QED BY <1>6, LeastExists
<1>8. ASSUME NEW k \in DOMAIN keep
      PROVE  sc(u) > sc(k) \/ (sc(u) = sc(k) /\ u <= k)
    <2>1. sc(k) <= sc(u) /\ sc(u) = x
        BY <1>5, <1>7
    <2>2. sc(k) \in Int /\ sc(u) \in Int
        BY <1>2, Zenon
    <2>3. sc(k) = sc(u) => u <= k
        BY <1>7, <2>1
    <2> QED BY <2>1, <2>2, <2>3
<1>9. \E n \in DOMAIN keep : \A k \in DOMAIN keep :
          sc(n) > sc(k) \/ (sc(n) = sc(k) /\ n <= k)
    BY <1>7, <1>8
<1>10. First \in DOMAIN keep /\ \A k \in DOMAIN keep :
           sc(First) > sc(k) \/ (sc(First) = sc(k) /\ First <= k)
    BY <1>9, Zenon DEF First, sc
<1>11. ASSUME NEW k \in DOMAIN keep PROVE sc(First) >= sc(k)
    <2>1. sc(First) \in Int /\ sc(k) \in Int
        BY <1>2, <1>10, Zenon
    <2> QED BY <1>10, <2>1
<1> QED BY <1>10, <1>11 DEF sc

\* For every set of predictions: if the network sees pigeons and nothing else, the
\* target is the box of one that no other exceeds, and there is one.
THEOREM BestIsTarget == Spec => []TargetIsBest
<1>1. ASSUME VisionInv, pc = "done", \A p \in Seen : ClassOf(p) = Pigeon
      PROVE  IF Seen = {} THEN target = NoBox
             ELSE \E p \in Seen : target = Xyxy(p.box) /\ \A q \in Seen : Score(p) >= Score(q)
    <2>1. target = IF keep = <<>> \/ CrowPresent \/ detections[keep[First]].score <= Confidence
                   THEN NoBox ELSE detections[keep[First]].box
        BY <1>1 DEF VisionInv, TargetInv
    <2>2. keep \in Seq(DOMAIN detections)
        BY <1>1 DEF VisionInv, VisionTypes
    <2>3. CASE Seen = {}
        <3>1. DOMAIN keep = {}
            BY <1>1, <2>3, AllCovered
        <3>2. keep = <<>>
            BY <2>2, <3>1
        <3> QED BY <2>1, <2>3, <3>2
    <2>4. CASE Seen # {}
        <3>1. keep # <<>>
            BY <1>1, <2>4, AllCovered
        <3>2. /\ First \in DOMAIN keep
              /\ \A k \in DOMAIN keep : detections[keep[First]].score >= detections[keep[k]].score
            BY <1>1, <3>1, FirstIs
        <3>3. PICK p \in Seen : detections[keep[First]] = Detection(p)
            BY <1>1, <3>2, AllCovered
        <3>4. ~CrowPresent
            <4>1. ASSUME NEW n \in DOMAIN keep PROVE detections[keep[n]].class \notin {Crow, Magpie}
                <5>1. PICK q \in Seen : detections[keep[n]] = Detection(q)
                    BY <1>1, AllCovered
                <5>2. detections[keep[n]].class = Pigeon
                    BY <1>1, <5>1 DEF Detection
                <5> QED BY <5>2 DEF Crow, Magpie, Pigeon
            <4> QED BY <4>1 DEF CrowPresent
        <3>5. p \in Predictions /\ Passing(p)
            BY DEF Seen
        <3>6. detections[keep[First]].score = Score(p) /\ detections[keep[First]].box = Xyxy(p.box)
            BY <3>3 DEF Detection
        <3>7. ~(Score(p) <= Confidence)
            BY <3>5, ScoreIs DEF Passing, Confidence
        <3>8. target = Xyxy(p.box)
            BY <2>1, <3>1, <3>4, <3>6, <3>7
        <3>9. ASSUME NEW q \in Seen PROVE Score(p) >= Score(q)
            <4>1. PICK n \in DOMAIN keep : /\ Covers(detections[keep[n]], Detection(q))
                                           /\ detections[keep[n]] \in Detections
                BY <1>1, AllCovered
            <4>2. detections[keep[n]].score >= Score(q) /\ detections[keep[n]].score \in Int
                BY <4>1 DEF Covers, Detection, Detections
            <4>3. Score(p) >= detections[keep[n]].score
                BY <3>2, <3>6
            <4>4. q \in Predictions
                BY DEF Seen
            <4>5. Score(p) \in Int /\ Score(q) \in Int
                BY <3>5, <4>4, ScoreIs
            <4> QED BY <4>2, <4>3, <4>5
        <3> QED BY <2>4, <3>8, <3>9
    <2> QED BY <2>3, <2>4
<1>2. VisionInv => TargetIsBest
    BY <1>1 DEF TargetIsBest
<1> QED BY <1>2, VisionInvariance, PTL
=============================================================================
