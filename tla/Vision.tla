------------------------------- MODULE Vision -------------------------------
(***************************************************************************)
(* From the predictions of the network for one frame to the box that the   *)
(* turret is to aim at: process_output of YOLOv8.py, multiclass_nms, nms   *)
(* and compute_iou of Utils.py, getObjects and getTargetPigeonCandidateBox *)
(* of TurretHandler.py.  One step is one turn of a loop.                   *)
(*                                                                         *)
(* A prediction has the box <<x, y, width, height>> around its centre and  *)
(* a confidence in percent for each class.  Boxes are in units of the      *)
(* frame; the scaling from the input of the network is left out.           *)
(***************************************************************************)
EXTENDS Integers, Sequences, FiniteSets

CONSTANTS
    Predictions,    \* what the network may report
    Longest         \* bound: the length of a report

Crow == 0
Magpie == 1
Pigeon == 2
Classes == {Crow, Magpie, Pigeon}

ASSUME PredictionsAssumption ==
    Predictions \subseteq [box : Nat \X Nat \X Nat \X Nat, conf : [Classes -> 0 .. 100]]

VARIABLES
    predictions,    \* output of the network, transposed
    detections,     \* boxes, scores and class_ids of process_output
    classes,        \* classes that multiclass_nms has still to visit
    members,        \* class_indices
    order,          \* sorted_indices of nms: places in members
    kept,           \* keep_boxes of nms: places in members
    keep,           \* keep_boxes of multiclass_nms: places in detections
    target,         \* target_box
    pc

vars == <<predictions, detections, classes, members, order, kept, keep, target, pc>>

NoBox == <<>>
Confidence == 70

----------------------------------------------------------------------------
(* Operators *)

\* np.max and np.argmax over the classes: of equal ones the first.
Score(p) == CHOOSE s \in {p.conf[c] : c \in Classes} : \A c \in Classes : p.conf[c] <= s
ClassOf(p) ==
    CHOOSE c \in Classes : /\ p.conf[c] = Score(p)
                           /\ \A d \in Classes : d < c => p.conf[d] < Score(p)

\* xywh2xyxy, in halves of the unit.
Xyxy(b) == <<2 * b[1] - b[3], 2 * b[2] - b[4], 2 * b[1] + b[3], 2 * b[2] + b[4]>>

Larger(a, b)  == IF a > b THEN a ELSE b
Smaller(a, b) == IF a < b THEN a ELSE b
Area(b) == (b[3] - b[1]) * (b[4] - b[2])

Intersection(a, b) ==
    Larger(0, Smaller(a[3], b[3]) - Larger(a[1], b[1]))
    * Larger(0, Smaller(a[4], b[4]) - Larger(a[2], b[2]))

\* compute_iou < 0.5.  Two boxes without area have the union 0: 0 / 0 is NaN, and
\* NaN is less than nothing.
BelowThreshold(a, b) ==
    LET union == Area(a) + Area(b) - Intersection(a, b)
    IN  union # 0 /\ 2 * Intersection(a, b) < union

Passing(p) == Score(p) > Confidence

Detection(p) == [box |-> Xyxy(p.box), score |-> Score(p), class |-> ClassOf(p)]

\* The places that satisfy a condition, as numpy selects them: in ascending order.
\* There is one listing of each set.
Listings(S) ==
    {l \in [1 .. Cardinality(S) -> S] :
        /\ \A x \in S : \E i \in DOMAIN l : l[i] = x
        /\ \A i, j \in DOMAIN l : i < j => l[i] < l[j]}

\* np.where(class_ids == c)[0]
PlacesOf(c) == {i \in DOMAIN detections : detections[i].class = c}

\* The detection at a place of members.
At(m, k) == detections[m[k]]

\* Mutant: the weakest detection comes first.
Ordered_Ascending(m, o) ==
    /\ \A k \in DOMAIN m : \E i \in DOMAIN o : o[i] = k
    /\ \A i, j \in DOMAIN o : i < j => At(m, o[i]).score <= At(m, o[j]).score

\* np.argsort(scores)[::-1]; the sort is not stable, equal scores may come in
\* either order.
Ordered(m, o) ==
    /\ \A k \in DOMAIN m : \E i \in DOMAIN o : o[i] = k
    /\ \A i, j \in DOMAIN o : i < j => At(m, o[i]).score >= At(m, o[j]).score

----------------------------------------------------------------------------
(* process_output *)

ProcessOutput ==
    /\ pc = "output"
    /\ \E some \in Listings({i \in DOMAIN predictions : Passing(predictions[i])}) :
          detections' = [n \in DOMAIN some |-> Detection(predictions[some[n]])]
    /\ classes' = {detections'[i].class : i \in DOMAIN detections'}
    /\ pc' = IF detections' = <<>> THEN "objects" ELSE "classes"
    /\ UNCHANGED <<predictions, members, order, kept, keep, target>>

\* Mutant: the suppression regards all classes as one, like the line that is
\* commented out in process_output.
NextClass_AllAtOnce ==
    /\ pc = "classes" /\ classes # {}
    /\ classes' = {} /\ members' = [i \in DOMAIN detections |-> i]
    /\ order' \in {o \in [DOMAIN members' -> DOMAIN members'] : Ordered(members', o)}
    /\ kept' = <<>> /\ pc' = "nms"
    /\ UNCHANGED <<predictions, detections, keep, target>>

\* The next of np.unique(class_ids), and the start of nms.
NextClass ==
    /\ pc = "classes" /\ classes # {}
    /\ \E c \in classes :
          /\ \A d \in classes : c <= d
          /\ classes' = classes \ {c}
          /\ members' \in Listings(PlacesOf(c))
    /\ order' \in {o \in [DOMAIN members' -> DOMAIN members'] : Ordered(members', o)}
    /\ kept' = <<>> /\ pc' = "nms"
    /\ UNCHANGED <<predictions, detections, keep, target>>

\* The places of the rest that nms goes on with.
Survivors(o) ==
    {k \in 1 .. Len(o) - 1 :
        BelowThreshold(At(members, o[1]).box, At(members, o[k + 1]).box)}

\* Mutant: keep_indices are used without adding the one for the picked box.
Pick_Unshifted ==
    /\ pc = "nms" /\ order # <<>>
    /\ kept' = Append(kept, Head(order))
    /\ \E rest \in Listings(Survivors(order)) :
          order' = [n \in DOMAIN rest |-> order[rest[n]]]
    /\ UNCHANGED <<predictions, detections, classes, members, keep, target, pc>>

\* One turn of nms.
Pick ==
    /\ pc = "nms" /\ order # <<>>
    /\ kept' = Append(kept, Head(order))
    /\ \E rest \in Listings(Survivors(order)) :
          order' = [n \in DOMAIN rest |-> order[rest[n] + 1]]
    /\ UNCHANGED <<predictions, detections, classes, members, keep, target, pc>>

\* nms returns places of the class; they are turned into places of all.
ClassDone ==
    /\ pc = "nms" /\ order = <<>>
    /\ keep' = keep \o [n \in DOMAIN kept |-> members[kept[n]]]
    /\ pc' = "classes"
    /\ UNCHANGED <<predictions, detections, classes, members, order, kept, target>>

Suppressed ==
    /\ pc = "classes" /\ classes = {} /\ pc' = "objects"
    /\ UNCHANGED <<predictions, detections, classes, members, order, kept, keep, target>>

----------------------------------------------------------------------------
(* getObjects and getTargetPigeonCandidateBox *)

CrowPresent == \E n \in DOMAIN keep : detections[keep[n]].class \in {Crow, Magpie}

\* The first of the highest score: the sort of Python is stable.
First ==
    CHOOSE n \in DOMAIN keep : \A k \in DOMAIN keep :
        \/ detections[keep[n]].score > detections[keep[k]].score
        \/ detections[keep[n]].score = detections[keep[k]].score /\ n <= k

ChooseTarget ==
    /\ pc = "objects" /\ pc' = "done"
    /\ target' = IF keep = <<>> \/ CrowPresent \/ detections[keep[First]].score <= Confidence
                 THEN NoBox ELSE detections[keep[First]].box
    /\ UNCHANGED <<predictions, detections, classes, members, order, kept, keep>>

----------------------------------------------------------------------------

(* The two calls of the detection cycle for each frame *)

\* The results of the last frame are forgotten.
NextFrame ==
    /\ pc = "done" /\ pc' = "frame"
    /\ predictions' = <<>> /\ detections' = <<>> /\ classes' = {} /\ members' = <<>>
    /\ order' = <<>> /\ kept' = <<>> /\ keep' = <<>> /\ target' = NoBox

\* inference
Infer ==
    /\ pc = "frame" /\ pc' = "output"
    /\ predictions' \in UNION {[1 .. n -> Predictions] : n \in 0 .. Longest}
    /\ UNCHANGED <<detections, classes, members, order, kept, keep, target>>

Init ==
    /\ predictions = <<>> /\ detections = <<>> /\ classes = {} /\ members = <<>>
    /\ order = <<>> /\ kept = <<>> /\ keep = <<>> /\ target = NoBox
    /\ pc = "frame"

Next ==
    \/ ProcessOutput \/ NextClass \/ Pick \/ ClassDone \/ Suppressed
    \/ ChooseTarget \/ NextFrame \/ Infer

Spec == Init /\ [][Next]_vars

----------------------------------------------------------------------------

(* The reference: a box is the set of cells that it covers. *)

Cells(b) == (b[1] + 1 .. b[3]) \X (b[2] + 1 .. b[4])

\* At least half of what both cover is covered twice.  Two boxes that cover
\* nothing do so, wherever they lie.
Duplicate(d, e) ==
    /\ d.class = e.class
    /\ 2 * Cardinality(Cells(d.box) \cap Cells(e.box))
       >= Cardinality(Cells(d.box) \cup Cells(e.box))

\* What is kept is the kernel of the duplicates: no detection twice, no two that
\* are duplicates, and whatever is missing is the duplicate of one that is kept
\* and scores as high.  A chain of three boxes, each a duplicate of the next,
\* keeps both of its ends.
KeepsKernel ==
    pc = "objects" =>
        LET K == {keep[n] : n \in DOMAIN keep}
        IN  /\ Len(keep) = Cardinality(K)
            /\ \A i, j \in K : i # j => ~Duplicate(detections[i], detections[j])
            /\ \A i \in DOMAIN detections \ K : \E j \in K :
                  /\ Duplicate(detections[i], detections[j])
                  /\ detections[j].score >= detections[i].score

\* The predictions that pass the confidence.
Seen == {predictions[i] : i \in DOMAIN predictions} \cap {p \in Predictions : Passing(p)}

\* A crow or a magpie that the network has seen is never suppressed: there is no
\* target, however many better pigeons lie over it (TurretHandler.py:201-205).
CrowVetoes ==
    pc = "done" /\ (\E p \in Seen : ClassOf(p) \in {Crow, Magpie}) => target = NoBox

\* Without crows the target is one of the best predictions of the network, and
\* there is one whenever the network has seen a pigeon.
TargetIsBest ==
    pc = "done" /\ (\A p \in Seen : ClassOf(p) = Pigeon) =>
        IF Seen = {} THEN target = NoBox
        ELSE \E p \in Seen : target = Xyxy(p.box) /\ \A q \in Seen : Score(p) >= Score(q)
=============================================================================
