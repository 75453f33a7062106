------------------------------ MODULE MCVision ------------------------------
(***************************************************************************)
(* Boxes that matter to the suppression: a chain of three, each a          *)
(* duplicate of the next, one that meets the threshold exactly, one far    *)
(* away, and two without area.                                             *)
(***************************************************************************)
EXTENDS Vision

MCBoxes == {<<2, 2, 2, 2>>, <<2, 3, 2, 4>>, <<2, 4, 2, 4>>, <<2, 5, 2, 4>>,
            <<8, 8, 2, 2>>, <<8, 8, 2, 0>>, <<2, 2, 0, 0>>}

Sure(class, percent) == [c \in Classes |-> IF c = class THEN percent ELSE 0]

\* One pigeon below and two above the confidence, a crow, and a prediction that
\* is a magpie as much as a pigeon.
MCPredictions ==
    [box : MCBoxes, conf : {Sure(Pigeon, 80), Sure(Pigeon, 90)}]
    \cup [box : {<<2, 3, 2, 4>>, <<2, 4, 2, 4>>},
          conf : {Sure(Pigeon, 70), Sure(Crow, 80), [Sure(Pigeon, 80) EXCEPT ![Magpie] = 80]}]
=============================================================================
