--------------------------- MODULE MCTurretSystem ---------------------------
(***************************************************************************)
(* A small instance of TurretSystem.  The boxes are real ones of a 1152 by *)
(* 1152 image: one the servos reach, one inside the frame that they do not *)
(* reach, one over the right edge of the frame.                            *)
(***************************************************************************)
EXTENDS TurretSystem

Reach == <<500, 500, 652, 652>>
Far   == <<0, 0, 20, 20>>
Edge  == <<1100, 500, 1163, 600>>

Seen(birds, box, person) == [birds |-> birds, box |-> box, person |-> person]

\* One frame for every way startDetectionCycle can go; among them a person scored
\* between the threshold its comment allows and the one it has.
MCFrames ==
    { Seen({"pigeon"}, Reach, 60), Seen({"pigeon"}, Reach, 95),
      Seen({"pigeon"}, Far, 0), Seen({"pigeon"}, Edge, 0),
      Seen({"pigeon", "crow"}, Reach, 0) }
=============================================================================
