-------------------------- MODULE MCFrameBroadcast --------------------------
EXTENDS FrameBroadcast

CONSTANTS c1, c2

MCClients == {c1, c2}

\* A small frame and one that does not fit the margin the small one leaves.
MCFrames == {[id |-> 1, size |-> 1], [id |-> 2, size |-> 4]}
=============================================================================
