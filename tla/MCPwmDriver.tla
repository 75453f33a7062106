---------------------------- MODULE MCPwmDriver ----------------------------
(***************************************************************************)
(* A small instance of PwmDriver: the shortest pulse, the base of the      *)
(* horizontal servo and the longest one.                                   *)
(***************************************************************************)
EXTENDS PwmDriver

MCPulses == {PulseOf(StartY), PulseOf(BaseX), 1040}
=============================================================================
