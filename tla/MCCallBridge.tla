---------------------------- MODULE MCCallBridge ----------------------------
(* Instances of CallBridge for TLC.                                         *)
EXTENDS CallBridge
CONSTANTS d1, d2
MCDies      == {d1, d2}
MCFalseDies == {d2}
=============================================================================
