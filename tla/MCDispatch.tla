----------------------------- MODULE MCDispatch -----------------------------
(* Instances of Dispatch for TLC.                                           *)
EXTENDS Dispatch
MCNested == {Leaf}
=============================================================================
