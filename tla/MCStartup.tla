----------------------------- MODULE MCStartup -----------------------------
(* An instance of Startup for TLC.                                          *)
EXTENDS Startup

CONSTANTS NSString, NSObjectController, ABPerson, ABGroup, MyView
MCLinked == {NSString, NSObjectController}
MCSkipped == {NSObjectController}
MCBundled == {ABPerson, ABGroup}
MCRegistered == {MyView}
=============================================================================
