------------------------ MODULE MCPerlContainers --------------------------
(* An instance of PerlContainers for TLC: an object that only native code  *)
(* stores, one that Perl code stores as well, and one key.                 *)
EXTENDS PerlContainers

CONSTANTS private, shared, key
MCObjects == {private, shared}
MCShared == {shared}
MCKeys == {key}
=============================================================================
