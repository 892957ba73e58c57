-------------------------- MODULE MCClassRegistry --------------------------
(* Instances of ClassRegistry for TLC.                                      *)
EXTENDS ClassRegistry
CONSTANTS ca, cb, cc
MCClasses == {ca, cb, cc}
\* Any modules of which only ca's can fail; the parents form a tree.
MCTexts ==
  {t \in [MCClasses -> [uses : SUBSET MCClasses, parent : MCClasses \cup {NSObject},
                       explicit : BOOLEAN, dies : BOOLEAN]] :
     /\ \A x \in MCClasses : x \notin t[x].uses /\ (t[x].dies => x = ca)
     /\ t[ca].parent = NSObject /\ t[cb].parent \in {NSObject, ca}
     /\ t[cc].parent # cc}
MCNameParts == {<<cb, NSObject>>}
=============================================================================
