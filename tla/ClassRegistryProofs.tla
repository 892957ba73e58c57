------------------------ MODULE ClassRegistryProofs ------------------------
(***************************************************************************)
(* Four arguments.                                                         *)
(*                                                                         *)
(* The class hierarchy in the runtime is a tree whatever the modules say:  *)
(* the inductive invariant is Tree.  A class is registered once, under a   *)
(* class that is registered already, so a new class is never the           *)
(* superclass of an old one.                                               *)
(*                                                                         *)
(* Perl sees the superclass of every registered class, and every           *)
(* registered class gets its methods: the inductive invariant is Inv.  It  *)
(* follows a class from its module to the runtime.                         *)
(*   Caught   a module being loaded is on the stack once, and some eval is *)
(*            below it, so that a die always finds where to go.  A die     *)
(*            breaks modules being loaded only.                            *)
(*   Called   class() runs for loaded modules only.  So the runtime, asked *)
(*            for the class of a running call, has nothing to load and     *)
(*            the call goes on at once; and between the change of @ISA and *)
(*            the registering nobody sets @ISA again.                      *)
(*   Settled  a registered class is in @ISA's sight of its superclass, and *)
(*            has its methods or is the class of the innermost call, which *)
(*            is about to add them.                                        *)
(*                                                                         *)
(* The superclasses are those that the modules name, as far as they can be:*)
(* the inductive invariant is NamedInv, together with Inv.  It follows $_  *)
(* through the searches.  A class is punctual if neither its parent nor any*)
(* ancestor of it is late (ParentIsLate).                                  *)
(*   Ordered  the modules on the stack are needed by those below them, and *)
(*            what a module has used is loaded or being loaded.  So the    *)
(*            parent of a punctual class is loaded, and its class() call is*)
(*            over, when the class's own begins (ParentIsThere).           *)
(*   Straight the class() call of a punctual class finds its parent at the *)
(*            first attempt, without loading anything: it is on top of the *)
(*            stack, and nobody else sets $_ meanwhile.                    *)
(*   IsaNeeded, AllFindNeeded  what other searches find, be it in somebody *)
(*            else's $_, is needed by the classes that search.  So Ordered *)
(*            holds when they load it.                                     *)
(*   AsNamed  a punctual class that is loaded has its parent registered,   *)
(*            and is registered under it, or its class() call is on top of *)
(*            the stack.                                                   *)
(*                                                                         *)
(* Loading ends: each of its steps leaves less in an order in which nothing*)
(* decreases for ever.  What is Remaining is, the heaviest first, how many *)
(* modules have not begun to load, how high the stack is, and the Rank of  *)
(* its top, for a class() call its phase, the names it has not asked for   *)
(* and its queue.  That counts a call whose $_ is another call's as a phase*)
(* behind: it may ask for a name again, but only once for each module that *)
(* has been loaded.                                                        *)
(***************************************************************************)
EXTENDS ClassRegistry, FiniteSetTheorems, WellFoundedInduction, TLAPS

----------------------------------------------------------------------------
(* The tree.                                                                *)

Tree == /\ NSObject \in registered
        /\ superOf \in [registered \ {NSObject} -> registered]
        /\ Rooted

\* What a step does to the hierarchy: nothing, or it adds class c under d.
Adds(c, d) ==
  /\ c \notin registered /\ d \in registered
  /\ registered' = registered \cup {c}
  /\ superOf' = [e \in registered' \ {NSObject} |->
                   IF e \in registered THEN superOf[e] ELSE d]

\* Every step leaves the hierarchy alone but for CBRegister.
LEMMA StepAdds ==
  ASSUME [Next]_vars
  PROVE  UNCHANGED <<registered, superOf>> \/ Adds(Top.name, Top.super)
<1>1. CASE UNCHANGED vars
  BY <1>1 DEF vars
<1>2. ASSUME NEW c \in Classes, Asks(c) \/ ClassAgain(c)
      PROVE  UNCHANGED <<registered, superOf>>
  BY <1>2 DEF Asks, ClassAgain, classes
<1>3. CASE Loads
  BY <1>3 DEF Loads, ModuleUses, ModuleDies, ModuleCallsClass, Dies, classes
<1>4. CASE ClassSearches \/ ClassAsks \/ ClassSetsIsa \/ CBRegisterMethods
  BY <1>4 DEF ClassSearches, ClassAsks, ClassSetsIsa, CBRegisterMethods, classes
<1>5. CASE CBRegister
  BY <1>5 DEF CBRegister, Adds
<1>6. CASE AllLoaded
  BY <1>6 DEF AllLoaded, vars
<1> QED
  BY <1>1, <1>2, <1>3, <1>4, <1>5, <1>6 DEF Next, Class

\* A class added under a registered one is in no cycle.
LEMMA AddsKeepsTree ==
  ASSUME Tree, NEW c, NEW d, Adds(c, d)
  PROVE  Tree'
<1> USE DEF Tree, Adds
<1>1. NSObject \in registered' /\ superOf' \in [registered' \ {NSObject} -> registered']
  OBVIOUS
<1>2. ASSUME NEW e \in registered' \ {NSObject}
      PROVE  superOf'[e] = (IF e = c THEN d ELSE superOf[e]) /\ superOf'[e] # c
  <2>1. CASE e = c
    BY <1>1, <2>1
  <2>2. CASE e # c
    <3>1. e \in registered \ {NSObject} /\ superOf[e] \in registered
      BY <2>2
    <3> QED
      BY <3>1, <2>2
  <2> QED
    BY <2>1, <2>2
<1>3. ASSUME NEW S \in SUBSET (registered' \ {NSObject}), S # {}
      PROVE  \E e \in S : superOf'[e] \notin S
  <2>1. CASE S \ {c} = {}
    <3>1. S = {c}
      BY <1>3, <2>1
    <3> QED
      BY <1>2, <3>1
  <2>2. CASE S \ {c} # {}
    <3>1. S \ {c} \in SUBSET (registered \ {NSObject})
      OBVIOUS
    <3>2. PICK e \in S \ {c} : superOf[e] \notin S \ {c}
      BY <2>2, <3>1 DEF Rooted
    <3>3. e \in S /\ superOf'[e] = superOf[e] /\ superOf'[e] # c
      BY <1>2, <3>2
    <3> QED
      BY <3>2, <3>3
  <2> QED
    BY <2>1, <2>2
<1>4. \A e \in registered' \ {NSObject} : superOf'[e] \in registered'
  BY <1>1
<1> QED
  BY <1>1, <1>3, <1>4 DEF Rooted

\* The hierarchy is a tree in every state: CBRegisterClassWithSuperClass
\* (Runtime.m) checks both names before it adds a class.
THEOREM TreeInvariance == Spec => []Tree
<1>1. Init => Tree
  <2> SUFFICES ASSUME Init PROVE Tree
    OBVIOUS
  <2>1. registered = {NSObject} /\ registered \ {NSObject} = {} /\ superOf = <<>>
    BY DEF Init
  <2>2. superOf \in [registered \ {NSObject} -> registered]
    BY <2>1
  <2> QED
    BY <2>1, <2>2 DEF Tree, Rooted
<1>2. Tree /\ [Next]_vars => Tree'
  <2> SUFFICES ASSUME Tree, [Next]_vars PROVE Tree'
    OBVIOUS
  <2>1. CASE UNCHANGED <<registered, superOf>>
    BY <2>1 DEF Tree, Rooted
  <2>2. CASE Adds(Top.name, Top.super)
    BY <2>2, AddsKeepsTree
  <2> QED
    BY <2>1, <2>2, StepAdds
<1> QED
  BY <1>1, <1>2, PTL DEF Spec

\* No cycle and no missing superclass, whatever modules load each other.
THEOREM HierarchyIsATree == Spec => []Rooted
<1>1. Tree => Rooted
  BY DEF Tree
<1> QED
  BY <1>1, TreeInvariance, PTL

\* A class keeps the superclass it got, also when class() is called again.
THEOREM SuperclassIsFinal == Spec => SuperIsFinal
<1>1. Tree /\ [Next]_vars =>
        [\A c \in registered \ {NSObject} : c \in registered' /\ superOf'[c] = superOf[c]]_vars
  <2> SUFFICES ASSUME Tree, [Next]_vars, NEW c \in registered \ {NSObject}
               PROVE  c \in registered' /\ superOf'[c] = superOf[c]
    OBVIOUS
  <2> QED
    BY StepAdds DEF Adds
<1> QED
  BY <1>1, TreeInvariance, PTL DEF Spec, SuperIsFinal
----------------------------------------------------------------------------
(* The invariant.                                                           *)

\* The package of c sees class d: what PerlSeesSuper says of a superclass.
Sees(r, c, d) == \E e \in Range(r[c]) : e = d \/ <<e, d>> \in NameParts

\* The two kinds of frames.
Uses(f) == f.what = "use"
Calls(f) == f.what = "class"

\* Of stack s and module states m, and of @ISA r.
Caught(s, m) ==
  \A i \in 1 .. Len(s) : Uses(s[i]) =>
    /\ m[s[i].name] = "loading"
    /\ \E j \in 1 .. i : Uses(s[j]) /\ s[j].inEval
    /\ \A j \in 1 .. i - 1 : Uses(s[j]) => s[j].name # s[i].name

Called(s, m, r) ==
  \A i \in 1 .. Len(s) : Calls(s[i]) =>
    /\ m[s[i].name] = "loaded"
    /\ s[i].pc = "register" => Sees(r, s[i].name, s[i].super)

Settled(m, r) ==
  \A c \in registered \ {NSObject} :
    /\ c \in Classes /\ m[c] = "loaded"
    /\ Sees(r, c, superOf[c])
    /\ \/ added[c] > 0
       \/ At("again") /\ Top.name = c

Inv == TypeOK /\ Caught(stack, module) /\ Called(stack, module, isa) /\ Settled(module, isa)
----------------------------------------------------------------------------
(* Least and greatest numbers.                                              *)

LEMMA Less == ASSUME NEW x \in Nat, NEW y \in Nat, x < y PROVE <<x, y>> \in OpToRel(<, Nat)
BY DEF OpToRel

\* A set of numbers has a least one.
LEMMA LeastExists ==
  ASSUME NEW T, T \subseteq Nat, T # {}
  PROVE  \E m \in T : \A t \in T : m <= t
<1>1. PICK m \in T : \A y \in T : ~(<<y, m>> \in OpToRel(<, Nat))
  BY WFMin, NatLessThanWellFounded
<1>2. \A y \in T : y \in Nat /\ m \in Nat
  OBVIOUS
<1>3. ASSUME NEW y \in T PROVE m <= y
  <2>1. CASE y < m
    BY <1>1, <1>2, <2>1, Less
  <2> QED
    BY <1>2, <2>1
<1> QED
  BY <1>3

\* A bounded set of numbers has a greatest one.
LEMMA MaxExists ==
  ASSUME NEW S, NEW n \in Nat, S # {}, \A s \in S : s \in Nat /\ s <= n
  PROVE  \E m \in S : \A s \in S : s <= m
<1> DEFINE T == {n - s : s \in S}
<1>1. \A s \in S : n - s \in Nat
  OBVIOUS
<1>2. T \subseteq Nat /\ T # {}
  BY <1>1
<1> HIDE DEF T
<1>3. PICK t \in T : \A y \in T : t <= y
  BY <1>2, LeastExists
<1>4. PICK m \in S : t = n - m
  BY <1>3 DEF T
<1>5. \A s \in S : n - s \in T
  BY DEF T
<1>6. \A s \in S : n - m <= n - s
  BY <1>3, <1>4, <1>5
<1>7. \A s \in S : s <= m
  BY <1>6
<1> QED
  BY <1>7
----------------------------------------------------------------------------
(* The stack.                                                               *)

States == {"new", "loading", "loaded", "broken"}
Isas == [Classes -> Seq(Names)]

\* What Last and Front of a stack are.
LEMMA Fronts ==
  ASSUME NEW s \in Seq(Frames), s # <<>>
  PROVE  /\ Len(s) \in Nat /\ Len(s) > 0
         /\ Last(s) = s[Len(s)] /\ Last(s) \in Frames
         /\ Front(s) \in Seq(Frames) /\ Len(Front(s)) = Len(s) - 1
         /\ \A i \in 1 .. Len(s) - 1 : Front(s)[i] = s[i]
<1>1. Len(s) \in Nat /\ Len(s) > 0
  OBVIOUS
<1>2. \A i \in 1 .. Len(s) : s[i] \in Frames
  BY <1>1
<1> DEFINE n == Len(s) - 1
<1>3. n \in Nat /\ n <= Len(s) /\ \A i \in 1 .. n : s[i] \in Frames
  BY <1>1, <1>2
<1>4. Front(s) = SubSeq(s, 1, n)
  BY DEF Front
<1> HIDE DEF n
<1>5. SubSeq(s, 1, n) = [i \in 1 .. n |-> s[i]]
  BY <1>3
<1>6. /\ Front(s) \in Seq(Frames) /\ Len(Front(s)) = n
      /\ \A i \in 1 .. n : Front(s)[i] = s[i]
  BY <1>3, <1>4, <1>5
<1>7. Last(s) = s[Len(s)] /\ Last(s) \in Frames
  BY <1>1, <1>2 DEF Last
<1> QED
  BY <1>1, <1>6, <1>7 DEF n

\* The first n frames of a stack.
LEMMA Cuts ==
  ASSUME NEW s \in Seq(Frames), NEW n \in Nat, n <= Len(s)
  PROVE  /\ SubSeq(s, 1, n) \in Seq(Frames) /\ Len(SubSeq(s, 1, n)) = n
         /\ \A i \in 1 .. n : SubSeq(s, 1, n)[i] = s[i]
<1>1. \A i \in 1 .. n : s[i] \in Frames
  OBVIOUS
<1>2. SubSeq(s, 1, n) = [i \in 1 .. n |-> s[i]]
  BY <1>1
<1> QED
  BY <1>1, <1>2

\* A frame on top of a stack.
LEMMA Appends ==
  ASSUME NEW s \in Seq(Frames), NEW f \in Frames
  PROVE  /\ Append(s, f) \in Seq(Frames) /\ Len(Append(s, f)) = Len(s) + 1
         /\ Len(s) \in Nat
         /\ \A i \in 1 .. Len(s) : Append(s, f)[i] = s[i]
         /\ Append(s, f)[Len(s) + 1] = f
OBVIOUS

\* A module that starts to load.
LEMMA UseFrames ==
  ASSUME TypeOK, NEW c \in Classes, NEW inEval \in BOOLEAN
  PROVE  /\ UseFrame(c, inEval) \in Frames /\ Uses(UseFrame(c, inEval))
         /\ ~Calls(UseFrame(c, inEval))
         /\ UseFrame(c, inEval).name = c /\ UseFrame(c, inEval).inEval = inEval
<1>1. text[c].uses \in SUBSET Classes
  BY TextsAssumption DEF TypeOK, Text
<1> QED
  BY <1>1 DEF UseFrame, Frames, Uses, Calls

\* A class() call that starts.
LEMMA ClassFrames ==
  ASSUME TypeOK, NEW c \in Classes
  PROVE  /\ ClassFrame(c) \in Frames /\ Calls(ClassFrame(c)) /\ ~Uses(ClassFrame(c))
         /\ ClassFrame(c).name = c /\ ClassFrame(c).pc # "register"
         /\ ClassFrame(c).pc \in Pcs
<1>1. text[c].parent \in Names /\ text[c].explicit \in BOOLEAN
  BY TextsAssumption DEF TypeOK, Text
<1>2. isa[c] \in Seq(Names) /\ NSObject \in Names
  BY DEF TypeOK, Names
<1> QED
  BY <1>1, <1>2 DEF ClassFrame, Frames, Uses, Calls, Pcs

\* Pieces of a stack that is in order.
LEMMA CutKeeps ==
  ASSUME NEW s \in Seq(Frames), NEW m, NEW r, Caught(s, m), Called(s, m, r),
         NEW t \in Seq(Frames), Len(t) <= Len(s), \A i \in 1 .. Len(t) : t[i] = s[i]
  PROVE  Caught(t, m) /\ Called(t, m, r)
<1>1. Len(s) \in Nat /\ Len(t) \in Nat
  OBVIOUS
<1>2. Caught(t, m)
  <2> SUFFICES ASSUME NEW i \in 1 .. Len(t), Uses(t[i])
               PROVE  /\ m[t[i].name] = "loading"
                      /\ \E j \in 1 .. i : Uses(t[j]) /\ t[j].inEval
                      /\ \A j \in 1 .. i - 1 : Uses(t[j]) => t[j].name # t[i].name
    BY DEF Caught
  <2>1. i \in 1 .. Len(s) /\ Uses(s[i]) /\ \A j \in 1 .. i : t[j] = s[j]
    BY <1>1
  <2>2. /\ m[s[i].name] = "loading"
        /\ \E j \in 1 .. i : Uses(s[j]) /\ s[j].inEval
        /\ \A j \in 1 .. i - 1 : Uses(s[j]) => s[j].name # s[i].name
    BY <2>1 DEF Caught
  <2> QED
    BY <2>1, <2>2
<1>3. Called(t, m, r)
  BY <1>1 DEF Called
<1> QED
  BY <1>2, <1>3

\* A frame on top of a stack in order: an error of a module finds an eval,
\* and the module is not loading yet.
LEMMA AppendKeeps ==
  ASSUME NEW s \in Seq(Frames), NEW m, NEW r, Caught(s, m), Called(s, m, r),
         NEW f \in Frames,
         Uses(f) => /\ m[f.name] = "loading"
                    /\ f.inEval \/ \E j \in 1 .. Len(s) : Uses(s[j]) /\ s[j].inEval
                    /\ \A j \in 1 .. Len(s) : Uses(s[j]) => s[j].name # f.name,
         Calls(f) => m[f.name] = "loaded" /\ (f.pc = "register" => Sees(r, f.name, f.super))
  PROVE  Caught(Append(s, f), m) /\ Called(Append(s, f), m, r)
<1> DEFINE t == Append(s, f)
<1>1. /\ Len(t) = Len(s) + 1 /\ Len(s) \in Nat
      /\ \A i \in 1 .. Len(s) : t[i] = s[i]
      /\ t[Len(s) + 1] = f
  BY Appends
<1> HIDE DEF t
<1>2. Caught(t, m)
  <2> SUFFICES ASSUME NEW i \in 1 .. Len(t), Uses(t[i])
               PROVE  /\ m[t[i].name] = "loading"
                      /\ \E j \in 1 .. i : Uses(t[j]) /\ t[j].inEval
                      /\ \A j \in 1 .. i - 1 : Uses(t[j]) => t[j].name # t[i].name
    BY DEF Caught
  <2>1. CASE i \in 1 .. Len(s)
    <3>1. /\ m[s[i].name] = "loading"
          /\ \E j \in 1 .. i : Uses(s[j]) /\ s[j].inEval
          /\ \A j \in 1 .. i - 1 : Uses(s[j]) => s[j].name # s[i].name
      BY <2>1, <1>1 DEF Caught
    <3>2. \A j \in 1 .. i : t[j] = s[j]
      BY <1>1, <2>1
    <3> QED
      BY <3>1, <3>2, <1>1, <2>1
  <2>2. CASE i = Len(s) + 1
    <3>1. t[i] = f /\ \A j \in 1 .. i - 1 : t[j] = s[j]
      BY <1>1, <2>2
    <3>2. \E j \in 1 .. i : Uses(t[j]) /\ t[j].inEval
      <4>1. CASE f.inEval
        BY <4>1, <3>1, <1>1, <2>2
      <4>2. CASE \E j \in 1 .. Len(s) : Uses(s[j]) /\ s[j].inEval
        BY <4>2, <1>1, <2>2
      <4> QED
        BY <4>1, <4>2, <3>1
    <3> QED
      BY <3>1, <3>2, <1>1, <2>2
  <2> QED
    BY <2>1, <2>2, <1>1
<1>3. Called(t, m, r)
  <2> SUFFICES ASSUME NEW i \in 1 .. Len(t), Calls(t[i])
               PROVE  /\ m[t[i].name] = "loaded"
                      /\ t[i].pc = "register" => Sees(r, t[i].name, t[i].super)
    BY DEF Called
  <2>1. CASE i \in 1 .. Len(s)
    BY <1>1, <2>1 DEF Called
  <2>2. CASE i = Len(s) + 1
    BY <1>1, <2>2
  <2> QED
    BY <2>1, <2>2, <1>1
<1> QED
  BY <1>2, <1>3 DEF t

\* Loading a class's module.
LEMMA LoadKeeps ==
  ASSUME TypeOK, NEW b \in Seq(Frames), NEW c, NEW inEval \in BOOLEAN, NEW r,
         Caught(b, module), Called(b, module, r),
         inEval \/ \E j \in 1 .. Len(b) : Uses(b[j]) /\ b[j].inEval,
         Load(c, inEval, b)
  PROVE  /\ stack' \in Seq(Frames) /\ module' \in [Classes -> States]
         /\ Caught(stack', module') /\ Called(stack', module', r)
         /\ \A d \in Classes : module[d] = "loaded" => module'[d] = "loaded"
         /\ (c \in Classes => module[c] # "new") => stack' = b
<1>1. module \in [Classes -> States]
  BY DEF TypeOK, States
<1>2. CASE ~(c \in Classes /\ module[c] = "new")
  BY <1>1, <1>2 DEF Load
<1>3. CASE c \in Classes /\ module[c] = "new"
  <2> DEFINE f == UseFrame(c, inEval)
  <2>1. stack' = Append(b, f) /\ module' = [module EXCEPT ![c] = "loading"]
    BY <1>3 DEF Load
  <2>2. /\ f \in Frames /\ Uses(f) /\ ~Calls(f) /\ f.name = c /\ f.inEval = inEval
    BY <1>3, UseFrames
  <2> HIDE DEF f
  <2>3. /\ module' \in [Classes -> States] /\ module'[c] = "loading"
        /\ \A d \in Classes : d # c => module'[d] = module[d]
    BY <1>1, <1>3, <2>1 DEF States
  <2>4. \A i \in 1 .. Len(b) : b[i] \in Frames /\ b[i].name \in Classes
    <3>1. \A i \in 1 .. Len(b) : b[i] \in Frames
      OBVIOUS
    <3>2. \A g \in Frames : g.name \in Classes
      BY DEF Frames
    <3> QED
      BY <3>1, <3>2
  <2>5. \A i \in 1 .. Len(b) : Uses(b[i]) => b[i].name # c
    BY <1>3 DEF Caught
  <2>6. \A i \in 1 .. Len(b) : Calls(b[i]) => b[i].name # c
    BY <1>3 DEF Called
  <2>7. Caught(b, module')
    BY <2>3, <2>4, <2>5 DEF Caught
  <2>8. Called(b, module', r)
    BY <2>3, <2>4, <2>6 DEF Called
  <2>9. Caught(stack', module') /\ Called(stack', module', r)
    BY <2>1, <2>2, <2>3, <2>5, <2>7, <2>8, AppendKeeps
  <2>10. stack' \in Seq(Frames)
    BY <2>1, <2>2, Appends
  <2> QED
    BY <1>3, <2>3, <2>9, <2>10
<1> QED
  BY <1>2, <1>3

\* Asking the runtime for a class loads its module inside an eval.
LEMMA GetClassKeeps ==
  ASSUME TypeOK, NEW b \in Seq(Frames), NEW c, NEW r,
         Caught(b, module), Called(b, module, r), objc_getClass(c, b)
  PROVE  /\ stack' \in Seq(Frames) /\ module' \in [Classes -> States]
         /\ Caught(stack', module') /\ Called(stack', module', r)
         /\ \A d \in Classes : module[d] = "loaded" => module'[d] = "loaded"
         /\ (c \in Classes => module[c] # "new") => stack' = b
<1>1. CASE c \in registered
  BY <1>1 DEF objc_getClass, TypeOK, States
<1>2. CASE c \notin registered
  BY <1>2, LoadKeeps DEF objc_getClass
<1> QED
  BY <1>1, <1>2

\* The top frame is replaced by one for the same class, of the same kind.
LEMMA ReplaceKeeps ==
  ASSUME NEW s \in Seq(Frames), s # <<>>, NEW m, NEW r,
         Caught(s, m), Called(s, m, r), NEW f \in Frames,
         f.what = Last(s).what, f.name = Last(s).name,
         Uses(f) => f.inEval = Last(s).inEval,
         f.what = "class" /\ f.pc = "register" => Sees(r, f.name, f.super)
  PROVE  LET t == Append(Front(s), f)
         IN /\ t \in Seq(Frames) /\ Len(t) = Len(s) /\ t # <<>>
            /\ t[Len(t)] = f /\ Last(t) = f
            /\ Caught(t, m) /\ Called(t, m, r)
<1> DEFINE b == Front(s) n == Len(s)
<1>1. /\ b \in Seq(Frames) /\ Len(b) = n - 1 /\ n \in Nat /\ n > 0
      /\ \A i \in 1 .. n - 1 : b[i] = s[i]
      /\ Last(s) = s[n]
  BY Fronts
<1> HIDE DEF b
<1>2. Caught(b, m) /\ Called(b, m, r)
  BY <1>1, CutKeeps, SMTT(30)
<1>3. ASSUME Uses(f)
      PROVE  /\ m[f.name] = "loading"
             /\ f.inEval \/ \E j \in 1 .. Len(b) : Uses(b[j]) /\ b[j].inEval
             /\ \A j \in 1 .. Len(b) : Uses(b[j]) => b[j].name # f.name
  <2>1. n \in 1 .. Len(s) /\ Uses(s[n]) /\ s[n].name = f.name /\ s[n].inEval = f.inEval
    BY <1>1, <1>3 DEF Uses
  <2>2. PICK j \in 1 .. n : Uses(s[j]) /\ s[j].inEval
    BY <2>1 DEF Caught
  <2>3. m[f.name] = "loading" /\ \A i \in 1 .. n - 1 : Uses(s[i]) => s[i].name # f.name
    BY <2>1 DEF Caught
  <2>4. f.inEval \/ j \in 1 .. Len(b)
    BY <2>1, <2>2, <1>1
  <2> QED
    BY <2>2, <2>3, <2>4, <1>1
<1>4. Calls(f) => m[f.name] = "loaded" /\ (f.pc = "register" => Sees(r, f.name, f.super))
  BY <1>1 DEF Called, Calls
<1>5. Caught(Append(b, f), m) /\ Called(Append(b, f), m, r)
  BY <1>1, <1>2, <1>3, <1>4, AppendKeeps
<1>6. /\ Append(b, f) \in Seq(Frames) /\ Len(Append(b, f)) = n
      /\ Append(b, f)[n] = f
  BY <1>1, Appends
<1> QED
  BY <1>1, <1>5, <1>6 DEF b, Last

\* A step that leaves the hierarchy, @ISA and the methods alone.
LEMMA QuietStep ==
  ASSUME Inv, ~At("again"), UNCHANGED <<text, classes>>,
         it' \in [name : Names \cup {NoName}, by : Nat],
         stack' \in Seq(Frames), module' \in [Classes -> States],
         Caught(stack', module'), Called(stack', module', isa),
         \A d \in Classes : module[d] = "loaded" => module'[d] = "loaded"
  PROVE  Inv'
<1>1. UNCHANGED <<registered, superOf, isa, added>>
  BY DEF classes
<1>2. TypeOK'
  BY <1>1 DEF Inv, TypeOK, States
<1>3. Settled(module, isa)'
  BY <1>1 DEF Inv, Settled, Sees
<1>4. Called(stack, module, isa)' /\ Caught(stack, module)'
  BY <1>1 DEF Called, Caught, Sees
<1> QED
  BY <1>2, <1>3, <1>4 DEF Inv

\* An error takes away the top of the stack from its innermost eval on.
\* Only modules being loaded become broken, and none of them stays below.
LEMMA DiesStep ==
  ASSUME Inv, Running("use"), Dies
  PROVE  Inv'
<1> DEFINE caught == {i \in 1 .. Len(stack) : stack[i].what = "use" /\ stack[i].inEval}
           k == CHOOSE i \in caught : \A j \in caught : j <= i
           left == {stack[i].name : i \in {j \in k .. Len(stack) : stack[j].what = "use"}}
<1>1. /\ stack \in Seq(Frames) /\ Caught(stack, module) /\ Called(stack, module, isa)
      /\ stack # <<>> /\ Len(stack) \in Nat /\ Uses(stack[Len(stack)])
  BY DEF Inv, TypeOK, Running, Idle, Top, Last, Uses
<1>2. \E j \in caught : TRUE
  BY <1>1 DEF Caught, Uses
<1>3. \A i \in caught : i \in Nat /\ i <= Len(stack)
  BY <1>1
<1>4. k \in caught
  <2> HIDE DEF caught
  <2>1. \E i \in caught : \A j \in caught : j <= i
    BY <1>1, <1>2, <1>3, MaxExists
  <2> QED
    BY <2>1
<1>5. k \in 1 .. Len(stack)
  <2> HIDE DEF k
  <2> QED
    BY <1>4
<1>6. /\ stack' = SubSeq(stack, 1, k - 1)
      /\ module' = [c \in Classes |-> IF c \in left THEN "broken" ELSE module[c]]
      /\ UNCHANGED <<text, it, classes>>
  BY DEF Dies
<1> HIDE DEF k
<1>7. /\ stack' \in Seq(Frames) /\ Len(stack') = k - 1 /\ k - 1 \in Nat
      /\ \A i \in 1 .. k - 1 : stack'[i] = stack[i]
  <2>1. k - 1 \in Nat /\ k - 1 <= Len(stack)
    BY <1>1, <1>5
  <2> QED
    BY <1>1, <1>6, <2>1, Cuts
<1>8. Caught(stack', module) /\ Called(stack', module, isa)
  BY <1>1, <1>5, <1>7, CutKeeps
<1>9. \A i \in 1 .. k - 1 : Uses(stack[i]) => stack[i].name \notin left
  <2> SUFFICES ASSUME NEW i \in 1 .. k - 1, Uses(stack[i]),
                      NEW j \in k .. Len(stack), Uses(stack[j]), stack[i].name = stack[j].name
               PROVE  FALSE
    BY DEF Uses
  <2>1. j \in 1 .. Len(stack) /\ i \in 1 .. j - 1
    BY <1>1, <1>5
  <2> QED
    BY <1>1, <2>1 DEF Caught
<1>10. \A c \in left : module[c] = "loading"
  <2> SUFFICES ASSUME NEW j \in k .. Len(stack), Uses(stack[j])
               PROVE  module[stack[j].name] = "loading"
    BY DEF Uses
  <2>1. j \in 1 .. Len(stack)
    BY <1>1, <1>5
  <2> QED
    BY <1>1, <2>1 DEF Caught
<1> HIDE DEF left
<1>11. module \in [Classes -> States]
  BY DEF Inv, TypeOK, States
<1>12. /\ module' \in [Classes -> States]
       /\ \A d \in Classes : module'[d] = IF d \in left THEN "broken" ELSE module[d]
  BY <1>6, <1>11 DEF States
<1>13. \A i \in 1 .. k - 1 : stack'[i].name \in Classes
  <2>1. \A g \in Frames : g.name \in Classes
    BY DEF Frames
  <2> QED
    BY <1>7, <2>1
<1>14. Caught(stack', module')
  <2> SUFFICES ASSUME NEW i \in 1 .. k - 1, Uses(stack'[i])
               PROVE  /\ module'[stack'[i].name] = "loading"
                      /\ \E j \in 1 .. i : Uses(stack'[j]) /\ stack'[j].inEval
                      /\ \A j \in 1 .. i - 1 : Uses(stack'[j]) => stack'[j].name # stack'[i].name
    BY <1>7 DEF Caught
  <2>1. /\ module[stack'[i].name] = "loading"
        /\ \E j \in 1 .. i : Uses(stack'[j]) /\ stack'[j].inEval
        /\ \A j \in 1 .. i - 1 : Uses(stack'[j]) => stack'[j].name # stack'[i].name
    BY <1>7, <1>8 DEF Caught
  <2> QED
    BY <2>1, <1>7, <1>9, <1>12, <1>13
<1>15. Called(stack', module', isa)
  <2> SUFFICES ASSUME NEW i \in 1 .. k - 1, Calls(stack'[i])
               PROVE  /\ module'[stack'[i].name] = "loaded"
                      /\ stack'[i].pc = "register" => Sees(isa, stack'[i].name, stack'[i].super)
    BY <1>7 DEF Called
  <2>1. /\ module[stack'[i].name] = "loaded"
        /\ stack'[i].pc = "register" => Sees(isa, stack'[i].name, stack'[i].super)
    BY <1>7, <1>8 DEF Called
  <2> QED
    BY <2>1, <1>10, <1>12, <1>13
<1>16. \A d \in Classes : module[d] = "loaded" => module'[d] = "loaded"
  BY <1>10, <1>12
<1>17. ~At("again")
  BY DEF At, Running
<1> QED
  BY <1>6, <1>7, <1>12, <1>14, <1>15, <1>16, <1>17, QuietStep DEF Inv, TypeOK

\* The parts of the invariant the steps use.
LEMMA InvFacts ==
  ASSUME Inv
  PROVE  /\ stack \in Seq(Frames) /\ Caught(stack, module) /\ Called(stack, module, isa)
         /\ module \in [Classes -> States] /\ isa \in Isas
         /\ it \in [name : Names \cup {NoName}, by : Nat]
BY DEF Inv, TypeOK, States, Isas

\* The frame on top of a stack that is in order.
LEMMA TopFrame ==
  ASSUME Inv, NEW what \in {"use", "class"}, Running(what)
  PROVE  /\ stack # <<>> /\ Len(stack) \in Nat /\ Len(stack) > 0 /\ Top = Last(stack)
         /\ Top \in Frames /\ Top.what = what /\ Top.name \in Classes
         /\ what = "use" =>
              /\ Top \in [what : {"use"}, name : Classes, todo : SUBSET Classes, inEval : BOOLEAN]
              /\ module[Top.name] = "loading"
         /\ what = "class" =>
              /\ Top \in [what : {"class"}, name : Classes, checked : SUBSET (Names \cup {NoName}),
                          asked : Names \cup {NoName}, super : Names, pc : Pcs, queue : Seq(Names)]
              /\ module[Top.name] = "loaded"
              /\ Top.pc = "register" => Sees(isa, Top.name, Top.super)
<1>1. stack \in Seq(Frames) /\ Caught(stack, module) /\ Called(stack, module, isa)
  BY InvFacts
<1>2. stack # <<>> /\ Top = Last(stack) /\ Top.what = what
  BY DEF Running, Idle, Top
<1>3. /\ Len(stack) \in Nat /\ Len(stack) > 0 /\ Top \in Frames /\ Top = stack[Len(stack)]
      /\ Len(stack) \in 1 .. Len(stack)
  BY <1>1, <1>2, Fronts
<1>4. what = "use" =>
              /\ Top \in [what : {"use"}, name : Classes, todo : SUBSET Classes, inEval : BOOLEAN]
              /\ module[Top.name] = "loading"
  BY <1>1, <1>2, <1>3 DEF Frames, Caught, Uses
<1>5. what = "class" =>
              /\ Top \in [what : {"class"}, name : Classes, checked : SUBSET (Names \cup {NoName}),
                          asked : Names \cup {NoName}, super : Names, pc : Pcs, queue : Seq(Names)]
              /\ module[Top.name] = "loaded"
              /\ Top.pc = "register" => Sees(isa, Top.name, Top.super)
  BY <1>1, <1>2, <1>3 DEF Frames, Called, Calls
<1>6. Top.name \in Classes
  BY <1>4, <1>5
<1> QED
  BY <1>2, <1>3, <1>4, <1>5, <1>6

\* Nothing runs.
LEMMA EmptyStack ==
  ASSUME NEW m, NEW r
  PROVE  <<>> \in Seq(Frames) /\ Caught(<<>>, m) /\ Called(<<>>, m, r)
BY DEF Caught, Called

\* The steps, one by one.
LEMMA AsksStep ==
  ASSUME Inv, NEW c \in Classes, Asks(c)
  PROVE  Inv'
<1>1. ~At("again")
  BY DEF Asks, At, Running
<1>2. objc_getClass(c, <<>>) /\ UNCHANGED <<text, it, classes>>
  BY DEF Asks
<1>3. /\ stack' \in Seq(Frames) /\ module' \in [Classes -> States]
      /\ Caught(stack', module') /\ Called(stack', module', isa)
      /\ \A d \in Classes : module[d] = "loaded" => module'[d] = "loaded"
  BY <1>2, EmptyStack, GetClassKeeps DEF Inv
<1> QED
  BY <1>1, <1>2, <1>3, QuietStep, InvFacts

LEMMA ClassAgainStep ==
  ASSUME Inv, NEW c \in Classes, ClassAgain(c)
  PROVE  Inv'
<1>1. ~At("again")
  BY DEF ClassAgain, At, Running
<1>2. /\ stack' = <<ClassFrame(c)>> /\ module[c] = "loaded"
      /\ UNCHANGED <<text, module, it, classes>>
  BY DEF ClassAgain
<1>3. /\ ClassFrame(c) \in Frames /\ Calls(ClassFrame(c)) /\ ~Uses(ClassFrame(c))
      /\ ClassFrame(c).name = c /\ ClassFrame(c).pc # "register"
  BY ClassFrames DEF Inv
<1>4. <<ClassFrame(c)>> = Append(<<>>, ClassFrame(c))
  OBVIOUS
<1> DEFINE f == ClassFrame(c)
<1> HIDE DEF f
<1>5. stack' \in Seq(Frames) /\ Caught(stack', module) /\ Called(stack', module, isa)
  <2>1. /\ f \in Frames /\ Calls(f) /\ ~Uses(f) /\ f.name = c /\ f.pc # "register"
        /\ stack' = Append(<<>>, f) /\ module[c] = "loaded"
    BY <1>2, <1>3, <1>4 DEF f
  <2>2. Append(<<>>, f) \in Seq(Frames)
    BY <2>1, EmptyStack, Appends
  <2>3. Caught(Append(<<>>, f), module) /\ Called(Append(<<>>, f), module, isa)
    BY <2>1, EmptyStack, AppendKeeps
  <2> QED
    BY <2>1, <2>2, <2>3
<1>6. module' \in [Classes -> States] /\ Caught(stack', module') /\ Called(stack', module', isa)
  BY <1>2, <1>5, InvFacts
<1> QED
  BY <1>1, <1>2, <1>5, <1>6, QuietStep, InvFacts

LEMMA ModuleUsesStep ==
  ASSUME Inv, ModuleUses
  PROVE  Inv'
<1>1. Running("use") /\ ~At("again")
  BY DEF ModuleUses, At, Running
<1>2. PICK c \in Top.todo :
        \/ module[c] = "broken" /\ Dies
        \/ /\ module[c] # "broken"
           /\ Load(c, FALSE, Append(Front(stack), [Top EXCEPT !.todo = @ \ {c}]))
           /\ UNCHANGED <<text, it, classes>>
  BY DEF ModuleUses
<1>3. CASE Dies
  BY <1>1, <1>3, DiesStep
<1>4. CASE /\ Load(c, FALSE, Append(Front(stack), [Top EXCEPT !.todo = @ \ {c}]))
           /\ UNCHANGED <<text, it, classes>>
  <2> DEFINE f == [Top EXCEPT !.todo = @ \ {c}]
             b == Append(Front(stack), f)
  <2>1. /\ stack # <<>> /\ Top = Last(stack)
        /\ Top \in [what : {"use"}, name : Classes, todo : SUBSET Classes, inEval : BOOLEAN]
    BY <1>1, TopFrame
  <2>2. /\ f \in Frames /\ f.what = Top.what /\ f.name = Top.name /\ f.inEval = Top.inEval
        /\ f.what = "use"
    BY <2>1 DEF Frames
  <2> HIDE DEF f
  <2>3. /\ b \in Seq(Frames) /\ b # <<>> /\ b[Len(b)] = f
        /\ Caught(b, module) /\ Called(b, module, isa)
    BY <2>1, <2>2, InvFacts, ReplaceKeeps
  <2>4. Load(c, FALSE, b) /\ UNCHANGED <<text, it, classes>>
    BY <1>4 DEF f
  <2> HIDE DEF b
  <2>5. \E j \in 1 .. Len(b) : Uses(b[j]) /\ b[j].inEval
    <3>1. Len(b) \in 1 .. Len(b) /\ Uses(b[Len(b)])
      BY <2>2, <2>3 DEF Uses
    <3> QED
      BY <2>3, <3>1 DEF Caught
  <2>6. /\ stack' \in Seq(Frames) /\ module' \in [Classes -> States]
        /\ Caught(stack', module') /\ Called(stack', module', isa)
        /\ \A d \in Classes : module[d] = "loaded" => module'[d] = "loaded"
    BY <2>3, <2>4, <2>5, LoadKeeps DEF Inv
  <2> QED
    BY <1>1, <2>4, <2>6, QuietStep, InvFacts
<1> QED
  BY <1>2, <1>3, <1>4

LEMMA ModuleDiesStep ==
  ASSUME Inv, ModuleDies
  PROVE  Inv'
BY DiesStep DEF ModuleDies

LEMMA ClassSearchesStep ==
  ASSUME Inv, ClassSearches
  PROVE  Inv'
<1> DEFINE h == IF Top.queue = <<>> THEN NoName ELSE Head(Top.queue)
           q == [Top EXCEPT !.queue = Tail(@)]
           a == [Top EXCEPT !.pc = "asked", !.asked = h, !.queue = Tail(@)]
           g == [Top EXCEPT !.pc = "isa"]
<1>1. Running("class") /\ Top.pc = "search" /\ ~At("again")
  BY DEF ClassSearches, At
<1>2. /\ stack # <<>> /\ Top = Last(stack) /\ Len(stack) \in Nat
      /\ Top \in [what : {"class"}, name : Classes, checked : SUBSET (Names \cup {NoName}),
                   asked : Names \cup {NoName}, super : Names, pc : Pcs, queue : Seq(Names)]
  BY <1>1, TopFrame
<1>3. /\ it' = [name |-> h, by |-> Len(stack)] /\ UNCHANGED <<text, classes>>
      /\ \/ h = NoName /\ stack' = Append(Front(stack), g) /\ UNCHANGED module
         \/ /\ h \in Top.checked \ {NoName}
            /\ stack' = Append(Front(stack), q) /\ UNCHANGED module
         \/ /\ h \notin Top.checked \cup {NoName}
            /\ objc_getClass(h, Append(Front(stack), a))
  BY DEF ClassSearches, GoesOn, Becomes
<1>4. h \in Names \cup {NoName}
  BY <1>2
<1>5. /\ it' \in [name : Names \cup {NoName}, by : Nat]
  BY <1>2, <1>3, <1>4
<1> HIDE DEF h
<1>6. /\ g \in Frames /\ g.what = "class" /\ g.name = Top.name /\ g.pc = "isa"
      /\ h # NoName => Top.queue # <<>>
  BY <1>2 DEF Frames, Pcs, h
<1>7. ASSUME h # NoName
      PROVE  /\ q \in Frames /\ q.what = "class" /\ q.name = Top.name /\ q.pc = "search"
             /\ a \in Frames /\ a.what = "class" /\ a.name = Top.name /\ a.pc = "asked"
  <2>1. Tail(Top.queue) \in Seq(Names)
    BY <1>2, <1>6, <1>7
  <2> QED
    BY <1>1, <1>2, <1>4, <2>1 DEF Frames, Pcs
<1> HIDE DEF g, q, a
<1>8. ASSUME NEW f \in Frames, f.what = "class", f.name = Top.name, f.pc # "register"
      PROVE  LET t == Append(Front(stack), f)
             IN t \in Seq(Frames) /\ Caught(t, module) /\ Called(t, module, isa)
  BY <1>2, <1>8, InvFacts, ReplaceKeeps DEF Uses
<1>9. /\ stack' \in Seq(Frames) /\ module' \in [Classes -> States]
      /\ Caught(stack', module') /\ Called(stack', module', isa)
      /\ \A d \in Classes : module[d] = "loaded" => module'[d] = "loaded"
  <2>1. CASE h = NoName /\ stack' = Append(Front(stack), g) /\ UNCHANGED module
    BY <1>6, <1>8, <2>1, InvFacts
  <2>2. CASE h # NoName /\ stack' = Append(Front(stack), q) /\ UNCHANGED module
    BY <1>7, <1>8, <2>2, InvFacts
  <2>3. CASE h # NoName /\ objc_getClass(h, Append(Front(stack), a))
    BY <1>7, <1>8, <2>3, GetClassKeeps DEF Inv
  <2> QED
    BY <1>3, <2>1, <2>2, <2>3
<1> QED
  BY <1>1, <1>3, <1>5, <1>9, QuietStep

\* The class of a loading module is not registered and no call runs for it, so
\* setting its @ISA disturbs nobody.
LEMMA ModuleCallsClassStep ==
  ASSUME Inv, ModuleCallsClass
  PROVE  Inv'
<1> DEFINE c == Top.name
           q == IF text[c].explicit THEN ClassFrame(c).queue ELSE isa'[c]
           g == [ClassFrame(c) EXCEPT !.queue = q]
           b == Front(stack)
<1>1. Running("use") /\ ~At("again")
  BY DEF ModuleCallsClass, At, Running
<1>2. /\ stack # <<>> /\ Len(stack) \in Nat /\ Len(stack) > 0 /\ Top = stack[Len(stack)]
      /\ c \in Classes /\ Uses(Top) /\ module[c] = "loading"
  BY <1>1, TopFrame, Fronts, InvFacts DEF Uses
<1>3. /\ isa' = [isa EXCEPT ![c] = IF text[c].explicit THEN @ ELSE <<text[c].parent>>]
      /\ module' = [module EXCEPT ![c] = "loaded"]
      /\ stack' = Append(b, g)
      /\ UNCHANGED <<text, registered, superOf, added, it>>
  BY DEF ModuleCallsClass, Becomes
<1>4. text[c].parent \in Names /\ text[c].explicit \in BOOLEAN
  BY <1>2, TextsAssumption DEF Inv, TypeOK, Text
<1>5. /\ ClassFrame(c) \in Frames /\ ClassFrame(c).what = "class" /\ ClassFrame(c).name = c
      /\ ClassFrame(c).pc # "register"
  BY <1>2, ClassFrames DEF Inv, Calls
<1> HIDE DEF c
<1>6. /\ isa' \in Isas
      /\ \A d \in Classes : d # c => isa'[d] = isa[d]
  <2>1. <<text[c].parent>> \in Seq(Names)
    BY <1>4
  <2> QED
    BY <2>1, <1>2, <1>3, InvFacts DEF Isas
<1>7. /\ module' \in [Classes -> States] /\ module'[c] = "loaded"
      /\ \A d \in Classes : d # c => module'[d] = module[d]
  BY <1>2, <1>3, InvFacts DEF States
<1>8. /\ g \in Frames /\ g.name = c /\ g.pc # "register" /\ ~Uses(g)
  <2>1. ClassFrame(c).queue \in Seq(Names) /\ isa'[c] \in Seq(Names)
    BY <1>2, <1>5, <1>6 DEF Frames, Isas
  <2>2. q \in Seq(Names)
    BY <2>1, <1>4
  <2> HIDE DEF q
  <2> QED
    BY <1>5, <2>2 DEF Frames, Uses
<1> HIDE DEF g
<1>9. /\ b \in Seq(Frames) /\ Len(b) = Len(stack) - 1
      /\ \A i \in 1 .. Len(b) : b[i] = stack[i]
      /\ Caught(b, module) /\ Called(b, module, isa)
  <2>1. /\ b \in Seq(Frames) /\ Len(b) = Len(stack) - 1
        /\ \A i \in 1 .. Len(b) : b[i] = stack[i]
    BY <1>2, Fronts, InvFacts
  <2> HIDE DEF b
  <2>2. Len(b) <= Len(stack)
    BY <1>2, <2>1
  <2> QED
    BY <2>1, <2>2, CutKeeps, InvFacts
<1>10. \A i \in 1 .. Len(b) : Uses(b[i]) => b[i].name # c
  <2>1. Len(stack) \in 1 .. Len(stack) /\ Uses(stack[Len(stack)]) /\ stack[Len(stack)].name = c
    BY <1>2 DEF c
  <2>2. \A i \in 1 .. Len(stack) - 1 : Uses(stack[i]) => stack[i].name # c
    BY <2>1, InvFacts DEF Caught
  <2> QED
    BY <2>2, <1>9
<1> HIDE DEF b
<1>11. \A i \in 1 .. Len(b) : b[i].name \in Classes
  <2>1. \A f \in Frames : f.name \in Classes
    BY DEF Frames
  <2> QED
    BY <2>1, <1>9
<1>12. Caught(b, module')
  BY <1>7, <1>9, <1>10, <1>11 DEF Caught
<1>13. \A i \in 1 .. Len(b) : Calls(b[i]) => b[i].name # c
  BY <1>2, <1>9 DEF Called
<1>14. Called(b, module', isa')
  BY <1>6, <1>7, <1>9, <1>11, <1>13 DEF Called, Sees
<1>15. /\ stack' \in Seq(Frames) /\ Caught(stack', module') /\ Called(stack', module', isa')
  BY <1>3, <1>7, <1>8, <1>9, <1>12, <1>14, AppendKeeps, Appends
<1>16. TypeOK'
  BY <1>3, <1>6, <1>7, <1>15 DEF Inv, TypeOK, States, Isas
<1>17. Settled(module, isa)'
  <2> SUFFICES ASSUME NEW d \in registered \ {NSObject}
               PROVE  /\ d \in Classes /\ module'[d] = "loaded"
                      /\ Sees(isa', d, superOf[d]) /\ added[d] > 0
    BY <1>3 DEF Settled
  <2>1. /\ d \in Classes /\ module[d] = "loaded" /\ Sees(isa, d, superOf[d]) /\ added[d] > 0
    BY <1>1 DEF Inv, Settled
  <2>2. d # c
    BY <2>1, <1>2
  <2> QED
    BY <2>1, <2>2, <1>6, <1>7 DEF Sees
<1> QED
  BY <1>15, <1>16, <1>17 DEF Inv

LEMMA ClassAsksStep ==
  ASSUME Inv, ClassAsks
  PROVE  Inv'
<1> DEFINE f == [Top EXCEPT !.pc = "isa", !.super = IF it.name = NoName THEN NSObject ELSE it.name]
           more == IF it.name \in Classes THEN isa[it.name] ELSE <<>>
           q == Top.queue \o more
           g == [Top EXCEPT !.pc = "search", !.checked = @ \cup {it.name}, !.queue = q]
<1>1. Running("class") /\ ~At("again")
  BY DEF ClassAsks, At
<1>2. /\ stack # <<>> /\ Top = Last(stack)
      /\ Top \in [what : {"class"}, name : Classes, checked : SUBSET (Names \cup {NoName}),
                   asked : Names \cup {NoName}, super : Names, pc : Pcs, queue : Seq(Names)]
  BY <1>1, TopFrame
<1>3. /\ stack' = Append(Front(stack), f) \/ stack' = Append(Front(stack), g)
      /\ UNCHANGED <<text, module, it, classes>>
  BY DEF ClassAsks, Becomes
<1>4. it.name \in Names \cup {NoName} /\ NSObject \in Names
  BY InvFacts DEF Names
<1>5. q \in Seq(Names)
  <2>1. more \in Seq(Names)
    BY InvFacts DEF Isas
  <2> HIDE DEF more
  <2> QED
    BY <1>2, <2>1
<1> HIDE DEF q
<1>6. f \in Frames /\ f.what = "class" /\ f.name = Top.name /\ f.pc # "register"
  BY <1>2, <1>4 DEF Frames, Pcs
<1>7. g \in Frames /\ g.what = "class" /\ g.name = Top.name /\ g.pc # "register"
  BY <1>2, <1>4, <1>5 DEF Frames, Pcs
<1> HIDE DEF f, g
<1>8. ASSUME NEW h \in Frames, h.what = "class", h.name = Top.name, h.pc # "register"
      PROVE  LET t == Append(Front(stack), h)
             IN t \in Seq(Frames) /\ Caught(t, module) /\ Called(t, module, isa)
  BY <1>2, <1>8, InvFacts, ReplaceKeeps DEF Uses
<1>9. /\ stack' \in Seq(Frames) /\ module' \in [Classes -> States]
      /\ Caught(stack', module') /\ Called(stack', module', isa)
  BY <1>3, <1>6, <1>7, <1>8, InvFacts
<1> QED
  BY <1>1, <1>3, <1>9, QuietStep, InvFacts

\* @ISA only grows here: what a package saw it still sees, and it sees the
\* superclass this call is going to register.
LEMMA ClassSetsIsaStep ==
  ASSUME Inv, ClassSetsIsa
  PROVE  Inv'
<1> DEFINE c == Top.name
           s == Top.super
           f == [Top EXCEPT !.pc = "register"]
           b == Append(Front(stack), f)
<1>1. Running("class") /\ ~At("again")
  BY DEF ClassSetsIsa, At
<1>2. /\ stack # <<>> /\ Top = Last(stack) /\ module[c] = "loaded" /\ c \in Classes /\ s \in Names
      /\ Top \in [what : {"class"}, name : Classes, checked : SUBSET (Names \cup {NoName}),
                   asked : Names \cup {NoName}, super : Names, pc : Pcs, queue : Seq(Names)]
  BY <1>1, TopFrame
<1>3. /\ isa' = [isa EXCEPT ![c] = IF Sees(isa, c, s) THEN @ ELSE Append(@, s)]
      /\ objc_getClass(c, b)
      /\ UNCHANGED <<text, registered, superOf, added, it>>
  BY DEF ClassSetsIsa, GoesOn, Sees
<1>4. f \in Frames /\ f.what = "class" /\ f.name = c /\ f.super = s
  BY <1>2 DEF Frames, Pcs
<1> HIDE DEF f, c, s
<1>5. isa \in Isas /\ isa[c] \in Seq(Names)
  BY <1>2, InvFacts DEF Isas
<1>6. /\ Append(isa[c], s) \in Seq(Names)
      /\ \A e \in Range(isa[c]) : e \in Range(Append(isa[c], s))
      /\ s \in Range(Append(isa[c], s))
  <2> DEFINE o == isa[c] a == Append(o, s)
  <2>1. o \in Seq(Names)
    BY <1>5
  <2> HIDE DEF o
  <2>2. /\ a \in Seq(Names) /\ DOMAIN o = 1 .. Len(o) /\ DOMAIN a = 1 .. Len(o) + 1
        /\ Len(o) \in Nat
        /\ \A i \in 1 .. Len(o) : a[i] = o[i]
        /\ a[Len(o) + 1] = s
    BY <1>2, <2>1
  <2> HIDE DEF a
  <2>3. /\ a \in Seq(Names) /\ (\A e \in Range(o) : e \in Range(a)) /\ s \in Range(a)
    BY <2>2 DEF Range
  <2> QED
    BY <2>3 DEF o, a
<1>7. isa' \in Isas
  BY <1>2, <1>3, <1>5, <1>6 DEF Isas
<1>8. \A e \in Classes : \A d : Sees(isa, e, d) => Sees(isa', e, d)
  BY <1>2, <1>3, <1>5, <1>6 DEF Sees, Isas
<1>9. Sees(isa', c, s)
  BY <1>2, <1>3, <1>5, <1>6 DEF Sees, Isas
<1>10. Called(stack, module, isa')
  <2>1. \A i \in 1 .. Len(stack) : stack[i].name \in Classes
    <3>1. \A g \in Frames : g.name \in Classes
      BY DEF Frames
    <3> QED
      BY <3>1, InvFacts
  <2> QED
    BY <2>1, <1>8, InvFacts DEF Called
<1>11. b \in Seq(Frames) /\ Caught(b, module) /\ Called(b, module, isa')
  BY <1>2, <1>4, <1>9, <1>10, InvFacts, ReplaceKeeps DEF Uses, c, s
<1> HIDE DEF b
<1>12. stack' = b /\ UNCHANGED module
  <2>1. CASE c \in registered
    BY <1>3, <2>1 DEF objc_getClass
  <2>2. CASE c \notin registered
    BY <1>2, <1>3, <2>2 DEF objc_getClass, Load
  <2> QED
    BY <2>1, <2>2
<1>13. /\ Caught(stack, module)' /\ Called(stack, module, isa)'
  BY <1>11, <1>12
<1>14. TypeOK'
  BY <1>3, <1>7, <1>11, <1>12 DEF Inv, TypeOK, Isas
<1>15. Settled(module, isa)'
  <2>1. \A d \in registered \ {NSObject} :
          d \in Classes /\ module[d] = "loaded" /\ Sees(isa, d, superOf[d]) /\ added[d] > 0
    BY <1>1 DEF Inv, Settled
  <2> QED
    BY <2>1, <1>3, <1>8, <1>12 DEF Settled
<1> QED
  BY <1>13, <1>14, <1>15 DEF Inv

\* Whether the class is registered or not, its call goes on: its module is
\* loaded, so the runtime has nothing to load.
LEMMA CBRegisterStep ==
  ASSUME Inv, CBRegister
  PROVE  Inv'
<1> DEFINE c == Top.name
           s == Top.super
           f == [Top EXCEPT !.pc = "again"]
           b == Append(Front(stack), f)
<1>1. Running("class") /\ ~At("again") /\ Top.pc = "register"
  BY DEF CBRegister, At
<1>2. /\ stack # <<>> /\ Top = Last(stack) /\ module[c] = "loaded" /\ c \in Classes /\ s \in Names
      /\ Sees(isa, c, s)
      /\ Top \in [what : {"class"}, name : Classes, checked : SUBSET (Names \cup {NoName}),
                   asked : Names \cup {NoName}, super : Names, pc : Pcs, queue : Seq(Names)]
  BY <1>1, TopFrame
<1>3. /\ \/ /\ c \notin registered /\ s \in registered
            /\ registered' = registered \cup {c}
            /\ superOf' = [d \in registered' \ {NSObject} |->
                             IF d \in registered THEN superOf[d] ELSE s]
            /\ stack' = b /\ UNCHANGED module
         \/ objc_getClass(c, b) /\ UNCHANGED <<registered, superOf>>
      /\ UNCHANGED <<text, isa, added, it>>
  BY DEF CBRegister, GoesOn
<1>4. f \in Frames /\ f.what = "class" /\ f.name = c /\ f.pc = "again"
  BY <1>2 DEF Frames, Pcs
<1> HIDE DEF f
<1>5. /\ b \in Seq(Frames) /\ Caught(b, module) /\ Called(b, module, isa)
      /\ Last(b) = f /\ b # <<>>
  BY <1>2, <1>4, InvFacts, ReplaceKeeps DEF Uses
<1> HIDE DEF b, c, s
<1>6. stack' = b /\ UNCHANGED module
  <2>1. ASSUME objc_getClass(c, b) PROVE stack' = b /\ UNCHANGED module
    BY <1>2, <2>1 DEF objc_getClass, Load
  <2> QED
    BY <1>3, <2>1
<1>7. Caught(stack, module)' /\ Called(stack, module, isa)'
  BY <1>3, <1>5, <1>6
<1>8. At("again")' /\ Top'.name = c
  BY <1>4, <1>5, <1>6 DEF At, Running, Idle, Top
<1>9. ASSUME NEW d \in registered \ {NSObject}
      PROVE  /\ d \in Classes /\ module[d] = "loaded" /\ Sees(isa, d, superOf[d]) /\ added[d] > 0
             /\ superOf[d] \in Names
  BY <1>1 DEF Inv, Settled, TypeOK
<1>10. TypeOK' /\ Settled(module, isa)'
  <2>1. CASE UNCHANGED <<registered, superOf>>
    <3>1. TypeOK'
      BY <1>3, <1>5, <1>6, <2>1 DEF Inv, TypeOK
    <3>2. Settled(module, isa)'
      BY <1>3, <1>6, <1>9, <2>1 DEF Settled
    <3> QED
      BY <3>1, <3>2
  <2>2. CASE /\ c \notin registered /\ registered' = registered \cup {c}
             /\ superOf' = [d \in registered' \ {NSObject} |->
                             IF d \in registered THEN superOf[d] ELSE s]
    <3>1. /\ superOf' \in [registered' \ {NSObject} -> Names]
          /\ registered' \subseteq Names /\ NSObject \in registered'
      BY <1>2, <1>9, <2>2 DEF Inv, TypeOK, Names
    <3>2. TypeOK'
      BY <1>3, <1>5, <1>6, <3>1 DEF Inv, TypeOK
    <3>3. ASSUME NEW d \in registered' \ {NSObject}
          PROVE  /\ d \in Classes /\ module[d] = "loaded" /\ Sees(isa, d, superOf'[d])
                 /\ (added[d] > 0 \/ d = c)
      <4>1. CASE d \in registered
        BY <1>9, <2>2, <4>1
      <4>2. CASE d = c
        BY <1>2, <2>2, <4>2
      <4> QED
        BY <4>1, <4>2, <2>2
    <3>4. Settled(module, isa)'
      BY <1>3, <1>6, <1>8, <3>3 DEF Settled
    <3> QED
      BY <3>2, <3>4
  <2> QED
    BY <1>3, <2>1, <2>2
<1> QED
  BY <1>7, <1>10 DEF Inv

\* The class that was registered last gets its methods.
LEMMA CBRegisterMethodsStep ==
  ASSUME Inv, CBRegisterMethods
  PROVE  Inv'
<1>1. Running("class")
  BY DEF CBRegisterMethods, At
<1>2. stack # <<>> /\ Top.name \in Classes
  BY <1>1, TopFrame
<1>3. /\ added' = [added EXCEPT ![Top.name] = IF Top.name \in registered THEN @ + 1 ELSE @]
      /\ stack' = Front(stack)
      /\ UNCHANGED <<text, registered, superOf, isa, module, it>>
  BY DEF CBRegisterMethods
<1>4. /\ stack' \in Seq(Frames) /\ Len(stack') <= Len(stack)
      /\ \A i \in 1 .. Len(stack') : stack'[i] = stack[i]
  <2>1. /\ stack' \in Seq(Frames) /\ Len(stack') = Len(stack) - 1 /\ Len(stack) \in Nat
        /\ \A i \in 1 .. Len(stack) - 1 : stack'[i] = stack[i]
    BY <1>2, <1>3, InvFacts, Fronts
  <2> QED
    BY <2>1
<1>5. Caught(stack', module) /\ Called(stack', module, isa)
  BY <1>4, CutKeeps, InvFacts
<1>6. Caught(stack, module)' /\ Called(stack, module, isa)'
  BY <1>3, <1>5
<1>7. added \in [Classes -> Nat]
  BY DEF Inv, TypeOK
<1>8. added' \in [Classes -> Nat]
  BY <1>2, <1>3, <1>7
<1>9. TypeOK'
  BY <1>3, <1>4, <1>8 DEF Inv, TypeOK
<1>10. ASSUME NEW d \in registered \ {NSObject}
       PROVE  d \in Classes /\ module[d] = "loaded" /\ Sees(isa, d, superOf[d]) /\ added'[d] > 0
  <2>1. /\ d \in Classes /\ module[d] = "loaded" /\ Sees(isa, d, superOf[d])
        /\ added[d] > 0 \/ Top.name = d
    BY DEF Inv, Settled
  <2> QED
    BY <2>1, <1>2, <1>3, <1>7
<1>11. Settled(module, isa)'
  BY <1>3, <1>10 DEF Settled
<1> QED
  BY <1>6, <1>9, <1>11 DEF Inv

LEMMA StutterStep ==
  ASSUME Inv, UNCHANGED vars
  PROVE  Inv'
<1>1. TypeOK'
  BY DEF vars, Inv, TypeOK
<1>2. Caught(stack, module)' /\ Called(stack, module, isa)'
  BY DEF vars, Inv
<1>3. At("again")' = At("again") /\ Top' = Top
  BY DEF vars, At, Running, Idle, Top
<1>4. Settled(module, isa)'
  BY <1>3 DEF vars, Inv, Settled
<1> QED
  BY <1>1, <1>2, <1>4 DEF Inv

\* Nothing is loaded and only the root is registered.
LEMMA InitInv == Init => Inv
<1> SUFFICES ASSUME Init PROVE Inv
  OBVIOUS
<1> USE DEF Init
<1>1. TypeOK
  <2>1. registered \ {NSObject} = {} /\ NSObject \in Names
    BY DEF Names
  <2>2. superOf \in [registered \ {NSObject} -> Names]
    BY <2>1
  <2>3. /\ <<>> \in Seq(Frames) /\ <<>> \in Seq(Names)
    OBVIOUS
  <2> QED
    BY <2>1, <2>2, <2>3 DEF TypeOK
<1>2. Caught(stack, module) /\ Called(stack, module, isa)
  BY EmptyStack
<1>3. Settled(module, isa)
  BY DEF Settled
<1> QED
  BY <1>1, <1>2, <1>3 DEF Inv

\* Every step keeps the invariant.
LEMMA NextInv == Inv /\ [Next]_vars => Inv'
<1> SUFFICES ASSUME Inv, [Next]_vars PROVE Inv'
  OBVIOUS
<1>1. CASE UNCHANGED vars
  BY <1>1, StutterStep
<1>2. ASSUME NEW c \in Classes, Asks(c) PROVE Inv'
  BY <1>2, AsksStep
<1>3. ASSUME NEW c \in Classes, ClassAgain(c) PROVE Inv'
  BY <1>3, ClassAgainStep
<1>4. CASE Loads
  BY <1>4, ModuleUsesStep, ModuleDiesStep, ModuleCallsClassStep DEF Loads
<1>5. CASE Class
  BY <1>5, ClassSearchesStep, ClassAsksStep, ClassSetsIsaStep, CBRegisterStep,
     CBRegisterMethodsStep DEF Class
<1>6. CASE AllLoaded
  BY <1>6, StutterStep DEF AllLoaded
<1> QED
  BY <1>1, <1>2, <1>3, <1>4, <1>5, <1>6 DEF Next

\* The invariant holds throughout.
LEMMA AlwaysInv == Spec => []Inv
BY InitInv, NextInv, PTL DEF Spec

\* Every variable keeps its type, the stack and $_ included: no class() call
\* (CamelBones.pm) works on anything but a name of a class or no name.
THEOREM RegistryTypeCorrect == Spec => []TypeOK
<1>1. Inv => TypeOK
  BY DEF Inv
<1> QED
  BY <1>1, AlwaysInv, PTL

\* class() (CamelBones.pm) puts the superclass, or a class whose name contains
\* its name, into @ISA before CBRegisterClassWithSuperClass (Runtime.m) makes it
\* the superclass, and nothing that is loaded in between takes it away: Perl finds
\* the methods of the superclass of every registered class.
THEOREM PerlFindsSuper == Spec => []PerlSeesSuper
<1>1. Inv => PerlSeesSuper
  BY DEF Inv, Settled, Sees, PerlSeesSuper
<1> QED
  BY <1>1, AlwaysInv, PTL

\* A class that is registered has the methods its package exports as soon as
\* loading is over, whichever modules died meanwhile: between
\* CBRegisterClassWithSuperClass and CBRegisterObjectMethods (Runtime.m) no error
\* ends the class() call.
THEOREM NoClassWithoutMethods == Spec => []MethodsFollow
<1>1. Inv => MethodsFollow
  BY DEF Inv, Settled, MethodsFollow, At, Running
<1> QED
  BY <1>1, AlwaysInv, PTL

----------------------------------------------------------------------------
(* The superclasses that modules name.                                      *)

\* The classes whose modules may be loaded while the module of c is.
Needed(c) == Reached(c, Needs)
IsNeeded(n, c) == n \in Classes => n \in Needed(c)

\* The classes HierarchyAsUsed speaks of.
Punctual(c) == \A a \in Reached(c, Parents) \cap Classes : ~ParentIsLate(a)

\* The modules that s[i] has used are loaded, or being loaded: no later than
\* right after s[i], and then without an eval of their own.  The innermost
\* module may have the modules of extra still to load.
UsesDone(s, m, extra) ==
  \A i \in 1 .. Len(s) : Uses(s[i]) =>
    \A u \in text[s[i].name].uses \ s[i].todo :
      \/ m[u] = "loaded"
      \/ i = Len(s) /\ u \in extra
      \/ \E j \in 1 .. Len(s) : /\ Uses(s[j]) /\ s[j].name = u
                                /\ j <= i \/ (j = i + 1 /\ ~s[j].inEval)

Chained(s) == \A i \in 1 .. Len(s) : \A j \in i .. Len(s) : s[j].name \in Needed(s[i].name)
Todo(s) == \A i \in 1 .. Len(s) : Uses(s[i]) => s[i].todo \subseteq text[s[i].name].uses
OnStack(s, m) ==
  \A u \in Classes : m[u] = "loading" => \E j \in 1 .. Len(s) : Uses(s[j]) /\ s[j].name = u

Ordered(s, m, extra) == Chained(s) /\ Todo(s) /\ UsesDone(s, m, extra) /\ OnStack(s, m)

\* @ISA, and what a class() call finds in it, are needed; n is what $_ holds.
IsaNeeded(r) == \A c \in Classes : \A d \in Range(r[c]) : IsNeeded(d, c)
FindsNeeded(f, n) ==
  Calls(f) => /\ \A d \in Range(f.queue) : IsNeeded(d, f.name)
              /\ IsNeeded(f.asked, f.name) /\ IsNeeded(f.super, f.name)
              /\ f.pc = "asked" => IsNeeded(n, f.name)
AllFindNeeded(s, n) == \A i \in 1 .. Len(s) : FindsNeeded(s[i], n)

\* The class() call s[i] finds the parent; w is $_.
FindsParent(s, i, reg, w) ==
  LET f == s[i]
      p == text[f.name].parent
  IN  /\ i = Len(s) /\ p \in reg
      /\ f.pc = "search" => f.queue = <<p>> /\ f.checked = {}
      /\ f.pc = "asked" => f.asked = p /\ w = [name |-> p, by |-> i]
      /\ f.pc \in {"isa", "register", "again"} => f.super = p
      /\ f.pc = "again" => f.name \in reg
Straight(s, reg, w) ==
  \A i \in 1 .. Len(s) : Calls(s[i]) /\ Punctual(s[i].name) => FindsParent(s, i, reg, w)

\* The innermost frame is a class() call for c.
OnTop(s, c) == s # <<>> /\ Calls(s[Len(s)]) /\ s[Len(s)].name = c

\* A punctual class that is loaded has its parent, or is about to get it.
AsNamed(s, m, r, reg, sup) ==
  \A c \in Classes : Punctual(c) =>
    /\ m[c] = "loaded" => /\ text[c].parent \in reg
                          /\ ~text[c].explicit => r[c] = <<text[c].parent>>
                          /\ c \in reg \/ OnTop(s, c)
    /\ c \in reg => sup[c] = text[c].parent

NamedIn(s, m, r, reg, sup, w) ==
  /\ Ordered(s, m, {}) /\ IsaNeeded(r) /\ AllFindNeeded(s, w.name)
  /\ Straight(s, reg, w) /\ AsNamed(s, m, r, reg, sup)

NamedInv == NamedIn(stack, module, isa, registered, superOf, it)

\* The names reached from a name: itself, what they lead to, and no others.
LEMMA ReachedSelf == ASSUME NEW c \in Names, NEW R PROVE c \in Reached(c, R)
BY DEF Reached

LEMMA ReachedStep ==
  ASSUME NEW c, NEW R, NEW x \in Reached(c, R) \cap Classes, NEW d \in R[x], d \in Names
  PROVE  d \in Reached(c, R)
BY DEF Reached, Closed

LEMMA ReachedReached ==
  ASSUME NEW c, NEW R, NEW x \in Reached(c, R), NEW d \in Reached(x, R)
  PROVE  d \in Reached(c, R)
BY DEF Reached

\* What a text says has its type.
LEMMA TextFacts ==
  ASSUME TypeOK, NEW c \in Classes
  PROVE  /\ text[c].uses \in SUBSET Classes /\ text[c].parent \in Names
         /\ text[c].explicit \in BOOLEAN
BY TextsAssumption DEF TypeOK, Text

LEMMA NeededFacts ==
  ASSUME TypeOK, NEW c \in Classes
  PROVE  /\ c \in Needed(c)
         /\ \A u \in text[c].uses : u \in Needed(c)
         /\ text[c].parent \in Needed(c)
         /\ \A x \in Needed(c) : \A d \in Needed(x) : d \in Needed(c)
<1>1. c \in Names /\ c \in Reached(c, Needs)
  BY ReachedSelf DEF Names
<1>2. Needs[c] = text[c].uses \cup {text[c].parent} /\ Needs[c] \subseteq Names
  BY TextFacts DEF Needs, Names
<1>3. \A d \in Needs[c] : d \in Reached(c, Needs)
  BY <1>1, <1>2, ReachedStep
<1>4. \A x \in Reached(c, Needs) : \A d \in Reached(x, Needs) : d \in Reached(c, Needs)
  BY ReachedReached
<1> QED
  BY <1>1, <1>2, <1>3, <1>4 DEF Needed

LEMMA NeededNext ==
  ASSUME TypeOK, NEW c \in Classes, NEW x \in Classes, x \in Needed(c), NEW d, IsNeeded(d, x)
  PROVE  IsNeeded(d, c)
BY NeededFacts DEF IsNeeded

\* A punctual class uses its parent's module, which does not need it, and
\* its parent is punctual.
LEMMA PunctualFacts ==
  ASSUME TypeOK, NEW c \in Classes, Punctual(c)
  PROVE  LET p == text[c].parent
         IN  /\ p = NSObject \/ (p \in Classes /\ p \in text[c].uses /\ c \notin Needed(p))
             /\ p \in Classes => Punctual(p)
<1> DEFINE p == text[c].parent
<1>1. c \in Reached(c, Parents) /\ p \in Names /\ Parents[c] = {p}
  BY ReachedSelf, TextFacts DEF Names, Parents
<1>2. p = NSObject \/ (p \in Classes /\ p \in text[c].uses /\ c \notin Needed(p))
  BY <1>1 DEF Punctual, ParentIsLate, Needed, Names
<1>3. p \in Reached(c, Parents)
  BY <1>1, ReachedStep
<1>4. \A a \in Reached(p, Parents) : a \in Reached(c, Parents)
  BY <1>3, ReachedReached
<1> QED
  BY <1>2, <1>4 DEF Punctual

\* A text stays as it is, and with it all that is said about it.
LEMMA TextKept ==
  ASSUME text' = text
  PROVE  (\A c : Needed(c)' = Needed(c)) /\ (\A c : Punctual(c)' = Punctual(c))
<1>1. Needs' = Needs /\ Parents' = Parents
  BY DEF Needs, Parents
<1>2. \A c : Needed(c)' = Needed(c)
  BY <1>1 DEF Needed
<1>3. \A c : Punctual(c)' = Punctual(c)
  BY <1>1 DEF Punctual, ParentIsLate
<1> QED
  BY <1>2, <1>3

LEMMA NamedNext ==
  ASSUME text' = text, NamedIn(stack', module', isa', registered', superOf', it')
  PROVE  NamedInv'
<1>1. (\A c : Needed(c)' = Needed(c)) /\ (\A c : Punctual(c)' = Punctual(c))
  BY TextKept
<1>2. Ordered(stack, module, {})'
  <2>1. Chained(stack)'
    BY <1>1 DEF NamedIn, Ordered, Chained
  <2>2. Todo(stack)'
    BY <1>1 DEF NamedIn, Ordered, Todo, Uses
  <2>3. UsesDone(stack, module, {})'
    BY <1>1 DEF NamedIn, Ordered, UsesDone, Uses
  <2>4. OnStack(stack, module)'
    BY <1>1 DEF NamedIn, Ordered, OnStack, Uses
  <2> QED
    BY <2>1, <2>2, <2>3, <2>4 DEF Ordered
<1>3. IsaNeeded(isa)'
  BY <1>1 DEF NamedIn, IsaNeeded, IsNeeded
<1>4. AllFindNeeded(stack, it.name)'
  BY <1>1 DEF NamedIn, AllFindNeeded, FindsNeeded, IsNeeded, Calls
<1>5. Straight(stack, registered, it)'
  BY <1>1 DEF NamedIn, Straight, FindsParent, Calls
<1>6. AsNamed(stack, module, isa, registered, superOf)'
  BY <1>1 DEF NamedIn, AsNamed, OnTop, Calls
<1> QED
  BY <1>2, <1>3, <1>4, <1>5, <1>6 DEF NamedInv, NamedIn

\* The stack t is s with f on it, s with f in the place of its top, a piece
\* of s.
Grows(t, s, f) ==
  /\ Len(s) \in Nat /\ Len(t) = Len(s) + 1
  /\ t[Len(s) + 1] = f /\ \A i \in 1 .. Len(s) : t[i] = s[i]
Turns(t, s, f) ==
  /\ Len(s) \in Nat \ {0} /\ Len(t) = Len(s)
  /\ t[Len(s)] = f /\ \A i \in 1 .. Len(s) - 1 : t[i] = s[i]
Cut(t, s) ==
  /\ Len(s) \in Nat /\ Len(t) \in Nat /\ Len(t) <= Len(s)
  /\ \A i \in 1 .. Len(t) : t[i] = s[i]

LEMMA ShapeGrows ==
  ASSUME NEW s \in Seq(Frames), NEW f \in Frames
  PROVE  Append(s, f) \in Seq(Frames) /\ Grows(Append(s, f), s, f)
BY Appends DEF Grows

LEMMA ShapeTurns ==
  ASSUME NEW s \in Seq(Frames), s # <<>>, NEW f \in Frames
  PROVE  Append(Front(s), f) \in Seq(Frames) /\ Turns(Append(Front(s), f), s, f)
<1> DEFINE b == Front(s)
<1>1. /\ Len(s) \in Nat /\ Len(s) > 0 /\ b \in Seq(Frames) /\ Len(b) = Len(s) - 1
      /\ \A i \in 1 .. Len(s) - 1 : b[i] = s[i]
  BY Fronts
<1> HIDE DEF b
<1>2. /\ Append(b, f) \in Seq(Frames) /\ Len(Append(b, f)) = Len(b) + 1
      /\ \A i \in 1 .. Len(b) : Append(b, f)[i] = b[i]
      /\ Append(b, f)[Len(b) + 1] = f
  BY <1>1, Appends
<1>3. Turns(Append(b, f), s, f)
  BY <1>1, <1>2 DEF Turns
<1> QED
  BY <1>2, <1>3 DEF b

\* The order of the stack when its top changes, for the same class.
LEMMA TurnOrdered ==
  ASSUME NEW s \in Seq(Frames), NEW t, NEW f, Turns(t, s, f), NEW m, NEW extra,
         Ordered(s, m, {}), f.name = s[Len(s)].name, Uses(f) <=> Uses(s[Len(s)]),
         Uses(f) => /\ f.inEval = s[Len(s)].inEval /\ f.todo \subseteq s[Len(s)].todo
                    /\ s[Len(s)].todo \ f.todo \subseteq extra
  PROVE  Ordered(t, m, extra)
<1> DEFINE n == Len(s)
<1>1. /\ n \in Nat \ {0} /\ Len(t) = n /\ t[n] = f /\ \A i \in 1 .. n - 1 : t[i] = s[i]
  BY DEF Turns
<1>2. \A i \in 1 .. n : t[i].name = s[i].name /\ (Uses(t[i]) <=> Uses(s[i]))
  BY <1>1
<1>3. \A i \in 1 .. n : Uses(t[i]) => t[i].inEval = s[i].inEval
  BY <1>1
<1>4. \A i \in 1 .. n : Uses(t[i]) =>
        /\ t[i].todo \subseteq s[i].todo
        /\ \A u \in s[i].todo \ t[i].todo : i = n /\ u \in extra
  BY <1>1
<1> HIDE DEF n
<1>5. Chained(t)
  <2>1. \A i \in 1 .. n : \A j \in i .. n : s[j].name \in Needed(s[i].name)
    BY DEF Ordered, Chained, n
  <2>2. \A i \in 1 .. n : \A j \in i .. n : j \in 1 .. n
    BY <1>1
  <2> QED
    BY <1>1, <1>2, <2>1, <2>2 DEF Chained
<1>6. Todo(t)
  <2>1. \A i \in 1 .. n : Uses(s[i]) => s[i].todo \subseteq text[s[i].name].uses
    BY DEF Ordered, Todo, n
  <2> QED
    BY <1>1, <1>2, <1>4, <2>1 DEF Todo
<1>7. UsesDone(t, m, extra)
  <2> SUFFICES ASSUME NEW i \in 1 .. n, Uses(t[i]), NEW u \in text[t[i].name].uses \ t[i].todo
               PROVE  \/ m[u] = "loaded"
                      \/ i = n /\ u \in extra
                      \/ \E j \in 1 .. n : /\ Uses(t[j]) /\ t[j].name = u
                                           /\ j <= i \/ (j = i + 1 /\ ~t[j].inEval)
    BY <1>1 DEF UsesDone
  <2>1. CASE u \in s[i].todo
    BY <1>4, <2>1
  <2>2. CASE u \notin s[i].todo
    <3>1. Uses(s[i]) /\ u \in text[s[i].name].uses \ s[i].todo
      BY <1>2, <2>2
    <3>2. \/ m[u] = "loaded"
          \/ \E j \in 1 .. n : /\ Uses(s[j]) /\ s[j].name = u
                               /\ j <= i \/ (j = i + 1 /\ ~s[j].inEval)
      BY <3>1 DEF Ordered, UsesDone, n
    <3> QED
      BY <1>2, <1>3, <3>2
  <2> QED
    BY <2>1, <2>2
<1>8. OnStack(t, m)
  <2>1. \A u \in Classes : m[u] = "loading" => \E j \in 1 .. n : Uses(s[j]) /\ s[j].name = u
    BY DEF Ordered, OnStack, n
  <2> QED
    BY <1>1, <1>2, <2>1 DEF OnStack
<1> QED
  BY <1>5, <1>6, <1>7, <1>8 DEF Ordered

\* The module of u, which s may still have to load, is loading or loaded.
LEMMA ExtraDone ==
  ASSUME NEW s \in Seq(Frames), NEW m, NEW u \in Classes, Ordered(s, m, {u}),
         m[u] \in {"loading", "loaded"}
  PROVE  Ordered(s, m, {})
<1>1. Len(s) \in Nat
  OBVIOUS
<1>2. m[u] = "loaded" \/ \E j \in 1 .. Len(s) : Uses(s[j]) /\ s[j].name = u
  BY DEF Ordered, OnStack
<1>3. UsesDone(s, m, {})
  <2> SUFFICES ASSUME NEW i \in 1 .. Len(s), Uses(s[i]),
                      NEW v \in text[s[i].name].uses \ s[i].todo
               PROVE  \/ m[v] = "loaded"
                      \/ \E j \in 1 .. Len(s) : /\ Uses(s[j]) /\ s[j].name = v
                                                /\ j <= i \/ (j = i + 1 /\ ~s[j].inEval)
    BY DEF UsesDone
  <2>1. CASE i = Len(s) /\ v = u
    <3>1. \A j \in 1 .. Len(s) : j <= Len(s)
      BY <1>1
    <3> QED
      BY <1>2, <2>1, <3>1
  <2>2. CASE ~(i = Len(s) /\ v = u)
    BY <2>2 DEF Ordered, UsesDone
  <2> QED
    BY <2>1, <2>2
<1> QED
  BY <1>3 DEF Ordered

\* A module starts to load: m becomes k.
Starts(m, k, u) ==
  /\ u \in Classes /\ m[u] = "new" /\ k[u] = "loading"
  /\ \A v \in Classes : v # u => k[v] = m[v]

LEMMA GrowOrdered ==
  ASSUME TypeOK, NEW s \in Seq(Frames), NEW t, NEW f, NEW m, NEW k, NEW u \in Classes,
         NEW extra \in SUBSET {u}, NEW inEval \in BOOLEAN, f = UseFrame(u, inEval),
         Grows(t, s, f), Ordered(s, m, extra), Starts(m, k, u),
         extra = {} \/ ~inEval, s # <<>> => u \in Needed(s[Len(s)].name)
  PROVE  Ordered(t, k, {})
<1> DEFINE n == Len(s)
<1>1. /\ n \in Nat /\ Len(t) = n + 1 /\ t[n + 1] = f /\ \A i \in 1 .. n : t[i] = s[i]
  BY DEF Grows
<1>m. /\ m[u] = "new" /\ k[u] = "loading"
      /\ \A v \in Classes : v # u => k[v] = m[v]
  BY DEF Starts
<1>2. /\ Uses(f) /\ f.name = u /\ f.inEval = inEval /\ f.todo = text[u].uses
  BY UseFrames DEF UseFrame
<1>3. \A i \in 1 .. n : s[i] \in Frames /\ s[i].name \in Classes
  BY DEF Frames
<1> HIDE DEF n
<1>4. Chained(t)
  <2> SUFFICES ASSUME NEW i \in 1 .. n + 1, NEW j \in i .. n + 1
               PROVE  t[j].name \in Needed(t[i].name)
    BY <1>1 DEF Chained
  <2>1. CASE j <= n
    <3>1. i \in 1 .. n /\ j \in i .. n /\ j \in 1 .. n
      BY <1>1, <2>1
    <3> QED
      BY <1>1, <3>1 DEF Ordered, Chained, n
  <2>2. CASE j = n + 1 /\ i <= n
    <3>1. i \in 1 .. n /\ n \in i .. n /\ n \in 1 .. n /\ n # 0
      BY <1>1, <2>2
    <3>2. s[n].name \in Needed(s[i].name)
      BY <3>1 DEF Ordered, Chained, n
    <3>3. u \in Needed(s[n].name)
      BY <3>1 DEF n
    <3>4. u \in Needed(s[i].name)
      BY <1>3, <3>1, <3>2, <3>3, NeededFacts
    <3> QED
      BY <1>1, <1>2, <2>2, <3>1, <3>4
  <2>3. CASE j = n + 1 /\ i = n + 1
    BY <1>1, <1>2, <2>3, NeededFacts
  <2> QED
    BY <1>1, <2>1, <2>2, <2>3
<1>5. Todo(t)
  <2>1. \A i \in 1 .. n : Uses(s[i]) => s[i].todo \subseteq text[s[i].name].uses
    BY DEF Ordered, Todo, n
  <2> QED
    BY <1>1, <1>2, <2>1 DEF Todo
<1>6. UsesDone(t, k, {})
  <2> SUFFICES ASSUME NEW i \in 1 .. n + 1, Uses(t[i]),
                      NEW v \in text[t[i].name].uses \ t[i].todo
               PROVE  \/ k[v] = "loaded"
                      \/ \E j \in 1 .. n + 1 : /\ Uses(t[j]) /\ t[j].name = v
                                               /\ j <= i \/ (j = i + 1 /\ ~t[j].inEval)
    BY <1>1 DEF UsesDone
  <2>1. CASE i = n + 1
    BY <1>1, <1>2, <2>1
  <2>2. CASE i \in 1 .. n
    <3>1. v \in Classes
      BY <1>1, <1>3, <2>2, TextFacts
    <3>2. \/ m[v] = "loaded"
          \/ i = n /\ v \in extra
          \/ \E j \in 1 .. n : /\ Uses(s[j]) /\ s[j].name = v
                               /\ j <= i \/ (j = i + 1 /\ ~s[j].inEval)
      BY <1>1, <2>2 DEF Ordered, UsesDone, n
    <3>3. CASE m[v] = "loaded"
      BY <1>m, <3>1, <3>3
    <3>4. CASE i = n /\ v \in extra
      <4>1. n + 1 \in 1 .. n + 1 /\ v = u /\ ~inEval
        BY <1>1, <3>4
      <4> QED
        BY <1>1, <1>2, <3>4, <4>1
    <3>5. CASE \E j \in 1 .. n : /\ Uses(s[j]) /\ s[j].name = v
                                 /\ j <= i \/ (j = i + 1 /\ ~s[j].inEval)
      <4>1. PICK j \in 1 .. n : /\ Uses(s[j]) /\ s[j].name = v
                                /\ j <= i \/ (j = i + 1 /\ ~s[j].inEval)
        BY <3>5
      <4>2. j \in 1 .. n + 1 /\ t[j] = s[j]
        BY <1>1, <4>1
      <4> QED
        BY <4>1, <4>2
    <3> QED
      BY <3>2, <3>3, <3>4, <3>5
  <2> QED
    BY <1>1, <2>1, <2>2
<1>7. OnStack(t, k)
  <2> SUFFICES ASSUME NEW v \in Classes, k[v] = "loading"
               PROVE  \E j \in 1 .. n + 1 : Uses(t[j]) /\ t[j].name = v
    BY <1>1 DEF OnStack
  <2>1. CASE v = u
    <3>1. n + 1 \in 1 .. n + 1
      BY <1>1
    <3> QED
      BY <1>1, <1>2, <2>1, <3>1
  <2>2. CASE v # u
    <3>1. PICK j \in 1 .. n : Uses(s[j]) /\ s[j].name = v
      BY <1>m, <2>2 DEF Ordered, OnStack, n
    <3>2. j \in 1 .. n + 1 /\ t[j] = s[j]
      BY <1>1, <3>1
    <3> QED
      BY <3>1, <3>2
  <2> QED
    BY <2>1, <2>2
<1> QED
  BY <1>4, <1>5, <1>6, <1>7 DEF Ordered

\* A module calls class(): it is loaded, and m becomes k.
Finishes(m, k, c) == k[c] = "loaded" /\ \A v \in Classes : v # c => k[v] = m[v]

LEMMA LoadedOrdered ==
  ASSUME NEW s \in Seq(Frames), NEW t, NEW f, Turns(t, s, f), NEW m, NEW k, NEW c \in Classes,
         Ordered(s, m, {}), s[Len(s)].name = c, f.name = c, ~Uses(f),
         Finishes(m, k, c),
         \A i \in 1 .. Len(s) : text[s[i].name].uses \subseteq Classes
  PROVE  Ordered(t, k, {})
<1> DEFINE n == Len(s)
<1>1. /\ n \in Nat \ {0} /\ Len(t) = n /\ t[n] = f /\ \A i \in 1 .. n - 1 : t[i] = s[i]
  BY DEF Turns
<1>2. \A i \in 1 .. n : t[i].name = s[i].name /\ (Uses(t[i]) => i <= n - 1 /\ t[i] = s[i])
  BY <1>1
<1>3. \A j \in 1 .. n : Uses(s[j]) => s[j].name = c \/ (Uses(t[j]) /\ t[j] = s[j])
  BY <1>1
<1> HIDE DEF n
<1>m. k[c] = "loaded" /\ \A v \in Classes : v # c => k[v] = m[v]
  BY DEF Finishes
<1>4. Chained(t)
  <2>1. \A i \in 1 .. n : \A j \in i .. n : s[j].name \in Needed(s[i].name)
    BY DEF Ordered, Chained, n
  <2>2. \A i \in 1 .. n : \A j \in i .. n : j \in 1 .. n
    BY <1>1
  <2> QED
    BY <1>1, <1>2, <2>1, <2>2 DEF Chained
<1>5. Todo(t)
  <2>1. \A i \in 1 .. n : Uses(s[i]) => s[i].todo \subseteq text[s[i].name].uses
    BY DEF Ordered, Todo, n
  <2> QED
    BY <1>1, <1>2, <2>1 DEF Todo
<1>6. UsesDone(t, k, {})
  <2> SUFFICES ASSUME NEW i \in 1 .. n, Uses(t[i]), NEW v \in text[t[i].name].uses \ t[i].todo
               PROVE  \/ k[v] = "loaded"
                      \/ \E j \in 1 .. n : /\ Uses(t[j]) /\ t[j].name = v
                                           /\ j <= i \/ (j = i + 1 /\ ~t[j].inEval)
    BY <1>1 DEF UsesDone
  <2>1. t[i] = s[i] /\ v \in Classes
    BY <1>2 DEF n
  <2>2. \/ m[v] = "loaded"
        \/ \E j \in 1 .. n : /\ Uses(s[j]) /\ s[j].name = v
                             /\ j <= i \/ (j = i + 1 /\ ~s[j].inEval)
    BY <2>1 DEF Ordered, UsesDone, n
  <2>3. CASE v = c
    BY <1>m, <2>3
  <2>4. CASE v # c
    BY <1>m, <1>3, <2>1, <2>2, <2>4
  <2> QED
    BY <2>3, <2>4
<1>7. OnStack(t, k)
  <2> SUFFICES ASSUME NEW v \in Classes, k[v] = "loading"
               PROVE  \E j \in 1 .. n : Uses(t[j]) /\ t[j].name = v
    BY <1>1 DEF OnStack
  <2>1. v # c /\ m[v] = "loading"
    BY <1>m
  <2>2. PICK j \in 1 .. n : Uses(s[j]) /\ s[j].name = v
    BY <2>1 DEF Ordered, OnStack, n
  <2> QED
    BY <1>3, <2>1, <2>2
<1> QED
  BY <1>4, <1>5, <1>6, <1>7 DEF Ordered

\* The top of the stack goes, from an eval on, or one class() call.  What was
\* used below is loaded, or is below.
LEMMA CutOrdered ==
  ASSUME NEW s \in Seq(Frames), NEW t, Cut(t, s), NEW m, NEW k, Ordered(s, m, {}),
         Len(t) < Len(s), Uses(s[Len(t) + 1]) => s[Len(t) + 1].inEval,
         \A v \in Classes : m[v] = "loaded" => k[v] = "loaded",
         \A v \in Classes : k[v] = "loading" =>
            m[v] = "loading" /\ \A j \in Len(t) + 1 .. Len(s) : Uses(s[j]) => s[j].name # v,
         \A i \in 1 .. Len(s) : text[s[i].name].uses \subseteq Classes
  PROVE  Ordered(t, k, {})
<1> DEFINE n == Len(s) p == Len(t)
<1>1. n \in Nat /\ p \in Nat /\ p < n /\ \A i \in 1 .. p : t[i] = s[i] /\ i \in 1 .. n
  BY DEF Cut
<1> HIDE DEF n, p
<1>2. Chained(t)
  <2>1. \A i \in 1 .. n : \A j \in i .. n : s[j].name \in Needed(s[i].name)
    BY DEF Ordered, Chained, n
  <2>2. \A i \in 1 .. p : \A j \in i .. p : j \in 1 .. p /\ j \in i .. n
    BY <1>1
  <2> QED
    BY <1>1, <2>1, <2>2 DEF Chained, p
<1>3. Todo(t)
  BY <1>1 DEF Ordered, Todo, n, p
<1>4. UsesDone(t, k, {})
  <2> SUFFICES ASSUME NEW i \in 1 .. p, Uses(t[i]), NEW v \in text[t[i].name].uses \ t[i].todo
               PROVE  \/ k[v] = "loaded"
                      \/ \E j \in 1 .. p : /\ Uses(t[j]) /\ t[j].name = v
                                           /\ j <= i \/ (j = i + 1 /\ ~t[j].inEval)
    BY DEF UsesDone, p
  <2>v. v \in Classes
    BY <1>1 DEF n
  <2>1. \/ m[v] = "loaded"
        \/ \E j \in 1 .. n : /\ Uses(s[j]) /\ s[j].name = v
                             /\ j <= i \/ (j = i + 1 /\ ~s[j].inEval)
    BY <1>1 DEF Ordered, UsesDone, n
  <2>2. ASSUME NEW j \in 1 .. n, Uses(s[j]), s[j].name = v, j <= i \/ (j = i + 1 /\ ~s[j].inEval)
        PROVE  j \in 1 .. p /\ t[j] = s[j]
    <3>1. j # p + 1 \/ j <= i
      BY <2>2 DEF p
    <3>2. j \in 1 .. p
      BY <1>1, <2>2, <3>1
    <3> QED
      BY <1>1, <3>2
  <2> QED
    BY <2>v, <2>1, <2>2
<1>5. OnStack(t, k)
  <2> SUFFICES ASSUME NEW v \in Classes, k[v] = "loading"
               PROVE  \E j \in 1 .. p : Uses(t[j]) /\ t[j].name = v
    BY DEF OnStack, p
  <2>1. m[v] = "loading" /\ \A j \in p + 1 .. n : Uses(s[j]) => s[j].name # v
    BY DEF p, n
  <2>2. PICK j \in 1 .. n : Uses(s[j]) /\ s[j].name = v
    BY <2>1 DEF Ordered, OnStack, n
  <2>3. j \in 1 .. p
    BY <1>1, <2>1, <2>2
  <2> QED
    BY <1>1, <2>2, <2>3
<1> QED
  BY <1>2, <1>3, <1>4, <1>5 DEF Ordered

\* What frames below the top find, $_ being as it was.
LEMMA FindNext ==
  ASSUME NEW s, NEW t, NEW n, AllFindNeeded(s, n),
         \A i \in 1 .. Len(t) : (i \in 1 .. Len(s) /\ t[i] = s[i]) \/ FindsNeeded(t[i], n)
  PROVE  AllFindNeeded(t, n)
BY DEF AllFindNeeded

\* Only the top of a stack is a class() call of a punctual class.
LEMMA StraightNext ==
  ASSUME NEW s, NEW t, NEW reg, NEW w, NEW reg2, NEW w2, Straight(s, reg, w),
         Len(s) \in Nat, Len(t) \in Nat,
         \A i \in 1 .. Len(t) : i < Len(s) => t[i] = s[i],
         \A i \in 1 .. Len(t) : i >= Len(s) /\ Calls(t[i]) /\ Punctual(t[i].name) =>
           FindsParent(t, i, reg2, w2)
  PROVE  Straight(t, reg2, w2)
<1> SUFFICES ASSUME NEW i \in 1 .. Len(t), Calls(t[i]), Punctual(t[i].name)
             PROVE  FindsParent(t, i, reg2, w2)
  BY DEF Straight
<1>1. CASE i < Len(s)
  <2>1. i \in 1 .. Len(s) /\ t[i] = s[i]
    BY <1>1
  <2>2. FindsParent(s, i, reg, w)
    BY <2>1 DEF Straight
  <2> QED
    BY <1>1, <2>2 DEF FindsParent
<1>2. CASE ~(i < Len(s))
  BY <1>2
<1> QED
  BY <1>1, <1>2

\* Nothing new is loaded or registered.
LEMMA AsNamedNext ==
  ASSUME NEW s, NEW t, NEW m, NEW k, NEW r, NEW q, NEW reg, NEW sup, AsNamed(s, m, r, reg, sup),
         \A c \in Classes : k[c] = "loaded" => m[c] = "loaded",
         \A c \in Classes : Punctual(c) /\ ~text[c].explicit => q[c] = r[c],
         \A c \in Classes : Punctual(c) /\ OnTop(s, c) => c \in reg \/ OnTop(t, c)
  PROVE  AsNamed(t, k, q, reg, sup)
BY DEF AsNamed

\* What the state is when the stack changes on top only.
LEMMA Facts ==
  ASSUME Inv, NamedInv
  PROVE  /\ TypeOK /\ stack \in Seq(Frames) /\ Len(stack) \in Nat
         /\ Ordered(stack, module, {}) /\ IsaNeeded(isa) /\ AllFindNeeded(stack, it.name)
         /\ Straight(stack, registered, it)
         /\ AsNamed(stack, module, isa, registered, superOf)
         /\ module \in [Classes -> States] /\ isa \in Isas
         /\ it \in [name : Names \cup {NoName}, by : Nat]
         /\ NSObject \notin Classes /\ NoName \notin Classes /\ NSObject # NoName
<1>1. TypeOK /\ stack \in Seq(Frames) /\ module \in [Classes -> States] /\ isa \in Isas
      /\ it \in [name : Names \cup {NoName}, by : Nat]
  BY InvFacts DEF Inv
<1>2. Len(stack) \in Nat
  BY <1>1
<1>3. NSObject \notin Classes /\ NoName \notin Classes /\ NSObject # NoName
  BY NamesAssumption
<1> QED
  BY <1>1, <1>2, <1>3 DEF NamedInv, NamedIn

LEMMA TopIs ==
  ASSUME Inv, stack # <<>>
  PROVE  Len(stack) \in 1 .. Len(stack) /\ stack[Len(stack)] = Top /\ Len(stack) \in Nat \ {0}
<1>1. stack \in Seq(Frames)
  BY InvFacts
<1> QED
  BY <1>1, Fronts DEF Top

\* While a module runs, every punctual class that is loaded is registered.
LEMMA NoCall ==
  ASSUME Inv, NamedInv, Idle \/ Running("use")
  PROVE  /\ \A c : ~OnTop(stack, c)
         /\ \A c \in Classes : Punctual(c) /\ module[c] = "loaded" => c \in registered
         /\ \A i \in 1 .. Len(stack) : Calls(stack[i]) => ~Punctual(stack[i].name)
<1>1. \A c : ~OnTop(stack, c)
  <2>1. CASE Idle
    BY <2>1 DEF Idle, OnTop
  <2>2. CASE Running("use")
    BY <2>2, TopIs DEF OnTop, Running, Idle, Calls
  <2> QED
    BY <2>1, <2>2
<1>2. \A c \in Classes : Punctual(c) /\ module[c] = "loaded" => c \in registered
  BY <1>1, Facts DEF AsNamed
<1>3. ASSUME NEW i \in 1 .. Len(stack), Calls(stack[i]), Punctual(stack[i].name)
      PROVE  FALSE
  <2>1. i = Len(stack)
    BY <1>3, Facts DEF Straight, FindsParent
  <2>2. OnTop(stack, stack[i].name)
    BY <1>3, <2>1, Facts DEF OnTop
  <2> QED
    BY <1>1, <2>2
<1> QED
  BY <1>1, <1>2, <1>3

\* Loading a module, or not.
LEMMA LoadShape ==
  ASSUME TypeOK, NEW b \in Seq(Frames), NEW c, NEW inEval \in BOOLEAN, Load(c, inEval, b)
  PROVE  \/ stack' = b /\ module' = module /\ (c \in Classes => module[c] # "new")
         \/ Grows(stack', b, UseFrame(c, inEval)) /\ Starts(module, module', c)
<1>1. CASE ~(c \in Classes /\ module[c] = "new")
  BY <1>1 DEF Load
<1>2. CASE c \in Classes /\ module[c] = "new"
  <2>1. UseFrame(c, inEval) \in Frames
    BY <1>2, UseFrames
  <2>2. module' = [module EXCEPT ![c] = "loading"] /\ module \in [Classes -> States]
    BY <1>2 DEF Load, TypeOK, States
  <2>3. stack' = Append(b, UseFrame(c, inEval))
    BY <1>2 DEF Load
  <2> QED
    BY <1>2, <2>1, <2>2, <2>3, ShapeGrows DEF Starts
<1> QED
  BY <1>1, <1>2

LEMMA GetShape ==
  ASSUME TypeOK, NEW b \in Seq(Frames), NEW c, objc_getClass(c, b)
  PROVE  \/ stack' = b /\ module' = module
         \/ /\ c \notin registered /\ Grows(stack', b, UseFrame(c, TRUE))
            /\ Starts(module, module', c)
<1>1. CASE c \in registered
  BY <1>1 DEF objc_getClass
<1>2. CASE c \notin registered
  <2>1. PICK e \in BOOLEAN : e = TRUE
    OBVIOUS
  <2>2. Load(c, e, b)
    BY <1>2, <2>1 DEF objc_getClass
  <2>3. \/ stack' = b /\ module' = module
        \/ Grows(stack', b, UseFrame(c, e)) /\ Starts(module, module', c)
    BY <2>2, LoadShape
  <2> QED
    BY <1>2, <2>1, <2>3
<1> QED
  BY <1>1, <1>2

\* What holds of a stack b whose top is not a call of a punctual class, or
\* is the new stack, also holds when a module is loaded on it.
LEMMA LoadNamed ==
  ASSUME TypeOK, NEW b \in Seq(Frames), NEW t, NEW c \in Classes, NEW inEval \in BOOLEAN,
         NEW extra \in SUBSET {c}, extra = {} \/ ~inEval,
         NEW r, NEW w, NEW k,
         Grows(t, b, UseFrame(c, inEval)), Starts(module, k, c),
         Ordered(b, module, extra), b # <<>> => c \in Needed(b[Len(b)].name),
         IsaNeeded(r), AllFindNeeded(b, w.name),
         \A i \in 1 .. Len(b) : Calls(b[i]) => ~Punctual(b[i].name),
         AsNamed(b, module, r, registered, superOf)
  PROVE  NamedIn(t, k, r, registered, superOf, w)
<1>1. Ordered(t, k, {})
  <2>1. PICK f : f = UseFrame(c, inEval)
    OBVIOUS
  <2>2. Grows(t, b, f)
    BY <2>1
  <2> QED
    BY <2>1, <2>2, GrowOrdered
<1>2. /\ Len(b) \in Nat /\ Len(t) = Len(b) + 1 /\ ~Calls(t[Len(b) + 1])
      /\ \A i \in 1 .. Len(b) : t[i] = b[i]
  BY UseFrames DEF Grows
<1>3. \A i \in 1 .. Len(t) : (i \in 1 .. Len(b) /\ t[i] = b[i]) \/ ~Calls(t[i])
  BY <1>2
<1>4. AllFindNeeded(t, w.name)
  BY <1>3, FindNext DEF FindsNeeded
<1>5. Straight(t, registered, w)
  BY <1>3 DEF Straight
<1>6. AsNamed(t, k, r, registered, superOf)
  <2>1. ASSUME NEW d \in Classes, Punctual(d), OnTop(b, d) PROVE FALSE
    <3>1. Len(b) \in 1 .. Len(b)
      BY <1>2, <2>1 DEF OnTop
    <3> QED
      BY <2>1, <3>1 DEF OnTop
  <2>2. \A d \in Classes : k[d] = "loaded" => module[d] = "loaded"
    BY DEF Starts
  <2> QED
    BY <2>1, <2>2, AsNamedNext
<1> QED
  BY <1>1, <1>4, <1>5, <1>6 DEF NamedIn

\* What modules use are classes.
LEMMA UsesClasses ==
  ASSUME TypeOK
  PROVE  \A i \in 1 .. Len(stack) : /\ stack[i].name \in Classes
                                    /\ text[stack[i].name].uses \subseteq Classes
<1>1. \A f \in Frames : f.name \in Classes
  BY DEF Frames
<1>2. \A i \in 1 .. Len(stack) : stack[i] \in Frames
  BY DEF TypeOK
<1> QED
  BY <1>1, <1>2, TextFacts

\* What the class() calls on the stack find when $_ is set to a class that
\* the innermost one needs.
LEMMA BelowFinds ==
  ASSUME Inv, NamedInv, stack # <<>>, NEW h, IsNeeded(h, Top.name)
  PROVE  AllFindNeeded(stack, h)
<1> DEFINE n == Len(stack)
<1>1. n \in 1 .. n /\ stack[n] = Top
  BY TopIs
<1>2. ASSUME NEW i \in 1 .. n PROVE IsNeeded(h, stack[i].name)
  <2>1. n \in i .. n
    BY <1>1
  <2>2. stack[n].name \in Needed(stack[i].name)
    BY <2>1, Facts DEF Ordered, Chained
  <2>3. stack[i].name \in Classes /\ stack[n].name \in Classes
    BY <1>1, Facts, UsesClasses
  <2> QED
    BY <1>1, <2>2, <2>3, Facts, NeededNext
<1> QED
  BY <1>2, Facts DEF AllFindNeeded, FindsNeeded

\* The innermost class() call goes on as f.
LEMMA TurnNamed ==
  ASSUME Inv, NamedInv, Running("class"), NEW t, NEW f, Turns(t, stack, f),
         Calls(f), f.name = Top.name, NEW reg, NEW w,
         AllFindNeeded(stack, w.name), FindsNeeded(f, w.name),
         Punctual(f.name) => FindsParent(t, Len(stack), reg, w)
  PROVE  /\ Ordered(t, module, {}) /\ AllFindNeeded(t, w.name) /\ Straight(t, reg, w)
         /\ \A c : OnTop(stack, c) => OnTop(t, c)
<1> DEFINE n == Len(stack)
<1>1. /\ n \in Nat \ {0} /\ Len(t) = n /\ t[n] = f /\ \A i \in 1 .. n - 1 : t[i] = stack[i]
  BY DEF Turns
<1>2. stack # <<>> /\ stack[n] = Top /\ ~Uses(f) /\ ~Uses(stack[n]) /\ Calls(stack[n])
  BY TopIs DEF Running, Idle, Uses, Calls
<1> HIDE DEF n
<1>3. Ordered(t, module, {})
  BY <1>2, Facts, TurnOrdered DEF n
<1>4. AllFindNeeded(t, w.name)
  BY <1>1, FindNext DEF n
<1>5. Straight(t, reg, w)
  <2>1. \A i \in 1 .. n : i < n => t[i] = stack[i]
    BY <1>1
  <2>2. \A i \in 1 .. n : i >= n /\ Calls(t[i]) /\ Punctual(t[i].name) => FindsParent(t, i, reg, w)
    BY <1>1 DEF n
  <2> QED
    BY <1>1, <2>1, <2>2, Facts, StraightNext DEF n
<1>6. \A c : OnTop(stack, c) => OnTop(t, c)
  BY <1>1, <1>2 DEF OnTop, n
<1> QED
  BY <1>3, <1>4, <1>5, <1>6

\* What a new class() call finds in @ISA is needed.
LEMMA NewCallFinds ==
  ASSUME TypeOK, NEW c \in Classes, NEW f, f.what = "class", f.name = c, f.asked = NoName,
         f.super = IF text[c].explicit THEN text[c].parent ELSE NSObject,
         f.pc # "asked", \A d \in Range(f.queue) : IsNeeded(d, c), NEW n
  PROVE  FindsNeeded(f, n)
<1>1. IsNeeded(f.super, c)
  BY NeededFacts, NamesAssumption DEF IsNeeded
<1>2. IsNeeded(f.asked, c)
  BY NamesAssumption DEF IsNeeded
<1> QED
  BY <1>1, <1>2 DEF FindsNeeded

LEMMA AsksNamed ==
  ASSUME Inv, NamedInv, NEW c \in Classes, Asks(c)
  PROVE  NamedInv'
<1>1. /\ Idle /\ stack = <<>> /\ objc_getClass(c, <<>>)
      /\ text' = text /\ it' = it /\ isa' = isa /\ registered' = registered /\ superOf' = superOf
  BY DEF Asks, Idle, classes
<1>2. PICK b : b = stack
  OBVIOUS
<1>b. b = <<>> /\ b \in Seq(Frames) /\ Len(b) = 0
  BY <1>1, <1>2
<1>3. \/ stack' = b /\ module' = module
      \/ Grows(stack', b, UseFrame(c, TRUE)) /\ Starts(module, module', c)
  BY <1>1, <1>b, Facts, GetShape
<1>4. CASE stack' = b /\ module' = module
  BY <1>1, <1>2, <1>4, NamedNext DEF NamedInv
<1>5. CASE Grows(stack', b, UseFrame(c, TRUE)) /\ Starts(module, module', c)
  <2>1. PICK e \in BOOLEAN, extra \in SUBSET {c} : e = TRUE /\ extra = {}
    OBVIOUS
  <2>2. /\ Grows(stack', b, UseFrame(c, e)) /\ Ordered(b, module, extra)
        /\ AllFindNeeded(b, it.name) /\ AsNamed(b, module, isa, registered, superOf)
        /\ \A i \in 1 .. Len(b) : Calls(b[i]) => ~Punctual(b[i].name)
    <3>1. Ordered(b, module, {}) /\ AsNamed(b, module, isa, registered, superOf)
      BY <1>2, Facts
    <3>2. AllFindNeeded(b, it.name)
      BY <1>b DEF AllFindNeeded
    <3>3. \A i \in 1 .. Len(b) : Calls(b[i]) => ~Punctual(b[i].name)
      BY <1>b
    <3> QED
      BY <1>5, <2>1, <3>1, <3>2, <3>3
  <2>3. NamedIn(stack', module', isa, registered, superOf, it)
    BY <1>b, <1>5, <2>1, <2>2, Facts, LoadNamed
  <2> QED
    BY <1>1, <2>3, NamedNext
<1> QED
  BY <1>3, <1>4, <1>5

LEMMA ClassAgainNamed ==
  ASSUME Inv, NamedInv, NEW c \in Classes, ClassAgain(c)
  PROVE  NamedInv'
<1>1. /\ Idle /\ stack = <<>> /\ stack' = <<ClassFrame(c)>> /\ module[c] = "loaded"
      /\ module' = module
      /\ text' = text /\ it' = it /\ isa' = isa /\ registered' = registered /\ superOf' = superOf
  BY DEF ClassAgain, Idle, classes
<1> DEFINE f == ClassFrame(c)
<1>2. /\ f.what = "class" /\ f.name = c /\ f.asked = NoName /\ f.checked = {}
      /\ f.super = (IF text[c].explicit THEN text[c].parent ELSE NSObject)
      /\ f.pc = (IF text[c].explicit THEN "isa" ELSE "search")
      /\ f.queue = (IF text[c].explicit THEN <<>> ELSE isa[c])
      /\ Calls(f) /\ ~Uses(f)
  BY DEF ClassFrame, Calls, Uses
<1> HIDE DEF f
<1>3. PICK t : t = stack' /\ Len(t) = 1 /\ t[1] = f
  BY <1>1 DEF f
<1>4. Ordered(t, module, {})
  <2>1. \A u \in Classes : module[u] # "loading"
    BY <1>1, Facts DEF Ordered, OnStack
  <2>2. f.name \in Needed(f.name)
    BY <1>2, Facts, NeededFacts
  <2> QED
    BY <1>2, <1>3, <2>1, <2>2 DEF Ordered, Chained, Todo, UsesDone, OnStack
<1>5. AllFindNeeded(t, it.name)
  <2>1. \A d \in Range(f.queue) : IsNeeded(d, c)
    <3>1. text[c].explicit => Range(f.queue) = {}
      BY <1>2 DEF Range
    <3>2. ~text[c].explicit => f.queue = isa[c]
      BY <1>2
    <3> QED
      BY <3>1, <3>2, Facts DEF IsaNeeded
  <2>2. f.pc # "asked"
    BY <1>2
  <2>3. FindsNeeded(f, it.name)
    BY <1>2, <2>1, <2>2, Facts, NewCallFinds
  <2> QED
    BY <1>3, <2>3 DEF AllFindNeeded
<1>6. Straight(t, registered, it)
  <2> SUFFICES ASSUME Punctual(c) PROVE FindsParent(t, 1, registered, it)
    BY <1>2, <1>3 DEF Straight
  <2>1. text[c].parent \in registered /\ (~text[c].explicit => isa[c] = <<text[c].parent>>)
    BY <1>1, Facts DEF AsNamed
  <2> QED
    BY <1>2, <1>3, <2>1 DEF FindsParent
<1>7. AsNamed(t, module, isa, registered, superOf)
  BY <1>1, Facts, NoCall, AsNamedNext
<1>8. NamedIn(t, module, isa, registered, superOf, it)
  BY <1>4, <1>5, <1>6, <1>7, Facts DEF NamedIn
<1> QED
  BY <1>1, <1>3, <1>8, NamedNext

\* An error takes the stack away from its innermost eval on; the modules in
\* that part are broken, and they were loading.
LEMMA DiesShape ==
  ASSUME Inv, Running("use"), Dies
  PROVE  /\ Cut(stack', stack) /\ Len(stack') < Len(stack)
         /\ stack[Len(stack') + 1].inEval
         /\ \A v \in Classes : module[v] = "loaded" <=> module'[v] = "loaded"
         /\ \A v \in Classes : module[v] = "new" <=> module'[v] = "new"
         /\ \A v \in Classes : module'[v] = "loading" =>
              /\ module[v] = "loading"
              /\ \A j \in Len(stack') + 1 .. Len(stack) : Uses(stack[j]) => stack[j].name # v
<1> DEFINE caught == {i \in 1 .. Len(stack) : stack[i].what = "use" /\ stack[i].inEval}
           k == CHOOSE i \in caught : \A j \in caught : j <= i
           left == {stack[i].name : i \in {j \in k .. Len(stack) : stack[j].what = "use"}}
<1>1. /\ stack \in Seq(Frames) /\ Caught(stack, module) /\ Len(stack) \in Nat
      /\ stack # <<>> /\ Uses(stack[Len(stack)]) /\ module \in [Classes -> States]
  BY InvFacts DEF Running, Idle, Top, Last, Uses
<1>2. k \in caught
  <2>1. \E j \in caught : TRUE
    BY <1>1 DEF Caught, Uses
  <2>2. \A i \in caught : i \in Nat /\ i <= Len(stack)
    BY <1>1
  <2> HIDE DEF caught
  <2>3. \E i \in caught : \A j \in caught : j <= i
    BY <1>1, <2>1, <2>2, MaxExists
  <2> QED
    BY <2>3
<1>3. k \in 1 .. Len(stack) /\ stack[k].inEval
  <2> HIDE DEF k
  <2> QED
    BY <1>2
<1>4. /\ stack' = SubSeq(stack, 1, k - 1)
      /\ module' = [c \in Classes |-> IF c \in left THEN "broken" ELSE module[c]]
  BY DEF Dies
<1> HIDE DEF k
<1>5. Cut(stack', stack) /\ Len(stack') = k - 1 /\ k - 1 < Len(stack) /\ Len(stack') + 1 = k
  <2>1. k - 1 \in Nat /\ k - 1 <= Len(stack)
    BY <1>1, <1>3
  <2> QED
    BY <1>1, <1>3, <1>4, <2>1, Cuts DEF Cut
<1>6. \A c \in left : module[c] = "loading"
  <2> SUFFICES ASSUME NEW j \in k .. Len(stack), Uses(stack[j])
               PROVE  module[stack[j].name] = "loading"
    BY DEF Uses
  <2>1. j \in 1 .. Len(stack)
    BY <1>1, <1>3
  <2> QED
    BY <1>1, <2>1 DEF Caught
<1>7. /\ \A v \in Classes : module[v] = "loaded" <=> module'[v] = "loaded"
      /\ \A v \in Classes : module[v] = "new" <=> module'[v] = "new"
  BY <1>4, <1>6
<1>8. \A v : v \notin left => \A j \in k .. Len(stack) : Uses(stack[j]) => stack[j].name # v
  BY DEF Uses
<1>9. \A v \in Classes : module'[v] = "loading" => module[v] = "loading" /\ v \notin left
  <2> HIDE DEF left
  <2> QED
    BY <1>4
<1> QED
  BY <1>3, <1>5, <1>7, <1>8, <1>9

LEMMA DiesNamed ==
  ASSUME Inv, NamedInv, Running("use"), Dies
  PROVE  NamedInv'
<1>1. /\ text' = text /\ it' = it /\ isa' = isa /\ registered' = registered /\ superOf' = superOf
  BY DEF Dies, classes
<1>2. /\ Cut(stack', stack) /\ Len(stack') < Len(stack)
      /\ stack[Len(stack') + 1].inEval
      /\ \A v \in Classes : module[v] = "loaded" <=> module'[v] = "loaded"
      /\ \A v \in Classes : module'[v] = "loading" =>
           /\ module[v] = "loading"
           /\ \A j \in Len(stack') + 1 .. Len(stack) : Uses(stack[j]) => stack[j].name # v
  BY DiesShape
<1>3. Ordered(stack', module', {})
  <2>1. \A i \in 1 .. Len(stack) : text[stack[i].name].uses \subseteq Classes
    BY Facts, UsesClasses
  <2> QED
    BY <1>2, <2>1, Facts, CutOrdered, ZenonT(60)
<1>4. \A i \in 1 .. Len(stack') : i \in 1 .. Len(stack) /\ stack'[i] = stack[i]
  BY <1>2 DEF Cut
<1>5. AllFindNeeded(stack', it.name)
  BY <1>4, Facts, FindNext
<1>6. Straight(stack', registered, it)
  BY <1>4, NoCall DEF Straight
<1>7. AsNamed(stack', module', isa, registered, superOf)
  BY <1>2, Facts, NoCall, AsNamedNext
<1>8. NamedIn(stack', module', isa, registered, superOf, it)
  BY <1>3, <1>5, <1>6, <1>7, Facts DEF NamedIn
<1> QED
  BY <1>1, <1>8, NamedNext

LEMMA ModuleUsesNamed ==
  ASSUME Inv, NamedInv, ModuleUses
  PROVE  NamedInv'
<1>1. Running("use")
  BY DEF ModuleUses
<1>2. PICK c \in Top.todo :
        \/ module[c] = "broken" /\ Dies
        \/ /\ module[c] # "broken"
           /\ Load(c, FALSE, Append(Front(stack), [Top EXCEPT !.todo = @ \ {c}]))
           /\ UNCHANGED <<text, it, classes>>
  BY DEF ModuleUses
<1>3. CASE Dies
  BY <1>1, <1>3, DiesNamed
<1>4. CASE /\ module[c] # "broken"
           /\ Load(c, FALSE, Append(Front(stack), [Top EXCEPT !.todo = @ \ {c}]))
           /\ UNCHANGED <<text, it, classes>>
  <2> DEFINE f == [Top EXCEPT !.todo = @ \ {c}]
             b == Append(Front(stack), f)
             n == Len(stack)
  <2>1. /\ stack # <<>> /\ Top = stack[n] /\ n \in 1 .. n
        /\ Top \in [what : {"use"}, name : Classes, todo : SUBSET Classes, inEval : BOOLEAN]
    BY <1>1, TopFrame, TopIs
  <2>2. /\ f \in Frames /\ f.name = Top.name /\ f.inEval = Top.inEval /\ Uses(f) /\ ~Calls(f)
        /\ f.todo = Top.todo \ {c} /\ Uses(Top)
    BY <2>1 DEF Frames, Uses, Calls
  <2>3. text' = text /\ it' = it /\ isa' = isa /\ registered' = registered /\ superOf' = superOf
    BY <1>4 DEF classes
  <2>4. Load(c, FALSE, b) /\ c \in Classes
    BY <1>4, <2>1
  <2> HIDE DEF f
  <2>5. b \in Seq(Frames) /\ Turns(b, stack, f)
    BY <2>1, <2>2, Facts, ShapeTurns
  <2> HIDE DEF b
  <2>6. /\ Len(b) = n /\ b[n] = f /\ n # 0 /\ n \in Nat
        /\ \A i \in 1 .. n : i # n => b[i] = stack[i]
    BY <2>5, <2>1 DEF Turns
  <2> HIDE DEF n
  <2>7. Ordered(b, module, {c})
    <3>1. Top.todo \ f.todo \subseteq {c} /\ f.todo \subseteq Top.todo
      BY <2>2
    <3> QED
      BY <2>1, <2>2, <2>5, <3>1, Facts, TurnOrdered DEF n
  <2>8. \A i \in 1 .. n : (i \in 1 .. Len(stack) /\ b[i] = stack[i]) \/ ~Calls(b[i])
    BY <2>2, <2>6 DEF n
  <2>9. AllFindNeeded(b, it.name)
    BY <2>6, <2>8, Facts, FindNext DEF FindsNeeded
  <2>10. \A i \in 1 .. Len(b) : Calls(b[i]) => ~Punctual(b[i].name)
    BY <1>1, <2>6, <2>8, NoCall
  <2>11. AsNamed(b, module, isa, registered, superOf)
    BY <1>1, Facts, NoCall, AsNamedNext
  <2>12. PICK e \in BOOLEAN : e = FALSE
    OBVIOUS
  <2>13. \/ stack' = b /\ module' = module /\ module[c] # "new"
         \/ Grows(stack', b, UseFrame(c, e)) /\ Starts(module, module', c)
    <3>1. Load(c, e, b)
      BY <2>4, <2>12
    <3> QED
      BY <2>4, <2>5, <3>1, Facts, LoadShape
  <2>14. CASE stack' = b /\ module' = module /\ module[c] # "new"
    <3>1. module[c] \in {"loading", "loaded"}
      BY <1>4, <2>4, <2>14, Facts DEF States
    <3>2. Ordered(b, module, {})
      BY <2>4, <2>5, <2>7, <3>1, ExtraDone
    <3>3. Straight(b, registered, it)
      BY <2>10 DEF Straight
    <3>4. NamedIn(b, module, isa, registered, superOf, it)
      BY <2>9, <2>11, <3>2, <3>3, Facts DEF NamedIn
    <3> QED
      BY <2>3, <2>14, <3>4, NamedNext
  <2>15. CASE Grows(stack', b, UseFrame(c, e)) /\ Starts(module, module', c)
    <3>1. PICK extra \in SUBSET {c} : extra = {c}
      OBVIOUS
    <3>2. Ordered(b, module, extra) /\ ~e
      BY <2>7, <2>12, <3>1
    <3>3. c \in Needed(b[Len(b)].name)
      <4>1. c \in text[Top.name].uses
        BY <2>1, <2>2, Facts DEF Ordered, Todo, n
      <4>2. c \in Needed(Top.name)
        BY <2>1, <4>1, Facts, NeededFacts
      <4> QED
        BY <2>2, <2>6, <4>2
    <3>4. NamedIn(stack', module', isa, registered, superOf, it)
      BY <2>4, <2>5, <2>9, <2>10, <2>11, <2>15, <3>2, <3>3, Facts, LoadNamed
    <3> QED
      BY <2>3, <3>4, NamedNext
  <2> QED
    BY <2>13, <2>14, <2>15
<1> QED
  BY <1>2, <1>3, <1>4

LEMMA ModuleDiesNamed ==
  ASSUME Inv, NamedInv, ModuleDies
  PROVE  NamedInv'
BY DiesNamed DEF ModuleDies

\* The step on which it all depends: a punctual class's parent is loaded when
\* class() is called, since its module was used and is not below on the
\* stack; and then it is registered, since no call of its own is left.
LEMMA ParentIsThere ==
  ASSUME Inv, NamedInv, Running("use"), Top.todo = {}, Punctual(Top.name)
  PROVE  text[Top.name].parent \in registered
<1> DEFINE c == Top.name
           p == text[c].parent
           n == Len(stack)
<1>1. /\ stack # <<>> /\ stack[n] = Top /\ n \in 1 .. n /\ c \in Classes /\ Uses(Top)
  BY TopFrame, TopIs DEF Uses
<1>2. /\ p = NSObject \/ (p \in Classes /\ p \in text[c].uses /\ c \notin Needed(p))
      /\ p \in Classes => Punctual(p)
  BY <1>1, Facts, PunctualFacts
<1>3. CASE p = NSObject
  BY <1>3, Facts DEF TypeOK
<1>4. CASE p \in Classes /\ p \in text[c].uses /\ c \notin Needed(p)
  <2>1. \/ module[p] = "loaded"
        \/ \E j \in 1 .. n : Uses(stack[j]) /\ stack[j].name = p
    BY <1>1, <1>4, Facts DEF Ordered, UsesDone
  <2>2. ASSUME NEW j \in 1 .. n, stack[j].name = p PROVE FALSE
    <3>1. n \in j .. n
      BY <1>1
    <3>2. stack[n].name \in Needed(stack[j].name)
      BY <3>1, Facts DEF Ordered, Chained
    <3> QED
      BY <1>1, <1>4, <2>2, <3>2
  <2>3. module[p] = "loaded"
    BY <2>1, <2>2
  <2> QED
    BY <1>2, <1>4, <2>3, NoCall
<1> QED
  BY <1>2, <1>3, <1>4

LEMMA ModuleCallsClassNamed ==
  ASSUME Inv, NamedInv, ModuleCallsClass
  PROVE  NamedInv'
<1> DEFINE c == Top.name
           q == IF text[c].explicit THEN ClassFrame(c).queue ELSE isa'[c]
           f == [ClassFrame(c) EXCEPT !.queue = q]
           n == Len(stack)
<1>1. Running("use") /\ Top.todo = {}
  BY DEF ModuleCallsClass
<1>2. /\ stack # <<>> /\ stack[n] = Top /\ n \in 1 .. n /\ n \in Nat \ {0}
      /\ c \in Classes /\ Uses(Top) /\ module[c] = "loading"
  BY <1>1, TopFrame, TopIs DEF Uses
<1>3. /\ isa' = [isa EXCEPT ![c] = IF text[c].explicit THEN @ ELSE <<text[c].parent>>]
      /\ module' = [module EXCEPT ![c] = "loaded"]
      /\ stack' = Append(Front(stack), f)
      /\ text' = text /\ it' = it /\ registered' = registered /\ superOf' = superOf
  BY DEF ModuleCallsClass, Becomes
<1>4. /\ \A d \in Classes : d # c => isa'[d] = isa[d]
      /\ isa'[c] = IF text[c].explicit THEN isa[c] ELSE <<text[c].parent>>
      /\ isa'[c] \in Seq(Names)
  <2>1. <<text[c].parent>> \in Seq(Names)
    BY <1>2, Facts, TextFacts
  <2> QED
    BY <1>2, <1>3, <2>1, Facts DEF Isas
<1>5. /\ module'[c] = "loaded" /\ \A d \in Classes : d # c => module'[d] = module[d]
  BY <1>2, <1>3, Facts DEF States
<1>6. /\ f.what = "class" /\ f.name = c /\ f.asked = NoName /\ f.checked = {}
      /\ f.super = (IF text[c].explicit THEN text[c].parent ELSE NSObject)
      /\ f.pc = (IF text[c].explicit THEN "isa" ELSE "search")
      /\ f.queue = (IF text[c].explicit THEN <<>> ELSE <<text[c].parent>>)
      /\ Calls(f) /\ ~Uses(f)
  BY <1>4 DEF ClassFrame, Calls, Uses
<1>7. f \in Frames
  <2>1. ClassFrame(c) \in Frames /\ ClassFrame(c).what = "class"
    BY <1>2, Facts, ClassFrames DEF Calls
  <2>2. q \in Seq(Names)
    BY <1>4, <2>1 DEF Frames
  <2> HIDE DEF q
  <2> QED
    BY <2>1, <2>2 DEF Frames
<1> HIDE DEF f
<1>8. Turns(stack', stack, f)
  BY <1>2, <1>3, <1>7, Facts, ShapeTurns
<1>9. /\ Len(stack') = n /\ stack'[n] = f
      /\ \A i \in 1 .. n : i # n => stack'[i] = stack[i]
  BY <1>2, <1>8 DEF Turns
<1> HIDE DEF c
<1>10. Ordered(stack', module', {})
  <2>1. \A i \in 1 .. Len(stack) : text[stack[i].name].uses \subseteq Classes
    BY Facts, UsesClasses
  <2>2. stack[Len(stack)].name = c
    BY <1>2 DEF c
  <2>3. Finishes(module, module', c)
    BY <1>5 DEF Finishes
  <2> QED
    BY <1>2, <1>6, <1>8, <2>1, <2>2, <2>3, Facts, LoadedOrdered
<1>11. \A d \in Range(<<text[c].parent>>) : IsNeeded(d, c)
  BY <1>2, Facts, NeededFacts DEF Range, IsNeeded
<1>12. IsaNeeded(isa')
  BY <1>4, <1>11, Facts DEF IsaNeeded
<1>13. AllFindNeeded(stack', it.name)
  <2>1. \A d \in Range(f.queue) : IsNeeded(d, c)
    <3>1. text[c].explicit => Range(f.queue) = {}
      BY <1>6 DEF Range
    <3>2. ~text[c].explicit => f.queue = <<text[c].parent>>
      BY <1>6
    <3> QED
      BY <1>11, <3>1, <3>2
  <2>2. FindsNeeded(f, it.name)
    <3>1. f.pc # "asked"
      BY <1>6
    <3> QED
      BY <1>2, <1>6, <2>1, <3>1, Facts, NewCallFinds
  <2> QED
    BY <1>9, <2>2, Facts, FindNext
<1>14. Punctual(c) => text[c].parent \in registered
  BY <1>1, ParentIsThere DEF c
<1>15. Straight(stack', registered, it)
  <2> SUFFICES ASSUME NEW i \in 1 .. n, Calls(stack'[i]), Punctual(stack'[i].name)
               PROVE  FindsParent(stack', i, registered, it)
    BY <1>9 DEF Straight
  <2>1. i = n
    BY <1>1, <1>9, NoCall
  <2>2. Punctual(c) /\ f.name = c
    BY <1>6, <1>9, <2>1
  <2> QED
    BY <1>6, <1>9, <1>14, <2>1, <2>2 DEF FindsParent
<1>16. AsNamed(stack', module', isa', registered, superOf)
  <2> SUFFICES ASSUME NEW d \in Classes, Punctual(d)
               PROVE  /\ module'[d] = "loaded" =>
                           /\ text[d].parent \in registered
                           /\ ~text[d].explicit => isa'[d] = <<text[d].parent>>
                           /\ d \in registered \/ OnTop(stack', d)
                      /\ d \in registered => superOf[d] = text[d].parent
    BY DEF AsNamed
  <2>1. d \in registered => superOf[d] = text[d].parent
    BY Facts DEF AsNamed
  <2>2. CASE d = c
    <3>1. OnTop(stack', c)
      <4>1. stack' # <<>>
        BY <1>2, <1>9
      <4> QED
        BY <1>6, <1>9, <4>1 DEF OnTop
    <3> QED
      BY <1>4, <1>14, <2>1, <2>2, <3>1
  <2>3. CASE d # c
    BY <1>1, <1>4, <1>5, <2>1, <2>3, Facts, NoCall DEF AsNamed
  <2> QED
    BY <2>2, <2>3
<1>17. NamedIn(stack', module', isa', registered, superOf, it)
  BY <1>10, <1>12, <1>13, <1>15, <1>16 DEF NamedIn
<1> QED
  BY <1>3, <1>17, NamedNext

\* The innermost class() call, of a punctual class or not.
LEMMA TopCall ==
  ASSUME Inv, NamedInv, Running("class")
  PROVE  /\ stack # <<>> /\ stack[Len(stack)] = Top /\ Len(stack) \in Nat \ {0}
         /\ Top \in [what : {"class"}, name : Classes, checked : SUBSET (Names \cup {NoName}),
                     asked : Names \cup {NoName}, super : Names, pc : Pcs, queue : Seq(Names)]
         /\ Calls(Top) /\ module[Top.name] = "loaded"
         /\ FindsNeeded(Top, it.name)
         /\ Punctual(Top.name) =>
              LET p == text[Top.name].parent
              IN  /\ p \in registered /\ p \in Names
                  /\ Top.pc = "search" => Top.queue = <<p>> /\ Top.checked = {}
                  /\ Top.pc = "asked" => Top.asked = p /\ it = [name |-> p, by |-> Len(stack)]
                  /\ Top.pc \in {"isa", "register", "again"} => Top.super = p
                  /\ Top.pc = "again" => Top.name \in registered
         /\ \A i \in 1 .. Len(stack) - 1 : Calls(stack[i]) => ~Punctual(stack[i].name)
<1>1. /\ stack # <<>> /\ stack[Len(stack)] = Top /\ Len(stack) \in Nat \ {0}
      /\ Len(stack) \in 1 .. Len(stack)
      /\ Top \in [what : {"class"}, name : Classes, checked : SUBSET (Names \cup {NoName}),
                  asked : Names \cup {NoName}, super : Names, pc : Pcs, queue : Seq(Names)]
      /\ Calls(Top) /\ module[Top.name] = "loaded"
  BY TopFrame, TopIs DEF Calls
<1>2. FindsNeeded(Top, it.name)
  BY <1>1, Facts DEF AllFindNeeded
<1>3. Punctual(Top.name) => FindsParent(stack, Len(stack), registered, it)
  BY <1>1, Facts DEF Straight
<1>4. text[Top.name].parent \in Names
  BY <1>1, Facts, TextFacts
<1>5. ASSUME NEW i \in 1 .. Len(stack) - 1, Calls(stack[i]), Punctual(stack[i].name) PROVE FALSE
  <2>1. i \in 1 .. Len(stack) /\ i # Len(stack)
    BY <1>1
  <2> QED
    BY <1>5, <2>1, Facts DEF Straight, FindsParent
<1> QED
  BY <1>1, <1>2, <1>3, <1>4, <1>5 DEF FindsParent

LEMMA ClassSearchesNamed ==
  ASSUME Inv, NamedInv, ClassSearches
  PROVE  NamedInv'
<1> DEFINE h == IF Top.queue = <<>> THEN NoName ELSE Head(Top.queue)
           a == [Top EXCEPT !.pc = "asked", !.asked = h, !.queue = Tail(@)]
           q == [Top EXCEPT !.queue = Tail(@)]
           g == [Top EXCEPT !.pc = "isa"]
           n == Len(stack)
           p == text[Top.name].parent
<1>1. Running("class") /\ Top.pc = "search"
  BY DEF ClassSearches, At
<1>2. /\ stack # <<>> /\ stack[n] = Top /\ n \in Nat \ {0} /\ n \in 1 .. n
      /\ Top \in [what : {"class"}, name : Classes, checked : SUBSET (Names \cup {NoName}),
                  asked : Names \cup {NoName}, super : Names, pc : Pcs, queue : Seq(Names)]
      /\ Calls(Top) /\ FindsNeeded(Top, it.name) /\ Top.name \in Classes
      /\ Punctual(Top.name) => p \in registered /\ Top.queue = <<p>> /\ Top.checked = {} /\ p \in Names
      /\ \A i \in 1 .. n - 1 : Calls(stack[i]) => ~Punctual(stack[i].name)
  BY <1>1, TopCall
<1>3. /\ it' = [name |-> h, by |-> n]
      /\ \/ h = NoName /\ stack' = Append(Front(stack), g) /\ module' = module
         \/ /\ h \in Top.checked \ {NoName}
            /\ stack' = Append(Front(stack), q) /\ module' = module
         \/ /\ h \notin Top.checked \cup {NoName}
            /\ objc_getClass(h, Append(Front(stack), a))
      /\ text' = text /\ isa' = isa /\ registered' = registered /\ superOf' = superOf
  BY DEF ClassSearches, GoesOn, Becomes, classes
<1>4. /\ h \in Names \cup {NoName} /\ IsNeeded(h, Top.name)
      /\ Punctual(Top.name) => h = p /\ h # NoName
      /\ h # NoName => Top.queue # <<>>
  <2>1. h \in Names \cup {NoName} /\ (h # NoName => Top.queue # <<>> /\ h = Head(Top.queue))
    BY <1>2
  <2>2. Punctual(Top.name) => h = p /\ h # NoName
    BY <1>2, Facts DEF Names
  <2>3. ASSUME h # NoName PROVE h \in Range(Top.queue)
    <3>1. 1 \in DOMAIN Top.queue /\ h = Top.queue[1]
      BY <1>2, <2>1, <2>3
    <3> QED
      BY <3>1 DEF Range
  <2>4. IsNeeded(h, Top.name)
    BY <1>2, <2>3, Facts DEF FindsNeeded, IsNeeded
  <2> QED
    BY <2>1, <2>2, <2>4
<1>5. AllFindNeeded(stack, h)
  BY <1>2, <1>4, BelowFinds
<1> HIDE DEF h, n
<1>6. /\ g \in Frames /\ g.name = Top.name /\ Calls(g) /\ g.pc = "isa"
      /\ g.queue = Top.queue /\ g.asked = Top.asked /\ g.super = Top.super
  BY <1>2 DEF Frames, Pcs, Calls
<1>7. ASSUME h # NoName
      PROVE  /\ q \in Frames /\ q.name = Top.name /\ Calls(q) /\ q.pc = "search"
             /\ q.queue = Tail(Top.queue) /\ q.asked = Top.asked /\ q.super = Top.super
             /\ a \in Frames /\ a.name = Top.name /\ Calls(a) /\ a.pc = "asked"
             /\ a.queue = Tail(Top.queue) /\ a.asked = h /\ a.super = Top.super
             /\ \A d \in Range(Tail(Top.queue)) : d \in Range(Top.queue)
  <2> DEFINE o == Top.queue
  <2>1. /\ o \in Seq(Names) /\ o # <<>>
    BY <1>2, <1>4, <1>7
  <2> HIDE DEF o
  <2>2. /\ Tail(o) \in Seq(Names)
        /\ \A d \in Range(Tail(o)) : d \in Range(o)
    <3>1. /\ Tail(o) \in Seq(Names) /\ DOMAIN o = 1 .. Len(o) /\ Len(o) \in Nat
          /\ DOMAIN Tail(o) = 1 .. Len(o) - 1
          /\ \A i \in 1 .. Len(o) - 1 : Tail(o)[i] = o[i + 1]
      BY <2>1
    <3>2. \A i \in 1 .. Len(o) - 1 : i + 1 \in 1 .. Len(o)
      BY <3>1
    <3> QED
      BY <3>1, <3>2 DEF Range
  <2>3. /\ Tail(Top.queue) \in Seq(Names)
        /\ \A d \in Range(Tail(Top.queue)) : d \in Range(Top.queue)
    BY <2>2 DEF o
  <2> QED
    BY <1>1, <1>2, <1>4, <1>7, <2>3 DEF Frames, Pcs, Calls
<1> HIDE DEF g, q, a
<1>8. PICK w : w = it' /\ w.name = h /\ w.by = n /\ w = [name |-> h, by |-> n]
  BY <1>3
<1>9. ASSUME NEW f \in Frames, f.name = Top.name, Calls(f), FindsNeeded(f, h),
             Punctual(f.name) => f.pc = "asked" /\ f.asked = p
      PROVE  LET t == Append(Front(stack), f)
             IN  /\ t \in Seq(Frames) /\ Turns(t, stack, f)
                 /\ Ordered(t, module, {}) /\ AllFindNeeded(t, w.name)
                 /\ Straight(t, registered, w)
                 /\ AsNamed(t, module, isa, registered, superOf)
  <2>1. PICK t : t = Append(Front(stack), f)
    OBVIOUS
  <2>2. t \in Seq(Frames) /\ Turns(t, stack, f)
    BY <1>2, <2>1, Facts, ShapeTurns
  <2>3. Punctual(f.name) => FindsParent(t, Len(stack), registered, w)
    <3>1. Len(t) = n /\ t[n] = f
      BY <2>2 DEF Turns, n
    <3> QED
      BY <1>2, <1>4, <1>8, <1>9, <3>1 DEF FindsParent, n
  <2>4. /\ Ordered(t, module, {}) /\ AllFindNeeded(t, w.name) /\ Straight(t, registered, w)
        /\ \A c : OnTop(stack, c) => OnTop(t, c)
    BY <1>1, <1>5, <1>8, <1>9, <2>2, <2>3, TurnNamed
  <2>5. AsNamed(t, module, isa, registered, superOf)
    BY <2>4, Facts, AsNamedNext
  <2> QED
    BY <2>1, <2>2, <2>4, <2>5
<1>10. CASE h = NoName /\ stack' = Append(Front(stack), g) /\ module' = module
  <2>1. FindsNeeded(g, h)
    BY <1>2, <1>6 DEF FindsNeeded
  <2>2. NamedIn(stack', module', isa, registered, superOf, w)
    BY <1>4, <1>6, <1>9, <1>10, <2>1, Facts DEF NamedIn
  <2> QED
    BY <1>3, <1>8, <2>2, NamedNext
<1>11. CASE /\ h \in Top.checked \ {NoName}
            /\ stack' = Append(Front(stack), q) /\ module' = module
  <2>1. FindsNeeded(q, h) /\ ~Punctual(Top.name)
    BY <1>2, <1>7, <1>11 DEF FindsNeeded
  <2>2. NamedIn(stack', module', isa, registered, superOf, w)
    BY <1>7, <1>9, <1>11, <2>1, Facts DEF NamedIn
  <2> QED
    BY <1>3, <1>8, <2>2, NamedNext
<1>12. CASE /\ h \notin Top.checked \cup {NoName}
            /\ objc_getClass(h, Append(Front(stack), a))
  <2>1. FindsNeeded(a, h)
    BY <1>2, <1>4, <1>7, <1>12 DEF FindsNeeded
  <2>2. PICK b : b = Append(Front(stack), a)
    OBVIOUS
  <2>3. /\ b \in Seq(Frames) /\ Turns(b, stack, a)
        /\ Ordered(b, module, {}) /\ AllFindNeeded(b, w.name)
        /\ Straight(b, registered, w) /\ AsNamed(b, module, isa, registered, superOf)
    BY <1>4, <1>7, <1>9, <1>12, <2>1, <2>2
  <2>4. \/ stack' = b /\ module' = module
        \/ /\ h \notin registered /\ Grows(stack', b, UseFrame(h, TRUE))
           /\ Starts(module, module', h)
    BY <1>12, <2>2, <2>3, Facts, GetShape
  <2>5. CASE stack' = b /\ module' = module
    <3>1. NamedIn(stack', module', isa, registered, superOf, w)
      BY <2>3, <2>5, Facts DEF NamedIn
    <3> QED
      BY <1>3, <1>8, <3>1, NamedNext
  <2>6. CASE /\ h \notin registered /\ Grows(stack', b, UseFrame(h, TRUE))
             /\ Starts(module, module', h)
    <3>1. h \in Classes /\ ~Punctual(Top.name)
      BY <1>2, <1>4, <2>6 DEF Starts
    <3>2. PICK e \in BOOLEAN, extra \in SUBSET {h} : e = TRUE /\ extra = {}
      OBVIOUS
    <3>3. \A i \in 1 .. Len(b) : Calls(b[i]) => ~Punctual(b[i].name)
      <4>1. Len(b) = n /\ b[n] = a /\ \A i \in 1 .. n - 1 : b[i] = stack[i]
        BY <2>3 DEF Turns, n
      <4>2. a.name = Top.name
        BY <1>7, <1>12
      <4>3. \A i \in 1 .. n : i = n \/ i \in 1 .. n - 1
        BY <1>2
      <4> QED
        BY <1>2, <3>1, <4>1, <4>2, <4>3
    <3>4. h \in Needed(b[Len(b)].name)
      <4>1. b[Len(b)] = a /\ a.name = Top.name
        BY <1>7, <1>12, <2>3 DEF Turns
      <4> QED
        BY <1>4, <3>1, <4>1 DEF IsNeeded
    <3>5. Grows(stack', b, UseFrame(h, e)) /\ Ordered(b, module, extra)
      BY <2>3, <2>6, <3>2
    <3>6. NamedIn(stack', module', isa, registered, superOf, w)
      BY <2>3, <2>6, <3>1, <3>2, <3>3, <3>4, <3>5, Facts, LoadNamed
    <3> QED
      BY <1>3, <1>8, <3>6, NamedNext
  <2> QED
    BY <2>4, <2>5, <2>6
<1> QED
  BY <1>3, <1>10, <1>11, <1>12

LEMMA ClassAsksNamed ==
  ASSUME Inv, NamedInv, ClassAsks
  PROVE  NamedInv'
<1> DEFINE f == [Top EXCEPT !.pc = "isa", !.super = IF it.name = NoName THEN NSObject ELSE it.name]
           more == IF it.name \in Classes THEN isa[it.name] ELSE <<>>
           q == Top.queue \o more
           g == [Top EXCEPT !.pc = "search", !.checked = @ \cup {it.name}, !.queue = q]
           n == Len(stack)
           p == text[Top.name].parent
<1>1. Running("class") /\ Top.pc = "asked"
  BY DEF ClassAsks, At
<1>2. /\ stack # <<>> /\ stack[n] = Top /\ n \in Nat \ {0} /\ n \in 1 .. n
      /\ Top \in [what : {"class"}, name : Classes, checked : SUBSET (Names \cup {NoName}),
                  asked : Names \cup {NoName}, super : Names, pc : Pcs, queue : Seq(Names)]
      /\ Calls(Top) /\ FindsNeeded(Top, it.name) /\ Top.name \in Classes
      /\ Punctual(Top.name) => /\ p \in registered /\ p \in Names /\ Top.asked = p
                               /\ it = [name |-> p, by |-> n]
  BY <1>1, TopCall
<1>3. PICK name \in IF it.by = n THEN {Top.asked} ELSE {Top.asked, it.name, NoName} :
        stack' = Append(Front(stack), IF name \in registered THEN f ELSE g)
  BY DEF ClassAsks, Becomes
<1>4. /\ text' = text /\ it' = it /\ isa' = isa /\ registered' = registered /\ superOf' = superOf
      /\ module' = module
  BY DEF ClassAsks, classes
<1>5. it.name \in Names \cup {NoName} /\ NSObject \in Names /\ IsNeeded(it.name, Top.name)
  BY <1>1, <1>2, Facts DEF Names, FindsNeeded
<1>6. /\ q \in Seq(Names) /\ \A d \in Range(q) : IsNeeded(d, Top.name)
  <2> DEFINE o == Top.queue
  <2>1. o \in Seq(Names) /\ more \in Seq(Names)
    BY <1>2, Facts DEF Isas
  <2>2. \A d \in Range(o) : IsNeeded(d, Top.name)
    BY <1>2 DEF FindsNeeded
  <2>3. \A d \in Range(more) : IsNeeded(d, Top.name)
    <3>1. CASE it.name \in Classes
      <4>1. \A d \in Range(isa[it.name]) : IsNeeded(d, it.name)
        BY <3>1, Facts DEF IsaNeeded
      <4>2. it.name \in Needed(Top.name)
        BY <1>5, <3>1 DEF IsNeeded
      <4> QED
        BY <1>2, <3>1, <4>1, <4>2, Facts, NeededNext
    <3>2. CASE it.name \notin Classes
      BY <3>2 DEF Range
    <3> QED
      BY <3>1, <3>2
  <2> HIDE DEF o, more
  <2>4. o \o more \in Seq(Names)
    BY <2>1
  <2>5. \A d \in Range(o \o more) : d \in Range(o) \/ d \in Range(more)
    <3>1. /\ DOMAIN (o \o more) = 1 .. Len(o) + Len(more) /\ Len(o) \in Nat /\ Len(more) \in Nat
          /\ DOMAIN o = 1 .. Len(o) /\ DOMAIN more = 1 .. Len(more)
          /\ \A i \in 1 .. Len(o) + Len(more) :
               (o \o more)[i] = IF i <= Len(o) THEN o[i] ELSE more[i - Len(o)]
      BY <2>1
    <3>2. \A i \in 1 .. Len(o) + Len(more) : IF i <= Len(o) THEN i \in 1 .. Len(o)
                                                       ELSE i - Len(o) \in 1 .. Len(more)
      BY <3>1
    <3> QED
      BY <3>1, <3>2 DEF Range
  <2> QED
    BY <2>2, <2>3, <2>4, <2>5 DEF o
<1> HIDE DEF q
<1>7. /\ f \in Frames /\ f.name = Top.name /\ Calls(f) /\ f.pc = "isa"
      /\ f.queue = Top.queue /\ f.asked = Top.asked
      /\ f.super = IF it.name = NoName THEN NSObject ELSE it.name
  BY <1>2, <1>5 DEF Frames, Pcs, Calls
<1>8. /\ g \in Frames /\ g.name = Top.name /\ Calls(g) /\ g.pc = "search"
      /\ g.queue = q /\ g.asked = Top.asked /\ g.super = Top.super
  BY <1>2, <1>5, <1>6 DEF Frames, Pcs, Calls
<1> HIDE DEF f, g
<1>9. FindsNeeded(f, it.name)
  BY <1>2, <1>5, <1>7, Facts DEF FindsNeeded, IsNeeded
<1>10. FindsNeeded(g, it.name)
  BY <1>2, <1>6, <1>8 DEF FindsNeeded
<1>11. PICK c : c = IF name \in registered THEN f ELSE g
  OBVIOUS
<1>12. /\ c \in Frames /\ c.name = Top.name /\ Calls(c) /\ FindsNeeded(c, it.name)
       /\ Punctual(c.name) => c.pc = "isa" /\ c.super = p
  <2>1. ASSUME Punctual(Top.name) PROVE name \in registered /\ it.name = p /\ it.name # NoName
    <3>1. Top.asked = p /\ it.by = n /\ it.name = p /\ p \in registered /\ p \in Names
      BY <1>2, <2>1
    <3>2. name = p
      BY <1>3, <3>1
    <3>3. p # NoName
      BY <3>1, Facts DEF Names
    <3> QED
      BY <3>1, <3>2, <3>3
  <2> QED
    BY <1>7, <1>8, <1>9, <1>10, <1>11, <2>1
<1>13. PICK t : t = stack' /\ t \in Seq(Frames) /\ Turns(t, stack, c)
  BY <1>2, <1>3, <1>11, <1>12, Facts, ShapeTurns
<1>14. Punctual(c.name) => FindsParent(t, Len(stack), registered, it)
  BY <1>2, <1>12, <1>13 DEF FindsParent, Turns
<1>15. /\ Ordered(t, module, {}) /\ AllFindNeeded(t, it.name) /\ Straight(t, registered, it)
       /\ \A d : OnTop(stack, d) => OnTop(t, d)
  BY <1>1, <1>12, <1>13, <1>14, Facts, TurnNamed
<1>16. AsNamed(t, module, isa, registered, superOf)
  BY <1>15, Facts, AsNamedNext
<1>17. NamedIn(t, module, isa, registered, superOf, it)
  BY <1>15, <1>16, Facts DEF NamedIn
<1> QED
  BY <1>4, <1>13, <1>17, NamedNext

LEMMA ClassSetsIsaNamed ==
  ASSUME Inv, NamedInv, ClassSetsIsa
  PROVE  NamedInv'
<1> DEFINE c == Top.name
           s == Top.super
           f == [Top EXCEPT !.pc = "register"]
           p == text[Top.name].parent
<1>1. Running("class") /\ Top.pc = "isa"
  BY DEF ClassSetsIsa, At
<1>2. /\ stack # <<>> /\ c \in Classes /\ s \in Names /\ module[c] = "loaded"
      /\ Top \in [what : {"class"}, name : Classes, checked : SUBSET (Names \cup {NoName}),
                  asked : Names \cup {NoName}, super : Names, pc : Pcs, queue : Seq(Names)]
      /\ FindsNeeded(Top, it.name) /\ Calls(Top)
      /\ Punctual(c) => p \in registered /\ s = p
  BY <1>1, TopCall
<1>3. /\ isa' = [isa EXCEPT ![c] = IF Sees(isa, c, s) THEN @ ELSE Append(@, s)]
      /\ objc_getClass(c, Append(Front(stack), f))
      /\ text' = text /\ it' = it /\ registered' = registered /\ superOf' = superOf
  BY DEF ClassSetsIsa, GoesOn, Sees
<1>4. /\ f \in Frames /\ f.name = c /\ Calls(f) /\ f.pc = "register"
      /\ f.queue = Top.queue /\ f.asked = Top.asked /\ f.super = s
  BY <1>2 DEF Frames, Pcs, Calls
<1> HIDE DEF f
<1>5. PICK t : t = Append(Front(stack), f) /\ t \in Seq(Frames) /\ Turns(t, stack, f)
  BY <1>2, <1>4, Facts, ShapeTurns
<1>6. stack' = t /\ module' = module
  <2>1. CASE c \in registered
    BY <1>3, <1>5, <2>1 DEF objc_getClass
  <2>2. CASE c \notin registered
    BY <1>2, <1>3, <1>5, <2>2 DEF objc_getClass, Load
  <2> QED
    BY <2>1, <2>2
<1>7. FindsNeeded(f, it.name)
  BY <1>2, <1>4 DEF FindsNeeded
<1>8. Punctual(f.name) => FindsParent(t, Len(stack), registered, it)
  BY <1>2, <1>4, <1>5 DEF FindsParent, Turns
<1>9. /\ Ordered(t, module, {}) /\ AllFindNeeded(t, it.name) /\ Straight(t, registered, it)
      /\ \A d : OnTop(stack, d) => OnTop(t, d)
  BY <1>1, <1>4, <1>5, <1>7, <1>8, Facts, TurnNamed
<1> HIDE DEF c, s
<1>10. /\ \A d \in Classes : d # c => isa'[d] = isa[d]
       /\ isa'[c] = IF Sees(isa, c, s) THEN isa[c] ELSE Append(isa[c], s)
       /\ isa[c] \in Seq(Names)
  BY <1>2, <1>3, Facts DEF Isas
<1>11. IsaNeeded(isa')
  <2>1. IsNeeded(s, c)
    BY <1>2 DEF FindsNeeded, c, s
  <2>2. \A d \in Range(isa'[c]) : d \in Range(isa[c]) \/ d = s
    <3> DEFINE o == isa[c]
    <3>1. o \in Seq(Names)
      BY <1>10
    <3> HIDE DEF o
    <3>2. \A d \in Range(Append(o, s)) : d \in Range(o) \/ d = s
      <4>1. /\ DOMAIN Append(o, s) = 1 .. Len(o) + 1 /\ DOMAIN o = 1 .. Len(o) /\ Len(o) \in Nat
            /\ \A i \in 1 .. Len(o) : Append(o, s)[i] = o[i]
            /\ Append(o, s)[Len(o) + 1] = s
        BY <1>2, <3>1
      <4>2. \A i \in 1 .. Len(o) + 1 : i \in 1 .. Len(o) \/ i = Len(o) + 1
        BY <4>1
      <4> QED
        BY <4>1, <4>2 DEF Range
    <3>3. isa'[c] = o \/ isa'[c] = Append(o, s)
      BY <1>10 DEF o
    <3> QED
      BY <3>2, <3>3 DEF o
  <2> QED
    BY <1>2, <1>10, <2>1, <2>2, Facts DEF IsaNeeded
<1>12. \A d \in Classes : Punctual(d) /\ ~text[d].explicit => isa'[d] = isa[d]
  <2>1. ASSUME Punctual(c), ~text[c].explicit PROVE isa'[c] = isa[c]
    <3>1. isa[c] = <<p>> /\ s = p
      BY <1>2, <2>1, Facts DEF AsNamed, c
    <3>2. p \in Range(isa[c])
      BY <3>1 DEF Range
    <3> QED
      BY <1>10, <3>1, <3>2 DEF Sees
  <2> QED
    BY <1>10, <2>1
<1>13. AsNamed(t, module, isa', registered, superOf)
  BY <1>9, <1>12, Facts, AsNamedNext
<1>14. NamedIn(t, module, isa', registered, superOf, it)
  BY <1>9, <1>11, <1>13 DEF NamedIn
<1> QED
  BY <1>3, <1>6, <1>14, NamedNext

LEMMA CBRegisterNamed ==
  ASSUME Inv, NamedInv, CBRegister
  PROVE  NamedInv'
<1> DEFINE c == Top.name
           s == Top.super
           f == [Top EXCEPT !.pc = "again"]
           p == text[Top.name].parent
<1>1. Running("class") /\ Top.pc = "register"
  BY DEF CBRegister, At
<1>2. /\ stack # <<>> /\ c \in Classes /\ s \in Names /\ module[c] = "loaded"
      /\ Top \in [what : {"class"}, name : Classes, checked : SUBSET (Names \cup {NoName}),
                  asked : Names \cup {NoName}, super : Names, pc : Pcs, queue : Seq(Names)]
      /\ FindsNeeded(Top, it.name) /\ Calls(Top)
      /\ Punctual(c) => p \in registered /\ s = p
  BY <1>1, TopCall
<1>3. /\ \/ /\ c \notin registered /\ s \in registered
            /\ registered' = registered \cup {c}
            /\ superOf' = [d \in registered' \ {NSObject} |->
                             IF d \in registered THEN superOf[d] ELSE s]
            /\ stack' = Append(Front(stack), f) /\ module' = module
         \/ /\ ~(c \notin registered /\ s \in registered)
            /\ objc_getClass(c, Append(Front(stack), f))
            /\ registered' = registered /\ superOf' = superOf
      /\ text' = text /\ it' = it /\ isa' = isa
  BY DEF CBRegister, GoesOn
<1>4. /\ f \in Frames /\ f.name = c /\ Calls(f) /\ f.pc = "again"
      /\ f.queue = Top.queue /\ f.asked = Top.asked /\ f.super = s
  BY <1>2 DEF Frames, Pcs, Calls
<1> HIDE DEF f
<1>5. PICK t : t = Append(Front(stack), f) /\ t \in Seq(Frames) /\ Turns(t, stack, f)
  BY <1>2, <1>4, Facts, ShapeTurns
<1>6. stack' = t /\ module' = module
  <2>1. ASSUME objc_getClass(c, t) PROVE stack' = t /\ module' = module
    BY <1>2, <2>1 DEF objc_getClass, Load
  <2> QED
    BY <1>3, <1>5, <2>1
<1>7. FindsNeeded(f, it.name)
  BY <1>2, <1>4 DEF FindsNeeded
<1>8. /\ registered \subseteq registered' /\ \A d \in registered' : d \in registered \/ d = c
      /\ Punctual(c) => c \in registered'
  BY <1>2, <1>3
<1>9. Punctual(f.name) => FindsParent(t, Len(stack), registered', it)
  BY <1>2, <1>4, <1>5, <1>8 DEF FindsParent, Turns
<1>10. /\ Ordered(t, module, {}) /\ AllFindNeeded(t, it.name) /\ Straight(t, registered', it)
       /\ \A d : OnTop(stack, d) => OnTop(t, d)
  BY <1>1, <1>4, <1>5, <1>7, <1>9, Facts, TurnNamed
<1>11. AsNamed(t, module, isa, registered', superOf')
  <2> SUFFICES ASSUME NEW d \in Classes, Punctual(d)
               PROVE  /\ module[d] = "loaded" =>
                           /\ text[d].parent \in registered'
                           /\ ~text[d].explicit => isa[d] = <<text[d].parent>>
                           /\ d \in registered' \/ OnTop(t, d)
                      /\ d \in registered' => superOf'[d] = text[d].parent
    BY DEF AsNamed
  <2>1. /\ module[d] = "loaded" =>
             /\ text[d].parent \in registered
             /\ ~text[d].explicit => isa[d] = <<text[d].parent>>
             /\ d \in registered \/ OnTop(stack, d)
        /\ d \in registered => superOf[d] = text[d].parent
    BY Facts DEF AsNamed
  <2>2. ASSUME d \in registered' PROVE superOf'[d] = text[d].parent
    <3>1. CASE d \in registered
      <4>1. superOf'[d] = superOf[d]
        BY <1>3, <3>1, Facts
      <4> QED
        BY <2>1, <3>1, <4>1
    <3>2. CASE d \notin registered
      <4>1. d = c /\ superOf'[d] = s
        BY <1>3, <1>8, <2>2, <3>2, Facts
      <4> QED
        BY <1>2, <4>1
    <3> QED
      BY <3>1, <3>2
  <2> QED
    BY <1>8, <1>10, <2>1, <2>2
<1>12. NamedIn(t, module, isa, registered', superOf', it)
  BY <1>10, <1>11, Facts DEF NamedIn
<1> QED
  BY <1>3, <1>6, <1>12, NamedNext

LEMMA CBRegisterMethodsNamed ==
  ASSUME Inv, NamedInv, CBRegisterMethods
  PROVE  NamedInv'
<1> DEFINE n == Len(stack)
<1>1. Running("class") /\ Top.pc = "again"
  BY DEF CBRegisterMethods, At
<1>2. /\ stack # <<>> /\ stack[n] = Top /\ n \in Nat \ {0} /\ Calls(Top)
      /\ Punctual(Top.name) => Top.name \in registered
      /\ \A i \in 1 .. n - 1 : Calls(stack[i]) => ~Punctual(stack[i].name)
  BY <1>1, TopCall
<1>3. /\ stack' = Front(stack) /\ module' = module
      /\ text' = text /\ it' = it /\ isa' = isa /\ registered' = registered /\ superOf' = superOf
  BY DEF CBRegisterMethods
<1>4. /\ Len(stack') = n - 1 /\ \A i \in 1 .. n - 1 : stack'[i] = stack[i]
  BY <1>2, <1>3, Facts, Fronts
<1>5. Cut(stack', stack) /\ Len(stack') < Len(stack) /\ ~Uses(stack[Len(stack') + 1])
  <2>1. ~Uses(Top) /\ Len(stack') + 1 = n
    BY <1>2, <1>4 DEF Calls, Uses
  <2> QED
    BY <1>2, <1>4, <2>1 DEF Cut
<1>6. Ordered(stack', module, {})
  <2>1. \A i \in 1 .. Len(stack) : text[stack[i].name].uses \subseteq Classes
    BY Facts, UsesClasses
  <2>2. \A j \in Len(stack') + 1 .. Len(stack) : ~Uses(stack[j])
    <3>1. \A j \in Len(stack') + 1 .. Len(stack) : j = n
      BY <1>2, <1>4
    <3> QED
      BY <1>2, <3>1 DEF Calls, Uses
  <2> QED
    BY <1>5, <2>1, <2>2, Facts, CutOrdered
<1>7. \A i \in 1 .. Len(stack') : i \in 1 .. Len(stack) /\ i \in 1 .. n - 1 /\ stack'[i] = stack[i]
  BY <1>2, <1>4
<1>8. AllFindNeeded(stack', it.name)
  BY <1>7, Facts, FindNext
<1>9. Straight(stack', registered, it)
  BY <1>2, <1>7 DEF Straight
<1>10. AsNamed(stack', module, isa, registered, superOf)
  <2>1. \A d : OnTop(stack, d) => d = Top.name
    BY <1>2 DEF OnTop
  <2> QED
    BY <1>2, <2>1, Facts, AsNamedNext
<1>11. NamedIn(stack', module, isa, registered, superOf, it)
  BY <1>6, <1>8, <1>9, <1>10, Facts DEF NamedIn
<1> QED
  BY <1>3, <1>11, NamedNext

LEMMA NamedStep == Inv /\ NamedInv /\ [Next]_vars => NamedInv'
<1> SUFFICES ASSUME Inv, NamedInv, [Next]_vars PROVE NamedInv'
  OBVIOUS
<1>1. CASE UNCHANGED vars
  <2>1. /\ text' = text /\ it' = it /\ isa' = isa /\ registered' = registered
        /\ superOf' = superOf /\ stack' = stack /\ module' = module
    BY <1>1 DEF vars
  <2> QED
    BY <2>1, NamedNext DEF NamedInv
<1>2. ASSUME NEW c \in Classes, Asks(c) \/ ClassAgain(c) PROVE NamedInv'
  BY <1>2, AsksNamed, ClassAgainNamed
<1>3. CASE Loads
  BY <1>3, ModuleUsesNamed, ModuleDiesNamed, ModuleCallsClassNamed DEF Loads
<1>4. CASE Class
  BY <1>4, ClassSearchesNamed, ClassAsksNamed, ClassSetsIsaNamed, CBRegisterNamed,
     CBRegisterMethodsNamed DEF Class
<1>5. CASE AllLoaded
  BY <1>1, <1>5 DEF AllLoaded
<1> QED
  BY <1>1, <1>2, <1>3, <1>4, <1>5 DEF Next

LEMMA NamedInit == Init => NamedInv
<1> SUFFICES ASSUME Init PROVE NamedInv
  OBVIOUS
<1>1. /\ stack = <<>> /\ registered = {NSObject} /\ NSObject \notin Classes
      /\ \A c \in Classes : module[c] = "new" /\ isa[c] = <<>>
  BY NamesAssumption DEF Init
<1>2. Len(stack) = 0
  BY <1>1
<1>3. Ordered(stack, module, {})
  BY <1>1, <1>2 DEF Ordered, Chained, Todo, UsesDone, OnStack
<1>4. IsaNeeded(isa)
  BY <1>1 DEF IsaNeeded, Range
<1>5. AllFindNeeded(stack, it.name) /\ Straight(stack, registered, it)
  BY <1>2 DEF AllFindNeeded, Straight
<1>6. AsNamed(stack, module, isa, registered, superOf)
  BY <1>1 DEF AsNamed
<1> QED
  BY <1>3, <1>4, <1>5, <1>6 DEF NamedInv, NamedIn

\* Both invariants hold throughout.
LEMMA AlwaysNamed == Spec => [](Inv /\ NamedInv)
BY InitInv, NextInv, NamedInit, NamedStep, PTL DEF Spec

\* class() (CamelBones.pm) makes the superclass that the module names the
\* superclass in the runtime, if the module uses the module of that class, and so
\* on up to NSObject, and none of these needs the module below it: whatever else is
\* being loaded or dies, and whatever the calls of class() in these modules leave
\* in $_ for the search that has made them.
THEOREM ParentsAsNamed == Spec => []HierarchyAsUsed
<1>1. Inv /\ NamedInv => HierarchyAsUsed
  <2> SUFFICES ASSUME Inv, NamedInv, Idle, NEW c \in Classes, module[c] = "loaded", Punctual(c)
               PROVE  c \in registered /\ superOf[c] = text[c].parent
    BY DEF HierarchyAsUsed, Punctual
  <2>1. ~OnTop(stack, c)
    BY DEF Idle, OnTop
  <2> QED
    BY <2>1 DEF NamedInv, NamedIn, AsNamed
<1> QED
  BY <1>1, AlwaysNamed, PTL
----------------------------------------------------------------------------
(* Loading comes to an end.                                                 *)

\* What is left for the frame f on top of a stack of n frames: how far the module
\* or the class() call is, the modules it has yet to use or the names it has not
\* asked for, and the classes in its queue.  A class() call that has asked, and
\* whose $_ another call has set since, may ask for another name without having
\* done with one: it is a phase behind.
Steps == [search |-> 3, asked |-> 3, isa |-> 2, register |-> 1, again |-> 0]
Behind(f, n, w) == f.pc = "asked" /\ (w.by # n \/ w.name \in f.checked)
Rank(f, n, w) ==
  IF Uses(f) THEN <<5, <<Cardinality(f.todo), 0>>>>
  ELSE <<IF Behind(f, n, w) THEN 4 ELSE Steps[f.pc],
         <<Cardinality((Names \cup {NoName}) \ f.checked), Len(f.queue)>>>>

\* What is left for all: the modules that nobody has loaded, how high the stack
\* is, and what is left for its top.
Unloaded(m) == {c \in Classes : m[c] = "new"}
Remaining(s, m, w) ==
  <<Cardinality(Unloaded(m)),
    <<Len(s), IF s = <<>> THEN <<0, <<0, 0>>>> ELSE Rank(s[Len(s)], Len(s), w)>>>>

Ranks == Nat \X (Nat \X Nat)
Remainders == Nat \X (Nat \X Ranks)
Fewer == OpToRel(<, Nat)
Lower == LexPairOrdering(Fewer, LexPairOrdering(Fewer, Fewer, Nat, Nat), Nat, Nat \X Nat)
Shorter == LexPairOrdering(Fewer, Lower, Nat, Ranks)
Nearer == LexPairOrdering(Fewer, Shorter, Nat, Nat \X Ranks)

\* Something left cannot become less for ever.
LEMMA NearerEnds == IsWellFoundedOn(Nearer, Remainders)
<1>1. IsWellFoundedOn(Fewer, Nat)
  BY NatLessThanWellFounded DEF Fewer
<1>2. IsWellFoundedOn(LexPairOrdering(Fewer, Fewer, Nat, Nat), Nat \X Nat)
  BY <1>1, WFLexPairOrdering
<1>3. IsWellFoundedOn(Lower, Ranks)
  BY <1>1, <1>2, WFLexPairOrdering DEF Lower, Ranks
<1>4. IsWellFoundedOn(Shorter, Nat \X Ranks)
  BY <1>1, <1>3, WFLexPairOrdering DEF Shorter
<1> QED
  BY <1>1, <1>4, WFLexPairOrdering DEF Nearer, Remainders

\* The orders, spelt out.
LEMMA LowerIs ==
  ASSUME NEW p \in Nat, NEW o \in Nat, NEW q \in Nat, NEW p2 \in Nat, NEW o2 \in Nat, NEW q2 \in Nat,
         p2 < p \/ (p2 = p /\ (o2 < o \/ (o2 = o /\ q2 < q)))
  PROVE  <<<<p2, <<o2, q2>>>>, <<p, <<o, q>>>>>> \in Lower
BY Less DEF Lower, Fewer, LexPairOrdering

LEMMA NearerIs ==
  ASSUME NEW n \in Nat, NEW l \in Nat, NEW r \in Ranks,
         NEW n2 \in Nat, NEW l2 \in Nat, NEW r2 \in Ranks,
         n2 < n \/ (n2 = n /\ (l2 < l \/ (l2 = l /\ <<r2, r>> \in Lower)))
  PROVE  <<<<n2, <<l2, r2>>>>, <<n, <<l, r>>>>>> \in Nearer
BY Less DEF Nearer, Shorter, Fewer, LexPairOrdering

\* Modules and names are finitely many.
LEMMA NamesFinite ==
  ASSUME IsFiniteSet(Classes)
  PROVE  IsFiniteSet(Names \cup {NoName})
<1>1. IsFiniteSet(Names)
  BY FS_AddElement DEF Names
<1> QED
  BY <1>1, FS_AddElement

LEMMA RankType ==
  ASSUME IsFiniteSet(Classes), NEW f \in Frames, NEW n, NEW w
  PROVE  Rank(f, n, w) \in Ranks
<1>1. CASE f \in [what : {"use"}, name : Classes, todo : SUBSET Classes, inEval : BOOLEAN]
  <2>1. Cardinality(f.todo) \in Nat
    BY <1>1, FS_Subset, FS_CardinalityType
  <2> QED
    BY <1>1, <2>1 DEF Rank, Ranks, Uses
<1>2. CASE f \in [what : {"class"}, name : Classes, checked : SUBSET (Names \cup {NoName}),
                  asked : Names \cup {NoName}, super : Names, pc : Pcs, queue : Seq(Names)]
  <2> DEFINE open == (Names \cup {NoName}) \ f.checked
  <2>1. Cardinality(open) \in Nat
    BY NamesFinite, FS_Subset, FS_CardinalityType
  <2>2. Len(f.queue) \in Nat /\ Steps[f.pc] \in Nat /\ ~Uses(f)
    BY <1>2 DEF Steps, Pcs, Uses
  <2> HIDE DEF open
  <2> QED
    BY <2>1, <2>2 DEF Rank, Ranks, open
<1> QED
  BY <1>1, <1>2 DEF Frames

LEMMA RemainingType ==
  ASSUME IsFiniteSet(Classes), NEW s \in Seq(Frames), NEW m, NEW w
  PROVE  /\ Cardinality(Unloaded(m)) \in Nat /\ Len(s) \in Nat
         /\ (IF s = <<>> THEN <<0, <<0, 0>>>> ELSE Rank(s[Len(s)], Len(s), w)) \in Ranks
<1>1. Cardinality(Unloaded(m)) \in Nat
  BY FS_Subset, FS_CardinalityType DEF Unloaded
<1>2. Len(s) \in Nat /\ (s # <<>> => s[Len(s)] \in Frames)
  OBVIOUS
<1> QED
  BY <1>1, <1>2, RankType DEF Ranks

\* The four ways to come nearer to the end: a module begins to load,
LEMMA LoadNearer ==
  ASSUME IsFiniteSet(Classes), NEW s \in Seq(Frames), NEW t \in Seq(Frames),
         NEW m, NEW k, NEW u, Starts(m, k, u), NEW w, NEW v
  PROVE  <<Remaining(t, k, v), Remaining(s, m, w)>> \in Nearer
<1>1. Unloaded(k) = Unloaded(m) \ {u} /\ u \in Unloaded(m) /\ IsFiniteSet(Unloaded(m))
  BY FS_Subset DEF Starts, Unloaded
<1>2. Cardinality(Unloaded(k)) < Cardinality(Unloaded(m))
  <2>1. PICK S : S = Unloaded(m)
    OBVIOUS
  <2>2. Cardinality(S) \in Nat /\ Cardinality(S \ {u}) = Cardinality(S) - 1
    BY <1>1, <2>1, FS_RemoveElement, FS_CardinalityType
  <2> QED
    BY <1>1, <2>1, <2>2
<1> QED
  BY <1>2, RemainingType, NearerIs DEF Remaining

\* the stack becomes lower,
LEMMA CutNearer ==
  ASSUME IsFiniteSet(Classes), NEW s \in Seq(Frames), NEW t \in Seq(Frames), Len(t) < Len(s),
         NEW m, NEW k, Unloaded(k) = Unloaded(m), NEW w, NEW v
  PROVE  <<Remaining(t, k, v), Remaining(s, m, w)>> \in Nearer
BY RemainingType, NearerIs DEF Remaining

\* or its top goes on.
LEMMA TurnNearer ==
  ASSUME IsFiniteSet(Classes), NEW s \in Seq(Frames), NEW t \in Seq(Frames), NEW f, Turns(t, s, f),
         NEW m, NEW k, Unloaded(k) = Unloaded(m), NEW w, NEW v,
         <<Rank(f, Len(s), v), Rank(s[Len(s)], Len(s), w)>> \in Lower
  PROVE  <<Remaining(t, k, v), Remaining(s, m, w)>> \in Nearer
<1>1. Len(t) = Len(s) /\ s # <<>> /\ t # <<>> /\ t[Len(t)] = f
  BY DEF Turns
<1> QED
  BY <1>1, RemainingType, NearerIs DEF Remaining

\* The rank of a class() call: its phase, and the rest.
LEMMA CallPhase ==
  ASSUME NEW f \in Frames, Calls(f), NEW n, NEW w
  PROVE  /\ f.pc = "search" => Rank(f, n, w)[1] = 3
         /\ f.pc = "asked" => Rank(f, n, w)[1] = IF Behind(f, n, w) THEN 4 ELSE 3
         /\ f.pc = "isa" => Rank(f, n, w)[1] = 2
         /\ f.pc = "register" => Rank(f, n, w)[1] = 1
         /\ f.pc = "again" => Rank(f, n, w)[1] = 0
BY DEF Rank, Behind, Steps, Uses, Calls

LEMMA CallRest ==
  ASSUME NEW f \in Frames, Calls(f), NEW n, NEW w
  PROVE  Rank(f, n, w)[2] = <<Cardinality((Names \cup {NoName}) \ f.checked), Len(f.queue)>>
BY DEF Rank, Behind, Steps, Uses, Calls

\* A later phase is lower.
LEMMA PhaseLower ==
  ASSUME IsFiniteSet(Classes), NEW f \in Frames, NEW g \in Frames, NEW n, NEW w, NEW v,
         Rank(g, n, v)[1] < Rank(f, n, w)[1]
  PROVE  <<Rank(g, n, v), Rank(f, n, w)>> \in Lower
<1>1. PICK r \in Ranks, r2 \in Ranks : r = Rank(f, n, w) /\ r2 = Rank(g, n, v)
  BY RankType
<1>2. /\ r = <<r[1], <<r[2][1], r[2][2]>>>> /\ r[1] \in Nat /\ r[2][1] \in Nat /\ r[2][2] \in Nat
      /\ r2 = <<r2[1], <<r2[2][1], r2[2][2]>>>> /\ r2[1] \in Nat /\ r2[2][1] \in Nat /\ r2[2][2] \in Nat
  BY DEF Ranks
<1>3. r2[1] < r[1]
  BY <1>1
<1>4. PICK p, o, q, p2, o2, q2 :
        /\ p \in Nat /\ o \in Nat /\ q \in Nat /\ p2 \in Nat /\ o2 \in Nat /\ q2 \in Nat
        /\ r = <<p, <<o, q>>>> /\ r2 = <<p2, <<o2, q2>>>> /\ p2 < p
  BY <1>2, <1>3
<1>5. <<r2, r>> \in Lower
  BY <1>4, LowerIs
<1> QED
  BY <1>1, <1>5

\* The search goes on with a shorter queue,
LEMMA QueueLower ==
  ASSUME IsFiniteSet(Classes), NEW f \in Frames, NEW g \in Frames, NEW n, NEW w, NEW v,
         Calls(f), Calls(g), f.pc = "search", Rank(g, n, v)[1] = 3, g.checked = f.checked,
         Len(g.queue) < Len(f.queue)
  PROVE  <<Rank(g, n, v), Rank(f, n, w)>> \in Lower
<1>1. PICK r \in Ranks, r2 \in Ranks : r = Rank(f, n, w) /\ r2 = Rank(g, n, v)
  BY RankType
<1>2. /\ r = <<r[1], <<r[2][1], r[2][2]>>>> /\ r[1] \in Nat /\ r[2][1] \in Nat /\ r[2][2] \in Nat
      /\ r2 = <<r2[1], <<r2[2][1], r2[2][2]>>>> /\ r2[1] \in Nat /\ r2[2][1] \in Nat /\ r2[2][2] \in Nat
  BY DEF Ranks
<1>3. r[1] = 3 /\ r2[1] = 3 /\ r2[2][1] = r[2][1] /\ r2[2][2] < r[2][2]
  <2>1. r[1] = 3 /\ r2[1] = 3
    BY <1>1, CallPhase
  <2>2. PICK c : c = Cardinality((Names \cup {NoName}) \ f.checked)
    OBVIOUS
  <2>3. Rank(f, n, w)[2] = <<c, Len(f.queue)>>
    BY <2>2, CallRest
  <2>4. Rank(g, n, v)[2] = <<c, Len(g.queue)>>
    BY <2>2, CallRest
  <2> QED
    BY <1>1, <2>1, <2>3, <2>4
<1>4. <<r2, r>> \in Lower
  BY <1>2, <1>3, LowerIs
<1> QED
  BY <1>1, <1>4

\* or with one name less to ask for.
LEMMA OpenLower ==
  ASSUME IsFiniteSet(Classes), NEW f \in Frames, NEW g \in Frames, NEW n, NEW w, NEW v,
         Calls(f), Calls(g), g.pc = "search", Rank(f, n, w)[1] = 3,
         NEW x \in Names \cup {NoName}, x \notin f.checked, g.checked = f.checked \cup {x}
  PROVE  <<Rank(g, n, v), Rank(f, n, w)>> \in Lower
<1> DEFINE open == (Names \cup {NoName}) \ f.checked
<1>1. PICK r \in Ranks, r2 \in Ranks : r = Rank(f, n, w) /\ r2 = Rank(g, n, v)
  BY RankType
<1>2. /\ r = <<r[1], <<r[2][1], r[2][2]>>>> /\ r[1] \in Nat /\ r[2][1] \in Nat /\ r[2][2] \in Nat
      /\ r2 = <<r2[1], <<r2[2][1], r2[2][2]>>>> /\ r2[1] \in Nat /\ r2[2][1] \in Nat /\ r2[2][2] \in Nat
  BY DEF Ranks
<1>3. (Names \cup {NoName}) \ g.checked = open \ {x} /\ x \in open /\ IsFiniteSet(open)
  BY NamesFinite, FS_Subset
<1>4. r[1] = 3 /\ r2[1] = 3 /\ r[2][1] = Cardinality(open) /\ r2[2][1] = Cardinality(open \ {x})
  <2>1. r[1] = 3 /\ r2[1] = 3
    BY <1>1, CallPhase
  <2>2. Rank(f, n, w)[2] = <<Cardinality(open), Len(f.queue)>>
    BY CallRest
  <2>3. Rank(g, n, v)[2] = <<Cardinality(open \ {x}), Len(g.queue)>>
    BY <1>3, CallRest
  <2> QED
    BY <1>1, <2>1, <2>2, <2>3
<1> HIDE DEF open
<1>5. r2[2][1] < r[2][1]
  <2>1. Cardinality(open) \in Nat /\ Cardinality(open \ {x}) = Cardinality(open) - 1
    BY <1>3, FS_RemoveElement, FS_CardinalityType
  <2> QED
    BY <1>4, <2>1
<1>6. <<r2, r>> \in Lower
  BY <1>2, <1>4, <1>5, LowerIs, ZenonT(60)
<1> QED
  BY <1>1, <1>6

\* A step that comes nearer to the end.
Advances == <<Remaining(stack', module', it'), Remaining(stack, module, it)>> \in Nearer

LEMMA StackTypes ==
  ASSUME Inv, Inv'
  PROVE  stack \in Seq(Frames) /\ stack' \in Seq(Frames) /\ TypeOK
BY DEF Inv, TypeOK

\* The top goes on as f, or another module begins to load.
LEMMA TurnAdvances ==
  ASSUME IsFiniteSet(Classes), Inv, Inv', NEW b \in Seq(Frames), NEW f, Turns(b, stack, f),
         NEW u, NEW g,
         \/ stack' = b /\ Unloaded(module') = Unloaded(module)
         \/ Grows(stack', b, g) /\ Starts(module, module', u),
         <<Rank(f, Len(stack), it'), Rank(stack[Len(stack)], Len(stack), it)>> \in Lower
  PROVE  Advances
<1>1. PICK t, k, v : t \in Seq(Frames) /\ t = stack' /\ k = module' /\ v = it'
  BY StackTypes
<1>2. CASE stack' = b /\ Unloaded(module') = Unloaded(module)
  <2>1. <<Remaining(b, k, v), Remaining(stack, module, it)>> \in Nearer
    BY <1>1, <1>2, StackTypes, TurnNearer
  <2> QED
    BY <1>1, <1>2, <2>1 DEF Advances
<1>3. CASE Starts(module, module', u)
  <2>1. <<Remaining(t, k, v), Remaining(stack, module, it)>> \in Nearer
    BY <1>1, <1>3, StackTypes, LoadNearer
  <2> QED
    BY <1>1, <2>1 DEF Advances
<1> QED
  BY <1>2, <1>3

\* The stack becomes lower.
LEMMA CutAdvances ==
  ASSUME IsFiniteSet(Classes), Inv, Inv', Len(stack') < Len(stack),
         Unloaded(module') = Unloaded(module)
  PROVE  Advances
<1>1. PICK t, k, v : t \in Seq(Frames) /\ t = stack' /\ k = module' /\ v = it'
  BY StackTypes
<1>2. <<Remaining(t, k, v), Remaining(stack, module, it)>> \in Nearer
  BY <1>1, StackTypes, CutNearer
<1> QED
  BY <1>1, <1>2 DEF Advances

LEMMA DiesAdvances ==
  ASSUME IsFiniteSet(Classes), Inv, Inv', Running("use"), Dies
  PROVE  Advances
<1>1. Len(stack') < Len(stack)
  BY DiesShape
<1>2. Unloaded(module') = Unloaded(module)
  <2>1. \A c \in Classes : module[c] = "new" <=> module'[c] = "new"
    BY DiesShape
  <2> QED
    BY <2>1 DEF Unloaded
<1> QED
  BY <1>1, <1>2, CutAdvances

\* A module that begins to load, or one less to use.
LEMMA ModuleUsesAdvances ==
  ASSUME IsFiniteSet(Classes), Inv, Inv', ModuleUses
  PROVE  Advances
<1>1. Running("use")
  BY DEF ModuleUses
<1>2. PICK c \in Top.todo :
        \/ module[c] = "broken" /\ Dies
        \/ /\ module[c] # "broken"
           /\ Load(c, FALSE, Append(Front(stack), [Top EXCEPT !.todo = @ \ {c}]))
           /\ UNCHANGED <<text, it, classes>>
  BY DEF ModuleUses
<1>3. CASE Dies
  BY <1>1, <1>3, DiesAdvances
<1>4. CASE Load(c, FALSE, Append(Front(stack), [Top EXCEPT !.todo = @ \ {c}]))
  <2> DEFINE f == [Top EXCEPT !.todo = @ \ {c}]
             n == Len(stack)
  <2>1. /\ stack # <<>> /\ Top = stack[n]
        /\ Top \in [what : {"use"}, name : Classes, todo : SUBSET Classes, inEval : BOOLEAN]
    BY <1>1, TopFrame, TopIs
  <2>2. f \in Frames /\ f.todo = Top.todo \ {c} /\ Uses(f) /\ Uses(Top)
    BY <2>1 DEF Frames, Uses
  <2> HIDE DEF f
  <2>3. PICK b : b = Append(Front(stack), f) /\ b \in Seq(Frames) /\ Turns(b, stack, f)
    BY <2>1, <2>2, StackTypes, ShapeTurns
  <2>4. PICK e \in BOOLEAN : e = FALSE
    OBVIOUS
  <2>5. Load(c, e, b)
    BY <1>4, <2>3, <2>4 DEF f
  <2>6. \/ stack' = b /\ module' = module
        \/ Grows(stack', b, UseFrame(c, e)) /\ Starts(module, module', c)
    BY <2>3, <2>5, StackTypes, LoadShape
  <2>7. <<Rank(f, n, it'), Rank(Top, n, it)>> \in Lower
    <3>1. PICK T : T = Top.todo /\ T \in SUBSET Classes
      BY <2>1
    <3>2. IsFiniteSet(T)
      BY <3>1, FS_Subset
    <3>3. Cardinality(T) \in Nat /\ Cardinality(T \ {c}) = Cardinality(T) - 1 /\ Cardinality(T \ {c}) \in Nat
      BY <1>2, <3>1, <3>2, FS_RemoveElement, FS_CardinalityType
    <3>4. /\ Rank(f, n, it') = <<5, <<Cardinality(T \ {c}), 0>>>>
          /\ Rank(Top, n, it) = <<5, <<Cardinality(T), 0>>>>
      BY <2>2, <3>1 DEF Rank
    <3>5. PICK a \in Nat, d \in Nat : a = Cardinality(T \ {c}) /\ d = Cardinality(T) /\ a < d
      BY <3>3
    <3>6. <<<<5, <<a, 0>>>>, <<5, <<d, 0>>>>>> \in Lower
      BY <3>5, LowerIs
    <3> QED
      BY <3>4, <3>5, <3>6
  <2>8. Unloaded(module') = Unloaded(module) \/ Starts(module, module', c)
    BY <2>6 DEF Unloaded
  <2> QED
    BY <2>1, <2>3, <2>6, <2>7, <2>8, TurnAdvances
<1> QED
  BY <1>2, <1>3, <1>4

\* The top goes on as another frame and nothing is loaded.
LEMMA BecomesAdvances ==
  ASSUME IsFiniteSet(Classes), Inv, Inv', stack # <<>>, NEW f \in Frames,
         stack' = Append(Front(stack), f), Unloaded(module') = Unloaded(module),
         <<Rank(f, Len(stack), it'), Rank(Top, Len(stack), it)>> \in Lower
  PROVE  Advances
<1>1. PICK b : b = Append(Front(stack), f) /\ b \in Seq(Frames) /\ Turns(b, stack, f)
  BY StackTypes, ShapeTurns
<1>2. Top = stack[Len(stack)]
  BY TopIs
<1> QED
  BY <1>1, <1>2, TurnAdvances

\* The top goes on as another frame after the runtime has been asked for a class.
LEMMA AskAdvances ==
  ASSUME IsFiniteSet(Classes), Inv, Inv', stack # <<>>, NEW f \in Frames,
         NEW u, objc_getClass(u, Append(Front(stack), f)),
         <<Rank(f, Len(stack), it'), Rank(Top, Len(stack), it)>> \in Lower
  PROVE  Advances
<1>1. PICK b : b = Append(Front(stack), f) /\ b \in Seq(Frames) /\ Turns(b, stack, f)
  BY StackTypes, ShapeTurns
<1>2. Top = stack[Len(stack)]
  BY TopIs
<1>3. \/ stack' = b /\ module' = module
      \/ Grows(stack', b, UseFrame(u, TRUE)) /\ Starts(module, module', u)
  BY <1>1, StackTypes, GetShape
<1>4. CASE stack' = b /\ module' = module
  <2>1. Unloaded(module') = Unloaded(module)
    BY <1>4 DEF Unloaded
  <2> QED
    BY <1>1, <1>2, <1>4, <2>1, TurnAdvances
<1>5. CASE Grows(stack', b, UseFrame(u, TRUE)) /\ Starts(module, module', u)
  <2>1. PICK g : g = UseFrame(u, TRUE)
    OBVIOUS
  <2>2. Grows(stack', b, g)
    BY <1>5, <2>1
  <2> QED
    BY <1>1, <1>2, <1>5, <2>2, TurnAdvances
<1> QED
  BY <1>3, <1>4, <1>5

LEMMA ModuleCallsClassAdvances ==
  ASSUME IsFiniteSet(Classes), Inv, Inv', ModuleCallsClass
  PROVE  Advances
<1> DEFINE c == Top.name
           f == [ClassFrame(c) EXCEPT !.queue = IF text[c].explicit THEN @ ELSE isa'[c]]
<1>1. Running("use")
  BY DEF ModuleCallsClass
<1>2. /\ stack # <<>> /\ Uses(Top) /\ Top \in Frames /\ c \in Classes /\ module[c] = "loading"
      /\ module \in [Classes -> States]
  BY <1>1, TopFrame, InvFacts DEF Uses
<1>3. isa' \in [Classes -> Seq(Names)]
  BY DEF Inv, TypeOK
<1>4. f \in Frames /\ Calls(f) /\ (f.pc = "search" \/ f.pc = "isa")
  <2>1. /\ ClassFrame(c) \in Frames /\ Calls(ClassFrame(c))
        /\ ClassFrame(c).pc = "search" \/ ClassFrame(c).pc = "isa"
    BY <1>2, StackTypes, ClassFrames DEF ClassFrame
  <2>2. ClassFrame(c) \in [what : {"class"}, name : Classes, checked : SUBSET (Names \cup {NoName}),
                asked : Names \cup {NoName}, super : Names, pc : Pcs, queue : Seq(Names)]
    BY <2>1 DEF Calls, Frames
  <2>3. isa'[c] \in Seq(Names)
    BY <1>2, <1>3
  <2> QED
    BY <2>1, <2>2, <2>3 DEF Frames, Calls
<1>5. stack' = Append(Front(stack), f) /\ module' = [module EXCEPT ![c] = "loaded"]
  BY DEF ModuleCallsClass, Becomes
<1>6. Unloaded(module') = Unloaded(module)
  BY <1>2, <1>5 DEF Unloaded
<1> HIDE DEF f
<1>7. <<Rank(f, Len(stack), it'), Rank(Top, Len(stack), it)>> \in Lower
  <2>1. Rank(Top, Len(stack), it)[1] = 5
    BY <1>2 DEF Rank
  <2>2. Rank(f, Len(stack), it')[1] < 5
    BY <1>4, CallPhase
  <2> QED
    BY <1>2, <1>4, <2>1, <2>2, PhaseLower
<1> QED
  BY <1>2, <1>4, <1>5, <1>6, <1>7, BecomesAdvances

\* The frame of the class() call on top.
LEMMA TopClass ==
  ASSUME Inv, Running("class")
  PROVE  /\ stack # <<>> /\ Len(stack) \in Nat /\ Calls(Top) /\ Top \in Frames
         /\ Top \in [what : {"class"}, name : Classes, checked : SUBSET (Names \cup {NoName}),
                     asked : Names \cup {NoName}, super : Names, pc : Pcs, queue : Seq(Names)]
BY TopFrame DEF Calls

LEMMA ClassSearchesAdvances ==
  ASSUME IsFiniteSet(Classes), Inv, Inv', ClassSearches
  PROVE  Advances
<1> DEFINE h == IF Top.queue = <<>> THEN NoName ELSE Head(Top.queue)
           q == [Top EXCEPT !.queue = Tail(@)]
           a == [Top EXCEPT !.pc = "asked", !.asked = h, !.queue = Tail(@)]
           g == [Top EXCEPT !.pc = "isa"]
           n == Len(stack)
<1>1. Running("class") /\ Top.pc = "search"
  BY DEF ClassSearches, At
<1>2. /\ stack # <<>> /\ n \in Nat /\ Calls(Top) /\ Top \in Frames
      /\ Top \in [what : {"class"}, name : Classes, checked : SUBSET (Names \cup {NoName}),
                   asked : Names \cup {NoName}, super : Names, pc : Pcs, queue : Seq(Names)]
  BY <1>1, TopClass
<1>3. /\ it' = [name |-> h, by |-> n]
      /\ \/ stack' = Append(Front(stack), g) /\ module' = module
         \/ /\ h \in Top.checked \ {NoName}
            /\ stack' = Append(Front(stack), q) /\ module' = module
         \/ /\ h \notin Top.checked \cup {NoName}
            /\ objc_getClass(h, Append(Front(stack), a))
  BY DEF ClassSearches, GoesOn, Becomes
<1>4. h \in Names \cup {NoName} /\ (h # NoName => Top.queue # <<>>)
  BY <1>2
<1> HIDE DEF h
<1>5. g \in Frames /\ Calls(g) /\ g.pc = "isa"
  BY <1>2 DEF Frames, Pcs, Calls
<1>6. ASSUME h # NoName
      PROVE  /\ q \in Frames /\ Calls(q) /\ q.pc = "search" /\ q.checked = Top.checked
             /\ a \in Frames /\ Calls(a) /\ a.pc = "asked" /\ a.checked = Top.checked
             /\ Len(q.queue) < Len(Top.queue) /\ Len(a.queue) < Len(Top.queue)
  <2> DEFINE o == Top.queue
  <2>1. o \in Seq(Names) /\ o # <<>>
    BY <1>2, <1>4, <1>6
  <2> HIDE DEF o
  <2>2. Tail(o) \in Seq(Names) /\ Len(Tail(o)) < Len(o)
    BY <2>1
  <2>3. Tail(Top.queue) \in Seq(Names) /\ Len(Tail(Top.queue)) < Len(Top.queue)
    BY <2>2 DEF o
  <2> QED
    BY <1>1, <1>2, <1>4, <2>3 DEF Frames, Pcs, Calls
<1> HIDE DEF g, q, a
<1>7. Rank(Top, n, it)[1] = 3
  BY <1>1, <1>2, CallPhase
<1>8. CASE stack' = Append(Front(stack), g) /\ module' = module
  <2>1. <<Rank(g, n, it'), Rank(Top, n, it)>> \in Lower
    BY <1>2, <1>5, <1>7, CallPhase, PhaseLower
  <2>2. Unloaded(module') = Unloaded(module)
    BY <1>8 DEF Unloaded
  <2> QED
    BY <1>2, <1>5, <1>8, <2>1, <2>2, BecomesAdvances
<1>9. CASE h # NoName /\ stack' = Append(Front(stack), q) /\ module' = module
  <2>1. Rank(q, n, it')[1] = 3
    BY <1>6, <1>9, CallPhase
  <2>2. <<Rank(q, n, it'), Rank(Top, n, it)>> \in Lower
    BY <1>1, <1>2, <1>6, <1>9, <2>1, QueueLower
  <2>3. Unloaded(module') = Unloaded(module)
    BY <1>9 DEF Unloaded
  <2> QED
    BY <1>2, <1>6, <1>9, <2>2, <2>3, BecomesAdvances
<1>10. CASE h \notin Top.checked \cup {NoName} /\ objc_getClass(h, Append(Front(stack), a))
  <2>1. ~Behind(a, n, it')
    BY <1>3, <1>6, <1>10 DEF Behind
  <2>2. Rank(a, n, it')[1] = 3
    BY <1>6, <1>10, <2>1, CallPhase
  <2>3. <<Rank(a, n, it'), Rank(Top, n, it)>> \in Lower
    BY <1>1, <1>2, <1>6, <1>10, <2>2, QueueLower
  <2> QED
    BY <1>2, <1>6, <1>10, <2>3, AskAdvances
<1> QED
  BY <1>3, <1>8, <1>9, <1>10

\* The answer is marked as checked; that is one name less, unless another call
\* has set $_, and then this call is no longer behind.
LEMMA ClassAsksAdvances ==
  ASSUME IsFiniteSet(Classes), Inv, Inv', ClassAsks
  PROVE  Advances
<1> DEFINE more == IF it.name \in Classes THEN isa[it.name] ELSE <<>>
           f == [Top EXCEPT !.pc = "isa", !.super = IF it.name = NoName THEN NSObject ELSE it.name]
           g == [Top EXCEPT !.pc = "search", !.checked = @ \cup {it.name}, !.queue = @ \o more]
           n == Len(stack)
<1>1. Running("class") /\ Top.pc = "asked"
  BY DEF ClassAsks, At
<1>2. /\ stack # <<>> /\ n \in Nat /\ Calls(Top) /\ Top \in Frames
      /\ Top \in [what : {"class"}, name : Classes, checked : SUBSET (Names \cup {NoName}),
                   asked : Names \cup {NoName}, super : Names, pc : Pcs, queue : Seq(Names)]
  BY <1>1, TopClass
<1>3. /\ stack' = Append(Front(stack), f) \/ stack' = Append(Front(stack), g)
      /\ module' = module /\ it' = it
  BY DEF ClassAsks, Becomes
<1>4. /\ it.name \in Names \cup {NoName} /\ NSObject \in Names /\ isa \in [Classes -> Seq(Names)]
  BY StackTypes DEF TypeOK, Names
<1>5. f \in Frames /\ Calls(f) /\ f.pc = "isa"
  BY <1>2, <1>4 DEF Frames, Pcs, Calls
<1>6. g \in Frames /\ Calls(g) /\ g.pc = "search" /\ g.checked = Top.checked \cup {it.name}
  <2> DEFINE o == Top.queue
  <2>1. o \in Seq(Names) /\ more \in Seq(Names)
    BY <1>2, <1>4
  <2> HIDE DEF o, more
  <2>2. o \o more \in Seq(Names)
    BY <2>1
  <2>3. Top.queue \o more \in Seq(Names)
    BY <2>2 DEF o
  <2> QED
    BY <1>2, <1>4, <2>3 DEF Frames, Pcs, Calls
<1> HIDE DEF f, g
<1>7. Unloaded(module') = Unloaded(module)
  BY <1>3 DEF Unloaded
<1>8. Rank(Top, n, it)[1] = (IF Behind(Top, n, it) THEN 4 ELSE 3)
  BY <1>1, <1>2, CallPhase
<1>9. <<Rank(f, n, it'), Rank(Top, n, it)>> \in Lower
  BY <1>2, <1>5, <1>8, CallPhase, PhaseLower
<1>10. <<Rank(g, n, it'), Rank(Top, n, it)>> \in Lower
  <2>1. Rank(g, n, it')[1] = 3
    BY <1>6, CallPhase
  <2>2. CASE Behind(Top, n, it)
    BY <1>2, <1>6, <1>8, <2>1, <2>2, PhaseLower
  <2>3. CASE ~Behind(Top, n, it)
    <3>1. it.name \notin Top.checked
      BY <1>1, <2>3 DEF Behind
    <3> QED
      BY <1>2, <1>4, <1>6, <1>8, <2>3, <3>1, OpenLower
  <2> QED
    BY <2>2, <2>3
<1> QED
  BY <1>2, <1>3, <1>5, <1>6, <1>7, <1>9, <1>10, BecomesAdvances

LEMMA ClassSetsIsaAdvances ==
  ASSUME IsFiniteSet(Classes), Inv, Inv', ClassSetsIsa
  PROVE  Advances
<1> DEFINE f == [Top EXCEPT !.pc = "register"]
<1>1. Running("class") /\ Top.pc = "isa"
  BY DEF ClassSetsIsa, At
<1>2. objc_getClass(Top.name, Append(Front(stack), f))
  BY DEF ClassSetsIsa, GoesOn
<1>3. f \in Frames /\ Calls(f) /\ f.pc = "register"
  BY <1>1, TopClass DEF Frames, Pcs, Calls
<1> HIDE DEF f
<1>4. <<Rank(f, Len(stack), it'), Rank(Top, Len(stack), it)>> \in Lower
  <2>1. Rank(f, Len(stack), it')[1] = 1 /\ Rank(Top, Len(stack), it)[1] = 2
    BY <1>1, <1>3, TopClass, CallPhase
  <2> QED
    BY <1>1, <1>3, <2>1, TopClass, PhaseLower
<1> QED
  BY <1>1, <1>2, <1>3, <1>4, TopClass, AskAdvances

LEMMA CBRegisterAdvances ==
  ASSUME IsFiniteSet(Classes), Inv, Inv', CBRegister
  PROVE  Advances
<1> DEFINE f == [Top EXCEPT !.pc = "again"]
<1>1. Running("class") /\ Top.pc = "register"
  BY DEF CBRegister, At
<1>2. \/ stack' = Append(Front(stack), f) /\ module' = module
      \/ objc_getClass(Top.name, Append(Front(stack), f))
  BY DEF CBRegister, GoesOn
<1>3. f \in Frames /\ Calls(f) /\ f.pc = "again"
  BY <1>1, TopClass DEF Frames, Pcs, Calls
<1> HIDE DEF f
<1>4. <<Rank(f, Len(stack), it'), Rank(Top, Len(stack), it)>> \in Lower
  <2>1. Rank(f, Len(stack), it')[1] = 0 /\ Rank(Top, Len(stack), it)[1] = 1
    BY <1>1, <1>3, TopClass, CallPhase
  <2> QED
    BY <1>1, <1>3, <2>1, TopClass, PhaseLower
<1>5. module' = module => Unloaded(module') = Unloaded(module)
  BY DEF Unloaded
<1> QED
  BY <1>1, <1>2, <1>3, <1>4, <1>5, TopClass, AskAdvances, BecomesAdvances

LEMMA CBRegisterMethodsAdvances ==
  ASSUME IsFiniteSet(Classes), Inv, Inv', CBRegisterMethods
  PROVE  Advances
<1>1. Running("class") /\ stack' = Front(stack) /\ module' = module
  BY DEF CBRegisterMethods, At
<1>2. Len(stack') < Len(stack)
  BY <1>1, TopClass, StackTypes, Fronts
<1>3. Unloaded(module') = Unloaded(module)
  BY <1>1 DEF Unloaded
<1> QED
  BY <1>2, <1>3, CutAdvances

\* Loading comes to an end, whichever modules use each other and whatever nested
\* calls of class() (CamelBones.pm) do to $_: each step of a module that is being
\* loaded, and of a class() call, leaves less to do, and it cannot become less for
\* ever.  In between the class handler (Runtime.m) may load any modules.
THEOREM LoadingAdvances ==
  ASSUME IsFiniteSet(Classes)
  PROVE  /\ IsWellFoundedOn(Nearer, Remainders)
         /\ Spec => [][Loads \/ Class => Advances]_vars
<1>1. Inv /\ Inv' /\ (Loads \/ Class) => Advances
  BY ModuleUsesAdvances, DiesAdvances, ModuleCallsClassAdvances, ClassSearchesAdvances,
     ClassAsksAdvances, ClassSetsIsaAdvances, CBRegisterAdvances, CBRegisterMethodsAdvances
     DEF Loads, Class, ModuleDies
<1>2. Inv /\ Inv' /\ [Next]_vars => [Loads \/ Class => Advances]_vars
  BY <1>1
<1>3. Spec => [][Loads \/ Class => Advances]_vars
  BY <1>2, AlwaysInv, PTL DEF Spec
<1> QED
  BY <1>3, NearerEnds
=============================================================================
