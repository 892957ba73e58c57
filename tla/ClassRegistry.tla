--------------------------- MODULE ClassRegistry ---------------------------
(***************************************************************************)
(* How Perl classes come into being in the Objective-C runtime.  A class   *)
(* C lives in the module C.pm, which uses other modules, exports methods   *)
(* and calls class() (CamelBones.pm).  class() asks the runtime for other  *)
(* classes; the runtime, asked for a class it does not have, calls the     *)
(* class handler (Runtime.m), which loads that class's module.  So loading *)
(* and registering call each other, and what class() finds depends on      *)
(* which modules are already being loaded.  Worse, class() keeps the name  *)
(* it asks for in Perl's global $_ (it, below), and so does the class() of *)
(* a module that is loaded to answer it.                                   *)
(*                                                                         *)
(* stack holds the modules being loaded and the class() calls being        *)
(* executed, outermost first.                                              *)
(***************************************************************************)
EXTENDS Naturals, Sequences, SequencesExt, FiniteSets

CONSTANTS
  Classes,     \* the classes written in Perl
  NSObject,    \* the root class, native
  NoName,      \* what names no class: undef, or the bytes of a freed string
  Texts,       \* the texts the modules may have
  NameParts,   \* <<c, d>>: the name of class c contains the name of class d
  MaxAdded     \* bound: calls of class() for one class that add its methods

Names == Classes \cup {NSObject}

(***************************************************************************)
(* What the module of a class says:                                        *)
(*   uses      the modules it uses,                                        *)
(*   parent    its superclass,                                             *)
(*   explicit  given to class() as 'super'; otherwise it is in @ISA,       *)
(*   dies      it dies before it calls class().                            *)
(***************************************************************************)
Text == [uses : SUBSET Classes, parent : Names, explicit : BOOLEAN, dies : BOOLEAN]

ASSUME NamesAssumption == {NSObject, NoName} \cap Classes = {} /\ NSObject # NoName
                          /\ NameParts \subseteq Names \X Names
ASSUME TextsAssumption == Texts \subseteq [Classes -> Text]
ASSUME MaxAddedAssumption == MaxAdded \in Nat

VARIABLES
  text,        \* the modules' texts
  registered,  \* the classes the runtime has
  superOf,     \* their superclasses
  isa,         \* @ISA of each package
  module,      \* %INC: each module's state
  added,       \* how often the exports of a class were added to its methods
  it,          \* $_: its value, and how deep the call that set it is in stack
  stack

vars == <<text, registered, superOf, isa, module, added, it, stack>>
classes == <<registered, superOf, isa, added>>

(***************************************************************************)
(* what  "use" a module is executed, or the "class" call is.               *)
(* todo  the modules it has yet to use.                                    *)
(* inEval  a die in it goes no further.                                    *)
(* pc    of a class call: "search" for the superclass in queue, the classes *)
(*       in checked being done with; "asked" for the class name asked;     *)
(*       "isa"; "register"; "again".                                       *)
(* super the superclass given or found.                                    *)
(***************************************************************************)
UseFrame(c, inEval) ==
  [what |-> "use", name |-> c, todo |-> text[c].uses, inEval |-> inEval]
ClassFrame(c) ==
  [what |-> "class", name |-> c, checked |-> {}, asked |-> NoName, super |-> IF text[c].explicit THEN text[c].parent ELSE NSObject,
   pc    |-> IF text[c].explicit THEN "isa" ELSE "search",
   queue |-> IF text[c].explicit THEN <<>> ELSE isa[c]]

Pcs == {"search", "asked", "isa", "register", "again"}
Frames ==
  [what : {"use"}, name : Classes, todo : SUBSET Classes, inEval : BOOLEAN] \cup
  [what : {"class"}, name : Classes, checked : SUBSET (Names \cup {NoName}),
   asked : Names \cup {NoName}, super : Names, pc : Pcs, queue : Seq(Names)]

TypeOK ==
  /\ text \in Texts
  /\ registered \subseteq Names /\ NSObject \in registered
  /\ superOf \in [registered \ {NSObject} -> Names]
  /\ isa \in [Classes -> Seq(Names)]
  /\ module \in [Classes -> {"new", "loading", "loaded", "broken"}]
  /\ added \in [Classes -> Nat]
  /\ it \in [name : Names \cup {NoName}, by : Nat]
  /\ stack \in Seq(Frames)

Init ==
  /\ text \in Texts
  /\ registered = {NSObject} /\ superOf = <<>>
  /\ isa = [c \in Classes |-> <<>>]
  /\ module = [c \in Classes |-> "new"]
  /\ added = [c \in Classes |-> 0]
  /\ it = [name |-> NoName, by |-> 0]
  /\ stack = <<>>
----------------------------------------------------------------------------
Idle == stack = <<>>
Top  == Last(stack)
Running(what) == ~Idle /\ Top.what = what
At(pc) == Running("class") /\ Top.pc = pc
Becomes(f) == stack' = Append(Front(stack), f)

\* use C, or nothing if C.pm has been or is being loaded.
Load(c, inEval, below) ==
  IF c \in Classes /\ module[c] = "new"
  THEN /\ stack' = Append(below, UseFrame(c, inEval))
       /\ module' = [module EXCEPT ![c] = "loading"]
  ELSE stack' = below /\ UNCHANGED module

\* objc_getClass(c): the class handler evaluates "use C" and hides an error
\* of it; below is what goes on afterwards.
objc_getClass(c, below) ==
  IF c \in registered THEN stack' = below /\ UNCHANGED module
                      ELSE Load(c, TRUE, below)

\* The class() call goes on at pc.
GoesOn(pc) == Append(Front(stack), [Top EXCEPT !.pc = pc])
----------------------------------------------------------------------------
(* Mistakes class() could make.                                             *)

\* A class that is not registered is left in the queue.
ClassAsks_Stuck ==
  /\ At("asked")
  /\ Becomes(IF Top.asked \in registered
             THEN [Top EXCEPT !.pc = "isa", !.super = it.name]
             ELSE [Top EXCEPT !.pc = "search", !.queue = <<Top.asked>> \o @])
  /\ UNCHANGED <<text, module, it, classes>>

\* No default when $_ is undefined.
ClassAsks_NoDefault ==
  /\ At("asked")
  /\ Becomes(IF Top.asked \in registered
             THEN [Top EXCEPT !.pc = "isa", !.super = it.name]
             ELSE [Top EXCEPT !.pc = "search", !.checked = @ \cup {it.name}])
  /\ UNCHANGED <<text, module, it, classes>>

\* The search goes on after the first registered class.
ClassAsks_NoLast ==
  /\ At("asked")
  /\ Becomes([Top EXCEPT !.pc = "search", !.checked = @ \cup {it.name},
       !.super = IF Top.asked \in registered /\ it.name # NoName THEN it.name ELSE @,
       !.queue = @ \o (IF it.name \in Classes THEN isa[it.name] ELSE <<>>)])
  /\ UNCHANGED <<text, module, it, classes>>

\* The superclass is not looked up before it is made the superclass.
CBRegister_Unchecked ==
  /\ At("register")
  /\ registered' = registered \cup {Top.name}
  /\ superOf' = [c \in registered' \ {NSObject} |->
                   IF c \in registered THEN superOf[c] ELSE Top.super]
  /\ objc_getClass(Top.name, GoesOn("again"))
  /\ UNCHANGED <<text, isa, added, it>>

\* An existing class is registered again.
CBRegister_Again ==
  /\ At("register")
  /\ IF Top.super \in registered
     THEN /\ registered' = registered \cup {Top.name}
          /\ superOf' = [c \in registered' \ {NSObject} |->
                           IF c = Top.name THEN Top.super ELSE superOf[c]]
          /\ stack' = GoesOn("again") /\ UNCHANGED module
     ELSE objc_getClass(Top.name, GoesOn("again")) /\ UNCHANGED <<registered, superOf>>
  /\ UNCHANGED <<text, isa, added, it>>

\* The call ends when it has registered its class.
CBRegister_Ends ==
  /\ At("register")
  /\ IF Top.name \notin registered /\ Top.super \in registered
     THEN /\ registered' = registered \cup {Top.name}
          /\ superOf' = [c \in registered' \ {NSObject} |->
                           IF c \in registered THEN superOf[c] ELSE Top.super]
          /\ stack' = Front(stack) /\ UNCHANGED module
     ELSE objc_getClass(Top.name, GoesOn("again")) /\ UNCHANGED <<registered, superOf>>
  /\ UNCHANGED <<text, isa, added, it>>

\* @ISA is left alone.
ClassSetsIsa_Never ==
  /\ At("isa")
  /\ objc_getClass(Top.name, GoesOn("register"))
  /\ UNCHANGED <<text, it, classes>>
----------------------------------------------------------------------------
\* Somebody needs class c: a nib that holds an instance, NSClassFromString,
\* a script that uses the module.
Asks(c) ==
  /\ Idle
  /\ module[c] = "new"
  /\ objc_getClass(c, <<>>)
  /\ UNCHANGED <<text, it, classes>>

\* A script calls class() once more for a class whose module is loaded.
ClassAgain(c) ==
  /\ Idle
  /\ module[c] = "loaded" /\ added[c] < MaxAdded
  /\ stack' = <<ClassFrame(c)>>
  /\ UNCHANGED <<text, module, it, classes>>

\* The error leaves every module up to the innermost eval.
Dies ==
  LET caught == {i \in 1 .. Len(stack) : stack[i].what = "use" /\ stack[i].inEval}
      k == CHOOSE i \in caught : \A j \in caught : j <= i
      left == {stack[i].name : i \in {j \in k .. Len(stack) : stack[j].what = "use"}}
  IN  /\ stack' = SubSeq(stack, 1, k - 1)
      /\ module' = [c \in Classes |-> IF c \in left THEN "broken" ELSE module[c]]
      /\ UNCHANGED <<text, it, classes>>

\* use statements, while the module is compiled.
ModuleUses ==
  /\ Running("use")
  /\ \E c \in Top.todo :
       \/ module[c] = "broken" /\ Dies
       \/ /\ module[c] # "broken"
          /\ Load(c, FALSE, Append(Front(stack), [Top EXCEPT !.todo = @ \ {c}]))
          /\ UNCHANGED <<text, it, classes>>

ModuleDies == Running("use") /\ Top.todo = {} /\ text[Top.name].dies /\ Dies

\* Its @ISA is set and class() is called; that is the module's last statement.
ModuleCallsClass ==
  /\ Running("use") /\ Top.todo = {} /\ ~text[Top.name].dies
  /\ LET c == Top.name
     IN  /\ isa' = [isa EXCEPT ![c] = IF text[c].explicit THEN @ ELSE <<text[c].parent>>]
         /\ module' = [module EXCEPT ![c] = "loaded"]
         /\ Becomes([ClassFrame(c) EXCEPT !.queue = IF text[c].explicit THEN @ ELSE isa'[c]])
  /\ UNCHANGED <<text, registered, superOf, added, it>>
----------------------------------------------------------------------------
(* class()                                                                  *)

\* The superclass is the one given, or the first registered class that is
\* reached through @ISA, or NSObject: while ($_ = shift @isas).
ClassSearches ==
  /\ At("search")
  /\ LET h == IF Top.queue = <<>> THEN NoName ELSE Head(Top.queue)
     IN  /\ it' = [name |-> h, by |-> Len(stack)]
         /\ \/ h = NoName /\ stack' = GoesOn("isa") /\ UNCHANGED module
            \/ /\ h \in Top.checked \ {NoName}
               /\ Becomes([Top EXCEPT !.queue = Tail(@)])
               /\ UNCHANGED module
            \/ /\ h \notin Top.checked \cup {NoName}
               /\ objc_getClass(h, Append(Front(stack),
                    [Top EXCEPT !.pc = "asked", !.asked = h, !.queue = Tail(@)]))
  /\ UNCHANGED <<text, classes>>

\* The answer.  The runtime was given the address of the text of $_: if $_
\* was set again while a module was loaded, it now reads the name asked for,
\* the new one, or whatever is in the freed memory.  What class() takes for
\* the superclass, or marks as checked, is what $_ holds now.
ClassAsks ==
  /\ At("asked")
  /\ \E name \in IF it.by = Len(stack) THEN {Top.asked} ELSE {Top.asked, it.name, NoName} :
       Becomes(IF name \in registered
               THEN [Top EXCEPT !.pc = "isa", !.super = IF it.name = NoName THEN NSObject ELSE it.name]
               ELSE [Top EXCEPT !.pc = "search", !.checked = @ \cup {it.name},
                       !.queue = @ \o (IF it.name \in Classes THEN isa[it.name] ELSE <<>>)])
  /\ UNCHANGED <<text, module, it, classes>>

\* @ISA gets the superclass unless some class in it matches the name.  Then
\* the runtime is asked for the class itself.
ClassSetsIsa ==
  /\ At("isa")
  /\ LET c == Top.name
         matches == \E d \in Range(isa[c]) : d = Top.super \/ <<d, Top.super>> \in NameParts
     IN  isa' = [isa EXCEPT ![c] = IF matches THEN @ ELSE Append(@, Top.super)]
  /\ objc_getClass(Top.name, GoesOn("register"))
  /\ UNCHANGED <<text, registered, superOf, added, it>>

\* CBRegisterClassWithSuperClass gives up if it finds no superclass, or the
\* class; it only looks (objc_lookUpClass) and does not call the handler.
\* The runtime is asked for the class again.
CBRegister ==
  /\ At("register")
  /\ IF Top.name \notin registered /\ Top.super \in registered
     THEN /\ registered' = registered \cup {Top.name}
          /\ superOf' = [c \in registered' \ {NSObject} |->
                           IF c \in registered THEN superOf[c] ELSE Top.super]
          /\ stack' = GoesOn("again") /\ UNCHANGED module
     ELSE objc_getClass(Top.name, GoesOn("again")) /\ UNCHANGED <<registered, superOf>>
  /\ UNCHANGED <<text, isa, added, it>>

\* The exports are added to the methods of a registered class.
CBRegisterMethods ==
  /\ At("again")
  /\ added' = [added EXCEPT ![Top.name] = IF Top.name \in registered THEN @ + 1 ELSE @]
  /\ stack' = Front(stack)
  /\ UNCHANGED <<text, registered, superOf, isa, module, it>>

Loads == ModuleUses \/ ModuleDies \/ ModuleCallsClass
Class == ClassSearches \/ ClassAsks \/ ClassSetsIsa \/ CBRegister \/ CBRegisterMethods

AllLoaded == Idle /\ (\A c \in Classes : module[c] # "new") /\ UNCHANGED vars

Next == \/ \E c \in Classes : Asks(c) \/ ClassAgain(c)
        \/ Loads \/ Class
        \/ AllLoaded

Spec == Init /\ [][Next]_vars

\* Loading is one thread's straight-line code.
FairSpec == Spec /\ WF_vars(Loads \/ Class)
----------------------------------------------------------------------------
(* Properties                                                               *)

\* The runtime's classes form a tree under NSObject: every superclass is
\* registered, and there is no cycle, whatever the modules say.
Rooted ==
  /\ \A c \in registered \ {NSObject} : superOf[c] \in registered
  /\ \A S \in SUBSET (registered \ {NSObject}) : S # {} => \E c \in S : superOf[c] \notin S

\* Perl finds the methods of a class's superclass: @ISA has the superclass
\* the runtime has, but for one case, which is a mistake of line 203: @ISA has
\* another class whose name contains the superclass's.
PerlSeesSuper ==
  \A c \in registered \ {NSObject} :
    \E d \in Range(isa[c]) : d = superOf[c] \/ <<d, superOf[c]>> \in NameParts

\* A class keeps the superclass it was registered with.
SuperIsFinal ==
  [][\A c \in registered \ {NSObject} : c \in registered' /\ superOf'[c] = superOf[c]]_vars

(***************************************************************************)
(* Parents   the superclass the module of each class names.                *)
(* Needs     the classes whose modules may be loaded while its own is: it  *)
(*           uses them, or class() finds them in @ISA, where it also puts  *)
(*           the 'super' it is given.                                      *)
(***************************************************************************)
Parents == [c \in Classes |-> {text[c].parent}]
Needs   == [c \in Classes |-> text[c].uses \cup {text[c].parent}]

\* The names reached from n in any number of steps.
Closed(S, R) == \A c \in S \cap Classes : R[c] \subseteq S
Reached(n, R) == {m \in Names : \A S \in SUBSET Names : n \in S /\ Closed(S, R) => m \in S}

\* When class() was called for c, its parent's class may not have been there:
\* c's module does not use the parent's, or the parent's needs c's.
ParentIsLate(c) ==
  LET p == text[c].parent
  IN  p # NSObject /\ (p \notin text[c].uses \/ c \in Reached(p, Needs))

\* A class whose module uses its parent's, and so on up to NSObject, has in
\* the runtime the superclass its module names, whatever else is loaded.
HierarchyAsUsed ==
  Idle => \A c \in Classes :
    module[c] = "loaded" =>
      \/ c \in registered /\ superOf[c] = text[c].parent
      \/ \E a \in Reached(c, Parents) \cap Classes : ParentIsLate(a)

\* class() looks "for first registered class in @ISA" (CamelBones.pm:180):
\* when the search is over and the first class of @ISA is registered, it is
\* the superclass.
FirstRegisteredIsSuper ==
  At("isa") /\ ~text[Top.name].explicit =>
    (Head(isa[Top.name]) \in registered => Top.super = Head(isa[Top.name]))

\* Modules that use each other, and classes that are each other's parents,
\* are loaded without going round in circles.
LoadingEnds == ~Idle ~> Idle

\* No class is left without its methods: whoever registers a class also adds
\* what its package exports, although the asking for it may load modules in
\* between, and these may fail.
MethodsFollow == Idle => \A c \in registered \ {NSObject} : added[c] > 0
=============================================================================
