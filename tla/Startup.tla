------------------------------ MODULE Startup ------------------------------
(***************************************************************************)
(* How the one CBPerl object comes to be (CBPerl.m), in either kind of     *)
(* program: a native one calls +sharedPerl, which makes an interpreter     *)
(* (init); in a Perl one, "use CamelBones" (CamelBones.xs) adopts the      *)
(* interpreter that is running (initXS).  A native program's main.pl uses  *)
(* CamelBones as well, so initXS is called in it too; and a module that    *)
(* Perl loads when an interpreter starts can use CamelBones while init has *)
(* not come further than perl_parse.                                       *)
(*                                                                         *)
(* What the object must do before the program may rely on it: give each    *)
(* class that the runtime has an @ISA (Runtime.m), listen for bundles that *)
(* bring more classes, and register the handler that looks for missing     *)
(* ones.  Perl's evals on the way can fail, with an exception, and so can  *)
(* those for a bundle: "use lib '...'" does for a path with an apostrophe. *)
(*                                                                         *)
(* There is one thread, and stack is what it is doing.                     *)
(***************************************************************************)
EXTENDS Naturals, Sequences, SequencesExt

CONSTANTS
  Linked,      \* native classes that are there from the beginning
  Bundled,     \* those that a bundle brings, one bundle each
  Registered,  \* classes that Perl code registers, with a second parent
  Skipped,     \* classes whose name begins with NSObject, NSObject among them
  MaxObjects   \* bound of the CBPerl objects

Classes == Linked \cup Bundled \cup Registered

ASSUME StartupAssumption ==
  /\ Linked \cap (Bundled \cup Registered) = {} /\ Bundled \cap Registered = {}
  /\ Skipped \subseteq Linked \cup Bundled
  /\ MaxObjects \in Nat \ {0}

VARIABLES
  shared,      \* _sharedPerl, the number of an object, or 0
  made,        \* the number of objects that init or initXS has made
  interp,      \* _CBPerlInterpreter, the number of an interpreter, or 0
  running,     \* the number of interpreters
  loaded,      \* the classes in the runtime
  isa,         \* what @ISA of each class has: nothing, its superclass, or that
               \* and the parents that the Perl class has named
  observers,   \* the objects that hear of bundles
  handler,     \* the class handler is registered
  used,        \* CamelBones.pm is in %INC
  failed,      \* what an eval has failed for: a class's bundle, or "start"
               \* for init and initXS
  stack

vars == <<shared, made, interp, running, loaded, isa, observers, handler, used, failed, stack>>
classes == <<loaded, isa>>

(***************************************************************************)
(* kind  "native"  native code that can handle exceptions,                 *)
(*       "perl"    Perl code,                                              *)
(*       "init", "initXS", "bundleDidLoad"                                 *)
(* self  the CBPerl object whose method it is                              *)
(* at    the next step of that method                                      *)
(* new   the class whose bundle was loaded                                 *)
(* to    the objects that have yet to hear of it                           *)
(***************************************************************************)
Steps == {"parse", "share", "eval", "wrap", "observe", "handler", "-"}
Activation == [kind : {"native", "perl", "init", "initXS", "bundleDidLoad"},
               self : 0 .. MaxObjects, at : Steps,
               new : SUBSET Bundled, to : SUBSET (1 .. MaxObjects)]
Frame(kind, self, at) == [kind |-> kind, self |-> self, at |-> at, new |-> {}, to |-> {}]
Code(kind) == Frame(kind, 0, "-")
Notice(new, to) ==
  [kind |-> "bundleDidLoad", self |-> 0, at |-> "-", new |-> new, to |-> to]

TypeOK ==
  /\ shared \in 0 .. MaxObjects /\ made \in 0 .. MaxObjects
  /\ interp \in 0 .. MaxObjects /\ running \in 0 .. MaxObjects
  /\ loaded \subseteq Classes
  /\ isa \in [Classes -> {"nothing", "super", "all"}]
  /\ observers \subseteq 1 .. MaxObjects
  /\ handler \in BOOLEAN /\ used \in BOOLEAN /\ failed \subseteq Bundled \cup {"start"}
  /\ stack \in Seq(Activation)

\* A native program begins in CBApplicationMain, a Perl program in Perl.
Init ==
  /\ shared = 0 /\ made = 0 /\ interp = 0
  /\ \/ stack = <<Code("native")>> /\ running = 0
     \/ stack = <<Code("perl")>> /\ running = 1
  /\ loaded = Linked /\ isa = [c \in Classes |-> "nothing"]
  /\ observers = {} /\ handler = FALSE /\ used = FALSE /\ failed = {}
----------------------------------------------------------------------------
Top == Last(stack)
Runs(kind) == stack # <<>> /\ Top.kind = kind
Starting(at) == stack # <<>> /\ Top.kind \in {"init", "initXS"} /\ Top.at = at
Becomes(f) == stack' = Append(Front(stack), f)
Goes(at) == Becomes(Frame(Top.kind, Top.self, at))
Returns == stack' = Front(stack)
Calls(f) == stack' = Append(stack, f)

\* The @ISA of other classes is lost, a mistake that the next one could have.
Wrapped_Only(cs) == [c \in cs |-> "super"]

\* CBWrapObjectiveCClass clears @ISA and names the superclass.  NSObject keeps
\* an empty @ISA, and so does each class whose name begins like that.
Wrapped(cs) == [c \in Classes |-> IF c \in cs \ Skipped THEN "super" ELSE isa[c]]
----------------------------------------------------------------------------
(* Mistakes the code could contain.                                         *)

\* init is called for each caller.
SharedPerl_Always ==
  /\ Runs("native") /\ made < MaxObjects
  /\ made' = made + 1 /\ running' = running + 1 /\ interp' = running + 1
  /\ Calls(Frame("init", made + 1, "parse"))
  /\ UNCHANGED <<shared, classes, observers, handler, used, failed>>

\* Only the classes that came with the framework are wrapped.
Wrap_Linked ==
  /\ Starting("wrap")
  /\ isa' = Wrapped(Linked)
  /\ Goes("observe")
  /\ UNCHANGED <<shared, made, interp, running, loaded, observers, handler, used, failed>>

\* A bundle makes all classes be wrapped again.
BundleDidLoad_All ==
  /\ Runs("bundleDidLoad")
  /\ isa' = Wrapped(loaded)
  /\ Returns
  /\ UNCHANGED <<shared, made, interp, running, loaded, observers, handler, used, failed>>

\* initXS leaves the class handler to init.
RegisterHandler_InitOnly ==
  /\ Starting("handler")
  /\ handler' = (handler \/ Top.kind = "init")
  /\ Returns
  /\ UNCHANGED <<shared, made, interp, running, classes, observers, used, failed>>
----------------------------------------------------------------------------
(* CBPerl.m                                                                 *)

\* +sharedPerl, when there is none, and init: the interpreter is allocated
\* and constructed.
SharedPerl ==
  /\ Runs("native") /\ shared = 0 /\ made < MaxObjects
  /\ made' = made + 1 /\ running' = running + 1 /\ interp' = running + 1
  /\ Calls(Frame("init", made + 1, "parse"))
  /\ UNCHANGED <<shared, classes, observers, handler, used, failed>>

\* perl_parse and perl_run; a module named in the environment runs first.
EarlyPerl ==
  /\ Starting("parse")
  /\ stack' = Append(Append(Front(stack), Frame(Top.kind, Top.self, "share")), Code("perl"))
  /\ UNCHANGED <<shared, made, interp, running, classes, observers, handler, used, failed>>
Parse ==
  /\ Starting("parse")
  /\ Goes("share")
  /\ UNCHANGED <<shared, made, interp, running, classes, observers, handler, used, failed>>

\* From here on the object is shared, as it must be for the evals.
Share ==
  /\ Starting("share")
  /\ shared' = Top.self /\ interp' = (IF Top.kind = "initXS" THEN running ELSE interp)
  /\ Goes("eval")
  /\ UNCHANGED <<made, running, classes, observers, handler, used, failed>>

\* use Config, use threads, use lib.
Evals ==
  /\ Starting("eval")
  /\ Goes("wrap")
  /\ UNCHANGED <<shared, made, interp, running, classes, observers, handler, used, failed>>

\* -[CBPerl eval:] raises an exception.  Perl code on the stack has no
\* handler for it: native code has, or the program ends.
EvalFails ==
  /\ Starting("eval")
  /\ failed' = failed \cup {"start"}
  /\ stack' = IF stack[1].kind = "native" THEN <<stack[1]>> ELSE <<>>
  /\ UNCHANGED <<shared, made, interp, running, classes, observers, handler, used>>

\* REAL_CBWrapRegisteredClasses.
Wrap ==
  /\ Starting("wrap")
  /\ isa' = Wrapped(loaded)
  /\ Goes("observe")
  /\ UNCHANGED <<shared, made, interp, running, loaded, observers, handler, used, failed>>

Observe ==
  /\ Starting("observe")
  /\ observers' = observers \cup {Top.self}
  /\ Goes("handler")
  /\ UNCHANGED <<shared, made, interp, running, classes, handler, used, failed>>

RegisterHandler ==
  /\ Starting("handler")
  /\ handler' = TRUE
  /\ Returns
  /\ UNCHANGED <<shared, made, interp, running, classes, observers, used, failed>>

\* bundleDidLoad: wraps the classes of the bundle.
BundleDidLoad ==
  /\ Runs("bundleDidLoad")
  /\ isa' = Wrapped(Top.new)
  /\ \E o \in Top.to :
       IF Top.to = {o} THEN Returns ELSE Becomes(Notice(Top.new, Top.to \ {o}))
  /\ UNCHANGED <<shared, made, interp, running, loaded, observers, handler, used, failed>>
\* An eval in it raises an exception: the classes are not wrapped, and no
\* other observer hears of the bundle.  Whoever has loaded it gets the
\* exception, or dies of it.
BundleFails ==
  /\ Runs("bundleDidLoad")
  /\ failed' = failed \cup Top.new
  /\ Returns
  /\ UNCHANGED <<shared, made, interp, running, classes, observers, handler, used>>
----------------------------------------------------------------------------
(* The program                                                              *)

\* Native code runs main.pl, or calls any other Perl code.
RunPerl ==
  /\ Runs("native") /\ shared # 0
  /\ Calls(Code("perl"))
  /\ UNCHANGED <<shared, made, interp, running, classes, observers, handler, used, failed>>

\* Perl code ends.
PerlReturns ==
  /\ Runs("perl") /\ Returns
  /\ UNCHANGED <<shared, made, interp, running, classes, observers, handler, used, failed>>

\* use CamelBones calls CBInit; initXS returns an object that exists.
CBInit ==
  /\ Runs("perl") /\ ~used
  /\ used' = TRUE
  /\ \/ shared # 0 /\ UNCHANGED <<made, stack>>
     \/ /\ shared = 0 /\ made < MaxObjects
        /\ made' = made + 1
        /\ Calls(Frame("initXS", made + 1, "share"))
  /\ UNCHANGED <<shared, interp, running, classes, observers, handler, failed>>

\* A bundle is loaded; each observer hears of it before the call returns.
LoadBundle(b) ==
  /\ Runs("perl") \/ Runs("native")
  /\ b \notin loaded
  /\ loaded' = loaded \cup {b}
  /\ IF observers = {} THEN UNCHANGED stack ELSE Calls(Notice({b}, observers))
  /\ UNCHANGED <<shared, made, interp, running, isa, observers, handler, used, failed>>

\* class() registers a class below a wrapped one.
Register(c) ==
  /\ Runs("perl") /\ used /\ c \notin loaded
  /\ loaded' = loaded \cup {c}
  /\ isa' = [isa EXCEPT ![c] = "all"]
  /\ UNCHANGED <<shared, made, interp, running, observers, handler, used, failed, stack>>

Ended == stack = <<>> /\ UNCHANGED vars

Start == SharedPerl \/ Parse \/ Share \/ Evals \/ Wrap \/ Observe \/ RegisterHandler
Next ==
  \/ Start \/ EarlyPerl \/ EvalFails \/ BundleDidLoad \/ BundleFails
  \/ RunPerl \/ PerlReturns \/ CBInit \/ Ended
  \/ \E b \in Bundled : LoadBundle(b)
  \/ \E c \in Registered : Register(c)

Spec == Init /\ [][Next]_vars
FairSpec == Spec /\ WF_vars(Start)
----------------------------------------------------------------------------
(* Properties                                                               *)

Started == \A i \in DOMAIN stack : stack[i].kind \in {"native", "perl"}

\* There is one interpreter, in whichever way the program starts: even if
\* initXS overtakes init, it adopts the interpreter that init is making.
InterpreterStays == [][interp # 0 => interp' = interp /\ running' = running]_vars

\* The shared object is replaced only by an init that a module has overtaken
\* while the interpreter started.
SharedStays ==
  [][shared # 0 /\ shared' # shared => Top.kind = "init" /\ Top.self < shared]_vars

\* The bridge the program started with is the one it keeps.
BridgeStays == InterpreterStays /\ SharedStays

\* When the class handler is there, so that Perl code can name any class, no
\* class of the runtime lacks its @ISA, no matter when its bundle was loaded:
\* but for one whose bundle has failed, or whose name begins with NSObject.
ClassesWrapped ==
  handler /\ Started =>
    \A c \in loaded : isa[c] = "nothing" => c \in Skipped \/ c \in failed

\* What Perl code has put into the @ISA of its classes is lost only to an init
\* that wraps all classes after a module has registered some.
ParentsStay ==
  [][\A c \in Registered : isa[c] = "all" /\ isa'[c] # "all"
       => Top.kind = "init" /\ made > 1]_vars

\* A shared object that nobody has completed is there only after a failure.
\* (It is not nil, and sharedPerl will not try again.)
HalfStartIsKnown == shared # 0 /\ Started /\ ~handler => "start" \in failed

\* The object that is shared becomes ready, or an eval has failed.
StartEnds == shared # 0 ~> handler \/ "start" \in failed
=============================================================================
