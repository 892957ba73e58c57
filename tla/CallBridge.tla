----------------------------- MODULE CallBridge -----------------------------
(***************************************************************************)
(* The two call gates between Perl and Objective-C and the way errors and  *)
(* the Perl interpreter's stacks pass through them:                        *)
(*                                                                         *)
(*   REAL_CBPerlIMP          (PerlMethods.m)   native code calls a Perl    *)
(*                                             method,                     *)
(*   -[CBPerl eval:]         (CBPerl.m)        native code evaluates Perl, *)
(*   REAL_CBCallNativeMethod (NativeMethods.m) Perl calls a native method. *)
(*                                                                         *)
(* One thread.  frames is the C stack, outermost first, seen as            *)
(* activations of five kinds:                                              *)
(*   "perl"  a Perl sub, an evaluated string or the main script,           *)
(*   "objc"  a native method or the application's event loop,              *)
(*   "imp", "eval", "call"  the three gates above.                         *)
(* What Perl code and native methods do between two calls is theirs to     *)
(* choose; what the gates do is translated from the source.                *)
(***************************************************************************)
EXTENDS Naturals, Sequences

CONSTANTS
  Dies,        \* values Perl code dies with
  FalseDies,   \* those of them that Perl tests as false
  MaxDepth,    \* bound: activations on the stack
  MaxScope,    \* bound: depth of the interpreter's scope stack
  MaxSlots     \* bound: values on the interpreter's argument stack

ASSUME DiesAssumption   == FalseDies \subseteq Dies
ASSUME BoundsAssumption == MaxDepth \in Nat /\ MaxScope \in Nat /\ MaxSlots \in Nat

VARIABLES
  frames,   \* the activations
  mode,     \* "run"; "die" (a Perl error unwinds); "raise" (an NSException);
            \* "exit"; "astray" (control is in an activation that is gone)
  errsv,    \* $@
  scope,    \* PL_scopestack_ix: ENTERs without their LEAVE
  slots     \* PL_stack_sp: values on the argument stack

vars == <<frames, mode, errsv, scope, slots>>

----------------------------------------------------------------------------
NoErr == [tag |-> "none"]
DieValue == [tag : {"value"}, of : Dies]
\* Messages the gates croak with: Died., Call to unknown method, and Perl's
\* own Can't locate object method.
Croaks == [tag : {"Died", "unknown method", "no such method"}]
Errors == {NoErr} \cup DieValue \cup Croaks

\* SvTRUE(ERRSV)
SvTRUE(e) == e # NoErr /\ (e.tag = "value" => e.of \notin FalseDies)

Modes  == {"run", "die", "raise", "exit", "astray"}
Kinds  == {"perl", "objc", "imp", "eval", "call"}
Points == {"args", "during", "after", "body", "lost"}

(***************************************************************************)
(* pc     where a gate is: "args" before its call, "during" in it,         *)
(*        "after" when it has returned.  Other activations are at "body";  *)
(*        Perl code that the interpreter can no longer resume is "lost".   *)
(* guard  the activation has an eval block, or an NS_DURING block, open.   *)
(* base, sp  scope and slots when the activation began.                    *)
(* mark   scope when the eval block was opened.                            *)
(* swallowed  the activation, or one it called without Perl in between,    *)
(*        has handled an NSException itself.                               *)
(***************************************************************************)
Frame == [kind : Kinds, pc : Points, guard : BOOLEAN,
          base : Nat, sp : Nat, mark : Nat, swallowed : BOOLEAN]

NewFrame(kind, pc, atScope, atSlots) ==
  [kind |-> kind, pc |-> pc, guard |-> FALSE, base |-> atScope, sp |-> atSlots,
   mark |-> 0, swallowed |-> FALSE]

Top    == frames[Len(frames)]
Caller == frames[Len(frames) - 1]
Below  == SubSeq(frames, 1, Len(frames) - 1)

\* The innermost activation calls f, goes on as f, goes on as f while its
\* callee g runs, ends, or ends and its caller goes on as f.
Push(f)     == frames' = Append(frames, f)
Become(f)   == frames' = [frames EXCEPT ![Len(frames)] = f]
Await(f, g) == frames' = Append([frames EXCEPT ![Len(frames)] = f], g)
Pop         == frames' = Below
PopTo(f)    == frames' = [Below EXCEPT ![Len(frames) - 1] = f]

\* The activation f at another point of itself, or with its handler opened
\* or closed.
Resumed(f, pc, swallowed) ==
  [kind |-> f.kind, pc |-> pc, guard |-> f.guard, base |-> f.base, sp |-> f.sp,
   mark |-> f.mark, swallowed |-> swallowed]
At(f, pc) == Resumed(f, pc, f.swallowed)
Guarded(f, guard, mark, swallowed) ==
  [kind |-> f.kind, pc |-> f.pc, guard |-> guard, base |-> f.base, sp |-> f.sp,
   mark |-> mark, swallowed |-> swallowed]

\* The activations s when an exception has passed over the Perl code above
\* them: the interpreter still holds the contexts of that code, so the next
\* Perl activation further out cannot be resumed.
Buried(s) == [i \in 1 .. Len(s) |-> IF i = Len(s) - 2 THEN At(s[i], "lost") ELSE s[i]]

Running(kind) == mode = "run" /\ Top.kind = kind
Room(n) == Len(frames) + n <= MaxDepth /\ scope < MaxScope /\ slots < MaxSlots
HoldsScope(f) == f.kind \in {"imp", "call"}

TypeOK ==
  /\ frames \in Seq(Frame) /\ Len(frames) > 0
  /\ mode \in Modes
  /\ errsv \in Errors
  /\ scope \in Nat /\ slots \in Nat

\* The program is a Perl script that uses CamelBones, or a Cocoa application.
Init ==
  /\ \E kind \in {"perl", "objc"} : frames = <<NewFrame(kind, "body", 0, 0)>>
  /\ mode = "run" /\ errsv = NoErr /\ scope = 0 /\ slots = 0

----------------------------------------------------------------------------
(* Mistakes the gates could have: each must break a property below.         *)

\* ENTER forgotten.
ImpEnters_NoENTER ==
  /\ Running("objc") /\ Room(2)
  /\ Push(NewFrame("imp", "args", scope, slots))
  /\ errsv' = NoErr
  /\ UNCHANGED <<mode, scope, slots>>

\* LEAVE written twice.
ImpReturns_LEAVETwice ==
  /\ Running("imp") /\ Top.pc = "after" /\ ~SvTRUE(errsv)
  /\ Pop
  /\ scope' = scope - 2
  /\ UNCHANGED <<mode, errsv, slots>>

\* LEAVE forgotten.
ImpReturns_NoLEAVE ==
  /\ Running("imp") /\ Top.pc = "after" /\ ~SvTRUE(errsv)
  /\ Pop
  /\ UNCHANGED <<mode, errsv, scope, slots>>

\* $@ not checked after call_method.
ImpReturns_Unchecked ==
  /\ Running("imp") /\ Top.pc = "after"
  /\ Pop
  /\ scope' = scope - 1
  /\ UNCHANGED <<mode, errsv, slots>>

\* call_method without G_EVAL.
DieReachesGate_NoGEVAL ==
  /\ mode = "die" /\ Top.kind = "perl" /\ ~Top.guard /\ Len(frames) > 1
  /\ Pop
  /\ UNCHANGED <<mode, errsv, scope, slots>>

\* The stack pointer of the callbacks is kept: no XSRETURN.
CallReturns_KeepsSlots ==
  /\ Running("call") /\ Top.pc = "after" /\ Caller.pc # "lost"
  /\ PopTo(Resumed(Caller, "body", Caller.swallowed \/ Top.swallowed))
  /\ scope' = scope - 1
  /\ UNCHANGED <<mode, errsv, slots>>

\* The handler raises the exception again instead of croaking.
CallHandlesException_Reraises ==
  /\ mode = "raise" /\ Top.kind = "call" /\ Top.pc = "during" /\ Caller.pc # "lost"
  /\ errsv' = [tag |-> "Died"]
  /\ UNCHANGED <<frames, mode, scope, slots>>
----------------------------------------------------------------------------
(* Perl code (the interpreter, used by src/ as perlcall describes)          *)

\* eval { : pp_entertry saves the scope and clears $@.
PerlOpensEval ==
  /\ Running("perl") /\ ~Top.guard
  /\ Become(Guarded(Top, TRUE, scope, Top.swallowed))
  /\ errsv' = NoErr
  /\ UNCHANGED <<mode, scope, slots>>

\* } of an eval block that did not fail.
PerlClosesEval ==
  /\ Running("perl") /\ Top.guard
  /\ Become(Guarded(Top, FALSE, 0, Top.swallowed))
  /\ errsv' = NoErr
  /\ scope' = Top.mark
  /\ UNCHANGED <<mode, slots>>

PerlDies ==
  /\ Running("perl")
  /\ \E d \in DieValue : errsv' = d
  /\ mode' = "die"
  /\ UNCHANGED <<frames, scope, slots>>

\* A sub returns to the gate that called it: the interpreter restores the
\* scope, leaves the one result on the argument stack and clears $@.
PerlReturns ==
  /\ Running("perl") /\ ~Top.guard /\ Len(frames) > 1
  /\ PopTo(At(Caller, "after"))
  /\ scope' = Top.base
  /\ slots' = Top.sp + 1
  /\ errsv' = NoErr
  /\ UNCHANGED mode

ProgramEnds ==
  /\ mode = "run" /\ Len(frames) = 1 /\ ~Top.guard
  /\ mode' = "exit"
  /\ UNCHANGED <<frames, errsv, scope, slots>>

(* Native code                                                              *)
NativeOpensHandler ==
  /\ Running("objc") /\ ~Top.guard
  /\ Become(Guarded(Top, TRUE, 0, Top.swallowed))
  /\ UNCHANGED <<mode, errsv, scope, slots>>

NativeClosesHandler ==
  /\ Running("objc") /\ Top.guard
  /\ Become(Guarded(Top, FALSE, 0, Top.swallowed))
  /\ UNCHANGED <<mode, errsv, scope, slots>>

NativeRaises ==
  /\ Running("objc")
  /\ mode' = "raise"
  /\ UNCHANGED <<frames, errsv, scope, slots>>

NativeReturns ==
  /\ Running("objc") /\ ~Top.guard /\ Len(frames) > 1
  /\ PopTo(Resumed(Caller, "after", Caller.swallowed \/ Top.swallowed))
  /\ UNCHANGED <<mode, errsv, scope, slots>>
----------------------------------------------------------------------------
(* REAL_CBPerlIMP                                                           *)

\* Looking the method's name up evaluates Perl, which clears $@; ENTER.
ImpEnters ==
  /\ Running("objc") /\ Room(2)
  /\ Push(NewFrame("imp", "args", scope, slots))
  /\ scope' = scope + 1
  /\ errsv' = NoErr
  /\ UNCHANGED <<mode, slots>>

\* call_method(methodName, G_EVAL | G_SCALAR)
ImpCalls ==
  /\ Running("imp") /\ Top.pc = "args"
  /\ Await(At(Top, "during"), NewFrame("perl", "body", scope, slots))
  /\ errsv' = NoErr
  /\ UNCHANGED <<mode, scope, slots>>

\* No Perl method answers the selector: call_method fails inside its own eval
\* and leaves undef as the result.
ImpFindsNoMethod ==
  /\ Running("imp") /\ Top.pc = "args"
  /\ Become(At(Top, "after"))
  /\ errsv' = [tag |-> "no such method"]
  /\ slots' = slots + 1
  /\ UNCHANGED <<mode, scope>>

\* The error check raises before FREETMPS and LEAVE.
ImpRaises ==
  /\ Running("imp") /\ Top.pc = "after" /\ SvTRUE(errsv)
  /\ Pop
  /\ mode' = "raise"
  /\ UNCHANGED <<errsv, scope, slots>>

\* The result is popped from a local copy of the stack pointer only.
ImpReturns ==
  /\ Running("imp") /\ Top.pc = "after" /\ ~SvTRUE(errsv)
  /\ Pop
  /\ scope' = scope - 1
  /\ UNCHANGED <<mode, errsv, slots>>

\* A native call of the gate's own raises (messages to self and to what the
\* parameters are, a class or selector that Perl did not name by a string):
\* there is no LEAVE, as in ImpRaises.
ImpConversionRaises ==
  /\ Running("imp") /\ Top.pc \in {"args", "after"}
  /\ Top.pc = "after" => ~SvTRUE(errsv)
  /\ Pop
  /\ mode' = "raise"
  /\ UNCHANGED <<errsv, scope, slots>>

\* Reading the result as a number or a string runs Perl code (overloading)
\* outside of any G_EVAL, and that code dies: the interpreter jumps to the
\* Perl code further out, over native code whose NS_DURING blocks stay
\* registered, or ends the program if there is none.
ImpConversionDies ==
  /\ Running("imp") /\ Top.pc = "after" /\ ~SvTRUE(errsv)
  /\ mode' \in IF Len(frames) = 2 THEN {"exit", "astray"} ELSE {"astray"}
  /\ UNCHANGED <<frames, errsv, scope, slots>>

(* -[CBPerl eval:]                                                          *)
EvalEnters ==
  /\ Running("objc") /\ Room(2)
  /\ frames' = frames \o <<NewFrame("eval", "during", scope, slots),
                           NewFrame("perl", "body", scope, slots)>>
  /\ errsv' = NoErr
  /\ UNCHANGED <<mode, scope, slots>>

EvalRaises ==
  /\ Running("eval") /\ Top.pc = "after" /\ SvTRUE(errsv)
  /\ Pop
  /\ mode' = "raise"
  /\ slots' = Top.sp
  /\ UNCHANGED <<errsv, scope>>

EvalReturns ==
  /\ Running("eval") /\ Top.pc = "after" /\ ~SvTRUE(errsv)
  /\ Pop
  /\ slots' = Top.sp
  /\ UNCHANGED <<mode, errsv, scope>>

(* REAL_CBCallNativeMethod                                                  *)
CallEnters ==
  /\ Running("perl") /\ Room(1)
  /\ Push(NewFrame("call", "args", scope, slots))
  /\ scope' = scope + 1
  /\ UNCHANGED <<mode, errsv, slots>>

CallUnknownMethod ==
  /\ Running("call") /\ Top.pc = "args"
  /\ errsv' = [tag |-> "unknown method"]
  /\ mode' = "die"
  /\ UNCHANGED <<frames, scope, slots>>

\* An argument or return type it does not know: it gives up and returns nil.
CallRefuses ==
  /\ Running("call") /\ Top.pc = "args"
  /\ Pop
  /\ scope' = scope - 1
  /\ UNCHANGED <<mode, errsv, slots>>

\* The native calls of the gate's own are outside of NS_DURING: looking the
\* signature up, converting arguments, converting the result.  An exception
\* there goes to the innermost NS_DURING further out.  It passes over the Perl
\* code that made the call, its eval blocks and the gate that called it, and
\* the interpreter unwinds nothing of them.
CallConversionRaises ==
  /\ Running("call") /\ Top.pc \in {"args", "after"}
  /\ \/ /\ Len(frames) = 2
        /\ mode' = "exit"
        /\ UNCHANGED frames
     \/ /\ Len(frames) > 2
        /\ mode' = "raise"
        /\ frames' = Buried(SubSeq(frames, 1, Len(frames) - 3))
  /\ UNCHANGED <<errsv, scope, slots>>

\* NS_DURING ffi_call(...)
CallInvokes ==
  /\ Running("call") /\ Top.pc = "args" /\ Len(frames) < MaxDepth
  /\ Await(At(Top, "during"), NewFrame("objc", "body", scope, slots))
  /\ UNCHANGED <<mode, errsv, scope, slots>>

\* Output arguments and the return value are converted; XSRETURN(1).
CallReturns ==
  /\ Running("call") /\ Top.pc = "after" /\ Caller.pc # "lost"
  /\ PopTo(Resumed(Caller, "body", Caller.swallowed \/ Top.swallowed))
  /\ scope' = scope - 1
  /\ slots' = Top.sp
  /\ UNCHANGED <<mode, errsv>>

\* NS_HANDLER: $@ is set to the exception and then, by croak, to Died.
CallHandlesException ==
  /\ mode = "raise" /\ Top.kind = "call" /\ Top.pc = "during" /\ Caller.pc # "lost"
  /\ errsv' = [tag |-> "Died"]
  /\ mode' = "die"
  /\ UNCHANGED <<frames, scope, slots>>

\* The gate returns to, or croaks into, Perl code that is lost: the
\* interpreter goes on in the contexts that were passed over, with frames of
\* the C stack that are gone.
CallGoesAstray ==
  /\ Top.kind = "call" /\ Caller.pc = "lost"
  /\ \/ mode = "run" /\ Top.pc = "after"
     \/ mode = "raise" /\ Top.pc = "during"
  /\ mode' = "astray"
  /\ UNCHANGED <<frames, errsv, scope, slots>>
----------------------------------------------------------------------------
(* Unwinding                                                                *)

\* A Perl error leaves the C frame of a native call (longjmp).
DieLeavesCall ==
  /\ mode = "die" /\ Top.kind = "call"
  /\ Pop
  /\ UNCHANGED <<mode, errsv, scope, slots>>

DieReachesEval ==
  /\ mode = "die" /\ Top.kind = "perl" /\ Top.guard
  /\ Become(Guarded(Top, FALSE, 0, Top.swallowed))
  /\ mode' = "run"
  /\ scope' = Top.mark
  /\ slots' = Top.sp
  /\ UNCHANGED errsv

\* G_EVAL: the gate regains control, with undef as the result and $@ set.
DieReachesGate ==
  /\ mode = "die" /\ Top.kind = "perl" /\ ~Top.guard /\ Len(frames) > 1
  /\ PopTo(At(Caller, "after"))
  /\ mode' = "run"
  /\ scope' = Top.base
  /\ slots' = Top.sp + 1
  /\ UNCHANGED errsv

RaiseLeavesNative ==
  /\ mode = "raise" /\ Top.kind = "objc" /\ ~Top.guard /\ Len(frames) > 1
  /\ Pop
  /\ UNCHANGED <<mode, errsv, scope, slots>>

RaiseReachesHandler ==
  /\ mode = "raise" /\ Top.kind = "objc" /\ Top.guard
  /\ Become(Guarded(Top, FALSE, 0, TRUE))
  /\ mode' = "run"
  /\ UNCHANGED <<errsv, scope, slots>>

\* Nothing is left to handle the error.
ErrorEndsProgram ==
  /\ mode \in {"die", "raise"} /\ Len(frames) = 1 /\ ~Top.guard
  /\ mode' = "exit"
  /\ UNCHANGED <<frames, errsv, scope, slots>>
----------------------------------------------------------------------------
Perl   == PerlOpensEval \/ PerlClosesEval \/ PerlDies \/ PerlReturns \/ ProgramEnds
Native == NativeOpensHandler \/ NativeClosesHandler \/ NativeRaises \/ NativeReturns
Imp    == \/ ImpEnters \/ ImpCalls \/ ImpFindsNoMethod \/ ImpRaises \/ ImpReturns
          \/ ImpConversionRaises \/ ImpConversionDies
Eval   == EvalEnters \/ EvalRaises \/ EvalReturns
Call   == \/ CallEnters \/ CallUnknownMethod \/ CallRefuses \/ CallInvokes
          \/ CallReturns \/ CallHandlesException \/ CallConversionRaises \/ CallGoesAstray
Unwind == \/ DieLeavesCall \/ DieReachesEval \/ DieReachesGate
          \/ RaiseLeavesNative \/ RaiseReachesHandler \/ ErrorEndsProgram
Exited == mode \in {"exit", "astray"} /\ UNCHANGED vars

Next == Perl \/ Native \/ Imp \/ Eval \/ Call \/ Unwind \/ Exited

Spec == Init /\ [][Next]_vars

\* Unwinding and the gates' error checks are straight-line code that runs to
\* its end; what Perl code and native methods do is left to them.
FairSpec ==
  Spec /\ WF_vars(Unwind \/ CallHandlesException \/ CallGoesAstray \/ ImpRaises \/ EvalRaises)
----------------------------------------------------------------------------
(* Properties                                                               *)

\* Which activation may directly call which.
Calls == {<<"objc", "imp">>, <<"objc", "eval">>, <<"imp", "perl">>,
          <<"eval", "perl">>, <<"perl", "call">>, <<"call", "objc">>}
Gates == {"imp", "eval", "call"}

\* The gates are crossed in their order, a gate with a callee waits for it,
\* and what Perl code or a native method fails with never unwinds code of the
\* other language: a Perl error stops at call_method's G_EVAL, an NSException
\* at CBCallNativeMethod's NS_HANDLER.  Only the gates' own conversions can
\* fail outside of these two, and after such a failure the order of the gates
\* still holds, up to the point where control returns to Perl code that is
\* lost; no lost code ever runs, and none is met by an error.
WellNested ==
  /\ frames[1].kind \in {"perl", "objc"}
  /\ \A i \in 1 .. Len(frames) - 1 :
       /\ <<frames[i].kind, frames[i + 1].kind>> \in Calls
       /\ frames[i].kind \in Gates => frames[i].pc = "during"
  /\ mode = "run"   => (Top.kind \in Gates => Top.pc # "during")
  /\ mode = "die"   => Top.kind \in {"perl", "call"}
  /\ mode = "raise" => \/ Top.kind = "objc"
                       \/ Top.kind = "call" /\ Top.pc = "during"
  /\ Top.pc # "lost"
  /\ mode = "die" /\ Top.kind = "call" => Caller.pc # "lost"

\* The scope an activation relies on: what it restores or leaves at its end.
Floor(f) == IF f.kind = "perl" /\ f.guard THEN f.mark
            ELSE IF HoldsScope(f) THEN f.base + 1 ELSE f.base

\* No gate's LEAVE closes a scope that somebody else opened: at every point
\* of every nesting the interpreter's scope stack still holds the scopes of
\* all pending activations.
ScopesHeld ==
  /\ \A i \in 1 .. Len(frames) : Floor(frames[i]) >= frames[i].base
  /\ \A i \in 1 .. Len(frames) - 1 : frames[i + 1].base >= Floor(frames[i])
  /\ scope >= Floor(Top)

\* The scope that ImpRaises leaves open stays open only where native code
\* swallowed the exception: whatever runs on a deeper scope stack than it
\* accounts for has handled an NSException itself or called code that has.
LeakNeedsSwallow ==
  /\ \A i \in 1 .. Len(frames) - 1 :
       frames[i + 1].base > Floor(frames[i]) => frames[i].swallowed
  /\ \A i \in 1 .. Len(frames) :
       frames[i].kind = "perl" /\ frames[i].guard /\ frames[i].mark > frames[i].base
         => frames[i].swallowed
  /\ mode = "run" /\ scope > Floor(Top) => Top.swallowed

\* Every CBPerlIMP leaves a value on the argument stack, but Perl code never
\* meets it: Perl code resumes with the argument stack it had.
ArgStackIntact ==
  /\ \A i \in 1 .. Len(frames) - 1 :
       /\ frames[i + 1].sp >= frames[i].sp
       /\ frames[i].kind = "perl" => frames[i + 1].sp = frames[i].sp
  /\ slots >= Top.sp
  /\ mode = "run" /\ Top.kind = "perl" => slots = Top.sp

\* A CBPerlIMP that returns normally leaves the scope stack as it found it,
\* whatever was raised, swallowed or leaked underneath it.
ImpBalanced == [][ImpReturns => scope' = Top.base]_vars

----------------------------------------------------------------------------
(* The promise of ErrorPropagation: the gates are not activations of it.    *)
IsCode(f) == f.kind \in {"perl", "objc"}
Activated(f) == [lang |-> IF f.kind = "perl" THEN "perl" ELSE "native",
                 handles |-> f.guard, lost |-> f.pc = "lost"]

\* The activations of s that are not gates.
CodeOf(s) ==
  LET code[n \in 0 .. Len(s)] ==
        IF n = 0 THEN <<>>
        ELSE IF IsCode(s[n]) THEN Append(code[n - 1], Activated(s[n])) ELSE code[n - 1]
  IN  code[Len(s)]

Failing == \/ mode \in {"die", "raise"}
           \/ mode = "run" /\ Top.kind \in {"imp", "eval"} /\ Top.pc = "after" /\ SvTRUE(errsv)
Status == CASE mode = "exit" -> "over"
            [] mode = "astray" -> "astray"
            [] mode = "die" /\ ~SvTRUE(errsv) -> "weak"
            [] OTHER -> IF Failing THEN "fail" ELSE "run"

Promise == INSTANCE ErrorPropagation WITH calls <- CodeOf(frames), status <- Status

\* The gates implement the promise: every error that Perl code or a native
\* method fails with goes to the innermost handler of either language; an error
\* of the conversions goes where the promise says, and nothing is ever resumed
\* that it has made impossible to resume.
PropagatesErrors == Promise!Spec

\* No error is stuck between the languages.
ErrorsSettle == Promise!ErrorsSettle
=============================================================================
