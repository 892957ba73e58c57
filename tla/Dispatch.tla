------------------------------ MODULE Dispatch ------------------------------
(***************************************************************************)
(* Which code answers a method call when a class hierarchy is half native  *)
(* and half Perl, and every class has the method "foo" or inherits it.     *)
(*                                                                         *)
(* Two dispatchers take turns.  Perl looks a name up in the packages along *)
(* @ISA and ends in NSObject::AUTOLOAD (CamelBones.pm), which sends the    *)
(* native message; the Objective-C runtime looks a selector up in the      *)
(* classes and ends in a native method or in REAL_CBPerlIMP, which calls   *)
(* the Perl method of that name.  AUTOLOAD keeps the sub it made in the    *)
(* symbol table, where Perl finds it the next time.                        *)
(*                                                                         *)
(* The classes are one chain 0 .. Leaf, NSObject first; the runtime's      *)
(* superclass and Perl's @ISA agree on it.  One message is followed at a   *)
(* time, with the activations it causes on stack; its receiver is self.    *)
(***************************************************************************)
EXTENDS Naturals, Sequences, SequencesExt, FiniteSetsExt

CONSTANTS
  Leaf,           \* the class at the end of the chain
  FirstPerl,      \* the classes from this one on are registered from Perl
  Nested,         \* those whose package name contains "::"
  CacheAutoload,  \* $CamelBones::CacheAutoload
  MaxDepth        \* the stack overflows beyond this depth

Classes == 0 .. Leaf
Perl    == FirstPerl .. Leaf

ASSUME ChainAssumption == Leaf \in Nat /\ FirstPerl \in Nat \ {0} /\ Nested \subseteq Perl
ASSUME CacheAssumption == CacheAutoload \in BOOLEAN
\* The stack has room for a call that goes through each class once.
ASSUME DepthAssumption == MaxDepth \in Nat /\ MaxDepth > Leaf + 5

VARIABLES
  native,    \* <<class, selector>> of the native methods
  subs,      \* what the Perl class's sub foo is: it "answers", it calls
             \* its "super" method, or there is "none"
  exported,  \* <<class, selector>> that REAL_CBPerlIMP implements
  cache,     \* package -> the selector of the sub AUTOLOAD left there
  self,      \* the receiver's class
  stack,     \* the activations
  crashed    \* the stack has overflowed

vars == <<native, subs, exported, cache, self, stack, crashed>>
program == <<native, subs, exported>>

\* foo called without and with an argument.
Sels == {"foo", "foo:"}
NoSel == "no sub"

\* Every class has a package, and every package P has a P::SUPER.
Package == Classes \X BOOLEAN

(***************************************************************************)
(* kind  "perl"   Perl code outside of any method calls $object->foo,      *)
(*       "objc"   native code sends a message,                             *)
(*       "sub"    a Perl method,                                           *)
(*       "stub"   the sub that AUTOLOAD makes,                             *)
(*       "imp"    REAL_CBPerlIMP,                                          *)
(*       "native" a native method.                                         *)
(* at    the class whose code it is.                                       *)
(* sel   the selector it was called by or, a stub, sends.                  *)
(* super the stub sends it to the super class.                             *)
(* done  it has made its call.                                             *)
(***************************************************************************)
Activation == [kind : {"perl", "objc", "sub", "stub", "imp", "native"}, at : Classes,
               sel : Sels, super : BOOLEAN, done : BOOLEAN]

New(kind, at, sel, super) ==
  [kind |-> kind, at |-> at, sel |-> sel, super |-> super, done |-> FALSE]

TypeOK ==
  /\ native \subseteq (Classes \ Perl) \X Sels
  /\ subs \in [Perl -> {"none", "answers", "super"}]
  /\ exported \subseteq Perl \X Sels
  /\ cache \in [Package -> Sels \cup {NoSel}]
  /\ self \in Classes
  /\ stack \in Seq(Activation) /\ Len(stack) <= MaxDepth
  /\ crashed \in BOOLEAN

HasSub(c) == c \in Perl /\ subs[c] # "none"
Top == Last(stack)
Idle == stack = <<>>

\* A method attribute exports a sub under its selector (MODIFY_CODE_ATTRIBUTES).
Init ==
  /\ native \in SUBSET ((Classes \ (Perl \cup {0})) \X Sels)
  /\ subs \in [Perl -> {"none", "answers", "super"}]
  /\ exported \in SUBSET {e \in Perl \X Sels : HasSub(e[1])}
  /\ cache = [p \in Package |-> NoSel]
  /\ self = 0 /\ stack = <<>> /\ crashed = FALSE
----------------------------------------------------------------------------
\* The top activation calls f, or the call overflows the stack.
Enter(f) ==
  \/ /\ Len(stack) < MaxDepth
     /\ stack' = Append([stack EXCEPT ![Len(stack)].done = TRUE], f)
     /\ UNCHANGED crashed
  \/ /\ Len(stack) = MaxDepth
     /\ crashed' = TRUE
     /\ UNCHANGED stack

Calling(kinds) == ~Idle /\ ~crashed /\ Top.kind \in kinds /\ ~Top.done

\* The packages among the first n classes in which Perl finds foo.
Found(n) == {c \in Classes : c < n /\ (HasSub(c) \/ cache[<<c, FALSE>>] # NoSel)}

\* Perl runs what it found in the package of class c.
Runs(c, sel) ==
  /\ Enter(IF HasSub(c) THEN New("sub", c, sel, FALSE)
                        ELSE New("stub", c, cache[<<c, FALSE>>], FALSE))
  /\ UNCHANGED cache

----------------------------------------------------------------------------
(* Mistakes the dispatchers could have.                                     *)

\* The super context is given the receiver's class.
SendMessage_FromClass ==
  /\ Calling({"objc", "stub"})
  /\ LET known == {c \in Classes : c <= self /\ <<c, Top.sel>> \in native \cup exported}
     IN  \/ /\ known # {}
            /\ Enter(New(IF Max(known) \in Perl THEN "imp" ELSE "native",
                         Max(known), Top.sel, FALSE))
         \/ known = {} /\ stack' = <<>> /\ UNCHANGED crashed
  /\ UNCHANGED <<program, cache, self>>

\* The class name is not stripped from the selector.
AUTOLOAD_KeepsClass(package, sel) ==
  /\ Enter(New("stub", package[1], <<package, sel>>, FALSE))
  /\ UNCHANGED cache
----------------------------------------------------------------------------
\* NSObject::AUTOLOAD called as package::foo.  The word before the first ::
\* is cut off, and SUPER:: must be what is left in front.
AUTOLOAD(package, sel) ==
  LET isSuperMethod == package[2] /\ package[1] \notin Nested
  IN  /\ Enter(New("stub", package[1], sel, isSuperMethod))
      /\ cache' = IF CacheAutoload /\ ~isSuperMethod
                  THEN [cache EXCEPT ![package] = sel] ELSE cache

\* $object->foo(...) in Perl code, or [object foo] in native code.
Sends(c, sel, kind) ==
  /\ Idle /\ ~crashed
  /\ self' = c
  /\ stack' = <<New(kind, c, sel, FALSE)>>
  /\ UNCHANGED <<program, cache, crashed>>

\* CBCreateAccessor gives class c a property whose accessor is foo, and does
\* not overwrite what UNIVERSAL::can finds; the export is made in any case.
CBCreateAccessor(c, sel) ==
  /\ Idle /\ ~crashed
  /\ <<c, sel>> \notin exported
  /\ subs' = [subs EXCEPT ![c] = IF Found(c + 1) = {} THEN "answers" ELSE @]
  /\ exported' = exported \cup {<<c, sel>>}
  /\ UNCHANGED <<native, cache, self, stack, crashed>>

\* Perl code and CBPerlIMP's call_method call foo by name.
CallMethod ==
  /\ Calling({"perl", "imp"})
  /\ LET found == Found(self + 1)
     IN  \/ found # {} /\ Runs(Max(found), Top.sel)
         \/ found = {} /\ AUTOLOAD(<<self, FALSE>>, Top.sel)
  /\ UNCHANGED <<program, self>>

\* $self->SUPER::foo(...): P::SUPER itself, then the packages above the one
\* the sub was compiled in.
CallSuper ==
  /\ Calling({"sub"}) /\ subs[Top.at] = "super"
  /\ LET found == Found(Top.at)
         here  == <<Top.at, TRUE>>
     IN  \/ /\ cache[here] # NoSel
            /\ Enter(New("stub", Top.at, cache[here], FALSE))
            /\ UNCHANGED cache
         \/ cache[here] = NoSel /\ found # {} /\ Runs(Max(found), Top.sel)
         \/ cache[here] = NoSel /\ found = {} /\ AUTOLOAD(here, Top.sel)
  /\ UNCHANGED <<program, self>>

\* CBCallNativeMethod, or a message from native code: the runtime searches
\* from the receiver's class, or from its superclass.  A method nobody has is
\* an error that ends the whole call.
SendMessage ==
  /\ Calling({"objc", "stub"})
  /\ LET first == IF Top.super THEN self - 1 ELSE self
         known == {c \in Classes : c <= first /\ <<c, Top.sel>> \in native \cup exported}
     IN  \/ /\ known # {}
            /\ Enter(New(IF Max(known) \in Perl THEN "imp" ELSE "native",
                         Max(known), Top.sel, FALSE))
         \/ known = {} /\ stack' = <<>> /\ UNCHANGED crashed
  /\ UNCHANGED <<program, cache, self>>

Return ==
  /\ ~Idle /\ ~crashed
  /\ \/ Top.done
     \/ Top.kind = "native"
     \/ Top.kind = "sub" /\ subs[Top.at] = "answers"
  /\ stack' = Front(stack)
  /\ UNCHANGED <<program, cache, self, crashed>>

Crashed == crashed /\ UNCHANGED vars

Next ==
  \/ \E c \in Classes \ {0}, sel \in Sels, kind \in {"perl", "objc"} : Sends(c, sel, kind)
  \/ \E c \in Perl, sel \in Sels : CBCreateAccessor(c, sel)
  \/ CallMethod \/ CallSuper \/ SendMessage \/ Return \/ Crashed

Spec == Init /\ [][Next]_vars
----------------------------------------------------------------------------
(* Properties                                                               *)

\* The same code of the same class is active twice: since a call is answered
\* according to the receiver's class and the selector alone, that is a loop.
Repeats(i, j) ==
  /\ stack[i].kind \in {"sub", "imp"}
  /\ stack[i].kind = stack[j].kind /\ stack[i].at = stack[j].at

(* The ways in which a call may go astray at the i-th activation.           *)
\* A SUPER call runs a stub that is not a super stub: a cached one, or the
\* one AUTOLOAD makes for a package whose name it cannot parse.
PlainStubForSuper(i) ==
  stack[i].kind = "sub" /\ stack[i + 1].kind = "stub" /\ ~stack[i + 1].super
\* A SUPER call is made by a class above the receiver's.
SuperOfAncestor(i) ==
  stack[i].kind = "sub" /\ stack[i + 1].kind = "stub" /\ stack[i].at # self
\* CBPerlIMP finds a stub where the Perl method should be.
StubForMethod(i) ==
  stack[i].kind = "imp" /\ stack[i + 1].kind = "stub"
Astray(i) == PlainStubForSuper(i) \/ SuperOfAncestor(i) \/ StubForMethod(i)

\* A method call enters the same method twice only by one of these three
\* ways: everywhere else SUPER moves strictly towards NSObject, whichever
\* dispatcher is asked and whatever AUTOLOAD has cached before, and a call
\* that has not gone astray does not overflow the stack.
LoopsAreKnown ==
  /\ \A i, j \in 1 .. Len(stack) :
       i < j /\ Repeats(i, j) => \E k \in i .. j - 1 : Astray(k)
  /\ crashed => \E k \in 1 .. Len(stack) - 1 : Astray(k)

\* A Perl subclass can override its parent's methods and call them with
\* SUPER (15-Subclassing.t:9): no call overflows the stack.
SuperReachesParent == ~crashed
=============================================================================
