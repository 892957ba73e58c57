----------------------------- MODULE ObjectMap ------------------------------
(***************************************************************************)
(* Which Perl object stands for which native object (Conversions.m,        *)
(* Wrappers.m).  A Perl object is a body, a blessed hash, whose entry      *)
(* NATIVE_OBJ holds the address of the native object.  An instance of a    *)
(* class registered from Perl ("bridged") has in its ivar _sv a Perl       *)
(* scalar that refers to its body; an instance of any other class          *)
(* ("plain") knows nothing of Perl and gets a new body at each conversion. *)
(*                                                                         *)
(* A scalar is a memory cell and not a value: what is stored of a Perl     *)
(* object that was blessed by Perl code and had no native object yet is    *)
(* the caller's variable itself.                                           *)
(*                                                                         *)
(* Bodies that nothing refers to are taken as free: the hash of a wrapper  *)
(* is in fact never freed, but nobody can reach it.                        *)
(***************************************************************************)
EXTENDS Naturals

CONSTANTS
  Addresses,   \* where native objects can live
  Bodies,      \* where Perl hashes can live
  Vars,        \* the Perl program's variables
  Careful      \* those whose objects it retains

ASSUME CarefulAssumption == Careful \subseteq Vars

VARIABLES
  kind,     \* the object at an address: "none", "bridged" or "plain"
  sv,       \* _sv of the object at an address
  nativeObj,\* NATIVE_OBJ of a body
  var       \* the body a variable refers to, or Undef

vars == <<kind, sv, nativeObj, var>>

Undef == [is |-> "undef"]
Body(b) == [is |-> "body", body |-> b]
Values == {Undef} \cup {Body(b) : b \in Bodies}

\* What _sv and NATIVE_OBJ hold: nothing, a scalar of their own, which has
\* a fixed value, or a variable of the program.
Nil == [is |-> "nil"]
Own(x) == [is |-> "own", of |-> x]
Cell(v) == [is |-> "cell", of |-> v]
Cells == {Cell(v) : v \in Vars}

TypeOK ==
  /\ kind \in [Addresses -> {"none", "bridged", "plain"}]
  /\ sv \in [Addresses -> {Nil} \cup {Own(b) : b \in Bodies} \cup Cells]
  /\ nativeObj \in [Bodies -> {Nil} \cup {Own(a) : a \in Addresses} \cup Cells]
  /\ var \in [Vars -> Values]

Init ==
  /\ kind = [a \in Addresses |-> "none"]
  /\ sv = [a \in Addresses |-> Nil]
  /\ nativeObj = [b \in Bodies |-> Nil]
  /\ var = [v \in Vars |-> Undef]
----------------------------------------------------------------------------
\* Perl or native code can still get at the body.
Reachable(b) == \/ \E v \in Vars : var[v] = Body(b)
                \/ \E a \in Addresses : kind[a] = "bridged" /\ sv[a] = Own(b)

\* The program keeps the values of variables it is not careful with, which may
\* hold the address of a dead object, out of those it is careful with.
MayCopy(w, v) == v \in Careful => w \in Careful

\* The value of the scalar in _sv of a bridged object that has one.
Scalar(a) == IF sv[a].is = "own" THEN Body(sv[a].of) ELSE var[sv[a].of]

\* The variable v becomes a new hash with NATIVE_OBJ n; it is body b.
CreateObjectOfClass(v, b, n) ==
  /\ ~Reachable(b)
  /\ nativeObj' = [nativeObj EXCEPT ![b] = n]
  /\ var' = [var EXCEPT ![v] = Body(b)]
----------------------------------------------------------------------------
(* Mistakes the conversions could contain.                                  *)

\* The new body is not kept in _sv.
WrapBridged_Forgets(a, v) ==
  /\ kind[a] = "bridged" /\ sv[a] = Nil
  /\ \E b \in Bodies : CreateObjectOfClass(v, b, Own(a))
  /\ UNCHANGED <<kind, sv>>

\* A new object's ivar is not cleared.
NativeAlloc_Dirty(a, k) ==
  /\ kind[a] = "none"
  /\ kind' = [kind EXCEPT ![a] = k]
  /\ UNCHANGED <<sv, nativeObj, var>>

\* NATIVE_OBJ is the address of the hash.
WrapPlain_OwnAddress(a, v) ==
  /\ kind[a] = "plain"
  /\ \E b \in Bodies : CreateObjectOfClass(v, b, Own(b))
  /\ UNCHANGED <<kind, sv>>
----------------------------------------------------------------------------
(* Native code                                                              *)

\* alloc: the ivars of a new object are zero.
NativeAlloc(a, k) ==
  /\ kind[a] = "none"
  /\ kind' = [kind EXCEPT ![a] = k]
  /\ sv' = [sv EXCEPT ![a] = Nil]
  /\ UNCHANGED <<nativeObj, var>>

\* The last release.  No wrapper has retained the object, but the program has
\* if one of its careful variables refers to it.
Dealloc(a) ==
  /\ kind[a] # "none"
  /\ \A v \in Careful, b \in Bodies : var[v] = Body(b) => nativeObj[b] # Own(a)
  /\ kind' = [kind EXCEPT ![a] = "none"]
  /\ UNCHANGED <<sv, nativeObj, var>>

(* CBDerefIDtoSV: the object at a is returned to Perl, which assigns it to v *)

\* A bridged object whose Perl object has not been created yet.
WrapBridged(a, v) ==
  /\ kind[a] = "bridged" /\ sv[a] = Nil
  /\ \E b \in Bodies : /\ CreateObjectOfClass(v, b, Own(a))
                       /\ sv' = [sv EXCEPT ![a] = Own(b)]
  /\ UNCHANGED kind

FindBridged(a, v) ==
  /\ kind[a] = "bridged" /\ sv[a] # Nil
  /\ sv[a] \in Cells => MayCopy(sv[a].of, v)
  /\ var' = [var EXCEPT ![v] = Scalar(a)]
  /\ UNCHANGED <<kind, sv, nativeObj>>

WrapPlain(a, v) ==
  /\ kind[a] = "plain"
  /\ \E b \in Bodies : CreateObjectOfClass(v, b, Own(a))
  /\ UNCHANGED <<kind, sv>>

(* Perl code                                                                *)
Assign(v, x) ==
  /\ var' = [var EXCEPT ![v] = x]
  /\ UNCHANGED <<kind, sv, nativeObj>>

Bless(v) ==
  /\ \E b \in Bodies : CreateObjectOfClass(v, b, Nil)
  /\ UNCHANGED <<kind, sv>>

(* CBDerefSVtoID: variable v is passed to a native method                   *)

\* It has a NATIVE_OBJ: that is passed, and nothing changes; PassedFor says
\* what it is.  Otherwise an object is made that refers to the variable.
PassBlessed(v) ==
  /\ \E b \in Bodies, a \in Addresses :
       /\ var[v] = Body(b) /\ nativeObj[b] = Nil
       /\ kind[a] = "none"
       /\ kind' = [kind EXCEPT ![a] = "bridged"]
       /\ sv' = [sv EXCEPT ![a] = Cell(v)]
       /\ nativeObj' = [nativeObj EXCEPT ![b] = Cell(v)]
  /\ UNCHANGED var

Next ==
  \/ \E a \in Addresses :
       \/ \E k \in {"bridged", "plain"} : NativeAlloc(a, k)
       \/ Dealloc(a)
       \/ \E v \in Vars : WrapBridged(a, v) \/ FindBridged(a, v) \/ WrapPlain(a, v)
  \/ \E v \in Vars :
       \/ Assign(v, Undef)
       \/ \E w \in Vars : MayCopy(w, v) /\ Assign(v, var[w])
       \/ Bless(v) \/ PassBlessed(v)

Spec == Init /\ [][Next]_vars
----------------------------------------------------------------------------
(* Properties                                                               *)

\* The address CBDerefSVtoID passes for a body: the number in NATIVE_OBJ.  A
\* cell holds a reference, whose number is no object's address.
Passed(b) == nativeObj[b].is = "own"
PassedFor(b) == nativeObj[b].of

\* Native to Perl and back: the Perl object that was made for a bridged object
\* passes that object and no other one.  So no two objects have the same.
RoundTrip ==
  \A a \in Addresses, b \in Bodies :
    kind[a] = "bridged" /\ sv[a] = Own(b) => Passed(b) /\ PassedFor(b) = a

\* Perl to native and back: as long as a careful variable refers to it, a
\* native object lives, and a bridged one gives Perl the body that the
\* variable has, although others die and their addresses are used again.
PerlKeepsBody ==
  \A v \in Careful, b \in Bodies :
    var[v] = Body(b) /\ Passed(b) =>
      /\ kind[PassedFor(b)] # "none"
      /\ kind[PassedFor(b)] = "bridged" => sv[PassedFor(b)] = Own(b)
=============================================================================
