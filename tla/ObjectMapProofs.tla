-------------------------- MODULE ObjectMapProofs ---------------------------
(***************************************************************************)
(* The object map keeps its promises whatever the program does, in memory  *)
(* of any size.  The invariant Linked follows a bridged object to the body *)
(* in its _sv and back; Held follows a careful variable to its body, to    *)
(* the native object and back.                                             *)
(***************************************************************************)
EXTENDS ObjectMap, TLAPS

\* The body of a bridged object has that object's address.
Linked == \A a \in Addresses, b \in Bodies :
            kind[a] = "bridged" /\ sv[a] = Own(b) => nativeObj[b] = Own(a)

\* The object whose address is in the body of a careful variable.
Held == \A v \in Careful, b \in Bodies, a \in Addresses :
          var[v] = Body(b) /\ nativeObj[b] = Own(a) =>
            /\ kind[a] # "none"
            /\ kind[a] = "bridged" => sv[a] = Own(b)

Kinds == {"none", "bridged", "plain"}
SvValues == {Nil} \cup {Own(b) : b \in Bodies} \cup Cells
ObjValues == {Nil} \cup {Own(a) : a \in Addresses} \cup Cells

\* The three forms of a stored value, and the two of a variable, differ.
LEMMA Forms ==
  /\ \A x, y : Own(x) = Own(y) => x = y
  /\ \A x : Own(x) # Nil /\ Own(x).is = "own" /\ Own(x).of = x
  /\ \A x : Cell(x) # Nil /\ Cell(x).is = "cell" /\ Cell(x).of = x
  /\ \A x, y : Own(x) # Cell(y)
  /\ \A x, y : Body(x) = Body(y) => x = y
  /\ \A x : Body(x) # Undef
  /\ Nil.is = "nil"
<1>1. \A x : Own(x).is = "own" /\ Own(x).of = x
  BY DEF Own
<1>2. \A x : Cell(x).is = "cell" /\ Cell(x).of = x
  BY DEF Cell
<1>3. Nil.is = "nil"
  BY DEF Nil
<1>4. \A x : Body(x).is = "body" /\ Body(x).body = x
  BY DEF Body
<1>5. Undef.is = "undef"
  BY DEF Undef
<1> QED
  BY <1>1, <1>2, <1>3, <1>4, <1>5

\* What Perl gets from a bridged object is a value of a variable.
LEMMA ScalarIsValue ==
  ASSUME TypeOK, NEW a \in Addresses, sv[a] # Nil
  PROVE  Scalar(a) \in Values
<1>1. sv[a] \in SvValues
  BY DEF TypeOK, SvValues
<1>2. CASE \E b \in Bodies : sv[a] = Own(b)
  BY <1>2, Forms DEF Scalar, Values
<1>3. CASE sv[a] \in Cells
  BY <1>3, Forms DEF Scalar, Cells, TypeOK
<1> QED
  BY <1>1, <1>2, <1>3 DEF SvValues

\* A step keeps every variable in its set.
LEMMA TypePreserved == TypeOK /\ [Next]_vars => TypeOK'
<1> SUFFICES ASSUME TypeOK, [Next]_vars PROVE TypeOK'
  OBVIOUS
<1>0. /\ Nil \in SvValues /\ Nil \in ObjValues
      /\ \A b \in Bodies : Own(b) \in SvValues
      /\ \A a \in Addresses : Own(a) \in ObjValues
      /\ \A v \in Vars : Cell(v) \in SvValues /\ Cell(v) \in ObjValues
      /\ \A b \in Bodies : Body(b) \in Values
      /\ Undef \in Values
  BY DEF SvValues, ObjValues, Cells, Values
<1>t. /\ kind \in [Addresses -> Kinds] /\ sv \in [Addresses -> SvValues]
      /\ nativeObj \in [Bodies -> ObjValues] /\ var \in [Vars -> Values]
  BY DEF TypeOK, Kinds, SvValues, ObjValues
<1> SUFFICES /\ kind' \in [Addresses -> Kinds] /\ sv' \in [Addresses -> SvValues]
             /\ nativeObj' \in [Bodies -> ObjValues] /\ var' \in [Vars -> Values]
  BY DEF TypeOK, Kinds, SvValues, ObjValues, Values, Cells
<1>1. CASE UNCHANGED vars
  BY <1>1, <1>t DEF vars
<1>2. ASSUME NEW a \in Addresses, NEW k \in {"bridged", "plain"}, NativeAlloc(a, k)
      PROVE  /\ kind' \in [Addresses -> Kinds] /\ sv' \in [Addresses -> SvValues]
             /\ nativeObj' \in [Bodies -> ObjValues] /\ var' \in [Vars -> Values]
  BY <1>2, <1>0, <1>t DEF NativeAlloc, Kinds
<1>3. ASSUME NEW a \in Addresses, Dealloc(a)
      PROVE  /\ kind' \in [Addresses -> Kinds] /\ sv' \in [Addresses -> SvValues]
             /\ nativeObj' \in [Bodies -> ObjValues] /\ var' \in [Vars -> Values]
  BY <1>3, <1>t DEF Dealloc, Kinds
<1>4. ASSUME NEW a \in Addresses, NEW v \in Vars,
             WrapBridged(a, v) \/ WrapPlain(a, v)
      PROVE  /\ kind' \in [Addresses -> Kinds] /\ sv' \in [Addresses -> SvValues]
             /\ nativeObj' \in [Bodies -> ObjValues] /\ var' \in [Vars -> Values]
  BY <1>4, <1>0, <1>t DEF WrapBridged, WrapPlain, CreateObjectOfClass
<1>5. ASSUME NEW a \in Addresses, NEW v \in Vars, FindBridged(a, v)
      PROVE  /\ kind' \in [Addresses -> Kinds] /\ sv' \in [Addresses -> SvValues]
             /\ nativeObj' \in [Bodies -> ObjValues] /\ var' \in [Vars -> Values]
  BY <1>5, <1>t, ScalarIsValue DEF FindBridged
<1>6. ASSUME NEW v \in Vars, NEW x \in Values, Assign(v, x)
      PROVE  /\ kind' \in [Addresses -> Kinds] /\ sv' \in [Addresses -> SvValues]
             /\ nativeObj' \in [Bodies -> ObjValues] /\ var' \in [Vars -> Values]
  BY <1>6, <1>t DEF Assign
<1>7. ASSUME NEW v \in Vars, Bless(v) \/ PassBlessed(v)
      PROVE  /\ kind' \in [Addresses -> Kinds] /\ sv' \in [Addresses -> SvValues]
             /\ nativeObj' \in [Bodies -> ObjValues] /\ var' \in [Vars -> Values]
  BY <1>7, <1>0, <1>t DEF Bless, PassBlessed, CreateObjectOfClass, Kinds
<1>8. \A w \in Vars : var[w] \in Values
  BY <1>t
<1> QED
  BY <1>0, <1>1, <1>2, <1>3, <1>4, <1>5, <1>6, <1>7, <1>8 DEF Next

\* The types of the object map hold in every behaviour.
THEOREM ObjectMapType == Spec => []TypeOK
<1>1. Init => TypeOK
  BY DEF Init, TypeOK, Values
<1> QED
  BY <1>1, TypePreserved, PTL DEF Spec
----------------------------------------------------------------------------
\* Only a body that nothing refers to is taken for a new hash, and only an
\* object without a Perl object gets one: Linked follows.
LEMMA LinkedPreserved == TypeOK /\ Linked /\ [Next]_vars => Linked'
<1> SUFFICES ASSUME TypeOK, Linked, [Next]_vars PROVE Linked'
  OBVIOUS
<1> SUFFICES ASSUME NEW a \in Addresses, NEW b \in Bodies,
                    kind'[a] = "bridged", sv'[a] = Own(b)
             PROVE  nativeObj'[b] = Own(a)
  BY DEF Linked
<1>t. /\ kind \in [Addresses -> Kinds] /\ sv \in [Addresses -> SvValues]
      /\ nativeObj \in [Bodies -> ObjValues] /\ var \in [Vars -> Values]
  BY DEF TypeOK, Kinds, SvValues, ObjValues
<1>1. CASE UNCHANGED <<kind, sv, nativeObj>>
  BY <1>1 DEF Linked
<1>2. ASSUME NEW x \in Addresses, NEW k \in {"bridged", "plain"}, NativeAlloc(x, k)
      PROVE  nativeObj'[b] = Own(a)
  <2>1. a # x
    BY <1>2, <1>t, Forms DEF NativeAlloc
  <2> QED
    BY <2>1, <1>2, <1>t DEF NativeAlloc, Linked
<1>3. ASSUME NEW x \in Addresses, Dealloc(x)
      PROVE  nativeObj'[b] = Own(a)
  BY <1>3, <1>t DEF Dealloc, Linked
<1>4. ASSUME NEW x \in Addresses, NEW v \in Vars, WrapBridged(x, v)
      PROVE  nativeObj'[b] = Own(a)
  <2>1. PICK c \in Bodies : /\ CreateObjectOfClass(v, c, Own(x))
                            /\ sv' = [sv EXCEPT ![x] = Own(c)]
    BY <1>4 DEF WrapBridged
  <2>2. CASE a = x
    BY <2>1, <2>2, <1>t, Forms DEF CreateObjectOfClass
  <2>3. CASE a # x
    <3>1. kind[a] = "bridged" /\ sv[a] = Own(b)
      BY <1>4, <2>1, <2>3, <1>t DEF WrapBridged
    <3>2. b # c
      BY <3>1, <2>1 DEF CreateObjectOfClass, Reachable
    <3> QED
      BY <3>1, <3>2, <2>1, <1>t DEF CreateObjectOfClass, Linked
  <2> QED
    BY <2>2, <2>3
<1>5. ASSUME NEW v \in Vars, NEW n, NEW c \in Bodies,
             CreateObjectOfClass(v, c, n), UNCHANGED <<kind, sv>>
      PROVE  nativeObj'[b] = Own(a)
  <2>1. b # c
    BY <1>5 DEF CreateObjectOfClass, Reachable
  <2> QED
    BY <2>1, <1>5, <1>t DEF CreateObjectOfClass, Linked
<1>6. ASSUME NEW v \in Vars, PassBlessed(v)
      PROVE  nativeObj'[b] = Own(a)
  <2>1. PICK c \in Bodies, x \in Addresses :
          /\ nativeObj[c] = Nil /\ kind[x] = "none"
          /\ kind' = [kind EXCEPT ![x] = "bridged"]
          /\ sv' = [sv EXCEPT ![x] = Cell(v)]
          /\ nativeObj' = [nativeObj EXCEPT ![c] = Cell(v)]
    BY <1>6 DEF PassBlessed
  <2>2. a # x
    BY <2>1, <1>t, Forms
  <2>3. nativeObj[b] = Own(a)
    BY <2>1, <2>2, <1>t DEF Linked
  <2>4. b # c
    BY <2>1, <2>3, Forms
  <2> QED
    BY <2>1, <2>3, <2>4, <1>t
<1> QED
  BY <1>1, <1>2, <1>3, <1>4, <1>5, <1>6
  DEF Next, vars, FindBridged, WrapPlain, Assign, Bless

\* The addresses in the bodies of careful variables stay those of the objects
\* they were made for.
LEMMA HeldPreserved ==
  TypeOK /\ Linked /\ Held /\ [Next]_vars => Held'
<1> SUFFICES ASSUME TypeOK, Linked, Held, [Next]_vars,
                    NEW v \in Careful, NEW b \in Bodies, NEW a \in Addresses,
                    var'[v] = Body(b), nativeObj'[b] = Own(a)
             PROVE  kind'[a] # "none" /\ (kind'[a] = "bridged" => sv'[a] = Own(b))
  BY DEF Held
<1> DEFINE Goal == kind'[a] # "none" /\ (kind'[a] = "bridged" => sv'[a] = Own(b))
<1>t. /\ kind \in [Addresses -> Kinds] /\ sv \in [Addresses -> SvValues]
      /\ nativeObj \in [Bodies -> ObjValues] /\ var \in [Vars -> Values]
      /\ v \in Vars
  BY CarefulAssumption DEF TypeOK, Kinds, SvValues, ObjValues
<1>1. CASE UNCHANGED vars
  BY <1>1 DEF vars, Held
<1>2. ASSUME NEW x \in Addresses, NEW k \in {"bridged", "plain"}, NativeAlloc(x, k)
      PROVE  Goal
  <2>1. a # x
    BY <1>2 DEF NativeAlloc, Held
  <2> QED
    BY <2>1, <1>2, <1>t DEF NativeAlloc, Held
<1>3. ASSUME NEW x \in Addresses, Dealloc(x)
      PROVE  Goal
  <2>1. a # x
    BY <1>3 DEF Dealloc
  <2> QED
    BY <2>1, <1>3, <1>t DEF Dealloc, Held
<1>4. ASSUME NEW x \in Addresses, NEW w \in Vars, NEW c \in Bodies,
             CreateObjectOfClass(w, c, Own(x)), UNCHANGED kind, kind[x] # "none",
             \/ kind[x] # "bridged" /\ UNCHANGED sv
             \/ sv[x] = Nil /\ sv' = [sv EXCEPT ![x] = Own(c)]
      PROVE  Goal
  <2>1. CASE v = w
    <3>1. b = c
      BY <2>1, <1>4, <1>t, Forms DEF CreateObjectOfClass
    <3>2. a = x
      BY <3>1, <1>4, <1>t, Forms DEF CreateObjectOfClass
    <3> QED
      BY <3>1, <3>2, <1>4, <1>t
  <2>2. CASE v # w
    <3>1. var[v] = Body(b)
      BY <2>2, <1>4, <1>t DEF CreateObjectOfClass
    <3>2. b # c
      BY <3>1, <1>4, <1>t DEF CreateObjectOfClass, Reachable
    <3>3. nativeObj[b] = Own(a)
      BY <3>2, <1>4, <1>t DEF CreateObjectOfClass
    <3>4. kind[a] # "none" /\ (kind[a] = "bridged" => sv[a] = Own(b))
      BY <3>1, <3>3 DEF Held
    <3> QED
      BY <3>4, <1>4, <1>t, Forms
  <2> QED
    BY <2>1, <2>2
<1>5. ASSUME NEW x \in Addresses, NEW w \in Vars, FindBridged(x, w)
      PROVE  Goal
  <2>1. CASE v # w
    BY <2>1, <1>5, <1>t DEF FindBridged, Held
  <2>2. CASE v = w /\ \E c \in Bodies : sv[x] = Own(c)
    <3>1. sv[x] = Own(b)
      BY <2>2, <1>5, <1>t, Forms DEF FindBridged, Scalar
    <3>2. a = x
      BY <3>1, <1>5, Forms DEF FindBridged, Linked
    <3> QED
      BY <3>1, <3>2, <1>5 DEF FindBridged
  <2>3. CASE v = w /\ sv[x] \in Cells
    <3>1. PICK u \in Vars : sv[x] = Cell(u)
      BY <2>3 DEF Cells
    <3>2. var[u] = Body(b)
      BY <3>1, <2>3, <1>5, <1>t, Forms DEF FindBridged, Scalar
    <3>3. u \in Careful
      BY <3>1, <2>3, <1>5, Forms DEF FindBridged, MayCopy
    <3> QED
      BY <3>2, <3>3, <1>5 DEF FindBridged, Held
  <2> QED
    BY <2>1, <2>2, <2>3, <1>5, <1>t DEF FindBridged, SvValues
<1>6. ASSUME NEW w \in Vars, NEW x, Assign(w, x),
             x = Undef \/ \E u \in Vars : MayCopy(u, w) /\ x = var[u]
      PROVE  Goal
  BY <1>6, <1>t, Forms DEF Assign, Held, MayCopy
<1>7. ASSUME NEW w \in Vars, NEW c \in Bodies,
             CreateObjectOfClass(w, c, Nil), UNCHANGED <<kind, sv>>
      PROVE  Goal
  <2>1. b # c
    BY <1>7, <1>t, Forms DEF CreateObjectOfClass
  <2>2. nativeObj[b] = Own(a)
    BY <2>1, <1>7, <1>t DEF CreateObjectOfClass
  <2>3. var[v] = Body(b)
    BY <2>1, <1>7, <1>t, Forms DEF CreateObjectOfClass
  <2> QED
    BY <2>2, <2>3, <1>7 DEF Held
<1>8. ASSUME NEW w \in Vars, PassBlessed(w)
      PROVE  Goal
  <2>1. PICK c \in Bodies, x \in Addresses :
          /\ kind[x] = "none"
          /\ kind' = [kind EXCEPT ![x] = "bridged"]
          /\ sv' = [sv EXCEPT ![x] = Cell(w)]
          /\ nativeObj' = [nativeObj EXCEPT ![c] = Cell(w)]
          /\ var' = var
    BY <1>8 DEF PassBlessed
  <2>2. b # c
    BY <2>1, <1>t, Forms
  <2>3. nativeObj[b] = Own(a) /\ var[v] = Body(b)
    BY <2>1, <2>2, <1>t
  <2>4. a # x
    BY <2>1, <2>3 DEF Held
  <2> QED
    BY <2>1, <2>3, <2>4, <1>t DEF Held
<1> QED
  BY <1>1, <1>2, <1>3, <1>4, <1>5, <1>6, <1>7, <1>8
  DEF Next, WrapBridged, WrapPlain, Bless
----------------------------------------------------------------------------
\* A native object that goes to Perl comes back as the same object, in every
\* program, careful or not.
THEOREM NativeObjectsReturn == Spec => []RoundTrip
<1>1. Init => TypeOK /\ Linked
  BY DEF Init, TypeOK, Values, Linked
<1>2. (TypeOK /\ Linked) /\ [Next]_vars => (TypeOK /\ Linked)'
  BY TypePreserved, LinkedPreserved
<1>3. Linked => RoundTrip
  BY Forms DEF Linked, RoundTrip, Passed, PassedFor
<1> QED
  BY <1>1, <1>2, <1>3, PTL DEF Spec

\* What a careful variable refers to stays the Perl object of a living native
\* object, however objects are made, die and give up their addresses.
THEOREM RetainedObjectsStay == Spec => []PerlKeepsBody
<1>1. Init => TypeOK /\ Linked /\ Held
  BY CarefulAssumption, Forms DEF Init, TypeOK, Values, Linked, Held
<1>2. (TypeOK /\ Linked /\ Held) /\ [Next]_vars => (TypeOK /\ Linked /\ Held)'
  BY TypePreserved, LinkedPreserved, HeldPreserved
<1>3. TypeOK /\ Linked /\ Held => PerlKeepsBody
  <2> SUFFICES ASSUME TypeOK, Held, NEW v \in Careful, NEW b \in Bodies,
                      var[v] = Body(b), Passed(b)
               PROVE  /\ kind[PassedFor(b)] # "none"
                      /\ kind[PassedFor(b)] = "bridged" => sv[PassedFor(b)] = Own(b)
    BY DEF PerlKeepsBody
  <2>1. PICK a \in Addresses : nativeObj[b] = Own(a)
    BY Forms DEF TypeOK, Passed, Cells
  <2> QED
    BY <2>1, Forms DEF Held, PassedFor
<1> QED
  BY <1>1, <1>2, <1>3, PTL DEF Spec
=============================================================================
