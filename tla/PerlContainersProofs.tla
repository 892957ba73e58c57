------------------------ MODULE PerlContainersProofs ------------------------
(***************************************************************************)
(* Retains and releases match, for any number of objects, keys and         *)
(* elements, as long as native code changes the array at its end or in     *)
(* place.  The first part counts the places an object is in.               *)
(***************************************************************************)
EXTENDS PerlContainers, FiniteSetTheorems, SequenceTheorems, TLAPS

\* 1 if x and y are the same.
Same(x, y) == IF x = y THEN 1 ELSE 0

\* How often f has the value o on D.
Occ(f, D, o) == Cardinality({i \in D : f[i] = o})

\* f and g agree on D.
Agree(f, g, D) == \A i \in D : f[i] = g[i]

\* One more argument.
LEMMA OccAdd ==
  ASSUME NEW D, IsFiniteSet(D), NEW x, x \notin D, NEW f, NEW g, NEW o,
         Agree(f, g, D)
  PROVE  /\ Occ(f, D, o) \in Nat
         /\ Occ(g, D \cup {x}, o) = Occ(f, D, o) + Same(g[x], o)
<1> DEFINE A == {i \in D : f[i] = o}
<1>1. IsFiniteSet(A) /\ Cardinality(A) \in Nat
  BY FS_Subset, FS_CardinalityType
<1>2. {i \in D \cup {x} : g[i] = o} = IF g[x] = o THEN A \cup {x} ELSE A
  BY DEF Agree
<1>3. Cardinality(A \cup {x}) = Cardinality(A) + 1
  BY <1>1, FS_AddElement
<1>4. Occ(f, D, o) = Cardinality(A)
  BY DEF Occ
<1>5. CASE g[x] = o
  <2>1. Occ(g, D \cup {x}, o) = Cardinality(A \cup {x})
    BY <1>2, <1>5, Zenon DEF Occ
  <2> HIDE DEF A
  <2> QED
    BY <1>1, <1>3, <1>4, <1>5, <2>1 DEF Same
<1>6. CASE g[x] # o
  <2>1. Occ(g, D \cup {x}, o) = Cardinality(A)
    BY <1>2, <1>6, Zenon DEF Occ
  <2> HIDE DEF A
  <2> QED
    BY <1>1, <1>4, <1>6, <2>1 DEF Same
<1> QED
  BY <1>5, <1>6

\* An argument gets another value.
LEMMA OccPut ==
  ASSUME NEW D, IsFiniteSet(D), NEW x \in D, NEW f, NEW g, NEW o,
         \A i \in D : i # x => f[i] = g[i]
  PROVE  /\ Occ(f, D, o) \in Nat
         /\ Occ(g, D, o) = Occ(f, D, o) - Same(f[x], o) + Same(g[x], o)
         /\ f[x] = o => Occ(f, D, o) > 0
<1> DEFINE E == D \ {x}
<1>1. IsFiniteSet(E) /\ E \cup {x} = D /\ x \notin E
  BY FS_RemoveElement
<1>2. Agree(f, g, E) /\ Agree(f, f, E)
  BY DEF Agree
<1> HIDE DEF E
<1>3. /\ Occ(f, E, o) \in Nat
      /\ Occ(f, E \cup {x}, o) = Occ(f, E, o) + Same(f[x], o)
  BY <1>1, <1>2, OccAdd
<1>4. Occ(g, E \cup {x}, o) = Occ(f, E, o) + Same(g[x], o)
  BY <1>1, <1>2, OccAdd
<1>5. /\ Occ(f, D, o) = Occ(f, E, o) + Same(f[x], o)
      /\ Occ(g, D, o) = Occ(f, E, o) + Same(g[x], o)
  BY <1>1, <1>3, <1>4
<1> QED
  BY <1>3, <1>5 DEF Same

\* The three ways to change a sequence or function.
All(f, o) == Occ(f, DOMAIN f, o)

LEMMA OccPushed ==
  ASSUME NEW S, NEW s \in Seq(S), NEW e \in S, NEW o
  PROVE  All(Append(s, e), o) = All(s, o) + Same(e, o)
<1> SUFFICES ASSUME NEW t, t = Append(s, e)
             PROVE  Occ(t, DOMAIN t, o) = Occ(s, DOMAIN s, o) + Same(e, o)
  BY DEF All
<1>1. /\ Len(s) \in Nat /\ DOMAIN s = 1 .. Len(s)
      /\ t \in Seq(S) /\ Len(t) = Len(s) + 1 /\ t[Len(s) + 1] = e
      /\ \A i \in 1 .. Len(s) : t[i] = s[i]
  BY AppendProperties
<1>2. DOMAIN t = DOMAIN s \cup {Len(s) + 1} /\ Len(s) + 1 \notin DOMAIN s
  BY <1>1
<1>3. Agree(s, t, DOMAIN s)
  BY <1>1 DEF Agree
<1>4. IsFiniteSet(DOMAIN s)
  BY <1>1, FS_Interval
<1> DEFINE D == DOMAIN s
<1> DEFINE n == Len(s) + 1
<1>5. /\ n \notin D /\ Agree(s, t, D) /\ IsFiniteSet(D) /\ DOMAIN t = D \cup {n}
      /\ t[n] = e
  BY <1>1, <1>2, <1>3, <1>4
<1> HIDE DEF D, n
<1>6. Occ(t, D \cup {n}, o) = Occ(s, D, o) + Same(t[n], o)
  BY ONLY <1>5, OccAdd
<1>7. Occ(t, DOMAIN t, o) = Occ(s, D, o) + Same(e, o)
  BY <1>5, <1>6
<1> QED
  BY <1>7 DEF D

LEMMA OccPopped ==
  ASSUME NEW S, NEW s \in Seq(S), s # <<>>, NEW o
  PROVE  /\ All(SubSeq(s, 1, Len(s) - 1), o) = All(s, o) - Same(s[Len(s)], o)
         /\ SubSeq(s, 1, Len(s) - 1) \in Seq(S)
         /\ Len(SubSeq(s, 1, Len(s) - 1)) = Len(s) - 1
<1> SUFFICES ASSUME NEW t, t = SubSeq(s, 1, Len(s) - 1)
             PROVE  /\ Occ(t, DOMAIN t, o) = Occ(s, DOMAIN s, o) - Same(s[Len(s)], o)
                    /\ t \in Seq(S) /\ Len(t) = Len(s) - 1
  BY DEF All
<1>1. /\ Len(s) \in Nat /\ Len(s) > 0 /\ DOMAIN s = 1 .. Len(s)
      /\ \A i \in 1 .. Len(s) : s[i] \in S
  OBVIOUS
<1>2. /\ t \in Seq(S) /\ Len(t) = Len(s) - 1
      /\ \A i \in 1 .. Len(t) : t[i] = s[i]
  BY <1>1, SubSeqProperties
<1>3. DOMAIN s = DOMAIN t \cup {Len(s)} /\ Len(s) \notin DOMAIN t
  BY <1>1, <1>2
<1>4. Agree(t, s, DOMAIN t)
  BY <1>2 DEF Agree
<1>5. IsFiniteSet(DOMAIN t)
  BY <1>1, <1>2, FS_Interval
<1> DEFINE D == DOMAIN t
<1> DEFINE n == Len(s)
<1>6. n \notin D /\ Agree(t, s, D) /\ IsFiniteSet(D) /\ DOMAIN s = D \cup {n}
  BY <1>3, <1>4, <1>5
<1> HIDE DEF D, n
<1>7. /\ Occ(t, D, o) \in Nat
      /\ Occ(s, D \cup {n}, o) = Occ(t, D, o) + Same(s[n], o)
  BY <1>6, OccAdd
<1>8. Occ(s, DOMAIN s, o) = Occ(t, D, o) + Same(s[n], o)
  BY <1>6, <1>7
<1> QED
  BY <1>2, <1>7, <1>8 DEF Same, D, n

Put(f, x, e) == [f EXCEPT ![x] = e]
LEMMA OccReplaced ==
  ASSUME NEW D, IsFiniteSet(D), NEW S, NEW f \in [D -> S], NEW x \in D, NEW e, NEW o
  PROVE  All(Put(f, x, e), o) = All(f, o) - Same(f[x], o) + Same(e, o)
<1> SUFFICES ASSUME NEW g, g = [f EXCEPT ![x] = e]
             PROVE  Occ(g, DOMAIN g, o) = Occ(f, D, o) - Same(f[x], o) + Same(e, o)
  BY DEF All, Put
<1>1. DOMAIN g = D /\ g[x] = e
  OBVIOUS
<1>2. \A i \in D : i # x => f[i] = g[i]
  OBVIOUS
<1>3. Occ(g, D, o) = Occ(f, D, o) - Same(f[x], o) + Same(g[x], o)
  BY ONLY <1>2, IsFiniteSet(D), x \in D, OccPut
<1> QED
  BY <1>1, <1>3
----------------------------------------------------------------------------
(* Places.                                                                  *)

\* How often o is in the array and in the hash.
InArray(o) == All(array, o)
InHash(o)  == All(hash, o)

LEMMA Domains ==
  ASSUME TypeOK
  PROVE  /\ array \in Seq(Elements) /\ array \in [1 .. Len(array) -> Elements]
         /\ Len(array) \in Nat /\ DOMAIN array = 1 .. Len(array)
         /\ IsFiniteSet(DOMAIN array) /\ IsFiniteSet(Keys)
         /\ hash \in [Keys -> Elements \cup {None}]
<1>1. array \in Seq(Elements) /\ hash \in [Keys -> Elements \cup {None}]
  BY DEF TypeOK
<1>2. /\ array \in [1 .. Len(array) -> Elements]
      /\ Len(array) \in Nat /\ DOMAIN array = 1 .. Len(array)
  BY <1>1
<1> QED
  BY <1>1, <1>2, FS_Interval, PerlContainersAssumption

LEMMA PlacesSum ==
  ASSUME TypeOK
  PROVE  \A o : Places(o) = InArray(o) + InHash(o)
<1>1. DOMAIN hash = Keys
  BY Domains
<1> QED
  BY <1>1 DEF Places, InArray, InHash, All, Occ

\* What is somewhere is counted.
LEMMA Counts ==
  ASSUME TypeOK, NEW o
  PROVE  /\ InArray(o) \in Nat /\ InHash(o) \in Nat
         /\ \A i \in DOMAIN array : array[i] = o => InArray(o) > 0
         /\ \A k \in Keys : hash[k] = o => InHash(o) > 0
<1> DEFINE K == DOMAIN hash
<1>k. K = Keys
  BY Domains
<1>1. InArray(o) \in Nat /\ InHash(o) \in Nat
  <2>1. {i \in DOMAIN array : array[i] = o} \in SUBSET DOMAIN array
        /\ {k \in K : hash[k] = o} \in SUBSET K
    OBVIOUS
  <2> QED
    BY <1>k, <2>1, Domains, FS_Subset, FS_CardinalityType DEF Occ, All, InArray, InHash
<1>2. ASSUME NEW i \in DOMAIN array, array[i] = o
      PROVE  InArray(o) > 0
  BY <1>2, Domains, OccPut DEF InArray, All
<1>3. ASSUME NEW k \in Keys, hash[k] = o
      PROVE  InHash(o) > 0
  BY <1>3, <1>k, Domains, OccPut DEF InHash, All
<1> QED
  BY <1>1, <1>2, <1>3
----------------------------------------------------------------------------
(* What the steps do to the counts.                                         *)

LEMMA PlacesSumNext ==
  ASSUME TypeOK'
  PROVE  \A o : Places(o)' = InArray(o)' + InHash(o)'
<1>1. DOMAIN hash' = Keys
  BY DEF TypeOK
<1> QED
  BY <1>1 DEF Places, InArray, InHash, All, Occ

LEMMA CountsStay ==
  ASSUME NEW o
  PROVE  /\ array' = array => InArray(o)' = InArray(o)
         /\ hash' = hash => InHash(o)' = InHash(o)
BY DEF InArray, InHash, All, Occ

LEMMA ArrayPushed ==
  ASSUME TypeOK, NEW e \in Elements, array' = Append(array, e), NEW o
  PROVE  /\ InArray(o)' = InArray(o) + Same(e, o)
         /\ array' \in Seq(Elements) /\ Len(array') = Len(array) + 1
<1>1. InArray(o)' = InArray(o) + Same(e, o)
  <2>1. array \in Seq(Elements)
    BY Domains
  <2> QED
    BY <2>1, OccPushed DEF InArray
<1>2. array' \in Seq(Elements) /\ Len(array') = Len(array) + 1
  BY Domains, AppendProperties
<1> QED
  BY <1>1, <1>2

LEMMA ArrayPopped ==
  ASSUME TypeOK, array # <<>>, array' = SubSeq(array, 1, Len(array) - 1), NEW o
  PROVE  /\ InArray(o)' = InArray(o) - Same(array[Len(array)], o)
         /\ array' \in Seq(Elements) /\ Len(array') = Len(array) - 1
         /\ Len(array) \in DOMAIN array /\ array[Len(array)] \in Elements
<1>1. /\ InArray(o)' = InArray(o) - Same(array[Len(array)], o)
      /\ array' \in Seq(Elements) /\ Len(array') = Len(array) - 1
  <2>1. array \in Seq(Elements)
    BY Domains
  <2> QED
    BY <2>1, OccPopped DEF InArray
<1>2. array \in Seq(Elements)
  BY Domains
<1>3. Len(array) \in DOMAIN array /\ array[Len(array)] \in Elements
  BY <1>2
<1> QED
  BY <1>1, <1>3

LEMMA ArrayReplaced ==
  ASSUME TypeOK, NEW i \in DOMAIN array, NEW e \in Elements,
         array' = [array EXCEPT ![i] = e], NEW o
  PROVE  /\ InArray(o)' = InArray(o) - Same(array[i], o) + Same(e, o)
         /\ array' \in Seq(Elements) /\ Len(array') = Len(array)
         /\ array[i] \in Elements
<1>1. InArray(o)' = InArray(o) - Same(array[i], o) + Same(e, o)
  <2> DEFINE D == DOMAIN array
  <2>1. array \in [D -> Elements] /\ IsFiniteSet(D) /\ i \in D
    BY Domains
  <2> HIDE DEF D
  <2>2. All(Put(array, i, e), o) = All(array, o) - Same(array[i], o) + Same(e, o)
    BY <2>1, OccReplaced, SMTT(30)
  <2>3. array' = Put(array, i, e)
    BY DEF Put
  <2> QED
    BY <2>2, <2>3 DEF InArray
<1>2. array \in Seq(Elements)
  BY Domains
<1>3. /\ array' \in Seq(Elements) /\ Len(array') = Len(array)
      /\ array[i] \in Elements
  BY <1>2
<1> QED
  BY <1>1, <1>3

LEMMA HashStored ==
  ASSUME TypeOK, NEW k \in Keys, NEW e \in Elements \cup {None},
         hash' = [hash EXCEPT ![k] = e], NEW o
  PROVE  /\ InHash(o)' = InHash(o) - Same(hash[k], o) + Same(e, o)
         /\ hash' \in [Keys -> Elements \cup {None}]
         /\ hash[k] \in Elements \cup {None}
<1>1. hash \in [Keys -> Elements \cup {None}] /\ IsFiniteSet(Keys)
  BY Domains
<1>2. InHash(o)' = InHash(o) - Same(hash[k], o) + Same(e, o)
  <2> DEFINE S == Elements \cup {None}
  <2>0. hash \in [Keys -> S]
    BY <1>1
  <2> HIDE DEF S
  <2>1. All(Put(hash, k, e), o) = All(hash, o) - Same(hash[k], o) + Same(e, o)
    BY <1>1, <2>0, OccReplaced
  <2>2. hash' = Put(hash, k, e)
    BY DEF Put
  <2> QED
    BY <2>1, <2>2 DEF InHash
<1>3. hash' \in [Keys -> Elements \cup {None}] /\ hash[k] \in Elements \cup {None}
  BY <1>1
<1> QED
  BY <1>2, <1>3

LEMMA RetainedFacts ==
  ASSUME TypeOK, NEW e \in Elements
  PROVE  /\ Retained(refs, e) \in [Objects -> Int]
         /\ \A o \in Objects : Retained(refs, e)[o] = refs[o] + Same(e, o)
<1>1. refs \in [Objects -> Int]
  BY DEF TypeOK
<1> QED
  BY <1>1, PerlContainersAssumption DEF Retained, Wrapped, Elements, Same

LEMMA AutoreleaseFacts ==
  ASSUME TypeOK, NEW e \in Elements \cup {None}, Autorelease(e)
  PROVE  /\ pool' \in [Objects -> Nat]
         /\ \A o \in Objects : o # e => pool'[o] = pool[o]
         /\ \A o \in Objects : o = e /\ refs[o] > 0 => pool'[o] = pool[o] + 1
         /\ state' \in {"ok", "dead used"}
         /\ state' = "dead used" => e \in Objects /\ ~(refs[e] > 0)
<1>1. pool \in [Objects -> Nat]
  BY DEF TypeOK
<1>2. CASE e \in Objects /\ refs[e] > 0
  <2>1. pool' = [pool EXCEPT ![e] = @ + 1] /\ state' = "ok"
    BY <1>2 DEF Autorelease, Wrapped, Alive
  <2> QED
    BY <1>1, <1>2, <2>1
<1>3. CASE e \in Objects /\ ~(refs[e] > 0)
  <2>1. pool' = pool /\ state' = "dead used"
    BY <1>3 DEF Autorelease, Wrapped, Alive
  <2> QED
    BY <1>1, <1>3, <2>1
<1>4. CASE e \notin Objects
  <2>1. pool' = pool /\ state' = "ok"
    BY <1>4 DEF Autorelease, Wrapped
  <2> QED
    BY <1>1, <1>4, <2>1
<1> QED
  BY <1>2, <1>3, <1>4
----------------------------------------------------------------------------
(* The invariant.                                                           *)

Inv == TypeOK /\ RetainsMatch /\ OnlySharedDie

LEMMA Numbers ==
  ASSUME TypeOK, NEW o \in Objects
  PROVE  refs[o] \in Int /\ owned[o] \in Nat /\ pool[o] \in Nat
<1>1. refs[o] \in Int
  BY DEF TypeOK
<1>2. owned[o] \in Nat
  <2>1. owned \in [Objects -> 0 .. MaxRefs]
    BY DEF TypeOK
  <2> QED
    BY <2>1
<1>3. pool[o] \in Nat
  BY DEF TypeOK
<1> QED
  BY <1>1, <1>2, <1>3

\* A private object that is somewhere lives.
LEMMA PlacedLives ==
  ASSUME TypeOK, RetainsMatch, NEW o \in Private
  PROVE  /\ o \in Objects /\ InArray(o) \in Nat /\ InHash(o) \in Nat
         /\ refs[o] = owned[o] + InArray(o) + InHash(o) + pool[o]
         /\ refs[o] \in Int /\ owned[o] \in Nat /\ pool[o] \in Nat
         /\ InArray(o) > 0 => refs[o] > 0
         /\ InHash(o) > 0 => refs[o] > 0
<1>1. o \in Objects
  BY DEF Private
<1>2. refs[o] \in Int /\ owned[o] \in Nat /\ pool[o] \in Nat
  BY <1>1, Numbers
<1>3. InArray(o) \in Nat /\ InHash(o) \in Nat
  BY Counts
<1>4. Places(o) = InArray(o) + InHash(o) /\ refs[o] = owned[o] + Places(o) + pool[o]
  BY PlacesSum DEF RetainsMatch
<1> QED
  BY <1>1, <1>2, <1>3, <1>4

\* It is enough to follow the counts.
LEMMA MatchNext ==
  ASSUME TypeOK',
         \A o \in Private : refs'[o] = owned'[o] + (InArray(o)' + InHash(o)') + pool'[o]
  PROVE  RetainsMatch'
<1>1. \A o \in Private : Places(o)' = InArray(o)' + InHash(o)'
  BY PlacesSumNext
<1> QED
  BY <1>1 DEF RetainsMatch

LEMMA TypeNext ==
  ASSUME array' \in Seq(Elements), Len(array') <= MaxLen,
         hash' \in [Keys -> Elements \cup {None}],
         refs' \in [Objects -> Int], owned' \in [Objects -> 0 .. MaxRefs],
         pool' \in [Objects -> Nat], state' \in {"ok", "dead used", "torn", "hung"}
  PROVE  TypeOK'
BY DEF TypeOK

\* The parts of the type invariant, for the steps that leave them alone.
LEMMA TypeParts ==
  ASSUME TypeOK
  PROVE  /\ array \in Seq(Elements) /\ Len(array) <= MaxLen
         /\ hash \in [Keys -> Elements \cup {None}]
         /\ refs \in [Objects -> Int] /\ owned \in [Objects -> 0 .. MaxRefs]
         /\ pool \in [Objects -> Nat] /\ state \in {"ok", "dead used", "torn", "hung"}
         /\ Len(array) \in Nat /\ MaxLen \in Nat
<1>1. /\ array \in Seq(Elements) /\ Len(array) <= MaxLen
      /\ hash \in [Keys -> Elements \cup {None}]
  BY DEF TypeOK
<1>2. refs \in [Objects -> Int] /\ owned \in [Objects -> 0 .. MaxRefs]
  BY DEF TypeOK
<1>3. pool \in [Objects -> Nat] /\ state \in {"ok", "dead used", "torn", "hung"}
  BY DEF TypeOK
<1>4. Len(array) \in Nat /\ MaxLen \in Nat
  BY <1>1, PerlContainersAssumption
<1> QED
  BY <1>1, <1>2, <1>3, <1>4

LEMMA AddStep ==
  ASSUME Inv, NEW e \in Elements, AddObject(e)
  PROVE  Inv'
<1>0. TypeOK /\ RetainsMatch
  BY DEF Inv
<1>1. /\ array' = Append(array, e) /\ Len(array) < MaxLen
      /\ refs' = Retained(refs, e)
      /\ hash' = hash /\ owned' = owned /\ pool' = pool /\ state' = state /\ state = "ok"
  BY DEF AddObject
<1>2. TypeOK'
  <2>1. array' \in Seq(Elements) /\ Len(array') = Len(array) + 1
    BY <1>0, <1>1, ArrayPushed
  <2>2. refs' \in [Objects -> Int]
    BY <1>0, <1>1, RetainedFacts
  <2> QED
    BY <1>0, <1>1, <2>1, <2>2, TypeParts, TypeNext
<1>3. RetainsMatch'
  <2>1. ASSUME NEW o \in Private
        PROVE  refs'[o] = owned'[o] + (InArray(o)' + InHash(o)') + pool'[o]
    <3>1. InArray(o)' = InArray(o) + Same(e, o) /\ InHash(o)' = InHash(o)
      BY <1>0, <1>1, ArrayPushed, CountsStay
    <3>2. o \in Objects /\ refs'[o] = refs[o] + Same(e, o)
      BY <1>0, <1>1, RetainedFacts, PlacedLives
    <3> QED
      BY <1>0, <1>1, <3>1, <3>2, PlacedLives, SMTT(30) DEF Same
  <2> QED
    BY <1>2, <2>1, MatchNext
<1>4. OnlySharedDie'
  BY <1>1 DEF OnlySharedDie
<1> QED
  BY <1>2, <1>3, <1>4 DEF Inv

\* What is taken out of a place is counted in the pool instead; only what Perl
\* code shares can be dead there.
LEMMA TakenOut ==
  ASSUME TypeOK, RetainsMatch, NEW e \in Elements \cup {None}, Autorelease(e),
         \A o \in Private : o = e => InArray(o) > 0 \/ InHash(o) > 0
  PROVE  /\ \A o \in Private : pool'[o] = pool[o] + Same(e, o)
         /\ pool' \in [Objects -> Nat]
         /\ state' \in {"ok", "dead used", "torn", "hung"}
         /\ state' = "dead used" => e \in Shared /\ e \in Objects /\ refs[e] <= 0
<1>1. ASSUME NEW o \in Private
      PROVE  pool'[o] = pool[o] + Same(e, o)
  <2>1. o \in Objects /\ pool[o] \in Nat
    BY PlacedLives
  <2>2. CASE o = e
    <3>1. refs[o] > 0
      BY <2>2, PlacedLives
    <3>2. pool'[o] = pool[o] + 1
      BY <2>1, <2>2, <3>1, AutoreleaseFacts
    <3>3. Same(e, o) = 1
      BY <2>2 DEF Same
    <3> QED
      BY <3>2, <3>3
  <2>3. CASE o # e
    <3>1. pool'[o] = pool[o]
      BY <2>1, <2>3, AutoreleaseFacts
    <3>2. Same(e, o) = 0
      BY <2>3 DEF Same
    <3> QED
      BY <2>1, <3>1, <3>2
  <2> QED
    BY <2>2, <2>3
<1>2. pool' \in [Objects -> Nat] /\ state' \in {"ok", "dead used"}
  BY AutoreleaseFacts
<1>3. ASSUME state' = "dead used"
      PROVE  e \in Shared /\ e \in Objects /\ refs[e] <= 0
  <2>1. e \in Objects /\ ~(refs[e] > 0)
    BY <1>3, AutoreleaseFacts
  <2>2. e \notin Private
    BY <2>1, PlacedLives
  <2>3. refs[e] \in Int
    BY <2>1, Numbers
  <2> QED
    BY <2>1, <2>2, <2>3 DEF Private
<1> QED
  BY <1>1, <1>2, <1>3

\* What is alive when it is stored is not what was found dead.
LEMMA DeadStays ==
  ASSUME TypeOK, NEW x \in Objects, refs[x] <= 0, NEW e \in Elements, Usable(e),
         refs' = Retained(refs, e)
  PROVE  refs'[x] <= 0
<1>1. refs[x] \in Int
  BY Numbers
<1>2. x # e
  BY <1>1 DEF Usable, Wrapped, Alive
<1> QED
  BY <1>1, <1>2, RetainedFacts DEF Same

LEMMA ReplaceStep ==
  ASSUME Inv, NEW i \in DOMAIN array, NEW e \in Elements, ReplaceObject(i, e)
  PROVE  Inv'
<1>0. TypeOK /\ RetainsMatch
  BY DEF Inv
<1>1. /\ array' = [array EXCEPT ![i] = e] /\ refs' = Retained(refs, e)
      /\ hash' = hash /\ owned' = owned /\ Usable(e) /\ Autorelease(array[i])
  BY DEF ReplaceObject
<1> DEFINE x == array[i]
<1>2. x \in Elements /\ \A o \in Private : o = x => InArray(o) > 0 \/ InHash(o) > 0
  BY <1>0, <1>1, ArrayReplaced, Counts
<1> HIDE DEF x
<1>3. /\ \A o \in Private : pool'[o] = pool[o] + Same(x, o)
      /\ pool' \in [Objects -> Nat]
      /\ state' \in {"ok", "dead used", "torn", "hung"}
      /\ state' = "dead used" => x \in Shared /\ x \in Objects /\ refs[x] <= 0
  <2>1. Autorelease(x)
    BY <1>1 DEF x
  <2> QED
    BY <1>0, <1>2, <2>1, TakenOut
<1>4. TypeOK'
  <2>1. array' \in Seq(Elements) /\ Len(array') = Len(array)
    BY <1>0, <1>1, ArrayReplaced
  <2>2. refs' \in [Objects -> Int]
    BY <1>0, <1>1, RetainedFacts
  <2> QED
    BY <1>0, <1>1, <1>3, <2>1, <2>2, TypeParts, TypeNext
<1>5. RetainsMatch'
  <2>1. ASSUME NEW o \in Private
        PROVE  refs'[o] = owned'[o] + (InArray(o)' + InHash(o)') + pool'[o]
    <3>1. InArray(o)' = InArray(o) - Same(x, o) + Same(e, o) /\ InHash(o)' = InHash(o)
      BY <1>0, <1>1, ArrayReplaced, CountsStay DEF x
    <3>2. o \in Objects /\ refs'[o] = refs[o] + Same(e, o)
      BY <1>0, <1>1, RetainedFacts, PlacedLives
    <3>3. /\ refs[o] = owned[o] + InArray(o) + InHash(o) + pool[o]
          /\ InArray(o) \in Nat /\ InHash(o) \in Nat /\ owned[o] \in Nat /\ pool[o] \in Nat
      BY <1>0, PlacedLives
    <3>4. owned'[o] = owned[o] /\ pool'[o] = pool[o] + Same(x, o)
      BY <1>1, <1>3
    <3>5. Same(x, o) \in Int /\ Same(e, o) \in Int
      BY DEF Same
    <3> QED
      BY <3>1, <3>2, <3>3, <3>4, <3>5
  <2> QED
    BY <1>4, <2>1, MatchNext
<1>6. OnlySharedDie'
  BY <1>0, <1>1, <1>3, DeadStays DEF OnlySharedDie
<1> QED
  BY <1>4, <1>5, <1>6 DEF Inv

LEMMA SetStep ==
  ASSUME Inv, NEW k \in Keys, NEW e \in Elements, SetObject(k, e)
  PROVE  Inv'
<1>0. TypeOK /\ RetainsMatch
  BY DEF Inv
<1>1. /\ hash' = [hash EXCEPT ![k] = e] /\ refs' = Retained(refs, e)
      /\ array' = array /\ owned' = owned /\ Usable(e) /\ Autorelease(hash[k])
  BY DEF SetObject
<1> DEFINE x == hash[k]
<1>2. x \in Elements \cup {None} /\ \A o \in Private : o = x => InArray(o) > 0 \/ InHash(o) > 0
  BY <1>0, <1>1, HashStored, Counts
<1> HIDE DEF x
<1>3. /\ \A o \in Private : pool'[o] = pool[o] + Same(x, o)
      /\ pool' \in [Objects -> Nat]
      /\ state' \in {"ok", "dead used", "torn", "hung"}
      /\ state' = "dead used" => x \in Shared /\ x \in Objects /\ refs[x] <= 0
  <2>1. Autorelease(x)
    BY <1>1 DEF x
  <2> QED
    BY <1>0, <1>2, <2>1, TakenOut
<1>4. TypeOK'
  <2>1. hash' \in [Keys -> Elements \cup {None}]
    BY <1>0, <1>1, HashStored
  <2>2. refs' \in [Objects -> Int]
    BY <1>0, <1>1, RetainedFacts
  <2> QED
    BY <1>0, <1>1, <1>3, <2>1, <2>2, TypeParts, TypeNext
<1>5. RetainsMatch'
  <2>1. ASSUME NEW o \in Private
        PROVE  refs'[o] = owned'[o] + (InArray(o)' + InHash(o)') + pool'[o]
    <3>1. InHash(o)' = InHash(o) - Same(x, o) + Same(e, o) /\ InArray(o)' = InArray(o)
      BY <1>0, <1>1, HashStored, CountsStay DEF x
    <3>2. o \in Objects /\ refs'[o] = refs[o] + Same(e, o)
      BY <1>0, <1>1, RetainedFacts, PlacedLives
    <3>3. /\ refs[o] = owned[o] + InArray(o) + InHash(o) + pool[o]
          /\ InArray(o) \in Nat /\ InHash(o) \in Nat /\ owned[o] \in Nat /\ pool[o] \in Nat
      BY <1>0, PlacedLives
    <3>4. owned'[o] = owned[o] /\ pool'[o] = pool[o] + Same(x, o)
      BY <1>1, <1>3
    <3>5. Same(x, o) \in Int /\ Same(e, o) \in Int
      BY DEF Same
    <3> QED
      BY <3>1, <3>2, <3>3, <3>4, <3>5
  <2> QED
    BY <1>4, <2>1, MatchNext
<1>6. OnlySharedDie'
  BY <1>0, <1>1, <1>3, DeadStays DEF OnlySharedDie
<1> QED
  BY <1>4, <1>5, <1>6 DEF Inv

\* A step that only takes x out.
LEMMA TakeStep ==
  ASSUME TypeOK, RetainsMatch, NEW x \in Elements \cup {None}, Autorelease(x),
         \A o \in Private : o = x => InArray(o) > 0 \/ InHash(o) > 0,
         array' \in Seq(Elements), Len(array') <= MaxLen,
         hash' \in [Keys -> Elements \cup {None}], refs' = refs, owned' = owned,
         \A o \in Private : InArray(o)' + InHash(o)' = InArray(o) + InHash(o) - Same(x, o)
  PROVE  Inv'
<1>1. /\ \A o \in Private : pool'[o] = pool[o] + Same(x, o)
      /\ pool' \in [Objects -> Nat]
      /\ state' \in {"ok", "dead used", "torn", "hung"}
      /\ state' = "dead used" => x \in Shared /\ x \in Objects /\ refs[x] <= 0
  BY TakenOut
<1>2. TypeOK'
  BY <1>1, TypeParts, TypeNext
<1>3. RetainsMatch'
  <2>1. ASSUME NEW o \in Private
        PROVE  refs'[o] = owned'[o] + (InArray(o)' + InHash(o)') + pool'[o]
    <3>1. /\ refs[o] = owned[o] + InArray(o) + InHash(o) + pool[o]
          /\ InArray(o) \in Nat /\ InHash(o) \in Nat /\ owned[o] \in Nat /\ pool[o] \in Nat
      BY PlacedLives
    <3>2. /\ owned'[o] = owned[o] /\ refs'[o] = refs[o] /\ pool'[o] = pool[o] + Same(x, o)
          /\ InArray(o)' + InHash(o)' = InArray(o) + InHash(o) - Same(x, o)
      BY <1>1
    <3>3. Same(x, o) \in Int
      BY DEF Same
    <3> QED
      BY <3>1, <3>2, <3>3
  <2> QED
    BY <1>2, <2>1, MatchNext
<1>4. OnlySharedDie'
  BY <1>1 DEF OnlySharedDie
<1> QED
  BY <1>2, <1>3, <1>4 DEF Inv

LEMMA RemoveLastStep ==
  ASSUME Inv, RemoveLastObject
  PROVE  Inv'
<1>0. TypeOK /\ RetainsMatch
  BY DEF Inv
<1>1. /\ array # <<>> /\ array' = SubSeq(array, 1, Len(array) - 1)
      /\ Autorelease(array[Len(array)]) /\ hash' = hash /\ refs' = refs /\ owned' = owned
  BY DEF RemoveLastObject
<1> DEFINE x == array[Len(array)]
<1>2. /\ x \in Elements /\ \A o \in Private : o = x => InArray(o) > 0
      /\ array' \in Seq(Elements) /\ Len(array') = Len(array) - 1
      /\ Autorelease(x)
  BY <1>0, <1>1, ArrayPopped, Counts
<1>3. \A o \in Private : InArray(o)' = InArray(o) - Same(x, o)
  BY <1>0, <1>1, ArrayPopped
<1> HIDE DEF x
<1>4. ASSUME NEW o \in Private
      PROVE  InArray(o)' + InHash(o)' = InArray(o) + InHash(o) - Same(x, o)
  <2>1. InHash(o)' = InHash(o) /\ InArray(o)' = InArray(o) - Same(x, o)
    BY <1>1, <1>3, CountsStay
  <2>2. InArray(o) \in Nat /\ InHash(o) \in Nat /\ Same(x, o) \in Int
    BY <1>0, Counts DEF Same
  <2> QED
    BY <2>1, <2>2
<1>5. Len(array') <= MaxLen /\ hash' \in [Keys -> Elements \cup {None}]
  <2>1. /\ Len(array) \in Nat /\ MaxLen \in Nat /\ Len(array) <= MaxLen
        /\ hash \in [Keys -> Elements \cup {None}]
    BY <1>0, TypeParts
  <2>2. Len(array') <= MaxLen
    BY <1>2, <2>1
  <2> QED
    BY <1>1, <2>1, <2>2
<1> QED
  BY <1>0, <1>1, <1>2, <1>4, <1>5, TakeStep

LEMMA RemoveKeyStep ==
  ASSUME Inv, NEW k \in Keys, RemoveObjectForKey(k)
  PROVE  Inv'
<1>0. TypeOK /\ RetainsMatch
  BY DEF Inv
<1>1. /\ hash' = [hash EXCEPT ![k] = None]
      /\ Autorelease(hash[k]) /\ array' = array /\ refs' = refs /\ owned' = owned
  BY DEF RemoveObjectForKey
<1> DEFINE x == hash[k]
<1>2. /\ x \in Elements \cup {None} /\ \A o \in Private : o = x => InHash(o) > 0
      /\ hash' \in [Keys -> Elements \cup {None}]
      /\ Autorelease(x)
  BY <1>0, <1>1, HashStored, Counts
<1>3. \A o \in Private : InHash(o)' = InHash(o) - Same(x, o) + Same(None, o)
  BY <1>0, <1>1, HashStored
<1> HIDE DEF x
<1>4. ASSUME NEW o \in Private
      PROVE  InArray(o)' + InHash(o)' = InArray(o) + InHash(o) - Same(x, o)
  <2>1. InArray(o)' = InArray(o) /\ InHash(o)' = InHash(o) - Same(x, o) + Same(None, o)
    BY <1>1, <1>3, CountsStay
  <2>2. InArray(o) \in Nat /\ InHash(o) \in Nat /\ Same(x, o) \in Int
    BY <1>0, Counts DEF Same
  <2>3. Same(None, o) = 0
    BY PerlContainersAssumption DEF Same, Private
  <2> QED
    BY <2>1, <2>2, <2>3
<1>5. array' \in Seq(Elements) /\ Len(array') <= MaxLen
  BY <1>0, <1>1, TypeParts
<1> QED
  BY <1>0, <1>1, <1>2, <1>4, <1>5, TakeStep

\* Perl code does not touch the counts of private objects.
LEMMA PerlStep ==
  ASSUME TypeOK, RetainsMatch,
         array' \in Seq(Elements), Len(array') <= MaxLen,
         hash' \in [Keys -> Elements \cup {None}],
         refs' = refs, owned' = owned, pool' = pool, state' = state, state = "ok",
         \A o \in Private : InArray(o)' + InHash(o)' = InArray(o) + InHash(o)
  PROVE  Inv'
<1>1. TypeOK'
  BY TypeParts, TypeNext
<1>2. RetainsMatch'
  <2>1. ASSUME NEW o \in Private
        PROVE  refs'[o] = owned'[o] + (InArray(o)' + InHash(o)') + pool'[o]
    BY PlacedLives
  <2> QED
    BY <1>1, <2>1, MatchNext
<1>3. OnlySharedDie'
  BY DEF OnlySharedDie
<1> QED
  BY <1>1, <1>2, <1>3 DEF Inv

LEMMA PushStep ==
  ASSUME Inv, NEW e \in Elements, PerlPush(e)
  PROVE  Inv'
<1>0. TypeOK /\ RetainsMatch
  BY DEF Inv
<1>1. /\ PerlMayUse(e) /\ Len(array) < MaxLen /\ array' = Append(array, e)
      /\ hash' = hash /\ refs' = refs /\ owned' = owned /\ pool' = pool
      /\ state' = state /\ state = "ok"
  BY DEF PerlPush
<1>2. array' \in Seq(Elements) /\ Len(array') = Len(array) + 1
  BY <1>0, <1>1, ArrayPushed
<1>3. ASSUME NEW o \in Private
      PROVE  InArray(o)' + InHash(o)' = InArray(o) + InHash(o)
  <2>1. InHash(o)' = InHash(o) /\ InArray(o)' = InArray(o) + Same(e, o)
    BY <1>0, <1>1, ArrayPushed, CountsStay
  <2>2. Same(e, o) = 0
    BY <1>1, PerlContainersAssumption DEF Same, Private, PerlMayUse
  <2> QED
    BY <1>0, <2>1, <2>2, Counts
<1>4. Len(array') <= MaxLen /\ hash' \in [Keys -> Elements \cup {None}]
  <2>1. Len(array) \in Nat /\ MaxLen \in Nat /\ hash \in [Keys -> Elements \cup {None}]
    BY <1>0, TypeParts
  <2>2. Len(array') <= MaxLen
    BY <1>1, <1>2, <2>1
  <2> QED
    BY <1>1, <2>1, <2>2
<1> QED
  BY <1>0, <1>1, <1>2, <1>3, <1>4, PerlStep

LEMMA PopStep ==
  ASSUME Inv, PerlPop
  PROVE  Inv'
<1>0. TypeOK /\ RetainsMatch
  BY DEF Inv
<1>1. /\ array # <<>> /\ array' = SubSeq(array, 1, Len(array) - 1)
      /\ PerlMayUse(array[Len(array)])
      /\ hash' = hash /\ refs' = refs /\ owned' = owned /\ pool' = pool
      /\ state' = state /\ state = "ok"
  BY DEF PerlPop
<1>2. array' \in Seq(Elements) /\ Len(array') = Len(array) - 1
  BY <1>0, <1>1, ArrayPopped
<1>3. ASSUME NEW o \in Private
      PROVE  InArray(o)' + InHash(o)' = InArray(o) + InHash(o)
  <2>1. InHash(o)' = InHash(o) /\ InArray(o)' = InArray(o) - Same(array[Len(array)], o)
    BY <1>0, <1>1, ArrayPopped, CountsStay
  <2>2. Same(array[Len(array)], o) = 0
    BY <1>1, PerlContainersAssumption DEF Same, Private, PerlMayUse
  <2> QED
    BY <1>0, <2>1, <2>2, Counts
<1>4. Len(array') <= MaxLen /\ hash' \in [Keys -> Elements \cup {None}]
  BY <1>0, <1>1, <1>2, TypeParts
<1> QED
  BY <1>0, <1>1, <1>2, <1>3, <1>4, PerlStep

LEMMA AssignStep ==
  ASSUME Inv, NEW k \in Keys, NEW e \in Elements \cup {None}, PerlAssign(k, e)
  PROVE  Inv'
<1>0. TypeOK /\ RetainsMatch
  BY DEF Inv
<1>1. /\ hash' = [hash EXCEPT ![k] = e] /\ {e, hash[k]} \subseteq Shared \cup {Text, None}
      /\ array' = array /\ refs' = refs /\ owned' = owned /\ pool' = pool
      /\ state' = state /\ state = "ok"
  BY DEF PerlAssign
<1>2. hash' \in [Keys -> Elements \cup {None}]
  BY <1>0, <1>1, HashStored
<1>3. ASSUME NEW o \in Private
      PROVE  InArray(o)' + InHash(o)' = InArray(o) + InHash(o)
  <2>1. InArray(o)' = InArray(o) /\ InHash(o)' = InHash(o) - Same(hash[k], o) + Same(e, o)
    BY <1>0, <1>1, HashStored, CountsStay
  <2>2. Same(e, o) = 0 /\ Same(hash[k], o) = 0
    BY <1>1, PerlContainersAssumption DEF Same, Private
  <2> QED
    BY <1>0, <2>1, <2>2, Counts
<1>4. array' \in Seq(Elements) /\ Len(array') <= MaxLen
  BY <1>0, <1>1, TypeParts
<1> QED
  BY <1>0, <1>1, <1>2, <1>3, <1>4, PerlStep

\* At the end of an array that has elements, inserting is adding.
LEMMA InsertStep ==
  ASSUME Inv, NEW e \in Elements, array # <<>>, InsertObject(Len(array) + 1, e)
  PROVE  Inv'
<1>1. array \in Seq(Elements)
  BY TypeParts DEF Inv
<1>2. Len(array) \in Nat /\ Len(array) > 0
  BY <1>1
<1>3. AddObject(e)
  BY <1>2 DEF InsertObject, AddObject
<1> QED
  BY <1>3, AddStep

\* Native code's own references are counted on both sides.
LEMMA OwnerStep ==
  ASSUME Inv, NEW x \in Objects, Retain(x) \/ Release(x)
  PROVE  Inv'
<1>0. TypeOK /\ RetainsMatch
  BY DEF Inv
<1>1. /\ array' = array /\ hash' = hash /\ pool' = pool /\ state' = state
      /\ state = "ok"
  BY DEF Retain, Release
<1>2. refs \in [Objects -> Int] /\ owned \in [Objects -> 0 .. MaxRefs] /\ MaxRefs \in Nat
  BY <1>0, TypeParts, PerlContainersAssumption
<1>3. /\ refs' \in [Objects -> Int] /\ owned' \in [Objects -> 0 .. MaxRefs]
      /\ \A o \in Objects : refs'[o] = refs[o] + (owned'[o] - owned[o])
  <2>1. CASE Retain(x)
    <3>1. /\ refs' = [refs EXCEPT ![x] = @ + 1] /\ owned' = [owned EXCEPT ![x] = @ + 1]
          /\ owned[x] < MaxRefs
      BY <2>1 DEF Retain
    <3> QED
      BY <1>2, <3>1
  <2>2. CASE Release(x)
    <3>1. /\ refs' = [refs EXCEPT ![x] = @ - 1] /\ owned' = [owned EXCEPT ![x] = @ - 1]
          /\ owned[x] > 0
      BY <2>2 DEF Release
    <3> QED
      BY <1>2, <3>1
  <2> QED
    BY <2>1, <2>2
<1>5. TypeOK'
  BY <1>0, <1>1, <1>3, TypeParts, TypeNext
<1>6. RetainsMatch'
  <2>1. ASSUME NEW o \in Private
        PROVE  refs'[o] = owned'[o] + (InArray(o)' + InHash(o)') + pool'[o]
    <3>1. /\ o \in Objects /\ refs[o] = owned[o] + InArray(o) + InHash(o) + pool[o]
          /\ InArray(o) \in Nat /\ InHash(o) \in Nat /\ owned[o] \in Nat /\ pool[o] \in Nat
      BY <1>0, PlacedLives
    <3>2. InArray(o)' = InArray(o) /\ InHash(o)' = InHash(o) /\ pool'[o] = pool[o]
      BY <1>1, CountsStay
    <3>3. refs'[o] = refs[o] + (owned'[o] - owned[o]) /\ owned'[o] \in Int
      BY <1>2, <1>3, <3>1
    <3> QED
      BY <3>1, <3>2, <3>3
  <2> QED
    BY <1>5, <2>1, MatchNext
<1>7. OnlySharedDie'
  BY <1>1 DEF OnlySharedDie
<1> QED
  BY <1>5, <1>6, <1>7 DEF Inv

\* What waits in the pool is given up; it had been retained.
LEMMA DrainStep ==
  ASSUME Inv, Drain
  PROVE  Inv'
<1>0. TypeOK /\ RetainsMatch
  BY DEF Inv
<1>1. /\ array' = array /\ hash' = hash /\ owned' = owned
      /\ refs' = [o \in Objects |-> refs[o] - pool[o]] /\ pool' = [o \in Objects |-> 0]
      /\ state' \in {"ok", "dead used"}
      /\ state' = "dead used" => \E o \in Objects : refs[o] < pool[o]
  BY DEF Drain
<1>2. TypeOK'
  <2>1. refs' \in [Objects -> Int]
    <3>1. refs' = [o \in Objects |-> refs[o] - pool[o]]
      BY <1>1
    <3>2. ASSUME NEW o \in Objects
          PROVE  refs[o] - pool[o] \in Int
      <4>1. refs[o] \in Int /\ pool[o] \in Nat
        BY <1>0, Numbers
      <4> QED
        BY ONLY <4>1
    <3> QED
      BY ONLY <3>1, <3>2
  <2>2. pool' \in [Objects -> Nat]
    <3>1. pool' = [o \in Objects |-> 0]
      BY <1>1
    <3> QED
      BY ONLY <3>1
  <2>3. /\ array' \in Seq(Elements) /\ Len(array') <= MaxLen
        /\ hash' \in [Keys -> Elements \cup {None}] /\ owned' \in [Objects -> 0 .. MaxRefs]
    BY <1>0, <1>1, TypeParts
  <2> QED
    BY <1>1, <2>1, <2>2, <2>3, TypeNext
<1>3. RetainsMatch'
  <2>1. ASSUME NEW o \in Private
        PROVE  refs'[o] = owned'[o] + (InArray(o)' + InHash(o)') + pool'[o]
    <3>1. /\ o \in Objects /\ refs[o] = owned[o] + InArray(o) + InHash(o) + pool[o]
          /\ InArray(o) \in Nat /\ InHash(o) \in Nat /\ owned[o] \in Nat /\ pool[o] \in Nat
      BY <1>0, PlacedLives
    <3>2. InArray(o)' = InArray(o) /\ InHash(o)' = InHash(o)
      BY <1>1, CountsStay
    <3>3. refs'[o] = refs[o] - pool[o] /\ pool'[o] = 0 /\ owned'[o] = owned[o]
      BY <1>1, <3>1
    <3> QED
      BY <3>1, <3>2, <3>3
  <2> QED
    BY <1>2, <2>1, MatchNext
<1>4. OnlySharedDie'
  <2> SUFFICES ASSUME state' = "dead used"
               PROVE  \E o \in Shared : refs'[o] <= 0
    BY DEF OnlySharedDie
  <2>1. PICK o \in Objects : refs[o] < pool[o]
    BY <1>1
  <2>2. o \notin Private
    <3>1. ASSUME o \in Private
          PROVE  FALSE
      <4>1. /\ refs[o] = owned[o] + InArray(o) + InHash(o) + pool[o]
            /\ InArray(o) \in Nat /\ InHash(o) \in Nat /\ owned[o] \in Nat /\ pool[o] \in Nat
        BY <1>0, <3>1, PlacedLives
      <4>2. refs[o] < pool[o]
        BY <2>1
      <4> QED
        BY ONLY <4>1, <4>2
    <3> QED
      BY <3>1
  <2>3. refs'[o] <= 0
    <3>1. refs'[o] = refs[o] - pool[o]
      BY <1>1
    <3>2. refs[o] \in Int /\ pool[o] \in Nat
      BY <1>0, Numbers
    <3>3. refs[o] < pool[o]
      BY <2>1
    <3> QED
      BY ONLY <3>1, <3>2, <3>3
  <2> QED
    BY <2>2, <2>3 DEF Private
<1> QED
  BY <1>2, <1>3, <1>4 DEF Inv

LEMMA StutterStep ==
  ASSUME Inv, UNCHANGED vars
  PROVE  Inv'
<1>0. TypeOK /\ RetainsMatch /\ OnlySharedDie
  BY DEF Inv
<1>1. /\ array' = array /\ hash' = hash /\ refs' = refs /\ owned' = owned
      /\ pool' = pool /\ state' = state
  BY DEF vars
<1>2. TypeOK'
  BY <1>0, <1>1, TypeParts, TypeNext
<1>3. RetainsMatch'
  <2>1. ASSUME NEW o \in Private
        PROVE  refs'[o] = owned'[o] + (InArray(o)' + InHash(o)') + pool'[o]
    BY <1>0, <1>1, PlacedLives, CountsStay
  <2> QED
    BY <1>2, <2>1, MatchNext
<1>4. OnlySharedDie'
  BY <1>0, <1>1 DEF OnlySharedDie
<1> QED
  BY <1>2, <1>3, <1>4 DEF Inv

LEMMA InitInv ==
  ASSUME Init
  PROVE  Inv
<1>1. /\ array = <<>> /\ hash = [k \in Keys |-> None]
      /\ refs = [o \in Objects |-> 1] /\ owned = [o \in Objects |-> 1]
      /\ pool = [o \in Objects |-> 0] /\ state = "ok"
  BY DEF Init
<1>2. TypeOK
  <2>1. array \in Seq(Elements) /\ Len(array) <= MaxLen
    BY <1>1, PerlContainersAssumption
  <2>2. hash \in [Keys -> Elements \cup {None}] /\ refs \in [Objects -> Int]
        /\ pool \in [Objects -> Nat]
    BY <1>1
  <2>3. owned \in [Objects -> 0 .. MaxRefs]
    BY <1>1, PerlContainersAssumption
  <2> QED
    BY <1>1, <2>1, <2>2, <2>3 DEF TypeOK
<1>3. ASSUME NEW o \in Private
      PROVE  refs[o] = owned[o] + Places(o) + pool[o]
  <2>1. o \in Objects /\ o # None
    BY PerlContainersAssumption DEF Private
  <2>2. {i \in DOMAIN array : array[i] = o} = {} /\ {k \in Keys : hash[k] = o} = {}
    BY <1>1, <2>1
  <2>3. Places(o) = 0
    BY <2>2, FS_EmptySet DEF Places
  <2> QED
    BY <1>1, <2>1, <2>3
<1> QED
  BY <1>1, <1>2, <1>3 DEF Inv, RetainsMatch, OnlySharedDie

LEMMA StepInv ==
  ASSUME Inv, [EndsNext]_vars
  PROVE  Inv'
<1>1. CASE \E e \in Elements : AddObject(e) \/ PerlPush(e)
  BY <1>1, AddStep, PushStep
<1>2. CASE \E e \in Elements : array # <<>> /\ InsertObject(Len(array) + 1, e)
  BY <1>2, InsertStep
<1>3. CASE \E i \in DOMAIN array, e \in Elements : ReplaceObject(i, e)
  BY <1>3, ReplaceStep
<1>4. CASE \E k \in Keys, e \in Elements : SetObject(k, e)
  BY <1>4, SetStep
<1>5. CASE RemoveLastObject \/ PerlPop \/ Drain
  BY <1>5, RemoveLastStep, PopStep, DrainStep
<1>6. CASE \E k \in Keys : RemoveObjectForKey(k)
  BY <1>6, RemoveKeyStep
<1>7. CASE \E k \in Keys, e \in Elements \cup {None} : PerlAssign(k, e)
  BY <1>7, AssignStep
<1>8. CASE \E o \in Objects : Retain(o) \/ Release(o)
  BY <1>8, OwnerStep
<1>9. CASE UNCHANGED vars
  BY <1>9, StutterStep
<1> QED
  BY <1>1, <1>2, <1>3, <1>4, <1>5, <1>6, <1>7, <1>8, <1>9 DEF EndsNext

LEMMA AlwaysInv == EndsSpec => []Inv
<1>1. Init => Inv
  BY InitInv
<1>2. Inv /\ [EndsNext]_vars => Inv'
  BY StepInv
<1> QED
  BY <1>1, <1>2, PTL DEF EndsSpec
----------------------------------------------------------------------------
(* The theorems.                                                            *)

\* The array, the hash and the counts keep their types; no count of what waits
\* in the pool becomes negative.
THEOREM ContainersTypeCorrect == EndsSpec => []TypeOK
<1>1. Inv => TypeOK
  BY DEF Inv
<1> QED
  BY <1>1, AlwaysInv, PTL

\* The retains and releases of CBPerlArray's and CBPerlHash's methods match:
\* an object that Perl code does not store itself is retained once for each
\* place in the containers it is in, however often and under whatever keys.
THEOREM RetainsBalance == EndsSpec => []RetainsMatch
<1>1. Inv => RetainsMatch
  BY DEF Inv
<1> QED
  BY <1>1, AlwaysInv, PTL

\* So an object lives while its wrapper is in a container.
THEOREM StoredObjectsLive == EndsSpec => []StoredLive
<1>1. ASSUME Inv, NEW o \in Private, Places(o) > 0
      PROVE  Alive(o)
  <2>1. TypeOK /\ RetainsMatch
    BY <1>1 DEF Inv
  <2>2. Places(o) = InArray(o) + InHash(o) /\ InArray(o) \in Nat /\ InHash(o) \in Nat
    BY <2>1, PlacesSum, Counts
  <2>3. InArray(o) > 0 \/ InHash(o) > 0
    BY <1>1, <2>2
  <2> QED
    BY <2>1, <2>3, PlacedLives DEF Alive
<1>2. Inv => StoredLive
  BY <1>1 DEF StoredLive
<1> QED
  BY <1>2, AlwaysInv, PTL

\* If a method or the pool meets a dead object, it is one Perl code stored.
THEOREM OnlySharedObjectsDie == EndsSpec => []OnlySharedDie
<1>1. Inv => OnlySharedDie
  BY DEF Inv
<1> QED
  BY <1>1, AlwaysInv, PTL

\* No method that changes a container takes the last reference of an object.
THEOREM RemovalsAreDeferred == EndsSpec => RemovalIsDeferred
<1> DEFINE Step == \A o \in Private : Alive(o) /\ refs'[o] <= 0 =>
                     \/ owned'[o] < owned[o]
                     \/ pool[o] > 0 /\ pool'[o] = 0
<1>1. ASSUME TypeOK, EndsNext, NEW o \in Private, Alive(o), refs'[o] <= 0
      PROVE  owned'[o] < owned[o] \/ (pool[o] > 0 /\ pool'[o] = 0)
  <2>0. o \in Objects /\ refs[o] \in Int /\ refs[o] > 0 /\ pool[o] \in Nat /\ owned[o] \in Nat
    BY <1>1, Numbers DEF Private, Alive
  <2>1. refs' # refs
    BY <1>1, <2>0
  <2>2. ASSUME NEW e \in Elements
        PROVE  refs' # Retained(refs, e)
    <3>1. Retained(refs, e)[o] = refs[o] + Same(e, o) /\ Same(e, o) \in Nat
      BY <1>1, <2>0, RetainedFacts DEF Same
    <3> QED
      BY <1>1, <2>0, <3>1
  <2>3. ~ \E e \in Elements : AddObject(e) \/ PerlPush(e)
    BY <2>1, <2>2 DEF AddObject, PerlPush
  <2>4. ~ \E e \in Elements : array # <<>> /\ InsertObject(Len(array) + 1, e)
    <3>1. Len(array) \in Nat /\ array \in Seq(Elements)
      BY <1>1, TypeParts
    <3>2. ASSUME NEW e \in Elements, array # <<>>, InsertObject(Len(array) + 1, e)
          PROVE  FALSE
      <4>1. Len(array) > 0
        BY <3>1, <3>2
      <4>2. refs' = Retained(refs, e)
        BY <3>1, <3>2, <4>1 DEF InsertObject
      <4> QED
        BY <2>2, <4>2
    <3> QED
      BY <3>2
  <2>5. ~ \E i \in DOMAIN array, e \in Elements : ReplaceObject(i, e)
    BY <2>2 DEF ReplaceObject
  <2>6. ~ \E k \in Keys, e \in Elements : SetObject(k, e)
    BY <2>2 DEF SetObject
  <2>7. ~ (RemoveLastObject \/ PerlPop)
    BY <2>1 DEF RemoveLastObject, PerlPop
  <2>8. ~ \E k \in Keys : RemoveObjectForKey(k)
    BY <2>1 DEF RemoveObjectForKey
  <2>9. ~ \E k \in Keys, e \in Elements \cup {None} : PerlAssign(k, e)
    BY <2>1 DEF PerlAssign
  <2>10. CASE Drain
    <3>1. refs'[o] = refs[o] - pool[o] /\ pool'[o] = 0
      BY <2>0, <2>10 DEF Drain
    <3> QED
      BY <1>1, <2>0, <3>1
  <2>11. ASSUME NEW x \in Objects, Retain(x) \/ Release(x)
         PROVE  owned'[o] < owned[o]
    <3>1. refs \in [Objects -> Int] /\ owned \in [Objects -> 0 .. MaxRefs]
      BY <1>1, TypeParts
    <3>2. CASE Retain(x)
      <4>1. refs' = [refs EXCEPT ![x] = @ + 1]
        BY <3>2 DEF Retain
      <4>2. refs'[o] = refs[o] \/ refs'[o] = refs[o] + 1
        BY <2>0, <3>1, <4>1
      <4>3. refs'[o] <= 0
        BY <1>1
      <4> QED
        BY ONLY <2>0, <4>2, <4>3
    <3>3. CASE Release(x)
      <4>1. refs' = [refs EXCEPT ![x] = @ - 1] /\ owned' = [owned EXCEPT ![x] = @ - 1]
        BY <3>3 DEF Release
      <4>2. x = o
        BY <1>1, <2>0, <3>1, <4>1
      <4> QED
        BY <2>0, <3>1, <4>1, <4>2
    <3> QED
      BY <2>11, <3>2, <3>3
  <2> QED
    BY <1>1, <2>3, <2>4, <2>5, <2>6, <2>7, <2>8, <2>9, <2>10, <2>11 DEF EndsNext
<1>2. Inv /\ [EndsNext]_vars => [Step]_vars
  BY <1>1 DEF Inv
<1> QED
  BY <1>2, AlwaysInv, PTL DEF EndsSpec, RemovalIsDeferred
=============================================================================
