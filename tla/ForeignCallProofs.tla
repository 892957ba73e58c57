-------------------------- MODULE ForeignCallProofs --------------------------
(***************************************************************************)
(* The call from Perl to C, for every signature, every value and every     *)
(* size of a byte.  How many words of the stack the first k arguments take *)
(* is counted (Words), and the three loops that must agree - the one that  *)
(* reserves the space, the one that fills it, and the method that reads it *)
(* - are each shown to step over as many.  Each is a FoldLeft, and what it *)
(* computes is shown for one place after the other (Iterates, AllSteps).   *)
(***************************************************************************)
EXTENDS ForeignCall, FiniteSetTheorems, TLAPS

\* A structure's ffi_type before its first use, and after.
Zero == Type("STRUCT", 0, 0)
True(s) == Type("STRUCT", TrueSize[s], 4)
Layouts == {l \in [Structs -> {Zero} \cup {True(s) : s \in Structs}] :
              \A s \in Structs : l[s] \in {Zero, True(s)}}

\* The words that an argument takes, and that h others and the first k
\* arguments take.
TypeWords(t) == 1 + (IF t \in Structs \cup {"double"} THEN 1 ELSE 0) + (IF t = "NSRect" THEN 2 ELSE 0)
Words(ts, h, k) ==
  h + k + Cardinality({j \in 1 .. k : ts[j] \in Structs \cup {"double"}})
        + 2 * Cardinality({j \in 1 .. k : ts[j] = "NSRect"})

\* There is room for the address of the structure that is returned.
Hidden == IF cif.flags = "STRUCT" THEN 1 ELSE 0

\* What the argument n, which is not self or _cmd, has been filled in with.
Filled(n) ==
  LET c == sig.args[n - 2] IN
  /\ c \notin Unknown \cup {"v", "Other"}
  /\ types[n] = ArgumentType(c) /\ values[n] = Unsigned(given[n], SizeOf(c))

Called == phase \in {"filling", "typed", "prepared", "running", "returned"}
Filling ==
  Called =>
    /\ sig \in Signatures /\ sig.ret \notin Unknown
    /\ 2 <= Len(types) /\ Len(types) <= Len(sig.args) + 2
    /\ types[1] = "pointer" /\ types[2] = "pointer"
    /\ \A n \in 3 .. Len(types) : Filled(n)

\* What is laid out, and that nothing is laid out wrongly.
LaidOut ==
  /\ layout \in Layouts
  /\ Prepared => /\ Len(types) = Len(sig.args) + 2
                 /\ \A s \in Structs : s \in Used => layout[s] = True(s)

Reserved ==
  phase \in {"prepared", "running", "returned"} =>
    /\ cif.flags = Flags(TypeOf(ReturnType(sig.ret)))
    /\ cif.messenger = MessengerFor(ReturnType(sig.ret))
    /\ 4 * Words(types, Hidden, Len(types)) <= cif.bytes

\* The first k arguments are on the stack f, one after the other.
Stacked(f, h, k) ==
  /\ Len(f) = Words(types, h, k)
  /\ h = 1 => f[1].arg = 0
  /\ \A n \in 1 .. k : \A p \in 1 .. TypeWords(types[n]) :
       /\ Words(types, h, n - 1) + p <= Len(f)
       /\ f[Words(types, h, n - 1) + p] = WordsOf(n)[p]
Framed == phase = "running" => Stacked(frame, Hidden, Len(types))

Answered ==
  (phase = "returned" /\ sig.ret \in IntCodes) =>
    /\ answer \in Samples /\ InRange(answer, sig.ret)
    /\ \E w \in InEax(answer, sig.ret) : result = FromUnion(sig.ret, w)

Inv == TypeOK /\ Filling /\ LaidOut /\ Reserved /\ Framed /\ Answered
----------------------------------------------------------------------------
(* Numbers                                                                  *)

LEMMA Less == ASSUME NEW x \in Nat, NEW y \in Nat, x < y PROVE <<x, y>> \in OpToRel(<, Nat)
BY DEF OpToRel

LEMMA LeastExists ==
  ASSUME NEW T, T \subseteq Nat, T # {}
  PROVE  \E m \in T : \A t \in T : m <= t
<1>1. PICK m \in T : \A y \in T : ~(<<y, m>> \in OpToRel(<, Nat))
  BY WFMin, NatLessThanWellFounded
<1>2. \A y \in T : y \in Nat /\ m \in Nat
  OBVIOUS
<1>3. ASSUME NEW y \in T PROVE m <= y
  <2>1. CASE y < m
    BY <1>1, <1>2, <2>1, Less
  <2> QED
    BY <1>2, <2>1
<1> QED
  BY <1>3

LEMMA MaxExists ==
  ASSUME NEW S, NEW n \in Nat, S # {}, \A s \in S : s \in Nat /\ s <= n
  PROVE  \E m \in S : \A s \in S : s <= m
<1> DEFINE T == {n - s : s \in S}
<1>1. \A s \in S : n - s \in Nat
  OBVIOUS
<1>2. T \subseteq Nat /\ T # {}
  BY <1>1
<1> HIDE DEF T
<1>3. PICK t \in T : \A y \in T : t <= y
  BY <1>2, LeastExists
<1>4. PICK m \in S : t = n - m
  BY <1>3 DEF T
<1>5. \A s \in S : n - s \in T
  BY DEF T
<1>6. \A s \in S : n - m <= n - s
  BY <1>3, <1>4, <1>5
<1>7. \A s \in S : s <= m
  BY <1>6
<1> QED
  BY <1>7

LEMMA MaxIs ==
  ASSUME NEW S \in SUBSET Int, NEW m \in S, \A s \in S : s <= m
  PROVE  Max(S) = m
<1>1. \A x \in S : (\A y \in S : x >= y) => x = m
  OBVIOUS
<1>2. m \in S /\ (\A y \in S : m >= y)
  OBVIOUS
<1> QED
  BY <1>1, <1>2 DEF Max

\* Induction over numbers, for a set of them.
LEMMA AllSteps ==
  ASSUME NEW n \in Nat, NEW S, 0 \in S, \A k \in 1 .. n : k - 1 \in S => k \in S
  PROVE  \A k \in 0 .. n : k \in S
<1> DEFINE T == {k \in 0 .. n : k \notin S}
<1>1. SUFFICES ASSUME T # {} PROVE FALSE
  OBVIOUS
<1>2. T \subseteq Nat
  OBVIOUS
<1>3. PICK m \in T : \A t \in T : m <= t
  BY <1>1, <1>2, LeastExists
<1>4. m \in 0 .. n /\ m \notin S /\ m \in 1 .. n
  BY <1>3
<1>5. m - 1 \notin T
  BY <1>3, <1>4
<1>6. m - 1 \in S
  BY <1>4, <1>5
<1> QED
  BY <1>4, <1>6
----------------------------------------------------------------------------
(* Folds                                                                    *)

\* What FoldLeft computes exists: a value for each set of places, from the
\* value for the set without its greatest place.
Iterated(it, V, b, n, G) ==
  /\ it \in [SUBSET (1 .. n) -> V]
  /\ \A x \in SUBSET (1 .. n) : it[x] = IF x = {} THEN b ELSE G[Max(x)][it[x \ {Max(x)}]]

LEMMA Iterates ==
  ASSUME NEW V, NEW b \in V, NEW n \in Nat, NEW G \in [1 .. n -> [V -> V]]
  PROVE  \E it : Iterated(it, V, b, n, G)
<1> DEFINE S == {m \in 0 .. n : \E it \in [SUBSET (1 .. m) -> V] : \A x \in SUBSET (1 .. m) :
                    it[x] = IF x = {} THEN b ELSE G[Max(x)][it[x \ {Max(x)}]]}
<1>1. 0 \in S
  <2> DEFINE it == [x \in SUBSET (1 .. 0) |-> b]
  <2>1. it \in [SUBSET (1 .. 0) -> V] /\ \A x \in SUBSET (1 .. 0) : x = {} /\ it[x] = b
    OBVIOUS
  <2> HIDE DEF it
  <2>2. \A x \in SUBSET (1 .. 0) : it[x] = IF x = {} THEN b ELSE G[Max(x)][it[x \ {Max(x)}]]
    BY <2>1
  <2>3. 0 \in 0 .. n
    OBVIOUS
  <2> QED
    BY <2>1, <2>2, <2>3, Zenon
<1>2. ASSUME NEW m \in 1 .. n, m - 1 \in S PROVE m \in S
  <2>1. PICK it \in [SUBSET (1 .. m - 1) -> V] : \A x \in SUBSET (1 .. m - 1) :
          it[x] = IF x = {} THEN b ELSE G[Max(x)][it[x \ {Max(x)}]]
    BY <1>2
  <2> DEFINE jt == [x \in SUBSET (1 .. m) |-> IF m \in x THEN G[m][it[x \ {m}]] ELSE it[x]]
  <2>2. \A x \in SUBSET (1 .. m) : x \ {m} \in SUBSET (1 .. m - 1) /\ (m \notin x => x \in SUBSET (1 .. m - 1))
    OBVIOUS
  <2>3. jt \in [SUBSET (1 .. m) -> V]
    <3>1. ASSUME NEW x \in SUBSET (1 .. m) PROVE (IF m \in x THEN G[m][it[x \ {m}]] ELSE it[x]) \in V
      <4>1. CASE m \in x
        <5>1. it[x \ {m}] \in V
          BY <2>1, <2>2
        <5>2. G[m] \in [V -> V]
          OBVIOUS
        <5> QED
          BY <4>1, <5>1, <5>2
      <4>2. CASE m \notin x
        BY <2>1, <2>2, <4>2
      <4> QED
        BY <4>1, <4>2
    <3> QED
      BY <3>1
  <2>4. ASSUME NEW x \in SUBSET (1 .. m)
        PROVE  jt[x] = IF x = {} THEN b ELSE G[Max(x)][jt[x \ {Max(x)}]]
    <3>1. CASE m \in x
      <4>1. Max(x) = m
        BY <3>1, MaxIs
      <4>2. jt[x] = G[m][it[x \ {m}]]
        BY <3>1
      <4>3. jt[x \ {m}] = it[x \ {m}]
        OBVIOUS
      <4> HIDE DEF jt
      <4> QED
        BY <3>1, <4>1, <4>2, <4>3
    <3>2. CASE m \notin x
      <4>1. x \in SUBSET (1 .. m - 1)
        BY <2>2, <3>2
      <4>2. jt[x] = it[x] /\ it[x] = IF x = {} THEN b ELSE G[Max(x)][it[x \ {Max(x)}]]
        BY <2>1, <3>2, <4>1
      <4>3. jt[x \ {Max(x)}] = it[x \ {Max(x)}]
        BY <3>2
      <4> HIDE DEF jt
      <4> QED
        BY <4>2, <4>3
    <3> QED
      BY <3>1, <3>2
  <2> HIDE DEF jt
  <2>5. m \in 0 .. n
    OBVIOUS
  <2> QED
    BY <2>3, <2>4, <2>5
<1> HIDE DEF S
<1>3. n \in S
  <2>1. \A k \in 1 .. n : k - 1 \in S => k \in S
    BY <1>2
  <2>2. \A k \in 0 .. n : k \in S
    BY <1>1, <2>1, AllSteps
  <2> QED
    BY <2>2
<1>4. PICK it \in [SUBSET (1 .. n) -> V] : \A x \in SUBSET (1 .. n) :
        it[x] = IF x = {} THEN b ELSE G[Max(x)][it[x \ {Max(x)}]]
  BY <1>3 DEF S
<1>5. Iterated(it, V, b, n, G)
  BY <1>4 DEF Iterated
<1> QED
  BY <1>5

\* The values for the first places, one after the other.
LEMMA Interval ==
  ASSUME NEW n \in Nat, NEW k \in 1 .. n
  PROVE  /\ 1 .. k \in SUBSET (1 .. n) /\ 1 .. k # {} /\ Max(1 .. k) = k
         /\ (1 .. k) \ {k} = 1 .. k - 1 /\ 1 .. k - 1 \in SUBSET (1 .. n)
<1>1. 1 .. k \in SUBSET Int /\ k \in 1 .. k /\ \A s \in 1 .. k : s <= k
  OBVIOUS
<1>2. Max(1 .. k) = k
  BY <1>1, MaxIs
<1> QED
  BY <1>2

LEMMA NonEmpty ==
  ASSUME NEW n \in Nat, NEW x \in SUBSET (1 .. n), x # {}
  PROVE  Max(x) \in x /\ x \ {Max(x)} \in SUBSET (1 .. n)
<1>1. \A s \in x : s \in Nat /\ s <= n
  OBVIOUS
<1>2. PICK m \in x : \A s \in x : s <= m
  BY <1>1, MaxExists
<1>3. Max(x) = m
  BY <1>1, <1>2, MaxIs
<1> QED
  BY <1>2, <1>3

LEMMA PlaceByPlace ==
  ASSUME NEW V, NEW n \in Nat, NEW it, it[{}] \in V,
         \A k \in 1 .. n : it[1 .. k - 1] \in V => it[1 .. k] \in V
  PROVE  \A k \in 0 .. n : it[1 .. k] \in V
<1> DEFINE S == {k \in 0 .. n : it[1 .. k] \in V}
<1>1. 0 \in S
  <2>1. 1 .. 0 = {} /\ 0 \in 0 .. n
    OBVIOUS
  <2> QED
    BY <2>1
<1>2. \A k \in 1 .. n : k - 1 \in S => k \in S
  OBVIOUS
<1> HIDE DEF S
<1>3. \A k \in 0 .. n : k \in S
  BY <1>1, <1>2, AllSteps
<1> QED
  BY <1>3 DEF S
----------------------------------------------------------------------------
(* Remainders                                                               *)

\* A number is a multiple of w and a remainder, in one way.
LEMMA ModIs ==
  ASSUME NEW x \in Int, NEW w \in Nat, w > 0
  PROVE  x % w \in 0 .. w - 1 /\ x \div w \in Int /\ x = w * (x \div w) + (x % w)
OBVIOUS

LEMMA Times ==
  ASSUME NEW w \in Nat, w > 0, NEW q \in Int
  PROVE  (q >= 1 => w * q >= w) /\ (q <= -1 => w * q <= -w) /\ w * q \in Int
OBVIOUS

LEMMA ModUnique ==
  ASSUME NEW x \in Int, NEW w \in Nat, w > 0, NEW q \in Int, NEW r \in 0 .. w - 1, x = w * q + r
  PROVE  x % w = r
<1> DEFINE p == x \div w
           s == x % w
<1>1. s \in 0 .. w - 1 /\ p \in Int /\ x = w * p + s
  BY ModIs
<1> HIDE DEF p, s
<1>2. w * (p - q) = r - s
  BY <1>1
<1>3. p - q \in Int
  BY <1>1
<1>4. ~(p - q >= 1) /\ ~(p - q <= -1)
  BY <1>1, <1>2, <1>3, Times
<1>5. p = q
  BY <1>1, <1>3, <1>4
<1>6. r = s
  BY <1>1, <1>5
<1> QED
  BY <1>6 DEF s

LEMMA ModSmall ==
  ASSUME NEW w \in Nat, w > 0, NEW x \in 0 .. w - 1
  PROVE  x % w = x
<1>1. x = w * 0 + x
  OBVIOUS
<1> QED
  BY <1>1, ModUnique

LEMMA ModNeg ==
  ASSUME NEW w \in Nat, w > 0, NEW x \in Int, -w <= x, x < 0
  PROVE  x % w = x + w
<1>1. x = w * (-1) + (x + w)
  OBVIOUS
<1>2. x + w \in 0 .. w - 1
  OBVIOUS
<1> QED
  BY <1>1, <1>2, ModUnique
----------------------------------------------------------------------------
(* The layouts of structures                                                *)

LEMMA AlignIs ==
  /\ \A n \in Nat, a \in {1, 2, 4, 8, 16} : Align(n, a) \in Nat /\ Align(n, a) >= n
  /\ \A n \in Nat : Align(n, 0) = 0
  /\ Align(4, 4) = 4 /\ Align(8, 4) = 8 /\ Align(16, 4) = 16
BY DEF Align

LEMMA TypesAre ==
  /\ DOMAIN FfiTypes = {"schar", "uchar", "sshort", "ushort", "sint", "uint", "float", "double", "pointer", "void"}
  /\ FfiTypes["float"] = Type("FLOAT", 4, 4) /\ FfiTypes["uint"] = Type("UINT32", 4, 4)
BY DEF FfiTypes

LEMMA InitFlatIs ==
  ASSUME NEW l \in Layouts, NEW s \in Structs,
         s = "NSRect" => (l["NSPoint"] = True("NSPoint") /\ l["NSSize"] = True("NSSize"))
  PROVE  /\ InitFlat(l, s) \in Layouts /\ InitFlat(l, s)[s] = True(s)
         /\ \A u \in Structs : u # s => InitFlat(l, s)[u] = l[u]
<1>1. Laid(Type("FLOAT", 4, 4), Type("FLOAT", 4, 4)) = Type("STRUCT", 8, 4)
      /\ Laid(Type("UINT32", 4, 4), Type("UINT32", 4, 4)) = Type("STRUCT", 8, 4)
      /\ Laid(Type("STRUCT", 8, 4), Type("STRUCT", 8, 4)) = Type("STRUCT", 16, 4)
  BY AlignIs DEF Laid, Type
<1> DEFINE member(e) == IF e \in Structs THEN l[e] ELSE FfiTypes[e]
           m == Laid(member(Elements[s][1]), member(Elements[s][2]))
<1>2. m = True(s)
  <2>1. CASE s \in {"NSPoint", "NSSize"}
    <3>1. Elements[s][1] = "float" /\ Elements[s][2] = "float" /\ TrueSize[s] = 8
      BY <2>1 DEF Elements, TrueSize
    <3>2. "float" \notin Structs
      BY DEF Structs
    <3> QED
      BY <1>1, <3>1, <3>2, TypesAre DEF True
  <2>2. CASE s = "NSRange"
    <3>1. Elements[s][1] = "uint" /\ Elements[s][2] = "uint" /\ TrueSize[s] = 8
      BY <2>2 DEF Elements, TrueSize
    <3>2. "uint" \notin Structs
      BY DEF Structs
    <3> QED
      BY <1>1, <3>1, <3>2, TypesAre DEF True
  <2>3. CASE s = "NSRect"
    <3>1. Elements[s][1] = "NSPoint" /\ Elements[s][2] = "NSSize" /\ TrueSize[s] = 16
          /\ TrueSize["NSPoint"] = 8 /\ TrueSize["NSSize"] = 8
      BY <2>3 DEF Elements, TrueSize
    <3>2. "NSPoint" \in Structs /\ "NSSize" \in Structs
      BY DEF Structs
    <3> QED
      BY <1>1, <2>3, <3>1, <3>2 DEF True
  <2> QED
    BY <2>1, <2>2, <2>3 DEF Structs
<1>3. InitFlat(l, s) = [l EXCEPT ![s] = m]
  BY DEF InitFlat
<1> HIDE DEF m
<1>4. [l EXCEPT ![s] = m] \in Layouts
  BY <1>2 DEF Layouts
<1> QED
  BY <1>2, <1>3, <1>4 DEF Layouts

\* What has been laid out stays so.
Stays(l, m) == m \in Layouts /\ \A s \in Structs : l[s] = True(s) => m[s] = True(s)

LEMMA SizeSays == ASSUME NEW l \in Layouts, NEW s \in Structs PROVE l[s].size # 0 => l[s] = True(s)
<1>1. l[s] \in {Zero, True(s)} /\ Zero.size = 0
  BY DEF Layouts, Zero, Type
<1> QED
  BY <1>1

LEMMA InitMemberIs ==
  ASSUME NEW l \in Layouts, NEW e, e # "NSRect"
  PROVE  Stays(l, InitMember(l, e)) /\ (e \in Structs => InitMember(l, e)[e] = True(e))
<1>1. CASE e \in Structs /\ l[e].size = 0
  <2>1. InitMember(l, e) = InitFlat(l, e)
    BY <1>1 DEF InitMember
  <2> QED
    BY <1>1, <2>1, InitFlatIs DEF Stays
<1>2. CASE ~(e \in Structs /\ l[e].size = 0)
  <2>1. InitMember(l, e) = l
    BY <1>2 DEF InitMember
  <2> QED
    BY <1>2, <2>1, SizeSays DEF Stays
<1> QED
  BY <1>1, <1>2

LEMMA InitializedIs ==
  ASSUME NEW l \in Layouts, NEW t
  PROVE  Stays(l, Initialized(l, t)) /\ (t \in Structs => Initialized(l, t)[t] = True(t))
<1>1. CASE t \in Structs /\ l[t].size = 0
  <2> DEFINE x == Elements[t][1]
             y == Elements[t][2]
             m == InitMember(l, x)
             k == InitMember(m, y)
  <2>1. x # "NSRect" /\ y # "NSRect" /\ (t = "NSRect" => x = "NSPoint" /\ y = "NSSize")
    BY <1>1 DEF Elements, Structs
  <2>2. Initialized(l, t) = InitFlat(k, t)
    BY <1>1 DEF Initialized, InitAggregate
  <2> HIDE DEF x, y
  <2>3. Stays(l, m) /\ (x \in Structs => m[x] = True(x))
    BY <2>1, InitMemberIs
  <2>4. m \in Layouts
    BY <2>3 DEF Stays
  <2> HIDE DEF m
  <2>5. Stays(m, k) /\ (y \in Structs => k[y] = True(y))
    BY <2>1, <2>4, InitMemberIs
  <2> HIDE DEF k
  <2>6. "NSPoint" \in Structs /\ "NSSize" \in Structs
    BY DEF Structs
  <2>7. t = "NSRect" => (k["NSPoint"] = True("NSPoint") /\ k["NSSize"] = True("NSSize"))
    BY <2>1, <2>3, <2>5, <2>6 DEF Stays
  <2>8. k \in Layouts
    BY <2>5 DEF Stays
  <2>9. /\ InitFlat(k, t) \in Layouts /\ InitFlat(k, t)[t] = True(t)
        /\ \A u \in Structs : u # t => InitFlat(k, t)[u] = k[u]
    BY <1>1, <2>7, <2>8, InitFlatIs
  <2> QED
    BY <2>2, <2>3, <2>5, <2>9 DEF Stays
<1>2. CASE ~(t \in Structs /\ l[t].size = 0)
  <2>1. Initialized(l, t) = l
    BY <1>2 DEF Initialized
  <2> QED
    BY <1>2, <2>1, SizeSays DEF Stays
<1> QED
  BY <1>1, <1>2

\* ffi_prep_cif's initialization of the types, one after the other.
LayoutAfter(l, s) == FoldLeft(Initialized, l, s)

LEMMA LayoutFold ==
  ASSUME NEW l \in Layouts, NEW n \in Nat, NEW s, DOMAIN s = 1 .. n
  PROVE  \E f \in [0 .. n -> Layouts] :
           /\ f[0] = l /\ f[n] = LayoutAfter(l, s)
           /\ \A k \in 1 .. n : f[k] = Initialized(f[k - 1], s[k])
<1> DEFINE G == [k \in 1 .. n |-> [v \in Layouts |-> Initialized(v, s[k])]]
           It == CHOOSE it : it = [x \in SUBSET (DOMAIN s) |->
                   IF x = {} THEN l ELSE Initialized(it[x \ {Max(x)}], s[Max(x)])]
<1>1. G \in [1 .. n -> [Layouts -> Layouts]]
  BY InitializedIs DEF Stays
<1>2. \A k \in 1 .. n, v \in Layouts : G[k][v] = Initialized(v, s[k])
  OBVIOUS
<1> HIDE DEF G
<1> HIDE DEF It
<1>3. PICK it \in [SUBSET (1 .. n) -> Layouts] : \A x \in SUBSET (1 .. n) :
        it[x] = IF x = {} THEN l ELSE G[Max(x)][it[x \ {Max(x)}]]
  <2>1. \E it : Iterated(it, Layouts, l, n, G)
    BY <1>1, Iterates
  <2> QED
    BY <2>1 DEF Iterated
<1>4. it = [x \in SUBSET (DOMAIN s) |-> IF x = {} THEN l ELSE Initialized(it[x \ {Max(x)}], s[Max(x)])]
  <2>1. ASSUME NEW x \in SUBSET (1 .. n)
        PROVE  it[x] = IF x = {} THEN l ELSE Initialized(it[x \ {Max(x)}], s[Max(x)])
    <3>1. CASE x # {}
      <4>1. Max(x) \in 1 .. n /\ it[x \ {Max(x)}] \in Layouts
        BY <3>1, NonEmpty
      <4> QED
        BY <1>2, <1>3, <3>1, <4>1
    <3> QED
      BY <1>3, <3>1
  <2> QED
    BY <2>1
<1>5. It = [x \in SUBSET (DOMAIN s) |-> IF x = {} THEN l ELSE Initialized(It[x \ {Max(x)}], s[Max(x)])]
  BY <1>4 DEF It
<1>6. LayoutAfter(l, s) = It[1 .. n]
  BY DEF LayoutAfter, FoldLeft, MapThenFoldSet, It
<1>7. It[{}] = l
  BY <1>5
<1>8. ASSUME NEW k \in 1 .. n PROVE It[1 .. k] = Initialized(It[1 .. k - 1], s[k])
  <2> DEFINE x == 1 .. k
  <2>1. x \in SUBSET (DOMAIN s) /\ x # {} /\ Max(x) = k /\ x \ {Max(x)} = 1 .. k - 1
    BY Interval
  <2> HIDE DEF x
  <2>2. It[x] = Initialized(It[1 .. k - 1], s[k])
    BY <1>5, <2>1
  <2> QED
    BY <2>2 DEF x
<1>9. \A k \in 0 .. n : It[1 .. k] \in Layouts
  <2>1. \A k \in 1 .. n : It[1 .. k - 1] \in Layouts => It[1 .. k] \in Layouts
    BY <1>8, InitializedIs DEF Stays
  <2> QED
    BY <1>7, <2>1, PlaceByPlace
<1> DEFINE f == [k \in 0 .. n |-> It[1 .. k]]
<1>10. /\ f \in [0 .. n -> Layouts] /\ f[n] = It[1 .. n]
       /\ \A k \in 1 .. n : f[k] = It[1 .. k] /\ f[k - 1] = It[1 .. k - 1]
  BY <1>9
<1>11. f[0] = l
  <2>1. 1 .. 0 = {} /\ f[0] = It[1 .. 0]
    OBVIOUS
  <2> QED
    BY <1>7, <2>1
<1> HIDE DEF f
<1>12. /\ f[0] = l /\ f[n] = LayoutAfter(l, s)
       /\ \A k \in 1 .. n : f[k] = Initialized(f[k - 1], s[k])
  BY <1>6, <1>8, <1>10, <1>11
<1> QED
  BY <1>10, <1>12, Zenon

\* What is laid out after it: all that was, and all that is named.
LEMMA FoldLaysOut ==
  ASSUME NEW l \in Layouts, NEW n \in Nat, NEW s, DOMAIN s = 1 .. n
  PROVE  LET m == LayoutAfter(l, s)
         IN  Stays(l, m) /\ \A k \in 1 .. n : s[k] \in Structs => m[s[k]] = True(s[k])
<1> DEFINE m == LayoutAfter(l, s)
<1>0. \E f \in [0 .. n -> Layouts] :
        /\ f[0] = l /\ f[n] = m
        /\ \A k \in 1 .. n : f[k] = Initialized(f[k - 1], s[k])
  BY LayoutFold
<1> HIDE DEF m
<1>1. PICK f \in [0 .. n -> Layouts] :
        f[0] = l /\ f[n] = m /\ \A k \in 1 .. n : f[k] = Initialized(f[k - 1], s[k])
  BY <1>0
<1> DEFINE S == {k \in 0 .. n : Stays(l, f[k]) /\ \A j \in 1 .. k : s[j] \in Structs => f[k][s[j]] = True(s[j])}
<1>2. 0 \in S
  BY <1>1 DEF Stays
<1>3. ASSUME NEW k \in 1 .. n, k - 1 \in S PROVE k \in S
  <2>1. /\ f[k - 1] \in Layouts /\ Stays(l, f[k - 1])
        /\ \A j \in 1 .. k - 1 : s[j] \in Structs => f[k - 1][s[j]] = True(s[j])
    BY <1>3 DEF Stays
  <2>2. Stays(f[k - 1], f[k]) /\ (s[k] \in Structs => f[k][s[k]] = True(s[k]))
    BY <1>1, <2>1, InitializedIs
  <2>3. Stays(l, f[k])
    BY <2>1, <2>2 DEF Stays
  <2>4. ASSUME NEW j \in 1 .. k, s[j] \in Structs PROVE f[k][s[j]] = True(s[j])
    <3>1. CASE j = k
      BY <2>2, <2>4, <3>1
    <3>2. CASE j # k
      <4>1. j \in 1 .. k - 1
        BY <3>2
      <4> QED
        BY <2>1, <2>2, <2>4, <4>1 DEF Stays
    <3> QED
      BY <3>1, <3>2
  <2> QED
    BY <2>3, <2>4
<1> HIDE DEF S
<1>4. \A k \in 0 .. n : k \in S
  <2>1. \A k \in 1 .. n : k - 1 \in S => k \in S
    BY <1>3
  <2> QED
    BY <1>2, <2>1, AllSteps
<1>5. n \in S
  BY <1>4
<1>6. Stays(l, m) /\ \A k \in 1 .. n : s[k] \in Structs => m[s[k]] = True(s[k])
  BY <1>1, <1>5 DEF S
<1> QED
  BY <1>6 DEF m
----------------------------------------------------------------------------
(* Words of the stack                                                       *)

Wide == Structs \cup {"double"}

\* One place more is counted once, if it is of the kind.
LEMMA TallyNext ==
  ASSUME NEW ts, NEW C, NEW k \in Nat \ {0}
  PROVE  /\ Cardinality({j \in 1 .. k : ts[j] \in C}) \in Nat
         /\ Cardinality({j \in 1 .. k : ts[j] \in C})
              = Cardinality({j \in 1 .. k - 1 : ts[j] \in C}) + (IF ts[k] \in C THEN 1 ELSE 0)
<1> DEFINE A == {j \in 1 .. k : ts[j] \in C}
           B == {j \in 1 .. k - 1 : ts[j] \in C}
<1>1. IsFiniteSet(1 .. k) /\ A \in SUBSET (1 .. k)
  BY FS_Interval
<1>2. IsFiniteSet(1 .. k - 1) /\ B \in SUBSET (1 .. k - 1)
  BY FS_Interval
<1>3. IsFiniteSet(A) /\ IsFiniteSet(B)
  BY <1>1, <1>2, FS_Subset
<1>4. Cardinality(A) \in Nat /\ Cardinality(B) \in Nat
  BY <1>3, FS_CardinalityType
<1>5. k \notin B /\ A = IF ts[k] \in C THEN B \cup {k} ELSE B
  OBVIOUS
<1> HIDE DEF A, B
<1>6. CASE ts[k] \in C
  <2>1. Cardinality(B \cup {k}) = Cardinality(B) + 1
    BY <1>3, <1>5, FS_AddElement
  <2> QED
    BY <1>4, <1>5, <1>6, <2>1 DEF A, B
<1>7. CASE ts[k] \notin C
  BY <1>4, <1>5, <1>7 DEF A, B
<1> QED
  BY <1>6, <1>7

LEMMA WordsStart == ASSUME NEW ts, NEW h \in Nat PROVE Words(ts, h, 0) = h
<1>1. {j \in 1 .. 0 : ts[j] \in Wide} = {} /\ {j \in 1 .. 0 : ts[j] = "NSRect"} = {}
  OBVIOUS
<1>2. Cardinality({j \in 1 .. 0 : ts[j] \in Wide}) = 0 /\ Cardinality({j \in 1 .. 0 : ts[j] = "NSRect"}) = 0
  BY <1>1, FS_EmptySet
<1> QED
  BY <1>2 DEF Words, Wide

\* One argument more takes as many words as its type.
LEMMA WordsNext ==
  ASSUME NEW ts, NEW h \in Nat, NEW k \in Nat \ {0}
  PROVE  Words(ts, h, k) \in Nat /\ Words(ts, h, k) = Words(ts, h, k - 1) + TypeWords(ts[k])
<1> DEFINE a(m) == Cardinality({j \in 1 .. m : ts[j] \in Structs \cup {"double"}})
           b(m) == Cardinality({j \in 1 .. m : ts[j] = "NSRect"})
<1>1. a(k) \in Nat /\ a(k) = a(k - 1) + (IF ts[k] \in Structs \cup {"double"} THEN 1 ELSE 0)
  BY TallyNext
<1>2. b(k) \in Nat /\ b(k) = b(k - 1) + (IF ts[k] = "NSRect" THEN 1 ELSE 0)
  <2> DEFINE c(m) == Cardinality({j \in 1 .. m : ts[j] \in {"NSRect"}})
  <2>1. c(k) \in Nat /\ c(k) = c(k - 1) + (IF ts[k] \in {"NSRect"} THEN 1 ELSE 0)
    BY TallyNext
  <2>2. c(k) = b(k) /\ c(k - 1) = b(k - 1)
    <3>1. \A m : {j \in 1 .. m : ts[j] = "NSRect"} = {j \in 1 .. m : ts[j] \in {"NSRect"}}
      OBVIOUS
    <3> QED
      BY <3>1
  <2> HIDE DEF a, b, c
  <2> QED
    BY <2>1, <2>2
<1>3. a(k - 1) \in Int /\ b(k - 1) \in Int
  <2>1. IsFiniteSet(1 .. k - 1) /\ {j \in 1 .. k - 1 : ts[j] \in Structs \cup {"double"}} \in SUBSET (1 .. k - 1)
        /\ {j \in 1 .. k - 1 : ts[j] = "NSRect"} \in SUBSET (1 .. k - 1)
    BY FS_Interval
  <2>2. a(k - 1) \in Nat /\ b(k - 1) \in Nat
    BY <2>1, FS_Subset, FS_CardinalityType
  <2> QED
    BY <2>2
<1>4. Words(ts, h, k) = h + k + a(k) + 2 * b(k) /\ Words(ts, h, k - 1) = h + (k - 1) + a(k - 1) + 2 * b(k - 1)
  BY DEF Words
<1> HIDE DEF a, b
<1>5. TypeWords(ts[k]) = 1 + (IF ts[k] \in Structs \cup {"double"} THEN 1 ELSE 0) + (IF ts[k] = "NSRect" THEN 2 ELSE 0)
  BY DEF TypeWords
<1>6. /\ Words(ts, h, k) \in Nat
      /\ Words(ts, h, k - 1) = h + k - 1 + a(k - 1) + 2 * b(k - 1)
  BY <1>1, <1>2, <1>3, <1>4
<1>7. CASE ts[k] \in Structs \cup {"double"} /\ ts[k] = "NSRect"
  BY <1>1, <1>2, <1>3, <1>4, <1>5, <1>6, <1>7
<1>8. CASE ts[k] \in Structs \cup {"double"} /\ ts[k] # "NSRect"
  BY <1>1, <1>2, <1>3, <1>4, <1>5, <1>6, <1>8
<1>9. CASE ts[k] \notin Structs \cup {"double"} /\ ts[k] = "NSRect"
  BY <1>1, <1>2, <1>3, <1>4, <1>5, <1>6, <1>9
<1>10. CASE ts[k] \notin Structs \cup {"double"} /\ ts[k] # "NSRect"
  BY <1>1, <1>2, <1>3, <1>4, <1>5, <1>6, <1>10
<1> QED
  BY <1>6, <1>7, <1>8, <1>9, <1>10

LEMMA WordsType ==
  ASSUME NEW ts, NEW h \in Nat, NEW k \in Nat PROVE Words(ts, h, k) \in Nat
<1>1. CASE k = 0
  BY <1>1, WordsStart
<1>2. CASE k # 0
  BY <1>2, WordsNext
<1> QED
  BY <1>1, <1>2

LEMMA WordsAtLeast ==
  ASSUME NEW ts, NEW h \in Nat, NEW k \in Nat PROVE Words(ts, h, k) >= h + k
<1> DEFINE a == Cardinality({j \in 1 .. k : ts[j] \in Structs \cup {"double"}})
           b == Cardinality({j \in 1 .. k : ts[j] = "NSRect"})
<1>1. IsFiniteSet(1 .. k) /\ {j \in 1 .. k : ts[j] \in Structs \cup {"double"}} \in SUBSET (1 .. k)
      /\ {j \in 1 .. k : ts[j] = "NSRect"} \in SUBSET (1 .. k)
  BY FS_Interval
<1>2. a \in Nat /\ b \in Nat
  BY <1>1, FS_Subset, FS_CardinalityType
<1>3. Words(ts, h, k) = h + k + a + 2 * b
  BY DEF Words
<1> HIDE DEF a, b
<1> QED
  BY <1>2, <1>3

LEMMA TypeWordsType == ASSUME NEW t PROVE TypeWords(t) \in 1 .. 4
BY DEF TypeWords

\* What a type that is laid out takes on the stack.
Known(t) == t \in DOMAIN FfiTypes \/ (t \in Structs /\ layout[t] = True(t))

\* It takes the words of its type, whatever its alignment.
LEMMA SizeIs ==
  ASSUME NEW t, Known(t)
  PROVE  /\ TypeOf(t).size \in Nat /\ TypeOf(t).alignment \in {1, 2, 4}
         /\ STACK_ARG_SIZE(TypeOf(t).size) = 4 * TypeWords(t)
<1>0. \A n \in 1 .. 4 : STACK_ARG_SIZE(n) = 4
  BY DEF STACK_ARG_SIZE, Align
<1>00. STACK_ARG_SIZE(8) = 8 /\ STACK_ARG_SIZE(16) = 16
  BY DEF STACK_ARG_SIZE, Align
<1>1. CASE t \in Structs
  <2>0. t \notin DOMAIN FfiTypes
    BY <1>1, TypesAre DEF Structs
  <2>1. TypeOf(t) = True(t)
    BY <1>1, <2>0 DEF TypeOf, Known
  <2>2. TypeOf(t).size = TrueSize[t] /\ TypeOf(t).alignment = 4
    BY <2>1 DEF True, Type
  <2>3. CASE t = "NSRect"
    <3>1. TrueSize[t] = 16
      BY <2>3 DEF TrueSize
    <3>2. TypeWords(t) = 4
      BY <1>1, <2>3 DEF TypeWords
    <3> QED
      BY <1>00, <2>2, <3>1, <3>2
  <2>4. CASE t # "NSRect"
    <3>1. TrueSize[t] = 8
      BY <1>1, <2>4 DEF TrueSize, Structs
    <3>2. TypeWords(t) = 2
      BY <1>1, <2>4 DEF TypeWords
    <3> QED
      BY <1>00, <2>2, <3>1, <3>2
  <2> QED
    BY <2>3, <2>4
<1>2. CASE t \notin Structs
  <2>1. TypeOf(t) = FfiTypes[t] /\ t \in DOMAIN FfiTypes
    BY <1>2 DEF TypeOf, Known
  <2>2. CASE t = "double"
    <3>1. TypeOf(t) = Type("DOUBLE", 8, 4)
      BY <2>1, <2>2 DEF FfiTypes
    <3>2. TypeOf(t).size = 8 /\ TypeOf(t).alignment = 4
      BY <3>1 DEF Type
    <3>3. TypeWords(t) = 2
      BY <2>2 DEF TypeWords
    <3> QED
      BY <1>00, <3>2, <3>3
  <2>3. CASE t # "double"
    <3>1. TypeOf(t).size \in {1, 2, 4} /\ TypeOf(t).alignment \in {1, 2, 4}
      BY <2>1, <2>3, TypesAre DEF FfiTypes, Type
    <3>2. t # "NSRect"
      BY <1>2 DEF Structs
    <3>3. TypeWords(t) = 1
      BY <1>2, <2>3, <3>2 DEF TypeWords
    <3> QED
      BY <1>0, <3>1, <3>3
  <2> QED
    BY <2>2, <2>3
<1> QED
  BY <1>1, <1>2
----------------------------------------------------------------------------
(* The space that is reserved                                               *)

\* What one argument adds to the sum of ffi_prep_cif.
Added(sum, x) ==
  Align(sum, IF TypeOf(x).alignment > 4 THEN 4 ELSE TypeOf(x).alignment) + STACK_ARG_SIZE(TypeOf(x).size)

LEMMA AddedIs ==
  ASSUME NEW x, Known(x), NEW m \in Nat
  PROVE  Added(4 * m, x) = 4 * (m + TypeWords(x))
<1>1. TypeOf(x).alignment \in {1, 2, 4} /\ STACK_ARG_SIZE(TypeOf(x).size) = 4 * TypeWords(x)
  BY SizeIs
<1>2. \A a \in {1, 2, 4} : Align(4 * m, a) = 4 * m
  BY DEF Align
<1>3. Added(4 * m, x) = 4 * m + 4 * TypeWords(x)
  <2> DEFINE a == TypeOf(x).alignment
  <2>1. Added(4 * m, x) = Align(4 * m, IF a > 4 THEN 4 ELSE a) + 4 * TypeWords(x)
    BY <1>1 DEF Added
  <2>2. a \in {1, 2, 4}
    BY <1>1
  <2> HIDE DEF a
  <2>3. (IF a > 4 THEN 4 ELSE a) = a
    BY <2>2
  <2>4. Align(4 * m, a) = 4 * m
    BY <1>2, <2>2
  <2> QED
    BY <2>1, <2>3, <2>4
<1> QED
  BY <1>3, TypeWordsType

\* The sum is four bytes for each word, and one word for the address of a
\* large structure.
LEMMA BytesAre ==
  ASSUME NEW t, NEW n \in Nat, NEW ts, DOMAIN ts = 1 .. n, \A k \in 1 .. n : Known(ts[k]),
         NEW h \in {0, 1},
         h = 1 <=> TypeOf(t).type = "STRUCT" /\ struct_on_stack(TypeOf(t).size)
  PROVE  Bytes(t, ts) = 4 * Words(ts, h, n)
<1> DEFINE base == IF TypeOf(t).type = "STRUCT" /\ struct_on_stack(TypeOf(t).size) THEN STACK_ARG_SIZE(4) ELSE 0
           V == {4 * m : m \in Nat}
           G == [k \in 1 .. n |-> [v \in V |-> Added(v, ts[k])]]
           It == CHOOSE it : it = [x \in SUBSET (DOMAIN ts) |->
                   IF x = {} THEN base ELSE Added(it[x \ {Max(x)}], ts[Max(x)])]
<1>1. base = 4 * h
  BY DEF STACK_ARG_SIZE, Align
<1>2. Bytes(t, ts) = It[1 .. n]
  BY DEF Bytes, FoldLeft, MapThenFoldSet, Added, It
<1> HIDE DEF base
<1>3. base \in V
  BY <1>1
<1>4. \A k \in 1 .. n, m \in Nat : Added(4 * m, ts[k]) = 4 * (m + TypeWords(ts[k]))
  BY AddedIs
<1>5. ASSUME NEW k \in 1 .. n, NEW v \in V PROVE Added(v, ts[k]) \in V
  <2>1. PICK m \in Nat : v = 4 * m
    OBVIOUS
  <2>2. Added(4 * m, ts[k]) = 4 * (m + TypeWords(ts[k]))
    BY <1>4
  <2> DEFINE y == m + TypeWords(ts[k])
  <2>3. y \in Nat
    <3>1. TypeWords(ts[k]) \in 1 .. 4
      BY TypeWordsType
    <3> QED
      BY <3>1
  <2> HIDE DEF y
  <2>4. Added(v, ts[k]) = 4 * y
    BY <2>1, <2>2 DEF y
  <2> HIDE DEF G, It
  <2> QED
    BY <2>3, <2>4
<1> HIDE DEF V
<1>6. G \in [1 .. n -> [V -> V]]
  BY <1>5
<1>7. \A k \in 1 .. n, v \in V : G[k][v] = Added(v, ts[k])
  OBVIOUS
<1> HIDE DEF G
<1> HIDE DEF It
<1>8. PICK it \in [SUBSET (1 .. n) -> V] : \A x \in SUBSET (1 .. n) :
        it[x] = IF x = {} THEN base ELSE G[Max(x)][it[x \ {Max(x)}]]
  <2>1. \E it : Iterated(it, V, base, n, G)
    BY <1>3, <1>6, Iterates
  <2> QED
    BY <2>1 DEF Iterated
<1>9. it = [x \in SUBSET (DOMAIN ts) |-> IF x = {} THEN base ELSE Added(it[x \ {Max(x)}], ts[Max(x)])]
  <2>1. ASSUME NEW x \in SUBSET (1 .. n)
        PROVE  it[x] = IF x = {} THEN base ELSE Added(it[x \ {Max(x)}], ts[Max(x)])
    <3>1. CASE x # {}
      <4>1. Max(x) \in 1 .. n /\ it[x \ {Max(x)}] \in V
        BY <3>1, NonEmpty
      <4> QED
        BY <1>7, <1>8, <3>1, <4>1
    <3> QED
      BY <1>8, <3>1
  <2> QED
    BY <2>1
<1>10. It = [x \in SUBSET (DOMAIN ts) |-> IF x = {} THEN base ELSE Added(It[x \ {Max(x)}], ts[Max(x)])]
  BY <1>9 DEF It
<1>11. It[{}] = base
  BY <1>10
<1>12. ASSUME NEW k \in 1 .. n PROVE It[1 .. k] = Added(It[1 .. k - 1], ts[k])
  <2> DEFINE x == 1 .. k
  <2>1. x \in SUBSET (DOMAIN ts) /\ x # {} /\ Max(x) = k /\ x \ {Max(x)} = 1 .. k - 1
    BY Interval
  <2> HIDE DEF x
  <2>2. It[x] = Added(It[1 .. k - 1], ts[k])
    BY <1>10, <2>1
  <2> QED
    BY <2>2 DEF x
<1> DEFINE S == {k \in 0 .. n : It[1 .. k] = 4 * Words(ts, h, k)}
<1>13. 0 \in S
  <2>1. 1 .. 0 = {} /\ Words(ts, h, 0) = h /\ 0 \in 0 .. n
    BY WordsStart
  <2> QED
    BY <1>1, <1>11, <2>1
<1>14. ASSUME NEW k \in 1 .. n, k - 1 \in S PROVE k \in S
  <2>1. It[1 .. k] = Added(4 * Words(ts, h, k - 1), ts[k])
    BY <1>12, <1>14
  <2>2. Words(ts, h, k - 1) \in Nat /\ Words(ts, h, k) = Words(ts, h, k - 1) + TypeWords(ts[k])
    <3>1. k \in Nat \ {0} /\ k - 1 \in Nat /\ h \in Nat
      OBVIOUS
    <3> QED
      BY <3>1, WordsType, WordsNext
  <2> QED
    BY <1>4, <2>1, <2>2
<1> HIDE DEF S
<1>15. n \in S
  <2>1. \A k \in 1 .. n : k - 1 \in S => k \in S
    BY <1>14
  <2>2. \A k \in 0 .. n : k \in S
    BY <1>13, <2>1, AllSteps
  <2> QED
    BY <2>2
<1> QED
  BY <1>2, <1>15 DEF S
----------------------------------------------------------------------------
(* The words that are pushed                                                *)

\* The words of an argument.
LEMMA WordsOfIs ==
  ASSUME NEW n, Known(types[n])
  PROVE  /\ DOMAIN WordsOf(n) = 1 .. TypeWords(types[n])
         /\ \A W : (\A p \in 1 .. TypeWords(types[n]) : WordsOf(n)[p] \in W)
                     => WordsOf(n) \in [1 .. TypeWords(types[n]) -> W]
         /\ \A p \in 1 .. TypeWords(types[n]) :
              WordsOf(n)[p] = ArgWord(n, p, IF types[n] \in {"schar", "uchar", "sshort", "ushort", "sint", "uint"}
                                            THEN Extended(types[n], values[n]) ELSE 0)
<1>1. STACK_ARG_SIZE(TypeOf(types[n]).size) = 4 * TypeWords(types[n]) /\ TypeWords(types[n]) \in Nat
  BY SizeIs, TypeWordsType
<1>2. STACK_ARG_SIZE(TypeOf(types[n]).size) \div 4 = TypeWords(types[n])
  BY <1>1
<1> DEFINE m == TypeWords(types[n])
<1>3. WordsOf(n) = [p \in 1 .. m |-> ArgWord(n, p, IF types[n] \in {"schar", "uchar", "sshort", "ushort", "sint", "uint"}
                                            THEN Extended(types[n], values[n]) ELSE 0)]
  BY <1>2 DEF WordsOf
<1> HIDE DEF m
<1>4. \A p \in 1 .. m : WordsOf(n)[p] = ArgWord(n, p, IF types[n] \in {"schar", "uchar", "sshort", "ushort", "sint", "uint"}
                                            THEN Extended(types[n], values[n]) ELSE 0)
  BY <1>3
<1>5. DOMAIN WordsOf(n) = 1 .. m /\ WordsOf(n) = [p \in 1 .. m |-> WordsOf(n)[p]]
  BY <1>3
<1>6. \A W : (\A p \in 1 .. m : WordsOf(n)[p] \in W) => WordsOf(n) \in [1 .. m -> W]
  BY <1>5
<1> QED
  BY <1>4, <1>5, <1>6 DEF m

\* One argument more is pushed after the others and moves none of them.
LEMMA StackedNext ==
  ASSUME NEW W, NEW f \in Seq(W), NEW h \in {0, 1}, NEW k \in Nat \ {0},
         Stacked(f, h, k - 1), Known(types[k]), WordsOf(k) \in Seq(W)
  PROVE  Stacked(f \o WordsOf(k), h, k)
<1> DEFINE w == TypeWords(types[k])
           a(n) == Words(types, h, n)
           g == WordsOf(k)
           u == f \o g
<1>1. w \in 1 .. 4 /\ Len(g) = w
  <2>1. DOMAIN g = 1 .. w /\ w \in 1 .. 4
    BY WordsOfIs, TypeWordsType
  <2> QED
    BY <2>1
<1>2. a(k) = a(k - 1) + w /\ a(k - 1) \in Nat
  <2>1. k \in Nat \ {0} /\ k - 1 \in Nat /\ h \in Nat
    OBVIOUS
  <2> QED
    BY <2>1, WordsType, WordsNext
<1>3. Len(f) = a(k - 1) /\ (h = 1 => f[1].arg = 0)
  BY DEF Stacked
<1>4. \A n \in 1 .. k - 1 : \A p \in 1 .. TypeWords(types[n]) :
        a(n - 1) + p <= Len(f) /\ f[a(n - 1) + p] = WordsOf(n)[p]
  BY DEF Stacked
<1>5. \A n \in 1 .. k : a(n - 1) \in Nat
  <2>1. \A n \in 1 .. k : n - 1 \in Nat
    OBVIOUS
  <2>2. h \in Nat
    OBVIOUS
  <2> QED
    BY <2>1, <2>2, WordsType
<1>6. k >= 1 /\ (h = 1 => a(k - 1) >= 1)
  <2>1. h \in Nat /\ k - 1 \in Nat
    OBVIOUS
  <2>2. Words(types, h, k - 1) >= h + (k - 1)
    BY <2>1, WordsAtLeast
  <2> QED
    BY <1>2, <2>1, <2>2
<1> HIDE DEF a, w, g
<1>7. g \in Seq(W)
  BY DEF g
<1>8. Len(u) = a(k) /\ (\A i \in 1 .. Len(f) : u[i] = f[i]) /\ (\A i \in 1 .. w : u[Len(f) + i] = g[i])
  <2>1. Len(f) \in Nat /\ Len(g) = w /\ w \in Nat
    BY <1>1
  <2>2. Len(u) = Len(f) + w
    BY <1>7, <2>1
  <2>3. ASSUME NEW i \in 1 .. Len(f) PROVE u[i] = f[i]
    BY <1>7, <2>1
  <2>4. ASSUME NEW i \in 1 .. w PROVE u[Len(f) + i] = g[i]
    BY <1>7, <2>1
  <2> HIDE DEF u
  <2> QED
    BY <1>2, <1>3, <2>2, <2>3, <2>4
<1> HIDE DEF u
<1>9. h = 1 => u[1].arg = 0
  BY <1>3, <1>6, <1>8, <1>2
<1>10. ASSUME NEW n \in 1 .. k, NEW p \in 1 .. TypeWords(types[n])
       PROVE  a(n - 1) + p <= Len(u) /\ u[a(n - 1) + p] = WordsOf(n)[p]
  <2>1. CASE n = k
    <3>1. p \in 1 .. w
      BY <2>1 DEF w
    <3>2. a(n - 1) + p = Len(f) + p
      BY <1>3, <2>1
    <3>3. u[Len(f) + p] = WordsOf(n)[p]
      BY <1>8, <2>1, <3>1 DEF g
    <3> QED
      BY <1>1, <1>2, <1>3, <1>8, <3>1, <3>2, <3>3
  <2>2. CASE n # k
    <3>1. n \in 1 .. k - 1 /\ p \in Nat /\ p >= 1
      BY <2>2, TypeWordsType
    <3>2. a(n - 1) + p <= Len(f) /\ f[a(n - 1) + p] = WordsOf(n)[p]
      BY <1>4, <3>1
    <3>3. a(n - 1) + p \in 1 .. Len(f)
      BY <1>2, <1>3, <1>5, <3>1, <3>2
    <3> QED
      BY <1>1, <1>2, <1>3, <1>8, <3>2, <3>3
  <2> QED
    BY <2>1, <2>2
<1>11. Stacked(u, h, k)
  BY <1>8, <1>9, <1>10 DEF Stacked, a
<1> QED
  BY <1>11 DEF u, g

\* All of them.
FrameOf(b) == FoldLeft(LAMBDA f, n : f \o WordsOf(n), b, [n \in 1 .. Len(types) |-> n])

LEMMA FrameIs ==
  ASSUME NEW m \in Nat, Len(types) = m, \A k \in 1 .. m : Known(types[k]),
         NEW h \in {0, 1}, NEW base, base = IF h = 1 THEN <<ArgWord(0, 1, 0)>> ELSE <<>>
  PROVE  Stacked(FrameOf(base), h, m)
<1> DEFINE W == {ArgWord(0, 1, 0)} \cup {WordsOf(n)[p] : n \in 1 .. m, p \in 1 .. 4}
           V == Seq(W)
           s == [n \in 1 .. Len(types) |-> n]
           G == [k \in 1 .. m |-> [f \in V |-> f \o WordsOf(k)]]
           It == CHOOSE it : it = [x \in SUBSET (DOMAIN s) |->
                   IF x = {} THEN base ELSE it[x \ {Max(x)}] \o WordsOf(s[Max(x)])]
<1>1. FrameOf(base) = It[DOMAIN s]
  BY DEF FrameOf, FoldLeft, MapThenFoldSet, It, s
<1>2. DOMAIN s = 1 .. m /\ \A k \in 1 .. m : s[k] = k
  OBVIOUS
<1>3. base \in V
  <2>1. ArgWord(0, 1, 0) \in W
    OBVIOUS
  <2> HIDE DEF W
  <2>2. <<>> \in V /\ <<ArgWord(0, 1, 0)>> \in V
    BY <2>1
  <2> QED
    BY <2>2
<1>4. ASSUME NEW k \in 1 .. m PROVE WordsOf(k) \in V
  <2> DEFINE w == TypeWords(types[k])
  <2>1. w \in 1 .. 4
    BY TypeWordsType
  <2>2. \A p \in 1 .. w : WordsOf(k)[p] \in W
    BY <2>1
  <2> HIDE DEF W
  <2>3. WordsOf(k) \in [1 .. w -> W]
    BY <2>2, WordsOfIs
  <2> HIDE DEF w
  <2> QED
    BY <2>1, <2>3
<1> HIDE DEF W
<1>5. \A k \in 1 .. m, f \in V : f \o WordsOf(k) \in V
  BY <1>4
<1> HIDE DEF V
<1>6. G \in [1 .. m -> [V -> V]]
  BY <1>5
<1>7. \A k \in 1 .. m, f \in V : G[k][f] = f \o WordsOf(k)
  OBVIOUS
<1> HIDE DEF G
<1> HIDE DEF It
<1> HIDE DEF s
<1>8. PICK it \in [SUBSET (1 .. m) -> V] : \A x \in SUBSET (1 .. m) :
        it[x] = IF x = {} THEN base ELSE G[Max(x)][it[x \ {Max(x)}]]
  <2>1. \E it : Iterated(it, V, base, m, G)
    BY <1>3, <1>6, Iterates
  <2> QED
    BY <2>1 DEF Iterated
<1>9. it = [x \in SUBSET (DOMAIN s) |-> IF x = {} THEN base ELSE it[x \ {Max(x)}] \o WordsOf(s[Max(x)])]
  <2>1. ASSUME NEW x \in SUBSET (1 .. m)
        PROVE  it[x] = IF x = {} THEN base ELSE it[x \ {Max(x)}] \o WordsOf(s[Max(x)])
    <3>1. CASE x # {}
      <4>1. Max(x) \in 1 .. m /\ it[x \ {Max(x)}] \in V
        BY <3>1, NonEmpty
      <4> QED
        BY <1>2, <1>7, <1>8, <3>1, <4>1, ZenonT(60)
    <3> QED
      BY <1>8, <3>1
  <2> QED
    BY <1>2, <2>1
<1>10. It = [x \in SUBSET (DOMAIN s) |-> IF x = {} THEN base ELSE It[x \ {Max(x)}] \o WordsOf(s[Max(x)])]
  BY <1>9 DEF It
<1>11. It[{}] = base
  BY <1>10
<1>12. ASSUME NEW k \in 1 .. m PROVE It[1 .. k] = It[1 .. k - 1] \o WordsOf(k)
  <2> DEFINE x == 1 .. k
  <2>1. x \in SUBSET (DOMAIN s) /\ x # {} /\ Max(x) = k /\ x \ {Max(x)} = 1 .. k - 1
    BY <1>2, Interval
  <2> HIDE DEF x
  <2>2. It[x] = It[1 .. k - 1] \o WordsOf(k)
    BY <1>2, <1>10, <2>1
  <2> QED
    BY <2>2 DEF x
<1> DEFINE S == {k \in 0 .. m : It[1 .. k] \in V /\ Stacked(It[1 .. k], h, k)}
<1>13. 0 \in S
  <2>1. 1 .. 0 = {} /\ Words(types, h, 0) = h /\ 0 \in 0 .. m
    BY WordsStart
  <2>2. base \in V /\ Len(base) = h /\ (h = 1 => base[1].arg = 0)
    BY <1>3 DEF ArgWord
  <2>3. Stacked(base, h, 0)
    BY <2>1, <2>2 DEF Stacked
  <2> QED
    BY <1>3, <1>11, <2>1, <2>3
<1>14. ASSUME NEW k \in 1 .. m, k - 1 \in S PROVE k \in S
  <2> DEFINE f == It[1 .. k - 1]
  <2>1. f \in V /\ Stacked(f, h, k - 1)
    BY <1>14
  <2>2. It[1 .. k] = f \o WordsOf(k)
    BY <1>12
  <2> HIDE DEF f
  <2>3. WordsOf(k) \in V /\ f \o WordsOf(k) \in V /\ k \in Nat \ {0}
    BY <1>4, <1>5, <2>1
  <2>4. Stacked(f \o WordsOf(k), h, k)
    BY <2>1, <2>3, StackedNext DEF V
  <2>5. k \in 0 .. m /\ It[1 .. k] \in V /\ Stacked(It[1 .. k], h, k)
    BY <2>2, <2>3, <2>4
  <2> QED
    BY <2>5
<1> HIDE DEF S
<1>15. m \in S
  <2>1. \A k \in 1 .. m : k - 1 \in S => k \in S
    BY <1>14
  <2>2. \A k \in 0 .. m : k \in S
    BY <1>13, <2>1, AllSteps
  <2> QED
    BY <2>2
<1> QED
  BY <1>1, <1>2, <1>15 DEF S
----------------------------------------------------------------------------
(* Where the method looks                                                   *)

Steps(c) == IF callee = "native" THEN NativeWords(c) ELSE PerlWords(c)

LEMMA WordsTwo ==
  ASSUME NEW ts, NEW h \in Nat, TypeWords(ts[1]) = 1, TypeWords(ts[2]) = 1
  PROVE  Words(ts, h, 0) = h /\ Words(ts, h, 1) = h + 1 /\ Words(ts, h, 2) = h + 2
<1>1. Words(ts, h, 0) = h
  BY WordsStart
<1>2. Words(ts, h, 1) = Words(ts, h, 1 - 1) + TypeWords(ts[1])
  <2>1. 1 \in Nat \ {0}
    OBVIOUS
  <2> QED
    BY <2>1, WordsNext
<1>3. Words(ts, h, 2) = Words(ts, h, 2 - 1) + TypeWords(ts[2])
  <2>1. 2 \in Nat \ {0}
    OBVIOUS
  <2> QED
    BY <2>1, WordsNext
<1>4. 1 - 1 = 0 /\ 2 - 1 = 1
  OBVIOUS
<1> QED
  BY <1>1, <1>2, <1>3, <1>4

\* The method steps over as many words as the first m arguments after self
\* and _cmd take.
Agreed(m) == \A j \in 1 .. m : Steps(sig.args[j]) = TypeWords(types[j + 2])
Offset == IF callee = "native" /\ InMemory(sig.ret) THEN 1 ELSE 0

\* The method looks where the words of the arguments before end.
LEMMA PositionIs ==
  ASSUME NEW C, sig.args \in Seq(C), NEW n \in 3 .. Len(sig.args) + 3,
         TypeWords(types[1]) = 1, TypeWords(types[2]) = 1, Agreed(n - 3)
  PROVE  Position(n) = Words(types, Offset, n - 1) + 1
<1> DEFINE h == Offset
           m == n - 3
           base == Offset + 3
           s == SubSeq(sig.args, 1, n - 3)
           V == Nat
           G == [k \in 1 .. m |-> [v \in V |-> v + Steps(sig.args[k])]]
           It == CHOOSE it : it = [x \in SUBSET (DOMAIN s) |->
                   IF x = {} THEN base ELSE it[x \ {Max(x)}] + Steps(s[Max(x)])]
<1>1. Position(n) = It[DOMAIN s]
  <2>1. ~(n <= 2)
    OBVIOUS
  <2> QED
    BY <2>1, Zenon DEF Position, FoldLeft, MapThenFoldSet, Steps, It, Offset
<1>0. m \in 0 .. Len(sig.args) /\ m \in Nat /\ h \in {0, 1} /\ h \in Nat
  BY DEF Offset
<1>00. \A j \in 1 .. m : Steps(sig.args[j]) = TypeWords(types[j + 2])
  BY DEF Agreed
<1>000. Words(types, h, 0) = h /\ Words(types, h, 1) = h + 1 /\ Words(types, h, 2) = h + 2
  BY <1>0, WordsTwo
<1> HIDE DEF h
<1>2. DOMAIN s = 1 .. m /\ \A k \in 1 .. m : s[k] = sig.args[k]
  <2> DEFINE a == sig.args
  <2>1. a \in Seq(C) /\ m \in 0 .. Len(a)
    BY <1>0
  <2> HIDE DEF a, m
  <2>2. SubSeq(a, 1, m) = [i \in 1 .. m |-> a[i]]
    BY <2>1
  <2> QED
    BY <2>1, <2>2 DEF a, m
<1>3. base = h + 3 /\ base \in V
  BY <1>0 DEF h
<1>4. ASSUME NEW k \in 1 .. m PROVE Steps(sig.args[k]) \in Nat
  <2>1. Steps(sig.args[k]) = TypeWords(types[k + 2]) /\ TypeWords(types[k + 2]) \in 1 .. 4
    BY <1>00, TypeWordsType
  <2> QED
    BY <2>1
<1> HIDE DEF base, m
<1>5. \A k \in 1 .. m, v \in V : v + Steps(sig.args[k]) \in V
  BY <1>4
<1>6. G \in [1 .. m -> [V -> V]]
  BY <1>5
<1>7. \A k \in 1 .. m, v \in V : G[k][v] = v + Steps(sig.args[k])
  OBVIOUS
<1> HIDE DEF G
<1> HIDE DEF It
<1> HIDE DEF s
<1>8. PICK it \in [SUBSET (1 .. m) -> V] : \A x \in SUBSET (1 .. m) :
        it[x] = IF x = {} THEN base ELSE G[Max(x)][it[x \ {Max(x)}]]
  <2>1. \E it : Iterated(it, V, base, m, G)
    <3>1. m \in Nat
      BY <1>0
    <3> QED
      BY <1>3, <1>6, <3>1, Iterates
  <2> QED
    BY <2>1 DEF Iterated
<1>9. it = [x \in SUBSET (DOMAIN s) |-> IF x = {} THEN base ELSE it[x \ {Max(x)}] + Steps(s[Max(x)])]
  <2>1. ASSUME NEW x \in SUBSET (1 .. m)
        PROVE  it[x] = IF x = {} THEN base ELSE it[x \ {Max(x)}] + Steps(s[Max(x)])
    <3>1. CASE x # {}
      <4>1. Max(x) \in 1 .. m /\ it[x \ {Max(x)}] \in V
        BY <1>0, <3>1, NonEmpty
      <4> HIDE DEF V
      <4> QED
        BY <1>2, <1>7, <1>8, <3>1, <4>1, ZenonT(60)
    <3> QED
      BY <1>8, <3>1
  <2> QED
    BY <1>2, <2>1
<1>10. It = [x \in SUBSET (DOMAIN s) |-> IF x = {} THEN base ELSE It[x \ {Max(x)}] + Steps(s[Max(x)])]
  BY <1>9 DEF It
<1>11. It[{}] = base
  BY <1>10
<1>12. ASSUME NEW k \in 1 .. m PROVE It[1 .. k] = It[1 .. k - 1] + Steps(sig.args[k])
  <2> DEFINE x == 1 .. k
  <2>1. x \in SUBSET (DOMAIN s) /\ x # {} /\ Max(x) = k /\ x \ {Max(x)} = 1 .. k - 1
    BY <1>0, <1>2, Interval
  <2> HIDE DEF x
  <2>2. It[x] = It[1 .. k - 1] + Steps(sig.args[k])
    BY <1>2, <1>10, <2>1
  <2> QED
    BY <2>2 DEF x
<1> DEFINE S == {k \in 0 .. m : It[1 .. k] = Words(types, h, k + 2) + 1}
<1>13. 0 \in S
  <2>1. 1 .. 0 = {} /\ 0 \in 0 .. m /\ 0 + 2 = 2
    BY <1>0
  <2>2. It[1 .. 0] = h + 3 /\ Words(types, h, 0 + 2) = h + 2
    BY <1>000, <1>3, <1>11, <2>1
  <2>3. h + 2 + 1 = h + 3
    BY <1>0
  <2> QED
    BY <2>1, <2>2, <2>3
<1>14. ASSUME NEW k \in 1 .. m, k - 1 \in S PROVE k \in S
  <2>1. It[1 .. k - 1] = Words(types, h, k - 1 + 2) + 1
    BY <1>14
  <2>2. Words(types, h, k + 2) = Words(types, h, k + 2 - 1) + TypeWords(types[k + 2])
    <3>1. k + 2 \in Nat \ {0}
      BY <1>0
    <3> QED
      BY <1>0, <3>1, WordsNext
  <2>3. k - 1 + 2 = k + 1 /\ k + 2 - 1 = k + 1 /\ k \in 0 .. m /\ k + 1 \in Nat
    BY <1>0
  <2>4. TypeWords(types[k + 2]) \in 1 .. 4
    BY TypeWordsType
  <2>5. Words(types, h, k + 1) \in Nat
    BY <1>0, <2>3, WordsType
  <2>6. It[1 .. k] = It[1 .. k - 1] + TypeWords(types[k + 2])
    BY <1>00, <1>12
  <2>7. It[1 .. k] = Words(types, h, k + 2) + 1
    BY <2>1, <2>2, <2>3, <2>4, <2>5, <2>6
  <2> QED
    BY <2>3, <2>7
<1> HIDE DEF S
<1>15. m \in S
  <2>1. \A k \in 1 .. m : k - 1 \in S => k \in S
    BY <1>14
  <2>2. m \in Nat
    BY <1>0
  <2>3. \A k \in 0 .. m : k \in S
    BY <1>13, <2>1, <2>2, AllSteps
  <2> QED
    BY <2>2, <2>3
<1>16. It[1 .. m] = Words(types, h, m + 2) + 1
  BY <1>15 DEF S
<1>17. m + 2 = n - 1
  BY DEF m
<1> QED
  BY <1>1, <1>2, <1>16, <1>17 DEF h
----------------------------------------------------------------------------
(* Numbers of a type                                                        *)

\* The low bytes of the low bytes, and of a number of whole words more.
LEMMA ModMod ==
  ASSUME NEW x \in Int, NEW w \in Nat, w > 0, NEW q \in Nat, q > 0
  PROVE  (x % (w * q)) % w = x % w
<1> DEFINE v == w * q
<1>1. v \in Nat /\ v > 0
  OBVIOUS
<1> DEFINE p == x \div v
           r == x % v
<1>2. r \in Int /\ p \in Int /\ x = (v * p) + r
  <2> HIDE DEF v
  <2> QED
    BY <1>1, ModIs
<1> HIDE DEF p, r
<1> DEFINE s == r % w
           d == r \div w
<1>3. s \in 0 .. w - 1 /\ d \in Int /\ r = (w * d) + s
  BY <1>2, ModIs
<1> HIDE DEF s, d
<1>4. x = w * ((q * p) + d) + s /\ (q * p) + d \in Int
  BY <1>2, <1>3
<1>5. x % w = s
  <2> DEFINE e == (q * p) + d
  <2>1. x = w * e + s /\ e \in Int
    BY <1>4
  <2> HIDE DEF e
  <2> QED
    BY <1>3, <2>1, ModUnique
<1> QED
  BY <1>5 DEF s, r, v

LEMMA ModPlus ==
  ASSUME NEW x \in Int, NEW w \in Nat, w > 0, NEW q \in Int
  PROVE  (x + (w * q)) % w = x % w
<1> DEFINE s == x % w
           d == x \div w
<1>1. s \in 0 .. w - 1 /\ d \in Int /\ x = (w * d) + s
  BY ModIs
<1> HIDE DEF s, d
<1>2. x + (w * q) = w * (d + q) + s /\ d + q \in Int /\ x + (w * q) \in Int
  BY <1>1
<1> DEFINE y == x + (w * q)
           e == d + q
<1>3. y = w * e + s /\ e \in Int /\ y \in Int
  BY <1>2
<1> HIDE DEF y, e
<1>4. y % w = s
  BY <1>1, <1>3, ModUnique
<1> QED
  BY <1>4 DEF y, s

LEMMA WidthIs ==
  ASSUME NEW n \in {1, 2, 4}
  PROVE  /\ Width(n) \in Nat /\ Width(n) > 0 /\ Word \in Nat /\ Word > 0 /\ Width(n) <= Word
         /\ \E q \in Nat : q > 0 /\ Word = Width(n) * q
<1>1. Byte \in Nat /\ Byte > 0
  BY ForeignCallAssumption
<1> DEFINE two == Byte * Byte
<1>2. two \in Nat /\ two > 0
  BY <1>1
<1>3. Word = two * two /\ Word = Byte * (Byte * two) /\ Byte * two \in Nat /\ Byte * two > 0
      /\ Word \in Nat /\ Word > 0
  <2>1. Word = Byte * Byte * Byte * Byte
    BY DEF Word, Width
  <2>2. Byte * Byte * Byte * Byte = two * two /\ Byte * Byte * Byte * Byte = Byte * (Byte * two)
    BY <1>1
  <2> HIDE DEF two
  <2>3. two * two \in Nat /\ two * two > 0 /\ Byte * two \in Nat /\ Byte * two > 0
    BY <1>1, <1>2
  <2> QED
    BY <2>1, <2>2, <2>3
<1>4. CASE n = 1
  <2>1. Width(n) = Byte
    BY <1>4 DEF Width
  <2> DEFINE q == Byte * two
  <2>2. q \in Nat /\ q > 0 /\ Word = Byte * q
    BY <1>3
  <2> HIDE DEF q
  <2>3. Byte <= Byte * q
    BY <1>1, <2>2
  <2> QED
    BY <1>1, <1>3, <2>1, <2>2, <2>3
<1>5. CASE n = 2
  <2>1. Width(n) = two
    BY <1>5 DEF Width
  <2> HIDE DEF two
  <2>2. two <= two * two
    BY <1>2
  <2> QED
    BY <1>2, <1>3, <2>1, <2>2
<1>6. CASE n = 4
  <2>1. Width(n) = Word
    BY <1>6 DEF Word
  <2> DEFINE w == Word
  <2>2. w \in Nat /\ w > 0 /\ w = w * 1 /\ Width(n) = w
    BY <1>3, <2>1
  <2> HIDE DEF w
  <2>3. 1 \in Nat /\ 1 > 0 /\ w <= w
    BY <2>2
  <2> QED
    BY <2>2, <2>3 DEF w
<1> QED
  BY <1>4, <1>5, <1>6

\* The numbers of n bytes.
LEMMA UnsignedIs ==
  ASSUME NEW n \in {1, 2, 4}, NEW x \in Int
  PROVE  /\ Unsigned(x, n) \in 0 .. Width(n) - 1
         /\ (0 <= x /\ x < Width(n)) => Unsigned(x, n) = x
         /\ Unsigned(Unsigned(x, 4), n) = Unsigned(x, n)
<1>1. Width(n) \in Nat /\ Width(n) > 0
  BY WidthIs
<1>2. Unsigned(x, n) = x % Width(n)
  BY DEF Unsigned
<1>3. Unsigned(x, n) \in 0 .. Width(n) - 1
  BY <1>1, <1>2, ModIs
<1>4. ASSUME 0 <= x, x < Width(n) PROVE Unsigned(x, n) = x
  <2>1. x \in 0 .. Width(n) - 1
    BY <1>1, <1>4
  <2> QED
    BY <1>1, <1>2, <2>1, ModSmall
<1>5. Unsigned(Unsigned(x, 4), n) = Unsigned(x, n)
  <2>1. PICK q \in Nat : q > 0 /\ Word = Width(n) * q
    BY WidthIs
  <2>2. Unsigned(Unsigned(x, 4), n) = (x % Word) % Width(n)
    BY DEF Unsigned, Word
  <2>3. (x % (Width(n) * q)) % Width(n) = x % Width(n)
    BY <1>1, <2>1, ModMod
  <2> QED
    BY <1>2, <2>1, <2>2, <2>3
<1> QED
  BY <1>3, <1>4, <1>5

LEMMA SignedIs ==
  ASSUME NEW n \in {1, 2, 4}, NEW y \in Int
  PROVE  SignedOf(y, n) \in Int /\ Unsigned(SignedOf(y, n), n) = Unsigned(y, n)
<1> DEFINE w == Width(n)
           u == y % w
<1>1. w \in Nat /\ w > 0
  BY WidthIs
<1>2. u \in 0 .. w - 1 /\ u = Unsigned(y, n)
  BY <1>1, ModIs DEF Unsigned
<1>3. SignedOf(y, n) = IF 2 * u < w THEN u ELSE u - w
  BY DEF SignedOf
<1> HIDE DEF u
<1>4. u % w = u /\ (u - w) % w = u
  <2> HIDE DEF w
  <2>1. u % w = u
    BY <1>1, <1>2, ModSmall
  <2>2. u - w < 0 /\ -w <= u - w /\ u - w \in Int
    BY <1>1, <1>2
  <2>3. (u - w) % w = (u - w) + w
    BY <1>1, <2>2, ModNeg
  <2> QED
    BY <1>1, <1>2, <2>1, <2>3
<1>5. SignedOf(y, n) \in Int /\ SignedOf(y, n) % w = u
  <2> HIDE DEF w
  <2> QED
    BY <1>1, <1>2, <1>3, <1>4
<1> QED
  BY <1>2, <1>5 DEF Unsigned

\* A number in the range of n bytes is found again from its low bytes.
LEMMA SignedExact ==
  ASSUME NEW n \in {1, 2, 4}, NEW y \in Int, NEW x \in Int,
         -Width(n) <= 2 * x, 2 * x < Width(n), Unsigned(x, n) = Unsigned(y, n)
  PROVE  SignedOf(y, n) = x
<1> DEFINE w == Width(n)
           u == y % w
<1>1. w \in Nat /\ w > 0 /\ -w <= 2 * x /\ 2 * x < w
  BY WidthIs
<1>2. u = x % w
  BY DEF Unsigned
<1>3. SignedOf(y, n) = IF 2 * u < w THEN u ELSE u - w
  BY DEF SignedOf
<1> HIDE DEF u, w
<1>4. CASE x >= 0
  <2>1. x \in 0 .. w - 1
    BY <1>1, <1>4
  <2>2. x % w = x
    BY <1>1, <2>1, ModSmall
  <2> QED
    BY <1>1, <1>2, <1>3, <2>2
<1>5. CASE x < 0
  <2>1. -w <= x
    BY <1>1, <1>5
  <2>2. x % w = x + w
    BY <1>1, <1>5, <2>1, ModNeg
  <2>3. ~(2 * u < w) /\ u - w = x
    BY <1>1, <1>2, <2>2
  <2> QED
    BY <1>3, <2>3
<1> QED
  BY <1>4, <1>5

LEMMA CodeIs ==
  ASSUME NEW c \in IntCodes
  PROVE  /\ SizeOf(c) \in {1, 2, 4} /\ ArgumentType(c) \in DOMAIN FfiTypes
         /\ FfiTypes[ArgumentType(c)].size = SizeOf(c)
         /\ c \in Signed <=> ArgumentType(c) \in {"schar", "sshort", "sint"}
         /\ ArgumentType(c) \in {"schar", "uchar", "sshort", "ushort", "sint", "uint"}
<1>1. /\ FfiTypes["schar"].size = 1 /\ FfiTypes["uchar"].size = 1
      /\ FfiTypes["sshort"].size = 2 /\ FfiTypes["ushort"].size = 2
      /\ FfiTypes["sint"].size = 4 /\ FfiTypes["uint"].size = 4
  BY DEF FfiTypes, Type
<1>2. /\ c = "c" => ArgumentType(c) = "schar"
      /\ c = "C" => ArgumentType(c) = "uchar"
      /\ c = "s" => ArgumentType(c) = "sshort"
      /\ c = "S" => ArgumentType(c) = "ushort"
      /\ c \in {"i", "l"} => ArgumentType(c) = "sint"
      /\ c \in {"I", "L"} => ArgumentType(c) = "uint"
  BY DEF ArgumentType, Structs, Tagged
<1>3. SizeOf(c) = IF c \in {"c", "C"} THEN 1 ELSE IF c \in {"s", "S"} THEN 2 ELSE 4
  BY DEF SizeOf
<1> DEFINE t == ArgumentType(c)
           size(u) == FfiTypes[u].size
<1>4. /\ size("schar") = 1 /\ size("uchar") = 1
      /\ size("sshort") = 2 /\ size("ushort") = 2
      /\ size("sint") = 4 /\ size("uint") = 4
  BY <1>1
<1>5. t \in {"schar", "uchar", "sshort", "ushort", "sint", "uint"}
  BY <1>2 DEF IntCodes
<1>6. c \in Signed <=> t \in {"schar", "sshort", "sint"}
  BY <1>2 DEF IntCodes, Signed
<1>7. size(t) = SizeOf(c) /\ SizeOf(c) \in {1, 2, 4}
  <2> HIDE DEF size
  <2> QED
    BY <1>2, <1>3, <1>4 DEF IntCodes
<1> QED
  BY <1>5, <1>6, <1>7, TypesAre

\* A number of the type arrives: its bits do, and its value does if the method
\* is native or the number is in the lower half of the word.
LEMMA Arrives ==
  ASSUME NEW c \in IntCodes, NEW x \in Int, InRange(x, c)
  PROVE  LET y == Reads(c, Extended(ArgumentType(c), Unsigned(x, SizeOf(c))))
         IN Unsigned(y, 4) = Unsigned(x, 4) /\ (callee # "perl" \/ 2 * x < Word => y = x)
<1> DEFINE n == SizeOf(c)
           w == Width(n)
           v == Unsigned(x, n)
           e == Extended(ArgumentType(c), v)
           y == Reads(c, e)
<1>0. n \in {1, 2, 4} /\ w = Width(n) /\ 4 \in {1, 2, 4}
  BY CodeIs
<1>00. y = IF callee = "perl" THEN SignedOf(e, 4) ELSE IF c \in Signed THEN SignedOf(e, n) ELSE Unsigned(e, n)
  BY DEF Reads
<1>000. e = IF c \in Signed THEN SignedOf(v, n) % Word ELSE Unsigned(v, n)
  BY CodeIs DEF Extended
<1>01. InRange(x, c) = IF c \in Signed THEN -w <= 2 * x /\ 2 * x < w ELSE 0 <= x /\ x < w
  BY DEF InRange
<1> HIDE DEF n, e
<1>1. w \in Nat /\ w > 0 /\ w <= Word /\ Word \in Nat /\ Word = Width(4)
  BY <1>0, WidthIs DEF Word
<1>2. v \in 0 .. w - 1 /\ v \in Int
  BY <1>0, <1>1, UnsignedIs
<1>7. v = Unsigned(x, n) /\ w = Width(n)
  OBVIOUS
<1> HIDE DEF v, w, y
<1>3. Unsigned(v, n) = v /\ v = Unsigned(x, n)
  BY <1>0, <1>1, <1>2, <1>7, UnsignedIs
<1>4. CASE c \in Signed
  <2>1. -w <= 2 * x /\ 2 * x < w
    BY <1>01, <1>4
  <2>2. SignedOf(v, n) = x
    BY <1>0, <1>2, <1>3, <1>7, <2>1, SignedExact
  <2>3. e = Unsigned(x, 4)
    BY <1>000, <1>4, <2>2 DEF Unsigned, Word
  <2>4. Unsigned(x, 4) \in Int
    BY <1>0, <1>1, UnsignedIs
  <2>5. SignedOf(e, n) = x
    <3>1. Unsigned(x, n) = Unsigned(e, n)
      BY <1>0, <2>3, UnsignedIs
    <3> QED
      BY <1>0, <1>7, <2>1, <2>3, <2>4, <3>1, SignedExact
  <2>6. SignedOf(e, 4) = x
    <3>1. Unsigned(x, 4) = Unsigned(e, 4)
      BY <1>0, <2>3, UnsignedIs
    <3>2. -Width(4) <= 2 * x /\ 2 * x < Width(4)
      BY <1>1, <2>1
    <3> QED
      BY <1>0, <2>3, <2>4, <3>1, <3>2, SignedExact
  <2>7. y = x
    BY <1>00, <1>4, <2>5, <2>6
  <2> QED
    BY <2>7 DEF e, v, n, y
<1>5. CASE c \notin Signed
  <2>1. 0 <= x /\ x < w
    BY <1>01, <1>5
  <2>2. v = x
    BY <1>0, <1>3, <1>7, <2>1, UnsignedIs
  <2>3. e = x
    BY <1>000, <1>3, <1>5, <2>2
  <2>4. Unsigned(e, n) = x
    BY <1>3, <2>2, <2>3
  <2>5. Unsigned(SignedOf(e, 4), 4) = Unsigned(x, 4)
    BY <1>0, <2>3, SignedIs
  <2>6. ASSUME 2 * x < Word PROVE SignedOf(e, 4) = x
    <3>1. -Width(4) <= 2 * x /\ 2 * x < Width(4) /\ Unsigned(x, 4) = Unsigned(e, 4)
      BY <1>1, <2>1, <2>3, <2>6
    <3> QED
      BY <1>0, <2>3, <3>1, SignedExact
  <2>7. Unsigned(y, 4) = Unsigned(x, 4) /\ (callee # "perl" \/ 2 * x < Word => y = x)
    BY <1>00, <1>5, <2>4, <2>5, <2>6
  <2> QED
    BY <2>7 DEF e, v, n, y
<1> QED
  BY <1>4, <1>5

\* What is in the register ends in the number's bytes.
LEMMA RegisterIs ==
  ASSUME NEW c \in IntCodes, NEW x \in Int, NEW w \in InEax(x, c)
  PROVE  w \in Int /\ Unsigned(w, SizeOf(c)) = Unsigned(x, SizeOf(c))
<1> DEFINE n == SizeOf(c)
           u == Unsigned(x, n)
<1>0. n \in {1, 2, 4}
  BY CodeIs
<1> HIDE DEF n
<1>1. /\ w = Unsigned(x, 4)
      \/ w = Unsigned(x, n)
      \/ w = Unsigned(x, n) + Word - Width(n)
  BY DEF InEax, n
<1>2. u \in 0 .. Width(n) - 1 /\ Unsigned(u, n) = u /\ Width(n) \in Nat
  <2>1. Width(n) \in Nat /\ u \in 0 .. Width(n) - 1
    BY <1>0, UnsignedIs, WidthIs
  <2> HIDE DEF u
  <2>2. Unsigned(u, n) = u
    BY <1>0, <2>1, UnsignedIs
  <2> QED
    BY <2>1, <2>2
<1>3. CASE w = Unsigned(x, 4)
  <2>1. Unsigned(x, 4) \in 0 .. Width(4) - 1 /\ Width(4) \in Nat
    BY UnsignedIs, WidthIs
  <2>2. Unsigned(w, n) = Unsigned(x, n)
    BY <1>0, <1>3, UnsignedIs
  <2> QED
    BY <1>3, <2>1, <2>2 DEF n
<1>4. CASE w = u
  BY <1>2, <1>4 DEF n
<1>5. CASE w = u + Word - Width(n)
  <2>1. PICK q \in Nat : q > 0 /\ Word = Width(n) * q
    BY <1>0, WidthIs
  <2> DEFINE k == Width(n)
  <2>2. k \in Nat /\ k > 0
    BY <1>0, WidthIs
  <2> HIDE DEF k, u
  <2>3. w = u + k * (q - 1) /\ q - 1 \in Int /\ w \in Int
    BY <1>2, <1>5, <2>1, <2>2 DEF k
  <2>4. u \in Int
    BY <1>2
  <2>5. w % k = u % k
    BY <2>2, <2>3, <2>4, ModPlus
  <2>6. Unsigned(w, n) = Unsigned(u, n)
    BY <2>5 DEF Unsigned, k
  <2>7. Unsigned(w, n) = Unsigned(x, n)
    BY <1>2, <2>6 DEF u
  <2> QED
    BY <2>3, <2>7 DEF n
<1> QED
  BY <1>1, <1>3, <1>4, <1>5

\* What Perl gets for it has these bytes, and is the number if it is small.
LEMMA Returned ==
  ASSUME NEW c \in IntCodes, NEW x \in Int, InRange(x, c), NEW w \in Int,
         Unsigned(w, SizeOf(c)) = Unsigned(x, SizeOf(c))
  PROVE  /\ FromUnion(c, w) \in Int
         /\ Unsigned(FromUnion(c, w), SizeOf(c)) = Unsigned(x, SizeOf(c))
         /\ (SizeOf(c) = 4 \/ (0 <= x /\ 2 * x < Width(SizeOf(c)))) => FromUnion(c, w) = x
<1> DEFINE n == SizeOf(c)
           r == FromUnion(c, w)
<1>0. n \in {1, 2, 4} /\ Unsigned(w, n) = Unsigned(x, n)
  BY CodeIs
<1>1. Width(n) \in Nat /\ Width(n) <= Word /\ Word \in Nat /\ Width(4) = Word /\ Word > 0
  BY <1>0, WidthIs DEF Word
<1>2. Unsigned(w, n) \in 0 .. Width(n) - 1 /\ Unsigned(Unsigned(w, n), n) = Unsigned(w, n)
  <2> DEFINE u == Unsigned(w, n)
  <2>1. u \in 0 .. Width(n) - 1
    BY <1>0, UnsignedIs
  <2> HIDE DEF u
  <2>2. Unsigned(u, n) = u
    BY <1>0, <1>1, <2>1, UnsignedIs
  <2> QED
    BY <2>1, <2>2 DEF u
<1>3. CASE c \in {"c", "s"} \/ c \in {"I", "L"}
  <2>1. r = Unsigned(w, n) /\ (c \in {"I", "L"} => n = 4 /\ c \notin Signed) /\ (c \in {"c", "s"} => n # 4)
    BY <1>3 DEF FromUnion, SizeOf, Signed
  <2>2. ASSUME 0 <= x, x < Width(n) PROVE r = x
    BY <1>0, <2>1, <2>2, UnsignedIs
  <2>3. n = 4 => 0 <= x /\ x < Width(n)
    BY <1>3, <2>1 DEF InRange
  <2>4. 0 <= x /\ 2 * x < Width(n) => x < Width(n)
    BY <1>1
  <2>5. r \in Int /\ Unsigned(r, n) = Unsigned(x, n)
    BY <1>0, <1>1, <1>2, <2>1
  <2> HIDE DEF r, n
  <2>6. n = 4 \/ (0 <= x /\ 2 * x < Width(n)) => r = x
    BY <2>2, <2>3, <2>4
  <2> QED
    BY <2>5, <2>6 DEF r, n
<1>4. CASE c \in {"i", "l"}
  <2>1. r = SignedOf(w, n) /\ n = 4 /\ c \in Signed
    BY <1>4 DEF FromUnion, SizeOf, Signed
  <2>2. r \in Int /\ Unsigned(r, n) = Unsigned(x, n)
    BY <1>0, <2>1, SignedIs
  <2>3. -Width(n) <= 2 * x /\ 2 * x < Width(n)
    BY <2>1 DEF InRange
  <2>4. r = x
    BY <1>0, <2>1, <2>3, SignedExact
  <2> QED
    BY <2>2, <2>4
<1>5. CASE c \in {"C", "S"}
  <2> DEFINE v == SignedOf(w, n)
  <2>1. r = Unsigned(v, 4) /\ n # 4
    BY <1>5 DEF FromUnion, SizeOf, Unsigned, Word
  <2>2. v \in Int /\ Unsigned(v, n) = Unsigned(w, n)
    BY <1>0, SignedIs
  <2>3. ASSUME 0 <= x, 2 * x < Width(n) PROVE v = x
    <3>1. -Width(n) <= 2 * x
      BY <1>1, <2>3
    <3> QED
      BY <1>0, <2>3, <3>1, SignedExact
  <2> HIDE DEF v
  <2>4. r \in Int
    BY <1>1, <2>1, <2>2, UnsignedIs
  <2>5. Unsigned(r, n) = Unsigned(x, n)
    BY <1>0, <2>1, <2>2, UnsignedIs
  <2>6. ASSUME 0 <= x, 2 * x < Width(n) PROVE r = x
    <3>1. 0 <= x /\ x < Width(4) /\ v = x
      BY <1>1, <2>3, <2>6
    <3> QED
      BY <2>1, <3>1, UnsignedIs
  <2> HIDE DEF r, n
  <2>7. n = 4 \/ (0 <= x /\ 2 * x < Width(n)) => r = x
    BY <2>1, <2>6
  <2> QED
    BY <2>4, <2>5, <2>7 DEF r, n
<1> QED
  BY <1>3, <1>4, <1>5 DEF IntCodes
----------------------------------------------------------------------------
(* The signature's types                                                    *)

Named == DOMAIN FfiTypes \cup Structs

\* The structures that codes stand for.
LEMMA StructOfIs ==
  /\ \A c \in Structs \cup Tagged : StructOf(c) \in Structs
  /\ \A c \in Structs : StructOf(c) = c
  /\ \A c : c \notin Tagged => StructOf(c) = c
  /\ \A c : StructOf(c) = "NSRect" <=> c \in {"NSRect", "_NSRect"}
  /\ \A c : StructOf(c) = "Other" <=> c = "Other"
  /\ Structs \cap (IntCodes \cup PointerCodes \cup Unknown \cup {"f", "d", "v", "Other"}) = {}
  /\ Tagged \cap (IntCodes \cup PointerCodes \cup Unknown \cup Structs \cup {"f", "d", "v", "Other"}) = {}
<1>1. \A c : /\ c = "_NSPoint" => StructOf(c) = "NSPoint"
             /\ c = "_NSRange" => StructOf(c) = "NSRange"
             /\ c = "_NSRect" => StructOf(c) = "NSRect"
             /\ c = "_NSSize" => StructOf(c) = "NSSize"
             /\ c \notin Tagged => StructOf(c) = c
  BY DEF StructOf, Tagged
<1>2. /\ Structs \cap (IntCodes \cup PointerCodes \cup Unknown \cup {"f", "d", "v", "Other"}) = {}
      /\ Tagged \cap (IntCodes \cup PointerCodes \cup Unknown \cup Structs \cup {"f", "d", "v", "Other"}) = {}
  BY DEF Structs, Tagged, IntCodes, PointerCodes, Unknown
<1>3. \A c : StructOf(c) = "NSRect" <=> c \in {"NSRect", "_NSRect"}
  BY <1>1 DEF Tagged
<1>4. \A c : StructOf(c) = "Other" <=> c = "Other"
  BY <1>1 DEF Tagged
<1>5. \A c \in Structs : StructOf(c) = c
  BY <1>1, <1>2
<1>6. \A c \in Structs \cup Tagged : StructOf(c) \in Structs
  BY <1>1, <1>5 DEF Structs, Tagged
<1> QED
  BY <1>1, <1>2, <1>3, <1>4, <1>5, <1>6

LEMMA NamedIs ==
  /\ DOMAIN FfiTypes \cap Structs = {}
  /\ \A c \in Codes : ReturnType(c) \in Named /\ ArgumentType(c) \in Named
  /\ \A c \in Codes \ Unknown : (ReturnType(c) = "NSRect" <=> c \in {"NSRect", "_NSRect"})
<1>1. DOMAIN FfiTypes \cap Structs = {}
  BY TypesAre DEF Structs
<1>2. ASSUME NEW c \in Codes
      PROVE  /\ ReturnType(c) \in Named /\ ArgumentType(c) \in Named
             /\ ReturnType(c) = "NSRect" <=> c \in {"NSRect", "_NSRect"}
  <2>1. CASE c \in Structs \cup Tagged
    <3>1. ReturnType(c) = StructOf(c) /\ ArgumentType(c) = StructOf(c)
      BY <2>1 DEF ReturnType, ArgumentType, Structs, Tagged
    <3> QED
      BY <2>1, <3>1, StructOfIs DEF Named
  <2>2. CASE c \notin Structs \cup Tagged
    <3>1. /\ ReturnType(c) \in {"schar", "sshort", "sint", "uint", "float", "double", "void", "pointer"}
          /\ ArgumentType(c) \in {"schar", "uchar", "sshort", "ushort", "sint", "uint", "float", "double", "pointer"}
      BY <2>2 DEF ReturnType, ArgumentType
    <3>2. c \notin {"NSRect", "_NSRect"}
      BY <2>2 DEF Structs, Tagged
    <3> QED
      BY <3>1, <3>2, TypesAre DEF Named
  <2> QED
    BY <2>1, <2>2
<1> QED
  BY <1>1, <1>2

\* A method's parameter has the words of the argument's type.
LEMMA ArgumentWords ==
  ASSUME NEW c \in Codes, c \notin Unknown \cup {"v", "Other"}
  PROVE  /\ NativeWords(c) = TypeWords(ArgumentType(c))
         /\ c \notin Tagged \cup {"f"} => PerlWords(c) = TypeWords(ArgumentType(c))
<1>0. c \notin Tagged \cup {"f"} => PerlWords(c) = NativeWords(c)
  BY DEF PerlWords
<1>1. CASE c \in Structs \cup Tagged
  <2> DEFINE t == StructOf(c)
  <2>1. ArgumentType(c) = t
    BY <1>1 DEF ArgumentType, Structs, Tagged
  <2>2. t \in Structs /\ NativeWords(c) = TrueSize[t] \div 4
    BY <1>1, StructOfIs DEF NativeWords
  <2> HIDE DEF t
  <2>3. TypeWords(t) = IF t = "NSRect" THEN 4 ELSE 2
    BY <2>2 DEF TypeWords
  <2>4. TrueSize[t] = IF t = "NSRect" THEN 16 ELSE 8
    BY <2>2 DEF TrueSize, Structs
  <2>5. 16 \div 4 = 4 /\ 8 \div 4 = 2
    OBVIOUS
  <2> QED
    BY <1>0, <2>1, <2>2, <2>3, <2>4, <2>5
<1>2. CASE c = "d"
  <2>1. ArgumentType(c) = "double" /\ StructOf(c) = c /\ c \notin Structs
    BY <1>2, StructOfIs DEF ArgumentType, Structs, Tagged
  <2> QED
    BY <1>0, <1>2, <2>1 DEF NativeWords, TypeWords
<1>3. CASE c \notin Structs \cup Tagged \cup {"d"}
  <2>1. ArgumentType(c) \in {"schar", "uchar", "sshort", "ushort", "sint", "uint", "float", "pointer"}
    BY <1>3 DEF ArgumentType
  <2>2. TypeWords(ArgumentType(c)) = 1
    BY <2>1 DEF TypeWords, Structs
  <2>3. StructOf(c) = c /\ c \notin Structs
    BY <1>3, StructOfIs
  <2> QED
    BY <1>0, <1>3, <2>2, <2>3 DEF NativeWords
<1> QED
  BY <1>1, <1>2, <1>3

\* How a value of a type comes back.
LEMMA FlagsAre ==
  ASSUME NEW t, Known(t)
  PROVE  /\ Flags(TypeOf(t)) = (IF t = "NSRect" THEN "STRUCT" ELSE IF t \in Structs THEN "SINT64"
                               ELSE IF t = "void" THEN "VOID" ELSE IF t = "float" THEN "FLOAT"
                               ELSE IF t = "double" THEN "DOUBLE" ELSE "INT")
         /\ MessengerFor(t) = (IF t \in {"float", "double"} THEN "fpret"
                               ELSE IF t = "NSRect" THEN "stret" ELSE "plain")
         /\ (TypeOf(t).type = "STRUCT" /\ struct_on_stack(TypeOf(t).size)) <=> t = "NSRect"
<1> DEFINE f == TypeOf(t)
<1>1. CASE t \in Structs
  <2>1. t \notin DOMAIN FfiTypes /\ t \notin {"float", "double"}
    BY <1>1, NamedIs DEF Structs
  <2>2. f = True(t)
    BY <1>1, <2>1 DEF TypeOf, Known
  <2>3. f.type = "STRUCT" /\ f.size = TrueSize[t]
    BY <2>2 DEF True, Type
  <2>4. TrueSize[t] = IF t = "NSRect" THEN 16 ELSE 8
    BY <1>1 DEF TrueSize, Structs
  <2> HIDE DEF f
  <2>5. Flags(f) = IF t = "NSRect" THEN "STRUCT" ELSE "SINT64"
    BY <2>3, <2>4 DEF Flags
  <2>6. struct_on_stack(f.size) <=> t = "NSRect"
    BY <2>3, <2>4 DEF struct_on_stack
  <2>7. f.size > 8 <=> t = "NSRect"
    BY <2>3, <2>4
  <2>8. MessengerFor(t) = IF t = "NSRect" THEN "stret" ELSE "plain"
    BY <2>1, <2>3, <2>7 DEF MessengerFor, f
  <2> QED
    BY <1>1, <2>1, <2>3, <2>5, <2>6, <2>8 DEF f
<1>2. CASE t \notin Structs
  <2>1. f = FfiTypes[t] /\ t \in DOMAIN FfiTypes /\ t # "NSRect"
    BY <1>2 DEF TypeOf, Known, Structs
  <2>2. f.type = (CASE t = "schar" -> "SINT8" [] t = "uchar" -> "UINT8" [] t = "sshort" -> "SINT16"
                    [] t = "ushort" -> "UINT16" [] t = "sint" -> "SINT32" [] t = "uint" -> "UINT32"
                    [] t = "float" -> "FLOAT" [] t = "double" -> "DOUBLE" [] t = "pointer" -> "POINTER"
                    [] t = "void" -> "VOID")
    BY <2>1, TypesAre DEF FfiTypes, Type
  <2> HIDE DEF f
  <2>3. f.type # "STRUCT"
    BY <2>1, <2>2, TypesAre
  <2>4. Flags(f) = (IF t = "void" THEN "VOID" ELSE IF t = "float" THEN "FLOAT"
                               ELSE IF t = "double" THEN "DOUBLE" ELSE "INT")
    BY <2>1, <2>2, TypesAre DEF Flags
  <2>5. MessengerFor(t) = IF t \in {"float", "double"} THEN "fpret" ELSE "plain"
    BY <2>3 DEF MessengerFor, f
  <2> QED
    BY <1>2, <2>1, <2>3, <2>4, <2>5 DEF f
<1> QED
  BY <1>1, <1>2
----------------------------------------------------------------------------
(* What the invariant says of a call                                        *)

LEMMA LayoutsInType == ASSUME NEW l \in Layouts
                       PROVE l \in [Structs -> {Type("STRUCT", 4 * n, 4 * a) : n \in 0 .. 4, a \in 0 .. 1}]
<1> DEFINE T == {Type("STRUCT", 4 * n, 4 * a) : n \in 0 .. 4, a \in 0 .. 1}
<1>1. Zero \in T
  BY DEF Zero
<1>2. ASSUME NEW s \in Structs PROVE True(s) \in T
  <2>1. TrueSize[s] = 4 * 2 \/ TrueSize[s] = 4 * 4
    BY DEF TrueSize, Structs
  <2>2. True(s) = Type("STRUCT", 4 * 2, 4 * 1) \/ True(s) = Type("STRUCT", 4 * 4, 4 * 1)
    BY <2>1 DEF True
  <2>3. 2 \in 0 .. 4 /\ 4 \in 0 .. 4 /\ 1 \in 0 .. 1
    OBVIOUS
  <2> QED
    BY <2>2, <2>3
<1> HIDE DEF T
<1>3. l \in [Structs -> T]
  BY <1>1, <1>2 DEF Layouts
<1> QED
  BY <1>3 DEF T

LEMMA SignatureIs ==
  ASSUME TypeOK, Filling, Called
  PROVE  /\ sig \in Signatures /\ sig.ret \in Codes \ Unknown /\ sig.args \in Seq(Codes)
         /\ types \in Seq(Named) /\ Len(types) \in Nat
         /\ ReturnType(sig.ret) \in Named
<1>1. sig \in Signatures /\ sig.ret \notin Unknown
  BY DEF Filling
<1>2. sig.ret \in Codes /\ sig.args \in Seq(Codes)
  BY <1>1, SignaturesAssumption
<1>3. types \in Seq(Named)
  BY DEF TypeOK, Named
<1> QED
  BY <1>1, <1>2, <1>3, NamedIs

\* When the types are initialized, all that are used are known.
LEMMA UsedKnown ==
  ASSUME Inv, Prepared
  PROVE  /\ Called /\ Len(types) = Len(sig.args) + 2 /\ Len(types) \in Nat
         /\ \A k \in 1 .. Len(types) : Known(types[k])
         /\ Known(ReturnType(sig.ret))
<1>1. Called
  BY DEF Prepared, Called
<1>2. types \in Seq(Named) /\ Len(types) \in Nat /\ ReturnType(sig.ret) \in Named
  BY <1>1, SignatureIs DEF Inv
<1>3. Len(types) = Len(sig.args) + 2 /\ \A s \in Structs : s \in Used => layout[s] = True(s)
  BY DEF Inv, LaidOut
<1>4. ReturnType(sig.ret) \in Used /\ \A k \in 1 .. Len(types) : types[k] \in Used /\ types[k] \in Named
  BY <1>2 DEF Used
<1>5. ASSUME NEW t \in Named, t \in Used PROVE Known(t)
  BY <1>3, <1>5 DEF Known, Named
<1> QED
  BY <1>1, <1>2, <1>3, <1>4, <1>5

\* Three choices that are one: the address that is pushed, the flags of the
\* cif and the messenger.
LEMMA HiddenIs ==
  ASSUME Inv, phase \in {"prepared", "running", "returned"}
  PROVE  /\ Hidden \in {0, 1} /\ Hidden \in Nat
         /\ Hidden = 1 <=> ReturnType(sig.ret) = "NSRect"
         /\ Hidden = 1 <=> sig.ret \in {"NSRect", "_NSRect"}
         /\ Hidden = 1 <=> cif.messenger = "stret"
         /\ cif.flags = "STRUCT" <=> cif.messenger = "stret"
<1>1. Prepared
  BY DEF Prepared
<1> DEFINE t == ReturnType(sig.ret)
<1>2. Known(t) /\ Called
  BY <1>1, UsedKnown
<1>3. cif.flags = Flags(TypeOf(t)) /\ cif.messenger = MessengerFor(t)
  BY DEF Inv, Reserved
<1>4. t = "NSRect" <=> sig.ret \in {"NSRect", "_NSRect"}
  <2>1. sig.ret \in Codes \ Unknown
    BY <1>2, SignatureIs DEF Inv
  <2> QED
    BY <2>1, NamedIs
<1> HIDE DEF t
<1>5. cif.flags = "STRUCT" <=> t = "NSRect"
  BY <1>2, <1>3, FlagsAre
<1>6. cif.messenger = "stret" <=> t = "NSRect"
  BY <1>2, <1>3, FlagsAre
<1>7. Hidden \in {0, 1} /\ Hidden \in Nat /\ (Hidden = 1 <=> cif.flags = "STRUCT")
  BY DEF Hidden
<1> QED
  BY <1>4, <1>5, <1>6, <1>7 DEF t

LEMMA SizeOfIs == ASSUME NEW c PROVE SizeOf(c) \in {1, 2, 4}
BY DEF SizeOf

LEMMA LowBytes == ASSUME NEW c, NEW x \in Int PROVE Unsigned(x, SizeOf(c)) \in 0 .. Word - 1
<1> DEFINE n == SizeOf(c)
<1>1. n \in {1, 2, 4}
  BY SizeOfIs
<1> HIDE DEF n
<1>2. Unsigned(x, n) \in 0 .. Width(n) - 1 /\ Width(n) \in Nat /\ Word \in Nat /\ Width(n) <= Word
  BY <1>1, UnsignedIs, WidthIs
<1> QED
  BY <1>2 DEF n
----------------------------------------------------------------------------
(* The steps                                                                *)

LEMMA InitInv == ASSUME Init PROVE Inv
<1>1. layout \in Layouts
  <2>1. layout = [s \in Structs |-> Zero]
    BY DEF Init, Zero
  <2> QED
    BY <2>1 DEF Layouts
<1>2. TypeOK
  <2>1. layout \in [Structs -> {Type("STRUCT", 4 * n, 4 * a) : n \in 0 .. 4, a \in 0 .. 1}]
    BY <1>1, LayoutsInType
  <2>2. MaxArgs \in Nat
    BY ForeignCallAssumption
  <2> QED
    BY <2>1, <2>2 DEF Init, TypeOK, NoCif
<1>3. phase = "idle"
  BY DEF Init
<1> QED
  BY <1>1, <1>2, <1>3 DEF Inv, Filling, Called, LaidOut, Prepared, Reserved, Framed, Answered

LEMMA CallNativeMethodInv ==
  ASSUME Inv, NEW g \in Signatures, NEW who \in {"native", "perl"}, CallNativeMethod(g, who)
  PROVE  Inv'
<1>1. TypeOK'
  <2>1. Word \in Nat /\ Word > 0
    BY WidthIs
  <2>2. 0 \in 0 .. Word - 1
    BY <2>1
  <2>3. values' \in Seq(0 .. Word - 1) /\ Len(values') = 2 /\ given' \in Seq(Int) /\ Len(given') = 2
    <3> DEFINE W == 0 .. Word - 1
    <3>1. values' = <<0, 0>> /\ given' = <<0, 0>> /\ 0 \in W
      BY <2>2 DEF CallNativeMethod
    <3> HIDE DEF W
    <3>2. values' \in Seq(W) /\ Len(values') = 2 /\ given' \in Seq(Int) /\ Len(given') = 2
      BY <3>1
    <3> QED
      BY <3>2 DEF W
  <2>4. types' \in Seq(DOMAIN FfiTypes \cup Structs) /\ Len(types') = 2 /\ 2 <= MaxArgs
    <3>1. "pointer" \in DOMAIN FfiTypes
      BY TypesAre
    <3>2. types' = <<"pointer", "pointer">>
      BY DEF CallNativeMethod
    <3>3. 2 <= MaxArgs
      BY ForeignCallAssumption
    <3> QED
      BY <3>1, <3>2, <3>3
  <2>5. phase' \in {"idle", "filling", "typed", "prepared", "running", "returned", "refused", "wild"}
        /\ sig' \in Signatures \cup {NoSig} /\ callee' \in {"native", "perl"}
    BY DEF CallNativeMethod
  <2> QED
    BY <2>3, <2>4, <2>5 DEF Inv, TypeOK, CallNativeMethod
<1>2. Filling'
  <2>1. types' = <<"pointer", "pointer">> /\ Len(types') = 2 /\ sig' = g
    BY DEF CallNativeMethod
  <2>2. g.args \in Seq(Codes)
    BY SignaturesAssumption
  <2>3. Len(types') <= Len(g.args) + 2 /\ types'[1] = "pointer" /\ types'[2] = "pointer" /\ 3 .. Len(types') = {}
    BY <2>1, <2>2
  <2>4. Called' => sig'.ret \notin Unknown
    BY DEF Called, CallNativeMethod
  <2> QED
    BY <2>1, <2>3, <2>4 DEF Filling
<1>3. LaidOut'
  BY DEF Inv, LaidOut, Prepared, CallNativeMethod
<1>4. Reserved' /\ Framed' /\ Answered'
  BY DEF Reserved, Framed, Answered, CallNativeMethod
<1> QED
  BY <1>1, <1>2, <1>3, <1>4 DEF Inv

LEMMA DoneInv == ASSUME Inv, Done PROVE Inv'
<1>1. TypeOK'
  <2>1. MaxArgs \in Nat
    BY ForeignCallAssumption
  <2> QED
    BY <2>1 DEF Inv, TypeOK, Done, NoCif
<1>2. phase' = "idle" /\ layout' = layout
  BY DEF Done
<1> QED
  BY <1>1, <1>2 DEF Inv, Filling, Called, LaidOut, Prepared, Reserved, Framed, Answered

LEMMA FillArgumentInv ==
  ASSUME Inv, NEW x \in Samples \cup {0}, FillArgument(x) PROVE Inv'
<1> DEFINE n == Len(types) + 1
           c == Code
<1>1. phase = "filling" /\ phase' = "filling" /\ Called /\ sig' = sig
  BY DEF FillArgument, Called
<1>2. /\ sig.args \in Seq(Codes) /\ types \in Seq(Named) /\ Len(types) \in Nat /\ sig \in Signatures
      /\ sig.ret \notin Unknown
  BY <1>1, SignatureIs DEF Inv
<1>3. /\ 2 <= Len(types) /\ types[1] = "pointer" /\ types[2] = "pointer"
      /\ \A k \in 3 .. Len(types) : Filled(k)
  BY <1>1 DEF Inv, Filling
<1>4. /\ Len(types) - 2 < Len(sig.args) /\ Len(types) < MaxArgs
      /\ c \notin Unknown \cup {"v", "Other"} /\ types' = Append(types, ArgumentType(c))
      /\ given' = Append(given, x) /\ values' = Append(values, Unsigned(x, SizeOf(c)))
  BY DEF FillArgument
<1>5. c = sig.args[n - 2] /\ c \in Codes
  BY <1>2, <1>3, <1>4 DEF Code
<1>6. x \in Int /\ Unsigned(x, SizeOf(c)) \in 0 .. Word - 1 /\ ArgumentType(c) \in Named /\ MaxArgs \in Nat
  BY <1>5, ForeignCallAssumption, LowBytes, NamedIs
<1>7. /\ given \in Seq(Int) /\ values \in Seq(0 .. Word - 1)
      /\ Len(given) = Len(types) /\ Len(values) = Len(types)
  BY DEF Inv, TypeOK
<1> HIDE DEF c
<1>8. /\ types' \in Seq(Named) /\ given' \in Seq(Int) /\ values' \in Seq(0 .. Word - 1)
      /\ Len(types') = n /\ Len(given') = n /\ Len(values') = n
      /\ types'[n] = ArgumentType(c) /\ given'[n] = x /\ values'[n] = Unsigned(x, SizeOf(c))
      /\ \A k \in 1 .. Len(types) : types'[k] = types[k] /\ given'[k] = given[k] /\ values'[k] = values[k]
  <2> DEFINE W == 0 .. Word - 1
             t == ArgumentType(c)
             u == Unsigned(x, SizeOf(c))
  <2>1. u \in W /\ t \in Named /\ values \in Seq(W) /\ x \in Int
    BY <1>6, <1>7
  <2>2. types' = Append(types, t) /\ values' = Append(values, u)
    BY <1>4
  <2> HIDE DEF W, t, u
  <2>3. /\ types' \in Seq(Named) /\ Len(types') = n /\ types'[n] = t
        /\ \A k \in 1 .. Len(types) : types'[k] = types[k]
    BY <1>2, <2>1, <2>2
  <2>4. /\ values' \in Seq(W) /\ Len(values') = n /\ values'[n] = u
        /\ \A k \in 1 .. Len(types) : values'[k] = values[k]
    BY <1>2, <1>7, <2>1, <2>2
  <2>5. /\ given' \in Seq(Int) /\ Len(given') = n /\ given'[n] = x
        /\ \A k \in 1 .. Len(types) : given'[k] = given[k]
    BY <1>2, <1>4, <1>7, <2>1
  <2> QED
    BY <2>3, <2>4, <2>5 DEF W, t, u
<1>9. TypeOK'
  <2>1. Len(types') <= MaxArgs /\ types' \in Seq(DOMAIN FfiTypes \cup Structs)
    BY <1>2, <1>4, <1>6, <1>8 DEF Named
  <2>2. /\ layout' = layout /\ phase' = phase /\ callee' = callee /\ cif' = cif
        /\ answer' = answer /\ result' = result
    BY DEF FillArgument
  <2> QED
    BY <1>1, <1>8, <2>1, <2>2 DEF Inv, TypeOK
<1>10. ASSUME NEW k \in 3 .. Len(types') PROVE Filled(k)'
  <2>1. CASE k = n
    <3>1. sig'.args[k - 2] = c
      BY <1>1, <1>5, <2>1
    <3> QED
      BY <1>4, <1>8, <2>1, <3>1 DEF Filled
  <2>2. CASE k # n
    <3>1. k \in 3 .. Len(types) /\ k \in 1 .. Len(types)
      BY <1>2, <1>8, <2>2
    <3>2. Filled(k) /\ types'[k] = types[k] /\ given'[k] = given[k] /\ values'[k] = values[k]
      BY <1>3, <1>8, <3>1
    <3> QED
      BY <1>1, <3>2 DEF Filled
  <2> QED
    BY <2>1, <2>2
<1>11. Filling'
  <2>1. 2 <= Len(types') /\ Len(types') <= Len(sig.args) + 2 /\ types'[1] = "pointer" /\ types'[2] = "pointer"
    BY <1>2, <1>3, <1>4, <1>8
  <2> QED
    BY <1>1, <1>2, <1>10, <2>1 DEF Filling
<1>12. LaidOut'
  <2>1. layout' = layout
    BY DEF FillArgument
  <2> QED
    BY <1>1, <2>1 DEF Inv, LaidOut, Prepared
<1>13. Reserved' /\ Framed' /\ Answered'
  BY <1>1 DEF Reserved, Framed, Answered
<1> QED
  BY <1>9, <1>11, <1>12, <1>13 DEF Inv

LEMMA StopsInv ==
  ASSUME Inv, phase' \in {"refused", "wild"},
         UNCHANGED <<layout, sig, callee, types, given, values, cif, frame, answer, result>>
  PROVE  Inv'
<1>1. TypeOK'
  BY DEF Inv, TypeOK
<1> QED
  BY <1>1 DEF Inv, Filling, Called, LaidOut, Prepared, Reserved, Framed, Answered

LEMMA PrepareTypesInv == ASSUME Inv, PrepareTypes PROVE Inv'
<1> DEFINE s == <<ReturnType(sig.ret)>> \o types
           n == Len(types) + 1
<1>1. Called /\ phase' = "typed" /\ Len(types) - 2 = Len(sig.args) /\ layout \in Layouts
  BY DEF PrepareTypes, Called, Inv, LaidOut
<1>2. /\ types \in Seq(Named) /\ Len(types) \in Nat /\ ReturnType(sig.ret) \in Named
      /\ sig.args \in Seq(Codes)
  BY <1>1, SignatureIs DEF Inv
<1>3. /\ n \in Nat /\ DOMAIN s = 1 .. n /\ s[1] = ReturnType(sig.ret)
      /\ \A k \in 1 .. Len(types) : k + 1 \in 1 .. n /\ s[k + 1] = types[k]
  <2> DEFINE r == ReturnType(sig.ret)
  <2>1. r \in Named
    BY <1>2
  <2> HIDE DEF r
  <2>2. /\ Len(<<r>> \o types) = n /\ <<r>> \o types \in Seq(Named)
        /\ (<<r>> \o types)[1] = r /\ \A k \in 1 .. Len(types) : (<<r>> \o types)[k + 1] = types[k]
    BY <1>2, <2>1
  <2>3. DOMAIN (<<r>> \o types) = 1 .. n
    BY <1>2, <2>2
  <2> QED
    BY <1>2, <2>2, <2>3 DEF r
<1>4. layout' = LayoutAfter(layout, s)
  BY DEF PrepareTypes, LayoutAfter
<1> HIDE DEF s
<1>5. Stays(layout, layout') /\ \A k \in 1 .. n : s[k] \in Structs => layout'[s[k]] = True(s[k])
  BY <1>1, <1>3, <1>4, FoldLaysOut
<1>6. layout' \in Layouts
  BY <1>5 DEF Stays
<1>7. TypeOK'
  <2>1. layout' \in [Structs -> {Type("STRUCT", 4 * i, 4 * a) : i \in 0 .. 4, a \in 0 .. 1}]
    BY <1>6, LayoutsInType
  <2> QED
    BY <1>1, <2>1 DEF Inv, TypeOK, PrepareTypes
<1>8. sig' = sig /\ types' = types /\ given' = given /\ values' = values
  BY DEF PrepareTypes
<1>9. Filling'
  BY <1>1, <1>8 DEF Inv, Filling, Filled
<1>10. LaidOut'
  <2>1. ASSUME NEW t \in Structs, t \in Used PROVE layout'[t] = True(t)
    <3>1. CASE t = ReturnType(sig.ret)
      <4>1. 1 \in 1 .. n /\ s[1] = t
        BY <1>2, <1>3, <3>1
      <4> QED
        BY <1>5, <2>1, <4>1
    <3>2. CASE t # ReturnType(sig.ret)
      <4>1. PICK k \in 1 .. Len(types) : types[k] = t
        BY <1>2, <2>1, <3>2 DEF Used
      <4>2. k + 1 \in 1 .. n /\ s[k + 1] = t
        BY <1>3, <4>1
      <4> QED
        BY <1>5, <2>1, <4>2
    <3> QED
      BY <3>1, <3>2
  <2>2. Used' = Used
    BY <1>8 DEF Used
  <2>3. Len(types) = Len(sig.args) + 2
    BY <1>1, <1>2
  <2> QED
    BY <1>6, <1>8, <2>1, <2>2, <2>3 DEF LaidOut
<1> QED
  BY <1>1, <1>7, <1>9, <1>10 DEF Inv, Reserved, Framed, Answered

LEMMA PrepareCallInv == ASSUME Inv, PrepareCall PROVE Inv'
<1> DEFINE t == ReturnType(sig.ret)
           n == Len(types)
           h == IF t = "NSRect" THEN 1 ELSE 0
<1>1. Prepared /\ phase' = "prepared"
      /\ UNCHANGED <<layout, sig, callee, types, given, values, frame, answer, result>>
  BY DEF PrepareCall, Prepared
<1>2. Called /\ n \in Nat /\ (\A k \in 1 .. n : Known(types[k])) /\ Known(t)
  BY <1>1, UsedKnown
<1>3. cif' = [bytes |-> Align(Bytes(t, types), 16), flags |-> Flags(TypeOf(t)), messenger |-> MessengerFor(t)]
  BY DEF PrepareCall
<1>4. /\ Flags(TypeOf(t)) \in {"VOID", "INT", "SINT64", "FLOAT", "DOUBLE", "STRUCT"}
      /\ MessengerFor(t) \in {"plain", "fpret", "stret"}
      /\ Flags(TypeOf(t)) = "STRUCT" <=> t = "NSRect"
      /\ h = 1 <=> TypeOf(t).type = "STRUCT" /\ struct_on_stack(TypeOf(t).size)
  <2> HIDE DEF t
  <2> QED
    BY <1>2, FlagsAre
<1>5. Bytes(t, types) = 4 * Words(types, h, n) /\ Words(types, h, n) \in Nat
  <2>1. DOMAIN types = 1 .. n /\ h \in {0, 1} /\ h \in Nat
    BY <1>2, SignatureIs DEF Inv
  <2> HIDE DEF t, h
  <2> QED
    BY <1>2, <1>4, <2>1, BytesAre, WordsType
<1>6. Align(Bytes(t, types), 16) \in Nat /\ 4 * Words(types, h, n) <= Align(Bytes(t, types), 16)
  <2> DEFINE b == Bytes(t, types)
  <2>1. b \in Nat /\ b = 4 * Words(types, h, n)
    BY <1>5
  <2> HIDE DEF b
  <2>2. Align(b, 16) \in Nat /\ Align(b, 16) >= b
    BY <2>1, AlignIs
  <2> HIDE DEF h
  <2> QED
    BY <1>5, <2>1, <2>2 DEF b
<1>7. Hidden' = h
  BY <1>3, <1>4 DEF Hidden
<1>8. Reserved'
  <2>1. MessengerFor(t)' = MessengerFor(t) /\ Flags(TypeOf(t))' = Flags(TypeOf(t))
    BY <1>1 DEF MessengerFor, TypeOf
  <2>2. cif'.flags = Flags(TypeOf(t)) /\ cif'.messenger = MessengerFor(t) /\ cif'.bytes = Align(Bytes(t, types), 16)
    BY <1>3
  <2> HIDE DEF h
  <2>3. 4 * Words(types', Hidden', Len(types')) <= cif'.bytes
    BY <1>1, <1>6, <1>7, <2>2
  <2> QED
    BY <1>1, <2>1, <2>2, <2>3 DEF Reserved
<1>9. TypeOK'
  <2>1. /\ cif'.bytes \in Nat /\ cif'.messenger \in {"plain", "fpret", "stret"}
        /\ cif'.flags \in {"VOID", "INT", "SINT64", "FLOAT", "DOUBLE", "STRUCT"}
    BY <1>3, <1>4, <1>6
  <2> QED
    BY <1>1, <2>1 DEF Inv, TypeOK
<1>10. Filling' /\ LaidOut'
  BY <1>1 DEF Inv, Filling, Filled, Called, LaidOut, Prepared, Used
<1> QED
  BY <1>1, <1>8, <1>9, <1>10 DEF Inv, Framed, Answered

LEMMA FfiCallInv == ASSUME Inv, FfiCall PROVE Inv'
<1> DEFINE n == Len(types)
           base == IF Hidden = 1 THEN <<ArgWord(0, 1, 0)>> ELSE <<>>
<1>1. Prepared /\ phase = "prepared" /\ phase' = "running"
      /\ UNCHANGED <<layout, sig, callee, types, given, values, cif, answer, result>>
  BY DEF FfiCall, Prepared
<1>2. n \in Nat /\ (\A k \in 1 .. n : Known(types[k])) /\ Hidden \in {0, 1}
  BY <1>1, UsedKnown, HiddenIs
<1>3. frame' = FrameOf(base)
  <2> DEFINE b == IF cif.flags = "STRUCT" THEN <<ArgWord(0, 1, 0)>> ELSE <<>>
  <2>1. frame' = FrameOf(b)
    BY DEF FfiCall, FrameOf
  <2>2. b = base
    BY DEF Hidden
  <2> HIDE DEF b, base
  <2> QED
    BY <2>1, <2>2
<1>4. Stacked(frame', Hidden, n)
  <2> HIDE DEF base
  <2>1. base = IF Hidden = 1 THEN <<ArgWord(0, 1, 0)>> ELSE <<>>
    BY DEF base
  <2>2. Stacked(FrameOf(base), Hidden, n)
    BY <1>2, <2>1, FrameIs
  <2> QED
    BY <1>3, <2>2
<1>5. Framed'
  <2>1. Hidden' = Hidden /\ \A k : WordsOf(k)' = WordsOf(k)
    BY <1>1 DEF Hidden, WordsOf, TypeOf
  <2>2. Stacked(frame, Hidden, n)'
    BY <1>1, <1>4, <2>1 DEF Stacked
  <2> QED
    BY <2>2 DEF Framed
<1>6. TypeOK'
  BY <1>1 DEF Inv, TypeOK
<1>7. Filling' /\ LaidOut'
  BY <1>1 DEF Inv, Filling, Filled, Called, LaidOut, Prepared, Used
<1>8. Reserved'
  BY <1>1 DEF Inv, Reserved, Hidden, MessengerFor, TypeOf
<1> QED
  BY <1>1, <1>5, <1>6, <1>7, <1>8 DEF Inv, Answered

LEMMA ReturnsInv == ASSUME Inv, NEW x \in Samples \cup {0}, Returns(x) PROVE Inv'
<1>1. phase = "running" /\ phase' \in {"returned", "wild"} /\ answer' = x
      /\ UNCHANGED <<layout, sig, callee, types, given, values, cif, frame>>
  BY DEF Returns
<1>2. x \in Int
  BY ForeignCallAssumption
<1>3. /\ result' \in Int
      /\ sig.ret \in IntCodes =>
           x \in Samples /\ InRange(x, sig.ret) /\ \E w \in InEax(x, sig.ret) : result' = FromUnion(sig.ret, w)
  <2>1. CASE sig.ret \in IntCodes
    <3> DEFINE c == sig.ret
    <3>1. c \in IntCodes /\ x \in Samples /\ InRange(x, c) /\ \E w \in InEax(x, c) : result' = FromUnion(c, w)
      BY <2>1 DEF Returns
    <3> HIDE DEF c
    <3>2. PICK w \in InEax(x, c) : result' = FromUnion(c, w)
      BY <3>1
    <3>3. w \in Int /\ Unsigned(w, SizeOf(c)) = Unsigned(x, SizeOf(c))
      BY <1>2, <3>1, RegisterIs
    <3>4. result' \in Int
      BY <1>2, <3>1, <3>2, <3>3, Returned
    <3> QED
      BY <3>1, <3>4 DEF c
  <2>2. CASE sig.ret \notin IntCodes
    BY <2>2 DEF Returns
  <2> QED
    BY <2>1, <2>2
<1>4. TypeOK'
  BY <1>1, <1>2, <1>3 DEF Inv, TypeOK
<1>5. Filling' /\ LaidOut'
  BY <1>1 DEF Inv, Filling, Filled, Called, LaidOut, Prepared, Used
<1>6. Reserved'
  BY <1>1 DEF Inv, Reserved, Hidden, MessengerFor, TypeOf
<1>7. Answered'
  <2>1. InEax(x, sig.ret)' = InEax(x, sig.ret)
    BY <1>1 DEF InEax
  <2> QED
    BY <1>1, <1>3 DEF Answered, InEax
<1> QED
  BY <1>1, <1>4, <1>5, <1>6, <1>7 DEF Inv, Framed

LEMMA OtherCallInv == ASSUME Inv, NEW s \in Structs, OtherCall(s) PROVE Inv'
<1>1. phase \in {"filling", "running"} /\ layout' = Initialized(layout, s)
      /\ UNCHANGED <<phase, sig, callee, types, given, values, cif, frame, answer, result>>
  BY DEF OtherCall
<1>2. layout \in Layouts
  BY DEF Inv, LaidOut
<1>3. Stays(layout, layout') /\ layout' \in Layouts
  BY <1>1, <1>2, InitializedIs DEF Stays
<1>4. TypeOK'
  <2>1. layout' \in [Structs -> {Type("STRUCT", 4 * n, 4 * a) : n \in 0 .. 4, a \in 0 .. 1}]
    BY <1>3, LayoutsInType
  <2> QED
    BY <1>1, <2>1 DEF Inv, TypeOK
<1>5. Filling'
  BY <1>1 DEF Inv, Filling, Filled, Called
<1>6. \A t : Known(t) => (IF t \in Structs THEN layout'[t] ELSE FfiTypes[t]) = TypeOf(t)
  BY <1>3, NamedIs DEF Known, TypeOf, Stays
<1>7. LaidOut'
  <2>1. \A t \in Structs : layout[t] = True(t) => layout'[t] = True(t)
    BY <1>3 DEF Stays
  <2>2. Used' = Used /\ (Prepared' => Prepared)
    BY <1>1 DEF Used, Prepared
  <2> QED
    BY <1>1, <1>3, <2>1, <2>2 DEF Inv, LaidOut
<1>8. CASE phase = "filling"
  BY <1>1, <1>4, <1>5, <1>7, <1>8 DEF Inv, Reserved, Framed, Answered
<1>9. CASE phase = "running"
  <2>1. Prepared
    BY <1>9 DEF Prepared
  <2>2. (\A k \in 1 .. Len(types) : Known(types[k])) /\ Known(ReturnType(sig.ret))
    BY <2>1, UsedKnown
  <2>3. Reserved'
    <3> DEFINE t == ReturnType(sig.ret)
    <3>1. TypeOf(t)' = TypeOf(t)
      BY <1>1, <1>6, <2>2 DEF TypeOf
    <3>2. MessengerFor(t)' = MessengerFor(t) /\ Hidden' = Hidden
      BY <1>1, <3>1 DEF MessengerFor, Hidden
    <3> QED
      BY <1>1, <1>9, <3>1, <3>2 DEF Inv, Reserved
  <2>4. Framed'
    <3>1. ASSUME NEW k \in 1 .. Len(types) PROVE WordsOf(k)' = WordsOf(k)
      <4>1. TypeOf(types[k])' = TypeOf(types[k])
        BY <1>1, <1>6, <2>2 DEF TypeOf
      <4> QED
        BY <1>1, <4>1 DEF WordsOf
    <3>2. Stacked(frame, Hidden, Len(types))
      BY <1>9 DEF Inv, Framed
    <3>3. Hidden' = Hidden
      BY <1>1 DEF Hidden
    <3>4. Stacked(frame, Hidden, Len(types))'
      BY <1>1, <3>1, <3>2, <3>3 DEF Stacked
    <3> QED
      BY <3>4 DEF Framed
  <2> QED
    BY <1>1, <1>4, <1>5, <1>7, <1>9, <2>3, <2>4 DEF Inv, Answered
<1> QED
  BY <1>1, <1>8, <1>9

LEMMA SameInv == ASSUME Inv, UNCHANGED vars PROVE Inv'
<1>1. UNCHANGED <<layout, phase, sig, callee, types, given, values, cif, frame, answer, result>>
  BY DEF vars
<1>2. Hidden' = Hidden /\ \A k : WordsOf(k)' = WordsOf(k)
  BY <1>1 DEF Hidden, WordsOf, TypeOf
<1>3. TypeOK' /\ Filling' /\ LaidOut'
  BY <1>1 DEF Inv, TypeOK, Filling, Filled, Called, LaidOut, Prepared, Used
<1>4. Reserved' /\ Answered'
  BY <1>1, <1>2 DEF Inv, Reserved, MessengerFor, TypeOf, Answered, InEax
<1>5. Framed'
  BY <1>1, <1>2 DEF Inv, Framed, Stacked
<1> QED
  BY <1>3, <1>4, <1>5 DEF Inv

LEMMA Always == Spec => []Inv
<1>1. Init => Inv
  BY InitInv
<1>2. Inv /\ [Next]_vars => Inv'
  <2> SUFFICES ASSUME Inv, [Next]_vars PROVE Inv'
    OBVIOUS
  <2>1. CASE \E g \in Signatures, who \in {"native", "perl"} : CallNativeMethod(g, who)
    BY <2>1, CallNativeMethodInv
  <2>2. CASE \E x \in Samples \cup {0} : FillArgument(x)
    BY <2>2, FillArgumentInv
  <2>3. CASE \E x \in Samples \cup {0} : Returns(x)
    BY <2>3, ReturnsInv
  <2>4. CASE Done
    BY <2>4, DoneInv
  <2>5. CASE RefuseArgument
    BY <2>5, StopsInv DEF RefuseArgument
  <2>6. CASE FillGoesWrong
    BY <2>6, StopsInv DEF FillGoesWrong
  <2>7. CASE PrepareTypes
    BY <2>7, PrepareTypesInv
  <2>8. CASE PrepareCall
    BY <2>8, PrepareCallInv
  <2>9. CASE FfiCall
    BY <2>9, FfiCallInv
  <2>10. CASE \E s \in Structs : OtherCall(s)
    BY <2>10, OtherCallInv
  <2>11. CASE UNCHANGED vars
    BY <2>11, SameInv
  <2> QED
    BY <2>1, <2>2, <2>3, <2>4, <2>5, <2>6, <2>7, <2>8, <2>9, <2>10, <2>11 DEF Next
<1> QED
  BY <1>1, <1>2, PTL DEF Spec
----------------------------------------------------------------------------
(* What holds of every call                                                 *)

\* The state is always of its type: the arrays of arguments never have more
\* than MaxArgs entries while the program has a meaning, all three the same
\* number of them, and every value fits a word (CBCallNativeMethod).
THEOREM ForeignCallType == Spec => []TypeOK
<1>1. Inv => TypeOK
  BY DEF Inv
<1> QED
  BY <1>1, Always, PTL

\* Whatever calls use the structures, in whatever order, one inside another:
\* each ffi_type is laid out once, correctly, before a call needs it
\* (init_ffi_types, initialize_aggregate).
THEOREM StructuresLaidOutOnce == Spec => []LayoutsTrue
<1>1. Inv => LayoutsTrue
  <2> SUFFICES ASSUME Inv, NEW s \in Structs
               PROVE  /\ layout[s].size \in {0, TrueSize[s]}
                      /\ (Prepared /\ s \in Used) => layout[s] = Type("STRUCT", TrueSize[s], 4)
    BY DEF LayoutsTrue
  <2>1. layout[s] \in {Zero, True(s)}
    BY DEF Inv, LaidOut, Layouts
  <2>2. Zero.size = 0 /\ True(s).size = TrueSize[s]
    BY DEF Zero, True, Type
  <2>3. (Prepared /\ s \in Used) => layout[s] = True(s)
    BY DEF Inv, LaidOut
  <2> QED
    BY <2>1, <2>2, <2>3 DEF True
<1> QED
  BY <1>1, Always, PTL

\* Where the first argument is.
LEMMA SelfIs ==
  ASSUME Inv, phase = "running"
  PROVE  /\ Stacked(frame, Hidden, Len(types)) /\ Len(types) >= 2
         /\ \A n \in 1 .. Len(types) : \A p \in 1 .. TypeWords(types[n]) :
              /\ Words(types, Hidden, n - 1) + p <= Len(frame)
              /\ frame[Words(types, Hidden, n - 1) + p].arg = n
              /\ frame[Words(types, Hidden, n - 1) + p].part = p
              /\ types[n] \in {"schar", "uchar", "sshort", "ushort", "sint", "uint"}
                   => frame[Words(types, Hidden, n - 1) + p].val = Extended(types[n], values[n])
<1>1. Stacked(frame, Hidden, Len(types)) /\ Prepared /\ Called
  BY DEF Inv, Framed, Prepared, Called
<1>2. Len(types) >= 2 /\ \A k \in 1 .. Len(types) : Known(types[k])
  <2>1. 2 <= Len(types) /\ Len(types) \in Nat
    BY <1>1, SignatureIs DEF Inv, Filling
  <2> QED
    BY <1>1, <2>1, UsedKnown
<1>3. ASSUME NEW n \in 1 .. Len(types), NEW p \in 1 .. TypeWords(types[n])
      PROVE  /\ Words(types, Hidden, n - 1) + p <= Len(frame)
             /\ frame[Words(types, Hidden, n - 1) + p].arg = n
             /\ frame[Words(types, Hidden, n - 1) + p].part = p
             /\ types[n] \in {"schar", "uchar", "sshort", "ushort", "sint", "uint"}
                  => frame[Words(types, Hidden, n - 1) + p].val = Extended(types[n], values[n])
  <2> DEFINE v == IF types[n] \in {"schar", "uchar", "sshort", "ushort", "sint", "uint"}
                  THEN Extended(types[n], values[n]) ELSE 0
             at == Words(types, Hidden, n - 1) + p
  <2>1. at <= Len(frame) /\ frame[at] = WordsOf(n)[p]
    BY <1>1 DEF Stacked
  <2>2. WordsOf(n)[p] = ArgWord(n, p, v)
    BY <1>2, WordsOfIs
  <2>3. types[n] \in {"schar", "uchar", "sshort", "ushort", "sint", "uint"} => v = Extended(types[n], values[n])
    OBVIOUS
  <2> HIDE DEF v, at
  <2>4. frame[at].arg = n /\ frame[at].part = p /\ frame[at].val = v
    BY <2>1, <2>2 DEF ArgWord
  <2> QED
    BY <2>1, <2>3, <2>4 DEF at
<1> QED
  BY <1>1, <1>2, <1>3

LEMMA WhereLeft ==
  ASSUME Inv, phase = "returned", sig.ret # "Other",
         ~(callee = "perl" /\ sig.ret \in Structs \cup Tagged \cup {"f", "d"})
  PROVE  LeftIn(sig.ret) = TakenFrom(cif.flags)
<1> DEFINE c == sig.ret
           t == ReturnType(c)
           f == cif.flags
<1>1. Prepared /\ Called
  BY DEF Prepared, Called
<1>2. Known(t) /\ f = Flags(TypeOf(t)) /\ c \in Codes \ Unknown
  BY <1>1, UsedKnown, SignatureIs DEF Inv, Reserved
<1>3. c # "Other" /\ ~(callee = "perl" /\ c \in Structs \cup Tagged \cup {"f", "d"})
  OBVIOUS
<1> HIDE DEF c, f
<1>4. f = (IF t = "NSRect" THEN "STRUCT" ELSE IF t \in Structs THEN "SINT64"
           ELSE IF t = "void" THEN "VOID" ELSE IF t = "float" THEN "FLOAT"
           ELSE IF t = "double" THEN "DOUBLE" ELSE "INT")
  BY <1>2, FlagsAre
<1>5. CASE c \in Structs \cup Tagged
  <2> DEFINE u == StructOf(c)
  <2>1. t = u /\ callee # "perl"
    BY <1>3, <1>5 DEF ReturnType, Structs, Tagged
  <2>2. u \in Structs /\ u # "Other"
    BY <1>5, StructOfIs DEF Structs
  <2> HIDE DEF u, t
  <2>3. f = IF u = "NSRect" THEN "STRUCT" ELSE "SINT64"
    BY <1>4, <2>1, <2>2
  <2>4. TakenFrom(f) = IF u = "NSRect" THEN "memory" ELSE "edx:eax"
    BY <2>3 DEF TakenFrom
  <2>5. LeftIn(c) = IF u = "NSRect" THEN "memory" ELSE "edx:eax"
    <3>1. InMemory(c) <=> u = "NSRect"
      BY <2>2 DEF InMemory, u
    <3>2. u # "NSRect" => u \in Structs \ {"NSRect"}
      BY <2>2
    <3>3. c \notin {"f", "d", "v"}
      BY <1>5, StructOfIs
    <3>4. CASE u = "NSRect"
      <4>1. InMemory(c) /\ ~(StructOf(c) \in Structs \ {"NSRect"})
        BY <3>1, <3>4 DEF u
      <4> QED
        BY <2>1, <3>3, <3>4, <4>1 DEF LeftIn
    <3>5. CASE u # "NSRect"
      <4>1. ~InMemory(c) /\ StructOf(c) \in Structs \ {"NSRect"}
        BY <3>1, <3>2, <3>5 DEF u
      <4> QED
        BY <2>1, <3>3, <3>5, <4>1 DEF LeftIn
    <3> QED
      BY <3>4, <3>5
  <2> QED
    BY <2>4, <2>5 DEF c, f
<1> DEFINE plain == c \notin Structs \cup Tagged
<1>9. plain => StructOf(c) = c /\ c \notin Structs /\ ~InMemory(c)
  <2>1. plain => StructOf(c) = c /\ c \notin Structs
    BY StructOfIs
  <2>2. plain => c \notin {"NSRect", "Other"}
    BY <1>3 DEF Structs
  <2> QED
    BY <2>1, <2>2 DEF InMemory
<1>10. {"f", "d", "v"} \cap (Structs \cup Tagged) = {}
  BY StructOfIs
<1>11. plain => LeftIn(c) = IF callee = "perl" THEN IF c = "v" THEN "nowhere" ELSE "eax"
                            ELSE IF c \in {"f", "d"} THEN "st0" ELSE IF c = "v" THEN "nowhere" ELSE "eax"
  BY <1>9 DEF LeftIn
<1>6. CASE c \in {"f", "d"}
  <2>1. t \in {"float", "double"} /\ callee # "perl"
    BY <1>3, <1>6 DEF ReturnType, Structs, Tagged
  <2>2. f \in {"FLOAT", "DOUBLE"}
    BY <1>4, <2>1 DEF Structs
  <2>3. TakenFrom(f) = "st0" /\ LeftIn(c) = "st0"
    BY <1>6, <1>10, <1>11, <2>1, <2>2 DEF TakenFrom
  <2> QED
    BY <2>3 DEF c, f
<1>7. CASE c = "v"
  <2>1. t = "void"
    BY <1>7 DEF ReturnType, Structs, Tagged
  <2>2. f = "VOID"
    BY <1>4, <2>1 DEF Structs
  <2>3. TakenFrom(f) = "nowhere" /\ LeftIn(c) = "nowhere"
    BY <1>7, <1>10, <1>11, <2>2 DEF TakenFrom
  <2> QED
    BY <2>3 DEF c, f
<1>8. CASE c \notin Structs \cup Tagged \cup {"f", "d", "v"}
  <2>1. t \in {"schar", "sshort", "sint", "uint", "pointer"}
    BY <1>2, <1>3, <1>8 DEF ReturnType, Codes, IntCodes, PointerCodes
  <2>2. f = "INT"
    BY <1>4, <2>1 DEF Structs
  <2>3. TakenFrom(f) = "eax"
    BY <2>2 DEF TakenFrom
  <2>4. LeftIn(c) = "eax"
    BY <1>8, <1>11
  <2> QED
    BY <2>3, <2>4 DEF c, f
<1> QED
  BY <1>5, <1>6, <1>7, <1>8

\* Room is made for a structure's address, the address is pushed, and the
\* messenger that skips it is chosen, for the same signatures; and the result
\* is taken from where a native method leaves it (ffi_prep_cif,
\* ffi_prep_cif_machdep, CBMessengerFunctionForFFIType, ffi_call_SYSV).
THEOREM ResultsAreFound == Spec => []ReturnFound
<1>1. Inv => ReturnFound
  <2> SUFFICES ASSUME Inv PROVE ReturnFound
    OBVIOUS
  <2>1. ASSUME phase = "running"
        PROVE  /\ cif.messenger = "stret" <=> cif.flags = "STRUCT"
               /\ cif.messenger = "stret" <=> frame[1].arg = 0
    <3>1. /\ Hidden \in {0, 1} /\ (Hidden = 1 <=> cif.messenger = "stret")
          /\ (cif.flags = "STRUCT" <=> cif.messenger = "stret")
      BY <2>1, HiddenIs
    <3>2. Hidden = 1 => frame[1].arg = 0
      BY <2>1, SelfIs DEF Stacked
    <3>3. Hidden = 0 => frame[1].arg = 1
      <4>1. Len(types) >= 2 /\ 1 \in 1 .. Len(types) /\ 1 \in 1 .. TypeWords(types[1])
        BY <2>1, SelfIs, TypeWordsType
      <4>2. frame[Words(types, Hidden, 1 - 1) + 1].arg = 1
        BY <2>1, <4>1, SelfIs
      <4>3. 1 - 1 = 0 /\ Words(types, 0, 0) = 0
        BY WordsStart
      <4> QED
        BY <4>2, <4>3
    <3> QED
      BY <3>1, <3>2, <3>3
  <2>2. \/ phase # "returned"
        \/ sig.ret = "Other"
        \/ callee = "perl" /\ sig.ret \in Structs \cup Tagged \cup {"f", "d"}
        \/ LeftIn(sig.ret) = TakenFrom(cif.flags)
    BY WhereLeft
  <2> QED
    BY <2>1, <2>2 DEF ReturnFound
<1> QED
  BY <1>1, Always, PTL

\* The number that Perl gets has the bits of the number the method returned,
\* and is it if it is an int, or not negative and in the lower half of its
\* type, whatever the register holds above it (CBCallNativeMethod's switch on
\* the return type).
THEOREM ReturnedBits == Spec => []ReturnKeepsBits
<1>1. Inv => ReturnKeepsBits
  <2> SUFFICES ASSUME Inv, phase = "returned", sig.ret \in IntCodes
               PROVE  LET n == SizeOf(sig.ret)
                      IN /\ Unsigned(result, n) = Unsigned(answer, n)
                         /\ (n = 4 \/ (0 <= answer /\ 2 * answer < Width(n))) => result = answer
    BY DEF ReturnKeepsBits
  <2> DEFINE c == sig.ret
  <2>1. c \in IntCodes /\ answer \in Int /\ InRange(answer, c) /\ \E w \in InEax(answer, c) : result = FromUnion(c, w)
    BY ForeignCallAssumption DEF Inv, Answered
  <2> HIDE DEF c
  <2>2. PICK w \in InEax(answer, c) : result = FromUnion(c, w)
    BY <2>1
  <2>3. w \in Int /\ Unsigned(w, SizeOf(c)) = Unsigned(answer, SizeOf(c))
    BY <2>1, RegisterIs
  <2>4. /\ Unsigned(result, SizeOf(c)) = Unsigned(answer, SizeOf(c))
        /\ (SizeOf(c) = 4 \/ (0 <= answer /\ 2 * answer < Width(SizeOf(c)))) => result = answer
    BY <2>1, <2>2, <2>3, Returned
  <2> QED
    BY <2>4 DEF c
<1> QED
  BY <1>1, Always, PTL

\* A method that va_arg can read steps over what is on the stack.
LEMMA PlaceIs ==
  ASSUME Inv, phase = "running", NEW n \in 1 .. Len(types), Readable(n), sig.ret # "Other"
  PROVE  /\ Position(n) = Words(types, Hidden, n - 1) + 1
         /\ NativeWords(IF n <= 2 THEN "@" ELSE sig.args[n - 2]) = TypeWords(types[n])
<1>1. Prepared /\ Called
  BY DEF Prepared, Called
<1>2. /\ Len(types) = Len(sig.args) + 2 /\ Len(types) \in Nat /\ sig.args \in Seq(Codes)
      /\ sig.ret \in Codes \ Unknown
  BY <1>1, UsedKnown, SignatureIs DEF Inv
<1>3. /\ types[1] = "pointer" /\ types[2] = "pointer" /\ 2 <= Len(types)
      /\ \A k \in 3 .. Len(types) : Filled(k)
  BY <1>1 DEF Inv, Filling
<1>4. TypeWords(types[1]) = 1 /\ TypeWords(types[2]) = 1 /\ NativeWords("@") = 1
  <2>1. StructOf("@") = "@" /\ "@" \notin Structs
    BY StructOfIs DEF Tagged, Structs
  <2> QED
    BY <1>3, <2>1 DEF TypeWords, NativeWords, Structs
<1>5. Offset = Hidden /\ Offset \in Nat
  <2>1. Hidden \in {0, 1} /\ (Hidden = 1 <=> sig.ret \in {"NSRect", "_NSRect"})
    BY HiddenIs
  <2>2. InMemory(sig.ret) <=> sig.ret \in {"NSRect", "_NSRect"}
    BY StructOfIs DEF InMemory
  <2>3. callee = "perl" => ~InMemory(sig.ret)
    BY DEF Readable
  <2>4. callee \in {"native", "perl"}
    BY DEF Inv, TypeOK
  <2> QED
    BY <2>1, <2>2, <2>3, <2>4 DEF Offset
<1>6. ASSUME NEW j \in 1 .. n - 2
      PROVE  /\ Steps(sig.args[j]) = TypeWords(types[j + 2])
             /\ NativeWords(sig.args[j]) = TypeWords(types[j + 2])
  <2> DEFINE c == sig.args[j]
  <2>1. j + 2 \in 3 .. Len(types) /\ (j + 2) - 2 = j /\ j \in 1 .. Len(sig.args)
    BY <1>2
  <2>2. c \notin Unknown \cup {"v", "Other"} /\ types[j + 2] = ArgumentType(c)
    BY <1>3, <2>1 DEF Filled
  <2>3. c \in Codes /\ (callee # "native" => c \notin Tagged \cup {"f"})
    <3>1. callee \in {"native", "perl"}
      BY DEF Inv, TypeOK
    <3> QED
      BY <1>2, <2>1, <3>1 DEF Readable
  <2> HIDE DEF c
  <2>4. NativeWords(c) = TypeWords(ArgumentType(c)) /\ (c \notin Tagged \cup {"f"} => PerlWords(c) = TypeWords(ArgumentType(c)))
    BY <2>2, <2>3, ArgumentWords
  <2> QED
    BY <2>2, <2>3, <2>4 DEF Steps, c
<1>7. CASE n <= 2
  <2>1. n \in {1, 2}
    BY <1>7
  <2>2. Position(n) = Offset + n
    BY <1>7 DEF Position, Offset
  <2>3. Words(types, Offset, 0) = Offset /\ Words(types, Offset, 1) = Offset + 1
    BY <1>4, <1>5, WordsTwo
  <2>4. Words(types, Offset, n - 1) = Offset + n - 1
    <3>1. CASE n = 1
      <4>1. n - 1 = 0
        BY <3>1
      <4> QED
        BY <1>5, <2>3, <3>1, <4>1
    <3>2. CASE n = 2
      <4>1. n - 1 = 1
        BY <3>2
      <4> QED
        BY <1>5, <2>3, <3>2, <4>1
    <3> QED
      BY <2>1, <3>1, <3>2
  <2>5. Position(n) = Words(types, Offset, n - 1) + 1
    BY <1>5, <2>1, <2>2, <2>4
  <2> QED
    BY <1>4, <1>5, <1>7, <2>1, <2>5
<1>8. CASE n > 2
  <2>1. n \in 3 .. Len(sig.args) + 3 /\ n - 2 \in 1 .. n - 2 /\ (n - 2) + 2 = n /\ ~(n <= 2)
    BY <1>2, <1>8
  <2>2. Agreed(n - 3)
    <3>1. \A j \in 1 .. n - 3 : j \in 1 .. n - 2
      BY <1>2
    <3> QED
      BY <1>6, <3>1 DEF Agreed
  <2>3. Position(n) = Words(types, Offset, n - 1) + 1
    BY <1>2, <1>4, <2>1, <2>2, PositionIs
  <2>4. NativeWords(sig.args[n - 2]) = TypeWords(types[n])
    BY <1>6, <2>1
  <2> QED
    BY <1>5, <2>1, <2>3, <2>4
<1> QED
  BY <1>7, <1>8

\* The arguments take no more stack than was reserved, and each parameter of
\* the method is, whole, the argument that Perl passed for it, with the bits
\* of the number and, native or below 2^31, with its value; of a Perl method
\* as far as CBPerlIMP's va_arg steps over what is there (ffi_prep_cif,
\* ffi_prep_args, CBPerlIMP).
THEOREM ArgumentsArrive == Spec => []MethodFindsArguments
<1>1. Inv => MethodFindsArguments
  <2> DEFINE param(n) == IF n <= 2 THEN "@" ELSE sig.args[n - 2]
             whole(n) == \A p \in 1 .. NativeWords(param(n)) :
                           /\ Position(n) + p - 1 <= Len(frame)
                           /\ frame[Position(n) + p - 1].arg = n /\ frame[Position(n) + p - 1].part = p
             read(n) == Reads(param(n), frame[Position(n)].val)
             exact(n) == /\ Unsigned(read(n), 4) = Unsigned(given[n], 4)
                         /\ (callee = "native" \/ 2 * given[n] < Word) => read(n) = given[n]
  <2> SUFFICES ASSUME Inv, phase = "running"
               PROVE  /\ 4 * Len(frame) <= cif.bytes
                      /\ \A n \in 1 .. Len(types) :
                           (Readable(n) /\ sig.ret # "Other") =>
                             whole(n) /\ ((param(n) \in IntCodes /\ InRange(given[n], param(n))) => exact(n))
    BY DEF MethodFindsArguments
  <2>1. 4 * Len(frame) <= cif.bytes
    <3>1. Len(frame) = Words(types, Hidden, Len(types))
      BY SelfIs DEF Stacked
    <3> QED
      BY <3>1 DEF Inv, Reserved
  <2>2. ASSUME NEW n \in 1 .. Len(types), Readable(n), sig.ret # "Other"
        PROVE  whole(n) /\ ((param(n) \in IntCodes /\ InRange(given[n], param(n))) => exact(n))
    <3> DEFINE at == Position(n)
               c == param(n)
               b == Words(types, Hidden, n - 1)
    <3>1. at = b + 1 /\ NativeWords(c) = TypeWords(types[n])
      BY <2>2, PlaceIs
    <3>2. b \in Nat /\ TypeWords(types[n]) \in 1 .. 4
      <4>1. Hidden \in Nat /\ n - 1 \in Nat
        BY HiddenIs
      <4> QED
        BY <4>1, WordsType, TypeWordsType
    <3>3. \A p \in 1 .. TypeWords(types[n]) :
            /\ b + p <= Len(frame) /\ frame[b + p].arg = n /\ frame[b + p].part = p
            /\ types[n] \in {"schar", "uchar", "sshort", "ushort", "sint", "uint"}
                 => frame[b + p].val = Extended(types[n], values[n])
      BY SelfIs
    <3>4. ASSUME c \in IntCodes, InRange(given[n], c)
          PROVE  LET y == Reads(c, frame[at].val)
                 IN /\ Unsigned(y, 4) = Unsigned(given[n], 4)
                    /\ (callee = "native" \/ 2 * given[n] < Word) => y = given[n]
      <4>1. n \in 3 .. Len(types) /\ c = sig.args[n - 2]
        BY <3>4 DEF IntCodes
      <4>2. Called
        BY DEF Called
      <4>3. types[n] = ArgumentType(c) /\ values[n] = Unsigned(given[n], SizeOf(c))
        BY <4>1, <4>2 DEF Inv, Filling, Filled
      <4>4. given[n] \in Int
        BY DEF Inv, TypeOK
      <4>5. 1 \in 1 .. TypeWords(types[n])
        BY <3>2
      <4> HIDE DEF c, at, b
      <4>6. types[n] \in {"schar", "uchar", "sshort", "ushort", "sint", "uint"}
        BY <3>4, <4>3, CodeIs
      <4>7. frame[at].val = Extended(types[n], values[n])
        BY <3>1, <3>3, <4>5, <4>6
      <4>8. callee = "native" => callee # "perl"
        OBVIOUS
      <4> QED
        BY <3>4, <4>3, <4>4, <4>7, <4>8, Arrives
    <3> HIDE DEF at, c, b
    <3>5. ASSUME NEW p \in 1 .. NativeWords(c)
          PROVE  /\ at + p - 1 <= Len(frame)
                 /\ frame[at + p - 1].arg = n /\ frame[at + p - 1].part = p
      <4>1. p \in 1 .. TypeWords(types[n]) /\ at + p - 1 = b + p
        BY <3>1, <3>2
      <4> QED
        BY <3>3, <4>1
    <3> QED
      BY <3>4, <3>5 DEF at, c
  <2> QED
    BY <2>1, <2>2
<1> QED
  BY <1>1, Always, PTL
=============================================================================
