--------------------------- MODULE DispatchProofs ---------------------------
(***************************************************************************)
(* A call that has not gone astray ends, for every chain of classes and    *)
(* every choice of methods.  The argument is a rank: each activation that  *)
(* calls another one without going astray has a greater rank than it, so   *)
(* that no two activations between which nothing goes astray are the same  *)
(* code, and there are no more of them than ranks.  What makes a SUPER     *)
(* call's stub the last but one is that the stub is made only if Perl      *)
(* finds nothing in the classes above, and what the runtime finds in a     *)
(* Perl class, Perl finds there or above it (Exports).                     *)
(***************************************************************************)
EXTENDS Dispatch, WellFoundedInduction, TLAPS

\* A call from f to g goes astray; s is the receiver.
Strays(f, g, s) ==
  \/ f.kind = "sub" /\ g.kind = "stub" /\ (~g.super \/ f.at # s)
  \/ f.kind = "imp" /\ g.kind = "stub"

\* A stub for the receiver's own class that sends the message to its superclass.
SuperStub(f, s) == f.kind = "stub" /\ f.super /\ f.at = s

\* How far a call has yet to go, if it does not go astray.
Rank(f, s) ==
  IF f.kind = "native" THEN 0
  ELSE IF f.kind = "stub" THEN IF SuperStub(f, s) THEN 1 ELSE Leaf + 4
  ELSE IF f.kind = "sub" THEN f.at + 2
  ELSE IF f.kind = "imp" THEN Leaf + 3
  ELSE Leaf + 5

\* Of the activations t.
Descends(t, s) ==
  \A k \in 1 .. Len(t) - 1 : Strays(t[k], t[k + 1], s) \/ Rank(t[k + 1], s) < Rank(t[k], s)
Waiting(t) == \A k \in 1 .. Len(t) - 1 : t[k].done
Methods(t) == \A k \in 1 .. Len(t) : t[k].kind = "sub" => t[k].at \in Perl
Strayed(t, s) == \E k \in 1 .. Len(t) - 1 : Strays(t[k], t[k + 1], s)

\* Whatever the runtime finds in a Perl class, Perl finds there or above.
Exports == \A e \in exported : Found(e[1] + 1) # {}
\* No package above the receiver's has the method.
Fresh == ~Idle /\ SuperStub(Top, self) => Top.done \/ Found(self) = {}

Inv ==
  /\ TypeOK
  /\ Descends(stack, self) /\ Waiting(stack) /\ Methods(stack) /\ Exports /\ Fresh
  /\ crashed => Strayed(stack, self)
----------------------------------------------------------------------------
(* Least and greatest numbers.                                              *)

LEMMA Less == ASSUME NEW x \in Nat, NEW y \in Nat, x < y PROVE <<x, y>> \in OpToRel(<, Nat)
BY DEF OpToRel

\* A set of numbers has a least one.
LEMMA LeastExists ==
  ASSUME NEW T, T \subseteq Nat, T # {}
  PROVE  \E m \in T : \A t \in T : m <= t
<1>1. PICK m \in T : \A y \in T : ~(<<y, m>> \in OpToRel(<, Nat))
  BY WFMin, NatLessThanWellFounded
<1>2. \A y \in T : y \in Nat /\ m \in Nat
  OBVIOUS
<1>3. ASSUME NEW y \in T PROVE m <= y
  <2>1. CASE y < m
    BY <1>1, <1>2, <2>1, Less
  <2> QED
    BY <1>2, <2>1
<1> QED
  BY <1>3

\* A bounded set of numbers has a greatest one.
LEMMA MaxExists ==
  ASSUME NEW S, NEW n \in Nat, S # {}, \A s \in S : s \in Nat /\ s <= n
  PROVE  \E m \in S : \A s \in S : s <= m
<1> DEFINE T == {n - s : s \in S}
<1>1. \A s \in S : n - s \in Nat
  OBVIOUS
<1>2. T \subseteq Nat /\ T # {}
  BY <1>1
<1> HIDE DEF T
<1>3. PICK t \in T : \A y \in T : t <= y
  BY <1>2, LeastExists
<1>4. PICK m \in S : t = n - m
  BY <1>3 DEF T
<1>5. \A s \in S : n - s \in T
  BY DEF T
<1>6. \A s \in S : n - m <= n - s
  BY <1>3, <1>4, <1>5
<1>7. \A s \in S : s <= m
  BY <1>6
<1> QED
  BY <1>7
----------------------------------------------------------------------------
(* Ranks and the stack.                                                     *)

Kinds == {"perl", "objc", "sub", "stub", "imp", "native"}

\* What is assumed of the chain.
LEMMA Constants ==
  /\ Leaf \in Nat /\ FirstPerl \in Nat \ {0} /\ MaxDepth \in Nat /\ MaxDepth > Leaf + 5
  /\ Classes = 0 .. Leaf /\ Perl = FirstPerl .. Leaf
  /\ \A c \in Classes : c \in Nat /\ c <= Leaf
  /\ \A c \in Perl : c \in Classes /\ c >= 1
BY ChainAssumption, DepthAssumption DEF Classes, Perl

\* Max of classes is one of them.
LEMMA Greatest ==
  ASSUME NEW S \in SUBSET Classes, S # {}
  PROVE  Max(S) \in S
<1>1. \E m \in S : \A s \in S : s <= m
  <2>1. \A s \in S : s \in Nat /\ s <= Leaf
    BY Constants
  <2> QED
    BY <2>1, Constants, MaxExists
<1>2. \E m \in S : \A s \in S : m >= s
  <2>1. \A m, s \in S : m \in Nat /\ s \in Nat
    BY Constants
  <2> QED
    BY <1>1, <2>1
<1> QED
  BY <1>2 DEF Max

\* The ranks, from native methods up to the callers outside.
LEMMA Ranks ==
  ASSUME NEW f \in Activation, NEW s \in Classes
  PROVE  /\ Rank(f, s) \in Nat /\ Rank(f, s) <= Leaf + 5
         /\ f.kind # "native" => Rank(f, s) >= 1
         /\ f.kind = "sub" => Rank(f, s) = f.at + 2 /\ f.at \in Nat /\ f.at <= Leaf
         /\ f.kind = "imp" => Rank(f, s) = Leaf + 3
         /\ f.kind = "stub" /\ ~SuperStub(f, s) => Rank(f, s) = Leaf + 4
         /\ SuperStub(f, s) => Rank(f, s) = 1
         /\ f.kind \in {"perl", "objc"} => Rank(f, s) = Leaf + 5
         /\ f.kind = "native" => Rank(f, s) = 0
<1>1. f.kind \in Kinds /\ f.at \in Classes
  BY DEF Activation, Kinds
<1>2. f.at \in Nat /\ f.at <= Leaf /\ Leaf \in Nat
  BY <1>1, Constants
<1> QED
  BY <1>1, <1>2 DEF Rank, Kinds, SuperStub

\* What counts of an activation.
LEMMA SameRank ==
  ASSUME NEW f, NEW g, NEW h, NEW s, h.kind = f.kind, h.at = f.at, h.super = f.super
  PROVE  /\ Rank(h, s) = Rank(f, s) /\ (SuperStub(h, s) <=> SuperStub(f, s))
         /\ Strays(h, g, s) <=> Strays(f, g, s)
         /\ Strays(g, h, s) <=> Strays(g, f, s)
BY DEF Rank, Strays, SuperStub

\* An activation that begins.
LEMMA News ==
  ASSUME NEW kind \in Kinds, NEW at \in Classes, NEW sel \in Sels, NEW super \in BOOLEAN
  PROVE  /\ New(kind, at, sel, super) \in Activation
         /\ New(kind, at, sel, super).kind = kind /\ New(kind, at, sel, super).at = at
         /\ New(kind, at, sel, super).sel = sel /\ New(kind, at, sel, super).super = super
         /\ New(kind, at, sel, super).done = FALSE
BY DEF New, Activation, Kinds

\* What the steps need of the types.
LEMMA Parts ==
  ASSUME TypeOK
  PROVE  /\ native \subseteq (Classes \ Perl) \X Sels /\ exported \subseteq Perl \X Sels
         /\ subs \in [Perl -> {"none", "answers", "super"}]
         /\ cache \in [Package -> Sels \cup {NoSel}] /\ self \in Classes
         /\ stack \in Seq(Activation) /\ Len(stack) \in Nat /\ Len(stack) <= MaxDepth
         /\ stack # <<>> => /\ Len(stack) >= 1 /\ Top = stack[Len(stack)] /\ Top \in Activation
                            /\ Top.at \in Classes /\ Top.sel \in Sels
<1>1. /\ stack \in Seq(Activation) /\ Len(stack) \in Nat /\ Len(stack) <= MaxDepth
  BY DEF TypeOK
<1>2. stack # <<>> => /\ Len(stack) >= 1 /\ Top = stack[Len(stack)] /\ Top \in Activation
  BY <1>1 DEF Top, Last
<1>3. stack # <<>> => Top.at \in Classes /\ Top.sel \in Sels
  BY <1>2 DEF Activation
<1> QED
  BY <1>1, <1>2, <1>3 DEF TypeOK

LEMMA Appends ==
  ASSUME NEW s \in Seq(Activation), NEW f \in Activation
  PROVE  /\ Append(s, f) \in Seq(Activation) /\ Len(Append(s, f)) = Len(s) + 1
         /\ \A i \in 1 .. Len(s) : Append(s, f)[i] = s[i]
         /\ Append(s, f)[Len(s) + 1] = f
OBVIOUS

\* The call of f is entered.
LEMMA Entered ==
  ASSUME stack \in Seq(Activation), stack # <<>>, NEW f \in Activation,
         stack' = Append([stack EXCEPT ![Len(stack)].done = TRUE], f)
  PROVE  /\ stack' \in Seq(Activation) /\ Len(stack') = Len(stack) + 1
         /\ stack'[Len(stack) + 1] = f /\ Last(stack') = f
         /\ \A i \in 1 .. Len(stack) :
              /\ stack'[i].kind = stack[i].kind /\ stack'[i].at = stack[i].at
              /\ stack'[i].super = stack[i].super
              /\ (stack[i].done \/ i = Len(stack)) => stack'[i].done
<1> DEFINE n == Len(stack) g == [stack[n] EXCEPT !.done = TRUE] u == [stack EXCEPT ![n] = g]
<1>1. n \in Nat /\ n > 0 /\ stack[n] \in Activation /\ n \in 1 .. n
  OBVIOUS
<1>2. /\ g \in Activation /\ g.kind = stack[n].kind /\ g.at = stack[n].at
      /\ g.super = stack[n].super /\ g.done = TRUE
  BY <1>1 DEF Activation
<1>3. stack' = Append(u, f)
  OBVIOUS
<1> HIDE DEF g
<1>4. /\ u \in Seq(Activation) /\ Len(u) = n /\ u[n] = g
      /\ \A i \in 1 .. n : i # n => u[i] = stack[i]
  BY <1>1, <1>2
<1> HIDE DEF u
<1>5. /\ stack' \in Seq(Activation) /\ Len(stack') = n + 1 /\ stack'[n + 1] = f
      /\ \A i \in 1 .. n : stack'[i] = u[i]
  <2>1. /\ Append(u, f) \in Seq(Activation) /\ Len(Append(u, f)) = Len(u) + 1
        /\ \A i \in 1 .. Len(u) : Append(u, f)[i] = u[i]
        /\ Append(u, f)[Len(u) + 1] = f
    BY <1>4, Appends
  <2> HIDE DEF n
  <2> QED
    BY <1>3, <1>4, <2>1
<1>6. ASSUME NEW i \in 1 .. n
      PROVE  /\ stack'[i].kind = stack[i].kind /\ stack'[i].at = stack[i].at
             /\ stack'[i].super = stack[i].super
             /\ (stack[i].done \/ i = n) => stack'[i].done
  <2>1. CASE i = n
    BY <1>2, <1>4, <1>5, <2>1
  <2>2. CASE i # n
    <3>1. stack'[i] = stack[i]
      BY <1>4, <1>5, <2>2
    <3> QED
      BY <2>2, <3>1
  <2> QED
    BY <2>1, <2>2
<1>7. Last(stack') = f
  BY <1>1, <1>5 DEF Last
<1> QED
  BY <1>5, <1>6, <1>7

\* Ranks go down along a stack that has not gone astray.
LEMMA Descent ==
  ASSUME NEW t \in Seq(Activation), NEW s \in Classes, Descends(t, s),
         NEW i \in 1 .. Len(t), NEW j \in i .. Len(t),
         \A k \in i .. j - 1 : ~Strays(t[k], t[k + 1], s)
  PROVE  Rank(t[j], s) + (j - i) <= Rank(t[i], s)
<1> DEFINE n == Len(t) r(k) == Rank(t[k], s)
           T == {k \in i .. j : ~(r(k) + (k - i) <= r(i))}
<1>1. n \in Nat /\ i \in Nat /\ j \in Nat /\ i >= 1 /\ i <= j /\ j <= n
  OBVIOUS
<1>2. \A k \in 1 .. n : r(k) \in Nat
  BY Ranks
<1>3. \A k \in i .. j - 1 : r(k + 1) < r(k)
  <2>1. \A k \in i .. j - 1 : k \in 1 .. Len(t) - 1
    BY <1>1
  <2> QED
    BY <2>1 DEF Descends
<1> HIDE DEF r, n
<1>4. CASE T = {}
  <2>1. j \in i .. j
    BY <1>1
  <2>2. r(j) + (j - i) <= r(i)
    BY <1>4, <2>1
  <2> QED
    BY <2>2 DEF r
<1>5. CASE T # {}
  <2>1. \A k \in T : k \in Nat /\ k >= i /\ k <= j
    BY <1>1
  <2> HIDE DEF T
  <2>2. PICK m \in T : \A k \in T : m <= k
    <3>1. T \subseteq Nat
      BY <2>1
    <3> QED
      BY <1>5, <3>1, LeastExists
  <2>3. m \in Nat /\ m >= i /\ m <= j /\ ~(r(m) + (m - i) <= r(i))
    BY <2>1, <2>2 DEF T
  <2>4. r(m) \in Nat /\ r(i) \in Nat
    BY <1>1, <1>2, <2>3
  <2>5. m # i
    BY <1>1, <2>3, <2>4
  <2>6. m - 1 \in i .. j - 1 /\ m - 1 \in 1 .. n
    BY <1>1, <2>3, <2>5
  <2>7. m - 1 \notin T
    BY <2>2, <2>3
  <2>8. r(m - 1) + ((m - 1) - i) <= r(i)
    BY <2>6, <2>7, <1>1 DEF T
  <2>9. r((m - 1) + 1) < r(m - 1) /\ r(m - 1) \in Nat
    BY <1>2, <1>3, <2>6
  <2>10. (m - 1) + 1 = m
    BY <2>3
  <2> QED
    BY <1>1, <2>3, <2>4, <2>8, <2>9, <2>10
<1> QED
  BY <1>4, <1>5
----------------------------------------------------------------------------
(* A call is entered.                                                       *)

\* Perl finds no less as subs and cached stubs are added.
LEMMA FoundGrows ==
  ASSUME NEW n, \A c \in Perl : subs[c] # "none" => subs'[c] # "none",
         \A p \in Package : cache[p] # NoSel => cache'[p] # NoSel
  PROVE  Found(n) \subseteq Found(n)'
<1>1. \A c \in Classes : <<c, FALSE>> \in Package
  BY DEF Package
<1> QED
  BY <1>1 DEF Found, HasSub

\* What Enter leaves of the stack.
LEMMA EnterKeeps ==
  ASSUME Inv, ~Idle, NEW f \in Activation, Enter(f),
         Strays(Top, f, self) \/ Rank(f, self) < Rank(Top, self),
         Top.kind # "native", f.kind = "sub" => f.at \in Perl
  PROVE  /\ stack' \in Seq(Activation) /\ Len(stack') <= MaxDepth
         /\ Descends(stack', self) /\ Waiting(stack') /\ Methods(stack')
         /\ \/ stack' = stack /\ Strayed(stack, self)
            \/ stack' = stack /\ UNCHANGED crashed
            \/ Last(stack') = f /\ UNCHANGED crashed
<1> DEFINE n == Len(stack)
<1>1. /\ stack \in Seq(Activation) /\ n \in Nat /\ n >= 1 /\ n <= MaxDepth /\ stack # <<>>
      /\ Top = stack[n] /\ Top \in Activation /\ self \in Classes
  BY Parts DEF Inv, Idle
<1>2. Descends(stack, self) /\ Waiting(stack) /\ Methods(stack)
  BY DEF Inv
<1>3. CASE /\ n < MaxDepth /\ stack' = Append([stack EXCEPT ![Len(stack)].done = TRUE], f)
           /\ UNCHANGED crashed
  <2>1. /\ stack' \in Seq(Activation) /\ Len(stack') = n + 1
        /\ stack'[n + 1] = f /\ Last(stack') = f
        /\ \A i \in 1 .. n : /\ stack'[i].kind = stack[i].kind /\ stack'[i].at = stack[i].at
                             /\ stack'[i].super = stack[i].super
                             /\ (stack[i].done \/ i = n) => stack'[i].done
    <3>1. stack' = Append([stack EXCEPT ![Len(stack)].done = TRUE], f)
      BY <1>3
    <3> QED
      BY <1>1, <3>1, Entered
  <2>l. Len(stack') - 1 = n
    BY <1>1, <2>1
  <2> HIDE DEF n
  <2>2. ASSUME NEW k \in 1 .. n
        PROVE  /\ Rank(stack'[k], self) = Rank(stack[k], self)
               /\ \A g : Strays(stack'[k], g, self) <=> Strays(stack[k], g, self)
               /\ \A g : Strays(g, stack'[k], self) <=> Strays(g, stack[k], self)
    <3> DEFINE h == stack'[k] e == stack[k]
    <3>1. h.kind = e.kind /\ h.at = e.at /\ h.super = e.super
      BY <2>1
    <3> HIDE DEF h, e
    <3>2. /\ Rank(h, self) = Rank(e, self)
          /\ \A g : Strays(h, g, self) <=> Strays(e, g, self)
          /\ \A g : Strays(g, h, self) <=> Strays(g, e, self)
      BY <3>1, SameRank
    <3> QED
      BY <3>2 DEF h, e
  <2>3. Descends(stack', self)
    <3> SUFFICES ASSUME NEW k \in 1 .. n
                 PROVE  \/ Strays(stack'[k], stack'[k + 1], self)
                        \/ Rank(stack'[k + 1], self) < Rank(stack'[k], self)
      BY <2>l DEF Descends
    <3>1. CASE k = n
      BY <1>1, <2>1, <2>2, <3>1
    <3>2. CASE k # n
      <4>1. k \in 1 .. n - 1 /\ k + 1 \in 1 .. n
        BY <1>1, <3>2
      <4>2. Strays(stack[k], stack[k + 1], self) \/ Rank(stack[k + 1], self) < Rank(stack[k], self)
        BY <1>2, <4>1 DEF Descends, n
      <4> QED
        BY <2>2, <4>1, <4>2
    <3> QED
      BY <3>1, <3>2
  <2>4. Waiting(stack')
    <3> SUFFICES ASSUME NEW k \in 1 .. n
                 PROVE  stack'[k].done
      BY <2>l DEF Waiting
    <3>1. stack[k].done \/ k = n
      BY <1>1, <1>2 DEF Waiting, n
    <3> QED
      BY <2>1, <3>1
  <2>5. Methods(stack')
    <3> SUFFICES ASSUME NEW k \in 1 .. n + 1, stack'[k].kind = "sub"
                 PROVE  stack'[k].at \in Perl
      BY <1>1, <2>1 DEF Methods
    <3>1. CASE k = n + 1
      BY <2>1, <3>1
    <3>2. CASE k # n + 1
      BY <1>1, <1>2, <2>1, <3>2 DEF Methods, n
    <3> QED
      BY <3>1, <3>2
  <2>6. n + 1 <= MaxDepth
    BY <1>1, <1>3, Constants DEF n
  <2> QED
    BY <1>3, <2>1, <2>3, <2>4, <2>5, <2>6
<1>4. CASE n = MaxDepth /\ UNCHANGED stack
  <2>1. Strayed(stack, self)
    <3> SUFFICES ASSUME ~Strayed(stack, self)
                 PROVE  FALSE
      OBVIOUS
    <3>1. \A k \in 1 .. n - 1 : ~Strays(stack[k], stack[k + 1], self)
      BY DEF Strayed
    <3>2. Rank(stack[n], self) + (n - 1) <= Rank(stack[1], self)
      <4>1. 1 \in 1 .. n /\ n \in 1 .. n
        BY <1>1
      <4> QED
        BY <1>1, <1>2, <3>1, <4>1, Descent
    <3>3. stack[1] \in Activation
      BY <1>1
    <3>4. /\ Rank(stack[1], self) \in Nat /\ Rank(stack[1], self) <= Leaf + 5
          /\ Rank(stack[n], self) \in Nat /\ Rank(stack[n], self) >= 1
      BY <1>1, <3>3, Ranks
    <3> QED
      BY <1>1, <1>4, <3>2, <3>4, Constants
  <2> QED
    BY <1>1, <1>2, <1>4, <2>1
<1> QED
  BY <1>3, <1>4 DEF Enter

\* A call keeps the invariant.
LEMMA EnterStep ==
  ASSUME Inv, ~Idle, ~crashed, NEW f \in Activation, Enter(f), UNCHANGED <<program, self>>,
         Strays(Top, f, self) \/ Rank(f, self) < Rank(Top, self),
         Top.kind # "native", f.kind = "sub" => f.at \in Perl,
         cache' \in [Package -> Sels \cup {NoSel}],
         \A p \in Package : cache[p] # NoSel => cache'[p] # NoSel,
         SuperStub(Top, self) \/ SuperStub(f, self) => Found(self)' = {}
  PROVE  Inv'
<1>1. /\ stack' \in Seq(Activation) /\ Len(stack') <= MaxDepth
      /\ Descends(stack', self) /\ Waiting(stack') /\ Methods(stack')
      /\ \/ stack' = stack /\ Strayed(stack, self)
         \/ stack' = stack /\ UNCHANGED crashed
         \/ Last(stack') = f /\ UNCHANGED crashed
  BY EnterKeeps
<1>2. UNCHANGED <<native, subs, exported, self>>
  BY DEF program
<1>3. crashed' \in BOOLEAN
  BY Zenon DEF Enter, Inv, TypeOK
<1>4. TypeOK'
  <2>1. /\ native' \subseteq (Classes \ Perl) \X Sels /\ subs' \in [Perl -> {"none", "answers", "super"}]
        /\ exported' \subseteq Perl \X Sels /\ self' \in Classes
    BY <1>2 DEF Inv, TypeOK
  <2> QED
    BY <1>1, <1>3, <2>1 DEF TypeOK
<1>5. Descends(stack, self)' /\ Waiting(stack)' /\ Methods(stack)'
  BY <1>1, <1>2
<1>6. Exports'
  <2>1. \A n : Found(n) \subseteq Found(n)'
    BY <1>2, FoundGrows
  <2>2. \A e \in exported : Found(e[1] + 1) # {}
    BY DEF Inv, Exports
  <2>3. \A e \in exported : Found(e[1] + 1)' # {}
    BY <2>1, <2>2
  <2> QED
    BY <1>2, <2>3 DEF Exports
<1>7. Fresh'
  <2>1. Top' = Top \/ Top' = f
    BY <1>1 DEF Top
  <2> QED
    BY <1>2, <2>1 DEF Fresh
<1>8. crashed' => Strayed(stack, self)'
  BY <1>1, <1>2
<1> QED
  BY <1>4, <1>5, <1>6, <1>7, <1>8 DEF Inv

\* Perl runs a sub or a cached stub.
LEMMA RunsFacts ==
  ASSUME TypeOK, NEW n, NEW sel \in Sels, Found(n) # {}, Runs(Max(Found(n)), sel)
  PROVE  \E f \in Activation :
           /\ Enter(f) /\ UNCHANGED cache /\ f.super = FALSE
           /\ Max(Found(n)) \in Classes /\ Max(Found(n)) < n
           /\ f.at = Max(Found(n))
           /\ f.kind = "stub" \/ (f.kind = "sub" /\ f.at \in Perl)
<1> DEFINE m == Max(Found(n))
           key == <<m, FALSE>>
<1>1. m \in Found(n)
  <2>1. Found(n) \in SUBSET Classes
    BY DEF Found
  <2> QED
    BY <2>1, Greatest
<1>2. m \in Classes /\ m < n /\ (HasSub(m) \/ cache[key] # NoSel)
  BY <1>1 DEF Found
<1>3. /\ Enter(IF HasSub(m) THEN New("sub", m, sel, FALSE) ELSE New("stub", m, cache[key], FALSE))
      /\ UNCHANGED cache
  BY DEF Runs
<1> HIDE DEF m
<1>4. CASE HasSub(m)
  <2>1. New("sub", m, sel, FALSE) \in Activation
    BY <1>2, News DEF Kinds
  <2>2. New("sub", m, sel, FALSE).kind = "sub" /\ New("sub", m, sel, FALSE).at = m
        /\ New("sub", m, sel, FALSE).super = FALSE
    BY DEF New
  <2>3. m \in Perl
    BY <1>4 DEF HasSub
  <2>4. Enter(New("sub", m, sel, FALSE))
    BY <1>3, <1>4
  <2> HIDE DEF key
  <2> QED
    BY <1>2, <1>3, <2>1, <2>2, <2>3, <2>4 DEF m
<1>5. CASE ~HasSub(m)
  <2> DEFINE s == cache[key]
  <2>1. s \in Sels
    <3>1. key \in Package
      BY <1>2 DEF Package
    <3> QED
      BY <1>2, <1>5, <3>1, Parts
  <2>2. Enter(New("stub", m, s, FALSE))
    BY <1>3, <1>5
  <2> HIDE DEF s
  <2>3. New("stub", m, s, FALSE) \in Activation
    BY <1>2, <2>1, News DEF Kinds
  <2>4. New("stub", m, s, FALSE).kind = "stub" /\ New("stub", m, s, FALSE).at = m
        /\ New("stub", m, s, FALSE).super = FALSE
    BY DEF New
  <2> QED
    BY <1>2, <1>3, <2>2, <2>3, <2>4 DEF m
<1> QED
  BY <1>4, <1>5

\* AUTOLOAD makes a stub.
LEMMA AutoloadFacts ==
  ASSUME TypeOK, NEW package \in Package, NEW sel \in Sels, AUTOLOAD(package, sel)
  PROVE  \E f \in Activation :
           /\ Enter(f) /\ f.kind = "stub" /\ f.at = package[1]
           /\ f.super = (package[2] /\ package[1] \notin Nested)
           /\ f.super => UNCHANGED cache
           /\ cache' \in [Package -> Sels \cup {NoSel}]
           /\ \A p \in Package : cache[p] # NoSel => cache'[p] # NoSel
<1> DEFINE super == package[2] /\ package[1] \notin Nested
           f == New("stub", package[1], sel, super)
<1>1. /\ Enter(f)
      /\ cache' = IF CacheAutoload /\ ~super THEN [cache EXCEPT ![package] = sel] ELSE cache
  BY DEF AUTOLOAD
<1>2. super \in BOOLEAN /\ package[1] \in Classes
  BY DEF Package
<1> DEFINE c == package[1]
<1>3. cache \in [Package -> Sels \cup {NoSel}] /\ NoSel \notin Sels
  BY Parts DEF Sels, NoSel
<1>4. /\ cache' \in [Package -> Sels \cup {NoSel}]
      /\ \A p \in Package : cache[p] # NoSel => cache'[p] # NoSel
      /\ super => cache' = cache
  BY <1>1, <1>3
<1>5. f \in Activation /\ f.kind = "stub" /\ f.at = package[1] /\ f.super = super
  <2>1. c \in Classes /\ super \in BOOLEAN /\ f = New("stub", c, sel, super)
    BY <1>2
  <2> HIDE DEF c, super, f
  <2>2. f \in Activation /\ f.kind = "stub" /\ f.at = c /\ f.super = super
    BY <2>1 DEF New, Activation
  <2> QED
    BY <2>2 DEF c
<1> HIDE DEF f, c
<1>6. f.super = (package[2] /\ package[1] \notin Nested)
  BY <1>5 DEF super
<1> QED
  BY <1>1, <1>4, <1>5, <1>6
----------------------------------------------------------------------------
(* The steps.                                                               *)

\* The activation that makes a call.
LEMMA TopParts ==
  ASSUME Inv, NEW kinds, Calling(kinds)
  PROVE  /\ ~Idle /\ ~crashed /\ Top.kind \in kinds /\ ~Top.done
         /\ Len(stack) >= 1 /\ Len(stack) \in Nat /\ Top = stack[Len(stack)]
         /\ Top \in Activation /\ Top.at \in Classes /\ Top.sel \in Sels /\ self \in Classes
         /\ Top.kind = "sub" => Top.at \in Perl
         /\ TypeOK
<1>1. ~Idle /\ ~crashed /\ Top.kind \in kinds /\ ~Top.done
  BY DEF Calling
<1>2. /\ Len(stack) >= 1 /\ Len(stack) \in Nat /\ Top = stack[Len(stack)]
      /\ Top \in Activation /\ Top.at \in Classes /\ Top.sel \in Sels /\ self \in Classes
      /\ TypeOK
  BY <1>1, Parts DEF Inv, Idle
<1>3. Top.kind = "sub" => Top.at \in Perl
  BY <1>2 DEF Inv, Methods
<1> QED
  BY <1>1, <1>2, <1>3

\* Perl code, or REAL_CBPerlIMP, calls a Perl method: a sub, or a stub.
LEMMA CallMethodStep ==
  ASSUME Inv, CallMethod
  PROVE  Inv'
<1>1. Calling({"perl", "imp"}) /\ UNCHANGED <<program, self>>
  BY DEF CallMethod
<1>2. /\ ~Idle /\ ~crashed /\ Top.kind \in {"perl", "imp"}
      /\ Top \in Activation /\ Top.sel \in Sels /\ self \in Classes /\ TypeOK
  BY <1>1, TopParts
<1>3. cache \in [Package -> Sels \cup {NoSel}]
  BY <1>2, Parts
<1>4. ASSUME NEW f \in Activation, Enter(f), f.super = FALSE,
             f.kind = "stub" \/ (f.kind = "sub" /\ f.at \in Perl),
             cache' \in [Package -> Sels \cup {NoSel}],
             \A p \in Package : cache[p] # NoSel => cache'[p] # NoSel
      PROVE  Inv'
  <2>1. ~SuperStub(f, self) /\ ~SuperStub(Top, self)
    BY <1>2, <1>4 DEF SuperStub
  <2>2. Rank(Top, self) \in {Leaf + 5, Leaf + 3} /\ (Top.kind = "perl" => Rank(Top, self) = Leaf + 5)
    BY <1>2, Ranks
  <2>3. f.kind = "sub" => Rank(f, self) <= Leaf + 2
    BY <1>2, <1>4, Ranks, Constants, SMTT(30)
  <2>4. f.kind = "stub" => Rank(f, self) = Leaf + 4
    BY <1>2, <1>4, <2>1, Ranks
  <2>5. Strays(Top, f, self) \/ Rank(f, self) < Rank(Top, self)
    <3>1. CASE Top.kind = "imp" /\ f.kind = "stub"
      BY <3>1 DEF Strays
    <3>2. CASE f.kind = "sub"
      <4>1. Rank(f, self) \in Nat /\ Leaf \in Nat
        BY <1>2, <1>4, Ranks, Constants
      <4> QED
        BY <2>2, <2>3, <3>2, <4>1
    <3>3. CASE Top.kind = "perl" /\ f.kind = "stub"
      BY <2>2, <2>4, <3>3, Constants
    <3> QED
      BY <1>2, <1>4, <3>1, <3>2, <3>3
  <2> QED
    BY <1>1, <1>2, <1>4, <2>1, <2>5, EnterStep
<1>5. CASE Found(self + 1) # {} /\ Runs(Max(Found(self + 1)), Top.sel)
  BY <1>2, <1>3, <1>4, <1>5, RunsFacts
<1>6. CASE AUTOLOAD(<<self, FALSE>>, Top.sel)
  <2>1. <<self, FALSE>> \in Package
    BY <1>2 DEF Package
  <2> QED
    BY <1>2, <1>4, <1>6, <2>1, AutoloadFacts
<1> QED
  BY <1>5, <1>6 DEF CallMethod

\* A sub calls SUPER: one of a class further up, or a stub.
LEMMA CallSuperStep ==
  ASSUME Inv, CallSuper
  PROVE  Inv'
<1> DEFINE a == Top.at here == <<a, TRUE>>
<1>1. Calling({"sub"}) /\ UNCHANGED <<program, self>>
  BY DEF CallSuper
<1>2. /\ ~Idle /\ ~crashed /\ Top.kind = "sub" /\ a \in Perl /\ a \in Classes
      /\ Top \in Activation /\ Top.sel \in Sels /\ self \in Classes /\ TypeOK
  BY <1>1, TopParts
<1>3. cache \in [Package -> Sels \cup {NoSel}] /\ here \in Package
  BY <1>2, Parts DEF Package
<1>4. \/ cache[here] # NoSel /\ Enter(New("stub", a, cache[here], FALSE)) /\ UNCHANGED cache
      \/ Found(a) # {} /\ Runs(Max(Found(a)), Top.sel)
      \/ Found(a) = {} /\ AUTOLOAD(here, Top.sel)
  BY DEF CallSuper
<1>5. /\ Rank(Top, self) = a + 2 /\ a \in Nat /\ a >= 1 /\ ~SuperStub(Top, self)
  BY <1>2, Ranks, Constants DEF SuperStub
<1>6. ASSUME NEW f \in Activation, Enter(f), f.super = FALSE,
             f.kind = "stub" \/ (f.kind = "sub" /\ f.at \in Perl /\ f.at < a), UNCHANGED cache
      PROVE  Inv'
  <2>1. ~SuperStub(f, self)
    BY <1>6 DEF SuperStub
  <2>2. f.kind = "stub" => Strays(Top, f, self)
    BY <1>2, <1>6 DEF Strays
  <2>3. f.kind = "sub" => Rank(f, self) < Rank(Top, self)
    <3>1. f.kind = "sub" => Rank(f, self) = f.at + 2 /\ f.at \in Nat
      BY <1>2, <1>6, Ranks
    <3> QED
      BY <1>5, <1>6, <3>1
  <2> QED
    BY <1>1, <1>2, <1>3, <1>5, <1>6, <2>1, <2>2, <2>3, EnterStep
<1>7. CASE cache[here] # NoSel /\ Enter(New("stub", a, cache[here], FALSE)) /\ UNCHANGED cache
  <2> DEFINE s == cache[here] f == New("stub", a, s, FALSE)
  <2>1. s \in Sels
    BY <1>3, <1>7
  <2> HIDE DEF s
  <2>2. f \in Activation /\ f.kind = "stub" /\ f.super = FALSE
    BY <1>2, <2>1 DEF New, Activation
  <2>3. Enter(f)
    BY <1>7 DEF s
  <2> HIDE DEF f
  <2> QED
    BY <1>6, <1>7, <2>2, <2>3
<1>8. CASE Found(a) # {} /\ Runs(Max(Found(a)), Top.sel)
  BY <1>2, <1>6, <1>8, RunsFacts
<1>9. CASE Found(a) = {} /\ AUTOLOAD(here, Top.sel)
  <2>1. here[1] = a
    OBVIOUS
  <2> HIDE DEF here, a
  <2>2. PICK f \in Activation :
           /\ Enter(f) /\ f.kind = "stub" /\ f.at = a
           /\ f.super => UNCHANGED cache
           /\ cache' \in [Package -> Sels \cup {NoSel}]
           /\ \A p \in Package : cache[p] # NoSel => cache'[p] # NoSel
    BY <1>2, <1>3, <1>9, <2>1, AutoloadFacts
  <2>3. Strays(Top, f, self) \/ SuperStub(f, self)
    BY <1>2, <2>2 DEF Strays, SuperStub, a
  <2>4. SuperStub(f, self) => Rank(f, self) < Rank(Top, self)
    <3>1. SuperStub(f, self) => Rank(f, self) = 1
      BY <1>2, Ranks
    <3> QED
      BY <1>5, <3>1
  <2>5. SuperStub(f, self) => Found(self)' = {}
    <3>1. SuperStub(f, self) => a = self /\ UNCHANGED cache
      BY <2>2 DEF SuperStub
    <3>2. UNCHANGED subs /\ UNCHANGED self
      BY <1>1 DEF program
    <3> QED
      BY <1>9, <3>1, <3>2 DEF Found, HasSub
  <2> QED
    BY <1>1, <1>2, <1>5, <2>2, <2>3, <2>4, <2>5, EnterStep
<1> QED
  BY <1>4, <1>7, <1>8, <1>9

\* The end of a call.
LEMMA CutStep ==
  ASSUME Inv, ~crashed, ~Idle, stack' = <<>> \/ stack' = Front(stack),
         UNCHANGED <<program, cache, self, crashed>>
  PROVE  Inv'
<1> DEFINE n == Len(stack)
<1>1. /\ stack \in Seq(Activation) /\ n \in Nat /\ n >= 1 /\ n <= MaxDepth
      /\ TypeOK /\ Descends(stack, self) /\ Waiting(stack) /\ Methods(stack)
  BY Parts DEF Inv, Idle
<1>2. UNCHANGED <<native, subs, exported, cache, self, crashed>>
  BY DEF program
<1>3. /\ stack' \in Seq(Activation) /\ Len(stack') \in {0, n - 1}
      /\ \A i \in 1 .. Len(stack') : stack'[i] = stack[i]
  <2>1. CASE stack' = <<>>
    BY <2>1
  <2>2. CASE stack' = Front(stack)
    <3> DEFINE m == n - 1
    <3>1. Front(stack) = SubSeq(stack, 1, m)
      BY DEF Front
    <3>2. m \in Nat /\ m <= n /\ \A i \in 1 .. m : stack[i] \in Activation
      BY <1>1
    <3> HIDE DEF m
    <3>3. SubSeq(stack, 1, m) = [i \in 1 .. m |-> stack[i]]
      BY <1>1, <3>2
    <3>4. stack' = [i \in 1 .. m |-> stack[i]]
      BY <2>2, <3>1, <3>3
    <3>5. /\ stack' \in Seq(Activation) /\ Len(stack') = m
          /\ \A i \in 1 .. m : stack'[i] = stack[i]
      BY <3>2, <3>4
    <3> QED
      BY <3>5 DEF m
  <2> QED
    BY <2>1, <2>2
<1>4. Len(stack') \in Nat /\ Len(stack') < n
  BY <1>1, <1>3
<1> HIDE DEF n
<1>5. Descends(stack', self) /\ Waiting(stack') /\ Methods(stack')
  <2>1. \A k \in 1 .. Len(stack') - 1 :
          /\ k \in 1 .. n - 1 /\ stack'[k] = stack[k] /\ stack'[k + 1] = stack[k + 1]
    BY <1>1, <1>3, <1>4
  <2>2. \A k \in 1 .. Len(stack') : k \in 1 .. n /\ stack'[k] = stack[k]
    BY <1>1, <1>3, <1>4
  <2>3. Descends(stack', self) /\ Waiting(stack')
    BY <1>1, <2>1 DEF Descends, Waiting, n
  <2>4. Methods(stack')
    BY <1>1, <2>2 DEF Methods, n
  <2> QED
    BY <2>3, <2>4
<1>6. TypeOK'
  <2>1. Len(stack') <= MaxDepth
    BY <1>1, <1>4, Constants
  <2> QED
    BY <1>1, <1>2, <1>3, <2>1 DEF TypeOK
<1>7. Fresh'
  <2>1. ASSUME stack' # <<>>
        PROVE  Top'.done
    <3>1. Len(stack') \in 1 .. Len(stack') /\ Len(stack') \in 1 .. n - 1
      BY <1>1, <1>3, <1>4, <2>1
    <3>2. Top' = stack'[Len(stack')]
      BY DEF Top, Last
    <3>3. Top' = stack[Len(stack')]
      BY <1>3, <3>1, <3>2
    <3> QED
      BY <1>1, <3>1, <3>3 DEF Waiting, n
  <2> QED
    BY <2>1 DEF Fresh, Idle
<1>8. Exports'
  BY <1>2 DEF Inv, Exports, Found, HasSub
<1> QED
  BY <1>2, <1>5, <1>6, <1>7, <1>8 DEF Inv

LEMMA ReturnStep ==
  ASSUME Inv, Return
  PROVE  Inv'
BY CutStep DEF Return

\* A message: a native method, or REAL_CBPerlIMP, but not for a super stub that
\* AUTOLOAD has just made.
LEMMA SendMessageStep ==
  ASSUME Inv, SendMessage
  PROVE  Inv'
<1> DEFINE first == IF Top.super THEN self - 1 ELSE self
           known == {c \in Classes : c <= first /\ <<c, Top.sel>> \in native \cup exported}
           m == Max(known)
           kind == IF m \in Perl THEN "imp" ELSE "native"
           s == Top.sel
           f == New(kind, m, s, FALSE)
<1>1. Calling({"objc", "stub"}) /\ UNCHANGED <<program, cache, self>>
  BY DEF SendMessage
<1>2. /\ ~Idle /\ ~crashed /\ Top.kind \in {"objc", "stub"} /\ ~Top.done
      /\ Top \in Activation /\ Top.sel \in Sels /\ self \in Classes /\ TypeOK
  BY <1>1, TopParts
<1>3. \/ known # {} /\ Enter(f)
      \/ known = {} /\ stack' = <<>> /\ UNCHANGED crashed
  BY DEF SendMessage
<1>4. CASE known = {} /\ stack' = <<>> /\ UNCHANGED crashed
  BY <1>1, <1>2, <1>4, CutStep
<1>5. CASE known # {} /\ Enter(f)
  <2>1. m \in known
    <3>1. known \in SUBSET Classes
      OBVIOUS
    <3> HIDE DEF known
    <3> QED
      BY <1>5, <3>1, Greatest
  <2>2. m \in Classes /\ m <= first /\ <<m, s>> \in native \cup exported
    BY <2>1
  <2> HIDE DEF m, known
  <2>3. SuperStub(Top, self) => Found(self) = {}
    BY <1>2 DEF Inv, Fresh
  <2>4. SuperStub(Top, self) => m \notin Perl
    <3>1. ASSUME SuperStub(Top, self), m \in Perl
          PROVE  FALSE
      <4>1. <<m, s>> \in exported
        <5>1. native \subseteq (Classes \ Perl) \X Sels
          BY <1>2, Parts
        <5>2. <<m, s>> \notin (Classes \ Perl) \X Sels
          BY <3>1
        <5> QED
          BY <2>2, <5>1, <5>2
      <4>2. Found(m + 1) # {}
        <5>1. \A e \in exported : Found(e[1] + 1) # {}
          BY DEF Inv, Exports
        <5>2. <<m, s>>[1] = m
          OBVIOUS
        <5> QED
          BY <4>1, <5>1, <5>2
      <4>3. m + 1 <= self
        <5>1. m <= self - 1 /\ m \in Nat /\ self \in Nat
          BY <1>2, <2>2, <3>1, Constants DEF SuperStub
        <5> QED
          BY <5>1
      <4>4. Found(m + 1) \subseteq Found(self)
        <5>1. m \in Nat /\ self \in Nat /\ \A c \in Classes : c \in Nat
          BY <1>2, <2>2, Constants
        <5>2. \A c \in Classes : c < m + 1 => c < self
          BY <4>3, <5>1
        <5> QED
          BY <5>2 DEF Found
      <4> QED
        BY <2>3, <3>1, <4>2, <4>4
    <3> QED
      BY <3>1
  <2>5. /\ f \in Activation /\ f.kind = kind /\ ~f.super
    <3>1. kind \in Kinds
      BY DEF Kinds
    <3>2. s \in Sels
      BY <1>2
    <3> HIDE DEF kind, s
    <3> QED
      BY <2>2, <3>1, <3>2 DEF New, Activation, Kinds
  <2> HIDE DEF f
  <2>6. ~SuperStub(f, self) /\ f.kind \in {"imp", "native"}
    BY <2>5 DEF SuperStub
  <2>7. Rank(f, self) < Rank(Top, self)
    <3>1. CASE SuperStub(Top, self)
      <4>1. f.kind = "native"
        BY <2>4, <2>5, <3>1
      <4>2. Rank(f, self) = 0 /\ Rank(Top, self) = 1
        BY <1>2, <2>5, <3>1, <4>1, Ranks
      <4> QED
        BY <4>2
    <3>2. CASE ~SuperStub(Top, self)
      <4>1. Rank(Top, self) \in {Leaf + 4, Leaf + 5}
        BY <1>2, <3>2, Ranks
      <4>2. Rank(f, self) \in {0, Leaf + 3}
        BY <1>2, <2>5, <2>6, Ranks
      <4> QED
        BY <4>1, <4>2, Constants
    <3> QED
      BY <3>1, <3>2
  <2>8. SuperStub(Top, self) => Found(self)' = {}
    BY <1>1, <2>3 DEF Found, HasSub, program
  <2>9. /\ cache' \in [Package -> Sels \cup {NoSel}]
        /\ \A p \in Package : cache[p] # NoSel => cache'[p] # NoSel
    BY <1>1, <1>2, Parts
  <2>10. Top.kind # "native" /\ UNCHANGED <<program, self>>
    BY <1>1, <1>2
  <2>11. f.kind # "sub"
    BY <2>6
  <2> QED
    BY <1>2, <1>5, <2>5, <2>6, <2>7, <2>8, <2>9, <2>10, <2>11, EnterStep
<1> QED
  BY <1>3, <1>4, <1>5

\* A new call.
LEMMA SendsStep ==
  ASSUME Inv, NEW c \in Classes \ {0}, NEW sel \in Sels, NEW kind \in {"perl", "objc"},
         Sends(c, sel, kind)
  PROVE  Inv'
<1> DEFINE f == New(kind, c, sel, FALSE)
<1>1. /\ ~crashed /\ self' = c /\ stack' = <<f>> /\ UNCHANGED <<program, cache, crashed>>
  BY DEF Sends
<1>2. f \in Activation /\ f.kind = kind /\ f.kind \notin {"sub", "stub"}
  BY DEF New, Activation
<1> HIDE DEF f
<1>3. UNCHANGED <<native, subs, exported, cache, crashed>>
  BY <1>1 DEF program
<1>4. stack' \in Seq(Activation) /\ Len(stack') = 1 /\ stack'[1] = f /\ Top' = f
  BY <1>1, <1>2 DEF Top, Last
<1>5. TypeOK'
  <2>1. Len(stack') <= MaxDepth /\ self' \in Classes
    BY <1>1, <1>4, Constants
  <2> QED
    BY <1>3, <1>4, <2>1 DEF Inv, TypeOK
<1>6. Descends(stack, self)' /\ Waiting(stack)' /\ Methods(stack)'
  BY <1>2, <1>4 DEF Descends, Waiting, Methods
<1>7. Fresh'
  BY <1>2, <1>4 DEF Fresh, SuperStub
<1>8. Exports'
  BY <1>3 DEF Inv, Exports, Found, HasSub
<1> QED
  BY <1>1, <1>3, <1>5, <1>6, <1>7, <1>8 DEF Inv

\* A property is exported with a sub that Perl finds.
LEMMA AccessorStep ==
  ASSUME Inv, NEW c \in Perl, NEW sel \in Sels, CBCreateAccessor(c, sel)
  PROVE  Inv'
<1>1. /\ Idle /\ ~crashed
      /\ subs' = [subs EXCEPT ![c] = IF Found(c + 1) = {} THEN "answers" ELSE @]
      /\ exported' = exported \cup {<<c, sel>>}
      /\ UNCHANGED <<native, cache, self, stack, crashed>>
  BY DEF CBCreateAccessor
<1>2. TypeOK /\ subs \in [Perl -> {"none", "answers", "super"}]
  BY DEF Inv, TypeOK
<1>3. /\ subs' \in [Perl -> {"none", "answers", "super"}]
      /\ \A d \in Perl : subs[d] # "none" => subs'[d] # "none"
      /\ Found(c + 1) = {} => subs'[c] = "answers"
  BY <1>1, <1>2
<1>4. TypeOK'
  BY <1>1, <1>2, <1>3 DEF TypeOK
<1>5. Exports'
  <2>1. \A n : Found(n) \subseteq Found(n)'
    BY <1>1, <1>3, FoundGrows
  <2>2. Found(c + 1)' # {}
    <3>1. CASE Found(c + 1) = {}
      <4>1. HasSub(c)' /\ c \in Classes /\ c < c + 1
        BY <1>3, <3>1, Constants DEF HasSub
      <4>2. c \in Found(c + 1)'
        BY <4>1 DEF Found
      <4> QED
        BY <4>2
    <3>2. CASE Found(c + 1) # {}
      BY <2>1, <3>2
    <3> QED
      BY <3>1, <3>2
  <2>3. \A e \in exported : Found(e[1] + 1)' # {}
    BY <2>1 DEF Inv, Exports
  <2>4. <<c, sel>>[1] = c
    OBVIOUS
  <2>5. \A e \in exported' : Found(e[1] + 1)' # {}
    BY <1>1, <2>2, <2>3, <2>4
  <2> QED
    BY <2>5 DEF Exports
<1>6. Fresh'
  BY <1>1 DEF Fresh, Idle
<1>7. Descends(stack, self)' /\ Waiting(stack)' /\ Methods(stack)'
  BY <1>1 DEF Inv
<1> QED
  BY <1>1, <1>4, <1>5, <1>6, <1>7 DEF Inv

LEMMA StutterStep ==
  ASSUME Inv, UNCHANGED vars
  PROVE  Inv'
<1>1. UNCHANGED <<native, subs, exported, cache, self, stack, crashed>>
  BY DEF vars, program
<1>2. TypeOK' /\ Exports' /\ Fresh'
  BY <1>1 DEF Inv, TypeOK, Exports, Fresh, Found, HasSub, Idle, Top
<1> QED
  BY <1>1, <1>2 DEF Inv

LEMMA InitInv == Init => Inv
<1> SUFFICES ASSUME Init PROVE Inv
  OBVIOUS
<1>1. TypeOK
  <2>1. /\ native \subseteq (Classes \ Perl) \X Sels /\ subs \in [Perl -> {"none", "answers", "super"}]
        /\ exported \subseteq Perl \X Sels
        /\ cache \in [Package -> Sels \cup {NoSel}]
    BY DEF Init
  <2>2. self \in Classes /\ stack \in Seq(Activation) /\ Len(stack) <= MaxDepth
    BY Constants DEF Init
  <2>3. crashed \in BOOLEAN
    BY Zenon DEF Init
  <2> QED
    BY <2>1, <2>2, <2>3 DEF TypeOK
<1>2. Descends(stack, self) /\ Waiting(stack) /\ Methods(stack) /\ Fresh
  BY DEF Init, Descends, Waiting, Methods, Fresh, Idle
<1>3. Exports
  <2> SUFFICES ASSUME NEW e \in exported
               PROVE  Found(e[1] + 1) # {}
    BY DEF Exports
  <2>1. e[1] \in Perl /\ HasSub(e[1])
    BY DEF Init
  <2>2. e[1] \in Classes /\ e[1] < e[1] + 1
    BY <2>1, Constants
  <2> QED
    BY <2>1, <2>2 DEF Found
<1>4. ~crashed
  BY DEF Init
<1> QED
  BY <1>1, <1>2, <1>3, <1>4 DEF Inv

LEMMA AlwaysInv == Spec => []Inv
<1>1. Inv /\ [Next]_vars => Inv'
  <2> SUFFICES ASSUME Inv, [Next]_vars PROVE Inv'
    OBVIOUS
  <2>1. ASSUME NEW c \in Classes \ {0}, NEW sel \in Sels, NEW kind \in {"perl", "objc"},
               Sends(c, sel, kind)
        PROVE  Inv'
    BY <2>1, SendsStep
  <2>2. ASSUME NEW c \in Perl, NEW sel \in Sels, CBCreateAccessor(c, sel)
        PROVE  Inv'
    BY <2>2, AccessorStep
  <2>3. CASE CallMethod \/ CallSuper \/ SendMessage \/ Return
    BY <2>3, CallMethodStep, CallSuperStep, SendMessageStep, ReturnStep
  <2>4. CASE Crashed \/ UNCHANGED vars
    BY <2>4, StutterStep DEF Crashed
  <2> QED
    BY <2>1, <2>2, <2>3, <2>4 DEF Next
<1> QED
  BY <1>1, InitInv, PTL DEF Spec
----------------------------------------------------------------------------
(* The theorems.                                                            *)

\* No selector or class reaches the two dispatchers but those of the program:
\* in particular the selector that AUTOLOAD (CamelBones.pm) cuts out of the name
\* is one that the program called.
THEOREM DispatchType == Spec => []TypeOK
<1>1. Inv => TypeOK
  BY DEF Inv
<1> QED
  BY <1>1, AlwaysInv, PTL

\* A call enters the same Perl method, or REAL_CBPerlIMP (PerlMethods.m) for the
\* same class, twice only if a call between the two went one of the three wrong
\* ways, and only then it overflows the stack.  The stack is assumed to have room
\* for a call that goes through each class once.
THEOREM OnlyStrayCallsLoop == Spec => []LoopsAreKnown
<1>1. Inv => LoopsAreKnown
  <2> SUFFICES ASSUME Inv PROVE LoopsAreKnown
    OBVIOUS
  <2>1. stack \in Seq(Activation) /\ Len(stack) \in Nat /\ self \in Classes /\ Descends(stack, self)
    BY Parts DEF Inv
  <2>2. \A k : Strays(stack[k], stack[k + 1], self) <=> Astray(k)
    BY DEF Strays, Astray, PlainStubForSuper, SuperOfAncestor, StubForMethod
  <2>3. ASSUME NEW i \in 1 .. Len(stack), NEW j \in 1 .. Len(stack), i < j, Repeats(i, j),
               \A k \in i .. j - 1 : ~Astray(k)
        PROVE  FALSE
    <3>1. j \in i .. Len(stack) /\ \A k \in i .. j - 1 : ~Strays(stack[k], stack[k + 1], self)
      BY <2>1, <2>2, <2>3
    <3>2. Rank(stack[j], self) + (j - i) <= Rank(stack[i], self)
      BY <2>1, <3>1, Descent
    <3>3. stack[i] \in Activation /\ stack[j] \in Activation
      BY <2>1
    <3>4. Rank(stack[j], self) = Rank(stack[i], self) /\ Rank(stack[i], self) \in Nat
      BY <2>1, <2>3, <3>3, Ranks DEF Repeats
    <3> QED
      BY <2>1, <2>3, <3>2, <3>4
  <2>4. crashed => \E k \in 1 .. Len(stack) - 1 : Astray(k)
    BY <2>2 DEF Inv, Strayed
  <2> QED
    BY <2>3, <2>4 DEF LoopsAreKnown
<1> QED
  BY <1>1, AlwaysInv, PTL
=============================================================================
