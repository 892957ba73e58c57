--------------------------- MODULE PodCacheProofs ---------------------------
(***************************************************************************)
(* The parser and the cache of pages, for every POD.  What the parser      *)
(* keeps while it reads is related to the text it has read (Nested,        *)
(* Coded), by two counts: Unclosed compares the =over and the =back        *)
(* paragraphs behind each =over, and a =back closes the last =over for     *)
(* which there is one =over more than =back paragraphs.  What a page       *)
(* promises is related to the PODs by Kept.                                *)
(***************************************************************************)
EXTENDS PodCache, FiniteSetTheorems, TLAPS

\* list_types has an entry for each =over that is not closed, and knows
\* which of them have a list in the page.
Nested(lists, t, n) ==
  \E u \in [1 .. Len(lists) -> 1 .. n] :
    /\ \A q, r \in 1 .. Len(lists) : q < r => u[q] < u[r]
    /\ Unclosed(t, n) = {u[r] : r \in 1 .. Len(lists)}
    /\ \A r \in 1 .. Len(lists) : lists[r] <=> u[r] \in OpenLists(t, n)

\* How far the parser has come, and whether it is in a hidden block.
Placed(hidden, t, n) == n <= Len(t) /\ (hidden <=> ~Visible(t, n + 1))

\* The encoding is the one that the first directive names, where the first
\* pass ends.  A pass that is the last one goes on.
Coded(j, p) ==
  /\ (~j.skipped /\ j.coding = "utf8") => \A n \in Directives(j.source) : n > j.done
  /\ j.skipped => /\ j.done \in Directives(j.source) /\ j.source[j.done] = j.coding
                  /\ \A n \in Directives(j.source) : n >= j.done
  /\ j.last \/ j.skipped \/ j.coding = "utf8"
  /\ j.last => p \in Special \/ (j.coding = "other" /\ ~j.skipped)

Read ==
  Parsing =>
    /\ Placed(job.hidden, job.source, job.done)
    /\ Nested(job.lists, job.source, job.done)
    /\ Coded(job, Mine.file)
    /\ job.open = Cardinality(OpenLists(job.source, job.done))

\* A page is up to date, unless its POD has been written since the page was
\* opened; when it is closed it is whole, or the POD has a flaw or could not be
\* opened for the second pass.
Kept(n) ==
  LET g == page[n] IN
  g # Nothing =>
    /\ name[g.of] = n /\ g.opened <= clock
    /\ written[g.of] >= g.opened \/ g.text = text[g.of]
    /\ Busy(n) \/ g.whole \/ g.cut \/ Flawed(g.of, g.text)

\* The page that is written is that of the text which is read.
Current ==
  Parsing => /\ page[MyName] # Nothing
             /\ page[MyName].of = Mine.file /\ page[MyName].text = job.source

Inv == TypeOK /\ Read /\ Current /\ \A n \in Names : Kept(n)
----------------------------------------------------------------------------
(* Numbers                                                                  *)

LEMMA Less == ASSUME NEW x \in Nat, NEW y \in Nat, x < y PROVE <<x, y>> \in OpToRel(<, Nat)
BY DEF OpToRel

LEMMA LeastExists ==
  ASSUME NEW T, T \subseteq Nat, T # {}
  PROVE  \E m \in T : \A t \in T : m <= t
<1>1. PICK m \in T : \A y \in T : ~(<<y, m>> \in OpToRel(<, Nat))
  BY WFMin, NatLessThanWellFounded
<1>2. \A y \in T : y \in Nat /\ m \in Nat
  OBVIOUS
<1>3. ASSUME NEW y \in T PROVE m <= y
  <2>1. CASE y < m
    BY <1>1, <1>2, <2>1, Less
  <2> QED
    BY <1>2, <2>1
<1> QED
  BY <1>3

LEMMA MaxExists ==
  ASSUME NEW S, NEW n \in Nat, S # {}, \A s \in S : s \in Nat /\ s <= n
  PROVE  \E m \in S : \A s \in S : s <= m
<1> DEFINE T == {n - s : s \in S}
<1>1. \A s \in S : n - s \in Nat
  OBVIOUS
<1>2. T \subseteq Nat /\ T # {}
  BY <1>1
<1> HIDE DEF T
<1>3. PICK t \in T : \A y \in T : t <= y
  BY <1>2, LeastExists
<1>4. PICK m \in S : t = n - m
  BY <1>3 DEF T
<1>5. \A s \in S : n - s \in T
  BY DEF T
<1>6. \A s \in S : n - m <= n - s
  BY <1>3, <1>4, <1>5
<1>7. \A s \in S : s <= m
  BY <1>6
<1> QED
  BY <1>7


LEMMA MaxIs ==
  ASSUME NEW S \in SUBSET Int, NEW m \in S, \A s \in S : s <= m
  PROVE  Max(S) = m
<1>1. \A x \in S : (\A y \in S : x >= y) => x = m
  OBVIOUS
<1>2. m \in S /\ (\A y \in S : m >= y)
  OBVIOUS
<1> QED
  BY <1>1, <1>2 DEF Max

LEMMA MinIs ==
  ASSUME NEW S \in SUBSET Int, NEW m \in S, \A s \in S : s >= m
  PROVE  Min(S) = m
<1>1. \A x \in S : (\A y \in S : x =< y) => x = m
  OBVIOUS
<1>2. m \in S /\ (\A y \in S : m =< y)
  OBVIOUS
<1> QED
  BY <1>1, <1>2 DEF Min
----------------------------------------------------------------------------
(* Paragraphs                                                               *)

LEMMA VisibleFirst == ASSUME NEW t PROVE Visible(t, 1)
BY DEF Visible

LEMMA VisibleNext ==
  ASSUME NEW t, NEW n \in Nat, n > 0
  PROVE  /\ t[n] = "begin" => ~Visible(t, n + 1)
         /\ t[n] = "end" => Visible(t, n + 1)
         /\ t[n] \notin {"begin", "end"} => (Visible(t, n + 1) <=> Visible(t, n))
<1>1. \A b : b \in 1 .. (n + 1) - 1 <=> (b \in 1 .. n - 1 \/ b = n)
  OBVIOUS
<1>2. \A b \in 1 .. n : \A e : e \in b + 1 .. (n + 1) - 1 <=> (e \in b + 1 .. n - 1 \/ (b # n /\ e = n))
  OBVIOUS
<1>3. ASSUME t[n] = "begin" PROVE ~Visible(t, n + 1)
  <2>1. n \in 1 .. (n + 1) - 1 /\ ~(\E e \in n + 1 .. (n + 1) - 1 : t[e] = "end")
    OBVIOUS
  <2> QED
    BY <1>3, <2>1 DEF Visible
<1>4. ASSUME t[n] = "end" PROVE Visible(t, n + 1)
  <2>1. \A b \in 1 .. (n + 1) - 1 : t[b] = "begin" => (b # n /\ n \in b + 1 .. (n + 1) - 1)
    BY <1>4
  <2> QED
    BY <1>4, <2>1 DEF Visible
<1>5. ASSUME t[n] \notin {"begin", "end"} PROVE Visible(t, n + 1) <=> Visible(t, n)
  <2>1. ASSUME Visible(t, n + 1), NEW b \in 1 .. n - 1, t[b] = "begin"
        PROVE  \E e \in b + 1 .. n - 1 : t[e] = "end"
    <3>1. PICK e \in b + 1 .. (n + 1) - 1 : t[e] = "end"
      BY <2>1, <1>1 DEF Visible
    <3> QED
      BY <3>1, <1>5
  <2>2. ASSUME Visible(t, n), NEW b \in 1 .. (n + 1) - 1, t[b] = "begin"
        PROVE  \E e \in b + 1 .. (n + 1) - 1 : t[e] = "end"
    <3>1. b \in 1 .. n - 1
      BY <2>2, <1>5
    <3>2. PICK e \in b + 1 .. n - 1 : t[e] = "end"
      BY <2>2, <3>1 DEF Visible
    <3> QED
      BY <3>2
  <2>3. Visible(t, n + 1) => Visible(t, n)
    BY <2>1 DEF Visible
  <2>4. Visible(t, n) => Visible(t, n + 1)
    BY <2>2 DEF Visible
  <2> QED
    BY <2>3, <2>4
<1> QED
  BY <1>3, <1>4, <1>5

\* How many paragraphs of a kind there are from the i-th to the n-th.
Count(t, kind, i, n) == Cardinality(Seen(t, kind, i, n))

LEMMA SeenFinite ==
  ASSUME NEW t, NEW kind, NEW i \in Nat, NEW n \in Int
  PROVE  IsFiniteSet(Seen(t, kind, i, n)) /\ Count(t, kind, i, n) \in Nat
<1>1. IsFiniteSet(i .. n)
  BY FS_Interval
<1>2. Seen(t, kind, i, n) \in SUBSET (i .. n)
  BY DEF Seen
<1>3. IsFiniteSet(Seen(t, kind, i, n))
  BY <1>1, <1>2, FS_Subset
<1> QED
  BY <1>3, FS_CardinalityType DEF Count

LEMMA CountNone ==
  ASSUME NEW t, NEW kind, NEW i \in Nat, NEW n \in Int, n < i
  PROVE  Count(t, kind, i, n) = 0
<1>1. Seen(t, kind, i, n) = {}
  BY DEF Seen
<1> QED
  BY <1>1, FS_EmptySet DEF Count

LEMMA CountNext ==
  ASSUME NEW t, NEW kind, NEW i \in Nat, NEW n \in Nat, i <= n + 1
  PROVE  /\ (t[n + 1] = kind /\ Visible(t, n + 1)) => Count(t, kind, i, n + 1) = Count(t, kind, i, n) + 1
         /\ ~(t[n + 1] = kind /\ Visible(t, n + 1)) => Count(t, kind, i, n + 1) = Count(t, kind, i, n)
<1>1. \A j : j \in i .. n + 1 <=> (j \in i .. n \/ j = n + 1)
  OBVIOUS
<1>2. n + 1 \notin Seen(t, kind, i, n)
  BY DEF Seen
<1>3. ASSUME t[n + 1] = kind, Visible(t, n + 1)
      PROVE  Count(t, kind, i, n + 1) = Count(t, kind, i, n) + 1
  <2>1. Seen(t, kind, i, n + 1) = Seen(t, kind, i, n) \cup {n + 1}
    BY <1>1, <1>3 DEF Seen
  <2> QED
    BY <1>2, <2>1, SeenFinite, FS_AddElement DEF Count
<1>4. ASSUME ~(t[n + 1] = kind /\ Visible(t, n + 1))
      PROVE  Count(t, kind, i, n + 1) = Count(t, kind, i, n)
  <2>1. Seen(t, kind, i, n + 1) = Seen(t, kind, i, n)
    BY <1>1, <1>4 DEF Seen
  <2> QED
    BY <2>1 DEF Count
<1> QED
  BY <1>3, <1>4

LEMMA CountSplit ==
  ASSUME NEW t, NEW kind, NEW i \in Nat, NEW m \in Nat, NEW n \in Nat, i <= m, m <= n + 1
  PROVE  Count(t, kind, i, n) = Count(t, kind, i, m - 1) + Count(t, kind, m, n)
<1> DEFINE A == Seen(t, kind, i, m - 1)
           B == Seen(t, kind, m, n)
<1>1. \A j : j \in i .. n <=> (j \in i .. m - 1 \/ j \in m .. n)
  OBVIOUS
<1>2. \A j : ~(j \in i .. m - 1 /\ j \in m .. n)
  OBVIOUS
<1>3. Seen(t, kind, i, n) = A \cup B
  BY <1>1 DEF Seen
<1>4. A \cap B = {}
  BY <1>2 DEF Seen
<1>5. IsFiniteSet(A) /\ IsFiniteSet(B)
  BY SeenFinite
<1>6. Cardinality(A) \in Nat /\ Cardinality(B) \in Nat
  BY <1>5, FS_CardinalityType
<1> HIDE DEF A, B
<1>7. Cardinality(A \cup B) = Cardinality(A) + Cardinality(B) - Cardinality(A \cap B)
  BY <1>5, FS_Union
<1>8. Cardinality(A \cap B) = 0
  BY <1>4, FS_EmptySet
<1>9. Cardinality(A \cup B) = Cardinality(A) + Cardinality(B)
  BY <1>6, <1>7, <1>8
<1> QED
  BY <1>3, <1>9 DEF A, B, Count

----------------------------------------------------------------------------
(* Lists                                                                    *)

\* How many =over paragraphs from the i-th to the n-th have no =back there.
Net(t, i, n) == Count(t, "over", i, n) - Count(t, "back", i, n)

LEMMA NetType ==
  ASSUME NEW t, NEW i \in Nat, NEW n \in Int PROVE Net(t, i, n) \in Int
BY SeenFinite DEF Net

LEMMA NetNext ==
  ASSUME NEW t, NEW i \in Nat, NEW n \in Nat, i <= n + 1
  PROVE  /\ (t[n + 1] = "over" /\ Visible(t, n + 1)) => Net(t, i, n + 1) = Net(t, i, n) + 1
         /\ (t[n + 1] = "back" /\ Visible(t, n + 1)) => Net(t, i, n + 1) = Net(t, i, n) - 1
         /\ ~(t[n + 1] \in {"over", "back"} /\ Visible(t, n + 1)) => Net(t, i, n + 1) = Net(t, i, n)
<1> DEFINE o == Count(t, "over", i, n)
           b == Count(t, "back", i, n)
<1>1. o \in Nat /\ b \in Nat
  BY SeenFinite
<1>2. /\ (t[n + 1] = "over" /\ Visible(t, n + 1)) => Count(t, "over", i, n + 1) = o + 1
      /\ ~(t[n + 1] = "over" /\ Visible(t, n + 1)) => Count(t, "over", i, n + 1) = o
  BY CountNext
<1>3. /\ (t[n + 1] = "back" /\ Visible(t, n + 1)) => Count(t, "back", i, n + 1) = b + 1
      /\ ~(t[n + 1] = "back" /\ Visible(t, n + 1)) => Count(t, "back", i, n + 1) = b
  BY CountNext
<1>4. Net(t, i, n) = o - b
  BY DEF Net
<1>5. Net(t, i, n + 1) = Count(t, "over", i, n + 1) - Count(t, "back", i, n + 1)
  BY DEF Net
<1> HIDE DEF o, b
<1> QED
  BY <1>1, <1>2, <1>3, <1>4, <1>5

LEMMA NetSplit ==
  ASSUME NEW t, NEW i \in Nat, NEW m \in Nat, NEW n \in Nat, i <= m, m <= n + 1
  PROVE  Net(t, i, n) = Net(t, i, m - 1) + Net(t, m, n)
<1>1. /\ Count(t, "over", i, n) = Count(t, "over", i, m - 1) + Count(t, "over", m, n)
      /\ Count(t, "back", i, n) = Count(t, "back", i, m - 1) + Count(t, "back", m, n)
  BY CountSplit
<1>2. /\ Count(t, "over", i, m - 1) \in Nat /\ Count(t, "over", m, n) \in Nat
      /\ Count(t, "back", i, m - 1) \in Nat /\ Count(t, "back", m, n) \in Nat
  BY SeenFinite
<1> QED
  BY <1>1, <1>2 DEF Net

LEMMA UnclosedIs ==
  ASSUME NEW t, NEW i, NEW n \in Nat
  PROVE  i \in Unclosed(t, n) <=> /\ i \in 1 .. n /\ t[i] = "over" /\ Visible(t, i)
                                  /\ \A j \in i .. n : Net(t, i, j) > 0
<1>1. i \in Unclosed(t, n) <=> /\ i \in 1 .. n /\ t[i] = "over" /\ Visible(t, i)
                               /\ \A j \in i .. n : Count(t, "over", i, j) > Count(t, "back", i, j)
  BY DEF Unclosed, Seen, Count
<1>2. ASSUME i \in 1 .. n
      PROVE  \A j \in i .. n : Count(t, "over", i, j) > Count(t, "back", i, j) <=> Net(t, i, j) > 0
  BY <1>2, SeenFinite DEF Net
<1> QED
  BY <1>1, <1>2

LEMMA UnclosedType ==
  ASSUME NEW t, NEW n \in Nat
  PROVE  /\ Unclosed(t, n) \subseteq 1 .. n /\ IsFiniteSet(Unclosed(t, n))
         /\ Unclosed(t, n) # {} => \E m \in Unclosed(t, n) : \A i \in Unclosed(t, n) : i <= m
<1>1. Unclosed(t, n) \subseteq 1 .. n
  BY DEF Unclosed, Seen
<1>2. IsFiniteSet(1 .. n)
  BY FS_Interval
<1>3. IsFiniteSet(Unclosed(t, n))
  BY <1>1, <1>2, FS_Subset
<1>4. \A s \in Unclosed(t, n) : s \in Nat /\ s <= n
  BY <1>1
<1>5. Unclosed(t, n) # {} => \E m \in Unclosed(t, n) : \A i \in Unclosed(t, n) : i <= m
  BY <1>4, MaxExists
<1> QED
  BY <1>1, <1>3, <1>5

\* What the next paragraph does to the lists: an =over opens one more, ...
LEMMA UnclosedOver ==
  ASSUME NEW t, NEW n \in Nat, t[n + 1] = "over", Visible(t, n + 1)
  PROVE  Unclosed(t, n + 1) = Unclosed(t, n) \cup {n + 1}
<1>1. Net(t, n + 1, n + 1) = 1
  <2>1. Net(t, n + 1, n + 1) = Net(t, n + 1, n) + 1
    BY NetNext
  <2>2. Net(t, n + 1, n) = 0
    BY CountNone DEF Net
  <2> QED
    BY <2>1, <2>2
<1>2. n + 1 \in Unclosed(t, n + 1)
  <2>1. \A j \in n + 1 .. n + 1 : Net(t, n + 1, j) > 0
    BY <1>1
  <2> QED
    BY <2>1, UnclosedIs
<1>3. ASSUME NEW i, i # n + 1 PROVE i \in Unclosed(t, n + 1) <=> i \in Unclosed(t, n)
  <2>1. i \in 1 .. n + 1 <=> i \in 1 .. n
    BY <1>3
  <2>2. ASSUME i \in 1 .. n
        PROVE  (\A j \in i .. n + 1 : Net(t, i, j) > 0) <=> (\A j \in i .. n : Net(t, i, j) > 0)
    <3>1. Net(t, i, n + 1) = Net(t, i, n) + 1 /\ Net(t, i, n) \in Int
      BY <2>2, NetNext, NetType
    <3>2. \A j : j \in i .. n + 1 <=> (j \in i .. n \/ j = n + 1)
      BY <2>2
    <3>3. n \in i .. n
      BY <2>2
    <3> QED
      BY <3>1, <3>2, <3>3
  <2> QED
    BY <2>1, <2>2, UnclosedIs
<1>4. n + 1 \notin Unclosed(t, n)
  BY UnclosedType
<1> QED
  BY <1>2, <1>3

\* ... a =back closes the last one, ...
LEMMA LastNet ==
  ASSUME NEW t, NEW n \in Nat, NEW m \in Unclosed(t, n), \A i \in Unclosed(t, n) : i <= m
  PROVE  Net(t, m, n) = 1
<1>1. m \in 1 .. n /\ t[m] = "over" /\ Visible(t, m) /\ \A j \in m .. n : Net(t, m, j) > 0
  BY UnclosedIs
<1>2. \A j \in Int : Net(t, m, j) \in Int
  BY <1>1, NetType
<1>3. Net(t, m, m) = 1
  <2>1. m - 1 \in Nat /\ (m - 1) + 1 = m
    BY <1>1
  <2>2. Net(t, m, (m - 1) + 1) = Net(t, m, m - 1) + 1
    BY <1>1, <2>1, NetNext
  <2>3. Net(t, m, m - 1) = 0
    BY <1>1, CountNone DEF Net
  <2> QED
    BY <2>1, <2>2, <2>3
<1>4. SUFFICES ASSUME Net(t, m, n) >= 2 PROVE FALSE
  <2>1. Net(t, m, n) \in Int /\ Net(t, m, n) > 0
    BY <1>1, <1>2
  <2> QED
    BY <1>4, <2>1
<1> DEFINE K == {k \in m .. n : Net(t, m, k) <= 1}
<1>5. PICK k \in K : \A l \in K : l <= k
  <2>1. m \in K
    BY <1>1, <1>3
  <2>2. \A l \in K : l \in Nat /\ l <= n
    BY <1>1
  <2> HIDE DEF K
  <2> QED
    BY <2>1, <2>2, MaxExists
<1>6. k \in m .. n /\ Net(t, m, k) <= 1
  BY <1>5
<1>7. k < n /\ k \in Nat /\ k + 1 \in m .. n /\ k + 1 \in 1 .. n
  <2>1. Net(t, m, n) \in Int
    BY <1>2
  <2>2. k # n
    BY <1>4, <1>6, <2>1
  <2> QED
    BY <1>1, <1>6, <2>2
<1>8. \A j \in k + 1 .. n : Net(t, m, j) >= 2
  <2>1. ASSUME NEW j \in k + 1 .. n PROVE Net(t, m, j) >= 2
    <3>1. j \notin K
      BY <1>5, <1>6, <2>1
    <3>2. j \in m .. n /\ Net(t, m, j) \in Int
      BY <1>1, <1>2, <1>6
    <3> QED
      BY <3>1, <3>2
  <2> QED
    BY <2>1
<1>9. t[k + 1] = "over" /\ Visible(t, k + 1) /\ Net(t, m, k) = 1
  <2>1. k + 1 \in k + 1 .. n
    BY <1>7
  <2>2. Net(t, m, k + 1) >= 2
    BY <1>8, <2>1
  <2>3. /\ (t[k + 1] = "over" /\ Visible(t, k + 1)) => Net(t, m, k + 1) = Net(t, m, k) + 1
        /\ (t[k + 1] = "back" /\ Visible(t, k + 1)) => Net(t, m, k + 1) = Net(t, m, k) - 1
        /\ ~(t[k + 1] \in {"over", "back"} /\ Visible(t, k + 1)) => Net(t, m, k + 1) = Net(t, m, k)
    BY <1>1, <1>6, <1>7, NetNext
  <2>4. Net(t, m, k) \in Int
    BY <1>2, <1>7
  <2> QED
    BY <1>6, <2>2, <2>3, <2>4
<1>10. \A j \in k + 1 .. n : Net(t, k + 1, j) > 0
  <2>1. ASSUME NEW j \in k + 1 .. n PROVE Net(t, k + 1, j) > 0
    <3>1. j \in Nat /\ k + 1 \in Nat /\ m \in Nat /\ m <= k + 1 /\ k + 1 <= j + 1 /\ (k + 1) - 1 = k
      BY <1>1, <1>6, <1>7
    <3>2. Net(t, m, j) = Net(t, m, (k + 1) - 1) + Net(t, k + 1, j)
      BY <3>1, NetSplit, ZenonT(60)
    <3>3. Net(t, m, j) >= 2 /\ Net(t, m, j) \in Int /\ Net(t, k + 1, j) \in Int
      BY <1>2, <1>8, <3>1, NetType
    <3> QED
      BY <1>9, <3>1, <3>2, <3>3
  <2> QED
    BY <2>1
<1>11. k + 1 \in Unclosed(t, n)
  BY <1>7, <1>9, <1>10, UnclosedIs
<1>12. k + 1 > m
  BY <1>1, <1>6
<1> QED
  BY <1>1, <1>7, <1>11, <1>12

LEMMA UnclosedBack ==
  ASSUME NEW t, NEW n \in Nat, NEW m \in Unclosed(t, n), \A i \in Unclosed(t, n) : i <= m,
         t[n + 1] = "back", Visible(t, n + 1)
  PROVE  Unclosed(t, n + 1) = Unclosed(t, n) \ {m}
<1>1. Unclosed(t, n) \subseteq 1 .. n
  BY UnclosedType
<1>2. Net(t, m, n) = 1
  BY LastNet
<1>3. \A i \in 1 .. n : Net(t, i, n + 1) = Net(t, i, n) - 1 /\ Net(t, i, n) \in Int
  BY NetNext, NetType
<1>4. ASSUME NEW i \in Unclosed(t, n), i # m PROVE i \in Unclosed(t, n + 1)
  <2>1. i \in 1 .. n /\ m \in 1 .. n /\ i < m
    BY <1>1, <1>4
  <2>2. t[i] = "over" /\ Visible(t, i) /\ \A j \in i .. n : Net(t, i, j) > 0
    BY UnclosedIs
  <2>3. Net(t, i, m - 1) > 0 /\ Net(t, i, m - 1) \in Int
    <3>1. m - 1 \in i .. n
      BY <2>1
    <3> QED
      BY <2>1, <2>2, <3>1, NetType
  <2>4. Net(t, i, n) = Net(t, i, m - 1) + Net(t, m, n)
    BY <2>1, NetSplit
  <2>5. Net(t, i, n + 1) > 0
    BY <1>2, <1>3, <2>1, <2>3, <2>4
  <2>6. \A j : j \in i .. n + 1 => (j \in i .. n \/ j = n + 1)
    BY <2>1
  <2>7. i \in 1 .. n + 1 /\ \A j \in i .. n + 1 : Net(t, i, j) > 0
    BY <2>1, <2>2, <2>5, <2>6
  <2> QED
    BY <2>2, <2>7, UnclosedIs
<1>5. ASSUME NEW i \in Unclosed(t, n + 1) PROVE i \in Unclosed(t, n) /\ i # m
  <2>1. i \in 1 .. n + 1 /\ t[i] = "over" /\ Visible(t, i) /\ \A j \in i .. n + 1 : Net(t, i, j) > 0
    BY UnclosedIs
  <2>2. i \in 1 .. n
    BY <2>1
  <2>3. i \in Unclosed(t, n)
    <3>1. \A j \in i .. n : j \in i .. n + 1
      BY <2>2
    <3> QED
      BY <2>1, <2>2, <3>1, UnclosedIs
  <2>4. Net(t, i, n + 1) > 0
    <3>1. n + 1 \in i .. n + 1
      BY <2>1
    <3> QED
      BY <2>1, <3>1
  <2>5. i # m
    BY <1>2, <1>3, <2>2, <2>4
  <2> QED
    BY <2>3, <2>5
<1> QED
  BY <1>4, <1>5

\* ... if there is one, and any other paragraph does nothing.
LEMMA UnclosedPlain ==
  ASSUME NEW t, NEW n \in Nat,
         ~(t[n + 1] \in {"over", "back"} /\ Visible(t, n + 1)) \/ (t[n + 1] = "back" /\ Unclosed(t, n) = {})
  PROVE  Unclosed(t, n + 1) = Unclosed(t, n)
<1>1. ASSUME NEW i \in Unclosed(t, n + 1) PROVE i \in Unclosed(t, n)
  <2>1. i \in 1 .. n + 1 /\ t[i] = "over" /\ Visible(t, i) /\ \A j \in i .. n + 1 : Net(t, i, j) > 0
    BY UnclosedIs
  <2>2. i # n + 1
    BY <2>1
  <2>3. i \in 1 .. n /\ \A j \in i .. n : j \in i .. n + 1
    BY <2>1, <2>2
  <2> QED
    BY <2>1, <2>3, UnclosedIs
<1>2. ASSUME NEW i \in Unclosed(t, n) PROVE i \in Unclosed(t, n + 1)
  <2>1. i \in 1 .. n /\ t[i] = "over" /\ Visible(t, i) /\ \A j \in i .. n : Net(t, i, j) > 0
    BY UnclosedIs
  <2>2. Net(t, i, n + 1) = Net(t, i, n)
    BY <1>2, <2>1, NetNext
  <2>3. \A j : j \in i .. n + 1 => (j \in i .. n \/ j = n + 1)
    BY <2>1
  <2>4. i \in 1 .. n + 1 /\ n \in i .. n
    BY <2>1
  <2> QED
    BY <2>1, <2>2, <2>3, <2>4, UnclosedIs
<1> QED
  BY <1>1, <1>2

\* The lists that are open in the page: an item opens the last =over's, ...
LEMMA OpenIs ==
  ASSUME NEW t, NEW n, NEW i
  PROVE  i \in OpenLists(t, n) <=> i \in Unclosed(t, n) /\ \E k \in Seen(t, "item", i, n) : ListOf(t, k) = i
BY DEF OpenLists

LEMMA SeenNext ==
  ASSUME NEW t, NEW kind, NEW i \in Nat, NEW n \in Nat, i <= n + 1
  PROVE  Seen(t, kind, i, n + 1)
           = Seen(t, kind, i, n) \cup (IF t[n + 1] = kind /\ Visible(t, n + 1) THEN {n + 1} ELSE {})
<1>1. \A j : j \in i .. n + 1 <=> (j \in i .. n \/ j = n + 1)
  OBVIOUS
<1> QED
  BY <1>1 DEF Seen

LEMMA SeenSame ==
  ASSUME NEW t, NEW kind, NEW n \in Nat, ~(t[n + 1] = kind /\ Visible(t, n + 1)), NEW i \in 1 .. n
  PROVE  Seen(t, kind, i, n + 1) = Seen(t, kind, i, n)
<1>1. \A j : j \in i .. n + 1 <=> (j \in i .. n \/ j = n + 1)
  OBVIOUS
<1> QED
  BY <1>1 DEF Seen

LEMMA OpenItem ==
  ASSUME NEW t, NEW n \in Nat, NEW m \in Unclosed(t, n), \A i \in Unclosed(t, n) : i <= m,
         t[n + 1] = "item", Visible(t, n + 1)
  PROVE  OpenLists(t, n + 1) = OpenLists(t, n) \cup {m}
<1>1. Unclosed(t, n + 1) = Unclosed(t, n) /\ Unclosed(t, n) \subseteq 1 .. n
  BY UnclosedPlain, UnclosedType
<1>2. ListOf(t, n + 1) = m
  BY <1>1, MaxIs DEF ListOf
<1>3. \A i \in Unclosed(t, n) : Seen(t, "item", i, n + 1) = Seen(t, "item", i, n) \cup {n + 1}
  BY <1>1, SeenNext
<1>4. ASSUME NEW i \in Unclosed(t, n)
      PROVE  i \in OpenLists(t, n + 1) <=> (i \in OpenLists(t, n) \/ i = m)
  <2>1. (\E k \in Seen(t, "item", i, n + 1) : ListOf(t, k) = i)
          <=> ((\E k \in Seen(t, "item", i, n) : ListOf(t, k) = i) \/ ListOf(t, n + 1) = i)
    BY <1>3, <1>4
  <2> QED
    BY <1>1, <1>2, <1>4, <2>1, OpenIs
<1> QED
  BY <1>1, <1>4, OpenIs

\* ... a =back closes it, ...
LEMMA OpenBack ==
  ASSUME NEW t, NEW n \in Nat, NEW m \in Unclosed(t, n), \A i \in Unclosed(t, n) : i <= m,
         t[n + 1] = "back", Visible(t, n + 1)
  PROVE  OpenLists(t, n + 1) = OpenLists(t, n) \ {m}
<1>1. Unclosed(t, n + 1) = Unclosed(t, n) \ {m} /\ Unclosed(t, n) \subseteq 1 .. n
  BY UnclosedBack, UnclosedType
<1>2. \A i \in Unclosed(t, n) : Seen(t, "item", i, n + 1) = Seen(t, "item", i, n)
  BY <1>1, SeenSame
<1> QED
  BY <1>1, <1>2, OpenIs

\* ... and any other paragraph does nothing.
LEMMA OpenOver ==
  ASSUME NEW t, NEW n \in Nat, t[n + 1] = "over", Visible(t, n + 1)
  PROVE  OpenLists(t, n + 1) = OpenLists(t, n)
<1>1. Unclosed(t, n + 1) = Unclosed(t, n) \cup {n + 1} /\ Unclosed(t, n) \subseteq 1 .. n
  BY UnclosedOver, UnclosedType
<1>2. \A i \in Unclosed(t, n) : Seen(t, "item", i, n + 1) = Seen(t, "item", i, n)
  BY <1>1, SeenSame
<1>3. Seen(t, "item", n + 1, n + 1) = {}
  BY DEF Seen
<1>4. n + 1 \notin Unclosed(t, n)
  BY <1>1
<1> QED
  BY <1>1, <1>2, <1>3, <1>4, OpenIs

LEMMA OpenPlain ==
  ASSUME NEW t, NEW n \in Nat,
         ~(t[n + 1] \in {"over", "back", "item"} /\ Visible(t, n + 1)) \/ (t[n + 1] = "back" /\ Unclosed(t, n) = {})
  PROVE  OpenLists(t, n + 1) = OpenLists(t, n)
<1>1. Unclosed(t, n + 1) = Unclosed(t, n) /\ Unclosed(t, n) \subseteq 1 .. n
  BY UnclosedPlain, UnclosedType
<1>2. \A i \in Unclosed(t, n) : Seen(t, "item", i, n + 1) = Seen(t, "item", i, n)
  BY <1>1, SeenSame
<1> QED
  BY <1>1, <1>2, OpenIs

LEMMA OpenType ==
  ASSUME NEW t, NEW n \in Nat
  PROVE  OpenLists(t, n) \subseteq Unclosed(t, n) /\ IsFiniteSet(OpenLists(t, n)) /\ Cardinality(OpenLists(t, n)) \in Nat
<1>1. OpenLists(t, n) \in SUBSET Unclosed(t, n)
  BY OpenIs
<1>2. IsFiniteSet(OpenLists(t, n))
  BY <1>1, UnclosedType, FS_Subset
<1> QED
  BY <1>1, <1>2, FS_CardinalityType

LEMMA NoneAtFirst ==
  ASSUME NEW t
  PROVE  Unclosed(t, 0) = {} /\ OpenLists(t, 0) = {} /\ Cardinality(OpenLists(t, 0)) = 0
<1>1. Unclosed(t, 0) = {}
  BY UnclosedType
<1>2. OpenLists(t, 0) = {}
  BY <1>1, OpenIs
<1> QED
  BY <1>1, <1>2, FS_EmptySet

----------------------------------------------------------------------------
(* What the parser keeps                                                    *)

LEMMA NestedFirst == ASSUME NEW t PROVE Nested(<<>>, t, 0)
<1> DEFINE u == [r \in 1 .. 0 |-> r]
<1>1. Len(<<>>) = 0 /\ u \in [1 .. 0 -> 1 .. 0] /\ \A r : r \notin 1 .. 0
  OBVIOUS
<1>2. Unclosed(t, 0) = {u[r] : r \in 1 .. 0}
  BY <1>1, NoneAtFirst
<1> HIDE DEF u
<1>3. u \in [1 .. Len(<<>>) -> 1 .. 0] /\ Unclosed(t, 0) = {u[r] : r \in 1 .. Len(<<>>)}
  BY <1>1, <1>2
<1>4. \A r : r \notin 1 .. Len(<<>>)
  BY <1>1
<1> QED
  BY <1>3, <1>4 DEF Nested

LEMMA FrontIs ==
  ASSUME NEW lists \in Seq(BOOLEAN), lists # <<>>
  PROVE  /\ Len(lists) \in Nat /\ Len(lists) > 0
         /\ Front(lists) \in Seq(BOOLEAN) /\ Len(Front(lists)) = Len(lists) - 1
         /\ \A r \in 1 .. Len(lists) - 1 : Front(lists)[r] = lists[r]
<1> DEFINE m == Len(lists) - 1
<1>1. m \in Nat /\ m < Len(lists) /\ Len(lists) \in Nat
  OBVIOUS
<1>2. \A i \in 1 .. m : i \in 1 .. Len(lists)
  OBVIOUS
<1>3. Front(lists) = SubSeq(lists, 1, m)
  BY DEF Front
<1> HIDE DEF m
<1>4. SubSeq(lists, 1, m) = [i \in 1 .. m |-> lists[i]]
  BY <1>1
<1>5. \A i \in 1 .. m : lists[i] \in BOOLEAN
  BY <1>2
<1>6. [i \in 1 .. m |-> lists[i]] \in Seq(BOOLEAN) /\ Len([i \in 1 .. m |-> lists[i]]) = m
  BY <1>1, <1>5
<1>7. Front(lists) \in Seq(BOOLEAN) /\ Len(Front(lists)) = m /\ \A r \in 1 .. m : Front(lists)[r] = lists[r]
  BY <1>3, <1>4, <1>6
<1> QED
  BY <1>1, <1>7 DEF m

LEMMA AppendIs ==
  ASSUME NEW lists \in Seq(BOOLEAN)
  PROVE  \A r \in 1 .. Len(lists) : Append(lists, TRUE)[r] = lists[r]
OBVIOUS

LEMMA NestedLast ==
  ASSUME NEW lists \in Seq(BOOLEAN), NEW t, NEW n \in Nat, Nested(lists, t, n)
  PROVE  /\ lists = <<>> <=> Unclosed(t, n) = {}
         /\ lists # <<>> => \E m \in Unclosed(t, n) :
              (\A i \in Unclosed(t, n) : i <= m) /\ (Last(lists) <=> m \in OpenLists(t, n))
<1> DEFINE L == Len(lists)
<1>1. PICK u \in [1 .. L -> 1 .. n] :
        /\ \A q, r \in 1 .. L : q < r => u[q] < u[r]
        /\ Unclosed(t, n) = {u[r] : r \in 1 .. L}
        /\ \A r \in 1 .. L : lists[r] <=> u[r] \in OpenLists(t, n)
  BY DEF Nested
<1>2. L \in Nat /\ (lists = <<>> <=> L = 0) /\ Last(lists) = lists[L]
  BY DEF Last
<1> HIDE DEF L
<1>3. ASSUME lists = <<>> PROVE Unclosed(t, n) = {}
  BY <1>1, <1>2, <1>3
<1>4. ASSUME lists # <<>>
      PROVE  /\ u[L] \in Unclosed(t, n) /\ (Last(lists) <=> u[L] \in OpenLists(t, n))
             /\ \A i \in Unclosed(t, n) : i <= u[L]
  <2>1. L \in 1 .. L
    BY <1>2, <1>4
  <2>2. \A r \in 1 .. L : r < L \/ r = L
    BY <1>2
  <2>3. \A r \in 1 .. L : u[r] \in 1 .. n
    BY <1>1
  <2>4. \A r \in 1 .. L : u[r] <= u[L]
    BY <1>1, <2>1, <2>2, <2>3
  <2>5. \A i \in Unclosed(t, n) : i <= u[L]
    BY <1>1, <2>4
  <2>6. lists[L] <=> u[L] \in OpenLists(t, n)
    BY <1>1, <2>1
  <2>7. u[L] \in Unclosed(t, n)
    BY <1>1, <2>1
  <2> QED
    BY <1>2, <2>5, <2>6, <2>7, Zenon
<1> QED
  BY <1>3, <1>4

LEMMA NestedOver ==
  ASSUME NEW lists \in Seq(BOOLEAN), NEW t, NEW n \in Nat, Nested(lists, t, n),
         t[n + 1] = "over", Visible(t, n + 1)
  PROVE  Nested(Append(lists, FALSE), t, n + 1)
<1> DEFINE L == Len(lists)
           after == Append(lists, FALSE)
<1>1. PICK u \in [1 .. L -> 1 .. n] :
        /\ \A q, r \in 1 .. L : q < r => u[q] < u[r]
        /\ Unclosed(t, n) = {u[r] : r \in 1 .. L}
        /\ \A r \in 1 .. L : lists[r] <=> u[r] \in OpenLists(t, n)
  BY DEF Nested
<1> DEFINE v == [r \in 1 .. L + 1 |-> IF r = L + 1 THEN n + 1 ELSE u[r]]
<1>2. L \in Nat /\ Len(after) = L + 1 /\ after[L + 1] = FALSE /\ \A r \in 1 .. L : after[r] = lists[r]
  OBVIOUS
<1> HIDE DEF L, after
<1>3. \A r : r \in 1 .. L + 1 <=> (r \in 1 .. L \/ r = L + 1)
  BY <1>2
<1>4. v[L + 1] = n + 1 /\ (\A r \in 1 .. L : v[r] = u[r] /\ v[r] \in 1 .. n) /\ L + 1 \notin 1 .. L
  BY <1>1, <1>2
<1>5. v \in [1 .. L + 1 -> 1 .. n + 1]
  BY <1>1, <1>2
<1> HIDE DEF v
<1>6. \A q, r \in 1 .. L + 1 : q < r => v[q] < v[r]
  <2>1. SUFFICES ASSUME NEW q \in 1 .. L + 1, NEW r \in 1 .. L + 1, q < r PROVE v[q] < v[r]
    OBVIOUS
  <2>2. q \in 1 .. L
    BY <1>2, <2>1
  <2>3. CASE r = L + 1
    BY <1>4, <2>2, <2>3
  <2>4. CASE r \in 1 .. L
    BY <1>1, <1>4, <2>1, <2>2, <2>4
  <2> QED
    BY <1>3, <2>3, <2>4
<1>7. Unclosed(t, n + 1) = {v[r] : r \in 1 .. L + 1}
  <2>1. Unclosed(t, n + 1) = Unclosed(t, n) \cup {n + 1}
    BY UnclosedOver
  <2>2. {v[r] : r \in 1 .. L + 1} = {v[r] : r \in 1 .. L} \cup {v[L + 1]}
    BY <1>3
  <2>3. {v[r] : r \in 1 .. L} = {u[r] : r \in 1 .. L}
    BY <1>4
  <2> QED
    BY <1>1, <1>4, <2>1, <2>2, <2>3
<1>8. ASSUME NEW r \in 1 .. L + 1 PROVE after[r] <=> v[r] \in OpenLists(t, n + 1)
  <2>1. OpenLists(t, n + 1) = OpenLists(t, n)
    BY OpenOver
  <2>2. n + 1 \notin OpenLists(t, n)
    BY OpenType, UnclosedType
  <2>3. CASE r = L + 1
    <3>1. ~after[r]
      BY <1>2, <2>3
    <3>2. v[r] \notin OpenLists(t, n + 1)
      BY <1>4, <2>1, <2>2, <2>3
    <3> QED
      BY <3>1, <3>2
  <2>4. CASE r \in 1 .. L
    <3>1. after[r] = lists[r] /\ v[r] = u[r]
      BY <1>2, <1>4, <2>4
    <3>2. lists[r] <=> u[r] \in OpenLists(t, n)
      BY <1>1, <2>4
    <3> QED
      BY <2>1, <3>1, <3>2, Zenon
  <2> QED
    BY <1>3, <2>3, <2>4
<1>9. Nested(after, t, n + 1)
  <2>1. /\ v \in [1 .. Len(after) -> 1 .. n + 1]
        /\ \A q, r \in 1 .. Len(after) : q < r => v[q] < v[r]
        /\ Unclosed(t, n + 1) = {v[r] : r \in 1 .. Len(after)}
    BY <1>2, <1>5, <1>6, <1>7
  <2>2. \A r \in 1 .. Len(after) : after[r] <=> v[r] \in OpenLists(t, n + 1)
    BY <1>2, <1>8, Zenon
  <2> QED
    BY <2>1, <2>2, Zenon DEF Nested
<1> QED
  BY <1>9 DEF after

LEMMA NestedItem ==
  ASSUME NEW lists \in Seq(BOOLEAN), NEW t, NEW n \in Nat, Nested(lists, t, n), lists # <<>>,
         t[n + 1] = "item", Visible(t, n + 1)
  PROVE  Nested(Append(Front(lists), TRUE), t, n + 1)
<1> DEFINE L == Len(lists)
           after == Append(Front(lists), TRUE)
<1>1. PICK u \in [1 .. L -> 1 .. n] :
        /\ \A q, r \in 1 .. L : q < r => u[q] < u[r]
        /\ Unclosed(t, n) = {u[r] : r \in 1 .. L}
        /\ \A r \in 1 .. L : lists[r] <=> u[r] \in OpenLists(t, n)
  BY DEF Nested
<1>2. /\ L \in Nat /\ L > 0 /\ Len(after) = L /\ after[L] = TRUE
      /\ \A r \in 1 .. L - 1 : after[r] = lists[r]
  <2> DEFINE f == Front(lists)
  <2>1. /\ L \in Nat /\ L > 0 /\ f \in Seq(BOOLEAN) /\ Len(f) = L - 1
        /\ \A r \in 1 .. L - 1 : f[r] = lists[r]
    BY FrontIs
  <2> HIDE DEF f
  <2>2. Len(Append(f, TRUE)) = L /\ Append(f, TRUE)[L] = TRUE
    BY <2>1
  <2>3. \A r \in 1 .. L - 1 : Append(f, TRUE)[r] = f[r]
    <3>1. f \in Seq(BOOLEAN)
      BY <2>1
    <3>2. \A r \in 1 .. Len(f) : Append(f, TRUE)[r] = f[r]
      BY <3>1, AppendIs
    <3> QED
      BY <2>1, <3>2
  <2> QED
    BY <2>1, <2>2, <2>3 DEF f
<1> HIDE DEF L, after
<1>3. \A r : r \in 1 .. L <=> (r \in 1 .. L - 1 \/ r = L)
  BY <1>2
<1>4. u \in [1 .. L -> 1 .. n + 1] /\ \A r \in 1 .. L : u[r] \in 1 .. n
  BY <1>1, <1>2
<1>5. u[L] \in Unclosed(t, n) /\ \A i \in Unclosed(t, n) : i <= u[L]
  <2>1. \A r \in 1 .. L : r < L \/ r = L
    BY <1>2
  <2>2. \A r \in 1 .. L : u[r] <= u[L]
    BY <1>1, <1>3, <1>4, <2>1
  <2> QED
    BY <1>1, <1>3, <2>2
<1>6. OpenLists(t, n + 1) = OpenLists(t, n) \cup {u[L]}
  BY <1>5, OpenItem
<1>7. Unclosed(t, n + 1) = Unclosed(t, n)
  BY UnclosedPlain
<1>8. ASSUME NEW r \in 1 .. L PROVE after[r] <=> u[r] \in OpenLists(t, n + 1)
  <2>1. CASE r = L
    <3>1. after[r]
      BY <1>2, <2>1
    <3>2. u[r] \in OpenLists(t, n + 1)
      BY <1>6, <2>1
    <3> QED
      BY <3>1, <3>2
  <2>2. CASE r \in 1 .. L - 1
    <3>1. after[r] = lists[r] /\ u[r] # u[L]
      <4>1. r < L
        BY <1>2, <2>2
      <4>2. u[r] < u[L]
        BY <1>1, <1>3, <4>1
      <4> QED
        BY <1>2, <1>3, <1>4, <2>2, <4>2
    <3>2. lists[r] <=> u[r] \in OpenLists(t, n)
      BY <1>1
    <3> QED
      BY <1>6, <3>1, <3>2, Zenon
  <2> QED
    BY <1>3, <2>1, <2>2
<1>9. Nested(after, t, n + 1)
  <2>1. /\ u \in [1 .. Len(after) -> 1 .. n + 1]
        /\ \A q, r \in 1 .. Len(after) : q < r => u[q] < u[r]
        /\ Unclosed(t, n + 1) = {u[r] : r \in 1 .. Len(after)}
    BY <1>1, <1>2, <1>4, <1>7
  <2>2. \A r \in 1 .. Len(after) : after[r] <=> u[r] \in OpenLists(t, n + 1)
    BY <1>2, <1>8, Zenon
  <2> QED
    BY <2>1, <2>2, Zenon DEF Nested
<1> QED
  BY <1>9 DEF after

LEMMA NestedBack ==
  ASSUME NEW lists \in Seq(BOOLEAN), NEW t, NEW n \in Nat, Nested(lists, t, n), lists # <<>>,
         t[n + 1] = "back", Visible(t, n + 1)
  PROVE  Nested(Front(lists), t, n + 1)
<1> DEFINE L == Len(lists)
           after == Front(lists)
<1>1. PICK u \in [1 .. L -> 1 .. n] :
        /\ \A q, r \in 1 .. L : q < r => u[q] < u[r]
        /\ Unclosed(t, n) = {u[r] : r \in 1 .. L}
        /\ \A r \in 1 .. L : lists[r] <=> u[r] \in OpenLists(t, n)
  BY DEF Nested
<1> DEFINE v == [r \in 1 .. L - 1 |-> u[r]]
<1>2. /\ L \in Nat /\ L > 0 /\ Len(after) = L - 1
      /\ \A r \in 1 .. L - 1 : after[r] = lists[r]
  BY FrontIs
<1> HIDE DEF L, after
<1>3. \A r : r \in 1 .. L <=> (r \in 1 .. L - 1 \/ r = L)
  BY <1>2
<1>4. (\A r \in 1 .. L : u[r] \in 1 .. n) /\ \A r \in 1 .. L - 1 : v[r] = u[r]
  BY <1>1
<1>5. v \in [1 .. L - 1 -> 1 .. n + 1]
  BY <1>1, <1>2, <1>3
<1> HIDE DEF v
<1>6. \A r \in 1 .. L - 1 : u[r] < u[L]
  <2>1. \A r \in 1 .. L - 1 : r < L
    BY <1>2
  <2> QED
    BY <1>1, <1>3, <2>1
<1>7. u[L] \in Unclosed(t, n) /\ \A i \in Unclosed(t, n) : i <= u[L]
  <2>1. \A r \in 1 .. L : u[r] <= u[L]
    BY <1>3, <1>4, <1>6
  <2> QED
    BY <1>1, <1>3, <2>1
<1>8. /\ Unclosed(t, n + 1) = Unclosed(t, n) \ {u[L]}
      /\ OpenLists(t, n + 1) = OpenLists(t, n) \ {u[L]}
  <2> DEFINE m == u[L]
  <2>1. m \in Unclosed(t, n) /\ \A i \in Unclosed(t, n) : i <= m
    BY <1>7
  <2> HIDE DEF m
  <2>2. Unclosed(t, n + 1) = Unclosed(t, n) \ {m}
    BY <2>1, UnclosedBack
  <2>3. OpenLists(t, n + 1) = OpenLists(t, n) \ {m}
    BY <2>1, OpenBack
  <2> QED
    BY <2>2, <2>3 DEF m
<1>9. \A r \in 1 .. L - 1 : u[r] # u[L]
  BY <1>3, <1>4, <1>6
<1>10. Unclosed(t, n + 1) = {v[r] : r \in 1 .. L - 1}
  BY <1>1, <1>3, <1>4, <1>8, <1>9
<1>11. ASSUME NEW r \in 1 .. L - 1 PROVE after[r] <=> v[r] \in OpenLists(t, n + 1)
  <2>1. after[r] = lists[r] /\ v[r] = u[r] /\ u[r] # u[L]
    BY <1>2, <1>4, <1>9
  <2>2. lists[r] <=> u[r] \in OpenLists(t, n)
    BY <1>1, <1>3
  <2> QED
    BY <1>8, <2>1, <2>2, Zenon
<1>12. Nested(after, t, n + 1)
  <2>1. \A q, r \in 1 .. L - 1 : q < r => v[q] < v[r]
    BY <1>1, <1>3, <1>4
  <2>2. /\ v \in [1 .. Len(after) -> 1 .. n + 1]
        /\ \A q, r \in 1 .. Len(after) : q < r => v[q] < v[r]
        /\ Unclosed(t, n + 1) = {v[r] : r \in 1 .. Len(after)}
    BY <1>2, <1>5, <1>10, <2>1
  <2>3. \A r \in 1 .. Len(after) : after[r] <=> v[r] \in OpenLists(t, n + 1)
    BY <1>2, <1>11, Zenon
  <2> QED
    BY <2>2, <2>3, Zenon DEF Nested
<1> QED
  BY <1>12 DEF after

LEMMA NestedPlain ==
  ASSUME NEW lists \in Seq(BOOLEAN), NEW t, NEW n \in Nat, Nested(lists, t, n),
         \/ ~(t[n + 1] \in {"over", "back", "item"} /\ Visible(t, n + 1))
         \/ t[n + 1] = "back" /\ lists = <<>>
  PROVE  Nested(lists, t, n + 1) /\ OpenLists(t, n + 1) = OpenLists(t, n)
<1>1. PICK u \in [1 .. Len(lists) -> 1 .. n] :
        /\ \A q, r \in 1 .. Len(lists) : q < r => u[q] < u[r]
        /\ Unclosed(t, n) = {u[r] : r \in 1 .. Len(lists)}
        /\ \A r \in 1 .. Len(lists) : lists[r] <=> u[r] \in OpenLists(t, n)
  BY DEF Nested
<1>2. lists = <<>> => Unclosed(t, n) = {}
  BY NestedLast
<1>3. Unclosed(t, n + 1) = Unclosed(t, n) /\ OpenLists(t, n + 1) = OpenLists(t, n)
  BY <1>2, UnclosedPlain, OpenPlain
<1>4. u \in [1 .. Len(lists) -> 1 .. n + 1]
  OBVIOUS
<1> QED
  BY <1>1, <1>3, <1>4, Zenon DEF Nested

----------------------------------------------------------------------------
(* The types of what is read                                                *)

LEMMA JobType ==
  ASSUME TypeOK, job # Nothing
  PROVE  /\ job \in Job /\ job.doc \in Documents /\ job.source \in Seq(Paragraphs) /\ job.done \in Nat
         /\ doc[job.doc] \in Document /\ Mine \in Document /\ Mine.file \in Pods /\ MyName \in Names
<1>1. job \in Job /\ doc \in [Documents -> Document] /\ name \in [Pods -> Names]
  BY DEF TypeOK
<1>2. job.doc \in Documents /\ job.source \in Texts \cup {<<>>} /\ job.done \in Nat
  BY <1>1 DEF Job
<1>3. job.source \in Seq(Paragraphs)
  <2>1. <<>> \in Seq(Paragraphs)
    OBVIOUS
  <2> QED
    BY <1>2, <2>1, PodCacheAssumption
<1>4. doc[job.doc] \in Document
  BY <1>1, <1>2
<1>5. doc[job.doc].file \in Pods
  BY <1>4 DEF Document
<1> QED
  BY <1>1, <1>2, <1>3, <1>4, <1>5 DEF Mine, MyName

LEMMA DirectiveIs ==
  ASSUME NEW t \in Seq(Paragraphs), NEW n
  PROVE  n \in Directives(t) <=> /\ n \in 1 .. Len(t) /\ t[n] \in {"utf8", "other", "unknown"}
                                 /\ Visible(t, n)
<1>1. DOMAIN t = 1 .. Len(t)
  OBVIOUS
<1> QED
  BY <1>1 DEF Directives

\* What is known of the paragraph that is read.
LEMMA NextIs ==
  ASSUME TypeOK, Read, Parsing, ~AtEnd
  PROVE  /\ job.done < Len(job.source) /\ job.done + 1 \in 1 .. Len(job.source) /\ ~job.skipped
         /\ job.source[job.done + 1] = Paragraph /\ (job.hidden <=> ~Visible(job.source, job.done + 1))
         /\ Nested(job.lists, job.source, job.done) /\ job.lists \in Seq(BOOLEAN)
         /\ job.open = Cardinality(OpenLists(job.source, job.done))
<1>1. job \in Job /\ job.done \in Nat /\ job.source \in Seq(Paragraphs)
  BY JobType DEF Parsing
<1>2. Placed(job.hidden, job.source, job.done) /\ Nested(job.lists, job.source, job.done)
  BY DEF Read
<1>3. job.done < Len(job.source) /\ job.done + 1 \in 1 .. Len(job.source)
  BY <1>1, <1>2 DEF AtEnd, Placed
<1>4. job.hidden <=> ~Visible(job.source, job.done + 1)
  BY <1>2 DEF Placed
<1>5. job.lists \in Seq(BOOLEAN)
  BY <1>1 DEF Job
<1>6. ~job.skipped /\ job.source[job.done + 1] = Paragraph
  BY DEF AtEnd, Paragraph
<1>7. job.open = Cardinality(OpenLists(job.source, job.done))
  BY DEF Read
<1> QED
  BY <1>2, <1>3, <1>4, <1>5, <1>6, <1>7

LEMMA CodedStays ==
  ASSUME TypeOK, Read, Parsing, ~AtEnd, job' \in Job,
         job'.source = job.source, job'.last = job.last, job'.coding = job.coding,
         job'.skipped = job.skipped, job'.done = job.done + 1,
         Paragraph \notin {"utf8", "other", "unknown"} \/ job.hidden \/ job.coding # "utf8"
  PROVE  Coded(job', Mine.file)
<1> DEFINE t == job.source
           n == job.done
           p == Mine.file
<1>1. Coded(job, p)
  BY DEF Read
<1>2. t \in Seq(Paragraphs) /\ n \in Nat
  BY JobType DEF Parsing
<1>3. /\ ~job.skipped /\ t[n + 1] = Paragraph
      /\ (job.hidden <=> ~Visible(t, n + 1))
  BY NextIs
<1> HIDE DEF t, n, p
<1>4. ASSUME job.coding = "utf8" PROVE \A i \in Directives(t) : i > n + 1
  <2>1. \A i \in Directives(t) : i > n
    BY <1>1, <1>3, <1>4 DEF Coded, t, n
  <2>2. n + 1 \notin Directives(t)
    BY <1>2, <1>3, <1>4, DirectiveIs
  <2>3. \A i \in Directives(t) : i \in Nat
    BY <1>2, DirectiveIs
  <2>4. \A i \in Directives(t) : i # n + 1
    BY <2>2
  <2> QED
    BY <1>2, <2>1, <2>3, <2>4
<1>5. (job'.coding = "utf8" => \A i \in Directives(job'.source) : i > job'.done) /\ ~job'.skipped
  BY <1>3, <1>4 DEF t, n
<1>6. job'.last \/ job'.coding = "utf8"
  BY <1>1, <1>3 DEF Coded
<1>7. job'.last => p \in Special \/ (job'.coding = "other" /\ ~job'.skipped)
  BY <1>1 DEF Coded
<1> QED
  BY <1>5, <1>6, <1>7 DEF Coded, p

----------------------------------------------------------------------------
(* The parser's actions                                                     *)

\* What a paragraph must not change, and what it must do to the parser.
Continues ==
  /\ job' \in Job /\ job'.doc = job.doc /\ job'.stage = "parse" /\ job'.source = job.source
  /\ job'.done = job.done + 1 /\ job'.last = job.last
  /\ Paragraph \in {"begin", "end"} => (job'.hidden <=> Paragraph = "begin")
  /\ Paragraph \notin {"begin", "end"} => (job'.hidden <=> job.hidden)
  /\ UNCHANGED <<clock, pods, page, doc>>

LEMMA ContinuesInv ==
  ASSUME Inv, Parsing, ~AtEnd, Continues, Coded(job', Mine.file),
         Nested(job'.lists, job.source, job.done + 1),
         job'.open = Cardinality(OpenLists(job.source, job.done + 1))
  PROVE  Inv' /\ job' # Nothing
<1>1. TypeOK'
  BY DEF Inv, TypeOK, Continues, pods
<1>2. Parsing' /\ Mine' = Mine /\ MyName' = MyName /\ job' # Nothing
  <2>1. job' # Nothing
    BY NothingAssumption DEF Continues
  <2>2. job'.stage = "parse" /\ job'.doc = job.doc /\ doc' = doc /\ name' = name
    BY DEF Continues, pods
  <2>3. Mine' = Mine
    BY <2>2 DEF Mine
  <2> QED
    BY <2>1, <2>2, <2>3 DEF Parsing, MyName
<1>3. Placed(job'.hidden, job'.source, job'.done)
  <2> DEFINE t == job.source
             n == job.done + 1
  <2>1. /\ job.done < Len(t) /\ t[n] = Paragraph /\ (job.hidden <=> ~Visible(t, n))
    BY NextIs DEF Inv
  <2>2. t \in Seq(Paragraphs) /\ job.done \in Nat
    BY JobType DEF Parsing, Inv
  <2>3. n \in Nat /\ n > 0 /\ n <= Len(t)
    BY <2>1, <2>2
  <2>4. job'.source = t /\ job'.done = n
    BY DEF Continues
  <2> HIDE DEF t, n
  <2>5. job'.hidden <=> ~Visible(t, n + 1)
    <3>1. CASE Paragraph = "begin"
      <4>1. job'.hidden
        BY <3>1 DEF Continues
      <4>2. ~Visible(t, n + 1)
        BY <2>1, <2>3, <3>1, VisibleNext
      <4> QED
        BY <4>1, <4>2
    <3>2. CASE Paragraph = "end"
      <4>1. ~job'.hidden
        BY <3>2 DEF Continues
      <4>2. Visible(t, n + 1)
        BY <2>1, <2>3, <3>2, VisibleNext
      <4> QED
        BY <4>1, <4>2
    <3>3. CASE Paragraph \notin {"begin", "end"}
      <4>1. job'.hidden <=> job.hidden
        BY <3>3 DEF Continues
      <4>2. Visible(t, n + 1) <=> Visible(t, n)
        BY <2>1, <2>3, <3>3, VisibleNext
      <4> QED
        BY <2>1, <4>1, <4>2
    <3> QED
      BY <3>1, <3>2, <3>3
  <2> QED
    BY <2>3, <2>4, <2>5 DEF Placed
<1>4. Read'
  <2>1. job'.source = job.source /\ job'.done = job.done + 1
    BY DEF Continues
  <2> QED
    BY <1>2, <1>3, <2>1 DEF Read
<1>5. Current'
  BY <1>2 DEF Inv, Current, Continues
<1>6. ASSUME NEW n \in Names PROVE Kept(n)'
  <2>1. Kept(n)
    BY DEF Inv
  <2>2. Busy(n)' <=> Busy(n)
    BY <1>2 DEF Busy
  <2>3. page' = page /\ name' = name /\ clock' = clock /\ written' = written /\ text' = text
    BY DEF Continues, pods
  <2> QED
    BY <2>1, <2>2, <2>3 DEF Kept
<1> QED
  BY <1>1, <1>2, <1>4, <1>5, <1>6 DEF Inv

\* What Reads says.
LEMMA ReadsIs ==
  ASSUME Inv, NEW kinds, Reads(kinds)
  PROVE  /\ Parsing /\ ~AtEnd /\ Paragraph \in kinds /\ TypeOK /\ Read
         /\ job \in Job /\ job.stage = "parse" /\ job.done \in Nat /\ job.done + 1 \in Nat
<1>1. Parsing /\ ~AtEnd /\ Paragraph \in kinds /\ TypeOK /\ Read
  BY DEF Reads, Inv
<1>2. job # Nothing /\ job.stage = "parse"
  BY <1>1 DEF Parsing
<1>3. job \in Job /\ job.done \in Nat
  BY <1>1, <1>2, JobType
<1> QED
  BY <1>1, <1>2, <1>3

LEMMA PlainInv == ASSUME Inv, Plain PROVE Inv' /\ job' # Nothing
<1>1. /\ Parsing /\ ~AtEnd /\ TypeOK /\ Read /\ job \in Job /\ job.stage = "parse"
      /\ job.done \in Nat /\ job.done + 1 \in Nat
      /\ Paragraph \notin {"begin", "end"}
      /\ Paragraph = "text" \/ job.hidden
  <2>1. CASE Reads({"text"})
    BY <2>1, ReadsIs
  <2>2. CASE Hides({"over", "item", "back", "utf8", "other", "unknown"})
    <3>1. Reads({"over", "item", "back", "utf8", "other", "unknown"}) /\ job.hidden
      BY <2>2 DEF Hides
    <3> QED
      BY <3>1, ReadsIs
  <2> QED
    BY <2>1, <2>2 DEF Plain
<1>2. job' = [job EXCEPT !.done = job.done + 1] /\ UNCHANGED <<clock, pods, page, doc>>
  BY DEF Plain
<1>3. job' \in Job
  BY <1>1, <1>2 DEF Job
<1>4. /\ job'.doc = job.doc /\ job'.stage = job.stage /\ job'.source = job.source
      /\ job'.done = job.done + 1 /\ job'.last = job.last /\ job'.hidden = job.hidden
      /\ job'.coding = job.coding /\ job'.skipped = job.skipped /\ job'.lists = job.lists
      /\ job'.open = job.open
  BY <1>1, <1>2 DEF Job
<1>5. Continues
  BY <1>1, <1>2, <1>3, <1>4 DEF Continues
<1>6. Coded(job', Mine.file)
  BY <1>1, <1>3, <1>4, CodedStays
<1>7. /\ ~(job.source[job.done + 1] \in {"over", "back", "item"} /\ Visible(job.source, job.done + 1))
      /\ Nested(job.lists, job.source, job.done) /\ job.lists \in Seq(BOOLEAN)
      /\ job.open = Cardinality(OpenLists(job.source, job.done))
  BY <1>1, NextIs
<1>8. /\ Nested(job.lists, job.source, job.done + 1)
      /\ OpenLists(job.source, job.done + 1) = OpenLists(job.source, job.done)
  BY <1>1, <1>7, NestedPlain
<1> QED
  BY <1>1, <1>4, <1>5, <1>6, <1>7, <1>8, ContinuesInv

LEMMA BeginEndInv == ASSUME Inv, BeginEnd PROVE Inv' /\ job' # Nothing
<1>1. /\ Parsing /\ ~AtEnd /\ TypeOK /\ Read /\ job \in Job /\ job.stage = "parse"
      /\ job.done \in Nat /\ job.done + 1 \in Nat
      /\ Paragraph \in {"begin", "end"}
  BY ReadsIs DEF BeginEnd
<1>2. job' = [job EXCEPT !.done = job.done + 1, !.hidden = (Paragraph = "begin")]
      /\ UNCHANGED <<clock, pods, page, doc>>
  BY DEF BeginEnd
<1>3. job' \in Job
  BY <1>1, <1>2 DEF Job
<1>4. /\ job'.doc = job.doc /\ job'.stage = job.stage /\ job'.source = job.source
      /\ job'.done = job.done + 1 /\ job'.last = job.last
      /\ job'.coding = job.coding /\ job'.skipped = job.skipped /\ job'.lists = job.lists
      /\ job'.open = job.open
  BY <1>1, <1>2 DEF Job
<1>5. job'.hidden <=> Paragraph = "begin"
  BY <1>1, <1>2 DEF Job
<1>6. Continues
  BY <1>1, <1>2, <1>3, <1>4, <1>5 DEF Continues
<1>7. Coded(job', Mine.file)
  BY <1>1, <1>3, <1>4, CodedStays
<1>8. /\ ~(job.source[job.done + 1] \in {"over", "back", "item"} /\ Visible(job.source, job.done + 1))
      /\ Nested(job.lists, job.source, job.done) /\ job.lists \in Seq(BOOLEAN)
      /\ job.open = Cardinality(OpenLists(job.source, job.done))
  BY <1>1, NextIs
<1>9. /\ Nested(job.lists, job.source, job.done + 1)
      /\ OpenLists(job.source, job.done + 1) = OpenLists(job.source, job.done)
  BY <1>1, <1>8, NestedPlain
<1> QED
  BY <1>1, <1>4, <1>6, <1>7, <1>8, <1>9, ContinuesInv

LEMMA OverInv == ASSUME Inv, Over PROVE Inv' /\ job' # Nothing
<1>1. /\ Parsing /\ ~AtEnd /\ TypeOK /\ Read /\ job \in Job /\ job.stage = "parse"
      /\ job.done \in Nat /\ job.done + 1 \in Nat
      /\ Paragraph = "over" /\ ~job.hidden
  BY ReadsIs DEF Over
<1>2. job' = [job EXCEPT !.done = job.done + 1, !.lists = Append(job.lists, FALSE)]
      /\ UNCHANGED <<clock, pods, page, doc>>
  BY DEF Over
<1>3. /\ job.source[job.done + 1] = "over" /\ Visible(job.source, job.done + 1)
      /\ Nested(job.lists, job.source, job.done) /\ job.lists \in Seq(BOOLEAN)
      /\ job.open = Cardinality(OpenLists(job.source, job.done))
  BY <1>1, NextIs
<1>4. Append(job.lists, FALSE) \in Seq(BOOLEAN)
  BY <1>3
<1>5. job' \in Job
  BY <1>1, <1>2, <1>4 DEF Job
<1>6. /\ job'.doc = job.doc /\ job'.stage = job.stage /\ job'.source = job.source
      /\ job'.done = job.done + 1 /\ job'.last = job.last /\ job'.hidden = job.hidden
      /\ job'.coding = job.coding /\ job'.skipped = job.skipped
      /\ job'.open = job.open /\ job'.lists = Append(job.lists, FALSE)
  BY <1>1, <1>2 DEF Job
<1>7. Continues
  BY <1>1, <1>2, <1>5, <1>6 DEF Continues
<1>8. Coded(job', Mine.file)
  BY <1>1, <1>5, <1>6, CodedStays
<1>9. /\ Nested(job'.lists, job.source, job.done + 1)
      /\ OpenLists(job.source, job.done + 1) = OpenLists(job.source, job.done)
  BY <1>1, <1>3, <1>6, NestedOver, OpenOver
<1> QED
  BY <1>1, <1>3, <1>6, <1>7, <1>8, <1>9, ContinuesInv

LEMMA ItemInv == ASSUME Inv, Item PROVE Inv' /\ job' # Nothing
<1>1. /\ Parsing /\ ~AtEnd /\ TypeOK /\ Read /\ job \in Job /\ job.stage = "parse"
      /\ job.done \in Nat /\ job.done + 1 \in Nat
      /\ Paragraph = "item" /\ ~job.hidden /\ job.lists # <<>>
  BY ReadsIs DEF Item
<1> DEFINE after == Append(Front(job.lists), TRUE)
           open == IF Last(job.lists) THEN job.open ELSE job.open + 1
<1>2. job' = [job EXCEPT !.done = job.done + 1, !.open = open, !.lists = after]
      /\ UNCHANGED <<clock, pods, page, doc>>
  BY DEF Item
<1>3. /\ job.source[job.done + 1] = "item" /\ Visible(job.source, job.done + 1)
      /\ Nested(job.lists, job.source, job.done) /\ job.lists \in Seq(BOOLEAN)
      /\ job.open = Cardinality(OpenLists(job.source, job.done))
  BY <1>1, NextIs
<1>4. after \in Seq(BOOLEAN) /\ open \in Nat
  <2>1. Front(job.lists) \in Seq(BOOLEAN)
    BY <1>1, <1>3, FrontIs
  <2>2. job.open \in Nat
    BY <1>1 DEF Job
  <2> QED
    BY <2>1, <2>2
<1>5. Nested(after, job.source, job.done + 1)
  BY <1>1, <1>3, NestedItem
<1>6. open = Cardinality(OpenLists(job.source, job.done + 1))
  <2>1. PICK m \in Unclosed(job.source, job.done) :
          (\A i \in Unclosed(job.source, job.done) : i <= m)
          /\ (Last(job.lists) <=> m \in OpenLists(job.source, job.done))
    BY <1>1, <1>3, NestedLast
  <2>2. OpenLists(job.source, job.done + 1) = OpenLists(job.source, job.done) \cup {m}
    BY <1>1, <1>3, <2>1, OpenItem
  <2>3. IsFiniteSet(OpenLists(job.source, job.done))
    BY <1>1, OpenType
  <2>4. Cardinality(OpenLists(job.source, job.done + 1))
          = IF m \in OpenLists(job.source, job.done) THEN job.open ELSE job.open + 1
    BY <1>3, <2>2, <2>3, FS_AddElement
  <2> QED
    BY <2>1, <2>4
<1> HIDE DEF after, open
<1>7. job' \in Job
  BY <1>1, <1>2, <1>4 DEF Job
<1>8. /\ job'.doc = job.doc /\ job'.stage = job.stage /\ job'.source = job.source
      /\ job'.done = job.done + 1 /\ job'.last = job.last /\ job'.hidden = job.hidden
      /\ job'.coding = job.coding /\ job'.skipped = job.skipped
      /\ job'.open = open /\ job'.lists = after
  BY <1>1, <1>2 DEF Job
<1>9. Continues
  BY <1>1, <1>2, <1>7, <1>8 DEF Continues
<1>10. Coded(job', Mine.file)
  BY <1>1, <1>7, <1>8, CodedStays
<1> QED
  BY <1>1, <1>5, <1>6, <1>8, <1>9, <1>10, ContinuesInv

LEMMA BackInv == ASSUME Inv, Back PROVE Inv' /\ job' # Nothing
<1>1. /\ Parsing /\ ~AtEnd /\ TypeOK /\ Read /\ job \in Job /\ job.stage = "parse"
      /\ job.done \in Nat /\ job.done + 1 \in Nat
      /\ Paragraph = "back" /\ ~job.hidden
  BY ReadsIs DEF Back
<1>2. /\ job.source[job.done + 1] = "back" /\ Visible(job.source, job.done + 1)
      /\ Nested(job.lists, job.source, job.done) /\ job.lists \in Seq(BOOLEAN)
      /\ job.open = Cardinality(OpenLists(job.source, job.done))
  BY <1>1, NextIs
<1>3. UNCHANGED <<clock, pods, page, doc>>
  BY DEF Back
<1>4. CASE job.lists = <<>>
  <2>1. job' = [job EXCEPT !.done = job.done + 1]
    BY <1>4 DEF Back
  <2>2. job' \in Job
    BY <1>1, <2>1 DEF Job
  <2>3. /\ job'.doc = job.doc /\ job'.stage = job.stage /\ job'.source = job.source
        /\ job'.done = job.done + 1 /\ job'.last = job.last /\ job'.hidden = job.hidden
        /\ job'.coding = job.coding /\ job'.skipped = job.skipped /\ job'.lists = job.lists
        /\ job'.open = job.open
    BY <1>1, <2>1 DEF Job
  <2>4. Continues
    BY <1>1, <1>3, <2>2, <2>3 DEF Continues
  <2>5. Coded(job', Mine.file)
    BY <1>1, <2>2, <2>3, CodedStays
  <2>6. /\ Nested(job.lists, job.source, job.done + 1)
        /\ OpenLists(job.source, job.done + 1) = OpenLists(job.source, job.done)
    BY <1>1, <1>2, <1>4, NestedPlain
  <2> QED
    BY <1>1, <1>2, <2>3, <2>4, <2>5, <2>6, ContinuesInv
<1>5. CASE job.lists # <<>>
  <2> DEFINE after == Front(job.lists)
             open == IF Last(job.lists) THEN job.open - 1 ELSE job.open
  <2>1. job' = [job EXCEPT !.done = job.done + 1, !.lists = after, !.open = open]
    BY <1>5 DEF Back
  <2>2. after \in Seq(BOOLEAN)
    BY <1>2, <1>5, FrontIs
  <2>3. Nested(after, job.source, job.done + 1)
    BY <1>1, <1>2, <1>5, NestedBack
  <2>4. open = Cardinality(OpenLists(job.source, job.done + 1))
    <3>1. PICK m \in Unclosed(job.source, job.done) :
            (\A i \in Unclosed(job.source, job.done) : i <= m)
            /\ (Last(job.lists) <=> m \in OpenLists(job.source, job.done))
      BY <1>1, <1>2, <1>5, NestedLast
    <3>2. OpenLists(job.source, job.done + 1) = OpenLists(job.source, job.done) \ {m}
      BY <1>1, <1>2, <3>1, OpenBack
    <3>3. IsFiniteSet(OpenLists(job.source, job.done))
      BY <1>1, OpenType
    <3>4. Cardinality(OpenLists(job.source, job.done + 1))
            = IF m \in OpenLists(job.source, job.done) THEN job.open - 1 ELSE job.open
      BY <1>2, <3>2, <3>3, FS_RemoveElement
    <3> QED
      BY <3>1, <3>4
  <2>5. open \in Nat
    BY <1>1, <2>4, OpenType
  <2> HIDE DEF after, open
  <2>6. job' \in Job
    BY <1>1, <2>1, <2>2, <2>5 DEF Job
  <2>7. /\ job'.doc = job.doc /\ job'.stage = job.stage /\ job'.source = job.source
        /\ job'.done = job.done + 1 /\ job'.last = job.last /\ job'.hidden = job.hidden
        /\ job'.coding = job.coding /\ job'.skipped = job.skipped
        /\ job'.open = open /\ job'.lists = after
    BY <1>1, <2>1 DEF Job
  <2>8. Continues
    BY <1>1, <1>3, <2>6, <2>7 DEF Continues
  <2>9. Coded(job', Mine.file)
    BY <1>1, <2>6, <2>7, CodedStays
  <2> QED
    BY <1>1, <2>3, <2>4, <2>7, <2>8, <2>9, ContinuesInv
<1> QED
  BY <1>4, <1>5

LEMMA EncodingInv == ASSUME Inv, Encoding PROVE Inv' /\ job' # Nothing
<1>1. /\ Parsing /\ ~AtEnd /\ TypeOK /\ Read /\ job \in Job /\ job.stage = "parse"
      /\ job.done \in Nat /\ job.done + 1 \in Nat
      /\ Paragraph \in {"utf8", "other", "unknown"} /\ ~job.hidden
  BY ReadsIs DEF Encoding
<1>2. /\ job.source[job.done + 1] = Paragraph /\ Visible(job.source, job.done + 1) /\ ~job.skipped
      /\ job.done + 1 \in 1 .. Len(job.source)
      /\ Nested(job.lists, job.source, job.done) /\ job.lists \in Seq(BOOLEAN)
      /\ job.open = Cardinality(OpenLists(job.source, job.done))
  BY <1>1, NextIs
<1>3. UNCHANGED <<clock, pods, page, doc>>
  BY DEF Encoding
<1>4. /\ Nested(job.lists, job.source, job.done + 1)
      /\ OpenLists(job.source, job.done + 1) = OpenLists(job.source, job.done)
  BY <1>1, <1>2, NestedPlain
<1>5. CASE job.coding = "utf8"
  <2>1. job' = [job EXCEPT !.done = job.done + 1, !.coding = Paragraph, !.skipped = TRUE]
    BY <1>5 DEF Encoding
  <2>2. job' \in Job
    BY <1>1, <2>1 DEF Job
  <2>3. /\ job'.doc = job.doc /\ job'.stage = job.stage /\ job'.source = job.source
        /\ job'.done = job.done + 1 /\ job'.last = job.last /\ job'.hidden = job.hidden
        /\ job'.coding = Paragraph /\ job'.lists = job.lists /\ job'.open = job.open
    BY <1>1, <2>1 DEF Job
  <2>4. job'.skipped
    BY <1>1, <2>1 DEF Job
  <2>5. Continues
    BY <1>1, <1>3, <2>2, <2>3 DEF Continues
  <2>6. Coded(job', Mine.file)
    <3>1. Coded(job, Mine.file)
      BY <1>1 DEF Read
    <3>2. job.source \in Seq(Paragraphs)
      BY <1>1, JobType DEF Parsing
    <3>3. job.done + 1 \in Directives(job.source)
      BY <1>1, <1>2, <3>2, DirectiveIs
    <3>4. \A i \in Directives(job.source) : i \in Nat /\ i > job.done
      BY <1>2, <1>5, <3>1, <3>2, DirectiveIs DEF Coded
    <3>5. \A i \in Directives(job.source) : i >= job.done + 1
      BY <1>1, <3>4
    <3>6. job'.last => Mine.file \in Special
      BY <1>5, <2>3, <3>1 DEF Coded
    <3> QED
      BY <1>2, <2>3, <2>4, <3>3, <3>5, <3>6 DEF Coded
  <2> QED
    BY <1>1, <1>2, <1>4, <2>3, <2>5, <2>6, ContinuesInv
<1>6. CASE job.coding # "utf8"
  <2>1. job' = [job EXCEPT !.done = job.done + 1]
    BY <1>6 DEF Encoding
  <2>2. job' \in Job
    BY <1>1, <2>1 DEF Job
  <2>3. /\ job'.doc = job.doc /\ job'.stage = job.stage /\ job'.source = job.source
        /\ job'.done = job.done + 1 /\ job'.last = job.last /\ job'.hidden = job.hidden
        /\ job'.coding = job.coding /\ job'.skipped = job.skipped /\ job'.lists = job.lists
        /\ job'.open = job.open
    BY <1>1, <2>1 DEF Job
  <2>4. Continues
    BY <1>1, <1>3, <2>2, <2>3 DEF Continues
  <2>5. Coded(job', Mine.file)
    BY <1>1, <1>6, <2>2, <2>3, CodedStays
  <2> QED
    BY <1>1, <1>2, <1>4, <2>3, <2>4, <2>5, ContinuesInv
<1> QED
  BY <1>5, <1>6

----------------------------------------------------------------------------
(* Flaws                                                                    *)

LEMMA ItemFlaw == ASSUME Inv, ItemOutside PROVE Flawed(Mine.file, job.source)
<1> DEFINE t == job.source
           k == job.done + 1
<1>1. /\ Parsing /\ ~AtEnd /\ TypeOK /\ Read /\ job.done \in Nat /\ k \in Nat
      /\ Paragraph = "item" /\ ~job.hidden /\ job.lists = <<>>
  BY ReadsIs DEF ItemOutside
<1>2. /\ k \in 1 .. Len(t) /\ t[k] = "item" /\ Visible(t, k)
      /\ Nested(job.lists, t, job.done) /\ job.lists \in Seq(BOOLEAN)
  BY <1>1, NextIs
<1>3. Unclosed(t, job.done) = {}
  BY <1>1, <1>2, NestedLast
<1>4. Unclosed(t, k) = Unclosed(t, job.done)
  BY <1>1, <1>2, UnclosedPlain
<1>5. k \in Seen(t, "item", 1, Len(t))
  BY <1>2 DEF Seen
<1> QED
  BY <1>3, <1>4, <1>5 DEF Flawed

LEMMA DirectiveFlaw ==
  ASSUME Inv, Parsing, job.skipped, job.last \/ job.coding # "other"
  PROVE  Flawed(Mine.file, job.source)
<1> DEFINE t == job.source
           n == job.done
<1>1. Coded(job, Mine.file) /\ t \in Seq(Paragraphs)
  BY JobType DEF Inv, Read, Parsing
<1>2. n \in Directives(t) /\ t[n] = job.coding /\ \A i \in Directives(t) : i >= n
  BY <1>1 DEF Coded
<1>3. Directives(t) \in SUBSET Int
  BY <1>1, DirectiveIs
<1>4. Min(Directives(t)) = n
  BY <1>2, <1>3, MinIs
<1>5. job.last => Mine.file \in Special
  BY <1>1 DEF Coded
<1>6. Directives(t) # {}
  BY <1>2
<1> HIDE DEF t, n
<1>7. Mine.file \in Special \/ t[Min(Directives(t))] # "other"
  BY <1>2, <1>4, <1>5
<1>8. Flawed(Mine.file, t)
  BY <1>6, <1>7 DEF Flawed
<1> QED
  BY <1>8 DEF t
----------------------------------------------------------------------------
(* The main thread's actions                                                *)

LEMMA NotBusy == ASSUME NEW n, n # MyName PROVE ~Busy(n)
BY DEF Busy

\* A pass begins: nothing has been read, and the page is that of the text.
Begins ==
  /\ job' \in Job /\ job'.doc = job.doc /\ job'.stage = "parse" /\ job'.source = text[Mine.file]
  /\ job'.done = 0 /\ ~job'.skipped /\ job'.lists = <<>> /\ job'.open = 0 /\ ~job'.hidden
  /\ doc' \in [Documents -> Document] /\ doc'[job.doc].file = Mine.file
  /\ UNCHANGED <<clock, pods>>

LEMMA BeginsInv ==
  ASSUME Inv, job # Nothing, Begins, Coded(job', Mine.file),
         NEW g \in Page, page' = [page EXCEPT ![MyName] = g],
         g.of = Mine.file, g.text = text[Mine.file], g.opened <= clock
  PROVE  Inv' /\ job' # Nothing
<1>1. /\ TypeOK /\ Mine.file \in Pods /\ MyName \in Names
      /\ text[Mine.file] \in Seq(Paragraphs) /\ page \in [Names -> Page \cup {Nothing}]
  <2>1. TypeOK /\ Mine.file \in Pods /\ MyName \in Names
    BY JobType DEF Inv
  <2>2. text[Mine.file] \in Texts /\ page \in [Names -> Page \cup {Nothing}]
    BY <2>1 DEF TypeOK
  <2> QED
    BY <2>1, <2>2, PodCacheAssumption
<1>2. page' \in [Names -> Page \cup {Nothing}]
  BY <1>1
<1>3. TypeOK'
  BY <1>1, <1>2 DEF TypeOK, Begins, pods
<1>4. Parsing' /\ Mine'.file = Mine.file /\ MyName' = MyName /\ job' # Nothing
  <2>1. job' # Nothing
    BY NothingAssumption DEF Begins
  <2>2. Mine'.file = Mine.file
    BY DEF Mine, Begins
  <2> QED
    BY <2>1, <2>2 DEF Parsing, MyName, Begins, pods
<1>5. Read'
  <2>1. Visible(job'.source, 1) /\ Len(job'.source) \in Nat
    BY <1>1, VisibleFirst DEF Begins
  <2>2. job'.done = 0 /\ 0 + 1 = 1 /\ ~job'.hidden /\ job'.lists = <<>> /\ job'.open = 0
    BY DEF Begins
  <2>3. Placed(job'.hidden, job'.source, job'.done)
    BY <2>1, <2>2 DEF Placed
  <2>4. Nested(job'.lists, job'.source, job'.done)
    BY <2>2, NestedFirst
  <2>5. job'.open = Cardinality(OpenLists(job'.source, job'.done))
    BY <2>2, NoneAtFirst
  <2> QED
    BY <1>4, <2>3, <2>4, <2>5 DEF Read
<1>6. page'[MyName] = g /\ g # Nothing
  BY <1>1, NothingAssumption
<1>7. Current'
  BY <1>4, <1>6 DEF Current, Begins
<1>8. ASSUME NEW n \in Names PROVE Kept(n)'
  <2>1. CASE n = MyName
    <3>1. name[g.of] = n /\ g.opened <= clock /\ g.text = text[g.of] /\ page'[n] = g
      BY <1>6, <2>1 DEF MyName
    <3>2. Busy(n)'
      BY <1>4, <2>1 DEF Busy
    <3> QED
      BY <3>1, <3>2 DEF Kept, Begins, pods
  <2>2. CASE n # MyName
    <3>1. page'[n] = page[n] /\ ~Busy(n)
      BY <1>1, <2>2, NotBusy
    <3>2. Kept(n)
      BY DEF Inv
    <3> QED
      BY <3>1, <3>2 DEF Kept, Begins, pods
  <2> QED
    BY <2>1, <2>2
<1> QED
  BY <1>3, <1>4, <1>5, <1>7, <1>8 DEF Inv

LEMMA StartParsingInv == ASSUME Inv, StartParsing PROVE Inv' /\ job' # Nothing
<1> DEFINE p == Mine.file
           g == [of |-> p, text |-> text[p], whole |-> FALSE, cut |-> FALSE,
                 opened |-> clock, at |-> clock]
<1>1. /\ TypeOK /\ job # Nothing /\ job \in Job /\ job.doc \in Documents /\ doc[job.doc] \in Document
      /\ p \in Pods /\ MyName \in Names
  BY JobType DEF Inv, StartParsing
<1>2. text[p] \in Texts /\ clock \in 0 .. MaxTime /\ doc \in [Documents -> Document]
  BY <1>1 DEF TypeOK
<1>3. g \in Page
  BY <1>1, <1>2 DEF Page
<1>4. /\ job' = Pass(job, text[p], "utf8", p \in Special)
      /\ doc' = [doc EXCEPT ![job.doc] = [doc[job.doc] EXCEPT !.spins = TRUE]]
      /\ page' = [page EXCEPT ![MyName] = g] /\ UNCHANGED <<clock, pods>>
  BY DEF StartParsing
<1>5. doc' \in [Documents -> Document] /\ doc'[job.doc].file = p
  <2>1. [doc[job.doc] EXCEPT !.spins = TRUE] \in Document
    BY <1>1 DEF Document
  <2>2. [doc[job.doc] EXCEPT !.spins = TRUE].file = p
    BY <1>1 DEF Document, Mine
  <2>3. doc'[job.doc] = [doc[job.doc] EXCEPT !.spins = TRUE]
    BY <1>1, <1>2, <1>4
  <2> QED
    BY <1>2, <1>4, <2>1, <2>2, <2>3
<1>6. /\ job'.doc = job.doc /\ job'.stage = "parse" /\ job'.source = text[p] /\ job'.done = 0
      /\ job'.skipped = FALSE /\ job'.coding = "utf8" /\ job'.lists = <<>> /\ job'.open = 0
      /\ job'.hidden = FALSE
  BY <1>1, <1>4 DEF Pass, Job
<1>7. job'.last <=> p \in Special
  BY <1>1, <1>4 DEF Pass, Job
<1>8. job' \in Job
  <2>1. <<>> \in Seq(BOOLEAN) /\ 0 \in Nat /\ text[p] \in Texts \cup {<<>>} /\ (p \in Special) \in BOOLEAN
    BY <1>2
  <2> HIDE DEF p
  <2> QED
    BY <1>1, <1>4, <2>1 DEF Pass, Job
<1>9. Begins
  BY <1>4, <1>5, <1>6, <1>8 DEF Begins
<1>10. Coded(job', p)
  <2>1. \A i \in Directives(job'.source) : i > job'.done
    <3>1. text[p] \in Seq(Paragraphs)
      BY <1>2, PodCacheAssumption
    <3>2. \A i \in Directives(text[p]) : i > 0
      BY <3>1, DirectiveIs
    <3> QED
      BY <1>6, <3>2
  <2> QED
    BY <1>6, <1>7, <2>1 DEF Coded
<1>11. g.of = p /\ g.text = text[p] /\ g.opened <= clock
  BY <1>2, PodCacheAssumption
<1> HIDE DEF g
<1> QED
  BY <1>1, <1>3, <1>4, <1>9, <1>10, <1>11, BeginsInv

LEMMA SecondPassInv == ASSUME Inv, SecondPass PROVE Inv' /\ job' # Nothing
<1> DEFINE p == Mine.file
           g == [page[MyName] EXCEPT !.text = text[p]]
<1>1. /\ TypeOK /\ Parsing /\ job # Nothing /\ job \in Job /\ job.doc \in Documents
      /\ doc[job.doc] \in Document /\ p \in Pods /\ MyName \in Names
  BY JobType DEF Inv, SecondPass, Parsing
<1>2. text[p] \in Texts /\ clock \in 0 .. MaxTime /\ doc \in [Documents -> Document]
      /\ page \in [Names -> Page \cup {Nothing}]
  BY <1>1 DEF TypeOK
<1>3. page[MyName] \in Page /\ page[MyName].of = p /\ page[MyName].opened <= clock
  <2>1. page[MyName] # Nothing /\ page[MyName].of = p /\ Kept(MyName)
    BY <1>1 DEF Inv, Current
  <2> QED
    BY <1>1, <1>2, <2>1 DEF Kept
<1>4. g \in Page /\ g.of = p /\ g.text = text[p] /\ g.opened <= clock
  <2> DEFINE h == page[MyName]
             v == text[p]
  <2>1. h \in Page /\ h.of = p /\ h.opened <= clock /\ v \in Texts
    BY <1>2, <1>3
  <2> HIDE DEF h, v
  <2>2. /\ [h EXCEPT !.text = v] \in Page /\ [h EXCEPT !.text = v].of = p
        /\ [h EXCEPT !.text = v].text = v /\ [h EXCEPT !.text = v].opened <= clock
    BY <2>1 DEF Page
  <2> QED
    BY <2>2 DEF h, v
<1>5. /\ job' = Pass(job, text[p], "other", TRUE) /\ page' = [page EXCEPT ![MyName] = g]
      /\ UNCHANGED <<clock, pods, doc>>
  BY DEF SecondPass
<1>6. /\ job'.doc = job.doc /\ job'.stage = "parse" /\ job'.source = text[p] /\ job'.done = 0
      /\ job'.skipped = FALSE /\ job'.coding = "other" /\ job'.lists = <<>> /\ job'.open = 0
      /\ job'.hidden = FALSE /\ job'.last = TRUE
  BY <1>1, <1>5 DEF Pass, Job
<1>7. job' \in Job
  <2>1. <<>> \in Seq(BOOLEAN) /\ 0 \in Nat /\ text[p] \in Texts \cup {<<>>}
    BY <1>2
  <2> HIDE DEF p
  <2> QED
    BY <1>1, <1>5, <2>1 DEF Pass, Job
<1>8. Begins
  BY <1>2, <1>5, <1>6, <1>7 DEF Begins, Mine
<1>9. Coded(job', p)
  BY <1>6 DEF Coded
<1> HIDE DEF g
<1> QED
  BY <1>1, <1>4, <1>5, <1>8, <1>9, BeginsInv

\* A pass ends, with a page that is whole or cut, or a POD that has a flaw.
Ends ==
  /\ job' = Nothing /\ doc' \in [Documents -> Document] /\ UNCHANGED <<clock, pods>>

LEMMA EndsInv ==
  ASSUME Inv, Parsing, Ends, NEW g \in Page, page' = [page EXCEPT ![MyName] = g],
         g.of = page[MyName].of, g.text = page[MyName].text, g.opened = page[MyName].opened,
         g.whole \/ g.cut \/ Flawed(Mine.file, job.source)
  PROVE  Inv'
<1>1. /\ TypeOK /\ MyName \in Names /\ page \in [Names -> Page \cup {Nothing}]
      /\ page[MyName] # Nothing /\ page[MyName].of = Mine.file /\ page[MyName].text = job.source
  <2>1. TypeOK /\ MyName \in Names
    BY JobType DEF Inv, Parsing
  <2> QED
    BY <2>1 DEF Inv, Current, TypeOK
<1>2. TypeOK'
  <2>1. page' \in [Names -> Page \cup {Nothing}]
    BY <1>1
  <2> QED
    BY <1>1, <2>1 DEF TypeOK, Ends, pods
<1>3. ~Parsing'
  BY DEF Ends, Parsing
<1>4. Read' /\ Current'
  BY <1>3 DEF Read, Current
<1>5. ASSUME NEW n \in Names PROVE Kept(n)'
  <2>1. Kept(n)
    BY DEF Inv
  <2>2. CASE n = MyName
    <3>1. page'[n] = g /\ (g.whole \/ g.cut \/ Flawed(g.of, g.text))
      BY <1>1, <2>2
    <3>2. name[g.of] = n /\ g.opened <= clock /\ (written[g.of] >= g.opened \/ g.text = text[g.of])
      BY <1>1, <2>1, <2>2 DEF Kept
    <3> QED
      BY <3>1, <3>2 DEF Kept, Ends, pods
  <2>3. CASE n # MyName
    <3>1. page'[n] = page[n] /\ ~Busy(n)
      BY <1>1, <2>3, NotBusy
    <3> QED
      BY <2>1, <3>1 DEF Kept, Ends, pods
  <2> QED
    BY <2>2, <2>3
<1> QED
  BY <1>2, <1>4, <1>5 DEF Inv

LEMMA ReturnsDoc ==
  ASSUME TypeOK, job # Nothing, NEW spins \in BOOLEAN, Returns(spins)
  PROVE  job' = Nothing /\ doc' \in [Documents -> Document] /\ doc'[job.doc].spins = spins
<1>1. job.doc \in Documents /\ doc[job.doc] \in Document /\ doc \in [Documents -> Document]
  BY JobType DEF TypeOK
<1> DEFINE d == [doc[job.doc] EXCEPT !.spins = spins]
<1>2. d \in Document /\ d.spins = spins
  BY <1>1 DEF Document
<1>3. job' = Nothing /\ doc' = [doc EXCEPT ![job.doc] = d]
  BY DEF Returns
<1> HIDE DEF d
<1> QED
  BY <1>1, <1>2, <1>3

\* The page that is closed.
LEMMA Closed ==
  ASSUME Inv, Parsing, NEW cut \in BOOLEAN
  PROVE  LET g == page[MyName]
             h == [g EXCEPT !.at = clock, !.cut = cut]
             k == [g EXCEPT !.whole = ~job.skipped, !.at = clock]
         IN  /\ h \in Page /\ h.of = g.of /\ h.text = g.text /\ h.opened = g.opened
             /\ h.cut = cut
             /\ k \in Page /\ k.of = g.of /\ k.text = g.text /\ k.opened = g.opened
             /\ k.whole <=> ~job.skipped
<1> DEFINE g == page[MyName]
<1>1. g \in Page
  <2>1. TypeOK /\ MyName \in Names /\ g # Nothing
    BY JobType DEF Inv, Parsing, Current
  <2> QED
    BY <2>1 DEF TypeOK
<1>2. clock \in 0 .. MaxTime
  BY DEF Inv, TypeOK
<1> HIDE DEF g
<1> DEFINE h == [g EXCEPT !.at = clock, !.cut = cut]
           k == [g EXCEPT !.whole = ~job.skipped, !.at = clock]
<1>3. h \in Page /\ h.of = g.of /\ h.text = g.text /\ h.opened = g.opened /\ h.cut = cut
  BY <1>1, <1>2 DEF Page
<1>4. k \in Page /\ k.of = g.of /\ k.text = g.text /\ k.opened = g.opened
  BY <1>1, <1>2 DEF Page
<1>5. k.whole <=> ~job.skipped
  BY <1>1 DEF Page
<1> QED
  BY <1>3, <1>4, <1>5 DEF g

LEMMA DiesInv ==
  ASSUME Inv, Parsing, NEW cut \in BOOLEAN, Dies(cut), cut \/ Flawed(Mine.file, job.source)
  PROVE  Inv'
<1> DEFINE g == [page[MyName] EXCEPT !.at = clock, !.cut = cut]
<1>1. /\ g \in Page /\ g.of = page[MyName].of /\ g.text = page[MyName].text
      /\ g.opened = page[MyName].opened /\ g.cut = cut
  BY Closed
<1>2. page' = [page EXCEPT ![MyName] = g]
  BY DEF Dies
<1>3. Ends
  BY ReturnsDoc DEF Dies, Ends, Inv, Parsing
<1> HIDE DEF g
<1> QED
  BY <1>1, <1>2, <1>3, EndsInv

LEMMA FinishParsingInv == ASSUME Inv, FinishParsing PROVE Inv'
<1> DEFINE g == [page[MyName] EXCEPT !.whole = ~job.skipped, !.at = clock]
<1>1. Parsing
  BY DEF FinishParsing
<1>2. /\ g \in Page /\ g.of = page[MyName].of /\ g.text = page[MyName].text
      /\ g.opened = page[MyName].opened /\ (g.whole <=> ~job.skipped)
  BY <1>1, Closed
<1>3. page' = [page EXCEPT ![MyName] = g]
  BY DEF FinishParsing
<1>4. Ends
  BY ReturnsDoc DEF FinishParsing, Ends, Inv, Parsing
<1>5. job.skipped => Flawed(Mine.file, job.source)
  <2>1. job.last \/ job.coding = "utf8"
    BY DEF FinishParsing
  <2> QED
    BY <1>1, <2>1, DirectiveFlaw
<1> HIDE DEF g
<1> QED
  BY <1>1, <1>2, <1>3, <1>4, <1>5, EndsInv

LEMMA ItemOutsideInv == ASSUME Inv, ItemOutside PROVE Inv'
BY ItemFlaw, DiesInv, ReadsIs DEF ItemOutside

LEMMA LinkFlaw == ASSUME Inv, LinkDies PROVE Parsing /\ Flawed(Mine.file, job.source)
<1>1. Parsing /\ ~AtEnd /\ TypeOK /\ job.done \in Nat /\ Paragraph = "link"
  BY ReadsIs DEF LinkDies
<1>2. job.done + 1 \in DOMAIN job.source
  <2>1. job.source \in Seq(Paragraphs) /\ job.done + 1 \in 1 .. Len(job.source)
    BY <1>1, NextIs, JobType DEF Inv, Parsing
  <2> QED
    BY <2>1
<1> QED
  BY <1>1, <1>2 DEF Paragraph, Flawed

LEMMA LinkDiesInv == ASSUME Inv, LinkDies PROVE Inv'
BY LinkFlaw, DiesInv DEF LinkDies

\* The second open() fails for the name of the encoding, or for the file.
LEMMA SecondPassFailsFlaw ==
  ASSUME Inv, SecondPassFails
  PROVE  /\ Parsing /\ Directives(job.source) # {}
         /\ Mine.file \in denied \/ Flawed(Mine.file, job.source)
<1>1. Parsing /\ ~job.last /\ job.coding # "utf8" /\ (job.coding = "unknown" \/ Mine.file \in denied)
  BY DEF SecondPassFails
<1>2. Coded(job, Mine.file)
  BY <1>1 DEF Inv, Read
<1>3. job.skipped /\ job.done \in Directives(job.source)
  BY <1>1, <1>2 DEF Coded
<1>4. job.coding = "unknown" => Flawed(Mine.file, job.source)
  BY <1>1, <1>3, DirectiveFlaw
<1> QED
  BY <1>1, <1>3, <1>4

LEMMA SecondPassFailsInv == ASSUME Inv, SecondPassFails PROVE Inv'
<1>1. PICK cut \in BOOLEAN : cut = (Mine.file \in denied)
  <2>1. (Mine.file \in denied) \in BOOLEAN
    OBVIOUS
  <2> QED
    BY <2>1, Zenon
<1>2. Parsing /\ (cut \/ Flawed(Mine.file, job.source))
  BY <1>1, SecondPassFailsFlaw
<1>3. Dies(cut)
  BY <1>1 DEF SecondPassFails
<1> QED
  BY <1>2, <1>3, DiesInv

LEMMA ReadFileInv == ASSUME Inv, NEW d \in Documents, NEW p \in Pods, ReadFile(d, p) PROVE Inv'
<1>1. TypeOK /\ job = Nothing /\ UNCHANGED <<clock, pods, page>>
  BY DEF Inv, ReadFile
<1>2. doc' \in [Documents -> Document]
  <2> DEFINE w == [doc[d] EXCEPT !.file = p, !.needParsing = ~Trusted(p)]
  <2>1. doc \in [Documents -> Document] /\ doc' = [doc EXCEPT ![d] = w]
    BY <1>1 DEF TypeOK, ReadFile
  <2>2. w \in Document
    BY <2>1 DEF Document
  <2> HIDE DEF w
  <2> QED
    BY <2>1, <2>2
<1>3. job' \in Job /\ job'.stage = "display"
  <2>1. <<>> \in Seq(BOOLEAN) /\ 0 \in Nat
    OBVIOUS
  <2> QED
    BY <2>1 DEF ReadFile, Job
<1>4. TypeOK'
  BY <1>1, <1>2, <1>3 DEF TypeOK, pods
<1>5. ~Parsing /\ ~Parsing'
  BY <1>1, <1>3 DEF Parsing
<1>6. ASSUME NEW n \in Names PROVE Kept(n)'
  <2>1. Kept(n) /\ ~Busy(n)
    BY <1>5 DEF Inv, Busy
  <2> QED
    BY <1>1, <2>1 DEF Kept, pods
<1> QED
  BY <1>4, <1>5, <1>6 DEF Inv, Read, Current

\* displayPod comes back without a page of its own, with the spinner still or
\* turning.
LEMMA UndoneInv ==
  ASSUME Inv, job # Nothing, job.stage = "display", NEW spins \in BOOLEAN, Returns(spins),
         UNCHANGED <<clock, pods, page>>
  PROVE  Inv'
<1>1. TypeOK
  BY DEF Inv
<1>2. job' = Nothing /\ doc' \in [Documents -> Document]
  BY <1>1, ReturnsDoc
<1>3. TypeOK'
  BY <1>1, <1>2 DEF TypeOK, pods
<1>4. ~Parsing /\ ~Parsing'
  BY <1>1, <1>2 DEF Parsing
<1>5. ASSUME NEW n \in Names PROVE Kept(n)'
  <2>1. Kept(n) /\ ~Busy(n)
    BY <1>4 DEF Inv, Busy
  <2> QED
    BY <1>1, <2>1 DEF Kept, pods
<1> QED
  BY <1>3, <1>4, <1>5 DEF Inv, Read, Current

LEMMA DisplayPageInv == ASSUME Inv, DisplayPage PROVE Inv'
BY UndoneInv DEF DisplayPage

LEMMA StartFailsInv == ASSUME Inv, StartFails PROVE Inv'
BY UndoneInv DEF StartFails

\* Neither the clock nor another program touches the main thread.
LEMMA ThreadStays ==
  ASSUME Inv, UNCHANGED <<name, page, doc, job>>
  PROVE  /\ Read' /\ Current' /\ (Parsing' <=> Parsing) /\ MyName' = MyName
         /\ \A n \in Names : Busy(n)' <=> Busy(n)
<1>1. Mine' = Mine /\ (Parsing' <=> Parsing)
  BY DEF Mine, Parsing
<1>2. MyName' = MyName
  BY <1>1 DEF MyName
<1>3. Read'
  BY <1>1 DEF Inv, Read
<1>4. Current'
  BY <1>1, <1>2 DEF Inv, Current
<1>5. \A n \in Names : Busy(n)' <=> Busy(n)
  BY <1>1, <1>2 DEF Busy
<1> QED
  BY <1>1, <1>2, <1>3, <1>4, <1>5

LEMMA EditInv == ASSUME Inv, NEW p \in Pods, NEW t \in Texts, Edit(p, t) PROVE Inv'
<1>1. /\ TypeOK /\ text' = [text EXCEPT ![p] = t] /\ written' = [written EXCEPT ![p] = clock]
      /\ UNCHANGED <<clock, name, denied, page, doc, job>>
  BY DEF Inv, Edit
<1>2. TypeOK'
  BY <1>1 DEF TypeOK
<1>3. Read' /\ Current' /\ \A n \in Names : Busy(n)' <=> Busy(n)
  BY <1>1, ThreadStays
<1>4. ASSUME NEW n \in Names PROVE Kept(n)'
  <2>1. Kept(n) /\ (Busy(n)' <=> Busy(n))
    BY <1>3 DEF Inv
  <2>2. SUFFICES ASSUME page[n] # Nothing PROVE Kept(n)'
    BY <1>1 DEF Kept
  <2>3. page[n] \in Page /\ page[n].of \in Pods /\ text \in [Pods -> Texts] /\ written \in [Pods -> 0 .. MaxTime]
    BY <1>1, <2>2 DEF TypeOK, Page
  <2>4. name[page[n].of] = n /\ page[n].opened <= clock
        /\ (written[page[n].of] >= page[n].opened \/ page[n].text = text[page[n].of])
        /\ (Busy(n) \/ page[n].whole \/ page[n].cut \/ Flawed(page[n].of, page[n].text))
    BY <2>1, <2>2 DEF Kept
  <2>5. written'[page[n].of] >= page[n].opened \/ page[n].text = text'[page[n].of]
    <3>1. CASE page[n].of = p
      BY <1>1, <2>3, <2>4, <3>1
    <3>2. CASE page[n].of # p
      BY <1>1, <2>3, <2>4, <3>2
    <3> QED
      BY <3>1, <3>2
  <2> QED
    BY <1>1, <2>1, <2>4, <2>5 DEF Kept
<1> QED
  BY <1>2, <1>3, <1>4 DEF Inv

LEMMA TickInv == ASSUME Inv, Tick PROVE Inv'
<1>1. /\ TypeOK /\ clock < MaxTime /\ clock' = clock + 1
      /\ UNCHANGED <<text, written, name, denied, page, doc, job>>
  BY DEF Inv, Tick, pods
<1>2. clock' \in 0 .. MaxTime /\ clock \in Nat /\ clock' >= clock
  BY <1>1, PodCacheAssumption DEF TypeOK
<1>3. TypeOK'
  BY <1>1, <1>2 DEF TypeOK
<1>4. Read' /\ Current' /\ \A n \in Names : Busy(n)' <=> Busy(n)
  BY <1>1, ThreadStays
<1>5. ASSUME NEW n \in Names PROVE Kept(n)'
  <2>1. Kept(n) /\ (Busy(n)' <=> Busy(n))
    BY <1>4 DEF Inv
  <2>2. SUFFICES ASSUME page[n] # Nothing PROVE Kept(n)'
    BY <1>1 DEF Kept
  <2>3. page[n].opened \in Nat
    <3>1. page[n] \in Page
      BY <1>1, <2>2 DEF TypeOK
    <3> QED
      BY <3>1, PodCacheAssumption DEF Page
  <2>4. page[n].opened <= clock'
    BY <1>2, <1>1, <2>1, <2>2, <2>3 DEF Kept
  <2> QED
    BY <1>1, <2>1, <2>2, <2>4 DEF Kept
<1> QED
  BY <1>3, <1>4, <1>5 DEF Inv

LEMMA ClearInv == ASSUME Inv, ClearHTMLCache PROVE Inv'
<1>1. TypeOK /\ job = Nothing /\ page' = [n \in Names |-> Nothing] /\ UNCHANGED <<clock, pods, doc, job>>
  BY DEF Inv, ClearHTMLCache
<1>2. TypeOK'
  BY <1>1 DEF TypeOK, pods
<1>3. ~Parsing'
  BY <1>1 DEF Parsing
<1>4. \A n \in Names : Kept(n)'
  BY <1>1 DEF Kept
<1> QED
  BY <1>2, <1>3, <1>4 DEF Inv, Read, Current

LEMMA DenyInv == ASSUME Inv, NEW s \in Denials, Deny(s) PROVE Inv'
<1>1. denied' = s /\ UNCHANGED <<clock, text, written, name, page, doc, job>>
  BY DEF Deny
<1>2. Read' /\ Current' /\ \A n \in Names : Busy(n)' <=> Busy(n)
  BY <1>1, ThreadStays
<1>3. TypeOK'
  BY <1>1 DEF Inv, TypeOK
<1>4. \A n \in Names : Kept(n)'
  BY <1>1, <1>2 DEF Inv, Kept
<1> QED
  BY <1>2, <1>3, <1>4 DEF Inv

LEMMA StutterInv == ASSUME Inv, UNCHANGED vars PROVE Inv'
<1>1. UNCHANGED <<clock, text, written, name, denied, page, doc, job>>
  BY DEF vars
<1>2. Read' /\ Current' /\ \A n \in Names : Busy(n)' <=> Busy(n)
  BY <1>1, ThreadStays
<1>3. TypeOK'
  BY <1>1 DEF Inv, TypeOK
<1>4. \A n \in Names : Kept(n)'
  BY <1>1, <1>2 DEF Inv, Kept
<1> QED
  BY <1>2, <1>3, <1>4 DEF Inv

LEMMA InvInit == Init => Inv
<1> SUFFICES ASSUME Init PROVE Inv
  OBVIOUS
<1>1. TypeOK
  <2>1. clock \in 0 .. MaxTime /\ 0 \in 0 .. MaxTime
    BY PodCacheAssumption DEF Init
  <2>2. doc \in [Documents -> Document]
    <3> DEFINE D == {[file |-> p, needParsing |-> FALSE, spins |-> FALSE] : p \in Pods}
    <3>1. \A p \in Pods : [file |-> p, needParsing |-> FALSE, spins |-> FALSE] \in Document
      BY DEF Document
    <3>2. \A d \in D : d \in Document
      BY <3>1
    <3>3. doc \in [Documents -> D]
      BY DEF Init
    <3> HIDE DEF D
    <3> QED
      BY <3>2, <3>3
  <2>3. name \in [Pods -> Names]
    BY PodCacheAssumption DEF Init
  <2> QED
    BY <2>1, <2>2, <2>3 DEF Init, TypeOK
<1>2. ~Parsing
  BY DEF Init, Parsing
<1>3. \A n \in Names : Kept(n)
  BY DEF Init, Kept
<1> QED
  BY <1>1, <1>2, <1>3 DEF Inv, Read, Current

LEMMA InvStep == Inv /\ [Next]_vars => Inv'
<1> SUFFICES ASSUME Inv, [Next]_vars PROVE Inv'
  OBVIOUS
<1>1. CASE UNCHANGED vars
  BY <1>1, StutterInv
<1>2. CASE Main
  <2>1. CASE DisplayPage
    BY <2>1, DisplayPageInv
  <2>2. CASE StartParsing
    BY <2>2, StartParsingInv
  <2>3. CASE SecondPass
    BY <2>3, SecondPassInv
  <2>4. CASE SecondPassFails
    BY <2>4, SecondPassFailsInv
  <2>5. CASE FinishParsing
    BY <2>5, FinishParsingInv
  <2>6. CASE Parser
    BY <2>6, PlainInv, BeginEndInv, OverInv, ItemInv, ItemOutsideInv, LinkDiesInv, BackInv,
       EncodingInv DEF Parser
  <2>7. CASE StartFails
    BY <2>7, StartFailsInv
  <2> QED
    BY <1>2, <2>1, <2>2, <2>3, <2>4, <2>5, <2>6, <2>7 DEF Main
<1>3. ASSUME NEW d \in Documents, NEW p \in Pods, ReadFile(d, p) PROVE Inv'
  BY <1>3, ReadFileInv
<1>4. ASSUME NEW p \in Pods, NEW t \in Texts, Edit(p, t) PROVE Inv'
  BY <1>4, EditInv
<1>5. CASE Tick
  BY <1>5, TickInv
<1>6. CASE ClearHTMLCache
  BY <1>6, ClearInv
<1>7. ASSUME NEW s \in Denials, Deny(s) PROVE Inv'
  BY <1>7, DenyInv
<1> QED
  BY <1>1, <1>2, <1>3, <1>4, <1>5, <1>6, <1>7 DEF Next

LEMMA InvHolds == Spec => []Inv
<1> QED
  BY InvInit, InvStep, PTL DEF Spec
----------------------------------------------------------------------------
(* Theorems                                                                 *)

\* The job, the windows and the pages are what they should be; in particular
\* the parser closes no list that it has not opened: open never gets below 0.
THEOREM PodCacheType == Spec => []TypeOK
<1>1. Inv => TypeOK
  BY DEF Inv
<1> QED
  BY <1>1, InvHolds, PTL

\* ShuXParser.pm's list_types: whichever =over, =item and =back a POD has, in
\* any order and in blocks, the HTML lists that are open in the page are those
\* of the =over paragraphs that are not closed and have had an item.
THEOREM ListsAreTheTexts == Spec => []TagsMatch
<1>1. Inv => TagsMatch
  BY DEF Inv, Read, TagsMatch
<1> QED
  BY <1>1, InvHolds, PTL

\* readFromFile:ofType: trusts a page by its time of modification.  Whatever
\* the PODs are, whoever writes them and when, the page is whole and current,
\* but for the reasons that TrustedIsKnown names.
THEOREM TrustIsFounded == Spec => []TrustedIsKnown
<1>1. ASSUME Inv PROVE TrustedIsKnown
  <2>1. SUFFICES ASSUME NEW p \in Pods, Trusted(p), ~Busy(name[p])
                 PROVE  LET n == name[p] IN
                        \/ page[n].of # p /\ name[page[n].of] = n
                        \/ Flawed(p, page[n].text) \/ page[n].cut
                        \/ written[p] \in page[n].opened .. page[n].at
                        \/ page[n].whole /\ page[n].text = text[p]
    BY DEF TrustedIsKnown
  <2> DEFINE n == name[p]
  <2>2. n \in Names /\ page[n] # Nothing /\ page[n].at >= written[p] /\ TypeOK /\ Kept(n)
    BY <1>1, <2>1 DEF Inv, TypeOK, Trusted
  <2>3. page[n] \in Page /\ written[p] \in 0 .. MaxTime
    BY <2>2 DEF TypeOK
  <2>4. page[n].opened \in Nat /\ page[n].at \in Nat /\ written[p] \in Nat
    BY <2>3, PodCacheAssumption DEF Page
  <2>5. /\ name[page[n].of] = n
        /\ written[page[n].of] >= page[n].opened \/ page[n].text = text[page[n].of]
        /\ page[n].whole \/ page[n].cut \/ Flawed(page[n].of, page[n].text)
    BY <2>1, <2>2 DEF Kept
  <2> HIDE DEF n
  <2>6. CASE page[n].of # p
    BY <2>5, <2>6 DEF n
  <2>7. CASE page[n].of = p
    <3>1. written[p] >= page[n].opened => written[p] \in page[n].opened .. page[n].at
      BY <2>2, <2>4
    <3> QED
      BY <2>5, <2>7, <3>1 DEF n
  <2> QED
    BY <2>6, <2>7
<1> QED
  BY <1>1, InvHolds, PTL

\* displayPod's spinner turns on when parseFile or the parser has died.
\* Whatever the PODs are, who writes them and which files come to be out of
\* reach, it dies before it has begun with a page only if a file is out of reach
\* there and then, and leaves the page as it was; later it dies only of a flaw
\* of the POD, or when it opens a POD for the second time that is out of reach.
THEOREM DeathsHaveCauses == Spec => DeathsAreKnown
<1> DEFINE Cause == IF Parsing
                    THEN \/ Flawed(Mine.file, job.source)
                         \/ Mine.file \in denied /\ Directives(job.source) # {}
                    ELSE {Mine.file, MyName} \cap denied # {} /\ page' = page
<1>1. ASSUME Inv, Next, job # Nothing, job' = Nothing, doc'[job.doc].spins
      PROVE  Cause
  <2>1. TypeOK
    BY <1>1 DEF Inv
  <2>2. \A spins \in BOOLEAN : Returns(spins) => spins
    BY <1>1, <2>1, ReturnsDoc
  <2>3. ~DisplayPage /\ ~FinishParsing
    BY <2>2 DEF DisplayPage, FinishParsing
  <2>4. /\ ~Tick /\ ~ClearHTMLCache /\ \A p \in Pods, t \in Texts : ~Edit(p, t)
        /\ \A s \in Denials : ~Deny(s)
    BY <1>1 DEF Tick, ClearHTMLCache, Edit, Deny
  <2>5. \A d \in Documents, p \in Pods : ~ReadFile(d, p)
    BY <1>1 DEF ReadFile
  <2>6. ~StartParsing /\ ~SecondPass /\ ~Plain /\ ~BeginEnd /\ ~Over /\ ~Item /\ ~Back /\ ~Encoding
    BY <1>1, StartParsingInv, SecondPassInv, PlainInv, BeginEndInv, OverInv, ItemInv, BackInv, EncodingInv
  <2>7. StartFails \/ SecondPassFails \/ ItemOutside \/ LinkDies
    BY <1>1, <2>3, <2>4, <2>5, <2>6 DEF Next, Main, Parser
  <2>8. CASE StartFails
    <3>1. ~Parsing /\ {Mine.file, MyName} \cap denied # {} /\ page' = page
      BY <2>8 DEF StartFails, Parsing
    <3> QED
      BY <3>1
  <2>9. CASE SecondPassFails
    BY <1>1, <2>9, SecondPassFailsFlaw
  <2>10. CASE ItemOutside
    <3>1. Parsing /\ Flawed(Mine.file, job.source)
      BY <1>1, <2>10, ItemFlaw DEF ItemOutside, Reads
    <3> QED
      BY <3>1
  <2>11. CASE LinkDies
    BY <1>1, <2>11, LinkFlaw
  <2> QED
    BY <2>7, <2>8, <2>9, <2>10, <2>11
<1>2. Inv /\ [Next]_vars => [job # Nothing /\ job' = Nothing /\ doc'[job.doc].spins => Cause]_vars
  BY <1>1
<1> QED
  BY <1>2, InvHolds, PTL DEF Spec, DeathsAreKnown
=============================================================================
