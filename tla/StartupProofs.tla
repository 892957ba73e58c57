--------------------------- MODULE StartupProofs ---------------------------
(***************************************************************************)
(* There is one interpreter and one shared object, and no class is left    *)
(* without its @ISA, for any classes, bundles and number of objects.       *)
(***************************************************************************)
EXTENDS Startup, SequenceTheorems, TLAPS

(***************************************************************************)
(* What the steps do to the stack.                                         *)
(***************************************************************************)
LEMMA Tops ==
  ASSUME stack \in Seq(Activation), stack # <<>>
  PROVE  /\ Len(stack) \in Nat /\ Len(stack) > 0
         /\ Top = stack[Len(stack)] /\ Top \in Activation
BY DEF Top, Last

LEMMA Called ==
  ASSUME NEW f \in Activation, stack \in Seq(Activation), Calls(f)
  PROVE  /\ stack' \in Seq(Activation) /\ Len(stack') = Len(stack) + 1
         /\ \A i \in 1 .. Len(stack) : stack'[i] = stack[i]
         /\ stack'[Len(stack) + 1] = f
BY DEF Calls

LEMMA Fronts ==
  ASSUME stack \in Seq(Activation), stack # <<>>
  PROVE  /\ Front(stack) \in Seq(Activation) /\ Len(Front(stack)) = Len(stack) - 1
         /\ \A i \in 1 .. Len(stack) - 1 : Front(stack)[i] = stack[i]
<1>1. Len(stack) \in Nat /\ Len(stack) > 0
  OBVIOUS
<1>2. \A i \in 1 .. Len(stack) - 1 : stack[i] \in Activation
  BY <1>1
<1> DEFINE n == Len(stack) - 1
<1>3. n \in Nat /\ n <= Len(stack) /\ \A i \in 1 .. n : stack[i] \in Activation
  BY <1>1, <1>2
<1>4. Front(stack) = SubSeq(stack, 1, n)
  BY DEF Front
<1> HIDE DEF n
<1>5. SubSeq(stack, 1, n) = [i \in 1 .. n |-> stack[i]]
  BY <1>3
<1>6. /\ Front(stack) \in Seq(Activation) /\ Len(Front(stack)) = n
      /\ \A i \in 1 .. n : Front(stack)[i] = stack[i]
  BY <1>3, <1>4, <1>5
<1> QED
  BY <1>6 DEF n

LEMMA Returned ==
  ASSUME stack \in Seq(Activation), stack # <<>>, Returns
  PROVE  /\ stack' \in Seq(Activation) /\ Len(stack') = Len(stack) - 1
         /\ \A i \in 1 .. Len(stack) - 1 : stack'[i] = stack[i]
BY Fronts DEF Returns

LEMMA Became ==
  ASSUME NEW f \in Activation, stack \in Seq(Activation), stack # <<>>, Becomes(f)
  PROVE  /\ stack' \in Seq(Activation) /\ Len(stack') = Len(stack)
         /\ \A i \in 1 .. Len(stack) - 1 : stack'[i] = stack[i]
         /\ stack'[Len(stack)] = f
<1> DEFINE b == Front(stack)
<1>1. /\ b \in Seq(Activation) /\ Len(b) = Len(stack) - 1 /\ Len(stack) \in Nat
      /\ \A i \in 1 .. Len(stack) - 1 : b[i] = stack[i]
  BY Fronts
<1>2. stack' = Append(b, f)
  BY DEF Becomes
<1> HIDE DEF b
<1> QED
  BY <1>1, <1>2

LEMMA Began ==
  ASSUME NEW f \in Activation, NEW g \in Activation, stack \in Seq(Activation),
         stack # <<>>, stack' = Append(Append(Front(stack), f), g)
  PROVE  /\ stack' \in Seq(Activation) /\ Len(stack') = Len(stack) + 1
         /\ \A i \in 1 .. Len(stack) - 1 : stack'[i] = stack[i]
         /\ stack'[Len(stack)] = f /\ stack'[Len(stack) + 1] = g
<1> DEFINE b == Front(stack)
<1> DEFINE t == Append(b, f)
<1>1. /\ b \in Seq(Activation) /\ Len(b) = Len(stack) - 1 /\ Len(stack) \in Nat
      /\ \A i \in 1 .. Len(stack) - 1 : b[i] = stack[i]
  BY Fronts
<1> HIDE DEF b
<1>2. /\ t \in Seq(Activation) /\ Len(t) = Len(stack)
      /\ \A i \in 1 .. Len(stack) - 1 : t[i] = stack[i]
      /\ t[Len(stack)] = f
  BY <1>1
<1>3. stack' = Append(t, g)
  BY DEF b
<1> HIDE DEF t
<1> QED
  BY <1>1, <1>2, <1>3

LEMMA Frames ==
  ASSUME NEW kind \in {"native", "perl", "init", "initXS", "bundleDidLoad"},
         NEW self \in 0 .. MaxObjects, NEW at \in Steps
  PROVE  /\ Frame(kind, self, at) \in Activation
         /\ Frame(kind, self, at).kind = kind /\ Frame(kind, self, at).self = self
         /\ Frame(kind, self, at).at = at
BY DEF Frame, Activation

LEMMA Notices ==
  ASSUME NEW new \in SUBSET Bundled, NEW to \in SUBSET (1 .. MaxObjects)
  PROVE  /\ Notice(new, to) \in Activation
         /\ Notice(new, to).kind = "bundleDidLoad" /\ Notice(new, to).at = "-"
<1>1. 0 \in 0 .. MaxObjects
  BY StartupAssumption
<1> QED
  BY <1>1 DEF Notice, Activation, Steps
----------------------------------------------------------------------------
(***************************************************************************)
(* The invariant.  A native program's init is called from its outermost    *)
(* activation and only Perl code that perl_parse runs comes above it;      *)
(* initXS calls nothing, so nobody comes above it.  While no object is     *)
(* shared although there is an interpreter, init is on the stack, and this *)
(* keeps native code from calling sharedPerl again.                        *)
(***************************************************************************)
Later == {"eval", "wrap", "observe", "handler"}
Starts == {"init", "initXS"}
NoParents == \A c \in Registered : isa[c] # "all"

Types ==
  /\ made \in 0 .. MaxObjects /\ shared \in 0 .. made
  /\ running \in {0, 1} /\ interp \in {0, running}
  /\ loaded \subseteq Classes /\ isa \in [Classes -> {"nothing", "super", "all"}]
  /\ observers \subseteq 1 .. MaxObjects
  /\ failed \subseteq Bundled \cup {"start"}
Flags == handler \in BOOLEAN /\ used \in BOOLEAN

\* The activation at i may be where it is.
Placed(i) ==
  /\ stack[i].kind = "native" => i = 1
  /\ stack[i].kind = "init" => i = 2
  /\ stack[i].kind = "initXS" => i = Len(stack) /\ stack[i].at # "parse"
  /\ stack[i].kind = "init" /\ i < Len(stack) => stack[i].at = "share"

\* It may be there now.
Due(i) ==
  /\ stack[i].kind \in Starts => stack[i].self \in 1 .. made
  /\ stack[i].at \in Later => shared # 0
  /\ stack[i].kind = "initXS" /\ stack[i].at = "share" => shared = 0
  /\ stack[i].kind = "init" /\ stack[i].at \in {"parse", "share"} /\ shared # 0
       => stack[i].self < shared
  /\ stack[i].kind \in {"perl", "initXS"} => running = 1
  /\ stack[i].kind = "init" => interp # 0

\* initXS is of a later object than init.
Younger ==
  \A i, j \in DOMAIN stack :
    stack[i].kind = "init" /\ stack[j].kind = "initXS" => stack[i].self < stack[j].self

\* A native program that has not called sharedPerl.
Untouched ==
  interp = 0 /\ stack # <<>> /\ stack[1].kind = "native" =>
    Len(stack) = 1 /\ running = 0 /\ made = 0 /\ used = FALSE /\ observers = {}
Pending ==
  /\ interp # 0 /\ shared = 0 => Len(stack) >= 2 /\ stack[2].kind = "init"
  /\ interp = 0 => shared = 0

\* No class has parents of Perl's before they can be lost.
Parents ==
  /\ used = FALSE => NoParents
  /\ \A i \in DOMAIN stack : stack[i].kind = "initXS" => NoParents
  /\ \A i \in DOMAIN stack : stack[i].kind = "init" /\ made <= 1 => used = FALSE

\* Somebody is still at it, or has failed.
Working ==
  shared # 0 /\ handler = FALSE =>
    "start" \in failed \/ \E i \in DOMAIN stack : stack[i].kind \in Starts

Inv ==
  /\ Types /\ Flags /\ stack \in Seq(Activation)
  /\ \A i \in DOMAIN stack : Placed(i) /\ Due(i)
  /\ Younger /\ Untouched /\ Pending /\ Parents /\ Working

LEMMA InitInv ==
  ASSUME Init
  PROVE  Inv
<1>0. /\ shared = 0 /\ made = 0 /\ interp = 0 /\ loaded = Linked
      /\ isa = [c \in Classes |-> "nothing"] /\ observers = {}
      /\ handler = FALSE /\ used = FALSE /\ failed = {}
  BY DEF Init
<1>1. PICK k \in {"native", "perl"} :
        stack = <<Code(k)>> /\ running = (IF k = "native" THEN 0 ELSE 1)
  BY DEF Init
<1>2. MaxObjects \in Nat
  BY StartupAssumption
<1>3. Code(k) \in Activation /\ Code(k).kind = k /\ Code(k).at = "-"
  BY <1>2, Frames DEF Code, Steps
<1>4. stack \in Seq(Activation) /\ Len(stack) = 1 /\ DOMAIN stack = {1} /\ stack[1] = Code(k)
  BY <1>1, <1>3
<1>5. Types
  <2>1. /\ loaded \subseteq Classes /\ isa \in [Classes -> {"nothing", "super", "all"}]
        /\ observers \subseteq 1 .. MaxObjects /\ failed \subseteq Bundled \cup {"start"}
    BY <1>0 DEF Classes
  <2>2. /\ made \in 0 .. MaxObjects /\ shared \in 0 .. made
        /\ running \in {0, 1} /\ interp \in {0, running}
    BY <1>0, <1>1, <1>2
  <2> QED
    BY <2>1, <2>2 DEF Types
<1>f. Flags
  BY <1>0, Zenon DEF Flags
<1>6. NoParents
  BY <1>0 DEF NoParents, Classes
<1>7. Placed(1) /\ Due(1)
  BY <1>0, <1>1, <1>3, <1>4 DEF Placed, Due, Starts, Later
<1>8. Younger /\ Untouched /\ Pending /\ Working
  BY <1>0, <1>1, <1>3, <1>4 DEF Younger, Untouched, Pending, Working, Starts
<1>9. Parents
  BY <1>0, <1>1, <1>3, <1>4, <1>6 DEF Parents
<1> QED
  BY <1>4, <1>5, <1>f, <1>7, <1>8, <1>9 DEF Inv

\* What the actions see of the top.
LEMMA TopFacts ==
  ASSUME Inv, stack # <<>>
  PROVE  /\ Len(stack) \in Nat /\ Len(stack) > 0 /\ DOMAIN stack = 1 .. Len(stack)
         /\ Top = stack[Len(stack)] /\ Top \in Activation
         /\ \A i \in 1 .. Len(stack) : stack[i] \in Activation
         /\ Placed(Len(stack)) /\ Due(Len(stack))
<1>1. stack \in Seq(Activation)
  BY DEF Inv
<1>2. Len(stack) \in Nat /\ Len(stack) > 0 /\ DOMAIN stack = 1 .. Len(stack)
  BY <1>1
<1> QED
  BY <1>1, <1>2, Tops DEF Inv

\* An activation returns.
LEMMA PopStep ==
  ASSUME Inv, stack # <<>>, Returns, Types', Flags',
         shared' = shared, made' = made, interp' = interp, running' = running,
         used' = used, observers' = observers, NoParents => NoParents',
         Top.kind = "init" => shared # 0, failed \subseteq failed',
         \/ Top.kind \notin Starts /\ handler' = handler
         \/ handler' = TRUE
  PROVE  Inv'
<1> DEFINE n == Len(stack)
<1>1. /\ n \in Nat /\ n > 0 /\ DOMAIN stack = 1 .. n /\ Top = stack[n]
      /\ stack \in Seq(Activation)
  BY TopFacts DEF Inv
<1>2. /\ stack' \in Seq(Activation) /\ Len(stack') = n - 1
      /\ \A i \in 1 .. n - 1 : stack'[i] = stack[i]
  BY <1>1, Returned
<1>3. DOMAIN stack' = 1 .. n - 1
  BY <1>1, <1>2
<1>4. ASSUME NEW i \in DOMAIN stack
      PROVE  Placed(i) /\ Due(i)
  BY DEF Inv
<1> HIDE DEF n
<1>5. ASSUME NEW i \in DOMAIN stack'
      PROVE  Placed(i)' /\ Due(i)'
  <2>1. i \in 1 .. n - 1 /\ i \in 1 .. n /\ stack'[i] = stack[i] /\ Placed(i) /\ Due(i)
    BY <1>1, <1>2, <1>3, <1>4
  <2>2. Due(i)'
    BY <2>1 DEF Due
  <2>3. stack[i].kind # "initXS"
    BY <1>1, <2>1 DEF Placed, n
  <2>4. Placed(i)'
    BY <1>1, <2>1, <2>3 DEF Placed, n
  <2> QED
    BY <2>2, <2>4
<1>6. Younger'
  <2>1. Younger
    BY DEF Inv
  <2>2. DOMAIN stack' \subseteq DOMAIN stack /\ \A i \in DOMAIN stack' : stack'[i] = stack[i]
    BY <1>1, <1>2, <1>3
  <2> QED
    BY <2>1, <2>2 DEF Younger
<1>7. Pending'
  <2>1. Pending /\ Placed(n) /\ Due(n)
    BY TopFacts DEF Inv, n
  <2>2. CASE interp # 0 /\ shared = 0
    <3>1. n >= 2 /\ stack[2].kind = "init" /\ stack[n].kind # "init"
      BY <1>1, <2>1, <2>2 DEF Pending, n
    <3>2. n > 2
      BY <1>1, <3>1
    <3>3. stack'[2] = stack[2] /\ Len(stack') >= 2
      BY <1>1, <1>2, <3>2
    <3> QED
      BY <2>2, <3>1, <3>3 DEF Pending
  <2> QED
    BY <2>1, <2>2 DEF Pending
<1>8. Untouched'
  <2>1. Untouched
    BY DEF Inv
  <2>2. CASE n = 1
    BY <1>2, <2>2 DEF Untouched
  <2>3. CASE n > 1
    <3>1. stack'[1] = stack[1] /\ stack # <<>> /\ Len(stack) # 1
      BY <1>1, <1>2, <2>3 DEF n
    <3> QED
      BY <2>1, <3>1 DEF Untouched
  <2> QED
    BY <1>1, <2>2, <2>3
<1>9. Parents'
  <2>1. Parents
    BY DEF Inv
  <2>2. DOMAIN stack' \subseteq DOMAIN stack /\ \A i \in DOMAIN stack' : stack'[i] = stack[i]
    BY <1>1, <1>2, <1>3
  <2> QED
    BY <2>1, <2>2 DEF Parents
<1>10. Working'
  <2>1. CASE shared # 0 /\ handler' = FALSE
    <3>1. Top.kind \notin Starts /\ handler = FALSE
      BY <2>1
    <3>2. "start" \in failed \/ \E i \in DOMAIN stack : stack[i].kind \in Starts
      BY <2>1, <3>1 DEF Inv, Working
    <3>3. ASSUME NEW i \in DOMAIN stack, stack[i].kind \in Starts
          PROVE  i \in DOMAIN stack' /\ stack'[i].kind \in Starts
      <4>1. i # n /\ i \in 1 .. n
        BY <1>1, <3>1, <3>3
      <4> QED
        BY <1>1, <1>2, <1>3, <3>3, <4>1
    <3> QED
      BY <3>2, <3>3 DEF Working
  <2> QED
    BY <2>1 DEF Working
<1> QED
  BY <1>2, <1>5, <1>6, <1>7, <1>8, <1>9, <1>10 DEF Inv

\* An activation goes on to its next step f, or to the next observer.
LEMMA BecomeStep ==
  ASSUME Inv, stack # <<>>, NEW f \in Activation, Becomes(f), Types', Flags',
         shared' = shared, made' = made, interp' = interp, running' = running,
         used' = used, handler' = handler, NoParents => NoParents',
         f.kind = Top.kind, f.kind \in Starts => f.self = Top.self,
         f.kind \notin {"native", "perl"}, f.at # "parse",
         f.at \in Later => shared # 0,
         f.at = "share" => f.kind = "init" /\ Top.at = "parse",
         shared # 0 \/ observers' = observers, failed \subseteq failed'
  PROVE  Inv'
<1> DEFINE n == Len(stack)
<1>1. /\ n \in Nat /\ n > 0 /\ DOMAIN stack = 1 .. n /\ Top = stack[n]
      /\ stack \in Seq(Activation) /\ Placed(n) /\ Due(n)
  BY TopFacts DEF Inv
<1>2. /\ stack' \in Seq(Activation) /\ Len(stack') = n
      /\ \A i \in 1 .. n - 1 : stack'[i] = stack[i]
      /\ stack'[n] = f
  BY <1>1, Became
<1>3. DOMAIN stack' = 1 .. n
  BY <1>1, <1>2
<1>4. ASSUME NEW i \in DOMAIN stack
      PROVE  Placed(i) /\ Due(i)
  BY DEF Inv
<1>n. n = Len(stack)
  OBVIOUS
<1> HIDE DEF n
<1>k. ASSUME NEW i \in 1 .. n
      PROVE  /\ stack'[i].kind = stack[i].kind
             /\ stack[i].kind \in Starts => stack'[i].self = stack[i].self
  <2>1. CASE i = n
    BY <1>1, <1>2, <2>1
  <2>2. CASE i # n
    BY <1>1, <1>2, <2>2
  <2> QED
    BY <2>1, <2>2
<1>5. ASSUME NEW i \in DOMAIN stack'
      PROVE  Placed(i)' /\ Due(i)'
  <2>1. CASE i = n
    <3>1. Placed(i)'
      BY <1>1, <1>2, <1>n, <2>1 DEF Placed
    <3>2. Due(i)'
      BY <1>1, <1>2, <2>1 DEF Due, Starts
    <3> QED
      BY <3>1, <3>2
  <2>2. CASE i # n
    <3>1. i \in 1 .. n - 1 /\ i \in 1 .. n /\ stack'[i] = stack[i] /\ Placed(i) /\ Due(i)
      BY <1>1, <1>2, <1>3, <1>4, <2>2
    <3> QED
      BY <1>2, <1>n, <3>1 DEF Placed, Due
  <2> QED
    BY <2>1, <2>2
<1>6. Younger'
  <2>1. Younger
    BY DEF Inv
  <2> QED
    BY <1>1, <1>3, <1>k, <2>1 DEF Younger, Starts
<1>7. Pending'
  <2>1. Pending
    BY DEF Inv
  <2>2. CASE interp # 0 /\ shared = 0
    <3>1. n >= 2 /\ stack[2].kind = "init"
      BY <1>n, <2>1, <2>2 DEF Pending
    <3>2. stack'[2].kind = "init"
      BY <1>1, <1>k, <3>1
    <3> QED
      BY <1>2, <2>2, <3>1, <3>2 DEF Pending
  <2> QED
    BY <2>1, <2>2 DEF Pending
<1>8. Untouched'
  <2>1. Untouched /\ (interp = 0 => shared = 0)
    BY DEF Inv, Pending
  <2>2. stack'[1].kind = stack[1].kind
    BY <1>1, <1>k
  <2> QED
    BY <1>1, <1>2, <1>n, <2>1, <2>2 DEF Untouched
<1>9. Parents'
  <2>1. Parents
    BY DEF Inv
  <2> QED
    BY <1>1, <1>3, <1>k, <2>1 DEF Parents
<1>10. Working'
  <2>1. Working
    BY DEF Inv
  <2> QED
    BY <1>1, <1>3, <1>k, <2>1 DEF Working
<1> QED
  BY <1>2, <1>5, <1>6, <1>7, <1>8, <1>9, <1>10 DEF Inv

\* Perl or native code calls Perl code, or loads a bundle.
LEMMA PushStep ==
  ASSUME Inv, stack # <<>>, NEW f \in Activation, Calls(f), Types', Flags',
         shared' = shared, made' = made, interp' = interp, running' = running,
         used' = used, handler' = handler, observers' = observers, failed' = failed,
         isa' = isa, Top.kind \in {"native", "perl"},
         f.kind \in {"perl", "bundleDidLoad"}, f.at = "-",
         f.kind = "perl" => running = 1,
         interp # 0 \/ stack[1].kind # "native"
  PROVE  Inv'
<1> DEFINE n == Len(stack)
<1>1. /\ n \in Nat /\ n > 0 /\ DOMAIN stack = 1 .. n /\ Top = stack[n]
      /\ stack \in Seq(Activation)
  BY TopFacts DEF Inv
<1>2. /\ stack' \in Seq(Activation) /\ Len(stack') = n + 1
      /\ \A i \in 1 .. n : stack'[i] = stack[i]
      /\ stack'[n + 1] = f
  BY <1>1, Called
<1>3. DOMAIN stack' = 1 .. n + 1
  BY <1>1, <1>2
<1>4. ASSUME NEW i \in DOMAIN stack
      PROVE  Placed(i) /\ Due(i)
  BY DEF Inv
<1>n. n = Len(stack)
  OBVIOUS
<1> HIDE DEF n
<1>5. ASSUME NEW i \in DOMAIN stack'
      PROVE  Placed(i)' /\ Due(i)'
  <2>1. CASE i = n + 1
    BY <1>1, <1>2, <2>1 DEF Placed, Due, Starts, Later
  <2>2. CASE i # n + 1
    <3>1. i \in 1 .. n /\ stack'[i] = stack[i] /\ Placed(i) /\ Due(i)
      BY <1>1, <1>2, <1>3, <1>4, <2>2
    <3>2. i = n => stack[i].kind \in {"native", "perl"}
      BY <1>1
    <3>3. Due(i)'
      BY <3>1 DEF Due
    <3>4. Placed(i)'
      BY <1>1, <1>2, <1>n, <3>1, <3>2 DEF Placed
    <3> QED
      BY <3>3, <3>4
  <2> QED
    BY <2>1, <2>2
<1>s. \A i \in DOMAIN stack' : stack'[i].kind \in Starts => i \in DOMAIN stack /\ stack'[i] = stack[i]
  BY <1>1, <1>2, <1>3 DEF Starts
<1>6. Younger'
  <2>1. Younger
    BY DEF Inv
  <2> QED
    BY <1>s, <2>1 DEF Younger, Starts
<1>7. Pending'
  <2>1. Pending
    BY DEF Inv
  <2>2. CASE interp # 0 /\ shared = 0
    <3>1. n >= 2 /\ stack[2].kind = "init"
      BY <1>n, <2>1, <2>2 DEF Pending
    <3>2. stack'[2].kind = "init" /\ Len(stack') >= 2
      BY <1>1, <1>2, <3>1
    <3> QED
      BY <2>2, <3>2 DEF Pending
  <2> QED
    BY <2>1, <2>2 DEF Pending
<1>8. Untouched'
  <2>1. stack'[1] = stack[1]
    BY <1>1, <1>2
  <2> QED
    BY <2>1 DEF Untouched
<1>9. Parents'
  <2>1. Parents /\ (NoParents => NoParents')
    BY DEF Inv, NoParents
  <2> QED
    BY <1>s, <2>1 DEF Parents, Starts
<1>10. Working'
  <2>1. Working
    BY DEF Inv
  <2> QED
    BY <1>1, <1>2, <1>3, <2>1 DEF Working
<1> QED
  BY <1>2, <1>5, <1>6, <1>7, <1>8, <1>9, <1>10 DEF Inv

\* Nobody calls or returns; nothing happens, or something does to the classes.
LEMMA SameStep ==
  ASSUME Inv, stack' = stack, Types', Flags',
         shared' = shared, made' = made, interp' = interp, running' = running,
         handler' = handler, observers' = observers, failed' = failed,
         used' = FALSE => used = FALSE,
         \/ isa' = isa
         \/ used # FALSE /\ stack # <<>> /\ Top.kind # "initXS",
         \/ used' = used
         \/ interp # 0 /\ made > 1
         \/ interp # 0 /\ \A i \in DOMAIN stack : stack[i].kind # "init"
  PROVE  Inv'
<1>1. stack' \in Seq(Activation)
  BY DEF Inv
<1>2. ASSUME NEW i \in DOMAIN stack'
      PROVE  Placed(i)' /\ Due(i)'
  BY DEF Inv, Placed, Due
<1>3. Younger' /\ Pending' /\ Working'
  <2>1. Younger /\ Pending /\ Working
    BY DEF Inv
  <2> QED
    BY <2>1 DEF Younger, Pending, Working
<1>4. Untouched'
  <2>1. Untouched
    BY DEF Inv
  <2> QED
    BY <2>1 DEF Untouched
<1>5. Parents'
  <2>1. Parents /\ made \in Int
    BY DEF Inv, Types
  <2>2. CASE isa' = isa
    <3>1. NoParents => NoParents'
      BY <2>2 DEF NoParents
    <3> QED
      BY <2>1, <3>1 DEF Parents
  <2>3. CASE used # FALSE /\ stack # <<>> /\ Top.kind # "initXS"
    <3>1. \A i \in DOMAIN stack : stack[i].kind # "initXS"
      <4>1. \A i \in DOMAIN stack : stack[i].kind = "initXS" => i = Len(stack)
        BY DEF Inv, Placed
      <4>2. Top = stack[Len(stack)]
        BY <2>3, TopFacts
      <4> QED
        BY <2>3, <4>1, <4>2
    <3> QED
      BY <2>1, <2>3, <3>1 DEF Parents
  <2> QED
    BY <2>2, <2>3
<1> QED
  BY <1>1, <1>2, <1>3, <1>4, <1>5 DEF Inv
----------------------------------------------------------------------------
(* The steps.                                                               *)

LEMMA TypeNext ==
  ASSUME Types,
         made' \in 0 .. MaxObjects, shared' \in 0 .. made', running' \in {0, 1},
         interp' \in {0, running'}, loaded' \subseteq Classes,
         isa' \in [Classes -> {"nothing", "super", "all"}],
         observers' \subseteq 1 .. MaxObjects, failed' \subseteq Bundled \cup {"start"}
  PROVE  Types'
BY DEF Types

LEMMA TypeParts ==
  ASSUME Types
  PROVE  /\ made \in 0 .. MaxObjects /\ shared \in 0 .. made /\ running \in {0, 1}
         /\ interp \in {0, running} /\ loaded \subseteq Classes
         /\ isa \in [Classes -> {"nothing", "super", "all"}]
         /\ observers \subseteq 1 .. MaxObjects /\ failed \subseteq Bundled \cup {"start"}
         /\ made \in Nat /\ shared \in Nat /\ interp \in Nat /\ MaxObjects \in Nat \ {0}
<1>1. MaxObjects \in Nat \ {0}
  BY StartupAssumption
<1>2. made \in 0 .. MaxObjects /\ shared \in 0 .. made /\ running \in {0, 1}
      /\ interp \in {0, running}
  BY DEF Types
<1>3. /\ loaded \subseteq Classes /\ isa \in [Classes -> {"nothing", "super", "all"}]
      /\ observers \subseteq 1 .. MaxObjects /\ failed \subseteq Bundled \cup {"start"}
  BY DEF Types
<1> QED
  BY <1>1, <1>2, <1>3

\* Wrapping gives no class Perl's parents.
LEMMA WrappedFacts ==
  ASSUME Types, NEW cs, isa' = Wrapped(cs)
  PROVE  isa' \in [Classes -> {"nothing", "super", "all"}] /\ (NoParents => NoParents')
BY DEF Types, Wrapped, NoParents, Classes

\* Where native code is on top and no object is shared, nothing has begun.
LEMMA NativeFirst ==
  ASSUME Inv, Runs("native"), shared = 0
  PROVE  /\ Len(stack) = 1 /\ interp = 0 /\ running = 0 /\ made = 0 /\ used = FALSE
         /\ observers = {} /\ stack[1].kind = "native"
<1>1. /\ stack # <<>> /\ Len(stack) \in Nat /\ Top = stack[Len(stack)]
      /\ Top.kind = "native" /\ Placed(Len(stack))
  BY TopFacts DEF Runs
<1>2. Len(stack) = 1
  BY <1>1 DEF Placed
<1>3. Untouched /\ Pending
  BY DEF Inv
<1>4. interp = 0
  BY <1>2, <1>3 DEF Pending
<1> QED
  BY <1>1, <1>2, <1>3, <1>4 DEF Untouched

LEMMA SharedPerlStep ==
  ASSUME Inv, SharedPerl
  PROVE  Inv' /\ interp = 0 /\ shared' = shared /\ isa' = isa
<1> DEFINE f == Frame("init", 1, "parse")
<1>1. /\ Len(stack) = 1 /\ interp = 0 /\ running = 0 /\ made = 0 /\ used = FALSE
      /\ observers = {} /\ stack[1].kind = "native" /\ shared = 0
  BY NativeFirst DEF SharedPerl
<1>2. Types /\ Flags /\ stack \in Seq(Activation) /\ Parents /\ Placed(1) /\ Due(1)
  <2>1. 1 \in DOMAIN stack
    BY <1>1, TopFacts DEF SharedPerl, Runs
  <2> QED
    BY <2>1 DEF Inv
<1>3. /\ made' = 1 /\ running' = 1 /\ interp' = 1 /\ shared' = 0
      /\ isa' = isa /\ loaded' = loaded /\ observers' = observers /\ failed' = failed
      /\ handler' = handler /\ used' = used /\ Calls(f)
  BY <1>1 DEF SharedPerl, classes
<1>4. f \in Activation /\ f.kind = "init" /\ f.self = 1 /\ f.at = "parse"
  <2>1. 1 \in 0 .. MaxObjects
    BY StartupAssumption
  <2> QED
    BY <2>1, Frames DEF Steps
<1> HIDE DEF f
<1>5. /\ stack' \in Seq(Activation) /\ Len(stack') = 2 /\ DOMAIN stack' = 1 .. 2
      /\ stack'[1] = stack[1] /\ stack'[2] = f
  <2>1. /\ stack' \in Seq(Activation) /\ Len(stack') = Len(stack) + 1
        /\ \A i \in 1 .. Len(stack) : stack'[i] = stack[i]
        /\ stack'[Len(stack) + 1] = f
    BY <1>2, <1>3, <1>4, Called
  <2> QED
    BY <1>1, <2>1
<1>6. Types' /\ Flags'
  <2>1. Types'
    BY <1>2, <1>3, TypeParts, TypeNext
  <2>2. Flags'
    BY <1>2, <1>3, Zenon DEF Flags
  <2> QED
    BY <2>1, <2>2
<1>7. ASSUME NEW i \in DOMAIN stack'
      PROVE  Placed(i)' /\ Due(i)'
  <2>1. stack'[1].at \notin Later
    BY <1>1, <1>2, <1>5 DEF Due
  <2> QED
    BY <1>1, <1>3, <1>4, <1>5, <2>1 DEF Placed, Due, Starts, Later
<1>8. Younger' /\ Untouched' /\ Pending' /\ Working'
  BY <1>1, <1>3, <1>4, <1>5 DEF Younger, Untouched, Pending, Working
<1>9. Parents'
  <2>1. NoParents'
    BY <1>1, <1>2, <1>3 DEF Parents, NoParents
  <2> QED
    BY <1>1, <1>3, <1>5, <2>1 DEF Parents
<1> QED
  BY <1>1, <1>3, <1>5, <1>6, <1>7, <1>8, <1>9 DEF Inv

\* A constructor's activation, from what Starting says of it.
LEMMA StartingFacts ==
  ASSUME Inv, NEW at, Starting(at), at \in Steps
  PROVE  /\ stack # <<>> /\ Top.kind \in Starts /\ Top.at = at
         /\ Top.self \in 1 .. made /\ Top.self \in 0 .. MaxObjects
         /\ at \in Later => shared # 0
<1>1. stack # <<>> /\ Top.kind \in Starts /\ Top.at = at
  BY DEF Starting, Starts
<1>2. Due(Len(stack)) /\ Top = stack[Len(stack)] /\ Types
  BY <1>1, TopFacts DEF Inv
<1>3. made \in 0 .. MaxObjects /\ MaxObjects \in Nat
  BY <1>2, TypeParts
<1> QED
  BY <1>1, <1>2, <1>3 DEF Due

LEMMA GoesStep ==
  ASSUME Inv, NEW at \in Steps, NEW next \in Steps, Starting(at), Goes(next),
         Types', Flags', (at = "parse" /\ next = "share") \/ (at \in Later /\ next \in Later),
         shared' = shared, made' = made, interp' = interp, running' = running,
         used' = used, handler' = handler, failed' = failed, NoParents => NoParents',
         shared # 0 \/ observers' = observers
  PROVE  Inv'
<1> DEFINE f == Frame(Top.kind, Top.self, next)
<1>1. /\ stack # <<>> /\ Top.kind \in Starts /\ Top.at = at
      /\ Top.self \in 0 .. MaxObjects /\ (at \in Later => shared # 0)
  BY StartingFacts
<1>2. f \in Activation /\ f.kind = Top.kind /\ f.self = Top.self /\ f.at = next
  <2> DEFINE kind == Top.kind
  <2> DEFINE self == Top.self
  <2>1. kind \in {"native", "perl", "init", "initXS", "bundleDidLoad"} /\ self \in 0 .. MaxObjects
    BY <1>1 DEF Starts
  <2> HIDE DEF kind, self
  <2>2. /\ Frame(kind, self, next) \in Activation /\ Frame(kind, self, next).kind = kind
        /\ Frame(kind, self, next).self = self /\ Frame(kind, self, next).at = next
    BY <2>1, Frames
  <2> QED
    BY <2>2 DEF kind, self
<1>3. Becomes(f)
  BY DEF Goes
<1> HIDE DEF f
<1>4. at = "parse" => Top.kind = "init"
  <2>1. Placed(Len(stack)) /\ Top = stack[Len(stack)]
    BY <1>1, TopFacts
  <2> QED
    BY <1>1, <2>1 DEF Placed, Starts
<1>5. /\ f.kind \notin {"native", "perl"} /\ f.at # "parse" /\ (f.at \in Later => shared # 0)
      /\ f.at = "share" => f.kind = "init" /\ Top.at = "parse"
  BY <1>1, <1>2, <1>4 DEF Starts, Later
<1> QED
  BY <1>1, <1>2, <1>3, <1>5, BecomeStep

\* perl_parse runs Perl code above init.
LEMMA EarlyPerlStep ==
  ASSUME Inv, EarlyPerl
  PROVE  Inv'
<1> DEFINE n == Len(stack)
<1> DEFINE f == Frame("init", Top.self, "share")
<1> DEFINE g == Code("perl")
<1>0. /\ Types /\ Flags /\ Younger /\ Untouched /\ Pending /\ Parents /\ Working
      /\ stack \in Seq(Activation)
      /\ \A i \in DOMAIN stack : Placed(i) /\ Due(i)
  BY DEF Inv
<1>1. /\ stack # <<>> /\ Top.kind = "init" /\ Top.at = "parse" /\ Top.self \in 1 .. made
      /\ Top.self \in 0 .. MaxObjects /\ n \in Nat /\ DOMAIN stack = 1 .. n
      /\ Top = stack[n] /\ Placed(n) /\ Due(n) /\ n = 2
  <2>1. Starting("parse") /\ "parse" \in Steps
    BY DEF EarlyPerl, Steps
  <2>2. /\ stack # <<>> /\ Top.kind \in Starts /\ Top.at = "parse"
        /\ Top.self \in 1 .. made /\ Top.self \in 0 .. MaxObjects
    BY <2>1, StartingFacts
  <2>3. n \in Nat /\ DOMAIN stack = 1 .. n /\ Top = stack[n] /\ Placed(n) /\ Due(n)
    BY <2>2, TopFacts
  <2> QED
    BY <2>2, <2>3 DEF Placed, Starts
<1>2. /\ f \in Activation /\ f.kind = "init" /\ f.self = Top.self /\ f.at = "share"
      /\ g \in Activation /\ g.kind = "perl" /\ g.at = "-"
  <2> DEFINE self == Top.self
  <2>1. self \in 0 .. MaxObjects /\ 0 \in 0 .. MaxObjects
    BY <1>1, StartupAssumption
  <2> HIDE DEF self
  <2>2. /\ Frame("init", self, "share") \in Activation
        /\ Frame("init", self, "share").kind = "init"
        /\ Frame("init", self, "share").self = self
        /\ Frame("init", self, "share").at = "share"
    BY <2>1, Frames DEF Steps
  <2>3. /\ Frame("perl", 0, "-") \in Activation /\ Frame("perl", 0, "-").kind = "perl"
        /\ Frame("perl", 0, "-").at = "-"
    BY <2>1, Frames DEF Steps
  <2> QED
    BY <2>2, <2>3 DEF self, Code
<1>3. /\ shared' = shared /\ made' = made /\ interp' = interp /\ running' = running
      /\ loaded' = loaded /\ isa' = isa /\ observers' = observers /\ handler' = handler
      /\ used' = used /\ failed' = failed
      /\ stack' = Append(Append(Front(stack), f), g)
  BY <1>1 DEF EarlyPerl, classes
<1> HIDE DEF f, g
<1>4. /\ stack' \in Seq(Activation) /\ Len(stack') = 3 /\ DOMAIN stack' = 1 .. 3
      /\ stack'[1] = stack[1] /\ stack'[2] = f /\ stack'[3] = g
  <2>1. /\ stack' \in Seq(Activation) /\ Len(stack') = Len(stack) + 1
        /\ \A i \in 1 .. Len(stack) - 1 : stack'[i] = stack[i]
        /\ stack'[Len(stack)] = f /\ stack'[Len(stack) + 1] = g
    BY <1>0, <1>1, <1>2, <1>3, Began
  <2> QED
    BY <1>1, <2>1
<1>5. Types' /\ Flags'
  <2>1. Types'
    BY <1>0, <1>3, TypeParts, TypeNext
  <2>2. Flags'
    BY <1>0, <1>3, Zenon DEF Flags
  <2> QED
    BY <2>1, <2>2
<1>i. interp # 0 /\ running = 1
  BY <1>0, <1>1, TypeParts DEF Due
<1>6. ASSUME NEW i \in DOMAIN stack'
      PROVE  Placed(i)' /\ Due(i)'
  <2>1. CASE i = 1
    <3>1. Placed(1) /\ Due(1)
      BY <1>0, <1>1
    <3> QED
      BY <1>1, <1>3, <1>4, <2>1, <3>1 DEF Placed, Due
  <2>2. CASE i = 2
    BY <1>1, <1>2, <1>3, <1>4, <1>i, <2>2 DEF Placed, Due, Starts, Later
  <2>3. CASE i = 3
    BY <1>2, <1>3, <1>4, <1>i, <2>3 DEF Placed, Due, Starts, Later
  <2> QED
    BY <1>4, <2>1, <2>2, <2>3
<1>7. Younger'
  <2>1. stack[1].kind # "initXS"
    BY <1>0, <1>1 DEF Placed
  <2> QED
    BY <1>2, <1>4, <2>1 DEF Younger
<1>8. Untouched' /\ Pending' /\ Working'
  BY <1>0, <1>2, <1>3, <1>4, <1>i DEF Untouched, Pending, Working, Starts
<1>9. Parents'
  <2>1. NoParents => NoParents'
    BY <1>3 DEF NoParents
  <2>2. stack[1].kind # "initXS" /\ stack[1].kind # "init"
    BY <1>0, <1>1 DEF Placed
  <2>3. made <= 1 => used = FALSE
    BY <1>0, <1>1 DEF Parents
  <2> QED
    BY <1>0, <1>2, <1>3, <1>4, <2>1, <2>2, <2>3 DEF Parents
<1> QED
  BY <1>4, <1>5, <1>6, <1>7, <1>8, <1>9 DEF Inv

\* The object becomes the shared one.
LEMMA ShareStep ==
  ASSUME Inv, Share
  PROVE  /\ Inv' /\ isa' = isa /\ running' = running
         /\ interp # 0 => interp' = interp
         /\ shared # 0 => Top.kind = "init" /\ Top.self < shared
<1> DEFINE n == Len(stack)
<1> DEFINE f == Frame(Top.kind, Top.self, "eval")
<1>0. /\ Types /\ Flags /\ Younger /\ Untouched /\ Pending /\ Parents /\ Working
      /\ stack \in Seq(Activation)
      /\ \A i \in DOMAIN stack : Placed(i) /\ Due(i)
  BY DEF Inv
<1>1. /\ stack # <<>> /\ Top.kind \in Starts /\ Top.at = "share" /\ Top.self \in 1 .. made
      /\ Top.self \in 0 .. MaxObjects /\ n \in Nat /\ n > 0 /\ DOMAIN stack = 1 .. n
      /\ Top = stack[n] /\ Placed(n) /\ Due(n)
  <2>1. Starting("share") /\ "share" \in Steps
    BY DEF Share, Steps
  <2> QED
    BY <2>1, StartingFacts, TopFacts
<1>2. f \in Activation /\ f.kind = Top.kind /\ f.self = Top.self /\ f.at = "eval"
  <2> DEFINE kind == Top.kind
  <2> DEFINE self == Top.self
  <2>1. kind \in {"native", "perl", "init", "initXS", "bundleDidLoad"} /\ self \in 0 .. MaxObjects
    BY <1>1 DEF Starts
  <2> HIDE DEF kind, self
  <2>2. /\ Frame(kind, self, "eval") \in Activation /\ Frame(kind, self, "eval").kind = kind
        /\ Frame(kind, self, "eval").self = self /\ Frame(kind, self, "eval").at = "eval"
    BY <2>1, Frames DEF Steps
  <2> QED
    BY <2>2 DEF kind, self
<1>3. /\ shared' = Top.self /\ made' = made /\ running' = running
      /\ interp' = (IF Top.kind = "initXS" THEN running ELSE interp)
      /\ loaded' = loaded /\ isa' = isa /\ observers' = observers /\ handler' = handler
      /\ used' = used /\ failed' = failed
      /\ Becomes(f)
  BY DEF Share, Goes, classes
<1> HIDE DEF f
<1>4. /\ stack' \in Seq(Activation) /\ Len(stack') = n /\ DOMAIN stack' = 1 .. n
      /\ \A i \in 1 .. n - 1 : stack'[i] = stack[i]
      /\ stack'[n] = f
  <2>1. /\ stack' \in Seq(Activation) /\ Len(stack') = Len(stack)
        /\ \A i \in 1 .. Len(stack) - 1 : stack'[i] = stack[i]
        /\ stack'[Len(stack)] = f
    BY <1>0, <1>1, <1>2, <1>3, Became
  <2> QED
    BY <1>1, <2>1
<1>n. n = Len(stack)
  OBVIOUS
<1> HIDE DEF n
<1>i. /\ interp' # 0 /\ running = 1 /\ interp' \in {0, running'} /\ shared' # 0
      /\ interp # 0 => interp' = interp
  BY <1>0, <1>1, <1>3, TypeParts DEF Due, Starts
<1>5. Types' /\ Flags'
  <2>1. Types'
    <3>1. shared' \in 0 .. made'
      BY <1>1, <1>3
    <3> QED
      BY <1>0, <1>3, <1>i, <3>1, TypeParts, TypeNext
  <2>2. Flags'
    BY <1>0, <1>3, Zenon DEF Flags
  <2> QED
    BY <2>1, <2>2
<1>s. shared # 0 => Top.kind = "init" /\ Top.self < shared
  BY <1>1 DEF Due, Starts
<1>6. ASSUME NEW i \in DOMAIN stack'
      PROVE  Placed(i)' /\ Due(i)'
  <2>1. CASE i = n
    BY <1>1, <1>2, <1>3, <1>4, <1>i, <1>n, <2>1 DEF Placed, Due, Starts, Later
  <2>2. CASE i # n
    <3>1. i \in 1 .. n - 1 /\ i \in 1 .. n /\ stack'[i] = stack[i] /\ Placed(i) /\ Due(i)
      BY <1>0, <1>1, <1>4, <2>2
    <3>2. Placed(i)'
      BY <1>4, <1>n, <3>1 DEF Placed
    <3>3. stack[i].kind # "initXS"
      BY <1>1, <1>n, <3>1 DEF Placed
    <3>4. stack[i].kind = "init" => Top.kind = "initXS"
      BY <1>1, <3>1 DEF Placed, Starts
    <3>5. stack[i].kind = "init" => stack[i].self < Top.self
      BY <1>0, <1>1, <3>1, <3>4 DEF Younger
    <3>6. Due(i)'
      BY <1>3, <1>i, <3>1, <3>3, <3>5 DEF Due
    <3> QED
      BY <3>2, <3>6
  <2> QED
    BY <2>1, <2>2
<1>k. ASSUME NEW i \in 1 .. n
      PROVE  stack'[i].kind = stack[i].kind /\ stack'[i].self = stack[i].self
  <2>1. CASE i = n
    BY <1>1, <1>2, <1>4, <2>1
  <2>2. CASE i # n
    BY <1>1, <1>4, <2>2
  <2> QED
    BY <2>1, <2>2
<1>7. Younger'
  BY <1>0, <1>1, <1>4, <1>k DEF Younger
<1>8. Untouched' /\ Pending'
  BY <1>i DEF Untouched, Pending
<1>9. Working'
  <2>1. n \in DOMAIN stack' /\ stack'[n].kind \in Starts
    BY <1>1, <1>2, <1>4
  <2> QED
    BY <2>1 DEF Working
<1>10. Parents'
  <2>1. NoParents => NoParents'
    BY <1>3 DEF NoParents
  <2> QED
    BY <1>0, <1>1, <1>3, <1>4, <1>k, <2>1 DEF Parents
<1> QED
  BY <1>3, <1>4, <1>5, <1>6, <1>7, <1>8, <1>9, <1>10, <1>i, <1>s DEF Inv

\* The exception of a failing eval ends all activations but native code's.
LEMMA EvalFailsStep ==
  ASSUME Inv, EvalFails
  PROVE  Inv'
<1>0. /\ Types /\ Flags /\ Pending /\ Parents /\ stack \in Seq(Activation)
      /\ \A i \in DOMAIN stack : Placed(i) /\ Due(i)
  BY DEF Inv
<1>1. stack # <<>> /\ shared # 0
  <2>1. Starting("eval") /\ "eval" \in Steps /\ "eval" \in Later
    BY DEF EvalFails, Steps, Later
  <2> QED
    BY <2>1, StartingFacts
<1>2. Len(stack) \in Nat /\ DOMAIN stack = 1 .. Len(stack) /\ 1 \in DOMAIN stack
      /\ stack[1] \in Activation
  BY <1>1, TopFacts
<1>3. /\ shared' = shared /\ made' = made /\ interp' = interp /\ running' = running
      /\ loaded' = loaded /\ isa' = isa /\ observers' = observers /\ handler' = handler
      /\ used' = used /\ failed' = failed \cup {"start"}
      /\ stack' = <<>> \/ (stack' = <<stack[1]>> /\ stack[1].kind = "native")
  BY DEF EvalFails, classes
<1>4. /\ stack' \in Seq(Activation)
      /\ \A i \in DOMAIN stack' : i = 1 /\ stack'[1] = stack[1] /\ stack[1].kind = "native"
  <2>1. CASE stack' = <<>>
    <3>1. stack' \in Seq(Activation) /\ DOMAIN stack' = {}
      BY <2>1
    <3> QED
      BY <3>1
  <2>2. CASE stack' = <<stack[1]>> /\ stack[1].kind = "native"
    <3> DEFINE x == stack[1]
    <3>1. x \in Activation /\ stack' = <<x>>
      BY <1>2, <2>2
    <3> HIDE DEF x
    <3>2. stack' \in Seq(Activation) /\ DOMAIN stack' = {1} /\ stack'[1] = x
      BY <3>1
    <3> QED
      BY <2>2, <3>2 DEF x
  <2> QED
    BY <1>3, <2>1, <2>2
<1>5. Types' /\ Flags'
  <2>1. Types'
    BY <1>0, <1>3, TypeParts, TypeNext
  <2>2. Flags'
    BY <1>0, <1>3, Zenon DEF Flags
  <2> QED
    BY <2>1, <2>2
<1>6. \A i \in DOMAIN stack' : Placed(i)' /\ Due(i)'
  <2>1. Due(1)
    BY <1>0, <1>2
  <2> QED
    BY <1>3, <1>4, <2>1 DEF Placed, Due
<1>7. Younger' /\ Untouched' /\ Pending' /\ Working'
  <2>1. interp # 0
    BY <1>0, <1>1 DEF Pending
  <2> QED
    BY <1>1, <1>3, <1>4, <2>1 DEF Younger, Untouched, Pending, Working
<1>8. Parents'
  BY <1>0, <1>3, <1>4 DEF Parents, NoParents
<1> QED
  BY <1>4, <1>5, <1>6, <1>7, <1>8 DEF Inv

\* use CamelBones calls initXS, and the program may be a native one that has
\* not come further than perl_parse.
LEMMA InitXSStep ==
  ASSUME Inv, Runs("perl"), used = FALSE, used' = TRUE, shared = 0, made < MaxObjects,
         made' = made + 1, Calls(Frame("initXS", made + 1, "share")),
         UNCHANGED <<shared, interp, running, classes, observers, handler, failed>>
  PROVE  Inv'
<1> DEFINE n == Len(stack)
<1> DEFINE self == made + 1
<1> DEFINE f == Frame("initXS", self, "share")
<1>0. /\ Types /\ Flags /\ Younger /\ Untouched /\ Pending /\ Parents /\ Working
      /\ stack \in Seq(Activation)
      /\ \A i \in DOMAIN stack : Placed(i) /\ Due(i)
  BY DEF Inv
<1>1. /\ stack # <<>> /\ Top.kind = "perl" /\ n \in Nat /\ n > 0 /\ DOMAIN stack = 1 .. n
      /\ Top = stack[n] /\ Placed(n) /\ Due(n)
  BY TopFacts DEF Runs
<1>2. /\ self \in 0 .. MaxObjects /\ self > 0 /\ made \in Nat
  BY <1>0, TypeParts
<1>3. /\ shared' = shared /\ made' = made + 1 /\ interp' = interp /\ running' = running
      /\ loaded' = loaded /\ isa' = isa /\ observers' = observers /\ handler' = handler
      /\ failed' = failed /\ Calls(f)
  BY DEF classes
<1>s. made' = self
  BY <1>3
<1>q. \A x \in 1 .. made : x \in 1 .. self /\ x < self
  BY <1>2
<1> HIDE DEF self
<1>4. f \in Activation /\ f.kind = "initXS" /\ f.self = self /\ f.at = "share"
  BY <1>2, Frames DEF Steps
<1> HIDE DEF f
<1>5. /\ stack' \in Seq(Activation) /\ Len(stack') = n + 1
      /\ \A i \in 1 .. n : stack'[i] = stack[i]
      /\ stack'[n + 1] = f
  BY <1>0, <1>3, <1>4, Called
<1>6. DOMAIN stack' = 1 .. n + 1
  BY <1>1, <1>5
<1>n. n = Len(stack)
  OBVIOUS
<1> HIDE DEF n
<1>7. Types' /\ Flags'
  <2>1. Types'
    <3>1. made' \in 0 .. MaxObjects /\ shared' \in 0 .. made'
      BY <1>2, <1>3, <1>s
    <3> QED
      BY <1>0, <1>3, <3>1, TypeParts, TypeNext
  <2>2. Flags'
    BY <1>0, <1>3, Zenon DEF Flags
  <2> QED
    BY <2>1, <2>2
<1>i. running = 1
  BY <1>1 DEF Due
<1>8. ASSUME NEW i \in DOMAIN stack'
      PROVE  Placed(i)' /\ Due(i)'
  <2>1. CASE i = n + 1
    <3>1. f.self \in 1 .. made'
      BY <1>2, <1>4, <1>s
    <3> QED
      BY <1>3, <1>4, <1>5, <1>i, <2>1, <3>1 DEF Placed, Due, Starts, Later
  <2>2. CASE i # n + 1
    <3>1. i \in 1 .. n /\ stack'[i] = stack[i] /\ Placed(i) /\ Due(i)
      BY <1>0, <1>1, <1>5, <1>6, <2>2
    <3>2. stack[i].kind # "initXS"
      BY <1>1, <1>n, <3>1 DEF Placed
    <3>3. stack[i].kind = "init" => i < n
      BY <1>1, <3>1
    <3>4. Placed(i)'
      BY <1>1, <1>5, <1>n, <3>1, <3>2, <3>3 DEF Placed
    <3>5. stack[i].kind \in Starts => stack[i].self \in 1 .. made'
      BY <1>q, <1>s, <3>1 DEF Due
    <3>6. Due(i)'
      BY <1>3, <3>1, <3>5 DEF Due
    <3> QED
      BY <3>4, <3>6
  <2> QED
    BY <2>1, <2>2
<1>9. Younger'
  <2>1. ASSUME NEW i \in DOMAIN stack', NEW j \in DOMAIN stack',
               stack'[i].kind = "init", stack'[j].kind = "initXS"
        PROVE  stack'[i].self < stack'[j].self
    <3>1. i \in 1 .. n /\ stack'[i] = stack[i] /\ stack[i].self \in 1 .. made
      <4>1. i # n + 1
        BY <1>4, <1>5, <2>1
      <4>2. i \in 1 .. n /\ stack'[i] = stack[i] /\ Due(i)
        BY <1>0, <1>1, <1>5, <1>6, <4>1
      <4> QED
        BY <2>1, <4>2 DEF Due, Starts
    <3>2. j = n + 1
      <4>1. ASSUME j # n + 1
            PROVE  FALSE
        <5>1. j \in 1 .. n /\ stack'[j] = stack[j] /\ Placed(j)
          BY <1>0, <1>1, <1>5, <1>6, <4>1
        <5> QED
          BY <1>1, <1>n, <2>1, <5>1 DEF Placed
      <4> QED
        BY <4>1
    <3> QED
      BY <1>4, <1>5, <1>q, <3>1, <3>2
  <2> QED
    BY <2>1 DEF Younger
<1>10. Pending' /\ Untouched'
  <2>1. CASE interp = 0
    <3>1. stack[1].kind # "native"
      <4>1. ASSUME stack[1].kind = "native"
            PROVE  FALSE
        BY <1>0, <1>1, <1>n, <2>1, <4>1 DEF Untouched
      <4> QED
        BY <4>1
    <3>2. stack'[1] = stack[1]
      BY <1>1, <1>5
    <3> QED
      BY <1>0, <1>3, <2>1, <3>1, <3>2 DEF Pending, Untouched
  <2>2. CASE interp # 0
    <3>1. n >= 2 /\ stack[2].kind = "init"
      BY <1>0, <1>n, <2>2 DEF Pending
    <3>2. stack'[2] = stack[2] /\ Len(stack') >= 2
      BY <1>1, <1>5, <3>1
    <3> QED
      BY <1>3, <2>2, <3>1, <3>2 DEF Pending, Untouched
  <2> QED
    BY <2>1, <2>2
<1>11. Parents'
  <2>1. NoParents'
    BY <1>0, <1>3 DEF Parents, NoParents
  <2>2. ASSUME NEW i \in DOMAIN stack', stack'[i].kind = "init"
        PROVE  made' > 1
    <3>1. i # n + 1
      BY <1>4, <1>5, <2>2
    <3>2. i \in 1 .. n /\ stack'[i] = stack[i] /\ Due(i)
      BY <1>0, <1>1, <1>5, <1>6, <3>1
    <3>3. stack[i].self \in 1 .. made
      BY <2>2, <3>2 DEF Due, Starts
    <3> QED
      BY <1>2, <1>3, <3>3
  <2>3. made' \in Int
    BY <1>2, <1>3
  <2>4. \A i \in DOMAIN stack' : ~(stack'[i].kind = "init" /\ made' <= 1)
    BY <2>2, <2>3
  <2> QED
    BY <2>1, <2>4 DEF Parents
<1>12. Working'
  BY <1>3 DEF Working
<1> QED
  BY <1>5, <1>7, <1>8, <1>9, <1>10, <1>11, <1>12 DEF Inv

\* What several actions leave alone.
Quiet == /\ shared' = shared /\ made' = made /\ interp' = interp /\ running' = running
         /\ failed \subseteq failed'

LEMMA FlagsNext ==
  ASSUME Flags, handler' \in {handler, TRUE}, used' \in {used, TRUE}
  PROVE  Flags'
BY Zenon DEF Flags

\* The steps of a constructor that has become the shared object.
LEMMA ConstructorStep ==
  ASSUME Inv, Parse \/ Evals \/ Wrap \/ Observe \/ RegisterHandler
  PROVE  Inv' /\ Quiet
<1>0. Types /\ Flags
  BY DEF Inv
<1>1. CASE Parse
  <2>1. /\ Quiet /\ Starting("parse") /\ Goes("share") /\ failed' = failed
        /\ loaded' = loaded /\ isa' = isa /\ observers' = observers
        /\ handler' = handler /\ used' = used
    BY <1>1 DEF Parse, Quiet, classes
  <2>2. Types' /\ Flags' /\ (NoParents => NoParents')
    BY <1>0, <2>1, TypeParts, TypeNext, FlagsNext DEF Quiet, NoParents
  <2>3. "parse" \in Steps /\ "share" \in Steps
    BY DEF Steps
  <2> QED
    BY <2>1, <2>2, <2>3, GoesStep DEF Quiet
<1>2. CASE Evals
  <2>1. /\ Quiet /\ Starting("eval") /\ Goes("wrap") /\ failed' = failed
        /\ loaded' = loaded /\ isa' = isa /\ observers' = observers
        /\ handler' = handler /\ used' = used
    BY <1>2 DEF Evals, Quiet, classes
  <2>2. Types' /\ Flags' /\ (NoParents => NoParents')
    BY <1>0, <2>1, TypeParts, TypeNext, FlagsNext DEF Quiet, NoParents
  <2>3. /\ "eval" \in Steps /\ "wrap" \in Steps
        /\ "eval" \in Later /\ "wrap" \in Later
    BY DEF Steps, Later
  <2> QED
    BY <2>1, <2>2, <2>3, GoesStep DEF Quiet
<1>3. CASE Wrap
  <2>1. /\ Quiet /\ Starting("wrap") /\ Goes("observe") /\ failed' = failed
        /\ loaded' = loaded /\ isa' = Wrapped(loaded) /\ observers' = observers
        /\ handler' = handler /\ used' = used
    BY <1>3 DEF Wrap, Quiet
  <2>2. isa' \in [Classes -> {"nothing", "super", "all"}] /\ (NoParents => NoParents')
    BY <1>0, <2>1, WrappedFacts
  <2>3. Types' /\ Flags'
    BY <1>0, <2>1, <2>2, TypeParts, TypeNext, FlagsNext DEF Quiet
  <2>4. /\ "wrap" \in Steps /\ "observe" \in Steps
        /\ "wrap" \in Later /\ "observe" \in Later
    BY DEF Steps, Later
  <2> QED
    BY <2>1, <2>2, <2>3, <2>4, GoesStep DEF Quiet
<1>4. CASE Observe
  <2>1. /\ Quiet /\ Starting("observe") /\ Goes("handler") /\ failed' = failed
        /\ loaded' = loaded /\ isa' = isa /\ observers' = observers \cup {Top.self}
        /\ handler' = handler /\ used' = used
    BY <1>4 DEF Observe, Quiet, classes
  <2>2. /\ "observe" \in Steps /\ "handler" \in Steps
        /\ "observe" \in Later /\ "handler" \in Later
    BY DEF Steps, Later
  <2>3. shared # 0 /\ observers' \subseteq 1 .. MaxObjects
    <3>1. shared # 0 /\ Top.self \in 1 .. made
      BY <2>1, <2>2, StartingFacts
    <3>2. \A x \in 1 .. made : x \in 1 .. MaxObjects
      BY <1>0, TypeParts
    <3> QED
      BY <1>0, <2>1, <3>1, <3>2, TypeParts
  <2>4. Types' /\ Flags' /\ (NoParents => NoParents')
    BY <1>0, <2>1, <2>3, TypeParts, TypeNext, FlagsNext DEF Quiet, NoParents
  <2> QED
    BY <2>1, <2>2, <2>3, <2>4, GoesStep DEF Quiet
<1>5. CASE RegisterHandler
  <2>1. /\ Quiet /\ Starting("handler") /\ Returns /\ failed' = failed
        /\ loaded' = loaded /\ isa' = isa /\ observers' = observers
        /\ handler' = TRUE /\ used' = used
    BY <1>5 DEF RegisterHandler, Quiet, classes
  <2>2. "handler" \in Steps /\ "handler" \in Later
    BY DEF Steps, Later
  <2>3. stack # <<>> /\ shared # 0
    BY <2>1, <2>2, StartingFacts
  <2>4. Types' /\ Flags' /\ (NoParents => NoParents')
    BY <1>0, <2>1, TypeParts, TypeNext, FlagsNext DEF Quiet, NoParents
  <2> QED
    BY <2>1, <2>3, <2>4, PopStep DEF Quiet
<1> QED
  BY <1>1, <1>2, <1>3, <1>4, <1>5

LEMMA BundleStep ==
  ASSUME Inv, BundleDidLoad \/ BundleFails
  PROVE  Inv' /\ Quiet /\ (NoParents => NoParents')
         /\ \A c \in Registered : isa[c] = "all" => isa'[c] = "all"
<1>0. /\ Types /\ Flags /\ stack # <<>> /\ Top.kind = "bundleDidLoad" /\ Top \in Activation
      /\ Top.kind \notin Starts
  BY TopFacts DEF Inv, BundleDidLoad, BundleFails, Runs, Starts
<1>1. /\ Quiet /\ loaded' = loaded /\ observers' = observers /\ handler' = handler
      /\ used' = used /\ failed' \subseteq failed \cup Top.new
  BY DEF BundleDidLoad, BundleFails, Quiet, classes
<1>2. Top.new \in SUBSET Bundled /\ Top.to \in SUBSET (1 .. MaxObjects)
  BY <1>0 DEF Activation
<1>3. isa' = isa \/ isa' = Wrapped(Top.new)
  BY DEF BundleDidLoad, BundleFails, classes
<1>4. /\ isa' \in [Classes -> {"nothing", "super", "all"}] /\ (NoParents => NoParents')
      /\ \A c \in Registered : isa[c] = "all" => isa'[c] = "all"
  <2>1. CASE isa' = isa
    BY <1>0, <2>1, TypeParts DEF NoParents
  <2>2. CASE isa' = Wrapped(Top.new)
    <3>1. isa' \in [Classes -> {"nothing", "super", "all"}] /\ (NoParents => NoParents')
      BY <1>0, <2>2, WrappedFacts
    <3>2. ASSUME NEW c \in Registered
          PROVE  isa'[c] = isa[c]
      <4>1. c \notin Top.new /\ c \in Classes
        BY <1>2, StartupAssumption DEF Classes
      <4> QED
        BY <2>2, <4>1 DEF Wrapped
    <3> QED
      BY <3>1, <3>2
  <2> QED
    BY <1>3, <2>1, <2>2
<1>5. Types' /\ Flags'
  <2>1. failed' \subseteq Bundled \cup {"start"}
    BY <1>0, <1>1, <1>2, TypeParts
  <2> QED
    BY <1>0, <1>1, <1>4, <2>1, TypeParts, TypeNext, FlagsNext DEF Quiet
<1>6. Returns \/ \E o \in Top.to : Becomes(Notice(Top.new, Top.to \ {o}))
  BY DEF BundleDidLoad, BundleFails
<1>7. CASE Returns
  BY <1>0, <1>1, <1>4, <1>5, <1>7, PopStep DEF Quiet, Starts
<1>8. ASSUME NEW o \in Top.to, Becomes(Notice(Top.new, Top.to \ {o}))
      PROVE  Inv'
  <2> DEFINE new == Top.new
  <2> DEFINE to == Top.to \ {o}
  <2>1. new \in SUBSET Bundled /\ to \in SUBSET (1 .. MaxObjects)
    BY <1>2
  <2> DEFINE f == Notice(new, to)
  <2>2. Becomes(f)
    BY <1>8
  <2> HIDE DEF new, to
  <2>3. f \in Activation /\ f.kind = "bundleDidLoad" /\ f.at = "-"
    BY <2>1, Notices
  <2> HIDE DEF f
  <2> QED
    BY <1>0, <1>1, <1>4, <1>5, <2>2, <2>3, BecomeStep DEF Quiet, Later, Starts
<1> QED
  BY <1>1, <1>4, <1>6, <1>7, <1>8

\* Native code calls Perl code, Perl code ends, or somebody loads a bundle.
LEMMA ProgramStep ==
  ASSUME Inv, RunPerl \/ PerlReturns \/ \E b \in Bundled : LoadBundle(b)
  PROVE  Inv' /\ Quiet /\ isa' = isa
<1>0. /\ Types /\ Flags /\ stack # <<>> /\ Untouched /\ Pending
      /\ Top.kind \in {"native", "perl"} /\ 0 \in 0 .. MaxObjects
  <2>1. Types /\ Flags /\ Untouched /\ Pending
    BY DEF Inv
  <2>2. Runs("native") \/ Runs("perl")
    BY DEF RunPerl, PerlReturns, LoadBundle
  <2>3. 0 \in 0 .. MaxObjects
    BY StartupAssumption
  <2> QED
    BY <2>1, <2>2, <2>3 DEF Runs
<1>1. /\ Quiet /\ isa' = isa /\ observers' = observers /\ handler' = handler
      /\ used' = used /\ failed' = failed
  BY DEF RunPerl, PerlReturns, LoadBundle, Quiet, classes
<1>2. loaded' \subseteq Classes
  <2>1. \A b \in Bundled : b \in Classes
    BY DEF Classes
  <2>2. loaded' = loaded \/ \E b \in Bundled : loaded' = loaded \cup {b}
    BY DEF RunPerl, PerlReturns, LoadBundle, classes
  <2> QED
    BY <1>0, <2>1, <2>2, TypeParts
<1>3. Types' /\ Flags' /\ (NoParents => NoParents')
  BY <1>0, <1>1, <1>2, TypeParts, TypeNext, FlagsNext DEF Quiet, NoParents
<1>4. CASE RunPerl
  <2> DEFINE f == Code("perl")
  <2>1. f \in Activation /\ f.kind = "perl" /\ f.at = "-"
    BY <1>0, Frames DEF Code, Steps
  <2>2. Calls(f) /\ shared # 0
    BY <1>4 DEF RunPerl
  <2>3. interp # 0 /\ running = 1
    BY <1>0, <2>2, TypeParts DEF Pending
  <2> HIDE DEF f
  <2> QED
    BY <1>0, <1>1, <1>3, <2>1, <2>2, <2>3, PushStep DEF Quiet
<1>5. CASE PerlReturns
  <2>1. Returns /\ Top.kind = "perl"
    BY <1>5 DEF PerlReturns, Runs
  <2> QED
    BY <1>0, <1>1, <1>3, <2>1, PopStep DEF Quiet, Starts
<1>6. ASSUME NEW b \in Bundled, LoadBundle(b)
      PROVE  Inv'
  <2>1. CASE observers = {}
    <3>1. stack' = stack
      BY <1>6, <2>1 DEF LoadBundle
    <3> QED
      BY <1>1, <1>3, <3>1, SameStep DEF Quiet
  <2>2. CASE observers # {}
    <3> DEFINE new == {b}
    <3> DEFINE f == Notice(new, observers)
    <3>1. new \in SUBSET Bundled /\ observers \in SUBSET (1 .. MaxObjects)
      BY <1>0, TypeParts
    <3>2. Calls(f)
      BY <1>6, <2>2 DEF LoadBundle
    <3> HIDE DEF new
    <3>3. f \in Activation /\ f.kind = "bundleDidLoad" /\ f.at = "-"
      BY <3>1, Notices
    <3> HIDE DEF f
    <3>4. interp # 0 \/ stack[1].kind # "native"
      BY <1>0, <2>2 DEF Untouched
    <3> QED
      BY <1>0, <1>1, <1>3, <3>2, <3>3, <3>4, PushStep DEF Quiet
  <2> QED
    BY <2>1, <2>2
<1> QED
  BY <1>1, <1>4, <1>5, <1>6

\* Perl code uses CamelBones, and registers classes when it has.
LEMMA UseStep ==
  ASSUME Inv, CBInit
  PROVE  /\ Inv' /\ isa' = isa /\ shared' = shared /\ interp' = interp
         /\ running' = running
<1>0. Types /\ Flags /\ Pending /\ Runs("perl") /\ used = FALSE
  BY Zenon DEF Inv, CBInit, Flags
<1>1. /\ shared' = shared /\ interp' = interp /\ running' = running /\ loaded' = loaded
      /\ isa' = isa /\ observers' = observers /\ handler' = handler /\ failed' = failed
      /\ used' = TRUE
  BY DEF CBInit, classes
<1>2. CASE shared # 0 /\ UNCHANGED <<made, stack>>
  <2>1. Types' /\ Flags'
    BY <1>0, <1>1, <1>2, TypeParts, TypeNext, FlagsNext
  <2>2. interp # 0
    BY <1>0, <1>2 DEF Pending
  <2>3. ASSUME NEW i \in DOMAIN stack, stack[i].kind = "init"
        PROVE  made > 1
    <3>1. Top.kind = "perl" /\ Top = stack[Len(stack)] /\ DOMAIN stack = 1 .. Len(stack)
          /\ Len(stack) \in Nat
      BY <1>0, TopFacts DEF Runs
    <3>2. Placed(i) /\ Due(i) /\ i < Len(stack)
      BY <2>3, <3>1 DEF Inv
    <3>3. stack[i].at = "share"
      BY <2>3, <3>2 DEF Placed
    <3>4. stack[i].self \in 1 .. made /\ stack[i].self < shared
      BY <1>2, <2>3, <3>2, <3>3 DEF Due, Starts
    <3> QED
      BY <1>0, <3>4, TypeParts
  <2>4. made > 1 \/ \A i \in DOMAIN stack : stack[i].kind # "init"
    BY <2>3
  <2> QED
    BY <1>1, <1>2, <2>1, <2>2, <2>4, SameStep
<1>3. CASE /\ shared = 0 /\ made < MaxObjects /\ made' = made + 1
           /\ Calls(Frame("initXS", made + 1, "share"))
  BY <1>0, <1>1, <1>3, InitXSStep DEF classes
<1> QED
  BY <1>1, <1>2, <1>3 DEF CBInit

LEMMA RegisterStep ==
  ASSUME Inv, NEW c \in Registered, Register(c)
  PROVE  Inv' /\ Quiet /\ \A d \in Classes : isa[d] = "all" => isa'[d] = "all"
<1>0. Types /\ Flags /\ Runs("perl") /\ used # FALSE /\ c \in Classes
  BY DEF Inv, Register, Flags, Classes
<1>1. /\ Quiet /\ failed' = failed /\ stack' = stack /\ observers' = observers
      /\ handler' = handler /\ used' = used /\ loaded' = loaded \cup {c}
      /\ isa' = [isa EXCEPT ![c] = "all"]
  BY DEF Register, Quiet
<1>2. isa \in [Classes -> {"nothing", "super", "all"}]
  BY <1>0, TypeParts
<1>3. /\ isa' \in [Classes -> {"nothing", "super", "all"}]
      /\ \A d \in Classes : isa[d] = "all" => isa'[d] = "all"
  BY <1>1, <1>2
<1>4. Types' /\ Flags'
  <2>1. loaded' \subseteq Classes
    BY <1>0, <1>1, TypeParts
  <2> QED
    BY <1>0, <1>1, <1>3, <2>1, TypeParts, TypeNext, FlagsNext DEF Quiet
<1>5. stack # <<>> /\ Top.kind # "initXS"
  BY <1>0 DEF Runs
<1> QED
  BY <1>0, <1>1, <1>3, <1>4, <1>5, SameStep DEF Quiet

LEMMA IdleStep ==
  ASSUME Inv, UNCHANGED vars
  PROVE  Inv' /\ Quiet /\ isa' = isa
<1>1. /\ shared' = shared /\ made' = made /\ interp' = interp /\ running' = running
      /\ loaded' = loaded /\ isa' = isa /\ observers' = observers /\ handler' = handler
      /\ used' = used /\ failed' = failed /\ stack' = stack
  BY DEF vars
<1>2. Types' /\ Flags'
  BY <1>1, TypeParts, TypeNext, FlagsNext DEF Inv
<1> QED
  BY <1>1, <1>2, SameStep DEF Quiet

\* EvalFails leaves what the theorems are about as it is.
LEMMA FailureIsQuiet ==
  ASSUME EvalFails
  PROVE  Quiet /\ isa' = isa
BY DEF EvalFails, Quiet, classes

LEMMA EarlyIsQuiet ==
  ASSUME EarlyPerl
  PROVE  Quiet /\ isa' = isa
BY DEF EarlyPerl, Quiet, classes

LEMMA Cases ==
  ASSUME [Next]_vars
  PROVE  \/ SharedPerl \/ Share \/ EarlyPerl \/ EvalFails \/ CBInit
         \/ Parse \/ Evals \/ Wrap \/ Observe \/ RegisterHandler
         \/ BundleDidLoad \/ BundleFails
         \/ RunPerl \/ PerlReturns \/ \E b \in Bundled : LoadBundle(b)
         \/ \E c \in Registered : Register(c)
         \/ UNCHANGED vars
BY DEF Next, Start, Ended

LEMMA StepInv ==
  ASSUME Inv, [Next]_vars
  PROVE  Inv'
BY Cases, SharedPerlStep, ShareStep, EarlyPerlStep, EvalFailsStep, UseStep, ConstructorStep,
   BundleStep, ProgramStep, RegisterStep, IdleStep

LEMMA AlwaysInv == Spec => []Inv
<1>1. Init => Inv
  BY InitInv
<1>2. Inv /\ [Next]_vars => Inv'
  BY StepInv
<1> QED
  BY <1>1, <1>2, PTL DEF Spec
----------------------------------------------------------------------------
(***************************************************************************)
(* The wrapping of classes.  Whoever wraps all classes is on top of the    *)
(* stack until it listens for bundles, so that no class slips in between;  *)
(* from then on each new class comes with a notice, which is on top until  *)
(* it is dealt with.                                                       *)
(***************************************************************************)
\* The classes that ought to be wrapped and are not.
Bare == {c \in loaded : isa[c] = "nothing" /\ c \notin Skipped \cup failed}
Covered == \A c \in Bare : Runs("bundleDidLoad") /\ c \in Top.new

\* As soon as somebody listens for bundles, or is about to.
Wraps ==
  /\ observers # {} \/ Starting("observe") \/ Starting("handler") => Covered
  /\ handler # FALSE \/ Starting("handler") => observers # {}

\* What is put on the stack is on top.
LEMMA NewTop ==
  ASSUME NEW b \in Seq(Activation), NEW f \in Activation, stack' = Append(b, f)
  PROVE  stack' # <<>> /\ Top' = f
BY DEF Top, Last

\* Below the top no constructor is beyond "share".
LEMMA Uncovered ==
  ASSUME Inv, stack # <<>>, Returns
  PROVE  ~Starting("observe")' /\ ~Starting("handler")'
<1> DEFINE n == Len(stack)
<1>1. /\ n \in Nat /\ n > 0 /\ DOMAIN stack = 1 .. n /\ n = Len(stack)
      /\ stack \in Seq(Activation)
  BY TopFacts DEF Inv
<1>2. /\ stack' \in Seq(Activation) /\ Len(stack') = n - 1
      /\ \A i \in 1 .. n - 1 : stack'[i] = stack[i]
  BY <1>1, Returned
<1> HIDE DEF n
<1>3. ASSUME stack' # <<>>
      PROVE  Top'.kind \in Starts => Top'.at = "share"
  <2>1. Top' = stack'[n - 1] /\ n - 1 \in 1 .. n /\ n - 1 \in 1 .. n - 1
    BY <1>1, <1>2, <1>3 DEF Top, Last
  <2>2. Placed(n - 1) /\ Top' = stack[n - 1]
    BY <1>1, <1>2, <2>1 DEF Inv
  <2>3. n - 1 < Len(stack) /\ n - 1 # Len(stack)
    <3>1. n \in Nat /\ n = Len(stack)
      BY <1>1 DEF n
    <3> QED
      BY ONLY <3>1
  <2> DEFINE f == stack[n - 1]
  <2>4. f.kind \in Starts => f.at = "share"
    BY <2>2, <2>3 DEF Placed, Starts
  <2> HIDE DEF f
  <2>5. Top' = f
    BY <2>2 DEF f
  <2> QED
    BY <2>4, <2>5
<1> QED
  BY <1>3 DEF Starting, Starts

\* A step of somebody who is not wrapping a bundle's classes.
LEMMA WrapsStay ==
  ASSUME Wraps, stack # <<>>, Top.kind # "bundleDidLoad", Bare' \subseteq Bare,
         observers' = observers, handler' = handler,
         ~Starting("observe")', ~Starting("handler")'
  PROVE  Wraps'
<1>1. Covered => Bare = {}
  BY DEF Covered, Runs
<1>2. Bare = {} => Covered'
  BY DEF Covered
<1> QED
  BY <1>1, <1>2 DEF Wraps

\* More failures and the same classes leave no more of them bare.
LEMMA BareStays ==
  ASSUME UNCHANGED classes, failed \subseteq failed'
  PROVE  Bare' \subseteq Bare
BY DEF Bare, classes

\* Nobody listens yet.
LEMMA WrapsInit ==
  ASSUME Init
  PROVE  Wraps
<1>1. observers = {} /\ handler = FALSE
  BY DEF Init
<1>2. PICK k \in {"native", "perl"} : stack = <<Code(k)>>
  BY DEF Init
<1>3. Top = Code(k)
  BY <1>2 DEF Top, Last
<1> QED
  BY <1>1, <1>3 DEF Wraps, Starting, Code, Frame

\* Each step.
LEMMA WrapsStep ==
  ASSUME Inv, Wraps, [Next]_vars
  PROVE  Wraps'
<1>0. /\ stack \in Seq(Activation) /\ Types /\ isa \in [Classes -> {"nothing", "super", "all"}]
      /\ loaded \subseteq Classes
      /\ (stack # <<>> => Front(stack) \in Seq(Activation) /\ Top \in Activation)
  BY TypeParts, TopFacts, Fronts DEF Inv
<1>1. CASE UNCHANGED vars
  <2>1. Bare' = Bare /\ observers' = observers /\ handler' = handler /\ stack' = stack /\ Top' = Top
    BY <1>1 DEF vars, Bare, Top
  <2> QED
    BY <2>1 DEF Wraps, Covered, Starting, Runs
<1>2. CASE SharedPerl
  <2> DEFINE f == Frame("init", made + 1, "parse")
  <2>1. /\ stack # <<>> /\ Top.kind = "native" /\ stack' = Append(stack, f)
        /\ UNCHANGED classes /\ observers' = observers /\ handler' = handler /\ failed' = failed
        /\ made < MaxObjects
    BY <1>2 DEF SharedPerl, Runs, Calls
  <2>2. f \in Activation /\ f.at = "parse"
    <3>1. made + 1 \in 0 .. MaxObjects
      BY <1>0, <2>1, TypeParts
    <3> HIDE DEF f
    <3> QED
      BY <3>1, Frames DEF f, Steps
  <2> HIDE DEF f
  <2>3. Top' = f
    BY <1>0, <2>1, <2>2, NewTop
  <2> QED
    BY <2>1, <2>2, <2>3, BareStays, WrapsStay DEF Starting
<1>3. CASE EarlyPerl
  <2> DEFINE f == Frame(Top.kind, Top.self, "share") b == Append(Front(stack), f)
  <2>1. /\ stack # <<>> /\ Top.kind \in Starts /\ stack' = Append(b, Code("perl"))
        /\ UNCHANGED classes /\ observers' = observers /\ handler' = handler /\ failed' = failed
    BY <1>3 DEF EarlyPerl, Starting, Starts
  <2>2. f \in Activation
    BY <1>0, <2>1 DEF Frame, Activation, Steps
  <2>3. Code("perl") \in Activation /\ Code("perl").kind = "perl"
    <3>1. 0 \in 0 .. MaxObjects
      BY StartupAssumption
    <3> QED
      BY <3>1, Frames DEF Code, Steps
  <2> HIDE DEF f
  <2>4. Top' = Code("perl")
    <3>1. b \in Seq(Activation)
      BY <1>0, <2>1, <2>2
    <3> QED
      BY <2>1, <2>3, <3>1, NewTop
  <2> QED
    BY <2>1, <2>3, <2>4, BareStays, WrapsStay DEF Starting, Starts
<1>4. ASSUME NEW at \in {"share", "eval", "wrap"}, stack # <<>>, Top.kind \in Starts, Goes(at),
             UNCHANGED classes, observers' = observers, handler' = handler, failed' = failed
      PROVE  Wraps'
  <2> DEFINE f == Frame(Top.kind, Top.self, at)
  <2>1. stack' = Append(Front(stack), f)
    BY <1>4 DEF Goes, Becomes
  <2>2. f \in Activation /\ f.at = at
    BY <1>0, <1>4 DEF Frame, Activation, Steps
  <2> HIDE DEF f
  <2>3. Top' = f
    BY <1>0, <1>4, <2>1, <2>2, NewTop
  <2> QED
    BY <1>4, <2>2, <2>3, BareStays, WrapsStay DEF Starting, Starts
<1>5. CASE Parse \/ Share \/ Evals
  BY <1>4, <1>5 DEF Parse, Share, Evals, Starting, Starts
<1>6. CASE EvalFails
  <2>1. /\ stack # <<>> /\ Top.kind \in Starts /\ failed \subseteq failed'
        /\ UNCHANGED classes /\ observers' = observers /\ handler' = handler
        /\ stack' = <<>> \/ (stack' = <<stack[1]>> /\ stack[1].kind = "native")
    BY <1>6 DEF EvalFails, Starting, Starts
  <2>2. stack' = <<stack[1]>> => Top' = stack[1]
    BY DEF Top, Last
  <2> QED
    BY <2>1, <2>2, BareStays, WrapsStay DEF Starting, Starts
<1>7. CASE Wrap
  <2> DEFINE f == Frame(Top.kind, Top.self, "observe")
  <2>1. /\ stack # <<>> /\ Top.kind \in Starts /\ stack' = Append(Front(stack), f)
        /\ isa' = Wrapped(loaded) /\ loaded' = loaded /\ failed' = failed
        /\ observers' = observers /\ handler' = handler
    BY <1>7 DEF Wrap, Starting, Starts, Goes, Becomes
  <2>2. f \in Activation /\ f.at = "observe"
    BY <1>0, <2>1 DEF Frame, Activation, Steps
  <2> HIDE DEF f
  <2>3. Top' = f
    BY <1>0, <2>1, <2>2, NewTop
  <2>4. Bare' = {}
    BY <1>0, <2>1 DEF Bare, Wrapped
  <2> QED
    BY <2>1, <2>2, <2>3, <2>4 DEF Wraps, Covered, Starting
<1>8. CASE Observe
  <2> DEFINE f == Frame(Top.kind, Top.self, "handler")
  <2>1. /\ stack # <<>> /\ Top.kind \in Starts /\ stack' = Append(Front(stack), f)
        /\ UNCHANGED classes /\ failed' = failed
        /\ observers' = observers \cup {Top.self} /\ handler' = handler
        /\ Starting("observe")
    BY <1>8 DEF Observe, Starting, Starts, Goes, Becomes
  <2>2. Covered
    BY <2>1 DEF Wraps
  <2>3. Bare = {}
    BY <2>1, <2>2 DEF Covered, Runs, Starts
  <2>4. Bare' = {}
    BY <2>1, <2>3, BareStays
  <2>5. observers' # {}
    BY <2>1
  <2> QED
    BY <2>4, <2>5 DEF Wraps, Covered
<1>9. CASE RegisterHandler
  <2>1. /\ stack # <<>> /\ Top.kind \in Starts /\ Returns
        /\ UNCHANGED classes /\ failed' = failed
        /\ observers' = observers /\ Starting("handler")
    BY <1>9 DEF RegisterHandler, Starting, Starts
  <2>2. Covered /\ observers # {}
    BY <2>1 DEF Wraps
  <2>3. Bare = {}
    BY <2>1, <2>2 DEF Covered, Runs, Starts
  <2>4. Bare' = {}
    BY <2>1, <2>3, BareStays
  <2> QED
    BY <2>1, <2>2, <2>4 DEF Wraps, Covered
<1>10. CASE BundleDidLoad
  <2> DEFINE n == Top.new
  <2>1. /\ stack # <<>> /\ Top.kind = "bundleDidLoad"
        /\ isa' = Wrapped(n) /\ loaded' = loaded /\ failed' = failed
        /\ observers' = observers /\ handler' = handler
    BY <1>10 DEF BundleDidLoad, Runs
  <2>2. Covered => Bare' = {}
    <3> HIDE DEF n
    <3>1. Covered => \A c \in Bare : c \in n
      BY DEF Covered, n
    <3>2. \A c \in Bare' : c \in Bare /\ c \notin n
      BY <1>0, <2>1 DEF Bare, Wrapped
    <3> QED
      BY <3>1, <3>2
  <2>3. ~Starting("observe") /\ ~Starting("handler")
    BY <2>1 DEF Starting
  <2>4. ~Starting("observe")' /\ ~Starting("handler")'
    <3>1. CASE Returns
      BY <2>1, <3>1, Uncovered
    <3>2. ASSUME NEW o \in Top.to, Becomes(Notice(n, Top.to \ {o}))
          PROVE  ~Starting("observe")' /\ ~Starting("handler")'
      <4> DEFINE to == Top.to \ {o} f == Notice(n, to)
      <4>1. n \in SUBSET Bundled /\ to \in SUBSET (1 .. MaxObjects)
        BY <1>0, <2>1 DEF Activation
      <4>2. stack' = Append(Front(stack), f)
        BY <3>2 DEF Becomes
      <4> HIDE DEF n, to
      <4>3. f \in Activation /\ f.kind = "bundleDidLoad"
        BY <4>1, Notices
      <4> HIDE DEF f
      <4>4. Top' = f
        BY <1>0, <2>1, <4>2, <4>3, NewTop
      <4> QED
        BY <4>3, <4>4 DEF Starting
    <3> QED
      BY <1>10, <3>1, <3>2 DEF BundleDidLoad
  <2> QED
    BY <2>1, <2>2, <2>3, <2>4 DEF Wraps, Covered
<1>11. CASE BundleFails
  <2>1. /\ stack # <<>> /\ Top.kind = "bundleDidLoad" /\ Returns
        /\ UNCHANGED classes /\ failed' = failed \cup Top.new
        /\ observers' = observers /\ handler' = handler
    BY <1>11 DEF BundleFails, Runs
  <2>2. Covered => Bare' = {}
    BY <2>1 DEF Covered, Bare, classes
  <2>3. ~Starting("observe")' /\ ~Starting("handler")'
    BY <2>1, Uncovered
  <2> QED
    BY <2>1, <2>2, <2>3 DEF Wraps, Covered
<1>12. CASE RunPerl
  <2>1. /\ stack # <<>> /\ Top.kind = "native" /\ stack' = Append(stack, Code("perl"))
        /\ UNCHANGED classes /\ observers' = observers /\ handler' = handler /\ failed' = failed
    BY <1>12 DEF RunPerl, Runs, Calls
  <2>2. Code("perl") \in Activation /\ Code("perl").kind = "perl"
    <3>1. 0 \in 0 .. MaxObjects
      BY StartupAssumption
    <3> QED
      BY <3>1, Frames DEF Code, Steps
  <2>3. Top' = Code("perl")
    BY <1>0, <2>1, <2>2, NewTop
  <2> QED
    BY <2>1, <2>2, <2>3, BareStays, WrapsStay DEF Starting
<1>13. CASE PerlReturns
  <2>1. /\ stack # <<>> /\ Top.kind = "perl" /\ Returns
        /\ UNCHANGED classes /\ observers' = observers /\ handler' = handler /\ failed' = failed
    BY <1>13 DEF PerlReturns, Runs
  <2> QED
    BY <2>1, Uncovered, BareStays, WrapsStay
<1>14. CASE CBInit
  <2> DEFINE f == Frame("initXS", made + 1, "share")
  <2>1. /\ stack # <<>> /\ Top.kind = "perl"
        /\ UNCHANGED classes /\ observers' = observers /\ handler' = handler /\ failed' = failed
        /\ stack' = stack \/ (stack' = Append(stack, f) /\ made < MaxObjects)
    BY <1>14 DEF CBInit, Runs, Calls
  <2>2. CASE stack' = stack
    <3>1. Top' = Top
      BY <2>2 DEF Top
    <3> QED
      BY <2>1, <3>1, BareStays, WrapsStay DEF Starting
  <2>3. CASE stack' = Append(stack, f) /\ made < MaxObjects
    <3>1. f \in Activation /\ f.at = "share"
      <4>1. made + 1 \in 0 .. MaxObjects
        BY <1>0, <2>3, TypeParts
      <4> HIDE DEF f
      <4> QED
        BY <4>1, Frames DEF f, Steps
    <3> HIDE DEF f
    <3>2. Top' = f
      BY <1>0, <2>3, <3>1, NewTop
    <3> QED
      BY <2>1, <3>1, <3>2, BareStays, WrapsStay DEF Starting
  <2> QED
    BY <2>1, <2>2, <2>3
<1>15. ASSUME NEW b \in Bundled, LoadBundle(b)
       PROVE  Wraps'
  <2>1. /\ stack # <<>> /\ Top.kind \in {"perl", "native"}
        /\ loaded' = loaded \cup {b} /\ isa' = isa
        /\ observers' = observers /\ handler' = handler /\ failed' = failed
    BY <1>15 DEF LoadBundle, Runs
  <2>2. CASE observers = {}
    <3>1. Top' = Top
      BY <1>15, <2>2 DEF LoadBundle, Top
    <3> QED
      BY <2>1, <2>2, <3>1 DEF Wraps, Starting
  <2>3. CASE observers # {}
    <3> DEFINE n == {b} f == Notice(n, observers)
    <3>1. n \in SUBSET Bundled /\ observers \in SUBSET (1 .. MaxObjects)
      BY <1>0, TypeParts
    <3>2. stack' = Append(stack, f)
      BY <1>15, <2>3 DEF LoadBundle, Calls
    <3> HIDE DEF n
    <3>3. f \in Activation /\ f.kind = "bundleDidLoad" /\ f.new = n
      BY <3>1, Notices DEF Notice
    <3> HIDE DEF f
    <3>4. Top' = f /\ stack' # <<>>
      BY <1>0, <3>2, <3>3, NewTop
    <3>5. Bare = {}
      BY <2>1, <2>3 DEF Wraps, Covered, Runs
    <3>6. Bare' \subseteq n
      BY <2>1, <3>5 DEF Bare, n
    <3>7. Covered'
      BY <3>3, <3>4, <3>6 DEF Covered, Runs
    <3> QED
      BY <2>1, <2>3, <3>3, <3>4, <3>7 DEF Wraps, Starting
  <2> QED
    BY <2>2, <2>3
<1>16. ASSUME NEW c \in Registered, Register(c)
       PROVE  Wraps'
  <2>1. /\ stack # <<>> /\ Top.kind = "perl" /\ stack' = stack
        /\ loaded' = loaded \cup {c} /\ isa' = [isa EXCEPT ![c] = "all"]
        /\ observers' = observers /\ handler' = handler /\ failed' = failed
    BY <1>16 DEF Register, Runs
  <2>2. Bare' \subseteq Bare
    BY <1>0, <2>1 DEF Bare, Classes
  <2>3. Top' = Top
    BY <2>1 DEF Top
  <2> QED
    BY <2>1, <2>2, <2>3, WrapsStay DEF Starting
<1> QED
  BY <1>1, <1>2, <1>3, <1>5, <1>6, <1>7, <1>8, <1>9, <1>10, <1>11, <1>12, <1>13, <1>14, <1>15,
     <1>16, Cases
----------------------------------------------------------------------------
(* The theorems.                                                            *)

\* Types; in particular neither way of starting makes an interpreter or an
\* object beyond those that the program's own activations account for.
THEOREM StartupType == Spec => []TypeOK
<1>1. Inv => TypeOK
  <2> SUFFICES ASSUME Inv
               PROVE  TypeOK
    OBVIOUS
  <2>1. Types /\ Flags /\ stack \in Seq(Activation)
    BY DEF Inv
  <2>2. /\ shared \in 0 .. MaxObjects /\ made \in 0 .. MaxObjects
        /\ interp \in 0 .. MaxObjects /\ running \in 0 .. MaxObjects
    BY <2>1, TypeParts
  <2>3. /\ loaded \subseteq Classes /\ isa \in [Classes -> {"nothing", "super", "all"}]
        /\ observers \subseteq 1 .. MaxObjects /\ failed \subseteq Bundled \cup {"start"}
    BY <2>1, TypeParts
  <2> QED
    BY <2>1, <2>2, <2>3 DEF TypeOK, Flags
<1> QED
  BY <1>1, AlwaysInv, PTL

\* Whichever language starts, and whoever overtakes whom, there is one
\* interpreter: sharedPerl, init and initXS never make or adopt another.
THEOREM OneInterpreter == Spec => InterpreterStays
<1>1. Inv /\ [Next]_vars => [interp # 0 => interp' = interp /\ running' = running]_vars
  <2> SUFFICES ASSUME Inv, [Next]_vars, interp # 0
               PROVE  interp' = interp /\ running' = running
    OBVIOUS
  <2> QED
    BY Cases, SharedPerlStep, ShareStep, EarlyIsQuiet, FailureIsQuiet, UseStep, ConstructorStep,
       BundleStep, ProgramStep, RegisterStep, IdleStep DEF Quiet
<1> QED
  BY <1>1, AlwaysInv, PTL DEF Spec, InterpreterStays

\* The shared object changes only to an older one, whose init an early "use
\* CamelBones" has overtaken.
THEOREM OneSharedObject == Spec => SharedStays
<1>1. Inv /\ [Next]_vars =>
        [shared # 0 /\ shared' # shared => Top.kind = "init" /\ Top.self < shared]_vars
  <2> SUFFICES ASSUME Inv, [Next]_vars, shared # 0, shared' # shared
               PROVE  Top.kind = "init" /\ Top.self < shared
    OBVIOUS
  <2> QED
    BY Cases, SharedPerlStep, ShareStep, EarlyIsQuiet, FailureIsQuiet, UseStep, ConstructorStep,
       BundleStep, ProgramStep, RegisterStep, IdleStep DEF Quiet
<1> QED
  BY <1>1, AlwaysInv, PTL DEF Spec, SharedStays

\* The bridge the program started with is the one it keeps.
THEOREM OneBridge == Spec => BridgeStays
  BY OneInterpreter, OneSharedObject DEF BridgeStays

\* An object that is shared but not ready, with nobody at work on it, is what
\* a failed eval has left.
THEOREM HalfStartsAreFailures == Spec => []HalfStartIsKnown
<1>1. ASSUME Inv, shared # 0, Started, ~handler
      PROVE  "start" \in failed
  <2>1. handler = FALSE
    BY <1>1, Zenon DEF Inv, Flags
  <2>2. "start" \in failed \/ \E i \in DOMAIN stack : stack[i].kind \in Starts
    BY <1>1, <2>1 DEF Inv, Working
  <2> QED
    BY <1>1, <2>2 DEF Started, Starts
<1>2. Inv => HalfStartIsKnown
  BY <1>1 DEF HalfStartIsKnown
<1> QED
  BY <1>2, AlwaysInv, PTL

\* The parents that Perl code has given to its classes are lost only to an init
\* that finds such classes, and then it is not the only constructor.
THEOREM ParentsAreKept == Spec => ParentsStay
<1>1. ASSUME Inv, [Next]_vars, NEW c \in Registered, isa[c] = "all", isa'[c] # "all"
      PROVE  Top.kind = "init" /\ made > 1
  <2>1. c \in Classes /\ isa' # isa
    BY <1>1 DEF Classes
  <2>2. CASE Wrap
    <3>1. stack # <<>> /\ Top.kind \in Starts
      BY <2>2 DEF Wrap, Starting, Starts
    <3>2. Top = stack[Len(stack)] /\ Len(stack) \in DOMAIN stack /\ Parents /\ made \in Nat
      BY <1>1, <3>1, TopFacts, TypeParts DEF Inv
    <3>3. ~NoParents
      BY <1>1 DEF NoParents
    <3> QED
      BY <3>1, <3>2, <3>3 DEF Parents, Starts
  <2>3. ~Parse /\ ~Evals /\ ~Observe /\ ~RegisterHandler
    BY <2>1 DEF Parse, Evals, Observe, RegisterHandler, classes
  <2> QED
    BY <1>1, <2>1, <2>2, <2>3, Cases, SharedPerlStep, ShareStep, EarlyIsQuiet, FailureIsQuiet,
       UseStep, BundleStep, ProgramStep, RegisterStep, IdleStep
<1>2. Inv /\ [Next]_vars =>
        [\A c \in Registered : isa[c] = "all" /\ isa'[c] # "all"
           => Top.kind = "init" /\ made > 1]_vars
  BY <1>1
<1> QED
  BY <1>2, AlwaysInv, PTL DEF Spec, ParentsStay

\* When the class handler (Runtime.m) is there and no CBPerl method is being
\* executed, each class of the runtime has its @ISA, whenever its bundle was
\* loaded: during init, inside initXS, from Perl or from native code.  Those whose
\* bundle has failed, or that are skipped by their name, are the exceptions.
THEOREM ClassesAreWrapped == Spec => []ClassesWrapped
<1>1. Init => Wraps
  BY WrapsInit
<1>2. Inv /\ Wraps /\ [Next]_vars => Wraps'
  BY WrapsStep
<1>3. Inv /\ Wraps => ClassesWrapped
  <2> SUFFICES ASSUME Inv, Wraps, handler, Started, NEW c \in loaded, isa[c] = "nothing"
               PROVE  c \in Skipped \/ c \in failed
    BY DEF ClassesWrapped
  <2>1. handler # FALSE
    BY Zenon
  <2>2. Covered
    BY <2>1 DEF Wraps
  <2>3. ~Runs("bundleDidLoad")
    <3>1. ASSUME stack # <<>>
          PROVE  Top.kind \in {"native", "perl"}
      BY <3>1, TopFacts DEF Started
    <3> QED
      BY <3>1 DEF Runs
  <2> QED
    BY <2>2, <2>3 DEF Covered, Bare
<1> QED
  BY <1>1, <1>2, <1>3, AlwaysInv, PTL DEF Spec
=============================================================================
