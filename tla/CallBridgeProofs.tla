-------------------------- MODULE CallBridgeProofs --------------------------
(***************************************************************************)
(* Proofs about CallBridge, for every set of error values and every bound. *)
(***************************************************************************)
EXTENDS CallBridge, SequenceTheorems, TLAPS, WellFoundedInduction

(***************************************************************************)
(* The ways a step changes the stack of activations.                       *)
(***************************************************************************)

\* Push: a callee on top, nothing else moves.
LEMMA PushFacts ==
  ASSUME NEW s \in Seq(Frame), NEW f \in Frame
  PROVE  /\ Append(s, f) \in Seq(Frame)
         /\ Len(Append(s, f)) = Len(s) + 1
         /\ \A i \in 1 .. Len(s) : Append(s, f)[i] = s[i]
         /\ Append(s, f)[Len(s) + 1] = f
BY AppendProperties

\* Become: only the top changes.
LEMMA BecomeFacts ==
  ASSUME NEW s \in Seq(Frame), Len(s) > 0, NEW f \in Frame
  PROVE  /\ [s EXCEPT ![Len(s)] = f] \in Seq(Frame)
         /\ Len([s EXCEPT ![Len(s)] = f]) = Len(s)
         /\ \A i \in 1 .. Len(s) - 1 : [s EXCEPT ![Len(s)] = f][i] = s[i]
         /\ [s EXCEPT ![Len(s)] = f][Len(s)] = f
OBVIOUS

\* Pop: the callers stay as they are.
LEMMA PopFacts ==
  ASSUME NEW s \in Seq(Frame), Len(s) > 1
  PROVE  /\ SubSeq(s, 1, Len(s) - 1) \in Seq(Frame)
         /\ Len(SubSeq(s, 1, Len(s) - 1)) = Len(s) - 1
         /\ \A i \in 1 .. Len(s) - 1 : SubSeq(s, 1, Len(s) - 1)[i] = s[i]
<1>1. \A i \in 1 .. Len(s) - 1 : s[i] \in Frame
  BY ElementOfSeq
<1>2. QED
  BY <1>1, SubSeqProperties

\* PopTo: the callee goes and its caller changes.
LEMMA PopToFacts ==
  ASSUME NEW s \in Seq(Frame), Len(s) > 1, NEW f \in Frame,
         NEW t, t = [SubSeq(s, 1, Len(s) - 1) EXCEPT ![Len(s) - 1] = f]
  PROVE  /\ t \in Seq(Frame)
         /\ Len(t) = Len(s) - 1
         /\ \A i \in 1 .. Len(s) - 2 : t[i] = s[i]
         /\ t[Len(s) - 1] = f
<1> DEFINE b == SubSeq(s, 1, Len(s) - 1)
<1>1. /\ b \in Seq(Frame) /\ Len(b) = Len(s) - 1
      /\ \A i \in 1 .. Len(s) - 1 : b[i] = s[i]
  BY PopFacts
<1>2. t = [b EXCEPT ![Len(b)] = f]
  BY <1>1
<1> HIDE DEF b
<1>3. Len(b) > 0 /\ Len(s) \in Nat
  BY <1>1
<1>4. /\ t \in Seq(Frame) /\ Len(t) = Len(b) /\ t[Len(b)] = f
      /\ \A i \in 1 .. Len(b) - 1 : t[i] = b[i]
  BY <1>1, <1>2, <1>3, BecomeFacts, SMTT(30)
<1>5. QED
  BY <1>1, <1>3, <1>4

\* A gate starts its call: it waits at "during" and its callee is on top.
LEMMA BecomeAndPushFacts ==
  ASSUME NEW s \in Seq(Frame), Len(s) > 0, NEW f \in Frame, NEW g \in Frame,
         NEW t, t = Append([s EXCEPT ![Len(s)] = f], g)
  PROVE  /\ t \in Seq(Frame)
         /\ Len(t) = Len(s) + 1
         /\ \A i \in 1 .. Len(s) - 1 : t[i] = s[i]
         /\ t[Len(s)] = f
         /\ t[Len(s) + 1] = g
<1> DEFINE u == [s EXCEPT ![Len(s)] = f]
<1>1. /\ u \in Seq(Frame) /\ Len(u) = Len(s) /\ u[Len(s)] = f
      /\ \A i \in 1 .. Len(s) - 1 : u[i] = s[i]
  BY BecomeFacts
<1>2. t = Append(u, g)
  OBVIOUS
<1> HIDE DEF u
<1>3. /\ t \in Seq(Frame) /\ Len(t) = Len(u) + 1 /\ t[Len(u) + 1] = g
      /\ \A i \in 1 .. Len(u) : t[i] = u[i]
  BY <1>1, <1>2, PushFacts
<1>4. QED
  BY <1>1, <1>3

\* Two activations at once: a gate without a step before its call.
LEMMA PushTwoFacts ==
  ASSUME NEW s \in Seq(Frame), NEW f \in Frame, NEW g \in Frame,
         NEW t, t = s \o <<f, g>>
  PROVE  /\ t \in Seq(Frame)
         /\ Len(t) = Len(s) + 2
         /\ \A i \in 1 .. Len(s) : t[i] = s[i]
         /\ t[Len(s) + 1] = f
         /\ t[Len(s) + 2] = g
<1>1. <<f, g>> \in Seq(Frame) /\ Len(<<f, g>>) = 2
  OBVIOUS
<1>2. QED
  BY <1>1, ConcatProperties

(***************************************************************************)
(* Type correctness.                                                       *)
(***************************************************************************)
LEMMA TopType ==
  ASSUME TypeOK
  PROVE  /\ Top \in Frame
         /\ Len(frames) \in Nat \ {0}
         /\ Len(frames) > 1 => Caller \in Frame
<1>1. Len(frames) \in Nat /\ Len(frames) > 0
  BY DEF TypeOK
<1>2. \A i \in 1 .. Len(frames) : frames[i] \in Frame
  BY ElementOfSeq DEF TypeOK
<1>3. QED
  BY <1>1, <1>2 DEF Top, Caller

LEMMA NewFrameType ==
  ASSUME NEW k \in Kinds, NEW pc \in Points,
         NEW b \in Nat, NEW p \in Nat
  PROVE  NewFrame(k, pc, b, p) \in Frame
BY DEF NewFrame, Frame

\* Changing a frame's point, handler or flag gives a frame.
LEMMA FrameUpdates ==
  ASSUME NEW f \in Frame, NEW pc \in Points,
         NEW b \in BOOLEAN, NEW w \in BOOLEAN, NEW m \in Nat
  PROVE  At(f, pc) \in Frame /\ Resumed(f, pc, w) \in Frame /\ Guarded(f, b, m, w) \in Frame
BY DEF Frame, At, Resumed, Guarded

LEMMA ErrorTypes ==
  /\ NoErr \in Errors
  /\ DieValue \subseteq Errors
  /\ [tag |-> "Died"] \in Errors
  /\ [tag |-> "unknown method"] \in Errors
  /\ [tag |-> "no such method"] \in Errors
BY DEF Errors, Croaks, NoErr, DieValue

(***************************************************************************)
(* The inductive invariant.  Each of the properties of CallBridge speaks   *)
(* of one activation, of an activation and its callee, or of the innermost *)
(* activation and the interpreter; IInv collects them in that order, so    *)
(* that a step only has to be examined at the top of the stack.  What it   *)
(* adds to them: the gates that are entered from native code never carry   *)
(* the swallowed flag, and a native call carries it only once its method   *)
(* has returned; only Perl code is ever lost, and it is not lost while the *)
(* call it made is being prepared or has died.                             *)
(***************************************************************************)
Sound(f) ==
  /\ Floor(f) >= f.base
  /\ f.kind = "perl" /\ f.guard /\ f.mark > f.base => f.swallowed
  /\ f.kind \in {"imp", "eval"} => ~f.swallowed
  /\ f.kind = "call" /\ f.pc # "after" => ~f.swallowed
  /\ f.pc = "lost" => f.kind = "perl"

Linked(f, g) ==
  /\ <<f.kind, g.kind>> \in Calls
  /\ f.kind \in Gates => f.pc = "during"
  /\ g.base >= Floor(f)
  /\ g.base > Floor(f) => f.swallowed
  /\ g.sp >= f.sp
  /\ f.kind = "perl" => g.sp = f.sp

Chain(s) ==
  /\ s[1].kind \in {"perl", "objc"}
  /\ \A i \in 1 .. Len(s) : Sound(s[i])
  /\ \A i \in 1 .. Len(s) - 1 : Linked(s[i], s[i + 1])

Fits(f, m, sc, sl) ==
  /\ m = "run"   => (f.kind \in Gates => f.pc # "during")
  /\ m = "die"   => f.kind \in {"perl", "call"}
  /\ m = "raise" => f.kind = "objc" \/ (f.kind = "call" /\ f.pc = "during")
  /\ sc >= Floor(f)
  /\ m = "run" /\ sc > Floor(f) => f.swallowed
  /\ sl >= f.sp
  /\ m = "run" /\ (f.kind = "perl" \/ (f.kind = "call" /\ f.pc = "args")) => sl = f.sp
  /\ f.pc # "lost"

\* The native call f may still end in its Perl caller.
Returns(f, m) == f.kind = "call" /\ (m = "die" \/ f.pc = "args")
CallerLives   == Returns(Top, mode) => Caller.pc # "lost"

IInv == TypeOK /\ Chain(frames) /\ Fits(Top, mode, scope, slots) /\ CallerLives

\* What a caller sees of its callee.
Alike(f, g) == f.kind = g.kind /\ f.base = g.base /\ f.sp = g.sp

LEMMA AlikeLinked ==
  ASSUME NEW h, NEW f, NEW g, Linked(h, f), Alike(f, g)
  PROVE  Linked(h, g)
BY DEF Linked, Alike

LEMMA UpdatesAlike ==
  ASSUME NEW f \in Frame, NEW pc, NEW b, NEW w, NEW m
  PROVE  Alike(f, At(f, pc)) /\ Alike(f, Resumed(f, pc, w)) /\ Alike(f, Guarded(f, b, m, w))
BY DEF Alike, At, Resumed, Guarded

\* The chain holds again after a call ...
LEMMA ChainPush ==
  ASSUME NEW s, NEW t, NEW f, Len(s) \in Nat \ {0}, Chain(s), Sound(f), Linked(s[Len(s)], f),
         Len(t) = Len(s) + 1, \A i \in 1 .. Len(s) : t[i] = s[i], t[Len(s) + 1] = f
  PROVE  Chain(t)
<1>1. t[1].kind \in {"perl", "objc"}
  BY DEF Chain
<1>2. ASSUME NEW i \in 1 .. Len(t) PROVE Sound(t[i])
  <2>1. CASE i = Len(s) + 1
    BY <2>1
  <2>2. CASE i \in 1 .. Len(s)
    BY <2>2 DEF Chain
  <2>3. QED
    BY <2>1, <2>2
<1>3. ASSUME NEW i \in 1 .. Len(t) - 1 PROVE Linked(t[i], t[i + 1])
  <2>1. CASE i = Len(s)
    BY <2>1
  <2>2. CASE i \in 1 .. Len(s) - 1
    BY <2>2 DEF Chain
  <2>3. QED
    BY <2>1, <2>2
<1>4. QED
  BY <1>1, <1>2, <1>3 DEF Chain

\* ... after a change of the innermost activation ...
LEMMA ChainBecome ==
  ASSUME NEW s, NEW t, NEW f, Len(s) \in Nat \ {0}, Chain(s), Sound(f), Alike(s[Len(s)], f),
         Len(t) = Len(s), \A i \in 1 .. Len(s) - 1 : t[i] = s[i], t[Len(s)] = f
  PROVE  Chain(t)
<1>1. t[1].kind \in {"perl", "objc"}
  <2>1. CASE Len(s) = 1
    BY <2>1 DEF Chain, Alike
  <2>2. CASE Len(s) > 1
    BY <2>2 DEF Chain
  <2>3. QED
    BY <2>1, <2>2
<1>2. ASSUME NEW i \in 1 .. Len(t) PROVE Sound(t[i])
  <2>1. CASE i = Len(s)
    BY <2>1
  <2>2. CASE i \in 1 .. Len(s) - 1
    BY <2>2 DEF Chain
  <2>3. QED
    BY <2>1, <2>2
<1>3. ASSUME NEW i \in 1 .. Len(t) - 1 PROVE Linked(t[i], t[i + 1])
  <2>1. t[i] = s[i] /\ Linked(s[i], s[i + 1])
    BY DEF Chain
  <2>2. CASE i + 1 = Len(s)
    BY <2>1, <2>2, AlikeLinked
  <2>3. CASE i + 1 \in 1 .. Len(s) - 1
    BY <2>1, <2>3
  <2>4. QED
    BY <2>2, <2>3
<1>4. QED
  BY <1>1, <1>2, <1>3 DEF Chain

\* ... and after a return or an unwinding.
LEMMA ChainPop ==
  ASSUME NEW s, NEW t, Len(s) \in Nat, Len(s) > 1, Chain(s),
         Len(t) = Len(s) - 1, \A i \in 1 .. Len(s) - 1 : t[i] = s[i]
  PROVE  Chain(t)
<1>1. \A i \in 1 .. Len(t) : t[i] = s[i] /\ i \in 1 .. Len(s)
  OBVIOUS
<1>2. \A i \in 1 .. Len(t) - 1 : t[i] = s[i] /\ t[i + 1] = s[i + 1] /\ i \in 1 .. Len(s) - 1
  OBVIOUS
<1>3. t[1] = s[1]
  BY <1>1
<1>4. QED
  BY <1>1, <1>2, <1>3 DEF Chain

(***************************************************************************)
(* What is known of the two innermost activations, and what each kind of   *)
(* change of the stack leaves to be shown.                                 *)
(***************************************************************************)
LEMMA TopFacts ==
  ASSUME IInv
  PROVE  /\ TypeOK
         /\ Len(frames) \in Nat \ {0}
         /\ Top \in Frame /\ Sound(Top)
         /\ Fits(Top, mode, scope, slots)
         /\ Len(frames) = 1 => Top.kind \in {"perl", "objc"}
         /\ Len(frames) > 1 => /\ Caller \in Frame /\ Sound(Caller)
                               /\ Linked(Caller, Top)
<1>1. TypeOK /\ Fits(Top, mode, scope, slots) /\ Chain(frames)
  BY DEF IInv
<1>2. /\ Len(frames) \in Nat \ {0} /\ Top \in Frame
      /\ Len(frames) > 1 => Caller \in Frame
  BY <1>1, TopType
<1>3. Sound(Top) /\ (Len(frames) = 1 => Top.kind \in {"perl", "objc"})
  BY <1>1, <1>2 DEF Chain, Top
<1>4. Len(frames) > 1 => Sound(Caller) /\ Linked(Caller, Top)
  BY <1>1, <1>2 DEF Chain, Top, Caller
<1>5. QED
  BY <1>1, <1>2, <1>3, <1>4

LEMMA AfterPush ==
  ASSUME IInv, NEW f \in Frame, Sound(f), Linked(Top, f), Push(f)
  PROVE  /\ frames' \in Seq(Frame) /\ Len(frames') > 0
         /\ Chain(frames') /\ Top' = f
<1>1. /\ frames \in Seq(Frame) /\ Len(frames) \in Nat \ {0}
      /\ Chain(frames) /\ Linked(frames[Len(frames)], f)
  BY TopFacts DEF IInv, TypeOK, Top
<1>2. /\ frames' \in Seq(Frame) /\ Len(frames') = Len(frames) + 1
      /\ \A i \in 1 .. Len(frames) : frames'[i] = frames[i]
      /\ frames'[Len(frames) + 1] = f
  BY <1>1, PushFacts DEF Push
<1>3. Chain(frames')
  BY <1>1, <1>2, ChainPush
<1>4. QED
  BY <1>1, <1>2, <1>3 DEF Top

LEMMA AfterBecome ==
  ASSUME IInv, NEW f \in Frame, Sound(f), Alike(Top, f), Become(f)
  PROVE  /\ frames' \in Seq(Frame) /\ Len(frames') > 0
         /\ Chain(frames') /\ Top' = f
<1>1. /\ frames \in Seq(Frame) /\ Len(frames) \in Nat \ {0}
      /\ Chain(frames) /\ Alike(frames[Len(frames)], f)
  BY TopFacts DEF IInv, TypeOK, Top
<1>2. /\ frames' \in Seq(Frame) /\ Len(frames') = Len(frames)
      /\ \A i \in 1 .. Len(frames) - 1 : frames'[i] = frames[i]
      /\ frames'[Len(frames)] = f
  BY <1>1, BecomeFacts DEF Become
<1>3. Chain(frames')
  BY <1>1, <1>2, ChainBecome
<1>4. QED
  BY <1>1, <1>2, <1>3 DEF Top

LEMMA AfterPop ==
  ASSUME IInv, Len(frames) > 1, Pop
  PROVE  /\ frames' \in Seq(Frame) /\ Len(frames') > 0
         /\ Chain(frames') /\ Top' = Caller
<1>1. frames \in Seq(Frame) /\ Len(frames) \in Nat \ {0} /\ Chain(frames)
  BY TopFacts DEF IInv, TypeOK
<1>2. /\ frames' \in Seq(Frame) /\ Len(frames') = Len(frames) - 1
      /\ \A i \in 1 .. Len(frames) - 1 : frames'[i] = frames[i]
  BY <1>1, PopFacts DEF Pop, Below
<1>3. Chain(frames')
  BY <1>1, <1>2, ChainPop
<1>4. QED
  BY <1>1, <1>2, <1>3 DEF Top, Caller

LEMMA AfterPopTo ==
  ASSUME IInv, Len(frames) > 1, NEW f \in Frame, Sound(f), Alike(Caller, f), PopTo(f)
  PROVE  /\ frames' \in Seq(Frame) /\ Len(frames') > 0
         /\ Chain(frames') /\ Top' = f
<1>1. /\ frames \in Seq(Frame) /\ Len(frames) \in Nat \ {0} /\ Chain(frames)
      /\ Alike(frames[Len(frames) - 1], f)
  BY TopFacts DEF IInv, TypeOK, Caller
<1>2. PICK b : /\ b \in Seq(Frame) /\ Len(b) = Len(frames) - 1
              /\ \A i \in 1 .. Len(frames) - 1 : b[i] = frames[i]
              /\ b = Below
  BY <1>1, PopFacts DEF Below
<1>3. Chain(b) /\ Alike(b[Len(b)], f) /\ Len(b) \in Nat \ {0}
  BY <1>1, <1>2, ChainPop
<1>4. /\ frames' \in Seq(Frame) /\ Len(frames') = Len(frames) - 1
      /\ \A i \in 1 .. Len(frames) - 2 : frames'[i] = frames[i]
      /\ frames'[Len(frames) - 1] = f
  BY <1>1, PopToFacts, SMTT(30) DEF PopTo, Below
<1>5. \A i \in 1 .. Len(b) - 1 : frames'[i] = b[i]
  BY <1>1, <1>2, <1>4
<1>6. Chain(frames')
  BY <1>2, <1>3, <1>4, <1>5, ChainBecome
<1>7. QED
  BY <1>1, <1>4, <1>6 DEF Top

LEMMA AfterAwait ==
  ASSUME IInv, NEW f \in Frame, NEW g \in Frame, Sound(f), Alike(Top, f),
         Sound(g), Linked(f, g), Await(f, g)
  PROVE  /\ frames' \in Seq(Frame) /\ Len(frames') > 0
         /\ Chain(frames') /\ Top' = g
<1>1. /\ frames \in Seq(Frame) /\ Len(frames) \in Nat \ {0}
      /\ Chain(frames) /\ Alike(frames[Len(frames)], f)
  BY TopFacts DEF IInv, TypeOK, Top
<1>a. /\ [frames EXCEPT ![Len(frames)] = f] \in Seq(Frame)
      /\ Len([frames EXCEPT ![Len(frames)] = f]) = Len(frames)
      /\ [frames EXCEPT ![Len(frames)] = f][Len(frames)] = f
      /\ \A i \in 1 .. Len(frames) - 1 : [frames EXCEPT ![Len(frames)] = f][i] = frames[i]
  BY <1>1, BecomeFacts
<1>2. PICK u : /\ u \in Seq(Frame) /\ Len(u) = Len(frames) /\ u[Len(frames)] = f
              /\ \A i \in 1 .. Len(frames) - 1 : u[i] = frames[i]
  BY <1>a, Zenon
<1>3. Chain(u)
  BY <1>1, <1>2, ChainBecome
<1>4. /\ frames' \in Seq(Frame) /\ Len(frames') = Len(frames) + 1
      /\ \A i \in 1 .. Len(frames) - 1 : frames'[i] = frames[i]
      /\ frames'[Len(frames)] = f /\ frames'[Len(frames) + 1] = g
  BY <1>1, BecomeAndPushFacts DEF Await
<1>5. \A i \in 1 .. Len(u) : frames'[i] = u[i]
  BY <1>1, <1>2, <1>4
<1>6. Chain(frames')
  BY <1>1, <1>2, <1>3, <1>4, <1>5, ChainPush
<1>7. QED
  BY <1>1, <1>4, <1>6 DEF Top

(***************************************************************************)
(* Every step preserves IInv: one step of the proof per action, from the   *)
(* facts about Top and Caller and the shape of the change of the stack.    *)
(***************************************************************************)
LEMMA Known ==
  ASSUME IInv
  PROVE  /\ Len(frames) \in Nat \ {0} /\ Top \in Frame /\ Sound(Top)
         /\ Fits(Top, mode, scope, slots)
         /\ scope \in Nat /\ slots \in Nat /\ errsv \in Errors
         /\ mode \in Modes
         /\ frames \in Seq(Frame) /\ Chain(frames)
BY TopFacts DEF TypeOK, IInv

LEMMA CallerKnown ==
  ASSUME IInv, Len(frames) > 1
  PROVE  /\ Caller \in Frame /\ Sound(Caller) /\ Linked(Caller, Top)
         /\ Returns(Top, mode) => Caller.pc # "lost"
BY TopFacts DEF IInv, CallerLives

\* A gate is never outermost.
LEMMA HasCaller ==
  ASSUME IInv, Top.kind \in Gates
  PROVE  Len(frames) > 1
<1>1. Len(frames) \in Nat \ {0} /\ Top \in Frame
  BY Known
<1>2. Len(frames) = 1 => Top.kind \in {"perl", "objc"}
  BY TopFacts
<1>3. Len(frames) # 1
  BY <1>1, <1>2 DEF Gates, Frame, Kinds
<1>4. \A n \in Nat \ {0} : n # 1 => n > 1
  OBVIOUS
<1>5. QED
  BY <1>1, <1>3, <1>4, Zenon

\* The assembly of IInv' from its parts, for a step after which no native
\* call is about to return, and for one that leaves the stack as it is.
LEMMA Assemble ==
  ASSUME mode' \in Modes, errsv' \in Errors,
         scope' \in Nat, slots' \in Nat,
         frames' \in Seq(Frame), Len(frames') > 0, Chain(frames'),
         NEW f, Top' = f, Fits(f, mode', scope', slots'), ~Returns(f, mode')
  PROVE  IInv'
BY DEF IInv, TypeOK, CallerLives

LEMMA AssembleSame ==
  ASSUME IInv, mode' \in Modes, errsv' \in Errors, scope' \in Nat, slots' \in Nat,
         UNCHANGED frames, Fits(Top, mode', scope', slots'),
         Returns(Top, mode') => Caller.pc # "lost"
  PROVE  IInv'
<1>1. Top' = Top /\ Caller' = Caller
  BY DEF Top, Caller
<1>2. frames' \in Seq(Frame) /\ Len(frames') > 0 /\ Chain(frames')
  BY Known
<1> QED
  BY <1>1, <1>2 DEF IInv, TypeOK, CallerLives

\* A new native call: its caller is the activation that ran.
LEMMA AssembleCall ==
  ASSUME IInv, mode' \in Modes, errsv' \in Errors, scope' \in Nat, slots' \in Nat,
         NEW f \in Frame, Sound(f), Linked(Top, f), Push(f), Top.pc # "lost",
         Fits(f, mode', scope', slots')
  PROVE  IInv'
<1>1. frames' \in Seq(Frame) /\ Len(frames') > 0 /\ Chain(frames') /\ Top' = f
  BY AfterPush
<1>2. Caller' = Top
  <2>1. frames \in Seq(Frame) /\ Len(frames) \in Nat \ {0}
    BY Known
  <2>2. Len(frames') = Len(frames) + 1 /\ frames'[Len(frames)] = frames[Len(frames)]
    BY <2>1, PushFacts DEF Push
  <2>3. QED
    BY <2>1, <2>2 DEF Caller, Top
<1> QED
  BY <1>1, <1>2 DEF IInv, TypeOK, CallerLives

LEMMA PerlOpensEvalStep ==
  ASSUME IInv, PerlOpensEval
  PROVE  IInv'
<1>1. Top \in Frame /\ Sound(Top) /\ Fits(Top, mode, scope, slots) /\ scope \in Nat /\ slots \in Nat
      /\ errsv \in Errors
  BY Known
<1> DEFINE f == Guarded(Top, TRUE, scope, Top.swallowed)
<1>2. f \in Frame /\ Alike(Top, f)
  BY <1>1, FrameUpdates, UpdatesAlike, ZenonT(60) DEF Frame, Points
<1>3. Sound(f) /\ Fits(f, mode', scope', slots') /\ ~Returns(f, mode')
  BY <1>1 DEF PerlOpensEval, Guarded, At, Resumed, Running, Sound, Linked, Alike, Fits, Floor, HoldsScope, Gates, Calls, Frame, Room, Returns
<1>4. /\ mode' \in Modes /\ errsv' \in Errors
      /\ scope' \in Nat /\ slots' \in Nat
  <2>1. mode' \in Modes /\ errsv' \in Errors
    BY <1>1, ErrorTypes DEF Modes, PerlOpensEval, Running, Frame
  <2>2. scope' \in Nat /\ slots' \in Nat
    BY <1>1 DEF PerlOpensEval, Running, Frame
  <2>3. QED
    BY <2>1, <2>2
<1>5. Become(f)
  BY DEF PerlOpensEval
<1> HIDE DEF f
<1>6. QED
  BY <1>2, <1>3, <1>4, <1>5, AfterBecome, Assemble

LEMMA PerlClosesEvalStep ==
  ASSUME IInv, PerlClosesEval
  PROVE  IInv'
<1>1. Top \in Frame /\ Sound(Top) /\ Fits(Top, mode, scope, slots) /\ scope \in Nat /\ slots \in Nat
      /\ errsv \in Errors
  BY Known
<1> DEFINE f == Guarded(Top, FALSE, 0, Top.swallowed)
<1>2. f \in Frame /\ Alike(Top, f)
  BY <1>1, FrameUpdates, UpdatesAlike, ZenonT(60) DEF Frame, Points
<1>3. Sound(f) /\ Fits(f, mode', scope', slots') /\ ~Returns(f, mode')
  BY <1>1 DEF PerlClosesEval, Guarded, At, Resumed, Running, Sound, Linked, Alike, Fits, Floor, HoldsScope, Gates, Calls, Frame, Room, Returns
<1>4. /\ mode' \in Modes /\ errsv' \in Errors
      /\ scope' \in Nat /\ slots' \in Nat
  <2>1. mode' \in Modes /\ errsv' \in Errors
    BY <1>1, ErrorTypes DEF Modes, PerlClosesEval, Running, Frame
  <2>2. scope' \in Nat /\ slots' \in Nat
    BY <1>1 DEF PerlClosesEval, Running, Frame
  <2>3. QED
    BY <2>1, <2>2
<1>5. Become(f)
  BY DEF PerlClosesEval
<1> HIDE DEF f
<1>6. QED
  BY <1>2, <1>3, <1>4, <1>5, AfterBecome, Assemble

LEMMA PerlDiesStep ==
  ASSUME IInv, PerlDies
  PROVE  IInv'
<1>1. Top \in Frame /\ Sound(Top) /\ Fits(Top, mode, scope, slots) /\ scope \in Nat /\ slots \in Nat
      /\ errsv \in Errors /\ frames \in Seq(Frame) /\ Len(frames) > 0 /\ Chain(frames)
  BY Known
<1>2. frames' = frames /\ Top' = Top
  BY DEF PerlDies, Top
<1>3. Fits(Top, mode', scope', slots') /\ ~Returns(Top, mode')
  BY <1>1 DEF PerlDies, Running, Sound, Linked, Alike, Fits, Floor, HoldsScope, Gates, Calls, Frame, Room, Returns
<1>4. /\ mode' \in Modes /\ errsv' \in Errors
      /\ scope' \in Nat /\ slots' \in Nat
  <2>1. mode' \in Modes /\ errsv' \in Errors
    BY <1>1, ErrorTypes DEF Modes, PerlDies
  <2>2. scope' \in Nat /\ slots' \in Nat
    BY <1>1 DEF PerlDies
  <2>3. QED
    BY <2>1, <2>2
<1>5. QED
  BY <1>1, <1>2, <1>3, <1>4, Assemble

LEMMA PerlReturnsStep ==
  ASSUME IInv, PerlReturns
  PROVE  IInv'
<1>1. Top \in Frame /\ Sound(Top) /\ Fits(Top, mode, scope, slots) /\ scope \in Nat /\ slots \in Nat
      /\ errsv \in Errors
  BY Known
<1>2. Len(frames) > 1 /\ Caller \in Frame /\ Sound(Caller) /\ Linked(Caller, Top)
      /\ (Returns(Top, mode) => Caller.pc # "lost")
  BY CallerKnown DEF PerlReturns
<1> DEFINE f == At(Caller, "after")
<1>3. f \in Frame /\ Alike(Caller, f)
  <2>1. Caller.swallowed \in BOOLEAN /\ Top.swallowed \in BOOLEAN
    BY <1>1, <1>2 DEF Frame
  <2>2. QED
    BY <1>1, <1>2, <2>1, FrameUpdates, UpdatesAlike DEF Points
<1>4. Sound(f) /\ Fits(f, mode', scope', slots') /\ ~Returns(f, mode')
  BY <1>1, <1>2 DEF PerlReturns, At, Resumed, Running, Sound, Linked, Alike, Fits, Floor, HoldsScope, Gates, Calls, Frame, Room, Returns
<1>5. /\ mode' \in Modes /\ errsv' \in Errors
      /\ scope' \in Nat /\ slots' \in Nat
  <2>1. mode' \in Modes /\ errsv' \in Errors
    BY <1>1, <1>2, ErrorTypes DEF Modes, PerlReturns, Running, Linked, Fits, Floor, HoldsScope, Frame
  <2>2. scope' \in Nat /\ slots' \in Nat
    BY <1>1, <1>2 DEF PerlReturns, Running, Linked, Fits, Floor, HoldsScope, Frame
  <2>3. QED
    BY <2>1, <2>2
<1>6. PopTo(f)
  BY DEF PerlReturns
<1> HIDE DEF f
<1>7. QED
  BY <1>2, <1>3, <1>4, <1>5, <1>6, AfterPopTo, Assemble

LEMMA ProgramEndsStep ==
  ASSUME IInv, ProgramEnds
  PROVE  IInv'
<1>1. /\ Top \in Frame /\ Sound(Top) /\ Fits(Top, mode, scope, slots)
      /\ scope \in Nat /\ slots \in Nat /\ errsv \in Errors /\ mode \in Modes
      /\ CallerLives
  BY Known DEF IInv
<1>2. Fits(Top, mode', scope', slots')
  BY <1>1 DEF ProgramEnds, Running, Sound, Fits, Floor, HoldsScope, Gates, Frame
<1>3. Returns(Top, mode') => Caller.pc # "lost"
  BY <1>1, TopFacts DEF ProgramEnds, Returns, Frame, Kinds
<1>4. mode' \in Modes /\ errsv' \in Errors /\ scope' \in Nat /\ slots' \in Nat
  BY <1>1, ErrorTypes DEF Modes, ProgramEnds
<1>5. UNCHANGED frames
  BY DEF ProgramEnds
<1> QED
  BY <1>2, <1>3, <1>4, <1>5, AssembleSame

LEMMA NativeOpensHandlerStep ==
  ASSUME IInv, NativeOpensHandler
  PROVE  IInv'
<1>1. Top \in Frame /\ Sound(Top) /\ Fits(Top, mode, scope, slots) /\ scope \in Nat /\ slots \in Nat
      /\ errsv \in Errors
  BY Known
<1> DEFINE f == Guarded(Top, TRUE, 0, Top.swallowed)
<1>2. f \in Frame /\ Alike(Top, f)
  BY <1>1, FrameUpdates, UpdatesAlike, ZenonT(60) DEF Frame, Points
<1>3. Sound(f) /\ Fits(f, mode', scope', slots') /\ ~Returns(f, mode')
  BY <1>1 DEF NativeOpensHandler, Guarded, At, Resumed, Running, Sound, Linked, Alike, Fits, Floor, HoldsScope, Gates, Calls, Frame, Room, Returns
<1>4. /\ mode' \in Modes /\ errsv' \in Errors
      /\ scope' \in Nat /\ slots' \in Nat
  <2>1. mode' \in Modes /\ errsv' \in Errors
    BY <1>1, ErrorTypes DEF Modes, NativeOpensHandler, Running, Frame
  <2>2. scope' \in Nat /\ slots' \in Nat
    BY <1>1 DEF NativeOpensHandler, Running, Frame
  <2>3. QED
    BY <2>1, <2>2
<1>5. Become(f)
  BY DEF NativeOpensHandler
<1> HIDE DEF f
<1>6. QED
  BY <1>2, <1>3, <1>4, <1>5, AfterBecome, Assemble

LEMMA NativeClosesHandlerStep ==
  ASSUME IInv, NativeClosesHandler
  PROVE  IInv'
<1>1. Top \in Frame /\ Sound(Top) /\ Fits(Top, mode, scope, slots) /\ scope \in Nat /\ slots \in Nat
      /\ errsv \in Errors
  BY Known
<1> DEFINE f == Guarded(Top, FALSE, 0, Top.swallowed)
<1>2. f \in Frame /\ Alike(Top, f)
  BY <1>1, FrameUpdates, UpdatesAlike, ZenonT(60) DEF Frame, Points
<1>3. Sound(f) /\ Fits(f, mode', scope', slots') /\ ~Returns(f, mode')
  BY <1>1 DEF NativeClosesHandler, Guarded, At, Resumed, Running, Sound, Linked, Alike, Fits, Floor, HoldsScope, Gates, Calls, Frame, Room, Returns
<1>4. /\ mode' \in Modes /\ errsv' \in Errors
      /\ scope' \in Nat /\ slots' \in Nat
  <2>1. mode' \in Modes /\ errsv' \in Errors
    BY <1>1, ErrorTypes DEF Modes, NativeClosesHandler, Running, Frame
  <2>2. scope' \in Nat /\ slots' \in Nat
    BY <1>1 DEF NativeClosesHandler, Running, Frame
  <2>3. QED
    BY <2>1, <2>2
<1>5. Become(f)
  BY DEF NativeClosesHandler
<1> HIDE DEF f
<1>6. QED
  BY <1>2, <1>3, <1>4, <1>5, AfterBecome, Assemble

LEMMA NativeRaisesStep ==
  ASSUME IInv, NativeRaises
  PROVE  IInv'
<1>1. Top \in Frame /\ Sound(Top) /\ Fits(Top, mode, scope, slots) /\ scope \in Nat /\ slots \in Nat
      /\ errsv \in Errors /\ frames \in Seq(Frame) /\ Len(frames) > 0 /\ Chain(frames)
  BY Known
<1>2. frames' = frames /\ Top' = Top
  BY DEF NativeRaises, Top
<1>3. Fits(Top, mode', scope', slots') /\ ~Returns(Top, mode')
  BY <1>1 DEF NativeRaises, Running, Sound, Linked, Alike, Fits, Floor, HoldsScope, Gates, Calls, Frame, Room, Returns
<1>4. /\ mode' \in Modes /\ errsv' \in Errors
      /\ scope' \in Nat /\ slots' \in Nat
  <2>1. mode' \in Modes /\ errsv' \in Errors
    BY <1>1, ErrorTypes DEF Modes, NativeRaises
  <2>2. scope' \in Nat /\ slots' \in Nat
    BY <1>1 DEF NativeRaises
  <2>3. QED
    BY <2>1, <2>2
<1>5. QED
  BY <1>1, <1>2, <1>3, <1>4, Assemble

LEMMA NativeReturnsStep ==
  ASSUME IInv, NativeReturns
  PROVE  IInv'
<1>1. Top \in Frame /\ Sound(Top) /\ Fits(Top, mode, scope, slots) /\ scope \in Nat /\ slots \in Nat
      /\ errsv \in Errors
  BY Known
<1>2. Len(frames) > 1 /\ Caller \in Frame /\ Sound(Caller) /\ Linked(Caller, Top)
      /\ (Returns(Top, mode) => Caller.pc # "lost")
  BY CallerKnown DEF NativeReturns
<1> DEFINE f == Resumed(Caller, "after", Caller.swallowed \/ Top.swallowed)
<1>3. f \in Frame /\ Alike(Caller, f)
  <2>1. Caller.swallowed \in BOOLEAN /\ Top.swallowed \in BOOLEAN
    BY <1>1, <1>2 DEF Frame
  <2>2. QED
    BY <1>1, <1>2, <2>1, FrameUpdates, UpdatesAlike DEF Points
<1>4. Sound(f) /\ Fits(f, mode', scope', slots') /\ ~Returns(f, mode')
  BY <1>1, <1>2 DEF NativeReturns, At, Resumed, Running, Sound, Linked, Alike, Fits, Floor, HoldsScope, Gates, Calls, Frame, Room, Returns
<1>5. /\ mode' \in Modes /\ errsv' \in Errors
      /\ scope' \in Nat /\ slots' \in Nat
  <2>1. mode' \in Modes /\ errsv' \in Errors
    BY <1>1, <1>2, ErrorTypes DEF Modes, NativeReturns, Running, Linked, Fits, Floor, HoldsScope, Frame
  <2>2. scope' \in Nat /\ slots' \in Nat
    BY <1>1, <1>2 DEF NativeReturns, Running, Linked, Fits, Floor, HoldsScope, Frame
  <2>3. QED
    BY <2>1, <2>2
<1>6. PopTo(f)
  BY DEF NativeReturns
<1> HIDE DEF f
<1>7. QED
  BY <1>2, <1>3, <1>4, <1>5, <1>6, AfterPopTo, Assemble

LEMMA ImpEntersStep ==
  ASSUME IInv, ImpEnters
  PROVE  IInv'
<1>1. Top \in Frame /\ Sound(Top) /\ Fits(Top, mode, scope, slots) /\ scope \in Nat /\ slots \in Nat
      /\ errsv \in Errors
  BY Known
<1> DEFINE f == NewFrame("imp", "args", scope, slots)
<1>2. f \in Frame
  BY <1>1, NewFrameType DEF Kinds, Points
<1>3. Sound(f) /\ Linked(Top, f) /\ Fits(f, mode', scope', slots') /\ ~Returns(f, mode')
  BY <1>1 DEF ImpEnters, NewFrame, Running, Sound, Linked, Alike, Fits, Floor, HoldsScope, Gates, Calls, Frame, Room, Returns
<1>4. /\ mode' \in Modes /\ errsv' \in Errors
      /\ scope' \in Nat /\ slots' \in Nat
  <2>1. mode' \in Modes /\ errsv' \in Errors
    BY <1>1, ErrorTypes DEF Modes, ImpEnters, Running
  <2>2. scope' \in Nat /\ slots' \in Nat
    BY <1>1 DEF ImpEnters, Running
  <2>3. QED
    BY <2>1, <2>2
<1>5. Push(f)
  BY DEF ImpEnters
<1> HIDE DEF f
<1>6. QED
  BY <1>2, <1>3, <1>4, <1>5, AfterPush, Assemble

LEMMA ImpCallsStep ==
  ASSUME IInv, ImpCalls
  PROVE  IInv'
<1>1. Top \in Frame /\ Sound(Top) /\ Fits(Top, mode, scope, slots) /\ scope \in Nat /\ slots \in Nat
      /\ errsv \in Errors
  BY Known
<1> DEFINE f == At(Top, "during")
           g == NewFrame("perl", "body", scope, slots)
<1>2. f \in Frame /\ g \in Frame /\ Alike(Top, f)
  <2>1. f \in Frame /\ Alike(Top, f)
    <3>1. Top.swallowed \in BOOLEAN
      BY <1>1 DEF Frame
    <3>2. QED
      BY <1>1, <3>1, FrameUpdates, UpdatesAlike DEF Points
  <2>2. g \in Frame
    BY <1>1, NewFrameType DEF Kinds, Points
  <2>3. QED
    BY <2>1, <2>2
<1>3. Sound(f) /\ Sound(g) /\ Linked(f, g) /\ Fits(g, mode', scope', slots') /\ ~Returns(g, mode')
  BY <1>1 DEF ImpCalls, At, Resumed, NewFrame, Running, Sound, Linked, Alike, Fits, Floor, HoldsScope, Gates, Calls, Frame, Room, Returns
<1>4. /\ mode' \in Modes /\ errsv' \in Errors
      /\ scope' \in Nat /\ slots' \in Nat
  <2>1. mode' \in Modes /\ errsv' \in Errors
    BY <1>1, ErrorTypes DEF Modes, ImpCalls, Running
  <2>2. scope' \in Nat /\ slots' \in Nat
    BY <1>1 DEF ImpCalls, Running
  <2>3. QED
    BY <2>1, <2>2
<1>5. Await(f, g)
  BY DEF ImpCalls
<1> HIDE DEF f, g
<1>6. QED
  BY <1>2, <1>3, <1>4, <1>5, AfterAwait, Assemble

LEMMA ImpFindsNoMethodStep ==
  ASSUME IInv, ImpFindsNoMethod
  PROVE  IInv'
<1>1. Top \in Frame /\ Sound(Top) /\ Fits(Top, mode, scope, slots) /\ scope \in Nat /\ slots \in Nat
  BY Known
<1> DEFINE f == At(Top, "after")
<1>2. f \in Frame /\ Alike(Top, f)
  BY <1>1, FrameUpdates, UpdatesAlike, ZenonT(60) DEF Frame, Points
<1>3. /\ mode = "run" /\ mode' = mode /\ scope' = scope /\ slots' = slots + 1
      /\ errsv' \in Errors /\ Top.kind = "imp" /\ Top.pc = "args" /\ Become(f)
  BY ErrorTypes, Zenon DEF ImpFindsNoMethod, Running
<1>4. Sound(f) /\ Fits(f, "run", scope, slots + 1)
  BY <1>1, <1>3 DEF At, Resumed, Sound, Fits, Floor, HoldsScope, Gates, Frame
<1>5. scope' \in Nat /\ slots' \in Nat /\ mode' \in Modes
  BY <1>1, <1>3 DEF Modes
<1>6. Fits(f, mode', scope', slots') /\ ~Returns(f, mode')
  BY <1>3, <1>4 DEF At, Resumed, Returns
<1> HIDE DEF f
<1>7. QED
  BY <1>2, <1>3, <1>4, <1>5, <1>6, AfterBecome, Assemble

LEMMA ImpRaisesStep ==
  ASSUME IInv, ImpRaises
  PROVE  IInv'
<1>1. Top \in Frame /\ Sound(Top) /\ Fits(Top, mode, scope, slots) /\ scope \in Nat /\ slots \in Nat
      /\ errsv \in Errors
  BY Known
<1>2. Len(frames) > 1 /\ Caller \in Frame /\ Sound(Caller) /\ Linked(Caller, Top)
      /\ (Returns(Top, mode) => Caller.pc # "lost")
  BY HasCaller, CallerKnown DEF ImpRaises, Running, Gates
<1>3. Fits(Caller, mode', scope', slots') /\ ~Returns(Caller, mode')
  BY <1>1, <1>2 DEF ImpRaises, Modes, Running, Sound, Linked, Alike, Fits, Floor, HoldsScope, Gates, Calls, Frame, Room, Returns
<1>4. /\ mode' \in Modes /\ errsv' \in Errors
      /\ scope' \in Nat /\ slots' \in Nat
  <2>1. mode' \in Modes /\ errsv' \in Errors
    BY <1>1, <1>2 DEF ImpRaises, Modes, Running, Sound, Linked, Alike, Fits, Floor, HoldsScope, Gates, Calls, Frame, Room, Returns
  <2>2. scope' \in Nat /\ slots' \in Nat
    BY <1>1, <1>2 DEF ImpRaises, Modes, Running, Sound, Linked, Alike, Fits, Floor, HoldsScope, Gates, Calls, Frame, Room, Returns
  <2>3. QED
    BY <2>1, <2>2
<1>5. Pop
  BY DEF ImpRaises
<1>6. QED
  BY <1>2, <1>3, <1>4, <1>5, AfterPop, Assemble

LEMMA ImpReturnsStep ==
  ASSUME IInv, ImpReturns
  PROVE  IInv'
<1>1. Top \in Frame /\ Sound(Top) /\ Fits(Top, mode, scope, slots) /\ scope \in Nat /\ slots \in Nat
      /\ errsv \in Errors
  BY Known
<1>2. Len(frames) > 1 /\ Caller \in Frame /\ Sound(Caller) /\ Linked(Caller, Top)
      /\ (Returns(Top, mode) => Caller.pc # "lost")
  BY HasCaller, CallerKnown DEF ImpReturns, Running, Gates
<1>3. Fits(Caller, mode', scope', slots') /\ ~Returns(Caller, mode')
  BY <1>1, <1>2 DEF ImpReturns, Modes, Running, Sound, Linked, Alike, Fits, Floor, HoldsScope, Gates, Calls, Frame, Room, Returns
<1>4. /\ mode' \in Modes /\ errsv' \in Errors
      /\ scope' \in Nat /\ slots' \in Nat
  <2>1. mode' \in Modes /\ errsv' \in Errors
    BY <1>1, <1>2 DEF ImpReturns, Modes, Running, Sound, Linked, Alike, Fits, Floor, HoldsScope, Gates, Calls, Frame, Room, Returns
  <2>2. scope' \in Nat /\ slots' \in Nat
    BY <1>1, <1>2 DEF ImpReturns, Modes, Running, Sound, Linked, Alike, Fits, Floor, HoldsScope, Gates, Calls, Frame, Room, Returns
  <2>3. QED
    BY <2>1, <2>2
<1>5. Pop
  BY DEF ImpReturns
<1>6. QED
  BY <1>2, <1>3, <1>4, <1>5, AfterPop, Assemble

LEMMA ImpConversionRaisesStep ==
  ASSUME IInv, ImpConversionRaises
  PROVE  IInv'
<1>1. Top \in Frame /\ Sound(Top) /\ Fits(Top, mode, scope, slots) /\ scope \in Nat /\ slots \in Nat
      /\ errsv \in Errors
  BY Known
<1>2. Len(frames) > 1 /\ Caller \in Frame /\ Sound(Caller) /\ Linked(Caller, Top)
  BY HasCaller, CallerKnown DEF ImpConversionRaises, Running, Gates
<1>3. Fits(Caller, mode', scope', slots') /\ ~Returns(Caller, mode')
  BY <1>1, <1>2 DEF ImpConversionRaises, Running, Sound, Linked, Fits, Floor, HoldsScope, Gates, Calls, Frame, Returns
<1>4. mode' \in Modes /\ errsv' \in Errors /\ scope' \in Nat /\ slots' \in Nat
  BY <1>1 DEF ImpConversionRaises, Modes
<1>5. Pop
  BY DEF ImpConversionRaises
<1>6. QED
  BY <1>2, <1>3, <1>4, <1>5, AfterPop, Assemble

LEMMA ImpConversionDiesStep ==
  ASSUME IInv, ImpConversionDies
  PROVE  IInv'
<1>1. /\ Top \in Frame /\ Sound(Top) /\ Fits(Top, mode, scope, slots)
      /\ scope \in Nat /\ slots \in Nat /\ errsv \in Errors /\ mode \in Modes
      /\ CallerLives
  BY Known DEF IInv
<1>2. Fits(Top, mode', scope', slots')
  BY <1>1 DEF ImpConversionDies, Running, Sound, Fits, Floor, HoldsScope, Gates, Frame
<1>3. Returns(Top, mode') => Caller.pc # "lost"
  BY DEF ImpConversionDies, Running, Returns
<1>4. mode' \in Modes /\ errsv' \in Errors /\ scope' \in Nat /\ slots' \in Nat
  BY <1>1, ErrorTypes DEF Modes, ImpConversionDies
<1>5. UNCHANGED frames
  BY DEF ImpConversionDies
<1> QED
  BY <1>2, <1>3, <1>4, <1>5, AssembleSame

\* -eval: has no step before its call: two activations arrive at once.
LEMMA EvalEntersStep ==
  ASSUME IInv, EvalEnters
  PROVE  IInv'
<1>1. /\ Top \in Frame /\ Sound(Top) /\ Fits(Top, mode, scope, slots)
      /\ scope \in Nat /\ slots \in Nat
      /\ frames \in Seq(Frame) /\ Chain(frames) /\ Len(frames) \in Nat \ {0}
  BY Known
<1> DEFINE f == NewFrame("eval", "during", scope, slots)
           g == NewFrame("perl", "body", scope, slots)
<1>2. f \in Frame /\ g \in Frame
  BY <1>1, NewFrameType DEF Kinds, Points
<1>3. /\ Sound(f) /\ Sound(g) /\ Linked(frames[Len(frames)], f) /\ Linked(f, g)
      /\ Fits(g, "run", scope, slots)
  BY <1>1 DEF EvalEnters, NewFrame, Top, Running, Sound, Linked, Fits, Floor, HoldsScope, Gates, Calls, Frame
<1>4. /\ mode' = "run" /\ scope' = scope /\ slots' = slots /\ errsv' \in Errors
      /\ frames' = frames \o <<f, g>>
  BY ErrorTypes DEF Modes, EvalEnters, Running
<1> HIDE DEF f, g
<1>5. PICK t : t = Append(frames, f) /\ t \in Seq(Frame) /\ Len(t) = Len(frames) + 1
              /\ (\A i \in 1 .. Len(frames) : t[i] = frames[i]) /\ t[Len(frames) + 1] = f
  BY <1>1, <1>2, PushFacts
<1>6. Chain(t) /\ t[Len(t)] = f /\ Len(t) \in Nat \ {0}
  <2>1. Chain(t)
    BY <1>1, <1>3, <1>5, ChainPush
  <2>2. QED
    BY <1>1, <1>5, <2>1
<1>7. /\ frames' \in Seq(Frame) /\ Len(frames') = Len(frames) + 2
      /\ \A i \in 1 .. Len(frames) : frames'[i] = frames[i]
      /\ frames'[Len(frames) + 1] = f /\ frames'[Len(frames) + 2] = g
  BY <1>1, <1>2, <1>4, PushTwoFacts
<1>8. Len(frames') = Len(t) + 1 /\ \A i \in 1 .. Len(t) : frames'[i] = t[i]
  BY <1>1, <1>5, <1>7
<1>9. frames'[Len(t) + 1] = g /\ Len(frames') > 0 /\ Top' = g
  BY <1>1, <1>5, <1>7 DEF Top
<1>10. Chain(frames')
  BY <1>3, <1>6, <1>8, <1>9, ChainPush
<1>11. /\ scope' \in Nat /\ slots' \in Nat /\ mode' \in Modes
       /\ Fits(g, mode', scope', slots') /\ ~Returns(g, mode')
  BY <1>1, <1>3, <1>4 DEF g, NewFrame, Returns, Modes
<1>12. QED
  BY <1>4, <1>7, <1>9, <1>10, <1>11, Assemble

LEMMA EvalRaisesStep ==
  ASSUME IInv, EvalRaises
  PROVE  IInv'
<1>1. Top \in Frame /\ Sound(Top) /\ Fits(Top, mode, scope, slots) /\ scope \in Nat /\ slots \in Nat
      /\ errsv \in Errors
  BY Known
<1>2. Len(frames) > 1 /\ Caller \in Frame /\ Sound(Caller) /\ Linked(Caller, Top)
      /\ (Returns(Top, mode) => Caller.pc # "lost")
  BY HasCaller, CallerKnown DEF EvalRaises, Running, Gates
<1>3. Fits(Caller, mode', scope', slots') /\ ~Returns(Caller, mode')
  BY <1>1, <1>2 DEF EvalRaises, Modes, Running, Sound, Linked, Alike, Fits, Floor, HoldsScope, Gates, Calls, Frame, Room, Returns
<1>4. /\ mode' \in Modes /\ errsv' \in Errors
      /\ scope' \in Nat /\ slots' \in Nat
  <2>1. mode' \in Modes /\ errsv' \in Errors
    BY <1>1, <1>2 DEF EvalRaises, Modes, Running, Sound, Linked, Alike, Fits, Floor, HoldsScope, Gates, Calls, Frame, Room, Returns
  <2>2. scope' \in Nat /\ slots' \in Nat
    BY <1>1, <1>2 DEF EvalRaises, Modes, Running, Sound, Linked, Alike, Fits, Floor, HoldsScope, Gates, Calls, Frame, Room, Returns
  <2>3. QED
    BY <2>1, <2>2
<1>5. Pop
  BY DEF EvalRaises
<1>6. QED
  BY <1>2, <1>3, <1>4, <1>5, AfterPop, Assemble

LEMMA EvalReturnsStep ==
  ASSUME IInv, EvalReturns
  PROVE  IInv'
<1>1. Top \in Frame /\ Sound(Top) /\ Fits(Top, mode, scope, slots) /\ scope \in Nat /\ slots \in Nat
      /\ errsv \in Errors
  BY Known
<1>2. Len(frames) > 1 /\ Caller \in Frame /\ Sound(Caller) /\ Linked(Caller, Top)
      /\ (Returns(Top, mode) => Caller.pc # "lost")
  BY HasCaller, CallerKnown DEF EvalReturns, Running, Gates
<1>3. Fits(Caller, mode', scope', slots') /\ ~Returns(Caller, mode')
  BY <1>1, <1>2 DEF EvalReturns, Modes, Running, Sound, Linked, Alike, Fits, Floor, HoldsScope, Gates, Calls, Frame, Room, Returns
<1>4. /\ mode' \in Modes /\ errsv' \in Errors
      /\ scope' \in Nat /\ slots' \in Nat
  <2>1. mode' \in Modes /\ errsv' \in Errors
    BY <1>1, <1>2 DEF EvalReturns, Modes, Running, Sound, Linked, Alike, Fits, Floor, HoldsScope, Gates, Calls, Frame, Room, Returns
  <2>2. scope' \in Nat /\ slots' \in Nat
    BY <1>1, <1>2 DEF EvalReturns, Modes, Running, Sound, Linked, Alike, Fits, Floor, HoldsScope, Gates, Calls, Frame, Room, Returns
  <2>3. QED
    BY <2>1, <2>2
<1>5. Pop
  BY DEF EvalReturns
<1>6. QED
  BY <1>2, <1>3, <1>4, <1>5, AfterPop, Assemble

LEMMA CallEntersStep ==
  ASSUME IInv, CallEnters
  PROVE  IInv'
<1>1. Top \in Frame /\ Sound(Top) /\ Fits(Top, mode, scope, slots) /\ scope \in Nat /\ slots \in Nat
      /\ errsv \in Errors
  BY Known
<1> DEFINE f == NewFrame("call", "args", scope, slots)
<1>2. f \in Frame
  BY <1>1, NewFrameType DEF Kinds, Points
<1>3. Sound(f) /\ Linked(Top, f) /\ Fits(f, mode', scope', slots') /\ Top.pc # "lost"
  BY <1>1 DEF CallEnters, NewFrame, Running, Sound, Linked, Alike, Fits, Floor, HoldsScope, Gates, Calls, Frame, Room, Returns
<1>4. /\ mode' \in Modes /\ errsv' \in Errors
      /\ scope' \in Nat /\ slots' \in Nat
  <2>1. mode' \in Modes /\ errsv' \in Errors
    BY <1>1, ErrorTypes DEF Modes, CallEnters, Running
  <2>2. scope' \in Nat /\ slots' \in Nat
    BY <1>1 DEF CallEnters, Running
  <2>3. QED
    BY <2>1, <2>2
<1>5. Push(f)
  BY DEF CallEnters
<1> HIDE DEF f
<1>6. QED
  BY <1>2, <1>3, <1>4, <1>5, AssembleCall

LEMMA CallUnknownMethodStep ==
  ASSUME IInv, CallUnknownMethod
  PROVE  IInv'
<1>1. /\ Top \in Frame /\ Sound(Top) /\ Fits(Top, mode, scope, slots)
      /\ scope \in Nat /\ slots \in Nat /\ errsv \in Errors /\ mode \in Modes
      /\ CallerLives
  BY Known DEF IInv
<1>2. Fits(Top, mode', scope', slots')
  BY <1>1 DEF CallUnknownMethod, Running, Sound, Fits, Floor, HoldsScope, Gates, Frame
<1>3. Returns(Top, mode') => Caller.pc # "lost"
  BY <1>1 DEF CallUnknownMethod, Running, Returns, CallerLives
<1>4. mode' \in Modes /\ errsv' \in Errors /\ scope' \in Nat /\ slots' \in Nat
  BY <1>1, ErrorTypes DEF Modes, CallUnknownMethod
<1>5. UNCHANGED frames
  BY DEF CallUnknownMethod
<1> QED
  BY <1>2, <1>3, <1>4, <1>5, AssembleSame

LEMMA CallRefusesStep ==
  ASSUME IInv, CallRefuses
  PROVE  IInv'
<1>1. Top \in Frame /\ Sound(Top) /\ Fits(Top, mode, scope, slots) /\ scope \in Nat /\ slots \in Nat
      /\ errsv \in Errors
  BY Known
<1>2. Len(frames) > 1 /\ Caller \in Frame /\ Sound(Caller) /\ Linked(Caller, Top)
      /\ (Returns(Top, mode) => Caller.pc # "lost")
  BY HasCaller, CallerKnown DEF CallRefuses, Running, Gates
<1>3. Fits(Caller, mode', scope', slots') /\ ~Returns(Caller, mode')
  BY <1>1, <1>2 DEF CallRefuses, Modes, Running, Sound, Linked, Alike, Fits, Floor, HoldsScope, Gates, Calls, Frame, Room, Returns
<1>4. /\ mode' \in Modes /\ errsv' \in Errors
      /\ scope' \in Nat /\ slots' \in Nat
  <2>1. mode' \in Modes /\ errsv' \in Errors
    BY <1>1, <1>2 DEF CallRefuses, Modes, Running, Sound, Linked, Alike, Fits, Floor, HoldsScope, Gates, Calls, Frame, Room, Returns
  <2>2. scope' \in Nat /\ slots' \in Nat
    BY <1>1, <1>2 DEF CallRefuses, Modes, Running, Sound, Linked, Alike, Fits, Floor, HoldsScope, Gates, Calls, Frame, Room, Returns
  <2>3. QED
    BY <2>1, <2>2
<1>5. Pop
  BY DEF CallRefuses
<1>6. QED
  BY <1>2, <1>3, <1>4, <1>5, AfterPop, Assemble

LEMMA CallInvokesStep ==
  ASSUME IInv, CallInvokes
  PROVE  IInv'
<1>1. Top \in Frame /\ Sound(Top) /\ Fits(Top, mode, scope, slots) /\ scope \in Nat /\ slots \in Nat
      /\ errsv \in Errors
  BY Known
<1> DEFINE f == At(Top, "during")
           g == NewFrame("objc", "body", scope, slots)
<1>2. f \in Frame /\ g \in Frame /\ Alike(Top, f)
  <2>1. f \in Frame /\ Alike(Top, f)
    <3>1. Top.swallowed \in BOOLEAN
      BY <1>1 DEF Frame
    <3>2. QED
      BY <1>1, <3>1, FrameUpdates, UpdatesAlike DEF Points
  <2>2. g \in Frame
    BY <1>1, NewFrameType DEF Kinds, Points
  <2>3. QED
    BY <2>1, <2>2
<1>3. Sound(f) /\ Sound(g) /\ Linked(f, g) /\ Fits(g, mode', scope', slots') /\ ~Returns(g, mode')
  BY <1>1 DEF CallInvokes, At, Resumed, NewFrame, Running, Sound, Linked, Alike, Fits, Floor, HoldsScope, Gates, Calls, Frame, Room, Returns
<1>4. /\ mode' \in Modes /\ errsv' \in Errors
      /\ scope' \in Nat /\ slots' \in Nat
  <2>1. mode' \in Modes /\ errsv' \in Errors
    BY <1>1, ErrorTypes DEF Modes, CallInvokes, Running
  <2>2. scope' \in Nat /\ slots' \in Nat
    BY <1>1 DEF CallInvokes, Running
  <2>3. QED
    BY <2>1, <2>2
<1>5. Await(f, g)
  BY DEF CallInvokes
<1> HIDE DEF f, g
<1>6. QED
  BY <1>2, <1>3, <1>4, <1>5, AfterAwait, Assemble

LEMMA CallReturnsStep ==
  ASSUME IInv, CallReturns
  PROVE  IInv'
<1>1. Top \in Frame /\ Sound(Top) /\ Fits(Top, mode, scope, slots) /\ scope \in Nat /\ slots \in Nat
      /\ errsv \in Errors
  BY Known
<1>2. Len(frames) > 1 /\ Caller \in Frame /\ Sound(Caller) /\ Linked(Caller, Top)
      /\ (Returns(Top, mode) => Caller.pc # "lost")
  BY HasCaller, CallerKnown DEF CallReturns, Running, Gates
<1> DEFINE f == Resumed(Caller, "body", Caller.swallowed \/ Top.swallowed)
<1>3. f \in Frame /\ Alike(Caller, f)
  <2>1. Caller.swallowed \in BOOLEAN /\ Top.swallowed \in BOOLEAN
    BY <1>1, <1>2 DEF Frame
  <2>2. QED
    BY <1>1, <1>2, <2>1, FrameUpdates, UpdatesAlike DEF Points
<1>4. Sound(f) /\ Fits(f, mode', scope', slots') /\ ~Returns(f, mode')
  BY <1>1, <1>2 DEF CallReturns, At, Resumed, Running, Sound, Linked, Alike, Fits, Floor, HoldsScope, Gates, Calls, Frame, Room, Returns
<1>5. /\ mode' \in Modes /\ errsv' \in Errors
      /\ scope' \in Nat /\ slots' \in Nat
  <2>1. mode' \in Modes /\ errsv' \in Errors
    BY <1>1, <1>2, ErrorTypes DEF Modes, CallReturns, Running, Linked, Fits, Floor, HoldsScope, Frame
  <2>2. scope' \in Nat /\ slots' \in Nat
    BY <1>1, <1>2 DEF CallReturns, Running, Linked, Fits, Floor, HoldsScope, Frame
  <2>3. QED
    BY <2>1, <2>2
<1>6. PopTo(f)
  BY DEF CallReturns
<1> HIDE DEF f
<1>7. QED
  BY <1>2, <1>3, <1>4, <1>5, <1>6, AfterPopTo, Assemble

LEMMA CallHandlesExceptionStep ==
  ASSUME IInv, CallHandlesException
  PROVE  IInv'
<1>1. /\ Top \in Frame /\ Sound(Top) /\ Fits(Top, mode, scope, slots)
      /\ scope \in Nat /\ slots \in Nat /\ errsv \in Errors /\ mode \in Modes
      /\ CallerLives
  BY Known DEF IInv
<1>2. Fits(Top, mode', scope', slots')
  BY <1>1 DEF CallHandlesException, Running, Sound, Fits, Floor, HoldsScope, Gates, Frame
<1>3. Returns(Top, mode') => Caller.pc # "lost"
  BY DEF CallHandlesException
<1>4. mode' \in Modes /\ errsv' \in Errors /\ scope' \in Nat /\ slots' \in Nat
  BY <1>1, ErrorTypes DEF Modes, CallHandlesException
<1>5. UNCHANGED frames
  BY DEF CallHandlesException
<1> QED
  BY <1>2, <1>3, <1>4, <1>5, AssembleSame

\* Perl code that cannot be resumed looks to its neighbours as it did.
LEMMA LostFacts ==
  ASSUME NEW f \in Frame, f.kind = "perl", Sound(f)
  PROVE  /\ At(f, "lost") \in Frame /\ Sound(At(f, "lost")) /\ Alike(f, At(f, "lost"))
         /\ \A h : Linked(f, h) => Linked(At(f, "lost"), h)
<1>1. PICK g : g = At(f, "lost")
  OBVIOUS
<1>2. /\ g.kind = f.kind /\ g.pc = "lost" /\ g.guard = f.guard /\ g.base = f.base
      /\ g.sp = f.sp /\ g.mark = f.mark /\ g.swallowed = f.swallowed
  BY <1>1 DEF At, Resumed
<1>3. f.swallowed \in BOOLEAN
  BY DEF Frame
<1>4. g \in Frame
  BY <1>1, <1>3, FrameUpdates DEF Points
<1>5. Floor(g) = Floor(f) /\ g.kind \notin Gates
  BY <1>2 DEF Floor, HoldsScope, Gates
<1>6. Sound(g) /\ Alike(f, g)
  BY <1>2, <1>5 DEF Sound, Alike
<1>7. \A h : Linked(f, h) => Linked(g, h)
  BY <1>2, <1>5 DEF Linked
<1> QED
  BY <1>1, <1>4, <1>6, <1>7

\* The stack after a failed conversion of a native call: what is left of it, in
\* which only the point of one activation has changed.
LEMMA BuriedFacts ==
  ASSUME NEW s \in Seq(Frame), NEW n \in 1 .. Len(s), Chain(s), s[n].kind = "objc",
         NEW t, t = Buried(SubSeq(s, 1, n))
  PROVE  /\ t \in Seq(Frame) /\ Len(t) = n
         /\ \A i \in 1 .. n : t[i] = IF i = n - 2 THEN At(s[i], "lost") ELSE s[i]
         /\ Chain(t) /\ t[n] = s[n]
<1> DEFINE b == SubSeq(s, 1, n)
<1>1. Len(s) \in Nat /\ n \in Nat \ {0} /\ \A i \in 1 .. Len(s) : s[i] \in Frame
  BY ElementOfSeq
<1>2. b \in Seq(Frame) /\ Len(b) = n /\ \A i \in 1 .. n : b[i] = s[i]
  BY <1>1, SubSeqProperties
<1>3. \A i \in 1 .. n : At(s[i], "lost") \in Frame
  <2>1. \A f \in Frame : At(f, "lost") \in Frame
    <3> TAKE f \in Frame
    <3>1. f.swallowed \in BOOLEAN
      BY DEF Frame
    <3> QED
      BY <3>1, FrameUpdates DEF Points
  <2> QED
    BY <1>1, <2>1
<1> HIDE DEF b
<1>4. t = [i \in 1 .. n |-> IF i = n - 2 THEN At(b[i], "lost") ELSE b[i]]
  BY <1>2 DEF Buried, b
<1>5. /\ t \in Seq(Frame) /\ Len(t) = n
      /\ \A i \in 1 .. n : t[i] = IF i = n - 2 THEN At(s[i], "lost") ELSE s[i]
  BY <1>1, <1>2, <1>3, <1>4
<1>6. ASSUME n > 2
      PROVE  s[n - 2].kind = "perl" /\ Linked(s[n - 2], s[n - 1])
  BY <1>1, <1>6 DEF Chain, Linked, Calls
<1>7. ASSUME NEW i \in 1 .. n PROVE Alike(s[i], t[i]) /\ Sound(t[i])
  <2>1. Sound(s[i])
    BY <1>1 DEF Chain
  <2>2. CASE i = n - 2
    <3>1. s[i] \in Frame /\ s[i].kind = "perl" /\ t[i] = At(s[i], "lost")
      BY <1>1, <1>5, <1>6, <2>2
    <3> QED
      BY <2>1, <3>1, LostFacts
  <2>3. CASE i # n - 2
    BY <1>5, <2>1, <2>3 DEF Alike
  <2> QED
    BY <2>2, <2>3
<1>8. ASSUME NEW i \in 1 .. n - 1 PROVE Linked(t[i], t[i + 1])
  <2>1. Linked(s[i], s[i + 1])
    BY <1>1 DEF Chain
  <2>2. Linked(s[i], t[i + 1])
    BY <1>1, <1>7, <2>1, AlikeLinked
  <2>3. CASE i = n - 2
    <3>1. /\ s[i] \in Frame /\ s[i].kind = "perl" /\ t[i] = At(s[i], "lost")
          /\ Sound(s[i])
      BY <1>1, <1>5, <1>6, <2>3 DEF Chain
    <3> QED
      BY <2>2, <3>1, LostFacts
  <2>4. CASE i # n - 2
    BY <1>1, <1>5, <2>2, <2>4
  <2> QED
    BY <2>3, <2>4
<1>9. t[1].kind \in {"perl", "objc"} /\ t[n] = s[n]
  BY <1>1, <1>5, <1>7 DEF Chain, Alike
<1> QED
  BY <1>5, <1>7, <1>8, <1>9 DEF Chain

\* Where a native call's failure comes out: below the call are the Perl code
\* that made it, the gate that called that code and a native caller.
LEMMA BelowCall ==
  ASSUME IInv, Top.kind = "call", Len(frames) > 2
  PROVE  /\ Len(frames) - 3 \in 1 .. Len(frames)
         /\ frames[Len(frames) - 3].kind = "objc"
         /\ frames[Len(frames) - 2].kind \in {"imp", "eval"}
         /\ frames[Len(frames) - 1].kind = "perl"
<1>1. frames \in Seq(Frame) /\ Len(frames) \in Nat \ {0} /\ Chain(frames)
  BY Known
<1>2. frames[Len(frames) - 1].kind = "perl"
  BY <1>1 DEF Chain, Linked, Calls, Top
<1>3. frames[Len(frames) - 2].kind \in {"imp", "eval"}
  BY <1>1, <1>2 DEF Chain, Linked, Calls
<1>4. Len(frames) > 3
  BY <1>1, <1>3 DEF Chain
<1>5. frames[Len(frames) - 3].kind = "objc"
  BY <1>1, <1>3, <1>4 DEF Chain, Linked, Calls
<1> QED
  BY <1>1, <1>2, <1>3, <1>4, <1>5

\* What the interpreter still holds covers every activation below the top.
LEMMA ScopeAbove ==
  ASSUME IInv, NEW n \in 1 .. Len(frames), n >= Len(frames) - 3
  PROVE  scope >= Floor(frames[n]) /\ slots >= frames[n].sp
<1>1. /\ frames \in Seq(Frame) /\ Len(frames) \in Nat \ {0} /\ Chain(frames)
      /\ Fits(Top, mode, scope, slots) /\ scope \in Nat /\ slots \in Nat
      /\ \A i \in 1 .. Len(frames) : frames[i] \in Frame
  BY Known, ElementOfSeq
<1> DEFINE Held(i) == scope >= Floor(frames[i]) /\ slots >= frames[i].sp
<1>2. ASSUME NEW i \in 1 .. Len(frames) - 1, Held(i + 1) PROVE Held(i)
  <2>1. /\ Linked(frames[i], frames[i + 1]) /\ Sound(frames[i + 1]) /\ Sound(frames[i])
        /\ frames[i] \in Frame /\ frames[i + 1] \in Frame
    BY <1>1 DEF Chain
  <2>2. /\ Floor(frames[i + 1]) >= frames[i + 1].base
        /\ frames[i + 1].base >= Floor(frames[i]) /\ frames[i + 1].sp >= frames[i].sp
    BY <2>1 DEF Linked, Sound
  <2>3. /\ Floor(frames[i]) \in Nat /\ Floor(frames[i + 1]) \in Nat /\ frames[i + 1].base \in Nat
        /\ frames[i].sp \in Nat /\ frames[i + 1].sp \in Nat
    BY <2>1, SMTT(30) DEF Floor, HoldsScope, Frame
  <2> QED
    BY <1>1, <1>2, <2>2, <2>3, SMTT(30)
<1>3. Held(Len(frames))
  BY <1>1 DEF Fits, Top
<1> HIDE DEF Held
<1>4. Len(frames) > 1 => Held(Len(frames) - 1)
  BY <1>1, <1>2, <1>3
<1>5. Len(frames) > 2 => Held(Len(frames) - 2)
  BY <1>1, <1>2, <1>4
<1>6. Len(frames) > 3 => Held(Len(frames) - 3)
  BY <1>1, <1>2, <1>5
<1>7. Held(n)
  BY <1>1, <1>3, <1>4, <1>5, <1>6
<1> QED
  BY <1>7 DEF Held

LEMMA CallConversionRaisesStep ==
  ASSUME IInv, CallConversionRaises
  PROVE  IInv'
<1>1. /\ frames \in Seq(Frame) /\ Len(frames) \in Nat \ {0} /\ Chain(frames)
      /\ Top \in Frame /\ Sound(Top) /\ Fits(Top, mode, scope, slots) /\ CallerLives
      /\ scope \in Nat /\ slots \in Nat /\ errsv \in Errors
      /\ Top.kind = "call" /\ mode = "run" /\ UNCHANGED <<errsv, scope, slots>>
  BY Known DEF CallConversionRaises, Running, IInv
<1>2. CASE Len(frames) = 2
  <2>1. mode' = "exit" /\ UNCHANGED frames
    BY <1>2 DEF CallConversionRaises
  <2>2. Fits(Top, mode', scope', slots')
    BY <1>1, <2>1 DEF Fits
  <2>3. Returns(Top, mode') => Caller.pc # "lost"
    BY <1>1, <2>1 DEF Returns, CallerLives
  <2> QED
    BY <1>1, <2>1, <2>2, <2>3, AssembleSame DEF Modes
<1>3. CASE Len(frames) # 2
  <2>1. Len(frames) > 2 /\ mode' = "raise"
        /\ frames' = Buried(SubSeq(frames, 1, Len(frames) - 3))
    BY <1>3 DEF CallConversionRaises
  <2> DEFINE n == Len(frames) - 3
             f == frames[n]
  <2>2. n \in 1 .. Len(frames) /\ f.kind = "objc"
    BY <1>1, <2>1, BelowCall
  <2>3. scope >= Floor(f) /\ slots >= f.sp
    BY <1>1, <2>2, ScopeAbove
  <2>4. Sound(f) /\ f \in Frame
    BY <1>1, <2>2, ElementOfSeq DEF Chain
  <2>5. /\ frames' \in Seq(Frame) /\ Len(frames') = n /\ Chain(frames')
        /\ frames'[n] = f
    BY <1>1, <2>1, <2>2, BuriedFacts
  <2>6. Len(frames') > 0 /\ Top' = f
    BY <1>1, <2>2, <2>5 DEF Top
  <2>7. Fits(f, mode', scope', slots') /\ ~Returns(f, mode')
    BY <1>1, <2>1, <2>2, <2>3, <2>4 DEF Fits, Returns, Sound
  <2> HIDE DEF f, n
  <2> QED
    BY <1>1, <2>1, <2>5, <2>6, <2>7, Assemble DEF Modes
<1> QED
  BY <1>2, <1>3

LEMMA CallGoesAstrayStep ==
  ASSUME IInv, CallGoesAstray
  PROVE  IInv'
<1>1. /\ Top \in Frame /\ Sound(Top) /\ Fits(Top, mode, scope, slots)
      /\ scope \in Nat /\ slots \in Nat /\ errsv \in Errors /\ mode \in Modes
      /\ CallerLives
  BY Known DEF IInv
<1>2. Fits(Top, mode', scope', slots')
  BY <1>1 DEF CallGoesAstray, Running, Sound, Fits, Floor, HoldsScope, Gates, Frame
<1>3. Returns(Top, mode') => Caller.pc # "lost"
  BY <1>1 DEF CallGoesAstray, Returns
<1>4. mode' \in Modes /\ errsv' \in Errors /\ scope' \in Nat /\ slots' \in Nat
  BY <1>1, ErrorTypes DEF Modes, CallGoesAstray
<1>5. UNCHANGED frames
  BY DEF CallGoesAstray
<1> QED
  BY <1>2, <1>3, <1>4, <1>5, AssembleSame

LEMMA DieLeavesCallStep ==
  ASSUME IInv, DieLeavesCall
  PROVE  IInv'
<1>1. Top \in Frame /\ Sound(Top) /\ Fits(Top, mode, scope, slots) /\ scope \in Nat /\ slots \in Nat
      /\ errsv \in Errors
  BY Known
<1>2. Len(frames) > 1 /\ Caller \in Frame /\ Sound(Caller) /\ Linked(Caller, Top)
      /\ (Returns(Top, mode) => Caller.pc # "lost")
  BY HasCaller, CallerKnown DEF DieLeavesCall, Running, Gates
<1>3. Fits(Caller, mode', scope', slots') /\ ~Returns(Caller, mode')
  BY <1>1, <1>2 DEF DieLeavesCall, Modes, Running, Sound, Linked, Alike, Fits, Floor, HoldsScope, Gates, Calls, Frame, Room, Returns
<1>4. /\ mode' \in Modes /\ errsv' \in Errors
      /\ scope' \in Nat /\ slots' \in Nat
  <2>1. mode' \in Modes /\ errsv' \in Errors
    BY <1>1, <1>2 DEF DieLeavesCall, Modes, Running, Sound, Linked, Alike, Fits, Floor, HoldsScope, Gates, Calls, Frame, Room, Returns
  <2>2. scope' \in Nat /\ slots' \in Nat
    BY <1>1, <1>2 DEF DieLeavesCall, Modes, Running, Sound, Linked, Alike, Fits, Floor, HoldsScope, Gates, Calls, Frame, Room, Returns
  <2>3. QED
    BY <2>1, <2>2
<1>5. Pop
  BY DEF DieLeavesCall
<1>6. QED
  BY <1>2, <1>3, <1>4, <1>5, AfterPop, Assemble

LEMMA DieReachesEvalStep ==
  ASSUME IInv, DieReachesEval
  PROVE  IInv'
<1>1. Top \in Frame /\ Sound(Top) /\ Fits(Top, mode, scope, slots) /\ scope \in Nat /\ slots \in Nat
      /\ errsv \in Errors
  BY Known
<1> DEFINE f == Guarded(Top, FALSE, 0, Top.swallowed)
<1>2. f \in Frame /\ Alike(Top, f)
  BY <1>1, FrameUpdates, UpdatesAlike, ZenonT(60) DEF Frame, Points
<1>3. Sound(f) /\ Fits(f, mode', scope', slots') /\ ~Returns(f, mode')
  BY <1>1 DEF DieReachesEval, Guarded, At, Resumed, Running, Sound, Linked, Alike, Fits, Floor, HoldsScope, Gates, Calls, Frame, Room, Returns
<1>4. /\ mode' \in Modes /\ errsv' \in Errors
      /\ scope' \in Nat /\ slots' \in Nat
  <2>1. mode' \in Modes /\ errsv' \in Errors
    BY <1>1, ErrorTypes DEF Modes, DieReachesEval, Running, Frame
  <2>2. scope' \in Nat /\ slots' \in Nat
    BY <1>1 DEF DieReachesEval, Running, Frame
  <2>3. QED
    BY <2>1, <2>2
<1>5. Become(f)
  BY DEF DieReachesEval
<1> HIDE DEF f
<1>6. QED
  BY <1>2, <1>3, <1>4, <1>5, AfterBecome, Assemble

LEMMA DieReachesGateStep ==
  ASSUME IInv, DieReachesGate
  PROVE  IInv'
<1>1. Top \in Frame /\ Sound(Top) /\ Fits(Top, mode, scope, slots) /\ scope \in Nat /\ slots \in Nat
      /\ errsv \in Errors
  BY Known
<1>2. Len(frames) > 1 /\ Caller \in Frame /\ Sound(Caller) /\ Linked(Caller, Top)
      /\ (Returns(Top, mode) => Caller.pc # "lost")
  BY CallerKnown DEF DieReachesGate
<1> DEFINE f == At(Caller, "after")
<1>3. f \in Frame /\ Alike(Caller, f)
  <2>1. Caller.swallowed \in BOOLEAN /\ Top.swallowed \in BOOLEAN
    BY <1>1, <1>2 DEF Frame
  <2>2. QED
    BY <1>1, <1>2, <2>1, FrameUpdates, UpdatesAlike DEF Points
<1>4. Sound(f) /\ Fits(f, mode', scope', slots') /\ ~Returns(f, mode')
  BY <1>1, <1>2 DEF DieReachesGate, At, Resumed, Running, Sound, Linked, Alike, Fits, Floor, HoldsScope, Gates, Calls, Frame, Room, Returns
<1>5. /\ mode' \in Modes /\ errsv' \in Errors
      /\ scope' \in Nat /\ slots' \in Nat
  <2>1. mode' \in Modes /\ errsv' \in Errors
    BY <1>1, <1>2, ErrorTypes DEF Modes, DieReachesGate, Running, Linked, Fits, Floor, HoldsScope, Frame
  <2>2. scope' \in Nat /\ slots' \in Nat
    BY <1>1, <1>2 DEF DieReachesGate, Running, Linked, Fits, Floor, HoldsScope, Frame
  <2>3. QED
    BY <2>1, <2>2
<1>6. PopTo(f)
  BY DEF DieReachesGate
<1> HIDE DEF f
<1>7. QED
  BY <1>2, <1>3, <1>4, <1>5, <1>6, AfterPopTo, Assemble

LEMMA RaiseLeavesNativeStep ==
  ASSUME IInv, RaiseLeavesNative
  PROVE  IInv'
<1>1. Top \in Frame /\ Sound(Top) /\ Fits(Top, mode, scope, slots) /\ scope \in Nat /\ slots \in Nat
      /\ errsv \in Errors
  BY Known
<1>2. Len(frames) > 1 /\ Caller \in Frame /\ Sound(Caller) /\ Linked(Caller, Top)
      /\ (Returns(Top, mode) => Caller.pc # "lost")
  BY CallerKnown DEF RaiseLeavesNative
<1>3. Fits(Caller, mode', scope', slots') /\ ~Returns(Caller, mode')
  BY <1>1, <1>2 DEF RaiseLeavesNative, Modes, Running, Sound, Linked, Alike, Fits, Floor, HoldsScope, Gates, Calls, Frame, Room, Returns
<1>4. /\ mode' \in Modes /\ errsv' \in Errors
      /\ scope' \in Nat /\ slots' \in Nat
  <2>1. mode' \in Modes /\ errsv' \in Errors
    BY <1>1, <1>2 DEF RaiseLeavesNative, Modes, Running, Sound, Linked, Alike, Fits, Floor, HoldsScope, Gates, Calls, Frame, Room, Returns
  <2>2. scope' \in Nat /\ slots' \in Nat
    BY <1>1, <1>2 DEF RaiseLeavesNative, Modes, Running, Sound, Linked, Alike, Fits, Floor, HoldsScope, Gates, Calls, Frame, Room, Returns
  <2>3. QED
    BY <2>1, <2>2
<1>5. Pop
  BY DEF RaiseLeavesNative
<1>6. QED
  BY <1>2, <1>3, <1>4, <1>5, AfterPop, Assemble

LEMMA RaiseReachesHandlerStep ==
  ASSUME IInv, RaiseReachesHandler
  PROVE  IInv'
<1>1. Top \in Frame /\ Sound(Top) /\ Fits(Top, mode, scope, slots) /\ scope \in Nat /\ slots \in Nat
      /\ errsv \in Errors
  BY Known
<1> DEFINE f == Guarded(Top, FALSE, 0, TRUE)
<1>2. f \in Frame /\ Alike(Top, f)
  BY <1>1, FrameUpdates, UpdatesAlike, ZenonT(60) DEF Frame, Points
<1>3. Sound(f) /\ Fits(f, mode', scope', slots') /\ ~Returns(f, mode')
  BY <1>1 DEF RaiseReachesHandler, Guarded, At, Resumed, Running, Sound, Linked, Alike, Fits, Floor, HoldsScope, Gates, Calls, Frame, Room, Returns
<1>4. /\ mode' \in Modes /\ errsv' \in Errors
      /\ scope' \in Nat /\ slots' \in Nat
  <2>1. mode' \in Modes /\ errsv' \in Errors
    BY <1>1, ErrorTypes DEF Modes, RaiseReachesHandler, Running, Frame
  <2>2. scope' \in Nat /\ slots' \in Nat
    BY <1>1 DEF RaiseReachesHandler, Running, Frame
  <2>3. QED
    BY <2>1, <2>2
<1>5. Become(f)
  BY DEF RaiseReachesHandler
<1> HIDE DEF f
<1>6. QED
  BY <1>2, <1>3, <1>4, <1>5, AfterBecome, Assemble

LEMMA ErrorEndsProgramStep ==
  ASSUME IInv, ErrorEndsProgram
  PROVE  IInv'
<1>1. /\ Top \in Frame /\ Sound(Top) /\ Fits(Top, mode, scope, slots)
      /\ scope \in Nat /\ slots \in Nat /\ errsv \in Errors /\ mode \in Modes
      /\ CallerLives
  BY Known DEF IInv
<1>2. Fits(Top, mode', scope', slots')
  BY <1>1 DEF ErrorEndsProgram, Running, Sound, Fits, Floor, HoldsScope, Gates, Frame
<1>3. Returns(Top, mode') => Caller.pc # "lost"
  BY <1>1, TopFacts DEF ErrorEndsProgram, Returns, Frame, Kinds
<1>4. mode' \in Modes /\ errsv' \in Errors /\ scope' \in Nat /\ slots' \in Nat
  BY <1>1, ErrorTypes DEF Modes, ErrorEndsProgram
<1>5. UNCHANGED frames
  BY DEF ErrorEndsProgram
<1> QED
  BY <1>2, <1>3, <1>4, <1>5, AssembleSame

(***************************************************************************)
(* The theorems.                                                           *)
(***************************************************************************)
LEMMA InitInv == Init => IInv
<1> SUFFICES ASSUME Init PROVE IInv
  OBVIOUS
<1>1. PICK kind \in {"perl", "objc"} : frames = <<NewFrame(kind, "body", 0, 0)>>
  BY DEF Init
<1> DEFINE f == NewFrame(kind, "body", 0, 0)
<1>2. f \in Frame
  BY NewFrameType DEF Kinds, Points
<1>3. Sound(f) /\ Fits(f, "run", 0, 0) /\ f.kind \in {"perl", "objc"}
  BY DEF NewFrame, Sound, Fits, Floor, HoldsScope, Gates, Points
<1>4. frames = <<f>>
  BY <1>1
<1> HIDE DEF f
<1>5. frames \in Seq(Frame) /\ Len(frames) = 1 /\ frames[1] = f
  BY <1>2, <1>4
<1>6. Chain(frames) /\ Top = f
  BY <1>3, <1>5 DEF Chain, Top
<1>7. mode = "run" /\ mode \in Modes /\ scope = 0 /\ slots = 0 /\ errsv \in Errors
  BY ErrorTypes DEF Modes, Init
<1>8. QED
  BY <1>3, <1>5, <1>6, <1>7 DEF IInv, TypeOK, CallerLives, Returns

LEMMA StutterInv ==
  ASSUME IInv, UNCHANGED vars
  PROVE  IInv'
BY DEF IInv, TypeOK, Chain, CallerLives, Top, Caller, vars

LEMMA StepInv == IInv /\ [Next]_vars => IInv'
<1> SUFFICES ASSUME IInv, [Next]_vars PROVE IInv'
  OBVIOUS
<1>1. CASE Perl
  BY <1>1, PerlOpensEvalStep, PerlClosesEvalStep, PerlDiesStep, PerlReturnsStep, ProgramEndsStep DEF Perl
<1>2. CASE Native
  BY <1>2, NativeOpensHandlerStep, NativeClosesHandlerStep, NativeRaisesStep, NativeReturnsStep DEF Native
<1>3. CASE Imp
  BY <1>3, ImpEntersStep, ImpCallsStep, ImpFindsNoMethodStep, ImpRaisesStep, ImpReturnsStep,
     ImpConversionRaisesStep, ImpConversionDiesStep DEF Imp
<1>4. CASE Eval
  BY <1>4, EvalEntersStep, EvalRaisesStep, EvalReturnsStep DEF Eval
<1>5. CASE Call
  BY <1>5, CallEntersStep, CallUnknownMethodStep, CallRefusesStep, CallInvokesStep, CallReturnsStep,
     CallHandlesExceptionStep, CallConversionRaisesStep, CallGoesAstrayStep DEF Call
<1>6. CASE Unwind
  BY <1>6, DieLeavesCallStep, DieReachesEvalStep, DieReachesGateStep, RaiseLeavesNativeStep, RaiseReachesHandlerStep, ErrorEndsProgramStep DEF Unwind
<1>7. CASE Exited \/ UNCHANGED vars
  BY <1>7, StutterInv DEF Exited
<1>8. QED
  BY <1>1, <1>2, <1>3, <1>4, <1>5, <1>6, <1>7 DEF Next

THEOREM Invariance == Spec => []IInv
<1>1. Init => IInv
  BY InitInv
<1>2. IInv /\ [Next]_vars => IInv'
  BY StepInv
<1>3. QED
  BY <1>1, <1>2, PTL DEF Spec

\* Every value the gates store has its type; in particular no LEAVE makes the
\* depth of the scope stack negative.
THEOREM TypeCorrect == Spec => []TypeOK
<1>1. IInv => TypeOK
  BY DEF IInv
<1>2. QED
  BY <1>1, Invariance, PTL

\* At any depth of nesting the gates are crossed in their order, and what Perl
\* code or a native method fails with never unwinds code of the other language.
\* A conversion of a gate's own that raises or dies does; then the order of the
\* gates still holds for what is left of the stack, and Perl code that has become
\* impossible to resume never runs and is never unwound into.
THEOREM NestingIsSafe == Spec => []WellNested
<1>1. IInv => WellNested
  BY TopFacts DEF IInv, Chain, Linked, Fits, WellNested, Top, CallerLives, Returns
<1>2. QED
  BY <1>1, Invariance, PTL

\* No LEAVE of a gate closes a scope of somebody else.
THEOREM ScopesAreHeld == Spec => []ScopesHeld
<1>1. IInv => ScopesHeld
  BY DEF IInv, Chain, Linked, Sound, Fits, ScopesHeld
<1>2. QED
  BY <1>1, Invariance, PTL

\* Scopes leak only into native code that swallowed an exception.
THEOREM LeaksAreSwallowed == Spec => []LeakNeedsSwallow
<1>1. IInv => LeakNeedsSwallow
  BY DEF IInv, Chain, Linked, Sound, Fits, LeakNeedsSwallow
<1>2. QED
  BY <1>1, Invariance, PTL

\* Perl code always resumes with the argument stack it had.
THEOREM ArgStackIsIntact == Spec => []ArgStackIntact
<1>1. IInv => ArgStackIntact
  BY DEF IInv, Chain, Linked, Fits, ArgStackIntact
<1>2. QED
  BY <1>1, Invariance, PTL

\* A CBPerlIMP that returns normally is balanced, whatever happened below it.
THEOREM ImpIsBalanced == Spec => ImpBalanced
<1>1. IInv /\ [Next]_vars => [ImpReturns => scope' = Top.base]_vars
  <2> SUFFICES ASSUME IInv, ImpReturns PROVE scope' = Top.base
    OBVIOUS
  <2>1. Top \in Frame /\ Sound(Top) /\ Fits(Top, mode, scope, slots) /\ scope \in Nat
    BY Known
  <2>2. QED
    BY <2>1 DEF ImpReturns, Running, Sound, Fits, Floor, HoldsScope, Frame
<1>2. QED
  BY <1>1, Invariance, PTL DEF Spec, ImpBalanced

----------------------------------------------------------------------------
(***************************************************************************)
(* The refinement.  CodeOf is a recursion along the stack; what it is      *)
(* after a step is shown once for a stack that gets one activation more    *)
(* (CodeOfAppend), and each change of the stack is one of those.           *)
(***************************************************************************)
LEMMA Less == ASSUME NEW x \in Nat, NEW y \in Nat, x < y PROVE <<x, y>> \in OpToRel(<, Nat)
BY DEF OpToRel

LEMMA LeastExists ==
  ASSUME NEW T, T \subseteq Nat, T # {}
  PROVE  \E m \in T : \A t \in T : m <= t
<1>1. PICK m \in T : \A y \in T : ~(<<y, m>> \in OpToRel(<, Nat))
  BY WFMin, NatLessThanWellFounded
<1>2. \A y \in T : y \in Nat /\ m \in Nat
  OBVIOUS
<1>3. ASSUME NEW y \in T PROVE m <= y
  <2>1. CASE y < m
    BY <1>1, <1>2, <2>1, Less
  <2> QED
    BY <1>2, <2>1
<1> QED
  BY <1>3

\* Induction over the numbers up to n, for a set of them.
LEMMA AllSteps ==
  ASSUME NEW n \in Nat, NEW S, 0 \in S, \A k \in 1 .. n : k - 1 \in S => k \in S
  PROVE  \A k \in 0 .. n : k \in S
<1> DEFINE T == {k \in 0 .. n : k \notin S}
<1>1. SUFFICES ASSUME T # {} PROVE FALSE
  OBVIOUS
<1>2. T \subseteq Nat
  OBVIOUS
<1>3. PICK m \in T : \A t \in T : m <= t
  BY <1>1, <1>2, LeastExists
<1>4. m \in 0 .. n /\ m \notin S /\ m \in 1 .. n
  BY <1>3
<1>5. m - 1 \notin T
  BY <1>3, <1>4
<1>6. m - 1 \in S
  BY <1>4, <1>5
<1> QED
  BY <1>4, <1>6

\* c holds CodeOf of the first n activations of s, for each n up to m.
Codes(s, m, c) ==
  c = [n \in 0 .. m |->
         IF n = 0 THEN <<>>
         ELSE IF IsCode(s[n]) THEN Append(c[n - 1], Activated(s[n])) ELSE c[n - 1]]

LEMMA CodesExist ==
  ASSUME NEW s, NEW n \in Nat
  PROVE  \E c : Codes(s, n, c)
<1> DEFINE S == {m \in 0 .. n : \E c : Codes(s, m, c)}
<1>1. 0 \in S
  <2> DEFINE c == [m \in 0 .. 0 |-> <<>>]
  <2>1. Codes(s, 0, c)
    BY DEF Codes
  <2> QED
    BY <2>1
<1>2. ASSUME NEW k \in 1 .. n, k - 1 \in S PROVE k \in S
  <2>1. PICK c : Codes(s, k - 1, c)
    BY <1>2
  <2> DEFINE next == IF IsCode(s[k]) THEN Append(c[k - 1], Activated(s[k])) ELSE c[k - 1]
             d == [m \in 0 .. k |-> IF m = k THEN next ELSE c[m]]
  <2>2. \A m \in 0 .. k - 1 :
          c[m] = IF m = 0 THEN <<>>
                 ELSE IF IsCode(s[m]) THEN Append(c[m - 1], Activated(s[m])) ELSE c[m - 1]
    BY <2>1 DEF Codes
  <2>3. d[k] = next /\ \A m \in 0 .. k - 1 : d[m] = c[m]
    OBVIOUS
  <2> HIDE DEF next
  <2>4. ASSUME NEW m \in 0 .. k
        PROVE  d[m] = IF m = 0 THEN <<>>
                      ELSE IF IsCode(s[m]) THEN Append(d[m - 1], Activated(s[m])) ELSE d[m - 1]
    <3>1. CASE m = k
      <4>1. d[m - 1] = c[k - 1] /\ m # 0
        BY <2>3, <3>1
      <4> HIDE DEF d
      <4> QED
        BY <2>3, <3>1, <4>1 DEF next
    <3>2. CASE m = 0
      <4>1. 0 \in 0 .. k - 1
        OBVIOUS
      <4> HIDE DEF d
      <4> QED
        BY <2>2, <2>3, <3>2, <4>1
    <3>3. CASE m # 0 /\ m # k
      <4>1. m \in 0 .. k - 1 /\ m - 1 \in 0 .. k - 1
        BY <3>3
      <4>2. d[m] = c[m] /\ d[m - 1] = c[m - 1]
        BY <2>3, <4>1
      <4> HIDE DEF d
      <4> QED
        BY <2>2, <3>3, <4>1, <4>2
    <3> QED
      BY <3>1, <3>2, <3>3
  <2>5. d = [m \in 0 .. k |-> d[m]]
    OBVIOUS
  <2> HIDE DEF d
  <2>6. Codes(s, k, d)
    BY <2>4, <2>5, Zenon DEF Codes
  <2> QED
    BY <2>6
<1> HIDE DEF S
<1>3. n \in S
  <2>1. \A k \in 0 .. n : k \in S
    BY <1>1, <1>2, AllSteps
  <2> QED
    BY <2>1
<1> QED
  BY <1>3 DEF S

\* What CodeOf computes.
LEMMA CodeOfIs ==
  ASSUME NEW s, Len(s) \in Nat
  PROVE  \E c : Codes(s, Len(s), c) /\ CodeOf(s) = c[Len(s)]
<1> DEFINE c == CHOOSE d : Codes(s, Len(s), d)
<1>1. Codes(s, Len(s), c)
  BY CodesExist
<1>2. CodeOf(s) = c[Len(s)]
  BY DEF CodeOf, Codes
<1> QED
  BY <1>1, <1>2

LEMMA CodesAt ==
  ASSUME NEW s, NEW m \in Nat, NEW c, Codes(s, m, c), NEW n \in 0 .. m
  PROVE  c[n] = IF n = 0 THEN <<>>
                ELSE IF IsCode(s[n]) THEN Append(c[n - 1], Activated(s[n])) ELSE c[n - 1]
BY DEF Codes

\* Stacks that begin alike have the same code there.
LEMMA CodesAgree ==
  ASSUME NEW s, NEW t, NEW m \in Nat, NEW n \in Nat, NEW k \in Nat, k <= m, k <= n,
         NEW c, NEW d, Codes(s, m, c), Codes(t, n, d), \A i \in 1 .. k : s[i] = t[i]
  PROVE  c[k] = d[k]
<1> DEFINE S == {j \in 0 .. k : c[j] = d[j]}
<1>1. 0 \in S
  <2>1. 0 \in 0 .. k /\ 0 \in 0 .. m /\ 0 \in 0 .. n
    OBVIOUS
  <2>2. c[0] = <<>>
    BY <2>1, CodesAt
  <2>3. d[0] = <<>>
    BY <2>1, CodesAt
  <2> QED
    BY <2>1, <2>2, <2>3
<1>2. ASSUME NEW j \in 1 .. k, j - 1 \in S PROVE j \in S
  <2>1. j \in 0 .. m /\ j \in 0 .. n /\ j # 0 /\ s[j] = t[j] /\ c[j - 1] = d[j - 1]
    BY <1>2
  <2>2. c[j] = d[j]
    BY <2>1, CodesAt
  <2> QED
    BY <2>2
<1> HIDE DEF S
<1>3. \A j \in 0 .. k : j \in S
  BY <1>1, <1>2, AllSteps
<1> QED
  BY <1>3 DEF S

\* The stack t is the stack s with f on it.
Tops(t, s, f) ==
  /\ Len(s) \in Nat /\ Len(t) = Len(s) + 1
  /\ t[Len(t)] = f /\ \A i \in 1 .. Len(s) : t[i] = s[i]

LEMMA CodeOfAppend ==
  ASSUME NEW s, NEW t, NEW f, Tops(t, s, f)
  PROVE  CodeOf(t) = IF IsCode(f) THEN Append(CodeOf(s), Activated(f)) ELSE CodeOf(s)
<1> DEFINE n == Len(s)
<1>1. n \in Nat /\ Len(t) = n + 1 /\ t[n + 1] = f /\ \A i \in 1 .. n : t[i] = s[i]
  BY DEF Tops
<1>2. PICK c : Codes(s, n, c) /\ CodeOf(s) = c[n]
  BY <1>1, CodeOfIs
<1>3. PICK d : Codes(t, n + 1, d) /\ CodeOf(t) = d[n + 1]
  BY <1>1, CodeOfIs
<1> HIDE DEF n
<1>4. d[n] = c[n]
  <2>1. PICK m \in Nat : m = n + 1
    BY <1>1
  <2>2. Codes(t, m, d) /\ n <= m /\ n <= n /\ \A i \in 1 .. n : s[i] = t[i]
    BY <1>1, <1>3, <2>1
  <2>3. c[n] = d[n]
    BY <1>1, <1>2, <2>2, CodesAgree
  <2> QED
    BY <2>3
<1>5. d[n + 1] = IF IsCode(f) THEN Append(d[n], Activated(f)) ELSE d[n]
  BY <1>1, <1>3, CodesAt
<1> QED
  BY <1>2, <1>3, <1>4, <1>5

LEMMA CodeOfNone == ASSUME NEW s, Len(s) = 0 PROVE CodeOf(s) = <<>>
<1>1. PICK c : Codes(s, 0, c) /\ CodeOf(s) = c[0]
  BY CodeOfIs
<1> QED
  BY <1>1, CodesAt

\* Stacks that are alike have the same code.
LEMMA CodeOfSame ==
  ASSUME NEW s, NEW t, Len(s) \in Nat, Len(t) = Len(s), \A i \in 1 .. Len(s) : s[i] = t[i]
  PROVE  CodeOf(s) = CodeOf(t)
<1> DEFINE n == Len(s)
<1>1. PICK c : Codes(s, n, c) /\ CodeOf(s) = c[n]
  BY CodeOfIs
<1>2. PICK d : Codes(t, n, d) /\ CodeOf(t) = d[n]
  BY CodeOfIs
<1>3. n \in Nat /\ n <= n /\ \A i \in 1 .. n : s[i] = t[i]
  OBVIOUS
<1> HIDE DEF n
<1>4. PICK m \in Nat : m = n
  BY <1>3
<1>5. Codes(t, m, d) /\ n <= m
  BY <1>2, <1>3, <1>4
<1>6. c[n] = d[n]
  BY <1>1, <1>3, <1>5, CodesAgree
<1> QED
  BY <1>1, <1>2, <1>6

LEMMA CodeOfType ==
  ASSUME NEW s \in Seq(Frame)
  PROVE  CodeOf(s) \in Seq(Promise!Activation)
<1>1. PICK c : Codes(s, Len(s), c) /\ CodeOf(s) = c[Len(s)]
  BY CodeOfIs
<1>2. \A i \in 1 .. Len(s) : Activated(s[i]) \in Promise!Activation
  <2> SUFFICES ASSUME NEW i \in 1 .. Len(s) PROVE Activated(s[i]) \in Promise!Activation
    OBVIOUS
  <2>1. s[i] \in Frame
    BY ElementOfSeq
  <2>2. s[i].guard \in BOOLEAN
    BY <2>1 DEF Frame
  <2>3. (s[i].pc = "lost") \in BOOLEAN
    OBVIOUS
  <2> QED
    BY <2>2, <2>3 DEF Activated, Promise!Activation, Promise!Lang
<1>n. Len(s) \in Nat
  OBVIOUS
<1> DEFINE S == {j \in 0 .. Len(s) : c[j] \in Seq(Promise!Activation)}
<1>3. 0 \in S
  <2>1. 0 \in 0 .. Len(s)
    BY <1>n
  <2>2. c[0] = <<>>
    BY <1>1, <1>n, <2>1, CodesAt
  <2>3. <<>> \in Seq(Promise!Activation)
    OBVIOUS
  <2> QED
    BY <2>1, <2>2, <2>3
<1>4. ASSUME NEW j \in 1 .. Len(s), j - 1 \in S PROVE j \in S
  <2>1. c[j] = IF IsCode(s[j]) THEN Append(c[j - 1], Activated(s[j])) ELSE c[j - 1]
    BY <1>1, <1>n, CodesAt
  <2>2. c[j - 1] \in Seq(Promise!Activation) /\ Activated(s[j]) \in Promise!Activation
    BY <1>2, <1>4
  <2>3. c[j] \in Seq(Promise!Activation)
    BY <2>1, <2>2
  <2> QED
    BY <2>3
<1> HIDE DEF S
<1>5. \A j \in 0 .. Len(s) : j \in S
  BY <1>n, <1>3, <1>4, AllSteps
<1> QED
  BY <1>1, <1>n, <1>5 DEF S

(***************************************************************************)
(* What is below the innermost activation, and below its caller.           *)
(***************************************************************************)
Under == SubSeq(frames, 1, Len(frames) - 2)

LEMMA FrontIs ==
  ASSUME NEW s \in Seq(Frame), NEW k \in 0 .. Len(s)
  PROVE  /\ SubSeq(s, 1, k) \in Seq(Frame) /\ Len(SubSeq(s, 1, k)) = k
         /\ \A i \in 1 .. k : SubSeq(s, 1, k)[i] = s[i]
<1>1. \A i \in 1 .. k : s[i] \in Frame
  BY ElementOfSeq
<1> QED
  BY <1>1, SubSeqProperties

LEMMA BelowIs ==
  ASSUME IInv
  PROVE  /\ Below \in Seq(Frame) /\ Len(Below) = Len(frames) - 1 /\ Len(frames) \in Nat \ {0}
         /\ \A i \in 1 .. Len(frames) - 1 : Below[i] = frames[i]
         /\ Tops(frames, Below, Top)
<1>1. frames \in Seq(Frame) /\ Len(frames) \in Nat \ {0}
  BY Known
<1>2. Len(frames) - 1 \in 0 .. Len(frames)
  BY <1>1
<1>3. /\ Below \in Seq(Frame) /\ Len(Below) = Len(frames) - 1
      /\ \A i \in 1 .. Len(frames) - 1 : Below[i] = frames[i]
  BY <1>1, <1>2, FrontIs DEF Below
<1> QED
  BY <1>1, <1>3 DEF Tops, Top

LEMMA UnderIs ==
  ASSUME IInv, Len(frames) > 1
  PROVE  /\ Under \in Seq(Frame) /\ Len(Under) = Len(frames) - 2
         /\ \A i \in 1 .. Len(frames) - 2 : Under[i] = frames[i]
         /\ Tops(Below, Under, Caller)
<1>1. frames \in Seq(Frame) /\ Len(frames) \in Nat \ {0}
  BY Known
<1>2. Len(frames) - 2 \in 0 .. Len(frames)
  BY <1>1
<1>3. /\ Under \in Seq(Frame) /\ Len(Under) = Len(frames) - 2
      /\ \A i \in 1 .. Len(frames) - 2 : Under[i] = frames[i]
  BY <1>1, <1>2, FrontIs DEF Under
<1>4. Tops(Below, Under, Caller)
  <2>1. /\ Len(Below) = Len(frames) - 1 /\ Below[Len(Below)] = Caller
        /\ \A i \in 1 .. Len(frames) - 1 : Below[i] = frames[i]
    BY <1>1, BelowIs DEF Caller
  <2> QED
    BY <1>1, <1>3, <2>1 DEF Tops
<1> QED
  BY <1>3, <1>4

\* The code of the stack, of the stack without its top, and of the stack
\* without its two topmost activations.
LEMMA TopCode ==
  ASSUME IInv
  PROVE  /\ IsCode(Top) => CodeOf(frames) = Append(CodeOf(Below), Activated(Top))
         /\ ~IsCode(Top) => CodeOf(frames) = CodeOf(Below)
         /\ CodeOf(Below) \in Seq(Promise!Activation)
BY BelowIs, CodeOfAppend, CodeOfType

LEMMA CallerCode ==
  ASSUME IInv, Len(frames) > 1
  PROVE  /\ IsCode(Caller) => CodeOf(Below) = Append(CodeOf(Under), Activated(Caller))
         /\ ~IsCode(Caller) => CodeOf(Below) = CodeOf(Under)
         /\ CodeOf(Under) \in Seq(Promise!Activation)
BY UnderIs, CodeOfAppend, CodeOfType

\* Below the innermost activation there is always some code.
LEMMA CodeBelow ==
  ASSUME IInv, Len(frames) > 1
  PROVE  CodeOf(Below) # <<>>
<1>1. /\ frames \in Seq(Frame) /\ Len(frames) \in Nat \ {0} /\ Chain(frames)
  BY Known
<1>2. CASE IsCode(Caller)
  BY <1>2, CallerCode
<1>3. CASE ~IsCode(Caller)
  <2> DEFINE n == Len(frames) - 2
             s == SubSeq(frames, 1, n - 1)
  <2>1. n # 0
    BY <1>1, <1>3 DEF Chain, Caller, IsCode
  <2>2. n \in 1 .. Len(frames) - 1 /\ n - 1 \in 0 .. Len(frames) /\ n \in Nat
    <3>1. \A m \in Nat \ {0} : m > 1 /\ m - 2 # 0 =>
            m - 2 \in 1 .. m - 1 /\ (m - 2) - 1 \in 0 .. m /\ m - 2 \in Nat
      OBVIOUS
    <3> QED
      BY ONLY <1>1, <2>1, <3>1, Len(frames) > 1
  <2>3. Linked(frames[n], Caller)
    <3>1. n + 1 = Len(frames) - 1
      BY <2>2
    <3>2. Linked(frames[n], frames[n + 1])
      BY <1>1, <2>2 DEF Chain
    <3> QED
      BY <3>1, <3>2 DEF Caller
  <2>4. IsCode(frames[n])
    BY <1>3, <2>3 DEF Linked, Calls, IsCode
  <2>5. s \in Seq(Frame) /\ Len(s) = n - 1 /\ \A i \in 1 .. n - 1 : s[i] = frames[i]
    BY <1>1, <2>2, FrontIs
  <2>6. Len(Under) = n /\ \A i \in 1 .. n : Under[i] = frames[i]
    BY UnderIs
  <2> HIDE DEF n, s
  <2>7. Tops(Under, s, frames[n])
    BY <2>2, <2>5, <2>6 DEF Tops
  <2>8. CodeOf(Under) = Append(CodeOf(s), Activated(frames[n]))
    BY <2>4, <2>7, CodeOfAppend
  <2>9. CodeOf(s) \in Seq(Promise!Activation)
    BY <2>5, CodeOfType
  <2> QED
    BY <1>3, <2>8, <2>9, CallerCode
<1> QED
  BY <1>2, <1>3

(***************************************************************************)
(* The code after each kind of change.                                     *)
(***************************************************************************)
LEMMA PushCode ==
  ASSUME IInv, NEW f \in Frame, Push(f)
  PROVE  /\ IsCode(f) => CodeOf(frames)' = Append(CodeOf(frames), Activated(f))
         /\ ~IsCode(f) => CodeOf(frames)' = CodeOf(frames)
<1>1. frames \in Seq(Frame) /\ Len(frames) \in Nat
  BY Known
<1>2. Tops(frames', frames, f)
  BY <1>1, PushFacts DEF Push, Tops
<1> QED
  BY <1>2, CodeOfAppend

LEMMA BecomeCode ==
  ASSUME IInv, NEW f \in Frame, Become(f)
  PROVE  /\ IsCode(f) => CodeOf(frames)' = Append(CodeOf(Below), Activated(f))
         /\ ~IsCode(f) => CodeOf(frames)' = CodeOf(Below)
<1>1. frames \in Seq(Frame) /\ Len(frames) \in Nat \ {0}
  BY Known
<1>2. /\ Len(frames') = Len(frames) /\ frames'[Len(frames)] = f
      /\ \A i \in 1 .. Len(frames) - 1 : frames'[i] = frames[i]
  BY <1>1, BecomeFacts DEF Become
<1>3. Tops(frames', Below, f)
  BY <1>1, <1>2, BelowIs DEF Tops
<1> QED
  BY <1>3, CodeOfAppend

LEMMA PopCode ==
  ASSUME Pop
  PROVE  CodeOf(frames)' = CodeOf(Below)
BY DEF Pop

LEMMA PopToCode ==
  ASSUME IInv, Len(frames) > 1, NEW f \in Frame, PopTo(f)
  PROVE  /\ IsCode(f) => CodeOf(frames)' = Append(CodeOf(Under), Activated(f))
         /\ ~IsCode(f) => CodeOf(frames)' = CodeOf(Under)
<1>1. frames \in Seq(Frame) /\ Len(frames) \in Nat \ {0}
  BY Known
<1>2. /\ Len(frames') = Len(frames) - 1 /\ frames'[Len(frames) - 1] = f
      /\ \A i \in 1 .. Len(frames) - 2 : frames'[i] = frames[i]
  BY <1>1, PopToFacts DEF PopTo, Below
<1>3. Tops(frames', Under, f)
  BY <1>1, <1>2, UnderIs DEF Tops
<1> QED
  BY <1>3, CodeOfAppend

\* A gate awaits its callee.
LEMMA AwaitCode ==
  ASSUME IInv, NEW f \in Frame, NEW g \in Frame, ~IsCode(f), ~IsCode(Top), IsCode(g), Await(f, g)
  PROVE  CodeOf(frames)' = Append(CodeOf(frames), Activated(g))
<1>1. frames \in Seq(Frame) /\ Len(frames) \in Nat \ {0}
  BY Known
<1> DEFINE t == [frames EXCEPT ![Len(frames)] = f]
<1>2. /\ t \in Seq(Frame) /\ Len(t) = Len(frames) /\ t[Len(frames)] = f
      /\ \A i \in 1 .. Len(frames) - 1 : t[i] = frames[i]
  BY <1>1, BecomeFacts
<1>3. frames' = Append(t, g)
  BY DEF Await
<1> HIDE DEF t
<1>4. Tops(t, Below, f)
  BY <1>1, <1>2, BelowIs DEF Tops
<1>5. Tops(frames', t, g)
  BY <1>1, <1>2, <1>3, PushFacts DEF Tops
<1> QED
  BY <1>4, <1>5, CodeOfAppend, TopCode

(***************************************************************************)
(* The promise's operators on a stack of calls that has a top.             *)
(***************************************************************************)
LEMMA AbstractTop ==
  ASSUME NEW c \in Seq(Promise!Activation), NEW a \in Promise!Activation,
         CodeOf(frames) = Append(c, a)
  PROVE  /\ Promise!TopCall = a /\ Promise!Outer = c
         /\ Len(CodeOf(frames)) \in Nat
         /\ c # <<>> <=> Len(CodeOf(frames)) > 1
         /\ c = <<>> <=> Len(CodeOf(frames)) = 1
         /\ \A b \in BOOLEAN :
              [CodeOf(frames) EXCEPT ![Len(CodeOf(frames))].handles = b]
                = Append(c, [lang |-> a.lang, handles |-> b, lost |-> a.lost])
<1> DEFINE s == CodeOf(frames)
<1>1. s \in Seq(Promise!Activation) /\ Len(s) = Len(c) + 1 /\ s[Len(c) + 1] = a
      /\ \A i \in 1 .. Len(c) : s[i] = c[i]
  BY AppendProperties
<1>2. Len(c) \in Nat /\ (c = <<>> <=> Len(c) = 0)
  BY EmptySeq
<1>3. Promise!TopCall = a
  BY <1>1, <1>2 DEF Promise!TopCall
<1>4. Promise!Outer = c
  <2>1. Promise!Outer = SubSeq(s, 1, Len(c))
    BY <1>1, <1>2 DEF Promise!Outer
  <2>2. SubSeq(Append(c, a), 1, Len(c)) = c
    BY <1>2
  <2> QED
    BY <2>1, <2>2
<1>5. ASSUME NEW b \in BOOLEAN
      PROVE  [s EXCEPT ![Len(s)].handles = b] = Append(c, [lang |-> a.lang, handles |-> b, lost |-> a.lost])
  <2> DEFINE e == [lang |-> a.lang, handles |-> b, lost |-> a.lost]
             u == [s EXCEPT ![Len(s)].handles = b]
             v == Append(c, e)
  <2>1. [a EXCEPT !.handles = b] = e
    BY DEF Promise!Activation
  <2>2. e \in Promise!Activation
    BY DEF Promise!Activation
  <2> HIDE DEF e
  <2>3. v \in Seq(Promise!Activation) /\ Len(v) = Len(c) + 1 /\ v[Len(c) + 1] = e
        /\ \A i \in 1 .. Len(c) : v[i] = c[i]
    BY <2>2, AppendProperties
  <2>4. u = [s EXCEPT ![Len(s)] = e]
    BY <1>1, <1>2, <2>1
  <2> HIDE DEF s, u, v
  <2>5. u \in Seq(Promise!Activation) /\ Len(u) = Len(s) /\ u[Len(s)] = e
        /\ \A i \in 1 .. Len(s) : i # Len(s) => u[i] = s[i]
    BY <1>1, <1>2, <2>2, <2>4
  <2>6. Len(u) = Len(v) /\ \A i \in 1 .. Len(u) : u[i] = v[i]
    BY <1>1, <1>2, <2>3, <2>5
  <2>7. u = v
    BY <2>3, <2>5, <2>6, SeqEqual
  <2> QED
    BY <2>7 DEF u, v, e
<1> QED
  BY <1>1, <1>2, <1>3, <1>4, <1>5

(***************************************************************************)
(* Each action is a step of the promise, or none.                          *)
(***************************************************************************)
Promises == Promise!Next \/ UNCHANGED Promise!vars

LEMMA ActivatedIs ==
  ASSUME NEW f \in Frame
  PROVE  /\ Activated(f) \in Promise!Activation /\ Activated(f).handles = f.guard
         /\ f.kind = "perl" => Activated(f).lang = "perl"
         /\ f.kind # "perl" => Activated(f).lang = "native"
         /\ \A m, w : \A b \in BOOLEAN :
              Activated(Guarded(f, b, m, w))
                = [lang |-> Activated(f).lang, handles |-> b, lost |-> Activated(f).lost]
         /\ Activated(f).lost <=> f.pc = "lost"
         /\ \A pc, w : pc # "lost" /\ f.pc # "lost" => Activated(Resumed(f, pc, w)) = Activated(f)
<1>1. f.guard \in BOOLEAN /\ (f.pc = "lost") \in BOOLEAN
  BY DEF Frame
<1> QED
  BY <1>1 DEF Activated, Promise!Activation, Promise!Lang, Guarded, Resumed

LEMMA Stutters ==
  ASSUME CodeOf(frames)' = CodeOf(frames), Status' = Status
  PROVE  Promises
BY DEF Promises, Promise!vars

\* The innermost activation when it is code.
LEMMA CodeTop ==
  ASSUME IInv, IsCode(Top)
  PROVE  /\ Promise!TopCall = Activated(Top) /\ Promise!Outer = CodeOf(Below)
         /\ ~Promise!TopCall.lost
         /\ Len(frames) > 1 => Len(CodeOf(frames)) > 1
         /\ Len(frames) = 1 => Len(CodeOf(frames)) = 1
         /\ \A b \in BOOLEAN :
              [CodeOf(frames) EXCEPT ![Len(CodeOf(frames))].handles = b]
                = Append(CodeOf(Below), [lang |-> Activated(Top).lang, handles |-> b,
                                         lost |-> Activated(Top).lost])
<1>1. Activated(Top) \in Promise!Activation /\ ~Activated(Top).lost
  BY Known, ActivatedIs DEF Fits
<1>2. Len(frames) = 1 => CodeOf(Below) = <<>>
  <2>1. Len(frames) = 1 => Len(Below) = 0
    BY BelowIs
  <2> QED
    BY <2>1, CodeOfNone
<1> QED
  BY <1>1, <1>2, TopCode, CodeBelow, AbstractTop

\* The caller, when the innermost activation is a gate.
LEMMA CodeCaller ==
  ASSUME IInv, Top.kind \in Gates
  PROVE  /\ Len(frames) > 1 /\ Caller \in Frame /\ ~IsCode(Top) /\ IsCode(Caller)
         /\ <<Caller.kind, Top.kind>> \in Calls
         /\ CodeOf(frames) = CodeOf(Below)
         /\ CodeOf(Below) = Append(CodeOf(Under), Activated(Caller))
         /\ Promise!TopCall = Activated(Caller)
<1>1. Len(frames) > 1 /\ Caller \in Frame /\ Linked(Caller, Top)
  BY HasCaller, CallerKnown
<1>2. ~IsCode(Top)
  BY DEF IsCode, Gates
<1>3. <<Caller.kind, Top.kind>> \in Calls
  BY <1>1 DEF Linked
<1>4. IsCode(Caller)
  BY <1>3 DEF IsCode, Gates, Calls
<1>5. /\ CodeOf(frames) = CodeOf(Below)
      /\ CodeOf(Below) = Append(CodeOf(Under), Activated(Caller))
      /\ CodeOf(Under) \in Seq(Promise!Activation)
  BY <1>1, <1>2, <1>4, TopCode, CallerCode
<1>6. Promise!TopCall = Activated(Caller)
  BY <1>1, <1>5, ActivatedIs, AbstractTop
<1> QED
  BY <1>1, <1>2, <1>3, <1>4, <1>5, <1>6

\* The caller of a gate can go on, unless it is Perl code that is lost.
LEMMA CallerGoesOn ==
  ASSUME IInv, Top.kind \in Gates, Top.kind = "call" => Caller.pc # "lost"
  PROVE  ~Promise!TopCall.lost
<1>1. /\ Len(frames) > 1 /\ Caller \in Frame /\ <<Caller.kind, Top.kind>> \in Calls
      /\ Promise!TopCall = Activated(Caller)
  BY CodeCaller
<1>2. Sound(Caller)
  BY <1>1, CallerKnown
<1>3. Caller.pc # "lost"
  BY <1>1, <1>2 DEF Sound, Gates, Calls
<1> QED
  BY <1>1, <1>3, ActivatedIs

\* The gate that waits for the innermost activation.
LEMMA GateCaller ==
  ASSUME IInv, IsCode(Top), Len(frames) > 1
  PROVE  /\ Caller \in Frame /\ ~IsCode(Caller) /\ Caller.kind \in Gates
         /\ <<Caller.kind, Top.kind>> \in Calls
         /\ CodeOf(Below) = CodeOf(Under)
<1>1. Caller \in Frame /\ Linked(Caller, Top)
  BY CallerKnown
<1>2. <<Caller.kind, Top.kind>> \in Calls
  BY <1>1 DEF Linked
<1>3. ~IsCode(Caller) /\ Caller.kind \in Gates
  BY <1>2 DEF IsCode, Gates, Calls
<1> QED
  BY <1>1, <1>2, <1>3, CallerCode

\* The innermost activation changes its handler.
LEMMA BecomeGuarded ==
  ASSUME IInv, IsCode(Top), NEW b \in BOOLEAN, NEW m \in Nat, NEW w \in BOOLEAN,
         Become(Guarded(Top, b, m, w))
  PROVE  /\ Promise!SetHandles(b) /\ Promise!TopCall.handles = Top.guard
         /\ Top' = Guarded(Top, b, m, w)
<1>1. Top \in Frame /\ frames \in Seq(Frame) /\ Len(frames) \in Nat \ {0}
  BY Known
<1> DEFINE f == Guarded(Top, b, m, w)
<1>2. f \in Frame /\ f.kind = Top.kind
  BY <1>1, FrameUpdates DEF Frame, Guarded, Points
<1>3. IsCode(f)
  BY <1>2 DEF IsCode
<1>4. Activated(f) = [lang |-> Activated(Top).lang, handles |-> b, lost |-> Activated(Top).lost]
  BY <1>1, ActivatedIs
<1>5. Become(f)
  OBVIOUS
<1> HIDE DEF f
<1>6. CodeOf(frames)' = Append(CodeOf(Below), Activated(f))
  BY <1>2, <1>3, <1>5, BecomeCode
<1>7. Promise!SetHandles(b)
  BY <1>4, <1>6, CodeTop DEF Promise!SetHandles
<1>8. Promise!TopCall.handles = Top.guard
  BY <1>1, CodeTop, ActivatedIs
<1>9. Top' = f
  <2>1. Len(frames') = Len(frames) /\ frames'[Len(frames)] = f
    BY <1>1, <1>2, <1>5, BecomeFacts DEF Become
  <2> QED
    BY <2>1 DEF Top
<1> QED
  BY <1>7, <1>8, <1>9 DEF f

\* The innermost activation ends and its gate goes on.
LEMMA ReturnsToGate ==
  ASSUME IInv, IsCode(Top), Len(frames) > 1, NEW pc \in {"after"}, NEW w \in BOOLEAN,
         PopTo(Resumed(Caller, pc, w))
  PROVE  /\ CodeOf(frames)' = Promise!Outer /\ Len(CodeOf(frames)) > 1
         /\ Promise!TopCall = Activated(Top)
         /\ Top' = Resumed(Caller, pc, w)
<1> DEFINE f == Resumed(Caller, pc, w)
<1>1. Caller \in Frame /\ ~IsCode(Caller) /\ CodeOf(Below) = CodeOf(Under)
  BY GateCaller
<1>2. f \in Frame /\ f.kind = Caller.kind
  BY <1>1, FrameUpdates DEF Frame, Resumed, Points
<1>3. ~IsCode(f)
  BY <1>1, <1>2 DEF IsCode
<1>4. PopTo(f)
  OBVIOUS
<1> HIDE DEF f
<1>5. CodeOf(frames)' = CodeOf(Under)
  BY <1>2, <1>3, <1>4, PopToCode
<1>6. Top' = f
  <2>1. Len(frames') = Len(frames) - 1 /\ frames'[Len(frames) - 1] = f
    <3>1. frames \in Seq(Frame) /\ Len(frames) \in Nat \ {0}
      BY Known
    <3> QED
      BY <1>2, <1>4, <3>1, PopToFacts DEF PopTo, Below
  <2> QED
    BY <2>1 DEF Top
<1> QED
  BY <1>1, <1>5, <1>6, CodeTop DEF f

\* The gate ends.
LEMMA GateEnds ==
  ASSUME IInv, Top.kind \in Gates, Pop
  PROVE  CodeOf(frames)' = CodeOf(frames) /\ Top' = Caller
<1>1. Len(frames) > 1 /\ CodeOf(frames) = CodeOf(Below)
  BY CodeCaller
<1>2. Top' = Caller
  BY <1>1, AfterPop
<1> QED
  BY <1>1, <1>2, PopCode

(* Perl code *)
LEMMA PerlOpensEvalPromise == ASSUME IInv, PerlOpensEval PROVE Promise!OpenHandler
<1>1. Top \in Frame /\ scope \in Nat /\ IsCode(Top) /\ mode = "run" /\ ~Top.guard /\ Top.kind = "perl"
  BY Known DEF PerlOpensEval, Running, IsCode
<1> DEFINE f == Guarded(Top, TRUE, scope, Top.swallowed)
<1>2. Promise!SetHandles(TRUE) /\ Promise!TopCall.handles = Top.guard /\ Top' = f
  <2>1. Become(f) /\ Top.swallowed \in BOOLEAN
    BY <1>1 DEF PerlOpensEval, Frame
  <2> QED
    BY <1>1, <2>1, BecomeGuarded
<1>3. Status = "run" /\ Status' = "run"
  <2>1. mode' = "run" /\ Top'.kind = "perl"
    BY <1>1, <1>2 DEF PerlOpensEval, Guarded
  <2> QED
    BY <1>1, <2>1 DEF Status, Failing
<1> QED
  BY <1>1, <1>2, <1>3, CodeTop DEF Promise!OpenHandler, Promise!Running

LEMMA PerlClosesEvalPromise == ASSUME IInv, PerlClosesEval PROVE Promise!CloseHandler
<1>1. Top \in Frame /\ IsCode(Top) /\ mode = "run" /\ Top.guard /\ Top.kind = "perl"
  BY Known DEF PerlClosesEval, Running, IsCode
<1> DEFINE f == Guarded(Top, FALSE, 0, Top.swallowed)
<1>2. Promise!SetHandles(FALSE) /\ Promise!TopCall.handles = Top.guard /\ Top' = f
  <2>1. Become(f) /\ Top.swallowed \in BOOLEAN
    BY <1>1 DEF PerlClosesEval, Frame
  <2> QED
    BY <1>1, <2>1, BecomeGuarded
<1>3. Status = "run" /\ Status' = "run"
  <2>1. mode' = "run" /\ Top'.kind = "perl"
    BY <1>1, <1>2 DEF PerlClosesEval, Guarded
  <2> QED
    BY <1>1, <2>1 DEF Status, Failing
<1> QED
  BY <1>1, <1>2, <1>3, CodeTop DEF Promise!CloseHandler, Promise!Running

\* A death with a false value is a weak error.
LEMMA PerlDiesPromise == ASSUME IInv, PerlDies PROVE Promise!Fail
<1>1. Top \in Frame /\ IsCode(Top) /\ mode = "run" /\ Top.kind = "perl"
  BY Known DEF PerlDies, Running, IsCode
<1>2. Status = "run"
  BY <1>1 DEF Status, Failing
<1>3. mode' = "die" /\ CodeOf(frames)' = CodeOf(frames)
  BY DEF PerlDies
<1>4. Status' \in {"fail", "weak"}
  BY <1>3 DEF Status, Failing
<1>5. Promise!TopCall.lang = "perl"
  BY <1>1, CodeTop, ActivatedIs
<1> QED
  BY <1>1, <1>2, <1>3, <1>4, <1>5, CodeTop DEF Promise!Fail, Promise!Running

LEMMA PerlReturnsPromise == ASSUME IInv, PerlReturns PROVE Promise!Return
<1>1. Top \in Frame /\ IsCode(Top) /\ mode = "run" /\ ~Top.guard /\ Len(frames) > 1 /\ Top.kind = "perl"
  BY Known DEF PerlReturns, Running, IsCode
<1>2. /\ CodeOf(frames)' = Promise!Outer /\ Len(CodeOf(frames)) > 1
      /\ Promise!TopCall = Activated(Top)
  <2>1. PopTo(Resumed(Caller, "after", Caller.swallowed)) /\ Caller.swallowed \in BOOLEAN
    BY <1>1, GateCaller DEF PerlReturns, At, Frame
  <2> QED
    BY <1>1, <2>1, ReturnsToGate
<1>3. Status = "run" /\ Status' = "run"
  <2>1. mode' = "run" /\ ~SvTRUE(errsv)'
    BY <1>1 DEF PerlReturns, SvTRUE, Running
  <2> QED
    BY <1>1, <2>1 DEF Status, Failing
<1>4. ~Promise!TopCall.handles
  BY <1>1, <1>2, ActivatedIs
<1> QED
  BY <1>1, <1>2, <1>3, <1>4, CodeTop DEF Promise!Return, Promise!Running

LEMMA ProgramEndsPromise == ASSUME IInv, ProgramEnds PROVE Promise!End
<1>1. Top \in Frame /\ IsCode(Top) /\ mode = "run" /\ ~Top.guard /\ Len(frames) = 1
  BY Known, TopFacts DEF ProgramEnds, IsCode
<1>2. Len(CodeOf(frames)) = 1 /\ ~Promise!TopCall.handles
  BY <1>1, CodeTop, ActivatedIs
<1>3. Status = "run" /\ Status' = "over" /\ CodeOf(frames)' = CodeOf(frames)
  BY <1>1 DEF ProgramEnds, Status, Failing, IsCode
<1> QED
  BY <1>1, <1>2, <1>3, CodeTop DEF Promise!End

(* Native code *)
LEMMA NativeOpensHandlerPromise == ASSUME IInv, NativeOpensHandler PROVE Promise!OpenHandler
<1>1. Top \in Frame /\ IsCode(Top) /\ mode = "run" /\ ~Top.guard /\ Top.kind = "objc"
  BY Known DEF NativeOpensHandler, Running, IsCode
<1> DEFINE f == Guarded(Top, TRUE, 0, Top.swallowed)
<1>2. Promise!SetHandles(TRUE) /\ Promise!TopCall.handles = Top.guard /\ Top' = f
  <2>1. Become(f) /\ Top.swallowed \in BOOLEAN
    BY <1>1 DEF NativeOpensHandler, Frame
  <2> QED
    BY <1>1, <2>1, BecomeGuarded
<1>3. Status = "run" /\ Status' = "run"
  <2>1. mode' = "run" /\ Top'.kind = "objc"
    BY <1>1, <1>2 DEF NativeOpensHandler, Guarded
  <2> QED
    BY <1>1, <2>1 DEF Status, Failing
<1> QED
  BY <1>1, <1>2, <1>3, CodeTop DEF Promise!OpenHandler, Promise!Running

LEMMA NativeClosesHandlerPromise == ASSUME IInv, NativeClosesHandler PROVE Promise!CloseHandler
<1>1. Top \in Frame /\ IsCode(Top) /\ mode = "run" /\ Top.guard /\ Top.kind = "objc"
  BY Known DEF NativeClosesHandler, Running, IsCode
<1> DEFINE f == Guarded(Top, FALSE, 0, Top.swallowed)
<1>2. Promise!SetHandles(FALSE) /\ Promise!TopCall.handles = Top.guard /\ Top' = f
  <2>1. Become(f) /\ Top.swallowed \in BOOLEAN
    BY <1>1 DEF NativeClosesHandler, Frame
  <2> QED
    BY <1>1, <2>1, BecomeGuarded
<1>3. Status = "run" /\ Status' = "run"
  <2>1. mode' = "run" /\ Top'.kind = "objc"
    BY <1>1, <1>2 DEF NativeClosesHandler, Guarded
  <2> QED
    BY <1>1, <2>1 DEF Status, Failing
<1> QED
  BY <1>1, <1>2, <1>3, CodeTop DEF Promise!CloseHandler, Promise!Running

LEMMA NativeRaisesPromise == ASSUME IInv, NativeRaises PROVE Promise!Fail
<1>1. Top \in Frame /\ IsCode(Top) /\ mode = "run" /\ Top.kind = "objc"
  BY Known DEF NativeRaises, Running, IsCode
<1>2. Status = "run"
  BY <1>1 DEF Status, Failing
<1>3. Status' = "fail" /\ CodeOf(frames)' = CodeOf(frames)
  BY DEF NativeRaises, Status, Failing
<1> QED
  BY <1>1, <1>2, <1>3, CodeTop DEF Promise!Fail, Promise!Running

LEMMA NativeReturnsPromise == ASSUME IInv, NativeReturns PROVE Promise!Return
<1>1. Top \in Frame /\ IsCode(Top) /\ mode = "run" /\ ~Top.guard /\ Len(frames) > 1 /\ Top.kind = "objc"
  BY Known DEF NativeReturns, Running, IsCode
<1>2. Caller \in Frame /\ Caller.kind = "call"
  BY <1>1, GateCaller DEF Calls
<1> DEFINE w == Caller.swallowed \/ Top.swallowed
<1>3. /\ CodeOf(frames)' = Promise!Outer /\ Len(CodeOf(frames)) > 1
      /\ Promise!TopCall = Activated(Top) /\ Top' = Resumed(Caller, "after", w)
  <2>1. PopTo(Resumed(Caller, "after", w)) /\ w \in BOOLEAN
    BY DEF NativeReturns
  <2> QED
    BY <1>1, <2>1, ReturnsToGate
<1>4. Status = "run" /\ Status' = "run"
  <2>1. mode' = "run" /\ Top'.kind = "call"
    BY <1>1, <1>2, <1>3 DEF NativeReturns, Resumed
  <2> QED
    BY <1>1, <2>1 DEF Status, Failing
<1>5. ~Promise!TopCall.handles
  BY <1>1, <1>3, ActivatedIs
<1> QED
  BY <1>1, <1>3, <1>4, <1>5, CodeTop DEF Promise!Return, Promise!Running

(* REAL_CBPerlIMP *)

\* A gate is put on code.
LEMMA GateEnters ==
  ASSUME IInv, NEW k \in Gates, NEW pc \in {"args", "during"}, mode = "run", mode' = "run",
         IsCode(Top), Push(NewFrame(k, pc, scope, slots))
  PROVE  Promises
<1> DEFINE f == NewFrame(k, pc, scope, slots)
<1>1. f \in Frame /\ f.kind = k /\ f.pc = pc
  BY Known, NewFrameType DEF Gates, Kinds, Points, NewFrame
<1>2. ~IsCode(f) /\ Push(f)
  BY <1>1 DEF IsCode, Gates
<1> HIDE DEF f
<1>3. CodeOf(frames)' = CodeOf(frames)
  BY <1>1, <1>2, PushCode
<1>4. Top' = f
  <2>1. Len(frames') = Len(frames) + 1 /\ frames'[Len(frames) + 1] = f
    BY <1>1, <1>2, Known, PushFacts DEF Push
  <2> QED
    BY <2>1 DEF Top
<1>5. Status = "run" /\ Status' = "run"
  BY <1>1, <1>4 DEF Status, Failing, IsCode
<1> QED
  BY <1>3, <1>5, Stutters

LEMMA ImpEntersPromise == ASSUME IInv, ImpEnters PROVE Promises
<1>1. /\ "imp" \in Gates /\ mode = "run" /\ mode' = "run" /\ IsCode(Top)
      /\ Push(NewFrame("imp", "args", scope, slots))
  BY DEF ImpEnters, Running, Gates, IsCode
<1> QED
  BY <1>1, GateEnters

LEMMA ImpCallsPromise == ASSUME IInv, ImpCalls PROVE Promise!Call
<1>1. Top \in Frame /\ Top.kind = "imp" /\ Top.kind \in Gates /\ mode = "run" /\ Top.pc = "args"
  BY Known DEF ImpCalls, Running, Gates
<1>2. ~IsCode(Top) /\ Caller \in Frame /\ Caller.kind = "objc" /\ Promise!TopCall = Activated(Caller)
  BY <1>1, CodeCaller DEF Calls
<1> DEFINE f == At(Top, "during")
           g == NewFrame("perl", "body", scope, slots)
<1>3. f \in Frame /\ g \in Frame /\ ~IsCode(f) /\ IsCode(g)
  <2>1. Top.swallowed \in BOOLEAN
    BY <1>1 DEF Frame
  <2> QED
    BY <1>1, <1>2, <2>1, Known, FrameUpdates, NewFrameType
       DEF Kinds, Points, IsCode, At, Resumed, NewFrame
<1>4. Activated(g) = [lang |-> "perl", handles |-> FALSE, lost |-> FALSE] /\ g.kind = "perl"
  BY DEF Activated, NewFrame
<1>5. Await(f, g)
  BY DEF ImpCalls
<1> HIDE DEF f, g
<1>6. CodeOf(frames)' = Append(CodeOf(frames), Activated(g))
  BY <1>2, <1>3, <1>5, AwaitCode
<1>7. Top' = g
  <2>1. Len(frames') = Len(frames) + 1 /\ frames'[Len(frames) + 1] = g
    BY <1>3, <1>5, Known, BecomeAndPushFacts DEF Await
  <2> QED
    BY <2>1 DEF Top
<1>8. Status = "run" /\ Status' = "run"
  <2>1. mode' = "run"
    BY <1>1 DEF ImpCalls
  <2> QED
    BY <1>1, <1>4, <1>7, <2>1 DEF Status, Failing
<1>9. Promise!TopCall.lang = "native"
  BY <1>2, ActivatedIs
<1>g. ~Promise!TopCall.lost
  BY <1>1, CallerGoesOn DEF Gates
<1> QED
  BY <1>g, <1>4, <1>6, <1>8, <1>9 DEF Promise!Call, Promise!Running, Promise!Started, Promise!Lang

LEMMA ImpFindsNoMethodPromise == ASSUME IInv, ImpFindsNoMethod PROVE Promise!Fail
<1>1. Top \in Frame /\ Top.kind = "imp" /\ Top.kind \in Gates /\ mode = "run" /\ Top.pc = "args"
  BY Known DEF ImpFindsNoMethod, Running, Gates
<1>2. ~IsCode(Top) /\ CodeOf(frames) = CodeOf(Below)
  BY <1>1, CodeCaller
<1> DEFINE f == At(Top, "after")
<1>3. f \in Frame /\ f.kind = "imp" /\ f.pc = "after"
  <2>1. Top.swallowed \in BOOLEAN
    BY <1>1 DEF Frame
  <2> QED
    BY <1>1, <2>1, FrameUpdates DEF At, Resumed, Points
<1>4. Become(f) /\ ~IsCode(f)
  BY <1>3 DEF ImpFindsNoMethod, IsCode
<1> HIDE DEF f
<1>5. CodeOf(frames)' = CodeOf(frames)
  BY <1>2, <1>3, <1>4, BecomeCode
<1>6. Top' = f
  <2>1. Len(frames') = Len(frames) /\ frames'[Len(frames)] = f
    BY <1>3, <1>4, Known, BecomeFacts DEF Become
  <2> QED
    BY <2>1 DEF Top
<1>7. Status = "run" /\ Status' = "fail"
  <2>1. mode' = "run" /\ SvTRUE(errsv)'
    BY <1>1 DEF ImpFindsNoMethod, SvTRUE, NoErr
  <2> QED
    BY <1>1, <1>3, <1>6, <2>1 DEF Status, Failing
<1>g. ~Promise!TopCall.lost
  BY <1>1, CallerGoesOn DEF Gates
<1> QED
  BY <1>g, <1>5, <1>7 DEF Promise!Fail, Promise!Running

\* A gate to Perl ends, with the error or without one.
LEMMA GateRaises ==
  ASSUME IInv, Top.kind \in {"imp", "eval"}, Top.pc = "after", mode = "run", SvTRUE(errsv),
         Pop, mode' = "raise"
  PROVE  Promises
<1>1. CodeOf(frames)' = CodeOf(frames)
  BY GateEnds DEF Gates
<1>2. Status = "fail" /\ Status' = "fail"
  BY DEF Status, Failing
<1> QED
  BY <1>1, <1>2, Stutters

LEMMA GateReturns ==
  ASSUME IInv, Top.kind \in Gates, mode = "run", mode' = "run", Pop,
         Top.kind = "call" \/ ~SvTRUE(errsv)
  PROVE  Promises
<1>1. CodeOf(frames)' = CodeOf(frames) /\ Top' = Caller /\ IsCode(Caller)
  BY GateEnds, CodeCaller
<1>2. Status = "run" /\ Status' = "run"
  BY <1>1 DEF Status, Failing, IsCode
<1> QED
  BY <1>1, <1>2, Stutters

LEMMA ImpRaisesPromise == ASSUME IInv, ImpRaises PROVE Promises
BY GateRaises DEF ImpRaises, Running

LEMMA ImpReturnsPromise == ASSUME IInv, ImpReturns PROVE Promises
BY GateReturns DEF ImpReturns, Running, Gates

\* A native call of the gate's own fails for the native caller.
LEMMA ImpConversionRaisesPromise == ASSUME IInv, ImpConversionRaises PROVE Promise!Fail
<1>1. /\ Top.kind = "imp" /\ mode = "run" /\ mode' = "raise" /\ Pop
      /\ Top.pc = "args" \/ ~SvTRUE(errsv)
  BY DEF ImpConversionRaises, Running
<1>2. Status = "run" /\ Status' = "fail"
  BY <1>1 DEF Status, Failing
<1>3. CodeOf(frames)' = CodeOf(frames)
  BY <1>1, GateEnds DEF Gates
<1>4. ~Promise!TopCall.lost
  BY <1>1, CallerGoesOn DEF Gates
<1> QED
  BY <1>2, <1>3, <1>4 DEF Promise!Fail, Promise!Running

\* Perl code that runs for the native caller dies outside of any G_EVAL.
LEMMA ImpConversionDiesPromise == ASSUME IInv, ImpConversionDies PROVE Promise!FailUnder
<1>1. /\ Top.kind = "imp" /\ Top.kind \in Gates /\ mode = "run" /\ ~SvTRUE(errsv)
      /\ mode' \in {"exit", "astray"}
  BY DEF ImpConversionDies, Running, Gates
<1>2. Status = "run" /\ Status' \in {"over", "astray"}
  BY <1>1 DEF Status, Failing
<1>3. CodeOf(frames)' = CodeOf(frames)
  BY DEF ImpConversionDies
<1>4. ~Promise!TopCall.lost
  BY <1>1, CallerGoesOn
<1>5. Promise!TopCall.lang = "native"
  <2>1. Caller \in Frame /\ Caller.kind = "objc" /\ Promise!TopCall = Activated(Caller)
    BY <1>1, CodeCaller DEF Calls
  <2> QED
    BY <2>1, ActivatedIs
<1> QED
  BY <1>2, <1>3, <1>4, <1>5 DEF Promise!FailUnder, Promise!Running

(* -[CBPerl eval:] *)

\* Two activations at once: the gate, and the Perl code on it.
LEMMA EvalEntersPromise == ASSUME IInv, EvalEnters PROVE Promise!Call
<1>1. Top \in Frame /\ Top.kind = "objc" /\ IsCode(Top) /\ mode = "run" /\ scope \in Nat /\ slots \in Nat
  BY Known DEF EvalEnters, Running, IsCode
<1>2. frames \in Seq(Frame) /\ Len(frames) \in Nat \ {0}
  BY Known
<1> DEFINE f == NewFrame("eval", "during", scope, slots)
           g == NewFrame("perl", "body", scope, slots)
<1>3. f \in Frame /\ g \in Frame /\ ~IsCode(f) /\ IsCode(g) /\ g.kind = "perl"
  BY <1>1, NewFrameType DEF Kinds, Points, IsCode, NewFrame
<1>4. Activated(g) = [lang |-> "perl", handles |-> FALSE, lost |-> FALSE]
  BY DEF Activated, NewFrame
<1>5. frames' = frames \o <<f, g>>
  BY DEF EvalEnters
<1> HIDE DEF f, g
<1>6. PICK t : t = Append(frames, f)
  OBVIOUS
<1>7. /\ Len(t) = Len(frames) + 1 /\ t[Len(frames) + 1] = f
      /\ \A i \in 1 .. Len(frames) : t[i] = frames[i]
  BY <1>2, <1>3, <1>6, PushFacts
<1>8. /\ Len(frames') = Len(frames) + 2
      /\ frames'[Len(frames) + 1] = f /\ frames'[Len(frames) + 2] = g
      /\ \A i \in 1 .. Len(frames) : frames'[i] = frames[i]
  BY <1>2, <1>3, <1>5, PushTwoFacts
<1>9. CodeOf(t) = CodeOf(frames)
  <2>1. Tops(t, frames, f)
    BY <1>2, <1>7 DEF Tops
  <2> QED
    BY <1>3, <2>1, CodeOfAppend
<1>10. CodeOf(frames)' = Append(CodeOf(t), Activated(g))
  <2>1. Tops(frames', t, g)
    BY <1>2, <1>7, <1>8 DEF Tops
  <2>2. CodeOf(frames') = Append(CodeOf(t), Activated(g))
    BY <1>3, <2>1, CodeOfAppend
  <2> QED
    BY <2>2
<1>11. Top' = g
  BY <1>8 DEF Top
<1>12. Status = "run" /\ Status' = "run"
  <2>1. mode' = "run"
    BY <1>1 DEF EvalEnters
  <2> QED
    BY <1>1, <1>3, <1>11, <2>1 DEF Status, Failing
<1>13. Promise!TopCall.lang = "native"
  BY <1>1, CodeTop, ActivatedIs
<1> QED
  BY <1>1, <1>4, <1>9, <1>10, <1>12, <1>13, CodeTop DEF Promise!Call, Promise!Running, Promise!Started, Promise!Lang

LEMMA EvalRaisesPromise == ASSUME IInv, EvalRaises PROVE Promises
BY GateRaises DEF EvalRaises, Running

LEMMA EvalReturnsPromise == ASSUME IInv, EvalReturns PROVE Promises
BY GateReturns DEF EvalReturns, Running, Gates

(* REAL_CBCallNativeMethod *)
LEMMA CallEntersPromise == ASSUME IInv, CallEnters PROVE Promises
<1>1. /\ "call" \in Gates /\ mode = "run" /\ mode' = "run" /\ IsCode(Top)
      /\ Push(NewFrame("call", "args", scope, slots))
  BY DEF CallEnters, Running, Gates, IsCode
<1> QED
  BY <1>1, GateEnters

LEMMA CallUnknownMethodPromise == ASSUME IInv, CallUnknownMethod PROVE Promise!Fail
<1>1. mode = "run" /\ Top.kind = "call" /\ Top.pc = "args" /\ mode' = "die" /\ SvTRUE(errsv)'
  BY DEF CallUnknownMethod, Running, SvTRUE, NoErr
<1>2. Status = "run" /\ Status' = "fail"
  BY <1>1 DEF Status, Failing
<1>3. CodeOf(frames)' = CodeOf(frames)
  BY DEF CallUnknownMethod
<1>g. ~Promise!TopCall.lost
  BY <1>1, CallerGoesOn, Known DEF IInv, CallerLives, Returns, Gates
<1> QED
  BY <1>g, <1>2, <1>3 DEF Promise!Fail, Promise!Running

LEMMA CallRefusesPromise == ASSUME IInv, CallRefuses PROVE Promises
BY GateReturns DEF CallRefuses, Running, Gates

LEMMA CallInvokesPromise == ASSUME IInv, CallInvokes PROVE Promise!Call
<1>1. Top \in Frame /\ Top.kind = "call" /\ Top.kind \in Gates /\ mode = "run" /\ Top.pc = "args"
  BY Known DEF CallInvokes, Running, Gates
<1>2. ~IsCode(Top) /\ Caller \in Frame /\ Caller.kind = "perl" /\ Promise!TopCall = Activated(Caller)
  BY <1>1, CodeCaller DEF Calls
<1> DEFINE f == At(Top, "during")
           g == NewFrame("objc", "body", scope, slots)
<1>3. f \in Frame /\ g \in Frame /\ ~IsCode(f) /\ IsCode(g)
  <2>1. Top.swallowed \in BOOLEAN
    BY <1>1 DEF Frame
  <2> QED
    BY <1>1, <1>2, <2>1, Known, FrameUpdates, NewFrameType
       DEF Kinds, Points, IsCode, At, Resumed, NewFrame
<1>4. Activated(g) = [lang |-> "native", handles |-> FALSE, lost |-> FALSE] /\ g.kind = "objc"
  BY DEF Activated, NewFrame
<1>5. Await(f, g)
  BY DEF CallInvokes
<1> HIDE DEF f, g
<1>6. CodeOf(frames)' = Append(CodeOf(frames), Activated(g))
  BY <1>2, <1>3, <1>5, AwaitCode
<1>7. Top' = g
  <2>1. Len(frames') = Len(frames) + 1 /\ frames'[Len(frames) + 1] = g
    BY <1>3, <1>5, Known, BecomeAndPushFacts DEF Await
  <2> QED
    BY <2>1 DEF Top
<1>8. Status = "run" /\ Status' = "run"
  <2>1. mode' = "run"
    BY <1>1 DEF CallInvokes
  <2> QED
    BY <1>1, <1>4, <1>7, <2>1 DEF Status, Failing
<1>9. Promise!TopCall.lang = "perl"
  BY <1>2, ActivatedIs
<1>g. ~Promise!TopCall.lost
  BY <1>1, CallerGoesOn, Known DEF IInv, CallerLives, Returns, Gates
<1> QED
  BY <1>g, <1>4, <1>6, <1>8, <1>9 DEF Promise!Call, Promise!Running, Promise!Started, Promise!Lang

LEMMA CallReturnsPromise == ASSUME IInv, CallReturns PROVE Promises
<1>1. Top \in Frame /\ Top.kind = "call" /\ Top.kind \in Gates /\ mode = "run"
  BY Known DEF CallReturns, Running, Gates
<1>2. /\ Len(frames) > 1 /\ Caller \in Frame /\ Caller.kind = "perl" /\ IsCode(Caller)
      /\ CodeOf(frames) = CodeOf(Below)
      /\ CodeOf(Below) = Append(CodeOf(Under), Activated(Caller))
  BY <1>1, CodeCaller DEF Calls
<1> DEFINE w == Caller.swallowed \/ Top.swallowed
           f == Resumed(Caller, "body", w)
<1>3. f \in Frame /\ f.kind = "perl" /\ Activated(f) = Activated(Caller)
  <2>1. w \in BOOLEAN
    OBVIOUS
  <2> HIDE DEF w
  <2>2. f \in Frame
    BY <1>2, <2>1, FrameUpdates DEF Points
  <2>3. f.kind = "perl"
    BY <1>2 DEF Resumed
  <2>4. Activated(f) = Activated(Caller)
    BY <1>2, ActivatedIs DEF CallReturns
  <2> QED
    BY <2>2, <2>3, <2>4
<1>4. PopTo(f) /\ IsCode(f)
  BY <1>3 DEF CallReturns, IsCode
<1> HIDE DEF f
<1>5. CodeOf(frames)' = CodeOf(frames)
  BY <1>2, <1>3, <1>4, PopToCode
<1>6. Top' = f
  <2>1. Len(frames') = Len(frames) - 1 /\ frames'[Len(frames) - 1] = f
    <3>1. frames \in Seq(Frame) /\ Len(frames) \in Nat \ {0}
      BY Known
    <3> QED
      BY <1>2, <1>3, <1>4, <3>1, PopToFacts DEF PopTo, Below
  <2> QED
    BY <2>1 DEF Top
<1>7. Status = "run" /\ Status' = "run"
  <2>1. mode' = "run"
    BY <1>1 DEF CallReturns
  <2> QED
    BY <1>1, <1>3, <1>6, <2>1 DEF Status, Failing
<1> QED
  BY <1>5, <1>7, Stutters

\* An NSException becomes a Perl error: the promise sees the same error.
LEMMA CallHandlesExceptionPromise == ASSUME IInv, CallHandlesException PROVE Promises
<1>1. mode = "raise" /\ mode' = "die" /\ SvTRUE(errsv)'
  BY DEF CallHandlesException, SvTRUE, NoErr
<1>2. Status = "fail" /\ Status' = "fail"
  BY <1>1 DEF Status, Failing
<1>3. CodeOf(frames)' = CodeOf(frames)
  BY DEF CallHandlesException
<1> QED
  BY <1>2, <1>3, Stutters

\* The gate gets back to Perl code that is lost.
LEMMA CallGoesAstrayPromise == ASSUME IInv, CallGoesAstray PROVE Promise!GoAstray
<1>1. /\ Top.kind = "call" /\ Top.kind \in Gates /\ Caller.pc = "lost"
      /\ mode \in {"run", "raise"} /\ mode' = "astray"
  BY DEF CallGoesAstray, Gates
<1>2. Status \in {"run", "fail"} /\ Status' = "astray"
  BY <1>1 DEF Status, Failing
<1>3. CodeOf(frames)' = CodeOf(frames)
  BY DEF CallGoesAstray
<1>4. Promise!TopCall.lost
  BY <1>1, CodeCaller, ActivatedIs
<1> QED
  BY <1>2, <1>3, <1>4 DEF Promise!GoAstray

\* The code of a stack, from that of the stack without its top.
LEMMA FrontCode ==
  ASSUME NEW s \in Seq(Frame), NEW k \in 1 .. Len(s)
  PROVE  CodeOf(SubSeq(s, 1, k)) =
           IF IsCode(s[k]) THEN Append(CodeOf(SubSeq(s, 1, k - 1)), Activated(s[k]))
           ELSE CodeOf(SubSeq(s, 1, k - 1))
<1>1. k \in 0 .. Len(s) /\ k - 1 \in 0 .. Len(s) /\ k \in Nat /\ k - 1 \in Nat
  OBVIOUS
<1>2. PICK t : t = SubSeq(s, 1, k)
  OBVIOUS
<1>3. PICK u : u = SubSeq(s, 1, k - 1)
  OBVIOUS
<1>4. Len(t) = k /\ \A i \in 1 .. k : t[i] = s[i]
  BY <1>1, <1>2, FrontIs
<1>5. Len(u) = k - 1 /\ \A i \in 1 .. k - 1 : u[i] = s[i]
  BY <1>1, <1>3, FrontIs
<1>6. Tops(t, u, s[k])
  BY <1>1, <1>4, <1>5 DEF Tops
<1> QED
  BY <1>2, <1>3, <1>6, CodeOfAppend

\* What a failure that passes over Perl code does to the code below.
LEMMA LoseOne ==
  ASSUME NEW a \in Promise!Activation
  PROVE  Promise!Lose(Append(<<>>, a)) = Append(<<>>, a)
<1>1. PICK s : s = Append(<<>>, a)
  OBVIOUS
<1>2. s \in Seq(Promise!Activation) /\ Len(s) = 1 /\ s = [i \in 1 .. 1 |-> a]
  BY <1>1
<1>3. Promise!Lose(s) = [i \in 1 .. 1 |-> s[i]]
  BY <1>2 DEF Promise!Lose
<1> QED
  BY <1>1, <1>2, <1>3

LEMMA LoseTwo ==
  ASSUME NEW c \in Seq(Promise!Activation), NEW a \in Promise!Activation,
         NEW b \in Promise!Activation, NEW l \in Promise!Activation,
         l = [lang |-> a.lang, handles |-> a.handles, lost |-> TRUE]
  PROVE  Promise!Lose(Append(Append(c, a), b)) = Append(Append(c, l), b)
<1>1. PICK n \in Nat : n = Len(c)
  OBVIOUS
<1>2. PICK d : d = Append(c, a)
  OBVIOUS
<1>3. PICK s : s = Append(d, b)
  OBVIOUS
<1>4. PICK e : e = Append(c, l)
  OBVIOUS
<1>5. PICK t : t = Append(e, b)
  OBVIOUS
<1>6. d \in Seq(Promise!Activation) /\ Len(d) = n + 1 /\ d[n + 1] = a
      /\ \A i \in 1 .. n : d[i] = c[i]
  BY <1>1, <1>2, AppendProperties
<1>7. s \in Seq(Promise!Activation) /\ Len(s) = n + 2 /\ s[n + 2] = b
      /\ \A i \in 1 .. n + 1 : s[i] = d[i]
  BY <1>3, <1>6, AppendProperties
<1>8. e \in Seq(Promise!Activation) /\ Len(e) = n + 1 /\ e[n + 1] = l
      /\ \A i \in 1 .. n : e[i] = c[i]
  BY <1>1, <1>4, AppendProperties
<1>9. t \in Seq(Promise!Activation) /\ Len(t) = n + 2 /\ t[n + 2] = b
      /\ \A i \in 1 .. n + 1 : t[i] = e[i]
  BY <1>5, <1>8, AppendProperties
<1>10. PICK u : u = Promise!Lose(s)
  OBVIOUS
<1>11. u = [i \in 1 .. n + 2 |-> IF i = n + 1 THEN [s[i] EXCEPT !.lost = TRUE] ELSE s[i]]
  <2>1. Len(s) = n + 2 /\ Len(s) - 1 = n + 1
    BY <1>7
  <2> QED
    BY <1>10, <2>1 DEF Promise!Lose
<1>12. ASSUME NEW i \in 1 .. n + 2 PROVE u[i] = t[i]
  <2>1. CASE i = n + 1
    <3>1. s[i] = a /\ t[i] = l
      BY <1>6, <1>7, <1>8, <1>9, <2>1
    <3>2. u[i] = [s[i] EXCEPT !.lost = TRUE]
      BY <1>11, <2>1
    <3>3. [a EXCEPT !.lost = TRUE] = [lang |-> a.lang, handles |-> a.handles, lost |-> TRUE]
      <4>1. \A y : [a EXCEPT !.lost = y] = [lang |-> a.lang, handles |-> a.handles, lost |-> y]
        BY DEF Promise!Activation
      <4> QED
        BY <4>1, Zenon
    <3>4. u[i] = [a EXCEPT !.lost = TRUE]
      BY <3>1, <3>2
    <3> QED
      BY <3>1, <3>3, <3>4
  <2>2. CASE i = n + 2
    BY <1>7, <1>9, <1>11, <2>2
  <2>3. CASE i \in 1 .. n
    BY <1>6, <1>7, <1>8, <1>9, <1>11, <2>3
  <2> QED
    BY <2>1, <2>2, <2>3
<1>13. t = [i \in 1 .. n + 2 |-> t[i]]
  BY <1>9
<1>14. u = [i \in 1 .. n + 2 |-> t[i]]
  BY <1>11, <1>12
<1> QED
  BY <1>2, <1>3, <1>4, <1>5, <1>10, <1>13, <1>14

LEMMA BuriedCode ==
  ASSUME NEW s \in Seq(Frame), NEW n \in 1 .. Len(s), Chain(s), s[n].kind = "objc"
  PROVE  CodeOf(Buried(SubSeq(s, 1, n))) = Promise!Lose(CodeOf(SubSeq(s, 1, n)))
<1>1. PICK t : t = Buried(SubSeq(s, 1, n))
  OBVIOUS
<1>2. /\ t \in Seq(Frame) /\ Len(t) = n /\ n \in Nat /\ Len(s) \in Nat
      /\ \A i \in 1 .. n : t[i] = IF i = n - 2 THEN At(s[i], "lost") ELSE s[i]
  BY <1>1, BuriedFacts
<1>3. t = SubSeq(t, 1, n)
  BY <1>2
<1>4. /\ IsCode(s[n]) /\ t[n] = s[n] /\ s[n] \in Frame
      /\ Activated(s[n]) \in Promise!Activation
  <2>1. s[n] \in Frame /\ t[n] = s[n]
    BY <1>2, ElementOfSeq
  <2> QED
    BY <2>1, ActivatedIs DEF IsCode
<1>5. CodeOf(SubSeq(s, 1, n)) = Append(CodeOf(SubSeq(s, 1, n - 1)), Activated(s[n]))
  BY <1>2, <1>4, FrontCode
<1>6. CodeOf(t) = Append(CodeOf(SubSeq(t, 1, n - 1)), Activated(s[n]))
  <2>1. n \in 1 .. Len(t)
    BY <1>2
  <2>2. CodeOf(SubSeq(t, 1, n)) = Append(CodeOf(SubSeq(t, 1, n - 1)), Activated(s[n]))
    BY <1>2, <1>4, <2>1, FrontCode
  <2> QED
    BY <1>3, <2>2
<1>7. CASE n = 1
  <2>1. CodeOf(SubSeq(s, 1, n - 1)) = <<>> /\ CodeOf(SubSeq(t, 1, n - 1)) = <<>>
    <3>1. Len(SubSeq(s, 1, n - 1)) = 0 /\ Len(SubSeq(t, 1, n - 1)) = 0
      BY <1>2, <1>7
    <3> QED
      BY <3>1, CodeOfNone
  <2> QED
    BY <1>1, <1>4, <1>5, <1>6, <2>1, LoseOne
<1>8. CASE n # 1
  <2>1. s[n - 1].kind = "call"
    BY <1>2, <1>8 DEF Chain, Linked, Calls
  <2>2. n > 2
    BY <1>2, <1>8, <2>1 DEF Chain
  <2>3. s[n - 2].kind = "perl" /\ IsCode(s[n - 2]) /\ ~IsCode(s[n - 1])
    BY <1>2, <2>1, <2>2 DEF Chain, Linked, Calls, IsCode
  <2>4. /\ n - 1 \in 1 .. Len(s) /\ n - 1 \in 1 .. Len(t)
        /\ n - 2 \in 1 .. Len(s) /\ n - 2 \in 1 .. Len(t) /\ n - 2 \in 1 .. n
        /\ n - 3 \in 0 .. Len(s) /\ n - 3 \in 0 .. Len(t)
        /\ (n - 1) - 1 = n - 2 /\ (n - 2) - 1 = n - 3 /\ n - 3 \in Nat
    BY <1>2, <2>2
  <2> DEFINE f == s[n - 2]
  <2>5. f \in Frame /\ t[n - 2] = At(f, "lost") /\ t[n - 1] = s[n - 1]
    BY <1>2, <2>2, <2>4, ElementOfSeq, SMTT(30)
  <2>6. /\ IsCode(At(f, "lost")) /\ Activated(f) \in Promise!Activation
        /\ Activated(At(f, "lost")) = [lang |-> Activated(f).lang, handles |-> Activated(f).handles,
                                       lost |-> TRUE]
        /\ Activated(At(f, "lost")) \in Promise!Activation
    <3>1. PICK g : g = At(f, "lost")
      OBVIOUS
    <3>2. g.kind = "perl" /\ g.guard = f.guard /\ g.pc = "lost" /\ f.guard \in BOOLEAN
      BY <2>3, <2>5, <3>1 DEF At, Resumed, Frame
    <3>3. Activated(g) = [lang |-> "perl", handles |-> f.guard, lost |-> TRUE]
      BY <3>2 DEF Activated
    <3>4. PICK e \in BOOLEAN : Activated(f) = [lang |-> "perl", handles |-> f.guard, lost |-> e]
      <4>1. (f.pc = "lost") \in BOOLEAN
        OBVIOUS
      <4>2. Activated(f) = [lang |-> "perl", handles |-> f.guard, lost |-> f.pc = "lost"]
        BY <2>3 DEF Activated
      <4> QED
        BY <4>1, <4>2
    <3>5. Activated(g) = [lang |-> Activated(f).lang, handles |-> Activated(f).handles, lost |-> TRUE]
      BY <3>3, <3>4
    <3>6. Activated(f) \in Promise!Activation /\ Activated(g) \in Promise!Activation
      BY <3>2, <3>3, <3>4 DEF Promise!Activation, Promise!Lang
    <3> QED
      BY <3>1, <3>2, <3>5, <3>6 DEF IsCode
  <2>7. CodeOf(SubSeq(s, 1, n - 1)) = Append(CodeOf(SubSeq(s, 1, n - 3)), Activated(f))
    <3>1. CodeOf(SubSeq(s, 1, n - 1)) = CodeOf(SubSeq(s, 1, n - 2))
      BY <2>3, <2>4, FrontCode
    <3>2. CodeOf(SubSeq(s, 1, n - 2)) = Append(CodeOf(SubSeq(s, 1, n - 3)), Activated(f))
      BY <2>3, <2>4, FrontCode
    <3> QED
      BY <3>1, <3>2
  <2>8. CodeOf(SubSeq(t, 1, n - 1))
          = Append(CodeOf(SubSeq(t, 1, n - 3)), Activated(At(f, "lost")))
    <3>1. CodeOf(SubSeq(t, 1, n - 1)) = CodeOf(SubSeq(t, 1, n - 2))
      BY <1>2, <2>3, <2>4, <2>5, FrontCode
    <3>2. CodeOf(SubSeq(t, 1, n - 2))
            = Append(CodeOf(SubSeq(t, 1, n - 3)), Activated(At(f, "lost")))
      <4>1. PICK g : g = At(f, "lost")
        OBVIOUS
      <4>2. IsCode(t[n - 2]) /\ t[n - 2] = g
        BY <2>5, <2>6, <4>1
      <4>3. CodeOf(SubSeq(t, 1, n - 2)) = Append(CodeOf(SubSeq(t, 1, n - 3)), Activated(g))
        BY <1>2, <2>4, <4>2, FrontCode
      <4> QED
        BY <4>1, <4>3
    <3> QED
      BY <3>1, <3>2
  <2>9. CodeOf(SubSeq(t, 1, n - 3)) = CodeOf(SubSeq(s, 1, n - 3))
    <3>1. /\ Len(SubSeq(s, 1, n - 3)) = n - 3
          /\ \A i \in 1 .. n - 3 : SubSeq(s, 1, n - 3)[i] = s[i]
      BY <2>4, FrontIs
    <3>2. /\ Len(SubSeq(t, 1, n - 3)) = n - 3
          /\ \A i \in 1 .. n - 3 : SubSeq(t, 1, n - 3)[i] = t[i]
      BY <1>2, <2>4, FrontIs
    <3>3. \A i \in 1 .. n - 3 : t[i] = s[i]
      BY <1>2, <2>2
    <3> QED
      BY <2>4, <3>1, <3>2, <3>3, CodeOfSame
  <2>10. CodeOf(SubSeq(s, 1, n - 3)) \in Seq(Promise!Activation)
    <3>1. SubSeq(s, 1, n - 3) \in Seq(Frame)
      BY <2>4, FrontIs
    <3> QED
      BY <3>1, CodeOfType
  <2> HIDE DEF f
  <2>11. PICK c \in Seq(Promise!Activation) : c = CodeOf(SubSeq(s, 1, n - 3))
    BY <2>10
  <2>12. PICK l \in Promise!Activation : l = Activated(At(f, "lost"))
    BY <2>6
  <2>13. PICK a \in Promise!Activation : a = Activated(f)
    BY <2>6
  <2>14. PICK b \in Promise!Activation : b = Activated(s[n])
    BY <1>4
  <2>15. Promise!Lose(Append(Append(c, a), b)) = Append(Append(c, l), b)
    BY <2>6, <2>12, <2>13, LoseTwo
  <2> QED
    BY <1>1, <1>5, <1>6, <2>7, <2>8, <2>9, <2>11, <2>12, <2>13, <2>14, <2>15
<1> QED
  BY <1>7, <1>8

\* A native call of the gate's own fails for the Perl caller.
LEMMA CallConversionRaisesPromise == ASSUME IInv, CallConversionRaises PROVE Promise!FailOver
<1>1. /\ Top.kind = "call" /\ Top.kind \in Gates /\ mode = "run"
      /\ frames \in Seq(Frame) /\ Len(frames) \in Nat \ {0} /\ Chain(frames)
  BY Known DEF CallConversionRaises, Running, Gates
<1>2. Status = "run"
  BY <1>1 DEF Status, Failing
<1>3. /\ Len(frames) > 1 /\ Caller \in Frame /\ Caller.kind = "perl"
      /\ CodeOf(frames) = Append(CodeOf(Under), Activated(Caller))
      /\ Promise!TopCall = Activated(Caller)
  BY <1>1, CodeCaller DEF Calls
<1>4. Activated(Caller) \in Promise!Activation /\ Activated(Caller).lang = "perl"
  BY <1>3, ActivatedIs
<1>5. Under \in Seq(Frame) /\ Len(Under) = Len(frames) - 2
      /\ CodeOf(Under) \in Seq(Promise!Activation)
  BY <1>3, UnderIs, CallerCode
<1>6. /\ Promise!Outer = CodeOf(Under) /\ Len(CodeOf(frames)) \in Nat
      /\ CodeOf(Under) # <<>> <=> Len(CodeOf(frames)) > 1
      /\ CodeOf(Under) = <<>> <=> Len(CodeOf(frames)) = 1
  BY <1>3, <1>4, <1>5, AbstractTop
<1>7. CASE Len(frames) = 2
  <2>1. mode' = "exit" /\ frames' = frames
    BY <1>7 DEF CallConversionRaises
  <2>2. Status' = "over" /\ CodeOf(frames)' = CodeOf(frames)
    BY <2>1 DEF Status
  <2>3. CodeOf(Under) = <<>>
    BY <1>5, <1>7, CodeOfNone
  <2> QED
    BY <1>2, <1>3, <1>4, <1>6, <2>2, <2>3 DEF Promise!FailOver
<1>8. CASE Len(frames) # 2
  <2>1. /\ Len(frames) > 2 /\ mode' = "raise"
        /\ frames' = Buried(SubSeq(frames, 1, Len(frames) - 3))
    BY <1>8 DEF CallConversionRaises
  <2>2. Status' = "fail"
    BY <2>1 DEF Status, Failing
  <2> DEFINE n == Len(frames) - 3
  <2>3. /\ n \in 1 .. Len(frames) /\ frames[n].kind = "objc" /\ n + 1 \in 1 .. Len(frames)
        /\ ~IsCode(frames[n + 1]) /\ IsCode(frames[n]) /\ n + 1 = Len(frames) - 2 /\ (n + 1) - 1 = n
        /\ n \in Nat
    <3>1. /\ n \in 1 .. Len(frames) /\ frames[n].kind = "objc"
          /\ frames[Len(frames) - 2].kind \in {"imp", "eval"}
      BY <1>1, <2>1, BelowCall
    <3>2. n + 1 = Len(frames) - 2 /\ n + 1 \in 1 .. Len(frames) /\ (n + 1) - 1 = n /\ n \in Nat
      BY <1>1, <2>1, <3>1
    <3> HIDE DEF n
    <3> QED
      BY <3>1, <3>2 DEF IsCode
  <2>4. Under = SubSeq(frames, 1, n + 1)
    BY <2>3 DEF Under
  <2>5. frames' = Buried(SubSeq(frames, 1, n))
    BY <2>1
  <2> HIDE DEF n
  <2>6. CodeOf(Under) = CodeOf(SubSeq(frames, 1, n))
    BY <1>1, <2>3, <2>4, FrontCode
  <2>7. CodeOf(Under) # <<>>
    <3>1. CodeOf(SubSeq(frames, 1, n))
            = Append(CodeOf(SubSeq(frames, 1, n - 1)), Activated(frames[n]))
      BY <1>1, <2>3, FrontCode
    <3>2. CodeOf(SubSeq(frames, 1, n - 1)) \in Seq(Promise!Activation)
      <4>1. n - 1 \in 0 .. Len(frames)
        BY <1>1, <2>3
      <4>2. SubSeq(frames, 1, n - 1) \in Seq(Frame)
        BY <1>1, <4>1, FrontIs
      <4> QED
        BY <4>2, CodeOfType
    <3> QED
      BY <2>6, <3>1, <3>2
  <2>8. CodeOf(frames)' = Promise!Lose(CodeOf(Under))
    <3>1. CodeOf(frames') = CodeOf(frames)'
      OBVIOUS
    <3> QED
      BY <1>1, <2>3, <2>5, <2>6, <3>1, BuriedCode
  <2> QED
    BY <1>2, <1>3, <1>4, <1>6, <2>2, <2>7, <2>8 DEF Promise!FailOver
<1> QED
  BY <1>7, <1>8

(* Unwinding *)
LEMMA DieLeavesCallPromise == ASSUME IInv, DieLeavesCall PROVE Promises
<1>1. CodeOf(frames)' = CodeOf(frames)
  BY GateEnds DEF DieLeavesCall, Gates
<1>2. mode = "die" /\ mode' = mode /\ SvTRUE(errsv)' = SvTRUE(errsv)
  BY DEF DieLeavesCall, SvTRUE
<1>3. Status' = Status
  BY <1>2 DEF Status, Failing
<1> QED
  BY <1>1, <1>3, Stutters

LEMMA DieReachesEvalPromise == ASSUME IInv, DieReachesEval PROVE Promise!Catch
<1>1. Top \in Frame /\ IsCode(Top) /\ mode = "die" /\ mode' = "run" /\ Top.guard /\ Top.kind = "perl"
  BY Known DEF DieReachesEval, IsCode
<1> DEFINE f == Guarded(Top, FALSE, 0, Top.swallowed)
<1>2. Promise!SetHandles(FALSE) /\ Promise!TopCall.handles = Top.guard /\ Top' = f
  <2>1. Become(f) /\ Top.swallowed \in BOOLEAN
    BY <1>1 DEF DieReachesEval, Frame
  <2> QED
    BY <1>1, <2>1, BecomeGuarded
<1>3. Top'.kind = "perl"
  BY <1>1, <1>2 DEF Guarded
<1>4. Status \in {"fail", "weak"} /\ Status' = "run"
  BY <1>1, <1>3 DEF Status, Failing
<1> QED
  BY <1>1, <1>2, <1>4, CodeTop DEF Promise!Catch, Promise!InError

\* The error check of the gate is still to come, and sees what $@ holds.
LEMMA DieReachesGatePromise == ASSUME IInv, DieReachesGate PROVE Promise!Unwind
<1>1. /\ Top \in Frame /\ IsCode(Top) /\ ~Top.guard /\ Len(frames) > 1 /\ Top.kind = "perl"
      /\ mode = "die" /\ mode' = "run"
  BY Known DEF DieReachesGate, IsCode
<1>2. Caller \in Frame /\ Caller.kind \in {"imp", "eval"}
  BY <1>1, GateCaller DEF Calls
<1>3. /\ CodeOf(frames)' = Promise!Outer /\ Len(CodeOf(frames)) > 1
      /\ Promise!TopCall = Activated(Top)
      /\ Top' = Resumed(Caller, "after", Caller.swallowed)
  <2>1. PopTo(Resumed(Caller, "after", Caller.swallowed)) /\ Caller.swallowed \in BOOLEAN
    BY <1>2 DEF DieReachesGate, At, Frame
  <2> QED
    BY <1>1, <2>1, ReturnsToGate
<1>4. Top'.kind \in {"imp", "eval"} /\ Top'.pc = "after"
  BY <1>2, <1>3 DEF Resumed
<1>5. SvTRUE(errsv)' = SvTRUE(errsv) /\ SvTRUE(errsv) \in BOOLEAN
  BY DEF DieReachesGate, SvTRUE
<1>6. /\ Status = IF SvTRUE(errsv) THEN "fail" ELSE "weak"
      /\ Status' = IF SvTRUE(errsv) THEN "fail" ELSE "run"
  BY <1>1, <1>4, <1>5 DEF Status, Failing
<1>7. ~Promise!TopCall.handles
  BY <1>1, <1>3, ActivatedIs
<1> QED
  BY <1>1, <1>3, <1>6, <1>7, CodeTop DEF Promise!Unwind, Promise!InError

LEMMA RaiseLeavesNativePromise == ASSUME IInv, RaiseLeavesNative PROVE Promise!Unwind
<1>1. Top \in Frame /\ IsCode(Top) /\ ~Top.guard /\ Len(frames) > 1 /\ Pop
  BY Known DEF RaiseLeavesNative, IsCode
<1>2. CodeOf(frames)' = Promise!Outer /\ Len(CodeOf(frames)) > 1 /\ ~Promise!TopCall.handles
  BY <1>1, PopCode, CodeTop, ActivatedIs
<1>3. Status = "fail" /\ Status' = "fail"
  BY DEF RaiseLeavesNative, Status, Failing
<1> QED
  BY <1>1, <1>2, <1>3, CodeTop DEF Promise!Unwind, Promise!InError

LEMMA RaiseReachesHandlerPromise == ASSUME IInv, RaiseReachesHandler PROVE Promise!Catch
<1>1. Top \in Frame /\ IsCode(Top) /\ mode = "raise" /\ mode' = "run" /\ Top.guard /\ Top.kind = "objc"
  BY Known DEF RaiseReachesHandler, IsCode
<1>2. /\ Promise!SetHandles(FALSE) /\ Promise!TopCall.handles = Top.guard
      /\ Top' = Guarded(Top, FALSE, 0, TRUE)
  <2>1. Become(Guarded(Top, FALSE, 0, TRUE))
    BY DEF RaiseReachesHandler
  <2> QED
    BY <1>1, <2>1, BecomeGuarded
<1>3. Top'.kind = "objc"
  BY <1>1, <1>2 DEF Guarded
<1>4. Status = "fail" /\ Status' = "run"
  BY <1>1, <1>3 DEF Status, Failing
<1> QED
  BY <1>1, <1>2, <1>4, CodeTop DEF Promise!Catch, Promise!InError

LEMMA ErrorEndsProgramPromise == ASSUME IInv, ErrorEndsProgram PROVE Promise!End
<1>1. /\ Top \in Frame /\ IsCode(Top) /\ ~Top.guard /\ Len(frames) = 1
      /\ mode \in {"die", "raise"} /\ mode' = "exit"
  BY Known, TopFacts DEF ErrorEndsProgram, IsCode
<1>2. Len(CodeOf(frames)) = 1 /\ ~Promise!TopCall.handles
  BY <1>1, CodeTop, ActivatedIs
<1>3. Status \in {"fail", "weak"} /\ Status' = "over"
  BY <1>1 DEF Status, Failing
<1>4. CodeOf(frames)' = CodeOf(frames)
  BY DEF ErrorEndsProgram
<1> QED
  BY <1>1, <1>2, <1>3, <1>4, CodeTop DEF Promise!End

LEMMA StutterPromise == ASSUME UNCHANGED vars PROVE Promises
<1>1. frames' = frames /\ mode' = mode /\ errsv' = errsv
  BY DEF vars
<1>2. CodeOf(frames)' = CodeOf(frames) /\ Top' = Top
  BY <1>1 DEF Top
<1>3. Status' = Status
  BY <1>1, <1>2 DEF Status, Failing
<1> QED
  BY <1>2, <1>3, Stutters

LEMMA InitPromise == Init => Promise!Init
<1> SUFFICES ASSUME Init PROVE Promise!Init
  OBVIOUS
<1>1. PICK k \in {"perl", "objc"} : frames = <<NewFrame(k, "body", 0, 0)>>
  BY DEF Init
<1> DEFINE f == NewFrame(k, "body", 0, 0)
<1>2. f.kind = k /\ f.guard = FALSE /\ f.pc = "body" /\ IsCode(f)
  BY DEF NewFrame, IsCode
<1>3. Activated(f) = [lang |-> IF k = "perl" THEN "perl" ELSE "native", handles |-> FALSE,
                       lost |-> FALSE]
  BY <1>2 DEF Activated
<1>4. frames = <<f>>
  BY <1>1
<1> HIDE DEF f
<1>5. CodeOf(frames) = <<Activated(f)>>
  <2>1. PICK none : none = <<>> /\ Len(none) = 0
    OBVIOUS
  <2>2. Tops(frames, none, f)
    BY <1>4, <2>1 DEF Tops
  <2>3. CodeOf(none) = <<>>
    BY <2>1, CodeOfNone
  <2>4. CodeOf(frames) = Append(CodeOf(none), Activated(f))
    BY <1>2, <2>2, CodeOfAppend
  <2> QED
    BY <2>3, <2>4
<1>6. Status = "run"
  <2>1. mode = "run" /\ Top = f
    BY <1>4 DEF Init, Top
  <2> QED
    BY <1>2, <2>1 DEF Status, Failing
<1> QED
  BY <1>3, <1>5, <1>6 DEF Promise!Init, Promise!Lang, Promise!Started

LEMMA StepPromise == IInv /\ [Next]_vars => [Promise!Next]_Promise!vars
<1> SUFFICES ASSUME IInv, [Next]_vars PROVE Promises
  BY DEF Promises
<1>1. CASE Perl
  BY <1>1, PerlOpensEvalPromise, PerlClosesEvalPromise, PerlDiesPromise, PerlReturnsPromise,
     ProgramEndsPromise DEF Perl, Promises, Promise!Next
<1>2. CASE Native
  BY <1>2, NativeOpensHandlerPromise, NativeClosesHandlerPromise, NativeRaisesPromise,
     NativeReturnsPromise DEF Native, Promises, Promise!Next
<1>3. CASE Imp
  BY <1>3, ImpEntersPromise, ImpCallsPromise, ImpFindsNoMethodPromise, ImpRaisesPromise,
     ImpReturnsPromise, ImpConversionRaisesPromise, ImpConversionDiesPromise
     DEF Imp, Promises, Promise!Next
<1>4. CASE Eval
  BY <1>4, EvalEntersPromise, EvalRaisesPromise, EvalReturnsPromise
     DEF Eval, Promises, Promise!Next
<1>5. CASE Call
  BY <1>5, CallEntersPromise, CallUnknownMethodPromise, CallRefusesPromise, CallInvokesPromise,
     CallReturnsPromise, CallHandlesExceptionPromise, CallConversionRaisesPromise,
     CallGoesAstrayPromise DEF Call, Promises, Promise!Next
<1>6. CASE Unwind
  BY <1>6, DieLeavesCallPromise, DieReachesEvalPromise, DieReachesGatePromise,
     RaiseLeavesNativePromise, RaiseReachesHandlerPromise, ErrorEndsProgramPromise
     DEF Unwind, Promises, Promise!Next
<1>7. CASE Exited \/ UNCHANGED vars
  BY <1>7, StutterPromise DEF Exited
<1> QED
  BY <1>1, <1>2, <1>3, <1>4, <1>5, <1>6, <1>7 DEF Next

\* The gates implement the promise of ErrorPropagation: at any depth of
\* nesting every error that Perl code or a native method fails with goes, one
\* activation at a time, to the innermost handler of either language; only an
\* error whose value is false is lost, and only on its way out of Perl.  An
\* NSException in the conversions of a native call passes over one Perl
\* activation, handler or not, and makes the next one further out impossible to
\* resume; a death in the conversions of a Perl method ends the program or its
\* meaning.
THEOREM ErrorsPropagate == Spec => PropagatesErrors
<1>1. Init => Promise!Init
  BY InitPromise
<1>2. IInv /\ [Next]_vars => [Promise!Next]_Promise!vars
  BY StepPromise
<1> QED
  BY <1>1, <1>2, Invariance, PTL DEF Spec, PropagatesErrors, Promise!Spec
=============================================================================
