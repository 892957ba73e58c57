---------------------------- MODULE ForeignCall -----------------------------
(***************************************************************************)
(* How a call from Perl becomes a C call on i386 Darwin and its result a   *)
(* Perl value again: REAL_CBCallNativeMethod (NativeMethods.m) fills in    *)
(* the types and values of the arguments, libffi (libffi-15) lays them out *)
(* on the stack, and the method that answers finds them there.  The method *)
(* is native code or, registered from Perl, REAL_CBPerlIMP                 *)
(* (PerlMethods.m), which reads the stack with va_arg.                     *)
(*                                                                         *)
(* A value is the number it is; only the integers' values are followed, of *)
(* all others where they are.  The size of a byte is a parameter.          *)
(*                                                                         *)
(* A call's arrays are its own, but the ffi_types of the structures are    *)
(* global and filled in when first used: what runs while an argument is    *)
(* converted, and what the method does, can make calls of its own and use  *)
(* any of them (OtherCall).                                                *)
(***************************************************************************)
EXTENDS Integers, SequencesExt

CONSTANTS
  Byte,        \* the number of values of a byte
  MaxArgs,     \* places in the arrays of arguments
  Signatures,  \* the methods' types: [ret |-> a code, args |-> codes]
  Samples      \* the numbers programs pass and methods return

ASSUME ForeignCallAssumption ==
  /\ Byte \in Nat \ {0} /\ Byte % 2 = 0
  /\ MaxArgs \in Nat \ {0, 1}
  /\ Samples \subseteq Int

VARIABLES
  layout,   \* size and alignment of the structures' ffi_types
  phase,    \* of the call: "idle", "filling", "typed", "prepared", "running",
            \* "returned", "refused" or "wild" (the program has no meaning)
  sig,      \* its signature
  callee,   \* what answers it: "native" or "perl"
  types,    \* arg_ffi_types
  given,    \* the numbers Perl passed
  values,   \* arg_values
  cif,      \* bytes and flags of the cif, and the messenger chosen
  frame,    \* the words on the stack
  answer,   \* what the method returned
  result    \* the number Perl gets

vars == <<layout, phase, sig, callee, types, given, values, cif, frame,
          answer, result>>
----------------------------------------------------------------------------
(* Types.                                                                   *)

Structs == {"NSPoint", "NSRange", "NSRect", "NSSize"}
Elements == [NSPoint |-> <<"float", "float">>, NSSize |-> <<"float", "float">>,
             NSRange |-> <<"uint", "uint">>, NSRect |-> <<"NSPoint", "NSSize">>]

Type(t, s, a) == [type |-> t, size |-> s, alignment |-> a]
FfiTypes ==
  [schar |-> Type("SINT8", 1, 1), uchar |-> Type("UINT8", 1, 1),
   sshort |-> Type("SINT16", 2, 2), ushort |-> Type("UINT16", 2, 2),
   sint |-> Type("SINT32", 4, 4), uint |-> Type("UINT32", 4, 4),
   float |-> Type("FLOAT", 4, 4), double |-> Type("DOUBLE", 8, 4),
   pointer |-> Type("POINTER", 4, 4), void |-> Type("VOID", 1, 1)]
TypeOf(t) == IF t \in Structs THEN layout[t] ELSE FfiTypes[t]

\* The codes of @encode, by what they are to the call.  Tagged: a structure
\* encoded with an underscore before its name ({_NSRange=II}).  Other: a
\* structure that the bridge does not know.
Tagged == {"_NSPoint", "_NSRange", "_NSRect", "_NSSize"}
IntCodes == {"c", "s", "i", "l", "C", "S", "I", "L"}
PointerCodes == {"*", "@", "^", "^@", "#", ":", "["}
Unknown == {"(", "b", "?", "q", "Q", "r*"}    \* r*: const char *
Codes == IntCodes \cup PointerCodes \cup Structs \cup Tagged \cup Unknown
           \cup {"f", "d", "v", "Other"}

ASSUME SignaturesAssumption == Signatures \subseteq [ret : Codes, args : Seq(Codes)]

\* The structure of a code, whose underscore CBCallNativeMethod skips.
StructOf(c) ==
  CASE c = "_NSPoint" -> "NSPoint" [] c = "_NSRange" -> "NSRange"
    [] c = "_NSRect" -> "NSRect"   [] c = "_NSSize" -> "NSSize" [] OTHER -> c

Signed == {"c", "s", "i", "l"}
SizeOf(c) == CASE c \in {"c", "C"} -> 1 [] c \in {"s", "S"} -> 2 [] OTHER -> 4
Width(n) == CASE n = 1 -> Byte [] n = 2 -> Byte * Byte
              [] OTHER -> Byte * Byte * Byte * Byte
Word == Width(4)

\* The low n bytes of w as an unsigned and as a signed number.
Unsigned(w, n) == w % Width(n)
SignedOf(w, n) == LET u == w % Width(n)
                  IN IF 2 * u < Width(n) THEN u ELSE u - Width(n)

\* x is a number of the type c.
InRange(x, c) ==
  IF c \in Signed
  THEN -Width(SizeOf(c)) <= 2 * x /\ 2 * x < Width(SizeOf(c))
  ELSE 0 <= x /\ x < Width(SizeOf(c))
----------------------------------------------------------------------------
\* The macro ALIGN gives 0 if a is 0.
Align(n, a) == IF a = 0 THEN 0 ELSE ((n + a - 1) \div a) * a
STACK_ARG_SIZE(n) == Align(n, 4)

\* A structure of two members.
Laid(x, y) ==
  LET alignment == IF x.alignment > y.alignment THEN x.alignment ELSE y.alignment
  IN Type("STRUCT", Align(Align(x.size, y.alignment) + y.size, alignment), alignment)

\* The layouts after initialize_aggregate of s, whose members that are
\* structures and have no size yet are initialized first.
InitFlat(l, s) ==
  LET member(e) == IF e \in Structs THEN l[e] ELSE FfiTypes[e]
  IN [l EXCEPT ![s] = Laid(member(Elements[s][1]), member(Elements[s][2]))]
InitMember(l, e) == IF e \in Structs /\ l[e].size = 0 THEN InitFlat(l, e) ELSE l
InitAggregate_Flat(l, s) == InitFlat(l, s)    \* a mistake: members first
InitAggregate(l, s) ==
  InitFlat(InitMember(InitMember(l, Elements[s][1]), Elements[s][2]), s)
Initialized(l, t) ==
  IF t \in Structs /\ l[t].size = 0 THEN InitAggregate(l, t) ELSE l
----------------------------------------------------------------------------
(* Mistakes this code could contain.                                        *)

\* Every argument is pushed with the sign of the union's member.
Extended_Swapped(t, v) ==
  LET n == FfiTypes[t].size
  IN IF t \in {"uchar", "ushort", "uint"} THEN SignedOf(v, n) % Word ELSE Unsigned(v, n)

\* A short is read where a char was returned.
FromUnion_Wider(c, eax) ==
  CASE c \in {"c", "s"} -> Unsigned(eax, 2)
    [] c \in {"i", "l"} -> SignedOf(eax, 4)
    [] c \in {"C", "S"} -> SignedOf(eax, SizeOf(c)) % Word
    [] OTHER            -> Unsigned(eax, 4)

\* The return types' flags as on other systems with this processor.
Flags_X86(t) == IF t.type \in {"VOID", "FLOAT", "DOUBLE", "STRUCT"} THEN t.type ELSE "INT"
----------------------------------------------------------------------------
NoSig == [ret |-> "v", args |-> <<>>]
NoCif == [bytes |-> 0, flags |-> "VOID", messenger |-> "plain"]

\* No call is being made; init_ffi_types has run.
Init ==
  /\ layout = [s \in Structs |-> Type("STRUCT", 0, 0)]
  /\ phase = "idle"
  /\ sig = NoSig /\ callee = "native"
  /\ types = <<>> /\ given = <<>> /\ values = <<>> /\ cif = NoCif
  /\ frame = <<>> /\ answer = 0 /\ result = 0

\* The switch on the return type, whose modifiers have been skipped.  A
\* structure it does not know stays void.
ReturnType(c) ==
  CASE c \in {"c", "C"}           -> "schar"
    [] c \in {"s", "S"}           -> "sshort"
    [] c \in {"i", "I", "l"}      -> "sint"
    [] c = "L"                    -> "uint"
    [] c \in {"f"}                -> "float"
    [] c = "d"                    -> "double"
    [] c \in {"v", "Other"}      -> "void"
    [] c \in Structs \cup Tagged  -> StructOf(c)
    [] OTHER                      -> "pointer"

\* The entry to CBCallNativeMethod, up to the arguments.  self and _cmd are
\* the first two; whether the call is for super changes only self.
CallNativeMethod(g, who) ==
  /\ phase = "idle"
  /\ sig' = g /\ callee' = who
  /\ phase' = IF g.ret \in Unknown THEN "refused" ELSE "filling"
  /\ types' = <<"pointer", "pointer">> /\ given' = <<0, 0>> /\ values' = <<0, 0>>
  /\ UNCHANGED <<layout, cif, frame, answer, result>>

\* The call is over, with a result or with nil.
Done ==
  /\ phase \in {"returned", "refused"}
  /\ phase' = "idle" /\ sig' = NoSig /\ callee' = "native"
  /\ types' = <<>> /\ given' = <<>> /\ values' = <<>> /\ cif' = NoCif
  /\ frame' = <<>> /\ answer' = 0 /\ result' = 0
  /\ UNCHANGED layout

ArgumentType(c) ==
  CASE c = "c" -> "schar" [] c = "C" -> "uchar"
    [] c = "s" -> "sshort" [] c = "S" -> "ushort"
    [] c \in {"i", "l"} -> "sint" [] c \in {"I", "L"} -> "uint"
    [] c = "f" -> "float" [] c = "d" -> "double"
    [] c \in Structs \cup Tagged -> StructOf(c)
    [] OTHER -> "pointer"

Code == sig.args[Len(types) - 1]     \* of the argument to be filled in

\* A mistake: the number is kept as it is.
FillArgument_Whole(x) ==
  /\ phase = "filling" /\ Len(types) - 2 < Len(sig.args)
  /\ Len(types) < MaxArgs
  /\ Code \notin Unknown \cup {"v", "Other"}
  /\ IF Code \in IntCodes THEN x \in Samples ELSE x = 0
  /\ types' = Append(types, ArgumentType(Code))
  /\ given' = Append(given, x)
  /\ values' = Append(values, x)
  /\ UNCHANGED <<layout, phase, sig, callee, cif, frame, answer, result>>

\* One round of the loop, for an argument that Perl passed.  The union's
\* member takes the low bytes of the number.
FillArgument(x) ==
  /\ phase = "filling" /\ Len(types) - 2 < Len(sig.args)
  /\ Len(types) < MaxArgs
  /\ Code \notin Unknown \cup {"v", "Other"}
  /\ IF Code \in IntCodes THEN x \in Samples ELSE x = 0
  /\ types' = Append(types, ArgumentType(Code))
  /\ given' = Append(given, x)
  /\ values' = Append(values, Unsigned(x, SizeOf(Code)))
  /\ UNCHANGED <<layout, phase, sig, callee, cif, frame, answer, result>>

\* A type the loop does not know: the call returns nil.
RefuseArgument ==
  /\ phase = "filling" /\ Len(types) - 2 < Len(sig.args)
  /\ Len(types) < MaxArgs /\ Code \in Unknown \cup {"v"}
  /\ phase' = "refused"
  /\ UNCHANGED <<layout, sig, callee, types, given, values, cif, frame, answer, result>>

\* The loop writes after the end of the arrays, leaves the type of a
\* structure it does not know as it finds it, and reads the value of an
\* argument that Perl did not pass.
FillGoesWrong ==
  /\ phase = "filling" /\ Len(types) - 2 < Len(sig.args)
  /\ \/ Len(types) >= MaxArgs
     \/ Code = "Other"
     \/ Code \notin Unknown \cup {"v", "@", "^", "^@"}
  /\ phase' = "wild"
  /\ UNCHANGED <<layout, sig, callee, types, given, values, cif, frame, answer, result>>
----------------------------------------------------------------------------
(* libffi.                                                                  *)

struct_on_stack(size) == size \notin {1, 2, 4, 8}

\* The space that ffi_prep_cif finds is needed; types are initialized.
Bytes(t, ts) ==
  FoldLeft(LAMBDA sum, x : Align(sum, IF TypeOf(x).alignment > 4 THEN 4
                                      ELSE TypeOf(x).alignment)
                             + STACK_ARG_SIZE(TypeOf(x).size),
           IF TypeOf(t).type = "STRUCT" /\ struct_on_stack(TypeOf(t).size)
           THEN STACK_ARG_SIZE(4) ELSE 0,
           ts)

\* cif->flags of a return type (ffi_prep_cif_machdep).
Flags(t) ==
  CASE t.type \in {"VOID", "FLOAT", "DOUBLE"} -> t.type
    [] t.type = "STRUCT" -> CASE t.size = 1 -> "SINT8" [] t.size = 2 -> "SINT16"
                              [] t.size = 4 -> "INT" [] t.size = 8 -> "SINT64"
                              [] OTHER -> "STRUCT"
    [] OTHER -> "INT"

\* CBMessengerFunctionForFFIType.
MessengerFor(t) ==
  CASE t \in {"float", "double"} -> "fpret"
    [] TypeOf(t).type = "STRUCT" /\ TypeOf(t).size > 8 -> "stret"
    [] OTHER -> "plain"

\* ffi_prep_cif's first part fills in the layouts of the return type and of
\* the arguments' types.
PrepareTypes ==
  /\ phase = "filling" /\ Len(types) - 2 = Len(sig.args)
  /\ layout' = FoldLeft(Initialized, layout, <<ReturnType(sig.ret)>> \o types)
  /\ phase' = "typed"
  /\ UNCHANGED <<sig, callee, types, given, values, cif, frame, answer, result>>

\* The rest of ffi_prep_cif, and the choice of the messenger.
PrepareCall ==
  LET t == ReturnType(sig.ret)
  IN /\ phase = "typed"
     /\ cif' = [bytes |-> Align(Bytes(t, types), 16), flags |-> Flags(TypeOf(t)),
                messenger |-> MessengerFor(t)]
     /\ phase' = "prepared"
     /\ UNCHANGED <<layout, sig, callee, types, given, values, frame, answer, result>>

\* A word of argument n; argument 0 is the pointer to the structure returned.
ArgWord(n, p, v) == [arg |-> n, part |-> p, val |-> v]

\* A value of an integer type widened to a word.
Extended(t, v) ==
  LET n == FfiTypes[t].size
  IN IF t \in {"schar", "sshort", "sint"} THEN SignedOf(v, n) % Word ELSE Unsigned(v, n)

WordsOf(n) ==
  [p \in 1 .. STACK_ARG_SIZE(TypeOf(types[n]).size) \div 4 |->
     ArgWord(n, p, IF types[n] \in {"schar", "uchar", "sshort", "ushort", "sint", "uint"}
                   THEN Extended(types[n], values[n]) ELSE 0)]

\* ffi_call: ffi_prep_args writes the words, and the method starts.
FfiCall ==
  /\ phase = "prepared"
  /\ frame' = FoldLeft(LAMBDA f, n : f \o WordsOf(n),
                       IF cif.flags = "STRUCT" THEN <<ArgWord(0, 1, 0)>> ELSE <<>>,
                       [n \in 1 .. Len(types) |-> n])
  /\ phase' = "running"
  /\ UNCHANGED <<layout, sig, callee, types, given, values, cif, answer, result>>
----------------------------------------------------------------------------
(* The method.                                                              *)

\* What the method's signature makes of the stack.  A structure that
\* CBCallNativeMethod does not know is taken to be a large one.
TrueSize == [NSPoint |-> 8, NSSize |-> 8, NSRange |-> 8, NSRect |-> 16]
InMemory(c) == StructOf(c) \in {"NSRect", "Other"}
NativeWords(c) ==
  IF StructOf(c) \in Structs THEN TrueSize[StructOf(c)] \div 4 ELSE IF c = "d" THEN 2 ELSE 1
\* What va_arg steps over: a float is taken for a double, and for a structure
\* whose name CBPerlIMP does not know, with or without an underscore, undef is
\* pushed and nothing is stepped over.
PerlWords(c) ==
  CASE c = "f" -> 2 [] c \in Tagged \cup {"Other"} -> 0 [] OTHER -> NativeWords(c)

\* Where the method looks for its argument n, self being the first.
Position(n) ==
  LET words(c) == IF callee = "native" THEN NativeWords(c) ELSE PerlWords(c)
      hidden == IF callee = "native" /\ InMemory(sig.ret) THEN 1 ELSE 0
  IN IF n <= 2 THEN hidden + n
     ELSE FoldLeft(LAMBDA at, c : at + words(c), hidden + 3, SubSeq(sig.args, 1, n - 3))

\* The method finds its first n arguments, each whole: a Perl method does
\* unless a large structure is returned or one of them is a float or a
\* structure it does not know.
Readable(n) ==
  callee = "perl" =>
    /\ ~InMemory(sig.ret)
    /\ \A k \in 1 .. n - 2 : sig.args[k] \notin Tagged \cup {"f"}

\* The number the method takes a word for.  Native code looks at the bytes of
\* its parameter; CBPerlIMP takes an int, and gives Perl every one of them,
\* the unsigned ones too, with newSViv, as a signed number of 4 bytes.
Reads(c, w) ==
  IF callee = "perl" THEN SignedOf(w, 4)
  ELSE IF c \in Signed THEN SignedOf(w, SizeOf(c)) ELSE Unsigned(w, SizeOf(c))

\* A number in one of the ways it can be in eax: native code leaves the bytes
\* above its type as they are, CBPerlIMP fills the register.
InEax(x, c) ==
  IF callee = "perl" THEN {Unsigned(x, 4)}
  ELSE {Unsigned(x, SizeOf(c)), Unsigned(x, SizeOf(c)) + Word - Width(SizeOf(c))}

\* Where the method leaves what it returns; CBPerlIMP returns an id.
LeftIn(c) ==
  IF callee = "perl" THEN IF c = "v" THEN "nowhere" ELSE "eax"
  ELSE CASE InMemory(c) -> "memory"
         [] StructOf(c) \in Structs \ {"NSRect"} -> "edx:eax"
         [] c \in {"f", "d"} -> "st0"
         [] c = "v" -> "nowhere"
         [] OTHER -> "eax"

\* Where ffi_call_SYSV takes it from.
TakenFrom(flags) ==
  CASE flags = "INT" -> "eax" [] flags = "SINT64" -> "edx:eax"
    [] flags \in {"FLOAT", "DOUBLE"} -> "st0"
    [] flags = "STRUCT" -> "memory"
    [] OTHER -> "nowhere"

\* The union's member for the code, whose sign is the other one for char
\* and short, as a Perl number.
FromUnion(c, eax) ==
  CASE c \in {"c", "s"} -> Unsigned(eax, SizeOf(c))
    [] c \in {"i", "l"} -> SignedOf(eax, 4)
    [] c \in {"C", "S"} -> SignedOf(eax, SizeOf(c)) % Word
    [] OTHER            -> Unsigned(eax, 4)

\* The method returns, if what it read of the wrong places (a pointer taken
\* from the middle of a number) let it; output arguments it has not written
\* hold what was on the stack and are taken for objects.
Returns(x) ==
  /\ phase = "running"
  /\ IF sig.ret \in IntCodes THEN x \in Samples /\ InRange(x, sig.ret) ELSE x = 0
  /\ answer' = x
  /\ IF sig.ret \in IntCodes THEN \E w \in InEax(x, sig.ret) : result' = FromUnion(sig.ret, w)
     ELSE result' = 0
  /\ phase' \in {"returned"} \cup
                {p \in {"wild"} : ~Readable(Len(types)) \/ \E k \in DOMAIN sig.args : sig.args[k] = "^@"}
  /\ UNCHANGED <<layout, sig, callee, types, given, values, cif, frame>>

\* A call made while this one's arguments are converted, or by its method.
OtherCall(s) ==
  /\ phase \in {"filling", "running"}
  /\ layout' = Initialized(layout, s)
  /\ UNCHANGED <<phase, sig, callee, types, given, values, cif, frame, answer, result>>

Next ==
  \/ \E g \in Signatures, who \in {"native", "perl"} : CallNativeMethod(g, who)
  \/ \E x \in Samples \cup {0} : FillArgument(x) \/ Returns(x)
  \/ Done \/ RefuseArgument \/ FillGoesWrong
  \/ PrepareTypes \/ PrepareCall \/ FfiCall
  \/ \E s \in Structs : OtherCall(s)

Spec == Init /\ [][Next]_vars
----------------------------------------------------------------------------
TypeOK ==
  /\ layout \in [Structs -> {Type("STRUCT", 4 * n, 4 * a) : n \in 0 .. 4, a \in 0 .. 1}]
  /\ phase \in {"idle", "filling", "typed", "prepared", "running", "returned",
               "refused", "wild"}
  /\ sig \in Signatures \cup {NoSig} /\ callee \in {"native", "perl"}
  /\ types \in Seq(DOMAIN FfiTypes \cup Structs) /\ Len(types) <= MaxArgs
  /\ given \in Seq(Int) /\ values \in Seq(0 .. Word - 1)
  /\ Len(given) = Len(types) /\ Len(values) = Len(types)
  /\ cif.bytes \in Nat /\ cif.messenger \in {"plain", "fpret", "stret"}
  /\ cif.flags \in {"VOID", "INT", "SINT64", "FLOAT", "DOUBLE", "STRUCT"}
  /\ answer \in Int /\ result \in Int

Used == {ReturnType(sig.ret)} \cup {types[n] : n \in DOMAIN types}
Prepared == phase \in {"typed", "prepared", "running", "returned"}

\* In whatever order calls come to use the structures, and whichever of them
\* are members of others, each has been laid out once and correctly when a
\* call needs it (init_ffi_types, initialize_aggregate).
LayoutsTrue ==
  \A s \in Structs :
    /\ layout[s].size \in {0, TrueSize[s]}
    /\ Prepared /\ s \in Used => layout[s] = Type("STRUCT", TrueSize[s], 4)

\* The arguments never take more stack than ffi_prep_cif reserved
\* (ffi_prep_args writes without looking at the size), and each of the
\* method's parameters is, whole, the argument Perl passed for it, with the
\* bits of the number, if its type can hold it, and with its value: of a Perl
\* method up to the first float or structure with an underscore, if it returns
\* no large structure, and with the value if it is less than 2^31.
MethodFindsArguments ==
  phase = "running" =>
    /\ 4 * Len(frame) <= cif.bytes
    /\ \A n \in 1 .. Len(types) :
         LET at == Position(n)
             c == IF n <= 2 THEN "@" ELSE sig.args[n - 2]
         IN Readable(n) /\ sig.ret # "Other" =>
              /\ \A p \in 1 .. NativeWords(c) :
                   /\ at + p - 1 <= Len(frame)
                   /\ frame[at + p - 1].arg = n /\ frame[at + p - 1].part = p
              /\ c \in IntCodes /\ InRange(given[n], c) =>
                   LET x == Reads(c, frame[at].val)
                   IN /\ Unsigned(x, 4) = Unsigned(given[n], 4)
                      /\ callee = "native" \/ 2 * given[n] < Word => x = given[n]

\* Three places decide for themselves how a structure comes back: whether
\* room is made for its address, whether its address is pushed, and which
\* messenger forwards the call.  They agree, and what a native method returns
\* is taken from where it was left, for every type the conversion knows.  Of a
\* Perl method this holds of what fits in a register.
ReturnFound ==
  /\ phase = "running" =>
       /\ cif.messenger = "stret" <=> cif.flags = "STRUCT"
       /\ cif.messenger = "stret" <=> frame[1].arg = 0
  /\ \/ phase # "returned"
     \/ sig.ret = "Other"
     \/ callee = "perl" /\ sig.ret \in Structs \cup Tagged \cup {"f", "d"}
     \/ LeftIn(sig.ret) = TakenFrom(cif.flags)

\* The number Perl gets has the bits of the number the method returned, and
\* is that number if it is an int or not negative and in the lower half of its
\* type; what garbage the register has above the type is of no consequence.
ReturnKeepsBits ==
  phase = "returned" /\ sig.ret \in IntCodes =>
    LET n == SizeOf(sig.ret)
    IN /\ Unsigned(result, n) = Unsigned(answer, n)
       /\ n = 4 \/ (0 <= answer /\ 2 * answer < Width(n)) => result = answer

\* "case 'C': // unsigned char" (NativeMethods.m:188), and likewise for
\* char, short and unsigned short: Perl gets the number the method returned.
ReturnIntact ==
  phase = "returned" /\ sig.ret \in IntCodes => result = answer
=============================================================================
