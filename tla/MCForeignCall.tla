-------------------------- MODULE MCForeignCall ---------------------------
EXTENDS ForeignCall

\* Parameters before others shift them; every kind is before an int and after
\* a char.  One method has more parameters than there is room for.  With bytes
\* of 4 values a word has 256: 200 is unsigned and in its upper half.
MCSignatures ==
  LET rets == {"c", "S", "i", "d", "v", "@", "NSRange", "_NSRect", "Other", "q"}
      codes == {"c", "s", "C", "S", "I", "d", "f", "^@", "NSRange", "_NSRange", "NSRect", "r*", "Other"}
  IN {[ret |-> r, args |-> a] : r \in rets,
                                a \in {<<>>} \cup {<<x, "i">> : x \in codes}
                                     \cup {<<"c", y>> : y \in codes}}
       \cup {[ret |-> "v", args |-> <<"I", "C", "s">>]}
MCSamples == {-7, -1, 1, 9, 200}
=============================================================================
