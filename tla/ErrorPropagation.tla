-------------------------- MODULE ErrorPropagation --------------------------
(***************************************************************************)
(* What the bridge promises about errors when Perl and native code call    *)
(* each other to any depth.  A stack of activations, each written in one   *)
(* of the two languages and each perhaps inside a handler (a Perl eval     *)
(* block, an NS_DURING block).  An error leaves one activation at a time   *)
(* and stops at the first handler it meets, whichever language that        *)
(* handler is written in; it never skips an activation.                    *)
(*                                                                         *)
(* A weak error is a Perl error whose value Perl tests as false (an object *)
(* that overloads bool).  It behaves as an error inside Perl, and is lost  *)
(* when it reaches a native caller.                                        *)
(*                                                                         *)
(* The bridge itself can fail too, when it converts what is passed from    *)
(* one language to the other.  A native failure on a Perl activation's     *)
(* behalf passes over that activation, handler or not, to its native       *)
(* caller; the next Perl activation further out is lost, and the program   *)
(* has a meaning only until control gets back there.  A Perl failure on a  *)
(* native activation's behalf has no meaning at all.                       *)
(***************************************************************************)
EXTENDS Naturals, Sequences

VARIABLES
  calls,   \* the activations, outermost first: [lang, handles, lost]
  status   \* "run", "fail" or "weak" (an error is looking for a handler), "over",
           \* "astray" (the program has lost its meaning)

vars == <<calls, status>>

Lang == {"perl", "native"}
Activation == [lang : Lang, handles : BOOLEAN, lost : BOOLEAN]
Started(l) == [lang |-> l, handles |-> FALSE, lost |-> FALSE]

TopCall == calls[Len(calls)]
Outer   == SubSeq(calls, 1, Len(calls) - 1)
SetHandles(b) == calls' = [calls EXCEPT ![Len(calls)].handles = b]

TypeOK == /\ calls \in Seq(Activation) /\ calls # <<>>
          /\ status \in {"run", "fail", "weak", "over", "astray"}

Init == /\ calls \in {<<Started(l)>> : l \in Lang}
        /\ status = "run"

\* The innermost activation is one that can go on.
Running == status = "run" /\ ~TopCall.lost
InError == status \in {"fail", "weak"} /\ ~TopCall.lost

\* The running activation calls into the other language.
Call == /\ Running
        /\ \E l \in Lang \ {TopCall.lang} : calls' = Append(calls, Started(l))
        /\ UNCHANGED status

Return == /\ Running /\ Len(calls) > 1 /\ ~TopCall.handles
          /\ calls' = Outer
          /\ UNCHANGED status

OpenHandler  == /\ Running /\ ~TopCall.handles
                /\ SetHandles(TRUE) /\ UNCHANGED status
CloseHandler == /\ Running /\ TopCall.handles
                /\ SetHandles(FALSE) /\ UNCHANGED status

\* Only Perl can fail weakly.
Fail == /\ Running
        /\ status' \in IF TopCall.lang = "perl" THEN {"fail", "weak"} ELSE {"fail"}
        /\ UNCHANGED calls

Catch == /\ InError /\ TopCall.handles
         /\ SetHandles(FALSE)
         /\ status' = "run"

\* The error leaves an activation that has no handler.  A weak error leaves
\* Perl code as an ordinary result.
Unwind == /\ InError /\ ~TopCall.handles /\ Len(calls) > 1
          /\ calls' = Outer
          /\ status' = IF status = "weak" THEN "run" ELSE "fail"

\* A conversion for the running Perl activation fails natively.
Lose(s) == [i \in 1 .. Len(s) |-> IF i = Len(s) - 1 THEN [s[i] EXCEPT !.lost = TRUE] ELSE s[i]]
FailOver == /\ status = "run" /\ TopCall.lang = "perl"
            /\ \/ Len(calls) = 1 /\ status' = "over" /\ UNCHANGED calls
               \/ Len(calls) > 1 /\ status' = "fail" /\ calls' = Lose(Outer)

\* A conversion for the running native activation fails in Perl.
FailUnder == /\ Running /\ TopCall.lang = "native"
             /\ status' \in {"over", "astray"}
             /\ UNCHANGED calls

\* Control, or an error, gets back to an activation that is lost.
GoAstray == /\ status \in {"run", "fail"} /\ TopCall.lost
            /\ status' = "astray"
            /\ UNCHANGED calls

\* The outermost activation ends, or nothing handled the error.
End == /\ Len(calls) = 1 /\ ~TopCall.handles /\ ~TopCall.lost
       /\ status \in {"run", "fail", "weak"}
       /\ status' = "over"
       /\ UNCHANGED calls

Next == \/ Call \/ Return \/ OpenHandler \/ CloseHandler \/ Fail \/ Catch \/ Unwind
        \/ FailOver \/ FailUnder \/ GoAstray \/ End

Spec == Init /\ [][Next]_vars

\* An error always finds a handler, or ends the program or its meaning.
ErrorsSettle == (status \in {"fail", "weak"}) ~> (status \in {"run", "over", "astray"})
=============================================================================
