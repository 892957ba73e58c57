------------------------------ MODULE PodCache ------------------------------
(***************************************************************************)
(* ShuX shows PODs as HTML pages.  A page is kept in a file, named after   *)
(* the POD without its extension, and is shown again for as long as it is  *)
(* not older than the POD (src/ShuX/MyDocument.pm); it is made by          *)
(* ShuXParser.pm, one paragraph of the POD after the other, with a second  *)
(* pass if the POD asks for another encoding than the first one assumed.   *)
(*                                                                         *)
(* ShuX does all this on its main thread, but other programs write PODs at *)
(* any time, and files come to be out of reach, removed or not permitted.  *)
(* The clock is that of the files and has whole seconds.  A program that   *)
(* writes a POD replaces the file, so a parser goes on with the text it    *)
(* has opened, and gives it the time of the writing.                       *)
(***************************************************************************)
EXTENDS Naturals, Sequences, SequencesExt, FiniteSetsExt

CONSTANTS
  Pods,       \* files with PODs
  Names,      \* names of pages
  PageNames,  \* which PODs may have the same one, functions from Pods to Names
  Documents,  \* ShuX's windows
  Texts,      \* what the PODs may contain, sequences of Paragraphs
  Special,    \* PODs (perlcn, perljp, perlko, perltw) read in an encoding of their own
  Denials,    \* which files may be out of reach at a time
  Nothing,    \* no page, no job
  MaxTime     \* bound of the clock

(***************************************************************************)
(* "item" is all kinds of items; "text" all that has no effect on the      *)
(* parser, and "link" the same with a link that Pod::Hyperlink refuses.    *)
(* "begin" is a =begin of a format that ShuX does not render.              *)
(* The =encodings name "utf8", another one, or one that Perl does not know.*)
(***************************************************************************)
Paragraphs == {"text", "link", "over", "item", "back", "begin", "end", "utf8", "other", "unknown"}

ASSUME PodCacheAssumption ==
  /\ PageNames \subseteq [Pods -> Names] /\ Special \subseteq Pods
  /\ Texts \subseteq Seq(Paragraphs) /\ MaxTime \in Nat
  /\ Denials \subseteq SUBSET (Pods \cup Names)

VARIABLES
  clock,
  text, written,  \* of the PODs
  name,           \* the names of their pages
  denied,         \* PODs that cannot be opened, pages that cannot be written
  page,           \* the files with the pages
  doc,            \* file, needParsing, and whether its spinner turns
  job             \* what the main thread is doing

vars == <<clock, text, written, name, denied, page, doc, job>>
pods == <<text, written, name, denied>>

\* cut: the POD could not be opened for the second pass.
Page == [of : Pods, text : Texts, whole : BOOLEAN, cut : BOOLEAN,
         opened : 0 .. MaxTime, at : 0 .. MaxTime]
Document == [file : Pods, needParsing : BOOLEAN, spins : BOOLEAN]

(***************************************************************************)
(* stage   "display" between readFromFile: and displayPod, "parse" in      *)
(*         parseFile                                                       *)
(* source  the text the open file has                                      *)
(* done    how many of its paragraphs have been read in this pass          *)
(* skipped the reading position has been set to the end of the file        *)
(* coding  the parser's input_encoding                                     *)
(* last    no other pass can follow                                        *)
(* lists   list_types: for each =over, whether a list was opened for it    *)
(* open    the number of HTML lists that are open in the page              *)
(* hidden  hide_block                                                      *)
(***************************************************************************)
Job == [doc : Documents, stage : {"display", "parse"}, source : Texts \cup {<<>>}, done : Nat,
        skipped : BOOLEAN, coding : {"utf8", "other", "unknown"}, last : BOOLEAN,
        lists : Seq(BOOLEAN), open : Nat, hidden : BOOLEAN]

ASSUME NothingAssumption == Nothing \notin Page \cup Job

TypeOK ==
  /\ clock \in 0 .. MaxTime
  /\ text \in [Pods -> Texts] /\ written \in [Pods -> 0 .. MaxTime]
  /\ name \in [Pods -> Names] /\ denied \in Denials
  /\ page \in [Names -> Page \cup {Nothing}]
  /\ doc \in [Documents -> Document]
  /\ job \in Job \cup {Nothing}

\* $cfilename =~ s/(.pm|.pod|.pl)$/.html/ maps two PODs to one name, or not.
Init ==
  /\ clock = 0
  /\ text \in [Pods -> Texts] /\ written = [p \in Pods |-> 0]
  /\ name \in PageNames /\ denied \in Denials
  /\ page = [n \in Names |-> Nothing]
  /\ doc \in [Documents -> {[file |-> p, needParsing |-> FALSE, spins |-> FALSE] : p \in Pods}]
  /\ job = Nothing
----------------------------------------------------------------------------
Mine == doc[job.doc]
MyName == name[Mine.file]

Parsing == job # Nothing /\ job.stage = "parse"
Paragraph == job.source[job.done + 1]
AtEnd == job.skipped \/ job.done = Len(job.source)
Reads(kinds) == Parsing /\ ~AtEnd /\ Paragraph \in kinds
Hides(kinds) == Reads(kinds) /\ job.hidden

\* A pass starts with begin_pod.
Pass(j, source, coding, last) ==
  [j EXCEPT !.stage = "parse", !.source = source, !.done = 0, !.skipped = FALSE,
            !.coding = coding, !.last = last, !.lists = <<>>, !.open = 0,
            !.hidden = FALSE]

\* The main thread comes back from displayPod.
Returns(spins) ==
  /\ job' = Nothing
  /\ doc' = [doc EXCEPT ![job.doc] = [@ EXCEPT !.spins = spins]]

----------------------------------------------------------------------------
(* Mistakes the program could have.                                         *)

\* The page is trusted if it exists.
Trusted_Always(p) == page[name[p]] # Nothing

\* An item's list is not noted.
Item_NotNoted ==
  /\ Reads({"item"}) /\ ~job.hidden /\ job.lists # <<>>
  /\ job' = [job EXCEPT !.done = @ + 1, !.open = IF Last(job.lists) THEN @ ELSE @ + 1]
  /\ UNCHANGED <<clock, pods, page, doc>>

\* A =back counts in a hidden block as well.
Back_Hidden ==
  /\ Reads({"back"})
  /\ job' = IF job.lists = <<>> THEN [job EXCEPT !.done = @ + 1]
            ELSE [job EXCEPT !.done = @ + 1, !.lists = Front(@),
                             !.open = IF Last(job.lists) THEN @ - 1 ELSE @]
  /\ UNCHANGED <<clock, pods, page, doc>>

\* A closing tag is written without a look at list_types.
Back_ClosesAlways ==
  /\ Reads({"back"}) /\ ~job.hidden
  /\ job' = [job EXCEPT !.done = @ + 1, !.lists = IF @ = <<>> THEN @ ELSE Front(@), !.open = @ - 1]
  /\ UNCHANGED <<clock, pods, page, doc>>

\* The passes go on for as long as the encoding is not utf8.
SecondPass_Repeats ==
  /\ Parsing /\ AtEnd /\ job.coding = "other"
  /\ job' = Pass(job, text[Mine.file], "other", TRUE)
  /\ UNCHANGED <<clock, pods, page, doc>>
----------------------------------------------------------------------------
(* MyDocument.pm                                                            *)

\* -M $cacheFile > -M $filename says that the page is older.
Trusted(p) == page[name[p]] # Nothing /\ page[name[p]].at >= written[p]

\* readFromFile:ofType:, for a new window or a link; displayPod follows in
\* the same event.
ReadFile(d, p) ==
  /\ job = Nothing
  /\ doc' = [doc EXCEPT ![d] = [@ EXCEPT !.file = p, !.needParsing = ~Trusted(p)]]
  /\ job' = [doc |-> d, stage |-> "display", source |-> <<>>, done |-> 0,
             skipped |-> FALSE, coding |-> "utf8", last |-> FALSE, lists |-> <<>>,
             open |-> 0, hidden |-> FALSE]
  /\ UNCHANGED <<clock, pods, page>>

\* displayPod of a page that is trusted.
DisplayPage ==
  /\ job # Nothing /\ job.stage = "display" /\ ~Mine.needParsing
  /\ Returns(FALSE)
  /\ UNCHANGED <<clock, pods, page>>

\* displayPod, and parseFile to where both files are open.
StartParsing ==
  /\ job # Nothing /\ job.stage = "display" /\ Mine.needParsing
  /\ {Mine.file, MyName} \cap denied = {}
  /\ job' = Pass(job, text[Mine.file], "utf8", Mine.file \in Special)
  /\ doc' = [doc EXCEPT ![job.doc] = [@ EXCEPT !.spins = TRUE]]
  /\ page' = [page EXCEPT ![MyName] = [of |-> Mine.file, text |-> text[Mine.file], whole |-> FALSE,
                                       cut |-> FALSE, opened |-> clock, at |-> clock]]
  /\ UNCHANGED <<clock, pods>>

\* The POD cannot be opened, the directory cannot be made, or the page, which
\* is opened last, cannot be written: parseFile dies, and the spinner turns on.
StartFails ==
  /\ job # Nothing /\ job.stage = "display" /\ Mine.needParsing
  /\ {Mine.file, MyName} \cap denied # {}
  /\ Returns(TRUE)
  /\ UNCHANGED <<clock, pods, page>>

\* The parser, or parseFile after it, dies: what is written stays in the file,
\* which is closed now; no page is loaded, and the spinner turns on.
Dies(cut) ==
  /\ page' = [page EXCEPT ![MyName] = [@ EXCEPT !.at = clock, !.cut = cut]]
  /\ Returns(TRUE)
  /\ UNCHANGED <<clock, pods>>

\* The POD is opened again with the encoding that it names, and the page is
\* written once more from its beginning.
SecondPass ==
  /\ Parsing /\ AtEnd /\ ~job.last /\ job.coding = "other" /\ Mine.file \notin denied
  /\ job' = Pass(job, text[Mine.file], "other", TRUE)
  /\ page' = [page EXCEPT ![MyName] = [@ EXCEPT !.text = text[Mine.file]]]
  /\ UNCHANGED <<clock, pods, doc>>

\* open() fails for an encoding that does not exist, or because the POD is out
\* of reach by now.
SecondPassFails ==
  /\ Parsing /\ AtEnd /\ ~job.last /\ job.coding # "utf8"
  /\ job.coding = "unknown" \/ Mine.file \in denied
  /\ Dies(Mine.file \in denied)

\* The files are closed and the page is loaded.
FinishParsing ==
  /\ Parsing /\ AtEnd
  /\ job.last \/ job.coding = "utf8"
  /\ page' = [page EXCEPT ![MyName] = [@ EXCEPT !.whole = ~job.skipped, !.at = clock]]
  /\ Returns(FALSE)
  /\ UNCHANGED <<clock, pods>>
----------------------------------------------------------------------------
(* ShuXParser.pm, one action per kind of paragraph                          *)

\* A paragraph that changes nothing: text, whether it is hidden or not, and
\* lists that are hidden.
Plain ==
  /\ \/ Reads({"text"})
     \/ Hides({"over", "item", "back", "utf8", "other", "unknown"})
  /\ job' = [job EXCEPT !.done = @ + 1]
  /\ UNCHANGED <<clock, pods, page, doc>>

BeginEnd ==
  /\ Reads({"begin", "end"})
  /\ job' = [job EXCEPT !.done = @ + 1, !.hidden = (Paragraph = "begin")]
  /\ UNCHANGED <<clock, pods, page, doc>>

Over ==
  /\ Reads({"over"}) /\ ~job.hidden
  /\ job' = [job EXCEPT !.done = @ + 1, !.lists = Append(@, FALSE)]
  /\ UNCHANGED <<clock, pods, page, doc>>

\* The first item opens the list.
Item ==
  /\ Reads({"item"}) /\ ~job.hidden /\ job.lists # <<>>
  /\ job' = [job EXCEPT !.done = @ + 1, !.open = IF Last(job.lists) THEN @ ELSE @ + 1,
                        !.lists = Append(Front(@), TRUE)]
  /\ UNCHANGED <<clock, pods, page, doc>>

\* Without an =over the item is stored at index -1 of an empty array.
ItemOutside ==
  /\ Reads({"item"}) /\ ~job.hidden /\ job.lists = <<>>
  /\ Dies(FALSE)

\* new Pod::Hyperlink gives undef, which is messaged; a hidden paragraph is
\* interpolated as well.
LinkDies == Reads({"link"}) /\ Dies(FALSE)

\* Without an =over there is only a warning.
Back ==
  /\ Reads({"back"}) /\ ~job.hidden
  /\ job' = IF job.lists = <<>> THEN [job EXCEPT !.done = @ + 1]
            ELSE [job EXCEPT !.done = @ + 1, !.lists = Front(@),
                             !.open = IF Last(job.lists) THEN @ - 1 ELSE @]
  /\ UNCHANGED <<clock, pods, page, doc>>

\* In the first pass nothing after the directive is read, not even if it
\* names the encoding that is in use.
Encoding ==
  /\ Reads({"utf8", "other", "unknown"}) /\ ~job.hidden
  /\ job' = IF job.coding = "utf8"
            THEN [job EXCEPT !.done = @ + 1, !.coding = Paragraph, !.skipped = TRUE]
            ELSE [job EXCEPT !.done = @ + 1]
  /\ UNCHANGED <<clock, pods, page, doc>>
----------------------------------------------------------------------------
(* Others                                                                   *)

Tick == clock < MaxTime /\ clock' = clock + 1 /\ UNCHANGED <<pods, page, doc, job>>

\* Another program writes a POD.
Edit(p, t) ==
  /\ text[p] # t
  /\ text' = [text EXCEPT ![p] = t]
  /\ written' = [written EXCEPT ![p] = clock]
  /\ UNCHANGED <<clock, name, denied, page, doc, job>>

\* Permissions change; a POD is removed or comes back, and is looked at for its
\* time as if it were there.
Deny(s) ==
  /\ denied' = s
  /\ UNCHANGED <<clock, text, written, name, page, doc, job>>

ClearHTMLCache ==
  /\ job = Nothing
  /\ page' = [n \in Names |-> Nothing]
  /\ UNCHANGED <<clock, pods, doc, job>>

Parser == Plain \/ BeginEnd \/ Over \/ Item \/ ItemOutside \/ LinkDies \/ Back \/ Encoding
Main ==
  \/ DisplayPage \/ StartParsing \/ StartFails \/ SecondPass \/ SecondPassFails
  \/ FinishParsing \/ Parser
Next ==
  \/ \E d \in Documents, p \in Pods : ReadFile(d, p)
  \/ Main
  \/ \E p \in Pods, t \in Texts : Edit(p, t)
  \/ \E s \in Denials : Deny(s)
  \/ Tick \/ ClearHTMLCache

Spec == Init /\ [][Next]_vars
FairSpec == Spec /\ WF_vars(Main)
----------------------------------------------------------------------------
(* Properties                                                               *)

Busy(n) == Parsing /\ MyName = n

\* The n-th paragraph is not between a =begin and an =end.
Visible(t, n) ==
  \A b \in 1 .. n - 1 : t[b] = "begin" => \E e \in b + 1 .. n - 1 : t[e] = "end"
Seen(t, kind, i, n) == {j \in i .. n : t[j] = kind /\ Visible(t, j)}

\* The =over paragraphs that no =back has closed after n paragraphs, the one
\* that an item is for, and those for which the page needs a closing tag.
Unclosed(t, n) ==
  {i \in Seen(t, "over", 1, n) :
     \A j \in i .. n : Cardinality(Seen(t, "over", i, j)) > Cardinality(Seen(t, "back", i, j))}
ListOf(t, item) == Max(Unclosed(t, item))
OpenLists(t, n) ==
  {i \in Unclosed(t, n) : \E k \in Seen(t, "item", i, n) : ListOf(t, k) = i}

\* What a POD may have that its page is not whole: an item without a list; a
\* link that is none; an =encoding that Perl does not know or that is the one in use; any
\* =encoding in a POD that is read in an encoding of its own.
Directives(t) == {n \in DOMAIN t : t[n] \in {"utf8", "other", "unknown"} /\ Visible(t, n)}
Flawed(p, t) ==
  \/ \E k \in Seen(t, "item", 1, Len(t)) : Unclosed(t, k) = {}
  \/ \E k \in DOMAIN t : t[k] = "link"
  \/ Directives(t) # {} /\ (p \in Special \/ t[Min(Directives(t))] # "other")

\* A page that is trusted is a whole and current page of the POD, but for
\* four reasons: it is another POD's with the same name; the POD has a flaw;
\* it names an encoding and could not be opened for the second pass; or it was
\* written while it was being parsed, or in the second before or after.
TrustedIsKnown ==
  \A p \in Pods :
    LET n == name[p] IN
    Trusted(p) /\ ~Busy(n) =>
      \/ page[n].of # p /\ name[page[n].of] = n
      \/ Flawed(p, page[n].text) \/ page[n].cut
      \/ written[p] \in page[n].opened .. page[n].at
      \/ page[n].whole /\ page[n].text = text[p]

\* The parser opens and closes the lists of the POD that it should, whichever
\* =over, =item and =back are missing, in blocks, or too many.
TagsMatch == Parsing => job.open = Cardinality(OpenLists(job.source, job.done))

\* displayPod dies, so that the spinner turns on, of a file that is out of
\* reach, and then the page is as it was; or, when it has begun with the page,
\* of a flaw of the text it reads, or because the POD names an encoding and is
\* out of reach by the second pass.
DeathsAreKnown ==
  [][job # Nothing /\ job' = Nothing /\ doc'[job.doc].spins =>
       IF Parsing
       THEN \/ Flawed(Mine.file, job.source)
            \/ Mine.file \in denied /\ Directives(job.source) # {}
       ELSE {Mine.file, MyName} \cap denied # {} /\ page' = page]_vars

\* The main thread comes back from every page: there is no third pass.
DisplayEnds == job # Nothing ~> job = Nothing
=============================================================================
