----------------------------- MODULE MCPodCache -----------------------------
(* An instance of PodCache for TLC: one window, two PODs, one of them with  *)
(* an encoding of its own.                                                  *)
EXTENDS PodCache

CONSTANTS perlfunc, perlcn, page1, page2, window
MCPods == {perlfunc, perlcn}
MCSpecial == {perlcn}
MCNames == {page1, page2}
MCPageNames == {[p \in MCPods |-> page1],
                [p \in MCPods |-> IF p = perlcn THEN page2 ELSE page1]}
MCDocuments == {window}
\* perlfunc itself and perlcn's own page.
MCDenials == {{}, {perlfunc, page2}}
\* The link of the last text is reached by a second pass, if the text has
\* replaced the first one, which asks for it.
MCTexts == {
  <<"over", "over", "item", "other", "back", "item", "back", "back">>,
  <<"over", "begin", "back", "unknown", "end", "item">>,
  <<"begin", "over", "end", "item">>,
  <<"unknown">>,
  <<"utf8", "link">> }
=============================================================================
