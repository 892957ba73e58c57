SPECIFICATION FairSpec
CONSTANTS
  perlfunc = perlfunc
  perlcn = perlcn
  page1 = page1
  page2 = page2
  window = window
  Nothing = Nothing
  Pods <- MCPods
  Special <- MCSpecial
  Names <- MCNames
  PageNames <- MCPageNames
  Documents <- MCDocuments
  Texts <- MCTexts
  Denials <- MCDenials
  MaxTime = 1
INVARIANTS TypeOK TrustedIsKnown TagsMatch
PROPERTIES DeathsAreKnown DisplayEnds
