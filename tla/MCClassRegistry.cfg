SPECIFICATION FairSpec
CONSTANTS
  ca = ca
  cb = cb
  cc = cc
  NSObject = NSObject
  Classes <- MCClasses
  Texts <- MCTexts
  NoName = NoName
  NameParts <- MCNameParts
  MaxAdded = 2
INVARIANTS TypeOK Rooted PerlSeesSuper HierarchyAsUsed MethodsFollow
PROPERTIES SuperIsFinal LoadingEnds
