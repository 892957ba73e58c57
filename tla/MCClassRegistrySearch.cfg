SPECIFICATION Spec
CONSTANTS
  ca = ca
  cb = cb
  cc = cc
  NSObject = NSObject
  Classes <- MCClasses
  Texts <- MCTexts
  NoName = NoName
  NameParts <- MCNameParts
  MaxAdded = 2
INVARIANTS FirstRegisteredIsSuper
