\* The program has no meaning after a call that went wrong: it may stop there.
SPECIFICATION Spec
CONSTANTS
  Byte = 4
  MaxArgs = 4
  Signatures <- MCSignatures
  Samples <- MCSamples
INVARIANTS
  TypeOK
  LayoutsTrue
  MethodFindsArguments
  ReturnFound
  ReturnKeepsBits
CHECK_DEADLOCK FALSE
