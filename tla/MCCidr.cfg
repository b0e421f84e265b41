SPECIFICATION Spec
CONSTANTS
  Families <- MCFamilies
  Bits <- MCBits
  UsizeBits = 4
INVARIANTS
  TypeOK
  BlockIsPrefix
  TextRoundTrip
  IterExact
CHECK_DEADLOCK FALSE
