SPECIFICATION Spec
CONSTANTS
  WordBits = 6
  CIntBits = 5
  SmallBits = 3
INVARIANT TypeOK
PROPERTY ImplementsHsInts
