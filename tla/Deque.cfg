CONSTANTS
  Word = {a, b}
  Junk = Junk
  Cap = 5
  EltSize = 2
  MaxElts = 3
  MaxWords = 7
SPECIFICATION Spec
INVARIANTS IteratorVisitsSnapshot IsEmptyExact
PROPERTY ImplementsWordQueue
