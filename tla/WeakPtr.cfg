CONSTANTS
  Obj = {a, b}
  Wp = {w1, w2}
  Graphs <- OnePointer
  None = None
  NoFinalizer = NoFinalizer
  BeingFinalized = BeingFinalized
  CFinalizer = CFinalizer
  PageElts = 1
SPECIFICATION Spec
INVARIANTS FinalizedOnce DerefCurrent AdminCurrent DeadKeyFound
PROPERTY QueueEmptied
CHECK_DEADLOCK FALSE
