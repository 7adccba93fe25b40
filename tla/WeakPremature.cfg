CONSTANTS
  Obj = {a, b, c}
  Wp = {w1, w2}
  Graphs <- OnePointer
  None = None
  NoFinalizer = NoFinalizer
  BeingFinalized = BeingFinalized
  CFinalizer = CFinalizer
  PageElts = 1
SYMMETRY Symmetry
SPECIFICATION Spec
INVARIANT OnlyDeadFinalized
CHECK_DEADLOCK FALSE
