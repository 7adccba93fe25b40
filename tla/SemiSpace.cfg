CONSTANTS
  r1 = r1
  r2 = r2
  w = w
  None = None
  Root = {r1, r2}
  NonPtr = {w}
  N = 3
  NF = 2
  MaxOps = 3
SPECIFICATION Spec
SYMMETRY RootSymmetry
INVARIANTS TypeOK IInv NoDangling GraphPreserved ExactlyTheForwarded
PROPERTY CollectionAdvances
