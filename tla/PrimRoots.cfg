SPECIFICATION Spec
CONSTANTS
  Longest = 90
  Prims = {"primNewMutVar", "primReadMutVar", "primMakeWeakPtr", "primDeRefWeakPtr", "primRationalToDouble", "primAddInteger", "primQuotRemInteger", "primDivModInteger", "primDecodeDouble", "primShowInteger", "primByteArrayToString", "primStringToByteArray", "primTraceStringExit", "primHGetContents", "primHGetChar", "primHPutChar", "primOpenFileOrStd", "primThrowException"}
  FinalizerPrims = {"primThrowException", "primMakeWeakPtr", "primByteArrayToString"}
  FinalizerDepth = 3
  Digits = 4
  MaxNested = 1
INVARIANTS
    GroupsBalanced  ThrownCurrent
