SPECIFICATION Spec
CONSTANTS
  PageWords = 8
  GroupLog = 1
  NrGroups = 2
  NrPages = 12
  Client = {1, 2}
  Sizes <- MCSizes
  MaxFrags = 5
  Space = {1, 2}
  FramePages = 2
  InitSlots = 0
  InxMod = 64
  MaxFragments = 2
INVARIANTS KeepsContent ChunksConserved SizeFoundBack PagesAccounted MapExact
CHECK_DEADLOCK FALSE
