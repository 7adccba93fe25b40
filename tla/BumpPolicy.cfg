CONSTANTS
  Sizes = {64, 128}
  Margin = 64
  FragmentSize = 512
  InitialMax = 1
  MaxGC = 3
  None = None
SPECIFICATION BumpSpec
INVARIANTS TypeOK SpaceBounded RoomAfterResizing
CHECK_DEADLOCK FALSE
