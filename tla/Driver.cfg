SPECIFICATION Spec
CONSTANTS
  Module = {"Main", "A", "B"}
  Top = "Main"
  Sources <- MCSources
  MaxTime = 4
  MaxEdits = 2
  MaxRuns = 3
  None = None
INVARIANTS ExecutableCurrent QuietAfterSuccess
CHECK_DEADLOCK FALSE
