SPECIFICATION MCSpec
CONSTANTS
  UserCode <- MCCode
  Heaps <- Programs
  Main = 1
  StackNeed = 6
  StackLimit = 60
  StackSpare = 8
  HeapLimit = 22
  Fuel = 10
INVARIANTS ResultCorrect NodesKeepMeaning FramesLinked StackTraced
PROPERTY Terminates
