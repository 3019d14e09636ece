SPECIFICATION StreamingSpec
CONSTANTS
  W = 5
  MemDepth = 1
  StatusWords = {1}
  Commands <- LiveCommands
  Stamps = {d0}
  CmdDepth = 1
  OutDepth = 3
  FullAssert = 1
  DataDepth = 3
  EmptyAssert = 2
  RegSlots = 0
  Careful = TRUE
PROPERTIES MemReadEnds KeepsServing
