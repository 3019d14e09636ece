SPECIFICATION Spec
CONSTANTS
  W = 5
  MemDepth = 2
  StatusWords = {1}
  Commands <- MemoryCommands
  Stamps = {d0}
  CmdDepth = 2
  OutDepth = 4
  FullAssert = 1
  DataDepth = 4
  EmptyAssert = 2
  RegSlots = 1
  Careful = TRUE
PROPERTY KeepsContract
