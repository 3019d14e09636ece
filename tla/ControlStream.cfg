SPECIFICATION Spec
CONSTANTS
  W = 4
  MemDepth = 2
  StatusWords = {1}
  Commands <- StreamCommands
  Stamps = {d0, d1}
  CmdDepth = 2
  OutDepth = 5
  FullAssert = 2
  DataDepth = 4
  EmptyAssert = 2
  RegSlots = 1
  Careful = TRUE
INVARIANTS TypeOK NoPhantomWord NoSensorWordDropped PulseFindsFifosAtRest
SYMMETRY StampSymmetry
PROPERTY KeepsContract
