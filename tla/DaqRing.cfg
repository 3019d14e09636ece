SPECIFICATION Spec
CONSTANTS
  BufferNum = 4
  Back = 2
  MaxBuffers = 6
  MaxCommands = 0
  TimeOuts = TRUE
  Started = {"recv", "send", "store", "proc"}
INVARIANTS TypeOK StoresNextBuffer ParsesWholeBuffer
PROPERTIES KeepsStream
CHECK_DEADLOCK FALSE
