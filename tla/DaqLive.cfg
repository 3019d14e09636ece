SPECIFICATION FairSpec
CONSTANTS
  BufferNum = 2
  Back = 1
  MaxBuffers = 3
  MaxCommands = 1
  TimeOuts = TRUE
  Started <- RequestProcesses
INVARIANTS RequestUnderWay
PROPERTIES DataFlows ShutdownCompletes
CHECK_DEADLOCK FALSE
