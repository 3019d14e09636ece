SPECIFICATION FairSpec
CONSTANTS
  Programs <- MCPrograms
INVARIANTS NeverBackwards
PROPERTIES LockGivenBack DataFlows ShutdownCompletes
CHECK_DEADLOCK FALSE
