SPECIFICATION Spec
CONSTANTS
  Scripts <- MCScripts
  SleepTicks = 28
  Lag = 2
INVARIANTS StreamReadsResults StatusIsOwn
PROPERTIES RunsAsSent
