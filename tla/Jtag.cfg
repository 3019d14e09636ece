SPECIFICATION FairSpec
CONSTANTS
  Sessions <- MCSessions
  MaxWords = 3
  Width = 2
  RegLength = 3
  Ratio = 2
INVARIANTS TapFollows ProgramRuns Duration
PROPERTIES ProgramEnds
CHECK_DEADLOCK FALSE
