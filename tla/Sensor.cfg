SPECIFICATION Spec
CONSTANTS
  Setups <- MCSetups
  MaxStarts = 2
INVARIANTS FlagsRight WholeFrames Recovered RowsMarked CountersTell StrobesKept
PROPERTIES TagsEarned
CHECK_DEADLOCK FALSE
