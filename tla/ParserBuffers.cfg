SPECIFICATION Spec
CONSTANTS
  RowNum = 3
  ColumnNum = 6
  FrameAdd = 2
  Programs <- MCPrograms
PROPERTIES ParsesFrames ShowsWholeFrames
CHECK_DEADLOCK FALSE
