SPECIFICATION FairSpec
CONSTANTS
  CLK_RESET_DELAY_CNT = 9
  GBL_RESET_DELAY_CNT = 3
  CNT_RANGE_HIGH = 15
  MaxEvents = 4
INVARIANTS TypeOK
PROPERTIES FullSequence Settles
CHECK_DEADLOCK FALSE
