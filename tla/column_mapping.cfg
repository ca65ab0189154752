SPECIFICATION Spec
CONSTANTS
  Unset = Unset
  Null = Null
  Index <- MCIndex
  Sheets <- MCSheets
  Subscribers <- MCSubscribers
INVARIANTS OneKeyPerNumber MappedColumnArrives BlankCellTakesNothing
CHECK_DEADLOCK FALSE
