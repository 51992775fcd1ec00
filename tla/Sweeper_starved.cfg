SPECIFICATION SweeperSpec
CONSTANTS
  Files = {1, 2, 3}
  Vendor <- MCUnknown
  BatchSize = 2
  CloseAfter = 2
PROPERTY
  EveryApplicationExamined
CHECK_DEADLOCK FALSE
