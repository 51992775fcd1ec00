SPECIFICATION Spec
CONSTANTS
  None = None
  Requests = {r1, r2}
  MaxApps = 1
  MaxSessions = 2
  MaxEvents = 1
  MaxResults = 1
  MaxSize = 2
  Today <- MCToday
  Dates <- MCDates
  Batches <- MCBatches
  Messages <- MCMessages
INVARIANTS
  TypeOK
  TakenOnce
  OnlySoundIsStored
  LentOnlyToTransactions
  NewsIsOnRecord
  TrailTellsAll
  AdultsOnly
  EveryCallIsAnswered
CHECK_DEADLOCK FALSE
SYMMETRY RequestSymmetry
