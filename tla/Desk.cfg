SPECIFICATION Spec

CONSTANTS
  Applications = {1, 2, 3}
  Scenes <- MCScenes
  Moves <- MCMoves
  Findings <- MCFindings
  MaxReviews = 1
  MinForStats = 1
  MaxAttempts = 3
  Window = 3
  None = None
  Files = {1, 2, 3}
  Vendor <- MCVendor
  BatchSize = 2
  CloseAfter = 2

INVARIANTS
  TypeOK
  EveryApplicationCounted
  RecordAgrees
  ReportedReviewsHappened
  FailuresAreLimited
PROPERTIES
  ShownIsDecided
  ToldOnce
  EachCaseKeepsItsPromise
  OldReferralsAreReviewed
  ForsakenAreClosed
CHECK_DEADLOCK FALSE
