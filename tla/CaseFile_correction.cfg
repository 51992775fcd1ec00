SPECIFICATION Spec
CONSTANTS
  None = None
  Sessions = {"s1"}
  Results = {"Approved", "Declined"}
  MaxResults = 2
  Runs = {r1}
  MaxAttempts = 1
  CloseAfter = 2
  Timestamped = TRUE
  MaxList = 1
  MaxRuleset = 1
  Findings <- MCFindings
  Finding <- MCFinding
  Profile <- MCProfile
  Hits <- MCHits
  Found <- MCFound
  Score <- MCScore
  Routing <- MCRouting
PROPERTY
  CorrectionIsWritten
CHECK_DEADLOCK FALSE
