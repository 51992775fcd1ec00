SPECIFICATION FairSpec
CONSTANTS
  None = None
  Sessions = {"s1"}
  Results = {"In Review", "Declined"}
  MaxResults = 2
  Runs = {r1}
  MaxAttempts = 1
  CloseAfter = 2
  Timestamped = TRUE
  MaxList = 1
  MaxRuleset = 1
  Findings <- MCFindings
  Finding <- MCFinding
  Profile <- MCProfile
  Hits <- MCHits
  Found <- MCFound
  Score <- MCScore
  Routing <- MCRouting
PROPERTY
  EveryCaseIsHandled
CHECK_DEADLOCK FALSE
