SPECIFICATION Spec
CONSTANTS
  None = None
  Sessions = {"s1"}
  Results = {"Approved", "Declined"}
  MaxResults = 1
  Runs = {r1, r2}
  MaxAttempts = 2
  CloseAfter = 1
  Timestamped = TRUE
  MaxList = 3
  MaxRuleset = 2
  Findings <- MCFindings
  Finding <- MCFinding
  Profile <- MCProfile
  Hits <- MCHits
  Found <- MCFound
  Score <- MCScore
  Routing <- MCRouting
INVARIANTS
  TypeOK
  DecidedByOneVerdict
  EvidenceFrozen
  NeverStranded
  ReviewFitsScore
  AutomaticVerdictsStand
  DecisionsAreBacked
PROPERTY
  AdjudicationPromise
CHECK_DEADLOCK FALSE
SYMMETRY RunSymmetry
