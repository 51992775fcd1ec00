SPECIFICATION FairSpec
CONSTANTS
  w1 = w1
  r1 = r1
  r2 = r2
  r3 = r3
  NoJob = NoJob
  Jobs <- LiveJobs
  KindOf <- MCKindOf
  Kinds = {"work", "cleanup"}
  Recurring = {"cleanup"}
  Cleanup = "cleanup"
  Loopers = {"loop"}
  Drains = {"drain"}
  MaxAttempts = 2
  DrainLimit = 1
  FaultyKinds = {"work"}
  Overrun = {}
PROPERTIES
  EveryJobSettles
  RecurringKeepsRunning
