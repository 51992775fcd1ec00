SPECIFICATION FairSpec
CONSTANTS
  w1 = w1
  r1 = r1
  r2 = r2
  r3 = r3
  NoJob = NoJob
  Jobs <- SafetyJobs
  KindOf <- MCKindOf
  Kinds = {"work", "cleanup"}
  Recurring = {"cleanup"}
  Cleanup = "cleanup"
  Loopers = {}
  Drains = {"drain"}
  MaxAttempts = 2
  DrainLimit = 1
  FaultyKinds = {"work", "cleanup"}
  Overrun = {}
PROPERTY
  AbandonedJobRescued
