SPECIFICATION Spec
CONSTANTS
  w1 = w1
  r1 = r1
  r2 = r2
  r3 = r3
  NoJob = NoJob
  Jobs <- SafetyJobs
  KindOf <- MCKindOf
  Kinds = {"work", "cleanup"}
  Recurring = {"cleanup"}
  Cleanup = "cleanup"
  Loopers = {"loop"}
  Drains = {"drain"}
  MaxAttempts = 3
  DrainLimit = 2
  FaultyKinds = {"work", "cleanup"}
  Overrun <- SafetyOverrun
INVARIANTS
  TypeOK
  ExclusiveClaim
  ExactlyOnce
  NoEndlessRetry
  OverrunsEnd
PROPERTY
  DeliveryPromise
