\* One runner of the queue, which may die.
SPECIFICATION Spec
CONSTANTS
  s1 = s1
  Procs = {r1}
  Runners = {r1}
  Jobs = {1, 2}
  Sources = {s1}
  SourceOf <- MCSourceOf
  Digests = {d1}
  NoFile = NoFile  NoLease = NoLease  NoJob = NoJob  NoSource = NoSource  NoDigest = NoDigest
  MaxJobs = 2
  MaxAttempts = 2
  LeaseTime = 1
  MaxClock = 2
  MaxRev = 1
  MaxCrashes = 2
  MaxRequeues = 1
INVARIANTS
  TypeOK
  AttemptsBounded
PROPERTIES
  OnlyExplicitRequeue
  ImplementsJobLifecycle
CHECK_DEADLOCK FALSE
