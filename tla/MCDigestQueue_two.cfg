\* Two processes that a timer starts again and again, on one source: runs and manual
\* commands in any mix; one may die.
SPECIFICATION TimerSpec
CONSTANTS
  s1 = s1
  Procs = {r1, r2}
  Runners = {r1, r2}
  Jobs = {1}
  Sources = {s1}
  SourceOf <- MCSourceOf
  Digests = {d1, d2}
  NoFile = NoFile  NoLease = NoLease  NoJob = NoJob  NoSource = NoSource  NoDigest = NoDigest
  MaxJobs = 1
  MaxAttempts = 2
  LeaseTime = 1
  MaxClock = 1
  MaxRev = 0
  MaxCrashes = 1
  MaxRequeues = 0
INVARIANTS
  OneDigestPerSource
  DoneHasDigest
  LockOnlyLeaksByCrash
PROPERTIES
  JobNeverLost
  EveryJobSettles
  ExpiredLeaseRecovered
CHECK_DEADLOCK FALSE
