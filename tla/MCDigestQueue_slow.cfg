\* Two processes, one slower than its lease; nobody dies.
SPECIFICATION Spec
CONSTANTS
  s1 = s1
  Procs = {r1, r2}
  Runners = {r1, r2}
  Jobs = {1}
  Sources = {s1}
  SourceOf <- MCSourceOf
  Digests = {d1}
  NoFile = NoFile  NoLease = NoLease  NoJob = NoJob  NoSource = NoSource  NoDigest = NoDigest
  MaxJobs = 1
  MaxAttempts = 2
  LeaseTime = 1
  MaxClock = 1
  MaxRev = 0
  MaxCrashes = 0
  MaxRequeues = 0
PROPERTIES
  OnlyExplicitRequeue
CHECK_DEADLOCK FALSE
