\* The pack is applied between a death and the retry.
SPECIFICATION Spec
CONSTANTS
  Procs = {o1}
  Jobs = {1}
  Packs = {m1, m2}
  Secrets = {k1}
  NoFile = NoFile  NoLease = NoLease  NoJob = NoJob  NoPack = NoPack  NoRow = NoRow  NoSecret = NoSecret
  LeaseTime = 1
  Histories <- MCApplied
INVARIANTS
  OneMutationPerLease
CHECK_DEADLOCK FALSE
