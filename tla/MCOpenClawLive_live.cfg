\* One process at a time, which may die and try again; an operation of the try
\* block may fail; packs are applied meanwhile.
SPECIFICATION RetrySpec
CONSTANTS
  Procs = {o1}
  Jobs = {1, 2}
  Packs = {m1, m2}
  Secrets = {k1, k2}
  NoFile = NoFile  NoLease = NoLease  NoJob = NoJob  NoPack = NoPack  NoRow = NoRow  NoSecret = NoSecret
  LeaseTime = 1
  Histories <- MCHistories
INVARIANTS
  TypeOK
  RetryKeepsProposal
  DoneNamesMutation
  IndexKnowsEveryJob
PROPERTIES
  ConsumedIsFinal
  ImplementsJobLifecycle
  WritebackResumes
CHECK_DEADLOCK FALSE
