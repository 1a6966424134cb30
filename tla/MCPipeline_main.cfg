\* From a source to a builder pack: every kind of request; then one command at
\* a time, or commands that overlap; one of them may die.
SPECIFICATION Spec
CONSTANTS
  s1 = s1
  Sources = {s1}
  New = New  NoId = NoId  NoFile = NoFile  NoPart = NoPart
  NoRequest = NoRequest  NoDigest = NoDigest
  Digests <- MCDigests
  Summaries <- MCSummaries
  Builders = {b1, b2}
  RowLimit = 3
  GapLimit = 1
  HeadLimit = 1
  MaxPack = 3
  Histories <- MCHistories
INVARIANTS
  TypeOK
  OnlyLicensedText
  JobFindsItsText
  DoctorTellsHalfPackets
  ContradictionsAreApproved
  EveryNodeHasItsReader
  PackShowsItsRevision
  FinishedPackPasses

  
SYMMETRY Symmetry
CHECK_DEADLOCK FALSE
