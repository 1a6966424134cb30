\* An approved contradiction of a visible node and the pressure put to builders.
SPECIFICATION Spec
CONSTANTS
  s1 = s1
  Sources = {s1}
  New = New  NoId = NoId  NoFile = NoFile  NoPart = NoPart
  NoRequest = NoRequest  NoDigest = NoDigest
  Digests <- MCDigests
  Summaries <- MCSummaries
  Builders = {b1, b2}
  RowLimit = 3
  GapLimit = 1
  HeadLimit = 1
  MaxPack = 3
  Histories <- MCHistories
INVARIANT
  ContradictionPressureShown
SYMMETRY Symmetry
CHECK_DEADLOCK FALSE
