\* Two apply processes at once, on different packs or the same one.
SPECIFICATION Spec
CONSTANTS
  p1 = p1  p2 = p2  p3 = p3  p4 = p4  p5 = p5  p6 = p6
  n1 = n1  n2 = n2  n3 = n3  c1 = c1  c2 = c2  e1 = e1  g1 = g1
  src = src  dg = dg
  Ids = {n1, c1, c2}
  Refs = {src, dg}
  Changes <- MCChanges
  Evidence <- MCEvidence
  NoFile = NoFile  CutFile = CutFile  NoPack = NoPack  NoEvent = NoEvent  NoRev = NoRev
  Packs = {p1, p4}
  FlaggedHuman = {}
  Workers = {w1, w2}
  EventIds = {v1, v2, v3}
  MaxRev = 0
  MaxCrashes = 0
INVARIANTS
  AppliedRecordsKept
CHECK_DEADLOCK FALSE
