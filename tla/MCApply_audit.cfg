\* Two apply processes at once, on different packs or the same one, of which
\* one may die.
SPECIFICATION Spec
CONSTANTS
  p1 = p1  p2 = p2  p3 = p3  p4 = p4  p5 = p5  p6 = p6
  n1 = n1  n2 = n2  n3 = n3  c1 = c1  c2 = c2  e1 = e1  g1 = g1
  src = src  dg = dg
  Ids = {c2, g1}
  Refs = {}
  Changes <- MCChanges
  Evidence <- MCEvidence
  NoFile = NoFile  CutFile = CutFile  NoPack = NoPack  NoEvent = NoEvent  NoRev = NoRev
  Packs = {p4, p5}
  FlaggedHuman = {}
  Workers = {w1, w2}
  EventIds = {v1, v2}
  MaxRev = 0
  MaxCrashes = 1
SYMMETRY Interchangeable
INVARIANTS
  AuditNamesApplied
CHECK_DEADLOCK FALSE
