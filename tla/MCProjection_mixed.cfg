\* Three kinds of history: commands in order, composes that overlap with writes,
\* and subject commands that overlap.
SPECIFICATION Spec
CONSTANTS
  x = x  y = y  l1 = l1  l2 = l2  n1 = n1  n2 = n2
  Admins = {a1, a2}
  Composers = {c1, c2}
  Ids = {x, y}
  Locations = {l1, l2}
  Nodes = {n1, n2}
  NoId = NoId  NoSubject = NoSubject  NoHead = NoHead  NoFile = NoFile  NoData = NoData  New = New
  FileRefs <- MCFileRefs
  FirstCommits <- MCFirstCommits
  FirstTree <- MCFirstTree
  SafePaths = {1, 2}
  IndexLimit = 1
  MaxCommits = 2
  MaxRev = 3
  Histories <- MCHistories
SYMMETRY Processes
INVARIANTS
  TypeOK
  PackNamesItsRevision
  DoctorFindsStaleness
  ComposeHeals
  PackIsClosed
  HeadBelongsToLocation
CHECK_DEADLOCK FALSE
