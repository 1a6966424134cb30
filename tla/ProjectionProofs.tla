-------------------------- MODULE ProjectionProofs --------------------------
(***************************************************************************)
(* What is proved of Projection, for any number of processes, nodes, rows, *)
(* subjects and commits: the types, that a head belongs to its location,   *)
(* that packs are closed and, of orderly histories, that a pack says what  *)
(* its revision held, that doctor finds what is stale and that a compose   *)
(* that ends heals what is there.                                          *)
(***************************************************************************)
EXTENDS Projection, TLAPS, FiniteSetTheorems

-----------------------------------------------------------------------------
(* The types, as an invariant that every step keeps *)

Stages == {"idle", "bind", "nodes", "gaps", "refs", "list", "unlink", "page",
           "pack", "markdown", "prompt", "manifest", "done"}
\* The stages of a compose that has not yet bound its subject, not yet read the
\* nodes, the gaps, the file rows; and of one that has not begun to write
Unbound  == {"idle", "bind"}
NoNodes  == Unbound \cup {"nodes"}
NoGaps   == NoNodes \cup {"gaps"}
NoRows   == NoGaps \cup {"refs"}
Indexes  == {s \in SUBSET FileRefs : Cardinality(s) <= IndexLimit}

\* A pack, bound or not
AnyPack == [rev : 0..MaxRev, id : Ids \cup {NoId}, head : Sha \cup {NoHead},
            location : Locations \cup {NoData}, verified : BOOLEAN,
            records : SUBSET Nodes, gaps : SUBSET (Nodes \cup {New}),
            count : Nat, truncated : BOOLEAN]
Locals == [at : Stages, pack : AnyPack, rows : Indexes, todo : SUBSET Nodes]
LocalOK(r) ==
  /\ r.at # "idle" => r.pack.rev # 0
  /\ r.at \notin Unbound => r.pack \in Pack
  /\ r.at \notin NoGaps => r.pack.gaps \ {New} \subseteq r.pack.records

\* A refresh that asks git for the head has read a record
RegistryOK ==
  /\ SubjectsTypeOK
  /\ \A a \in Admins : admin[a].at = "head" => admin[a].row \in Row

Typed ==
  /\ RegistryOK
  /\ tree \in Tree
  /\ log \in Seq(Tree) /\ HeadRev \in 1..MaxRev
  /\ disk \in Disk
  /\ run \in [Composers -> Locals]
  /\ \A p \in Composers : LocalOK(run[p])
  /\ left \in History
  /\ PackIsClosed

\* The index keeps to its limit: rows are told apart by how many safe paths come
\* before theirs, and those of the rows kept are fewer than the limit.
LEMMA RowsFit ==
  ASSUME NEW rs \in SUBSET FileRefs, NEW id, NEW head
  PROVE  /\ ProjectedRows(rs, id, head) \in Indexes
         /\ ProjectedRows(rs, id, head) # NoFile
         /\ Cardinality(ProjectedRows(rs, id, head)) \in Nat
<1> DEFINE safe == SafeRows(rs, id, head)
           rows == ProjectedRows(rs, id, head)
           below(r) == {s \in safe : s.path < r.path}
           f == [r \in rows |-> Cardinality(below(r))]
<1>1. safe \subseteq FileRefs /\ IsFiniteSet(FileRefs) /\ IndexLimit \in Nat
  BY ProjectionAssumption DEF SafeRows
<1>2. rows \subseteq safe /\ IsFiniteSet(safe)
  BY <1>1, FS_Subset DEF ProjectedRows
<1>3. \A r \in rows : Cardinality(below(r)) < IndexLimit
  BY DEF ProjectedRows
<1> HIDE DEF rows, safe
<1>4. \A r \in rows : IsFiniteSet(below(r)) /\ Cardinality(below(r)) \in Nat
  <2> TAKE r \in rows
  <2>1. below(r) \in SUBSET safe
    OBVIOUS
  <2>2. IsFiniteSet(below(r))
    BY <2>1, <1>2, FS_Subset
  <2> QED
    BY <2>2, FS_CardinalityType
<1>5. ASSUME NEW r \in rows, NEW s \in rows, r.path < s.path
      PROVE  Cardinality(below(r)) # Cardinality(below(s))
  <2>1. \A q \in safe : q.path \in Nat
    BY <1>1, ProjectionAssumption
  <2>2. below(r) \in SUBSET below(s)
    BY <1>2, <1>5, <2>1
  <2>3. r \in below(s) /\ r \notin below(r)
    BY <1>2, <1>5, <2>1
  <2>4. Cardinality(below(s)) = Cardinality(below(r)) => below(s) = below(r)
    BY <2>2, <1>4, FS_Subset
  <2> QED
    BY <2>3, <2>4
<1>6. f \in [rows -> 0 .. (IndexLimit - 1)]
  BY <1>1, <1>3, <1>4
<1>7. \A r, s \in rows : f[r] = f[s] => r = s
  <2> SUFFICES ASSUME NEW r \in rows, NEW s \in rows, r # s
               PROVE  Cardinality(below(r)) # Cardinality(below(s))
    OBVIOUS
  <2>1. r.path \in Nat /\ s.path \in Nat /\ r.path # s.path
    BY <1>1, <1>2, ProjectionAssumption
  <2>2. r.path < s.path \/ s.path < r.path
    BY <2>1
  <2> HIDE DEF below
  <2> QED
    BY <2>2, <1>5
<1> HIDE DEF f
<1>8. f \in Injection(rows, 0 .. (IndexLimit - 1))
  BY <1>6, <1>7 DEF Injection, IsInjective
<1>9. /\ IsFiniteSet(0 .. (IndexLimit - 1))
      /\ Cardinality(0 .. (IndexLimit - 1)) = IndexLimit
  BY <1>1, FS_Interval
<1>10. IsFiniteSet(rows) /\ Cardinality(rows) <= IndexLimit
  BY <1>8, <1>9, FS_Injection
<1>11. rows \in SUBSET FileRefs
  BY <1>1, <1>2
<1>12. rows # NoFile
  BY <1>11, NoFileAssumption
<1>13. Cardinality(rows) \in Nat
  BY <1>10, FS_CardinalityType
<1> QED
  BY <1>10, <1>11, <1>12, <1>13 DEF rows, Indexes

LEMMA EmptyFits == {} \in Indexes
  BY FS_EmptySet, ProjectionAssumption DEF Indexes

LEMMA BlankOK ==
  ASSUME NEW r \in 0..MaxRev
  PROVE  Blank(r) \in AnyPack /\ Blank(r).rev = r /\ Blank(r).gaps = {}
  BY DEF Blank, AnyPack

LEMMA RestingOK == Resting \in Locals /\ LocalOK(Resting) /\ Resting.at = "idle"
<1>1. Blank(0) \in AnyPack /\ Blank(0).gaps = {}
  BY BlankOK, ProjectionAssumption
<1> QED
  BY <1>1, EmptyFits DEF Resting, Locals, LocalOK, Stages, Unbound, NoNodes, NoGaps

LEMMA DiskType ==
  Disk = [pages : [Nodes -> 0..MaxRev], index : Indexes \cup {NoFile},
          pack : Pack \cup {NoFile}, markdown : Pack \cup {NoFile}, prompt : Pack \cup {NoFile},
          manifest : Manifest \cup {NoFile}]
  BY DEF Disk, Indexes

LEMMA TypedInit == Init => Typed
<1> SUFFICES ASSUME Init PROVE Typed
  OBVIOUS
<1>1. FirstTree \in Tree /\ tree = FirstTree
  <2>1. FirstTree \in Tree
    BY ProjectionAssumption
  <2> QED
    BY <2>1 DEF Init, tree, Tree
<1>2. RegistryOK
  <2>1. Idle \in AdminLocals /\ Idle.at = "idle"
    BY DEF Idle, AdminLocals, NoRegistry, Registry
  <2>2. subjects \in Registry
    BY <1>1 DEF Init, Tree
  <2>3. commits \in [Locations -> 0..MaxCommits]
    BY ProjectionAssumption DEF Init
  <2> QED
    BY <2>1, <2>2, <2>3 DEF Init, RegistryOK, SubjectsTypeOK
<1>3. log \in Seq(Tree) /\ HeadRev \in 1..MaxRev
  BY <1>1, ProjectionAssumption DEF Init, HeadRev
<1>4. disk \in Disk
  <2>1. NoProjection.pages \in [Nodes -> 0..MaxRev]
    BY ProjectionAssumption DEF NoProjection
  <2> QED
    BY <2>1, DiskType DEF Init, NoProjection
<1>5. left \in History
  BY ProjectionAssumption DEF Init
<1>6. PackIsClosed
  BY DEF Init, NoProjection, PackIsClosed
<1> QED
  BY <1>1, <1>2, <1>3, <1>4, <1>5, <1>6, RestingOK DEF Init, Typed

-----------------------------------------------------------------------------
(* Every step keeps the types *)

\* A compose p becomes r.  Its stage, pack and rows are read off r.
Become(p, r) == run' = [run EXCEPT ![p] = r]
\* A pack on disk is closed
Closed(k) == k # NoFile => k.gaps \ {New} \subseteq k.records

\* The step of a compose keeps the types if its new locals have theirs and it
\* writes files of the right type, the pack among them closed.
LEMMA ComposeFrame ==
  ASSUME Typed, NEW p \in Composers, NEW r \in Locals, LocalOK(r), Become(p, r),
         UNCHANGED Inputs, disk' \in Disk, Closed(disk'.pack), left' \in History
  PROVE  Typed'
<1>1. RegistryOK'
  BY DEF Typed, Inputs, RegistryOK, SubjectsTypeOK
<1>2. tree' = tree /\ log' = log
  BY DEF Inputs, tree
<1>3. (tree \in Tree)' /\ (log \in Seq(Tree))' /\ (HeadRev \in 1..MaxRev)'
  BY <1>2 DEF Typed, HeadRev
<1>4. run' \in [Composers -> Locals] /\ \A q \in Composers : LocalOK(run[q])'
  <2>1. run' \in [Composers -> Locals]
    BY DEF Typed, Become
  <2>2. ASSUME NEW q \in Composers PROVE LocalOK(run'[q])
    <3>1. run'[q] = IF q = p THEN r ELSE run[q]
      BY DEF Typed, Become
    <3> QED
      BY <3>1 DEF Typed
  <2>3. \A q \in Composers : LocalOK(run[q])'
    BY <2>2 DEF LocalOK
  <2> QED
    BY <2>1, <2>3
<1>5. PackIsClosed'
  BY DEF PackIsClosed, Closed
<1> QED
  BY <1>1, <1>3, <1>4, <1>5 DEF Typed

\* The locals a stage change alone gives
LEMMA StageOK ==
  ASSUME NEW r \in Locals, LocalOK(r), NEW l \in Stages \ {"idle"}, r.at # "idle",
         r.at \in Unbound => l \in Unbound, r.at \in NoGaps => l \in NoGaps
  PROVE  [r EXCEPT !.at = l] \in Locals /\ LocalOK([r EXCEPT !.at = l])
<1>1. [r EXCEPT !.at = l] \in Locals
  BY DEF Locals
<1> QED
  BY <1>1 DEF LocalOK, Locals

LEMMA BeginKeeps ==
  ASSUME left \in History, NEW k \in {"compose", "subject", "edit", "commit", "move", "crash"},
         left[k] > 0, left' = [left EXCEPT ![k] = @ - 1]
  PROVE  left' \in History /\ left'.orderly = left.orderly
<1>1. left[k] \in Nat /\ left[k] - 1 \in Nat
  BY DEF History
<1> QED
  BY <1>1 DEF History

\* What the steps of a compose make of its locals
Started(q, v) == [q EXCEPT !.at = "bind", !.pack = Blank(v)]
Bound(q, i, v) == [q EXCEPT !.at = "nodes",
  !.pack = [q.pack EXCEPT !.id = i, !.head = subjects[i].head,
                          !.location = subjects[i].location, !.verified = v]]
WithNodes(q) == [q EXCEPT !.at = "gaps", !.pack = [q.pack EXCEPT !.records = Shown(nodes)]]
WithGaps(q) == [q EXCEPT !.at = "refs",
  !.pack = [q.pack EXCEPT !.gaps = ProjectedGaps(gaps, q.pack.records)]]
WithRows(q) == LET rows == ProjectedRows(refs, q.pack.id, q.pack.head) IN
  [q EXCEPT !.at = "list", !.rows = rows,
            !.pack = [q.pack EXCEPT !.count = Cardinality(rows),
                                    !.truncated = Truncated(refs, q.pack.id, q.pack.head)]]

LEMMA StartedOK ==
  ASSUME NEW q \in Locals, NEW v \in 1..MaxRev
  PROVE  Started(q, v) \in Locals /\ LocalOK(Started(q, v))
<1>1. v \in 0..MaxRev /\ v # 0
  BY ProjectionAssumption
<1>2. Blank(v) \in AnyPack /\ Blank(v).rev = v /\ Blank(v).gaps = {}
  BY <1>1, BlankOK
<1> DEFINE r == Started(q, v)
<1>3. r.at = "bind" /\ r.pack = Blank(v) /\ r.rows = q.rows /\ r.todo = q.todo
  BY DEF Started, Locals
<1>4. r \in Locals
  BY <1>2 DEF Started, Locals, Stages
<1> HIDE DEF r
<1>5. LocalOK(r)
  BY <1>1, <1>2, <1>3 DEF LocalOK, Unbound, NoNodes, NoGaps
<1> QED
  BY <1>4, <1>5 DEF r

LEMMA BoundOK ==
  ASSUME Typed, NEW q \in Locals, LocalOK(q), q.at = "bind", NEW i \in Ids, NEW v \in BOOLEAN,
         subjects[i] # NoSubject, subjects[i].head # NoHead
  PROVE  /\ Bound(q, i, v) \in Locals /\ LocalOK(Bound(q, i, v))
         /\ Bound(q, i, v).pack \in Pack
<1> DEFINE k == [q.pack EXCEPT !.id = i, !.head = subjects[i].head,
                               !.location = subjects[i].location, !.verified = v]
           r == Bound(q, i, v)
<1>1. subjects[i] \in Row /\ subjects[i].head \in Sha /\ subjects[i].location \in Locations
  BY DEF Typed, RegistryOK, SubjectsTypeOK, Registry, Row
<1>2. q.pack \in AnyPack /\ q.pack.rev # 0
  BY DEF Locals, LocalOK
<1>3. q.pack.rev \in 1..MaxRev
  BY <1>2, ProjectionAssumption DEF AnyPack
<1>4. k \in Pack /\ k \in AnyPack /\ k.rev # 0
  BY <1>1, <1>2, <1>3 DEF AnyPack, Pack
<1>5. r.at = "nodes" /\ r.pack = k /\ r.rows = q.rows /\ r.todo = q.todo
  BY DEF Bound, Locals
<1> HIDE DEF k
<1>6. r \in Locals
  BY <1>4 DEF Bound, Locals, Stages, k
<1> HIDE DEF r
<1>7. LocalOK(r)
  BY <1>4, <1>5 DEF LocalOK, Unbound, NoNodes, NoGaps
<1> QED
  BY <1>4, <1>5, <1>6, <1>7 DEF r

LEMMA WithNodesOK ==
  ASSUME NEW q \in Locals, LocalOK(q), q.at = "nodes"
  PROVE  /\ WithNodes(q) \in Locals /\ LocalOK(WithNodes(q))
<1> DEFINE k == [q.pack EXCEPT !.records = Shown(nodes)]
           r == WithNodes(q)
<1>1. q.pack \in AnyPack /\ q.pack \in Pack /\ q.pack.rev # 0
  BY DEF Locals, LocalOK, Unbound
<1>2. Shown(nodes) \in SUBSET Nodes
  BY DEF Shown
<1>3. k \in Pack /\ k \in AnyPack /\ k.rev # 0
  BY <1>1, <1>2 DEF AnyPack, Pack
<1>4. r.at = "gaps" /\ r.pack = k
  BY DEF WithNodes, Locals
<1> HIDE DEF k
<1>5. r \in Locals
  BY <1>3 DEF WithNodes, Locals, Stages, k
<1> HIDE DEF r
<1>6. LocalOK(r)
  BY <1>3, <1>4 DEF LocalOK, Unbound, NoNodes, NoGaps
<1> QED
  BY <1>5, <1>6 DEF r

LEMMA WithGapsOK ==
  ASSUME NEW q \in Locals, LocalOK(q), q.at = "gaps", gaps \in SUBSET (Nodes \cup {New})
  PROVE  /\ WithGaps(q) \in Locals /\ LocalOK(WithGaps(q))
<1> DEFINE g == ProjectedGaps(gaps, q.pack.records)
           k == [q.pack EXCEPT !.gaps = g]
           r == WithGaps(q)
<1>1. q.pack \in AnyPack /\ q.pack \in Pack /\ q.pack.rev # 0
  BY DEF Locals, LocalOK, Unbound
<1>2. g \in SUBSET (Nodes \cup {New}) /\ g \ {New} \subseteq q.pack.records
  BY DEF ProjectedGaps
<1> HIDE DEF g
<1>3. k \in Pack /\ k \in AnyPack /\ k.rev # 0 /\ k.gaps \ {New} \subseteq k.records
  BY <1>1, <1>2 DEF AnyPack, Pack
<1>4. r.at = "refs" /\ r.pack = k
  BY DEF WithGaps, Locals, g
<1> HIDE DEF k
<1>5. r \in Locals
  BY <1>3 DEF WithGaps, Locals, Stages, k, g
<1> HIDE DEF r
<1>6. LocalOK(r)
  BY <1>3, <1>4 DEF LocalOK, Unbound, NoNodes, NoGaps
<1> QED
  BY <1>5, <1>6 DEF r

LEMMA WithRowsOK ==
  ASSUME NEW q \in Locals, LocalOK(q), q.at = "refs", refs \in SUBSET FileRefs
  PROVE  /\ WithRows(q) \in Locals /\ LocalOK(WithRows(q))
<1> DEFINE rows == ProjectedRows(refs, q.pack.id, q.pack.head)
           t == Truncated(refs, q.pack.id, q.pack.head)
           k == [q.pack EXCEPT !.count = Cardinality(rows), !.truncated = t]
           r == WithRows(q)
<1>1. /\ q.pack \in AnyPack /\ q.pack \in Pack /\ q.pack.rev # 0
      /\ q.pack.gaps \ {New} \subseteq q.pack.records
  BY DEF Locals, LocalOK, Unbound, NoNodes, NoGaps
<1>2. rows \in Indexes /\ Cardinality(rows) \in Nat /\ t \in BOOLEAN
  BY RowsFit DEF Truncated
<1> HIDE DEF rows, t
<1>3. k \in Pack /\ k \in AnyPack /\ k.rev # 0 /\ k.gaps \ {New} \subseteq k.records
  BY <1>1, <1>2 DEF AnyPack, Pack
<1>4. r.at = "list" /\ r.pack = k
  BY DEF WithRows, Locals, rows, t
<1> HIDE DEF k
<1>5. r \in Locals
  BY <1>2, <1>3 DEF WithRows, Locals, Stages, k, rows, t
<1> HIDE DEF r
<1>6. LocalOK(r)
  BY <1>3, <1>4 DEF LocalOK, Unbound, NoNodes, NoGaps
<1> QED
  BY <1>5, <1>6 DEF r

\* The actions in those terms
LEMMA KeepEffect ==
  ASSUME Typed, NEW p \in Composers, NEW l, NEW k, Keep(p, l, k)
  PROVE  Become(p, [run[p] EXCEPT !.at = l, !.pack = k])
  BY DEF Typed, Keep, Become, Locals

LEMMA GotoEffect ==
  ASSUME Typed, NEW p \in Composers, NEW l, Goto(p, l)
  PROVE  Become(p, [run[p] EXCEPT !.at = l])
  BY DEF Typed, Goto, Become, Locals

LEMMA ReadEffects ==
  ASSUME Typed, NEW p \in Composers
  PROVE  /\ \A v, f : Start(p, v, f) => Become(p, Started(run[p], v))
         /\ \A i, v : Bind(p, i, v) => Become(p, Bound(run[p], i, v))
         /\ ReadNodes(p) => Become(p, WithNodes(run[p]))
         /\ ReadGaps(p) => Become(p, WithGaps(run[p]))
         /\ ReadRefs(p) => Become(p, WithRows(run[p]))
<1>1. ASSUME NEW v, NEW f, Start(p, v, f) PROVE Become(p, Started(run[p], v))
  BY <1>1, KeepEffect DEF Start, Started
<1>2. ASSUME NEW i, NEW v, Bind(p, i, v) PROVE Become(p, Bound(run[p], i, v))
  BY <1>2, KeepEffect DEF Bind, Bound
<1>3. ASSUME ReadNodes(p) PROVE Become(p, WithNodes(run[p]))
  BY <1>3, KeepEffect DEF ReadNodes, WithNodes
<1>4. ASSUME ReadGaps(p) PROVE Become(p, WithGaps(run[p]))
  BY <1>4, KeepEffect DEF ReadGaps, WithGaps
<1>5. ASSUME ReadRefs(p) PROVE Become(p, WithRows(run[p]))
  <2> DEFINE q == run[p]
             rows == ProjectedRows(refs, q.pack.id, q.pack.head)
             k == [q.pack EXCEPT !.count = Cardinality(rows),
                                 !.truncated = Truncated(refs, q.pack.id, q.pack.head)]
  <2>1. run' = [run EXCEPT ![p].at = "list", ![p].rows = rows, ![p].pack = k]
    BY <1>5 DEF ReadRefs
  <2>2. WithRows(q) = [q EXCEPT !.at = "list", !.rows = rows, !.pack = k]
    BY DEF WithRows
  <2> HIDE DEF k, rows
  <2>3. run' = [run EXCEPT ![p] = [q EXCEPT !.at = "list", !.rows = rows, !.pack = k]]
    BY <2>1 DEF Typed, Locals
  <2> HIDE DEF q
  <2> QED
    BY <2>2, <2>3 DEF Become, q
<1> QED
  BY <1>1, <1>2, <1>3, <1>4, <1>5

\* A compose reads
LEMMA ReadTyped ==
  ASSUME Typed, NEW p \in Composers,
         \/ \E v \in 1..HeadRev, f \in BOOLEAN : Start(p, v, f)
         \/ \E i \in Ids, v \in BOOLEAN : Bind(p, i, v)
         \/ ReadNodes(p) \/ ReadGaps(p) \/ ReadRefs(p)
  PROVE  Typed'
<1>1. run[p] \in Locals /\ LocalOK(run[p]) /\ disk \in Disk /\ Closed(disk.pack) /\ left \in History
  BY DEF Typed, PackIsClosed, Closed
<1>2. gaps \in SUBSET (Nodes \cup {New}) /\ refs \in SUBSET FileRefs
  BY DEF Typed, tree, Tree
<1>3. CASE \E v \in 1..HeadRev, f \in BOOLEAN : Start(p, v, f)
  <2>1. PICK v \in 1..HeadRev, f \in BOOLEAN : Start(p, v, f)
    BY <1>3
  <2>2. v \in 1..MaxRev
    BY <2>1, ProjectionAssumption DEF Typed
  <2>3. Started(run[p], v) \in Locals /\ LocalOK(Started(run[p], v))
    BY <1>1, <2>2, StartedOK
  <2>4. left' \in History
    BY <1>1, <2>1, BeginKeeps DEF Start, Begin
  <2>5. Become(p, Started(run[p], v)) /\ UNCHANGED <<Inputs, disk>>
    BY <2>1, ReadEffects DEF Start
  <2> QED
    BY <1>1, <2>3, <2>4, <2>5, ComposeFrame
<1>4. CASE \E i \in Ids, v \in BOOLEAN : Bind(p, i, v)
  <2>1. PICK i \in Ids, v \in BOOLEAN : Bind(p, i, v)
    BY <1>4
  <2>2. Bound(run[p], i, v) \in Locals /\ LocalOK(Bound(run[p], i, v))
    BY <1>1, <2>1, BoundOK DEF Bind
  <2>3. Become(p, Bound(run[p], i, v)) /\ UNCHANGED <<Inputs, disk, left>>
    BY <2>1, ReadEffects DEF Bind
  <2> QED
    BY <1>1, <2>2, <2>3, ComposeFrame
<1>5. CASE ReadNodes(p)
  <2>1. Become(p, WithNodes(run[p])) /\ UNCHANGED <<Inputs, disk, left>>
    BY <1>5, ReadEffects DEF ReadNodes
  <2>2. WithNodes(run[p]) \in Locals /\ LocalOK(WithNodes(run[p]))
    BY <1>1, <1>5, WithNodesOK DEF ReadNodes
  <2> QED
    BY <1>1, <2>1, <2>2, ComposeFrame
<1>6. CASE ReadGaps(p)
  <2>1. Become(p, WithGaps(run[p])) /\ UNCHANGED <<Inputs, disk, left>>
    BY <1>6, ReadEffects DEF ReadGaps
  <2>2. WithGaps(run[p]) \in Locals /\ LocalOK(WithGaps(run[p]))
    BY <1>1, <1>2, <1>6, WithGapsOK DEF ReadGaps
  <2> QED
    BY <1>1, <2>1, <2>2, ComposeFrame
<1>7. CASE ReadRefs(p)
  <2>1. Become(p, WithRows(run[p])) /\ UNCHANGED <<Inputs, disk, left>>
    BY <1>7, ReadEffects DEF ReadRefs
  <2>2. WithRows(run[p]) \in Locals /\ LocalOK(WithRows(run[p]))
    BY <1>1, <1>2, <1>7, WithRowsOK DEF ReadRefs
  <2> QED
    BY <1>1, <2>1, <2>2, ComposeFrame
<1> QED
  BY <1>3, <1>4, <1>5, <1>6, <1>7

\* What the writing steps make of the locals q and the disk d
Listed(q, d) == [q EXCEPT !.at = "unlink", !.todo = {n \in Nodes : d.pages[n] # 0}]
Taken(q, n) == [q EXCEPT !.todo = @ \ {n}]
Paging(q) == [q EXCEPT !.at = "page", !.todo = q.pack.records]
At(q, l) == [q EXCEPT !.at = l]
Page(d, n, v) == [d EXCEPT !.pages[n] = v]

LEMMA WriteEffects ==
  ASSUME Typed, NEW p \in Composers
  PROVE  /\ ListPages(p) => Become(p, Listed(run[p], disk))
         /\ \A n : UnlinkPage(p, n) => /\ \/ n \in PagesOnDisk /\ Become(p, Taken(run[p], n))
                                          \/ n \notin PagesOnDisk /\ Become(p, Resting)
                                       /\ disk' = Page(disk, n, 0)
         /\ EndUnlink(p) => Become(p, Paging(run[p]))
         /\ \A n : WritePage(p, n) => /\ Become(p, Taken(run[p], n))
                                      /\ disk' = Page(disk, n, run[p].pack.rev)
<1>1. ListPages(p) => Become(p, Listed(run[p], disk))
  BY DEF ListPages, Become, Listed, PagesOnDisk, Typed, Locals
<1>2. ASSUME NEW n, UnlinkPage(p, n)
      PROVE  /\ \/ n \in PagesOnDisk /\ Become(p, Taken(run[p], n))
                \/ n \notin PagesOnDisk /\ Become(p, Resting)
             /\ disk' = Page(disk, n, 0)
  <2>1. disk' = Page(disk, n, 0)
    BY <1>2 DEF UnlinkPage, Page
  <2>2. CASE n \in PagesOnDisk
    BY <1>2, <2>1, <2>2 DEF UnlinkPage, Become, Taken, Typed, Locals
  <2>3. CASE n \notin PagesOnDisk
    BY <1>2, <2>1, <2>3 DEF UnlinkPage, Become, Return
  <2> QED
    BY <2>2, <2>3
<1>3. EndUnlink(p) => Become(p, Paging(run[p]))
  BY DEF EndUnlink, Become, Paging, Typed, Locals
<1>4. ASSUME NEW n, WritePage(p, n)
      PROVE  Become(p, Taken(run[p], n)) /\ disk' = Page(disk, n, run[p].pack.rev)
  BY <1>4 DEF WritePage, Become, Taken, Page, Typed, Locals
<1> QED
  BY <1>1, <1>2, <1>3, <1>4

LEMMA TodoOK ==
  ASSUME NEW q \in Locals, LocalOK(q), NEW t \in SUBSET Nodes, NEW l \in Stages \ {"idle"},
         q.at \notin NoGaps
  PROVE  /\ [q EXCEPT !.at = l, !.todo = t] \in Locals
         /\ LocalOK([q EXCEPT !.at = l, !.todo = t])
<1> DEFINE r == [q EXCEPT !.at = l, !.todo = t]
<1>1. r \in Locals
  BY DEF Locals
<1>2. r.at = l /\ r.pack = q.pack
  BY DEF Locals
<1>3. q.pack.rev # 0 /\ q.pack \in Pack /\ q.pack.gaps \ {New} \subseteq q.pack.records
  BY DEF LocalOK, Unbound, NoNodes, NoGaps
<1> HIDE DEF r
<1>4. LocalOK(r)
  BY <1>2, <1>3 DEF LocalOK
<1> QED
  BY <1>1, <1>4 DEF r

LEMMA PageOK ==
  ASSUME NEW d \in Disk, NEW n, NEW v \in 0..MaxRev
  PROVE  /\ Page(d, n, v) \in Disk
         /\ \A m \in Nodes : Page(d, n, v).pages[m] = IF m = n THEN v ELSE d.pages[m]
         /\ Page(d, n, v) = [d EXCEPT !.pages = Page(d, n, v).pages]
<1> DEFINE g == [d.pages EXCEPT ![n] = v]
<1>1. d.pages \in [Nodes -> 0..MaxRev] /\ d \in Disk
  BY DiskType
<1>2. g \in [Nodes -> 0..MaxRev] /\ \A m \in Nodes : g[m] = IF m = n THEN v ELSE d.pages[m]
  BY <1>1
<1>3. Page(d, n, v) = [d EXCEPT !.pages = g]
  BY <1>1 DEF Page
<1> HIDE DEF g
<1>4. [d EXCEPT !.pages = g] \in Disk /\ [d EXCEPT !.pages = g].pages = g
  BY <1>1, <1>2, DiskType
<1> QED
  BY <1>2, <1>3, <1>4

\* The files that are written whole
Files(d, q) ==
  {[d EXCEPT !.index = q.rows], [d EXCEPT !.pack = q.pack], [d EXCEPT !.markdown = q.pack],
   [d EXCEPT !.prompt = q.pack], [d EXCEPT !.manifest = ManifestOf(q.pack)]}

LEMMA FilesOK ==
  ASSUME NEW d \in Disk, NEW q \in Locals, LocalOK(q), q.at \notin NoGaps, Closed(d.pack),
         NEW e \in Files(d, q)
  PROVE  e \in Disk /\ Closed(e.pack)
<1>1. q.pack \in Pack /\ q.rows \in Indexes /\ q.pack.gaps \ {New} \subseteq q.pack.records
  BY DEF LocalOK, Unbound, NoNodes, NoGaps, Locals
<1>2. ManifestOf(q.pack) \in Manifest
  BY <1>1 DEF ManifestOf, Manifest, Pack
<1>3. e \in Disk
  BY <1>1, <1>2, DiskType DEF Files
<1>4. e.pack \in {d.pack, q.pack}
  BY DiskType DEF Files
<1> QED
  BY <1>1, <1>3, <1>4 DEF Closed

\* A compose p goes on to stage l and writes a file
Wrote(p, l) == Become(p, At(run[p], l)) /\ disk' \in Files(disk, run[p])
LEMMA FileEffects ==
  ASSUME Typed, NEW p \in Composers
  PROVE  /\ WriteIndex(p) => Wrote(p, "pack") /\ disk' = [disk EXCEPT !.index = run[p].rows]
         /\ WritePack(p) => Wrote(p, "markdown") /\ disk' = [disk EXCEPT !.pack = run[p].pack]
         /\ WriteMarkdown(p) => Wrote(p, "prompt") /\ disk' = [disk EXCEPT !.markdown = run[p].pack]
         /\ WritePrompt(p) => Wrote(p, "manifest") /\ disk' = [disk EXCEPT !.prompt = run[p].pack]
         /\ WriteManifest(p) => /\ Wrote(p, "done")
                                /\ disk' = [disk EXCEPT !.manifest = ManifestOf(run[p].pack)]
<1>1. WriteIndex(p) => Wrote(p, "pack") /\ disk' = [disk EXCEPT !.index = run[p].rows]
  BY GotoEffect DEF WriteIndex, Wrote, At, Files
<1>2. WritePack(p) => Wrote(p, "markdown") /\ disk' = [disk EXCEPT !.pack = run[p].pack]
  BY GotoEffect DEF WritePack, Wrote, At, Files
<1>3. WriteMarkdown(p) => Wrote(p, "prompt") /\ disk' = [disk EXCEPT !.markdown = run[p].pack]
  BY GotoEffect DEF WriteMarkdown, Wrote, At, Files
<1>4. WritePrompt(p) => Wrote(p, "manifest") /\ disk' = [disk EXCEPT !.prompt = run[p].pack]
  BY GotoEffect DEF WritePrompt, Wrote, At, Files
<1>5. WriteManifest(p) => /\ Wrote(p, "done")
                          /\ disk' = [disk EXCEPT !.manifest = ManifestOf(run[p].pack)]
  BY GotoEffect DEF WriteManifest, Wrote, At, Files
<1> QED
  BY <1>1, <1>2, <1>3, <1>4, <1>5

WritesFile(p) == WriteIndex(p) \/ WritePack(p) \/ WriteMarkdown(p) \/ WritePrompt(p) \/ WriteManifest(p)

LEMMA WriteTyped ==
  ASSUME Typed, NEW p \in Composers,
         \/ Refuse(p) \/ ListPages(p) \/ EndUnlink(p)
         \/ \E n \in Nodes : UnlinkPage(p, n) \/ WritePage(p, n)
         \/ WritesFile(p) \/ Finish(p)
  PROVE  Typed'
<1>1. run[p] \in Locals /\ LocalOK(run[p]) /\ disk \in Disk /\ Closed(disk.pack) /\ left \in History
  BY DEF Typed, PackIsClosed, Closed
<1>2. UNCHANGED <<Inputs, left>>
  BY DEF Refuse, ListPages, EndUnlink, UnlinkPage, WritePage, WritesFile, WriteIndex, WritePack,
         WriteMarkdown, WritePrompt, WriteManifest, Finish
<1>3. CASE Refuse(p) \/ Finish(p)
  <2>1. Become(p, Resting) /\ disk' = disk
    BY <1>3 DEF Refuse, Finish, Return, Become
  <2> QED
    BY <1>1, <1>2, <2>1, RestingOK, ComposeFrame
<1>4. CASE ListPages(p) \/ EndUnlink(p)
  <2>1. run[p].at \notin NoGaps /\ disk' = disk
    BY <1>4 DEF ListPages, EndUnlink, Unbound, NoNodes, NoGaps
  <2>2. run[p].pack.records \in SUBSET Nodes /\ {n \in Nodes : disk.pages[n] # 0} \in SUBSET Nodes
    BY <1>1 DEF Locals, AnyPack
  <2>3. /\ Listed(run[p], disk) \in Locals /\ LocalOK(Listed(run[p], disk))
        /\ Paging(run[p]) \in Locals /\ LocalOK(Paging(run[p]))
    BY <1>1, <2>1, <2>2, TodoOK DEF Listed, Paging, Stages
  <2>4. Become(p, Listed(run[p], disk)) \/ Become(p, Paging(run[p]))
    BY <1>4, WriteEffects
  <2> QED
    BY <1>1, <1>2, <2>1, <2>3, <2>4, ComposeFrame
<1>5. ASSUME NEW n \in Nodes, UnlinkPage(p, n) \/ WritePage(p, n) PROVE Typed'
  <2>1. run[p].at \in {"unlink", "page"} /\ run[p].at \notin NoGaps
    BY <1>5 DEF UnlinkPage, WritePage, Unbound, NoNodes, NoGaps
  <2>2. PICK v \in 0..MaxRev : disk' = Page(disk, n, v)
    <3>1. 0 \in 0..MaxRev /\ run[p].pack.rev \in 0..MaxRev
      BY <1>1, ProjectionAssumption DEF Locals, AnyPack
    <3> QED
      BY <1>5, <3>1, WriteEffects
  <2>3. disk' \in Disk /\ Page(disk, n, v) = [disk EXCEPT !.pages = Page(disk, n, v).pages]
    BY <1>1, <2>2, PageOK
  <2>4. disk'.pack = disk.pack
    BY <1>1, <2>2, <2>3, DiskType
  <2>5. Taken(run[p], n) \in Locals /\ LocalOK(Taken(run[p], n))
    <3> DEFINE t == run[p].todo \ {n}
    <3>1. t \in SUBSET Nodes /\ run[p].at \in Stages \ {"idle"}
      BY <1>1, <2>1 DEF Locals
    <3>2. PICK l \in Stages \ {"idle"} : l = run[p].at
      BY <3>1
    <3>3. Taken(run[p], n) = [run[p] EXCEPT !.at = l, !.todo = t]
      BY <1>1, <3>2 DEF Taken, Locals
    <3> HIDE DEF t
    <3>4. [run[p] EXCEPT !.at = l, !.todo = t] \in Locals
      BY <1>1, <2>1, <3>1, <3>2, TodoOK
    <3>5. LocalOK([run[p] EXCEPT !.at = l, !.todo = t])
      BY <1>1, <2>1, <3>1, <3>2, TodoOK
    <3> QED
      BY <3>3, <3>4, <3>5
  <2>6. Become(p, Taken(run[p], n)) \/ Become(p, Resting)
    BY <1>5, WriteEffects
  <2> QED
    BY <1>1, <1>2, <2>3, <2>4, <2>5, <2>6, RestingOK, ComposeFrame
<1>6. CASE WritesFile(p)
  <2>1. run[p].at \in {"page", "pack", "markdown", "prompt", "manifest"}
    BY <1>6 DEF WritesFile, WriteIndex, WritePack, WriteMarkdown, WritePrompt, WriteManifest
  <2>2. PICK l \in {"pack", "markdown", "prompt", "manifest", "done"} : Wrote(p, l)
    BY <1>6, FileEffects DEF WritesFile
  <2>3. run[p].at \notin NoGaps /\ run[p].at \notin Unbound /\ run[p].at # "idle"
    BY <2>1 DEF Unbound, NoNodes, NoGaps
  <2>4. At(run[p], l) \in Locals /\ LocalOK(At(run[p], l))
    <3>1. l \in Stages \ {"idle"}
      BY <2>2 DEF Stages
    <3> QED
      BY <1>1, <2>3, <3>1, StageOK DEF At
  <2>5. disk' \in Disk /\ Closed(disk'.pack)
    BY <1>1, <2>2, <2>3, FilesOK DEF Wrote
  <2> QED
    BY <1>1, <1>2, <2>2, <2>4, <2>5, ComposeFrame DEF Wrote
<1> QED
  BY <1>3, <1>4, <1>5, <1>6

\* Everyone else leaves the composes and their files alone
LEMMA OthersFrame ==
  ASSUME Typed, RegistryOK', (tree \in Tree)', log' \in Seq(Tree), Len(log') \in 1..MaxRev,
         UNCHANGED disk, left' \in History, run' = run
  PROVE  Typed'
<1>1. (HeadRev \in 1..MaxRev)'
  BY DEF HeadRev
<1>2. \A p \in Composers : LocalOK(run[p])'
  BY DEF Typed, LocalOK
<1> QED
  BY <1>1, <1>2 DEF Typed, PackIsClosed

LEMMA DyingKeeps ==
  ASSUME left \in History, Dying
  PROVE  left' \in History /\ left'.orderly = left.orderly
  BY DEF History, Dying

LEMMA EditTyped == Typed /\ Edit => Typed'
<1> SUFFICES ASSUME Typed, Edit PROVE Typed'
  OBVIOUS
<1>1. left' \in History
  BY BeginKeeps DEF Edit, Begin, Typed
<1>2. /\ nodes \in [Nodes -> NodeStates] /\ gaps \in SUBSET (Nodes \cup {New})
      /\ refs \in SUBSET FileRefs /\ subjects \in Registry
  BY DEF Typed, tree, Tree
<1>3. nodes' \in [Nodes -> NodeStates] /\ gaps' \in SUBSET (Nodes \cup {New}) /\ refs' \in SUBSET FileRefs
  BY <1>2 DEF Edit
<1>4. (tree \in Tree)'
  BY <1>2, <1>3 DEF Edit, tree, Tree
<1>5. RegistryOK'
  BY DEF Edit, RegistryOK, SubjectsTypeOK, Typed
<1> QED
  BY <1>1, <1>4, <1>5, OthersFrame DEF Edit, Typed, HeadRev

LEMMA CommitTyped == Typed /\ TopologyCommit => Typed'
<1> SUFFICES ASSUME Typed, TopologyCommit PROVE Typed'
  OBVIOUS
<1>1. left' \in History
  BY BeginKeeps DEF TopologyCommit, Begin, Typed
<1>2. log' \in Seq(Tree) /\ Len(log') = Len(log) + 1
  BY DEF TopologyCommit, Typed
<1>3. Len(log') \in 1..MaxRev
  BY <1>2, ProjectionAssumption DEF TopologyCommit, Typed, HeadRev
<1>4. (tree \in Tree)'
  BY DEF TopologyCommit, Typed, tree
<1>5. RegistryOK'
  BY DEF TopologyCommit, Typed, RegistryOK, SubjectsTypeOK
<1> QED
  BY <1>1, <1>2, <1>3, <1>4, <1>5, OthersFrame DEF TopologyCommit

-----------------------------------------------------------------------------
(* Subject commands: types and heads *)

\* The head of a record is a commit of the repository it is in, when each
\* repository has as many as c says
HeadIn(row, c) ==
  row # NoSubject /\ row.head # NoHead =>
    row.head[1] = row.location /\ row.head[2] <= c[row.location]
HeadsIn(reg, c) == \A i \in Ids : HeadIn(reg[i], c)
\* It is so in the registry, in what a command has read of it, and in the
\* record it is about to write.
LocalHeads(r, c) == HeadIn(r.row, c) /\ HeadsIn(r.reg, c)
Heads == HeadsIn(subjects, commits) /\ \A a \in Admins : LocalHeads(admin[a], commits)

AdminOK(r) == r \in AdminLocals /\ (r.at = "head" => r.row \in Row)
AdminBecomes(a, r) == admin' = [admin EXCEPT ![a] = r]

LEMMA AdminFrame ==
  ASSUME RegistryOK, NEW a \in Admins, NEW r, AdminOK(r), AdminBecomes(a, r),
         subjects' \in Registry, UNCHANGED commits
  PROVE  RegistryOK'
<1>1. (SubjectsTypeOK)'
  BY DEF RegistryOK, SubjectsTypeOK, AdminOK, AdminBecomes
<1>2. ASSUME NEW b \in Admins, admin'[b].at = "head" PROVE admin'[b].row \in Row
  <2>1. admin'[b] = IF b = a THEN r ELSE admin[b]
    BY DEF RegistryOK, SubjectsTypeOK, AdminBecomes
  <2> QED
    BY <1>2, <2>1 DEF RegistryOK, AdminOK
<1> QED
  BY <1>1, <1>2 DEF RegistryOK

LEMMA HeadsFrame ==
  ASSUME RegistryOK, Heads, NEW a \in Admins, NEW r, LocalHeads(r, commits), AdminBecomes(a, r),
         HeadsIn(subjects', commits), UNCHANGED commits
  PROVE  Heads'
<1>1. HeadsIn(subjects, commits)'
  BY DEF HeadsIn, HeadIn
<1>2. ASSUME NEW b \in Admins PROVE LocalHeads(admin'[b], commits)
  <2>1. admin'[b] = IF b = a THEN r ELSE admin[b]
    BY DEF RegistryOK, SubjectsTypeOK, AdminBecomes
  <2> QED
    BY <2>1 DEF Heads
<1>3. \A b \in Admins : LocalHeads(admin[b], commits)'
  BY <1>2 DEF LocalHeads, HeadsIn, HeadIn
<1> QED
  BY <1>1, <1>3 DEF Heads

LEMMA IdleOK == AdminOK(Idle) /\ \A c : LocalHeads(Idle, c)
<1>1. AdminOK(Idle)
  BY DEF AdminOK, Idle, AdminLocals, NoRegistry, Registry
<1>2. \A c : LocalHeads(Idle, c)
  BY DEF Idle, NoRegistry, LocalHeads, HeadsIn, HeadIn
<1> QED
  BY <1>1, <1>2

\* What the commands make of their locals
AddLocals(i, l) == [at |-> "add", id |-> i, reg |-> subjects, row |-> [location |-> l, head |-> NoHead]]
RefreshLocals(i) == [Idle EXCEPT !.at = "head", !.id = i, !.row = subjects[i]]
HeadLocals(q, h) == [q EXCEPT !.at = "reread", !.row.head = h]
RereadLocals(q) == [q EXCEPT !.at = "write", !.reg = subjects]

LEMMA AddLocalsOK ==
  ASSUME RegistryOK, NEW i \in Ids, NEW l \in Locations
  PROVE  /\ AdminOK(AddLocals(i, l))
         /\ Heads => LocalHeads(AddLocals(i, l), commits)
<1>1. [location |-> l, head |-> NoHead] \in Row
  BY DEF Row
<1>2. AdminOK(AddLocals(i, l))
  BY <1>1 DEF RegistryOK, SubjectsTypeOK, AdminOK, AddLocals, AdminLocals
<1>3. Heads => LocalHeads(AddLocals(i, l), commits)
  BY DEF Heads, LocalHeads, AddLocals, HeadIn
<1> QED
  BY <1>2, <1>3

LEMMA RefreshLocalsOK ==
  ASSUME RegistryOK, NEW i \in Ids, subjects[i] # NoSubject
  PROVE  /\ AdminOK(RefreshLocals(i))
         /\ Heads => LocalHeads(RefreshLocals(i), commits)
<1>1. subjects[i] \in Row /\ AdminOK(Idle)
  BY IdleOK DEF RegistryOK, SubjectsTypeOK, Registry
<1>2. AdminOK(RefreshLocals(i))
  BY <1>1 DEF AdminOK, RefreshLocals, AdminLocals
<1>3. RefreshLocals(i).row = subjects[i] /\ RefreshLocals(i).reg = Idle.reg
  BY <1>1 DEF RefreshLocals, AdminOK, AdminLocals
<1>4. Heads => LocalHeads(RefreshLocals(i), commits)
  BY <1>3, IdleOK DEF Heads, LocalHeads, HeadsIn
<1> QED
  BY <1>2, <1>4

LEMMA HeadLocalsOK ==
  ASSUME RegistryOK, NEW q, AdminOK(q), q.at = "head", HeadOf(q.row.location) # NoHead
  PROVE  /\ AdminOK(HeadLocals(q, HeadOf(q.row.location)))
         /\ LocalHeads(q, commits) => LocalHeads(HeadLocals(q, HeadOf(q.row.location)), commits)
<1> DEFINE l == q.row.location
           h == <<l, commits[l]>>
           row == [q.row EXCEPT !.head = h]
           r == [q EXCEPT !.at = "reread", !.row = row]
<1>1. q \in AdminLocals /\ q.row \in Row /\ l \in Locations
  BY DEF AdminOK, Row
<1>2. HeadOf(l) = h /\ commits[l] \in 1..MaxCommits
  BY <1>1, SubjectAssumption DEF RegistryOK, SubjectsTypeOK, HeadOf
<1>3. h \in Sha /\ h[1] = l /\ h[2] = commits[l]
  BY <1>1, <1>2 DEF Sha
<1>4. row \in Row /\ row.head = h /\ row.location = l
  BY <1>1, <1>3 DEF Row
<1>5. HeadLocals(q, HeadOf(l)) = r
  BY <1>1, <1>2 DEF HeadLocals, AdminLocals
<1> HIDE DEF row
<1>6. r.row = row /\ r.reg = q.reg /\ r.at = "reread"
  BY <1>1 DEF AdminLocals
<1>7. AdminOK(r)
  BY <1>1, <1>4, <1>6 DEF AdminOK, AdminLocals
<1> HIDE DEF r
<1>8. HeadIn(row, commits)
  BY <1>2, <1>3, <1>4 DEF HeadIn
<1>9. LocalHeads(q, commits) => LocalHeads(r, commits)
  BY <1>6, <1>8 DEF LocalHeads
<1> QED
  BY <1>5, <1>7, <1>9

LEMMA RereadLocalsOK ==
  ASSUME RegistryOK, NEW q, AdminOK(q)
  PROVE  /\ AdminOK(RereadLocals(q))
         /\ Heads /\ LocalHeads(q, commits) => LocalHeads(RereadLocals(q), commits)
<1>1. AdminOK(RereadLocals(q))
  BY DEF AdminOK, RereadLocals, AdminLocals, RegistryOK, SubjectsTypeOK
<1>2. RereadLocals(q).row = q.row /\ RereadLocals(q).reg = subjects
  BY DEF AdminOK, RereadLocals, AdminLocals
<1>3. Heads /\ LocalHeads(q, commits) => LocalHeads(RereadLocals(q), commits)
  BY <1>2 DEF Heads, LocalHeads
<1> QED
  BY <1>1, <1>3

\* What they write
AddRegistry(q) == [q.reg EXCEPT ![q.id] = q.row]
LEMMA RegistriesOK ==
  ASSUME NEW q, AdminOK(q)
  PROVE  /\ AddRegistry(q) \in Registry /\ Refreshed(q) \in Registry
         /\ \A c : LocalHeads(q, c) => HeadsIn(AddRegistry(q), c) /\ HeadsIn(Refreshed(q), c)
<1>1. q.reg \in Registry /\ q.row \in Row \cup {NoSubject}
  BY DEF AdminOK, AdminLocals
<1>2. \A i \in Ids : /\ AddRegistry(q)[i] \in {q.row, q.reg[i]}
                     /\ Refreshed(q)[i] \in {q.row, q.reg[i]}
  BY <1>1 DEF AddRegistry, Refreshed, Registry
<1>3. AddRegistry(q) \in Registry /\ Refreshed(q) \in Registry
  BY <1>1 DEF AddRegistry, Refreshed, Registry
<1>4. \A c : LocalHeads(q, c) => HeadsIn(AddRegistry(q), c) /\ HeadsIn(Refreshed(q), c)
  BY <1>2 DEF LocalHeads, HeadsIn
<1> QED
  BY <1>3, <1>4

\* A command that reads, writes or dies keeps the types, and the heads where
\* they belong.
AdminRuns(a) == AdminStarts(a) \/ AdminSteps(a) \/ AdminDies(a)
LEMMA AdminKeeps ==
  ASSUME RegistryOK, NEW a \in Admins, AdminRuns(a)
  PROVE  RegistryOK' /\ (Heads => Heads')
<1> DEFINE q == admin[a]
<1>1. AdminOK(q) /\ (Heads => LocalHeads(q, commits)) /\ subjects \in Registry
  BY DEF RegistryOK, SubjectsTypeOK, AdminOK, Heads
<1>2. UNCHANGED commits
  BY DEF AdminRuns, AdminStarts, AdminSteps, AdminDies, AddRead, AddWrite, RefreshRead,
         RefreshHead, RefreshReread, RefreshWrite
<1>3. ASSUME NEW r, AdminOK(r), Heads => LocalHeads(r, commits), AdminBecomes(a, r),
             subjects' \in Registry, Heads => HeadsIn(subjects', commits)
      PROVE  RegistryOK' /\ (Heads => Heads')
  BY <1>2, <1>3, AdminFrame, HeadsFrame
<1>4. Heads => HeadsIn(subjects, commits)
  BY DEF Heads
<1>5. ASSUME NEW i \in Ids, NEW l \in Locations, AddRead(a, i, l)
      PROVE  RegistryOK' /\ (Heads => Heads')
  <2>1. AdminBecomes(a, AddLocals(i, l)) /\ subjects' = subjects
    BY <1>5 DEF AddRead, AdminBecomes, AddLocals
  <2> QED
    BY <1>1, <1>3, <1>4, <2>1, AddLocalsOK
<1>6. ASSUME NEW i \in Ids, RefreshRead(a, i) PROVE RegistryOK' /\ (Heads => Heads')
  <2>1. AdminBecomes(a, RefreshLocals(i)) /\ subjects' = subjects /\ subjects[i] # NoSubject
    BY <1>6 DEF RefreshRead, AdminBecomes, RefreshLocals
  <2> QED
    BY <1>1, <1>3, <1>4, <2>1, RefreshLocalsOK
<1>7. CASE AddWrite(a)
  <2>1. AdminBecomes(a, Idle) /\ subjects' = AddRegistry(q)
    BY <1>7 DEF AddWrite, AdminBecomes, AddRegistry
  <2> QED
    BY <1>1, <1>3, <2>1, IdleOK, RegistriesOK
<1>8. CASE RefreshHead(a)
  <2>1. q.at = "head" /\ subjects' = subjects
    BY <1>8 DEF RefreshHead
  <2>2. CASE HeadOf(q.row.location) = NoHead
    <3>1. AdminBecomes(a, Idle)
      BY <1>8, <2>2 DEF RefreshHead, AdminBecomes
    <3> QED
      BY <1>1, <1>3, <1>4, <2>1, <3>1, IdleOK
  <2>3. CASE HeadOf(q.row.location) # NoHead
    <3>1. AdminBecomes(a, HeadLocals(q, HeadOf(q.row.location)))
      BY <1>8, <2>3 DEF RefreshHead, AdminBecomes, HeadLocals
    <3> QED
      BY <1>1, <1>3, <1>4, <2>1, <2>3, <3>1, HeadLocalsOK
  <2> QED
    BY <2>2, <2>3
<1>9. CASE RefreshReread(a)
  <2>1. AdminBecomes(a, RereadLocals(q)) /\ subjects' = subjects
    BY <1>9 DEF RefreshReread, AdminBecomes, RereadLocals, RegistryOK, SubjectsTypeOK, AdminLocals
  <2> QED
    BY <1>1, <1>3, <1>4, <2>1, RereadLocalsOK
<1>10. CASE RefreshWrite(a)
  <2>1. AdminBecomes(a, Idle) /\ subjects' = Refreshed(q)
    BY <1>10 DEF RefreshWrite, AdminBecomes
  <2> QED
    BY <1>1, <1>3, <2>1, IdleOK, RegistriesOK
<1>11. CASE AdminDies(a)
  <2>1. AdminBecomes(a, Idle) /\ subjects' = subjects
    BY <1>11 DEF AdminDies, AdminBecomes
  <2> QED
    BY <1>1, <1>3, <1>4, <2>1, IdleOK
<1> QED
  BY <1>5, <1>6, <1>7, <1>8, <1>9, <1>10, <1>11 DEF AdminRuns, AdminStarts, AdminSteps

\* Commits in the subject repositories only add to them
Grown(c, d) == \A l \in Locations : c[l] <= d[l]
LEMMA HeadsGrow ==
  ASSUME NEW row \in Row \cup {NoSubject}, NEW c \in [Locations -> Nat], NEW d \in [Locations -> Nat],
         Grown(c, d), HeadIn(row, c)
  PROVE  HeadIn(row, d)
<1> SUFFICES ASSUME row # NoSubject, row.head # NoHead
             PROVE  row.head[1] = row.location /\ row.head[2] <= d[row.location]
  BY DEF HeadIn
<1>1. row.location \in Locations /\ row.head[2] \in Nat
  BY SubjectAssumption DEF Row, Sha
<1>2. row.head[2] <= c[row.location] /\ c[row.location] <= d[row.location]
  BY <1>1 DEF HeadIn, Grown
<1> QED
  BY <1>1, <1>2 DEF HeadIn

LEMMA SubjectCommitKeeps ==
  ASSUME RegistryOK, NEW l \in Locations, SubjectCommit(l)
  PROVE  RegistryOK' /\ (Heads => Heads')
<1>1. commits \in [Locations -> 0..MaxCommits] /\ commits[l] < MaxCommits /\ MaxCommits \in Nat
  BY SubjectAssumption DEF RegistryOK, SubjectsTypeOK, SubjectCommit
<1>2. commits' = [commits EXCEPT ![l] = commits[l] + 1] /\ UNCHANGED <<subjects, admin>>
  BY DEF SubjectCommit
<1>3. commits' \in [Locations -> 0..MaxCommits]
  BY <1>1, <1>2
<1>4. RegistryOK'
  BY <1>2, <1>3 DEF RegistryOK, SubjectsTypeOK
<1>5. Grown(commits, commits') /\ commits \in [Locations -> Nat] /\ commits' \in [Locations -> Nat]
  BY <1>1, <1>2, <1>3 DEF Grown
<1>6. ASSUME NEW reg \in Registry, HeadsIn(reg, commits) PROVE HeadsIn(reg, commits')
  BY <1>5, <1>6, HeadsGrow DEF HeadsIn, Registry
<1>7. ASSUME Heads PROVE Heads'
  <2>1. HeadsIn(subjects', commits')
    BY <1>2, <1>6, <1>7 DEF Heads, RegistryOK, SubjectsTypeOK
  <2>2. ASSUME NEW a \in Admins PROVE LocalHeads(admin'[a], commits')
    <3>1. admin[a].reg \in Registry /\ admin[a].row \in Row \cup {NoSubject}
      BY DEF RegistryOK, SubjectsTypeOK, AdminLocals
    <3> QED
      BY <1>2, <1>5, <1>6, <1>7, <3>1, HeadsGrow DEF Heads, LocalHeads
  <2> QED
    BY <2>1, <2>2 DEF Heads, LocalHeads, HeadsIn, HeadIn
<1> QED
  BY <1>4, <1>7

-----------------------------------------------------------------------------
(* The types and the heads, for any number of processes *)

\* The subject commands, their deaths and commits elsewhere
SubjectWork == SubjectCommand \/ SubjectCommandDies \/ SubjectMoves
LEMMA SubjectWorkKeeps ==
  ASSUME Typed, SubjectWork
  PROVE  /\ Typed' /\ (Heads => Heads')
         /\ left'.orderly = left.orderly
<1>1. RegistryOK /\ left \in History
  BY DEF Typed
<1>2. ASSUME NEW a \in Admins, AdminRuns(a) PROVE RegistryOK' /\ (Heads => Heads')
  BY <1>1, <1>2, AdminKeeps
<1>3. ASSUME NEW l \in Locations, SubjectCommit(l) PROVE RegistryOK' /\ (Heads => Heads')
  BY <1>1, <1>3, SubjectCommitKeeps
<1>4. RegistryOK' /\ (Heads => Heads')
  BY <1>2, <1>3 DEF SubjectWork, SubjectCommand, SubjectCommandDies, SubjectMoves, AdminRuns
<1>5. left' \in History /\ left'.orderly = left.orderly
  BY <1>1, BeginKeeps, DyingKeeps
  DEF SubjectWork, SubjectCommand, SubjectCommandDies, SubjectMoves, Begin
<1>6. UNCHANGED <<nodes, gaps, refs, log, disk, run>>
  BY DEF SubjectWork, SubjectCommand, SubjectCommandDies, SubjectMoves
<1>7. (tree \in Tree)'
  BY <1>4, <1>6 DEF Typed, RegistryOK, SubjectsTypeOK, tree, Tree
<1>8. Typed'
  BY <1>4, <1>5, <1>6, <1>7, OthersFrame DEF Typed, HeadRev
<1> QED
  BY <1>4, <1>5, <1>8

\* The steps of a compose, as the lemmas above group them
Reads(p) == \/ \E v \in 1..HeadRev, f \in BOOLEAN : Start(p, v, f)
            \/ \E i \in Ids, v \in BOOLEAN : Bind(p, i, v)
            \/ ReadNodes(p) \/ ReadGaps(p) \/ ReadRefs(p)
Writes(p) == \/ Refuse(p) \/ ListPages(p) \/ EndUnlink(p)
             \/ \E n \in Nodes : UnlinkPage(p, n) \/ WritePage(p, n)
             \/ WritesFile(p) \/ Finish(p)
LEMMA Cases ==
  ASSUME Next
  PROVE  \/ \E p \in Composers : Reads(p) \/ Writes(p) \/ ComposerDies(p)
         \/ Edit \/ TopologyCommit \/ SubjectWork
  BY DEF Next, ComposerStarts, ComposerSteps, Reads, Writes, WritesFile, SubjectWork

LEMMA DeathTyped ==
  ASSUME Typed, NEW p \in Composers, ComposerDies(p)
  PROVE  Typed'
<1>1. left' \in History
  BY DyingKeeps DEF ComposerDies, Typed
<1>2. Become(p, Resting) /\ UNCHANGED <<Inputs, disk>>
  BY DEF ComposerDies, Return, Become
<1>3. disk \in Disk /\ Closed(disk.pack)
  BY DEF Typed, PackIsClosed, Closed
<1> QED
  BY <1>1, <1>2, <1>3, RestingOK, ComposeFrame

LEMMA TypedStep == Typed /\ [Next]_vars => Typed'
<1> SUFFICES ASSUME Typed, [Next]_vars PROVE Typed'
  OBVIOUS
<1>1. CASE Next
  <2>1. ASSUME NEW p \in Composers, Reads(p) PROVE Typed'
    BY <2>1, ReadTyped DEF Reads
  <2>2. ASSUME NEW p \in Composers, Writes(p) PROVE Typed'
    BY <2>2, WriteTyped DEF Writes
  <2> QED
    BY <1>1, <2>1, <2>2, Cases, DeathTyped, EditTyped, CommitTyped, SubjectWorkKeeps
<1>2. CASE UNCHANGED vars
  BY <1>2 DEF vars, Typed, RegistryOK, SubjectsTypeOK, tree, HeadRev, LocalOK, PackIsClosed
<1> QED
  BY <1>1, <1>2

LEMMA AlwaysTyped == Spec => []Typed
  BY TypedInit, TypedStep, PTL DEF Spec

\* Whatever overlaps or dies, the tree, the history, the files on disk and the
\* locals of every command have their types; in particular the index never
\* holds more rows than its limit.
THEOREM TypeCorrect == Spec => []TypeOK
<1>1. Typed => TypeOK
  <2> SUFFICES ASSUME Typed PROVE TypeOK
    OBVIOUS
  <2>1. ASSUME NEW p \in Composers
        PROVE  /\ run[p].at \in Stages
               /\ run[p].at \in {"page", "pack", "markdown", "prompt", "manifest", "done"}
                    => run[p].pack \in Pack
               /\ run[p].rows \subseteq FileRefs /\ run[p].todo \subseteq Nodes
    BY DEF Typed, Locals, LocalOK, Unbound, Indexes
  <2> QED
    BY <2>1 DEF Typed, TypeOK, RegistryOK, Stages
<1> QED
  BY <1>1, AlwaysTyped, PTL

\* A pack never names a node it does not show: however composes, writes and
\* deaths interleave, its gaps were filtered by the records it holds.
THEOREM PacksAreClosed == Spec => []PackIsClosed
<1>1. Typed => PackIsClosed
  BY DEF Typed
<1> QED
  BY <1>1, AlwaysTyped, PTL

LEMMA HeadsInit == Init => Heads
<1> SUFFICES ASSUME Init PROVE Heads
  OBVIOUS
<1>1. HeadsIn(subjects, commits)
  BY ProjectionAssumption DEF Init, HeadsIn, HeadIn
<1>2. \A a \in Admins : LocalHeads(admin[a], commits)
  BY IdleOK DEF Init
<1> QED
  BY <1>1, <1>2 DEF Heads

LEMMA HeadsStep == Typed /\ Heads /\ [Next]_vars => Heads'
<1> SUFFICES ASSUME Typed, Heads, [Next]_vars PROVE Heads'
  OBVIOUS
<1>1. CASE UNCHANGED subjectVars
  BY <1>1 DEF subjectVars, Heads, LocalHeads, HeadsIn, HeadIn
<1>2. CASE SubjectWork
  BY <1>2, SubjectWorkKeeps
<1>3. ASSUME NEW p \in Composers, Reads(p) \/ Writes(p) \/ ComposerDies(p)
      PROVE  UNCHANGED subjectVars
  BY <1>3 DEF Reads, Start, Bind, ReadNodes, ReadGaps, ReadRefs, Writes, Refuse, ListPages,
     EndUnlink, UnlinkPage, WritePage, WritesFile, WriteIndex, WritePack, WriteMarkdown,
     WritePrompt, WriteManifest, Finish, ComposerDies, Inputs, subjectVars
<1>4. CASE Edit \/ TopologyCommit
  BY <1>1, <1>4 DEF Edit, TopologyCommit, subjectVars
<1>5. CASE UNCHANGED vars
  BY <1>1, <1>5 DEF vars, subjectVars
<1> QED
  BY <1>1, <1>2, <1>3, <1>4, <1>5, Cases

\* Whatever subject commands overlap or die and whatever the subject
\* repositories do meanwhile, a head in the registry is a commit of the
\* repository at the location beside it: a refresh replaces a record as a whole.
THEOREM HeadsStayHome == Spec => []HeadBelongsToLocation
<1>1. Heads => HeadBelongsToLocation
  BY DEF Heads, HeadsIn, HeadIn, HeadBelongsToLocation
<1>2. Spec => []Heads
  BY HeadsInit, HeadsStep, AlwaysTyped, PTL DEF Spec
<1> QED
  BY <1>1, <1>2, PTL

-----------------------------------------------------------------------------
(* Orderly histories: the invariant *)

\* What a pack says is so of a tree t: its records, gaps and subject, and the
\* number of its rows
NodesOf(k, t)   == k.records = Shown(t.nodes)
GapsOf(k, t)    == k.gaps = ProjectedGaps(t.gaps, k.records)
SubjectOf(k, t) == t.subjects[k.id] = [location |-> k.location, head |-> k.head]
RowsOf(k, t)    == /\ k.count = Cardinality(ProjectedRows(t.refs, k.id, k.head))
                   /\ k.truncated = Truncated(t.refs, k.id, k.head)
Says(k, t) == NodesOf(k, t) /\ GapsOf(k, t) /\ SubjectOf(k, t) /\ RowsOf(k, t)

\* Each file on disk says what was committed at the revision it names in the
\* history h, and no rendering and no page is older than the manifest.
KeptPack(k, h) == k # NoFile => k.rev \in 1..Len(h) /\ Says(k, h[k.rev])
KeptPages(g, h) == \A n \in Nodes : g[n] # 0 => g[n] \in 1..Len(h) /\ n \in Shown(h[g[n]].nodes)
KeptManifest(m, h) == m # NoFile => m.rev \in 1..Len(h) /\ m.pages = Shown(h[m.rev].nodes)
Latest(d) == d.manifest # NoFile =>
  /\ d.markdown # NoFile /\ d.markdown.rev >= d.manifest.rev
  /\ d.prompt # NoFile /\ d.prompt.rev >= d.manifest.rev
  /\ \A n \in Nodes : d.pages[n] # 0 => d.pages[n] >= d.manifest.rev
Kept(d, h) ==
  /\ KeptPack(d.pack, h) /\ KeptPack(d.markdown, h) /\ KeptPack(d.prompt, h)
  /\ KeptPages(d.pages, h) /\ KeptManifest(d.manifest, h) /\ Latest(d)

\* What a compose has read is what the tree t has
ReadOf(r, t) ==
  /\ r.at \notin Unbound => SubjectOf(r.pack, t)
  /\ r.at \notin NoNodes => NodesOf(r.pack, t)
  /\ r.at \notin NoGaps => GapsOf(r.pack, t)
  /\ r.at \notin NoRows => RowsOf(r.pack, t) /\ r.rows = ProjectedRows(t.refs, r.pack.id, r.pack.head)

\* How far it has come on disk: while it unlinks, what is there is what is left
\* to unlink; then the pages that are there are its own, and each file it has
\* written is still what it wrote.
Indexed  == {"pack", "markdown", "prompt", "manifest", "done"}
Packed   == Indexed \ {"pack"}
Rendered == Packed \ {"markdown"}
Prompted == Rendered \ {"prompt"}
PagesAre(d, s, v) == \A n \in Nodes : d.pages[n] = IF n \in s THEN v ELSE 0
ToUnlink(d, s) == \A n \in Nodes : d.pages[n] # 0 <=> n \in s
WrittenOf(r, d) ==
  /\ r.at = "unlink" => ToUnlink(d, r.todo)
  /\ r.at = "page" => /\ r.todo \subseteq r.pack.records
                      /\ PagesAre(d, r.pack.records \ r.todo, r.pack.rev)
  /\ r.at \in Indexed => PagesAre(d, r.pack.records, r.pack.rev) /\ d.index = r.rows
  /\ r.at \in Packed => d.pack = r.pack
  /\ r.at \in Rendered => d.markdown = r.pack
  /\ r.at \in Prompted => d.prompt = r.pack
  /\ r.at = "done" => d.manifest = ManifestOf(r.pack)
OnTrack(r, t, d, v) == r.pack.rev = v /\ ReadOf(r, t) /\ WrittenOf(r, d)

\* Commands run one at a time, and while a compose runs the tree is committed.
Alone ==
  /\ \A p, q \in Composers : Busy(p) /\ Busy(q) => p = q
  /\ \A p \in Composers, a \in Admins : Busy(p) => admin[a] = Idle
InOrder == Orderly =>
  /\ Alone
  /\ Kept(disk, log)
  /\ \A p \in Composers : Busy(p) => ~dirty /\ OnTrack(run[p], tree, disk, HeadRev)

-----------------------------------------------------------------------------
(* What a compose reads is what is committed *)

LEMMA BoundRead ==
  ASSUME Typed, NEW q \in Locals, NEW i \in Ids, NEW v \in BOOLEAN, subjects[i] # NoSubject
  PROVE  ReadOf(Bound(q, i, v), tree) /\ Bound(q, i, v).pack.rev = q.pack.rev
<1> DEFINE k == [q.pack EXCEPT !.id = i, !.head = subjects[i].head,
                               !.location = subjects[i].location, !.verified = v]
<1>1. subjects[i] \in Row /\ q.pack \in AnyPack
  BY DEF Typed, RegistryOK, SubjectsTypeOK, Registry, Locals
<1>2. subjects[i] = [location |-> subjects[i].location, head |-> subjects[i].head]
  BY <1>1 DEF Row
<1>3. /\ k.id = i /\ k.head = subjects[i].head /\ k.location = subjects[i].location
      /\ k.rev = q.pack.rev
  BY <1>1 DEF AnyPack
<1>4. Bound(q, i, v).at = "nodes" /\ Bound(q, i, v).pack = k
  BY DEF Bound, Locals
<1> HIDE DEF k
<1>5. SubjectOf(k, tree)
  BY <1>2, <1>3 DEF SubjectOf, tree
<1> QED
  BY <1>3, <1>4, <1>5 DEF ReadOf, Unbound, NoNodes, NoGaps, NoRows

LEMMA WithNodesRead ==
  ASSUME NEW q \in Locals, q.at = "nodes", ReadOf(q, tree)
  PROVE  ReadOf(WithNodes(q), tree) /\ WithNodes(q).pack.rev = q.pack.rev
<1> DEFINE k == [q.pack EXCEPT !.records = Shown(nodes)]
<1>1. q.pack \in AnyPack /\ SubjectOf(q.pack, tree)
  BY DEF Locals, ReadOf, Unbound
<1>2. /\ k.id = q.pack.id /\ k.head = q.pack.head /\ k.location = q.pack.location
      /\ k.rev = q.pack.rev /\ k.records = Shown(nodes)
  BY <1>1 DEF AnyPack
<1>3. WithNodes(q).at = "gaps" /\ WithNodes(q).pack = k
  BY DEF WithNodes, Locals
<1> HIDE DEF k
<1>4. SubjectOf(k, tree) /\ NodesOf(k, tree)
  BY <1>1, <1>2 DEF SubjectOf, NodesOf, tree
<1> QED
  BY <1>2, <1>3, <1>4 DEF ReadOf, Unbound, NoNodes, NoGaps, NoRows

LEMMA WithGapsRead ==
  ASSUME NEW q \in Locals, q.at = "gaps", ReadOf(q, tree)
  PROVE  ReadOf(WithGaps(q), tree) /\ WithGaps(q).pack.rev = q.pack.rev
<1> DEFINE g == ProjectedGaps(gaps, q.pack.records)
           k == [q.pack EXCEPT !.gaps = g]
<1>1. q.pack \in AnyPack /\ SubjectOf(q.pack, tree) /\ NodesOf(q.pack, tree)
  BY DEF Locals, ReadOf, Unbound, NoNodes
<1>2. WithGaps(q).at = "refs" /\ WithGaps(q).pack = k
  BY DEF WithGaps, Locals
<1>3. tree.gaps = gaps
  BY DEF tree
<1> HIDE DEF g
<1>4. /\ k.id = q.pack.id /\ k.head = q.pack.head /\ k.location = q.pack.location
      /\ k.rev = q.pack.rev /\ k.records = q.pack.records /\ k.gaps = g
  BY <1>1 DEF AnyPack
<1> HIDE DEF k
<1>5. SubjectOf(k, tree) /\ NodesOf(k, tree) /\ GapsOf(k, tree)
  BY <1>1, <1>3, <1>4 DEF SubjectOf, NodesOf, GapsOf, g
<1> QED
  BY <1>2, <1>4, <1>5 DEF ReadOf, Unbound, NoNodes, NoGaps, NoRows

LEMMA WithRowsRead ==
  ASSUME NEW q \in Locals, q.at = "refs", ReadOf(q, tree)
  PROVE  ReadOf(WithRows(q), tree) /\ WithRows(q).pack.rev = q.pack.rev
<1> DEFINE rows == ProjectedRows(refs, q.pack.id, q.pack.head)
           t == Truncated(refs, q.pack.id, q.pack.head)
           k == [q.pack EXCEPT !.count = Cardinality(rows), !.truncated = t]
<1>1. /\ q.pack \in AnyPack /\ SubjectOf(q.pack, tree) /\ NodesOf(q.pack, tree)
      /\ GapsOf(q.pack, tree)
  BY DEF Locals, ReadOf, Unbound, NoNodes, NoGaps
<1>2. WithRows(q).at = "list" /\ WithRows(q).pack = k /\ WithRows(q).rows = rows
  BY DEF WithRows, Locals
<1>3. tree.refs = refs
  BY DEF tree
<1> HIDE DEF rows, t
<1>4. /\ k.id = q.pack.id /\ k.head = q.pack.head /\ k.location = q.pack.location
      /\ k.rev = q.pack.rev /\ k.records = q.pack.records /\ k.gaps = q.pack.gaps
      /\ k.count = Cardinality(rows) /\ k.truncated = t
  BY <1>1 DEF AnyPack
<1> HIDE DEF k
<1>5. SubjectOf(k, tree) /\ NodesOf(k, tree) /\ GapsOf(k, tree)
  BY <1>1, <1>4 DEF SubjectOf, NodesOf, GapsOf
<1>6. RowsOf(k, tree) /\ rows = ProjectedRows(tree.refs, k.id, k.head)
  BY <1>3, <1>4 DEF RowsOf, rows, t
<1> QED
  BY <1>2, <1>4, <1>5, <1>6 DEF ReadOf, Unbound, NoNodes, NoGaps, NoRows

\* Once all is read only the stage and what is left to do change.
LEMMA ReadStays ==
  ASSUME NEW q, NEW t, ReadOf(q, t), q.at \notin NoRows, NEW r, r.pack = q.pack, r.rows = q.rows
  PROVE  ReadOf(r, t)
  BY DEF ReadOf, Unbound, NoNodes, NoGaps, NoRows

LEMMA ReadSays ==
  ASSUME NEW q, NEW t, ReadOf(q, t), q.at \notin NoRows
  PROVE  Says(q.pack, t)
  BY DEF ReadOf, Says, Unbound, NoNodes, NoGaps, NoRows

-----------------------------------------------------------------------------
(* What a compose writes is what it has read *)

LEMMA PagesKept ==
  ASSUME NEW h, Len(h) \in Nat \ {0}, NEW d \in Disk, Kept(d, h), NEW n \in Nodes,
         NEW v \in 0..MaxRev, v # 0 => v = Len(h) /\ n \in Shown(h[v].nodes)
  PROVE  Kept(Page(d, n, v), h)
<1> DEFINE e == Page(d, n, v)
<1>1. \A m \in Nodes : e.pages[m] = IF m = n THEN v ELSE d.pages[m]
  BY PageOK
<1>2. /\ e.pack = d.pack /\ e.markdown = d.markdown /\ e.prompt = d.prompt
      /\ e.manifest = d.manifest
  <2>1. e = [d EXCEPT !.pages = e.pages]
    BY PageOK
  <2> HIDE DEF e
  <2> QED
    BY <2>1, DiskType
<1>3. v \in Nat
  BY ProjectionAssumption
<1> HIDE DEF e
<1>4. KeptPages(e.pages, h)
  <2> SUFFICES ASSUME NEW m \in Nodes, e.pages[m] # 0
               PROVE  e.pages[m] \in 1..Len(h) /\ m \in Shown(h[e.pages[m]].nodes)
    BY DEF KeptPages
  <2>1. CASE m = n
    BY <1>1, <2>1
  <2>2. CASE m # n
    BY <1>1, <2>2 DEF Kept, KeptPages
  <2> QED
    BY <2>1, <2>2
<1>5. Latest(e)
  <2> SUFFICES ASSUME d.manifest # NoFile
               PROVE  \A m \in Nodes : e.pages[m] # 0 => e.pages[m] >= d.manifest.rev
    BY <1>2 DEF Kept, Latest
  <2>1. d.manifest.rev \in 1..Len(h)
    BY DEF Kept, KeptManifest
  <2>2. \A m \in Nodes : d.pages[m] # 0 => d.pages[m] >= d.manifest.rev
    BY DEF Kept, Latest
  <2> QED
    BY <1>1, <2>1, <2>2
<1>6. KeptPack(e.pack, h) /\ KeptPack(e.markdown, h) /\ KeptPack(e.prompt, h) /\ KeptManifest(e.manifest, h)
  BY <1>2 DEF Kept
<1> QED
  BY <1>4, <1>5, <1>6 DEF Kept, e

\* The index is compared with the tree, not with the history; the packs name
\* the last revision, and the manifest comes when all the rest is there.
LEMMA FilesKept ==
  ASSUME NEW h, Len(h) \in Nat \ {0}, NEW d \in Disk, Kept(d, h),
         NEW q \in Locals, q.pack \in Pack, q.pack.rev = Len(h), Says(q.pack, h[Len(h)])
  PROVE  /\ Kept([d EXCEPT !.index = q.rows], h)
         /\ Kept([d EXCEPT !.pack = q.pack], h)
         /\ Kept([d EXCEPT !.markdown = q.pack], h)
         /\ Kept([d EXCEPT !.prompt = q.pack], h)
         /\ PagesAre(d, q.pack.records, q.pack.rev) /\ d.markdown = q.pack /\ d.prompt = q.pack =>
              Kept([d EXCEPT !.manifest = ManifestOf(q.pack)], h)
<1> DEFINE m == ManifestOf(q.pack)
<1>1. q.pack # NoFile /\ KeptPack(q.pack, h)
  BY NoFileAssumption DEF KeptPack
<1>2. d.manifest # NoFile => d.manifest.rev \in 1..Len(h)
  BY DEF Kept, KeptManifest
<1>3. Kept([d EXCEPT !.index = q.rows], h)
  BY DiskType DEF Kept, Latest
<1>4. Kept([d EXCEPT !.pack = q.pack], h)
  BY <1>1, DiskType DEF Kept, Latest
<1>5. Kept([d EXCEPT !.markdown = q.pack], h)
  BY <1>1, <1>2, DiskType DEF Kept, Latest
<1>6. Kept([d EXCEPT !.prompt = q.pack], h)
  BY <1>1, <1>2, DiskType DEF Kept, Latest
<1>7. ASSUME PagesAre(d, q.pack.records, q.pack.rev), d.markdown = q.pack, d.prompt = q.pack
      PROVE  Kept([d EXCEPT !.manifest = m], h)
  <2> DEFINE e == [d EXCEPT !.manifest = m]
  <2>1. /\ e.manifest = m /\ e.pages = d.pages /\ e.pack = d.pack
        /\ e.markdown = d.markdown /\ e.prompt = d.prompt
    BY DiskType
  <2>2. m.rev = q.pack.rev /\ m.pages = q.pack.records
    BY DEF ManifestOf
  <2> HIDE DEF e, m
  <2>3. KeptManifest(e.manifest, h)
    BY <2>1, <2>2 DEF KeptManifest, Says, NodesOf
  <2>4. Latest(e)
    BY <1>1, <1>7, <2>1, <2>2 DEF Latest, PagesAre
  <2>5. /\ KeptPack(e.pack, h) /\ KeptPack(e.markdown, h) /\ KeptPack(e.prompt, h)
        /\ KeptPages(e.pages, h)
    BY <2>1 DEF Kept
  <2> QED
    BY <2>3, <2>4, <2>5 DEF Kept, e
<1> QED
  BY <1>3, <1>4, <1>5, <1>6, <1>7

\* Nothing on disk is about the commits to come.
LEMMA CommitKept ==
  ASSUME NEW h \in Seq(Tree), NEW t \in Tree, NEW d, Kept(d, h)
  PROVE  Kept(d, Append(h, t))
<1> DEFINE g == Append(h, t)
<1>1. Len(g) = Len(h) + 1 /\ Len(h) \in Nat /\ \A i \in 1..Len(h) : g[i] = h[i]
  OBVIOUS
<1> HIDE DEF g
<1>2. \A i \in 1..Len(h) : i \in 1..Len(g)
  BY <1>1
<1>3. \A k : KeptPack(k, h) => KeptPack(k, g)
  BY <1>1, <1>2 DEF KeptPack
<1>4. KeptPages(d.pages, h) => KeptPages(d.pages, g)
  BY <1>1, <1>2 DEF KeptPages
<1>5. KeptManifest(d.manifest, h) => KeptManifest(d.manifest, g)
  BY <1>1, <1>2 DEF KeptManifest
<1> QED
  BY <1>3, <1>4, <1>5 DEF Kept, g

-----------------------------------------------------------------------------
(* Orderly histories: every step keeps the invariant *)

LEMMA InOrderInit == Init => InOrder
<1> SUFFICES ASSUME Init PROVE InOrder
  OBVIOUS
<1>1. \A p \in Composers : ~Busy(p)
  BY DEF Init, Busy
<1>2. Kept(disk, log)
  BY DEF Init, NoProjection, Kept, KeptPack, KeptPages, KeptManifest, Latest
<1> QED
  BY <1>1, <1>2 DEF InOrder, Alone

\* While a compose is busy nobody else is.
LEMMA Sole ==
  ASSUME InOrder, Orderly, NEW p \in Composers, Busy(p)
  PROVE  /\ \A q \in Composers \ {p} : ~Busy(q)
         /\ \A a \in Admins : admin[a] = Idle
         /\ ~dirty /\ OnTrack(run[p], tree, disk, HeadRev)
  BY DEF InOrder, Alone

\* A compose that runs alone keeps the invariant if what it leaves on disk is
\* kept and it is on track, or ends.
LEMMA OrderFrame ==
  ASSUME Typed, Orderly, NEW p \in Composers, NEW r, Become(p, r),
         UNCHANGED Inputs, ~dirty,
         \A q \in Composers \ {p} : ~Busy(q), \A a \in Admins : admin[a] = Idle,
         Kept(disk', log), r # Resting => OnTrack(r, tree, disk', HeadRev)
  PROVE  InOrder'
<1>1. tree' = tree /\ log' = log /\ admin' = admin
  BY DEF Inputs, tree
<1>2. dirty' = dirty /\ HeadRev' = HeadRev
  BY <1>1 DEF dirty, HeadRev
<1>3. \A q \in Composers : run'[q] = IF q = p THEN r ELSE run[q]
  BY DEF Typed, Become
<1>4. \A q \in Composers : run'[q] # Resting => q = p
  BY <1>3 DEF Busy
<1>5. Alone'
  BY <1>1, <1>4 DEF Alone, Busy
<1>6. ASSUME NEW q \in Composers, run'[q] # Resting
      PROVE  OnTrack(run'[q], tree, disk', HeadRev)
  BY <1>3, <1>4, <1>6
<1>7. \A q \in Composers : Busy(q)' => OnTrack(run'[q], tree', disk', HeadRev')
  BY <1>1, <1>2, <1>6 DEF Busy
<1>8. Kept(disk', log')
  BY <1>1
<1> QED
  BY <1>2, <1>5, <1>7, <1>8 DEF InOrder

LEMMA BusyAt ==
  ASSUME NEW p \in Composers, run[p].at # "idle"
  PROVE  Busy(p)
  BY DEF Busy, Resting

LEMMA NotWriting ==
  ASSUME NEW r, NEW d, r.at \notin {"unlink", "page"} \cup Indexed
  PROVE  WrittenOf(r, d)
  BY DEF WrittenOf, Indexed, Packed, Rendered, Prompted

\* In order, what the lemmas below need to know of a compose that is busy
LEMMA AtWork ==
  ASSUME Typed, InOrder, Orderly, NEW p \in Composers, run[p].at # "idle"
  PROVE  /\ run[p] \in Locals /\ LocalOK(run[p]) /\ disk \in Disk
         /\ Len(log) \in Nat \ {0} /\ run[p].pack.rev = Len(log)
         /\ Kept(disk, log) /\ tree = log[Len(log)] /\ ~dirty
         /\ \A q \in Composers \ {p} : ~Busy(q)
         /\ \A a \in Admins : admin[a] = Idle
         /\ ReadOf(run[p], tree) /\ WrittenOf(run[p], disk)
<1>1. Busy(p)
  BY BusyAt
<1>2. /\ \A q \in Composers \ {p} : ~Busy(q)
      /\ \A a \in Admins : admin[a] = Idle
      /\ ~dirty /\ OnTrack(run[p], tree, disk, HeadRev)
  BY <1>1, Sole
<1>3. tree = log[Len(log)] /\ Len(log) \in Nat \ {0}
  BY <1>2, ProjectionAssumption DEF dirty, HeadRev, Typed
<1> QED
  BY <1>2, <1>3 DEF OnTrack, HeadRev, InOrder, Typed

LEMMA ReadInOrder ==
  ASSUME Typed, InOrder, Orderly, left'.orderly = left.orderly, NEW p \in Composers, Reads(p)
  PROVE  InOrder'
<1>1. run[p] \in Locals /\ LocalOK(run[p])
  BY DEF Typed
<1>2. CASE \E v \in 1..HeadRev, f \in BOOLEAN : Start(p, v, f)
  <2>1. PICK v \in 1..HeadRev, f \in BOOLEAN : Start(p, v, f)
    BY <1>2
  <2>2. v = HeadRev /\ ~dirty /\ Quiet /\ UNCHANGED <<Inputs, disk>>
    BY <2>1 DEF Start, Begin
  <2>3. Become(p, Started(run[p], v))
    BY <2>1, ReadEffects
  <2>4. Kept(disk', log)
    BY <2>2 DEF InOrder
  <2>5. Started(run[p], v).at = "bind" /\ Started(run[p], v).pack.rev = v
    BY <1>1 DEF Started, Blank, Locals
  <2>6. OnTrack(Started(run[p], v), tree, disk', HeadRev)
    BY <2>2, <2>5, NotWriting DEF OnTrack, ReadOf, Unbound, NoNodes, NoGaps, NoRows, Indexed
  <2> QED
    BY <2>2, <2>3, <2>4, <2>6, OrderFrame DEF Quiet
  \* The other reads are steps of a compose at work, and leave the disk alone.
<1>3. ASSUME run[p].at \in {"bind", "nodes", "gaps", "refs"}, UNCHANGED <<Inputs, disk>>,
             NEW r, Become(p, r), r.at \in {"nodes", "gaps", "refs", "list"},
             ReadOf(r, tree), r.pack.rev = run[p].pack.rev
      PROVE  InOrder'
  <2>1. /\ run[p].pack.rev = HeadRev /\ Kept(disk', log) /\ ~dirty
        /\ \A q \in Composers \ {p} : ~Busy(q)
        /\ \A a \in Admins : admin[a] = Idle
    BY <1>3, AtWork DEF HeadRev
  <2>2. WrittenOf(r, disk')
    BY <1>3, NotWriting DEF Indexed
  <2>3. OnTrack(r, tree, disk', HeadRev)
    BY <1>3, <2>1, <2>2 DEF OnTrack
  <2> QED
    BY <1>3, <2>1, <2>3, OrderFrame
<1>4. ASSUME NEW i \in Ids, NEW v \in BOOLEAN, Bind(p, i, v) PROVE InOrder'
  <2>1. /\ run[p].at = "bind" /\ UNCHANGED <<Inputs, disk>> /\ subjects[i] # NoSubject
        /\ Become(p, Bound(run[p], i, v))
    BY <1>4, ReadEffects DEF Bind
  <2>2. Bound(run[p], i, v).at = "nodes"
    BY <1>1 DEF Bound, Locals
  <2> QED
    BY <1>1, <1>3, <2>1, <2>2, BoundRead
<1>5. CASE ReadNodes(p)
  <2>1. run[p].at = "nodes" /\ UNCHANGED <<Inputs, disk>> /\ Become(p, WithNodes(run[p]))
    BY <1>5, ReadEffects DEF ReadNodes
  <2>2. ReadOf(run[p], tree)
    BY <2>1, AtWork
  <2>3. WithNodes(run[p]).at = "gaps"
    BY <1>1 DEF WithNodes, Locals
  <2> QED
    BY <1>1, <1>3, <2>1, <2>2, <2>3, WithNodesRead
<1>6. CASE ReadGaps(p)
  <2>1. run[p].at = "gaps" /\ UNCHANGED <<Inputs, disk>> /\ Become(p, WithGaps(run[p]))
    BY <1>6, ReadEffects DEF ReadGaps
  <2>2. ReadOf(run[p], tree)
    BY <2>1, AtWork
  <2>3. WithGaps(run[p]).at = "refs"
    BY <1>1 DEF WithGaps, Locals
  <2> QED
    BY <1>1, <1>3, <2>1, <2>2, <2>3, WithGapsRead
<1>7. CASE ReadRefs(p)
  <2>1. run[p].at = "refs" /\ UNCHANGED <<Inputs, disk>> /\ Become(p, WithRows(run[p]))
    BY <1>7, ReadEffects DEF ReadRefs
  <2>2. ReadOf(run[p], tree)
    BY <2>1, AtWork
  <2>3. WithRows(run[p]).at = "list"
    BY <1>1 DEF WithRows, Locals
  <2> QED
    BY <1>1, <1>3, <2>1, <2>2, <2>3, WithRowsRead
<1> QED
  BY <1>2, <1>4, <1>5, <1>6, <1>7 DEF Reads

\* A compose that has read everything writes: it stays on track with the files
\* it leaves, and they stay true to the history.
LEMMA WritingFrame ==
  ASSUME Typed, InOrder, Orderly, left'.orderly = left.orderly, NEW p \in Composers,
         run[p].at # "idle", run[p].at \notin NoRows, UNCHANGED Inputs,
         NEW r, Become(p, r), r.pack = run[p].pack, r.rows = run[p].rows,
         Kept(disk', log), WrittenOf(r, disk')
  PROVE  InOrder'
<1>1. /\ run[p].pack.rev = HeadRev /\ ~dirty
      /\ \A q \in Composers \ {p} : ~Busy(q)
      /\ \A a \in Admins : admin[a] = Idle
      /\ ReadOf(run[p], tree)
  BY AtWork DEF HeadRev
<1>2. ReadOf(r, tree)
  BY <1>1, ReadStays
<1>3. OnTrack(r, tree, disk', HeadRev)
  BY <1>1, <1>2 DEF OnTrack
<1> QED
  BY <1>1, <1>3, OrderFrame

LEMMA PagesInOrder ==
  ASSUME Typed, InOrder, Orderly, left'.orderly = left.orderly, NEW p \in Composers,
         \/ ListPages(p) \/ EndUnlink(p)
         \/ \E n \in Nodes : UnlinkPage(p, n) \/ WritePage(p, n)
  PROVE  InOrder'
<1> DEFINE q == run[p]
<1>1. /\ q.at \in {"list", "unlink", "page"} /\ q.at # "idle" /\ q.at \notin NoRows
      /\ UNCHANGED Inputs
  BY DEF ListPages, EndUnlink, UnlinkPage, WritePage, Unbound, NoNodes, NoGaps, NoRows
<1>2. /\ q \in Locals /\ LocalOK(q) /\ disk \in Disk
      /\ Len(log) \in Nat \ {0} /\ q.pack.rev = Len(log)
      /\ Kept(disk, log) /\ tree = log[Len(log)]
      /\ ReadOf(q, tree) /\ WrittenOf(q, disk)
  BY <1>1, AtWork
<1>3. q.pack.records = Shown(log[Len(log)].nodes) /\ q.pack.rev \in 0..MaxRev
  BY <1>1, <1>2, ReadSays DEF Says, NodesOf, Locals, AnyPack
<1>4. disk.pages \in [Nodes -> 0..MaxRev]
  BY <1>2, DiskType
<1>5. CASE ListPages(p)
  <2>1. Become(p, Listed(q, disk)) /\ disk' = disk
    BY <1>5, WriteEffects DEF ListPages
  <2>2. /\ Listed(q, disk).at = "unlink" /\ Listed(q, disk).pack = q.pack
        /\ Listed(q, disk).rows = q.rows
        /\ Listed(q, disk).todo = {n \in Nodes : disk.pages[n] # 0}
    BY <1>2 DEF Listed, Locals
  <2>3. WrittenOf(Listed(q, disk), disk)
    BY <2>2 DEF WrittenOf, ToUnlink, Indexed, Packed, Rendered, Prompted
  <2> HIDE DEF q
  <2> QED
    BY <1>1, <1>2, <2>1, <2>2, <2>3, WritingFrame DEF q
<1>6. CASE EndUnlink(p)
  <2>1. Become(p, Paging(q)) /\ disk' = disk /\ q.at = "unlink" /\ q.todo = {}
    BY <1>6, WriteEffects DEF EndUnlink
  <2>2. /\ Paging(q).at = "page" /\ Paging(q).pack = q.pack /\ Paging(q).rows = q.rows
        /\ Paging(q).todo = q.pack.records
    BY <1>2 DEF Paging, Locals
  <2>3. WrittenOf(Paging(q), disk)
    BY <1>2, <1>4, <2>1, <2>2
    DEF WrittenOf, ToUnlink, PagesAre, Indexed, Packed, Rendered, Prompted
  <2> HIDE DEF q
  <2> QED
    BY <1>1, <1>2, <2>1, <2>2, <2>3, WritingFrame DEF q
<1>7. ASSUME NEW n \in Nodes, UnlinkPage(p, n) PROVE InOrder'
  <2>1. q.at = "unlink" /\ n \in q.todo /\ disk' = Page(disk, n, 0)
    BY <1>7, WriteEffects DEF UnlinkPage
  <2>2. n \in PagesOnDisk
    BY <1>2, <2>1 DEF WrittenOf, ToUnlink, PagesOnDisk
  <2>3. Become(p, Taken(q, n))
    BY <1>7, <2>2, WriteEffects
  <2>4. /\ Taken(q, n).at = "unlink" /\ Taken(q, n).pack = q.pack
        /\ Taken(q, n).rows = q.rows /\ Taken(q, n).todo = q.todo \ {n}
    BY <1>2, <2>1 DEF Taken, Locals
  <2>5. 0 \in 0..MaxRev
    BY ProjectionAssumption
  <2>6. \A m \in Nodes : disk'.pages[m] = IF m = n THEN 0 ELSE disk.pages[m]
    BY <1>2, <2>1, <2>5, PageOK
  <2>7. WrittenOf(Taken(q, n), disk')
    BY <1>2, <2>1, <2>4, <2>6 DEF WrittenOf, ToUnlink, Indexed, Packed, Rendered, Prompted
  <2>8. Kept(disk', log)
    BY <1>2, <2>1, <2>5, PagesKept
  <2> HIDE DEF q
  <2> QED
    BY <1>1, <1>2, <2>3, <2>4, <2>7, <2>8, WritingFrame DEF q
<1>8. ASSUME NEW n \in Nodes, WritePage(p, n) PROVE InOrder'
  <2>1. /\ q.at = "page" /\ n \in q.todo /\ disk' = Page(disk, n, q.pack.rev)
        /\ Become(p, Taken(q, n))
    BY <1>8, WriteEffects DEF WritePage
  <2>2. /\ Taken(q, n).at = "page" /\ Taken(q, n).pack = q.pack
        /\ Taken(q, n).rows = q.rows /\ Taken(q, n).todo = q.todo \ {n}
    BY <1>2, <2>1 DEF Taken, Locals
  <2>3. \A m \in Nodes : disk'.pages[m] = IF m = n THEN q.pack.rev ELSE disk.pages[m]
    BY <1>2, <1>3, <2>1, PageOK
  <2>4. n \in q.pack.records
    BY <1>2, <2>1 DEF WrittenOf
  <2>5. WrittenOf(Taken(q, n), disk')
    BY <1>2, <2>1, <2>2, <2>3, <2>4 DEF WrittenOf, PagesAre, Indexed, Packed, Rendered, Prompted
  <2>6. Kept(disk', log)
    BY <1>2, <1>3, <2>1, <2>4, PagesKept
  <2> HIDE DEF q
  <2> QED
    BY <1>1, <1>2, <2>1, <2>2, <2>5, <2>6, WritingFrame DEF q
<1> QED
  BY <1>5, <1>6, <1>7, <1>8

\* What each file leaves to be written
LEMMA StagesInOrder ==
  /\ Packed = {"markdown", "prompt", "manifest", "done"}
  /\ Rendered = {"prompt", "manifest", "done"}
  /\ Prompted = {"manifest", "done"}
  BY DEF Indexed, Packed, Rendered, Prompted

LEMMA FilesWritten ==
  ASSUME NEW d \in Disk, NEW q \in Locals, WrittenOf(q, d)
  PROVE  /\ q.at = "page" /\ q.todo = {} =>
              WrittenOf(At(q, "pack"), [d EXCEPT !.index = q.rows])
         /\ q.at = "pack" => WrittenOf(At(q, "markdown"), [d EXCEPT !.pack = q.pack])
         /\ q.at = "markdown" => WrittenOf(At(q, "prompt"), [d EXCEPT !.markdown = q.pack])
         /\ q.at = "prompt" => WrittenOf(At(q, "manifest"), [d EXCEPT !.prompt = q.pack])
         /\ q.at = "manifest" => WrittenOf(At(q, "done"), [d EXCEPT !.manifest = ManifestOf(q.pack)])
<1>1. \A l : At(q, l).at = l /\ At(q, l).pack = q.pack /\ At(q, l).rows = q.rows /\ At(q, l).todo = q.todo
  BY DEF At, Locals
<1>2. ASSUME q.at = "page", q.todo = {}
      PROVE  WrittenOf(At(q, "pack"), [d EXCEPT !.index = q.rows])
  <2>1. PagesAre(d, q.pack.records, q.pack.rev)
    BY <1>2 DEF WrittenOf, PagesAre
  <2> QED
    BY <1>1, <2>1, StagesInOrder, DiskType DEF WrittenOf, Indexed, PagesAre
<1>3. ASSUME q.at = "pack"
      PROVE  WrittenOf(At(q, "markdown"), [d EXCEPT !.pack = q.pack])
  BY <1>1, <1>3, StagesInOrder, DiskType DEF WrittenOf, Indexed, PagesAre
<1>4. ASSUME q.at = "markdown"
      PROVE  WrittenOf(At(q, "prompt"), [d EXCEPT !.markdown = q.pack])
  BY <1>1, <1>4, StagesInOrder, DiskType DEF WrittenOf, Indexed, PagesAre
<1>5. ASSUME q.at = "prompt"
      PROVE  WrittenOf(At(q, "manifest"), [d EXCEPT !.prompt = q.pack])
  BY <1>1, <1>5, StagesInOrder, DiskType DEF WrittenOf, Indexed, PagesAre
<1>6. ASSUME q.at = "manifest"
      PROVE  WrittenOf(At(q, "done"), [d EXCEPT !.manifest = ManifestOf(q.pack)])
  BY <1>1, <1>6, StagesInOrder, DiskType DEF WrittenOf, Indexed, PagesAre
<1> QED
  BY <1>2, <1>3, <1>4, <1>5, <1>6

LEMMA FilesInOrder ==
  ASSUME Typed, InOrder, Orderly, left'.orderly = left.orderly, NEW p \in Composers, WritesFile(p)
  PROVE  InOrder'
<1> DEFINE q == run[p]
<1>1. /\ q.at \in {"page", "pack", "markdown", "prompt", "manifest"}
      /\ q.at # "idle" /\ q.at \notin NoRows /\ UNCHANGED Inputs
  BY DEF WritesFile, WriteIndex, WritePack, WriteMarkdown, WritePrompt, WriteManifest,
         Unbound, NoNodes, NoGaps, NoRows
<1>2. /\ q \in Locals /\ LocalOK(q) /\ disk \in Disk
      /\ Len(log) \in Nat \ {0} /\ q.pack.rev = Len(log)
      /\ Kept(disk, log) /\ tree = log[Len(log)]
      /\ ReadOf(q, tree) /\ WrittenOf(q, disk)
  BY <1>1, AtWork
<1>3. Says(q.pack, log[Len(log)]) /\ q.pack \in Pack
  BY <1>1, <1>2, ReadSays DEF LocalOK, Unbound, NoNodes, NoGaps, NoRows
<1>4. ASSUME NEW l, Become(p, At(q, l)), Kept(disk', log), WrittenOf(At(q, l), disk')
      PROVE  InOrder'
  <2>1. At(q, l).pack = q.pack /\ At(q, l).rows = q.rows
    BY <1>2 DEF At, Locals
  <2> HIDE DEF q
  <2> QED
    BY <1>1, <1>4, <2>1, WritingFrame DEF q
<1>5. CASE WriteIndex(p)
  <2>1. /\ Become(p, At(q, "pack")) /\ disk' = [disk EXCEPT !.index = q.rows]
        /\ q.at = "page" /\ q.todo = {}
    BY <1>5, FileEffects DEF Wrote, WriteIndex
  <2>2. WrittenOf(At(q, "pack"), disk') /\ Kept(disk', log)
    BY <1>2, <1>3, <2>1, FilesWritten, FilesKept
  <2> QED
    BY <1>4, <2>1, <2>2
<1>6. CASE WritePack(p)
  <2>1. /\ Become(p, At(q, "markdown")) /\ disk' = [disk EXCEPT !.pack = q.pack]
        /\ q.at = "pack"
    BY <1>6, FileEffects DEF Wrote, WritePack
  <2>2. WrittenOf(At(q, "markdown"), disk') /\ Kept(disk', log)
    BY <1>2, <1>3, <2>1, FilesWritten, FilesKept
  <2> QED
    BY <1>4, <2>1, <2>2
<1>7. CASE WriteMarkdown(p)
  <2>1. /\ Become(p, At(q, "prompt")) /\ disk' = [disk EXCEPT !.markdown = q.pack]
        /\ q.at = "markdown"
    BY <1>7, FileEffects DEF Wrote, WriteMarkdown
  <2>2. WrittenOf(At(q, "prompt"), disk') /\ Kept(disk', log)
    BY <1>2, <1>3, <2>1, FilesWritten, FilesKept
  <2> QED
    BY <1>4, <2>1, <2>2
<1>8. CASE WritePrompt(p)
  <2>1. /\ Become(p, At(q, "manifest")) /\ disk' = [disk EXCEPT !.prompt = q.pack]
        /\ q.at = "prompt"
    BY <1>8, FileEffects DEF Wrote, WritePrompt
  <2>2. WrittenOf(At(q, "manifest"), disk') /\ Kept(disk', log)
    BY <1>2, <1>3, <2>1, FilesWritten, FilesKept
  <2> QED
    BY <1>4, <2>1, <2>2
<1>9. CASE WriteManifest(p)
  <2>1. /\ Become(p, At(q, "done")) /\ disk' = [disk EXCEPT !.manifest = ManifestOf(q.pack)]
        /\ q.at = "manifest"
    BY <1>9, FileEffects DEF Wrote, WriteManifest
  <2>2. PagesAre(disk, q.pack.records, q.pack.rev) /\ disk.markdown = q.pack /\ disk.prompt = q.pack
    BY <1>2, <2>1, StagesInOrder DEF WrittenOf, Indexed
  <2>3. WrittenOf(At(q, "done"), disk') /\ Kept(disk', log)
    BY <1>2, <1>3, <2>1, <2>2, FilesWritten, FilesKept
  <2> QED
    BY <1>4, <2>1, <2>3
<1> QED
  BY <1>5, <1>6, <1>7, <1>8, <1>9 DEF WritesFile

\* A compose that ends, in whatever way, leaves the disk as it is.
LEMMA EndInOrder ==
  ASSUME Typed, InOrder, Orderly, left'.orderly = left.orderly, NEW p \in Composers,
         Refuse(p) \/ Finish(p) \/ ComposerDies(p)
  PROVE  InOrder'
<1>1. Busy(p)
  BY BusyAt DEF Refuse, Finish, ComposerDies
<1>2. Become(p, Resting) /\ UNCHANGED <<Inputs, disk>>
  BY DEF Refuse, Finish, ComposerDies, Return, Become
<1>3. /\ \A q \in Composers \ {p} : ~Busy(q)
      /\ \A a \in Admins : admin[a] = Idle
      /\ ~dirty /\ Kept(disk', log)
  BY <1>1, <1>2, Sole DEF InOrder
<1> QED
  BY <1>2, <1>3, OrderFrame

\* In order the tree and the history change only while no compose runs.
LEMMA OthersInOrder ==
  ASSUME Typed, InOrder, Orderly, Edit \/ TopologyCommit \/ SubjectWork
  PROVE  InOrder'
<1>1. CASE \A p \in Composers : ~Busy(p)
  <2>1. run' = run /\ disk' = disk
    BY DEF Edit, TopologyCommit, SubjectWork, SubjectCommand, SubjectCommandDies, SubjectMoves
  <2>2. \A p \in Composers : ~Busy(p)'
    BY <1>1, <2>1 DEF Busy
  <2>3. Kept(disk, log)
    BY DEF InOrder
  <2>4. CASE TopologyCommit
    <3>1. log' = Append(log, tree) /\ log \in Seq(Tree) /\ tree \in Tree
      BY <2>4 DEF TopologyCommit, Typed
    <3>2. Kept(disk, log')
      BY <2>3, <3>1, CommitKept
    <3> QED
      BY <2>1, <2>2, <3>2 DEF InOrder, Alone
  <2>5. CASE Edit \/ SubjectWork
    <3>1. log' = log
      BY <2>5 DEF Edit, SubjectWork, SubjectCommand, SubjectCommandDies, SubjectMoves
    <3> QED
      BY <2>1, <2>2, <2>3, <3>1 DEF InOrder, Alone
  <2> QED
    BY <2>4, <2>5
<1>2. CASE \E p \in Composers : Busy(p)
  <2>1. PICK p \in Composers : Busy(p)
    BY <1>2
  <2>2. \A a \in Admins : admin[a] = Idle
    BY <2>1, Sole
  <2>3. SubjectMoves
    <3>1. ~Edit /\ ~TopologyCommit
      BY <2>1 DEF Edit, TopologyCommit, Begin, Quiet
    <3>2. ASSUME NEW a \in Admins PROVE ~AdminSteps(a) /\ ~AdminDies(a)
      BY <2>2 DEF AdminSteps, AdminDies, AddWrite, RefreshHead, RefreshReread, RefreshWrite, Idle
    <3>3. ~SubjectCommand
      BY <2>1, <3>2 DEF SubjectCommand, Begin, Quiet
    <3>4. ~SubjectCommandDies
      BY <3>2 DEF SubjectCommandDies
    <3> QED
      BY <3>1, <3>3, <3>4 DEF SubjectWork
  <2>4. /\ run' = run /\ disk' = disk /\ log' = log /\ tree' = tree /\ admin' = admin
        /\ left'.orderly = left.orderly
    BY <2>3, SubjectWorkKeeps DEF SubjectMoves, SubjectCommit, tree, SubjectWork
  <2> QED
    BY <2>4 DEF InOrder, Alone, Busy, dirty, HeadRev, Orderly
<1> QED
  BY <1>1, <1>2

LEMMA OrderKept == Typed /\ InOrder /\ [Next]_vars => InOrder'
<1> SUFFICES ASSUME Typed, InOrder, [Next]_vars PROVE InOrder'
  OBVIOUS
<1>1. CASE Next
  <2>1. left'.orderly = left.orderly
    <3>1. ASSUME NEW p \in Composers, Reads(p) \/ Writes(p) \/ ComposerDies(p)
          PROVE  left'.orderly = left.orderly
      BY <3>1, BeginKeeps, DyingKeeps DEF Reads, Start, Begin, Bind, ReadNodes, ReadGaps, ReadRefs,
         Writes, Refuse, ListPages, EndUnlink, UnlinkPage, WritePage, WritesFile, WriteIndex,
         WritePack, WriteMarkdown, WritePrompt, WriteManifest, Finish, ComposerDies, Typed
    <3>2. CASE Edit \/ TopologyCommit
      BY <3>2, BeginKeeps DEF Edit, TopologyCommit, Begin, Typed
    <3> QED
      BY <1>1, <3>1, <3>2, Cases, SubjectWorkKeeps
  <2>2. CASE ~Orderly
    BY <2>1, <2>2 DEF InOrder, Orderly
  <2>3. CASE Orderly
    <3>1. ASSUME NEW p \in Composers, Reads(p) PROVE InOrder'
      BY <2>1, <2>3, <3>1, ReadInOrder
    <3>2. ASSUME NEW p \in Composers, Writes(p) PROVE InOrder'
      BY <2>1, <2>3, <3>2, PagesInOrder, FilesInOrder, EndInOrder DEF Writes
    <3>3. ASSUME NEW p \in Composers, ComposerDies(p) PROVE InOrder'
      BY <2>1, <2>3, <3>3, EndInOrder
    <3> QED
      BY <1>1, <2>3, <3>1, <3>2, <3>3, Cases, OthersInOrder
  <2> QED
    BY <2>2, <2>3
<1>2. CASE UNCHANGED vars
  BY <1>2 DEF vars, InOrder, Alone, Busy, dirty, tree, HeadRev, Orderly
<1> QED
  BY <1>1, <1>2

LEMMA AlwaysInOrder == Spec => []InOrder
  BY InOrderInit, OrderKept, AlwaysTyped, PTL DEF Spec

-----------------------------------------------------------------------------
(* Orderly histories: what it gives *)

\* In an orderly history the pack on disk, whoever died before or after it was
\* written, says what was committed at the revision it names.
THEOREM PacksNameTheirRevision == Spec => []PackNamesItsRevision
<1>1. InOrder => PackNamesItsRevision
  BY DEF InOrder, Kept, KeptPack, Says, NodesOf, GapsOf, SubjectOf, RowsOf, PackNamesItsRevision
<1> QED
  BY <1>1, AlwaysInOrder, PTL

\* Two packs that say what the same tree has differ at most in the subject.
LEMMA SameTree ==
  ASSUME NEW t, NEW k \in Pack, NEW f \in Pack, Says(k, t), Says(f, t), f.rev = k.rev
  PROVE  /\ f.records = k.records /\ f.gaps = k.gaps
         /\ f.id = k.id => [f EXCEPT !.verified = FALSE] = [k EXCEPT !.verified = FALSE]
<1>1. f.records = k.records /\ f.gaps = k.gaps
  BY DEF Says, NodesOf, GapsOf
<1>2. ASSUME f.id = k.id
      PROVE  [f EXCEPT !.verified = FALSE] = [k EXCEPT !.verified = FALSE]
  <2>1. [location |-> f.location, head |-> f.head] = [location |-> k.location, head |-> k.head]
    BY <1>2 DEF Says, SubjectOf
  <2>2. f.location = k.location /\ f.head = k.head
    BY <2>1
  <2>3. f.count = k.count /\ f.truncated = k.truncated
    BY <1>2, <2>2 DEF Says, RowsOf
  <2> QED
    BY <1>1, <1>2, <2>2, <2>3 DEF Pack
<1> QED
  BY <1>1, <1>2

\* In an orderly history a projection doctor passes for HEAD of a clean tree is
\* the current tree: the records of the pack and of its renderings, the gaps,
\* and exactly the pages of what is shown.  The manifest is written last, and
\* whatever a later compose wrote before it died is no older.
THEOREM StalenessIsFound == Spec => []DoctorFindsStaleness
<1>1. Typed /\ InOrder => DoctorFindsStaleness
  <2> SUFFICES ASSUME Typed, InOrder, Orderly, ~dirty, disk.pack # NoFile, DoctorOK(HeadRev)
               PROVE  /\ disk.pack.records = Shown(nodes)
                      /\ disk.pages = [n \in Nodes |-> IF nodes[n] = "shown" THEN HeadRev ELSE 0]
                      /\ \A f \in {disk.markdown, disk.prompt} :
                           /\ f.rev = disk.pack.rev /\ f.records = disk.pack.records
                           /\ f.gaps = disk.pack.gaps
                           /\ f.id = disk.pack.id =>
                                [f EXCEPT !.verified = FALSE] = [disk.pack EXCEPT !.verified = FALSE]
    BY DEF DoctorFindsStaleness
  <2>1. /\ Kept(disk, log) /\ disk \in Disk /\ HeadRev = Len(log) /\ HeadRev \in Nat \ {0}
        /\ tree = log[HeadRev]
    BY ProjectionAssumption DEF InOrder, Typed, HeadRev, dirty
  <2>2. /\ disk.manifest # NoFile /\ disk.markdown # NoFile /\ disk.prompt # NoFile
        /\ disk.pack.rev = HeadRev /\ disk.manifest.rev = HeadRev
        /\ disk.manifest.pages \subseteq PagesOnDisk
    BY DEF DoctorOK
  <2>3. Says(disk.pack, tree) /\ disk.manifest.pages = Shown(nodes)
    BY <2>1, <2>2 DEF Kept, KeptPack, KeptManifest, tree
  <2>4. disk.pack.records = Shown(nodes)
    BY <2>3 DEF Says, NodesOf, tree
  <2>5. ASSUME NEW n \in Nodes
        PROVE  disk.pages[n] = IF nodes[n] = "shown" THEN HeadRev ELSE 0
    <3>1. disk.pages[n] # 0 => disk.pages[n] = HeadRev /\ n \in Shown(nodes)
      BY <2>1, <2>2 DEF Kept, KeptPages, Latest, tree
    <3>2. n \in Shown(nodes) => disk.pages[n] # 0
      BY <2>2, <2>3 DEF PagesOnDisk
    <3> QED
      BY <3>1, <3>2 DEF Shown
  <2>6. disk.pages = [n \in Nodes |-> IF nodes[n] = "shown" THEN HeadRev ELSE 0]
    BY <2>1, <2>5, DiskType
  <2>7. ASSUME NEW f \in {disk.markdown, disk.prompt}
        PROVE  /\ f.rev = disk.pack.rev /\ f.records = disk.pack.records
               /\ f.gaps = disk.pack.gaps
               /\ f.id = disk.pack.id =>
                    [f EXCEPT !.verified = FALSE] = [disk.pack EXCEPT !.verified = FALSE]
    <3>1. f \in Pack /\ disk.pack \in Pack
      BY <2>1, <2>2, DiskType
    <3>2. f.rev \in 1..Len(log) /\ Says(f, log[f.rev]) /\ f.rev >= disk.manifest.rev
      BY <2>1, <2>2 DEF Kept, KeptPack, Latest
    <3>3. f.rev = HeadRev
      BY <2>1, <2>2, <3>2
    <3> QED
      BY <2>1, <2>2, <2>3, <3>1, <3>2, <3>3, SameTree
  <2> QED
    BY <2>4, <2>6, <2>7
<1> QED
  BY <1>1, AlwaysTyped, AlwaysInOrder, PTL

\* In an orderly history a compose that comes to its end leaves a projection
\* that doctor and lint accept, whatever half-written one it found.
THEOREM ComposesHeal == Spec => []ComposeHeals
<1>1. Typed /\ InOrder => ComposeHeals
  <2> SUFFICES ASSUME Typed, InOrder, Orderly, NEW p \in Composers, run[p].at = "done"
               PROVE  DoctorOK(HeadRev) /\ LintOpenClawShape
    BY DEF ComposeHeals
  <2> DEFINE k == run[p].pack
  <2>1. /\ run[p] \in Locals /\ LocalOK(run[p]) /\ disk \in Disk
        /\ k.rev = HeadRev /\ HeadRev # 0
        /\ ReadOf(run[p], tree) /\ WrittenOf(run[p], disk)
    BY AtWork DEF HeadRev
  <2>2. /\ disk.pack = k /\ disk.markdown = k /\ disk.prompt = k
        /\ disk.manifest = ManifestOf(k) /\ disk.index = run[p].rows
        /\ PagesAre(disk, k.records, k.rev)
    BY <2>1, StagesInOrder DEF WrittenOf, Indexed
  <2>3. k \in Pack /\ Says(k, tree) /\ run[p].rows = ProjectedRows(refs, k.id, k.head)
    BY <2>1, ReadSays DEF LocalOK, ReadOf, Unbound, NoNodes, NoGaps, NoRows, tree
  <2> HIDE DEF k
  <2>4. ManifestOf(k) \in Manifest /\ ManifestOf(k).rev = k.rev /\ ManifestOf(k).id = k.id
        /\ ManifestOf(k).head = k.head /\ ManifestOf(k).pages = k.records
    BY <2>3 DEF ManifestOf, Manifest, Pack
  <2>5. NoFile \notin {disk.index, disk.pack, disk.markdown, disk.prompt, disk.manifest}
    <3>1. disk.index # NoFile
      BY <2>2, <2>3, RowsFit DEF Typed, tree, Tree
    <3> QED
      BY <2>2, <2>3, <2>4, <3>1, NoFileAssumption
  <2>6. BindingHolds(disk.pack)
    <3>1. subjects[k.id] = [location |-> k.location, head |-> k.head]
      BY <2>3 DEF Says, SubjectOf, tree
    <3>2. subjects[k.id] \in Row
      BY <2>3, <3>1 DEF Pack, Row
    <3> QED
      BY <2>2, <3>1, <3>2, SubjectAssumption DEF BindingHolds
  <2>7. IndexHolds(disk.pack)
    BY <2>2, <2>3 DEF IndexHolds, Says, RowsOf, tree
  <2>8. disk.manifest.pages \subseteq PagesOnDisk
    BY <2>1, <2>2, <2>3, <2>4 DEF PagesAre, PagesOnDisk, Pack
  <2>9. DoctorOK(HeadRev)
    BY <2>1, <2>2, <2>4, <2>5, <2>6, <2>7, <2>8 DEF DoctorOK
  <2>10. LintOpenClawShape
    BY <2>5, <2>6, <2>7, <2>8 DEF LintOpenClawShape
  <2> QED
    BY <2>9, <2>10
<1> QED
  BY <1>1, AlwaysTyped, AlwaysInOrder, PTL

=============================================================================
