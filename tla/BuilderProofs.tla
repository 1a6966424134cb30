--------------------------- MODULE BuilderProofs ---------------------------
(***************************************************************************)
(* The builder pack, for any number of packs, rows and composes: the types *)
(* of Pipeline, and for composes that come one after another and start     *)
(* from a clean tree that a pack shows the revision it names, that lint    *)
(* and doctor accept it, and that what it showed is pushed out only by     *)
(* rows of later applies whose clock did not move on.                      *)
(***************************************************************************)
EXTENDS PipelineProofs, FiniteSetTheorems

-----------------------------------------------------------------------------
(* Rows are numbered by the apply they came with, and say what its clock read *)

Count == Cardinality(applied)
\* The rows of registry r that the first n applies recorded
RowsBy(r, n) == {x \in rows : x.at <= n /\ x.record.op = OpOf[r]}

RowsNumbered ==
  /\ \A x \in rows : x.at \in 1..Count /\ x.second \in left.seconds
  /\ left.seconds \subseteq Nat
  /\ commits \in Seq(Nat) /\ rev = Len(commits) /\ rev > 0
  /\ \A v \in 1..rev : commits[v] \in 0..Count
  /\ ~dirty => commits[rev] = Count
Kinds ==
  /\ dirty \in BOOLEAN /\ last \in {"torn", "mixed", "whole"}
  /\ approved \subseteq applied
  /\ \A b \in Builders : run[b].rev \in 0..rev
  /\ DOMAIN builder = DOMAIN PartTypes
  /\ \A f \in DOMAIN PartTypes : builder[f] = NoPart \/ builder[f] \in PartTypes[f]
Numbered == RowsNumbered /\ Kinds

\* What a step leaves of the kind of the history
SameHistory == left'.careful = left.careful /\ left'.seconds = left.seconds
LEMMA HistoryKept ==
  ASSUME IngestInv, NEW command, May(command) \/ left' = left
  PROVE  SameHistory
  BY DEF May, IngestInv, History, SameHistory

\* A step outside apply, commit and compose
Elsewhere ==
  /\ UNCHANGED <<applied, rows, approved, rev, commits, builder, run, last>>
  /\ SameHistory
  /\ dirty' \in BOOLEAN /\ (dirty => dirty')
LEMMA Elsewheres ==
  ASSUME IngestInv, Numbered,
         \/ \E s \in Sources :
              \/ \E q \in left.requests : Ingest(s, q)
              \/ GoOnIngesting(s) \/ DieIngesting(s)
              \/ \E d \in left.answers, queued \in BOOLEAN : Digest(s, d, queued)
              \/ \E m \in Packs : Reconcile(m, s)
         \/ \E m \in Packs :
              (\E w \in Summaries : ProposeWriteback(m, w)) \/ WriteDelta(m) \/ WritebackDies(m)
         \/ UNCHANGED vars
  PROVE  Elsewhere
<1>1. left \in History /\ dirty \in BOOLEAN
  BY DEF IngestInv, Numbered, Kinds
<1>2. \A command : May(command) \/ left' = left => SameHistory
  BY HistoryKept
<1>3. ASSUME NEW s \in Sources,
             \/ \E q \in left.requests : Ingest(s, q)
             \/ GoOnIngesting(s) \/ DieIngesting(s)
      PROVE  Elsewhere
  BY <1>1, <1>2, <1>3 DEF Ingest, GoOnIngesting, DieIngesting, Elsewhere, curation, git, composing
<1>4. ASSUME NEW s \in Sources,
             \/ \E d \in left.answers, queued \in BOOLEAN : Digest(s, d, queued)
             \/ \E m \in Packs : Reconcile(m, s)
      PROVE  Elsewhere
  BY <1>1, <1>2, <1>4 DEF Digest, Reconcile, Elsewhere, composing
<1>5. ASSUME NEW m \in Packs,
             (\E w \in Summaries : ProposeWriteback(m, w)) \/ WriteDelta(m) \/ WritebackDies(m)
      PROVE  Elsewhere
  BY <1>1, <1>2, <1>5 DEF ProposeWriteback, WriteDelta, WritebackDies, Elsewhere, git, composing
<1>6. CASE UNCHANGED vars
  BY <1>1, <1>6 DEF vars, curation, git, composing, SameHistory, Elsewhere
<1> QED
  BY <1>3, <1>4, <1>5, <1>6

LEMMA CountBounded ==
  ASSUME CurationInv
  PROVE  IsFiniteSet(applied) /\ Count \in 0..MaxPack
<1>1. IsFiniteSet(Packs) /\ Cardinality(Packs) = MaxPack
  BY PipelineAssumption, FS_Interval DEF Packs
<1>2. applied \subseteq Packs
  BY DEF CurationInv, PacksInv
<1>3. IsFiniteSet(applied) /\ Count <= MaxPack
  BY <1>1, <1>2, FS_Subset DEF Count
<1> QED
  BY <1>3, FS_CardinalityType, PipelineAssumption DEF Count

LEMMA ApplyCounts ==
  ASSUME CurationInv, NEW m \in Packs, NEW a \in BOOLEAN, Apply(m, a)
  PROVE  /\ Count \in Nat /\ Count' = Count + 1
         /\ rows \subseteq rows'
         /\ \A x \in rows' : x \in rows \/ (x.at = Count + 1 /\ x.second \in left.seconds)
<1>1. IsFiniteSet(applied) /\ Count \in Nat
  BY CountBounded, PipelineAssumption
<1>2. applied' = applied \cup {m} /\ m \notin applied
  BY DEF Apply
<1>3. Count' = Count + 1
  BY <1>1, <1>2, FS_AddElement DEF Count
<1>4. PICK clock \in [DOMAIN mutation[m].changes -> left.seconds] :
        rows' = rows \cup {Row(m, i, Count + 1, clock[i]) : i \in DOMAIN clock}
  BY DEF Apply, Count
<1>5. \A i \in DOMAIN clock : /\ Row(m, i, Count + 1, clock[i]).at = Count + 1
                             /\ Row(m, i, Count + 1, clock[i]).second \in left.seconds
  BY DEF Row
<1> QED
  BY <1>1, <1>3, <1>4, <1>5

LEMMA RowsHaveIds ==
  ASSUME CurationInv
  PROVE  \A x \in rows : x.id \in Ids /\ x.id[1] = x.pack /\ x.pack \in applied
<1> SUFFICES ASSUME NEW x \in rows
             PROVE  x.id \in Ids /\ x.id[1] = x.pack /\ x.pack \in applied
  OBVIOUS
<1>1. x.pack \in applied /\ x.pack \in Packs /\ Stored(x.pack)
  BY DEF CurationInv, PacksInv, Recorded
<1>2. PICK i \in DOMAIN mutation[x.pack].changes : x.id = <<x.pack, i>>
  BY DEF CurationInv, Recorded
<1>3. mutation[x.pack].changes \in Seq(GoodChange)
  BY <1>1 DEF CurationInv, PacksInv
<1>4. i \in Nat \ {0}
  BY <1>3, LenProperties
<1> QED
  BY <1>1, <1>2, <1>4 DEF Ids

\* What compose makes of rows has the type of its files.
LEMMA PackTyped ==
  ASSUME CurationInv, NEW read \in Reading, NEW n \in Nat, NEW f \in DOMAIN PartTypes
  PROVE  PackFor(n, read)[f] \in PartTypes[f]
<1> DEFINE k == PackFor(n, read)
           nodes == VisibleRows(read.nodes, RowLimit)
<1>1. \A ids, limit : FirstIds(ids, limit) \subseteq ids
  BY DEF FirstIds
<1>2. \A x \in rows : x.id \in Ids
  BY RowsHaveIds
<1>3. nodes \subseteq rows
  BY DEF VisibleRows, Bounded, Reading
<1>4. /\ IdsOf(nodes) \in SUBSET Ids
      /\ IdsOf(VisibleRows(read.claims, RowLimit)) \in SUBSET Ids
      /\ IdsOf(VisibleRows(read.edges, RowLimit)) \in SUBSET Ids
      /\ IdsOf(VisibleRows(read.gaps, GapLimit)) \in SUBSET Ids
      /\ \A type : OfType(nodes, type) \in SUBSET Ids
  BY <1>2 DEF OfType, IdsOf, VisibleRows, Bounded, Reading
<1>5. /\ ContradictionEdges(read.edges, IdsOf(nodes)) \in SUBSET Ids
      /\ ContradictionEdges(VisibleRows(read.edges, RowLimit), IdsOf(nodes)) \in SUBSET Ids
  BY <1>2 DEF ContradictionEdges, IdsOf, VisibleRows, Bounded, Reading
<1>6. /\ k.metadata = n
      /\ k.constraints = ConstraintsFor(nodes, read.edges)
      /\ k.tests = RelationshipTestsFor(nodes)
      /\ k.bundle = PublicBundle(read.claims, read.edges, nodes, read.gaps)
      /\ k.targets = "fields"
      /\ k.brief = BriefFor(n, nodes, read.edges, read.gaps)
  BY DEF PackFor
<1> HIDE DEF k, nodes
<1>7. k.metadata \in PartTypes.metadata /\ k.targets \in PartTypes.targets
  BY <1>6 DEF PartTypes
<1>8. k.constraints \in PartTypes.constraints
  BY <1>1, <1>4, <1>5, <1>6 DEF PartTypes, ConstraintsFor, Pressure
<1>9. k.tests \in PartTypes.tests
  BY <1>4, <1>6 DEF PartTypes, RelationshipTestsFor
<1>10. k.bundle \in PartTypes.bundle
  BY <1>4, <1>6 DEF PartTypes, PublicBundle
<1>11. k.brief \in PartTypes.brief
  BY <1>1, <1>4, <1>5, <1>6 DEF PartTypes, BriefFor, Pressure
<1>12. f \in {"metadata", "constraints", "tests", "bundle", "targets", "brief"}
  BY DEF PartTypes
<1> QED
  BY <1>7, <1>8, <1>9, <1>10, <1>11, <1>12 DEF k

LEMMA NumberedInit == Init => Numbered
<1> SUFFICES ASSUME Init PROVE Numbered
  OBVIOUS
<1>1. Count = 0
  BY FS_EmptySet DEF Init, Count
<1>2. commits = <<0>> /\ rev = 1 /\ rows = {} /\ dirty = FALSE /\ applied = {} /\ approved = {}
  BY DEF Init
<1>3. commits \in Seq(Nat) /\ Len(commits) = 1 /\ commits[1] = 0
  BY <1>2
<1>4. RowsNumbered
  <2>1. left.seconds \subseteq Nat
    BY PipelineAssumption DEF Init, History
  <2> QED
    BY <1>1, <1>2, <1>3, <2>1 DEF RowsNumbered
<1>5. \A f \in DOMAIN PartTypes : builder[f] = NoPart
  BY DEF Init, NoBuilderPack, PackFiles, PartTypes
<1>6. DOMAIN builder = DOMAIN PartTypes
  BY DEF Init, NoBuilderPack, PackFiles, PartTypes
<1>7. \A b \in Builders : run[b].rev \in 0..rev
  BY <1>2 DEF Init, Resting
<1>8. last = "torn"
  BY DEF Init
<1> QED
  BY <1>2, <1>4, <1>5, <1>6, <1>7, <1>8 DEF Numbered, Kinds

LEMMA ElsewhereNumbered ==
  ASSUME Numbered, Elsewhere
  PROVE  Numbered'
<1>1. Count' = Count
  BY DEF Elsewhere, Count
<1>2. RowsNumbered'
  BY <1>1 DEF Elsewhere, SameHistory, Numbered, RowsNumbered
<1>3. Kinds'
  BY DEF Elsewhere, Numbered, Kinds
<1> QED
  BY <1>2, <1>3 DEF Numbered

LEMMA ApplyNumbered ==
  ASSUME CurationInv, ReaderInv, Numbered, NEW m \in Packs, NEW a \in BOOLEAN, Apply(m, a)
  PROVE  Numbered'
<1>1. /\ Count \in Nat /\ Count' = Count + 1
      /\ \A x \in rows' : x \in rows \/ (x.at = Count + 1 /\ x.second \in left.seconds)
  BY ApplyCounts
<1>2. /\ UNCHANGED <<rev, commits, builder, last, left>> /\ dirty' = TRUE
      /\ applied' = applied \cup {m}
      /\ approved' = IF a THEN approved \cup {m} ELSE approved
  BY DEF Apply
<1>3. RowsNumbered'
  <2>1. \A x \in rows' : x.at \in 1..Count' /\ x.second \in left.seconds
    BY <1>1 DEF Numbered, RowsNumbered
  <2>2. \A v \in 1..rev : commits[v] \in 0..Count'
    BY <1>1 DEF Numbered, RowsNumbered
  <2> QED
    BY <1>2, <2>1, <2>2 DEF Numbered, RowsNumbered
<1>4. \A b \in Builders : run'[b].rev = run[b].rev
  BY DEF Apply, ReaderInv, Composer
<1>5. Kinds'
  BY <1>2, <1>4 DEF Numbered, Kinds
<1> QED
  BY <1>3, <1>5 DEF Numbered

LEMMA CommitNumbered ==
  ASSUME IngestInv, CurationInv, Numbered, Commit
  PROVE  Numbered'
<1>1. /\ rev' = rev + 1 /\ dirty' = FALSE /\ commits' = Append(commits, Count)
      /\ UNCHANGED <<applied, rows, approved, builder, run, last>>
  BY DEF Commit, curation, composing, Count
<1>h. SameHistory
  BY HistoryKept DEF Commit
<1>2. Count' = Count /\ Count \in Nat
  BY <1>1, CountBounded, PipelineAssumption DEF Count
<1>3. /\ commits' \in Seq(Nat) /\ rev' = Len(commits') /\ rev' > 0
      /\ \A v \in 1..rev : commits'[v] = commits[v]
      /\ commits'[rev'] = Count
  BY <1>1, <1>2 DEF Numbered, RowsNumbered
<1>4. \A v \in 1..rev' : commits'[v] \in 0..Count
  BY <1>1, <1>2, <1>3 DEF Numbered, RowsNumbered
<1>5. RowsNumbered'
  BY <1>1, <1>h, <1>2, <1>3, <1>4 DEF SameHistory, Numbered, RowsNumbered
<1>6. \A b \in Builders : run[b].rev \in 0..rev'
  BY <1>1 DEF Numbered, RowsNumbered, Kinds
<1>7. Kinds'
  BY <1>1, <1>6 DEF Numbered, Kinds
<1> QED
  BY <1>5, <1>7 DEF Numbered

LEMMA ComposeNumbered ==
  ASSUME IngestInv, CurationInv, ReaderInv, Numbered, NEW b \in Builders,
         StartCompose(b) \/ ReadRegistry(b) \/ WriteFile(b) \/ ComposerDies(b)
  PROVE  Numbered'
<1>1. UNCHANGED <<applied, rows, approved, rev, commits, dirty>>
  BY DEF StartCompose, ReadRegistry, WriteFile, ComposerDies, curation, git
<1>h. SameHistory
  BY HistoryKept DEF StartCompose, ReadRegistry, WriteFile, ComposerDies
<1>2. Count' = Count /\ RowsNumbered'
  BY <1>1, <1>h DEF SameHistory, Numbered, RowsNumbered, Count
<1>r. run[b] \in Composer /\ DOMAIN run = Builders /\ run[b].rev \in 0..rev /\ rev \in Nat
  BY DEF ReaderInv, Composer, Numbered, Kinds, CurationInv
<1>3. \A c \in Builders : run'[c].rev \in 0..rev
  <2>1. \A c \in Builders \ {b} : run'[c] = run[c]
    BY DEF StartCompose, ReadRegistry, WriteFile, ComposerDies, ReaderInv
  <2>2. run'[b].rev \in {0, rev, run[b].rev}
    <3>1. CASE StartCompose(b)
      <4>1. run' = [run EXCEPT ![b] = [Resting EXCEPT !.step = 1, !.rev = rev]]
        BY <3>1 DEF StartCompose
      <4>2. [Resting EXCEPT !.step = 1, !.rev = rev].rev = rev
        BY DEF Resting
      <4> QED
        BY <1>r, <4>1, <4>2
    <3>2. CASE ReadRegistry(b)
      BY <1>r, <3>2 DEF ReadRegistry, Composer
    <3>3. CASE WriteFile(b)
      BY <1>r, <3>3 DEF WriteFile, Composer, Resting
    <3>4. CASE ComposerDies(b)
      BY <1>r, <3>4 DEF ComposerDies, Resting
    <3> QED
      BY <3>1, <3>2, <3>3, <3>4
  <2> QED
    BY <1>r, <2>1, <2>2 DEF Numbered, Kinds
<1>4. last' \in {"torn", "mixed", "whole"}
  BY DEF StartCompose, ReadRegistry, WriteFile, ComposerDies, Numbered, Kinds
<1>5. /\ DOMAIN builder' = DOMAIN PartTypes
      /\ \A f \in DOMAIN PartTypes : builder'[f] = NoPart \/ builder'[f] \in PartTypes[f]
  <2>1. CASE ~WriteFile(b)
    <3>1. builder' = builder
      BY <2>1 DEF StartCompose, ReadRegistry, ComposerDies
    <3> QED
      BY <3>1 DEF Numbered, Kinds
  <2>2. CASE WriteFile(b)
    <3> DEFINE f == PackFiles[run[b].step - 4]
               k == PackFor(run[b].rev, run[b].read)
    <3>1. builder' = [builder EXCEPT ![f] = k[f]]
      BY <2>2 DEF WriteFile
    <3>2. \A g \in DOMAIN PartTypes : k[g] \in PartTypes[g]
      BY <1>r, PackTyped DEF Composer
    <3> HIDE DEF f, k
    <3> QED
      BY <3>1, <3>2 DEF Numbered, Kinds
  <2> QED
    BY <2>1, <2>2
<1>6. Kinds'
  BY <1>1, <1>3, <1>4, <1>5 DEF Numbered, Kinds
<1> QED
  BY <1>2, <1>6 DEF Numbered

LEMMA NumberedNext ==
  IngestInv /\ CurationInv /\ ReaderInv /\ Numbered /\ [Next]_vars => Numbered'
<1> SUFFICES ASSUME IngestInv, CurationInv, ReaderInv, Numbered, [Next]_vars PROVE Numbered'
  OBVIOUS
<1>1. ASSUME NEW m \in Packs, NEW a \in BOOLEAN, Apply(m, a) PROVE Numbered'
  BY <1>1, ApplyNumbered
<1>2. CASE Commit
  BY <1>2, CommitNumbered
<1>3. ASSUME NEW b \in Builders,
             StartCompose(b) \/ ReadRegistry(b) \/ WriteFile(b) \/ ComposerDies(b)
      PROVE  Numbered'
  BY <1>3, ComposeNumbered
<1>4. CASE Elsewhere
  BY <1>4, ElsewhereNumbered
<1> QED
  BY <1>1, <1>2, <1>3, <1>4, Elsewheres DEF Next

LEMMA NumberedAlways == Spec => [](IngestInv /\ CurationInv /\ ReaderInv /\ Numbered)
  BY IngestInvInit, IngestInvNext, CurationInvInit, CurationInvNext, ReaderInvInit, ReaderInvNext,
     NumberedInit, NumberedNext, PTL DEF Spec

\* Of any number of sources, packs, sessions and composes, the state has its
\* types; what was approved was applied, and a row names the pack it came with.
THEOREM TypeCorrect == Spec => []TypeOK
<1>1. IngestInv /\ CurationInv /\ ReaderInv /\ Numbered => TypeOK
  <2> SUFFICES ASSUME IngestInv, CurationInv, ReaderInv, Numbered PROVE TypeOK
    OBVIOUS
  <2>1. IngestTypeOK
    BY DEF IngestInv, IngestTyped, IngestTypeOK, Directory, Call
  <2>2. /\ digests \in [Sources -> Digests \cup {NoDigest}]
        /\ mutation \in [Packs -> Pack \cup {NoFile}]
        /\ applied \subseteq Packs /\ writing \subseteq Packs /\ approved \subseteq applied
    BY DEF CurationInv, PacksInv, Numbered, Kinds
  <2>3. delta \in [Packs -> (SUBSET Ids) \cup {NoPart}]
    <3>1. ASSUME NEW m \in Packs, delta[m] # NoPart PROVE delta[m] \in SUBSET Ids
      <4>1. Stored(m) /\ delta[m] = InvariantsOf(m)
        BY <3>1 DEF CurationInv
      <4>2. DOMAIN mutation[m].changes \subseteq Nat \ {0}
        BY <4>1, LenProperties DEF CurationInv, PacksInv
      <4> QED
        BY <4>1, <4>2 DEF InvariantsOf, Ids
    <3>2. delta = [m \in Packs |-> delta[m]]
      BY DEF CurationInv
    <3>3. [m \in Packs |-> delta[m]] \in [Packs -> (SUBSET Ids) \cup {NoPart}]
      <4> DEFINE T == (SUBSET Ids) \cup {NoPart}
      <4>1. \A m \in Packs : delta[m] \in T
        BY <3>1
      <4> HIDE DEF T
      <4>2. [m \in Packs |-> delta[m]] \in [Packs -> T]
        BY <4>1
      <4> QED
        BY <4>2 DEF T
    <3> QED
      BY ONLY <3>2, <3>3, Zenon
  <2>4. \A x \in rows : /\ x.pack \in applied /\ x.id[1] = x.pack
                       /\ x.at \in 1..MaxPack /\ x.second \in left.seconds
    BY RowsHaveIds, CountBounded, PipelineAssumption DEF Numbered, RowsNumbered
  <2>5. rev = Len(commits) /\ \A r \in DOMAIN commits : commits[r] \in 0..MaxPack
    BY CountBounded, PipelineAssumption DEF Numbered, RowsNumbered
  <2>6. \A b \in Builders : run[b].step \in 0..10 /\ run[b].rev \in 0..rev
    BY DEF ReaderInv, Composer, Numbered, Kinds
  <2> QED
    BY <2>1, <2>2, <2>3, <2>4, <2>5, <2>6 DEF TypeOK, Numbered, Kinds
<1> QED
  BY <1>1, NumberedAlways, PTL

-----------------------------------------------------------------------------
(* Careful composes *)

\* What a compose has read of a registry is what some applies had recorded; if
\* nothing was applied while it read, those its revision holds.
HasRead(c, i) == i \in 1..4 /\ i < c.step
ReadBy(c, i, n) == c.read[RegistryOrder[i]] = RowsBy(RegistryOrder[i], n)
ReadOK(c) ==
  /\ c.rev \in 1..rev
  /\ \A i \in 1..4 : HasRead(c, i) => \E n \in 0..Count : ReadBy(c, i, n)
  /\ ~c.mixed => /\ c.step \in 1..4 => commits[c.rev] = Count
                 /\ \A i \in 1..4 : HasRead(c, i) => ReadBy(c, i, commits[c.rev])
\* The files it has written are those of its pack.
FilesOK(c) ==
  c.step \in 6..10 =>
    /\ last = "torn"
    /\ \A i \in 1..(c.step - 5) : builder[PackFiles[i]] = PackFor(c.rev, c.read)[PackFiles[i]]

\* The rows a bundle shows of a registry are those that are visible of what the
\* first n applies recorded, and whoever has read the registry since has read
\* as much.
LimitOf == [claims |-> RowLimit, edges |-> RowLimit, nodes |-> RowLimit, gaps |-> GapLimit]
ShownBy(r, n) == IdsOf(VisibleRows(RowsBy(r, n), LimitOf[r]))
BundleShows(i, n) ==
  /\ builder.bundle[RegistryOrder[i]] = ShownBy(RegistryOrder[i], n)
  /\ \A b \in Builders : HasRead(run[b], i) => \E m \in n..Count : ReadBy(run[b], i, m)
BundleOK ==
  builder.bundle # NoPart => \A i \in 1..4 : \E n \in 0..Count : BundleShows(i, n)

\* All that was recorded by the first n applies
ReadingAt(n) == [r \in DOMAIN OpOf |-> RowsBy(r, n)]
LastOK ==
  /\ last # "torn" => LintRuntime(builder) /\ DoctorBuilderPack(builder)
  /\ last = "whole" => /\ builder.metadata \in 1..rev
                       /\ builder = PackFor(builder.metadata, ReadingAt(commits[builder.metadata]))
OneAtATime == \A a, b \in Builders : run[a] # Resting /\ run[b] # Resting => a = b
ComposesOK == \A b \in Builders : run[b] # Resting => ReadOK(run[b]) /\ FilesOK(run[b])
CarefulInv == Careful => OneAtATime /\ ComposesOK /\ BundleOK /\ LastOK

LEMMA CarefulInit == Init => CarefulInv
<1> SUFFICES ASSUME Init PROVE OneAtATime /\ ComposesOK /\ BundleOK /\ LastOK
  BY DEF CarefulInv
<1>1. /\ \A b \in Builders : run[b] = Resting
      /\ last = "torn"
  BY DEF Init
<1>2. builder.bundle = NoPart
  BY DEF Init, NoBuilderPack, PackFiles
<1> QED
  BY <1>1, <1>2 DEF OneAtATime, ComposesOK, BundleOK, LastOK

\* A commit, and a step elsewhere, change nothing that a compose has read.
LEMMA CommitCareful ==
  ASSUME CurationInv, Numbered, CarefulInv, left'.careful = left.careful,
         UNCHANGED <<applied, rows, builder, run, last>>,
         rev' \in Nat, rev' >= rev, \A v \in 1..rev : commits'[v] = commits[v]
  PROVE  CarefulInv'
<1> SUFFICES ASSUME Careful PROVE (OneAtATime /\ ComposesOK /\ BundleOK /\ LastOK)'
  BY DEF CarefulInv, Careful
<1>1. OneAtATime /\ ComposesOK /\ BundleOK /\ LastOK
  BY DEF CarefulInv
<1>2. Count' = Count /\ \A r, n : RowsBy(r, n)' = RowsBy(r, n)
  BY DEF Count, RowsBy
<1>3. OneAtATime'
  BY <1>1 DEF OneAtATime
<1>4. ComposesOK'
  <2> SUFFICES ASSUME NEW b \in Builders, run[b] # Resting
               PROVE  ReadOK(run[b])' /\ FilesOK(run[b])'
    BY DEF ComposesOK
  <2>1. ReadOK(run[b]) /\ FilesOK(run[b])
    BY <1>1 DEF ComposesOK
  <2>2. ReadOK(run[b])'
    <3>1. rev \in Nat /\ run[b].rev \in 1..rev /\ UNCHANGED run
      BY <2>1 DEF ReadOK, CurationInv
    <3>2. run'[b].rev \in 1..rev' /\ commits'[run'[b].rev] = commits[run[b].rev]
      BY <3>1
    <3>3. \A i, n : ReadBy(run[b], i, n)' <=> ReadBy(run[b], i, n)
      BY <1>2 DEF ReadBy
    <3>4. \A i \in 1..4 : HasRead(run[b], i)' =>
            /\ \E n \in 0..Count' : ReadBy(run[b], i, n)'
            /\ ~run[b].mixed => ReadBy(run[b], i, commits[run[b].rev])
      BY <1>2, <2>1, <3>3 DEF ReadOK, HasRead
    <3> QED
      BY <1>2, <2>1, <3>2, <3>3, <3>4 DEF ReadOK, HasRead, ReadBy
  <2>3. FilesOK(run[b])'
    BY <2>1 DEF FilesOK
  <2> QED
    BY <2>2, <2>3
<1>5. BundleOK'
  BY <1>1, <1>2 DEF BundleOK, BundleShows, ShownBy, ReadBy, HasRead
<1>6. LastOK'
  <2>1. \A n : ReadingAt(n)' = ReadingAt(n)
    BY <1>2 DEF ReadingAt
  <2>2. last = "whole" =>
          /\ builder.metadata \in 1..rev' /\ commits'[builder.metadata] = commits[builder.metadata]
    BY <1>1 DEF LastOK, CurationInv
  <2> QED
    BY <1>1, <2>1, <2>2 DEF LastOK
<1> QED
  BY <1>3, <1>4, <1>5, <1>6

\* What the first n applies recorded stays what it is when another one comes.
LEMMA RowsKept ==
  ASSUME CurationInv, NEW m \in Packs, NEW a \in BOOLEAN, Apply(m, a)
  PROVE  \A r, n : n \in 0..Count => RowsBy(r, n)' = RowsBy(r, n)
<1>1. /\ Count \in Nat /\ rows \subseteq rows'
      /\ \A x \in rows' : x \in rows \/ x.at = Count + 1
  BY ApplyCounts
<1> QED
  BY <1>1 DEF RowsBy

LEMMA ApplyCareful ==
  ASSUME CurationInv, ReaderInv, Numbered, CarefulInv,
         NEW m \in Packs, NEW a \in BOOLEAN, Apply(m, a)
  PROVE  CarefulInv'
<1> SUFFICES ASSUME Careful PROVE (OneAtATime /\ ComposesOK /\ BundleOK /\ LastOK)'
  BY DEF CarefulInv, Careful, Apply
<1>1. OneAtATime /\ ComposesOK /\ BundleOK /\ LastOK
  BY DEF CarefulInv
<1>2. /\ Count \in Nat /\ Count' = Count + 1
      /\ \A r, n : n \in 0..Count => RowsBy(r, n)' = RowsBy(r, n)
  BY ApplyCounts, RowsKept
<1>3. /\ UNCHANGED <<rev, commits, builder, last>>
      /\ \A v \in 1..rev : commits[v] \in 0..Count
  BY DEF Apply, Numbered, RowsNumbered
<1>4. ASSUME NEW b \in Builders
      PROVE  /\ run[b] \in Composer
             /\ run'[b].step = run[b].step /\ run'[b].rev = run[b].rev
             /\ run'[b].read = run[b].read
             /\ run'[b].mixed = (run[b].mixed \/ run[b].step \in 1..4)
             /\ run'[b] # Resting => run[b] # Resting
  <2>1. run[b] \in Composer
    BY DEF ReaderInv
  <2>2. run'[b] = IF run[b].step \in 1..4 THEN [run[b] EXCEPT !.mixed = TRUE] ELSE run[b]
    BY DEF Apply
  <2>3. run[b] = Resting => run[b].step \notin 1..4
    BY DEF Resting
  <2> QED
    BY <2>1, <2>2, <2>3 DEF Composer
<1>5. OneAtATime'
  BY <1>1, <1>4 DEF OneAtATime
<1>6. ComposesOK'
  <2> SUFFICES ASSUME NEW b \in Builders, run'[b] # Resting
               PROVE  ReadOK(run[b])' /\ FilesOK(run[b])'
    BY DEF ComposesOK, Resting
  <2>1. ReadOK(run[b]) /\ FilesOK(run[b])
    BY <1>1, <1>4 DEF ComposesOK
  <2>2. \A i, n : n \in 0..Count /\ ReadBy(run[b], i, n) => ReadBy(run[b], i, n)'
    BY <1>2, <1>4 DEF ReadBy
  <2>3. \A i \in 1..4 : HasRead(run[b], i)' => HasRead(run[b], i)
    BY <1>4 DEF HasRead
  <2>4. ReadOK(run[b])'
    <3>1. run'[b].rev \in 1..rev'
      BY <1>3, <1>4, <2>1 DEF ReadOK
    <3>2. ASSUME NEW i \in 1..4, HasRead(run[b], i)' PROVE \E n \in 0..Count' : ReadBy(run[b], i, n)'
      <4>1. PICK n \in 0..Count : ReadBy(run[b], i, n)
        BY <2>1, <2>3, <3>2 DEF ReadOK
      <4>2. n \in 0..Count' /\ ReadBy(run[b], i, n)'
        BY <1>2, <2>2, <4>1
      <4> QED
        BY <4>2
    <3>3. ASSUME ~run'[b].mixed
          PROVE  /\ run'[b].step \notin 1..4
                 /\ \A i \in 1..4 : HasRead(run[b], i)' => ReadBy(run[b], i, commits[run[b].rev])'
      <4>1. ~run[b].mixed /\ run[b].step \notin 1..4
        BY <1>4, <3>3
      <4>2. commits[run[b].rev] \in 0..Count
        BY <1>3, <2>1 DEF ReadOK
      <4>3. ASSUME NEW i \in 1..4, HasRead(run[b], i)'
            PROVE  ReadBy(run[b], i, commits[run[b].rev])'
        <5>1. ReadBy(run[b], i, commits[run[b].rev])
          BY <2>1, <2>3, <4>1, <4>3 DEF ReadOK
        <5> QED
          BY <1>2, <1>3, <1>4, <4>2, <5>1 DEF ReadBy
      <4> QED
        BY <1>4, <4>1, <4>3
    <3> QED
      BY <3>1, <3>2, <3>3 DEF ReadOK
  <2>5. FilesOK(run[b])'
    BY <1>3, <1>4, <2>1 DEF FilesOK
  <2> QED
    BY <2>4, <2>5
<1>7. BundleOK'
  <2> SUFFICES ASSUME builder.bundle # NoPart, NEW i \in 1..4
               PROVE  \E n \in 0..Count' : BundleShows(i, n)'
    BY <1>3 DEF BundleOK
  <2>1. PICK n \in 0..Count : BundleShows(i, n)
    BY <1>1 DEF BundleOK
  <2>2. n \in 0..Count' /\ builder'.bundle[RegistryOrder[i]] = ShownBy(RegistryOrder[i], n)'
    BY <1>2, <1>3, <2>1 DEF BundleShows, ShownBy
  <2>3. ASSUME NEW b \in Builders, HasRead(run[b], i)'
        PROVE  \E k \in n..Count' : ReadBy(run[b], i, k)'
    <3>1. HasRead(run[b], i)
      BY <1>4, <2>3 DEF HasRead
    <3>2. PICK k \in n..Count : ReadBy(run[b], i, k)
      BY <2>1, <3>1 DEF BundleShows
    <3>3. k \in n..Count' /\ ReadBy(run[b], i, k)'
      BY <1>2, <1>4, <3>2 DEF ReadBy
    <3> QED
      BY <3>3
  <2> QED
    BY <2>2, <2>3 DEF BundleShows
<1>8. LastOK'
  <2>1. last = "whole" => /\ builder.metadata \in 1..rev
                          /\ commits[builder.metadata] \in 0..Count
    BY <1>1, <1>3 DEF LastOK
  <2>2. \A n \in 0..Count : ReadingAt(n)' = ReadingAt(n)
    BY <1>2 DEF ReadingAt
  <2> QED
    BY <1>1, <1>3, <2>1, <2>2 DEF LastOK
<1> QED
  BY <1>5, <1>6, <1>7, <1>8

\* The steps of compose b: it becomes c and the others stay what they are.
Becomes(b, c) == /\ UNCHANGED <<applied, rows, rev, commits, dirty>>
                 /\ run' = [run EXCEPT ![b] = c]
                 /\ left'.careful = left.careful
LEMMA OthersRest ==
  ASSUME ReaderInv, NEW b \in Builders, NEW c, Becomes(b, c),
         \A d \in Builders : d # b => run[d] = Resting
  PROVE  /\ run'[b] = c
         /\ \A d \in Builders : d # b => run'[d] = Resting /\ \A i : ~HasRead(run[d], i)'
         /\ OneAtATime'
         /\ Count' = Count
         /\ \A r, n : RowsBy(r, n)' = RowsBy(r, n)
<1>1. run'[b] = c /\ \A d \in Builders : d # b => run'[d] = Resting
  BY DEF Becomes, ReaderInv
<1>2. \A d \in Builders : d # b => \A i : ~HasRead(run[d], i)'
  BY <1>1 DEF HasRead, Resting
<1>3. OneAtATime'
  BY <1>1 DEF OneAtATime, Resting
<1> QED
  BY <1>1, <1>2, <1>3 DEF Becomes, Count, RowsBy

\* A step that writes no file keeps what the bundle shows, as long as nobody
\* reads less than all that was recorded.
LEMMA BundleKept ==
  ASSUME ReaderInv, Numbered, CurationInv, BundleOK, NEW b \in Builders, NEW c, Becomes(b, c),
         \A d \in Builders : d # b => run[d] = Resting,
         builder'.bundle = builder.bundle,
         \A i \in 1..4 : HasRead(c, i) =>
           ReadBy(c, i, Count) \/ (HasRead(run[b], i) /\ \A n : ReadBy(run[b], i, n) => ReadBy(c, i, n))
  PROVE  BundleOK'
<1>1. /\ run'[b] = c
      /\ \A d \in Builders : d # b => \A i : ~HasRead(run[d], i)'
      /\ Count' = Count /\ Count \in Nat
      /\ \A r, n : RowsBy(r, n)' = RowsBy(r, n)
  BY OthersRest, CountBounded, PipelineAssumption
<1> SUFFICES ASSUME builder.bundle # NoPart, NEW i \in 1..4
             PROVE  \E n \in 0..Count' : BundleShows(i, n)'
  BY DEF BundleOK
<1>2. PICK n \in 0..Count : BundleShows(i, n)
  BY DEF BundleOK
<1>3. n \in 0..Count' /\ builder'.bundle[RegistryOrder[i]] = ShownBy(RegistryOrder[i], n)'
  BY <1>1, <1>2 DEF BundleShows, ShownBy
<1>4. ASSUME NEW d \in Builders, HasRead(run[d], i)'
      PROVE  \E m \in n..Count' : ReadBy(run[d], i, m)'
  <2>1. d = b /\ HasRead(c, i)
    BY <1>1, <1>4 DEF HasRead
  <2>2. \E m \in n..Count : ReadBy(c, i, m)
    <3>1. CASE ReadBy(c, i, Count)
      BY <1>1, <3>1
    <3>2. CASE ~ReadBy(c, i, Count)
      <4>1. HasRead(run[b], i)
        BY <2>1, <3>2
      <4>2. PICK m \in n..Count : ReadBy(run[b], i, m)
        BY <1>2, <4>1 DEF BundleShows
      <4> QED
        BY <2>1, <3>2, <4>2
    <3> QED
      BY <3>1, <3>2
  <2>3. PICK m \in n..Count : ReadBy(c, i, m)
    BY <2>2
  <2>4. ReadBy(run[d], i, m)'
    BY <1>1, <2>1, <2>3 DEF ReadBy
  <2> QED
    BY <1>1, <2>3, <2>4
<1> QED
  BY <1>3, <1>4 DEF BundleShows

LEMMA LastKept ==
  ASSUME LastOK, UNCHANGED <<builder, last, rev, commits, rows>>
  PROVE  LastOK'
<1>1. \A n : ReadingAt(n)' = ReadingAt(n)
  BY DEF ReadingAt, RowsBy
<1> QED
  BY <1>1 DEF LastOK

LEMMA StartCareful ==
  ASSUME IngestInv, CurationInv, ReaderInv, Numbered, CarefulInv,
         NEW b \in Builders, StartCompose(b)
  PROVE  CarefulInv'
<1> DEFINE c == [Resting EXCEPT !.step = 1, !.rev = rev]
<1>1. Becomes(b, c) /\ UNCHANGED <<builder, last>>
  <2>1. left'.careful = left.careful
    BY DEF StartCompose, May, IngestInv, History
  <2> QED
    BY <2>1 DEF StartCompose, Becomes, curation, git
<1>2. c.step = 1 /\ c.rev = rev /\ ~c.mixed
  <2> DEFINE d == [Resting EXCEPT !.step = 1]
  <2>1. c = [d EXCEPT !.rev = rev]
    BY Zenon
  <2>2. d.step = 1 /\ d.mixed = FALSE /\ DOMAIN d = {"step", "rev", "mixed", "read"}
    BY DEF Resting
  <2> HIDE DEF d, c
  <2> QED
    BY <2>1, <2>2
<1> HIDE DEF c
<1> SUFFICES ASSUME Careful PROVE (OneAtATime /\ ComposesOK /\ BundleOK /\ LastOK)'
  BY <1>1 DEF CarefulInv, Careful, Becomes
<1>3. BundleOK /\ LastOK /\ ~dirty /\ \A d \in Builders : run[d] = Resting
  BY DEF CarefulInv, StartCompose, Composing
<1>4. /\ run'[b] = c /\ \A d \in Builders : d # b => run'[d] = Resting
      /\ OneAtATime' /\ Count' = Count
  BY <1>1, <1>3, OthersRest
<1>5. \A i : ~HasRead(c, i)
  BY <1>2 DEF HasRead
<1>6. ReadOK(run[b])'
  <2>1. rev \in 1..rev /\ commits[rev] = Count
    BY <1>3 DEF Numbered, RowsNumbered
  <2>2. \A i : ~HasRead(run[b], i)'
    BY <1>4, <1>5 DEF HasRead
  <2> QED
    BY <1>1, <1>2, <1>4, <2>1, <2>2 DEF ReadOK, Becomes
<1>7. FilesOK(run[b])'
  BY <1>2, <1>4 DEF FilesOK
<1>8. ComposesOK'
  <2>1. \A d \in Builders : d # b => run'[d] = Resting
    BY <1>4
  <2> QED
    BY <1>6, <1>7, <2>1 DEF ComposesOK, Resting
<1>9. BundleOK'
  BY <1>1, <1>3, <1>5, BundleKept
<1>10. LastOK'
  BY <1>1, <1>3, LastKept DEF Becomes
<1> QED
  BY <1>4, <1>8, <1>9, <1>10

LEMMA DieCareful ==
  ASSUME IngestInv, CurationInv, ReaderInv, Numbered, CarefulInv,
         NEW b \in Builders, ComposerDies(b)
  PROVE  CarefulInv'
<1>1. Becomes(b, Resting) /\ UNCHANGED <<builder, last>> /\ run[b] # Resting
  <2>1. left'.careful = left.careful
    BY DEF ComposerDies, May, IngestInv, History
  <2> QED
    BY <2>1 DEF ComposerDies, Becomes, curation, git, Resting
<1> SUFFICES ASSUME Careful PROVE (OneAtATime /\ ComposesOK /\ BundleOK /\ LastOK)'
  BY <1>1 DEF CarefulInv, Careful, Becomes
<1>2. BundleOK /\ LastOK /\ \A d \in Builders : d # b => run[d] = Resting
  BY <1>1 DEF CarefulInv, OneAtATime
<1>3. OneAtATime' /\ \A d \in Builders : run'[d] = Resting
  BY <1>1, <1>2, OthersRest
<1>4. ComposesOK'
  BY <1>3 DEF ComposesOK, Resting
<1>5. \A i : ~HasRead(Resting, i)
  BY DEF HasRead, Resting
<1>6. BundleOK'
  BY <1>1, <1>2, <1>5, BundleKept
<1>7. LastOK'
  BY <1>1, <1>2, LastKept DEF Becomes
<1> QED
  BY <1>3, <1>4, <1>6, <1>7

LEMMA ReadCareful ==
  ASSUME IngestInv, CurationInv, ReaderInv, Numbered, CarefulInv,
         NEW b \in Builders, ReadRegistry(b)
  PROVE  CarefulInv'
<1> DEFINE i == run[b].step
           r == RegistryOrder[i]
           found == {x \in rows : x.record.op = OpOf[r]}
           read == [run[b].read EXCEPT ![r] = found]
           c == [run[b] EXCEPT !.step = @ + 1, !.read = read]
<1>1. run[b] \in Composer /\ i \in 1..4
  BY DEF ReaderInv, Composer, ReadRegistry
<1>2. Becomes(b, c) /\ UNCHANGED <<builder, last>>
  BY DEF ReadRegistry, Becomes, ReaderInv, curation, git
<1>3. /\ c.step = i + 1 /\ c.rev = run[b].rev /\ c.mixed = run[b].mixed
      /\ \A j \in 1..4 : c.read[RegistryOrder[j]] =
                           IF j = i THEN found ELSE run[b].read[RegistryOrder[j]]
  <2>1. c.step = i + 1 /\ c.rev = run[b].rev /\ c.mixed = run[b].mixed /\ c.read = read
    <3> HIDE DEF read
    <3> QED
      BY <1>1 DEF Composer
  <2>2. run[b].read \in Reading
    BY <1>1 DEF Composer
  <2>3. \A j \in 1..4 : read[RegistryOrder[j]] =
                          IF j = i THEN found ELSE run[b].read[RegistryOrder[j]]
    <3> HIDE DEF found
    <3> QED
      BY <1>1, <2>2 DEF Reading, RegistryOrder
  <2> QED
    BY <2>1, <2>3
<1>4. found = RowsBy(r, Count)
  BY CountBounded, PipelineAssumption DEF RowsBy, Numbered, RowsNumbered
<1> HIDE DEF c, read, found
<1> SUFFICES ASSUME Careful PROVE (OneAtATime /\ ComposesOK /\ BundleOK /\ LastOK)'
  BY <1>2 DEF CarefulInv, Careful, Becomes
<1>5. /\ run[b] # Resting /\ BundleOK /\ LastOK /\ ReadOK(run[b])
      /\ \A d \in Builders : d # b => run[d] = Resting
  BY <1>1 DEF CarefulInv, OneAtATime, ComposesOK, Resting
<1>6. /\ run'[b] = c /\ \A d \in Builders : d # b => run'[d] = Resting
      /\ OneAtATime' /\ Count' = Count /\ Count \in Nat
      /\ \A s, n : RowsBy(s, n)' = RowsBy(s, n)
  BY <1>2, <1>5, OthersRest, CountBounded, PipelineAssumption
<1>7. \A j \in 1..4 : HasRead(c, j) =>
        \/ j = i /\ ReadBy(c, j, Count)
        \/ HasRead(run[b], j) /\ \A n : ReadBy(run[b], j, n) => ReadBy(c, j, n)
  BY <1>1, <1>3, <1>4 DEF HasRead, ReadBy
<1>8. ReadOK(run[b])'
  <2>1. ASSUME NEW j \in 1..4, HasRead(c, j) PROVE \E n \in 0..Count : ReadBy(c, j, n)
    BY <1>5, <1>6, <1>7, <2>1 DEF ReadOK
  <2>2. ASSUME ~c.mixed, NEW j \in 1..4, HasRead(c, j) PROVE ReadBy(c, j, commits[c.rev])
    <3>1. ~run[b].mixed /\ commits[c.rev] = Count
      BY <1>1, <1>3, <1>5, <2>2 DEF ReadOK
    <3> QED
      BY <1>3, <1>5, <1>7, <2>2, <3>1 DEF ReadOK
  <2>3. c.rev \in 1..rev /\ (~c.mixed => commits[c.rev] = Count)
    BY <1>1, <1>3, <1>5 DEF ReadOK
  <2>4. \A j, n : ReadBy(run[b], j, n)' <=> ReadBy(c, j, n)
    BY <1>6 DEF ReadBy
  <2>5. UNCHANGED <<rev, commits>>
    BY <1>2 DEF Becomes
  <2>6. \A j : HasRead(run[b], j)' <=> HasRead(c, j)
    BY <1>6 DEF HasRead
  <2>7. \A j \in 1..4 : HasRead(run[b], j)' =>
          /\ \E n \in 0..Count' : ReadBy(run[b], j, n)'
          /\ ~run'[b].mixed => ReadBy(run[b], j, commits[run[b].rev])'
    <3> SUFFICES ASSUME NEW j \in 1..4, HasRead(run[b], j)'
                 PROVE  /\ \E n \in 0..Count' : ReadBy(run[b], j, n)'
                        /\ ~run'[b].mixed => ReadBy(run[b], j, commits[run[b].rev])'
      OBVIOUS
    <3>1. \E n \in 0..Count' : ReadBy(run[b], j, n)'
      BY <1>6, <2>1, <2>4, <2>6
    <3>2. ASSUME ~run'[b].mixed PROVE ReadBy(run[b], j, commits[run[b].rev])'
      <4>1. ReadBy(c, j, commits[c.rev])
        BY <1>6, <2>2, <2>6, <3>2
      <4> QED
        BY <1>6, <2>5, <4>1 DEF ReadBy
    <3> QED
      BY <3>1, <3>2
  <2> QED
    BY <1>6, <2>3, <2>5, <2>7 DEF ReadOK
<1>9. FilesOK(run[b])'
  BY <1>1, <1>3, <1>6 DEF FilesOK
<1>10. ComposesOK'
  <2>1. \A d \in Builders : d # b => run'[d] = Resting
    BY <1>6
  <2> QED
    BY <1>8, <1>9, <2>1 DEF ComposesOK, Resting
<1>11. BundleOK'
  BY <1>2, <1>5, <1>7, BundleKept
<1>12. LastOK'
  BY <1>2, <1>5, LastKept DEF Becomes
<1> QED
  BY <1>6, <1>10, <1>11, <1>12

\* A whole pack passes: its tests are of all invariants, its constraints of the
\* first ones.
LEMMA PackPasses ==
  ASSUME CurationInv, NEW read \in Reading, NEW n \in Nat
  PROVE  LintRuntime(PackFor(n, read)) /\ DoctorBuilderPack(PackFor(n, read))
<1> DEFINE k == PackFor(n, read)
           nodes == VisibleRows(read.nodes, RowLimit)
<1>1. \A f \in DOMAIN PartTypes : k[f] # NoPart
  BY PackTyped, NoPartAssumption
<1>2. DOMAIN PartTypes = {PackFiles[i] : i \in 1..6}
  BY DEF PartTypes, PackFiles
<1>3. k.constraints = ConstraintsFor(nodes, read.edges) /\ k.tests = RelationshipTestsFor(nodes)
  BY DEF PackFor
<1> HIDE DEF k, nodes
<1>4. Complete(k)
  BY <1>1, <1>2 DEF Complete
<1>5. k.constraints.invariants \subseteq k.tests.of
  BY <1>3 DEF ConstraintsFor, RelationshipTestsFor, FirstIds
<1>6. k.tests # NoPart
  BY <1>1 DEF PartTypes
<1> QED
  BY <1>4, <1>5, <1>6
     DEF LintRuntime, DoctorBuilderPack, LintBuilderPackShapes, LintMissingAntibodies, k

LEMMA BundleOf ==
  ASSUME NEW n, NEW read, NEW i \in 1..4
  PROVE  PackFor(n, read).bundle[RegistryOrder[i]] =
           IdsOf(VisibleRows(read[RegistryOrder[i]], LimitOf[RegistryOrder[i]]))
<1> DEFINE k == PackFor(n, read)
<1>1. k.bundle = PublicBundle(read.claims, read.edges, VisibleRows(read.nodes, RowLimit), read.gaps)
  BY DEF PackFor
<1> HIDE DEF k
<1>2. /\ k.bundle.claims = IdsOf(VisibleRows(read.claims, RowLimit))
      /\ k.bundle.edges = IdsOf(VisibleRows(read.edges, RowLimit))
      /\ k.bundle.nodes = IdsOf(VisibleRows(read.nodes, RowLimit))
      /\ k.bundle.gaps = IdsOf(VisibleRows(read.gaps, GapLimit))
  BY <1>1 DEF PublicBundle
<1>3. /\ RegistryOrder[1] = "claims" /\ RegistryOrder[2] = "edges"
      /\ RegistryOrder[3] = "nodes" /\ RegistryOrder[4] = "gaps"
      /\ LimitOf.claims = RowLimit /\ LimitOf.edges = RowLimit
      /\ LimitOf.nodes = RowLimit /\ LimitOf.gaps = GapLimit
  BY DEF RegistryOrder, LimitOf
<1>4. i = 1 \/ i = 2 \/ i = 3 \/ i = 4
  OBVIOUS
<1>5. k.bundle[RegistryOrder[i]] =
        IdsOf(VisibleRows(read[RegistryOrder[i]], LimitOf[RegistryOrder[i]]))
  BY <1>2, <1>3, <1>4
<1> QED
  BY <1>5 DEF k

LEMMA ReadAll ==
  ASSUME NEW b \in Builders, run[b] \in Composer, NEW n,
         \A i \in 1..4 : ReadBy(run[b], i, n)
  PROVE  run[b].read = ReadingAt(n)
<1> DEFINE read == run[b].read
<1>1. read \in Reading
  BY DEF Composer
<1>2. read.claims = RowsBy("claims", n) /\ read.edges = RowsBy("edges", n)
      /\ read.nodes = RowsBy("nodes", n) /\ read.gaps = RowsBy("gaps", n)
  BY DEF ReadBy, RegistryOrder
<1>3. DOMAIN OpOf = {"claims", "edges", "nodes", "gaps"}
  BY DEF OpOf
<1> HIDE DEF read
<1>4. \A r \in DOMAIN OpOf : read[r] = RowsBy(r, n)
  BY <1>2, <1>3
<1>5. read = [r \in {"claims", "edges", "nodes", "gaps"} |-> read[r]]
  BY <1>1 DEF Reading
<1>6. read = ReadingAt(n)
  BY <1>3, <1>4, <1>5 DEF ReadingAt
<1> QED
  BY <1>6 DEF read

LEMMA WriteCareful ==
  ASSUME IngestInv, CurationInv, ReaderInv, Numbered, CarefulInv,
         NEW b \in Builders, WriteFile(b)
  PROVE  CarefulInv'
<1> DEFINE s == run[b].step
           f == PackFiles[s - 4]
           k == PackFor(run[b].rev, run[b].read)
           c == IF s = 10 THEN Resting ELSE [run[b] EXCEPT !.step = @ + 1]
<1>1. run[b] \in Composer /\ s \in 5..10 /\ run[b].read \in Reading /\ run[b].rev \in Nat
  BY DEF ReaderInv, Composer, WriteFile
<1>2. /\ Becomes(b, c)
      /\ builder' = [builder EXCEPT ![f] = k[f]]
      /\ last' = IF s < 10 THEN "torn" ELSE IF run[b].mixed THEN "mixed" ELSE "whole"
  BY DEF WriteFile, Becomes, curation, git
<1>3. s # 10 => /\ c.step = s + 1 /\ c.rev = run[b].rev /\ c.mixed = run[b].mixed
                /\ c.read = run[b].read
  BY <1>1 DEF Composer
<1>4. s = 10 => c = Resting
  OBVIOUS
<1>5. DOMAIN builder = {"metadata", "constraints", "tests", "bundle", "targets", "brief"}
      /\ DOMAIN k = DOMAIN builder
  BY DEF ReaderInv, PackFor
<1>6. \A j \in 1..6 : /\ PackFiles[j] \in DOMAIN builder
                      /\ PackFiles[j] = f <=> j = s - 4
  BY <1>1, <1>5 DEF PackFiles
<1> HIDE DEF c, k, f
<1>7. \A j \in 1..6 : builder'[PackFiles[j]] =
                        IF j = s - 4 THEN k[PackFiles[j]] ELSE builder[PackFiles[j]]
  BY <1>2, <1>6
<1> SUFFICES ASSUME Careful PROVE (OneAtATime /\ ComposesOK /\ BundleOK /\ LastOK)'
  BY <1>2 DEF CarefulInv, Careful, Becomes
<1>8. /\ run[b] # Resting /\ BundleOK /\ ReadOK(run[b]) /\ FilesOK(run[b])
      /\ \A d \in Builders : d # b => run[d] = Resting
  BY <1>1 DEF CarefulInv, OneAtATime, ComposesOK, Resting
<1>9. /\ run'[b] = c /\ \A d \in Builders : d # b => run'[d] = Resting
      /\ \A d \in Builders : d # b => \A i : ~HasRead(run[d], i)'
      /\ OneAtATime' /\ Count' = Count /\ Count \in Nat
      /\ \A r, n : RowsBy(r, n)' = RowsBy(r, n)
  BY <1>2, <1>8, OthersRest, CountBounded, PipelineAssumption
<1>10. \A j \in 1..4 : /\ HasRead(run[b], j)
                       /\ s = 10 => ~HasRead(c, j)
                       /\ s # 10 => \A n : ReadBy(run[b], j, n) => ReadBy(c, j, n)
  BY <1>1, <1>3, <1>4 DEF HasRead, ReadBy, Resting
<1>11. \A j \in 1..(s - 4) : builder'[PackFiles[j]] = k[PackFiles[j]]
  <2>1. s # 5 => \A j \in 1..(s - 5) : builder[PackFiles[j]] = k[PackFiles[j]]
    BY <1>1, <1>8 DEF FilesOK, k
  <2> QED
    BY <1>1, <1>7, <2>1
<1>12. ComposesOK'
  <2>1. CASE s = 10
    <3>1. \A d \in Builders : run'[d] = Resting
      BY <1>4, <1>9, <2>1
    <3> QED
      BY <3>1 DEF ComposesOK, Resting
  <2>2. CASE s # 10
    <3>1. ReadOK(run[b])'
      <4>1. UNCHANGED <<rev, commits>>
        BY <1>2 DEF Becomes
      <4>2. run'[b].rev = run[b].rev /\ run'[b].mixed = run[b].mixed /\ run'[b].step \notin 1..4
        BY <1>1, <1>3, <1>9, <2>2
      <4>3. \A j \in 1..4 : \A n : ReadBy(run[b], j, n) => ReadBy(run[b], j, n)'
        BY <1>3, <1>9, <2>2 DEF ReadBy
      <4>4. \A j \in 1..4 : \E n \in 0..Count' : ReadBy(run[b], j, n)'
        BY <1>8, <1>9, <1>10, <4>3 DEF ReadOK
      <4>5. ASSUME ~run'[b].mixed, NEW j \in 1..4
            PROVE  ReadBy(run[b], j, commits[run[b].rev])'
        <5>1. ReadBy(run[b], j, commits[run[b].rev])
          BY <1>8, <1>10, <4>2, <4>5 DEF ReadOK
        <5> QED
          BY <1>3, <1>9, <2>2, <4>1, <5>1 DEF ReadBy
      <4>6. run'[b].rev \in 1..rev'
        BY <1>8, <4>1, <4>2 DEF ReadOK
      <4> QED
        BY <4>2, <4>4, <4>5, <4>6 DEF ReadOK
    <3>2. FilesOK(run[b])'
      BY <1>1, <1>2, <1>3, <1>9, <1>11, <2>2 DEF FilesOK, k
    <3>3. \A d \in Builders : d # b => run'[d] = Resting
      BY <1>9
    <3> QED
      BY <3>1, <3>2, <3>3 DEF ComposesOK, Resting
  <2> QED
    BY <2>1, <2>2
<1>13. BundleOK'
  <2>1. CASE s # 8
    <3>1. builder'.bundle = builder.bundle
      BY <1>1, <1>7, <2>1 DEF PackFiles
    <3>2. \A i \in 1..4 : HasRead(c, i) =>
            HasRead(run[b], i) /\ \A n : ReadBy(run[b], i, n) => ReadBy(c, i, n)
      BY <1>10
    <3> QED
      BY <1>2, <1>8, <3>1, <3>2, BundleKept
  <2>2. CASE s = 8
    <3> SUFFICES ASSUME NEW i \in 1..4 PROVE \E n \in 0..Count' : BundleShows(i, n)'
      BY DEF BundleOK
    <3>1. PICK n \in 0..Count : ReadBy(run[b], i, n)
      BY <1>8, <1>10 DEF ReadOK
    <3>2. builder'.bundle = k.bundle
      BY <1>7, <2>2 DEF PackFiles
    <3>3. builder'.bundle[RegistryOrder[i]] = ShownBy(RegistryOrder[i], n)
      BY <3>1, <3>2, BundleOf DEF ShownBy, ReadBy, k
    <3>4. builder'.bundle[RegistryOrder[i]] = ShownBy(RegistryOrder[i], n)'
      BY <1>9, <3>3 DEF ShownBy
    <3>5. ReadBy(run[b], i, n)' /\ n \in n..Count'
      BY <1>3, <1>9, <2>2, <3>1 DEF ReadBy
    <3>6. \A d \in Builders : HasRead(run[d], i)' => \E m \in n..Count' : ReadBy(run[d], i, m)'
      <4> SUFFICES ASSUME NEW d \in Builders, HasRead(run[d], i)'
                   PROVE  \E m \in n..Count' : ReadBy(run[d], i, m)'
        OBVIOUS
      <4>1. d = b
        BY <1>9
      <4> QED
        BY <3>5, <4>1
    <3> QED
      BY <1>9, <3>4, <3>6 DEF BundleShows
  <2> QED
    BY <2>1, <2>2
<1>14. LastOK'
  <2>1. CASE s # 10
    <3>1. last' = "torn"
      BY <1>1, <1>2, <2>1
    <3> QED
      BY <3>1 DEF LastOK
  <2>2. CASE s = 10
    <3>1. builder' = k
      <4>1. \A g \in DOMAIN builder : builder'[g] = k[g]
        BY <1>5, <1>11, <2>2 DEF PackFiles
      <4>2. builder' = [g \in DOMAIN builder |-> builder'[g]]
        BY <1>2
      <4>3. k = [g \in DOMAIN builder |-> k[g]]
        BY <1>5 DEF k, PackFor
      <4> QED
        BY <4>1, <4>2, <4>3
    <3>2. LintRuntime(k) /\ DoctorBuilderPack(k)
      BY <1>1, PackPasses DEF k
    <3>3. last' = "whole" =>
            /\ k.metadata = run[b].rev /\ run[b].rev \in 1..rev
            /\ k = PackFor(run[b].rev, ReadingAt(commits[run[b].rev]))
      <4> SUFFICES ASSUME last' = "whole"
                   PROVE  /\ k.metadata = run[b].rev /\ run[b].rev \in 1..rev
                          /\ k = PackFor(run[b].rev, ReadingAt(commits[run[b].rev]))
        OBVIOUS
      <4>1. ~run[b].mixed
        BY <1>2, <2>2
      <4>2. \A i \in 1..4 : ReadBy(run[b], i, commits[run[b].rev])
        BY <1>8, <1>10, <4>1 DEF ReadOK
      <4>3. run[b].read = ReadingAt(commits[run[b].rev])
        BY <1>1, <4>2, ReadAll
      <4>4. k.metadata = run[b].rev /\ run[b].rev \in 1..rev
        BY <1>8 DEF ReadOK, k, PackFor
      <4> QED
        BY <4>3, <4>4 DEF k
    <3>4. UNCHANGED <<rev, commits>> /\ \A n : ReadingAt(n)' = ReadingAt(n)
      BY <1>2, <1>9 DEF Becomes, ReadingAt
    <3>5. last' = "whole" =>
            /\ builder'.metadata \in 1..rev'
            /\ builder' = PackFor(builder'.metadata, ReadingAt(commits[builder.metadata])')
      BY <3>1, <3>3, <3>4
    <3>6. LintRuntime(builder)' /\ DoctorBuilderPack(builder)'
      BY <3>1, <3>2
    <3> QED
      BY <3>5, <3>6 DEF LastOK
  <2> QED
    BY <2>1, <2>2
<1> QED
  BY <1>9, <1>12, <1>13, <1>14

LEMMA CarefulNext ==
  IngestInv /\ CurationInv /\ ReaderInv /\ Numbered /\ CarefulInv /\ [Next]_vars => CarefulInv'
<1> SUFFICES ASSUME IngestInv, CurationInv, ReaderInv, Numbered, CarefulInv, [Next]_vars
             PROVE  CarefulInv'
  OBVIOUS
<1>r. rev \in Nat
  BY DEF CurationInv
<1>1. ASSUME NEW m \in Packs, NEW a \in BOOLEAN, Apply(m, a) PROVE CarefulInv'
  BY <1>1, ApplyCareful
<1>2. CASE Commit
  <2>1. /\ left'.careful = left.careful /\ rev' = rev + 1
        /\ commits' = Append(commits, Cardinality(applied))
        /\ UNCHANGED <<applied, rows, builder, run, last>>
    BY <1>2 DEF Commit, May, IngestInv, History, curation, composing
  <2>2. \A v \in 1..rev : commits'[v] = commits[v]
    BY <2>1 DEF Numbered, RowsNumbered
  <2>3. rev' \in Nat /\ rev' >= rev
    BY <1>r, <2>1
  <2> QED
    BY <2>1, <2>2, <2>3, CommitCareful
<1>3. ASSUME NEW b \in Builders,
             StartCompose(b) \/ ReadRegistry(b) \/ WriteFile(b) \/ ComposerDies(b)
      PROVE  CarefulInv'
  BY <1>3, StartCareful, ReadCareful, WriteCareful, DieCareful
<1>4. CASE Elsewhere
  BY <1>r, <1>4, CommitCareful DEF Elsewhere, SameHistory
<1> QED
  BY <1>1, <1>2, <1>3, <1>4, Elsewheres DEF Next

LEMMA CarefulAlways ==
  Spec => [](IngestInv /\ CurationInv /\ ReaderInv /\ Numbered /\ CarefulInv)
  BY NumberedAlways, CarefulInit, CarefulNext, PTL DEF Spec

\* However many packs are applied, committed and composed in whatever order and
\* wherever a compose dies: a pack whose compose returned and read undisturbed
\* shows, in all its files, what was visible at the revision that it names.
THEOREM PacksShowTheirRevision == Spec => []PackShowsItsRevision
<1>1. CarefulInv => PackShowsItsRevision
  <2> SUFFICES ASSUME CarefulInv, Careful, last = "whole"
               PROVE  LET committed == {x \in rows : x.at <= commits[builder.metadata]}
                      IN builder = PackFor(builder.metadata,
                           [r \in DOMAIN OpOf |-> {x \in committed : x.record.op = OpOf[r]}])
    BY DEF PackShowsItsRevision
  <2> DEFINE n == commits[builder.metadata]
             committed == {x \in rows : x.at <= n}
  <2>1. builder = PackFor(builder.metadata, ReadingAt(n))
    BY DEF CarefulInv, LastOK
  <2>2. \A r : RowsBy(r, n) = {x \in committed : x.record.op = OpOf[r]}
    BY DEF RowsBy
  <2>3. ReadingAt(n) = [r \in DOMAIN OpOf |-> {x \in committed : x.record.op = OpOf[r]}]
    BY <2>2 DEF ReadingAt
  <2> QED
    BY <2>1, <2>3
<1> QED
  BY <1>1, CarefulAlways, PTL

\* Lint and doctor accept the pack of every compose that returned, also of one
\* that read while something was applied.
THEOREM FinishedPacksPass == Spec => []FinishedPackPasses
<1>1. CarefulInv => FinishedPackPasses
  BY DEF CarefulInv, LastOK, FinishedPackPasses
<1> QED
  BY <1>1, CarefulAlways, PTL

\* A bound keeps a row of a set, unless another one comes before it in a larger
\* set than it was kept in.
LEMMA BoundKeeps ==
  ASSUME NEW small, NEW large, small \subseteq large, NEW limit,
         NEW x \in Bounded(small, limit), x \notin Bounded(large, limit)
  PROVE  \E y \in large \ small : RowBefore(y, x)
<1>1. x \in small /\ x \in large
  BY DEF Bounded
<1>2. {y \in small : RowBefore(y, x)} # {y \in large : RowBefore(y, x)}
  BY <1>1 DEF Bounded
<1> QED
  BY <1>2

\* What later applies push out at a limit is older than what takes its place,
\* which says that it is not younger.
LEMMA ShownGrows ==
  ASSUME Numbered, CurationInv, NEW r, NEW n \in 0..Count, NEW m \in n..Count,
         NEW i \in ShownBy(r, n) \ ShownBy(r, m)
  PROVE  \E x, y \in rows : x.id = i /\ x.record.op = OpOf[r] /\ Outranks(y, x)
<1> DEFINE seen(k) == {x \in RowsBy(r, k) : VisibleToBuilders(x.record)}
<1>1. \A x \in rows : x.at \in Nat /\ x.second \in Nat
  BY DEF Numbered, RowsNumbered
<1>2. n \in Nat /\ m \in Nat /\ n <= m
  BY CountBounded, PipelineAssumption
<1>3. seen(n) \subseteq seen(m)
  BY <1>1, <1>2 DEF RowsBy
<1>4. \A k : ShownBy(r, k) = IdsOf(Bounded(seen(k), LimitOf[r]))
  BY DEF ShownBy, VisibleRows
<1>5. PICK x \in Bounded(seen(n), LimitOf[r]) : x.id = i /\ x \notin Bounded(seen(m), LimitOf[r])
  <2> HIDE DEF seen
  <2> QED
    BY <1>4 DEF IdsOf
<1>6. PICK y \in seen(m) \ seen(n) : RowBefore(y, x)
  <2> HIDE DEF seen
  <2> QED
    BY <1>3, <1>5, BoundKeeps
<1>7. /\ x \in rows /\ x.at <= n /\ x.record.op = OpOf[r]
      /\ y \in rows /\ ~(y.at <= n) /\ y.record.op = OpOf[r] /\ VisibleToBuilders(y.record)
  BY <1>5 DEF Bounded, RowsBy
<1>8. y.at > x.at /\ y.second <= x.second
  BY <1>1, <1>2, <1>6, <1>7 DEF RowBefore
<1> QED
  BY <1>5, <1>7, <1>8 DEF Outranks

LEMMA BundleGrows ==
  ASSUME IngestInv, CurationInv, ReaderInv, Numbered, CarefulInv, [Next]_vars,
         Careful, builder.bundle # NoPart, builder'.bundle # NoPart,
         NEW r \in DOMAIN OpOf, NEW j \in builder.bundle[r] \ builder'.bundle[r]
  PROVE  \E x, y \in rows : x.id = j /\ x.record.op = OpOf[r] /\ Outranks(y, x)
<1>1. CASE builder'.bundle = builder.bundle
  BY <1>1
<1>2. CASE builder'.bundle # builder.bundle
  <2>1. PICK b \in Builders : WriteFile(b)
    BY <1>2, Elsewheres
       DEF Next, Apply, Commit, StartCompose, ReadRegistry, ComposerDies, composing, Elsewhere
  <2>2. run[b].step = 8 /\ builder'.bundle = PackFor(run[b].rev, run[b].read).bundle
    <3> DEFINE f == PackFiles[run[b].step - 4]
               k == PackFor(run[b].rev, run[b].read)
    <3>1. builder' = [builder EXCEPT ![f] = k[f]] /\ run[b].step \in 5..10
      BY <2>1 DEF WriteFile
    <3>2. "bundle" \in DOMAIN builder
      BY DEF ReaderInv
    <3>3. f = "bundle" => run[b].step = 8
      BY <3>1 DEF PackFiles
    <3> HIDE DEF f, k
    <3>4. f = "bundle" /\ builder'.bundle = k.bundle
      BY <1>2, <3>1, <3>2
    <3> QED
      BY <3>3, <3>4 DEF k
  <2>3. PICK i \in 1..4 : r = RegistryOrder[i]
    BY DEF OpOf, RegistryOrder
  <2>4. HasRead(run[b], i) /\ BundleOK
    BY <2>2 DEF HasRead, CarefulInv
  <2>5. PICK n \in 0..Count : BundleShows(i, n)
    BY <2>4 DEF BundleOK
  <2>6. PICK m \in n..Count : ReadBy(run[b], i, m)
    BY <2>4, <2>5 DEF BundleShows
  <2>7. builder.bundle[r] = ShownBy(r, n) /\ builder'.bundle[r] = ShownBy(r, m)
    BY <2>2, <2>3, <2>5, <2>6, BundleOf DEF BundleShows, ReadBy, ShownBy
  <2> QED
    BY <2>7, ShownGrows
<1> QED
  BY <1>1, <1>2

\* What builders were shown they are shown by every later pack too, however much
\* is applied, also while the later compose reads, unless a row of a later apply
\* that reads no later second has taken its place.
THEOREM WhatIsShownStays == Spec => ShownStaysShown
<1>1. IngestInv /\ CurationInv /\ ReaderInv /\ Numbered /\ CarefulInv /\ [Next]_vars =>
        [Careful /\ builder.bundle # NoPart /\ builder'.bundle # NoPart =>
           \A r \in DOMAIN OpOf : \A i \in builder.bundle[r] \ builder'.bundle[r] :
             \E x, y \in rows : x.id = i /\ x.record.op = OpOf[r] /\ Outranks(y, x)]_vars
  BY BundleGrows
<1> QED
  BY <1>1, CarefulAlways, PTL DEF Spec, ShownStaysShown

=============================================================================
