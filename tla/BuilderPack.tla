---------------------------- MODULE BuilderPack ----------------------------
(***************************************************************************)
(* What `topology compose builder` (workers/compose_builder.py) makes of   *)
(* the rows of the registries, and what lint and doctor say of a pack.     *)
(* Pure operators over sets of rows; a row is                              *)
(* [id, pack, at, second, record]: its id, the mutation pack it came with, *)
(* the number of the apply that wrote it, what the clock read then, and    *)
(* the record (Records).                                                   *)
(***************************************************************************)
EXTENDS Records, FiniteSets

CONSTANTS
  RowLimit,   \* how many claims, edges and nodes a pack may hold (40 in the code)
  GapLimit,   \* how many gaps (20)
  HeadLimit,  \* how many rows of a kind are put forward in a file (10)
  NoPart      \* the content of a file that does not exist

\* An id is a pair of the mutation pack that drew it and a number: ids begin
\* with the time they were drawn at, which is when the pack was proposed.
IdBefore(i, j) == i[1] < j[1] \/ (i[1] = j[1] /\ i[2] < j[2])
\* bounded sorts rows by their JSON text, whose first field is applied_at: the
\* wall clock, cut to a whole second.  In one second a row with an authority, which
\* is one that a session reported, comes before one without; further fields then
\* decide, here the id, and no property is about the order among those.
HasAuthority(x) == x.record.authority # Absent
RowBefore(x, y) ==
  \/ x.second < y.second
  \/ x.second = y.second /\ HasAuthority(x) /\ ~HasAuthority(y)
  \/ x.second = y.second /\ (HasAuthority(x) <=> HasAuthority(y)) /\ IdBefore(x.id, y.id)

FirstIds(ids, limit) == {i \in ids : Cardinality({j \in ids : IdBefore(j, i)}) < limit}
NewestFirst(rows, limit) ==  \* variant: the latest rows are kept
  {x \in rows : Cardinality({y \in rows : RowBefore(x, y)}) < limit}
Bounded(rows, limit) == {x \in rows : Cardinality({y \in rows : RowBefore(y, x)}) < limit}

\* Lines 492-495: what is visible, cut to the limit
VisibleRows(rows, limit) == Bounded({x \in rows : VisibleToBuilders(x.record)}, limit)

IdsOf(rows) == {x.id : x \in rows}
OfType(nodes, type) == IdsOf({x \in nodes : x.record.type = type})

\* contradiction_edges: of all edges, those between sources and visible nodes
ContradictionEdges(edges, nodeIds) ==
  IdsOf({x \in edges : /\ x.record.edge \in {"CONTRADICTS", "DIVERGES_FROM"}
                       /\ x.record.status \in VisibleStatus
                       /\ x.record.confidence \in {"high", "medium", "low"}
                       /\ x.record.to \in nodeIds})
Pressure(edges, nodes) == FirstIds(ContradictionEdges(edges, IdsOf(nodes)), HeadLimit)

ConstraintsFor(nodes, edges) ==
  [invariants |-> FirstIds(OfType(nodes, "invariant"), HeadLimit),
   interfaces |-> FirstIds(OfType(nodes, "interface"), HeadLimit),
   pressure   |-> Pressure(edges, nodes)]
TestsForHead(nodes) ==  \* variant: one test for the first row only
  [of |-> OfType(Bounded(nodes, 1), "invariant")]
RelationshipTestsFor(nodes) == [of |-> OfType(nodes, "invariant")]
PublicBundle(claims, edges, nodes, gaps) ==
  [claims |-> IdsOf(VisibleRows(claims, RowLimit)), edges |-> IdsOf(VisibleRows(edges, RowLimit)),
   nodes |-> IdsOf(nodes), gaps |-> IdsOf(VisibleRows(gaps, GapLimit))]
\* brief_for puts edges among those that are visible themselves.
BriefFor(rev, nodes, edges, gaps) ==
  [rev |-> rev,
   decisions  |-> FirstIds(OfType(nodes, "decision"), HeadLimit),
   invariants |-> FirstIds(OfType(nodes, "invariant"), HeadLimit),
   interfaces |-> FirstIds(OfType(nodes, "interface"), HeadLimit),
   pressure   |-> Pressure(VisibleRows(edges, RowLimit), nodes),
   gaps       |-> FirstIds(IdsOf(VisibleRows(gaps, GapLimit)), HeadLimit)]

\* The six files, of rows that were read at revision rev.  The content of
\* writeback-targets.json is always the same.
PackFiles == <<"metadata", "constraints", "tests", "bundle", "targets", "brief">>
NoBuilderPack == [f \in {PackFiles[i] : i \in 1..6} |-> NoPart]
PackFor(rev, read) ==
  LET nodes == VisibleRows(read.nodes, RowLimit) IN
  [metadata    |-> rev,
   constraints |-> ConstraintsFor(nodes, read.edges),
   tests       |-> RelationshipTestsFor(nodes),
   bundle      |-> PublicBundle(read.claims, read.edges, nodes, read.gaps),
   targets     |-> "fields",
   brief       |-> BriefFor(rev, nodes, read.edges, read.gaps)]

\* The nodes and claims whose ids stand anywhere in a pack
KnowledgeIn(k) ==
  UNION {IF k.constraints = NoPart THEN {} ELSE k.constraints.invariants \cup k.constraints.interfaces,
         IF k.tests = NoPart THEN {} ELSE k.tests.of,
         IF k.bundle = NoPart THEN {} ELSE k.bundle.claims \cup k.bundle.nodes,
         IF k.brief = NoPart THEN {}
         ELSE k.brief.decisions \cup k.brief.invariants \cup k.brief.interfaces}

-----------------------------------------------------------------------------
(* lint --runtime and doctor projections, for a pack whose directory exists  *)

Complete(k) == \A i \in 1..6 : k[PackFiles[i]] # NoPart
\* lint_builder_pack_shapes (files are whole, as they are replaced atomically)
LintBuilderPackShapes(k) == Complete(k)
\* doctor_projections, lines 140-149
DoctorBuilderPack(k) == Complete(k)
\* lint_missing_antibodies
LintMissingAntibodies(k) ==
  k.constraints # NoPart =>
    /\ k.tests # NoPart
    /\ k.constraints.invariants \subseteq k.tests.of
LintRuntime(k) == LintBuilderPackShapes(k) /\ LintMissingAntibodies(k)

=============================================================================
