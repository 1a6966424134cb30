------------------------------ MODULE Pipeline ------------------------------
(***************************************************************************)
(* From a source to a builder pack: ingest stores a packet and a digest    *)
(* job, digest reads them, reconcile and writeback turn a digest or a      *)
(* session summary into a mutation pack, a person reviews it, apply makes  *)
(* its changes rows of the registries, someone commits, and compose shows  *)
(* builders what is visible of the rows.  Each stage is a command of its   *)
(* own that knows the others only by the files they leave.                 *)
(*                                                                         *)
(* Apply is one step here, which is what Apply!ImplementsCanonicalStore    *)
(* says of one apply at a time, if none dies in writing back a registry;   *)
(* the digest queue is cut down to the state of a job.  Ingest, writeback  *)
(* and compose may die between two files.                                  *)
(***************************************************************************)
EXTENDS Ingest, BuilderPack

CONSTANTS
  Digests,    \* what a model may answer: [claims, edges]
  Summaries,  \* what a session may report: see Records!WritebackChanges
  Builders,   \* processes running `topology compose builder` for one task
  NoDigest,
  MaxPack,    \* bound: mutation packs
  Histories   \* bound: the kinds of history looked at

Packs == 1..MaxPack
Ids == Packs \X (Nat \ {0})

\* What Digest.from_dict and the normalisation of a summary accept, and the
\* packs made of it.
DigestContent ==
  [claims : Nat,
   edges : Seq([target : Ids \cup {New}, type : EdgeTypes, confidence : STRING])]
Summary ==
  [decisions : Seq(StatusValues), invariants : Seq(StatusValues), interfaces : Nat,
   runtime : Nat, lessons : Nat, results : Nat, conflicts : Nat,
   source : Sources, digest : Sources]
Change ==
  [op : {"create_claim", "add_edge", "propose_node", "open_gap"},
   type : ValidNodeTypes \cup {Absent}, status : StatusValues \cup {Absent},
   audiences : SUBSET {"builders", "openclaw"}, scope : {"runtime", Absent},
   sensitivity : {"runtime_only", Absent},
   authority : {"repo_observed", "runtime_observed", Absent},
   edge : EdgeTypes \cup {Absent}, confidence : STRING \cup {Absent}, to : Ids \cup {NoId},
   source : Sources \cup {NoId}, digest : Sources \cup {NoId}]
Pack == [from : Digests \cup Summaries, source : Sources, digest : Sources, base : Nat,
         changes : Seq(Change), human : BOOLEAN]

\* A kind of history: whether composes of the task come one after another and
\* without --allow-dirty, which requests are ingested, which digests answered and
\* which sessions reported, what the wall clock may read at any time (it can be
\* set back), and how often each command may still begin, someone commit, and a
\* process die.
Commands == {"ingest", "digest", "reconcile", "writeback", "compose", "commit", "die"}
History == [careful : BOOLEAN, requests : SUBSET PossibleRequests,
            answers : SUBSET Digests, sessions : SUBSET Summaries,
            seconds : SUBSET Nat, may : [Commands -> Nat]]
ASSUME PipelineAssumption ==
  /\ MaxPack \in Nat
  /\ RowLimit \in Nat /\ GapLimit \in Nat /\ HeadLimit \in Nat
  /\ Histories \subseteq History
  /\ Digests \subseteq DigestContent /\ Summaries \subseteq Summary
  /\ Digests \cap Summaries = {} /\ NoDigest \notin Digests /\ NoFile \notin Pack

\* What each file of a builder pack may hold
PartTypes ==
  [metadata    |-> Nat,
   constraints |-> [invariants : SUBSET Ids, interfaces : SUBSET Ids, pressure : SUBSET Ids],
   tests       |-> [of : SUBSET Ids],
   bundle      |-> [claims : SUBSET Ids, edges : SUBSET Ids, nodes : SUBSET Ids, gaps : SUBSET Ids],
   targets     |-> {"fields"},
   brief       |-> [rev : Nat, decisions : SUBSET Ids, invariants : SUBSET Ids,
                    interfaces : SUBSET Ids, pressure : SUBSET Ids, gaps : SUBSET Ids]]
ASSUME NoPartAssumption == \A f \in DOMAIN PartTypes : NoPart \notin PartTypes[f]

VARIABLES
  digests,  \* digests[s]: the digest under digests/by_source/s
  mutation, \* mutation[m]: the mutation pack m, wherever its file is
  applied,  \* the packs whose file is in mutations/applied
  delta,    \* delta[m]: the relationship tests in .tmp/writeback/m
  writing,  \* the packs whose writeback has not returned
  rows,     \* the rows of the registries
  rev,      \* HEAD of the topology repository
  dirty,    \* its tree differs from HEAD
  builder,  \* the files of the builder pack of the task
  run,      \* run[b]: where compose b is, and its locals
  approved, \* history: the packs applied with --approve-human
  last,     \* history: "whole" when the last compose that wrote has returned,
            \* "mixed" when besides an apply came while it read, else "torn"
  commits,  \* history: commits[r]: how many packs were applied by revision r
  left      \* the kind of this history and what may still begin in it
curation == <<digests, mutation, applied, delta, writing, rows, approved>>
git == <<rev, dirty, commits>>
composing == <<builder, run, last>>
vars == <<ingestVars, curation, git, composing, left>>

Stored(m) == mutation[m] # NoFile
Resting == [step |-> 0, rev |-> 0, mixed |-> FALSE,
            read |-> [claims |-> {}, edges |-> {}, nodes |-> {}, gaps |-> {}]]
Careful == left.careful
Composing == \E b \in Builders : run[b] # Resting
May(command) == left.may[command] > 0 /\ left' = [left EXCEPT !.may[command] = @ - 1]

Init ==
  /\ IngestInit
  /\ digests = [s \in Sources |-> NoDigest]
  /\ mutation = [m \in Packs |-> NoFile]
  /\ delta = [m \in Packs |-> NoPart]
  /\ applied = {} /\ writing = {} /\ rows = {} /\ approved = {}
  /\ rev = 1 /\ dirty = FALSE
  /\ builder = NoBuilderPack
  /\ run = [b \in Builders |-> Resting]
  /\ last = "torn" /\ commits = <<0>>
  /\ left \in Histories

-----------------------------------------------------------------------------
(* ingest and digest *)

Ingest(s, q) ==
  /\ May("ingest")
  /\ q \in left.requests
  /\ StartIngest(s, q)
  /\ UNCHANGED <<curation, git, composing>>
GoOnIngesting(s) ==
  /\ IngestStep(s)
  /\ dirty' = (dirty \/ packets' # packets)
  /\ UNCHANGED <<curation, rev, commits, composing, left>>
DieIngesting(s) ==
  /\ IngestDies(s)
  /\ May("die")
  /\ UNCHANGED <<curation, git, composing>>

\* write_digest_artifacts: one digest of a source with a packet; the queue
\* runner calls it for the job of the source, a person without one.
Digest(s, d, queued) ==
  /\ May("digest")
  /\ d \in left.answers
  /\ packets[s].packet # NoFile /\ SourcePacketValid(packets[s].packet)
  /\ digests[s] = NoDigest
  /\ queued => jobs[s] = "pending"
  /\ digests' = [digests EXCEPT ![s] = d]
  /\ jobs' = IF queued THEN [jobs EXCEPT ![s] = "done"] ELSE jobs
  /\ dirty' = TRUE
  /\ UNCHANGED <<packets, ingest, mutation, applied, delta, writing, rows, approved,
                 rev, commits, composing>>

-----------------------------------------------------------------------------
(* reconcile and writeback *)

KnownNodes == {x.id : x \in {y \in rows : y.record.op = "propose_node"}}
NextPack(m) == ~Stored(m) /\ \A n \in 1..(m - 1) : Stored(n)
\* from: the digest's source or the summary; source and digest: evidence_refs
MutationPack(from, source, digest, cs, human) ==
  [from |-> from, source |-> source, digest |-> digest, base |-> rev,
   changes |-> cs, human |-> human]

\* reconcile_digest.  A pack without changes is refused (MutationPack.validate).
Reconcile(m, s) ==
  /\ May("reconcile") /\ NextPack(m)
  /\ digests[s] # NoDigest /\ packets[s].packet # NoFile
  /\ LET cs == ReconcileChanges(digests[s], s, KnownNodes) IN
       /\ cs # <<>>
       /\ mutation' = [mutation EXCEPT ![m] =
            MutationPack(digests[s], s, s, cs, HumanGateForEdges(digests[s].edges, cs))]
  /\ dirty' = TRUE
  /\ UNCHANGED <<ingestVars, digests, applied, delta, writing, rows, approved, rev, commits, composing>>

\* writeback_session: the pack, then the tests of the invariants it proposes.
\* Its revisions are the current ones, or the call is refused.
ProposeWriteback(m, w) ==
  /\ May("writeback") /\ NextPack(m)
  /\ w \in left.sessions
  /\ WritebackChanges(w) # <<>>
  /\ mutation' = [mutation EXCEPT ![m] =
       MutationPack(w, w.source, w.digest, WritebackChanges(w), w.conflicts > 0)]
  /\ writing' = writing \cup {m}
  /\ dirty' = TRUE
  /\ UNCHANGED <<ingestVars, digests, applied, delta, rows, approved, rev, commits, composing>>
InvariantsOf(m) ==
  {<<m, i>> : i \in {j \in DOMAIN mutation[m].changes : mutation[m].changes[j].type = "invariant"}}
WriteDelta(m) ==
  /\ m \in writing
  /\ delta' = [delta EXCEPT ![m] = InvariantsOf(m)]
  /\ writing' = writing \ {m}
  /\ UNCHANGED <<ingestVars, digests, mutation, applied, rows, approved, git, composing, left>>
WritebackDies(m) ==
  /\ m \in writing
  /\ writing' = writing \ {m}
  /\ May("die")
  /\ UNCHANGED <<ingestVars, digests, mutation, applied, delta, rows, approved, git, composing>>

-----------------------------------------------------------------------------
(* review, apply, commit *)

\* check_evidence over evidence_refs_for_changes
SourcesOf(m) ==
  {mutation[m].source} \cup
  ({mutation[m].changes[i].source : i \in DOMAIN mutation[m].changes} \ {NoId})
DigestsOf(m) ==
  {mutation[m].digest} \cup {mutation[m].changes[i].digest : i \in DOMAIN mutation[m].changes}
EvidenceResolves(m) ==
  /\ \A s \in SourcesOf(m) : packets[s].packet # NoFile
  /\ \A s \in DigestsOf(m) : digests[s] # NoDigest
EdgeTargetsExist(m) ==
  \A i \in DOMAIN mutation[m].changes : mutation[m].changes[i].op = "add_edge" =>
    \/ mutation[m].changes[i].to \in KnownNodes
    \/ mutation[m].changes[i].to \in
         {<<m, j>> : j \in {k \in DOMAIN mutation[m].changes :
                              mutation[m].changes[k].op = "propose_node"}}
RowNumbered(m, i, n, second) ==  \* variant: apply draws the id
  [id |-> <<n, i>>, pack |-> m, at |-> n, second |-> second,
   record |-> RecordForChange(mutation[m].changes[i])]
Row(m, i, n, second) == [id |-> <<m, i>>, pack |-> m, at |-> n, second |-> second,
                         record |-> RecordForChange(mutation[m].changes[i])]

\* apply_mutation, by a person who gives --approve-human or not.  It looks at the
\* clock anew for each record.
Apply(m, approveHuman) ==
  /\ Stored(m) /\ m \notin applied
  /\ mutation[m].base = rev
  /\ RequiresHumanGate(mutation[m]) => approveHuman
  /\ EvidenceResolves(m)
  /\ EdgeTargetsExist(m)
  /\ applied' = applied \cup {m}
  /\ \E clock \in [DOMAIN mutation[m].changes -> left.seconds] :
       rows' = rows \cup {Row(m, i, Cardinality(applied) + 1, clock[i]) : i \in DOMAIN clock}
  /\ approved' = IF approveHuman THEN approved \cup {m} ELSE approved
  /\ run' = [b \in Builders |-> IF run[b].step \in 1..4 THEN [run[b] EXCEPT !.mixed = TRUE]
                                ELSE run[b]]
  /\ dirty' = TRUE
  /\ UNCHANGED <<ingestVars, digests, mutation, delta, writing, rev, commits, builder, last, left>>

Commit ==
  /\ dirty /\ May("commit")
  /\ rev' = rev + 1
  /\ dirty' = FALSE
  /\ commits' = Append(commits, Cardinality(applied))
  /\ UNCHANGED <<ingestVars, curation, composing>>

-----------------------------------------------------------------------------
(* compose builder *)

\* write_builder_pack, up to require_clean_git; the caller names HEAD.
StartDirty(b) ==  \* variant: a dirty tree will do
  /\ run[b] = Resting /\ May("compose")
  /\ Careful => ~Composing
  /\ run' = [run EXCEPT ![b] = [Resting EXCEPT !.step = 1, !.rev = rev]]
  /\ UNCHANGED <<ingestVars, curation, git, builder, last>>
StartCompose(b) ==
  /\ run[b] = Resting /\ May("compose")
  /\ Careful => ~Composing /\ ~dirty
  /\ run' = [run EXCEPT ![b] = [Resting EXCEPT !.step = 1, !.rev = rev]]
  /\ UNCHANGED <<ingestVars, curation, git, builder, last>>

\* load_applied_state: four registries, one after another
RegistryOrder == <<"claims", "edges", "nodes", "gaps">>
OpOf == [claims |-> "create_claim", edges |-> "add_edge",
         nodes |-> "propose_node", gaps |-> "open_gap"]
ReadRegistry(b) ==
  /\ run[b].step \in 1..4
  /\ LET r == RegistryOrder[run[b].step] IN
       run' = [run EXCEPT ![b].step = @ + 1,
                          ![b].read[r] = {x \in rows : x.record.op = OpOf[r]}]
  /\ UNCHANGED <<ingestVars, curation, git, builder, last, left>>

\* The six files in their order; the last one ends the call.
WriteFile(b) ==
  /\ run[b].step \in 5..10
  /\ LET f == PackFiles[run[b].step - 4]
         k == PackFor(run[b].rev, run[b].read)
     IN builder' = [builder EXCEPT ![f] = k[f]]
  /\ last' = IF run[b].step < 10 THEN "torn" ELSE IF run[b].mixed THEN "mixed" ELSE "whole"
  /\ run' = [run EXCEPT ![b] = IF @.step = 10 THEN Resting ELSE [run[b] EXCEPT !.step = @ + 1]]
  /\ UNCHANGED <<ingestVars, curation, git, left>>
ComposerDies(b) ==
  /\ run[b].step > 4
  /\ May("die")
  /\ run' = [run EXCEPT ![b] = Resting]
  /\ UNCHANGED <<ingestVars, curation, git, builder, last>>

-----------------------------------------------------------------------------
Next ==
  \/ \E s \in Sources :
       \/ \E q \in left.requests : Ingest(s, q)
       \/ GoOnIngesting(s) \/ DieIngesting(s)
       \/ \E d \in left.answers, queued \in BOOLEAN : Digest(s, d, queued)
       \/ \E m \in Packs : Reconcile(m, s)
  \/ \E m \in Packs :
       \/ \E w \in Summaries : ProposeWriteback(m, w)
       \/ WriteDelta(m) \/ WritebackDies(m)
       \/ \E a \in BOOLEAN : Apply(m, a)
  \/ Commit
  \/ \E b \in Builders : StartCompose(b) \/ ReadRegistry(b) \/ WriteFile(b) \/ ComposerDies(b)

Spec == Init /\ [][Next]_vars

-----------------------------------------------------------------------------
(* Properties *)

TypeOK ==
  /\ IngestTypeOK
  /\ digests \in [Sources -> Digests \cup {NoDigest}]
  /\ mutation \in [Packs -> Pack \cup {NoFile}]
  /\ delta \in [Packs -> (SUBSET Ids) \cup {NoPart}]
  /\ applied \subseteq Packs /\ writing \subseteq Packs /\ approved \subseteq applied
  /\ \A x \in rows : /\ x.pack \in applied /\ x.id[1] = x.pack
                     /\ x.at \in 1..MaxPack /\ x.second \in left.seconds
  /\ rev = Len(commits) /\ \A r \in DOMAIN commits : commits[r] \in 0..MaxPack
  /\ dirty \in BOOLEAN /\ last \in {"torn", "mixed", "whole"}
  /\ \A b \in Builders : run[b].step \in 0..10 /\ run[b].rev \in 0..rev
  /\ DOMAIN builder = DOMAIN PartTypes
  /\ \A f \in DOMAIN PartTypes : builder[f] = NoPart \/ builder[f] \in PartTypes[f]

\* A digest that contradicts or supersedes something never becomes canonical
\* without a person's approval, whatever reconcile makes of its edges (a gap
\* when the confidence is low, a node when the target is new) and however the
\* pack and the known nodes change in between; nor does a conflict that a
\* session reports (POLICY.md, human gates).
ContradictionsAreApproved ==
  \A m \in applied \ approved :
    IF mutation[m].from \in Summaries
    THEN mutation[m].from.conflicts = 0
    ELSE \A i \in DOMAIN mutation[m].from.edges : mutation[m].from.edges[i].type \notin GateEdges

\* What a session observed at run time is for OpenClaw only: no file of a
\* builder pack ever names it, from whatever moment and mixture of composes the
\* file is, and everything else that becomes a node is not for OpenClaw
\* (docs/IMPLEMENTATION_PLAN.md: runtime-only records cannot leak).
EveryNodeHasItsReader ==
  \A x \in rows : x.record.op = "propose_node" =>
    LET observed == x.record.type = "runtime_observation" IN
    /\ VisibleToOpenClaw(x.record) <=> observed
    /\ VisibleToBuilders(x.record) <=> ~observed
    /\ observed => x.id \notin KnowledgeIn(builder)

\* A pack shows just what was visible in the registries at the revision that
\* it names, in all its six files, when the last compose has returned and
\* nothing was applied while it read: neither a file of an earlier compose,
\* dead or not, nor a change that was not committed is left in it.
PackShowsItsRevision ==
  Careful /\ ~Composing /\ last = "whole" =>
    LET committed == {x \in rows : x.at <= commits[builder.metadata]}
    IN builder = PackFor(builder.metadata,
                         [r \in DOMAIN OpOf |-> {x \in committed : x.record.op = OpOf[r]}])

\* A finished compose leaves a pack that lint and doctor accept, whatever was
\* applied while it read: the tests cover the invariants put forward although
\* the two are cut to different limits in different orders.
FinishedPackPasses ==
  Careful /\ ~Composing /\ last # "torn" => LintRuntime(builder) /\ DoctorBuilderPack(builder)

\* At the limit a builder pack keeps the rows that say they are the oldest.  What
\* a pack has shown can be missing from a later one only because a row of a later
\* apply takes its place whose clock did not read a later second: it came in the
\* same second, or the clock had been set back.  As long as the clock moves on
\* between applies, nothing that was shown is pushed out.
Outranks(y, x) ==
  /\ y.record.op = x.record.op /\ VisibleToBuilders(y.record)
  /\ y.at > x.at /\ y.second <= x.second
ShownStaysShown ==
  [][Careful /\ builder.bundle # NoPart /\ builder'.bundle # NoPart =>
       \A r \in DOMAIN OpOf : \A i \in builder.bundle[r] \ builder'.bundle[r] :
         \E x, y \in rows : x.id = i /\ x.record.op = OpOf[r] /\ Outranks(y, x)]_vars

\* An approved contradiction of something visible is put forward to builders
\* (SCHEMA.md, docs/package-plans/P11_1_BUILDER_WRITEBACK_SYMMETRY.md).
ContradictionPressureShown ==
  Careful /\ ~Composing /\ last = "whole" =>
    \A x \in {y \in rows : y.at <= commits[builder.metadata]} :
      x.record.edge = "CONTRADICTS" /\ x.record.to \in builder.bundle.nodes =>
        x.id \in builder.constraints.pressure

=============================================================================
