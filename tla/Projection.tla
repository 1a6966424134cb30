----------------------------- MODULE Projection -----------------------------
(***************************************************************************)
(* The OpenClaw projection: `topology compose openclaw`                    *)
(* (workers/compose_openclaw.py) reads the topology repository and writes  *)
(* projections/openclaw/ file by file, `topology doctor projections`       *)
(* (workers/doctor.py) says whether what is there can be used.             *)
(*                                                                         *)
(* The topology repository is a working tree and a git history.  Other     *)
(* commands (apply, writeback, subject) change the tree, someone commits,  *)
(* and a compose may die between two writes.  In an orderly history        *)
(* topology commands run one at a time and --allow-dirty, which is for     *)
(* tests, is not given; in any other they overlap as they please.          *)
(***************************************************************************)
EXTENDS Subjects, Sequences, FiniteSets

CONSTANTS
  Composers,   \* processes running `topology compose openclaw`
  Nodes,       \* canonical node ids
  New,         \* target_id of a gap about a node that is not there yet
  FileRefs,    \* rows that canonical/registry/file_refs.jsonl may hold
  SafePaths,   \* the paths safe_file_index_path lets through
  IndexLimit,  \* FILE_INDEX_LIMIT
  FirstTree,   \* the tree of the first commit here
  FirstCommits,\* how many commits each subject repository has by then
  NoFile, NoData,
  MaxRev,      \* bound: commits of the topology repository
  Histories    \* bound: the kinds of history looked at

\* A kind of history: whether it is orderly, and how often each thing may
\* still be done in it (compose calls, subject commands, edits by other
\* commands, commits here, commits in a subject repository, deaths)
History == [orderly : BOOLEAN, compose : Nat, subject : Nat, edit : Nat,
            commit : Nat, move : Nat, crash : Nat]

\* visible_to_openclaw decides what a row of nodes.jsonl is to OpenClaw
NodeStates == {"absent", "hidden", "shown"}
Tree == [nodes : [Nodes -> NodeStates],
         gaps  : SUBSET (Nodes \cup {New}),   \* the targets of open gaps
         refs  : SUBSET FileRefs,
         subjects : Registry]

ASSUME ProjectionAssumption ==
  /\ New \notin Nodes
  /\ \A r \in FileRefs : /\ r.repo \in Ids /\ r.commit \in Sha /\ r.path \in Nat
                         /\ \A s \in FileRefs : r.path = s.path => r = s
  /\ IndexLimit \in Nat
  /\ FirstTree \in Tree
  /\ FirstCommits \in [Locations -> 0..MaxCommits]
  /\ \A i \in Ids : LET row == FirstTree.subjects[i] IN
       row # NoSubject /\ row.head # NoHead =>
         row.head[1] = row.location /\ row.head[2] <= FirstCommits[row.location]
  /\ IsFiniteSet(FileRefs)
  /\ MaxRev \in Nat \ {0}
  /\ Histories \subseteq History
  /\ Admins \cap Composers = {}

VARIABLES
  nodes, gaps, refs,  \* the working tree, beside subjects
  log,      \* the git history: log[r] is the tree of commit r, HEAD is its last
  disk,     \* the files under projections/openclaw
  run,      \* run[p]: where compose p is, and its locals
  left      \* the kind of this history and what may still be done in it
vars == <<subjects, commits, admin, nodes, gaps, refs, log, disk, run, left>>

tree  == [nodes |-> nodes, gaps |-> gaps, refs |-> refs, subjects |-> subjects]
HeadRev  == Len(log)
dirty == tree # log[HeadRev]

-----------------------------------------------------------------------------
(* What is read from the tree *)

\* projected_nodes, projected_gap, projected_file_index
Shown(ns) == {n \in Nodes : ns[n] = "shown"}
GapsOfNow(gs, visible) ==  \* variant: what is visible is looked up again
  gs \ {n \in Nodes : nodes[n] # "shown"}
ProjectedGaps(gs, visible) == {g \in gs : g = New \/ g \in visible}
SafeRows(rs, id, head) ==
  {r \in rs : r.repo = id /\ r.commit = head /\ r.path \in SafePaths}
RowsPastLimit(rs, id, head) ==  \* variant: one too many
  LET safe == SafeRows(rs, id, head)
  IN {r \in safe : Cardinality({s \in safe : s.path < r.path}) <= IndexLimit}
ProjectedRows(rs, id, head) ==
  LET safe == SafeRows(rs, id, head)
  IN {r \in safe : Cardinality({s \in safe : s.path < r.path}) < IndexLimit}
Truncated(rs, id, head) == Cardinality(SafeRows(rs, id, head)) > IndexLimit

\* runtime-pack.json; runtime-pack.md and memory-prompt.md are rendered from it.
\* project_id and generated_at are the same for all.
Pack == [rev : 1..MaxRev, id : Ids, head : Sha, location : Locations,
         verified : BOOLEAN, records : SUBSET Nodes, gaps : SUBSET (Nodes \cup {New}),
         count : Nat, truncated : BOOLEAN]
Manifest == [rev : 1..MaxRev, id : Ids, head : Sha, verified : BOOLEAN, pages : SUBSET Nodes]
ASSUME NoFileAssumption ==
  NoFile \notin Pack \cup Manifest /\ \A s \in SUBSET FileRefs : s # NoFile
ManifestOf(k) == [rev |-> k.rev, id |-> k.id, head |-> k.head,
                  verified |-> k.verified, pages |-> k.records]

Disk == [pages : [Nodes -> 0..MaxRev],  \* the canonical_rev on the page of a node; 0: no page
         index : {s \in SUBSET FileRefs : Cardinality(s) <= IndexLimit} \cup {NoFile},
         pack : Pack \cup {NoFile}, markdown : Pack \cup {NoFile}, prompt : Pack \cup {NoFile},
         manifest : Manifest \cup {NoFile}]
NoProjection == [pages |-> [n \in Nodes |-> 0], index |-> NoFile, pack |-> NoFile,
                 markdown |-> NoFile, prompt |-> NoFile, manifest |-> NoFile]
PagesOnDisk == {n \in Nodes : disk.pages[n] # 0}

\* A pack before its fields are known
Blank(r) == [rev |-> r, id |-> NoId, head |-> NoHead, location |-> NoData, verified |-> FALSE,
             records |-> {}, gaps |-> {}, count |-> 0, truncated |-> FALSE]
Resting == [at |-> "idle", pack |-> Blank(0), rows |-> {}, todo |-> {}]
Busy(p) == run[p] # Resting
Quiet == (\A p \in Composers : ~Busy(p)) /\ (\A a \in Admins : admin[a] = Idle)
Orderly == left.orderly

\* A command may begin, one of the kind k that the history has left
Begin(k) ==
  /\ Orderly => Quiet
  /\ left[k] > 0
  /\ left' = [left EXCEPT ![k] = @ - 1]

TypeOK ==
  /\ SubjectsTypeOK
  /\ tree \in Tree
  /\ log \in Seq(Tree) /\ HeadRev \in 1..MaxRev
  /\ disk \in Disk
  /\ \A p \in Composers : LET r == run[p] IN
       /\ r.at \in {"idle", "bind", "nodes", "gaps", "refs", "list", "unlink", "page",
                   "pack", "markdown", "prompt", "manifest", "done"}
       /\ r.at \in {"page", "pack", "markdown", "prompt", "manifest", "done"} => r.pack \in Pack
       /\ r.rows \subseteq FileRefs
       /\ r.todo \subseteq Nodes
  /\ left \in History

Init ==
  /\ nodes = FirstTree.nodes /\ gaps = FirstTree.gaps
  /\ refs = FirstTree.refs /\ subjects = FirstTree.subjects
  /\ log = <<FirstTree>>
  /\ commits = FirstCommits
  /\ admin = [a \in Admins |-> Idle]
  /\ disk = NoProjection
  /\ run = [p \in Composers |-> Resting]
  /\ left \in Histories

-----------------------------------------------------------------------------
(* write_openclaw_projection *)

Inputs == <<subjects, commits, admin, nodes, gaps, refs, log>>
Return(p)  == run' = [run EXCEPT ![p] = Resting]
Goto(p, l) == run' = [run EXCEPT ![p].at = l]
Keep(p, next, pack) == run' = [run EXCEPT ![p].at = next, ![p].pack = pack]

\* require_topology_state: HEAD is the revision that was asked for and the tree
\* is clean; --allow-dirty takes any revision the caller knows of.
StartUnchecked(p, r, allowDirty) ==  \* variant: a dirty tree will do
  /\ ~Busy(p) /\ Begin("compose")
  /\ r = HeadRev
  /\ Keep(p, "bind", Blank(r))
  /\ UNCHANGED <<Inputs, disk>>
Start(p, r, allowDirty) ==
  /\ ~Busy(p) /\ Begin("compose")
  /\ \/ ~allowDirty /\ r = HeadRev /\ ~dirty
     \/ allowDirty /\ ~Orderly
  /\ Keep(p, "bind", Blank(r))
  /\ UNCHANGED <<Inputs, disk>>

\* subject_for_projection: the head the caller names is the one in the registry
\* and, if the caller gives the subject's path, also HEAD there.  (That the
\* subject's tree is clean is asked once, here, of a tree that may be in any
\* state: the model takes the answer as given.)
Bind(p, i, withPath) ==
  /\ run[p].at = "bind"
  /\ subjects[i] # NoSubject /\ subjects[i].head # NoHead
  /\ withPath => HeadOf(subjects[i].location) = subjects[i].head
  /\ Keep(p, "nodes", [run[p].pack EXCEPT !.id = i, !.head = subjects[i].head,
                        !.location = subjects[i].location, !.verified = withPath])
  /\ UNCHANGED <<Inputs, disk, left>>
\* Any other subject, head or path is an error
Refuse(p) ==
  /\ run[p].at = "bind"
  /\ Return(p)
  /\ UNCHANGED <<Inputs, disk, left>>

\* Three files are read one after another (the escalations, which have no
\* relation to the others, are left out).
ReadNodes(p) ==
  /\ run[p].at = "nodes"
  /\ Keep(p, "gaps", [run[p].pack EXCEPT !.records = Shown(nodes)])
  /\ UNCHANGED <<Inputs, disk, left>>
ReadGaps(p) ==
  /\ run[p].at = "gaps"
  /\ Keep(p, "refs", [run[p].pack EXCEPT !.gaps = ProjectedGaps(gaps, run[p].pack.records)])
  /\ UNCHANGED <<Inputs, disk, left>>
ReadRefs(p) ==
  /\ run[p].at = "refs"
  /\ LET k == run[p].pack
         rows == ProjectedRows(refs, k.id, k.head)
     IN run' = [run EXCEPT ![p].at = "list", ![p].rows = rows,
                  ![p].pack = [k EXCEPT !.count = Cardinality(rows),
                                        !.truncated = Truncated(refs, k.id, k.head)]]
  /\ UNCHANGED <<Inputs, disk, left>>

\* pages_dir.iterdir lists the pages once, then they are unlinked one by one;
\* a page another compose has unlinked meanwhile ends this one with an error.
ListOwnPages(p) ==  \* variant: only the pages about to be written are removed
  /\ run[p].at = "list"
  /\ run' = [run EXCEPT ![p].at = "unlink", ![p].todo = PagesOnDisk \cap run[p].pack.records]
  /\ UNCHANGED <<Inputs, disk, left>>
ListPages(p) ==
  /\ run[p].at = "list"
  /\ run' = [run EXCEPT ![p].at = "unlink", ![p].todo = PagesOnDisk]
  /\ UNCHANGED <<Inputs, disk, left>>
UnlinkPage(p, n) ==
  /\ run[p].at = "unlink" /\ n \in run[p].todo
  /\ IF n \in PagesOnDisk THEN run' = [run EXCEPT ![p].todo = @ \ {n}] ELSE Return(p)
  /\ disk' = [disk EXCEPT !.pages[n] = 0]
  /\ UNCHANGED <<Inputs, left>>
EndUnlink(p) ==
  /\ run[p].at = "unlink" /\ run[p].todo = {}
  /\ run' = [run EXCEPT ![p].at = "page", ![p].todo = run[p].pack.records]
  /\ UNCHANGED <<Inputs, disk, left>>

\* Each file is replaced as a whole: pages, index, pack, its two renderings and
\* the manifest last.  The pages go in the order of their ids, which nothing
\* depends on.
WritePage(p, n) ==
  /\ run[p].at = "page" /\ n \in run[p].todo
  /\ disk' = [disk EXCEPT !.pages[n] = run[p].pack.rev]
  /\ run' = [run EXCEPT ![p].todo = @ \ {n}]
  /\ UNCHANGED <<Inputs, left>>
WriteIndexOnce(p) ==  \* variant: an index that is there is kept
  /\ run[p].at = "page" /\ run[p].todo = {}
  /\ disk' = IF disk.index = NoFile THEN [disk EXCEPT !.index = run[p].rows] ELSE disk
  /\ Goto(p, "pack")
  /\ UNCHANGED <<Inputs, left>>
WriteIndex(p) ==
  /\ run[p].at = "page" /\ run[p].todo = {}
  /\ disk' = [disk EXCEPT !.index = run[p].rows]
  /\ Goto(p, "pack")
  /\ UNCHANGED <<Inputs, left>>
WritePack(p) ==
  /\ run[p].at = "pack"
  /\ disk' = [disk EXCEPT !.pack = run[p].pack]
  /\ Goto(p, "markdown")
  /\ UNCHANGED <<Inputs, left>>
WriteMarkdown(p) ==
  /\ run[p].at = "markdown"
  /\ disk' = [disk EXCEPT !.markdown = run[p].pack]
  /\ Goto(p, "prompt")
  /\ UNCHANGED <<Inputs, left>>
WritePrompt(p) ==
  /\ run[p].at = "prompt"
  /\ disk' = [disk EXCEPT !.prompt = run[p].pack]
  /\ Goto(p, "manifest")
  /\ UNCHANGED <<Inputs, left>>
WriteManifest(p) ==
  /\ run[p].at = "manifest"
  /\ disk' = [disk EXCEPT !.manifest = ManifestOf(run[p].pack)]
  /\ Goto(p, "done")
  /\ UNCHANGED <<Inputs, left>>
Finish(p) ==
  /\ run[p].at = "done"
  /\ Return(p)
  /\ UNCHANGED <<Inputs, disk, left>>

ComposerStarts(p) == \E r \in 1..HeadRev, f \in BOOLEAN : Start(p, r, f)
ComposerSteps(p) ==
  \/ \E i \in Ids, v \in BOOLEAN : Bind(p, i, v)
  \/ Refuse(p) \/ ReadNodes(p) \/ ReadGaps(p) \/ ReadRefs(p)
  \/ ListPages(p) \/ EndUnlink(p) \/ \E n \in Nodes : UnlinkPage(p, n) \/ WritePage(p, n)
  \/ WriteIndex(p) \/ WritePack(p) \/ WriteMarkdown(p) \/ WritePrompt(p)
  \/ WriteManifest(p) \/ Finish(p)

-----------------------------------------------------------------------------
(* Everyone else *)

Dying == left.crash > 0 /\ left' = [left EXCEPT !.crash = @ - 1]

\* A death; an exception in the middle ends a compose in the same state.
ComposerDies(p) ==
  /\ Busy(p)
  /\ Return(p)
  /\ Dying
  /\ UNCHANGED <<Inputs, disk>>

\* Another command writes one of the files compose reads, or undoes its write
Edit ==
  /\ Begin("edit")
  /\ \/ /\ \E n \in Nodes, v \in NodeStates : nodes' = [nodes EXCEPT ![n] = v]
        /\ UNCHANGED <<gaps, refs>>
     \/ /\ \E g \in Nodes \cup {New} : gaps' = gaps \cup {g} \/ gaps' = gaps \ {g}
        /\ UNCHANGED <<nodes, refs>>
     \/ /\ \E r \in FileRefs : refs' = refs \cup {r}
        /\ UNCHANGED <<nodes, gaps>>
  /\ UNCHANGED <<subjects, commits, admin, log, disk, run>>

TopologyCommit ==
  /\ Begin("commit")
  /\ dirty /\ HeadRev < MaxRev
  /\ log' = Append(log, tree)
  /\ UNCHANGED <<subjects, commits, admin, nodes, gaps, refs, disk, run>>

SubjectCommand ==
  /\ \/ Begin("subject") /\ \E a \in Admins : AdminStarts(a)
     \/ UNCHANGED left /\ \E a \in Admins : AdminSteps(a)
  /\ UNCHANGED <<nodes, gaps, refs, log, disk, run>>
SubjectCommandDies ==
  /\ Dying /\ \E a \in Admins : AdminDies(a)
  /\ UNCHANGED <<nodes, gaps, refs, log, disk, run>>
SubjectMoves ==
  /\ left.move > 0 /\ left' = [left EXCEPT !.move = @ - 1]
  /\ \E l \in Locations : SubjectCommit(l)
  /\ UNCHANGED <<nodes, gaps, refs, log, disk, run>>

Next ==
  \/ \E p \in Composers : ComposerStarts(p) \/ ComposerSteps(p) \/ ComposerDies(p)
  \/ Edit \/ TopologyCommit
  \/ SubjectCommand \/ SubjectCommandDies \/ SubjectMoves
Spec == Init /\ [][Next]_vars

-----------------------------------------------------------------------------
(* doctor projections --canonical-rev r *)

\* subject_projection_authority and the files recomputed from the tree
BindingHolds(k) ==
  /\ subjects[k.id] # NoSubject
  /\ subjects[k.id].head = k.head
  /\ subjects[k.id].location = k.location
IndexHolds(k) ==
  /\ disk.index = ProjectedRows(refs, k.id, k.head)
  /\ k.count = Cardinality(disk.index)
  /\ k.truncated = Truncated(refs, k.id, k.head)

DoctorOK(r) ==
  \/ /\ disk.pack = NoFile /\ disk.index = NoFile /\ disk.manifest = NoFile
  \/ /\ NoFile \notin {disk.index, disk.pack, disk.markdown, disk.prompt, disk.manifest}
     /\ disk.pack.rev = disk.manifest.rev /\ disk.pack.rev = r
     /\ disk.pack.id = disk.manifest.id
     /\ disk.pack.head = disk.manifest.head
     /\ BindingHolds(disk.pack)
     /\ IndexHolds(disk.pack)
     /\ disk.manifest.pages \subseteq PagesOnDisk

\* lint_openclaw_projection_shape: of the revisions it looks at none, and pack
\* and manifest may disagree.
LintOpenClawShape ==
  LET required == {"index", "pack", "markdown", "prompt", "manifest"} IN
  \/ \A f \in required : disk[f] = NoFile
  \/ /\ \A f \in required : disk[f] # NoFile
     /\ disk.manifest.pages \subseteq PagesOnDisk
     /\ BindingHolds(disk.pack)
     /\ IndexHolds(disk.pack)

-----------------------------------------------------------------------------
(* Properties *)

\* In an orderly history a pack says what was committed at the revision it
\* names: its records, gaps and file rows and its subject are those of that
\* commit, also when earlier commands died, and whatever the subject
\* repositories do.
PackNamesItsRevision ==
  Orderly /\ disk.pack # NoFile =>
    LET k == disk.pack
        t == log[k.rev]
    IN /\ k.records = Shown(t.nodes)
       /\ k.gaps = ProjectedGaps(t.gaps, k.records)
       /\ t.subjects[k.id] = [location |-> k.location, head |-> k.head]
       /\ k.count = Cardinality(ProjectedRows(t.refs, k.id, k.head))

\* In an orderly history doctor finds every stale or half-written projection:
\* when it passes for HEAD of a clean tree, what OpenClaw reads is the current
\* tree, in all its renderings, and no page of a hidden node is left.  Of the
\* renderings doctor asks only that they are there (doctor.py:158): when
\* composes for two subjects died one after the other they may name the other
\* subject, and nothing is said of subject_state_verified.
DoctorFindsStaleness ==
  Orderly /\ ~dirty /\ disk.pack # NoFile /\ DoctorOK(HeadRev) =>
    /\ disk.pack.records = Shown(nodes)
    /\ disk.pages = [n \in Nodes |-> IF nodes[n] = "shown" THEN HeadRev ELSE 0]
    /\ \A f \in {disk.markdown, disk.prompt} :
         /\ f.rev = disk.pack.rev /\ f.records = disk.pack.records /\ f.gaps = disk.pack.gaps
         /\ f.id = disk.pack.id =>
              [f EXCEPT !.verified = FALSE] = [disk.pack EXCEPT !.verified = FALSE]

\* In an orderly history a compose that comes to its end leaves a projection
\* that doctor and lint accept, whatever a compose that died had left there.
ComposeHeals ==
  \A p \in Composers : Orderly /\ run[p].at = "done" => DoctorOK(HeadRev) /\ LintOpenClawShape

\* A pack never names a node it does not show, even if the nodes change while
\* it is composed: gaps are filtered by the records read before.
PackIsClosed ==
  disk.pack # NoFile => disk.pack.gaps \ {New} \subseteq disk.pack.records

\* What docs/IMPLEMENTATION_PLAN.md says of doctor, of every history: once
\* nothing runs, a projection that passes for HEAD leaks no hidden node.
DoctorFindsLeaks ==
  Quiet /\ ~dirty /\ disk.pack # NoFile /\ DoctorOK(HeadRev) =>
    PagesOnDisk \subseteq Shown(nodes)

=============================================================================
