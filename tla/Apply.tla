------------------------------- MODULE Apply -------------------------------
(***************************************************************************)
(* The apply worker (workers/apply.py): the only code that writes          *)
(* canonical/.  One call of apply_mutation checks a pending mutation pack, *)
(* writes its pages, registry files and audit event one file at a time     *)
(* with a snapshot of each, and moves the pack file from mutations/pending *)
(* to mutations/applied; an exception undoes the writes in reverse.        *)
(*                                                                         *)
(* The file system is a map from targets to contents.  The writes are      *)
(* renames and each is one step; the undoing of a write to a file that was *)
(* there is not: write_bytes empties the file before it fills it again.  A *)
(* process may die between any two steps, and git may commit at any time.  *)
(***************************************************************************)
EXTENDS Naturals, Sequences, FiniteSets

CONSTANTS
  Workers,     \* processes running `topology apply`
  Packs,       \* mutation pack ids
  Ids,         \* claim, edge, gap and node ids
  Refs,        \* source and digest ids that evidence can name
  EventIds,    \* evt_ ids new_id can return
  Changes,     \* Changes[p]: the sequence of changes of pack p
  Evidence,    \* Evidence[p]: the refs evidence_refs_for_changes(p) returns
  FlaggedHuman,\* the packs whose requires_human field is true
  NoFile,      \* the content of a file that does not exist
  CutFile,     \* the content of a page that was not written back to its end
  NoPack, NoEvent, NoRev, \* no value
  MaxRev,      \* bound: how often git history moves
  MaxCrashes   \* bound: how many packs may see their apply die

Ops == {"create_claim", "add_edge", "open_gap", "propose_node"}

\* registry_path: the JSONL file each kind of change is recorded in
Registries == {"claims", "edges", "gaps", "nodes"}
RegistryOf(c) == CASE c.op = "create_claim" -> "claims"
                   [] c.op = "add_edge"     -> "edges"
                   [] c.op = "open_gap"     -> "gaps"
                   [] OTHER                 -> "nodes"

\* MutationPack.validate: every pack that parses has at least one change
Change == [op : Ops, id : Ids, to : Ids, destructive : BOOLEAN]
ASSUME PackAssumption ==
  \A p \in Packs : /\ Changes[p] \in Seq(Change)
                   /\ Changes[p] # <<>>
                   /\ Evidence[p] \subseteq Refs
ASSUME NamesAssumption ==
  /\ NoPack \notin Packs /\ NoFile \notin Packs /\ CutFile \notin Packs \cup {NoFile}
  /\ NoEvent \notin EventIds
  /\ NoRev \notin 0..MaxRev
  /\ MaxRev \in Nat
  /\ MaxCrashes \in Nat

VARIABLES
  pending,   \* the packs with a file in mutations/pending
  applied,   \* the packs with a file in mutations/applied
  base,      \* base[p]: the revisions written in the pack (its preconditions)
  evidence,  \* the refs that resolve to a source packet or a digest
  store,     \* the content of every page, registry and event file
  rev,       \* the current canonical and subject revisions
  dirty,     \* git status of the topology repository is not clean
  run,       \* run[w]: where worker w is in apply_mutation, and its locals
  crashed,   \* history: the packs whose apply died after it began to write
  cut        \* history: the registries that a call died in writing back

history == <<crashed, cut>>
vars == <<pending, applied, base, evidence, store, rev, dirty, run, history>>

Indices(p) == DOMAIN Changes[p]
ChangeSet(p) == {Changes[p][i] : i \in Indices(p)}

\* The files: page_path, registry_path, event_path
Page(i)     == <<"page", i>>
Registry(r) == <<"registry", r>>
Event(e)    == <<"event", e>>
Pages    == {Page(i) : i \in Ids}
RegistryFiles == {Registry(r) : r \in Registries}
Events   == {Event(e) : e \in EventIds}
Targets  == Pages \cup RegistryFiles \cup Events

\* record_for_change: a registry line.  "at" stands for applied_at, which the
\* model identifies with the event of the same call.
RecordNamingItsPack(c, p, e) == [id |-> c.id, to |-> c.to, pack |-> p, at |-> p] \* variant
Record(c, p, e) == [id |-> c.id, to |-> c.to, pack |-> p, at |-> e]
Rows == [id : Ids, to : Ids, pack : Packs, at : EventIds]

\* page_path and registry_path over the changes of a pack
PageTargets(p)     == {Page(c.id) : c \in ChangeSet(p)}
RegistryTargets(p) == {Registry(RegistryOf(c)) : c \in ChangeSet(p)}
WriteSet(p, e)     == PageTargets(p) \cup RegistryTargets(p) \cup {Event(e)}

\* prepared_writes: pages in the order of the changes, then the registries in
\* the order in which a change first needs them, then the event.
FirstIndex(is) == CHOOSE i \in is : \A j \in is : i <= j
Position ==
  [p \in Packs |-> [t \in Targets |->
     CASE t \in PageTargets(p)     -> FirstIndex({i \in Indices(p) : Page(Changes[p][i].id) = t})
       [] t \in RegistryTargets(p) ->
            Len(Changes[p]) +
            FirstIndex({i \in Indices(p) : Registry(RegistryOf(Changes[p][i])) = t})
       [] OTHER                    -> 2 * Len(Changes[p]) + 1]]
IsFirst(p, t, ts) == t \in ts /\ \A u \in ts : Position[p][t] <= Position[p][u]
IsLast(p, t, ts)  == t \in ts /\ \A u \in ts : Position[p][u] <= Position[p][t]

\* requires_human_gate: CONTRADICTS and SUPERSEDES edges count whatever the
\* pack's own flag says
RequiresHuman(p) == p \in FlaggedHuman \/ \E c \in ChangeSet(p) : c.destructive

\* Registry.known_node_ids and check_edge_targets
KnownNodes == {x.id : x \in store[Registry("nodes")]}
EdgeTargetsPlanned(p) ==  \* variant: a node that is only proposed will do
  \A c \in ChangeSet(p) : c.op = "add_edge" =>
    c.to \in KnownNodes \cup {d.id : d \in UNION {ChangeSet(q) : q \in pending}}
EdgeTargetsExist(p) ==
  \A c \in ChangeSet(p) : c.op = "add_edge" =>
    \/ c.to \in KnownNodes
    \/ \E d \in ChangeSet(p) : d.op = "propose_node" /\ d.id = c.to

\* preflight_writes: no target twice, none there yet, no registry id twice
PreflightOK(p) ==
  /\ \A i, j \in Indices(p) : Changes[p][i].id = Changes[p][j].id => i = j
  /\ \A t \in PageTargets(p) : store[t] = NoFile
  /\ \A c \in ChangeSet(p) : c.id \notin {x.id : x \in store[Registry(RegistryOf(c))]}

Resting == [pc |-> "idle", pack |-> NoPack, todo |-> {}, snap |-> <<>>,
            text |-> <<>>, event |-> NoEvent]

\* The registries whose last line need not be whole: a call died in writing
\* them back, or is at it
CutRegistries ==
  cut \cup {r \in Registries : \E w \in Workers :
               run[w].pc = "restore" /\ Registry(r) \in run[w].todo}

Goto(w, pc) == run' = [run EXCEPT ![w].pc = pc]
Stop(w)     == run' = [run EXCEPT ![w] = Resting]

Init ==
  /\ pending = {} /\ applied = {} /\ crashed = {} /\ cut = {}
  /\ base = [p \in Packs |-> NoRev]
  /\ evidence = {}
  /\ store = [t \in Targets |-> IF t \in RegistryFiles THEN {} ELSE NoFile]
  /\ rev = 0
  /\ dirty = FALSE
  /\ run = [w \in Workers |-> Resting]

----------------------------------------------------------------------------
(* What happens around the apply worker *)

\* ingest and digest add a source packet or a digest that evidence can name.
RecordEvidence(ref) ==
  /\ ref \notin evidence
  /\ evidence' = evidence \cup {ref}
  /\ dirty' = TRUE
  /\ UNCHANGED <<pending, applied, base, store, rev, run, history>>

\* A pack file appears in mutations/pending: reconcile or writeback proposes it
\* at the current revisions, or git brings back the file of an applied pack,
\* with the revisions it always had.
Propose(p) ==
  /\ p \notin pending
  /\ pending' = pending \cup {p}
  /\ base' = IF base[p] = NoRev THEN [base EXCEPT ![p] = rev] ELSE base
  /\ dirty' = TRUE
  /\ UNCHANGED <<applied, evidence, store, rev, run, history>>

\* A commit in the topology repository, which leaves its tree clean
Commit ==
  /\ dirty /\ rev < MaxRev
  /\ rev' = rev + 1
  /\ dirty' = FALSE
  /\ UNCHANGED <<pending, applied, base, evidence, store, run, history>>

\* A commit in the subject repository
SubjectCommit ==
  /\ rev < MaxRev
  /\ rev' = rev + 1
  /\ UNCHANGED <<pending, applied, base, evidence, store, dirty, run, history>>

----------------------------------------------------------------------------
(* apply_mutation *)

\* Lines 240-253: load the pack and check identity, preconditions, human gate,
\* evidence and edge targets.  A check that fails raises before anything is
\* written, which changes no state.
Validate(w, p, approveHuman) ==
  /\ run[w].pc = "idle"
  /\ p \in pending
  /\ p \notin applied
  /\ base[p] = rev
  /\ RequiresHuman(p) => approveHuman
  /\ Evidence[p] \subseteq evidence
  /\ EdgeTargetsExist(p)
  /\ run' = [run EXCEPT ![w].pc = "preflight", ![w].pack = p]
  /\ UNCHANGED <<pending, applied, base, evidence, store, rev, dirty, history>>

Preflight(w) ==
  /\ run[w].pc = "preflight"
  /\ PreflightOK(run[w].pack)
  /\ Goto(w, "prepare")
  /\ UNCHANGED <<pending, applied, base, evidence, store, rev, dirty, history>>

\* read_jsonl raises on half a line; a registry that was cut may end in one.
PreflightRejects(w) ==
  /\ run[w].pc = "preflight"
  /\ \/ ~PreflightOK(run[w].pack)
     \/ \E r \in CutRegistries : Registry(r) \in RegistryTargets(run[w].pack)
  /\ Stop(w)
  /\ UNCHANGED <<pending, applied, base, evidence, store, rev, dirty, history>>

\* Lines 265-290: draw an event id and build the new text of every registry
\* from the text it has now.  Where a registry was cut just before the end of a
\* line, the next row joins it, and neither can be read: joined are such rows.
NewRows(p, r, e) == {Record(c, p, e) : c \in {d \in ChangeSet(p) : RegistryOf(d) = r}}
JoinedLines(p, e) ==
  {{}} \cup UNION {{{x, y} : x \in store[Registry(r)], y \in NewRows(p, r, e)} : r \in cut}
NewText(p, e, joined) ==
  [r \in {RegistryOf(c) : c \in ChangeSet(p)} |->
     LET text == store[Registry(r)] \cup NewRows(p, r, e)
     IN IF r \in cut THEN text \ joined ELSE text]

\* new_id draws an id that no file and no other call has.
FreshFile(e)  == store[Event(e)] = NoFile  \* variant: calls that overlap may draw the same
FreshEvent(e) == store[Event(e)] = NoFile /\ \A w \in Workers : run[w].event # e

Prepare(w) ==
  LET p == run[w].pack IN
  /\ run[w].pc = "prepare"
  /\ p \notin applied
  /\ \E e \in EventIds : \E joined \in JoinedLines(p, e) :
       /\ FreshEvent(e)
       /\ run' = [run EXCEPT ![w] = [@ EXCEPT !.pc = "write", !.event = e,
                                       !.todo = WriteSet(p, e), !.text = NewText(p, e, joined)]]
  /\ UNCHANGED <<pending, applied, base, evidence, store, rev, dirty, history>>

PrepareRejects(w) ==
  /\ run[w].pc = "prepare"
  /\ run[w].pack \in applied
  /\ Stop(w)
  /\ UNCHANGED <<pending, applied, base, evidence, store, rev, dirty, history>>

\* apply_writes_with_rollback: snapshot a file, then replace it atomically.
NewContent(w, t) == IF t \in RegistryFiles THEN run[w].text[t[2]] ELSE run[w].pack
WithSnapshot(w, t) ==
  [u \in DOMAIN run[w].snap \cup {t} |-> IF u = t THEN store[t] ELSE run[w].snap[u]]

Write(w) ==
  /\ run[w].pc = "write"
  /\ \E t \in run[w].todo :
       /\ IsFirst(run[w].pack, t, run[w].todo)
       /\ store' = [store EXCEPT ![t] = NewContent(w, t)]
       /\ run' = [run EXCEPT ![w] = [run[w] EXCEPT !.todo = @ \ {t},
                                                    !.snap = WithSnapshot(w, t)]]
  /\ dirty' = TRUE
  /\ UNCHANGED <<pending, applied, base, evidence, rev, history>>

\* Variants of the next steps with a bug each, for the properties to find
WriteFailsOutsideTry(w) ==
  /\ run[w].pc = "write" /\ run[w].todo # {}
  /\ Stop(w)
  /\ UNCHANGED <<pending, applied, base, evidence, store, rev, dirty, history>>
MoveBeforeEvent(w) ==
  LET p == run[w].pack IN
  /\ run[w].pc = "write" /\ run[w].todo \subseteq Events
  /\ p \in pending
  /\ pending' = pending \ {p} /\ applied' = applied \cup {p}
  /\ Stop(w)
  /\ dirty' = TRUE
  /\ UNCHANGED <<base, evidence, store, rev, history>>
RollbackStep(w, t, left) ==
  run' = [run EXCEPT ![w] = IF left = {t} THEN Resting
                            ELSE [@ EXCEPT !.pc = "rollback", !.todo = {},
                                           !.snap = [u \in left \ {t} |-> run[w].snap[u]]]]
RollbackFirstWriteFirst(w) ==
  LET left == DOMAIN run[w].snap IN
  /\ run[w].pc \in {"rollback", "restore"}
  /\ \E t \in left : /\ IsFirst(run[w].pack, t, left)
                     /\ store' = [store EXCEPT ![t] = run[w].snap[t]]
                     /\ RollbackStep(w, t, left)
  /\ dirty' = TRUE
  /\ UNCHANGED <<pending, applied, base, evidence, rev, history>>
\* atomic_write_text raises: the target keeps its content, its snapshot is taken
WriteFails(w) ==
  /\ run[w].pc = "write"
  /\ \E t \in run[w].todo :
       /\ IsFirst(run[w].pack, t, run[w].todo)
       /\ run' = [run EXCEPT ![w] = [@ EXCEPT !.pc = "rollback", !.todo = {},
                                              !.snap = WithSnapshot(w, t)]]
  /\ UNCHANGED <<pending, applied, base, evidence, store, rev, dirty, history>>

\* os.replace of the pack file: the commit point
Move(w) ==
  LET p == run[w].pack IN
  /\ run[w].pc = "write"
  /\ run[w].todo = {}
  /\ p \in pending
  /\ pending' = pending \ {p}
  /\ applied' = applied \cup {p}
  /\ Stop(w)
  /\ dirty' = TRUE
  /\ UNCHANGED <<base, evidence, store, rev, history>>

\* os.replace raises: the file is gone, or the move is refused
MoveFails(w) ==
  /\ run[w].pc = "write"
  /\ run[w].todo = {}
  /\ Goto(w, "rollback")
  /\ UNCHANGED <<pending, applied, base, evidence, store, rev, dirty, history>>

\* One iteration of the rollback loop: the last snapshot not yet restored goes
\* back; after the first one, raise.  A file that was not there is unlinked; a
\* file that was is emptied (Overwrite), of which any part may be there while
\* the bytes are written, and is whole again afterwards (Rollback).  A line that
\* is cut in the middle is no row.
WasThere(w, t) == run[w].snap[t] \notin {NoFile, {}}
PartsOf(t, content) == IF t \in RegistryFiles THEN SUBSET content ELSE {CutFile}

Overwrite(w) ==
  LET left == DOMAIN run[w].snap IN
  /\ run[w].pc = "rollback"
  /\ \E t \in left :
       /\ IsLast(run[w].pack, t, left)
       /\ WasThere(w, t)
       /\ \E part \in PartsOf(t, run[w].snap[t]) : store' = [store EXCEPT ![t] = part]
       /\ run' = [run EXCEPT ![w] = [@ EXCEPT !.pc = "restore", !.todo = {t}]]
  /\ dirty' = TRUE
  /\ UNCHANGED <<pending, applied, base, evidence, rev, history>>

Rollback(w) ==
  LET left == DOMAIN run[w].snap IN
  /\ \E t \in left :
       /\ \/ run[w].pc = "rollback" /\ IsLast(run[w].pack, t, left) /\ ~WasThere(w, t)
          \/ run[w].pc = "restore" /\ t \in run[w].todo
       /\ store' = [store EXCEPT ![t] = run[w].snap[t]]
       /\ RollbackStep(w, t, left)
  /\ dirty' = TRUE
  /\ UNCHANGED <<pending, applied, base, evidence, rev, history>>

\* The process dies, is interrupted (KeyboardInterrupt is no Exception, so no
\* rollback runs), or a write of the rollback itself raises.  The file that was
\* being written back stays as it is.
Crash(w) ==
  /\ run[w].pc \in {"write", "rollback", "restore"}
  /\ Cardinality(crashed \cup {run[w].pack}) <= MaxCrashes
  /\ crashed' = crashed \cup {run[w].pack}
  /\ cut' = IF run[w].pc = "restore" THEN cut \cup {t[2] : t \in run[w].todo \cap RegistryFiles}
            ELSE cut
  /\ Stop(w)
  /\ UNCHANGED <<pending, applied, base, evidence, store, rev, dirty>>

----------------------------------------------------------------------------
(* doctor_canonical_parity (workers/doctor.py): canonical/nodes and its three *)
(* registries must hold the same ids.                                         *)

CanonicalRegistries == Registries \ {"gaps"}
RecordedIds == {x.id : x \in UNION {store[Registry(r)] : r \in CanonicalRegistries}}
CanonicalPageIds ==
  {i \in Ids : \E p \in Packs : /\ store[Page(i)] = p
                                /\ \E c \in ChangeSet(p) : c.id = i /\ c.op # "open_gap"}
NoDuplicateIds ==
  \A r \in CanonicalRegistries : \A x, y \in store[Registry(r)] : x.id = y.id => x = y
DoctorRowsOnly == NoDuplicateIds /\ RecordedIds \subseteq CanonicalPageIds  \* variant
DoctorCanonicalParity == NoDuplicateIds /\ RecordedIds = CanonicalPageIds

----------------------------------------------------------------------------
Around ==
  \/ \E ref \in Refs : RecordEvidence(ref)
  \/ \E p \in Packs : Propose(p)
  \/ Commit
  \/ SubjectCommit

\* What a call of apply_mutation does by itself once it has begun
Advance(w) ==
  \/ Preflight(w) \/ PreflightRejects(w)
  \/ Prepare(w) \/ PrepareRejects(w)
  \/ Write(w) \/ WriteFails(w)
  \/ Move(w) \/ MoveFails(w)
  \/ Overwrite(w) \/ Rollback(w)

Next ==
  \/ Around
  \/ \E w \in Workers : \/ \E p \in Packs, a \in BOOLEAN : Validate(w, p, a)
                        \/ Advance(w)
                        \/ Crash(w)

Spec == Init /\ [][Next]_vars

----------------------------------------------------------------------------
(* Properties *)

\* Types, and the domains of a call's locals at each point of apply_mutation.
RunTypeOK(w) ==
  /\ run[w].pc \in {"idle", "preflight", "prepare", "write", "rollback", "restore"}
  /\ run[w].pack \in Packs \cup {NoPack}
  /\ run[w].event \in EventIds \cup {NoEvent}
  /\ run[w].todo \subseteq Targets
  /\ DOMAIN run[w].snap \subseteq Targets
  /\ \A r \in DOMAIN run[w].text : r \in Registries /\ run[w].text[r] \subseteq Rows
TypeOK ==
  /\ pending \subseteq Packs
  /\ applied \subseteq Packs
  /\ crashed \subseteq Packs
  /\ cut \subseteq Registries
  /\ base \in [Packs -> (0..MaxRev) \cup {NoRev}]
  /\ evidence \subseteq Refs
  /\ DOMAIN store = Targets
  /\ \A t \in Pages \cup Events : store[t] \in Packs \cup {NoFile, CutFile}
  /\ \A t \in RegistryFiles : store[t] \subseteq Rows
  /\ rev \in 0..MaxRev
  /\ dirty \in BOOLEAN
  /\ \A w \in Workers : RunTypeOK(w)

AllIdle == \A w \in Workers : run[w].pc = "idle"

\* A pack in mutations/applied has all of its effects, from one and the same
\* call: every page, one audit event, and every registry record, whatever
\* failed or died before or after (the move is the last file operation), but
\* for the records of a registry that a call died in writing back.
AppliedIsComplete ==
  \A p \in applied : \E e \in EventIds :
    /\ store[Event(e)] = p
    /\ \A f \in EventIds : store[Event(f)] = p => f = e
    /\ \A c \in ChangeSet(p) :
         /\ store[Page(c.id)] = p
         /\ \/ Record(c, p, e) \in store[Registry(RegistryOf(c))]
            \/ RegistryOf(c) \in CutRegistries

\* Every record of an applied pack stays in its registry
\* (docs/package-plans/P5_APPLY_GATE.md:44).
AppliedRecordsKept ==
  \A p \in applied : \A c \in ChangeSet(p) :
    \E x \in store[Registry(RegistryOf(c))] : x.id = c.id /\ x.pack = p

\* The edges of applied packs point at nodes that are recorded, as long as no
\* call has died in writing back the nodes, whichever other registry was cut.
AppliedEdgesResolve ==
  "nodes" \notin CutRegistries =>
    \A x \in store[Registry("edges")] : x.pack \in applied => x.to \in KnownNodes

\* When no call is running, everything in canonical/ and ops/events belongs to
\* an applied pack or to one whose apply died: a call that fails leaves nothing
\* (docs/package-plans/P5_APPLY_GATE.md, acceptance criteria).
FailedApplyLeavesNothing ==
  AllIdle =>
    /\ \A t \in Pages \cup Events : store[t] \in applied \cup crashed \cup {NoFile}
    /\ \A t \in RegistryFiles : \A x \in store[t] : x.pack \in applied \cup crashed

\* A dead apply shows: when no call is running, doctor canonical-parity, which
\* compares ids only, complains if and only if some pack that is not applied has
\* a part of its pages and records in place, also when rows of applied packs
\* were lost with a registry.  Gaps it does not look at, and a pack with all of
\* them in place, dead before the move, it takes for applied.
Torn(p) ==
  LET cs == {c \in ChangeSet(p) : c.op # "open_gap"}
  IN {store[Page(c.id)] = p : c \in cs} \cup
     {\E x \in store[Registry(RegistryOf(c))] : x.id = c.id /\ x.pack = p : c \in cs} = BOOLEAN
DoctorFindsTornApply ==
  AllIdle => (DoctorCanonicalParity <=> \A p \in Packs \ applied : ~Torn(p))

\* The audit trail tells what was applied in every history, also when calls
\* overlap and rows of the registries get lost: an applied pack has an event,
\* and a pack that is not applied has none once no call on it runs, unless one
\* of them died (the event is the last file a call writes before the move, and
\* a call takes back its own event only).
AuditNamesApplied ==
  \A p \in Packs :
    LET recorded == \E e \in EventIds : store[Event(e)] = p
    IN /\ p \in applied => recorded
       /\ p \notin crashed /\ (\A w \in Workers : run[w].pack # p) =>
            (recorded => p \in applied)

\* What the packs ap show of the files in st
ShownRecords(st, ap) ==
  [r \in Registries |-> {<<x.id, x.pack>> : x \in {y \in st[Registry(r)] : y.pack \in ap}}]
ShownPages(st, ap) == [i \in Ids |-> IF st[Page(i)] \in ap THEN st[Page(i)] ELSE NoFile]
ShownEvents(st, ap) ==
  [p \in Packs |-> IF p \in ap THEN Cardinality({e \in EventIds : st[Event(e)] = p}) ELSE 0]

\* The store this worker implements: what it shows is what belongs to applied
\* packs, and a pack takes effect in the step that moves its file; a registry
\* is unsure while it is written back, and for good when that is not finished.
Committed == INSTANCE CanonicalStore WITH
  records  <- ShownRecords(store, applied),
  pages    <- ShownPages(store, applied),
  events   <- ShownEvents(store, applied),
  waiting  <- pending,
  accepted <- applied,
  unsure   <- CutRegistries
ImplementsCanonicalStore == Committed!Spec

=============================================================================
