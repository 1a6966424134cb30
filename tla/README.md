# Formal model of Knowledge Topology

TLA+ specifications of the parts of `src/knowledge_topology` whose correctness
depends on the order of file operations, on what else runs at the same time and
on where a process may die. Paths below are relative to
`src/knowledge_topology/` unless they name a document.

## 1. The system

Knowledge Topology is a command-line program (`topology ...`) over a directory
tree in a git repository. There is no server and no database: state is files,
a command is a process, and the only protection between processes is the
atomicity of single file operations (`os.replace`, `os.mkdir`). One write is not atomic:
the rollback of apply puts a file back with `write_bytes`, which empties it first.

| component | state it keeps | operations | what is hard | what makes it correct |
|---|---|---|---|---|
| apply worker (`workers/apply.py`) | `canonical/nodes/**`, `canonical/registry/*.jsonl`, `ops/gaps/**`, `ops/events/**`, `mutations/{pending,applied}` | `apply_mutation` | several files must change together; failures and deaths between them and inside the rollback; registries are read, extended, written; concurrent calls | an applied pack is complete; a failed call leaves nothing; rows go away only where a rollback is cut short; edges resolve; what doctor cannot see is known |
| spool (`storage/spool.py`, `storage/transaction.py`) | `ops/queue/<kind>/{pending,leased,done,failed}` | create, lease, complete, fail, requeue | a lease is a rename followed by a write; two writers of one file | a job is never lost, is in one directory, returns only by recovery or explicit requeue |
| digest queue runner (`workers/run_digest_queue.py`) | locals of one run | recover expired leases, lease, check, generate, write, complete or annotate | slow workers, deaths, stale reads, exceptions inside the exception path | every job settles, attempts are bounded, expired leases are noticed |
| digest worker (`workers/digest.py`, `adapters/digest_model.py`) | `digests/by_source/<src>/*.{json,md}`, lock directory | `write_digest_artifacts` | lock left by a death; two writers; JSON without Markdown | one digest per source; `done` means digested |
| reconcile (`workers/reconcile.py`), writeback (`workers/writeback.py`) | `mutations/pending`, relationship-test files | propose a mutation pack | packs age while revisions move; a contradiction turns into other changes on its way to the human gate | what they propose passes or is refused by apply; a contradiction is approved by a person |
| OpenClaw live bridge (`adapters/openclaw_live.py`) | private lease index, writeback jobs, runtime source packets | issue, lease, run, consume, fail | index, job file and mutation are separate writes; retries | one mutation for one summary |
| ingest (`workers/fetch.py`) | `raw/packets/<src>/` | `ingest_source` | text, packet and job are separate files; licences and limits differ by kind of source | only licensed text is stored; a job finds the text that was stored for it; what a death leaves is seen |
| subjects (`subjects.py`) | `SUBJECTS.yaml` | add, show, refresh | read, change, write back | no head stands beside another repository's location |
| compose (`workers/compose_builder.py`, `workers/compose_openclaw.py`) | projections | compose | the repository moves while it is read; several files published one by one | a projection is one commit's, in all its files, and shows nothing hidden |
| doctor, lint, agent guard | none | reports | none | they agree with the rules of the writers |

Interaction: ingest writes a source packet and enqueues a digest job; the runner
leases the job, calls a provider and lets the digest worker write the digest;
reconcile (or writeback) turns a digest (or a session summary) into a mutation
pack in `mutations/pending`; a person reviews it; apply, the only writer of
`canonical/`, makes it true; compose publishes projections, from which OpenClaw
sessions start that come back through the live bridge. All of these share
files, none shares memory.

`PROJECT.json` lists every component with what is modelled of it, and under
`hazards` what can go wrong at which line.

## 2. Modules

| module | models | state | one action per |
|---|---|---|---|
| `Apply` | `workers/apply.py` | `store`: content of every page, registry and event file; `pending`, `applied`: the two pack directories; `base`: revisions in a pack; `evidence`; `rev`, `dirty`: git; `run[w]`: position and locals of a call (snapshots, prepared texts, event id) | block of checks, single file write, single undo (two steps where a file is written back), the move, a death |
| `CanonicalStore` | abstract: a pack takes effect at once or not at all, and a registry loses records only while it is put back | accepted packs and their records, pages, events; `unsure`: the registries that are being put back, or were not to the end | `Submit`, `Accept`; for an unsure registry `Empty`, `PutBack`, `Change` |
| `Spool` | `storage/spool.py`, one queue kind | `spool[d][j]`: content of job file j in directory d | file operation |
| `DigestQueue` (extends `Spool`) | `workers/run_digest_queue.py`, `workers/digest.py` | `lock`, `json`, `md` per source, the clock, revisions, `proc[p]`: position and locals of a process | file operation, provider answer, clock tick, death |
| `JobLifecycle` | abstract: the life of a job as `QUEUES.md` describes it | state of each job, sources with a result | state change |
| `OpenClawLive` (extends `Spool`) | `adapters/openclaw_live.py`, the writeback queue | `index[j]`, `secret`, `staged`, `pending[j]`, `applied[j]`, `evidence`, `projection`, revision, clock, `proc[p]`: position and locals of a command | file operation, block of checks, death, failing operation |
| `Subjects` | `subjects.py`; composed by `Projection`, no specification of its own | `subjects`: the content of `SUBJECTS.yaml`; `commits[l]`: the repository at l; `admin[a]`: position and locals of a command | read or write of the registry, `git rev-parse`, death |
| `Projection` (extends `Subjects`) | `workers/compose_openclaw.py`, `doctor projections` as the operator `DoctorOK` | `nodes`, `gaps`, `refs`: the working tree; `log`: the git history; `disk`: the published files; `run[p]`: position and locals of a compose; `left`: what may still happen in this history | read of an input file, write or unlink of one output file, edit, commit, death |
| `QueueDoctor` (extends `DigestQueue`) | `doctor queues` | none | |
| `Ingest` | `workers/fetch.py`; composed by `Pipeline`, no specification of its own; what the digest request and `doctor public-safe` make of a packet | `packets`, `jobs`, `ingest`: files of a packet, state of its job, position of the call | file written, death |
| `Records` | how changes become records and who is shown them: `workers/reconcile.py`, `workers/writeback.py`, parts of `workers/apply.py`, both composes; operators only | none | |
| `BuilderPack` (extends `Records`) | what `workers/compose_builder.py` makes of the rows, lint and doctor of a pack; operators only | none | |
| `Pipeline` (extends `Ingest`, `BuilderPack`) | the way from a source to a builder pack | `digests`, `mutation`, `applied`, `delta`, `rows`, git (`rev`, `dirty`), `builder`: the six files, `run[b]`: position and reads of a compose, histories | command; for ingest, writeback and compose a file read or written, or a death |
| `MCApply`, `MCDigestQueue`, `MCOpenClawLive`, `MCProjection`, `MCPipeline` | small instances for TLC | | |
| `SpoolProofs` | lemmas about the file operations of `Spool`, whatever a job file holds | | |
| `DigestQueueProofs`, `QueueLifeProofs` | theorems about `DigestQueue`: for any number of processes; for one | | |
| `OpenClawLiveProofs`, `ApplyProofs`, `ProjectionProofs` | theorems about `OpenClawLive`, `Apply`, `Projection` (with `Subjects`) | | |
| `PipelineProofs`, `BuilderProofs` | theorems about `Pipeline`: ingest, the human gate and readers; what composes of a builder pack publish | | |

Correspondence worth knowing when reading the modules next to the code:

* `Apply!Write` is one iteration of the loop of `apply_writes_with_rollback`:
  snapshot, then atomic replacement. The order of the writes (pages in the order
  of the changes, then registries, then the event) is `Position`. One iteration of the
  reversed loop is `Rollback`, an unlink, where there was no file, and where there was one
  `Overwrite`, after which any part of its rows may be in the file, and then `Rollback`,
  after which all are. (`write_bytes` leaves a prefix; the model allows any subset.) A death
  or an error in between leaves the part for good: the registry is in `cut`. Then the last
  line may be half a line, which `read_jsonl` refuses (`PreflightRejects`), or lack its end, and
  then the next row joins it and both are lost (`JoinedLines`). `Move` is the `os.replace` of the pack,
  which is where a pack takes effect. A registry file is the set of its rows;
  a page or an event is the pack that wrote it; the time a record was applied is
  identified with the event of the same call.
* The text of every registry is computed before the first write (`Prepare`),
  as the code does; with two processes this is where rows get lost.
* `Apply!Validate` is one step although it opens several files: nothing that it
  reads can be changed by its own process, and what others change between its
  reads can also change between `Validate` and `Preflight`.
* In `DigestQueue`, a read and the write-back of a job are separate steps with a
  local `copy` in between (`ClearRead`/`ClearWrite`, `AnnotateRead`/`AnnotateWrite`,
  `LeaseRead`/`LeaseWrite`), because another process may move the file there; a
  write puts a file at its path whether or not there still is one.
* An exception that leaves the command is `Exit`; one that the loop catches leads
  to `annotate`. A `FileNotFoundError` inside `annotate_failure` is caught nowhere.
* In `OpenClawLive` the read-modify-write of `update_index_entry` is `ReadIndex` and
  `WriteIndex` with the local `rows` in between, and the read and rewrite of a job
  file are `ReadJob` and `RewriteJob`; the local `op` says for whom (append, lease,
  begin, consume, fail). A row stands for job id, nonce, hash and revisions; the
  owner and times of a lease are identified with its end. `try` says whether the
  command is inside the `try` block, where an exception leads to `fail_lease`.
  Evidence, new revisions and apply are what happens around the bridge; the test hook
  `fail_after_write` has the effect of a death at that point.
* `requeue_failed_job` is two steps in both queues: the file is rewritten without its lease
  (`BeginRequeue`), then moved (`Requeue`).
* `git` appears as commits that move `rev` and make the tree clean (`Apply`), or
  as revisions that change (`DigestQueue`).
* In `Projection` the topology repository is the working tree and `log`, the trees of
  its commits; HEAD is the last, and dirty means that the tree differs from it. A
  compose takes its position through reads (`ReadNodes`, `ReadGaps`, `ReadRefs`) and
  file writes (`ListPages` ... `WriteManifest`). An exception in its middle leaves what a
  death there leaves, so `ComposerDies` is both. Rows and pages carry only what the
  properties tell apart: whether a node is shown to OpenClaw, which revision
  a page names, which commit a file row belongs to. Whether the subject's own tree is
  clean is asked once and taken as given; escalations, `project_id` and
  `generated_at` are left out.
* A history of `Projection` is orderly when topology commands run one after another
  and `--allow-dirty`, an option for tests, is not given. Properties that
  hold only then say `Orderly`.
* In `Pipeline` apply is one step, which `Apply!ImplementsCanonicalStore` shows of one apply
  at a time as long as none dies in writing back a registry, and a digest is one step, for
  `DigestQueue` shows what its files do. An id is a pair of the mutation pack that drew it and
  a position in it; no property depends on the order of ids. A row has two times: the number of
  its apply (`at`), which no file holds and only the properties use, and the `second` that
  the clock read, which is `applied_at` and what `bounded` sorts by first. The clock is read
  anew for each record and may read any second of the history at any time, so it may stand still
  between two applies or be set back. In one second the next field that differs decides: `authority`,
  which only the rows of a session have, and then what the model takes to be the id. Every claim and statement is reduced to what decides its way: kind,
  status, audience, scope, sensitivity, the ids it cites. A request of `Ingest` carries
  the answer of the network, one of those that `AnswersTo` allows for it; a PDF, page or
  GitHub text is its length.
* A history of `Pipeline` is careful when composes of a task come one after another;
  properties that need it say `Careful`.
* `CanonicalStore!Accept` does not require that an edge's target is recorded by an
  accepted pack: apply accepts a target whose node row was left by a pack whose
  apply died. `AppliedEdgesResolve` states what does hold.
* `JobLifecycle!Produce` may happen for a source that no job asks for, since
  `topology digest` may be called by hand. `Spool!StateOf` maps a job to the directory of its one
  file, and a job with files in several directories to no state of `JobLifecycle`, so the
  refinements of both queues say too that this does not happen.
* Each definition under "variants with a bug" is a wrong version of a definition
  that follows; it is used by no specification. `PROJECT.json` names, for every
  property, the variant under which it fails.

## 3. What the runs check

| run | instance | question and answer |
|---|---|---|
| `apply_serial` | 1 worker; 4 packs that share a node, a claim id and registries; 1 death; 1 revision change | an applied pack has all its pages, exactly one event, and all its records but those of a registry that a call died in writing back; `doctor canonical-parity` sees every half-applied pack that lacks a record (below); edges of applied packs resolve while the nodes were not cut; a failed call leaves nothing; the worker implements `CanonicalStore`. Holds. |
| `apply_audit` | 2 workers, 2 packs (a claim, a gap), 1 death | calls on one pack or on two overlap: an applied pack has an event, and one that is not applied has none unless a call on it died. Holds. |
| `apply_two` | 2 workers, 2 packs that share only a registry file | a row of an applied pack is lost (docs/package-plans/P5_APPLY_GATE.md:44). |
| `digest_serial` | 1 runner, 2 jobs of one source, clock 0..2, 2 deaths, 1 explicit requeue, 1 revision change | bounded attempts, no silent requeue, `JobLifecycle` implemented (a job in two directories implements nothing). Holds; the theorems of `QueueLifeProofs` add the commands by hand, which `digest_two` interleaves with runs. |
| `digest_two` | 2 processes (runs started again and again, manual commands), 1 job, 2 digests, 1 death | one digest per source, `done` means digested, locks leak only by deaths, no job vanishes; expired leases are recovered; every enqueued job ends in `done/` or `failed/` unless a process died, and then `doctor queues` reports what is left, or its lease still runs (`EveryJobSettles`). Holds. |
| `digest_slow` | 2 processes, one slower than its lease | a failed job is pending again without a requeue (QUEUES.md:74). |
| `live` | 1 process; two kinds of history: one job that is worked on, with 2 deaths and a new revision, and two jobs with 1 death, 1 failing operation, 1 apply, 1 requeue | a retry keeps the first proposal (`RetryKeepsProposal`); job in `done/`, row and pack agree; consumed is final; every job keeps its row, signed with the secret that is kept; `JobLifecycle` implemented; work marked `in_progress` does not stay so while its lease lasts and its projection is current. Holds. |
| `live_applied` | 1 process, 1 death, 1 apply | a second mutation for one summary (P11_4_OPENCLAW_LIVE_BRIDGE.md:220). |
| `projection` | 2 composes, 2 subject commands, 2 nodes, 2 subjects; four kinds of history | a pack says what its revision says; doctor finds what a dead compose left; a finished compose passes doctor; gaps name only shown nodes; heads belong to their locations. Holds. |
| `pipeline` | 1 source, 3 packs, 2 composes; six kinds of history | licensed text only; jobs find their text; `doctor public-safe` tells half packets from whole ones; contradictions and conflicts are approved by a person; runtime observations reach OpenClaw only, every other node builders only; a pack shows its revision and passes lint and doctor; what it has shown gives way only to later rows whose clock did not move on. Holds. |
| `pipeline_pressure` | the same, histories with a digest that contradicts a node | an applied contradiction is not put forward to builders (P11_1_BUILDER_WRITEBACK_SYMMETRY.md:60, COMPILE.md:14). |
| `projection_leak` | 2 composes that overlap, 1 death, 1 edit | doctor passes a page of a hidden node (docs/IMPLEMENTATION_PLAN.md:405). |

Known beyond the runs: a death between the rename into `leased/` and the write of the
lease leaves a job without expiry, which recovery passes over for ever (QUEUES.md:64
says each lease has one); apply begins on a dirty tree (`dirty` is no guard of
`Validate`), against POLICY.md:56. With two processes, two attempts and three clock ticks
`AttemptsBounded` fails as well, by the same stale write-back as `digest_slow`.
A pack file that comes back to `mutations/pending` while a second call on it still runs is
applied twice and gets two events, which is why `AuditNamesApplied` does not
count them.
In `OpenClawLive`, a death between the staging directory and the `in_progress` mark
makes every retry of that lease refused, and a death between the consumed row and
the move to `done/` leaves the job in `leased/` for ever; nothing recovers an expired
lease of the writeback queue. A failing move to `done/` turns a consumed row into a
failed one, so `ConsumedIsFinal` allows exactly that after a failing operation. None of this
contradicts a document. With two processes `OneMutationPerLease` fails without any
failure (the second call on a lease finds `in_progress` and no pack yet), against
P11_4_OPENCLAW_LIVE_BRIDGE.md:196 "successful mutation writeback consumes the lease
exactly once", and two concurrent issues lose a row of the index, against :187 of the
same document. `capture-source` writes its evidence without the
`openclaw_live_job_id` that `verify_evidence` asks for; evidence for a lease is
therefore bound by hand, as the tests do (`BindEvidence`). With two bridge processes
`WritebackResumes` fails: a rewrite of the index may drop the `in_progress` mark of
the other.

One apply at a time can lose rows of packs applied long before. A write fails after a
registry was replaced, the rollback puts the registry back with `write_bytes`
(`workers/apply.py`:227), and the process dies there, or the disk is full: the file stays empty or
cut, against docs/package-plans/P5_APPLY_GATE.md:44 "applied claim/edge/node records are written to
canonical registries". docs/package-reviews/P5_UNFREEZE.md:78 knows that "rollback is
exception-level only, not crash-durable journaling", but a death between two atomic writes could
not do this. The properties of `Apply` therefore name the registries that a call died in writing
back (`CutRegistries`). Without that exception `apply_serial` is violated with one
worker and one death, as `AppliedRecordsKept` is in `apply_two` with two workers and none. Nothing puts the rows
back, and doctor complains from then on (`DoctorFindsTornApply`), for the pages of the dead
call are left without rows.

A death of apply between two writes leaves a page without its record, against POLICY.md:49
("in one transaction"): `DoctorFindsTornApply` shows that `doctor canonical-parity` reports
it as long as a record of a claim, an edge or a node is missing. A death after the last
registry is silent to it, and the pack, still in `mutations/pending`, is refused by
preflight ever after.

Of the pipeline. `fetch.py` adds a line end (510, 580) to a text cut at 8000 characters,
and `doctor public-safe` (`workers/doctor.py`:308) reports more than 8000: it complains of every
external text that was cut, although RAW_POLICY.md:41 allows it; `DoctorTellsHalfPackets` excepts
this case. Gaps have no status either, so what `pipeline_pressure` shows of
edges is true of gaps: builders never see one. At the limits of a builder pack `bounded` sorts by
the JSON text of a row, which begins with `applied_at`, so the rows with the earliest second stay.
COMPILE.md:55-56 asks for something else ("prefer higher authority, active status, direct file refs,
direct evidence, and recent verification"), and P11_1_BUILDER_WRITEBACK_SYMMETRY.md:170 for an order
"by opaque ID or path". When two applies fall into one second, or the clock is set back between them,
a row of the second may come first and push out a row that builders were shown;
`ShownStaysShown` says that nothing else does. The history `Following` reaches the first case (in one
second the rows of a session, which have an authority, sort before those of a reconcile) and `Clocked` the second. A writeback that dies
after its pack never writes the relationship tests in `.tmp/writeback`, and no command misses
them. An apply between the four reads of a builder
compose gives a pack with rows that its revision does not hold (`last = "mixed"`); the caller
names the revision, and nothing compares it with HEAD. A compose that dies after `metadata.json`
leaves a new revision over old files, and lint and doctor accept it as all six files
exist. A digest may be reconciled twice, which gives two packs. A packet stored as
`local_blob` keeps an `excerpt.md` that no request sends. The relationship tests of a
builder pack have no evidence, as nodes carry `source_id` and not `source_ids`. A death
between `packet.json` and the job leaves a packet that no job digests and no
command reports.

In `Projection`, histories that are not orderly break `PackNamesItsRevision`,
`DoctorFindsStaleness` and `ComposeHeals`: HEAD and a clean tree are checked once, and a
command that writes or commits after that, or a second compose, is mixed into the
pack (a record of an apply that later rolls back can be published under a revision
that never held it). Two `subject add` at once lose one of the two rows. `doctor` does not
compare `subject_state_verified`, so after a death the prompt may differ from the
pack in it; `DoctorFindsStaleness` leaves that field out. Nor does it look into the
two renderings, of which it asks only that they exist (`workers/doctor.py`:158): when a compose for
another subject dies after the Markdown and the next one for the first subject dies after the
pack, doctor passes a projection whose Markdown names another subject than its pack. The property says of the
renderings what does hold: same revision, records and gaps always, same subject fields
only if they name the same subject. The proof of the property found this, and the history
`TwoSubjects` was added to show it.

### Bounds

* Packs p1..p3 of `MCApply` are the smallest set with a pack of two changes, an
  edge whose target another pack proposes, a pack that needs human approval by
  its content and one by its flag, and two packs that claim the same id. p6 adds a row to a
  registry that may have been cut. p4 shares nothing with p1 but the claims registry. In
  `apply_audit` the calls on p4 and p5 meet in `ops/events` and on the same pack.
* One revision change is enough for a stale pack; one death per history is
  enough for every state that a death can leave, since a dead process does
  nothing more and the state it leaves is retried by the next call. Event ids are as many as
  packs that may take effect or leave an event behind.
* Two jobs of one source are the smallest case in which a job meets the digest
  of another; two processes the smallest in which a lease is taken from a live
  worker. A lease of one tick and a clock of one or two ticks let it expire
  while it is held, and once more after a requeue.
* `MCPipeline` looks at six kinds of history. `AnyRequest` makes every combination of place,
  type, mode and licence, of texts around the limits 800 and 8000 (lengths 0, 801, 7999, 8000,
  9000; explicit types only where they change the branch) and dies once. The others ingest
  one page and go through the whole pipeline. `Following`: a reconcile, a session and two composes, all
  in one second. `Dying`: one death. `Digesting`: a digest that contradicts a node of an earlier
  pack, with and without confidence. `Careless`: composes that overlap. `Clocked`: two sessions, and
  at each record the clock reads one of two seconds, so it moves on, stands still and is set
  back; their packs have one node more than are shown. In the others it stands still. Three packs are a node, a
  contradiction of it, and one more. The limits of compose are 3 rows, 1 gap and 1 row put
  forward, of 40, 20 and 10 in the code: small enough to be exceeded, and different, so
  that tests and invariants are cut differently. One source is enough, for nothing
  in the later stages compares two. Composes are interchangeable (`SYMMETRY`).
* Two jobs of `OpenClawLive` are the smallest case in which a rewrite of the index can
  drop another row; two packs let a second proposal happen. Its runs have one
  process, since what two can do to each other has no defence in the code (above).
  `RetryKeepsProposal` is `OneMutationPerLease` without the combination that breaks
  it, a death before and an apply between call and retry (`live_applied`). The kinds of history
  of `MCOpenClawLive` keep one job's deaths apart from what two jobs can do.
* `MCProjection` looks at four kinds of history, and a state says which one it is in.
  `OneAtATime` has three composes, so that one can die, one run over its remains and
  one follow a change; two commits, an edit, a subject command and a death.
  `TwoSubjects` registers and commits a second subject, and two of its three composes die.
  `Overlapping` has two composes, an edit and a commit in any order, enough for a write
  of one compose, or of another command, to fall between any two steps of the other.
  `Registering` has four subject commands by two processes. Two nodes are a shown and a
  hidden one; the three file rows are one more than the limit of the index and one
  whose path is refused; of the two locations only one is a git repository at first.
* CHECK_DEADLOCK is off everywhere: a system of commands stops when nobody
  starts one and the bounds are used up.

### Fairness

`FairSpec` of `DigestQueue` and of `OpenClawLive` only says that a started command goes
on (weak fairness of `Advance`): Python runs the next statement. Nothing is
assumed of the environment (commits, proposals, ticks). `TimerSpec` adds that the
queue runner is started again and again whatever manual commands run in between
(strong fairness of `StartRun`): `--run-queue` handles at most `max_jobs` jobs
and is meant to be run by a timer. `RetrySpec` of `OpenClawLive` adds the same for the
session of a lease, which calls `run-writeback` again until its lease is gone; the
liveness of `OpenClawLive` is checked under it. Deaths are never required. After one the
lock directory may block a source and a stranded lease never ends, so `EveryJobSettles` lets a
job stay in `leased/` then, if `doctor queues` reports it or its lease still runs. Properties
of the form `[]<>~P` say that P does not last, and are the same as `P ~> ~P`. `Pipeline`
and `Projection` state safety only: nobody has to review, commit or compose.

## 4. What is proved

Every safety property that a passing run checks is also a theorem of the specification, for
every value of the constants. A run shows it on a small instance; the theorem needs no
bound, and holds for instances whose deaths, packs, jobs and limits no run could
enumerate. Some theorems are about any number of processes. The others are about one, as
`ASSUME NEW o, Procs = {o}` says, because with two the property is false (section 3) and the
code has nothing that would make it true: a person or a timer runs one command after another.
In `QueueLifeProofs` it is `Runners = {o}`: one run of the queue at a time, beside any number
of commands that digest a source by hand, which may take the lock of the run's source or write its
digest at any moment, but touch no job file (`HandStep`). One process dies and starts again any number of times, so what it finds is whatever a
predecessor left anywhere, and the environment (ingest, proposals, commits, requeues by hand,
applies around the bridge) still runs between its steps.

| module | theorem | states | number of processes, histories |
|---|---|---|---|
| `DigestQueueProofs` | `TypeCorrect`, `OneDigest`, `DoneMeansDigested`, `LocksHeld`, `NeverLost` | `TypeOK`, `OneDigestPerSource`, `DoneHasDigest`, `LockOnlyLeaksByCrash`, `JobNeverLost` | any |
| `QueueLifeProofs` | `LeasesAreBounded`, `SettledUntilRequeued`, `JobsHaveTheirLife` | `AttemptsBounded`, `OnlyExplicitRequeue`, `ImplementsJobLifecycle` | one run, any by hand |
| `OpenClawLiveProofs` | `TypeCorrect` | `TypeOK` | any |
| | `RecordsOfDoneAgree`, `IndexComplete`, `RetryFindsProposal`, `ConsumedStays`, `JobsHaveTheirLife` | `DoneNamesMutation`, `IndexKnowsEveryJob`, `RetryKeepsProposal`, `ConsumedIsFinal`, `ImplementsJobLifecycle` | one |
| `ApplyProofs` | `TypeCorrect`, `AuditTrailIsTrue` | `TypeOK`, `AuditNamesApplied` | any |
| | `AppliedPackIsComplete`, `EdgesOfAppliedPacksResolve`, `RollbackLeavesNothing`, `DoctorFindsDeadApply`, `PacksTakeEffectAtOnce` | `AppliedIsComplete`, `AppliedEdgesResolve`, `FailedApplyLeavesNothing`, `DoctorFindsTornApply`, `ImplementsCanonicalStore` | one |
| `ProjectionProofs` | `TypeCorrect`, `PacksAreClosed`, `HeadsStayHome` | `TypeOK`, `PackIsClosed`, `HeadBelongsToLocation` | any, any |
| | `PacksNameTheirRevision`, `StalenessIsFound`, `ComposesHeal` | `PackNamesItsRevision`, `DoctorFindsStaleness`, `ComposeHeals` | any, orderly |
| `PipelineProofs` | `Licensed`, `JobsFindText`, `DoctorTells`, `PeopleApprove`, `NodesHaveReaders` | `OnlyLicensedText`, `JobFindsItsText`, `DoctorTellsHalfPackets`, `ContradictionsAreApproved`, `EveryNodeHasItsReader` | any, any |
| `BuilderProofs` | `TypeCorrect` | `TypeOK` | any, any |
| | `PacksShowTheirRevision`, `FinishedPacksPass`, `WhatIsShownStays` | `PackShowsItsRevision`, `FinishedPackPasses`, `ShownStaysShown` | any, careful |

`Orderly` and `Careful` are conditions inside the properties, not assumptions of the
theorems: they hold of the histories in which commands of the kind come one after another.

### The inductive invariants, and why they are needed

* `DigestQueueProofs`. `Typed` adds to `TypeOK` which locals a process has set at which
  point (`LocalsOK`); without it a step like "write the copy back" could write a non-file.
  `DigestInv` says that a process inside the writer owns the lock directory of its
  source, that no two are inside for one source, and that what a process has seen or
  written there is still so (`WriterKnows`). Steps that touch neither a digest nor a lock nor
  `done/` are treated once for all (`Quiet`, `QuietStep`).
* `QueueLifeProofs`. `Alone(o)`: a job has one file (`OnePlace`); before any requeue a job that
  waits may be leased once more (`Counted`); and the command's job is in `leased/`, its copy is what
  is there, and until the lease is written it has been leased less often than it may be
  (`AtWork`). The copy is what makes the bound inductive: the write-back of a stale copy is
  how two processes break it. `OthersByHand` says that the other commands hold no job. For the refinement, `CommandWorks` reduces every step of the command to a
  rewrite of a leased file or one of four moves, where a move to `done/` needs `DigestInv`.
* `OpenClawLiveProofs`. `Solo(o)`: `Books` relates the records at rest (a consumed job is in
  neither `pending/` nor `failed/`, every row is signed with the kept secret, a proposed
  pack has its staging directory, a job has one pack unless a death and an apply came between),
  `AtWork` says at each point of a command how far job file, row, pack and
  staging directory have come (`Hand`, `Keys`, `Known`, `Open`, `Backed`, `Begun`). A death keeps
  `Books` at every point, and that is all the next command can rely on.
* `ApplyProofs`. `Audit`: an event that a call has drawn is its own, so that a rollback takes
  back nobody else's. `OneCall(w)` is about `Behind`, the files as they would be once the
  running call is undone: these stay the same from the first write to the last; they are tidy
  (every record belongs to an applied or a dead pack, applied packs are complete, targets
  resolve), and the call has written a prefix of its write set in the order of `Position`
  (`CallWrites`, `InOrder`). Rollback then ends in `Behind`, the move turns the written files into those of an
  applied pack, and a death leaves a prefix, which is why doctor tells it apart. All of it is
  stated up to a set L of registries that lost rows: those of `cut`, and the one that the call
  is writing back (`Restoring`). What makes the theorem about doctor survive is `LossShows`: such a
  registry lacks a row of a pack that died with all of its pages in place, since a rollback
  comes to the pages last.
* `ProjectionProofs`. `Typed` with the limit of the index, and `PackIsClosed` with what a compose
  has read so far. `Heads` says of every copy of a row, in the registry or in the locals of a
  command, that its head is a commit at its location. `InOrder` says of orderly histories that at
  most one command runs, that what a compose has read is what HEAD holds, what it has
  written is what it has read (`OnTrack`), and of the remains on disk (`Kept`) that each file is of
  some commit and none that is read first is older than the manifest.
* `PipelineProofs`. `IngestInv` says by `Stage` which files a call has written when it is, or
  died, at which point, and that each is the one that its request leads to; what a request
  leads to are lemmas about the operators of `Ingest` (`StoredTextLicensed`, `PacketTellsText`).
  `CurationInv` says that every stored pack asks for a person exactly when what it was made from
  does (`GateOK`), that its changes are ones reconcile or writeback makes (`GoodChange`, by the lemmas
  `ReconcileGood` and `WritebackGood`), and that every row is such a change as apply records it
  (`Recorded`). `ReaderInv` adds that a compose has read rows only and that, whatever files of
  whatever composes a builder pack is mixed of, it names visible rows only.
* `BuilderProofs`. `Numbered`: rows are numbered by the apply they came with, and a commit
  remembers how many there were, so a read of a registry is "what the first n applies recorded"
  (`ReadBy`). `CarefulInv` says of the one running compose that each of its four reads is such a
  read, of the commit itself if nothing was mixed in (`ReadOK`), and that the files written so
  far are those of its pack (`FilesOK`); `BundleOK` keeps, after the compose is gone, that
  a bundle shows the first n applies with an n that whoever reads later reaches. `WhatIsShownStays` then
  comes down to a lemma about the limit (`BoundKeeps`): a row leaves what is kept of a growing set only
  if a new one sorts before it.
* `SpoolProofs` says once what a write, a move and a requeue do to each file and
  to the state of a job, for any content of job files; both queues use it.

### What the proofs assume

The named assumptions of the modules: job ids are numbers, since `lease_next` sorts them
(`JobAssumption`); every job names a source, limits, times and bounds are natural numbers, values for
"no file", "no job", "no pack" and the like are none (`RunnerAssumption`, `FileAssumption`,
`LiveAssumption`, `LiveFileAssumption`, `NamesAssumption`, `NoFileAssumption`, `NoPartAssumption`,
`SubjectAssumption`); a pack that parses has a change (`PackAssumption`);
`SUBJECTS.yaml` starts with heads that exist and there are finitely many
file rows (`ProjectionAssumption`); digests and summaries are ones that the schema checks accept and
requests have answers of their place (`IngestAssumption`, `PipelineAssumption`). TLC evaluates each of them in
the runs. Beside these, the modelling choices of section 2 and the bounds in guards: a bound
such as `MaxCrashes` is any natural number in a theorem.

### What stays model-checked only

`ExpiredLeaseRecovered`, `EveryJobSettles` and `WritebackResumes` are liveness under
fairness, which the prover does not do. The five runs that expect a violation are about
properties that are false. Nothing else that a run checks is without a theorem.

## 5. What is not modelled

* Text: page rendering, prompts, Markdown, error messages, argument parsing.
* Schema validation of single files beyond what guards an action (`Digest`,
  `SourcePacket`, `MutationPack` accept or refuse; a refusal is a failing step), and the
  normalisation of the items of a session summary.
* Downloads: redirects, content types, HTML and PDF parsing are the answer of a request.
* `file_refs`: writeback keeps those of an interface in its node row, which compose does not
  look at; the registry `file_refs.jsonl`, which compose and `doctor stale-anchors` read, is
  written by no worker of the repository.
* `agent_guard` and `lint` of schema files and prompts: pure checks of one call.
* Path safety (symlinks, traversal): string functions of one call, no state.
* `fsync`: after a power failure a file system may lose a rename that was
  observed; the model's files are durable once replaced.

## 6. Plan

Done: all modules of section 2. Left, in this order:

1. Relate the models that `Pipeline` abstracts: that its one-step apply is what
   `CanonicalStore` allows while no registry is unsure, as a theorem about both, and that its one-step digest is what `OneDigest` and
   `DoneMeansDigested` leave.
2. The safety part of `EveryJobSettles`: what a job in `leased/` looks like when no
   command runs, as an invariant with a theorem, so that only the fair scheduling is left to TLC.
3. `doctor stale-anchors`, once a worker of the repository writes the `file_refs.jsonl` it reads.
