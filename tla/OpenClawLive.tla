---------------------------- MODULE OpenClawLive ----------------------------
(***************************************************************************)
(* The live bridge (adapters/openclaw_live.py).  An OpenClaw session gets  *)
(* a lease for the summary it announced and later writes that summary back *)
(* as a mutation pack.  What a lease is worth is spread over four places:  *)
(* the job file in the writeback queue, a row of the private index, the    *)
(* staging directory of the job and the pack in mutations/pending.  Each   *)
(* is read and written on its own, and a process may die in between.       *)
(***************************************************************************)
EXTENDS Spool, FiniteSets

CONSTANTS
  Procs,       \* processes running `topology openclaw ...`
  Packs,       \* ids of mutation packs
  Secrets,     \* secrets that a process can draw
  NoJob, NoPack, NoRow, NoSecret,
  LeaseTime,   \* lease_seconds, in units of the clock
  Histories    \* bound: the kinds of history looked at

\* A kind of history: the jobs issued, the last time and revision, how many
\* processes die, how many file operations raise inside the try block, how many
\* packs are applied and how many explicit requeues there are.
History == [jobs : SUBSET Jobs, clock : Nat, rev : Nat, crashes : Nat, errors : Nat,
            applies : Nat, requeues : Nat]

ASSUME LiveAssumption ==
  /\ NoJob \notin Jobs /\ NoPack \notin Packs /\ NoSecret \notin Secrets
  /\ LeaseTime \in Nat
  /\ Histories \subseteq History

\* What a job file and a row of the index can hold.  The owner and the times of
\* a lease are identified with the time it ends; the summary, its hash and the
\* nonce are the job's own, and a row is signed with a secret.
JobFile == [rev : Nat, expires : Nat \cup {NoLease}, pack : Packs \cup {NoPack}]
Statuses == {"issued", "leased", "in_progress", "consumed", "failed"}
Row == [status : Statuses, expires : Nat \cup {NoLease}, pack : Packs \cup {NoPack},
        rev : Nat, secret : Secrets]
ASSUME LiveFileAssumption == NoFile \notin JobFile /\ NoLease \notin Nat /\ NoRow \notin Row

\* The two metadata files of the projection that the bridge compares
ProjectionFiles == {"runtime-pack", "manifest"}

VARIABLES
  index,       \* index[j]: the row of job j in issued-leases.jsonl
  secret,      \* the issuer secret
  staged,      \* jobs with a directory .tmp/writeback/<job>
  pending,     \* pending[j]: packs of job j in mutations/pending
  applied,     \* applied[j]: packs of job j that apply has moved on
  evidence,    \* jobs whose source packet and digest are bound to them
  projection,  \* projection[f]: the revision file f was composed at
  rev,         \* the canonical revision
  clock,
  count,       \* how many deaths, errors and requeues there were
  history,     \* the kind of this history
  proc         \* proc[p]: where process p is, and its locals

bridge == <<index, secret, staged, pending>>
around == <<applied, evidence, projection, rev, clock, count, history>>
vars   == <<spool, bridge, around, proc>>

NoRows  == [j \in Jobs |-> NoRow]
Resting == [pc |-> "idle", op |-> "none", todo |-> {}, job |-> NoJob, copy |-> NoFile,
            rows |-> NoRows, secret |-> NoSecret, pack |-> NoPack,
            resume |-> FALSE, try |-> FALSE]

Init ==
  /\ SpoolInit
  /\ index = NoRows /\ secret = NoSecret /\ staged = {}
  /\ pending = [j \in Jobs |-> {}] /\ applied = [j \in Jobs |-> {}]
  /\ evidence = {} /\ projection = [f \in ProjectionFiles |-> 0]
  /\ rev = 0 /\ clock = 0
  /\ count = [crashes |-> 0, errors |-> 0, requeues |-> 0] /\ history \in Histories
  /\ proc = [p \in Procs |-> Resting]

At(p, pc)    == proc[p].pc = pc
Become(p, r) == proc' = [proc EXCEPT ![p] = r]
Goto(p, pc)  == Become(p, [proc[p] EXCEPT !.pc = pc])
Exit(p)      == Become(p, Resting)
Job(p)       == proc[p].job

\* An exception in the try block is followed by fail_lease; any other leaves
\* the command, one raised by fail_lease itself included.
Raised(p) == IF proc[p].try
               THEN [proc[p] EXCEPT !.try = FALSE, !.op = "fail", !.pc = "read", !.copy = NoFile]
               ELSE Resting
Raise(p)  == Become(p, Raised(p))

PacksOf(j) == pending[j] \cup applied[j]
Used       == UNION {PacksOf(j) : j \in Jobs}
Exists(j)  == \E d \in QueueStates : IsIn(j, d)

\* What an update of the index writes, and where the command goes on then
StatusAfterUnmarked ==  \* variant: a status that validate_issued_entry does not know
  [append |-> "issued", lease |-> "leased", begin |-> "started",
   consume |-> "consumed", fail |-> "failed"]
StatusAfter == [append |-> "issued", lease |-> "leased", begin |-> "in_progress",
                consume |-> "consumed", fail |-> "failed"]

NewRow(p) ==
  IF proc[p].op = "append"
    THEN [status |-> "issued", expires |-> NoLease, pack |-> NoPack,
          rev |-> proc[p].copy.rev, secret |-> proc[p].secret]
    ELSE [proc[p].rows[Job(p)] EXCEPT
            !.status  = StatusAfter[proc[p].op],
            !.expires = IF proc[p].op = "lease" THEN proc[p].copy.expires ELSE @,
            !.pack    = IF proc[p].op = "consume" THEN proc[p].pack ELSE @]

AfterIndex(p) ==
  LET r == [proc[p] EXCEPT !.rows = NoRows]
  IN CASE r.op \in {"append", "lease"} -> Resting
       [] r.op = "begin"               -> [r EXCEPT !.pc = "propose", !.try = TRUE]
       [] OTHER                        -> [r EXCEPT !.pc = "settle"]

----------------------------------------------------------------------------
(* Variants of the steps below with a bug each, for the properties to find *)

WriteIndexAlone(p) ==
  /\ At(p, "rows")
  /\ index' = [NoRows EXCEPT ![Job(p)] = NewRow(p)]
  /\ Become(p, AfterIndex(p))
  /\ UNCHANGED <<spool, secret, staged, pending, around>>
RewriteJobUnnamed(p) ==
  /\ At(p, "write")
  /\ WriteJob(Job(p), "leased",
       [proc[p].copy EXCEPT !.expires = IF proc[p].op = "lease" THEN clock + LeaseTime ELSE @])
  /\ Goto(p, IF proc[p].op = "lease" THEN "reread" ELSE "index")
  /\ UNCHANGED <<bridge, around>>
SettleAsDone(p) ==
  /\ At(p, "settle")
  /\ MoveJob(Job(p), "leased", "done")
  /\ Exit(p)
  /\ UNCHANGED <<bridge, around>>
ValidateOnce(p) ==
  /\ At(p, "validate")
  /\ Become(p, IF index[Job(p)] # NoRow
                 THEN [proc[p] EXCEPT !.pc = "preflight",
                                      !.resume = index[Job(p)].status # "leased"]
                 ELSE Resting)
  /\ UNCHANGED <<spool, bridge, around>>
StageAnyhow(p) ==
  /\ At(p, "stage")
  /\ staged' = staged \cup {Job(p)}
  /\ Goto(p, "scan")
  /\ UNCHANGED <<spool, index, secret, pending, around>>
StageOnce(p) ==
  /\ At(p, "stage")
  /\ IF Job(p) \in staged
       THEN Exit(p) /\ UNCHANGED staged
       ELSE staged' = staged \cup {Job(p)} /\ Goto(p, "scan")
  /\ UNCHANGED <<spool, index, secret, pending, around>>

----------------------------------------------------------------------------
(* Reading and rewriting the index and the job file *)

\* read_index, first half of update_index_entry: a row that is not there raises.
ReadIndex(p) ==
  /\ At(p, "index")
  /\ IF proc[p].op # "append" /\ index[Job(p)] = NoRow
       THEN Raise(p)
       ELSE Become(p, [proc[p] EXCEPT !.rows = index, !.pc = "rows"])
  /\ UNCHANGED <<spool, bridge, around>>

\* write_index replaces the whole file by the rows that were read.
WriteIndex(p) ==
  /\ At(p, "rows")
  /\ index' = [proc[p].rows EXCEPT ![Job(p)] = NewRow(p)]
  /\ Become(p, AfterIndex(p))
  /\ UNCHANGED <<spool, secret, staged, pending, around>>

\* read_job in lease_next, consume_lease and fail_lease
ReadJob(p) ==
  /\ At(p, "read")
  /\ IF IsIn(Job(p), "leased")
       THEN Become(p, [proc[p] EXCEPT !.copy = spool["leased"][Job(p)], !.pc = "write"])
       ELSE Raise(p)
  /\ UNCHANGED <<spool, bridge, around>>

\* The replacement file: with the lease, with the pack, or with last_error
RewriteJob(p) ==
  /\ At(p, "write")
  /\ WriteJob(Job(p), "leased",
       [proc[p].copy EXCEPT !.expires = IF proc[p].op = "lease" THEN clock + LeaseTime ELSE @,
                            !.pack = IF proc[p].op = "consume" THEN proc[p].pack ELSE @])
  /\ Goto(p, IF proc[p].op = "lease" THEN "reread" ELSE "index")
  /\ UNCHANGED <<bridge, around>>

\* complete_job after consume_lease, fail_job after fail_lease
Settle(p) ==
  /\ At(p, "settle")
  /\ \/ /\ MoveJob(Job(p), "leased", IF proc[p].op = "consume" THEN "done" ELSE "failed")
        /\ Exit(p)
     \/ /\ ~IsIn(Job(p), "leased")
        /\ Raise(p)
        /\ UNCHANGED spool
  /\ UNCHANGED <<bridge, around>>

----------------------------------------------------------------------------
(* issue_openclaw_live_lease: job, secret, row *)

StartIssue(p, j) ==
  LET content == [rev |-> rev, expires |-> NoLease, pack |-> NoPack]
  IN /\ At(p, "idle")
     /\ j \in history.jobs /\ ~Exists(j)
     /\ WriteJob(j, "pending", content)
     /\ Become(p, [Resting EXCEPT !.pc = "sign", !.op = "append", !.job = j, !.copy = content])
     /\ UNCHANGED <<bridge, around>>

\* private_secret: the first caller draws it and signs with what it drew.
Sign(p) ==
  /\ At(p, "sign")
  /\ IF secret = NoSecret
       THEN \E k \in Secrets : Become(p, [proc[p] EXCEPT !.secret = k, !.pc = "keep"])
       ELSE Become(p, [proc[p] EXCEPT !.secret = secret, !.pc = "index"])
  /\ UNCHANGED <<spool, bridge, around>>

KeepSecret(p) ==
  /\ At(p, "keep")
  /\ secret' = proc[p].secret
  /\ Goto(p, "index")
  /\ UNCHANGED <<spool, index, staged, pending, around>>

----------------------------------------------------------------------------
(* lease_openclaw_live_job: lease_next, then the row *)

StartLease(p) ==
  /\ At(p, "idle")
  /\ Become(p, [Resting EXCEPT !.pc = "claim", !.op = "lease", !.todo = Listed("pending")])
  /\ UNCHANGED <<spool, bridge, around>>

Claim(p) ==
  /\ At(p, "claim")
  /\ \E j \in proc[p].todo :
       /\ IsNext(j, proc[p].todo)
       /\ \/ /\ MoveJob(j, "pending", "leased")
             /\ Become(p, [proc[p] EXCEPT !.pc = "read", !.todo = {}, !.job = j])
          \/ /\ ~IsIn(j, "pending")
             /\ Become(p, [proc[p] EXCEPT !.todo = @ \ {j}])
             /\ UNCHANGED spool
  /\ UNCHANGED <<bridge, around>>

NothingPending(p) ==
  /\ At(p, "claim") /\ proc[p].todo = {}
  /\ Exit(p)
  /\ UNCHANGED <<spool, bridge, around>>

\* The lease is read back from the file before it goes into the row.
Reread(p) ==
  /\ At(p, "reread")
  /\ IF IsIn(Job(p), "leased")
       THEN Become(p, [proc[p] EXCEPT !.copy = spool["leased"][Job(p)], !.pc = "index"])
       ELSE Exit(p)
  /\ UNCHANGED <<spool, bridge, around>>

----------------------------------------------------------------------------
(* run_openclaw_live_writeback: checks, staging, proposal *)

\* A lease path outside leased/, and arguments other than what the job was
\* issued for, are refused without effect.
StartRun(p, j) ==
  /\ At(p, "idle")
  /\ IsIn(j, "leased")
  /\ Become(p, [Resting EXCEPT !.pc = "validate", !.job = j, !.copy = spool["leased"][j]])
  /\ UNCHANGED <<spool, bridge, around>>

\* validate_issued_entry
Valid(row, job) ==
  /\ row # NoRow
  /\ row.status \in {"leased", "in_progress"}
  /\ row.secret = secret
  /\ row.rev = job.rev
  /\ row.expires = job.expires
  /\ job.expires # NoLease /\ job.expires > clock

Validate(p) ==
  /\ At(p, "validate")
  /\ Become(p, IF Valid(index[Job(p)], proc[p].copy)
                 THEN [proc[p] EXCEPT !.pc = "preflight",
                                      !.resume = index[Job(p)].status = "in_progress"]
                 ELSE Resting)
  /\ UNCHANGED <<spool, bridge, around>>

\* validate_projection, verify_evidence
ProjectionAt(r)  == \A f \in ProjectionFiles : projection[f] = r
EvidenceBound(j) == j \in evidence

Preflight(p) ==
  /\ At(p, "preflight")
  /\ Become(p, IF ProjectionAt(proc[p].copy.rev) /\ EvidenceBound(Job(p))
                 THEN [proc[p] EXCEPT !.pc = "stage"] ELSE Resting)
  /\ UNCHANGED <<spool, bridge, around>>

\* safe_staged_summary_path makes the directory; one that is there is refused
\* unless the row says that the work was begun.
Stage(p) ==
  /\ At(p, "stage")
  /\ IF Job(p) \in staged /\ ~proc[p].resume
       THEN Exit(p) /\ UNCHANGED staged
       ELSE staged' = staged \cup {Job(p)} /\ Goto(p, "scan")
  /\ UNCHANGED <<spool, index, secret, pending, around>>

\* find_existing_mutation looks into mutations/pending.  A resumed call that
\* finds a pack only consumes the lease; any other marks the row in_progress.
\* (A pack that apply moves away during the scan ends the call, as a death does.)
Scan(p) ==
  /\ At(p, "scan")
  /\ \/ /\ proc[p].resume
        /\ \E m \in pending[Job(p)] :
             Become(p, [proc[p] EXCEPT !.pack = m, !.op = "consume", !.pc = "read"])
     \/ /\ ~proc[p].resume \/ pending[Job(p)] = {}
        /\ Become(p, [proc[p] EXCEPT !.op = "begin", !.pc = "index"])
  /\ UNCHANGED <<spool, bridge, around>>

\* writeback_session writes the pack and then its relationship tests, which
\* nothing here reads: when they cannot be written, Error is the next step.
Propose(p, m) ==
  /\ At(p, "propose")
  /\ m \notin Used
  /\ pending' = [pending EXCEPT ![Job(p)] = @ \cup {m}]
  /\ Become(p, [proc[p] EXCEPT !.pack = m, !.op = "consume", !.pc = "read"])
  /\ UNCHANGED <<spool, index, secret, staged, around>>

\* load_summary or an empty list of changes: WritebackError
SummaryRefused(p) ==
  /\ At(p, "propose")
  /\ Raise(p)
  /\ UNCHANGED <<spool, bridge, around>>

\* A file operation of the try block raises instead of taking effect.
Error(p) ==
  /\ proc[p].try
  /\ count.errors < history.errors
  /\ count' = [count EXCEPT !.errors = @ + 1]
  /\ Raise(p)
  /\ UNCHANGED <<spool, bridge, applied, evidence, projection, rev, clock, history>>

\* A process dies, or an exception outside the try block ends it.
Crash(p) ==
  /\ ~At(p, "idle")
  /\ count.crashes < history.crashes
  /\ count' = [count EXCEPT !.crashes = @ + 1]
  /\ Exit(p)
  /\ UNCHANGED <<spool, bridge, applied, evidence, projection, rev, clock, history>>

----------------------------------------------------------------------------
(* Around the bridge *)

\* The session's packet and its digest get evidence for the job.
BindEvidence(j) ==
  /\ Exists(j) /\ j \notin evidence
  /\ evidence' = evidence \cup {j}
  /\ UNCHANGED <<spool, bridge, applied, projection, rev, clock, count, history, proc>>

\* compose publishes one file of a projection of the current revision.
Publish(f) ==
  /\ projection[f] # rev
  /\ projection' = [projection EXCEPT ![f] = rev]
  /\ UNCHANGED <<spool, bridge, applied, evidence, rev, clock, count, history, proc>>

\* apply moves a pack to mutations/applied.
Apply(j, m) ==
  /\ m \in pending[j]
  /\ Cardinality(UNION {applied[i] : i \in Jobs}) < history.applies
  /\ pending' = [pending EXCEPT ![j] = @ \ {m}]
  /\ applied' = [applied EXCEPT ![j] = @ \cup {m}]
  /\ UNCHANGED <<spool, index, secret, staged, evidence, projection, rev, clock, count, history, proc>>

BeginRequeue(j) ==
  /\ count.requeues < history.requeues
  /\ ClearFailed(j)
  /\ UNCHANGED <<bridge, applied, around, proc>>

Requeue(j) ==
  /\ count.requeues < history.requeues
  /\ RequeueFailed(j)
  /\ count' = [count EXCEPT !.requeues = @ + 1]
  /\ UNCHANGED <<bridge, applied, evidence, projection, rev, clock, history, proc>>

Tick ==
  /\ clock < history.clock
  /\ clock' = clock + 1
  /\ UNCHANGED <<spool, bridge, applied, evidence, projection, rev, count, history, proc>>

NewRevision ==
  /\ rev < history.rev
  /\ rev' = rev + 1
  /\ UNCHANGED <<spool, bridge, applied, evidence, projection, clock, count, history, proc>>

----------------------------------------------------------------------------
Around ==
  \/ \E j \in Jobs : BindEvidence(j) \/ BeginRequeue(j) \/ Requeue(j) \/ \E m \in Packs : Apply(j, m)
  \/ \E f \in ProjectionFiles : Publish(f)
  \/ Tick
  \/ NewRevision

Start(p) == (\E j \in Jobs : StartIssue(p, j) \/ StartRun(p, j)) \/ StartLease(p)

Advance(p) ==
  \/ ReadIndex(p) \/ WriteIndex(p) \/ ReadJob(p) \/ RewriteJob(p) \/ Settle(p)
  \/ Sign(p) \/ KeepSecret(p)
  \/ Claim(p) \/ NothingPending(p) \/ Reread(p)
  \/ Validate(p) \/ Preflight(p) \/ Stage(p) \/ Scan(p)
  \/ (\E m \in Packs : Propose(p, m)) \/ SummaryRefused(p)

Next == Around \/ \E p \in Procs : Start(p) \/ Advance(p) \/ Error(p) \/ Crash(p)

Spec == Init /\ [][Next]_vars

\* Commands run to their end once started.
FairSpec == Spec /\ \A p \in Procs : WF_vars(Advance(p))
\* Moreover a session whose call ended early tries again, whatever else runs.
RetrySpec == FairSpec /\ \A p \in Procs, j \in Jobs : SF_vars(StartRun(p, j))

----------------------------------------------------------------------------
(* Properties *)

PCs == {"idle", "index", "rows", "read", "write", "settle", "sign", "keep", "claim", "reread",
        "validate", "preflight", "stage", "scan", "propose"}
Locals == [pc : PCs, op : {"none", "append", "lease", "begin", "consume", "fail"},
           todo : SUBSET Jobs, job : Jobs \cup {NoJob}, copy : JobFile \cup {NoFile},
           rows : [Jobs -> Row \cup {NoRow}], secret : Secrets \cup {NoSecret},
           pack : Packs \cup {NoPack}, resume : BOOLEAN, try : BOOLEAN]
TypeOK ==
  /\ spool \in [QueueStates -> [Jobs -> JobFile \cup {NoFile}]]
  /\ index \in [Jobs -> Row \cup {NoRow}]
  /\ secret \in Secrets \cup {NoSecret}
  /\ staged \subseteq Jobs /\ evidence \subseteq Jobs
  /\ pending \in [Jobs -> SUBSET Packs] /\ applied \in [Jobs -> SUBSET Packs]
  /\ projection \in [ProjectionFiles -> 0..rev] /\ rev \in Nat /\ clock \in Nat
  /\ count \in [crashes : Nat, errors : Nat, requeues : Nat]
  /\ proc \in [Procs -> Locals]

AllIdle == \A p \in Procs : At(p, "idle")
Status(j) == IF index[j] = NoRow THEN "unknown" ELSE index[j].status

\* One lease, one proposal: whatever fails and is tried again, a summary is
\* never turned into two mutation packs
\* (docs/package-plans/P11_4_OPENCLAW_LIVE_BRIDGE.md, Queue Lease Discipline).
OneMutationPerLease == \A j \in Jobs : \A m, n \in PacksOf(j) : m = n

\* The same as far as the code achieves it: a retry after a death finds the first
\* proposal as long as apply has not moved it on, and without a death no failing
\* operation, requeue or apply leads to a second one.
RetryKeepsProposal ==
  count.crashes = 0 \/ (\A j \in Jobs : applied[j] = {}) => OneMutationPerLease

\* The three records of a finished writeback agree: a job in done/ names the
\* pack its row names, the row is consumed and the pack was proposed for it.
DoneNamesMutation ==
  \A j \in Jobs : IsIn(j, "done") =>
    /\ Status(j) = "consumed"
    /\ spool["done"][j].pack = index[j].pack
    /\ index[j].pack \in PacksOf(j)

\* A consumed lease stays consumed, by the same pack: it cannot be replayed.
\* (After an operation of the try block failed it may turn into a failed one.)
ConsumedIsFinal ==
  [][\A j \in Jobs : Status(j) = "consumed" =>
       \/ index'[j] = index[j]
       \/ count.errors > 0 /\ index'[j] = [index[j] EXCEPT !.status = "failed"]]_vars

\* The index can validate every job: no rewrite drops the row of another job
\* (once the commands have returned and none died), and every row is signed with
\* the secret it will be checked against, whenever the first issuer died.
IndexKnowsEveryJob ==
  /\ AllIdle /\ count.crashes = 0 => \A j \in Jobs : Exists(j) => index[j] # NoRow
  /\ \A j \in Jobs : index[j] # NoRow => index[j].secret = secret

\* Work that was begun does not stay so while its lease lasts and its projection
\* is current: whatever died, sessions that try again consume the lease or fail.
Resumable(j) ==
  /\ Status(j) = "in_progress"
  /\ index[j].expires > clock
  /\ ProjectionAt(index[j].rev)
WritebackResumes == \A j \in Jobs : []<>~Resumable(j)

\* The writeback queue implements the life of a job of QUEUES.md: a job has its
\* result when its mutation is proposed.
Proposed(before, after) == {j \in Jobs : before[j] \cup after[j] # {}}
Lifecycle == INSTANCE JobLifecycle WITH
  Sources  <- Jobs,
  SourceOf <- [j \in Jobs |-> j],
  where    <- StateOf(spool),
  results  <- Proposed(pending, applied)
ImplementsJobLifecycle == Lifecycle!Spec

=============================================================================
