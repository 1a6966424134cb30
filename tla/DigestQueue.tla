---------------------------- MODULE DigestQueue ----------------------------
(***************************************************************************)
(* `topology digest`: the queue runner (workers/run_digest_queue.py), the  *)
(* digest writer it calls (workers/digest.py) and the same writer called   *)
(* by hand for one source.  Any number of processes run at once on one     *)
(* file system; each step below is one file operation or one provider      *)
(* call, and a process may die between any two of them.                    *)
(***************************************************************************)
EXTENDS Spool, FiniteSets

CONSTANTS
  Procs,       \* processes running `topology digest`
  Runners,     \* those of them that run the queue; the others only digest by hand
  Sources,     \* source packets
  SourceOf,    \* SourceOf[j]: payload.source_id of job j
  Digests,     \* digest ids a model can give its output
  NoJob, NoSource, NoDigest,
  MaxJobs,     \* max_jobs of a run
  MaxAttempts, \* max_attempts
  LeaseTime,   \* lease_seconds, in units of the clock
  MaxClock,    \* bound on the clock
  MaxRev,      \* bound: how often the current revisions change
  MaxCrashes,  \* bound: how many processes die
  MaxRequeues  \* bound: how many explicit requeues there are

ASSUME RunnerAssumption ==
  /\ Runners \subseteq Procs
  /\ SourceOf \in [Jobs -> Sources]
  /\ NoJob \notin Jobs /\ NoDigest \notin Digests /\ NoSource \notin Sources
  /\ MaxJobs \in Nat /\ MaxAttempts \in Nat \ {0} /\ LeaseTime \in Nat
  /\ MaxClock \in Nat /\ MaxRev \in Nat /\ MaxCrashes \in Nat /\ MaxRequeues \in Nat

\* What a job file can hold
JobFile == [rev : 0..MaxRev, attempts : Nat, expires : Nat \cup {NoLease}]
ASSUME FileAssumption == NoFile \notin JobFile /\ NoLease \notin Nat

VARIABLES
  lock,     \* lock[s]: the directory .digest-write.lock of source s exists
  json,     \* json[s]: the digests of source s with a JSON file
  md,       \* md[s]: the digests of source s with a Markdown file
  clock,    \* the time
  rev,      \* the current canonical and subject revisions
  proc,     \* proc[p]: where process p is, and its locals
  crashes,  \* how many processes died
  requeues  \* how many explicit requeues there were

store  == <<lock, json, md>>
around == <<clock, rev, crashes, requeues>>
vars   == <<spool, lock, json, md, clock, rev, proc, crashes, requeues>>

Resting == [pc |-> "idle", todo |-> {}, job |-> NoJob, copy |-> NoFile, now |-> 0,
            rev |-> 0, left |-> 0, src |-> NoSource, digest |-> NoDigest, ok |-> FALSE]

Init ==
  /\ SpoolInit
  /\ lock = [s \in Sources |-> FALSE]
  /\ json = [s \in Sources |-> {}]
  /\ md = [s \in Sources |-> {}]
  /\ clock = 0 /\ rev = 0 /\ crashes = 0 /\ requeues = 0
  /\ proc = [p \in Procs |-> Resting]

At(p, pc)    == proc[p].pc = pc
Become(p, r) == proc' = [proc EXCEPT ![p] = r]
Goto(p, pc)  == Become(p, [proc[p] EXCEPT !.pc = pc])
\* The command returns, or an exception leaves it.
Exit(p)      == Become(p, Resting)
Job(p)       == proc[p].job
Src(p)       == proc[p].src

\* A job is finished or has failed: recovery or the loop goes on.
NextJob(p) ==
  [proc[p] EXCEPT !.job = NoJob, !.copy = NoFile, !.src = NoSource, !.digest = NoDigest,
                  !.ok = FALSE, !.pc = IF Src(p) = NoSource THEN "recover" ELSE "lease"]

\* What an exception of the writer leads to: the job fails, or the command ends.
Fails(p) == IF Job(p) = NoJob THEN Resting ELSE [proc[p] EXCEPT !.pc = "annotate"]

----------------------------------------------------------------------------
(* Variants of the steps below with a bug each, for the properties to find *)

RequeueSettled(j) ==
  /\ requeues < MaxRequeues
  /\ \E d \in {"done", "failed"} : MoveJob(j, d, "pending")
  /\ requeues' = requeues + 1
  /\ UNCHANGED <<store, clock, rev, crashes, proc>>
StartRunAtOldTime(p) ==
  /\ At(p, "idle")
  /\ Become(p, [Resting EXCEPT !.pc = "recover", !.rev = rev, !.left = MaxJobs,
                               !.todo = Listed("leased")])
  /\ UNCHANGED <<spool, store, around>>
RecoverOnceMore(p) ==
  /\ At(p, "recover")
  /\ \E j \in proc[p].todo :
       /\ IsNext(j, proc[p].todo)
       /\ LET content == spool["leased"][j]
              rest    == proc[p].todo \ {j}
              due     == content.expires # NoLease /\ content.expires <= proc[p].now
          IN \/ content = NoFile /\ Exit(p)
             \/ /\ content # NoFile /\ ~due
                /\ Become(p, [proc[p] EXCEPT !.todo = rest])
             \/ /\ content # NoFile /\ due
                /\ Become(p, [proc[p] EXCEPT !.todo = rest, !.job = j,
                     !.pc = IF content.attempts <= MaxAttempts THEN "clear" ELSE "annotate"])
  /\ UNCHANGED <<spool, store, around>>
CopyToFailed(p) ==
  /\ At(p, "fail")
  /\ IF IsIn(Job(p), "leased")
       THEN WriteJob(Job(p), "failed", spool["leased"][Job(p)]) /\ Become(p, NextJob(p))
       ELSE Exit(p) /\ UNCHANGED spool
  /\ UNCHANGED <<store, around>>
LeaseListEndless(p) ==
  /\ At(p, "lease")
  /\ Become(p, [proc[p] EXCEPT !.pc = "claim", !.left = @ - 1, !.todo = Listed("pending")])
  /\ UNCHANGED <<spool, store, around>>
LeaseListOneShort(p) ==
  /\ At(p, "lease")
  /\ IF proc[p].left <= 1
       THEN Exit(p)
       ELSE Become(p, [proc[p] EXCEPT !.pc = "claim", !.left = @ - 1,
                                 !.todo = Listed("pending")])
  /\ UNCHANGED <<spool, store, around>>
LookNowhere(p) ==
  /\ At(p, "look")
  /\ Goto(p, "json")
  /\ UNCHANGED <<spool, store, around>>
UnlockOnSuccess(p) ==
  /\ At(p, "unlock")
  /\ lock' = [lock EXCEPT ![Src(p)] = ~proc[p].ok]
  /\ Become(p, IF ~proc[p].ok THEN Fails(p)
               ELSE IF Job(p) = NoJob THEN Resting
               ELSE [proc[p] EXCEPT !.pc = "complete"])
  /\ UNCHANGED <<spool, json, md, around>>
UnlockAnyhow(p) ==
  /\ At(p, "unlock")
  /\ lock' = [lock EXCEPT ![Src(p)] = FALSE]
  /\ Become(p, IF Job(p) = NoJob THEN Resting ELSE [proc[p] EXCEPT !.pc = "complete"])
  /\ UNCHANGED <<spool, json, md, around>>
CompleteByDeleting(p) ==
  /\ At(p, "complete")
  /\ WriteJob(Job(p), "leased", NoFile)
  /\ Become(p, NextJob(p))
  /\ UNCHANGED <<store, around>>

----------------------------------------------------------------------------
(* Around the processes *)

\* ingest enqueues a digest job for a source at the current revisions.
Enqueue(j) ==
  /\ CreateJob(j, rev)
  /\ UNCHANGED <<store, around, proc>>

\* A person requeues a failed job, in two file operations.
BeginRequeue(j) ==
  /\ requeues < MaxRequeues
  /\ ClearFailed(j)
  /\ UNCHANGED <<store, around, proc>>

Requeue(j) ==
  /\ requeues < MaxRequeues
  /\ RequeueFailed(j)
  /\ requeues' = requeues + 1
  /\ UNCHANGED <<store, clock, rev, crashes, proc>>

Tick ==
  /\ clock < MaxClock
  /\ clock' = clock + 1
  /\ UNCHANGED <<spool, store, rev, crashes, requeues, proc>>

NewRevision ==
  /\ rev < MaxRev
  /\ rev' = rev + 1
  /\ UNCHANGED <<spool, store, clock, crashes, requeues, proc>>

----------------------------------------------------------------------------
(* run_digest_queue, first part: recover_expired_leases *)

StartRun(p) ==
  /\ At(p, "idle")
  /\ Become(p, [Resting EXCEPT !.pc = "recover", !.now = clock,
                                    !.rev = rev, !.left = MaxJobs, !.todo = Listed("leased")])
  /\ UNCHANGED <<spool, store, around>>

\* Read the next leased job: a file that moved away meanwhile raises, a job
\* without expiry or not yet expired is passed over, an expired one goes back
\* to pending/ or, after too many attempts, to failed/.
Recover(p) ==
  /\ At(p, "recover")
  /\ \E j \in proc[p].todo :
       /\ IsNext(j, proc[p].todo)
       /\ LET content == spool["leased"][j]
              rest    == proc[p].todo \ {j}
              due     == content.expires # NoLease /\ content.expires <= proc[p].now
          IN \/ content = NoFile /\ Exit(p)
             \/ /\ content # NoFile /\ ~due
                /\ Become(p, [proc[p] EXCEPT !.todo = rest])
             \/ /\ content # NoFile /\ due
                /\ Become(p, [proc[p] EXCEPT !.todo = rest, !.job = j,
                     !.pc = IF content.attempts < MaxAttempts THEN "clear" ELSE "annotate"])
  /\ UNCHANGED <<spool, store, around>>

\* clear_lease reads the job again and writes it without its lease.
ClearRead(p) ==
  /\ At(p, "clear")
  /\ IF IsIn(Job(p), "leased")
       THEN Become(p, [proc[p] EXCEPT !.pc = "clearing", !.copy = spool["leased"][Job(p)]])
       ELSE Exit(p)
  /\ UNCHANGED <<spool, store, around>>

ClearWrite(p) ==
  /\ At(p, "clearing")
  /\ WriteJob(Job(p), "leased", [proc[p].copy EXCEPT !.expires = NoLease])
  /\ Goto(p, "requeue")
  /\ UNCHANGED <<store, around>>

MoveBack(p) ==
  /\ At(p, "requeue")
  /\ \/ /\ MoveJob(Job(p), "leased", "pending")
        /\ Become(p, [proc[p] EXCEPT !.pc = "recover", !.job = NoJob, !.copy = NoFile])
     \/ /\ ~IsIn(Job(p), "leased")
        /\ Exit(p)
        /\ UNCHANGED spool
  /\ UNCHANGED <<store, around>>

\* annotate_failure: read, write with last_error, move to failed/; its own
\* FileNotFoundError is caught nowhere.  Afterwards recovery or the loop goes on.
AnnotateRead(p) ==
  /\ At(p, "annotate")
  /\ IF IsIn(Job(p), "leased")
       THEN Become(p, [proc[p] EXCEPT !.pc = "annotating", !.copy = spool["leased"][Job(p)]])
       ELSE Exit(p)
  /\ UNCHANGED <<spool, store, around>>

AnnotateWrite(p) ==
  /\ At(p, "annotating")
  /\ WriteJob(Job(p), "leased", proc[p].copy)
  /\ Goto(p, "fail")
  /\ UNCHANGED <<store, around>>

MoveToFailed(p) ==
  /\ At(p, "fail")
  /\ \/ /\ MoveJob(Job(p), "leased", "failed")
        /\ Become(p, NextJob(p))
     \/ /\ ~IsIn(Job(p), "leased")
        /\ Exit(p)
        /\ UNCHANGED spool
  /\ UNCHANGED <<store, around>>

RecoverDone(p) ==
  /\ At(p, "recover") /\ proc[p].todo = {}
  /\ Goto(p, "lease")
  /\ UNCHANGED <<spool, store, around>>

----------------------------------------------------------------------------
(* run_digest_queue, second part: lease_next and the job *)

\* One more iteration lists pending/; no iteration left ends the run.
LeaseList(p) ==
  /\ At(p, "lease")
  /\ IF proc[p].left = 0
       THEN Exit(p)
       ELSE Become(p, [proc[p] EXCEPT !.pc = "claim", !.left = @ - 1,
                                 !.todo = Listed("pending")])
  /\ UNCHANGED <<spool, store, around>>

Claim(p) ==
  /\ At(p, "claim")
  /\ \E j \in proc[p].todo :
       /\ IsNext(j, proc[p].todo)
       /\ \/ /\ MoveJob(j, "pending", "leased")
             /\ Become(p, [proc[p] EXCEPT !.pc = "claimed", !.todo = {}, !.job = j,
                                     !.src = SourceOf[j]])
          \/ /\ ~IsIn(j, "pending")
             /\ Become(p, [proc[p] EXCEPT !.todo = @ \ {j}])
             /\ UNCHANGED spool
  /\ UNCHANGED <<store, around>>

NothingPending(p) ==
  /\ At(p, "claim") /\ proc[p].todo = {}
  /\ Exit(p)
  /\ UNCHANGED <<spool, store, around>>

LeaseRead(p) ==
  /\ At(p, "claimed")
  /\ IF IsIn(Job(p), "leased")
       THEN Become(p, [proc[p] EXCEPT !.pc = "stamp", !.copy = spool["leased"][Job(p)]])
       ELSE Exit(p)
  /\ UNCHANGED <<spool, store, around>>

LeaseWrite(p) ==
  /\ At(p, "stamp")
  /\ WriteJob(Job(p), "leased", [proc[p].copy EXCEPT !.attempts = @ + 1,
                                                     !.expires = clock + LeaseTime])
  /\ Become(p, [proc[p] EXCEPT !.pc = "check", !.copy = NoFile])
  /\ UNCHANGED <<store, around>>

\* read_job, validate_job_preconditions, reject_existing_digest_artifacts
CheckOK(p) ==
  /\ IsIn(Job(p), "leased")
  /\ spool["leased"][Job(p)].rev = proc[p].rev
  /\ json[Src(p)] = {}

Check(p) ==
  /\ At(p, "check")
  /\ Goto(p, IF CheckOK(p) THEN "generate" ELSE "annotate")
  /\ UNCHANGED <<spool, store, around>>

\* The provider answers with a digest, or it fails, times out or answers with
\* something Digest.from_dict refuses.
Generate(p, d) ==
  /\ At(p, "generate")
  /\ Become(p, [proc[p] EXCEPT !.pc = "lock", !.digest = d])
  /\ UNCHANGED <<spool, store, around>>

GenerateFails(p) ==
  /\ At(p, "generate")
  /\ Goto(p, "annotate")
  /\ UNCHANGED <<spool, store, around>>

----------------------------------------------------------------------------
(* write_digest_artifacts *)

\* `topology digest --source-id --model-output`: the writer without a job
StartManual(p, s, d) ==
  /\ At(p, "idle")
  /\ Become(p, [Resting EXCEPT !.pc = "lock", !.src = s, !.digest = d])
  /\ UNCHANGED <<spool, store, around>>

\* os.mkdir is the lock.
Lock(p) ==
  /\ At(p, "lock")
  /\ ~lock[Src(p)]
  /\ lock' = [lock EXCEPT ![Src(p)] = TRUE]
  /\ Goto(p, "look")
  /\ UNCHANGED <<spool, json, md, around>>

Locked(p) ==
  /\ At(p, "lock")
  /\ lock[Src(p)]
  /\ Become(p, Fails(p))
  /\ UNCHANGED <<spool, store, around>>

Look(p) ==
  /\ At(p, "look")
  /\ Goto(p, IF json[Src(p)] = {} THEN "json" ELSE "unlock")
  /\ UNCHANGED <<spool, store, around>>

WriteJson(p) ==
  /\ At(p, "json")
  /\ json' = [json EXCEPT ![Src(p)] = @ \cup {proc[p].digest}]
  /\ Goto(p, "md")
  /\ UNCHANGED <<spool, lock, md, around>>

WriteMd(p) ==
  /\ At(p, "md")
  /\ md' = [md EXCEPT ![Src(p)] = @ \cup {proc[p].digest}]
  /\ Become(p, [proc[p] EXCEPT !.pc = "unlock", !.ok = TRUE])
  /\ UNCHANGED <<spool, lock, json, around>>

\* Either write raises: its file is not there, the JSON file stays if it is.
WriteFails(p) ==
  /\ At(p, "json") \/ At(p, "md")
  /\ Goto(p, "unlock")
  /\ UNCHANGED <<spool, store, around>>

\* The finally clause removes the lock on every way out.
Unlock(p) ==
  /\ At(p, "unlock")
  /\ lock' = [lock EXCEPT ![Src(p)] = FALSE]
  /\ Become(p, IF ~proc[p].ok THEN Fails(p)
               ELSE IF Job(p) = NoJob THEN Resting
               ELSE [proc[p] EXCEPT !.pc = "complete"])
  /\ UNCHANGED <<spool, json, md, around>>

\* complete_job; a file that is gone raises inside the try
Complete(p) ==
  /\ At(p, "complete")
  /\ \/ /\ MoveJob(Job(p), "leased", "done")
        /\ Become(p, NextJob(p))
     \/ /\ ~IsIn(Job(p), "leased")
        /\ Goto(p, "annotate")
        /\ UNCHANGED spool
  /\ UNCHANGED <<store, around>>

\* A process dies: its locks and half-done moves stay.
Crash(p) ==
  /\ ~At(p, "idle")
  /\ crashes < MaxCrashes
  /\ crashes' = crashes + 1
  /\ Exit(p)
  /\ UNCHANGED <<spool, store, clock, rev, requeues>>

----------------------------------------------------------------------------
Around ==
  \/ \E j \in Jobs : Enqueue(j) \/ BeginRequeue(j) \/ Requeue(j)
  \/ Tick
  \/ NewRevision

RecoverStep(p) ==
  \/ Recover(p) \/ RecoverDone(p)
  \/ ClearRead(p) \/ ClearWrite(p) \/ MoveBack(p)
  \/ AnnotateRead(p) \/ AnnotateWrite(p) \/ MoveToFailed(p)
JobStep(p) ==
  \/ LeaseList(p) \/ Claim(p) \/ NothingPending(p) \/ LeaseRead(p) \/ LeaseWrite(p)
  \/ Check(p) \/ (\E d \in Digests : Generate(p, d)) \/ GenerateFails(p)
  \/ Complete(p)
WriterStep(p) ==
  \/ Lock(p) \/ Locked(p) \/ Look(p)
  \/ WriteJson(p) \/ WriteMd(p) \/ WriteFails(p) \/ Unlock(p)

Advance(p) == RecoverStep(p) \/ JobStep(p) \/ WriterStep(p)

Next ==
  \/ Around
  \/ \E p \in Procs :
       \/ p \in Runners /\ StartRun(p)
       \/ \E s \in Sources, d \in Digests : StartManual(p, s, d)
       \/ Advance(p)
       \/ Crash(p)

Spec == Init /\ [][Next]_vars

\* Commands run to their end once started.
FairSpec == Spec /\ \A p \in Procs : WF_vars(Advance(p))
\* Moreover the queue runner is started again and again, as a timer would do,
\* whatever else is run by hand in between.
TimerSpec == FairSpec /\ \A p \in Runners : SF_vars(StartRun(p))

----------------------------------------------------------------------------
(* Properties *)

PCs == {"idle", "recover", "clear", "clearing", "requeue", "annotate", "annotating", "fail",
        "lease", "claim", "claimed", "stamp", "check", "generate",
        "lock", "look", "json", "md", "unlock", "complete"}
Locals == [pc : PCs, todo : SUBSET Jobs, job : Jobs \cup {NoJob},
           copy : JobFile \cup {NoFile}, now : Nat, rev : 0..MaxRev, left : Nat,
           src : Sources \cup {NoSource}, digest : Digests \cup {NoDigest}, ok : BOOLEAN]
TypeOK ==
  /\ spool \in [QueueStates -> [Jobs -> JobFile \cup {NoFile}]]
  /\ lock \in [Sources -> BOOLEAN]
  /\ json \in [Sources -> SUBSET Digests]
  /\ md \in [Sources -> SUBSET Digests]
  /\ clock \in Nat /\ rev \in 0..MaxRev /\ crashes \in Nat /\ requeues \in Nat
  /\ proc \in [Procs -> Locals]

AllIdle == \A p \in Procs : At(p, "idle")
InWriter(p) == proc[p].pc \in {"look", "json", "md", "unlock"}

\* Queue mode is one digest per source: whatever runs and dies in whatever
\* order, no source ever has two digests, nor a Markdown file without JSON.
OneDigestPerSource ==
  \A s \in Sources : /\ \A d, e \in json[s] : d = e
                     /\ md[s] \subseteq json[s]

\* A job in done/ stands for a digest of its source, JSON and Markdown.
DoneHasDigest ==
  \A j \in Jobs : IsIn(j, "done") => json[SourceOf[j]] \cap md[SourceOf[j]] # {}

\* No move or rewrite makes a job file vanish: once enqueued it is in some
\* directory at every moment.
JobNeverLost ==
  [][\A j \in Jobs : (\E d \in QueueStates : IsIn(j, d)) =>
       \E d \in QueueStates : IsIn(j, d)']_vars

\* A lock directory without a process inside the writer was left by a death:
\* no exception path forgets to remove it.
LockOnlyLeaksByCrash ==
  \A s \in Sources : lock[s] /\ crashes = 0 => \E p \in Procs : InWriter(p) /\ Src(p) = s

\* A job is not leased more than max_attempts times, as long as nobody requeues
\* it by hand.
AttemptsBounded ==
  requeues = 0 => \A d \in QueueStates : \A j \in Jobs :
    IsIn(j, d) => spool[d][j].attempts <= MaxAttempts

\* What was finished or failed stays so until an explicit requeue
\* (QUEUES.md, Audit: no automatic retry of failed jobs).
OnlyExplicitRequeue ==
  [][\A j \in Jobs : \A d \in {"done", "failed"} :
       (IsIn(j, d) /\ requeues' = requeues) => IsIn(j, d)' /\ ~IsIn(j, "pending")']_vars

\* A lease that has ended is noticed: the job does not stay in leased/ with it.
ExpiredLeaseRecovered ==
  \A j \in Jobs : []<>~(/\ IsIn(j, "leased")
                        /\ spool["leased"][j].expires # NoLease
                        /\ spool["leased"][j].expires <= clock)

\* With one run at a time the queue implements the life of a job that
\* QUEUES.md describes: a job is where its one file is
\* (docs/package-plans/P1_ENGINE_SKELETON.md: one job per file, atomic moves), and
\* a source has its result when both files of a digest are there.
Digested(jsons, mds) == {s \in Sources : jsons[s] \cap mds[s] # {}}
Lifecycle == INSTANCE JobLifecycle WITH
  where   <- StateOf(spool),
  results <- Digested(json, md)
ImplementsJobLifecycle == Lifecycle!Spec

=============================================================================
