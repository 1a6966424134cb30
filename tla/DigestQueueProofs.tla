------------------------- MODULE DigestQueueProofs -------------------------
(***************************************************************************)
(* For any number of processes, jobs and sources, whatever dies: no job    *)
(* file vanishes, a source has at most one digest, a job in done/ stands   *)
(* for a digest of its source, and only a death leaves a lock behind.      *)
(***************************************************************************)
EXTENDS DigestQueue, SpoolProofs

----------------------------------------------------------------------------
(* Types, and which locals are set at which point *)

AtJob    == {"clear", "clearing", "requeue", "annotate", "annotating", "fail",
             "claimed", "stamp", "check", "generate", "complete"}
AtSource == {"claimed", "stamp", "check", "generate",
             "lock", "look", "json", "md", "unlock", "complete"}

LocalsOK(r) ==
  /\ r.pc \in AtJob => r.job \in Jobs
  /\ r.pc \in AtSource => r.src \in Sources
  /\ r.pc \in {"recover", "clear", "clearing", "requeue"} => r.src = NoSource
  /\ r.pc \in {"lock", "look", "json", "md"} => r.digest \in Digests
  /\ r.pc \in {"clearing", "annotating", "stamp"} => r.copy \in JobFile
  /\ r.job \in Jobs /\ r.src \in Sources => r.src = SourceOf[r.job]

Typed == TypeOK /\ \A p \in Procs : LocalsOK(proc[p])

LEMMA TypedInit == Init => Typed
  BY JobAssumption, RunnerAssumption, FileAssumption
  DEF Init, SpoolInit, Typed, TypeOK, LocalsOK, Resting, Locals, PCs, AtJob, AtSource

\* A process step keeps the types if its own new locals have theirs and what
\* it does to the files keeps them.
LEMMA LocalStep ==
  ASSUME Typed, NEW p \in Procs, NEW r \in Locals, LocalsOK(r),
         Become(p, r),
         UNCHANGED <<clock, rev, requeues>>, crashes' \in Nat,
         lock' \in [Sources -> BOOLEAN],
         json' \in [Sources -> SUBSET Digests], md' \in [Sources -> SUBSET Digests],
         spool' \in Files(JobFile)
  PROVE  Typed'
  BY DEF Typed, TypeOK, Files, Become

LEMMA RestingOK == Resting \in Locals /\ LocalsOK(Resting)
  BY RunnerAssumption DEF Resting, Locals, LocalsOK, PCs, AtJob, AtSource

LEMMA LeaseTaken == \A c \in JobFile : [c EXCEPT !.expires = NoLease] \in JobFile
  BY DEF JobFile

\* What a job file in leased/ holds
LEMMA LeasedFile ==
  ASSUME spool \in Files(JobFile), NEW j \in Jobs, IsIn(j, "leased")
  PROVE  spool["leased"][j] \in JobFile
  BY DEF Files, IsIn, QueueStates

LEMMA RecoverStepTyped ==
  ASSUME Typed, NEW p \in Procs, RecoverStep(p)
  PROVE  Typed'
<1>p. proc \in [Procs -> Locals] /\ proc[p] \in Locals /\ LocalsOK(proc[p])
  BY DEF Typed, TypeOK
<1>s. /\ spool \in Files(JobFile) /\ crashes \in Nat /\ lock \in [Sources -> BOOLEAN]
      /\ json \in [Sources -> SUBSET Digests] /\ md \in [Sources -> SUBSET Digests]
  BY DEF Typed, TypeOK, Files
<1> USE DEF At, Job, Src
<1>1. CASE Recover(p)
  <2>1. PICK j \in proc[p].todo : \E pc \in {"clear", "annotate"} :
          \/ Become(p, Resting)
          \/ Become(p, [proc[p] EXCEPT !.todo = proc[p].todo \ {j}])
          \/ Become(p, [proc[p] EXCEPT !.todo = proc[p].todo \ {j}, !.job = j, !.pc = pc])
    BY <1>1 DEF Recover, Exit
  <2>2. PICK pc \in {"clear", "annotate"} :
          \/ Become(p, Resting)
          \/ Become(p, [proc[p] EXCEPT !.todo = proc[p].todo \ {j}])
          \/ Become(p, [proc[p] EXCEPT !.todo = proc[p].todo \ {j}, !.job = j, !.pc = pc])
    BY <2>1
  <2> DEFINE r1 == [proc[p] EXCEPT !.todo = proc[p].todo \ {j}]
             r2 == [proc[p] EXCEPT !.todo = proc[p].todo \ {j}, !.job = j, !.pc = pc]
  <2>3. r1 \in Locals /\ LocalsOK(r1)
    BY <1>p DEF Locals, LocalsOK
  <2>4. r2 \in Locals /\ LocalsOK(r2)
    BY <1>1, <1>p, RunnerAssumption DEF Recover, Locals, LocalsOK, PCs, AtJob, AtSource
  <2> QED
    BY <1>1, <1>s, <2>2, <2>3, <2>4, RestingOK, LocalStep DEF Recover, store, around
<1>2. CASE RecoverDone(p)
  <2> DEFINE r == [proc[p] EXCEPT !.pc = "lease"]
  <2>1. r \in Locals /\ LocalsOK(r)
    BY <1>2, <1>p DEF RecoverDone, Locals, LocalsOK, PCs, AtJob, AtSource
  <2> QED
    BY <1>2, <1>p, <1>s, <2>1, LocalStep DEF RecoverDone, Goto, store, around
<1>3. CASE ClearRead(p)
  <2>1. CASE ~IsIn(Job(p), "leased")
    BY <1>3, <1>p, <1>s, <2>1, RestingOK, LocalStep DEF ClearRead, Exit, store, around
  <2>2. CASE IsIn(Job(p), "leased")
    <3> DEFINE r == [proc[p] EXCEPT !.pc = "clearing", !.copy = spool["leased"][Job(p)]]
    <3>1. spool["leased"][Job(p)] \in JobFile
      BY <1>3, <1>p, <1>s, <2>2, LeasedFile DEF ClearRead, LocalsOK, AtJob
    <3>2. r \in Locals /\ LocalsOK(r)
      BY <1>3, <1>p, <3>1 DEF ClearRead, Locals, LocalsOK, PCs, AtJob, AtSource
    <3> QED
      BY <1>3, <1>p, <1>s, <2>2, <3>2, LocalStep DEF ClearRead, store, around
  <2> QED
    BY <2>1, <2>2
<1>4. CASE ClearWrite(p)
  <2> DEFINE r == [proc[p] EXCEPT !.pc = "requeue"]
             c == [proc[p].copy EXCEPT !.expires = NoLease]
  <2>1. r \in Locals /\ LocalsOK(r)
    BY <1>4, <1>p DEF ClearWrite, Locals, LocalsOK, PCs, AtJob, AtSource
  <2>2. c \in JobFile /\ Job(p) \in Jobs
    BY <1>4, <1>p, RunnerAssumption DEF ClearWrite, LocalsOK, AtJob, JobFile
  <2>3. spool' \in Files(JobFile)
    BY <1>4, <1>s, <2>2, WriteEffect DEF ClearWrite, QueueStates
  <2> QED
    BY <1>4, <1>p, <1>s, <2>1, <2>3, LocalStep DEF ClearWrite, Goto, store, around
<1>5. CASE MoveBack(p)
  <2> DEFINE r == [proc[p] EXCEPT !.pc = "recover", !.job = NoJob, !.copy = NoFile]
  <2>1. r \in Locals /\ LocalsOK(r)
    BY <1>5, <1>p, RunnerAssumption DEF MoveBack, NextJob, Locals, LocalsOK, PCs, AtJob, AtSource
  <2>2. CASE MoveJob(Job(p), "leased", "pending") /\ Become(p, r)
    <3>1. spool' \in Files(JobFile)
      BY <1>5, <1>p, <1>s, <2>2, MoveEffect DEF MoveBack, QueueStates, LocalsOK, AtJob
    <3> QED
      BY <1>5, <1>p, <1>s, <2>1, <2>2, <3>1, LocalStep DEF MoveBack, store, around
  <2>3. CASE Exit(p) /\ UNCHANGED spool
    BY <1>5, <1>p, <1>s, <2>3, RestingOK, LocalStep DEF MoveBack, Exit, store, around
  <2> QED
    BY <1>5, <2>2, <2>3 DEF MoveBack
<1>6. CASE AnnotateRead(p)
  <2>1. CASE ~IsIn(Job(p), "leased")
    BY <1>6, <1>p, <1>s, <2>1, RestingOK, LocalStep DEF AnnotateRead, Exit, store, around
  <2>2. CASE IsIn(Job(p), "leased")
    <3> DEFINE r == [proc[p] EXCEPT !.pc = "annotating", !.copy = spool["leased"][Job(p)]]
    <3>1. spool["leased"][Job(p)] \in JobFile
      BY <1>6, <1>p, <1>s, <2>2, LeasedFile DEF AnnotateRead, LocalsOK, AtJob
    <3>2. r \in Locals /\ LocalsOK(r)
      BY <1>6, <1>p, <3>1 DEF AnnotateRead, Locals, LocalsOK, PCs, AtJob, AtSource
    <3> QED
      BY <1>6, <1>p, <1>s, <2>2, <3>2, LocalStep DEF AnnotateRead, store, around
  <2> QED
    BY <2>1, <2>2
<1>7. CASE AnnotateWrite(p)
  <2> DEFINE r == [proc[p] EXCEPT !.pc = "fail"]
             c == proc[p].copy
  <2>1. r \in Locals /\ LocalsOK(r)
    BY <1>7, <1>p DEF AnnotateWrite, Locals, LocalsOK, PCs, AtJob, AtSource
  <2>2. c \in JobFile /\ Job(p) \in Jobs
    BY <1>7, <1>p, RunnerAssumption DEF AnnotateWrite, LocalsOK, AtJob, JobFile
  <2>3. spool' \in Files(JobFile)
    BY <1>7, <1>s, <2>2, WriteEffect DEF AnnotateWrite, QueueStates
  <2> QED
    BY <1>7, <1>p, <1>s, <2>1, <2>3, LocalStep DEF AnnotateWrite, Goto, store, around
<1>8. CASE MoveToFailed(p)
  <2> DEFINE r == NextJob(p)
  <2>1. r \in Locals /\ LocalsOK(r)
    BY <1>8, <1>p, RunnerAssumption DEF MoveToFailed, NextJob, Locals, LocalsOK, PCs, AtJob, AtSource
  <2>2. CASE MoveJob(Job(p), "leased", "failed") /\ Become(p, r)
    <3>1. spool' \in Files(JobFile)
      BY <1>8, <1>p, <1>s, <2>2, MoveEffect DEF MoveToFailed, QueueStates, LocalsOK, AtJob
    <3> QED
      BY <1>8, <1>p, <1>s, <2>1, <2>2, <3>1, LocalStep DEF MoveToFailed, store, around
  <2>3. CASE Exit(p) /\ UNCHANGED spool
    BY <1>8, <1>p, <1>s, <2>3, RestingOK, LocalStep DEF MoveToFailed, Exit, store, around
  <2> QED
    BY <1>8, <2>2, <2>3 DEF MoveToFailed
<1> QED
  BY <1>1, <1>2, <1>3, <1>4, <1>5, <1>6, <1>7, <1>8 DEF RecoverStep

LEMMA JobStepTyped ==
  ASSUME Typed, NEW p \in Procs, JobStep(p)
  PROVE  Typed'
<1>p. proc \in [Procs -> Locals] /\ proc[p] \in Locals /\ LocalsOK(proc[p])
  BY DEF Typed, TypeOK
<1>s. /\ spool \in Files(JobFile) /\ crashes \in Nat /\ lock \in [Sources -> BOOLEAN]
      /\ json \in [Sources -> SUBSET Digests] /\ md \in [Sources -> SUBSET Digests]
      /\ clock \in Nat /\ rev \in 0..MaxRev
  BY DEF Typed, TypeOK, Files
<1> USE DEF At, Job, Src
<1>1. CASE LeaseList(p)
  <2> DEFINE r == [proc[p] EXCEPT !.pc = "claim", !.left = proc[p].left - 1, !.todo = Listed("pending")]
  <2>1. CASE proc[p].left = 0
    BY <1>1, <1>p, <1>s, <2>1, RestingOK, LocalStep DEF LeaseList, Exit, store, around
  <2>2. CASE ~(proc[p].left = 0)
    <3>0. proc[p].left - 1 \in Nat /\ Listed("pending") \in SUBSET Jobs
      BY <1>p, <2>2 DEF Locals, Listed
    <3>1. r \in Locals /\ LocalsOK(r)
      BY <1>1, <1>p, <3>0 DEF LeaseList, Locals, LocalsOK, PCs, AtJob, AtSource
    <3> QED
      BY <1>1, <1>p, <1>s, <2>2, <3>1, LocalStep DEF LeaseList, store, around
  <2> QED
    BY <2>1, <2>2
<1>2. CASE Claim(p)
  <2>1. PICK j \in proc[p].todo :
          \/ /\ MoveJob(j, "pending", "leased")
             /\ Become(p, [proc[p] EXCEPT !.pc = "claimed", !.todo = {}, !.job = j,
                                         !.src = SourceOf[j]])
          \/ /\ Become(p, [proc[p] EXCEPT !.todo = proc[p].todo \ {j}])
             /\ UNCHANGED spool
    BY <1>2 DEF Claim
  <2> DEFINE r1 == [proc[p] EXCEPT !.pc = "claimed", !.todo = {}, !.job = j, !.src = SourceOf[j]]
             r2 == [proc[p] EXCEPT !.todo = proc[p].todo \ {j}]
  <2>2. r1 \in Locals /\ LocalsOK(r1) /\ j \in Jobs
    BY <1>2, <1>p, RunnerAssumption DEF Claim, Locals, LocalsOK, PCs, AtJob, AtSource
  <2>3. r2 \in Locals /\ LocalsOK(r2)
    BY <1>2, <1>p DEF Claim, Locals, LocalsOK, PCs, AtJob, AtSource
  <2>4. spool' \in Files(JobFile)
    BY <1>s, <2>1, <2>2, MoveEffect DEF QueueStates
  <2> QED
    BY <1>2, <1>s, <2>1, <2>2, <2>3, <2>4, LocalStep DEF Claim, store, around
<1>3. CASE NothingPending(p)
  BY <1>3, <1>s, RestingOK, LocalStep DEF NothingPending, Exit, store, around
<1>4. CASE LeaseRead(p)
  <2>1. CASE ~IsIn(Job(p), "leased")
    BY <1>4, <1>p, <1>s, <2>1, RestingOK, LocalStep DEF LeaseRead, Exit, store, around
  <2>2. CASE IsIn(Job(p), "leased")
    <3> DEFINE r == [proc[p] EXCEPT !.pc = "stamp", !.copy = spool["leased"][Job(p)]]
    <3>1. spool["leased"][Job(p)] \in JobFile
      BY <1>4, <1>p, <1>s, <2>2, LeasedFile DEF LeaseRead, LocalsOK, AtJob
    <3>2. r \in Locals /\ LocalsOK(r)
      BY <1>4, <1>p, <3>1 DEF LeaseRead, Locals, LocalsOK, PCs, AtJob, AtSource
    <3> QED
      BY <1>4, <1>p, <1>s, <2>2, <3>2, LocalStep DEF LeaseRead, store, around
  <2> QED
    BY <2>1, <2>2
<1>5. CASE LeaseWrite(p)
  <2> DEFINE r == [proc[p] EXCEPT !.pc = "check", !.copy = NoFile]
             c == [proc[p].copy EXCEPT !.attempts = proc[p].copy.attempts + 1,
                                       !.expires = clock + LeaseTime]
  <2>1. r \in Locals /\ LocalsOK(r)
    BY <1>5, <1>p DEF LeaseWrite, Locals, LocalsOK, PCs, AtJob, AtSource
  <2>2. c \in JobFile /\ Job(p) \in Jobs
    <3>1. proc[p].copy \in JobFile /\ Job(p) \in Jobs
      BY <1>5, <1>p DEF LeaseWrite, LocalsOK, AtJob
    <3>2. proc[p].copy.attempts + 1 \in Nat /\ clock + LeaseTime \in Nat
      BY <1>s, <3>1, RunnerAssumption DEF JobFile
    <3> QED
      BY <3>1, <3>2 DEF JobFile
  <2>3. spool' \in Files(JobFile)
    BY <1>5, <1>s, <2>2, WriteEffect DEF LeaseWrite, QueueStates
  <2> QED
    BY <1>5, <1>p, <1>s, <2>1, <2>3, LocalStep DEF LeaseWrite, store, around
<1>6. CASE Check(p)
  <2> DEFINE r == [proc[p] EXCEPT !.pc = IF CheckOK(p) THEN "generate" ELSE "annotate"]
  <2>1. r \in Locals /\ LocalsOK(r)
    BY <1>6, <1>p DEF Check, Locals, LocalsOK, PCs, AtJob, AtSource
  <2> QED
    BY <1>6, <1>p, <1>s, <2>1, LocalStep DEF Check, Goto, store, around
<1>7. ASSUME NEW d \in Digests, Generate(p, d) PROVE Typed'
  <2> DEFINE r == [proc[p] EXCEPT !.pc = "lock", !.digest = d]
  <2>1. r \in Locals /\ LocalsOK(r)
    BY <1>7, <1>p DEF Generate, Locals, LocalsOK, PCs, AtJob, AtSource
  <2> QED
    BY <1>7, <1>p, <1>s, <2>1, LocalStep DEF Generate, store, around
<1>8. CASE GenerateFails(p)
  <2> DEFINE r == [proc[p] EXCEPT !.pc = "annotate"]
  <2>1. r \in Locals /\ LocalsOK(r)
    BY <1>8, <1>p DEF GenerateFails, Locals, LocalsOK, PCs, AtJob, AtSource
  <2> QED
    BY <1>8, <1>p, <1>s, <2>1, LocalStep DEF GenerateFails, Goto, store, around
<1>9. CASE Complete(p)
  <2> DEFINE r1 == NextJob(p)
             r2 == [proc[p] EXCEPT !.pc = "annotate"]
  <2>1. r1 \in Locals /\ LocalsOK(r1)
    BY <1>9, <1>p, RunnerAssumption DEF Complete, NextJob, Locals, LocalsOK, PCs, AtJob, AtSource
  <2>2. r2 \in Locals /\ LocalsOK(r2)
    BY <1>9, <1>p DEF Complete, Locals, LocalsOK, PCs, AtJob, AtSource
  <2>3. CASE MoveJob(Job(p), "leased", "done") /\ Become(p, r1)
    <3>1. spool' \in Files(JobFile)
      BY <1>9, <1>p, <1>s, <2>3, MoveEffect DEF Complete, QueueStates, LocalsOK, AtJob
    <3> QED
      BY <1>9, <1>p, <1>s, <2>1, <2>3, <3>1, LocalStep DEF Complete, store, around
  <2>4. CASE Goto(p, "annotate") /\ UNCHANGED spool
    BY <1>9, <1>p, <1>s, <2>2, <2>4, LocalStep DEF Complete, Goto, store, around
  <2> QED
    BY <1>9, <2>3, <2>4 DEF Complete
<1> QED
  BY <1>1, <1>2, <1>3, <1>4, <1>5, <1>6, <1>7, <1>8, <1>9 DEF JobStep

LEMMA WriterStepTyped ==
  ASSUME Typed, NEW p \in Procs, WriterStep(p)
  PROVE  Typed'
<1>p. proc \in [Procs -> Locals] /\ proc[p] \in Locals /\ LocalsOK(proc[p])
  BY DEF Typed, TypeOK
<1>s. /\ spool \in Files(JobFile) /\ crashes \in Nat /\ lock \in [Sources -> BOOLEAN]
      /\ json \in [Sources -> SUBSET Digests] /\ md \in [Sources -> SUBSET Digests]
      /\ clock \in Nat /\ rev \in 0..MaxRev
  BY DEF Typed, TypeOK, Files
<1> USE DEF At, Job, Src
<1>f. Fails(p) \in Locals /\ (At(p, "lock") \/ At(p, "unlock") => LocalsOK(Fails(p)))
  BY <1>p, RestingOK, RunnerAssumption DEF Fails, Locals, LocalsOK, PCs, AtJob, AtSource
<1>1. CASE Lock(p)
  <2> DEFINE r == [proc[p] EXCEPT !.pc = "look"]
  <2>1. r \in Locals /\ LocalsOK(r)
    BY <1>1, <1>p DEF Lock, Locals, LocalsOK, PCs, AtJob, AtSource
  <2> QED
    BY <1>1, <1>p, <1>s, <2>1, LocalStep DEF Lock, Goto, store, around
<1>2. CASE Locked(p)
  BY <1>2, <1>f, <1>s, LocalStep DEF Locked, store, around
<1>3. CASE Look(p)
  <2> DEFINE r == [proc[p] EXCEPT !.pc = IF json[Src(p)] = {} THEN "json" ELSE "unlock"]
  <2>1. r \in Locals /\ LocalsOK(r)
    BY <1>3, <1>p DEF Look, Locals, LocalsOK, PCs, AtJob, AtSource
  <2> QED
    BY <1>3, <1>p, <1>s, <2>1, LocalStep DEF Look, Goto, store, around
<1>4. CASE WriteJson(p)
  <2> DEFINE r == [proc[p] EXCEPT !.pc = "md"]
  <2>1. r \in Locals /\ LocalsOK(r)
    BY <1>4, <1>p DEF WriteJson, Locals, LocalsOK, PCs, AtJob, AtSource
  <2>2. json' \in [Sources -> SUBSET Digests]
    <3>1. proc[p].src \in Sources /\ proc[p].digest \in Digests
      BY <1>4, <1>p DEF WriteJson, LocalsOK, AtSource
    <3> QED
      BY <1>4, <1>s, <3>1 DEF WriteJson
  <2> QED
    BY <1>4, <1>p, <1>s, <2>1, <2>2, LocalStep DEF WriteJson, Goto, store, around
<1>5. CASE WriteMd(p)
  <2> DEFINE r == [proc[p] EXCEPT !.pc = "unlock", !.ok = TRUE]
  <2>1. r \in Locals /\ LocalsOK(r)
    BY <1>5, <1>p DEF WriteMd, Locals, LocalsOK, PCs, AtJob, AtSource
  <2>2. md' \in [Sources -> SUBSET Digests]
    <3>1. proc[p].src \in Sources /\ proc[p].digest \in Digests
      BY <1>5, <1>p DEF WriteMd, LocalsOK, AtSource
    <3> QED
      BY <1>5, <1>s, <3>1 DEF WriteMd
  <2> QED
    BY <1>5, <1>p, <1>s, <2>1, <2>2, LocalStep DEF WriteMd, Goto, store, around
<1>6. CASE WriteFails(p)
  <2> DEFINE r == [proc[p] EXCEPT !.pc = "unlock"]
  <2>1. r \in Locals /\ LocalsOK(r)
    BY <1>6, <1>p DEF WriteFails, Locals, LocalsOK, PCs, AtJob, AtSource
  <2> QED
    BY <1>6, <1>p, <1>s, <2>1, LocalStep DEF WriteFails, Goto, store, around
<1>7. CASE Unlock(p)
  <2> DEFINE r == IF ~proc[p].ok THEN Fails(p)
                  ELSE IF Job(p) = NoJob THEN Resting
                  ELSE [proc[p] EXCEPT !.pc = "complete"]
  <2>1. r \in Locals /\ LocalsOK(r)
    BY <1>7, <1>f, <1>p, RestingOK DEF Unlock, Locals, LocalsOK, PCs, AtJob, AtSource
  <2> QED
    BY <1>7, <1>p, <1>s, <2>1, LocalStep DEF Unlock, around
<1> QED
  BY <1>1, <1>2, <1>3, <1>4, <1>5, <1>6, <1>7 DEF WriterStep


LEMMA TypedNext == Typed /\ [Next]_vars => Typed'
<1> SUFFICES ASSUME Typed, [Next]_vars PROVE Typed'
  OBVIOUS
<1>s. /\ spool \in Files(JobFile) /\ crashes \in Nat /\ requeues \in Nat /\ lock \in [Sources -> BOOLEAN]
      /\ json \in [Sources -> SUBSET Digests] /\ md \in [Sources -> SUBSET Digests]
      /\ clock \in Nat /\ rev \in 0..MaxRev /\ proc \in [Procs -> Locals]
      /\ \A p \in Procs : LocalsOK(proc[p])
  BY DEF Typed, TypeOK, Files
<1>1. ASSUME NEW j \in Jobs, Enqueue(j) PROVE Typed'
  <2>1. NewJob(rev) \in JobFile
    BY <1>s DEF NewJob, JobFile
  <2>2. spool' \in Files(JobFile)
    BY <1>1, <1>s, <2>1, WriteEffect DEF Enqueue, CreateJob, QueueStates
  <2> QED
    BY <1>1, <1>s, <2>2 DEF Enqueue, Typed, TypeOK, Files, store, around
<1>2. ASSUME NEW j \in Jobs, BeginRequeue(j) \/ Requeue(j) PROVE Typed'
  <2>1. spool' \in Files(JobFile)
    BY <1>2, <1>s, ClearEffect, RequeueEffect, LeaseTaken DEF BeginRequeue, Requeue
  <2> QED
    BY <1>2, <1>s, <2>1 DEF BeginRequeue, Requeue, Typed, TypeOK, Files, store, around
<1>3. CASE Tick
  BY <1>3, <1>s DEF Tick, Typed, TypeOK, Files, store
<1>4. CASE NewRevision
  <2>1. rev + 1 \in 0..MaxRev
    BY <1>4, <1>s, RunnerAssumption DEF NewRevision
  <2> QED
    BY <1>4, <1>s, <2>1 DEF NewRevision, Typed, TypeOK, Files, store
<1>5. ASSUME NEW p \in Procs, StartRun(p) PROVE Typed'
  <2> DEFINE r == [Resting EXCEPT !.pc = "recover", !.now = clock, !.rev = rev,
                                  !.left = MaxJobs, !.todo = Listed("leased")]
  <2>1. Listed("leased") \in SUBSET Jobs
    BY DEF Listed
  <2>2. r \in Locals /\ LocalsOK(r)
    BY <1>s, <2>1, RunnerAssumption DEF Resting, Locals, LocalsOK, PCs, AtJob, AtSource
  <2> QED
    BY <1>5, <1>s, <2>2, LocalStep DEF StartRun, store, around
<1>6. ASSUME NEW p \in Procs, NEW s \in Sources, NEW d \in Digests, StartManual(p, s, d)
      PROVE  Typed'
  <2> DEFINE r == [Resting EXCEPT !.pc = "lock", !.src = s, !.digest = d]
  <2>1. r \in Locals
    BY RestingOK DEF Locals, PCs
  <2>2. r.pc = "lock" /\ r.src \in Sources /\ r.digest \in Digests /\ r.job \notin Jobs
    BY RunnerAssumption DEF Resting
  <2>3. LocalsOK(r)
    BY <2>2 DEF LocalsOK, AtJob, AtSource
  <2> QED
    BY <1>6, <1>s, <2>1, <2>3, LocalStep DEF StartManual, store, around
<1>7. ASSUME NEW p \in Procs, Crash(p) PROVE Typed'
  BY <1>7, <1>s, RestingOK, LocalStep DEF Crash, Exit, store
<1>8. ASSUME NEW p \in Procs, Advance(p) PROVE Typed'
  BY <1>8, RecoverStepTyped, JobStepTyped, WriterStepTyped DEF Advance
<1>9. CASE UNCHANGED vars
  BY <1>9 DEF vars, Typed, TypeOK
<1> QED
  BY <1>1, <1>2, <1>3, <1>4, <1>5, <1>6, <1>7, <1>8, <1>9 DEF Next, Around

\* Every reachable state has the types TypeOK names, whatever the number of
\* processes, jobs and sources.
THEOREM TypeCorrect == Spec => []TypeOK
<1>1. Typed => TypeOK
  BY DEF Typed
<1> QED
  BY <1>1, TypedInit, TypedNext, PTL DEF Spec

----------------------------------------------------------------------------
(* One digest per source *)

\* What a process in the writer, or about to finish its job, knows of its source
WriterKnows(p) ==
  /\ InWriter(p) => lock[Src(p)]
  /\ proc[p].ok => proc[p].pc \in {"unlock", "complete", "annotate", "annotating", "fail"}
  /\ At(p, "json") => json[Src(p)] = {}
  /\ At(p, "md") => json[Src(p)] = {proc[p].digest}
  /\ At(p, "complete") \/ (At(p, "unlock") /\ proc[p].ok) =>
       json[Src(p)] \cap md[Src(p)] # {}

\* The lock directory admits one process per source.
Exclusive ==
  \A p, q \in Procs : InWriter(p) /\ InWriter(q) /\ Src(p) = Src(q) => p = q

DigestInv ==
  /\ Typed
  /\ \A p \in Procs : WriterKnows(p)
  /\ Exclusive
  /\ OneDigestPerSource
  /\ DoneHasDigest

\* Steps that neither touch a digest or a lock nor finish a job
Quiet(p) ==
  /\ \A q \in Procs \ {p} : proc'[q] = proc[q]
  /\ UNCHANGED store
  /\ spool'["done"] = spool["done"]
  /\ proc'[p].pc \notin {"look", "json", "md", "unlock", "complete"}
  /\ proc'[p].ok => proc'[p].pc \in {"annotate", "annotating", "fail"}

LEMMA DigestInvInit == Init => DigestInv
<1> SUFFICES ASSUME Init PROVE DigestInv
  OBVIOUS
<1>1. Typed
  BY TypedInit
<1>2. \A p \in Procs : proc[p].pc = "idle" /\ ~proc[p].ok
  BY DEF Init, Resting
<1> QED
  BY <1>1, <1>2 DEF Init, SpoolInit, DigestInv, WriterKnows, Exclusive, InWriter, At,
     OneDigestPerSource, DoneHasDigest, IsIn, QueueStates

LEMMA QuietStep ==
  ASSUME DigestInv, Typed', NEW p \in Procs, Quiet(p)
  PROVE  DigestInv'
<1>1. ASSUME NEW q \in Procs PROVE WriterKnows(q)'
  BY DEF DigestInv, WriterKnows, Quiet, store, InWriter, At, Src
<1>2. Exclusive'
  BY DEF DigestInv, Exclusive, Quiet, store, InWriter, Src
<1>3. OneDigestPerSource' /\ DoneHasDigest'
  BY DEF DigestInv, OneDigestPerSource, DoneHasDigest, Quiet, store, IsIn
<1> QED
  BY <1>1, <1>2, <1>3 DEF DigestInv

LEMMA MoveKeepsDone ==
  ASSUME spool \in Files(JobFile), NEW j \in Jobs, NEW d \in QueueStates \ {"done"},
         NEW e \in QueueStates \ {"done"}, MoveJob(j, d, e)
  PROVE  spool'["done"] = spool["done"]
  BY DEF Files, MoveJob, QueueStates

LEMMA WriteKeepsDone ==
  ASSUME spool \in Files(JobFile), NEW j \in Jobs, NEW d \in QueueStates \ {"done"}, NEW c,
         WriteJob(j, d, c)
  PROVE  spool'["done"] = spool["done"]
  BY DEF Files, WriteJob, QueueStates

LEMMA BecomeQuiet ==
  ASSUME DigestInv, NEW p \in Procs, NEW r, Become(p, r),
         UNCHANGED store, spool'["done"] = spool["done"],
         r.pc \notin {"look", "json", "md", "unlock", "complete"},
         r.ok => r.pc \in {"annotate", "annotating", "fail"}
  PROVE  Quiet(p)
  BY DEF DigestInv, Typed, TypeOK, Become, Quiet

LEMMA RecoverQuiet ==
  ASSUME DigestInv, NEW p \in Procs, RecoverStep(p)
  PROVE  Quiet(p)
<1>p. proc[p] \in Locals /\ LocalsOK(proc[p]) /\ spool \in Files(JobFile)
  BY DEF DigestInv, Typed, TypeOK, Files
<1>k. proc[p].ok => proc[p].pc \in {"unlock", "complete", "annotate", "annotating", "fail"}
  BY DEF DigestInv, WriterKnows
<1>r. Resting.pc = "idle" /\ Resting.ok = FALSE
  BY DEF Resting
<1> USE DEF At, Job
<1>1. CASE Recover(p)
  <2>1. PICK j \in proc[p].todo, pc \in {"clear", "annotate"} :
          \/ Become(p, Resting)
          \/ Become(p, [proc[p] EXCEPT !.todo = proc[p].todo \ {j}])
          \/ Become(p, [proc[p] EXCEPT !.todo = proc[p].todo \ {j}, !.job = j, !.pc = pc])
    BY <1>1 DEF Recover, Exit
  <2> DEFINE r1 == [proc[p] EXCEPT !.todo = proc[p].todo \ {j}]
             r2 == [proc[p] EXCEPT !.todo = proc[p].todo \ {j}, !.job = j, !.pc = pc]
  <2>2. r1.pc = "recover" /\ ~r1.ok /\ r2.pc = pc /\ ~r2.ok
    BY <1>1, <1>p, <1>k DEF Recover, Locals
  <2> QED
    BY <1>1, <1>r, <2>1, <2>2, BecomeQuiet DEF Recover
<1>2. CASE RecoverDone(p)
  <2> DEFINE r == [proc[p] EXCEPT !.pc = "lease"]
  <2>1. r.pc = "lease" /\ ~r.ok
    BY <1>2, <1>p, <1>k DEF RecoverDone, Locals
  <2> QED
    BY <1>2, <2>1, BecomeQuiet DEF RecoverDone, Goto
<1>3. CASE ClearRead(p)
  <2> DEFINE r == [proc[p] EXCEPT !.pc = "clearing", !.copy = spool["leased"][Job(p)]]
  <2>1. r.pc = "clearing" /\ ~r.ok
    BY <1>3, <1>p, <1>k DEF ClearRead, Locals
  <2> QED
    BY <1>3, <1>r, <2>1, BecomeQuiet DEF ClearRead, Exit
<1>4. CASE ClearWrite(p)
  <2> DEFINE r == [proc[p] EXCEPT !.pc = "requeue"]
  <2>1. r.pc = "requeue" /\ ~r.ok
    BY <1>4, <1>p, <1>k DEF ClearWrite, Locals
  <2>2. spool'["done"] = spool["done"]
    BY <1>4, <1>p, WriteKeepsDone DEF ClearWrite, LocalsOK, AtJob, QueueStates
  <2> QED
    BY <1>4, <2>1, <2>2, BecomeQuiet DEF ClearWrite, Goto
<1>5. CASE MoveBack(p)
  <2> DEFINE r == [proc[p] EXCEPT !.pc = "recover", !.job = NoJob, !.copy = NoFile]
  <2>1. r.pc = "recover" /\ ~r.ok
    BY <1>5, <1>p, <1>k DEF MoveBack, Locals
  <2>2. spool'["done"] = spool["done"]
    BY <1>5, <1>p, MoveKeepsDone DEF MoveBack, LocalsOK, AtJob, QueueStates
  <2> QED
    BY <1>5, <1>r, <2>1, <2>2, BecomeQuiet DEF MoveBack, Exit
<1>6. CASE AnnotateRead(p)
  <2> DEFINE r == [proc[p] EXCEPT !.pc = "annotating", !.copy = spool["leased"][Job(p)]]
  <2>1. r.pc = "annotating"
    BY <1>6, <1>p DEF AnnotateRead, Locals
  <2> QED
    BY <1>6, <1>r, <2>1, BecomeQuiet DEF AnnotateRead, Exit
<1>7. CASE AnnotateWrite(p)
  <2> DEFINE r == [proc[p] EXCEPT !.pc = "fail"]
  <2>1. r.pc = "fail"
    BY <1>7, <1>p DEF AnnotateWrite, Locals
  <2>2. spool'["done"] = spool["done"]
    BY <1>7, <1>p, WriteKeepsDone DEF AnnotateWrite, LocalsOK, AtJob, QueueStates
  <2> QED
    BY <1>7, <2>1, <2>2, BecomeQuiet DEF AnnotateWrite, Goto
<1>8. CASE MoveToFailed(p)
  <2>1. NextJob(p).pc \in {"recover", "lease"} /\ ~NextJob(p).ok
    BY <1>p DEF NextJob, Locals
  <2>2. spool'["done"] = spool["done"]
    BY <1>8, <1>p, MoveKeepsDone DEF MoveToFailed, LocalsOK, AtJob, QueueStates
  <2> QED
    BY <1>8, <1>r, <2>1, <2>2, BecomeQuiet DEF MoveToFailed, Exit
<1> QED
  BY <1>1, <1>2, <1>3, <1>4, <1>5, <1>6, <1>7, <1>8 DEF RecoverStep

LEMMA JobQuiet ==
  ASSUME DigestInv, NEW p \in Procs, JobStep(p), ~Complete(p)
  PROVE  Quiet(p)
<1>p. proc[p] \in Locals /\ LocalsOK(proc[p]) /\ spool \in Files(JobFile)
  BY DEF DigestInv, Typed, TypeOK, Files
<1>k. proc[p].ok => proc[p].pc \in {"unlock", "complete", "annotate", "annotating", "fail"}
  BY DEF DigestInv, WriterKnows
<1>r. Resting.pc = "idle" /\ Resting.ok = FALSE
  BY DEF Resting
<1> USE DEF At, Job
<1>1. CASE LeaseList(p)
  <2> DEFINE r == [proc[p] EXCEPT !.pc = "claim", !.left = @ - 1, !.todo = Listed("pending")]
  <2>1. r.pc = "claim" /\ ~r.ok
    BY <1>1, <1>p, <1>k DEF LeaseList, Locals
  <2> QED
    BY <1>1, <1>r, <2>1, BecomeQuiet DEF LeaseList, Exit
<1>2. CASE Claim(p)
  <2>1. PICK j \in proc[p].todo :
          \/ /\ MoveJob(j, "pending", "leased")
             /\ Become(p, [proc[p] EXCEPT !.pc = "claimed", !.todo = {}, !.job = j,
                                         !.src = SourceOf[j]])
          \/ /\ Become(p, [proc[p] EXCEPT !.todo = proc[p].todo \ {j}])
             /\ UNCHANGED spool
    BY <1>2 DEF Claim
  <2> DEFINE r1 == [proc[p] EXCEPT !.pc = "claimed", !.todo = {}, !.job = j, !.src = SourceOf[j]]
             r2 == [proc[p] EXCEPT !.todo = proc[p].todo \ {j}]
  <2>2. r1.pc = "claimed" /\ ~r1.ok /\ r2.pc = "claim" /\ ~r2.ok
    BY <1>2, <1>p, <1>k DEF Claim, Locals
  <2>3. j \in Jobs
    BY <1>p DEF Locals
  <2>4. spool'["done"] = spool["done"]
    BY <1>p, <2>1, <2>3, MoveKeepsDone DEF QueueStates
  <2> QED
    BY <1>2, <2>1, <2>2, <2>4, BecomeQuiet DEF Claim
<1>3. CASE NothingPending(p)
  BY <1>3, <1>r, BecomeQuiet DEF NothingPending, Exit
<1>4. CASE LeaseRead(p)
  <2> DEFINE r == [proc[p] EXCEPT !.pc = "stamp", !.copy = spool["leased"][Job(p)]]
  <2>1. r.pc = "stamp" /\ ~r.ok
    BY <1>4, <1>p, <1>k DEF LeaseRead, Locals
  <2> QED
    BY <1>4, <1>r, <2>1, BecomeQuiet DEF LeaseRead, Exit
<1>5. CASE LeaseWrite(p)
  <2> DEFINE r == [proc[p] EXCEPT !.pc = "check", !.copy = NoFile]
  <2>1. r.pc = "check" /\ ~r.ok
    BY <1>5, <1>p, <1>k DEF LeaseWrite, Locals
  <2>2. spool'["done"] = spool["done"]
    BY <1>5, <1>p, WriteKeepsDone DEF LeaseWrite, LocalsOK, AtJob, QueueStates
  <2> QED
    BY <1>5, <2>1, <2>2, BecomeQuiet DEF LeaseWrite
<1>6. CASE Check(p)
  <2> DEFINE r == [proc[p] EXCEPT !.pc = IF CheckOK(p) THEN "generate" ELSE "annotate"]
  <2>1. r.pc \in {"generate", "annotate"} /\ ~r.ok
    BY <1>6, <1>p, <1>k DEF Check, Locals
  <2> QED
    BY <1>6, <2>1, BecomeQuiet DEF Check, Goto
<1>7. ASSUME NEW d \in Digests, Generate(p, d) PROVE Quiet(p)
  <2> DEFINE r == [proc[p] EXCEPT !.pc = "lock", !.digest = d]
  <2>1. r.pc = "lock" /\ ~r.ok
    BY <1>7, <1>p, <1>k DEF Generate, Locals
  <2> QED
    BY <1>7, <2>1, BecomeQuiet DEF Generate
<1>8. CASE GenerateFails(p)
  <2> DEFINE r == [proc[p] EXCEPT !.pc = "annotate"]
  <2>1. r.pc = "annotate" /\ ~r.ok
    BY <1>8, <1>p, <1>k DEF GenerateFails, Locals
  <2> QED
    BY <1>8, <2>1, BecomeQuiet DEF GenerateFails, Goto
<1> QED
  BY <1>1, <1>2, <1>3, <1>4, <1>5, <1>6, <1>7, <1>8 DEF JobStep

\* Starting a command, finding the lock taken, and dying
LEMMA EdgeQuiet ==
  ASSUME DigestInv, NEW p \in Procs,
         \/ StartRun(p)
         \/ \E s \in Sources, d \in Digests : StartManual(p, s, d)
         \/ Crash(p)
         \/ Locked(p)
  PROVE  Quiet(p)
<1>p. proc[p] \in Locals
  BY DEF DigestInv, Typed, TypeOK
<1>k. proc[p].ok => proc[p].pc \in {"unlock", "complete", "annotate", "annotating", "fail"}
  BY DEF DigestInv, WriterKnows
<1>r. Resting.pc = "idle" /\ Resting.ok = FALSE
  BY DEF Resting
<1>1. CASE StartRun(p)
  <2> DEFINE r == [Resting EXCEPT !.pc = "recover", !.now = clock, !.rev = rev,
                                  !.left = MaxJobs, !.todo = Listed("leased")]
  <2>1. r.pc = "recover" /\ ~r.ok
    BY DEF Resting
  <2> QED
    BY <1>1, <2>1, BecomeQuiet DEF StartRun
<1>2. ASSUME NEW s \in Sources, NEW d \in Digests, StartManual(p, s, d) PROVE Quiet(p)
  <2> DEFINE r == [Resting EXCEPT !.pc = "lock", !.src = s, !.digest = d]
  <2>1. r.pc = "lock" /\ ~r.ok
    BY DEF Resting
  <2> QED
    BY <1>2, <2>1, BecomeQuiet DEF StartManual
<1>3. CASE Crash(p)
  BY <1>3, <1>r, BecomeQuiet DEF Crash, Exit
<1>4. CASE Locked(p)
  <2>1. Fails(p).pc \in {"idle", "annotate"} /\ ~Fails(p).ok
    BY <1>4, <1>p, <1>k, <1>r DEF Locked, At, Fails, Locals
  <2> QED
    BY <1>4, <2>1, BecomeQuiet DEF Locked
<1> QED
  BY <1>1, <1>2, <1>3, <1>4

\* What holds at the start of a writer step of p, restated without definitions
LEMMA WriterFacts ==
  ASSUME DigestInv, NEW p \in Procs
  PROVE  /\ proc \in [Procs -> Locals] /\ proc[p] \in Locals /\ LocalsOK(proc[p])
         /\ \A q \in Procs : WriterKnows(q)
         /\ lock \in [Sources -> BOOLEAN]
         /\ json \in [Sources -> SUBSET Digests] /\ md \in [Sources -> SUBSET Digests]
         /\ proc[p].pc \in {"lock", "look", "json", "md", "unlock"} => Src(p) \in Sources
         /\ proc[p].pc \in {"lock", "look", "json", "md"} => ~proc[p].ok
  BY DEF DigestInv, Typed, TypeOK, WriterKnows, LocalsOK, AtSource, Src

LEMMA LockKeeps ==
  ASSUME DigestInv, Typed', NEW p \in Procs, Lock(p)
  PROVE  DigestInv'
<1> DEFINE r == [proc[p] EXCEPT !.pc = "look"]
<1>1. /\ proc'[p] = r /\ \A q \in Procs \ {p} : proc'[q] = proc[q]
      /\ r.pc = "look" /\ r.src = Src(p) /\ ~r.ok /\ Src(p) \in Sources
  BY WriterFacts DEF Lock, Goto, Become, At, Src, Locals
<1>2. lock'[Src(p)] /\ ~lock[Src(p)] /\ \A s \in Sources : lock[s] => lock'[s]
  BY <1>1, WriterFacts DEF Lock
<1>3. ASSUME NEW q \in Procs PROVE WriterKnows(q)'
  <2>1. CASE q = p
    BY <1>1, <1>2, <2>1 DEF WriterKnows, InWriter, At, Src
  <2>2. CASE q # p
    <3>1. WriterKnows(q) /\ (InWriter(q) => Src(q) \in Sources)
      BY WriterFacts DEF InWriter
    <3> QED
      BY <1>1, <1>2, <2>2, <3>1 DEF WriterKnows, InWriter, At, Src, Lock
  <2> QED
    BY <2>1, <2>2
<1>4. \A q \in Procs : InWriter(q) => Src(q) # Src(p)
  BY <1>2, WriterFacts DEF WriterKnows
<1>5. Exclusive'
  <2>1. Src(p)' = Src(p)
    BY <1>1 DEF Src
  <2>2. \A q \in Procs \ {p} : InWriter(q)' = InWriter(q) /\ Src(q)' = Src(q)
    BY <1>1 DEF InWriter, Src
  <2> QED
    BY <1>4, <2>1, <2>2 DEF DigestInv, Exclusive
<1>6. OneDigestPerSource' /\ DoneHasDigest'
  BY DEF DigestInv, OneDigestPerSource, DoneHasDigest, Lock, IsIn
<1> QED
  BY <1>3, <1>5, <1>6 DEF DigestInv

LEMMA LookKeeps ==
  ASSUME DigestInv, Typed', NEW p \in Procs, Look(p) \/ WriteFails(p)
  PROVE  DigestInv'
<1>1. /\ \A q \in Procs \ {p} : proc'[q] = proc[q]
      /\ proc'[p].pc \in {"json", "unlock"} /\ proc'[p].src = Src(p) /\ ~proc'[p].ok
      /\ proc'[p].pc = "json" => json[Src(p)] = {}
      /\ InWriter(p)
  BY WriterFacts DEF Look, WriteFails, Goto, Become, At, Src, Locals, InWriter
<1>2. UNCHANGED <<spool, lock, json, md>>
  BY DEF Look, WriteFails, store
<1>3. ASSUME NEW q \in Procs PROVE WriterKnows(q)'
  BY <1>1, <1>2, WriterFacts DEF WriterKnows, InWriter, At, Src
<1>4. Exclusive'
  BY <1>1 DEF DigestInv, Exclusive, InWriter, Src
<1>5. OneDigestPerSource' /\ DoneHasDigest'
  BY <1>2 DEF DigestInv, OneDigestPerSource, DoneHasDigest, IsIn
<1> QED
  BY <1>3, <1>4, <1>5 DEF DigestInv

LEMMA WriteJsonKeeps ==
  ASSUME DigestInv, Typed', NEW p \in Procs, WriteJson(p)
  PROVE  DigestInv'
<1>1. /\ \A q \in Procs \ {p} : proc'[q] = proc[q]
      /\ proc'[p].pc = "md" /\ proc'[p].src = Src(p) /\ ~proc'[p].ok
      /\ proc'[p].digest = proc[p].digest
      /\ InWriter(p) /\ Src(p) \in Sources
  BY WriterFacts DEF WriteJson, Goto, Become, At, Src, Locals, InWriter
<1>2. json[Src(p)] = {} /\ lock[Src(p)]
  BY <1>1, WriterFacts DEF WriterKnows, WriteJson
<1>3. /\ json'[Src(p)] = {proc[p].digest}
      /\ \A s \in Sources \ {Src(p)} : json'[s] = json[s]
      /\ UNCHANGED <<spool, lock, md>>
  BY <1>1, <1>2, WriterFacts DEF WriteJson
<1>4. Exclusive'
  BY <1>1 DEF DigestInv, Exclusive, InWriter, Src
<1>5. ASSUME NEW q \in Procs PROVE WriterKnows(q)'
  <2>1. CASE q = p
    BY <1>1, <1>2, <1>3, <2>1 DEF WriterKnows, InWriter, At, Src
  <2>2. CASE q # p
    <3>1. WriterKnows(q) /\ LocalsOK(proc[q])
      BY WriterFacts
    <3>2. InWriter(q) => Src(q) # Src(p)
      BY <1>1, <2>2 DEF DigestInv, Exclusive
    <3>3. InWriter(q) \/ At(q, "complete") => Src(q) \in Sources
      BY <3>1 DEF LocalsOK, AtSource, InWriter, At, Src
    <3>4. At(q, "complete") \/ (At(q, "unlock") /\ proc[q].ok) => Src(q) # Src(p)
      BY <1>2, <3>1 DEF WriterKnows
    <3> QED
      BY <1>1, <1>3, <2>2, <3>1, <3>2, <3>3, <3>4 DEF WriterKnows, InWriter, At, Src
  <2> QED
    BY <2>1, <2>2
<1>6. OneDigestPerSource'
  BY <1>2, <1>3 DEF DigestInv, OneDigestPerSource
<1>7. DoneHasDigest'
  <2> SUFFICES ASSUME NEW j \in Jobs, IsIn(j, "done")' PROVE (json[SourceOf[j]] \cap md[SourceOf[j]] # {})'
    BY DEF DoneHasDigest
  <2>1. json[SourceOf[j]] \cap md[SourceOf[j]] # {} /\ SourceOf[j] \in Sources
    BY <1>3, RunnerAssumption DEF DigestInv, DoneHasDigest, IsIn
  <2> QED
    BY <1>2, <1>3, <2>1
<1> QED
  BY <1>4, <1>5, <1>6, <1>7 DEF DigestInv

LEMMA WriteMdKeeps ==
  ASSUME DigestInv, Typed', NEW p \in Procs, WriteMd(p)
  PROVE  DigestInv'
<1>1. /\ \A q \in Procs \ {p} : proc'[q] = proc[q]
      /\ proc'[p].pc = "unlock" /\ proc'[p].src = Src(p)
      /\ InWriter(p) /\ Src(p) \in Sources
  BY WriterFacts DEF WriteMd, Become, At, Src, Locals, InWriter
<1>2. json[Src(p)] = {proc[p].digest} /\ lock[Src(p)]
  BY <1>1, WriterFacts DEF WriterKnows, WriteMd
<1>3. /\ md'[Src(p)] = md[Src(p)] \cup {proc[p].digest}
      /\ \A s \in Sources \ {Src(p)} : md'[s] = md[s]
      /\ UNCHANGED <<spool, lock, json>>
  BY <1>1, WriterFacts DEF WriteMd
<1>4. Exclusive'
  BY <1>1 DEF DigestInv, Exclusive, InWriter, Src
<1>5. ASSUME NEW q \in Procs PROVE WriterKnows(q)'
  <2>1. CASE q = p
    BY <1>1, <1>2, <1>3, <2>1 DEF WriterKnows, InWriter, At, Src
  <2>2. CASE q # p
    <3>1. WriterKnows(q) /\ LocalsOK(proc[q])
      BY WriterFacts
    <3>2. At(q, "unlock") \/ At(q, "complete") => Src(q) \in Sources
      BY <3>1 DEF LocalsOK, AtSource, At, Src
    <3> QED
      BY <1>1, <1>3, <2>2, <3>1, <3>2 DEF WriterKnows, InWriter, At, Src
  <2> QED
    BY <2>1, <2>2
<1>6. OneDigestPerSource'
  BY <1>2, <1>3 DEF DigestInv, OneDigestPerSource
<1>7. DoneHasDigest'
  BY <1>1, <1>3, RunnerAssumption DEF DigestInv, DoneHasDigest, IsIn
<1> QED
  BY <1>4, <1>5, <1>6, <1>7 DEF DigestInv

LEMMA UnlockKeeps ==
  ASSUME DigestInv, Typed', NEW p \in Procs, Unlock(p)
  PROVE  DigestInv'
<1> DEFINE r == IF ~proc[p].ok THEN Fails(p)
                ELSE IF Job(p) = NoJob THEN Resting
                ELSE [proc[p] EXCEPT !.pc = "complete"]
<1>1. /\ proc'[p] = r /\ \A q \in Procs \ {p} : proc'[q] = proc[q]
      /\ InWriter(p) /\ Src(p) \in Sources
  BY WriterFacts DEF Unlock, Become, At, InWriter
<1>2. /\ r.pc \in {"idle", "annotate", "complete"}
      /\ r.pc = "complete" => r.src = Src(p) /\ proc[p].ok
      /\ r.ok => r.pc = "complete"
  BY WriterFacts DEF Resting, Fails, Locals, Src
<1>3. proc[p].ok => json[Src(p)] \cap md[Src(p)] # {}
  BY WriterFacts DEF WriterKnows, Unlock
<1>4. UNCHANGED <<spool, json, md>> /\ \A s \in Sources \ {Src(p)} : lock'[s] = lock[s]
  BY <1>1, WriterFacts DEF Unlock
<1>5. Exclusive'
  <2>1. ~InWriter(p)'
    BY <1>1, <1>2 DEF InWriter
  <2>2. \A q \in Procs \ {p} : InWriter(q)' = InWriter(q) /\ Src(q)' = Src(q)
    BY <1>1 DEF InWriter, Src
  <2> QED
    BY <2>1, <2>2 DEF DigestInv, Exclusive
<1>6. ASSUME NEW q \in Procs PROVE WriterKnows(q)'
  <2>1. CASE q = p
    BY <1>1, <1>2, <1>3, <1>4, <2>1 DEF WriterKnows, InWriter, At, Src
  <2>2. CASE q # p
    <3>1. WriterKnows(q) /\ LocalsOK(proc[q])
      BY WriterFacts
    <3>2. InWriter(q) => Src(q) # Src(p) /\ Src(q) \in Sources
      BY <1>1, <2>2, <3>1 DEF DigestInv, Exclusive, LocalsOK, AtSource, InWriter, Src
    <3> QED
      BY <1>1, <1>4, <2>2, <3>1, <3>2 DEF WriterKnows, InWriter, At, Src
  <2> QED
    BY <2>1, <2>2
<1>7. OneDigestPerSource' /\ DoneHasDigest'
  BY <1>4 DEF DigestInv, OneDigestPerSource, DoneHasDigest, IsIn
<1> QED
  BY <1>5, <1>6, <1>7 DEF DigestInv

LEMMA CompleteKeeps ==
  ASSUME DigestInv, Typed', NEW p \in Procs, Complete(p)
  PROVE  DigestInv'
<1>p. /\ proc[p] \in Locals /\ LocalsOK(proc[p]) /\ spool \in Files(JobFile) /\ WriterKnows(p)
      /\ proc \in [Procs -> Locals]
  BY DEF DigestInv, Typed, TypeOK, Files
<1>j. Job(p) \in Jobs /\ Src(p) = SourceOf[Job(p)]
  BY <1>p, RunnerAssumption DEF Complete, At, LocalsOK, AtJob, AtSource, Job, Src
<1>1. CASE MoveJob(Job(p), "leased", "done") /\ Become(p, NextJob(p))
  <2>1. /\ \A q \in Procs \ {p} : proc'[q] = proc[q]
        /\ proc'[p].pc \in {"recover", "lease"} /\ ~proc'[p].ok
    BY <1>1, <1>p DEF NextJob, Become, Locals
  <2>2. UNCHANGED <<lock, json, md>>
    BY DEF Complete, store
  <2>3. \A j \in Jobs \ {Job(p)} : spool'["done"][j] = spool["done"][j]
    BY <1>1, <1>p, <1>j DEF MoveJob, Files, QueueStates
  <2>4. json[SourceOf[Job(p)]] \cap md[SourceOf[Job(p)]] # {}
    BY <1>p, <1>j DEF WriterKnows, Complete
  <2>5. DoneHasDigest'
    BY <2>2, <2>3, <2>4 DEF DigestInv, DoneHasDigest, IsIn
  <2>6. ASSUME NEW q \in Procs PROVE WriterKnows(q)'
    BY <2>1, <2>2 DEF DigestInv, WriterKnows, InWriter, At, Src
  <2>7. Exclusive' /\ OneDigestPerSource'
    BY <2>1, <2>2 DEF DigestInv, Exclusive, OneDigestPerSource, InWriter, Src
  <2> QED
    BY <2>5, <2>6, <2>7 DEF DigestInv
<1>2. CASE Goto(p, "annotate") /\ UNCHANGED spool
  <2> DEFINE r == [proc[p] EXCEPT !.pc = "annotate"]
  <2>1. r.pc = "annotate"
    BY <1>p DEF Locals
  <2>2. Quiet(p)
    BY <1>2, <2>1, BecomeQuiet DEF Complete, Goto
  <2> QED
    BY <2>2, QuietStep
<1> QED
  BY <1>1, <1>2 DEF Complete

\* Enqueue, requeue, the clock and the revisions leave the processes and the
\* digests alone, and put nothing into done/.
LEMMA AroundKeeps ==
  ASSUME DigestInv, Typed', Around \/ UNCHANGED vars
  PROVE  DigestInv'
<1>s. spool \in Files(JobFile)
  BY DEF DigestInv, Typed, TypeOK, Files
<1>1. ASSUME NEW j \in Jobs, Enqueue(j) PROVE spool'["done"] = spool["done"]
  BY <1>1, <1>s, WriteKeepsDone DEF Enqueue, CreateJob, QueueStates
<1>2. ASSUME NEW j \in Jobs, BeginRequeue(j) \/ Requeue(j) PROVE spool'["done"] = spool["done"]
  BY <1>2, <1>s DEF BeginRequeue, Requeue, ClearFailed, RequeueFailed, WriteJob, MoveJob, Files,
                    QueueStates
<1>3. UNCHANGED <<proc, lock, json, md>> /\ spool'["done"] = spool["done"]
  BY <1>1, <1>2 DEF Around, Enqueue, BeginRequeue, Requeue, Tick, NewRevision, store, around, vars
<1>4. ASSUME NEW q \in Procs PROVE WriterKnows(q)'
  BY <1>3 DEF DigestInv, WriterKnows, InWriter, At, Src
<1>5. Exclusive' /\ OneDigestPerSource' /\ DoneHasDigest'
  BY <1>3 DEF DigestInv, Exclusive, OneDigestPerSource, DoneHasDigest, InWriter, Src, IsIn
<1> QED
  BY <1>4, <1>5 DEF DigestInv

LEMMA DigestInvNext == DigestInv /\ [Next]_vars => DigestInv'
<1> SUFFICES ASSUME DigestInv, [Next]_vars PROVE DigestInv'
  OBVIOUS
<1>t. Typed'
  BY TypedNext DEF DigestInv
<1>1. CASE Around \/ UNCHANGED vars
  BY <1>1, <1>t, AroundKeeps
<1>2. ASSUME NEW p \in Procs,
             \/ StartRun(p)
             \/ \E s \in Sources, d \in Digests : StartManual(p, s, d)
             \/ Crash(p)
      PROVE  DigestInv'
  BY <1>2, <1>t, EdgeQuiet, QuietStep
<1>3. ASSUME NEW p \in Procs, Advance(p) PROVE DigestInv'
  <2>1. CASE RecoverStep(p)
    BY <2>1, <1>t, RecoverQuiet, QuietStep
  <2>2. CASE JobStep(p)
    BY <2>2, <1>t, JobQuiet, CompleteKeeps, QuietStep
  <2>3. CASE WriterStep(p)
    BY <2>3, <1>t, LockKeeps, LookKeeps, WriteJsonKeeps, WriteMdKeeps, UnlockKeeps,
       EdgeQuiet, QuietStep DEF WriterStep
  <2> QED
    BY <1>3, <2>1, <2>2, <2>3 DEF Advance
<1> QED
  BY <1>1, <1>2, <1>3 DEF Next

\* Whatever number of runs and manual commands work on a source, and whenever
\* they die, the source never has two digests, nor Markdown without JSON.
THEOREM OneDigest == Spec => []OneDigestPerSource
<1>1. DigestInv => OneDigestPerSource
  BY DEF DigestInv
<1> QED
  BY <1>1, DigestInvInit, DigestInvNext, PTL DEF Spec

\* A job that reached done/ left a digest of its source, JSON and Markdown, and
\* that digest is still there.
THEOREM DoneMeansDigested == Spec => []DoneHasDigest
<1>1. DigestInv => DoneHasDigest
  BY DEF DigestInv
<1> QED
  BY <1>1, DigestInvInit, DigestInvNext, PTL DEF Spec

----------------------------------------------------------------------------
(* Locks leak only by a death *)

\* A step of a process that is outside the writer, and no death
LEMMA OutsideKeepsLocks ==
  ASSUME LockOnlyLeaksByCrash, NEW p \in Procs, ~InWriter(p),
         \A q \in Procs \ {p} : proc'[q] = proc[q], UNCHANGED <<lock, crashes>>
  PROVE  LockOnlyLeaksByCrash'
  BY DEF LockOnlyLeaksByCrash, InWriter, Src

\* A step inside the writer that keeps the lock keeps its holder there.
LEMMA InsideKeepsLocks ==
  ASSUME LockOnlyLeaksByCrash, NEW p \in Procs,
         proc'[p].pc \in {"look", "json", "md", "unlock"}, proc'[p].src = Src(p),
         \A q \in Procs \ {p} : proc'[q] = proc[q],
         \A s \in Sources \ {Src(p)} : lock'[s] = lock[s],
         UNCHANGED crashes
  PROVE  LockOnlyLeaksByCrash'
  BY DEF LockOnlyLeaksByCrash, InWriter, Src

LEMMA JobStepsOutside ==
  ASSUME DigestInv, NEW p \in Procs, RecoverStep(p) \/ JobStep(p)
  PROVE  ~InWriter(p) /\ UNCHANGED <<lock, crashes>>
         /\ \A q \in Procs \ {p} : proc'[q] = proc[q]
<1>p. proc \in [Procs -> Locals]
  BY DEF DigestInv, Typed, TypeOK
<1>1. CASE RecoverStep(p)
  BY <1>1, <1>p DEF RecoverStep, Recover, RecoverDone, ClearRead, ClearWrite, MoveBack,
     AnnotateRead, AnnotateWrite, MoveToFailed, At, InWriter, Goto, Exit, Become, store, around
<1>2. CASE JobStep(p)
  BY <1>2, <1>p DEF JobStep, LeaseList, Claim, NothingPending, LeaseRead, LeaseWrite, Check,
     Generate, GenerateFails, Complete, At, InWriter, Goto, Exit, Become, store, around
<1> QED
  BY <1>1, <1>2

LEMMA WriterKeepsLocks ==
  ASSUME DigestInv, LockOnlyLeaksByCrash, NEW p \in Procs, WriterStep(p)
  PROVE  LockOnlyLeaksByCrash'
<1>p. UNCHANGED crashes
  BY DEF WriterStep, Lock, Locked, Look, WriteJson, WriteMd, WriteFails, Unlock, around
<1>q. \A q \in Procs \ {p} : proc'[q] = proc[q]
  BY WriterFacts DEF WriterStep, Lock, Locked, Look, WriteJson, WriteMd, WriteFails, Unlock,
     Goto, Become
<1>1. CASE Lock(p)
  <2>1. proc'[p].pc = "look" /\ proc'[p].src = Src(p)
    BY <1>1, WriterFacts DEF Lock, Goto, Become, Src, Locals
  <2>2. \A s \in Sources \ {Src(p)} : lock'[s] = lock[s]
    BY <1>1, WriterFacts DEF Lock
  <2> QED
    BY <1>p, <1>q, <2>1, <2>2, InsideKeepsLocks
<1>2. CASE Locked(p)
  BY <1>2, <1>p, <1>q, OutsideKeepsLocks DEF Locked, At, InWriter, store
<1>3. CASE Look(p) \/ WriteJson(p) \/ WriteMd(p) \/ WriteFails(p)
  <2>1. proc'[p].pc \in {"json", "md", "unlock"} /\ proc'[p].src = Src(p)
    <3>1. CASE Look(p)
      BY <3>1, WriterFacts DEF Look, Goto, Become, Src, Locals
    <3>2. CASE WriteJson(p)
      BY <3>2, WriterFacts DEF WriteJson, Goto, Become, Src, Locals
    <3>3. CASE WriteMd(p)
      BY <3>3, WriterFacts DEF WriteMd, Become, Src, Locals
    <3>4. CASE WriteFails(p)
      BY <3>4, WriterFacts DEF WriteFails, Goto, Become, Src, Locals
    <3> QED
      BY <1>3, <3>1, <3>2, <3>3, <3>4
  <2>2. UNCHANGED lock
    BY <1>3 DEF Look, WriteJson, WriteMd, WriteFails, store
  <2> QED
    BY <1>p, <1>q, <2>1, <2>2, InsideKeepsLocks
<1>4. CASE Unlock(p)
  <2>1. Src(p) \in Sources
    BY <1>4, WriterFacts DEF Unlock, At
  <2>2. ~lock'[Src(p)] /\ \A s \in Sources \ {Src(p)} : lock'[s] = lock[s]
    BY <1>4, <2>1, WriterFacts DEF Unlock
  <2> QED
    BY <1>p, <1>q, <2>2 DEF LockOnlyLeaksByCrash, InWriter, Src
<1> QED
  BY <1>1, <1>2, <1>3, <1>4 DEF WriterStep

LEMMA LocksNext ==
  DigestInv /\ LockOnlyLeaksByCrash /\ [Next]_vars => LockOnlyLeaksByCrash'
<1> SUFFICES ASSUME DigestInv, LockOnlyLeaksByCrash, [Next]_vars PROVE LockOnlyLeaksByCrash'
  OBVIOUS
<1>p. proc \in [Procs -> Locals] /\ crashes \in Nat
  BY DEF DigestInv, Typed, TypeOK
<1>1. CASE Around \/ UNCHANGED vars
  BY <1>1 DEF LockOnlyLeaksByCrash, InWriter, Src, Around, Enqueue, BeginRequeue, Requeue, Tick, NewRevision,
     store, around, vars
<1>2. ASSUME NEW p \in Procs,
             StartRun(p) \/ \E s \in Sources, d \in Digests : StartManual(p, s, d)
      PROVE  LockOnlyLeaksByCrash'
  <2>1. ~InWriter(p) /\ UNCHANGED <<lock, crashes>>
        /\ \A q \in Procs \ {p} : proc'[q] = proc[q]
    BY <1>2, <1>p DEF StartRun, StartManual, At, InWriter, Become, store, around
  <2> QED
    BY <2>1, OutsideKeepsLocks
<1>3. ASSUME NEW p \in Procs, Crash(p) PROVE LockOnlyLeaksByCrash'
  BY <1>3, <1>p DEF Crash, LockOnlyLeaksByCrash
<1>4. ASSUME NEW p \in Procs, Advance(p) PROVE LockOnlyLeaksByCrash'
  BY <1>4, JobStepsOutside, OutsideKeepsLocks, WriterKeepsLocks DEF Advance
<1> QED
  BY <1>1, <1>2, <1>3, <1>4 DEF Next

\* As long as nobody dies, a lock directory means that a process is inside the
\* writer for its source: every way out removes it, and nobody else's.
THEOREM LocksHeld == Spec => []LockOnlyLeaksByCrash
<1>1. Init => LockOnlyLeaksByCrash
  BY DEF Init, LockOnlyLeaksByCrash
<1> QED
  BY <1>1, DigestInvInit, DigestInvNext, LocksNext, PTL DEF Spec

----------------------------------------------------------------------------
(* No job file vanishes *)

Present(j) == \E d \in QueueStates : IsIn(j, d)

LEMMA WriteKeepsFiles ==
  ASSUME spool \in Files(JobFile), NEW i \in Jobs, NEW d \in QueueStates, NEW c \in JobFile,
         WriteJob(i, d, c), NEW j \in Jobs, Present(j)
  PROVE  Present(j)'
<1>1. \A e \in QueueStates : spool'[e][j] = spool[e][j] \/ spool'[e][j] = c
  BY DEF WriteJob, Files
<1> QED
  BY <1>1, FileAssumption DEF Present, IsIn

LEMMA MoveKeepsFiles ==
  ASSUME spool \in Files(JobFile), NEW i \in Jobs, NEW d \in QueueStates, NEW e \in QueueStates,
         d # e, MoveJob(i, d, e), NEW j \in Jobs, Present(j)
  PROVE  Present(j)'
<1>1. CASE j = i
  <2>1. spool'[e][j] = spool[d][j] /\ spool[d][j] # NoFile
    BY <1>1 DEF MoveJob, Files, IsIn
  <2> QED
    BY <2>1 DEF Present, IsIn
<1>2. CASE j # i
  <2>1. \A x \in QueueStates : spool'[x][j] = spool[x][j]
    BY <1>2 DEF MoveJob, Files
  <2> QED
    BY <2>1 DEF Present, IsIn
<1> QED
  BY <1>1, <1>2

LEMMA RequeueKeepsFiles ==
  ASSUME spool \in Files(JobFile), NEW i \in Jobs, ClearFailed(i) \/ RequeueFailed(i),
         NEW j \in Jobs, Present(j)
  PROVE  Present(j)'
<1>1. CASE ClearFailed(i)
  <2>1. [spool["failed"][i] EXCEPT !.expires = NoLease] \in JobFile /\ "failed" \in QueueStates
    BY <1>1, ClearEffect, LeaseTaken DEF QueueStates
  <2> QED
    BY <1>1, <2>1, WriteKeepsFiles DEF ClearFailed
<1>2. CASE RequeueFailed(i)
  BY <1>2, MoveKeepsFiles DEF RequeueFailed, QueueStates
<1> QED
  BY <1>1, <1>2

LEMMA StepKeepsFiles ==
  ASSUME Typed, [Next]_vars, NEW j \in Jobs, Present(j)
  PROVE  Present(j)'
<1>s. spool \in Files(JobFile) /\ rev \in 0..MaxRev /\ clock \in Nat
  BY DEF Typed, TypeOK, Files
<1>u. UNCHANGED spool => Present(j)'
  BY DEF Present, IsIn
<1>1. ASSUME NEW i \in Jobs, Enqueue(i) PROVE Present(j)'
  <2>1. NewJob(rev) \in JobFile
    BY <1>s DEF NewJob, JobFile
  <2> QED
    BY <1>1, <1>s, <2>1, WriteKeepsFiles DEF Enqueue, CreateJob, QueueStates
<1>2. ASSUME NEW i \in Jobs, BeginRequeue(i) \/ Requeue(i) PROVE Present(j)'
  BY <1>2, <1>s, RequeueKeepsFiles DEF BeginRequeue, Requeue
<1>3. ASSUME NEW p \in Procs, Advance(p) PROVE Present(j)'
  <2>p. LocalsOK(proc[p]) /\ proc[p] \in Locals
    BY DEF Typed, TypeOK
  <2>1. CASE ClearWrite(p)
    <3>1. [proc[p].copy EXCEPT !.expires = NoLease] \in JobFile /\ Job(p) \in Jobs
      BY <2>1, <2>p DEF ClearWrite, At, Job, LocalsOK, AtJob, JobFile
    <3> QED
      BY <2>1, <3>1, <1>s, WriteKeepsFiles DEF ClearWrite, QueueStates
  <2>2. CASE AnnotateWrite(p)
    <3>1. proc[p].copy \in JobFile /\ Job(p) \in Jobs
      BY <2>2, <2>p DEF AnnotateWrite, At, Job, LocalsOK, AtJob
    <3> QED
      BY <2>2, <3>1, <1>s, WriteKeepsFiles DEF AnnotateWrite, QueueStates
  <2>3. CASE LeaseWrite(p)
    <3>1. proc[p].copy \in JobFile /\ Job(p) \in Jobs
      BY <2>3, <2>p DEF LeaseWrite, At, Job, LocalsOK, AtJob
    <3>2. proc[p].copy.attempts + 1 \in Nat /\ clock + LeaseTime \in Nat
      BY <1>s, <3>1, RunnerAssumption DEF JobFile
    <3>3. [proc[p].copy EXCEPT !.attempts = proc[p].copy.attempts + 1,
                               !.expires = clock + LeaseTime] \in JobFile
      BY <3>1, <3>2 DEF JobFile
    <3> QED
      BY <2>3, <3>1, <3>3, <1>s, WriteKeepsFiles DEF LeaseWrite, QueueStates
  <2>4. CASE MoveBack(p) \/ MoveToFailed(p) \/ Complete(p)
    <3>1. Job(p) \in Jobs
      BY <2>4, <2>p DEF MoveBack, MoveToFailed, Complete, At, Job, LocalsOK, AtJob
    <3> QED
      BY <2>4, <3>1, <1>s, <1>u, MoveKeepsFiles DEF MoveBack, MoveToFailed, Complete, QueueStates
  <2>5. CASE Claim(p)
    <3>1. PICK i \in proc[p].todo : MoveJob(i, "pending", "leased") \/ UNCHANGED spool
      BY <2>5 DEF Claim
    <3>2. i \in Jobs
      BY <2>p DEF Locals
    <3> QED
      BY <3>1, <3>2, <1>s, <1>u, MoveKeepsFiles DEF QueueStates
  <2>6. CASE \/ Recover(p) \/ RecoverDone(p) \/ ClearRead(p) \/ AnnotateRead(p)
            \/ LeaseList(p) \/ NothingPending(p) \/ LeaseRead(p) \/ Check(p)
            \/ (\E d \in Digests : Generate(p, d)) \/ GenerateFails(p) \/ WriterStep(p)
    BY <2>6, <1>u DEF Recover, RecoverDone, ClearRead, AnnotateRead, LeaseList, NothingPending,
       LeaseRead, Check, Generate, GenerateFails, WriterStep, Lock, Locked, Look, WriteJson,
       WriteMd, WriteFails, Unlock
  <2> QED
    BY <1>3, <2>1, <2>2, <2>3, <2>4, <2>5, <2>6 DEF Advance, RecoverStep, JobStep
<1>4. CASE UNCHANGED spool
  BY <1>4, <1>u
<1> QED
  BY <1>1, <1>2, <1>3, <1>4 DEF Next, Around, Tick, NewRevision, StartRun, StartManual, Crash, vars

\* Claims, completions, failures, recoveries and requeues, interleaved in any
\* way and cut off anywhere, never leave an enqueued job without a file.
THEOREM NeverLost == Spec => JobNeverLost
<1>1. Typed /\ [Next]_vars =>
        [\A j \in Jobs : (\E d \in QueueStates : IsIn(j, d)) =>
           \E d \in QueueStates : IsIn(j, d)']_vars
  BY StepKeepsFiles DEF Present
<1> QED
  BY <1>1, TypedInit, TypedNext, PTL DEF Spec, JobNeverLost

=============================================================================
