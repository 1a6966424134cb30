-------------------------- MODULE QueueLifeProofs --------------------------
(***************************************************************************)
(* One run of the queue at a time, which may die anywhere, next to ingest, *)
(* to requeues by hand and to any number of commands that digest a source  *)
(* by hand: a job has one file, is leased a bounded number of times, stays *)
(* finished or failed until someone requeues it, and lives the life that   *)
(* JobLifecycle describes.                                                 *)
(***************************************************************************)
EXTENDS DigestQueueProofs

\* What the command knows of the job it works on
AtWork(r) ==
  r.job \in Jobs =>
    /\ IsIn(r.job, "leased")
    /\ r.pc \in {"clearing", "annotating", "stamp"} => r.copy = spool["leased"][r.job]
    /\ requeues = 0 /\ r.pc \in {"clear", "clearing", "requeue", "claimed", "stamp"} =>
         spool["leased"][r.job].attempts < MaxAttempts
\* A job that waits may be leased once more.
Counted == requeues = 0 => \A j \in Jobs :
  /\ IsIn(j, "pending") => spool["pending"][j].attempts < MaxAttempts
  /\ \A d \in QueueStates : IsIn(j, d) => spool[d][j].attempts <= MaxAttempts
Alone(o) == OnePlace /\ Counted /\ AtWork(proc[o])
\* The other commands work on no job.
ByHand(r) == r.job = NoJob /\ r.pc \in {"idle", "lock", "look", "json", "md", "unlock"}
OthersByHand(o) == \A p \in Procs \ {o} : ByHand(proc[p])

LEMMA AloneInit == ASSUME NEW o \in Procs, Init PROVE Alone(o)
<1>1. proc[o].job = NoJob /\ \A d \in QueueStates, j \in Jobs : ~IsIn(j, d)
  BY DEF Init, SpoolInit, IsIn, Resting
<1>2. OnePlace /\ Counted
  BY <1>1 DEF OnePlace, Counted, QueueStates
<1> QED
  BY <1>1, <1>2, RunnerAssumption DEF Alone, AtWork

-----------------------------------------------------------------------------
(* Steps that leave the job files alone *)

Still == UNCHANGED <<spool, requeues>>
LEMMA StillKeeps ==
  ASSUME NEW o \in Procs, Alone(o), Still, NEW r, proc'[o] = r, AtWork(r)
  PROVE  Alone(o)'
  BY DEF Alone, Still, OnePlace, Counted, AtWork, IsIn

\* Points at which nothing more is known than that the job is leased
LEMMA KnowsNoMore ==
  ASSUME NEW o \in Procs, Alone(o), NEW r, r.job \in {proc[o].job, NoJob},
         r.pc \notin {"clear", "clearing", "requeue", "claimed", "stamp", "annotating"}
  PROVE  AtWork(r)
  BY RunnerAssumption DEF Alone, AtWork

LEMMA RecoverStill ==
  ASSUME NEW o \in Procs, Typed, Alone(o), Recover(o)
  PROVE  Alone(o)'
<1> DEFINE q == proc[o]
<1>q. q \in Locals /\ proc \in [Procs -> Locals] /\ Still
  BY DEF Typed, TypeOK, Recover, around, Still
<1>1. PICK j \in q.todo :
        LET content == spool["leased"][j]
            rest    == q.todo \ {j}
            due     == content.expires # NoLease /\ content.expires <= q.now
        IN \/ content = NoFile /\ Exit(o)
           \/ content # NoFile /\ ~due /\ Become(o, [q EXCEPT !.todo = rest])
           \/ /\ content # NoFile /\ due
              /\ Become(o, [q EXCEPT !.todo = rest, !.job = j,
                   !.pc = IF content.attempts < MaxAttempts THEN "clear" ELSE "annotate"])
  BY DEF Recover
<1>2. CASE Exit(o)
  <2>1. proc'[o] = Resting /\ Resting.job = NoJob /\ Resting.pc = "idle"
    BY <1>2, <1>q DEF Exit, Become, Resting
  <2> QED
    BY <1>q, <2>1, StillKeeps, KnowsNoMore
<1>3. CASE Become(o, [q EXCEPT !.todo = q.todo \ {j}])
  <2> DEFINE r == [q EXCEPT !.todo = q.todo \ {j}]
  <2>1. r.job = q.job /\ r.pc = "recover" /\ proc'[o] = r
    BY <1>3, <1>q DEF Become, Locals, Recover, At
  <2> HIDE DEF r
  <2> QED
    BY <1>q, <2>1, StillKeeps, KnowsNoMore
<1>4. CASE /\ spool["leased"][j] # NoFile
           /\ Become(o, [q EXCEPT !.todo = q.todo \ {j}, !.job = j,
                !.pc = IF spool["leased"][j].attempts < MaxAttempts THEN "clear" ELSE "annotate"])
  <2> DEFINE r == [q EXCEPT !.todo = q.todo \ {j}, !.job = j,
                     !.pc = IF spool["leased"][j].attempts < MaxAttempts THEN "clear" ELSE "annotate"]
  <2>1. /\ r.job = j /\ proc'[o] = r
        /\ r.pc = IF spool["leased"][j].attempts < MaxAttempts THEN "clear" ELSE "annotate"
    BY <1>4, <1>q DEF Become, Locals
  <2> HIDE DEF r
  <2>2. AtWork(r)
    BY <1>4, <2>1 DEF AtWork, IsIn
  <2> QED
    BY <1>q, <2>1, <2>2, StillKeeps
<1> QED
  BY <1>1, <1>2, <1>3, <1>4

\* The command reads the file of its job and goes on knowing its content.
LEMMA ReadStill ==
  ASSUME NEW o \in Procs, Typed, Alone(o), ClearRead(o) \/ AnnotateRead(o) \/ LeaseRead(o)
  PROVE  Alone(o)'
<1> DEFINE q == proc[o]
<1>q. /\ q \in Locals /\ proc \in [Procs -> Locals] /\ Still
      /\ q.pc \in AtJob /\ q.job \in Jobs
  BY DEF Typed, TypeOK, LocalsOK, AtJob, At, ClearRead, AnnotateRead, LeaseRead, around, Still
<1>1. IsIn(q.job, "leased") /\ AtWork(q)
  BY <1>q DEF Alone, AtWork
<1>2. PICK pc : /\ Become(o, [q EXCEPT !.pc = pc, !.copy = spool["leased"][q.job]])
                /\ \/ q.pc = "clear" /\ pc = "clearing"
                   \/ pc = "annotating"
                   \/ q.pc = "claimed" /\ pc = "stamp"
  BY <1>1 DEF ClearRead, AnnotateRead, LeaseRead, Job, At
<1> DEFINE r == [q EXCEPT !.pc = pc, !.copy = spool["leased"][q.job]]
<1>3. r.job = q.job /\ r.pc = pc /\ r.copy = spool["leased"][q.job] /\ proc'[o] = r
  BY <1>q, <1>2 DEF Become, Locals
<1> HIDE DEF r
<1>4. AtWork(r)
  BY <1>1, <1>2, <1>3 DEF AtWork
<1> QED
  BY <1>q, <1>3, <1>4, StillKeeps

\* Every other step that leaves the job files alone
LEMMA OtherStill ==
  ASSUME NEW o \in Procs, Typed, Alone(o), Still,
         \/ UNCHANGED proc
         \/ Exit(o) \/ StartRun(o) \/ (\E s \in Sources, d \in Digests : StartManual(o, s, d))
         \/ RecoverDone(o) \/ LeaseList(o) \/ NothingPending(o) \/ Check(o)
         \/ (\E d \in Digests : Generate(o, d)) \/ GenerateFails(o) \/ WriterStep(o)
         \/ Goto(o, "annotate")
         \/ \E j : Become(o, [proc[o] EXCEPT !.todo = j]) /\ At(o, "claim")
  PROVE  Alone(o)'
<1> DEFINE q == proc[o]
<1>q. q \in Locals /\ proc \in [Procs -> Locals]
  BY DEF Typed, TypeOK
<1>1. CASE UNCHANGED proc
  BY <1>1 DEF Alone, Still, OnePlace, Counted, AtWork, IsIn
<1>2. CASE Exit(o)
  <2>1. proc'[o] = Resting /\ Resting.job = NoJob /\ Resting.pc = "idle"
    BY <1>2, <1>q DEF Exit, Become, Resting
  <2> QED
    BY <2>1, StillKeeps, KnowsNoMore
<1>3. ASSUME proc'[o].job \in {q.job, NoJob},
             proc'[o].pc \notin {"clear", "clearing", "requeue", "claimed", "stamp", "annotating"}
      PROVE  Alone(o)'
  <2>1. PICK r : r = proc'[o]
    OBVIOUS
  <2> QED
    BY <1>3, <2>1, StillKeeps, KnowsNoMore
<1>g. ASSUME NEW pc, Goto(o, pc),
             pc \notin {"clear", "clearing", "requeue", "claimed", "stamp", "annotating"}
      PROVE  Alone(o)'
  BY <1>3, <1>g, <1>q DEF Goto, Become, Locals
<1>4. CASE StartRun(o)
  BY <1>3, <1>4, <1>q DEF StartRun, Become, Resting
<1>5. ASSUME NEW s \in Sources, NEW d \in Digests, StartManual(o, s, d) PROVE Alone(o)'
  BY <1>3, <1>5, <1>q DEF StartManual, Become, Resting
<1>6. CASE RecoverDone(o) \/ Check(o) \/ (\E d \in Digests : Generate(o, d)) \/ GenerateFails(o)
           \/ Goto(o, "annotate")
  <2>1. CASE \E d \in Digests : Generate(o, d)
    <3>1. PICK d \in Digests : Generate(o, d)
      BY <2>1
    <3>2. proc'[o] = [q EXCEPT !.pc = "lock", !.digest = d]
      BY <1>q, <3>1 DEF Generate, Become
    <3>3. proc'[o].job = q.job /\ proc'[o].pc = "lock"
      BY <1>q, <3>2 DEF Locals
    <3> QED
      BY <1>3, <3>3
  <2>2. CASE RecoverDone(o) \/ Check(o) \/ GenerateFails(o) \/ Goto(o, "annotate")
    BY <1>g, <2>2 DEF RecoverDone, Check, GenerateFails
  <2> QED
    BY <1>6, <2>1, <2>2
<1>7. CASE LeaseList(o) \/ NothingPending(o)
  <2>1. CASE ~Exit(o)
    <3>1. Become(o, [q EXCEPT !.pc = "claim", !.left = q.left - 1, !.todo = Listed("pending")])
      BY <1>7, <2>1 DEF LeaseList, NothingPending
    <3>2. proc'[o].job = q.job /\ proc'[o].pc = "claim"
      BY <1>q, <3>1 DEF Become, Locals
    <3> QED
      BY <1>3, <3>2
  <2> QED
    BY <1>2, <2>1
<1>8. CASE WriterStep(o)
  <2>1. CASE Locked(o)
    BY <1>3, <2>1, <1>q DEF Locked, Fails, Become, Locals, Resting, Job
  <2>2. CASE Unlock(o)
    BY <1>3, <2>2, <1>q DEF Unlock, Fails, Become, Locals, Resting, Job
  <2>3. CASE Lock(o) \/ Look(o) \/ WriteJson(o) \/ WriteMd(o) \/ WriteFails(o)
    <3>1. CASE WriteMd(o)
      BY <1>3, <1>q, <3>1 DEF WriteMd, Become, Locals
    <3>2. CASE ~WriteMd(o)
      BY <1>g, <2>3, <3>2 DEF Lock, Look, WriteJson, WriteFails
    <3> QED
      BY <3>1, <3>2
  <2> QED
    BY <1>8, <2>1, <2>2, <2>3 DEF WriterStep
<1>9. ASSUME NEW j, Become(o, [q EXCEPT !.todo = j]), At(o, "claim") PROVE Alone(o)'
  BY <1>3, <1>9, <1>q DEF Become, Locals, At
<1> QED
  BY <1>1, <1>2, <1>4, <1>5, <1>6, <1>7, <1>8, <1>9

-----------------------------------------------------------------------------
(* Steps that write or move a job file *)

LEMMA FilesTyped ==
  ASSUME Typed
  PROVE  /\ spool \in Files(JobFile) /\ QueueStates = {"pending", "leased", "done", "failed"}
         /\ rev \in 0..MaxRev /\ clock \in Nat /\ requeues \in Nat /\ NoFile \notin JobFile
  BY FileAssumption DEF Typed, TypeOK, Files, QueueStates

LEMMA RewriteKeeps ==
  ASSUME NEW o \in Procs, Typed, Alone(o), UNCHANGED requeues,
         NEW j \in Jobs, IsIn(j, "leased"), NEW c \in JobFile, WriteJob(j, "leased", c),
         NEW r, proc'[o] = r, r.job = j,
         r.pc \notin {"clear", "clearing", "annotating", "claimed", "stamp"},
         requeues = 0 => /\ c.attempts <= MaxAttempts
                         /\ r.pc = "requeue" => c.attempts < MaxAttempts
  PROVE  Alone(o)'
<1>1. /\ \A e \in QueueStates, i \in Jobs :
           spool'[e][i] = IF e = "leased" /\ i = j THEN c ELSE spool[e][i]
      /\ "leased" \in QueueStates /\ "pending" \in QueueStates /\ c # NoFile
  BY FilesTyped, WriteEffect
<1>2. \A e \in QueueStates, i \in Jobs : IsIn(i, e)' <=> IsIn(i, e)
  BY <1>1 DEF IsIn
<1>3. OnePlace'
  BY <1>2 DEF Alone, OnePlace
<1>4. Counted'
  BY <1>1, <1>2 DEF Alone, Counted
<1>5. AtWork(proc[o])'
  BY <1>1, <1>2 DEF AtWork
<1> QED
  BY <1>3, <1>4, <1>5 DEF Alone

LEMMA MoveKeeps ==
  ASSUME NEW o \in Procs, Typed, Alone(o), UNCHANGED requeues,
         NEW j \in Jobs, NEW d \in QueueStates, NEW to \in QueueStates, d # to, MoveJob(j, d, to),
         NEW r, proc'[o] = r,
         \/ d = "pending" /\ to = "leased" /\ r.job = j /\ r.pc = "claimed"
         \/ r.job = NoJob /\ (to = "pending" /\ requeues = 0 => spool[d][j].attempts < MaxAttempts)
  PROVE  Alone(o)'
<1>1. /\ \A e \in QueueStates, i \in Jobs :
           spool'[e][i] = IF i # j THEN spool[e][i]
                          ELSE IF e = to THEN spool[d][j]
                          ELSE IF e = d THEN NoFile ELSE spool[e][i]
      /\ "leased" \in QueueStates /\ "pending" \in QueueStates
  BY FilesTyped, MoveEffect
<1>2. IsIn(j, d) /\ spool[d][j] # NoFile
  BY DEF MoveJob, IsIn
<1>3. \A e \in QueueStates : e # d => spool[e][j] = NoFile
  BY <1>2 DEF Alone, OnePlace, IsIn
<1>4. \A e \in QueueStates, i \in Jobs : IsIn(i, e)' <=> IF i = j THEN e = to ELSE IsIn(i, e)
  BY <1>1, <1>2, <1>3 DEF IsIn
<1>5. OnePlace'
  BY <1>4 DEF Alone, OnePlace
<1>6. Counted'
  BY <1>1, <1>2, <1>4 DEF Alone, Counted
<1>7. AtWork(proc[o])'
  BY <1>1, <1>2, <1>4, RunnerAssumption DEF AtWork, Alone, Counted
<1> QED
  BY <1>5, <1>6, <1>7 DEF Alone

LEMMA CreateKeeps ==
  ASSUME NEW o \in Procs, Typed, Alone(o), NEW j \in Jobs, Enqueue(j)
  PROVE  Alone(o)'
<1>1. /\ UNCHANGED <<requeues, proc>> /\ \A d \in QueueStates : ~IsIn(j, d)
      /\ WriteJob(j, "pending", NewJob(rev))
  BY DEF Enqueue, CreateJob, around
<1>2. NewJob(rev) \in JobFile /\ NewJob(rev).attempts = 0
  BY FilesTyped DEF NewJob, JobFile
<1>3. /\ \A e \in QueueStates, i \in Jobs :
           spool'[e][i] = IF e = "pending" /\ i = j THEN NewJob(rev) ELSE spool[e][i]
      /\ "leased" \in QueueStates /\ "pending" \in QueueStates /\ NewJob(rev) # NoFile
  BY <1>1, <1>2, FilesTyped, WriteEffect
<1>4. \A e \in QueueStates, i \in Jobs : IsIn(i, e)' <=> IF i = j THEN e = "pending" ELSE IsIn(i, e)
  BY <1>1, <1>3 DEF IsIn
<1>5. OnePlace'
  BY <1>4 DEF Alone, OnePlace
<1>6. Counted'
  BY <1>1, <1>2, <1>3, <1>4, RunnerAssumption DEF Alone, Counted
<1>7. AtWork(proc[o])'
  BY <1>1, <1>3, <1>4 DEF AtWork, Alone
<1> QED
  BY <1>5, <1>6, <1>7 DEF Alone

LEMMA ClearKeeps ==
  ASSUME NEW o \in Procs, Typed, Alone(o), NEW j \in Jobs, BeginRequeue(j)
  PROVE  Alone(o)'
<1>1. UNCHANGED <<proc, requeues>> /\ ClearFailed(j)
  BY DEF BeginRequeue, around
<1> DEFINE c == [spool["failed"][j] EXCEPT !.expires = NoLease]
<1>2. /\ spool["failed"][j] \in JobFile /\ IsIn(j, "failed")
      /\ \A e \in QueueStates, i \in Jobs :
           spool'[e][i] = IF e = "failed" /\ i = j THEN c ELSE spool[e][i]
      /\ "failed" \in QueueStates /\ "leased" \in QueueStates /\ "pending" \in QueueStates
  BY <1>1, FilesTyped, ClearEffect, LeaseTaken
<1>3. c \in JobFile /\ c.attempts = spool["failed"][j].attempts /\ c # NoFile
  BY <1>2, FilesTyped DEF JobFile
<1> HIDE DEF c
<1>4. \A e \in QueueStates, i \in Jobs : IsIn(i, e)' <=> IsIn(i, e)
  BY <1>2, <1>3 DEF IsIn
<1>5. OnePlace'
  BY <1>4 DEF Alone, OnePlace
<1>6. Counted'
  BY <1>1, <1>2, <1>3, <1>4 DEF Alone, Counted
<1>7. AtWork(proc[o])'
  BY <1>1, <1>2, <1>4 DEF Alone, AtWork
<1> QED
  BY <1>5, <1>6, <1>7 DEF Alone

LEMMA RequeueKeeps ==
  ASSUME NEW o \in Procs, Typed, Alone(o), NEW j \in Jobs, Requeue(j)
  PROVE  Alone(o)'
<1>1. UNCHANGED proc /\ requeues' = requeues + 1 /\ RequeueFailed(j) /\ IsIn(j, "failed")
  BY DEF Requeue, RequeueFailed
<1>2. /\ \A e \in QueueStates, i \in Jobs :
           i # j \/ e \notin {"failed", "pending"} => spool'[e][i] = spool[e][i]
      /\ spool'["failed"][j] = NoFile
  BY <1>1, FilesTyped, RequeueEffect
<1>3. requeues' # 0 /\ QueueStates = {"pending", "leased", "done", "failed"}
  BY <1>1, FilesTyped
<1>4. \A e \in QueueStates : e # "failed" => ~IsIn(j, e)
  BY <1>1, <1>3 DEF Alone, OnePlace
<1>5. \A e \in QueueStates, i \in Jobs :
        IsIn(i, e)' => IF i = j THEN e = "pending" ELSE IsIn(i, e)
  BY <1>2, <1>3, <1>4 DEF IsIn
<1>6. OnePlace'
  BY <1>5 DEF Alone, OnePlace
<1>7. Counted'
  BY <1>3 DEF Counted
<1>8. AtWork(proc[o])'
  <2>1. proc[o].job \in Jobs => proc[o].job # j /\ IsIn(proc[o].job, "leased")
    BY <1>3, <1>4 DEF Alone, AtWork
  <2> QED
    BY <1>1, <1>2, <1>3, <2>1 DEF Alone, AtWork, IsIn
<1> QED
  BY <1>6, <1>7, <1>8 DEF Alone

\* The three rewrites of a leased file and the four moves of the command
LEMMA FileStepKeeps ==
  ASSUME NEW o \in Procs, Typed, Alone(o),
         \/ ClearWrite(o) \/ AnnotateWrite(o) \/ LeaseWrite(o)
         \/ MoveBack(o) \/ MoveToFailed(o) \/ Complete(o) \/ Claim(o)
  PROVE  Alone(o)'
<1> DEFINE q == proc[o]
<1>q. /\ q \in Locals /\ LocalsOK(q) /\ proc \in [Procs -> Locals] /\ UNCHANGED requeues
      /\ AtWork(q) /\ Counted
  BY DEF Typed, TypeOK, Alone, around, ClearWrite, AnnotateWrite, LeaseWrite, MoveBack,
     MoveToFailed, Complete, Claim
<1>s. /\ "leased" \in QueueStates /\ "pending" \in QueueStates /\ "failed" \in QueueStates
      /\ "done" \in QueueStates /\ clock \in Nat
  BY FilesTyped
<1>l. ASSUME q.job \in Jobs, q.pc \in {"clearing", "annotating", "stamp"}
      PROVE  /\ IsIn(q.job, "leased") /\ q.copy \in JobFile
             /\ requeues = 0 => q.copy.attempts <= MaxAttempts
             /\ requeues = 0 /\ q.pc # "annotating" => q.copy.attempts < MaxAttempts
  BY <1>l, <1>q, <1>s DEF AtWork, Counted, LocalsOK
<1>1. CASE ClearWrite(o)
  <2>1. q.job \in Jobs /\ q.pc = "clearing"
    BY <1>1, <1>q DEF ClearWrite, At, LocalsOK, AtJob
  <2>2. PICK c : /\ c = [q.copy EXCEPT !.expires = NoLease] /\ WriteJob(q.job, "leased", c)
    BY <1>1 DEF ClearWrite, Job
  <2>3. c \in JobFile /\ c.attempts = q.copy.attempts
    BY <1>l, <2>1, <2>2 DEF JobFile
  <2>4. PICK r : r = proc'[o]
    OBVIOUS
  <2>5. r.job = q.job /\ r.pc = "requeue"
    BY <1>1, <1>q, <2>4 DEF ClearWrite, Goto, Become, Locals
  <2>6. PICK j \in Jobs : j = q.job
    BY <2>1
  <2> QED
    BY <1>l, <1>q, <2>1, <2>2, <2>3, <2>4, <2>5, <2>6, RewriteKeeps
<1>2. CASE AnnotateWrite(o)
  <2>1. q.job \in Jobs /\ q.pc = "annotating"
    BY <1>2, <1>q DEF AnnotateWrite, At, LocalsOK, AtJob
  <2>2. PICK c : c = q.copy /\ WriteJob(q.job, "leased", c)
    BY <1>2 DEF AnnotateWrite, Job
  <2>4. PICK r : r = proc'[o]
    OBVIOUS
  <2>5. r.job = q.job /\ r.pc = "fail"
    BY <1>2, <1>q, <2>4 DEF AnnotateWrite, Goto, Become, Locals
  <2>6. PICK j \in Jobs : j = q.job
    BY <2>1
  <2> QED
    BY <1>l, <1>q, <2>1, <2>2, <2>4, <2>5, <2>6, RewriteKeeps
<1>3. CASE LeaseWrite(o)
  <2>1. q.job \in Jobs /\ q.pc = "stamp"
    BY <1>3, <1>q DEF LeaseWrite, At, LocalsOK, AtJob
  <2>2. PICK c : /\ c = [q.copy EXCEPT !.attempts = q.copy.attempts + 1,
                                       !.expires = clock + LeaseTime]
                 /\ WriteJob(q.job, "leased", c)
    BY <1>3 DEF LeaseWrite, Job
  <2>3. c \in JobFile /\ c.attempts = q.copy.attempts + 1 /\ q.copy.attempts \in Nat
    <3>1. q.copy.attempts + 1 \in Nat /\ clock + LeaseTime \in Nat
      BY <1>l, <1>s, <2>1, RunnerAssumption DEF JobFile
    <3> QED
      BY <1>l, <2>1, <2>2, <3>1 DEF JobFile
  <2>4. PICK r : r = proc'[o]
    OBVIOUS
  <2>5. r.job = q.job /\ r.pc = "check"
    BY <1>3, <1>q, <2>4 DEF LeaseWrite, Become, Locals
  <2>6. PICK j \in Jobs : j = q.job
    BY <2>1
  <2>7. requeues = 0 => c.attempts <= MaxAttempts
    BY <1>l, <2>1, <2>3, RunnerAssumption
  <2> QED
    BY <1>l, <1>q, <2>1, <2>2, <2>3, <2>4, <2>5, <2>6, <2>7, RewriteKeeps
<1>4. ASSUME UNCHANGED spool, Exit(o) \/ Goto(o, "annotate") PROVE Alone(o)'
  BY <1>4, <1>q, OtherStill DEF Still
<1>5. ASSUME NEW j \in Jobs, j = q.job, NEW to \in {"pending", "failed", "done"},
             MoveJob(j, "leased", to), NEW r, proc'[o] = r, r.job = NoJob,
             to = "pending" => q.pc = "requeue"
      PROVE  Alone(o)'
  <2>1. to = "pending" /\ requeues = 0 => spool["leased"][j].attempts < MaxAttempts
    BY <1>5, <1>q DEF AtWork
  <2> QED
    BY <1>5, <1>q, <1>s, <2>1, MoveKeeps
<1>6. CASE MoveBack(o)
  <2>1. PICK j \in Jobs : j = q.job /\ q.pc = "requeue"
    BY <1>6, <1>q DEF MoveBack, At, LocalsOK, AtJob
  <2>2. CASE ~MoveJob(Job(o), "leased", "pending")
    BY <1>4, <1>6, <2>2 DEF MoveBack
  <2>3. CASE /\ MoveJob(Job(o), "leased", "pending")
             /\ Become(o, [q EXCEPT !.pc = "recover", !.job = NoJob, !.copy = NoFile])
    <3>1. PICK r : r = proc'[o]
      OBVIOUS
    <3>2. r.job = NoJob
      BY <1>q, <2>3, <3>1 DEF Become, Locals
    <3> QED
      BY <1>5, <2>1, <2>3, <3>1, <3>2 DEF Job
  <2>4. CASE UNCHANGED spool /\ Exit(o)
    BY <1>4, <2>4
  <2> QED
    BY <1>6, <2>2, <2>3, <2>4 DEF MoveBack
<1>7. ASSUME NEW to \in {"failed", "done"}, MoveJob(Job(o), "leased", to), Become(o, NextJob(o)),
             q.job \in Jobs
      PROVE  Alone(o)'
  <2>1. PICK r : r = proc'[o]
    OBVIOUS
  <2>2. r.job = NoJob
    BY <1>7, <1>q, <2>1 DEF Become, NextJob, Locals
  <2>3. PICK j \in Jobs : j = q.job
    BY <1>7
  <2> QED
    BY <1>5, <1>7, <2>1, <2>2, <2>3 DEF Job
<1>8. CASE MoveToFailed(o) \/ Complete(o)
  <2>1. q.job \in Jobs
    BY <1>8, <1>q DEF MoveToFailed, Complete, At, LocalsOK, AtJob
  <2> QED
    BY <1>4, <1>7, <1>8, <2>1 DEF MoveToFailed, Complete
<1>9. CASE Claim(o)
  <2>1. PICK j \in q.todo :
          \/ /\ MoveJob(j, "pending", "leased")
             /\ Become(o, [q EXCEPT !.pc = "claimed", !.todo = {}, !.job = j, !.src = SourceOf[j]])
          \/ /\ Become(o, [q EXCEPT !.todo = q.todo \ {j}])
             /\ UNCHANGED spool
    BY <1>9 DEF Claim
  <2>2. j \in Jobs
    BY <1>q DEF Locals
  <2>3. CASE /\ MoveJob(j, "pending", "leased")
             /\ Become(o, [q EXCEPT !.pc = "claimed", !.todo = {}, !.job = j, !.src = SourceOf[j]])
    <3>1. PICK r : r = proc'[o]
      OBVIOUS
    <3>2. r.job = j /\ r.pc = "claimed"
      BY <1>q, <2>3, <3>1 DEF Become, Locals
    <3> QED
      BY <1>q, <1>s, <2>2, <2>3, <3>1, <3>2, MoveKeeps
  <2>4. CASE Become(o, [q EXCEPT !.todo = q.todo \ {j}]) /\ UNCHANGED spool
    BY <1>9, <1>q, <2>4, OtherStill DEF Still, Claim
  <2> QED
    BY <2>1, <2>3, <2>4
<1> QED
  BY <1>1, <1>2, <1>3, <1>6, <1>8, <1>9

-----------------------------------------------------------------------------
(* The commands that digest by hand *)

LEMMA HandStep ==
  ASSUME NEW p \in Procs, Typed, ByHand(proc[p]),
         \/ \E s \in Sources, d \in Digests : StartManual(p, s, d)
         \/ Advance(p)
         \/ Crash(p)
  PROVE  Still /\ ByHand(proc'[p]) /\ \A q \in Procs \ {p} : proc'[q] = proc[q]
<1> DEFINE q == proc[p]
<1>q. q \in Locals /\ proc \in [Procs -> Locals] /\ q.job = NoJob
      /\ q.pc \in {"idle", "lock", "look", "json", "md", "unlock"}
  BY DEF Typed, TypeOK, ByHand
<1>1. ASSUME NEW r, Become(p, r), ByHand(r)
      PROVE  ByHand(proc'[p]) /\ \A x \in Procs \ {p} : proc'[x] = proc[x]
  BY <1>1, <1>q DEF Become
<1>r. ByHand(Resting)
  BY DEF ByHand, Resting
<1>2. ASSUME NEW s \in Sources, NEW d \in Digests, StartManual(p, s, d)
      PROVE  Still /\ ByHand(proc'[p]) /\ \A x \in Procs \ {p} : proc'[x] = proc[x]
  <2> DEFINE r == [Resting EXCEPT !.pc = "lock", !.src = s, !.digest = d]
  <2>1. r.pc = "lock" /\ r.job = NoJob /\ Become(p, r) /\ Still
    BY <1>2 DEF StartManual, Resting, Still, around
  <2> HIDE DEF r
  <2> QED
    BY <1>1, <2>1 DEF ByHand
<1>3. CASE Crash(p)
  BY <1>3, <1>1, <1>r DEF Crash, Exit, Still
<1>4. CASE Advance(p)
  <2>1. WriterStep(p)
    BY <1>4, <1>q DEF Advance, RecoverStep, JobStep, Recover, RecoverDone, ClearRead, ClearWrite,
       MoveBack, AnnotateRead, AnnotateWrite, MoveToFailed, LeaseList, Claim, NothingPending,
       LeaseRead, LeaseWrite, Check, Generate, GenerateFails, Complete, At
  <2>2. Still
    BY <2>1 DEF WriterStep, Lock, Locked, Look, WriteJson, WriteMd, WriteFails, Unlock, Still,
       around
  <2>3. CASE Locked(p) \/ Unlock(p)
    <3>1. Become(p, Resting)
      BY <2>3, <1>q DEF Locked, Unlock, Fails, Job
    <3> QED
      BY <1>1, <1>q, <1>r, <2>2, <3>1
  <2>4. CASE Lock(p) \/ Look(p) \/ WriteJson(p) \/ WriteMd(p) \/ WriteFails(p)
    <3>1. PICK pc \in {"look", "json", "md", "unlock"} :
            Goto(p, pc) \/ Become(p, [q EXCEPT !.pc = pc, !.ok = TRUE])
      BY <2>4 DEF Lock, Look, WriteJson, WriteMd, WriteFails
    <3>2. PICK r \in {[q EXCEPT !.pc = pc], [q EXCEPT !.pc = pc, !.ok = TRUE]} : Become(p, r)
      BY <3>1 DEF Goto
    <3>3. r.job = q.job /\ r.pc = pc
      BY <1>q, <3>2 DEF Locals
    <3> QED
      BY <1>1, <1>q, <2>2, <3>1, <3>2, <3>3 DEF ByHand
  <2> QED
    BY <2>1, <2>3, <2>4 DEF WriterStep
<1> QED
  BY <1>1, <1>2, <1>3, <1>4

\* A step of a command is a step of no other.
LEMMA OwnStep ==
  ASSUME NEW o \in Procs, Typed,
         \/ StartRun(o) \/ (\E s \in Sources, d \in Digests : StartManual(o, s, d))
         \/ Advance(o) \/ Crash(o)
  PROVE  \A q \in Procs \ {o} : proc'[q] = proc[q]
<1>1. ASSUME NEW r, Become(o, r) PROVE \A q \in Procs \ {o} : proc'[q] = proc[q]
  BY <1>1 DEF Become, Typed, TypeOK
<1>2. CASE StartRun(o) \/ (\E s \in Sources, d \in Digests : StartManual(o, s, d)) \/ Crash(o)
  BY <1>1, <1>2 DEF StartRun, StartManual, Crash, Exit
<1>3. CASE RecoverStep(o)
  BY <1>1, <1>3 DEF RecoverStep, Recover, RecoverDone, ClearRead, ClearWrite, MoveBack,
     AnnotateRead, AnnotateWrite, MoveToFailed, Exit, Goto
<1>4. CASE JobStep(o)
  BY <1>1, <1>4 DEF JobStep, LeaseList, Claim, NothingPending, LeaseRead, LeaseWrite, Check,
     Generate, GenerateFails, Complete, Exit, Goto
<1>5. CASE WriterStep(o)
  BY <1>1, <1>5 DEF WriterStep, Lock, Locked, Look, WriteJson, WriteMd, WriteFails, Unlock, Goto
<1> QED
  BY <1>2, <1>3, <1>4, <1>5 DEF Advance

\* What each step of the system is, seen from the run o
LEMMA StepCases ==
  ASSUME NEW o, Runners = {o}, Typed, OthersByHand(o), [Next]_vars
  PROVE  /\ o \in Procs
         /\ \/ Around
            \/ UNCHANGED vars
            \/ StartRun(o) \/ (\E s \in Sources, d \in Digests : StartManual(o, s, d))
            \/ Advance(o) \/ Crash(o)
            \/ \E p \in Procs \ {o} :
                 /\ ByHand(proc[p])
                 /\ \/ \E s \in Sources, d \in Digests : StartManual(p, s, d)
                    \/ Advance(p)
                    \/ Crash(p)
<1>1. o \in Procs
  BY RunnerAssumption
<1>2. ASSUME NEW p \in Procs, p \in Runners /\ StartRun(p) PROVE StartRun(o)
  BY <1>2
<1> QED
  BY <1>1, <1>2 DEF Next, OthersByHand

LEMMA OthersNext ==
  ASSUME NEW o, Runners = {o}, Typed, OthersByHand(o), [Next]_vars
  PROVE  OthersByHand(o)'
<1>1. CASE Around \/ UNCHANGED vars
  BY <1>1 DEF OthersByHand, Around, Enqueue, BeginRequeue, Requeue, around, Tick, NewRevision, vars
<1>2. CASE \/ StartRun(o) \/ (\E s \in Sources, d \in Digests : StartManual(o, s, d))
           \/ Advance(o) \/ Crash(o)
  BY <1>2, StepCases, OwnStep DEF OthersByHand
<1>3. ASSUME NEW p \in Procs \ {o}, ByHand(proc[p]),
             \/ \E s \in Sources, d \in Digests : StartManual(p, s, d)
             \/ Advance(p)
             \/ Crash(p)
      PROVE  OthersByHand(o)'
  <2>1. ByHand(proc'[p]) /\ \A q \in Procs \ {p} : proc'[q] = proc[q]
    BY <1>3, HandStep
  <2> QED
    BY <2>1 DEF OthersByHand
<1> QED
  BY <1>1, <1>2, <1>3, StepCases

LEMMA AloneNext ==
  ASSUME NEW o, Runners = {o}, Typed, OthersByHand(o), Alone(o), [Next]_vars
  PROVE  Alone(o)'
<1>o. o \in Procs
  BY RunnerAssumption
<1>1. CASE Around
  <2>1. ASSUME NEW j \in Jobs, Enqueue(j) \/ BeginRequeue(j) \/ Requeue(j) PROVE Alone(o)'
    BY <1>o, <2>1, CreateKeeps, ClearKeeps, RequeueKeeps
  <2>2. CASE Tick \/ NewRevision
    BY <1>o, <2>2, OtherStill DEF Tick, NewRevision, Still
  <2> QED
    BY <1>1, <2>1, <2>2 DEF Around
<1>2. CASE \/ StartRun(o) \/ (\E s \in Sources, d \in Digests : StartManual(o, s, d))
           \/ RecoverDone(o) \/ LeaseList(o) \/ NothingPending(o) \/ Check(o)
           \/ (\E d \in Digests : Generate(o, d)) \/ GenerateFails(o) \/ WriterStep(o)
  <2>1. Still
    BY <1>2 DEF StartRun, StartManual, RecoverDone, LeaseList, NothingPending, Check, Generate,
       GenerateFails, WriterStep, Lock, Locked, Look, WriteJson, WriteMd, WriteFails, Unlock,
       Still, around
  <2> QED
    BY <1>o, <1>2, <2>1, OtherStill
<1>3. CASE Recover(o) \/ ClearRead(o) \/ AnnotateRead(o) \/ LeaseRead(o)
  BY <1>o, <1>3, RecoverStill, ReadStill
<1>4. CASE \/ ClearWrite(o) \/ AnnotateWrite(o) \/ LeaseWrite(o)
           \/ MoveBack(o) \/ MoveToFailed(o) \/ Complete(o) \/ Claim(o)
  BY <1>o, <1>4, FileStepKeeps
<1>5. CASE Crash(o)
  BY <1>o, <1>5, OtherStill DEF Crash, Still
<1>6. CASE UNCHANGED vars
  BY <1>o, <1>6, OtherStill DEF vars, Still
<1>7. CASE Advance(o)
  BY <1>2, <1>3, <1>4, <1>7 DEF Advance, RecoverStep, JobStep
<1>8. ASSUME NEW p \in Procs \ {o}, ByHand(proc[p]),
             \/ \E s \in Sources, d \in Digests : StartManual(p, s, d)
             \/ Advance(p)
             \/ Crash(p)
      PROVE  Alone(o)'
  <2>1. Still /\ proc'[o] = proc[o]
    BY <1>o, <1>8, HandStep
  <2> QED
    BY <1>o, <2>1, StillKeeps DEF Alone
<1> QED
  BY <1>1, <1>2, <1>5, <1>6, <1>7, <1>8, StepCases

LEMMA AlwaysAlone ==
  ASSUME NEW o, Runners = {o}
  PROVE  Spec => [](Alone(o) /\ OthersByHand(o))
<1>1. Init => Alone(o) /\ OthersByHand(o)
  BY AloneInit, RunnerAssumption DEF Init, OthersByHand, ByHand, Resting
<1>2. Typed /\ Alone(o) /\ OthersByHand(o) /\ [Next]_vars => Alone(o)' /\ OthersByHand(o)'
  BY AloneNext, OthersNext
<1> QED
  BY <1>1, <1>2, TypedInit, TypedNext, PTL DEF Spec

\* With one run of the queue at a time, no job is leased more than max_attempts
\* times before somebody requeues it: recover_expired_leases puts back only
\* what may be leased once more, and a claim is the only way to a lease.
THEOREM LeasesAreBounded ==
  ASSUME NEW o, Runners = {o}
  PROVE  Spec => []AttemptsBounded
<1>1. Alone(o) => AttemptsBounded
  BY DEF Alone, Counted, AttemptsBounded
<1> QED
  BY <1>1, AlwaysAlone, PTL

-----------------------------------------------------------------------------
(* What a step does to the job files *)

\* The command rewrites the leased file of a job, or moves the file of one.
Rewrites == \E j \in Jobs, c \in JobFile : IsIn(j, "leased") /\ WriteJob(j, "leased", c)
Moves(j, d, to) ==
  /\ MoveJob(j, d, to)
  /\ \/ d = "pending" /\ to = "leased"
     \/ d = "leased" /\ to \in {"pending", "failed"}
     \/ d = "leased" /\ to = "done" /\ SourceOf[j] \in Digested(json, md)
\* What the command does to the files of the jobs; it then leaves the digests alone.
Works ==
  /\ UNCHANGED <<json, md, requeues>>
  /\ \/ UNCHANGED spool
     \/ Rewrites
     \/ \E j \in Jobs, d, to \in QueueStates : Moves(j, d, to)

LEMMA CommandWorks ==
  ASSUME NEW o \in Procs, DigestInv, Alone(o), RecoverStep(o) \/ JobStep(o)
  PROVE  Works
<1> DEFINE q == proc[o]
<1>q. /\ q \in Locals /\ LocalsOK(q) /\ UNCHANGED <<json, md, requeues>>
      /\ AtWork(q) /\ WriterKnows(o)
      /\ {"pending", "leased", "done", "failed"} = QueueStates /\ clock \in Nat
      /\ q.pc \in AtJob => q.job \in Jobs
  <2>1. UNCHANGED <<json, md, requeues>>
    BY DEF RecoverStep, Recover, RecoverDone, ClearRead, ClearWrite, MoveBack,
     AnnotateRead, AnnotateWrite, MoveToFailed, JobStep, LeaseList, Claim, NothingPending,
     LeaseRead, LeaseWrite, Check, Generate, GenerateFails, Complete, store, around
  <2> QED
    BY <2>1 DEF DigestInv, Typed, TypeOK, LocalsOK, Alone, QueueStates
<1>1. CASE \/ Recover(o) \/ RecoverDone(o) \/ ClearRead(o) \/ AnnotateRead(o) \/ LeaseList(o)
           \/ NothingPending(o) \/ LeaseRead(o) \/ Check(o)
           \/ (\E d \in Digests : Generate(o, d)) \/ GenerateFails(o)
  BY <1>1, <1>q DEF Recover, RecoverDone, ClearRead, AnnotateRead, LeaseList, NothingPending,
     LeaseRead, Check, Generate, GenerateFails, Works
<1>2. CASE ClearWrite(o) \/ AnnotateWrite(o) \/ LeaseWrite(o)
  <2>1. q.job \in Jobs /\ q.copy \in JobFile /\ IsIn(q.job, "leased")
    BY <1>2, <1>q DEF ClearWrite, AnnotateWrite, LeaseWrite, At, LocalsOK, AtJob, AtWork
  <2>2. \E c \in JobFile : WriteJob(q.job, "leased", c)
    <3>1. CASE ClearWrite(o)
      <4>1. [q.copy EXCEPT !.expires = NoLease] \in JobFile
        BY <2>1 DEF JobFile
      <4> QED
        BY <3>1, <4>1 DEF ClearWrite, Job
    <3>2. CASE AnnotateWrite(o)
      BY <2>1, <3>2 DEF AnnotateWrite, Job
    <3>3. CASE LeaseWrite(o)
      <4>1. q.copy.attempts + 1 \in Nat /\ clock + LeaseTime \in Nat
        BY <1>q, <2>1, RunnerAssumption DEF JobFile
      <4>2. [q.copy EXCEPT !.attempts = q.copy.attempts + 1, !.expires = clock + LeaseTime]
              \in JobFile
        BY <2>1, <4>1 DEF JobFile
      <4> QED
        BY <3>3, <4>2 DEF LeaseWrite, Job
    <3> QED
      BY <1>2, <3>1, <3>2, <3>3
  <2> QED
    BY <1>q, <2>1, <2>2 DEF Works, Rewrites
<1>3. CASE MoveBack(o) \/ MoveToFailed(o)
  <2>1. q.job \in Jobs
    BY <1>3, <1>q DEF MoveBack, MoveToFailed, At, AtJob
  <2>2. \/ UNCHANGED spool
        \/ \E to \in {"pending", "failed"} : MoveJob(q.job, "leased", to)
    BY <1>3 DEF MoveBack, MoveToFailed, Job
  <2> QED
    BY <1>q, <2>1, <2>2 DEF Works, Moves
<1>4. CASE Complete(o)
  <2>1. q.job \in Jobs /\ q.src = SourceOf[q.job] /\ SourceOf[q.job] \in Sources
    BY <1>4, <1>q, RunnerAssumption DEF Complete, At, AtJob, AtSource, LocalsOK
  <2>2. SourceOf[q.job] \in Digested(json, md)
    BY <1>4, <1>q, <2>1 DEF Complete, WriterKnows, At, Src, Digested
  <2>3. UNCHANGED spool \/ MoveJob(q.job, "leased", "done")
    BY <1>4 DEF Complete, Job
  <2> QED
    BY <1>q, <2>1, <2>2, <2>3 DEF Works, Moves
<1>5. CASE Claim(o)
  <2>1. PICK j \in Jobs : MoveJob(j, "pending", "leased") \/ UNCHANGED spool
    BY <1>5, <1>q DEF Claim, Locals
  <2> QED
    BY <1>q, <2>1 DEF Works, Moves
<1> QED
  BY <1>1, <1>2, <1>3, <1>4, <1>5 DEF RecoverStep, JobStep

\* A job in done/ or failed/ is where it was, or was requeued.
LEMMA SettledStays ==
  ASSUME NEW o, Runners = {o}, DigestInv, Alone(o), OthersByHand(o), [Next]_vars,
         UNCHANGED requeues,
         NEW j \in Jobs, NEW d \in {"done", "failed"}, IsIn(j, d)
  PROVE  IsIn(j, d)'
<1>1. Typed /\ requeues \in Nat /\ d \in QueueStates /\ "leased" \in QueueStates
      /\ "pending" \in QueueStates /\ spool \in Files(JobFile) /\ rev \in 0..MaxRev
  BY FilesTyped DEF DigestInv
<1>2. UNCHANGED spool => IsIn(j, d)'
  BY DEF IsIn
<1>3. ASSUME NEW i \in Jobs, NEW c \in JobFile, NEW e \in QueueStates, WriteJob(i, e, c)
      PROVE  IsIn(j, d)'
  BY <1>1, <1>3, WriteEffect, FilesTyped DEF IsIn
<1>9. ASSUME NEW i \in Jobs, BeginRequeue(i) PROVE IsIn(j, d)'
  <2>1. [spool["failed"][i] EXCEPT !.expires = NoLease] \in JobFile /\ "failed" \in QueueStates
    BY <1>1, <1>9, ClearEffect, LeaseTaken DEF BeginRequeue, QueueStates
  <2> QED
    BY <1>3, <1>9, <2>1 DEF BeginRequeue, ClearFailed
<1>4. ASSUME NEW i \in Jobs, Enqueue(i) PROVE IsIn(j, d)'
  <2>1. NewJob(rev) \in JobFile
    BY <1>1 DEF NewJob, JobFile
  <2> QED
    BY <1>1, <1>3, <1>4, <2>1 DEF Enqueue, CreateJob
<1>5. ASSUME NEW i \in Jobs, Requeue(i) PROVE FALSE
  BY <1>1, <1>5 DEF Requeue
<1>6. CASE Works
  <2>1. CASE Rewrites
    BY <1>1, <1>3, <2>1 DEF Rewrites
  <2>2. ASSUME NEW i \in Jobs, NEW from \in QueueStates, NEW to \in QueueStates, Moves(i, from, to)
        PROVE  IsIn(j, d)'
    <3>1. from # to /\ from # d /\ MoveJob(i, from, to)
      BY <2>2 DEF Moves
    <3>2. spool'[d][j] = IF i # j THEN spool[d][j]
                         ELSE IF d = to THEN spool[from][i]
                         ELSE IF d = from THEN NoFile ELSE spool[d][j]
      BY <1>1, <3>1, MoveEffect
    <3> QED
      BY <3>1, <3>2 DEF IsIn, MoveJob
  <2> QED
    BY <1>2, <1>6, <2>1, <2>2 DEF Works
<1>7. CASE Advance(o)
  BY <1>1, <1>2, <1>6, <1>7, StepCases, CommandWorks
  DEF Advance, WriterStep, Lock, Locked, Look, WriteJson, WriteMd, WriteFails, Unlock
<1>8. ASSUME NEW p \in Procs, ByHand(proc[p]),
             \/ \E s \in Sources, e \in Digests : StartManual(p, s, e)
             \/ Advance(p)
             \/ Crash(p)
      PROVE  IsIn(j, d)'
  BY <1>1, <1>2, <1>8, HandStep DEF Still
<1> QED
  BY <1>1, <1>2, <1>4, <1>5, <1>7, <1>8, <1>9, StepCases
  DEF Around, Tick, NewRevision, StartRun, StartManual, Crash, vars

\* With one run of the queue at a time, what was finished or has failed stays so
\* until somebody requeues it: no recovery, claim or rewrite brings it back.
THEOREM SettledUntilRequeued ==
  ASSUME NEW o, Runners = {o}
  PROVE  Spec => OnlyExplicitRequeue
<1>1. DigestInv /\ Alone(o) /\ OthersByHand(o) /\ Alone(o)' /\ [Next]_vars =>
        [\A j \in Jobs : \A d \in {"done", "failed"} :
           (IsIn(j, d) /\ requeues' = requeues) => IsIn(j, d)' /\ ~IsIn(j, "pending")']_vars
  <2> SUFFICES ASSUME DigestInv, Alone(o), OthersByHand(o), Alone(o)', [Next]_vars,
                      NEW j \in Jobs, NEW d \in {"done", "failed"}, IsIn(j, d), UNCHANGED requeues
               PROVE  IsIn(j, d)' /\ ~IsIn(j, "pending")'
    OBVIOUS
  <2>1. IsIn(j, d)'
    BY SettledStays
  <2>2. d \in QueueStates /\ "pending" \in QueueStates /\ d # "pending"
    BY DEF QueueStates
  <2> QED
    BY <2>1, <2>2 DEF Alone, OnePlace
<1>2. Spec => []DigestInv
  BY DigestInvInit, DigestInvNext, PTL DEF Spec
<1> QED
  BY <1>1, <1>2, AlwaysAlone, PTL DEF Spec, OnlyExplicitRequeue

-----------------------------------------------------------------------------
(* The digest queue implements JobLifecycle *)

\* A job that gets a new file in directory d, in place of one in directory from
\* or of none, goes from one state to the other.
LEMMA StateChanges ==
  ASSUME NEW files, NEW more, NEW j \in Jobs, NEW to \in QueueStates, Ends(files, more, j, to),
         NEW from, StateOf(files)[j] = from,
         spool = files, spool' = more, UNCHANGED <<json, md>>
  PROVE  Lifecycle!ChangeState(j, from, to)
<1>1. ChangedTo(StateOf(files), StateOf(more), j, to)
  BY StateMoves
<1>2. StateOf(more) = [StateOf(files) EXCEPT ![j] = to]
  BY <1>1 DEF ChangedTo
<1>3. UNCHANGED Digested(json, md)
  OBVIOUS
<1> QED
  BY <1>2, <1>3 DEF Lifecycle!ChangeState

LEMMA LifecycleStep ==
  ASSUME NEW o, Runners = {o}, DigestInv, Alone(o), OthersByHand(o), [Next]_vars
  PROVE  [Lifecycle!LifeNext]_<<StateOf(spool), Digested(json, md)>>
<1> DEFINE kept == UNCHANGED <<StateOf(spool), Digested(json, md)>>
<1>o. o \in Procs
  BY RunnerAssumption
<1>1. /\ OnePlace /\ spool \in Files(JobFile) /\ Typed /\ NoFile \notin JobFile /\ rev \in 0..MaxRev
      /\ {"pending", "leased", "done", "failed"} = QueueStates
  BY FilesTyped DEF DigestInv, Alone
<1>2. UNCHANGED <<spool, json, md>> => kept
  OBVIOUS
<1>3. UNCHANGED <<json, md>> => UNCHANGED Digested(json, md)
  OBVIOUS
<1>4. PICK files, more : files = spool /\ more = spool'
  OBVIOUS
<1>5. ASSUME NEW j \in Jobs, Enqueue(j) PROVE Lifecycle!Create(j)
  <2>1. NewJob(rev) \in JobFile /\ WriteJob(j, "pending", NewJob(rev)) /\ UNCHANGED <<json, md>>
    BY <1>1, <1>5 DEF Enqueue, CreateJob, NewJob, JobFile, store
  <2>2. \A e \in QueueStates : files[e][j] = NoFile
    BY <1>4, <1>5 DEF Enqueue, CreateJob, IsIn
  <2>3. \A e \in QueueStates, i \in Jobs :
          more[e][i] = IF e = "pending" /\ i = j THEN NewJob(rev) ELSE files[e][i]
    BY <1>1, <1>4, <2>1, WriteEffect
  <2>4. Ends(files, more, j, "pending") /\ "pending" \in QueueStates
    BY <1>1, <2>1, <2>2, <2>3 DEF Ends
  <2>5. StateOf(files)[j] = "none"
    BY <2>2, NoneExists
  <2> QED
    BY <1>4, <2>1, <2>4, <2>5, StateChanges DEF Lifecycle!Create
<1>6. ASSUME NEW j \in Jobs, Requeue(j) PROVE Lifecycle!Retry(j)
  <2>1. RequeueFailed(j) /\ UNCHANGED <<json, md>>
    BY <1>6 DEF Requeue, store
  <2>2. /\ IsIn(j, "failed") /\ more["pending"][j] \in JobFile /\ more["failed"][j] = NoFile
        /\ \A e \in QueueStates, i \in Jobs :
             i # j \/ e \notin {"failed", "pending"} => more[e][i] = files[e][i]
    BY <1>1, <1>4, <2>1, RequeueEffect
  <2>3. \A e \in QueueStates : files[e][j] # NoFile <=> e = "failed"
    BY <1>1, <1>4, <2>2 DEF OnePlace, IsIn
  <2>4. Ends(files, more, j, "pending") /\ "pending" \in QueueStates
    BY <1>1, <2>2, <2>3 DEF Ends
  <2>5. StateOf(files)[j] = "failed"
    BY <1>1, <2>3, StateIs
  <2> QED
    BY <1>4, <2>1, <2>4, <2>5, StateChanges DEF Lifecycle!Retry
<1>22. ASSUME NEW j \in Jobs, BeginRequeue(j) PROVE kept
  <2>1. /\ [spool["failed"][j] EXCEPT !.expires = NoLease] \in JobFile /\ IsIn(j, "failed")
        /\ ClearFailed(j) /\ UNCHANGED <<json, md>> /\ "failed" \in QueueStates
    BY <1>1, <1>22, ClearEffect, LeaseTaken DEF BeginRequeue, store
  <2>2. UNCHANGED StateOf(spool)
    BY <1>1, <2>1, WriteSaysTheSame DEF ClearFailed
  <2> QED
    BY <1>3, <2>1, <2>2
<1>7. ASSUME Works PROVE kept \/ Lifecycle!LifeNext
  <2>1. CASE Rewrites
    BY <1>1, <1>3, <1>7, <2>1, WriteSaysTheSame DEF Works, Rewrites
  <2>2. ASSUME NEW j \in Jobs, NEW d \in QueueStates, NEW to \in QueueStates, Moves(j, d, to)
        PROVE  Lifecycle!LifeNext
    <3>1. Lifecycle!ChangeState(j, d, to)
      <4>1. d # to /\ MoveJob(j, d, to)
        BY <2>2 DEF Moves
      <4> QED
        BY <1>1, <1>3, <1>7, <4>1, MoveChangesState DEF Lifecycle!ChangeState, Works
    <3>2. /\ Lifecycle!Take(j) <=> Lifecycle!ChangeState(j, "pending", "leased")
          /\ Lifecycle!Release(j) <=> Lifecycle!ChangeState(j, "leased", "pending")
          /\ Lifecycle!Fail(j) <=> Lifecycle!ChangeState(j, "leased", "failed")
          /\ Lifecycle!Finish(j) <=> /\ SourceOf[j] \in Digested(json, md)
                                     /\ Lifecycle!ChangeState(j, "leased", "done")
      BY DEF Lifecycle!Take, Lifecycle!Release, Lifecycle!Fail, Lifecycle!Finish
    <3> QED
      BY <2>2, <3>1, <3>2 DEF Moves, Lifecycle!LifeNext
  <2> QED
    BY <1>2, <1>7, <2>1, <2>2 DEF Works
<1>8. ASSUME NEW p \in Procs, WriteMd(p) PROVE kept \/ \E s \in Sources : Lifecycle!Produce(s)
  <2>1. PICK s \in Sources : s = Src(p)
    BY <1>1, <1>8 DEF WriteMd, Typed, LocalsOK, At, AtSource, Src
  <2>2. /\ UNCHANGED <<spool, json>> /\ json[s] = {proc[p].digest}
        /\ md' = [md EXCEPT ![s] = @ \cup {proc[p].digest}] /\ md \in [Sources -> SUBSET Digests]
    BY <1>8, <2>1 DEF WriteMd, DigestInv, WriterKnows, Typed, TypeOK
  <2>3. Digested(json, md)' = Digested(json, md) \cup {s}
    BY <2>2 DEF Digested
  <2> QED
    BY <2>1, <2>2, <2>3 DEF Lifecycle!Produce
<1>9. ASSUME NEW p \in Procs, WriteJson(p) PROVE kept
  <2>1. PICK s \in Sources : s = Src(p)
    BY <1>1, <1>9 DEF WriteJson, Typed, LocalsOK, At, AtSource, Src
  <2>2. /\ UNCHANGED <<spool, md>> /\ json[s] = {} /\ md[s] \subseteq json[s]
        /\ json' = [json EXCEPT ![s] = @ \cup {proc[p].digest}]
        /\ json \in [Sources -> SUBSET Digests]
    BY <1>9, <2>1 DEF WriteJson, DigestInv, WriterKnows, OneDigestPerSource, Typed, TypeOK
  <2>3. \A t \in Sources : json'[t] \cap md'[t] = json[t] \cap md[t]
    BY <2>2
  <2> QED
    BY <2>2, <2>3 DEF Digested
<1>10. ASSUME NEW p \in Procs,
              \/ Lock(p) \/ Locked(p) \/ Look(p) \/ WriteFails(p) \/ Unlock(p)
              \/ StartRun(p) \/ (\E s \in Sources, d \in Digests : StartManual(p, s, d))
              \/ Crash(p)
       PROVE  kept
  BY <1>2, <1>10 DEF Lock, Locked, Look, WriteFails, Unlock, StartRun, StartManual, Crash, store,
     around
<1>14. ASSUME Tick \/ NewRevision \/ UNCHANGED vars PROVE kept
  BY <1>2, <1>14 DEF Tick, NewRevision, vars, store
<1> HIDE DEF kept
<1>11. kept => UNCHANGED <<StateOf(spool), Digested(json, md)>>
  BY DEF kept
<1>12. ASSUME Around PROVE kept \/ Lifecycle!LifeNext
  BY <1>5, <1>6, <1>12, <1>14, <1>22 DEF Around, Lifecycle!LifeNext
<1>13. ASSUME NEW p \in Procs, WriterStep(p) PROVE kept \/ Lifecycle!LifeNext
  BY <1>8, <1>9, <1>10, <1>13 DEF WriterStep, Lifecycle!LifeNext
<1>15. ASSUME RecoverStep(o) \/ JobStep(o) PROVE kept \/ Lifecycle!LifeNext
  BY <1>7, <1>15, <1>o, CommandWorks
<1>16. ASSUME NEW p \in Procs \ {o}, ByHand(proc[p]), Advance(p) PROVE WriterStep(p)
  BY <1>16 DEF ByHand, Advance, RecoverStep, JobStep, Recover, RecoverDone, ClearRead, ClearWrite,
     MoveBack, AnnotateRead, AnnotateWrite, MoveToFailed, LeaseList, Claim, NothingPending,
     LeaseRead, LeaseWrite, Check, Generate, GenerateFails, Complete, At
<1>17. ASSUME NEW p \in Procs,
              StartRun(p) \/ (\E s \in Sources, d \in Digests : StartManual(p, s, d)) \/ Crash(p)
       PROVE  kept
  BY <1>10, <1>17
<1>18. ASSUME Advance(o) PROVE kept \/ Lifecycle!LifeNext
  BY <1>o, <1>13, <1>15, <1>18 DEF Advance
<1>19. ASSUME StartRun(o) \/ (\E s \in Sources, d \in Digests : StartManual(o, s, d)) \/ Crash(o)
       PROVE  kept
  BY <1>o, <1>17, <1>19
<1>20. ASSUME NEW p \in Procs \ {o}, ByHand(proc[p]),
              \/ \E s \in Sources, d \in Digests : StartManual(p, s, d)
              \/ Advance(p)
              \/ Crash(p)
       PROVE  kept \/ Lifecycle!LifeNext
  BY <1>13, <1>16, <1>17, <1>20
<1>21. kept \/ Lifecycle!LifeNext
  BY <1>1, <1>12, <1>14, <1>18, <1>19, <1>20, StepCases
<1> QED
  BY <1>11, <1>21

\* With one run of the queue at a time, the digest queue implements the life of a
\* job that QUEUES.md describes: a job is finished only when its source has a
\* digest, JSON and Markdown, and comes back from failed/ only by a requeue.
THEOREM JobsHaveTheirLife ==
  ASSUME NEW o, Runners = {o}
  PROVE  Spec => ImplementsJobLifecycle
<1>1. Init => Lifecycle!LifeInit
  <2> SUFFICES ASSUME Init PROVE Lifecycle!LifeInit
    OBVIOUS
  <2>1. \A j \in Jobs : StateOf(spool)[j] = "none"
    BY NoneExists DEF Init, SpoolInit
  <2>2. StateOf(spool) = [j \in Jobs |-> "none"]
    BY <2>1 DEF StateOf
  <2>3. Digested(json, md) = {}
    BY DEF Init, Digested
  <2> QED
    BY <2>2, <2>3 DEF Lifecycle!LifeInit
<1>2. DigestInv /\ Alone(o) /\ OthersByHand(o) /\ [Next]_vars
        => [Lifecycle!LifeNext]_<<StateOf(spool), Digested(json, md)>>
  BY LifecycleStep
<1>3. Spec => []DigestInv
  BY DigestInvInit, DigestInvNext, PTL DEF Spec
<1> QED
  BY <1>1, <1>2, <1>3, AlwaysAlone, PTL DEF Spec, ImplementsJobLifecycle, Lifecycle!Spec

=============================================================================
