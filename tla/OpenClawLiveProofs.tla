------------------------ MODULE OpenClawLiveProofs ------------------------
(***************************************************************************)
(* The live bridge, whatever dies, fails, is applied or requeued: types    *)
(* for any number of processes, and for one process at a time that the     *)
(* records of a lease agree and that it gives one proposal and one end.    *)
(***************************************************************************)
EXTENDS OpenClawLive, SpoolProofs

-----------------------------------------------------------------------------
(* Types, and which locals are set at which point *)

RestOK ==
  /\ spool \in Files(JobFile)
  /\ index \in [Jobs -> Row \cup {NoRow}]
  /\ secret \in Secrets \cup {NoSecret}
  /\ staged \subseteq Jobs /\ evidence \subseteq Jobs
  /\ pending \in [Jobs -> SUBSET Packs] /\ applied \in [Jobs -> SUBSET Packs]
  /\ projection \in [ProjectionFiles -> 0..rev] /\ rev \in Nat /\ clock \in Nat
  /\ count \in [crashes : Nat, errors : Nat, requeues : Nat]

LocalOK(r) ==
  /\ r.pc \notin {"idle", "claim"} => r.job \in Jobs
  /\ r.pc \notin {"idle", "claim", "read"} => r.copy \in JobFile
  /\ r.op = "none" <=> r.pc \in {"idle", "validate", "preflight", "stage", "scan"}
  /\ r.op = "append" => r.pc \in {"sign", "keep", "index", "rows"}
  /\ r.op = "lease" => r.pc \in {"claim", "read", "write", "reread", "index", "rows"}
  /\ r.op = "begin" => r.pc \in {"index", "rows", "propose"}
  /\ r.op \in {"consume", "fail"} => r.pc \in {"read", "write", "index", "rows", "settle"}
  /\ r.op = "append" /\ r.pc # "sign" => r.secret \in Secrets
  /\ r.pc = "rows" /\ r.op # "append" => r.rows[r.job] \in Row
  /\ r.op = "consume" => r.pack \in Packs
  /\ r.try => r.op = "consume" \/ r.pc = "propose"
  /\ r.pc = "propose" => r.try
Typed == RestOK /\ proc \in [Procs -> Locals] /\ \A p \in Procs : LocalOK(proc[p])

LEMMA LeaseTaken == \A c \in JobFile : [c EXCEPT !.expires = NoLease] \in JobFile
  BY DEF JobFile

LEMMA RestingOK == Resting \in Locals /\ LocalOK(Resting)
<1>1. NoRows \in [Jobs -> Row \cup {NoRow}]
  BY DEF NoRows
<1> QED
  BY <1>1 DEF Resting, Locals, LocalOK, PCs

LEMMA TypedInit == Init => Typed
<1> SUFFICES ASSUME Init PROVE Typed
  OBVIOUS
<1>1. spool \in Files(JobFile)
  BY DEF Init, SpoolInit, Files
<1>2. index \in [Jobs -> Row \cup {NoRow}]
  BY DEF Init, NoRows
<1>3. RestOK
  BY <1>1, <1>2 DEF Init, RestOK, ProjectionFiles
<1> QED
  BY <1>3, RestingOK DEF Init, Typed

\* A step of a process keeps the types if its new locals have theirs.
LEMMA LocalStep ==
  ASSUME Typed, NEW p \in Procs, NEW r \in Locals, LocalOK(r), Become(p, r), RestOK'
  PROVE  Typed'
  BY DEF Typed, Become

LEMMA RaisedOK ==
  ASSUME Typed, NEW p \in Procs
  PROVE  Raised(p) \in Locals /\ LocalOK(Raised(p))
<1> DEFINE r == [proc[p] EXCEPT !.try = FALSE, !.op = "fail", !.pc = "read", !.copy = NoFile]
<1>1. proc[p] \in Locals /\ LocalOK(proc[p])
  BY DEF Typed
<1>2. r \in Locals
  BY <1>1 DEF Locals, PCs
<1>3. proc[p].try => LocalOK(r)
  BY <1>1 DEF LocalOK, Locals
<1> QED
  BY <1>2, <1>3, RestingOK DEF Raised

LEMMA NewRowTyped ==
  ASSUME Typed, NEW p \in Procs, At(p, "rows")
  PROVE  Job(p) \in Jobs /\ NewRow(p) \in Row /\ proc[p].rows \in [Jobs -> Row \cup {NoRow}]
<1> DEFINE r == proc[p]
<1>1. r \in Locals /\ LocalOK(r) /\ r.pc = "rows"
  BY DEF Typed, At
<1>2. r.job \in Jobs /\ r.copy \in JobFile /\ r.rows \in [Jobs -> Row \cup {NoRow}]
  BY <1>1 DEF LocalOK, Locals
<1>3. r.op \in {"append", "lease", "begin", "consume", "fail"}
  BY <1>1 DEF LocalOK, Locals
<1>4. CASE r.op = "append"
  <2>1. r.secret \in Secrets
    BY <1>1, <1>4 DEF LocalOK
  <2> QED
    BY <1>2, <1>4, <2>1 DEF NewRow, Row, JobFile, Statuses, Job
<1>5. CASE r.op # "append"
  <2>1. r.rows[r.job] \in Row
    BY <1>1, <1>5 DEF LocalOK
  <2>2. StatusAfter[r.op] \in Statuses
    BY <1>3 DEF StatusAfter, Statuses
  <2>3. /\ (IF r.op = "lease" THEN r.copy.expires ELSE r.rows[r.job].expires) \in Nat \cup {NoLease}
        /\ (IF r.op = "consume" THEN r.pack ELSE r.rows[r.job].pack) \in Packs \cup {NoPack}
    BY <1>1, <1>2, <2>1 DEF LocalOK, JobFile, Row
  <2> QED
    BY <1>2, <1>5, <2>1, <2>2, <2>3 DEF NewRow, Row, Job
<1> QED
  BY <1>2, <1>4, <1>5

LEMMA AfterIndexOK ==
  ASSUME Typed, NEW p \in Procs, At(p, "rows")
  PROVE  AfterIndex(p) \in Locals /\ LocalOK(AfterIndex(p))
<1> DEFINE r == [proc[p] EXCEPT !.rows = NoRows]
<1>1. proc[p] \in Locals /\ LocalOK(proc[p]) /\ proc[p].pc = "rows"
  BY DEF Typed, At
<1>2. NoRows \in [Jobs -> Row \cup {NoRow}]
  BY DEF NoRows
<1>3. /\ r \in Locals /\ r.op = proc[p].op /\ r.job = proc[p].job /\ r.copy = proc[p].copy
      /\ r.pack = proc[p].pack /\ r.try = proc[p].try /\ r.secret = proc[p].secret
  BY <1>1, <1>2 DEF Locals
<1>4. r.job \in Jobs /\ r.copy \in JobFile
      /\ r.op \in {"append", "lease", "begin", "consume", "fail"}
  BY <1>1, <1>3 DEF LocalOK, Locals
<1> HIDE DEF r
<1>5. r.op = "begin" => /\ [r EXCEPT !.pc = "propose", !.try = TRUE] \in Locals
                        /\ LocalOK([r EXCEPT !.pc = "propose", !.try = TRUE])
  BY <1>3, <1>4 DEF Locals, LocalOK, PCs
<1>6. r.op \in {"consume", "fail"} => /\ [r EXCEPT !.pc = "settle"] \in Locals
                                      /\ LocalOK([r EXCEPT !.pc = "settle"])
  BY <1>1, <1>3, <1>4 DEF Locals, LocalOK, PCs
<1> QED
  BY <1>4, <1>5, <1>6, RestingOK DEF AfterIndex, r

\* What a job file that is there holds
LEMMA FileTyped ==
  ASSUME spool \in Files(JobFile), NEW j \in Jobs, NEW d \in QueueStates, IsIn(j, d)
  PROVE  spool[d][j] \in JobFile
  BY DEF Files, IsIn

LEMMA TypedNext == Typed /\ [Next]_vars => Typed'
<1> SUFFICES ASSUME Typed, [Next]_vars PROVE Typed'
  OBVIOUS
<1>t. /\ RestOK /\ proc \in [Procs -> Locals]
      /\ \A p \in Procs : proc[p] \in Locals /\ LocalOK(proc[p])
  BY DEF Typed
<1>l. {"pending", "leased", "done", "failed"} = QueueStates
  BY DEF QueueStates
<1>q. UNCHANGED <<spool, bridge, around>> => RestOK'
  BY <1>t DEF RestOK, bridge, around
<1>e. ASSUME NEW p \in Procs, Exit(p), RestOK' PROVE Typed'
  BY <1>e, RestingOK, LocalStep DEF Exit
<1>r. ASSUME NEW p \in Procs, Raise(p), RestOK' PROVE Typed'
  BY <1>r, RaisedOK, LocalStep DEF Raise
<1>g. ASSUME NEW p \in Procs, NEW pc \in PCs, Goto(p, pc), RestOK', LocalOK([proc[p] EXCEPT !.pc = pc])
      PROVE  Typed'
  <2>1. [proc[p] EXCEPT !.pc = pc] \in Locals
    BY <1>t DEF Locals
  <2> QED
    BY <1>g, <2>1, LocalStep DEF Goto
<1>1. ASSUME NEW p \in Procs, ReadIndex(p) PROVE Typed'
  <2> DEFINE r == [proc[p] EXCEPT !.rows = index, !.pc = "rows"]
  <2>1. At(p, "index") /\ RestOK'
    BY <1>q, <1>1 DEF ReadIndex
  <2>2. CASE proc[p].op # "append" /\ index[Job(p)] = NoRow
    BY <1>1, <1>r, <2>1, <2>2 DEF ReadIndex
  <2>3. CASE ~(proc[p].op # "append" /\ index[Job(p)] = NoRow)
    <3>1. r \in Locals
      <4>1. index \in [Jobs -> Row \cup {NoRow}]
        BY <1>t DEF RestOK
      <4>2. proc[p] \in Locals /\ "rows" \in PCs
        BY <1>t DEF PCs
      <4> QED
        BY <4>1, <4>2 DEF Locals
    <3>2. proc[p].job \in Jobs /\ (proc[p].op # "append" => index[proc[p].job] \in Row)
      BY <1>t, <2>1, <2>3 DEF At, LocalOK, RestOK, Job
    <3>3. LocalOK(r)
      BY <1>t, <2>1, <3>2 DEF LocalOK, Locals, At
    <3> QED
      BY <1>1, <2>1, <2>3, <3>1, <3>3, LocalStep DEF ReadIndex
  <2> QED
    BY <2>2, <2>3
<1>2. ASSUME NEW p \in Procs, WriteIndex(p) PROVE Typed'
  <2>1. Job(p) \in Jobs /\ NewRow(p) \in Row /\ proc[p].rows \in [Jobs -> Row \cup {NoRow}]
    BY <1>2, NewRowTyped DEF WriteIndex
  <2>2. index' \in [Jobs -> Row \cup {NoRow}]
    BY <1>2, <2>1 DEF WriteIndex
  <2>3. RestOK'
    BY <1>t, <1>2, <2>2 DEF WriteIndex, RestOK, around
  <2> QED
    BY <1>2, <2>3, AfterIndexOK, LocalStep DEF WriteIndex
<1>3. ASSUME NEW p \in Procs, ReadJob(p) PROVE Typed'
  <2> DEFINE r == [proc[p] EXCEPT !.copy = spool["leased"][Job(p)], !.pc = "write"]
  <2>1. At(p, "read") /\ RestOK' /\ proc[p].job \in Jobs
    BY <1>q, <1>t, <1>3 DEF ReadJob, At, LocalOK
  <2>2. CASE ~IsIn(Job(p), "leased")
    BY <1>3, <1>r, <2>1, <2>2 DEF ReadJob
  <2>3. CASE IsIn(Job(p), "leased")
    <3>1. spool["leased"][Job(p)] \in JobFile
      BY <1>t, <1>l, <2>1, <2>3, FileTyped DEF RestOK, Job
    <3>2. r \in Locals
      <4>1. proc[p] \in Locals /\ "write" \in PCs
        BY <1>t DEF PCs
      <4> QED
        BY <3>1, <4>1 DEF Locals
    <3>3. LocalOK(r)
      BY <1>t, <2>1, <3>1 DEF LocalOK, Locals, At
    <3> QED
      BY <1>3, <2>1, <2>3, <3>2, <3>3, LocalStep DEF ReadJob
  <2> QED
    BY <2>2, <2>3
<1>4. ASSUME NEW p \in Procs, RewriteJob(p) PROVE Typed'
  <2> DEFINE c == [proc[p].copy EXCEPT
                     !.expires = IF proc[p].op = "lease" THEN clock + LeaseTime ELSE @,
                     !.pack = IF proc[p].op = "consume" THEN proc[p].pack ELSE @]
             pc == IF proc[p].op = "lease" THEN "reread" ELSE "index"
  <2>1. /\ At(p, "write") /\ proc[p].job \in Jobs /\ proc[p].copy \in JobFile
        /\ proc[p].op = "consume" => proc[p].pack \in Packs
        /\ proc[p].op \in {"lease", "consume", "fail"}
    BY <1>t, <1>4 DEF RewriteJob, At, LocalOK, Locals
  <2>2. clock + LeaseTime \in Nat
    BY <1>t, LiveAssumption DEF RestOK
  <2>3. c \in JobFile
    BY <2>1, <2>2 DEF JobFile
  <2>4. WriteJob(Job(p), "leased", c) /\ Goto(p, pc) /\ UNCHANGED <<bridge, around>>
    BY <1>4 DEF RewriteJob
  <2> HIDE DEF c
  <2>5. spool' \in Files(JobFile)
    BY <1>t, <1>l, <2>1, <2>3, <2>4, WriteEffect DEF RestOK, Job
  <2>6. RestOK'
    BY <1>t, <2>4, <2>5 DEF RestOK, bridge, around
  <2>7. LocalOK([proc[p] EXCEPT !.pc = pc]) /\ pc \in PCs
    BY <1>t, <2>1 DEF LocalOK, Locals, At, PCs
  <2> HIDE DEF pc
  <2> QED
    BY <1>g, <2>4, <2>6, <2>7
<1>5. ASSUME NEW p \in Procs, Settle(p) PROVE Typed'
  <2>1. At(p, "settle") /\ proc[p].job \in Jobs /\ UNCHANGED <<bridge, around>>
    BY <1>t, <1>5 DEF Settle, At, LocalOK
  <2>2. CASE ~IsIn(Job(p), "leased") /\ Raise(p) /\ UNCHANGED spool
    BY <1>q, <1>r, <2>1, <2>2
  <2>3. ASSUME NEW d \in {"done", "failed"}, MoveJob(Job(p), "leased", d), Exit(p) PROVE Typed'
    <3>1. spool' \in Files(JobFile)
      BY <1>t, <1>l, <2>1, <2>3, MoveEffect DEF RestOK, Job
    <3>2. RestOK'
      BY <1>t, <2>1, <3>1 DEF RestOK, bridge, around
    <3> QED
      BY <1>e, <2>3, <3>2
  <2> QED
    BY <1>5, <2>2, <2>3 DEF Settle
<1>6. ASSUME NEW p \in Procs, NEW j \in Jobs, StartIssue(p, j) PROVE Typed'
  <2> DEFINE c == [rev |-> rev, expires |-> NoLease, pack |-> NoPack]
             r == [Resting EXCEPT !.pc = "sign", !.op = "append", !.job = j, !.copy = c]
  <2>1. c \in JobFile
    BY <1>t DEF RestOK, JobFile
  <2>2. WriteJob(j, "pending", c) /\ Become(p, r) /\ UNCHANGED <<bridge, around>>
    BY <1>6 DEF StartIssue
  <2> HIDE DEF c
  <2>3. RestOK'
    BY <1>t, <1>l, <2>1, <2>2, WriteEffect DEF RestOK, bridge, around
  <2>4. r \in Locals /\ LocalOK(r)
    BY <2>1, RestingOK DEF Locals, LocalOK, Resting, PCs
  <2> QED
    BY <2>2, <2>3, <2>4, LocalStep
<1>7. ASSUME NEW p \in Procs, Sign(p) PROVE Typed'
  <2>1. /\ At(p, "sign") /\ RestOK' /\ proc[p].op = "append"
        /\ proc[p].job \in Jobs /\ proc[p].copy \in JobFile
    BY <1>q, <1>t, <1>7 DEF Sign, At, LocalOK, Locals
  <2>2. CASE secret = NoSecret
    <3>1. PICK k \in Secrets : Become(p, [proc[p] EXCEPT !.secret = k, !.pc = "keep"])
      BY <1>7, <2>2 DEF Sign
    <3> DEFINE r == [proc[p] EXCEPT !.secret = k, !.pc = "keep"]
    <3>2. r \in Locals
      <4>1. proc[p] \in Locals /\ "keep" \in PCs
        BY <1>t DEF PCs
      <4> QED
        BY <4>1 DEF Locals
    <3>3. LocalOK(r)
      BY <1>t, <2>1 DEF LocalOK, Locals, At
    <3> QED
      BY <2>1, <3>1, <3>2, <3>3, LocalStep
  <2>3. CASE secret # NoSecret
    <3> DEFINE r == [proc[p] EXCEPT !.secret = secret, !.pc = "index"]
    <3>1. secret \in Secrets
      BY <1>t, <2>3 DEF RestOK
    <3>2. r \in Locals
      <4>1. proc[p] \in Locals /\ "index" \in PCs
        BY <1>t DEF PCs
      <4> QED
        BY <3>1, <4>1 DEF Locals
    <3>3. LocalOK(r)
      BY <1>t, <2>1, <3>1 DEF LocalOK, Locals, At
    <3> QED
      BY <1>7, <2>1, <2>3, <3>2, <3>3, LocalStep DEF Sign
  <2> QED
    BY <2>2, <2>3
<1>8. ASSUME NEW p \in Procs, KeepSecret(p) PROVE Typed'
  <2>1. At(p, "keep") /\ proc[p].op = "append" /\ proc[p].secret \in Secrets
    BY <1>t, <1>8 DEF KeepSecret, At, LocalOK, Locals
  <2>2. RestOK'
    BY <1>t, <1>8, <2>1 DEF KeepSecret, RestOK, around
  <2>3. LocalOK([proc[p] EXCEPT !.pc = "index"]) /\ "index" \in PCs
    BY <1>t, <2>1 DEF LocalOK, Locals, At, PCs
  <2> QED
    BY <1>8, <1>g, <2>2, <2>3 DEF KeepSecret
<1>9. ASSUME NEW p \in Procs, StartLease(p) PROVE Typed'
  <2> DEFINE r == [Resting EXCEPT !.pc = "claim", !.op = "lease", !.todo = Listed("pending")]
  <2>1. r \in Locals /\ LocalOK(r)
    BY RestingOK DEF Locals, LocalOK, Resting, PCs, Listed
  <2> QED
    BY <1>q, <1>9, <2>1, LocalStep DEF StartLease
<1>10. ASSUME NEW p \in Procs, Claim(p) PROVE Typed'
  <2>1. PICK j \in proc[p].todo :
          \/ /\ MoveJob(j, "pending", "leased")
             /\ Become(p, [proc[p] EXCEPT !.pc = "read", !.todo = {}, !.job = j])
          \/ /\ UNCHANGED spool
             /\ Become(p, [proc[p] EXCEPT !.todo = @ \ {j}])
    BY <1>10 DEF Claim
  <2>2. /\ At(p, "claim") /\ UNCHANGED <<bridge, around>> /\ j \in Jobs
        /\ proc[p].op = "lease" /\ ~proc[p].try
    BY <1>t, <1>10 DEF Claim, Locals, LocalOK, At
  <2>3. CASE /\ MoveJob(j, "pending", "leased")
             /\ Become(p, [proc[p] EXCEPT !.pc = "read", !.todo = {}, !.job = j])
    <3> DEFINE r == [proc[p] EXCEPT !.pc = "read", !.todo = {}, !.job = j]
    <3>1. spool' \in Files(JobFile)
      BY <1>t, <1>l, <2>2, <2>3, MoveEffect DEF RestOK
    <3>2. RestOK'
      BY <1>t, <2>2, <3>1 DEF RestOK, bridge, around
    <3>3. r \in Locals
      <4>1. proc[p] \in Locals /\ {} \in SUBSET Jobs /\ j \in Jobs \cup {NoJob}
        BY <1>t, <2>2
      <4>2. proc[p] \in Locals /\ "read" \in PCs
        BY <1>t DEF PCs
      <4> QED
        BY <4>1, <4>2 DEF Locals
    <3>4. LocalOK(r)
      BY <1>t, <2>2 DEF LocalOK, Locals, At
    <3> QED
      BY <2>3, <3>2, <3>3, <3>4, LocalStep
  <2>4. CASE /\ UNCHANGED spool
             /\ Become(p, [proc[p] EXCEPT !.todo = @ \ {j}])
    <3> DEFINE r == [proc[p] EXCEPT !.todo = @ \ {j}]
    <3>1. proc[p] \in Locals
      BY <1>t
    <3>2. r \in Locals
      BY <3>1 DEF Locals
    <3>3. LocalOK(r)
      BY <1>t, <2>2 DEF LocalOK, Locals, At
    <3> QED
      BY <1>q, <2>2, <2>4, <3>2, <3>3, LocalStep
  <2> QED
    BY <2>1, <2>3, <2>4
<1>11. ASSUME NEW p \in Procs, NothingPending(p) PROVE Typed'
  BY <1>e, <1>q, <1>11 DEF NothingPending
<1>12. ASSUME NEW p \in Procs, Reread(p) PROVE Typed'
  <2> DEFINE r == [proc[p] EXCEPT !.copy = spool["leased"][Job(p)], !.pc = "index"]
  <2>1. At(p, "reread") /\ RestOK' /\ proc[p].job \in Jobs /\ proc[p].op = "lease"
    BY <1>q, <1>t, <1>12 DEF Reread, At, LocalOK, Locals
  <2>2. CASE ~IsIn(Job(p), "leased")
    BY <1>12, <1>e, <2>1, <2>2 DEF Reread
  <2>3. CASE IsIn(Job(p), "leased")
    <3>1. spool["leased"][Job(p)] \in JobFile
      BY <1>t, <1>l, <2>1, <2>3, FileTyped DEF RestOK, Job
    <3>2. r \in Locals
      <4>1. proc[p] \in Locals /\ "index" \in PCs
        BY <1>t DEF PCs
      <4> QED
        BY <3>1, <4>1 DEF Locals
    <3>3. LocalOK(r)
      BY <1>t, <2>1, <3>1 DEF LocalOK, Locals, At
    <3> QED
      BY <1>12, <2>1, <2>3, <3>2, <3>3, LocalStep DEF Reread
  <2> QED
    BY <2>2, <2>3
<1>13. ASSUME NEW p \in Procs, NEW j \in Jobs, StartRun(p, j) PROVE Typed'
  <2> DEFINE r == [Resting EXCEPT !.pc = "validate", !.job = j, !.copy = spool["leased"][j]]
  <2>1. spool["leased"][j] \in JobFile
    BY <1>t, <1>l, <1>13, FileTyped DEF RestOK, StartRun
  <2>2. r \in Locals /\ LocalOK(r)
    BY <2>1, RestingOK DEF Locals, LocalOK, Resting, PCs
  <2> QED
    BY <1>q, <1>13, <2>2, LocalStep DEF StartRun
<1>14. ASSUME NEW p \in Procs, Validate(p) PROVE Typed'
  <2> DEFINE b == index[Job(p)].status = "in_progress"
             r == [proc[p] EXCEPT !.pc = "preflight", !.resume = b]
  <2>1. At(p, "validate") /\ RestOK'
    BY <1>q, <1>14 DEF Validate
  <2>2. Become(p, r) \/ Exit(p)
    BY <1>14 DEF Validate, Exit
  <2>3. b \in BOOLEAN
    OBVIOUS
  <2> HIDE DEF b
  <2>4. r \in Locals
    <3>1. proc[p] \in Locals /\ "preflight" \in PCs
      BY <1>t DEF PCs
    <3> QED
      BY <2>3, <3>1 DEF Locals
  <2>5. LocalOK(r)
    BY <1>t, <2>1 DEF LocalOK, Locals, At
  <2> QED
    BY <1>e, <2>1, <2>2, <2>4, <2>5, LocalStep
<1>15. ASSUME NEW p \in Procs, Preflight(p) PROVE Typed'
  <2> DEFINE r == [proc[p] EXCEPT !.pc = "stage"]
  <2>1. At(p, "preflight") /\ RestOK'
    BY <1>q, <1>15 DEF Preflight
  <2>2. proc[p] \in Locals /\ "stage" \in PCs
    BY <1>t DEF PCs
  <2>3. r \in Locals
    BY <2>2 DEF Locals
  <2>4. LocalOK(r)
    BY <1>t, <2>1 DEF LocalOK, Locals, At
  <2> QED
    BY <1>15, <2>1, <2>3, <2>4, RestingOK, LocalStep DEF Preflight
<1>16. ASSUME NEW p \in Procs, Stage(p) PROVE Typed'
  <2>1. At(p, "stage") /\ proc[p].job \in Jobs
    BY <1>t, <1>16 DEF Stage, At, LocalOK
  <2>2. RestOK'
    BY <1>t, <1>16, <2>1 DEF Stage, RestOK, around, Job
  <2>3. LocalOK([proc[p] EXCEPT !.pc = "scan"]) /\ "scan" \in PCs
    BY <1>t, <2>1 DEF LocalOK, Locals, At, PCs
  <2> QED
    BY <1>16, <1>e, <1>g, <2>2, <2>3 DEF Stage
<1>17. ASSUME NEW p \in Procs, Scan(p) PROVE Typed'
  <2>1. At(p, "scan") /\ proc[p].job \in Jobs /\ RestOK' /\ proc[p].copy \in JobFile /\ ~proc[p].try
    BY <1>q, <1>t, <1>17 DEF Scan, At, LocalOK, Locals
  <2>2. ASSUME NEW m \in pending[Job(p)],
               Become(p, [proc[p] EXCEPT !.pack = m, !.op = "consume", !.pc = "read"])
        PROVE  Typed'
    <3> DEFINE r == [proc[p] EXCEPT !.pack = m, !.op = "consume", !.pc = "read"]
    <3>1. m \in Packs
      BY <1>t, <2>1 DEF RestOK, Job
    <3>2. r \in Locals
      <4>1. proc[p] \in Locals /\ m \in Packs \cup {NoPack}
        BY <1>t, <3>1
      <4>2. proc[p] \in Locals /\ "read" \in PCs
        BY <1>t DEF PCs
      <4> QED
        BY <4>1, <4>2 DEF Locals
    <3>3. LocalOK(r)
      BY <1>t, <2>1, <3>1 DEF LocalOK, Locals, At
    <3> QED
      BY <2>1, <2>2, <3>2, <3>3, LocalStep
  <2>3. CASE Become(p, [proc[p] EXCEPT !.op = "begin", !.pc = "index"])
    <3> DEFINE r == [proc[p] EXCEPT !.op = "begin", !.pc = "index"]
    <3>1. proc[p] \in Locals /\ "index" \in PCs
      BY <1>t DEF PCs
    <3>2. r \in Locals
      BY <3>1 DEF Locals
    <3>3. LocalOK(r)
      BY <1>t, <2>1 DEF LocalOK, Locals, At
    <3> QED
      BY <2>1, <2>3, <3>2, <3>3, LocalStep
  <2> QED
    BY <1>17, <2>2, <2>3 DEF Scan
<1>18. ASSUME NEW p \in Procs, NEW m \in Packs, Propose(p, m) PROVE Typed'
  <2> DEFINE r == [proc[p] EXCEPT !.pack = m, !.op = "consume", !.pc = "read"]
  <2>1. At(p, "propose") /\ proc[p].job \in Jobs
    BY <1>t, <1>18 DEF Propose, At, LocalOK
  <2>2. pending' \in [Jobs -> SUBSET Packs]
    BY <1>t, <1>18, <2>1 DEF Propose, RestOK, Job
  <2>3. RestOK'
    BY <1>t, <1>18, <2>2 DEF Propose, RestOK, around
  <2>4. r \in Locals
    <3>1. proc[p] \in Locals /\ "read" \in PCs
      BY <1>t DEF PCs
    <3> QED
      BY <3>1 DEF Locals
  <2>5. LocalOK(r)
    BY <1>t, <2>1 DEF LocalOK, Locals, At
  <2> QED
    BY <1>18, <2>3, <2>4, <2>5, LocalStep DEF Propose
<1>19. ASSUME NEW p \in Procs, SummaryRefused(p) PROVE Typed'
  BY <1>q, <1>r, <1>19 DEF SummaryRefused
<1>20. ASSUME NEW p \in Procs, Error(p) \/ Crash(p) PROVE Typed'
  <2>1. count' \in [crashes : Nat, errors : Nat, requeues : Nat]
    BY <1>t, <1>20 DEF Error, Crash, RestOK
  <2>2. RestOK'
    BY <1>t, <1>20, <2>1 DEF Error, Crash, RestOK, bridge
  <2> QED
    BY <1>e, <1>r, <1>20, <2>2 DEF Error, Crash
<1>21. CASE Around
  <2>1. UNCHANGED proc /\ RestOK' => Typed'
    BY <1>t DEF Typed
  <2>2. ASSUME NEW j \in Jobs, BindEvidence(j) PROVE Typed'
    BY <1>t, <2>1, <2>2 DEF BindEvidence, RestOK, bridge
  <2>3. ASSUME NEW j \in Jobs, BeginRequeue(j) \/ Requeue(j) PROVE Typed'
    <3>1. spool' \in Files(JobFile)
      BY <1>t, <2>3, ClearEffect, RequeueEffect, LeaseTaken DEF BeginRequeue, Requeue, RestOK
    <3>2. count' \in [crashes : Nat, errors : Nat, requeues : Nat]
      BY <1>t, <2>3 DEF BeginRequeue, Requeue, RestOK, around
    <3> QED
      BY <1>t, <2>1, <2>3, <3>1, <3>2 DEF BeginRequeue, Requeue, RestOK, bridge, around
  <2>4. ASSUME NEW j \in Jobs, NEW m \in Packs, Apply(j, m) PROVE Typed'
    <3>1. pending' \in [Jobs -> SUBSET Packs] /\ applied' \in [Jobs -> SUBSET Packs]
      BY <1>t, <2>4 DEF Apply, RestOK
    <3> QED
      BY <1>t, <2>1, <2>4, <3>1 DEF Apply, RestOK
  <2>5. ASSUME NEW f \in ProjectionFiles, Publish(f) PROVE Typed'
    <3>1. projection' \in [ProjectionFiles -> 0..rev]
      BY <1>t, <2>5 DEF Publish, RestOK
    <3> QED
      BY <1>t, <2>1, <2>5, <3>1 DEF Publish, RestOK, bridge
  <2>6. CASE Tick
    BY <1>t, <2>1, <2>6 DEF Tick, RestOK, bridge
  <2>7. CASE NewRevision
    <3>1. rev' \in Nat /\ projection' \in [ProjectionFiles -> 0..rev']
      BY <1>t, <2>7 DEF NewRevision, RestOK
    <3> QED
      BY <1>t, <2>1, <2>7, <3>1 DEF NewRevision, RestOK, bridge
  <2> QED
    BY <1>21, <2>2, <2>3, <2>4, <2>5, <2>6, <2>7 DEF Around
<1>22. CASE UNCHANGED vars
  BY <1>t, <1>q, <1>22 DEF vars, Typed
<1> QED
  BY <1>1, <1>2, <1>3, <1>4, <1>5, <1>6, <1>7, <1>8, <1>9, <1>10, <1>11, <1>12, <1>13, <1>14,
     <1>15, <1>16, <1>17, <1>18, <1>19, <1>20, <1>21, <1>22 DEF Next, Start, Advance

LEMMA AlwaysTyped == Spec => []Typed
  BY TypedInit, TypedNext, PTL DEF Spec

\* Job files, rows, secrets and the locals of the commands have their types,
\* and a row only the statuses that validate_issued_entry knows, for any number
\* of processes.
THEOREM TypeCorrect == Spec => []TypeOK
<1>1. Typed => TypeOK
  BY DEF Typed, RestOK, Files, TypeOK
<1> QED
  BY <1>1, AlwaysTyped, PTL

-----------------------------------------------------------------------------
(* One process at a time: what the files say of each other, and what the     *)
(* locals of the running command say of the files                            *)

RowsSigned == \A i \in Jobs : index[i] # NoRow => Exists(i) /\ index[i].secret = secret
ConsumedAway ==
  \A i \in Jobs : Status(i) = "consumed" => ~IsIn(i, "pending") /\ ~IsIn(i, "failed")
PacksStaged == \A i \in Jobs : PacksOf(i) # {} => i \in staged
OneEach ==
  \A i \in Jobs : count.crashes = 0 \/ applied[i] = {} => \A m, n \in PacksOf(i) : m = n
Books ==
  /\ OnePlace /\ RowsSigned /\ ConsumedAway /\ DoneNamesMutation /\ PacksStaged /\ OneEach

\* The job at work is where the command believes it is.
Hand(r) ==
  /\ r.pc = "rows" => r.rows = index
  /\ r.op = "append" => IsIn(r.job, "pending") /\ index[r.job] = NoRow
  /\ r.op # "append" /\ r.pc \notin {"idle", "claim"} => IsIn(r.job, "leased")
Keys(r) ==
  /\ r.pc = "keep" => secret = NoSecret
  /\ r.op = "append" /\ r.pc \in {"index", "rows"} => r.secret = secret
Known(r) ==
  count.crashes = 0 =>
    \A i \in Jobs : Exists(i) => index[i] # NoRow \/ (r.op = "append" /\ i = r.job)
\* A lease that is consumed is not worked on, but to settle it.
Open(r) ==
  /\ \/ r.op = "lease" /\ r.pc # "claim"
     \/ r.op = "begin"
     \/ r.op = "consume" /\ r.pc # "settle"
     \/ r.pc \in {"preflight", "stage", "scan"}
     => Status(r.job) # "consumed"
  /\ r.op = "fail" /\ Status(r.job) = "consumed" => count.errors > 0
  /\ r.op = "fail" /\ r.pc = "settle" => Status(r.job) = "failed"
\* The pack that is to be recorded was proposed for the job and is on record as
\* far as the command got.
Backed(r) ==
  /\ r.op = "consume" => r.pack \in PacksOf(r.job)
  /\ r.op = "consume" /\ r.pc \in {"index", "rows", "settle"} =>
       spool["leased"][r.job].pack = r.pack
  /\ r.op = "consume" /\ r.pc = "settle" =>
       Status(r.job) = "consumed" /\ index[r.job].pack = r.pack
\* A proposal is only made where there is none, and work is only resumed after
\* a death.
Begun(r) ==
  /\ r.pc = "scan" \/ r.op = "begin" => r.job \in staged
  /\ r.pc = "scan" /\ ~r.resume => PacksOf(r.job) = {}
  /\ r.op = "begin" => pending[r.job] = {} /\ (applied[r.job] = {} \/ count.crashes > 0)
  /\ r.resume => count.crashes > 0
  /\ count.crashes = 0 => \A i \in Jobs : Status(i) = "in_progress" =>
       i = r.job /\ (r.try \/ r.op = "fail")
AtWork(r) == Hand(r) /\ Keys(r) /\ Known(r) /\ Open(r) /\ Backed(r) /\ Begun(r)
Solo(o)   == Books /\ AtWork(proc[o])

records == <<spool, index, secret, staged, pending, applied, count>>

\* A step that only moves the command on
LEMMA FrameBooks ==
  ASSUME UNCHANGED records, Books
  PROVE  Books'
<1>1. UNCHANGED <<spool, index, secret, staged, pending, applied, count>>
  BY DEF records
<1>2. OnePlace' /\ ConsumedAway'
  BY <1>1 DEF Books, OnePlace, ConsumedAway, IsIn, Status
<1>3. RowsSigned'
  BY <1>1 DEF Books, RowsSigned, Exists, IsIn
<1>4. DoneNamesMutation'
  BY <1>1 DEF Books, DoneNamesMutation, Status, IsIn, PacksOf
<1>5. PacksStaged' /\ OneEach'
  BY <1>1 DEF Books, PacksStaged, OneEach, PacksOf
<1> QED
  BY <1>2, <1>3, <1>4, <1>5 DEF Books

LEMMA FrameWork ==
  ASSUME UNCHANGED records, NEW o, NEW r, proc'[o] = r, AtWork(r)
  PROVE  AtWork(proc[o])'
<1>1. UNCHANGED <<spool, index, secret, staged, pending, applied, count>>
  BY DEF records
<1>2. Hand(proc[o])' /\ Keys(proc[o])'
  BY <1>1 DEF AtWork, Hand, Keys, IsIn
<1>3. Known(proc[o])'
  BY <1>1 DEF AtWork, Known, Exists, IsIn
<1>4. Open(proc[o])'
  BY <1>1 DEF AtWork, Open, Status
<1>5. Backed(proc[o])'
  BY <1>1 DEF AtWork, Backed, Status, PacksOf
<1>6. Begun(proc[o])'
  BY <1>1 DEF AtWork, Begun, Status, PacksOf
<1> QED
  BY <1>2, <1>3, <1>4, <1>5, <1>6 DEF AtWork

LEMMA FrameStep ==
  ASSUME UNCHANGED records, NEW o, Solo(o), NEW r, proc'[o] = r, AtWork(r)
  PROVE  Solo(o)'
  BY FrameBooks, FrameWork DEF Solo

\* A command may end wherever nothing it has begun needs it, and anywhere after
\* a death.
LEMMA RestingAtWork ==
  ASSUME NEW r, AtWork(r),
         count.crashes = 0 =>
           r.op # "append" /\ (r.job \in Jobs => Status(r.job) # "in_progress")
  PROVE  AtWork(Resting)
<1>1. /\ Resting.pc = "idle" /\ Resting.op = "none" /\ Resting.job = NoJob
      /\ Resting.resume = FALSE /\ Resting.try = FALSE
  BY DEF Resting
<1>2. Hand(Resting) /\ Keys(Resting) /\ Open(Resting) /\ Backed(Resting)
  BY <1>1 DEF Hand, Keys, Open, Backed
<1>3. Known(Resting)
  BY <1>1 DEF AtWork, Known
<1>4. Begun(Resting)
  BY <1>1 DEF AtWork, Begun
<1> QED
  BY <1>2, <1>3, <1>4 DEF AtWork

LEMMA ResumedAfterDeath ==
  ASSUME NEW r, AtWork(r), LocalOK(r), count.crashes = 0, r.op # "fail", ~r.try
  PROVE  \A i \in Jobs : Status(i) # "in_progress"
  BY DEF AtWork, Begun

\* When the try block is left by an exception the lease is not consumed, but
\* for an operation that failed.
LEMMA RaisedAtWork ==
  ASSUME NEW o \in Procs, Typed, AtWork(proc[o]), proc[o].pc \notin {"idle", "claim"},
         proc[o].op = "append" => count.crashes > 0,
         proc[o].op = "fail" => count.crashes > 0 \/ Status(Job(o)) # "in_progress",
         Status(Job(o)) = "consumed" => count.errors > 0
  PROVE  AtWork(Raised(o))
<1> DEFINE q == proc[o]
           r == [q EXCEPT !.try = FALSE, !.op = "fail", !.pc = "read", !.copy = NoFile]
<1>1. q \in Locals /\ LocalOK(q)
  BY DEF Typed
<1>2. CASE ~q.try
  <2>1. q.job \in Jobs
    BY <1>1 DEF LocalOK
  <2>2. count.crashes = 0 => q.op # "append" /\ Status(q.job) # "in_progress"
    BY <1>1, <1>2, <2>1, ResumedAfterDeath DEF Job
  <2> QED
    BY <1>2, <2>2, RestingAtWork DEF Raised
<1>3. CASE q.try
  <2>1. /\ r.pc = "read" /\ r.op = "fail" /\ r.try = FALSE /\ r.job = q.job
        /\ r.resume = q.resume
    BY <1>1 DEF Locals
  <2>2. q.op # "append" /\ q.pc \notin {"idle", "claim"}
    BY <1>1, <1>3 DEF LocalOK
  <2>3. Raised(o) = r
    BY <1>3 DEF Raised
  <2> HIDE DEF r
  <2>4. Hand(r) /\ Keys(r)
    BY <2>1, <2>2 DEF AtWork, Hand, Keys
  <2>5. Known(r)
    BY <2>1, <2>2 DEF AtWork, Known
  <2>6. Open(r)
    BY <2>1 DEF Open, Job
  <2>7. Backed(r)
    BY <2>1 DEF Backed
  <2>8. Begun(r)
    BY <1>3, <2>1 DEF AtWork, Begun
  <2> QED
    BY <2>3, <2>4, <2>5, <2>6, <2>7, <2>8 DEF AtWork
<1> QED
  BY <1>2, <1>3


\* A command that returns, without more, from where it has no work begun
LEMMA ExitSolo ==
  ASSUME NEW o \in Procs, Typed, Solo(o), UNCHANGED records, Exit(o),
         count.crashes = 0 =>
           proc[o].op \notin {"append", "fail"} /\ ~proc[o].try
  PROVE  Solo(o)'
<1>1. proc'[o] = Resting /\ LocalOK(proc[o])
  BY DEF Exit, Become, Typed
<1>2. count.crashes = 0 /\ proc[o].job \in Jobs => Status(proc[o].job) # "in_progress"
  BY <1>1, ResumedAfterDeath DEF Solo
<1>3. AtWork(Resting)
  BY <1>2, RestingAtWork DEF Solo
<1> QED
  BY <1>1, <1>3, FrameStep

LEMMA SoloReads ==
  ASSUME NEW o, Procs = {o}, Typed, Solo(o), ReadIndex(o) \/ ReadJob(o) \/ Reread(o)
  PROVE  Solo(o)'
<1> DEFINE q == proc[o]
<1>1. /\ o \in Procs /\ q \in Locals /\ LocalOK(q) /\ AtWork(q) /\ UNCHANGED records
      /\ q.pc \in {"index", "read", "reread"} /\ q.job \in Jobs
  BY DEF Typed, ReadIndex, ReadJob, Reread, At, bridge, around, records, Solo, LocalOK
<1>2. CASE ReadJob(o) \/ Reread(o)
  <2>1. q.op # "append"
    BY <1>1, <1>2 DEF LocalOK, ReadJob, Reread, At
  <2>2. IsIn(q.job, "leased")
    BY <1>1, <2>1 DEF AtWork, Hand
  <2>3. PICK pc \in {"write", "index"} :
          /\ Become(o, [q EXCEPT !.copy = spool["leased"][Job(o)], !.pc = pc])
          /\ q.pc = "read" => pc = "write"
          /\ q.pc = "reread" => pc = "index"
    BY <1>2, <2>2 DEF ReadJob, Reread, At, Job
  <2>4. PICK r : r = [q EXCEPT !.copy = spool["leased"][Job(o)], !.pc = pc]
    OBVIOUS
  <2>5. /\ proc'[o] = r /\ r.pc = pc /\ r.op = q.op /\ r.job = q.job /\ r.pack = q.pack
        /\ r.resume = q.resume /\ r.try = q.try /\ r.secret = q.secret
    BY <1>1, <2>3, <2>4 DEF Locals, Become, Typed
  <2>6. q.pc = "reread" => q.op = "lease"
    BY <1>1 DEF LocalOK, Locals
  <2>7. Hand(r) /\ Keys(r) /\ Known(r)
    BY <1>1, <2>1, <2>3, <2>5 DEF AtWork, Hand, Keys, Known
  <2>8. Open(r) /\ Begun(r)
    BY <1>1, <2>3, <2>5, <2>6 DEF AtWork, Open, Begun, LocalOK
  <2>9. Backed(r)
    BY <1>1, <2>3, <2>5, <2>6 DEF AtWork, Backed
  <2> QED
    BY <1>1, <2>5, <2>7, <2>8, <2>9, FrameStep DEF AtWork
<1>3. CASE ReadIndex(o) /\ q.op # "append" /\ index[q.job] = NoRow
  <2>1. Raise(o) /\ Status(q.job) = "unknown" /\ Job(o) = q.job
    BY <1>3 DEF ReadIndex, Status, Job
  <2>2. AtWork(Raised(o))
    BY <1>1, <1>3, <2>1, RaisedAtWork
  <2>3. PICK r : r = Raised(o)
    OBVIOUS
  <2>4. proc'[o] = r
    BY <1>1, <2>1, <2>3 DEF Raise, Become, Typed
  <2> QED
    BY <1>1, <2>2, <2>3, <2>4, FrameStep
<1>4. CASE ReadIndex(o) /\ ~(q.op # "append" /\ index[q.job] = NoRow)
  <2>1. Become(o, [q EXCEPT !.rows = index, !.pc = "rows"]) /\ q.pc = "index"
    BY <1>4 DEF ReadIndex, Job, At
  <2>2. PICK r : r = [q EXCEPT !.rows = index, !.pc = "rows"]
    OBVIOUS
  <2>3. /\ proc'[o] = r /\ r.pc = "rows" /\ r.op = q.op /\ r.job = q.job /\ r.pack = q.pack
        /\ r.resume = q.resume /\ r.try = q.try /\ r.secret = q.secret /\ r.rows = index
    BY <1>1, <2>1, <2>2 DEF Locals, Become, Typed
  <2>4. Hand(r) /\ Keys(r) /\ Known(r)
    BY <1>1, <2>1, <2>3 DEF AtWork, Hand, Keys, Known
  <2>5. Open(r) /\ Backed(r) /\ Begun(r)
    BY <1>1, <2>1, <2>3 DEF AtWork, Open, Backed, Begun, LocalOK
  <2> QED
    BY <1>1, <2>3, <2>4, <2>5, FrameStep DEF AtWork
<1> QED
  BY <1>2, <1>3, <1>4

LEMMA SoloSigns ==
  ASSUME NEW o, Procs = {o}, Typed, Solo(o), Sign(o)
  PROVE  Solo(o)'
<1> DEFINE q == proc[o]
<1>1. /\ o \in Procs /\ q \in Locals /\ LocalOK(q) /\ AtWork(q) /\ UNCHANGED records
      /\ q.pc = "sign" /\ q.job \in Jobs /\ q.op = "append"
  BY DEF Typed, Sign, At, bridge, around, records, Solo, LocalOK, Locals
<1>2. PICK k \in Secrets \cup {NoSecret}, pc \in {"keep", "index"} :
        /\ Become(o, [q EXCEPT !.secret = k, !.pc = pc])
        /\ pc = "keep" => secret = NoSecret
        /\ pc = "index" => k = secret
  <2>1. CASE secret = NoSecret
    BY <2>1 DEF Sign
  <2>2. CASE secret # NoSecret
    BY <2>2 DEF Sign, Typed, RestOK
  <2> QED
    BY <2>1, <2>2
<1>3. PICK r : r = [q EXCEPT !.secret = k, !.pc = pc]
  OBVIOUS
<1>4. /\ proc'[o] = r /\ r.pc = pc /\ r.op = "append" /\ r.job = q.job
      /\ r.resume = q.resume /\ r.try = q.try /\ r.secret = k
  BY <1>1, <1>2, <1>3 DEF Locals, Become, Typed
<1>5. Hand(r) /\ Keys(r) /\ Known(r)
  BY <1>1, <1>2, <1>4 DEF AtWork, Hand, Keys, Known
<1>6. Open(r) /\ Backed(r) /\ Begun(r)
  BY <1>1, <1>2, <1>4 DEF AtWork, Open, Backed, Begun
<1> QED
  BY <1>1, <1>4, <1>5, <1>6, FrameStep DEF AtWork

LEMMA SoloStarts ==
  ASSUME NEW o, Procs = {o}, Typed, Solo(o),
         StartLease(o) \/ \E j \in Jobs : StartRun(o, j)
  PROVE  Solo(o)'
<1> DEFINE q == proc[o]
<1>1. /\ o \in Procs /\ q \in Locals /\ LocalOK(q) /\ AtWork(q) /\ UNCHANGED records
      /\ q.pc = "idle" /\ q.op = "none" /\ ~q.try
  BY DEF Typed, StartLease, StartRun, At, bridge, around, records, Solo, LocalOK, Locals
<1>2. count.crashes = 0 => \A i \in Jobs : Status(i) # "in_progress"
  BY <1>1, ResumedAfterDeath
<1>3. PICK r : /\ proc'[o] = r
               /\ \/ r = [Resting EXCEPT !.pc = "claim", !.op = "lease", !.todo = Listed("pending")]
                  \/ \E j \in Jobs :
                       /\ r = [Resting EXCEPT !.pc = "validate", !.job = j,
                                              !.copy = spool["leased"][j]]
                       /\ IsIn(j, "leased")
  BY <1>1 DEF StartLease, StartRun, Become, Typed
<1>4. /\ r.op \in {"none", "lease"} /\ ~r.resume /\ ~r.try
      /\ r.op = "lease" => r.pc = "claim"
      /\ r.op = "none" => r.pc = "validate" /\ IsIn(r.job, "leased")
  BY <1>3 DEF Resting
<1>5. Hand(r) /\ Keys(r) /\ Known(r)
  BY <1>1, <1>4 DEF AtWork, Hand, Keys, Known
<1>6. Open(r) /\ Backed(r)
  BY <1>4 DEF Open, Backed
<1>7. Begun(r)
  BY <1>1, <1>4 DEF AtWork, Begun
<1> QED
  BY <1>1, <1>3, <1>5, <1>6, <1>7, FrameStep DEF AtWork


LEMMA SoloChecks ==
  ASSUME NEW o, Procs = {o}, Typed, Solo(o), Validate(o) \/ Preflight(o) \/ NothingPending(o)
  PROVE  Solo(o)'
<1> DEFINE q == proc[o]
<1>1. /\ o \in Procs /\ q \in Locals /\ LocalOK(q) /\ AtWork(q) /\ UNCHANGED records
      /\ q.pc \in {"validate", "preflight", "claim"}
      /\ q.op \in {"none", "lease"} /\ ~q.try
  BY DEF Typed, Validate, Preflight, NothingPending, At, bridge, around, records, Solo,
         LocalOK, Locals
<1>2. CASE Exit(o)
  BY <1>1, <1>2, ExitSolo
<1>3. CASE Validate(o) /\ ~Exit(o)
  <2>1. /\ Valid(index[q.job], q.copy) /\ q.pc = "validate" /\ q.op = "none" /\ q.job \in Jobs
        /\ Become(o, [q EXCEPT !.pc = "preflight", !.resume = index[q.job].status = "in_progress"])
    BY <1>1, <1>3 DEF Validate, Job, Exit, At, LocalOK
  <2>2. Status(q.job) \in {"leased", "in_progress"} /\ Status(q.job) = index[q.job].status
    BY <2>1 DEF Valid, Status
  <2>3. PICK b \in BOOLEAN : b = (index[q.job].status = "in_progress")
    OBVIOUS
  <2>4. PICK r : r = [q EXCEPT !.pc = "preflight", !.resume = b]
    OBVIOUS
  <2>5. /\ proc'[o] = r /\ r.pc = "preflight" /\ r.op = "none" /\ r.job = q.job
        /\ r.resume = b /\ r.try = q.try
    BY <1>1, <2>1, <2>3, <2>4 DEF Locals, Become, Typed
  <2>6. b => count.crashes > 0
    <3>1. count.crashes = 0 => ~b
      BY <1>1, <2>1, <2>2, <2>3, ResumedAfterDeath
    <3> QED
      BY <3>1 DEF Typed, RestOK
  <2>7. Hand(r) /\ Keys(r) /\ Known(r) /\ Backed(r)
    BY <1>1, <2>1, <2>5 DEF AtWork, Hand, Keys, Known, Backed
  <2>8. Open(r)
    BY <2>2, <2>5 DEF Open
  <2>9. Begun(r)
    BY <1>1, <2>1, <2>5, <2>6 DEF AtWork, Begun
  <2> QED
    BY <1>1, <2>5, <2>7, <2>8, <2>9, FrameStep DEF AtWork
<1>4. CASE Preflight(o) /\ ~Exit(o)
  <2>1. /\ q.pc = "preflight" /\ q.op = "none" /\ q.job \in Jobs
        /\ Become(o, [q EXCEPT !.pc = "stage"])
    BY <1>1, <1>4 DEF Preflight, Job, Exit, At, LocalOK
  <2>2. PICK r : r = [q EXCEPT !.pc = "stage"]
    OBVIOUS
  <2>3. /\ proc'[o] = r /\ r.pc = "stage" /\ r.op = "none" /\ r.job = q.job
        /\ r.resume = q.resume /\ r.try = q.try
    BY <1>1, <2>1, <2>2 DEF Locals, Become, Typed
  <2>4. Hand(r) /\ Keys(r) /\ Known(r) /\ Backed(r)
    BY <1>1, <2>1, <2>3 DEF AtWork, Hand, Keys, Known, Backed
  <2>5. Open(r) /\ Begun(r)
    BY <1>1, <2>1, <2>3 DEF AtWork, Open, Begun
  <2> QED
    BY <1>1, <2>3, <2>4, <2>5, FrameStep DEF AtWork
<1> QED
  BY <1>2, <1>3, <1>4 DEF NothingPending

LEMMA SoloStages ==
  ASSUME NEW o, Procs = {o}, Typed, Solo(o), Stage(o)
  PROVE  Solo(o)'
<1> DEFINE q == proc[o]
<1>1. /\ o \in Procs /\ q \in Locals /\ LocalOK(q) /\ Books /\ AtWork(q)
      /\ q.pc = "stage" /\ q.job \in Jobs /\ q.op = "none" /\ ~q.try
      /\ UNCHANGED <<spool, index, secret, pending, around>>
  BY DEF Typed, Stage, At, Solo, LocalOK, Locals
<1>2. CASE Exit(o) /\ UNCHANGED staged
  <2>1. UNCHANGED records
    BY <1>1, <1>2 DEF records, around
  <2> QED
    BY <1>1, <1>2, <2>1, ExitSolo
<1>3. CASE ~(q.job \in staged /\ ~q.resume)
  <2>1. staged' = staged \cup {q.job} /\ Become(o, [q EXCEPT !.pc = "scan"])
    BY <1>3 DEF Stage, Goto, Job
  <2>2. UNCHANGED <<spool, index, secret, pending, applied, count>>
    BY <1>1 DEF around
  <2>3. /\ proc'[o].pc = "scan" /\ proc'[o].op = "none" /\ proc'[o].job = q.job
        /\ proc'[o].resume = q.resume /\ proc'[o].try = q.try
    BY <1>1, <2>1 DEF Locals, Become, Typed
  <2>4. OnePlace' /\ RowsSigned' /\ ConsumedAway'
    BY <1>1, <2>2 DEF Books, OnePlace, RowsSigned, ConsumedAway, Status, Exists, IsIn
  <2>5. DoneNamesMutation' /\ OneEach'
    BY <1>1, <2>2 DEF Books, DoneNamesMutation, OneEach, Status, PacksOf, IsIn
  <2>6. PacksStaged'
    BY <1>1, <2>1, <2>2 DEF Books, PacksStaged, PacksOf
  <2>7. Hand(proc[o])' /\ Keys(proc[o])' /\ Backed(proc[o])'
    BY <1>1, <2>2, <2>3 DEF AtWork, Hand, Keys, Backed, IsIn
  <2>8. Known(proc[o])'
    BY <1>1, <2>2, <2>3 DEF AtWork, Known, Exists, IsIn
  <2>9. Open(proc[o])'
    BY <1>1, <2>2, <2>3 DEF AtWork, Open, Status, Begun
  <2>10. ~q.resume => PacksOf(q.job) = {}
    BY <1>1, <1>3 DEF Books, PacksStaged
  <2>11. Begun(proc[o])'
    BY <1>1, <2>1, <2>2, <2>3, <2>10 DEF AtWork, Begun, Status, PacksOf
  <2> QED
    BY <2>4, <2>5, <2>6, <2>7, <2>8, <2>9, <2>11 DEF Solo, Books, AtWork
<1> QED
  BY <1>2, <1>3 DEF Stage, Job

LEMMA SoloScans ==
  ASSUME NEW o, Procs = {o}, Typed, Solo(o), Scan(o)
  PROVE  Solo(o)'
<1> DEFINE q == proc[o]
<1>1. /\ o \in Procs /\ q \in Locals /\ LocalOK(q) /\ AtWork(q) /\ UNCHANGED records
      /\ q.pc = "scan" /\ q.job \in Jobs /\ q.op = "none" /\ ~q.try
  BY DEF Typed, Scan, At, bridge, around, records, Solo, LocalOK, Locals
<1>2. /\ IsIn(q.job, "leased") /\ Status(q.job) # "consumed" /\ q.job \in staged
      /\ ~q.resume => PacksOf(q.job) = {}
      /\ q.resume => count.crashes > 0
  BY <1>1 DEF AtWork, Hand, Open, Begun
<1>3. ASSUME NEW m \in pending[q.job], q.resume,
             Become(o, [q EXCEPT !.pack = m, !.op = "consume", !.pc = "read"])
      PROVE  Solo(o)'
  <2>1. PICK r : r = [q EXCEPT !.pack = m, !.op = "consume", !.pc = "read"]
    OBVIOUS
  <2>2. /\ proc'[o] = r /\ r.pc = "read" /\ r.op = "consume" /\ r.job = q.job
        /\ r.resume = q.resume /\ r.try = q.try /\ r.pack = m
    BY <1>1, <1>3, <2>1 DEF Locals, Become, Typed
  <2>3. m \in PacksOf(q.job)
    BY DEF PacksOf
  <2>4. Hand(r) /\ Keys(r) /\ Backed(r) /\ Open(r)
    BY <1>2, <2>2, <2>3 DEF Hand, Keys, Backed, Open
  <2>5. Known(r) /\ Begun(r)
    BY <1>1, <1>2, <2>2 DEF AtWork, Known, Begun
  <2> QED
    BY <1>1, <2>2, <2>4, <2>5, FrameStep DEF AtWork
<1>4. ASSUME ~q.resume \/ pending[q.job] = {},
             Become(o, [q EXCEPT !.op = "begin", !.pc = "index"])
      PROVE  Solo(o)'
  <2>1. PICK r : r = [q EXCEPT !.op = "begin", !.pc = "index"]
    OBVIOUS
  <2>2. /\ proc'[o] = r /\ r.pc = "index" /\ r.op = "begin" /\ r.job = q.job
        /\ r.resume = q.resume /\ r.try = q.try
    BY <1>1, <1>4, <2>1 DEF Locals, Become, Typed
  <2>3. pending[q.job] = {} /\ (applied[q.job] = {} \/ count.crashes > 0)
    BY <1>2, <1>4 DEF PacksOf
  <2>4. Hand(r) /\ Keys(r) /\ Backed(r) /\ Open(r)
    BY <1>2, <2>2, <2>3 DEF Hand, Keys, Backed, Open
  <2>5. Known(r) /\ Begun(r)
    BY <1>1, <1>2, <2>2, <2>3 DEF AtWork, Known, Begun
  <2> QED
    BY <1>1, <2>2, <2>4, <2>5, FrameStep DEF AtWork
<1> QED
  BY <1>3, <1>4 DEF Scan, Job


LEMMA SoloWritesIndex ==
  ASSUME NEW o, Procs = {o}, Typed, Solo(o), WriteIndex(o)
  PROVE  Solo(o)'
<1> DEFINE q == proc[o]
           row == NewRow(o)
<1>j. PICK j \in Jobs : j = q.job
  BY NewRowTyped DEF WriteIndex, Job
<1>1. /\ o \in Procs /\ q \in Locals /\ LocalOK(q) /\ Books /\ AtWork(q) /\ q.pc = "rows"
      /\ q.rows = index /\ j = q.job /\ row \in Row
      /\ index' = [q.rows EXCEPT ![q.job] = row] /\ proc'[o] = AfterIndex(o)
      /\ UNCHANGED <<spool, secret, staged, pending, around>>
  BY <1>j, NewRowTyped DEF Typed, WriteIndex, At, Solo, AtWork, Hand, Job, Become
<1>2. UNCHANGED <<spool, secret, staged, pending, applied, count>>
  BY <1>1 DEF around
<1>3. /\ index'[j] = row /\ row # NoRow
      /\ \A i \in Jobs : i # j => index'[i] = index[i]
  BY <1>1, LiveFileAssumption DEF Typed, RestOK
<1>4. q.op \in {"append", "lease", "begin", "consume", "fail"}
  BY <1>1 DEF LocalOK, Locals
<1>5. /\ q.op = "append" => /\ row.status = "issued" /\ row.secret = q.secret
                            /\ index[j] = NoRow /\ q.secret = secret
      /\ q.op # "append" => /\ row.status = StatusAfter[q.op] /\ row.secret = index[j].secret
                            /\ index[j] \in Row
      /\ q.op = "consume" => row.pack = q.pack
  BY <1>1, <1>4 DEF NewRow, Row, LocalOK, AtWork, Hand, Keys, Job
<1> HIDE DEF row
<1>6. /\ q.op = "append" => row.status = "issued"
      /\ q.op = "lease" => row.status = "leased"
      /\ q.op = "begin" => row.status = "in_progress"
      /\ q.op = "consume" => row.status = "consumed"
      /\ q.op = "fail" => row.status = "failed"
  BY <1>4, <1>5 DEF StatusAfter
<1>7. /\ Status(j)' = row.status
      /\ \A i \in Jobs : i # j => Status(i)' = Status(i)
  BY <1>3 DEF Status
<1>8. \A i \in Jobs : PacksOf(i)' = PacksOf(i) /\ Exists(i)' = Exists(i)
  BY <1>2 DEF PacksOf, Exists, IsIn
<1>9. \A i \in Jobs : \A d \in QueueStates : IsIn(i, d)' = IsIn(i, d)
  BY <1>2 DEF IsIn
<1>10. /\ q.op = "append" => IsIn(j, "pending")
       /\ q.op # "append" => IsIn(j, "leased")
       /\ {"pending", "leased", "done", "failed"} \subseteq QueueStates
  BY <1>1 DEF AtWork, Hand, QueueStates
<1>11. OnePlace' /\ PacksStaged' /\ OneEach'
  BY <1>1, <1>2, <1>8, <1>9 DEF Books, OnePlace, PacksStaged, OneEach
<1>12. RowsSigned'
  <2>1. Exists(j)
    BY <1>10 DEF Exists
  <2>2. row.secret = secret
    BY <1>1, <1>5, LiveFileAssumption DEF Books, RowsSigned
  <2> QED
    BY <1>1, <1>2, <1>3, <1>8, <2>1, <2>2 DEF Books, RowsSigned
<1>13. ConsumedAway'
  <2>1. q.op # "append" => ~IsIn(j, "pending") /\ ~IsIn(j, "failed")
    BY <1>1, <1>10 DEF Books, OnePlace
  <2>2. row.status = "consumed" => q.op # "append"
    BY <1>6
  <2> QED
    BY <1>1, <1>7, <1>9, <1>10, <2>1, <2>2 DEF Books, ConsumedAway
<1>14. DoneNamesMutation'
  <2>1. ~IsIn(j, "done")
    BY <1>1, <1>10 DEF Books, OnePlace
  <2> QED
    BY <1>1, <1>2, <1>3, <1>7, <1>8, <1>9, <1>10, <2>1 DEF Books, DoneNamesMutation
<1>15. count.crashes = 0 /\ q.op # "fail" => \A i \in Jobs : Status(i) # "in_progress" \/ q.try
  BY <1>1 DEF AtWork, Begun
<1>16. CASE q.op \in {"append", "lease"}
  <2>1. proc'[o] = Resting /\ ~q.try
    BY <1>1, <1>16 DEF AfterIndex, LocalOK
  <2>2. /\ proc'[o].pc = "idle" /\ proc'[o].op = "none" /\ proc'[o].job = NoJob
        /\ proc'[o].resume = FALSE /\ proc'[o].try = FALSE
    BY <2>1 DEF Resting
  <2>3. Hand(proc[o])' /\ Keys(proc[o])' /\ Open(proc[o])' /\ Backed(proc[o])'
    BY <2>2 DEF Hand, Keys, Open, Backed
  <2>4. Known(proc[o])'
    BY <1>1, <1>2, <1>3, <1>8 DEF AtWork, Known
  <2>5. \A i \in Jobs : count.crashes = 0 => Status(i)' # "in_progress"
    BY <1>6, <1>7, <1>15, <1>16, <2>1
  <2>6. Begun(proc[o])'
    BY <1>2, <2>2, <2>5 DEF Begun
  <2> QED
    BY <1>11, <1>12, <1>13, <1>14, <2>3, <2>4, <2>6 DEF Solo, Books, AtWork
<1>17. CASE q.op \in {"begin", "consume", "fail"}
  <2>1. /\ proc'[o].op = q.op /\ proc'[o].job = j /\ proc'[o].resume = q.resume
        /\ proc'[o].pack = q.pack
        /\ q.op = "begin" => proc'[o].pc = "propose" /\ proc'[o].try = TRUE
        /\ q.op # "begin" => proc'[o].pc = "settle" /\ proc'[o].try = q.try
    BY <1>1, <1>17 DEF AfterIndex, Locals
  <2>2. Hand(proc[o])' /\ Keys(proc[o])'
    BY <1>9, <1>10, <1>17, <2>1 DEF Hand, Keys
  <2>3. Known(proc[o])'
    BY <1>1, <1>2, <1>3, <1>8 DEF AtWork, Known
  <2>4. Open(proc[o])'
    BY <1>6, <1>7, <1>17, <2>1 DEF Open
  <2>5. Backed(proc[o])'
    BY <1>1, <1>2, <1>3, <1>5, <1>6, <1>7, <1>8, <1>17, <2>1 DEF AtWork, Backed
  <2>6. q.op = "begin" => ~q.try
    BY <1>1 DEF LocalOK
  <2>7. \A i \in Jobs : count.crashes = 0 /\ Status(i)' = "in_progress" =>
          i = j /\ (proc'[o].try \/ q.op = "fail")
    <3>1. CASE q.op = "begin"
      BY <1>7, <1>15, <2>1, <2>6, <3>1
    <3>2. CASE q.op # "begin"
      BY <1>1, <1>6, <1>7, <1>17, <2>1, <3>2 DEF AtWork, Begun
    <3> QED
      BY <3>1, <3>2
  <2>8. Begun(proc[o])'
    BY <1>1, <1>2, <2>1, <2>7 DEF AtWork, Begun
  <2> QED
    BY <1>11, <1>12, <1>13, <1>14, <2>2, <2>3, <2>4, <2>5, <2>8 DEF Solo, Books, AtWork
<1> QED
  BY <1>4, <1>16, <1>17


LEMMA SoloRewritesJob ==
  ASSUME NEW o, Procs = {o}, Typed, Solo(o), RewriteJob(o)
  PROVE  Solo(o)'
<1> DEFINE q == proc[o]
           c == [q.copy EXCEPT
                   !.expires = IF q.op = "lease" THEN clock + LeaseTime ELSE @,
                   !.pack = IF q.op = "consume" THEN q.pack ELSE @]
<1>1. /\ o \in Procs /\ q \in Locals /\ LocalOK(q) /\ Books /\ AtWork(q) /\ q.pc = "write"
      /\ q.job \in Jobs /\ q.copy \in JobFile /\ q.op \in {"lease", "consume", "fail"}
      /\ q.op = "consume" => q.pack \in Packs
      /\ spool \in Files(JobFile) /\ clock + LeaseTime \in Nat
      /\ IsIn(q.job, "leased")
      /\ {"pending", "leased", "done", "failed"} \subseteq QueueStates
  BY LiveAssumption DEF Typed, RestOK, RewriteJob, At, Solo, AtWork, Hand, LocalOK, Locals,
                        QueueStates
<1>2. PICK j \in Jobs : j = q.job
  BY <1>1
<1>3. c \in JobFile /\ (q.op = "consume" => c.pack = q.pack)
  BY <1>1 DEF JobFile
<1>4. PICK d \in JobFile : d = c
  BY <1>3
<1>5. /\ WriteJob(j, "leased", d) /\ UNCHANGED <<bridge, around>>
      /\ Goto(o, IF q.op = "lease" THEN "reread" ELSE "index")
  BY <1>2, <1>4 DEF RewriteJob, Job
<1>6. UNCHANGED <<index, secret, staged, pending, applied, count>>
  BY <1>5 DEF bridge, around
<1> HIDE DEF c
<1>7. \A e \in QueueStates, i \in Jobs :
        spool'[e][i] = IF e = "leased" /\ i = j THEN d ELSE spool[e][i]
  BY <1>1, <1>5, WriteEffect
<1>8. \A i \in Jobs : \A e \in QueueStates : IsIn(i, e)' = IsIn(i, e)
  BY <1>1, <1>2, <1>7, LiveFileAssumption DEF IsIn
<1>9. \A i \in Jobs : /\ Status(i)' = Status(i) /\ PacksOf(i)' = PacksOf(i)
                      /\ Exists(i)' = Exists(i)
  BY <1>6, <1>8 DEF Status, PacksOf, Exists
<1>10. PICK pc \in {"reread", "index"} :
         /\ q.op = "lease" <=> pc = "reread"
         /\ Goto(o, pc)
  BY <1>5
<1>11. /\ proc'[o].pc = pc /\ proc'[o].op = q.op /\ proc'[o].job = j /\ proc'[o].pack = q.pack
       /\ proc'[o].resume = q.resume /\ proc'[o].try = q.try
  BY <1>1, <1>2, <1>10 DEF Goto, Become, Typed, Locals
<1>12. OnePlace' /\ RowsSigned' /\ ConsumedAway'
  BY <1>1, <1>6, <1>8, <1>9 DEF Books, OnePlace, RowsSigned, ConsumedAway
<1>13. DoneNamesMutation'
  BY <1>1, <1>6, <1>7, <1>8, <1>9 DEF Books, DoneNamesMutation
<1>14. PacksStaged' /\ OneEach'
  BY <1>1, <1>6, <1>9 DEF Books, PacksStaged, OneEach
<1>15. Hand(proc[o])' /\ Keys(proc[o])'
  BY <1>1, <1>2, <1>8, <1>10, <1>11 DEF Hand, Keys
<1>16. Known(proc[o])'
  BY <1>1, <1>6, <1>9, <1>11 DEF AtWork, Known
<1>17. Open(proc[o])'
  BY <1>1, <1>2, <1>6, <1>9, <1>10, <1>11 DEF AtWork, Open
<1>18. Backed(proc[o])'
  BY <1>1, <1>2, <1>3, <1>4, <1>7, <1>9, <1>10, <1>11 DEF AtWork, Backed
<1>19. Begun(proc[o])'
  BY <1>1, <1>2, <1>6, <1>9, <1>10, <1>11 DEF AtWork, Begun
<1> QED
  BY <1>12, <1>13, <1>14, <1>15, <1>16, <1>17, <1>18, <1>19 DEF Solo, Books, AtWork

\* The locals after a command has returned, and what then remains to be shown
LEMMA RestingNext ==
  ASSUME NEW o, Books', proc'[o] = Resting,
         count'.crashes = 0 =>
           \A i \in Jobs : /\ Status(i)' # "in_progress"
                           /\ Exists(i)' => index'[i] # NoRow
  PROVE  Solo(o)'
<1>1. /\ proc'[o].pc = "idle" /\ proc'[o].op = "none" /\ proc'[o].job = NoJob
      /\ proc'[o].resume = FALSE /\ proc'[o].try = FALSE
  BY DEF Resting
<1>2. Hand(proc[o])' /\ Keys(proc[o])' /\ Open(proc[o])' /\ Backed(proc[o])'
  BY <1>1 DEF Hand, Keys, Open, Backed
<1>3. Known(proc[o])' /\ Begun(proc[o])'
  BY <1>1 DEF Known, Begun
<1> QED
  BY <1>2, <1>3 DEF Solo, AtWork

LEMMA SoloSettles ==
  ASSUME NEW o, Procs = {o}, Typed, Solo(o), Settle(o)
  PROVE  Solo(o)'
<1> DEFINE q == proc[o]
<1>1. /\ o \in Procs /\ q \in Locals /\ LocalOK(q) /\ Books /\ AtWork(q) /\ q.pc = "settle"
      /\ q.job \in Jobs /\ q.op \in {"consume", "fail"}
      /\ spool \in Files(JobFile) /\ IsIn(q.job, "leased")
      /\ {"pending", "leased", "done", "failed"} \subseteq QueueStates
  BY DEF Typed, RestOK, Settle, At, Solo, AtWork, Hand, LocalOK, Locals, QueueStates
<1>2. PICK j \in Jobs : j = q.job
  BY <1>1
<1>3. PICK d \in {"done", "failed"} :
        /\ q.op = "consume" <=> d = "done"
        /\ MoveJob(j, "leased", d) /\ Exit(o) /\ UNCHANGED <<bridge, around>>
  BY <1>1, <1>2 DEF Settle, Job
<1>4. /\ UNCHANGED <<index, secret, staged, pending, applied, count>>
      /\ proc'[o] = Resting
  BY <1>1, <1>3 DEF bridge, around, Exit, Become, Typed
<1>5. \A e \in QueueStates, i \in Jobs :
        spool'[e][i] = IF i # j THEN spool[e][i]
                       ELSE IF e = d THEN spool["leased"][j]
                       ELSE IF e = "leased" THEN NoFile ELSE spool[e][i]
  BY <1>1, <1>3, MoveEffect
<1>6. \A i \in Jobs : \A e \in QueueStates : IsIn(i, e)' =
        IF i = j THEN e = d ELSE IsIn(i, e)
  <2>1. \A e \in QueueStates : e # "leased" => spool[e][j] = NoFile
    BY <1>1, <1>2 DEF Books, OnePlace, IsIn
  <2> QED
    BY <1>1, <1>2, <1>3, <1>5, <2>1 DEF IsIn
<1>7. \A i \in Jobs : Status(i)' = Status(i) /\ PacksOf(i)' = PacksOf(i)
  BY <1>4 DEF Status, PacksOf
<1>8. \A i \in Jobs : Exists(i)' = Exists(i)
  BY <1>1, <1>2, <1>6 DEF Exists
<1>9. /\ q.op = "fail" => Status(j) = "failed"
      /\ q.op = "consume" => /\ Status(j) = "consumed" /\ index[j].pack = q.pack
                             /\ spool["leased"][j].pack = q.pack /\ q.pack \in PacksOf(j)
  BY <1>1, <1>2 DEF AtWork, Open, Backed
<1>10. OnePlace' /\ RowsSigned'
  BY <1>1, <1>4, <1>6, <1>8 DEF Books, OnePlace, RowsSigned
<1>11. ConsumedAway'
  BY <1>1, <1>3, <1>6, <1>7, <1>9 DEF Books, ConsumedAway
<1>12. DoneNamesMutation'
  <2>1. SUFFICES ASSUME NEW i \in Jobs, IsIn(i, "done")'
                 PROVE  /\ Status(i)' = "consumed"
                        /\ spool'["done"][i].pack = index'[i].pack
                        /\ index'[i].pack \in PacksOf(i)'
    BY DEF DoneNamesMutation
  <2>2. CASE i = j
    <3>1. d = "done" /\ q.op = "consume"
      BY <1>1, <1>3, <1>6, <2>1, <2>2
    <3>2. spool'["done"][j] = spool["leased"][j]
      BY <1>1, <1>5, <3>1
    <3> QED
      BY <1>4, <1>7, <1>9, <2>2, <3>1, <3>2
  <2>3. CASE i # j
    <3>1. IsIn(i, "done") /\ spool'["done"][i] = spool["done"][i]
      BY <1>1, <1>5, <1>6, <2>1, <2>3
    <3> QED
      BY <1>1, <1>4, <1>7, <3>1 DEF Books, DoneNamesMutation
  <2> QED
    BY <2>2, <2>3
<1>13. PacksStaged' /\ OneEach'
  BY <1>1, <1>4, <1>7 DEF Books, PacksStaged, OneEach
<1>14. count.crashes = 0 =>
         \A i \in Jobs : Status(i) # "in_progress" /\ (Exists(i) => index[i] # NoRow)
  BY <1>1, <1>2, <1>9 DEF AtWork, Begun, Known
<1> QED
  BY <1>4, <1>7, <1>8, <1>10, <1>11, <1>12, <1>13, <1>14, RestingNext DEF Books


LEMMA SoloIssues ==
  ASSUME NEW o, Procs = {o}, Typed, Solo(o), NEW j \in Jobs, StartIssue(o, j)
  PROVE  Solo(o)'
<1> DEFINE q == proc[o]
           c == [rev |-> rev, expires |-> NoLease, pack |-> NoPack]
<1>1. /\ o \in Procs /\ q \in Locals /\ LocalOK(q) /\ Books /\ AtWork(q)
      /\ q.pc = "idle" /\ q.op = "none" /\ ~q.try
      /\ spool \in Files(JobFile) /\ ~Exists(j) /\ c \in JobFile
      /\ {"pending", "leased", "done", "failed"} \subseteq QueueStates
  BY DEF Typed, RestOK, StartIssue, At, Solo, LocalOK, Locals, QueueStates, JobFile
<1>2. PICK d \in JobFile : d = c
  BY <1>1
<1>3. /\ WriteJob(j, "pending", d) /\ UNCHANGED <<bridge, around>>
      /\ Become(o, [Resting EXCEPT !.pc = "sign", !.op = "append", !.job = j, !.copy = d])
  BY <1>2 DEF StartIssue
<1> HIDE DEF c
<1>4. /\ UNCHANGED <<index, secret, staged, pending, applied, count>>
      /\ proc'[o].pc = "sign" /\ proc'[o].op = "append" /\ proc'[o].job = j
      /\ proc'[o].resume = FALSE /\ proc'[o].try = FALSE
  BY <1>1, <1>3 DEF bridge, around, Become, Typed, Resting
<1>5. \A e \in QueueStates, i \in Jobs :
        spool'[e][i] = IF e = "pending" /\ i = j THEN d ELSE spool[e][i]
  BY <1>1, <1>3, WriteEffect
<1>6. \A i \in Jobs : \A e \in QueueStates : IsIn(i, e)' =
        IF i = j THEN e = "pending" ELSE IsIn(i, e)
  BY <1>1, <1>5, LiveFileAssumption DEF Exists, IsIn
<1>7. \A i \in Jobs : Status(i)' = Status(i) /\ PacksOf(i)' = PacksOf(i)
  BY <1>4 DEF Status, PacksOf
<1>8. /\ Exists(j)' /\ \A i \in Jobs : i # j => Exists(i)' = Exists(i)
      /\ \A i \in Jobs : Exists(i) => Exists(i)'
  BY <1>1, <1>6 DEF Exists
<1>9. index[j] = NoRow /\ Status(j) = "unknown"
  BY <1>1 DEF Books, RowsSigned, Status
<1>10. OnePlace' /\ RowsSigned'
  BY <1>1, <1>4, <1>6, <1>8 DEF Books, OnePlace, RowsSigned
<1>11. ConsumedAway'
  BY <1>1, <1>6, <1>7, <1>9 DEF Books, ConsumedAway
<1>12. DoneNamesMutation'
  <2>1. \A i \in Jobs : IsIn(i, "done")' =>
          i # j /\ IsIn(i, "done") /\ spool'["done"][i] = spool["done"][i]
    BY <1>1, <1>5, <1>6
  <2> QED
    BY <1>1, <1>4, <1>7, <2>1 DEF Books, DoneNamesMutation
<1>13. PacksStaged' /\ OneEach'
  BY <1>1, <1>4, <1>7 DEF Books, PacksStaged, OneEach
<1>14. Hand(proc[o])' /\ Keys(proc[o])' /\ Open(proc[o])' /\ Backed(proc[o])'
  BY <1>1, <1>4, <1>6, <1>9 DEF Hand, Keys, Open, Backed
<1>15. Known(proc[o])'
  BY <1>1, <1>4, <1>8 DEF AtWork, Known
<1>16. Begun(proc[o])'
  BY <1>1, <1>4, <1>7, ResumedAfterDeath DEF Begun
<1> QED
  BY <1>10, <1>11, <1>12, <1>13, <1>14, <1>15, <1>16 DEF Solo, Books, AtWork

LEMMA SoloKeepsSecret ==
  ASSUME NEW o, Procs = {o}, Typed, Solo(o), KeepSecret(o)
  PROVE  Solo(o)'
<1> DEFINE q == proc[o]
<1>1. /\ o \in Procs /\ q \in Locals /\ LocalOK(q) /\ Books /\ AtWork(q)
      /\ q.pc = "keep" /\ q.op = "append" /\ secret = NoSecret /\ secret' = q.secret
      /\ UNCHANGED <<spool, index, staged, pending, applied, count>> /\ Goto(o, "index")
  BY DEF Typed, KeepSecret, At, Solo, LocalOK, Locals, AtWork, Keys, around
<1>2. PICK j \in Jobs : j = q.job
  BY <1>1 DEF LocalOK
<1>3. /\ proc'[o].pc = "index" /\ proc'[o].op = "append" /\ proc'[o].job = j
      /\ proc'[o].secret = q.secret /\ proc'[o].resume = q.resume /\ proc'[o].try = q.try
  BY <1>1, <1>2 DEF Goto, Become, Typed, Locals
<1>4. \A i \in Jobs : index[i] = NoRow
  BY <1>1, LiveAssumption DEF Books, RowsSigned, Typed, RestOK, Row
<1>5. OnePlace' /\ ConsumedAway' /\ DoneNamesMutation'
  BY <1>1 DEF Books, OnePlace, ConsumedAway, DoneNamesMutation, IsIn, Status, PacksOf
<1>6. RowsSigned' /\ PacksStaged' /\ OneEach'
  BY <1>1, <1>4 DEF Books, RowsSigned, PacksStaged, OneEach, PacksOf
<1>7. Hand(proc[o])' /\ Keys(proc[o])'
  BY <1>1, <1>2, <1>3 DEF AtWork, Hand, Keys, IsIn
<1>8. Known(proc[o])'
  BY <1>1, <1>2, <1>3 DEF AtWork, Known, Exists, IsIn
<1>9. Open(proc[o])' /\ Backed(proc[o])' /\ Begun(proc[o])'
  BY <1>1, <1>2, <1>3 DEF AtWork, Open, Backed, Begun, Status
<1> QED
  BY <1>5, <1>6, <1>7, <1>8, <1>9 DEF Solo, Books, AtWork

LEMMA SoloClaims ==
  ASSUME NEW o, Procs = {o}, Typed, Solo(o), Claim(o)
  PROVE  Solo(o)'
<1> DEFINE q == proc[o]
<1>1. /\ o \in Procs /\ q \in Locals /\ LocalOK(q) /\ Books /\ AtWork(q)
      /\ q.pc = "claim" /\ q.op = "lease" /\ ~q.try /\ q.todo \subseteq Jobs
      /\ spool \in Files(JobFile) /\ UNCHANGED <<index, secret, staged, pending, applied, count>>
      /\ {"pending", "leased", "done", "failed"} \subseteq QueueStates
  BY DEF Typed, RestOK, Claim, At, Solo, LocalOK, Locals, QueueStates, bridge, around
<1>2. PICK j \in Jobs :
        \/ /\ MoveJob(j, "pending", "leased")
           /\ Become(o, [q EXCEPT !.pc = "read", !.todo = {}, !.job = j])
        \/ /\ UNCHANGED spool
           /\ Become(o, [q EXCEPT !.todo = @ \ {j}])
  BY <1>1 DEF Claim
<1>3. CASE UNCHANGED spool /\ Become(o, [q EXCEPT !.todo = @ \ {j}])
  <2>1. PICK r : r = [q EXCEPT !.todo = @ \ {j}]
    OBVIOUS
  <2>2. /\ proc'[o] = r /\ r.pc = q.pc /\ r.op = q.op /\ r.job = q.job
        /\ r.resume = q.resume /\ r.try = q.try
    BY <1>1, <1>3, <2>1 DEF Become, Typed, Locals
  <2>3. AtWork(r)
    BY <1>1, <2>2 DEF AtWork, Hand, Keys, Known, Open, Backed, Begun
  <2>4. UNCHANGED records
    BY <1>1, <1>3 DEF records
  <2> QED
    BY <2>2, <2>3, <2>4, FrameStep
<1>4. CASE /\ MoveJob(j, "pending", "leased")
           /\ Become(o, [q EXCEPT !.pc = "read", !.todo = {}, !.job = j])
  <2>1. /\ proc'[o].pc = "read" /\ proc'[o].op = "lease" /\ proc'[o].job = j
        /\ proc'[o].resume = q.resume /\ proc'[o].try = q.try
    BY <1>1, <1>4 DEF Become, Typed, Locals
  <2>2. \A e \in QueueStates, i \in Jobs :
          spool'[e][i] = IF i # j THEN spool[e][i]
                         ELSE IF e = "leased" THEN spool["pending"][j]
                         ELSE IF e = "pending" THEN NoFile ELSE spool[e][i]
    BY <1>1, <1>4, MoveEffect
  <2>3. IsIn(j, "pending")
    BY <1>4 DEF MoveJob
  <2>4. \A i \in Jobs : \A e \in QueueStates : IsIn(i, e)' =
          IF i = j THEN e = "leased" ELSE IsIn(i, e)
    <3>1. \A e \in QueueStates : e # "pending" => spool[e][j] = NoFile
      BY <1>1, <2>3 DEF Books, OnePlace, IsIn
    <3> QED
      BY <1>1, <2>2, <2>3, <3>1 DEF IsIn
  <2>5. \A i \in Jobs : Status(i)' = Status(i) /\ PacksOf(i)' = PacksOf(i)
    BY <1>1 DEF Status, PacksOf
  <2>6. \A i \in Jobs : Exists(i)' = Exists(i)
    BY <1>1, <2>3, <2>4 DEF Exists
  <2>7. Status(j) # "consumed"
    BY <1>1, <2>3 DEF Books, ConsumedAway
  <2>8. OnePlace' /\ RowsSigned'
    BY <1>1, <2>4, <2>6 DEF Books, OnePlace, RowsSigned
  <2>9. ConsumedAway'
    BY <1>1, <2>4, <2>5, <2>7 DEF Books, ConsumedAway
  <2>10. DoneNamesMutation'
    <3>1. \A i \in Jobs : IsIn(i, "done")' =>
            IsIn(i, "done") /\ spool'["done"][i] = spool["done"][i]
      BY <1>1, <2>2, <2>4
    <3> QED
      BY <1>1, <2>5, <3>1 DEF Books, DoneNamesMutation
  <2>11. PacksStaged' /\ OneEach'
    BY <1>1, <2>5 DEF Books, PacksStaged, OneEach
  <2>12. Hand(proc[o])' /\ Keys(proc[o])' /\ Open(proc[o])' /\ Backed(proc[o])'
    BY <1>1, <2>1, <2>4, <2>5, <2>7 DEF Hand, Keys, Open, Backed
  <2>13. Known(proc[o])'
    BY <1>1, <2>1, <2>6 DEF AtWork, Known
  <2>14. Begun(proc[o])'
    BY <1>1, <2>1, <2>5, ResumedAfterDeath DEF AtWork, Begun
  <2> QED
    BY <2>8, <2>9, <2>10, <2>11, <2>12, <2>13, <2>14 DEF Solo, Books, AtWork
<1> QED
  BY <1>2, <1>3, <1>4

LEMMA SoloProposes ==
  ASSUME NEW o, Procs = {o}, Typed, Solo(o), NEW m \in Packs, Propose(o, m)
  PROVE  Solo(o)'
<1> DEFINE q == proc[o]
<1>1. /\ o \in Procs /\ q \in Locals /\ LocalOK(q) /\ Books /\ AtWork(q)
      /\ q.pc = "propose" /\ q.op = "begin" /\ q.try
      /\ pending \in [Jobs -> SUBSET Packs]
      /\ UNCHANGED <<spool, index, secret, staged, applied, count>>
  BY DEF Typed, RestOK, Propose, At, Solo, LocalOK, Locals, around
<1>2. PICK j \in Jobs : j = q.job
  BY <1>1 DEF LocalOK
<1>3. pending' = [pending EXCEPT ![j] = @ \cup {m}]
  BY <1>2 DEF Propose, Job
<1>4. /\ proc'[o].pc = "read" /\ proc'[o].op = "consume" /\ proc'[o].job = j
      /\ proc'[o].pack = m /\ proc'[o].resume = q.resume /\ proc'[o].try = q.try
  BY <1>1, <1>2 DEF Propose, Become, Typed, Locals
<1>5. /\ IsIn(j, "leased") /\ Status(j) # "consumed" /\ j \in staged
      /\ pending[j] = {} /\ (applied[j] = {} \/ count.crashes > 0)
  BY <1>1, <1>2 DEF AtWork, Hand, Open, Begun
<1>6. \A i \in Jobs : PacksOf(i)' = IF i = j THEN applied[j] \cup {m} ELSE PacksOf(i)
  BY <1>1, <1>3, <1>5 DEF PacksOf
<1>7. \A i \in Jobs : PacksOf(i) \subseteq PacksOf(i)'
  BY <1>5, <1>6 DEF PacksOf
<1>8. OnePlace' /\ ConsumedAway'
  BY <1>1 DEF Books, OnePlace, ConsumedAway, IsIn, Status
<1>9. RowsSigned'
  BY <1>1 DEF Books, RowsSigned, Exists, IsIn
<1>10. DoneNamesMutation'
  BY <1>1, <1>7 DEF Books, DoneNamesMutation, IsIn, Status
<1>11. PacksStaged'
  BY <1>1, <1>5, <1>6 DEF Books, PacksStaged
<1>12. OneEach'
  <2>1. count.crashes \in Nat
    BY DEF Typed, RestOK
  <2> QED
    BY <1>1, <1>5, <1>6, <2>1 DEF Books, OneEach
<1>13. Hand(proc[o])' /\ Keys(proc[o])'
  BY <1>1, <1>4, <1>5 DEF Hand, Keys, IsIn
<1>14. Known(proc[o])'
  BY <1>1, <1>4 DEF AtWork, Known, Exists, IsIn
<1>15. Open(proc[o])' /\ Backed(proc[o])'
  BY <1>1, <1>4, <1>5, <1>6 DEF Open, Backed, Status
<1>16. Begun(proc[o])'
  BY <1>1, <1>2, <1>4 DEF AtWork, Begun, Status
<1> QED
  BY <1>8, <1>9, <1>10, <1>11, <1>12, <1>13, <1>14, <1>15, <1>16 DEF Solo, Books, AtWork


LEMMA SoloRefused ==
  ASSUME NEW o, Procs = {o}, Typed, Solo(o), SummaryRefused(o)
  PROVE  Solo(o)'
<1>1. /\ o \in Procs /\ proc[o] \in Locals /\ LocalOK(proc[o]) /\ AtWork(proc[o])
      /\ proc[o].pc = "propose" /\ UNCHANGED records /\ proc'[o] = Raised(o)
  BY DEF Typed, SummaryRefused, At, Solo, bridge, around, records, Raise, Become
<1>2. proc[o].op = "begin" /\ Status(Job(o)) # "consumed"
  BY <1>1 DEF AtWork, Open, LocalOK, Locals, Job
<1>3. AtWork(Raised(o))
  BY <1>1, <1>2, RaisedAtWork
<1>4. PICK r : r = Raised(o)
  OBVIOUS
<1> QED
  BY <1>1, <1>3, <1>4, FrameStep

LEMMA SoloFails ==
  ASSUME NEW o, Procs = {o}, Typed, Solo(o), Error(o)
  PROVE  Solo(o)'
<1> DEFINE q == proc[o]
<1>1. /\ o \in Procs /\ q \in Locals /\ LocalOK(q) /\ Books /\ AtWork(q) /\ q.try
      /\ UNCHANGED <<spool, index, secret, staged, pending, applied>>
      /\ count.errors \in Nat
      /\ count'.errors = count.errors + 1 /\ count'.crashes = count.crashes
      /\ proc'[o] = Raised(o)
  BY DEF Typed, RestOK, Error, Solo, bridge, Raise, Become
<1>2. PICK j \in Jobs : j = q.job
  BY <1>1 DEF LocalOK
<1>3. /\ proc'[o].pc = "read" /\ proc'[o].op = "fail" /\ proc'[o].job = j
      /\ proc'[o].resume = q.resume /\ proc'[o].try = FALSE
  BY <1>1, <1>2 DEF Raised, Locals
<1>4. q.op # "append" /\ q.pc \notin {"idle", "claim"}
  BY <1>1 DEF LocalOK
<1>5. OnePlace' /\ ConsumedAway' /\ DoneNamesMutation'
  BY <1>1 DEF Books, OnePlace, ConsumedAway, DoneNamesMutation, IsIn, Status, PacksOf
<1>6. RowsSigned' /\ PacksStaged' /\ OneEach'
  BY <1>1 DEF Books, RowsSigned, PacksStaged, OneEach, PacksOf, Exists, IsIn
<1>7. Hand(proc[o])' /\ Keys(proc[o])'
  BY <1>1, <1>2, <1>3, <1>4 DEF AtWork, Hand, Keys, IsIn
<1>8. Known(proc[o])'
  BY <1>1, <1>2, <1>3, <1>4 DEF AtWork, Known, Exists, IsIn
<1>9. Open(proc[o])' /\ Backed(proc[o])' /\ Begun(proc[o])'
  BY <1>1, <1>2, <1>3 DEF AtWork, Open, Backed, Begun, Status
<1> QED
  BY <1>5, <1>6, <1>7, <1>8, <1>9 DEF Solo, Books, AtWork

LEMMA SoloDies ==
  ASSUME NEW o, Procs = {o}, Typed, Solo(o), Crash(o)
  PROVE  Solo(o)'
<1>1. /\ Books /\ UNCHANGED <<spool, index, secret, staged, pending, applied>>
      /\ count.crashes \in Nat /\ count'.crashes = count.crashes + 1
      /\ proc'[o] = Resting
  BY DEF Typed, RestOK, Crash, Solo, bridge, Exit, Become
<1>2. OnePlace' /\ ConsumedAway' /\ DoneNamesMutation'
  BY <1>1 DEF Books, OnePlace, ConsumedAway, DoneNamesMutation, IsIn, Status, PacksOf
<1>3. RowsSigned' /\ PacksStaged' /\ OneEach'
  BY <1>1 DEF Books, RowsSigned, PacksStaged, OneEach, PacksOf, Exists, IsIn
<1> QED
  BY <1>1, <1>2, <1>3, RestingNext DEF Books

LEMMA SoloCleared ==
  ASSUME NEW o, Procs = {o}, Typed, Solo(o), NEW j \in Jobs, BeginRequeue(j)
  PROVE  Solo(o)'
<1>1. /\ o \in Procs /\ proc[o] \in Locals /\ LocalOK(proc[o]) /\ Books /\ AtWork(proc[o])
      /\ spool \in Files(JobFile) /\ ClearFailed(j)
      /\ UNCHANGED <<index, secret, staged, pending, applied, proc, count>>
      /\ {"pending", "leased", "done", "failed"} \subseteq QueueStates
  BY DEF Typed, RestOK, BeginRequeue, Solo, bridge, around, QueueStates
<1>2. /\ IsIn(j, "failed") /\ [spool["failed"][j] EXCEPT !.expires = NoLease] \in JobFile
      /\ \A e \in QueueStates, i \in Jobs :
           spool'[e][i] = IF e = "failed" /\ i = j
                            THEN [spool["failed"][j] EXCEPT !.expires = NoLease] ELSE spool[e][i]
  BY <1>1, ClearEffect, LeaseTaken
<1>3. \A i \in Jobs, e \in QueueStates : IsIn(i, e)' = IsIn(i, e)
  BY <1>2, LiveFileAssumption DEF IsIn
<1>4. \A i \in Jobs : /\ Status(i)' = Status(i) /\ PacksOf(i)' = PacksOf(i)
                      /\ Exists(i)' = Exists(i)
  BY <1>1, <1>3 DEF Status, PacksOf, Exists
<1>5. \A i \in Jobs : \A e \in {"leased", "done"} : spool'[e][i] = spool[e][i]
  BY <1>1, <1>2
<1>6. OnePlace' /\ RowsSigned' /\ ConsumedAway' /\ PacksStaged' /\ OneEach'
  BY <1>1, <1>3, <1>4 DEF Books, OnePlace, RowsSigned, ConsumedAway, PacksStaged, OneEach
<1>7. DoneNamesMutation'
  BY <1>1, <1>3, <1>4, <1>5 DEF Books, DoneNamesMutation
<1>8. /\ proc[o].op # "append" /\ proc[o].pc \notin {"idle", "claim"} => proc[o].job \in Jobs
      /\ proc[o].op = "append" => proc[o].job \in Jobs
      /\ proc[o].op \in {"consume", "lease", "begin"} /\ proc[o].pc # "claim" => proc[o].job \in Jobs
  BY <1>1 DEF LocalOK, Locals
<1>9. Hand(proc[o])' /\ Keys(proc[o])'
  BY <1>1, <1>3, <1>8 DEF AtWork, Hand, Keys
<1>10. Open(proc[o])' /\ Begun(proc[o])'
  BY <1>1, <1>4, <1>8 DEF AtWork, Open, Begun, Status, PacksOf
<1>11. Backed(proc[o])'
  BY <1>1, <1>4, <1>5, <1>8 DEF AtWork, Backed, LocalOK, Status, PacksOf
<1>12. Known(proc[o])'
  BY <1>1, <1>4 DEF AtWork, Known
<1> QED
  BY <1>1, <1>6, <1>7, <1>9, <1>10, <1>11, <1>12 DEF Solo, Books, AtWork

LEMMA SoloRequeued ==
  ASSUME NEW o, Procs = {o}, Typed, Solo(o), NEW j \in Jobs, Requeue(j)
  PROVE  Solo(o)'
<1> DEFINE q == proc[o]
<1>1. /\ o \in Procs /\ q \in Locals /\ LocalOK(q) /\ Books /\ AtWork(q) /\ spool \in Files(JobFile)
      /\ UNCHANGED <<index, secret, staged, pending, applied, proc>> /\ RequeueFailed(j)
      /\ count'.crashes = count.crashes /\ count'.errors = count.errors
      /\ {"pending", "leased", "done", "failed"} \subseteq QueueStates
  BY DEF Typed, RestOK, Requeue, Solo, bridge, QueueStates
<1>2. /\ IsIn(j, "failed") /\ spool'["pending"][j] \in JobFile
      /\ \A e \in QueueStates, i \in Jobs :
           i # j \/ e \notin {"failed", "pending"} => spool'[e][i] = spool[e][i]
      /\ spool'["failed"][j] = NoFile
  BY <1>1, RequeueEffect
<1>3. \A i \in Jobs : \A e \in QueueStates : IsIn(i, e)' =
        IF i = j THEN e = "pending" ELSE IsIn(i, e)
  <2>1. \A e \in QueueStates : e # "failed" => spool[e][j] = NoFile
    BY <1>1, <1>2 DEF Books, OnePlace, IsIn
  <2> QED
    BY <1>1, <1>2, <2>1, LiveFileAssumption DEF IsIn
<1>4. \A i \in Jobs : Status(i)' = Status(i) /\ PacksOf(i)' = PacksOf(i)
  BY <1>1 DEF Status, PacksOf
<1>5. \A i \in Jobs : Exists(i)' = Exists(i)
  BY <1>1, <1>2, <1>3 DEF Exists
<1>6. OnePlace' /\ RowsSigned'
  BY <1>1, <1>3, <1>5 DEF Books, OnePlace, RowsSigned
<1>7. ConsumedAway'
  BY <1>1, <1>2, <1>3, <1>4 DEF Books, ConsumedAway
<1>8. DoneNamesMutation'
  <2>1. \A i \in Jobs : IsIn(i, "done")' =>
          IsIn(i, "done") /\ spool'["done"][i] = spool["done"][i]
    BY <1>1, <1>2, <1>3
  <2> QED
    BY <1>1, <1>4, <2>1 DEF Books, DoneNamesMutation
<1>9. PacksStaged' /\ OneEach'
  BY <1>1, <1>4 DEF Books, PacksStaged, OneEach
<1>10. CASE q.job = j
  <2>1. q.pc \in {"idle", "claim"}
    BY <1>1, <1>2, <1>10 DEF AtWork, Hand, Books, OnePlace, LocalOK
  <2>2. q.op \in {"none", "lease"} /\ (q.op = "lease" => q.pc = "claim")
    BY <1>1, <2>1 DEF LocalOK, Locals
  <2>3. Hand(proc[o])' /\ Keys(proc[o])' /\ Open(proc[o])' /\ Backed(proc[o])'
    BY <1>1, <2>1, <2>2 DEF Hand, Keys, Open, Backed
  <2>4. Known(proc[o])'
    BY <1>1, <1>5 DEF AtWork, Known
  <2>5. Begun(proc[o])'
    BY <1>1, <1>4, <2>1, <2>2 DEF AtWork, Begun
  <2> QED
    BY <1>6, <1>7, <1>8, <1>9, <2>3, <2>4, <2>5 DEF Solo, Books, AtWork
<1>11. CASE q.job # j
  <2>1. CASE q.job \notin Jobs
    <3>1. q.pc \in {"idle", "claim"} /\ q.op \in {"none", "lease"}
          /\ (q.op = "lease" => q.pc = "claim")
      BY <1>1, <2>1 DEF LocalOK, Locals
    <3>2. Hand(proc[o])' /\ Keys(proc[o])' /\ Open(proc[o])' /\ Backed(proc[o])'
      BY <1>1, <3>1 DEF Hand, Keys, Open, Backed
    <3>3. Known(proc[o])'
      BY <1>1, <1>5 DEF AtWork, Known
    <3>4. Begun(proc[o])'
      BY <1>1, <1>4, <3>1 DEF AtWork, Begun
    <3> QED
      BY <1>6, <1>7, <1>8, <1>9, <3>2, <3>3, <3>4 DEF Solo, Books, AtWork
  <2>2. CASE q.job \in Jobs
    <3>1. PICK i \in Jobs : i = q.job
      BY <2>2
    <3>2. /\ \A e \in QueueStates : IsIn(i, e)' = IsIn(i, e)
          /\ spool'["leased"][i] = spool["leased"][i]
          /\ Status(i)' = Status(i) /\ PacksOf(i)' = PacksOf(i)
      BY <1>1, <1>2, <1>3, <1>4, <1>11, <3>1
    <3>3. Hand(proc[o])' /\ Keys(proc[o])'
      BY <1>1, <3>1, <3>2 DEF AtWork, Hand, Keys
    <3>4. Known(proc[o])'
      BY <1>1, <1>5 DEF AtWork, Known
    <3>5. Open(proc[o])' /\ Backed(proc[o])'
      BY <1>1, <3>1, <3>2 DEF AtWork, Open, Backed
    <3>6. Begun(proc[o])'
      BY <1>1, <1>4, <3>1, <3>2 DEF AtWork, Begun
    <3> QED
      BY <1>6, <1>7, <1>8, <1>9, <3>3, <3>4, <3>5, <3>6 DEF Solo, Books, AtWork
  <2> QED
    BY <2>1, <2>2
<1> QED
  BY <1>10, <1>11

LEMMA SoloApplied ==
  ASSUME NEW o, Procs = {o}, Typed, Solo(o), NEW j \in Jobs, NEW m \in Packs, Apply(j, m)
  PROVE  Solo(o)'
<1> DEFINE q == proc[o]
<1>1. /\ q \in Locals /\ LocalOK(q) /\ Books /\ AtWork(q)
      /\ UNCHANGED <<spool, index, secret, staged, count, proc>>
      /\ m \in pending[j] /\ count.crashes \in Nat
      /\ \A i \in Jobs : pending'[i] = IF i = j THEN pending[i] \ {m} ELSE pending[i]
      /\ \A i \in Jobs : applied'[i] = IF i = j THEN applied[i] \cup {m} ELSE applied[i]
  BY DEF Typed, RestOK, Apply, Solo
<1>2. \A i \in Jobs : Status(i)' = Status(i) /\ PacksOf(i)' = PacksOf(i)
  BY <1>1 DEF Status, PacksOf
<1>3. OnePlace' /\ ConsumedAway'
  BY <1>1 DEF Books, OnePlace, ConsumedAway, IsIn, Status
<1>4. RowsSigned'
  BY <1>1 DEF Books, RowsSigned, Exists, IsIn
<1>5. DoneNamesMutation' /\ PacksStaged'
  BY <1>1, <1>2 DEF Books, DoneNamesMutation, PacksStaged, IsIn
<1>6. OneEach'
  <2>1. \A i \in Jobs : applied'[i] = {} => applied[i] = {}
    BY <1>1
  <2> QED
    BY <1>1, <1>2, <2>1 DEF Books, OneEach
<1>7. Hand(proc[o])' /\ Keys(proc[o])'
  BY <1>1 DEF AtWork, Hand, Keys, IsIn
<1>8. Known(proc[o])'
  BY <1>1 DEF AtWork, Known, Exists, IsIn
<1>9. Open(proc[o])'
  BY <1>1 DEF AtWork, Open, Status
<1>10. q.pc = "scan" \/ q.op \in {"begin", "consume"} => q.job \in Jobs
  BY <1>1 DEF LocalOK
<1>11. PICK i : i = q.job
  OBVIOUS
<1>12. Backed(proc[o])'
  BY <1>1, <1>2, <1>10, <1>11 DEF AtWork, Backed, Status
<1>13. Begun(proc[o])'
  BY <1>1, <1>2, <1>10, <1>11 DEF AtWork, Begun
<1> QED
  BY <1>3, <1>4, <1>5, <1>6, <1>7, <1>8, <1>9, <1>12, <1>13 DEF Solo, Books, AtWork

LEMMA SoloInit ==
  ASSUME NEW o, Procs = {o}, Init
  PROVE  Solo(o)
<1>1. /\ proc[o] = Resting /\ \A i \in Jobs : /\ index[i] = NoRow /\ Status(i) = "unknown"
                                              /\ PacksOf(i) = {} /\ ~Exists(i)
  BY DEF Init, NoRows, Status, PacksOf, Exists, SpoolInit, IsIn
<1>2. \A i \in Jobs : \A d \in QueueStates : ~IsIn(i, d)
  BY DEF Init, SpoolInit, IsIn
<1>3. /\ proc[o].pc = "idle" /\ proc[o].op = "none" /\ proc[o].resume = FALSE
  BY <1>1 DEF Resting
<1>4. Books
  BY <1>1, <1>2 DEF Books, OnePlace, RowsSigned, ConsumedAway, DoneNamesMutation, PacksStaged,
                    OneEach, QueueStates
<1>5. AtWork(proc[o])
  BY <1>1, <1>3 DEF AtWork, Hand, Keys, Known, Open, Backed, Begun
<1> QED
  BY <1>4, <1>5 DEF Solo

LEMMA SoloNext ==
  ASSUME NEW o, Procs = {o}
  PROVE  Typed /\ Solo(o) /\ [Next]_vars => Solo(o)'
<1> SUFFICES ASSUME Typed, Solo(o), [Next]_vars PROVE Solo(o)'
  OBVIOUS
<1>1. CASE UNCHANGED records /\ UNCHANGED proc
  <2>1. PICK r : r = proc[o]
    OBVIOUS
  <2> QED
    BY <1>1, <2>1, FrameStep DEF Solo
<1>2. CASE Around
  <2>1. ASSUME NEW j \in Jobs, BindEvidence(j) PROVE Solo(o)'
    BY <1>1, <2>1 DEF BindEvidence, records, bridge
  <2>2. ASSUME NEW f \in ProjectionFiles, Publish(f) PROVE Solo(o)'
    BY <1>1, <2>2 DEF Publish, records, bridge
  <2>3. CASE Tick \/ NewRevision
    BY <1>1, <2>3 DEF Tick, NewRevision, records, bridge
  <2> QED
    BY <1>2, <2>1, <2>2, <2>3, SoloCleared, SoloRequeued, SoloApplied DEF Around
<1>3. CASE Start(o)
  BY <1>3, SoloStarts, SoloIssues DEF Start
<1>4. CASE Advance(o)
  BY <1>4, SoloReads, SoloWritesIndex, SoloRewritesJob, SoloSettles, SoloSigns,
     SoloKeepsSecret, SoloClaims, SoloChecks, SoloStages, SoloScans, SoloProposes,
     SoloRefused DEF Advance
<1>5. CASE Error(o) \/ Crash(o)
  BY <1>5, SoloFails, SoloDies
<1>6. CASE UNCHANGED vars
  BY <1>1, <1>6 DEF vars, bridge, around, records
<1> QED
  BY <1>2, <1>3, <1>4, <1>5, <1>6 DEF Next

LEMMA AlwaysSolo ==
  ASSUME NEW o, Procs = {o}
  PROVE  Spec => []Solo(o)
<1>1. Init => Solo(o)
  BY SoloInit
<1>2. Typed /\ Solo(o) /\ [Next]_vars => Solo(o)'
  BY SoloNext
<1> QED
  BY <1>1, <1>2, AlwaysTyped, PTL DEF Spec

\* A job in done/ names the pack its row names, the row is consumed and the pack
\* was proposed for the job: while one process at a time runs the bridge, through
\* deaths, failing operations, requeues and applies between the four writes.
THEOREM RecordsOfDoneAgree ==
  ASSUME NEW o, Procs = {o}
  PROVE  Spec => []DoneNamesMutation
<1>1. Solo(o) => DoneNamesMutation
  BY DEF Solo, Books
<1> QED
  BY <1>1, AlwaysSolo, PTL

\* The index knows every job once the commands have returned and none died, and
\* each row is signed with the secret it will be checked against.
THEOREM IndexComplete ==
  ASSUME NEW o, Procs = {o}
  PROVE  Spec => []IndexKnowsEveryJob
<1>1. Typed /\ Solo(o) => IndexKnowsEveryJob
  BY DEF Typed, Solo, Books, AtWork, RowsSigned, Known, LocalOK, IndexKnowsEveryJob, AllIdle, At
<1> QED
  BY <1>1, AlwaysSolo, AlwaysTyped, PTL

\* A retry after a death finds the first proposal as long as apply has not moved
\* it on, and without a death nothing leads to a second one.
THEOREM RetryFindsProposal ==
  ASSUME NEW o, Procs = {o}
  PROVE  Spec => []RetryKeepsProposal
<1>1. Solo(o) => RetryKeepsProposal
  BY DEF Solo, Books, OneEach, RetryKeepsProposal, OneMutationPerLease
<1> QED
  BY <1>1, AlwaysSolo, PTL


\* Only WriteIndex changes a row, and the only command that has got there with a
\* consumed row is fail_lease, after an operation of the try block failed.
LEMMA ConsumedStep ==
  ASSUME NEW o, Procs = {o}, Typed, Solo(o), [Next]_vars, NEW j \in Jobs, Status(j) = "consumed"
  PROVE  \/ index'[j] = index[j]
         \/ count.errors > 0 /\ index'[j] = [index[j] EXCEPT !.status = "failed"]
<1> DEFINE q == proc[o]
<1>1. CASE UNCHANGED index
  BY <1>1
<1>2. CASE WriteIndex(o)
  <2>1. /\ q.pc = "rows" /\ q.rows = index /\ q.job \in Jobs /\ LocalOK(q) /\ AtWork(q)
        /\ index' = [index EXCEPT ![q.job] = NewRow(o)] /\ q \in Locals
        /\ index \in [Jobs -> Row \cup {NoRow}]
    BY <1>2, NewRowTyped DEF WriteIndex, At, Typed, RestOK, Solo, AtWork, Hand, Job
  <2>2. CASE j = q.job
    <3>1. q.op = "fail" /\ count.errors > 0
      BY <2>1, <2>2 DEF AtWork, Hand, Open, Status, LocalOK, Locals
    <3>2. NewRow(o) = [index[j] EXCEPT !.status = "failed"]
      <4>1. index[j] \in Row
        BY <2>1, <2>2, <3>1 DEF LocalOK
      <4>2. NewRow(o) = [index[j] EXCEPT !.status = "failed", !.expires = index[j].expires,
                                         !.pack = index[j].pack]
        <5>1. StatusAfter[q.op] = "failed" /\ q.rows[Job(o)] = index[j]
          BY <2>1, <2>2, <3>1 DEF StatusAfter, Job
        <5> QED
          BY <3>1, <5>1 DEF NewRow
      <4>3. PICK x \in Row : x = index[j]
        BY <4>1
      <4>4. [x EXCEPT !.status = "failed", !.expires = x.expires, !.pack = x.pack]
              = [x EXCEPT !.status = "failed"]
        BY DEF Row
      <4> QED
        BY <4>2, <4>3, <4>4
    <3> QED
      BY <2>1, <2>2, <3>1, <3>2
  <2>3. CASE j # q.job
    BY <2>1, <2>3
  <2> QED
    BY <2>2, <2>3
<1>3. Next /\ ~WriteIndex(o) => UNCHANGED index
  BY DEF Next, Around, Start, Advance, BindEvidence, BeginRequeue, Requeue, Apply,
     Publish, Tick, NewRevision, StartIssue, StartRun, StartLease, ReadIndex, ReadJob, RewriteJob, Settle, Sign, KeepSecret,
     Claim, NothingPending, Reread, Validate, Preflight, Stage, Scan, Propose, SummaryRefused,
     Error, Crash, bridge
<1> QED
  BY <1>1, <1>2, <1>3 DEF vars, bridge

\* A consumed lease stays consumed, by the same pack; it turns into a failed one
\* only when an operation of the try block failed.
THEOREM ConsumedStays ==
  ASSUME NEW o, Procs = {o}
  PROVE  Spec => ConsumedIsFinal
<1>1. Typed /\ Solo(o) /\ [Next]_vars =>
        [\A j \in Jobs : Status(j) = "consumed" =>
           \/ index'[j] = index[j]
           \/ count.errors > 0 /\ index'[j] = [index[j] EXCEPT !.status = "failed"]]_vars
  BY ConsumedStep
<1> QED
  BY <1>1, AlwaysSolo, AlwaysTyped, PTL DEF Spec, ConsumedIsFinal

-----------------------------------------------------------------------------
(* The writeback queue implements JobLifecycle *)

\* The state of a job that has one file
LEMMA LifecycleStep ==
  ASSUME NEW o, Procs = {o}, Typed, Solo(o), [Next]_vars
  PROVE  [Lifecycle!LifeNext]_<<StateOf(spool), Proposed(pending, applied)>>
<1> DEFINE q == proc[o]
           kept == UNCHANGED <<StateOf(spool), Proposed(pending, applied)>>
<1>1. /\ Books /\ OnePlace /\ AtWork(q) /\ LocalOK(q) /\ q \in Locals /\ spool \in Files(JobFile)
      /\ pending \in [Jobs -> SUBSET Packs]
      /\ {"pending", "leased", "done", "failed"} = QueueStates
  BY DEF Typed, RestOK, Solo, Books, QueueStates
<1>2. UNCHANGED <<spool, pending, applied>> => kept
  OBVIOUS
<1>3. UNCHANGED <<pending, applied>> => UNCHANGED Proposed(pending, applied)
  OBVIOUS
<1>4. ASSUME NEW j \in Jobs, NEW d \in QueueStates, NEW to \in QueueStates, d # to,
             MoveJob(j, d, to), UNCHANGED <<pending, applied>>
      PROVE  Lifecycle!ChangeState(j, d, to)
  BY <1>1, <1>3, <1>4, MoveChangesState DEF Lifecycle!ChangeState
<1>5. ASSUME NEW j \in Jobs, StartIssue(o, j) PROVE Lifecycle!Create(j)
  <2>1. PICK d \in JobFile : WriteJob(j, "pending", d)
    <3>1. [rev |-> rev, expires |-> NoLease, pack |-> NoPack] \in JobFile
      BY DEF Typed, RestOK, JobFile
    <3> QED
      BY <1>5, <3>1 DEF StartIssue
  <2>2. PICK files, more : files = spool /\ more = spool'
    OBVIOUS
  <2>3. \A e \in QueueStates : files[e][j] = NoFile
    BY <1>5, <2>2 DEF StartIssue, Exists, IsIn
  <2>4. \A e \in QueueStates, i \in Jobs :
          more[e][i] = IF e = "pending" /\ i = j THEN d ELSE files[e][i]
    BY <1>1, <2>1, <2>2, WriteEffect
  <2>5. \A e \in QueueStates : more[e][j] # NoFile <=> e = "pending"
    BY <1>1, <2>3, <2>4, LiveFileAssumption
  <2>6. \A i \in Jobs : i # j => \A e \in QueueStates : more[e][i] = files[e][i]
    BY <2>4
  <2>7. StateOf(files)[j] = "none"
    BY <2>3, NoneExists
  <2>8. StateOf(more) = [StateOf(files) EXCEPT ![j] = "pending"]
    <3>1. j \in Jobs /\ "pending" \in QueueStates
      BY <1>1, <1>5
    <3>2. Ends(files, more, j, "pending")
      BY <2>5, <2>6 DEF Ends
    <3> QED
      <4>1. ChangedTo(StateOf(files), StateOf(more), j, "pending")
        BY <3>1, <3>2, StateMoves
      <4> QED
        BY <4>1 DEF ChangedTo
  <2>9. UNCHANGED <<pending, applied>>
    BY <1>5 DEF StartIssue, bridge, around
  <2> QED
    BY <1>3, <2>2, <2>7, <2>8, <2>9 DEF Lifecycle!Create, Lifecycle!ChangeState
<1>6. ASSUME RewriteJob(o) PROVE kept
  <2>1. /\ q.job \in Jobs /\ q.copy \in JobFile /\ q.op \in {"lease", "consume", "fail"}
        /\ q.op = "consume" => q.pack \in Packs
        /\ IsIn(q.job, "leased") /\ clock + LeaseTime \in Nat
        /\ UNCHANGED <<pending, applied>>
    BY <1>1, <1>6, LiveAssumption DEF Typed, RestOK, RewriteJob, At, AtWork, Hand, LocalOK,
                                      Locals, bridge, around
  <2>2. PICK j \in Jobs : j = q.job
    BY <2>1
  <2>3. [q.copy EXCEPT !.expires = IF q.op = "lease" THEN clock + LeaseTime ELSE @,
                       !.pack = IF q.op = "consume" THEN q.pack ELSE @] \in JobFile
    BY <2>1 DEF JobFile
  <2>4. PICK d \in JobFile : WriteJob(j, "leased", d)
    BY <1>6, <2>2, <2>3 DEF RewriteJob, Job
  <2>5. PICK files, more : files = spool /\ more = spool'
    OBVIOUS
  <2>6. \A e \in QueueStates, i \in Jobs :
          more[e][i] = IF e = "leased" /\ i = j THEN d ELSE files[e][i]
    BY <1>1, <2>4, <2>5, WriteEffect
  <2>7. \A e \in QueueStates : files[e][j] # NoFile <=> e = "leased"
    BY <1>1, <2>1, <2>2, <2>5 DEF OnePlace, IsIn
  <2>8. \A e \in QueueStates : more[e][j] # NoFile <=> e = "leased"
    BY <1>1, <2>6, <2>7, LiveFileAssumption
  <2>9. StateOf(more)[j] = StateOf(files)[j]
    BY <1>1, <2>7, <2>8, StateIs
  <2>10. StateOf(more) = StateOf(files)
    <3>1. \A i \in Jobs : i # j => StateOf(more)[i] = StateOf(files)[i]
      BY <2>6, StateSame
    <3>2. /\ StateOf(more) = [i \in Jobs |-> StateOf(more)[i]]
          /\ StateOf(files) = [i \in Jobs |-> StateOf(files)[i]]
      BY DEF StateOf
    <3> QED
      BY <2>9, <3>1, <3>2
  <2> QED
    BY <1>3, <2>1, <2>5, <2>10
<1>7. ASSUME Settle(o) PROVE \E j \in Jobs : Lifecycle!Finish(j) \/ Lifecycle!Fail(j)
  <2>1. /\ q.job \in Jobs /\ q.op \in {"consume", "fail"} /\ IsIn(q.job, "leased")
        /\ UNCHANGED <<pending, applied>>
    BY <1>1, <1>7 DEF Settle, At, AtWork, Hand, LocalOK, Locals, bridge, around
  <2>2. PICK j \in Jobs : j = q.job
    BY <2>1
  <2>3. MoveJob(j, "leased", IF q.op = "consume" THEN "done" ELSE "failed")
    BY <1>7, <2>1, <2>2 DEF Settle, Job
  <2>4. CASE q.op = "fail"
    <3>1. MoveJob(j, "leased", "failed")
      BY <2>3, <2>4
    <3> QED
      BY <1>1, <1>4, <2>1, <3>1 DEF Lifecycle!Fail
  <2>5. CASE q.op = "consume"
    <3>1. MoveJob(j, "leased", "done")
      BY <2>3, <2>5
    <3>2. j \in Proposed(pending, applied)
      BY <1>1, <2>2, <2>5 DEF AtWork, Backed, PacksOf, Proposed
    <3> QED
      BY <1>1, <1>4, <2>1, <3>1, <3>2 DEF Lifecycle!Finish
  <2> QED
    BY <2>1, <2>4, <2>5
<1>8. ASSUME Claim(o) PROVE kept \/ \E j \in Jobs : Lifecycle!Take(j)
  <2>1. q.todo \subseteq Jobs /\ UNCHANGED <<pending, applied>>
    BY <1>1, <1>8 DEF Claim, Locals, bridge, around
  <2>2. PICK j \in Jobs : MoveJob(j, "pending", "leased") \/ UNCHANGED spool
    BY <1>8, <2>1 DEF Claim
  <2>3. CASE MoveJob(j, "pending", "leased")
    BY <1>1, <1>4, <2>1, <2>3 DEF Lifecycle!Take
  <2> QED
    BY <1>2, <2>1, <2>2, <2>3
<1>9. ASSUME NEW j \in Jobs, Requeue(j) PROVE Lifecycle!Retry(j)
  <2>1. RequeueFailed(j) /\ UNCHANGED <<pending, applied>>
    BY <1>9 DEF Requeue, bridge
  <2>2. PICK files, more : files = spool /\ more = spool'
    OBVIOUS
  <2>3. /\ IsIn(j, "failed") /\ more["pending"][j] \in JobFile /\ more["failed"][j] = NoFile
        /\ \A e \in QueueStates, i \in Jobs :
             i # j \/ e \notin {"failed", "pending"} => more[e][i] = files[e][i]
    BY <1>1, <2>1, <2>2, RequeueEffect
  <2>4. \A e \in QueueStates : files[e][j] # NoFile <=> e = "failed"
    BY <1>1, <2>2, <2>3 DEF OnePlace, IsIn
  <2>5. \A e \in QueueStates : more[e][j] # NoFile <=> e = "pending"
    BY <1>1, <2>3, <2>4, LiveFileAssumption
  <2>6. \A i \in Jobs : i # j => \A e \in QueueStates : more[e][i] = files[e][i]
    BY <2>3
  <2>7. StateOf(files)[j] = "failed"
    BY <1>1, <2>4, StateIs
  <2>8. StateOf(more) = [StateOf(files) EXCEPT ![j] = "pending"]
    <3>1. j \in Jobs /\ "pending" \in QueueStates
      BY <1>1, <1>9
    <3>2. Ends(files, more, j, "pending")
      BY <2>5, <2>6 DEF Ends
    <3> QED
      <4>1. ChangedTo(StateOf(files), StateOf(more), j, "pending")
        BY <3>1, <3>2, StateMoves
      <4> QED
        BY <4>1 DEF ChangedTo
  <2> QED
    BY <1>3, <2>1, <2>2, <2>7, <2>8 DEF Lifecycle!Retry, Lifecycle!ChangeState
<1>17. ASSUME NEW j \in Jobs, BeginRequeue(j) PROVE kept
  <2>1. /\ [spool["failed"][j] EXCEPT !.expires = NoLease] \in JobFile /\ IsIn(j, "failed")
        /\ ClearFailed(j) /\ UNCHANGED <<pending, applied>> /\ "failed" \in QueueStates
    BY <1>1, <1>17, ClearEffect, LeaseTaken DEF BeginRequeue, bridge
  <2>2. UNCHANGED StateOf(spool)
    BY <1>1, <2>1, WriteSaysTheSame, LiveFileAssumption DEF ClearFailed
  <2> QED
    BY <2>1, <2>2
<1>10. ASSUME NEW m \in Packs, Propose(o, m)
       PROVE  kept \/ \E j \in Jobs : Lifecycle!Produce(j)
  <2>1. /\ q.job \in Jobs /\ UNCHANGED <<spool, applied>>
        /\ pending' = [pending EXCEPT ![q.job] = @ \cup {m}]
    BY <1>1, <1>10 DEF Propose, At, LocalOK, Job, around
  <2>2. PICK j \in Jobs : j = q.job
    BY <2>1
  <2>3. Proposed(pending, applied)' = Proposed(pending, applied) \cup {j}
    BY <1>1, <2>1, <2>2 DEF Proposed
  <2>4. UNCHANGED StateOf(spool)
    BY <2>1
  <2>5. CASE j \in Proposed(pending, applied)
    BY <2>3, <2>4, <2>5
  <2>6. CASE j \notin Proposed(pending, applied)
    BY <2>3, <2>4, <2>6 DEF Lifecycle!Produce
  <2> QED
    BY <2>5, <2>6
<1>11. ASSUME NEW j \in Jobs, NEW m \in Packs, Apply(j, m) PROVE kept
  <2>1. \A i \in Jobs : pending'[i] \cup applied'[i] = pending[i] \cup applied[i]
    BY <1>11 DEF Apply, Typed, RestOK
  <2>2. UNCHANGED spool
    BY <1>11 DEF Apply
  <2> QED
    BY <2>1, <2>2 DEF Proposed
<1>12. CASE \/ ReadIndex(o) \/ WriteIndex(o) \/ ReadJob(o) \/ Sign(o) \/ KeepSecret(o)
            \/ NothingPending(o) \/ Reread(o) \/ Validate(o) \/ Preflight(o) \/ Stage(o)
            \/ Scan(o) \/ SummaryRefused(o) \/ Error(o) \/ Crash(o) \/ StartLease(o)
            \/ (\E j \in Jobs : StartRun(o, j) \/ BindEvidence(j))
            \/ (\E f \in ProjectionFiles : Publish(f)) \/ Tick \/ NewRevision
            \/ UNCHANGED vars
  <2>1. UNCHANGED <<spool, pending, applied>>
    BY <1>12 DEF ReadIndex, WriteIndex, ReadJob, Sign, KeepSecret, NothingPending, Reread,
       Validate, Preflight, Stage, Scan, SummaryRefused, Error, Crash, StartLease, StartRun,
       BindEvidence, Publish, Tick, NewRevision, vars, bridge, around
  <2> QED
    BY <1>2, <2>1
<1> HIDE DEF kept
<1>13. kept => UNCHANGED <<StateOf(spool), Proposed(pending, applied)>>
  BY DEF kept
<1>14. CASE Around
  BY <1>9, <1>11, <1>12, <1>13, <1>14, <1>17 DEF Around, Lifecycle!LifeNext
<1>15. CASE Start(o)
  BY <1>5, <1>12, <1>13, <1>15 DEF Start, Lifecycle!LifeNext
<1>16. CASE Advance(o)
  <2>1. ASSUME NEW m \in Packs, Propose(o, m) PROVE kept \/ Lifecycle!LifeNext
    BY <1>10, <2>1 DEF Lifecycle!LifeNext
  <2>2. Settle(o) \/ Claim(o) => kept \/ Lifecycle!LifeNext
    BY <1>7, <1>8 DEF Lifecycle!LifeNext
  <2> QED
    BY <1>6, <1>12, <1>13, <1>16, <2>1, <2>2 DEF Advance
<1> QED
  BY <1>12, <1>13, <1>14, <1>15, <1>16 DEF Next

\* The writeback queue implements the life of a job that QUEUES.md describes,
\* one process at a time, through deaths, failing operations and requeues.
THEOREM JobsHaveTheirLife ==
  ASSUME NEW o, Procs = {o}
  PROVE  Spec => ImplementsJobLifecycle
<1>1. Init => Lifecycle!LifeInit
  <2> SUFFICES ASSUME Init PROVE Lifecycle!LifeInit
    OBVIOUS
  <2>1. \A j \in Jobs : StateOf(spool)[j] = "none"
    BY NoneExists DEF Init, SpoolInit
  <2>2. StateOf(spool) = [j \in Jobs |-> "none"]
    BY <2>1 DEF StateOf
  <2>3. Proposed(pending, applied) = {}
    BY DEF Init, Proposed
  <2> QED
    BY <2>2, <2>3 DEF Lifecycle!LifeInit
<1>2. Typed /\ Solo(o) /\ [Next]_vars
        => [Lifecycle!LifeNext]_<<StateOf(spool), Proposed(pending, applied)>>
  BY LifecycleStep
<1> QED
  BY <1>1, <1>2, AlwaysSolo, AlwaysTyped, PTL DEF Spec, ImplementsJobLifecycle, Lifecycle!Spec

=============================================================================
