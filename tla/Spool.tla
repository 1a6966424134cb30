------------------------------- MODULE Spool -------------------------------
(***************************************************************************)
(* The spool directory of one queue (storage/spool.py): each job is one    *)
(* JSON file that lives in pending/, leased/, done/ or failed/, and every  *)
(* change is one file operation.  A replacement file is written over the   *)
(* path it is given, whether or not there is still a file at that path.    *)
(***************************************************************************)
EXTENDS Naturals

CONSTANTS
  Jobs,     \* job ids; a natural number each, for lease_next takes them in order
  NoFile,   \* there is no file of that name
  NoLease   \* lease_expires_at is null

ASSUME JobAssumption == Jobs \subseteq Nat

VARIABLE
  spool     \* spool[d][j]: the content of job file j in directory d

QueueStates == {"pending", "leased", "done", "failed"}

\* The fields of a job that later code reads: the revisions it was created at,
\* the number of leases taken, and the time the current lease ends.
NewJob(rev) == [rev |-> rev, attempts |-> 0, expires |-> NoLease]

IsIn(j, d)  == spool[d][j] # NoFile
Listed(d)   == {j \in Jobs : IsIn(j, d)}
\* sorted(glob(...)): ids are visited in order
IsNext(j, todo) == j \in todo /\ \A i \in todo : j <= i

\* The state of each job: the directory that its one file is in
StateOf(files) ==
  [j \in Jobs |-> LET places == {d \in QueueStates : files[d][j] # NoFile}
                  IN CASE places = {} -> "none"
                       [] \E d \in QueueStates : places = {d} -> CHOOSE d \in places : TRUE
                       [] OTHER -> "several"]

SpoolInit == spool = [d \in QueueStates |-> [j \in Jobs |-> NoFile]]

\* atomic_write_text to a path in directory d
WriteJob(j, d, content) == spool' = [spool EXCEPT ![d][j] = content]

\* os.replace within the queue; it raises FileNotFoundError when IsIn(j, from)
\* does not hold, and silently replaces a file that is already at the target.
MoveJob(j, from, to) ==
  /\ IsIn(j, from)
  /\ spool' = [spool EXCEPT ![from][j] = NoFile, ![to][j] = spool[from][j]]

\* create_job, which draws an id that was never used
CreateJob(j, rev) ==
  /\ \A d \in QueueStates : ~IsIn(j, d)
  /\ WriteJob(j, "pending", NewJob(rev))

\* requeue_failed_job, the explicit way back: the file is written without its
\* lease, its attempts are kept, and then it is moved.
ClearFailed(j) ==
  /\ IsIn(j, "failed")
  /\ WriteJob(j, "failed", [spool["failed"][j] EXCEPT !.expires = NoLease])
RequeueFailed(j) ==
  /\ IsIn(j, "failed")
  /\ spool["failed"][j].expires = NoLease
  /\ MoveJob(j, "failed", "pending")

=============================================================================
