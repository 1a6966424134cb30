---------------------------- MODULE QueueDoctor ----------------------------
(***************************************************************************)
(* `topology doctor queues` (workers/doctor.py) over the digest queue: what *)
(* it says of a job file.  Its checks of stray and malformed files are left *)
(* out, since the commands of DigestQueue write none.                       *)
(***************************************************************************)
EXTENDS DigestQueue

Reports(j) ==
  \/ /\ IsIn(j, "leased")
     /\ spool["leased"][j].expires # NoLease => spool["leased"][j].expires <= clock
  \/ IsIn(j, "failed")

LeaseRuns(j) ==
  /\ IsIn(j, "leased")
  /\ spool["leased"][j].expires # NoLease
  /\ spool["leased"][j].expires > clock

\* A job that was enqueued is done or has failed in the end.  After a death it
\* may stay in leased/ with a lease that nothing recovers, or that has not
\* ended yet, but not in silence: doctor reports the first.
EveryJobSettles ==
  <>[](\A j \in Jobs : (\E d \in QueueStates : IsIn(j, d)) =>
         \/ IsIn(j, "done") \/ IsIn(j, "failed")
         \/ crashes > 0 /\ (Reports(j) \/ LeaseRuns(j)))

=============================================================================
