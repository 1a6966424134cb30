---------------------------- MODULE JobLifecycle ----------------------------
(***************************************************************************)
(* What the spool promises for the jobs of a queue: a job is in one state  *)
(* at a time; it is claimed from pending, and from there it is finished,   *)
(* fails or comes back; it is finished only when the source it asks for    *)
(* has its result; and a job that failed waits for an explicit retry.      *)
(***************************************************************************)
CONSTANTS Jobs, Sources, SourceOf

VARIABLES
  where,    \* where[j]: the state of job j, or "none" before it is created
  results   \* the sources whose result is complete

LifeInit == where = [j \in Jobs |-> "none"] /\ results = {}

ChangeState(j, from, to) ==
  /\ where[j] = from
  /\ where' = [where EXCEPT ![j] = to]
  /\ UNCHANGED results

Create(j)  == ChangeState(j, "none", "pending")
Take(j)    == ChangeState(j, "pending", "leased")
Release(j) == ChangeState(j, "leased", "pending")
Finish(j)  == SourceOf[j] \in results /\ ChangeState(j, "leased", "done")
Fail(j)    == ChangeState(j, "leased", "failed")
Retry(j)   == ChangeState(j, "failed", "pending")
Produce(s) == s \notin results /\ results' = results \cup {s} /\ UNCHANGED where

LifeNext ==
  \/ \E j \in Jobs : Create(j) \/ Take(j) \/ Release(j) \/ Finish(j) \/ Fail(j) \/ Retry(j)
  \/ \E s \in Sources : Produce(s)

Spec == LifeInit /\ [][LifeNext]_<<where, results>>

=============================================================================
