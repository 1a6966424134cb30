------------------------------ MODULE Subjects ------------------------------
(***************************************************************************)
(* The subject registry (subjects.py): SUBJECTS.yaml lists the code        *)
(* repositories the topology knows, each with its location and the HEAD    *)
(* that `topology subject refresh` saw there last.                         *)
(*                                                                         *)
(* A command reads the whole file, computes, and writes the whole file     *)
(* back; nothing locks it.  The subject repositories move on their own.    *)
(* The module has no specification: Projection composes it with the        *)
(* topology repository the file is part of.                                *)
(***************************************************************************)
EXTENDS Naturals

CONSTANTS
  Admins,     \* processes running `topology subject add` or `refresh`
  Ids,        \* subject_repo_id values
  Locations,  \* directories subjects can live in
  NoId,
  NoSubject,  \* the id is not in the registry
  NoHead,     \* head_sha: null
  MaxCommits  \* bound: commits of one subject repository

\* The k-th commit of the repository at l
Sha == Locations \X (1..MaxCommits)
Row == [location : Locations, head : Sha \cup {NoHead}]
Registry == [Ids -> Row \cup {NoSubject}]

ASSUME SubjectAssumption ==
  /\ NoId \notin Ids
  /\ NoSubject \notin Row
  /\ NoHead \notin Sha
  /\ MaxCommits \in Nat

VARIABLES
  subjects,  \* the content of SUBJECTS.yaml
  commits,   \* commits[l]: how many commits the repository at l has; 0: no git there
  admin      \* admin[a]: where process a is in its command, and its locals
subjectVars == <<subjects, commits, admin>>

AdminLocals == [at : {"idle", "add", "head", "reread", "write"},
                id : Ids \cup {NoId},
                row : Row \cup {NoSubject},   \* the record to be added or refreshed
                reg : Registry]               \* read_subject_registry, as it was read
NoRegistry == [i \in Ids |-> NoSubject]
Idle == [at |-> "idle", id |-> NoId, row |-> NoSubject, reg |-> NoRegistry]

SubjectsTypeOK ==
  /\ subjects \in Registry
  /\ commits \in [Locations -> 0..MaxCommits]
  /\ admin \in [Admins -> AdminLocals]

\* git rev-parse HEAD in l: None where there is no repository or no commit
HeadOf(l) == IF commits[l] = 0 THEN NoHead ELSE <<l, commits[l]>>

\* add_subject: refuses an id that is registered, then writes back what it
\* read with the new record in it.  The record has no head until a refresh.
AddRead(a, i, l) ==
  /\ admin[a] = Idle
  /\ subjects[i] = NoSubject
  /\ admin' = [admin EXCEPT ![a] = [at |-> "add", id |-> i, reg |-> subjects,
                                    row |-> [location |-> l, head |-> NoHead]]]
  /\ UNCHANGED <<subjects, commits>>
AddWrite(a) ==
  /\ admin[a].at = "add"
  /\ subjects' = [admin[a].reg EXCEPT ![admin[a].id] = admin[a].row]
  /\ admin' = [admin EXCEPT ![a] = Idle]
  /\ UNCHANGED commits

\* refresh_subject: get_subject reads the registry once, git is asked for the
\* head, and the registry is read again to be written back.
RefreshRead(a, i) ==
  /\ admin[a] = Idle
  /\ subjects[i] # NoSubject
  /\ admin' = [admin EXCEPT ![a] = [Idle EXCEPT !.at = "head", !.id = i, !.row = subjects[i]]]
  /\ UNCHANGED <<subjects, commits>>
RefreshHead(a) ==
  /\ admin[a].at = "head"
  /\ LET head == HeadOf(admin[a].row.location)
     IN admin' = [admin EXCEPT ![a] = IF head = NoHead THEN Idle  \* not a git repository
                                      ELSE [@ EXCEPT !.at = "reread", !.row.head = head]]
  /\ UNCHANGED <<subjects, commits>>
RefreshReread(a) ==
  /\ admin[a].at = "reread"
  /\ admin' = [admin EXCEPT ![a].at = "write", ![a].reg = subjects]
  /\ UNCHANGED <<subjects, commits>>

\* An id that is gone by the second read is not put back; of one that is there
\* the whole record is replaced.
HeadMerged(l) ==  \* variant: only head_sha is replaced
  [i \in Ids |-> IF l.reg[i] # NoSubject /\ i = l.id
                 THEN [l.reg[i] EXCEPT !.head = l.row.head] ELSE l.reg[i]]
Refreshed(l) ==
  [i \in Ids |-> IF l.reg[i] # NoSubject /\ i = l.id THEN l.row ELSE l.reg[i]]
RefreshWrite(a) ==
  /\ admin[a].at = "write"
  /\ subjects' = Refreshed(admin[a])
  /\ admin' = [admin EXCEPT ![a] = Idle]
  /\ UNCHANGED commits

AdminDies(a) ==
  /\ admin[a] # Idle
  /\ admin' = [admin EXCEPT ![a] = Idle]
  /\ UNCHANGED <<subjects, commits>>

\* Someone commits in a subject repository
SubjectCommit(l) ==
  /\ commits[l] < MaxCommits
  /\ commits' = [commits EXCEPT ![l] = @ + 1]
  /\ UNCHANGED <<subjects, admin>>

AdminStarts(a) == \E i \in Ids : RefreshRead(a, i) \/ \E l \in Locations : AddRead(a, i, l)
AdminSteps(a)  == AddWrite(a) \/ RefreshHead(a) \/ RefreshReread(a) \/ RefreshWrite(a)

-----------------------------------------------------------------------------

\* Whatever two commands do to each other's writes, a head in the registry is
\* a commit of the repository at the location beside it: compose and doctor
\* hash that location and compare that head (refresh_subject replaces a record
\* as a whole).
HeadBelongsToLocation ==
  \A i \in Ids : subjects[i] # NoSubject /\ subjects[i].head # NoHead =>
    /\ subjects[i].head[1] = subjects[i].location
    /\ subjects[i].head[2] <= commits[subjects[i].location]

=============================================================================
