---------------------------- MODULE SpoolProofs ----------------------------
(***************************************************************************)
(* What the file operations of a queue do to its files and to the states   *)
(* of its jobs, whatever a job file holds.                                 *)
(***************************************************************************)
EXTENDS Spool, TLAPS

\* The spool, when the content of a job file is one of C
Files(C) == [QueueStates -> [Jobs -> C \cup {NoFile}]]
OnePlace == \A i \in Jobs : \A d, e \in QueueStates : IsIn(i, d) /\ IsIn(i, e) => d = e

\* What the file operations of Spool do to each file
LEMMA WriteEffect ==
  ASSUME NEW C, spool \in Files(C), NEW j \in Jobs, NEW d \in QueueStates,
         NEW c \in C, WriteJob(j, d, c)
  PROVE  /\ spool' \in Files(C)
         /\ \A e \in QueueStates, i \in Jobs :
              spool'[e][i] = IF e = d /\ i = j THEN c ELSE spool[e][i]
  BY DEF WriteJob, Files

LEMMA MoveEffect ==
  ASSUME NEW C, spool \in Files(C), NEW j \in Jobs, NEW d \in QueueStates,
         NEW to \in QueueStates, d # to, MoveJob(j, d, to)
  PROVE  /\ spool' \in Files(C)
         /\ \A e \in QueueStates, i \in Jobs :
              spool'[e][i] = IF i # j THEN spool[e][i]
                             ELSE IF e = to THEN spool[d][j]
                             ELSE IF e = d THEN NoFile ELSE spool[e][i]
<1> DEFINE f == [spool[d] EXCEPT ![j] = NoFile]
           m == [spool EXCEPT ![d] = f]
           g == [m[to] EXCEPT ![j] = spool[d][j]]
<1>1. f \in [Jobs -> C \cup {NoFile}] /\ m \in Files(C)
  BY DEF Files
<1>2. g \in [Jobs -> C \cup {NoFile}]
  BY <1>1 DEF Files
<1>3. spool' = [m EXCEPT ![to] = g]
  BY DEF MoveJob
<1>4. spool' \in Files(C)
  BY <1>1, <1>2, <1>3 DEF Files
<1>5. ASSUME NEW e \in QueueStates, NEW i \in Jobs
      PROVE  spool'[e][i] = IF i # j THEN spool[e][i]
                            ELSE IF e = to THEN spool[d][j]
                            ELSE IF e = d THEN NoFile ELSE spool[e][i]
  <2>1. spool'[e] = IF e = to THEN g ELSE IF e = d THEN f ELSE spool[e]
    BY <1>1, <1>3 DEF Files
  <2>2. /\ g[i] = IF i = j THEN spool[d][j] ELSE spool[to][i]
        /\ f[i] = IF i = j THEN NoFile ELSE spool[d][i]
    BY DEF Files
  <2> HIDE DEF f, g, m
  <2> QED
    BY <2>1, <2>2
<1> QED
  BY <1>4, <1>5

LEMMA ClearEffect ==
  ASSUME NEW C, spool \in Files(C), NEW j \in Jobs, ClearFailed(j),
         \A c \in C : [c EXCEPT !.expires = NoLease] \in C
  PROVE  /\ spool' \in Files(C)
         /\ spool["failed"][j] \in C /\ IsIn(j, "failed")
         /\ \A e \in QueueStates, i \in Jobs :
              spool'[e][i] = IF e = "failed" /\ i = j
                               THEN [spool["failed"][j] EXCEPT !.expires = NoLease]
                               ELSE spool[e][i]
<1>1. "failed" \in QueueStates /\ spool["failed"][j] \in C /\ IsIn(j, "failed")
  BY DEF ClearFailed, IsIn, Files, QueueStates
<1> QED
  BY <1>1, WriteEffect DEF ClearFailed

LEMMA RequeueEffect ==
  ASSUME NEW C, spool \in Files(C), NEW j \in Jobs, RequeueFailed(j)
  PROVE  /\ spool' \in Files(C)
         /\ IsIn(j, "failed") /\ spool'["pending"][j] \in C
         /\ \A e \in QueueStates, i \in Jobs :
              i # j \/ e \notin {"failed", "pending"} => spool'[e][i] = spool[e][i]
         /\ spool'["failed"][j] = NoFile
<1>1. /\ spool["failed"][j] \in C /\ IsIn(j, "failed") /\ MoveJob(j, "failed", "pending")
      /\ "failed" \in QueueStates /\ "pending" \in QueueStates
  BY DEF RequeueFailed, IsIn, Files, QueueStates
<1> QED
  BY <1>1, MoveEffect

-----------------------------------------------------------------------------
(* The state of a job *)

LEMMA StateIs ==
  ASSUME NEW files, NEW j \in Jobs, NEW d \in QueueStates,
         \A e \in QueueStates : files[e][j] # NoFile <=> e = d
  PROVE  StateOf(files)[j] = d
<1>1. {e \in QueueStates : files[e][j] # NoFile} = {d}
  OBVIOUS
<1> QED
  BY <1>1 DEF StateOf

LEMMA StateSame ==
  ASSUME NEW files, NEW more, NEW j \in Jobs, \A e \in QueueStates : more[e][j] = files[e][j]
  PROVE  StateOf(more)[j] = StateOf(files)[j]
<1>1. {e \in QueueStates : files[e][j] # NoFile} = {e \in QueueStates : more[e][j] # NoFile}
  OBVIOUS
<1> QED
  BY <1>1 DEF StateOf

LEMMA NoneExists ==
  ASSUME NEW files, NEW j \in Jobs, \A e \in QueueStates : files[e][j] = NoFile
  PROVE  StateOf(files)[j] = "none"
<1>1. {e \in QueueStates : files[e][j] # NoFile} = {}
  OBVIOUS
<1> QED
  BY <1>1 DEF StateOf

\* A step that puts the file of job j into directory d and touches no other job
Ends(files, more, j, d) ==
  /\ \A e \in QueueStates : more[e][j] # NoFile <=> e = d
  /\ \A i \in Jobs : i # j => \A e \in QueueStates : more[e][i] = files[e][i]
ChangedTo(w, v, j, d) == v = [w EXCEPT ![j] = d]

LEMMA StateMoves ==
  ASSUME NEW files, NEW more, NEW j \in Jobs, NEW d \in QueueStates, Ends(files, more, j, d)
  PROVE  ChangedTo(StateOf(files), StateOf(more), j, d)
<1>1. StateOf(more)[j] = d
  BY StateIs DEF Ends
<1>2. \A i \in Jobs : i # j => StateOf(more)[i] = StateOf(files)[i]
  BY StateSame DEF Ends
<1>3. /\ StateOf(more) = [i \in Jobs |-> StateOf(more)[i]]
      /\ StateOf(files) = [i \in Jobs |-> StateOf(files)[i]]
  BY DEF StateOf
<1> QED
  BY <1>1, <1>2, <1>3 DEF ChangedTo

\* Moving the one file of a job changes its state, and nothing else.
LEMMA MoveChangesState ==
  ASSUME NEW C, OnePlace, spool \in Files(C), NEW j \in Jobs, NEW d \in QueueStates,
         NEW to \in QueueStates, d # to, MoveJob(j, d, to)
  PROVE  /\ StateOf(spool)[j] = d
         /\ StateOf(spool') = [StateOf(spool) EXCEPT ![j] = to]
<1>1. \A e \in QueueStates, i \in Jobs :
        spool'[e][i] = IF i # j THEN spool[e][i]
                       ELSE IF e = to THEN spool[d][j]
                       ELSE IF e = d THEN NoFile ELSE spool[e][i]
  BY MoveEffect
<1>2. \A e \in QueueStates : spool[e][j] # NoFile <=> e = d
  BY DEF OnePlace, IsIn, MoveJob
<1>3. StateOf(spool)[j] = d
  BY <1>2, StateIs
<1>4. PICK files, more : files = spool /\ more = spool'
  OBVIOUS
<1>5. \A e \in QueueStates : more[e][j] # NoFile <=> e = to
  BY <1>1, <1>2, <1>4
<1>6. \A i \in Jobs : i # j => \A e \in QueueStates : more[e][i] = files[e][i]
  BY <1>1, <1>4
<1>7. StateOf(more) = [StateOf(files) EXCEPT ![j] = to]
  <2>1. Ends(files, more, j, to)
    BY <1>5, <1>6 DEF Ends
  <2>2. ChangedTo(StateOf(files), StateOf(more), j, to)
    BY <2>1, StateMoves
  <2> QED
    BY <2>2 DEF ChangedTo
<1> QED
  BY <1>3, <1>4, <1>7

\* A rewritten file says the same of the state of its job.
LEMMA WriteSaysTheSame ==
  ASSUME NEW C, NoFile \notin C, spool \in Files(C), OnePlace, NEW j \in Jobs,
         NEW d \in QueueStates, IsIn(j, d), NEW c \in C, WriteJob(j, d, c)
  PROVE  UNCHANGED StateOf(spool)
<1>1. PICK files, more : files = spool /\ more = spool'
  OBVIOUS
<1>2. \A e \in QueueStates, i \in Jobs : more[e][i] = IF e = d /\ i = j THEN c ELSE files[e][i]
  BY <1>1, WriteEffect
<1>3. \A e \in QueueStates : files[e][j] # NoFile <=> e = d
  BY <1>1 DEF OnePlace, IsIn
<1>4. \A e \in QueueStates : more[e][j] # NoFile <=> e = d
  BY <1>2, <1>3
<1>5. StateOf(more)[j] = StateOf(files)[j]
  BY <1>3, <1>4, StateIs
<1>6. \A i \in Jobs : i # j => StateOf(more)[i] = StateOf(files)[i]
  BY <1>2, StateSame
<1>7. /\ StateOf(more) = [i \in Jobs |-> StateOf(more)[i]]
      /\ StateOf(files) = [i \in Jobs |-> StateOf(files)[i]]
  BY DEF StateOf
<1> QED
  BY <1>1, <1>5, <1>6, <1>7

=============================================================================
