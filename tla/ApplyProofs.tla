---------------------------- MODULE ApplyProofs ----------------------------
(***************************************************************************)
(* For any packs, whatever fails or dies: for any number of apply          *)
(* processes the audit trail names what was applied, and for one process   *)
(* at a time an applied pack is complete but for registries that a call    *)
(* died in writing back, a failed call leaves nothing, doctor finds what a *)
(* death left, and a pack takes effect at once.                            *)
(***************************************************************************)
EXTENDS Apply, WellFoundedInduction, FiniteSetTheorems, TLAPS

-----------------------------------------------------------------------------
(* Types, and what a call's locals are at each point *)

ContentOf(t) == IF t \in RegistryFiles THEN SUBSET Rows ELSE Packs \cup {NoFile, CutFile}
RegistriesOf(p) == {RegistryOf(c) : c \in ChangeSet(p)}

LocalsOK(r) ==
  /\ DOMAIN r = {"pc", "pack", "todo", "snap", "text", "event"}
  /\ r.pc \in {"idle", "preflight", "prepare", "write", "rollback", "restore"}
  /\ r.pack \in Packs \cup {NoPack} /\ r.event \in EventIds \cup {NoEvent}
  /\ r.pc # "idle" => r.pack \in Packs
  /\ r.pc \in {"idle", "preflight", "prepare"} =>
       r.event = NoEvent /\ r.todo = {} /\ DOMAIN r.snap = {}
  /\ r.pc \in {"write", "rollback", "restore"} =>
       /\ r.event \in EventIds
       /\ r.todo \cup DOMAIN r.snap \subseteq WriteSet(r.pack, r.event)
       /\ DOMAIN r.text = RegistriesOf(r.pack)
  /\ r.todo \subseteq Targets /\ DOMAIN r.snap \subseteq Targets
  /\ \A t \in DOMAIN r.snap : r.snap[t] \in ContentOf(t)
  /\ \A f \in DOMAIN r.text : f \in Registries /\ r.text[f] \subseteq Rows
StateOK ==
  /\ pending \subseteq Packs /\ applied \subseteq Packs
  /\ crashed \subseteq Packs /\ cut \subseteq Registries
  /\ base \in [Packs -> (0..MaxRev) \cup {NoRev}]
  /\ evidence \subseteq Refs /\ rev \in 0..MaxRev /\ dirty \in BOOLEAN
FilesOK(st) == /\ DOMAIN st = Targets /\ st = [t \in Targets |-> st[t]]
               /\ \A t \in Targets : st[t] \in ContentOf(t)
StoreOK == FilesOK(store)
Typed ==
  /\ StateOK /\ StoreOK
  /\ DOMAIN run = Workers /\ \A w \in Workers : LocalsOK(run[w])

\* Files of different kinds, or of different ids, are different.
LEMMA Files ==
  /\ \A i \in Ids : Page(i) \in Targets /\ Page(i) \notin RegistryFiles
  /\ \A e \in EventIds : Event(e) \in Targets /\ Event(e) \notin RegistryFiles
  /\ \A r \in Registries : Registry(r) \in RegistryFiles /\ Registry(r)[2] = r
  /\ RegistryFiles \subseteq Targets
  /\ \A i, j : Page(i) = Page(j) => i = j
  /\ \A e, f : Event(e) = Event(f) => e = f
  /\ \A r, s : Registry(r) = Registry(s) => r = s
  /\ \A i, e, r : Page(i) # Event(e) /\ Page(i) # Registry(r) /\ Event(e) # Registry(r)
  BY DEF Page, Registry, Event, Targets, Pages, RegistryFiles, Events

\* A pack has changes, each of which has one registry and an id.
LEMMA PackChanges ==
  ASSUME NEW p \in Packs
  PROVE  /\ ChangeSet(p) # {}
         /\ \A c \in ChangeSet(p) : /\ c \in Change /\ c.id \in Ids /\ c.to \in Ids
                                    /\ RegistryOf(c) \in Registries
         /\ RegistriesOf(p) \subseteq Registries
         /\ Indices(p) = 1..Len(Changes[p]) /\ Len(Changes[p]) \in Nat \ {0}
         /\ \A i \in Indices(p) : Changes[p][i] \in ChangeSet(p)
<1>1. Changes[p] \in Seq(Change) /\ Changes[p] # <<>>
  BY PackAssumption
<1>2. Indices(p) = 1..Len(Changes[p]) /\ Len(Changes[p]) \in Nat \ {0}
  BY <1>1 DEF Indices
<1>3. \A i \in Indices(p) : Changes[p][i] \in Change /\ Changes[p][i] \in ChangeSet(p)
  BY <1>1, <1>2 DEF ChangeSet
<1>4. \A c \in Change : c.id \in Ids /\ c.to \in Ids /\ RegistryOf(c) \in Registries
  BY DEF Change, RegistryOf, Registries
<1>5. \A c \in ChangeSet(p) : c \in Change
  BY <1>3 DEF ChangeSet
<1>6. ChangeSet(p) # {}
  <2>1. 1 \in Indices(p)
    BY <1>2
  <2> QED
    BY <1>3, <2>1
<1> QED
  BY <1>2, <1>3, <1>4, <1>5, <1>6 DEF RegistriesOf

LEMMA WritesAreFiles ==
  ASSUME NEW p \in Packs, NEW e \in EventIds
  PROVE  /\ WriteSet(p, e) \subseteq Targets
         /\ \A t \in WriteSet(p, e) \cap RegistryFiles :
              t[2] \in RegistriesOf(p) /\ t = Registry(t[2])
  BY Files, PackChanges
  DEF WriteSet, PageTargets, RegistryTargets, RegistriesOf

-----------------------------------------------------------------------------
(* The order of the writes *)

\* A nonempty set of natural numbers has a least one.
LEMMA Least ==
  ASSUME NEW S, S \subseteq Nat, S # {}
  PROVE  \E i \in S : \A j \in S : i <= j
<1>1. PICK i \in S : \A j \in S : ~(<<j, i>> \in OpToRel(<, Nat))
  BY NatLessThanWellFounded, WFMin
<1>2. \A j \in S : ~(j < i)
  BY <1>1 DEF OpToRel
<1> QED
  BY <1>2

\* The pages are written before the registries, and the event last.
LEMMA Order ==
  ASSUME NEW p \in Packs, NEW e \in EventIds
  PROVE  /\ \A t \in WriteSet(p, e) : Position[p][t] \in Nat
         /\ \A t \in PageTargets(p), u \in RegistryTargets(p) : Position[p][t] < Position[p][u]
         /\ \A t \in PageTargets(p) \cup RegistryTargets(p) : Position[p][t] < Position[p][Event(e)]
<1> DEFINE n == Len(Changes[p])
<1>1. n \in Nat \ {0} /\ Indices(p) = 1..n /\ WriteSet(p, e) \subseteq Targets
  BY PackChanges, WritesAreFiles
<1>2. ASSUME NEW t \in PageTargets(p) PROVE Position[p][t] \in 1..n
  <2> DEFINE S == {i \in Indices(p) : Page(Changes[p][i].id) = t}
  <2>1. S # {} /\ S \subseteq Nat
    BY <1>1 DEF PageTargets, ChangeSet
  <2>2. \E i \in S : \A j \in S : i <= j
    BY <2>1, Least
  <2>0. t \in Targets /\ t \notin RegistryTargets(p)
    BY <1>1, Files DEF PageTargets, RegistryTargets, WriteSet
  <2>3. Position[p][t] = FirstIndex(S)
    BY <2>0 DEF Position
  <2>4. FirstIndex(S) \in S
    BY <2>2 DEF FirstIndex
  <2> QED
    BY <1>1, <2>3, <2>4
<1>3. ASSUME NEW t \in RegistryTargets(p) PROVE Position[p][t] \in (n + 1)..(2 * n)
  <2> DEFINE S == {i \in Indices(p) : Registry(RegistryOf(Changes[p][i])) = t}
  <2>1. S # {} /\ S \subseteq Nat
    BY <1>1 DEF RegistryTargets, ChangeSet
  <2>2. \E i \in S : \A j \in S : i <= j
    BY <2>1, Least
  <2>3. t \notin PageTargets(p)
    BY Files DEF PageTargets, RegistryTargets
  <2>4. Position[p][t] = n + FirstIndex(S)
    BY <1>1, <2>3 DEF Position, WriteSet
  <2>5. FirstIndex(S) \in S
    BY <2>2 DEF FirstIndex
  <2>6. FirstIndex(S) \in 1..n
    BY <1>1, <2>5
  <2> QED
    BY <1>1, <2>4, <2>6
<1>4. Position[p][Event(e)] = 2 * n + 1
  <2>1. Event(e) \notin PageTargets(p) /\ Event(e) \notin RegistryTargets(p) /\ Event(e) \in Targets
    BY Files DEF PageTargets, RegistryTargets
  <2> QED
    BY <2>1 DEF Position
<1> HIDE DEF n
<1> QED
  BY <1>1, <1>2, <1>3, <1>4 DEF WriteSet

-----------------------------------------------------------------------------
(* Every step keeps the types *)

LEMMA TypedInit == Init => Typed
<1> SUFFICES ASSUME Init PROVE Typed
  OBVIOUS
<1>1. StateOK
  <2>1. base \in [Packs -> (0..MaxRev) \cup {NoRev}]
    BY DEF Init
  <2>2. rev \in 0..MaxRev
    BY NamesAssumption DEF Init
  <2> QED
    BY <2>1, <2>2 DEF Init, StateOK
<1>2. StoreOK
  BY Files DEF Init, StoreOK, FilesOK, ContentOf
<1>3. LocalsOK(Resting)
  BY DEF LocalsOK, Resting
<1> QED
  BY <1>1, <1>2, <1>3 DEF Init, Typed

\* A call that goes on leaves the others where they are.
LEMMA CallStep ==
  ASSUME Typed, NEW w \in Workers, NEW r, LocalsOK(r), run' = [run EXCEPT ![w] = r],
         StateOK', StoreOK'
  PROVE  Typed'
  BY DEF Typed, LocalsOK

LEMMA NewTextTyped ==
  ASSUME StoreOK, NEW p \in Packs, NEW e \in EventIds, NEW joined
  PROVE  /\ DOMAIN NewText(p, e, joined) = RegistriesOf(p)
         /\ \A r \in RegistriesOf(p) : NewText(p, e, joined)[r] \subseteq Rows
<1>1. DOMAIN NewText(p, e, joined) = RegistriesOf(p)
  BY DEF NewText, RegistriesOf
<1>2. \A c \in ChangeSet(p) : Record(c, p, e) \in Rows
  BY PackChanges DEF Record, Rows
<1>3. \A r \in RegistriesOf(p) : store[Registry(r)] \subseteq Rows
  BY Files, PackChanges DEF StoreOK, FilesOK, ContentOf
<1>4. \A r \in RegistriesOf(p) :
        NewText(p, e, joined)[r] \subseteq store[Registry(r)] \cup NewRows(p, r, e)
  BY DEF NewText, RegistriesOf
<1>5. \A r \in RegistriesOf(p) : NewRows(p, r, e) \subseteq Rows
  BY <1>2 DEF NewRows
<1> QED
  BY <1>1, <1>3, <1>4, <1>5

\* What a call writes to a file is content of that file.
LEMMA NewContentTyped ==
  ASSUME Typed, NEW w \in Workers, run[w].pc = "write", NEW t \in run[w].todo
  PROVE  /\ t \in Targets /\ t \in WriteSet(run[w].pack, run[w].event)
         /\ NewContent(w, t) \in ContentOf(t) /\ store[t] \in ContentOf(t)
<1>1. LocalsOK(run[w]) /\ t \in Targets
  BY DEF Typed, LocalsOK
<1>2. t \in WriteSet(run[w].pack, run[w].event) /\ run[w].pack \in Packs /\ run[w].event \in EventIds
  BY <1>1 DEF LocalsOK
<1>3. store[t] \in ContentOf(t)
  BY <1>1 DEF Typed, StoreOK, FilesOK
<1>4. CASE t \in RegistryFiles
  <2>1. t[2] \in RegistriesOf(run[w].pack)
    BY <1>2, <1>4, WritesAreFiles
  <2>2. run[w].text[t[2]] \subseteq Rows
    BY <1>1, <2>1 DEF LocalsOK
  <2>3. NewContent(w, t) = run[w].text[t[2]] /\ ContentOf(t) = SUBSET Rows
    BY <1>4 DEF NewContent, ContentOf
  <2> QED
    BY <1>1, <1>2, <1>3, <2>2, <2>3
<1>5. CASE t \notin RegistryFiles
  <2>1. NewContent(w, t) = run[w].pack /\ ContentOf(t) = Packs \cup {NoFile, CutFile}
    BY <1>5 DEF NewContent, ContentOf
  <2> QED
    BY <1>1, <1>2, <1>3, <2>1
<1> QED
  BY <1>1, <1>2, <1>3, <1>4, <1>5

LEMMA StoreStep ==
  ASSUME StoreOK, NEW t \in Targets, NEW c \in ContentOf(t), store' = [store EXCEPT ![t] = c]
  PROVE  StoreOK'
  BY DEF StoreOK, FilesOK, ContentOf

LEMMA SnapshotTyped ==
  ASSUME Typed, NEW w \in Workers, NEW t \in Targets
  PROVE  /\ DOMAIN WithSnapshot(w, t) = DOMAIN run[w].snap \cup {t}
         /\ \A u \in DOMAIN WithSnapshot(w, t) : WithSnapshot(w, t)[u] \in ContentOf(u)
  BY DEF Typed, LocalsOK, StoreOK, FilesOK, WithSnapshot

LEMMA TypedNext == Typed /\ [Next]_vars => Typed'
<1> SUFFICES ASSUME Typed, [Next]_vars PROVE Typed'
  OBVIOUS
<1>t. /\ StateOK /\ StoreOK /\ \A w \in Workers : LocalsOK(run[w])
      /\ \A w \in Workers : run[w].pc # "idle" => run[w].pack \in Packs
  BY DEF Typed, LocalsOK
<1>r. LocalsOK(Resting)
  BY DEF LocalsOK, Resting
<1>s. UNCHANGED store => StoreOK'
  BY <1>t DEF StoreOK, FilesOK, ContentOf
<1>1. CASE Around
  <2>1. StateOK'
    <3>1. ASSUME NEW ref \in Refs, RecordEvidence(ref) PROVE StateOK'
      BY <1>t, <3>1 DEF RecordEvidence, StateOK, history
    <3>2. ASSUME NEW p \in Packs, Propose(p) PROVE StateOK'
      <4>1. base' \in [Packs -> (0..MaxRev) \cup {NoRev}]
        BY <1>t, <3>2 DEF Propose, StateOK, history
      <4> QED
        BY <1>t, <3>2, <4>1 DEF Propose, StateOK, history
    <3>3. CASE Commit \/ SubjectCommit
      <4>1. rev' \in 0..MaxRev
        BY <1>t, <3>3, NamesAssumption DEF Commit, SubjectCommit, StateOK, history
      <4> QED
        BY <1>t, <3>3, <4>1 DEF Commit, SubjectCommit, StateOK, history
    <3> QED
      BY <1>1, <3>1, <3>2, <3>3 DEF Around
  <2>2. UNCHANGED <<store, run>>
    BY <1>1 DEF Around, RecordEvidence, Propose, Commit, SubjectCommit
  <2> QED
    BY <1>s, <2>1, <2>2 DEF Typed, LocalsOK
<1>2. ASSUME NEW w \in Workers, NEW p \in Packs, NEW a \in BOOLEAN, Validate(w, p, a)
      PROVE  Typed'
  <2> DEFINE r == [run[w] EXCEPT !.pc = "preflight", !.pack = p]
  <2>1. run' = [run EXCEPT ![w] = r] /\ UNCHANGED store /\ StateOK'
    BY <1>t, <1>2 DEF Validate, StateOK, history, Typed
  <2>2. LocalsOK(r)
    BY <1>t, <1>2 DEF Validate, LocalsOK
  <2> HIDE DEF r
  <2> QED
    BY <1>s, <2>1, <2>2, CallStep
<1>3. ASSUME NEW w \in Workers, Preflight(w) PROVE Typed'
  <2> DEFINE r == [run[w] EXCEPT !.pc = "prepare"]
  <2>1. run' = [run EXCEPT ![w] = r] /\ UNCHANGED store /\ StateOK'
    BY <1>t, <1>3 DEF Preflight, Goto, StateOK, history, Typed
  <2>2. LocalsOK(r)
    BY <1>t, <1>3 DEF Preflight, LocalsOK
  <2> HIDE DEF r
  <2> QED
    BY <1>s, <2>1, <2>2, CallStep
<1>4. ASSUME NEW w \in Workers, PreflightRejects(w) \/ PrepareRejects(w) \/ Crash(w) \/ Move(w)
      PROVE  Typed'
  <2>1. run' = [run EXCEPT ![w] = Resting] /\ UNCHANGED store
    BY <1>4 DEF PreflightRejects, PrepareRejects, Crash, Move, Stop
  <2>2. cut' \subseteq Registries
    BY <1>t, <1>4, Files
    DEF PreflightRejects, PrepareRejects, Crash, Move, history, StateOK, RegistryFiles
  <2>3. StateOK'
    BY <1>t, <1>4, <2>2 DEF PreflightRejects, PrepareRejects, Crash, Move, history, StateOK
  <2> QED
    BY <1>r, <1>s, <2>1, <2>3, CallStep
<1>5. ASSUME NEW w \in Workers, Prepare(w) PROVE Typed'
  <2> DEFINE p == run[w].pack
  <2>0. PICK e \in EventIds : \E joined \in JoinedLines(p, e) :
          run' = [run EXCEPT ![w] = [@ EXCEPT !.pc = "write", !.event = e,
                                       !.todo = WriteSet(p, e), !.text = NewText(p, e, joined)]]
    BY <1>5 DEF Prepare
  <2>1. PICK joined \in JoinedLines(p, e) :
          run' = [run EXCEPT ![w] = [@ EXCEPT !.pc = "write", !.event = e,
                                       !.todo = WriteSet(p, e), !.text = NewText(p, e, joined)]]
    BY <2>0
  <2>2. run[w].pc = "prepare" /\ p \in Packs /\ UNCHANGED store /\ StateOK'
    BY <1>t, <1>5 DEF Prepare, StateOK, history
  <2>3. /\ DOMAIN NewText(p, e, joined) = RegistriesOf(p)
        /\ \A r \in RegistriesOf(p) : r \in Registries /\ NewText(p, e, joined)[r] \subseteq Rows
    BY <1>t, <2>2, NewTextTyped, PackChanges
  <2>4. WriteSet(p, e) \subseteq Targets
    BY <2>2, WritesAreFiles
  <2> DEFINE r == [run[w] EXCEPT !.pc = "write", !.event = e,
                                 !.todo = WriteSet(p, e), !.text = NewText(p, e, joined)]
  <2>5. LocalsOK(r)
    <3>1. /\ DOMAIN r = DOMAIN run[w] /\ r.pc = "write" /\ r.event = e /\ r.pack = p
          /\ r.todo = WriteSet(p, e) /\ r.text = NewText(p, e, joined) /\ r.snap = run[w].snap
      BY <1>t DEF LocalsOK
    <3>2. DOMAIN run[w].snap = {}
      BY <1>t, <2>2 DEF LocalsOK
    <3> HIDE DEF r, p
    <3> QED
      BY <1>t, <2>2, <2>3, <2>4, <3>1, <3>2 DEF LocalsOK
  <2>6. run' = [run EXCEPT ![w] = r]
    BY <2>1
  <2> HIDE DEF r
  <2> QED
    BY <1>s, <2>2, <2>5, <2>6, CallStep
<1>6. ASSUME NEW w \in Workers, Write(w) PROVE Typed'
  <2>1. PICK t \in run[w].todo :
          /\ store' = [store EXCEPT ![t] = NewContent(w, t)]
          /\ run' = [run EXCEPT ![w] = [run[w] EXCEPT !.todo = @ \ {t},
                                                       !.snap = WithSnapshot(w, t)]]
    BY <1>6 DEF Write
  <2>2. run[w].pc = "write" /\ StateOK'
    BY <1>t, <1>6 DEF Write, StateOK, history
  <2>3. /\ t \in Targets /\ t \in WriteSet(run[w].pack, run[w].event)
        /\ NewContent(w, t) \in ContentOf(t)
    BY <2>2, NewContentTyped
  <2>4. StoreOK'
    BY <1>t, <2>1, <2>3, StoreStep
  <2> DEFINE s == WithSnapshot(w, t)
             r == [run[w] EXCEPT !.todo = @ \ {t}, !.snap = s]
  <2>5. DOMAIN s = DOMAIN run[w].snap \cup {t} /\ \A u \in DOMAIN s : s[u] \in ContentOf(u)
    BY <2>3, SnapshotTyped
  <2>6. run' = [run EXCEPT ![w] = r]
    BY <2>1
  <2>7. LocalsOK(r)
    <3> HIDE DEF s
    <3> QED
      BY <1>t, <2>2, <2>3, <2>5 DEF LocalsOK
  <2> HIDE DEF r
  <2> QED
    BY <2>2, <2>4, <2>6, <2>7, CallStep
<1>7. ASSUME NEW w \in Workers, WriteFails(w) PROVE Typed'
  <2>1. PICK t \in run[w].todo :
          run' = [run EXCEPT ![w] = [@ EXCEPT !.pc = "rollback", !.todo = {},
                                              !.snap = WithSnapshot(w, t)]]
    BY <1>7 DEF WriteFails
  <2>2. run[w].pc = "write" /\ StateOK' /\ UNCHANGED store
    BY <1>t, <1>7 DEF WriteFails, StateOK, history
  <2>3. t \in Targets /\ t \in WriteSet(run[w].pack, run[w].event)
    BY <2>2, NewContentTyped
  <2> DEFINE s == WithSnapshot(w, t)
             r == [run[w] EXCEPT !.pc = "rollback", !.todo = {}, !.snap = s]
  <2>5. DOMAIN s = DOMAIN run[w].snap \cup {t} /\ \A u \in DOMAIN s : s[u] \in ContentOf(u)
    BY <2>3, SnapshotTyped
  <2>6. run' = [run EXCEPT ![w] = r]
    BY <2>1
  <2>7. LocalsOK(r)
    <3> HIDE DEF s
    <3> QED
      BY <1>t, <2>2, <2>3, <2>5 DEF LocalsOK
  <2> HIDE DEF r
  <2> QED
    BY <1>s, <2>2, <2>6, <2>7, CallStep
<1>8. ASSUME NEW w \in Workers, MoveFails(w) PROVE Typed'
  <2> DEFINE r == [run[w] EXCEPT !.pc = "rollback"]
  <2>1. run' = [run EXCEPT ![w] = r] /\ UNCHANGED store /\ StateOK'
    BY <1>t, <1>8 DEF MoveFails, Goto, StateOK, history, Typed
  <2>2. LocalsOK(r)
    BY <1>t, <1>8 DEF MoveFails, LocalsOK
  <2> HIDE DEF r
  <2> QED
    BY <1>s, <2>1, <2>2, CallStep
<1>9. ASSUME NEW w \in Workers, Rollback(w) PROVE Typed'
  <2>1. PICK t \in DOMAIN run[w].snap :
          store' = [store EXCEPT ![t] = run[w].snap[t]] /\ RollbackStep(w, t, DOMAIN run[w].snap)
    BY <1>9 DEF Rollback
  <2>2. run[w].pc \in {"rollback", "restore"} /\ StateOK'
    BY <1>t, <1>9 DEF Rollback, StateOK, history
  <2>3. t \in Targets /\ run[w].snap[t] \in ContentOf(t)
    BY <1>t DEF LocalsOK
  <2>4. StoreOK'
    BY <1>t, <2>1, <2>3, StoreStep
  <2> DEFINE s == [u \in DOMAIN run[w].snap \ {t} |-> run[w].snap[u]]
             back == [run[w] EXCEPT !.pc = "rollback", !.todo = {}, !.snap = s]
             r == IF DOMAIN run[w].snap = {t} THEN Resting ELSE back
  <2>5. DOMAIN s = DOMAIN run[w].snap \ {t} /\ \A u \in DOMAIN s : s[u] = run[w].snap[u]
    OBVIOUS
  <2>6. run' = [run EXCEPT ![w] = r]
    BY <2>1 DEF RollbackStep
  <2>7. LocalsOK(r)
    <3>1. LocalsOK(back)
      <4> HIDE DEF s
      <4> QED
        BY <1>t, <2>2, <2>5 DEF LocalsOK
    <3> QED
      BY <1>r, <3>1
  <2> HIDE DEF r
  <2> QED
    BY <2>2, <2>4, <2>6, <2>7, CallStep
<1>11. ASSUME NEW w \in Workers, Overwrite(w) PROVE Typed'
  <2>0. PICK t \in DOMAIN run[w].snap :
          /\ \E part \in PartsOf(t, run[w].snap[t]) : store' = [store EXCEPT ![t] = part]
          /\ run' = [run EXCEPT ![w] = [@ EXCEPT !.pc = "restore", !.todo = {t}]]
    BY <1>11 DEF Overwrite
  <2>1. PICK part \in PartsOf(t, run[w].snap[t]) : store' = [store EXCEPT ![t] = part]
    BY <2>0
  <2>2. run[w].pc = "rollback" /\ StateOK'
    BY <1>t, <1>11 DEF Overwrite, StateOK, history
  <2>3. t \in Targets /\ run[w].snap[t] \in ContentOf(t)
    BY <1>t DEF LocalsOK
  <2>4. part \in ContentOf(t)
    BY <2>3 DEF PartsOf, ContentOf
  <2>5. StoreOK'
    BY <1>t, <2>1, <2>3, <2>4, StoreStep
  <2> DEFINE r == [run[w] EXCEPT !.pc = "restore", !.todo = {t}]
  <2>6. LocalsOK(r)
    BY <1>t, <2>2, <2>3 DEF LocalsOK
  <2>7. run' = [run EXCEPT ![w] = r]
    BY <2>0
  <2> HIDE DEF r
  <2> QED
    BY <2>2, <2>5, <2>6, <2>7, CallStep
<1>10. CASE UNCHANGED vars
  BY <1>t, <1>s, <1>10 DEF vars, history, Typed, StateOK, LocalsOK
<1> QED
  BY <1>1, <1>2, <1>3, <1>4, <1>5, <1>6, <1>7, <1>8, <1>9, <1>10, <1>11 DEF Next, Advance

LEMMA AlwaysTyped == Spec => []Typed
  BY TypedInit, TypedNext, PTL DEF Spec

\* Pages, registries and events hold what they may, and a call's locals have
\* their domains, for any number of processes.
THEOREM TypeCorrect == Spec => []TypeOK
<1>1. Typed => TypeOK
  <2> SUFFICES ASSUME Typed PROVE TypeOK
    OBVIOUS
  <2>1. \A w \in Workers : RunTypeOK(w)
    BY DEF Typed, LocalsOK, RunTypeOK
  <2>2. \A t \in Pages \cup Events : t \in Targets /\ t \notin RegistryFiles
    BY Files DEF Pages, Events
  <2>3. \A t \in Pages \cup Events : store[t] \in Packs \cup {NoFile, CutFile}
    BY <2>2 DEF Typed, StoreOK, FilesOK, ContentOf
  <2>4. \A t \in RegistryFiles : store[t] \subseteq Rows
    BY Files DEF Typed, StoreOK, FilesOK, ContentOf
  <2> QED
    BY <2>1, <2>3, <2>4 DEF Typed, StateOK, StoreOK, FilesOK, TypeOK
<1> QED
  BY <1>1, AlwaysTyped, PTL

-----------------------------------------------------------------------------
(* The audit trail, for any number of processes *)

\* Whose an event is: while a call has drawn it, the file is the call's to
\* write and to take back; afterwards it names an applied or a dead pack.
OwnEvent(w) ==
  LET r == run[w]
      t == Event(run[w].event)
  IN /\ r.pc = "write" =>
          \/ t \in r.todo /\ t \notin DOMAIN r.snap /\ store[t] = NoFile
          \/ t \notin r.todo /\ t \in DOMAIN r.snap /\ r.snap[t] = NoFile /\ store[t] = r.pack
     /\ r.pc \in {"rollback", "restore"} =>
          \/ t \in DOMAIN r.snap /\ r.snap[t] = NoFile /\ store[t] \in {r.pack, NoFile}
          \/ t \notin DOMAIN r.snap /\ store[t] = NoFile
EventsDistinct ==
  \A v, w \in Workers : v # w /\ run[v].event = run[w].event => run[v].event = NoEvent
EventsOwned ==
  \A e \in EventIds : store[Event(e)] # NoFile =>
    \/ store[Event(e)] \in applied \cup crashed
    \/ \E w \in Workers : run[w].event = e /\ run[w].pack = store[Event(e)]
AppliedRecorded ==
  \A p \in applied : \E e \in EventIds :
    store[Event(e)] = p /\ \A w \in Workers : run[w].event # e
Audit ==
  /\ EventsDistinct /\ EventsOwned /\ AppliedRecorded
  /\ \A w \in Workers : OwnEvent(w)

\* A call writes to the event file it drew and to no other.
LEMMA OneEventFile ==
  ASSUME NEW p \in Packs, NEW e \in EventIds, NEW t \in WriteSet(p, e),
         NEW f \in EventIds, t = Event(f)
  PROVE  f = e
  BY Files DEF WriteSet, PageTargets, RegistryTargets

\* A step before the call has drawn its event
LEMMA AuditBefore ==
  ASSUME Typed, Audit, NEW w \in Workers, NEW r, run' = [run EXCEPT ![w] = r],
         run[w].event = NoEvent, r.event = NoEvent, r.pc \notin {"write", "rollback", "restore"},
         UNCHANGED <<store, applied, crashed>>
  PROVE  Audit'
<1>1. \A v \in Workers : /\ run'[v].event = run[v].event
                         /\ v # w => run'[v] = run[v]
                         /\ v = w => run'[v] = r
  BY DEF Typed
<1>2. \A v \in Workers : OwnEvent(v)'
  BY <1>1 DEF Audit, OwnEvent
<1>3. EventsOwned'
  BY <1>1, NamesAssumption DEF Audit, EventsOwned
<1> QED
  BY <1>1, <1>2, <1>3 DEF Audit, EventsDistinct, AppliedRecorded

\* A step of a call that leaves the events of the other calls alone
LEMMA AuditDuring ==
  ASSUME Typed, Audit, NEW w \in Workers, NEW r, run' = [run EXCEPT ![w] = r],
         r.event = run[w].event, r.pack = run[w].pack, run[w].event \in EventIds,
         \A f \in EventIds : f # run[w].event => store'[Event(f)] = store[Event(f)],
         store'[Event(run[w].event)] \in {run[w].pack, NoFile},
         UNCHANGED <<applied, crashed>>, OwnEvent(w)'
  PROVE  Audit'
<1>1. \A v \in Workers : /\ run'[v].event = run[v].event /\ run'[v].pack = run[v].pack
                         /\ v # w => run'[v] = run[v] /\ run[v].event # run[w].event
  BY NamesAssumption DEF Typed, Audit, EventsDistinct
<1>2. \A v \in Workers : OwnEvent(v)'
  <2> SUFFICES ASSUME NEW v \in Workers, v # w, run[v].pc \in {"write", "rollback", "restore"}
               PROVE  OwnEvent(v)'
    BY <1>1 DEF OwnEvent
  <2>1. run[v].event \in EventIds
    BY DEF Typed, LocalsOK
  <2>2. store'[Event(run[v].event)] = store[Event(run[v].event)]
    BY <1>1, <2>1
  <2>3. OwnEvent(v)
    BY DEF Audit
  <2> QED
    BY <1>1, <2>2, <2>3 DEF OwnEvent
<1>3. EventsOwned'
  <2> SUFFICES ASSUME NEW e \in EventIds, store'[Event(e)] # NoFile
               PROVE  \/ store'[Event(e)] \in applied' \cup crashed'
                      \/ \E v \in Workers : run'[v].event = e /\ run'[v].pack = store'[Event(e)]
    BY DEF EventsOwned
  <2>1. CASE e = run[w].event
    BY <1>1, <2>1
  <2>2. CASE e # run[w].event
    BY <1>1, <2>2 DEF Audit, EventsOwned
  <2> QED
    BY <2>1, <2>2
<1>4. AppliedRecorded'
  <2> SUFFICES ASSUME NEW p \in applied
               PROVE  \E e \in EventIds : /\ store'[Event(e)] = p
                                          /\ \A v \in Workers : run'[v].event # e
    BY DEF AppliedRecorded
  <2>1. PICK e \in EventIds : store[Event(e)] = p /\ \A v \in Workers : run[v].event # e
    BY DEF Audit, AppliedRecorded
  <2> QED
    BY <1>1, <2>1
<1> QED
  BY <1>1, <1>2, <1>3, <1>4 DEF Audit, EventsDistinct

\* The end of a call: its event names an applied or a dead pack, or is gone.
LEMMA AuditAfter ==
  ASSUME Typed, Audit, NEW w \in Workers, run' = [run EXCEPT ![w] = Resting],
         \A f \in EventIds : f # run[w].event => store'[Event(f)] = store[Event(f)],
         run[w].event \in EventIds =>
           store'[Event(run[w].event)] \in applied' \cup crashed' \cup {NoFile},
         applied \subseteq applied', crashed \subseteq crashed',
         \A p \in applied' \ applied :
           run[w].event \in EventIds /\ store'[Event(run[w].event)] = p
  PROVE  Audit'
<1>1. \A v \in Workers : v # w => run'[v] = run[v]
  BY DEF Typed
<1>2. run'[w].event = NoEvent /\ run'[w].pc = "idle"
  BY DEF Typed, Resting
<1>3. \A v \in Workers : v # w /\ run[w].event \in EventIds => run[v].event # run[w].event
  BY NamesAssumption DEF Audit, EventsDistinct
<1>4. EventsDistinct'
  BY <1>1, <1>2 DEF Audit, EventsDistinct
<1>5. \A v \in Workers : OwnEvent(v)'
  <2> SUFFICES ASSUME NEW v \in Workers, v # w, run[v].pc \in {"write", "rollback", "restore"}
               PROVE  OwnEvent(v)'
    BY <1>1, <1>2 DEF OwnEvent
  <2>1. run[v].event \in EventIds
    BY DEF Typed, LocalsOK
  <2>2. run[v].event # run[w].event
    BY <1>3, <2>1
  <2>3. store'[Event(run[v].event)] = store[Event(run[v].event)]
    BY <2>1, <2>2
  <2>4. OwnEvent(v)
    BY DEF Audit
  <2> QED
    BY <1>1, <2>3, <2>4 DEF OwnEvent
<1>6. EventsOwned'
  <2> SUFFICES ASSUME NEW e \in EventIds, store'[Event(e)] # NoFile
               PROVE  \/ store'[Event(e)] \in applied' \cup crashed'
                      \/ \E v \in Workers : run'[v].event = e /\ run'[v].pack = store'[Event(e)]
    BY DEF EventsOwned
  <2>1. CASE e = run[w].event
    BY <2>1
  <2>2. CASE e # run[w].event
    BY <1>1, <2>2 DEF Audit, EventsOwned
  <2> QED
    BY <2>1, <2>2
<1>7. AppliedRecorded'
  <2> SUFFICES ASSUME NEW p \in applied'
               PROVE  \E e \in EventIds : /\ store'[Event(e)] = p
                                          /\ \A v \in Workers : run'[v].event # e
    BY DEF AppliedRecorded
  <2>1. CASE p \in applied
    <3>1. PICK e \in EventIds : store[Event(e)] = p /\ \A v \in Workers : run[v].event # e
      BY <2>1 DEF Audit, AppliedRecorded
    <3> QED
      BY <1>1, <1>2, <3>1, NamesAssumption
  <2>2. CASE p \notin applied
    BY <1>1, <1>2, <1>3, <2>2, NamesAssumption
  <2> QED
    BY <2>1, <2>2
<1> QED
  BY <1>4, <1>5, <1>6, <1>7 DEF Audit

LEMMA AuditInit == Init => Audit
<1> SUFFICES ASSUME Init PROVE Audit
  OBVIOUS
<1>1. \A e \in EventIds : store[Event(e)] = NoFile
  BY Files DEF Init
<1>2. \A w \in Workers : run[w].event = NoEvent /\ run[w].pc = "idle"
  BY DEF Init, Resting
<1>3. applied = {}
  BY DEF Init
<1> QED
  BY <1>1, <1>2, <1>3 DEF Audit, EventsDistinct, EventsOwned, AppliedRecorded, OwnEvent

LEMMA AuditNext == Typed /\ Audit /\ [Next]_vars => Audit'
<1> SUFFICES ASSUME Typed, Audit, [Next]_vars PROVE Audit'
  OBVIOUS
<1>t. \A w \in Workers :
        /\ LocalsOK(run[w]) /\ OwnEvent(w)
        /\ run[w].pc \in {"preflight", "prepare", "idle"} => run[w].event = NoEvent
        /\ run[w].pc \in {"write", "rollback", "restore"} => run[w].pack \in Packs /\ run[w].event \in EventIds
  BY DEF Typed, Audit, LocalsOK
<1>1. CASE UNCHANGED vars \/ Around
  <2>1. UNCHANGED <<store, run, applied, crashed>>
    BY <1>1 DEF vars, history, Around, RecordEvidence, Propose, Commit, SubjectCommit
  <2> QED
    BY <2>1 DEF Audit, EventsDistinct, EventsOwned, AppliedRecorded, OwnEvent
<1>2. ASSUME NEW w \in Workers, NEW p \in Packs, NEW a \in BOOLEAN, Validate(w, p, a)
      PROVE  Audit'
  <2> DEFINE r == [run[w] EXCEPT !.pc = "preflight", !.pack = p]
  <2>1. /\ run' = [run EXCEPT ![w] = r] /\ UNCHANGED <<store, applied, crashed>>
        /\ run[w].event = NoEvent
    BY <1>t, <1>2 DEF Validate, history, Typed
  <2>2. r.event = run[w].event /\ r.pc = "preflight"
    BY <1>t DEF LocalsOK
  <2> HIDE DEF r
  <2> QED
    BY <2>1, <2>2, AuditBefore
<1>3. ASSUME NEW w \in Workers, Preflight(w) PROVE Audit'
  <2> DEFINE r == [run[w] EXCEPT !.pc = "prepare"]
  <2>1. /\ run' = [run EXCEPT ![w] = r] /\ UNCHANGED <<store, applied, crashed>>
        /\ run[w].event = NoEvent
    BY <1>t, <1>3 DEF Preflight, Goto, history, Typed
  <2>2. r.event = run[w].event /\ r.pc = "prepare"
    BY <1>t DEF LocalsOK
  <2> HIDE DEF r
  <2> QED
    BY <2>1, <2>2, AuditBefore
<1>4. ASSUME NEW w \in Workers, PreflightRejects(w) \/ PrepareRejects(w) PROVE Audit'
  <2>1. /\ run' = [run EXCEPT ![w] = Resting] /\ UNCHANGED <<store, applied, crashed>>
        /\ run[w].event = NoEvent
    BY <1>t, <1>4 DEF PreflightRejects, PrepareRejects, Stop, history
  <2> QED
    BY <2>1, AuditAfter, NamesAssumption
<1>5. ASSUME NEW w \in Workers, Prepare(w) PROVE Audit'
  <2> DEFINE p == run[w].pack
  <2>0. PICK e \in EventIds : FreshEvent(e) /\ \E joined \in JoinedLines(p, e) :
          run' = [run EXCEPT ![w] = [@ EXCEPT !.pc = "write", !.event = e,
                                       !.todo = WriteSet(p, e), !.text = NewText(p, e, joined)]]
    BY <1>5 DEF Prepare
  <2>1. PICK joined \in JoinedLines(p, e) :
          /\ FreshEvent(e)
          /\ run' = [run EXCEPT ![w] = [@ EXCEPT !.pc = "write", !.event = e,
                                          !.todo = WriteSet(p, e), !.text = NewText(p, e, joined)]]
    BY <2>0
  <2> DEFINE r == [run[w] EXCEPT !.pc = "write", !.event = e,
                                 !.todo = WriteSet(p, e), !.text = NewText(p, e, joined)]
  <2>2. /\ r.pc = "write" /\ r.event = e /\ r.todo = WriteSet(p, e) /\ r.snap = run[w].snap
        /\ run' = [run EXCEPT ![w] = r]
    BY <1>t, <2>1 DEF LocalsOK
  <2>3. UNCHANGED <<store, applied, crashed>> /\ DOMAIN run[w].snap = {} /\ run[w].event = NoEvent
    BY <1>t, <1>5 DEF Prepare, history, LocalsOK
  <2>4. store[Event(e)] = NoFile /\ \A v \in Workers : run[v].event # e
    BY <2>1 DEF FreshEvent
  <2> HIDE DEF r, p
  <2>5. \A v \in Workers : /\ v # w => run'[v] = run[v]
                           /\ v = w => run'[v] = r
    BY <2>2 DEF Typed
  <2>6. OwnEvent(w)'
    BY <2>2, <2>3, <2>4, <2>5 DEF OwnEvent, WriteSet
  <2>7. \A v \in Workers : OwnEvent(v)'
    BY <1>t, <2>3, <2>5, <2>6 DEF OwnEvent
  <2>8. EventsDistinct'
    BY <2>2, <2>4, <2>5 DEF Audit, EventsDistinct
  <2>9. EventsOwned'
    BY <2>2, <2>3, <2>4, <2>5, NamesAssumption DEF Audit, EventsOwned
  <2>10. AppliedRecorded'
    <3> SUFFICES ASSUME NEW q \in applied
                 PROVE  \E f \in EventIds : /\ store'[Event(f)] = q
                                            /\ \A v \in Workers : run'[v].event # f
      BY <2>3 DEF AppliedRecorded
    <3>1. PICK f \in EventIds : store[Event(f)] = q /\ \A v \in Workers : run[v].event # f
      BY DEF Audit, AppliedRecorded
    <3>2. q # NoFile
      BY NamesAssumption DEF Typed, StateOK
    <3> QED
      BY <2>2, <2>3, <2>4, <2>5, <3>1, <3>2
  <2> QED
    BY <2>7, <2>8, <2>9, <2>10 DEF Audit
<1>6. ASSUME NEW w \in Workers, Write(w) PROVE Audit'
  <2>1. PICK t \in run[w].todo :
          /\ store' = [store EXCEPT ![t] = NewContent(w, t)]
          /\ run' = [run EXCEPT ![w] = [run[w] EXCEPT !.todo = @ \ {t},
                                                       !.snap = WithSnapshot(w, t)]]
    BY <1>6 DEF Write
  <2>2. run[w].pc = "write" /\ UNCHANGED <<applied, crashed>>
    BY <1>6 DEF Write, history
  <2>3. t \in Targets /\ t \in WriteSet(run[w].pack, run[w].event)
    BY <2>2, NewContentTyped
  <2> DEFINE s == WithSnapshot(w, t)
             r == [run[w] EXCEPT !.todo = @ \ {t}, !.snap = s]
             t0 == Event(run[w].event)
  <2>4. /\ DOMAIN s = DOMAIN run[w].snap \cup {t} /\ s[t] = store[t]
        /\ \A u \in DOMAIN s : u # t => s[u] = run[w].snap[u]
    BY DEF WithSnapshot
  <2>5. \A u \in Targets : store'[u] = IF u = t THEN NewContent(w, t) ELSE store[u]
    BY <2>1 DEF Typed, StoreOK, FilesOK
  <2>6. t0 \in Targets /\ t0 \notin RegistryFiles
    BY <1>t, <2>2, Files
  <2>7. /\ run' = [run EXCEPT ![w] = r] /\ r.pc = "write" /\ r.event = run[w].event
        /\ r.pack = run[w].pack /\ r.todo = run[w].todo \ {t} /\ r.snap = s
    BY <1>t, <2>1, <2>2 DEF LocalsOK
  <2> HIDE DEF s, r
  <2>8. run'[w] = r
    BY <2>7 DEF Typed
  <2>9. \/ t0 \in run[w].todo /\ t0 \notin DOMAIN run[w].snap /\ store[t0] = NoFile
        \/ /\ t0 \notin run[w].todo /\ t0 \in DOMAIN run[w].snap
           /\ run[w].snap[t0] = NoFile /\ store[t0] = run[w].pack
    BY <1>t, <2>2 DEF OwnEvent
  <2>10. \/ t0 \in r.todo /\ t0 \notin DOMAIN s /\ store'[t0] = NoFile
         \/ t0 \notin r.todo /\ t0 \in DOMAIN s /\ s[t0] = NoFile /\ store'[t0] = run[w].pack
    <3>1. CASE t0 = t
      BY <2>4, <2>5, <2>6, <2>7, <2>9, <3>1 DEF NewContent
    <3>2. CASE t0 # t
      BY <2>4, <2>5, <2>6, <2>7, <2>9, <3>2
    <3> QED
      BY <3>1, <3>2
  <2>11. OwnEvent(w)'
    BY <2>7, <2>8, <2>10 DEF OwnEvent
  <2>12. \A f \in EventIds : f # run[w].event => store'[Event(f)] = store[Event(f)]
    BY <1>t, <2>2, <2>3, <2>5, OneEventFile, Files
  <2> QED
    BY <1>t, <2>2, <2>7, <2>10, <2>11, <2>12, AuditDuring
<1>7. ASSUME NEW w \in Workers, WriteFails(w) PROVE Audit'
  <2>1. PICK t \in run[w].todo :
          run' = [run EXCEPT ![w] = [@ EXCEPT !.pc = "rollback", !.todo = {},
                                              !.snap = WithSnapshot(w, t)]]
    BY <1>7 DEF WriteFails
  <2>2. run[w].pc = "write" /\ UNCHANGED <<store, applied, crashed>>
    BY <1>7 DEF WriteFails, history
  <2> DEFINE s == WithSnapshot(w, t)
             r == [run[w] EXCEPT !.pc = "rollback", !.todo = {}, !.snap = s]
             t0 == Event(run[w].event)
  <2>4. /\ DOMAIN s = DOMAIN run[w].snap \cup {t} /\ s[t] = store[t]
        /\ \A u \in DOMAIN s : u # t => s[u] = run[w].snap[u]
    BY DEF WithSnapshot
  <2>7. /\ run' = [run EXCEPT ![w] = r] /\ r.pc = "rollback" /\ r.event = run[w].event
        /\ r.pack = run[w].pack /\ r.snap = s
    BY <1>t, <2>1 DEF LocalsOK
  <2> HIDE DEF s, r
  <2>8. run'[w] = r
    BY <2>7 DEF Typed
  <2>9. \/ t0 \in run[w].todo /\ t0 \notin DOMAIN run[w].snap /\ store[t0] = NoFile
        \/ /\ t0 \notin run[w].todo /\ t0 \in DOMAIN run[w].snap
           /\ run[w].snap[t0] = NoFile /\ store[t0] = run[w].pack
    BY <1>t, <2>2 DEF OwnEvent
  <2>10. /\ \/ t0 \in DOMAIN s /\ s[t0] = NoFile
            \/ t0 \notin DOMAIN s /\ store[t0] = NoFile
         /\ store[t0] \in {run[w].pack, NoFile}
    BY <2>4, <2>9
  <2>11. OwnEvent(w)'
    BY <2>2, <2>7, <2>8, <2>10 DEF OwnEvent
  <2> QED
    BY <1>t, <2>2, <2>7, <2>10, <2>11, AuditDuring
<1>8. ASSUME NEW w \in Workers, MoveFails(w) PROVE Audit'
  <2> DEFINE r == [run[w] EXCEPT !.pc = "rollback"]
  <2>1. /\ run[w].pc = "write" /\ UNCHANGED <<store, applied, crashed>>
        /\ run' = [run EXCEPT ![w] = r]
    BY <1>8 DEF MoveFails, Goto, history, Typed
  <2>2. /\ r.pc = "rollback" /\ r.event = run[w].event
        /\ r.pack = run[w].pack /\ r.snap = run[w].snap
    BY <1>t DEF LocalsOK
  <2> HIDE DEF r
  <2>3. run'[w] = r
    BY <2>1 DEF Typed
  <2>4. OwnEvent(w)'
    BY <1>t, <2>1, <2>2, <2>3 DEF OwnEvent
  <2>5. store[Event(run[w].event)] \in {run[w].pack, NoFile}
    BY <1>t, <2>1 DEF OwnEvent
  <2> QED
    BY <1>t, <2>1, <2>2, <2>4, <2>5, AuditDuring
<1>9. ASSUME NEW w \in Workers, Rollback(w) PROVE Audit'
  <2>1. PICK t \in DOMAIN run[w].snap :
          store' = [store EXCEPT ![t] = run[w].snap[t]] /\ RollbackStep(w, t, DOMAIN run[w].snap)
    BY <1>9 DEF Rollback
  <2>2. run[w].pc \in {"rollback", "restore"} /\ UNCHANGED <<applied, crashed>>
    BY <1>9 DEF Rollback, history
  <2>3. t \in Targets /\ t \in WriteSet(run[w].pack, run[w].event)
    BY <1>t, <2>2 DEF LocalsOK
  <2> DEFINE s == [u \in DOMAIN run[w].snap \ {t} |-> run[w].snap[u]]
             r == [run[w] EXCEPT !.pc = "rollback", !.todo = {}, !.snap = s]
             t0 == Event(run[w].event)
  <2>4. DOMAIN s = DOMAIN run[w].snap \ {t} /\ \A u \in DOMAIN s : s[u] = run[w].snap[u]
    OBVIOUS
  <2>5. \A u \in Targets : store'[u] = IF u = t THEN run[w].snap[t] ELSE store[u]
    BY <2>1 DEF Typed, StoreOK, FilesOK
  <2>6. t0 \in Targets
    BY <1>t, <2>2, Files
  <2>7. \/ /\ t0 \in DOMAIN run[w].snap /\ run[w].snap[t0] = NoFile
           /\ store[t0] \in {run[w].pack, NoFile}
        \/ t0 \notin DOMAIN run[w].snap /\ store[t0] = NoFile
    BY <1>t, <2>2 DEF OwnEvent
  <2>8. \/ t0 \in DOMAIN s /\ s[t0] = NoFile /\ store'[t0] \in {run[w].pack, NoFile}
        \/ t0 \notin DOMAIN s /\ store'[t0] = NoFile
    BY <2>4, <2>5, <2>6, <2>7
  <2>9. \A f \in EventIds : f # run[w].event => store'[Event(f)] = store[Event(f)]
    BY <1>t, <2>2, <2>3, <2>5, OneEventFile, Files
  <2>10. CASE DOMAIN run[w].snap = {t}
    <3>1. run' = [run EXCEPT ![w] = Resting]
      BY <2>1, <2>10 DEF RollbackStep
    <3>2. store'[t0] = NoFile
      BY <2>4, <2>8, <2>10
    <3> QED
      BY <2>2, <2>9, <3>1, <3>2, AuditAfter
  <2>11. CASE DOMAIN run[w].snap # {t}
    <3>1. /\ run' = [run EXCEPT ![w] = r] /\ r.pc = "rollback" /\ r.event = run[w].event
          /\ r.pack = run[w].pack /\ r.snap = s
      BY <1>t, <2>1, <2>2, <2>11 DEF RollbackStep, LocalsOK
    <3> HIDE DEF s, r
    <3>2. run'[w] = r
      BY <3>1 DEF Typed
    <3>3. OwnEvent(w)'
      BY <2>8, <3>1, <3>2 DEF OwnEvent
    <3> QED
      BY <1>t, <2>2, <2>8, <2>9, <3>1, <3>3, AuditDuring
  <2> QED
    BY <2>10, <2>11
<1>12. ASSUME NEW w \in Workers, Overwrite(w) PROVE Audit'
  <2>1. PICK t \in DOMAIN run[w].snap :
          /\ WasThere(w, t) /\ \E part \in PartsOf(t, run[w].snap[t]) : store' = [store EXCEPT ![t] = part]
          /\ run' = [run EXCEPT ![w] = [@ EXCEPT !.pc = "restore", !.todo = {t}]]
    BY <1>12 DEF Overwrite
  <2>2. run[w].pc = "rollback" /\ UNCHANGED <<applied, crashed>>
    BY <1>12 DEF Overwrite, history
  <2>3. t \in Targets /\ t \in WriteSet(run[w].pack, run[w].event)
    BY <1>t, <2>2 DEF LocalsOK
  <2> DEFINE r == [run[w] EXCEPT !.pc = "restore", !.todo = {t}]
             t0 == Event(run[w].event)
  <2>4. \/ /\ t0 \in DOMAIN run[w].snap /\ run[w].snap[t0] = NoFile
           /\ store[t0] \in {run[w].pack, NoFile}
        \/ t0 \notin DOMAIN run[w].snap /\ store[t0] = NoFile
    BY <1>t, <2>2 DEF OwnEvent
  <2>5. t # t0
    BY <2>1, <2>4 DEF WasThere
  <2>6. \A f \in EventIds : store'[Event(f)] = store[Event(f)]
    BY <1>t, <2>1, <2>2, <2>3, <2>5, OneEventFile, Files DEF Typed, StoreOK, FilesOK
  <2>7. /\ run' = [run EXCEPT ![w] = r] /\ r.pc = "restore" /\ r.event = run[w].event
        /\ r.pack = run[w].pack /\ r.snap = run[w].snap
    BY <1>t, <2>1 DEF LocalsOK
  <2> HIDE DEF r
  <2>8. run'[w] = r
    BY <2>7 DEF Typed
  <2>9. OwnEvent(w)'
    BY <1>t, <2>2, <2>4, <2>6, <2>7, <2>8 DEF OwnEvent
  <2> QED
    BY <1>t, <2>2, <2>4, <2>6, <2>7, <2>9, AuditDuring
<1>10. ASSUME NEW w \in Workers, Move(w) PROVE Audit'
  <2>1. /\ run[w].pc = "write" /\ run[w].todo = {} /\ applied' = applied \cup {run[w].pack}
        /\ UNCHANGED <<store, crashed>> /\ run' = [run EXCEPT ![w] = Resting]
    BY <1>10 DEF Move, Stop, history
  <2>2. store[Event(run[w].event)] = run[w].pack
    BY <1>t, <2>1 DEF OwnEvent
  <2> QED
    BY <1>t, <2>1, <2>2, AuditAfter
<1>11. ASSUME NEW w \in Workers, Crash(w) PROVE Audit'
  <2>1. /\ run[w].pc \in {"write", "rollback", "restore"} /\ crashed' = crashed \cup {run[w].pack}
        /\ UNCHANGED <<store, applied>> /\ run' = [run EXCEPT ![w] = Resting]
    BY <1>11 DEF Crash, Stop
  <2>2. store[Event(run[w].event)] \in {run[w].pack, NoFile}
    BY <1>t, <2>1 DEF OwnEvent
  <2> QED
    BY <1>t, <2>1, <2>2, AuditAfter
<1> QED
  BY <1>1, <1>2, <1>3, <1>4, <1>5, <1>6, <1>7, <1>8, <1>9, <1>10, <1>11, <1>12 DEF Next, Advance

\* The audit trail tells what was applied in every history of any number of
\* processes, also when they overlap: an applied pack has an event, and a pack
\* that is not applied has none once no call on it runs, unless one of them
\* died.  While a call runs, the event it drew is its own: no other call draws
\* it, writes it or takes it back.
THEOREM AuditTrailIsTrue == Spec => []AuditNamesApplied
<1>1. Typed /\ Audit => AuditNamesApplied
  <2> SUFFICES ASSUME Typed, Audit, NEW p \in Packs
               PROVE  LET recorded == \E e \in EventIds : store[Event(e)] = p
                      IN /\ p \in applied => recorded
                         /\ p \notin crashed /\ (\A w \in Workers : run[w].pack # p) =>
                              (recorded => p \in applied)
    BY DEF AuditNamesApplied
  <2>1. p # NoFile
    BY NamesAssumption
  <2> QED
    BY <2>1 DEF Audit, EventsOwned, AppliedRecorded
<1>2. Init => Audit
  BY AuditInit
<1>3. Spec => []Audit
  BY <1>2, AuditNext, AlwaysTyped, PTL DEF Spec
<1> QED
  BY <1>1, <1>3, AlwaysTyped, PTL

-----------------------------------------------------------------------------
(* One process at a time: the content of the store st, the packs ap that are *)
(* applied, the packs dead whose apply died, and the registries L that may   *)
(* have lost rows                                                            *)

DistinctIds(p) == \A c, d \in ChangeSet(p) : c.id = d.id => c = d
HasPages(st, p) == \A c \in ChangeSet(p) : st[Page(c.id)] = p
IdsIn(st, r) == {x.id : x \in st[Registry(r)]}

\* Every effect of a pack is there, from one call, as in AppliedIsComplete.
Whole(st, p, L) ==
  \E e \in EventIds :
    /\ st[Event(e)] = p
    /\ \A f \in EventIds : st[Event(f)] = p => f = e
    /\ \A c \in ChangeSet(p) :
         /\ st[Page(c.id)] = p
         /\ Record(c, p, e) \in st[Registry(RegistryOf(c))] \/ RegistryOf(c) \in L
PagesNamed(st) ==
  \A i \in Ids : st[Page(i)] # NoFile =>
    /\ st[Page(i)] \in Packs
    /\ DistinctIds(st[Page(i)]) /\ \E c \in ChangeSet(st[Page(i)]) : c.id = i
\* The pages of a pack are written before its records and its event.
RowsHavePages(st) ==
  \A r \in Registries : \A x \in st[Registry(r)] :
    /\ HasPages(st, x.pack)
    /\ \E c \in ChangeSet(x.pack) : RegistryOf(c) = r /\ x = Record(c, x.pack, x.at)
EventsHavePages(st) ==
  \A e \in EventIds : st[Event(e)] # NoFile =>
    st[Event(e)] \in Packs /\ HasPages(st, st[Event(e)])
IdsUnique(st) == \A r \in Registries : \A x, y \in st[Registry(r)] : x.id = y.id => x = y
EdgesResolve(st, ap, L) ==
  "nodes" \notin L => \A x \in st[Registry("edges")] : x.pack \in ap => x.to \in IdsIn(st, "nodes")
OwnedBy(st, owners) ==
  /\ \A t \in Pages \cup Events : st[t] \in owners \cup {NoFile}
  /\ \A t \in RegistryFiles : \A x \in st[t] : x.pack \in owners
\* A registry that lost rows lacks a row of a dead pack whose pages are all in
\* place: its call was putting the registry back before the pages.
Lacks(st, p, r) ==
  /\ HasPages(st, p)
  /\ \E c \in ChangeSet(p) :
       /\ RegistryOf(c) = r
       /\ ~ \E x \in st[Registry(r)] : x.id = c.id /\ x.pack = p
LossShows(st, ap, L) == \A r \in L : \E p \in Packs \ ap : Lacks(st, p, r)
Tidy(st, ap, dead, L) ==
  /\ PagesNamed(st) /\ RowsHavePages(st) /\ EventsHavePages(st) /\ IdsUnique(st)
  /\ \A p \in ap : Whole(st, p, L)
  /\ EdgesResolve(st, ap, L)
  /\ OwnedBy(st, ap \cup dead)
  /\ LossShows(st, ap, L)

\* What PreflightOK and EdgeTargetsExist found when the call read st
Clear(st, p) ==
  /\ \A i, j \in Indices(p) : Changes[p][i].id = Changes[p][j].id => i = j
  /\ \A t \in PageTargets(p) : st[t] = NoFile
  /\ \A c \in ChangeSet(p) : c.id \notin IdsIn(st, RegistryOf(c))
TargetsResolve(st, p) ==
  \A c \in ChangeSet(p) : c.op = "add_edge" =>
    \/ c.to \in IdsIn(st, "nodes")
    \/ \E d \in ChangeSet(p) : d.op = "propose_node" /\ d.id = c.to
RecordsOf(p, r, e) == {Record(c, p, e) : c \in {d \in ChangeSet(p) : RegistryOf(d) = r}}

\* A call on p that began at st has written a part of its files, and reached
\* the registries and the event only after all of its pages.
NewFile(st, p, e, t) == IF t \in RegistryFiles THEN st[t] \cup RecordsOf(p, t[2], e) ELSE p
IsNewFile(st, nst, p, e, L, t) ==
  IF t \in RegistryFiles /\ t[2] \in L THEN nst[t] \subseteq NewFile(st, p, e, t)
  ELSE nst[t] = NewFile(st, p, e, t)
Midway(st, nst, p, e, L) ==
  /\ p \in Packs /\ e \in EventIds
  /\ FilesOK(st) /\ Clear(st, p) /\ st[Event(e)] = NoFile
  /\ \A t \in Targets : \/ nst[t] = st[t]
                        \/ t \in WriteSet(p, e) /\ IsNewFile(st, nst, p, e, L, t)
  /\ \A t \in Targets \ PageTargets(p) : nst[t] # st[t] => HasPages(nst, p)
Finished(st, nst, p, e, L) == \A t \in WriteSet(p, e) : IsNewFile(st, nst, p, e, L, t)

\* What a call changes, page by page, registry by registry, event by event.
LEMMA MidwayFiles ==
  ASSUME NEW st, NEW nst, NEW p, NEW e, NEW L, Midway(st, nst, p, e, L)
  PROVE  /\ \A i \in Ids : \/ nst[Page(i)] = st[Page(i)]
                           \/ /\ st[Page(i)] = NoFile /\ nst[Page(i)] = p
                              /\ \E c \in ChangeSet(p) : c.id = i
         /\ \A r \in Registries : \/ nst[Registry(r)] = st[Registry(r)]
                                  \/ /\ nst[Registry(r)] \subseteq st[Registry(r)] \cup RecordsOf(p, r, e)
                                     /\ r \notin L => st[Registry(r)] \subseteq nst[Registry(r)]
                                     /\ HasPages(nst, p)
         /\ \A f \in EventIds : \/ nst[Event(f)] = st[Event(f)]
                                \/ /\ f = e /\ st[Event(f)] = NoFile /\ nst[Event(f)] = p
                                   /\ HasPages(nst, p)
<1>0. p \in Packs /\ e \in EventIds
  BY DEF Midway
<1>1. ASSUME NEW i \in Ids, nst[Page(i)] # st[Page(i)]
      PROVE  /\ st[Page(i)] = NoFile /\ nst[Page(i)] = p
             /\ \E c \in ChangeSet(p) : c.id = i
  <2>1. Page(i) \in WriteSet(p, e) /\ nst[Page(i)] = NewFile(st, p, e, Page(i))
    BY <1>1, Files DEF Midway, IsNewFile
  <2>2. Page(i) \in PageTargets(p)
    BY <2>1, Files DEF WriteSet, RegistryTargets
  <2>3. \E c \in ChangeSet(p) : c.id = i
    BY <2>2, Files DEF PageTargets
  <2> QED
    BY <2>1, <2>2, <2>3, Files DEF Midway, Clear, NewFile
<1>2. ASSUME NEW r \in Registries, nst[Registry(r)] # st[Registry(r)]
      PROVE  /\ nst[Registry(r)] \subseteq st[Registry(r)] \cup RecordsOf(p, r, e)
             /\ r \notin L => st[Registry(r)] \subseteq nst[Registry(r)]
             /\ HasPages(nst, p)
  <2>1. Registry(r) \in Targets /\ Registry(r) \in RegistryFiles /\ Registry(r)[2] = r
    BY Files
  <2>2. Registry(r) \notin PageTargets(p)
    BY Files DEF PageTargets
  <2>3. IsNewFile(st, nst, p, e, L, Registry(r)) /\ HasPages(nst, p)
    BY <1>2, <2>1, <2>2 DEF Midway
  <2> QED
    BY <2>1, <2>3 DEF IsNewFile, NewFile
<1>3. ASSUME NEW f \in EventIds, nst[Event(f)] # st[Event(f)]
      PROVE  f = e /\ st[Event(f)] = NoFile /\ nst[Event(f)] = p /\ HasPages(nst, p)
  <2>1. Event(f) \in Targets /\ Event(f) \notin RegistryFiles
    BY Files
  <2>2. Event(f) \notin PageTargets(p)
    BY Files DEF PageTargets
  <2>3. Event(f) \in WriteSet(p, e) /\ nst[Event(f)] = NewFile(st, p, e, Event(f)) /\ HasPages(nst, p)
    BY <1>3, <2>1, <2>2 DEF Midway, IsNewFile
  <2>4. f = e
    BY <1>0, <2>3, OneEventFile
  <2> QED
    BY <2>1, <2>3, <2>4 DEF NewFile, Midway
<1> QED
  BY <1>1, <1>2, <1>3

\* The call found no trace of its pack, and takes nothing from another pack.
LEMMA MidwayTraces ==
  ASSUME NEW st, NEW nst, NEW p, NEW e, NEW L, Midway(st, nst, p, e, L)
  PROVE  /\ DistinctIds(p) /\ ~HasPages(st, p)
         /\ \A q \in Packs : HasPages(st, q) => HasPages(nst, q)
         /\ \A r \in Registries : /\ r \notin L => st[Registry(r)] \subseteq nst[Registry(r)]
                                  /\ \A x \in nst[Registry(r)] \ st[Registry(r)] :
                                       x \in RecordsOf(p, r, e) /\ HasPages(nst, p)
<1>0. p \in Packs /\ NoFile \notin Packs /\ Clear(st, p)
  BY NamesAssumption DEF Midway
<1>1. DistinctIds(p)
  BY <1>0 DEF Clear, DistinctIds, ChangeSet
<1>2. ~HasPages(st, p)
  <2>1. PICK c \in ChangeSet(p) : TRUE
    BY <1>0, PackChanges
  <2>2. st[Page(c.id)] = NoFile
    BY <1>0, <2>1 DEF Clear, PageTargets
  <2> QED
    BY <1>0, <2>1, <2>2 DEF HasPages
<1>3. ASSUME NEW q \in Packs, HasPages(st, q) PROVE HasPages(nst, q)
  <2> SUFFICES ASSUME NEW c \in ChangeSet(q) PROVE nst[Page(c.id)] = q
    BY DEF HasPages
  <2>1. st[Page(c.id)] = q /\ c.id \in Ids
    BY <1>3, PackChanges DEF HasPages
  <2> QED
    BY <1>0, <2>1, MidwayFiles
<1>4. ASSUME NEW r \in Registries
      PROVE  /\ r \notin L => st[Registry(r)] \subseteq nst[Registry(r)]
             /\ \A x \in nst[Registry(r)] \ st[Registry(r)] :
                  x \in RecordsOf(p, r, e) /\ HasPages(nst, p)
  BY MidwayFiles
<1> QED
  BY <1>1, <1>2, <1>3, <1>4

LEMMA NewRecords ==
  ASSUME NEW p, NEW r, NEW e, NEW x \in RecordsOf(p, r, e)
  PROVE  \E c \in ChangeSet(p) : /\ RegistryOf(c) = r /\ x = Record(c, p, e)
                                 /\ x.id = c.id /\ x.to = c.to /\ x.pack = p /\ x.at = e
  BY DEF RecordsOf, Record

\* The rows of a registry belong to packs.
LEMMA RowsArePacks ==
  ASSUME NEW st, FilesOK(st)
  PROVE  \A r \in Registries : \A x \in st[Registry(r)] : x \in Rows /\ x.pack \in Packs
  BY Files DEF FilesOK, ContentOf, Rows

\* A call does not replace the row that a registry lost.
LEMMA LossRemains ==
  ASSUME NEW st, NEW nst, NEW p, NEW e, NEW L, Midway(st, nst, p, e, L),
         NEW q \in Packs, NEW r, Lacks(st, q, r)
  PROVE  Lacks(nst, q, r) /\ q # p
<1>1. PICK c \in ChangeSet(q) :
        /\ RegistryOf(c) = r
        /\ ~ \E x \in st[Registry(r)] : x.id = c.id /\ x.pack = q
  BY DEF Lacks
<1>2. HasPages(nst, q) /\ q # p /\ r \in Registries
  BY <1>1, PackChanges, MidwayTraces DEF Lacks
<1>3. \A x \in nst[Registry(r)] : x \in st[Registry(r)] \/ x.pack = p
  BY <1>2, MidwayTraces, NewRecords
<1> QED
  BY <1>1, <1>2, <1>3 DEF Lacks

\* A partly written pack leaves the store as tidy as it was, except that what
\* it wrote belongs to no applied pack.
LEMMA MidwayTidy ==
  ASSUME NEW st, NEW nst, NEW p, NEW e, NEW ap, NEW dead,
         NEW K, NEW L, K \subseteq L, \A r \in L \ K : Lacks(nst, p, r),
         Midway(st, nst, p, e, L), Tidy(st, ap, dead, K), p \notin ap, ap \subseteq Packs
  PROVE  Tidy(nst, ap, dead \cup {p}, L)
<1>0. p \in Packs /\ e \in EventIds /\ NoFile \notin Packs /\ FilesOK(st) /\ Clear(st, p)
  BY NamesAssumption DEF Midway
<1>t. /\ PagesNamed(st) /\ RowsHavePages(st) /\ EventsHavePages(st) /\ IdsUnique(st)
      /\ \A q \in ap : Whole(st, q, K)
      /\ EdgesResolve(st, ap, K) /\ OwnedBy(st, ap \cup dead) /\ LossShows(st, ap, K)
  BY DEF Tidy
<1>1. PagesNamed(nst)
  <2> SUFFICES ASSUME NEW i \in Ids, nst[Page(i)] # NoFile
               PROVE  /\ nst[Page(i)] \in Packs
                      /\ DistinctIds(nst[Page(i)]) /\ \E c \in ChangeSet(nst[Page(i)]) : c.id = i
    BY DEF PagesNamed
  <2>1. CASE nst[Page(i)] = st[Page(i)]
    BY <1>t, <2>1 DEF PagesNamed
  <2>2. CASE nst[Page(i)] # st[Page(i)]
    BY <1>0, <2>2, MidwayFiles, MidwayTraces
  <2> QED
    BY <2>1, <2>2
<1>2. RowsHavePages(nst)
  <2> SUFFICES ASSUME NEW r \in Registries, NEW x \in nst[Registry(r)]
               PROVE  /\ HasPages(nst, x.pack)
                      /\ \E c \in ChangeSet(x.pack) : RegistryOf(c) = r /\ x = Record(c, x.pack, x.at)
    BY DEF RowsHavePages
  <2>1. CASE x \in st[Registry(r)]
    BY <1>0, <1>t, <2>1, MidwayTraces, RowsArePacks DEF RowsHavePages
  <2>2. CASE x \notin st[Registry(r)]
    <3>1. x \in RecordsOf(p, r, e) /\ HasPages(nst, p)
      BY <2>2, MidwayTraces
    <3>2. PICK c \in ChangeSet(p) : RegistryOf(c) = r /\ x = Record(c, p, e) /\ x.pack = p /\ x.at = e
      BY <3>1, NewRecords
    <3> QED
      BY <3>1, <3>2
  <2> QED
    BY <2>1, <2>2
<1>3. EventsHavePages(nst)
  <2> SUFFICES ASSUME NEW f \in EventIds, nst[Event(f)] # NoFile
               PROVE  nst[Event(f)] \in Packs /\ HasPages(nst, nst[Event(f)])
    BY DEF EventsHavePages
  <2>1. CASE nst[Event(f)] = st[Event(f)]
    BY <1>t, <2>1, MidwayTraces DEF EventsHavePages
  <2>2. CASE nst[Event(f)] # st[Event(f)]
    BY <1>0, <2>2, MidwayFiles
  <2> QED
    BY <2>1, <2>2
<1>4. IdsUnique(nst)
  <2> SUFFICES ASSUME NEW r \in Registries, NEW x \in nst[Registry(r)], NEW y \in nst[Registry(r)],
                      x.id = y.id
               PROVE  x = y
    BY DEF IdsUnique
  <2>1. ASSUME NEW z \in nst[Registry(r)], z \notin st[Registry(r)]
        PROVE  \E c \in ChangeSet(p) :
                 z = Record(c, p, e) /\ z.id = c.id /\ c.id \notin IdsIn(st, r)
    BY <1>0, <2>1, MidwayTraces, NewRecords DEF Clear
  <2>2. CASE x \in st[Registry(r)] /\ y \in st[Registry(r)]
    BY <1>t, <2>2 DEF IdsUnique
  <2>3. CASE x \in st[Registry(r)] /\ y \notin st[Registry(r)]
    BY <2>1, <2>3 DEF IdsIn
  <2>4. CASE x \notin st[Registry(r)] /\ y \in st[Registry(r)]
    BY <2>1, <2>4 DEF IdsIn
  <2>5. CASE x \notin st[Registry(r)] /\ y \notin st[Registry(r)]
    <3>1. PICK c \in ChangeSet(p) : x = Record(c, p, e) /\ x.id = c.id
      BY <2>1, <2>5
    <3>2. PICK d \in ChangeSet(p) : y = Record(d, p, e) /\ y.id = d.id
      BY <2>1, <2>5
    <3>3. c = d
      BY <3>1, <3>2, MidwayTraces DEF DistinctIds
    <3> QED
      BY <3>1, <3>2, <3>3
  <2> QED
    BY <2>2, <2>3, <2>4, <2>5
<1>5. ASSUME NEW q \in ap PROVE Whole(nst, q, L)
  <2>1. PICK g \in EventIds :
          /\ st[Event(g)] = q
          /\ \A f \in EventIds : st[Event(f)] = q => f = g
          /\ \A c \in ChangeSet(q) :
               /\ st[Page(c.id)] = q
               /\ Record(c, q, g) \in st[Registry(RegistryOf(c))] \/ RegistryOf(c) \in K
    BY <1>t DEF Whole
  <2>2. q \in Packs /\ q # p /\ q # NoFile
    BY <1>0
  <2>3. \A f \in EventIds : nst[Event(f)] = q <=> st[Event(f)] = q
    BY <2>2, MidwayFiles
  <2>4. \A c \in ChangeSet(q) : nst[Page(c.id)] = q
    BY <2>1, <2>2, MidwayTraces DEF HasPages
  <2>5. \A c \in ChangeSet(q) :
          Record(c, q, g) \in nst[Registry(RegistryOf(c))] \/ RegistryOf(c) \in L
    BY <2>1, <2>2, PackChanges, MidwayTraces
  <2> QED
    BY <2>1, <2>3, <2>4, <2>5 DEF Whole
<1>6. EdgesResolve(nst, ap, L)
  <2> SUFFICES ASSUME "nodes" \notin L, NEW x \in nst[Registry("edges")], x.pack \in ap
               PROVE  x.to \in IdsIn(nst, "nodes")
    BY DEF EdgesResolve
  <2>1. "edges" \in Registries /\ "nodes" \in Registries
    BY DEF Registries
  <2>2. x \in st[Registry("edges")]
    BY <1>0, <2>1, MidwayTraces, NewRecords
  <2>3. x.to \in IdsIn(st, "nodes")
    BY <1>t, <2>2 DEF EdgesResolve
  <2>4. st[Registry("nodes")] \subseteq nst[Registry("nodes")]
    BY <2>1, MidwayTraces
  <2> QED
    BY <2>3, <2>4 DEF IdsIn
<1>9. LossShows(nst, ap, L)
  <2> SUFFICES ASSUME NEW r \in L PROVE \E q \in Packs \ ap : Lacks(nst, q, r)
    BY DEF LossShows
  <2>1. CASE r \notin K
    BY <1>0, <2>1
  <2>2. CASE r \in K
    <3>1. PICK q \in Packs \ ap : Lacks(st, q, r)
      BY <1>t, <2>2 DEF LossShows
    <3> QED
      BY <3>1, LossRemains
  <2> QED
    BY <2>1, <2>2
<1>7. OwnedBy(nst, ap \cup dead \cup {p})
  <2>1. \A i \in Ids : nst[Page(i)] \in ap \cup dead \cup {p} \cup {NoFile}
    BY <1>t, MidwayFiles DEF OwnedBy, Pages
  <2>2. \A f \in EventIds : nst[Event(f)] \in ap \cup dead \cup {p} \cup {NoFile}
    BY <1>t, MidwayFiles DEF OwnedBy, Events
  <2>3. ASSUME NEW r \in Registries, NEW x \in nst[Registry(r)] PROVE x.pack \in ap \cup dead \cup {p}
    BY <1>t, MidwayTraces, NewRecords DEF OwnedBy, RegistryFiles
  <2> QED
    BY <2>1, <2>2, <2>3 DEF OwnedBy, Pages, Events, RegistryFiles
<1>8. ap \cup (dead \cup {p}) = ap \cup dead \cup {p}
  OBVIOUS
<1> QED
  BY <1>1, <1>2, <1>3, <1>4, <1>5, <1>6, <1>7, <1>8, <1>9 DEF Tidy

\* A pack whose files are all written is whole.
LEMMA FinishedWhole ==
  ASSUME NEW st, NEW nst, NEW p, NEW e, NEW ap, NEW dead,
         NEW L, Midway(st, nst, p, e, L), Finished(st, nst, p, e, L), TargetsResolve(st, p),
         Tidy(st, ap, dead, L), p \notin ap, ap \subseteq Packs
  PROVE  Whole(nst, p, L) /\ Tidy(nst, ap \cup {p}, dead, L)
<1>0. p \in Packs /\ e \in EventIds /\ NoFile \notin Packs /\ FilesOK(st) /\ Clear(st, p)
  BY NamesAssumption DEF Midway
<1>1. ASSUME NEW c \in ChangeSet(p)
      PROVE  /\ nst[Page(c.id)] = p
             /\ Record(c, p, e) \in nst[Registry(RegistryOf(c))] \/ RegistryOf(c) \in L
  <2>1. c.id \in Ids /\ RegistryOf(c) \in Registries
    BY <1>0, PackChanges
  <2>2. Page(c.id) \in WriteSet(p, e) /\ Registry(RegistryOf(c)) \in WriteSet(p, e)
    BY DEF WriteSet, PageTargets, RegistryTargets
  <2>3. Record(c, p, e) \in RecordsOf(p, RegistryOf(c), e)
    BY DEF RecordsOf
  <2>4. nst[Page(c.id)] = p
    BY <2>1, <2>2, Files DEF Finished, IsNewFile, NewFile
  <2>5. /\ Registry(RegistryOf(c)) \in RegistryFiles
        /\ Registry(RegistryOf(c))[2] = RegistryOf(c)
    BY <2>1, Files
  <2>6. RegistryOf(c) \notin L => Record(c, p, e) \in nst[Registry(RegistryOf(c))]
    BY <2>2, <2>3, <2>5 DEF Finished, IsNewFile, NewFile
  <2> QED
    BY <2>4, <2>6
<1>2. nst[Event(e)] = p
  <2>1. Event(e) \in WriteSet(p, e)
    BY DEF WriteSet
  <2> QED
    BY <1>0, <2>1, Files DEF Finished, IsNewFile, NewFile
<1>3. ASSUME NEW f \in EventIds, nst[Event(f)] = p PROVE f = e
  <2>1. st[Event(f)] # p
    BY <1>0, MidwayTraces DEF Tidy, EventsHavePages
  <2> QED
    BY <1>3, <2>1, MidwayFiles
<1>4. Whole(nst, p, L)
  BY <1>0, <1>1, <1>2, <1>3 DEF Whole
<1>5. Tidy(nst, ap, dead \cup {p}, L)
  BY MidwayTidy
<1>6. EdgesResolve(nst, ap \cup {p}, L)
  <2> SUFFICES ASSUME "nodes" \notin L, NEW x \in nst[Registry("edges")], x.pack = p
               PROVE  x.to \in IdsIn(nst, "nodes")
    BY <1>5 DEF Tidy, EdgesResolve
  <2>1. "edges" \in Registries /\ "nodes" \in Registries
    BY DEF Registries
  <2>2. x \notin st[Registry("edges")]
    BY <2>1, MidwayTraces DEF Tidy, RowsHavePages
  <2>3. PICK c \in ChangeSet(p) : RegistryOf(c) = "edges" /\ x.to = c.to
    BY <2>1, <2>2, MidwayTraces, NewRecords
  <2>4. c.op = "add_edge"
    BY <2>3 DEF RegistryOf
  <2>5. CASE c.to \in IdsIn(st, "nodes")
    BY <2>1, <2>3, <2>5, MidwayTraces DEF IdsIn
  <2>6. CASE \E d \in ChangeSet(p) : d.op = "propose_node" /\ d.id = c.to
    <3>1. PICK d \in ChangeSet(p) : d.op = "propose_node" /\ d.id = c.to
      BY <2>6
    <3>2. RegistryOf(d) = "nodes"
      BY <3>1 DEF RegistryOf
    <3>3. Record(d, p, e) \in nst[Registry("nodes")] /\ Record(d, p, e).id = c.to
      BY <1>1, <3>1, <3>2 DEF Record
    <3> QED
      BY <2>3, <3>3 DEF IdsIn
  <2> QED
    BY <2>4, <2>5, <2>6 DEF TargetsResolve
<1>7. ap \cup {p} \cup dead = ap \cup (dead \cup {p})
  OBVIOUS
<1>8. LossShows(nst, ap \cup {p}, L)
  <2> SUFFICES ASSUME NEW r \in L PROVE \E q \in Packs \ (ap \cup {p}) : Lacks(nst, q, r)
    BY DEF LossShows
  <2>1. PICK q \in Packs \ ap : Lacks(st, q, r)
    BY DEF Tidy, LossShows
  <2> QED
    BY <2>1, LossRemains
<1> QED
  BY <1>4, <1>5, <1>6, <1>7, <1>8 DEF Tidy

-----------------------------------------------------------------------------
(* One process at a time: what holds in the middle of a call r               *)

\* The content of the files as it is once the call is undone: the snapshot
\* where there is one.  It stays the same from the first write to the last.
Behind(st, r) == [t \in Targets |-> IF t \in DOMAIN r.snap THEN r.snap[t] ELSE st[t]]
Content(r, t) == IF t \in RegistryFiles THEN r.text[t[2]] ELSE r.pack
Written(st, r) == {t \in DOMAIN r.snap : st[t] = Content(r, t)}

\* What the call intends to put in a registry
TextOK(r, st, L, g) ==
  LET whole == st[Registry(g)] \cup RecordsOf(r.pack, g, r.event)
  IN r.text[g] \subseteq whole /\ (g \notin L => r.text[g] = whole)
CallChecked(r, st, ap, L) ==
  /\ r.pc # "idle" => r.pack \notin ap /\ TargetsResolve(st, r.pack)
  /\ r.pc \in {"prepare", "write", "rollback", "restore"} => Clear(st, r.pack)
  /\ r.pc \in {"write", "rollback", "restore"} =>
       /\ st[Event(r.event)] = NoFile
       /\ \A g \in RegistriesOf(r.pack) : TextOK(r, st, L, g)
\* What the call has written, in the order of the writes
InOrder(st, r) ==
  \A t \in DOMAIN r.snap, u \in WriteSet(r.pack, r.event) :
    Position[r.pack][u] < Position[r.pack][t] => u \in Written(st, r)
CallWrites(st, r) ==
  /\ r.pc \in {"write", "rollback", "restore"} =>
       /\ \A t \in DOMAIN r.snap :
            st[t] = r.snap[t] \/ t \in Written(st, r) \/ (r.pc = "restore" /\ t \in r.todo)
       /\ InOrder(st, r)
  /\ r.pc = "write" =>
       /\ r.todo = WriteSet(r.pack, r.event) \ DOMAIN r.snap
       /\ DOMAIN r.snap \subseteq Written(st, r)
  /\ r.pc = "restore" =>
       \E t \in DOMAIN r.snap \cap RegistryFiles :
         r.todo = {t} /\ IsLast(r.pack, t, DOMAIN r.snap) /\ st[t] \subseteq r.snap[t]
\* The registries that the call is writing back
Restoring(r) == {g \in Registries : r.pc = "restore" /\ Registry(g) \in r.todo}

\* The inductive invariant of one process w
OneCall(w) ==
  /\ CallChecked(run[w], Behind(store, run[w]), applied, cut)
  /\ CallWrites(store, run[w])
  /\ Tidy(Behind(store, run[w]), applied, crashed, cut)

\* Before the call writes, there is nothing to undo.
LEMMA BehindNothing ==
  ASSUME NEW st, FilesOK(st), NEW r, DOMAIN r.snap = {}
  PROVE  Behind(st, r) = st
  BY DEF Behind, FilesOK

LEMMA BehindTyped ==
  ASSUME NEW st, FilesOK(st), NEW r, LocalsOK(r)
  PROVE  FilesOK(Behind(st, r))
  BY DEF Behind, FilesOK, LocalsOK

\* Whatever a call has reached after its pages, all of its pages are written.
LEMMA PagesAreWritten ==
  ASSUME NEW st, NEW r, InOrder(st, r), r.pack \in Packs, r.event \in EventIds,
         NEW t \in DOMAIN r.snap, t \in WriteSet(r.pack, r.event), t \notin PageTargets(r.pack)
  PROVE  HasPages(st, r.pack)
<1> DEFINE p == r.pack
<1> SUFFICES ASSUME NEW c \in ChangeSet(p) PROVE st[Page(c.id)] = p
  BY DEF HasPages
<1>1. Page(c.id) \in PageTargets(p) /\ Page(c.id) \in WriteSet(p, r.event)
  BY DEF PageTargets, WriteSet
<1>2. Position[p][Page(c.id)] < Position[p][t]
  BY <1>1, Order DEF WriteSet
<1>3. Page(c.id) \in Written(st, r)
  BY <1>1, <1>2 DEF InOrder
<1>4. Page(c.id) \notin RegistryFiles
  BY PackChanges, Files
<1> QED
  BY <1>3, <1>4 DEF Written, Content

\* In the middle of a call the store is a partly written one.
LEMMA CallMidway ==
  ASSUME NEW st, FilesOK(st), NEW r, LocalsOK(r), NEW ap, NEW L,
         r.pc \in {"write", "rollback", "restore"},
         CallChecked(r, Behind(st, r), ap, L), CallWrites(st, r)
  PROVE  /\ Midway(Behind(st, r), st, r.pack, r.event, L \cup Restoring(r))
         /\ r.pc = "write" /\ r.todo = {} => Finished(Behind(st, r), st, r.pack, r.event, L)
<1> DEFINE old == Behind(st, r)
           p == r.pack
           e == r.event
<1>1. p \in Packs /\ e \in EventIds /\ DOMAIN r.snap \subseteq WriteSet(p, e)
  BY DEF LocalsOK
<1>2. FilesOK(old) /\ Clear(old, p) /\ old[Event(e)] = NoFile
  BY BehindTyped DEF CallChecked
<1>3. ASSUME NEW t \in WriteSet(p, e), st[t] = Content(r, t) PROVE IsNewFile(old, st, p, e, L, t)
  <2>1. CASE t \in RegistryFiles
    <3>1. t[2] \in RegistriesOf(p) /\ t = Registry(t[2])
      BY <1>1, <2>1, WritesAreFiles
    <3>2. TextOK(r, old, L, t[2])
      BY <3>1 DEF CallChecked
    <3> QED
      BY <1>3, <2>1, <3>1, <3>2 DEF Content, NewFile, IsNewFile, TextOK
  <2>2. CASE t \notin RegistryFiles
    BY <1>3, <2>2 DEF Content, NewFile, IsNewFile
  <2> QED
    BY <2>1, <2>2
<1>4. \A t \in Targets : old[t] = IF t \in DOMAIN r.snap THEN r.snap[t] ELSE st[t]
  BY DEF Behind
<1>5. \A t \in Written(st, r) : t \in WriteSet(p, e) /\ IsNewFile(old, st, p, e, L, t)
  BY <1>1, <1>3 DEF Written
<1>6. ASSUME NEW t \in Targets, st[t] # old[t], t \notin Written(st, r)
      PROVE  /\ t \in RegistryFiles /\ t \in WriteSet(p, e)
             /\ t[2] \in Restoring(r) /\ st[t] \subseteq old[t]
  <2>1. t \in DOMAIN r.snap /\ r.pc = "restore" /\ t \in r.todo
    BY <1>4, <1>6 DEF CallWrites
  <2>2. t \in RegistryFiles /\ st[t] \subseteq r.snap[t]
    BY <2>1 DEF CallWrites
  <2>3. t[2] \in Registries /\ t = Registry(t[2])
    BY <2>2, Files DEF RegistryFiles
  <2> QED
    BY <1>1, <1>4, <2>1, <2>2, <2>3 DEF Restoring
<1>7. ASSUME NEW t \in Targets, st[t] # old[t]
      PROVE  t \in WriteSet(p, e) /\ IsNewFile(old, st, p, e, L \cup Restoring(r), t)
  <2>1. CASE t \in Written(st, r)
    BY <1>5, <2>1 DEF IsNewFile
  <2>2. CASE t \notin Written(st, r)
    BY <1>6, <1>7, <2>2 DEF IsNewFile, NewFile
  <2> QED
    BY <2>1, <2>2
<1>8. ASSUME NEW t \in Targets \ PageTargets(p), st[t] # old[t] PROVE HasPages(st, p)
  <2>1. t \in DOMAIN r.snap /\ t \in WriteSet(p, e)
    BY <1>1, <1>4, <1>8
  <2> QED
    BY <1>1, <1>8, <2>1, PagesAreWritten DEF CallWrites
<1>9. Midway(old, st, p, e, L \cup Restoring(r))
  BY <1>1, <1>2, <1>7, <1>8 DEF Midway
<1>10. r.pc = "write" /\ r.todo = {} => Finished(old, st, p, e, L)
  BY <1>5 DEF CallWrites, Finished
<1> QED
  BY <1>9, <1>10

\* A registry that is being written back has no row of the call's own pack,
\* whose pages are all in place.
LEMMA RestoringLacks ==
  ASSUME NEW st, FilesOK(st), NEW r, LocalsOK(r), NEW ap, NEW dead, NEW L,
         r.pc \in {"write", "rollback", "restore"},
         CallChecked(r, Behind(st, r), ap, L), CallWrites(st, r), Tidy(Behind(st, r), ap, dead, L)
  PROVE  \A g \in Restoring(r) : Lacks(st, r.pack, g)
<1> DEFINE old == Behind(st, r)
           p == r.pack
           e == r.event
<1> SUFFICES ASSUME NEW g \in Restoring(r) PROVE Lacks(st, p, g)
  OBVIOUS
<1>1. p \in Packs /\ e \in EventIds /\ DOMAIN r.snap \subseteq WriteSet(p, e)
  BY DEF LocalsOK
<1>2. g \in Registries /\ Registry(g) \in DOMAIN r.snap /\ st[Registry(g)] \subseteq r.snap[Registry(g)]
  BY DEF Restoring, CallWrites
<1>3. Registry(g) \in Targets \ PageTargets(p)
  BY <1>2, Files DEF PageTargets
<1>4. HasPages(st, p)
  BY <1>1, <1>2, <1>3, PagesAreWritten DEF CallWrites, Restoring
<1>5. PICK c \in ChangeSet(p) : RegistryOf(c) = g
  <2>1. Registry(g) \in WriteSet(p, e) \cap RegistryFiles /\ Registry(g)[2] = g
    BY <1>1, <1>2, Files
  <2>2. g \in RegistriesOf(p)
    BY <1>1, <2>1, WritesAreFiles
  <2> QED
    BY <2>2 DEF RegistriesOf
<1>6. old[Registry(g)] = r.snap[Registry(g)]
  BY <1>2, <1>3 DEF Behind
<1>7. Midway(old, st, p, e, L \cup Restoring(r))
  BY CallMidway
<1>8. \A x \in old[Registry(g)] : x.pack # p
  BY <1>2, <1>7, MidwayTraces DEF Tidy, RowsHavePages
<1> QED
  BY <1>2, <1>4, <1>5, <1>6, <1>8 DEF Lacks

LEMMA OneCallInit ==
  ASSUME NEW w, Workers = {w}, Init
  PROVE  OneCall(w)
<1>1. run[w] = Resting /\ DOMAIN Resting.snap = {} /\ Resting.pc = "idle"
  BY DEF Init, Resting
<1>2. Behind(store, run[w]) = store
  BY <1>1, TypedInit, BehindNothing DEF Typed, StoreOK
<1>3. /\ \A t \in Pages \cup Events : store[t] = NoFile
      /\ \A t \in RegistryFiles : store[t] = {}
  <2>1. \A t \in Pages \cup Events : t \in Targets /\ t \notin RegistryFiles
    BY Files DEF Pages, Events
  <2> QED
    BY <2>1, Files DEF Init
<1>4. /\ \A i \in Ids : store[Page(i)] = NoFile
      /\ \A e \in EventIds : store[Event(e)] = NoFile
      /\ \A r \in Registries : store[Registry(r)] = {}
  BY <1>3, Files DEF Pages, Events
<1>5. "edges" \in Registries
  BY DEF Registries
<1>6. Tidy(store, applied, crashed, cut)
  BY <1>3, <1>4, <1>5 DEF Tidy, PagesNamed, RowsHavePages, EventsHavePages, IdsUnique,
     EdgesResolve, OwnedBy, LossShows, Init
<1> QED
  BY <1>1, <1>2, <1>6 DEF OneCall, CallChecked, CallWrites

\* A step of the call that keeps what is behind it
LEMMA CallGoesOn ==
  ASSUME NEW w, Workers = {w}, Typed, OneCall(w), NEW r, run' = [run EXCEPT ![w] = r],
         Behind(store', r) = Behind(store, run[w]),
         CallChecked(r, Behind(store, run[w]), applied, cut), CallWrites(store', r),
         UNCHANGED <<applied, history>>
  PROVE  OneCall(w)'
<1>1. run'[w] = r
  BY DEF Typed
<1> QED
  BY <1>1 DEF OneCall, history

\* A step that ends the call
LEMMA CallEnds ==
  ASSUME NEW w, Workers = {w}, Typed, run' = [run EXCEPT ![w] = Resting], StoreOK',
         Tidy(store', applied', crashed', cut')
  PROVE  OneCall(w)'
<1>1. run'[w] = Resting /\ Resting.pc = "idle" /\ DOMAIN Resting.snap = {}
  BY DEF Typed, Resting
<1>2. Behind(store', Resting) = store'
  BY <1>1, BehindNothing DEF StoreOK
<1> QED
  BY <1>1, <1>2 DEF OneCall, CallChecked, CallWrites

\* A call that dies cuts the registry it was writing back.
LEMMA CrashCuts ==
  ASSUME NEW w \in Workers, Crash(w)
  PROVE  cut' = cut \cup Restoring(run[w])
<1>1. run[w].pc = "restore" => {t[2] : t \in run[w].todo \cap RegistryFiles} = Restoring(run[w])
  BY Files DEF Restoring, RegistryFiles
<1>2. run[w].pc # "restore" => Restoring(run[w]) = {}
  BY DEF Restoring
<1> QED
  BY <1>1, <1>2 DEF Crash

\* A write and its undoing keep what is behind the call.
LEMMA BehindKept ==
  ASSUME Typed, NEW w \in Workers, CallWrites(store, run[w]),
         Write(w) \/ Overwrite(w) \/ Rollback(w)
  PROVE  Behind(store', run'[w]) = Behind(store, run[w])
<1>0. LocalsOK(run[w]) /\ FilesOK(store) /\ DOMAIN run[w].snap \subseteq Targets
  BY DEF Typed, StoreOK, LocalsOK
<1>1. CASE Write(w)
  <2>1. PICK t \in run[w].todo :
          /\ store' = [store EXCEPT ![t] = NewContent(w, t)]
          /\ run' = [run EXCEPT ![w] = [run[w] EXCEPT !.todo = @ \ {t},
                                                       !.snap = WithSnapshot(w, t)]]
    BY <1>1 DEF Write
  <2> DEFINE s == WithSnapshot(w, t)
  <2>2. /\ DOMAIN s = DOMAIN run[w].snap \cup {t} /\ s[t] = store[t]
        /\ \A u \in DOMAIN s : u # t => s[u] = run[w].snap[u]
    BY DEF WithSnapshot
  <2>3. run'[w].snap = s
    BY <1>0, <2>1 DEF Typed, LocalsOK
  <2>4. \A u \in Targets : u # t => store'[u] = store[u]
    BY <1>0, <2>1 DEF FilesOK
  <2>5. t \notin DOMAIN run[w].snap
    BY <1>1 DEF Write, CallWrites
  <2> HIDE DEF s
  <2> QED
    BY <2>2, <2>3, <2>4, <2>5 DEF Behind
<1>2. CASE Rollback(w)
  <2>1. PICK t \in DOMAIN run[w].snap :
          store' = [store EXCEPT ![t] = run[w].snap[t]] /\ RollbackStep(w, t, DOMAIN run[w].snap)
    BY <1>2 DEF Rollback
  <2>2. \A u \in Targets : store'[u] = IF u = t THEN run[w].snap[t] ELSE store[u]
    BY <1>0, <2>1 DEF FilesOK
  <2> DEFINE s == [u \in DOMAIN run[w].snap \ {t} |-> run[w].snap[u]]
             r == IF DOMAIN run[w].snap = {t} THEN Resting
                  ELSE [run[w] EXCEPT !.pc = "rollback", !.todo = {}, !.snap = s]
  <2>3. DOMAIN s = DOMAIN run[w].snap \ {t} /\ \A u \in DOMAIN s : s[u] = run[w].snap[u]
    OBVIOUS
  <2>4. run'[w] = r
    BY <2>1 DEF RollbackStep, Typed
  <2>5. DOMAIN r.snap = DOMAIN s /\ \A u \in DOMAIN s : r.snap[u] = s[u]
    <3> HIDE DEF s
    <3>1. CASE DOMAIN run[w].snap = {t}
      BY <2>3, <3>1 DEF Resting
    <3>2. CASE DOMAIN run[w].snap # {t}
      BY <1>0, <3>2 DEF LocalsOK
    <3> QED
      BY <3>1, <3>2
  <2> HIDE DEF s, r
  <2> QED
    BY <2>2, <2>3, <2>4, <2>5 DEF Behind
<1>3. CASE Overwrite(w)
  <2>1. PICK t \in DOMAIN run[w].snap :
          /\ \E part \in PartsOf(t, run[w].snap[t]) : store' = [store EXCEPT ![t] = part]
          /\ run' = [run EXCEPT ![w] = [@ EXCEPT !.pc = "restore", !.todo = {t}]]
    BY <1>3 DEF Overwrite
  <2>2. \A u \in Targets : u # t => store'[u] = store[u]
    BY <1>0, <2>1 DEF FilesOK
  <2>3. run'[w].snap = run[w].snap
    BY <1>0, <2>1 DEF Typed, LocalsOK
  <2> QED
    BY <2>2, <2>3 DEF Behind
<1> QED
  BY <1>1, <1>2, <1>3

LEMMA OneCallNext ==
  ASSUME NEW w, Workers = {w}, Typed, Typed', OneCall(w), [Next]_vars
  PROVE  OneCall(w)'
<1> DEFINE old == Behind(store, run[w])
<1>t. /\ w \in Workers /\ LocalsOK(run[w]) /\ FilesOK(store) /\ StoreOK' /\ applied \subseteq Packs
      /\ run[w].pc \in {"idle", "preflight", "prepare"} => DOMAIN run[w].snap = {} /\ old = store
  BY BehindNothing DEF Typed, StateOK, StoreOK, LocalsOK
<1>o. /\ CallChecked(run[w], old, applied, cut) /\ CallWrites(store, run[w])
      /\ Tidy(old, applied, crashed, cut)
  BY DEF OneCall
<1> HIDE DEF old
<1>1. CASE UNCHANGED vars \/ Around
  <2>1. UNCHANGED <<store, run, applied, history>>
    BY <1>1 DEF vars, Around, RecordEvidence, Propose, Commit, SubjectCommit
  <2> QED
    BY <2>1 DEF OneCall, history
<1>2. ASSUME NEW p \in Packs, NEW a \in BOOLEAN, Validate(w, p, a) PROVE OneCall(w)'
  <2> DEFINE r == [run[w] EXCEPT !.pc = "preflight", !.pack = p]
  <2>1. /\ run' = [run EXCEPT ![w] = r] /\ UNCHANGED <<store, applied, history>>
        /\ run[w].pc = "idle" /\ p \notin applied
    BY <1>2 DEF Validate, Typed
  <2>2. r.pc = "preflight" /\ r.pack = p /\ r.snap = run[w].snap
    BY <1>t DEF LocalsOK
  <2>3. TargetsResolve(store, p)
    BY <1>2 DEF Validate, EdgeTargetsExist, TargetsResolve, KnownNodes, IdsIn
  <2> HIDE DEF r
  <2>4. Behind(store, r) = store
    BY <1>t, <2>1, <2>2, BehindNothing
  <2> QED
    BY <1>t, <2>1, <2>2, <2>3, <2>4, CallGoesOn DEF old, CallChecked, CallWrites
<1>3. ASSUME Preflight(w) PROVE OneCall(w)'
  <2> DEFINE r == [run[w] EXCEPT !.pc = "prepare"]
  <2>1. /\ run' = [run EXCEPT ![w] = r] /\ UNCHANGED <<store, applied, history>>
        /\ run[w].pc = "preflight"
    BY <1>3 DEF Preflight, Goto, Typed
  <2>2. r.pc = "prepare" /\ r.pack = run[w].pack /\ r.snap = run[w].snap
    BY <1>t DEF LocalsOK
  <2>3. Clear(store, run[w].pack)
    BY <1>3 DEF Preflight, PreflightOK, Clear, IdsIn
  <2> HIDE DEF r
  <2>4. Behind(store, r) = store /\ old = store
    BY <1>t, <2>1, <2>2, BehindNothing
  <2>5. CallChecked(r, old, applied, cut) /\ CallWrites(store, r)
    BY <1>o, <2>1, <2>2, <2>3, <2>4 DEF CallChecked, CallWrites
  <2> QED
    BY <2>1, <2>4, <2>5, CallGoesOn DEF old
<1>4. ASSUME PreflightRejects(w) \/ PrepareRejects(w) PROVE OneCall(w)'
  <2>1. /\ run' = [run EXCEPT ![w] = Resting] /\ UNCHANGED <<store, applied, history>>
        /\ run[w].pc \in {"preflight", "prepare"}
    BY <1>4 DEF PreflightRejects, PrepareRejects, Stop
  <2>2. Tidy(store', applied', crashed', cut')
    BY <1>t, <1>o, <2>1 DEF history
  <2> QED
    BY <1>t, <2>1, <2>2, CallEnds
<1>5. ASSUME Prepare(w) PROVE OneCall(w)'
  <2> DEFINE p == run[w].pack
  <2>0. PICK e \in EventIds : FreshEvent(e) /\ \E joined \in JoinedLines(p, e) :
          run' = [run EXCEPT ![w] = [@ EXCEPT !.pc = "write", !.event = e,
                                       !.todo = WriteSet(p, e), !.text = NewText(p, e, joined)]]
    BY <1>5 DEF Prepare
  <2>1. PICK joined \in JoinedLines(p, e) :
          /\ FreshEvent(e)
          /\ run' = [run EXCEPT ![w] = [@ EXCEPT !.pc = "write", !.event = e,
                                          !.todo = WriteSet(p, e), !.text = NewText(p, e, joined)]]
    BY <2>0
  <2> DEFINE r == [run[w] EXCEPT !.pc = "write", !.event = e,
                                 !.todo = WriteSet(p, e), !.text = NewText(p, e, joined)]
  <2>2. /\ r.pc = "write" /\ r.pack = p /\ r.event = e /\ r.todo = WriteSet(p, e)
        /\ r.snap = run[w].snap /\ r.text = NewText(p, e, joined)
        /\ run' = [run EXCEPT ![w] = r]
    BY <1>t, <2>1 DEF LocalsOK
  <2>3. /\ UNCHANGED <<store, applied, history>> /\ run[w].pc = "prepare"
        /\ store[Event(e)] = NoFile
    BY <1>5, <2>1 DEF Prepare, FreshEvent
  <2>4. DOMAIN r.snap = {} /\ old = store
    BY <1>t, <2>2, <2>3
  <2>5. ASSUME NEW g \in RegistriesOf(p)
        PROVE  LET whole == store[Registry(g)] \cup RecordsOf(p, g, e)
               IN /\ NewText(p, e, joined)[g] \subseteq whole
                  /\ g \notin cut => NewText(p, e, joined)[g] = whole
    BY DEF NewText, NewRows, RegistriesOf, RecordsOf
  <2> HIDE DEF r, p
  <2>6. Behind(store, r) = store
    BY <1>t, <2>4, BehindNothing
  <2>7. CallChecked(r, old, applied, cut)
    BY <1>o, <2>2, <2>3, <2>4, <2>5 DEF CallChecked, TextOK, p
  <2>8. CallWrites(store, r)
    BY <2>2, <2>4 DEF CallWrites, InOrder, Written
  <2> QED
    BY <2>2, <2>3, <2>4, <2>6, <2>7, <2>8, CallGoesOn DEF old
<1>6. ASSUME Write(w) PROVE OneCall(w)'
  <2>1. PICK t \in run[w].todo :
          /\ IsFirst(run[w].pack, t, run[w].todo)
          /\ store' = [store EXCEPT ![t] = NewContent(w, t)]
          /\ run' = [run EXCEPT ![w] = [run[w] EXCEPT !.todo = @ \ {t},
                                                       !.snap = WithSnapshot(w, t)]]
    BY <1>6 DEF Write
  <2>2. run[w].pc = "write" /\ UNCHANGED <<applied, history>>
    BY <1>6 DEF Write
  <2> DEFINE s == WithSnapshot(w, t)
             r == [run[w] EXCEPT !.todo = @ \ {t}, !.snap = s]
             p == run[w].pack
             e == run[w].event
  <2>3. t \in Targets /\ t \in WriteSet(p, e) /\ p \in Packs /\ e \in EventIds
    BY <1>t, <2>2, NewContentTyped DEF LocalsOK
  <2>4. /\ DOMAIN s = DOMAIN run[w].snap \cup {t} /\ s[t] = store[t]
        /\ \A u \in DOMAIN s : u # t => s[u] = run[w].snap[u]
    BY DEF WithSnapshot
  <2>5. \A u \in Targets : store'[u] = IF u = t THEN Content(run[w], t) ELSE store[u]
    BY <1>t, <2>1 DEF FilesOK, NewContent, Content
  <2>6. /\ run' = [run EXCEPT ![w] = r] /\ r.pc = "write" /\ r.event = e /\ r.pack = p
        /\ r.todo = run[w].todo \ {t} /\ r.snap = s /\ r.text = run[w].text
    BY <1>t, <2>1, <2>2 DEF LocalsOK
  <2> HIDE DEF s, r
  <2>7. /\ run[w].todo = WriteSet(p, e) \ DOMAIN run[w].snap
        /\ DOMAIN run[w].snap \subseteq Written(store, run[w])
        /\ DOMAIN run[w].snap \subseteq Targets
    BY <1>t, <1>o, <2>2 DEF CallWrites, LocalsOK
  <2>8. Behind(store', r) = old
    BY <2>1, <2>4, <2>5, <2>6, <2>7 DEF Behind, old
  <2>9. \A u \in Targets : Content(r, u) = Content(run[w], u)
    BY <2>6 DEF Content
  <2>10. DOMAIN s \subseteq Written(store', r)
    BY <2>3, <2>4, <2>5, <2>6, <2>7, <2>9 DEF Written
  <2>11. ASSUME NEW a \in DOMAIN s, NEW b \in WriteSet(p, e),
                Position[p][b] < Position[p][a]
         PROVE  b \in Written(store', r)
    <3>2. CASE a = t
      <4>1. b \notin run[w].todo
        BY <2>1, <2>3, <2>11, <3>2, Order DEF IsFirst
      <4> QED
        BY <2>4, <2>7, <2>10, <4>1
    <3>3. CASE a # t
      <4>1. a \in DOMAIN run[w].snap
        BY <2>4, <2>11, <3>3
      <4>2. b \in Written(store, run[w])
        BY <1>o, <2>2, <2>11, <4>1 DEF CallWrites, InOrder
      <4> QED
        BY <2>4, <2>10, <4>2 DEF Written
    <3> QED
      BY <3>2, <3>3
  <2>12. CallWrites(store', r)
    BY <2>4, <2>6, <2>7, <2>10, <2>11 DEF CallWrites, InOrder
  <2>13. CallChecked(r, old, applied, cut)
    BY <1>o, <2>2, <2>6 DEF CallChecked, TextOK
  <2> QED
    BY <2>2, <2>6, <2>8, <2>12, <2>13, CallGoesOn DEF old
<1>7. ASSUME WriteFails(w) PROVE OneCall(w)'
  <2>1. PICK t \in run[w].todo :
          /\ IsFirst(run[w].pack, t, run[w].todo)
          /\ run' = [run EXCEPT ![w] = [@ EXCEPT !.pc = "rollback", !.todo = {},
                                                 !.snap = WithSnapshot(w, t)]]
    BY <1>7 DEF WriteFails
  <2>2. run[w].pc = "write" /\ UNCHANGED <<store, applied, history>>
    BY <1>7 DEF WriteFails
  <2> DEFINE s == WithSnapshot(w, t)
             r == [run[w] EXCEPT !.pc = "rollback", !.todo = {}, !.snap = s]
             p == run[w].pack
             e == run[w].event
  <2>3. t \in Targets /\ t \in WriteSet(p, e) /\ p \in Packs /\ e \in EventIds
    BY <1>t, <2>2, NewContentTyped DEF LocalsOK
  <2>4. /\ DOMAIN s = DOMAIN run[w].snap \cup {t} /\ s[t] = store[t]
        /\ \A u \in DOMAIN s : u # t => s[u] = run[w].snap[u]
    BY DEF WithSnapshot
  <2>6. /\ run' = [run EXCEPT ![w] = r] /\ r.pc = "rollback" /\ r.event = e /\ r.pack = p
        /\ r.snap = s /\ r.text = run[w].text
    BY <1>t, <2>1 DEF LocalsOK
  <2> HIDE DEF s, r
  <2>7. /\ run[w].todo = WriteSet(p, e) \ DOMAIN run[w].snap
        /\ DOMAIN run[w].snap \subseteq Written(store, run[w])
        /\ DOMAIN run[w].snap \subseteq Targets
    BY <1>t, <1>o, <2>2 DEF CallWrites, LocalsOK
  <2>8. Behind(store, r) = old
    BY <2>1, <2>4, <2>6, <2>7 DEF Behind, old
  <2>9. \A u \in Targets : Content(r, u) = Content(run[w], u)
    BY <2>6 DEF Content
  <2>10. DOMAIN run[w].snap \subseteq Written(store, r)
    BY <2>4, <2>6, <2>7, <2>9 DEF Written
  <2>11. ASSUME NEW a \in DOMAIN s, NEW b \in WriteSet(p, e),
                Position[p][b] < Position[p][a]
         PROVE  b \in Written(store, r)
    <3>2. CASE a = t
      <4>1. b \notin run[w].todo
        BY <2>1, <2>3, <2>11, <3>2, Order DEF IsFirst
      <4> QED
        BY <2>7, <2>10, <4>1
    <3>3. CASE a # t
      <4>1. a \in DOMAIN run[w].snap
        BY <2>4, <2>11, <3>3
      <4>2. b \in Written(store, run[w])
        BY <1>o, <2>2, <2>11, <4>1 DEF CallWrites, InOrder
      <4> QED
        BY <2>10, <4>2 DEF Written
    <3> QED
      BY <3>2, <3>3
  <2>12. \A u \in DOMAIN s : store[u] = s[u] \/ u \in Written(store, r)
    BY <2>4, <2>10
  <2>13. CallWrites(store, r)
    BY <2>6, <2>11, <2>12 DEF CallWrites, InOrder
  <2>14. CallChecked(r, old, applied, cut)
    BY <1>o, <2>2, <2>6 DEF CallChecked, TextOK
  <2> QED
    BY <2>2, <2>6, <2>8, <2>13, <2>14, CallGoesOn DEF old
<1>8. ASSUME MoveFails(w) PROVE OneCall(w)'
  <2> DEFINE r == [run[w] EXCEPT !.pc = "rollback"]
  <2>1. /\ run' = [run EXCEPT ![w] = r] /\ UNCHANGED <<store, applied, history>>
        /\ run[w].pc = "write"
    BY <1>8 DEF MoveFails, Goto, Typed
  <2>2. /\ r.pc = "rollback" /\ r.pack = run[w].pack /\ r.event = run[w].event
        /\ r.snap = run[w].snap /\ r.text = run[w].text
    BY <1>t DEF LocalsOK
  <2> HIDE DEF r
  <2>3. Behind(store, r) = old /\ Written(store, r) = Written(store, run[w])
    BY <2>2 DEF Behind, Written, Content, old
  <2>4. CallChecked(r, old, applied, cut)
    BY <1>o, <2>1, <2>2 DEF CallChecked, TextOK
  <2>5. CallWrites(store, r)
    BY <1>o, <2>1, <2>2, <2>3 DEF CallWrites, InOrder
  <2> QED
    BY <2>1, <2>3, <2>4, <2>5, CallGoesOn DEF old
<1>9. ASSUME Rollback(w) PROVE OneCall(w)'
  <2>1. PICK t \in DOMAIN run[w].snap :
          /\ \/ run[w].pc = "rollback" /\ IsLast(run[w].pack, t, DOMAIN run[w].snap)
             \/ run[w].pc = "restore" /\ t \in run[w].todo
          /\ store' = [store EXCEPT ![t] = run[w].snap[t]]
          /\ RollbackStep(w, t, DOMAIN run[w].snap)
    BY <1>9 DEF Rollback
  <2>2. run[w].pc \in {"rollback", "restore"} /\ UNCHANGED <<applied, history>>
    BY <1>9 DEF Rollback
  <2>l. /\ IsLast(run[w].pack, t, DOMAIN run[w].snap)
        /\ run[w].pc = "restore" => run[w].todo = {t}
    BY <1>o, <2>1 DEF CallWrites
  <2> DEFINE s == [u \in DOMAIN run[w].snap \ {t} |-> run[w].snap[u]]
             r == [run[w] EXCEPT !.pc = "rollback", !.todo = {}, !.snap = s]
             p == run[w].pack
             e == run[w].event
  <2>3. /\ DOMAIN run[w].snap \subseteq Targets /\ DOMAIN run[w].snap \subseteq WriteSet(p, e)
        /\ p \in Packs /\ e \in EventIds
    BY <1>t, <2>2 DEF LocalsOK
  <2>4. DOMAIN s = DOMAIN run[w].snap \ {t} /\ \A u \in DOMAIN s : s[u] = run[w].snap[u]
    OBVIOUS
  <2>5. \A u \in Targets : store'[u] = IF u = t THEN run[w].snap[t] ELSE store[u]
    BY <1>t, <2>1 DEF FilesOK
  <2>6. CASE DOMAIN run[w].snap = {t}
    <3>1. run' = [run EXCEPT ![w] = Resting]
      BY <2>1, <2>6 DEF RollbackStep
    <3>2. store' = [u \in Targets |-> store'[u]]
      BY <1>t DEF StoreOK, FilesOK
    <3>3. old = store'
      BY <2>5, <2>6, <3>2 DEF Behind, old
    <3> QED
      BY <1>t, <1>o, <2>2, <3>1, <3>3, CallEnds DEF history
  <2>7. CASE DOMAIN run[w].snap # {t}
    <3>1. /\ run' = [run EXCEPT ![w] = r] /\ r.pc = "rollback" /\ r.event = e
          /\ r.pack = p /\ r.snap = s /\ r.text = run[w].text
      BY <1>t, <2>1, <2>2, <2>7 DEF RollbackStep, LocalsOK
    <3> HIDE DEF s, r
    <3>2. Behind(store', r) = old
      BY <2>1, <2>3, <2>4, <2>5, <3>1 DEF Behind, old
    <3>3. \A u \in Targets : Content(r, u) = Content(run[w], u)
      BY <3>1 DEF Content
    <3>4. \A u : u \in Written(store', r) <=> u # t /\ u \in Written(store, run[w])
      BY <2>3, <2>4, <2>5, <3>1, <3>3 DEF Written
    <3>5. \A u \in DOMAIN s : store'[u] = s[u] \/ u \in Written(store', r)
      BY <1>o, <2>2, <2>l, <2>3, <2>4, <2>5, <3>4 DEF CallWrites
    <3>6. ASSUME NEW a \in DOMAIN s, NEW b \in WriteSet(p, e),
                 Position[p][b] < Position[p][a]
          PROVE  b \in Written(store', r)
      <4>1. a \in DOMAIN run[w].snap
        BY <2>4, <3>6
      <4>2. b \in Written(store, run[w])
        BY <1>o, <2>2, <3>6, <4>1 DEF CallWrites, InOrder
      <4>3. Position[p][a] <= Position[p][t]
        BY <2>l, <4>1 DEF IsLast
      <4>4. b # t
        BY <2>1, <2>3, <3>6, <4>1, <4>3, Order
      <4> QED
        BY <3>4, <4>2, <4>4
    <3>7. CallWrites(store', r)
      BY <3>1, <3>5, <3>6 DEF CallWrites, InOrder
    <3>8. CallChecked(r, old, applied, cut)
      BY <1>o, <2>2, <3>1 DEF CallChecked, TextOK
    <3> QED
      BY <2>2, <3>1, <3>2, <3>7, <3>8, CallGoesOn DEF old
  <2> QED
    BY <2>6, <2>7
<1>12. ASSUME Overwrite(w) PROVE OneCall(w)'
  <2>1. PICK t \in DOMAIN run[w].snap :
          /\ IsLast(run[w].pack, t, DOMAIN run[w].snap) /\ WasThere(w, t)
          /\ \E part \in PartsOf(t, run[w].snap[t]) : store' = [store EXCEPT ![t] = part]
          /\ run' = [run EXCEPT ![w] = [@ EXCEPT !.pc = "restore", !.todo = {t}]]
    BY <1>12 DEF Overwrite
  <2>2. run[w].pc = "rollback" /\ UNCHANGED <<applied, history>>
    BY <1>12 DEF Overwrite
  <2> DEFINE r == [run[w] EXCEPT !.pc = "restore", !.todo = {t}]
             p == run[w].pack
             e == run[w].event
  <2>3. /\ DOMAIN run[w].snap \subseteq Targets /\ DOMAIN run[w].snap \subseteq WriteSet(p, e)
        /\ p \in Packs /\ e \in EventIds
    BY <1>t, <2>2 DEF LocalsOK
  <2>4. /\ run' = [run EXCEPT ![w] = r] /\ r.pc = "restore" /\ r.todo = {t} /\ r.event = e
        /\ r.pack = p /\ r.snap = run[w].snap /\ r.text = run[w].text
    BY <1>t, <2>1 DEF LocalsOK
  <2> HIDE DEF r
  <2>5. run'[w] = r
    BY <2>4 DEF Typed
  <2>6. Behind(store', r) = old
    BY <1>o, <1>12, <2>5, BehindKept DEF old
  <2>7. \A u \in Targets : u # t => store'[u] = store[u]
    BY <1>t, <2>1 DEF FilesOK
  <2>8. t \in RegistryFiles
    <3>1. /\ old[t] = run[w].snap[t] /\ t \in WriteSet(p, e)
          /\ Clear(old, p) /\ old[Event(e)] = NoFile
      BY <1>o, <2>2, <2>3 DEF old, Behind, CallChecked
    <3>2. old[t] # NoFile
      BY <2>1, <3>1 DEF WasThere
    <3>3. t \notin PageTargets(p) /\ t # Event(e)
      BY <3>1, <3>2 DEF Clear
    <3> QED
      BY <2>3, <3>1, <3>3, PackChanges, Files DEF WriteSet, RegistryTargets
  <2>9. store'[t] \subseteq run[w].snap[t]
    BY <1>t, <2>1, <2>3, <2>8 DEF PartsOf, FilesOK
  <2>10. \A u \in Written(store, run[w]) : u # t => u \in Written(store', r)
    BY <2>3, <2>4, <2>7 DEF Written, Content
  <2>11. ASSUME NEW a \in DOMAIN r.snap, NEW b \in WriteSet(p, e),
                Position[p][b] < Position[p][a]
         PROVE  b \in Written(store', r)
    <3>1. b \in Written(store, run[w])
      BY <1>o, <2>2, <2>4, <2>11 DEF CallWrites, InOrder
    <3>2. Position[p][a] <= Position[p][t]
      BY <2>1, <2>4, <2>11 DEF IsLast
    <3>3. b # t
      BY <2>1, <2>3, <2>4, <2>11, <3>2, Order
    <3> QED
      BY <2>10, <3>1, <3>3
  <2>12. CallWrites(store', r)
    <3>1. InOrder(store', r)
      BY <2>4, <2>11 DEF InOrder
    <3>2. ASSUME NEW u \in DOMAIN r.snap, u \notin r.todo
          PROVE  store'[u] = r.snap[u] \/ u \in Written(store', r)
      <4>1. u \in Targets /\ u # t /\ u \in DOMAIN run[w].snap
        BY <2>3, <2>4, <3>2
      <4>2. store[u] = run[w].snap[u] \/ u \in Written(store, run[w])
        BY <1>o, <2>2, <4>1 DEF CallWrites
      <4> QED
        BY <2>4, <2>7, <2>10, <4>1, <4>2
    <3> QED
      BY <2>1, <2>4, <2>8, <2>9, <3>1, <3>2 DEF CallWrites
  <2>13. CallChecked(r, old, applied, cut)
    BY <1>o, <2>2, <2>4 DEF CallChecked, TextOK
  <2> QED
    BY <2>2, <2>4, <2>6, <2>12, <2>13, CallGoesOn DEF old
<1>10. ASSUME Move(w) PROVE OneCall(w)'
  <2>1. /\ run[w].pc = "write" /\ run[w].todo = {} /\ applied' = applied \cup {run[w].pack}
        /\ UNCHANGED <<store, history>> /\ run' = [run EXCEPT ![w] = Resting]
    BY <1>10 DEF Move, Stop
  <2>2. /\ Midway(old, store, run[w].pack, run[w].event, cut)
        /\ Finished(old, store, run[w].pack, run[w].event, cut)
    <3>1. Restoring(run[w]) = {}
      BY <2>1 DEF Restoring
    <3> QED
      BY <1>t, <1>o, <2>1, <3>1, CallMidway DEF old
  <2>3. run[w].pack \notin applied /\ TargetsResolve(old, run[w].pack)
    BY <1>o, <2>1 DEF CallChecked
  <2>4. Tidy(store, applied \cup {run[w].pack}, crashed, cut)
    BY <1>t, <1>o, <2>2, <2>3, FinishedWhole
  <2> QED
    BY <1>t, <2>1, <2>4, CallEnds DEF history
<1>11. ASSUME Crash(w) PROVE OneCall(w)'
  <2>1. /\ run[w].pc \in {"write", "rollback", "restore"}
        /\ crashed' = crashed \cup {run[w].pack}
        /\ UNCHANGED <<store, applied>> /\ run' = [run EXCEPT ![w] = Resting]
    BY <1>11 DEF Crash, Stop
  <2>2. cut' = cut \cup Restoring(run[w])
    BY <1>11, CrashCuts
  <2>3. Midway(old, store, run[w].pack, run[w].event, cut \cup Restoring(run[w]))
    BY <1>t, <1>o, <2>1, CallMidway DEF old
  <2>4. \A g \in Restoring(run[w]) : Lacks(store, run[w].pack, g)
    BY <1>t, <1>o, <2>1, RestoringLacks DEF old
  <2>5. run[w].pack \notin applied
    BY <1>o, <2>1 DEF CallChecked
  <2>6. Tidy(store, applied, crashed \cup {run[w].pack}, cut \cup Restoring(run[w]))
    BY <1>t, <1>o, <2>3, <2>4, <2>5, MidwayTidy
  <2> QED
    BY <1>t, <2>1, <2>2, <2>6, CallEnds
<1> QED
  BY <1>1, <1>2, <1>3, <1>4, <1>5, <1>6, <1>7, <1>8, <1>9, <1>10, <1>11, <1>12 DEF Next, Advance

LEMMA AlwaysOneCall ==
  ASSUME NEW w, Workers = {w}
  PROVE  Spec => [](Typed /\ OneCall(w))
<1>1. Init => OneCall(w)
  BY OneCallInit
<1>2. Typed /\ Typed' /\ OneCall(w) /\ [Next]_vars => OneCall(w)'
  BY OneCallNext
<1> QED
  BY <1>1, <1>2, AlwaysTyped, PTL DEF Spec

-----------------------------------------------------------------------------
(* What holds of one process, in the words of the runs *)

\* Between calls the store is tidy, and during one it is tidy but for what the
\* call has written, which belongs to no applied pack.
LEMMA StoreTidy ==
  ASSUME NEW w, Workers = {w}, Typed, OneCall(w)
  PROVE  /\ \E dead : Tidy(store, applied, dead, CutRegistries)
         /\ AllIdle => Tidy(store, applied, crashed, CutRegistries)
         /\ FilesOK(store) /\ applied \subseteq Packs
<1>1. LocalsOK(run[w]) /\ FilesOK(store) /\ applied \subseteq Packs
  BY DEF Typed, StateOK, StoreOK
<1>c. CutRegistries = cut \cup Restoring(run[w])
  BY DEF CutRegistries, Restoring
<1>2. CASE run[w].pc \in {"idle", "preflight", "prepare"}
  <2>1. Behind(store, run[w]) = store
    BY <1>1, <1>2, BehindNothing DEF LocalsOK
  <2>2. CutRegistries = cut
    BY <1>2, <1>c DEF Restoring
  <2> QED
    BY <1>1, <2>1, <2>2 DEF OneCall
<1>3. CASE run[w].pc \in {"write", "rollback", "restore"}
  <2>1. /\ Midway(Behind(store, run[w]), store, run[w].pack, run[w].event, CutRegistries)
        /\ run[w].pack \notin applied
    BY <1>1, <1>3, <1>c, CallMidway DEF OneCall, CallChecked
  <2>2. \A g \in CutRegistries \ cut : Lacks(store, run[w].pack, g)
    BY <1>1, <1>3, <1>c, RestoringLacks DEF OneCall
  <2>3. Tidy(store, applied, crashed \cup {run[w].pack}, CutRegistries)
    BY <1>1, <1>c, <2>1, <2>2, MidwayTidy DEF OneCall
  <2> QED
    BY <1>1, <1>3, <2>3 DEF AllIdle
<1> QED
  BY <1>1, <1>2, <1>3 DEF LocalsOK

\* With one apply process at a time, a pack in mutations/applied has all of
\* its effects, from one and the same call: every page, one audit event, and
\* every registry record but for those of a registry that a call died in
\* writing back, whatever else failed or died before or after.
THEOREM AppliedPackIsComplete ==
  ASSUME NEW w, Workers = {w}
  PROVE  Spec => []AppliedIsComplete
<1>1. Typed /\ OneCall(w) => AppliedIsComplete
  BY StoreTidy DEF Tidy, Whole, AppliedIsComplete
<1> QED
  BY <1>1, AlwaysOneCall, PTL

\* With one apply process at a time, the edges of applied packs point at nodes
\* that are recorded, also while a later pack is written or taken back, as long
\* as no call died in writing back the nodes.
THEOREM EdgesOfAppliedPacksResolve ==
  ASSUME NEW w, Workers = {w}
  PROVE  Spec => []AppliedEdgesResolve
<1>1. Typed /\ OneCall(w) => AppliedEdgesResolve
  BY StoreTidy DEF Tidy, EdgesResolve, AppliedEdgesResolve, KnownNodes, IdsIn
<1> QED
  BY <1>1, AlwaysOneCall, PTL

\* With one apply process at a time, everything in canonical/ and ops/events
\* belongs, between calls, to an applied pack or to one whose apply died: the
\* rollback of a call that failed leaves nothing.
THEOREM RollbackLeavesNothing ==
  ASSUME NEW w, Workers = {w}
  PROVE  Spec => []FailedApplyLeavesNothing
<1>1. Typed /\ OneCall(w) => FailedApplyLeavesNothing
  BY StoreTidy DEF Tidy, OwnedBy, FailedApplyLeavesNothing
<1> QED
  BY <1>1, AlwaysOneCall, PTL

\* A page whose id has no record shows a torn pack, and the other way round.
LEMMA TornPage ==
  ASSUME NEW ap, NEW dead, NEW L, Tidy(store, ap, dead, L), FilesOK(store), NEW p \in Packs
  PROVE  Torn(p) <=> \E c \in ChangeSet(p) :
           /\ c.op # "open_gap" /\ store[Page(c.id)] = p
           /\ ~ \E x \in store[Registry(RegistryOf(c))] : x.id = c.id /\ x.pack = p
<1> DEFINE cs == {c \in ChangeSet(p) : c.op # "open_gap"}
           HasPage(c) == store[Page(c.id)] = p
           HasRow(c) == \E x \in store[Registry(RegistryOf(c))] : x.id = c.id /\ x.pack = p
           seen == {HasPage(c) : c \in cs} \cup {HasRow(c) : c \in cs}
<1>1. Torn(p) <=> seen = BOOLEAN
  BY DEF Torn
<1>2. seen = BOOLEAN <=> /\ \E c \in cs : HasPage(c) \/ HasRow(c)
                         /\ \E c \in cs : ~HasPage(c) \/ ~HasRow(c)
  <2>1. \A b \in seen : b \in BOOLEAN
    OBVIOUS
  <2>2. TRUE \in seen <=> \E c \in cs : HasPage(c) \/ HasRow(c)
    OBVIOUS
  <2>3. FALSE \in seen <=> \E c \in cs : ~HasPage(c) \/ ~HasRow(c)
    OBVIOUS
  <2> HIDE DEF seen, HasPage, HasRow, cs
  <2>4. seen = BOOLEAN <=> TRUE \in seen /\ FALSE \in seen
    BY <2>1
  <2> QED
    BY <2>2, <2>3, <2>4
<1>3. ASSUME NEW c \in cs, HasRow(c), NEW d \in cs PROVE HasPage(d)
  <2>1. RegistryOf(c) \in Registries
    BY PackChanges
  <2> QED
    BY <1>3, <2>1 DEF Tidy, RowsHavePages, HasPages
<1>4. (\E c \in cs : HasPage(c) \/ HasRow(c)) /\ (\E c \in cs : ~HasPage(c) \/ ~HasRow(c))
        <=> \E c \in cs : HasPage(c) /\ ~HasRow(c)
  <2> HIDE DEF HasPage, HasRow, cs
  <2> QED
    BY <1>3
<1> QED
  BY <1>1, <1>2, <1>4

\* With one apply process at a time, doctor canonical-parity complains between
\* calls if and only if a pack that is not applied has a part of its pages and
\* records in place: a death in the middle of an apply never hides, and a tree
\* without one is never blamed.
THEOREM DoctorFindsDeadApply ==
  ASSUME NEW w, Workers = {w}
  PROVE  Spec => []DoctorFindsTornApply
<1>1. ASSUME Typed, OneCall(w), AllIdle
      PROVE  DoctorCanonicalParity <=> \A p \in Packs \ applied : ~Torn(p)
  <2>1. Tidy(store, applied, crashed, CutRegistries) /\ FilesOK(store) /\ applied \subseteq Packs
    BY <1>1, StoreTidy
  <2>2. NoDuplicateIds
    BY <2>1 DEF NoDuplicateIds, Tidy, IdsUnique, CanonicalRegistries
  <2>3. RecordedIds \subseteq CanonicalPageIds
    <3> SUFFICES ASSUME NEW r \in CanonicalRegistries, NEW x \in store[Registry(r)]
                 PROVE  x.id \in CanonicalPageIds
      BY DEF RecordedIds
    <3>1. r \in Registries /\ r # "gaps" /\ x.pack \in Packs /\ x \in Rows
      BY <2>1, RowsArePacks DEF CanonicalRegistries
    <3>2. PICK c \in ChangeSet(x.pack) : RegistryOf(c) = r /\ x = Record(c, x.pack, x.at)
      BY <2>1, <3>1 DEF Tidy, RowsHavePages
    <3>3. c.id = x.id /\ c.id \in Ids /\ c.op # "open_gap"
      BY <3>1, <3>2, PackChanges DEF Record, RegistryOf
    <3>4. store[Page(c.id)] = x.pack
      BY <2>1, <3>1, <3>2 DEF Tidy, RowsHavePages, HasPages
    <3> QED
      BY <3>1, <3>3, <3>4 DEF CanonicalPageIds
  <2>4. ASSUME NEW p \in Packs \ applied, Torn(p) PROVE ~(CanonicalPageIds \subseteq RecordedIds)
    <3>1. PICK c \in ChangeSet(p) :
            /\ c.op # "open_gap" /\ store[Page(c.id)] = p
            /\ ~ \E x \in store[Registry(RegistryOf(c))] : x.id = c.id /\ x.pack = p
      BY <2>1, <2>4, TornPage
    <3>2. c.id \in CanonicalPageIds
      BY <3>1, PackChanges DEF CanonicalPageIds
    <3>3. ASSUME c.id \in RecordedIds PROVE FALSE
      <4>1. PICK r \in CanonicalRegistries : \E x \in store[Registry(r)] : x.id = c.id
        BY <3>3 DEF RecordedIds
      <4>2. PICK x \in store[Registry(r)] : x.id = c.id
        BY <4>1
      <4>3. r \in Registries /\ x.pack \in Packs
        BY <2>1, RowsArePacks DEF CanonicalRegistries
      <4>4. PICK d \in ChangeSet(x.pack) : RegistryOf(d) = r /\ x = Record(d, x.pack, x.at)
        BY <2>1, <4>3 DEF Tidy, RowsHavePages
      <4>5. d.id = x.id /\ store[Page(d.id)] = x.pack
        BY <2>1, <4>3, <4>4 DEF Tidy, RowsHavePages, HasPages, Record
      <4>6. x.pack = p
        BY <3>1, <4>2, <4>5
      <4>7. DistinctIds(p)
        BY <2>1, <3>1, PackChanges, NamesAssumption DEF Tidy, PagesNamed
      <4>8. c = d
        BY <4>2, <4>4, <4>5, <4>6, <4>7 DEF DistinctIds
      <4> QED
        BY <3>1, <4>2, <4>4, <4>6, <4>8
    <3> QED
      BY <3>2, <3>3
  <2>5. ASSUME ~(CanonicalPageIds \subseteq RecordedIds)
        PROVE  \E p \in Packs \ applied : Torn(p)
    <3>1. PICK i \in CanonicalPageIds : i \notin RecordedIds
      BY <2>5
    <3>2. PICK p \in Packs : /\ store[Page(i)] = p
                             /\ \E c \in ChangeSet(p) : c.id = i /\ c.op # "open_gap"
      BY <3>1 DEF CanonicalPageIds
    <3>3. PICK c \in ChangeSet(p) : c.id = i /\ c.op # "open_gap"
      BY <3>2
    <3>4. RegistryOf(c) \in CanonicalRegistries
      BY <3>3, PackChanges DEF CanonicalRegistries, RegistryOf, Registries, Change, Ops
    <3>5. ~ \E x \in store[Registry(RegistryOf(c))] : x.id = c.id
      BY <3>1, <3>3, <3>4 DEF RecordedIds
    <3>6. CASE p \notin applied
      <4>1. Torn(p)
        BY <2>1, <3>2, <3>3, <3>5, TornPage
      <4> QED
        BY <3>6, <4>1
    <3>7. CASE p \in applied
      <4>1. ASSUME NEW e \in EventIds PROVE Record(c, p, e) \notin store[Registry(RegistryOf(c))]
        BY <3>5 DEF Record
      <4>2. RegistryOf(c) \in CutRegistries
        BY <2>1, <3>3, <3>7, <4>1 DEF Tidy, Whole
      <4>3. PICK q \in Packs \ applied : Lacks(store, q, RegistryOf(c))
        BY <2>1, <4>2 DEF Tidy, LossShows
      <4>4. PICK d \in ChangeSet(q) :
              /\ RegistryOf(d) = RegistryOf(c) /\ store[Page(d.id)] = q
              /\ ~ \E x \in store[Registry(RegistryOf(d))] : x.id = d.id /\ x.pack = q
        BY <4>3 DEF Lacks, HasPages
      <4>5. d.op # "open_gap"
        BY <3>4, <4>4 DEF CanonicalRegistries, RegistryOf
      <4>6. Torn(q)
        BY <2>1, <4>4, <4>5, TornPage
      <4> QED
        BY <4>6
    <3> QED
      BY <3>6, <3>7
  <2> QED
    BY <2>2, <2>3, <2>4, <2>5 DEF DoctorCanonicalParity
<1>2. Typed /\ OneCall(w) => DoctorFindsTornApply
  BY <1>1 DEF DoctorFindsTornApply
<1> QED
  BY <1>2, AlwaysOneCall, PTL

-----------------------------------------------------------------------------
(* The store shows a pack at once: it implements CanonicalStore *)

\* What a store shows once it shows p as well
PagesWith(p, ps) == [i \in Ids |-> IF \E c \in ChangeSet(p) : c.id = i THEN p ELSE ps[i]]
\* The records of the pack p in the registry r, and of the packs ap
RecordsBy(p, r) == {<<c.id, p>> : c \in {d \in ChangeSet(p) : RegistryOf(d) = r}}
DueBy(ap, r) == UNION {RecordsBy(p, r) : p \in ap}

\* CanonicalStore names the registry of a change as the worker does.
LEMMA SameRegistries ==
  /\ Committed!StoreRegistries = Registries
  /\ \A c : Committed!StoreRegistry(c) = RegistryOf(c)
  /\ \A p : Committed!ChangesOf(p) = ChangeSet(p)
  BY DEF Committed!StoreRegistries, Registries, Committed!StoreRegistry, RegistryOf,
     Committed!ChangesOf, ChangeSet, Indices
LEMMA SameRecords ==
  /\ \A p, r : Committed!RecordsBy(p, r) = RecordsBy(p, r)
  /\ \A r : Committed!Due(r) = DueBy(applied, r)
<1>1. \A p, r : Committed!RecordsBy(p, r) = RecordsBy(p, r)
  BY SameRegistries DEF Committed!RecordsBy, RecordsBy
<1> QED
  BY <1>1 DEF Committed!Due, DueBy

\* A tidy store shows the records it has to show, but for the registries that
\* may have lost some.
ShowsDue(st, ap, L) ==
  /\ ShownRecords(st, ap) = [r \in Registries |-> ShownRecords(st, ap)[r]]
  /\ \A r \in Registries :
       /\ ShownRecords(st, ap)[r] \subseteq DueBy(ap, r)
       /\ r \notin L => ShownRecords(st, ap)[r] = DueBy(ap, r)
LEMMA TidyShowsDue ==
  ASSUME NEW st, NEW ap, NEW dead, NEW L, Tidy(st, ap, dead, L)
  PROVE  ShowsDue(st, ap, L)
<1>1. ShownRecords(st, ap) = [r \in Registries |-> ShownRecords(st, ap)[r]]
  BY DEF ShownRecords
<1>2. ASSUME NEW r \in Registries, NEW x \in st[Registry(r)], x.pack \in ap
      PROVE  <<x.id, x.pack>> \in DueBy(ap, r)
  <2>1. PICK c \in ChangeSet(x.pack) : RegistryOf(c) = r /\ x = Record(c, x.pack, x.at)
    BY DEF Tidy, RowsHavePages
  <2>2. c.id = x.id
    BY <2>1 DEF Record
  <2>3. <<x.id, x.pack>> \in RecordsBy(x.pack, r)
    BY <2>1, <2>2 DEF RecordsBy
  <2> QED
    BY <1>2, <2>3 DEF DueBy
<1>3. ASSUME NEW r \in Registries, r \notin L, NEW p \in ap, NEW c \in ChangeSet(p), RegistryOf(c) = r
      PROVE  <<c.id, p>> \in ShownRecords(st, ap)[r]
  <2>1. PICK e \in EventIds : Record(c, p, e) \in st[Registry(r)]
    BY <1>3 DEF Tidy, Whole
  <2>2. Record(c, p, e).id = c.id /\ Record(c, p, e).pack = p
    BY DEF Record
  <2> QED
    BY <2>1, <2>2 DEF ShownRecords
<1>4. ASSUME NEW r \in Registries PROVE ShownRecords(st, ap)[r] \subseteq DueBy(ap, r)
  BY <1>2 DEF ShownRecords
<1>5. ASSUME NEW r \in Registries, r \notin L PROVE DueBy(ap, r) \subseteq ShownRecords(st, ap)[r]
  BY <1>3, <1>5 DEF DueBy, RecordsBy
<1> QED
  BY <1>1, <1>4, <1>5 DEF ShowsDue

\* The pages and events that a call writes show nothing before its pack is
\* applied.
LEMMA MidwayHidden ==
  ASSUME NEW st, NEW nst, NEW p, NEW e, NEW ap, NEW L,
         Midway(st, nst, p, e, L), p \notin ap, ap \subseteq Packs
  PROVE  ShownPages(nst, ap) = ShownPages(st, ap) /\ ShownEvents(nst, ap) = ShownEvents(st, ap)
<1>0. NoFile \notin ap
  BY NamesAssumption
<1>1. ShownPages(nst, ap) = ShownPages(st, ap)
  <2>1. \A i \in Ids : \/ nst[Page(i)] = st[Page(i)]
                       \/ st[Page(i)] \notin ap /\ nst[Page(i)] \notin ap
    <3> SUFFICES ASSUME NEW i \in Ids, nst[Page(i)] # st[Page(i)]
                 PROVE  st[Page(i)] \notin ap /\ nst[Page(i)] \notin ap
      OBVIOUS
    <3>1. st[Page(i)] = NoFile /\ nst[Page(i)] = p
      BY MidwayFiles
    <3> QED
      BY <1>0, <3>1
  <2> QED
    BY <2>1 DEF ShownPages
<1>2. ShownEvents(nst, ap) = ShownEvents(st, ap)
  <2>1. \A q \in ap : {f \in EventIds : nst[Event(f)] = q} = {f \in EventIds : st[Event(f)] = q}
    BY <1>0, MidwayFiles
  <2> QED
    BY <2>1 DEF ShownEvents
<1> QED
  BY <1>1, <1>2

\* What a state shows: the records that are due, and the pages and events that
\* are behind the call.
Shows(w) ==
  /\ CutRegistries = cut \cup Restoring(run[w])
  /\ ShowsDue(store, applied, CutRegistries)
  /\ ShownPages(store, applied) = ShownPages(Behind(store, run[w]), applied)
  /\ ShownEvents(store, applied) = ShownEvents(Behind(store, run[w]), applied)
LEMMA ShownIsBehind ==
  ASSUME NEW w, Workers = {w}, Typed, OneCall(w)
  PROVE  Shows(w)
<1>0. CutRegistries = cut \cup Restoring(run[w]) /\ ShowsDue(store, applied, CutRegistries)
  BY StoreTidy, TidyShowsDue DEF CutRegistries, Restoring
<1>1. LocalsOK(run[w]) /\ FilesOK(store) /\ applied \subseteq Packs
  BY DEF Typed, StateOK, StoreOK
<1>2. CASE run[w].pc \in {"idle", "preflight", "prepare"}
  <2>1. Behind(store, run[w]) = store
    BY <1>1, <1>2, BehindNothing DEF LocalsOK
  <2> QED
    BY <1>0, <2>1 DEF Shows
<1>3. CASE run[w].pc \in {"write", "rollback", "restore"}
  <2>1. /\ Midway(Behind(store, run[w]), store, run[w].pack, run[w].event, cut \cup Restoring(run[w]))
        /\ run[w].pack \notin applied
    BY <1>1, <1>3, CallMidway DEF OneCall, CallChecked
  <2> QED
    BY <1>0, <1>1, <2>1, MidwayHidden DEF Shows
<1> QED
  BY <1>1, <1>2, <1>3 DEF LocalsOK

\* A whole pack shows all of its effects, and it is the first to show its ids.
LEMMA PackShown ==
  ASSUME NEW st, FilesOK(st), NEW p \in Packs, NEW ap, NEW dead, NEW L,
         Tidy(st, ap \cup {p}, dead, L), p \notin ap, ap \subseteq Packs
  PROVE  /\ \A c \in ChangeSet(p) :
              /\ ShownPages(st, ap)[c.id] = NoFile
              /\ \A q \in Packs : <<c.id, q>> \notin ShownRecords(st, ap)[RegistryOf(c)]
         /\ \A r \in Registries :
              ShownRecords(st, ap \cup {p})[r] \subseteq ShownRecords(st, ap)[r] \cup RecordsBy(p, r)
         /\ ShownPages(st, ap \cup {p}) = PagesWith(p, ShownPages(st, ap))
         /\ ShownEvents(st, ap \cup {p}) = [ShownEvents(st, ap) EXCEPT ![p] = 1]
<1>1. PICK e \in EventIds :
        /\ st[Event(e)] = p
        /\ \A f \in EventIds : st[Event(f)] = p => f = e
        /\ \A c \in ChangeSet(p) : st[Page(c.id)] = p
  BY DEF Tidy, Whole
<1>0. NoFile \notin Packs
  BY NamesAssumption
<1>2. ASSUME NEW c \in ChangeSet(p)
      PROVE  /\ ShownPages(st, ap)[c.id] = NoFile
             /\ \A q \in Packs : <<c.id, q>> \notin ShownRecords(st, ap)[RegistryOf(c)]
  <2>1. c.id \in Ids /\ RegistryOf(c) \in Registries
    BY PackChanges
  <2>2. ShownPages(st, ap)[c.id] = NoFile
    BY <1>1, <2>1 DEF ShownPages
  <2>3. ASSUME NEW x \in st[Registry(RegistryOf(c))], x.id = c.id PROVE x.pack = p
    <3>1. PICK d \in ChangeSet(x.pack) : x = Record(d, x.pack, x.at)
      BY <2>1 DEF Tidy, RowsHavePages
    <3>2. st[Page(d.id)] = x.pack /\ d.id = x.id
      BY <2>1, <3>1 DEF Tidy, RowsHavePages, HasPages, Record
    <3> QED
      BY <1>1, <2>3, <3>2
  <2>4. \A q \in Packs : <<c.id, q>> \notin ShownRecords(st, ap)[RegistryOf(c)]
    BY <2>1, <2>3 DEF ShownRecords
  <2> QED
    BY <2>2, <2>4
<1>3. ASSUME NEW r \in Registries
      PROVE  ShownRecords(st, ap \cup {p})[r] \subseteq ShownRecords(st, ap)[r] \cup RecordsBy(p, r)
  <2>1. ASSUME NEW x \in st[Registry(r)], x.pack = p
        PROVE  <<x.id, p>> \in RecordsBy(p, r)
    BY <2>1 DEF Tidy, RowsHavePages, Record, RecordsBy
  <2>2. \A x \in st[Registry(r)] : x.pack \in ap => <<x.id, x.pack>> \in ShownRecords(st, ap)[r]
    BY DEF ShownRecords
  <2> SUFFICES ASSUME NEW y \in ShownRecords(st, ap \cup {p})[r]
               PROVE  y \in ShownRecords(st, ap)[r] \cup RecordsBy(p, r)
    OBVIOUS
  <2>3. PICK x \in st[Registry(r)] : x.pack \in ap \cup {p} /\ y = <<x.id, x.pack>>
    BY DEF ShownRecords
  <2>4. CASE x.pack \in ap
    BY <2>2, <2>3, <2>4
  <2>5. CASE x.pack = p
    BY <2>1, <2>3, <2>5
  <2> QED
    BY <2>3, <2>4, <2>5
<1>5. \A i \in Ids : st[Page(i)] = p <=> \E c \in ChangeSet(p) : c.id = i
  BY <1>0, <1>1 DEF Tidy, PagesNamed
<1>6. ShownPages(st, ap \cup {p}) = PagesWith(p, ShownPages(st, ap))
  BY <1>5 DEF ShownPages, PagesWith
<1>7. Cardinality({f \in EventIds : st[Event(f)] = p}) = 1
  <2>1. {f \in EventIds : st[Event(f)] = p} = {e}
    BY <1>1
  <2> QED
    BY <2>1, FS_Singleton
<1>8. ShownEvents(st, ap \cup {p}) = [ShownEvents(st, ap) EXCEPT ![p] = 1]
  BY <1>7 DEF ShownEvents
<1> QED
  BY <1>2, <1>3, <1>6, <1>8

\* The move of the pack file accepts its pack.
LEMMA MoveAccepts ==
  ASSUME NEW w, Workers = {w}, Typed, OneCall(w), Shows(w), Shows(w)', Move(w),
         NEW p \in Packs, p = run[w].pack
  PROVE  Committed!Accept(p)
<1> DEFINE old == Behind(store, run[w])
<1>1. /\ run[w].pc = "write" /\ run[w].todo = {} /\ p \in pending /\ UNCHANGED <<store, cut>>
      /\ pending' = pending \ {p} /\ applied' = applied \cup {p}
      /\ run' = [run EXCEPT ![w] = Resting]
  BY DEF Move, Stop, history
<1>2. /\ LocalsOK(run[w]) /\ p \in Packs /\ FilesOK(store) /\ applied \subseteq Packs
      /\ p \notin applied /\ TargetsResolve(old, p)
  BY <1>1 DEF Typed, StateOK, StoreOK, LocalsOK, OneCall, CallChecked
<1>c. CutRegistries = cut /\ CutRegistries' = cut /\ Restoring(run[w]) = {}
  BY <1>1 DEF CutRegistries, Restoring, Resting, Typed
<1>3. Midway(old, store, p, run[w].event, cut) /\ Finished(old, store, p, run[w].event, cut)
  BY <1>1, <1>2, <1>c, CallMidway DEF OneCall
<1>4. Tidy(store, applied \cup {p}, crashed, cut)
  BY <1>2, <1>3, FinishedWhole DEF OneCall
<1> HIDE DEF old
<1>5. \A c \in ChangeSet(p) :
        /\ ShownPages(store, applied)[c.id] = NoFile
        /\ \A q \in Packs : <<c.id, q>> \notin ShownRecords(store, applied)[RegistryOf(c)]
  BY <1>2, <1>4, PackShown
<1>6. \A r \in Registries : ShownRecords(store, applied \cup {p})[r] \subseteq
                              ShownRecords(store, applied)[r] \cup RecordsBy(p, r)
  BY <1>2, <1>4, PackShown
<1>7. ShownPages(store, applied \cup {p}) = PagesWith(p, ShownPages(store, applied))
  BY <1>2, <1>4, PackShown
<1>8. ShownEvents(store, applied \cup {p}) = [ShownEvents(store, applied) EXCEPT ![p] = 1]
  BY <1>2, <1>4, PackShown
<1>9. /\ Committed!StoreRegistries = Registries
      /\ \A c : Committed!StoreRegistry(c) = RegistryOf(c)
      /\ Committed!ChangesOf(p) = ChangeSet(p)
      /\ \A r : Committed!RecordsBy(p, r) = RecordsBy(p, r)
  BY SameRegistries, SameRecords
<1>10. ASSUME NEW r \in Registries
       PROVE  IF r \in CutRegistries
              THEN ShownRecords(store, applied)'[r]
                     \subseteq ShownRecords(store, applied)[r] \cup RecordsBy(p, r)
              ELSE ShownRecords(store, applied)'[r]
                     = ShownRecords(store, applied)[r] \cup RecordsBy(p, r)
  <2>1. ShownRecords(store, applied)' = ShownRecords(store, applied \cup {p})
    BY <1>1 DEF ShownRecords
  <2>2. DueBy(applied \cup {p}, r) = DueBy(applied, r) \cup RecordsBy(p, r)
    BY DEF DueBy
  <2>3. r \notin CutRegistries => ShownRecords(store, applied)[r] = DueBy(applied, r)
    BY DEF Shows, ShowsDue
  <2>4. r \notin CutRegistries => ShownRecords(store, applied)'[r] = DueBy(applied, r)'
    BY <1>c DEF Shows, ShowsDue
  <2>5. DueBy(applied, r)' = DueBy(applied \cup {p}, r)
    BY <1>1 DEF DueBy, RecordsBy, ChangeSet, Indices
  <2> QED
    BY <1>6, <2>1, <2>2, <2>3, <2>4, <2>5
<1>11. ShownPages(store, applied)' = PagesWith(p, ShownPages(store, applied))
  BY <1>1, <1>7 DEF ShownPages
<1>12. ShownEvents(store, applied)' = [ShownEvents(store, applied) EXCEPT ![p] = 1]
  BY <1>1, <1>8 DEF ShownEvents
<1>13. DOMAIN ShownRecords(store, applied)' = Registries
  BY DEF ShownRecords
<1>14. PagesWith(p, ShownPages(store, applied)) =
         [i \in Ids |-> IF \E c \in Committed!ChangesOf(p) : c.id = i
                        THEN p ELSE ShownPages(store, applied)[i]]
  BY <1>9 DEF PagesWith
<1>15. \A c \in Committed!ChangesOf(p) :
         /\ ShownPages(store, applied)[c.id] = NoFile
         /\ \A q \in Packs :
              <<c.id, q>> \notin ShownRecords(store, applied)[Committed!StoreRegistry(c)]
  BY <1>5, <1>9
<1>16. \A r \in Committed!StoreRegistries :
         IF r \in CutRegistries
         THEN ShownRecords(store, applied)'[r]
                \subseteq ShownRecords(store, applied)[r] \cup Committed!RecordsBy(p, r)
         ELSE ShownRecords(store, applied)'[r]
                = ShownRecords(store, applied)[r] \cup Committed!RecordsBy(p, r)
  BY <1>9, <1>10
<1> QED
  BY <1>1, <1>2, <1>9, <1>11, <1>12, <1>13, <1>14, <1>15, <1>16, <1>c DEF Committed!Accept

\* A step that changes at most one registry
LEMMA RegistryStep ==
  ASSUME NEW w, Shows(w), Shows(w)', NEW r \in Registries, UNCHANGED <<pending, applied>>,
         Behind(store', run'[w]) = Behind(store, run[w]),
         \A g \in Registries \ {r} : store'[Registry(g)] = store[Registry(g)],
         \/ CutRegistries' = CutRegistries
         \/ CutRegistries' = CutRegistries \cup {r}
         \/ CutRegistries' = CutRegistries \ {r}
  PROVE  [Committed!StoreNext]_(Committed!StoreVars)
<1> DEFINE now == ShownRecords(store, applied)
           then == ShownRecords(store, applied)'
<1>0. Behind(store, run[w])' = Behind(store, run[w])
  BY DEF Behind
<1>1. ShownPages(store, applied)' = ShownPages(store, applied)
  <2>1. ShownPages(Behind(store, run[w]), applied)' = ShownPages(Behind(store, run[w]), applied)
    BY <1>0 DEF ShownPages
  <2> QED
    BY <2>1 DEF Shows
<1>2. ShownEvents(store, applied)' = ShownEvents(store, applied)
  <2>1. ShownEvents(Behind(store, run[w]), applied)' = ShownEvents(Behind(store, run[w]), applied)
    BY <1>0 DEF ShownEvents
  <2> QED
    BY <2>1 DEF Shows
<1>3. \A g \in Registries \ {r} : then[g] = now[g]
  BY DEF ShownRecords
<1>4. /\ now = [g \in Registries |-> now[g]] /\ then = [g \in Registries |-> then[g]]
      /\ now[r] \subseteq DueBy(applied, r) /\ then[r] \subseteq DueBy(applied, r)
      /\ r \notin CutRegistries => now[r] = DueBy(applied, r)
      /\ r \notin CutRegistries' => then[r] = DueBy(applied, r)
  BY DEF Shows, ShowsDue, DueBy, RecordsBy, ChangeSet, Indices
<1>5. /\ Committed!StoreRegistries = Registries /\ Committed!Due(r) = DueBy(applied, r)
  BY SameRegistries, SameRecords
<1> HIDE DEF now, then
<1>6. then = [now EXCEPT ![r] = then[r]]
  BY <1>3, <1>4
<1>7. CASE r \notin CutRegistries /\ r \notin CutRegistries'
  <2>1. then[r] = now[r] /\ CutRegistries' = CutRegistries
    BY <1>4, <1>7
  <2>2. then = now
    BY <1>3, <1>4, <2>1
  <2> QED
    BY <1>1, <1>2, <2>1, <2>2 DEF Committed!StoreVars, now, then
<1>8. CASE r \in CutRegistries /\ r \in CutRegistries'
  <2>1. CutRegistries' = CutRegistries
    BY <1>8
  <2>2. \E part \in SUBSET Committed!Due(r) : then = [now EXCEPT ![r] = part]
    BY <1>4, <1>5, <1>6
  <2>3. Committed!Change(r)
    BY <1>1, <1>2, <1>8, <2>1, <2>2 DEF Committed!Change, now, then
  <2> QED
    BY <1>5, <2>3 DEF Committed!StoreNext
<1>9. CASE r \notin CutRegistries /\ r \in CutRegistries'
  <2>1. CutRegistries' = CutRegistries \cup {r} /\ then[r] \subseteq now[r]
    BY <1>4, <1>9
  <2>2. Committed!Empty(r)
    BY <1>1, <1>2, <1>6, <2>1 DEF Committed!Empty, now, then
  <2> QED
    BY <1>5, <2>2 DEF Committed!StoreNext
<1>10. CASE r \in CutRegistries /\ r \notin CutRegistries'
  <2>1. CutRegistries' = CutRegistries \ {r} /\ then[r] = DueBy(applied, r)
    BY <1>4, <1>10
  <2>2. Committed!PutBack(r)
    BY <1>1, <1>2, <1>5, <1>6, <1>10, <2>1 DEF Committed!PutBack, now, then
  <2> QED
    BY <1>5, <2>2 DEF Committed!StoreNext
<1> QED
  BY <1>7, <1>8, <1>9, <1>10

\* Where a call is after a write and after the undoing of one
LEMMA WriteAndUndoPoints ==
  ASSUME Typed, NEW w \in Workers
  PROVE  /\ Write(w) => run'[w].pc = "write"
         /\ Rollback(w) => run'[w].pc \in {"idle", "rollback"}
<1>0. LocalsOK(run[w])
  BY DEF Typed
<1>1. ASSUME Write(w) PROVE run'[w].pc = "write"
  <2>1. PICK t \in run[w].todo :
          run' = [run EXCEPT ![w] = [run[w] EXCEPT !.todo = @ \ {t}, !.snap = WithSnapshot(w, t)]]
    BY <1>1 DEF Write
  <2>2. run'[w] = [run[w] EXCEPT !.todo = @ \ {t}, !.snap = WithSnapshot(w, t)]
    BY <2>1 DEF Typed
  <2> QED
    BY <1>0, <1>1, <2>2 DEF Write, LocalsOK
<1>2. ASSUME Rollback(w) PROVE run'[w].pc \in {"idle", "rollback"}
  <2>1. PICK t \in DOMAIN run[w].snap : RollbackStep(w, t, DOMAIN run[w].snap)
    BY <1>2 DEF Rollback
  <2> DEFINE s == [u \in DOMAIN run[w].snap \ {t} |-> run[w].snap[u]]
             back == [run[w] EXCEPT !.pc = "rollback", !.todo = {}, !.snap = s]
  <2>2. run'[w] = Resting \/ run'[w] = back
    BY <2>1 DEF RollbackStep, Typed
  <2>3. back.pc = "rollback" /\ Resting.pc = "idle"
    BY <1>0 DEF LocalsOK, Resting
  <2> HIDE DEF back
  <2> QED
    BY <2>2, <2>3
<1> QED
  BY <1>1, <1>2

\* A write or its undoing changes at most one registry.
LEMMA FileSteps ==
  ASSUME NEW w, Workers = {w}, Typed, OneCall(w), Shows(w), Shows(w)',
         Write(w) \/ Overwrite(w) \/ Rollback(w)
  PROVE  [Committed!StoreNext]_(Committed!StoreVars)
<1>1. UNCHANGED <<pending, applied, cut>>
  BY DEF Write, Overwrite, Rollback, history
<1>2. Behind(store', run'[w]) = Behind(store, run[w])
  BY BehindKept DEF OneCall
<1>3. LocalsOK(run[w]) /\ FilesOK(store) /\ w \in Workers
  BY DEF Typed, StoreOK
<1>4. PICK t \in Targets : /\ \A u \in Targets : u # t => store'[u] = store[u]
                           /\ run'[w].pc = "restore" => run'[w].todo = {t}
                           /\ run[w].pc = "restore" => run[w].todo = {t}
  <2>1. CASE Write(w)
    <3>1. PICK t \in run[w].todo : store' = [store EXCEPT ![t] = NewContent(w, t)]
      BY <2>1 DEF Write
    <3>2. run'[w].pc # "restore" /\ run[w].pc # "restore"
      BY <1>3, <2>1, WriteAndUndoPoints DEF Write
    <3> QED
      BY <1>3, <3>1, <3>2 DEF FilesOK, LocalsOK
  <2>2. CASE Overwrite(w)
    <3>1. PICK t \in DOMAIN run[w].snap :
            /\ \E part \in PartsOf(t, run[w].snap[t]) : store' = [store EXCEPT ![t] = part]
            /\ run' = [run EXCEPT ![w] = [@ EXCEPT !.pc = "restore", !.todo = {t}]]
      BY <2>2 DEF Overwrite
    <3>2. run'[w].todo = {t} /\ run[w].pc = "rollback"
      BY <1>3, <2>2, <3>1 DEF Typed, LocalsOK, Overwrite
    <3> QED
      BY <1>3, <3>1, <3>2 DEF FilesOK, LocalsOK
  <2>3. CASE Rollback(w)
    <3>1. PICK t \in DOMAIN run[w].snap :
            /\ run[w].pc = "rollback" \/ (run[w].pc = "restore" /\ t \in run[w].todo)
            /\ store' = [store EXCEPT ![t] = run[w].snap[t]]
      BY <2>3 DEF Rollback
    <3>2. run[w].pc = "restore" => run[w].todo = {t}
      BY <3>1 DEF OneCall, CallWrites
    <3>3. run'[w].pc # "restore"
      BY <1>3, <2>3, WriteAndUndoPoints
    <3> QED
      BY <1>3, <3>1, <3>2, <3>3 DEF FilesOK, LocalsOK
  <2> QED
    BY <2>1, <2>2, <2>3
<1> DEFINE r == IF t \in RegistryFiles THEN t[2] ELSE "nodes"
<1>5. /\ r \in Registries
      /\ \A g \in Registries : Registry(g) \in Targets /\ (Registry(g) = t => g = r)
  BY Files DEF RegistryFiles, Registries
<1>6. \A g \in Registries \ {r} : store'[Registry(g)] = store[Registry(g)]
  BY <1>4, <1>5
<1>7. run[w].pc = "restore" => Restoring(run[w]) \subseteq {r}
  BY <1>4, <1>5 DEF Restoring
<1>8. run[w].pc # "restore" => Restoring(run[w]) = {}
  BY DEF Restoring
<1>9. Restoring(run'[w]) \subseteq {r}
  BY <1>4, <1>5 DEF Restoring
<1>10. CutRegistries = cut \cup Restoring(run[w]) /\ CutRegistries' = cut \cup Restoring(run'[w])
  BY <1>1 DEF Shows, Restoring
<1> HIDE DEF r
<1>11. \/ CutRegistries' = CutRegistries
       \/ CutRegistries' = CutRegistries \cup {r}
       \/ CutRegistries' = CutRegistries \ {r}
  BY <1>7, <1>8, <1>9, <1>10
<1> QED
  BY <1>1, <1>2, <1>5, <1>6, <1>11, RegistryStep

\* With one apply process at a time, the apply worker implements the atomic
\* store: the move of the pack file is the step in which a pack takes effect,
\* with all its pages, records and one event, and no write, failed write or
\* death before it changes what applied packs show; a rollback does so for a
\* registry while it writes it back, and for good only when it dies there.
THEOREM PacksTakeEffectAtOnce ==
  ASSUME NEW w, Workers = {w}
  PROVE  Spec => ImplementsCanonicalStore
<1>1. Init => Committed!StoreInit
  <2> SUFFICES ASSUME Init PROVE Committed!StoreInit
    OBVIOUS
  <2>1. pending = {} /\ applied = {}
    BY DEF Init
  <2>2. \A r \in Registries : store[Registry(r)] = {}
    BY Files DEF Init
  <2>3. ShownRecords(store, applied) = [r \in Registries |-> {}]
    BY <2>2 DEF ShownRecords
  <2>4. ShownPages(store, applied) = [i \in Ids |-> NoFile]
    BY <2>1 DEF ShownPages
  <2>5. ShownEvents(store, applied) = [p \in Packs |-> 0]
    BY <2>1 DEF ShownEvents
  <2>6. CutRegistries = {}
    BY DEF Init, CutRegistries, Resting
  <2> QED
    BY <2>1, <2>3, <2>4, <2>5, <2>6, SameRegistries DEF Committed!StoreInit
<1>s. Typed /\ OneCall(w) => Shows(w)
  BY ShownIsBehind
<1>2. ASSUME Typed, Typed', OneCall(w), Shows(w), Shows(w)', [Next]_vars
      PROVE  [Committed!StoreNext]_(Committed!StoreVars)
  <2>1. UNCHANGED <<pending, store, applied, CutRegistries>> => UNCHANGED Committed!StoreVars
    BY DEF Committed!StoreVars, ShownRecords, ShownPages, ShownEvents
  <2>2. UNCHANGED <<run, cut>> => UNCHANGED CutRegistries
    BY DEF CutRegistries
  <2>3. CASE UNCHANGED vars
    BY <2>1, <2>2, <2>3 DEF vars, history
  <2>4. ASSUME NEW p \in Packs, Propose(p) PROVE Committed!Submit(p)
    <3>1. UNCHANGED <<store, applied, CutRegistries>> /\ pending' = pending \cup {p} /\ p \notin pending
      BY <2>2, <2>4 DEF Propose, history
    <3> QED
      BY <3>1 DEF Committed!Submit, ShownRecords, ShownPages, ShownEvents
  <2>5. CASE (\E ref \in Refs : RecordEvidence(ref)) \/ Commit \/ SubjectCommit
    <3>1. UNCHANGED <<pending, store, applied, run, cut>>
      BY <2>5 DEF RecordEvidence, Commit, SubjectCommit, history
    <3> QED
      BY <2>1, <2>2, <3>1
  <2>6. CASE \/ \E p \in Packs, a \in BOOLEAN : Validate(w, p, a)
             \/ Preflight(w) \/ PreflightRejects(w) \/ Prepare(w) \/ PrepareRejects(w)
             \/ WriteFails(w) \/ MoveFails(w)
    <3>1. UNCHANGED <<pending, store, applied, cut>> /\ run[w].pc # "restore"
      BY <2>6 DEF Validate, Preflight, PreflightRejects,
         Prepare, PrepareRejects, WriteFails, MoveFails, history
    <3>2. run'[w].pc # "restore"
      <4>1. CASE \E p \in Packs, a \in BOOLEAN : Validate(w, p, a)
        BY <1>2, <4>1 DEF Validate, Typed, LocalsOK
      <4>2. CASE Preflight(w) \/ MoveFails(w)
        BY <1>2, <4>2 DEF Preflight, MoveFails, Goto, Typed, LocalsOK
      <4>3. CASE PreflightRejects(w) \/ PrepareRejects(w)
        BY <1>2, <4>3 DEF PreflightRejects, PrepareRejects, Stop, Resting, Typed
      <4>4. CASE Prepare(w)
        <5>1. PICK e \in EventIds : \E joined \in JoinedLines(run[w].pack, e) :
                run' = [run EXCEPT ![w] = [@ EXCEPT !.pc = "write", !.event = e,
                                             !.todo = WriteSet(run[w].pack, e),
                                             !.text = NewText(run[w].pack, e, joined)]]
          BY <4>4 DEF Prepare
        <5> QED
          BY <1>2, <5>1 DEF Typed, LocalsOK
      <4>5. CASE WriteFails(w)
        BY <1>2, <4>5 DEF WriteFails, Typed, LocalsOK
      <4> QED
        BY <2>6, <4>1, <4>2, <4>3, <4>4, <4>5
    <3>3. UNCHANGED CutRegistries
      BY <1>2, <3>1, <3>2 DEF Shows, Restoring
    <3> QED
      BY <2>1, <3>1, <3>3
  <2>7. CASE Crash(w)
    <3>1. UNCHANGED <<pending, store, applied>> /\ run' = [run EXCEPT ![w] = Resting]
      BY <2>7 DEF Crash, Stop
    <3>2. cut' = cut \cup Restoring(run[w])
      BY <2>7, CrashCuts
    <3>3. Restoring(run'[w]) = {}
      BY <1>2, <3>1 DEF Typed, Restoring, Resting
    <3>4. UNCHANGED CutRegistries
      BY <1>2, <3>2, <3>3 DEF Shows, Restoring
    <3> QED
      BY <2>1, <3>1, <3>4
  <2>8. CASE Write(w) \/ Overwrite(w) \/ Rollback(w)
    BY <1>2, <2>8, FileSteps
  <2>9. CASE Move(w)
    <3>1. PICK p \in Packs : p = run[w].pack
      BY <1>2, <2>9 DEF Move, Typed, LocalsOK
    <3>2. Committed!Accept(p)
      BY <1>2, <2>9, <3>1, MoveAccepts
    <3> QED
      BY <3>1, <3>2 DEF Committed!StoreNext
  <2> QED
    BY <1>2, <2>3, <2>4, <2>5, <2>6, <2>7, <2>8, <2>9 DEF Next, Around, Advance, Committed!StoreNext
<1> QED
  BY <1>1, <1>s, <1>2, AlwaysOneCall, PTL DEF Spec, ImplementsCanonicalStore, Committed!Spec

=============================================================================
