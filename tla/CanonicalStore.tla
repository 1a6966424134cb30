--------------------------- MODULE CanonicalStore ---------------------------
(***************************************************************************)
(* What the apply worker promises its readers: a mutation pack takes       *)
(* effect at once, with all its pages, records and one audit event, or not *)
(* at all; it never names an id that is already recorded, and no pack      *)
(* takes effect twice.  Records never go away, except from a registry that *)
(* is being put back after a failure: it has all of its records again when *)
(* that is done, and loses some for good when it is never done.            *)
(***************************************************************************)
EXTENDS Naturals, Sequences

CONSTANTS Packs, Ids, Changes, NoFile

VARIABLES
  waiting,  \* packs proposed for review
  accepted, \* packs that took effect
  records,  \* records[r]: pairs of an id and the pack that recorded it
  pages,    \* pages[i]: the pack that wrote the page of id i
  events,  \* events[p]: how many audit events name pack p
  unsure   \* the registries that are being put back, or were not to the end

StoreRegistry(c) == CASE c.op = "create_claim" -> "claims"
                      [] c.op = "add_edge"     -> "edges"
                      [] c.op = "open_gap"     -> "gaps"
                      [] OTHER                 -> "nodes"
StoreRegistries == {"claims", "edges", "gaps", "nodes"}
ChangesOf(p) == {Changes[p][i] : i \in DOMAIN Changes[p]}
RecordsBy(p, r) == {<<c.id, p>> : c \in {d \in ChangesOf(p) : StoreRegistry(d) = r}}
\* What a registry has to hold
Due(r) == UNION {RecordsBy(p, r) : p \in accepted}

StoreInit ==
  /\ waiting = {} /\ accepted = {} /\ unsure = {}
  /\ records = [r \in StoreRegistries |-> {}]
  /\ pages = [i \in Ids |-> NoFile]
  /\ events = [p \in Packs |-> 0]

Submit(p) ==
  /\ p \notin waiting
  /\ waiting' = waiting \cup {p}
  /\ UNCHANGED <<accepted, records, pages, events, unsure>>

Accept(p) ==
  /\ p \in waiting \ accepted
  /\ \A c \in ChangesOf(p) : /\ pages[c.id] = NoFile
                             /\ \A q \in Packs : <<c.id, q>> \notin records[StoreRegistry(c)]
  /\ waiting' = waiting \ {p}
  /\ accepted' = accepted \cup {p}
  /\ DOMAIN records' = StoreRegistries
  /\ \A r \in StoreRegistries :
       IF r \in unsure THEN records'[r] \subseteq records[r] \cup RecordsBy(p, r)
       ELSE records'[r] = records[r] \cup RecordsBy(p, r)
  /\ pages' = [i \in Ids |-> IF \E c \in ChangesOf(p) : c.id = i THEN p ELSE pages[i]]
  /\ events' = [events EXCEPT ![p] = 1]
  /\ UNCHANGED unsure

\* A registry is emptied to be put back, is put back for good, or changes
\* when it has lost records before.
Empty(r) ==
  /\ unsure' = unsure \cup {r}
  /\ \E part \in SUBSET records[r] : records' = [records EXCEPT ![r] = part]
  /\ UNCHANGED <<waiting, accepted, pages, events>>
PutBack(r) ==
  /\ r \in unsure
  /\ unsure' = unsure \ {r}
  /\ records' = [records EXCEPT ![r] = Due(r)]
  /\ UNCHANGED <<waiting, accepted, pages, events>>
Change(r) ==
  /\ r \in unsure
  /\ \E part \in SUBSET Due(r) : records' = [records EXCEPT ![r] = part]
  /\ UNCHANGED <<waiting, accepted, pages, events, unsure>>

StoreNext ==
  \/ \E p \in Packs : Submit(p) \/ Accept(p)
  \/ \E r \in StoreRegistries : Empty(r) \/ PutBack(r) \/ Change(r)
StoreVars == <<waiting, accepted, records, pages, events, unsure>>

Spec == StoreInit /\ [][StoreNext]_StoreVars

=============================================================================
