------------------------------ MODULE Records ------------------------------
(***************************************************************************)
(* The records of the registries, from the proposal of a change            *)
(* (workers/reconcile.py, workers/writeback.py) over what apply adds to it *)
(* (workers/apply.py) to the audiences that compose shows it to            *)
(* (workers/compose_builder.py, workers/compose_openclaw.py).  Pure        *)
(* operators; the text of a record is left out.                            *)
(***************************************************************************)
EXTENDS Naturals, Sequences

CONSTANTS New,   \* target_id of a suggested edge to a node that is not there yet
          NoId   \* no id

Absent == "absent"   \* a field the record does not have; {} stands for no audiences

\* A change of a mutation pack.  "source" and "digest" are the ids it cites.
NoChange == [op |-> Absent, type |-> Absent, status |-> Absent, audiences |-> {},
             scope |-> Absent, sensitivity |-> Absent, authority |-> Absent,
             edge |-> Absent, confidence |-> Absent, to |-> NoId,
             source |-> NoId, digest |-> NoId]
Map(f(_), s) == [i \in DOMAIN s |-> f(s[i])]
Times(c, n)  == [i \in 1..n |-> c]

-----------------------------------------------------------------------------
(* reconcile_digest: a digest says how many claims its author makes and      *)
(* which edges it suggests, as [target, type, confidence].                   *)

EdgeTypes == {"SUPPORTS", "CONTRADICTS", "NARROWS", "SUPERSEDES", "RELATED_TO", "EXAMPLE_OF",
              "IMPLEMENTS", "DEPENDS_ON", "INVARIANT_FOR", "DIVERGES_FROM", "READS", "WRITES",
              "TESTS", "LOCATED_IN"}
GateEdges == {"SUPERSEDES", "CONTRADICTS"}
HumanGateForChanges(edges, changes) ==  \* variant: only what became an edge counts
  \E i \in DOMAIN changes : changes[i].edge \in GateEdges
HumanGateForEdges(edges, changes) == \E i \in DOMAIN edges : edges[i].type \in GateEdges

\* A suggested edge becomes a node, an edge or a gap, depending on its target
\* and on the confidence in it.
EdgeChange(e, s, known) ==
  CASE e.target = New ->
         [NoChange EXCEPT !.op = "propose_node", !.source = s, !.digest = s]
    [] e.target # New /\ e.target \in known /\ e.confidence \in {"high", "medium"} ->
         [NoChange EXCEPT !.op = "add_edge", !.edge = e.type, !.confidence = e.confidence,
                          !.to = e.target, !.source = s, !.digest = s]
    [] OTHER ->
         [NoChange EXCEPT !.op = "open_gap", !.to = e.target, !.digest = s]
ClaimChange(s) ==
  [NoChange EXCEPT !.op = "create_claim", !.status = "draft", !.source = s, !.digest = s]
ReconcileChanges(d, s, known) ==
  Times(ClaimChange(s), d.claims) \o Map(LAMBDA e : EdgeChange(e, s, known), d.edges)

-----------------------------------------------------------------------------
(* writeback_session: a session summary lists decisions and invariants, each *)
(* with its status, and counts interfaces, runtime assumptions, task         *)
(* lessons, results (tests and commands run) and conflicts.                  *)

StatusValues == {"draft", "active", "contested"}
Proposed(w, type, status, authority) ==
  [NoChange EXCEPT !.op = "propose_node", !.type = type, !.status = status,
                   !.authority = authority, !.source = w.source, !.digest = w.digest]
RuntimeChange(w) ==
  [Proposed(w, "runtime_observation", "draft", "runtime_observed")
     EXCEPT !.scope = "runtime", !.sensitivity = "runtime_only", !.audiences = {"openclaw"}]
WritebackChanges(w) ==
  LET observed(type, status) == Proposed(w, type, status, "repo_observed") IN
     Map(LAMBDA st : observed("decision", st), w.decisions)
  \o Map(LAMBDA st : observed("invariant", st), w.invariants)
  \o Times(observed("interface", "draft"), w.interfaces)
  \o Times(RuntimeChange(w), w.runtime)
  \o Times(observed("task_lesson", "draft"),
           IF w.lessons > 0 THEN w.lessons ELSE w.results)
  \o Times(observed("decision", "contested"), w.conflicts)

-----------------------------------------------------------------------------
(* apply: requires_human_gate, record_for_change                             *)

RequiresHumanGate(k) ==
  k.human \/ \E i \in DOMAIN k.changes :
               k.changes[i].op = "add_edge" /\ k.changes[i].edge \in GateEdges

Or(value, default) == IF value = Absent THEN default ELSE value
RecordForAll(c) ==  \* variant: the defaults are written over what the change says
  [c EXCEPT !.audiences = {"builders"}, !.sensitivity = "internal"]
RecordForChange(c) ==
  LET node == c.op = "propose_node" IN
  [c EXCEPT !.audiences = IF @ = {} THEN {"builders"} ELSE @,
            !.sensitivity = Or(@, "internal"),
            !.type   = IF node THEN Or(@, "artifact") ELSE @,
            !.status = IF node THEN Or(@, "draft") ELSE @]

-----------------------------------------------------------------------------
(* Who is shown a record                                                     *)

VisibleStatus == {"active", "draft", "contested"}
VisibleToBuilders(r) ==
  /\ "builders" \in r.audiences
  /\ r.scope \notin {"operator", "runtime"}
  /\ r.type \notin {"operator_directive", "runtime_observation"}
  /\ r.sensitivity \notin {"operator_only", "runtime_only"}
  /\ r.status \in VisibleStatus

ValidNodeTypes == {"finding", "method", "claim", "assumption", "question", "fitz_belief",
                   "decision", "invariant", "interface", "component", "runtime_observation",
                   "operator_directive", "artifact", "task_lesson"}
VisibleToOpenClaw(r) ==
  /\ r.type \in ValidNodeTypes \ {"operator_directive"}
  /\ r.audiences \cap {"openclaw", "all"} # {}
  /\ r.sensitivity \in {"public", "internal", "runtime_only"}
  /\ r.scope \in {"global", "repo", "runtime"}
  /\ r.authority \in {"source_grounded", "repo_observed", "runtime_observed",
                      "fitz_curated", "model_inferred"}
  /\ r.status \in VisibleStatus
  /\ r.type = "runtime_observation" => r.authority = "runtime_observed"

=============================================================================
