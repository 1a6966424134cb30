----------------------------- MODULE MCPipeline -----------------------------
(***************************************************************************)
(* A small instance of Pipeline.  In the ingesting histories every kind of *)
(* request is made, in the others one, and the rest of the pipeline runs.  *)
(***************************************************************************)
EXTENDS Pipeline, TLC

CONSTANTS s1

\* Every request that is possible.  Lengths: empty, one more than the excerpt
\* limit, and around the limit for external text.
MCRequests ==
  {q \in [place : Places, explicit : {"none", "local_draft", "article_html"},
          mode : Modes \cup {"default"}, redistributable : {"yes", "no", "unknown"},
          length : {0, 801, 7999, 8000, 9000},
          answer : {"ok", "http_error", "fails", "refuses", "mutable"}] :
     q.answer \in AnswersTo(q)}
Page == [place |-> "page", explicit |-> "none", mode |-> "default",
         redistributable |-> "unknown", length |-> 801, answer |-> "ok"]

\* Digests that contradict the first node of the first pack, with and without
\* confidence, and one that only proposes.
Suggested(target, type, confidence) == [target |-> target, type |-> type, confidence |-> confidence]
Contradicting(confidence) ==
  [claims |-> 1, edges |-> <<Suggested(<<1, 1>>, "CONTRADICTS", confidence)>>]
Supporting == [claims |-> 1, edges |-> <<Suggested(New, "SUPPORTS", "medium")>>]
MCDigests == {Contradicting("high"), Contradicting("low"), Supporting}
Session(decisions, invariants, interfaces, runtime, conflicts) ==
  [decisions |-> decisions, invariants |-> invariants, interfaces |-> interfaces,
   runtime |-> runtime, lessons |-> 0, results |-> 1, conflicts |-> conflicts,
   source |-> s1, digest |-> s1]
Deciding == Session(<<"active">>, <<"draft">>, 0, 1, 0)
Contesting == Session(<<>>, <<"contested">>, 1, 0, 1)
Conflicting == Session(<<>>, <<>>, 0, 0, 1)
MCSummaries == {Deciding, Contesting, Conflicting}

Budget(ing, dig, rec, wri, com, cmt, die) ==
  [ingest |-> ing, digest |-> dig, reconcile |-> rec, writeback |-> wri,
   compose |-> com, commit |-> cmt, die |-> die]
Following  == [careful |-> TRUE, requests |-> {Page}, answers |-> {Supporting},
               sessions |-> {Deciding, Contesting}, seconds |-> {1},
               may |-> Budget(1, 1, 1, 1, 2, 2, 0)]
AnyRequest == [Following EXCEPT !.requests = MCRequests, !.may = Budget(1, 0, 0, 0, 0, 0, 1)]
Dying      == [Following EXCEPT !.may = Budget(1, 1, 0, 1, 2, 2, 1)]
Digesting  == [Following EXCEPT !.answers = MCDigests, !.may = Budget(1, 1, 1, 1, 1, 2, 0)]
Careless   == [Following EXCEPT !.careful = FALSE, !.may = Budget(1, 1, 0, 1, 2, 0, 0)]
\* The clock moves on, stands still or is set back, and the nodes are one too many.
Clocked    == [Following EXCEPT !.sessions = {Conflicting}, !.seconds = {1, 2},
                                !.may = Budget(1, 1, 0, 2, 2, 2, 0)]
MCHistories == {AnyRequest, Following, Dying, Digesting, Careless, Clocked}
Symmetry == Permutations(Builders)

=============================================================================
