------------------------------ MODULE MCApply ------------------------------
(***************************************************************************)
(* Small instances of Apply: packs that share a node and a claim.          *)
(***************************************************************************)
EXTENDS Apply, TLC

CONSTANTS p1, p2, p3, p4, p5, p6, n1, n2, n3, c1, c2, e1, g1, src, dg

NewNode(n)     == [op |-> "propose_node", id |-> n, to |-> n, destructive |-> FALSE]
NewClaim(c)    == [op |-> "create_claim", id |-> c, to |-> c, destructive |-> FALSE]
NewGap(g)      == [op |-> "open_gap", id |-> g, to |-> g, destructive |-> FALSE]
NewEdge(e, n)  == [op |-> "add_edge", id |-> e, to |-> n, destructive |-> TRUE]

\* p1 proposes a node and a claim; p2 contradicts that node, proposes another
\* and opens a gap; p3 reuses p1's claim id and p2's node id; p4 has only the
\* claims registry in common with p1; p5 has nothing in common with p4; p6
\* only adds a row to the nodes registry.
MCChanges == [p \in {p1, p2, p3, p4, p5, p6} |->
                CASE p = p1 -> <<NewNode(n1), NewClaim(c1)>>
                  [] p = p2 -> <<NewEdge(e1, n1), NewNode(n2), NewGap(g1)>>
                  [] p = p3 -> <<NewClaim(c1), NewNode(n2)>>
                  [] p = p4 -> <<NewClaim(c2)>>
                  [] p = p5 -> <<NewGap(g1)>>
                  [] OTHER  -> <<NewNode(n3)>>]
MCEvidence == [p \in {p1, p2, p3, p4, p5, p6} |->
                 CASE p = p2 -> {src, dg} [] p \in {p4, p5, p6} -> {} [] OTHER -> {dg}]
\* Processes and event ids are interchangeable
Interchangeable == Permutations(Workers) \cup Permutations(EventIds)

=============================================================================
