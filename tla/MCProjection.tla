---------------------------- MODULE MCProjection ----------------------------
(***************************************************************************)
(* A small instance of Projection.                                         *)
(***************************************************************************)
EXTENDS Projection, TLC

CONSTANTS x, y, l1, l2, n1, n2

\* Rows of the first commit at l1: one more than the limit, and one whose path
\* is not safe
MCFileRefs == {[repo |-> x, commit |-> <<l1, 1>>, path |-> k] : k \in 1..3}
\* One node is shown and one is not, a gap is about the latter, one subject is
\* registered and one is not
MCFirstTree == [nodes |-> [n \in Nodes |-> IF n = n1 THEN "shown" ELSE "hidden"],
                gaps |-> {n2, New},
                refs |-> {[repo |-> x, commit |-> <<l1, 1>>, path |-> 2]},
                subjects |-> [i \in Ids |-> IF i = x THEN [location |-> l1, head |-> <<l1, 1>>]
                                            ELSE NoSubject]]
MCFirstCommits == [l \in Locations |-> IF l = l1 THEN 1 ELSE 0]

\* Commands one after another, of which one dies
OneAtATime == [orderly |-> TRUE, compose |-> 3, subject |-> 1, edit |-> 1,
               commit |-> 2, move |-> 1, crash |-> 1]
\* A second subject is registered and committed; composes for either die
TwoSubjects == [orderly |-> TRUE, compose |-> 3, subject |-> 2, edit |-> 0,
                commit |-> 1, move |-> 0, crash |-> 2]
\* Two composes and the writes of others, in any interleaving
Overlapping == [orderly |-> FALSE, compose |-> 2, subject |-> 0, edit |-> 1,
                commit |-> 1, move |-> 0, crash |-> 1]
\* Two subject commands at once
Registering == [orderly |-> FALSE, compose |-> 0, subject |-> 4, edit |-> 0,
                commit |-> 0, move |-> 1, crash |-> 1]
Processes == Permutations(Admins) \cup Permutations(Composers)
MCOverlapping == {Overlapping}
MCHistories == {OneAtATime, TwoSubjects, Overlapping, Registering}
=============================================================================
