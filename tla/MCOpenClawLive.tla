--------------------------- MODULE MCOpenClawLive ---------------------------
(***************************************************************************)
(* Small instances of OpenClawLive.                                        *)
(***************************************************************************)
EXTENDS OpenClawLive

Of(jobs, cl, rv, crashes, errors, applies, requeues) ==
  [jobs |-> jobs, clock |-> cl, rev |-> rv, crashes |-> crashes, errors |-> errors,
   applies |-> applies, requeues |-> requeues]

\* Two jobs within one lease and revision, or one job through deaths, the end
\* of its lease and new revisions.
MCHistories == {Of({1, 2}, 0, 0, 1, 1, 1, 1), Of({1}, 1, 1, 2, 1, 1, 1)}
MCApplied   == {Of({1}, 0, 0, 1, 0, 1, 0)}

=============================================================================
