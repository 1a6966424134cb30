--------------------------- MODULE MCDigestQueue ---------------------------
(***************************************************************************)
(* A small instance of DigestQueue: jobs 1 and 2 ask for the same source,  *)
(* which a manual command may also digest.                                 *)
(***************************************************************************)
EXTENDS QueueDoctor

CONSTANTS s1

MCSourceOf == [j \in Jobs |-> s1]

=============================================================================
