----------------------------- MODULE MCAttempts -----------------------------
(***************************************************************************)
(* Attempts for TLC: visitors, keys, payloads and requests are each        *)
(* interchangeable.                                                        *)
(***************************************************************************)
EXTENDS Attempts, TLC

CONSTANTS MaxRows, MaxReplies

\* The bound of the runs: how many attempts and different answers are explored.
Bounded == Cardinality(rows) <= MaxRows /\ Cardinality(replies) <= MaxReplies

Symmetry ==
    Permutations(Visitors) \cup Permutations(Keys) \cup Permutations(Payloads) \cup Permutations(Requests)
=============================================================================
