--------------------------- MODULE MCPublication ---------------------------
(***************************************************************************)
(* Two versions of one spot and one version of another.                    *)
(***************************************************************************)
EXTENDS Publication, TLC

CONSTANTS v1, v2, v3, p1, p2

MCSpotOf == [v \in Versions |-> IF v = v3 THEN p2 ELSE p1]
MCNumber == [v \in Versions |-> IF v = v2 THEN 2 ELSE 1]

Symmetry == Permutations(SlotIds) \cup Permutations(Txs) \cup Permutations(Dates)
=============================================================================
