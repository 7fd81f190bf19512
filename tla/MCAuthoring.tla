---------------------------- MODULE MCAuthoring ----------------------------
(***************************************************************************)
(* Authoring for TLC: two operators, two versions and two dates, seen from *)
(* the day before the first one and from that day.                         *)
(***************************************************************************)
EXTENDS Authoring, TLC

CONSTANTS v1, v2, o1, o2

\* One envelope brings its date.
OneOwnDate == (v1 :> 2) @@ [v \in Versions |-> None]

Symmetry == Permutations(Operators) \cup Permutations(Versions \ {v1})
=============================================================================
