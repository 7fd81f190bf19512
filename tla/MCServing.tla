----------------------------- MODULE MCServing -----------------------------
(***************************************************************************)
(* Serving for TLC: what was published first, and where behaviours stop.   *)
(***************************************************************************)
EXTENDS Serving

CONSTANTS v1, v2, v3, MaxRetired, MaxChanges

Published(places) == [p \in Places |-> IF p \in DOMAIN places THEN places[p] ELSE None]

\* One spot a day, or a date with two spots and a version to publish.
AllCalendars ==
    {Published((<<1, 1>> :> v1) @@ (<<2, 1>> :> v2) @@ (<<3, 1>> :> v3)),
     Published((<<1, 1>> :> v1) @@ (<<1, 2>> :> v2))}

\* The calendar changes during a request only, by MaxRetired withdrawals and
\* with MaxChanges of its slots and of the attempts; nothing follows an answer.
\* The third attempt is there for the pages of the history and for streaks.
Bounded ==
    /\ req.stage # "answered"
    /\ req.stage = "idle" => calendar \in Calendars
    /\ Cardinality(retired) <= MaxRetired
    /\ req.op \in {"daily", "range", "result"} => Cardinality(attempts) <= 2
    /\ req.stage # "idle" => Cardinality(ever \ steady) + Cardinality(req.since.known \ req.since.kept) <= MaxChanges
=============================================================================
