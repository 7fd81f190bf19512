------------------------------ MODULE Calendar ------------------------------
(***************************************************************************)
(* What the publication lifecycle promises to a reader of the calendar,    *)
(* without versions' statuses, slot rows or transactions: every place (a   *)
(* Pacific date and a slot order) holds at most one version, a version     *)
(* holds at most one place, a place goes live with the version booked for  *)
(* it, and a version that was taken off the calendar never comes back.     *)
(***************************************************************************)
EXTENDS Naturals

CONSTANTS Dates, Orders, Versions, Free

VARIABLES
    occupant,   \* the version booked for each place, or Free
    live,       \* the places that are published
    retired     \* the versions that were replaced or withdrawn

vars == <<occupant, live, retired>>

Places == Dates \X Orders

OffCalendar(v) == v \notin retired /\ \A p \in Places : occupant[p] # v

Booked(date) == {p \in Places \ live : p[1] = date /\ occupant[p] # Free}

Init ==
    /\ occupant = [p \in Places |-> Free]
    /\ live = {}
    /\ retired = {}

Book(p, v) ==
    /\ occupant[p] = Free
    /\ OffCalendar(v)
    /\ occupant' = [occupant EXCEPT ![p] = v]
    /\ UNCHANGED <<live, retired>>

\* Booked places of one date go live together.
GoLive(places) ==
    /\ places # {}
    /\ live' = live \cup places
    /\ UNCHANGED <<occupant, retired>>

\* Another version takes the place over; it has to go live again.
Retarget(p, v) ==
    /\ occupant[p] # Free
    /\ OffCalendar(v)
    /\ occupant' = [occupant EXCEPT ![p] = v]
    /\ live' = live \ {p}
    /\ retired' = retired \cup {occupant[p]}

Withdraw(p) ==
    /\ p \in live
    /\ occupant' = [occupant EXCEPT ![p] = Free]
    /\ live' = live \ {p}
    /\ retired' = retired \cup {occupant[p]}

Next ==
    \/ \E p \in Places, v \in Versions : Book(p, v) \/ Retarget(p, v)
    \/ \E date \in Dates : \E places \in SUBSET Booked(date) : GoLive(places)
    \/ \E p \in Places : Withdraw(p)

Spec == Init /\ [][Next]_vars

-----------------------------------------------------------------------------
TypeOK ==
    /\ occupant \in [Places -> Versions \cup {Free}]
    /\ live \subseteq Places
    /\ retired \subseteq Versions

\* Nothing is booked twice, only occupied places are live, and no retired
\* version holds a place: what the unique indexes over active slots and the
\* guards of src/publication.ts are there for.
OneVersionOnePlace ==
    /\ \A p, q \in Places : occupant[p] = occupant[q] /\ occupant[p] # Free => p = q
    /\ \A p \in live : occupant[p] # Free
    /\ \A p \in Places : occupant[p] \notin retired
=============================================================================
