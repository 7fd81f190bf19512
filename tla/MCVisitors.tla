----------------------------- MODULE MCVisitors -----------------------------
(***************************************************************************)
(* Visitors for TLC.                                                       *)
(***************************************************************************)
EXTENDS Visitors, FiniteSetsExt, TLC

CONSTANTS b1, b2, r1, r2, here, MaxBlank

\* Both browsers sit behind one address.
OneAddress == [b \in Browsers |-> here]

\* Requests without a cookie and refused submissions are bounded.  A window
\* lasts a minute and a session a month: submissions are counted, and pass, as
\* long as there is one session only.
Bounded ==
    /\ MapThenSumSet(LAMBDA b : blank[b], Browsers) <= MaxBlank
    /\ \A a \in Addresses : rate[a] # None => rate[a].count <= Limit + 2 /\ sessions[2] = None
    /\ accepted # NoneAccepted => sessions[2] = None

Symmetry == Permutations(Browsers) \cup Permutations(Requests)
=============================================================================
