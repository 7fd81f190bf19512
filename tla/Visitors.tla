------------------------------ MODULE Visitors ------------------------------
(***************************************************************************)
(* Who a request comes from and whether it may pass: the attempt limiter   *)
(* of src/http/public-router.ts and resolveVisitor of src/http/visitor.ts. *)
(*                                                                         *)
(* Browsers send requests with the cookie they have, several at a time;    *)
(* the server looks the session up, then keeps or rotates it in a second   *)
(* step; answers arrive in any order or get lost.  The limiter counts      *)
(* submissions per address in the memory of the process.                   *)
(*                                                                         *)
(* Requests of a signed-in account never reach the cookie and are left     *)
(* out; a cookie the server did not issue counts as none.                  *)
(***************************************************************************)
EXTENDS Integers, Sequences, FiniteSets

CONSTANTS
    LastTick,  \* how far the clock runs
    Limit,     \* submissions an address may make per window
    Window,    \* length of a window
    RotateAge, \* age beyond which a session is rotated
    Lifetime,  \* of a session and of its cookie
    Browsers,
    Addresses,
    AddressOf, \* the address each browser's requests come from
    Requests,  \* requests in flight at a time
    MaxTokens, \* bounds the number of sessions
    None       \* no cookie, no session, no counter

VARIABLES
    now,
    rate,     \* the limiter's counter of each address
    sessions, \* the GuestSession of each token, and the browser it was made for; an
              \* identity is named by its first token
    jar,      \* the cookie each browser holds and until when
    req,      \* the requests in flight
    blank,    \* how many requests each browser sent without a cookie
    accepted  \* the submissions of each address that passed since the process started: when, and
              \* as what count of which window

vars == <<now, rate, sessions, jar, req, blank, accepted>>

Ticks == 0 .. LastTick
Tokens == 1 .. MaxTokens
Session == [identity : Tokens, browser : Browsers, created : Ticks, expires : Nat, revoked : BOOLEAN]

ASSUME VisitorsAssumption ==
    /\ LastTick \in Nat /\ Limit \in Nat /\ Window \in Nat \ {0} /\ Lifetime \in Nat /\ MaxTokens \in Nat
    /\ AddressOf \in [Browsers -> Addresses]
    /\ IsFiniteSet(Requests)
    /\ None \notin Browsers /\ None \notin Tokens /\ None \notin Session
    /\ None \notin [count : Nat, resetAt : Nat] /\ None \notin [token : Tokens, until : Nat]

Idle == [stage |-> "idle", browser |-> None, post |-> FALSE, cookie |-> None, at |-> 0, session |-> None]

Issued(t) == sessions[t] # None
Identity(t) == sessions[t].identity
NoneAccepted == [a \in Addresses |-> <<>>]

Go(r, request) == req' = [req EXCEPT ![r] = request]

-----------------------------------------------------------------------------
\* A browser sends what its jar holds; an expired cookie is dropped.
Send(r, b, post) ==
    LET cookie == IF jar[b] # None /\ jar[b].until > now THEN jar[b].token ELSE None IN
    /\ req[r].stage = "idle"
    /\ Go(r, [Idle EXCEPT !.stage = "sent", !.browser = b, !.post = post, !.cookie = cookie])
    /\ blank' = IF cookie = None THEN [blank EXCEPT ![b] = @ + 1] ELSE blank
    /\ UNCHANGED <<now, rate, sessions, jar, accepted>>

Pass(r) ==
    /\ req[r].stage = "sent" /\ ~req[r].post
    /\ Go(r, [req[r] EXCEPT !.stage = "resolve"])
    /\ UNCHANGED <<now, rate, sessions, jar, blank, accepted>>

\* Mutant: every submission begins a window.
CounterSliding(a) ==
    IF rate[a] = None \/ rate[a].resetAt <= now THEN [count |-> 1, resetAt |-> now + Window]
    ELSE [count |-> rate[a].count + 1, resetAt |-> now + Window]

\* Mutant: the window begins anew when it is full.
CounterWrapping(a) ==
    IF rate[a] = None \/ rate[a].resetAt <= now \/ rate[a].count > Limit THEN [count |-> 1, resetAt |-> now + Window]
    ELSE [rate[a] EXCEPT !.count = @ + 1]

\* The counter of an address after one more submission.  A refused one counts,
\* too, but does not prolong the window.
Counter(a) ==
    IF rate[a] = None \/ rate[a].resetAt <= now THEN [count |-> 1, resetAt |-> now + Window]
    ELSE [rate[a] EXCEPT !.count = @ + 1]

Submit(r) ==
    LET a == AddressOf[req[r].browser] IN
    /\ req[r].stage = "sent" /\ req[r].post
    /\ rate' = [rate EXCEPT ![a] = Counter(a)]
    /\ IF rate'[a].count > Limit
       THEN Go(r, [req[r] EXCEPT !.stage = "refused"]) /\ UNCHANGED accepted
       ELSE /\ Go(r, [req[r] EXCEPT !.stage = "resolve"])
            /\ accepted' = [accepted EXCEPT ![a] = Append(@, [at |-> now, counter |-> rate'[a]])]
    /\ UNCHANGED <<now, sessions, jar, blank>>

\* Mutant: a revoked session is no session.
LookUpUnrevoked(r) ==
    LET t == IF req[r].cookie # None /\ ~sessions[req[r].cookie].revoked THEN req[r].cookie ELSE None
        keep == t # None /\ sessions[t].expires > now /\ sessions[t].created >= now - RotateAge
    IN  /\ req[r].stage = "resolve"
        /\ Go(r, [req[r] EXCEPT !.stage = IF keep THEN "keep" ELSE "rotate", !.session = t, !.at = now])
        /\ UNCHANGED <<now, rate, sessions, jar, blank, accepted>>

\* The session is read and its fate decided.
LookUp(r) ==
    LET t == req[r].cookie
        keep == /\ t # None /\ ~sessions[t].revoked /\ sessions[t].expires > now
                /\ sessions[t].created >= now - RotateAge
    IN  /\ req[r].stage = "resolve"
        /\ Go(r, [req[r] EXCEPT !.stage = IF keep THEN "keep" ELSE "rotate", !.session = t, !.at = now])
        /\ UNCHANGED <<now, rate, sessions, jar, blank, accepted>>

\* The session is touched by id, whatever happened to it meanwhile.
Keep(r) ==
    /\ req[r].stage = "keep"
    /\ Go(r, [req[r] EXCEPT !.stage = "answered"])
    /\ UNCHANGED <<now, rate, sessions, jar, blank, accepted>>

\* Mutant: only a live session hands its identity on.
RotateLive(r) ==
    LET old == req[r].session
        new == Cardinality({t \in Tokens : Issued(t)}) + 1
        heir == old # None /\ ~sessions[old].revoked /\ sessions[old].expires > req[r].at
    IN  /\ req[r].stage = "rotate" /\ new \in Tokens
        /\ sessions' = [t \in Tokens |->
               IF t = new THEN [identity |-> IF heir THEN Identity(old) ELSE new, browser |-> req[r].browser,
                                created |-> now, expires |-> req[r].at + Lifetime, revoked |-> FALSE]
               ELSE IF t = old THEN [sessions[t] EXCEPT !.revoked = TRUE] ELSE sessions[t]]
        /\ Go(r, [req[r] EXCEPT !.stage = "answered", !.session = new])
        /\ UNCHANGED <<now, rate, jar, blank, accepted>>

\* One transaction: the old session is revoked, its identity handed to a new
\* one; without an old session there is a new identity.
Rotate(r) ==
    LET old == req[r].session
        new == Cardinality({t \in Tokens : Issued(t)}) + 1
    IN  /\ req[r].stage = "rotate" /\ new \in Tokens
        /\ sessions' = [t \in Tokens |->
               IF t = new THEN [identity |-> IF old # None THEN Identity(old) ELSE new, browser |-> req[r].browser,
                                created |-> now, expires |-> req[r].at + Lifetime, revoked |-> FALSE]
               ELSE IF t = old THEN [sessions[t] EXCEPT !.revoked = TRUE] ELSE sessions[t]]
        /\ Go(r, [req[r] EXCEPT !.stage = "answered", !.session = new])
        /\ UNCHANGED <<now, rate, jar, blank, accepted>>

\* A rotated session comes with Set-Cookie.
Deliver(r) ==
    LET b == req[r].browser IN
    /\ req[r].stage = "answered"
    /\ jar' = IF req[r].session = req[r].cookie THEN jar
              ELSE [jar EXCEPT ![b] = [token |-> req[r].session, until |-> now + Lifetime]]
    /\ Go(r, Idle)
    /\ UNCHANGED <<now, rate, sessions, blank, accepted>>

\* A refusal is answered, a database error ends a request, an answer gets lost.
End(r) ==
    /\ req[r].stage \in {"refused", "resolve", "keep", "rotate", "answered"}
    /\ Go(r, Idle)
    /\ UNCHANGED <<now, rate, sessions, jar, blank, accepted>>

Tick ==
    /\ now < LastTick
    /\ now' = now + 1
    /\ UNCHANGED <<rate, sessions, jar, req, blank, accepted>>

\* The process forgets its counters and its requests.
Restart ==
    /\ rate' = [a \in Addresses |-> None]
    /\ req' = [r \in Requests |-> IF req[r].stage = "answered" THEN req[r] ELSE Idle]
    /\ accepted' = NoneAccepted
    /\ UNCHANGED <<now, sessions, jar, blank>>

Init ==
    /\ now = 0
    /\ rate = [a \in Addresses |-> None]
    /\ sessions = [t \in Tokens |-> None]
    /\ jar = [b \in Browsers |-> None]
    /\ req = [r \in Requests |-> Idle]
    /\ blank = [b \in Browsers |-> 0]
    /\ accepted = NoneAccepted

Handle(r) ==
    \/ \E b \in Browsers, post \in BOOLEAN : Send(r, b, post)
    \/ Pass(r) \/ Submit(r) \/ LookUp(r) \/ Keep(r) \/ Rotate(r) \/ Deliver(r) \/ End(r)

Next == (\E r \in Requests : Handle(r)) \/ Tick \/ Restart

Spec == Init /\ [][Next]_vars

-----------------------------------------------------------------------------
TypeOK ==
    /\ now \in Ticks
    /\ rate \in [Addresses -> [count : Nat, resetAt : Nat] \cup {None}]
    /\ sessions \in [Tokens -> Session \cup {None}]
    /\ jar \in [Browsers -> [token : Tokens, until : Nat] \cup {None}]
    /\ req \in [Requests -> [stage : {"idle", "sent", "refused", "resolve", "keep", "rotate", "answered"},
                             browser : Browsers \cup {None}, post : BOOLEAN, cookie : Tokens \cup {None},
                             at : Ticks, session : Tokens \cup {None}]]
    /\ blank \in [Browsers -> Nat]
    /\ accepted \in [Addresses -> Seq([at : Ticks, counter : [count : Nat, resetAt : Nat]])]

\* A request is answered for the identity of the cookie it was sent with,
\* although that session may have been rotated, once or twice, revoked or have
\* expired since the browser got it: a guest's history does not depend on races.
SameVisitor ==
    \A r \in Requests : req[r].stage = "answered" /\ req[r].cookie # None =>
        Identity(req[r].session) = Identity(req[r].cookie)

\* A browser is at most as many guests as it sent requests without a cookie, one
\* when it waited for its first answer, however its later answers are lost or
\* overtake each other, and no two browsers are ever the same guest.
GuestsCounted ==
    LET guests(b) == {Identity(t) : t \in {u \in Tokens : Issued(u) /\ sessions[u].browser = b}}
    IN  \A b \in Browsers :
            /\ Cardinality(guests(b)) <= blank[b]
            /\ \A c \in Browsers \ {b} : guests(b) \cap guests(c) = {}
            /\ jar[b] # None => Identity(jar[b].token) \in guests(b)

AcceptedIn(a, from, to) == Cardinality({i \in DOMAIN accepted[a] : accepted[a][i].at \in from .. to})

\* Since the process started no window of time, wherever it begins, has seen
\* more than two windows' worth of submissions of one address.
BurstBounded ==
    \A a \in Addresses, from \in Ticks : AcceptedIn(a, from, from + Window - 1) <= 2 * Limit

\* Nobody is locked out by asking again: a submission is refused only when as
\* many as allowed were accepted within the last window.
RefusesForCause ==
    \A r \in Requests : req[r].stage = "sent" /\ req'[r].stage = "refused" =>
        AcceptedIn(AddressOf[req[r].browser], now - Window + 1, now) >= Limit

RefusedForCause == [][RefusesForCause]_vars
=============================================================================
