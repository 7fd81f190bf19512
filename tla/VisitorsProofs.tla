--------------------------- MODULE VisitorsProofs ---------------------------
(***************************************************************************)
(* Proofs about Visitors for any number of browsers, requests, sessions,   *)
(* addresses and any limit: who a guest is never depends on races, and     *)
(* the limiter lets through what it should.                                *)
(*                                                                         *)
(* The argument: sessions keep their identity and browser for ever, a      *)
(* request carries a cookie of its own browser (Sent), what it looks up is *)
(* that cookie's session (Resolved), and every guest of a browser was paid *)
(* for by a request without a cookie that is not waiting any more (Paid).  *)
(***************************************************************************)
EXTENDS Visitors, FiniteSetTheorems, TLAPS

\* Tokens are issued in their order.
InOrder == \E n \in 0 .. MaxTokens : {t \in Tokens : Issued(t)} = 1 .. n

\* An identity was first issued to the same browser.
Owned == \A t \in Tokens : Issued(t) => Issued(Identity(t)) /\ sessions[Identity(t)].browser = sessions[t].browser

HasJar(b) == jar[b] # None => Issued(jar[b].token) /\ sessions[jar[b].token].browser = b

Sent(r) ==
    req[r].stage # "idle" =>
        /\ req[r].browser \in Browsers
        /\ req[r].cookie # None => Issued(req[r].cookie) /\ sessions[req[r].cookie].browser = req[r].browser

Resolved(r) ==
    /\ req[r].stage \in {"keep", "rotate"} => req[r].session = req[r].cookie
    /\ req[r].stage = "keep" => req[r].cookie # None
    /\ req[r].stage = "answered" =>
          /\ req[r].session # None /\ Issued(req[r].session)
          /\ sessions[req[r].session].browser = req[r].browser
          /\ req[r].cookie # None => Identity(req[r].session) = Identity(req[r].cookie)

Guests(b) == {Identity(t) : t \in {u \in Tokens : Issued(u) /\ sessions[u].browser = b}}
Waiting(b) == {r \in Requests : /\ req[r].stage \in {"sent", "resolve", "rotate"}
                                /\ req[r].cookie = None /\ req[r].browser = b}
Paid(b) == Cardinality(Guests(b)) + Cardinality(Waiting(b)) <= blank[b]

IInv ==
    /\ TypeOK /\ InOrder /\ Owned
    /\ \A b \in Browsers : HasJar(b) /\ Paid(b)
    /\ \A r \in Requests : Sent(r) /\ Resolved(r)

Stages == {"idle", "sent", "refused", "resolve", "keep", "rotate", "answered"}
ReqRow == [stage : Stages, browser : Browsers \cup {None}, post : BOOLEAN, cookie : Tokens \cup {None},
           at : Ticks, session : Tokens \cup {None}]
Passed == [at : Ticks, counter : [count : Nat, resetAt : Nat]]

\* Sessions are revoked at most; they are never given to another.
Lasting ==
    \A t \in Tokens : Issued(t) =>
        Issued(t)' /\ Identity(t)' = Identity(t) /\ sessions'[t].browser = sessions[t].browser

-----------------------------------------------------------------------------
\* Guests and waiting requests can be counted.
LEMMA Countable ==
    ASSUME TypeOK, NEW b \in Browsers
    PROVE  IsFiniteSet(Guests(b)) /\ IsFiniteSet(Waiting(b))
  <1>1. IsFiniteSet(Tokens)
    BY FS_Interval, VisitorsAssumption DEF Tokens
  <1>2. Guests(b) \subseteq Tokens
    BY VisitorsAssumption DEF Guests, Identity, Issued, TypeOK, Session
  <1>3. Waiting(b) \subseteq Requests
    BY DEF Waiting
  <1>4. QED
    BY <1>1, <1>2, <1>3, FS_Subset, VisitorsAssumption

\* Fewer guests, fewer requests that wait, or more that were sent, are paid for.
LEMMA PaidMore ==
    ASSUME TypeOK, TypeOK', NEW b \in Browsers, Paid(b), Guests(b)' \subseteq Guests(b),
           Waiting(b)' \subseteq Waiting(b), blank'[b] >= blank[b]
    PROVE  Paid(b)'
  <1>1. IsFiniteSet(Guests(b)) /\ IsFiniteSet(Waiting(b))
    BY Countable
  <1>2. /\ Cardinality(Guests(b)') <= Cardinality(Guests(b)) /\ Cardinality(Waiting(b)') <= Cardinality(Waiting(b))
        /\ IsFiniteSet(Guests(b)') /\ IsFiniteSet(Waiting(b)')
    BY <1>1, FS_Subset
  <1>3. /\ Cardinality(Guests(b)) \in Nat /\ Cardinality(Waiting(b)) \in Nat
        /\ Cardinality(Guests(b)') \in Nat /\ Cardinality(Waiting(b)') \in Nat
    BY <1>1, <1>2, FS_CardinalityType
  <1>4. blank[b] \in Nat /\ blank'[b] \in Nat
    BY DEF TypeOK
  <1>5. QED
    BY <1>2, <1>3, <1>4 DEF Paid

\* What a request knows lasts as long as the sessions do.
LEMMA RequestKept ==
    ASSUME TypeOK, Lasting, NEW r \in Requests, req'[r] = req[r], Sent(r), Resolved(r)
    PROVE  Sent(r)' /\ Resolved(r)'
  <1>1. req[r] \in ReqRow
    BY DEF TypeOK, ReqRow, Stages
  <1>2. Sent(r)'
    BY <1>1 DEF Sent, Lasting, ReqRow
  <1>3. Resolved(r)'
    <2>1. req[r].stage = "answered" =>
             /\ req[r].session # None /\ Issued(req[r].session)'
             /\ sessions'[req[r].session].browser = req[r].browser
             /\ req[r].cookie # None => Identity(req[r].session)' = Identity(req[r].cookie)'
      BY <1>1 DEF Sent, Resolved, Lasting, ReqRow
    <2>2. QED
      BY <2>1 DEF Resolved, Issued, Identity
  <1>4. QED
    BY <1>2, <1>3

\* A step that makes no session: it suffices to look at the row of its request.
LEMMA RowStep ==
    ASSUME IInv, TypeOK', NEW r \in Requests, NEW row \in ReqRow, Go(r, row), UNCHANGED sessions,
           Sent(r)', Resolved(r)', \A b \in Browsers : HasJar(b)',
           \A b \in Browsers : r \in Waiting(b)' => r \in Waiting(b), UNCHANGED blank
    PROVE  IInv'
  <1>1. /\ req' \in [Requests -> ReqRow] /\ req'[r] = row
        /\ \A p \in Requests \ {r} : req'[p] = req[p]
    BY DEF Go, IInv, TypeOK, ReqRow, Stages
  <1>2. Lasting
    BY DEF Lasting, Issued, Identity
  <1>3. InOrder' /\ Owned'
    BY DEF IInv, InOrder, Owned, Issued, Identity
  <1>4. ASSUME NEW p \in Requests PROVE Sent(p)' /\ Resolved(p)'
    BY <1>1, <1>2, RequestKept DEF IInv
  <1>5. ASSUME NEW b \in Browsers PROVE Paid(b)'
    <2>1. Guests(b)' \subseteq Guests(b)
      BY DEF Guests, Identity, Issued
    <2>2. Waiting(b)' \subseteq Waiting(b)
      <3>1. \A p \in Requests \ {r} : p \in Waiting(b)' => p \in Waiting(b)
        BY <1>1 DEF Waiting
      <3>2. \A p \in Waiting(b)' : p \in Requests
        BY DEF Waiting
      <3>3. QED
        BY <3>1, <3>2
    <2>3. blank'[b] >= blank[b]
      BY DEF IInv, TypeOK
    <2>4. QED
      BY <2>1, <2>2, <2>3, PaidMore DEF IInv
  <1>6. QED
    BY <1>3, <1>4, <1>5 DEF IInv

\* The jars stay good when neither they nor the sessions change.
LEMMA JarsKept ==
    ASSUME IInv, UNCHANGED <<sessions, jar>>
    PROVE  \A b \in Browsers : HasJar(b)'
  BY DEF IInv, HasJar, Issued

-----------------------------------------------------------------------------
\* A request is sent: without a cookie it is paid for at once.
LEMMA SendKeepsIInv ==
    ASSUME IInv, NEW r \in Requests, NEW b \in Browsers, NEW post \in BOOLEAN, Send(r, b, post)
    PROVE  IInv'
  <1> DEFINE cookie == IF jar[b] # None /\ jar[b].until > now THEN jar[b].token ELSE None
             row == [Idle EXCEPT !.stage = "sent", !.browser = b, !.post = post, !.cookie = cookie]
  <1>1. cookie \in Tokens \cup {None}
    BY DEF IInv, TypeOK
  <1>3. /\ Go(r, row) /\ req[r].stage = "idle" /\ UNCHANGED <<now, rate, sessions, jar, accepted>>
        /\ blank' = IF cookie = None THEN [blank EXCEPT ![b] = @ + 1] ELSE blank
    BY DEF Send
  <1>6. cookie # None => Issued(cookie) /\ sessions[cookie].browser = b
    BY DEF IInv, HasJar
  <1> HIDE DEF cookie
  <1>2. row \in ReqRow /\ row.stage = "sent" /\ row.browser = b /\ row.cookie = cookie
    <2>1. Idle \in ReqRow
      BY VisitorsAssumption DEF Idle, ReqRow, Stages, Ticks
    <2>2. QED
      BY <1>1, <2>1 DEF ReqRow, Stages
  <1> HIDE DEF row
  <1>4. TypeOK'
    <2>1. req' \in [Requests -> ReqRow]
      BY <1>2, <1>3 DEF IInv, TypeOK, Go, ReqRow, Stages
    <2>2. blank' \in [Browsers -> Nat]
      BY <1>3 DEF IInv, TypeOK
    <2>3. QED
      BY <1>3, <2>1, <2>2 DEF IInv, TypeOK, ReqRow, Stages
  <1>5. \A c \in Browsers : HasJar(c)'
    BY <1>3, JarsKept
  <1>7. req' \in [Requests -> ReqRow] /\ req'[r] = row /\ \A p \in Requests \ {r} : req'[p] = req[p]
    BY <1>2, <1>3 DEF Go, IInv, TypeOK, ReqRow, Stages
  <1>8. Lasting /\ InOrder' /\ Owned'
    BY <1>3 DEF IInv, InOrder, Owned, Issued, Identity, Lasting
  <1>9. ASSUME NEW p \in Requests PROVE Sent(p)' /\ Resolved(p)'
    <2>1. CASE p = r
      BY <1>2, <1>3, <1>6, <1>7, <2>1 DEF Sent, Resolved, Issued
    <2>2. CASE p # r
      BY <1>7, <1>8, <2>2, RequestKept DEF IInv
    <2>3. QED
      BY <2>1, <2>2
  <1>10. ASSUME NEW c \in Browsers PROVE Paid(c)'
    <2>1. Guests(c)' = Guests(c)
      BY <1>3 DEF Guests, Identity, Issued
    <2>2. \A p \in Requests \ {r} : p \in Waiting(c)' <=> p \in Waiting(c)
      BY <1>7 DEF Waiting
    <2>3. r \notin Waiting(c)
      BY <1>3 DEF Waiting
    <2>4. Waiting(c) \subseteq Requests /\ Waiting(c)' \subseteq Requests
      BY DEF Waiting
    <2>5. CASE cookie = None /\ c = b
      <3>1. r \in Waiting(c)'
        BY <1>2, <1>7, <2>5 DEF Waiting
      <3>2. Waiting(c)' = Waiting(c) \cup {r}
        BY <2>2, <2>4, <3>1
      <3>3. IsFiniteSet(Guests(c)) /\ IsFiniteSet(Waiting(c))
        BY Countable DEF IInv
      <3>4. Cardinality(Waiting(c)') = Cardinality(Waiting(c)) + 1
        BY <2>3, <3>2, <3>3, FS_AddElement
      <3>5. Cardinality(Guests(c)) \in Nat /\ Cardinality(Waiting(c)) \in Nat
        BY <3>3, FS_CardinalityType
      <3>6. blank[c] \in Nat /\ blank'[c] = blank[c] + 1
        BY <1>3, <2>5 DEF IInv, TypeOK
      <3>7. Cardinality(Guests(c)) + Cardinality(Waiting(c)) <= blank[c]
        BY DEF IInv, Paid
      <3>8. Cardinality(Guests(c)') + Cardinality(Waiting(c)') <= blank'[c]
        BY <2>1, <3>4, <3>5, <3>6, <3>7
      <3>9. QED
        BY <3>8 DEF Paid
    <2>6. CASE cookie # None \/ c # b
      <3>1. r \notin Waiting(c)'
        BY <1>2, <1>7, <2>6 DEF Waiting
      <3>2. Waiting(c)' \subseteq Waiting(c)
        BY <2>2, <2>4, <3>1
      <3>3. blank'[c] = blank[c] /\ blank[c] \in Nat
        BY <1>3, <2>6 DEF IInv, TypeOK
      <3>4. QED
        BY <1>4, <2>1, <3>2, <3>3, PaidMore DEF IInv
    <2>7. QED
      BY <2>5, <2>6
  <1>11. QED
    BY <1>4, <1>5, <1>8, <1>9, <1>10 DEF IInv

\* A request that asks nothing of the limiter goes on.
LEMMA PassKeepsIInv ==
    ASSUME IInv, NEW r \in Requests, Pass(r)
    PROVE  IInv'
  <1> DEFINE row == [req[r] EXCEPT !.stage = "resolve"]
  <1>1. req[r] \in ReqRow /\ row \in ReqRow
    BY DEF IInv, TypeOK, ReqRow, Stages
  <1>2. Go(r, row) /\ req[r].stage = "sent" /\ UNCHANGED <<now, rate, sessions, jar, blank, accepted>>
    BY DEF Pass
  <1>3. TypeOK' /\ req'[r] = row
    BY <1>1, <1>2 DEF IInv, TypeOK, Go, ReqRow, Stages
  <1>4. Sent(r)' /\ Resolved(r)'
    BY <1>1, <1>2, <1>3 DEF IInv, Sent, Resolved, Issued, ReqRow
  <1>5. \A b \in Browsers : r \in Waiting(b)' => r \in Waiting(b)
    BY <1>1, <1>2, <1>3 DEF Waiting, ReqRow
  <1>6. QED
    BY <1>1, <1>2, <1>3, <1>4, <1>5, JarsKept, RowStep

\* A submission is counted and goes on or is refused.
LEMMA SubmitKeepsIInv ==
    ASSUME IInv, NEW r \in Requests, Submit(r)
    PROVE  IInv'
  <1> DEFINE a == AddressOf[req[r].browser]
  <1>1. req[r] \in ReqRow
    BY DEF IInv, TypeOK, ReqRow, Stages
  <1>2. req[r].stage = "sent" /\ UNCHANGED <<now, sessions, jar, blank>> /\ rate' = [rate EXCEPT ![a] = Counter(a)]
    BY DEF Submit
  <1>3. PICK row \in {[req[r] EXCEPT !.stage = "refused"], [req[r] EXCEPT !.stage = "resolve"]} : Go(r, row)
    BY DEF Submit
  <1>4. row \in ReqRow /\ row.stage \in {"refused", "resolve"} /\ row.browser = req[r].browser /\ row.cookie = req[r].cookie
    BY <1>1, <1>3 DEF ReqRow, Stages
  <1>5. a \in Addresses
    BY <1>2, VisitorsAssumption DEF IInv, Sent
  <1>6. TypeOK' /\ req'[r] = row
    <2>1. req' \in [Requests -> ReqRow] /\ req'[r] = row
      BY <1>3, <1>4 DEF IInv, TypeOK, Go, ReqRow, Stages
    <2>2. Counter(a) \in [count : Nat, resetAt : Nat]
      <3>1. now \in Nat /\ Window \in Nat
        BY VisitorsAssumption DEF IInv, TypeOK, Ticks
      <3>2. rate[a] \in [count : Nat, resetAt : Nat] \cup {None}
        BY <1>5 DEF IInv, TypeOK
      <3>3. QED
        BY <3>1, <3>2 DEF Counter
    <2>3. rate' \in [Addresses -> [count : Nat, resetAt : Nat] \cup {None}]
      BY <1>2, <1>5, <2>2 DEF IInv, TypeOK
    <2>4. accepted' \in [Addresses -> Seq(Passed)]
      <3>1. accepted' = accepted \/ accepted' = [accepted EXCEPT ![a] = Append(@, [at |-> now, counter |-> rate'[a]])]
        BY DEF Submit
      <3>2. now \in Ticks /\ accepted \in [Addresses -> Seq(Passed)]
        BY DEF IInv, TypeOK, Passed
      <3>3. rate'[a] \in [count : Nat, resetAt : Nat]
        BY <1>2, <1>5, <2>2 DEF IInv, TypeOK
      <3>4. [at |-> now, counter |-> rate'[a]] \in Passed
        BY <3>2, <3>3 DEF Passed
      <3>5. Append(accepted[a], [at |-> now, counter |-> rate'[a]]) \in Seq(Passed)
        BY <1>5, <3>2, <3>4
      <3>6. QED
        BY <1>5, <3>1, <3>2, <3>5
    <2>5. QED
      BY <1>2, <2>1, <2>3, <2>4 DEF IInv, TypeOK, ReqRow, Stages, Passed
  <1>7. Sent(r)' /\ Resolved(r)'
    BY <1>1, <1>2, <1>4, <1>6 DEF IInv, Sent, Resolved, Issued, ReqRow
  <1>8. \A b \in Browsers : r \in Waiting(b)' => r \in Waiting(b)
    BY <1>1, <1>2, <1>4, <1>6 DEF Waiting, ReqRow
  <1>9. QED
    BY <1>2, <1>3, <1>4, <1>6, <1>7, <1>8, JarsKept, RowStep

\* What a request looks up is the session of its own cookie.
LEMMA LookUpKeepsIInv ==
    ASSUME IInv, NEW r \in Requests, LookUp(r)
    PROVE  IInv'
  <1> DEFINE t == req[r].cookie
             keep == /\ t # None /\ ~sessions[t].revoked /\ sessions[t].expires > now
                     /\ sessions[t].created >= now - RotateAge
             row == [req[r] EXCEPT !.stage = IF keep THEN "keep" ELSE "rotate", !.session = t, !.at = now]
  <1>1. req[r] \in ReqRow /\ now \in Ticks
    BY DEF IInv, TypeOK, ReqRow, Stages
  <1>2. Go(r, row) /\ req[r].stage = "resolve" /\ UNCHANGED <<now, rate, sessions, jar, blank, accepted>>
    BY DEF LookUp
  <1>3. keep => t # None
    OBVIOUS
  <1> HIDE DEF keep
  <1>4. /\ row \in ReqRow /\ row.stage \in {"keep", "rotate"} /\ row.browser = req[r].browser
        /\ row.cookie = t /\ row.session = t /\ (row.stage = "keep" => t # None)
    BY <1>1, <1>3 DEF ReqRow, Stages
  <1> HIDE DEF row
  <1>5. TypeOK' /\ req'[r] = row
    BY <1>2, <1>4 DEF IInv, TypeOK, Go, ReqRow, Stages
  <1>6. Sent(r)' /\ Resolved(r)'
    BY <1>1, <1>2, <1>4, <1>5 DEF IInv, Sent, Resolved, Issued, ReqRow
  <1>7. \A b \in Browsers : r \in Waiting(b)' => r \in Waiting(b)
    BY <1>1, <1>2, <1>4, <1>5 DEF Waiting, ReqRow
  <1>8. QED
    BY <1>2, <1>4, <1>5, <1>6, <1>7, JarsKept, RowStep

\* A kept session answers for itself.
LEMMA KeepKeepsIInv ==
    ASSUME IInv, NEW r \in Requests, Keep(r)
    PROVE  IInv'
  <1> DEFINE row == [req[r] EXCEPT !.stage = "answered"]
  <1>1. req[r] \in ReqRow
    BY DEF IInv, TypeOK, ReqRow, Stages
  <1>2. Go(r, row) /\ req[r].stage = "keep" /\ UNCHANGED <<now, rate, sessions, jar, blank, accepted>>
    BY DEF Keep
  <1>3. /\ row \in ReqRow /\ row.stage = "answered" /\ row.browser = req[r].browser
        /\ row.cookie = req[r].cookie /\ row.session = req[r].session
    BY <1>1 DEF ReqRow, Stages
  <1> HIDE DEF row
  <1>4. TypeOK' /\ req'[r] = row
    BY <1>2, <1>3 DEF IInv, TypeOK, Go, ReqRow, Stages
  <1>5. /\ req[r].session = req[r].cookie /\ req[r].cookie # None
        /\ Issued(req[r].cookie) /\ sessions[req[r].cookie].browser = req[r].browser /\ req[r].browser \in Browsers
    BY <1>2 DEF IInv, Sent, Resolved
  <1>6. Sent(r)' /\ Resolved(r)'
    BY <1>2, <1>3, <1>4, <1>5 DEF Sent, Resolved, Issued, Identity
  <1>7. \A b \in Browsers : r \in Waiting(b)' => r \in Waiting(b)
    BY <1>3, <1>4 DEF Waiting
  <1>8. QED
    BY <1>2, <1>3, <1>4, <1>6, <1>7, JarsKept, RowStep

\* A request ends, its answer with a cookie of the browser's own, or without.
LEMMA EndKeepsIInv ==
    ASSUME IInv, NEW r \in Requests, Deliver(r) \/ End(r)
    PROVE  IInv'
  <1>1. Go(r, Idle) /\ UNCHANGED <<now, rate, sessions, blank, accepted>>
    BY DEF Deliver, End
  <1>2. Idle \in ReqRow
    BY VisitorsAssumption DEF Idle, ReqRow, Stages, Ticks
  <1>3. req[r] \in ReqRow
    BY DEF IInv, TypeOK, ReqRow, Stages
  <1>4. \/ jar' = jar
        \/ /\ req[r].stage = "answered"
           /\ jar' = [jar EXCEPT ![req[r].browser] = [token |-> req[r].session, until |-> now + Lifetime]]
    BY DEF Deliver, End
  <1>5. jar' \in [Browsers -> [token : Tokens, until : Nat] \cup {None}] /\ \A b \in Browsers : HasJar(b)'
    <2>1. CASE jar' = jar
      BY <1>1, <2>1, JarsKept DEF IInv, TypeOK
    <2>2. CASE /\ req[r].stage = "answered"
               /\ jar' = [jar EXCEPT ![req[r].browser] = [token |-> req[r].session, until |-> now + Lifetime]]
      <3>1. /\ req[r].browser \in Browsers /\ req[r].session # None /\ Issued(req[r].session)
            /\ sessions[req[r].session].browser = req[r].browser
        BY <2>2 DEF IInv, Sent, Resolved
      <3>2. req[r].session \in Tokens /\ now + Lifetime \in Nat
        BY <1>3, <3>1, VisitorsAssumption DEF ReqRow, IInv, TypeOK, Ticks
      <3>3. jar' \in [Browsers -> [token : Tokens, until : Nat] \cup {None}]
        BY <2>2, <3>2 DEF IInv, TypeOK
      <3>4. \A b \in Browsers : HasJar(b)'
        BY <1>1, <2>2, <3>1 DEF IInv, TypeOK, HasJar, Issued
      <3>5. QED
        BY <3>3, <3>4
    <2>3. QED
      BY <1>4, <2>1, <2>2
  <1>6. TypeOK' /\ req'[r] = Idle
    BY <1>1, <1>2, <1>5 DEF IInv, TypeOK, Go, ReqRow, Stages
  <1>7. Sent(r)' /\ Resolved(r)'
    BY <1>6 DEF Idle, Sent, Resolved
  <1>8. \A b \in Browsers : r \in Waiting(b)' => r \in Waiting(b)
    BY <1>6 DEF Waiting, Idle
  <1>9. QED
    BY <1>1, <1>2, <1>5, <1>6, <1>7, <1>8, RowStep

\* The next token has not been issued.
LEMMA Fresh ==
    ASSUME InOrder, NEW new \in Tokens, new = Cardinality({t \in Tokens : Issued(t)}) + 1
    PROVE  ~Issued(new) /\ {t \in Tokens : Issued(t)} = 1 .. (new - 1)
  <1>1. PICK n \in 0 .. MaxTokens : {t \in Tokens : Issued(t)} = 1 .. n
    BY DEF InOrder
  <1>2. n \in Nat
    BY <1>1, VisitorsAssumption
  <1>3. Cardinality(1 .. n) = n
    BY <1>2, FS_Interval
  <1>4. new = n + 1
    BY <1>1, <1>3
  <1>5. new \notin 1 .. n /\ n = new - 1
    BY <1>2, <1>4
  <1>6. QED
    BY <1>1, <1>5

\* A rotation makes one session: of the old one's identity, or of a new one
\* that the request without a cookie has paid for.
LEMMA RotateKeepsIInv ==
    ASSUME IInv, NEW r \in Requests, Rotate(r)
    PROVE  IInv'
  <1>0. PICK new \in Tokens : new = Cardinality({t \in Tokens : Issued(t)}) + 1
    BY DEF Rotate
  <1> DEFINE old == req[r].session
             identity == IF old # None THEN Identity(old) ELSE new
             made == [identity |-> identity, browser |-> req[r].browser, created |-> now,
                      expires |-> req[r].at + Lifetime, revoked |-> FALSE]
             row == [req[r] EXCEPT !.stage = "answered", !.session = new]
  <1>1. /\ req[r].stage = "rotate" /\ Go(r, row) /\ UNCHANGED <<now, rate, jar, blank, accepted>>
        /\ sessions' = [t \in Tokens |-> IF t = new THEN made
                                       ELSE IF t = old THEN [sessions[t] EXCEPT !.revoked = TRUE] ELSE sessions[t]]
    BY <1>0 DEF Rotate
  <1>2. req[r] \in ReqRow
    BY DEF IInv, TypeOK, ReqRow, Stages
  <1>3. ~Issued(new) /\ {t \in Tokens : Issued(t)} = 1 .. (new - 1)
    BY <1>0, Fresh DEF IInv
  <1>4. /\ old = req[r].cookie /\ req[r].browser \in Browsers
        /\ old # None => Issued(old) /\ sessions[old].browser = req[r].browser
    BY <1>1 DEF IInv, Sent, Resolved
  <1>5. old \in Tokens \cup {None} /\ req[r].at \in Ticks
    BY <1>2 DEF ReqRow
  <1>6. identity \in Tokens
    BY <1>1, <1>4, <1>5 DEF Identity, Issued, IInv, TypeOK, Session
  <1> HIDE DEF identity
  <1>7. made \in Session /\ made # None
    <2>1. now \in Ticks /\ req[r].at + Lifetime \in Nat
      BY <1>5, VisitorsAssumption DEF IInv, TypeOK, Ticks
    <2>2. made \in Session
      BY <1>4, <1>6, <2>1 DEF Session
    <2>3. QED
      BY <2>2, VisitorsAssumption
  <1>8. /\ row \in ReqRow /\ row.stage = "answered" /\ row.browser = req[r].browser
        /\ row.cookie = old /\ row.session = new
    BY <1>1, <1>2, <1>4 DEF ReqRow, Stages
  <1>9. made.identity = identity /\ made.browser = req[r].browser
    OBVIOUS
  <1> HIDE DEF row, made
  <1>10. \A t \in Tokens : sessions[t] # None => sessions[t] \in Session
    BY DEF IInv, TypeOK
  <1>11. /\ sessions'[new] = made
         /\ \A t \in Tokens \ {new} :
              /\ sessions[t] = None => sessions'[t] = None
              /\ sessions[t] # None => /\ sessions'[t] \in Session
                                      /\ sessions'[t].identity = sessions[t].identity
                                      /\ sessions'[t].browser = sessions[t].browser
    <2>1. sessions'[new] = made
      BY <1>1
    <2>2. ASSUME NEW t \in Tokens \ {new}, sessions[t] = None PROVE sessions'[t] = None
      BY <1>1, <1>4, <2>2, VisitorsAssumption DEF Issued
    <2>3. ASSUME NEW t \in Tokens \ {new}, sessions[t] # None
          PROVE  /\ sessions'[t] \in Session /\ sessions'[t].identity = sessions[t].identity
                 /\ sessions'[t].browser = sessions[t].browser
      <3>1. sessions[t] \in Session
        BY <1>10, <2>3
      <3>2. sessions'[t] = IF t = old THEN [sessions[t] EXCEPT !.revoked = TRUE] ELSE sessions[t]
        BY <1>1
      <3>3. QED
        BY <3>1, <3>2 DEF Session
    <2>4. QED
      BY <2>1, <2>2, <2>3
  <1>12. Lasting
    <2>1. ASSUME NEW t \in Tokens, Issued(t)
          PROVE Issued(t)' /\ Identity(t)' = Identity(t) /\ sessions'[t].browser = sessions[t].browser
      <3>1. t # new
        BY <1>3, <2>1
      <3>2. sessions'[t] # None
        BY <1>11, <2>1, <3>1, VisitorsAssumption DEF Issued
      <3>3. QED
        BY <1>11, <2>1, <3>1, <3>2 DEF Issued, Identity
    <2>2. QED
      BY <2>1 DEF Lasting
  <1>13. Issued(new)' /\ Identity(new)' = identity /\ sessions'[new].browser = req[r].browser
    BY <1>7, <1>9, <1>11 DEF Issued, Identity
  <1>14. \A t \in Tokens : Issued(t)' <=> t = new \/ Issued(t)
    BY <1>11, <1>12, <1>13 DEF Issued, Lasting
  <1>15. req' \in [Requests -> ReqRow] /\ req'[r] = row /\ \A p \in Requests \ {r} : req'[p] = req[p]
    BY <1>1, <1>8 DEF Go, IInv, TypeOK, ReqRow, Stages
  <1>16. TypeOK'
    <2>1. \A t \in Tokens : sessions'[t] \in Session \cup {None}
      BY <1>7, <1>10, <1>11
    <2>2. sessions' \in [Tokens -> Session \cup {None}]
      BY <1>1, <2>1
    <2>3. QED
      BY <1>1, <1>15, <2>2 DEF IInv, TypeOK, ReqRow, Stages
  <1>17. InOrder'
    <2>1. {t \in Tokens : Issued(t)'} = 1 .. new
      <3>1. new \in 1 .. MaxTokens
        BY DEF Tokens
      <3>2. {t \in Tokens : Issued(t)'} = (1 .. (new - 1)) \cup {new}
        BY <1>3, <1>14
      <3>3. (1 .. (new - 1)) \cup {new} = 1 .. new
        BY <3>1, VisitorsAssumption
      <3>4. QED
        BY <3>2, <3>3
    <2>2. new \in 0 .. MaxTokens
      BY VisitorsAssumption DEF Tokens
    <2>3. QED
      BY <2>1, <2>2 DEF InOrder, Issued
  <1>18. Owned'
    <2> DEFINE i(t) == sessions'[t].identity
    <2>1. ASSUME NEW t \in Tokens, sessions'[t] # None
          PROVE  sessions'[i(t)] # None /\ sessions'[i(t)].browser = sessions'[t].browser
      <3>1. CASE t = new /\ old = None
        <4>1. identity = new
          BY <3>1 DEF identity
        <4>2. QED
          BY <1>13, <2>1, <3>1, <4>1 DEF Identity
      <3>2. CASE t = new /\ old # None
        <4>1. old \in Tokens /\ identity = Identity(old) /\ Issued(old)
          BY <1>4, <1>5, <3>2 DEF identity
        <4>2. Issued(identity) /\ sessions[identity].browser = req[r].browser
          BY <1>4, <3>2, <4>1 DEF IInv, Owned
        <4>3. sessions'[identity] # None /\ sessions'[identity].browser = req[r].browser
          BY <1>6, <1>12, <4>2 DEF Lasting, Issued
        <4>4. QED
          BY <1>13, <3>2, <4>3 DEF Identity
      <3>3. CASE t # new
        <4>1. Issued(t)
          BY <1>14, <2>1, <3>3 DEF Issued
        <4>2. Issued(Identity(t)) /\ sessions[Identity(t)].browser = sessions[t].browser /\ Identity(t) \in Tokens
          BY <1>10, <4>1 DEF IInv, Owned, Issued, Identity, Session
        <4>3. i(t) = Identity(t) /\ sessions'[t].browser = sessions[t].browser
          BY <1>12, <4>1 DEF Lasting, Identity
        <4>4. sessions'[Identity(t)] # None /\ sessions'[Identity(t)].browser = sessions[Identity(t)].browser
          BY <1>12, <4>2 DEF Lasting, Issued
        <4>5. QED
          BY <4>2, <4>3, <4>4
      <3>4. QED
        BY <3>1, <3>2, <3>3
    <2>2. QED
      BY <2>1 DEF Owned, Issued, Identity
  <1>19. ASSUME NEW b \in Browsers PROVE HasJar(b)'
    <2>1. jar' = jar /\ (jar[b] # None => jar[b].token \in Tokens)
      BY <1>1 DEF IInv, TypeOK
    <2>2. jar[b] # None => sessions'[jar[b].token] # None /\ sessions'[jar[b].token].browser = b
      BY <1>12, <2>1 DEF IInv, HasJar, Lasting, Issued
    <2>3. QED
      BY <2>1, <2>2 DEF HasJar, Issued
  <1>20. ASSUME NEW p \in Requests PROVE Sent(p)' /\ Resolved(p)'
    <2>1. CASE p # r
      BY <1>12, <1>15, <2>1, RequestKept DEF IInv
    <2>2. CASE p = r
      <3>1. old # None => /\ sessions'[old] # None /\ sessions'[old].browser = req[r].browser
                          /\ sessions'[old].identity = Identity(old) /\ identity = Identity(old)
        BY <1>4, <1>5, <1>12 DEF Lasting, Issued, Identity, identity
      <3>2. sessions'[new] # None /\ sessions'[new].identity = identity /\ sessions'[new].browser = req[r].browser
        BY <1>13 DEF Issued, Identity
      <3>3. new # None
        BY VisitorsAssumption
      <3>4. QED
        BY <1>4, <1>8, <1>15, <2>2, <3>1, <3>2, <3>3 DEF Sent, Resolved, Issued, Identity
    <2>3. QED
      BY <2>1, <2>2
  <1>21. ASSUME NEW b \in Browsers PROVE Paid(b)'
    <2>1. Waiting(b)' \subseteq Waiting(b) \ {r}
      <3>1. r \notin Waiting(b)'
        BY <1>8, <1>15 DEF Waiting
      <3>2. \A p \in Waiting(b)' : p \in Requests /\ p \in Waiting(b)
        BY <1>15, <3>1 DEF Waiting
      <3>3. QED
        BY <3>1, <3>2
    <2>2. blank'[b] = blank[b] /\ blank[b] \in Nat
      BY <1>1 DEF IInv, TypeOK
    <2>3. ASSUME NEW g \in Guests(b)'
          PROVE  g \in Guests(b) \/ (old = None /\ b = req[r].browser /\ g = new)
      <3>1. PICK t \in Tokens : Issued(t)' /\ sessions'[t].browser = b /\ g = Identity(t)'
        BY <2>3 DEF Guests, Identity, Issued
      <3>2. CASE t # new
        BY <1>12, <1>14, <3>1, <3>2 DEF Guests, Lasting
      <3>3. CASE t = new /\ old # None
        <4>1. old \in Tokens /\ Issued(old) /\ sessions[old].browser = b /\ g = Identity(old)
          BY <1>4, <1>5, <1>13, <3>1, <3>3 DEF identity
        <4>2. QED
          BY <4>1 DEF Guests
      <3>4. CASE t = new /\ old = None
        BY <1>13, <3>1, <3>4 DEF identity
      <3>5. QED
        BY <3>2, <3>3, <3>4
    <2>4. CASE old = None /\ b = req[r].browser
      <3>1. r \in Waiting(b)
        BY <1>1, <1>4, <2>4 DEF Waiting
      <3>2. Guests(b)' \subseteq Guests(b) \cup {new}
        BY <2>3
      <3>3. IsFiniteSet(Guests(b)) /\ IsFiniteSet(Waiting(b))
        BY Countable DEF IInv
      <3>4. /\ IsFiniteSet(Guests(b) \cup {new}) /\ Cardinality(Guests(b) \cup {new}) <= Cardinality(Guests(b)) + 1
            /\ IsFiniteSet(Waiting(b) \ {r}) /\ Cardinality(Waiting(b) \ {r}) = Cardinality(Waiting(b)) - 1
        <4>1. Cardinality(Guests(b)) \in Nat
          BY <3>3, FS_CardinalityType
        <4>2. /\ IsFiniteSet(Guests(b) \cup {new})
              /\ Cardinality(Guests(b) \cup {new}) = IF new \in Guests(b) THEN Cardinality(Guests(b))
                                                     ELSE Cardinality(Guests(b)) + 1
          BY <3>3, FS_AddElement
        <4>3. IsFiniteSet(Waiting(b) \ {r}) /\ Cardinality(Waiting(b) \ {r}) = Cardinality(Waiting(b)) - 1
          BY <3>1, <3>3, FS_RemoveElement
        <4>4. QED
          BY <4>1, <4>2, <4>3
      <3>5. /\ Cardinality(Guests(b)') <= Cardinality(Guests(b) \cup {new}) /\ IsFiniteSet(Guests(b)')
            /\ Cardinality(Waiting(b)') <= Cardinality(Waiting(b) \ {r}) /\ IsFiniteSet(Waiting(b)')
        BY <2>1, <3>2, <3>4, FS_Subset
      <3>6. /\ Cardinality(Guests(b)) \in Nat /\ Cardinality(Waiting(b)) \in Nat
            /\ Cardinality(Guests(b)') \in Nat /\ Cardinality(Waiting(b)') \in Nat
            /\ Cardinality(Guests(b) \cup {new}) \in Nat /\ Cardinality(Waiting(b) \ {r}) \in Nat
        BY <3>3, <3>4, <3>5, FS_CardinalityType
      <3>7. Cardinality(Guests(b)) + Cardinality(Waiting(b)) <= blank[b]
        BY DEF IInv, Paid
      <3>8. Cardinality(Guests(b)') + Cardinality(Waiting(b)') <= blank'[b]
        BY <2>2, <3>4, <3>5, <3>6, <3>7
      <3>9. QED
        BY <3>8 DEF Paid
    <2>5. CASE ~(old = None /\ b = req[r].browser)
      <3>1. Guests(b)' \subseteq Guests(b)
        BY <2>3, <2>5
      <3>2. Paid(b) /\ TypeOK
        BY DEF IInv
      <3>3. Waiting(b)' \subseteq Waiting(b) /\ blank'[b] >= blank[b]
        BY <2>1, <2>2
      <3>4. QED
        BY <1>16, <3>1, <3>2, <3>3, PaidMore
    <2>6. QED
      BY <2>4, <2>5
  <1>22. QED
    BY <1>16, <1>17, <1>18, <1>19, <1>20, <1>21 DEF IInv

\* Time passes and nobody notices.
LEMMA TickKeepsIInv ==
    ASSUME IInv, Tick
    PROVE  IInv'
  <1>1. UNCHANGED <<rate, sessions, jar, req, blank, accepted>> /\ now' \in Ticks
    BY VisitorsAssumption DEF Tick, IInv, TypeOK, Ticks
  <1>2. TypeOK' /\ InOrder' /\ Owned'
    BY <1>1 DEF IInv, TypeOK, InOrder, Owned, Issued, Identity
  <1>3. \A b \in Browsers : HasJar(b)' /\ Paid(b)'
    BY <1>1 DEF IInv, HasJar, Paid, Guests, Waiting, Issued, Identity
  <1>4. \A r \in Requests : Sent(r)' /\ Resolved(r)'
    BY <1>1 DEF IInv, Sent, Resolved, Issued, Identity
  <1>5. QED
    BY <1>2, <1>3, <1>4 DEF IInv

\* A restart drops requests; what they paid for stays paid.
LEMMA RestartKeepsIInv ==
    ASSUME IInv, Restart
    PROVE  IInv'
  <1>1. /\ rate' = [a \in Addresses |-> None] /\ accepted' = NoneAccepted /\ UNCHANGED <<now, sessions, jar, blank>>
        /\ req' = [r \in Requests |-> IF req[r].stage = "answered" THEN req[r] ELSE Idle]
    BY DEF Restart
  <1>2. Idle \in ReqRow /\ Idle.stage = "idle"
    BY VisitorsAssumption DEF Idle, ReqRow, Stages, Ticks
  <1>3. TypeOK'
    <2>1. req' \in [Requests -> ReqRow]
      BY <1>1, <1>2 DEF IInv, TypeOK, ReqRow, Stages
    <2>2. rate' \in [Addresses -> [count : Nat, resetAt : Nat] \cup {None}] /\ accepted' \in [Addresses -> Seq(Passed)]
      BY <1>1 DEF NoneAccepted
    <2>3. QED
      BY <1>1, <2>1, <2>2 DEF IInv, TypeOK, ReqRow, Stages, Passed
  <1>4. InOrder' /\ Owned' /\ Lasting
    BY <1>1 DEF IInv, InOrder, Owned, Issued, Identity, Lasting
  <1>5. \A b \in Browsers : HasJar(b)'
    BY <1>1, JarsKept
  <1>6. ASSUME NEW r \in Requests PROVE Sent(r)' /\ Resolved(r)'
    <2>1. CASE req[r].stage = "answered"
      BY <1>1, <1>4, <2>1, RequestKept DEF IInv
    <2>2. CASE req[r].stage # "answered"
      BY <1>1, <1>2, <2>2 DEF Sent, Resolved
    <2>3. QED
      BY <2>1, <2>2
  <1>7. ASSUME NEW b \in Browsers PROVE Paid(b)'
    <2>1. Guests(b)' \subseteq Guests(b)
      BY <1>1 DEF Guests, Identity, Issued
    <2>2. Waiting(b)' \subseteq Waiting(b)
      BY <1>1, <1>2 DEF Waiting
    <2>3. blank'[b] >= blank[b]
      BY <1>1 DEF IInv, TypeOK
    <2>4. QED
      BY <1>3, <2>1, <2>2, <2>3, PaidMore DEF IInv
  <1>8. QED
    BY <1>3, <1>4, <1>5, <1>6, <1>7 DEF IInv

\* At the start nobody is known.
LEMMA InitIInv == Init => IInv
  <1> SUFFICES ASSUME Init PROVE IInv
    OBVIOUS
  <1>1. Idle \in ReqRow /\ Idle.stage = "idle" /\ 0 \in Ticks
    BY VisitorsAssumption DEF Idle, ReqRow, Stages, Ticks
  <1>2. TypeOK
    <2>1. req \in [Requests -> ReqRow]
      BY <1>1 DEF Init
    <2>2. accepted \in [Addresses -> Seq(Passed)]
      BY DEF Init, NoneAccepted
    <2>3. QED
      BY <1>1, <2>1, <2>2 DEF Init, TypeOK, ReqRow, Stages, Passed
  <1>3. \A t \in Tokens : ~Issued(t)
    BY DEF Init, Issued
  <1>4. InOrder
    <2>1. {t \in Tokens : Issued(t)} = {} /\ 1 .. 0 = {}
      BY <1>3
    <2>2. 0 \in 0 .. MaxTokens
      BY VisitorsAssumption
    <2>3. QED
      BY <2>1, <2>2 DEF InOrder
  <1>5. Owned
    BY <1>3 DEF Owned
  <1>6. ASSUME NEW b \in Browsers PROVE HasJar(b) /\ Paid(b)
    <2>1. HasJar(b)
      BY DEF Init, HasJar
    <2>2. Guests(b) = {}
      BY <1>3 DEF Guests
    <2>3. Waiting(b) = {}
      BY <1>1 DEF Waiting, Init
    <2>4. blank[b] = 0 /\ Cardinality({}) = 0
      BY FS_EmptySet DEF Init
    <2>5. QED
      BY <2>1, <2>2, <2>3, <2>4 DEF Paid
  <1>7. \A r \in Requests : Sent(r) /\ Resolved(r)
    BY <1>1 DEF Init, Sent, Resolved
  <1>8. QED
    BY <1>2, <1>4, <1>5, <1>6, <1>7 DEF IInv

\* Every step keeps the invariant.
LEMMA NextKeepsIInv == IInv /\ [Next]_vars => IInv'
  <1> SUFFICES ASSUME IInv, [Next]_vars PROVE IInv'
    OBVIOUS
  <1>1. ASSUME NEW r \in Requests, Handle(r) PROVE IInv'
    <2>1. CASE \E b \in Browsers, post \in BOOLEAN : Send(r, b, post)
      BY <2>1, SendKeepsIInv
    <2>2. CASE Pass(r)
      BY <2>2, PassKeepsIInv
    <2>3. CASE Submit(r)
      BY <2>3, SubmitKeepsIInv
    <2>4. CASE LookUp(r)
      BY <2>4, LookUpKeepsIInv
    <2>5. CASE Keep(r)
      BY <2>5, KeepKeepsIInv
    <2>6. CASE Rotate(r)
      BY <2>6, RotateKeepsIInv
    <2>7. CASE Deliver(r) \/ End(r)
      BY <2>7, EndKeepsIInv
    <2>8. QED
      BY <1>1, <2>1, <2>2, <2>3, <2>4, <2>5, <2>6, <2>7 DEF Handle
  <1>2. CASE Tick
    BY <1>2, TickKeepsIInv
  <1>3. CASE Restart
    BY <1>3, RestartKeepsIInv
  <1>4. CASE UNCHANGED vars
    <2>1. UNCHANGED <<now, rate, sessions, jar, req, blank, accepted>>
      BY <1>4 DEF vars
    <2>2. TypeOK' /\ InOrder' /\ Owned'
      BY <2>1 DEF IInv, TypeOK, InOrder, Owned, Issued, Identity
    <2>3. \A b \in Browsers : HasJar(b)' /\ Paid(b)'
      BY <2>1 DEF IInv, HasJar, Paid, Guests, Waiting, Issued, Identity
    <2>4. \A r \in Requests : Sent(r)' /\ Resolved(r)'
      BY <2>1 DEF IInv, Sent, Resolved, Issued, Identity
    <2>5. QED
      BY <2>2, <2>3, <2>4 DEF IInv
  <1>5. QED
    BY <1>1, <1>2, <1>3, <1>4 DEF Next

\* The invariant holds in every state.
LEMMA SpecIInv == Spec => []IInv
  <1>1. QED
    BY InitIInv, NextKeepsIInv, PTL DEF Spec

\* Sessions, jars, requests and counters have the types the code gives them.
THEOREM TypeCorrect == Spec => []TypeOK
  <1>1. IInv => TypeOK
    BY DEF IInv
  <1>2. QED
    BY <1>1, SpecIInv, PTL

\* resolveVisitor answers a request with a cookie for the cookie's identity,
\* whichever rotations happened between the look-up and the transaction.
THEOREM SameVisitorHolds == Spec => []SameVisitor
  <1>1. IInv => SameVisitor
    BY DEF IInv, Resolved, SameVisitor
  <1>2. QED
    BY <1>1, SpecIInv, PTL

\* resolveVisitor makes a new identity only for a request without a cookie, and
\* a rotated session keeps its browser's identity: no browser becomes more
\* guests than it sent bare requests, and no two browsers become the same guest.
THEOREM GuestsCountedHolds == Spec => []GuestsCounted
  <1>1. ASSUME IInv PROVE GuestsCounted
    <2>1. ASSUME NEW b \in Browsers
          PROVE  /\ Cardinality(Guests(b)) <= blank[b]
                 /\ \A c \in Browsers \ {b} : Guests(b) \cap Guests(c) = {}
                 /\ jar[b] # None => Identity(jar[b].token) \in Guests(b)
      <3>1. Cardinality(Guests(b)) <= blank[b]
        <4>1. Cardinality(Guests(b)) \in Nat /\ Cardinality(Waiting(b)) \in Nat
          BY <1>1, Countable, FS_CardinalityType DEF IInv
        <4>2. blank[b] \in Nat /\ Cardinality(Guests(b)) + Cardinality(Waiting(b)) <= blank[b]
          BY <1>1 DEF IInv, TypeOK, Paid
        <4>3. QED
          BY <4>1, <4>2
      <3>2. \A c \in Browsers : \A g \in Guests(c) : sessions[g].browser = c
        BY <1>1 DEF IInv, Owned, Guests
      <3>3. jar[b] # None => Identity(jar[b].token) \in Guests(b)
        BY <1>1 DEF IInv, HasJar, TypeOK, Guests
      <3>4. QED
        BY <3>1, <3>2, <3>3
    <2>2. QED
      BY <2>1 DEF GuestsCounted, Guests
  <1>2. QED
    BY <1>1, SpecIInv, PTL

-----------------------------------------------------------------------------
(***************************************************************************)
(* The limiter.  The submissions that passed are ordered by the window and *)
(* count they passed as; windows do not overlap; and the counter of a      *)
(* window stands for submissions that passed in it.                        *)
(***************************************************************************)
Counters == [count : Nat, resetAt : Nat]

Earlier(c, d) == IF c.resetAt = d.resetAt THEN c.count < d.count ELSE c.resetAt + Window <= d.resetAt

InWindow(e, time) ==
    /\ e.at <= time
    /\ e.counter.count \in 1 .. Limit
    /\ e.counter.resetAt - Window <= e.at /\ e.at < e.counter.resetAt

\* Everything that passed did so before the counter got where it is.
Behind(a) ==
    \A i \in DOMAIN accepted[a] :
        rate[a] # None /\ (accepted[a][i].counter = rate[a] \/ Earlier(accepted[a][i].counter, rate[a]))

Ordered(a) ==
    \A i, j \in DOMAIN accepted[a] : i < j => Earlier(accepted[a][i].counter, accepted[a][j].counter)

\* The counter did not count what did not pass, up to the limit.
Earned(a) ==
    rate[a] # None =>
        /\ rate[a].count >= 1 /\ rate[a].resetAt <= now + Window
        /\ \A k \in 1 .. Limit : k <= rate[a].count =>
              \E i \in DOMAIN accepted[a] : accepted[a][i].counter = [count |-> k, resetAt |-> rate[a].resetAt]

Limited(a) ==
    /\ \A i \in DOMAIN accepted[a] : InWindow(accepted[a][i], now)
    /\ Behind(a) /\ Ordered(a) /\ Earned(a)

LimitInv == \A a \in Addresses : Limited(a)

\* The times and counters of an address are numbers.
LEMMA LogTypes ==
    ASSUME TypeOK, NEW a \in Addresses
    PROVE  /\ now \in Nat /\ Window \in Nat /\ Window > 0 /\ Limit \in Nat
           /\ accepted[a] \in Seq(Passed)
           /\ rate[a] \in Counters \cup {None} /\ None \notin Counters
           /\ \A i \in DOMAIN accepted[a] : /\ accepted[a][i] \in Passed
                                            /\ accepted[a][i].at \in Nat /\ accepted[a][i].counter \in Counters
                                            /\ accepted[a][i].counter.count \in Nat
                                            /\ accepted[a][i].counter.resetAt \in Nat
  <1>1. now \in Nat /\ Window \in Nat /\ Window > 0 /\ Limit \in Nat /\ Ticks \subseteq Nat /\ None \notin Counters
    BY VisitorsAssumption DEF TypeOK, Ticks, Counters
  <1>2. accepted[a] \in Seq(Passed) /\ rate[a] \in Counters \cup {None}
    BY DEF TypeOK, Passed, Counters
  <1>3. \A i \in DOMAIN accepted[a] : accepted[a][i] \in Passed
    BY <1>2
  <1>4. QED
    BY <1>1, <1>2, <1>3 DEF Passed, Counters

\* One more submission is counted, in the window that is open or in a new one
\* that begins after all others ended.
LEMMA CounterMoves ==
    ASSUME TypeOK, NEW a \in Addresses, Limited(a)
    PROVE  /\ Counter(a) \in Counters
           /\ Counter(a).count >= 1
           /\ now < Counter(a).resetAt /\ Counter(a).resetAt <= now + Window
           /\ \A i \in DOMAIN accepted[a] : Earlier(accepted[a][i].counter, Counter(a))
           /\ Counter(a).count = 1 \/ (rate[a] # None /\ Counter(a) = [rate[a] EXCEPT !.count = @ + 1])
  <1>1. CASE rate[a] = None \/ rate[a].resetAt <= now
    <2>1. Counter(a) = [count |-> 1, resetAt |-> now + Window]
      BY <1>1 DEF Counter
    <2>2. ASSUME NEW i \in DOMAIN accepted[a] PROVE Earlier(accepted[a][i].counter, Counter(a))
      <3>1. rate[a] # None /\ (accepted[a][i].counter = rate[a] \/ Earlier(accepted[a][i].counter, rate[a]))
        BY DEF Limited, Behind
      <3>2. /\ accepted[a][i].counter.resetAt \in Nat /\ rate[a].resetAt \in Nat
            /\ now \in Nat /\ Window \in Nat /\ Window > 0
        BY <3>1, LogTypes DEF Counters
      <3>3. accepted[a][i].counter.resetAt <= rate[a].resetAt
        BY <3>1, <3>2 DEF Earlier
      <3>4. accepted[a][i].counter.resetAt + Window <= now + Window /\ accepted[a][i].counter.resetAt # now + Window
        BY <1>1, <3>1, <3>2, <3>3
      <3>5. QED
        BY <2>1, <3>4 DEF Earlier
    <2>3. now \in Nat /\ Window \in Nat /\ Window > 0
      BY LogTypes
    <2>4. QED
      BY <2>1, <2>2, <2>3 DEF Counters
  <1>2. CASE rate[a] # None /\ ~(rate[a].resetAt <= now)
    <2>1. Counter(a) = [rate[a] EXCEPT !.count = @ + 1] /\ rate[a] \in Counters
      BY <1>2, LogTypes DEF Counter
    <2>2. Counter(a).resetAt = rate[a].resetAt /\ Counter(a).count = rate[a].count + 1 /\ Counter(a) \in Counters
      BY <2>1 DEF Counters
    <2>3. ASSUME NEW i \in DOMAIN accepted[a] PROVE Earlier(accepted[a][i].counter, Counter(a))
      <3>1. accepted[a][i].counter = rate[a] \/ Earlier(accepted[a][i].counter, rate[a])
        BY DEF Limited, Behind
      <3>2. accepted[a][i].counter \in Counters /\ accepted[a][i].counter.count \in Nat
            /\ accepted[a][i].counter.resetAt \in Nat
        BY LogTypes
      <3>3. rate[a].count \in Nat /\ rate[a].resetAt \in Nat
        BY <2>1 DEF Counters
      <3>4. QED
        BY <2>2, <3>1, <3>2, <3>3 DEF Earlier
    <2>4. rate[a].count >= 1 /\ rate[a].resetAt <= now + Window
      BY <1>2 DEF Limited, Earned
    <2>5. rate[a].count \in Nat /\ rate[a].resetAt \in Nat /\ now \in Nat
      BY <2>1, LogTypes DEF Counters
    <2>6. QED
      BY <1>2, <2>1, <2>2, <2>3, <2>4, <2>5
  <1>3. QED
    BY <1>1, <1>2

\* A submission that passes is logged last.
LEMMA PassingLimited ==
    ASSUME TypeOK, NEW a \in Addresses, Limited(a), now' = now, rate'[a] = Counter(a), Counter(a).count <= Limit,
           accepted'[a] = Append(accepted[a], [at |-> now, counter |-> Counter(a)])
    PROVE  Limited(a)'
  <1> DEFINE log == accepted[a]
  <1> DEFINE c == Counter(a)
  <1> DEFINE n == Len(log) + 1
  <1>1. log \in Seq(Passed) /\ DOMAIN log = 1 .. Len(log) /\ Len(log) \in Nat
    BY LogTypes
  <1>2. /\ DOMAIN accepted'[a] = 1 .. n /\ accepted'[a][n] = [at |-> now, counter |-> c]
        /\ \A i \in DOMAIN log : i \in DOMAIN accepted'[a] /\ accepted'[a][i] = log[i]
        /\ \A i \in DOMAIN accepted'[a] : i = n \/ i \in DOMAIN log
    BY <1>1
  <1>3. /\ c \in Counters /\ c.count \in Nat /\ c.resetAt \in Nat /\ c.count >= 1 /\ now < c.resetAt
        /\ c.resetAt <= now + Window
        /\ \A i \in DOMAIN log : Earlier(log[i].counter, c)
        /\ c.count = 1 \/ (rate[a] # None /\ c = [rate[a] EXCEPT !.count = @ + 1])
    BY CounterMoves DEF Counters
  <1> HIDE DEF log, c, n
  <1>4. rate'[a] = c /\ rate'[a] # None
    BY <1>3, LogTypes DEF c
  <1>5. \A i \in DOMAIN accepted'[a] : InWindow(accepted'[a][i], now')
    <2>1. InWindow([at |-> now, counter |-> c], now')
      BY <1>3, LogTypes DEF InWindow, c
    <2>2. \A i \in DOMAIN log : InWindow(log[i], now)
      BY DEF Limited, log
    <2>3. QED
      BY <1>2, <2>1, <2>2 DEF InWindow
  <1>6. Behind(a)'
    BY <1>2, <1>3, <1>4 DEF Behind, Earlier
  <1>7. Ordered(a)'
    <2> SUFFICES ASSUME NEW i \in DOMAIN accepted'[a], NEW j \in DOMAIN accepted'[a], i < j
                 PROVE  Earlier(accepted'[a][i].counter, accepted'[a][j].counter)
      BY DEF Ordered, Earlier
    <2>1. i \in DOMAIN log
      BY <1>1, <1>2 DEF n, log
    <2>2. CASE j = n
      BY <1>2, <1>3, <2>1, <2>2
    <2>3. CASE j \in DOMAIN log
      BY <1>2, <2>1, <2>3 DEF Limited, Ordered, log
    <2>4. QED
      BY <1>2, <2>2, <2>3
  <1>8. Earned(a)'
    <2> SUFFICES ASSUME NEW k \in 1 .. Limit, k <= c.count
                 PROVE  \E i \in DOMAIN accepted'[a] : accepted'[a][i].counter = [count |-> k, resetAt |-> c.resetAt]
      BY <1>3, <1>4 DEF Earned
    <2>1. CASE k = c.count
      <3>1. c = [count |-> k, resetAt |-> c.resetAt]
        BY <1>3, <2>1 DEF Counters
      <3>2. n \in DOMAIN accepted'[a]
        BY <1>1, <1>2 DEF n, log
      <3>3. QED
        BY <1>2, <3>1, <3>2
    <2>2. CASE k < c.count
      <3>1. rate[a] # None /\ c = [rate[a] EXCEPT !.count = @ + 1] /\ rate[a] \in Counters
        BY <1>3, <2>2, LogTypes
      <3>2. k <= rate[a].count /\ c.resetAt = rate[a].resetAt
        BY <2>2, <3>1 DEF Counters
      <3>3. PICK i \in DOMAIN log : log[i].counter = [count |-> k, resetAt |-> rate[a].resetAt]
        BY <3>1, <3>2 DEF Limited, Earned, log
      <3>4. QED
        BY <1>2, <3>2, <3>3
    <2>3. QED
      BY <1>3, <2>1, <2>2
  <1>9. QED
    BY <1>5, <1>6, <1>7, <1>8 DEF Limited, InWindow

\* A refused submission moves the counter beyond the limit.
LEMMA RefusalLimited ==
    ASSUME TypeOK, NEW a \in Addresses, Limited(a), now' = now, rate'[a] = Counter(a), Counter(a).count > Limit,
           accepted'[a] = accepted[a]
    PROVE  Limited(a)'
  <1> DEFINE c == Counter(a)
  <1>1. /\ c \in Counters /\ c.count \in Nat /\ c.resetAt \in Nat /\ c.count >= 1
        /\ c.resetAt <= now + Window
        /\ \A i \in DOMAIN accepted[a] : Earlier(accepted[a][i].counter, c)
        /\ c.count = 1 \/ (rate[a] # None /\ c = [rate[a] EXCEPT !.count = @ + 1])
    BY CounterMoves DEF Counters
  <1> HIDE DEF c
  <1>2. rate'[a] = c /\ rate'[a] # None /\ c.count > Limit
    BY <1>1, LogTypes DEF c
  <1>3. Behind(a)' /\ Ordered(a)' /\ \A i \in DOMAIN accepted'[a] : InWindow(accepted'[a][i], now')
    BY <1>1, <1>2 DEF Limited, Behind, Ordered, Earlier, InWindow
  <1>4. Earned(a)'
    <2> SUFFICES ASSUME NEW k \in 1 .. Limit
                 PROVE  \E i \in DOMAIN accepted[a] : accepted[a][i].counter = [count |-> k, resetAt |-> c.resetAt]
      BY <1>1, <1>2 DEF Earned
    <2>1. rate[a] # None /\ rate[a] \in Counters /\ c = [rate[a] EXCEPT !.count = @ + 1]
      BY <1>1, <1>2, LogTypes
    <2>2. k <= rate[a].count /\ c.resetAt = rate[a].resetAt
      BY <1>2, <2>1, LogTypes DEF Counters
    <2>3. QED
      BY <2>1, <2>2 DEF Limited, Earned
  <1>5. QED
    BY <1>3, <1>4 DEF Limited, InWindow

\* Time passes, or nothing happens to the limiter.
LEMMA WaitingLimited ==
    ASSUME TypeOK, TypeOK', NEW a \in Addresses, Limited(a), now <= now', UNCHANGED <<rate, accepted>>
    PROVE  Limited(a)'
  <1>1. now' \in Nat
    BY LogTypes, VisitorsAssumption DEF TypeOK, Ticks
  <1>2. Behind(a)' /\ Ordered(a)'
    BY DEF Limited, Behind, Ordered, Earlier
  <1>3. Earned(a)'
    BY <1>1, LogTypes DEF Limited, Earned, Counters
  <1>4. \A i \in DOMAIN accepted'[a] : InWindow(accepted'[a][i], now')
    <2>1. TAKE i \in DOMAIN accepted'[a]
    <2>2. i \in DOMAIN accepted[a] /\ accepted'[a][i] = accepted[a][i]
      OBVIOUS
    <2>3. InWindow(accepted[a][i], now) /\ accepted[a][i].at \in Nat /\ now \in Nat
      BY <2>2, LogTypes DEF Limited
    <2> DEFINE e == accepted[a][i]
    <2> HIDE DEF e
    <2>4. InWindow(e, now) => InWindow(e, now')
      BY <1>1, <2>3 DEF InWindow, e
    <2>5. QED
      BY <2>2, <2>3, <2>4 DEF e
  <1>5. QED
    BY <1>2, <1>3, <1>4 DEF Limited, InWindow

LEMMA NextKeepsLimitInv == IInv /\ IInv' /\ LimitInv /\ [Next]_vars => LimitInv'
  <1> SUFFICES ASSUME IInv, IInv', LimitInv, [Next]_vars PROVE LimitInv'
    OBVIOUS
  <1>1. TypeOK /\ TypeOK'
    BY DEF IInv
  <1>0. now \in Nat /\ Limit \in Nat
    BY <1>1, VisitorsAssumption DEF TypeOK, Ticks
  <1>2. CASE now' = now /\ UNCHANGED <<rate, accepted>>
    BY <1>0, <1>1, <1>2, WaitingLimited DEF LimitInv
  <1>3. ASSUME NEW r \in Requests, Submit(r) PROVE LimitInv'
    <2>1. PICK a \in Addresses : a = AddressOf[req[r].browser]
      BY <1>3, VisitorsAssumption DEF IInv, Sent, Submit
    <2>2. /\ now' = now /\ rate' = [rate EXCEPT ![a] = Counter(a)]
          /\ \/ rate'[a].count > Limit /\ accepted' = accepted
             \/ ~(rate'[a].count > Limit)
                /\ accepted' = [accepted EXCEPT ![a] = Append(@, [at |-> now, counter |-> rate'[a]])]
      BY <1>3, <2>1 DEF Submit
    <2>3. rate'[a] = Counter(a) /\ Limited(a) /\ Counter(a).count \in Nat /\ Limit \in Nat
      <3>1. Limited(a)
        BY <2>1 DEF LimitInv
      <3>2. Counter(a) \in Counters
        BY <1>1, <2>1, <3>1, CounterMoves
      <3>3. rate'[a] = Counter(a)
        BY <1>1, <2>1, <2>2 DEF TypeOK
      <3>4. QED
        BY <1>0, <3>1, <3>2, <3>3 DEF Counters
    <2>4. Limited(a)'
      <3>1. CASE rate'[a].count > Limit /\ accepted' = accepted
        <4>1. accepted'[a] = accepted[a] /\ Counter(a).count > Limit /\ now' = now
          BY <2>2, <2>3, <3>1
        <4>2. QED
          BY <1>1, <2>1, <2>3, <4>1, RefusalLimited
      <3>2. CASE ~(rate'[a].count > Limit)
                 /\ accepted' = [accepted EXCEPT ![a] = Append(@, [at |-> now, counter |-> rate'[a]])]
        <4>1. accepted'[a] = Append(accepted[a], [at |-> now, counter |-> Counter(a)]) /\ Counter(a).count <= Limit
          <5>1. accepted'[a] = Append(accepted[a], [at |-> now, counter |-> rate'[a]])
            BY <1>1, <2>1, <3>2 DEF TypeOK
          <5>2. Counter(a).count <= Limit
            <6>1. ~(Counter(a).count > Limit)
              BY <2>3, <3>2, Zenon
            <6>2. QED
              BY <1>0, <2>3, <6>1
          <5>3. QED
            BY <2>3, <5>1, <5>2, Zenon
        <4>2. now' = now
          BY <2>2
        <4>3. QED
          BY <1>1, <2>1, <2>3, <4>1, <4>2, PassingLimited
      <3>3. QED
        BY <2>2, <3>1, <3>2
    <2>5. ASSUME NEW b \in Addresses \ {a} PROVE Limited(b)'
      <3>1. rate'[b] = rate[b] /\ accepted'[b] = accepted[b]
        BY <1>1, <2>1, <2>2 DEF TypeOK
      <3>2. QED
        BY <2>2, <3>1 DEF LimitInv, Limited, Behind, Ordered, Earned, InWindow, Earlier
    <2>6. \A b \in Addresses : Limited(b)'
      BY <2>4, <2>5
    <2>7. QED
      BY <2>6 DEF LimitInv
  <1>4. ASSUME NEW r \in Requests, Handle(r) PROVE LimitInv'
    BY <1>2, <1>3, <1>4 DEF Handle, Send, Pass, LookUp, Keep, Rotate, Deliver, End
  <1>5. CASE Tick
    <2>1. now <= now' /\ UNCHANGED <<rate, accepted>>
      BY <1>0, <1>5 DEF Tick
    <2>2. QED
      BY <1>1, <2>1, WaitingLimited DEF LimitInv
  <1>6. CASE Restart
    <2>1. \A a \in Addresses : rate'[a] = None /\ accepted'[a] = <<>>
      BY <1>6 DEF Restart, NoneAccepted
    <2>2. QED
      BY <2>1 DEF LimitInv, Limited, Behind, Ordered, Earned
  <1>7. CASE UNCHANGED vars
    BY <1>2, <1>7 DEF vars
  <1>8. QED
    BY <1>4, <1>5, <1>6, <1>7 DEF Next

LEMMA SpecLimitInv == Spec => []LimitInv
  <1>1. Init => LimitInv
    <2> SUFFICES ASSUME Init, NEW a \in Addresses PROVE Limited(a)
      BY DEF LimitInv
    <2>1. rate[a] = None /\ accepted[a] = <<>>
      BY DEF Init, NoneAccepted
    <2>2. QED
      BY <2>1 DEF Limited, Behind, Ordered, Earned
  <1>2. QED
    BY <1>1, SpecIInv, NextKeepsLimitInv, PTL DEF Spec

\* Submissions that passed as different counts of one window are as many as
\* their counts.
LEMMA OneWindow ==
    ASSUME TypeOK, NEW a \in Addresses, Limited(a), NEW S \in SUBSET DOMAIN accepted[a],
           \A i, j \in S : accepted[a][i].counter.resetAt = accepted[a][j].counter.resetAt
    PROVE  IsFiniteSet(S) /\ Cardinality(S) <= Limit
  <1> DEFINE f == [i \in S |-> accepted[a][i].counter.count]
  <1>1. f \in [S -> 1 .. Limit]
    BY DEF Limited, InWindow
  <1>2. ASSUME NEW i \in S, NEW j \in S, f[i] = f[j] PROVE i = j
    <2>1. DOMAIN accepted[a] \subseteq Nat
      BY LogTypes
    <2>2. /\ ~(i < j /\ accepted[a][i].counter.count = accepted[a][j].counter.count)
          /\ ~(j < i /\ accepted[a][i].counter.count = accepted[a][j].counter.count)
      BY LogTypes DEF Limited, Ordered, Earlier
    <2>3. QED
      BY <1>2, <2>1, <2>2
  <1>3. f \in Injection(S, 1 .. Limit)
    BY <1>1, <1>2 DEF Injection, IsInjective
  <1>4. IsFiniteSet(1 .. Limit) /\ Cardinality(1 .. Limit) = Limit
    BY FS_Interval, LogTypes
  <1>5. QED
    BY <1>3, <1>4, FS_Injection

\* The limiter of src/http/public-router.ts: a span as long as a window meets two
\* windows at most, and each lets Limit submissions of an address pass.
THEOREM BurstBoundedHolds == Spec => []BurstBounded
  <1>1. ASSUME IInv, LimitInv, NEW a \in Addresses, NEW from \in Ticks
        PROVE  AcceptedIn(a, from, from + Window - 1) <= 2 * Limit
    <2> DEFINE log == accepted[a]
    <2> DEFINE Span == {i \in DOMAIN log : log[i].at \in from .. from + Window - 1}
    <2> DEFINE Old == {i \in Span : log[i].counter.resetAt <= from + Window}
    <2> DEFINE New == {i \in Span : ~(log[i].counter.resetAt <= from + Window)}
    <2>1. TypeOK /\ Limited(a) /\ from \in Nat /\ Window \in Nat /\ Limit \in Nat
      BY <1>1, LogTypes, VisitorsAssumption DEF IInv, LimitInv, Ticks
    <2>2. ASSUME NEW i \in Span, NEW j \in Span,
                 log[i].counter.resetAt <= from + Window <=> log[j].counter.resetAt <= from + Window
          PROVE  log[i].counter.resetAt = log[j].counter.resetAt
      <3>1. /\ log[i].at \in Nat /\ log[j].at \in Nat
            /\ log[i].counter.resetAt \in Nat /\ log[j].counter.resetAt \in Nat /\ i \in Nat /\ j \in Nat
            /\ from <= log[i].at /\ log[i].at <= from + Window - 1
            /\ from <= log[j].at /\ log[j].at <= from + Window - 1
        BY <2>1, LogTypes
      <3>2. /\ log[i].counter.resetAt - Window <= log[i].at /\ log[i].at < log[i].counter.resetAt
            /\ log[j].counter.resetAt - Window <= log[j].at /\ log[j].at < log[j].counter.resetAt
        BY <2>1 DEF Limited, InWindow
      <3>3. \/ log[i].counter.resetAt = log[j].counter.resetAt
            \/ log[i].counter.resetAt + Window <= log[j].counter.resetAt
            \/ log[j].counter.resetAt + Window <= log[i].counter.resetAt
        BY <2>1, <3>1 DEF Limited, Ordered, Earlier
      <3> HIDE DEF log, Span
      <3>4. QED
        BY <2>1, <2>2, <3>1, <3>2, <3>3
    <2>3. IsFiniteSet(Old) /\ Cardinality(Old) <= Limit
      BY <2>1, <2>2, OneWindow
    <2>4. IsFiniteSet(New) /\ Cardinality(New) <= Limit
      BY <2>1, <2>2, OneWindow
    <2>5. Old \cup New = Span /\ Old \cap New = {}
      OBVIOUS
    <2> HIDE DEF Old, New, Span
    <2>6. Cardinality(Span) = Cardinality(Old) + Cardinality(New)
          /\ Cardinality(Old) \in Nat /\ Cardinality(New) \in Nat
      <3>1. Cardinality(Old) \in Nat /\ Cardinality(New) \in Nat /\ Cardinality({}) = 0
        BY <2>3, <2>4, FS_EmptySet, FS_CardinalityType
      <3>2. Cardinality(Old \cup New) = Cardinality(Old) + Cardinality(New) - Cardinality(Old \cap New)
        BY <2>3, <2>4, FS_Union
      <3>3. Cardinality(Old \cup New) = Cardinality(Span) /\ Cardinality(Old \cap New) = 0
        BY <2>5, <3>1, Zenon
      <3>4. QED
        BY <3>1, <3>2, <3>3
    <2>7. Cardinality(Span) <= 2 * Limit
      BY <2>1, <2>3, <2>4, <2>6
    <2>8. QED
      BY <2>7 DEF AcceptedIn, Span
  <1>2. IInv /\ LimitInv => BurstBounded
    BY <1>1 DEF BurstBounded
  <1>3. QED
    BY <1>2, SpecIInv, SpecLimitInv, PTL

\* The limiter of src/http/public-router.ts refuses a submission only when Limit
\* of its address passed in the window that is still open.
THEOREM RefusedForCauseHolds == Spec => RefusedForCause
  <1>1. ASSUME IInv, LimitInv, Next, NEW r \in Requests, req[r].stage = "sent", req'[r].stage = "refused"
        PROVE  AcceptedIn(AddressOf[req[r].browser], now - Window + 1, now) >= Limit
    <2> DEFINE a == AddressOf[req[r].browser]
    <2>1. Submit(r) /\ a \in Addresses
      <3>1. a \in Addresses
        BY <1>1, VisitorsAssumption DEF IInv, Sent
      <3>2. req \in [Requests -> ReqRow]
        BY <1>1 DEF IInv, TypeOK, ReqRow, Stages
      <3>3. ASSUME NEW q \in Requests, Handle(q) PROVE Submit(r)
        <4>1. CASE q = r
          BY <1>1, <3>2, <3>3, <4>1 DEF Handle, Send, Pass, Submit, LookUp, Keep, Rotate, Deliver, End, Go, Idle, ReqRow
        <4>2. CASE q # r
          BY <1>1, <3>2, <3>3, <4>2 DEF Handle, Send, Pass, Submit, LookUp, Keep, Rotate, Deliver, End, Go, Idle, ReqRow
        <4>3. QED
          BY <4>1, <4>2
      <3>4. ~Tick /\ ~Restart
        BY <1>1, <3>2 DEF Tick, Restart, Idle
      <3>5. QED
        BY <1>1, <3>1, <3>3, <3>4 DEF Next
    <2>2. Counter(a).count > Limit
      <3>1. rate'[a] = Counter(a)
        BY <1>1, <2>1 DEF Submit, IInv, TypeOK
      <3>2. req[r] \in ReqRow /\ req \in [Requests -> ReqRow]
        BY <1>1 DEF IInv, TypeOK, ReqRow, Stages
      <3>3. QED
        BY <1>1, <2>1, <3>1, <3>2 DEF Submit, Go, ReqRow
    <2>3. TypeOK /\ Limited(a)
      BY <1>1, <2>1 DEF IInv, LimitInv
    <2> HIDE DEF a
    <2>4. now \in Nat /\ Window \in Nat /\ Limit \in Nat
      BY <2>1, <2>3, LogTypes
    <2> DEFINE Span == {i \in DOMAIN accepted[a] : accepted[a][i].at \in now - Window + 1 .. now}
    <2>5. IsFiniteSet(Span) /\ Cardinality(Span) \in Nat
      <3>1. IsFiniteSet(DOMAIN accepted[a])
        <4>1. accepted[a] \in Seq(Passed)
          BY <2>1, <2>3, LogTypes
        <4>2. PICK n \in Nat : DOMAIN accepted[a] = 1 .. n
          BY <4>1
        <4>3. QED
          BY <4>2, FS_Interval
      <3>2. QED
        BY <3>1, FS_Subset, FS_CardinalityType
    <2>6. CASE Limit = 0
      <3>1. Cardinality(Span) >= Limit
        BY <2>5, <2>6
      <3>2. QED
        BY <3>1 DEF AcceptedIn, a
    <2>7. CASE Limit # 0
      <3>1. rate[a] # None /\ rate[a] \in Counters /\ rate[a].count >= Limit /\ now < rate[a].resetAt
        <4>1. rate[a] # None /\ ~(rate[a].resetAt <= now) /\ Counter(a) = [rate[a] EXCEPT !.count = @ + 1]
          BY <2>2, <2>4, <2>7 DEF Counter
        <4>2. rate[a] \in Counters /\ Counter(a).count = rate[a].count + 1
          BY <2>1, <2>3, <4>1, LogTypes DEF Counters
        <4>3. QED
          BY <2>2, <2>4, <4>1, <4>2 DEF Counters
      <3>2. \A k \in 1 .. Limit : \E i \in Span : accepted[a][i].counter = [count |-> k, resetAt |-> rate[a].resetAt]
        <4> SUFFICES ASSUME NEW k \in 1 .. Limit
                     PROVE  \E i \in Span : accepted[a][i].counter = [count |-> k, resetAt |-> rate[a].resetAt]
          OBVIOUS
        <4>1. k <= rate[a].count
          BY <2>4, <3>1 DEF Counters
        <4>2. PICK i \in DOMAIN accepted[a] : accepted[a][i].counter = [count |-> k, resetAt |-> rate[a].resetAt]
          BY <2>3, <3>1, <4>1 DEF Limited, Earned
        <4>3. rate[a].resetAt - Window <= accepted[a][i].at /\ accepted[a][i].at <= now
          BY <2>3, <4>2 DEF Limited, InWindow
        <4>4. accepted[a][i].at \in Nat /\ rate[a].resetAt \in Nat
          BY <2>1, <2>3, <3>1, LogTypes DEF Counters
        <4>5. i \in Span
          BY <2>4, <3>1, <4>3, <4>4
        <4>6. QED
          BY <4>2, <4>5
      <3> HIDE DEF Span
      <3> DEFINE f == [k \in 1 .. Limit |-> CHOOSE i \in Span : accepted[a][i].counter = [count |-> k, resetAt |-> rate[a].resetAt]]
      <3>3. \A k \in 1 .. Limit : f[k] \in Span /\ accepted[a][f[k]].counter = [count |-> k, resetAt |-> rate[a].resetAt]
        BY <3>2
      <3> HIDE DEF f
      <3>4. \A k, m \in 1 .. Limit : f[k] = f[m] => k = m
        <4> SUFFICES ASSUME NEW k \in 1 .. Limit, NEW m \in 1 .. Limit, f[k] = f[m] PROVE k = m
          OBVIOUS
        <4>1. [count |-> k, resetAt |-> rate[a].resetAt] = [count |-> m, resetAt |-> rate[a].resetAt]
          BY <3>3
        <4>2. [count |-> k, resetAt |-> rate[a].resetAt].count = [count |-> m, resetAt |-> rate[a].resetAt].count
          BY <4>1
        <4>3. QED
          BY <4>2
      <3>5. f \in Injection(1 .. Limit, Span)
        <4>1. f \in [1 .. Limit -> Span]
          BY <3>3 DEF f
        <4>2. QED
          BY <3>4, <4>1 DEF Injection, IsInjective
      <3>6. Cardinality(1 .. Limit) = Limit
        BY <2>4, <2>7, FS_Interval
      <3>7. Limit <= Cardinality(Span)
        BY <2>5, <3>5, <3>6, FS_Injection
      <3>8. QED
        BY <2>4, <2>5, <3>7 DEF AcceptedIn, a, Span
    <2>8. QED
      BY <2>6, <2>7
  <1>2. IInv /\ LimitInv /\ [Next]_vars => [RefusesForCause]_vars
    BY <1>1 DEF RefusesForCause
  <1>3. QED
    BY <1>2, SpecIInv, SpecLimitInv, PTL DEF Spec, RefusedForCause
=============================================================================
