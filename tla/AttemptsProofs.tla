--------------------------- MODULE AttemptsProofs ---------------------------
(***************************************************************************)
(* Proofs about Attempts for any number of visitors, keys, payloads and    *)
(* concurrent requests.                                                    *)
(*                                                                         *)
(* OneOfficial and OrdinalsDense do not stand alone: a fallback never      *)
(* inserts an official attempt, so it must be known that it only runs for  *)
(* a visitor who has one (Raced).  RepliesAgree needs that a request that  *)
(* created its row still answers with it (CreatedStored).                  *)
(***************************************************************************)
EXTENDS Attempts, FiniteSetTheorems, TLAPS

FiniteRows == \A visitor \in Visitors : IsFiniteSet(Of(visitor))

Raced ==
    \A r \in Requests : request[r] \notin {Idle, Failed} /\ (request[r].phase = "raced" \/ request[r].fallback)
        => HasOfficial(Of(request[r].visitor))

CreatedStored ==
    \A r \in Requests : request[r] \notin {Idle, Failed} /\ request[r].phase = "created"
        => \E row \in Stored(r) : row.payload = request[r].payload

IInv == TypeOK /\ FiniteRows /\ Raced /\ CreatedStored /\ OneOfficial /\ OrdinalsDense /\ RepliesAgree

-----------------------------------------------------------------------------
\* An open request is in one of its phases; an idle or failed one is in none.
LEMMA OpenRequest ==
    ASSUME TypeOK, NEW r \in Requests
    PROVE  /\ request[r].phase \in Phases => request[r] \in Request
           /\ request[r] \in Request => request[r] \notin {Idle, Failed}
           /\ request[r] \notin {Idle, Failed} => request[r] \in Request
BY DEF TypeOK, Request, Phases, Idle, Failed

\* A row of the visitor tells whether there is an official attempt.
LEMMA OfficialExists ==
    ASSUME OneOfficial, NEW visitor \in Visitors, Of(visitor) # {}
    PROVE  HasOfficial(Of(visitor))
BY DEF OneOfficial, HasOfficial

\* The row a request stores: of its own visitor, key and payload, and numbered
\* by the attempts there are already.
LEMMA NewRowIs ==
    ASSUME IInv, NEW r \in Requests, Commit(r)
    PROVE  LET row == NewRow(r)
               v == request[r].visitor
           IN  /\ row \in Row /\ v \in Visitors
               /\ row.visitor = v /\ row.key = request[r].key /\ row.payload = request[r].payload
               /\ row.ordinal = Cardinality(Of(v))
               /\ row.official <=> Of(v) = {}
               /\ \A other \in Of(v) : other.key # row.key
<1> DEFINE row == NewRow(r)
           v == request[r].visitor
<1>1. request[r] \in Request /\ request[r] \notin {Idle, Failed}
  BY OpenRequest DEF IInv, Commit, Phases
<1>2. /\ v \in Visitors /\ request[r].key \in Keys /\ request[r].payload \in Payloads
      /\ request[r].fallback \in BOOLEAN /\ Seen(r) = Of(v)
  BY <1>1 DEF Request, Commit
<1>3. IsFiniteSet(Of(v)) /\ Cardinality(Of(v)) \in Nat /\ (Cardinality(Of(v)) = 0 <=> Of(v) = {})
  BY <1>2, FS_CardinalityType, FS_EmptySet DEF IInv, FiniteRows
<1>4. \A other \in Of(v) : other.key # request[r].key
  BY <1>2 DEF Commit, Duplicate, Stored
<1>5. CASE Of(v) = {}
  <2>1. ~request[r].fallback
    BY <1>1, <1>2, <1>5 DEF IInv, Raced, HasOfficial
  <2>2. row = [visitor |-> v, key |-> request[r].key, payload |-> request[r].payload,
               official |-> TRUE, ordinal |-> 0]
    BY <1>2, <1>5, <2>1 DEF NewRow, HasOfficial
  <2>3. QED
    BY <1>2, <1>3, <1>4, <1>5, <2>2 DEF Row
<1>6. CASE Of(v) # {}
  <2>1. HasOfficial(Of(v))
    BY <1>2, <1>6, OfficialExists DEF IInv
  <2>2. row = [visitor |-> v, key |-> request[r].key, payload |-> request[r].payload,
               official |-> FALSE, ordinal |-> Cardinality(Of(v))]
    BY <1>2, <2>1 DEF NewRow
  <2>3. QED
    BY <1>2, <1>3, <1>4, <1>6, <2>2 DEF Row
<1>7. QED
  BY <1>5, <1>6

\* What an insert does to the attempts of each visitor.
LEMMA CommitOf ==
    ASSUME IInv, NEW r \in Requests, Commit(r), NEW visitor \in Visitors
    PROVE  Of(visitor)' = IF visitor = request[r].visitor THEN Of(visitor) \cup {NewRow(r)} ELSE Of(visitor)
BY NewRowIs DEF Commit, Of, OfIn

-----------------------------------------------------------------------------
\* The actions that store nothing.
Quiet ==
    /\ rows' = rows
    /\ TypeOK'
    /\ \A r \in Requests : request'[r] \notin {Idle, Failed} =>
          /\ request'[r].phase = "raced" \/ request'[r].fallback => HasOfficial(Of(request'[r].visitor))
          /\ request'[r].phase = "created" => request'[r] = request[r]
    /\ \A reply \in replies' \ replies : \E row \in Of(reply.visitor) :
          /\ row.key = reply.key
          /\ IF reply.kind = "conflict" THEN row.payload # reply.payload
             ELSE row.payload = reply.payload /\ reply.kind = KindOf(row)

\* An action that stores nothing keeps the inductive invariant.
LEMMA QuietKeeps == ASSUME IInv, Quiet PROVE IInv'
<1>1. \A visitor : Of(visitor)' = Of(visitor)
  BY DEF Quiet, Of, OfIn
<1>2. FiniteRows' /\ OneOfficial' /\ OrdinalsDense'
  BY <1>1 DEF IInv, FiniteRows, OneOfficial, OrdinalsDense
<1>3. Raced'
  BY <1>1 DEF Quiet, Raced
<1>4. CreatedStored'
  BY <1>1 DEF IInv, Quiet, CreatedStored, Stored
<1>5. RepliesAgree'
  BY <1>1 DEF IInv, Quiet, RepliesAgree
<1>6. QED
  BY <1>2, <1>3, <1>4, <1>5 DEF IInv, Quiet

\* A request that moves on, within the frame above, when nobody is told.
LEMMA MoveQuiet ==
    ASSUME IInv, NEW r \in Requests, NEW next \in Request \cup {Idle, Failed}, Move(r, next),
           UNCHANGED <<rows, replies>>,
           next \in Request => /\ next.phase # "created"
                               /\ next.phase = "raced" \/ next.fallback => HasOfficial(Of(next.visitor))
    PROVE  Quiet
<1>1. request'[r] = next /\ \A q \in Requests \ {r} : request'[q] = request[q]
  BY DEF IInv, TypeOK, Move
<1>2. TypeOK'
  BY DEF IInv, TypeOK, Move
<1>3. ASSUME NEW q \in Requests, request'[q] \notin {Idle, Failed}
      PROVE  /\ request'[q].phase = "raced" \/ request'[q].fallback => HasOfficial(Of(request'[q].visitor))
             /\ request'[q].phase = "created" => request'[q] = request[q]
  BY <1>1, <1>3 DEF IInv, Raced
<1>4. QED
  BY <1>2, <1>3 DEF Quiet

\* A request that found the row of its key and answers with it.
LEMMA TellQuiet ==
    ASSUME IInv, NEW r \in Requests, request[r] \in Request, NEW kind \in Kinds, Tell(r, kind),
           UNCHANGED rows, NEW row \in Stored(r),
           IF kind = "conflict" THEN row.payload # request[r].payload
           ELSE row.payload = request[r].payload /\ kind = KindOf(row)
    PROVE  Quiet
<1> DEFINE told == [visitor |-> request[r].visitor, key |-> request[r].key,
                    payload |-> request[r].payload, kind |-> kind]
<1>1. request'[r] = Idle /\ \A q \in Requests \ {r} : request'[q] = request[q]
  BY DEF IInv, TypeOK, Tell, Move
<1>2. replies' = replies \cup {told} /\ told \in Reply
  BY DEF Tell, Request, Reply
<1>3. TypeOK'
  BY <1>2 DEF IInv, TypeOK, Tell, Move
<1>4. ASSUME NEW q \in Requests, request'[q] \notin {Idle, Failed}
      PROVE  /\ request'[q].phase = "raced" \/ request'[q].fallback => HasOfficial(Of(request'[q].visitor))
             /\ request'[q].phase = "created" => request'[q] = request[q]
  BY <1>1, <1>4 DEF IInv, Raced
<1>5. row \in Of(told.visitor) /\ row.key = told.key
  BY DEF Stored
<1>6. QED
  BY <1>2, <1>3, <1>4, <1>5 DEF Quiet

\* Answer compares the payloads and tells the kind of the row.
LEMMA AnswerQuiet ==
    ASSUME IInv, NEW r \in Requests, request[r] \in Request, NEW row \in Stored(r), Answer(r, row),
           UNCHANGED rows
    PROVE  Quiet
<1> DEFINE kind == IF row.payload = request[r].payload THEN KindOf(row) ELSE "conflict"
<1>1. kind \in Kinds /\ Tell(r, kind) /\ KindOf(row) # "conflict"
  BY DEF Answer, Kinds, KindOf
<1>2. QED
  BY <1>1, TellQuiet

-----------------------------------------------------------------------------
\* An insert keeps the numbering, the official attempt and the answers.
LEMMA CommitKeeps == ASSUME IInv, NEW r \in Requests, Commit(r) PROVE IInv'
<1>0. PICK v \in Visitors : v = request[r].visitor
  BY NewRowIs
<1> DEFINE row == NewRow(r)
           n == Cardinality(Of(v))
           OfNext(u) == {other \in rows' : other.visitor = u}
<1>1. /\ row \in Row /\ v \in Visitors
      /\ row.visitor = v /\ row.key = request[r].key /\ row.payload = request[r].payload
      /\ row.ordinal = n
      /\ row.official <=> Of(v) = {}
      /\ \A other \in Of(v) : other.key # row.key
  BY <1>0, NewRowIs
<1>2. /\ OfNext(v) = Of(v) \cup {row}
      /\ \A u \in Visitors \ {v} : OfNext(u) = Of(u)
  BY <1>0, CommitOf DEF Of, OfIn
<1>3. row \notin Of(v)
  BY <1>1
<1>4. /\ IsFiniteSet(Of(v)) /\ n \in Nat /\ (n = 0 <=> Of(v) = {})
      /\ IsFiniteSet(OfNext(v)) /\ Cardinality(OfNext(v)) = n + 1
  BY <1>1, <1>2, <1>3, FS_CardinalityType, FS_EmptySet, FS_AddElement, SMTT(30) DEF IInv, FiniteRows
<1>5. /\ request[r] \in Request /\ request[r] \notin {Idle, Failed}
      /\ request'[r] = [request[r] EXCEPT !.phase = "created"]
      /\ request'[r] \in Request
      /\ \A q \in Requests \ {r} : request'[q] = request[q]
  <2>1. request[r] \in Request /\ request[r] \notin {Idle, Failed}
    BY OpenRequest DEF IInv, Commit, Phases
  <2>2. [request[r] EXCEPT !.phase = "created"] \in Request
    BY <2>1 DEF Request, Phases
  <2>3. QED
    BY <2>1, <2>2 DEF IInv, TypeOK, Commit, Move
<1>6. TypeOK'
  <2>1. rows' \subseteq Row
    BY <1>1 DEF IInv, TypeOK, Commit
  <2>2. request' \in [Requests -> Request \cup {Idle, Failed}]
    BY <1>5 DEF IInv, TypeOK, Commit, Move
  <2>3. QED
    BY <2>1, <2>2 DEF IInv, TypeOK, Commit
<1>7. FiniteRows'
  BY <1>2, <1>4 DEF IInv, FiniteRows, Of, OfIn
<1>8. \A u \in Visitors : Of(u) \subseteq OfNext(u)
  BY <1>2
<1>9. Raced'
  <2> SUFFICES ASSUME NEW q \in Requests, request'[q] \notin {Idle, Failed},
                      request'[q].phase = "raced" \/ request'[q].fallback
               PROVE  HasOfficial(OfNext(request'[q].visitor))
    BY DEF Raced, HasOfficial, Of, OfIn
  <2>1. /\ request'[q].visitor = request[q].visitor /\ request[q].visitor \in Visitors
        /\ request[q] \notin {Idle, Failed}
        /\ request[q].phase = "raced" \/ request[q].fallback
    <3>1. CASE q = r
      BY <1>5, <3>1 DEF Request
    <3>2. CASE q # r
      BY <1>5, <3>2, OpenRequest DEF IInv, Request
    <3>3. QED
      BY <3>1, <3>2
  <2>2. HasOfficial(Of(request[q].visitor))
    BY <2>1 DEF IInv, Raced
  <2>3. QED
    BY <1>8, <2>1, <2>2 DEF HasOfficial
<1>10. CreatedStored'
  <2> SUFFICES ASSUME NEW q \in Requests, request'[q] \notin {Idle, Failed}, request'[q].phase = "created"
               PROVE  \E other \in OfNext(request'[q].visitor) :
                         other.key = request'[q].key /\ other.payload = request'[q].payload
    BY DEF CreatedStored, Stored, Of, OfIn
  <2>1. CASE q = r
    <3>1. /\ request'[q].visitor = v /\ request'[q].key = row.key
          /\ request'[q].payload = row.payload
      BY <1>0, <1>1, <1>5, <2>1 DEF Request
    <3>2. row \in OfNext(v)
      BY <1>2
    <3>3. QED
      BY <3>1, <3>2
  <2>2. CASE q # r
    <3>1. request'[q] = request[q] /\ request[q].visitor \in Visitors
      BY <1>5, <2>2, OpenRequest DEF IInv, Request
    <3>2. QED
      BY <1>8, <3>1 DEF IInv, CreatedStored, Stored
  <2>3. QED
    BY <2>1, <2>2
<1>11. OneOfficial'
  <2> SUFFICES ASSUME NEW u \in Visitors, OfNext(u) # {}
               PROVE  \E first \in OfNext(u) : /\ first.official /\ first.ordinal = 0
                                           /\ \A other \in OfNext(u) : other.official => other = first
    BY DEF OneOfficial, Of, OfIn
  <2>1. CASE u # v
    BY <1>2, <2>1 DEF IInv, OneOfficial
  <2>2. CASE u = v /\ Of(v) = {}
    BY <1>1, <1>2, <1>4, <2>2
  <2>3. CASE u = v /\ Of(v) # {}
    BY <1>1, <1>2, <2>3 DEF IInv, OneOfficial
  <2>4. QED
    BY <2>1, <2>2, <2>3
<1>12. OrdinalsDense'
  <2> SUFFICES ASSUME NEW u \in Visitors
               PROVE  /\ {other.ordinal : other \in OfNext(u)} = 0 .. Cardinality(OfNext(u)) - 1
                      /\ \A a, b \in OfNext(u) : a.ordinal = b.ordinal => a = b
    BY DEF OrdinalsDense, Of, OfIn
  <2>1. CASE u # v
    BY <1>2, <2>1 DEF IInv, OrdinalsDense
  <2>2. CASE u = v
    <3>1. /\ {other.ordinal : other \in Of(v)} = 0 .. n - 1
          /\ \A a, b \in Of(v) : a.ordinal = b.ordinal => a = b
      BY <1>1 DEF IInv, OrdinalsDense
    <3>2. {other.ordinal : other \in OfNext(v)} = {other.ordinal : other \in Of(v)} \cup {n}
      BY <1>1, <1>2
    <3>3. (0 .. n - 1) \cup {n} = 0 .. n
      BY <1>4
    <3>4. \A other \in Of(v) : other.ordinal # n
      BY <1>4, <3>1
    <3>5. \A a, b \in OfNext(v) : a.ordinal = b.ordinal => a = b
      BY <1>1, <1>2, <3>1, <3>4
    <3>6. {other.ordinal : other \in OfNext(v)} = 0 .. n
      BY <3>1, <3>2, <3>3
    <3>7. Cardinality(OfNext(v)) - 1 = n
      BY <1>4
    <3>8. QED
      BY <2>2, <3>5, <3>6, <3>7
  <2>3. QED
    BY <2>1, <2>2
<1>13. RepliesAgree'
  <2>1. \A a, b \in rows' : a.visitor = b.visitor /\ a.key = b.key => a = b
    BY <1>1 DEF IInv, RepliesAgree, Commit, Of, OfIn
  <2>2. \A reply \in replies' : reply \in replies /\ reply.visitor \in Visitors
    BY DEF IInv, TypeOK, Reply, Commit
  <2>3. QED
    BY <1>8, <2>1, <2>2 DEF IInv, RepliesAgree, Of, OfIn
<1>14. QED
  BY <1>6, <1>7, <1>9, <1>10, <1>11, <1>12, <1>13 DEF IInv

-----------------------------------------------------------------------------
\* Every other action stores nothing.
LEMMA SubmitQuiet ==
    ASSUME IInv, NEW r \in Requests, NEW visitor \in Visitors, NEW key \in Keys, NEW payload \in Payloads,
           Submit(r, visitor, key, payload)
    PROVE  Quiet
<1> DEFINE next == [phase |-> "lookup", visitor |-> visitor, key |-> key, payload |-> payload,
                    fallback |-> FALSE, seen |-> {}]
<1>1. next \in Request /\ next.phase = "lookup" /\ ~next.fallback
  BY DEF Request, Phases
<1>2. Move(r, next) /\ UNCHANGED <<rows, replies>>
  BY DEF Submit
<1>3. QED
  BY <1>1, <1>2, MoveQuiet

\* A handler other than Commit tells or moves one request and stores nothing.
LEMMA HandleQuiet == ASSUME IInv, NEW r \in Requests, Handle(r), ~Commit(r) PROVE Quiet
<1> DEFINE v == request[r].visitor
<1>1. /\ request[r] \in Request /\ request[r] \notin {Idle, Failed}
      /\ v \in Visitors /\ request[r].fallback \in BOOLEAN
      /\ request[r].phase = "raced" \/ request[r].fallback => HasOfficial(Of(v))
  BY OpenRequest DEF IInv, Raced, Request, Phases, Handle, FindPrior, Begin, Commit, UniqueViolation,
     SerializationFailure, FindRaced, ReplyCreated
<1>2. ASSUME NEW row \in Stored(r), Answer(r, row), UNCHANGED rows PROVE Quiet
  BY <1>1, <1>2, AnswerQuiet
<1>3. CASE FindPrior(r)
  <2>1. CASE Stored(r) = {} /\ Move(r, [request[r] EXCEPT !.phase = "begin"]) /\ UNCHANGED <<rows, replies>>
    <3> DEFINE next == [request[r] EXCEPT !.phase = "begin"]
    <3>1. /\ next \in Request /\ next.phase = "begin" /\ next.fallback = request[r].fallback
          /\ next.visitor = v
      BY <1>1 DEF Request, Phases
    <3>2. QED
      BY <1>1, <2>1, <3>1, MoveQuiet
  <2>2. QED
    BY <1>2, <1>3, <2>1 DEF FindPrior
<1>4. CASE Begin(r)
  <2> DEFINE next == [request[r] EXCEPT !.phase = "insert", !.seen = rows]
  <2>1. rows \subseteq Row
    BY DEF IInv, TypeOK
  <2>2. /\ next \in Request /\ next.phase = "insert" /\ next.fallback = request[r].fallback
        /\ next.visitor = v
    BY <1>1, <2>1 DEF Request, Phases
  <2>3. Move(r, next) /\ UNCHANGED <<rows, replies>>
    BY <1>4 DEF Begin
  <2>4. QED
    BY <1>1, <2>2, <2>3, MoveQuiet
<1>5. CASE UniqueViolation(r)
  <2>1. CASE request[r].fallback
    <3>1. Move(r, Failed) /\ UNCHANGED <<rows, replies>> /\ Failed \notin Request
      BY <1>5, <2>1 DEF UniqueViolation, Failed, Request, Phases
    <3>2. QED
      BY <3>1, MoveQuiet
  <2>2. CASE ~request[r].fallback
    <3> DEFINE next == [request[r] EXCEPT !.phase = "raced"]
    <3>1. /\ next \in Request /\ next.phase = "raced" /\ next.visitor = v
      BY <1>1 DEF Request, Phases
    <3>2. HasOfficial(Of(v))
      <4>1. CASE Stored(r) # {}
        BY <1>1, <4>1, OfficialExists DEF IInv, Stored
      <4>2. CASE Stored(r) = {}
        BY <1>5, <4>2 DEF UniqueViolation, Duplicate
      <4>3. QED
        BY <4>1, <4>2
    <3>3. Move(r, next) /\ UNCHANGED <<rows, replies>>
      BY <1>5, <2>2 DEF UniqueViolation
    <3>4. QED
      BY <3>1, <3>2, <3>3, MoveQuiet
  <2>3. QED
    BY <2>1, <2>2
<1>6. CASE SerializationFailure(r)
  <2>1. Move(r, Failed) /\ UNCHANGED <<rows, replies>> /\ Failed \notin Request
    BY <1>6 DEF SerializationFailure, Failed, Request, Phases
  <2>2. QED
    BY <2>1, MoveQuiet
<1>7. CASE FindRaced(r)
  <2>1. CASE /\ Move(r, [request[r] EXCEPT !.phase = "begin", !.fallback = TRUE])
             /\ UNCHANGED <<rows, replies>>
    <3> DEFINE next == [request[r] EXCEPT !.phase = "begin", !.fallback = TRUE]
    <3>1. next \in Request /\ next.phase = "begin" /\ next.visitor = v
      BY <1>1 DEF Request, Phases
    <3>2. HasOfficial(Of(v))
      BY <1>1, <1>7 DEF FindRaced
    <3>3. QED
      BY <2>1, <3>1, <3>2, MoveQuiet
  <2>2. QED
    BY <1>2, <1>7, <2>1 DEF FindRaced
<1>8. CASE ReplyCreated(r)
  <2>1. PICK row \in Stored(r) : Tell(r, KindOf(row)) /\ UNCHANGED rows
    BY <1>8 DEF ReplyCreated
  <2>2. row.payload = request[r].payload
    <3>1. PICK own \in Stored(r) : own.payload = request[r].payload
      BY <1>1, <1>8 DEF IInv, CreatedStored, ReplyCreated
    <3>2. own = row
      BY DEF IInv, RepliesAgree, Stored, Of, OfIn
    <3>3. QED
      BY <3>1, <3>2
  <2>3. KindOf(row) \in Kinds /\ KindOf(row) # "conflict"
    BY DEF KindOf, Kinds
  <2>4. QED
    BY <1>1, <2>1, <2>2, <2>3, TellQuiet
<1>9. QED
  BY <1>3, <1>4, <1>5, <1>6, <1>7, <1>8 DEF Handle

\* A request that is lost stores nothing.
LEMMA LoseQuiet == ASSUME IInv, NEW r \in Requests, Lose(r) PROVE Quiet
<1>1. Idle \notin Request
  BY DEF Idle, Request, Phases
<1>2. QED
  BY <1>1, MoveQuiet DEF Lose

-----------------------------------------------------------------------------
\* The inductive invariant holds at first.
LEMMA InitIInv == Init => IInv
<1> SUFFICES ASSUME Init PROVE IInv
  OBVIOUS
<1>1. \A visitor : Of(visitor) = {}
  BY DEF Init, Of, OfIn
<1>2. {row.ordinal : row \in {}} = 0 .. Cardinality({}) - 1
  BY FS_EmptySet
<1>3. OrdinalsDense
  BY <1>1, <1>2 DEF OrdinalsDense
<1>4. TypeOK /\ FiniteRows /\ Raced /\ CreatedStored /\ OneOfficial /\ RepliesAgree
  BY <1>1, FS_EmptySet DEF Init, TypeOK, FiniteRows, Raced, CreatedStored, OneOfficial, RepliesAgree
<1>5. QED
  BY <1>3, <1>4 DEF IInv

\* Every step of createAttempt keeps the inductive invariant.
LEMMA Preserved == IInv /\ [Next]_vars => IInv'
<1> SUFFICES ASSUME IInv, [Next]_vars PROVE IInv'
  OBVIOUS
<1>1. CASE UNCHANGED vars
  BY <1>1, SMTT(30) DEF vars, IInv, TypeOK, FiniteRows, Raced, CreatedStored, OneOfficial, OrdinalsDense,
     RepliesAgree, Of, OfIn, Stored
<1>2. ASSUME NEW r \in Requests, NEW visitor \in Visitors, NEW key \in Keys, NEW payload \in Payloads,
             Submit(r, visitor, key, payload)
      PROVE  IInv'
  BY <1>2, SubmitQuiet, QuietKeeps
<1>3. ASSUME NEW r \in Requests, Handle(r) PROVE IInv'
  BY <1>3, CommitKeeps, HandleQuiet, QuietKeeps
<1>4. ASSUME NEW r \in Requests, Lose(r) PROVE IInv'
  BY <1>4, LoseQuiet, QuietKeeps
<1>5. QED
  BY <1>1, <1>2, <1>3, <1>4 DEF Next

\* The inductive invariant is an invariant of the submissions.
THEOREM Invariance == Spec => []IInv
BY InitIInv, Preserved, PTL DEF Spec

\* Type correctness of the attempts, the open requests and the answers.
THEOREM TypeCorrect == Spec => []TypeOK
BY Invariance, PTL DEF IInv

\* Racing first submissions leave every visitor with exactly one official
\* attempt, numbered 0.
THEOREM OneOfficialHolds == Spec => []OneOfficial
BY Invariance, PTL DEF IInv

\* The attempts of a visitor are numbered without gap or repetition.
THEOREM OrdinalsDenseHolds == Spec => []OrdinalsDense
BY Invariance, PTL DEF IInv

\* Every answer given under a key tells of the one attempt stored under it.
THEOREM RepliesAgreeHolds == Spec => []RepliesAgree
BY Invariance, PTL DEF IInv
=============================================================================
