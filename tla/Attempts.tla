------------------------------ MODULE Attempts ------------------------------
(***************************************************************************)
(* Submissions for one published spot version, createAttempt of            *)
(* src/application/public-api.ts: a lookup by idempotency key, then one    *)
(* Serializable transaction that decides whether the attempt is the        *)
(* visitor's official one and inserts it, and the path taken when a unique *)
(* index refuses the insert.  Every query names the version, so versions   *)
(* do not interact.                                                        *)
(*                                                                         *)
(* A Serializable transaction works on the snapshot of its first read.  It *)
(* reads all attempts of its visitor and inserts one, so of two of one     *)
(* visitor that overlap only one commits: an insert needs what it read to  *)
(* be current.  The other ends with a unique violation (P2002), when it    *)
(* breaks an index, or with a serialization failure (P2034), which         *)
(* PostgreSQL may also report for the attempt of another visitor, because  *)
(* its predicate locks cover pages and not rows.                           *)
(***************************************************************************)
EXTENDS Integers, FiniteSets

CONSTANTS
    Visitors,  \* guest identities and accounts
    Keys,      \* idempotency keys
    Payloads,  \* submitted payloads, as their hashes tell them apart
    Requests   \* requests the servers handle at the same time

VARIABLES
    rows,    \* Attempt rows of the version
    request, \* how far each request is
    replies  \* what clients were told, ever

vars == <<rows, request, replies>>

Row == [visitor : Visitors, key : Keys, payload : Payloads, official : BOOLEAN, ordinal : Nat]
Kinds == {"official", "practice", "conflict"}
Reply == [visitor : Visitors, key : Keys, payload : Payloads, kind : Kinds]

\* fallback is the second transaction, which never inserts an official attempt;
\* seen is the snapshot of the table the open one works on.
Phases == {"lookup", "begin", "insert", "raced", "created"}
Request == [phase : Phases, visitor : Visitors, key : Keys, payload : Payloads,
            fallback : BOOLEAN, seen : SUBSET Row]
Idle == [phase |-> "idle"]
Failed == [phase |-> "failed"]

OfIn(table, visitor) == {row \in table : row.visitor = visitor}
Of(visitor) == OfIn(rows, visitor)
Seen(r) == OfIn(request[r].seen, request[r].visitor)
Stored(r) == {row \in Of(request[r].visitor) : row.key = request[r].key}
HasOfficial(set) == \E row \in set : row.official

Move(r, next) == request' = [request EXCEPT ![r] = next]
Tell(r, kind) ==
    /\ replies' = replies \cup {[visitor |-> request[r].visitor, key |-> request[r].key,
                                 payload |-> request[r].payload, kind |-> kind]}
    /\ Move(r, Idle)
KindOf(row) == IF row.official THEN "official" ELSE "practice"

\* What a request that found the row of its key is answered.
\* Mutant: the payload is not compared.
AnswerAny(r, row) == Tell(r, KindOf(row))

Answer(r, row) == Tell(r, IF row.payload = request[r].payload THEN KindOf(row) ELSE "conflict")

-----------------------------------------------------------------------------
\* A valid request for the published version arrives, a retry perhaps.
Submit(r, visitor, key, payload) ==
    /\ request[r] = Idle
    /\ Move(r, [phase |-> "lookup", visitor |-> visitor, key |-> key, payload |-> payload,
                fallback |-> FALSE, seen |-> {}])
    /\ UNCHANGED <<rows, replies>>

\* The request ends with an error, or is lost with its connection or server.
Lose(r) ==
    /\ request[r] # Idle
    /\ Move(r, Idle)
    /\ UNCHANGED <<rows, replies>>

FindPrior(r) ==
    /\ request[r].phase = "lookup"
    /\ \/ \E row \in Stored(r) : Answer(r, row)
       \/ Stored(r) = {} /\ Move(r, [request[r] EXCEPT !.phase = "begin"]) /\ UNCHANGED replies
    /\ UNCHANGED rows

Begin(r) ==
    /\ request[r].phase = "begin"
    /\ Move(r, [request[r] EXCEPT !.phase = "insert", !.seen = rows])
    /\ UNCHANGED <<rows, replies>>

\* Mutant: a first attempt counted from its last index.
NewRowLast(r) ==
    LET official == ~request[r].fallback /\ ~HasOfficial(Seen(r))
    IN  [visitor |-> request[r].visitor, key |-> request[r].key, payload |-> request[r].payload,
         official |-> official, ordinal |-> Cardinality(Seen(r)) - 1]

NewRow(r) ==
    LET official == ~request[r].fallback /\ ~HasOfficial(Seen(r))
    IN  [visitor |-> request[r].visitor, key |-> request[r].key, payload |-> request[r].payload,
         official |-> official, ordinal |-> IF official THEN 0 ELSE Cardinality(Seen(r))]

\* The unique indexes on the key and, partial, on the official attempt.
Duplicate(r) ==
    \/ Stored(r) # {}
    \/ NewRow(r).official /\ HasOfficial(Of(request[r].visitor))

\* Mutant: the transaction runs at READ COMMITTED.
CommitAnySnapshot(r) ==
    /\ request[r].phase = "insert"
    /\ ~Duplicate(r)
    /\ rows' = rows \cup {NewRow(r)}
    /\ Move(r, [request[r] EXCEPT !.phase = "created"])
    /\ UNCHANGED replies

Commit(r) ==
    /\ request[r].phase = "insert"
    /\ ~Duplicate(r)
    /\ Seen(r) = Of(request[r].visitor)
    /\ rows' = rows \cup {NewRow(r)}
    /\ Move(r, [request[r] EXCEPT !.phase = "created"])
    /\ UNCHANGED replies

\* P2002 is caught around the first transaction only.
UniqueViolation(r) ==
    /\ request[r].phase = "insert"
    /\ Duplicate(r)
    /\ IF request[r].fallback
       THEN Move(r, Failed)
       ELSE Move(r, [request[r] EXCEPT !.phase = "raced"])
    /\ UNCHANGED <<rows, replies>>

Overlapped(r) == request[r].seen # rows

\* Mutant: P2034 is handled as if another key had won the official attempt.
SerializationFailsOver(r) ==
    /\ request[r].phase = "insert"
    /\ Overlapped(r)
    /\ Move(r, [request[r] EXCEPT !.phase = "begin", !.fallback = TRUE])
    /\ UNCHANGED <<rows, replies>>

\* P2034 is not caught and reaches the client as an error.
SerializationFailure(r) ==
    /\ request[r].phase = "insert"
    /\ Overlapped(r)
    /\ Move(r, Failed)
    /\ UNCHANGED <<rows, replies>>

FindRaced(r) ==
    /\ request[r].phase = "raced"
    /\ \/ \E row \in Stored(r) : Answer(r, row)
       \/ /\ Stored(r) = {}
          /\ Move(r, [request[r] EXCEPT !.phase = "begin", !.fallback = TRUE])
          /\ UNCHANGED replies
    /\ UNCHANGED rows

ReplyCreated(r) ==
    /\ request[r].phase = "created"
    /\ \E row \in Stored(r) : Tell(r, KindOf(row))
    /\ UNCHANGED rows

-----------------------------------------------------------------------------
Init ==
    /\ rows = {}
    /\ request = [r \in Requests |-> Idle]
    /\ replies = {}

Handle(r) ==
    \/ FindPrior(r)
    \/ Begin(r)
    \/ Commit(r)
    \/ UniqueViolation(r)
    \/ SerializationFailure(r)
    \/ FindRaced(r)
    \/ ReplyCreated(r)

Next ==
    \E r \in Requests :
        \/ \E visitor \in Visitors, key \in Keys, payload \in Payloads : Submit(r, visitor, key, payload)
        \/ Handle(r)
        \/ Lose(r)

Spec == Init /\ [][Next]_vars
-----------------------------------------------------------------------------
TypeOK ==
    /\ rows \subseteq Row
    /\ request \in [Requests -> Request \cup {Idle, Failed}]
    /\ replies \subseteq Reply

\* Whoever has attempts has exactly one official attempt, the first one: racing
\* first submissions never leave a visitor with two of them, or with none.
OneOfficial ==
    \A visitor \in Visitors : Of(visitor) # {} =>
        \E first \in Of(visitor) :
            /\ first.official /\ first.ordinal = 0
            /\ \A row \in Of(visitor) : row.official => row = first

\* The attempts of a visitor are numbered without gap or repetition, in
\* whatever order their transactions overlapped and failed.
OrdinalsDense ==
    \A visitor \in Visitors :
        /\ {row.ordinal : row \in Of(visitor)} = 0 .. Cardinality(Of(visitor)) - 1
        /\ \A a, b \in Of(visitor) : a.ordinal = b.ordinal => a = b

\* Idempotence: all answers to one key tell of the one attempt stored under it,
\* a success of the same payload and the kind stored, a conflict of another
\* payload; a lost answer and a retry change neither.
RepliesAgree ==
    /\ \A a, b \in rows : a.visitor = b.visitor /\ a.key = b.key => a = b
    /\ \A reply \in replies : \E row \in Of(reply.visitor) :
          /\ row.key = reply.key
          /\ IF reply.kind = "conflict" THEN row.payload # reply.payload
             ELSE row.payload = reply.payload /\ reply.kind = KindOf(row)
=============================================================================
