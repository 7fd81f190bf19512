--------------------------- MODULE ServingProofs ---------------------------
(***************************************************************************)
(* Proofs about Serving, for any number of days, slots, versions and       *)
(* attempts and any size of a page: what an answer says was true while it  *)
(* was put together.                                                       *)
(***************************************************************************)
EXTENDS Serving, FiniteSetTheorems, WellFoundedInduction, TLAPS

Slot == [date : Dates, order : Orders, version : Versions]
Attempt == [id : Ids, version : Versions, valid : BOOLEAN, time : Dates, official : BOOLEAN]

-----------------------------------------------------------------------------
(* Numbers: the greatest date, the least order, the size of an image.      *)

LEMMA LeastNat ==
    ASSUME NEW S \in SUBSET Nat, S # {}
    PROVE  \E n \in S : \A m \in S : n <= m
  <1> DEFINE R == OpToRel(<, Nat)
  <1>1. \A m, n \in Nat : m < n => <<m, n>> \in R
    BY Zenon DEF OpToRel
  <1>2. IsWellFoundedOn(R, Nat)
    BY NatLessThanWellFounded, Zenon
  <1> HIDE DEF R
  <1>3. PICK n \in S : \A m \in S : ~(<<m, n>> \in R)
    BY <1>2, WFMin, Zenon
  <1>4. \A m \in S : m \in Nat /\ n \in Nat /\ ~(m < n)
    BY <1>1, <1>3, Zenon
  <1>5. QED
    BY <1>4

LEMMA GreatestOfBounded ==
    ASSUME NEW N \in Nat, NEW S \in SUBSET (0 .. N), S # {}
    PROVE  \E n \in S : \A m \in S : m <= n
  <1> DEFINE Bounds == {n \in Nat : \A m \in S : m <= n}
  <1>1. N \in Bounds
    OBVIOUS
  <1>2. PICK n \in Bounds : \A m \in Bounds : n <= m
    BY <1>1, LeastNat
  <1>3. n \in S
    <2>1. SUFFICES ASSUME n \notin S PROVE FALSE
      OBVIOUS
    <2>2. PICK m \in S : TRUE
      OBVIOUS
    <2>3. \A k \in S : k <= n - 1
      BY <2>1
    <2>4. n - 1 \in Bounds
      BY <2>2, <2>3
    <2>5. QED
      BY <1>2, <2>4
  <1>4. QED
    BY <1>3

LEMMA MaxIsGreatest ==
    ASSUME NEW N \in Nat, NEW S \in SUBSET (0 .. N), S # {}
    PROVE  Max(S) \in S /\ \A m \in S : m <= Max(S)
  <1>1. PICK n \in S : \A m \in S : n >= m
    BY GreatestOfBounded
  <1>2. QED
    BY <1>1 DEF Max

LEMMA ImageSize ==
    ASSUME NEW slots, IsFiniteSet(slots)
    PROVE  /\ IsFiniteSet(VersionsOf(slots))
           /\ Cardinality(VersionsOf(slots)) \in Nat /\ Cardinality(slots) \in Nat
           /\ Cardinality(VersionsOf(slots)) <= Cardinality(slots)
           /\ (\A s, t \in slots : s.version = t.version => s = t) =>
                  Cardinality(VersionsOf(slots)) = Cardinality(slots)
  <1> DEFINE f == [s \in slots |-> s.version]
  <1>1. f \in Surjection(slots, VersionsOf(slots))
    BY DEF Surjection, VersionsOf
  <1>2. (\A s, t \in slots : s.version = t.version => s = t) => f \in Injection(slots, VersionsOf(slots))
    BY DEF Injection, IsInjective, VersionsOf
  <1> HIDE DEF f
  <1>3. QED
    BY <1>1, <1>2, FS_Surjection, FS_CardinalityType, Zenon

-----------------------------------------------------------------------------
(* What a request can rely on: the rows are what they seem, a version is   *)
(* published in one place at most, and since tells what lasted.            *)

TypeOK ==
    /\ day \in Dates
    /\ calendar \in [Places -> Versions \cup {None}]
    /\ retired \subseteq Versions
    /\ attempts \subseteq Attempt /\ IsFiniteSet(attempts)

\* Every request is a record of the same fields.
IsRequest ==
    req = [op |-> req.op, stage |-> req.stage, refused |-> req.refused,
           requested |-> req.requested, fallback |-> req.fallback, date |-> req.date,
           from |-> req.from, to |-> req.to, id |-> req.id, version |-> req.version,
           cursor |-> req.cursor, slots |-> req.slots, marks |-> req.marks,
           progress |-> req.progress, listed |-> req.listed, played |-> req.played,
           completed |-> req.completed, best |-> req.best, today |-> req.today,
           current |-> req.current, since |-> req.since]

OnePlace ==
    /\ \A p, q \in Places : calendar[p] = calendar[q] => calendar[p] = None \/ p = q
    /\ \A p \in Places : calendar[p] \notin retired

OneId == \A a, b \in attempts : a.id = b.id => a = b

Lasting ==
    req.stage # "idle" =>
        /\ steady \subseteq Slots(calendar) /\ Slots(calendar) \subseteq ever /\ ever \subseteq Slot
        /\ req.since.kept \subseteq Valid(attempts) /\ Valid(attempts) \subseteq req.since.known
        /\ req.since.known \subseteq Valid(Attempt)

BaseInv == TypeOK /\ IsRequest /\ OnePlace /\ OneId /\ Lasting

\* What the world does to a request: nothing but to what lasted.
Narrowed ==
    /\ req' = [req EXCEPT !.since = req'.since]
    /\ steady' \subseteq steady /\ ever \subseteq ever'
    /\ req'.since.kept \subseteq req.since.kept /\ req.since.known \subseteq req'.since.known

LEMMA DatesAreNumbers ==
    /\ IsFiniteSet(Dates) /\ Dates \in SUBSET (0 .. LastDay) /\ Dates \in SUBSET Nat
    /\ LastDay \in Nat /\ LastDay \in Dates /\ 1 \in Dates
    /\ IsFiniteSet(Places)
  <1>1. /\ Dates \in SUBSET (0 .. LastDay) /\ Dates \in SUBSET Nat
        /\ LastDay \in Nat /\ LastDay \in Dates /\ 1 \in Dates
    BY ServingAssumption DEF Dates
  <1>2. 1 \in Int /\ LastDay \in Int
    BY <1>1
  <1>3. IsFiniteSet(Dates)
    BY <1>2, FS_Interval, Zenon DEF Dates
  <1>4. IsFiniteSet(Places)
    BY <1>3, ServingAssumption, FS_Product, Zenon DEF Places
  <1>5. QED
    BY <1>1, <1>3, <1>4

LEMMA SlotsTyped ==
    ASSUME NEW cal \in [Places -> Versions \cup {None}]
    PROVE  /\ Slots(cal) \subseteq Slot
           /\ \A s \in Slots(cal) : <<s.date, s.order>> \in Places /\ s.version = cal[<<s.date, s.order>>]
           /\ \A p \in Places : cal[p] # None => [date |-> p[1], order |-> p[2], version |-> cal[p]] \in Slots(cal)
           /\ VersionsOf(Slots(cal)) = {cal[p] : p \in Places} \ {None}
           /\ IsFiniteSet(Slots(cal))
  <1> DEFINE Taken == {q \in Places : cal[q] # None}
             f == [p \in Taken |-> [date |-> p[1], order |-> p[2], version |-> cal[p]]]
  <1>1. /\ Slots(cal) \subseteq Slot
        /\ \A s \in Slots(cal) : <<s.date, s.order>> \in Places /\ s.version = cal[<<s.date, s.order>>]
    BY DEF Slots, Slot, Places
  <1>2. \A p \in Places : cal[p] # None => [date |-> p[1], order |-> p[2], version |-> cal[p]] \in Slots(cal)
    BY DEF Slots
  <1>3. VersionsOf(Slots(cal)) = {cal[p] : p \in Places} \ {None}
    <2>1. ASSUME NEW v \in VersionsOf(Slots(cal)) PROVE v \in {cal[p] : p \in Places} \ {None}
      BY ServingAssumption DEF Slots, VersionsOf
    <2>2. ASSUME NEW p \in Places, cal[p] # None PROVE cal[p] \in VersionsOf(Slots(cal))
      <3>1. PICK s \in Slots(cal) : s = [date |-> p[1], order |-> p[2], version |-> cal[p]]
        BY <2>2, <1>2
      <3>2. s.version = cal[p]
        BY <3>1
      <3>3. QED
        BY <3>2 DEF VersionsOf
    <2>3. QED
      BY <2>1, <2>2
  <1>4. f \in Surjection(Taken, Slots(cal))
    BY DEF Surjection, Slots
  <1>5. IsFiniteSet(Taken)
    BY DatesAreNumbers, FS_Subset
  <1> HIDE DEF f, Taken
  <1>6. IsFiniteSet(Slots(cal))
    BY <1>4, <1>5, FS_Surjection
  <1>7. QED
    BY <1>1, <1>2, <1>3, <1>6

LEMMA OneSlotPerVersion ==
    ASSUME TypeOK, OnePlace
    PROVE  \A s, t \in Slots(calendar) : s.version = t.version => s = t
  BY DEF TypeOK, OnePlace, Slots, Places

LEMMA InitBaseInv == Init => BaseInv
  <1> SUFFICES ASSUME Init PROVE BaseInv
    OBVIOUS
  <1>1. TypeOK
    BY ServingAssumption, DatesAreNumbers, FS_EmptySet DEF Init, TypeOK
  <1>2. IsRequest
    BY DEF Init, IsRequest, Idle
  <1>3. OnePlace /\ OneId
    BY ServingAssumption DEF Init, OnePlace, OneId
  <1>4. Lasting
    BY DEF Init, Lasting, Idle
  <1>5. QED
    BY <1>1, <1>2, <1>3, <1>4 DEF BaseInv

\* The calendar and the attempts change in a way that keeps them well formed, and
\* the request notes what remains: nothing else does an environment step do.
LEMMA NewDayKeepsBase == ASSUME BaseInv, NewDay PROVE BaseInv' /\ req' = req
  BY ServingAssumption DEF BaseInv, TypeOK, IsRequest, OnePlace, OneId, Lasting, NewDay, Dates,
     steady, ever, Slots, Valid

LEMMA PublishKeepsRows ==
    ASSUME BaseInv, NEW place \in Places, NEW v \in Versions, Publish(place, v)
    PROVE  TypeOK' /\ OnePlace' /\ OneId'
  <1>1. TypeOK'
    BY DEF BaseInv, TypeOK, Publish
  <1>2. \A p \in Places : calendar[p] # v
    BY SlotsTyped, ServingAssumption DEF BaseInv, TypeOK, Publish
  <1>3. OnePlace'
    BY <1>2 DEF BaseInv, TypeOK, OnePlace, Publish
  <1>4. OneId'
    BY DEF BaseInv, OneId, Publish
  <1>5. QED
    BY <1>1, <1>3, <1>4

LEMMA TakeDownKeepsRows ==
    ASSUME BaseInv, NEW place \in Places, NEW invalidation \in BOOLEAN, TakeDown(place, invalidation)
    PROVE  TypeOK' /\ OnePlace' /\ OneId'
  <1> DEFINE After(a) == [a EXCEPT !.valid = a.valid /\ (invalidation => a.version # calendar[place])]
             f == [a \in attempts |-> After(a)]
  <1>1. attempts' = {After(a) : a \in attempts}
    BY DEF TakeDown
  <1>2. \A a \in attempts : After(a) \in Attempt /\ After(a).id = a.id
    BY DEF BaseInv, TypeOK, Attempt
  <1>3. f \in Surjection(attempts, attempts')
    BY <1>1 DEF Surjection
  <1>4. IsFiniteSet(attempts')
    BY <1>3, FS_Surjection, Zenon DEF BaseInv, TypeOK
  <1>5. TypeOK'
    BY <1>1, <1>2, <1>4 DEF BaseInv, TypeOK, TakeDown
  <1>6. OnePlace'
    BY ServingAssumption DEF BaseInv, TypeOK, OnePlace, TakeDown
  <1>7. OneId'
    <2> HIDE DEF After
    <2>1. QED
      BY <1>1, <1>2 DEF BaseInv, OneId
  <1>8. QED
    BY <1>5, <1>6, <1>7

LEMMA PlayKeepsRows ==
    ASSUME BaseInv, NEW id \in Ids, NEW v \in Versions, Play(id, v)
    PROVE  TypeOK' /\ OnePlace' /\ OneId'
  <1>1. PICK a \in Attempt : a.id = id /\ attempts' = attempts \cup {a}
    <2> DEFINE first == ~ \E b \in attempts : b.version = v /\ b.official
               new == [id |-> id, version |-> v, valid |-> TRUE, time |-> day, official |-> first]
    <2>1. first \in BOOLEAN
      OBVIOUS
    <2>2. attempts' = attempts \cup {new}
      BY DEF Play
    <2> HIDE DEF first
    <2>3. new \in Attempt /\ new.id = id
      BY <2>1 DEF BaseInv, TypeOK, Attempt
    <2>4. QED
      BY <2>2, <2>3
  <1>2. IsFiniteSet(attempts')
    BY <1>1, FS_AddElement DEF BaseInv, TypeOK
  <1>3. TypeOK'
    BY <1>1, <1>2 DEF BaseInv, TypeOK, Play
  <1>4. OnePlace'
    BY DEF BaseInv, OnePlace, Play
  <1>5. OneId'
    BY <1>1 DEF BaseInv, OneId, Play
  <1>6. QED
    BY <1>3, <1>4, <1>5

\* What a request notes while it is under way.
LEMMA WatchedNarrows ==
    ASSUME BaseInv, Watched, TypeOK'
    PROVE  IsRequest' /\ Lasting' /\ (req.stage = "idle" => req' = req) /\ (req.stage # "idle" => Narrowed)
  <1>1. CASE req.stage = "idle"
    BY <1>1 DEF BaseInv, Watched, IsRequest, Lasting, Slots
  <1>2. CASE req.stage # "idle"
    <2> DEFINE q == [steady |-> steady \cap Slots(calendar'), ever |-> ever \cup Slots(calendar'),
                     kept |-> req.since.kept \cap Valid(attempts'), known |-> req.since.known \cup Valid(attempts')]
    <2>1. req' = [req EXCEPT !.since = q]
      BY <1>2 DEF Watched, steady, ever
    <2>2. IsRequest' /\ req'.since = q /\ req'.stage = req.stage
      BY <2>1 DEF BaseInv, IsRequest
    <2>3. Slots(calendar') \subseteq Slot /\ Valid(attempts') \subseteq Valid(Attempt)
      BY SlotsTyped DEF TypeOK, Valid
    <2>4. Narrowed
      BY <2>1, <2>2 DEF Narrowed, steady, ever
    <2>5. Lasting'
      BY <1>2, <2>2, <2>3 DEF BaseInv, Lasting, steady, ever
    <2>6. QED
      BY <1>2, <2>2, <2>4, <2>5
  <1>3. QED
    BY <1>1, <1>2

LEMMA EnvironmentKeepsBase ==
    ASSUME BaseInv, Environment
    PROVE  BaseInv' /\ (req' = req \/ Narrowed)
  <1>1. CASE NewDay
    BY <1>1, NewDayKeepsBase
  <1>2. CASE \E place \in Places, invalidation \in BOOLEAN : TakeDown(place, invalidation)
    BY <1>2, TakeDownKeepsRows, WatchedNarrows DEF TakeDown, BaseInv
  <1>3. CASE \E place \in Places, v \in Versions : Publish(place, v)
    BY <1>3, PublishKeepsRows, WatchedNarrows DEF Publish, BaseInv
  <1>4. CASE \E id \in Ids, v \in Versions : Play(id, v)
    BY <1>4, PlayKeepsRows, WatchedNarrows DEF Play, BaseInv
  <1>5. QED
    BY <1>1, <1>2, <1>3, <1>4 DEF Environment

-----------------------------------------------------------------------------
(* What a request has read, against what was there while it was under way. *)

\* The slots of a date, read at some moment of the request.
ReadFor(date, slots) ==
    /\ {s \in steady : s.date = date} \subseteq slots
    /\ slots \subseteq {s \in ever : s.date = date}

\* The versions of slots played, read at some moment of the request.
MarksOf(slots, marks) ==
    /\ marks \subseteq {a.version : a \in known}
    /\ {a.version : a \in kept} \cap VersionsOf(slots) \subseteq marks

\* The progress of slots, computed at some moment of the request.
PointsInto(p, slots) ==
    /\ p.completed <= p.total
    /\ p.total > 0 => (p.status = "completed" <=> p.next = None)
    /\ p.next # None =>
          /\ ~ \E a \in kept : a.version = p.next.version
          /\ \A s \in slots : s.order < p.next.order => s.version \in {a.version : a \in known}

\* Slots read together: a version is there once.
SlotsInv ==
    /\ req.slots \subseteq Slot /\ IsFiniteSet(req.slots)
    /\ \A s, t \in req.slots : s.version = t.version => s = t

\* Nothing that stayed was published later than the date served, up to the one asked for.
Latest == \A s \in steady : s.date <= req.requested => s.date <= req.date

Going == ~(req.stage = "answered" /\ req.refused)

DailyInv ==
    req.op = "daily" /\ Going =>
        /\ req.requested \in Dates
        /\ req.stage = "slots" => req.date = req.requested
        /\ req.stage = "latest" => req.fallback /\ \A s \in steady : s.date # req.requested
        /\ req.fallback \/ req.date = req.requested
        /\ req.stage \in {"again", "progress", "marks", "answered"} => Latest
        /\ req.stage \in {"progress", "marks", "answered"} => ReadFor(req.date, req.slots)
        /\ req.stage \in {"marks", "answered"} => PointsInto(req.progress, req.slots)
        /\ req.stage = "answered" => MarksOf(req.slots, req.marks)

RangeInv == req.op = "range" /\ Going /\ req.stage = "answered" => MarksOf(req.slots, req.marks)

ResultInv ==
    req.op = "result" /\ Going =>
        /\ req.stage \in {"slots", "progress", "answered"} =>
              \A s \in steady : s.version = req.version => s.date = req.date
        /\ req.stage \in {"progress", "answered"} => ReadFor(req.date, req.slots)
        /\ req.stage = "answered" =>
              /\ PointsInto(req.progress, req.slots)
              /\ MarksOf(req.slots, req.marks)
              /\ \A s \in req.slots : (\E a \in kept : a.version = s.version) => req.progress.completed > 0

GameInv == SlotsInv /\ DailyInv /\ RangeInv /\ ResultInv

LEMMA NarrowedFields ==
    ASSUME IsRequest, Narrowed
    PROVE  /\ req'.op = req.op /\ req'.stage = req.stage /\ req'.refused = req.refused
           /\ req'.requested = req.requested /\ req'.fallback = req.fallback /\ req'.date = req.date
           /\ req'.version = req.version /\ req'.cursor = req.cursor /\ req'.slots = req.slots
           /\ req'.marks = req.marks /\ req'.progress = req.progress /\ req'.listed = req.listed
           /\ req'.played = req.played /\ req'.completed = req.completed /\ req'.best = req.best
           /\ req'.today = req.today /\ req'.current = req.current
           /\ steady' \subseteq steady /\ ever \subseteq ever' /\ kept' \subseteq kept /\ known \subseteq known'
  <1>1. steady' \subseteq steady /\ ever \subseteq ever' /\ kept' \subseteq kept /\ known \subseteq known'
    BY DEF Narrowed, kept, known, Official, Valid
  <1>2. QED
    BY <1>1 DEF IsRequest, Narrowed

\* What was read stays true: what lasts gets less, what was ever there gets more.
LEMMA NarrowedKeepsGame == ASSUME IsRequest, Narrowed, GameInv PROVE GameInv'
  <1>0. USE NarrowedFields
  <1>1. \A date, slots : ReadFor(date, slots) => ReadFor(date, slots)'
    BY DEF ReadFor
  <1>2. \A slots, marks : MarksOf(slots, marks) => MarksOf(slots, marks)'
    BY DEF MarksOf
  <1>3. \A p, slots : PointsInto(p, slots) => PointsInto(p, slots)'
    BY DEF PointsInto
  <1>4. Latest => Latest'
    BY DEF Latest
  <1>5. SlotsInv'
    BY DEF GameInv, SlotsInv
  <1>6. Going' <=> Going
    BY DEF Going
  <1>7. DailyInv'
    BY <1>1, <1>2, <1>3, <1>4, <1>6 DEF GameInv, DailyInv
  <1>8. RangeInv'
    BY <1>2, <1>6 DEF GameInv, RangeInv
  <1>9. ResultInv'
    BY <1>1, <1>2, <1>3, <1>6 DEF GameInv, ResultInv
  <1>10. QED
    BY <1>5, <1>7, <1>8, <1>9 DEF GameInv

-----------------------------------------------------------------------------
(* The reads.                                                              *)

LEMMA SlotsRead ==
    ASSUME BaseInv, req.stage # "idle", NEW date
    PROVE  /\ ReadFor(date, SlotsFor(date))
           /\ \A s \in SlotsFor(date) : s.date = date
  BY DEF BaseInv, Lasting, ReadFor, SlotsFor

LEMMA SlotsReadSound ==
    ASSUME BaseInv, NEW slots, slots \subseteq Slots(calendar)
    PROVE  /\ slots \subseteq Slot /\ IsFiniteSet(slots)
           /\ \A s, t \in slots : s.version = t.version => s = t
  BY SlotsTyped, OneSlotPerVersion, FS_Subset DEF BaseInv, TypeOK

LEMMA OfficialBetween ==
    ASSUME BaseInv, req.stage # "idle"
    PROVE  kept \subseteq Official(attempts) /\ Official(attempts) \subseteq known
  BY DEF BaseInv, Lasting, kept, known, Official, Valid

LEMMA MarksRead ==
    ASSUME BaseInv, req.stage # "idle", NEW slots
    PROVE  MarksOf(slots, PlayedIn(attempts, slots))
  BY OfficialBetween DEF MarksOf, PlayedIn

LEMMA ProgressRead ==
    ASSUME NEW slots, slots \subseteq Slot, IsFiniteSet(slots),
           \A s, t \in slots : s.version = t.version => s = t,
           NEW played, MarksOf(slots, played), played \subseteq VersionsOf(slots)
    PROVE  /\ PointsInto(Progress(slots, played), slots)
           /\ played # {} => Progress(slots, played).completed > 0
  <1> DEFINE open == {s \in slots : s.version \notin played}
             next == CHOOSE s \in open : \A t \in open : s.order <= t.order
             p == Progress(slots, played)
             done == Cardinality(played)
             all == Cardinality(slots)
  <1>1. /\ p.completed = done /\ p.total = all
        /\ p.status = IF played = {} THEN "not_started" ELSE IF done = all THEN "completed" ELSE "in_progress"
        /\ p.next = IF open = {} THEN None ELSE next
    BY DEF Progress
  <1>2. /\ IsFiniteSet(played) /\ done \in Nat /\ all \in Nat /\ done <= all
        /\ Cardinality(VersionsOf(slots)) = all
        /\ done = all <=> played = VersionsOf(slots)
    BY ImageSize, FS_Subset, FS_CardinalityType, Zenon
  <1>3. open = {} <=> played = VersionsOf(slots)
    BY DEF VersionsOf
  <1>4. done = 0 <=> played = {}
    BY <1>2, FS_EmptySet
  <1>5. open # {} => next \in open /\ \A t \in open : next.order <= t.order
    <2>1. SUFFICES ASSUME open # {} PROVE \E s \in open : \A t \in open : s.order <= t.order
      BY Zenon
    <2>2. {s.order : s \in open} \in SUBSET Nat /\ {s.order : s \in open} # {}
      BY <2>1, ServingAssumption DEF Slot
    <2>3. PICK n \in {s.order : s \in open} : \A m \in {s.order : s \in open} : n <= m
      BY <2>2, LeastNat
    <2>4. QED
      BY <2>3
  <1>6. open # {} => next # None
    BY <1>5, ServingAssumption DEF Slot
  <1> HIDE DEF next, p, done, all
  <1>7. p.completed <= p.total
    BY <1>1, <1>2
  <1>8. p.total > 0 => (p.status = "completed" <=> p.next = None)
    BY <1>1, <1>2, <1>3, <1>4, <1>6
  <1>9. ASSUME p.next # None
        PROVE  /\ ~ \E a \in kept : a.version = p.next.version
               /\ \A s \in slots : s.order < p.next.order => s.version \in {a.version : a \in known}
    <2>1. p.next = next /\ next \in open /\ \A t \in open : next.order <= t.order
      BY <1>1, <1>5, <1>9
    <2>2. ~ \E a \in kept : a.version = next.version
      BY <2>1 DEF MarksOf, VersionsOf
    <2>3. ASSUME NEW s \in slots, s.order < next.order PROVE s.version \in {a.version : a \in known}
      <3>1. s \notin open
        BY <2>1, <2>3, ServingAssumption DEF Slot
      <3>2. QED
        BY <3>1 DEF MarksOf
    <2>4. QED
      BY <2>1, <2>2, <2>3
  <1>10. played # {} => p.completed > 0
    BY <1>1, <1>2, <1>4
  <1>11. QED
    BY <1>7, <1>8, <1>9, <1>10 DEF PointsInto, p

-----------------------------------------------------------------------------
(* The steps of a request.                                                 *)

\* A request that goes on leaves the world, its question and what lasted alone.
LEMMA GoingOnKeepsBase ==
    ASSUME BaseInv, Unchanged, IsRequest', req.stage # "idle", req'.since = req.since
    PROVE  BaseInv' /\ steady' = steady /\ ever' = ever /\ kept' = kept /\ known' = known
  BY DEF BaseInv, TypeOK, OnePlace, OneId, Lasting, Unchanged, steady, ever, kept, known, Slots, Valid, Official

LEMMA BeginKeepsBase ==
    ASSUME BaseInv, Unchanged, IsRequest', req'.since = Since
    PROVE  BaseInv'
  <1>1. Slots(calendar) \subseteq Slot
    BY SlotsTyped DEF BaseInv, TypeOK
  <1>2. Lasting'
    BY <1>1 DEF BaseInv, TypeOK, Lasting, Unchanged, Since, steady, ever, Slots, Valid
  <1>3. QED
    BY <1>2 DEF BaseInv, TypeOK, OnePlace, OneId, Unchanged

\* Where a request starts it has read nothing.
LEMMA StartKeepsInv == ASSUME BaseInv, Start PROVE BaseInv' /\ GameInv'
  <1>1. ASSUME NEW date \in Dates, NEW fallback \in BOOLEAN, StartDaily(date, fallback)
        PROVE  BaseInv' /\ GameInv'
    <2>1. /\ IsRequest' /\ req'.since = Since /\ Unchanged
          /\ req'.op = "daily" /\ req'.stage = "slots" /\ req'.requested = date /\ req'.date = date
          /\ req'.slots = {}
      BY <1>1 DEF StartDaily, Begin, Idle, IsRequest
    <2>2. BaseInv'
      BY <2>1, BeginKeepsBase
    <2>3. SlotsInv' /\ DailyInv' /\ RangeInv' /\ ResultInv'
      BY <2>1, FS_EmptySet DEF SlotsInv, DailyInv, RangeInv, ResultInv, Going
    <2>4. QED
      BY <2>2, <2>3 DEF GameInv
  <1>2. ASSUME /\ IsRequest' /\ req'.since = Since /\ Unchanged
               /\ req'.stage \in {"slots", "find", "page", "attempts"} /\ req'.slots = {}
               /\ req'.op \in {"range", "result", "history", "stats"}
               /\ req'.op = "result" => req'.stage = "find"
        PROVE  BaseInv' /\ GameInv'
    <2>1. BaseInv'
      BY <1>2, BeginKeepsBase
    <2>2. SlotsInv' /\ DailyInv' /\ RangeInv' /\ ResultInv'
      BY <1>2, FS_EmptySet DEF SlotsInv, DailyInv, RangeInv, ResultInv, Going
    <2>3. QED
      BY <2>1, <2>2 DEF GameInv
  <1>3. ASSUME NEW from \in Dates, NEW to \in Dates, StartRange(from, to) PROVE BaseInv' /\ GameInv'
    BY <1>2, <1>3 DEF StartRange, Begin, Idle, IsRequest
  <1>4. ASSUME NEW id \in Ids, StartResult(id) PROVE BaseInv' /\ GameInv'
    BY <1>2, <1>4 DEF StartResult, Begin, Idle, IsRequest
  <1>5. ASSUME StartHistory PROVE BaseInv' /\ GameInv'
    BY <1>2, <1>5 DEF StartHistory, Begin, Idle, IsRequest
  <1>6. ASSUME StartStats PROVE BaseInv' /\ GameInv'
    BY <1>2, <1>6 DEF StartStats, Begin, Idle, IsRequest
  <1>7. day \in Dates
    BY DEF BaseInv, TypeOK
  <1>8. QED
    BY <1>1, <1>3, <1>4, <1>5, <1>6, <1>7 DEF Start

LEMMA DailySlotsKeepsInv == ASSUME BaseInv, GameInv, DailySlots PROVE BaseInv' /\ GameInv'
  <1>1. /\ req.op = "daily" /\ req.stage = "slots" /\ Unchanged /\ Going
        /\ req.requested \in Dates /\ req.date = req.requested
    BY DEF DailySlots, At, GameInv, DailyInv, Going
  <1>2. /\ IsRequest' /\ req'.since = req.since /\ req'.op = "daily"
        /\ req'.requested = req.requested /\ req'.date = req.date /\ req'.fallback = req.fallback
    <2>1. CASE SlotsFor(req.date) # {}
      BY <1>1, <2>1 DEF DailySlots, Go, BaseInv, IsRequest
    <2>2. CASE SlotsFor(req.date) = {} /\ req.fallback
      BY <1>1, <2>2 DEF DailySlots, Go, BaseInv, IsRequest
    <2>3. CASE SlotsFor(req.date) = {} /\ ~req.fallback
      BY <1>1, <2>3 DEF DailySlots, Go, Answer, Refuse, BaseInv, IsRequest
    <2>4. QED
      BY <2>1, <2>2, <2>3
  <1>3. BaseInv' /\ steady' = steady /\ ever' = ever /\ kept' = kept /\ known' = known
    BY <1>1, <1>2, GoingOnKeepsBase
  <1>4. CASE SlotsFor(req.date) # {}
    <2>1. req'.stage = "progress" /\ req'.slots = SlotsFor(req.date) /\ Going'
      BY <1>4 DEF DailySlots, Go, BaseInv, IsRequest, Going
    <2>2. SlotsInv'
      BY <2>1, SlotsReadSound DEF SlotsInv, SlotsFor
    <2>3. ReadFor(req.date, SlotsFor(req.date))
      BY <1>1, SlotsRead
    <2>4. ReadFor(req.date, req.slots)'
      BY <1>2, <1>3, <2>1, <2>3 DEF ReadFor
    <2>5. Latest'
      BY <1>1, <1>2 DEF Latest
    <2>6. DailyInv' /\ RangeInv' /\ ResultInv'
      BY <1>1, <1>2, <2>1, <2>4, <2>5 DEF DailyInv, RangeInv, ResultInv
    <2>7. QED
      BY <1>3, <2>2, <2>6 DEF GameInv
  <1>5. CASE SlotsFor(req.date) = {}
    <2>1. /\ req'.stage = "latest" \/ (req'.stage = "answered" /\ req'.refused)
          /\ req'.slots = req.slots /\ (req'.stage = "latest" => req.fallback)
      BY <1>5 DEF DailySlots, Go, Answer, Refuse, BaseInv, IsRequest
    <2>2. \A s \in steady : s.date # req.requested
      BY <1>1, <1>5 DEF BaseInv, Lasting, SlotsFor
    <2>3. SlotsInv'
      BY <2>1 DEF SlotsInv, GameInv
    <2>4. DailyInv' /\ RangeInv' /\ ResultInv'
      BY <1>1, <1>2, <1>3, <2>1, <2>2 DEF DailyInv, RangeInv, ResultInv, Going
    <2>5. QED
      BY <1>3, <2>3, <2>4 DEF GameInv
  <1>6. QED
    BY <1>4, <1>5

LEMMA DailyLatestKeepsInv == ASSUME BaseInv, GameInv, DailyLatest PROVE BaseInv' /\ GameInv'
  <1>1. /\ req.op = "daily" /\ req.stage = "latest" /\ Unchanged /\ Going
        /\ req.requested \in Dates /\ req.fallback /\ \A s \in steady : s.date # req.requested
    BY DEF DailyLatest, At, GameInv, DailyInv, Going
  <1>2. CASE Earlier(req.requested) = {}
    <2>1. /\ IsRequest' /\ req'.since = req.since /\ req'.op = "daily" /\ req'.stage = "answered"
          /\ req'.refused /\ req'.slots = req.slots
      BY <1>1, <1>2 DEF DailyLatest, Go, Answer, Refuse, BaseInv, IsRequest
    <2>2. BaseInv'
      BY <1>1, <2>1, GoingOnKeepsBase
    <2>3. QED
      BY <1>1, <2>1, <2>2 DEF GameInv, SlotsInv, DailyInv, RangeInv, ResultInv, Going
  <1>3. CASE Earlier(req.requested) # {}
    <2> DEFINE eve == Max(Earlier(req.requested))
    <2>1. /\ IsRequest' /\ req'.since = req.since /\ req'.op = "daily" /\ req'.stage = "again"
          /\ req'.slots = req.slots /\ req'.requested = req.requested /\ req'.fallback = req.fallback
          /\ req'.date = eve
      BY <1>1, <1>3, ZenonT(30) DEF DailyLatest, Go, BaseInv, IsRequest
    <2>2. BaseInv' /\ steady' = steady
      BY <1>1, <2>1, GoingOnKeepsBase
    <2>3. Slots(calendar) \subseteq Slot
      BY SlotsTyped DEF BaseInv, TypeOK
    <2>4. Earlier(req.requested) \in SUBSET (0 .. LastDay)
      BY <2>3, DatesAreNumbers DEF Earlier, Slot
    <2>5. \A m \in Earlier(req.requested) : m <= eve
      BY <1>3, <2>4, DatesAreNumbers, MaxIsGreatest
    <2>6. ASSUME NEW s \in steady, s.date <= req.requested PROVE s.date <= eve
      <3>1. s \in Slots(calendar) /\ s.date # req.requested
        BY <1>1 DEF BaseInv, Lasting
      <3>2. s.date < req.requested
        <4>1. s.date \in Nat /\ req.requested \in Nat
          BY <1>1, <2>3, <3>1, DatesAreNumbers DEF Slot
        <4>2. QED
          BY <2>6, <3>1, <4>1
      <3>3. s.date \in Earlier(req.requested)
        BY <3>1, <3>2 DEF Earlier
      <3>4. QED
        BY <2>5, <3>3
    <2> HIDE DEF eve
    <2>7. Latest'
      BY <2>1, <2>2, <2>6 DEF Latest
    <2>8. SlotsInv'
      BY <2>1 DEF GameInv, SlotsInv
    <2>9. DailyInv' /\ RangeInv' /\ ResultInv'
      BY <1>1, <2>1, <2>7 DEF DailyInv, RangeInv, ResultInv
    <2>10. QED
      BY <2>2, <2>8, <2>9 DEF GameInv
  <1>4. QED
    BY <1>2, <1>3

LEMMA DailyAgainKeepsInv == ASSUME BaseInv, GameInv, DailyAgain PROVE BaseInv' /\ GameInv'
  <1>1. /\ req.op = "daily" /\ req.stage = "again" /\ Unchanged /\ Going
        /\ req.requested \in Dates /\ Latest /\ (req.fallback \/ req.date = req.requested)
    BY DEF DailyAgain, At, GameInv, DailyInv, Going
  <1>2. CASE SlotsFor(req.date) = {}
    <2>1. /\ IsRequest' /\ req'.since = req.since /\ req'.op = "daily" /\ req'.stage = "answered"
          /\ req'.refused /\ req'.slots = req.slots
      BY <1>1, <1>2 DEF DailyAgain, Go, Answer, Refuse, BaseInv, IsRequest
    <2>2. BaseInv'
      BY <1>1, <2>1, GoingOnKeepsBase
    <2>3. QED
      BY <1>1, <2>1, <2>2 DEF GameInv, SlotsInv, DailyInv, RangeInv, ResultInv, Going
  <1>3. CASE SlotsFor(req.date) # {}
    <2>1. /\ IsRequest' /\ req'.since = req.since /\ req'.op = "daily" /\ req'.stage = "progress"
          /\ req'.slots = SlotsFor(req.date) /\ req'.requested = req.requested
          /\ req'.fallback = req.fallback /\ req'.date = req.date
      BY <1>1, <1>3 DEF DailyAgain, Go, BaseInv, IsRequest
    <2>2. BaseInv' /\ steady' = steady /\ ever' = ever
      BY <1>1, <2>1, GoingOnKeepsBase
    <2>3. SlotsInv'
      BY <2>1, SlotsReadSound DEF SlotsInv, SlotsFor
    <2>4. ReadFor(req.date, SlotsFor(req.date))
      BY <1>1, SlotsRead
    <2>5. ReadFor(req.date, req.slots)'
      BY <2>1, <2>2, <2>4 DEF ReadFor
    <2>6. Latest'
      BY <1>1, <2>1, <2>2 DEF Latest
    <2>7. DailyInv' /\ RangeInv' /\ ResultInv'
      BY <1>1, <2>1, <2>5, <2>6 DEF DailyInv, RangeInv, ResultInv
    <2>8. QED
      BY <2>2, <2>3, <2>7 DEF GameInv
  <1>4. QED
    BY <1>2, <1>3

LEMMA DailyProgressKeepsInv == ASSUME BaseInv, GameInv, DailyProgress PROVE BaseInv' /\ GameInv'
  <1> DEFINE played == PlayedIn(attempts, req.slots)
  <1>1. req.op = "daily" /\ req.stage = "progress" /\ Unchanged /\ Going
    BY DEF DailyProgress, At, Going
  <1>2. /\ IsRequest' /\ req'.since = req.since /\ req'.op = "daily" /\ req'.stage = "marks"
        /\ req'.slots = req.slots /\ req'.requested = req.requested
        /\ req'.fallback = req.fallback /\ req'.date = req.date
        /\ req'.progress = Progress(req.slots, played)
    BY <1>1 DEF DailyProgress, Go, BaseInv, IsRequest
  <1>3. BaseInv' /\ steady' = steady /\ ever' = ever /\ kept' = kept /\ known' = known
    BY <1>1, <1>2, GoingOnKeepsBase
  <1>4. PointsInto(Progress(req.slots, played), req.slots)
    <2>1. MarksOf(req.slots, played) /\ played \subseteq VersionsOf(req.slots)
      BY <1>1, MarksRead DEF PlayedIn
    <2>2. QED
      BY <2>1, ProgressRead DEF GameInv, SlotsInv
  <1> HIDE DEF played
  <1>5. PointsInto(req.progress, req.slots)'
    BY <1>2, <1>3, <1>4 DEF PointsInto
  <1>6. SlotsInv'
    BY <1>2 DEF GameInv, SlotsInv
  <1>7. DailyInv'
    BY <1>1, <1>2, <1>3, <1>5 DEF GameInv, DailyInv, Going, Latest, ReadFor
  <1>8. RangeInv' /\ ResultInv'
    BY <1>2 DEF RangeInv, ResultInv
  <1>9. QED
    BY <1>3, <1>6, <1>7, <1>8 DEF GameInv

LEMMA DailyMarksKeepsInv == ASSUME BaseInv, GameInv, DailyMarks PROVE BaseInv' /\ GameInv'
  <1> DEFINE played == PlayedIn(attempts, req.slots)
  <1>1. req.op = "daily" /\ req.stage = "marks" /\ Unchanged /\ Going
    BY DEF DailyMarks, At, Going
  <1>2. /\ IsRequest' /\ req'.since = req.since /\ req'.op = "daily" /\ req'.stage = "answered"
        /\ req'.slots = req.slots /\ req'.requested = req.requested /\ req'.refused = req.refused
        /\ req'.fallback = req.fallback /\ req'.date = req.date
        /\ req'.progress = req.progress /\ req'.marks = played
    BY <1>1 DEF DailyMarks, Go, Answer, BaseInv, IsRequest
  <1>3. BaseInv' /\ steady' = steady /\ ever' = ever /\ kept' = kept /\ known' = known
    BY <1>1, <1>2, GoingOnKeepsBase
  <1>4. MarksOf(req.slots, played)
    BY <1>1, MarksRead
  <1> HIDE DEF played
  <1>5. MarksOf(req.slots, req.marks)'
    BY <1>2, <1>3, <1>4 DEF MarksOf
  <1>6. SlotsInv'
    BY <1>2 DEF GameInv, SlotsInv
  <1>7. DailyInv'
    BY <1>1, <1>2, <1>3, <1>5 DEF GameInv, DailyInv, Going, Latest, ReadFor, PointsInto
  <1>8. RangeInv' /\ ResultInv'
    BY <1>2 DEF RangeInv, ResultInv
  <1>9. QED
    BY <1>3, <1>6, <1>7, <1>8 DEF GameInv

LEMMA RangeKeepsInv == ASSUME BaseInv, GameInv, RangeSlots \/ RangeMarks PROVE BaseInv' /\ GameInv'
  <1>1. CASE RangeSlots
    <2>1. /\ Unchanged /\ req.stage # "idle" /\ IsRequest' /\ req'.since = req.since
          /\ req'.op = "range" /\ req'.stage = "marks" /\ req'.slots \subseteq Slots(calendar)
      BY <1>1 DEF RangeSlots, At, Go, BaseInv, IsRequest
    <2>2. BaseInv'
      BY <2>1, GoingOnKeepsBase
    <2>3. SlotsInv'
      BY <2>1, SlotsReadSound DEF SlotsInv
    <2>4. QED
      BY <2>1, <2>2, <2>3 DEF GameInv, DailyInv, RangeInv, ResultInv
  <1>2. CASE RangeMarks
    <2> DEFINE played == PlayedIn(attempts, req.slots)
    <2>1. /\ Unchanged /\ req.stage # "idle" /\ IsRequest' /\ req'.since = req.since
          /\ req'.op = "range" /\ req'.slots = req.slots /\ req'.marks = played
      BY <1>2 DEF RangeMarks, At, Go, Answer, BaseInv, IsRequest
    <2>2. BaseInv' /\ kept' = kept /\ known' = known
      BY <2>1, GoingOnKeepsBase
    <2>3. MarksOf(req.slots, played)
      BY <2>1, MarksRead
    <2> HIDE DEF played
    <2>4. MarksOf(req.slots, req.marks)'
      BY <2>1, <2>2, <2>3 DEF MarksOf
    <2>5. SlotsInv'
      BY <2>1 DEF GameInv, SlotsInv
    <2>6. QED
      BY <2>1, <2>2, <2>4, <2>5 DEF GameInv, DailyInv, RangeInv, ResultInv
  <1>3. QED
    BY <1>1, <1>2

LEMMA ResultFindKeepsInv == ASSUME BaseInv, GameInv, ResultFind PROVE BaseInv' /\ GameInv'
  <1>1. /\ Unchanged /\ req.stage # "idle" /\ IsRequest' /\ req'.since = req.since
        /\ req'.op = "result" /\ req'.slots = req.slots
        /\ req'.stage = "date" \/ (req'.stage = "answered" /\ req'.refused)
    <2>1. PICK a \in attempts : IF a.valid THEN Go("date", [req EXCEPT !.version = a.version]) ELSE Refuse
      BY DEF ResultFind
    <2>2. CASE a.valid
      BY <2>1, <2>2 DEF ResultFind, At, Go, BaseInv, IsRequest
    <2>3. CASE ~a.valid
      BY <2>1, <2>3 DEF ResultFind, At, Go, Answer, Refuse, BaseInv, IsRequest
    <2>4. QED
      BY <2>2, <2>3
  <1>2. BaseInv'
    BY <1>1, GoingOnKeepsBase
  <1>3. QED
    BY <1>1, <1>2 DEF GameInv, SlotsInv, DailyInv, RangeInv, ResultInv, Going

LEMMA ResultDateKeepsInv == ASSUME BaseInv, GameInv, ResultDate PROVE BaseInv' /\ GameInv'
  <1> DEFINE dates == {s.date : s \in {t \in Slots(calendar) : t.version = req.version}}
  <1>1. /\ Unchanged /\ req.stage # "idle" /\ IsRequest' /\ req'.since = req.since
        /\ req'.op = "result" /\ req'.stage = "slots" /\ req'.slots = req.slots /\ req'.version = req.version
        /\ req'.date = IF dates = {} THEN day ELSE Max(dates)
    BY DEF ResultDate, At, Go, BaseInv, IsRequest
  <1>2. BaseInv' /\ steady' = steady
    BY <1>1, GoingOnKeepsBase
  <1>3. ASSUME NEW s \in steady, s.version = req.version PROVE s.date = req'.date
    <2>1. s \in Slots(calendar)
      BY <1>1 DEF BaseInv, Lasting
    <2>2. dates = {s.date}
      BY <1>3, <2>1, OneSlotPerVersion DEF BaseInv
    <2>3. dates \in SUBSET (0 .. LastDay)
      BY <2>1, <2>2, SlotsTyped, DatesAreNumbers DEF BaseInv, TypeOK, Slot
    <2>4. Max(dates) \in dates
      BY <2>2, <2>3, DatesAreNumbers, MaxIsGreatest
    <2>5. QED
      BY <1>1, <2>2, <2>4
  <1>4. SlotsInv'
    BY <1>1 DEF GameInv, SlotsInv
  <1> HIDE DEF dates
  <1>5. ResultInv'
    BY <1>1, <1>2, <1>3 DEF ResultInv
  <1>6. QED
    BY <1>1, <1>2, <1>4, <1>5 DEF GameInv, DailyInv, RangeInv

LEMMA ResultSlotsKeepsInv == ASSUME BaseInv, GameInv, ResultSlots PROVE BaseInv' /\ GameInv'
  <1>1. /\ Unchanged /\ req.op = "result" /\ req.stage = "slots" /\ IsRequest' /\ req'.since = req.since
        /\ req'.op = "result" /\ req'.stage = "progress" /\ req'.slots = SlotsFor(req.date)
        /\ req'.version = req.version /\ req'.date = req.date
    BY DEF ResultSlots, At, Go, BaseInv, IsRequest
  <1>2. BaseInv' /\ steady' = steady /\ ever' = ever
    BY <1>1, GoingOnKeepsBase
  <1>3. SlotsInv'
    BY <1>1, SlotsReadSound DEF SlotsInv, SlotsFor
  <1>4. ReadFor(req.date, SlotsFor(req.date))
    BY <1>1, SlotsRead
  <1>5. ReadFor(req.date, req.slots)'
    BY <1>1, <1>2, <1>4 DEF ReadFor
  <1>6. ResultInv'
    BY <1>1, <1>2, <1>5 DEF GameInv, ResultInv, Going
  <1>7. QED
    BY <1>1, <1>2, <1>3, <1>6 DEF GameInv, DailyInv, RangeInv

LEMMA ResultProgressKeepsInv == ASSUME BaseInv, GameInv, ResultProgress PROVE BaseInv' /\ GameInv'
  <1> DEFINE played == PlayedIn(attempts, req.slots)
             p == Progress(req.slots, played)
  <1>1. /\ Unchanged /\ req.op = "result" /\ req.stage = "progress" /\ IsRequest' /\ req'.since = req.since
        /\ req'.op = "result" /\ req'.stage = "answered" /\ req'.slots = req.slots
        /\ req'.version = req.version /\ req'.date = req.date /\ req'.marks = played /\ req'.progress = p
    BY DEF ResultProgress, At, Go, Answer, BaseInv, IsRequest
  <1>2. BaseInv' /\ steady' = steady /\ ever' = ever /\ kept' = kept /\ known' = known
    BY <1>1, GoingOnKeepsBase
  <1>3. MarksOf(req.slots, played) /\ played \subseteq VersionsOf(req.slots)
    BY <1>1, MarksRead DEF PlayedIn
  <1>4. PointsInto(p, req.slots) /\ (played # {} => p.completed > 0)
    BY <1>3, ProgressRead DEF GameInv, SlotsInv
  <1> HIDE DEF played, p
  <1>5. \A s \in req.slots : (\E a \in kept : a.version = s.version) => p.completed > 0
    BY <1>3, <1>4 DEF MarksOf, VersionsOf
  <1>6. MarksOf(req.slots, req.marks)' /\ PointsInto(req.progress, req.slots)'
    BY <1>1, <1>2, <1>3, <1>4 DEF MarksOf, PointsInto
  <1>7. SlotsInv'
    BY <1>1 DEF GameInv, SlotsInv
  <1>8. ReadFor(req.date, req.slots)'
    BY <1>1, <1>2 DEF GameInv, ResultInv, Going, ReadFor
  <1>9. ResultInv'
    BY <1>1, <1>2, <1>5, <1>6, <1>8 DEF GameInv, ResultInv, Going
  <1>10. QED
    BY <1>1, <1>2, <1>7, <1>9 DEF GameInv, DailyInv, RangeInv

\* The readers of the history and of the statistics leave the games alone.
LEMMA OthersKeepInv ==
    ASSUME BaseInv, GameInv, HistoryPage \/ StatsAttempts \/ StatsSlots
    PROVE  BaseInv' /\ GameInv'
  <1>1. /\ Unchanged /\ req.stage # "idle" /\ IsRequest' /\ req'.since = req.since
        /\ req'.slots = req.slots /\ req'.op \in {"history", "stats"}
    <2>1. CASE HistoryPage
      <3>1. CASE Len(Sorted(Below(req.cursor), Newer)) > PageSize
        <4>1. PICK listed, cursor : req' = [[req EXCEPT !.listed = listed, !.cursor = cursor] EXCEPT !.stage = "page"]
          BY <2>1, <3>1 DEF HistoryPage, Go
        <4>2. QED
          BY <2>1, <4>1 DEF HistoryPage, At, BaseInv, IsRequest
      <3>2. CASE ~(Len(Sorted(Below(req.cursor), Newer)) > PageSize)
        <4>1. PICK listed : req' = [[req EXCEPT !.listed = listed] EXCEPT !.stage = "answered"]
          BY <2>1, <3>2 DEF HistoryPage, Go, Answer
        <4>2. QED
          BY <2>1, <4>1 DEF HistoryPage, At, BaseInv, IsRequest
      <3>3. QED
        BY <3>1, <3>2
    <2>2. CASE StatsAttempts
      BY <2>2 DEF StatsAttempts, At, Go, BaseInv, IsRequest
    <2>3. CASE StatsSlots
      BY <2>3 DEF StatsSlots, At, Go, Answer, BaseInv, IsRequest
    <2>4. QED
      BY <2>1, <2>2, <2>3
  <1>2. BaseInv'
    BY <1>1, GoingOnKeepsBase
  <1>3. QED
    BY <1>1, <1>2 DEF GameInv, SlotsInv, DailyInv, RangeInv, ResultInv

LEMMA NextKeepsInv == ASSUME BaseInv, GameInv, [Next]_vars PROVE BaseInv' /\ GameInv'
  <1>1. CASE Environment
    <2>1. BaseInv' /\ (req' = req \/ Narrowed)
      BY <1>1, EnvironmentKeepsBase
    <2>2. req' = req => GameInv'
      BY DEF GameInv, SlotsInv, DailyInv, RangeInv, ResultInv, Going, Latest, ReadFor, MarksOf, PointsInto,
             steady, ever, kept, known
    <2>3. Narrowed => GameInv'
      BY NarrowedKeepsGame DEF BaseInv
    <2>4. QED
      BY <2>1, <2>2, <2>3
  <1>2. CASE Start
    BY <1>2, StartKeepsInv
  <1>3. CASE Handle
    BY <1>3, DailySlotsKeepsInv, DailyLatestKeepsInv, DailyAgainKeepsInv, DailyProgressKeepsInv,
       DailyMarksKeepsInv, RangeKeepsInv, ResultFindKeepsInv, ResultDateKeepsInv, ResultSlotsKeepsInv,
       ResultProgressKeepsInv, OthersKeepInv DEF Handle
  <1>4. CASE UNCHANGED vars
    BY <1>4 DEF vars, BaseInv, TypeOK, IsRequest, OnePlace, OneId, Lasting, Slots, Valid, Official,
       GameInv, SlotsInv, DailyInv, RangeInv, ResultInv, Going, Latest, ReadFor, MarksOf, PointsInto,
       steady, ever, kept, known
  <1>5. QED
    BY <1>1, <1>2, <1>3, <1>4 DEF Next

LEMMA InitInv == Init => BaseInv /\ GameInv
  BY InitBaseInv, FS_EmptySet DEF Init, Idle, GameInv, SlotsInv, DailyInv, RangeInv, ResultInv

\* The rows the readers of src/application/public-api.ts see, and what a request
\* has read of them, at every step of every behaviour.
THEOREM GameInvariance == Spec => [](BaseInv /\ GameInv)
  BY InitInv, NextKeepsInv, PTL DEF Spec

\* getDailyGame: the game served for today is never older than one that stayed
\* published all along, a dated one is of its date, and its spots are those published.
THEOREM GameIsCurrentHolds == Spec => []GameIsCurrent
  <1>1. BaseInv /\ GameInv => GameIsCurrent
    BY DEF GameInv, DailyInv, Going, Latest, ReadFor, GameIsCurrent, Answered
  <1>2. QED
    BY <1>1, GameInvariance, PTL

\* isCompleted, in getDailyGame, getDailyGameRange and after a submission: only
\* what was played is marked, all that stayed played is, and a result counts in
\* the progress of the date its version is published for.
THEOREM MarksTrueHolds == Spec => []MarksTrue
  <1>1. BaseInv /\ GameInv => MarksTrue
    BY DEF GameInv, DailyInv, RangeInv, ResultInv, Going, ReadFor, MarksOf, MarksTrue, Answered
  <1>2. QED
    BY <1>1, GameInvariance, PTL

\* progressFor: complete exactly when nothing is left, and the next spot is the
\* first that was not played.
THEOREM ProgressPointsHolds == Spec => []ProgressPoints
  <1>1. BaseInv /\ GameInv => ProgressPoints
    BY DEF GameInv, DailyInv, ResultInv, Going, PointsInto, ProgressPoints, Answered
  <1>2. QED
    BY <1>1, GameInvariance, PTL

-----------------------------------------------------------------------------
(* Rows in order.                                                          *)

StrictOrder(R, S) ==
    /\ \A s \in S : <<s, s>> \notin R
    /\ \A s, t, u \in S : <<s, t>> \in R /\ <<t, u>> \in R => <<s, u>> \in R
    /\ \A s, t \in S : s = t \/ <<s, t>> \in R \/ <<t, s>> \in R

InOrder(rows, R) == \A i, j \in DOMAIN rows : i < j => <<rows[i], rows[j]>> \in R

\* The place of an element is the number of those before it.
LEMMA OrderedRowsExist ==
    ASSUME NEW S, IsFiniteSet(S), NEW R, StrictOrder(R, S)
    PROVE  \E rows \in [1 .. Cardinality(S) -> S] : InOrder(rows, R)
  <1> DEFINE n == Cardinality(S)
             Before(s) == {t \in S : <<t, s>> \in R}
             rank == [s \in S |-> Cardinality(Before(s)) + 1]
  <1>1. n \in Nat
    BY FS_CardinalityType
  <1>2. \A s \in S : IsFiniteSet(Before(s)) /\ Cardinality(Before(s)) \in Nat
    <2>1. TAKE s \in S
    <2>2. Before(s) \in SUBSET S
      OBVIOUS
    <2>3. IsFiniteSet(Before(s))
      BY <2>2, FS_Subset, Zenon
    <2>4. QED
      BY <2>3, FS_CardinalityType
  <1>3. ASSUME NEW s \in S PROVE Cardinality(Before(s)) <= n - 1
    <2>1. Before(s) \in SUBSET (S \ {s})
      BY DEF StrictOrder
    <2>2. IsFiniteSet(S \ {s}) /\ Cardinality(S \ {s}) = n - 1
      BY FS_RemoveElement
    <2> HIDE DEF Before, n
    <2>3. Cardinality(Before(s)) <= Cardinality(S \ {s})
      BY <2>1, <2>2, FS_Subset, Zenon
    <2>4. QED
      BY <2>2, <2>3
  <1>4. ASSUME NEW s \in S, NEW t \in S, <<s, t>> \in R
        PROVE  Cardinality(Before(s)) < Cardinality(Before(t))
    <2>1. Before(s) \cup {s} \in SUBSET Before(t) /\ s \notin Before(s)
      BY <1>4 DEF StrictOrder
    <2>2. Cardinality(Before(s) \cup {s}) = Cardinality(Before(s)) + 1
      BY <1>2, <2>1, FS_AddElement
    <2>3. Cardinality(Before(s) \cup {s}) <= Cardinality(Before(t))
      BY <1>2, <2>1, FS_Subset
    <2>4. QED
      BY <1>2, <2>2, <2>3
  <1>5. rank \in [S -> 1 .. n] /\ \A s \in S : rank[s] = Cardinality(Before(s)) + 1
    <2> HIDE DEF Before
    <2>1. QED
      BY <1>1, <1>2, <1>3
  <1> HIDE DEF rank, Before
  <1>6. \A s, t \in S : <<s, t>> \in R => rank[s] < rank[t]
    BY <1>2, <1>4, <1>5
  <1>7. rank \in Injection(S, 1 .. n)
    <2>1. \A s, t \in S : rank[s] = rank[t] => s = t
      <3>1. SUFFICES ASSUME NEW s \in S, NEW t \in S, s # t PROVE rank[s] # rank[t]
        OBVIOUS
      <3>2. rank[s] \in Int /\ rank[t] \in Int
        BY <1>5
      <3>3. <<s, t>> \in R \/ <<t, s>> \in R
        BY <3>1 DEF StrictOrder
      <3>4. rank[s] < rank[t] \/ rank[t] < rank[s]
        BY <1>6, <3>3, Zenon
      <3>5. QED
        BY <3>2, <3>4
    <2>2. QED
      BY <1>5, <2>1 DEF Injection, IsInjective
  <1>8. rank \in Surjection(S, 1 .. n)
    <2>1. IsFiniteSet(1 .. n) /\ Cardinality(1 .. n) = n
      BY <1>1, FS_Interval
    <2>2. QED
      BY <1>7, <2>1, FS_Injection
  <1> DEFINE rows == [i \in 1 .. n |-> CHOOSE s \in S : rank[s] = i]
  <1>9. \A i \in 1 .. n : rows[i] \in S /\ rank[rows[i]] = i
    <2>1. \A i \in 1 .. n : \E s \in S : rank[s] = i
      BY <1>8 DEF Surjection
    <2>2. QED
      BY <2>1
  <1>10. rows \in [1 .. n -> S] /\ DOMAIN rows = 1 .. n
    BY <1>9
  <1> HIDE DEF rows
  <1>11. ASSUME NEW i \in 1 .. n, NEW j \in 1 .. n, i < j PROVE <<rows[i], rows[j]>> \in R
    <2>1. /\ rows[i] \in S /\ rows[j] \in S /\ rows[i] # rows[j]
          /\ ~(rank[rows[j]] < rank[rows[i]])
      BY <1>9, <1>11
    <2>2. QED
      BY <1>6, <2>1 DEF StrictOrder
  <1>12. QED
    BY <1>10, <1>11 DEF InOrder

\* Rows in order hold each element of the set once.
LEMMA OrderedRowsCover ==
    ASSUME NEW S, IsFiniteSet(S), NEW R, StrictOrder(R, S),
           NEW rows \in [1 .. Cardinality(S) -> S], InOrder(rows, R)
    PROVE  /\ rows \in Seq(S) /\ Len(rows) = Cardinality(S) /\ Cardinality(S) \in Nat
           /\ \A s \in S : \E i \in 1 .. Len(rows) : rows[i] = s
  <1> DEFINE n == Cardinality(S)
  <1>1. n \in Nat
    BY FS_CardinalityType
  <1>2. rows \in Seq(S) /\ Len(rows) = n
    BY <1>1
  <1>3. rows \in Injection(1 .. n, S)
    <2>1. ASSUME NEW i \in 1 .. n, NEW j \in 1 .. n, i < j PROVE rows[i] # rows[j]
      BY <2>1 DEF InOrder, StrictOrder
    <2>2. \A i, j \in 1 .. n : rows[i] = rows[j] => i = j
      <3>1. \A i, j \in 1 .. n : i = j \/ i < j \/ j < i
        BY <1>1
      <3>2. QED
        BY <2>1, <3>1
    <2>3. QED
      BY <2>2 DEF Injection, IsInjective
  <1>4. rows \in Surjection(1 .. n, S)
    <2>1. IsFiniteSet(1 .. n) /\ Cardinality(1 .. n) = n
      BY <1>1, FS_Interval
    <2>2. QED
      BY <1>3, <2>1, FS_Injection
  <1>5. QED
    BY <1>1, <1>2, <1>4 DEF Surjection

-----------------------------------------------------------------------------
(* The history.                                                            *)

LEMMA AttemptNumbers == \A a \in Attempt : a.id \in Int /\ a.time \in Int
  <1>1. Ids \subseteq Int
    BY ServingAssumption
  <1>2. Dates \subseteq Int
    BY DatesAreNumbers
  <1>3. QED
    BY <1>1, <1>2 DEF Attempt

LEMMA NewerIsStrict ==
    ASSUME NEW S, S \subseteq Attempt, \A a, b \in S : a.id = b.id => a = b
    PROVE  LET R == {p \in S \X S : Newer(p[1], p[2])} IN
              StrictOrder(R, S) /\ \A a, b \in S : <<a, b>> \in R <=> Newer(a, b)
  <1> DEFINE R == {p \in S \X S : Newer(p[1], p[2])}
  <1>1. \A a \in S : a.id \in Int /\ a.time \in Int
    BY AttemptNumbers
  <1>2. \A a, b \in S : <<a, b>> \in R <=> Newer(a, b)
    OBVIOUS
  <1>3. \A a \in S : ~Newer(a, a)
    BY <1>1 DEF Newer
  <1>4. ASSUME NEW a \in S, NEW b \in S, NEW c \in S, Newer(a, b), Newer(b, c) PROVE Newer(a, c)
    BY <1>1, <1>4 DEF Newer
  <1>5. ASSUME NEW a \in S, NEW b \in S PROVE a = b \/ Newer(a, b) \/ Newer(b, a)
    BY <1>1 DEF Newer
  <1> HIDE DEF R
  <1>6. StrictOrder(R, S)
    BY <1>2, <1>3, <1>4, <1>5 DEF StrictOrder
  <1>7. QED
    BY <1>2, <1>6 DEF R

LEMMA NewestFirst ==
    ASSUME BaseInv, NEW S, S \subseteq Valid(attempts)
    PROVE  LET rows == Sorted(S, Newer) IN
           /\ rows \in Seq(S)
           /\ \A i, j \in 1 .. Len(rows) : i < j => Newer(rows[i], rows[j])
           /\ \A a \in S : \E i \in 1 .. Len(rows) : rows[i] = a
  <1> DEFINE rows == Sorted(S, Newer)
             R == {p \in S \X S : Newer(p[1], p[2])}
             n == Cardinality(S)
  <1>1. S \subseteq Attempt /\ IsFiniteSet(S) /\ \A a, b \in S : a.id = b.id => a = b
    BY FS_Subset DEF BaseInv, TypeOK, OneId, Valid
  <1>2. StrictOrder(R, S) /\ \A a, b \in S : <<a, b>> \in R <=> Newer(a, b)
    BY <1>1, NewerIsStrict, Zenon
  <1>3. rows = CHOOSE q \in [1 .. n -> S] : \A i, j \in DOMAIN q : i < j => Newer(q[i], q[j])
    BY Zenon DEF Sorted
  <1> HIDE DEF rows, R, n
  <1>4. PICK q \in [1 .. n -> S] : InOrder(q, R)
    BY <1>1, <1>2, OrderedRowsExist DEF n
  <1>5. \A i, j \in DOMAIN q : i < j => Newer(q[i], q[j])
    BY <1>2, <1>4 DEF InOrder
  <1>6. rows \in [1 .. n -> S] /\ \A i, j \in DOMAIN rows : i < j => Newer(rows[i], rows[j])
    BY <1>3, <1>5, Zenon
  <1>7. InOrder(rows, R)
    BY <1>2, <1>6 DEF InOrder
  <1>8. /\ rows \in Seq(S) /\ Len(rows) = n
        /\ \A a \in S : \E i \in 1 .. Len(rows) : rows[i] = a
    BY <1>1, <1>2, <1>6, <1>7, OrderedRowsCover DEF n
  <1>9. QED
    BY <1>6, <1>8 DEF rows

Cursors == [time : Dates, id : Ids]

\* What is listed is in order, was valid once, and whatever stayed valid is listed
\* or comes after the cursor.
Listed(listed) ==
    /\ listed \in Seq(Attempt)
    /\ \A i, j \in 1 .. Len(listed) : i < j => Newer(listed[i], listed[j])
    /\ \A i \in 1 .. Len(listed) : listed[i] \in req.since.known

Rest(listed, cursor) ==
    \A a \in req.since.kept :
        (\E i \in 1 .. Len(listed) : listed[i] = a) \/ cursor = None \/ Newer(cursor, a)

HistoryInv ==
    req.op = "history" /\ Going =>
        /\ Listed(req.listed)
        /\ req.stage = "page" =>
              /\ \/ req.cursor = None /\ req.listed = <<>>
                 \/ /\ req.cursor \in Cursors /\ Len(req.listed) > 0
                    /\ req.cursor.time = req.listed[Len(req.listed)].time
                    /\ req.cursor.id = req.listed[Len(req.listed)].id
              /\ Rest(req.listed, req.cursor)
        /\ req.stage = "answered" => \A a \in req.since.kept : \E i \in 1 .. Len(req.listed) : req.listed[i] = a

\* The rows of a page are newer than nothing that was listed before.
LEMMA PageFollows ==
    ASSUME NEW listed, Listed(listed), NEW cursor \in Cursors, Len(listed) > 0,
           cursor.time = listed[Len(listed)].time, cursor.id = listed[Len(listed)].id,
           NEW a \in Attempt, Newer(cursor, a), NEW i \in 1 .. Len(listed)
    PROVE  Newer(listed[i], a)
  <1> DEFINE last == listed[Len(listed)]
  <1>1. Len(listed) \in Nat /\ Len(listed) \in 1 .. Len(listed) /\ listed[i] \in Attempt /\ last \in Attempt
    BY DEF Listed
  <1>2. \A b \in Attempt : b.id \in Int /\ b.time \in Int
    BY AttemptNumbers
  <1>3. Newer(last, a)
    BY DEF Newer
  <1>4. i = Len(listed) \/ Newer(listed[i], last)
    BY <1>1 DEF Listed
  <1> HIDE DEF last
  <1>5. CASE i = Len(listed)
    BY <1>3, <1>5 DEF last
  <1>6. CASE Newer(listed[i], last)
    <2>1. /\ listed[i].id \in Int /\ listed[i].time \in Int /\ last.id \in Int /\ last.time \in Int
          /\ a.id \in Int /\ a.time \in Int
      BY <1>1, <1>2
    <2>2. QED
      BY <1>3, <1>6, <2>1 DEF Newer
  <1>7. QED
    BY <1>4, <1>5, <1>6

\* The page and what was listed before, put together: in order still.
LEMMA PageAppends ==
    ASSUME BaseInv, req.stage # "idle", HistoryInv, req.op = "history", req.stage = "page",
           NEW page \in Seq(Below(req.cursor)),
           \A i, j \in 1 .. Len(page) : i < j => Newer(page[i], page[j])
    PROVE  Listed(req.listed \o page)
  <1> DEFINE listed == req.listed
             all == listed \o page
             n == Len(listed)
  <1>1. Going
    BY DEF Going
  <1>2. Listed(listed)
    BY <1>1 DEF HistoryInv
  <1>3. \A i \in 1 .. Len(page) : page[i] \in Valid(attempts) /\ (req.cursor = None \/ Newer(req.cursor, page[i]))
    BY DEF Below
  <1>4. \A a \in Valid(attempts) : a \in Attempt /\ a \in req.since.known
    BY DEF BaseInv, TypeOK, Lasting, Valid
  <1>5. page \in Seq(Attempt) /\ Len(page) \in Nat
    BY <1>3, <1>4
  <1>6. listed \in Seq(Attempt) /\ n \in Nat
    BY <1>2 DEF Listed
  <1>7. /\ all \in Seq(Attempt) /\ Len(all) = n + Len(page)
        /\ \A i \in 1 .. Len(all) : all[i] = IF i <= n THEN listed[i] ELSE page[i - n]
    BY <1>5, <1>6
  <1>8. ASSUME NEW i \in 1 .. n, NEW j \in 1 .. Len(page) PROVE Newer(listed[i], page[j])
    <2>1. n > 0
      BY <1>6
    <2>2. /\ req.cursor \in Cursors
          /\ req.cursor.time = listed[n].time /\ req.cursor.id = listed[n].id
      BY <1>1, <2>1 DEF HistoryInv
    <2>3. req.cursor # None
      BY <2>2, ServingAssumption DEF Cursors
    <2>4. page[j] \in Attempt /\ Newer(req.cursor, page[j])
      BY <1>3, <1>4, <2>3
    <2>5. QED
      BY <1>2, <2>1, <2>2, <2>4, PageFollows
  <1> HIDE DEF listed, all, n
  <1>9. ASSUME NEW i \in 1 .. Len(all), NEW j \in 1 .. Len(all), i < j PROVE Newer(all[i], all[j])
    <2>1. CASE j <= n
      <3>1. i \in 1 .. n /\ j \in 1 .. n /\ all[i] = listed[i] /\ all[j] = listed[j]
        BY <1>5, <1>6, <1>7, <1>9, <2>1
      <3>2. QED
        BY <1>2, <1>9, <3>1 DEF Listed, n
    <2>2. CASE i <= n /\ ~(j <= n)
      <3>1. i \in 1 .. n /\ j - n \in 1 .. Len(page) /\ all[i] = listed[i] /\ all[j] = page[j - n]
        BY <1>5, <1>6, <1>7, <1>9, <2>2
      <3>2. QED
        BY <1>8, <3>1
    <2>3. CASE ~(i <= n)
      <3>1. /\ i - n \in 1 .. Len(page) /\ j - n \in 1 .. Len(page) /\ i - n < j - n
            /\ all[i] = page[i - n] /\ all[j] = page[j - n]
        BY <1>5, <1>6, <1>7, <1>9, <2>3
      <3>2. QED
        BY <3>1
    <2>4. QED
      BY <1>6, <2>1, <2>2, <2>3
  <1>10. ASSUME NEW i \in 1 .. Len(all) PROVE all[i] \in req.since.known
    <2>1. CASE i <= n
      <3>1. i \in 1 .. n /\ all[i] = listed[i]
        BY <1>5, <1>6, <1>7, <2>1
      <3>2. QED
        BY <1>2, <3>1 DEF Listed, n
    <2>2. CASE ~(i <= n)
      <3>1. i - n \in 1 .. Len(page) /\ all[i] = page[i - n]
        BY <1>5, <1>6, <1>7, <2>2
      <3>2. QED
        BY <1>3, <1>4, <3>1
    <2>3. QED
      BY <2>1, <2>2
  <1>11. QED
    BY <1>7, <1>9, <1>10 DEF Listed, all, listed

LEMMA FirstRows ==
    ASSUME NEW S, NEW rows \in Seq(S), NEW k \in Nat \ {0}, Len(rows) > k
    PROVE  LET page == SubSeq(rows, 1, k) IN
           /\ page \in Seq(S) /\ Len(page) = k /\ k \in 1 .. Len(rows)
           /\ \A i \in 1 .. k : page[i] = rows[i] /\ i \in 1 .. Len(rows)
           /\ Last(page) = rows[k] /\ rows[k] \in S
  <1> DEFINE page == SubSeq(rows, 1, k)
  <1>1. Len(rows) \in Nat /\ k \in 1 .. Len(rows) /\ \A i \in 1 .. k : i \in 1 .. Len(rows)
    OBVIOUS
  <1>2. rows[k] \in S
    BY <1>1
  <1>3. page = [i \in 1 .. k |-> rows[i]]
    BY <1>1
  <1>4. \A i \in 1 .. k : rows[i] \in S
    BY <1>1
  <1>5. page \in Seq(S) /\ Len(page) = k
    BY <1>3, <1>4
  <1>6. \A i \in 1 .. k : page[i] = rows[i]
    BY <1>3
  <1> HIDE DEF page
  <1>7. Last(page) = page[k] /\ k \in 1 .. k
    BY <1>5 DEF Last
  <1>8. QED
    BY <1>1, <1>2, <1>5, <1>6, <1>7 DEF page

LEMMA HistoryPageKeepsInv == ASSUME BaseInv, HistoryInv, HistoryPage PROVE HistoryInv'
  <1> DEFINE S == Below(req.cursor)
             rows == Sorted(S, Newer)
             page == SubSeq(rows, 1, PageSize)
  <1>1. /\ req.op = "history" /\ req.stage = "page" /\ Unchanged /\ Going /\ req.stage # "idle"
    BY DEF HistoryPage, At, Going
  <1>2. S \subseteq Valid(attempts)
    BY DEF Below
  <1>3. /\ rows \in Seq(S) /\ \A i, j \in 1 .. Len(rows) : i < j => Newer(rows[i], rows[j])
        /\ \A a \in S : \E i \in 1 .. Len(rows) : rows[i] = a
    BY <1>2, NewestFirst, Zenon
  <1>4. \A a \in req.since.kept : (\E i \in 1 .. Len(req.listed) : req.listed[i] = a) \/ a \in S
    BY <1>1 DEF HistoryInv, Rest, Below, BaseInv, Lasting
  <1>5. req.listed \in Seq(Attempt) /\ Len(req.listed) \in Nat
    BY <1>1 DEF HistoryInv, Listed
  <1>6. S \subseteq Attempt
    BY <1>2 DEF BaseInv, TypeOK, Valid
  <1>7. CASE Len(rows) > PageSize
    <2>1. req' = [[req EXCEPT !.listed = @ \o page,
                              !.cursor = [time |-> Last(page).time, id |-> Last(page).id]] EXCEPT !.stage = "page"]
      BY <1>7 DEF HistoryPage, Go
    <2> HIDE DEF S, rows
    <2>2. /\ page \in Seq(S) /\ Len(page) = PageSize /\ PageSize \in 1 .. Len(rows) /\ PageSize \in Nat
          /\ \A i \in 1 .. PageSize : page[i] = rows[i] /\ i \in 1 .. Len(rows)
          /\ Last(page) = rows[PageSize] /\ rows[PageSize] \in S
      <3>1. PageSize \in Nat \ {0}
        BY ServingAssumption
      <3>2. QED
        BY <1>3, <1>7, <3>1, FirstRows
    <2> HIDE DEF page
    <2>3. /\ req'.op = "history" /\ req'.stage = "page" /\ req'.since = req.since
          /\ req'.listed = req.listed \o page
          /\ req'.cursor = [time |-> rows[PageSize].time, id |-> rows[PageSize].id]
      BY <1>1, <2>1, <2>2 DEF BaseInv, IsRequest
    <2>4. \A i, j \in 1 .. Len(page) : i < j => Newer(page[i], page[j])
      BY <1>3, <2>2
    <2>5. Listed(req.listed \o page)
      BY <1>1, <2>2, <2>4, PageAppends DEF S
    <2>6. Listed(req.listed)'
      BY <2>3, <2>5 DEF Listed
    <2>7. /\ Len(req.listed \o page) = Len(req.listed) + PageSize
          /\ \A i \in 1 .. Len(req.listed) : (req.listed \o page)[i] = req.listed[i]
          /\ \A i \in 1 .. PageSize : (req.listed \o page)[Len(req.listed) + i] = rows[i]
      BY <1>5, <1>6, <2>2
    <2>8. /\ req'.cursor \in Cursors /\ Len(req'.listed) > 0
          /\ req'.listed[Len(req'.listed)] = rows[PageSize]
          /\ req'.cursor.time = rows[PageSize].time /\ req'.cursor.id = rows[PageSize].id
      <3>1. rows[PageSize] \in Attempt
        BY <1>6, <2>2
      <3>2. req'.cursor \in Cursors /\ req'.cursor.time = rows[PageSize].time /\ req'.cursor.id = rows[PageSize].id
        BY <2>3, <3>1 DEF Cursors, Attempt
      <3>3. Len(req'.listed) > 0 /\ req'.listed[Len(req'.listed)] = rows[PageSize]
        BY <1>5, <2>2, <2>3, <2>7
      <3>4. QED
        BY <3>2, <3>3
    <2>9. Rest(req.listed, req.cursor)'
      <3>1. SUFFICES ASSUME NEW a \in req.since.kept
                     PROVE  (\E i \in 1 .. Len(req'.listed) : req'.listed[i] = a) \/ Newer(req'.cursor, a)
        BY <2>3 DEF Rest
      <3>2. CASE \E i \in 1 .. Len(req.listed) : req.listed[i] = a
        <4>1. PICK i \in 1 .. Len(req.listed) : req.listed[i] = a
          BY <3>2
        <4>2. i \in 1 .. Len(req'.listed) /\ req'.listed[i] = a
          BY <1>5, <2>2, <2>3, <2>7, <4>1
        <4>3. QED
          BY <4>2
      <3>3. CASE a \in S
        <4>1. PICK i \in 1 .. Len(rows) : rows[i] = a
          BY <1>3, <3>3
        <4>2. CASE i <= PageSize
          <5>1. /\ Len(req.listed) + i \in 1 .. Len(req'.listed)
                /\ req'.listed[Len(req.listed) + i] = a
            BY <1>5, <2>2, <2>3, <2>7, <4>1, <4>2
          <5>2. QED
            BY <5>1
        <4>3. CASE ~(i <= PageSize)
          <5>1. Newer(rows[PageSize], a)
            <6>1. PageSize < i
              BY <2>2, <4>1, <4>3
            <6>2. QED
              BY <1>3, <2>2, <4>1, <6>1
          <5>2. QED
            BY <2>8, <5>1 DEF Newer
        <4>4. QED
          BY <4>2, <4>3
      <3>4. QED
        BY <1>4, <3>2, <3>3
    <2>10. QED
      BY <2>3, <2>6, <2>8, <2>9 DEF HistoryInv
  <1>8. CASE ~(Len(rows) > PageSize)
    <2>1. req' = [[req EXCEPT !.listed = @ \o rows] EXCEPT !.stage = "answered"]
      BY <1>8 DEF HistoryPage, Go, Answer
    <2> HIDE DEF S, rows
    <2>2. /\ req'.op = "history" /\ req'.stage = "answered" /\ req'.since = req.since
          /\ req'.listed = req.listed \o rows
      BY <1>1, <2>1 DEF BaseInv, IsRequest
    <2>3. Listed(req.listed \o rows)
      BY <1>1, <1>3, PageAppends DEF S
    <2>4. Listed(req.listed)'
      BY <2>2, <2>3 DEF Listed
    <2>5. /\ Len(req.listed \o rows) = Len(req.listed) + Len(rows) /\ Len(rows) \in Nat
          /\ \A i \in 1 .. Len(req.listed) : (req.listed \o rows)[i] = req.listed[i]
          /\ \A i \in 1 .. Len(rows) : (req.listed \o rows)[Len(req.listed) + i] = rows[i]
      BY <1>3, <1>5, <1>6, SMTT(30)
    <2>6. ASSUME NEW a \in req.since.kept PROVE \E i \in 1 .. Len(req'.listed) : req'.listed[i] = a
      <3>1. CASE \E i \in 1 .. Len(req.listed) : req.listed[i] = a
        <4>1. PICK i \in 1 .. Len(req.listed) : req.listed[i] = a
          BY <3>1
        <4>2. i \in 1 .. Len(req'.listed) /\ req'.listed[i] = a
          BY <1>5, <2>2, <2>5, <4>1
        <4>3. QED
          BY <4>2
      <3>2. CASE a \in S
        <4>1. PICK i \in 1 .. Len(rows) : rows[i] = a
          BY <1>3, <3>2
        <4>2. Len(req.listed) + i \in 1 .. Len(req'.listed) /\ req'.listed[Len(req.listed) + i] = a
          BY <1>5, <2>2, <2>5, <4>1
        <4>3. QED
          BY <4>2
      <3>3. QED
        BY <1>4, <3>1, <3>2
    <2>7. QED
      BY <2>2, <2>4, <2>6 DEF HistoryInv
  <1>9. QED
    BY <1>7, <1>8

LEMMA NextKeepsHistory == ASSUME BaseInv, HistoryInv, [Next]_vars PROVE HistoryInv'
  <1>1. req' = req => HistoryInv'
    BY DEF HistoryInv, Going, Listed, Rest
  <1>2. Narrowed => HistoryInv'
    <2>1. SUFFICES ASSUME Narrowed PROVE HistoryInv'
      OBVIOUS
    <2>2. req'.since.kept \subseteq req.since.kept /\ req.since.known \subseteq req'.since.known
      BY <2>1 DEF Narrowed
    <2>3. /\ req'.op = req.op /\ req'.stage = req.stage /\ req'.refused = req.refused
          /\ req'.cursor = req.cursor /\ req'.listed = req.listed
      BY <2>1, NarrowedFields DEF BaseInv
    <2>4. QED
      BY <2>2, <2>3 DEF HistoryInv, Going, Listed, Rest
  <1>3. CASE Environment
    BY <1>1, <1>2, <1>3, EnvironmentKeepsBase
  <1>4. CASE Start
    <2>1. CASE StartHistory
      <3>1. /\ req'.op = "history" /\ req'.stage = "page" /\ req'.listed = <<>> /\ req'.cursor = None
        BY <2>1 DEF StartHistory, Begin, Idle
      <3>2. QED
        BY <3>1 DEF HistoryInv, Listed, Rest
    <2>2. CASE ~StartHistory
      <3>1. req'.op # "history"
        <4>1. ASSUME NEW date, NEW fallback, StartDaily(date, fallback) PROVE req'.op # "history"
          BY <4>1 DEF StartDaily, Begin, Idle
        <4>2. ASSUME NEW from, NEW to, StartRange(from, to) PROVE req'.op # "history"
          BY <4>2 DEF StartRange, Begin, Idle
        <4>3. ASSUME NEW id, StartResult(id) PROVE req'.op # "history"
          BY <4>3 DEF StartResult, Begin, Idle
        <4>4. ASSUME StartStats PROVE req'.op # "history"
          BY <4>4 DEF StartStats, Begin, Idle
        <4>5. QED
          BY <1>4, <2>2, <4>1, <4>2, <4>3, <4>4 DEF Start
      <3>2. QED
        BY <3>1 DEF HistoryInv
    <2>3. QED
      BY <2>1, <2>2
  <1>5. CASE Handle
    <2>1. CASE HistoryPage
      BY <2>1, HistoryPageKeepsInv
    <2>2. CASE StatsAttempts \/ StatsSlots
      <3>1. req'.op = "stats"
        BY <2>2 DEF StatsAttempts, StatsSlots, At, Go, Answer, BaseInv, IsRequest
      <3>2. QED
        BY <3>1 DEF HistoryInv
    <2>3. CASE ~(HistoryPage \/ StatsAttempts \/ StatsSlots)
      <3>1. req'.op = req.op /\ req.op # "history"
        BY <1>5, <2>3, ZenonT(30) DEF Handle, DailySlots, DailyLatest, DailyAgain, DailyProgress, DailyMarks,
           RangeSlots, RangeMarks, ResultFind, ResultDate, ResultSlots, ResultProgress, At, Go, Answer, Refuse,
           BaseInv, IsRequest
      <3>2. QED
        BY <3>1 DEF HistoryInv
    <2>4. QED
      BY <2>1, <2>2, <2>3
  <1>6. CASE UNCHANGED vars
    BY <1>1, <1>6 DEF vars
  <1>7. QED
    BY <1>3, <1>4, <1>5, <1>6 DEF Next

\* getAttemptHistory: following the cursors lists every attempt that stayed valid
\* once, newest first, whatever the size of a page and whatever is played and
\* invalidated between the pages.
THEOREM HistoryCompleteHolds == Spec => []HistoryComplete
  <1>1. Init => HistoryInv
    BY DEF Init, Idle, HistoryInv
  <1>2. BaseInv /\ HistoryInv => HistoryComplete
    BY DEF HistoryInv, Going, Listed, HistoryComplete, Answered, ToSet
  <1>3. BaseInv /\ HistoryInv /\ [Next]_vars => HistoryInv'
    BY NextKeepsHistory
  <1>4. QED
    BY <1>1, <1>2, <1>3, GameInvariance, PTL DEF Spec

-----------------------------------------------------------------------------
(* Streaks: what the two loops of getStats compute.                        *)

\* How many dates up to end are in dates without a gap.
Stretches(dates, end) == {n \in 0 .. LastDay : (end - n + 1) .. end \subseteq dates}
Stretch(dates, end) == Max(Stretches(dates, end))

LEMMA MaxIs ==
    ASSUME NEW N \in Nat, NEW S \in SUBSET (0 .. N), NEW m \in S, \A k \in S : k <= m
    PROVE  Max(S) = m
  <1>1. Max(S) \in S /\ \A k \in S : k <= Max(S)
    BY MaxIsGreatest
  <1>2. m <= Max(S) /\ Max(S) <= m /\ m \in Int /\ Max(S) \in Int
    <2>1. Max(S) \in 0 .. N /\ m \in 0 .. N
      BY <1>1
    <2>2. m <= Max(S) /\ Max(S) <= m
      BY <1>1
    <2>3. QED
      BY <2>1, <2>2
  <1>3. QED
    BY <1>2

LEMMA StretchIsLongest ==
    ASSUME NEW dates \in SUBSET Dates, NEW end \in 0 .. LastDay
    PROVE  /\ Stretch(dates, end) \in 0 .. LastDay /\ LastDay \in Nat
           /\ (end - Stretch(dates, end) + 1) .. end \subseteq dates
           /\ \A n \in 0 .. LastDay : (end - n + 1) .. end \subseteq dates => n <= Stretch(dates, end)
  <1> DEFINE S == Stretches(dates, end)
  <1>1. LastDay \in Nat
    BY DatesAreNumbers
  <1>2. S \in SUBSET (0 .. LastDay) /\ 0 \in S
    BY <1>1 DEF Stretches
  <1>3. Max(S) \in S /\ \A n \in S : n <= Max(S)
    <2> HIDE DEF S
    <2>1. QED
      BY <1>1, <1>2, MaxIsGreatest
  <1>4. QED
    BY <1>1, <1>3 DEF Stretch, Stretches

\* A stretch is recognised by its first and by the gap before it.
LEMMA StretchIs ==
    ASSUME NEW dates \in SUBSET Dates, NEW end \in 0 .. LastDay, NEW n \in 0 .. LastDay,
           (end - n + 1) .. end \subseteq dates, end - n \notin dates
    PROVE  Stretch(dates, end) = n
  <1> DEFINE m == Stretch(dates, end)
  <1>1. m \in Nat /\ n \in Nat /\ end \in Nat /\ n <= m /\ (end - m + 1) .. end \subseteq dates
    <2>1. /\ m \in 0 .. LastDay /\ LastDay \in Nat /\ (end - m + 1) .. end \subseteq dates /\ n <= m
      BY StretchIsLongest, Zenon
    <2> HIDE DEF m
    <2>2. QED
      BY <2>1
  <1> HIDE DEF m
  <1>2. ~(n < m)
    <2>1. SUFFICES ASSUME n < m PROVE FALSE
      OBVIOUS
    <2>2. end - n \in (end - m + 1) .. end
      BY <1>1, <2>1
    <2>3. QED
      BY <1>1, <2>2
  <1>3. m = n
    BY <1>1, <1>2
  <1>4. QED
    BY <1>3 DEF m

LEMMA StretchSteps ==
    ASSUME NEW dates \in SUBSET Dates, NEW end \in 0 .. LastDay
    PROVE  Stretch(dates, end) = IF end \in dates THEN 1 + Stretch(dates, end - 1) ELSE 0
  <1>0. LastDay \in Nat /\ end \in Nat /\ \A d \in dates : d \in Nat /\ 1 <= d /\ d <= LastDay
    BY DatesAreNumbers DEF Dates
  <1>1. CASE end \notin dates
    <2>1. (end - 0 + 1) .. end \subseteq dates /\ end - 0 \notin dates /\ 0 \in 0 .. LastDay
      BY <1>0, <1>1
    <2>2. QED
      BY <1>1, <2>1, StretchIs
  <1>2. CASE end \in dates
    <2> DEFINE m == Stretch(dates, end - 1)
    <2>1. end - 1 \in 0 .. LastDay
      BY <1>0, <1>2
    <2>2. /\ m \in Nat /\ m <= LastDay /\ (end - 1 - m + 1) .. (end - 1) \subseteq dates
          /\ \A n \in 0 .. LastDay : (end - 1 - n + 1) .. (end - 1) \subseteq dates => n <= m
      <3>1. /\ m \in 0 .. LastDay /\ (end - 1 - m + 1) .. (end - 1) \subseteq dates
            /\ \A n \in 0 .. LastDay : (end - 1 - n + 1) .. (end - 1) \subseteq dates => n <= m
        BY <2>1, StretchIsLongest, Zenon
      <3> HIDE DEF m
      <3>2. QED
        BY <1>0, <3>1
    <2> HIDE DEF m
    <2>3. (end - m) .. end \subseteq dates
      <3>1. \A d \in (end - m) .. end : d = end \/ d \in (end - 1 - m + 1) .. (end - 1)
        BY <1>0, <2>2
      <3>2. QED
        BY <1>2, <2>2, <3>1
    <2>4. m + 1 <= LastDay
      <3>1. end - m \in (end - m) .. end
        BY <1>0, <2>2
      <3>2. 1 <= end - m
        BY <1>0, <2>3, <3>1
      <3>3. QED
        BY <1>0, <2>2, <3>2
    <2>5. end - (m + 1) \notin dates
      <3>1. SUFFICES ASSUME end - (m + 1) \in dates PROVE FALSE
        OBVIOUS
      <3>2. \A d \in (end - 1 - (m + 1) + 1) .. (end - 1) : d = end - (m + 1) \/ d \in (end - m) .. end
        BY <1>0, <2>2
      <3>3. (end - 1 - (m + 1) + 1) .. (end - 1) \subseteq dates
        BY <2>3, <3>1, <3>2
      <3>4. m + 1 \in 0 .. LastDay
        BY <1>0, <2>2, <2>4
      <3>5. m + 1 <= m
        BY <2>2, <3>3, <3>4
      <3>6. QED
        BY <2>2, <3>5
    <2>6. end - (m + 1) + 1 = end - m /\ m + 1 \in 0 .. LastDay
      BY <1>0, <2>2, <2>4
    <2>7. Stretch(dates, end) = m + 1
      BY <2>3, <2>5, <2>6, StretchIs
    <2>8. QED
      BY <1>2, <2>2, <2>7 DEF m
  <1>3. QED
    BY <1>1, <1>2

BackFollows(F, dates) ==
    F = [cursor \in 0 .. LastDay |-> IF cursor \in dates THEN 1 + F[cursor - 1] ELSE 0]

\* The loop back from today, or from yesterday, counts the stretch that ends there.
LEMMA BackIsStretch ==
    ASSUME NEW cursor \in 0 .. LastDay, NEW dates \in SUBSET Dates
    PROVE  Back(dates)[cursor] = Stretch(dates, cursor)
  <1> DEFINE F == [c \in 0 .. LastDay |-> Stretch(dates, c)]
             B == Back(dates)
  <1>0. LastDay \in Nat /\ \A d \in dates : d \in Nat /\ 1 <= d /\ d <= LastDay
    BY DatesAreNumbers DEF Dates
  <1>1. BackFollows(F, dates)
    <2>1. ASSUME NEW c \in 0 .. LastDay
          PROVE  Stretch(dates, c) = IF c \in dates THEN 1 + F[c - 1] ELSE 0
      <3>1. c \in dates => c - 1 \in 0 .. LastDay
        BY <1>0
      <3>2. c \in dates => F[c - 1] = Stretch(dates, c - 1)
        BY <3>1
      <3>3. QED
        BY <3>2, StretchSteps, Zenon
    <2>2. QED
      BY <2>1, Zenon DEF BackFollows
  <1>2. B = CHOOSE G : BackFollows(G, dates)
    BY Zenon DEF Back, BackFollows
  <1> HIDE DEF B, F
  <1>3. BackFollows(B, dates)
    BY <1>1, <1>2, Zenon
  <1>4. \A c \in 0 .. LastDay : B[c] = IF c \in dates THEN 1 + B[c - 1] ELSE 0
    BY <1>3, Zenon DEF BackFollows
  <1> DEFINE Wrong == {c \in 0 .. LastDay : B[c] # Stretch(dates, c)}
  <1>5. Wrong = {}
    <2>1. SUFFICES ASSUME Wrong # {} PROVE FALSE
      OBVIOUS
    <2>2. Wrong \in SUBSET Nat
      BY <1>0
    <2>3. PICK c \in Wrong : \A d \in Wrong : c <= d
      BY <2>1, <2>2, LeastNat
    <2>4. c \in 0 .. LastDay /\ B[c] # Stretch(dates, c)
      OBVIOUS
    <2>5. c \in dates
      BY <1>4, <2>4, StretchSteps, Zenon
    <2>6. c - 1 \in 0 .. LastDay /\ ~(c <= c - 1)
      BY <1>0, <2>5
    <2>7. B[c - 1] = Stretch(dates, c - 1)
      BY <2>3, <2>6
    <2>8. QED
      BY <1>4, <2>4, <2>5, <2>7, StretchSteps, Zenon
  <1>6. QED
    BY <1>5 DEF B

\* The lengths of the stretches in dates that end at one of ends.
Lengths(dates, ends) ==
    {0} \cup {n \in 1 .. LastDay : \E end \in ends \cap dates : (end - n + 1) .. end \subseteq dates}
Best(dates) == Max(Lengths(dates, Dates))

LEMMA LengthsBounded ==
    ASSUME NEW dates \in SUBSET Dates, NEW ends
    PROVE  /\ Lengths(dates, ends) \in SUBSET (0 .. LastDay) /\ LastDay \in Nat
           /\ Max(Lengths(dates, ends)) \in Lengths(dates, ends)
           /\ \A n \in Lengths(dates, ends) : n <= Max(Lengths(dates, ends))
  <1>1. LastDay \in Nat
    BY DatesAreNumbers
  <1>2. Lengths(dates, ends) \in SUBSET (0 .. LastDay) /\ Lengths(dates, ends) # {}
    BY <1>1 DEF Lengths
  <1>3. QED
    BY <1>1, <1>2, MaxIsGreatest

LEMMA OneEnd ==
    ASSUME NEW dates \in SUBSET Dates, NEW end \in 0 .. LastDay
    PROVE  Max(Lengths(dates, {end})) = Stretch(dates, end)
  <1> DEFINE m == Stretch(dates, end)
  <1>1. /\ m \in 0 .. LastDay /\ LastDay \in Nat /\ (end - m + 1) .. end \subseteq dates
        /\ \A n \in 0 .. LastDay : (end - n + 1) .. end \subseteq dates => n <= m
    BY StretchIsLongest, Zenon
  <1> HIDE DEF m
  <1>2. m = 0 \/ (m \in 1 .. LastDay /\ end \in (end - m + 1) .. end)
    BY <1>1
  <1>3. m \in Lengths(dates, {end})
    BY <1>1, <1>2 DEF Lengths
  <1>4. \A n \in Lengths(dates, {end}) : n <= m
    BY <1>1 DEF Lengths
  <1>5. Lengths(dates, {end}) \in SUBSET (0 .. LastDay)
    BY LengthsBounded
  <1>6. QED
    BY <1>1, <1>3, <1>4, <1>5, MaxIs DEF m

\* What the pass over the completed dates knows when it has seen dates.
NoRun == [best |-> 0, length |-> 0, last |-> None]
RunOf(dates) == [best |-> Best(dates),
                 length |-> IF dates = {} THEN 0 ELSE Stretch(dates, Max(dates)),
                 last |-> IF dates = {} THEN None ELSE Max(dates)]

LEMMA RunOfNone == RunOf({}) = NoRun
  <1>1. Lengths({}, Dates) = {0}
    BY DEF Lengths
  <1>2. Best({}) = 0
    BY <1>1, LengthsBounded DEF Best
  <1>3. QED
    BY <1>2 DEF RunOf, NoRun

\* The latest of dates extends the last stretch or begins one.
LEMMA RunExtends ==
    ASSUME NEW dates \in SUBSET Dates, dates # {}
    PROVE  RunOf(dates) = Extended(RunOf(dates \ {Max(dates)}), Max(dates))
  <1> DEFINE d == Max(dates)
             rest == dates \ {d}
             eve == Max(rest)
             length == IF rest # {} /\ eve + 1 = d THEN Stretch(rest, eve) + 1 ELSE 1
  <1>0. LastDay \in Nat /\ Dates \in SUBSET (0 .. LastDay) /\ dates \in SUBSET (0 .. LastDay)
    BY DatesAreNumbers
  <1>1. d \in dates /\ \A c \in dates : c <= d
    BY <1>0, MaxIsGreatest
  <1>2. d \in Nat /\ 1 <= d /\ d <= LastDay /\ d - 1 \in 0 .. LastDay
    <2>1. d \in Dates
      BY <1>1
    <2> HIDE DEF d
    <2>2. QED
      BY <1>0, <2>1 DEF Dates
  <1> HIDE DEF d
  <1>3. rest # {} => eve \in rest /\ \A c \in rest : c <= eve
    BY <1>0, MaxIsGreatest
  <1>4. rest # {} => eve \in Nat /\ eve < d
    <2>1. rest # {} => eve \in 0 .. LastDay /\ eve # d /\ eve <= d
      BY <1>0, <1>1, <1>3
    <2> HIDE DEF eve, rest
    <2>2. QED
      BY <1>2, <2>1
  <1>5. rest \in SUBSET Dates
    OBVIOUS
  <1>6. Extended(RunOf(rest), d) = [best |-> Max({Best(rest), length}), length |-> length, last |-> d]
    <2>1. rest # {} => eve # None
      BY <1>3, <1>5, ServingAssumption
    <2>2. /\ RunOf(rest).best = Best(rest)
          /\ RunOf(rest).length = IF rest = {} THEN 0 ELSE Stretch(rest, eve)
          /\ RunOf(rest).last = IF rest = {} THEN None ELSE eve
      BY DEF RunOf
    <2> HIDE DEF eve, rest
    <2>3. length = IF RunOf(rest).last # None /\ RunOf(rest).last + 1 = d THEN RunOf(rest).length + 1 ELSE 1
      BY <2>1, <2>2
    <2> HIDE DEF length
    <2>4. QED
      BY <2>2, <2>3, Zenon DEF Extended
  <1>7. Stretch(dates, d) = length
    <2>1. Stretch(dates, d) = 1 + Stretch(dates, d - 1)
      BY <1>0, <1>1, StretchSteps
    <2>2. Stretch(dates, d - 1) = Stretch(rest, d - 1)
      <3>1. \A n \in 0 .. LastDay : d \notin (d - 1 - n + 1) .. (d - 1)
        BY <1>2
      <3>2. Stretches(dates, d - 1) = Stretches(rest, d - 1)
        BY <3>1 DEF Stretches
      <3>3. QED
        BY <3>2 DEF Stretch
    <2>3. CASE rest # {} /\ eve + 1 = d
      <3>1. d - 1 = eve
        BY <1>4, <2>3
      <3>2. Stretch(rest, eve) \in 0 .. LastDay
        BY <1>2, <1>5, <3>1, StretchIsLongest
      <3>3. QED
        BY <1>0, <2>1, <2>2, <2>3, <3>1, <3>2
    <2>4. CASE ~(rest # {} /\ eve + 1 = d)
      <3>1. d - 1 \notin rest
        <4>1. SUFFICES ASSUME d - 1 \in rest PROVE FALSE
          OBVIOUS
        <4>2. rest # {} /\ d - 1 <= eve
          BY <1>3, <4>1
        <4>3. QED
          BY <1>2, <1>4, <2>4, <4>2
      <3>2. Stretch(rest, d - 1) = 0
        BY <1>2, <1>5, <3>1, StretchSteps
      <3>3. QED
        BY <2>1, <2>2, <2>4, <3>2
    <2>5. QED
      BY <2>3, <2>4
  <1>8. Best(dates) = Max({Best(rest), length})
    <2> DEFINE S == Lengths(dates, Dates)
               B == Best(rest)
               m == IF B <= length THEN length ELSE B
    <2>1. length \in 0 .. LastDay /\ (d - length + 1) .. d \subseteq dates
      <3>1. Stretch(dates, d) \in 0 .. LastDay /\ (d - Stretch(dates, d) + 1) .. d \subseteq dates
        BY <1>0, <1>1, StretchIsLongest
      <3>2. QED
        BY <1>7, <3>1, Zenon
    <2>2. \A n \in 0 .. LastDay : (d - n + 1) .. d \subseteq dates => n <= length
      <3>1. \A n \in 0 .. LastDay : (d - n + 1) .. d \subseteq dates => n <= Stretch(dates, d)
        BY <1>0, <1>1, StretchIsLongest
      <3>2. QED
        BY <1>7, <3>1, Zenon
    <2>3. length \in S
      <3> HIDE DEF length
      <3>1. length = 0 \/ length \in 1 .. LastDay
        BY <2>1
      <3>2. QED
        BY <1>1, <2>1, <3>1 DEF Lengths
    <2>4. /\ B \in Lengths(rest, Dates) /\ B \in 0 .. LastDay
          /\ \A n \in Lengths(rest, Dates) : n <= B
      BY <1>5, LengthsBounded DEF Best
    <2>5. B \in S
      <3> HIDE DEF B, rest
      <3>1. rest \subseteq dates
        BY DEF rest
      <3>2. QED
        BY <2>4, <3>1 DEF Lengths
    <2>6. ASSUME NEW n \in S PROVE n <= length \/ n <= B
      <3>1. CASE n = 0
        BY <2>1, <3>1
      <3>2. CASE n # 0
        <4>1. n \in 1 .. LastDay /\ n \in 0 .. LastDay
          BY <1>0, <2>6, <3>2 DEF Lengths
        <4>2. PICK end \in Dates \cap dates : (end - n + 1) .. end \subseteq dates
          BY <2>6, <3>2 DEF Lengths
        <4>3. CASE end = d
          BY <2>2, <4>1, <4>2, <4>3
        <4>4. CASE end # d
          <5>1. end \in Nat /\ end < d
            BY <1>0, <1>1, <1>2, <4>2, <4>4
          <5>2. d \notin (end - n + 1) .. end
            BY <1>2, <4>1, <5>1
          <5>3. n \in Lengths(rest, Dates)
            BY <4>1, <4>2, <4>4, <5>2 DEF Lengths
          <5>4. QED
            BY <2>4, <5>3
        <4>5. QED
          BY <4>3, <4>4
      <3>3. QED
        BY <3>1, <3>2
    <2>7. S \in SUBSET (0 .. LastDay)
      BY LengthsBounded
    <2> HIDE DEF S, B, length
    <2>8. m \in S /\ m \in {B, length} /\ m \in Nat
      BY <2>1, <2>3, <2>4, <2>5
    <2>9. \A n \in S : n <= m
      BY <2>1, <2>4, <2>6, <2>7
    <2>10. \A n \in {B, length} : n <= m
      BY <2>1, <2>4
    <2>11. {B, length} \in SUBSET (0 .. LastDay)
      BY <2>1, <2>4
    <2> HIDE DEF m
    <2>12. Max(S) = m
      BY <1>0, <2>7, <2>8, <2>9, MaxIs
    <2>13. Max({B, length}) = m
      BY <1>0, <2>8, <2>10, <2>11, MaxIs
    <2>14. QED
      BY <2>12, <2>13, Zenon DEF Best, S, B
  <1> HIDE DEF length, rest
  <1>9. RunOf(dates) = [best |-> Best(dates), length |-> Stretch(dates, d), last |-> d]
    BY DEF RunOf, d
  <1>10. QED
    BY <1>6, <1>7, <1>8, <1>9 DEF d, rest

Follows(H, rows) ==
    H = [s \in SUBSET DOMAIN rows |-> IF s = {} THEN NoRun ELSE Extended(H[s \ {Max(s)}], rows[Max(s)])]

Fold(rows) == (CHOOSE H : Follows(H, rows))[DOMAIN rows]

LEMMA RunIsFold == ASSUME NEW dates PROVE Run(dates) = Fold(Sorted(dates, <))
  BY Zenon DEF Run, FoldLeft, MapThenFoldSet, Fold, Follows, NoRun

LEMMA DatesInOrder ==
    ASSUME NEW dates \in SUBSET Dates
    PROVE  LET rows == Sorted(dates, <) IN
           /\ rows \in Seq(dates)
           /\ \A i, j \in 1 .. Len(rows) : i < j => rows[i] < rows[j]
           /\ \A d \in dates : \E i \in 1 .. Len(rows) : rows[i] = d
  <1> DEFINE rows == Sorted(dates, <)
             R == {p \in dates \X dates : p[1] < p[2]}
             n == Cardinality(dates)
  <1>1. IsFiniteSet(dates) /\ \A d \in dates : d \in Nat
    BY DatesAreNumbers, FS_Subset
  <1>2. \A a, b \in dates : <<a, b>> \in R <=> a < b
    OBVIOUS
  <1>3. rows = CHOOSE q \in [1 .. n -> dates] : \A i, j \in DOMAIN q : i < j => q[i] < q[j]
    BY Zenon DEF Sorted
  <1> HIDE DEF rows, R, n
  <1>4. StrictOrder(R, dates)
    <2>1. /\ \A a \in dates : ~(a < a)
          /\ \A a, b, c \in dates : a < b /\ b < c => a < c
          /\ \A a, b \in dates : a = b \/ a < b \/ b < a
      BY <1>1
    <2>2. QED
      BY <1>2, <2>1 DEF StrictOrder
  <1>5. PICK q \in [1 .. n -> dates] : InOrder(q, R)
    BY <1>1, <1>4, OrderedRowsExist DEF n
  <1>6. \A i, j \in DOMAIN q : i < j => q[i] < q[j]
    BY <1>2, <1>5 DEF InOrder
  <1>7. rows \in [1 .. n -> dates] /\ \A i, j \in DOMAIN rows : i < j => rows[i] < rows[j]
    BY <1>3, <1>6, Zenon
  <1>8. InOrder(rows, R)
    BY <1>2, <1>7 DEF InOrder
  <1>9. /\ rows \in Seq(dates) /\ Len(rows) = n
        /\ \A d \in dates : \E i \in 1 .. Len(rows) : rows[i] = d
    BY <1>1, <1>4, <1>7, <1>8, OrderedRowsCover DEF n
  <1>10. QED
    BY <1>7, <1>9 DEF rows

\* The pass over the dates in order is described by RunOf at every row.
LEMMA RunFollows ==
    ASSUME NEW dates \in SUBSET Dates, NEW rows \in Seq(dates),
           \A i, j \in 1 .. Len(rows) : i < j => rows[i] < rows[j]
    PROVE  Follows([s \in SUBSET DOMAIN rows |-> RunOf({rows[i] : i \in s})], rows)
  <1> DEFINE Of(s) == {rows[i] : i \in s}
             G == [s \in SUBSET DOMAIN rows |-> RunOf(Of(s))]
  <1>0. Len(rows) \in Nat /\ DOMAIN rows = 1 .. Len(rows) /\ \A i \in 1 .. Len(rows) : rows[i] \in dates
    OBVIOUS
  <1>1. ASSUME NEW s \in SUBSET DOMAIN rows, s # {}
        PROVE  RunOf(Of(s)) = Extended(RunOf(Of(s \ {Max(s)})), rows[Max(s)])
    <2> DEFINE m == Max(s)
    <2>1. m \in s /\ \A i \in s : i <= m
      <3>1. s \in SUBSET (0 .. Len(rows))
        BY <1>0
      <3>2. QED
        BY <1>0, <1>1, <3>1, MaxIsGreatest
    <2> HIDE DEF m
    <2>2. \A i \in s : i \in 1 .. Len(rows) /\ (i = m \/ i < m)
      BY <1>0, <2>1
    <2>3. \A i \in s : i = m \/ rows[i] < rows[m]
      BY <1>0, <2>1, <2>2
    <2>4. \A i \in s : rows[i] \in Nat /\ rows[i] \in Dates
      BY <1>0, DatesAreNumbers
    <2>5. Of(s) \in SUBSET Dates /\ Of(s) # {} /\ rows[m] \in Of(s)
      BY <2>1, <2>4
    <2>6. Max(Of(s)) = rows[m]
      <3>1. LastDay \in Nat /\ Of(s) \in SUBSET (0 .. LastDay)
        BY <2>5, DatesAreNumbers
      <3>2. \A d \in Of(s) : d <= rows[m]
        BY <2>1, <2>3, <2>4
      <3> HIDE DEF Of
      <3>3. QED
        BY <2>5, <3>1, <3>2, MaxIs
    <2>7. Of(s) \ {rows[m]} = Of(s \ {m})
      <3>1. \A i \in s : i = m \/ rows[i] # rows[m]
        BY <2>1, <2>3, <2>4
      <3>2. QED
        BY <3>1
    <2> HIDE DEF Of
    <2>8. RunOf(Of(s)) = Extended(RunOf(Of(s) \ {Max(Of(s))}), Max(Of(s)))
      BY <2>5, RunExtends
    <2>9. QED
      BY <2>6, <2>7, <2>8, Zenon DEF m
  <1>2. RunOf(Of({})) = NoRun
    <2>1. Of({}) = {}
      OBVIOUS
    <2>2. QED
      BY <2>1, RunOfNone
  <1>3. \A s \in SUBSET DOMAIN rows : G[s] = RunOf(Of(s))
    OBVIOUS
  <1>4. \A s \in SUBSET DOMAIN rows : s \ {Max(s)} \in SUBSET DOMAIN rows
    OBVIOUS
  <1> HIDE DEF Of
  <1>5. ASSUME NEW s \in SUBSET DOMAIN rows
        PROVE  RunOf(Of(s)) = IF s = {} THEN NoRun ELSE Extended(G[s \ {Max(s)}], rows[Max(s)])
    <2>1. G[s \ {Max(s)}] = RunOf(Of(s \ {Max(s)}))
      BY <1>3, <1>4
    <2>2. QED
      BY <1>1, <1>2, <2>1, Zenon
  <1>6. Follows(G, rows)
    <2>1. G = [s \in SUBSET DOMAIN rows |-> IF s = {} THEN NoRun ELSE Extended(G[s \ {Max(s)}], rows[Max(s)])]
      BY <1>5, Zenon
    <2>2. QED
      BY <2>1, Zenon DEF Follows
  <1>7. QED
    BY <1>6, Zenon DEF G, Of

LEMMA RunIsBest ==
    ASSUME NEW dates \in SUBSET Dates
    PROVE  Run(dates).best = Best(dates)
  <1> DEFINE rows == Sorted(dates, <)
             N == Len(rows)
             Of(s) == {rows[i] : i \in s}
             G == [s \in SUBSET DOMAIN rows |-> RunOf(Of(s))]
             H == CHOOSE F : Follows(F, rows)
  <1>1. /\ rows \in Seq(dates)
        /\ \A i, j \in 1 .. N : i < j => rows[i] < rows[j]
        /\ \A d \in dates : \E i \in 1 .. N : rows[i] = d
    BY DatesInOrder, Zenon
  <1>2. Run(dates) = H[DOMAIN rows]
    BY RunIsFold, Zenon DEF Fold
  <1> HIDE DEF rows
  <1>3. N \in Nat /\ DOMAIN rows = 1 .. N
    BY <1>1
  <1>4. Follows(G, rows)
    BY <1>1, RunFollows
  <1>5. \A s \in SUBSET DOMAIN rows : G[s] = RunOf(Of(s))
    OBVIOUS
  <1>6. Of(DOMAIN rows) = dates
    BY <1>1, <1>3
  <1> HIDE DEF G, N, Of
  <1>7. Follows(H, rows)
    BY <1>4, Zenon
  <1> HIDE DEF H
  <1>8. ASSUME NEW F, Follows(F, rows), NEW s \in SUBSET DOMAIN rows
        PROVE  F[s] = IF s = {} THEN NoRun ELSE Extended(F[s \ {Max(s)}], rows[Max(s)])
    BY <1>8, Zenon DEF Follows
  <1> DEFINE Wrong == {k \in 0 .. N : H[1 .. k] # G[1 .. k]}
  <1>9. Wrong = {}
    <2>1. SUFFICES ASSUME Wrong # {} PROVE FALSE
      OBVIOUS
    <2>2. Wrong \in SUBSET Nat
      BY <1>3
    <2>3. PICK k \in Wrong : \A j \in Wrong : k <= j
      BY <2>1, <2>2, LeastNat
    <2>4. k \in 0 .. N /\ H[1 .. k] # G[1 .. k] /\ 1 .. k \in SUBSET DOMAIN rows
      BY <1>3
    <2>5. 1 .. k # {}
      <3>1. 1 .. k = {} => H[1 .. k] = NoRun /\ G[1 .. k] = NoRun
        BY <1>4, <1>7, <1>8, <2>4, Zenon
      <3>2. QED
        BY <2>4, <3>1
    <2>6. Max(1 .. k) = k /\ (1 .. k) \ {k} = 1 .. (k - 1) /\ k - 1 \in 0 .. N /\ ~(k <= k - 1)
      <3>1. k \in Nat /\ k \in 1 .. k
        BY <1>3, <2>4, <2>5
      <3>2. 1 .. k \in SUBSET (0 .. k) /\ \A j \in 1 .. k : j <= k
        BY <3>1
      <3>3. Max(1 .. k) = k
        BY <3>1, <3>2, MaxIs
      <3>4. QED
        BY <1>3, <2>4, <3>1, <3>3
    <2>7. H[1 .. (k - 1)] = G[1 .. (k - 1)]
      BY <2>3, <2>6
    <2>8. /\ H[1 .. k] = Extended(H[(1 .. k) \ {Max(1 .. k)}], rows[Max(1 .. k)])
          /\ G[1 .. k] = Extended(G[(1 .. k) \ {Max(1 .. k)}], rows[Max(1 .. k)])
      BY <1>4, <1>7, <1>8, <2>4, <2>5, Zenon
    <2>9. QED
      BY <2>4, <2>6, <2>7, <2>8, Zenon
  <1>10. H[1 .. N] = G[1 .. N]
    BY <1>3, <1>9
  <1>11. Run(dates) = RunOf(dates)
    <2>1. H[DOMAIN rows] = G[DOMAIN rows]
      BY <1>3, <1>10, Zenon
    <2>2. G[DOMAIN rows] = RunOf(Of(DOMAIN rows))
      BY <1>5
    <2>3. QED
      BY <1>2, <1>6, <2>1, <2>2, Zenon
  <1>12. QED
    BY <1>11 DEF RunOf

-----------------------------------------------------------------------------
(* Streaks: what the statistics may rely on.                               *)

\* Dates whose spots stayed up and were all played on them, and dates of which no
\* spot that stayed up was missed.
Sure == {s.date : s \in steady} \cap Completed(ever, kept)
Possible == {date \in {s.date : s \in ever} :
                {s.version : s \in {t \in steady : t.date = date}}
                    \subseteq {a.version : a \in {b \in known : b.time = date}}}

StreaksTold ==
    /\ Sure \subseteq req.completed /\ req.completed \subseteq Possible
    /\ req.best = Max(Lengths(req.completed, Dates))
    /\ req.current = Max(Lengths(req.completed, IF req.today \in req.completed THEN {req.today} ELSE {req.today - 1}))

StreaksInv ==
    req.op = "stats" /\ Going =>
        /\ req.stage \in {"attempts", "slots", "answered"}
        /\ req.stage = "slots" => kept \subseteq req.played /\ req.played \subseteq known
        /\ req.stage = "answered" => StreaksTold

LEMMA NarrowedKeepsStreaks == ASSUME BaseInv, Narrowed, StreaksInv PROVE StreaksInv'
  <1>1. /\ req'.op = req.op /\ req'.stage = req.stage /\ req'.refused = req.refused /\ req'.played = req.played
        /\ req'.completed = req.completed /\ req'.best = req.best /\ req'.today = req.today
        /\ req'.current = req.current
        /\ steady' \subseteq steady /\ ever \subseteq ever' /\ kept' \subseteq kept /\ known \subseteq known'
    BY NarrowedFields DEF BaseInv
  <1>2. req.stage = "answered" => Sure' \subseteq Sure
    <2>1. req.stage = "answered" => steady \subseteq ever
      BY DEF BaseInv, Lasting
    <2>2. QED
      BY <1>1, <2>1 DEF Sure, Completed
  <1>3. Possible \subseteq Possible'
    BY <1>1 DEF Possible
  <1>4. StreaksTold /\ req.stage = "answered" => StreaksTold'
    BY <1>1, <1>2, <1>3 DEF StreaksTold, Lengths
  <1>5. QED
    BY <1>1, <1>4 DEF StreaksInv, Going

LEMMA StatsSlotsTell ==
    ASSUME BaseInv, StreaksInv, StatsSlots
    PROVE  StreaksInv'
  <1> DEFINE dates == Completed(Slots(calendar), req.played)
             cursor == IF day \in dates THEN day ELSE day - 1
  <1>1. /\ req.op = "stats" /\ req.stage = "slots" /\ Unchanged /\ Going
        /\ kept \subseteq req.played /\ req.played \subseteq known
    BY DEF StatsSlots, At, StreaksInv, Going
  <1>2. /\ req'.op = "stats" /\ req'.stage = "answered" /\ req'.since = req.since
        /\ req'.completed = dates /\ req'.best = Run(dates).best /\ req'.today = day
        /\ req'.current = Back(dates)[cursor] /\ IsRequest'
    BY <1>1 DEF StatsSlots, Go, Answer, BaseInv, IsRequest
  <1>3. steady' = steady /\ ever' = ever /\ kept' = kept /\ known' = known
    BY <1>1, <1>2, GoingOnKeepsBase
  <1>4. /\ steady \subseteq Slots(calendar) /\ Slots(calendar) \subseteq ever /\ ever \subseteq Slot
        /\ day \in Dates
    BY <1>1 DEF BaseInv, Lasting, TypeOK
  <1>5. dates \in SUBSET Dates
    BY <1>4 DEF Completed, Slot
  <1>6. Sure \subseteq dates
    BY <1>1, <1>4 DEF Sure, Completed
  <1>7. dates \subseteq Possible
    BY <1>1, <1>4 DEF Possible, Completed
  <1> HIDE DEF dates
  <1>8. Run(dates).best = Max(Lengths(dates, Dates))
    BY <1>5, RunIsBest DEF Best
  <1>9. cursor \in 0 .. LastDay
    <2>1. day \in Nat /\ 1 <= day /\ day <= LastDay /\ LastDay \in Nat
      BY <1>4, DatesAreNumbers DEF Dates
    <2>2. QED
      BY <2>1
  <1>10. Back(dates)[cursor] = Max(Lengths(dates, {cursor}))
    BY <1>5, <1>9, BackIsStretch, OneEnd
  <1>11. {cursor} = IF day \in dates THEN {day} ELSE {day - 1}
    OBVIOUS
  <1> HIDE DEF cursor
  <1>12. StreaksTold'
    <2>1. Sure' = Sure /\ Possible' = Possible
      BY <1>3 DEF Sure, Possible
    <2>2. (Sure \subseteq req.completed /\ req.completed \subseteq Possible)'
      BY <1>2, <1>6, <1>7, <2>1
    <2>3. req'.best = Max(Lengths(req'.completed, Dates))
      BY <1>2, <1>8
    <2>4. req'.current = Max(Lengths(req'.completed,
                              IF req'.today \in req'.completed THEN {req'.today} ELSE {req'.today - 1}))
      BY <1>2, <1>10, <1>11
    <2>5. QED
      BY <2>2, <2>3, <2>4 DEF StreaksTold, Lengths
  <1>13. QED
    BY <1>2, <1>12 DEF StreaksInv

LEMMA NextKeepsStreaks == ASSUME BaseInv, StreaksInv, [Next]_vars PROVE StreaksInv'
  <1>1. req' = req => StreaksInv'
    BY DEF StreaksInv, Going, StreaksTold, Sure, Possible, Lengths, steady, ever, kept, known
  <1>2. CASE Environment
    BY <1>1, <1>2, EnvironmentKeepsBase, NarrowedKeepsStreaks
  <1>3. CASE Start
    <2>1. CASE StartStats
      <3>1. req'.op = "stats" /\ req'.stage = "attempts"
        BY <2>1 DEF StartStats, Begin, Idle
      <3>2. QED
        BY <3>1 DEF StreaksInv
    <2>2. CASE ~StartStats
      <3>1. req'.op # "stats"
        <4>1. ASSUME NEW date, NEW fallback, StartDaily(date, fallback) PROVE req'.op # "stats"
          BY <4>1 DEF StartDaily, Begin, Idle
        <4>2. ASSUME NEW from, NEW to, StartRange(from, to) PROVE req'.op # "stats"
          BY <4>2 DEF StartRange, Begin, Idle
        <4>3. ASSUME NEW id, StartResult(id) PROVE req'.op # "stats"
          BY <4>3 DEF StartResult, Begin, Idle
        <4>4. ASSUME StartHistory PROVE req'.op # "stats"
          BY <4>4 DEF StartHistory, Begin, Idle
        <4>5. QED
          BY <1>3, <2>2, <4>1, <4>2, <4>3, <4>4 DEF Start
      <3>2. QED
        BY <3>1 DEF StreaksInv
    <2>3. QED
      BY <2>1, <2>2
  <1>4. CASE Handle
    <2>1. CASE StatsSlots
      BY <2>1, StatsSlotsTell
    <2>2. CASE StatsAttempts
      <3>1. /\ req.stage = "attempts" /\ Unchanged /\ IsRequest' /\ req'.since = req.since
            /\ req'.op = "stats" /\ req'.stage = "slots" /\ req'.played = Official(attempts)
        BY <2>2 DEF StatsAttempts, At, Go, BaseInv, IsRequest
      <3>2. kept' = kept /\ known' = known
        BY <3>1, GoingOnKeepsBase
      <3>3. kept \subseteq Official(attempts) /\ Official(attempts) \subseteq known
        BY <3>1, OfficialBetween
      <3>4. QED
        BY <3>1, <3>2, <3>3 DEF StreaksInv
    <2>3. CASE HistoryPage
      <3>1. req'.op # "stats"
        <4>1. req.op = "history"
          BY <2>3 DEF HistoryPage, At
        <4>2. CASE Len(Sorted(Below(req.cursor), Newer)) > PageSize
          <5>1. PICK listed, cursor : req' = [[req EXCEPT !.listed = listed, !.cursor = cursor] EXCEPT !.stage = "page"]
            BY <2>3, <4>2 DEF HistoryPage, Go
          <5>2. QED
            BY <4>1, <5>1 DEF BaseInv, IsRequest
        <4>3. CASE ~(Len(Sorted(Below(req.cursor), Newer)) > PageSize)
          <5>1. PICK listed : req' = [[req EXCEPT !.listed = listed] EXCEPT !.stage = "answered"]
            BY <2>3, <4>3 DEF HistoryPage, Go, Answer
          <5>2. QED
            BY <4>1, <5>1 DEF BaseInv, IsRequest
        <4>4. QED
          BY <4>2, <4>3
      <3>2. QED
        BY <3>1 DEF StreaksInv
    <2>4. CASE ~(HistoryPage \/ StatsAttempts \/ StatsSlots)
      <3>1. req'.op = req.op /\ req.op # "stats"
        BY <1>4, <2>4, ZenonT(30) DEF Handle, DailySlots, DailyLatest, DailyAgain, DailyProgress, DailyMarks,
           RangeSlots, RangeMarks, ResultFind, ResultDate, ResultSlots, ResultProgress, At, Go, Answer, Refuse,
           BaseInv, IsRequest
      <3>2. QED
        BY <3>1 DEF StreaksInv
    <2>5. QED
      BY <2>1, <2>2, <2>3, <2>4
  <1>5. CASE UNCHANGED vars
    BY <1>1, <1>5 DEF vars
  <1>6. QED
    BY <1>2, <1>3, <1>4, <1>5 DEF Next

\* getStats: the best streak is the longest stretch of consecutive completed dates,
\* the current one the stretch that ends today or yesterday, and a date counts when
\* its spots stayed up and were all played on it, never when one was missed.
THEOREM StreaksCountHolds == Spec => []StreaksCount
  <1>1. Init => StreaksInv
    BY DEF Init, Idle, StreaksInv
  <1>2. BaseInv /\ StreaksInv => StreaksCount
    BY DEF StreaksInv, Going, StreaksTold, Sure, Possible, Lengths, StreaksCount, Answered
  <1>3. BaseInv /\ StreaksInv /\ [Next]_vars => StreaksInv'
    BY NextKeepsStreaks
  <1>4. QED
    BY <1>1, <1>2, <1>3, GameInvariance, PTL DEF Spec
=============================================================================
