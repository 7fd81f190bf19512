------------------------------ MODULE Serving ------------------------------
(***************************************************************************)
(* What src/application/public-api.ts tells a visitor: a daily game, a     *)
(* range of them, the progress that comes with a result, the statistics    *)
(* and the pages of the history.  None of these runs in a transaction, so  *)
(* each query sees what is committed at that moment while publications,    *)
(* replacements, quarantines and the visitor's own submissions go on.      *)
(*                                                                         *)
(* Readers see PUBLISHED slots only: calendar holds their versions.  Every *)
(* query names the visitor, so one visitor is enough.  Time is counted in  *)
(* Pacific days, and attempts of one day are ordered by their random ids   *)
(* alone: the coarsest createdAt there can be.                             *)
(***************************************************************************)
EXTENDS Integers, SequencesExt

CONSTANTS
    LastDay,   \* how far the clock runs
    Orders,    \* slot orders
    Versions,  \* spot versions
    Ids,       \* attempt ids
    Calendars, \* what may have been published when the behaviour begins
    PageSize,  \* limit of a history page
    None       \* no version, no value

VARIABLES
    day,      \* the current Pacific date
    calendar, \* the version each place is published with, or None
    retired,  \* versions that were taken down
    attempts, \* the visitor's attempts
    req       \* the request in flight, what it has read, and what was true since

vars == <<day, calendar, retired, attempts, req>>

Dates == 1 .. LastDay
Places == Dates \X Orders

ASSUME ServingAssumption ==
    /\ LastDay \in Nat \ {0}
    /\ Orders \subseteq Nat /\ IsFiniteSet(Orders)
    /\ Ids \subseteq Int
    /\ PageSize \in Nat \ {0}
    /\ None \notin Versions \cup Dates
    /\ None \notin [date : Dates, order : Orders, version : Versions] \cup [time : Dates, id : Ids]
    /\ \A cal \in Calendars :
          /\ cal \in [Places -> Versions \cup {None}]
          /\ \A p, q \in Places : cal[p] = cal[q] => cal[p] = None \/ p = q

Slots(cal) == {[date |-> p[1], order |-> p[2], version |-> cal[p]] : p \in {q \in Places : cal[q] # None}}
SlotsFor(date) == {s \in Slots(calendar) : s.date = date}
VersionsOf(slots) == {s.version : s \in slots}

Valid(set) == {a \in set : a.valid}
Official(set) == {a \in Valid(set) : a.official}
PlayedIn(set, slots) == {a.version : a \in Official(set)} \cap VersionsOf(slots)

-----------------------------------------------------------------------------
(* The world around the request.                                           *)

\* since accompanies a request: the slots and the valid attempts that have been
\* there all the time, and those that have been there at some time.
Since == [steady |-> Slots(calendar), ever |-> Slots(calendar),
          kept |-> Valid(attempts), known |-> Valid(attempts)]

Watched ==
    req' = IF req.stage = "idle" THEN req ELSE [req EXCEPT !.since =
        [steady |-> @.steady \cap Slots(calendar'), ever |-> @.ever \cup Slots(calendar'),
         kept |-> @.kept \cap Valid(attempts'), known |-> @.known \cup Valid(attempts')]]

NewDay ==
    /\ day < LastDay
    /\ day' = day + 1
    /\ UNCHANGED <<calendar, retired, attempts, req>>

\* publishPacificDate, of any date.
Publish(place, v) ==
    /\ calendar[place] = None /\ v \notin VersionsOf(Slots(calendar)) \cup retired
    /\ calendar' = [calendar EXCEPT ![place] = v]
    /\ UNCHANGED <<day, retired, attempts>>
    /\ Watched

\* Replacement or quarantine: the slot leaves; the attempts are invalidated
\* unless it is a plain replacement.
TakeDown(place, invalidation) ==
    /\ calendar[place] # None
    /\ calendar' = [calendar EXCEPT ![place] = None]
    /\ retired' = retired \cup {calendar[place]}
    /\ attempts' = {[a EXCEPT !.valid = a.valid /\ (invalidation => a.version # calendar[place])] : a \in attempts}
    /\ UNCHANGED day
    /\ Watched

\* A submission commits; it may have read its version before that was retired.
Play(id, v) ==
    /\ v \in VersionsOf(Slots(calendar)) \cup retired
    /\ id \notin {a.id : a \in attempts}
    /\ attempts' = attempts \cup
          {[id |-> id, version |-> v, valid |-> TRUE, time |-> day,
            official |-> ~ \E a \in attempts : a.version = v /\ a.official]}
    /\ UNCHANGED <<day, calendar, retired>>
    /\ Watched

-----------------------------------------------------------------------------
(* Requests.                                                               *)

Idle == [op |-> "none", stage |-> "idle", refused |-> FALSE,
         requested |-> None, fallback |-> FALSE, date |-> None, from |-> None, to |-> None,
         id |-> None, version |-> None, cursor |-> None,
         slots |-> {}, marks |-> {}, progress |-> None, listed |-> <<>>, played |-> {},
         completed |-> {}, best |-> 0, today |-> None, current |-> 0,
         since |-> [steady |-> {}, ever |-> {}, kept |-> {}, known |-> {}]]

At(op, stage) == req.op = op /\ req.stage = stage
Begin(request) == req.stage = "idle" /\ req' = [request EXCEPT !.since = Since]
Go(stage, request) == req' = [request EXCEPT !.stage = stage]
Answer(request) == Go("answered", request)
Refuse == Answer([req EXCEPT !.refused = TRUE])
Unchanged == UNCHANGED <<day, calendar, retired, attempts>>

\* The rows of a query with an order.
Sorted(set, Before(_, _)) ==
    CHOOSE rows \in [1 .. Cardinality(set) -> set] :
        \A i, j \in DOMAIN rows : i < j => Before(rows[i], rows[j])

\* Mutant: the next spot is found by counting those completed.
ProgressByCount(slots, played) ==
    LET open == {s \in slots : s.order > Cardinality(played)}
    IN  [completed |-> Cardinality(played), total |-> Cardinality(slots),
         status |-> IF played = {} THEN "not_started"
                    ELSE IF Cardinality(played) = Cardinality(slots) THEN "completed" ELSE "in_progress",
         next |-> IF open = {} THEN None ELSE CHOOSE s \in open : \A t \in open : s.order <= t.order]

\* progressFor, once its slots and attempts are read.
Progress(slots, played) ==
    LET open == {s \in slots : s.version \notin played}
    IN  [completed |-> Cardinality(played), total |-> Cardinality(slots),
         status |-> IF played = {} THEN "not_started"
                    ELSE IF Cardinality(played) = Cardinality(slots) THEN "completed" ELSE "in_progress",
         next |-> IF open = {} THEN None ELSE CHOOSE s \in open : \A t \in open : s.order <= t.order]

\* getDailyGame, for today with a fallback or for a date without one.
StartDaily(date, fallback) ==
    /\ Begin([Idle EXCEPT !.op = "daily", !.stage = "slots",
                          !.requested = date, !.fallback = fallback, !.date = date])
    /\ Unchanged

DailySlots ==
    /\ At("daily", "slots")
    /\ IF SlotsFor(req.date) # {} THEN Go("progress", [req EXCEPT !.slots = SlotsFor(req.date)])
       ELSE IF req.fallback THEN Go("latest", req) ELSE Refuse
    /\ Unchanged

\* Mutant: the fallback begins at the date before.
EarlierThanEve(date) == {s.date : s \in {t \in Slots(calendar) : t.date < date - 1}}

Earlier(date) == {s.date : s \in {t \in Slots(calendar) : t.date < date}}

DailyLatest ==
    /\ At("daily", "latest")
    /\ IF Earlier(req.requested) = {} THEN Refuse
       ELSE Go("again", [req EXCEPT !.date = Max(Earlier(req.requested))])
    /\ Unchanged

DailyAgain ==
    /\ At("daily", "again")
    /\ IF SlotsFor(req.date) = {} THEN Refuse ELSE Go("progress", [req EXCEPT !.slots = SlotsFor(req.date)])
    /\ Unchanged

DailyProgress ==
    /\ At("daily", "progress")
    /\ Go("marks", [req EXCEPT !.progress = Progress(req.slots, PlayedIn(attempts, req.slots))])
    /\ Unchanged

DailyMarks ==
    /\ At("daily", "marks")
    /\ Answer([req EXCEPT !.marks = PlayedIn(attempts, req.slots)])
    /\ Unchanged

\* getDailyGameRange.
StartRange(from, to) ==
    Begin([Idle EXCEPT !.op = "range", !.stage = "slots", !.from = from, !.to = to]) /\ Unchanged

RangeSlots ==
    /\ At("range", "slots")
    /\ Go("marks", [req EXCEPT !.slots = {s \in Slots(calendar) : s.date \in req.from .. req.to}])
    /\ Unchanged

RangeMarks ==
    /\ At("range", "marks")
    /\ Answer([req EXCEPT !.marks = PlayedIn(attempts, req.slots)])
    /\ Unchanged

\* getAttempt; createAttempt answers with the same two reads.
StartResult(id) ==
    /\ id \in {a.id : a \in attempts}
    /\ Begin([Idle EXCEPT !.op = "result", !.stage = "find", !.id = id]) /\ Unchanged

ResultFind ==
    /\ At("result", "find")
    /\ \E a \in attempts :
          /\ a.id = req.id
          /\ IF a.valid THEN Go("date", [req EXCEPT !.version = a.version]) ELSE Refuse
    /\ Unchanged

\* Mutant: progress is always that of today.
ResultToday ==
    /\ At("result", "date")
    /\ Go("slots", [req EXCEPT !.date = day])
    /\ Unchanged

\* publicationDateFor: the date of the version, or today when it has none.
ResultDate ==
    /\ At("result", "date")
    /\ LET dates == {s.date : s \in {t \in Slots(calendar) : t.version = req.version}}
       IN  Go("slots", [req EXCEPT !.date = IF dates = {} THEN day ELSE Max(dates)])
    /\ Unchanged

ResultSlots ==
    /\ At("result", "slots")
    /\ Go("progress", [req EXCEPT !.slots = SlotsFor(req.date)])
    /\ Unchanged

ResultProgress ==
    /\ At("result", "progress")
    /\ LET played == PlayedIn(attempts, req.slots)
       IN  Answer([req EXCEPT !.marks = played, !.progress = Progress(req.slots, played)])
    /\ Unchanged

\* getAttemptHistory: the client follows nextCursor until there is none.
StartHistory ==
    Begin([Idle EXCEPT !.op = "history", !.stage = "page"]) /\ Unchanged

Newer(a, b) == a.time > b.time \/ (a.time = b.time /\ a.id > b.id)

\* Mutant: the cursor is a time, without the id.
BelowTime(cursor) == {a \in Valid(attempts) : cursor = None \/ a.time < cursor.time}

Below(cursor) == {a \in Valid(attempts) : cursor = None \/ Newer(cursor, a)}

HistoryPage ==
    /\ At("history", "page")
    /\ LET rows == Sorted(Below(req.cursor), Newer)
           page == SubSeq(rows, 1, PageSize)
       IN  IF Len(rows) > PageSize
           THEN Go("page", [req EXCEPT !.listed = @ \o page,
                                       !.cursor = [time |-> Last(page).time, id |-> Last(page).id]])
           ELSE Answer([req EXCEPT !.listed = @ \o rows])
    /\ Unchanged

\* getStats: attempts, then slots, then the clock.
StartStats == Begin([Idle EXCEPT !.op = "stats", !.stage = "attempts"]) /\ Unchanged

StatsAttempts ==
    /\ At("stats", "attempts")
    /\ Go("slots", [req EXCEPT !.played = Official(attempts)])
    /\ Unchanged

\* A date is completed when each of its spots was played on that very date.
Completed(slots, played) ==
    {date \in {s.date : s \in slots} : \A s \in slots : s.date = date =>
        \E a \in played : a.version = s.version /\ a.time = date}

\* Mutant: a date that follows after a gap continues the run.
ExtendedThroughGaps(run, date) ==
    [best |-> Max({run.best, run.length + 1}), length |-> run.length + 1, last |-> date]

\* The run of dates so far, with the next one.
Extended(run, date) ==
    LET length == IF run.last # None /\ run.last + 1 = date THEN run.length + 1 ELSE 1
    IN  [best |-> Max({run.best, length}), length |-> length, last |-> date]

\* The best streak, by one pass over the completed dates.
Run(dates) == FoldLeft(Extended, [best |-> 0, length |-> 0, last |-> None], Sorted(dates, <))

\* How many dates up to cursor are completed without a gap.
Back(dates) ==
    LET back[cursor \in 0 .. LastDay] == IF cursor \in dates THEN 1 + back[cursor - 1] ELSE 0
    IN  back

StatsSlots ==
    /\ At("stats", "slots")
    /\ LET dates == Completed(Slots(calendar), req.played)
       IN  Answer([req EXCEPT !.completed = dates, !.best = Run(dates).best, !.today = day,
                              !.current = Back(dates)[IF day \in dates THEN day ELSE day - 1]])
    /\ Unchanged

-----------------------------------------------------------------------------
Init ==
    /\ day = 1
    /\ calendar \in Calendars
    /\ retired = {}
    /\ attempts = {}
    /\ req = Idle

Environment ==
    \/ NewDay
    \/ \E place \in Places, invalidation \in BOOLEAN : TakeDown(place, invalidation)
    \/ \E place \in Places, v \in Versions : Publish(place, v)
    \/ \E id \in Ids, v \in Versions : Play(id, v)

Start ==
    \/ StartDaily(day, TRUE)
    \/ \E date \in Dates : StartDaily(date, FALSE)
    \/ \E from, to \in Dates : from <= to /\ StartRange(from, to)
    \/ \E id \in Ids : StartResult(id)
    \/ StartHistory
    \/ StartStats

Handle ==
    \/ DailySlots \/ DailyLatest \/ DailyAgain \/ DailyProgress \/ DailyMarks
    \/ RangeSlots \/ RangeMarks
    \/ ResultFind \/ ResultDate \/ ResultSlots \/ ResultProgress
    \/ HistoryPage
    \/ StatsAttempts \/ StatsSlots

Next == Environment \/ Start \/ Handle

Spec == Init /\ [][Next]_vars

-----------------------------------------------------------------------------
(* Properties of an answer, whatever happened while it was put together.   *)

Answered(ops) == req.op \in ops /\ req.stage = "answered" /\ ~req.refused
steady == req.since.steady
ever == req.since.ever
kept == Official(req.since.kept)
known == Official(req.since.known)

\* The game served for today is never older than one that stayed published all
\* along, a game asked for by its date is of that date, and the spots listed are
\* those published for it: none that was never there, none missing that never
\* left.
GameIsCurrent ==
    Answered({"daily"}) =>
        /\ req.fallback \/ req.date = req.requested
        /\ \A s \in steady : s.date <= req.requested => s.date <= req.date
        /\ {s \in steady : s.date = req.date} \subseteq req.slots
        /\ req.slots \subseteq {s \in ever : s.date = req.date}

\* A spot marked as completed was at some time completed by a valid official
\* attempt of the visitor, and one that stayed completed is marked, in the
\* daily game, in a range and in the answer to a submission; an attempt on a
\* version that stayed published is counted in the progress of its own date.
MarksTrue ==
    Answered({"daily", "range", "result"}) =>
        /\ req.marks \subseteq {a.version : a \in known}
        /\ {a.version : a \in kept} \cap VersionsOf(req.slots) \subseteq req.marks
        /\ req.op = "result" => \A s \in steady : s.version = req.version =>
              s \in req.slots /\ ((\E a \in kept : a.version = s.version) => req.progress.completed > 0)

\* The progress of a game agrees with itself and points to a spot that is still
\* to be played: it is complete exactly when nothing is left.
ProgressPoints ==
    Answered({"daily", "result"}) =>
        LET p == req.progress
        IN  /\ p.completed <= p.total
            /\ p.total > 0 => (p.status = "completed" <=> p.next = None)
            /\ p.next # None =>
                  /\ ~ \E a \in kept : a.version = p.next.version
                  /\ \A s \in req.slots : s.order < p.next.order => s.version \in {a.version : a \in known}

\* Following the cursors, newest first, lists every attempt that stayed valid
\* exactly once, in order, although attempts are made and invalidated between
\* the pages and many share their time.
HistoryComplete ==
    Answered({"history"}) =>
        /\ \A i, j \in DOMAIN req.listed : i < j => Newer(req.listed[i], req.listed[j])
        /\ req.since.kept \subseteq ToSet(req.listed)
        /\ ToSet(req.listed) \subseteq req.since.known


\* Streaks count days, not publications: the best streak is the longest stretch
\* of consecutive completed dates, the current one the stretch that ends today
\* or, while today is not completed, yesterday; a date counts when its spots
\* stayed up and were all played on it, and never when some spot was missed.
StreaksCount ==
    Answered({"stats"}) =>
        LET lengths(dates, ends) ==
                {0} \cup {n \in 1 .. LastDay : \E end \in ends \cap dates : (end - n + 1) .. end \subseteq dates}
            sure == {s.date : s \in steady} \cap Completed(ever, kept)
            possible == {date \in {s.date : s \in ever} :
                            {s.version : s \in {t \in steady : t.date = date}}
                                \subseteq {a.version : a \in {b \in known : b.time = date}}}
        IN  /\ sure \subseteq req.completed /\ req.completed \subseteq possible
            /\ req.best = Max(lengths(req.completed, Dates))
            /\ req.current = Max(lengths(req.completed, IF req.today \in req.completed THEN {req.today} ELSE {req.today - 1}))
=============================================================================
