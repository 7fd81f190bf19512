----------------------------- MODULE Authoring -----------------------------
(***************************************************************************)
(* How a spot gets to its day: the commands scripts/publish-spot.mjs and   *)
(* scripts/repair-spot.mjs as sequences of reads and transactions, the     *)
(* single transactions of scripts/manage-spot.mjs, and the midnight job of *)
(* src/jobs.ts, while the Pacific clock runs.  Several operators work at   *)
(* once; a command that meets an error or crashes stops where it is and    *)
(* may be run again.                                                       *)
(*                                                                         *)
(* A transaction of src/publication.ts is one step here: module            *)
(* Publication opens it up.  The commands assign slot 1 only, so a date    *)
(* has at most one active slot; the ingestion is one step, too, which      *)
(* module Import opens up.                                                 *)
(***************************************************************************)
EXTENDS Naturals

CONSTANTS
    LastDay,   \* the clock runs from 0 to LastDay; slots reach one day further
    Versions,  \* spot versions, all of one spot
    OwnDate,   \* the publicationDate a version's envelope brings, or None
    Operators, \* concurrent runs of a command
    None       \* no version, no date

Dates == 1 .. LastDay + 1

ASSUME AuthoringAssumption ==
    /\ LastDay \in Nat
    /\ None \notin Versions /\ None \notin Dates
    /\ OwnDate \in [Versions -> Dates \cup {None}]

VARIABLES
    today,     \* the Pacific date
    job,       \* the midnight job of today
    version,   \* status and payload date of each version
    slot,      \* the active slot 1 of each date
    cmd,       \* the command each operator runs
    early      \* dates an operator published by name before their eve

vars == <<today, job, version, slot, cmd, early>>

\* dark: the slot was live until its version was replaced, and its publication
\* is owed by the command, or excused when it was left to the operator or died.
Free == [version |-> None, status |-> "FREE", dark |-> "no"]
Idle == [kind |-> "none", step |-> "idle", v |-> None, date |-> None, old |-> None, found |-> "NONE"]
Running(o) == cmd[o].step # "idle"

IsAt(v, d) == slot[d].version = v
PlacesOf(v) == {d \in Dates : IsAt(v, d)}
Live(d) == slot[d].status = "PUBLISHED"

-----------------------------------------------------------------------------
(* The transactions of src/publication.ts: guard and effect.               *)

SetStatus(changes) ==
    version' = [v \in Versions |-> IF v \in DOMAIN changes
                                   THEN [version[v] EXCEPT !.status = changes[v]] ELSE version[v]]

ApproveTx(v) ==
    /\ version[v].status \in {"VALIDATED", "SCHEDULED"}
    /\ SetStatus([w \in {v} |-> "APPROVED"])
    /\ UNCHANGED slot

ScheduleTx(v, d) ==
    /\ version[v].status = "APPROVED"
    /\ slot[d] = Free /\ PlacesOf(v) = {}
    /\ slot' = [slot EXCEPT ![d] = [version |-> v, status |-> "SCHEDULED", dark |-> "no"]]
    /\ SetStatus([w \in {v} |-> "SCHEDULED"])

\* Mutant: the replacement may still have a slot of its own.
ReplaceTwice(old, v, d, dark) ==
    /\ old # v
    /\ version[old].status \in {"SCHEDULED", "PUBLISHED"} /\ version[v].status = "APPROVED"
    /\ IsAt(old, d)
    /\ slot' = [slot EXCEPT ![d] = [version |-> v, status |-> "SCHEDULED", dark |-> IF Live(d) THEN dark ELSE @.dark]]
    /\ SetStatus([w \in {old, v} |-> IF w = v THEN "SCHEDULED" ELSE "SUPERSEDED"])

ReplaceTx(old, v, d, dark) ==
    /\ old # v
    /\ version[old].status \in {"SCHEDULED", "PUBLISHED"} /\ version[v].status = "APPROVED"
    /\ IsAt(old, d) /\ PlacesOf(v) = {}
    /\ slot' = [slot EXCEPT ![d] = [version |-> v, status |-> "SCHEDULED", dark |-> IF Live(d) THEN dark ELSE @.dark]]
    /\ SetStatus([w \in {old, v} |-> IF w = v THEN "SCHEDULED" ELSE "SUPERSEDED"])

PublishTx(d) ==
    IF slot[d].status = "SCHEDULED"
    THEN /\ version[slot[d].version].status = "SCHEDULED"
         /\ slot' = [slot EXCEPT ![d].status = "PUBLISHED", ![d].dark = "no"]
         /\ SetStatus([w \in {slot[d].version} |-> "PUBLISHED"])
    ELSE UNCHANGED <<slot, version>>

QuarantineTx(v) ==
    /\ version[v].status = "PUBLISHED"
    /\ slot' = [d \in Dates |-> IF IsAt(v, d) THEN Free ELSE slot[d]]
    /\ SetStatus([w \in {v} |-> "SUPERSEDED"])

-----------------------------------------------------------------------------
(* Steps of a command.                                                     *)

Go(o, command) == cmd' = [cmd EXCEPT ![o] = command]
Succeed(o) == Go(o, Idle)
Outside == UNCHANGED <<today, job, early>>

\* nextAvailablePacificDate from tomorrow on.
FirstFree == {d \in Dates : d > today /\ slot[d] = Free
                /\ \A e \in Dates : today < e /\ e < d => slot[e] # Free}

\* publish-spot: a date of the operator's, or the first free one, is chosen;
\* an occupied one is refused unless it may be replaced or is the version's.
StartPublish(o, v, option, replaceExisting) ==
    /\ ~Running(o)
    /\ replaceExisting => option # None
    /\ \E date \in IF option = None THEN FirstFree ELSE {option} :
          LET occupied == IF option = None THEN None ELSE slot[date].version
          IN  /\ occupied \in {None, v} \/ replaceExisting
              /\ Go(o, [Idle EXCEPT !.kind = "publish", !.step = "find", !.v = v, !.date = date,
                                    !.old = IF occupied = v THEN None ELSE occupied])
    /\ UNCHANGED <<version, slot>> /\ Outside

\* repair-spot: the old version must be on a published slot.
StartRepair(o, old, v, date) ==
    /\ ~Running(o)
    /\ IsAt(old, date) /\ Live(date)
    /\ Go(o, [Idle EXCEPT !.kind = "repair", !.step = "find", !.v = v, !.date = date, !.old = old])
    /\ UNCHANGED <<version, slot>> /\ Outside

Imported(o) ==
    [status |-> "VALIDATED", date |-> IF OwnDate[cmd[o].v] # None THEN OwnDate[cmd[o].v] ELSE cmd[o].date]

\* The version is imported unless it is stored already; what it is found as
\* decides the rest.  The date chosen is needed again by a replacement only.
Find(o) ==
    LET v == cmd[o].v IN
    /\ cmd[o].step = "find"
    /\ version' = [version EXCEPT ![v] =
           IF @.status # "NONE" THEN @ ELSE Imported(o)]
    /\ Go(o, [cmd[o] EXCEPT !.found = version'[v].status,
                            !.date = IF cmd[o].kind = "publish" /\ cmd[o].old # None THEN @ ELSE None,
                            !.step = IF version'[v].status = "VALIDATED" THEN "approve" ELSE "place"])
    /\ UNCHANGED slot /\ Outside

Approve(o) ==
    /\ cmd[o].step = "approve"
    /\ ApproveTx(cmd[o].v)
    /\ Go(o, [cmd[o] EXCEPT !.found = "APPROVED", !.step = "place"])
    /\ Outside

\* Mutant: what was read when the command began decides whether to publish.
ReplaceForDue(o) ==
    \E d \in Dates :
        /\ cmd[o].step = "place" /\ cmd[o].old # None /\ cmd[o].found = "APPROVED"
        /\ ReplaceTx(cmd[o].old, cmd[o].v, d, "owed")
        /\ IF cmd[o].kind = "repair" \/ d <= today
           THEN Go(o, [cmd[o] EXCEPT !.step = "publish", !.date = d]) ELSE Succeed(o)
        /\ Outside

\* Mutant: the replacement is always published.
ReplaceAndPublish(o) ==
    \E d \in Dates :
        /\ cmd[o].step = "place" /\ cmd[o].old # None /\ cmd[o].found = "APPROVED"
        /\ ReplaceTx(cmd[o].old, cmd[o].v, d, "owed")
        /\ Go(o, [cmd[o] EXCEPT !.step = "publish", !.date = d])
        /\ Outside

\* A replacement goes live when the slot it took was live; that of a repair
\* always does.
Replace(o) ==
    \E d \in Dates :
        /\ cmd[o].step = "place" /\ cmd[o].old # None /\ cmd[o].found = "APPROVED"
        /\ ReplaceTx(cmd[o].old, cmd[o].v, d, "owed")
        /\ IF cmd[o].kind = "repair" \/ Live(d)
           THEN Go(o, [cmd[o] EXCEPT !.step = "publish", !.date = IF cmd[o].kind = "repair" THEN d ELSE @])
           ELSE Succeed(o)
        /\ Outside

\* The date is the one of the payload, whatever was chosen.
Schedule(o) ==
    /\ cmd[o].step = "place" /\ cmd[o].old = None /\ cmd[o].found = "APPROVED"
    /\ ScheduleTx(cmd[o].v, version[cmd[o].v].date)
    /\ Go(o, [cmd[o] EXCEPT !.step = "settle", !.date = version[cmd[o].v].date])
    /\ Outside

\* The command was run before: its version has its date already.
Recover(o) ==
    /\ cmd[o].step = "place" /\ cmd[o].old = None /\ cmd[o].found \in {"SCHEDULED", "PUBLISHED"}
    /\ \E d \in PlacesOf(cmd[o].v) :
          IF cmd[o].found = "SCHEDULED"
          THEN Go(o, [cmd[o] EXCEPT !.step = "settle", !.date = d]) ELSE Succeed(o)
    /\ UNCHANGED <<version, slot>> /\ Outside

\* Mutant: a slot of today is left to the midnight job.
SettleBefore(o) ==
    /\ cmd[o].step = "settle"
    /\ IF cmd[o].date < today THEN Go(o, [cmd[o] EXCEPT !.step = "publish"]) ELSE Succeed(o)
    /\ UNCHANGED <<version, slot>> /\ Outside

Settle(o) ==
    /\ cmd[o].step = "settle"
    /\ IF cmd[o].date <= today THEN Go(o, [cmd[o] EXCEPT !.step = "publish"]) ELSE Succeed(o)
    /\ UNCHANGED <<version, slot>> /\ Outside

Publish(o) ==
    /\ cmd[o].step = "publish"
    /\ PublishTx(cmd[o].date)
    /\ Succeed(o) /\ Outside

\* An error, a refused transaction or a crash.
Die(o) ==
    /\ Running(o)
    /\ Go(o, Idle)
    /\ slot' = [d \in Dates |-> IF cmd[o].step = "publish" /\ cmd[o].date = d /\ slot[d].dark = "owed"
                                THEN [slot[d] EXCEPT !.dark = "excused"] ELSE slot[d]]
    /\ UNCHANGED version /\ Outside

-----------------------------------------------------------------------------
(* manage-spot and the clock.                                              *)

Manage ==
    /\ \/ \E v \in Versions :
             (ApproveTx(v) \/ QuarantineTx(v) \/ \E d \in Dates : ScheduleTx(v, d)) /\ UNCHANGED early
       \/ \E d \in Dates : PublishTx(d) /\ early' = IF d > today + 1 THEN early \cup {d} ELSE early
       \/ \E old, v \in Versions, d \in Dates : ReplaceTx(old, v, d, "excused") /\ UNCHANGED early
    /\ UNCHANGED <<today, job, cmd>>

NewDay ==
    /\ today < LastDay
    /\ today' = today + 1
    /\ job' = "due"
    /\ early' = early \ {today + 2}
    /\ UNCHANGED <<version, slot, cmd>>

\* The queue schedules the job for midnight and passes no date.  A job that
\* fails, or finds no worker, has not run when the next day begins.
MidnightJob ==
    /\ job = "due"
    /\ PublishTx(today + 1)
    /\ job' = "done"
    /\ UNCHANGED <<today, cmd, early>>

Init ==
    /\ today = 0
    /\ job = "due"
    /\ version = [v \in Versions |-> [status |-> "NONE", date |-> None]]
    /\ slot = [d \in Dates |-> Free]
    /\ cmd = [o \in Operators |-> Idle]
    /\ early = {}

Command(o) ==
    \/ \E v \in Versions, option \in Dates \cup {None}, replaceExisting \in BOOLEAN :
           StartPublish(o, v, option, replaceExisting)
    \/ \E old, v \in Versions, date \in Dates : StartRepair(o, old, v, date)
    \/ Find(o) \/ Approve(o) \/ Replace(o) \/ Schedule(o) \/ Recover(o) \/ Settle(o) \/ Publish(o)
    \/ Die(o)

Next == (\E o \in Operators : Command(o)) \/ Manage \/ NewDay \/ MidnightJob

Spec == Init /\ [][Next]_vars

-----------------------------------------------------------------------------
TypeOK ==
    /\ today \in 0 .. LastDay
    /\ job \in {"due", "done"}
    /\ version \in [Versions -> [status : {"NONE", "VALIDATED", "APPROVED", "SCHEDULED", "PUBLISHED", "SUPERSEDED"},
                                 date : Dates \cup {None}]]
    /\ slot \in [Dates -> [version : Versions \cup {None}, status : {"FREE", "SCHEDULED", "PUBLISHED"},
                           dark : {"no", "owed", "excused"}]]
    /\ cmd \in [Operators -> [kind : {"none", "publish", "repair"},
                              step : {"idle", "find", "approve", "place", "settle", "publish"},
                              v : Versions \cup {None}, date : Dates \cup {None}, old : Versions \cup {None},
                              found : {"NONE", "VALIDATED", "APPROVED", "SCHEDULED", "PUBLISHED", "SUPERSEDED"}]]
    /\ early \subseteq Dates

\* The commands and the job keep the calendar's promise whatever they race
\* with and however often they are run again: each books a free place, takes one
\* over or publishes it, no version gets a second date, and none that was taken
\* off comes back.
Cal == INSTANCE Calendar WITH
    Orders <- {1}, Free <- None,
    occupant <- [p \in Dates \X {1} |-> slot[p[1]].version],
    live <- {p \in Dates \X {1} : Live(p[1])},
    retired <- {v \in Versions : version[v].status = "SUPERSEDED"}
CommandsKeepCalendar == Cal!Init /\ [][UNCHANGED Cal!vars \/ Cal!Next]_<<slot, version>>

\* No spot is shown before the eve of its date unless an operator published that
\* date by name: replacing the spot of a future date leaves it in the future.
NotBeforeItsEve == \A d \in Dates : Live(d) => d <= today + 1 \/ d \in early

\* A date that was shown goes dark only for as long as a command is about to
\* publish the replacement, unless that command died or manage-spot replaced the
\* spot and leaves publishing to the operator.
DarkOnlyAfterFailure ==
    \A d \in Dates : slot[d].dark = "owed" =>
        \E o \in Operators : cmd[o].step = "publish" /\ cmd[o].date = d

\* A command that reports success has put its version on the calendar, and on a
\* date that has come it is live, be it the first run or a retry after a crash,
\* unless the version was superseded meanwhile.  (A replacement of a slot that
\* was not live is left to the job.)
SucceedsPlaced ==
    \A o \in Operators : (Replace(o) \/ Recover(o) \/ Settle(o) \/ Publish(o)) /\ ~Running(o)' =>
        LET v == cmd[o].v
        IN  \/ version'[v].status = "SUPERSEDED"
            \/ \E d \in Dates : slot'[d].version = v /\ (cmd[o].old = None /\ d <= today => slot'[d].status = "PUBLISHED")

SuccessMeansPlaced == [][SucceedsPlaced]_vars

\* The publication at Pacific midnight publishes every eligible slot of the date
\* that has begun.
PublishesToday ==
    job = "due" /\ job' = "done" =>
        \A d \in Dates : d = today /\ slot[d].status = "SCHEDULED" /\ version[slot[d].version].status = "SCHEDULED"
            => slot'[d].status = "PUBLISHED"

MidnightPublishesToday == [][PublishesToday]_vars
=============================================================================
