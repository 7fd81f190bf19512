---------------------------- MODULE Publication ----------------------------
(***************************************************************************)
(* The publication lifecycle of src/publication.ts and the hold route of   *)
(* src/admin.ts: spot versions are approved, scheduled into calendar       *)
(* slots, published, replaced, quarantined and held by database            *)
(* transactions that run at PostgreSQL's READ COMMITTED isolation, while   *)
(* players submit attempts.                                                *)
(*                                                                         *)
(* Statement-level semantics.  A SELECT sees only committed rows.  An      *)
(* UPDATE BY ID is unconditional: no statement re-checks the status it     *)
(* read before.  It takes the row's lock until the transaction ends; a     *)
(* second writer waits.  The writes of a transaction become visible        *)
(* together when it commits.  Every SELECT is a step of its own, and so    *)
(* is every group of writes followed by another SELECT, since the locks it *)
(* takes restrict what the later SELECT can see; writes with no SELECT     *)
(* after them take their locks in the step that commits.                   *)
(***************************************************************************)
EXTENDS Naturals, FiniteSets

CONSTANTS
    Versions,   \* SpotVersion ids
    Spots,      \* Spot ids
    SpotOf,     \* SpotVersion.spotId, immutable
    Number,     \* SpotVersion.version, immutable
    Dates,      \* Pacific calendar dates
    Orders,     \* slotOrder values
    SlotIds,    \* PublicationSlot ids: bounds the number of slots ever created
    Txs,        \* concurrent operators, jobs and requests
    None        \* SQL NULL

ASSUME PublicationAssumption ==
    /\ SpotOf \in [Versions -> Spots]
    /\ Number \in [Versions -> Nat]
    /\ \A v, w \in Versions : SpotOf[v] = SpotOf[w] /\ Number[v] = Number[w] => v = w
    /\ Orders \subseteq Nat
    /\ None \notin Versions \cup SlotIds

VARIABLES
    version,    \* SpotVersion.status
    spot,       \* Spot.status and Spot.currentVersionId
    slot,       \* PublicationSlot rows; None is an id not used yet
    valid,      \* versions with at least one VALID attempt
    invalid,    \* versions with at least one INVALIDATED attempt
    tx          \* the open transaction of each process

vars == <<version, spot, slot, valid, invalid, tx>>

VersionStatus == {"VALIDATED", "APPROVED", "SCHEDULED", "PUBLISHED", "REJECTED", "SUPERSEDED"}
Spot == [status : {"DRAFT", "APPROVED", "PUBLISHED", "ARCHIVED"}, current : Versions \cup {None}]
\* HELD, the fourth status of the schema, is never written by the program.
Slot == [version : Versions, date : Dates, order : Orders,
         status : {"SCHEDULED", "PUBLISHED", "CANCELLED"}]
NoSlot == [version |-> None, date |-> None, order |-> None, status |-> "NONE"]

Stages == {"idle", "approve", "schedule", "hold", "submit",
           "replaceNew", "replaceSlot", "replaceWrite", "replaceLocked", "replaceCommit",
           "quarantine", "quarantineSlots", "quarantineVersion", "quarantineCommit",
           "publish", "publishWrite"}

\* The locals of an open transaction: the version(s) and slot it works on, the
\* slot rows it has yet to publish, the slot rows and the currentVersionIds it
\* has written (and locked), and whether it found the old spot pointing at the
\* version it retires.
Tx == [stage : Stages, v : Versions \cup {None}, w : Versions \cup {None},
       s : SlotIds \cup {None}, todo : SUBSET SlotIds, mine : SUBSET SlotIds,
       links : [Spots -> Versions \cup {None}], detach : BOOLEAN]
Idle == [stage |-> "idle", v |-> None, w |-> None, s |-> None,
         todo |-> {}, mine |-> {}, links |-> [p \in Spots |-> None], detach |-> FALSE]

(***************************************************************************)
(* Reads.                                                                  *)
(***************************************************************************)
Allowed ==
    {<<"VALIDATED", "APPROVED">>, <<"VALIDATED", "REJECTED">>, <<"APPROVED", "SCHEDULED">>,
     <<"APPROVED", "REJECTED">>, <<"SCHEDULED", "PUBLISHED">>, <<"SCHEDULED", "APPROVED">>,
     <<"PUBLISHED", "SUPERSEDED">>}

CanBecome(v, to) == <<version[v], to>> \in Allowed

Used == {s \in SlotIds : slot[s] # NoSlot}
IsActive(row) == row.status \in {"SCHEDULED", "PUBLISHED"}
ActiveSlots(v) == {s \in Used : slot[s].version = v /\ IsActive(slot[s])}

\* Mutant: only the date/order index exists.
UniquePlaces(rows) ==
    \A s, r \in SlotIds :
        s # r /\ IsActive(rows[s]) /\ IsActive(rows[r])
        => <<rows[s].date, rows[s].order>> # <<rows[r].date, rows[r].order>>

\* The two partial unique indexes over active rows.
UniqueRows(rows) ==
    \A s, r \in SlotIds :
        /\ s # r
        /\ IsActive(rows[s])
        /\ IsActive(rows[r])
        => /\ rows[s].version # rows[r].version
           /\ <<rows[s].date, rows[s].order>> # <<rows[r].date, rows[r].order>>

\* The version that reads and attempts of a spot are served from.
IsServed(v) ==
    /\ version[v] = "PUBLISHED"
    /\ \A w \in Versions : SpotOf[w] = SpotOf[v] /\ version[w] = "PUBLISHED"
                            => Number[w] <= Number[v]

(***************************************************************************)
(* Row locks held by the uncommitted writes of transaction t.              *)
(***************************************************************************)
LockedVersions(t) ==
    IF tx[t].stage \in {"replaceLocked", "replaceCommit", "quarantineVersion", "quarantineCommit"}
    THEN {tx[t].v}
    ELSE IF tx[t].stage \in {"publish", "publishWrite"}
         THEN {slot[s].version : s \in tx[t].mine}
         ELSE {}

LockedSpots(t) == {p \in Spots : tx[t].links[p] # None}

CanWriteVersion(t, v) == \A u \in Txs \ {t} : v \notin LockedVersions(u)
CanWriteSpot(t, p) == \A u \in Txs \ {t} : p \notin LockedSpots(u)
CanWriteSlot(t, s) == \A u \in Txs \ {t} : s \notin tx[u].mine

(***************************************************************************)
(* Transaction bookkeeping.                                                *)
(***************************************************************************)
Advance(t, next) == tx' = [tx EXCEPT ![t] = next]
Finish(t) == Advance(t, Idle)
Rows == <<version, spot, slot, valid, invalid>>

\* A failed assertion, a unique violation, a deadlock victim, the interactive
\* transaction's timeout or a lost connection: the writes are rolled back.
Abort(t) ==
    /\ tx[t].stage # "idle"
    /\ Finish(t)
    /\ UNCHANGED Rows

(***************************************************************************)
(* approveSpotVersion                                                      *)
(***************************************************************************)
ApproveRead(t, v) ==
    /\ tx[t].stage = "idle"
    /\ CanBecome(v, "APPROVED")
    /\ Advance(t, [Idle EXCEPT !.stage = "approve", !.v = v])
    /\ UNCHANGED Rows

ApproveCommit(t) ==
    LET v == tx[t].v IN
    /\ tx[t].stage = "approve"
    /\ CanWriteVersion(t, v)
    /\ CanWriteSpot(t, SpotOf[v])
    /\ version' = [version EXCEPT ![v] = "APPROVED"]
    /\ spot' = [spot EXCEPT ![SpotOf[v]] = [status |-> "APPROVED", current |-> v]]
    /\ Finish(t)
    /\ UNCHANGED <<slot, valid, invalid>>

(***************************************************************************)
(* scheduleSpotVersion                                                     *)
(***************************************************************************)
ScheduleRead(t, v) ==
    /\ tx[t].stage = "idle"
    /\ CanBecome(v, "SCHEDULED")
    /\ Advance(t, [Idle EXCEPT !.stage = "schedule", !.v = v])
    /\ UNCHANGED Rows

ScheduleCommit(t, s, date, order) ==
    LET v == tx[t].v IN
    /\ tx[t].stage = "schedule"
    /\ s \notin Used
    /\ slot' = [slot EXCEPT ![s] = [version |-> v, date |-> date, order |-> order,
                                    status |-> "SCHEDULED"]]
    /\ UniqueRows(slot')
    /\ CanWriteVersion(t, v)
    /\ version' = [version EXCEPT ![v] = "SCHEDULED"]
    /\ Finish(t)
    /\ UNCHANGED <<spot, valid, invalid>>

(***************************************************************************)
(* POST /versions/:versionId/hold: a read and an update outside any        *)
(* transaction.                                                            *)
(***************************************************************************)
\* Mutant: the hold route forgets assertLifecycleTransition.
HoldReadUnguarded(t, v) ==
    /\ tx[t].stage = "idle"
    /\ Advance(t, [Idle EXCEPT !.stage = "hold", !.v = v])
    /\ UNCHANGED Rows

HoldRead(t, v) ==
    /\ tx[t].stage = "idle"
    /\ CanBecome(v, "REJECTED")
    /\ Advance(t, [Idle EXCEPT !.stage = "hold", !.v = v])
    /\ UNCHANGED Rows

HoldWrite(t) ==
    LET v == tx[t].v IN
    /\ tx[t].stage = "hold"
    /\ CanWriteVersion(t, v)
    /\ version' = [version EXCEPT ![v] = "REJECTED"]
    /\ Finish(t)
    /\ UNCHANGED <<spot, slot, valid, invalid>>

(***************************************************************************)
(* createAttempt of src/application/public-api.ts: the served version is   *)
(* read first, the attempt is inserted later and nothing looks again.      *)
(***************************************************************************)
SubmitRead(t, v) ==
    /\ tx[t].stage = "idle"
    /\ IsServed(v)
    /\ Advance(t, [Idle EXCEPT !.stage = "submit", !.v = v])
    /\ UNCHANGED Rows

SubmitCommit(t) ==
    /\ tx[t].stage = "submit"
    /\ valid' = valid \cup {tx[t].v}
    /\ Finish(t)
    /\ UNCHANGED <<version, spot, slot, invalid>>

(***************************************************************************)
(* replacePublishedSlot: v is the old version, w the replacement.          *)
(***************************************************************************)
ReplaceReadOld(t, v, w) ==
    /\ tx[t].stage = "idle"
    /\ v # w
    /\ version[v] \in {"SCHEDULED", "PUBLISHED"}
    /\ Advance(t, [Idle EXCEPT !.stage = "replaceNew", !.v = v, !.w = w])
    /\ UNCHANGED Rows

ReplaceReadNew(t) ==
    /\ tx[t].stage = "replaceNew"
    /\ version[tx[t].w] = "APPROVED"
    /\ Advance(t, [tx[t] EXCEPT !.stage = "replaceSlot"])
    /\ UNCHANGED Rows

\* Mutant: the slot is looked up without its spotVersionId.
ReplaceFindAnySlot(t, s) ==
    /\ tx[t].stage = "replaceSlot"
    /\ s \in Used
    /\ IsActive(slot[s])
    /\ Advance(t, [tx[t] EXCEPT !.stage = "replaceWrite", !.s = s])
    /\ UNCHANGED Rows

ReplaceFindSlot(t, s) ==
    /\ tx[t].stage = "replaceSlot"
    /\ s \in ActiveSlots(tx[t].v)
    /\ Advance(t, [tx[t] EXCEPT !.stage = "replaceWrite", !.s = s])
    /\ UNCHANGED Rows

\* The old slot and the old version are written; the old spot is only looked
\* at when the replacement belongs to another spot.
ReplaceWriteOld(t) ==
    LET sameSpot == SpotOf[tx[t].v] = SpotOf[tx[t].w] IN
    /\ tx[t].stage = "replaceWrite"
    /\ CanWriteSlot(t, tx[t].s)
    /\ CanWriteVersion(t, tx[t].v)
    /\ Advance(t, [tx[t] EXCEPT !.stage = IF sameSpot THEN "replaceCommit" ELSE "replaceLocked",
                                !.mine = {tx[t].s}])
    /\ UNCHANGED Rows

ReplaceReadSpot(t) ==
    /\ tx[t].stage = "replaceLocked"
    /\ Advance(t, [tx[t] EXCEPT !.stage = "replaceCommit",
                                !.detach = spot[SpotOf[tx[t].v]].current = tx[t].v])
    /\ UNCHANGED Rows

\* Mutant: the spot gets a version's status.
DetachWrongStatus(t) ==
    spot' = [spot EXCEPT ![SpotOf[tx[t].v]] = [status |-> "SUPERSEDED", current |-> None]]

\* spot.update of the version's spot when the transaction found it current.
Detach(t) ==
    IF tx[t].detach
    THEN /\ CanWriteSpot(t, SpotOf[tx[t].v])
         /\ spot' = [spot EXCEPT ![SpotOf[tx[t].v]] = [status |-> "ARCHIVED", current |-> None]]
    ELSE UNCHANGED spot

\* Mutant: updateMany without its spotVersionId condition.
InvalidateAll(v) ==
    /\ valid' = {}
    /\ invalid' = invalid \cup valid

\* attempt.updateMany: the VALID attempts of v become INVALIDATED.  It is taken
\* together with the commit: an attempt inserted between the two stays VALID, as
\* does one inserted right after the commit.
Invalidate(v) ==
    /\ valid' = valid \ {v}
    /\ invalid' = invalid \cup (valid \cap {v})

ReplaceCommit(t, s, invalidation) ==
    LET v == tx[t].v
        w == tx[t].w
        old == tx[t].s
    IN
    /\ tx[t].stage = "replaceCommit"
    /\ Detach(t)
    /\ IF invalidation THEN Invalidate(v) ELSE UNCHANGED <<valid, invalid>>
    /\ s \notin Used
    /\ slot' = [slot EXCEPT ![old].status = "CANCELLED",
                            ![s] = [version |-> w, date |-> slot[old].date,
                                    order |-> slot[old].order, status |-> "SCHEDULED"]]
    /\ UniqueRows(slot')
    /\ CanWriteVersion(t, w)
    /\ version' = [version EXCEPT ![v] = "SUPERSEDED", ![w] = "SCHEDULED"]
    /\ Finish(t)

(***************************************************************************)
(* quarantinePublishedVersion                                              *)
(***************************************************************************)
QuarantineRead(t, v) ==
    /\ tx[t].stage = "idle"
    /\ version[v] = "PUBLISHED"
    /\ Advance(t, [Idle EXCEPT !.stage = "quarantine", !.v = v])
    /\ UNCHANGED Rows

\* Mutant: only SCHEDULED slots are cancelled.
QuarantineScheduledSlots(t) ==
    /\ tx[t].stage = "quarantine"
    /\ Advance(t, [tx[t] EXCEPT !.stage = "quarantineSlots",
                    !.mine = {s \in ActiveSlots(tx[t].v) : slot[s].status = "SCHEDULED"}])
    /\ UNCHANGED Rows

QuarantineSlots(t) ==
    LET cancelled == ActiveSlots(tx[t].v) IN
    /\ tx[t].stage = "quarantine"
    /\ \A s \in cancelled : CanWriteSlot(t, s)
    /\ Advance(t, [tx[t] EXCEPT !.stage = "quarantineSlots", !.mine = cancelled])
    /\ UNCHANGED Rows

QuarantineVersion(t) ==
    /\ tx[t].stage = "quarantineSlots"
    /\ CanWriteVersion(t, tx[t].v)
    /\ Advance(t, [tx[t] EXCEPT !.stage = "quarantineVersion"])
    /\ UNCHANGED Rows

QuarantineReadSpot(t) ==
    /\ tx[t].stage = "quarantineVersion"
    /\ Advance(t, [tx[t] EXCEPT !.stage = "quarantineCommit",
                                !.detach = spot[SpotOf[tx[t].v]].current = tx[t].v])
    /\ UNCHANGED Rows

QuarantineCommit(t) ==
    /\ tx[t].stage = "quarantineCommit"
    /\ slot' = [s \in SlotIds |-> IF s \in tx[t].mine
                                  THEN [slot[s] EXCEPT !.status = "CANCELLED"] ELSE slot[s]]
    /\ version' = [version EXCEPT ![tx[t].v] = "SUPERSEDED"]
    /\ Invalidate(tx[t].v)
    /\ Detach(t)
    /\ Finish(t)

(***************************************************************************)
(* publishPacificDate: the SCHEDULED slots of the date are found once,     *)
(* then each version is read, asserted and written in slot order.          *)
(***************************************************************************)
PublishFind(t, date) ==
    LET found == {s \in Used : slot[s].date = date /\ slot[s].status = "SCHEDULED"} IN
    /\ tx[t].stage = "idle"
    /\ found # {}
    /\ Advance(t, [Idle EXCEPT !.stage = "publish", !.todo = found])
    /\ UNCHANGED Rows

PublishRead(t, s) ==
    /\ tx[t].stage = "publish"
    /\ s \in tx[t].todo
    /\ \A r \in tx[t].todo : slot[s].order <= slot[r].order
    /\ CanBecome(slot[s].version, "PUBLISHED")
    /\ Advance(t, [tx[t] EXCEPT !.stage = "publishWrite", !.s = s])
    /\ UNCHANGED Rows

PublishWrite(t) ==
    LET s == tx[t].s
        v == slot[s].version
    IN
    /\ tx[t].stage = "publishWrite"
    /\ CanWriteVersion(t, v)
    /\ CanWriteSpot(t, SpotOf[v])
    /\ CanWriteSlot(t, s)
    /\ Advance(t, [tx[t] EXCEPT !.stage = "publish", !.s = None, !.todo = tx[t].todo \ {s},
                                !.mine = tx[t].mine \cup {s}, !.links[SpotOf[v]] = v])
    /\ UNCHANGED Rows

PublishCommit(t) ==
    LET mine == tx[t].mine
        links == tx[t].links
    IN
    /\ tx[t].stage = "publish"
    /\ tx[t].todo = {}
    /\ version' = [v \in Versions |-> IF \E s \in mine : slot[s].version = v
                                      THEN "PUBLISHED" ELSE version[v]]
    /\ spot' = [p \in Spots |-> IF links[p] # None
                                THEN [status |-> "PUBLISHED", current |-> links[p]] ELSE spot[p]]
    /\ slot' = [s \in SlotIds |-> IF s \in mine
                                  THEN [slot[s] EXCEPT !.status = "PUBLISHED"] ELSE slot[s]]
    /\ UniqueRows(slot')
    /\ Finish(t)
    /\ UNCHANGED <<valid, invalid>>

-----------------------------------------------------------------------------
Init ==
    /\ version = [v \in Versions |-> "VALIDATED"]
    /\ spot = [p \in Spots |-> [status |-> "DRAFT", current |-> None]]
    /\ slot = [s \in SlotIds |-> NoSlot]
    /\ valid = {}
    /\ invalid = {}
    /\ tx = [t \in Txs |-> Idle]

Lifecycle(t) ==
    \/ \E v \in Versions : ApproveRead(t, v) \/ ScheduleRead(t, v) \/ HoldRead(t, v)
    \/ ApproveCommit(t)
    \/ \E s \in SlotIds, date \in Dates, order \in Orders : ScheduleCommit(t, s, date, order)
    \/ HoldWrite(t)

Submit(t) == (\E v \in Versions : SubmitRead(t, v)) \/ SubmitCommit(t)

Replace(t) ==
    \/ \E v, w \in Versions : ReplaceReadOld(t, v, w)
    \/ ReplaceReadNew(t)
    \/ \E s \in SlotIds : ReplaceFindSlot(t, s)
    \/ ReplaceWriteOld(t)
    \/ ReplaceReadSpot(t)
    \/ \E s \in SlotIds, invalidation \in BOOLEAN : ReplaceCommit(t, s, invalidation)

Quarantine(t) ==
    \/ \E v \in Versions : QuarantineRead(t, v)
    \/ QuarantineSlots(t)
    \/ QuarantineVersion(t)
    \/ QuarantineReadSpot(t)
    \/ QuarantineCommit(t)

Publish(t) ==
    \/ \E date \in Dates : PublishFind(t, date)
    \/ \E s \in SlotIds : PublishRead(t, s)
    \/ PublishWrite(t)
    \/ PublishCommit(t)

Next == \E t \in Txs : Lifecycle(t) \/ Submit(t) \/ Replace(t) \/ Quarantine(t) \/ Publish(t) \/ Abort(t)

Spec == Init /\ [][Next]_vars
-----------------------------------------------------------------------------
(***************************************************************************)
(* Properties that hold whatever the interleaving.                         *)
(***************************************************************************)
TypeOK ==
    /\ version \in [Versions -> VersionStatus]
    /\ spot \in [Spots -> Spot]
    /\ slot \in [SlotIds -> Slot \cup {NoSlot}]
    /\ valid \subseteq Versions
    /\ invalid \subseteq Versions
    /\ tx \in [Txs -> Tx]

\* A version is never PUBLISHED off the calendar: it has exactly one PUBLISHED
\* slot and no other active one, however approvals, holds, publications,
\* replacements and quarantines of src/publication.ts interleave.
PublishedOnCalendar ==
    \A v \in Versions : version[v] = "PUBLISHED" =>
        \E s \in SlotIds : /\ ActiveSlots(v) = {s}
                           /\ slot[s].status = "PUBLISHED"

\* An active slot is cancelled only by the transaction that supersedes its
\* version, and unless that is a quarantine the same date and order go to
\* another version in the same transaction (replacePublishedSlot retargets).
CancelsOnlySuperseded ==
    \A s \in SlotIds : IsActive(slot[s]) /\ ~IsActive(slot'[s]) =>
        /\ version'[slot[s].version] = "SUPERSEDED"
        /\ \/ \E t \in Txs : tx[t].stage = "quarantineCommit" /\ tx'[t] = Idle
           \/ \E r \in SlotIds : /\ IsActive(slot'[r])
                                  /\ slot'[r].date = slot[s].date
                                  /\ slot'[r].order = slot[s].order
                                  /\ slot'[r].version # slot[s].version

CancelSupersedes == [][CancelsOnlySuperseded]_vars

\* Attempts are never silently dropped from a version that stays up: VALID
\* attempts are invalidated only together with superseding their version.
InvalidatesOnlySuperseded ==
    \A v \in Versions : v \in valid /\ v \notin valid' =>
        v \in invalid' /\ version'[v] = "SUPERSEDED"

InvalidationSupersedes == [][InvalidatesOnlySuperseded]_vars

(***************************************************************************)
(* Properties of operations that run one after the other.                  *)
(***************************************************************************)

\* The calendar never runs ahead of the versions: a PUBLISHED slot carries a
\* PUBLISHED version, and a SCHEDULED or PUBLISHED version has an active slot of
\* the same status.
CalendarAgrees ==
    /\ \A s \in Used : slot[s].status = "PUBLISHED" => version[slot[s].version] = "PUBLISHED"
    /\ \A v \in Versions : version[v] \in {"SCHEDULED", "PUBLISHED"} =>
          \E s \in ActiveSlots(v) : slot[s].status = version[v]

\* The calendar a reader sees: the version of the active slot of a place, the
\* places that are published, and the versions that were retired.
SlotsAt(p) == {s \in Used : IsActive(slot[s]) /\ <<slot[s].date, slot[s].order>> = p}
Occupant == [p \in Dates \X Orders |-> IF SlotsAt(p) = {} THEN None
                                       ELSE slot[CHOOSE s \in SlotsAt(p) : TRUE].version]
Live == {p \in Dates \X Orders : \E s \in SlotsAt(p) : slot[s].status = "PUBLISHED"}
Retired == {v \in Versions : version[v] = "SUPERSEDED"}

Cal == INSTANCE Calendar WITH Free <- None, occupant <- Occupant, live <- Live, retired <- Retired

\* Operations that run one after the other implement the abstract calendar:
\* places are booked, go live, are retargeted or withdrawn, and a retired
\* version never returns.
ImplementsCalendar == Cal!Spec

(***************************************************************************)
(* What the documents state and the program does not do.                   *)
(***************************************************************************)

\* An invalid slot is left unpublished and does not hold up the others: the
\* publication of a date never stops at a slot whose version is not SCHEDULED
\* while it has eligible slots to publish.
EligibleSlotsNotBlocked ==
    \A t \in Txs : tx[t].stage = "publish" =>
        \A s, r \in tx[t].todo :
            /\ \A q \in tx[t].todo : slot[s].order <= slot[q].order
            /\ CanBecome(slot[r].version, "PUBLISHED")
            => CanBecome(slot[s].version, "PUBLISHED")
=============================================================================
