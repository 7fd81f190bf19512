-------------------------- MODULE AuthoringProofs --------------------------
(***************************************************************************)
(* Proofs about Authoring for any number of days, versions and operators.  *)
(*                                                                         *)
(* The argument: a version on the calendar has one place, and the status   *)
(* its slot says (Placed); a command that is to replace a version finds it *)
(* where it saw it or superseded (OldStays), and one that is to publish    *)
(* finds its version where it put it or superseded (NewStays).             *)
(***************************************************************************)
EXTENDS Authoring, TLAPS

\* What the calendar and the versions say of each other.
EmptyIsFree == \A d \in Dates : slot[d].version = None => slot[d] = Free
SlotAgrees(d) ==
    slot[d].version # None =>
        /\ slot[d].status = IF version[slot[d].version].status = "PUBLISHED" THEN "PUBLISHED" ELSE "SCHEDULED"
        /\ version[slot[d].version].status \in {"APPROVED", "SCHEDULED", "PUBLISHED"}
        /\ slot[d].dark = "owed" => slot[d].status = "SCHEDULED"
OnePlace == \A d, e \in Dates : slot[d].version = slot[e].version /\ slot[d].version # None => d = e
HasPlace == \A v \in Versions : version[v].status \in {"SCHEDULED", "PUBLISHED"} => \E d \in Dates : IsAt(v, d)
Placed == EmptyIsFree /\ (\A d \in Dates : SlotAgrees(d)) /\ OnePlace /\ HasPlace

\* A version that exists knows its date.
Dated == \A v \in Versions : version[v].status # "NONE" => version[v].date \in Dates

Superseded(v) == version[v].status = "SUPERSEDED"

Commanded(o) ==
    /\ cmd[o].step # "idle" => cmd[o].v \in Versions /\ cmd[o].kind \in {"publish", "repair"}
    /\ cmd[o].step = "find" => cmd[o].date \in Dates

OldStays(o) ==
    cmd[o].step \in {"find", "approve", "place"} /\ cmd[o].old # None =>
        \/ Superseded(cmd[o].old)
        \/ \E d \in Dates : /\ IsAt(cmd[o].old, d)
                            /\ cmd[o].kind = "publish" => cmd[o].date = d
                            /\ cmd[o].kind = "repair" => Live(d)

NewStays(o) ==
    /\ cmd[o].step \in {"settle", "publish"} =>
          cmd[o].date \in Dates /\ (Superseded(cmd[o].v) \/ IsAt(cmd[o].v, cmd[o].date))
    /\ cmd[o].step = "place" /\ cmd[o].found = "PUBLISHED" =>
          Superseded(cmd[o].v) \/ version[cmd[o].v].status = "PUBLISHED"
    /\ cmd[o].step = "publish" => cmd[o].date <= today + 1 \/ cmd[o].date \in early

Commands == \A o \in Operators : Commanded(o) /\ OldStays(o) /\ NewStays(o)

Statuses == {"NONE", "VALIDATED", "APPROVED", "SCHEDULED", "PUBLISHED", "SUPERSEDED"}
VersionRow == [status : Statuses, date : Dates \cup {None}]
SlotRow == [version : Versions \cup {None}, status : {"FREE", "SCHEDULED", "PUBLISHED"},
            dark : {"no", "owed", "excused"}]
CommandRow == [kind : {"none", "publish", "repair"},
               step : {"idle", "find", "approve", "place", "settle", "publish"},
               v : Versions \cup {None}, date : Dates \cup {None}, old : Versions \cup {None}, found : Statuses]

World == version \in [Versions -> VersionRow] /\ slot \in [Dates -> SlotRow] /\ Placed /\ Dated

IInv == TypeOK /\ World /\ Commands /\ NotBeforeItsEve /\ DarkOnlyAfterFailure

\* What every step keeps of the calendar: a superseded version stays so, a
\* version leaves its place or stops being published only to be superseded.
Kept ==
    /\ \A v \in Versions : Superseded(v) => Superseded(v)'
    /\ \A v \in Versions, d \in Dates : IsAt(v, d) => IsAt(v, d)' \/ Superseded(v)'
    /\ \A v \in Versions, d \in Dates : IsAt(v, d) /\ Live(d) /\ IsAt(v, d)' => Live(d)'
    /\ \A v \in Versions : version[v].status = "PUBLISHED" => version'[v].status \in {"PUBLISHED", "SUPERSEDED"}

\* Only a publication shows a date, and only a replacement owes one.
NothingNew ==
    \A d \in Dates : (Live(d)' => Live(d)) /\ (slot'[d].dark = "owed" => slot[d].dark = "owed")

-----------------------------------------------------------------------------
(* The transactions.                                                       *)

\* A free slot is a slot of no version.
LEMMA FreeIsSlot == Free \in SlotRow /\ Free.version = None /\ Free.status = "FREE" /\ Free.dark = "no"
  BY DEF Free, SlotRow

\* approveSpotVersion moves no slot.
LEMMA ApproveKeeps ==
    ASSUME World, NEW v \in Versions, ApproveTx(v)
    PROVE  World' /\ Kept /\ NothingNew
  <1>1. /\ version' \in [Versions -> VersionRow]
        /\ \A w \in Versions : /\ version'[w].date = version[w].date
                               /\ version'[w].status = IF w = v THEN "APPROVED" ELSE version[w].status
    BY DEF ApproveTx, SetStatus, World, VersionRow, Statuses
  <1>2. slot' = slot /\ version[v].status \in {"VALIDATED", "SCHEDULED"}
    BY DEF ApproveTx
  <1>3. Dated'
    BY <1>1, <1>2 DEF World, Dated
  <1>4. Placed'
    BY <1>1, <1>2, AuthoringAssumption DEF World, Placed, EmptyIsFree, SlotAgrees, OnePlace, HasPlace, IsAt, SlotRow
  <1>5. Kept /\ NothingNew
    BY <1>1, <1>2 DEF Kept, NothingNew, Superseded, IsAt, Live
  <1>6. QED
    BY <1>1, <1>2, <1>3, <1>4, <1>5 DEF World

\* scheduleSpotVersion fills a free slot.
LEMMA ScheduleKeeps ==
    ASSUME World, NEW v \in Versions, NEW d \in Dates, ScheduleTx(v, d)
    PROVE  World' /\ Kept /\ NothingNew /\ IsAt(v, d)'
  <1>1. /\ version' \in [Versions -> VersionRow]
        /\ \A w \in Versions : /\ version'[w].date = version[w].date
                               /\ version'[w].status = IF w = v THEN "SCHEDULED" ELSE version[w].status
    BY DEF ScheduleTx, SetStatus, World, VersionRow, Statuses
  <1>2. /\ slot' \in [Dates -> SlotRow]
        /\ slot'[d] = [version |-> v, status |-> "SCHEDULED", dark |-> "no"]
        /\ \A e \in Dates \ {d} : slot'[e] = slot[e]
    BY DEF ScheduleTx, World, SlotRow
  <1>3. slot[d] = Free /\ version[v].status = "APPROVED" /\ \A e \in Dates : slot[e].version # v
    BY DEF ScheduleTx, PlacesOf, IsAt
  <1>4. Dated'
    BY <1>1, <1>3 DEF World, Dated
  <1>5. Placed'
    <2>1. EmptyIsFree'
      BY <1>1, <1>2, <1>3, AuthoringAssumption DEF World, Placed, EmptyIsFree, SlotAgrees, OnePlace, HasPlace, IsAt, SlotRow
    <2>2. ASSUME NEW e \in Dates PROVE SlotAgrees(e)'
      BY <1>1, <1>2, <1>3, AuthoringAssumption DEF World, Placed, EmptyIsFree, SlotAgrees, OnePlace, HasPlace, IsAt, SlotRow
    <2>3. OnePlace'
      BY <1>1, <1>2, <1>3, AuthoringAssumption DEF World, Placed, EmptyIsFree, SlotAgrees, OnePlace, HasPlace, IsAt, SlotRow
    <2>4. ASSUME NEW u \in Versions, version'[u].status \in {"SCHEDULED", "PUBLISHED"} PROVE \E e \in Dates : IsAt(u, e)'
      BY <1>1, <1>2, <1>3, FreeIsSlot, AuthoringAssumption, <2>4 DEF World, Placed, EmptyIsFree, SlotAgrees, OnePlace, HasPlace, IsAt, SlotRow
    <2>5. QED
      BY <2>1, <2>2, <2>3, <2>4 DEF Placed, HasPlace
  <1>6. Kept /\ NothingNew /\ IsAt(v, d)'
    BY <1>1, <1>2, <1>3, FreeIsSlot, AuthoringAssumption DEF Kept, NothingNew, Superseded, IsAt, Live
  <1>7. QED
    BY <1>1, <1>2, <1>4, <1>5, <1>6 DEF World

\* replacePublishedSlot hands a slot over; it owes the date only when the slot was live.
LEMMA ReplaceKeeps ==
    ASSUME World, NEW old \in Versions, NEW v \in Versions, NEW d \in Dates, NEW dark \in {"owed", "excused"},
           ReplaceTx(old, v, d, dark)
    PROVE  /\ World' /\ Kept /\ IsAt(v, d)'
           /\ \A e \in Dates : Live(e)' => Live(e)
           /\ \A e \in Dates : slot'[e].dark = "owed" => slot[e].dark = "owed" \/ (dark = "owed" /\ e = d /\ Live(d))
  <1>1. /\ version' \in [Versions -> VersionRow]
        /\ \A w \in Versions : /\ version'[w].date = version[w].date
                               /\ version'[w].status = IF w = v THEN "SCHEDULED" ELSE IF w = old THEN "SUPERSEDED"
                                                       ELSE version[w].status
    BY DEF ReplaceTx, SetStatus, World, VersionRow, Statuses
  <1>2. /\ slot' \in [Dates -> SlotRow]
        /\ slot'[d] = [version |-> v, status |-> "SCHEDULED", dark |-> IF Live(d) THEN dark ELSE slot[d].dark]
        /\ \A e \in Dates \ {d} : slot'[e] = slot[e]
    BY DEF ReplaceTx, World, SlotRow
  <1>3. /\ old # v /\ slot[d].version = old /\ version[v].status = "APPROVED"
        /\ \A e \in Dates : slot[e].version # v
    BY DEF ReplaceTx, PlacesOf, IsAt
  <1>4. Dated'
    BY <1>1, <1>3, AuthoringAssumption DEF World, Dated, ReplaceTx
  <1>5. Placed'
    <2>1. EmptyIsFree'
      BY <1>1, <1>2, <1>3, AuthoringAssumption DEF World, Placed, EmptyIsFree, SlotAgrees, OnePlace, HasPlace, IsAt, SlotRow
    <2>2. ASSUME NEW e \in Dates PROVE SlotAgrees(e)'
      BY <1>1, <1>2, <1>3, AuthoringAssumption DEF World, Placed, EmptyIsFree, SlotAgrees, OnePlace, HasPlace, IsAt, SlotRow
    <2>3. OnePlace'
      BY <1>1, <1>2, <1>3, AuthoringAssumption DEF World, Placed, EmptyIsFree, SlotAgrees, OnePlace, HasPlace, IsAt, SlotRow
    <2>4. ASSUME NEW u \in Versions, version'[u].status \in {"SCHEDULED", "PUBLISHED"} PROVE \E e \in Dates : IsAt(u, e)'
      BY <1>1, <1>2, <1>3, AuthoringAssumption, <2>4, SMTT(30) DEF World, Placed, EmptyIsFree, SlotAgrees, OnePlace, HasPlace, IsAt, SlotRow
    <2>5. QED
      BY <2>1, <2>2, <2>3, <2>4 DEF Placed, HasPlace
  <1>6. Kept /\ IsAt(v, d)'
    <2>1. version[old].status \in {"SCHEDULED", "PUBLISHED"}
      BY DEF ReplaceTx
    <2>2. \A u \in Versions : Superseded(u) => Superseded(u)'
      BY <1>1, <1>3, <2>1 DEF Superseded
    <2>3. \A u \in Versions, e \in Dates : IsAt(u, e) => IsAt(u, e)' \/ Superseded(u)'
      BY <1>1, <1>2, <1>3 DEF IsAt, Superseded
    <2>4. \A u \in Versions, e \in Dates : IsAt(u, e) /\ Live(e) /\ IsAt(u, e)' => Live(e)'
      BY <1>2, <1>3 DEF IsAt, Live
    <2>5. \A u \in Versions : version[u].status = "PUBLISHED" => version'[u].status \in {"PUBLISHED", "SUPERSEDED"}
      BY <1>1, <1>3
    <2>6. QED
      BY <1>2, <2>2, <2>3, <2>4, <2>5 DEF Kept, IsAt
  <1>7. \A e \in Dates : /\ Live(e)' => Live(e)
                         /\ slot'[e].dark = "owed" => slot[e].dark = "owed" \/ (dark = "owed" /\ e = d /\ Live(d))
    BY <1>2 DEF Live
  <1>8. QED
    BY <1>1, <1>2, <1>4, <1>5, <1>6, <1>7 DEF World

\* publishPacificDate shows its date and no other, and pays what is owed on it.
LEMMA PublishKeeps ==
    ASSUME World, NEW d \in Dates, PublishTx(d)
    PROVE  /\ World' /\ Kept
           /\ \A e \in Dates : slot'[e].version = slot[e].version
           /\ \A e \in Dates : Live(e)' => Live(e) \/ e = d
           /\ \A e \in Dates : slot'[e].dark = "owed" => slot[e].dark = "owed" /\ e # d
           /\ slot[d].version # None => Live(d)'
  <1>1. CASE slot[d].status = "SCHEDULED"
    <2> DEFINE w == slot[d].version
    <2>1. w \in Versions /\ version[w].status = "SCHEDULED"
      BY <1>1, FreeIsSlot DEF PublishTx, World, Placed, EmptyIsFree, SlotAgrees, OnePlace, HasPlace, SlotRow
    <2>2. SetStatus([u \in {w} |-> "PUBLISHED"])
      BY <1>1 DEF PublishTx
    <2>3. /\ version' \in [Versions -> VersionRow]
          /\ \A u \in Versions : /\ version'[u].date = version[u].date
                                 /\ version'[u].status = IF u = w THEN "PUBLISHED" ELSE version[u].status
      BY <2>1, <2>2 DEF SetStatus, World, VersionRow, Statuses
    <2>4. /\ slot' \in [Dates -> SlotRow]
          /\ slot'[d] = [version |-> w, status |-> "PUBLISHED", dark |-> "no"]
          /\ \A e \in Dates \ {d} : slot'[e] = slot[e]
      BY <1>1 DEF PublishTx, World, SlotRow
    <2>5. Dated'
      BY <2>1, <2>3 DEF World, Dated
    <2>6. Placed'
      <3>1. EmptyIsFree'
        BY <2>1, <2>3, <2>4, AuthoringAssumption DEF World, Placed, EmptyIsFree, SlotAgrees, OnePlace, HasPlace, IsAt, SlotRow
      <3>2. ASSUME NEW e \in Dates PROVE SlotAgrees(e)'
        BY <2>1, <2>3, <2>4, AuthoringAssumption DEF World, Placed, EmptyIsFree, SlotAgrees, OnePlace, HasPlace, IsAt, SlotRow
      <3>3. OnePlace'
        BY <2>1, <2>3, <2>4, AuthoringAssumption DEF World, Placed, EmptyIsFree, SlotAgrees, OnePlace, HasPlace, IsAt, SlotRow
      <3>4. ASSUME NEW u \in Versions, version'[u].status \in {"SCHEDULED", "PUBLISHED"} PROVE \E e \in Dates : IsAt(u, e)'
        BY <2>1, <2>3, <2>4, AuthoringAssumption, <3>4 DEF World, Placed, EmptyIsFree, SlotAgrees, OnePlace, HasPlace, IsAt, SlotRow
      <3>5. QED
        BY <3>1, <3>2, <3>3, <3>4 DEF Placed, HasPlace
    <2>7. Kept
      BY <2>1, <2>3, <2>4 DEF Kept, Superseded, IsAt, Live
    <2>8. QED
      BY <2>3, <2>4, <2>5, <2>6, <2>7 DEF World, Live
  <1>2. CASE slot[d].status # "SCHEDULED"
    <2>1. slot' = slot /\ version' = version
      BY <1>2 DEF PublishTx
    <2>2. World' /\ Kept
      BY <2>1 DEF World, Placed, EmptyIsFree, SlotAgrees, OnePlace, HasPlace, Dated, IsAt, Kept, Superseded, Live
    <2>3. slot[d].dark # "owed" /\ (slot[d].version # None => Live(d))
      BY <1>2, FreeIsSlot DEF World, Placed, EmptyIsFree, SlotAgrees, OnePlace, HasPlace, Live
    <2>4. QED
      BY <2>1, <2>2, <2>3 DEF Live
  <1>3. QED
    BY <1>1, <1>2

\* quarantinePublishedVersion frees the slots of the version.
LEMMA QuarantineKeeps ==
    ASSUME World, NEW v \in Versions, QuarantineTx(v)
    PROVE  World' /\ Kept /\ NothingNew
  <1>1. /\ version' \in [Versions -> VersionRow]
        /\ \A w \in Versions : /\ version'[w].date = version[w].date
                               /\ version'[w].status = IF w = v THEN "SUPERSEDED" ELSE version[w].status
    BY DEF QuarantineTx, SetStatus, World, VersionRow, Statuses
  <1>2. /\ slot' \in [Dates -> SlotRow]
        /\ \A e \in Dates : slot'[e] = IF slot[e].version = v THEN Free ELSE slot[e]
    BY FreeIsSlot DEF QuarantineTx, World, IsAt
  <1>3. version[v].status = "PUBLISHED"
    BY DEF QuarantineTx
  <1>4. Dated'
    BY <1>1, <1>3 DEF World, Dated
  <1>5. Placed'
    <2>1. EmptyIsFree'
      BY <1>1, <1>2, <1>3, FreeIsSlot, AuthoringAssumption DEF World, Placed, EmptyIsFree, SlotAgrees, OnePlace, HasPlace, IsAt, SlotRow
    <2>2. ASSUME NEW e \in Dates PROVE SlotAgrees(e)'
      BY <1>1, <1>2, <1>3, FreeIsSlot, AuthoringAssumption DEF World, Placed, EmptyIsFree, SlotAgrees, OnePlace, HasPlace, IsAt, SlotRow
    <2>3. OnePlace'
      BY <1>1, <1>2, <1>3, FreeIsSlot, AuthoringAssumption DEF World, Placed, EmptyIsFree, SlotAgrees, OnePlace, HasPlace, IsAt, SlotRow
    <2>4. ASSUME NEW u \in Versions, version'[u].status \in {"SCHEDULED", "PUBLISHED"} PROVE \E e \in Dates : IsAt(u, e)'
      BY <1>1, <1>2, <1>3, FreeIsSlot, AuthoringAssumption, <2>4 DEF World, Placed, EmptyIsFree, SlotAgrees, OnePlace, HasPlace, IsAt, SlotRow
    <2>5. QED
      BY <2>1, <2>2, <2>3, <2>4 DEF Placed, HasPlace
  <1>6. Kept /\ NothingNew
    BY <1>1, <1>2, <1>3, FreeIsSlot, AuthoringAssumption DEF World, Placed, EmptyIsFree, SlotAgrees, OnePlace, HasPlace, Kept, NothingNew, Superseded, IsAt, Live
  <1>7. QED
    BY <1>1, <1>2, <1>4, <1>5, <1>6 DEF World

\* An import adds a version that is on no place yet.
LEMMA FindKeeps ==
    ASSUME World, NEW o \in Operators, cmd[o].v \in Versions, cmd[o].date \in Dates, Find(o)
    PROVE  World' /\ Kept /\ NothingNew
  <1> DEFINE v == cmd[o].v
  <1>1. /\ version' \in [Versions -> VersionRow]
        /\ \A w \in Versions : version[w].status # "NONE" \/ w # v => version'[w] = version[w]
        /\ version[v].status = "NONE" => version'[v].status = "VALIDATED" /\ version'[v].date \in Dates
    BY AuthoringAssumption DEF Find, Imported, World, VersionRow, Statuses
  <1>2. slot' = slot
    BY DEF Find
  <1>3. Dated'
    BY <1>1 DEF World, Dated
  <1>4. Placed'
    BY <1>1, <1>2 DEF World, Placed, EmptyIsFree, SlotAgrees, OnePlace, HasPlace, IsAt, SlotRow
  <1>5. Kept /\ NothingNew
    BY <1>1, <1>2 DEF Kept, NothingNew, Superseded, IsAt, Live
  <1>6. QED
    BY <1>1, <1>2, <1>3, <1>4, <1>5 DEF World

\* A step that touches neither versions nor slots.
LEMMA SameKeeps ==
    ASSUME World, UNCHANGED <<version, slot>>
    PROVE  World' /\ Kept /\ NothingNew
  BY DEF World, Placed, EmptyIsFree, SlotAgrees, OnePlace, HasPlace, Dated, Kept, NothingNew, Superseded, IsAt, Live

-----------------------------------------------------------------------------
(* The commands and the clock.                                             *)

\* A date that may be shown may be shown ever after.
Shown(d) == d <= today + 1 \/ d \in early
Forward == \A d \in Dates : Shown(d) => Shown(d)'

\* What a command knows survives the steps of others.
LEMMA OthersKeep ==
    ASSUME TypeOK, World, World', Kept, Forward, NEW o \in Operators, cmd'[o] = cmd[o],
           Commanded(o), OldStays(o), NewStays(o)
    PROVE  Commanded(o)' /\ OldStays(o)' /\ NewStays(o)'
  <1>1. cmd[o] \in CommandRow
    BY DEF TypeOK, CommandRow, Statuses
  <1>2. Commanded(o)'
    BY DEF Commanded
  <1>3. OldStays(o)'
    <2>1. SUFFICES ASSUME cmd[o].step \in {"find", "approve", "place"}, cmd[o].old # None, ~Superseded(cmd[o].old)'
                   PROVE  \E d \in Dates : /\ IsAt(cmd[o].old, d)'
                                           /\ cmd[o].kind = "publish" => cmd[o].date = d
                                           /\ cmd[o].kind = "repair" => Live(d)'
      BY DEF OldStays, Superseded, IsAt
    <2>2. cmd[o].old \in Versions
      BY <1>1, <2>1 DEF CommandRow
    <2>3. PICK d \in Dates : /\ IsAt(cmd[o].old, d)
                             /\ cmd[o].kind = "publish" => cmd[o].date = d
                             /\ cmd[o].kind = "repair" => Live(d)
      BY <2>1, <2>2 DEF OldStays, Kept
    <2>4. IsAt(cmd[o].old, d)' /\ (Live(d) => Live(d)')
      BY <2>1, <2>2, <2>3 DEF Kept
    <2>5. QED
      BY <2>3, <2>4
  <1>4. NewStays(o)'
    <2>1. cmd[o].step \in {"settle", "publish"} => 
             cmd[o].date \in Dates /\ (Superseded(cmd[o].v)' \/ IsAt(cmd[o].v, cmd[o].date)')
      BY DEF NewStays, Commanded, Kept
    <2>2. cmd[o].step = "place" /\ cmd[o].found = "PUBLISHED" =>
             Superseded(cmd[o].v)' \/ version'[cmd[o].v].status = "PUBLISHED"
      BY DEF NewStays, Commanded, Kept, Superseded
    <2>3. cmd[o].step = "publish" => Shown(cmd[o].date)'
      BY <2>1 DEF NewStays, Forward, Shown
    <2>4. QED
      BY <2>1, <2>2, <2>3 DEF NewStays, Shown, Superseded, IsAt
  <1>5. QED
    BY <1>2, <1>3, <1>4

\* A command's step: it suffices to look at its own row, at the dates it shows
\* and at those it owes.
LEMMA CommandStep ==
    ASSUME IInv, NEW o \in Operators, NEW row \in CommandRow, Go(o, row), Outside, World', Kept,
           Commanded(o)', OldStays(o)', NewStays(o)',
           \A d \in Dates : Live(d)' => Live(d) \/ Shown(d),
           \A d \in Dates : slot'[d].dark = "owed" =>
               \/ row.step = "publish" /\ row.date = d
               \/ slot[d].dark = "owed" /\ ~(cmd[o].step = "publish" /\ cmd[o].date = d)
    PROVE  IInv'
  <1>1. /\ cmd' \in [Operators -> CommandRow] /\ cmd'[o] = row
        /\ \A p \in Operators \ {o} : cmd'[p] = cmd[p]
    BY DEF Go, IInv, TypeOK, CommandRow, Statuses
  <1>2. today' = today /\ job' = job /\ early' = early
    BY DEF Outside
  <1>3. TypeOK'
    BY <1>1, <1>2 DEF IInv, TypeOK, World, CommandRow, VersionRow, SlotRow, Statuses
  <1>4. Forward
    BY <1>2 DEF Forward, Shown
  <1>5. Commands'
    <2>1. ASSUME NEW p \in Operators PROVE Commanded(p)' /\ OldStays(p)' /\ NewStays(p)'
      <3>1. CASE p = o
        BY <3>1
      <3>2. CASE p # o
        BY <1>1, <1>4, <3>2, OthersKeep DEF IInv, Commands
      <3>3. QED
        BY <3>1, <3>2
    <2>2. QED
      BY <2>1 DEF Commands
  <1>6. NotBeforeItsEve'
    BY <1>2 DEF IInv, NotBeforeItsEve, Shown
  <1>7. DarkOnlyAfterFailure'
    <2>1. SUFFICES ASSUME NEW d \in Dates, slot'[d].dark = "owed"
                   PROVE  \E p \in Operators : cmd'[p].step = "publish" /\ cmd'[p].date = d
      BY DEF DarkOnlyAfterFailure
    <2>2. CASE row.step = "publish" /\ row.date = d
      BY <1>1, <2>2
    <2>3. CASE slot[d].dark = "owed" /\ ~(cmd[o].step = "publish" /\ cmd[o].date = d)
      <3>1. PICK p \in Operators : cmd[p].step = "publish" /\ cmd[p].date = d
        BY <2>3 DEF IInv, DarkOnlyAfterFailure
      <3>2. p # o
        BY <2>3, <3>1
      <3>3. QED
        BY <1>1, <3>1, <3>2
    <2>4. QED
      BY <2>1, <2>2, <2>3
  <1>8. QED
    BY <1>3, <1>5, <1>6, <1>7 DEF IInv

\* The rest of the world, which is no command's row.
LEMMA WorldStep ==
    ASSUME IInv, World', Kept, Forward, cmd' = cmd, today' \in 0 .. LastDay, job' \in {"due", "done"},
           early' \subseteq Dates,
           \A d \in Dates : Live(d)' => Live(d) \/ Shown(d)',
           \A d \in Dates : slot'[d].dark = "owed" => slot[d].dark = "owed"
    PROVE  IInv'
  <1>1. TypeOK'
    BY DEF IInv, TypeOK, World, VersionRow, SlotRow, Statuses
  <1>2. Commands'
    BY OthersKeep DEF IInv, Commands, TypeOK
  <1>3. NotBeforeItsEve'
    BY DEF IInv, NotBeforeItsEve, Forward, Shown
  <1>4. DarkOnlyAfterFailure'
    BY DEF IInv, DarkOnlyAfterFailure
  <1>5. QED
    BY <1>1, <1>2, <1>3, <1>4 DEF IInv

\* What the invariant says of one command.
LEMMA RowIs ==
    ASSUME IInv, NEW o \in Operators
    PROVE  /\ cmd[o] \in CommandRow /\ World /\ TypeOK
           /\ Commanded(o) /\ OldStays(o) /\ NewStays(o)
  BY DEF IInv, TypeOK, CommandRow, Statuses, Commands

\* publish-spot chooses a date and sees who holds it.
LEMMA StartPublishKeeps ==
    ASSUME IInv, NEW o \in Operators, NEW v \in Versions, NEW option \in Dates \cup {None},
           NEW replaceExisting \in BOOLEAN, StartPublish(o, v, option, replaceExisting)
    PROVE  IInv'
  <1>1. PICK date \in IF option = None THEN FirstFree ELSE {option} :
           LET occupied == IF option = None THEN None ELSE slot[date].version
           IN  /\ occupied \in {None, v} \/ replaceExisting
               /\ Go(o, [Idle EXCEPT !.kind = "publish", !.step = "find", !.v = v, !.date = date,
                                     !.old = IF occupied = v THEN None ELSE occupied])
    BY DEF StartPublish
  <1> DEFINE occupied == IF option = None THEN None ELSE slot[date].version
             row == [Idle EXCEPT !.kind = "publish", !.step = "find", !.v = v, !.date = date,
                                 !.old = IF occupied = v THEN None ELSE occupied]
  <1>2. date \in Dates
    BY DEF FirstFree
  <1>3. row \in CommandRow /\ Go(o, row)
    BY <1>1, <1>2 DEF Idle, CommandRow, Statuses, IInv, World, SlotRow
  <1>4. Outside /\ World' /\ Kept /\ NothingNew
    BY SameKeeps DEF StartPublish, IInv
  <1>5. cmd'[o] = row /\ row.step = "find" /\ row.v = v /\ row.date = date /\ row.kind = "publish"
    BY <1>3 DEF Go, IInv, TypeOK, Idle
  <1>6. row.old # None => slot[date].version = row.old
    BY DEF Idle
  <1>7. Commanded(o)' /\ OldStays(o)' /\ NewStays(o)'
    BY <1>2, <1>4, <1>5, <1>6 DEF Commanded, OldStays, NewStays, IsAt, StartPublish
  <1>8. cmd[o].step # "publish"
    BY DEF StartPublish, Running
  <1> HIDE DEF row
  <1>9. QED
    BY <1>3, <1>4, <1>7, <1>8, CommandStep DEF NothingNew

\* repair-spot sees the old version on a published slot.
LEMMA StartRepairKeeps ==
    ASSUME IInv, NEW o \in Operators, NEW old \in Versions, NEW v \in Versions, NEW date \in Dates,
           StartRepair(o, old, v, date)
    PROVE  IInv'
  <1> DEFINE row == [Idle EXCEPT !.kind = "repair", !.step = "find", !.v = v, !.date = date, !.old = old]
  <1>1. row \in CommandRow /\ Go(o, row)
    BY DEF StartRepair, Idle, CommandRow, Statuses
  <1>2. Outside /\ World' /\ Kept /\ NothingNew
    BY SameKeeps DEF StartRepair, IInv
  <1>3. /\ cmd'[o] = row /\ row.step = "find" /\ row.v = v /\ row.date = date /\ row.kind = "repair" /\ row.old = old
    BY <1>1 DEF Go, IInv, TypeOK, Idle
  <1>4. Commanded(o)' /\ OldStays(o)' /\ NewStays(o)'
    BY <1>2, <1>3 DEF Commanded, OldStays, NewStays, IsAt, Live, StartRepair
  <1>5. cmd[o].step # "publish"
    BY DEF StartRepair, Running
  <1> HIDE DEF row
  <1>6. QED
    BY <1>1, <1>2, <1>4, <1>5, CommandStep DEF NothingNew

\* The version is found or imported.
LEMMA FindStepKeeps ==
    ASSUME IInv, NEW o \in Operators, Find(o)
    PROVE  IInv'
  <1> DEFINE v == cmd[o].v
             row == [cmd[o] EXCEPT !.found = version'[v].status,
                                   !.date = IF cmd[o].kind = "publish" /\ cmd[o].old # None THEN @ ELSE None,
                                   !.step = IF version'[v].status = "VALIDATED" THEN "approve" ELSE "place"]
  <1>1. cmd[o] \in CommandRow /\ World /\ TypeOK /\ Commanded(o) /\ OldStays(o)
    BY RowIs
  <1>2. cmd[o].step = "find" /\ v \in Versions /\ cmd[o].date \in Dates
    BY <1>1 DEF Find, Commanded
  <1>3. Outside /\ World' /\ Kept /\ NothingNew
    BY <1>1, <1>2, FindKeeps DEF Find
  <1>4. row \in CommandRow /\ Go(o, row)
    BY <1>1, <1>2, <1>3 DEF Find, CommandRow, World, VersionRow
  <1>5. /\ cmd'[o] = row /\ row.step \in {"approve", "place"} /\ row.v = v /\ row.kind = cmd[o].kind /\ row.old = cmd[o].old
        /\ row.found = version'[v].status
        /\ row.date = IF cmd[o].kind = "publish" /\ cmd[o].old # None THEN cmd[o].date ELSE None
    BY <1>1, <1>4 DEF Go, TypeOK, CommandRow
  <1> HIDE DEF row
  <1>6. Commanded(o)' /\ NewStays(o)'
    BY <1>1, <1>2, <1>5 DEF Commanded, NewStays, Superseded
  <1>7. OldStays(o)'
    <2>1. SUFFICES ASSUME cmd[o].old # None, ~Superseded(cmd[o].old)'
                   PROVE  \E d \in Dates : /\ IsAt(cmd[o].old, d)'
                                           /\ row.kind = "publish" => row.date = d
                                           /\ row.kind = "repair" => Live(d)'
      BY <1>5 DEF OldStays, Superseded, IsAt
    <2>2. cmd[o].old \in Versions
      BY <1>1, <2>1 DEF CommandRow
    <2>3. PICK d \in Dates : /\ IsAt(cmd[o].old, d)
                             /\ cmd[o].kind = "publish" => cmd[o].date = d
                             /\ cmd[o].kind = "repair" => Live(d)
      BY <1>1, <1>2, <1>3, <1>5, <2>1, <2>2 DEF OldStays, Kept
    <2>4. QED
      BY <1>3, <1>5, <2>1, <2>2, <2>3 DEF Kept
  <1>8. QED
    BY <1>2, <1>3, <1>4, <1>6, <1>7, CommandStep DEF NothingNew

\* The version is approved.
LEMMA ApproveStepKeeps ==
    ASSUME IInv, NEW o \in Operators, Approve(o)
    PROVE  IInv'
  <1> DEFINE row == [cmd[o] EXCEPT !.found = "APPROVED", !.step = "place"]
  <1>1. cmd[o] \in CommandRow /\ World /\ TypeOK /\ Commanded(o) /\ OldStays(o)
    BY RowIs
  <1>2. cmd[o].step = "approve" /\ cmd[o].v \in Versions /\ Outside
    BY <1>1 DEF Approve, Commanded
  <1>3. World' /\ Kept /\ NothingNew
    BY <1>1, <1>2, ApproveKeeps DEF Approve
  <1>4. row \in CommandRow /\ Go(o, row)
    BY <1>1 DEF Approve, CommandRow, Statuses
  <1>5. /\ cmd'[o] = row /\ row.step = "place" /\ row.found = "APPROVED"
        /\ row.v = cmd[o].v /\ row.kind = cmd[o].kind /\ row.old = cmd[o].old /\ row.date = cmd[o].date
    BY <1>1, <1>4 DEF Go, TypeOK, CommandRow
  <1> HIDE DEF row
  <1>6. Commanded(o)' /\ NewStays(o)'
    BY <1>1, <1>2, <1>5 DEF Commanded, NewStays
  <1>7. OldStays(o)'
    <2>1. SUFFICES ASSUME cmd[o].old # None, ~Superseded(cmd[o].old)'
                   PROVE  \E d \in Dates : /\ IsAt(cmd[o].old, d)'
                                           /\ row.kind = "publish" => row.date = d
                                           /\ row.kind = "repair" => Live(d)'
      BY <1>5 DEF OldStays, Superseded, IsAt
    <2>2. cmd[o].old \in Versions
      BY <1>1, <2>1 DEF CommandRow
    <2>3. PICK d \in Dates : /\ IsAt(cmd[o].old, d)
                             /\ cmd[o].kind = "publish" => cmd[o].date = d
                             /\ cmd[o].kind = "repair" => Live(d)
      BY <1>1, <1>2, <1>3, <1>5, <2>1, <2>2 DEF OldStays, Kept
    <2>4. QED
      BY <1>3, <1>5, <2>1, <2>2, <2>3 DEF Kept
  <1>8. QED
    BY <1>2, <1>3, <1>4, <1>6, <1>7, CommandStep DEF NothingNew

\* The place a replacement takes over is the one the command saw, and was live
\* when a repair found it so.
LEMMA ReplaceStepKeeps ==
    ASSUME IInv, NEW o \in Operators, Replace(o)
    PROVE  IInv'
  <1>1. cmd[o] \in CommandRow /\ World /\ TypeOK /\ Commanded(o) /\ OldStays(o) /\ NotBeforeItsEve
    BY RowIs DEF IInv
  <1>2. PICK d \in Dates :
           /\ cmd[o].step = "place" /\ cmd[o].old # None /\ cmd[o].found = "APPROVED"
           /\ ReplaceTx(cmd[o].old, cmd[o].v, d, "owed")
           /\ IF cmd[o].kind = "repair" \/ Live(d)
              THEN Go(o, [cmd[o] EXCEPT !.step = "publish", !.date = IF cmd[o].kind = "repair" THEN d ELSE @])
              ELSE Succeed(o)
           /\ Outside
    BY DEF Replace
  <1>3. cmd[o].old \in Versions /\ cmd[o].v \in Versions /\ cmd[o].kind \in {"publish", "repair"}
    BY <1>1, <1>2 DEF Commanded, CommandRow
  <1>4. /\ World' /\ Kept /\ slot'[d].version = cmd[o].v
        /\ \A e \in Dates : Live(e)' => Live(e)
        /\ \A e \in Dates : slot'[e].dark = "owed" => slot[e].dark = "owed" \/ (e = d /\ Live(d))
    <2>1. slot'[d].version = cmd[o].v
      BY <1>1, <1>2 DEF ReplaceTx, World, SlotRow
    <2>2. QED
      BY <1>1, <1>2, <1>3, <2>1, ReplaceKeeps
  <1>5. (cmd[o].kind = "publish" => cmd[o].date = d) /\ (cmd[o].kind = "repair" => Live(d))
    <2>1. IsAt(cmd[o].old, d) /\ ~Superseded(cmd[o].old)
      BY <1>2 DEF ReplaceTx, Superseded
    <2>2. \A e \in Dates : IsAt(cmd[o].old, e) => e = d
      BY <1>1, <1>2, <2>1 DEF World, Placed, OnePlace, IsAt
    <2>3. QED
      BY <1>1, <1>2, <2>1, <2>2 DEF OldStays
  <1> DEFINE row == IF cmd[o].kind = "repair" \/ Live(d)
                    THEN [cmd[o] EXCEPT !.step = "publish", !.date = IF cmd[o].kind = "repair" THEN d ELSE @]
                    ELSE Idle
  <1>6. row \in CommandRow /\ Go(o, row)
    BY <1>1, <1>2 DEF CommandRow, Idle, Statuses, Succeed
  <1>7. /\ cmd'[o] = row
        /\ Live(d) => row.step = "publish"
        /\ row.step \in {"publish", "idle"}
        /\ row.step = "publish" => row.date = d /\ row.v = cmd[o].v /\ row.kind = cmd[o].kind /\ Live(d)
    BY <1>1, <1>3, <1>5, <1>6 DEF Go, TypeOK, CommandRow, Idle
  <1> HIDE DEF row
  <1>8. Commanded(o)' /\ OldStays(o)'
    BY <1>3, <1>7 DEF Commanded, OldStays
  <1>9. NewStays(o)'
    BY <1>1, <1>2, <1>4, <1>7 DEF NewStays, NotBeforeItsEve, Outside, IsAt, Superseded
  <1>10. QED
    BY <1>2, <1>4, <1>6, <1>7, <1>8, <1>9, CommandStep

\* The version goes to the date of its payload.
LEMMA ScheduleStepKeeps ==
    ASSUME IInv, NEW o \in Operators, Schedule(o)
    PROVE  IInv'
  <1> DEFINE v == cmd[o].v
             d == version[v].date
             row == [cmd[o] EXCEPT !.step = "settle", !.date = d]
  <1>1. cmd[o] \in CommandRow /\ World /\ TypeOK /\ Commanded(o)
    BY RowIs
  <1>2. cmd[o].step = "place" /\ ScheduleTx(v, d) /\ Outside /\ Go(o, row)
    BY DEF Schedule
  <1>3. v \in Versions /\ cmd[o].kind \in {"publish", "repair"}
    BY <1>1, <1>2 DEF Commanded
  <1>4. d \in Dates
    BY <1>1, <1>2, <1>3 DEF ScheduleTx, World, Dated
  <1>5. World' /\ Kept /\ NothingNew /\ slot'[d].version = v
    <2>1. slot'[d].version = v
      BY <1>1, <1>2, <1>4 DEF ScheduleTx, World
    <2>2. QED
      BY <1>1, <1>2, <1>3, <1>4, <2>1, ScheduleKeeps
  <1>6. row \in CommandRow
    BY <1>1, <1>4 DEF CommandRow
  <1>7. cmd'[o] = row /\ row.step = "settle" /\ row.date = d /\ row.v = v /\ row.kind = cmd[o].kind
    BY <1>1, <1>2 DEF Go, TypeOK, CommandRow
  <1> HIDE DEF row
  <1>8. Commanded(o)' /\ OldStays(o)' /\ NewStays(o)'
    BY <1>3, <1>4, <1>5, <1>7 DEF Commanded, OldStays, NewStays, IsAt
  <1>9. QED
    BY <1>2, <1>5, <1>6, <1>8, CommandStep DEF NothingNew

\* A repeated command finds its version on the calendar.
LEMMA RecoverStepKeeps ==
    ASSUME IInv, NEW o \in Operators, Recover(o)
    PROVE  IInv'
  <1>1. cmd[o] \in CommandRow /\ World /\ TypeOK /\ Commanded(o)
    BY RowIs
  <1>2. PICK d \in PlacesOf(cmd[o].v) :
           IF cmd[o].found = "SCHEDULED"
           THEN Go(o, [cmd[o] EXCEPT !.step = "settle", !.date = d]) ELSE Succeed(o)
    BY DEF Recover
  <1>3. cmd[o].step = "place" /\ Outside /\ World' /\ Kept /\ NothingNew
    BY <1>1, SameKeeps DEF Recover
  <1>4. d \in Dates /\ slot'[d].version = cmd[o].v /\ cmd[o].v \in Versions /\ cmd[o].kind \in {"publish", "repair"}
    BY <1>1, <1>3 DEF PlacesOf, IsAt, Recover, Commanded
  <1> DEFINE row == IF cmd[o].found = "SCHEDULED" THEN [cmd[o] EXCEPT !.step = "settle", !.date = d] ELSE Idle
  <1>5. row \in CommandRow /\ Go(o, row)
    BY <1>1, <1>2, <1>4 DEF CommandRow, Idle, Statuses, Succeed
  <1>6. /\ cmd'[o] = row /\ row.step \in {"settle", "idle"}
        /\ row.step = "settle" => row.date = d /\ row.v = cmd[o].v /\ row.kind = cmd[o].kind
    BY <1>1, <1>5 DEF Go, TypeOK, CommandRow, Idle
  <1> HIDE DEF row
  <1>7. Commanded(o)' /\ OldStays(o)' /\ NewStays(o)'
    BY <1>4, <1>6 DEF Commanded, OldStays, NewStays, IsAt
  <1>8. QED
    BY <1>3, <1>5, <1>7, CommandStep DEF NothingNew

\* A date that has come is published.
LEMMA SettleStepKeeps ==
    ASSUME IInv, NEW o \in Operators, Settle(o)
    PROVE  IInv'
  <1>1. cmd[o] \in CommandRow /\ World /\ TypeOK /\ Commanded(o) /\ NewStays(o)
    BY RowIs
  <1>2. cmd[o].step = "settle" /\ UNCHANGED <<version, slot>> /\ Outside /\ World' /\ Kept /\ NothingNew
    BY <1>1, SameKeeps DEF Settle
  <1> DEFINE row == IF cmd[o].date <= today THEN [cmd[o] EXCEPT !.step = "publish"] ELSE Idle
  <1>3. row \in CommandRow /\ Go(o, row)
    BY <1>1 DEF Settle, CommandRow, Idle, Statuses, Succeed
  <1>4. /\ cmd'[o] = row /\ row.step \in {"publish", "idle"}
        /\ row.step = "publish" => /\ row.date = cmd[o].date /\ row.date <= today
                                   /\ row.v = cmd[o].v /\ row.kind = cmd[o].kind
    BY <1>1, <1>3 DEF Go, TypeOK, CommandRow, Idle
  <1>5. today \in Nat
    BY <1>1, AuthoringAssumption DEF TypeOK
  <1> HIDE DEF row
  <1>6. Commanded(o)' /\ OldStays(o)'
    BY <1>1, <1>2, <1>4 DEF Commanded, OldStays
  <1>7. NewStays(o)'
    <2>1. row.step = "publish" => row.date \in Dates /\ row.date <= today + 1
      BY <1>1, <1>2, <1>4, <1>5 DEF NewStays, Dates
    <2>2. QED
      BY <1>1, <1>2, <1>4, <2>1 DEF NewStays, Outside, IsAt, Superseded
  <1>8. QED
    BY <1>2, <1>3, <1>6, <1>7, CommandStep DEF NothingNew

\* The command publishes its date and is done.
LEMMA PublishStepKeeps ==
    ASSUME IInv, NEW o \in Operators, Publish(o)
    PROVE  IInv'
  <1>1. cmd[o] \in CommandRow /\ World /\ TypeOK /\ NewStays(o)
    BY RowIs
  <1>2. cmd[o].step = "publish" /\ PublishTx(cmd[o].date) /\ Outside
    BY DEF Publish
  <1>3. cmd[o].date \in Dates /\ Shown(cmd[o].date)
    BY <1>1, <1>2 DEF NewStays, Shown
  <1>4. /\ World' /\ Kept
        /\ \A e \in Dates : Live(e)' => Live(e) \/ e = cmd[o].date
        /\ \A e \in Dates : slot'[e].dark = "owed" => slot[e].dark = "owed" /\ e # cmd[o].date
    BY <1>1, <1>2, <1>3, PublishKeeps
  <1>5. Idle \in CommandRow /\ Go(o, Idle) /\ Idle.step = "idle"
    BY DEF Publish, Succeed, Idle, CommandRow, Statuses
  <1>6. cmd'[o] = Idle
    BY <1>1, <1>5 DEF Go, TypeOK
  <1>7. Commanded(o)' /\ OldStays(o)' /\ NewStays(o)'
    BY <1>5, <1>6 DEF Commanded, OldStays, NewStays
  <1>8. QED
    BY <1>2, <1>3, <1>4, <1>5, <1>7, CommandStep

\* A command that dies is excused from what it owes.
LEMMA DieKeeps ==
    ASSUME IInv, NEW o \in Operators, Die(o)
    PROVE  IInv'
  <1>1. cmd[o] \in CommandRow /\ World /\ TypeOK
    BY RowIs
  <1>2. /\ slot' \in [Dates -> SlotRow] /\ version' = version /\ Outside
        /\ \A d \in Dates : /\ slot'[d].version = slot[d].version /\ slot'[d].status = slot[d].status
                            /\ slot[d].dark # "owed" => slot'[d] = slot[d]
                            /\ slot'[d].dark = "owed" => /\ slot[d].dark = "owed"
                                                         /\ ~(cmd[o].step = "publish" /\ cmd[o].date = d)
    BY <1>1 DEF Die, World, SlotRow
  <1>3. World'
    BY <1>1, <1>2, FreeIsSlot DEF World, Placed, EmptyIsFree, SlotAgrees, OnePlace, HasPlace, Dated, IsAt
  <1>4. Kept /\ \A d \in Dates : Live(d)' => Live(d)
    BY <1>2 DEF Kept, Superseded, IsAt, Live
  <1>5. Idle \in CommandRow /\ Go(o, Idle) /\ Idle.step = "idle"
    BY DEF Die, Idle, CommandRow, Statuses
  <1>6. cmd'[o] = Idle
    BY <1>1, <1>5 DEF Go, TypeOK
  <1>7. Commanded(o)' /\ OldStays(o)' /\ NewStays(o)'
    BY <1>5, <1>6 DEF Commanded, OldStays, NewStays
  <1>8. QED
    BY <1>2, <1>3, <1>4, <1>5, <1>7, CommandStep

\* Every step of a command.
LEMMA CommandKeeps ==
    ASSUME IInv, NEW o \in Operators, Command(o)
    PROVE  IInv'
  BY StartPublishKeeps, StartRepairKeeps, FindStepKeeps, ApproveStepKeeps, ReplaceStepKeeps, ScheduleStepKeeps,
     RecoverStepKeeps, SettleStepKeeps, PublishStepKeeps, DieKeeps DEF Command

\* The transactions of manage-spot.
LEMMA ManageKeeps ==
    ASSUME IInv, Manage
    PROVE  IInv'
  <1>1. /\ World /\ today' = today /\ job' = job /\ cmd' = cmd
        /\ today \in 0 .. LastDay /\ job \in {"due", "done"} /\ early \subseteq Dates /\ today \in Nat
    BY AuthoringAssumption DEF Manage, IInv, TypeOK
  <1>2. ASSUME NEW v \in Versions,
               ApproveTx(v) \/ QuarantineTx(v) \/ \E d \in Dates : ScheduleTx(v, d), UNCHANGED early
        PROVE  IInv'
    <2>1. World' /\ Kept /\ NothingNew
      BY <1>1, <1>2, ApproveKeeps, QuarantineKeeps, ScheduleKeeps
    <2>2. QED
      BY <1>1, <1>2, <2>1, WorldStep DEF NothingNew, Forward, Shown
  <1>3. ASSUME NEW d \in Dates, PublishTx(d), early' = IF d > today + 1 THEN early \cup {d} ELSE early
        PROVE  IInv'
    <2>1. /\ World' /\ Kept
          /\ \A e \in Dates : Live(e)' => Live(e) \/ e = d
          /\ \A e \in Dates : slot'[e].dark = "owed" => slot[e].dark = "owed"
      BY <1>1, <1>3, PublishKeeps
    <2>2. early' \subseteq Dates /\ Forward /\ Shown(d)'
      BY <1>1, <1>3 DEF Forward, Shown, Dates
    <2>3. QED
      BY <1>1, <2>1, <2>2, WorldStep
  <1>4. ASSUME NEW old \in Versions, NEW v \in Versions, NEW d \in Dates, ReplaceTx(old, v, d, "excused"),
               UNCHANGED early
        PROVE  IInv'
    <2>1. /\ World' /\ Kept
          /\ \A e \in Dates : Live(e)' => Live(e)
          /\ \A e \in Dates : slot'[e].dark = "owed" => slot[e].dark = "owed"
      BY <1>1, <1>4, ReplaceKeeps
    <2>2. QED
      BY <1>1, <1>4, <2>1, WorldStep DEF Forward, Shown
  <1>5. QED
    BY <1>2, <1>3, <1>4 DEF Manage

\* A new day, and the midnight job.
LEMMA ClockKeeps ==
    ASSUME IInv, NewDay \/ MidnightJob
    PROVE  IInv'
  <1>1. World /\ today \in 0 .. LastDay /\ early \subseteq Dates /\ LastDay \in Nat
    BY AuthoringAssumption DEF IInv, TypeOK
  <1>2. CASE NewDay
    <2>1. World' /\ Kept /\ NothingNew
      BY <1>1, <1>2, SameKeeps DEF NewDay
    <2>2. Forward
      BY <1>1, <1>2 DEF NewDay, Forward, Shown, Dates
    <2>3. today' \in 0 .. LastDay /\ job' \in {"due", "done"} /\ early' \subseteq Dates /\ cmd' = cmd
      BY <1>1, <1>2 DEF NewDay
    <2>4. QED
      BY <2>1, <2>2, <2>3, WorldStep DEF NothingNew
  <1>3. CASE MidnightJob
    <2>1. today + 1 \in Dates /\ PublishTx(today + 1)
      BY <1>1, <1>3 DEF MidnightJob, Dates
    <2>2. /\ World' /\ Kept
          /\ \A e \in Dates : Live(e)' => Live(e) \/ e = today + 1
          /\ \A e \in Dates : slot'[e].dark = "owed" => slot[e].dark = "owed"
      BY <1>1, <2>1, PublishKeeps
    <2>3. /\ today' = today /\ early' = early /\ job' = "done" /\ cmd' = cmd
          /\ Forward /\ Shown(today + 1)'
      BY <1>1, <1>3 DEF MidnightJob, Forward, Shown
    <2>4. QED
      BY <1>1, <2>2, <2>3, WorldStep
  <1>4. QED
    BY <1>2, <1>3

\* Nothing is on the calendar at first.
LEMMA InitIInv == Init => IInv
  <1> SUFFICES ASSUME Init PROVE IInv
    OBVIOUS
  <1>1. TypeOK
    BY AuthoringAssumption DEF Init, TypeOK, Free, Idle
  <1>2. World
    BY AuthoringAssumption DEF Init, World, Placed, EmptyIsFree, SlotAgrees, OnePlace, HasPlace, Dated, VersionRow,
                               SlotRow, Statuses, Free
  <1>3. Commands /\ NotBeforeItsEve /\ DarkOnlyAfterFailure
    BY DEF Init, Commands, Commanded, OldStays, NewStays, NotBeforeItsEve, DarkOnlyAfterFailure, Live, Free, Idle
  <1>4. QED
    BY <1>1, <1>2, <1>3 DEF IInv

\* The invariant is inductive.
LEMMA NextKeepsIInv == IInv /\ [Next]_vars => IInv'
  <1> SUFFICES ASSUME IInv, [Next]_vars PROVE IInv'
    OBVIOUS
  <1>1. CASE Next
    BY <1>1, CommandKeeps, ManageKeeps, ClockKeeps DEF Next
  <1>2. CASE UNCHANGED vars
    <2>1. World' /\ Kept /\ NothingNew
      BY <1>2, SameKeeps DEF vars, IInv
    <2>2. QED
      BY <1>2, <2>1, WorldStep DEF vars, IInv, TypeOK, NothingNew, Forward, Shown
  <1>3. QED
    BY <1>1, <1>2

\* The invariant holds of every behaviour.
LEMMA Invariant == Spec => []IInv
  BY InitIInv, NextKeepsIInv, PTL DEF Spec

-----------------------------------------------------------------------------
(* The theorems.                                                           *)

\* The versions, slots and commands have their types.
THEOREM TypeCorrect == Spec => []TypeOK
  <1>1. IInv => TypeOK
    BY DEF IInv
  <1>2. QED
    BY <1>1, Invariant, PTL

\* No spot is shown before the eve of its date unless an operator published that
\* date by name, whatever the commands of any number of operators do to the
\* calendar.
THEOREM NotBeforeItsEveHolds == Spec => []NotBeforeItsEve
  <1>1. IInv => NotBeforeItsEve
    BY DEF IInv
  <1>2. QED
    BY <1>1, Invariant, PTL

\* A date that was shown is dark only while a command is about to publish it,
\* or after that command died or left it to the operator.
THEOREM DarkOnlyAfterFailureHolds == Spec => []DarkOnlyAfterFailure
  <1>1. IInv => DarkOnlyAfterFailure
    BY DEF IInv
  <1>2. QED
    BY <1>1, Invariant, PTL

\* A command that reports success has its version on the calendar, and live when
\* its date has come.
THEOREM SuccessMeansPlacedHolds == Spec => SuccessMeansPlaced
  <1>1. ASSUME IInv, NEW o \in Operators, Replace(o) \/ Recover(o) \/ Settle(o) \/ Publish(o), ~Running(o)'
        PROVE  LET v == cmd[o].v
               IN  \/ version'[v].status = "SUPERSEDED"
                   \/ \E d \in Dates : slot'[d].version = v
                                       /\ (cmd[o].old = None /\ d <= today => slot'[d].status = "PUBLISHED")
    <2>1. cmd[o] \in CommandRow /\ World /\ TypeOK /\ Commanded(o) /\ NewStays(o)
      BY <1>1, RowIs
    <2>2. CASE Replace(o)
      <3>1. PICK d \in Dates : cmd[o].old # None /\ ReplaceTx(cmd[o].old, cmd[o].v, d, "owed")
        BY <2>2 DEF Replace
      <3>2. slot'[d].version = cmd[o].v
        BY <2>1, <3>1 DEF ReplaceTx, World, SlotRow
      <3>3. QED
        BY <3>1, <3>2
    <2>3. CASE Recover(o)
      <3>1. cmd[o].step = "place" /\ cmd[o].found \in {"SCHEDULED", "PUBLISHED"} /\ UNCHANGED <<version, slot>>
        BY <2>3 DEF Recover
      <3>2. PICK d \in Dates : IsAt(cmd[o].v, d) /\
               IF cmd[o].found = "SCHEDULED" THEN Go(o, [cmd[o] EXCEPT !.step = "settle", !.date = d]) ELSE Succeed(o)
        BY <2>3 DEF Recover, PlacesOf
      <3>3. cmd[o].found = "PUBLISHED"
        <4>1. SUFFICES ASSUME cmd[o].found = "SCHEDULED" PROVE FALSE
          BY <3>1
        <4>2. Go(o, [cmd[o] EXCEPT !.step = "settle", !.date = d])
          BY <3>2, <4>1
        <4>3. QED
          BY <1>1, <2>1, <4>2 DEF Go, Running, TypeOK, CommandRow
      <3>4. Superseded(cmd[o].v) \/ (version[cmd[o].v].status = "PUBLISHED" /\ cmd[o].v \in Versions)
        BY <2>1, <3>1, <3>3 DEF NewStays, Commanded
      <3>5. version[cmd[o].v].status = "PUBLISHED" /\ cmd[o].v \in Versions => slot[d].status = "PUBLISHED"
        BY <2>1, <3>2, AuthoringAssumption DEF World, Placed, SlotAgrees, IsAt
      <3>6. QED
        BY <3>1, <3>2, <3>4, <3>5 DEF Superseded, IsAt
    <2>4. CASE Settle(o)
      <3>1. cmd[o].step = "settle" /\ UNCHANGED <<version, slot>>
        BY <2>4 DEF Settle
      <3>2. cmd[o].date \in Dates /\ (Superseded(cmd[o].v) \/ IsAt(cmd[o].v, cmd[o].date))
        BY <2>1, <3>1 DEF NewStays
      <3>3. ~(cmd[o].date <= today)
        <4>1. SUFFICES ASSUME cmd[o].date <= today PROVE FALSE
          OBVIOUS
        <4>2. Go(o, [cmd[o] EXCEPT !.step = "publish"])
          BY <2>4, <4>1 DEF Settle
        <4>3. QED
          BY <1>1, <2>1, <4>2 DEF Go, Running, TypeOK, CommandRow
      <3>4. QED
        BY <3>1, <3>2, <3>3 DEF Superseded, IsAt
    <2>5. CASE Publish(o)
      <3>1. cmd[o].step = "publish" /\ PublishTx(cmd[o].date)
        BY <2>5 DEF Publish
      <3>2. cmd[o].date \in Dates /\ cmd[o].v \in Versions /\ (Superseded(cmd[o].v) \/ IsAt(cmd[o].v, cmd[o].date))
        BY <2>1, <3>1 DEF NewStays, Commanded
      <3>3. /\ Kept /\ \A e \in Dates : slot'[e].version = slot[e].version
            /\ slot[cmd[o].date].version # None => slot'[cmd[o].date].status = "PUBLISHED"
        BY <2>1, <3>1, <3>2, PublishKeeps DEF Live
      <3>4. CASE Superseded(cmd[o].v)
        BY <3>2, <3>3, <3>4 DEF Kept, Superseded
      <3>5. CASE IsAt(cmd[o].v, cmd[o].date)
        BY <3>2, <3>3, <3>5, AuthoringAssumption DEF IsAt
      <3>6. QED
        BY <3>2, <3>4, <3>5
    <2>6. QED
      BY <1>1, <2>2, <2>3, <2>4, <2>5
  <1>2. IInv => [SucceedsPlaced]_vars
    BY <1>1 DEF SucceedsPlaced
  <1>3. QED
    BY <1>2, Invariant, PTL DEF SuccessMeansPlaced

-----------------------------------------------------------------------------
(* The commands implement the abstract calendar.                           *)

Places == Dates \X {1}
Occupant == [p \in Places |-> slot[p[1]].version]
LivePlaces == {p \in Places : Live(p[1])}
Retired == {v \in Versions : version[v].status = "SUPERSEDED"}

\* The steps of Calendar over these.
LEMMA CalendarSteps ==
    ASSUME NEW d \in Dates
    PROVE  /\ \A v \in Versions :
                 /\ Occupant[<<d, 1>>] = None /\ v \notin Retired /\ (\A p \in Places : Occupant[p] # v)
                    /\ Occupant' = [Occupant EXCEPT ![<<d, 1>>] = v] /\ LivePlaces' = LivePlaces /\ Retired' = Retired
                    => Cal!Next
                 /\ Occupant[<<d, 1>>] # None /\ v \notin Retired /\ (\A p \in Places : Occupant[p] # v)
                    /\ Occupant' = [Occupant EXCEPT ![<<d, 1>>] = v] /\ LivePlaces' = LivePlaces \ {<<d, 1>>}
                    /\ Retired' = Retired \cup {Occupant[<<d, 1>>]}
                    => Cal!Next
           /\ /\ <<d, 1>> \notin LivePlaces /\ Occupant[<<d, 1>>] # None
              /\ Occupant' = Occupant /\ LivePlaces' = LivePlaces \cup {<<d, 1>>} /\ Retired' = Retired
              => Cal!Next
           /\ /\ <<d, 1>> \in LivePlaces
              /\ Occupant' = [Occupant EXCEPT ![<<d, 1>>] = None] /\ LivePlaces' = LivePlaces \ {<<d, 1>>}
              /\ Retired' = Retired \cup {Occupant[<<d, 1>>]}
              => Cal!Next
           /\ Occupant' = Occupant /\ LivePlaces' = LivePlaces /\ Retired' = Retired => UNCHANGED Cal!vars
  <1>1. <<d, 1>> \in Places /\ <<d, 1>>[1] = d
    BY DEF Places
  <1>2. ASSUME NEW v \in Versions, Occupant[<<d, 1>>] = None, v \notin Retired, \A p \in Places : Occupant[p] # v,
               Occupant' = [Occupant EXCEPT ![<<d, 1>>] = v], LivePlaces' = LivePlaces, Retired' = Retired
        PROVE  Cal!Book(<<d, 1>>, v)
    BY <1>1, <1>2 DEF Cal!Book, Cal!OffCalendar, Cal!Places, Places, Occupant, LivePlaces, Retired
  <1>3. ASSUME NEW v \in Versions, Occupant[<<d, 1>>] # None, v \notin Retired, \A p \in Places : Occupant[p] # v,
               Occupant' = [Occupant EXCEPT ![<<d, 1>>] = v], LivePlaces' = LivePlaces \ {<<d, 1>>},
               Retired' = Retired \cup {Occupant[<<d, 1>>]}
        PROVE  Cal!Retarget(<<d, 1>>, v)
    BY <1>1, <1>3 DEF Cal!Retarget, Cal!OffCalendar, Cal!Places, Places, Occupant, LivePlaces, Retired
  <1>4. ASSUME <<d, 1>> \notin LivePlaces, Occupant[<<d, 1>>] # None,
               Occupant' = Occupant, LivePlaces' = LivePlaces \cup {<<d, 1>>}, Retired' = Retired
        PROVE  {<<d, 1>>} \in SUBSET Cal!Booked(d) /\ Cal!GoLive({<<d, 1>>})
    BY <1>1, <1>4 DEF Cal!GoLive, Cal!Booked, Cal!Places, Places, Occupant, LivePlaces, Retired
  <1>5. ASSUME <<d, 1>> \in LivePlaces, Occupant' = [Occupant EXCEPT ![<<d, 1>>] = None],
               LivePlaces' = LivePlaces \ {<<d, 1>>}, Retired' = Retired \cup {Occupant[<<d, 1>>]}
        PROVE  Cal!Withdraw(<<d, 1>>)
    BY <1>1, <1>5 DEF Cal!Withdraw, Places, Occupant, LivePlaces, Retired
  <1>6. Occupant' = Occupant /\ LivePlaces' = LivePlaces /\ Retired' = Retired => UNCHANGED Cal!vars
    BY DEF Cal!vars, Places, Occupant, LivePlaces, Retired
  <1>7. <<d, 1>> \in Cal!Places
    BY <1>1 DEF Cal!Places, Places
  <1>8. QED
    BY <1>2, <1>3, <1>4, <1>5, <1>6, <1>7 DEF Cal!Next

\* A place is a date's slot 1.
LEMMA PlacesAreDates ==
    /\ \A p \in Places : p[1] \in Dates /\ p = <<p[1], 1>>
    /\ \A d \in Dates : <<d, 1>> \in Places /\ <<d, 1>>[1] = d
    /\ \A d \in Dates : Occupant[<<d, 1>>] = slot[d].version /\ (<<d, 1>> \in LivePlaces <=> Live(d))
  BY DEF Places, Occupant, LivePlaces

\* One slot changes hands and is not live afterwards.
LEMMA PlaceMoves ==
    ASSUME NEW d \in Dates, NEW x, slot'[d].version = x, slot'[d].status # "PUBLISHED",
           \A e \in Dates \ {d} : slot'[e] = slot[e]
    PROVE  Occupant' = [Occupant EXCEPT ![<<d, 1>>] = x] /\ LivePlaces' = LivePlaces \ {<<d, 1>>}
  <1>1. ASSUME NEW p \in Places PROVE slot'[p[1]].version = IF p = <<d, 1>> THEN x ELSE slot[p[1]].version
    BY PlacesAreDates
  <1>2. Occupant' = [Occupant EXCEPT ![<<d, 1>>] = x]
    BY <1>1 DEF Occupant
  <1>3. ASSUME NEW p \in Places PROVE slot'[p[1]].status = "PUBLISHED" <=> slot[p[1]].status = "PUBLISHED" /\ p # <<d, 1>>
    BY PlacesAreDates
  <1>4. LivePlaces' = LivePlaces \ {<<d, 1>>}
    BY <1>3 DEF LivePlaces, Live
  <1>5. QED
    BY <1>2, <1>4

Implements == UNCHANGED Cal!vars \/ Cal!Next

\* What neither moves a slot nor retires a version leaves the calendar alone.
LEMMA CalendarUnchanged ==
    ASSUME \A d \in Dates : slot'[d].version = slot[d].version /\ slot'[d].status = slot[d].status,
           \A v \in Versions : Superseded(v)' <=> Superseded(v)
    PROVE  UNCHANGED Cal!vars
  <1>1. Occupant' = Occupant /\ LivePlaces' = LivePlaces /\ Retired' = Retired
    BY PlacesAreDates DEF Occupant, LivePlaces, Retired, Live, Superseded, Places
  <1>2. QED
    BY <1>1 DEF Cal!vars, Places, Occupant, LivePlaces, Retired

\* Approving leaves the calendar alone.
LEMMA ApproveImplements ==
    ASSUME World, NEW v \in Versions, ApproveTx(v)
    PROVE  Implements
  <1>1. \A w \in Versions : version'[w].status = IF w = v THEN "APPROVED" ELSE version[w].status
    BY DEF ApproveTx, SetStatus, World, VersionRow, Statuses
  <1>2. slot' = slot /\ version[v].status \in {"VALIDATED", "SCHEDULED"}
    BY DEF ApproveTx
  <1>3. QED
    BY <1>1, <1>2, CalendarUnchanged DEF Implements, Superseded

\* Scheduling books a free place.
LEMMA ScheduleImplements ==
    ASSUME World, NEW v \in Versions, NEW d \in Dates, ScheduleTx(v, d)
    PROVE  Implements
  <1>1. \A w \in Versions : version'[w].status = IF w = v THEN "SCHEDULED" ELSE version[w].status
    BY DEF ScheduleTx, SetStatus, World, VersionRow, Statuses
  <1>2. /\ slot'[d] = [version |-> v, status |-> "SCHEDULED", dark |-> "no"]
        /\ \A e \in Dates \ {d} : slot'[e] = slot[e]
        /\ slot[d] = Free /\ version[v].status = "APPROVED" /\ \A e \in Dates : slot[e].version # v
    BY DEF ScheduleTx, World, PlacesOf, IsAt
  <1>3. Occupant[<<d, 1>>] = None /\ v \notin Retired /\ (\A p \in Places : Occupant[p] # v)
    BY <1>2, FreeIsSlot, PlacesAreDates DEF Retired
  <1>4. Occupant' = [Occupant EXCEPT ![<<d, 1>>] = v] /\ LivePlaces' = LivePlaces
    <2>1. <<d, 1>> \notin LivePlaces
      BY <1>2, FreeIsSlot, PlacesAreDates DEF Live
    <2>2. slot'[d].version = v /\ slot'[d].status # "PUBLISHED"
      BY <1>2
    <2>3. Occupant' = [Occupant EXCEPT ![<<d, 1>>] = v] /\ LivePlaces' = LivePlaces \ {<<d, 1>>}
      BY <1>2, <2>2, PlaceMoves
    <2>4. QED
      BY <2>1, <2>3
  <1>5. Retired' = Retired
    BY <1>1, <1>2 DEF Retired
  <1>6. QED
    BY <1>3, <1>4, <1>5, CalendarSteps DEF Implements

\* Replacing retargets a place.
LEMMA ReplaceImplements ==
    ASSUME World, NEW old \in Versions, NEW v \in Versions, NEW d \in Dates, NEW dark, ReplaceTx(old, v, d, dark)
    PROVE  Implements
  <1>1. \A w \in Versions : version'[w].status = IF w = v THEN "SCHEDULED" ELSE IF w = old THEN "SUPERSEDED"
                                                 ELSE version[w].status
    BY DEF ReplaceTx, SetStatus, World, VersionRow, Statuses
  <1>2. /\ slot'[d].version = v /\ slot'[d].status = "SCHEDULED"
        /\ \A e \in Dates \ {d} : slot'[e] = slot[e]
        /\ slot[d].version = old /\ old # v /\ version[v].status = "APPROVED" /\ \A e \in Dates : slot[e].version # v
    BY DEF ReplaceTx, World, SlotRow, PlacesOf, IsAt
  <1>3. /\ Occupant[<<d, 1>>] = old /\ old # None
        /\ v \notin Retired /\ (\A p \in Places : Occupant[p] # v)
    BY <1>2, PlacesAreDates, AuthoringAssumption DEF Retired
  <1>4. Occupant' = [Occupant EXCEPT ![<<d, 1>>] = v] /\ LivePlaces' = LivePlaces \ {<<d, 1>>}
    BY <1>2, PlaceMoves
  <1>5. Retired' = Retired \cup {old}
    BY <1>1, <1>2 DEF Retired
  <1>6. QED
    BY <1>3, <1>4, <1>5, CalendarSteps DEF Implements

\* Publishing a date lets its place go live, or does nothing.
LEMMA PublishImplements ==
    ASSUME World, NEW d \in Dates, PublishTx(d)
    PROVE  Implements
  <1>1. CASE slot[d].status = "SCHEDULED"
    <2> DEFINE w == slot[d].version
    <2>1. w \in Versions /\ w # None /\ version[w].status = "SCHEDULED"
      BY <1>1, FreeIsSlot, AuthoringAssumption DEF PublishTx, World, Placed, EmptyIsFree, SlotRow
    <2>2. \A u \in Versions : version'[u].status = IF u = w THEN "PUBLISHED" ELSE version[u].status
      BY <1>1, <2>1 DEF PublishTx, SetStatus, World, VersionRow, Statuses
    <2>3. /\ slot'[d].version = w /\ slot'[d].status = "PUBLISHED"
          /\ \A e \in Dates \ {d} : slot'[e] = slot[e]
      BY <1>1 DEF PublishTx, World, SlotRow
    <2>4. <<d, 1>> \notin LivePlaces /\ Occupant[<<d, 1>>] # None
      BY <1>1, <2>1, PlacesAreDates DEF Live
    <2>5. Occupant' = Occupant /\ LivePlaces' = LivePlaces \cup {<<d, 1>>}
      BY <2>3, PlacesAreDates DEF Occupant, LivePlaces, Live, Places
    <2>6. Retired' = Retired
      BY <2>1, <2>2 DEF Retired
    <2>7. QED
      BY <2>4, <2>5, <2>6, CalendarSteps DEF Implements
  <1>2. CASE slot[d].status # "SCHEDULED"
    BY <1>2, CalendarUnchanged DEF PublishTx, Implements, Superseded
  <1>3. QED
    BY <1>1, <1>2

\* Quarantine withdraws a place.
LEMMA QuarantineImplements ==
    ASSUME World, NEW v \in Versions, QuarantineTx(v)
    PROVE  Implements
  <1>1. version[v].status = "PUBLISHED" /\
        \A w \in Versions : version'[w].status = IF w = v THEN "SUPERSEDED" ELSE version[w].status
    BY DEF QuarantineTx, SetStatus, World, VersionRow, Statuses
  <1>2. \A e \in Dates : slot'[e] = IF slot[e].version = v THEN Free ELSE slot[e]
    BY DEF QuarantineTx, World, IsAt
  <1>3. PICK d \in Dates : slot[d].version = v
    BY <1>1 DEF World, Placed, HasPlace, IsAt
  <1>4. Live(d) /\ \A e \in Dates \ {d} : slot[e].version # v
    BY <1>1, <1>3, AuthoringAssumption DEF World, Placed, SlotAgrees, OnePlace, Live
  <1>5. <<d, 1>> \in LivePlaces /\ Occupant[<<d, 1>>] = v
    BY <1>3, <1>4, PlacesAreDates
  <1>6. Occupant' = [Occupant EXCEPT ![<<d, 1>>] = None] /\ LivePlaces' = LivePlaces \ {<<d, 1>>}
    BY <1>2, <1>3, <1>4, FreeIsSlot, PlaceMoves
  <1>7. Retired' = Retired \cup {v}
    BY <1>1 DEF Retired
  <1>8. QED
    BY <1>5, <1>6, <1>7, CalendarSteps DEF Implements

\* Every step of a command is a step of the calendar or leaves it alone.
LEMMA CommandImplements ==
    ASSUME IInv, NEW o \in Operators, Command(o)
    PROVE  Implements
  <1>1. cmd[o] \in CommandRow /\ World /\ TypeOK /\ Commanded(o) /\ OldStays(o) /\ NewStays(o)
    BY RowIs
  <1>2. ASSUME UNCHANGED <<version, slot>> PROVE Implements
    BY <1>2, CalendarUnchanged DEF Implements, Superseded
  <1>3. CASE \/ \E v \in Versions, option \in Dates \cup {None}, replaceExisting \in BOOLEAN :
                    StartPublish(o, v, option, replaceExisting)
             \/ \E old, v \in Versions, date \in Dates : StartRepair(o, old, v, date)
             \/ Recover(o) \/ Settle(o)
    BY <1>2, <1>3 DEF StartPublish, StartRepair, Recover, Settle
  <1>4. CASE Find(o)
    <2>1. cmd[o].v \in Versions /\ slot' = slot
      BY <1>1, <1>4 DEF Find, Commanded
    <2>2. \A w \in Versions : Superseded(w)' <=> Superseded(w)
      BY <1>1, <1>4, <2>1 DEF Find, Imported, World, VersionRow, Statuses, Superseded
    <2>3. QED
      BY <2>1, <2>2, CalendarUnchanged DEF Implements
  <1>5. CASE Approve(o)
    BY <1>1, <1>5, ApproveImplements DEF Approve, Commanded
  <1>6. CASE Replace(o)
    <2>1. PICK d \in Dates : ReplaceTx(cmd[o].old, cmd[o].v, d, "owed") /\ cmd[o].step = "place" /\ cmd[o].old # None
      BY <1>6 DEF Replace
    <2>2. cmd[o].old \in Versions /\ cmd[o].v \in Versions
      BY <1>1, <2>1 DEF Commanded, CommandRow
    <2>3. QED
      BY <1>1, <2>1, <2>2, ReplaceImplements
  <1>7. CASE Schedule(o)
    <2>1. cmd[o].step = "place" /\ ScheduleTx(cmd[o].v, version[cmd[o].v].date) /\ cmd[o].v \in Versions
      BY <1>1, <1>7 DEF Schedule, Commanded
    <2>2. version[cmd[o].v].date \in Dates
      BY <1>1, <2>1 DEF ScheduleTx, World, Dated
    <2>3. QED
      BY <1>1, <2>1, <2>2, ScheduleImplements
  <1>8. CASE Publish(o)
    BY <1>1, <1>8, PublishImplements DEF Publish, NewStays
  <1>9. CASE Die(o)
    <2>1. version' = version /\ \A d \in Dates : slot'[d].version = slot[d].version /\ slot'[d].status = slot[d].status
      BY <1>1, <1>9 DEF Die, World, SlotRow
    <2>2. QED
      BY <2>1, CalendarUnchanged DEF Implements, Superseded
  <1>10. QED
    BY <1>3, <1>4, <1>5, <1>6, <1>7, <1>8, <1>9 DEF Command

\* So is every step.
LEMMA NextImplements == IInv /\ [Next]_vars => [Implements]_<<slot, version>>
  <1> SUFFICES ASSUME IInv, [Next]_vars PROVE [Implements]_<<slot, version>>
    OBVIOUS
  <1>1. World /\ today \in 0 .. LastDay /\ LastDay \in Nat
    BY AuthoringAssumption DEF IInv, TypeOK
  <1>2. CASE \E o \in Operators : Command(o)
    BY <1>2, CommandImplements
  <1>3. CASE Manage
    BY <1>1, <1>3, ApproveImplements, ScheduleImplements, QuarantineImplements, PublishImplements, ReplaceImplements
       DEF Manage
  <1>4. CASE NewDay
    BY <1>4 DEF NewDay
  <1>5. CASE MidnightJob
    <2>1. today + 1 \in Dates /\ PublishTx(today + 1)
      BY <1>1, <1>5 DEF MidnightJob, Dates
    <2>2. QED
      BY <1>1, <2>1, PublishImplements
  <1>6. CASE UNCHANGED vars
    BY <1>6 DEF vars
  <1>7. QED
    BY <1>2, <1>3, <1>4, <1>5, <1>6 DEF Next

\* However many operators race, crash and repeat commands, every step books a
\* free place, takes one over, publishes or withdraws it, or leaves the calendar
\* alone.
THEOREM CommandsKeepCalendarHolds == Spec => CommandsKeepCalendar
  <1>1. Init => Cal!Init
    BY DEF Init, Cal!Init, Cal!Places, Free, Live
  <1>2. QED
    BY <1>1, Invariant, NextImplements, PTL DEF Spec, CommandsKeepCalendar, Implements
=============================================================================
