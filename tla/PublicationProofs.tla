------------------------- MODULE PublicationProofs -------------------------
(***************************************************************************)
(* Proofs about Publication, for every set of versions, spots, dates,      *)
(* orders, slot ids and concurrent transactions.                           *)
(***************************************************************************)
EXTENDS Publication, TLAPS

(***************************************************************************)
(* What an open transaction remembers stays true of the rows it points at: *)
(* a slot row never changes its version, and rows are never deleted.       *)
(***************************************************************************)
Working == Stages \ {"idle", "publish", "publishWrite"}
Replacing == {"replaceNew", "replaceSlot", "replaceWrite", "replaceLocked", "replaceCommit"}
FoundSlot == {"replaceWrite", "replaceLocked", "replaceCommit"}
Cancelling == {"quarantineSlots", "quarantineVersion", "quarantineCommit"}
Publishing == {"publish", "publishWrite"}

Remembers(x) ==
    /\ x.stage \in Working => x.v \in Versions
    /\ x.stage \in Replacing => x.w \in Versions /\ x.w # x.v
    /\ x.stage \in FoundSlot => x.s \in Used /\ slot[x.s].version = x.v
    /\ x.stage \in Cancelling => \A s \in x.mine : s \in Used /\ slot[s].version = x.v
    /\ x.stage \in Publishing => x.todo \subseteq Used /\ x.mine \subseteq Used
    /\ x.stage = "publishWrite" => x.s \in x.todo

TxOK == \A t \in Txs : Remembers(tx[t])

PublishedHasSlot ==
    \A v \in Versions : version[v] = "PUBLISHED" =>
        \E s \in SlotIds : slot[s].version = v /\ slot[s].status = "PUBLISHED"

\* The inductive invariant.  PublishedOnCalendar follows from its last two
\* conjuncts; TxOK is what makes them inductive, since the committing steps
\* write rows chosen from what the transaction read long before.
IInv ==
    /\ TypeOK
    /\ TxOK
    /\ UniqueRows(slot)
    /\ PublishedHasSlot

-----------------------------------------------------------------------------
\* The state between two transactions is one a transaction can be in.
LEMMA IdleType == Idle \in Tx
  BY DEF Idle, Tx, Stages

\* An id in use holds a slot row; an unused one holds none.
LEMMA RowFacts ==
    ASSUME TypeOK
    PROVE  /\ NoSlot \notin Slot
           /\ \A s \in SlotIds : s \in Used <=> slot[s] \in Slot
  <1>1. NoSlot \notin Slot
    BY DEF NoSlot, Slot
  <1>2. QED
    BY <1>1 DEF TypeOK, Used

\* Initially nothing is scheduled and no transaction is open.
LEMMA InitIInv == Init => IInv
  <1> SUFFICES ASSUME Init PROVE IInv
    OBVIOUS
  <1> USE PublicationAssumption
  <1>1. TypeOK
    BY IdleType DEF Init, TypeOK, VersionStatus, Spot
  <1>2. TxOK
    BY DEF Init, TxOK, Remembers, Idle, Working, Replacing, FoundSlot, Cancelling, Publishing
  <1>3. UniqueRows(slot)
    BY DEF Init, UniqueRows, NoSlot, IsActive
  <1>4. PublishedHasSlot
    BY DEF Init, PublishedHasSlot
  <1>5. QED
    BY <1>1, <1>2, <1>3, <1>4 DEF IInv

\* A step that only moves one transaction forward keeps the invariant when what
\* the transaction now remembers is true.
LEMMA ReadStep ==
    ASSUME IInv, NEW t \in Txs, NEW next \in Tx, Remembers(next), Advance(t, next), UNCHANGED Rows
    PROVE  IInv'
  <1>1. TypeOK'
    BY DEF IInv, TypeOK, Advance, Rows
  <1>2. TxOK'
    <2> SUFFICES ASSUME NEW u \in Txs PROVE Remembers(tx[u])'
      BY DEF TxOK
    <2>1. tx'[u] = IF u = t THEN next ELSE tx[u]
      BY DEF IInv, TypeOK, Advance
    <2>2. Remembers(tx[u])
      BY DEF IInv, TxOK
    <2>3. UNCHANGED slot
      BY DEF Rows
    <2>4. QED
      BY <2>1, <2>2, <2>3 DEF Remembers, Used
  <1>3. UniqueRows(slot)' /\ PublishedHasSlot'
    BY DEF IInv, UniqueRows, PublishedHasSlot, Rows
  <1>4. QED
    BY <1>1, <1>2, <1>3 DEF IInv

\* A step that ends one transaction keeps the others' memories true when it
\* neither deletes slot rows nor moves them to another version.
LEMMA CommitKeepsMemories ==
    ASSUME IInv, NEW t \in Txs, Finish(t),
           \A s \in Used : s \in Used' /\ slot'[s].version = slot[s].version
    PROVE  TxOK'
  <1> SUFFICES ASSUME NEW u \in Txs PROVE Remembers(tx[u])'
    BY DEF TxOK
  <1>1. CASE u = t
    <2>1. tx'[u] = Idle
      BY <1>1 DEF IInv, TypeOK, Finish, Advance
    <2>2. QED
      BY <2>1 DEF Remembers, Idle, Working, Replacing, FoundSlot, Cancelling, Publishing
  <1>2. CASE u # t
    <2>1. tx'[u] = tx[u]
      BY <1>2 DEF IInv, TypeOK, Finish, Advance
    <2>2. Remembers(tx[u])
      BY DEF IInv, TxOK
    <2>3. Used \subseteq Used'
      OBVIOUS
    <2>4. QED
      BY <2>1, <2>2, <2>3 DEF Remembers
  <1>3. QED
    BY <1>1, <1>2

\* The steps that read, or write rows not committed yet.
LEMMA AbortKeepsIInv ==
    ASSUME IInv, NEW t \in Txs, Abort(t)
    PROVE  IInv'
  <1>1. Remembers(Idle)
    BY DEF Remembers, Idle, Working, Replacing, FoundSlot, Cancelling, Publishing
  <1>2. QED
    BY <1>1, IdleType, ReadStep DEF Abort, Finish

\* approveSpotVersion reads the version and asserts its status.
LEMMA ApproveReadKeepsIInv ==
    ASSUME IInv, NEW t \in Txs, NEW v \in Versions, ApproveRead(t, v)
    PROVE  IInv'
  <1> DEFINE next == [Idle EXCEPT !.stage = "approve", !.v = v]
  <1>1. next \in Tx
    BY PublicationAssumption DEF IInv, TypeOK, Tx, Stages, Idle
  <1>2. Remembers(next)
    BY DEF IInv, TypeOK, TxOK, Remembers, Idle, Tx, Working, Replacing, FoundSlot, Cancelling, Publishing, Stages
  <1>3. QED
    BY <1>1, <1>2, ReadStep DEF ApproveRead

\* scheduleSpotVersion reads the version and asserts its status.
LEMMA ScheduleReadKeepsIInv ==
    ASSUME IInv, NEW t \in Txs, NEW v \in Versions, ScheduleRead(t, v)
    PROVE  IInv'
  <1> DEFINE next == [Idle EXCEPT !.stage = "schedule", !.v = v]
  <1>1. next \in Tx
    BY PublicationAssumption DEF IInv, TypeOK, Tx, Stages, Idle
  <1>2. Remembers(next)
    BY DEF IInv, TypeOK, TxOK, Remembers, Idle, Tx, Working, Replacing, FoundSlot, Cancelling, Publishing, Stages
  <1>3. QED
    BY <1>1, <1>2, ReadStep DEF ScheduleRead

\* The hold route reads the version and asserts its status.
LEMMA HoldReadKeepsIInv ==
    ASSUME IInv, NEW t \in Txs, NEW v \in Versions, HoldRead(t, v)
    PROVE  IInv'
  <1> DEFINE next == [Idle EXCEPT !.stage = "hold", !.v = v]
  <1>1. next \in Tx
    BY PublicationAssumption DEF IInv, TypeOK, Tx, Stages, Idle
  <1>2. Remembers(next)
    BY DEF IInv, TypeOK, TxOK, Remembers, Idle, Tx, Working, Replacing, FoundSlot, Cancelling, Publishing, Stages
  <1>3. QED
    BY <1>1, <1>2, ReadStep DEF HoldRead

\* createAttempt reads the version it serves.
LEMMA SubmitReadKeepsIInv ==
    ASSUME IInv, NEW t \in Txs, NEW v \in Versions, SubmitRead(t, v)
    PROVE  IInv'
  <1> DEFINE next == [Idle EXCEPT !.stage = "submit", !.v = v]
  <1>1. next \in Tx
    BY PublicationAssumption DEF IInv, TypeOK, Tx, Stages, Idle
  <1>2. Remembers(next)
    BY DEF IInv, TypeOK, TxOK, Remembers, Idle, Tx, Working, Replacing, FoundSlot, Cancelling, Publishing, Stages
  <1>3. QED
    BY <1>1, <1>2, ReadStep DEF SubmitRead

\* replacePublishedSlot reads the version to retire.
LEMMA ReplaceReadOldKeepsIInv ==
    ASSUME IInv, NEW t \in Txs, NEW v \in Versions, NEW w \in Versions, ReplaceReadOld(t, v, w)
    PROVE  IInv'
  <1> DEFINE next == [Idle EXCEPT !.stage = "replaceNew", !.v = v, !.w = w]
  <1>1. next \in Tx
    BY PublicationAssumption DEF IInv, TypeOK, Tx, Stages, Idle, ReplaceReadOld
  <1>2. Remembers(next)
    BY DEF IInv, TypeOK, TxOK, Remembers, Idle, Tx, Working, Replacing, FoundSlot, Cancelling, Publishing, Stages, ReplaceReadOld
  <1>3. QED
    BY <1>1, <1>2, ReadStep DEF ReplaceReadOld

\* replacePublishedSlot reads the replacement.
LEMMA ReplaceReadNewKeepsIInv ==
    ASSUME IInv, NEW t \in Txs, ReplaceReadNew(t)
    PROVE  IInv'
  <1> DEFINE next == [tx[t] EXCEPT !.stage = "replaceSlot"]
  <1>0. tx[t] \in Tx
    BY DEF IInv, TypeOK
  <1>1. next \in Tx
    BY <1>0 DEF Tx, Stages
  <1>2. /\ next.stage = "replaceSlot"
        /\ next.v = tx[t].v /\ next.w = tx[t].w /\ next.s = tx[t].s /\ next.todo = tx[t].todo /\ next.mine = tx[t].mine
    BY <1>0 DEF Tx
  <1>3. Remembers(tx[t])
    BY DEF IInv, TxOK
  <1> HIDE DEF next
  <1>4. Remembers(next)
    BY <1>2, <1>3 DEF Remembers, Working, Replacing, FoundSlot, Cancelling, Publishing, Stages, ReplaceReadNew
  <1>5. QED
    BY <1>1, <1>4, ReadStep DEF ReplaceReadNew, next

\* The slot it finds carries the version it retires.
LEMMA ReplaceFindSlotKeepsIInv ==
    ASSUME IInv, NEW t \in Txs, NEW s \in SlotIds, ReplaceFindSlot(t, s)
    PROVE  IInv'
  <1> DEFINE next == [tx[t] EXCEPT !.stage = "replaceWrite", !.s = s]
  <1>0. tx[t] \in Tx
    BY DEF IInv, TypeOK
  <1>1. next \in Tx
    BY <1>0 DEF Tx, Stages
  <1>2. /\ next.stage = "replaceWrite"
        /\ next.v = tx[t].v /\ next.w = tx[t].w /\ next.s = s /\ next.todo = tx[t].todo /\ next.mine = tx[t].mine
    BY <1>0 DEF Tx
  <1>3. Remembers(tx[t])
    BY DEF IInv, TxOK
  <1> HIDE DEF next
  <1>4. Remembers(next)
    BY <1>2, <1>3 DEF Remembers, Working, Replacing, FoundSlot, Cancelling, Publishing, Stages, ReplaceFindSlot, ActiveSlots
  <1>5. QED
    BY <1>1, <1>4, ReadStep DEF ReplaceFindSlot, next

\* replacePublishedSlot looks at the old spot.
LEMMA ReplaceReadSpotKeepsIInv ==
    ASSUME IInv, NEW t \in Txs, ReplaceReadSpot(t)
    PROVE  IInv'
  <1> DEFINE next == [tx[t] EXCEPT !.stage = "replaceCommit", !.detach = spot[SpotOf[tx[t].v]].current = tx[t].v]
  <1>0. tx[t] \in Tx
    BY DEF IInv, TypeOK
  <1>1. next \in Tx
    BY <1>0 DEF Tx, Stages
  <1>2. /\ next.stage = "replaceCommit"
        /\ next.v = tx[t].v /\ next.w = tx[t].w /\ next.s = tx[t].s /\ next.todo = tx[t].todo /\ next.mine = tx[t].mine
    BY <1>0 DEF Tx
  <1>3. Remembers(tx[t])
    BY DEF IInv, TxOK
  <1> HIDE DEF next
  <1>4. Remembers(next)
    BY <1>2, <1>3 DEF Remembers, Working, Replacing, FoundSlot, Cancelling, Publishing, Stages, ReplaceReadSpot
  <1>5. QED
    BY <1>1, <1>4, ReadStep DEF ReplaceReadSpot, next

\* quarantinePublishedVersion reads the version.
LEMMA QuarantineReadKeepsIInv ==
    ASSUME IInv, NEW t \in Txs, NEW v \in Versions, QuarantineRead(t, v)
    PROVE  IInv'
  <1> DEFINE next == [Idle EXCEPT !.stage = "quarantine", !.v = v]
  <1>1. next \in Tx
    BY PublicationAssumption DEF IInv, TypeOK, Tx, Stages, Idle
  <1>2. Remembers(next)
    BY DEF IInv, TypeOK, TxOK, Remembers, Idle, Tx, Working, Replacing, FoundSlot, Cancelling, Publishing, Stages
  <1>3. QED
    BY <1>1, <1>2, ReadStep DEF QuarantineRead

\* The slots it cancels carry the version it retires.
LEMMA QuarantineSlotsKeepsIInv ==
    ASSUME IInv, NEW t \in Txs, QuarantineSlots(t)
    PROVE  IInv'
  <1> DEFINE next == [tx[t] EXCEPT !.stage = "quarantineSlots", !.mine = ActiveSlots(tx[t].v)]
  <1>0. tx[t] \in Tx
    BY DEF IInv, TypeOK
  <1>1. next \in Tx
    BY <1>0 DEF Tx, Stages, ActiveSlots, Used
  <1>2. /\ next.stage = "quarantineSlots"
        /\ next.v = tx[t].v /\ next.w = tx[t].w /\ next.s = tx[t].s /\ next.todo = tx[t].todo /\ next.mine = ActiveSlots(tx[t].v)
    BY <1>0 DEF Tx
  <1>3. Remembers(tx[t])
    BY DEF IInv, TxOK
  <1> HIDE DEF next
  <1>4. Remembers(next)
    BY <1>2, <1>3 DEF Remembers, Working, Replacing, FoundSlot, Cancelling, Publishing, Stages, QuarantineSlots, ActiveSlots, Used
  <1>5. QED
    BY <1>1, <1>4, ReadStep DEF QuarantineSlots, next

\* quarantinePublishedVersion locks the version.
LEMMA QuarantineVersionKeepsIInv ==
    ASSUME IInv, NEW t \in Txs, QuarantineVersion(t)
    PROVE  IInv'
  <1> DEFINE next == [tx[t] EXCEPT !.stage = "quarantineVersion"]
  <1>0. tx[t] \in Tx
    BY DEF IInv, TypeOK
  <1>1. next \in Tx
    BY <1>0 DEF Tx, Stages
  <1>2. /\ next.stage = "quarantineVersion"
        /\ next.v = tx[t].v /\ next.w = tx[t].w /\ next.s = tx[t].s /\ next.todo = tx[t].todo /\ next.mine = tx[t].mine
    BY <1>0 DEF Tx
  <1>3. Remembers(tx[t])
    BY DEF IInv, TxOK
  <1> HIDE DEF next
  <1>4. Remembers(next)
    BY <1>2, <1>3 DEF Remembers, Working, Replacing, FoundSlot, Cancelling, Publishing, Stages, QuarantineVersion
  <1>5. QED
    BY <1>1, <1>4, ReadStep DEF QuarantineVersion, next

\* quarantinePublishedVersion looks at the spot.
LEMMA QuarantineReadSpotKeepsIInv ==
    ASSUME IInv, NEW t \in Txs, QuarantineReadSpot(t)
    PROVE  IInv'
  <1> DEFINE next == [tx[t] EXCEPT !.stage = "quarantineCommit", !.detach = spot[SpotOf[tx[t].v]].current = tx[t].v]
  <1>0. tx[t] \in Tx
    BY DEF IInv, TypeOK
  <1>1. next \in Tx
    BY <1>0 DEF Tx, Stages
  <1>2. /\ next.stage = "quarantineCommit"
        /\ next.v = tx[t].v /\ next.w = tx[t].w /\ next.s = tx[t].s /\ next.todo = tx[t].todo /\ next.mine = tx[t].mine
    BY <1>0 DEF Tx
  <1>3. Remembers(tx[t])
    BY DEF IInv, TxOK
  <1> HIDE DEF next
  <1>4. Remembers(next)
    BY <1>2, <1>3 DEF Remembers, Working, Replacing, FoundSlot, Cancelling, Publishing, Stages, QuarantineReadSpot
  <1>5. QED
    BY <1>1, <1>4, ReadStep DEF QuarantineReadSpot, next

\* Locking the found slot keeps the transaction's memory of it.
LEMMA ReplaceWriteOldKeepsIInv ==
    ASSUME IInv, NEW t \in Txs, ReplaceWriteOld(t)
    PROVE  IInv'
  <1> DEFINE stage == IF SpotOf[tx[t].v] = SpotOf[tx[t].w] THEN "replaceCommit" ELSE "replaceLocked"
  <1> DEFINE next == [tx[t] EXCEPT !.stage = stage, !.mine = {tx[t].s}]
  <1>0. tx[t] \in Tx /\ stage \in {"replaceCommit", "replaceLocked"}
    BY DEF IInv, TypeOK
  <1>1. Advance(t, next) /\ UNCHANGED Rows /\ tx[t].stage = "replaceWrite"
    BY DEF ReplaceWriteOld
  <1> HIDE DEF stage
  <1>2. Remembers(tx[t])
    BY DEF IInv, TxOK
  <1>3. tx[t].s \in SlotIds
    BY <1>1, <1>2 DEF Remembers, FoundSlot, Used
  <1>4. next \in Tx
    BY <1>0, <1>3 DEF Tx, Stages
  <1>5. /\ next.stage = stage
        /\ next.v = tx[t].v /\ next.w = tx[t].w /\ next.s = tx[t].s
    BY <1>0 DEF Tx
  <1> HIDE DEF next
  <1>6. Remembers(next)
    BY <1>0, <1>1, <1>2, <1>5 DEF Remembers, Working, Replacing, FoundSlot, Cancelling, Publishing, Stages
  <1>7. QED
    BY <1>1, <1>4, <1>6, ReadStep

\* publishPacificDate finds slot rows that exist.
LEMMA PublishFindKeepsIInv ==
    ASSUME IInv, NEW t \in Txs, NEW date \in Dates, PublishFind(t, date)
    PROVE  IInv'
  <1> DEFINE found == {s \in Used : slot[s].date = date /\ slot[s].status = "SCHEDULED"}
  <1> DEFINE next == [Idle EXCEPT !.stage = "publish", !.todo = found]
  <1>1. next \in Tx
    BY PublicationAssumption DEF Tx, Stages, Idle, Used
  <1>2. next.stage = "publish" /\ next.todo \subseteq Used /\ next.mine = {}
    BY DEF Idle
  <1>3. Advance(t, next) /\ UNCHANGED Rows
    BY DEF PublishFind
  <1> HIDE DEF next
  <1>4. Remembers(next)
    BY <1>2 DEF Remembers, Working, Replacing, FoundSlot, Cancelling, Publishing
  <1>5. QED
    BY <1>1, <1>3, <1>4, ReadStep

\* It reads the version of a slot still to be published.
LEMMA PublishReadKeepsIInv ==
    ASSUME IInv, NEW t \in Txs, NEW s \in SlotIds, PublishRead(t, s)
    PROVE  IInv'
  <1> DEFINE next == [tx[t] EXCEPT !.stage = "publishWrite", !.s = s]
  <1>0. tx[t] \in Tx
    BY DEF IInv, TypeOK
  <1>1. next \in Tx
    BY <1>0 DEF Tx, Stages
  <1>2. /\ next.stage = "publishWrite"
        /\ next.s = s /\ next.todo = tx[t].todo /\ next.mine = tx[t].mine
    BY <1>0 DEF Tx
  <1>3. Remembers(tx[t])
    BY DEF IInv, TxOK
  <1> HIDE DEF next
  <1>4. Remembers(next)
    BY <1>2, <1>3 DEF Remembers, Working, Replacing, FoundSlot, Cancelling, Publishing, PublishRead
  <1>5. QED
    BY <1>1, <1>4, ReadStep DEF PublishRead, next

\* The slot it has written moves from the slots to publish to its own.
LEMMA PublishWriteKeepsIInv ==
    ASSUME IInv, NEW t \in Txs, PublishWrite(t)
    PROVE  IInv'
  <1> DEFINE s == tx[t].s
  <1> DEFINE v == slot[s].version
  <1> DEFINE next == [tx[t] EXCEPT !.stage = "publish", !.s = None, !.todo = tx[t].todo \ {s},
                                   !.mine = tx[t].mine \cup {s}, !.links[SpotOf[v]] = v]
  <1>0. tx[t] \in Tx
    BY DEF IInv, TypeOK
  <1>1. tx[t].stage = "publishWrite" /\ Advance(t, next) /\ UNCHANGED Rows
    BY DEF PublishWrite
  <1>2. Remembers(tx[t])
    BY DEF IInv, TxOK
  <1>3. s \in tx[t].todo /\ tx[t].todo \subseteq Used /\ tx[t].mine \subseteq Used
    BY <1>1, <1>2 DEF Remembers, Publishing
  <1>4. s \in SlotIds /\ v \in Versions
    BY <1>3, RowFacts DEF IInv, Slot, Used
  <1>5. [tx[t].links EXCEPT ![SpotOf[v]] = v] \in [Spots -> Versions \cup {None}]
    BY <1>0, <1>4 DEF Tx
  <1>6. next \in Tx
    BY <1>0, <1>4, <1>5 DEF Tx, Stages
  <1>7. next.stage = "publish" /\ next.todo = tx[t].todo \ {s} /\ next.mine = tx[t].mine \cup {s}
    BY <1>0 DEF Tx
  <1> HIDE DEF next
  <1>8. Remembers(next)
    BY <1>3, <1>7 DEF Remembers, Working, Replacing, FoundSlot, Cancelling, Publishing
  <1>9. QED
    BY <1>1, <1>6, <1>8, ReadStep

-----------------------------------------------------------------------------
\* A commit that changes the status of one version to anything but PUBLISHED
\* and leaves the slots alone keeps the invariant.
LEMMA StatusStep ==
    ASSUME IInv, NEW t \in Txs, Finish(t), NEW v \in Versions,
           NEW status \in VersionStatus, status # "PUBLISHED",
           version' = [version EXCEPT ![v] = status],
           spot' \in [Spots -> Spot], UNCHANGED <<slot, valid, invalid>>
    PROVE  IInv'
  <1>1. TypeOK'
    BY IdleType DEF IInv, TypeOK, Finish, Advance
  <1>2. TxOK'
    BY CommitKeepsMemories DEF Used
  <1>3. UniqueRows(slot)'
    BY DEF IInv, UniqueRows
  <1>4. PublishedHasSlot'
    BY DEF IInv, TypeOK, PublishedHasSlot
  <1>5. QED
    BY <1>1, <1>2, <1>3, <1>4 DEF IInv

\* Committing an approval, whatever happened since its read.
LEMMA ApproveCommitKeepsIInv ==
    ASSUME IInv, NEW t \in Txs, ApproveCommit(t)
    PROVE  IInv'
  <1>1. tx[t].v \in Versions
    BY DEF IInv, TxOK, Remembers, ApproveCommit, Working, Stages
  <1>2. spot' \in [Spots -> Spot]
    BY <1>1, PublicationAssumption DEF IInv, TypeOK, ApproveCommit, Spot
  <1>3. QED
    BY <1>1, <1>2, StatusStep DEF ApproveCommit, VersionStatus

\* Writing a hold, whatever happened since its read.
LEMMA HoldWriteKeepsIInv ==
    ASSUME IInv, NEW t \in Txs, HoldWrite(t)
    PROVE  IInv'
  <1>1. tx[t].v \in Versions
    BY DEF IInv, TxOK, Remembers, HoldWrite, Working, Stages
  <1>2. QED
    BY <1>1, StatusStep DEF HoldWrite, VersionStatus, IInv, TypeOK

\* Inserting an attempt touches no row of the lifecycle.
LEMMA SubmitCommitKeepsIInv ==
    ASSUME IInv, NEW t \in Txs, SubmitCommit(t)
    PROVE  IInv'
  <1>1. tx[t].v \in Versions
    BY DEF IInv, TxOK, Remembers, SubmitCommit, Working, Stages
  <1>2. TypeOK'
    BY <1>1, IdleType DEF IInv, TypeOK, SubmitCommit, Finish, Advance
  <1>3. TxOK'
    BY CommitKeepsMemories DEF SubmitCommit, Used
  <1>4. UniqueRows(slot)' /\ PublishedHasSlot'
    BY DEF IInv, UniqueRows, PublishedHasSlot, SubmitCommit
  <1>5. QED
    BY <1>2, <1>3, <1>4 DEF IInv

\* The slot row of a schedule is new; the indexes are checked at its insertion.
LEMMA ScheduleCommitKeepsIInv ==
    ASSUME IInv, NEW t \in Txs, NEW s \in SlotIds, NEW date \in Dates, NEW order \in Orders,
           ScheduleCommit(t, s, date, order)
    PROVE  IInv'
  <1> DEFINE row == [version |-> tx[t].v, date |-> date, order |-> order, status |-> "SCHEDULED"]
  <1>1. tx[t].v \in Versions
    BY DEF IInv, TxOK, Remembers, ScheduleCommit, Working, Stages
  <1>2. /\ s \notin Used
        /\ slot' = [slot EXCEPT ![s] = row]
        /\ UniqueRows(slot')
        /\ version' = [version EXCEPT ![tx[t].v] = "SCHEDULED"]
        /\ Finish(t)
        /\ UNCHANGED <<spot, valid, invalid>>
    BY DEF ScheduleCommit
  <1>3. row \in Slot
    BY <1>1 DEF Slot
  <1> HIDE DEF row
  <1>4. TypeOK'
    BY <1>1, <1>2, <1>3, IdleType DEF IInv, TypeOK, Finish, Advance, VersionStatus
  <1>5. \A r \in Used : slot'[r] = slot[r]
    BY <1>2 DEF IInv, TypeOK, Used
  <1>6. \A r \in Used : r \in Used' /\ slot'[r].version = slot[r].version
    BY <1>5 DEF Used
  <1>7. TxOK'
    BY <1>2, <1>6, CommitKeepsMemories
  <1>8. PublishedHasSlot'
    <2> SUFFICES ASSUME NEW v \in Versions, version'[v] = "PUBLISHED"
                 PROVE  \E r \in SlotIds : slot'[r].version = v /\ slot'[r].status = "PUBLISHED"
      BY DEF PublishedHasSlot
    <2>1. version[v] = "PUBLISHED"
      BY <1>2 DEF IInv, TypeOK
    <2>2. PICK r \in SlotIds : slot[r].version = v /\ slot[r].status = "PUBLISHED"
      BY <2>1 DEF IInv, PublishedHasSlot
    <2>3. r \in Used
      BY <2>2 DEF Used, NoSlot
    <2>4. QED
      BY <1>5, <2>2, <2>3
  <1>9. QED
    BY <1>2, <1>4, <1>7, <1>8 DEF IInv

\* Writing the spot and the attempts of a retired version keeps their types.
LEMMA DetachType ==
    ASSUME IInv, NEW t \in Txs, tx[t].v \in Versions, Detach(t)
    PROVE  spot' \in [Spots -> Spot]
  BY PublicationAssumption DEF IInv, TypeOK, Detach, Spot

\* Invalidating moves attempts between the two sets of versions.
LEMMA InvalidateType ==
    ASSUME IInv, NEW v \in Versions, Invalidate(v)
    PROVE  valid' \subseteq Versions /\ invalid' \subseteq Versions
  BY DEF IInv, TypeOK, Invalidate

\* A quarantine cancels slots of its own version only, so every other
\* PUBLISHED version keeps its slot.
LEMMA QuarantineCommitKeepsIInv ==
    ASSUME IInv, NEW t \in Txs, QuarantineCommit(t)
    PROVE  IInv'
  <1> DEFINE v == tx[t].v
  <1> DEFINE mine == tx[t].mine
  <1>1. /\ tx[t].stage = "quarantineCommit"
        /\ slot' = [s \in SlotIds |-> IF s \in mine THEN [slot[s] EXCEPT !.status = "CANCELLED"]
                                                   ELSE slot[s]]
        /\ version' = [version EXCEPT ![v] = "SUPERSEDED"]
        /\ Invalidate(v) /\ Detach(t) /\ Finish(t)
    BY DEF QuarantineCommit
  <1>2. v \in Versions /\ \A s \in mine : s \in Used /\ slot[s].version = v
    BY <1>1 DEF IInv, TxOK, Remembers, Working, Cancelling, Stages
  <1>3. spot' \in [Spots -> Spot] /\ valid' \subseteq Versions /\ invalid' \subseteq Versions
    BY <1>1, <1>2, DetachType, InvalidateType
  <1> HIDE DEF v, mine
  <1>4. \A s \in SlotIds : /\ s \in mine => /\ slot[s] \in Slot
                                            /\ slot'[s] \in Slot
                                            /\ slot'[s].status = "CANCELLED"
                                            /\ slot'[s].version = slot[s].version
                           /\ s \notin mine => slot'[s] = slot[s]
    BY <1>1, <1>2, RowFacts DEF IInv, Slot
  <1>5. TypeOK'
    BY <1>1, <1>2, <1>3, <1>4, IdleType DEF IInv, TypeOK, Finish, Advance, VersionStatus
  <1>6. TxOK'
    <2>1. NoSlot \notin Slot
      BY RowFacts DEF IInv
    <2>2. \A s \in Used : s \in Used' /\ slot'[s].version = slot[s].version
      BY <1>4, <2>1 DEF Used
    <2>3. QED
      BY <1>1, <2>2, CommitKeepsMemories
  <1>7. UniqueRows(slot)'
    BY <1>4 DEF IInv, UniqueRows, IsActive
  <1>8. PublishedHasSlot'
    <2> SUFFICES ASSUME NEW u \in Versions, version'[u] = "PUBLISHED"
                 PROVE  \E s \in SlotIds : slot'[s].version = u /\ slot'[s].status = "PUBLISHED"
      BY DEF PublishedHasSlot
    <2>1. u # v /\ version[u] = "PUBLISHED"
      BY <1>1, <1>2 DEF IInv, TypeOK
    <2>2. PICK s \in SlotIds : slot[s].version = u /\ slot[s].status = "PUBLISHED"
      BY <2>1 DEF IInv, PublishedHasSlot
    <2>3. s \notin mine
      BY <1>2, <2>1, <2>2
    <2>4. QED
      BY <1>4, <2>2, <2>3
  <1>9. QED
    BY <1>5, <1>6, <1>7, <1>8 DEF IInv

\* Every version a publication writes gets its slot written in the same commit.
LEMMA PublishCommitKeepsIInv ==
    ASSUME IInv, NEW t \in Txs, PublishCommit(t)
    PROVE  IInv'
  <1> DEFINE mine == tx[t].mine
  <1> DEFINE links == tx[t].links
  <1>1. /\ tx[t].stage = "publish"
        /\ version' = [v \in Versions |-> IF \E s \in mine : slot[s].version = v
                                          THEN "PUBLISHED" ELSE version[v]]
        /\ spot' = [p \in Spots |-> IF links[p] # None
                                    THEN [status |-> "PUBLISHED", current |-> links[p]] ELSE spot[p]]
        /\ slot' = [s \in SlotIds |-> IF s \in mine THEN [slot[s] EXCEPT !.status = "PUBLISHED"]
                                                   ELSE slot[s]]
        /\ UniqueRows(slot')
        /\ Finish(t)
        /\ UNCHANGED <<valid, invalid>>
    BY DEF PublishCommit
  <1>2. mine \subseteq Used
    BY <1>1 DEF IInv, TxOK, Remembers, Publishing
  <1>3. links \in [Spots -> Versions \cup {None}]
    BY DEF IInv, TypeOK, Tx
  <1> HIDE DEF mine, links
  <1>4. \A s \in SlotIds : /\ s \in mine => /\ slot[s] \in Slot
                                            /\ slot'[s] \in Slot
                                            /\ slot'[s].status = "PUBLISHED"
                                            /\ slot'[s].version = slot[s].version
                           /\ s \notin mine => slot'[s] = slot[s]
    BY <1>1, <1>2, RowFacts DEF IInv, Slot
  <1>5. TypeOK'
    <2>1. version' \in [Versions -> VersionStatus]
      BY <1>1 DEF IInv, TypeOK, VersionStatus
    <2>2. spot' \in [Spots -> Spot]
      BY <1>1, <1>3 DEF IInv, TypeOK, Spot
    <2>3. slot' \in [SlotIds -> Slot \cup {NoSlot}]
      BY <1>1, <1>4 DEF IInv, TypeOK
    <2>4. tx' \in [Txs -> Tx]
      BY <1>1, IdleType DEF IInv, TypeOK, Finish, Advance
    <2>5. QED
      BY <1>1, <2>1, <2>2, <2>3, <2>4 DEF IInv, TypeOK
  <1>6. TxOK'
    <2>1. NoSlot \notin Slot
      BY RowFacts DEF IInv
    <2>2. \A s \in Used : s \in Used' /\ slot'[s].version = slot[s].version
      BY <1>4, <2>1 DEF Used
    <2>3. QED
      BY <1>1, <2>2, CommitKeepsMemories
  <1>7. PublishedHasSlot'
    <2> SUFFICES ASSUME NEW u \in Versions, version'[u] = "PUBLISHED"
                 PROVE  \E s \in SlotIds : slot'[s].version = u /\ slot'[s].status = "PUBLISHED"
      BY DEF PublishedHasSlot
    <2>1. CASE \E s \in mine : slot[s].version = u
      BY <1>2, <1>4, <2>1 DEF Used
    <2>2. CASE ~ \E s \in mine : slot[s].version = u
      <3>1. version[u] = "PUBLISHED"
        BY <1>1, <2>2
      <3>2. PICK s \in SlotIds : slot[s].version = u /\ slot[s].status = "PUBLISHED"
        BY <3>1 DEF IInv, PublishedHasSlot
      <3>3. QED
        BY <1>4, <3>2
    <2>3. QED
      BY <2>1, <2>2
  <1>8. QED
    BY <1>1, <1>5, <1>6, <1>7 DEF IInv

\* The cancelled slot carried the superseded version, so no PUBLISHED version
\* loses its slot.
LEMMA ReplaceCommitKeepsIInv ==
    ASSUME IInv, NEW t \in Txs, NEW s \in SlotIds, NEW invalidation \in BOOLEAN,
           ReplaceCommit(t, s, invalidation)
    PROVE  IInv'
  <1> DEFINE v == tx[t].v
  <1> DEFINE w == tx[t].w
  <1> DEFINE old == tx[t].s
  <1> DEFINE row == [version |-> w, date |-> slot[old].date, order |-> slot[old].order,
                     status |-> "SCHEDULED"]
  <1>1. /\ tx[t].stage = "replaceCommit"
        /\ Detach(t)
        /\ IF invalidation THEN Invalidate(v) ELSE UNCHANGED <<valid, invalid>>
        /\ s \notin Used
        /\ slot' = [slot EXCEPT ![old].status = "CANCELLED", ![s] = row]
        /\ UniqueRows(slot')
        /\ version' = [version EXCEPT ![v] = "SUPERSEDED", ![w] = "SCHEDULED"]
        /\ Finish(t)
    BY DEF ReplaceCommit
  <1>2. /\ v \in Versions /\ w \in Versions /\ v # w
        /\ old \in Used /\ old \in SlotIds /\ slot[old].version = v
    BY <1>1 DEF IInv, TxOK, Remembers, Working, Replacing, FoundSlot, Stages, Used
  <1>3. spot' \in [Spots -> Spot] /\ valid' \subseteq Versions /\ invalid' \subseteq Versions
    BY <1>1, <1>2, DetachType, InvalidateType DEF IInv, TypeOK
  <1>4. slot[old] \in Slot
    BY <1>2, RowFacts DEF IInv
  <1>5. row \in Slot
    BY <1>2, <1>4 DEF Slot
  <1> HIDE DEF v, w, old, row
  <1>6. /\ slot'[old] \in Slot
        /\ slot'[old].version = slot[old].version
        /\ slot'[s] = row
        /\ \A r \in SlotIds \ {old, s} : slot'[r] = slot[r]
    BY <1>1, <1>2, <1>4 DEF IInv, TypeOK, Slot
  <1>7. TypeOK'
    <2>1. version' \in [Versions -> VersionStatus]
      BY <1>1, <1>2 DEF IInv, TypeOK, VersionStatus
    <2>2. slot' \in [SlotIds -> Slot \cup {NoSlot}]
      BY <1>1, <1>5, <1>6 DEF IInv, TypeOK
    <2>3. tx' \in [Txs -> Tx]
      BY <1>1, IdleType DEF IInv, TypeOK, Finish, Advance
    <2>4. QED
      BY <1>3, <2>1, <2>2, <2>3 DEF TypeOK
  <1>8. TxOK'
    <2>1. NoSlot \notin Slot
      BY RowFacts DEF IInv
    <2>2. \A r \in Used : r \in Used' /\ slot'[r].version = slot[r].version
      BY <1>1, <1>6, <2>1 DEF Used
    <2>3. QED
      BY <1>1, <2>2, CommitKeepsMemories
  <1>9. PublishedHasSlot'
    <2> SUFFICES ASSUME NEW u \in Versions, version'[u] = "PUBLISHED"
                 PROVE  \E r \in SlotIds : slot'[r].version = u /\ slot'[r].status = "PUBLISHED"
      BY DEF PublishedHasSlot
    <2>1. u # v /\ version[u] = "PUBLISHED"
      BY <1>1, <1>2 DEF IInv, TypeOK
    <2>2. PICK r \in SlotIds : slot[r].version = u /\ slot[r].status = "PUBLISHED"
      BY <2>1 DEF IInv, PublishedHasSlot
    <2>3. r \in Used
      BY <2>2 DEF Used, NoSlot
    <2>4. r # old /\ r # s
      BY <1>1, <1>2, <2>1, <2>2, <2>3
    <2>5. QED
      BY <1>6, <2>2, <2>4
  <1>10. QED
    BY <1>1, <1>7, <1>8, <1>9 DEF IInv

-----------------------------------------------------------------------------
\* Every step of every operation keeps the invariant.
LEMMA NextKeepsIInv == IInv /\ [Next]_vars => IInv'
  <1> SUFFICES ASSUME IInv, [Next]_vars PROVE IInv'
    OBVIOUS
  <1>1. CASE UNCHANGED vars
    BY <1>1 DEF vars, IInv, TypeOK, TxOK, Remembers, Used, UniqueRows, PublishedHasSlot
  <1>2. ASSUME NEW t \in Txs, Lifecycle(t) PROVE IInv'
    BY <1>2, ApproveReadKeepsIInv, ApproveCommitKeepsIInv, ScheduleReadKeepsIInv,
       ScheduleCommitKeepsIInv, HoldReadKeepsIInv, HoldWriteKeepsIInv DEF Lifecycle
  <1>3. ASSUME NEW t \in Txs, Submit(t) PROVE IInv'
    BY <1>3, SubmitReadKeepsIInv, SubmitCommitKeepsIInv DEF Submit
  <1>4. ASSUME NEW t \in Txs, Replace(t) PROVE IInv'
    BY <1>4, ReplaceReadOldKeepsIInv, ReplaceReadNewKeepsIInv, ReplaceFindSlotKeepsIInv,
       ReplaceWriteOldKeepsIInv, ReplaceReadSpotKeepsIInv, ReplaceCommitKeepsIInv DEF Replace
  <1>5. ASSUME NEW t \in Txs, Quarantine(t) PROVE IInv'
    BY <1>5, QuarantineReadKeepsIInv, QuarantineSlotsKeepsIInv, QuarantineVersionKeepsIInv,
       QuarantineReadSpotKeepsIInv, QuarantineCommitKeepsIInv DEF Quarantine
  <1>6. ASSUME NEW t \in Txs, Publish(t) PROVE IInv'
    BY <1>6, PublishFindKeepsIInv, PublishReadKeepsIInv, PublishWriteKeepsIInv,
       PublishCommitKeepsIInv DEF Publish
  <1>7. QED
    BY <1>1, <1>2, <1>3, <1>4, <1>5, <1>6, AbortKeepsIInv DEF Next

\* The unique indexes turn "has a published slot" into "has exactly one active
\* slot, and it is published".
LEMMA IInvImpliesPublishedOnCalendar == IInv => PublishedOnCalendar
  <1> SUFFICES ASSUME IInv, NEW v \in Versions, version[v] = "PUBLISHED"
               PROVE  \E s \in SlotIds : ActiveSlots(v) = {s} /\ slot[s].status = "PUBLISHED"
    BY DEF PublishedOnCalendar
  <1>1. PICK s \in SlotIds : slot[s].version = v /\ slot[s].status = "PUBLISHED"
    BY DEF IInv, PublishedHasSlot
  <1>2. s \in ActiveSlots(v)
    BY <1>1 DEF ActiveSlots, Used, NoSlot, IsActive
  <1>3. \A r \in ActiveSlots(v) : r = s
    BY <1>1, <1>2 DEF ActiveSlots, IInv, UniqueRows, Used
  <1>4. QED
    BY <1>1, <1>2, <1>3

\* The inductive invariant holds in every reachable state.
THEOREM Invariance == Spec => []IInv
  BY InitIInv, NextKeepsIInv, PTL DEF Spec

\* Every row of the lifecycle tables and every open transaction keeps its type:
\* no operation of src/publication.ts writes a status the schema does not have.
THEOREM TypeCorrect == Spec => []TypeOK
  <1>1. IInv => TypeOK
    BY DEF IInv
  <1>2. QED
    BY <1>1, Invariance, PTL

\* However the transactions of src/publication.ts interleave, a PUBLISHED version
\* has exactly one active slot, and that slot is PUBLISHED.
THEOREM PublishedOnCalendarHolds == Spec => []PublishedOnCalendar
  BY Invariance, IInvImpliesPublishedOnCalendar, PTL

-----------------------------------------------------------------------------
\* Only four steps write slots; each of them cancels only with its version.
LEMMA StepCancelsOnlySuperseded == IInv /\ [Next]_vars => [CancelsOnlySuperseded]_vars
  <1> SUFFICES ASSUME IInv, Next PROVE CancelsOnlySuperseded
    BY DEF vars
  <1>1. CASE UNCHANGED slot
    BY <1>1 DEF CancelsOnlySuperseded
  <1>2. ASSUME NEW t \in Txs, NEW s \in SlotIds, NEW date \in Dates, NEW order \in Orders,
               ScheduleCommit(t, s, date, order)
        PROVE  CancelsOnlySuperseded
    <2>1. s \notin Used /\ \A r \in SlotIds \ {s} : slot'[r] = slot[r]
      BY <1>2 DEF ScheduleCommit, IInv, TypeOK
    <2>2. ~IsActive(slot[s])
      BY <2>1 DEF Used, NoSlot, IsActive
    <2>3. QED
      BY <2>1, <2>2 DEF CancelsOnlySuperseded
  <1>3. ASSUME NEW t \in Txs, NEW s \in SlotIds, NEW invalidation \in BOOLEAN,
               ReplaceCommit(t, s, invalidation)
        PROVE  CancelsOnlySuperseded
    <2> DEFINE old == tx[t].s
    <2>1. /\ tx[t].v \in Versions /\ tx[t].w \in Versions /\ tx[t].v # tx[t].w
          /\ old \in Used /\ old \in SlotIds /\ slot[old].version = tx[t].v
      BY <1>3 DEF IInv, TxOK, Remembers, ReplaceCommit, Working, Replacing, FoundSlot, Stages, Used
    <2>2. /\ s \notin Used
          /\ slot' = [slot EXCEPT ![old].status = "CANCELLED",
                                  ![s] = [version |-> tx[t].w, date |-> slot[old].date,
                                          order |-> slot[old].order, status |-> "SCHEDULED"]]
          /\ version' = [version EXCEPT ![tx[t].v] = "SUPERSEDED", ![tx[t].w] = "SCHEDULED"]
      BY <1>3 DEF ReplaceCommit
    <2>3. version'[tx[t].v] = "SUPERSEDED"
      BY <2>1, <2>2 DEF IInv, TypeOK
    <2> HIDE DEF old
    <2>4. /\ \A r \in SlotIds \ {old, s} : slot'[r] = slot[r]
          /\ slot'[s] = [version |-> tx[t].w, date |-> slot[old].date,
                         order |-> slot[old].order, status |-> "SCHEDULED"]
      BY <2>1, <2>2 DEF IInv, TypeOK
    <2>5. /\ IsActive(slot'[s]) /\ slot'[s].version # slot[old].version
          /\ slot'[s].date = slot[old].date /\ slot'[s].order = slot[old].order
      BY <2>1, <2>4 DEF IsActive
    <2>6. ~IsActive(slot[s])
      BY <2>2 DEF Used, NoSlot, IsActive
    <2>7. QED
      BY <2>1, <2>3, <2>4, <2>5, <2>6 DEF CancelsOnlySuperseded
  <1>4. ASSUME NEW t \in Txs, QuarantineCommit(t) PROVE CancelsOnlySuperseded
    <2>1. \A s \in tx[t].mine : s \in Used /\ slot[s].version = tx[t].v
      BY <1>4 DEF IInv, TxOK, Remembers, QuarantineCommit, Cancelling
    <2>2. tx[t].v \in Versions /\ tx[t].stage = "quarantineCommit"
      BY <1>4 DEF IInv, TxOK, Remembers, QuarantineCommit, Working, Stages
    <2>3. version'[tx[t].v] = "SUPERSEDED" /\ tx'[t] = Idle
      BY <1>4, <2>2 DEF QuarantineCommit, Finish, Advance, IInv, TypeOK
    <2>4. \A s \in SlotIds : s \notin tx[t].mine => slot'[s] = slot[s]
      BY <1>4 DEF QuarantineCommit
    <2>5. QED
      BY <2>1, <2>2, <2>3, <2>4 DEF CancelsOnlySuperseded
  <1>5. ASSUME NEW t \in Txs, PublishCommit(t) PROVE CancelsOnlySuperseded
    <2>1. tx[t].mine \subseteq Used
      BY <1>5 DEF IInv, TxOK, Remembers, PublishCommit, Publishing
    <2>2. \A s \in SlotIds : /\ s \notin tx[t].mine => slot'[s] = slot[s]
                             /\ s \in tx[t].mine => slot'[s] = [slot[s] EXCEPT !.status = "PUBLISHED"]
      BY <1>5 DEF PublishCommit
    <2>3. \A s \in tx[t].mine : slot[s] \in Slot
      BY <2>1, RowFacts DEF IInv, Used
    <2>4. \A s \in SlotIds : s \in tx[t].mine => IsActive(slot'[s])
      BY <2>2, <2>3 DEF Slot, IsActive
    <2>5. QED
      BY <2>2, <2>4 DEF CancelsOnlySuperseded
  <1>6. QED
    BY <1>1, <1>2, <1>3, <1>4, <1>5, ZenonT(30)
       DEF Next, Lifecycle, Submit, Replace, Quarantine, Publish, Rows, Abort, ApproveRead,
           ApproveCommit, ScheduleRead, HoldRead, HoldWrite, SubmitRead, SubmitCommit,
           ReplaceReadOld, ReplaceReadNew, ReplaceFindSlot, ReplaceWriteOld, ReplaceReadSpot,
           QuarantineRead, QuarantineSlots, QuarantineVersion, QuarantineReadSpot,
           PublishFind, PublishRead, PublishWrite

\* replacePublishedSlot and quarantinePublishedVersion are the only ones to
\* cancel an active slot: its version is superseded in the same commit, and a
\* replacement takes over its date and order unless it is a quarantine.
THEOREM CancelSupersedesHolds == Spec => CancelSupersedes
  BY Invariance, StepCancelsOnlySuperseded, PTL DEF Spec, CancelSupersedes

\* Only the committing steps of a replacement and a quarantine take VALID
\* attempts away, and only those of the version they supersede.
LEMMA StepInvalidatesOnlySuperseded == IInv /\ [Next]_vars => [InvalidatesOnlySuperseded]_vars
  <1> SUFFICES ASSUME IInv, Next PROVE InvalidatesOnlySuperseded
    BY DEF vars
  <1>1. CASE valid \subseteq valid'
    BY <1>1 DEF InvalidatesOnlySuperseded
  <1>2. ASSUME NEW t \in Txs, NEW s \in SlotIds, NEW invalidation \in BOOLEAN,
               ReplaceCommit(t, s, invalidation)
        PROVE  InvalidatesOnlySuperseded
    <2>1. tx[t].v \in Versions /\ tx[t].w # tx[t].v
      BY <1>2 DEF IInv, TxOK, Remembers, ReplaceCommit, Working, Replacing, Stages
    <2>2. version'[tx[t].v] = "SUPERSEDED"
      BY <1>2, <2>1 DEF ReplaceCommit, IInv, TypeOK
    <2>3. QED
      BY <1>2, <2>2 DEF ReplaceCommit, Invalidate, InvalidatesOnlySuperseded
  <1>3. ASSUME NEW t \in Txs, QuarantineCommit(t) PROVE InvalidatesOnlySuperseded
    <2>1. tx[t].v \in Versions
      BY <1>3 DEF IInv, TxOK, Remembers, QuarantineCommit, Working, Stages
    <2>2. version'[tx[t].v] = "SUPERSEDED"
      BY <1>3, <2>1 DEF QuarantineCommit, IInv, TypeOK
    <2>3. QED
      BY <1>3, <2>2 DEF QuarantineCommit, Invalidate, InvalidatesOnlySuperseded
  <1>4. QED
    BY <1>1, <1>2, <1>3, ZenonT(30)
       DEF Next, Lifecycle, Submit, Replace, Quarantine, Publish, Rows, Abort, ApproveRead,
           ApproveCommit, ScheduleRead, ScheduleCommit, HoldRead, HoldWrite, SubmitRead,
           SubmitCommit, ReplaceReadOld, ReplaceReadNew, ReplaceFindSlot, ReplaceWriteOld,
           ReplaceReadSpot, QuarantineRead, QuarantineSlots, QuarantineVersion,
           QuarantineReadSpot, PublishFind, PublishRead, PublishWrite, PublishCommit

\* VALID attempts become INVALIDATED only together with superseding the version
\* they were made on.
THEOREM InvalidationSupersedesHolds == Spec => InvalidationSupersedes
  BY Invariance, StepInvalidatesOnlySuperseded, PTL DEF Spec, InvalidationSupersedes

-----------------------------------------------------------------------------
(***************************************************************************)
(* Operations that run one after the other.  What a transaction read is    *)
(* then still so when it commits, and slots and versions tell one story.   *)
(***************************************************************************)
Alone == \A t, u \in Txs : t = u

\* An approved SCHEDULED version keeps its slot, and one approved again may be
\* held: its SCHEDULED slot then carries an APPROVED or REJECTED version.
SlotsFollowVersions ==
    \A s \in SlotIds :
        /\ slot[s].status = "PUBLISHED" => version[slot[s].version] = "PUBLISHED"
        /\ slot[s].status = "SCHEDULED" => version[slot[s].version] \in {"SCHEDULED", "APPROVED", "REJECTED"}

VersionsHaveSlots ==
    \A v \in Versions : version[v] \in {"SCHEDULED", "PUBLISHED"} =>
        \E s \in SlotIds : slot[s].version = v /\ slot[s].status = version[v]

\* What the transaction has asserted of the rows it works on.
KnowsVersions(x) ==
    /\ x.stage = "approve" => version[x.v] \in {"VALIDATED", "SCHEDULED"}
    /\ x.stage = "schedule" => version[x.v] = "APPROVED"
    /\ x.stage = "hold" => version[x.v] \in {"VALIDATED", "APPROVED"}
    /\ x.stage \in Replacing => version[x.v] \in {"SCHEDULED", "PUBLISHED"}
    /\ x.stage \in Replacing \ {"replaceNew"} => version[x.w] = "APPROVED"
    /\ x.stage \in Cancelling \cup {"quarantine"} => version[x.v] = "PUBLISHED"

KnowsSlots(x) ==
    /\ x.stage \in FoundSlot => IsActive(slot[x.s])
    /\ x.stage \in Cancelling => x.mine = ActiveSlots(x.v)
    /\ x.stage \in Publishing =>
          /\ x.todo \cup x.mine # {}
          /\ \E date \in Dates : \A s \in x.todo \cup x.mine :
                slot[s].date = date /\ slot[s].status = "SCHEDULED"
          /\ \A s \in x.mine : version[slot[s].version] = "SCHEDULED"
    /\ x.stage = "publishWrite" => version[slot[x.s].version] = "SCHEDULED"

Knows(x) == KnowsVersions(x) /\ KnowsSlots(x)

\* The inductive invariant of operations that run one after the other.
AloneInv ==
    /\ IInv
    /\ SlotsFollowVersions
    /\ VersionsHaveSlots
    /\ \A t \in Txs : Knows(tx[t])

\* Nothing is remembered between transactions.
LEMMA IdleKnows == Knows(Idle)
  BY DEF Knows, KnowsVersions, KnowsSlots, Idle, Replacing, FoundSlot, Cancelling, Publishing

\* The only transaction moves forward and writes nothing.
LEMMA AloneReads ==
    ASSUME Alone, AloneInv, IInv', NEW t \in Txs, NEW next, Advance(t, next), UNCHANGED Rows, Knows(next)
    PROVE  AloneInv'
  <1>1. version' = version /\ slot' = slot
    BY DEF Rows
  <1>2. ASSUME NEW u \in Txs PROVE Knows(tx[u])'
    <2>1. u = t
      BY DEF Alone
    <2>2. tx'[u] = next
      BY <2>1 DEF Advance, AloneInv, IInv, TypeOK
    <2>3. Knows(next)'
      BY <1>1 DEF Knows, KnowsVersions, KnowsSlots, ActiveSlots, Used
    <2>4. QED
      BY <2>2, <2>3 DEF Knows, KnowsVersions, KnowsSlots, ActiveSlots, Used
  <1>3. SlotsFollowVersions' /\ VersionsHaveSlots'
    BY <1>1 DEF AloneInv, SlotsFollowVersions, VersionsHaveSlots
  <1>4. QED
    BY <1>2, <1>3 DEF AloneInv

\* The only transaction ends.
LEMMA AloneEnds ==
    ASSUME Alone, AloneInv, IInv', NEW t \in Txs, Finish(t), SlotsFollowVersions', VersionsHaveSlots'
    PROVE  AloneInv'
  <1>1. ASSUME NEW u \in Txs PROVE Knows(tx[u])'
    <2>1. u = t
      BY DEF Alone
    <2>2. tx'[u] = Idle
      BY <2>1 DEF Finish, Advance, AloneInv, IInv, TypeOK
    <2>3. QED
      BY <2>2 DEF Knows, KnowsVersions, KnowsSlots, Idle, Replacing, FoundSlot, Cancelling, Publishing
  <1>2. QED
    BY <1>1 DEF AloneInv

\* Reading a version and asserting its status.
LEMMA AloneFirstRead ==
    ASSUME Alone, AloneInv, IInv', NEW t \in Txs, NEW v \in Versions,
           \/ ApproveRead(t, v) \/ ScheduleRead(t, v) \/ HoldRead(t, v) \/ SubmitRead(t, v)
           \/ \E w \in Versions : ReplaceReadOld(t, v, w)
           \/ QuarantineRead(t, v)
    PROVE  AloneInv'
  <1>1. version \in [Versions -> VersionStatus]
    BY DEF AloneInv, IInv, TypeOK
  <1>2. PICK next : Advance(t, next) /\ UNCHANGED Rows /\ next.v = v
                    /\ \/ next.stage = "approve" /\ version[v] \in {"VALIDATED", "SCHEDULED"}
                       \/ next.stage = "schedule" /\ version[v] = "APPROVED"
                       \/ next.stage = "hold" /\ version[v] \in {"VALIDATED", "APPROVED"}
                       \/ next.stage = "submit"
                       \/ next.stage = "replaceNew" /\ version[v] \in {"SCHEDULED", "PUBLISHED"}
                       \/ next.stage = "quarantine" /\ version[v] = "PUBLISHED"
    <2>1. CASE ApproveRead(t, v)
      <3> WITNESS [Idle EXCEPT !.stage = "approve", !.v = v]
      <3>1. QED
        BY <2>1, <1>1 DEF ApproveRead, CanBecome, Allowed, Idle, VersionStatus
    <2>2. CASE ScheduleRead(t, v)
      <3> WITNESS [Idle EXCEPT !.stage = "schedule", !.v = v]
      <3>1. QED
        BY <2>2, <1>1 DEF ScheduleRead, CanBecome, Allowed, Idle, VersionStatus
    <2>3. CASE HoldRead(t, v)
      <3> WITNESS [Idle EXCEPT !.stage = "hold", !.v = v]
      <3>1. QED
        BY <2>3, <1>1 DEF HoldRead, CanBecome, Allowed, Idle, VersionStatus
    <2>4. CASE SubmitRead(t, v)
      <3> WITNESS [Idle EXCEPT !.stage = "submit", !.v = v]
      <3>1. QED
        BY <2>4 DEF SubmitRead, Idle
    <2>5. CASE \E w \in Versions : ReplaceReadOld(t, v, w)
      <3>1. PICK w \in Versions : ReplaceReadOld(t, v, w)
        BY <2>5
      <3> WITNESS [Idle EXCEPT !.stage = "replaceNew", !.v = v, !.w = w]
      <3>2. QED
        BY <3>1 DEF ReplaceReadOld, Idle
    <2>6. CASE QuarantineRead(t, v)
      <3> WITNESS [Idle EXCEPT !.stage = "quarantine", !.v = v]
      <3>1. QED
        BY <2>6 DEF QuarantineRead, Idle
    <2>7. QED
      BY <2>1, <2>2, <2>3, <2>4, <2>5, <2>6
  <1>3. Knows(next)
    BY <1>2 DEF Knows, KnowsVersions, KnowsSlots, Replacing, FoundSlot, Cancelling, Publishing
  <1>4. QED
    BY <1>2, <1>3, AloneReads

\* The later reads of a replacement and of a quarantine, and the writes whose
\* locks they take.
LEMMA AloneRetiringRead ==
    ASSUME Alone, AloneInv, IInv', NEW t \in Txs,
           \/ ReplaceReadNew(t)
           \/ \E s \in SlotIds : ReplaceFindSlot(t, s)
           \/ ReplaceWriteOld(t) \/ ReplaceReadSpot(t)
           \/ QuarantineSlots(t) \/ QuarantineVersion(t) \/ QuarantineReadSpot(t)
    PROVE  AloneInv'
  <1>1. tx[t] \in Tx /\ Knows(tx[t])
    BY DEF AloneInv, IInv, TypeOK
  <1>2. PICK next : Advance(t, next) /\ UNCHANGED Rows /\ next.v = tx[t].v
                    /\ \/ /\ next.stage = "replaceSlot" /\ tx[t].stage = "replaceNew" /\ next.w = tx[t].w
                          /\ version[tx[t].w] = "APPROVED"
                       \/ /\ next.stage = "replaceWrite" /\ tx[t].stage = "replaceSlot" /\ next.w = tx[t].w
                          /\ IsActive(slot[next.s])
                       \/ /\ next.stage \in {"replaceLocked", "replaceCommit"} /\ next.w = tx[t].w /\ next.s = tx[t].s
                          /\ tx[t].stage \in {"replaceWrite", "replaceLocked"}
                       \/ next.stage = "quarantineSlots" /\ tx[t].stage = "quarantine" /\ next.mine = ActiveSlots(tx[t].v)
                       \/ /\ next.stage \in {"quarantineVersion", "quarantineCommit"} /\ next.mine = tx[t].mine
                          /\ tx[t].stage \in {"quarantineSlots", "quarantineVersion"}
    <2>1. CASE ReplaceReadNew(t)
      <3> WITNESS [tx[t] EXCEPT !.stage = "replaceSlot"]
      <3>1. QED
        BY <2>1, <1>1 DEF ReplaceReadNew, Tx
    <2>2. CASE \E s \in SlotIds : ReplaceFindSlot(t, s)
      <3>1. PICK s \in SlotIds : ReplaceFindSlot(t, s)
        BY <2>2
      <3> WITNESS [tx[t] EXCEPT !.stage = "replaceWrite", !.s = s]
      <3>2. QED
        BY <3>1, <1>1 DEF ReplaceFindSlot, ActiveSlots, Tx
    <2>3. CASE ReplaceWriteOld(t)
      <3> DEFINE stage == IF SpotOf[tx[t].v] = SpotOf[tx[t].w] THEN "replaceCommit" ELSE "replaceLocked"
      <3> WITNESS [tx[t] EXCEPT !.stage = stage, !.mine = {tx[t].s}]
      <3>1. QED
        BY <2>3, <1>1 DEF ReplaceWriteOld, Tx
    <2>4. CASE ReplaceReadSpot(t)
      <3> WITNESS [tx[t] EXCEPT !.stage = "replaceCommit", !.detach = spot[SpotOf[tx[t].v]].current = tx[t].v]
      <3>1. QED
        BY <2>4, <1>1 DEF ReplaceReadSpot, Tx
    <2>5. CASE QuarantineSlots(t)
      <3> WITNESS [tx[t] EXCEPT !.stage = "quarantineSlots", !.mine = ActiveSlots(tx[t].v)]
      <3>1. QED
        BY <2>5, <1>1 DEF QuarantineSlots, Tx
    <2>6. CASE QuarantineVersion(t)
      <3> WITNESS [tx[t] EXCEPT !.stage = "quarantineVersion"]
      <3>1. QED
        BY <2>6, <1>1 DEF QuarantineVersion, Tx
    <2>7. CASE QuarantineReadSpot(t)
      <3> WITNESS [tx[t] EXCEPT !.stage = "quarantineCommit", !.detach = spot[SpotOf[tx[t].v]].current = tx[t].v]
      <3>1. QED
        BY <2>7, <1>1 DEF QuarantineReadSpot, Tx
    <2>8. QED
      BY <2>1, <2>2, <2>3, <2>4, <2>5, <2>6, <2>7
  <1>3. Knows(next)
    BY <1>1, <1>2 DEF Knows, KnowsVersions, KnowsSlots, Replacing, FoundSlot, Cancelling, Publishing
  <1>4. QED
    BY <1>2, <1>3, AloneReads

\* Finding the slots of a date, reading and writing the version of each.
LEMMA AlonePublishing ==
    ASSUME Alone, AloneInv, IInv', NEW t \in Txs,
           \/ \E date \in Dates : PublishFind(t, date)
           \/ \E s \in SlotIds : PublishRead(t, s)
           \/ PublishWrite(t)
    PROVE  AloneInv'
  <1>1. tx[t] \in Tx /\ Knows(tx[t]) /\ Remembers(tx[t])
    BY DEF AloneInv, IInv, TypeOK, TxOK
  <1>2. CASE \E date \in Dates : PublishFind(t, date)
    <2>1. PICK date \in Dates : PublishFind(t, date)
      BY <1>2
    <2> DEFINE found == {s \in Used : slot[s].date = date /\ slot[s].status = "SCHEDULED"}
    <2> DEFINE next == [Idle EXCEPT !.stage = "publish", !.todo = found]
    <2>2. next.stage = "publish" /\ next.todo = found /\ next.mine = {} /\ found # {}
      BY <2>1 DEF Idle, PublishFind
    <2>3. Advance(t, next) /\ UNCHANGED Rows
      BY <2>1 DEF PublishFind
    <2> HIDE DEF next
    <2>4. Knows(next)
      BY <2>2 DEF Knows, KnowsVersions, KnowsSlots, Replacing, FoundSlot, Cancelling, Publishing
    <2>5. QED
      BY <2>3, <2>4, AloneReads
  <1>3. CASE \E s \in SlotIds : PublishRead(t, s)
    <2>1. PICK s \in SlotIds : PublishRead(t, s)
      BY <1>3
    <2> DEFINE next == [tx[t] EXCEPT !.stage = "publishWrite", !.s = s]
    <2>2. /\ next.stage = "publishWrite" /\ next.todo = tx[t].todo /\ next.mine = tx[t].mine /\ next.s = s
          /\ tx[t].stage = "publish" /\ s \in tx[t].todo
      BY <2>1, <1>1 DEF PublishRead, Tx
    <2>3. Advance(t, next) /\ UNCHANGED Rows /\ CanBecome(slot[s].version, "PUBLISHED")
      BY <2>1 DEF PublishRead
    <2>4. version[slot[s].version] = "SCHEDULED"
      BY <2>3 DEF CanBecome, Allowed
    <2> HIDE DEF next
    <2>5. Knows(next)
      BY <1>1, <2>2, <2>4 DEF Knows, KnowsVersions, KnowsSlots, Replacing, FoundSlot, Cancelling, Publishing
    <2>6. QED
      BY <2>3, <2>5, AloneReads
  <1>4. CASE PublishWrite(t)
    <2> DEFINE s == tx[t].s
    <2> DEFINE next == [tx[t] EXCEPT !.stage = "publish", !.s = None, !.todo = tx[t].todo \ {s},
                                     !.mine = tx[t].mine \cup {s}, !.links[SpotOf[slot[s].version]] = slot[s].version]
    <2>1. Advance(t, next) /\ UNCHANGED Rows /\ tx[t].stage = "publishWrite"
      BY <1>4 DEF PublishWrite
    <2>2. next.stage = "publish" /\ next.todo = tx[t].todo \ {s} /\ next.mine = tx[t].mine \cup {s}
      BY <1>1 DEF Tx
    <2>3. s \in tx[t].todo /\ next.todo \cup next.mine = tx[t].todo \cup tx[t].mine
      BY <1>1, <2>1, <2>2 DEF Remembers
    <2> HIDE DEF next
    <2>4. Knows(next)
      BY <1>1, <2>1, <2>2, <2>3 DEF Knows, KnowsVersions, KnowsSlots, Replacing, FoundSlot, Cancelling, Publishing
    <2>5. QED
      BY <2>1, <2>4, AloneReads
  <1>5. QED
    BY <1>2, <1>3, <1>4

\* A slot in use carries a version.
LEMMA SlotCarriesVersion ==
    ASSUME TypeOK, NEW s \in SlotIds, slot[s].status \in {"SCHEDULED", "PUBLISHED"} \/ s \in Used
    PROVE  s \in Used /\ slot[s] \in Slot /\ slot[s].version \in Versions
  BY RowFacts DEF NoSlot, Used, Slot

\* Approving and holding leave the slots alone.
LEMMA AloneStatus ==
    ASSUME Alone, AloneInv, IInv', NEW t \in Txs, ApproveCommit(t) \/ HoldWrite(t)
    PROVE  AloneInv'
  <1>1. /\ version[tx[t].v] \in {"VALIDATED", "SCHEDULED", "APPROVED"} /\ tx[t].v \in Versions
        /\ slot' = slot /\ Finish(t)
        /\ \E status \in {"APPROVED", "REJECTED"} : version' = [version EXCEPT ![tx[t].v] = status]
    BY DEF ApproveCommit, HoldWrite, AloneInv, Knows, KnowsVersions, IInv, TxOK, Remembers, Working, Stages
  <1>2. TypeOK
    BY DEF AloneInv, IInv
  <1>3. SlotsFollowVersions'
    BY <1>1, <1>2, SlotCarriesVersion DEF SlotsFollowVersions, AloneInv, TypeOK
  <1>4. VersionsHaveSlots'
    BY <1>1, <1>2 DEF VersionsHaveSlots, AloneInv, TypeOK
  <1>5. QED
    BY <1>1, <1>3, <1>4, AloneEnds

\* A new slot for an approved version.
LEMMA AloneSchedule ==
    ASSUME Alone, AloneInv, IInv', NEW t \in Txs, NEW s \in SlotIds, NEW date \in Dates, NEW order \in Orders,
           ScheduleCommit(t, s, date, order)
    PROVE  AloneInv'
  <1>1. TypeOK /\ TypeOK' /\ tx[t].v \in Versions /\ version[tx[t].v] = "APPROVED"
    BY DEF ScheduleCommit, AloneInv, Knows, KnowsVersions, IInv, TxOK, Remembers, Working, Stages
  <1>2. /\ s \notin Used /\ slot'[s] = [version |-> tx[t].v, date |-> date, order |-> order, status |-> "SCHEDULED"]
        /\ \A r \in SlotIds \ {s} : slot'[r] = slot[r]
        /\ \A v \in Versions : version'[v] = IF v = tx[t].v THEN "SCHEDULED" ELSE version[v]
        /\ Finish(t)
    BY <1>1 DEF ScheduleCommit, TypeOK
  <1>3. SlotsFollowVersions'
    BY <1>1, <1>2, SlotCarriesVersion DEF SlotsFollowVersions, AloneInv
  <1>4. VersionsHaveSlots'
    <2> SUFFICES ASSUME NEW v \in Versions, version'[v] \in {"SCHEDULED", "PUBLISHED"}
                 PROVE  \E r \in SlotIds : slot'[r].version = v /\ slot'[r].status = version'[v]
      BY DEF VersionsHaveSlots
    <2>1. CASE v = tx[t].v
      BY <1>2, <2>1
    <2>2. CASE v # tx[t].v
      <3>1. PICK r \in SlotIds : slot[r].version = v /\ slot[r].status = version[v]
        BY <1>2, <2>2 DEF AloneInv, VersionsHaveSlots
      <3>2. r # s
        BY <1>1, <1>2, <2>2, <3>1, SlotCarriesVersion
      <3>3. QED
        BY <1>2, <2>2, <3>1, <3>2
    <2>3. QED
      BY <2>1, <2>2
  <1>5. QED
    BY <1>2, <1>3, <1>4, AloneEnds

\* The place changes hands.
LEMMA AloneReplace ==
    ASSUME Alone, AloneInv, IInv', NEW t \in Txs, NEW s \in SlotIds, NEW invalidation \in BOOLEAN,
           ReplaceCommit(t, s, invalidation)
    PROVE  AloneInv'
  <1> DEFINE v == tx[t].v
  <1> DEFINE w == tx[t].w
  <1> DEFINE old == tx[t].s
  <1>1. /\ TypeOK /\ UniqueRows(slot) /\ v \in Versions /\ w \in Versions /\ v # w
        /\ old \in Used /\ old \in SlotIds /\ slot[old].version = v /\ IsActive(slot[old])
        /\ version[w] = "APPROVED"
    BY DEF ReplaceCommit, AloneInv, Knows, KnowsVersions, KnowsSlots, IInv, TxOK, Remembers, Working, Stages,
           Replacing, FoundSlot, Used
  <1>2. slot[old] \in Slot /\ s # old
    BY <1>1, SlotCarriesVersion DEF ReplaceCommit
  <1>3. /\ s \notin Used /\ slot'[s].version = w /\ slot'[s].status = "SCHEDULED"
        /\ slot'[old].version = v /\ slot'[old].status = "CANCELLED"
        /\ \A r \in SlotIds \ {s, old} : slot'[r] = slot[r]
        /\ \A u \in Versions : version'[u] = IF u = w THEN "SCHEDULED" ELSE IF u = v THEN "SUPERSEDED" ELSE version[u]
        /\ Finish(t)
    BY <1>1, <1>2 DEF ReplaceCommit, TypeOK, Slot
  <1> HIDE DEF v, w, old
  <1>4. SlotsFollowVersions'
    <2> SUFFICES ASSUME NEW r \in SlotIds
                 PROVE  /\ slot'[r].status = "PUBLISHED" => version'[slot'[r].version] = "PUBLISHED"
                        /\ slot'[r].status = "SCHEDULED" =>
                             version'[slot'[r].version] \in {"SCHEDULED", "APPROVED", "REJECTED"}
      BY DEF SlotsFollowVersions
    <2>1. CASE r \in {s, old}
      BY <1>1, <1>3, <2>1
    <2>2. CASE r \notin {s, old} /\ slot[r].status \in {"SCHEDULED", "PUBLISHED"}
      <3>1. r # old /\ slot[r].version \in Versions /\ IsActive(slot[r])
        BY <1>1, <2>2, SlotCarriesVersion DEF IsActive
      <3>2. slot[r].version # v
        BY <1>1, <3>1 DEF UniqueRows
      <3>3. version[slot[r].version] = "PUBLISHED" => slot[r].version # w
        BY <1>1
      <3>4. QED
        BY <1>3, <2>2, <3>1, <3>2, <3>3 DEF AloneInv, SlotsFollowVersions
    <2>3. CASE r \notin {s, old} /\ slot[r].status \notin {"SCHEDULED", "PUBLISHED"}
      BY <1>3, <2>3
    <2>4. QED
      BY <2>1, <2>2, <2>3
  <1>5. VersionsHaveSlots'
    <2> SUFFICES ASSUME NEW u \in Versions, version'[u] \in {"SCHEDULED", "PUBLISHED"}
                 PROVE  \E r \in SlotIds : slot'[r].version = u /\ slot'[r].status = version'[u]
      BY DEF VersionsHaveSlots
    <2>1. CASE u = w
      BY <1>3, <2>1
    <2>2. CASE u # w
      <3>1. u # v /\ version'[u] = version[u]
        BY <1>3, <2>2
      <3>2. PICK r \in SlotIds : slot[r].version = u /\ slot[r].status = version[u]
        BY <3>1 DEF AloneInv, VersionsHaveSlots
      <3>3. r # s /\ r # old
        BY <1>1, <1>3, <3>1, <3>2, SlotCarriesVersion
      <3>4. QED
        BY <1>3, <3>1, <3>2, <3>3
    <2>3. QED
      BY <2>1, <2>2
  <1>6. QED
    BY <1>3, <1>4, <1>5, AloneEnds

\* The version leaves the calendar with its only slot.
LEMMA AloneQuarantine ==
    ASSUME Alone, AloneInv, IInv', NEW t \in Txs, QuarantineCommit(t)
    PROVE  AloneInv'
  <1> DEFINE v == tx[t].v
  <1>1. /\ TypeOK /\ v \in Versions /\ tx[t].mine = ActiveSlots(v) /\ version[v] = "PUBLISHED"
    BY DEF QuarantineCommit, AloneInv, Knows, KnowsVersions, KnowsSlots, IInv, TxOK, Remembers, Working, Stages,
           Cancelling
  <1>2. /\ \A r \in SlotIds : slot'[r] = IF r \in ActiveSlots(v) THEN [slot[r] EXCEPT !.status = "CANCELLED"] ELSE slot[r]
        /\ \A u \in Versions : version'[u] = IF u = v THEN "SUPERSEDED" ELSE version[u]
        /\ Finish(t)
    BY <1>1 DEF QuarantineCommit, TypeOK
  <1> HIDE DEF v
  <1>3. \A r \in SlotIds : slot[r].status \in {"SCHEDULED", "PUBLISHED"} /\ slot[r].version # v => slot'[r] = slot[r]
    BY <1>2 DEF ActiveSlots
  <1>4. \A r \in SlotIds : slot'[r].status \in {"SCHEDULED", "PUBLISHED"} =>
           slot'[r] = slot[r] /\ slot[r].version \in Versions \ {v}
    <2> SUFFICES ASSUME NEW r \in SlotIds, slot'[r].status \in {"SCHEDULED", "PUBLISHED"}
                 PROVE  slot'[r] = slot[r] /\ slot[r].version \in Versions \ {v}
      OBVIOUS
    <2>1. CASE r \in ActiveSlots(v)
      <3>1. slot[r] \in Slot
        BY <1>1, <2>1, RowFacts DEF ActiveSlots, Used
      <3>2. slot'[r].status = "CANCELLED"
        BY <1>2, <2>1, <3>1 DEF Slot
      <3>3. QED
        BY <3>2
    <2>2. CASE r \notin ActiveSlots(v)
      BY <1>1, <1>2, <2>2, SlotCarriesVersion DEF ActiveSlots, IsActive
    <2>3. QED
      BY <2>1, <2>2
  <1>5. SlotsFollowVersions'
    BY <1>2, <1>4 DEF SlotsFollowVersions, AloneInv
  <1>6. VersionsHaveSlots'
    BY <1>2, <1>3 DEF VersionsHaveSlots, AloneInv
  <1>7. QED
    BY <1>2, <1>5, <1>6, AloneEnds

\* The slots of a date and their versions are published together.
LEMMA AlonePublish ==
    ASSUME Alone, AloneInv, IInv', NEW t \in Txs, PublishCommit(t)
    PROVE  AloneInv'
  <1> DEFINE mine == tx[t].mine
  <1>1. /\ TypeOK /\ UniqueRows(slot) /\ mine \subseteq SlotIds /\ mine \subseteq Used
        /\ \A s \in mine : slot[s].status = "SCHEDULED" /\ version[slot[s].version] = "SCHEDULED"
    BY DEF PublishCommit, AloneInv, Knows, KnowsSlots, IInv, TxOK, Remembers, Publishing, Used
  <1>2. \A s \in mine : slot[s] \in Slot /\ slot[s].version \in Versions
    BY <1>1, SlotCarriesVersion
  <1>3. /\ \A s \in SlotIds : slot'[s] = IF s \in mine THEN [slot[s] EXCEPT !.status = "PUBLISHED"] ELSE slot[s]
        /\ \A v \in Versions : version'[v] = IF \E s \in mine : slot[s].version = v THEN "PUBLISHED" ELSE version[v]
        /\ Finish(t)
    BY DEF PublishCommit
  <1> HIDE DEF mine
  <1>4. \A s \in mine : slot'[s].version = slot[s].version /\ slot'[s].status = "PUBLISHED"
    BY <1>1, <1>2, <1>3 DEF Slot
  <1>5. \A s \in SlotIds \ mine : slot'[s] = slot[s]
    BY <1>3
  <1>6. SlotsFollowVersions'
    <2> SUFFICES ASSUME NEW s \in SlotIds
                 PROVE  /\ slot'[s].status = "PUBLISHED" => version'[slot'[s].version] = "PUBLISHED"
                        /\ slot'[s].status = "SCHEDULED" =>
                             version'[slot'[s].version] \in {"SCHEDULED", "APPROVED", "REJECTED"}
      BY DEF SlotsFollowVersions
    <2>1. CASE s \in mine
      BY <1>2, <1>3, <1>4, <2>1
    <2>2. CASE s \notin mine /\ slot[s].status \in {"SCHEDULED", "PUBLISHED"}
      <3>1. slot[s].version \in Versions /\ IsActive(slot[s]) /\ slot'[s] = slot[s]
        BY <1>1, <1>5, <2>2, SlotCarriesVersion DEF IsActive
      <3>2. ~ \E r \in mine : slot[r].version = slot[s].version
        BY <1>1, <2>2, <3>1 DEF UniqueRows, IsActive
      <3>3. version'[slot[s].version] = version[slot[s].version]
        BY <1>3, <3>1, <3>2
      <3>4. QED
        BY <3>1, <3>3 DEF AloneInv, SlotsFollowVersions
    <2>3. CASE s \notin mine /\ slot[s].status \notin {"SCHEDULED", "PUBLISHED"}
      BY <1>5, <2>3
    <2>4. QED
      BY <2>1, <2>2, <2>3
  <1>7. VersionsHaveSlots'
    <2> SUFFICES ASSUME NEW u \in Versions, version'[u] \in {"SCHEDULED", "PUBLISHED"}
                 PROVE  \E r \in SlotIds : slot'[r].version = u /\ slot'[r].status = version'[u]
      BY DEF VersionsHaveSlots
    <2>1. CASE \E s \in mine : slot[s].version = u
      BY <1>1, <1>3, <1>4, <2>1
    <2>2. CASE ~ \E s \in mine : slot[s].version = u
      <3>1. version'[u] = version[u]
        BY <1>3, <2>2
      <3>2. PICK r \in SlotIds : slot[r].version = u /\ slot[r].status = version[u]
        BY <3>1 DEF AloneInv, VersionsHaveSlots
      <3>3. QED
        BY <1>5, <2>2, <3>1, <3>2
    <2>3. QED
      BY <2>1, <2>2
  <1>8. QED
    BY <1>3, <1>6, <1>7, AloneEnds

\* Every step of operations that run one after the other.
LEMMA NextKeepsAloneInv ==
    ASSUME Alone
    PROVE  AloneInv /\ [Next]_vars => AloneInv'
  <1> SUFFICES ASSUME AloneInv, [Next]_vars PROVE AloneInv'
    OBVIOUS
  <1>1. IInv'
    BY NextKeepsIInv DEF AloneInv
  <1>2. CASE UNCHANGED vars
    BY <1>1, <1>2 DEF vars, AloneInv, SlotsFollowVersions, VersionsHaveSlots, Knows, KnowsVersions, KnowsSlots,
                      ActiveSlots, Used
  <1>3. ASSUME NEW t \in Txs, Lifecycle(t) PROVE AloneInv'
    BY <1>1, <1>3, AloneFirstRead, AloneStatus, AloneSchedule DEF Lifecycle
  <1>4. ASSUME NEW t \in Txs, Submit(t) PROVE AloneInv'
    <2>1. CASE SubmitCommit(t)
      BY <1>1, <2>1, AloneEnds DEF SubmitCommit, AloneInv, SlotsFollowVersions, VersionsHaveSlots
    <2>2. QED
      BY <1>1, <1>4, <2>1, AloneFirstRead DEF Submit
  <1>5. ASSUME NEW t \in Txs, Replace(t) PROVE AloneInv'
    BY <1>1, <1>5, AloneFirstRead, AloneRetiringRead, AloneReplace DEF Replace
  <1>6. ASSUME NEW t \in Txs, Quarantine(t) PROVE AloneInv'
    BY <1>1, <1>6, AloneFirstRead, AloneRetiringRead, AloneQuarantine DEF Quarantine
  <1>7. ASSUME NEW t \in Txs, Publish(t) PROVE AloneInv'
    BY <1>1, <1>7, AlonePublishing, AlonePublish DEF Publish
  <1>8. ASSUME NEW t \in Txs, Abort(t) PROVE AloneInv'
    <2>1. Finish(t) /\ UNCHANGED Rows
      BY <1>8 DEF Abort
    <2>2. SlotsFollowVersions' /\ VersionsHaveSlots'
      BY <2>1 DEF Rows, AloneInv, SlotsFollowVersions, VersionsHaveSlots
    <2>3. QED
      BY <1>1, <2>1, <2>2, AloneEnds
  <1>9. QED
    BY <1>2, <1>3, <1>4, <1>5, <1>6, <1>7, <1>8 DEF Next

THEOREM AloneInvariance ==
    ASSUME Alone
    PROVE  Spec => []AloneInv
  <1>1. Init => AloneInv
    <2>1. Init => SlotsFollowVersions /\ VersionsHaveSlots
      BY DEF Init, SlotsFollowVersions, VersionsHaveSlots, NoSlot
    <2>2. Init => \A t \in Txs : Knows(tx[t])
      BY IdleKnows DEF Init, Knows, KnowsVersions, KnowsSlots, Idle, Replacing, FoundSlot, Cancelling, Publishing
    <2>3. QED
      BY <2>1, <2>2, InitIInv DEF AloneInv
  <1>2. QED
    BY <1>1, NextKeepsAloneInv, PTL DEF Spec

\* While operations of src/publication.ts run one after the other, a PUBLISHED slot
\* carries a PUBLISHED version and every SCHEDULED or PUBLISHED version has an
\* active slot of its status: interleaving is what breaks it.
THEOREM CalendarAgreesHolds ==
    ASSUME Alone
    PROVE  Spec => []CalendarAgrees
  <1>1. AloneInv => CalendarAgrees
    <2> SUFFICES ASSUME AloneInv PROVE CalendarAgrees
      OBVIOUS
    <2>1. TypeOK
      BY DEF AloneInv, IInv
    <2>2. \A s \in Used : slot[s].status = "PUBLISHED" => version[slot[s].version] = "PUBLISHED"
      BY DEF AloneInv, SlotsFollowVersions, Used
    <2>3. ASSUME NEW v \in Versions, version[v] \in {"SCHEDULED", "PUBLISHED"}
          PROVE  \E s \in ActiveSlots(v) : slot[s].status = version[v]
      BY <2>1, <2>3, SlotCarriesVersion DEF AloneInv, VersionsHaveSlots, ActiveSlots, IsActive
    <2>4. QED
      BY <2>2, <2>3 DEF CalendarAgrees
  <1>2. QED
    BY <1>1, AloneInvariance, PTL

-----------------------------------------------------------------------------
(***************************************************************************)
(* Operations that run one after the other implement the abstract          *)
(* calendar.                                                               *)
(***************************************************************************)
Places == Dates \X Orders
At(s, p) == IsActive(slot[s]) /\ slot[s].date = p[1] /\ slot[s].order = p[2]

\* What a reader sees of a place: the indexes leave it at most one active slot.
PlaceIsRead ==
    \A p \in Places :
        /\ \A s \in SlotIds : At(s, p) =>
              Occupant[p] = slot[s].version /\ (p \in Live <=> slot[s].status = "PUBLISHED")
        /\ (\A s \in SlotIds : ~At(s, p)) => Occupant[p] = None /\ p \notin Live

LEMMA Reader == TypeOK /\ UniqueRows(slot) => PlaceIsRead
  <1> SUFFICES ASSUME TypeOK, UniqueRows(slot), NEW p \in Places
               PROVE  /\ \A s \in SlotIds : At(s, p) =>
                           Occupant[p] = slot[s].version /\ (p \in Live <=> slot[s].status = "PUBLISHED")
                      /\ (\A s \in SlotIds : ~At(s, p)) => Occupant[p] = None /\ p \notin Live
    BY DEF PlaceIsRead
  <1>1. p = <<p[1], p[2]>>
    BY DEF Places
  <1>2. \A s : s \in SlotsAt(p) <=> s \in SlotIds /\ At(s, p)
    BY <1>1, SlotCarriesVersion DEF SlotsAt, At, Used, IsActive
  <1>3. /\ Occupant[p] = IF SlotsAt(p) = {} THEN None ELSE slot[CHOOSE s \in SlotsAt(p) : TRUE].version
        /\ p \in Live <=> \E s \in SlotsAt(p) : slot[s].status = "PUBLISHED"
    BY DEF Occupant, Live, Places
  <1>4. ASSUME NEW s \in SlotIds, At(s, p)
        PROVE  Occupant[p] = slot[s].version /\ (p \in Live <=> slot[s].status = "PUBLISHED")
    <2>1. \A r \in SlotsAt(p) : r = s
      BY <1>2, <1>4 DEF At, UniqueRows
    <2>2. s \in SlotsAt(p)
      BY <1>2, <1>4
    <2>3. (CHOOSE r \in SlotsAt(p) : TRUE) = s
      BY <2>1, <2>2
    <2>4. QED
      BY <1>3, <2>1, <2>2, <2>3
  <1>5. (\A s \in SlotIds : ~At(s, p)) => Occupant[p] = None /\ p \notin Live
    BY <1>2, <1>3
  <1>6. QED
    BY <1>4, <1>5

\* An active slot holds a place for its version.
LEMMA SlotHoldsPlace ==
    ASSUME TypeOK, NEW s \in SlotIds, IsActive(slot[s])
    PROVE  /\ <<slot[s].date, slot[s].order>> \in Places /\ At(s, <<slot[s].date, slot[s].order>>)
           /\ slot[s].version \in Versions
  BY SlotCarriesVersion DEF IsActive, At, Places, Slot

Implements == UNCHANGED Cal!vars \/ Cal!Next

\* The calendar's steps over what a reader sees.
LEMMA CalendarSteps ==
    ASSUME NEW p \in Places
    PROVE  /\ \A v \in Versions :
                 /\ Occupant[p] = None /\ v \notin Retired /\ (\A q \in Places : Occupant[q] # v)
                    /\ Occupant' = [Occupant EXCEPT ![p] = v] /\ Live' = Live /\ Retired' = Retired
                    => Implements
                 /\ Occupant[p] # None /\ v \notin Retired /\ (\A q \in Places : Occupant[q] # v)
                    /\ Occupant' = [Occupant EXCEPT ![p] = v] /\ Live' = Live \ {p}
                    /\ Retired' = Retired \cup {Occupant[p]}
                    => Implements
           /\ /\ p \in Live /\ Occupant' = [Occupant EXCEPT ![p] = None] /\ Live' = Live \ {p}
              /\ Retired' = Retired \cup {Occupant[p]}
              => Implements
  <1>1. p \in Cal!Places /\ Cal!Places = Places
    BY DEF Cal!Places, Places
  <1>2. ASSUME NEW v \in Versions, Occupant[p] = None, v \notin Retired, \A q \in Places : Occupant[q] # v,
               Occupant' = [Occupant EXCEPT ![p] = v], Live' = Live, Retired' = Retired
        PROVE  Cal!Book(p, v)
    BY <1>1, <1>2 DEF Cal!Book, Cal!OffCalendar
  <1>3. ASSUME NEW v \in Versions, Occupant[p] # None, v \notin Retired, \A q \in Places : Occupant[q] # v,
               Occupant' = [Occupant EXCEPT ![p] = v], Live' = Live \ {p}, Retired' = Retired \cup {Occupant[p]}
        PROVE  Cal!Retarget(p, v)
    BY <1>1, <1>3 DEF Cal!Retarget, Cal!OffCalendar
  <1>4. ASSUME p \in Live, Occupant' = [Occupant EXCEPT ![p] = None], Live' = Live \ {p},
               Retired' = Retired \cup {Occupant[p]}
        PROVE  Cal!Withdraw(p)
    BY <1>4 DEF Cal!Withdraw
  <1>5. QED
    BY <1>1, <1>2, <1>3, <1>4 DEF Cal!Next, Implements

\* What the slots of the next state show of a place, when a step writes some.
LEMMA PlacesMove ==
    ASSUME PlaceIsRead, PlaceIsRead', NEW p \in Places, NEW x,
           \A q \in Places \ {p} : \A s \in SlotIds : At(s, q)' <=> At(s, q),
           \A q \in Places \ {p} : \A s \in SlotIds : At(s, q) => slot'[s] = slot[s],
           \/ x = None /\ \A s \in SlotIds : ~At(s, p)'
           \/ \E s \in SlotIds : At(s, p)' /\ slot'[s].version = x /\ slot'[s].status # "PUBLISHED"
    PROVE  Occupant' = [Occupant EXCEPT ![p] = x] /\ Live' = Live \ {p}
  <1>1. /\ Occupant = [q \in Places |-> Occupant[q]] /\ Occupant' = [q \in Places |-> Occupant'[q]]
        /\ Live \subseteq Places /\ Live' \subseteq Places
    BY DEF Occupant, Live, Places
  <1>2. Occupant'[p] = x /\ p \notin Live'
    BY DEF PlaceIsRead
  <1>3. ASSUME NEW q \in Places \ {p} PROVE Occupant'[q] = Occupant[q] /\ (q \in Live' <=> q \in Live)
    <2>1. CASE \E s \in SlotIds : At(s, q)
      BY <2>1 DEF PlaceIsRead
    <2>2. CASE ~ \E s \in SlotIds : At(s, q)
      BY <2>2 DEF PlaceIsRead
    <2>3. QED
      BY <2>1, <2>2
  <1>4. QED
    BY <1>1, <1>2, <1>3

\* What neither writes a slot nor retires a version leaves the calendar alone.
LEMMA CalendarUnchanged ==
    ASSUME slot' = slot, Retired' = Retired
    PROVE  Implements
  <1>1. Occupant' = Occupant /\ Live' = Live
    BY DEF Occupant, Live, SlotsAt, Used
  <1>2. QED
    BY <1>1 DEF Implements, Cal!vars

\* A reader's view, before a step and after it.
LEMMA ReadTwice == AloneInv /\ AloneInv' => TypeOK /\ PlaceIsRead /\ PlaceIsRead'
  <1>1. AloneInv => TypeOK /\ PlaceIsRead
    BY Reader DEF AloneInv, IInv
  <1>2. QED
    BY <1>1, PTL

\* Approving and holding never touch a retired version.
LEMMA StatusImplements ==
    ASSUME AloneInv, NEW t \in Txs, ApproveCommit(t) \/ HoldWrite(t)
    PROVE  Implements
  <1>1. /\ version[tx[t].v] \in {"VALIDATED", "SCHEDULED", "APPROVED"} /\ tx[t].v \in Versions
        /\ slot' = slot
        /\ \E status \in {"APPROVED", "REJECTED"} : version' = [version EXCEPT ![tx[t].v] = status]
    BY DEF ApproveCommit, HoldWrite, AloneInv, Knows, KnowsVersions, IInv, TxOK, Remembers, Working, Stages
  <1>2. Retired' = Retired
    BY <1>1 DEF Retired, AloneInv, IInv, TypeOK
  <1>3. QED
    BY <1>1, <1>2, CalendarUnchanged

\* A schedule books a free place: the indexes refuse any other.
LEMMA ScheduleImplements ==
    ASSUME AloneInv, AloneInv', NEW t \in Txs, NEW s \in SlotIds, NEW date \in Dates, NEW order \in Orders,
           ScheduleCommit(t, s, date, order)
    PROVE  Implements
  <1> DEFINE v == tx[t].v
  <1> DEFINE p == <<date, order>>
  <1>0. TypeOK /\ PlaceIsRead /\ PlaceIsRead' /\ UniqueRows(slot')
    BY ReadTwice DEF AloneInv, IInv
  <1>1. v \in Versions /\ version[v] = "APPROVED" /\ p \in Places /\ p[1] = date /\ p[2] = order
    BY DEF ScheduleCommit, AloneInv, Knows, KnowsVersions, IInv, TxOK, Remembers, Working, Stages, Places
  <1>2. /\ s \notin Used /\ slot'[s] = [version |-> v, date |-> date, order |-> order, status |-> "SCHEDULED"]
        /\ \A r \in SlotIds \ {s} : slot'[r] = slot[r]
        /\ \A u \in Versions : version'[u] = IF u = v THEN "SCHEDULED" ELSE version[u]
    BY <1>0, <1>1 DEF ScheduleCommit, TypeOK
  <1> HIDE DEF v, p
  <1>3. ~IsActive(slot[s]) /\ IsActive(slot'[s])
    BY <1>2 DEF Used, NoSlot, IsActive
  <1>4. \A q \in Places : \A r \in SlotIds : At(r, q) => r # s /\ slot'[r] = slot[r] /\ At(r, q)'
    BY <1>2, <1>3 DEF At
  <1>5. /\ \A r \in SlotIds : ~At(r, p)
        /\ \A q \in Places : \A r \in SlotIds : At(r, q) => slot[r].version # v
    BY <1>0, <1>1, <1>2, <1>3, <1>4 DEF At, UniqueRows
  <1>6. Occupant[p] = None /\ p \notin Live /\ v \notin Retired /\ \A q \in Places : Occupant[q] # v
    BY <1>0, <1>1, <1>5, PublicationAssumption DEF PlaceIsRead, Retired
  <1>7. At(s, p)' /\ \A q \in Places \ {p} : ~At(s, q)'
    BY <1>1, <1>2, <1>3 DEF At, Places, p
  <1>8. \A q \in Places \ {p} : \A r \in SlotIds : At(r, q)' <=> At(r, q)
    BY <1>2, <1>3, <1>7 DEF At
  <1>9. Occupant' = [Occupant EXCEPT ![p] = v] /\ Live' = Live \ {p}
    BY <1>0, <1>1, <1>2, <1>4, <1>7, <1>8, PlacesMove
  <1>10. Retired' = Retired
    BY <1>1, <1>2 DEF Retired
  <1>11. QED
    BY <1>1, <1>6, <1>9, <1>10, CalendarSteps

\* A replacement takes the place over.
LEMMA ReplaceImplements ==
    ASSUME AloneInv, AloneInv', NEW t \in Txs, NEW s \in SlotIds, NEW invalidation \in BOOLEAN,
           ReplaceCommit(t, s, invalidation)
    PROVE  Implements
  <1> DEFINE v == tx[t].v
  <1> DEFINE w == tx[t].w
  <1> DEFINE old == tx[t].s
  <1>0. TypeOK /\ PlaceIsRead /\ PlaceIsRead' /\ UniqueRows(slot) /\ UniqueRows(slot')
    BY ReadTwice DEF AloneInv, IInv
  <1>1. /\ v \in Versions /\ w \in Versions /\ v # w
        /\ old \in Used /\ old \in SlotIds /\ slot[old].version = v /\ IsActive(slot[old])
        /\ version[w] = "APPROVED"
    BY DEF ReplaceCommit, AloneInv, Knows, KnowsVersions, KnowsSlots, IInv, TxOK, Remembers, Working, Stages,
           Replacing, FoundSlot, Used
  <1>2. slot[old] \in Slot /\ s # old
    BY <1>0, <1>1, SlotCarriesVersion DEF ReplaceCommit
  <1>3. /\ s \notin Used /\ slot'[s].version = w /\ slot'[s].status = "SCHEDULED"
        /\ slot'[s].date = slot[old].date /\ slot'[s].order = slot[old].order
        /\ slot'[old].version = v /\ slot'[old].status = "CANCELLED"
        /\ \A r \in SlotIds \ {s, old} : slot'[r] = slot[r]
        /\ \A u \in Versions : version'[u] = IF u = w THEN "SCHEDULED" ELSE IF u = v THEN "SUPERSEDED" ELSE version[u]
    BY <1>0, <1>1, <1>2 DEF ReplaceCommit, TypeOK, Slot
  <1>4. PICK p \in Places : At(old, p) /\ p[1] = slot[old].date /\ p[2] = slot[old].order
    BY <1>0, <1>1, SlotHoldsPlace
  <1> HIDE DEF v, w, old
  <1>5. ~IsActive(slot[s]) /\ IsActive(slot'[s]) /\ ~IsActive(slot'[old])
    BY <1>3 DEF Used, NoSlot, IsActive
  <1>6. \A q \in Places \ {p} : \A r \in SlotIds : At(r, q) => r # s /\ r # old /\ slot'[r] = slot[r]
    <2> SUFFICES ASSUME NEW q \in Places \ {p}, NEW r \in SlotIds, At(r, q)
                 PROVE  r # s /\ r # old /\ slot'[r] = slot[r]
      OBVIOUS
    <2>1. r # old
      BY <1>4 DEF At, Places
    <2>2. QED
      BY <1>3, <1>5, <2>1 DEF At
  <1>7. \A q \in Places \ {p} : \A r \in SlotIds : At(r, q)' <=> At(r, q)
    <2> SUFFICES ASSUME NEW q \in Places \ {p}, NEW r \in SlotIds PROVE At(r, q)' <=> At(r, q)
      OBVIOUS
    <2>1. CASE r = s
      BY <1>3, <1>4, <1>5, <2>1 DEF At, Places
    <2>2. CASE r = old
      BY <1>4, <1>5, <2>2 DEF At, Places
    <2>3. CASE r \notin {s, old}
      BY <1>3, <2>3 DEF At
    <2>4. QED
      BY <2>1, <2>2, <2>3
  <1>8. At(s, p)'
    BY <1>3, <1>4, <1>5 DEF At
  <1>9. \A q \in Places : \A r \in SlotIds : At(r, q) => slot[r].version # w
    <2> SUFFICES ASSUME NEW q \in Places, NEW r \in SlotIds, At(r, q), slot[r].version = w PROVE FALSE
      OBVIOUS
    <2>1. r # old /\ r # s
      BY <1>1, <1>5 DEF At
    <2>2. IsActive(slot'[r]) /\ slot'[r].version = slot'[s].version
      BY <1>3, <2>1 DEF At
    <2>3. QED
      BY <1>0, <1>5, <2>1, <2>2 DEF UniqueRows
  <1>10. Occupant[p] = v /\ v # None /\ w \notin Retired /\ \A q \in Places : Occupant[q] # w
    BY <1>0, <1>1, <1>4, <1>9, PublicationAssumption DEF PlaceIsRead, Retired
  <1>11. Occupant' = [Occupant EXCEPT ![p] = w] /\ Live' = Live \ {p}
    BY <1>0, <1>3, <1>4, <1>6, <1>7, <1>8, PlacesMove
  <1>12. Retired' = Retired \cup {v}
    BY <1>1, <1>3 DEF Retired
  <1>13. QED
    BY <1>1, <1>4, <1>10, <1>11, <1>12, CalendarSteps

\* A quarantine withdraws the version's place.
LEMMA QuarantineImplements ==
    ASSUME AloneInv, AloneInv', NEW t \in Txs, QuarantineCommit(t)
    PROVE  Implements
  <1> DEFINE v == tx[t].v
  <1>0. TypeOK /\ PlaceIsRead /\ PlaceIsRead' /\ UniqueRows(slot) /\ UniqueRows(slot')
    BY ReadTwice DEF AloneInv, IInv
  <1>1. v \in Versions /\ tx[t].mine = ActiveSlots(v) /\ version[v] = "PUBLISHED"
    BY DEF QuarantineCommit, AloneInv, Knows, KnowsVersions, KnowsSlots, IInv, TxOK, Remembers, Working, Stages,
           Cancelling
  <1>2. PICK s \in SlotIds : ActiveSlots(v) = {s} /\ slot[s].status = "PUBLISHED"
    BY <1>1, IInvImpliesPublishedOnCalendar DEF PublishedOnCalendar, AloneInv
  <1>3. slot[s].version = v /\ IsActive(slot[s]) /\ slot[s] \in Slot
    BY <1>0, <1>2, SlotCarriesVersion DEF ActiveSlots
  <1>4. /\ slot'[s].status = "CANCELLED"
        /\ \A r \in SlotIds \ {s} : slot'[r] = slot[r]
        /\ \A u \in Versions : version'[u] = IF u = v THEN "SUPERSEDED" ELSE version[u]
    BY <1>0, <1>1, <1>2, <1>3 DEF QuarantineCommit, TypeOK, Slot
  <1>5. PICK p \in Places : At(s, p) /\ p[1] = slot[s].date /\ p[2] = slot[s].order
    BY <1>0, <1>3, SlotHoldsPlace
  <1> HIDE DEF v
  <1>6. ~IsActive(slot'[s])
    BY <1>4 DEF IsActive
  <1>7. \A q \in Places : \A r \in SlotIds : At(r, q) /\ (q # p \/ r # s) => r # s /\ slot'[r] = slot[r]
    BY <1>4, <1>5 DEF At, Places
  <1>8. \A q \in Places \ {p} : \A r \in SlotIds : At(r, q)' <=> At(r, q)
    BY <1>4, <1>6, <1>7 DEF At
  <1>9. \A r \in SlotIds : ~At(r, p)'
    <2> SUFFICES ASSUME NEW r \in SlotIds, At(r, p)' PROVE FALSE
      OBVIOUS
    <2>1. r # s /\ slot'[r] = slot[r]
      BY <1>4, <1>6 DEF At
    <2>2. QED
      BY <1>0, <1>3, <1>5, <2>1 DEF At, UniqueRows
  <1>10. p \in Live /\ Occupant[p] = v
    BY <1>0, <1>2, <1>3, <1>5 DEF PlaceIsRead
  <1>11. Occupant' = [Occupant EXCEPT ![p] = None] /\ Live' = Live \ {p}
    BY <1>0, <1>5, <1>7, <1>8, <1>9, PlacesMove
  <1>12. Retired' = Retired \cup {v}
    BY <1>1, <1>4 DEF Retired
  <1>13. QED
    BY <1>5, <1>10, <1>11, <1>12, CalendarSteps

\* The slots a publication wrote go live together.
LEMMA PublishImplements ==
    ASSUME AloneInv, AloneInv', NEW t \in Txs, PublishCommit(t)
    PROVE  Implements
  <1> DEFINE mine == tx[t].mine
  <1>0. TypeOK /\ PlaceIsRead /\ PlaceIsRead' /\ UniqueRows(slot)
    BY ReadTwice DEF AloneInv, IInv
  <1>1. /\ mine \subseteq SlotIds /\ mine \subseteq Used /\ mine # {}
        /\ \A s \in mine : slot[s].status = "SCHEDULED" /\ version[slot[s].version] = "SCHEDULED"
    <2>1. tx[t].stage \in Publishing /\ tx[t].stage = "publish" /\ tx[t].todo = {}
      BY DEF PublishCommit, Publishing
    <2>2. Remembers(tx[t]) /\ KnowsSlots(tx[t])
      BY DEF AloneInv, IInv, TxOK, Knows
    <2>3. mine \subseteq Used
      BY <2>1, <2>2 DEF Remembers
    <2>4. /\ mine # {}
          /\ \A s \in mine : slot[s].status = "SCHEDULED" /\ version[slot[s].version] = "SCHEDULED"
      BY <2>1, <2>2 DEF KnowsSlots
    <2>5. QED
      BY <2>3, <2>4 DEF Used
  <1>2. PICK date \in Dates : \A s \in mine : slot[s].date = date
    BY SMTT(30) DEF PublishCommit, AloneInv, Knows, KnowsSlots, Publishing
  <1>3. \A s \in mine : slot[s] \in Slot
    BY <1>0, <1>1, SlotCarriesVersion
  <1>4. /\ \A s \in SlotIds : slot'[s] = IF s \in mine THEN [slot[s] EXCEPT !.status = "PUBLISHED"] ELSE slot[s]
        /\ \A v \in Versions : version'[v] = IF \E s \in mine : slot[s].version = v THEN "PUBLISHED" ELSE version[v]
    BY DEF PublishCommit
  <1> HIDE DEF mine
  <1>5. \A s \in mine : /\ slot'[s].version = slot[s].version /\ slot'[s].status = "PUBLISHED"
                        /\ slot'[s].date = slot[s].date /\ slot'[s].order = slot[s].order
                        /\ IsActive(slot[s]) /\ IsActive(slot'[s])
    BY <1>1, <1>3, <1>4, ZenonT(30) DEF Slot, IsActive
  <1>6. \A s \in SlotIds \ mine : slot'[s] = slot[s]
    BY <1>4
  <1>7. \A p \in Places : \A s \in SlotIds : At(s, p)' <=> At(s, p)
    BY <1>1, <1>5, <1>6 DEF At
  <1> DEFINE places == {p \in Places : \E s \in mine : At(s, p)}
  <1>8. places # {} /\ places \subseteq Places
    <2>1. PICK s \in mine : TRUE
      BY <1>1
    <2>2. <<slot[s].date, slot[s].order>> \in places
      BY <1>0, <1>1, <1>5, <2>1, SlotHoldsPlace
    <2>3. QED
      BY <2>2
  <1>9. places \in SUBSET Cal!Booked(date)
    <2> SUFFICES ASSUME NEW p \in places
                 PROVE  p \in Places /\ p \notin Live /\ p[1] = date /\ Occupant[p] # None
      BY DEF Cal!Booked, Cal!Places, Places
    <2>1. PICK s \in mine : At(s, p)
      OBVIOUS
    <2>2. Occupant[p] = slot[s].version /\ (p \in Live <=> slot[s].status = "PUBLISHED")
      BY <1>0, <1>1, <2>1 DEF PlaceIsRead
    <2>3. QED
      BY <1>0, <1>1, <1>2, <2>1, <2>2, SlotCarriesVersion, PublicationAssumption DEF At
  <1> HIDE DEF places
  <1>10. ASSUME NEW p \in Places
         PROVE  Occupant'[p] = Occupant[p] /\ (p \in Live' <=> p \in Live \/ p \in places)
    <2>1. CASE \E s \in SlotIds : At(s, p)
      <3>1. PICK s \in SlotIds : At(s, p) /\ At(s, p)'
        BY <1>7, <2>1
      <3>2. /\ Occupant[p] = slot[s].version /\ (p \in Live <=> slot[s].status = "PUBLISHED")
            /\ Occupant'[p] = slot'[s].version /\ (p \in Live' <=> slot'[s].status = "PUBLISHED")
        BY <1>0, <3>1 DEF PlaceIsRead
      <3>3. p \in places <=> s \in mine
        BY <1>0, <1>1, <3>1 DEF places, At, UniqueRows
      <3>4. QED
        BY <1>5, <1>6, <3>2, <3>3
    <2>2. CASE ~ \E s \in SlotIds : At(s, p)
      BY <1>0, <1>1, <1>7, <2>2 DEF PlaceIsRead, places
    <2>3. QED
      BY <2>1, <2>2
  <1>11. Occupant' = Occupant /\ Live' = Live \cup places
    <2>1. /\ Occupant = [q \in Places |-> Occupant[q]] /\ Occupant' = [q \in Places |-> Occupant'[q]]
          /\ Live \subseteq Places /\ Live' \subseteq Places
      BY DEF Occupant, Live, Places
    <2>2. QED
      BY <1>8, <1>10, <2>1
  <1>12. Retired' = Retired
    BY <1>1, <1>4 DEF Retired
  <1>13. Cal!GoLive(places)
    BY <1>8, <1>11, <1>12 DEF Cal!GoLive
  <1>14. QED
    BY <1>9, <1>13 DEF Cal!Next, Implements

\* Every step of operations that run one after the other is a step of the
\* calendar or leaves it alone.
LEMMA NextImplements ==
    AloneInv /\ AloneInv' /\ [Next]_vars => [Cal!Next]_(Cal!vars)
  <1> SUFFICES ASSUME AloneInv, AloneInv', [Next]_vars PROVE Implements
    BY DEF Implements
  <1>1. CASE slot' = slot /\ version' = version
    BY <1>1, CalendarUnchanged DEF Retired
  <1>2. ASSUME NEW t \in Txs, Lifecycle(t) PROVE Implements
    BY <1>1, <1>2, StatusImplements, ScheduleImplements DEF Lifecycle, ApproveRead, ScheduleRead, HoldRead, Rows
  <1>3. ASSUME NEW t \in Txs, Submit(t) \/ Abort(t) PROVE Implements
    BY <1>1, <1>3 DEF Submit, SubmitRead, SubmitCommit, Abort, Rows
  <1>4. ASSUME NEW t \in Txs, Replace(t) PROVE Implements
    BY <1>1, <1>4, ReplaceImplements
       DEF Replace, ReplaceReadOld, ReplaceReadNew, ReplaceFindSlot, ReplaceWriteOld, ReplaceReadSpot, Rows
  <1>5. ASSUME NEW t \in Txs, Quarantine(t) PROVE Implements
    BY <1>1, <1>5, QuarantineImplements
       DEF Quarantine, QuarantineRead, QuarantineSlots, QuarantineVersion, QuarantineReadSpot, Rows
  <1>6. ASSUME NEW t \in Txs, Publish(t) PROVE Implements
    BY <1>1, <1>6, PublishImplements DEF Publish, PublishFind, PublishRead, PublishWrite, Rows
  <1>7. CASE UNCHANGED vars
    BY <1>1, <1>7 DEF vars
  <1>8. QED
    BY <1>2, <1>3, <1>4, <1>5, <1>6, <1>7 DEF Next

\* While operations run one after the other, src/publication.ts shows its readers
\* the abstract calendar: places are booked, go live, are taken over or withdrawn,
\* and a retired version never returns.
THEOREM ImplementsCalendarHolds ==
    ASSUME Alone
    PROVE  Spec => ImplementsCalendar
  <1>1. Init => Cal!Init
    BY DEF Init, Cal!Init, Cal!Places, Occupant, Live, Retired, SlotsAt, Used
  <1>2. QED
    BY <1>1, AloneInvariance, NextImplements, PTL DEF Spec, ImplementsCalendar, Cal!Spec

-----------------------------------------------------------------------------
(***************************************************************************)
(* What the abstract calendar promises.                                    *)
(***************************************************************************)
CalInv == Cal!TypeOK /\ Cal!OneVersionOnePlace

\* The empty calendar books nothing twice.
LEMMA CalInitInv == Cal!Init => CalInv
  BY PublicationAssumption DEF Cal!Init, CalInv, Cal!TypeOK, Cal!OneVersionOnePlace

\* Booking, going live, retargeting and withdrawing keep every version at one
\* place and every retired version off the calendar.
LEMMA CalNextKeepsInv == CalInv /\ [Cal!Next]_(Cal!vars) => CalInv'
  <1> SUFFICES ASSUME CalInv, [Cal!Next]_(Cal!vars) PROVE CalInv'
    OBVIOUS
  <1>1. ASSUME NEW p \in Cal!Places, NEW v \in Versions, Cal!Book(p, v) PROVE CalInv'
    <2>1. \A q \in Cal!Places : Occupant'[q] = IF q = p THEN v ELSE Occupant[q]
      BY <1>1 DEF Cal!Book, CalInv, Cal!TypeOK
    <2>2. QED
      BY <1>1, <2>1, PublicationAssumption DEF Cal!Book, CalInv, Cal!TypeOK, Cal!OneVersionOnePlace, Cal!OffCalendar
  <1>2. ASSUME NEW p \in Cal!Places, NEW v \in Versions, Cal!Retarget(p, v) PROVE CalInv'
    <2>1. Cal!TypeOK'
      BY <1>2 DEF Cal!Retarget, CalInv, Cal!TypeOK
    <2>2. \A q \in Cal!Places : Occupant'[q] = IF q = p THEN v ELSE Occupant[q]
      BY <1>2 DEF Cal!Retarget, CalInv, Cal!TypeOK
    <2>3. Cal!OneVersionOnePlace'
      BY <1>2, <2>2, PublicationAssumption
         DEF Cal!Retarget, CalInv, Cal!TypeOK, Cal!OneVersionOnePlace, Cal!OffCalendar
    <2>4. QED
      BY <2>1, <2>3 DEF CalInv
  <1>3. ASSUME NEW date \in Dates, NEW places \in SUBSET Cal!Booked(date), Cal!GoLive(places) PROVE CalInv'
    BY <1>3 DEF Cal!GoLive, Cal!Booked, CalInv, Cal!TypeOK, Cal!OneVersionOnePlace
  <1>4. ASSUME NEW p \in Cal!Places, Cal!Withdraw(p) PROVE CalInv'
    <2>1. Occupant[p] \in Versions
      BY <1>4 DEF Cal!Withdraw, CalInv, Cal!TypeOK, Cal!OneVersionOnePlace
    <2>2. \A q \in Cal!Places : Occupant'[q] = IF q = p THEN None ELSE Occupant[q]
      BY <1>4 DEF Cal!Withdraw, CalInv, Cal!TypeOK
    <2>3. Cal!TypeOK'
      BY <1>4, <2>1 DEF Cal!Withdraw, CalInv, Cal!TypeOK
    <2>4. Cal!OneVersionOnePlace'
      BY <1>4, <2>1, <2>2, PublicationAssumption DEF Cal!Withdraw, CalInv, Cal!TypeOK, Cal!OneVersionOnePlace
    <2>5. QED
      BY <2>3, <2>4 DEF CalInv
  <1>5. CASE UNCHANGED Cal!vars
    BY <1>5 DEF Cal!vars, CalInv, Cal!TypeOK, Cal!OneVersionOnePlace
  <1>6. QED
    BY <1>1, <1>2, <1>3, <1>4, <1>5 DEF Cal!Next

\* The abstract calendar never books a version twice, never shows an empty place
\* as live and never brings a replaced or withdrawn version back; so neither does
\* src/publication.ts while its operations run one after the other.
THEOREM OneVersionOnePlaceHolds ==
    /\ Cal!Spec => []Cal!OneVersionOnePlace
    /\ Alone => (Spec => []Cal!OneVersionOnePlace)
  <1>1. Cal!Spec => []Cal!OneVersionOnePlace
    <2>1. CalInv => Cal!OneVersionOnePlace
      BY DEF CalInv
    <2>2. QED
      BY <2>1, CalInitInv, CalNextKeepsInv, PTL DEF Cal!Spec
  <1>2. ASSUME Alone PROVE Spec => []Cal!OneVersionOnePlace
    BY <1>1, <1>2, ImplementsCalendarHolds DEF ImplementsCalendar
  <1>3. QED
    BY <1>1, <1>2
=============================================================================
