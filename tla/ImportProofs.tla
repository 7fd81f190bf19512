---------------------------- MODULE ImportProofs ----------------------------
(***************************************************************************)
(* Proofs about Import for any number of importers and any items.          *)
(*                                                                         *)
(* The tables and the archive only grow, and an importer writes only rows  *)
(* that carry its name.  So the inductive invariant is what each importer  *)
(* knows at its phase (Knows), which the others cannot take away, and what *)
(* holds of the tables.                                                    *)
(***************************************************************************)
EXTENDS Import, TLAPS

Complete(p) == files[Item(p).bundle] = SourceFiles

\* The row numbered before the one about to be inserted.
Precedes(n, set) == n = 1 \/ \E row \in set : row.number = n - 1

\* What has been established when an importer is at its phase.
KnowsArchive(p) ==
    /\ importer[p].phase \in Phases \ {"archiving", "failed", "dead"} => Complete(p)
    /\ At(p, "renameOwn") => importer[p].ownKey
    /\ At(p, "rename") => ~importer[p].ownKey
    /\ importer[p].phase \in {"renameOwn", "verify", "findVersion", "findRun", "number", "insert", "rejected"}
           => metadata[Item(p).bundle] # None
    /\ importer[p].phase \in {"verify", "findVersion", "findRun", "number", "insert"} /\ importer[p].ownKey
           => p \in versioned[Item(p).bundle]

KnowsRows(p) ==
    /\ importer[p].phase \in {"archiving", "gate", "rejected"} => ~importer[p].accepted
    /\ importer[p].phase \in {"template", "insertTemplate", "job", "findVersion", "findRun", "number", "insert"}
           => importer[p].accepted
    /\ ~importer[p].accepted => job[p].status = "none" /\ \A t \in templates : t.by # p
    /\ importer[p].run # None => \E r \in runs :
           r.by = importer[p].run /\ r.item.source = Item(p).source /\ r.item.native = Item(p).native
    /\ At(p, "insertTemplate") => Precedes(importer[p].number, OfFamily(Item(p).family))
    /\ importer[p].phase \in {"insertTemplate", "insert"} => importer[p].number # 0
    /\ At(p, "insert") => Precedes(importer[p].number, OfSpot(Item(p).spot))
    /\ At(p, "done") =>
           /\ job[p].status = "SUCCEEDED"
           /\ \E v \in versions : v.item.version = Item(p).version /\ v.item.content = Item(p).content

\* What the rows say of the importer that made them.
KnowsOwn(p) ==
    /\ ~At(p, "done") => job[p].run = None /\ \A r \in runs : r.by # p
    /\ job[p].run # None => job[p].run = p /\ \E r \in runs : r.by = p
    /\ At(p, "waiting") => job[p].status = "none" /\ \A t \in templates : t.by # p

Knows(p) ==
    /\ KnowsOwn(p)
    /\ ~At(p, "waiting") => KnowsArchive(p) /\ KnowsRows(p)

RunsOwned == \A r \in runs : job[r.by].run = r.by

IInv ==
    /\ TypeOK /\ ArchivedBeforeStored /\ NumbersDense /\ BackedByItsRun /\ RunsOwned
    /\ \A p \in Importers : Knows(p)

\* What a step of p leaves to the others.
Growth(p) ==
    /\ \A b \in Bundles :
           /\ files[b] = SourceFiles => files'[b] = SourceFiles
           /\ metadata[b] # None => metadata'[b] # None
           /\ versioned[b] \subseteq versioned'[b]
    /\ templates \subseteq templates' /\ \A t \in templates' \ templates : t.by = p
    /\ runs \subseteq runs' /\ \A r \in runs' \ runs : r.by = p
    /\ versions \subseteq versions'
    /\ \A q \in Importers \ {p} : importer'[q] = importer[q] /\ job'[q] = job[q]

-----------------------------------------------------------------------------
\* An importer that is not waiting has a record of the full shape.
LEMMA Started ==
    ASSUME TypeOK, NEW p \in Importers, importer[p].phase \in Phases
    PROVE  importer[p] \in Importer /\ Item(p) \in Items /\ Item(p).bundle \in Bundles
BY DEF TypeOK, Importer, Waiting, Phases, Ended, Item, Bundles

\* A step that only moves the importer to another phase.
LEMMA GoIs ==
    ASSUME TypeOK, NEW p \in Importers, importer[p].phase \in Phases, NEW phase \in Phases, Go(p, phase)
    PROVE  /\ importer' \in [Importers -> Importer \cup {Waiting}]
           /\ importer'[p] \in Importer
           /\ importer'[p].phase = phase
           /\ importer'[p].item = importer[p].item /\ importer'[p].accepted = importer[p].accepted
           /\ importer'[p].ownKey = importer[p].ownKey /\ importer'[p].number = importer[p].number
           /\ importer'[p].run = importer[p].run
           /\ \A q \in Importers \ {p} : importer'[q] = importer[q]
BY Started DEF TypeOK, Go, Importer

\* What the others know is not lost by growth.
LEMMA OthersKnow ==
    ASSUME IInv, NEW p \in Importers, Growth(p), NEW q \in Importers \ {p}
    PROVE  Knows(q)'
<1>1. Knows(q) /\ importer'[q] = importer[q] /\ job'[q] = job[q]
  BY DEF IInv, Growth
<1>2. KnowsOwn(q)'
  BY <1>1 DEF Growth, Knows, KnowsOwn, At
<1>3. CASE ~At(q, "waiting")
  <2>1. importer[q].phase \in Phases
    BY <1>3 DEF IInv, TypeOK, Importer, Waiting, At
  <2>2. Item(q).bundle \in Bundles /\ Item(q)' = Item(q)
    BY <1>1, <2>1, Started DEF IInv, Item
  <2>3. KnowsArchive(q) /\ KnowsRows(q)
    BY <1>1, <1>3 DEF Knows
  <2>4. KnowsArchive(q)'
    BY <1>1, <2>2, <2>3 DEF Growth, KnowsArchive, Complete, At
  <2>5. OfFamily(Item(q).family) \subseteq OfFamily(Item(q).family)' /\ OfSpot(Item(q).spot) \subseteq OfSpot(Item(q).spot)'
    BY <2>2 DEF Growth, OfFamily, OfSpot
  <2>6. KnowsRows(q)'
    BY <1>1, <2>2, <2>3, <2>5 DEF Growth, KnowsRows, At, Precedes
  <2>7. QED
    BY <1>1, <1>2, <2>4, <2>6 DEF Knows, At
<1>4. QED
  BY <1>1, <1>2, <1>3 DEF Knows, At

\* A step that adds no row to the tables.
Quiet == templates' = templates /\ runs' = runs /\ versions' = versions

\* Such a step keeps what holds of the tables.
LEMMA QuietTables ==
    ASSUME IInv, NEW p \in Importers, Growth(p), Quiet, job'[p].run = job[p].run
    PROVE  ArchivedBeforeStored' /\ NumbersDense' /\ BackedByItsRun' /\ RunsOwned'
<1>1. \A r \in runs : r.item.bundle \in Bundles /\ r.by \in Importers
  BY DEF IInv, TypeOK, Run, Bundles
<1>2. ArchivedBeforeStored'
  BY <1>1 DEF IInv, ArchivedBeforeStored, Growth, Quiet
<1>3. NumbersDense' /\ BackedByItsRun'
  BY DEF IInv, NumbersDense, BackedByItsRun, Quiet, OfFamily, OfSpot, Numbered
<1>4. RunsOwned'
  BY <1>1 DEF IInv, RunsOwned, Growth, Quiet
<1>5. QED
  BY <1>2, <1>3, <1>4

\* So such a step keeps the invariant if the importer's own knowledge stands.
LEMMA QuietStep ==
    ASSUME IInv, NEW p \in Importers, TypeOK', Growth(p), Quiet, job'[p].run = job[p].run, Knows(p)'
    PROVE  IInv'
BY OthersKnow, QuietTables DEF IInv

-----------------------------------------------------------------------------
\* A waiting importer is not in any phase, one in a phase is not waiting.
LEMMA StartKeeps == ASSUME IInv, NEW p \in Importers, Start(p) PROVE IInv'
<1>1. PICK i \in Items : importer' = [importer EXCEPT ![p] =
          [phase |-> "archiving", item |-> i, accepted |-> FALSE, ownKey |-> FALSE, number |-> 0, run |-> None]]
  BY DEF Start
<1>2. importer'[p] \in Importer /\ importer'[p] = [phase |-> "archiving", item |-> i, accepted |-> FALSE,
          ownKey |-> FALSE, number |-> 0, run |-> None]
  BY <1>1 DEF IInv, TypeOK, Importer, Phases
<1>3. TypeOK'
  BY <1>1, <1>2 DEF IInv, TypeOK, Start, archive, rows
<1>4. Growth(p) /\ Quiet /\ job' = job
  BY <1>1 DEF Growth, Quiet, Start, archive, rows
<1>5. KnowsOwn(p) /\ job[p].status = "none" /\ \A t \in templates : t.by # p
  BY DEF IInv, Knows, KnowsOwn, Start
<1>6. Knows(p)'
  BY <1>2, <1>4, <1>5 DEF Knows, KnowsOwn, KnowsArchive, KnowsRows, At, Quiet, Start
<1>7. QED
  BY <1>3, <1>4, <1>6, QuietStep

\* A file more in the archive.
LEMMA ArchiveFileKeeps == ASSUME IInv, NEW p \in Importers, ArchiveFile(p) PROVE IInv'
<1>1. Item(p).bundle \in Bundles
  BY Started DEF IInv, ArchiveFile, At, Phases
<1>2. PICK f \in SourceFiles : files' = [files EXCEPT ![Item(p).bundle] = @ \cup {f}]
  BY DEF ArchiveFile
<1>3. TypeOK'
  BY <1>1, <1>2 DEF IInv, TypeOK, ArchiveFile, rows
<1>4. Growth(p) /\ Quiet /\ job' = job /\ importer' = importer /\ metadata' = metadata /\ versioned' = versioned
  BY <1>1, <1>2 DEF IInv, TypeOK, Growth, Quiet, ArchiveFile, rows
<1>5. Knows(p)'
  <2>1. Knows(p)
    BY DEF IInv
  <2>2. KnowsArchive(p)'
    BY <1>1, <1>4, <2>1 DEF Growth, KnowsArchive, Complete, Item, At, Knows, ArchiveFile
  <2>3. QED
    BY <1>4, <2>1, <2>2 DEF Quiet, Knows, KnowsOwn, KnowsRows, At, Item, OfFamily, OfSpot
<1>6. QED
  BY <1>3, <1>4, <1>5, QuietStep

\* A step that changes nothing but the record of its importer, and of that not
\* the item.
LEMMA RecordStep ==
    ASSUME IInv, NEW p \in Importers, importer[p].phase \in Phases \ Ended, NEW next \in Importer,
           importer' = [importer EXCEPT ![p] = next], UNCHANGED <<archive, rows>>,
           next.item = importer[p].item, next.phase # "done", Knows(p)'
    PROVE  IInv'
<1>1. TypeOK'
  BY DEF IInv, TypeOK, archive, rows
<1>2. Growth(p) /\ Quiet /\ job' = job
  BY DEF IInv, TypeOK, Growth, Quiet, archive, rows
<1>3. QED
  BY <1>1, <1>2, QuietStep

\* All three source files are there.
LEMMA ArchivedKeeps == ASSUME IInv, NEW p \in Importers, Archived(p) PROVE IInv'
<1> DEFINE next == importer'[p]
<1>1. importer[p].phase \in Phases \ Ended /\ ~At(p, "waiting")
  BY DEF Archived, At, Phases, Ended
<1>2. importer[p] \in Importer /\ Item(p) \in Items /\ Item(p).bundle \in Bundles /\ Knows(p)
  BY <1>1, Started DEF IInv
<1>3. /\ next \in Importer
      /\ importer' = [importer EXCEPT ![p] = next]
      /\ next.item = importer[p].item
      /\ next.accepted = importer[p].accepted /\ next.run = importer[p].run
      /\ next.phase = "gate"
  BY <1>2 DEF IInv, TypeOK, Archived, Go, At, Importer, Phases, Ended
<1>4. importer'[p] = next /\ UNCHANGED <<archive, rows>>
  BY <1>3 DEF IInv, TypeOK, Archived
<1>5. KnowsOwn(p)'
  BY <1>1, <1>2, <1>3, <1>4 DEF Knows, KnowsOwn, At, Phases, Ended, rows
<1>6. KnowsArchive(p)'
  BY <1>1, <1>2, <1>3, <1>4 DEF Knows, KnowsArchive, Complete, Item, Archived, At, Phases, Ended, archive
<1>7. KnowsRows(p)'
  BY <1>1, <1>2, <1>3, <1>4 DEF Knows, KnowsRows, Item, Archived, At, Phases, Ended, rows, OfFamily, OfSpot
<1>8. QED
  BY <1>1, <1>3, <1>4, <1>5, <1>6, <1>7, RecordStep DEF Knows, At, Phases, Ended

\* metadata.json is looked for.
LEMMA FindMetadataKeeps == ASSUME IInv, NEW p \in Importers, FindMetadata(p) PROVE IInv'
<1> DEFINE next == importer'[p]
<1>1. importer[p].phase \in Phases \ Ended /\ ~At(p, "waiting")
  BY DEF FindMetadata, At, Phases, Ended
<1>2. importer[p] \in Importer /\ Item(p) \in Items /\ Item(p).bundle \in Bundles /\ Knows(p)
  BY <1>1, Started DEF IInv
<1>3. /\ next \in Importer
      /\ importer' = [importer EXCEPT ![p] = next]
      /\ next.item = importer[p].item
      /\ next.accepted = importer[p].accepted /\ next.run = importer[p].run
      /\ \/ next.phase = "renameOwn" /\ next.ownKey /\ metadata[Item(p).bundle] # None
         \/ next.phase = "rename" /\ ~next.ownKey
  BY <1>2 DEF IInv, TypeOK, FindMetadata, Go, At, Importer, Phases, Ended
<1>4. importer'[p] = next /\ UNCHANGED <<archive, rows>>
  BY <1>3 DEF IInv, TypeOK, FindMetadata
<1>5. KnowsOwn(p)'
  BY <1>1, <1>2, <1>3, <1>4 DEF Knows, KnowsOwn, At, Phases, Ended, rows
<1>6. KnowsArchive(p)'
  BY <1>1, <1>2, <1>3, <1>4 DEF Knows, KnowsArchive, Complete, Item, FindMetadata, At, Phases, Ended, archive
<1>7. KnowsRows(p)'
  BY <1>1, <1>2, <1>3, <1>4, ZenonT(30) DEF Knows, KnowsRows, Item, FindMetadata, At, Phases, Ended, rows, OfFamily, OfSpot
<1>8. QED
  BY <1>1, <1>3, <1>4, <1>5, <1>6, <1>7, RecordStep DEF Knows, At, Phases, Ended

\* The archive is verified.
LEMMA VerifyKeeps == ASSUME IInv, NEW p \in Importers, Verify(p) PROVE IInv'
<1> DEFINE next == importer'[p]
<1>1. importer[p].phase \in Phases \ Ended /\ ~At(p, "waiting")
  BY DEF Verify, At, Phases, Ended
<1>2. importer[p] \in Importer /\ Item(p) \in Items /\ Item(p).bundle \in Bundles /\ Knows(p)
  BY <1>1, Started DEF IInv
<1>3. /\ next \in Importer
      /\ importer' = [importer EXCEPT ![p] = next]
      /\ next.item = importer[p].item
      /\ next.accepted = importer[p].accepted /\ next.run = importer[p].run
      /\ next.ownKey = importer[p].ownKey
      /\ next.phase \in {"failed", "findVersion", "rejected"}
      /\ next.phase = "findVersion" => next.accepted
      /\ next.phase = "rejected" => ~next.accepted
  BY <1>2 DEF IInv, TypeOK, Verify, Go, At, Importer, Phases, Ended
<1>4. importer'[p] = next /\ UNCHANGED <<archive, rows>>
  BY <1>3 DEF IInv, TypeOK, Verify
<1>5. KnowsOwn(p)'
  BY <1>1, <1>2, <1>3, <1>4 DEF Knows, KnowsOwn, At, Phases, Ended, rows
<1>6. KnowsArchive(p)'
  BY <1>1, <1>2, <1>3, <1>4 DEF Knows, KnowsArchive, Complete, Item, Verify, At, Phases, Ended, archive
<1>7. KnowsRows(p)'
  BY <1>1, <1>2, <1>3, <1>4 DEF Knows, KnowsRows, Item, Verify, At, Phases, Ended, rows, OfFamily, OfSpot
<1>8. QED
  BY <1>1, <1>3, <1>4, <1>5, <1>6, <1>7, RecordStep DEF Knows, At, Phases, Ended

\* The gate accepts.
LEMMA AcceptKeeps == ASSUME IInv, NEW p \in Importers, Accept(p) PROVE IInv'
<1> DEFINE next == importer'[p]
<1>1. importer[p].phase \in Phases \ Ended /\ ~At(p, "waiting")
  BY DEF Accept, At, Phases, Ended
<1>2. importer[p] \in Importer /\ Item(p) \in Items /\ Item(p).bundle \in Bundles /\ Knows(p)
  BY <1>1, Started DEF IInv
<1>3. /\ next \in Importer
      /\ importer' = [importer EXCEPT ![p] = next]
      /\ next.item = importer[p].item
      /\ next.accepted /\ next.run = importer[p].run /\ next.phase = "template"
  BY <1>2 DEF IInv, TypeOK, Accept, Go, At, Importer, Phases, Ended
<1>4. importer'[p] = next /\ UNCHANGED <<archive, rows>>
  BY <1>3 DEF IInv, TypeOK, Accept
<1>5. KnowsOwn(p)'
  BY <1>1, <1>2, <1>3, <1>4 DEF Knows, KnowsOwn, At, Phases, Ended, rows
<1>6. KnowsArchive(p)'
  BY <1>1, <1>2, <1>3, <1>4 DEF Knows, KnowsArchive, Complete, Item, Accept, At, Phases, Ended, archive
<1>7. KnowsRows(p)'
  BY <1>1, <1>2, <1>3, <1>4, ZenonT(30) DEF Knows, KnowsRows, Item, Accept, At, Phases, Ended, rows, OfFamily, OfSpot
<1>8. QED
  BY <1>1, <1>3, <1>4, <1>5, <1>6, <1>7, RecordStep DEF Knows, At, Phases, Ended

\* The gate rejects.
LEMMA RejectKeeps == ASSUME IInv, NEW p \in Importers, Reject(p) PROVE IInv'
<1> DEFINE next == importer'[p]
<1>1. importer[p].phase \in Phases \ Ended /\ ~At(p, "waiting")
  BY DEF Reject, At, Phases, Ended
<1>2. importer[p] \in Importer /\ Item(p) \in Items /\ Item(p).bundle \in Bundles /\ Knows(p)
  BY <1>1, Started DEF IInv
<1>3. /\ next \in Importer
      /\ importer' = [importer EXCEPT ![p] = next]
      /\ next.item = importer[p].item
      /\ next.accepted = importer[p].accepted /\ next.run = importer[p].run
      /\ next.phase = "findMetadata"
  BY <1>2 DEF IInv, TypeOK, Reject, Go, At, Importer, Phases, Ended
<1>4. importer'[p] = next /\ UNCHANGED <<archive, rows>>
  BY <1>3 DEF IInv, TypeOK, Reject
<1>5. KnowsOwn(p)'
  BY <1>1, <1>2, <1>3, <1>4 DEF Knows, KnowsOwn, At, Phases, Ended, rows
<1>6. KnowsArchive(p)'
  BY <1>1, <1>2, <1>3, <1>4 DEF Knows, KnowsArchive, Complete, Item, Reject, At, Phases, Ended, archive
<1>7. KnowsRows(p)'
  BY <1>1, <1>2, <1>3, <1>4 DEF Knows, KnowsRows, Item, Reject, At, Phases, Ended, rows, OfFamily, OfSpot
<1>8. QED
  BY <1>1, <1>3, <1>4, <1>5, <1>6, <1>7, RecordStep DEF Knows, At, Phases, Ended

\* A template number is chosen.
LEMMA LatestTemplateKeeps == ASSUME IInv, NEW p \in Importers, LatestTemplate(p) PROVE IInv'
<1> DEFINE next == importer'[p]
<1>1. importer[p].phase \in Phases \ Ended /\ ~At(p, "waiting")
  BY DEF LatestTemplate, At, Phases, Ended
<1>2. importer[p] \in Importer /\ Item(p) \in Items /\ Item(p).bundle \in Bundles /\ Knows(p)
  BY <1>1, Started DEF IInv
<1>3. /\ next \in Importer
      /\ importer' = [importer EXCEPT ![p] = next]
      /\ next.item = importer[p].item
      /\ next.accepted = importer[p].accepted /\ next.run = importer[p].run
      /\ next.ownKey = importer[p].ownKey /\ next.phase = "insertTemplate"
      /\ next.number # 0 /\ Precedes(next.number, OfFamily(Item(p).family))
  <2>1. PICK n \in {1} \cup {row.number + 1 : row \in templates} :
            /\ NextNumber(n, OfFamily(Item(p).family))
            /\ importer' = [importer EXCEPT ![p].phase = "insertTemplate", ![p].number = n]
    BY DEF LatestTemplate
  <2>2. \A row \in templates : row.number \in Nat \ {0}
    BY DEF IInv, TypeOK, Template
  <2>3. n \in Nat \ {0}
    BY <2>2
  <2>4. Precedes(n, OfFamily(Item(p).family))
    BY <2>1 DEF NextNumber, Precedes
  <2>5. next = [importer[p] EXCEPT !.phase = "insertTemplate", !.number = n]
    BY <2>1 DEF IInv, TypeOK
  <2>6. QED
    BY <1>2, <2>1, <2>3, <2>4, <2>5 DEF IInv, TypeOK, Importer, Phases, Ended
<1>4. importer'[p] = next /\ UNCHANGED <<archive, rows>>
  BY <1>3 DEF IInv, TypeOK, LatestTemplate
<1>5. KnowsOwn(p)'
  BY <1>1, <1>2, <1>3, <1>4 DEF Knows, KnowsOwn, At, Phases, Ended, rows
<1>6. KnowsArchive(p)'
  BY <1>1, <1>2, <1>3, <1>4 DEF Knows, KnowsArchive, Complete, Item, LatestTemplate, At, Phases, Ended, archive
<1>7. KnowsRows(p)'
  <2>1. At(p, "template") /\ UNCHANGED <<templates, job, runs, versions>> /\ Item(p)' = Item(p)
    BY <1>3 DEF LatestTemplate, rows, Item
  <2>2. Precedes(importer[p].number, OfFamily(Item(p).family))'
    BY <1>3, <2>1 DEF Precedes, OfFamily
  <2>3. QED
    BY <1>1, <1>2, <1>3, <2>1, <2>2 DEF Knows, KnowsRows, At, Item
<1>8. QED
  BY <1>1, <1>3, <1>4, <1>5, <1>6, <1>7, RecordStep DEF Knows, At, Phases, Ended

\* A run of the same source is looked for and compared.
LEMMA FindRunKeeps == ASSUME IInv, NEW p \in Importers, FindRun(p) PROVE IInv'
<1> DEFINE next == importer'[p]
<1>1. importer[p].phase \in Phases \ Ended /\ ~At(p, "waiting")
  BY DEF FindRun, At, Phases, Ended
<1>2. importer[p] \in Importer /\ Item(p) \in Items /\ Item(p).bundle \in Bundles /\ Knows(p)
  BY <1>1, Started DEF IInv
<1>3. /\ next \in Importer
      /\ importer' = [importer EXCEPT ![p] = next]
      /\ next.item = importer[p].item
      /\ next.accepted = importer[p].accepted /\ next.ownKey = importer[p].ownKey
      /\ next.phase \in {"number", "failed"}
      /\ next.run # None /\ next.run # importer[p].run => \E r \in runs :
             r.by = next.run /\ r.item.source = Item(p).source /\ r.item.native = Item(p).native
  BY <1>2 DEF IInv, TypeOK, FindRun, Go, At, Importer, Phases, Ended
<1>4. importer'[p] = next /\ UNCHANGED <<archive, rows>>
  BY <1>3 DEF IInv, TypeOK, FindRun
<1>5. KnowsOwn(p)'
  BY <1>1, <1>2, <1>3, <1>4 DEF Knows, KnowsOwn, At, Phases, Ended, rows
<1>6. KnowsArchive(p)'
  BY <1>1, <1>2, <1>3, <1>4 DEF Knows, KnowsArchive, Complete, Item, FindRun, At, Phases, Ended, archive
<1>7. KnowsRows(p)'
  BY <1>1, <1>2, <1>3, <1>4 DEF Knows, KnowsRows, Item, FindRun, At, Phases, Ended, rows, OfFamily, OfSpot
<1>8. QED
  BY <1>1, <1>3, <1>4, <1>5, <1>6, <1>7, RecordStep DEF Knows, At, Phases, Ended

\* A version number is chosen.
LEMMA LatestVersionKeeps == ASSUME IInv, NEW p \in Importers, LatestVersion(p) PROVE IInv'
<1> DEFINE next == importer'[p]
<1>1. importer[p].phase \in Phases \ Ended /\ ~At(p, "waiting")
  BY DEF LatestVersion, At, Phases, Ended
<1>2. importer[p] \in Importer /\ Item(p) \in Items /\ Item(p).bundle \in Bundles /\ Knows(p)
  BY <1>1, Started DEF IInv
<1>3. /\ next \in Importer
      /\ importer' = [importer EXCEPT ![p] = next]
      /\ next.item = importer[p].item
      /\ next.accepted = importer[p].accepted /\ next.run = importer[p].run
      /\ next.ownKey = importer[p].ownKey /\ next.phase = "insert"
      /\ next.number # 0 /\ Precedes(next.number, OfSpot(Item(p).spot))
  <2>1. PICK n \in {1} \cup {row.number + 1 : row \in versions} :
            /\ NextNumber(n, OfSpot(Item(p).spot))
            /\ importer' = [importer EXCEPT ![p].phase = "insert", ![p].number = n]
    BY DEF LatestVersion
  <2>2. \A row \in versions : row.number \in Nat \ {0}
    BY DEF IInv, TypeOK, Version
  <2>3. n \in Nat \ {0}
    BY <2>2
  <2>4. Precedes(n, OfSpot(Item(p).spot))
    BY <2>1 DEF NextNumber, Precedes
  <2>5. next = [importer[p] EXCEPT !.phase = "insert", !.number = n]
    BY <2>1 DEF IInv, TypeOK
  <2>6. QED
    BY <1>2, <2>1, <2>3, <2>4, <2>5 DEF IInv, TypeOK, Importer, Phases, Ended
<1>4. importer'[p] = next /\ UNCHANGED <<archive, rows>>
  BY <1>3 DEF IInv, TypeOK, LatestVersion
<1>5. KnowsOwn(p)'
  BY <1>1, <1>2, <1>3, <1>4 DEF Knows, KnowsOwn, At, Phases, Ended, rows
<1>6. KnowsArchive(p)'
  BY <1>1, <1>2, <1>3, <1>4 DEF Knows, KnowsArchive, Complete, Item, LatestVersion, At, Phases, Ended, archive
<1>7. KnowsRows(p)'
  <2>1. At(p, "number") /\ UNCHANGED <<templates, job, runs, versions>> /\ Item(p)' = Item(p)
    BY <1>3 DEF LatestVersion, rows, Item
  <2>2. Precedes(importer[p].number, OfSpot(Item(p).spot))'
    BY <1>3, <2>1 DEF Precedes, OfSpot
  <2>3. QED
    BY <1>1, <1>2, <1>3, <2>1, <2>2 DEF Knows, KnowsRows, At, Item
<1>8. QED
  BY <1>1, <1>3, <1>4, <1>5, <1>6, <1>7, RecordStep DEF Knows, At, Phases, Ended

\* An insert breaks a unique index.
LEMMA UniqueViolationKeeps == ASSUME IInv, NEW p \in Importers, UniqueViolation(p) PROVE IInv'
<1> DEFINE next == importer'[p]
<1>1. importer[p].phase \in Phases \ Ended /\ ~At(p, "waiting")
  BY DEF UniqueViolation, At, Phases, Ended
<1>2. importer[p] \in Importer /\ Item(p) \in Items /\ Item(p).bundle \in Bundles /\ Knows(p)
  BY <1>1, Started DEF IInv
<1>3. /\ next \in Importer
      /\ importer' = [importer EXCEPT ![p] = next]
      /\ next.item = importer[p].item
      /\ next.accepted = importer[p].accepted /\ next.run = importer[p].run
      /\ next.phase = "failed"
  BY <1>2 DEF IInv, TypeOK, UniqueViolation, Go, At, Importer, Phases, Ended
<1>4. importer'[p] = next /\ UNCHANGED <<archive, rows>>
  BY <1>3 DEF IInv, TypeOK, UniqueViolation
<1>5. KnowsOwn(p)'
  BY <1>1, <1>2, <1>3, <1>4 DEF Knows, KnowsOwn, At, Phases, Ended, rows
<1>6. KnowsArchive(p)'
  BY <1>1, <1>2, <1>3, <1>4 DEF Knows, KnowsArchive, Complete, Item, UniqueViolation, At, Phases, Ended, archive
<1>7. KnowsRows(p)'
  BY <1>1, <1>2, <1>3, <1>4 DEF Knows, KnowsRows, Item, UniqueViolation, At, Phases, Ended, rows, OfFamily, OfSpot
<1>8. QED
  BY <1>1, <1>3, <1>4, <1>5, <1>6, <1>7, RecordStep DEF Knows, At, Phases, Ended

\* The importer dies.
LEMMA DieKeeps == ASSUME IInv, NEW p \in Importers, Die(p) PROVE IInv'
<1> DEFINE next == importer'[p]
<1>1. importer[p].phase \in Phases \ Ended /\ ~At(p, "waiting")
  BY DEF Die, At, Phases, Ended
<1>2. importer[p] \in Importer /\ Item(p) \in Items /\ Item(p).bundle \in Bundles /\ Knows(p)
  BY <1>1, Started DEF IInv
<1>3. /\ next \in Importer
      /\ importer' = [importer EXCEPT ![p] = next]
      /\ next.item = importer[p].item
      /\ next.accepted = importer[p].accepted /\ next.run = importer[p].run
      /\ next.phase = "dead"
  BY <1>2 DEF IInv, TypeOK, Die, Go, At, Importer, Phases, Ended
<1>4. importer'[p] = next /\ UNCHANGED <<archive, rows>>
  BY <1>3 DEF IInv, TypeOK, Die
<1>5. KnowsOwn(p)'
  BY <1>1, <1>2, <1>3, <1>4 DEF Knows, KnowsOwn, At, Phases, Ended, rows
<1>6. KnowsArchive(p)'
  BY <1>1, <1>2, <1>3, <1>4 DEF Knows, KnowsArchive, Complete, Item, Die, At, Phases, Ended, archive
<1>7. KnowsRows(p)'
  BY <1>1, <1>2, <1>3, <1>4 DEF Knows, KnowsRows, Item, Die, At, Phases, Ended, rows, OfFamily, OfSpot
<1>8. QED
  BY <1>1, <1>3, <1>4, <1>5, <1>6, <1>7, RecordStep DEF Knows, At, Phases, Ended

\* The metadata is renamed to metadata.json.
LEMMA RenameKeeps == ASSUME IInv, NEW p \in Importers, Rename(p) PROVE IInv'
<1>1. importer[p].phase \in Phases \ Ended /\ ~At(p, "waiting")
  BY DEF Rename, At, Phases, Ended
<1>2. importer[p] \in Importer /\ Item(p) \in Items /\ Item(p).bundle \in Bundles /\ Knows(p)
  BY <1>1, Started DEF IInv
<1>3. /\ importer'[p] \in Importer /\ importer'[p].phase = "verify"
      /\ importer'[p].item = importer[p].item /\ importer'[p].accepted = importer[p].accepted
      /\ importer'[p].ownKey = importer[p].ownKey /\ importer'[p].run = importer[p].run
      /\ \A q \in Importers \ {p} : importer'[q] = importer[q]
  BY <1>1, GoIs DEF IInv, Rename, Phases
<1>4. TypeOK'
  BY <1>1, <1>2, GoIs DEF IInv, TypeOK, Rename, rows, Phases
<1>5. Growth(p) /\ Quiet /\ job' = job /\ files' = files
  BY <1>2, <1>3, ImportAssumption DEF IInv, TypeOK, Growth, Quiet, Rename, rows
<1>6. KnowsOwn(p)'
  BY <1>1, <1>2, <1>3, <1>5 DEF Knows, KnowsOwn, At, Quiet, Phases, Ended
<1>7. KnowsArchive(p)'
  BY <1>1, <1>2, <1>3, <1>5, ImportAssumption
  DEF IInv, TypeOK, Knows, KnowsArchive, Complete, Item, Rename, At, Phases, Ended
<1>8. KnowsRows(p)'
  BY <1>1, <1>2, <1>3, <1>5 DEF Knows, KnowsRows, Item, Rename, At, Quiet
<1>9. QED
  BY <1>3, <1>4, <1>5, <1>6, <1>7, <1>8, QuietStep DEF Knows

\* The metadata is renamed to a name of its own.
LEMMA RenameOwnKeeps == ASSUME IInv, NEW p \in Importers, RenameOwn(p) PROVE IInv'
<1>1. importer[p].phase \in Phases \ Ended /\ ~At(p, "waiting")
  BY DEF RenameOwn, At, Phases, Ended
<1>2. importer[p] \in Importer /\ Item(p) \in Items /\ Item(p).bundle \in Bundles /\ Knows(p)
  BY <1>1, Started DEF IInv
<1>3. /\ importer'[p] \in Importer /\ importer'[p].phase = "verify"
      /\ importer'[p].item = importer[p].item /\ importer'[p].accepted = importer[p].accepted
      /\ importer'[p].ownKey = importer[p].ownKey /\ importer'[p].run = importer[p].run
      /\ \A q \in Importers \ {p} : importer'[q] = importer[q]
  BY <1>1, GoIs DEF IInv, RenameOwn, Phases
<1>4. TypeOK'
  BY <1>1, <1>2, GoIs DEF IInv, TypeOK, RenameOwn, rows, Phases
<1>5. Growth(p) /\ Quiet /\ job' = job /\ files' = files
  BY <1>2, <1>3, ImportAssumption DEF IInv, TypeOK, Growth, Quiet, RenameOwn, rows
<1>6. KnowsOwn(p)'
  BY <1>1, <1>2, <1>3, <1>5 DEF Knows, KnowsOwn, At, Quiet, Phases, Ended
<1>7. KnowsArchive(p)'
  BY <1>1, <1>2, <1>3, <1>5, ImportAssumption
  DEF IInv, TypeOK, Knows, KnowsArchive, Complete, Item, RenameOwn, At, Phases, Ended
<1>8. KnowsRows(p)'
  BY <1>1, <1>2, <1>3, <1>5 DEF Knows, KnowsRows, Item, RenameOwn, At, Quiet
<1>9. QED
  BY <1>3, <1>4, <1>5, <1>6, <1>7, <1>8, QuietStep DEF Knows

\* A version of the same id ends the import, or a run is looked for.
LEMMA FindVersionKeeps == ASSUME IInv, NEW p \in Importers, FindVersion(p) PROVE IInv'
<1>1. importer[p].phase \in Phases \ Ended /\ ~At(p, "waiting")
  BY DEF FindVersion, At, Phases, Ended
<1>2. importer[p] \in Importer /\ Item(p) \in Items /\ Item(p).bundle \in Bundles /\ Knows(p)
  BY <1>1, Started DEF IInv
<1>3. PICK phase \in {"findRun", "failed", "done"} :
          /\ Go(p, phase)
          /\ phase # "done" => job' = job
          /\ phase = "done" =>
                 /\ job' = [job EXCEPT ![p] = [status |-> "SUCCEEDED", run |-> None]]
                 /\ \E v \in versions : v.item.version = Item(p).version /\ v.item.content = Item(p).content
  <2>1. CASE Go(p, "findRun") /\ UNCHANGED job
    BY <2>1
  <2>2. CASE Go(p, "failed") /\ UNCHANGED job
    BY <2>2
  <2>3. CASE Succeed(p, None) /\ \E v \in versions : v.item.version = Item(p).version /\ v.item.content = Item(p).content
    BY <2>3 DEF Succeed
  <2>4. QED
    BY <2>1, <2>2, <2>3 DEF FindVersion
<1>4. /\ importer' \in [Importers -> Importer \cup {Waiting}]
      /\ importer'[p] \in Importer /\ importer'[p].phase = phase
      /\ importer'[p].item = importer[p].item /\ importer'[p].accepted = importer[p].accepted
      /\ importer'[p].ownKey = importer[p].ownKey /\ importer'[p].run = importer[p].run
      /\ \A q \in Importers \ {p} : importer'[q] = importer[q]
  BY <1>1, <1>3, GoIs DEF IInv, Phases, Ended
<1>5. /\ job' \in [Importers -> Job] /\ \A q \in Importers \ {p} : job'[q] = job[q]
      /\ job'[p] # job[p] => phase = "done" /\ job'[p].run = None
  BY <1>3 DEF IInv, TypeOK, Job
<1>6. /\ job[p].run = None /\ job'[p].run = job[p].run
      /\ phase = "done" => job'[p].status = "SUCCEEDED"
  BY <1>1, <1>2, <1>3, <1>5 DEF IInv, TypeOK, Knows, KnowsOwn, At, Ended
<1>7. /\ UNCHANGED <<files, metadata, versioned>> /\ Quiet
      /\ KnowsOwn(p) /\ KnowsArchive(p) /\ KnowsRows(p) /\ At(p, "findVersion")
  BY <1>1, <1>2 DEF FindVersion, archive, Quiet, Knows
<1>8. TypeOK' /\ Growth(p)
  BY <1>4, <1>5, <1>7 DEF IInv, TypeOK, Growth, Quiet
<1>9. KnowsOwn(p)'
  BY <1>4, <1>6, <1>7 DEF KnowsOwn, At, Quiet
<1>10. KnowsArchive(p)'
  BY <1>4, <1>7 DEF KnowsArchive, Complete, Item, At, Phases, Ended
<1>11. KnowsRows(p)'
  BY <1>3, <1>4, <1>5, <1>6, <1>7 DEF KnowsRows, Item, At, Quiet
<1>12. QED
  BY <1>6, <1>7, <1>8, <1>9, <1>10, <1>11, QuietStep DEF Knows

\* The job is created.
LEMMA CreateJobKeeps == ASSUME IInv, NEW p \in Importers, CreateJob(p) PROVE IInv'
<1>1. importer[p].phase \in Phases \ Ended /\ ~At(p, "waiting")
  BY DEF CreateJob, At, Phases, Ended
<1>2. importer[p] \in Importer /\ Item(p) \in Items /\ Item(p).bundle \in Bundles /\ Knows(p)
  BY <1>1, Started DEF IInv
<1>3. /\ importer' \in [Importers -> Importer \cup {Waiting}]
      /\ importer'[p] \in Importer /\ importer'[p].phase = "findMetadata"
      /\ importer'[p].item = importer[p].item /\ importer'[p].accepted = importer[p].accepted
      /\ importer'[p].ownKey = importer[p].ownKey /\ importer'[p].run = importer[p].run
      /\ \A q \in Importers \ {p} : importer'[q] = importer[q]
  BY <1>1, GoIs DEF IInv, CreateJob, Phases
<1>4. job' \in [Importers -> Job] /\ job'[p].run = job[p].run /\ \A q \in Importers \ {p} : job'[q] = job[q]
  BY DEF IInv, TypeOK, CreateJob, Job
<1>5. /\ UNCHANGED <<files, metadata, versioned>> /\ Quiet
      /\ KnowsOwn(p) /\ KnowsArchive(p) /\ KnowsRows(p) /\ At(p, "job")
  BY <1>1, <1>2 DEF CreateJob, archive, Quiet, Knows
<1>6. TypeOK' /\ Growth(p)
  BY <1>3, <1>4, <1>5 DEF IInv, TypeOK, Growth, Quiet
<1>7. KnowsOwn(p)' /\ KnowsArchive(p)'
  BY <1>3, <1>4, <1>5 DEF KnowsOwn, KnowsArchive, Complete, Item, At, Quiet, Phases, Ended
<1>8. KnowsRows(p)'
  BY <1>3, <1>4, <1>5 DEF KnowsRows, Item, At, Quiet
<1>9. QED
  BY <1>3, <1>4, <1>5, <1>6, <1>7, <1>8, QuietStep DEF Knows

-----------------------------------------------------------------------------
\* A row with the number that follows leaves a set of rows densely numbered.
LEMMA NumberedAdd ==
    ASSUME NEW set, Numbered(set), NEW row, Precedes(row.number, set),
           \A other \in set : other.number # row.number
    PROVE  Numbered(set \cup {row})
BY DEF Numbered, Precedes

\* The template is created, or its number is taken.
LEMMA CreateTemplateKeeps == ASSUME IInv, NEW p \in Importers, CreateTemplate(p) PROVE IInv'
<1>1. importer[p].phase \in Phases \ Ended /\ ~At(p, "waiting")
  BY DEF CreateTemplate, At, Phases, Ended
<1>2. importer[p] \in Importer /\ Item(p) \in Items /\ Item(p).bundle \in Bundles /\ Knows(p)
  BY <1>1, Started DEF IInv
<1>3. PICK phase \in {"failed", "job"} : Go(p, phase)
  BY DEF CreateTemplate
<1>4. /\ importer' \in [Importers -> Importer \cup {Waiting}]
      /\ importer'[p] \in Importer /\ importer'[p].phase = phase
      /\ importer'[p].item = importer[p].item /\ importer'[p].accepted = importer[p].accepted
      /\ importer'[p].ownKey = importer[p].ownKey /\ importer'[p].run = importer[p].run
      /\ \A q \in Importers \ {p} : importer'[q] = importer[q]
  BY <1>1, <1>3, GoIs DEF IInv, Phases, Ended
<1>5. /\ UNCHANGED <<files, metadata, versioned, job, runs, versions>>
      /\ KnowsOwn(p) /\ KnowsArchive(p) /\ KnowsRows(p) /\ At(p, "insertTemplate")
  BY <1>1, <1>2 DEF CreateTemplate, archive, Knows
<1>6. CASE templates' = templates
  <2>1. TypeOK' /\ Growth(p) /\ Quiet
    BY <1>4, <1>5, <1>6 DEF IInv, TypeOK, Growth, Quiet
  <2>2. KnowsOwn(p)' /\ KnowsArchive(p)'
    BY <1>4, <1>5, <1>6 DEF KnowsOwn, KnowsArchive, Complete, Item, At, Phases, Ended
  <2>3. KnowsRows(p)'
    BY <1>4, <1>5, <1>6 DEF KnowsRows, Item, At
  <2>4. QED
    BY <1>5, <2>1, <2>2, <2>3, QuietStep DEF Knows
<1>7. CASE templates' # templates
  <2> DEFINE row == [by |-> p, family |-> Item(p).family, number |-> importer[p].number]
  <2>1. templates' = templates \cup {row} /\ ~TemplateTaken(p)
    BY <1>7 DEF CreateTemplate
  <2>2. row \in Template
    BY <1>2, <1>5 DEF Template, Importer, KnowsRows, At
  <2>3. TypeOK' /\ Growth(p)
    BY <1>4, <1>5, <2>1, <2>2 DEF IInv, TypeOK, Growth
  <2>4. importer[p].accepted
    BY <1>5 DEF KnowsRows, At
  <2>5. KnowsOwn(p)' /\ KnowsArchive(p)'
    BY <1>4, <1>5 DEF KnowsOwn, KnowsArchive, Complete, Item, At, Phases, Ended
  <2>6. KnowsRows(p)'
    BY <1>4, <1>5, <2>4 DEF KnowsRows, Item, At
  <2>7. NumbersDense'
    <3>1. Numbered(OfFamily(row.family) \cup {row})
      <4>1. Numbered(OfFamily(row.family))
        BY <1>2 DEF IInv, NumbersDense
      <4>2. Precedes(row.number, OfFamily(row.family))
        BY <1>5 DEF KnowsRows, At
      <4>3. \A other \in OfFamily(row.family) : other.number # row.number
        BY <2>1 DEF TemplateTaken
      <4>4. QED
        BY <4>1, <4>2, <4>3, NumberedAdd
    <3>2. \A i \in Items : OfFamily(i.family)' =
              IF i.family = row.family THEN OfFamily(row.family) \cup {row} ELSE OfFamily(i.family)
      BY <2>1 DEF OfFamily
    <3>3. \A i \in Items : Numbered(OfFamily(i.family)')
      BY <3>1, <3>2 DEF IInv, NumbersDense
    <3>4. \A i \in Items : OfSpot(i.spot)' = OfSpot(i.spot)
      BY <1>5 DEF OfSpot
    <3>5. QED
      BY <3>3, <3>4 DEF IInv, NumbersDense, Numbered
  <2>8. ArchivedBeforeStored' /\ BackedByItsRun' /\ RunsOwned'
    BY <1>5 DEF IInv, ArchivedBeforeStored, BackedByItsRun, RunsOwned
  <2>9. QED
    BY <2>3, <2>5, <2>6, <2>7, <2>8, OthersKnow DEF IInv, Knows
<1>8. QED
  BY <1>6, <1>7

\* The transaction commits: a version, its run if there was none, and the job.
LEMMA CommitKeeps == ASSUME IInv, NEW p \in Importers, Commit(p) PROVE IInv'
<1>1. importer[p].phase \in Phases \ Ended /\ ~At(p, "waiting")
  BY DEF Commit, At, Phases, Ended
<1>2. importer[p] \in Importer /\ Item(p) \in Items /\ Item(p).bundle \in Bundles /\ Knows(p)
  BY <1>1, Started DEF IInv
<1> DEFINE new == [by |-> p, item |-> Item(p), ownKey |-> importer[p].ownKey]
           row == [item |-> Item(p), number |-> importer[p].number, run |-> RunOf(p)]
<1>3. /\ importer' \in [Importers -> Importer \cup {Waiting}]
      /\ importer'[p] \in Importer /\ importer'[p].phase = "done"
      /\ importer'[p].item = importer[p].item /\ importer'[p].accepted = importer[p].accepted
      /\ importer'[p].ownKey = importer[p].ownKey /\ importer'[p].run = importer[p].run
      /\ \A q \in Importers \ {p} : importer'[q] = importer[q]
  BY <1>1, GoIs DEF IInv, Commit, Succeed, Phases, Ended
<1>4. /\ UNCHANGED <<files, metadata, versioned, templates>>
      /\ KnowsOwn(p) /\ KnowsArchive(p) /\ KnowsRows(p) /\ At(p, "insert")
  BY <1>1, <1>2 DEF Commit, archive, Knows
<1>5. /\ importer[p].accepted /\ importer[p].number \in Nat \ {0} /\ Complete(p)
      /\ metadata[Item(p).bundle] # None
      /\ importer[p].ownKey => p \in versioned[Item(p).bundle]
      /\ job[p].run = None /\ \A r \in runs : r.by # p
      /\ Precedes(row.number, OfSpot(Item(p).spot))
  BY <1>2, <1>4 DEF KnowsRows, KnowsArchive, KnowsOwn, At, Phases, Ended, Importer
<1>6. /\ job' \in [Importers -> Job]
      /\ job'[p].status = "SUCCEEDED" /\ job'[p].run = OwnRun(p)
      /\ \A q \in Importers \ {p} : job'[q] = job[q]
  BY <1>2 DEF IInv, TypeOK, Commit, Succeed, Job, OwnRun, NewRun
<1>7. /\ runs' = IF NewRun(p) THEN runs \cup {new} ELSE runs
      /\ versions' = versions \cup {row} /\ ~Collides(p)
  BY DEF Commit
<1>8. new \in Run /\ row \in Version
  BY <1>2, <1>5 DEF Run, Version, Importer, RunOf, NewRun
<1>9. TypeOK' /\ Growth(p)
  <2>1. TypeOK'
    BY <1>3, <1>4, <1>6, <1>7, <1>8 DEF IInv, TypeOK
  <2>2. Growth(p)
    BY <1>3, <1>4, <1>6, <1>7 DEF Growth
  <2>3. QED
    BY <2>1, <2>2
<1>10. KnowsOwn(p)'
  <2>1. job'[p].run # None => job'[p].run = p /\ new \in runs' /\ new.by = p
    BY <1>6, <1>7 DEF OwnRun
  <2>2. importer'[p].phase = "done"
    BY <1>3
  <2>3. QED
    BY <2>1, <2>2 DEF KnowsOwn, At
<1>11. KnowsArchive(p)'
  BY <1>3, <1>4, <1>5 DEF KnowsArchive, Complete, Item, At, Phases, Ended
<1>12. KnowsRows(p)'
  <2>1. row \in versions' /\ row.item = Item(p) /\ Item(p)' = Item(p)
    BY <1>3, <1>7 DEF Item
  <2>2. \E v \in versions' : v.item.version = Item(p).version /\ v.item.content = Item(p).content
    BY <2>1
  <2>3. runs \subseteq runs'
    BY <1>7
  <2>4. QED
    BY <1>3, <1>4, <1>5, <1>6, <2>1, <2>2, <2>3 DEF KnowsRows, At
<1>13. NumbersDense'
  <2>1. Numbered(OfSpot(Item(p).spot) \cup {row})
    BY <1>2, <1>5, <1>7, NumberedAdd DEF IInv, NumbersDense, Collides
  <2>2. \A i \in Items : OfSpot(i.spot)' =
            IF i.spot = Item(p).spot THEN OfSpot(Item(p).spot) \cup {row} ELSE OfSpot(i.spot)
    BY <1>7 DEF OfSpot
  <2>3. \A i \in Items : Numbered(OfSpot(i.spot)')
    BY <2>1, <2>2 DEF IInv, NumbersDense
  <2>4. \A i \in Items : OfFamily(i.family)' = OfFamily(i.family)
    BY <1>4 DEF OfFamily
  <2>5. QED
    BY <2>3, <2>4 DEF IInv, NumbersDense, Numbered
<1>14. ArchivedBeforeStored'
  BY <1>4, <1>5, <1>7 DEF IInv, ArchivedBeforeStored, Complete
<1>15. BackedByItsRun'
  <2>1. \E r \in runs' : r.by = row.run /\ r.item.source = row.item.source /\ r.item.native = row.item.native
    <3>1. CASE NewRun(p)
      <4>1. new \in runs'
        BY <1>7, <3>1
      <4>2. new.by = p /\ new.item = Item(p) /\ row.run = p /\ row.item = Item(p)
        BY <3>1 DEF RunOf
      <4>3. QED
        BY <4>1, <4>2
    <3>2. CASE ~NewRun(p)
      BY <1>4, <1>7, <3>2 DEF KnowsRows, RunOf, NewRun
    <3>3. QED
      BY <3>1, <3>2
  <2>2. \A r, s \in runs' : r.item.source = s.item.source => r = s
    BY <1>7 DEF IInv, BackedByItsRun, Collides
  <2>3. \A v \in versions : \E r \in runs' :
            r.by = v.run /\ r.item.source = v.item.source /\ r.item.native = v.item.native
    BY <1>7 DEF IInv, BackedByItsRun
  <2>4. QED
    BY <1>7, <2>1, <2>2, <2>3 DEF BackedByItsRun
<1>16. RunsOwned'
  BY <1>5, <1>6, <1>7 DEF IInv, TypeOK, Run, RunsOwned, OwnRun, NewRun
<1>17. QED
  BY <1>9, <1>3, <1>10, <1>11, <1>12, <1>13, <1>14, <1>15, <1>16, OthersKnow DEF IInv, Knows

-----------------------------------------------------------------------------
LEMMA InitHolds == Init => IInv
<1> SUFFICES ASSUME Init PROVE IInv
  OBVIOUS
<1>1. TypeOK
  BY DEF Init, TypeOK, Job
<1>2. ArchivedBeforeStored /\ BackedByItsRun /\ RunsOwned
  BY DEF Init, ArchivedBeforeStored, BackedByItsRun, RunsOwned
<1>3. NumbersDense
  BY DEF Init, NumbersDense, Numbered, OfFamily, OfSpot
<1>4. \A p \in Importers : Knows(p)
  BY DEF Init, Knows, KnowsOwn, At, Waiting
<1>5. QED
  BY <1>1, <1>2, <1>3, <1>4 DEF IInv

\* One case for each action.
LEMMA NextKeeps == IInv /\ [Next]_vars => IInv'
<1> SUFFICES ASSUME IInv, [Next]_vars PROVE IInv'
  OBVIOUS
<1>1. CASE Next
  <2>1. PICK p \in Importers : Ingest(p)
    BY <1>1 DEF Next
  <2>2. CASE Start(p)
    BY <2>2, StartKeeps
  <2>3. CASE Archive(p)
    BY <2>3, ArchiveFileKeeps, ArchivedKeeps, FindMetadataKeeps, RenameKeeps, RenameOwnKeeps, VerifyKeeps
    DEF Archive
  <2>4. CASE Accept(p) \/ Reject(p)
    BY <2>4, AcceptKeeps, RejectKeeps
  <2>5. CASE LatestTemplate(p) \/ CreateTemplate(p) \/ CreateJob(p)
    BY <2>5, LatestTemplateKeeps, CreateTemplateKeeps, CreateJobKeeps
  <2>6. CASE Persist(p)
    BY <2>6, FindVersionKeeps, FindRunKeeps, LatestVersionKeeps, CommitKeeps, UniqueViolationKeeps
    DEF Persist
  <2>7. CASE Die(p)
    BY <2>7, DieKeeps
  <2>8. QED
    BY <2>1, <2>2, <2>3, <2>4, <2>5, <2>6, <2>7 DEF Ingest
<1>2. CASE UNCHANGED vars
  <2>1. UNCHANGED <<files, metadata, versioned, templates, job, runs, versions, importer>>
    BY <1>2 DEF vars
  <2>2. TypeOK' /\ ArchivedBeforeStored' /\ BackedByItsRun' /\ RunsOwned'
    BY <2>1 DEF IInv, TypeOK, ArchivedBeforeStored, BackedByItsRun, RunsOwned
  <2>3. NumbersDense'
    BY <2>1 DEF IInv, NumbersDense, Numbered, OfFamily, OfSpot
  <2>4. ASSUME NEW p \in Importers PROVE Knows(p)'
    BY <2>1 DEF IInv, Knows, KnowsOwn, KnowsArchive, KnowsRows, Complete, Item, At, Precedes, OfFamily, OfSpot
  <2>5. QED
    BY <2>2, <2>3, <2>4 DEF IInv
<1>3. QED
  BY <1>1, <1>2

LEMMA Inductive == Spec => []IInv
BY InitHolds, NextKeeps, PTL DEF Spec

-----------------------------------------------------------------------------
\* Type correctness of the archive, the tables and the importers.
THEOREM TypeCorrect == Spec => []TypeOK
BY Inductive, PTL DEF IInv

\* No run is stored without its evidence in the archive.
THEOREM ArchivedBeforeStoredHolds == Spec => []ArchivedBeforeStored
BY Inductive, PTL DEF IInv

\* A rejected import has left its files in the archive and no row.
THEOREM RejectedLeavesNoRowsHolds == Spec => []RejectedLeavesNoRows
<1>1. IInv => RejectedLeavesNoRows
  BY DEF IInv, Knows, KnowsArchive, KnowsRows, Complete, RejectedLeavesNoRows, At, Phases, Ended
<1>2. QED
  BY <1>1, Inductive, PTL

\* Template and version numbers have no gap and no repetition.
THEOREM NumbersDenseHolds == Spec => []NumbersDense
BY Inductive, PTL DEF IInv

\* A version is backed by the run of its own solve.
THEOREM BackedByItsRunHolds == Spec => []BackedByItsRun
BY Inductive, PTL DEF IInv

\* An import that reports success has stored what it was asked to.
THEOREM StoredWhenDoneHolds == Spec => []StoredWhenDone
<1>1. IInv => StoredWhenDone
  BY DEF IInv, Knows, KnowsRows, StoredWhenDone, At
<1>2. QED
  BY <1>1, Inductive, PTL

\* A run is the success of the one job that made it.
THEOREM RunOwnedByItsJobHolds == Spec => []RunOwnedByItsJob
<1>1. IInv => RunOwnedByItsJob
  BY DEF IInv, RunsOwned, Knows, KnowsOwn, RunOwnedByItsJob
<1>2. QED
  BY <1>1, Inductive, PTL
=============================================================================
