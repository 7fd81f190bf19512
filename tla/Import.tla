------------------------------- MODULE Import -------------------------------
(***************************************************************************)
(* The import of solved spots: ingestSpot of src/solver/ingest.ts with the *)
(* raw archive of src/solver/archive.ts and the transaction                *)
(* persistValidatedDraft of src/solver/pipeline.ts.  An importer is one    *)
(* run of the command on one item; several may run at a time, each may die *)
(* anywhere, and an item is imported again by another importer.            *)
(*                                                                         *)
(* An item stands for the files and options of a command: the directory of *)
(* the archive its three source files hash to (bundle), its input and      *)
(* output files (native), the solve hash its envelope claims (source), the *)
(* spot, the version id, the payloads (content), and the template family.  *)
(* The quality gate reads nothing but the item, and is either verdict: an  *)
(* item that one build of the importer rejects the next one may accept.    *)
(*                                                                         *)
(* Every importer writes at most one metadata file, which tells its own    *)
(* rows or time of rejection, so the importer's name is its content.  A    *)
(* template, a job and a run are named after the importer that made them.  *)
(***************************************************************************)
EXTENDS Integers

CONSTANTS
    Importers, \* runs of the import command
    Items,     \* what they may be asked to import
    None

SourceFiles == {"input.txt", "output_result.json", "solver.log"}

ASSUME ImportAssumption == None \notin Importers

Bundles == {i.bundle : i \in Items}

VARIABLES
    files,     \* source files present in each directory of the archive
    metadata,  \* what its metadata.json holds
    versioned, \* its metadata-<digest>.json files
    templates, \* SolverTemplate rows
    job,       \* SolverJob rows of the importers
    runs,      \* SolverRun rows of successful imports
    versions,  \* SpotVersion rows; a spot exists as soon as it has one
    importer   \* how far each importer is

archive == <<files, metadata, versioned>>
rows == <<templates, job, runs, versions>>
vars == <<files, metadata, versioned, templates, job, runs, versions, importer>>

Template == [by : Importers, family : {i.family : i \in Items}, number : Nat \ {0}]
Job == [status : {"none", "QUEUED", "SUCCEEDED"}, run : Importers \cup {None}]
Run == [by : Importers, item : Items, ownKey : BOOLEAN]
Version == [item : Items, number : Nat \ {0}, run : Importers]

\* number is the template or version number to be inserted, run the existing
\* run found, ownKey that metadata.json was taken and the importer's metadata
\* has a name of its own.
Ended == {"done", "rejected", "failed", "dead"}
Phases == {"archiving", "gate", "template", "insertTemplate", "job", "findMetadata",
           "rename", "renameOwn", "verify", "findVersion", "findRun", "number", "insert"} \cup Ended
Importer == [phase : Phases, item : Items, accepted : BOOLEAN, ownKey : BOOLEAN,
             number : Nat, run : Importers \cup {None}]
Waiting == [phase |-> "waiting"]

At(p, phase) == importer[p].phase = phase
Item(p) == importer[p].item
Go(p, phase) == importer' = [importer EXCEPT ![p].phase = phase]

Start(p) ==
    /\ At(p, "waiting")
    /\ \E i \in Items :
           importer' = [importer EXCEPT ![p] = [phase |-> "archiving", item |-> i, accepted |-> FALSE,
                                                ownKey |-> FALSE, number |-> 0, run |-> None]]
    /\ UNCHANGED <<archive, rows>>

(***************************************************************************)
(* The archive.  A file is written under a temporary name and renamed, so  *)
(* it is there as a whole or not at all.                                   *)
(***************************************************************************)

\* The next source file that is not there, in any order; one that is there has
\* the same digest, for the digests name the directory, and is left alone.
ArchiveFile(p) ==
    /\ At(p, "archiving")
    /\ \E f \in SourceFiles \ files[Item(p).bundle] :
           files' = [files EXCEPT ![Item(p).bundle] = @ \cup {f}]
    /\ UNCHANGED <<metadata, versioned, rows, importer>>

\* Mutant: the writes are not awaited.
ArchivedNotAwaited(p) == At(p, "archiving") /\ Go(p, "gate") /\ UNCHANGED <<archive, rows>>

Archived(p) ==
    /\ At(p, "archiving")
    /\ files[Item(p).bundle] = SourceFiles
    /\ Go(p, "gate")
    /\ UNCHANGED <<archive, rows>>

\* The second call of archiveRun passes over the source files, which are all
\* there, and looks for metadata.json; one that exists is another importer's.
FindMetadata(p) ==
    /\ At(p, "findMetadata")
    /\ LET taken == metadata[Item(p).bundle] # None IN
       importer' = [importer EXCEPT ![p].phase = IF taken THEN "renameOwn" ELSE "rename",
                                    ![p].ownKey = taken]
    /\ UNCHANGED <<archive, rows>>

\* The rename puts the metadata in place of what is there by now.
Rename(p) ==
    /\ At(p, "rename")
    /\ metadata' = [metadata EXCEPT ![Item(p).bundle] = p]
    /\ Go(p, "verify")
    /\ UNCHANGED <<files, versioned, rows>>

RenameOwn(p) ==
    /\ At(p, "renameOwn")
    /\ versioned' = [versioned EXCEPT ![Item(p).bundle] = @ \cup {p}]
    /\ Go(p, "verify")
    /\ UNCHANGED <<files, metadata, rows>>

HoldsOwn(p) ==
    IF importer[p].ownKey THEN p \in versioned[Item(p).bundle] ELSE metadata[Item(p).bundle] = p

\* A file that is not what was written fails the import; after a rejection the
\* error of the gate is thrown.
Verify(p) ==
    /\ At(p, "verify")
    /\ Go(p, IF ~HoldsOwn(p) THEN "failed"
             ELSE IF importer[p].accepted THEN "findVersion" ELSE "rejected")
    /\ UNCHANGED <<archive, rows>>

(***************************************************************************)
(* The gate, the template and the job.                                     *)
(***************************************************************************)

Accept(p) ==
    /\ At(p, "gate")
    /\ importer' = [importer EXCEPT ![p].phase = "template", ![p].accepted = TRUE]
    /\ UNCHANGED <<archive, rows>>

\* Mutant: the gate runs when the template and the job have been made.
RejectLate(p) ==
    /\ importer[p].phase \in {"gate", "findMetadata"}
    /\ importer' = [importer EXCEPT ![p].phase = "findMetadata", ![p].accepted = FALSE]
    /\ UNCHANGED <<archive, rows>>

Reject(p) ==
    /\ At(p, "gate")
    /\ Go(p, "findMetadata")
    /\ UNCHANGED <<archive, rows>>

\* The number after the latest of a set of numbered rows, 1 if there is none.
NextNumber(n, set) ==
    /\ \A row \in set : row.number < n
    /\ n = 1 \/ \E row \in set : row.number = n - 1

OfFamily(family) == {t \in templates : t.family = family}
OfSpot(spot) == {v \in versions : v.item.spot = spot}

LatestTemplate(p) ==
    /\ At(p, "template")
    /\ \E n \in {1} \cup {t.number + 1 : t \in templates} :
           /\ NextNumber(n, OfFamily(Item(p).family))
           /\ importer' = [importer EXCEPT ![p].phase = "insertTemplate", ![p].number = n]
    /\ UNCHANGED <<archive, rows>>

\* A number taken in the meantime breaks the unique index.
\* Mutant: there is no unique index on family and version.
TemplateNeverTaken(p) == FALSE
TemplateTaken(p) == \E t \in OfFamily(Item(p).family) : t.number = importer[p].number

CreateTemplate(p) ==
    /\ At(p, "insertTemplate")
    /\ \/ TemplateTaken(p) /\ Go(p, "failed") /\ UNCHANGED templates
       \/ /\ ~TemplateTaken(p) /\ Go(p, "job")
          /\ templates' = templates \cup {[by |-> p, family |-> Item(p).family, number |-> importer[p].number]}
    /\ UNCHANGED <<archive, job, runs, versions>>

CreateJob(p) ==
    /\ At(p, "job")
    /\ job' = [job EXCEPT ![p].status = "QUEUED"]
    /\ Go(p, "findMetadata")
    /\ UNCHANGED <<archive, templates, runs, versions>>

(***************************************************************************)
(* persistValidatedDraft: one transaction at READ COMMITTED, whose reads   *)
(* are steps of their own and whose writes are visible when it commits.    *)
(***************************************************************************)

Succeed(p, run) ==
    /\ job' = [job EXCEPT ![p] = [status |-> "SUCCEEDED", run |-> run]]
    /\ Go(p, "done")

\* Mutant: a version that exists is taken for a replay whatever it holds.
FindVersionUnread(p) ==
    /\ At(p, "findVersion")
    /\ IF \E v \in versions : v.item.version = Item(p).version
       THEN Succeed(p, None)
       ELSE Go(p, "findRun") /\ UNCHANGED job
    /\ UNCHANGED <<archive, templates, runs, versions>>

FindVersion(p) ==
    /\ At(p, "findVersion")
    /\ LET found == {v \in versions : v.item.version = Item(p).version} IN
       \/ found = {} /\ Go(p, "findRun") /\ UNCHANGED job
       \/ /\ \E v \in found : v.item.content = Item(p).content
          /\ Succeed(p, None)
       \/ /\ \E v \in found : v.item.content # Item(p).content
          /\ Go(p, "failed") /\ UNCHANGED job
    /\ UNCHANGED <<archive, templates, runs, versions>>

\* Mutant: the input and output of the run found are not compared.
FindRunUnread(p) ==
    /\ At(p, "findRun")
    /\ LET found == {r \in runs : r.item.source = Item(p).source} IN
       \/ found = {} /\ Go(p, "number")
       \/ \E r \in found : importer' = [importer EXCEPT ![p].phase = "number", ![p].run = r.by]
    /\ UNCHANGED <<archive, rows>>

FindRun(p) ==
    /\ At(p, "findRun")
    /\ LET found == {r \in runs : r.item.source = Item(p).source} IN
       \/ found = {} /\ Go(p, "number")
       \/ \E r \in found :
              IF r.item.native = Item(p).native
              THEN importer' = [importer EXCEPT ![p].phase = "number", ![p].run = r.by]
              ELSE Go(p, "failed")
    /\ UNCHANGED <<archive, rows>>

LatestVersion(p) ==
    /\ At(p, "number")
    /\ \E n \in {1} \cup {v.number + 1 : v \in versions} :
           /\ NextNumber(n, OfSpot(Item(p).spot))
           /\ importer' = [importer EXCEPT ![p].phase = "insert", ![p].number = n]
    /\ UNCHANGED <<archive, rows>>

NewRun(p) == importer[p].run = None

\* The unique indexes: the source hash of runs, the ids of versions, and the
\* numbers of a spot's versions.  The id of a new spot is taken only together
\* with its number 1.
Collides(p) ==
    \/ NewRun(p) /\ \E r \in runs : r.item.source = Item(p).source
    \/ \E v \in versions : v.item.version = Item(p).version
    \/ \E v \in OfSpot(Item(p).spot) : v.number = importer[p].number

\* Mutant: the version refers to the run found even where none was.
FoundRun(p) == importer[p].run
RunOf(p) == IF NewRun(p) THEN p ELSE importer[p].run

\* A run found is shared and stays the success of the job that made it.
\* Mutant: the job claims the run it shares.
StolenRun(p) == RunOf(p)
OwnRun(p) == IF NewRun(p) THEN p ELSE None

Commit(p) ==
    /\ At(p, "insert") /\ ~Collides(p)
    /\ runs' = IF NewRun(p)
               THEN runs \cup {[by |-> p, item |-> Item(p), ownKey |-> importer[p].ownKey]}
               ELSE runs
    /\ versions' = versions \cup {[item |-> Item(p), number |-> importer[p].number, run |-> RunOf(p)]}
    /\ Succeed(p, OwnRun(p))
    /\ UNCHANGED <<archive, templates>>

UniqueViolation(p) ==
    /\ At(p, "insert") /\ Collides(p)
    /\ Go(p, "failed")
    /\ UNCHANGED <<archive, rows>>

\* The process dies or loses its database or disk, or the configuration or the
\* payload fails a check that is made after the gate.
Die(p) ==
    /\ importer[p].phase \in Phases \ Ended
    /\ Go(p, "dead")
    /\ UNCHANGED <<archive, rows>>

Init ==
    /\ files = [b \in Bundles |-> {}]
    /\ metadata = [b \in Bundles |-> None]
    /\ versioned = [b \in Bundles |-> {}]
    /\ templates = {}
    /\ job = [p \in Importers |-> [status |-> "none", run |-> None]]
    /\ runs = {}
    /\ versions = {}
    /\ importer = [p \in Importers |-> Waiting]

Persist(p) == FindVersion(p) \/ FindRun(p) \/ LatestVersion(p) \/ Commit(p) \/ UniqueViolation(p)
Archive(p) == ArchiveFile(p) \/ Archived(p) \/ FindMetadata(p) \/ Rename(p) \/ RenameOwn(p) \/ Verify(p)
Ingest(p) ==
    \/ Start(p) \/ Archive(p) \/ Accept(p) \/ Reject(p)
    \/ LatestTemplate(p) \/ CreateTemplate(p) \/ CreateJob(p) \/ Persist(p) \/ Die(p)

Next == \E p \in Importers : Ingest(p)
Spec == Init /\ [][Next]_vars

(***************************************************************************)
(* Properties.                                                             *)
(***************************************************************************)

\* Every row, file and importer has the shape the schema and the code give it.
TypeOK ==
    /\ files \in [Bundles -> SUBSET SourceFiles]
    /\ metadata \in [Bundles -> Importers \cup {None}]
    /\ versioned \in [Bundles -> SUBSET Importers]
    /\ templates \subseteq Template
    /\ job \in [Importers -> Job]
    /\ runs \subseteq Run
    /\ versions \subseteq Version
    /\ importer \in [Importers -> Importer \cup {Waiting}]

\* A run in the database always has its evidence: the three source files and
\* the metadata file its keys name are in the archive, whoever died where.
ArchivedBeforeStored ==
    \A r \in runs :
        /\ files[r.item.bundle] = SourceFiles
        /\ IF r.ownKey THEN r.by \in versioned[r.item.bundle] ELSE metadata[r.item.bundle] # None

\* A rejected solve remains available for diagnosis and leaves no template, job
\* or version of its own (the comment of ingestSpot).
RejectedLeavesNoRows ==
    \A p \in Importers : At(p, "rejected") =>
        /\ files[Item(p).bundle] = SourceFiles
        /\ metadata[Item(p).bundle] # None
        /\ job[p].status = "none"
        /\ \A t \in templates : t.by # p

Numbered(set) ==
    \A row \in set :
        /\ row.number = 1 \/ \E other \in set : other.number = row.number - 1
        /\ \A other \in set : other.number = row.number => other = row

\* Imports that race or die leave no gap and no repetition: the templates of a
\* family and the versions of a spot are numbered 1, 2, 3, ...
NumbersDense ==
    /\ \A i \in Items : Numbered(OfFamily(i.family))
    /\ \A i \in Items : Numbered(OfSpot(i.spot))

\* A version refers to a stored run of the very input and output it was
\* imported with, and no two runs claim one source, however imports interleave.
BackedByItsRun ==
    /\ \A v \in versions : \E r \in runs :
           r.by = v.run /\ r.item.source = v.item.source /\ r.item.native = v.item.native
    /\ \A r, s \in runs : r.item.source = s.item.source => r = s

\* An import that reports success, the first one or a replay, leaves the version
\* it was asked for in the database with the content it was asked for.
StoredWhenDone ==
    \A p \in Importers : At(p, "done") =>
        /\ job[p].status = "SUCCEEDED"
        /\ \E v \in versions : v.item.version = Item(p).version /\ v.item.content = Item(p).content

\* A run is the success of one job, the job that made it; replays and imports
\* that share a run succeed without it.
RunOwnedByItsJob ==
    /\ \A r \in runs : job[r.by].run = r.by
    /\ \A p \in Importers : job[p].run # None => job[p].run = p /\ \E r \in runs : r.by = p
=============================================================================
