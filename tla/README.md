# Formal model of the daily-spots back end

TLA+ modules that model the back end in `src/`, the TLC runs that check them on
small instances, and TLAPS proofs of the properties that matter most, for every
value of the constants. Paths below are relative to the repository; a line
number names the line of the source at this commit. `PROJECT.json` maps every
definition to the lines it stands for and lists runs, mutants, findings, hazards
and theorems.

## 1. The system

A PostgreSQL database is the only shared state. Four kinds of process work on
it through Prisma: the public API (`src/api.ts`), the worker that runs the
scheduled jobs (`src/worker.ts`), host workers that solve poker spots
(`src/solver/host-worker.ts`), and operators, over the loopback admin routes
(`src/admin.ts`) and the authoring scripts (`scripts/*.mjs`). They never call
each other: they interact through rows, through the pg-boss queue, and through
the directory of raw archives.

A solver output is imported as a VALIDATED `SpotVersion` of a `Spot`, approved,
scheduled into a `PublicationSlot` (a Pacific date and an order), and published
with its date. Players fetch the published version and submit attempts, scored
against the private solution. A bad version is replaced or quarantined, and the
attempts made on it are invalidated.

| Component | State it keeps | Operations | What makes it correct | Hard behaviour |
| --- | --- | --- | --- | --- |
| Publication lifecycle (`src/publication.ts`) | `SpotVersion.status`, `Spot.status`, `Spot.currentVersionId`, `PublicationSlot`, `Attempt.validity` | approve, schedule, replace, quarantine, publish a date | a published version has exactly one live slot; a slot is only cancelled with its version; attempts are invalidated with theirs; retired versions stay away | statements of several transactions interleave at READ COMMITTED; status read, asserted, then updated by id |
| Admin routes (`src/admin.ts`) | none of their own | approve, schedule, hold of versions; retry, hold, cancel, reorder of jobs | guards on statuses | hold reads and writes outside a transaction; job routes look at no status |
| Public application service (`src/application/public-api.ts`) | `Attempt` | daily game, range, spot, submit, result, history, statistics | one official attempt per visitor and version, idempotent submissions, only live versions served | racing submissions under Serializable, retries, a version withdrawn between read and insert |
| Scheduled jobs and queue (`src/jobs.ts`, `src/queue.ts`, `src/worker.ts`) | pg-boss queues | publish at midnight, replenish in the evening | each date is published once it begins | failures, retries and downtime; which date a job means |
| Solver job leases (`src/solver/host-worker.ts`, `src/solver/template.ts`) | `SolverJob`, `SolverRun`, `SolverTemplate` | enqueue, claim, heartbeat, complete, fail | one attempt at a time passes the ownership check; no job is stranded | crashes, leases that run out under slow workers, operators at any moment |
| Authoring pipeline (`src/solver/ingest.ts`, `src/solver/pipeline.ts`) | template, job, run, spot and version rows | import, persist a validated draft | an import is all or nothing and idempotent | crashes between its writes, imports that race |
| Raw archive (`src/solver/archive.ts`) | files named by hash | write, verify | immutable once written | writers that race, crash between write and rename |
| Authoring commands (`scripts/*.mjs`) | none of their own | publish, repair, retire, list, manage | the calendar keeps its promise whatever the commands race with; success means placed; a live date stays live | a crash between two transactions, operators who race for a day |
| Forward migration (`src/solver/migrate-v3.ts`) | new version rows | copy versions to schema 3 | statuses and calendar carried over once | runs while the lifecycle moves on |
| Guest sessions (`src/http/visitor.ts`) | `GuestIdentity`, `GuestSession` | resolve, create, rotate | a browser keeps its identity | concurrent requests with one cookie, lost answers, expiry |
| HTTP and rate limit (`src/http/public-router.ts`) | counters per address, in memory | limit submissions | bursts are bounded, nobody is locked out | window boundary, restarts |
| Scoring, normalization, quality, candidates (`src/scoring.ts`, `src/solver/*.ts`) | none | pure functions | no basis point is lost, no unsound solve is stored, what is admitted can be scored | rounding, ties, spellings of a hand, rows of earlier versions |
| Infrastructure, API description, tooling | none with a protocol | configuration, health, metrics, documents | | |

## 2. What is modelled, and where

| Module | Models | Proved in |
| --- | --- | --- |
| `Publication.tla` | the five lifecycle transactions, the hold route and a player's submission, statement by statement | `PublicationProofs.tla` |
| `Calendar.tla` | abstract specification: what the calendar promises, whatever the implementation | `PublicationProofs.tla` |
| `Authoring.tla` | publish-spot, repair-spot and manage-spot, the midnight job and the days | `AuthoringProofs.tla` |
| `SolverJobs.tla` | solver jobs, their producers, host workers, operator and clock | `SolverJobsProofs.tla` |
| `Import.tla` | imports: raw archive, gate, template, job, and the transaction that stores run and version | `ImportProofs.tla` |
| `Normalization.tla` | what an import computes: provenance, quality, conversion, cross checks | `SolutionProofs.tla` |
| `Solution.tla` | a solution from the solver's files to a score: import, reader, contract, scoring | `SolutionProofs.tla` |
| `Attempts.tla` | racing submissions for one version | `AttemptsProofs.tla` |
| `Serving.tla` | the readers of the public API, query by query | `ServingProofs.tla` |
| `Visitors.tla` | guest sessions and the attempt limiter | `VisitorsProofs.tla` |

An `MC` module of the same name gives TLC its instance. How they fit together:

* `Publication` and `Authoring` look at the same transactions from two sides.
  `Publication` opens each of them up; `Authoring` takes each as one step and
  composes them to commands, over a clock. Both are shown to implement
  `Calendar`.
* `Import` takes the verdict of the gate as an input; `Normalization` computes
  it, and `Solution` extends `Normalization` by what happens to the stored
  row afterwards.
* `Attempts` says which attempt counts, `Solution` how many points it has,
  `Serving` what the visitor is told about it, `Publication` when it is
  invalidated, and `Visitors` who the visitor is.

### Publication

State: `version` (the statuses), `spot` (status and current version), `slot`
(the calendar rows), `valid` and `invalid` (the versions that have attempts of
that validity: attempts of one version are always treated alike, so one bit
stands for all of them), and `tx`, the open transaction of each process.

Prisma runs a transaction at READ COMMITTED unless it asks for more, and
publication.ts does not. So each SELECT sees what is committed at that moment,
each update by id is unconditional, takes the row's lock until the end, and
waits for another holder; the writes become visible together at the commit. A
transaction is therefore a chain of steps, one for each SELECT (`ReplaceReadOld`,
`ReplaceReadNew`, `ReplaceFindSlot`, ...), and one for the commit with the writes
after the last SELECT. Row locks matter only between a write and a later SELECT
of the same transaction; the `CanWrite...` guards and the `mine` and `links`
fields of an open transaction stand for them. Inserts are checked against the
partial unique indexes of the initial migration (`UniqueRows`). `Abort` is any
error or crash before the commit. The hold route is not a transaction: its
read and its write are two commits.

The sequential runs give the module a single transaction process, to separate
what the operations keep by themselves from what they keep under concurrency.

Left out: timestamps, payloads and their digests, audit rows, the statuses
DRAFT (never stored on a version) and HELD of a slot (never written), and the
date arithmetic.

### Calendar

The abstract specification has places (a date and an order), which version is
booked at each, which places are live, and the versions that were retired.
Its four actions book, go live, retarget a live place to another version, and
withdraw. `Publication` implements it when its operations run one after the
other (`ImplementsCalendar`, with a refinement mapping from slot rows to places);
`Authoring` implements it under any interleaving of commands, operators and
jobs (`CommandsKeepCalendar`).

### Authoring

State: `today`, the midnight `job` of today (due or done), `version` (status and
the date in its payload), `slot` (the active slot 1 of each date, the only order
the commands assign), `cmd`, the command each operator runs with what it has
read, and `early`, the dates an operator published by name before their eve.

A command is a sequence of steps, as in the scripts: choose the date
(`StartPublish`, `StartRepair`: the reads of the calendar), import the version
unless it is stored and look at its status (`Find`), `Approve`, then `Replace`,
`Schedule` or `Recover` (the version has its date from an earlier run), `Settle`
(is the date due?) and `Publish`. Between any two steps others act and the
clock moves; a refused transaction, an error or a crash is `Die`, and the
command may be started again. `Manage` is a transaction of manage-spot. The
job publishes `today + 1`, since the queue passes no date (jobs.ts:15). A failed
job, or a worker that was down, is a `NewDay` that begins while the job is due.

`dark` marks a date that was live until its version was replaced: `owed` while
a command is to publish the replacement, `excused` once that command died or
the replacement was manage-spot's, which publishes separately.

Left out: several orders a day and several spots (both in `Publication`),
holds, what an import does inside (`Import`), dry runs and options that only
change what is printed. retire-synthetic-spot deletes the rows of one
development spot, list-spots prints.

### SolverJobs

One row per job with status, attempt count, owner, and the time left of its
lease and of its retry delay: differences are all the code compares. Claims are
one step because the claim transaction is Serializable, and the loser returns
null. `failSolverJob` is two steps, because it is two autocommitted statements.
The enqueue is two steps (row, then message), since the row is claimable in
between; the import leaves its job claimable until `persistValidatedDraft`
marks it. `Drop` is the crash of a worker, or its reaction to a refused call.
The worker's own process is not in the repository: what it does between the
exported calls (`StoreRun`, `Drop`) is modelled from `SolverRun` and its tests.
Left out: priorities and creation times (a claim may take any claimable job, a
superset), templates and solver input generation, the reordering route.

### Import

An importer is one run of `ingestSpot` on one item (the files and options of a
command). Items are told apart by what the code compares: the archive directory
their source files hash to, the pair of native files, the solve hash the
envelope claims, spot, version id, payloads, and family. State: the archive
(`files`, `metadata`, `versioned`), the four tables (`templates`, `job`, `runs`,
`versions`; a spot exists as soon as it has a version), and how far each importer
is. Each file write is one step, since it is a rename; looking for
metadata.json and renaming over it are two steps, and so are each autocommitted
statement and each read of the final transaction, whose writes are checked
against the unique indexes when it commits. `Die` may happen between any two
steps, and an item is imported again by another importer. The gate gives either
verdict here, because the same files may be judged differently after an
importer fix, as archive.ts says. What a host worker does to the job of an
import while it is QUEUED is in `SolverJobs`.

### Normalization and Solution

`Normalization` holds the operators of an import in the order the code applies
them: provenance, the exploitability checkpoints of the log, reach and active
combos, apportionment to basis points by largest remainder, selectable and
featured hands, seats and dealer, the cross checks of the envelope, the
collapse gate. `Solution` runs them in a state machine of three steps that each
are a call of the code: `ImportSpot` stores a row or rejects the files, `Read`
is `readPublicSpot`, `Submit` is the contract and the scoring. A stored row may
also be one of an earlier normalizer (`LegacySpots`), which only the reader
repairs.

A combo is a pair of cards as it is spelled, so that both spellings of a hand
occur; a frequency is a rational weight; a seat name is a name with its case
and its surrounding blanks. Left out: the syntax of cards, boards, histories
and labels, the shapes zod checks, floating point, `rankCandidates` (which only
its test calls).

What is taken for granted of the inputs is stated as four assumptions:
`NumbersAssumption` (the points divide the basis points), `ItemsAssumption`
(files that parse: numbered log lines, weights that are not negative, hands of
two cards, names of seats), `LegacyAssumption` (early rows have passed the
strategy checks of their time; of seats and story it is only said that they are
names, so that they may contradict each other and the reader refuse the row) and
`SubmissionsAssumption` (what the schema of a request lets through).

### Attempts

Rows of one version, since every query names the version. A Serializable
transaction takes a snapshot, decides whether the attempt is official, counts,
and inserts. Two transactions of one visitor that overlap each read what the
other writes, so serializability lets only one commit: `Commit` needs the
visitor's rows to be as in the snapshot. The loser ends in P2002 when its insert
breaks a unique index, which the code catches around the first transaction, or
in P2034, which it does not catch. PostgreSQL may report P2034 because of another
visitor's row too (its predicate locks are pages), so `SerializationFailure` is
enabled by any commit since the snapshot. Left out: validation and scoring (in
`Solution`), the version's withdrawal (in `Publication`), progress in the answer
(in `Serving`).

### Serving

State: `calendar` (the published version of each place; readers see no other
slots), the `retired` versions, the visitor's `attempts`, the `day`, and `req`,
the one request in flight with what its queries have returned. Each query of
`getDailyGame`, `getDailyGameRange`, `getAttempt`, `getStats` and `getAttemptHistory` is a
step, and none of these functions opens a transaction, so publications,
withdrawals, invalidations and submissions happen between them. Since readers
write nothing, one request at a time is enough. Every query names the visitor,
so one visitor is, too. Attempts of one day share their `createdAt` and are
ordered by id, which is the hardest case for a page cursor.

What is right for an answer put together from several moments is stated with
`req.since`: what was there all the time since the request began must be in
the answer, and what was at no time there must not. Queries with an order are `Sorted`, the loops of
`getStats` are `Run` (a fold of `Extended` over the completed dates) and `Back`
(a recursive function from a date backwards). `ServingAssumption` says that a date
is published with different versions and that ids and orders are numbers.

Left out: averages, best scores and the breakdowns by family of the
statistics, filters of the history, cursors that a client made up.

### Visitors

State: the `sessions` by token (identity, age, expiry, revocation), the cookie
in each browser's `jar`, the requests in flight, the limiter's counter of each
address, and two ghost variables: `blank`, the requests a browser sent
without a cookie, and `accepted`, the submissions let through for each address in their order,
each with the time and the counter it passed at.

A request is sent with the cookie of that moment, passes the limiter (`Pass`,
`Submit`), looks its session up (`LookUp`), and keeps or rotates it in a second
step (`Keep`, `Rotate`), so two requests with one cookie may rotate it twice; the
answer is delivered or lost in any order (`Deliver`, `End`). `Restart` forgets the
counters, which live in the memory of one process, and the requests at work.

Left out: signed-in accounts (one idempotent upsert), cookies the server never
issued (they count as none), headers.

## 3. Runs

Each run finishes within about three minutes. CHECK_DEADLOCK is off everywhere because
these systems may rest: nothing obliges an operator or a player to act, and the
bounds (slot rows, keys, attempts, days) are used up in the end.

| Run | Question | Bounds |
| --- | --- | --- |
| `publication_concurrent` | type correctness; PUBLISHED versions are on the calendar; slots are cancelled and attempts invalidated only with the version superseded | 2 versions of 2 spots, 2 dates, 3 slot rows, 2 transactions at a time |
| `publication_sequential` | the calendar agrees with the statuses; refinement of `Calendar` | 3 versions, two of one spot, 2 dates, 2 orders, 3 slot rows, one operation at a time |
| `authoring` | nothing is shown before its eve; a shown date goes dark only after a failure; success means placed; refinement of `Calendar` | 2 operators, 2 versions of one spot, today and 2 more dates, one payload brings its own date |
| `solver_jobs` | types, attempts bounded; the ownership check fences attempts; attempts are distinct; a claim starts an attempt without a run; no job with attempts left is stranded | 1 job, 2 workers, the 3 attempts of the code, lease 1, delays 1 and 2 |
| `import` | types; stored runs have their evidence; rejections leave no rows; numbering; versions refer to runs of their own files; success means stored; a run belongs to one job | 3 importers, 4 items: two versions of one solve, a changed export of the first, another solve under the same hash |
| `solution` | apportionment; only sound solves are stored; readers see the story; admitted hands can be scored; points reflect play | 4 families of files (weights, spellings and reach, seats, evidence) around a sound one, and early rows, some of which no seats agree with; 6 basis points in units of 2, minimal reach 2, a collapse from 3 combos on, 2 hands a submission |
| `attempts` | types; exactly one official attempt; attempts numbered 0, 1, 2, ...; answers agree with what is stored | 2 visitors, 3 keys, 2 payloads, 2 concurrent requests, used again and again until 3 attempts are stored (`MaxRows`) or more than 2 different answers given (`MaxReplies`) |
| `serving` | the game is current; marks and progress are true; the history is complete; streaks count | 3 days, 2 orders, 3 versions, 3 attempts, pages of one, 1 withdrawal (`MaxRetired`), 2 changes during a request (`MaxChanges`) |
| `visitors` | a visitor stays the same; guests are counted; bursts are bounded; nobody is locked out | 2 browsers at one address, 2 requests in flight, 4 sessions, 2 requests without a cookie (`MaxBlank`), 3 ticks, limit 2, window 2, rotation beyond 1, lifetime 2 |

Why the bounds suffice to meet the interesting cases:

* Publication: two open transactions are what every lost update needs, and the
  third party of the longer races (publish, then quarantine, while an older
  publication is suspended) is a transaction that starts and ends in between.
  Three slot rows let a slot be cancelled, a new one take its place and a
  second replacement find the wrong one. Two versions of one spot are needed
  for `currentVersionId` and for what is served.
* Authoring: two operators race for a day, or one repairs what the other
  publishes; two versions make a repair; a version that brings its date from
  its payload meets one that takes the date chosen. The clock moves once, so
  that a date is future, due tonight and begun.
* SolverJobs: three attempts are the code's constant; two workers make one stale
  owner and one new one. Jobs do not interact except through the worker
  that leaves one for another, which the proof covers.
* Import: three importers make a stored run, a second version that shares it,
  and a third that repeats or contradicts either.
* Solution: weights up to 3 over three actions give every pattern of floors,
  remainders and ties at a total of 6; the four families vary independently
  because the code looks at them independently.
* Attempts: two requests make one winner and one loser, which may be of another
  visitor; a request that ended starts again under any key, so a retry meets its
  first try; three keys let two practice attempts race after the official one.
* Serving: three days are the shortest streak with a gap and a day not played
  yet; pages of one put a change between any two entries of the history. The
  calendar changes during a request only: what happened before it is an
  initial calendar.
* Visitors: a window lasts a minute and a session a month, so submissions are
  counted only while there is one session; two windows of two submissions fit,
  with a burst at their boundary, and a session is rotated, rotated again by an
  overtaken request, and expires.

The proofs of section 5 remove these bounds for the properties they cover.

Each property of a passing run has a mutant: a plausible bug in one definition
(a dropped guard, a missing index, a swapped order) under which the same run
finds the property violated. Some of them are "fixes" that suggest themselves:
resetting the attempt count on retry breaks `DistinctAttempts` while a stale
worker is still at work, letting a reclaimed job go on with its attempt breaks `AttemptsStartFresh`,
treating P2034 like P2002 breaks `OneOfficial`, and refusing revoked sessions breaks `SameVisitor` for a request that was
overtaken by a rotation.

### Fairness

Only `FairSpec` of SolverJobs has fairness. Time passes (`Tick`); the host
worker polls, so that some claim happens while one is possible; a worker that
has a job ends its work on it one way or the other, because the solver stops at
its iteration cap or the process dies. Heartbeats, producers and the operator
owe nothing. The claim fairness does not say which job: each claim uses up an
attempt, so every claimable job gets its turn.

The other modules have safety properties only. Nothing obliges operators,
players and browsers to go on, and no job of the program comes back to a date
that was missed, so there is nothing to promise about publication in the end:
`SuccessMeansPlaced` says when a later command makes up for it.

## 4. Findings

These runs check what a document, a comment or a test says and find it violated
by what the code does. `PROJECT.json` quotes the sentences.

| Run | What happens |
| --- | --- |
| `publication_blocked` | a SCHEDULED version may be approved again; its slot stays, and the publication of that whole date fails |
| `solver_jobs_fail` | `failSolverJob` updates by id a job it no longer owns: one reclaimed, held, cancelled or completed since it looked |
| `authoring_midnight` | the job of Pacific midnight publishes the date that begins a day later; a slot booked for a date after the job of its eve has run is published by no job |

Other states the models reach, which no property forbids because the program
has nothing that keeps them out (the hazards in `PROJECT.json` name the lines):

* Lifecycle: two PUBLISHED versions of one spot, of which only the newer can be
  played; a spot whose `currentVersionId` is a rejected version; a status
  rewritten by an operation that read it earlier, up to a suspended publication
  that writes PUBLISHED over a version quarantined meanwhile; a VALID attempt
  inserted after its version was quarantined.
* Commands: two operators who choose one day, of whom the loser's version is
  stored with a date in its payload that is taken, where no retry places it; a
  repair that crashed after its replacement, whose retry is refused because the
  old version has no published slot any more (publish-spot or manage-spot
  publish finish it); a replaced slot of today that was not live yet and stays
  SCHEDULED.
* Solver jobs: a job RUNNING for ever after its worker died on the last attempt;
  a retried FAILED job that keeps its attempt count and is never claimed; the
  job of an import, claimed and solved once more.
* Import: an active template and a claimable job left behind by an importer
  that died or failed; a metadata.json renamed over by the second of two
  writers that both found none.
* Players: a racing submission that ends as an internal error (P2034) and not as
  a practice attempt; an answer whose progress and marks are of two moments; two
  guests for one browser whose first requests were concurrent.

## 5. Proofs

All proofs are for any number of versions, spots, dates, days, slot rows, concurrent
transactions, operators, jobs, workers, attempts, visitors, keys, requests, pages, browsers,
addresses, sessions, importers, items, actions, hands and basis points, under the named
assumptions on the constants: `PublicationAssumption`, `AuthoringAssumption`,
`SolverJobsAssumption`, `ImportAssumption`, `VisitorsAssumption`,
`ServingAssumption`, and the four of `Solution` (`NumbersAssumption`,
`ItemsAssumption`, `LegacyAssumption`, `SubmissionsAssumption`). `Attempts` and
`Calendar` need none. TLC evaluates all of them on the instances. Every safety property of a
passing run is the conclusion of a theorem.

* **PublicationProofs**, whatever the number of open transactions: `TypeOK`,
  `PublishedOnCalendar`, `CancelSupersedes`,
  `InvalidationSupersedes`. `PublishedOnCalendar` is not inductive: a
  transaction that is about to write relies on what it read and locked. The
  inductive invariant adds `TxOK`, what each stage of an open transaction knows
  and has locked, `UniqueRows`, the unique indexes, and `PublishedHasSlot`. It is shown for the
  initial state and for each action, with one lemma per action; the two action
  properties follow from it.
  For operations that run one after the other (the hypothesis `Alone`: there is one
  transaction at most) it proves more: `CalendarAgrees`, and that the five
  transactions implement `Calendar` (`ImplementsCalendar`). Without that
  hypothesis both are false, as section 4 describes. `AloneInv` adds to the
  invariant that slots follow their versions, that versions on the calendar have
  their slots, and that what the open transaction asserted still holds (`Knows`).
  The refinement has one lemma per writing statement: the steps that only read
  map to stutters. `OneVersionOnePlace` is proved of the abstract calendar alone,
  together with its type correctness, and carried over.
* **AuthoringProofs**: `TypeOK`, `NotBeforeItsEve`, `DarkOnlyAfterFailure`,
  `SuccessMeansPlaced`, and that `Authoring` implements `Calendar`
  (`CommandsKeepCalendar`). None of them is inductive, because a command acts
  on what it has read. The invariant adds `World` (a version has at most one
  place, its slot and its status agree, and an existing version knows its date)
  and `Commands`: the version a command is to replace is still where it saw it
  or superseded (`OldStays`), and the one it is to publish is where it put it or
  superseded (`NewStays`). Each holds under the steps of the others because
  nothing takes a version off its place except by superseding it, and nothing
  brings a superseded one back (`Kept`). The refinement has one lemma per transaction.
* **SolverJobsProofs**: `TypeOK`, `FencedAttempts`, `DistinctAttempts`,
  `AttemptsStartFresh`. The strengthening is `Counted` (a worker at work never
  holds a later attempt than an enqueued job has counted), `RunsCounted` (neither
  does a stored run) and `Producing` (only
  an import marks a job done by itself). Every action except `Claim` is covered
  by one frame condition; `Claim` starts an attempt later than all at work and
  all that have a run.
* **AttemptsProofs**: `TypeOK`, `OneOfficial`, `OrdinalsDense`, `RepliesAgree`.
  The strengthening is `Raced` (the fallback transaction, which never inserts an
  official attempt, runs only for visitors who have one) and `CreatedStored` (a
  request that created its row still finds it).
* **ImportProofs**: all seven invariants of the run `import`. The archive and
  the tables only grow, and an importer writes only rows that carry its name
  (`Growth`), so what an importer has established at its phase (`Knows`) cannot
  be taken away by the others; each action has to be examined for its own
  importer only. The strengthening is `Knows` of every importer.
* **ServingProofs**: all five invariants of the run `serving`. `BaseInv` says what
  the tables are (a version has one place, an attempt one id) and that `req.since`
  tells the truth (`Lasting`). The environment can only narrow what lasted
  (`Narrowed`), so whatever a request has established stays established, and
  each reader needs to be examined for its own queries only: `GameInv` for the
  games and the progress, `HistoryInv` for the pages (what is listed is above
  the cursor, what lasted and is not listed below it), `StreaksInv` for the
  statistics. Rows in the order of a query exist because an element can be placed by
  the number of those before it (`OrderedRowsExist`), and each occurs once. The
  two loops of `getStats` are characterised by what they compute: after the
  dates seen so far, `Run` holds their longest stretch, the one that ends at the
  last of them, and the last of them (`RunOf`), and `Back` the stretch that ends
  at a date (`Stretch`).
* **SolutionProofs**: all five invariants of the run `solution`, about the
  operators of `Normalization` and `Solution` for any files. The
  inductive invariant `Origin` says where the row, the view and the answer come
  from; the rest is what the operators compute. A fair apportionment: the
  fractions cut off add up to the winners times the sum of the weights, ranks are
  one to one, so there are as many winners as basis points left, and each winner has
  a fraction. The frequencies therefore add up by the way they are computed, and
  not because `validateNormalizedEnvelope` rejects the others. The log: the
  checkpoint taken is the last that counts. An all-in by every hand: every stored
  strategy would be the whole on that action, which is the uniform range that
  `assertPublishableStrategyQuality` rejects. The ranges: the line of the input the
  provenance check compares is the last of its lane. Seats: the names the reader
  shows are themselves a seating that agrees with the story and the stored names
  (`ReadIsSeating`), and a row with any such seating passes the reader's checks
  (`SeatingReadable`), so what it refuses cannot be seated.
  Scores: two distributions of one total are as similar as they overlap, since
  |p - f| = p + f - 2 min(p, f); rounding is monotone and keeps the bounds.
* **VisitorsProofs**: `TypeOK`, `SameVisitor`, `GuestsCounted`, `BurstBounded`,
  `RefusedForCause`. Sessions are
  issued in order and never change their identity or browser (`Lasting`), an
  identity was first issued to the same browser (`Owned`), what a request carries
  was issued to its browser (`Sent`, `Resolved`), and the guests of a browser
  together with its waiting requests without a cookie never exceed those it
  sent (`Paid`), which is the counting argument behind `GuestsCounted`. The
  limiter has an invariant of its own (`LimitInv`): what passed is ordered by
  window and count (`Ordered`), windows do not overlap, and a counter has
  counted, up to the limit, only what passed (`Earned`). A span as long as one
  window meets two windows at most, and in each the counts of what passed
  are different numbers up to `Limit`, hence the bound on a burst; a refused
  submission finds `Limit` others that passed in its window.

Sums, folds and recursive functions over data are reasoned about without an
induction principle for operators: a closed form is shown to satisfy the
defining equation, so the chosen function satisfies it, too, and the two agree
because a least argument at which they differ would contradict the equation
(`AddsAgree` and `SubsetsInduction` in `SolutionProofs`, `RunIsBest` and
`BackIsStretch` in `ServingProofs`).

Only model-checked: `JobsGetTheirAttempts`, because liveness under fairness is
beyond the prover. Whether a definition says what the code
does is not a matter of proof either; the mutants show of each property that it depends
on the code.

## 6. Not modelled

* Forward migration to schema 3: run once, by hand, on development rows. The
  states it could leave are reached in `Publication` (two PUBLISHED versions)
  and in `Solution` (`LegacySpots`).
* The replenishment job: it counts the covered days and enqueues so many
  templates, one by one. `SolverJobs` enqueues at any moment, which includes
  it; a repeated enqueue is another job, which nothing tells apart.
* The reordering of solver priorities and the read routes of the admin.
* Averages and breakdowns of the statistics, `rankCandidates`, list-spots,
  retire-synthetic-spot: sums and tables of what is stored, or without a caller.
* Text and JSON parsing, HTTP formatting and caching headers, configuration,
  metrics, health probes, identity providers, the API document, seeds and
  container images: they keep no protocol state; where their result matters to
  a modelled operation it is an input.

What could come next: `Authoring` with several orders a day, progress of two
readers that share a browser, and the refinement of `Attempts` and `Import` to
specifications of what a caller sees.
