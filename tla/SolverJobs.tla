----------------------------- MODULE SolverJobs -----------------------------
(***************************************************************************)
(* The solver jobs of src/solver/host-worker.ts, src/solver/template.ts    *)
(* and the job routes of src/admin.ts: jobs are enqueued by the            *)
(* replenishment or created by an import, claimed by host workers under a  *)
(* lease, kept alive by heartbeats, completed, failed, retried after a     *)
(* delay, reclaimed when the lease runs out, and retried, held or          *)
(* cancelled by an operator at any time.                                   *)
(*                                                                         *)
(* Timestamps are kept as the time left until them, which is all the code  *)
(* compares: wait = 0 is nextAttemptAt <= now and lease = -1 is            *)
(* leaseExpiresAt < now, or no lease.  Priorities and creation times only  *)
(* order the claims, so a claim takes any job that may be claimed.         *)
(***************************************************************************)
EXTENDS Integers

CONSTANTS
    Jobs,         \* SolverJob ids
    Workers,      \* worker ids of the host workers
    MaxAttempts,  \* maxAttempts, and the 3 of claimSolverJob
    Lease,        \* leaseMs
    ShortDelay,   \* retryDelayMs(1)
    LongDelay,    \* retryDelayMs of later attempts
    None          \* SQL NULL

ASSUME SolverJobsAssumption ==
    /\ MaxAttempts \in Nat \ {0}
    /\ Lease \in Nat
    /\ ShortDelay \in Nat /\ LongDelay \in Nat /\ ShortDelay <= LongDelay
    /\ None \notin Workers \cup Jobs

VARIABLES
    job,      \* SolverJob rows
    producer, \* the enqueue or import still at work on each job
    imported, \* jobs created by an import
    runs,     \* SolverRun rows: a job and an attempt number, unique together
    worker    \* what each host worker is doing

vars == <<job, producer, imported, runs, worker>>

Status == {"QUEUED", "RUNNING", "RETRY_WAIT", "SUCCEEDED", "FAILED", "HELD", "CANCELLED"}
Job == [status : Status, attempts : 0..MaxAttempts, owner : Workers \cup {None},
        lease : -1..Lease, wait : 0..LongDelay]
NoJob == [status |-> "NONE"]
NewJob == [status |-> "QUEUED", attempts |-> 0, owner |-> None, lease |-> -1, wait |-> 0]

\* attempt is the attemptCount returned by the claim, seen the one read by
\* failSolverJob before its update.
Worker == [phase : {"idle", "solving", "failing"}, job : Jobs \cup {None},
           attempt : 0..MaxAttempts, seen : 0..MaxAttempts]
Idle == [phase |-> "idle", job |-> None, attempt |-> 0, seen |-> 0]

Created == {j \in Jobs : job[j] # NoJob}
Owns(w, j) == j \in Created /\ job[j].status = "RUNNING" /\ job[j].owner = w
Become(w, next) == worker' = [worker EXCEPT ![w] = next]

retryDelay(attempt) == IF attempt <= 1 THEN ShortDelay ELSE LongDelay

(***************************************************************************)
(* Producers.                                                              *)
(***************************************************************************)

\* enqueueSolverJob commits the row before it sends the queue message.
Enqueue(j) ==
    /\ j \notin Created
    /\ job' = [job EXCEPT ![j] = NewJob]
    /\ producer' = [producer EXCEPT ![j] = "enqueue"]
    /\ UNCHANGED <<imported, runs, worker>>

\* The message is sent, or the process dies; nobody consumes the message.
EnqueueEnd(j) ==
    /\ producer[j] = "enqueue"
    /\ producer' = [producer EXCEPT ![j] = "none"]
    /\ UNCHANGED <<job, imported, runs, worker>>

SendFails(j) ==
    /\ producer[j] = "enqueue"
    /\ job' = [job EXCEPT ![j].status = "FAILED"]
    /\ producer' = [producer EXCEPT ![j] = "none"]
    /\ UNCHANGED <<imported, runs, worker>>

\* ingestSpot creates its job with the defaults of the schema.
Import(j) ==
    /\ j \notin Created
    /\ job' = [job EXCEPT ![j] = NewJob]
    /\ producer' = [producer EXCEPT ![j] = "import"]
    /\ imported' = imported \cup {j}
    /\ UNCHANGED <<runs, worker>>

\* persistValidatedDraft, attempt number 1; stored is false when the version or
\* the run exists already and belongs to another job.
Persist(j, stored) ==
    /\ producer[j] = "import"
    /\ stored => <<j, 1>> \notin runs
    /\ job' = [job EXCEPT ![j].status = "SUCCEEDED", ![j].attempts = 1]
    /\ runs' = IF stored THEN runs \cup {<<j, 1>>} ELSE runs
    /\ producer' = [producer EXCEPT ![j] = "none"]
    /\ UNCHANGED <<imported, worker>>

\* A checksum mismatch, a conflicting version or run, or a crash.
ImportFails(j) ==
    /\ producer[j] = "import"
    /\ producer' = [producer EXCEPT ![j] = "none"]
    /\ UNCHANGED <<job, imported, runs, worker>>

(***************************************************************************)
(* Host workers.                                                           *)
(***************************************************************************)
\* Mutant: an expired lease is not reclaimed.
ClaimableUnlessRunning(j) ==
    /\ j \in Created
    /\ job[j].attempts < MaxAttempts
    /\ job[j].status \in {"QUEUED", "RETRY_WAIT"}
    /\ job[j].wait = 0

\* Mutant: the attempts are not bounded.
ClaimableForever(j) ==
    /\ j \in Created
    /\ \/ job[j].status \in {"QUEUED", "RETRY_WAIT"} /\ job[j].wait = 0
       \/ job[j].status = "RUNNING" /\ job[j].lease = -1

Claimable(j) ==
    /\ j \in Created
    /\ job[j].attempts < MaxAttempts
    /\ \/ job[j].status \in {"QUEUED", "RETRY_WAIT"} /\ job[j].wait = 0
       \/ job[j].status = "RUNNING" /\ job[j].lease = -1

\* Mutant: the worker is told the count before the increment.
ClaimReturnsOld(w, j) ==
    /\ worker[w].phase = "idle"
    /\ Claimable(j)
    /\ job' = [job EXCEPT ![j].status = "RUNNING", ![j].attempts = @ + 1,
                          ![j].owner = w, ![j].lease = Lease]
    /\ Become(w, [phase |-> "solving", job |-> j, attempt |-> job[j].attempts, seen |-> 0])
    /\ UNCHANGED <<producer, imported, runs>>

\* Mutant: a job reclaimed from a dead worker goes on with its attempt.
ClaimResumes(w, j) ==
    LET n == IF job[j].status = "RUNNING" THEN job[j].attempts ELSE job[j].attempts + 1 IN
    /\ worker[w].phase = "idle"
    /\ Claimable(j)
    /\ job' = [job EXCEPT ![j].status = "RUNNING", ![j].attempts = n,
                          ![j].owner = w, ![j].lease = Lease]
    /\ Become(w, [phase |-> "solving", job |-> j, attempt |-> n, seen |-> 0])
    /\ UNCHANGED <<producer, imported, runs>>

\* Serializable: two claims of one job never both commit.
Claim(w, j) ==
    /\ worker[w].phase = "idle"
    /\ Claimable(j)
    /\ job' = [job EXCEPT ![j].status = "RUNNING", ![j].attempts = @ + 1,
                          ![j].owner = w, ![j].lease = Lease]
    /\ Become(w, [phase |-> "solving", job |-> j, attempt |-> job[j].attempts + 1, seen |-> 0])
    /\ UNCHANGED <<producer, imported, runs>>

Heartbeat(w) ==
    /\ worker[w].phase = "solving"
    /\ Owns(w, worker[w].job)
    /\ job' = [job EXCEPT ![worker[w].job].lease = Lease]
    /\ UNCHANGED <<producer, imported, runs, worker>>

\* The worker stores the run of its solve; it does not need the lease for that.
StoreRun(w) ==
    /\ worker[w].phase = "solving"
    /\ <<worker[w].job, worker[w].attempt>> \notin runs
    /\ runs' = runs \cup {<<worker[w].job, worker[w].attempt>>}
    /\ UNCHANGED <<job, producer, imported, worker>>

\* The run a job is completed with may be of any of its attempts.
Complete(w) ==
    LET j == worker[w].job IN
    /\ worker[w].phase = "solving"
    /\ \E run \in runs : run[1] = j
    /\ Owns(w, j)
    /\ job' = [job EXCEPT ![j].status = "SUCCEEDED", ![j].owner = None, ![j].lease = -1]
    /\ Become(w, Idle)
    /\ UNCHANGED <<producer, imported, runs>>

\* failSolverJob reads the job it owns, then updates it by id.
FailRead(w) ==
    LET j == worker[w].job IN
    /\ worker[w].phase = "solving"
    /\ Owns(w, j)
    /\ Become(w, [worker[w] EXCEPT !.phase = "failing", !.seen = job[j].attempts])
    /\ UNCHANGED <<job, producer, imported, runs>>

FailWrite(w) ==
    LET j == worker[w].job
        seen == worker[w].seen
        terminal == seen >= MaxAttempts
    IN
    /\ worker[w].phase = "failing"
    /\ job' = [job EXCEPT ![j].status = IF terminal THEN "FAILED" ELSE "RETRY_WAIT",
                          ![j].wait = IF terminal THEN 0 ELSE retryDelay(seen),
                          ![j].owner = None, ![j].lease = -1]
    /\ Become(w, Idle)
    /\ UNCHANGED <<producer, imported, runs>>

\* The worker crashes, or gives the job up when a call is refused.
Drop(w) ==
    /\ worker[w].phase # "idle"
    /\ Become(w, Idle)
    /\ UNCHANGED <<job, producer, imported, runs>>

(***************************************************************************)
(* The operator's routes, which look at no status.                         *)
(***************************************************************************)
\* Mutant: a retry starts the attempts again at zero.
RetryFresh(j) ==
    /\ j \in Created
    /\ job' = [job EXCEPT ![j].status = "QUEUED", ![j].wait = 0, ![j].attempts = 0]
    /\ UNCHANGED <<producer, imported, runs, worker>>

Retry(j) ==
    /\ j \in Created
    /\ job' = [job EXCEPT ![j].status = "QUEUED", ![j].wait = 0]
    /\ UNCHANGED <<producer, imported, runs, worker>>

Hold(j) ==
    /\ j \in Created
    /\ job' = [job EXCEPT ![j].status = "HELD"]
    /\ UNCHANGED <<producer, imported, runs, worker>>

Cancel(j) ==
    /\ j \in Created
    /\ job' = [job EXCEPT ![j].status = "CANCELLED"]
    /\ UNCHANGED <<producer, imported, runs, worker>>

\* A unit of time passes.
Tick ==
    /\ job' = [j \in Jobs |->
                 IF j \in Created
                 THEN [job[j] EXCEPT !.lease = IF @ = -1 THEN -1 ELSE @ - 1,
                                     !.wait = IF @ = 0 THEN 0 ELSE @ - 1]
                 ELSE NoJob]
    /\ UNCHANGED <<producer, imported, runs, worker>>

-----------------------------------------------------------------------------
Init ==
    /\ job = [j \in Jobs |-> NoJob]
    /\ producer = [j \in Jobs |-> "none"]
    /\ imported = {}
    /\ runs = {}
    /\ worker = [w \in Workers |-> Idle]

Produce(j) ==
    \/ Enqueue(j)
    \/ EnqueueEnd(j)
    \/ SendFails(j)
    \/ Import(j)
    \/ \E stored \in BOOLEAN : Persist(j, stored)
    \/ ImportFails(j)

Work(w) == StoreRun(w) \/ Complete(w) \/ FailRead(w) \/ FailWrite(w) \/ Drop(w)

Operate(j) == Retry(j) \/ Hold(j) \/ Cancel(j)

Next ==
    \/ \E j \in Jobs : Produce(j) \/ Operate(j)
    \/ \E w \in Workers : Work(w) \/ Heartbeat(w) \/ \E j \in Jobs : Claim(w, j)
    \/ Tick

Spec == Init /\ [][Next]_vars

\* Time passes, the host worker polls for jobs, and a solve ends one way or the
\* other (it is bounded by its iteration cap); heartbeats, producers and the
\* operator owe nothing.
Fairness ==
    /\ WF_vars(Tick)
    /\ WF_vars(\E w \in Workers, j \in Jobs : Claim(w, j))
    /\ \A w \in Workers : WF_vars(Work(w))

FairSpec == Spec /\ Fairness
-----------------------------------------------------------------------------
TypeOK ==
    /\ job \in [Jobs -> Job \cup {NoJob}]
    /\ producer \in [Jobs -> {"none", "enqueue", "import"}]
    /\ imported \subseteq Jobs
    /\ runs \subseteq Jobs \X (1..MaxAttempts)
    /\ worker \in [Workers -> Worker]

\* Ownership fences attempts: a RUNNING job has an owner, and a worker that the
\* ownership check of heartbeat, complete and fail lets through works on the
\* newest attempt of the job, whatever was reclaimed, retried or held meanwhile.
FencedAttempts ==
    \A j \in Created : job[j].status = "RUNNING" =>
        /\ job[j].owner \in Workers
        /\ \A w \in Workers : Owns(w, j) /\ worker[w].job = j => worker[w].attempt = job[j].attempts

\* No two workers ever solve the same attempt of an enqueued job, even when one
\* of them lost the job and does not know it: their runs never collide in the
\* unique (jobId, attemptNumber) of SolverRun.  An import sets its job's attempt
\* count back to 1, so this is said of the jobs the replenishment enqueued.
DistinctAttempts ==
    \A w1, w2 \in Workers :
        w1 # w2 /\ worker[w1].job = worker[w2].job /\ worker[w1].job \in Jobs \ imported
            => worker[w1].attempt # worker[w2].attempt

\* A worker that takes an enqueued job can store what it solves: the attempt it
\* is given has no run yet, whoever stored a run and crashed, lost the lease or
\* reported a failure before, and whatever the operator retried, a job that had
\* succeeded included.  Earlier runs are not erased and never collide with it.
AttemptsStartFresh ==
    [][\A w \in Workers :
          worker[w].phase = "idle" /\ worker'[w].phase = "solving" /\ worker'[w].job \notin imported
              => <<worker'[w].job, worker'[w].attempt>> \notin runs]_vars

\* No job is forgotten: one that waits or runs with attempts left ends, is held
\* or cancelled, or uses up its attempts, whatever crashes in between.
JobsGetTheirAttempts ==
    \A j \in Jobs :
        (j \in Created /\ job[j].status \in {"QUEUED", "RETRY_WAIT", "RUNNING"})
        ~> (j \in Created /\ (job[j].attempts = MaxAttempts
                             \/ job[j].status \in {"SUCCEEDED", "FAILED", "HELD", "CANCELLED"}))

(***************************************************************************)
(* What a test states and the program does not do.                         *)
(***************************************************************************)

\* Failures are ownership-checked: a report of failure changes the job only
\* while the worker that makes it owns the job.
FailuresAreOwned ==
    [][\A w \in Workers : worker[w].phase = "failing" /\ worker'[w].phase = "idle" /\ job' # job
          => Owns(w, worker[w].job)]_vars
=============================================================================
