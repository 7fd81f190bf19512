-------------------------- MODULE SolverJobsProofs --------------------------
(***************************************************************************)
(* Proofs about SolverJobs for every number of jobs, workers and attempts: *)
(* the ownership checks of the host worker fence attempts from each other. *)
(*                                                                         *)
(* FencedAttempts and DistinctAttempts are inductive once they know that   *)
(* a worker at work never holds a later attempt of an enqueued job than    *)
(* the job has counted (Counted), and that only an import sets the count   *)
(* back (Producing).  That a claim starts an attempt without a run needs   *)
(* the same of the runs that are stored (RunsCounted), which lasts because *)
(* neither a reclaim nor a retry ever lowers the count of an enqueued job. *)
(* Every action but Claim is covered by one frame: it gives no worker a    *)
(* job, starts no job, counts no attempt and stores only a run of a worker *)
(* at work or of an import.                                                *)
(***************************************************************************)
EXTENDS SolverJobs, TLAPS

Counted ==
    \A w \in Workers : worker[w] # Idle =>
        /\ worker[w].phase # "idle"
        /\ worker[w].job \in Created
        /\ worker[w].attempt \in 1..MaxAttempts
        /\ worker[w].job \notin imported => worker[w].attempt <= job[worker[w].job].attempts

Producing ==
    \A j \in Jobs :
        /\ producer[j] # "none" => j \in Created
        /\ producer[j] = "import" => j \in imported

\* A stored run belongs to an attempt its job has counted.
RunsCounted ==
    \A run \in runs :
        /\ run[1] \in Created
        /\ run[1] \notin imported => run[2] <= job[run[1]].attempts

IInv == TypeOK /\ Counted /\ Producing /\ RunsCounted /\ FencedAttempts /\ DistinctAttempts

\* The runs an action other than Claim may add.
MayStore(run) ==
    /\ run[1] \in Created
    /\ \/ run[1] \in imported
       \/ \E w \in Workers : worker[w] # Idle /\ worker[w].job = run[1] /\ worker[w].attempt = run[2]

\* What every action but Claim leaves as it was.
Frame ==
    /\ Created \subseteq Created'
    /\ imported \subseteq imported' /\ imported' \cap Created \subseteq imported
    /\ \A j \in Jobs : producer'[j] # "none" => j \in Created'
    /\ \A j \in Jobs : producer'[j] = "import" => j \in imported'
    /\ \A w \in Workers : worker'[w] # Idle =>
          /\ worker[w] # Idle
          /\ worker'[w].phase # "idle"
          /\ worker'[w].job = worker[w].job
          /\ worker'[w].attempt = worker[w].attempt
    /\ \A run \in runs' : run \in runs \/ MayStore(run)
    /\ \A j \in Created : j \notin imported => job'[j].attempts = job[j].attempts
    /\ \A j \in Created' : job'[j].status = "RUNNING" =>
          /\ j \in Created
          /\ job[j].status = "RUNNING"
          /\ job'[j].owner = job[j].owner
          /\ job'[j].attempts = job[j].attempts

-----------------------------------------------------------------------------
\* A created job has a row of the table.
LEMMA CreatedIsJob ==
    ASSUME TypeOK, NEW j \in Jobs
    PROVE  j \in Created <=> job[j] \in Job
BY DEF TypeOK, Created, Job, NoJob, Status

\* The rows the program creates are rows of the table.
LEMMA NewJobIsJob == NewJob \in Job
BY SolverJobsAssumption DEF NewJob, Job, Status

\* An idle worker holds no job.
LEMMA IdleIsWorker == Idle \in Worker /\ Idle.job \notin Jobs
BY SolverJobsAssumption DEF Idle, Worker

\* The retry delays are within the longest one.
LEMMA DelayBound == \A n \in Nat : retryDelay(n) \in 0..LongDelay
BY SolverJobsAssumption DEF retryDelay

-----------------------------------------------------------------------------
\* Each action keeps the types.
LEMMA ProduceType == ASSUME TypeOK, Producing, NEW j \in Jobs, Produce(j) PROVE TypeOK'
<1>1. CASE Enqueue(j)
  BY <1>1, NewJobIsJob DEF TypeOK, Enqueue
<1>2. CASE EnqueueEnd(j)
  BY <1>2 DEF TypeOK, EnqueueEnd
<1>3. CASE SendFails(j)
  BY <1>3, CreatedIsJob DEF Producing, TypeOK, SendFails, Job, Status
<1>4. CASE Import(j)
  BY <1>4, NewJobIsJob DEF TypeOK, Import
<1>5. CASE \E stored \in BOOLEAN : Persist(j, stored)
  <2> SUFFICES ASSUME NEW stored \in BOOLEAN, Persist(j, stored) PROVE TypeOK'
    BY <1>5
  <2>1. job[j] \in Job
    BY CreatedIsJob DEF Producing, Persist
  <2>2. job' \in [Jobs -> Job \cup {NoJob}]
    <3>1. [job[j] EXCEPT !.status = "SUCCEEDED", !.attempts = 1] \in Job
      <4>1. 1 \in 0..MaxAttempts
        BY SolverJobsAssumption
      <4>2. QED
        BY <2>1, <4>1 DEF Job, Status
    <3>2. job' = [job EXCEPT ![j] = [job[j] EXCEPT !.status = "SUCCEEDED", !.attempts = 1]]
      BY DEF Persist, TypeOK
    <3>3. QED
      BY <3>1, <3>2 DEF TypeOK
  <2>3. <<j, 1>> \in Jobs \X (1..MaxAttempts)
    BY SolverJobsAssumption
  <2>4. runs' \subseteq Jobs \X (1..MaxAttempts)
    BY <2>3 DEF TypeOK, Persist
  <2>5. QED
    BY <2>2, <2>4 DEF TypeOK, Persist
<1>6. CASE ImportFails(j)
  BY <1>6 DEF TypeOK, ImportFails
<1>7. QED
  BY <1>1, <1>2, <1>3, <1>4, <1>5, <1>6 DEF Produce

\* The operator's routes keep the types.
LEMMA OperateType == ASSUME TypeOK, NEW j \in Jobs, Operate(j) PROVE TypeOK'
BY SolverJobsAssumption, CreatedIsJob DEF TypeOK, Operate, Retry, Hold, Cancel, Job, Status

\* A claim keeps the types: it counts one attempt only while some are left.
LEMMA ClaimType == ASSUME TypeOK, NEW w \in Workers, NEW j \in Jobs, Claim(w, j) PROVE TypeOK'
<1>1. job[j] \in Job /\ job[j].attempts < MaxAttempts
  BY CreatedIsJob DEF Claim, Claimable
<1>2. job' \in [Jobs -> Job \cup {NoJob}]
  BY <1>1, SolverJobsAssumption DEF TypeOK, Claim, Job, Status
<1>3. worker' \in [Workers -> Worker]
  BY <1>1, SolverJobsAssumption DEF TypeOK, Claim, Become, Job, Worker
<1>4. QED
  BY <1>2, <1>3 DEF TypeOK, Claim

\* A job row released with a status and a wait is still a row.
LEMMA ReleasedRow == ASSUME NEW old \in Job, NEW status \in Status, NEW wait \in 0 .. LongDelay
                     PROVE  [old EXCEPT !.status = status, !.wait = wait,
                                        !.owner = None, !.lease = -1] \in Job
<1>1. -1 \in -1 .. Lease
  BY SolverJobsAssumption
<1>2. QED
  BY <1>1 DEF Job

\* What a worker does with its job keeps the types.
LEMMA WorkType == ASSUME TypeOK, Counted, NEW w \in Workers, Work(w) \/ Heartbeat(w) PROVE TypeOK'
<1> DEFINE j == worker[w].job
<1>0. worker[w] \in Worker
  BY DEF TypeOK
<1>1. CASE Heartbeat(w)
  <2>1. j \in Jobs /\ job[j] \in Job
    BY <1>1, CreatedIsJob DEF Heartbeat, Owns, Created
  <2>2. job' \in [Jobs -> Job \cup {NoJob}]
    BY <1>1, <2>1, SolverJobsAssumption DEF TypeOK, Heartbeat, Job, Status
  <2>3. QED
    BY <1>1, <2>2 DEF TypeOK, Heartbeat
<1>2. CASE StoreRun(w)
  <2>1. worker[w] # Idle
    BY <1>2 DEF StoreRun, Idle
  <2>2. <<worker[w].job, worker[w].attempt>> \in Jobs \X (1..MaxAttempts)
    BY <2>1 DEF Counted, Created
  <2>3. QED
    BY <1>2, <2>2 DEF TypeOK, StoreRun
<1>3. CASE Complete(w)
  <2>1. j \in Jobs /\ job[j] \in Job
    BY <1>3, CreatedIsJob DEF Complete, Owns, Created
  <2>2. job' \in [Jobs -> Job \cup {NoJob}]
    BY <1>3, <2>1, SolverJobsAssumption DEF TypeOK, Complete, Job, Status
  <2>3. QED
    BY <1>3, <2>2, IdleIsWorker DEF TypeOK, Complete, Become
<1>4. CASE FailRead(w)
  <2>1. j \in Jobs /\ job[j] \in Job
    BY <1>4, CreatedIsJob DEF FailRead, Owns, Created
  <2>2. worker' \in [Workers -> Worker]
    BY <1>0, <1>4, <2>1 DEF TypeOK, FailRead, Become, Job, Worker
  <2>3. QED
    BY <1>4, <2>2 DEF TypeOK, FailRead
<1>5. CASE FailWrite(w)
  <2>1. j \in Jobs /\ job[j] \in Job
    <3>1. worker[w] # Idle
      BY <1>5 DEF FailWrite, Idle
    <3>2. QED
      BY <3>1, CreatedIsJob DEF Counted, Created
  <2>2. retryDelay(worker[w].seen) \in 0..LongDelay
    BY <1>0, DelayBound, SolverJobsAssumption DEF Worker
  <2>3. job' \in [Jobs -> Job \cup {NoJob}]
    <3> DEFINE seen == worker[w].seen
               status == IF seen >= MaxAttempts THEN "FAILED" ELSE "RETRY_WAIT"
               wait == IF seen >= MaxAttempts THEN 0 ELSE retryDelay(seen)
               row == [job[j] EXCEPT !.status = status, !.wait = wait, !.owner = None, !.lease = -1]
    <3>1. job' = [job EXCEPT ![j] = row]
      BY <1>5, <2>1 DEF FailWrite
    <3>2. status \in Status /\ wait \in 0 .. LongDelay
      BY <2>2, SolverJobsAssumption DEF Status
    <3> HIDE DEF status, wait
    <3>3. row \in Job
      BY <2>1, <3>2, ReleasedRow
    <3>4. job \in [Jobs -> Job \cup {NoJob}]
      BY DEF TypeOK
    <3> HIDE DEF row
    <3>5. QED
      BY <2>1, <3>1, <3>3, <3>4
  <2>4. QED
    BY <1>5, <2>3, IdleIsWorker DEF TypeOK, FailWrite, Become
<1>6. CASE Drop(w)
  BY <1>6, IdleIsWorker DEF TypeOK, Drop, Become
<1>7. QED
  BY <1>1, <1>2, <1>3, <1>4, <1>5, <1>6 DEF Work

\* The passing of time keeps the types.
LEMMA TickType == ASSUME TypeOK, Tick PROVE TypeOK'
<1>1. ASSUME NEW j \in Created
      PROVE  [job[j] EXCEPT !.lease = IF @ = -1 THEN -1 ELSE @ - 1,
                            !.wait = IF @ = 0 THEN 0 ELSE @ - 1] \in Job
  <2>1. j \in Jobs
    BY DEF Created
  <2>2. job[j] \in Job
    BY <2>1, CreatedIsJob
  <2>3. (IF job[j].lease = -1 THEN -1 ELSE job[j].lease - 1) \in -1..Lease
    BY <2>2, SolverJobsAssumption DEF Job
  <2>4. (IF job[j].wait = 0 THEN 0 ELSE job[j].wait - 1) \in 0..LongDelay
    BY <2>2, SolverJobsAssumption DEF Job
  <2>5. QED
    BY <2>2, <2>3, <2>4 DEF Job
<1>2. job' \in [Jobs -> Job \cup {NoJob}]
  BY <1>1 DEF Tick
<1>3. QED
  BY <1>2 DEF TypeOK, Tick

-----------------------------------------------------------------------------
\* An action within the frame keeps what fences the attempts.
LEMMA FrameKeeps == ASSUME IInv, Frame PROVE (Counted /\ Producing /\ RunsCounted /\ FencedAttempts /\ DistinctAttempts)'
<1>1. ASSUME NEW w \in Workers, worker'[w] # Idle
      PROVE  /\ worker'[w].job = worker[w].job
             /\ worker'[w].attempt = worker[w].attempt
             /\ worker[w].job \in Created
  BY <1>1 DEF IInv, Frame, Counted
<1>2. Counted'
  BY <1>1 DEF IInv, Frame, Counted, Created
<1>3. Producing'
  BY DEF Producing, Frame
<1>4. FencedAttempts'
  <2> SUFFICES ASSUME NEW j \in Created', job'[j].status = "RUNNING"
               PROVE  /\ job'[j].owner \in Workers
                      /\ \A w \in Workers : job'[j].owner = w /\ worker'[w].job = j
                                               => worker'[w].attempt = job'[j].attempts
    BY DEF FencedAttempts, Owns
  <2>1. /\ j \in Created /\ job[j].status = "RUNNING" /\ j \in Jobs
        /\ job'[j].owner = job[j].owner /\ job'[j].attempts = job[j].attempts
    BY DEF Frame, Created
  <2>2. ASSUME NEW w \in Workers, job'[j].owner = w, worker'[w].job = j
        PROVE  worker'[w].attempt = job'[j].attempts
    <3>1. worker'[w] # Idle
      BY <2>1, <2>2, IdleIsWorker
    <3>2. QED
      BY <1>1, <2>1, <2>2, <3>1, ZenonT(30) DEF IInv, FencedAttempts, Owns
  <2>3. QED
    BY <2>1, <2>2 DEF IInv, FencedAttempts
<1>5. DistinctAttempts'
  <2> SUFFICES ASSUME NEW w1 \in Workers, NEW w2 \in Workers, w1 # w2,
                      worker'[w1].job = worker'[w2].job, worker'[w1].job \in Jobs \ imported'
               PROVE  worker'[w1].attempt # worker'[w2].attempt
    BY DEF DistinctAttempts
  <2>1. worker'[w1] # Idle /\ worker'[w2] # Idle
    BY IdleIsWorker
  <2>2. worker[w1].job \notin imported
    BY <1>1, <2>1 DEF Frame
  <2>3. QED
    BY <1>1, <2>1, <2>2 DEF IInv, DistinctAttempts
<1>6. RunsCounted'
  <2> SUFFICES ASSUME NEW run \in runs'
               PROVE  /\ run[1] \in Created'
                      /\ run[1] \notin imported' => run[2] <= job'[run[1]].attempts
    BY DEF RunsCounted
  <2>1. run[1] \in Created
    BY DEF IInv, RunsCounted, Frame, MayStore
  <2>2. ASSUME run[1] \notin imported' PROVE run[2] <= job'[run[1]].attempts
    <3>1. run[1] \notin imported /\ job'[run[1]].attempts = job[run[1]].attempts
      BY <2>1, <2>2 DEF Frame
    <3>2. CASE run \in runs
      BY <3>1, <3>2 DEF IInv, RunsCounted
    <3>3. CASE MayStore(run)
      BY <3>1, <3>3 DEF IInv, MayStore, Counted
    <3>4. QED
      BY <3>2, <3>3 DEF Frame
  <2>3. QED
    BY <2>1, <2>2 DEF Frame
<1>7. QED
  BY <1>2, <1>3, <1>4, <1>5, <1>6

\* A claim starts an attempt later than all that are at work on the job.
LEMMA ClaimKeeps ==
    ASSUME IInv, NEW w \in Workers, NEW j \in Jobs, Claim(w, j)
    PROVE  (Counted /\ Producing /\ RunsCounted /\ FencedAttempts /\ DistinctAttempts)'
<1> DEFINE n == job[j].attempts + 1
<1>1. /\ job[j] \in Job /\ j \in Created /\ n \in 1..MaxAttempts
      /\ job[j].attempts \in Nat
  BY CreatedIsJob, SolverJobsAssumption DEF IInv, Claim, Claimable, Job
<1>2. /\ job'[j].status = "RUNNING" /\ job'[j].attempts = n /\ job'[j].owner = w
      /\ job'[j] # NoJob
      /\ \A k \in Jobs \ {j} : job'[k] = job[k]
  BY <1>1 DEF IInv, TypeOK, Claim, Job, NoJob
<1>3. /\ worker'[w].phase = "solving" /\ worker'[w].job = j /\ worker'[w].attempt = n
      /\ \A v \in Workers \ {w} : worker'[v] = worker[v]
  BY DEF IInv, TypeOK, Claim, Become
<1>4. imported' = imported /\ producer' = producer
  BY DEF Claim
<1>5. Created' = Created
  BY <1>1, <1>2 DEF Created
<1>6. ASSUME NEW v \in Workers \ {w}, worker[v].job = j, j \notin imported
      PROVE  worker[v].attempt \in Nat /\ worker[v].attempt < n
  <2>1. worker[v] # Idle
    BY <1>6, IdleIsWorker
  <2>2. QED
    BY <1>1, <1>6, <2>1 DEF IInv, Counted
<1>7. Counted'
  <2> SUFFICES ASSUME NEW v \in Workers, worker'[v] # Idle
               PROVE  /\ worker'[v].phase # "idle"
                      /\ worker'[v].job \in Created
                      /\ worker'[v].attempt \in 1..MaxAttempts
                      /\ worker'[v].job \notin imported => worker'[v].attempt <= job'[worker'[v].job].attempts
    BY <1>4, <1>5 DEF Counted
  <2>1. CASE v = w
    BY <1>1, <1>2, <1>3, <2>1
  <2>2. CASE v # w /\ worker[v].job = j
    BY <1>1, <1>2, <1>3, <1>6, <2>2 DEF IInv, Counted
  <2>3. CASE v # w /\ worker[v].job # j
    BY <1>2, <1>3, <2>3 DEF IInv, Counted, Created
  <2>4. QED
    BY <2>1, <2>2, <2>3
<1>8. Producing'
  BY <1>4, <1>5 DEF IInv, Producing
<1>9. FencedAttempts'
  <2> SUFFICES ASSUME NEW k \in Created, job'[k].status = "RUNNING"
               PROVE  /\ job'[k].owner \in Workers
                      /\ \A v \in Workers : job'[k].owner = v /\ worker'[v].job = k
                                               => worker'[v].attempt = job'[k].attempts
    BY <1>5 DEF FencedAttempts, Owns
  <2>1. CASE k = j
    BY <1>2, <1>3, <2>1
  <2>2. CASE k # j
    <3>1. job'[k] = job[k] /\ worker'[w].job # k
      BY <1>2, <1>3, <2>2 DEF Created
    <3>2. QED
      BY <1>3, <3>1 DEF IInv, FencedAttempts, Owns
  <2>3. QED
    BY <2>1, <2>2
<1>10. DistinctAttempts'
  <2> SUFFICES ASSUME NEW w1 \in Workers, NEW w2 \in Workers, w1 # w2,
                      worker'[w1].job = worker'[w2].job, worker'[w1].job \in Jobs \ imported
               PROVE  worker'[w1].attempt # worker'[w2].attempt
    BY <1>4 DEF DistinctAttempts
  <2>1. CASE w1 = w
    BY <1>1, <1>3, <1>6, <2>1
  <2>2. CASE w2 = w
    BY <1>1, <1>3, <1>6, <2>2
  <2>3. CASE w1 # w /\ w2 # w
    BY <1>3, <2>3 DEF IInv, DistinctAttempts
  <2>4. QED
    BY <2>1, <2>2, <2>3
<1>11. RunsCounted'
  <2> SUFFICES ASSUME NEW run \in runs
               PROVE  /\ run[1] \in Created
                      /\ run[1] \notin imported => run[2] <= job'[run[1]].attempts
    BY <1>4, <1>5 DEF RunsCounted, Claim
  <2>1. run[1] \in Created /\ run[2] \in Nat
    BY SolverJobsAssumption DEF IInv, TypeOK, RunsCounted
  <2>2. CASE run[1] = j
    BY <1>1, <1>2, <2>1, <2>2 DEF IInv, RunsCounted
  <2>3. CASE run[1] # j
    BY <1>2, <2>1, <2>3 DEF IInv, RunsCounted, Created
  <2>4. QED
    BY <2>2, <2>3
<1>12. QED
  BY <1>7, <1>8, <1>9, <1>10, <1>11

-----------------------------------------------------------------------------
\* Every other action is within the frame.
LEMMA ProduceFrame == ASSUME IInv, TypeOK', NEW j \in Jobs, Produce(j) PROVE Frame
<1>1. job \in [Jobs -> Job \cup {NoJob}] /\ producer \in [Jobs -> {"none", "enqueue", "import"}]
  BY DEF IInv, TypeOK
<1>2. NewJob # NoJob /\ NewJob.status = "QUEUED"
  BY DEF NewJob, NoJob
<1>3. CASE Enqueue(j)
  BY <1>1, <1>2, <1>3 DEF IInv, Producing, Counted, Frame, Enqueue, Created
<1>4. CASE EnqueueEnd(j)
  BY <1>1, <1>4 DEF IInv, Producing, Counted, Frame, EnqueueEnd, Created
<1>5. CASE SendFails(j)
  <2>1. j \in Created /\ job[j] \in Job
    BY <1>5, CreatedIsJob DEF IInv, Producing, SendFails
  <2>2. job'[j].status = "FAILED" /\ job'[j].attempts = job[j].attempts
        /\ \A k \in Jobs \ {j} : job'[k] = job[k]
    BY <1>1, <1>5, <2>1 DEF SendFails, Job
  <2>3. job'[j] # NoJob
    BY <2>2 DEF NoJob
  <2>4. QED
    BY <1>1, <1>5, <2>1, <2>2, <2>3 DEF IInv, Producing, Counted, Frame, SendFails, Created
<1>6. CASE Import(j)
  BY <1>1, <1>2, <1>6 DEF IInv, Producing, Counted, Frame, Import, Created
<1>7. CASE \E stored \in BOOLEAN : Persist(j, stored)
  <2> SUFFICES ASSUME NEW stored \in BOOLEAN, Persist(j, stored) PROVE Frame
    BY <1>7
  <2>1. j \in Created /\ job[j] \in Job /\ j \in imported
    BY CreatedIsJob DEF IInv, Producing, Persist
  <2>2. job'[j].status = "SUCCEEDED" /\ \A k \in Jobs \ {j} : job'[k] = job[k]
    BY <1>1, <2>1 DEF Persist, Job
  <2>3. job'[j] # NoJob
    BY <2>2 DEF NoJob
  <2>4. \A run \in runs' : run \in runs \/ MayStore(run)
    BY <2>1 DEF Persist, MayStore
  <2>5. UNCHANGED <<imported, worker>> /\ \A k \in Jobs : producer'[k] = producer[k] \/ producer'[k] = "none"
    BY <1>1 DEF Persist
  <2> HIDE DEF MayStore
  <2>6. QED
    BY <1>1, <2>1, <2>2, <2>3, <2>4, <2>5 DEF IInv, Producing, Counted, Frame, Created
<1>8. CASE ImportFails(j)
  BY <1>1, <1>8 DEF IInv, Producing, Counted, Frame, ImportFails, Created
<1>9. QED
  BY <1>3, <1>4, <1>5, <1>6, <1>7, <1>8 DEF Produce

\* The operator's routes start no job and count no attempt.
LEMMA OperateFrame == ASSUME IInv, TypeOK', NEW j \in Jobs, Operate(j) PROVE Frame
<1>1. j \in Created /\ job[j] \in Job
  BY CreatedIsJob DEF IInv, Operate, Retry, Hold, Cancel
<1>2. /\ job'[j].status \in {"QUEUED", "HELD", "CANCELLED"} /\ job'[j].attempts = job[j].attempts
      /\ \A k \in Jobs \ {j} : job'[k] = job[k]
  BY <1>1 DEF IInv, TypeOK, Operate, Retry, Hold, Cancel, Job
<1>3. UNCHANGED <<producer, imported, runs, worker>>
  BY DEF Operate, Retry, Hold, Cancel
<1>4. job'[j] # NoJob /\ Created' = Created
  BY <1>1, <1>2 DEF NoJob, Created
<1>5. QED
  BY <1>1, <1>2, <1>3, <1>4 DEF IInv, Producing, Counted, Frame, Created

\* What a worker does with its job gives nobody a job and counts no attempt.
LEMMA WorkFrame == ASSUME IInv, TypeOK', NEW w \in Workers, Work(w) \/ Heartbeat(w) PROVE Frame
<1> DEFINE j == worker[w].job
<1>1. UNCHANGED <<producer, imported>>
  BY DEF Work, Heartbeat, StoreRun, Complete, FailRead, FailWrite, Drop
<1>2. worker[w] # Idle /\ j \in Created
  <2>1. worker[w].phase # "idle"
    BY DEF Work, Heartbeat, StoreRun, Complete, FailRead, FailWrite, Drop
  <2>2. QED
    BY <2>1 DEF Idle, IInv, Counted
<1>3. j \in Jobs /\ job[j] \in Job
  BY <1>2, CreatedIsJob DEF IInv, Created
<1>4. /\ \A v \in Workers \ {w} : worker'[v] = worker[v]
      /\ worker'[w] # Idle => /\ worker'[w].phase # "idle"
                              /\ worker'[w].job = worker[w].job
                              /\ worker'[w].attempt = worker[w].attempt
  <2>1. worker[w] \in Worker /\ worker[w].phase # "idle"
    BY <1>2 DEF IInv, TypeOK, Counted
  <2>2. QED
    <3>1. CASE Heartbeat(w) \/ StoreRun(w)
      BY <2>1, <3>1 DEF Heartbeat, StoreRun
    <3>2. CASE Complete(w) \/ FailWrite(w) \/ Drop(w)
      BY <3>2 DEF IInv, TypeOK, Complete, FailWrite, Drop, Become
    <3>3. CASE FailRead(w)
      BY <2>1, <3>3 DEF IInv, TypeOK, Worker, FailRead, Become
    <3>4. QED
      BY <3>1, <3>2, <3>3 DEF Work
<1>5. /\ \A k \in Jobs \ {j} : job'[k] = job[k]
      /\ job'[j].status \in Status
      /\ job'[j].attempts = job[j].attempts
      /\ job'[j].status = "RUNNING" => job[j].status = "RUNNING" /\ job'[j].owner = job[j].owner
  <2>1. CASE Heartbeat(w)
    BY <1>3, <2>1 DEF IInv, TypeOK, Heartbeat, Job
  <2>2. CASE StoreRun(w) \/ FailRead(w) \/ Drop(w)
    BY <1>3, <2>2 DEF StoreRun, FailRead, Drop, Job
  <2>3. CASE Complete(w)
    BY <1>3, <2>3 DEF IInv, TypeOK, Complete, Job, Status
  <2>4. CASE FailWrite(w)
    BY <1>3, <2>4, ZenonT(30) DEF IInv, TypeOK, FailWrite, Job, Status
  <2>5. QED
    BY <2>1, <2>2, <2>3, <2>4 DEF Work
<1>6. job'[j] # NoJob /\ Created' = Created
  BY <1>2, <1>5 DEF NoJob, Created, Status
<1>7. \A run \in runs' : run \in runs \/ MayStore(run)
  <2>1. CASE StoreRun(w)
    <3>1. \A run \in runs' : run \in runs \/ run = <<j, worker[w].attempt>>
      BY <2>1 DEF StoreRun
    <3>2. ASSUME NEW run, run = <<j, worker[w].attempt>> PROVE MayStore(run)
      <4>1. run[1] = j /\ run[2] = worker[w].attempt
        BY <3>2
      <4>2. QED
        BY <1>2, <4>1, Zenon DEF MayStore
    <3>3. QED
      BY <3>1, <3>2, Zenon
  <2>2. CASE UNCHANGED runs
    BY <2>2
  <2>3. QED
    BY <2>1, <2>2 DEF Work, Heartbeat, Complete, FailRead, FailWrite, Drop
<1>8. QED
  BY <1>1, <1>2, <1>4, <1>5, <1>6, <1>7 DEF IInv, Producing, Counted, Frame, Created

\* The passing of time is within the frame.
LEMMA TickFrame == ASSUME IInv, TypeOK', Tick PROVE Frame
<1>1. ASSUME NEW j \in Created
      PROVE  /\ job'[j] # NoJob
             /\ job'[j].status = job[j].status
             /\ job'[j].attempts = job[j].attempts
             /\ job'[j].owner = job[j].owner
  <2>1. j \in Jobs /\ job[j] \in Job
    BY CreatedIsJob DEF IInv, Created
  <2>2. /\ job'[j].status = job[j].status
        /\ job'[j].attempts = job[j].attempts
        /\ job'[j].owner = job[j].owner
    BY <2>1 DEF Tick, Job
  <2>3. QED
    BY <2>1, <2>2 DEF Job, Status, NoJob
<1>2. Created' = Created
  BY <1>1 DEF Tick, Created
<1>3. QED
  BY <1>1, <1>2 DEF IInv, Producing, Counted, Frame, Tick

-----------------------------------------------------------------------------
\* The inductive invariant holds in the initial state.
LEMMA InitIInv == Init => IInv
<1> SUFFICES ASSUME Init PROVE IInv
  OBVIOUS
<1>1. TypeOK
  BY IdleIsWorker DEF Init, TypeOK
<1>2. Created = {} /\ \A w \in Workers : worker[w] = Idle
  BY DEF Init, Created
<1>3. QED
  BY <1>1, <1>2, IdleIsWorker DEF IInv, Counted, Producing, RunsCounted, FencedAttempts, DistinctAttempts, Init

\* Every step of producers, workers, operator and clock keeps the inductive invariant.
LEMMA Preserved == IInv /\ [Next]_vars => IInv'
<1> SUFFICES ASSUME IInv, [Next]_vars PROVE IInv'
  OBVIOUS
<1>1. ASSUME NEW j \in Jobs, Produce(j) PROVE IInv'
  BY <1>1, ProduceType, ProduceFrame, FrameKeeps DEF IInv
<1>2. ASSUME NEW j \in Jobs, Operate(j) PROVE IInv'
  BY <1>2, OperateType, OperateFrame, FrameKeeps DEF IInv
<1>3. ASSUME NEW w \in Workers, Work(w) \/ Heartbeat(w) PROVE IInv'
  BY <1>3, WorkType, WorkFrame, FrameKeeps DEF IInv
<1>4. ASSUME NEW w \in Workers, NEW j \in Jobs, Claim(w, j) PROVE IInv'
  BY <1>4, ClaimType, ClaimKeeps DEF IInv
<1>5. CASE Tick
  BY <1>5, TickType, TickFrame, FrameKeeps DEF IInv
<1>6. CASE UNCHANGED vars
  BY <1>6 DEF vars, IInv, TypeOK, Counted, Producing, RunsCounted, FencedAttempts, DistinctAttempts, Created, Owns
<1>7. QED
  BY <1>1, <1>2, <1>3, <1>4, <1>5, <1>6 DEF Next

\* The inductive invariant is an invariant of the solver jobs.
THEOREM Invariance == Spec => []IInv
BY InitIInv, Preserved, PTL DEF Spec

\* Type correctness of the job table and of the workers.
THEOREM TypeCorrect == Spec => []TypeOK
BY Invariance, PTL DEF IInv

\* The ownership check of heartbeat, complete and fail lets only the newest
\* attempt of a job through.
THEOREM FencedAttemptsHolds == Spec => []FencedAttempts
BY Invariance, PTL DEF IInv

\* Two workers never solve the same attempt of an enqueued job.
THEOREM DistinctAttemptsHolds == Spec => []DistinctAttempts
BY Invariance, PTL DEF IInv

\* A worker that takes an enqueued job is given an attempt no run is stored of:
\* the claim counts one more than every run there is, whatever was reclaimed,
\* given up, retried or completed before.
THEOREM AttemptsStartFreshHolds == Spec => AttemptsStartFresh
<1> DEFINE Fresh == \A w \in Workers :
             worker[w].phase = "idle" /\ worker'[w].phase = "solving" /\ worker'[w].job \notin imported
                 => <<worker'[w].job, worker'[w].attempt>> \notin runs
<1>1. IInv /\ [Next]_vars => [Fresh]_vars
  <2> SUFFICES ASSUME IInv, Next, NEW w \in Workers, worker[w].phase = "idle",
                      worker'[w].phase = "solving", worker'[w].job \notin imported
               PROVE  <<worker'[w].job, worker'[w].attempt>> \notin runs
    OBVIOUS
  <2>1. IInv'
    BY Preserved
  <2>2. worker[w] = Idle /\ worker'[w] # Idle
    BY DEF IInv, Counted, Idle
  <2>3. ~Frame
    BY <2>2 DEF Frame
  <2>4. PICK v \in Workers, j \in Jobs : Claim(v, j)
    BY <2>1, <2>3, ProduceFrame, OperateFrame, WorkFrame, TickFrame DEF IInv, Next
  <2>5. worker'[w].job = j /\ worker'[w].attempt = job[j].attempts + 1
    BY <2>2, <2>4 DEF IInv, TypeOK, Claim, Become
  <2>6. job[j].attempts \in Int
    BY <2>4, CreatedIsJob, SolverJobsAssumption DEF IInv, Claim, Claimable, Job
  <2>7. ASSUME <<j, job[j].attempts + 1>> \in runs PROVE FALSE
    BY <2>5, <2>6, <2>7 DEF IInv, RunsCounted
  <2>8. QED
    BY <2>5, <2>7
<1>2. QED
  BY <1>1, Invariance, PTL DEF Spec, AttemptsStartFresh
=============================================================================
