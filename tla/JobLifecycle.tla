---------------------------- MODULE JobLifecycle ----------------------------
(***************************************************************************)
(* The asynchronous job path: JobService._submit in an API process, the    *)
(* arq queue in Redis, and _run_job in the worker process, which meet in   *)
(* the jobs table and in arq's queue and nowhere else.                     *)
(*                                                                         *)
(* One job id is one POST /jobs (the id is a fresh uuid). Every commit on  *)
(* the row, every read of it, every message to arq and every hand-over to  *)
(* arq is a step of its own, so that the two processes interleave between  *)
(* them and either can fail there.                                         *)
(*                                                                         *)
(* arq is a library: its steps (Deliver, GiveUp, Finish, LeaseExpires) and *)
(* the way it ends a coroutine (JobTimeout, Shutdown) are modelled from    *)
(* how worker.py and WorkerSettings use it. Rate limiting and validation,  *)
(* which precede the row, appear as Refuse; RateLimiter has the counters.  *)
(***************************************************************************)
EXTENDS Naturals, FiniteSets

CONSTANTS Jobs,        \* the submissions
          Persisted,   \* those with persist = True: the solve commits rows of its own
          MaxJobs,     \* WORKER_MAX_JOBS, jobs a worker runs at once
          MaxTries,    \* arq's max_tries
          Faults,      \* the fault kinds this environment may inject
          MaxFaults    \* how many of them, in all

FaultKinds == {"enqueue",      \* Redis refuses the connection or the command
               "lost_reply",   \* the command took effect, the handler saw an exception
               "api_death",    \* the request's task dies before it could compensate
               "db_error",     \* a commit of _run_job outside its try fails
               "job_timeout",  \* arq cancels the coroutine and does not retry it
               "shutdown",     \* SIGTERM: arq cancels every coroutine and retries them
               "crash"}        \* SIGKILL or OOM of the worker process

ASSUME JobAssumption ==
    /\ IsFiniteSet(Jobs)
    /\ Persisted \subseteq Jobs
    /\ MaxJobs \in Nat \ {0}
    /\ MaxTries \in Nat \ {0}
    /\ Faults \subseteq FaultKinds
    /\ MaxFaults \in Nat

VARIABLES status,    \* [Jobs -> Statuses], jobs.status
          payload,   \* [Jobs -> Payloads], the result and error of jobs.payload
          solutions, \* [Jobs -> Nat], Problem/Solution rows committed for the job
          req,       \* [Jobs -> ReqStates], the submitting request's handler
          queue,     \* job ids in arq's sorted set
          leased,    \* job ids with an in-progress key
          tries,     \* [Jobs -> Nat], arq's retry counter: deliveries so far
          att,       \* [Jobs -> AttStates], the coroutine running the job
          seen,      \* [Jobs -> Statuses], the status the coroutine loaded
          base,      \* [Jobs -> Payloads], base_payload: the payload it loaded
          faults,    \* faults injected so far
          fatal      \* history: one of them is answered by no retry and no compensation

rowVars == <<status, payload, solutions>>
arqVars == <<queue, leased, tries>>
attVars == <<att, seen, base>>
faultVars == <<faults, fatal>>
vars == <<rowVars, req, arqVars, attVars, faultVars>>

\* The jobs for which arq was told twice, or told although the client was not.
Redelivered == {j \in Jobs : tries[j] > 1}
EnqueuedInDoubt ==
    {j \in Jobs : req[j] \in {"failing", "error", "dead"} /\ (j \in queue \/ tries[j] > 0)}
Disturbed == Redelivered \union EnqueuedInDoubt

View == INSTANCE JobContract WITH view <- status, disturbed <- Disturbed

Terminal == {"succeeded", "failed"}
Statuses == {"none", "queued", "running"} \union Terminal
Errors   == {"none", "enqueue", "run"}
Payloads == [result : BOOLEAN, error : Errors]
ReqStates == {"start", "created", "failing", "refused", "accepted", "error", "dead"}
AttStates == {"idle", "loading", "loaded", "running", "solved", "caught", "finishing"}

EmptyPayload == [result |-> FALSE, error |-> "none"]

TypeOK ==
    /\ status \in [Jobs -> Statuses]
    /\ payload \in [Jobs -> Payloads]
    /\ solutions \in [Jobs -> Nat]
    /\ req \in [Jobs -> ReqStates]
    /\ queue \subseteq Jobs
    /\ leased \subseteq Jobs
    /\ tries \in [Jobs -> 0 .. MaxTries]
    /\ att \in [Jobs -> AttStates]
    /\ seen \in [Jobs -> Statuses]
    /\ base \in [Jobs -> Payloads]
    /\ faults \in 0 .. MaxFaults
    /\ fatal \in BOOLEAN

Init ==
    /\ status = [j \in Jobs |-> "none"]
    /\ payload = [j \in Jobs |-> EmptyPayload]
    /\ solutions = [j \in Jobs |-> 0]
    /\ req = [j \in Jobs |-> "start"]
    /\ queue = {}
    /\ leased = {}
    /\ tries = [j \in Jobs |-> 0]
    /\ att = [j \in Jobs |-> "idle"]
    /\ seen = [j \in Jobs |-> "none"]
    /\ base = [j \in Jobs |-> EmptyPayload]
    /\ faults = 0
    /\ fatal = FALSE

\* These leave a job to arq's retry or to the compensation of _submit.
RecoverableFaults == {"enqueue", "lost_reply", "shutdown", "crash"}

Fault(kind) ==
    /\ kind \in Faults
    /\ faults < MaxFaults
    /\ faults' = faults + 1
    /\ fatal' = (fatal \/ kind \notin RecoverableFaults)

\* JobRepository.update_status followed by commit.
WriteRow(j, s, p) ==
    /\ status' = [status EXCEPT ![j] = s]
    /\ payload' = [payload EXCEPT ![j] = p]
    /\ UNCHANGED solutions

ReqStep(j, from, to) == req[j] = from /\ req' = [req EXCEPT ![j] = to]
AttStep(j, from, to) == att[j] = from /\ att' = [att EXCEPT ![j] = to]

-----------------------------------------------------------------------------
(* JobService._submit *)

\* The rate limiter or the validation raises: no row was created.
Refuse(j) ==
    /\ ReqStep(j, "start", "refused")
    /\ UNCHANGED <<rowVars, arqVars, attVars, faultVars>>

\* The row is created and committed before arq hears of the job.
CreateRow(j) ==
    /\ ReqStep(j, "start", "created")
    /\ WriteRow(j, "queued", EmptyPayload)
    /\ UNCHANGED <<arqVars, attVars, faultVars>>

\* enqueue_job with _job_id = job.id, and the pool closed.
Enqueue(j) ==
    /\ ReqStep(j, "created", "accepted")
    /\ queue' = queue \union {j}
    /\ UNCHANGED <<rowVars, leased, tries, attVars, faultVars>>

\* Mutant: no except clause, the row stays as it was committed.
EnqueueFailsUncompensated(j) ==
    /\ Fault("enqueue")
    /\ ReqStep(j, "created", "error")
    /\ UNCHANGED <<rowVars, arqVars, attVars>>

\* create_pool or enqueue_job raises before Redis has the job.
EnqueueFails(j) ==
    /\ Fault("enqueue")
    /\ ReqStep(j, "created", "failing")
    /\ UNCHANGED <<rowVars, arqVars, attVars>>

\* Redis has the job, but the reply is lost or pool.aclose() raises.
EnqueueReplyLost(j) ==
    /\ Fault("lost_reply")
    /\ ReqStep(j, "created", "failing")
    /\ queue' = queue \union {j}
    /\ UNCHANGED <<rowVars, leased, tries, attVars>>

\* Mutant: the failure is recorded in a background task, after the response.
RecordEnqueueFailureLater(j) ==
    /\ \/ ReqStep(j, "failing", "error") /\ UNCHANGED rowVars
       \/ /\ ReqStep(j, "error", "error")
          /\ WriteRow(j, "failed", [result |-> FALSE, error |-> "enqueue"])
    /\ UNCHANGED <<arqVars, attVars, faultVars>>

\* The compensation writes the row from the session's identity map, where it
\* is still as created: nothing a worker wrote meanwhile is looked at.
RecordEnqueueFailure(j) ==
    /\ ReqStep(j, "failing", "error")
    /\ WriteRow(j, "failed", [result |-> FALSE, error |-> "enqueue"])
    /\ UNCHANGED <<arqVars, attVars, faultVars>>

\* The process dies, the task is cancelled (CancelledError is no Exception), or
\* the compensating commit itself fails.
ApiDies(j) ==
    /\ Fault("api_death")
    /\ \E from \in {"created", "failing"} : ReqStep(j, from, "dead")
    /\ UNCHANGED <<rowVars, arqVars, attVars>>

-----------------------------------------------------------------------------
(* _run_job, with the runner of solve_job or simulate_job *)

\* jobs.get_by_id. The row exists (EntryHasRow), so the early return on a
\* missing row is never taken.
Load(j) ==
    /\ AttStep(j, "loading", "loaded")
    /\ seen' = [seen EXCEPT ![j] = status[j]]
    /\ base' = [base EXCEPT ![j] = payload[j]]
    /\ UNCHANGED <<rowVars, req, arqVars, faultVars>>

\* Mutant: the commit after update_status("running") is missing.
MarkRunningUncommitted(j) ==
    /\ AttStep(j, "loaded", "running")
    /\ UNCHANGED <<rowVars, req, arqVars, seen, base, faultVars>>

\* update_status("running") and commit. The ORM emits no UPDATE when the loaded
\* row was already running.
MarkRunning(j) ==
    /\ AttStep(j, "loaded", "running")
    /\ status' = [status EXCEPT ![j] = IF seen[j] = "running" THEN @ ELSE "running"]
    /\ UNCHANGED <<payload, solutions, req, arqVars, seen, base, faultVars>>

\* Mutant: the runner solves again after a first commit.
RunnerReturnsTwice(j) ==
    /\ AttStep(j, "running", "solved")
    /\ solutions' = [solutions EXCEPT ![j] = IF j \in Persisted THEN @ + 2 ELSE @]
    /\ UNCHANGED <<status, payload, req, arqVars, seen, base, faultVars>>

\* The runner returns. SolveService has by then committed the Problem and the
\* Solution of a persisted request, in a transaction of its own.
RunnerReturns(j) ==
    /\ AttStep(j, "running", "solved")
    /\ solutions' = [solutions EXCEPT ![j] = IF j \in Persisted THEN @ + 1 ELSE @]
    /\ UNCHANGED <<status, payload, req, arqVars, seen, base, faultVars>>

\* The runner raises an Exception: validation, no algorithm, solve timeout, a
\* database error before its commit (rolled back), ...
RunnerRaises(j) ==
    /\ AttStep(j, "running", "caught")
    /\ UNCHANGED <<rowVars, req, arqVars, seen, base, faultVars>>

\* Mutant: the runner's fields are not merged into the payload.
WriteSucceededWithoutFields(j) ==
    /\ AttStep(j, "solved", "finishing")
    /\ WriteRow(j, "succeeded", base[j])
    /\ UNCHANGED <<req, arqVars, seen, base, faultVars>>

WriteSucceeded(j) ==
    /\ AttStep(j, "solved", "finishing")
    /\ WriteRow(j, "succeeded", [result |-> TRUE, error |-> base[j].error])
    /\ UNCHANGED <<req, arqVars, seen, base, faultVars>>

\* Mutant: the failure is recorded without its message.
WriteFailedWithoutError(j) ==
    /\ AttStep(j, "caught", "finishing")
    /\ WriteRow(j, "failed", base[j])
    /\ UNCHANGED <<req, arqVars, seen, base, faultVars>>

\* Mutant: no rollback, so recording the failure raises as well.
WriteFailedWithoutRollback(j) ==
    /\ AttStep(j, "caught", "finishing")
    /\ UNCHANGED <<rowVars, req, arqVars, seen, base, faultVars>>

WriteFailed(j) ==
    /\ AttStep(j, "caught", "finishing")
    /\ WriteRow(j, "failed", [result |-> base[j].result, error |-> "run"])
    /\ UNCHANGED <<req, arqVars, seen, base, faultVars>>

\* The exception of a failed commit reaches arq, which does not retry it.
CommitFails(j) ==
    /\ Fault("db_error")
    /\ \E from \in {"loading", "loaded", "solved", "caught"} : AttStep(j, from, "finishing")
    /\ UNCHANGED <<rowVars, req, arqVars, seen, base>>

-----------------------------------------------------------------------------
(* arq and the worker process *)

Live == {j \in Jobs : att[j] # "idle"}

Deliver(j) ==
    /\ j \in queue \ leased
    /\ Cardinality(Live) < MaxJobs
    /\ tries[j] < MaxTries
    /\ AttStep(j, "idle", "loading")
    /\ leased' = leased \union {j}
    /\ tries' = [tries EXCEPT ![j] = @ + 1]
    /\ UNCHANGED <<rowVars, req, queue, seen, base, faultVars>>

\* Max retries exceeded: arq drops the job and never calls _run_job.
GiveUp(j) ==
    /\ j \in queue \ leased
    /\ att[j] = "idle"
    /\ tries[j] = MaxTries
    /\ queue' = queue \ {j}
    /\ UNCHANGED <<rowVars, req, leased, tries, attVars, faultVars>>

\* The coroutine ended: arq removes the job from its queue.
Finish(j) ==
    /\ AttStep(j, "finishing", "idle")
    /\ queue' = queue \ {j}
    /\ leased' = leased \ {j}
    /\ UNCHANGED <<rowVars, req, tries, seen, base, faultVars>>

\* job_timeout (300 s): cancelled at an await, finished as failed, not retried.
JobTimeout(j) ==
    /\ Fault("job_timeout")
    /\ att[j] \notin {"idle", "finishing"}
    /\ att' = [att EXCEPT ![j] = "finishing"]
    /\ UNCHANGED <<rowVars, req, arqVars, seen, base>>

\* SIGTERM cancels the running coroutines, the last commit of _run_job included,
\* which may have taken effect by then; their jobs stay queued, unleased.
Shutdown ==
    /\ Fault("shutdown")
    /\ Live # {}
    /\ att' = [j \in Jobs |-> "idle"]
    /\ leased' = leased \ Live
    /\ UNCHANGED <<rowVars, req, queue, tries, seen, base>>

\* The process is gone: every coroutine with it, the in-progress keys stay.
Crash ==
    /\ Fault("crash")
    /\ Live # {}
    /\ att' = [j \in Jobs |-> "idle"]
    /\ UNCHANGED <<rowVars, req, arqVars, seen, base>>

\* The in-progress key of a dead attempt expires (job_timeout + 10 s), long
\* after the submitting request has recorded its failure.
LeaseExpires(j) ==
    /\ j \in leased
    /\ att[j] = "idle"
    /\ req[j] # "failing"
    /\ leased' = leased \ {j}
    /\ UNCHANGED <<rowVars, req, queue, tries, attVars, faultVars>>

-----------------------------------------------------------------------------
SubmitStep(j) ==
    \/ Refuse(j) \/ CreateRow(j) \/ Enqueue(j) \/ EnqueueFails(j)
    \/ EnqueueReplyLost(j) \/ RecordEnqueueFailure(j) \/ ApiDies(j)

RunStep(j) ==
    \/ Load(j) \/ MarkRunning(j) \/ RunnerReturns(j) \/ RunnerRaises(j)
    \/ WriteSucceeded(j) \/ WriteFailed(j) \/ CommitFails(j)

ArqStep(j) ==
    Deliver(j) \/ GiveUp(j) \/ Finish(j) \/ JobTimeout(j) \/ LeaseExpires(j)

Next ==
    \/ \E j \in Jobs : SubmitStep(j) \/ RunStep(j) \/ ArqStep(j)
    \/ Shutdown
    \/ Crash

Spec == Init /\ [][Next]_vars

\* A request that created a row goes on, arq polls its queue and expires its
\* keys, and a runner ends (run_isolated bounds every solve). The arrival of
\* requests and the faults are not fair.
JobFairness(j) ==
    /\ WF_vars(Enqueue(j)) /\ WF_vars(RecordEnqueueFailure(j))
    /\ WF_vars(Deliver(j)) /\ WF_vars(LeaseExpires(j)) /\ WF_vars(Finish(j))
    /\ WF_vars(Load(j)) /\ WF_vars(MarkRunning(j))
    /\ WF_vars(RunnerReturns(j) \/ RunnerRaises(j))
    /\ WF_vars(WriteSucceeded(j)) /\ WF_vars(WriteFailed(j))

FairSpec == Spec /\ \A j \in Jobs : JobFairness(j)

-----------------------------------------------------------------------------
(* Safety, under every fault *)

\* No worker is ever handed a job whose row it cannot read: the row is committed
\* before arq hears of the job (the early return of _run_job on None is dead code).
EntryHasRow == \A j \in queue : status[j] # "none"

\* A settled row carries what its status announces, whichever process wrote it
\* and in whatever order: a success has its result, and the rows its
\* problem_id and solution_id point to; a failure has its error.
Settled(j) ==
    /\ status[j] = "succeeded" =>
           payload[j].result /\ (j \in Persisted => solutions[j] > 0)
    /\ status[j] = "failed" => payload[j].error # "none"

SettledPayload == \A j \in Jobs : Settled(j)

\* What JobStatusResponse documents (result only when succeeded, error only when
\* failed) holds of every job that is not disturbed.
ResponseMatchesStatus(j) ==
    /\ payload[j].result <=> status[j] = "succeeded"
    /\ payload[j].error # "none" <=> status[j] = "failed"

UndisturbedResponse == \A j \in Jobs \ Disturbed : ResponseMatchesStatus(j)

\* The solve of a job commits its Problem and Solution at most once for each
\* delivery: a duplicate needs a redelivery, so at most MaxTries copies exist.
SolutionsPerDelivery ==
    \A j \in Jobs : solutions[j] <= tries[j] /\ tries[j] <= MaxTries

\* Once arq has dropped a job and its request has ended, nobody writes its row
\* again: what a client polls from then on is final.
Dropped(j) == j \notin queue /\ req[j] \in {"accepted", "error", "dead", "refused"}

FinalOnceDropped ==
    [][\A j \in Jobs : Dropped(j) => UNCHANGED <<status[j], payload[j], solutions[j]>>]_vars

\* The job path implements the contract a polling client relies on.
Contract == View!ContractSpec

(* Recovery *)

\* More has failed than arq's retries and the compensation of _submit answer.
Overwhelmed == fatal \/ faults >= MaxTries

\* No queued or running row is orphaned: its request is still to compensate, or
\* arq still holds the job and will deliver it.
PendingIsOwned ==
    Overwhelmed \/ \A j \in Jobs : status[j] \in {"queued", "running"} =>
                      req[j] \in {"created", "failing"} \/ j \in queue

\* Every job whose row was created settles, and stays settled, whatever fails, as
\* long as it can be retried.
JobsSettle ==
    \A j \in Jobs : (status[j] # "none") ~> (Overwhelmed \/ [](status[j] \in Terminal))

(* What the documentation claims without exception *)

\* schemas/job.py: "result: only when succeeded", "error: only when failed".
ResponseAsDocumented == \A j \in Jobs : ResponseMatchesStatus(j)

\* tests/unit/test_worker.py: a job does not stay stuck in running.
RunningIsAttended == \A j \in Jobs : status[j] = "running" => j \in queue
=============================================================================
