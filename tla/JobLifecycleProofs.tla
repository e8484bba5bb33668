------------------------- MODULE JobLifecycleProofs -------------------------
(***************************************************************************)
(* Theorems about JobLifecycle, for every set of jobs, every number of     *)
(* slots and tries, and every choice and number of faults.                 *)
(***************************************************************************)
EXTENDS JobLifecycle, TLAPS

\* The domain of every action of the job path, by name.
LEMMA TypeOKInductive == TypeOK /\ [Next]_vars => TypeOK'
<1> SUFFICES ASSUME TypeOK, [Next]_vars PROVE TypeOK'
  OBVIOUS
<1> USE JobAssumption DEF TypeOK, rowVars, arqVars, attVars, faultVars, Statuses, Terminal,
        Payloads, Errors, ReqStates, AttStates, EmptyPayload, ReqStep, AttStep, WriteRow, Fault
<1>1. ASSUME NEW j \in Jobs, SubmitStep(j) PROVE TypeOK'
  <2>1. CASE Refuse(j)  BY <2>1 DEF Refuse
  <2>2. CASE CreateRow(j)  BY <2>2 DEF CreateRow
  <2>3. CASE Enqueue(j)  BY <2>3 DEF Enqueue
  <2>4. CASE EnqueueFails(j)  BY <2>4 DEF EnqueueFails
  <2>5. CASE EnqueueReplyLost(j)  BY <2>5 DEF EnqueueReplyLost
  <2>6. CASE RecordEnqueueFailure(j)  BY <2>6 DEF RecordEnqueueFailure
  <2>7. CASE ApiDies(j)  BY <2>7 DEF ApiDies
  <2> QED  BY <1>1, <2>1, <2>2, <2>3, <2>4, <2>5, <2>6, <2>7 DEF SubmitStep
<1>2. ASSUME NEW j \in Jobs, RunStep(j) PROVE TypeOK'
  <2>1. CASE Load(j)  BY <2>1 DEF Load
  <2>2. CASE MarkRunning(j)  BY <2>2 DEF MarkRunning
  <2>3. CASE RunnerReturns(j)  BY <2>3 DEF RunnerReturns
  <2>4. CASE RunnerRaises(j)  BY <2>4 DEF RunnerRaises
  <2>5. CASE WriteSucceeded(j)  BY <2>5 DEF WriteSucceeded
  <2>6. CASE WriteFailed(j)  BY <2>6 DEF WriteFailed
  <2>7. CASE CommitFails(j)  BY <2>7 DEF CommitFails
  <2> QED  BY <1>2, <2>1, <2>2, <2>3, <2>4, <2>5, <2>6, <2>7 DEF RunStep
<1>3. ASSUME NEW j \in Jobs, ArqStep(j) PROVE TypeOK'
  <2>1. CASE Deliver(j)  BY <2>1 DEF Deliver
  <2>2. CASE GiveUp(j)  BY <2>2 DEF GiveUp
  <2>3. CASE Finish(j)  BY <2>3 DEF Finish
  <2>4. CASE JobTimeout(j)  BY <2>4 DEF JobTimeout
  <2>5. CASE LeaseExpires(j)  BY <2>5 DEF LeaseExpires
  <2> QED  BY <1>3, <2>1, <2>2, <2>3, <2>4, <2>5 DEF ArqStep
<1>4. CASE Shutdown  BY <1>4 DEF Shutdown, Live
<1>5. CASE Crash  BY <1>5 DEF Crash
<1>6. CASE UNCHANGED vars  BY <1>6 DEF vars
<1> QED  BY <1>1, <1>2, <1>3, <1>4, <1>5, <1>6 DEF Next

-----------------------------------------------------------------------------
(* The inductive invariant, job by job. *)

\* A request that has not handed its job over has not been overtaken by arq.
RequestPhase(k) ==
    /\ req[k] \in {"start", "refused"} <=> status[k] = "none"
    /\ req[k] \in {"start", "refused", "created"} => k \notin queue /\ tries[k] = 0

\* A coroutine runs a job arq still holds, and has not solved it yet when it
\* is about to: every solution was paid for by a delivery.
AttemptPhase(k) ==
    /\ att[k] # "idle" => k \in queue /\ tries[k] > 0
    /\ solutions[k] <= tries[k]
    /\ att[k] \in {"loading", "loaded", "running"} => solutions[k] < tries[k]
    /\ att[k] = "solved" /\ k \in Persisted => solutions[k] > 0

\* Until it is disturbed a job goes through its phases in the documented order.
AwaitsFirstRun(k) ==
    \/ req[k] \in {"created", "failing"}
    \/ att[k] \in {"loading", "loaded"}
    \/ k \in queue /\ tries[k] = 0

UndisturbedPhase(k) ==
    /\ ResponseMatchesStatus(k)
    /\ AwaitsFirstRun(k) => status[k] = "queued"
    /\ att[k] = "loaded" => seen[k] = "queued" /\ base[k] = EmptyPayload
    /\ att[k] \in {"running", "solved", "caught"} =>
           status[k] = "running" /\ base[k] = EmptyPayload

JobInv(k) ==
    /\ RequestPhase(k)
    /\ AttemptPhase(k)
    /\ Settled(k)
    /\ k \notin Disturbed => UndisturbedPhase(k)

IInv == TypeOK /\ \A k \in Jobs : JobInv(k)

\* RequestPhase is preserved by every step.
LEMMA RequestPhaseInductive ==
    ASSUME TypeOK, NEW k \in Jobs, JobInv(k), [Next]_vars
    PROVE  RequestPhase(k)'
<1> USE DEF TypeOK, rowVars, arqVars, attVars, faultVars, Statuses, Terminal, Payloads, Errors,
        ReqStates, AttStates, EmptyPayload, ReqStep, AttStep, WriteRow, Fault
<1> USE DEF JobInv, RequestPhase, AttemptPhase
<1>1. ASSUME NEW j \in Jobs, SubmitStep(j) PROVE RequestPhase(k)'
  <2>1. CASE Refuse(j)  BY <2>1 DEF Refuse
  <2>2. CASE CreateRow(j)  BY <2>2 DEF CreateRow
  <2>3. CASE Enqueue(j)  BY <2>3 DEF Enqueue
  <2>4. CASE EnqueueFails(j)  BY <2>4 DEF EnqueueFails
  <2>5. CASE EnqueueReplyLost(j)  BY <2>5 DEF EnqueueReplyLost
  <2>6. CASE RecordEnqueueFailure(j)  BY <2>6 DEF RecordEnqueueFailure
  <2>7. CASE ApiDies(j)  BY <2>7 DEF ApiDies
  <2> QED  BY <1>1, <2>1, <2>2, <2>3, <2>4, <2>5, <2>6, <2>7 DEF SubmitStep
<1>2. ASSUME NEW j \in Jobs, RunStep(j) PROVE RequestPhase(k)'
  <2>1. CASE Load(j)  BY <2>1 DEF Load
  <2>2. CASE MarkRunning(j)  BY <2>2 DEF MarkRunning
  <2>3. CASE RunnerReturns(j)  BY <2>3 DEF RunnerReturns
  <2>4. CASE RunnerRaises(j)  BY <2>4 DEF RunnerRaises
  <2>5. CASE WriteSucceeded(j)  BY <2>5 DEF WriteSucceeded
  <2>6. CASE WriteFailed(j)  BY <2>6 DEF WriteFailed
  <2>7. CASE CommitFails(j)  BY <2>7 DEF CommitFails
  <2> QED  BY <1>2, <2>1, <2>2, <2>3, <2>4, <2>5, <2>6, <2>7 DEF RunStep
<1>3. ASSUME NEW j \in Jobs, ArqStep(j) PROVE RequestPhase(k)'
  <2>1. CASE Deliver(j)  BY <2>1 DEF Deliver
  <2>2. CASE GiveUp(j)  BY <2>2 DEF GiveUp
  <2>3. CASE Finish(j)  BY <2>3 DEF Finish
  <2>4. CASE JobTimeout(j)  BY <2>4 DEF JobTimeout
  <2>5. CASE LeaseExpires(j)  BY <2>5 DEF LeaseExpires
  <2> QED  BY <1>3, <2>1, <2>2, <2>3, <2>4, <2>5 DEF ArqStep
<1>4. CASE Shutdown  BY <1>4 DEF Shutdown, Live
<1>5. CASE Crash  BY <1>5 DEF Crash
<1>6. CASE UNCHANGED vars  BY <1>6 DEF vars
<1> QED  BY <1>1, <1>2, <1>3, <1>4, <1>5, <1>6 DEF Next

\* AttemptPhase is preserved by every step.
LEMMA AttemptPhaseInductive ==
    ASSUME TypeOK, NEW k \in Jobs, JobInv(k), [Next]_vars
    PROVE  AttemptPhase(k)'
<1> USE DEF TypeOK, rowVars, arqVars, attVars, faultVars, Statuses, Terminal, Payloads, Errors,
        ReqStates, AttStates, EmptyPayload, ReqStep, AttStep, WriteRow, Fault
<1> USE DEF JobInv, RequestPhase, AttemptPhase
<1>1. ASSUME NEW j \in Jobs, SubmitStep(j) PROVE AttemptPhase(k)'
  <2>1. CASE Refuse(j)  BY <2>1 DEF Refuse
  <2>2. CASE CreateRow(j)  BY <2>2 DEF CreateRow
  <2>3. CASE Enqueue(j)  BY <2>3 DEF Enqueue
  <2>4. CASE EnqueueFails(j)  BY <2>4 DEF EnqueueFails
  <2>5. CASE EnqueueReplyLost(j)  BY <2>5 DEF EnqueueReplyLost
  <2>6. CASE RecordEnqueueFailure(j)  BY <2>6 DEF RecordEnqueueFailure
  <2>7. CASE ApiDies(j)  BY <2>7 DEF ApiDies
  <2> QED  BY <1>1, <2>1, <2>2, <2>3, <2>4, <2>5, <2>6, <2>7 DEF SubmitStep
<1>2. ASSUME NEW j \in Jobs, RunStep(j) PROVE AttemptPhase(k)'
  <2>1. CASE Load(j)  BY <2>1 DEF Load
  <2>2. CASE MarkRunning(j)  BY <2>2 DEF MarkRunning
  <2>3. CASE RunnerReturns(j)  BY <2>3 DEF RunnerReturns
  <2>4. CASE RunnerRaises(j)  BY <2>4 DEF RunnerRaises
  <2>5. CASE WriteSucceeded(j)  BY <2>5 DEF WriteSucceeded
  <2>6. CASE WriteFailed(j)  BY <2>6 DEF WriteFailed
  <2>7. CASE CommitFails(j)  BY <2>7 DEF CommitFails
  <2> QED  BY <1>2, <2>1, <2>2, <2>3, <2>4, <2>5, <2>6, <2>7 DEF RunStep
<1>3. ASSUME NEW j \in Jobs, ArqStep(j) PROVE AttemptPhase(k)'
  <2>1. CASE Deliver(j)  BY <2>1 DEF Deliver
  <2>2. CASE GiveUp(j)  BY <2>2 DEF GiveUp
  <2>3. CASE Finish(j)  BY <2>3 DEF Finish
  <2>4. CASE JobTimeout(j)  BY <2>4 DEF JobTimeout
  <2>5. CASE LeaseExpires(j)  BY <2>5 DEF LeaseExpires
  <2> QED  BY <1>3, <2>1, <2>2, <2>3, <2>4, <2>5 DEF ArqStep
<1>4. CASE Shutdown  BY <1>4 DEF Shutdown, Live
<1>5. CASE Crash  BY <1>5 DEF Crash
<1>6. CASE UNCHANGED vars  BY <1>6 DEF vars
<1> QED  BY <1>1, <1>2, <1>3, <1>4, <1>5, <1>6 DEF Next

\* Settled is preserved by every step.
LEMMA SettledInductive ==
    ASSUME TypeOK, NEW k \in Jobs, JobInv(k), [Next]_vars
    PROVE  Settled(k)'
<1> USE DEF TypeOK, rowVars, arqVars, attVars, faultVars, Statuses, Terminal, Payloads, Errors,
        ReqStates, AttStates, EmptyPayload, ReqStep, AttStep, WriteRow, Fault
<1> USE DEF JobInv, AttemptPhase, Settled
<1>1. ASSUME NEW j \in Jobs, SubmitStep(j) PROVE Settled(k)'
  <2>1. CASE Refuse(j)  BY <2>1 DEF Refuse
  <2>2. CASE CreateRow(j)  BY <2>2 DEF CreateRow
  <2>3. CASE Enqueue(j)  BY <2>3 DEF Enqueue
  <2>4. CASE EnqueueFails(j)  BY <2>4 DEF EnqueueFails
  <2>5. CASE EnqueueReplyLost(j)  BY <2>5 DEF EnqueueReplyLost
  <2>6. CASE RecordEnqueueFailure(j)  BY <2>6 DEF RecordEnqueueFailure
  <2>7. CASE ApiDies(j)  BY <2>7 DEF ApiDies
  <2> QED  BY <1>1, <2>1, <2>2, <2>3, <2>4, <2>5, <2>6, <2>7 DEF SubmitStep
<1>2. ASSUME NEW j \in Jobs, RunStep(j) PROVE Settled(k)'
  <2>1. CASE Load(j)  BY <2>1 DEF Load
  <2>2. CASE MarkRunning(j)  BY <2>2 DEF MarkRunning
  <2>3. CASE RunnerReturns(j)  BY <2>3 DEF RunnerReturns
  <2>4. CASE RunnerRaises(j)  BY <2>4 DEF RunnerRaises
  <2>5. CASE WriteSucceeded(j)  BY <2>5 DEF WriteSucceeded
  <2>6. CASE WriteFailed(j)  BY <2>6 DEF WriteFailed
  <2>7. CASE CommitFails(j)  BY <2>7 DEF CommitFails
  <2> QED  BY <1>2, <2>1, <2>2, <2>3, <2>4, <2>5, <2>6, <2>7 DEF RunStep
<1>3. ASSUME NEW j \in Jobs, ArqStep(j) PROVE Settled(k)'
  <2>1. CASE Deliver(j)  BY <2>1 DEF Deliver
  <2>2. CASE GiveUp(j)  BY <2>2 DEF GiveUp
  <2>3. CASE Finish(j)  BY <2>3 DEF Finish
  <2>4. CASE JobTimeout(j)  BY <2>4 DEF JobTimeout
  <2>5. CASE LeaseExpires(j)  BY <2>5 DEF LeaseExpires
  <2> QED  BY <1>3, <2>1, <2>2, <2>3, <2>4, <2>5 DEF ArqStep
<1>4. CASE Shutdown  BY <1>4 DEF Shutdown, Live
<1>5. CASE Crash  BY <1>5 DEF Crash
<1>6. CASE UNCHANGED vars  BY <1>6 DEF vars
<1> QED  BY <1>1, <1>2, <1>3, <1>4, <1>5, <1>6 DEF Next

\* A job is disturbed for good, and until then keeps to its phases.
LEMMA UndisturbedPhaseInductive ==
    ASSUME TypeOK, NEW k \in Jobs, JobInv(k), [Next]_vars
    PROVE  (k \notin Disturbed => UndisturbedPhase(k))'
<1> USE DEF TypeOK, rowVars, arqVars, attVars, faultVars, Statuses, Terminal, Payloads, Errors,
        ReqStates, AttStates, EmptyPayload, ReqStep, AttStep, WriteRow, Fault
<1> USE DEF JobInv, RequestPhase, AttemptPhase, Disturbed,
        Redelivered, EnqueuedInDoubt, UndisturbedPhase, AwaitsFirstRun, ResponseMatchesStatus
<1>1. ASSUME NEW j \in Jobs, SubmitStep(j) PROVE (k \notin Disturbed => UndisturbedPhase(k))'
  <2>1. CASE Refuse(j)  BY <2>1 DEF Refuse
  <2>2. CASE CreateRow(j)  BY <2>2 DEF CreateRow
  <2>3. CASE Enqueue(j)  BY <2>3 DEF Enqueue
  <2>4. CASE EnqueueFails(j)  BY <2>4 DEF EnqueueFails
  <2>5. CASE EnqueueReplyLost(j)  BY <2>5 DEF EnqueueReplyLost
  <2>6. CASE RecordEnqueueFailure(j)  BY <2>6 DEF RecordEnqueueFailure
  <2>7. CASE ApiDies(j)  BY <2>7 DEF ApiDies
  <2> QED  BY <1>1, <2>1, <2>2, <2>3, <2>4, <2>5, <2>6, <2>7 DEF SubmitStep
<1>2. ASSUME NEW j \in Jobs, RunStep(j) PROVE (k \notin Disturbed => UndisturbedPhase(k))'
  <2>1. CASE Load(j)  BY <2>1 DEF Load
  <2>2. CASE MarkRunning(j)  BY <2>2 DEF MarkRunning
  <2>3. CASE RunnerReturns(j)  BY <2>3 DEF RunnerReturns
  <2>4. CASE RunnerRaises(j)  BY <2>4 DEF RunnerRaises
  <2>5. CASE WriteSucceeded(j)  BY <2>5 DEF WriteSucceeded
  <2>6. CASE WriteFailed(j)  BY <2>6 DEF WriteFailed
  <2>7. CASE CommitFails(j)  BY <2>7 DEF CommitFails
  <2> QED  BY <1>2, <2>1, <2>2, <2>3, <2>4, <2>5, <2>6, <2>7 DEF RunStep
<1>3. ASSUME NEW j \in Jobs, ArqStep(j) PROVE (k \notin Disturbed => UndisturbedPhase(k))'
  <2>1. CASE Deliver(j)  BY <2>1, JobAssumption DEF Deliver
  <2>2. CASE GiveUp(j)  BY <2>2, JobAssumption DEF GiveUp
  <2>3. CASE Finish(j)  BY <2>3 DEF Finish
  <2>4. CASE JobTimeout(j)  BY <2>4 DEF JobTimeout
  <2>5. CASE LeaseExpires(j)  BY <2>5 DEF LeaseExpires
  <2> QED  BY <1>3, <2>1, <2>2, <2>3, <2>4, <2>5 DEF ArqStep
<1>4. CASE Shutdown  BY <1>4 DEF Shutdown, Live
<1>5. CASE Crash  BY <1>5 DEF Crash
<1>6. CASE UNCHANGED vars  BY <1>6 DEF vars
<1> QED  BY <1>1, <1>2, <1>3, <1>4, <1>5, <1>6 DEF Next

-----------------------------------------------------------------------------
(* Safety *)

LEMMA IInvInit == Init => IInv
<1> SUFFICES ASSUME Init PROVE IInv
  OBVIOUS
<1>1. fatal \in BOOLEAN
  BY Zenon DEF Init
<1>2. TypeOK
  BY <1>1, JobAssumption DEF Init, TypeOK, Statuses, Terminal, Payloads, Errors, ReqStates,
      AttStates, EmptyPayload
<1>3. ASSUME NEW k \in Jobs PROVE JobInv(k)
  BY <1>3 DEF Init, JobInv, RequestPhase, AttemptPhase, Settled, UndisturbedPhase,
      ResponseMatchesStatus, AwaitsFirstRun, EmptyPayload
<1> QED  BY <1>2, <1>3 DEF IInv

LEMMA IInvInductive == IInv /\ [Next]_vars => IInv'
<1> SUFFICES ASSUME IInv, [Next]_vars PROVE IInv'
  OBVIOUS
<1>1. TypeOK'
  BY TypeOKInductive DEF IInv
<1>2. ASSUME NEW k \in Jobs PROVE JobInv(k)'
  <2>1. JobInv(k)
    BY DEF IInv
  <2>2. RequestPhase(k)' /\ AttemptPhase(k)' /\ Settled(k)'
    BY <2>1, RequestPhaseInductive, AttemptPhaseInductive, SettledInductive DEF IInv
  <2>3. (k \notin Disturbed => UndisturbedPhase(k))'
    BY <2>1, UndisturbedPhaseInductive DEF IInv
  <2> QED  BY <2>2, <2>3 DEF JobInv
<1> QED  BY <1>1, <1>2 DEF IInv

\* The inductive invariant holds in every reachable state.
THEOREM Invariance == Spec => []IInv
BY IInvInit, IInvInductive, PTL DEF Spec

\* Every variable stays in its domain; in particular arq never delivers a job
\* more than MaxTries times.
THEOREM TypeCorrect == Spec => []TypeOK
<1>1. IInv => TypeOK
  BY DEF IInv
<1> QED  BY <1>1, Invariance, PTL

\* A worker always finds the row of the job it is handed (worker.py:73).
THEOREM WorkersFindTheirRow == Spec => []EntryHasRow
<1>1. IInv => EntryHasRow
  BY DEF IInv, JobInv, RequestPhase, EntryHasRow, TypeOK
<1> QED  BY <1>1, Invariance, PTL

\* Whatever the interleaving and the faults, a success has its result and its
\* stored rows, and a failure its error.
THEOREM SettledRowsAreComplete == Spec => []SettledPayload
<1>1. IInv => SettledPayload
  BY DEF IInv, JobInv, SettledPayload
<1> QED  BY <1>1, Invariance, PTL

\* The response schema's documentation holds of every undisturbed job.
THEOREM UndisturbedResponsesAreDocumented == Spec => []UndisturbedResponse
<1>1. IInv => UndisturbedResponse
  BY DEF IInv, JobInv, UndisturbedPhase, UndisturbedResponse
<1> QED  BY <1>1, Invariance, PTL

\* The rows a solve commits are bounded by the deliveries of its job.
THEOREM SolutionsAreBounded == Spec => []SolutionsPerDelivery
<1>1. IInv => SolutionsPerDelivery
  BY JobAssumption DEF IInv, JobInv, AttemptPhase, SolutionsPerDelivery, TypeOK
<1> QED  BY <1>1, Invariance, PTL

\* A step leaves the row of a dropped job alone: its writers would be its request,
\* which has ended, or a coroutine, which runs only jobs arq still holds.
LEMMA DroppedRowsAreLeftAlone ==
    ASSUME TypeOK, NEW k \in Jobs, JobInv(k), Dropped(k), [Next]_vars
    PROVE  UNCHANGED <<status[k], payload[k], solutions[k]>>
<1> USE DEF TypeOK, rowVars, arqVars, attVars, faultVars, Statuses, Terminal, Payloads, Errors,
        ReqStates, AttStates, EmptyPayload, ReqStep, AttStep, WriteRow, Fault
<1> USE DEF JobInv, RequestPhase, AttemptPhase, Dropped
<1>1. ASSUME NEW j \in Jobs, SubmitStep(j) PROVE UNCHANGED <<status[k], payload[k], solutions[k]>>
  <2>1. CASE Refuse(j)  BY <2>1 DEF Refuse
  <2>2. CASE CreateRow(j)  BY <2>2 DEF CreateRow
  <2>3. CASE Enqueue(j)  BY <2>3 DEF Enqueue
  <2>4. CASE EnqueueFails(j)  BY <2>4 DEF EnqueueFails
  <2>5. CASE EnqueueReplyLost(j)  BY <2>5 DEF EnqueueReplyLost
  <2>6. CASE RecordEnqueueFailure(j)  BY <2>6 DEF RecordEnqueueFailure
  <2>7. CASE ApiDies(j)  BY <2>7 DEF ApiDies
  <2> QED  BY <1>1, <2>1, <2>2, <2>3, <2>4, <2>5, <2>6, <2>7 DEF SubmitStep
<1>2. ASSUME NEW j \in Jobs, RunStep(j) PROVE UNCHANGED <<status[k], payload[k], solutions[k]>>
  <2>1. CASE Load(j)  BY <2>1 DEF Load
  <2>2. CASE MarkRunning(j)  BY <2>2 DEF MarkRunning
  <2>3. CASE RunnerReturns(j)  BY <2>3 DEF RunnerReturns
  <2>4. CASE RunnerRaises(j)  BY <2>4 DEF RunnerRaises
  <2>5. CASE WriteSucceeded(j)  BY <2>5 DEF WriteSucceeded
  <2>6. CASE WriteFailed(j)  BY <2>6 DEF WriteFailed
  <2>7. CASE CommitFails(j)  BY <2>7 DEF CommitFails
  <2> QED  BY <1>2, <2>1, <2>2, <2>3, <2>4, <2>5, <2>6, <2>7 DEF RunStep
<1>3. ASSUME NEW j \in Jobs, ArqStep(j) PROVE UNCHANGED <<status[k], payload[k], solutions[k]>>
  <2>1. CASE Deliver(j)  BY <2>1 DEF Deliver
  <2>2. CASE GiveUp(j)  BY <2>2 DEF GiveUp
  <2>3. CASE Finish(j)  BY <2>3 DEF Finish
  <2>4. CASE JobTimeout(j)  BY <2>4 DEF JobTimeout
  <2>5. CASE LeaseExpires(j)  BY <2>5 DEF LeaseExpires
  <2> QED  BY <1>3, <2>1, <2>2, <2>3, <2>4, <2>5 DEF ArqStep
<1>4. CASE Shutdown  BY <1>4 DEF Shutdown, Live
<1>5. CASE Crash  BY <1>5 DEF Crash
<1>6. CASE UNCHANGED vars  BY <1>6 DEF vars
<1> QED  BY <1>1, <1>2, <1>3, <1>4, <1>5, <1>6 DEF Next

\* What a client polls once arq has dropped the job and the request has ended
\* never changes again.
THEOREM DroppedIsFinal == Spec => FinalOnceDropped
<1>1. IInv /\ [Next]_vars =>
        [\A j \in Jobs : Dropped(j) => UNCHANGED <<status[j], payload[j], solutions[j]>>]_vars
  BY DroppedRowsAreLeftAlone DEF IInv
<1> QED  BY <1>1, Invariance, PTL DEF Spec, FinalOnceDropped

-----------------------------------------------------------------------------
(* Recovery *)

\* The faults have paid for every delivery but the current one. Unless too many of
\* them have occurred, a finishing coroutine has settled its row, and a pending row
\* has somebody to settle it.
RecoveryInv(k) ==
    /\ k \in queue => tries[k] <= faults + (IF att[k] = "idle" THEN 0 ELSE 1)
    /\ Overwhelmed \/ (att[k] = "finishing" => status[k] \in Terminal)
    /\ \/ Overwhelmed
       \/ status[k] \in {"queued", "running"} => req[k] \in {"created", "failing"} \/ k \in queue

LEMMA FatalOverwhelms ==
    ASSUME NEW kind, kind \notin RecoverableFaults, Fault(kind) PROVE Overwhelmed'
BY Zenon DEF Fault, Overwhelmed

LEMMA RecoveryInvInductive ==
    ASSUME TypeOK, NEW k \in Jobs, JobInv(k), RecoveryInv(k), [Next]_vars
    PROVE  RecoveryInv(k)'
<1> USE DEF TypeOK, rowVars, arqVars, attVars, faultVars, Statuses, Terminal, Payloads, Errors,
        ReqStates, AttStates, EmptyPayload, ReqStep, AttStep, WriteRow, Fault
<1> USE JobAssumption DEF Overwhelmed, RecoverableFaults, JobInv, RequestPhase, AttemptPhase,
        RecoveryInv
<1>1. ASSUME NEW j \in Jobs, SubmitStep(j) PROVE RecoveryInv(k)'
  <2>1. CASE Refuse(j)  BY <2>1 DEF Refuse
  <2>2. CASE CreateRow(j)  BY <2>2 DEF CreateRow
  <2>3. CASE Enqueue(j)  BY <2>3 DEF Enqueue
  <2>4. CASE EnqueueFails(j)  BY <2>4 DEF EnqueueFails
  <2>5. CASE EnqueueReplyLost(j)  BY <2>5 DEF EnqueueReplyLost
  <2>6. CASE RecordEnqueueFailure(j)  BY <2>6 DEF RecordEnqueueFailure
  <2>7. CASE ApiDies(j)
    <3>1. Overwhelmed'
      BY <2>7, FatalOverwhelms DEF ApiDies, RecoverableFaults
    <3> QED  BY <2>7, <3>1 DEF ApiDies
  <2> QED  BY <1>1, <2>1, <2>2, <2>3, <2>4, <2>5, <2>6, <2>7 DEF SubmitStep
<1>2. ASSUME NEW j \in Jobs, RunStep(j) PROVE RecoveryInv(k)'
  <2>1. CASE Load(j)  BY <2>1 DEF Load
  <2>2. CASE MarkRunning(j)  BY <2>2 DEF MarkRunning
  <2>3. CASE RunnerReturns(j)  BY <2>3 DEF RunnerReturns
  <2>4. CASE RunnerRaises(j)  BY <2>4 DEF RunnerRaises
  <2>5. CASE WriteSucceeded(j)  BY <2>5 DEF WriteSucceeded
  <2>6. CASE WriteFailed(j)  BY <2>6 DEF WriteFailed
  <2>7. CASE CommitFails(j)
    <3>1. Overwhelmed'
      BY <2>7, FatalOverwhelms DEF CommitFails, RecoverableFaults
    <3> QED  BY <2>7, <3>1 DEF CommitFails
  <2> QED  BY <1>2, <2>1, <2>2, <2>3, <2>4, <2>5, <2>6, <2>7 DEF RunStep
<1>3. ASSUME NEW j \in Jobs, ArqStep(j) PROVE RecoveryInv(k)'
  <2>1. CASE Deliver(j)  BY <2>1 DEF Deliver
  <2>2. CASE GiveUp(j)  BY <2>2 DEF GiveUp
  <2>3. CASE Finish(j)  BY <2>3 DEF Finish
  <2>4. CASE JobTimeout(j)
    <3>1. Overwhelmed'
      BY <2>4, FatalOverwhelms DEF JobTimeout, RecoverableFaults
    <3> QED  BY <2>4, <3>1 DEF JobTimeout
  <2>5. CASE LeaseExpires(j)  BY <2>5 DEF LeaseExpires
  <2> QED  BY <1>3, <2>1, <2>2, <2>3, <2>4, <2>5 DEF ArqStep
<1>4. CASE Shutdown  BY <1>4 DEF Shutdown, Live
<1>5. CASE Crash  BY <1>5 DEF Crash
<1>6. CASE UNCHANGED vars  BY <1>6 DEF vars
<1> QED  BY <1>1, <1>2, <1>3, <1>4, <1>5, <1>6 DEF Next

\* As long as arq can still retry and the compensation of _submit still answers what
\* failed, every pending row stays owned.
THEOREM PendingStaysOwned == Spec => []PendingIsOwned
<1> DEFINE RInv == \A k \in Jobs : RecoveryInv(k)
<1>1. Init => RInv
  BY DEF Init, RecoveryInv
<1>2. IInv /\ RInv /\ [Next]_vars => RInv'
  BY RecoveryInvInductive DEF IInv
<1>3. IInv /\ RInv => PendingIsOwned
  BY DEF RecoveryInv, PendingIsOwned
<1> HIDE DEF RInv
<1> QED  BY <1>1, <1>2, <1>3, Invariance, PTL DEF Spec

-----------------------------------------------------------------------------
(* Implementation of JobContract *)

Same == UNCHANGED <<status, Disturbed>>

\* The steps of the contract, or a stutter, that a step for job j may be.
ContractStep(j) ==
    \/ View!Submit(j) \/ View!Abort(j) \/ View!Start(j)
    \/ View!Settle(j) \/ View!Disturb(j) \/ View!Rewrite(j)
    \/ Same

\* Every step of the job path is a step of the contract or leaves it unchanged.
LEMMA StepImplementsContract ==
    IInv /\ [Next]_vars => [View!ContractNext]_<<status, Disturbed>>
<1> SUFFICES ASSUME IInv, [Next]_vars PROVE (\E j \in Jobs : ContractStep(j)) \/ Same
  BY DEF ContractStep, Same, View!ContractNext
<1> USE DEF IInv, TypeOK, rowVars, arqVars, attVars, faultVars, Statuses, Terminal, Payloads, Errors,
        ReqStates, AttStates, EmptyPayload, ReqStep, AttStep, WriteRow, Fault,
        JobInv, RequestPhase, AttemptPhase, UndisturbedPhase, AwaitsFirstRun,
        Disturbed, Redelivered, EnqueuedInDoubt, Same,
        View!Submit, View!Abort, View!Start, View!Settle, View!Disturb, View!Rewrite,
        View!Become, View!Terminal
<1>1. ASSUME NEW j \in Jobs, SubmitStep(j) PROVE ContractStep(j)
  <2>1. CASE Refuse(j)
    BY <2>1 DEF Refuse, ContractStep
  <2>2. CASE CreateRow(j)
    <3>1. View!Submit(j)
      BY <2>2 DEF CreateRow
    <3> QED  BY <3>1 DEF ContractStep
  <2>3. CASE Enqueue(j)
    BY <2>3 DEF Enqueue, ContractStep
  <2>4. CASE EnqueueFails(j)
    BY <2>4 DEF EnqueueFails, ContractStep
  <2>5. CASE EnqueueReplyLost(j)
    <3>1. View!Disturb(j)
      BY <2>5 DEF EnqueueReplyLost
    <3> QED  BY <3>1 DEF ContractStep
  <2>6. CASE RecordEnqueueFailure(j)
    <3>1. View!Abort(j) \/ View!Rewrite(j)
      BY <2>6 DEF RecordEnqueueFailure
    <3> QED  BY <3>1 DEF ContractStep
  <2>7. CASE ApiDies(j)
    BY <2>7 DEF ApiDies, ContractStep
  <2> QED  BY <1>1, <2>1, <2>2, <2>3, <2>4, <2>5, <2>6, <2>7 DEF SubmitStep
<1>2. ASSUME NEW j \in Jobs, RunStep(j) PROVE ContractStep(j)
  <2>1. CASE Load(j)
    BY <2>1 DEF Load, ContractStep
  <2>2. CASE MarkRunning(j)
    <3>1. View!Start(j) \/ View!Rewrite(j) \/ Same
      BY <2>2 DEF MarkRunning
    <3> QED  BY <3>1 DEF ContractStep
  <2>3. CASE RunnerReturns(j)
    BY <2>3 DEF RunnerReturns, ContractStep
  <2>4. CASE RunnerRaises(j)
    BY <2>4 DEF RunnerRaises, ContractStep
  <2>5. CASE WriteSucceeded(j)
    <3>1. View!Settle(j) \/ View!Rewrite(j)
      BY <2>5 DEF WriteSucceeded
    <3> QED  BY <3>1 DEF ContractStep
  <2>6. CASE WriteFailed(j)
    <3>1. View!Settle(j) \/ View!Rewrite(j)
      BY <2>6 DEF WriteFailed
    <3> QED  BY <3>1 DEF ContractStep
  <2>7. CASE CommitFails(j)
    BY <2>7 DEF CommitFails, ContractStep
  <2> QED  BY <1>2, <2>1, <2>2, <2>3, <2>4, <2>5, <2>6, <2>7 DEF RunStep
<1>3. ASSUME NEW j \in Jobs, ArqStep(j) PROVE ContractStep(j)
  <2>1. CASE Deliver(j)
    <3>1. View!Disturb(j) \/ Same
      BY <2>1 DEF Deliver
    <3> QED  BY <3>1 DEF ContractStep
  <2>2. CASE GiveUp(j)
    BY <2>2, JobAssumption DEF GiveUp, ContractStep
  <2>3. CASE Finish(j)
    BY <2>3 DEF Finish, ContractStep
  <2>4. CASE JobTimeout(j)
    BY <2>4 DEF JobTimeout, ContractStep
  <2>5. CASE LeaseExpires(j)
    BY <2>5 DEF LeaseExpires, ContractStep
  <2> QED  BY <1>3, <2>1, <2>2, <2>3, <2>4, <2>5 DEF ArqStep
<1>4. CASE Shutdown  BY <1>4 DEF Shutdown, Live
<1>5. CASE Crash  BY <1>5 DEF Crash
<1>6. CASE UNCHANGED vars  BY <1>6 DEF vars
<1> QED  BY <1>1, <1>2, <1>3, <1>4, <1>5, <1>6 DEF Next

\* The job path implements the contract: a status moves queued, running, settled
\* and is final, except for a job that arq was told twice or in doubt.
THEOREM JobPathKeepsContract == Spec => Contract
<1>1. Init => View!ContractInit
  BY DEF Init, View!ContractInit, Disturbed, Redelivered, EnqueuedInDoubt
<1>2. IInv /\ [Next]_vars => [View!ContractNext]_(View!contractVars)
  BY StepImplementsContract DEF View!contractVars
<1> QED  BY <1>1, <1>2, Invariance, PTL DEF Spec, Contract, View!ContractSpec
=============================================================================
