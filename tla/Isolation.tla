----------------------------- MODULE Isolation -----------------------------
(***************************************************************************)
(* run_isolated (services/isolation.py): a pure computation run in a       *)
(* thread, or in a child process that is killed when the caller times out  *)
(* or is cancelled.                                                        *)
(*                                                                         *)
(* A call is one task of one event loop. It waits only where the code      *)
(* awaits: for the semaphore, or for a function handed to the loop's       *)
(* thread pool (asyncio.to_thread), which first queues for a thread and    *)
(* which cancelling the task removes from the queue but never stops. The   *)
(* child process and the solver process it may start (PuLP's cbc) run on   *)
(* their own and promise nothing: a computation may never end.             *)
(*                                                                         *)
(* Time is left out: a wait with a timeout may time out at any moment, and *)
(* does so eventually. In _kill, killpg and its fallback proc.kill() are   *)
(* one step.                                                               *)
(***************************************************************************)
EXTENDS Naturals, FiniteSets

CONSTANTS Calls,         \* calls of run_isolated
          MaxProcesses,  \* SOLVE_MAX_PROCESSES
          PoolSize,      \* threads of the event loop's default executor
          Modes          \* the values of SOLVE_ISOLATION considered

ASSUME IsolationAssumption ==
    /\ IsFiniteSet(Calls)
    /\ MaxProcesses \in Nat \ {0}
    /\ PoolSize \in Nat \ {0}
    /\ Modes \subseteq {"thread", "process"}

VARIABLES mode,      \* SOLVE_ISOLATION, fixed for the life of the process
          pc,        \* [Calls -> Phases], where the task awaits
          queued,    \* functions waiting for a thread: pairs <<call, function>>
          running,   \* functions in a thread
          pid,       \* [Calls -> BOOLEAN], proc.pid is not None
          child,     \* [Calls -> ChildStates], the child process
          solver,    \* [Calls -> BOOLEAN], the process the child has started
          outcome,   \* [Calls -> Outcomes], the outcome in the pipe
          polled,    \* [Calls -> BOOLEAN], what parent_conn.poll returned
          result,    \* [Calls -> Results], what the call gave its caller
          detached   \* history: calls that ended before proc.start() returned

threadVars == <<queued, running>>
childVars == <<child, solver, outcome>>
startVars == <<pid, polled>>
taskVars == <<mode, pc, result, detached>>
vars == <<threadVars, childVars, startVars, taskVars>>

Functions == {"fn", "start", "poll", "recv", "reap", "join"}
Holding == {"starting", "polling", "receiving", "reaping", "joining"}
Phases == {"idle", "waiting", "computing", "ended"} \union Holding
Running == {"fresh", "computing", "exiting"}
ChildStates == {"none", "dead", "crashed"} \union Running
Outcomes == {"none", "value", "error"}
Results == Outcomes \union {"timeout", "died", "cancelled"}

TypeOK ==
    /\ mode \in Modes
    /\ pc \in [Calls -> Phases]
    /\ queued \subseteq Calls \X Functions
    /\ running \subseteq Calls \X Functions
    /\ Cardinality(running) <= PoolSize
    /\ pid \in [Calls -> BOOLEAN]
    /\ child \in [Calls -> ChildStates]
    /\ solver \in [Calls -> BOOLEAN]
    /\ outcome \in [Calls -> Outcomes]
    /\ polled \in [Calls -> BOOLEAN]
    /\ result \in [Calls -> Results]
    /\ detached \subseteq Calls

Init ==
    /\ mode \in Modes
    /\ pc = [c \in Calls |-> "idle"]
    /\ queued = {} /\ running = {}
    /\ pid = [c \in Calls |-> FALSE]
    /\ child = [c \in Calls |-> "none"]
    /\ solver = [c \in Calls |-> FALSE]
    /\ outcome = [c \in Calls |-> "none"]
    /\ polled = [c \in Calls |-> FALSE]
    /\ result = [c \in Calls |-> "none"]
    /\ detached = {}

\* Mutant: acquire() without the matching release().
HoldersForever == {c \in Calls : pc[c] \in Holding \/ (pc[c] = "ended" /\ pid[c])}

\* The calls inside async with _semaphore().
Holders == {c \in Calls : pc[c] \in Holding}

\* The function the task awaits has returned.
Returned(c, f) == <<c, f>> \notin queued \union running

Goto(c, phase) == pc' = [pc EXCEPT ![c] = phase] /\ UNCHANGED mode

\* await asyncio.to_thread(f)
Await(c, phase, f) ==
    /\ Goto(c, phase)
    /\ queued' = queued \union {<<c, f>>}
    /\ UNCHANGED running

\* The call ends with result r.
End(c, r) ==
    /\ Goto(c, "ended")
    /\ result' = [result EXCEPT ![c] = r]

-----------------------------------------------------------------------------
(* The thread pool *)

RunInThread(c, f) ==
    /\ <<c, f>> \in queued
    /\ Cardinality(running) < PoolSize
    /\ queued' = queued \ {<<c, f>>}
    /\ running' = running \union {<<c, f>>}
    /\ UNCHANGED <<childVars, startVars, taskVars>>

\* f returns (recv and the joins, which end with the child; fn of the thread mode).
Return(c, f) ==
    /\ <<c, f>> \in running
    /\ running' = running \ {<<c, f>>}
    /\ UNCHANGED <<queued, taskVars>>

PlainReturn(c, f) == Return(c, f) /\ UNCHANGED <<childVars, startVars>>

\* A change of the child process alone.
ChildGoes(c, from, to) ==
    /\ child[c] \in from
    /\ child' = [child EXCEPT ![c] = to]
    /\ UNCHANGED <<threadVars, startVars, taskVars>>

\* proc.start(): the child is forked first, its pid is known when start returns.
Fork(c) ==
    /\ <<c, "start">> \in running
    /\ ChildGoes(c, {"none"}, "fresh")
    /\ UNCHANGED <<solver, outcome>>

StartReturns(c) ==
    /\ child[c] # "none"
    /\ Return(c, "start")
    /\ pid' = [pid EXCEPT ![c] = TRUE]
    /\ UNCHANGED <<childVars, polled>>

\* The arguments cannot be pickled (or the connection was closed meanwhile), or
\* the forkserver fails.
StartRaises(c) == child[c] = "none" /\ PlainReturn(c, "start")

\* Data or end of file.
Readable(c) == outcome[c] # "none" \/ child[c] \in {"dead", "crashed"}

\* Mutant: poll() without a timeout.
PollReturnsWhenReadable(c) ==
    /\ Readable(c)
    /\ Return(c, "poll")
    /\ polled' = [polled EXCEPT ![c] = TRUE]
    /\ UNCHANGED <<childVars, pid>>

\* parent_conn.poll(timeout_seconds), also after its task has gone.
PollReturns(c) ==
    /\ Return(c, "poll")
    /\ polled' = [polled EXCEPT ![c] = Readable(c)]
    /\ UNCHANGED <<childVars, pid>>

-----------------------------------------------------------------------------
(* The child process, and a solver it starts *)

\* os.setpgrp(), then fn.
ChildBegins(c) == ChildGoes(c, {"fresh"}, "computing") /\ UNCHANGED <<solver, outcome>>

SolverStartsOrEnds(c) ==
    /\ ChildGoes(c, {"computing"}, "computing")
    /\ solver' = [solver EXCEPT ![c] = ~@]
    /\ UNCHANGED outcome

\* conn.send: the value or the exception of fn, unless nobody can read it.
ChildSends(c) ==
    /\ ~solver[c]
    /\ ChildGoes(c, {"computing"}, "exiting")
    /\ \E o \in {"value", "error"} :
           outcome' = [outcome EXCEPT ![c] = IF pc[c] \in {"ended", "joining"} THEN @ ELSE o]
    /\ UNCHANGED solver

ChildExits(c) == ChildGoes(c, {"exiting"}, "dead") /\ UNCHANGED <<solver, outcome>>

\* The child alone is killed from outside (out of memory, a signal).
ChildCrashes(c) == ChildGoes(c, Running, "crashed") /\ UNCHANGED <<solver, outcome>>

\* _kill: nothing for a process without a pid or with an exit code, else SIGKILL
\* to its group (to the child alone before it has made itself a group).
Killable(c) == pid[c] /\ child[c] \in Running

\* Mutant: proc.kill() instead of killpg.
KillChildOnly(c) ==
    /\ child' = [child EXCEPT ![c] = IF Killable(c) THEN "dead" ELSE @]
    /\ UNCHANGED <<solver, outcome>>

Kill(c) ==
    /\ child' = [child EXCEPT ![c] = IF Killable(c) THEN "dead" ELSE @]
    /\ solver' = [solver EXCEPT ![c] = @ /\ ~Killable(c)]
    /\ UNCHANGED outcome

-----------------------------------------------------------------------------
(* The task *)

\* run_isolated up to its first await.
Begin(c) ==
    /\ pc[c] = "idle"
    /\ IF mode = "process"
         THEN Goto(c, "waiting") /\ UNCHANGED threadVars
         ELSE Await(c, "computing", "fn")
    /\ UNCHANGED <<childVars, startVars, result, detached>>

\* Mutant: no semaphore.
AcquireUnlimited(c) ==
    /\ pc[c] = "waiting"
    /\ Await(c, "starting", "start")
    /\ UNCHANGED <<childVars, startVars, result, detached>>

\* async with _semaphore(), then _run_in_process up to its first await.
Acquire(c) ==
    /\ pc[c] = "waiting"
    /\ Cardinality(Holders) < MaxProcesses
    /\ Await(c, "starting", "start")
    /\ UNCHANGED <<childVars, startVars, result, detached>>

\* From one await of the try clause to the next.
Continue(c, phase, f) ==
    /\ Await(c, phase, f)
    /\ UNCHANGED <<childVars, startVars, result, detached>>

\* The finally clause up to its await, or to the end of a call without a pid.
Finally(c, r) ==
    /\ Kill(c)
    /\ result' = [result EXCEPT ![c] = r]
    /\ IF pid[c] THEN Await(c, "joining", "join") ELSE Goto(c, "ended") /\ UNCHANGED threadVars
    /\ UNCHANGED <<startVars, detached>>

\* The await of f in this phase is over.
Resumes(c, phase, f) == pc[c] = phase /\ Returned(c, f)

AfterStart(c) ==
    /\ Resumes(c, "starting", "start")
    /\ IF pid[c] THEN Continue(c, "polling", "poll") ELSE Finally(c, "error")

AfterPoll(c) ==
    /\ Resumes(c, "polling", "poll")
    /\ IF polled[c] THEN Continue(c, "receiving", "recv") ELSE Finally(c, "timeout")

\* The outcome, or EOFError: the child died without one.
AfterRecv(c) ==
    /\ Resumes(c, "receiving", "recv")
    /\ IF outcome[c] = "none" THEN Continue(c, "reaping", "reap") ELSE Finally(c, outcome[c])

AfterReap(c) == Resumes(c, "reaping", "reap") /\ Finally(c, "died")

AfterJoin(c) ==
    /\ Resumes(c, "joining", "join")
    /\ End(c, result[c])
    /\ UNCHANGED <<threadVars, childVars, startVars, detached>>

\* The thread mode: fn returned in time ...
AfterFn(c) ==
    /\ Resumes(c, "computing", "fn")
    /\ \E r \in {"value", "error"} : End(c, r)
    /\ UNCHANGED <<threadVars, childVars, startVars, detached>>

\* The task stops waiting for fn, or for the semaphore, or for the shielded join,
\* with the result r. A function still queued never runs (the shielded one does).
StopWaiting(c, phase, r) ==
    /\ pc[c] = phase
    /\ End(c, r)
    /\ queued' = queued \ {<<c, "fn">>}
    /\ UNCHANGED <<running, childVars, startVars, detached>>

\* ... or wait_for gives up on it.
WaitTimesOut(c) == ~Returned(c, "fn") /\ StopWaiting(c, "computing", "timeout")

\* The task is cancelled (the client has gone, arq's job_timeout, a shutdown)
\* outside the try clause, in the join of its finally too,
CancelOutside(c) ==
    \E phase \in {"waiting", "computing", "joining"} : StopWaiting(c, phase, "cancelled")

\* or inside it: a function still queued never runs, one in a thread goes on.
CancelInside(c) ==
    /\ pc[c] \in Holding \ {"joining"}
    /\ LET rest == {q \in queued : q[1] # c} IN
       IF pid[c] THEN Goto(c, "joining") /\ queued' = rest \union {<<c, "join">>}
                 ELSE Goto(c, "ended") /\ queued' = rest
    /\ Kill(c)
    /\ result' = [result EXCEPT ![c] = "cancelled"]
    /\ detached' = IF <<c, "start">> \in running THEN detached \union {c} ELSE detached
    /\ UNCHANGED <<running, startVars>>

-----------------------------------------------------------------------------
ThreadStep(c) ==
    \/ \E f \in Functions : RunInThread(c, f)
    \/ Fork(c) \/ StartReturns(c) \/ StartRaises(c)
    \/ PollReturns(c)
    \/ \E f \in {"recv", "reap", "join", "fn"} : PlainReturn(c, f)

ChildStep(c) ==
    \/ ChildBegins(c) \/ SolverStartsOrEnds(c) \/ ChildSends(c) \/ ChildExits(c)
    \/ ChildCrashes(c)

\* A task goes on as soon as what it awaits is there.
Resume(c) ==
    \/ Acquire(c) \/ AfterStart(c) \/ AfterPoll(c) \/ AfterRecv(c) \/ AfterReap(c)
    \/ AfterJoin(c) \/ AfterFn(c) \/ WaitTimesOut(c)

TaskStep(c) == Begin(c) \/ Resume(c) \/ CancelOutside(c) \/ CancelInside(c)

Next == \E c \in Calls : ThreadStep(c) \/ ChildStep(c) \/ TaskStep(c)

Spec == Init /\ [][Next]_vars

\* The loop resumes its tasks, the pool runs what is queued when it has a thread,
\* and the functions of isolation.py return; fn, the child and the caller owe
\* nothing.
CallFairness(c) ==
    /\ WF_vars(Acquire(c)) /\ WF_vars(Resume(c))
    /\ \A f \in Functions : WF_vars(RunInThread(c, f))
    /\ WF_vars(StartReturns(c)) /\ WF_vars(Fork(c) \/ StartRaises(c))
    /\ WF_vars(PollReturns(c))
    /\ \A f \in {"recv", "reap", "join"} : WF_vars(PlainReturn(c, f))

FairSpec == Spec /\ \A c \in Calls : CallFairness(c)

-----------------------------------------------------------------------------
Ended(c) == pc[c] = "ended"
Alive(c) == child[c] \in Running

\* However a call ends (value, error, timeout, death, cancellation, and in any
\* order with what its child does), its child is not running any more, unless it
\* ended before proc.start() had returned; nor is the solver process its child has
\* started, unless that child was killed from outside: _kill does nothing for a
\* child that has an exit code.
ComputationsStopped ==
    \A c \in Calls \ detached :
        Ended(c) => ~Alive(c) /\ (child[c] # "crashed" => ~solver[c])

\* No more children run than the semaphore admits calls, those of detached calls
\* apart.
ProcessesBounded == Cardinality({c \in Calls \ detached : Alive(c)}) <= MaxProcesses

\* Every call ends, however long the computations run, and even if they hold the
\* semaphore's places or the pool's threads.
CallsEnd == \A c \in Calls : pc[c] # "idle" ~> Ended(c)

\* In the process mode every thread comes back to the pool: a timeout leaves no
\* thread computing.
ThreadsReturn == mode = "process" => []<>(running = {})

\* isolation.py: whether the call ends normally, by timeout or by cancellation, a
\* child process that is left is stopped.
RemainingChildStopped == \A c \in Calls : Ended(c) => ~Alive(c)
=============================================================================
