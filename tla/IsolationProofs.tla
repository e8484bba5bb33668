-------------------------- MODULE IsolationProofs --------------------------
(***************************************************************************)
(* Theorems about run_isolated, for every number of calls, places and      *)
(* threads.                                                                *)
(***************************************************************************)
EXTENDS Isolation, FiniteSetTheorems, TLAPS

\* proc.start() is queued or runs only for a call that awaits it, or was detached
\* from it; between the fork and the pid it is still running.
StartPhase(c) ==
    /\ <<c, "start">> \in queued => pc[c] = "starting" /\ <<c, "start">> \notin running
    /\ <<c, "start">> \in running => pc[c] = "starting" \/ c \in detached
    /\ <<c, "start">> \in queued \union running => ~pid[c]
    /\ child[c] # "none" /\ ~pid[c] => <<c, "start">> \in running
    /\ c \in detached => pc[c] = "ended"
    /\ pc[c] \in {"idle", "waiting", "computing"} => ~pid[c]

\* Only a child that computes, or that was killed from outside while it did, has a
\* solver process.
SolverPhase(c) == solver[c] => child[c] \in {"computing", "crashed"}

\* What the finally clause leaves behind.
Stopped(c) ==
    pc[c] \in {"joining", "ended"} /\ c \notin detached =>
        ~Alive(c) /\ (child[c] # "crashed" => ~solver[c])

\* What holds of each call.
CallInv(c) == StartPhase(c) /\ SolverPhase(c) /\ Stopped(c)

\* The semaphore admits as many calls as it has places.
PlacesKept == Cardinality(Holders) <= MaxProcesses

IInv ==
    /\ TypeOK
    /\ \A c \in Calls : CallInv(c)
    /\ PlacesKept

-----------------------------------------------------------------------------
LEMMA TypeInit == Init => TypeOK
PROOF BY IsolationAssumption, FS_EmptySet DEF Init, TypeOK, Phases, ChildStates, Outcomes, Results

\* One element more or less of a finite set.
LEMMA OneMore ==
    ASSUME NEW S, NEW x, IsFiniteSet(S)
    PROVE  /\ Cardinality(S) \in Nat
           /\ Cardinality(S \union {x}) \in Nat
           /\ Cardinality(S \union {x}) <= Cardinality(S) + 1
           /\ Cardinality(S \ {x}) \in Nat
           /\ Cardinality(S \ {x}) <= Cardinality(S)
PROOF
  <1>1. IsFiniteSet(S \union {x}) /\ IsFiniteSet(S \ {x})
    BY FS_AddElement, FS_RemoveElement
  <1>2. /\ Cardinality(S) \in Nat
        /\ Cardinality(S \union {x}) \in Nat
        /\ Cardinality(S \ {x}) \in Nat
    BY <1>1, FS_CardinalityType
  <1>3. Cardinality(S \union {x}) = IF x \in S THEN Cardinality(S) ELSE Cardinality(S) + 1
    BY FS_AddElement
  <1>4. Cardinality(S \ {x}) <= Cardinality(S)
    BY FS_Subset
  <1> QED
    BY <1>2, <1>3, <1>4

\* What runs is a finite set.
LEMMA RunningFinite ==
    ASSUME TypeOK
    PROVE  IsFiniteSet(running) /\ Cardinality(running) \in Nat
PROOF
  <1>1. IsFiniteSet(Functions)
    <2>1. IsFiniteSet({"fn"} \union {"start"} \union {"poll"})
      BY FS_Singleton, FS_Union
    <2>2. IsFiniteSet({"recv"} \union {"reap"} \union {"join"})
      BY FS_Singleton, FS_Union
    <2>3. Functions = ({"fn"} \union {"start"} \union {"poll"})
                        \union ({"recv"} \union {"reap"} \union {"join"})
      BY DEF Functions
    <2> QED
      BY <2>1, <2>2, <2>3, FS_Union
  <1> QED
    BY <1>1, FS_Product, FS_Subset, FS_CardinalityType, IsolationAssumption DEF TypeOK
\* Every step keeps the types.
LEMMA TypeKept ==
    ASSUME TypeOK, [Next]_vars
    PROVE  TypeOK'
PROOF
  <1> USE DEF Functions, Holding, Phases, Running, ChildStates, Outcomes, Results,
          threadVars, childVars, startVars, taskVars, Goto
  <1>1. ASSUME NEW c \in Calls, ThreadStep(c)
        PROVE  TypeOK'
    <2>1. ASSUME NEW f \in Functions, RunInThread(c, f)
          PROVE  TypeOK'
      <3>1. Cardinality(running') <= PoolSize
        <4>1. IsFiniteSet(running) /\ Cardinality(running) \in Nat
          BY RunningFinite
        <4>2. /\ Cardinality(running \union {<<c, f>>}) <= Cardinality(running) + 1
              /\ Cardinality(running \union {<<c, f>>}) \in Nat
          BY <4>1, OneMore
        <4> QED
          BY <2>1, <4>1, <4>2, IsolationAssumption DEF RunInThread
      <3> QED
        BY <2>1, <3>1 DEF RunInThread, TypeOK
    <2>2. ASSUME NEW f \in Functions, Return(c, f)
          PROVE  Cardinality(running') <= PoolSize
      <3>1. IsFiniteSet(running) /\ Cardinality(running) \in Nat
        BY RunningFinite
      <3>2. /\ Cardinality(running \ {<<c, f>>}) <= Cardinality(running)
            /\ Cardinality(running \ {<<c, f>>}) \in Nat
        BY <3>1, OneMore
      <3> QED
        BY <2>2, <3>1, <3>2, IsolationAssumption DEF Return, TypeOK
    <2>3. CASE Fork(c)
      BY <2>3 DEF Fork, ChildGoes, TypeOK
    <2>4. CASE StartReturns(c)
      BY <2>4, <2>2 DEF StartReturns, Return, TypeOK
    <2>5. CASE StartRaises(c)
      BY <2>5, <2>2 DEF StartRaises, PlainReturn, Return, TypeOK
    <2>6. CASE PollReturns(c)
      <3>1. polled' \in [Calls -> BOOLEAN]
        BY <2>6 DEF PollReturns, Readable, TypeOK
      <3> QED
        BY <2>6, <2>2, <3>1 DEF PollReturns, Return, TypeOK
    <2>7. ASSUME NEW f \in {"recv", "reap", "join", "fn"}, PlainReturn(c, f)
          PROVE  TypeOK'
      BY <2>7, <2>2 DEF PlainReturn, Return, TypeOK
    <2> QED
      BY <1>1, <2>1, <2>3, <2>4, <2>5, <2>6, <2>7 DEF ThreadStep
  <1>2. ASSUME NEW c \in Calls, ChildStep(c)
        PROVE  TypeOK'
    <2>1. CASE ChildBegins(c)
      BY <2>1 DEF ChildBegins, ChildGoes, TypeOK
    <2>2. CASE SolverStartsOrEnds(c)
      BY <2>2 DEF SolverStartsOrEnds, ChildGoes, TypeOK
    <2>3. CASE ChildSends(c)
      BY <2>3 DEF ChildSends, ChildGoes, TypeOK
    <2>4. CASE ChildExits(c)
      BY <2>4 DEF ChildExits, ChildGoes, TypeOK
    <2>5. CASE ChildCrashes(c)
      BY <2>5 DEF ChildCrashes, ChildGoes, TypeOK
    <2> QED
      BY <1>2, <2>1, <2>2, <2>3, <2>4, <2>5 DEF ChildStep
  <1>3. ASSUME NEW c \in Calls, TaskStep(c)
        PROVE  TypeOK'
    <2>1. CASE Begin(c)
      BY <2>1 DEF Begin, Await, TypeOK
    <2>2. CASE Acquire(c)
      BY <2>2 DEF Acquire, Await, TypeOK
    <2>3. ASSUME NEW p \in Phases, NEW f \in Functions, Continue(c, p, f)
          PROVE  TypeOK'
      BY <2>3 DEF Continue, Await, TypeOK
    <2>4. ASSUME NEW r \in Results, Finally(c, r)
          PROVE  TypeOK'
      <3>1. child' \in [Calls -> ChildStates]
        BY <2>4 DEF Finally, Kill, TypeOK
      <3>2. solver' \in [Calls -> BOOLEAN]
        BY <2>4 DEF Finally, Kill, Killable, TypeOK
      <3> QED
        BY <2>4, <3>1, <3>2 DEF Finally, Kill, Await, TypeOK
    <2>5. ASSUME NEW p \in Phases, NEW r \in Results, StopWaiting(c, p, r)
          PROVE  TypeOK'
      BY <2>5 DEF StopWaiting, End, TypeOK
    <2>6. CASE AfterStart(c)
      BY <2>6, <2>3, <2>4 DEF AfterStart
    <2>7. CASE AfterPoll(c)
      BY <2>7, <2>3, <2>4 DEF AfterPoll
    <2>8. CASE AfterRecv(c)
      BY <2>8, <2>3, <2>4 DEF AfterRecv, TypeOK
    <2>9. CASE AfterReap(c)
      BY <2>9, <2>4 DEF AfterReap
    <2>10. CASE AfterJoin(c)
      BY <2>10 DEF AfterJoin, End, TypeOK
    <2>11. CASE AfterFn(c)
      BY <2>11 DEF AfterFn, End, TypeOK
    <2>12. CASE WaitTimesOut(c)
      BY <2>12, <2>5 DEF WaitTimesOut
    <2>13. CASE CancelOutside(c)
      BY <2>13, <2>5 DEF CancelOutside, TypeOK
    <2>14. CASE CancelInside(c)
      <3>1. child' \in [Calls -> ChildStates]
        BY <2>14 DEF CancelInside, Kill, TypeOK
      <3>2. solver' \in [Calls -> BOOLEAN]
        BY <2>14 DEF CancelInside, Kill, Killable, TypeOK
      <3> QED
        BY <2>14, <3>1, <3>2 DEF CancelInside, Kill, TypeOK
    <2> QED
      BY <1>3, <2>1, <2>2, <2>6, <2>7, <2>8, <2>9, <2>10, <2>11, <2>12, <2>13, <2>14
         DEF TaskStep, Resume
  <1>4. CASE UNCHANGED vars
    BY <1>4 DEF vars, TypeOK
  <1> QED
    BY <1>1, <1>2, <1>3, <1>4 DEF Next

-----------------------------------------------------------------------------
LEMMA CallsInit == Init => \A c \in Calls : CallInv(c)
PROOF BY DEF Init, CallInv, StartPhase, SolverPhase, Stopped, Alive, Running

\* What the finally clause does to its child, once proc.start() has returned or the
\* call is detached from it.
LEMMA FinallyStops ==
    ASSUME TypeOK, NEW c \in Calls, StartPhase(c), SolverPhase(c), Kill(c),
           <<c, "start">> \notin running
    PROVE  /\ child'[c] \notin Running
           /\ child'[c] # "crashed" => ~solver'[c]
           /\ child'[c] # "none" => child[c] # "none"
PROOF
  <1>1. child[c] = "none" \/ pid[c]
    BY DEF StartPhase
  <1>2. child'[c] = IF Killable(c) THEN "dead" ELSE child[c]
    BY DEF Kill, TypeOK
  <1>3. solver'[c] <=> solver[c] /\ ~Killable(c)
    BY DEF Kill, TypeOK
  <1> QED
    BY <1>1, <1>2, <1>3 DEF Killable, Running, SolverPhase

\* What a call's invariant is about is left alone.
Untouched(d) ==
    /\ pc'[d] = pc[d] /\ child'[d] = child[d]
    /\ pid'[d] = pid[d] /\ solver'[d] = solver[d]
    /\ d \in detached' <=> d \in detached
    /\ <<d, "start">> \in queued' => <<d, "start">> \in queued
    /\ <<d, "start">> \in running' <=> <<d, "start">> \in running

LEMMA UntouchedKeeps ==
    ASSUME NEW d \in Calls, CallInv(d), Untouched(d)
    PROVE  CallInv(d)'
PROOF
  <1>1. StartPhase(d)'
    BY DEF CallInv, StartPhase, Untouched
  <1>2. SolverPhase(d)'
    BY DEF CallInv, SolverPhase, Untouched
  <1>3. Stopped(d)'
    BY DEF CallInv, Stopped, Alive, Untouched
  <1> QED
    BY <1>1, <1>2, <1>3 DEF CallInv

\* A step of one call leaves the others alone.
LEMMA OthersKept ==
    ASSUME TypeOK, NEW c \in Calls, NEW d \in Calls, c # d,
           ThreadStep(c) \/ ChildStep(c) \/ TaskStep(c)
    PROVE  Untouched(d)
PROOF
  <1> USE DEF threadVars, childVars, startVars, taskVars, Goto, Untouched
  <1>1. ASSUME ThreadStep(c) PROVE Untouched(d)
    <2>1. ASSUME NEW f \in Functions, RunInThread(c, f)
          PROVE  Untouched(d)
      BY <2>1 DEF RunInThread, TypeOK
    <2>2. CASE Fork(c)
      BY <2>2 DEF Fork, ChildGoes, TypeOK
    <2>3. CASE StartReturns(c)
      BY <2>3 DEF StartReturns, Return, TypeOK
    <2>4. CASE StartRaises(c)
      BY <2>4 DEF StartRaises, PlainReturn, Return, TypeOK
    <2>5. CASE PollReturns(c)
      BY <2>5 DEF PollReturns, Return, TypeOK
    <2>6. ASSUME NEW f, PlainReturn(c, f)
          PROVE  Untouched(d)
      BY <2>6 DEF PlainReturn, Return, TypeOK
    <2> QED
      BY <1>1, <2>1, <2>2, <2>3, <2>4, <2>5, <2>6 DEF ThreadStep
  <1>2. CASE ChildStep(c)
    <2>1. CASE ChildBegins(c)
      BY <2>1 DEF ChildBegins, ChildGoes, TypeOK
    <2>2. CASE SolverStartsOrEnds(c)
      BY <2>2 DEF SolverStartsOrEnds, ChildGoes, TypeOK
    <2>3. CASE ChildSends(c)
      BY <2>3 DEF ChildSends, ChildGoes, TypeOK
    <2>4. CASE ChildExits(c)
      BY <2>4 DEF ChildExits, ChildGoes, TypeOK
    <2>5. CASE ChildCrashes(c)
      BY <2>5 DEF ChildCrashes, ChildGoes, TypeOK
    <2> QED
      BY <1>2, <2>1, <2>2, <2>3, <2>4, <2>5 DEF ChildStep
  <1>3. CASE TaskStep(c)
    <2>1. CASE Begin(c)
      BY <2>1 DEF Begin, Await, TypeOK
    <2>2. CASE Acquire(c)
      BY <2>2 DEF Acquire, Await, TypeOK
    <2>3. ASSUME NEW p, NEW f, Continue(c, p, f)
          PROVE  Untouched(d)
      BY <2>3 DEF Continue, Await, TypeOK
    <2>4. ASSUME NEW r, Finally(c, r)
          PROVE  Untouched(d)
      BY <2>4 DEF Finally, Kill, Await, TypeOK
    <2>5. ASSUME NEW p, NEW r, StopWaiting(c, p, r)
          PROVE  Untouched(d)
      BY <2>5 DEF StopWaiting, End, TypeOK
    <2>6. CASE AfterStart(c) \/ AfterPoll(c) \/ AfterRecv(c) \/ AfterReap(c)
      BY <2>6, <2>3, <2>4 DEF AfterStart, AfterPoll, AfterRecv, AfterReap
    <2>7. CASE AfterJoin(c) \/ AfterFn(c)
      BY <2>7 DEF AfterJoin, AfterFn, End, TypeOK
    <2>8. CASE WaitTimesOut(c) \/ CancelOutside(c)
      BY <2>8, <2>5 DEF WaitTimesOut, CancelOutside
    <2>9. CASE CancelInside(c)
      BY <2>9 DEF CancelInside, Kill, TypeOK
    <2> QED
      BY <1>3, <2>1, <2>2, <2>6, <2>7, <2>8, <2>9 DEF TaskStep, Resume
  <1> QED
    BY <1>1, <1>2, <1>3

\* A step of a call keeps what holds of it.
LEMMA OwnThreadStep ==
    ASSUME TypeOK, NEW c \in Calls, CallInv(c), ThreadStep(c)
    PROVE  CallInv(c)'
PROOF
  <1> USE DEF CallInv, StartPhase, SolverPhase, Stopped, Alive, Running, Functions,
          threadVars, childVars, startVars, taskVars
  <1>1. ASSUME NEW f \in Functions, RunInThread(c, f)
        PROVE  CallInv(c)'
    BY <1>1 DEF RunInThread, TypeOK
  <1>2. CASE Fork(c)
    BY <1>2 DEF Fork, ChildGoes, TypeOK
  <1>3. CASE StartReturns(c)
    BY <1>3 DEF StartReturns, Return, TypeOK
  <1>4. CASE StartRaises(c)
    BY <1>4 DEF StartRaises, PlainReturn, Return, TypeOK
  <1>5. CASE PollReturns(c)
    BY <1>5 DEF PollReturns, Return, TypeOK
  <1>6. ASSUME NEW f \in {"recv", "reap", "join", "fn"}, PlainReturn(c, f)
        PROVE  CallInv(c)'
    BY <1>6 DEF PlainReturn, Return, TypeOK
  <1> QED
    BY <1>1, <1>2, <1>3, <1>4, <1>5, <1>6 DEF ThreadStep

LEMMA OwnChildStep ==
    ASSUME TypeOK, NEW c \in Calls, CallInv(c), ChildStep(c)
    PROVE  CallInv(c)'
PROOF
  <1> USE DEF CallInv, StartPhase, SolverPhase, Stopped, Alive, Running,
          threadVars, childVars, startVars, taskVars, ChildGoes
  <1>1. CASE ChildBegins(c)
    BY <1>1 DEF ChildBegins, TypeOK
  <1>2. CASE SolverStartsOrEnds(c)
    BY <1>2 DEF SolverStartsOrEnds, TypeOK
  <1>3. CASE ChildSends(c)
    BY <1>3 DEF ChildSends, TypeOK
  <1>4. CASE ChildExits(c)
    BY <1>4 DEF ChildExits, TypeOK
  <1>5. CASE ChildCrashes(c)
    BY <1>5 DEF ChildCrashes, TypeOK
  <1> QED
    BY <1>1, <1>2, <1>3, <1>4, <1>5 DEF ChildStep

LEMMA OwnTaskStep ==
    ASSUME TypeOK, NEW c \in Calls, CallInv(c), TaskStep(c)
    PROVE  CallInv(c)'
PROOF
  <1> USE DEF threadVars, childVars, startVars, taskVars, Goto, Holding
  <1>1. CASE Begin(c)
    BY <1>1 DEF Begin, Await, TypeOK, CallInv, StartPhase, SolverPhase, Stopped
  <1>2. CASE Acquire(c)
    BY <1>2 DEF Acquire, Await, TypeOK, CallInv, StartPhase, SolverPhase, Stopped
  <1>3. ASSUME NEW p \in {"polling", "receiving", "reaping"}, NEW f \in Functions,
               Continue(c, p, f), <<c, "start">> \notin queued \union running, f # "start",
               pc[c] \in Holding
        PROVE  CallInv(c)'
    BY <1>3 DEF Continue, Await, TypeOK, CallInv, StartPhase, SolverPhase, Stopped
  <1>4. ASSUME NEW r, Finally(c, r), <<c, "start">> \notin queued \union running, pc[c] \in Holding
        PROVE  CallInv(c)'
    <2>1. /\ child'[c] \notin Running
          /\ child'[c] # "crashed" => ~solver'[c]
          /\ child'[c] # "none" => child[c] # "none"
      BY <1>4, FinallyStops DEF Finally, CallInv
    <2>2. /\ pc'[c] \in {"joining", "ended"}
          /\ UNCHANGED <<running, pid, detached>>
          /\ <<c, "start">> \notin queued'
      BY <1>4 DEF Finally, Await, TypeOK
    <2>3. StartPhase(c)'
      BY <1>4, <2>1, <2>2 DEF CallInv, StartPhase
    <2>4. SolverPhase(c)' /\ Stopped(c)'
      BY <2>1, <2>2 DEF SolverPhase, Stopped, Alive, Running
    <2> QED
      BY <2>3, <2>4 DEF CallInv
  <1>5. ASSUME NEW p \in {"waiting", "computing", "joining"}, NEW r, StopWaiting(c, p, r)
        PROVE  CallInv(c)'
    BY <1>5 DEF StopWaiting, End, TypeOK, CallInv, StartPhase, SolverPhase, Stopped, Alive, Running
  <1>6. pc[c] \in {"polling", "receiving", "reaping", "joining"} =>
            <<c, "start">> \notin queued \union running
    BY DEF CallInv, StartPhase
  <1>7. CASE AfterStart(c)
    BY <1>7, <1>3, <1>4 DEF AfterStart, Resumes, Returned, Functions
  <1>8. CASE AfterPoll(c)
    BY <1>8, <1>3, <1>4, <1>6 DEF AfterPoll, Resumes, Functions
  <1>9. CASE AfterRecv(c)
    BY <1>9, <1>3, <1>4, <1>6 DEF AfterRecv, Resumes, Functions
  <1>10. CASE AfterReap(c)
    BY <1>10, <1>4, <1>6 DEF AfterReap, Resumes
  <1>11. CASE AfterJoin(c)
    BY <1>11 DEF AfterJoin, Resumes, End, TypeOK, CallInv, StartPhase, SolverPhase, Stopped, Alive
  <1>12. CASE AfterFn(c)
    BY <1>12 DEF AfterFn, Resumes, End, TypeOK, CallInv, StartPhase, SolverPhase, Stopped,
                 Alive, Running
  <1>13. CASE WaitTimesOut(c)
    BY <1>13, <1>5 DEF WaitTimesOut
  <1>14. CASE CancelOutside(c)
    BY <1>14, <1>5 DEF CancelOutside
  <1>15. CASE CancelInside(c)
    <2>1. /\ <<c, "start">> \notin queued'
          /\ running' = running /\ pid' = pid
          /\ pc'[c] \in {"joining", "ended"}
      BY <1>15 DEF CancelInside, TypeOK
    <2>2. child'[c] # "none" => child[c] # "none"
      BY <1>15 DEF CancelInside, Kill, Killable, Running, TypeOK
    <2>3. solver'[c] => child'[c] \in {"computing", "crashed"}
      BY <1>15 DEF CancelInside, Kill, Killable, Running, TypeOK, CallInv, SolverPhase
    <2>4. CASE <<c, "start">> \in running
      <3>1. ~pid[c]
        BY <2>4 DEF CallInv, StartPhase
      <3>2. c \in detached' /\ pc'[c] = "ended"
        BY <1>15, <2>4, <3>1 DEF CancelInside, TypeOK, CallInv, StartPhase
      <3> QED
        BY <2>1, <2>2, <2>3, <2>4, <3>1, <3>2 DEF CallInv, StartPhase, SolverPhase, Stopped
    <2>5. CASE <<c, "start">> \notin running
      <3>1. detached' = detached
        BY <1>15, <2>5 DEF CancelInside
      <3>2. child'[c] \notin Running /\ (child'[c] # "crashed" => ~solver'[c])
        BY <1>15, <2>5, FinallyStops DEF CancelInside, CallInv
      <3>3. c \notin detached
        BY <1>15 DEF CancelInside, CallInv, StartPhase
      <3> QED
        BY <2>1, <2>2, <2>3, <2>5, <3>1, <3>2, <3>3
           DEF CallInv, StartPhase, SolverPhase, Stopped, Alive
    <2> QED
      BY <2>4, <2>5
  <1> QED
    BY <1>1, <1>2, <1>7, <1>8, <1>9, <1>10, <1>11, <1>12, <1>13, <1>14, <1>15
       DEF TaskStep, Resume

-----------------------------------------------------------------------------
LEMMA PlacesInit == Init => PlacesKept
PROOF
  <1> SUFFICES ASSUME Init PROVE PlacesKept
    OBVIOUS
  <1>1. Holders = {}
    BY DEF Init, Holders, Holding
  <1> QED
    BY <1>1, FS_EmptySet, IsolationAssumption DEF PlacesKept

\* Only Acquire adds a holder, when there is a place.
LEMMA PlacesStep ==
    ASSUME TypeOK, PlacesKept, [Next]_vars
    PROVE  PlacesKept'
PROOF
  <1> USE DEF Holders, Holding, threadVars, childVars, startVars, taskVars, Goto
  <1>1. IsFiniteSet(Holders) /\ Cardinality(Holders) \in Nat
    BY FS_Subset, FS_CardinalityType, IsolationAssumption
  <1>2. ASSUME Holders' \subseteq Holders
        PROVE  PlacesKept'
    <2>1. Cardinality(Holders') <= Cardinality(Holders) /\ Cardinality(Holders') \in Nat
      BY <1>1, <1>2, FS_Subset, FS_CardinalityType
    <2> QED
      BY <1>1, <2>1, IsolationAssumption DEF PlacesKept
  <1>3. ASSUME NEW c \in Calls, Acquire(c)
        PROVE  PlacesKept'
    <2>1. Holders' = Holders \union {c}
      BY <1>3 DEF Acquire, Await, TypeOK
    <2>2. /\ Cardinality(Holders \union {c}) <= Cardinality(Holders) + 1
          /\ Cardinality(Holders \union {c}) \in Nat
      BY <1>1, OneMore
    <2>3. Cardinality(Holders) < MaxProcesses
      BY <1>3 DEF Acquire
    <2> QED
      BY <1>1, <2>1, <2>2, <2>3, IsolationAssumption DEF PlacesKept
  <1>4. ASSUME NEW c \in Calls, ThreadStep(c) \/ ChildStep(c)
        PROVE  pc' = pc
    BY <1>4 DEF ThreadStep, RunInThread, Fork, StartReturns, StartRaises, PollReturns, PlainReturn,
                Return, ChildStep, ChildBegins, SolverStartsOrEnds, ChildSends, ChildExits,
                ChildCrashes, ChildGoes
  <1>5. ASSUME NEW c \in Calls, TaskStep(c), ~Acquire(c)
        PROVE  Holders' \subseteq Holders
    <2>1. CASE Begin(c)
      BY <2>1 DEF Begin, Await, TypeOK
    <2>2. ASSUME NEW p, NEW f, Continue(c, p, f), pc[c] \in Holding
          PROVE  Holders' \subseteq Holders
      BY <2>2 DEF Continue, Await, TypeOK
    <2>3. ASSUME NEW r, Finally(c, r), pc[c] \in Holding
          PROVE  Holders' \subseteq Holders
      BY <2>3 DEF Finally, Await, TypeOK
    <2>4. ASSUME NEW r, End(c, r)
          PROVE  Holders' \subseteq Holders
      BY <2>4 DEF End, TypeOK
    <2>5. CASE AfterStart(c) \/ AfterPoll(c) \/ AfterRecv(c) \/ AfterReap(c)
      BY <2>5, <2>2, <2>3 DEF AfterStart, AfterPoll, AfterRecv, AfterReap, Resumes
    <2>6. CASE AfterJoin(c) \/ AfterFn(c) \/ WaitTimesOut(c) \/ CancelOutside(c)
      BY <2>6, <2>4 DEF AfterJoin, AfterFn, WaitTimesOut, CancelOutside, StopWaiting
    <2>7. CASE CancelInside(c)
      BY <2>7 DEF CancelInside, TypeOK
    <2> QED
      BY <1>5, <2>1, <2>5, <2>6, <2>7 DEF TaskStep, Resume
  <1>6. CASE UNCHANGED vars
    BY <1>2, <1>6 DEF vars
  <1> QED
    BY <1>2, <1>3, <1>4, <1>5, <1>6 DEF Next

-----------------------------------------------------------------------------
\* The invariant holds initially and is kept by every step.
LEMMA InitInv == Init => IInv
PROOF BY TypeInit, CallsInit, PlacesInit DEF IInv

LEMMA StepInv == IInv /\ [Next]_vars => IInv'
PROOF
  <1> SUFFICES ASSUME IInv, [Next]_vars PROVE IInv'
    OBVIOUS
  <1>1. TypeOK' /\ PlacesKept'
    BY TypeKept, PlacesStep DEF IInv
  <1>2. ASSUME NEW d \in Calls
        PROVE  CallInv(d)'
    <2>1. TypeOK /\ CallInv(d)
      BY DEF IInv
    <2>2. ASSUME NEW c \in Calls, ThreadStep(c) \/ ChildStep(c) \/ TaskStep(c)
          PROVE  CallInv(d)'
      <3>1. CASE c = d
        BY <2>1, <2>2, <3>1, OwnThreadStep, OwnChildStep, OwnTaskStep
      <3>2. CASE c # d
        BY <2>1, <2>2, <3>2, OthersKept, UntouchedKeeps
      <3> QED
        BY <3>1, <3>2
    <2>3. CASE UNCHANGED vars
      <3>1. Untouched(d)
        BY <2>3 DEF vars, threadVars, childVars, startVars, taskVars, Untouched
      <3> QED
        BY <2>1, <3>1, UntouchedKeeps
    <2> QED
      BY <2>2, <2>3 DEF Next
  <1> QED
    BY <1>1, <1>2 DEF IInv

THEOREM AlwaysInv == Spec => []IInv
PROOF BY InitInv, StepInv, PTL DEF Spec

\* The types of the variables, and no more running functions than threads.
THEOREM TypeCorrect == Spec => []TypeOK
PROOF
  <1>1. IInv => TypeOK
    BY DEF IInv
  <1> QED
    BY <1>1, AlwaysInv, PTL

\* However a call of run_isolated ends, the child process it started is not running
\* any more, and nor is the child's solver, with the two exceptions that
\* ComputationsStopped names.
THEOREM ChildrenNeverOutlive == Spec => []ComputationsStopped
PROOF
  <1>1. IInv => ComputationsStopped
    BY DEF IInv, CallInv, Stopped, ComputationsStopped, Ended
  <1> QED
    BY <1>1, AlwaysInv, PTL

\* SOLVE_MAX_PROCESSES bounds the children that run, whatever is cancelled and when,
\* except for those of calls that were cancelled while proc.start() created them.
THEOREM ChildrenBounded == Spec => []ProcessesBounded
PROOF
  <1>1. ASSUME IInv PROVE ProcessesBounded
    <2> DEFINE alive == {c \in Calls \ detached : Alive(c)}
    <2>1. ASSUME NEW c \in alive PROVE c \in Holders
      <3>1. pc[c] \notin {"joining", "ended"}
        BY <1>1, <2>1 DEF IInv, CallInv, Stopped
      <3>2. child[c] # "none"
        BY <2>1 DEF Alive, Running
      <3>3. pc[c] \notin {"idle", "waiting", "computing"}
        BY <1>1, <2>1, <3>2 DEF IInv, CallInv, StartPhase
      <3>4. pc[c] \in Phases
        BY <1>1, <2>1 DEF IInv, TypeOK
      <3> QED
        BY <2>1, <3>1, <3>3, <3>4 DEF Phases, Holding, Holders
    <2>2. IsFiniteSet(Holders) /\ alive \in SUBSET Holders
      BY <2>1, FS_Subset, IsolationAssumption DEF Holders
    <2>3. /\ Cardinality(alive) <= Cardinality(Holders)
          /\ Cardinality(alive) \in Nat /\ Cardinality(Holders) \in Nat
      BY <2>2, FS_Subset, FS_CardinalityType
    <2>4. Cardinality(Holders) <= MaxProcesses
      BY <1>1 DEF IInv, PlacesKept
    <2>5. Cardinality(alive) <= MaxProcesses
      BY <2>3, <2>4, IsolationAssumption
    <2> QED
      BY <2>5 DEF ProcessesBounded
  <1> QED
    BY <1>1, AlwaysInv, PTL
=============================================================================
