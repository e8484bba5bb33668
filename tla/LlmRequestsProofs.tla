------------------------- MODULE LlmRequestsProofs -------------------------
(***************************************************************************)
(* Theorems about LlmRequests, for every number of requests, users and     *)
(* solutions, all limits and pool sizes.                                   *)
(***************************************************************************)
EXTENDS LlmRequests, FiniteSetTheorems, TLAPS

Granting == {"opening", "noting", "sleeping", "replying", "committing", "calling", "loading", "storing"}

\* The requests that have an open conversation, and those with the user's message in it.
Invoking(r) == phase[r] \in {"sleeping", "replying", "committing"} \/ (phase[r] = "calling" /\ about[r] \in Requests)
Recording(r) == phase[r] = "noting" \/ Invoking(r)

\* The explanations whose owner was checked.
Reading(r) == phase[r] \in {"looking", "counting", "loading", "storing"} \/ (phase[r] = "calling" /\ about[r] \in Solutions)

\* What binds a request to its endpoint, to the limiter and to the LLM.
RequestPhase(r) ==
    /\ phase[r] = "idle" => about[r] = r /\ user[r] = Nobody /\ r \notin granted /\ answer[r] = "none"
    /\ phase[r] # "idle" => user[r] \in Users
    /\ phase[r] \in Structuring => about[r] \in Requests
    /\ phase[r] \in Explaining => about[r] \in Solutions
    /\ phase[r] \in {"connecting", "limiting", "owning", "looking", "counting"} => r \notin granted
    /\ phase[r] \in Granting => r \in granted
    /\ r \notin granted => calls[r] = 0
    /\ phase[r] \in {"opening", "noting", "loading"} => calls[r] = 0
    /\ phase[r] = "calling" => calls[r] < (IF about[r] \in Solutions THEN 1 ELSE MaxAttempts)
    /\ phase[r] = "sleeping" => calls[r] < MaxAttempts
    /\ calls[r] <= (IF about[r] \in Solutions THEN 1 ELSE MaxAttempts)
    /\ answer[r] # "none" => phase[r] = "ended"

\* What a request has flushed, by the place it has reached, and whose it is.
RequestRows(r) ==
    /\ Recording(r) =>
           /\ about[r] = r => "conversation" \in flushed[r]
           /\ about[r] # r => "conversation" \in committed[about[r]] /\ user[about[r]] = user[r]
    /\ Invoking(r) => "user" \in flushed[r]
    /\ phase[r] = "committing" => "assistant" \in flushed[r]
    /\ committed[r] # {} =>
           /\ phase[r] = "ended"
           /\ about[r] \in Requests
           /\ {"user", "assistant"} \subseteq committed[r]
           /\ "conversation" \in committed[about[r]]
           /\ user[about[r]] = user[r]
    /\ answer[r] = "problem" => committed[r] # {}
    /\ Reading(r) => Owner[about[r]] = user[r]
    /\ answer[r] \in {"explained", "fallback"} => about[r] \in Solutions /\ Owner[about[r]] = user[r]

\* Every grant to a user whom the limits apply to was counted.
GrantsCounted ==
    \A u \in Users \ Superusers, k \in Kinds : Cardinality(Granted(u, k)) <= passes[u][k]

IInv ==
    /\ TypeOK
    /\ \A r \in Requests : RequestPhase(r) /\ RequestRows(r)
    /\ GrantsCounted

-----------------------------------------------------------------------------
\* Sets of requests are finite, and one more request adds at most one.
LEMMA OneMore ==
    ASSUME NEW S \in SUBSET Requests, NEW r \in Requests
    PROVE  /\ IsFiniteSet(S) /\ IsFiniteSet(S \union {r})
           /\ Cardinality(S) \in Nat
           /\ Cardinality(S \union {r}) \in Nat
           /\ Cardinality(S \union {r}) <= Cardinality(S) + 1
           /\ Cardinality(S \ {r}) \in Nat
           /\ Cardinality(S \ {r}) <= Cardinality(S)
<1>1. IsFiniteSet(S)
  BY LlmAssumption, FS_Subset
<1>2. IsFiniteSet(S \union {r}) /\ IsFiniteSet(S \ {r})
  BY <1>1, FS_AddElement, FS_Subset
<1> QED  BY <1>1, <1>2, FS_AddElement, FS_RemoveElement, FS_CardinalityType

\* A request that goes on, flushes or quits keeps the types.
LEMMA GoOnTypes ==
    ASSUME TypeOK, NEW r \in Requests, NEW from \in Phases, NEW to \in Phases, Goto(r, from, to),
           UNCHANGED <<databaseVars, cache, limitVars>>,
           UNCHANGED calls \/ \E k \in Kinds : Called(r, k)
    PROVE  TypeOK'
BY LlmAssumption DEF TypeOK, Goto, Called, databaseVars, limitVars

LEMMA QuitTypes ==
    ASSUME TypeOK, NEW r \in Requests, NEW a \in Answers, Quit(r, a), UNCHANGED <<cache, limitVars>>,
           UNCHANGED calls \/ \E k \in Kinds : Called(r, k)
    PROVE  TypeOK'
<1>1. Cardinality(conns') <= PoolSize
  <2>1. conns \in SUBSET Requests /\ Cardinality(conns) <= PoolSize /\ PoolSize \in Nat /\ conns' = conns \ {r}
    BY LlmAssumption DEF TypeOK, Quit, Ends
  <2>2. Cardinality(conns) \in Nat /\ Cardinality(conns \ {r}) \in Nat
        /\ Cardinality(conns \ {r}) <= Cardinality(conns)
    BY <2>1, OneMore
  <2> QED  BY <2>1, <2>2
<1>2. calls' \in [Requests -> Nat]
  BY DEF TypeOK, Called
<1> QED  BY <1>1, <1>2 DEF TypeOK, Quit, Ends, Phases, limitVars

LEMMA FlushTypes ==
    ASSUME TypeOK, NEW r \in Requests, NEW from \in Phases, NEW to \in Phases, NEW row \in Rows,
           Flush(r, from, to, row)
    PROVE  TypeOK'
BY DEF TypeOK, Flush, Goto, limitVars

LEMMA GrantTypes ==
    ASSUME IInv, NEW r \in Requests, NEW k \in Kinds, NEW from \in Phases, NEW to \in Phases,
           Grant(r, k, from, to), from # "idle"
    PROVE  TypeOK'
<1>1. user[r] \in Users
  BY DEF IInv, RequestPhase, Grant, Goto
<1>2. passes' \in [Users -> [Kinds -> 0 .. Limit]]
  <2>1. CASE user[r] \in Superusers  BY <2>1 DEF IInv, TypeOK, Grant
  <2>2. CASE user[r] \notin Superusers
    <3>1. passes[user[r]] \in [Kinds -> 0 .. Limit] /\ passes[user[r]][k] + 1 \in 0 .. Limit
      BY <1>1, <2>2, LlmAssumption DEF IInv, TypeOK, Grant
    <3>2. [passes[user[r]] EXCEPT ![k] = @ + 1] \in [Kinds -> 0 .. Limit]
      BY <3>1
    <3>3. passes' = [passes EXCEPT ![user[r]] = [passes[user[r]] EXCEPT ![k] = @ + 1]]
      BY <2>2 DEF Grant
    <3> QED  BY <1>1, <3>2, <3>3 DEF IInv, TypeOK
  <2> QED  BY <2>1, <2>2
<1> QED  BY <1>2 DEF IInv, TypeOK, Grant, Goto, databaseVars

\* Types are preserved.
LEMMA TypeInductive == IInv /\ [Next]_vars => TypeOK'
<1> SUFFICES ASSUME IInv, [Next]_vars PROVE TypeOK'
  OBVIOUS
<1>0. TypeOK
  BY DEF IInv
<1> USE <1>0 DEF Phases, Structuring, Explaining, Kinds, Rows, Answers
<1>1. ASSUME NEW r \in Requests, NEW u \in Users, NEW x \in Requests \union Solutions, Arrive(r, u, x)
      PROVE  TypeOK'
  BY <1>1 DEF TypeOK, Arrive, databaseVars, limitVars
<1>2. ASSUME NEW r \in Requests, Connect(r) PROVE TypeOK'
  <2>1. conns \in SUBSET Requests /\ PoolSize \in Nat /\ conns' = conns \union {r} /\ Cardinality(conns) < PoolSize
    BY <1>2, LlmAssumption DEF TypeOK, Connect
  <2>2. Cardinality(conns) \in Nat /\ Cardinality(conns \union {r}) \in Nat
        /\ Cardinality(conns \union {r}) <= Cardinality(conns) + 1
    BY <2>1, OneMore
  <2>3. Cardinality(conns') <= PoolSize
    BY <2>1, <2>2
  <2> QED  BY <1>2, <2>3 DEF TypeOK, Connect, Goto, limitVars
<1>3. ASSUME NEW r \in Requests, StructureStep(r) PROVE TypeOK'
  <2>1. CASE Grant(r, "structure", "limiting", "opening")  BY <2>1, GrantTypes
  <2>2. CASE OverLimit(r, "structure", "limiting")  BY <2>2, QuitTypes DEF OverLimit
  <2>3. CASE OpenConversation(r)  BY <2>3, GoOnTypes, FlushTypes DEF OpenConversation
  <2>4. CASE ConversationNotFound(r)  BY <2>4, QuitTypes DEF ConversationNotFound
  <2>5. CASE AddUserMessage(r)  BY <2>5, FlushTypes DEF AddUserMessage
  <2>6. CASE WorkflowReturns(r)  BY <2>6, GoOnTypes DEF WorkflowReturns, Called
  <2>7. CASE WorkflowRefuses(r)  BY <2>7, QuitTypes DEF WorkflowRefuses, Called
  <2>8. CASE WorkflowFails(r)  BY <2>8, GoOnTypes, QuitTypes DEF WorkflowFails, Called
  <2>9. CASE Retry(r)  BY <2>9, GoOnTypes DEF Retry
  <2>10. CASE AddAssistantMessage(r)  BY <2>10, FlushTypes DEF AddAssistantMessage
  <2>11. CASE Commit(r)
    <3>1. conns \in SUBSET Requests /\ Cardinality(conns) <= PoolSize /\ PoolSize \in Nat /\ conns' = conns \ {r}
      BY <2>11, LlmAssumption DEF TypeOK, Commit, Ends
    <3>2. Cardinality(conns) \in Nat /\ Cardinality(conns \ {r}) \in Nat
          /\ Cardinality(conns \ {r}) <= Cardinality(conns)
      BY <3>1, OneMore
    <3>3. Cardinality(conns') <= PoolSize
      BY <3>1, <3>2
    <3> QED  BY <2>11, <3>3 DEF TypeOK, Commit, Ends, limitVars
  <2> QED  BY <1>3, <2>1, <2>2, <2>3, <2>4, <2>5, <2>6, <2>7, <2>8, <2>9, <2>10, <2>11 DEF StructureStep
<1>4. ASSUME NEW r \in Requests, ExplainStep(r) PROVE TypeOK'
  <2>1. CASE ReadSolution(r)  BY <2>1, GoOnTypes, QuitTypes DEF ReadSolution
  <2>2. CASE LookUp(r)  BY <2>2, GoOnTypes, QuitTypes DEF LookUp
  <2>3. CASE Grant(r, "explain", "counting", "loading")  BY <2>3, GrantTypes
  <2>4. CASE OverLimit(r, "explain", "counting")  BY <2>4, QuitTypes DEF OverLimit
  <2>5. CASE LoadProblem(r)  BY <2>5, GoOnTypes DEF LoadProblem
  <2>6. CASE ExplanationReturns(r)  BY <2>6, GoOnTypes DEF ExplanationReturns, Called
  <2>7. CASE FallBack(r)  BY <2>7, QuitTypes DEF FallBack, Called
  <2>8. CASE StoreExplanation(r)
    <3>1. conns \in SUBSET Requests /\ Cardinality(conns) <= PoolSize /\ PoolSize \in Nat /\ conns' = conns \ {r}
      BY <2>8, LlmAssumption DEF TypeOK, StoreExplanation, Quit, Ends
    <3>2. Cardinality(conns) \in Nat /\ Cardinality(conns \ {r}) \in Nat
          /\ Cardinality(conns \ {r}) <= Cardinality(conns)
      BY <3>1, OneMore
    <3>3. Cardinality(conns') <= PoolSize
      BY <3>1, <3>2
    <3> QED  BY <2>8, <3>3 DEF TypeOK, StoreExplanation, Quit, Ends, limitVars, Explanations
  <2> QED  BY <1>4, <2>1, <2>2, <2>3, <2>4, <2>5, <2>6, <2>7, <2>8 DEF ExplainStep
<1>5. ASSUME NEW r \in Requests, ConnectTimesOut(r) \/ Fails(r) PROVE TypeOK'
  BY <1>5, QuitTypes DEF ConnectTimesOut, Fails
<1>6. ASSUME NEW s \in Solutions, Expire(s) PROVE TypeOK'
  BY <1>6 DEF TypeOK, Expire, Explanations, requestVars, databaseVars, limitVars
<1>7. CASE UNCHANGED vars
  BY <1>7 DEF TypeOK, vars, requestVars, databaseVars, limitVars
<1> QED  BY <1>1, <1>2, <1>3, <1>4, <1>5, <1>6, <1>7 DEF Next, Progress

\* The part of the invariant that speaks of the requests is preserved.
LEMMA RequestInductive ==
    IInv /\ [Next]_vars => \A d \in Requests : RequestPhase(d)' /\ RequestRows(d)'
<1> SUFFICES ASSUME IInv, [Next]_vars, NEW d \in Requests PROVE RequestPhase(d)' /\ RequestRows(d)'
  OBVIOUS
<1> USE LlmAssumption DEF IInv, TypeOK, RequestPhase, RequestRows, Recording, Invoking, Reading, Granting,
        Phases, Structuring, Explaining, Rows, Answers, requestVars, databaseVars, limitVars, Goto, Ends, Quit
<1>1. ASSUME NEW r \in Requests, NEW u \in Users, NEW x \in Requests \union Solutions, Arrive(r, u, x)
      PROVE  RequestPhase(d)' /\ RequestRows(d)'
  BY <1>1 DEF Arrive
<1>2. ASSUME NEW r \in Requests, Connect(r) PROVE RequestPhase(d)' /\ RequestRows(d)'
  BY <1>2 DEF Connect, Kind
<1>3. ASSUME NEW r \in Requests, StructureStep(r) PROVE RequestPhase(d)' /\ RequestRows(d)'
  <2>1. CASE Grant(r, "structure", "limiting", "opening")  BY <2>1 DEF Grant
  <2>2. CASE OverLimit(r, "structure", "limiting")  BY <2>2 DEF OverLimit
  <2>3. CASE OpenConversation(r)  BY <2>3 DEF OpenConversation, Found, Flush
  <2>4. CASE ConversationNotFound(r)  BY <2>4 DEF ConversationNotFound
  <2>5. CASE AddUserMessage(r)  BY <2>5 DEF AddUserMessage, Flush
  <2>6. CASE WorkflowReturns(r)  BY <2>6 DEF WorkflowReturns, Called, Kind
  <2>7. CASE WorkflowRefuses(r)  BY <2>7 DEF WorkflowRefuses, Called, Kind
  <2>8. CASE WorkflowFails(r)  BY <2>8 DEF WorkflowFails, Called, Kind
  <2>9. CASE Retry(r)  BY <2>9 DEF Retry
  <2>10. CASE AddAssistantMessage(r)  BY <2>10 DEF AddAssistantMessage, Flush
  <2>11. CASE Commit(r)  BY <2>11 DEF Commit
  <2> QED  BY <1>3, <2>1, <2>2, <2>3, <2>4, <2>5, <2>6, <2>7, <2>8, <2>9, <2>10, <2>11 DEF StructureStep
<1>4. ASSUME NEW r \in Requests, ExplainStep(r) PROVE RequestPhase(d)' /\ RequestRows(d)'
  <2>1. CASE ReadSolution(r)  BY <2>1 DEF ReadSolution
  <2>2. CASE LookUp(r)  BY <2>2 DEF LookUp
  <2>3. CASE Grant(r, "explain", "counting", "loading")  BY <2>3 DEF Grant
  <2>4. CASE OverLimit(r, "explain", "counting")  BY <2>4 DEF OverLimit
  <2>5. CASE LoadProblem(r)  BY <2>5 DEF LoadProblem
  <2>6. CASE ExplanationReturns(r)  BY <2>6 DEF ExplanationReturns, Called, Kind
  <2>7. CASE FallBack(r)  BY <2>7 DEF FallBack, Called, Kind
  <2>8. CASE StoreExplanation(r)  BY <2>8 DEF StoreExplanation
  <2> QED  BY <1>4, <2>1, <2>2, <2>3, <2>4, <2>5, <2>6, <2>7, <2>8 DEF ExplainStep
<1>5. ASSUME NEW r \in Requests, ConnectTimesOut(r) \/ Fails(r) PROVE RequestPhase(d)' /\ RequestRows(d)'
  BY <1>5 DEF ConnectTimesOut, Fails
<1>6. ASSUME NEW s \in Solutions, Expire(s) PROVE RequestPhase(d)' /\ RequestRows(d)'
  BY <1>6 DEF Expire
<1>7. CASE UNCHANGED vars
  BY <1>7 DEF vars
<1> QED  BY <1>1, <1>2, <1>3, <1>4, <1>5, <1>6, <1>7 DEF Next, Progress

\* One more grant is one more pass.
LEMMA GrantCounted ==
    ASSUME IInv, TypeOK', NEW r \in Requests, NEW k \in Kinds, NEW from \in Phases, NEW to \in Phases,
           Grant(r, k, from, to), Kind(r) = k
    PROVE  GrantsCounted'
<1> SUFFICES ASSUME NEW u \in Users \ Superusers, NEW l \in Kinds
             PROVE  Cardinality(Granted(u, l)') <= passes'[u][l]
  BY DEF GrantsCounted, Granted
<1> USE DEF IInv, TypeOK
<1>1. Granted(u, l) \in SUBSET Requests /\ Cardinality(Granted(u, l)) <= passes[u][l]
  BY DEF Granted, GrantsCounted
<1>2. passes[u][l] \in Nat /\ passes'[u][l] \in Nat
  BY LlmAssumption
<1>3. CASE user[r] = u /\ k = l
  <2>1. Granted(u, l)' = Granted(u, l) \union {r}
    BY <1>3 DEF Grant, Granted, Goto, Kind
  <2>2. passes'[u][l] = passes[u][l] + 1
    BY <1>3 DEF Grant
  <2>3. Cardinality(Granted(u, l)) \in Nat /\ Cardinality(Granted(u, l) \union {r}) \in Nat
        /\ Cardinality(Granted(u, l) \union {r}) <= Cardinality(Granted(u, l)) + 1
    BY <1>1, OneMore
  <2> QED  BY <1>1, <1>2, <2>1, <2>2, <2>3
<1>4. CASE ~(user[r] = u /\ k = l)
  <2>1. Granted(u, l)' = Granted(u, l)
    BY <1>4 DEF Grant, Granted, Goto, Kind
  <2>2. passes'[u][l] = passes[u][l]
    BY <1>4 DEF Grant
  <2> QED  BY <1>1, <2>1, <2>2
<1> QED  BY <1>3, <1>4

\* The count of the grants is preserved.
LEMMA CountInductive == IInv /\ TypeOK' /\ [Next]_vars => GrantsCounted'
<1> SUFFICES ASSUME IInv, TypeOK', [Next]_vars PROVE GrantsCounted'
  OBVIOUS
<1>1. ASSUME UNCHANGED <<user, about, limitVars>> PROVE GrantsCounted'
  <2>1. \A u \in Users, k \in Kinds : Granted(u, k)' = Granted(u, k)
    BY <1>1 DEF Granted, Kind, limitVars
  <2> QED  BY <1>1, <2>1 DEF IInv, GrantsCounted, limitVars
<1>2. ASSUME NEW r \in Requests, NEW u \in Users, NEW x \in Requests \union Solutions, Arrive(r, u, x)
      PROVE  GrantsCounted'
  <2>1. r \notin granted
    BY <1>2 DEF Arrive, IInv, RequestPhase
  <2>2. \A v \in Users, k \in Kinds : Granted(v, k)' = Granted(v, k)
    BY <1>2, <2>1 DEF Arrive, Granted, Kind, limitVars, IInv, TypeOK
  <2> QED  BY <1>2, <2>2 DEF IInv, GrantsCounted, Arrive, limitVars
<1>3. ASSUME NEW r \in Requests, Grant(r, "structure", "limiting", "opening") PROVE GrantsCounted'
  <2>1. Kind(r) = "structure"
    BY <1>3, LlmAssumption DEF Grant, Goto, Kind, IInv, RequestPhase, Structuring
  <2> QED  BY <1>3, <2>1, GrantCounted DEF Kinds, Phases, Structuring
<1>4. ASSUME NEW r \in Requests, Grant(r, "explain", "counting", "loading") PROVE GrantsCounted'
  <2>1. Kind(r) = "explain"
    BY <1>4 DEF Grant, Goto, Kind, IInv, RequestPhase, Explaining
  <2> QED  BY <1>4, <2>1, GrantCounted DEF Kinds, Phases, Explaining
<1>5. ASSUME NEW r \in Requests, StructureStep(r), ~Grant(r, "structure", "limiting", "opening")
      PROVE  UNCHANGED <<user, about, limitVars>>
  BY <1>5 DEF StructureStep, OverLimit, OpenConversation, ConversationNotFound, AddUserMessage,
      WorkflowReturns, WorkflowRefuses, WorkflowFails, Retry, AddAssistantMessage, Commit, Called, Flush,
      Goto, Quit, Ends
<1>6. ASSUME NEW r \in Requests, ExplainStep(r), ~Grant(r, "explain", "counting", "loading")
      PROVE  UNCHANGED <<user, about, limitVars>>
  BY <1>6 DEF ExplainStep, ReadSolution, LookUp, OverLimit, LoadProblem, ExplanationReturns, FallBack,
      StoreExplanation, Called, Goto, Quit, Ends
<1>7. ASSUME NEW r \in Requests, Connect(r) \/ ConnectTimesOut(r) \/ Fails(r)
      PROVE  UNCHANGED <<user, about, limitVars>>
  BY <1>7 DEF Connect, ConnectTimesOut, Fails, Goto, Quit, Ends
<1>8. ASSUME NEW s \in Solutions, Expire(s) PROVE UNCHANGED <<user, about, limitVars>>
  BY <1>8 DEF Expire, requestVars
<1>9. CASE UNCHANGED vars  BY <1>1, <1>9 DEF vars, requestVars
<1> QED  BY <1>1, <1>2, <1>3, <1>4, <1>5, <1>6, <1>7, <1>8, <1>9 DEF Next, Progress

-----------------------------------------------------------------------------
\* The inductive invariant holds in every behaviour.
THEOREM LlmInvariance == Spec => []IInv
<1>1. Init => IInv
  <2> SUFFICES ASSUME Init PROVE IInv
    OBVIOUS
  <2>1. Cardinality({}) = 0 /\ PoolSize >= 0
    BY FS_EmptySet, LlmAssumption
  <2>2. TypeOK
    BY <2>1, LlmAssumption DEF Init, TypeOK, Phases, Answers, Explanations
  <2>3. \A r \in Requests : RequestPhase(r) /\ RequestRows(r)
    BY LlmAssumption DEF Init, RequestPhase, RequestRows, Recording, Invoking, Reading, Granting,
        Structuring, Explaining
  <2>4. \A u \in Users, k \in Kinds : Granted(u, k) = {} /\ passes[u][k] = 0
    BY DEF Init, Granted
  <2> QED  BY <2>1, <2>2, <2>3, <2>4 DEF IInv, GrantsCounted
<1>2. IInv /\ [Next]_vars => IInv'
  BY TypeInductive, RequestInductive, CountInductive DEF IInv
<1> QED  BY <1>1, <1>2, PTL DEF Spec

\* TypeOK, and with it the bound on the connections in use, for every instance.
THEOREM LlmTypeCorrect == Spec => []TypeOK
<1>1. IInv => TypeOK
  BY DEF IInv
<1> QED  BY <1>1, LlmInvariance, PTL

\* Conversations are kept whole or not at all, wherever requests fail.
THEOREM HistoriesAreWhole == Spec => []HistoryIsWhole
<1>1. IInv => HistoryIsWhole
  BY DEF IInv, RequestRows, HistoryIsWhole
<1> QED  BY <1>1, LlmInvariance, PTL

\* No user is told, or adds to, what belongs to another.
THEOREM UsersSeeTheirOwn == Spec => []OwnDataOnly
<1>1. IInv => OwnDataOnly
  BY DEF IInv, RequestRows, OwnDataOnly
<1> QED  BY <1>1, LlmInvariance, PTL

\* The limiter bounds the calls of the LLM.
THEOREM SpendingIsBounded == Spec => []SpendIsBounded
<1>1. IInv => SpendIsBounded
  <2> SUFFICES ASSUME IInv PROVE SpendIsBounded
    OBVIOUS
  <2>1. ASSUME NEW r \in Requests
        PROVE  /\ calls[r] > 0 => r \in granted
               /\ calls[r] <= (IF Kind(r) = "structure" THEN MaxAttempts ELSE 1)
    BY LlmAssumption DEF IInv, TypeOK, RequestPhase, Kind
  <2>2. ASSUME NEW u \in Users \ Superusers, NEW k \in Kinds PROVE Cardinality(Granted(u, k)) <= Limit
    <3>1. Granted(u, k) \in SUBSET Requests /\ Cardinality(Granted(u, k)) <= passes[u][k]
      BY DEF IInv, TypeOK, GrantsCounted, Granted
    <3>2. Cardinality(Granted(u, k)) \in Nat
      BY <3>1, LlmAssumption, FS_Subset, FS_CardinalityType
    <3>3. passes[u][k] \in 0 .. Limit
      BY DEF IInv, TypeOK
    <3> QED  BY <3>1, <3>2, <3>3, LlmAssumption
  <2> QED  BY <2>1, <2>2 DEF SpendIsBounded
<1> QED  BY <1>1, LlmInvariance, PTL

\* Once an explanation is cached no further request misses it.
THEOREM CachedStaysUnasked == Spec => CachedIsNotAsked
<1>1. IInv /\ [Next]_vars
        => [\A s \in Solutions : cache[s] # "none" => Missed(s)' \subseteq Missed(s)]_vars
  <2> SUFFICES ASSUME IInv, [Next]_vars, NEW s \in Solutions, cache[s] # "none",
                      NEW d \in Requests, d \in Missed(s)'
               PROVE  d \in Missed(s)
    BY DEF Missed
  <2> USE LlmAssumption DEF IInv, TypeOK, RequestPhase, Missed, Structuring, Explaining, requestVars, Goto,
          Ends, Quit
  <2>1. ASSUME NEW r \in Requests, NEW u \in Users, NEW x \in Requests \union Solutions, Arrive(r, u, x)
        PROVE  d \in Missed(s)
    BY <2>1 DEF Arrive
  <2>2. ASSUME NEW r \in Requests, Connect(r) \/ ConnectTimesOut(r) \/ Fails(r) PROVE d \in Missed(s)
    BY <2>2 DEF Connect, ConnectTimesOut, Fails
  <2>3. ASSUME NEW r \in Requests, StructureStep(r) PROVE d \in Missed(s)
    BY <2>3 DEF StructureStep, Grant, OverLimit, OpenConversation, ConversationNotFound, AddUserMessage,
        WorkflowReturns, WorkflowRefuses, WorkflowFails, Retry, AddAssistantMessage, Commit, Called, Flush
  <2>4. ASSUME NEW r \in Requests, ExplainStep(r) PROVE d \in Missed(s)
    BY <2>4 DEF ExplainStep, ReadSolution, LookUp, Grant, OverLimit, LoadProblem, ExplanationReturns,
        FallBack, StoreExplanation, Called
  <2>5. ASSUME NEW t \in Solutions, Expire(t) PROVE d \in Missed(s)
    BY <2>5 DEF Expire
  <2>6. CASE UNCHANGED vars  BY <2>6 DEF vars
  <2> QED  BY <2>1, <2>2, <2>3, <2>4, <2>5, <2>6 DEF Next, Progress
<1> QED  BY <1>1, LlmInvariance, PTL DEF Spec, CachedIsNotAsked
=============================================================================
