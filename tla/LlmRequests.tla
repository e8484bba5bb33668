---------------------------- MODULE LlmRequests -----------------------------
(***************************************************************************)
(* The two endpoints that spend money on an LLM and keep what it said:     *)
(* POST /structure (ProblemStructuringService), which writes a             *)
(* conversation in Postgres, and POST /solutions/{id}/explain              *)
(* (SolutionExplanationService), which writes a cache in Redis.            *)
(*                                                                         *)
(* A request is a task of an API process. Its session takes a connection   *)
(* of the pool for its first query, get_current_user's, and keeps it, with *)
(* the transaction, while it waits for Redis and for the LLM, until its    *)
(* commit or its end. An LLM call may return, fail or be refused at any    *)
(* moment. The windows of the rate limiter are in RateLimiter: here one    *)
(* counter of each user and endpoint stands for those of one window. What  *)
(* a session or token is worth is in Accounts.                             *)
(***************************************************************************)
EXTENDS Naturals, FiniteSets

CONSTANTS Requests,
          Users,
          Superusers,   \* users whose is_superuser bypasses the limits
          Solutions,    \* persisted solutions
          Owner,        \* [Solutions -> Users]
          Limit,        \* passes of one window, of one user, for one endpoint
          MaxAttempts,  \* MAX_GENERATION_ATTEMPTS
          PoolSize,     \* connections of the engine's pool, overflow included
          Nobody        \* no user

ASSUME LlmAssumption ==
    /\ IsFiniteSet(Requests)
    /\ Superusers \subseteq Users
    /\ Owner \in [Solutions -> Users]
    /\ Limit \in Nat
    /\ MaxAttempts \in Nat \ {0}
    /\ PoolSize \in Nat \ {0}
    /\ Nobody \notin Users
    /\ Requests \intersect Solutions = {}

VARIABLES phase,      \* [Requests -> Phases], what the request awaits
          user,       \* [Requests -> Users or Nobody], current_user
          about,      \* [Requests -> Requests or Solutions], the conversation (named by
                      \* the request that created it) or the solution it is about
          conns,      \* requests that hold a connection
          flushed,    \* [Requests -> SUBSET Rows], rows of its open transaction
          committed,  \* [Requests -> SUBSET Rows], rows it has committed
          cache,      \* [Solutions -> Explanations], explain:{solution_id} in Redis
          passes,     \* [Users -> [Kinds -> Nat]], the limiter's counters
          granted,    \* history: requests that passed the limiter or bypassed it
          calls,      \* [Requests -> Nat], times the request called the LLM
          answer      \* [Requests -> Answers], what the client was told

requestVars == <<phase, user, about, answer>>
databaseVars == <<conns, flushed, committed>>
limitVars == <<passes, granted>>
vars == <<requestVars, databaseVars, cache, limitVars, calls>>

Kinds == {"structure", "explain"}
Rows == {"conversation", "user", "assistant"}
Explanations == {"none", "llm"}
Answers == {"none", "problem", "explained", "fallback", "refused", "error"}
Structuring == {"limiting", "opening", "noting", "sleeping", "replying", "committing"}
Explaining == {"owning", "looking", "counting", "loading", "storing"}
Phases == {"idle", "connecting", "calling", "ended"} \union Structuring \union Explaining

TypeOK ==
    /\ phase \in [Requests -> Phases]
    /\ user \in [Requests -> Users \union {Nobody}]
    /\ about \in [Requests -> Requests \union Solutions]
    /\ conns \subseteq Requests /\ Cardinality(conns) <= PoolSize
    /\ flushed \in [Requests -> SUBSET Rows]
    /\ committed \in [Requests -> SUBSET Rows]
    /\ cache \in [Solutions -> Explanations]
    /\ passes \in [Users -> [Kinds -> 0 .. Limit]]
    /\ granted \subseteq Requests
    /\ calls \in [Requests -> Nat]
    /\ answer \in [Requests -> Answers]

Init ==
    /\ phase = [r \in Requests |-> "idle"]
    /\ user = [r \in Requests |-> Nobody]
    /\ about = [r \in Requests |-> r]
    /\ conns = {}
    /\ flushed = [r \in Requests |-> {}]
    /\ committed = [r \in Requests |-> {}]
    /\ cache = [s \in Solutions |-> "none"]
    /\ passes = [u \in Users |-> [k \in Kinds |-> 0]]
    /\ granted = {}
    /\ calls = [r \in Requests |-> 0]
    /\ answer = [r \in Requests |-> "none"]

Kind(r) == IF about[r] \in Solutions THEN "explain" ELSE "structure"

Goto(r, from, to) ==
    /\ phase[r] = from
    /\ phase' = [phase EXCEPT ![r] = to]
    /\ UNCHANGED <<user, about, answer>>

\* The request ends, and get_db closes its session: what it has not committed is
\* rolled back and its connection goes back to the pool.
Ends(r, a) ==
    /\ phase' = [phase EXCEPT ![r] = "ended"]
    /\ answer' = [answer EXCEPT ![r] = a]
    /\ conns' = conns \ {r}
    /\ flushed' = [flushed EXCEPT ![r] = {}]
    /\ UNCHANGED <<user, about>>

Quit(r, a) == Ends(r, a) /\ UNCHANGED committed

-----------------------------------------------------------------------------
(* Both endpoints *)

\* A user asks to structure a text, in a new conversation (named r) or in one that
\* another request, of anybody's, has recorded, or to explain a solution.
Arrive(r, u, x) ==
    /\ phase[r] = "idle"
    /\ x \in Requests => x = r \/ committed[x] # {}
    /\ phase' = [phase EXCEPT ![r] = "connecting"]
    /\ user' = [user EXCEPT ![r] = u]
    /\ about' = [about EXCEPT ![r] = x]
    /\ UNCHANGED <<databaseVars, cache, limitVars, calls, answer>>

\* get_current_user takes a connection.
Connect(r) ==
    /\ Cardinality(conns) < PoolSize
    /\ Goto(r, "connecting", IF Kind(r) = "structure" THEN "limiting" ELSE "owning")
    /\ conns' = conns \union {r}
    /\ UNCHANGED <<flushed, committed, cache, limitVars, calls>>

\* The pool's timeout of 30 s.
ConnectTimesOut(r) ==
    /\ phase[r] = "connecting"
    /\ Quit(r, "error")
    /\ UNCHANGED <<cache, limitVars, calls>>

\* RateLimiter.enforce, for those it applies to.
Grant(r, k, from, to) ==
    /\ Goto(r, from, to)
    /\ granted' = granted \union {r}
    /\ IF user[r] \in Superusers
         THEN UNCHANGED passes
         ELSE /\ passes[user[r]][k] < Limit
              /\ passes' = [passes EXCEPT ![user[r]][k] = @ + 1]
    /\ UNCHANGED <<databaseVars, cache, calls>>

OverLimit(r, k, from) ==
    /\ phase[r] = from
    /\ user[r] \notin Superusers
    /\ passes[user[r]][k] >= Limit
    /\ Quit(r, "refused")
    /\ UNCHANGED <<cache, limitVars, calls>>

\* Postgres or Redis raises and the command had no effect, or the process dies.
Fails(r) ==
    /\ phase[r] \notin {"idle", "ended"}
    /\ Quit(r, "error")
    /\ UNCHANGED <<cache, limitVars, calls>>

-----------------------------------------------------------------------------
(* structure *)

Flush(r, from, to, row) ==
    /\ Goto(r, from, to)
    /\ flushed' = [flushed EXCEPT ![r] = @ \union {row}]
    /\ UNCHANGED <<conns, committed, cache, limitVars, calls>>

\* The conversation q, if it belongs to this user.
Found(r, q) == "conversation" \in committed[q] /\ user[q] = user[r]

\* Mutant: the conversation is committed as soon as it is created.
OpenConversationCommitted(r) ==
    /\ Goto(r, "opening", "noting")
    /\ \/ /\ about[r] = r
          /\ committed' = [committed EXCEPT ![r] = {"conversation"}]
       \/ Found(r, about[r]) /\ UNCHANGED committed
    /\ UNCHANGED <<conns, flushed, cache, limitVars, calls>>

\* _get_or_create_conversation creates it, or finds it among the committed ones,
OpenConversation(r) ==
    /\ phase[r] = "opening"
    /\ \/ about[r] = r /\ Flush(r, "opening", "noting", "conversation")
       \/ /\ about[r] # r
          /\ Found(r, about[r])
          /\ Goto(r, "opening", "noting")
          /\ UNCHANGED <<databaseVars, cache, limitVars, calls>>

\* or raises ConversationNotFoundError.
ConversationNotFound(r) ==
    /\ phase[r] = "opening"
    /\ about[r] # r
    /\ ~Found(r, about[r])
    /\ Quit(r, "refused")
    /\ UNCHANGED <<cache, limitVars, calls>>

AddUserMessage(r) == Flush(r, "noting", "calling", "user")

\* The endpoints' calls of the LLM: the request r, of kind k, has waited for one
\* (a whole workflow of two or three, for structure).
Called(r, k) ==
    /\ phase[r] = "calling"
    /\ Kind(r) = k
    /\ calls' = [calls EXCEPT ![r] = @ + 1]
    /\ UNCHANGED <<cache, limitVars>>

WorkflowReturns(r) ==
    /\ Called(r, "structure")
    /\ Goto(r, "calling", "replying")
    /\ UNCHANGED databaseVars

\* ProblemValidationError, InfeasibleProblemError or the provider's quota: no retry.
WorkflowRefuses(r) == Called(r, "structure") /\ Quit(r, "refused")

\* Mutant: the attempts are not counted.
WorkflowFailsAgain(r) ==
    /\ phase[r] = "calling" /\ Kind(r) = "structure"
    /\ Goto(r, "calling", "sleeping")
    /\ UNCHANGED <<databaseVars, cache, limitVars, calls>>

\* Mutant: one retry too many.
WorkflowFailsOnceMore(r) ==
    /\ Called(r, "structure")
    /\ IF calls[r] <= MaxAttempts
         THEN Goto(r, "calling", "sleeping") /\ UNCHANGED databaseVars
         ELSE Quit(r, "error")

\* Any other exception: the loop sleeps and tries again, or gives up.
WorkflowFails(r) ==
    /\ Called(r, "structure")
    /\ IF calls[r] + 1 < MaxAttempts
         THEN Goto(r, "calling", "sleeping") /\ UNCHANGED databaseVars
         ELSE Quit(r, "error")

Retry(r) ==
    /\ Goto(r, "sleeping", "calling")
    /\ UNCHANGED <<databaseVars, cache, limitVars, calls>>

AddAssistantMessage(r) == Flush(r, "replying", "committing", "assistant")

\* The commit takes effect; its reply may be lost.
Commit(r) ==
    /\ phase[r] = "committing"
    /\ committed' = [committed EXCEPT ![r] = flushed[r]]
    /\ \E a \in {"problem", "error"} : Ends(r, a)
    /\ UNCHANGED <<cache, limitVars, calls>>

StructureStep(r) ==
    \/ Grant(r, "structure", "limiting", "opening") \/ OverLimit(r, "structure", "limiting")
    \/ OpenConversation(r) \/ ConversationNotFound(r) \/ AddUserMessage(r)
    \/ WorkflowReturns(r) \/ WorkflowRefuses(r) \/ WorkflowFails(r) \/ Retry(r)
    \/ AddAssistantMessage(r) \/ Commit(r)

-----------------------------------------------------------------------------
(* explain *)

\* Mutant: the solution is read without its owner.
ReadAnySolution(r) ==
    /\ Goto(r, "owning", "looking")
    /\ UNCHANGED <<databaseVars, cache, limitVars, calls>>

\* get_solution: another user's solution does not exist.
ReadSolution(r) ==
    /\ phase[r] = "owning"
    /\ IF Owner[about[r]] = user[r]
         THEN Goto(r, "owning", "looking") /\ UNCHANGED databaseVars
         ELSE Quit(r, "refused")
    /\ UNCHANGED <<cache, limitVars, calls>>

\* Mutant: the cache is written and never read.
LookUpNothing(r) ==
    /\ Goto(r, "looking", "counting")
    /\ UNCHANGED <<databaseVars, cache, limitVars, calls>>

\* A cached explanation is returned and costs nothing.
LookUp(r) ==
    /\ phase[r] = "looking"
    /\ IF cache[about[r]] = "none"
         THEN Goto(r, "looking", "counting") /\ UNCHANGED databaseVars
         ELSE Quit(r, "explained")
    /\ UNCHANGED <<cache, limitVars, calls>>

\* get_problem, for the prompt.
LoadProblem(r) ==
    /\ Goto(r, "loading", "calling")
    /\ UNCHANGED <<databaseVars, cache, limitVars, calls>>

ExplanationReturns(r) ==
    /\ Called(r, "explain")
    /\ Goto(r, "calling", "storing")
    /\ UNCHANGED databaseVars

\* Whatever the LLM raises, the answer is a mechanical summary, which is not kept.
FallBack(r) == Called(r, "explain") /\ Quit(r, "fallback")

\* redis.set takes effect; its reply may be lost.
StoreExplanation(r) ==
    /\ phase[r] = "storing"
    /\ cache' = [cache EXCEPT ![about[r]] = "llm"]
    /\ \E a \in {"explained", "error"} : Quit(r, a)
    /\ UNCHANGED <<limitVars, calls>>

ExplainStep(r) ==
    \/ ReadSolution(r) \/ LookUp(r)
    \/ Grant(r, "explain", "counting", "loading") \/ OverLimit(r, "explain", "counting")
    \/ LoadProblem(r) \/ ExplanationReturns(r) \/ FallBack(r) \/ StoreExplanation(r)

\* The entry's TTL of a day.
Expire(s) ==
    /\ cache[s] # "none"
    /\ cache' = [cache EXCEPT ![s] = "none"]
    /\ UNCHANGED <<requestVars, databaseVars, limitVars, calls>>

-----------------------------------------------------------------------------
Progress(r) == Connect(r) \/ ConnectTimesOut(r) \/ StructureStep(r) \/ ExplainStep(r)

Next ==
    \/ \E r \in Requests :
           \/ \E u \in Users, x \in Requests \union Solutions : Arrive(r, u, x)
           \/ Progress(r)
           \/ Fails(r)
    \/ \E s \in Solutions : Expire(s)

Spec == Init /\ [][Next]_vars

\* Postgres, Redis and the LLM answer or raise, the pool's wait and the sleep end.
FairSpec == Spec /\ \A r \in Requests : WF_vars(Progress(r))

-----------------------------------------------------------------------------
\* A conversation is kept whole or not at all, wherever a request fails: no message
\* without its reply or its conversation, no conversation without messages, and
\* what a client was given is on record.
HistoryIsWhole ==
    \A r \in Requests :
        /\ committed[r] # {} =>
               /\ {"user", "assistant"} \subseteq committed[r]
               /\ "conversation" \in committed[about[r]]
        /\ answer[r] = "problem" => committed[r] # {}

\* No user is told, or adds to, what belongs to another: a cached explanation, a
\* fallback or a conversation.
OwnDataOnly ==
    \A r \in Requests :
        /\ answer[r] \in {"explained", "fallback"} => Owner[about[r]] = user[r]
        /\ committed[r] # {} => user[about[r]] = user[r]

\* What the LLM costs is bounded by the limiter: only granted requests call it, each
\* at most MaxAttempts times (an explanation once), and no more are granted to a user
\* than the limit, whatever fails and is sent again.
Granted(u, k) == {r \in granted : user[r] = u /\ Kind(r) = k}

SpendIsBounded ==
    /\ \A r \in Requests :
           /\ calls[r] > 0 => r \in granted
           /\ calls[r] <= (IF Kind(r) = "structure" THEN MaxAttempts ELSE 1)
    /\ \A u \in Users \ Superusers, k \in Kinds : Cardinality(Granted(u, k)) <= Limit

\* While an explanation is cached only the requests that had missed it before still
\* ask the LLM for it.
Missed(s) == {r \in Requests : about[r] = s /\ phase[r] \in {"counting", "loading", "calling", "storing"}}

CachedIsNotAsked ==
    [][\A s \in Solutions : cache[s] # "none" => Missed(s)' \subseteq Missed(s)]_vars

\* Every request ends, although the connections it waits for are held through the
\* retries and the LLM calls of others.
RequestsEnd == \A r \in Requests : phase[r] # "idle" ~> phase[r] = "ended"
=============================================================================
