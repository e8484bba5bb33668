------------------------------ MODULE Accounts ------------------------------
(***************************************************************************)
(* Users and their sessions: UserService.create_user, AuthService and the  *)
(* token check of api/deps.py. A login issues a refresh token, which is    *)
(* valid while it has not expired and its key is in Redis, and an access   *)
(* token, which is valid until it expires; a refresh issues another access *)
(* token; a logout deletes the key.                                        *)
(*                                                                         *)
(* A request is a task of an API process, and other requests and processes *)
(* run wherever it awaits Postgres or Redis: what it has read is old when  *)
(* it goes on. Tokens are made and decoded between two awaits. Time is a   *)
(* Tick, and a life is what is left of one in ticks.                       *)
(* Operators block and unblock users in the database: no endpoint does.    *)
(* The attempt counters that precede a login are in RateLimiter.           *)
(***************************************************************************)
EXTENDS Naturals

CONSTANTS Clients,    \* who sends requests, one at a time
          Emails,
          Sessions,   \* the jti of refresh tokens; one login uses one
          AccessTtl,  \* ACCESS_TOKEN_EXPIRE_MINUTES, in ticks
          RefreshTtl, \* REFRESH_TOKEN_EXPIRE_DAYS, in ticks
          NoOne       \* no email

ASSUME AccountsAssumption ==
    /\ AccessTtl \in Nat \ {0}
    /\ RefreshTtl \in Nat \ {0}
    /\ NoOne \notin Emails

VARIABLES rows,     \* [Emails -> Nat], committed rows of users with that email
          blocked,  \* emails whose is_active is false
          phase,    \* [Clients -> Phases], where the client's request awaits
          about,    \* [Clients -> Emails, Sessions or NoOne], what that request is about
          owner,    \* [Sessions -> Emails or NoOne], the sub of the tokens
          refresh,  \* [Sessions -> Nat], life of the refresh token
          access,   \* [Sessions -> Nat], life of its youngest access token
          key,      \* [Sessions -> Nat], life of the key in Redis
          held,     \* sessions whose tokens were sent to the client
          revoked   \* history: sessions whose key a logout deleted

userVars == <<rows, blocked>>
requestVars == <<phase, about>>
tokenVars == <<owner, refresh, access, held>>
redisVars == <<key, revoked>>
vars == <<userVars, requestVars, tokenVars, redisVars>>

Phases == {"idle", "checked", "inserted", "duplicate", "authenticated", "storing", "decoded",
           "verified", "trusted", "deleting", "presented", "admitted"}

TypeOK ==
    /\ rows \in [Emails -> Nat]
    /\ blocked \subseteq Emails
    /\ phase \in [Clients -> Phases]
    /\ about \in [Clients -> Emails \union Sessions \union {NoOne}]
    /\ owner \in [Sessions -> Emails \union {NoOne}]
    /\ refresh \in [Sessions -> 0 .. RefreshTtl]
    /\ access \in [Sessions -> 0 .. AccessTtl]
    /\ key \in [Sessions -> 0 .. RefreshTtl]
    /\ held \subseteq Sessions
    /\ revoked \subseteq Sessions

Init ==
    /\ rows = [e \in Emails |-> 0]
    /\ blocked = {}
    /\ phase = [c \in Clients |-> "idle"]
    /\ about = [c \in Clients |-> NoOne]
    /\ owner = [t \in Sessions |-> NoOne]
    /\ refresh = [t \in Sessions |-> 0]
    /\ access = [t \in Sessions |-> 0]
    /\ key = [t \in Sessions |-> 0]
    /\ held = {}
    /\ revoked = {}

\* The request of client c, about x, goes on from one await to the next, ...
Begin(c, to, x) ==
    /\ phase[c] = "idle"
    /\ phase' = [phase EXCEPT ![c] = to]
    /\ about' = [about EXCEPT ![c] = x]

Goto(c, from, to) ==
    /\ phase[c] = from
    /\ phase' = [phase EXCEPT ![c] = to]
    /\ UNCHANGED about

\* ... or ends.
End(c, from) ==
    /\ phase[c] = from
    /\ phase' = [phase EXCEPT ![c] = "idle"]
    /\ about' = [about EXCEPT ![c] = NoOne]

\* user is not None and user.is_active
Active(e) == e # NoOne /\ rows[e] > 0 /\ e \notin blocked

-----------------------------------------------------------------------------
(* Registration: create_user *)

\* The email is free (UserAlreadyExistsError otherwise, and nothing changes).
Register(c, e) ==
    /\ rows[e] = 0
    /\ Begin(c, "checked", e)
    /\ UNCHANGED <<userVars, tokenVars, redisVars>>

\* The registrations of email e whose row is in the index but not committed.
Inserting(e) == {c \in Clients : phase[c] = "inserted" /\ about[c] = e}

\* Mutant: users.email is not unique.
InsertAnyway(c) ==
    /\ Goto(c, "checked", "inserted")
    /\ UNCHANGED <<userVars, tokenVars, redisVars>>

\* flush: the unique index makes it wait for an insertion that is not committed.
Insert(c) ==
    /\ Goto(c, "checked", "inserted")
    /\ Inserting(about[c]) = {}
    /\ rows[about[c]] = 0
    /\ UNCHANGED <<userVars, tokenVars, redisVars>>

\* IntegrityError, which is not an AppError.
InsertViolatesUnique(c) ==
    /\ Goto(c, "checked", "duplicate")
    /\ rows[about[c]] > 0
    /\ UNCHANGED <<userVars, tokenVars, redisVars>>

CommitUser(c) ==
    /\ End(c, "inserted")
    /\ rows' = [rows EXCEPT ![about[c]] = @ + 1]
    /\ UNCHANGED <<blocked, tokenVars, redisVars>>

\* The exception ends the request, or the commit fails: all is rolled back.
RollBack(c) ==
    /\ \E from \in {"inserted", "duplicate"} : End(c, from)
    /\ UNCHANGED <<userVars, tokenVars, redisVars>>

\* Postgres fails, or the client goes, between the check and the insertion.
RegistrationFails(c) ==
    /\ End(c, "checked")
    /\ UNCHANGED <<userVars, tokenVars, redisVars>>

-----------------------------------------------------------------------------
(* Sessions: AuthService *)

\* authenticate: the user is read (an absent or inactive one gets a 401).
Authenticate(c, e) ==
    /\ Active(e)
    /\ Begin(c, "authenticated", e)
    /\ UNCHANGED <<userVars, tokenVars, redisVars>>

\* issue_tokens up to its await: both tokens are made.
MakeTokens(c, t) ==
    /\ phase[c] = "authenticated"
    /\ owner[t] = NoOne
    /\ phase' = [phase EXCEPT ![c] = "storing"]
    /\ about' = [about EXCEPT ![c] = t]
    /\ owner' = [owner EXCEPT ![t] = about[c]]
    /\ refresh' = [refresh EXCEPT ![t] = RefreshTtl]
    /\ access' = [access EXCEPT ![t] = AccessTtl]
    /\ UNCHANGED <<userVars, held, redisVars>>

\* Mutant: the key lives as long as an access token.
StoreKeyBriefly(t) == key' = [key EXCEPT ![t] = AccessTtl] /\ UNCHANGED revoked

StoreKey(t) == key' = [key EXCEPT ![t] = RefreshTtl] /\ UNCHANGED revoked

LoginAnswered(c) ==
    /\ End(c, "storing")
    /\ StoreKey(about[c])
    /\ held' = held \union {about[c]}
    /\ UNCHANGED <<userVars, owner, refresh, access>>

\* Redis raises, having stored the key or not: nobody gets the tokens.
LoginFails(c) ==
    /\ End(c, "storing")
    /\ StoreKey(about[c]) \/ UNCHANGED redisVars
    /\ refresh' = [refresh EXCEPT ![about[c]] = 0]
    /\ access' = [access EXCEPT ![about[c]] = 0]
    /\ UNCHANGED <<userVars, owner, held>>

\* decode_token of a refresh token that the client was given.
Decode(c, t, to) ==
    /\ t \in held
    /\ refresh[t] > 0
    /\ Begin(c, to, t)
    /\ UNCHANGED <<userVars, tokenVars, redisVars>>

\* refresh_access_token: the token, then its key, then its user.
Refresh(c, t) == Decode(c, t, "decoded")

\* Mutant: the key is not looked up.
CheckNothing(c) ==
    /\ Goto(c, "decoded", "verified")
    /\ UNCHANGED <<userVars, tokenVars, redisVars>>

CheckKey(c) ==
    /\ phase[c] = "decoded"
    /\ IF key[about[c]] > 0 THEN Goto(c, "decoded", "verified") ELSE End(c, "decoded")
    /\ UNCHANGED <<userVars, tokenVars, redisVars>>

\* get_current_user: an access token is presented, then its user is read.
Present(c, t) ==
    /\ t \in held
    /\ access[t] > 0
    /\ Begin(c, "presented", t)
    /\ UNCHANGED <<userVars, tokenVars, redisVars>>

\* Where a request goes once its user was found active.
Onward == [verified |-> "trusted", presented |-> "admitted"]

\* Mutant: the is_active of the user is not looked at.
CheckUserExists(c) ==
    /\ \E from \in DOMAIN Onward : Goto(c, from, Onward[from])
    /\ UNCHANGED <<userVars, tokenVars, redisVars>>

\* The user of the token is read: it is still there and active, or a 401.
CheckUser(c) ==
    /\ \E from \in DOMAIN Onward :
           /\ phase[c] = from
           /\ IF Active(owner[about[c]]) THEN Goto(c, from, Onward[from]) ELSE End(c, from)
    /\ UNCHANGED <<userVars, tokenVars, redisVars>>

\* The endpoint answers the request it has admitted.
Answer(c) ==
    /\ End(c, "admitted")
    /\ UNCHANGED <<userVars, tokenVars, redisVars>>

\* Mutant: a refresh prolongs the refresh token and its key (a sliding session).
IssueAndProlong(c) ==
    /\ End(c, "trusted")
    /\ access' = [access EXCEPT ![about[c]] = AccessTtl]
    /\ refresh' = [refresh EXCEPT ![about[c]] = RefreshTtl]
    /\ key' = [key EXCEPT ![about[c]] = RefreshTtl]
    /\ UNCHANGED <<userVars, owner, held, revoked>>

\* create_access_token, from what was read before.
Issue(c) ==
    /\ End(c, "trusted")
    /\ access' = [access EXCEPT ![about[c]] = AccessTtl]
    /\ UNCHANGED <<userVars, owner, refresh, held, redisVars>>

\* revoke_refresh_token (an expired token is not even looked up).
Logout(c, t) == Decode(c, t, "deleting")

DeleteKey(c) ==
    /\ End(c, "deleting")
    /\ key' = [key EXCEPT ![about[c]] = 0]
    /\ revoked' = revoked \union {about[c]}
    /\ UNCHANGED <<userVars, tokenVars>>

\* Redis or Postgres raises and the command had no effect, or the client has gone:
\* the request fails.
RequestFails(c) ==
    /\ \E from \in {"authenticated", "decoded", "verified", "presented", "deleting"} : End(c, from)
    /\ UNCHANGED <<userVars, tokenVars, redisVars>>

-----------------------------------------------------------------------------
(* Operators and time *)

Block(e) ==
    /\ rows[e] > 0
    /\ blocked' = IF e \in blocked THEN blocked \ {e} ELSE blocked \union {e}
    /\ UNCHANGED <<rows, requestVars, tokenVars, redisVars>>

Older(life) == [t \in Sessions |-> IF life[t] = 0 THEN 0 ELSE life[t] - 1]

Tick ==
    /\ refresh' = Older(refresh)
    /\ access' = Older(access)
    /\ key' = Older(key)
    /\ UNCHANGED <<userVars, requestVars, owner, held, revoked>>

Registration(c) ==
    \/ \E e \in Emails : Register(c, e)
    \/ Insert(c) \/ InsertViolatesUnique(c) \/ RegistrationFails(c)
    \/ CommitUser(c) \/ RollBack(c)

SessionStep(c) ==
    \/ \E e \in Emails : Authenticate(c, e)
    \/ \E t \in Sessions : MakeTokens(c, t) \/ Refresh(c, t) \/ Logout(c, t) \/ Present(c, t)
    \/ LoginAnswered(c) \/ LoginFails(c)
    \/ CheckKey(c) \/ CheckUser(c) \/ Issue(c) \/ Answer(c) \/ DeleteKey(c) \/ RequestFails(c)

Next ==
    \/ \E c \in Clients : Registration(c) \/ SessionStep(c)
    \/ \E e \in Emails : Block(e)
    \/ Tick

Spec == Init /\ [][Next]_vars

\* Time passes, and the databases answer a request that has begun; the end of a
\* transaction wakes the insertion that waits for it, hence strong fairness.
AccountsFairness(c) ==
    /\ SF_vars(Insert(c) \/ InsertViolatesUnique(c))
    /\ WF_vars(CommitUser(c) \/ RollBack(c))
    /\ WF_vars(CheckKey(c) \/ CheckUser(c) \/ Issue(c) \/ Answer(c) \/ DeleteKey(c) \/ RequestFails(c))

FairSpec == Spec /\ WF_vars(Tick) /\ \A c \in Clients : AccountsFairness(c)

-----------------------------------------------------------------------------
\* However registrations interleave between their check and their insertion, an
\* email has one user: otherwise get_by_email would raise on every later login.
EmailsAreUnique == \A e \in Emails : rows[e] <= 1

\* A refresh token the client holds, not expired and not revoked, is never refused
\* for want of its key, although the key is stored after the token was made.
KeyOutlivesToken ==
    \A t \in held \ revoked : refresh[t] > 0 => key[t] > 0

\* Once a user is blocked only the requests that had read the row before go on: no
\* later login, refresh or API request passes, whatever tokens the client holds.
PassedAs(e) ==
    {c \in Clients : \/ phase[c] = "authenticated" /\ about[c] = e
                     \/ phase[c] \in {"trusted", "admitted"} /\ owner[about[c]] = e}

BlockedStaysOut ==
    [][\A e \in blocked : PassedAs(e)' \subseteq PassedAs(e)]_vars

\* After a logout has deleted the key only the refreshes that had found it before
\* can still issue a token: no later one ever passes.
Refreshing(t) == {c \in Clients : phase[c] \in {"verified", "trusted"} /\ about[c] = t}

LogoutStopsRefreshes ==
    [][\A t \in revoked : Refreshing(t)' \subseteq Refreshing(t)]_vars

\* A session ends however often it is refreshed, for refreshing does not prolong
\* it; and registrations do not wait for each other for ever.
AccountsSettle ==
    /\ \A t \in Sessions : t \in held ~> [](access[t] = 0)
    /\ \A c \in Clients : phase[c] \in {"checked", "inserted"} ~> phase[c] = "idle"

\* api/routes/auth.py: a duplicate email is answered by an AppError, which only the
\* check raises: no registration that passed it meets the index.
DuplicatesAreConflicts == \A c \in Clients : phase[c] # "duplicate"
=============================================================================
