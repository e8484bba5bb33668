--------------------------- MODULE AccountsProofs ---------------------------
(***************************************************************************)
(* Theorems about Accounts, for every number of clients, emails and        *)
(* sessions and all token lives.                                           *)
(***************************************************************************)
EXTENDS Accounts, TLAPS

\* The phases of a request that brought a token.
OfSession == {"decoded", "verified", "trusted", "deleting", "presented", "admitted"}

\* A request is about an email while it registers and about a session otherwise;
\* a user that is about to be committed is the only one with its email.
RequestInv ==
    /\ \A c \in Clients :
        /\ phase[c] \in {"checked", "inserted", "authenticated"} => about[c] \in Emails
        /\ phase[c] \in OfSession \union {"storing"} => about[c] \in Sessions
        /\ phase[c] = "inserted" => rows[about[c]] = 0
    /\ \A c, d \in Clients :
        phase[c] = "inserted" /\ phase[d] = "inserted" /\ about[c] = about[d] => c = d
    /\ EmailsAreUnique

\* A session belongs to one login, is held once that was answered and revoked only
\* after that; its key is at least as old as its token was when it was made.
SessionInv ==
    /\ \A c \in Clients : phase[c] = "storing" => about[c] \notin held /\ owner[about[c]] # NoOne
    /\ \A c, d \in Clients :
        phase[c] = "storing" /\ phase[d] = "storing" /\ about[c] = about[d] => c = d
    /\ \A c \in Clients : phase[c] \in OfSession => about[c] \in held
    /\ \A t \in held : owner[t] # NoOne
    /\ \A t \in held \ revoked : refresh[t] <= key[t]
    /\ revoked \subseteq held
    /\ \A t \in revoked : key[t] = 0

IInv == TypeOK /\ RequestInv /\ SessionInv

\* Types and requests are preserved.
LEMMA RequestInductive == IInv /\ [Next]_vars => TypeOK' /\ RequestInv'
<1> SUFFICES ASSUME IInv, [Next]_vars PROVE TypeOK' /\ RequestInv'
  OBVIOUS
<1> USE AccountsAssumption DEF IInv, TypeOK, RequestInv, SessionInv, EmailsAreUnique, Phases, OfSession,
        userVars, requestVars, tokenVars, redisVars, Begin, Goto, End, Decode, StoreKey, Active
<1>1. ASSUME NEW c \in Clients, Registration(c) PROVE TypeOK' /\ RequestInv'
  <2>1. ASSUME NEW e \in Emails, Register(c, e) PROVE TypeOK' /\ RequestInv'
    BY <2>1 DEF Register
  <2>2. CASE Insert(c)  BY <2>2 DEF Insert, Inserting
  <2>3. CASE InsertViolatesUnique(c)  BY <2>3 DEF InsertViolatesUnique
  <2>4. CASE CommitUser(c)  BY <2>4 DEF CommitUser
  <2>5. CASE RollBack(c)  BY <2>5 DEF RollBack
  <2>6. CASE RegistrationFails(c)  BY <2>6 DEF RegistrationFails
  <2> QED  BY <1>1, <2>1, <2>2, <2>3, <2>4, <2>5, <2>6 DEF Registration
<1>2. ASSUME NEW c \in Clients, SessionStep(c) PROVE TypeOK' /\ RequestInv'
  <2>1. ASSUME NEW e \in Emails, Authenticate(c, e) PROVE TypeOK' /\ RequestInv'
    BY <2>1 DEF Authenticate
  <2>2. ASSUME NEW t \in Sessions, MakeTokens(c, t) PROVE TypeOK' /\ RequestInv'
    BY <2>2 DEF MakeTokens
  <2>3. CASE LoginAnswered(c)  BY <2>3 DEF LoginAnswered
  <2>4. CASE LoginFails(c)  BY <2>4 DEF LoginFails
  <2>5. ASSUME NEW t \in Sessions, Refresh(c, t) \/ Logout(c, t) \/ Present(c, t) PROVE TypeOK' /\ RequestInv'
    BY <2>5 DEF Refresh, Logout, Present
  <2>6. CASE CheckKey(c)  BY <2>6 DEF CheckKey
  <2>7. CASE Issue(c)  BY <2>7 DEF Issue
  <2>8. CASE CheckUser(c)  BY <2>8 DEF CheckUser, Onward
  <2>9. CASE Answer(c)  BY <2>9 DEF Answer
  <2>10. CASE DeleteKey(c)  BY <2>10 DEF DeleteKey
  <2>11. CASE RequestFails(c)  BY <2>11 DEF RequestFails
  <2> QED  BY <1>2, <2>1, <2>2, <2>3, <2>4, <2>5, <2>6, <2>7, <2>8, <2>9, <2>10, <2>11 DEF SessionStep
<1>3. ASSUME NEW e \in Emails, Block(e) PROVE TypeOK' /\ RequestInv'
  BY <1>3 DEF Block
<1>4. CASE Tick  BY <1>4 DEF Tick, Older
<1>5. CASE UNCHANGED vars  BY <1>5 DEF vars
<1> QED  BY <1>1, <1>2, <1>3, <1>4, <1>5 DEF Next

\* Sessions are preserved.
LEMMA SessionInductive == IInv /\ [Next]_vars => SessionInv'
<1> SUFFICES ASSUME IInv, [Next]_vars PROVE SessionInv'
  OBVIOUS
<1> USE AccountsAssumption DEF IInv, TypeOK, RequestInv, SessionInv, Phases, OfSession,
        userVars, requestVars, tokenVars, redisVars, Begin, Goto, End, Decode, StoreKey, Active
<1>1. ASSUME NEW c \in Clients, Registration(c) PROVE SessionInv'
  BY <1>1 DEF Registration, Register, Insert, InsertViolatesUnique, CommitUser, RollBack,
        RegistrationFails
<1>2. ASSUME NEW c \in Clients, SessionStep(c) PROVE SessionInv'
  <2>1. ASSUME NEW e \in Emails, Authenticate(c, e) PROVE SessionInv'
    BY <2>1 DEF Authenticate
  <2>2. ASSUME NEW t \in Sessions, MakeTokens(c, t) PROVE SessionInv'
    BY <2>2 DEF MakeTokens
  <2>3. CASE LoginAnswered(c)  BY <2>3 DEF LoginAnswered
  <2>4. CASE LoginFails(c)  BY <2>4 DEF LoginFails
  <2>5. ASSUME NEW t \in Sessions, Refresh(c, t) \/ Logout(c, t) \/ Present(c, t) PROVE SessionInv'
    BY <2>5 DEF Refresh, Logout, Present
  <2>6. CASE CheckKey(c)  BY <2>6 DEF CheckKey
  <2>7. CASE Issue(c)  BY <2>7 DEF Issue
  <2>8. CASE CheckUser(c)  BY <2>8 DEF CheckUser, Onward
  <2>9. CASE Answer(c)  BY <2>9 DEF Answer
  <2>10. CASE DeleteKey(c)  BY <2>10 DEF DeleteKey
  <2>11. CASE RequestFails(c)  BY <2>11 DEF RequestFails
  <2> QED  BY <1>2, <2>1, <2>2, <2>3, <2>4, <2>5, <2>6, <2>7, <2>8, <2>9, <2>10, <2>11 DEF SessionStep
<1>3. ASSUME NEW e \in Emails, Block(e) PROVE SessionInv'
  BY <1>3 DEF Block
<1>4. CASE Tick  BY <1>4 DEF Tick, Older
<1>5. CASE UNCHANGED vars  BY <1>5 DEF vars
<1> QED  BY <1>1, <1>2, <1>3, <1>4, <1>5 DEF Next

\* The inductive invariant holds in every behaviour.
THEOREM AccountsInvariance == Spec => []IInv
<1>1. Init => IInv
  BY AccountsAssumption DEF Init, IInv, TypeOK, RequestInv, SessionInv, EmailsAreUnique, Phases, OfSession
<1>2. IInv /\ [Next]_vars => IInv'
  BY RequestInductive, SessionInductive DEF IInv
<1> QED  BY <1>1, <1>2, PTL DEF Spec

\* TypeOK, for every instance.
THEOREM AccountsTypeCorrect == Spec => []TypeOK
<1>1. IInv => TypeOK
  BY DEF IInv
<1> QED  BY <1>1, AccountsInvariance, PTL

\* An email has at most one user, however registrations interleave.
THEOREM OneUserPerEmail == Spec => []EmailsAreUnique
<1>1. IInv => EmailsAreUnique
  BY DEF IInv, RequestInv
<1> QED  BY <1>1, AccountsInvariance, PTL

\* A live refresh token that was not revoked finds its key.
THEOREM KeysOutliveTokens == Spec => []KeyOutlivesToken
<1>1. IInv => KeyOutlivesToken
  BY DEF IInv, TypeOK, SessionInv, KeyOutlivesToken
<1> QED  BY <1>1, AccountsInvariance, PTL

\* After a logout no further refresh passes its check.
THEOREM LogoutIsFinal == Spec => LogoutStopsRefreshes
<1>1. IInv /\ [Next]_vars => [\A t \in revoked : Refreshing(t)' \subseteq Refreshing(t)]_vars
  <2> SUFFICES ASSUME IInv, [Next]_vars, NEW t \in revoked, NEW d \in Clients, d \in Refreshing(t)'
               PROVE  d \in Refreshing(t)
    BY DEF Refreshing
  <2> USE DEF IInv, TypeOK, RequestInv, SessionInv, Refreshing, Phases, OfSession, requestVars,
          Begin, Goto, End, Decode
  <2>1. ASSUME NEW c \in Clients, Registration(c) PROVE d \in Refreshing(t)
    BY <2>1 DEF Registration, Register, Insert, InsertViolatesUnique, CommitUser, RollBack,
        RegistrationFails
  <2>2. ASSUME NEW c \in Clients, SessionStep(c) PROVE d \in Refreshing(t)
    BY <2>2 DEF SessionStep, Authenticate, MakeTokens, LoginAnswered, LoginFails, Refresh, Logout,
        Present, CheckKey, CheckUser, Onward, Issue, Answer, DeleteKey, RequestFails
  <2>3. ASSUME NEW e \in Emails, Block(e) PROVE d \in Refreshing(t)
    BY <2>3 DEF Block
  <2>4. CASE Tick  BY <2>4 DEF Tick
  <2>5. CASE UNCHANGED vars  BY <2>5 DEF vars
  <2> QED  BY <2>1, <2>2, <2>3, <2>4, <2>5 DEF Next
<1> QED  BY <1>1, AccountsInvariance, PTL DEF Spec, LogoutStopsRefreshes

\* After a user was blocked no further login, refresh or request passes.
THEOREM BlockingIsEffective == Spec => BlockedStaysOut
<1>1. IInv /\ [Next]_vars => [\A e \in blocked : PassedAs(e)' \subseteq PassedAs(e)]_vars
  <2> SUFFICES ASSUME IInv, [Next]_vars, NEW e \in blocked, NEW d \in Clients, d \in PassedAs(e)'
               PROVE  d \in PassedAs(e)
    BY DEF PassedAs
  <2> USE AccountsAssumption DEF IInv, TypeOK, RequestInv, SessionInv, PassedAs, Phases, OfSession,
          userVars, requestVars, tokenVars, Begin, Goto, End, Decode
  <2>1. ASSUME NEW c \in Clients, Registration(c) PROVE d \in PassedAs(e)
    BY <2>1 DEF Registration, Register, Insert, InsertViolatesUnique, CommitUser, RollBack,
        RegistrationFails
  <2>2. ASSUME NEW c \in Clients, SessionStep(c) PROVE d \in PassedAs(e)
    <3>1. ASSUME NEW f \in Emails, Authenticate(c, f) PROVE d \in PassedAs(e)
      BY <3>1 DEF Authenticate, Active
    <3>2. ASSUME NEW t \in Sessions, MakeTokens(c, t) PROVE d \in PassedAs(e)
      BY <3>2 DEF MakeTokens
    <3>3. CASE CheckUser(c)
      BY <3>3 DEF CheckUser, Onward, Active
    <3>4. CASE \/ LoginAnswered(c) \/ LoginFails(c) \/ CheckKey(c) \/ Issue(c) \/ Answer(c)
               \/ DeleteKey(c) \/ RequestFails(c)
               \/ \E t \in Sessions : Refresh(c, t) \/ Logout(c, t) \/ Present(c, t)
      BY <3>4 DEF LoginAnswered, LoginFails, Refresh, Logout, Present, CheckKey, Issue, Answer,
          DeleteKey, RequestFails
    <3> QED  BY <2>2, <3>1, <3>2, <3>3, <3>4 DEF SessionStep
  <2>3. ASSUME NEW f \in Emails, Block(f) PROVE d \in PassedAs(e)
    BY <2>3 DEF Block
  <2>4. CASE Tick  BY <2>4 DEF Tick
  <2>5. CASE UNCHANGED vars  BY <2>5 DEF vars
  <2> QED  BY <2>1, <2>2, <2>3, <2>4, <2>5 DEF Next
<1> QED  BY <1>1, AccountsInvariance, PTL DEF Spec, BlockedStaysOut
=============================================================================
