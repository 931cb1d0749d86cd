---------------------------- MODULE GoogleProofs ----------------------------
(***************************************************************************)
(* Theorems about signing in with Google, beside every other route: which  *)
(* callbacks spend a code, open a session or are turned down.              *)
(***************************************************************************)
EXTENDS AuthProofs

-----------------------------------------------------------------------------
(* The inductive invariant *)

\* The state of callback r is one of the service's, and was fresh when r came.
HonestState(r) ==
    /\ arg[r].state \in HeldStates
    /\ at[r] <= at[arg[r].state] + oauthStateTTL

\* The state of callback r is nobody's, or about to expire when r came.
RefusableState(r) ==
    \/ arg[r] = None
    \/ arg[r].state = None
    \/ /\ arg[r].state \in HeldStates
       /\ at[r] + TicksPerSecond > at[arg[r].state] + oauthStateTTL

\* How callback r may end, and what for.
OutcomeJustified(r) ==
    /\ out[r] \in {"ok", "failure", "malformed", "ErrOAuthStateInvalid", "ErrOAuthEmailNotVerified"}
    /\ out[r] \in {"malformed", "ErrOAuthStateInvalid"} => RefusableState(r)
    /\ out[r] = "ErrOAuthEmailNotVerified" =>
          arg[r].code \in HeldCodes /\ ~grants[arg[r].code].verified

\* Codes are spent by callbacks with an honest state, and a user is in memory
\* only for a code spent and an address verified.
Callback(r) ==
    /\ op[r] = "google_callback" =>
          /\ Active(r) => HonestState(r)
          /\ loaded[r] # None => grants[arg[r].code].spentBy = r /\ grants[arg[r].code].verified
          /\ pc[r] = "done" => OutcomeJustified(r)
    /\ \A code \in HeldCodes : grants[code].spentBy = r =>
          op[r] = "google_callback" /\ arg[r].code = code /\ HonestState(r)

GoogleInv == AuthInv /\ \A r \in Requests : Callback(r)

-----------------------------------------------------------------------------
(* States and codes *)

\* States that clients hold stay held, with their claim; so do codes, with what
\* Google said of them.
LEMMA HeldStand ==
    ASSUME AuthInv, Onward
    PROVE  /\ \A s \in HeldStates : s \in HeldStates' /\ at'[s] = at[s]
           /\ \A code \in HeldCodes :
                 /\ code \in HeldCodes' /\ grants'[code].verified = grants[code].verified
                 /\ grants[code].spentBy # None => grants'[code].spentBy = grants[code].spentBy
<1>1. ASSUME NEW s \in HeldStates PROVE s \in HeldStates' /\ at'[s] = at[s]
  <2>1. s \in Requests /\ op[s] = "google_start" /\ out[s] = "ok"
    BY DEF HeldStates
  <2>2. pc[s] = "done"
    BY <2>1, NoneAssumption DEF AuthInv, Route, Results
  <2>3. s \in Ended /\ pc[s] # "idle"
    BY <2>1, <2>2 DEF Ended
  <2> QED
    BY <2>1, <2>3 DEF Onward, HeldStates
<1> QED
  BY <1>1 DEF Onward, GrantsGrow, HeldCodes

\* An honest state stays honest, and one to refuse stays one to refuse.
LEMMA StatesStand ==
    ASSUME AuthInv, Onward, NEW r \in Requests, pc[r] # "idle"
    PROVE  /\ HonestState(r) => HonestState(r)'
           /\ RefusableState(r) => RefusableState(r)'
<1>1. UNCHANGED <<op[r], arg[r], at[r]>>
  BY DEF Onward
<1>2. \A s \in HeldStates : s \in HeldStates' /\ at'[s] = at[s]
  BY HeldStand
<1> QED
  BY <1>1, <1>2 DEF HonestState, RefusableState

\* The facts about a callback stand while it takes no step, or dies.
LEMMA CallbackStands ==
    ASSUME GoogleInv, Onward, NEW s \in Requests, Aside(s)
    PROVE  Callback(s)'
<1>0. /\ AuthInv /\ Callback(s) /\ Route(s) /\ Owner(s)
      /\ UNCHANGED <<op[s], arg[s], out[s], loaded[s]>>
      /\ Active(s)' => Active(s)
      /\ pc'[s] = "done" => pc[s] = "done"
  BY DEF GoogleInv, AuthInv, Aside, Active, Ended
<1>1. \A code \in HeldCodes :
         /\ code \in HeldCodes' /\ grants'[code].verified = grants[code].verified
         /\ grants[code].spentBy # None => grants'[code].spentBy = grants[code].spentBy
  BY <1>0, HeldStand
<1>2. op[s] # None => pc[s] # "idle"
  BY <1>0 DEF Route
<1>3. op[s] = "google_callback" => pc[s] # "idle"
  BY <1>2, NoneAssumption DEF Routes
<1>4. ASSUME op[s] = "google_callback", Active(s)' PROVE HonestState(s)'
  BY <1>0, <1>3, <1>4, StatesStand DEF Callback
<1>5. ASSUME op[s] = "google_callback", loaded[s] # None
      PROVE  grants'[arg[s].code].spentBy = s /\ grants'[arg[s].code].verified
  <2>1. arg[s].code \in HeldCodes /\ grants[arg[s].code].spentBy = s /\ grants[arg[s].code].verified
    BY <1>0, <1>5 DEF Owner, Proven, Callback
  <2> QED
    BY <1>1, <2>1, ServiceAssumption
<1>6. ASSUME op[s] = "google_callback", pc'[s] = "done" PROVE OutcomeJustified(s)'
  <2>1. OutcomeJustified(s)
    BY <1>0, <1>6 DEF Callback
  <2>2. RefusableState(s) => RefusableState(s)'
    BY <1>0, <1>3, <1>6, StatesStand
  <2> QED
    BY <1>0, <1>1, <2>1, <2>2 DEF OutcomeJustified
<1>7. ASSUME NEW code \in HeldCodes', grants'[code].spentBy = s
      PROVE  op[s] = "google_callback" /\ arg[s].code = code /\ HonestState(s)'
  <2>1. code \in HeldCodes /\ grants[code].spentBy = s
    BY <1>7 DEF Aside, HeldCodes
  <2>2. op[s] = "google_callback" /\ arg[s].code = code /\ HonestState(s)
    BY <1>0, <2>1 DEF Callback
  <2> QED
    BY <1>0, <1>3, <2>2, StatesStand
<1> QED
  BY <1>0, <1>4, <1>5, <1>6, <1>7 DEF Callback

\* A request that goes on or is answered, without spending a code.
LEMMA CallbackGoesOn ==
    ASSUME GoogleInv, Onward, NEW r \in Requests, Active(r), UNCHANGED grants,
           op[r] = "google_callback" =>
               /\ loaded'[r] # None =>
                     loaded[r] # None \/ (/\ grants[arg[r].code].spentBy = r
                                          /\ grants[arg[r].code].verified)
               /\ pc'[r] = "done" =>
                     \/ out'[r] \in {"ok", "failure"}
                     \/ /\ out'[r] = "ErrOAuthEmailNotVerified"
                        /\ arg[r].code \in HeldCodes /\ ~grants[arg[r].code].verified
    PROVE  Callback(r)'
<1>0. /\ AuthInv /\ Callback(r) /\ pc[r] # "idle"
      /\ UNCHANGED <<op[r], arg[r]>> /\ HeldCodes' = HeldCodes
  BY DEF GoogleInv, Active, Onward, HeldCodes
<1>1. HonestState(r) => HonestState(r)'
  BY <1>0, StatesStand
<1>2. op[r] = "google_callback" => HonestState(r)'
  BY <1>0, <1>1 DEF Callback
<1>3. op[r] = "google_callback" /\ loaded'[r] # None =>
         grants[arg[r].code].spentBy = r /\ grants[arg[r].code].verified
  BY <1>0 DEF Callback
<1>4. op[r] = "google_callback" /\ pc'[r] = "done" => OutcomeJustified(r)'
  BY <1>0 DEF OutcomeJustified
<1>5. ASSUME NEW code \in HeldCodes, grants[code].spentBy = r
      PROVE  op[r] = "google_callback" /\ arg[r].code = code /\ HonestState(r)'
  BY <1>0, <1>1, <1>5 DEF Callback
<1> QED
  BY <1>0, <1>2, <1>3, <1>4, <1>5 DEF Callback

-----------------------------------------------------------------------------
(* Arrivals and steps *)

\* A callback arrives with any state, and goes on only with an honest one.
LEMMA CallbackArrives ==
    ASSUME GoogleInv, Onward, NEW r \in Requests, AuthArrive(r)
    PROVE  Callback(r)'
<1>0. /\ AuthInv /\ AuthTypeOK /\ ServiceTypeOK /\ Callback(r) /\ Route(r) /\ Owner(r)
  BY DEF GoogleInv, AuthInv, AuthTypeOK
<1>1. /\ \E route, body : Arrive(r, route, body)
      /\ UNCHANGED <<now, loaded, grants>>
  BY DEF AuthArrive, SessionArrive, ArriveMalformed, ArriveLogin, ArriveRefresh, ArriveLogout,
     ArriveAddRole, PasswordlessArrive, ArriveRequestCode, ArriveVerifyCode, GoogleArrive,
     ArriveGoogleStart, ArriveGoogleCallback, AccountsArrive, ArriveRegister, ArriveBulkCreate,
     RefuseWithoutKey
<1>2. pc[r] = "idle" /\ op[r] = None /\ loaded[r] = None /\ out[r] = None
  BY <1>0, <1>1 DEF Arrive, Route, Owner
<1>3. \A code \in HeldCodes' : grants'[code].spentBy # r
  BY <1>0, <1>1, <1>2, NoneAssumption DEF Callback, HeldCodes, Routes
<1>4. CASE op'[r] # "google_callback"
  BY <1>3, <1>4 DEF Callback
<1>5. CASE op'[r] = "google_callback"
  <2>1. \/ ArriveMalformed(r)
        \/ ArriveGoogleCallback(r)
    BY <1>0, <1>5 DEF AuthArrive, SessionArrive, ArriveLogin, ArriveRefresh, ArriveLogout,
       ArriveAddRole, PasswordlessArrive, ArriveRequestCode, ArriveVerifyCode, GoogleArrive,
       ArriveGoogleStart, AccountsArrive, ArriveRegister, ArriveBulkCreate,
       RefuseWithoutKey, Arrive, ServiceTypeOK
  <2>2. CASE ArriveMalformed(r)
    <3>1. pc'[r] = "done" /\ out'[r] = "malformed" /\ arg'[r] = None
      BY <1>0, <2>2 DEF ArriveMalformed, Answer, Arrive, AuthTypeOK, ServiceTypeOK
    <3>2. OutcomeJustified(r)' /\ ~Active(r)'
      BY <3>1 DEF OutcomeJustified, RefusableState, Active, Ended
    <3> QED
      BY <1>1, <1>2, <1>3, <3>2 DEF Callback
  <2>3. CASE ArriveGoogleCallback(r)
    <3>1. PICK s \in HeldStates \cup {None}, code \in HeldCodes \cup {None} :
             /\ Arrive(r, "google_callback", [state |-> s, code |-> code])
             /\ \/ verify(s) /\ Goto(r, "google.exchange")
                \/ ~verify(s) /\ Answer(r, "ErrOAuthStateInvalid")
      BY <2>3 DEF ArriveGoogleCallback
    <3>2. arg'[r].state = s /\ at'[r] = now /\ now \in Nat
      BY <1>0, <3>1 DEF Arrive, AuthTypeOK, ServiceTypeOK
    <3>3. ASSUME s # None PROVE s \in HeldStates' /\ at'[s] = at[s] /\ at[s] \in Nat
      BY <1>0, <3>3, HeldStand DEF HeldStates, ServiceTypeOK
    <3>4. ASSUME s # None
          PROVE  /\ IssuedAtClaim(s) <= at[s] /\ at[s] < IssuedAtClaim(s) + TicksPerSecond
                 /\ IssuedAtClaim(s) \in Nat
      BY <3>3, <3>4, UnixBounds, UnixNat DEF IssuedAtClaim
    <3>5. CASE verify(s) /\ Goto(r, "google.exchange")
      <4>1. pc'[r] = "google.exchange"
        BY <1>0, <3>5 DEF Goto, ServiceTypeOK
      <4>2. s # None /\ now <= at[s] + oauthStateTTL
        <5>1. s # None /\ now <= IssuedAtClaim(s) + oauthStateTTL
          BY <3>5 DEF verify
        <5> QED
          BY <3>2, <3>3, <3>4, <5>1, GoogleAssumption
      <4>3. HonestState(r)'
        BY <3>2, <3>3, <4>2 DEF HonestState
      <4> QED
        BY <1>1, <1>2, <1>3, <4>1, <4>3 DEF Callback
    <3>6. CASE ~verify(s) /\ Answer(r, "ErrOAuthStateInvalid")
      <4>1. pc'[r] = "done" /\ out'[r] = "ErrOAuthStateInvalid"
        BY <1>0, <3>6 DEF Answer, ServiceTypeOK
      <4>2. s # None => now + TicksPerSecond > at[s] + oauthStateTTL
        <5>1. s # None => ~(now <= IssuedAtClaim(s) + oauthStateTTL)
          BY <3>6 DEF verify
        <5> QED
          BY <3>2, <3>3, <3>4, <5>1, GoogleAssumption, ServiceAssumption
      <4>3. RefusableState(r)'
        BY <3>2, <3>3, <4>2 DEF RefusableState
      <4>4. OutcomeJustified(r)' /\ ~Active(r)'
        BY <4>1, <4>3 DEF OutcomeJustified, Active, Ended
      <4> QED
        BY <1>1, <1>2, <1>3, <4>4 DEF Callback
    <3> QED
      BY <3>1, <3>5, <3>6
  <2> QED
    BY <2>1, <2>2, <2>3
<1> QED
  BY <1>4, <1>5

\* Each statement of a callback keeps what it has established.
LEMMA CallbackSteps ==
    ASSUME GoogleInv, Onward, NEW r \in Requests, AuthStep(r)
    PROVE  Callback(r)'
<1>0. /\ AuthInv /\ AuthTypeOK /\ ServiceTypeOK /\ Callback(r) /\ Route(r) /\ Owner(r)
  BY DEF GoogleInv, AuthInv, AuthTypeOK
<1>1. Active(r)
  BY DEF AuthStep, SessionStep, LoginFind, RefreshFind, RefreshLoad, RefreshRevoke, LogoutFind,
     LogoutRevoke, AddRole, Issue, StatementFails, PasswordlessStep, InsertCode,
     SendVerificationCode, VerifyFind, IncrementAttempts, MarkConsumed, VerifyFindUser,
     VerifyInsertUser, GoogleStep, ExchangeCodeForToken, FetchUserinfo, GoogleFindUser,
     GoogleInsertUser, AccountsStep, RegisterExists, RegisterInsert, RegisterFails, Active, Ended
<1>2. GoogleRoute(r) /\ op[r] # "google_start"
  BY <1>0, <1>1 DEF Route, GoogleRoute
<1>3. CASE op[r] # "google_callback"
  <2>1. UNCHANGED grants
    BY <1>2, <1>3 DEF AuthStep, GoogleOps
  <2> QED
    BY <1>1, <1>3, <2>1, CallbackGoesOn
<1>4. CASE op[r] = "google_callback"
  <2>1. GoogleStep(r)
    BY <1>4 DEF AuthStep, SessionOps, PasswordlessOps, AccountOps
  <2>2. ASSUME NEW x, Goto(r, x), x # "done" PROVE pc'[r] # "done"
    BY <1>0, <2>2 DEF Goto, ServiceTypeOK
  <2>3. ASSUME NEW x, Answer(r, x) PROVE pc'[r] = "done" /\ out'[r] = x
    BY <1>0, <2>3 DEF Answer, ServiceTypeOK
  <2>4. CASE /\ UNCHANGED <<loaded, grants>>
             /\ \/ Answer(r, "ok") \/ Answer(r, "failure")
                \/ Goto(r, "google.user")
    BY <1>1, <2>2, <2>3, <2>4, CallbackGoesOn
  <2>5. CASE ExchangeCodeForToken(r)
    <3>1. CASE Answer(r, "failure") /\ UNCHANGED grants
      BY <2>4, <2>5, <3>1 DEF ExchangeCodeForToken
    <3>2. CASE /\ arg[r].code # None
               /\ grants' = [grants EXCEPT ![arg[r].code].spentBy = r]
               /\ Goto(r, "google.userinfo") \/ Answer(r, "failure")
      <4> DEFINE code == arg[r].code
      <4>1. code \in HeldCodes /\ code \in AuthCodes /\ grants[code] \in Grants
        BY <1>0, <1>2, <1>4, <2>5, <3>2 DEF ExchangeCodeForToken, GoogleRoute, HeldCodes, AuthTypeOK
      <4>2. /\ \A c \in AuthCodes \ {code} : grants'[c] = grants[c]
            /\ UNCHANGED <<op, arg, loaded>>
        BY <1>0, <2>5, <3>2, <4>1 DEF ExchangeCodeForToken, AuthTypeOK, request
      <4>3. loaded[r] = None
        BY <1>0, <2>5 DEF ExchangeCodeForToken, Owner
      <4>4. HonestState(r)'
        BY <1>0, <1>1, <1>4, StatesStand DEF Callback, Active
      <4>5. ASSUME NEW c \in HeldCodes', grants'[c].spentBy = r PROVE c = code
        <5>1. ASSUME c # code PROVE c \in HeldCodes /\ grants[c].spentBy = r
          BY <4>2, <4>5, <5>1 DEF HeldCodes
        <5>2. ASSUME c # code PROVE FALSE
          BY <1>0, <5>1, <5>2 DEF Callback
        <5> QED
          BY <5>2
      <4>6. pc'[r] = "done" => OutcomeJustified(r)'
        BY <2>2, <2>3, <3>2 DEF OutcomeJustified
      <4> QED
        BY <1>4, <4>2, <4>3, <4>4, <4>5, <4>6 DEF Callback
    <3> QED
      BY <2>5, <3>1, <3>2 DEF ExchangeCodeForToken
  <2>6. CASE FetchUserinfo(r)
    <3>1. CASE Goto(r, "google.user")
      BY <2>4, <2>6, <3>1 DEF FetchUserinfo
    <3>2. CASE ~grants[arg[r].code].verified /\ Answer(r, "ErrOAuthEmailNotVerified")
      <4>1. arg[r].code \in HeldCodes /\ UNCHANGED <<loaded, grants>>
        BY <1>2, <1>4, <2>6 DEF FetchUserinfo, GoogleRoute
      <4> QED
        BY <1>1, <2>3, <3>2, <4>1, CallbackGoesOn
    <3> QED
      BY <2>6, <3>1, <3>2 DEF FetchUserinfo
  <2>7. ASSUME pc[r] \in {"google.user", "google.insert"}
        PROVE  grants[arg[r].code].spentBy = r /\ grants[arg[r].code].verified
    BY <1>2, <1>4, <2>7 DEF GoogleRoute
  <2>8. CASE GoogleFindUser(r)
    <3>1. /\ pc[r] = "google.user" /\ UNCHANGED grants
          /\ Goto(r, "issue") \/ Goto(r, "google.insert")
      BY <2>8 DEF GoogleFindUser, FindUser
    <3> QED
      BY <1>1, <2>2, <2>7, <3>1, CallbackGoesOn
  <2>9. CASE GoogleInsertUser(r)
    <3>1. /\ pc[r] = "google.insert" /\ UNCHANGED grants
          /\ Goto(r, "issue") \/ Answer(r, "failure")
      BY <2>9 DEF GoogleInsertUser, InsertUser
    <3> QED
      BY <1>1, <2>2, <2>3, <2>7, <3>1, CallbackGoesOn
  <2>10. CASE Issue(r) /\ UNCHANGED grants
    BY <2>4, <2>10 DEF Issue
  <2>11. CASE StatementFails(r) /\ UNCHANGED grants
    BY <2>4, <2>11 DEF StatementFails
  <2> QED
    BY <2>1, <2>5, <2>6, <2>8, <2>9, <2>10, <2>11 DEF GoogleStep
<1> QED
  BY <1>3, <1>4

-----------------------------------------------------------------------------
(* The invariant holds *)

\* GoogleInv holds at the start.
LEMMA GoogleInvInit == AuthInit => GoogleInv
<1> SUFFICES ASSUME AuthInit PROVE GoogleInv
  OBVIOUS
<1>1. AuthInv /\ \A r \in Requests : op[r] = None
  BY AuthInvInit DEF AuthInit, PasswordlessInit, ServiceInit
<1>2. HeldCodes = {}
  BY DEF AuthInit, GoogleInit, HeldCodes
<1> QED
  BY <1>1, <1>2, NoneAssumption DEF GoogleInv, Callback, Routes

\* Every step keeps GoogleInv.
LEMMA GoogleInvStep == GoogleInv /\ [AuthNext]_authVars => GoogleInv'
<1> SUFFICES ASSUME GoogleInv, [AuthNext]_authVars PROVE GoogleInv'
  OBVIOUS
<1>1. AuthInv /\ AuthInv' /\ Onward /\ AuthTypeOK'
  BY EveryStep, AuthInvKept DEF GoogleInv
<1>2. ASSUME NEW r \in Requests, AuthArrive(r) \/ AuthStep(r)
      PROVE  \A s \in Requests : Callback(s)'
  <2>1. \A s \in Requests \ {r} : Aside(s)
    BY <1>1, <1>2, Arrivals, Steps
  <2>2. Callback(r)'
    BY <1>1, <1>2, CallbackArrives, CallbackSteps
  <2> QED
    BY <1>1, <2>1, <2>2, CallbackStands
<1>3. CASE \E r \in Requests : AuthArrive(r) \/ AuthStep(r)
  BY <1>1, <1>2, <1>3 DEF GoogleInv
<1>4. CASE \/ \E code \in AuthCodes : Consent(code) /\ UNCHANGED <<codeVars, report>>
           \/ Crash /\ UNCHANGED <<codeVars, grants, report>>
           \/ Tick /\ UNCHANGED <<codeVars, grants, report>>
           \/ Quiescent /\ UNCHANGED <<codeVars, grants, report>>
           \/ UNCHANGED authVars
  BY <1>1, <1>4, OthersMove, CallbackStands DEF GoogleInv
<1> QED
  BY <1>3, <1>4 DEF AuthNext

\* GoogleInv is inductive.
LEMMA GoogleInvHolds == AuthSpec => []GoogleInv
  BY GoogleInvInit, GoogleInvStep, PTL DEF AuthSpec

-----------------------------------------------------------------------------
(* Theorems *)

\* At each statement of a callback the code is its own and nobody else's, and past
\* the identity the address is verified (complete_google_oauth.go).
THEOREM GoogleTypes == AuthSpec => []GoogleTypeOK
<1>1. ASSUME AuthInv PROVE GoogleTypeOK
  <2>1. ServiceTypeOK /\ grants \in [AuthCodes -> Grants \cup {None}]
    BY <1>1 DEF AuthInv, AuthTypeOK
  <2>2. ASSUME NEW r \in Requests,
               pc[r] \in {"google.exchange", "google.userinfo", "google.user", "google.insert"}
        PROVE  op[r] = "google_callback" /\ GoogleRoute(r)
    BY <1>1, <2>2 DEF AuthInv, Route, Active, Ended, SessionRoute, CodeRoute, GoogleRoute,
       AccountRoute, AccountOps, Routes
  <2>3. ASSUME NEW r \in Requests, pc[r] = "issue" PROVE loaded[r] # None
    BY <1>1, <2>3 DEF AuthInv, Owner
  <2> QED
    BY <2>1, <2>2, <2>3 DEF GoogleTypeOK, GoogleRoute
<1> QED
  BY <1>1, AuthInvHolds, PTL

\* A code is spent at Google only for a callback that came with a state of the
\* service, not older than oauthStateTTL (complete_google_oauth.go).
THEOREM HonestStatesSpendCodes == AuthSpec => []StateGatesExchange
<1>1. ASSUME GoogleInv PROVE StateGatesExchange
  <2>1. ASSUME NEW code \in HeldCodes, grants[code].spentBy # None
        PROVE  grants[code].spentBy \in Requests
    <3>1. grants[code] \in Grants
      BY <1>1 DEF GoogleInv, AuthInv, AuthTypeOK, HeldCodes
    <3> QED
      BY <2>1, <3>1 DEF Grants
  <2> QED
    BY <1>1, <2>1 DEF StateGatesExchange, GoogleInv, Callback, HonestState
<1> QED
  BY <1>1, GoogleInvHolds, PTL

\* A pair goes only to the callback that spent the code, for the account of the
\* address that Google has verified (complete_google_oauth.go).
THEOREM GoogleSessionsAreOfTheVerified == AuthSpec => []GoogleSessionOwner
<1>1. ASSUME GoogleInv, NEW r \in Requests, op[r] = "google_callback", refreshTokens[r] # None
      PROVE  /\ grants[arg[r].code].spentBy = r
             /\ grants[arg[r].code].verified
             /\ users[refreshTokens[r].user].email.box = grants[arg[r].code].email.box
  <2>1. loaded[r] # None /\ refreshTokens[r].user = loaded[r].id /\ Proven(r, loaded[r].id)
    BY <1>1 DEF GoogleInv, AuthInv, Owner
  <2> QED
    BY <1>1, <2>1 DEF GoogleInv, Callback, Proven, ProvenMailbox
<1>2. GoogleInv => GoogleSessionOwner
  BY <1>1 DEF GoogleSessionOwner
<1> QED
  BY <1>2, GoogleInvHolds, PTL

\* A callback is answered 400 only for its body or its state, and 401 only for an
\* address that Google has not verified (google_oauth_handler.go).
THEOREM CallbacksRefusedForCause == AuthSpec => []GoogleRefusalJustified
<1>1. ASSUME GoogleInv, NEW r \in Requests, pc[r] = "done", op[r] = "google_callback"
      PROVE  /\ GoogleCallbackStatus[out[r]] = 400 =>
                   \/ arg[r] = None
                   \/ arg[r].state = None
                   \/ at[r] + TicksPerSecond > at[arg[r].state] + oauthStateTTL
             /\ GoogleCallbackStatus[out[r]] = 401 => ~grants[arg[r].code].verified
  <2>1. OutcomeJustified(r)
    BY <1>1 DEF GoogleInv, Callback
  <2>2. /\ GoogleCallbackStatus["ok"] = 200
        /\ GoogleCallbackStatus["failure"] = 500
        /\ GoogleCallbackStatus["malformed"] = 400
        /\ GoogleCallbackStatus["ErrOAuthStateInvalid"] = 400
        /\ GoogleCallbackStatus["ErrOAuthEmailNotVerified"] = 401
    BY DEF GoogleCallbackStatus
  <2>3. GoogleCallbackStatus[out[r]] = 400 => out[r] \in {"malformed", "ErrOAuthStateInvalid"}
    BY <2>1, <2>2 DEF OutcomeJustified
  <2>4. GoogleCallbackStatus[out[r]] = 401 => out[r] = "ErrOAuthEmailNotVerified"
    BY <2>1, <2>2 DEF OutcomeJustified
  <2> QED
    BY <2>1, <2>3, <2>4 DEF OutcomeJustified, RefusableState
<1>2. GoogleInv => GoogleRefusalJustified
  BY <1>1 DEF GoogleRefusalJustified
<1> QED
  BY <1>2, GoogleInvHolds, PTL
=============================================================================
