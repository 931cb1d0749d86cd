------------------------- MODULE SessionOwnerProofs -------------------------
(***************************************************************************)
(* More theorems about Sessions: whose session a request opens or          *)
(* continues, what its access token claims and for how long, and why a     *)
(* request is refused.                                                     *)
(***************************************************************************)
EXTENDS SessionsProofs

-----------------------------------------------------------------------------
(* The inductive invariant *)

\* Account u has the mailbox and the password that login r was sent.
HasCredentials(u, r) ==
    /\ users[u] # None
    /\ users[u].email.box = arg[r].email.box
    /\ users[u].passwordHash = arg[r].password

\* User u is the one that request r may open or continue a session for.
MayIssueFor(r, u) ==
    /\ op[r] = "login" => arg[r] \in [email : Emails, password : Secrets] /\ HasCredentials(u, r)
    /\ op[r] = "refresh" => arg[r] \in HeldTokens /\ u = refreshTokens[arg[r]].user

\* Whom request r has in memory, or has issued tokens for, from the SELECT on.
OwnerKnown(r) ==
    /\ pc[r] \in {"refresh.revoke", "issue"} => MayIssueFor(r, loaded[r].id)
    /\ refreshTokens[r] # None => MayIssueFor(r, refreshTokens[r].user)

\* A copy of a user, and a claim made from it, has no role that the row lacks.
CopiesBehind(r) ==
    /\ loaded[r] # None => Covers(users[loaded[r].id].roles, loaded[r].roles)
    /\ accessTokens[r] # None => Covers(users[accessTokens[r].sub].roles, accessTokens[r].roles)

\* Both tokens of a pair count from the same instant.
PairDated(r) ==
    accessTokens[r] # None =>
        /\ IssuedAt(r) \in Nat
        /\ accessTokens[r].exp = Unix(IssuedAt(r) + accessTokenTTL)

\* The bearer token of a request was judged when the request arrived.
BearerJudged(r) ==
    op[r] = "add_role" =>
        /\ arg[r] \in [bearer : HeldTokens \cup {None}, role : {RoleSeller, RoleCustomer, None}]
        /\ arg[r].bearer # None =>
              (out[r] = "unauthorized" <=> accessTokens[arg[r].bearer].exp <= at[r])

\* Request q has presented token t and got past the check.
Presented(q, t) ==
    /\ op[q] \in {"refresh", "logout"}
    /\ arg[q] = t
    /\ pc[q] \notin {"idle", "refresh.find"}

\* A token is revoked only by a request that presented it.
RevokedByUse(t) ==
    refreshTokens[t] # None /\ refreshTokens[t].revoked => \E q \in Requests : Presented(q, t)

\* The outcome of a request is one its route has, and a refusal had a reason.
OutcomeKnown(r) ==
    /\ out[r] = None <=> pc[r] # "done"
    /\ op[r] = "login" => out[r] \in {"ok", "malformed", "ErrInvalidCredentials", "failure", None}
    /\ op[r] = "refresh" =>
          /\ out[r] \in {"ok", "malformed", "ErrRefreshTokenInvalid", "failure", None}
          /\ arg[r] \in HeldTokens \cup {None}
    /\ op[r] = "login" /\ out[r] = "ErrInvalidCredentials" =>
          /\ arg[r] \in [email : Emails, password : Secrets]
          /\ ~ \E u \in UserIDs : HasCredentials(u, r)
    /\ op[r] = "refresh" /\ out[r] = "ErrRefreshTokenInvalid" /\ arg[r] # None =>
          \/ now >= refreshTokens[arg[r]].expiresAt
          \/ /\ refreshTokens[arg[r]].revoked
             /\ \E q \in Requests \ {r} : Presented(q, arg[r])

\* What holds of each request.
Facts(r) ==
    /\ OwnerKnown(r)
    /\ CopiesBehind(r)
    /\ PairDated(r)
    /\ BearerJudged(r)
    /\ RevokedByUse(r)
    /\ OutcomeKnown(r)

\* Addresses are stored in lower case.
AddressesLower == \A u \in UserIDs : users[u] # None => users[u].email.lower

OwnerInv ==
    /\ SessionsInv
    /\ AddressesLower
    /\ \A r \in Requests : Facts(r)

-----------------------------------------------------------------------------
(* Lemmas on operators *)

\* Three lists of roles, each beginning with the next.
LEMMA CoversTransitive ==
    ASSUME NEW a, NEW b, NEW c, Covers(a, b), Covers(b, c) PROVE Covers(a, c)
  BY DEF Covers

-----------------------------------------------------------------------------
(* What no step undoes, continued *)

\* An account keeps its address, its password and its roles, none appears, and
\* an access token is what it was.
Keeps ==
    /\ \A u \in UserIDs :
          /\ users'[u] = None <=> users[u] = None
          /\ users[u] # None => /\ users'[u].email = users[u].email
                                /\ users'[u].passwordHash = users[u].passwordHash
                                /\ Covers(users'[u].roles, users[u].roles)
    /\ \A t \in Requests : accessTokens[t] # None => accessTokens'[t] = accessTokens[t]

\* A step that leaves users and accessTokens alone keeps them.
LEMMA KeepsSame ==
    ASSUME UNCHANGED <<users, accessTokens>> PROVE Keeps
  BY DEF Keeps, Covers

\* The one UPDATE of users.
LEMMA AddRoleKeeps ==
    ASSUME SessionsTypeOK, NEW r \in Requests, AddRole(r) PROVE Keeps
<1> DEFINE u == accessTokens[arg[r].bearer].sub
<1>1. arg[r] \in [bearer : HeldTokens, role : {RoleSeller}]
  BY DEF AddRole, SessionsTypeOK, Established
<1>2. u \in UserIDs /\ users[u] \in UserRows
  BY <1>1 DEF HeldTokens, SessionsTypeOK, ServiceTypeOK, Established, Claims
<1> DEFINE roles == IF \E i \in DOMAIN users[u].roles : users[u].roles[i] = RoleSeller
                    THEN users[u].roles ELSE Append(users[u].roles, RoleSeller)
           new == [users[u] EXCEPT !.roles = roles]
<1>3. users' = [users EXCEPT ![u] = new]
  BY <1>1, <1>2 DEF AddRole, SessionsTypeOK, ServiceTypeOK
<1>4. roles \in RoleLists /\ Covers(roles, users[u].roles)
  BY <1>2, RolesGrow, RolesKept DEF UserRows
<1> HIDE DEF roles, u
<1>5. /\ new \in UserRows /\ new # None
      /\ new.email = users[u].email /\ new.passwordHash = users[u].passwordHash
      /\ new.roles = roles
  BY <1>2, <1>4, NoneAssumption DEF UserRows
<1> HIDE DEF new
<1>6. \A v \in UserIDs : users'[v] = IF v = u THEN new ELSE users[v]
  BY <1>2, <1>3 DEF SessionsTypeOK, ServiceTypeOK
<1>7. users[u] # None
  BY <1>2, NoneAssumption
<1>8. \A v : Covers(users[v].roles, users[v].roles)
  BY DEF Covers
<1>9. UNCHANGED accessTokens
  BY AddRoleEffect
<1> QED
  BY <1>4, <1>5, <1>6, <1>7, <1>8, <1>9 DEF Keeps

\* Every step does.
LEMMA StepKeeps ==
    ASSUME SessionsTypeOK, [SessionsNext]_serviceVars PROVE Keeps
<1>1. ASSUME NEW r \in Requests, SessionArrive(r) PROVE UNCHANGED <<users, accessTokens>>
  BY <1>1 DEF SessionArrive, ArriveMalformed, ArriveLogin, ArriveRefresh, ArriveLogout,
     ArriveAddRole, tables
<1>2. ASSUME NEW r \in Requests,
             LoginFind(r) \/ RefreshFind(r) \/ RefreshLoad(r) \/ RefreshRevoke(r) \/ LogoutFind(r)
                \/ LogoutRevoke(r) \/ StatementFails(r)
      PROVE  UNCHANGED <<users, accessTokens>>
  BY <1>2 DEF LoginFind, RefreshFind, RefreshLoad, RefreshRevoke, LogoutFind, LogoutRevoke,
     StatementFails, tables
<1>3. ASSUME NEW r \in Requests, AddRole(r) PROVE Keeps
  BY <1>3, AddRoleKeeps
<1>4. ASSUME NEW r \in Requests, Issue(r) PROVE Keeps
  <2>1. UNCHANGED users /\ accessTokens[r] = None
    BY <1>4 DEF Issue, SessionsTypeOK, Established
  <2>2. \A t \in Requests \ {r} : accessTokens'[t] = accessTokens[t]
    BY <1>4 DEF Issue, SessionsTypeOK, ServiceTypeOK
  <2> QED
    BY <2>1, <2>2 DEF Keeps, Covers
<1>5. CASE Crash \/ Tick \/ UNCHANGED serviceVars
  BY <1>5, KeepsSame DEF Crash, Tick, serviceVars, tables
<1> QED
  BY <1>1, <1>2, <1>3, <1>4, <1>5, KeepsSame
  DEF SessionsNext, SessionStep, Quiescent

-----------------------------------------------------------------------------
(* What a step leaves of the facts about the requests that do not take it *)

\* The facts about a request stand while it takes no step, or dies.
LEMMA FactsStand ==
    ASSUME OwnerInv, SessionsTypeOK', Advances, Keeps,
           NEW s \in Requests,
           pc'[s] = pc[s] \/ (pc'[s] = "crashed" /\ pc[s] # "done"),
           UNCHANGED <<op[s], arg[s], out[s], at[s], loaded[s]>>,
           refreshTokens'[s] # None => refreshTokens[s] # None,
           accessTokens'[s] # None => accessTokens[s] # None
    PROVE  /\ OwnerKnown(s)' /\ CopiesBehind(s)' /\ PairDated(s)' /\ BearerJudged(s)'
<1> USE DEF OwnerInv, Facts, SessionsInv
<1>1. Facts(s) /\ Established(s) /\ SessionsTypeOK
  BY DEF SessionsTypeOK
<1>2. /\ loaded[s] # None => loaded[s].id \in UserIDs
      /\ refreshTokens[s] # None => refreshTokens[s].user \in UserIDs
      /\ accessTokens[s] # None => accessTokens[s].sub \in UserIDs
  BY <1>1 DEF SessionsTypeOK, ServiceTypeOK, TokenRows, Claims, DomainUsers
<1>3. \A t \in HeldTokens : refreshTokens[t] # None /\ t \in HeldTokens' /\ t \in Requests
  BY <1>1 DEF SessionsTypeOK, Established, HeldTokens, Advances
<1>4. ASSUME NEW u \in UserIDs, MayIssueFor(s, u) PROVE MayIssueFor(s, u)'
  BY <1>3, <1>4 DEF MayIssueFor, HasCredentials, Keeps, Advances
<1>5. OwnerKnown(s)'
  BY <1>1, <1>2, <1>4 DEF OwnerKnown, Established, Advances
<1>6. CopiesBehind(s)'
  BY <1>1, <1>2, CoversTransitive DEF CopiesBehind, Established, Keeps
<1>7. PairDated(s)'
  BY <1>1 DEF PairDated, Established, Keeps, Advances, IssuedAt
<1>8. BearerJudged(s)'
  BY <1>1, <1>3 DEF BearerJudged, Keeps, HeldTokens
<1> QED
  BY <1>5, <1>6, <1>7, <1>8

\* A step of request r concerns no other request.
Alone(r) ==
    \A s \in Requests \ {r} :
        /\ UNCHANGED <<pc[s], op[s], arg[s], out[s], at[s], loaded[s]>>
        /\ refreshTokens'[s] # None => refreshTokens[s] # None
        /\ accessTokens'[s] # None => accessTokens[s] # None

\* An arrival takes a request out of the idle state and nothing else.
LEMMA ArrivalAlone ==
    ASSUME SessionsTypeOK, NEW r \in Requests, SessionArrive(r)
    PROVE  Alone(r) /\ pc[r] = "idle" /\ pc'[r] # "idle" /\ UNCHANGED <<now, tables, loaded>>
<1> USE DEF SessionsTypeOK, ServiceTypeOK, Alone, Arrive, Goto, Answer, tables
<1>1. CASE ArriveMalformed(r)
  BY <1>1 DEF ArriveMalformed
<1>2. CASE ArriveLogin(r)
  BY <1>2 DEF ArriveLogin
<1>3. CASE ArriveRefresh(r)
  BY <1>3 DEF ArriveRefresh
<1>4. CASE ArriveLogout(r)
  BY <1>4 DEF ArriveLogout
<1>5. CASE ArriveAddRole(r)
  BY <1>5 DEF ArriveAddRole
<1> QED
  BY <1>1, <1>2, <1>3, <1>4, <1>5 DEF SessionArrive

\* A statement of a request never takes it back to its first one.
LEMMA StatementAlone ==
    ASSUME SessionsTypeOK, NEW r \in Requests, SessionStep(r)
    PROVE  /\ Alone(r) /\ pc[r] \notin {"idle", "done", "crashed"}
           /\ pc'[r] \notin {"idle", "refresh.find"}
           /\ UNCHANGED <<now, request>>
<1> USE DEF SessionsTypeOK, ServiceTypeOK, Alone, Goto, Answer, tables, request
<1>1. CASE LoginFind(r)
  BY <1>1 DEF LoginFind
<1>2. CASE RefreshFind(r)
  BY <1>2 DEF RefreshFind
<1>3. CASE RefreshLoad(r)
  BY <1>3 DEF RefreshLoad
<1>4. CASE RefreshRevoke(r)
  <2>1. arg[r] \in HeldTokens /\ Revoke(arg[r])
    BY <1>4 DEF RefreshRevoke, Established
  <2> QED
    BY <1>4, <2>1, RevokedRows DEF RefreshRevoke
<1>5. CASE LogoutFind(r)
  BY <1>5 DEF LogoutFind
<1>6. CASE LogoutRevoke(r)
  <2>1. arg[r] \in HeldTokens /\ Revoke(arg[r])
    BY <1>6 DEF LogoutRevoke, Established
  <2> QED
    BY <1>6, <2>1, RevokedRows DEF LogoutRevoke
<1>7. CASE AddRole(r)
  BY <1>7, AddRoleEffect
<1>8. CASE Issue(r)
  <2>1. \A s \in Requests \ {r} : /\ refreshTokens'[s] = refreshTokens[s]
                                  /\ accessTokens'[s] = accessTokens[s]
    BY <1>8 DEF Issue
  <2>2. /\ pc[r] = "issue" /\ UNCHANGED <<now, op, arg, before, at, loaded>>
        /\ \E x \in {"ok", "failure"} : Answer(r, x)
    BY <1>8 DEF Issue
  <2> QED
    BY <2>1, <2>2
<1>9. CASE StatementFails(r)
  BY <1>9 DEF StatementFails, Active, Ended
<1> QED
  BY <1>1, <1>2, <1>3, <1>4, <1>5, <1>6, <1>7, <1>8, <1>9 DEF SessionStep

\* Whoever has presented a token has done so for good.
LEMMA PresentedStands ==
    ASSUME SessionsTypeOK, [SessionsNext]_serviceVars, NEW q \in Requests, NEW t, Presented(q, t)
    PROVE  Presented(q, t)'
<1> USE DEF SessionsTypeOK, ServiceTypeOK, Presented
<1>1. ASSUME NEW r \in Requests, SessionArrive(r) PROVE Presented(q, t)'
  BY <1>1, ArrivalAlone DEF Alone
<1>2. ASSUME NEW r \in Requests, SessionStep(r) PROVE Presented(q, t)'
  BY <1>2, StatementAlone DEF Alone, request
<1>3. CASE Crash
  BY <1>3 DEF Crash, request
<1>4. CASE Tick \/ UNCHANGED serviceVars
  BY <1>4 DEF Tick, serviceVars, request
<1> QED
  BY <1>1, <1>2, <1>3, <1>4 DEF SessionsNext, Quiescent

\* The reasons of a refusal stand too.
LEMMA OutcomeStands ==
    ASSUME OwnerInv, SessionsTypeOK', [SessionsNext]_serviceVars, Advances, Keeps,
           NEW s \in Requests,
           pc'[s] = pc[s] \/ (pc'[s] = "crashed" /\ pc[s] # "done"),
           UNCHANGED <<op[s], arg[s], out[s]>>
    PROVE  OutcomeKnown(s)'
<1> USE DEF OwnerInv, Facts, SessionsInv
<1>1. OutcomeKnown(s) /\ SessionsTypeOK
  OBVIOUS
<1>2. \A t \in HeldTokens : refreshTokens[t] # None /\ t \in HeldTokens' /\ t \in Requests
  BY <1>1 DEF SessionsTypeOK, Established, HeldTokens, Advances
<1>3. \A u \in UserIDs : HasCredentials(u, s)' => HasCredentials(u, s)
  BY DEF HasCredentials, Keeps
<1>4. ASSUME op[s] = "refresh", out[s] = "ErrRefreshTokenInvalid", arg[s] # None
      PROVE  \/ now' >= refreshTokens'[arg[s]].expiresAt
             \/ /\ refreshTokens'[arg[s]].revoked
                /\ \E q \in Requests \ {s} : Presented(q, arg[s])'
  <2>1. arg[s] \in HeldTokens
    BY <1>1, <1>4 DEF OutcomeKnown
  <2>2. CASE now >= refreshTokens[arg[s]].expiresAt
    <3>1. /\ refreshTokens'[arg[s]].expiresAt = refreshTokens[arg[s]].expiresAt
          /\ refreshTokens[arg[s]] \in TokenRows /\ now \in Nat /\ now' \in Nat /\ now <= now'
      BY <1>1, <1>2, <2>1 DEF Advances, SessionsTypeOK, ServiceTypeOK
    <3> QED
      BY <2>2, <3>1 DEF TokenRows
  <2>3. CASE /\ refreshTokens[arg[s]].revoked
             /\ \E q \in Requests \ {s} : Presented(q, arg[s])
    <3>1. refreshTokens'[arg[s]].revoked
      BY <1>2, <2>1, <2>3 DEF Advances
    <3> QED
      BY <1>1, <2>3, <3>1, PresentedStands
  <2> QED
    BY <1>1, <1>4, <2>2, <2>3 DEF OutcomeKnown
<1>5. /\ out'[s] = None <=> pc'[s] # "done"
      /\ op'[s] = "login" => out'[s] \in {"ok", "malformed", "ErrInvalidCredentials", "failure", None}
      /\ op'[s] = "refresh" =>
            /\ out'[s] \in {"ok", "malformed", "ErrRefreshTokenInvalid", "failure", None}
            /\ arg'[s] \in HeldTokens' \cup {None}
  BY <1>1, <1>2 DEF OutcomeKnown
<1>6. op'[s] = "login" /\ out'[s] = "ErrInvalidCredentials" =>
          /\ arg'[s] \in [email : Emails, password : Secrets]
          /\ ~ \E u \in UserIDs : HasCredentials(u, s)'
  BY <1>1, <1>3 DEF OutcomeKnown
<1> QED
  BY <1>4, <1>5, <1>6 DEF OutcomeKnown

-----------------------------------------------------------------------------
(* The invariant is inductive *)

\* Only AddRole writes the table users, and not the address.
LEMMA AddressesStep ==
    ASSUME OwnerInv, Keeps PROVE AddressesLower'
  BY DEF OwnerInv, AddressesLower, Keeps

\* A row is revoked by the UPDATE of the request that presented the token, and
\* inserted not revoked.
LEMMA RevokedByUseStep ==
    ASSUME OwnerInv, SessionsTypeOK', [SessionsNext]_serviceVars, NEW t \in Requests
    PROVE  RevokedByUse(t)'
<1>0. SessionsTypeOK /\ RevokedByUse(t)
  BY DEF OwnerInv, Facts, SessionsInv
<1>1. ASSUME NEW q \in Requests, Presented(q, t) PROVE Presented(q, t)'
  BY <1>0, <1>1, PresentedStands
<1>2. CASE UNCHANGED refreshTokens
  BY <1>0, <1>1, <1>2 DEF RevokedByUse
<1>3. ASSUME NEW r \in Requests, RefreshRevoke(r) \/ LogoutRevoke(r) PROVE RevokedByUse(t)'
  <2>1. /\ arg[r] \in HeldTokens /\ Revoke(arg[r]) /\ op[r] \in {"refresh", "logout"}
        /\ pc[r] \in {"refresh.revoke", "logout.revoke"}
    BY <1>0, <1>3 DEF RefreshRevoke, LogoutRevoke, SessionsTypeOK, Established
  <2>2. Presented(r, arg[r])
    BY <2>1 DEF Presented
  <2>3. CASE t = arg[r]
    BY <1>1, <2>2, <2>3 DEF RevokedByUse
  <2>4. CASE t # arg[r]
    <3>1. refreshTokens'[t] = refreshTokens[t]
      BY <1>0, <2>1, <2>4, RevokedRows
    <3> QED
      BY <1>0, <1>1, <3>1 DEF RevokedByUse
  <2> QED
    BY <2>3, <2>4
<1>4. ASSUME NEW r \in Requests, Issue(r) PROVE RevokedByUse(t)'
  <2>1. CASE t = r
    BY <1>0, <1>4, <2>1 DEF Issue, RevokedByUse, SessionsTypeOK, ServiceTypeOK
  <2>2. CASE t # r
    <3>1. refreshTokens'[t] = refreshTokens[t]
      BY <1>0, <1>4, <2>2 DEF Issue, SessionsTypeOK, ServiceTypeOK
    <3> QED
      BY <1>0, <1>1, <3>1 DEF RevokedByUse
  <2> QED
    BY <2>1, <2>2
<1>5. ASSUME NEW r \in Requests, SessionArrive(r) PROVE UNCHANGED refreshTokens
  BY <1>0, <1>5, ArrivalAlone DEF tables
<1>6. ASSUME NEW r \in Requests,
             LoginFind(r) \/ RefreshFind(r) \/ RefreshLoad(r) \/ LogoutFind(r) \/ StatementFails(r)
      PROVE  UNCHANGED refreshTokens
  BY <1>6 DEF LoginFind, RefreshFind, RefreshLoad, LogoutFind, StatementFails, tables
<1>7. ASSUME NEW r \in Requests, AddRole(r) PROVE UNCHANGED refreshTokens
  BY <1>7, AddRoleEffect
<1>8. CASE Crash \/ Tick \/ UNCHANGED serviceVars
  <2>1. UNCHANGED refreshTokens
    BY <1>8 DEF Crash, Tick, serviceVars, tables
  <2> QED
    BY <1>2, <2>1
<1> QED
  BY <1>2, <1>3, <1>4, <1>5, <1>6, <1>7, <1>8 DEF SessionsNext, SessionStep, Quiescent

\* What there is to know of a request that has just arrived.
LEMMA ArrivalFacts ==
    ASSUME OwnerInv, SessionsTypeOK', Advances, NEW r \in Requests, SessionArrive(r)
    PROVE  /\ OwnerKnown(r)' /\ CopiesBehind(r)' /\ PairDated(r)'
           /\ BearerJudged(r)' /\ OutcomeKnown(r)'
<1> USE ServiceAssumption, NoneAssumption
<1>0. SessionsTypeOK /\ Facts(r) /\ Established(r)
  BY DEF OwnerInv, SessionsInv, SessionsTypeOK
<1>1. /\ pc[r] = "idle" /\ UNCHANGED <<now, users, refreshTokens, accessTokens, loaded>>
      /\ refreshTokens[r] = None /\ accessTokens[r] = None /\ out[r] = None
  BY <1>0, ArrivalAlone DEF tables, Established, Facts, OutcomeKnown
<1>2. /\ CopiesBehind(r)' /\ PairDated(r)'
  BY <1>0, <1>1 DEF CopiesBehind, PairDated, Facts
<1> USE DEF SessionsTypeOK, ServiceTypeOK, Arrive, Goto, Answer, OwnerKnown, BearerJudged,
            OutcomeKnown, HeldTokens, Results
<1>3. CASE ArriveMalformed(r)
  BY <1>0, <1>1, <1>2, <1>3 DEF ArriveMalformed, Guarded
<1>4. CASE ArriveLogin(r)
  BY <1>0, <1>1, <1>2, <1>4 DEF ArriveLogin
<1>5. CASE ArriveRefresh(r)
  BY <1>0, <1>1, <1>2, <1>5 DEF ArriveRefresh
<1>6. CASE ArriveLogout(r)
  BY <1>0, <1>1, <1>2, <1>6 DEF ArriveLogout
<1>7. CASE ArriveAddRole(r)
  <2>1. PICK bearer \in HeldTokens \cup {None}, role \in {RoleSeller, RoleCustomer, None} :
           /\ Arrive(r, "add_role", [bearer |-> bearer, role |-> role])
           /\ \/ ~RequireAuth(bearer) /\ Answer(r, "unauthorized")
              \/ /\ RequireAuth(bearer)
                 /\ \/ \E x \in {"malformed", "ErrInvalidRole"} : Answer(r, x)
                    \/ Goto(r, "roles.update")
    BY <1>7 DEF ArriveAddRole
  <2>2. /\ op'[r] = "add_role" /\ arg'[r] = [bearer |-> bearer, role |-> role] /\ at'[r] = now
        /\ pc'[r] \in {"done", "roles.update"} /\ (out'[r] = None <=> pc'[r] # "done")
        /\ out'[r] = "unauthorized" <=> ~RequireAuth(bearer)
    BY <1>0, <1>1, <2>1
  <2>3. OwnerKnown(r)' /\ OutcomeKnown(r)'
    BY <1>0, <1>1, <2>2
  <2>4. bearer # None => accessTokens[bearer].exp \in Nat
    BY <1>0 DEF Claims
  <2>5. BearerJudged(r)'
    BY <1>0, <1>1, <2>2, <2>4 DEF RequireAuth, VerifySubject
  <2> QED
    BY <1>2, <2>3, <2>5
<1> QED
  BY <1>3, <1>4, <1>5, <1>6, <1>7 DEF SessionArrive

\* What there is to know of a request that has just taken a step.
LEMMA StatementFacts ==
    ASSUME OwnerInv, SessionsTypeOK', Advances, Keeps, NEW r \in Requests, SessionStep(r)
    PROVE  /\ OwnerKnown(r)' /\ CopiesBehind(r)' /\ PairDated(r)'
           /\ BearerJudged(r)' /\ OutcomeKnown(r)'
<1> USE ServiceAssumption, NoneAssumption
<1>0. SessionsTypeOK /\ Facts(r) /\ Established(r)
  BY DEF OwnerInv, SessionsInv, SessionsTypeOK
<1>1. /\ pc[r] \notin {"idle", "done", "crashed"} /\ UNCHANGED <<now, op, arg, before, at>>
      /\ refreshTokens[r] = None /\ accessTokens[r] = None /\ out[r] = None
  BY <1>0, StatementAlone DEF request, Established, Facts, OutcomeKnown
<1>2. \A t \in HeldTokens : /\ t \in Requests /\ refreshTokens[t] \in TokenRows
                            /\ refreshTokens'[t].user = refreshTokens[t].user
                            /\ t \in HeldTokens' /\ accessTokens'[t] = accessTokens[t]
  BY <1>0 DEF SessionsTypeOK, ServiceTypeOK, Established, HeldTokens, Advances, Keeps
<1>3. ASSUME NEW x \in Results, x # "unauthorized", out'[r] \in {None, x}
      PROVE  BearerJudged(r)'
  BY <1>0, <1>1, <1>2, <1>3 DEF Facts, BearerJudged, Results
<1>4. ASSUME UNCHANGED loaded, UNCHANGED accessTokens PROVE CopiesBehind(r)' /\ PairDated(r)'
  <2>1. loaded[r] # None => loaded[r].id \in UserIDs
    BY <1>0 DEF SessionsTypeOK, ServiceTypeOK, DomainUsers
  <2> QED
    BY <1>0, <1>1, <1>4, <2>1, CoversTransitive DEF Facts, CopiesBehind, PairDated, Established, Keeps
<1> USE DEF SessionsTypeOK, ServiceTypeOK
<1>5. CASE LoginFind(r)
  <2>1. /\ op[r] = "login" /\ arg[r] \in [email : Emails, password : Secrets]
        /\ UNCHANGED <<users, refreshTokens, accessTokens>>
    BY <1>0, <1>5 DEF LoginFind, Established, tables
  <2>2. normalizeEmail(arg[r].email) = [box |-> arg[r].email.box, lower |-> TRUE]
    BY <2>1, Normalized
  <2>3. CASE Answer(r, "ErrInvalidCredentials") /\ UNCHANGED loaded
    <3>1. pc'[r] = "done" /\ out'[r] = "ErrInvalidCredentials"
      BY <2>3 DEF Answer
    <3>2. CopiesBehind(r)' /\ PairDated(r)' /\ BearerJudged(r)' /\ OwnerKnown(r)'
      BY <1>1, <1>3, <1>4, <2>1, <2>3, <3>1 DEF OwnerKnown, Results
    <3>3. ASSUME NEW u \in UserIDs PROVE ~HasCredentials(u, r)
      <4> SUFFICES ASSUME HasCredentials(u, r) PROVE FALSE
        OBVIOUS
      <4>1. users[u] \in UserRows /\ users[u].email.lower
        BY <1>0 DEF HasCredentials, OwnerInv, AddressesLower
      <4>2. users[u].email = [box |-> arg[r].email.box, lower |-> TRUE]
        BY <4>1 DEF HasCredentials, UserRows, Emails
      <4>3. /\ u \in FindByEmail(normalizeEmail(arg[r].email))
            /\ users[u].passwordHash # None /\ Matches(users[u].passwordHash, arg[r].password)
        BY <2>1, <2>2, <4>2 DEF FindByEmail, HasCredentials, Matches
      <4>4. ~Answer(r, "ErrInvalidCredentials")
        BY <1>5, <1>1, <4>3 DEF LoginFind, Goto, Answer
      <4> QED
        BY <2>3, <4>4
    <3>4. \A u \in UserIDs : ~HasCredentials(u, r)'
      BY <1>1, <2>1, <3>3 DEF HasCredentials
    <3>5. OutcomeKnown(r)'
      BY <1>1, <2>1, <3>1, <3>4 DEF OutcomeKnown, Results
    <3> QED
      BY <3>2, <3>5
  <2>4. ASSUME NEW u \in FindByEmail(normalizeEmail(arg[r].email)),
               Matches(users[u].passwordHash, arg[r].password),
               loaded' = [loaded EXCEPT ![r] = toDomainUser(u)], Goto(r, "issue")
        PROVE  /\ OwnerKnown(r)' /\ CopiesBehind(r)' /\ PairDated(r)'
               /\ BearerJudged(r)' /\ OutcomeKnown(r)'
    <3>1. pc'[r] = "issue" /\ out'[r] = None /\ loaded'[r] = [id |-> u, roles |-> users[u].roles]
      BY <1>1, <2>4 DEF Goto, toDomainUser
    <3>2. HasCredentials(u, r)
      BY <2>2, <2>4 DEF HasCredentials, FindByEmail, Matches
    <3>3. OwnerKnown(r)'
      BY <1>1, <2>1, <3>1, <3>2 DEF OwnerKnown, MayIssueFor, HasCredentials
    <3>4. CopiesBehind(r)' /\ PairDated(r)'
      BY <1>1, <2>1, <3>1 DEF CopiesBehind, PairDated, Covers
    <3>5. BearerJudged(r)' /\ OutcomeKnown(r)'
      BY <1>1, <2>1, <3>1 DEF BearerJudged, OutcomeKnown, Results
    <3> QED
      BY <3>3, <3>4, <3>5
  <2> QED
    BY <1>5, <2>3, <2>4 DEF LoginFind
<1>6. CASE RefreshFind(r)
  <2>1. /\ op[r] = "refresh" /\ arg[r] \in HeldTokens \cup {None} /\ pc[r] = "refresh.find"
        /\ UNCHANGED <<users, refreshTokens, accessTokens, loaded>>
    BY <1>0, <1>6 DEF RefreshFind, Established, tables
  <2>2. CASE Goto(r, "refresh.load")
    BY <1>0, <1>1, <1>2, <1>3, <1>4, <2>1, <2>2 DEF Goto, OwnerKnown, OutcomeKnown, Results
  <2>3. CASE /\ arg[r] # None => ~IsValid(refreshTokens[arg[r]])
             /\ Answer(r, "ErrRefreshTokenInvalid")
    <3>1. pc'[r] = "done" /\ out'[r] = "ErrRefreshTokenInvalid"
      BY <2>3 DEF Answer
    <3>2. CopiesBehind(r)' /\ PairDated(r)' /\ BearerJudged(r)' /\ OwnerKnown(r)'
      BY <1>1, <1>3, <1>4, <2>1, <3>1 DEF OwnerKnown, Results
    <3>3. ASSUME arg[r] # None
          PROVE  \/ now >= refreshTokens[arg[r]].expiresAt
                 \/ /\ refreshTokens[arg[r]].revoked
                    /\ \E q \in Requests \ {r} : Presented(q, arg[r])'
      <4>1. arg[r] \in Requests /\ refreshTokens[arg[r]] \in TokenRows
        BY <1>2, <2>1, <3>3
      <4>2. CASE refreshTokens[arg[r]].revoked
        <5>1. PICK q \in Requests : Presented(q, arg[r])
          BY <4>1, <4>2 DEF OwnerInv, Facts, RevokedByUse
        <5>2. q # r
          BY <2>1, <5>1 DEF Presented
        <5>3. Presented(q, arg[r])'
          BY <1>1, <5>1, <5>2, <1>0, StatementAlone DEF Presented, Alone
        <5> QED
          BY <4>2, <5>2, <5>3
      <4>3. CASE ~refreshTokens[arg[r]].revoked
        BY <1>0, <2>3, <3>3, <4>1, <4>3 DEF IsValid, TokenRows
      <4> QED
        BY <4>2, <4>3
    <3>4. OutcomeKnown(r)'
      BY <1>1, <1>2, <2>1, <3>1, <3>3 DEF OutcomeKnown, Results
    <3> QED
      BY <3>2, <3>4
  <2> QED
    BY <1>6, <2>2, <2>3 DEF RefreshFind
<1>7. CASE RefreshLoad(r)
  <2> DEFINE u == refreshTokens[arg[r]].user
  <2>1. /\ op[r] = "refresh" /\ arg[r] \in HeldTokens
        /\ UNCHANGED <<users, refreshTokens, accessTokens>>
    BY <1>0, <1>7 DEF RefreshLoad, Established, tables
  <2>2. /\ pc'[r] = "refresh.revoke" /\ out'[r] = None
        /\ loaded'[r] = [id |-> u, roles |-> users[u].roles]
    BY <1>1, <1>7 DEF RefreshLoad, Goto, toDomainUser
  <2>3. OwnerKnown(r)'
    BY <1>1, <1>2, <2>1, <2>2 DEF OwnerKnown, MayIssueFor, HeldTokens
  <2>4. CopiesBehind(r)' /\ PairDated(r)'
    BY <1>1, <2>1, <2>2 DEF CopiesBehind, PairDated, Covers
  <2>5. BearerJudged(r)' /\ OutcomeKnown(r)'
    BY <1>1, <1>2, <2>1, <2>2 DEF BearerJudged, OutcomeKnown, Results
  <2> QED
    BY <2>3, <2>4, <2>5
<1>8. CASE RefreshRevoke(r)
  <2>1. /\ op[r] = "refresh" /\ arg[r] \in HeldTokens /\ Revoke(arg[r]) /\ pc[r] = "refresh.revoke"
        /\ UNCHANGED <<users, accessTokens, loaded>>
    BY <1>0, <1>8 DEF RefreshRevoke, Established
  <2>2. refreshTokens'[r] = None
    BY <1>0, <1>1, <2>1, RevokedRows
  <2>3. CopiesBehind(r)' /\ PairDated(r)'
    BY <1>4, <2>1
  <2>4. MayIssueFor(r, loaded[r].id)'
    BY <1>0, <1>1, <1>2, <2>1 DEF Facts, OwnerKnown, MayIssueFor
  <2>5. CASE Goto(r, "issue")
    BY <1>1, <1>2, <1>3, <2>1, <2>2, <2>3, <2>4, <2>5 DEF Goto, OwnerKnown, OutcomeKnown, Results
  <2>6. CASE Answer(r, "failure")
    BY <1>1, <1>2, <1>3, <2>1, <2>2, <2>3, <2>6 DEF Answer, OwnerKnown, OutcomeKnown, Results
  <2> QED
    BY <1>8, <2>5, <2>6 DEF RefreshRevoke
<1>9. CASE LogoutFind(r)
  <2>1. op[r] = "logout" /\ UNCHANGED <<users, refreshTokens, accessTokens, loaded>>
    BY <1>0, <1>9 DEF LogoutFind, Established, tables
  <2>2. \/ pc'[r] = "logout.revoke" /\ out'[r] = None
        \/ pc'[r] = "done" /\ out'[r] = "ok"
    BY <1>0, <1>1, <1>9 DEF LogoutFind, Goto, Answer
  <2> QED
    BY <1>1, <1>3, <1>4, <2>1, <2>2 DEF OwnerKnown, OutcomeKnown, Results
<1>10. CASE LogoutRevoke(r)
  <2>1. /\ op[r] = "logout" /\ arg[r] \in HeldTokens /\ Revoke(arg[r])
        /\ UNCHANGED <<users, accessTokens, loaded>>
    BY <1>0, <1>10 DEF LogoutRevoke, Established
  <2>2. refreshTokens'[r] = None
    BY <1>0, <1>1, <2>1, RevokedRows
  <2>3. pc'[r] = "done" /\ out'[r] \in {"ok", "failure"}
    BY <1>10 DEF LogoutRevoke, Answer
  <2> QED
    BY <1>1, <1>3, <1>4, <2>1, <2>2, <2>3 DEF OwnerKnown, OutcomeKnown, Results
<1>11. CASE AddRole(r)
  <2>1. op[r] = "add_role" /\ UNCHANGED <<refreshTokens, accessTokens, loaded>>
    BY <1>0, <1>11, AddRoleEffect DEF Established
  <2>2. pc'[r] = "done" /\ out'[r] \in {"ok", "failure"}
    BY <1>11, AddRoleEffect DEF Answer
  <2> QED
    BY <1>1, <1>3, <1>4, <2>1, <2>2 DEF OwnerKnown, OutcomeKnown, Results
<1>12. CASE Issue(r)
  <2> DEFINE u == loaded[r].id
  <2>1. /\ pc[r] = "issue" /\ loaded[r] \in DomainUsers
        /\ UNCHANGED <<users, loaded>>
    BY <1>0, <1>12 DEF Issue, Established
  <2>2. /\ refreshTokens'[r] = [user |-> u, expiresAt |-> now + refreshTokenTTL, revoked |-> FALSE]
        /\ pc'[r] = "done" /\ out'[r] \in {"ok", "failure"}
    BY <1>12 DEF Issue, Answer
  <2>3. accessTokens'[r] # None =>
           accessTokens'[r] = [sub |-> u, roles |-> loaded[r].roles, exp |-> Unix(now + accessTokenTTL)]
    BY <1>1, <1>12 DEF Issue
  <2>4. MayIssueFor(r, u)'
    BY <1>0, <1>1, <1>2, <2>1 DEF Facts, OwnerKnown, MayIssueFor, HasCredentials
  <2>5. OwnerKnown(r)'
    BY <2>1, <2>2, <2>4 DEF OwnerKnown
  <2>6. CopiesBehind(r)'
    BY <1>0, <2>1, <2>3 DEF Facts, CopiesBehind
  <2>7. PairDated(r)'
    <3>1. IssuedAt(r)' = now
      BY <1>0, <2>2 DEF IssuedAt
    <3> QED
      BY <1>1, <2>3, <3>1 DEF PairDated
  <2>8. BearerJudged(r)'
    BY <1>3, <2>2 DEF Results
  <2>9. OutcomeKnown(r)'
    <3>1. op[r] = "refresh" => arg[r] \in HeldTokens
      BY <1>0, <2>1 DEF Established
    <3> QED
      BY <1>1, <1>2, <2>2, <3>1 DEF OutcomeKnown, Results
  <2> QED
    BY <2>5, <2>6, <2>7, <2>8, <2>9
<1>13. CASE StatementFails(r)
  <2>1. UNCHANGED <<users, refreshTokens, accessTokens, loaded>>
    BY <1>13 DEF StatementFails, tables
  <2>2. pc'[r] = "done" /\ out'[r] = "failure"
    BY <1>13 DEF StatementFails, Answer
  <2>3. op[r] = "refresh" => arg[r] \in HeldTokens \cup {None}
    BY <1>0 DEF Facts, OutcomeKnown
  <2> QED
    BY <1>1, <1>2, <1>3, <1>4, <2>1, <2>2, <2>3 DEF OwnerKnown, OutcomeKnown, Results
<1> QED
  BY <1>5, <1>6, <1>7, <1>8, <1>9, <1>10, <1>11, <1>12, <1>13 DEF SessionStep

\* The invariant is inductive: one request moves, the facts about the others
\* stand.
LEMMA OwnerStep ==
    ASSUME OwnerInv, [SessionsNext]_serviceVars PROVE OwnerInv'
<1>0. SessionsTypeOK /\ SessionsInv' /\ SessionsTypeOK' /\ Advances /\ Keeps
  BY InvStep, StepAdvances, StepKeeps DEF OwnerInv, SessionsInv
<1>1. AddressesLower'
  BY <1>0, AddressesStep
<1>2. \A t \in Requests : RevokedByUse(t)'
  BY <1>0, RevokedByUseStep
<1>3. ASSUME NEW s \in Requests,
             pc'[s] = pc[s] \/ (pc'[s] = "crashed" /\ pc[s] # "done"),
             UNCHANGED <<op[s], arg[s], out[s], at[s], loaded[s]>>,
             refreshTokens'[s] # None => refreshTokens[s] # None,
             accessTokens'[s] # None => accessTokens[s] # None
      PROVE  Facts(s)'
  BY <1>0, <1>2, <1>3, FactsStand, OutcomeStands DEF Facts
<1>4. ASSUME NEW r \in Requests, SessionArrive(r) PROVE \A s \in Requests : Facts(s)'
  <2>1. Facts(r)'
    BY <1>0, <1>2, <1>4, ArrivalFacts DEF Facts
  <2>2. ASSUME NEW s \in Requests \ {r} PROVE Facts(s)'
    BY <1>0, <1>3, <1>4, ArrivalAlone DEF Alone
  <2> QED
    BY <2>1, <2>2
<1>5. ASSUME NEW r \in Requests, SessionStep(r) PROVE \A s \in Requests : Facts(s)'
  <2>1. Facts(r)'
    BY <1>0, <1>2, <1>5, StatementFacts DEF Facts
  <2>2. ASSUME NEW s \in Requests \ {r} PROVE Facts(s)'
    BY <1>0, <1>3, <1>5, StatementAlone DEF Alone
  <2> QED
    BY <2>1, <2>2
<1>6. ASSUME Crash PROVE \A s \in Requests : Facts(s)'
  <2>1. ASSUME NEW s \in Requests PROVE pc'[s] = pc[s] \/ (pc'[s] = "crashed" /\ pc[s] # "done")
    BY <1>6 DEF Crash, Active, Ended
  <2>2. ASSUME NEW s \in Requests PROVE Facts(s)'
    <3>1. /\ UNCHANGED <<op[s], arg[s], out[s], at[s], loaded[s]>>
          /\ UNCHANGED <<refreshTokens[s], accessTokens[s]>>
      BY <1>6 DEF Crash, tables, request
    <3> QED
      BY <1>3, <2>1, <3>1
  <2> QED
    BY <2>2
<1>7. ASSUME Tick \/ UNCHANGED serviceVars PROVE \A s \in Requests : Facts(s)'
  <2>1. ASSUME NEW s \in Requests PROVE Facts(s)'
    <3>1. /\ UNCHANGED <<pc[s], op[s], arg[s], out[s], at[s], loaded[s]>>
          /\ UNCHANGED <<refreshTokens[s], accessTokens[s]>>
      BY <1>7 DEF Tick, serviceVars, tables, request
    <3> QED
      BY <1>3, <3>1
  <2> QED
    BY <2>1
<1> QED
  BY <1>0, <1>1, <1>4, <1>5, <1>6, <1>7 DEF OwnerInv, SessionsNext, Quiescent

\* It holds initially.
LEMMA OwnerInit == ServiceInit => OwnerInv
<1> SUFFICES ASSUME ServiceInit PROVE OwnerInv
  OBVIOUS
<1>1. SessionsInv
  BY InvInit
<1>2. AddressesLower
  BY DEF ServiceInit, AddressesLower, NewUser
<1>3. ASSUME NEW r \in Requests PROVE Facts(r)
  BY <1>3, NoneAssumption DEF ServiceInit, Facts, OwnerKnown, CopiesBehind, PairDated,
     BearerJudged, RevokedByUse, OutcomeKnown, Results, Routes
<1> QED
  BY <1>1, <1>2, <1>3 DEF OwnerInv

-----------------------------------------------------------------------------
(* Theorems *)

\* A refresh token is stored for the account whose mailbox and password the
\* login was sent, and a rotation stays with the account of the token it
\* replaces (login.go, refresh.go).
THEOREM SessionsBelongToTheirOwner == SessionsSpec => []OwnerAuthenticated
<1>1. OwnerInv => OwnerAuthenticated
  BY DEF OwnerInv, Facts, OwnerKnown, MayIssueFor, HasCredentials, OwnerAuthenticated
<1> QED
  BY <1>1, OwnerInit, OwnerStep, PTL DEF SessionsSpec

\* No access token claims a role that its account does not hold, whatever
\* AddRole statements ran between the SELECT and the signature (login.go,
\* refresh.go, user_repository.go).
THEOREM ClaimsNeverExceedRoles == SessionsSpec => []ClaimsWithinRoles
<1>1. OwnerInv => ClaimsWithinRoles
  BY DEF OwnerInv, Facts, CopiesBehind, Covers, ClaimsWithinRoles
<1> QED
  BY <1>1, OwnerInit, OwnerStep, PTL DEF SessionsSpec

\* A bearer token is honoured until accessTokenTTL after its issue, less at most
\* a second, whatever the length of the second and of the TTL (issuer.go,
\* verifier.go).
THEOREM BearersLiveTheirTime == SessionsSpec => []BearerLifetime
<1>1. ASSUME OwnerInv, NEW r \in Requests, op[r] = "add_role", arg[r].bearer # None
      PROVE  LET limit == IssuedAt(arg[r].bearer) + accessTokenTTL
             IN  IF out[r] = "unauthorized" THEN at[r] + TicksPerSecond > limit
                                            ELSE at[r] < limit
  <2> DEFINE limit == IssuedAt(arg[r].bearer) + accessTokenTTL
  <2>1. /\ arg[r].bearer \in HeldTokens
        /\ out[r] = "unauthorized" <=> accessTokens[arg[r].bearer].exp <= at[r]
    BY <1>1 DEF OwnerInv, Facts, BearerJudged
  <2>2. limit \in Nat /\ accessTokens[arg[r].bearer].exp = Unix(limit)
    BY <1>1, <2>1, ServiceAssumption DEF HeldTokens, OwnerInv, Facts, PairDated
  <2>3. at[r] \in Nat /\ TicksPerSecond \in Nat
    BY <1>1, ServiceAssumption DEF OwnerInv, SessionsInv, SessionsTypeOK, ServiceTypeOK
  <2> HIDE DEF limit
  <2>4. Unix(limit) \in Nat /\ Unix(limit) <= limit /\ limit < Unix(limit) + TicksPerSecond
    BY <2>2, UnixNat, UnixBounds
  <2>5. IF out[r] = "unauthorized" THEN at[r] + TicksPerSecond > limit ELSE at[r] < limit
    BY <2>1, <2>2, <2>3, <2>4
  <2> QED
    BY <2>5 DEF limit
<1>2. OwnerInv => BearerLifetime
  BY <1>1 DEF BearerLifetime
<1> QED
  BY <1>2, OwnerInit, OwnerStep, PTL DEF SessionsSpec

\* Whoever is answered 401 by login did not have the credentials, and still
\* does not (login.go).
THEOREM LoginRefusesForCause == SessionsSpec => []LoginRefusalJustified
<1>1. ASSUME OwnerInv, NEW r \in Requests, Answered(r, "login", 401)
      PROVE  ~ \E u \in UserIDs : HasCredentials(u, r)
  <2>1. op[r] = "login" /\ LoginStatus[out[r]] = 401 /\ pc[r] = "done"
    BY <1>1 DEF Answered, RouteStatus
  <2>2. out[r] \in {"ok", "malformed", "ErrInvalidCredentials", "failure", None}
    BY <1>1, <2>1 DEF OwnerInv, Facts, OutcomeKnown
  <2>3. out[r] # None
    BY <1>1, <2>1 DEF OwnerInv, Facts, OutcomeKnown
  <2>4. out[r] = "ErrInvalidCredentials"
    BY <2>1, <2>2, <2>3 DEF LoginStatus
  <2> QED
    BY <1>1, <2>1, <2>4 DEF OwnerInv, Facts, OutcomeKnown
<1>2. OwnerInv => LoginRefusalJustified
  BY <1>1 DEF LoginRefusalJustified, HasCredentials
<1> QED
  BY <1>2, OwnerInit, OwnerStep, PTL DEF SessionsSpec

\* Refresh answers 401 only for a token never issued, expired, or both presented
\* by another request and revoked: the first use of a live token is not refused,
\* nor a retry of a use that failed before it revoked the token (refresh.go).
THEOREM RefreshRefusesForCause == SessionsSpec => []FirstUseNotRefused
<1>1. ASSUME OwnerInv, NEW r \in Requests, Answered(r, "refresh", 401), arg[r] # None
      PROVE  \/ now >= refreshTokens[arg[r]].expiresAt
             \/ /\ refreshTokens[arg[r]].revoked
                /\ \E q \in Requests \ {r} : op[q] \in {"refresh", "logout"} /\ arg[q] = arg[r]
  <2>1. op[r] = "refresh" /\ RefreshStatus[out[r]] = 401 /\ pc[r] = "done"
    BY <1>1 DEF Answered, RouteStatus
  <2>2. out[r] \in {"ok", "malformed", "ErrRefreshTokenInvalid", "failure", None}
    BY <1>1, <2>1 DEF OwnerInv, Facts, OutcomeKnown
  <2>3. out[r] # None
    BY <1>1, <2>1 DEF OwnerInv, Facts, OutcomeKnown
  <2>4. out[r] = "ErrRefreshTokenInvalid"
    BY <2>1, <2>2, <2>3 DEF RefreshStatus
  <2> QED
    BY <1>1, <2>1, <2>4 DEF OwnerInv, Facts, OutcomeKnown, Presented
<1>2. OwnerInv => FirstUseNotRefused
  BY <1>1 DEF FirstUseNotRefused
<1> QED
  BY <1>2, OwnerInit, OwnerStep, PTL DEF SessionsSpec

-----------------------------------------------------------------------------
(* Granted roles *)

\* The role stands somewhere in the list.
Lists(roles, role) == \E i \in DOMAIN roles : roles[i] = role

\* A role that request q was told it has added is in the row of the account.
GrantStored(q) ==
    op[q] = "add_role" /\ out[q] = "ok" =>
        /\ arg[q] \in [bearer : HeldTokens, role : {RoleSeller}]
        /\ Lists(users[accessTokens[arg[q].bearer].sub].roles, RoleSeller)

\* What was granted before request r arrived is in the copy of the user that it
\* signs for, and in the claims it signed.
GrantSeen(r) ==
    \A q \in before[r], u \in UserIDs : Granted(q, u) =>
        /\ pc[r] \in {"refresh.revoke", "issue"} /\ loaded[r].id = u =>
              Lists(loaded[r].roles, arg[q].role)
        /\ accessTokens[r] # None /\ accessTokens[r].sub = u =>
              Lists(accessTokens[r].roles, arg[q].role)

GrantsInv ==
    /\ OwnerInv
    /\ \A r \in Requests : GrantStored(r) /\ GrantSeen(r)

\* A list that begins with another has its roles.
LEMMA ListsMore ==
    ASSUME NEW a, NEW b, NEW role, Covers(a, b), Lists(b, role) PROVE Lists(a, role)
  BY DEF Covers, Lists

\* The UPDATE of AddRole leaves the role in the list.
LEMMA SellerListed ==
    ASSUME NEW roles \in RoleLists
    PROVE  Lists(IF \E i \in DOMAIN roles : roles[i] = RoleSeller
                 THEN roles ELSE Append(roles, RoleSeller), RoleSeller)
<1>1. CASE roles = <<RoleCustomer>>
  <2>1. Append(roles, RoleSeller) = <<RoleCustomer, RoleSeller>>
    BY <1>1, AppendToOne
  <2>2. Lists(<<RoleCustomer, RoleSeller>>, RoleSeller)
    BY DEF Lists
  <2> QED
    BY <2>1, <2>2 DEF Lists
<1>2. CASE roles = <<RoleCustomer, RoleSeller>>
  <2>1. \E i \in DOMAIN roles : roles[i] = RoleSeller
    BY <1>2
  <2> QED
    BY <2>1 DEF Lists
<1> QED
  BY <1>1, <1>2 DEF RoleLists

\* The addition of a role that was answered was stored.
LEMMA AddRoleStores ==
    ASSUME GrantsInv, SessionsTypeOK', Advances, Keeps, NEW r \in Requests, AddRole(r)
    PROVE  GrantStored(r)'
<1> DEFINE u == accessTokens[arg[r].bearer].sub
           roles == users[u].roles
           after == IF \E i \in DOMAIN roles : roles[i] = RoleSeller
                    THEN roles ELSE Append(roles, RoleSeller)
<1>0. SessionsTypeOK /\ ServiceTypeOK
  BY DEF GrantsInv, OwnerInv, SessionsInv, SessionsTypeOK
<1>1. arg[r] \in [bearer : HeldTokens, role : {RoleSeller}]
  BY <1>0 DEF AddRole, SessionsTypeOK, Established
<1>2. u \in UserIDs /\ users[u] \in UserRows
  BY <1>0, <1>1 DEF HeldTokens, SessionsTypeOK, ServiceTypeOK, Established, Claims
<1>3. UNCHANGED <<accessTokens, arg>> /\ HeldTokens' = HeldTokens
  BY AddRoleEffect DEF request, HeldTokens
<1>4. users'[u].roles = after
  BY <1>0, <1>1, <1>2 DEF AddRole, ServiceTypeOK, UserRows
<1>5. roles \in RoleLists
  BY <1>2 DEF UserRows
<1> HIDE DEF u
<1>6. Lists(after, RoleSeller)
  BY <1>5, SellerListed
<1> HIDE DEF after
<1> QED
  BY <1>1, <1>3, <1>4, <1>6 DEF GrantStored, u

\* What was granted stays so while the request does not move.
LEMMA GrantStoredStands ==
    ASSUME GrantsInv, Advances, Keeps, NEW q \in Requests,
           op'[q] = "add_role" /\ out'[q] = "ok" => UNCHANGED <<op[q], arg[q], out[q]>>
    PROVE  GrantStored(q)'
<1> SUFFICES ASSUME op'[q] = "add_role", out'[q] = "ok" PROVE GrantStored(q)'
  BY DEF GrantStored
<1> DEFINE b == arg[q].bearer
<1>1. /\ arg'[q] = arg[q] /\ arg[q] \in [bearer : HeldTokens, role : {RoleSeller}]
      /\ Lists(users[accessTokens[b].sub].roles, RoleSeller)
  BY DEF GrantsInv, GrantStored
<1>2. /\ b \in HeldTokens /\ b \in HeldTokens' /\ b \in Requests
      /\ accessTokens'[b] = accessTokens[b] /\ accessTokens[b].sub \in UserIDs
      /\ users[accessTokens[b].sub] # None
  BY <1>1 DEF Advances, Keeps, HeldTokens, GrantsInv, OwnerInv, SessionsInv, SessionsTypeOK,
     ServiceTypeOK, Established, Claims
<1>3. Covers(users'[accessTokens[b].sub].roles, users[accessTokens[b].sub].roles)
  BY <1>2 DEF Keeps
<1>4. Lists(users'[accessTokens[b].sub].roles, RoleSeller)
  BY <1>1, <1>3, ListsMore
<1> QED
  BY <1>1, <1>2, <1>4 DEF GrantStored

\* A grant that request r was told of before it arrived is the same after the
\* step, and its role is in the row.
LEMMA GrantsBefore ==
    ASSUME GrantsInv, Advances, Keeps, NEW r \in Requests, before'[r] = before[r],
           NEW q \in before'[r], NEW u \in UserIDs, Granted(q, u)'
    PROVE  /\ Granted(q, u) /\ q \in before[r] /\ arg'[q] = arg[q]
           /\ arg[q].role = RoleSeller /\ Lists(users[u].roles, RoleSeller)
<1>1. q \in Requests /\ q \in Ended
  BY DEF GrantsInv, OwnerInv, SessionsInv, Timeline, SessionsTypeOK, ServiceTypeOK
<1>2. UNCHANGED <<op[q], arg[q], out[q]>>
  BY <1>1 DEF Advances
<1>3. /\ arg[q] \in [bearer : HeldTokens, role : {RoleSeller}]
      /\ Lists(users[accessTokens[arg[q].bearer].sub].roles, RoleSeller)
  BY <1>1, <1>2 DEF GrantsInv, GrantStored, Granted
<1>4. accessTokens'[arg[q].bearer] = accessTokens[arg[q].bearer]
  BY <1>3 DEF Keeps, HeldTokens
<1> QED
  BY <1>2, <1>3, <1>4 DEF Granted

\* What a request has seen of grants it has seen for good.
LEMMA GrantSeenStands ==
    ASSUME GrantsInv, Advances, Keeps, NEW s \in Requests,
           UNCHANGED <<before[s], loaded[s]>>,
           accessTokens'[s] # None => accessTokens[s] # None,
           pc'[s] \in {"refresh.revoke", "issue"} => pc[s] \in {"refresh.revoke", "issue"}
    PROVE  GrantSeen(s)'
<1>1. accessTokens'[s] # None => accessTokens'[s] = accessTokens[s]
  BY DEF Keeps
<1>2. ASSUME NEW q \in before'[s], NEW u \in UserIDs, Granted(q, u)'
      PROVE  /\ pc'[s] \in {"refresh.revoke", "issue"} /\ loaded'[s].id = u =>
                   Lists(loaded'[s].roles, arg'[q].role)
             /\ accessTokens'[s] # None /\ accessTokens'[s].sub = u =>
                   Lists(accessTokens'[s].roles, arg'[q].role)
  <2>1. Granted(q, u) /\ q \in before[s] /\ arg'[q] = arg[q]
    BY <1>2, GrantsBefore
  <2> QED
    BY <1>1, <2>1 DEF GrantsInv, GrantSeen
<1> QED
  BY <1>2 DEF GrantSeen, Lists

\* A user read from the table has every role granted so far.
LEMMA GrantSeenRead ==
    ASSUME GrantsInv, Advances, Keeps, NEW r \in Requests, NEW u \in UserIDs,
           before'[r] = before[r], accessTokens'[r] = None,
           loaded'[r] = [id |-> u, roles |-> users[u].roles]
    PROVE  GrantSeen(r)'
<1>1. ASSUME NEW q \in before'[r], NEW v \in UserIDs, Granted(q, v)', loaded'[r].id = v
      PROVE  Lists(loaded'[r].roles, arg'[q].role)
  <2>1. Lists(users[v].roles, RoleSeller) /\ arg'[q].role = RoleSeller
    BY <1>1, GrantsBefore
  <2> QED
    BY <1>1, <2>1
<1> QED
  BY <1>1 DEF GrantSeen, Lists

\* The request that takes a step has seen what was granted before it arrived.
LEMMA GrantSeenStep ==
    ASSUME GrantsInv, SessionsTypeOK', Advances, Keeps, NEW r \in Requests, SessionStep(r)
    PROVE  GrantSeen(r)'
<1>0. SessionsTypeOK /\ ServiceTypeOK /\ Established(r)
  BY DEF GrantsInv, OwnerInv, SessionsInv, SessionsTypeOK
<1>1. /\ pc[r] \notin {"idle", "done", "crashed"} /\ UNCHANGED <<now, op, arg, before, at>>
      /\ accessTokens[r] = None
  BY <1>0, StatementAlone DEF request, Established
<1> USE DEF ServiceTypeOK, tables, request, Goto, Answer
<1>2. CASE LoginFind(r)
  <2>1. CASE Answer(r, "ErrInvalidCredentials") /\ UNCHANGED loaded
    BY <1>0, <1>1, <1>2, <2>1, GrantSeenStands DEF LoginFind
  <2>2. CASE \E u \in FindByEmail(normalizeEmail(arg[r].email)) :
                loaded' = [loaded EXCEPT ![r] = toDomainUser(u)]
    <3>1. PICK u \in UserIDs : loaded'[r] = [id |-> u, roles |-> users[u].roles]
      BY <1>0, <2>2 DEF FindByEmail, toDomainUser
    <3>2. accessTokens'[r] = None
      BY <1>1, <1>2 DEF LoginFind
    <3> QED
      BY <1>1, <3>1, <3>2, GrantSeenRead
  <2> QED
    BY <1>2, <2>1, <2>2 DEF LoginFind
<1>3. CASE RefreshLoad(r)
  <2>1. arg[r] \in HeldTokens
    BY <1>0, <1>3 DEF RefreshLoad, Established
  <2>2. refreshTokens[arg[r]].user \in UserIDs
    BY <1>0, <2>1 DEF HeldTokens, SessionsTypeOK, Established, TokenRows
  <2>3. /\ loaded'[r] = [id |-> refreshTokens[arg[r]].user,
                         roles |-> users[refreshTokens[arg[r]].user].roles]
        /\ accessTokens'[r] = None
    BY <1>0, <1>1, <1>3 DEF RefreshLoad, toDomainUser
  <2> QED
    BY <1>1, <2>2, <2>3, GrantSeenRead
<1>4. CASE RefreshFind(r) \/ RefreshRevoke(r) \/ LogoutFind(r) \/ LogoutRevoke(r) \/ StatementFails(r)
  <2>1. /\ UNCHANGED <<loaded, accessTokens>>
        /\ pc'[r] \in {"refresh.revoke", "issue"} => pc[r] \in {"refresh.revoke", "issue"}
    BY <1>0, <1>4 DEF RefreshFind, RefreshRevoke, LogoutFind, LogoutRevoke, StatementFails
  <2> QED
    BY <1>1, <2>1, GrantSeenStands
<1>5. CASE AddRole(r)
  <2>1. UNCHANGED <<loaded, accessTokens>> /\ pc'[r] = "done"
    BY <1>0, <1>5, AddRoleEffect
  <2> QED
    BY <1>1, <2>1, GrantSeenStands
<1>6. CASE Issue(r)
  <2>1. /\ pc[r] = "issue" /\ pc'[r] = "done" /\ UNCHANGED loaded
        /\ accessTokens'[r] # None => /\ accessTokens'[r].sub = loaded[r].id
                                      /\ accessTokens'[r].roles = loaded[r].roles
    BY <1>0, <1>1, <1>6 DEF Issue
  <2>2. ASSUME NEW q \in before'[r], NEW u \in UserIDs, Granted(q, u)',
               accessTokens'[r] # None, accessTokens'[r].sub = u
        PROVE  Lists(accessTokens'[r].roles, arg'[q].role)
    <3>1. Granted(q, u) /\ q \in before[r] /\ arg'[q] = arg[q]
      BY <1>1, <2>2, GrantsBefore
    <3> QED
      BY <2>1, <2>2, <3>1 DEF GrantsInv, GrantSeen
  <2> QED
    BY <2>1, <2>2 DEF GrantSeen, Lists
<1> QED
  BY <1>2, <1>3, <1>4, <1>5, <1>6 DEF SessionStep

\* An arrival adds no role and reaches no statement that has a user in memory.
LEMMA ArrivalGrantsNothing ==
    ASSUME SessionsTypeOK, NEW r \in Requests, SessionArrive(r), out[r] # "ok"
    PROVE  /\ ~(op'[r] = "add_role" /\ out'[r] = "ok")
           /\ pc'[r] \notin {"refresh.revoke", "issue"}
           /\ \A s \in Requests \ {r} : before'[s] = before[s]
<1> USE DEF SessionsTypeOK, ServiceTypeOK, Arrive, Goto, Answer
<1>1. CASE ArriveMalformed(r)
  BY <1>1 DEF ArriveMalformed
<1>2. CASE ArriveLogin(r)
  BY <1>2 DEF ArriveLogin
<1>3. CASE ArriveRefresh(r)
  BY <1>3 DEF ArriveRefresh
<1>4. CASE ArriveLogout(r)
  BY <1>4 DEF ArriveLogout
<1>5. CASE ArriveAddRole(r)
  BY <1>5 DEF ArriveAddRole
<1> QED
  BY <1>1, <1>2, <1>3, <1>4, <1>5 DEF SessionArrive

\* The invariant is inductive.
LEMMA GrantsStep ==
    ASSUME GrantsInv, [SessionsNext]_serviceVars PROVE GrantsInv'
<1>0. SessionsTypeOK /\ OwnerInv' /\ SessionsTypeOK' /\ Advances /\ Keeps
  BY OwnerStep, StepAdvances, StepKeeps DEF GrantsInv, OwnerInv, SessionsInv
<1>1. ASSUME NEW s \in Requests,
             UNCHANGED <<op[s], arg[s], out[s], before[s], loaded[s]>>,
             pc'[s] = pc[s] \/ pc'[s] = "crashed",
             accessTokens'[s] # None => accessTokens[s] # None
      PROVE  (GrantStored(s) /\ GrantSeen(s))'
  BY <1>0, <1>1, GrantStoredStands, GrantSeenStands
<1>2. ASSUME NEW r \in Requests, SessionArrive(r)
      PROVE  \A s \in Requests : (GrantStored(s) /\ GrantSeen(s))'
  <2>0. out[r] # "ok"
    BY <1>0, <1>2, ArrivalAlone, NoneAssumption DEF GrantsInv, OwnerInv, Facts, OutcomeKnown, Results
  <2>1. /\ Alone(r) /\ UNCHANGED <<accessTokens, loaded>> /\ accessTokens[r] = None
        /\ \A s \in Requests \ {r} : before'[s] = before[s]
    BY <1>0, <1>2, <2>0, ArrivalAlone, ArrivalGrantsNothing DEF tables, SessionsTypeOK, Established
  <2>2. ~(op'[r] = "add_role" /\ out'[r] = "ok") /\ pc'[r] \notin {"refresh.revoke", "issue"}
    BY <1>0, <1>2, <2>0, ArrivalGrantsNothing
  <2>3. (GrantStored(r) /\ GrantSeen(r))'
    BY <2>1, <2>2 DEF GrantStored, GrantSeen
  <2>4. \A s \in Requests \ {r} : (GrantStored(s) /\ GrantSeen(s))'
    BY <1>1, <2>1 DEF Alone
  <2> QED
    BY <2>3, <2>4
<1>3. ASSUME NEW r \in Requests, SessionStep(r)
      PROVE  \A s \in Requests : (GrantStored(s) /\ GrantSeen(s))'
  <2>1. Alone(r) /\ UNCHANGED request
    BY <1>0, <1>3, StatementAlone
  <2>2. GrantSeen(r)'
    BY <1>0, <1>3, GrantSeenStep
  <2>3. GrantStored(r)'
    <3>1. CASE AddRole(r)
      BY <1>0, <3>1, AddRoleStores
    <3>2. CASE op[r] # "add_role"
      BY <2>1, <3>2 DEF GrantStored, request
    <3>3. CASE op[r] = "add_role" /\ ~AddRole(r)
      <4>1. StatementFails(r)
        BY <1>0, <1>3, <3>3 DEF SessionStep, LoginFind, RefreshFind, RefreshLoad, RefreshRevoke,
           LogoutFind, LogoutRevoke, Issue, SessionsTypeOK, Established
      <4>2. out'[r] = "failure"
        BY <1>0, <4>1 DEF StatementFails, Answer, SessionsTypeOK, ServiceTypeOK
      <4> QED
        BY <4>2 DEF GrantStored
    <3> QED
      BY <3>1, <3>2, <3>3
  <2>4. \A s \in Requests \ {r} : (GrantStored(s) /\ GrantSeen(s))'
    BY <1>1, <2>1 DEF Alone, request
  <2> QED
    BY <2>2, <2>3, <2>4
<1>4. ASSUME Crash \/ Tick \/ UNCHANGED serviceVars
      PROVE  \A s \in Requests : (GrantStored(s) /\ GrantSeen(s))'
  <2>1. ASSUME NEW s \in Requests
        PROVE  /\ UNCHANGED <<op[s], arg[s], out[s], before[s], loaded[s], accessTokens[s]>>
               /\ pc'[s] = pc[s] \/ pc'[s] = "crashed"
    BY <1>4 DEF Crash, Tick, serviceVars, tables, request
  <2> QED
    BY <1>1, <2>1
<1> QED
  BY <1>0, <1>2, <1>3, <1>4 DEF GrantsInv, SessionsNext, Quiescent

\* A token claims every role whose addition had been answered when its request
\* arrived: the user is read again by every login and every refresh, and no
\* UPDATE drops a role (refresh.go, user_repository.go).
THEOREM GrantedRolesAreClaimed == SessionsSpec => []GrantedRolesClaimed
<1>1. ServiceInit => GrantsInv
  <2> SUFFICES ASSUME ServiceInit PROVE GrantsInv
    OBVIOUS
  <2>1. ASSUME NEW r \in Requests PROVE GrantStored(r) /\ GrantSeen(r)
    BY NoneAssumption DEF ServiceInit, GrantStored, GrantSeen, Routes
  <2> QED
    BY <2>1, OwnerInit DEF GrantsInv
<1>2. ASSUME GrantsInv PROVE GrantedRolesClaimed
  <2>1. ASSUME NEW r \in Requests, accessTokens[r] # None PROVE accessTokens[r].sub \in UserIDs
    BY <1>2, <2>1 DEF GrantsInv, OwnerInv, SessionsInv, SessionsTypeOK, ServiceTypeOK, Claims
  <2> QED
    BY <1>2, <2>1 DEF GrantsInv, GrantSeen, GrantedRolesClaimed, Lists
<1> QED
  BY <1>1, <1>2, GrantsStep, PTL DEF SessionsSpec
=============================================================================
