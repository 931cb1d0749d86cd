------------------------------ MODULE Sessions ------------------------------
(***************************************************************************)
(* The life of a session: POST /auth/login opens it with a token pair,     *)
(* POST /auth/refresh replaces the refresh token by a new one, POST        *)
(* /auth/logout revokes it, and POST /users/me/roles spends the access     *)
(* token.                                                                  *)
(***************************************************************************)
EXTENDS Service

SessionOps == {"login", "refresh", "logout", "add_role"}

\* The bodies of the four routes, the bearer token of add_role included; None
\* is a body that does not decode, and a token that was never issued.
SessionBodies ==
    [email : Emails, password : Secrets]
        \cup [bearer : Requests \cup {None}, role : {RoleSeller, RoleCustomer, None}]
        \cup Requests \cup {None}

\* The refresh tokens clients hold: those of the pairs they were answered.
HeldTokens == {t \in Requests : accessTokens[t] # None}

-----------------------------------------------------------------------------
(* Login *)

ArriveLogin(r) ==
    /\ \E e \in Typed, p \in Secrets :
           Arrive(r, "login", [email |-> e, password |-> p])
    /\ Goto(r, "login.find")
    /\ UNCHANGED <<now, tables, loaded>>

\* Login.Handle: an unknown address, an account without password and a wrong
\* password get the same answer.
LoginFind(r) ==
    LET found == {u \in FindByEmail(normalizeEmail(arg[r].email)) :
                     /\ users[u].passwordHash # None
                     /\ Matches(users[u].passwordHash, arg[r].password)}
    IN  /\ pc[r] = "login.find"
        /\ \/ \E u \in found :
                 /\ loaded' = [loaded EXCEPT ![r] = toDomainUser(u)]
                 /\ Goto(r, "issue")
           \/ /\ found = {}
              /\ Answer(r, "ErrInvalidCredentials")
              /\ UNCHANGED loaded
        /\ UNCHANGED <<now, tables, request>>

-----------------------------------------------------------------------------
(* Refresh *)

\* The client presents a token it holds, perhaps once more, or one that was
\* never issued (None).
ArriveRefresh(r) ==
    /\ \E t \in HeldTokens \cup {None} : Arrive(r, "refresh", t)
    /\ Goto(r, "refresh.find")
    /\ UNCHANGED <<now, tables, loaded>>

RefreshFind(r) ==
    /\ pc[r] = "refresh.find"
    /\ \/ /\ arg[r] # None
          /\ IsValid(refreshTokens[arg[r]])
          /\ Goto(r, "refresh.load")
       \/ /\ arg[r] # None => ~IsValid(refreshTokens[arg[r]])
          /\ Answer(r, "ErrRefreshTokenInvalid")
    /\ UNCHANGED <<now, tables, request, loaded>>

\* Mutant: the roles are those of the pair that is replaced.
RefreshLoad_FromClaims(r) ==
    /\ pc[r] = "refresh.load"
    /\ loaded' = [loaded EXCEPT ![r] =
           [id |-> refreshTokens[arg[r]].user, roles |-> accessTokens[arg[r]].roles]]
    /\ Goto(r, "refresh.revoke")
    /\ UNCHANGED <<now, tables, request>>

\* The owner of a stored token is always found: the foreign key of
\* refresh_tokens, and no statement deletes a user.
RefreshLoad(r) ==
    /\ pc[r] = "refresh.load"
    /\ loaded' = [loaded EXCEPT ![r] = toDomainUser(refreshTokens[arg[r]].user)]
    /\ Goto(r, "refresh.revoke")
    /\ UNCHANGED <<now, tables, request>>

\* Mutant: the presented token is not revoked.
RefreshRevoke_Forgotten(r) ==
    /\ pc[r] = "refresh.revoke"
    /\ Goto(r, "issue")
    /\ UNCHANGED <<now, tables, request, loaded>>

\* Mutant: the presented token is deleted.
RefreshRevoke_Deletes(r) ==
    /\ pc[r] = "refresh.revoke"
    /\ refreshTokens' = [refreshTokens EXCEPT ![arg[r]] = None]
    /\ Goto(r, "issue")
    /\ UNCHANGED <<now, users, accessTokens, request, loaded>>

\* The token was checked two statements ago; the UPDATE does not look at
\* revoked_at again. It may commit and its acknowledgement be lost.
RefreshRevoke(r) ==
    /\ pc[r] = "refresh.revoke"
    /\ Revoke(arg[r])
    /\ Goto(r, "issue") \/ Answer(r, "failure")
    /\ UNCHANGED <<now, users, accessTokens, request, loaded>>

-----------------------------------------------------------------------------
(* Logout *)

ArriveLogout(r) ==
    /\ \E t \in HeldTokens \cup {None} : Arrive(r, "logout", t)
    /\ Goto(r, "logout.find")
    /\ UNCHANGED <<now, tables, loaded>>

\* An unknown token is no error; an expired or revoked one is revoked again.
LogoutFind(r) ==
    /\ pc[r] = "logout.find"
    /\ \/ arg[r] # None /\ Goto(r, "logout.revoke")
       \/ arg[r] = None /\ Answer(r, "ok")
    /\ UNCHANGED <<now, tables, request, loaded>>

LogoutRevoke(r) ==
    /\ pc[r] = "logout.revoke"
    /\ Revoke(arg[r])
    /\ Answer(r, "ok") \/ Answer(r, "failure")
    /\ UNCHANGED <<now, users, accessTokens, request, loaded>>

-----------------------------------------------------------------------------
(* AddRole *)

\* Mutant: the instant of expiry still counts.
VerifySubject_Inclusive(bearer) == now <= accessTokens[bearer].exp

\* VerifySubject: the signature is the issuer's own and the token has not
\* expired; the sub claim is not looked up.
VerifySubject(bearer) == now < accessTokens[bearer].exp

\* RequireAuth: the header carries a bearer token, and it verifies. None is no
\* header, or one with something that the service did not sign.
RequireAuth(bearer) == bearer # None /\ VerifySubject(bearer)

\* RequireAuth, then the body (None: it does not decode), then the role.
ArriveAddRole(r) ==
    /\ \E bearer \in HeldTokens \cup {None}, role \in {RoleSeller, RoleCustomer, None} :
           /\ Arrive(r, "add_role", [bearer |-> bearer, role |-> role])
           /\ \/ ~RequireAuth(bearer) /\ Answer(r, "unauthorized")
              \/ RequireAuth(bearer) /\ role = None /\ Answer(r, "malformed")
              \/ RequireAuth(bearer) /\ role = RoleCustomer /\ Answer(r, "ErrInvalidRole")
              \/ RequireAuth(bearer) /\ role = RoleSeller /\ Goto(r, "roles.update")
    /\ UNCHANGED <<now, tables, loaded>>

\* Mutant: array_append without the CASE.
AddRole_Appends(r) ==
    /\ pc[r] = "roles.update"
    /\ users' = [users EXCEPT ![accessTokens[arg[r].bearer].sub].roles = Append(@, arg[r].role)]
    /\ Answer(r, "ok")
    /\ UNCHANGED <<now, refreshTokens, accessTokens, request, loaded>>

\* Mutant: the role replaces those the account has.
AddRole_Overwrites(r) ==
    /\ pc[r] = "roles.update"
    /\ users' = [users EXCEPT ![accessTokens[arg[r].bearer].sub].roles = <<arg[r].role>>]
    /\ Answer(r, "ok")
    /\ UNCHANGED <<now, refreshTokens, accessTokens, request, loaded>>

\* UPDATE users SET roles = CASE WHEN ? = ANY(roles) THEN roles ELSE
\* array_append(roles, ?) END WHERE id = ?. The row is there: no statement
\* deletes a user.
AddRole(r) ==
    LET u     == accessTokens[arg[r].bearer].sub
        roles == users[u].roles
        held  == \E i \in DOMAIN roles : roles[i] = arg[r].role
    IN  /\ pc[r] = "roles.update"
        /\ users' = [users EXCEPT ![u].roles = IF held THEN @ ELSE Append(@, arg[r].role)]
        /\ Answer(r, "ok") \/ Answer(r, "failure")
        /\ UNCHANGED <<now, refreshTokens, accessTokens, request, loaded>>

-----------------------------------------------------------------------------
(* The handlers' answers *)

LoginStatus ==
    [ok |-> 200, malformed |-> 400, ErrInvalidCredentials |-> 401, failure |-> 500]

\* Mutant: every error of the use case is answered 401.
RefreshStatus_AlwaysInvalid ==
    [ok |-> 200, malformed |-> 400, ErrRefreshTokenInvalid |-> 401, failure |-> 401]

RefreshStatus ==
    [ok |-> 200, malformed |-> 400, ErrRefreshTokenInvalid |-> 401, failure |-> 500]

\* The error of the use case is only logged.
LogoutStatus ==
    [ok |-> 204, malformed |-> 204, failure |-> 204]

AddRoleStatus ==
    [ok |-> 200, malformed |-> 400, unauthorized |-> 401, ErrInvalidRole |-> 400,
     failure |-> 500]

RouteStatus == [login |-> LoginStatus, refresh |-> RefreshStatus,
                logout |-> LogoutStatus, add_role |-> AddRoleStatus]

\* Request r went to route and was answered with this status code.
Answered(r, route, status) ==
    /\ pc[r] = "done"
    /\ op[r] = route
    /\ status = RouteStatus[route][out[r]]

-----------------------------------------------------------------------------
(* Specification *)

SessionArrive(r) ==
    \/ ArriveMalformed(r)
    \/ ArriveLogin(r)
    \/ ArriveRefresh(r)
    \/ ArriveLogout(r)
    \/ ArriveAddRole(r)

SessionStep(r) ==
    \/ LoginFind(r)
    \/ RefreshFind(r)
    \/ RefreshLoad(r)
    \/ RefreshRevoke(r)
    \/ LogoutFind(r)
    \/ LogoutRevoke(r)
    \/ AddRole(r)
    \/ Issue(r)
    \/ StatementFails(r)

SessionsNext ==
    \/ \E r \in Requests : SessionArrive(r) \/ SessionStep(r)
    \/ Crash
    \/ Tick
    \/ Quiescent

SessionsSpec == ServiceInit /\ [][SessionsNext]_serviceVars

-----------------------------------------------------------------------------
(* Properties *)

\* What request r has established when it reaches each statement.
Established(r) ==
    /\ refreshTokens[r] # None =>
          /\ pc[r] = "done"
          /\ op[r] \in {"login", "refresh"}
          /\ users[refreshTokens[r].user] # None
    /\ accessTokens[r] # None =>
          refreshTokens[r] # None /\ users[accessTokens[r].sub] # None
    /\ loaded[r] # None => users[loaded[r].id] # None
    /\ pc[r] = "login.find" =>
          op[r] = "login" /\ arg[r] \in [email : Emails, password : Secrets]
    /\ pc[r] = "refresh.find" =>
          op[r] = "refresh" /\ (arg[r] = None \/ arg[r] \in HeldTokens)
    /\ pc[r] \in {"refresh.load", "refresh.revoke"} =>
          op[r] = "refresh" /\ arg[r] \in HeldTokens
    /\ pc[r] = "logout.find" =>
          op[r] = "logout" /\ (arg[r] = None \/ arg[r] \in HeldTokens)
    /\ pc[r] = "logout.revoke" => op[r] = "logout" /\ arg[r] \in HeldTokens
    /\ pc[r] = "roles.update" =>
          op[r] = "add_role" /\ arg[r] \in [bearer : HeldTokens, role : {RoleSeller}]
    /\ pc[r] \in {"refresh.revoke", "issue"} => loaded[r] # None
    /\ pc[r] = "issue" => op[r] = "login" \/ (op[r] = "refresh" /\ arg[r] \in HeldTokens)

\* Types, and no statement runs before what it needs is there: the row it
\* touches exists, the user it signs for is in memory, and its own token row is
\* not stored yet. However many AddRole statements race, roles is CUSTOMER, then
\* SELLER at most once (user_repository.go, the CASE of the UPDATE).
SessionsTypeOK ==
    /\ ServiceTypeOK
    /\ arg \in [Requests -> SessionBodies]
    /\ \A r \in Requests : Established(r)

\* Request r presented token t to the refresh route and inserted a successor.
Rotated(r, t) == op[r] = "refresh" /\ arg[r] = t /\ refreshTokens[r] # None

\* Request r used token t up: it rotated it, or it logged it out.
Spent(r, t) == Rotated(r, t) \/ (op[r] = "logout" /\ arg[r] = t /\ out[r] = "ok")

\* refresh.go revokes before it issues: at no moment, whatever fails or crashes
\* between its statements, do a refresh token and its successor both work.
RotationRevokesPresented ==
    \A r, t \in Requests : Rotated(r, t) => refreshTokens[t].revoked

\* A token is rotated only by a request that arrived before its expiry, and
\* never once a rotation or a logout of it had ended: replay in sequence is
\* refused, across crashes too (refresh.go, IsValid and Revoke).
RotatesOnlyLive ==
    \A s, t \in Requests :
        Rotated(s, t) => /\ at[s] < refreshTokens[t].expiresAt
                         /\ \A r \in before[s] : ~Spent(r, t)

\* The refresh_tokens table as a ledger: what each token is good for and which
\* token it replaced.
ledgerStatus ==
    [t \in Requests |-> IF refreshTokens[t] = None THEN "absent"
                        ELSE IF refreshTokens[t].revoked THEN "revoked" ELSE "live"]

ledgerParent ==
    [t \in Requests |-> IF refreshTokens[t] # None /\ op[t] = "refresh" THEN arg[t] ELSE None]

Ledger == INSTANCE TokenLedger WITH
    Tokens <- Requests, status <- ledgerStatus, parent <- ledgerParent

\* The rows of refresh_tokens behave as the ledger of TokenLedger: no statement
\* and no interleaving recreates a token, makes a revoked one work again, or
\* lets a successor appear while the token it replaces still works.
ImplementsTokenLedger == Ledger!Spec

\* The session belongs to whom it should: a login stores a token of the account
\* of that mailbox with that password, a rotation one of the same account
\* (login.go, refresh.go).
OwnerAuthenticated ==
    \A r \in Requests : refreshTokens[r] # None =>
        /\ op[r] = "login" =>
              LET u == users[refreshTokens[r].user]
              IN  u.email.box = arg[r].email.box /\ u.passwordHash = arg[r].password
        /\ op[r] = "refresh" => refreshTokens[r].user = refreshTokens[arg[r]].user

\* Login answers 401 only to somebody without the credentials: never because of
\* the case of the address, and never for a database error (login.go).
LoginRefusalJustified ==
    \A r \in Requests : Answered(r, "login", 401) =>
        ~ \E u \in UserIDs : /\ users[u] # None
                             /\ users[u].email.box = arg[r].email.box
                             /\ users[u].passwordHash = arg[r].password

\* Refresh answers 401, which makes the client drop its session, only for a
\* token never issued, an expired one, or one that another request has presented
\* and in fact revoked. A retry is never refused on account of a first try that
\* failed or crashed before its revocation, nor for an error of the database
\* (refresh.go).
FirstUseNotRefused ==
    \A r \in Requests : Answered(r, "refresh", 401) /\ arg[r] # None =>
        \/ now >= refreshTokens[arg[r]].expiresAt
        \/ /\ refreshTokens[arg[r]].revoked
           /\ \E q \in Requests \ {r} : op[q] \in {"refresh", "logout"} /\ arg[q] = arg[r]

\* A token signed for a copy of the user read earlier may lack a role granted
\* since, never claim one the account does not hold (login.go, refresh.go, the
\* atomic UPDATE of user_repository.go).
ClaimsWithinRoles ==
    \A r \in Requests : accessTokens[r] # None =>
        LET claimed == accessTokens[r].roles
            held    == users[accessTokens[r].sub].roles
        IN  \A i \in DOMAIN claimed : i \in DOMAIN held /\ held[i] = claimed[i]

\* Request q was answered that it has added its role, to account u.
Granted(q, u) ==
    op[q] = "add_role" /\ out[q] = "ok" /\ accessTokens[arg[q].bearer].sub = u

\* The role that a copy lacks is one granted while the request was in progress:
\* a token claims every role whose addition had been answered when its request
\* arrived, so that a refresh after POST /users/me/roles is enough to use the new
\* role (refresh.go, which reads the user again; README.md).
GrantedRolesClaimed ==
    \A r \in Requests : accessTokens[r] # None =>
        \A q \in before[r] : Granted(q, accessTokens[r].sub) =>
            \E i \in DOMAIN accessTokens[r].roles : accessTokens[r].roles[i] = arg[q].role

\* When request t was issued its pair: both expiries count from there.
IssuedAt(t) == refreshTokens[t].expiresAt - refreshTokenTTL

\* The bearer token is honoured for accessTokenTTL, less at most the second
\* that the whole-second exp claim drops, and never longer (issuer.go,
\* verifier.go).
BearerLifetime ==
    \A r \in Requests : op[r] = "add_role" /\ arg[r].bearer # None =>
        LET limit == IssuedAt(arg[r].bearer) + accessTokenTTL
        IN  IF out[r] = "unauthorized" THEN at[r] + TicksPerSecond > limit
                                       ELSE at[r] < limit

-----------------------------------------------------------------------------
(* What the repository says and the code does not do *)

\* "the presented token is revoked and a brand-new pair is issued, mitigating
\* refresh-token replay" (refresh.go): one token yields one new pair.
SingleUse ==
    \A r, s, t \in Requests : Rotated(r, t) /\ Rotated(s, t) => r = s

\* "{refresh_token} -> revoga" (README.md): a 204 means that the token no
\* longer works.
LogoutRevokes ==
    \A r \in Requests : Answered(r, "logout", 204) /\ arg[r] # None =>
        ~IsValid(refreshTokens[arg[r]])
=============================================================================
