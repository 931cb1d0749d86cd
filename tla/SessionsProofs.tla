--------------------------- MODULE SessionsProofs ---------------------------
(***************************************************************************)
(* Theorems about Sessions, for every set of requests, every duration and  *)
(* every clock.                                                            *)
(***************************************************************************)
EXTENDS Sessions, ServiceProofs

-----------------------------------------------------------------------------
(* Lemmas on the operators of Sessions *)

\* Revoking changes nothing of a row but revoked, and no other row.
LEMMA RevokedRows ==
    ASSUME SessionsTypeOK, NEW t \in HeldTokens, Revoke(t)
    PROVE  /\ refreshTokens' \in [Requests -> TokenRows \cup {None}]
           /\ refreshTokens'[t] # None /\ refreshTokens'[t].revoked
           /\ \A s \in Requests \ {t} : refreshTokens'[s] = refreshTokens[s]
           /\ \A s \in Requests : /\ (refreshTokens'[s] = None) <=> (refreshTokens[s] = None)
                                  /\ refreshTokens[s] # None =>
                                        /\ refreshTokens'[s].user = refreshTokens[s].user
                                        /\ refreshTokens'[s].expiresAt = refreshTokens[s].expiresAt
<1>1. t \in Requests /\ refreshTokens[t] # None
  BY DEF HeldTokens, SessionsTypeOK, Established
<1> QED
  BY <1>1, RevokeEffect DEF SessionsTypeOK

\* All that matters of AddRole for tokens and requests.
LEMMA AddRoleEffect ==
    ASSUME NEW r \in Requests, AddRole(r)
    PROVE  /\ pc[r] = "roles.update"
           /\ Answer(r, "ok") \/ Answer(r, "failure")
           /\ UNCHANGED <<now, refreshTokens, accessTokens, request, loaded>>
  BY DEF AddRole

\* What a request has established stands while it takes no step itself and no
\* user and no access token disappears.
LEMMA EstablishedStands ==
    ASSUME ServiceTypeOK, NEW s \in Requests, Established(s),
           UNCHANGED <<pc[s], op[s], arg[s], loaded[s], refreshTokens[s], accessTokens[s]>>,
           HeldTokens \subseteq HeldTokens',
           \A u \in UserIDs : users[u] # None => users'[u] # None
    PROVE  Established(s)'
<1>1. /\ refreshTokens[s] # None => refreshTokens[s].user \in UserIDs
      /\ accessTokens[s] # None => accessTokens[s].sub \in UserIDs
      /\ loaded[s] # None => loaded[s].id \in UserIDs
  BY DEF ServiceTypeOK, TokenRows, Claims, DomainUsers
<1> QED
  BY <1>1 DEF Established

-----------------------------------------------------------------------------
(* Types *)

\* Every step preserves the types and what each request has established.
LEMMA TypeStep ==
    ASSUME SessionsTypeOK, [SessionsNext]_serviceVars PROVE SessionsTypeOK'
<1> USE ServiceAssumption, NoneAssumption
    DEF SessionsTypeOK, ServiceTypeOK, Established, HeldTokens, Statements, Results, tables, request
<1> DEFINE SameRows ==  \* what a revocation leaves of the rows
        /\ refreshTokens' \in [Requests -> TokenRows \cup {None}]
        /\ \A s \in Requests : /\ (refreshTokens'[s] = None) <=> (refreshTokens[s] = None)
                               /\ refreshTokens[s] # None =>
                                     refreshTokens'[s].user = refreshTokens[s].user
<1>1. ASSUME NEW r \in Requests, ArriveMalformed(r) PROVE SessionsTypeOK'
  BY <1>1 DEF ArriveMalformed, Arrive, Answer, Ended, SessionBodies
<1>2. ASSUME NEW r \in Requests, ArriveLogin(r) PROVE SessionsTypeOK'
  BY <1>2 DEF ArriveLogin, Arrive, Goto, Ended, Typed, Emails, SessionBodies
<1>3. ASSUME NEW r \in Requests, ArriveRefresh(r) PROVE SessionsTypeOK'
  BY <1>3 DEF ArriveRefresh, Arrive, Goto, Ended, SessionBodies
<1>4. ASSUME NEW r \in Requests, ArriveLogout(r) PROVE SessionsTypeOK'
  BY <1>4 DEF ArriveLogout, Arrive, Goto, Ended, SessionBodies
<1>5. ASSUME NEW r \in Requests, ArriveAddRole(r) PROVE SessionsTypeOK'
  <2>1. PICK bearer \in HeldTokens \cup {None}, role \in {RoleSeller, RoleCustomer, None} :
           /\ Arrive(r, "add_role", [bearer |-> bearer, role |-> role])
           /\ \/ \E x \in Results : Answer(r, x)
              \/ RequireAuth(bearer) /\ role = RoleSeller /\ Goto(r, "roles.update")
    BY <1>5 DEF ArriveAddRole
  <2>2. UNCHANGED <<now, tables, loaded>>
    BY <1>5 DEF ArriveAddRole
  <2>3. [bearer |-> bearer, role |-> role] \in SessionBodies
    BY DEF SessionBodies
  <2>4. CASE \E x \in Results : Answer(r, x)
    BY <2>1, <2>2, <2>3, <2>4 DEF Arrive, Answer, Ended
  <2>5. CASE RequireAuth(bearer) /\ role = RoleSeller /\ Goto(r, "roles.update")
    BY <2>1, <2>2, <2>3, <2>5 DEF Arrive, Goto, Ended, RequireAuth
  <2> QED
    BY <2>1, <2>4, <2>5
<1>6. ASSUME NEW r \in Requests, LoginFind(r) PROVE SessionsTypeOK'
  <2>1. CASE Answer(r, "ErrInvalidCredentials") /\ UNCHANGED loaded
    BY <1>6, <2>1 DEF LoginFind, Answer
  <2>2. CASE \E u \in FindByEmail(normalizeEmail(arg[r].email)) :
                 loaded' = [loaded EXCEPT ![r] = toDomainUser(u)] /\ Goto(r, "issue")
    <3>1. PICK u \in FindByEmail(normalizeEmail(arg[r].email)) :
                 loaded' = [loaded EXCEPT ![r] = toDomainUser(u)] /\ Goto(r, "issue")
      BY <2>2
    <3>2. /\ u \in UserIDs /\ users[u] # None
          /\ toDomainUser(u) \in DomainUsers /\ toDomainUser(u).id = u
      BY FoundUsers DEF toDomainUser
    <3> QED
      BY <1>6, <3>1, <3>2 DEF LoginFind, Goto
  <2> QED
    BY <1>6, <2>1, <2>2 DEF LoginFind
<1>7. ASSUME NEW r \in Requests, RefreshFind(r) PROVE SessionsTypeOK'
  BY <1>7 DEF RefreshFind, Goto, Answer
<1>8. ASSUME NEW r \in Requests, RefreshLoad(r) PROVE SessionsTypeOK'
  BY <1>8 DEF RefreshLoad, Goto, toDomainUser, DomainUsers, TokenRows, UserRows
<1>9. ASSUME NEW r \in Requests, RefreshRevoke(r) PROVE SessionsTypeOK'
  <2>1. arg[r] \in HeldTokens /\ Revoke(arg[r])
    BY <1>9 DEF RefreshRevoke
  <2>2. SameRows
    BY <2>1, RevokedRows
  <2>3. CASE Goto(r, "issue")
    BY <1>9, <2>2, <2>3, SMTT(30) DEF RefreshRevoke, Goto
  <2>4. CASE Answer(r, "failure")
    BY <1>9, <2>2, <2>4, SMTT(30) DEF RefreshRevoke, Answer
  <2> QED
    BY <1>9, <2>3, <2>4 DEF RefreshRevoke
<1>10. ASSUME NEW r \in Requests, LogoutFind(r) PROVE SessionsTypeOK'
  <2>1. CASE arg[r] # None /\ Goto(r, "logout.revoke")
    <3>1. /\ op[r] = "logout" /\ arg[r] \in HeldTokens /\ pc[r] = "logout.find"
          /\ UNCHANGED <<now, users, refreshTokens, accessTokens, op, arg, before, at, loaded>>
      BY <1>10, <2>1 DEF LogoutFind
    <3> QED
      BY <2>1, <3>1 DEF Goto
  <2>2. CASE Answer(r, "ok")
    BY <1>10, <2>2 DEF LogoutFind, Answer
  <2> QED
    BY <1>10, <2>1, <2>2 DEF LogoutFind
<1>11. ASSUME NEW r \in Requests, LogoutRevoke(r) PROVE SessionsTypeOK'
  <2>1. arg[r] \in HeldTokens /\ Revoke(arg[r])
    BY <1>11 DEF LogoutRevoke
  <2>2. SameRows
    BY <2>1, RevokedRows
  <2>3. CASE Answer(r, "ok")
    BY <1>11, <2>2, <2>3 DEF LogoutRevoke, Answer
  <2>4. CASE Answer(r, "failure")
    BY <1>11, <2>2, <2>4 DEF LogoutRevoke, Answer
  <2> QED
    BY <1>11, <2>3, <2>4 DEF LogoutRevoke
<1>12. ASSUME NEW r \in Requests, AddRole(r) PROVE SessionsTypeOK'
  <2> DEFINE u == accessTokens[arg[r].bearer].sub
  <2>1. arg[r] \in [bearer : HeldTokens, role : {RoleSeller}]
    BY <1>12 DEF AddRole
  <2>2. u \in UserIDs /\ users[u] \in UserRows
    BY <2>1 DEF Claims
  <2> DEFINE new == [users[u] EXCEPT !.roles =
                        IF \E i \in DOMAIN users[u].roles : users[u].roles[i] = RoleSeller
                        THEN users[u].roles ELSE Append(users[u].roles, RoleSeller)]
  <2>3. new \in UserRows
    BY <2>2, RolesGrow DEF UserRows
  <2>4. users' = [users EXCEPT ![u] = new]
    BY <1>12, <2>1, <2>2 DEF AddRole
  <2> HIDE DEF new, u
  <2>5. users' \in [UserIDs -> UserRows \cup {None}]
    BY <2>2, <2>3, <2>4
  <2>6. \A v \in UserIDs : users[v] # None => users'[v] # None
    BY <2>2, <2>3, <2>4
  <2>7. pc[r] = "roles.update" /\ (Answer(r, "ok") \/ Answer(r, "failure"))
    BY <1>12, AddRoleEffect
  <2>8. UNCHANGED <<now, refreshTokens, accessTokens, op, arg, before, at, loaded>>
    BY <1>12, AddRoleEffect
  <2>9. ServiceTypeOK' /\ arg' \in [Requests -> SessionBodies]
    <3>1. pc' \in [Requests -> Statements] /\ out' \in [Requests -> Results \cup {None}]
      BY <2>7 DEF Answer
    <3> QED
      BY <2>5, <2>8, <3>1
  <2>10. Established(r)'
    <3>1. pc'[r] = "done" /\ pc[r] = "roles.update"
      BY <2>7 DEF Answer
    <3>2. /\ refreshTokens[r] = None /\ accessTokens[r] = None
          /\ loaded[r] # None => loaded[r].id \in UserIDs
      BY <2>7 DEF DomainUsers
    <3> QED
      BY <2>6, <2>8, <3>1, <3>2
  <2>11. ASSUME NEW s \in Requests \ {r} PROVE Established(s)'
    BY <2>6, <2>7, <2>8, EstablishedStands DEF Answer
  <2> QED
    BY <2>9, <2>10, <2>11
<1>13. ASSUME NEW r \in Requests, Issue(r) PROVE SessionsTypeOK'
  <2> DEFINE row == [user |-> loaded[r].id, expiresAt |-> now + refreshTokenTTL, revoked |-> FALSE]
             claims == [sub |-> loaded[r].id, roles |-> loaded[r].roles,
                        exp |-> Unix(now + accessTokenTTL)]
  <2>1. loaded[r] \in DomainUsers /\ pc[r] = "issue"
    BY <1>13 DEF Issue
  <2>2. Unix(now + accessTokenTTL) \in Nat
    BY UnixNat
  <2>3. row \in TokenRows /\ claims \in Claims
    BY <2>1, <2>2 DEF TokenRows, Claims, DomainUsers
  <2>4. users[row.user] # None /\ users[claims.sub] # None
    BY <2>1
  <2>5. /\ refreshTokens' = [refreshTokens EXCEPT ![r] = row]
        /\ UNCHANGED <<now, users, request, loaded>>
        /\ \/ Answer(r, "ok") /\ accessTokens' = [accessTokens EXCEPT ![r] = claims]
           \/ Answer(r, "failure") /\ UNCHANGED accessTokens
    BY <1>13 DEF Issue
  <2> HIDE DEF row, claims
  <2>6. ServiceTypeOK' /\ arg' \in [Requests -> SessionBodies]
    <3>1. pc' \in [Requests -> Statements] /\ out' \in [Requests -> Results \cup {None}]
      BY <2>5 DEF Answer
    <3>2. /\ refreshTokens' \in [Requests -> TokenRows \cup {None}]
          /\ accessTokens' \in [Requests -> Claims \cup {None}]
      BY <2>3, <2>5
    <3> QED
      BY <2>5, <3>1, <3>2
  <2>7. Established(r)'
    BY <2>1, <2>3, <2>4, <2>5 DEF Answer
  <2>8. ASSUME NEW s \in Requests \ {r} PROVE Established(s)'
    <3>1. /\ UNCHANGED <<pc[s], op[s], arg[s], loaded[s], refreshTokens[s], accessTokens[s]>>
          /\ HeldTokens \subseteq HeldTokens'
      BY <2>3, <2>5 DEF Answer
    <3> QED
      BY <2>5, <3>1, EstablishedStands
  <2> QED
    BY <2>6, <2>7, <2>8
<1>14. ASSUME NEW r \in Requests, StatementFails(r) PROVE SessionsTypeOK'
  BY <1>14 DEF StatementFails, Active, Ended, Answer
<1>15. CASE Crash
  BY <1>15 DEF Crash, Active, Ended
<1>16. CASE Tick
  BY <1>16 DEF Tick
<1>17. CASE UNCHANGED serviceVars
  BY <1>17 DEF serviceVars
<1> HIDE DEF SessionsTypeOK
<1> QED
  BY <1>1, <1>2, <1>3, <1>4, <1>5, <1>6, <1>7, <1>8, <1>9, <1>10, <1>11, <1>12, <1>13, <1>14, <1>15, <1>16, <1>17
  DEF SessionsNext, SessionArrive, SessionStep, Quiescent

\* The initial state has them.
LEMMA TypeInit == ServiceInit => SessionsTypeOK
<1> SUFFICES ASSUME ServiceInit PROVE SessionsTypeOK
  OBVIOUS
<1>1. PICK hash \in [Seeds -> Secrets \cup {None}] :
         users = [u \in UserIDs |->
                     IF u \in Seeds THEN NewUser([box |-> u, lower |-> TRUE], hash[u])
                                   ELSE None]
  BY DEF ServiceInit
<1>2. \A u \in Seeds : NewUser([box |-> u, lower |-> TRUE], hash[u]) \in UserRows
  BY ServiceAssumption DEF NewUser, UserRows, Emails, RoleLists
<1>3. users \in [UserIDs -> UserRows \cup {None}]
  BY <1>1, <1>2
<1>4. ServiceTypeOK
  BY <1>3 DEF ServiceInit, ServiceTypeOK, Statements
<1>5. arg \in [Requests -> SessionBodies]
  BY DEF ServiceInit, SessionBodies
<1>6. ASSUME NEW r \in Requests PROVE Established(r)
  BY DEF ServiceInit, Established
<1> QED
  BY <1>4, <1>5, <1>6 DEF SessionsTypeOK

\* In every behaviour the tables keep their types and no statement runs before
\* what it needs is there, however the requests interleave, fail and crash.
THEOREM SessionsTypeCorrect == SessionsSpec => []SessionsTypeOK
  BY TypeInit, TypeStep, PTL DEF SessionsSpec

-----------------------------------------------------------------------------
(* What no step undoes *)

\* A stored refresh token keeps its owner and its expiry and stays revoked once
\* it is; access tokens stay with clients; the clock does not run backwards; and
\* a request that has ended does nothing any more.
Advances ==
    /\ now <= now'
    /\ HeldTokens \subseteq HeldTokens'
    /\ \A t \in Requests : refreshTokens[t] # None =>
          /\ refreshTokens'[t] # None
          /\ refreshTokens'[t].user = refreshTokens[t].user
          /\ refreshTokens'[t].expiresAt = refreshTokens[t].expiresAt
          /\ refreshTokens[t].revoked => refreshTokens'[t].revoked
    /\ \A r \in Ended :
          /\ r \in Ended'
          /\ UNCHANGED <<op[r], arg[r], out[r], before[r], at[r]>>
          /\ refreshTokens'[r] # None => refreshTokens[r] # None

\* Every step advances in that sense.
LEMMA StepAdvances ==
    ASSUME SessionsTypeOK, [SessionsNext]_serviceVars PROVE Advances
<1> USE NoneAssumption
    DEF Advances, SessionsTypeOK, ServiceTypeOK, Established, HeldTokens, Statements, tables, request
<1>1. ASSUME NEW r \in Requests, ArriveMalformed(r) PROVE Advances
  BY <1>1 DEF ArriveMalformed, Arrive, Answer, Ended
<1>2. ASSUME NEW r \in Requests, ArriveLogin(r) PROVE Advances
  BY <1>2 DEF ArriveLogin, Arrive, Goto, Ended
<1>3. ASSUME NEW r \in Requests, ArriveRefresh(r) PROVE Advances
  BY <1>3 DEF ArriveRefresh, Arrive, Goto, Ended
<1>4. ASSUME NEW r \in Requests, ArriveLogout(r) PROVE Advances
  BY <1>4 DEF ArriveLogout, Arrive, Goto, Ended
<1>5. ASSUME NEW r \in Requests, ArriveAddRole(r) PROVE Advances
  BY <1>5 DEF ArriveAddRole, Arrive, Goto, Answer, Ended
<1>6. ASSUME NEW r \in Requests, LoginFind(r) PROVE Advances
  BY <1>6 DEF LoginFind, Goto, Answer, Ended
<1>7. ASSUME NEW r \in Requests, RefreshFind(r) PROVE Advances
  BY <1>7 DEF RefreshFind, Goto, Answer, Ended
<1>8. ASSUME NEW r \in Requests, RefreshLoad(r) PROVE Advances
  BY <1>8 DEF RefreshLoad, Goto, Ended
<1>9. ASSUME NEW r \in Requests, RefreshRevoke(r) PROVE Advances
  BY <1>9, RevokedRows DEF RefreshRevoke, Goto, Answer, Ended
<1>10. ASSUME NEW r \in Requests, LogoutFind(r) PROVE Advances
  BY <1>10 DEF LogoutFind, Goto, Answer, Ended
<1>11. ASSUME NEW r \in Requests, LogoutRevoke(r) PROVE Advances
  BY <1>11, RevokedRows DEF LogoutRevoke, Answer, Ended
<1>12. ASSUME NEW r \in Requests, AddRole(r) PROVE Advances
  <2>1. /\ pc[r] = "roles.update" /\ (Answer(r, "ok") \/ Answer(r, "failure"))
        /\ UNCHANGED <<now, refreshTokens, accessTokens, op, arg, before, at>>
    BY <1>12, AddRoleEffect
  <2> QED
    BY <2>1 DEF Answer, Ended
<1>13. ASSUME NEW r \in Requests, Issue(r) PROVE Advances
  <2> DEFINE row == [user |-> loaded[r].id, expiresAt |-> now + refreshTokenTTL, revoked |-> FALSE]
             claims == [sub |-> loaded[r].id, roles |-> loaded[r].roles,
                        exp |-> Unix(now + accessTokenTTL)]
  <2>1. /\ pc[r] = "issue" /\ refreshTokens[r] = None /\ accessTokens[r] = None
        /\ r \notin Ended
    BY <1>13 DEF Issue, Ended
  <2>2. /\ refreshTokens' = [refreshTokens EXCEPT ![r] = row]
        /\ UNCHANGED <<now, op, arg, before, at>>
        /\ accessTokens' = [accessTokens EXCEPT ![r] = claims] \/ UNCHANGED accessTokens
        /\ \E x \in {"ok", "failure"} : Answer(r, x)
    BY <1>13 DEF Issue
  <2> HIDE DEF row, claims
  <2>3. HeldTokens \subseteq HeldTokens'
    BY <2>1, <2>2
  <2>4. \A t \in Requests : refreshTokens[t] # None => refreshTokens'[t] = refreshTokens[t]
    BY <2>1, <2>2
  <2>5. \A q \in Ended : /\ q \in Ended'
                         /\ UNCHANGED <<op[q], arg[q], out[q], before[q], at[q]>>
                         /\ refreshTokens'[q] = refreshTokens[q]
    BY <2>1, <2>2 DEF Answer, Ended
  <2> QED
    BY <2>2, <2>3, <2>4, <2>5
<1>14. ASSUME NEW r \in Requests, StatementFails(r) PROVE Advances
  BY <1>14 DEF StatementFails, Active, Answer, Ended
<1>15. CASE Crash
  BY <1>15 DEF Crash, Active, Ended
<1>16. CASE Tick
  BY <1>16 DEF Tick, Ended
<1>17. CASE UNCHANGED serviceVars
  BY <1>17 DEF serviceVars, Ended
<1> HIDE DEF Advances
<1> QED
  BY <1>1, <1>2, <1>3, <1>4, <1>5, <1>6, <1>7, <1>8, <1>9, <1>10, <1>11, <1>12, <1>13, <1>14, <1>15, <1>16, <1>17
  DEF SessionsNext, SessionArrive, SessionStep, Quiescent

-----------------------------------------------------------------------------
(* The inductive invariant *)

\* A request arrived in the past, one that succeeded has ended, and those that
\* had ended when another arrived have ended.
Timeline ==
    \A r \in Requests :
        /\ at[r] <= now
        /\ out[r] = "ok" => pc[r] = "done"
        /\ before[r] \subseteq Ended

\* The token a refresh replaces is revoked before the successor is inserted.
RevokedFirst ==
    \A r \in Requests : pc[r] = "issue" /\ op[r] = "refresh" => refreshTokens[arg[r]].revoked

\* A token that was rotated or logged out is revoked.
SpentIsRevoked ==
    \A r, t \in Requests :
        Spent(r, t) => refreshTokens[t] # None /\ refreshTokens[t].revoked

\* Refresh s has found its token valid, and has not failed.
Accepted(s) ==
    \/ pc[s] \in {"refresh.load", "refresh.revoke"}
    \/ op[s] = "refresh" /\ (pc[s] = "issue" \/ refreshTokens[s] # None)

\* A refresh accepted its token before the expiry, when no request that had
\* ended before it arrived had spent the token.
AcceptedInTime ==
    \A s \in Requests : Accepted(s) =>
        /\ arg[s] \in HeldTokens
        /\ at[s] < refreshTokens[arg[s]].expiresAt
        /\ \A r \in before[s] : ~Spent(r, arg[s])

SessionsInv ==
    /\ SessionsTypeOK
    /\ Timeline
    /\ RevokedFirst
    /\ SpentIsRevoked
    /\ AcceptedInTime

\* The invariant holds initially.
LEMMA InvInit == ServiceInit => SessionsInv
<1> SUFFICES ASSUME ServiceInit PROVE SessionsInv
  OBVIOUS
<1>1. SessionsTypeOK
  BY TypeInit
<1>2. Timeline /\ RevokedFirst /\ SpentIsRevoked /\ AcceptedInTime
  BY NoneAssumption DEF ServiceInit, Timeline, RevokedFirst, SpentIsRevoked, AcceptedInTime,
     Accepted, Spent, Rotated, Results
<1> QED
  BY <1>1, <1>2 DEF SessionsInv

\* The clock and the order of requests only move on: an arrival records the
\* requests that have ended, and an ended request stays so.
LEMMA TimelineStep ==
    ASSUME SessionsInv, [SessionsNext]_serviceVars PROVE Timeline'
<1>0. SessionsTypeOK' /\ Advances
  BY TypeStep, StepAdvances DEF SessionsInv
<1> USE NoneAssumption
    DEF SessionsInv, SessionsTypeOK, ServiceTypeOK, Timeline, Advances, Ended, Results, tables, request
<1>1. ASSUME NEW r \in Requests, ArriveMalformed(r) PROVE Timeline'
  BY <1>0, <1>1 DEF ArriveMalformed, Arrive, Answer
<1>2. ASSUME NEW r \in Requests, ArriveLogin(r) PROVE Timeline'
  BY <1>0, <1>2 DEF ArriveLogin, Arrive, Goto
<1>3. ASSUME NEW r \in Requests, ArriveRefresh(r) PROVE Timeline'
  BY <1>0, <1>3 DEF ArriveRefresh, Arrive, Goto
<1>4. ASSUME NEW r \in Requests, ArriveLogout(r) PROVE Timeline'
  BY <1>0, <1>4 DEF ArriveLogout, Arrive, Goto
<1>5. ASSUME NEW r \in Requests, ArriveAddRole(r) PROVE Timeline'
  BY <1>0, <1>5 DEF ArriveAddRole, Arrive, Goto, Answer
<1>6. ASSUME NEW r \in Requests, LoginFind(r) PROVE Timeline'
  BY <1>0, <1>6 DEF LoginFind, Goto, Answer
<1>7. ASSUME NEW r \in Requests, RefreshFind(r) PROVE Timeline'
  BY <1>0, <1>7 DEF RefreshFind, Goto, Answer
<1>8. ASSUME NEW r \in Requests, RefreshLoad(r) PROVE Timeline'
  BY <1>0, <1>8 DEF RefreshLoad, Goto
<1>9. ASSUME NEW r \in Requests, RefreshRevoke(r) PROVE Timeline'
  BY <1>0, <1>9 DEF RefreshRevoke, Goto, Answer
<1>10. ASSUME NEW r \in Requests, LogoutFind(r) PROVE Timeline'
  BY <1>0, <1>10 DEF LogoutFind, Goto, Answer
<1>11. ASSUME NEW r \in Requests, LogoutRevoke(r) PROVE Timeline'
  BY <1>0, <1>11 DEF LogoutRevoke, Answer
<1>12. ASSUME NEW r \in Requests, AddRole(r) PROVE Timeline'
  BY <1>0, <1>12, AddRoleEffect DEF Answer
<1>13. ASSUME NEW r \in Requests, Issue(r) PROVE Timeline'
  BY <1>0, <1>13 DEF Issue, Answer
<1>14. ASSUME NEW r \in Requests, StatementFails(r) PROVE Timeline'
  BY <1>0, <1>14 DEF StatementFails, Active, Ended, Answer
<1>15. CASE Crash
  BY <1>0, <1>15 DEF Crash, Active, Ended
<1>16. CASE Tick
  BY <1>0, <1>16 DEF Tick
<1>17. CASE UNCHANGED serviceVars
  BY <1>0, <1>17 DEF serviceVars
<1> HIDE DEF Timeline
<1> QED
  BY <1>1, <1>2, <1>3, <1>4, <1>5, <1>6, <1>7, <1>8, <1>9, <1>10, <1>11, <1>12, <1>13, <1>14, <1>15, <1>16, <1>17
  DEF SessionsNext, SessionArrive, SessionStep, Quiescent

\* Only RefreshRevoke sends a refresh to the INSERT, and a revoked row stays
\* revoked.
LEMMA RevokedFirstStep ==
    ASSUME SessionsInv, [SessionsNext]_serviceVars PROVE RevokedFirst'
<1>0. SessionsTypeOK' /\ Advances
  BY TypeStep, StepAdvances DEF SessionsInv
<1> USE NoneAssumption
    DEF SessionsInv, SessionsTypeOK, ServiceTypeOK, Established, HeldTokens, RevokedFirst, Advances, tables, request
<1>1. ASSUME NEW r \in Requests, ArriveMalformed(r) PROVE RevokedFirst'
  BY <1>0, <1>1 DEF ArriveMalformed, Arrive, Answer
<1>2. ASSUME NEW r \in Requests, ArriveLogin(r) PROVE RevokedFirst'
  BY <1>0, <1>2 DEF ArriveLogin, Arrive, Goto
<1>3. ASSUME NEW r \in Requests, ArriveRefresh(r) PROVE RevokedFirst'
  BY <1>0, <1>3 DEF ArriveRefresh, Arrive, Goto
<1>4. ASSUME NEW r \in Requests, ArriveLogout(r) PROVE RevokedFirst'
  BY <1>0, <1>4 DEF ArriveLogout, Arrive, Goto
<1>5. ASSUME NEW r \in Requests, ArriveAddRole(r) PROVE RevokedFirst'
  BY <1>0, <1>5 DEF ArriveAddRole, Arrive, Goto, Answer
<1>6. ASSUME NEW r \in Requests, LoginFind(r) PROVE RevokedFirst'
  BY <1>0, <1>6 DEF LoginFind, Goto, Answer
<1>7. ASSUME NEW r \in Requests, RefreshFind(r) PROVE RevokedFirst'
  BY <1>0, <1>7 DEF RefreshFind, Goto, Answer
<1>8. ASSUME NEW r \in Requests, RefreshLoad(r) PROVE RevokedFirst'
  BY <1>0, <1>8 DEF RefreshLoad, Goto
<1>9. ASSUME NEW r \in Requests, RefreshRevoke(r) PROVE RevokedFirst'
  BY <1>0, <1>9, RevokedRows DEF RefreshRevoke, Goto, Answer
<1>10. ASSUME NEW r \in Requests, LogoutFind(r) PROVE RevokedFirst'
  BY <1>0, <1>10 DEF LogoutFind, Goto, Answer
<1>11. ASSUME NEW r \in Requests, LogoutRevoke(r) PROVE RevokedFirst'
  BY <1>0, <1>11 DEF LogoutRevoke, Answer
<1>12. ASSUME NEW r \in Requests, AddRole(r) PROVE RevokedFirst'
  BY <1>0, <1>12, AddRoleEffect DEF Answer
<1>13. ASSUME NEW r \in Requests, Issue(r) PROVE RevokedFirst'
  BY <1>0, <1>13 DEF Issue, Answer
<1>14. ASSUME NEW r \in Requests, StatementFails(r) PROVE RevokedFirst'
  BY <1>0, <1>14 DEF StatementFails, Active, Ended, Answer
<1>15. CASE Crash
  BY <1>0, <1>15 DEF Crash, Active, Ended
<1>16. CASE Tick
  BY <1>0, <1>16 DEF Tick
<1>17. CASE UNCHANGED serviceVars
  BY <1>0, <1>17 DEF serviceVars
<1> HIDE DEF RevokedFirst
<1> QED
  BY <1>1, <1>2, <1>3, <1>4, <1>5, <1>6, <1>7, <1>8, <1>9, <1>10, <1>11, <1>12, <1>13, <1>14, <1>15, <1>16, <1>17
  DEF SessionsNext, SessionArrive, SessionStep, Quiescent

\* A request comes to have spent a token by the INSERT of a refresh, after its
\* revocation, or by the UPDATE of a logout.
LEMMA SpentIsRevokedStep ==
    ASSUME SessionsInv, [SessionsNext]_serviceVars PROVE SpentIsRevoked'
<1>0. SessionsTypeOK' /\ Advances
  BY TypeStep, StepAdvances DEF SessionsInv
<1> USE NoneAssumption
    DEF SessionsInv, SessionsTypeOK, ServiceTypeOK, Established, Timeline, SpentIsRevoked, Spent, Rotated, Advances, Results, tables, request
<1>1. ASSUME NEW r \in Requests, ArriveMalformed(r) PROVE SpentIsRevoked'
  BY <1>0, <1>1 DEF ArriveMalformed, Arrive, Answer
<1>2. ASSUME NEW r \in Requests, ArriveLogin(r) PROVE SpentIsRevoked'
  BY <1>0, <1>2 DEF ArriveLogin, Arrive, Goto
<1>3. ASSUME NEW r \in Requests, ArriveRefresh(r) PROVE SpentIsRevoked'
  BY <1>0, <1>3 DEF ArriveRefresh, Arrive, Goto
<1>4. ASSUME NEW r \in Requests, ArriveLogout(r) PROVE SpentIsRevoked'
  BY <1>0, <1>4 DEF ArriveLogout, Arrive, Goto
<1>5. ASSUME NEW r \in Requests, ArriveAddRole(r) PROVE SpentIsRevoked'
  BY <1>0, <1>5 DEF ArriveAddRole, Arrive, Goto, Answer
<1>6. ASSUME NEW r \in Requests, LoginFind(r) PROVE SpentIsRevoked'
  BY <1>0, <1>6 DEF LoginFind, Goto, Answer
<1>7. ASSUME NEW r \in Requests, RefreshFind(r) PROVE SpentIsRevoked'
  BY <1>0, <1>7 DEF RefreshFind, Goto, Answer
<1>8. ASSUME NEW r \in Requests, RefreshLoad(r) PROVE SpentIsRevoked'
  BY <1>0, <1>8 DEF RefreshLoad, Goto
<1>9. ASSUME NEW r \in Requests, RefreshRevoke(r) PROVE SpentIsRevoked'
  BY <1>0, <1>9, RevokedRows DEF RefreshRevoke, Goto, Answer
<1>10. ASSUME NEW r \in Requests, LogoutFind(r) PROVE SpentIsRevoked'
  BY <1>0, <1>10, ServiceAssumption DEF LogoutFind, Goto, Answer
<1>11. ASSUME NEW r \in Requests, LogoutRevoke(r) PROVE SpentIsRevoked'
  BY <1>0, <1>11, RevokedRows DEF LogoutRevoke, Answer
<1>12. ASSUME NEW r \in Requests, AddRole(r) PROVE SpentIsRevoked'
  BY <1>0, <1>12, AddRoleEffect DEF Answer
<1>13. ASSUME NEW r \in Requests, Issue(r) PROVE SpentIsRevoked'
  <2>1. pc[r] = "issue" /\ UNCHANGED <<op, arg>>
    BY <1>13 DEF Issue
  <2>2. out'[r] \in {"ok", "failure"} /\ \A s \in Requests \ {r} :
           out'[s] = out[s] /\ refreshTokens'[s] = refreshTokens[s]
    BY <1>13 DEF Issue, Answer
  <2>3. ASSUME NEW s \in Requests, NEW t \in Requests, Spent(s, t)', ~Spent(s, t)
        PROVE  s = r /\ op[r] = "refresh" /\ arg[r] = t
    BY <2>1, <2>2, <2>3
  <2>4. ASSUME op[r] = "refresh"
        PROVE  arg[r] \in Requests /\ refreshTokens[arg[r]] # None /\ refreshTokens[arg[r]].revoked
    BY <2>1, <2>4 DEF HeldTokens, RevokedFirst
  <2> QED
    BY <1>0, <2>3, <2>4
<1>14. ASSUME NEW r \in Requests, StatementFails(r) PROVE SpentIsRevoked'
  BY <1>0, <1>14 DEF StatementFails, Active, Ended, Answer
<1>15. CASE Crash
  BY <1>0, <1>15 DEF Crash, Active, Ended
<1>16. CASE Tick
  BY <1>0, <1>16 DEF Tick
<1>17. CASE UNCHANGED serviceVars
  BY <1>0, <1>17 DEF serviceVars
<1> HIDE DEF SpentIsRevoked
<1> QED
  BY <1>1, <1>2, <1>3, <1>4, <1>5, <1>6, <1>7, <1>8, <1>9, <1>10, <1>11, <1>12, <1>13, <1>14, <1>15, <1>16, <1>17
  DEF SessionsNext, SessionArrive, SessionStep, Quiescent

\* A refresh is accepted on a row not revoked, hence not spent; a request that
\* spends the token later had not ended when the refresh arrived.
LEMMA AcceptedInTimeStep ==
    ASSUME SessionsInv, [SessionsNext]_serviceVars PROVE AcceptedInTime'
<1>0. SessionsTypeOK' /\ Advances
  BY TypeStep, StepAdvances DEF SessionsInv
<1> USE NoneAssumption
    DEF SessionsInv, SessionsTypeOK, ServiceTypeOK, Established, HeldTokens, Timeline, AcceptedInTime, Accepted, Spent, Rotated, Advances, tables, request
<1>1. ASSUME NEW r \in Requests, ArriveMalformed(r) PROVE AcceptedInTime'
  BY <1>0, <1>1 DEF ArriveMalformed, Arrive, Answer
<1>2. ASSUME NEW r \in Requests, ArriveLogin(r) PROVE AcceptedInTime'
  BY <1>0, <1>2 DEF ArriveLogin, Arrive, Goto
<1>3. ASSUME NEW r \in Requests, ArriveRefresh(r) PROVE AcceptedInTime'
  BY <1>0, <1>3 DEF ArriveRefresh, Arrive, Goto
<1>4. ASSUME NEW r \in Requests, ArriveLogout(r) PROVE AcceptedInTime'
  BY <1>0, <1>4 DEF ArriveLogout, Arrive, Goto
<1>5. ASSUME NEW r \in Requests, ArriveAddRole(r) PROVE AcceptedInTime'
  BY <1>0, <1>5 DEF ArriveAddRole, Arrive, Goto, Answer
<1>6. ASSUME NEW r \in Requests, LoginFind(r) PROVE AcceptedInTime'
  BY <1>0, <1>6 DEF LoginFind, Goto, Answer
<1>7. ASSUME NEW r \in Requests, RefreshFind(r) PROVE AcceptedInTime'
  <2>1. UNCHANGED <<now, tables, request, loaded>> /\ pc[r] = "refresh.find"
    BY <1>7 DEF RefreshFind
  <2>2. ASSUME NEW s \in Requests, NEW t, Spent(s, t)' PROVE Spent(s, t)
    BY <1>7, <2>1, <2>2 DEF RefreshFind, Goto, Answer
  <2>3. CASE Answer(r, "ErrRefreshTokenInvalid")
    BY <1>0, <2>1, <2>2, <2>3 DEF Answer
  <2>4. CASE arg[r] # None /\ IsValid(refreshTokens[arg[r]]) /\ Goto(r, "refresh.load")
    <3>1. /\ arg[r] \in Requests /\ refreshTokens[arg[r]] \in TokenRows
          /\ at[r] < refreshTokens[arg[r]].expiresAt
          /\ ~refreshTokens[arg[r]].revoked
      BY <2>1, <2>4 DEF IsValid, TokenRows
    <3>2. \A q \in before[r] : ~Spent(q, arg[r])
      BY <3>1 DEF SpentIsRevoked
    <3> QED
      BY <1>0, <2>1, <2>2, <2>4, <3>1, <3>2 DEF Goto
  <2> QED
    BY <1>7, <2>3, <2>4 DEF RefreshFind
<1>8. ASSUME NEW r \in Requests, RefreshLoad(r) PROVE AcceptedInTime'
  BY <1>0, <1>8 DEF RefreshLoad, Goto
<1>9. ASSUME NEW r \in Requests, RefreshRevoke(r) PROVE AcceptedInTime'
  BY <1>0, <1>9, RevokedRows DEF RefreshRevoke, Goto, Answer
<1>10. ASSUME NEW r \in Requests, LogoutFind(r) PROVE AcceptedInTime'
  BY <1>0, <1>10 DEF LogoutFind, Goto, Answer
<1>11. ASSUME NEW r \in Requests, LogoutRevoke(r) PROVE AcceptedInTime'
  BY <1>0, <1>11, RevokedRows DEF LogoutRevoke, Answer, Ended
<1>12. ASSUME NEW r \in Requests, AddRole(r) PROVE AcceptedInTime'
  BY <1>0, <1>12, AddRoleEffect DEF Answer
<1>13. ASSUME NEW r \in Requests, Issue(r) PROVE AcceptedInTime'
  BY <1>0, <1>13 DEF Issue, Answer
<1>14. ASSUME NEW r \in Requests, StatementFails(r) PROVE AcceptedInTime'
  BY <1>0, <1>14 DEF StatementFails, Active, Ended, Answer
<1>15. CASE Crash
  BY <1>0, <1>15 DEF Crash, Active, Ended
<1>16. CASE Tick
  BY <1>0, <1>16 DEF Tick
<1>17. CASE UNCHANGED serviceVars
  BY <1>0, <1>17 DEF serviceVars
<1> HIDE DEF AcceptedInTime
<1> QED
  BY <1>1, <1>2, <1>3, <1>4, <1>5, <1>6, <1>7, <1>8, <1>9, <1>10, <1>11, <1>12, <1>13, <1>14, <1>15, <1>16, <1>17
  DEF SessionsNext, SessionArrive, SessionStep, Quiescent

\* The invariant is inductive.
LEMMA InvStep ==
    ASSUME SessionsInv, [SessionsNext]_serviceVars PROVE SessionsInv'
  BY TypeStep, TimelineStep, RevokedFirstStep, SpentIsRevokedStep, AcceptedInTimeStep
  DEF SessionsInv

\* The invariant implies the two properties of a rotation.
LEMMA InvImplies ==
    ASSUME SessionsInv PROVE RotationRevokesPresented /\ RotatesOnlyLive
<1>1. RotationRevokesPresented
  BY DEF SessionsInv, SpentIsRevoked, Spent, RotationRevokesPresented
<1>2. RotatesOnlyLive
  BY DEF SessionsInv, AcceptedInTime, Accepted, Rotated, RotatesOnlyLive
<1> QED
  BY <1>1, <1>2

\* A refresh token and its successor never both work.
THEOREM RotationSafe == SessionsSpec => []RotationRevokesPresented
  BY InvInit, InvStep, InvImplies, PTL DEF SessionsSpec

\* A token is only rotated by a request that arrived before its expiry and
\* before any rotation or logout of it had ended.
THEOREM ReplayInSequenceRefused == SessionsSpec => []RotatesOnlyLive
  BY InvInit, InvStep, InvImplies, PTL DEF SessionsSpec

-----------------------------------------------------------------------------
(* Refinement *)

\* A step that leaves the table alone leaves the ledger alone.
LEMMA LedgerStutters ==
    ASSUME SessionsInv, Advances, UNCHANGED refreshTokens
    PROVE  UNCHANGED Ledger!ledgerVars
<1>1. ledgerStatus' = ledgerStatus
  BY DEF ledgerStatus
<1>2. ASSUME NEW t \in Requests, refreshTokens[t] # None PROVE op'[t] = op[t] /\ arg'[t] = arg[t]
  BY <1>2 DEF SessionsInv, SessionsTypeOK, Established, Advances, Ended
<1>3. ledgerParent' = ledgerParent
  BY <1>2 DEF ledgerParent
<1> QED
  BY <1>1, <1>3 DEF Ledger!ledgerVars

\* The UPDATE is a revocation, or nothing when the token is revoked already.
LEMMA LedgerRevokes ==
    ASSUME SessionsInv, NEW t \in HeldTokens, Revoke(t), UNCHANGED <<op, arg>>
    PROVE  Ledger!Revoke(t) \/ UNCHANGED Ledger!ledgerVars
<1>0. SessionsTypeOK
  BY DEF SessionsInv
<1>1. t \in Requests /\ refreshTokens[t] # None
  BY <1>0 DEF HeldTokens, SessionsTypeOK, Established
<1>2. ledgerParent' = ledgerParent
  BY <1>0, RevokedRows DEF ledgerParent
<1>3. ledgerStatus' = [ledgerStatus EXCEPT ![t] = "revoked"]
  <2>1. /\ refreshTokens'[t] # None /\ refreshTokens'[t].revoked
        /\ \A s \in Requests \ {t} : refreshTokens'[s] = refreshTokens[s]
    BY <1>0, RevokedRows
  <2> QED
    BY <1>1, <2>1 DEF ledgerStatus
<1>4. CASE refreshTokens[t].revoked
  <2>1. ledgerStatus' = ledgerStatus
    BY <1>1, <1>3, <1>4 DEF ledgerStatus
  <2> QED
    BY <1>2, <2>1 DEF Ledger!ledgerVars
<1>5. CASE ~refreshTokens[t].revoked
  <2>1. ledgerStatus[t] = "live"
    BY <1>1, <1>5 DEF ledgerStatus
  <2> QED
    BY <1>2, <1>3, <2>1 DEF Ledger!Revoke
<1> QED
  BY <1>4, <1>5

\* The INSERT opens a session or, for a refresh, continues one.
LEMMA LedgerGrows ==
    ASSUME SessionsInv, NEW r \in Requests, Issue(r) PROVE Ledger!Next
<1> DEFINE row == [user |-> loaded[r].id, expiresAt |-> now + refreshTokenTTL, revoked |-> FALSE]
<1>1. /\ pc[r] = "issue" /\ UNCHANGED <<op, arg>>
      /\ refreshTokens' = [refreshTokens EXCEPT ![r] = row]
  BY DEF Issue, request
<1>2. refreshTokens[r] = None /\ loaded[r] \in DomainUsers
  BY <1>1 DEF SessionsInv, SessionsTypeOK, ServiceTypeOK, Established
<1>3. row \in TokenRows /\ row # None /\ ~row.revoked
  <2>1. now \in Nat /\ refreshTokenTTL \in Nat /\ loaded[r].id \in UserIDs
    BY <1>2, ServiceAssumption DEF DomainUsers, SessionsInv, SessionsTypeOK, ServiceTypeOK
  <2>2. row \in TokenRows
    BY <2>1 DEF TokenRows
  <2> QED
    BY <2>2, NoneAssumption
<1> HIDE DEF row
<1>4. ledgerStatus[r] = "absent" /\ ledgerStatus' = [ledgerStatus EXCEPT ![r] = "live"]
  BY <1>1, <1>2, <1>3 DEF ledgerStatus, SessionsInv, SessionsTypeOK, ServiceTypeOK
<1>5. CASE op[r] = "login"
  <2>1. ledgerParent' = ledgerParent
    BY <1>1, <1>2, <1>3, <1>5 DEF ledgerParent, SessionsInv, SessionsTypeOK, ServiceTypeOK
  <2> QED
    BY <1>4, <2>1 DEF Ledger!Next, Ledger!Open
<1>6. CASE op[r] = "refresh"
  <2>1. arg[r] \in Requests /\ ledgerStatus[arg[r]] = "revoked"
    BY <1>1, <1>6 DEF SessionsInv, SessionsTypeOK, Established, HeldTokens, RevokedFirst, ledgerStatus
  <2>2. ledgerParent' = [ledgerParent EXCEPT ![r] = arg[r]]
    BY <1>1, <1>2, <1>3, <1>6 DEF ledgerParent, SessionsInv, SessionsTypeOK, ServiceTypeOK
  <2> QED
    BY <1>4, <2>1, <2>2 DEF Ledger!Next, Ledger!Succeed
<1> QED
  BY <1>1, <1>5, <1>6 DEF SessionsInv, SessionsTypeOK, Established

\* Every step of the service is a step of the ledger or leaves it alone.
LEMMA LedgerStep ==
    ASSUME SessionsInv, [SessionsNext]_serviceVars
    PROVE  [Ledger!Next]_(Ledger!ledgerVars)
<1>0. SessionsTypeOK /\ Advances
  BY StepAdvances DEF SessionsInv
<1>1. ASSUME NEW r \in Requests, SessionArrive(r) PROVE UNCHANGED refreshTokens
  BY <1>1 DEF SessionArrive, ArriveMalformed, ArriveLogin, ArriveRefresh, ArriveLogout,
     ArriveAddRole, tables
<1>2. ASSUME NEW r \in Requests,
             LoginFind(r) \/ RefreshFind(r) \/ RefreshLoad(r) \/ LogoutFind(r) \/ StatementFails(r)
      PROVE  UNCHANGED refreshTokens
  BY <1>2 DEF LoginFind, RefreshFind, RefreshLoad, LogoutFind, StatementFails, tables
<1>3. ASSUME NEW r \in Requests, AddRole(r) PROVE UNCHANGED refreshTokens
  BY <1>3, AddRoleEffect
<1>4. ASSUME NEW r \in Requests, RefreshRevoke(r) \/ LogoutRevoke(r)
      PROVE  Ledger!Next \/ UNCHANGED Ledger!ledgerVars
  <2>1. arg[r] \in HeldTokens /\ Revoke(arg[r]) /\ UNCHANGED <<op, arg>>
    BY <1>0, <1>4 DEF SessionsTypeOK, Established, RefreshRevoke, LogoutRevoke, request
  <2>2. Ledger!Revoke(arg[r]) => Ledger!Next
    BY <2>1 DEF HeldTokens, Ledger!Next
  <2> QED
    BY <2>1, <2>2, LedgerRevokes
<1>5. ASSUME NEW r \in Requests, Issue(r) PROVE Ledger!Next
  BY <1>5, LedgerGrows
<1>6. CASE Crash \/ Tick \/ UNCHANGED serviceVars
  <2>1. UNCHANGED refreshTokens
    BY <1>6 DEF Crash, Tick, serviceVars, tables
  <2> QED
    BY <1>0, <2>1, LedgerStutters
<1> QED
  BY <1>0, <1>1, <1>2, <1>3, <1>4, <1>5, <1>6, LedgerStutters
  DEF SessionsNext, SessionStep, Quiescent

\* The table refresh_tokens, under any interleaving, failure and crash of
\* logins, refreshes and logouts, implements the ledger.
THEOREM SessionsImplementTokenLedger == SessionsSpec => ImplementsTokenLedger
<1>1. ServiceInit => Ledger!Init
  BY DEF ServiceInit, Ledger!Init, ledgerStatus, ledgerParent
<1> QED
  BY <1>1, InvInit, InvStep, LedgerStep, PTL
  DEF SessionsSpec, ImplementsTokenLedger, Ledger!Spec
=============================================================================
