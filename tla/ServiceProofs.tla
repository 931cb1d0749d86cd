---------------------------- MODULE ServiceProofs ----------------------------
(***************************************************************************)
(* Lemmas about what the components share: the operators and the           *)
(* statements of Service.                                                  *)
(***************************************************************************)
EXTENDS Service, SequenceTheorems, TLAPS

-----------------------------------------------------------------------------
(* Lemmas on the operators of Service *)

\* The exp claim is a natural number.
LEMMA UnixNat == ASSUME NEW t \in Nat PROVE Unix(t) \in Nat
<1> DEFINE q == t \div TicksPerSecond
<1>1. TicksPerSecond \in Nat \ {0}
  BY ServiceAssumption
<1>2. q \in Nat
  BY <1>1, SMT
<1>3. q * TicksPerSecond \in Nat
  BY <1>1, <1>2, SMT
<1> QED
  BY <1>3 DEF Unix

\* A row of users found by an address exists.
LEMMA FoundUsers ==
    ASSUME ServiceTypeOK, NEW e, NEW u \in FindByEmail(e)
    PROVE  u \in UserIDs /\ users[u] # None /\ toDomainUser(u) \in DomainUsers
<1>1. u \in UserIDs /\ users[u] # None
  BY DEF FindByEmail
<1>2. users[u] \in UserRows
  BY <1>1 DEF ServiceTypeOK
<1> QED
  BY <1>1, <1>2 DEF toDomainUser, DomainUsers, UserRows

\* Appending to a list of one.
LEMMA AppendToOne ==
    ASSUME NEW a, NEW b PROVE Append(<<a>>, b) = <<a, b>>
<1> DEFINE S == {a, b}
           l == Append(<<a>>, b)
           m == <<a, b>>
<1>1. <<a>> \in Seq(S) /\ Len(<<a>>) = 1
  OBVIOUS
<1>2. l \in Seq(S) /\ Len(l) = 2 /\ l[1] = a /\ l[2] = b
  BY <1>1
<1>3. m \in Seq(S) /\ Len(m) = 2 /\ m[1] = a /\ m[2] = b
  OBVIOUS
<1> HIDE DEF S, l, m
<1>4. \A i \in 1 .. Len(l) : l[i] = m[i]
  BY <1>2, <1>3
<1>5. l = m
  BY <1>2, <1>3, <1>4, SeqEqual
<1> QED
  BY <1>5 DEF l, m

\* AddRole leaves the list of roles one of the two there are.
LEMMA RolesGrow ==
    ASSUME NEW roles \in RoleLists
    PROVE  (IF \E i \in DOMAIN roles : roles[i] = RoleSeller
            THEN roles ELSE Append(roles, RoleSeller)) \in RoleLists
<1>1. CASE roles = <<RoleCustomer>>
  <2>1. ~ \E i \in DOMAIN roles : roles[i] = RoleSeller
    BY <1>1 DEF RoleCustomer, RoleSeller
  <2>2. Append(roles, RoleSeller) = <<RoleCustomer, RoleSeller>>
    BY <1>1, AppendToOne
  <2> QED
    BY <2>1, <2>2 DEF RoleLists
<1>2. CASE roles = <<RoleCustomer, RoleSeller>>
  BY <1>2 DEF RoleLists, RoleCustomer, RoleSeller
<1> QED
  BY <1>1, <1>2 DEF RoleLists

\* List held of roles begins with list claimed.
Covers(held, claimed) ==
    \A i \in DOMAIN claimed : i \in DOMAIN held /\ held[i] = claimed[i]

\* The UPDATE of AddRole keeps the roles there are.
LEMMA RolesKept ==
    ASSUME NEW roles \in RoleLists
    PROVE  Covers(IF \E i \in DOMAIN roles : roles[i] = RoleSeller
                  THEN roles ELSE Append(roles, RoleSeller), roles)
<1>1. CASE roles = <<RoleCustomer>>
  <2>1. Append(roles, RoleSeller) = <<RoleCustomer, RoleSeller>>
    BY <1>1, AppendToOne
  <2> QED
    BY <1>1, <2>1 DEF Covers
<1>2. CASE roles = <<RoleCustomer, RoleSeller>>
  <2>1. \E i \in DOMAIN roles : roles[i] = RoleSeller
    BY <1>2
  <2> QED
    BY <2>1 DEF Covers
<1> QED
  BY <1>1, <1>2 DEF RoleLists

\* Dropping the fraction of a second loses less than a second.
LEMMA UnixBounds ==
    ASSUME NEW t \in Nat PROVE Unix(t) <= t /\ t < Unix(t) + TicksPerSecond
<1> DEFINE d == TicksPerSecond
           q == t \div d
<1>1. d \in Nat \ {0}
  BY ServiceAssumption
<1> HIDE DEF d
<1>2. q \in Nat /\ t % d \in 0 .. d - 1 /\ t = (d * q) + (t % d)
  BY <1>1, SMT
<1>3. d * q = q * d
  BY <1>1, <1>2, SMT
<1> HIDE DEF q
<1>4. q * d \in Nat
  BY <1>1, <1>2, SMT
<1>5. q * d <= t /\ t < q * d + d
  BY <1>1, <1>2, <1>3, <1>4, SMT
<1> QED
  BY <1>5 DEF d, q, Unix

\* What normalizeEmail makes of an address.
LEMMA Normalized ==
    ASSUME NEW e \in Emails
    PROVE  normalizeEmail(e) = [box |-> e.box, lower |-> TRUE]
<1>1. /\ normalizeEmail(e) \in Emails
      /\ normalizeEmail(e).box = e.box /\ normalizeEmail(e).lower = TRUE
  BY DEF normalizeEmail, Emails
<1>2. ASSUME NEW f \in Emails, NEW g \in Emails, f.box = g.box, f.lower = g.lower PROVE f = g
  BY <1>2 DEF Emails
<1>3. [box |-> e.box, lower |-> TRUE] \in Emails
  BY DEF Emails
<1> QED
  BY <1>1, <1>2, <1>3

\* Revoking changes nothing of a row but revoked, and no other row.
LEMMA RevokeEffect ==
    ASSUME ServiceTypeOK, NEW t \in Requests, refreshTokens[t] # None, Revoke(t)
    PROVE  /\ refreshTokens' \in [Requests -> TokenRows \cup {None}]
           /\ refreshTokens'[t] # None /\ refreshTokens'[t].revoked
           /\ \A s \in Requests \ {t} : refreshTokens'[s] = refreshTokens[s]
           /\ \A s \in Requests : /\ (refreshTokens'[s] = None) <=> (refreshTokens[s] = None)
                                  /\ refreshTokens[s] # None =>
                                        /\ refreshTokens'[s].user = refreshTokens[s].user
                                        /\ refreshTokens'[s].expiresAt = refreshTokens[s].expiresAt
<1>1. refreshTokens[t] \in TokenRows
  BY DEF ServiceTypeOK
<1>2. refreshTokens' = [refreshTokens EXCEPT ![t] = [refreshTokens[t] EXCEPT !.revoked = TRUE]]
  BY <1>1 DEF Revoke, ServiceTypeOK
<1>3. [refreshTokens[t] EXCEPT !.revoked = TRUE] \in TokenRows
  BY <1>1 DEF TokenRows
<1> QED
  BY <1>1, <1>2, <1>3, NoneAssumption DEF ServiceTypeOK, TokenRows

-----------------------------------------------------------------------------
(* Lemmas on the statements that the routes share *)

\* A request goes on to another statement of its own, or is answered.
LEMMA Moves ==
    ASSUME ServiceTypeOK, NEW r \in Requests, NEW x,
           (x \in Statements /\ Goto(r, x)) \/ (x \in Results /\ Answer(r, x))
    PROVE  /\ pc' \in [Requests -> Statements]
           /\ out' \in [Requests -> Results \cup {None}]
           /\ \A s \in Requests \ {r} : pc'[s] = pc[s] /\ out'[s] = out[s]
  BY DEF ServiceTypeOK, Goto, Answer, Statements

\* The account looked up is in memory, or there is none and the INSERT is next.
LEMMA FindUserEffect ==
    ASSUME ServiceTypeOK, NEW r \in Requests, NEW e \in Emails, NEW insert \in Statements,
           FindUser(r, e, insert)
    PROVE  /\ UNCHANGED <<now, users, refreshTokens, accessTokens, op, arg, before, at, out>>
           /\ loaded' \in [Requests -> DomainUsers \cup {None}]
           /\ \A s \in Requests \ {r} : loaded'[s] = loaded[s]
           /\ \/ /\ pc' = [pc EXCEPT ![r] = "issue"]
                 /\ loaded'[r] \in DomainUsers
                 /\ users[loaded'[r].id] # None
                 /\ users[loaded'[r].id].email = e
              \/ /\ pc' = [pc EXCEPT ![r] = insert]
                 /\ UNCHANGED loaded
<1>1. UNCHANGED <<now, users, refreshTokens, accessTokens, op, arg, before, at, out>>
  BY DEF FindUser, Goto, tables, request
<1>2. CASE pc' = [pc EXCEPT ![r] = insert] /\ UNCHANGED loaded
  BY <1>1, <1>2 DEF ServiceTypeOK
<1>3. ASSUME NEW u \in FindByEmail(e),
             loaded' = [loaded EXCEPT ![r] = toDomainUser(u)], pc' = [pc EXCEPT ![r] = "issue"]
      PROVE  /\ loaded' \in [Requests -> DomainUsers \cup {None}]
             /\ \A s \in Requests \ {r} : loaded'[s] = loaded[s]
             /\ loaded'[r] \in DomainUsers
             /\ users[loaded'[r].id] # None
             /\ users[loaded'[r].id].email = e
  <2>1. toDomainUser(u) \in DomainUsers /\ users[u] # None /\ users[u].email = e
    BY FoundUsers DEF FindByEmail
  <2>2. loaded'[r] = toDomainUser(u) /\ toDomainUser(u).id = u
    BY <1>3 DEF ServiceTypeOK, toDomainUser
  <2> QED
    BY <1>3, <2>1, <2>2 DEF ServiceTypeOK
<1> QED
  BY <1>1, <1>2, <1>3 DEF FindUser, Goto

\* The INSERT leaves every account that was there alone.
LEMMA InsertUserEffect ==
    ASSUME ServiceTypeOK, NEW r \in Requests, NEW e \in Emails, users[r] = None,
           InsertUser(r, e)
    PROVE  /\ UNCHANGED <<now, refreshTokens, accessTokens, op, arg, before, at>>
           /\ users' \in [UserIDs -> UserRows \cup {None}]
           /\ loaded' \in [Requests -> DomainUsers \cup {None}]
           /\ \A u \in UserIDs \ {r} : users'[u] = users[u]
           /\ \A s \in Requests \ {r} : loaded'[s] = loaded[s]
           /\ users'[r] # None => /\ users'[r] = NewUser(e, None)
                                  /\ FindByEmail(e) = {}
           /\ \/ /\ Goto(r, "issue")
                 /\ loaded'[r] \in DomainUsers /\ loaded'[r].id = r
                 /\ users'[r] # None
              \/ Answer(r, "failure") /\ UNCHANGED loaded
<1>1. NewUser(e, None) \in UserRows /\ NewUser(e, None) # None
  BY NoneAssumption DEF NewUser, UserRows, RoleLists
<1>2. r \in UserIDs
  BY DEF UserIDs
<1>3. [id |-> r, roles |-> <<RoleCustomer>>] \in DomainUsers
  BY <1>2 DEF DomainUsers, RoleLists
<1>4. UNCHANGED <<now, refreshTokens, accessTokens, op, arg, before, at>>
  BY DEF InsertUser, request
<1>5. CASE /\ FindByEmail(e) # {} /\ Answer(r, "failure") /\ UNCHANGED <<users, loaded>>
  BY <1>4, <1>5 DEF ServiceTypeOK
<1>6. CASE /\ FindByEmail(e) = {} /\ users' = [users EXCEPT ![r] = NewUser(e, None)]
           /\ \/ /\ loaded' = [loaded EXCEPT ![r] = [id |-> r, roles |-> <<RoleCustomer>>]]
                 /\ Goto(r, "issue")
              \/ Answer(r, "failure") /\ UNCHANGED loaded
  <2> HIDE DEF NewUser
  <2>1. /\ users' \in [UserIDs -> UserRows \cup {None}]
        /\ \A u \in UserIDs \ {r} : users'[u] = users[u]
        /\ users'[r] = NewUser(e, None)
    BY <1>1, <1>2, <1>6 DEF ServiceTypeOK
  <2>2. CASE Answer(r, "failure") /\ UNCHANGED loaded
    BY <1>1, <1>4, <1>6, <2>1, <2>2 DEF ServiceTypeOK
  <2>3. CASE /\ loaded' = [loaded EXCEPT ![r] = [id |-> r, roles |-> <<RoleCustomer>>]]
             /\ Goto(r, "issue")
    <3>1. /\ loaded' \in [Requests -> DomainUsers \cup {None}]
          /\ \A s \in Requests \ {r} : loaded'[s] = loaded[s]
          /\ loaded'[r] \in DomainUsers /\ loaded'[r].id = r
      BY <1>3, <2>3 DEF ServiceTypeOK
    <3> QED
      BY <1>1, <1>4, <1>6, <2>1, <2>3, <3>1
  <2> QED
    BY <1>6, <2>2, <2>3
<1> QED
  BY <1>5, <1>6 DEF InsertUser

\* Issue stores a token row, and hands over an access token, for the user in
\* memory.
LEMMA IssueEffect ==
    ASSUME ServiceTypeOK, NEW r \in Requests, loaded[r] # None, Issue(r)
    PROVE  /\ pc[r] = "issue"
           /\ UNCHANGED <<now, users, op, arg, before, at, loaded>>
           /\ refreshTokens' \in [Requests -> TokenRows \cup {None}]
           /\ accessTokens' \in [Requests -> Claims \cup {None}]
           /\ \A s \in Requests \ {r} : /\ refreshTokens'[s] = refreshTokens[s]
                                        /\ accessTokens'[s] = accessTokens[s]
           /\ refreshTokens'[r] \in TokenRows
           /\ refreshTokens'[r].user = loaded[r].id
           /\ \/ Answer(r, "ok") /\ accessTokens'[r] # None /\ accessTokens'[r].sub = loaded[r].id
              \/ Answer(r, "failure") /\ UNCHANGED accessTokens
<1> DEFINE row == [user |-> loaded[r].id, expiresAt |-> now + refreshTokenTTL, revoked |-> FALSE]
           claims == [sub |-> loaded[r].id, roles |-> loaded[r].roles,
                      exp |-> Unix(now + accessTokenTTL)]
<1>1. loaded[r] \in DomainUsers /\ pc[r] = "issue"
  BY DEF Issue, ServiceTypeOK
<1>2. Unix(now + accessTokenTTL) \in Nat
  BY UnixNat, ServiceAssumption DEF ServiceTypeOK
<1>3. /\ row \in TokenRows /\ claims \in Claims
      /\ row.user = loaded[r].id /\ claims.sub = loaded[r].id
  BY <1>1, <1>2, ServiceAssumption DEF ServiceTypeOK, TokenRows, Claims, DomainUsers
<1>4. /\ refreshTokens' = [refreshTokens EXCEPT ![r] = row]
      /\ UNCHANGED <<now, users, op, arg, before, at, loaded>>
      /\ \/ Answer(r, "ok") /\ accessTokens' = [accessTokens EXCEPT ![r] = claims]
         \/ Answer(r, "failure") /\ UNCHANGED accessTokens
  BY DEF Issue, request
<1> HIDE DEF row, claims
<1>5. /\ refreshTokens' \in [Requests -> TokenRows \cup {None}]
      /\ accessTokens' \in [Requests -> Claims \cup {None}]
      /\ \A s \in Requests \ {r} : /\ refreshTokens'[s] = refreshTokens[s]
                                   /\ accessTokens'[s] = accessTokens[s]
      /\ refreshTokens'[r] = row
  BY <1>3, <1>4 DEF ServiceTypeOK
<1>6. accessTokens' = [accessTokens EXCEPT ![r] = claims] =>
          accessTokens'[r] # None /\ accessTokens'[r].sub = loaded[r].id
  BY <1>3, NoneAssumption DEF ServiceTypeOK
<1> QED
  BY <1>1, <1>3, <1>4, <1>5, <1>6
=============================================================================
