----------------------------- MODULE AuthProofs -----------------------------
(***************************************************************************)
(* Theorems about the whole service, every route running beside every      *)
(* other: the accounts and who owns a session.                             *)
(***************************************************************************)
EXTENDS AuthService, ServiceProofs

-----------------------------------------------------------------------------
(* The inductive invariant *)

Entries     == {"created", "email already registered", "unknown error"}
Credentials == [email : Emails, password : Secrets]
Callbacks   == [state : Requests \cup {None}, code : AuthCodes \cup {None}]
Batches     == [users : UNION {[1 .. n -> Items] : n \in 1 .. MaxBatch}]

\* The bodies of all routes; None among the first.
Bodies == SessionBodies \cup CodeRequests \cup Guesses \cup Callbacks \cup Items \cup Batches

AuthTypeOK ==
    /\ ServiceTypeOK
    /\ arg \in [Requests -> Bodies]
    /\ grants \in [AuthCodes -> Grants \cup {None}]
    /\ report \in [Requests -> Seq(Entries)]

\* The statements of each route, and the body it works on.
SessionRoute(r) ==
    /\ op[r] = "login" => pc[r] \in {"login.find", "issue"} /\ arg[r] \in Credentials
    /\ op[r] = "refresh" =>
          \/ pc[r] = "refresh.find" /\ arg[r] \in HeldTokens \cup {None}
          \/ pc[r] \in {"refresh.load", "refresh.revoke", "issue"} /\ arg[r] \in HeldTokens
    /\ op[r] = "logout" =>
          \/ pc[r] = "logout.find" /\ arg[r] \in HeldTokens \cup {None}
          \/ pc[r] = "logout.revoke" /\ arg[r] \in HeldTokens
    /\ op[r] = "add_role" =>
          pc[r] = "roles.update" /\ arg[r] \in [bearer : HeldTokens, role : {RoleSeller}]

CodeRoute(r) ==
    /\ op[r] = "request_code" => pc[r] \in {"code.insert", "code.send"} /\ arg[r] \in CodeRequests
    /\ op[r] = "verify_code" =>
          /\ pc[r] \in {"verify.find", "verify.increment", "verify.consume", "verify.user",
                        "verify.insert", "issue"}
          /\ arg[r] \in Guesses

GoogleRoute(r) ==
    /\ op[r] # "google_start"
    /\ op[r] = "google_callback" =>
          /\ arg[r] \in Callbacks
          /\ \/ pc[r] = "google.exchange" /\ arg[r].code \in HeldCodes \cup {None}
             \/ /\ pc[r] \in {"google.userinfo", "google.user", "google.insert", "issue"}
                /\ arg[r].code \in HeldCodes
                /\ grants[arg[r].code].spentBy = r
                /\ pc[r] # "google.userinfo" => grants[arg[r].code].verified

AccountRoute(r) ==
    op[r] \in AccountOps =>
        /\ pc[r] \in {"register.exists", "register.insert"}
        /\ op[r] = "bulk_create" =>
              arg[r] \in Batches /\ Position(r) \in 1 .. MaxBatch /\ Position(r) <= Len(arg[r].users)
        /\ Item(r) \in Items
        /\ pc[r] = "register.insert" => Item(r).fits

Route(r) ==
    /\ pc[r] = "idle" => op[r] = None /\ report[r] = <<>>
    /\ out[r] = None <=> pc[r] # "done"
    /\ Active(r) => /\ op[r] \in Routes
                    /\ SessionRoute(r) /\ CodeRoute(r) /\ GoogleRoute(r) /\ AccountRoute(r)

\* Request r may sign for account u: it is the one of the mailbox it has shown, or
\* of the token it presented.
Proven(r, u) ==
    /\ users[u] # None
    /\ op[r] = "google_callback" => arg[r].code \in HeldCodes
    /\ IF op[r] = "refresh" THEN arg[r] \in HeldTokens /\ u = refreshTokens[arg[r]].user
                            ELSE users[u].email.box = ProvenMailbox(r)

\* The user in memory is proven, and the tokens are for that user.
Owner(r) ==
    /\ pc[r] \in {"refresh.revoke", "issue"} => loaded[r] # None
    /\ loaded[r] # None =>
          pc[r] \in {"refresh.revoke", "issue", "done", "crashed"} /\ Proven(r, loaded[r].id)
    /\ refreshTokens[r] # None =>
          pc[r] = "done" /\ loaded[r] # None /\ refreshTokens[r].user = loaded[r].id
    /\ accessTokens[r] # None => refreshTokens[r] # None /\ accessTokens[r].sub = loaded[r].id

\* The accounts named after r are created by r, each once.
Fresh(r) ==
    /\ users[r] # None => pc[r] \in {"issue", "done", "crashed"}
    /\ \A i \in 1 .. MaxBatch : users[<<r, i>>] # None => i <= Len(report[r])

\* Only normalised addresses are stored, each once.
Addresses ==
    /\ \A u \in UserIDs : users[u] # None => users[u].email.lower = TRUE
    /\ OneAccountPerMailbox

AuthInv ==
    /\ AuthTypeOK
    /\ Addresses
    /\ \A r \in Requests : Route(r) /\ Owner(r) /\ Fresh(r)

-----------------------------------------------------------------------------
(* What no step undoes, and whom a step leaves alone *)

\* Account u keeps its address, its password and its roles.
KeepsAccount(u) ==
    /\ users'[u] # None
    /\ users'[u].email = users[u].email
    /\ users'[u].passwordHash = users[u].passwordHash
    /\ \A i \in DOMAIN users[u].roles : users'[u].roles[i] = users[u].roles[i]

\* A new account satisfies the unique constraint.
AddsAccount(u) ==
    /\ users'[u].email.lower = TRUE
    /\ \A v \in UserIDs : users'[v] # None /\ users'[v].email = users'[u].email => v = u

AccountsGrow ==
    \A u \in UserIDs :
        /\ users[u] # None => KeepsAccount(u)
        /\ users[u] = None /\ users'[u] # None => AddsAccount(u)

TokensGrow ==
    \A t \in Requests :
        /\ refreshTokens[t] # None =>
              refreshTokens'[t] # None /\ refreshTokens'[t].user = refreshTokens[t].user
        /\ accessTokens[t] # None => accessTokens'[t] = accessTokens[t]

GrantsGrow ==
    \A code \in AuthCodes : grants[code] # None =>
        /\ grants'[code] # None
        /\ grants'[code].email = grants[code].email
        /\ grants'[code].verified = grants[code].verified
        /\ grants[code].spentBy # None => grants'[code].spentBy = grants[code].spentBy

\* Accounts, tokens and consents stay; a request keeps what it was sent; one that
\* has ended does nothing any more.
Onward ==
    /\ AccountsGrow /\ TokensGrow /\ GrantsGrow
    /\ \A r \in Requests : pc[r] # "idle" => UNCHANGED <<op[r], arg[r], before[r], at[r]>>
    /\ \A r \in Ended : UNCHANGED <<pc[r], out[r], loaded[r], report[r]>>

\* Request s takes no step, or dies.
Aside(s) ==
    /\ pc'[s] = pc[s] \/ (pc'[s] = "crashed" /\ Active(s))
    /\ UNCHANGED <<op[s], arg[s], out[s], before[s], at[s], loaded[s], report[s], accessTokens[s]>>
    /\ refreshTokens'[s] # None => refreshTokens[s] # None
    /\ users'[s] # None => users[s] # None
    /\ \A i \in 1 .. MaxBatch : users'[<<s, i>>] # None => users[<<s, i>>] # None
    /\ \A code \in AuthCodes : grants'[code] # None /\ grants'[code].spentBy = s =>
          grants[code] # None /\ grants[code].spentBy = s

\* The facts that AuthInv keeps of a request.
Settled(r) == Route(r) /\ Owner(r) /\ Fresh(r)

\* When one request that has not ended moves and the tables grow, the step is
\* onward.
LEMMA OnwardByOne ==
    ASSUME AccountsGrow, TokensGrow, GrantsGrow, NEW r \in Requests, r \notin Ended,
           \A s \in Requests \ {r} : Aside(s),
           pc[r] # "idle" => UNCHANGED <<op[r], arg[r], before[r], at[r]>>
    PROVE  Onward
<1>1. \A s \in Ended : s \in Requests \ {r} /\ ~Active(s)
  BY DEF Ended, Active
<1> QED
  BY <1>1 DEF Onward, Aside

\* Tables that are not written grow.
LEMMA TablesSame ==
    /\ UNCHANGED users => AccountsGrow
    /\ UNCHANGED <<refreshTokens, accessTokens>> => TokensGrow
    /\ UNCHANGED grants => GrantsGrow
  BY DEF AccountsGrow, KeepsAccount, TokensGrow, GrantsGrow

\* No mailbox ever has two accounts.
LEMMA AddressesStand ==
    ASSUME AuthInv, AuthTypeOK', AccountsGrow PROVE Addresses'
<1>1. ASSUME NEW u \in UserIDs, users'[u] # None
      PROVE  users'[u].email.lower = TRUE /\ users'[u].email \in Emails
  <2>1. users'[u] \in UserRows
    BY <1>1 DEF AuthTypeOK, ServiceTypeOK
  <2>2. users'[u].email.lower = TRUE
    BY <1>1 DEF AccountsGrow, KeepsAccount, AddsAccount, AuthInv, Addresses
  <2> QED
    BY <2>1, <2>2 DEF UserRows
<1>2. ASSUME NEW e \in Emails, NEW f \in Emails, e.box = f.box, e.lower = f.lower PROVE e = f
  BY <1>2 DEF Emails
<1>3. ASSUME NEW u \in UserIDs, NEW v \in UserIDs, users'[u] # None, users'[v] # None,
             users'[u].email.box = users'[v].email.box
      PROVE  u = v
  <2>1. users'[u].email = users'[v].email
    BY <1>1, <1>2, <1>3
  <2>2. CASE users[u] = None \/ users[v] = None
    BY <1>3, <2>1, <2>2 DEF AccountsGrow, AddsAccount
  <2>3. CASE users[u] # None /\ users[v] # None
    BY <1>3, <2>3 DEF AccountsGrow, KeepsAccount, AuthInv, Addresses, OneAccountPerMailbox
  <2> QED
    BY <2>2, <2>3
<1> QED
  BY <1>1, <1>3 DEF Addresses, OneAccountPerMailbox

\* What r has shown stays shown.
LEMMA ProvenStands ==
    ASSUME AuthInv, AccountsGrow, TokensGrow, GrantsGrow, NEW s \in Requests, NEW u \in UserIDs,
           Proven(s, u), UNCHANGED <<op[s], arg[s]>>
    PROVE  Proven(s, u)'
<1>1. users'[u] # None /\ users'[u].email = users[u].email
  BY DEF Proven, AccountsGrow, KeepsAccount
<1>2. CASE op[s] = "refresh"
  <2>1. arg[s] \in Requests /\ accessTokens[arg[s]] # None /\ refreshTokens[arg[s]] # None
    BY <1>2 DEF Proven, HeldTokens, AuthInv, Owner
  <2> QED
    BY <1>1, <1>2, <2>1 DEF Proven, HeldTokens, TokensGrow
<1>3. CASE op[s] = "google_callback"
  BY <1>1, <1>3 DEF Proven, HeldCodes, GrantsGrow, ProvenMailbox
<1>4. CASE op[s] \notin {"refresh", "google_callback"}
  BY <1>1, <1>4 DEF Proven, ProvenMailbox
<1> QED
  BY <1>2, <1>3, <1>4

\* The facts about a request stand while it takes no step, or dies.
LEMMA AsideStands ==
    ASSUME AuthInv, AuthTypeOK', Onward, NEW s \in Requests, Aside(s)
    PROVE  Settled(s)'
<1>0. AuthTypeOK /\ ServiceTypeOK /\ Route(s) /\ Owner(s) /\ Fresh(s)
  BY DEF AuthInv, AuthTypeOK
<1>1. /\ UNCHANGED <<op[s], arg[s], out[s], loaded[s], report[s], accessTokens[s]>>
      /\ pc'[s] = pc[s] \/ (pc'[s] = "crashed" /\ pc[s] \notin {"idle", "done", "crashed"})
      /\ HeldTokens \subseteq HeldTokens' /\ HeldCodes \subseteq HeldCodes'
      /\ Active(s)' => Active(s) /\ pc'[s] = pc[s]
  BY DEF Aside, Active, Ended, Onward, TokensGrow, GrantsGrow, HeldTokens, HeldCodes
<1>2. Route(s)'
  <2>1. ASSUME Active(s)' PROVE SessionRoute(s)' /\ CodeRoute(s)'
    BY <1>0, <1>1, <2>1 DEF Route, SessionRoute, CodeRoute
  <2>2. ASSUME Active(s)' PROVE GoogleRoute(s)'
    <3>1. GoogleRoute(s) /\ pc'[s] = pc[s]
      BY <1>0, <1>1, <2>2 DEF Route
    <3>2. ASSUME op[s] = "google_callback", arg[s].code \in HeldCodes, grants[arg[s].code].spentBy = s
          PROVE  /\ grants'[arg[s].code].spentBy = s
                 /\ grants[arg[s].code].verified => grants'[arg[s].code].verified
      BY <3>2, ServiceAssumption DEF Onward, GrantsGrow, HeldCodes
    <3> QED
      BY <1>1, <3>1, <3>2 DEF GoogleRoute
  <2>3. ASSUME Active(s)' PROVE AccountRoute(s)'
    BY <1>0, <1>1, <2>3 DEF Route, AccountRoute, Item, Position
  <2> QED
    BY <1>0, <1>1, <2>1, <2>2, <2>3 DEF Route
<1>3. Owner(s)'
  <2>1. ASSUME loaded[s] # None PROVE Proven(s, loaded[s].id)'
    <3>1. loaded[s].id \in UserIDs /\ Proven(s, loaded[s].id)
      BY <1>0, <2>1 DEF ServiceTypeOK, DomainUsers, Owner
    <3>2. Proven(s, loaded[s].id)'
      BY <1>1, <3>1, ProvenStands DEF Onward, Proven, ProvenMailbox
    <3> QED
      BY <3>2
  <2>2. refreshTokens'[s] # None =>
           refreshTokens[s] # None /\ refreshTokens'[s].user = refreshTokens[s].user
    BY DEF Aside, Onward, TokensGrow
  <2>3. refreshTokens[s] # None => refreshTokens'[s] # None
    BY DEF Onward, TokensGrow
  <2> QED
    BY <1>0, <1>1, <2>1, <2>2, <2>3 DEF Owner
<1>4. Fresh(s)'
  BY <1>0, <1>1 DEF Fresh, Aside
<1> QED
  BY <1>2, <1>3, <1>4 DEF Settled

-----------------------------------------------------------------------------
(* Steps that write no table *)

\* Request r arrives, goes on or is answered, and writes nothing that AuthInv
\* speaks of.
LEMMA QuietMove ==
    ASSUME AuthInv, NEW r \in Requests, r \notin Ended,
           UNCHANGED <<now, users, refreshTokens, accessTokens, loaded, grants, report>>,
           op' \in [Requests -> Operations \cup {None}], arg' \in [Requests -> Bodies],
           before' \in [Requests -> SUBSET Requests], at' \in [Requests -> Nat],
           \A s \in Requests \ {r} : UNCHANGED <<op[s], arg[s], before[s], at[s]>>,
           pc[r] # "idle" => UNCHANGED <<op[r], arg[r], before[r], at[r]>>,
           NEW x,
           \/ x \in Results /\ Answer(r, x)
           \/ /\ x \in Statements \ {"idle", "done", "crashed", "refresh.revoke", "issue"}
              /\ Goto(r, x) /\ pc[r] \notin {"refresh.revoke", "issue"}
              /\ op'[r] \in Routes
              /\ SessionRoute(r)' /\ CodeRoute(r)' /\ GoogleRoute(r)' /\ AccountRoute(r)'
    PROVE  AuthTypeOK' /\ Onward /\ Settled(r)' /\ \A s \in Requests \ {r} : Aside(s)
<1>0. /\ AuthTypeOK /\ ServiceTypeOK /\ Route(r) /\ Owner(r) /\ Fresh(r) /\ None \notin Results
      /\ pc[r] \notin {"done", "crashed"}
  BY NoneAssumption DEF AuthInv, AuthTypeOK, Ended
<1>1. /\ pc' \in [Requests -> Statements] /\ out' \in [Requests -> Results \cup {None}]
      /\ \A s \in Requests \ {r} : pc'[s] = pc[s] /\ out'[s] = out[s]
  BY <1>0, Moves
<1>2. AuthTypeOK'
  BY <1>0, <1>1 DEF AuthTypeOK, ServiceTypeOK
<1>3. \A s \in Requests \ {r} : Aside(s)
  BY <1>1 DEF Aside
<1>4. Onward
  BY <1>3, OnwardByOne, TablesSame
<1>5. out[r] = None /\ refreshTokens[r] = None /\ accessTokens[r] = None
  BY <1>0 DEF Route, Owner
<1>6. CASE x \in Results /\ Answer(r, x)
  <2>1. pc'[r] = "done" /\ out'[r] = x
    BY <1>0, <1>6 DEF Answer, ServiceTypeOK
  <2>2. Route(r)'
    BY <1>0, <1>6, <2>1 DEF Route, Active, Ended
  <2>3. Owner(r)'
    <3>1. CASE loaded[r] = None
      BY <1>5, <2>1, <3>1 DEF Owner
    <3>2. CASE loaded[r] # None
      <4>1. /\ pc[r] # "idle" /\ UNCHANGED <<op[r], arg[r]>>
            /\ loaded[r].id \in UserIDs /\ Proven(r, loaded[r].id)
        BY <1>0, <3>2 DEF Owner, ServiceTypeOK, DomainUsers
      <4>2. Proven(r, loaded[r].id)'
        BY <4>1, ProvenStands, TablesSame
      <4> QED
        BY <1>5, <2>1, <3>2, <4>2 DEF Owner
    <3> QED
      BY <3>1, <3>2
  <2>4. Fresh(r)'
    BY <1>0, <2>1 DEF Fresh
  <2> QED
    BY <1>2, <1>3, <1>4, <2>2, <2>3, <2>4 DEF Settled
<1>7. CASE /\ x \in Statements \ {"idle", "done", "crashed", "refresh.revoke", "issue"}
           /\ Goto(r, x) /\ pc[r] \notin {"refresh.revoke", "issue"}
           /\ op'[r] \in Routes
           /\ SessionRoute(r)' /\ CodeRoute(r)' /\ GoogleRoute(r)' /\ AccountRoute(r)'
  <2>1. pc'[r] = x /\ out'[r] = None
    BY <1>0, <1>5, <1>7 DEF Goto, ServiceTypeOK
  <2>2. Route(r)'
    BY <1>7, <2>1 DEF Route
  <2>3. Owner(r)' /\ Fresh(r)'
    BY <1>0, <1>5, <1>7, <2>1 DEF Owner, Fresh
  <2> QED
    BY <1>2, <1>3, <1>4, <2>2, <2>3 DEF Settled
<1> QED
  BY <1>6, <1>7

\* An arrival: QuietMove with a new body.
LEMMA ArrivalMove ==
    ASSUME AuthInv, NEW r \in Requests, NEW route, NEW body \in Bodies,
           Arrive(r, route, body),
           UNCHANGED <<now, users, refreshTokens, accessTokens, loaded, grants, report>>,
           NEW x,
           \/ x \in Results /\ Answer(r, x)
           \/ /\ x \in Statements \ {"idle", "done", "crashed", "refresh.revoke", "issue"}
              /\ Goto(r, x)
              /\ op'[r] = route /\ arg'[r] = body /\ pc'[r] = x =>
                    SessionRoute(r)' /\ CodeRoute(r)' /\ GoogleRoute(r)' /\ AccountRoute(r)'
    PROVE  AuthTypeOK' /\ Onward /\ Settled(r)' /\ \A s \in Requests \ {r} : Aside(s)
<1>0. AuthTypeOK /\ ServiceTypeOK /\ Ended \in SUBSET Requests
  BY DEF AuthInv, AuthTypeOK, Ended
<1>1. /\ pc[r] = "idle" /\ route \in Operations /\ route \in Routes
      /\ op' \in [Requests -> Operations \cup {None}] /\ arg' \in [Requests -> Bodies]
      /\ before' \in [Requests -> SUBSET Requests] /\ at' \in [Requests -> Nat]
      /\ op'[r] = route /\ arg'[r] = body
      /\ \A s \in Requests \ {r} : UNCHANGED <<op[s], arg[s], before[s], at[s]>>
  BY <1>0, ServiceAssumption DEF Arrive, AuthTypeOK, ServiceTypeOK
<1>2. r \notin Ended
  BY <1>1 DEF Ended
<1>3. Goto(r, x) => pc'[r] = x
  BY <1>0 DEF Goto, ServiceTypeOK
<1> QED
  BY <1>1, <1>2, <1>3, QuietMove

\* A statement that writes no table: QuietMove with the same body.
LEMMA StatementMove ==
    ASSUME AuthInv, NEW r \in Requests, Active(r),
           UNCHANGED <<now, users, refreshTokens, accessTokens, op, arg, before, at, loaded,
                       grants, report>>,
           NEW x,
           \/ x \in Results /\ Answer(r, x)
           \/ /\ x \in Statements \ {"idle", "done", "crashed", "refresh.revoke", "issue"}
              /\ Goto(r, x) /\ pc[r] \notin {"refresh.revoke", "issue"}
              /\ pc'[r] = x =>
                    SessionRoute(r)' /\ CodeRoute(r)' /\ GoogleRoute(r)' /\ AccountRoute(r)'
    PROVE  AuthTypeOK' /\ Onward /\ Settled(r)' /\ \A s \in Requests \ {r} : Aside(s)
<1>0. AuthTypeOK /\ ServiceTypeOK /\ Route(r) /\ r \notin Ended
  BY DEF AuthInv, AuthTypeOK, Active
<1>1. /\ op' \in [Requests -> Operations \cup {None}] /\ arg' \in [Requests -> Bodies]
      /\ before' \in [Requests -> SUBSET Requests] /\ at' \in [Requests -> Nat]
      /\ op'[r] \in Routes
      /\ \A s \in Requests \ {r} : UNCHANGED <<op[s], arg[s], before[s], at[s]>>
  BY <1>0 DEF AuthTypeOK, ServiceTypeOK, Route
<1>2. Goto(r, x) => pc'[r] = x
  BY <1>0 DEF Goto, ServiceTypeOK
<1> QED
  BY <1>0, <1>1, <1>2, QuietMove

-----------------------------------------------------------------------------
(* Arrivals *)

\* The users of a batch are a list that is no longer than MaxBatch.
LEMMA BatchLength ==
    ASSUME NEW n \in 1 .. MaxBatch, NEW items \in [1 .. n -> Items]
    PROVE  Len(items) = n /\ items \in Seq(Items) /\ [users |-> items] \in Batches
<1>1. n \in Nat
  BY ServiceAssumption
<1>2. Len(items) = n /\ items \in Seq(Items)
  BY <1>1
<1> QED
  BY <1>2 DEF Batches

\* Every arrival finds the request at its start.
LEMMA Arrivals ==
    ASSUME AuthInv, NEW r \in Requests, AuthArrive(r)
    PROVE  AuthTypeOK' /\ Onward /\ Settled(r)' /\ \A s \in Requests \ {r} : Aside(s)
<1> DEFINE Quiet == UNCHANGED <<now, users, refreshTokens, accessTokens, loaded, grants, report>>
<1> USE DEF Results, Statements
<1>0. /\ AuthTypeOK /\ ServiceTypeOK /\ Route(r) /\ None \in Bodies
  BY DEF AuthInv, AuthTypeOK, Bodies, SessionBodies
<1>1. CASE SessionArrive(r) /\ UNCHANGED <<codeVars, grants, report>>
  <2>1. Quiet
    BY <1>1 DEF SessionArrive, ArriveMalformed, ArriveLogin, ArriveRefresh, ArriveLogout,
       ArriveAddRole, tables
  <2>2. CASE ArriveMalformed(r)
    BY <1>0, <2>1, <2>2, ArrivalMove DEF ArriveMalformed
  <2>3. CASE ArriveLogin(r)
    <3>1. PICK e \in Typed, p \in Secrets : Arrive(r, "login", [email |-> e, password |-> p])
      BY <2>3 DEF ArriveLogin
    <3>2. [email |-> e, password |-> p] \in Credentials /\ Credentials \subseteq Bodies
      BY ServiceAssumption DEF Credentials, Bodies, SessionBodies, Typed, Emails
    <3>3. op'[r] = "login" /\ arg'[r] \in Credentials /\ pc'[r] = "login.find" =>
              SessionRoute(r)' /\ CodeRoute(r)' /\ GoogleRoute(r)' /\ AccountRoute(r)'
      BY DEF SessionRoute, CodeRoute, GoogleRoute, AccountRoute, AccountOps
    <3>4. Goto(r, "login.find")
      BY <2>3 DEF ArriveLogin
    <3> HIDE DEF Quiet
    <3> QED
      BY <2>1, <3>1, <3>2, <3>3, <3>4, ArrivalMove DEF Quiet
  <2>4. CASE ArriveRefresh(r)
    <3>1. PICK t \in HeldTokens \cup {None} : Arrive(r, "refresh", t)
      BY <2>4 DEF ArriveRefresh
    <3>2. t \in Bodies /\ HeldTokens' = HeldTokens
      BY <2>1 DEF HeldTokens, Bodies, SessionBodies
    <3>3. op'[r] = "refresh" /\ arg'[r] = t /\ pc'[r] = "refresh.find" =>
              SessionRoute(r)' /\ CodeRoute(r)' /\ GoogleRoute(r)' /\ AccountRoute(r)'
      BY <3>2 DEF SessionRoute, CodeRoute, GoogleRoute, AccountRoute, AccountOps
    <3>4. Goto(r, "refresh.find")
      BY <2>4 DEF ArriveRefresh
    <3> QED
      BY <2>1, <3>1, <3>2, <3>3, <3>4, ArrivalMove
  <2>5. CASE ArriveLogout(r)
    <3>1. PICK t \in HeldTokens \cup {None} : Arrive(r, "logout", t)
      BY <2>5 DEF ArriveLogout
    <3>2. t \in Bodies /\ HeldTokens' = HeldTokens
      BY <2>1 DEF HeldTokens, Bodies, SessionBodies
    <3>3. op'[r] = "logout" /\ arg'[r] = t /\ pc'[r] = "logout.find" =>
              SessionRoute(r)' /\ CodeRoute(r)' /\ GoogleRoute(r)' /\ AccountRoute(r)'
      BY <3>2 DEF SessionRoute, CodeRoute, GoogleRoute, AccountRoute, AccountOps
    <3>4. Goto(r, "logout.find")
      BY <2>5 DEF ArriveLogout
    <3> QED
      BY <2>1, <3>1, <3>2, <3>3, <3>4, ArrivalMove
  <2>6. CASE ArriveAddRole(r)
    <3>1. PICK bearer \in HeldTokens \cup {None}, role \in {RoleSeller, RoleCustomer, None} :
             /\ Arrive(r, "add_role", [bearer |-> bearer, role |-> role])
             /\ \/ \E x \in Results : Answer(r, x)
                \/ bearer # None /\ role = RoleSeller /\ Goto(r, "roles.update")
      BY <2>6 DEF ArriveAddRole, RequireAuth
    <3> DEFINE body == [bearer |-> bearer, role |-> role]
    <3>2. body \in Bodies /\ HeldTokens' = HeldTokens
      BY <2>1 DEF HeldTokens, Bodies, SessionBodies
    <3>3. CASE \E x \in Results : Answer(r, x)
      BY <2>1, <3>1, <3>2, <3>3, ArrivalMove
    <3>4. CASE bearer # None /\ role = RoleSeller /\ Goto(r, "roles.update")
      <4>1. body \in [bearer : HeldTokens', role : {RoleSeller}]
        BY <3>2, <3>4
      <4> HIDE DEF body
      <4>2. op'[r] = "add_role" /\ arg'[r] = body /\ pc'[r] = "roles.update" =>
               SessionRoute(r)' /\ CodeRoute(r)' /\ GoogleRoute(r)' /\ AccountRoute(r)'
        BY <4>1 DEF SessionRoute, CodeRoute, GoogleRoute, AccountRoute, AccountOps
      <4> QED
        BY <2>1, <3>1, <3>2, <3>4, <4>2, ArrivalMove DEF body
    <3> QED
      BY <3>1, <3>3, <3>4
  <2> QED
    BY <1>1, <2>2, <2>3, <2>4, <2>5, <2>6 DEF SessionArrive
<1>2. CASE PasswordlessArrive(r) /\ UNCHANGED <<grants, report>>
  <2>1. Quiet
    BY <1>2 DEF PasswordlessArrive, ArriveRequestCode, ArriveVerifyCode, tables
  <2>2. CASE ArriveRequestCode(r)
    <3>1. PICK e \in Typed : Arrive(r, "request_code", [email |-> e])
      BY <2>2 DEF ArriveRequestCode
    <3>2. [email |-> e] \in CodeRequests /\ CodeRequests \subseteq Bodies
      BY ServiceAssumption DEF CodeRequests, Bodies, Typed, Emails
    <3>3. op'[r] = "request_code" /\ arg'[r] \in CodeRequests /\ pc'[r] = "code.insert" =>
              SessionRoute(r)' /\ CodeRoute(r)' /\ GoogleRoute(r)' /\ AccountRoute(r)'
      BY DEF SessionRoute, CodeRoute, GoogleRoute, AccountRoute, AccountOps
    <3>4. Goto(r, "code.insert")
      BY <2>2 DEF ArriveRequestCode
    <3> QED
      BY <2>1, <3>1, <3>2, <3>3, <3>4, ArrivalMove
  <2>3. CASE ArriveVerifyCode(r)
    <3>1. PICK e \in Typed, guess \in CodeValues :
             Arrive(r, "verify_code", [email |-> e, code |-> guess])
      BY <2>3 DEF ArriveVerifyCode
    <3>2. [email |-> e, code |-> guess] \in Guesses /\ Guesses \subseteq Bodies
      BY ServiceAssumption DEF Guesses, Bodies, Typed, Emails
    <3>3. op'[r] = "verify_code" /\ arg'[r] \in Guesses /\ pc'[r] = "verify.find" =>
              SessionRoute(r)' /\ CodeRoute(r)' /\ GoogleRoute(r)' /\ AccountRoute(r)'
      BY DEF SessionRoute, CodeRoute, GoogleRoute, AccountRoute, AccountOps
    <3>4. Goto(r, "verify.find")
      BY <2>3 DEF ArriveVerifyCode
    <3> QED
      BY <2>1, <3>1, <3>2, <3>3, <3>4, ArrivalMove
  <2> QED
    BY <1>2, <2>2, <2>3 DEF PasswordlessArrive
<1>3. CASE GoogleArrive(r) /\ UNCHANGED <<codeVars, report>>
  <2>1. Quiet
    BY <1>3 DEF GoogleArrive, ArriveGoogleStart, ArriveGoogleCallback, tables
  <2>2. CASE ArriveGoogleStart(r)
    BY <1>0, <2>1, <2>2, ArrivalMove DEF ArriveGoogleStart
  <2>3. CASE ArriveGoogleCallback(r)
    <3>1. PICK s \in HeldStates \cup {None}, code \in HeldCodes \cup {None} :
             /\ Arrive(r, "google_callback", [state |-> s, code |-> code])
             /\ Goto(r, "google.exchange") \/ Answer(r, "ErrOAuthStateInvalid")
      BY <2>3 DEF ArriveGoogleCallback
    <3> DEFINE body == [state |-> s, code |-> code]
    <3>2. /\ body \in Callbacks /\ body.code \in HeldCodes \cup {None}
          /\ Callbacks \subseteq Bodies /\ HeldCodes' = HeldCodes
      BY <2>1 DEF HeldStates, HeldCodes, Callbacks, Bodies
    <3> HIDE DEF body
    <3>3. op'[r] = "google_callback" /\ arg'[r] = body /\ pc'[r] = "google.exchange" =>
              SessionRoute(r)' /\ CodeRoute(r)' /\ GoogleRoute(r)' /\ AccountRoute(r)'
      BY <3>2 DEF SessionRoute, CodeRoute, GoogleRoute, AccountRoute, AccountOps
    <3> QED
      BY <2>1, <3>1, <3>2, <3>3, ArrivalMove DEF body
  <2> QED
    BY <1>3, <2>2, <2>3 DEF GoogleArrive
<1>4. CASE AccountsArrive(r) /\ UNCHANGED <<codeVars, grants>>
  <2>1. Quiet
    BY <1>4 DEF AccountsArrive, ArriveRegister, ArriveBulkCreate, tables
  <2>2. CASE ArriveRegister(r)
    <3>1. PICK item \in Items : Arrive(r, "register", item)
      BY <2>2 DEF ArriveRegister
    <3>2. item \in Bodies
      BY DEF Bodies
    <3>3. op'[r] = "register" /\ arg'[r] \in Items /\ pc'[r] = "register.exists" =>
              SessionRoute(r)' /\ CodeRoute(r)' /\ GoogleRoute(r)' /\ AccountRoute(r)'
      BY DEF SessionRoute, CodeRoute, GoogleRoute, AccountRoute, AccountOps, Item
    <3>4. Goto(r, "register.exists")
      BY <2>2 DEF ArriveRegister
    <3> QED
      BY <2>1, <3>1, <3>2, <3>3, <3>4, ArrivalMove
  <2>3. CASE \E x \in Results : Arrive(r, "bulk_create", None) /\ Answer(r, x)
    BY <1>0, <2>1, <2>3, ArrivalMove
  <2>4. CASE /\ \E n \in 1 .. MaxBatch : \E items \in [1 .. n -> Items] :
                   Arrive(r, "bulk_create", [users |-> items])
             /\ Goto(r, "register.exists")
    <3>1. PICK n \in 1 .. MaxBatch : \E items \in [1 .. n -> Items] :
             Arrive(r, "bulk_create", [users |-> items])
      BY <2>4
    <3>2. PICK items \in [1 .. n -> Items] : Arrive(r, "bulk_create", [users |-> items])
      BY <3>1
    <3> DEFINE body == [users |-> items]
    <3>3. body \in Batches /\ body \in Bodies /\ body.users = items /\ Len(items) = n
      BY BatchLength DEF Bodies
    <3>4. report[r] = <<>>
      BY <1>0, <3>2 DEF Route, Arrive
    <3>5. n \in Nat /\ 1 <= n /\ 1 \in 1 .. MaxBatch
      BY ServiceAssumption
    <3>6. Position(r)' = 1 /\ items[1] \in Items
      BY <2>1, <3>4, <3>5 DEF Position
    <3> HIDE DEF body
    <3>7. op'[r] = "bulk_create" /\ arg'[r] = body /\ pc'[r] = "register.exists" => AccountRoute(r)'
      BY <3>3, <3>5, <3>6 DEF AccountRoute, AccountOps, Item
    <3>8. op'[r] = "bulk_create" => SessionRoute(r)' /\ CodeRoute(r)' /\ GoogleRoute(r)'
      BY DEF SessionRoute, CodeRoute, GoogleRoute
    <3> QED
      BY <2>1, <2>4, <3>2, <3>3, <3>7, <3>8, ArrivalMove DEF body
  <2> QED
    BY <1>4, <2>2, <2>3, <2>4 DEF AccountsArrive, ArriveBulkCreate, RefuseWithoutKey
<1> QED
  BY <1>1, <1>2, <1>3, <1>4 DEF AuthArrive

-----------------------------------------------------------------------------
(* Steps that write a table or load a user *)

\* A use case loads a user it may sign for.
LEMMA LoadMove ==
    ASSUME AuthInv, NEW r \in Requests, Active(r), pc[r] \notin {"refresh.revoke", "issue"},
           UNCHANGED <<now, users, refreshTokens, accessTokens, op, arg, before, at, grants, report>>,
           loaded' \in [Requests -> DomainUsers \cup {None}],
           \A s \in Requests \ {r} : loaded'[s] = loaded[s],
           NEW u \in UserIDs, Proven(r, u), loaded'[r] \in DomainUsers, loaded'[r].id = u,
           NEW x \in {"refresh.revoke", "issue"}, Goto(r, x),
           pc'[r] = x => SessionRoute(r)' /\ CodeRoute(r)' /\ GoogleRoute(r)' /\ AccountRoute(r)'
    PROVE  AuthTypeOK' /\ Onward /\ Settled(r)' /\ \A s \in Requests \ {r} : Aside(s)
<1>0. /\ AuthTypeOK /\ ServiceTypeOK /\ Route(r) /\ Owner(r) /\ Fresh(r) /\ r \notin Ended
      /\ pc[r] \notin {"idle", "done", "crashed"}
  BY DEF AuthInv, AuthTypeOK, Active, Ended
<1>1. /\ pc' \in [Requests -> Statements] /\ out' \in [Requests -> Results \cup {None}]
      /\ \A s \in Requests \ {r} : pc'[s] = pc[s] /\ out'[s] = out[s]
  BY <1>0, Moves DEF Statements
<1>2. AuthTypeOK'
  BY <1>0, <1>1 DEF AuthTypeOK, ServiceTypeOK
<1>3. \A s \in Requests \ {r} : Aside(s)
  BY <1>1 DEF Aside
<1>4. Onward
  BY <1>0, <1>3, OnwardByOne, TablesSame
<1>5. pc'[r] = x /\ out'[r] = None
  BY <1>0 DEF Goto, ServiceTypeOK, Route
<1>6. Route(r)'
  BY <1>0, <1>5 DEF Route
<1>7. Proven(r, u)'
  BY ProvenStands, TablesSame
<1>8. Owner(r)'
  <2>1. refreshTokens'[r] = None /\ accessTokens'[r] = None
    BY <1>0 DEF Owner
  <2>2. loaded'[r] # None
    BY NoneAssumption
  <2>3. Proven(r, loaded[r].id)'
    BY <1>7 DEF Proven
  <2> QED
    BY <1>5, <2>1, <2>2, <2>3 DEF Owner
<1>9. Fresh(r)'
  BY <1>0, <1>5 DEF Fresh
<1> QED
  BY <1>2, <1>3, <1>4, <1>6, <1>8, <1>9 DEF Settled

\* The use case of a sign-in inserts the account of the mailbox it was shown.
LEMMA InsertMove ==
    ASSUME AuthInv, NEW r \in Requests, pc[r] \in {"verify.insert", "google.insert"},
           op[r] \in {"verify_code", "google_callback"},
           op[r] = "google_callback" => arg[r].code \in HeldCodes,
           NEW e \in Emails, e.lower = TRUE, e.box = ProvenMailbox(r),
           InsertUser(r, e), UNCHANGED <<grants, report>>,
           pc'[r] = "issue" =>
               SessionRoute(r)' /\ CodeRoute(r)' /\ GoogleRoute(r)' /\ AccountRoute(r)'
    PROVE  AuthTypeOK' /\ Onward /\ Settled(r)' /\ \A s \in Requests \ {r} : Aside(s)
<1>0. /\ AuthTypeOK /\ ServiceTypeOK /\ Route(r) /\ Owner(r) /\ Fresh(r) /\ r \notin Ended
      /\ None \notin Results /\ r \in UserIDs
  BY NoneAssumption DEF AuthInv, AuthTypeOK, Ended, UserIDs
<1>1. users[r] = None /\ loaded[r] = None /\ refreshTokens[r] = None /\ accessTokens[r] = None
      /\ out[r] = None /\ Active(r)
  BY <1>0 DEF Fresh, Owner, Route, Active
<1>2. /\ UNCHANGED <<now, refreshTokens, accessTokens, op, arg, before, at>>
      /\ users' \in [UserIDs -> UserRows \cup {None}]
      /\ loaded' \in [Requests -> DomainUsers \cup {None}]
      /\ \A u \in UserIDs \ {r} : users'[u] = users[u]
      /\ \A s \in Requests \ {r} : loaded'[s] = loaded[s]
      /\ users'[r] # None => users'[r] = NewUser(e, None) /\ FindByEmail(e) = {}
      /\ \/ Goto(r, "issue") /\ loaded'[r] \in DomainUsers /\ loaded'[r].id = r /\ users'[r] # None
         \/ Answer(r, "failure") /\ UNCHANGED loaded
  BY <1>0, <1>1, InsertUserEffect
<1>3. /\ pc' \in [Requests -> Statements] /\ out' \in [Requests -> Results \cup {None}]
      /\ \A s \in Requests \ {r} : pc'[s] = pc[s] /\ out'[s] = out[s]
  BY <1>0, <1>2, Moves DEF Statements, Results
<1>4. AuthTypeOK'
  BY <1>0, <1>2, <1>3 DEF AuthTypeOK, ServiceTypeOK
<1>5. \A s \in Requests \ {r} : Aside(s)
  <2>1. ASSUME NEW s \in Requests \ {r} PROVE users'[s] = users[s]
    BY <1>2 DEF UserIDs
  <2>2. ASSUME NEW s \in Requests, NEW i \in 1 .. MaxBatch PROVE users'[<<s, i>>] = users[<<s, i>>]
    BY <1>2, ServiceAssumption DEF UserIDs
  <2> QED
    BY <1>2, <1>3, <2>1, <2>2 DEF Aside
<1>6. AccountsGrow
  <2>1. ASSUME users'[r] # None PROVE AddsAccount(r)
    <3>1. users'[r].email = e /\ FindByEmail(e) = {}
      BY <1>2, <2>1 DEF NewUser
    <3> QED
      BY <1>2, <3>1 DEF AddsAccount, FindByEmail
  <2>2. ASSUME NEW u \in UserIDs \ {r}, users[u] # None PROVE KeepsAccount(u)
    BY <1>2, <2>2 DEF KeepsAccount
  <2> QED
    BY <1>1, <1>2, <2>1, <2>2 DEF AccountsGrow
<1>7. Onward
  BY <1>0, <1>2, <1>5, <1>6, OnwardByOne, TablesSame
<1>8. CASE Goto(r, "issue") /\ loaded'[r] \in DomainUsers /\ loaded'[r].id = r /\ users'[r] # None
  <2>1. pc'[r] = "issue" /\ out'[r] = None
    BY <1>0, <1>1, <1>8 DEF Goto, ServiceTypeOK
  <2>2. Route(r)'
    BY <1>0, <1>1, <1>2, <2>1 DEF Route
  <2>3. Proven(r, r)'
    <3>1. users'[r].email = e
      BY <1>2, <1>8 DEF NewUser
    <3>2. HeldCodes' = HeldCodes /\ ProvenMailbox(r)' = ProvenMailbox(r)
      BY <1>2 DEF HeldCodes, ProvenMailbox
    <3> QED
      BY <1>2, <1>8, <3>1, <3>2 DEF Proven
  <2>4. Owner(r)'
    <3>1. Proven(r, loaded[r].id)'
      BY <1>8, <2>3 DEF Proven
    <3>2. loaded'[r] # None
      BY <1>8, NoneAssumption
    <3> QED
      BY <1>1, <1>2, <2>1, <3>1, <3>2 DEF Owner
  <2>5. Fresh(r)'
    <3>1. \A i \in 1 .. MaxBatch : users'[<<r, i>>] = users[<<r, i>>]
      BY <1>2, ServiceAssumption DEF UserIDs
    <3> QED
      BY <1>0, <2>1, <3>1 DEF Fresh
  <2> QED
    BY <1>4, <1>5, <1>7, <2>2, <2>4, <2>5 DEF Settled
<1>9. CASE Answer(r, "failure") /\ UNCHANGED loaded
  <2>1. pc'[r] = "done" /\ out'[r] = "failure"
    BY <1>0, <1>9 DEF Answer, ServiceTypeOK
  <2>2. Route(r)'
    BY <1>0, <2>1 DEF Route, Active, Ended, Results
  <2>3. Owner(r)'
    BY <1>1, <1>2, <1>9, <2>1 DEF Owner
  <2>4. Fresh(r)'
    <3>1. \A i \in 1 .. MaxBatch : users'[<<r, i>>] = users[<<r, i>>]
      BY <1>2, ServiceAssumption DEF UserIDs
    <3> QED
      BY <1>0, <2>1, <3>1 DEF Fresh
  <2> QED
    BY <1>4, <1>5, <1>7, <2>2, <2>3, <2>4 DEF Settled
<1> QED
  BY <1>2, <1>8, <1>9

\* Any sign-in stores its tokens.
LEMMA IssueMove ==
    ASSUME AuthInv, NEW r \in Requests, Issue(r), UNCHANGED <<grants, report>>
    PROVE  AuthTypeOK' /\ Onward /\ Settled(r)' /\ \A s \in Requests \ {r} : Aside(s)
<1>0. /\ AuthTypeOK /\ ServiceTypeOK /\ Route(r) /\ Owner(r) /\ Fresh(r) /\ pc[r] = "issue"
      /\ None \notin Results \cup TokenRows
  BY NoneAssumption DEF AuthInv, AuthTypeOK, Issue
<1>1. /\ loaded[r] # None /\ refreshTokens[r] = None /\ accessTokens[r] = None /\ r \notin Ended
      /\ loaded[r].id \in UserIDs /\ Proven(r, loaded[r].id)
  BY <1>0 DEF Owner, Ended, ServiceTypeOK, DomainUsers
<1>2. /\ UNCHANGED <<now, users, op, arg, before, at, loaded>>
      /\ refreshTokens' \in [Requests -> TokenRows \cup {None}]
      /\ accessTokens' \in [Requests -> Claims \cup {None}]
      /\ \A s \in Requests \ {r} : /\ refreshTokens'[s] = refreshTokens[s]
                                   /\ accessTokens'[s] = accessTokens[s]
      /\ refreshTokens'[r] \in TokenRows /\ refreshTokens'[r].user = loaded[r].id
      /\ \/ Answer(r, "ok") /\ accessTokens'[r] # None /\ accessTokens'[r].sub = loaded[r].id
         \/ Answer(r, "failure") /\ UNCHANGED accessTokens
  BY <1>0, <1>1, IssueEffect
<1>3. /\ pc' \in [Requests -> Statements] /\ out' \in [Requests -> Results \cup {None}]
      /\ \A s \in Requests \ {r} : pc'[s] = pc[s] /\ out'[s] = out[s]
  BY <1>0, <1>2, Moves DEF Results
<1>4. AuthTypeOK'
  BY <1>0, <1>2, <1>3 DEF AuthTypeOK, ServiceTypeOK
<1>5. \A s \in Requests \ {r} : Aside(s)
  BY <1>2, <1>3 DEF Aside
<1>6. TokensGrow
  BY <1>1, <1>2 DEF TokensGrow
<1>7. Onward
  BY <1>1, <1>2, <1>5, <1>6, OnwardByOne, TablesSame
<1>8. pc'[r] = "done" /\ out'[r] \in {"ok", "failure"}
  BY <1>0, <1>2 DEF Answer, ServiceTypeOK
<1>9. Route(r)'
  BY <1>0, <1>8 DEF Route, Active, Ended, Results
<1>10. Proven(r, loaded[r].id)'
  BY <1>1, <1>2, <1>6, ProvenStands, TablesSame
<1>11. Owner(r)'
  BY <1>0, <1>1, <1>2, <1>8, <1>10 DEF Owner
<1>12. Fresh(r)'
  BY <1>0, <1>2, <1>8 DEF Fresh
<1> QED
  BY <1>4, <1>5, <1>7, <1>9, <1>11, <1>12 DEF Settled

\* A rotation or a logout revokes the token presented.
LEMMA RevokeMove ==
    ASSUME AuthInv, NEW r \in Requests, pc[r] \in {"refresh.revoke", "logout.revoke"},
           arg[r] \in HeldTokens, Revoke(arg[r]),
           UNCHANGED <<now, users, accessTokens, op, arg, before, at, loaded, grants, report>>,
           \/ pc[r] = "refresh.revoke" /\ op[r] = "refresh" /\ Goto(r, "issue")
           \/ Answer(r, "ok") \/ Answer(r, "failure")
    PROVE  AuthTypeOK' /\ Onward /\ Settled(r)' /\ \A s \in Requests \ {r} : Aside(s)
<1>0. /\ AuthTypeOK /\ ServiceTypeOK /\ Route(r) /\ Owner(r) /\ Fresh(r) /\ r \notin Ended
      /\ None \notin Results
  BY NoneAssumption DEF AuthInv, AuthTypeOK, Ended
<1>1. arg[r] \in Requests /\ refreshTokens[arg[r]] # None
  BY DEF HeldTokens, AuthInv, Owner
<1>2. /\ refreshTokens' \in [Requests -> TokenRows \cup {None}]
      /\ \A s \in Requests : /\ (refreshTokens'[s] = None) <=> (refreshTokens[s] = None)
                             /\ refreshTokens[s] # None =>
                                   refreshTokens'[s].user = refreshTokens[s].user
  BY <1>0, <1>1, RevokeEffect
<1>3. /\ pc' \in [Requests -> Statements] /\ out' \in [Requests -> Results \cup {None}]
      /\ \A s \in Requests \ {r} : pc'[s] = pc[s] /\ out'[s] = out[s]
  BY <1>0, Moves DEF Results, Statements
<1>4. AuthTypeOK'
  BY <1>0, <1>2, <1>3 DEF AuthTypeOK, ServiceTypeOK
<1>5. \A s \in Requests \ {r} : Aside(s)
  BY <1>2, <1>3 DEF Aside
<1>6. TokensGrow
  BY <1>2 DEF TokensGrow
<1>7. Onward
  BY <1>0, <1>5, <1>6, OnwardByOne, TablesSame
<1>8. /\ out[r] = None /\ refreshTokens'[r] = None /\ accessTokens[r] = None
      /\ pc[r] = "refresh.revoke" => loaded[r] # None
      /\ pc[r] = "logout.revoke" => loaded[r] = None
  BY <1>0, <1>2 DEF Route, Owner
<1>9. \/ /\ pc'[r] = "issue" /\ out'[r] = None /\ op[r] = "refresh" /\ loaded[r] # None
      \/ pc'[r] = "done" /\ out'[r] \in {"ok", "failure"}
  BY <1>0, <1>8 DEF Goto, Answer, ServiceTypeOK
<1>10. Route(r)'
  BY <1>0, <1>9 DEF Route, Active, Ended, Results, SessionRoute, CodeRoute, GoogleRoute, AccountRoute,
     AccountOps, Routes, HeldTokens
<1>11. loaded[r] # None => Proven(r, loaded[r].id)'
  <2>1. loaded[r] # None => loaded[r].id \in UserIDs /\ Proven(r, loaded[r].id)
    BY <1>0 DEF Owner, ServiceTypeOK, DomainUsers
  <2> QED
    BY <1>6, <2>1, ProvenStands, TablesSame
<1>12. Owner(r)'
  BY <1>0, <1>8, <1>9, <1>11 DEF Owner
<1>13. Fresh(r)'
  BY <1>0, <1>9 DEF Fresh
<1> QED
  BY <1>4, <1>5, <1>7, <1>10, <1>12, <1>13 DEF Settled

\* AddRole writes the roles of one account, and only adds.
LEMMA AddRoleMove ==
    ASSUME AuthInv, NEW r \in Requests, AddRole(r), UNCHANGED <<grants, report>>,
           arg[r] \in [bearer : HeldTokens, role : {RoleSeller}]
    PROVE  AuthTypeOK' /\ Onward /\ Settled(r)' /\ \A s \in Requests \ {r} : Aside(s)
<1> DEFINE u == accessTokens[arg[r].bearer].sub
           roles == IF \E i \in DOMAIN users[u].roles : users[u].roles[i] = RoleSeller
                    THEN users[u].roles ELSE Append(users[u].roles, RoleSeller)
           new == [users[u] EXCEPT !.roles = roles]
<1>0. /\ AuthTypeOK /\ ServiceTypeOK /\ Route(r) /\ Owner(r) /\ Fresh(r)
      /\ None \notin Results \cup UserRows
  BY NoneAssumption DEF AuthInv, AuthTypeOK
<1>1. /\ pc[r] = "roles.update" /\ (Answer(r, "ok") \/ Answer(r, "failure"))
      /\ UNCHANGED <<now, refreshTokens, accessTokens, op, arg, before, at, loaded>>
  BY DEF AddRole, request
<1>2. /\ r \notin Ended /\ loaded[r] = None /\ refreshTokens[r] = None /\ accessTokens[r] = None
      /\ users[r] = None
  BY <1>0, <1>1 DEF Ended, Owner, Fresh
<1>3. u \in UserIDs /\ users[u] # None /\ users[u] \in UserRows
  <2>1. arg[r].bearer \in Requests /\ accessTokens[arg[r].bearer] # None
    BY DEF HeldTokens
  <2>2. accessTokens[arg[r].bearer] \in Claims /\ Owner(arg[r].bearer)
    BY <1>0, <2>1 DEF ServiceTypeOK, AuthInv
  <2>3. loaded[arg[r].bearer] # None /\ u = loaded[arg[r].bearer].id
    BY <2>1, <2>2 DEF Owner
  <2>4. u \in UserIDs /\ users[u] # None
    BY <2>2, <2>3 DEF Owner, Proven, Claims
  <2> QED
    BY <1>0, <2>4 DEF ServiceTypeOK
<1>4. users' = [users EXCEPT ![u] = new]
  BY <1>0, <1>3 DEF AddRole, ServiceTypeOK
<1>5. roles \in RoleLists /\ Covers(roles, users[u].roles)
  BY <1>3, RolesGrow, RolesKept DEF UserRows
<1> HIDE DEF roles, u
<1>6. /\ new \in UserRows /\ new # None
      /\ new.email = users[u].email /\ new.passwordHash = users[u].passwordHash
      /\ new.roles = roles
  BY <1>0, <1>3, <1>5 DEF UserRows
<1> HIDE DEF new
<1>7. /\ users' \in [UserIDs -> UserRows \cup {None}]
      /\ \A v \in UserIDs : users'[v] = IF v = u THEN new ELSE users[v]
  BY <1>0, <1>3, <1>4, <1>6 DEF ServiceTypeOK
<1>8. \A v \in UserIDs : users'[v] # None <=> users[v] # None
  BY <1>3, <1>6, <1>7
<1>9. AccountsGrow
  BY <1>5, <1>6, <1>7, <1>8 DEF AccountsGrow, KeepsAccount, Covers
<1>10. /\ pc' \in [Requests -> Statements] /\ out' \in [Requests -> Results \cup {None}]
       /\ \A s \in Requests \ {r} : pc'[s] = pc[s] /\ out'[s] = out[s]
  BY <1>0, <1>1, Moves DEF Results
<1>11. AuthTypeOK'
  BY <1>0, <1>1, <1>7, <1>10 DEF AuthTypeOK, ServiceTypeOK
<1>12. ASSUME NEW s \in Requests
       PROVE  /\ users'[s] # None => users[s] # None
              /\ \A i \in 1 .. MaxBatch : users'[<<s, i>>] # None => users[<<s, i>>] # None
  BY <1>8 DEF UserIDs
<1>13. \A s \in Requests \ {r} : Aside(s)
  BY <1>1, <1>10, <1>12 DEF Aside
<1>14. Onward
  BY <1>1, <1>2, <1>9, <1>13, OnwardByOne, TablesSame
<1>15. pc'[r] = "done" /\ out'[r] \in {"ok", "failure"}
  BY <1>0, <1>1 DEF Answer, ServiceTypeOK
<1>16. Route(r)'
  BY <1>0, <1>15 DEF Route, Active, Ended, Results
<1>17. Owner(r)'
  BY <1>1, <1>2, <1>15 DEF Owner
<1>18. Fresh(r)'
  BY <1>0, <1>12, <1>15 DEF Fresh
<1> QED
  BY <1>11, <1>13, <1>14, <1>16, <1>17, <1>18 DEF Settled

-----------------------------------------------------------------------------
(* The routes, statement by statement *)

\* Login, refresh, logout and add role.
LEMMA SessionMoves ==
    ASSUME AuthInv, NEW r \in Requests, op[r] \in SessionOps, SessionStep(r),
           UNCHANGED <<codeVars, grants, report>>
    PROVE  AuthTypeOK' /\ Onward /\ Settled(r)' /\ \A s \in Requests \ {r} : Aside(s)
<1>0. /\ AuthTypeOK /\ ServiceTypeOK /\ Route(r) /\ Owner(r) /\ UNCHANGED <<grants, report>>
      /\ op[r] \in {"login", "refresh", "logout", "add_role"}
  BY DEF AuthInv, AuthTypeOK, SessionOps
<1>1. ASSUME pc[r] \notin {"idle", "done", "crashed"} PROVE Active(r) /\ SessionRoute(r)
  BY <1>0, <1>1 DEF Active, Ended, Route
<1>2. CASE LoginFind(r)
  <2>1. pc[r] = "login.find" /\ Active(r) /\ op[r] = "login" /\ arg[r] \in Credentials
    BY <1>0, <1>1, <1>2 DEF LoginFind, SessionRoute
  <2>2. UNCHANGED <<now, users, refreshTokens, accessTokens, op, arg, before, at>>
    BY <1>2 DEF LoginFind, tables, request
  <2>3. CASE Answer(r, "ErrInvalidCredentials") /\ UNCHANGED loaded
    BY <1>0, <2>1, <2>2, <2>3, StatementMove DEF Results
  <2>4. ASSUME NEW u \in FindByEmail(normalizeEmail(arg[r].email)),
               loaded' = [loaded EXCEPT ![r] = toDomainUser(u)], Goto(r, "issue")
        PROVE  AuthTypeOK' /\ Onward /\ Settled(r)' /\ \A s \in Requests \ {r} : Aside(s)
    <3>1. u \in UserIDs /\ users[u] # None /\ toDomainUser(u) \in DomainUsers /\ toDomainUser(u).id = u
      BY <1>0, FoundUsers DEF toDomainUser
    <3>2. users[u].email.box = arg[r].email.box
      <4>1. arg[r].email \in Emails
        BY <2>1 DEF Credentials
      <4> QED
        BY <4>1, Normalized DEF FindByEmail
    <3>3. Proven(r, u)
      BY <2>1, <3>1, <3>2 DEF Proven, ProvenMailbox
    <3>4. /\ loaded' \in [Requests -> DomainUsers \cup {None}] /\ loaded'[r] = toDomainUser(u)
          /\ \A s \in Requests \ {r} : loaded'[s] = loaded[s]
      BY <1>0, <2>4, <3>1 DEF ServiceTypeOK
    <3>5. pc'[r] = "issue" => SessionRoute(r)' /\ CodeRoute(r)' /\ GoogleRoute(r)' /\ AccountRoute(r)'
      BY <2>1, <2>2 DEF SessionRoute, CodeRoute, GoogleRoute, AccountRoute, AccountOps
    <3> QED
      BY <1>0, <2>1, <2>2, <2>4, <3>1, <3>3, <3>4, <3>5, LoadMove
  <2> QED
    BY <1>2, <2>3, <2>4 DEF LoginFind
<1>3. CASE RefreshFind(r)
  <2>1. /\ pc[r] = "refresh.find" /\ Active(r) /\ op[r] = "refresh" /\ arg[r] \in HeldTokens \cup {None}
        /\ UNCHANGED <<now, users, refreshTokens, accessTokens, op, arg, before, at, loaded>>
    BY <1>0, <1>1, <1>3 DEF RefreshFind, SessionRoute, tables, request
  <2>2. arg[r] # None /\ pc'[r] = "refresh.load" =>
           SessionRoute(r)' /\ CodeRoute(r)' /\ GoogleRoute(r)' /\ AccountRoute(r)'
    BY <2>1 DEF SessionRoute, CodeRoute, GoogleRoute, AccountRoute, AccountOps, HeldTokens
  <2>3. (arg[r] # None /\ Goto(r, "refresh.load")) \/ Answer(r, "ErrRefreshTokenInvalid")
    BY <1>3 DEF RefreshFind
  <2> QED
    BY <1>0, <2>1, <2>2, <2>3, StatementMove DEF Results, Statements
<1>4. CASE RefreshLoad(r)
  <2>1. /\ pc[r] = "refresh.load" /\ Active(r) /\ op[r] = "refresh" /\ arg[r] \in HeldTokens
        /\ UNCHANGED <<now, users, refreshTokens, accessTokens, op, arg, before, at>>
        /\ Goto(r, "refresh.revoke")
    BY <1>0, <1>1, <1>4 DEF RefreshLoad, SessionRoute, tables, request
  <2>2. arg[r] \in Requests /\ Owner(arg[r]) /\ accessTokens[arg[r]] # None
    BY <2>1 DEF HeldTokens, AuthInv
  <2>3. /\ refreshTokens[arg[r]] \in TokenRows /\ refreshTokens[arg[r]].user \in UserIDs
        /\ users[refreshTokens[arg[r]].user] # None
    BY <1>0, <2>2 DEF ServiceTypeOK, TokenRows, Owner, Proven
  <2>4. PICK u \in UserIDs : u = refreshTokens[arg[r]].user
    BY <2>3
  <2>5. users[u] # None /\ users[u] \in UserRows
    BY <1>0, <2>3, <2>4 DEF ServiceTypeOK
  <2>6. toDomainUser(u) \in DomainUsers /\ toDomainUser(u).id = u
    BY <2>5 DEF toDomainUser, DomainUsers, UserRows
  <2>7. /\ loaded' \in [Requests -> DomainUsers \cup {None}] /\ loaded'[r] = toDomainUser(u)
        /\ \A s \in Requests \ {r} : loaded'[s] = loaded[s]
    BY <1>0, <1>4, <2>4, <2>6 DEF ServiceTypeOK, RefreshLoad
  <2>8. Proven(r, u)
    BY <2>1, <2>4, <2>5 DEF Proven
  <2>9. pc'[r] = "refresh.revoke" =>
           SessionRoute(r)' /\ CodeRoute(r)' /\ GoogleRoute(r)' /\ AccountRoute(r)'
    BY <2>1 DEF SessionRoute, CodeRoute, GoogleRoute, AccountRoute, AccountOps, HeldTokens
  <2> QED
    BY <1>0, <2>1, <2>6, <2>7, <2>8, <2>9, LoadMove
<1>5. CASE RefreshRevoke(r)
  <2>1. pc[r] = "refresh.revoke" /\ op[r] = "refresh" /\ arg[r] \in HeldTokens
    BY <1>0, <1>1, <1>5 DEF RefreshRevoke, SessionRoute
  <2> QED
    BY <1>0, <1>5, <2>1, RevokeMove DEF RefreshRevoke, request
<1>6. CASE LogoutFind(r)
  <2>1. /\ pc[r] = "logout.find" /\ Active(r) /\ op[r] = "logout" /\ arg[r] \in HeldTokens \cup {None}
        /\ UNCHANGED <<now, users, refreshTokens, accessTokens, op, arg, before, at, loaded>>
    BY <1>0, <1>1, <1>6 DEF LogoutFind, SessionRoute, tables, request
  <2>2. arg[r] # None /\ pc'[r] = "logout.revoke" =>
           SessionRoute(r)' /\ CodeRoute(r)' /\ GoogleRoute(r)' /\ AccountRoute(r)'
    BY <2>1 DEF SessionRoute, CodeRoute, GoogleRoute, AccountRoute, AccountOps, HeldTokens
  <2>3. (arg[r] # None /\ Goto(r, "logout.revoke")) \/ Answer(r, "ok")
    BY <1>6 DEF LogoutFind
  <2> QED
    BY <1>0, <2>1, <2>2, <2>3, StatementMove DEF Results, Statements
<1>7. CASE LogoutRevoke(r)
  <2>1. pc[r] = "logout.revoke" /\ op[r] = "logout" /\ arg[r] \in HeldTokens
    BY <1>0, <1>1, <1>7 DEF LogoutRevoke, SessionRoute
  <2> QED
    BY <1>0, <1>7, <2>1, RevokeMove DEF LogoutRevoke, request
<1>8. CASE AddRole(r)
  <2>1. arg[r] \in [bearer : HeldTokens, role : {RoleSeller}]
    BY <1>0, <1>1, <1>8 DEF AddRole, SessionRoute
  <2> QED
    BY <1>0, <1>8, <2>1, AddRoleMove
<1>9. CASE Issue(r)
  BY <1>0, <1>9, IssueMove
<1>10. CASE StatementFails(r)
  BY <1>0, <1>10, StatementMove DEF StatementFails, Results, tables, request
<1> QED
  BY <1>2, <1>3, <1>4, <1>5, <1>6, <1>7, <1>8, <1>9, <1>10 DEF SessionStep

\* A sign-in without password looks the account of the mailbox it was shown up.
LEMMA FindMove ==
    ASSUME AuthInv, NEW r \in Requests, Active(r), pc[r] \notin {"refresh.revoke", "issue"},
           op[r] \in {"verify_code", "google_callback"},
           op[r] = "google_callback" => arg[r].code \in HeldCodes,
           NEW e \in Emails, e.box = ProvenMailbox(r),
           NEW insert \in {"verify.insert", "google.insert"},
           FindUser(r, e, insert), UNCHANGED <<grants, report>>,
           pc'[r] \in {insert, "issue"} =>
               SessionRoute(r)' /\ CodeRoute(r)' /\ GoogleRoute(r)' /\ AccountRoute(r)'
    PROVE  AuthTypeOK' /\ Onward /\ Settled(r)' /\ \A s \in Requests \ {r} : Aside(s)
<1>0. AuthTypeOK /\ ServiceTypeOK /\ insert \in Statements
  BY DEF AuthInv, AuthTypeOK, Statements
<1>1. /\ UNCHANGED <<now, users, refreshTokens, accessTokens, op, arg, before, at, out>>
      /\ loaded' \in [Requests -> DomainUsers \cup {None}]
      /\ \A s \in Requests \ {r} : loaded'[s] = loaded[s]
      /\ \/ /\ pc' = [pc EXCEPT ![r] = "issue"]
            /\ loaded'[r] \in DomainUsers
            /\ users[loaded'[r].id] # None
            /\ users[loaded'[r].id].email = e
         \/ /\ pc' = [pc EXCEPT ![r] = insert]
            /\ UNCHANGED loaded
  BY <1>0, FindUserEffect
<1>2. CASE pc' = [pc EXCEPT ![r] = insert] /\ UNCHANGED loaded
  BY <1>0, <1>1, <1>2, StatementMove DEF Goto, Statements
<1>3. CASE /\ pc' = [pc EXCEPT ![r] = "issue"] /\ loaded'[r] \in DomainUsers
           /\ users[loaded'[r].id] # None /\ users[loaded'[r].id].email = e
  <2>1. PICK u \in UserIDs : u = loaded'[r].id
    BY <1>3 DEF DomainUsers
  <2>2. Proven(r, u)
    BY <1>3, <2>1 DEF Proven
  <2> QED
    BY <1>1, <1>3, <2>1, <2>2, LoadMove DEF Goto
<1> QED
  BY <1>1, <1>2, <1>3

\* Request code and verify code.
LEMMA CodeMoves ==
    ASSUME AuthInv, NEW r \in Requests, op[r] \in PasswordlessOps, PasswordlessStep(r),
           UNCHANGED <<grants, report>>
    PROVE  AuthTypeOK' /\ Onward /\ Settled(r)' /\ \A s \in Requests \ {r} : Aside(s)
<1>0. /\ AuthTypeOK /\ ServiceTypeOK /\ Route(r) /\ Owner(r)
      /\ op[r] \in {"request_code", "verify_code"}
  BY DEF AuthInv, AuthTypeOK, PasswordlessOps
<1>1. ASSUME pc[r] \notin {"idle", "done", "crashed"}
      PROVE  /\ Active(r) /\ CodeRoute(r)
             /\ op[r] = "verify_code" => arg[r].email \in Emails
  BY <1>0, <1>1 DEF Active, Ended, Route, CodeRoute, Guesses
<1>2. ASSUME NEW x \in {"code.send", "verify.increment", "verify.consume", "verify.user",
                        "verify.insert", "issue"},
             x = "code.send" <=> op[r] = "request_code", Active(r), UNCHANGED <<op, arg>>, pc'[r] = x
      PROVE  SessionRoute(r)' /\ CodeRoute(r)' /\ GoogleRoute(r)' /\ AccountRoute(r)'
  BY <1>0, <1>2 DEF Route, SessionRoute, CodeRoute, GoogleRoute, AccountRoute, AccountOps
<1>3. ASSUME NEW x, Active(r), pc[r] # "issue",
             UNCHANGED <<now, tables, request, loaded>>,
             \/ x \in Results /\ Answer(r, x)
             \/ /\ x \in {"code.send", "verify.increment", "verify.consume", "verify.user"}
                /\ x = "code.send" <=> op[r] = "request_code"
                /\ Goto(r, x)
      PROVE  AuthTypeOK' /\ Onward /\ Settled(r)' /\ \A s \in Requests \ {r} : Aside(s)
  <2>1. UNCHANGED <<now, users, refreshTokens, accessTokens, op, arg, before, at, loaded>>
    BY <1>3 DEF tables, request
  <2>2. pc[r] # "refresh.revoke"
    BY <1>0, <1>3 DEF Route, CodeRoute
  <2>3. CASE x \in Results /\ Answer(r, x)
    BY <1>3, <2>1, <2>3, StatementMove
  <2>4. CASE /\ x \in {"code.send", "verify.increment", "verify.consume", "verify.user"}
             /\ x = "code.send" <=> op[r] = "request_code"
             /\ Goto(r, x)
    <3>1. pc'[r] = x => SessionRoute(r)' /\ CodeRoute(r)' /\ GoogleRoute(r)' /\ AccountRoute(r)'
      BY <1>2, <1>3, <2>1, <2>4
    <3>2. x \in Statements \ {"idle", "done", "crashed", "refresh.revoke", "issue"}
      BY <2>4 DEF Statements
    <3> QED
      BY <1>3, <2>1, <2>2, <2>4, <3>1, <3>2, StatementMove
  <2> QED
    BY <1>3, <2>3, <2>4
<1>4. CASE InsertCode(r)
  <2>1. pc[r] = "code.insert" /\ op[r] = "request_code"
    BY <1>0, <1>1, <1>4 DEF InsertCode, CodeRoute
  <2> QED
    BY <1>1, <1>3, <1>4, <2>1 DEF InsertCode, Results
<1>5. CASE SendVerificationCode(r)
  BY <1>1, <1>3, <1>5 DEF SendVerificationCode, Results
<1>6. CASE VerifyFind(r)
  <2>1. pc[r] = "verify.find" /\ op[r] = "verify_code"
    BY <1>0, <1>1, <1>6 DEF VerifyFind, CodeRoute
  <2>2. /\ UNCHANGED <<now, tables, request, loaded>>
        /\ \/ Answer(r, "ErrCodeInvalid") \/ Answer(r, "ErrTooManyAttempts")
           \/ Goto(r, "verify.consume") \/ Goto(r, "verify.increment")
    BY <1>6 DEF VerifyFind
  <2> QED
    BY <1>1, <1>3, <2>1, <2>2 DEF Results
<1>7. CASE IncrementAttempts(r)
  BY <1>1, <1>3, <1>7 DEF IncrementAttempts, Results
<1>8. CASE MarkConsumed(r)
  <2>1. pc[r] = "verify.consume" /\ op[r] = "verify_code"
    BY <1>0, <1>1, <1>8 DEF MarkConsumed, CodeRoute
  <2> QED
    BY <1>1, <1>3, <1>8, <2>1 DEF MarkConsumed, Results
<1>9. ASSUME pc[r] \in {"verify.user", "verify.insert"}
      PROVE  /\ Active(r) /\ op[r] = "verify_code" /\ AddressOf(r) \in Emails
             /\ AddressOf(r).box = ProvenMailbox(r) /\ AddressOf(r).lower = TRUE
  <2>1. Active(r) /\ op[r] = "verify_code" /\ arg[r].email \in Emails
    BY <1>0, <1>1, <1>9 DEF CodeRoute
  <2>2. AddressOf(r) = [box |-> arg[r].email.box, lower |-> TRUE]
    BY <2>1, Normalized DEF AddressOf
  <2> QED
    BY <2>1, <2>2 DEF ProvenMailbox, Emails
<1>10. CASE VerifyFindUser(r)
  <2>1. pc[r] = "verify.user" /\ FindUser(r, AddressOf(r), "verify.insert") /\ UNCHANGED <<op, arg>>
    BY <1>10 DEF VerifyFindUser, FindUser, request
  <2>2. /\ Active(r) /\ op[r] = "verify_code" /\ AddressOf(r) \in Emails
        /\ AddressOf(r).box = ProvenMailbox(r)
    BY <1>9, <2>1
  <2>3. pc'[r] \in {"verify.insert", "issue"} =>
           SessionRoute(r)' /\ CodeRoute(r)' /\ GoogleRoute(r)' /\ AccountRoute(r)'
    BY <1>2, <2>1, <2>2
  <2> QED
    BY <2>1, <2>2, <2>3, FindMove
<1>11. CASE VerifyInsertUser(r)
  <2>1. pc[r] = "verify.insert" /\ InsertUser(r, AddressOf(r)) /\ UNCHANGED <<op, arg>>
    BY <1>11 DEF VerifyInsertUser, InsertUser, request
  <2>2. /\ Active(r) /\ op[r] = "verify_code" /\ AddressOf(r) \in Emails
        /\ AddressOf(r).box = ProvenMailbox(r) /\ AddressOf(r).lower = TRUE
    BY <1>9, <2>1
  <2>3. pc'[r] = "issue" => SessionRoute(r)' /\ CodeRoute(r)' /\ GoogleRoute(r)' /\ AccountRoute(r)'
    BY <1>2, <2>1, <2>2
  <2> QED
    BY <2>1, <2>2, <2>3, InsertMove
<1>12. CASE Issue(r)
  BY <1>12, IssueMove
<1>13. CASE StatementFails(r)
  BY <1>13, StatementMove DEF StatementFails, Results, tables, request
<1> QED
  BY <1>4, <1>5, <1>6, <1>7, <1>8, <1>10, <1>11, <1>12, <1>13 DEF PasswordlessStep

\* The code of a callback is spent for it, or was not fresh any more.
LEMMA ExchangeMove ==
    ASSUME AuthInv, NEW r \in Requests, op[r] = "google_callback", ExchangeCodeForToken(r),
           UNCHANGED report
    PROVE  AuthTypeOK' /\ Onward /\ Settled(r)' /\ \A s \in Requests \ {r} : Aside(s)
<1> DEFINE code == arg[r].code
           spent == [grants[code] EXCEPT !.spentBy = r]
<1>0. /\ AuthTypeOK /\ ServiceTypeOK /\ Route(r) /\ Owner(r) /\ Fresh(r)
      /\ pc[r] = "google.exchange" /\ Active(r) /\ r \notin Ended
      /\ None \notin Results /\ None \notin Grants
      /\ UNCHANGED <<now, users, refreshTokens, accessTokens, op, arg, before, at, loaded>>
  BY NoneAssumption, GoogleAssumption
     DEF AuthInv, AuthTypeOK, ExchangeCodeForToken, Active, Ended, tables, request
<1>1. CASE Answer(r, "failure") /\ UNCHANGED grants
  BY <1>0, <1>1, StatementMove DEF Results
<1>2. CASE /\ code # None /\ grants[code].spentBy = None
           /\ grants' = [grants EXCEPT ![code].spentBy = r]
           /\ Goto(r, "google.userinfo") \/ Answer(r, "failure")
  <2>1. /\ arg[r] \in Callbacks /\ code \in AuthCodes /\ grants[code] # None
        /\ grants[code] \in Grants
    BY <1>0, <1>2 DEF Route, GoogleRoute, HeldCodes, AuthTypeOK
  <2>2. grants' = [grants EXCEPT ![code] = spent]
    BY <1>0, <1>2, <2>1 DEF AuthTypeOK
  <2>3. /\ spent \in Grants /\ spent # None /\ spent.spentBy = r
        /\ spent.email = grants[code].email /\ spent.verified = grants[code].verified
    BY <1>0, <2>1 DEF Grants
  <2> HIDE DEF spent, code
  <2>4. /\ grants' \in [AuthCodes -> Grants \cup {None}]
        /\ \A c \in AuthCodes : grants'[c] = IF c = code THEN spent ELSE grants[c]
    BY <1>0, <2>1, <2>2, <2>3 DEF AuthTypeOK
  <2>5. /\ pc' \in [Requests -> Statements] /\ out' \in [Requests -> Results \cup {None}]
        /\ \A s \in Requests \ {r} : pc'[s] = pc[s] /\ out'[s] = out[s]
    BY <1>0, <1>2, Moves DEF Results, Statements
  <2>6. AuthTypeOK'
    BY <1>0, <2>4, <2>5 DEF AuthTypeOK, ServiceTypeOK
  <2>7. GrantsGrow
    BY <1>2, <2>3, <2>4 DEF GrantsGrow
  <2>8. \A s \in Requests \ {r} : Aside(s)
    BY <1>0, <2>3, <2>4, <2>5 DEF Aside
  <2>9. Onward
    BY <1>0, <2>7, <2>8, OnwardByOne, TablesSame
  <2>10. /\ loaded[r] = None /\ refreshTokens[r] = None /\ accessTokens[r] = None /\ out[r] = None
         /\ users[r] = None
    BY <1>0 DEF Owner, Route, Fresh
  <2>11. \/ pc'[r] = "google.userinfo" /\ out'[r] = None
         \/ pc'[r] = "done" /\ out'[r] = "failure"
    BY <1>0, <1>2, <2>10 DEF Goto, Answer, ServiceTypeOK
  <2>12. Route(r)'
    <3>1. code \in HeldCodes' /\ grants'[code].spentBy = r
      BY <2>1, <2>3, <2>4 DEF HeldCodes
    <3>2. CASE pc'[r] = "done"
      BY <1>0, <2>11, <3>2 DEF Route, Active, Ended, Results
    <3>3. CASE pc'[r] = "google.userinfo"
      <4>1. SessionRoute(r)' /\ CodeRoute(r)' /\ AccountRoute(r)'
        BY <1>0 DEF SessionRoute, CodeRoute, AccountRoute, AccountOps
      <4>2. GoogleRoute(r)'
        BY <1>0, <2>1, <3>1, <3>3 DEF GoogleRoute, code
      <4> QED
        BY <1>0, <2>11, <3>3, <4>1, <4>2 DEF Route, Routes
    <3> QED
      BY <2>11, <3>2, <3>3
  <2>13. Owner(r)' /\ Fresh(r)'
    BY <1>0, <2>10, <2>11 DEF Owner, Fresh
  <2> QED
    BY <2>6, <2>8, <2>9, <2>12, <2>13 DEF Settled
<1> QED
  BY <1>1, <1>2 DEF ExchangeCodeForToken

\* The callback of Google's sign-in.
LEMMA GoogleMoves ==
    ASSUME AuthInv, NEW r \in Requests, op[r] \in GoogleOps, GoogleStep(r),
           UNCHANGED <<codeVars, report>>
    PROVE  AuthTypeOK' /\ Onward /\ Settled(r)' /\ \A s \in Requests \ {r} : Aside(s)
<1>0. AuthTypeOK /\ ServiceTypeOK /\ Route(r) /\ Owner(r) /\ UNCHANGED report
  BY DEF AuthInv, AuthTypeOK
<1>1. ASSUME pc[r] \notin {"idle", "done", "crashed"}
      PROVE  /\ Active(r) /\ GoogleRoute(r) /\ op[r] = "google_callback"
  BY <1>0, <1>1 DEF Active, Ended, Route, GoogleRoute, GoogleOps
<1>2. ASSUME NEW x \in {"google.user", "google.insert", "issue"}, op[r] = "google_callback",
             arg[r] \in Callbacks, arg[r].code \in HeldCodes,
             grants[arg[r].code].spentBy = r, grants[arg[r].code].verified,
             UNCHANGED <<op, arg, grants>>, pc'[r] = x
      PROVE  SessionRoute(r)' /\ CodeRoute(r)' /\ GoogleRoute(r)' /\ AccountRoute(r)'
  <2>1. HeldCodes' = HeldCodes
    BY <1>2 DEF HeldCodes
  <2>2. GoogleRoute(r)'
    BY <1>2, <2>1 DEF GoogleRoute
  <2> QED
    BY <1>2, <2>2 DEF SessionRoute, CodeRoute, AccountRoute, AccountOps
<1>3. CASE ExchangeCodeForToken(r)
  <2>1. op[r] = "google_callback"
    BY <1>1, <1>3 DEF ExchangeCodeForToken
  <2> QED
    BY <1>0, <1>3, <2>1, ExchangeMove
<1>4. CASE FetchUserinfo(r)
  <2>1. /\ pc[r] = "google.userinfo" /\ Active(r) /\ op[r] = "google_callback"
        /\ arg[r] \in Callbacks /\ arg[r].code \in HeldCodes /\ grants[arg[r].code].spentBy = r
        /\ UNCHANGED <<now, users, refreshTokens, accessTokens, op, arg, before, at, loaded, grants>>
    BY <1>1, <1>4 DEF FetchUserinfo, GoogleRoute, tables, request
  <2>2. \/ grants[arg[r].code].verified /\ Goto(r, "google.user")
        \/ Answer(r, "ErrOAuthEmailNotVerified")
    BY <1>4 DEF FetchUserinfo
  <2> QED
    BY <1>0, <1>2, <2>1, <2>2, StatementMove DEF Results, Statements
<1>5. ASSUME pc[r] \in {"google.user", "google.insert"}
      PROVE  /\ Active(r) /\ op[r] = "google_callback"
             /\ arg[r] \in Callbacks /\ arg[r].code \in HeldCodes
             /\ grants[arg[r].code].spentBy = r /\ grants[arg[r].code].verified
             /\ IdentityOf(r) \in Emails
             /\ IdentityOf(r).box = ProvenMailbox(r) /\ IdentityOf(r).lower = TRUE
  <2>1. /\ Active(r) /\ op[r] = "google_callback"
        /\ arg[r] \in Callbacks /\ arg[r].code \in HeldCodes
        /\ grants[arg[r].code].spentBy = r /\ grants[arg[r].code].verified
    BY <1>1, <1>5 DEF GoogleRoute
  <2>2. grants[arg[r].code] \in Grants
    BY <1>0, <2>1 DEF HeldCodes, AuthTypeOK
  <2>3. grants[arg[r].code].email \in Emails
    BY <2>2 DEF Grants
  <2>4. IdentityOf(r) = [box |-> grants[arg[r].code].email.box, lower |-> TRUE]
    BY <2>3, Normalized DEF IdentityOf
  <2> QED
    BY <2>1, <2>3, <2>4 DEF ProvenMailbox, Emails
<1>6. CASE GoogleFindUser(r)
  <2>1. /\ pc[r] = "google.user" /\ FindUser(r, IdentityOf(r), "google.insert")
        /\ UNCHANGED <<op, arg, grants>>
    BY <1>6 DEF GoogleFindUser, FindUser, request
  <2>2. pc'[r] \in {"google.insert", "issue"} =>
           SessionRoute(r)' /\ CodeRoute(r)' /\ GoogleRoute(r)' /\ AccountRoute(r)'
    BY <1>2, <1>5, <2>1
  <2> QED
    BY <1>0, <1>5, <2>1, <2>2, FindMove
<1>7. CASE GoogleInsertUser(r)
  <2>1. /\ pc[r] = "google.insert" /\ InsertUser(r, IdentityOf(r))
        /\ UNCHANGED <<op, arg, grants>>
    BY <1>7 DEF GoogleInsertUser, InsertUser, request
  <2>2. pc'[r] = "issue" => SessionRoute(r)' /\ CodeRoute(r)' /\ GoogleRoute(r)' /\ AccountRoute(r)'
    BY <1>2, <1>5, <2>1
  <2> QED
    BY <1>0, <1>5, <2>1, <2>2, InsertMove
<1>8. CASE Issue(r) /\ UNCHANGED grants
  BY <1>0, <1>8, IssueMove
<1>9. CASE StatementFails(r) /\ UNCHANGED grants
  BY <1>0, <1>9, StatementMove DEF StatementFails, Results, tables, request
<1> QED
  BY <1>3, <1>4, <1>6, <1>7, <1>8, <1>9 DEF GoogleStep

\* The use case Register is back with its caller: one answers, the other writes
\* its report down and goes on to the next item.
LEMMA ReturnEffect ==
    ASSUME AuthTypeOK, NEW r \in Requests, op[r] \in AccountOps,
           NEW result \in {"ok", "ErrEmailAlreadyExists", "failure"}, Return(r, result)
    PROVE  /\ report' \in [Requests -> Seq(Entries)]
           /\ \A s \in Requests \ {r} : report'[s] = report[s]
           /\ op[r] = "register" => UNCHANGED report /\ Answer(r, result)
           /\ op[r] = "bulk_create" =>
                 /\ Len(report'[r]) = Position(r)
                 /\ \A i \in 1 .. Len(report[r]) : report'[r][i] = report[r][i]
                 /\ report'[r][Position(r)] = ReportEntry[result]
                 /\ \/ Position(r) = Len(arg[r].users) /\ Answer(r, "ok")
                    \/ Position(r) # Len(arg[r].users) /\ Goto(r, "register.exists")
<1> DEFINE entry == ReportEntry[result]
           longer == Append(report[r], entry)
<1>1. op[r] = "register" \/ op[r] = "bulk_create"
  BY DEF AccountOps
<1>2. CASE op[r] = "register"
  BY <1>2 DEF Return, NextItem, AuthTypeOK
<1>3. CASE op[r] = "bulk_create"
  <2>1. entry \in Entries /\ report[r] \in Seq(Entries)
    <3>1. entry \in Entries
      <4>1. /\ ReportEntry["ok"] = "created"
            /\ ReportEntry["ErrEmailAlreadyExists"] = "email already registered"
            /\ ReportEntry["failure"] = "unknown error"
        BY DEF ReportEntry
      <4>2. result = "ok" \/ result = "ErrEmailAlreadyExists" \/ result = "failure"
        OBVIOUS
      <4> QED
        BY <4>1, <4>2 DEF Entries
    <3>2. report[r] \in Seq(Entries)
      BY DEF AuthTypeOK
    <3> QED
      BY <3>1, <3>2
  <2>2. /\ longer \in Seq(Entries) /\ Len(longer) = Len(report[r]) + 1
        /\ \A i \in 1 .. Len(report[r]) : longer[i] = report[r][i]
        /\ longer[Len(report[r]) + 1] = entry
    <3> HIDE DEF entry
    <3> QED
      BY <2>1
  <2>3. /\ report' = [report EXCEPT ![r] = longer]
        /\ IF Position(r) = Len(arg[r].users) THEN Answer(r, "ok") ELSE Goto(r, "register.exists")
    BY <1>3 DEF Return, NextItem, AuthTypeOK
  <2> HIDE DEF longer
  <2>4. /\ report' \in [Requests -> Seq(Entries)] /\ report'[r] = longer
        /\ \A s \in Requests \ {r} : report'[s] = report[s]
    BY <2>2, <2>3 DEF AuthTypeOK
  <2> QED
    BY <1>3, <2>2, <2>3, <2>4 DEF Position
<1> QED
  BY <1>1, <1>2, <1>3

\* The account that a creation in progress is about is its own, and not there yet.
LEMMA AccountIsNew ==
    ASSUME AuthInv, NEW r \in Requests, Active(r), op[r] \in AccountOps
    PROVE  /\ Account(r) \in UserIDs /\ users[Account(r)] = None
           /\ op[r] = "register" => Account(r) = r
           /\ op[r] = "bulk_create" =>
                 Position(r) \in 1 .. MaxBatch /\ Account(r) = <<r, Position(r)>>
           /\ Item(r) \in Items /\ normalizeEmail(Item(r).email) \in Emails
           /\ normalizeEmail(Item(r).email) = [box |-> Item(r).email.box, lower |-> TRUE]
           /\ \A s \in Requests \ {r} : Account(r) # s
           /\ op[r] = "bulk_create" => Account(r) # r
           /\ \A s \in Requests, i \in 1 .. MaxBatch : Account(r) = <<s, i>> =>
                 s = r /\ op[r] = "bulk_create" /\ i = Position(r)
<1>1. /\ AccountRoute(r) /\ Fresh(r) /\ report[r] \in Seq(Entries)
      /\ pc[r] \in {"register.exists", "register.insert"}
      /\ op[r] \in {"register", "bulk_create"}
  BY DEF AuthInv, AuthTypeOK, Route, AccountRoute, AccountOps
<1>2. /\ r \in UserIDs
      /\ \A s, t \in Requests, i \in 1 .. MaxBatch : t # <<s, i>>
  BY ServiceAssumption DEF UserIDs
<1>3. /\ Item(r) \in Items /\ normalizeEmail(Item(r).email) \in Emails
      /\ normalizeEmail(Item(r).email) = [box |-> Item(r).email.box, lower |-> TRUE]
  <2>1. Item(r) \in Items
    BY <1>1 DEF AccountRoute
  <2>2. Item(r).email \in Emails
    BY <2>1, ServiceAssumption DEF Items, Typed, Emails
  <2>3. normalizeEmail(Item(r).email) = [box |-> Item(r).email.box, lower |-> TRUE]
    BY <2>2, Normalized
  <2> QED
    BY <2>1, <2>2, <2>3 DEF Emails
<1>4. CASE op[r] = "register"
  <2>1. Account(r) = r /\ users[r] = None
    BY <1>1, <1>4 DEF Account, Fresh
  <2> QED
    BY <1>2, <1>3, <1>4, <2>1
<1>5. CASE op[r] = "bulk_create"
  <2>1. Position(r) \in 1 .. MaxBatch /\ Account(r) = <<r, Position(r)>>
    BY <1>1, <1>5 DEF AccountRoute, Account
  <2>2. Len(report[r]) \in Nat /\ ~(Position(r) <= Len(report[r]))
    BY <1>1 DEF Position
  <2>3. users[<<r, Position(r)>>] = None
    BY <1>1, <2>1, <2>2 DEF Fresh
  <2>4. <<r, Position(r)>> \in UserIDs
    BY <2>1 DEF UserIDs
  <2> QED
    BY <1>2, <1>3, <1>5, <2>1, <2>3, <2>4
<1> QED
  BY <1>1, <1>4, <1>5

\* Register returns, having inserted the account of the item or not.
LEMMA RegisterMove ==
    ASSUME AuthInv, NEW r \in Requests, Active(r), op[r] \in AccountOps,
           UNCHANGED <<now, refreshTokens, accessTokens, op, arg, before, at, loaded, grants>>,
           NEW result \in {"ok", "ErrEmailAlreadyExists", "failure"}, Return(r, result),
           \/ UNCHANGED users
           \/ /\ ~ExistsByEmail(normalizeEmail(Item(r).email))
              /\ users' = [users EXCEPT ![Account(r)] =
                              NewUser(normalizeEmail(Item(r).email), Item(r).password)]
    PROVE  AuthTypeOK' /\ Onward /\ Settled(r)' /\ \A s \in Requests \ {r} : Aside(s)
<1> DEFINE a == Account(r)
           e == normalizeEmail(Item(r).email)
           row == NewUser(e, Item(r).password)
<1>0. /\ AuthTypeOK /\ ServiceTypeOK /\ Route(r) /\ Owner(r) /\ Fresh(r) /\ r \notin Ended
      /\ None \notin Results
      /\ AccountRoute(r) /\ pc[r] \in {"register.exists", "register.insert"}
      /\ op[r] \in {"register", "bulk_create"} /\ report[r] \in Seq(Entries)
  BY NoneAssumption DEF AuthInv, AuthTypeOK, Active, Route, AccountRoute, AccountOps
<1>1. /\ loaded[r] = None /\ refreshTokens[r] = None /\ accessTokens[r] = None /\ out[r] = None
      /\ users[r] = None
  BY <1>0 DEF Owner, Route, Fresh
<1>2. /\ report' \in [Requests -> Seq(Entries)]
      /\ \A s \in Requests \ {r} : report'[s] = report[s]
      /\ op[r] = "register" => UNCHANGED report /\ Answer(r, result)
      /\ op[r] = "bulk_create" =>
            /\ Len(report'[r]) = Position(r)
            /\ \/ Position(r) = Len(arg[r].users) /\ Answer(r, "ok")
               \/ Position(r) # Len(arg[r].users) /\ Goto(r, "register.exists")
  BY <1>0, ReturnEffect
<1>3. /\ a \in UserIDs /\ users[a] = None /\ e \in Emails /\ e.lower = TRUE /\ row \in UserRows
      /\ row.email = e /\ row # None
  <2>1. a \in UserIDs /\ users[a] = None /\ e \in Emails /\ Item(r) \in Items /\ e.lower = TRUE
    <3>1. normalizeEmail(Item(r).email) = [box |-> Item(r).email.box, lower |-> TRUE]
      BY AccountIsNew
    <3> QED
      BY <3>1, AccountIsNew
  <2>2. Item(r).password \in Secrets
    BY <2>1 DEF Items
  <2> HIDE DEF e
  <2> QED
    BY <2>1, <2>2, NoneAssumption DEF NewUser, UserRows, RoleLists
<1>4. \/ UNCHANGED users
      \/ FindByEmail(e) = {} /\ users' = [users EXCEPT ![a] = row]
  BY DEF ExistsByEmail
<1>5. /\ \A s \in Requests \ {r} : a # s
      /\ op[r] = "register" => a = r
      /\ op[r] = "bulk_create" =>
            /\ Position(r) \in 1 .. MaxBatch /\ a = <<r, Position(r)>> /\ a # r
      /\ \A s \in Requests, i \in 1 .. MaxBatch : a = <<s, i>> =>
            s = r /\ op[r] = "bulk_create" /\ i = Position(r)
  BY AccountIsNew
<1> HIDE DEF a, e, row
<1>6. /\ users' \in [UserIDs -> UserRows \cup {None}]
      /\ \A u \in UserIDs \ {a} : users'[u] = users[u]
      /\ users'[a] # None => users'[a] = row /\ FindByEmail(e) = {}
  BY <1>0, <1>3, <1>4 DEF ServiceTypeOK
<1>7. \/ pc'[r] = "done" /\ out'[r] \in {"ok", "ErrEmailAlreadyExists", "failure"}
      \/ /\ pc'[r] = "register.exists" /\ out'[r] = None
         /\ op[r] = "bulk_create" /\ Position(r) # Len(arg[r].users)
  BY <1>0, <1>1, <1>2 DEF Goto, Answer, ServiceTypeOK
<1>8. /\ pc' \in [Requests -> Statements] /\ out' \in [Requests -> Results \cup {None}]
      /\ \A s \in Requests \ {r} : pc'[s] = pc[s] /\ out'[s] = out[s]
  BY <1>0, <1>2, Moves DEF Results, Statements
<1>9. AuthTypeOK'
  BY <1>0, <1>2, <1>6, <1>8 DEF AuthTypeOK, ServiceTypeOK
<1>10. \A s \in Requests \ {r} : Aside(s)
  <2>1. ASSUME NEW s \in Requests \ {r} PROVE users'[s] = users[s]
    BY <1>5, <1>6 DEF UserIDs
  <2>2. ASSUME NEW s \in Requests \ {r}, NEW i \in 1 .. MaxBatch
        PROVE  users'[<<s, i>>] = users[<<s, i>>]
    BY <1>5, <1>6 DEF UserIDs
  <2> QED
    BY <1>2, <1>8, <2>1, <2>2 DEF Aside
<1>11. AccountsGrow
  <2>1. ASSUME users'[a] # None PROVE AddsAccount(a)
    BY <1>3, <1>6, <2>1 DEF AddsAccount, FindByEmail
  <2>2. ASSUME NEW u \in UserIDs \ {a}, users[u] # None PROVE KeepsAccount(u)
    BY <1>6, <2>2 DEF KeepsAccount
  <2> QED
    BY <1>3, <1>6, <2>1, <2>2 DEF AccountsGrow
<1>12. Onward
  BY <1>0, <1>10, <1>11, OnwardByOne, TablesSame
<1>13. Route(r)'
  <2>1. CASE pc'[r] = "done"
    BY <1>0, <1>7, <2>1 DEF Route, Active, Ended, Results
  <2>2. CASE pc'[r] = "register.exists"
    <3>1. op[r] = "bulk_create" /\ Position(r) # Len(arg[r].users) /\ out'[r] = None
      BY <1>7, <2>2
    <3>2. arg[r] \in Batches /\ Position(r) \in 1 .. MaxBatch /\ Position(r) <= Len(arg[r].users)
      BY <1>0, <3>1 DEF AccountRoute
    <3>3. PICK n \in 1 .. MaxBatch : arg[r].users \in [1 .. n -> Items]
      BY <3>2 DEF Batches
    <3>4. Len(arg[r].users) = n
      BY <3>3, BatchLength
    <3>5. Position(r)' = Position(r) + 1
      BY <1>2, <3>1 DEF Position
    <3>6. /\ Position(r)' \in 1 .. MaxBatch /\ Position(r)' <= Len(arg[r].users)
          /\ Position(r)' \in 1 .. n
      BY <3>1, <3>2, <3>3, <3>4, <3>5, ServiceAssumption
    <3>7. arg[r].users[Position(r)'] \in Items
      BY <3>3, <3>6
    <3>8. AccountRoute(r)'
      BY <2>2, <3>1, <3>2, <3>6, <3>7 DEF AccountRoute, Item
    <3>9. SessionRoute(r)' /\ CodeRoute(r)' /\ GoogleRoute(r)'
      BY <3>1 DEF SessionRoute, CodeRoute, GoogleRoute
    <3> QED
      BY <2>2, <3>1, <3>8, <3>9 DEF Route, Routes
  <2> QED
    BY <1>7, <2>1, <2>2
<1>14. Owner(r)'
  BY <1>1, <1>7 DEF Owner
<1>15. Fresh(r)'
  <2>1. users'[r] # None => pc'[r] = "done"
    <3>1. CASE op[r] = "register"
      BY <1>7, <3>1
    <3>2. CASE op[r] = "bulk_create"
      BY <1>1, <1>5, <1>6, <3>2 DEF UserIDs
    <3> QED
      BY <1>0, <3>1, <3>2
  <2>2. ASSUME NEW i \in 1 .. MaxBatch, users'[<<r, i>>] # None PROVE i <= Len(report'[r])
    <3>1. CASE a = <<r, i>>
      BY <1>2, <1>5, <3>1
    <3>2. CASE a # <<r, i>>
      <4>1. users[<<r, i>>] # None
        BY <1>6, <2>2, <3>2 DEF UserIDs
      <4>2. i <= Len(report[r])
        BY <1>0, <4>1 DEF Fresh
      <4>3. Len(report[r]) \in Nat /\ Len(report[r]) <= Len(report'[r])
        BY <1>0, <1>2 DEF Position
      <4> QED
        BY <1>2, <4>2, <4>3
    <3> QED
      BY <3>1, <3>2
  <2> QED
    BY <2>1, <2>2 DEF Fresh
<1> QED
  BY <1>9, <1>10, <1>12, <1>13, <1>14, <1>15 DEF Settled

\* Register and bulk creation.
LEMMA AccountMoves ==
    ASSUME AuthInv, NEW r \in Requests, op[r] \in AccountOps, AccountsStep(r),
           UNCHANGED <<codeVars, grants>>
    PROVE  AuthTypeOK' /\ Onward /\ Settled(r)' /\ \A s \in Requests \ {r} : Aside(s)
<1>0. AuthTypeOK /\ ServiceTypeOK /\ Route(r) /\ UNCHANGED grants
  BY DEF AuthInv, AuthTypeOK
<1>1. CASE RegisterExists(r)
  <2>1. /\ Active(r) /\ pc[r] = "register.exists"
        /\ UNCHANGED <<now, users, refreshTokens, accessTokens, op, arg, before, at, loaded>>
    BY <1>1 DEF RegisterExists, Active, Ended, tables, request
  <2>2. CASE Return(r, "ErrEmailAlreadyExists") \/ Return(r, "failure")
    BY <1>0, <2>1, <2>2, RegisterMove
  <2>3. CASE Item(r).fits /\ Goto(r, "register.insert") /\ UNCHANGED report
    <3>1. AccountRoute(r)
      BY <1>0, <2>1 DEF Route
    <3>2. pc'[r] = "register.insert" => AccountRoute(r)'
      BY <2>1, <2>3, <3>1 DEF AccountRoute, Item, Position
    <3>3. SessionRoute(r)' /\ CodeRoute(r)' /\ GoogleRoute(r)'
      BY <2>1 DEF SessionRoute, CodeRoute, GoogleRoute, AccountOps
    <3> QED
      BY <1>0, <2>1, <2>3, <3>2, <3>3, StatementMove DEF Statements
  <2> QED
    BY <1>1, <2>2, <2>3 DEF RegisterExists
<1>2. CASE RegisterInsert(r)
  <2>1. /\ Active(r)
        /\ UNCHANGED <<now, refreshTokens, accessTokens, op, arg, before, at, loaded>>
    BY <1>2 DEF RegisterInsert, Active, Ended, request
  <2>2. /\ Return(r, "ok") \/ Return(r, "failure")
        /\ \/ UNCHANGED users
           \/ /\ ~ExistsByEmail(normalizeEmail(Item(r).email))
              /\ users' = [users EXCEPT ![Account(r)] =
                              NewUser(normalizeEmail(Item(r).email), Item(r).password)]
    BY <1>2 DEF RegisterInsert
  <2> QED
    BY <1>0, <2>1, <2>2, RegisterMove
<1>3. CASE RegisterFails(r)
  BY <1>0, <1>3, RegisterMove DEF RegisterFails, tables, request
<1> QED
  BY <1>1, <1>2, <1>3 DEF AccountsStep

-----------------------------------------------------------------------------
(* The invariant holds *)

\* A step that is onward, and settles whom it does not leave aside, keeps AuthInv.
LEMMA AuthInvKept ==
    ASSUME AuthInv, AuthTypeOK', Onward, \A s \in Requests : Aside(s) \/ Settled(s)'
    PROVE  AuthInv'
<1>1. Addresses'
  BY AddressesStand DEF Onward
<1>2. \A s \in Requests : Settled(s)'
  BY AsideStands
<1> QED
  BY <1>1, <1>2 DEF AuthInv, Settled

\* The steps of no request: a user consents, the process dies, time passes.
LEMMA OthersMove ==
    ASSUME AuthInv,
           \/ \E code \in AuthCodes : Consent(code) /\ UNCHANGED <<codeVars, report>>
           \/ Crash /\ UNCHANGED <<codeVars, grants, report>>
           \/ Tick /\ UNCHANGED <<codeVars, grants, report>>
           \/ Quiescent /\ UNCHANGED <<codeVars, grants, report>>
           \/ UNCHANGED authVars
    PROVE  AuthTypeOK' /\ Onward /\ \A s \in Requests : Aside(s)
<1>0. /\ AuthTypeOK /\ ServiceTypeOK /\ \A r \in Requests : Owner(r)
      /\ None \notin Requests /\ None \notin Grants
  BY ServiceAssumption, GoogleAssumption DEF AuthInv, AuthTypeOK
<1>1. ASSUME NEW code \in AuthCodes, Consent(code), UNCHANGED <<codeVars, report>>
      PROVE  AuthTypeOK' /\ Onward /\ \A s \in Requests : Aside(s)
  <2>1. PICK email \in Typed, verified \in BOOLEAN :
           grants' = [grants EXCEPT ![code] =
               [email |-> email, verified |-> verified, spentBy |-> None]]
    BY <1>1 DEF Consent
  <2> DEFINE grant == [email |-> email, verified |-> verified, spentBy |-> None]
  <2>2. grant \in Grants /\ grant # None /\ grant.spentBy = None
    BY <1>0, ServiceAssumption DEF Grants, Typed, Emails
  <2>3. grants' = [grants EXCEPT ![code] = grant]
    BY <2>1
  <2> HIDE DEF grant
  <2>4. /\ grants[code] = None
        /\ UNCHANGED <<now, users, refreshTokens, accessTokens, pc, op, arg, before, at, loaded,
                       out, report>>
    BY <1>1 DEF Consent, serviceVars, tables, request
  <2>5. /\ grants' \in [AuthCodes -> Grants \cup {None}]
        /\ \A c \in AuthCodes : grants'[c] = IF c = code THEN grant ELSE grants[c]
    BY <1>0, <2>2, <2>3 DEF AuthTypeOK
  <2>6. AuthTypeOK'
    BY <1>0, <2>4, <2>5 DEF AuthTypeOK, ServiceTypeOK
  <2>7. GrantsGrow
    BY <2>4, <2>5 DEF GrantsGrow
  <2>8. Onward
    BY <2>4, <2>7, TablesSame DEF Onward
  <2>9. \A s \in Requests : Aside(s)
    BY <1>0, <2>2, <2>4, <2>5 DEF Aside
  <2> QED
    BY <2>6, <2>8, <2>9
<1>2. CASE Crash /\ UNCHANGED <<codeVars, grants, report>>
  <2>1. /\ UNCHANGED <<now, users, refreshTokens, accessTokens, op, arg, before, at, loaded, out,
                       grants, report>>
        /\ pc' = [r \in Requests |-> IF Active(r) THEN "crashed" ELSE pc[r]]
    BY <1>2 DEF Crash, tables, request
  <2>2. /\ pc' \in [Requests -> Statements]
        /\ \A r \in Requests : pc'[r] = IF Active(r) THEN "crashed" ELSE pc[r]
    BY <1>0, <2>1 DEF ServiceTypeOK, Statements
  <2>3. AuthTypeOK'
    BY <1>0, <2>1, <2>2 DEF AuthTypeOK, ServiceTypeOK
  <2>4. \A s \in Requests : Aside(s)
    BY <2>1, <2>2 DEF Aside
  <2>5. Onward
    BY <2>1, <2>2, TablesSame DEF Onward, Active, Ended
  <2> QED
    BY <2>3, <2>4, <2>5
<1>3. CASE Tick /\ UNCHANGED <<codeVars, grants, report>>
  <2>1. /\ UNCHANGED <<users, refreshTokens, accessTokens, pc, op, arg, before, at, loaded, out,
                       grants, report>>
        /\ now' \in Nat
    BY <1>0, <1>3 DEF Tick, tables, request, ServiceTypeOK
  <2>2. AuthTypeOK'
    BY <1>0, <2>1 DEF AuthTypeOK, ServiceTypeOK
  <2> QED
    BY <2>1, <2>2, TablesSame DEF Onward, Aside
<1>4. CASE UNCHANGED authVars
  <2>1. UNCHANGED <<now, users, refreshTokens, accessTokens, pc, op, arg, before, at, loaded, out,
                    grants, report>>
    BY <1>4 DEF authVars, serviceVars, tables, request
  <2>2. AuthTypeOK'
    BY <1>0, <2>1 DEF AuthTypeOK, ServiceTypeOK
  <2> QED
    BY <2>1, <2>2, TablesSame DEF Onward, Aside
<1>5. CASE Quiescent /\ UNCHANGED <<codeVars, grants, report>>
  BY <1>4, <1>5 DEF Quiescent, authVars
<1> QED
  BY <1>1, <1>2, <1>3, <1>4, <1>5

\* Every statement of a request leaves the others aside.
LEMMA Steps ==
    ASSUME AuthInv, NEW r \in Requests, AuthStep(r)
    PROVE  AuthTypeOK' /\ Onward /\ Settled(r)' /\ \A s \in Requests \ {r} : Aside(s)
  BY SessionMoves, CodeMoves, GoogleMoves, AccountMoves DEF AuthStep

\* Every step of the service is onward and settles whom it does not leave aside.
LEMMA EveryStep ==
    ASSUME AuthInv, [AuthNext]_authVars
    PROVE  AuthTypeOK' /\ Onward /\ \A s \in Requests : Aside(s) \/ Settled(s)'
<1>1. CASE \E r \in Requests : AuthArrive(r)
  BY <1>1, Arrivals
<1>2. CASE \E r \in Requests : AuthStep(r)
  BY <1>2, Steps
<1>3. CASE \/ \E code \in AuthCodes : Consent(code) /\ UNCHANGED <<codeVars, report>>
           \/ Crash /\ UNCHANGED <<codeVars, grants, report>>
           \/ Tick /\ UNCHANGED <<codeVars, grants, report>>
           \/ Quiescent /\ UNCHANGED <<codeVars, grants, report>>
           \/ UNCHANGED authVars
  BY <1>3, OthersMove
<1> QED
  BY <1>1, <1>2, <1>3 DEF AuthNext

\* AuthInv holds at the start.
LEMMA AuthInvInit == AuthInit => AuthInv
<1> SUFFICES ASSUME AuthInit PROVE AuthInv
  OBVIOUS
<1>1. /\ ServiceInit
      /\ grants = [code \in AuthCodes |-> None]
      /\ report = [r \in Requests |-> <<>>]
  BY DEF AuthInit, PasswordlessInit, GoogleInit, AccountsInit
<1>2. PICK hash \in [Seeds -> Secrets \cup {None}] :
         users = [u \in UserIDs |->
                     IF u \in Seeds THEN NewUser([box |-> u, lower |-> TRUE], hash[u]) ELSE None]
  BY <1>1 DEF ServiceInit
<1>3. ASSUME NEW u \in Seeds
      PROVE  /\ NewUser([box |-> u, lower |-> TRUE], hash[u]) \in UserRows
             /\ NewUser([box |-> u, lower |-> TRUE], hash[u]).email.box = u
             /\ NewUser([box |-> u, lower |-> TRUE], hash[u]).email.lower = TRUE
  BY ServiceAssumption DEF NewUser, UserRows, Emails, RoleLists
<1>4. /\ users \in [UserIDs -> UserRows \cup {None}]
      /\ \A u \in UserIDs : users[u] # None =>
            u \in Seeds /\ users[u].email.box = u /\ users[u].email.lower = TRUE
  <2> HIDE DEF NewUser
  <2> QED
    BY <1>2, <1>3
<1>5. AuthTypeOK
  <2>1. ServiceTypeOK
    BY <1>1, <1>4 DEF ServiceInit, ServiceTypeOK, Statements
  <2>2. <<>> \in Seq(Entries) /\ None \in Bodies
    BY DEF Bodies, SessionBodies
  <2> QED
    BY <1>1, <2>1, <2>2 DEF AuthTypeOK, ServiceInit
<1>6. Addresses
  BY <1>4 DEF Addresses, OneAccountPerMailbox
<1>7. ASSUME NEW r \in Requests PROVE Route(r) /\ Owner(r) /\ Fresh(r)
  <2>1. /\ pc[r] = "idle" /\ op[r] = None /\ out[r] = None /\ report[r] = <<>>
        /\ loaded[r] = None /\ refreshTokens[r] = None /\ accessTokens[r] = None
    BY <1>1 DEF ServiceInit
  <2>2. r \notin Seeds /\ \A i \in 1 .. MaxBatch : <<r, i>> \in UserIDs \ Seeds
    BY ServiceAssumption DEF UserIDs
  <2>3. Fresh(r)
    BY <1>4, <2>2 DEF Fresh, UserIDs
  <2> QED
    BY <2>1, <2>3 DEF Route, Owner, Active
<1> QED
  BY <1>5, <1>6, <1>7 DEF AuthInv

\* AuthInv is inductive.
LEMMA AuthInvHolds == AuthSpec => []AuthInv
<1>1. AuthInv /\ [AuthNext]_authVars => AuthInv'
  BY EveryStep, AuthInvKept
<1> QED
  BY <1>1, AuthInvInit, PTL DEF AuthSpec

-----------------------------------------------------------------------------
(* Theorems *)

\* Whatever creations of accounts race, by whichever of the four paths, a mailbox
\* never has two accounts (user_repository.go).
THEOREM MailboxesHaveOneAccount == AuthSpec => []OneAccountPerMailbox
<1>1. AuthInv => OneAccountPerMailbox
  BY DEF AuthInv, Addresses
<1> QED
  BY <1>1, AuthInvHolds, PTL

\* No step of any route removes an account or takes its address, its password or
\* a role from it (user_repository.go).
THEOREM AccountsStay == AuthSpec => AccountsPersist
<1>1. ASSUME AuthInv, [AuthNext]_authVars
      PROVE  [\A u \in UserIDs : users[u] # None =>
                 /\ users'[u] # None
                 /\ users'[u].email = users[u].email
                 /\ users'[u].passwordHash = users[u].passwordHash
                 /\ \A i \in DOMAIN users[u].roles : users'[u].roles[i] = users[u].roles[i]]_authVars
  BY <1>1, EveryStep DEF Onward, AccountsGrow, KeepsAccount
<1> QED
  BY <1>1, AuthInvHolds, PTL DEF AuthSpec, AccountsPersist

\* Whichever way a session was opened, it is of the account of the mailbox that
\* was proven, and rotations stay with it (login.go, verify_code.go,
\* complete_google_oauth.go, refresh.go).
THEOREM SessionsAreOfTheProvenOwner == AuthSpec => []SessionOwnerProven
<1>1. ASSUME AuthInv, NEW r \in Requests, refreshTokens[r] # None
      PROVE  IF op[r] = "refresh"
             THEN refreshTokens[r].user = refreshTokens[arg[r]].user
             ELSE users[refreshTokens[r].user].email.box = ProvenMailbox(r)
  BY <1>1 DEF AuthInv, Owner, Proven
<1>2. AuthInv => SessionOwnerProven
  BY <1>1 DEF SessionOwnerProven
<1> QED
  BY <1>2, AuthInvHolds, PTL
=============================================================================
