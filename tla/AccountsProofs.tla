--------------------------- MODULE AccountsProofs ---------------------------
(***************************************************************************)
(* Theorems about creating accounts, beside every other route: what a      *)
(* client was told is true, and stays so.                                  *)
(***************************************************************************)
EXTENDS AuthProofs

-----------------------------------------------------------------------------
(* The inductive invariant *)

\* What is said of an item, to be stored as the given account, is true.
Justified(account, item, entry) ==
    /\ entry = "created" =>
          /\ users[account] # None
          /\ users[account].email = normalizeEmail(item.email)
          /\ users[account].passwordHash = item.password
    /\ entry = "email already registered" =>
          \E u \in UserIDs \ {account} : users[u] # None /\ users[u].email.box = item.email.box

\* The report of a bulk creation so far, and the answer of either route.
Reported(r) ==
    /\ op[r] = "register" /\ pc[r] = "done" =>
          /\ out[r] \in {"ok", "ErrEmailAlreadyExists", "failure", "malformed"}
          /\ out[r] # "malformed" =>
                arg[r] \in Items /\ Justified(r, arg[r], ReportEntry[out[r]])
    /\ op[r] = "bulk_create" =>
          /\ Len(report[r]) <= MaxBatch
          /\ \A i \in 1 .. Len(report[r]) :
                Justified(<<r, i>>, arg[r].users[i], report[r][i])
          /\ pc[r] = "done" => out[r] \in {"ok", "malformed", "unauthorized"}
          /\ out[r] = "ok" => arg[r] \in Batches /\ Len(report[r]) = Len(arg[r].users)

AccountsInv == AuthInv /\ \A r \in Requests : Reported(r)

-----------------------------------------------------------------------------
(* What was said stays true *)

\* What is justified stays so, whatever the other routes do.
LEMMA JustifiedStands ==
    ASSUME AccountsGrow, NEW account \in UserIDs, NEW item, NEW entry,
           Justified(account, item, entry)
    PROVE  Justified(account, item, entry)'
  BY DEF AccountsGrow, KeepsAccount, Justified

\* The part of a report that is there stays justified.
LEMMA ReportStands ==
    ASSUME AccountsInv, Onward, NEW r \in Requests, op[r] = "bulk_create", pc[r] # "idle",
           NEW i \in 1 .. Len(report[r]), report'[r][i] = report[r][i]
    PROVE  Justified(<<r, i>>, arg[r].users[i], report[r][i])'
<1>1. Reported(r) /\ arg'[r] = arg[r] /\ report[r] \in Seq(Entries)
  BY DEF AccountsInv, AuthInv, AuthTypeOK, Onward
<1>2. Len(report[r]) \in Nat /\ Len(report[r]) <= MaxBatch
  BY <1>1 DEF Reported
<1>3. <<r, i>> \in UserIDs
  <2>1. i \in 1 .. MaxBatch
    BY <1>2, ServiceAssumption
  <2> QED
    BY <2>1 DEF UserIDs
<1>4. PICK item, entry : item = arg[r].users[i] /\ entry = report[r][i]
  OBVIOUS
<1>5. Justified(<<r, i>>, item, entry)
  BY <1>1, <1>4 DEF Reported
<1>6. Justified(<<r, i>>, item, entry)'
  BY <1>3, <1>5, JustifiedStands DEF Onward
<1> QED
  BY <1>1, <1>4, <1>6 DEF Justified

\* The facts about a creation stand while it takes no step, or dies.
LEMMA ReportedStands ==
    ASSUME AccountsInv, Onward, NEW s \in Requests, Aside(s)
    PROVE  Reported(s)'
<1>0. /\ Reported(s) /\ Route(s)
      /\ UNCHANGED <<op[s], arg[s], out[s], report[s]>>
      /\ pc'[s] = "done" => pc[s] = "done"
  BY DEF AccountsInv, AuthInv, Aside
<1>1. op[s] \in Routes => pc[s] # "idle"
  BY <1>0, NoneAssumption DEF Route
<1>2. ASSUME op[s] = "register", pc'[s] = "done", out[s] # "malformed"
      PROVE  Justified(s, arg[s], ReportEntry[out[s]])'
  <2>1. Justified(s, arg[s], ReportEntry[out[s]]) /\ s \in UserIDs
    BY <1>0, <1>2 DEF Reported, UserIDs
  <2>2. PICK item, entry : item = arg[s] /\ entry = ReportEntry[out[s]]
    OBVIOUS
  <2>3. Justified(s, item, entry)'
    BY <2>1, <2>2, JustifiedStands DEF Onward
  <2> QED
    BY <1>0, <2>2, <2>3 DEF Justified
<1>3. ASSUME op[s] = "bulk_create", NEW i \in 1 .. Len(report[s])
      PROVE  Justified(<<s, i>>, arg[s].users[i], report[s][i])'
  BY <1>0, <1>1, <1>3, ReportStands DEF Routes
<1> QED
  BY <1>0, <1>2, <1>3 DEF Reported

-----------------------------------------------------------------------------
(* Arrivals and steps *)

\* Nothing is said on arrival, but to a request that is turned down.
LEMMA CreationArrives ==
    ASSUME AccountsInv, NEW r \in Requests, AuthArrive(r)
    PROVE  Reported(r)'
<1>0. /\ AuthTypeOK /\ ServiceTypeOK /\ Route(r)
  BY DEF AccountsInv, AuthInv, AuthTypeOK
<1>1. /\ \E route, body : Arrive(r, route, body)
      /\ UNCHANGED report
  BY DEF AuthArrive, SessionArrive, ArriveMalformed, ArriveLogin, ArriveRefresh, ArriveLogout,
     ArriveAddRole, PasswordlessArrive, ArriveRequestCode, ArriveVerifyCode, GoogleArrive,
     ArriveGoogleStart, ArriveGoogleCallback, AccountsArrive, ArriveRegister, ArriveBulkCreate,
     RefuseWithoutKey
<1>2. report'[r] = <<>> /\ out[r] = None
  BY <1>0, <1>1 DEF Arrive, Route
<1>3. ASSUME NEW x, Goto(r, x) PROVE pc'[r] = x /\ out'[r] = None
  BY <1>0, <1>2, <1>3 DEF Goto, ServiceTypeOK
<1>4. ASSUME NEW x, Answer(r, x) PROVE pc'[r] = "done" /\ out'[r] = x
  BY <1>0, <1>4 DEF Answer, ServiceTypeOK
<1>5. CASE op'[r] = "register"
  <2>1. Answer(r, "malformed") \/ Goto(r, "register.exists")
    BY <1>0, <1>5 DEF AuthArrive, SessionArrive, ArriveLogin, ArriveRefresh, ArriveLogout,
       ArriveAddRole, PasswordlessArrive, ArriveRequestCode, ArriveVerifyCode, GoogleArrive,
       ArriveGoogleStart, ArriveGoogleCallback, AccountsArrive, ArriveBulkCreate, ArriveRegister,
       ArriveMalformed, RefuseWithoutKey, Arrive, ServiceTypeOK
  <2> QED
    BY <1>3, <1>4, <1>5, <2>1 DEF Reported
<1>6. CASE op'[r] = "bulk_create"
  <2>1. Answer(r, "malformed") \/ Answer(r, "unauthorized") \/ Goto(r, "register.exists")
    BY <1>0, <1>6 DEF AuthArrive, SessionArrive, ArriveLogin, ArriveRefresh, ArriveLogout,
       ArriveAddRole, PasswordlessArrive, ArriveRequestCode, ArriveVerifyCode, GoogleArrive,
       ArriveGoogleStart, ArriveGoogleCallback, AccountsArrive, ArriveBulkCreate, ArriveRegister,
       ArriveMalformed, RefuseWithoutKey, Arrive, ServiceTypeOK
  <2>2. /\ pc'[r] = "done" => out'[r] \in {"ok", "malformed", "unauthorized"}
        /\ out'[r] # "ok"
    BY <1>3, <1>4, <2>1, NoneAssumption DEF Results
  <2>3. Len(report'[r]) = 0
    BY <1>2
  <2> QED
    BY <1>6, <2>2, <2>3, ServiceAssumption DEF Reported
<1>7. CASE op'[r] \notin {"register", "bulk_create"}
  BY <1>7 DEF Reported
<1> QED
  BY <1>5, <1>6, <1>7

\* Register returns with a result that is true of the item.
LEMMA CreationReturns ==
    ASSUME AccountsInv, Onward, NEW r \in Requests, Active(r), op[r] \in AccountOps,
           NEW result \in {"ok", "ErrEmailAlreadyExists", "failure"}, Return(r, result),
           NEW account, account = Account(r), NEW item, item = Item(r),
           Justified(account, item, ReportEntry[result])'
    PROVE  Reported(r)'
<1>0. /\ AuthInv /\ AuthTypeOK /\ ServiceTypeOK /\ Reported(r) /\ Route(r) /\ AccountRoute(r)
      /\ pc[r] # "idle" /\ UNCHANGED <<op[r], arg[r]>> /\ report[r] \in Seq(Entries)
  BY DEF AccountsInv, AuthInv, AuthTypeOK, Active, Route, Onward
<1>1. ASSUME NEW x, Answer(r, x) PROVE pc'[r] = "done" /\ out'[r] = x
  BY <1>0, <1>1 DEF Answer, ServiceTypeOK
<1>2. /\ op[r] = "register" => Answer(r, result)
      /\ op[r] = "bulk_create" =>
            /\ Len(report'[r]) = Position(r)
            /\ \A i \in 1 .. Len(report[r]) : report'[r][i] = report[r][i]
            /\ report'[r][Position(r)] = ReportEntry[result]
            /\ \/ Position(r) = Len(arg[r].users) /\ Answer(r, "ok")
               \/ Position(r) # Len(arg[r].users) /\ Goto(r, "register.exists")
  BY <1>0, ReturnEffect
<1>3. CASE op[r] = "register"
  <2>1. pc'[r] = "done" /\ out'[r] = result
    BY <1>1, <1>2, <1>3
  <2>2. account = r /\ item = arg[r] /\ arg[r] \in Items
    BY <1>0, <1>3 DEF Account, Item, AccountRoute
  <2>3. Justified(r, arg[r], ReportEntry[out[r]])'
    BY <1>0, <2>1, <2>2 DEF Justified
  <2> QED
    BY <1>0, <1>3, <2>1, <2>2, <2>3 DEF Reported
<1>4. CASE op[r] = "bulk_create"
  <2>1. /\ Position(r) \in 1 .. MaxBatch /\ arg[r] \in Batches
        /\ account = <<r, Position(r)>> /\ item = arg[r].users[Position(r)]
    BY <1>0, <1>4 DEF AccountRoute, Account, Item
  <2>2. ASSUME NEW i \in 1 .. Len(report[r])
        PROVE  Justified(<<r, i>>, arg[r].users[i], report[r][i])'
    BY <1>0, <1>2, <1>4, ReportStands
  <2>3. ASSUME NEW i \in 1 .. Len(report'[r]), i = Position(r)
        PROVE  Justified(<<r, i>>, arg[r].users[i], report[r][i])'
    BY <1>0, <1>2, <1>4, <2>1, <2>3 DEF Justified
  <2>4. \A i \in 1 .. Len(report'[r]) : i \in 1 .. Len(report[r]) \/ i = Position(r)
    BY <1>0, <1>2, <1>4 DEF Position
  <2>5. /\ pc'[r] = "done" => out'[r] = "ok"
        /\ out'[r] = "ok" => Position(r) = Len(arg[r].users)
    <3>1. out[r] = None
      BY <1>0 DEF Route, Active, Ended
    <3>2. ASSUME Goto(r, "register.exists") PROVE pc'[r] = "register.exists" /\ out'[r] = None
      BY <1>0, <3>1, <3>2 DEF Goto, ServiceTypeOK
    <3> QED
      BY <1>1, <1>2, <1>4, <3>2, NoneAssumption DEF Results
  <2>6. Len(report'[r]) <= MaxBatch
    BY <1>2, <1>4, <2>1, ServiceAssumption
  <2> QED
    BY <1>0, <1>2, <1>4, <2>1, <2>2, <2>3, <2>4, <2>5, <2>6 DEF Reported
<1> QED
  BY <1>3, <1>4 DEF AccountOps

\* Each statement of a creation says what is true.
LEMMA CreationSteps ==
    ASSUME AccountsInv, Onward, NEW r \in Requests, AuthStep(r)
    PROVE  Reported(r)'
<1>0. AuthInv /\ AuthTypeOK /\ ServiceTypeOK /\ Reported(r) /\ Route(r)
  BY DEF AccountsInv, AuthInv, AuthTypeOK
<1>1. Active(r)
  BY DEF AuthStep, SessionStep, LoginFind, RefreshFind, RefreshLoad, RefreshRevoke, LogoutFind,
     LogoutRevoke, AddRole, Issue, StatementFails, PasswordlessStep, InsertCode,
     SendVerificationCode, VerifyFind, IncrementAttempts, MarkConsumed, VerifyFindUser,
     VerifyInsertUser, GoogleStep, ExchangeCodeForToken, FetchUserinfo, GoogleFindUser,
     GoogleInsertUser, AccountsStep, RegisterExists, RegisterInsert, RegisterFails, Active, Ended
<1>2. UNCHANGED <<op[r], arg[r]>>
  BY <1>1 DEF Onward, Active
<1>3. CASE op[r] \notin AccountOps
  BY <1>2, <1>3 DEF Reported, AccountOps
<1>4. CASE op[r] \in AccountOps
  <2>1. AccountsStep(r)
    BY <1>4 DEF AuthStep, SessionOps, PasswordlessOps, GoogleOps, AccountOps
  <2>2. PICK account, item : account = Account(r) /\ item = Item(r)
    OBVIOUS
  <2>3. /\ account \in UserIDs /\ users[account] = None
        /\ normalizeEmail(item.email) = [box |-> item.email.box, lower |-> TRUE]
    BY <1>1, <1>0, <1>4, <2>2, AccountIsNew
  <2>4. /\ ReportEntry["ok"] = "created"
        /\ ReportEntry["ErrEmailAlreadyExists"] = "email already registered"
        /\ ReportEntry["failure"] = "unknown error"
    BY DEF ReportEntry
  <2>5. ASSUME Return(r, "failure") PROVE Reported(r)'
    <3>1. Justified(account, item, ReportEntry["failure"])'
      BY <2>4 DEF Justified
    <3> QED
      BY <1>1, <1>4, <2>2, <2>5, <3>1, CreationReturns
  <2>6. CASE RegisterExists(r)
    <3>1. CASE ExistsByEmail(normalizeEmail(Item(r).email)) /\ Return(r, "ErrEmailAlreadyExists")
      <4>1. PICK u \in FindByEmail(normalizeEmail(item.email)) : TRUE
        BY <2>2, <3>1 DEF ExistsByEmail
      <4>2. /\ u \in UserIDs \ {account} /\ users[u] # None
            /\ users[u].email.box = item.email.box
        BY <2>3, <4>1 DEF FindByEmail
      <4>3. UNCHANGED users
        BY <2>6 DEF RegisterExists, tables
      <4>4. Justified(account, item, ReportEntry["ErrEmailAlreadyExists"])'
        BY <2>4, <4>2, <4>3 DEF Justified
      <4> QED
        BY <1>1, <1>4, <2>2, <3>1, <4>4, CreationReturns
    <3>2. CASE Return(r, "failure")
      BY <2>5, <3>2
    <3>3. CASE Goto(r, "register.insert") /\ UNCHANGED report
      <4>1. pc'[r] = "register.insert" /\ out'[r] = None
        BY <1>0, <1>1, <3>3 DEF Goto, ServiceTypeOK, Route, Active, Ended
      <4>2. ASSUME op[r] = "bulk_create", NEW i \in 1 .. Len(report[r])
            PROVE  Justified(<<r, i>>, arg[r].users[i], report[r][i])'
        BY <1>1, <3>3, <4>2, ReportStands DEF Active
      <4> QED
        BY <1>0, <1>2, <3>3, <4>1, <4>2, NoneAssumption DEF Reported, Results
    <3> QED
      BY <2>6, <3>1, <3>2, <3>3 DEF RegisterExists
  <2>7. CASE RegisterInsert(r)
    <3>1. CASE /\ users' = [users EXCEPT ![Account(r)] =
                               NewUser(normalizeEmail(Item(r).email), Item(r).password)]
               /\ Return(r, "ok")
      <4>1. users'[account] = NewUser(normalizeEmail(item.email), item.password)
        BY <1>0, <2>2, <2>3, <3>1 DEF ServiceTypeOK
      <4>2. NewUser(normalizeEmail(item.email), item.password) # None
        <5>1. normalizeEmail(item.email) \in Emails /\ item.password \in Secrets
          BY <1>0, <1>1, <1>4, <2>2, AccountIsNew DEF Items
        <5> QED
          BY <5>1, NoneAssumption DEF NewUser, UserRows, RoleLists
      <4>3. /\ users'[account].email = normalizeEmail(item.email)
            /\ users'[account].passwordHash = item.password
        BY <4>1 DEF NewUser
      <4>4. Justified(account, item, ReportEntry["ok"])'
        BY <2>4, <4>1, <4>2, <4>3 DEF Justified
      <4> QED
        BY <1>1, <1>4, <2>2, <3>1, <4>4, CreationReturns
    <3> QED
      BY <2>5, <2>7, <3>1 DEF RegisterInsert
  <2>8. CASE RegisterFails(r)
    BY <2>5, <2>8 DEF RegisterFails
  <2> QED
    BY <2>1, <2>6, <2>7, <2>8 DEF AccountsStep
<1> QED
  BY <1>3, <1>4

-----------------------------------------------------------------------------
(* The invariant holds *)

\* AccountsInv holds at the start.
LEMMA AccountsInvInit == AuthInit => AccountsInv
<1>1. AuthInit => AuthInv /\ \A r \in Requests : op[r] = None
  BY AuthInvInit DEF AuthInit, PasswordlessInit, ServiceInit
<1> QED
  BY <1>1, NoneAssumption DEF AccountsInv, Reported, Routes

\* Every step keeps AccountsInv.
LEMMA AccountsInvStep == AccountsInv /\ [AuthNext]_authVars => AccountsInv'
<1> SUFFICES ASSUME AccountsInv, [AuthNext]_authVars PROVE AccountsInv'
  OBVIOUS
<1>1. AuthInv /\ AuthInv' /\ Onward
  BY EveryStep, AuthInvKept DEF AccountsInv
<1>2. ASSUME NEW r \in Requests, AuthArrive(r) \/ AuthStep(r)
      PROVE  \A s \in Requests : Reported(s)'
  <2>1. \A s \in Requests \ {r} : Aside(s)
    BY <1>1, <1>2, Arrivals, Steps
  <2>2. Reported(r)'
    BY <1>1, <1>2, CreationArrives, CreationSteps
  <2> QED
    BY <1>1, <2>1, <2>2, ReportedStands
<1>3. CASE \E r \in Requests : AuthArrive(r) \/ AuthStep(r)
  BY <1>1, <1>2, <1>3 DEF AccountsInv
<1>4. CASE \/ \E code \in AuthCodes : Consent(code) /\ UNCHANGED <<codeVars, report>>
           \/ Crash /\ UNCHANGED <<codeVars, grants, report>>
           \/ Tick /\ UNCHANGED <<codeVars, grants, report>>
           \/ Quiescent /\ UNCHANGED <<codeVars, grants, report>>
           \/ UNCHANGED authVars
  BY <1>1, <1>4, OthersMove, ReportedStands DEF AccountsInv
<1> QED
  BY <1>3, <1>4 DEF AuthNext

\* AccountsInv is inductive.
LEMMA AccountsInvHolds == AuthSpec => []AccountsInv
  BY AccountsInvInit, AccountsInvStep, PTL DEF AuthSpec

-----------------------------------------------------------------------------
(* Theorems *)

\* A bulk creation in progress has an item left, and the INSERT is reached only
\* with a password that bcrypt could hash (register.go).
THEOREM AccountsTypes == AuthSpec => []AccountsTypeOK
<1>1. ASSUME AuthInv PROVE AccountsTypeOK
  <2>1. /\ ServiceTypeOK
        /\ report \in [Requests -> Seq({"created", "email already registered", "unknown error"})]
    BY <1>1 DEF AuthInv, AuthTypeOK, Entries
  <2>2. ASSUME NEW r \in Requests, Active(r), op[r] \in AccountOps
        PROVE  /\ op[r] = "bulk_create" => Position(r) \in DOMAIN arg[r].users
               /\ Item(r) \in Items
               /\ pc[r] = "register.insert" => Item(r).fits
    <3>1. AccountRoute(r)
      BY <1>1, <2>2 DEF AuthInv, Route
    <3>2. ASSUME op[r] = "bulk_create" PROVE Position(r) \in DOMAIN arg[r].users
      <4>1. /\ arg[r] \in Batches /\ Position(r) \in 1 .. MaxBatch
            /\ Position(r) <= Len(arg[r].users)
        BY <2>2, <3>1, <3>2 DEF AccountRoute
      <4>2. PICK n \in 1 .. MaxBatch : arg[r].users \in [1 .. n -> Items]
        BY <4>1 DEF Batches
      <4>3. Len(arg[r].users) = n
        BY <4>2, BatchLength
      <4> QED
        BY <4>1, <4>2, <4>3, ServiceAssumption
    <3> QED
      BY <2>2, <3>1, <3>2 DEF AccountRoute
  <2> QED
    BY <2>1, <2>2 DEF AccountsTypeOK
<1> QED
  BY <1>1, AuthInvHolds, PTL

\* What a client was told is true of the tables.
LEMMA ToldJustified ==
    ASSUME AccountsInv, NEW r \in Requests, NEW t \in Told(r)
    PROVE  t.account \in UserIDs /\ Justified(t.account, t.item, t.entry)
<1>0. pc[r] = "done" /\ Reported(r) /\ report[r] \in Seq(Entries)
  <2>1. pc[r] = "done"
    BY DEF Told
  <2> QED
    BY <2>1 DEF AccountsInv, AuthInv, AuthTypeOK
<1>1. CASE op[r] = "register"
  <2>1. \/ out[r] = "ok" \/ out[r] = "ErrEmailAlreadyExists"
        \/ out[r] = "failure" \/ out[r] = "malformed"
    BY <1>0, <1>1 DEF Reported
  <2>2. CASE out[r] = "ok"
    <3>1. RegisterStatus[out[r]] = 201 /\ ReportEntry[out[r]] = "created"
      BY <2>2 DEF RegisterStatus, ReportEntry
    <3>2. t = [account |-> r, item |-> arg[r], entry |-> "created"]
      BY <1>0, <1>1, <3>1 DEF Told
    <3>3. Justified(r, arg[r], "created")
      BY <1>0, <1>1, <2>2, <3>1 DEF Reported
    <3> QED
      BY <3>2, <3>3 DEF UserIDs
  <2>3. CASE out[r] = "ErrEmailAlreadyExists"
    <3>1. /\ RegisterStatus[out[r]] \in {201, 409} /\ RegisterStatus[out[r]] # 201
          /\ ReportEntry[out[r]] = "email already registered"
      <4>1. RegisterStatus[out[r]] \in {201, 409}
        BY <2>3 DEF RegisterStatus
      <4>2. RegisterStatus[out[r]] # 201
        BY <2>3 DEF RegisterStatus
      <4>3. ReportEntry[out[r]] = "email already registered"
        BY <2>3 DEF ReportEntry
      <4> QED
        BY <4>1, <4>2, <4>3
    <3>2. t = [account |-> r, item |-> arg[r], entry |-> "email already registered"]
      BY <1>0, <1>1, <3>1 DEF Told
    <3>3. Justified(r, arg[r], "email already registered")
      BY <1>0, <1>1, <2>3, <3>1 DEF Reported
    <3> QED
      BY <3>2, <3>3 DEF UserIDs
  <2>4. CASE out[r] = "failure"
    <3>1. RegisterStatus[out[r]] = 500
      BY <2>4 DEF RegisterStatus
    <3> QED
      BY <1>0, <1>1, <3>1 DEF Told
  <2>5. CASE out[r] = "malformed"
    <3>1. RegisterStatus[out[r]] = 400
      BY <2>5 DEF RegisterStatus
    <3> QED
      BY <1>0, <1>1, <3>1 DEF Told
  <2> QED
    BY <2>1, <2>2, <2>3, <2>4, <2>5
<1>2. CASE op[r] # "register"
  <2>1. op[r] = "bulk_create"
    BY <1>0, <1>2 DEF Told
  <2>2. PICK i \in DOMAIN report[r] :
           t = [account |-> <<r, i>>, item |-> arg[r].users[i], entry |-> report[r][i]]
    BY <1>0, <2>1 DEF Told
  <2>3. i \in 1 .. Len(report[r]) /\ Len(report[r]) <= MaxBatch /\ Len(report[r]) \in Nat
    BY <1>0, <2>1 DEF Reported
  <2>4. i \in 1 .. MaxBatch
    BY <2>3, ServiceAssumption
  <2>5. Justified(<<r, i>>, arg[r].users[i], report[r][i])
    BY <1>0, <2>1, <2>3 DEF Reported
  <2> QED
    BY <2>2, <2>4, <2>5 DEF UserIDs
<1> QED
  BY <1>1, <1>2

\* Who was told that the account was created owns it from then on: every lookup of
\* the address finds it, with the password of that request (register.go,
\* bulk_create.go).
THEOREM CreatedAccountsAreKept == AuthSpec => []CreatedIsKept
<1>1. ASSUME AccountsInv, NEW r \in Requests, NEW t \in Told(r), t.entry = "created"
      PROVE  /\ FindByEmail(normalizeEmail(t.item.email)) = {t.account}
             /\ users[t.account].passwordHash = t.item.password
  <2>1. /\ t.account \in UserIDs /\ users[t.account] # None
        /\ users[t.account].email = normalizeEmail(t.item.email)
        /\ users[t.account].passwordHash = t.item.password
    BY <1>1, ToldJustified DEF Justified
  <2>2. OneAccountPerMailbox
    BY <1>1 DEF AccountsInv, AuthInv, Addresses
  <2> QED
    BY <2>1, <2>2 DEF FindByEmail, OneAccountPerMailbox
<1>2. AccountsInv => CreatedIsKept
  BY <1>1 DEF CreatedIsKept
<1> QED
  BY <1>2, AccountsInvHolds, PTL

\* "email already registered" is said only when another account has the mailbox
\* (register.go, bulk_create.go).
THEOREM ConflictsAreReal == AuthSpec => []ConflictJustified
<1>1. AccountsInv => ConflictJustified
  BY ToldJustified DEF ConflictJustified, Justified
<1> QED
  BY <1>1, AccountsInvHolds, PTL

\* Every user of a batch is reported on, and has an account unless its error is
\* unknown (bulk_create.go).
THEOREM BatchesAreAccountedFor == AuthSpec => []BatchAccountedFor
<1>1. ASSUME AccountsInv, NEW r \in Requests,
             pc[r] = "done", op[r] = "bulk_create", out[r] = "ok"
      PROVE  /\ Len(report[r]) = Len(arg[r].users)
             /\ \A i \in DOMAIN report[r] : report[r][i] # "unknown error" =>
                    ExistsByEmail(normalizeEmail(arg[r].users[i].email))
  <2>1. /\ AuthTypeOK /\ ServiceTypeOK /\ Addresses /\ Reported(r) /\ report[r] \in Seq(Entries)
        /\ arg[r] \in Batches /\ Len(report[r]) = Len(arg[r].users)
    BY <1>1 DEF AccountsInv, AuthInv, AuthTypeOK, Reported
  <2>2. PICK n \in 1 .. MaxBatch : arg[r].users \in [1 .. n -> Items]
    BY <2>1 DEF Batches
  <2>3. Len(arg[r].users) = n
    BY <2>2, BatchLength
  <2>4. ASSUME NEW i \in DOMAIN report[r], report[r][i] # "unknown error"
        PROVE  ExistsByEmail(normalizeEmail(arg[r].users[i].email))
    <3>1. /\ i \in 1 .. Len(report[r]) /\ i \in 1 .. n
          /\ report[r][i] \in Entries /\ arg[r].users[i] \in Items
      BY <2>1, <2>2, <2>3
    <3> DEFINE e == arg[r].users[i].email
    <3>2. e \in Emails
      BY <3>1, ServiceAssumption DEF Items, Typed, Emails
    <3>3. normalizeEmail(e) = [box |-> e.box, lower |-> TRUE]
      BY <3>2, Normalized
    <3>4. Justified(<<r, i>>, arg[r].users[i], report[r][i])
      BY <1>1, <2>1, <3>1 DEF Reported
    <3>5. CASE report[r][i] = "created"
      <4>1. <<r, i>> \in UserIDs
        <5>1. i \in 1 .. MaxBatch
          BY <3>1, ServiceAssumption
        <5> QED
          BY <5>1 DEF UserIDs
      <4> QED
        BY <3>4, <3>5, <4>1 DEF Justified, ExistsByEmail, FindByEmail
    <3>6. CASE report[r][i] = "email already registered"
      <4>1. PICK u \in UserIDs : users[u] # None /\ users[u].email.box = e.box
        BY <3>4, <3>6 DEF Justified
      <4>2. users[u].email \in Emails /\ users[u].email.lower = TRUE
        BY <2>1, <4>1 DEF ServiceTypeOK, UserRows, Addresses
      <4>3. users[u].email = [box |-> e.box, lower |-> TRUE]
        BY <4>1, <4>2 DEF Emails
      <4> QED
        BY <3>3, <4>1, <4>3 DEF ExistsByEmail, FindByEmail
    <3> QED
      BY <2>4, <3>1, <3>5, <3>6 DEF Entries
  <2> QED
    BY <2>1, <2>4
<1>2. AccountsInv => BatchAccountedFor
  BY <1>1 DEF BatchAccountedFor
<1> QED
  BY <1>2, AccountsInvHolds, PTL
=============================================================================
