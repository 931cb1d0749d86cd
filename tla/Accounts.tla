------------------------------ MODULE Accounts ------------------------------
(***************************************************************************)
(* Creating accounts with a password: POST /auth/register creates one,     *)
(* POST /admin/users/bulk runs the same use case for each user of a list   *)
(* and reports what became of each.                                        *)
(***************************************************************************)
EXTENDS Service

VARIABLE report   \* what a bulk creation has found out about each of its users

AccountOps == {"register", "bulk_create"}

\* A user to create. bcrypt refuses to hash a password of more than 72 bytes:
\* fits is FALSE for one of those.
Items == [email : Typed, password : Secrets, fits : BOOLEAN]

-----------------------------------------------------------------------------
(* Arrival *)

ArriveRegister(r) ==
    /\ \E item \in Items : Arrive(r, "register", item)
    /\ Goto(r, "register.exists")
    /\ UNCHANGED <<now, tables, loaded, report>>

\* The middleware AdminAPIKey turns down a request without the key.
RefuseWithoutKey(r) == Arrive(r, "bulk_create", None) /\ Answer(r, "unauthorized")

\* The middleware, then the body: a list of at least one user.
ArriveBulkCreate(r) ==
    /\ \/ RefuseWithoutKey(r)
       \/ Arrive(r, "bulk_create", None) /\ Answer(r, "malformed")
       \/ /\ \E n \in 1 .. MaxBatch : \E items \in [1 .. n -> Items] :
                 Arrive(r, "bulk_create", [users |-> items])
          /\ Goto(r, "register.exists")
    /\ UNCHANGED <<now, tables, loaded, report>>

-----------------------------------------------------------------------------
(* Register, called once by the one route and for each item by the other *)

Position(r) == Len(report[r]) + 1

Item(r) == IF op[r] = "register" THEN arg[r] ELSE arg[r].users[Position(r)]

Account(r) == IF op[r] = "register" THEN r ELSE <<r, Position(r)>>

\* Mutant: an error that is not a duplicate is reported as one.
ReportEntry_AllDuplicates ==
    [ok |-> "created", ErrEmailAlreadyExists |-> "email already registered",
     failure |-> "email already registered"]

\* An item is listed as created, or as skipped for a reason.
ReportEntry ==
    [ok |-> "created", ErrEmailAlreadyExists |-> "email already registered",
     failure |-> "unknown error"]

\* Mutant: the loop ends at the first item that is not created.
NextItem_StopsAtError(r, result) ==
    /\ op[r] = "bulk_create"
    /\ report' = [report EXCEPT ![r] = Append(@, ReportEntry[result])]
    /\ IF result # "ok" \/ Position(r) = Len(arg[r].users) THEN Answer(r, "ok")
                                                     ELSE Goto(r, "register.exists")

\* The loop of CreateUsersBulk: whatever became of an item, the next one is
\* tried, and the batch as a whole never fails.
NextItem(r, result) ==
    /\ op[r] = "bulk_create"
    /\ report' = [report EXCEPT ![r] = Append(@, ReportEntry[result])]
    /\ IF Position(r) = Len(arg[r].users) THEN Answer(r, "ok") ELSE Goto(r, "register.exists")

\* Register.Handle returns to its caller.
Return(r, result) ==
    \/ op[r] = "register" /\ Answer(r, result) /\ UNCHANGED report
    \/ NextItem(r, result)

ExistsByEmail(email) == FindByEmail(email) # {}

\* Mutant: the error of Hash is dropped.
RegisterExists_HashErrorDropped(r) ==
    LET exists == ExistsByEmail(normalizeEmail(Item(r).email))
    IN  /\ pc[r] = "register.exists"
        /\ \/ exists /\ Return(r, "ErrEmailAlreadyExists")
           \/ ~exists /\ Goto(r, "register.insert") /\ UNCHANGED report
        /\ UNCHANGED <<now, tables, request, loaded>>

\* The check, then the hash of the password.
RegisterExists(r) ==
    LET exists == ExistsByEmail(normalizeEmail(Item(r).email))
    IN  /\ pc[r] = "register.exists"
        /\ \/ exists /\ Return(r, "ErrEmailAlreadyExists")
           \/ ~exists /\ ~Item(r).fits /\ Return(r, "failure")
           \/ ~exists /\ Item(r).fits /\ Goto(r, "register.insert") /\ UNCHANGED report
        /\ UNCHANGED <<now, tables, request, loaded>>

\* Mutant: ON CONFLICT (email) DO UPDATE.
RegisterInsert_Upserts(r) ==
    LET email == normalizeEmail(Item(r).email)
    IN  /\ pc[r] = "register.insert"
        /\ \E u \in IF ExistsByEmail(email) THEN FindByEmail(email) ELSE {Account(r)} :
               users' = [users EXCEPT ![u] = NewUser(email, Item(r).password)]
        /\ Return(r, "ok")
        /\ UNCHANGED <<now, refreshTokens, accessTokens, request, loaded>>

\* INSERT INTO users: refused by the unique constraint if the account exists by
\* now, which is an error like any other. It may commit and its acknowledgement
\* be lost.
RegisterInsert(r) ==
    LET email == normalizeEmail(Item(r).email)
    IN  /\ pc[r] = "register.insert"
        /\ \/ /\ ~ExistsByEmail(email)
              /\ users' = [users EXCEPT ![Account(r)] = NewUser(email, Item(r).password)]
              /\ Return(r, "ok") \/ Return(r, "failure")
           \/ /\ ExistsByEmail(email)
              /\ Return(r, "failure")
              /\ UNCHANGED users
        /\ UNCHANGED <<now, refreshTokens, accessTokens, request, loaded>>

\* A statement returns an error and had no effect: Register.Handle returns it.
RegisterFails(r) ==
    /\ Active(r)
    /\ Return(r, "failure")
    /\ UNCHANGED <<now, tables, request, loaded>>

-----------------------------------------------------------------------------
(* The handlers' answers *)

RegisterStatus ==
    [ok |-> 201, malformed |-> 400, ErrEmailAlreadyExists |-> 409, failure |-> 500]

BulkCreateStatus == [ok |-> 201, malformed |-> 400, unauthorized |-> 401]

\* What the client was told: the item of request r for account u, with the
\* outcome in the words of the report.
Told(r) ==
    IF pc[r] # "done" THEN {}
    ELSE IF op[r] = "register" /\ RegisterStatus[out[r]] \in {201, 409}
    THEN {[account |-> r, item |-> arg[r],
           entry |-> IF RegisterStatus[out[r]] = 201 THEN "created"
                                                     ELSE "email already registered"]}
    ELSE IF op[r] = "bulk_create" /\ BulkCreateStatus[out[r]] = 201
    THEN {[account |-> <<r, i>>, item |-> arg[r].users[i], entry |-> report[r][i]] :
             i \in DOMAIN report[r]}
    ELSE {}

-----------------------------------------------------------------------------
(* What AuthService composes with the other components *)

AccountsInit == ServiceInit /\ report = [r \in Requests |-> <<>>]

AccountsArrive(r) == ArriveRegister(r) \/ ArriveBulkCreate(r)

AccountsStep(r) ==
    \/ RegisterExists(r)
    \/ RegisterInsert(r)
    \/ RegisterFails(r)

-----------------------------------------------------------------------------
(* Properties *)

\* Types; a bulk creation in progress has an item left, and the INSERT is
\* reached only with a password that bcrypt could hash (register.go).
AccountsTypeOK ==
    /\ ServiceTypeOK
    /\ report \in [Requests -> Seq({"created", "email already registered", "unknown error"})]
    /\ \A r \in Requests : Active(r) /\ op[r] \in AccountOps =>
          /\ op[r] = "bulk_create" => Position(r) \in DOMAIN arg[r].users
          /\ Item(r) \in Items
          /\ pc[r] = "register.insert" => Item(r).fits

\* Who was told that the account was created owns it from then on: it has the
\* password of that request and it is the account that every lookup of the
\* address finds, whatever other registrations raced with it (register.go,
\* bulk_create.go).
CreatedIsKept ==
    \A r \in Requests : \A t \in Told(r) : t.entry = "created" =>
        /\ FindByEmail(normalizeEmail(t.item.email)) = {t.account}
        /\ users[t.account].passwordHash = t.item.password

\* "email already registered" is said only when another account has the mailbox,
\* never for an error of the database or on account of a failed attempt of the
\* same item (register.go, bulk_create.go).
ConflictJustified ==
    \A r \in Requests : \A t \in Told(r) : t.entry = "email already registered" =>
        \E u \in UserIDs \ {t.account} : users[u] # None /\ users[u].email.box = t.item.email.box

\* Every user of a batch is reported on, in order, whatever failed before it,
\* and a batch without an unknown error leaves each of its mailboxes with an
\* account: running it again until then is safe (bulk_create.go).
BatchAccountedFor ==
    \A r \in Requests : pc[r] = "done" /\ op[r] = "bulk_create" /\ out[r] = "ok" =>
        /\ Len(report[r]) = Len(arg[r].users)
        /\ \A i \in DOMAIN report[r] : report[r][i] # "unknown error" =>
               ExistsByEmail(normalizeEmail(arg[r].users[i].email))
=============================================================================
