------------------------------ MODULE Service ------------------------------
(***************************************************************************)
(* What every use case of auth-service-go shares: the requests, each run   *)
(* by its own goroutine of the HTTP server, the tables users and           *)
(* refresh_tokens with the statements of their repositories, the clock,    *)
(* and issueTokenPairFor.                                                  *)
(*                                                                         *)
(* A step of a request is one statement sent to PostgreSQL, which runs it  *)
(* atomically, together with the local computation up to the next one. No  *)
(* use case opens a transaction around two statements, so the steps of     *)
(* concurrent requests interleave freely.                                  *)
(*                                                                         *)
(* uuid.New() and the 32 random bytes of a refresh token are fresh at each *)
(* call, so a row is named after the request that created it: the refresh  *)
(* token issued by request r (its plaintext, its SHA-256 hash and its row) *)
(* is r, and so is the account r creates (<<r, i>> for the i-th user of a  *)
(* bulk creation).                                                         *)
(***************************************************************************)
EXTENDS Naturals, Sequences, FiniteSets

CONSTANTS
    Requests,         \* the HTTP requests observed
    Mailboxes,        \* what an e-mail address names, whatever its spelling
    Spellings,        \* of an address: in lower case (TRUE) or not (FALSE)
    Seeds,            \* the mailboxes that own an account from the start
    Secrets,          \* passwords, as far as bcrypt reads them (72 bytes)
    Operations,       \* the routes that clients use
    MaxBatch,         \* bound on the users of one bulk creation
    accessTokenTTL,   \* durations, in ticks of the clock
    refreshTokenTTL,
    TicksPerSecond,
    MaxTime,          \* bound on the clock
    None              \* SQL NULL, a nil pointer, or no row

\* The routes that reach a use case.
Routes == {"login", "refresh", "logout", "add_role", "register", "bulk_create",
           "request_code", "verify_code", "google_start", "google_callback"}

ASSUME ServiceAssumption ==
    /\ Operations \subseteq Routes
    /\ Spellings \subseteq BOOLEAN
    /\ Seeds \subseteq Mailboxes
    /\ Requests \cap Seeds = {}
    /\ (Requests \cup Seeds) \cap (Requests \X (1 .. MaxBatch)) = {}
    /\ None \notin Requests \cup Mailboxes \cup Secrets
    /\ MaxBatch \in Nat
    /\ accessTokenTTL \in Nat
    /\ refreshTokenTTL \in Nat
    /\ TicksPerSecond \in Nat \ {0}
    /\ MaxTime \in Nat

VARIABLES
    now,            \* the wall clock, read by time.Now()
    users,          \* table users: account -> row
    refreshTokens,  \* table refresh_tokens: token -> row
    accessTokens,   \* the signed JWTs handed to clients, by the issuing request
    pc,             \* the next statement of each request
    op,             \* the route each request was sent to
    arg,            \* its decoded body
    loaded,         \* the domain.User held in memory by a use case
    out,            \* the result of the use case
    before,         \* history: the requests that had ended when this one arrived
    at              \* history: when it arrived

tables  == <<users, refreshTokens, accessTokens>>
request == <<op, arg, before, at>>
serviceVars == <<now, tables, pc, request, loaded, out>>

-----------------------------------------------------------------------------
(* Addresses, passwords and roles *)

\* An address: the mailbox it names and whether its spelling is in lower case.
Emails == [box : Mailboxes, lower : BOOLEAN]

\* The addresses clients send.
Typed == [box : Mailboxes, lower : Spellings]

\* Mutant: the address is used as typed.
normalizeEmail_Omitted(e) == e

normalizeEmail(e) == [e EXCEPT !.lower = TRUE]

\* Mutant: any password will do.
Matches_Anything(hash, password) == TRUE

\* CompareHashAndPassword against the hash of a password.
Matches(hash, password) == hash = password

RoleCustomer == "CUSTOMER"
RoleSeller   == "SELLER"

NewUser(email, hash) ==
    [email |-> email, passwordHash |-> hash, roles |-> <<RoleCustomer>>]

\* The accounts: those of the start, the one a request creates, and the ones a
\* bulk creation does, by their position in it.
UserIDs == Seeds \cup Requests \cup (Requests \X (1 .. MaxBatch))

-----------------------------------------------------------------------------
(* Records: the rows of the two tables, the claims of an access token and    *)
(* what a use case keeps of a domain.User                                    *)

RoleLists == {<<RoleCustomer>>, <<RoleCustomer, RoleSeller>>}

UserRows == [email : Emails, passwordHash : Secrets \cup {None}, roles : RoleLists]

TokenRows == [user : UserIDs, expiresAt : Nat, revoked : BOOLEAN]

Claims == [sub : UserIDs, roles : RoleLists, exp : Nat]

DomainUsers == [id : UserIDs, roles : RoleLists]

\* How a use case ends: without error, with an error of the domain, or with
\* another one; and how a request ends that does not reach it.
Results == {"ok", "failure", "malformed", "unauthorized",
            "ErrInvalidCredentials", "ErrRefreshTokenInvalid", "ErrInvalidRole",
            "ErrCodeInvalid", "ErrTooManyAttempts", "ErrEmailAlreadyExists",
            "ErrOAuthStateInvalid", "ErrOAuthEmailNotVerified"}

ASSUME NoneAssumption ==
    None \notin UserRows \cup TokenRows \cup Claims \cup DomainUsers \cup Results \cup Routes

-----------------------------------------------------------------------------

\* Seconds since the epoch, as a number of ticks: the fraction is dropped.
Unix(t) == (t \div TicksPerSecond) * TicksPerSecond

-----------------------------------------------------------------------------
(* Repositories *)

\* Mutant: the WHERE clause is missing.
FindByEmail_Anyone(email) == {u \in UserIDs : users[u] # None}

\* SELECT ... WHERE email = ?: the accounts found.
FindByEmail(email) ==
    {u \in UserIDs : users[u] # None /\ users[u].email = email}

\* The domain.User built from a row: a copy that does not follow the row.
toDomainUser(u) == [id |-> u, roles |-> users[u].roles]

\* Mutant: revoked_at is not looked at.
IsValid_IgnoresRevoked(token) == now < token.expiresAt

IsValid(token) == ~token.revoked /\ now < token.expiresAt

\* UPDATE refresh_tokens SET revoked_at = now() WHERE id = ?: whatever the
\* row holds, a row already revoked included.
Revoke(t) == refreshTokens' = [refreshTokens EXCEPT ![t].revoked = TRUE]

-----------------------------------------------------------------------------
(* Requests *)

\* Where a request can be: before and after its life, and at each statement of
\* the use cases.
Statements == {"idle", "done", "crashed", "issue",
               "login.find", "refresh.find", "refresh.load", "refresh.revoke",
               "logout.find", "logout.revoke", "roles.update",
               "register.exists", "register.insert",
               "code.insert", "code.send", "verify.find", "verify.increment",
               "verify.consume", "verify.user", "verify.insert",
               "google.exchange", "google.userinfo", "google.user", "google.insert"}

Ended == {r \in Requests : pc[r] \in {"done", "crashed"}}

Active(r) == pc[r] # "idle" /\ r \notin Ended

Goto(r, statement) ==
    /\ pc' = [pc EXCEPT ![r] = statement]
    /\ UNCHANGED out

Answer(r, result) ==
    /\ pc' = [pc EXCEPT ![r] = "done"]
    /\ out' = [out EXCEPT ![r] = result]

\* The router hands request r, with its decoded body, to the handler of route.
Arrive(r, route, body) ==
    /\ pc[r] = "idle"
    /\ route \in Operations
    /\ op' = [op EXCEPT ![r] = route]
    /\ arg' = [arg EXCEPT ![r] = body]
    /\ before' = [before EXCEPT ![r] = Ended]
    /\ at' = [at EXCEPT ![r] = now]

\* The routes whose middleware looks at a header before the handler runs.
Guarded == {"add_role", "bulk_create"}

\* The routes that read no body.
Bodiless == {"google_start"}

\* The body does not decode or does not validate.
ArriveMalformed(r) ==
    /\ \E route \in Operations \ (Guarded \cup Bodiless) : Arrive(r, route, None)
    /\ Answer(r, "malformed")
    /\ UNCHANGED <<now, tables, loaded>>

\* A statement (or the SMTP dialogue) returns an error and had no effect:
\* the database is unreachable, or the client is gone and its context is
\* cancelled. The use case wraps the error and returns it.
StatementFails(r) ==
    /\ Active(r)
    /\ Answer(r, "failure")
    /\ UNCHANGED <<now, tables, request, loaded>>

\* A sign-in without password looks the account of its address up; without one
\* it goes on to the statement that inserts it.
FindUser(r, email, insert) ==
    LET found == FindByEmail(email)
    IN  /\ \/ \E u \in found :
                 /\ loaded' = [loaded EXCEPT ![r] = toDomainUser(u)]
                 /\ Goto(r, "issue")
           \/ /\ found = {}
              /\ Goto(r, insert)
              /\ UNCHANGED loaded
        /\ UNCHANGED <<now, tables, request>>

\* Mutant: the schema has no unique constraint on email.
InsertUser_NotUnique(r, email) ==
    /\ users' = [users EXCEPT ![r] = NewUser(email, None)]
    /\ loaded' = [loaded EXCEPT ![r] = [id |-> r, roles |-> <<RoleCustomer>>]]
    /\ Goto(r, "issue")
    /\ UNCHANGED <<now, refreshTokens, accessTokens, request>>

\* INSERT INTO users of an account without password, refused by the unique
\* constraint when another request has created the account since it was looked
\* up. It may commit and its acknowledgement be lost.
InsertUser(r, email) ==
    /\ \/ /\ FindByEmail(email) = {}
          /\ users' = [users EXCEPT ![r] = NewUser(email, None)]
          /\ \/ /\ loaded' = [loaded EXCEPT ![r] = [id |-> r, roles |-> <<RoleCustomer>>]]
                /\ Goto(r, "issue")
             \/ Answer(r, "failure") /\ UNCHANGED loaded
       \/ /\ FindByEmail(email) # {}
          /\ Answer(r, "failure")
          /\ UNCHANGED <<users, loaded>>
    /\ UNCHANGED <<now, refreshTokens, accessTokens, request>>

\* issueTokenPairFor: sign the access token for the copy of the user in
\* memory, insert a fresh refresh token, hand over the pair. The INSERT may
\* commit and its acknowledgement be lost.
Issue(r) ==
    /\ pc[r] = "issue"
    /\ refreshTokens' = [refreshTokens EXCEPT ![r] =
           [user |-> loaded[r].id, expiresAt |-> now + refreshTokenTTL, revoked |-> FALSE]]
    /\ \/ /\ Answer(r, "ok")
          /\ accessTokens' = [accessTokens EXCEPT ![r] =
                 [sub |-> loaded[r].id, roles |-> loaded[r].roles,
                  exp |-> Unix(now + accessTokenTTL)]]
       \/ /\ Answer(r, "failure")
          /\ UNCHANGED accessTokens
    /\ UNCHANGED <<now, users, request, loaded>>

\* The process dies: no request in progress takes another step or is
\* answered, the tables stay.
Crash ==
    /\ \E r \in Requests : Active(r)
    /\ pc' = [r \in Requests |-> IF Active(r) THEN "crashed" ELSE pc[r]]
    /\ UNCHANGED <<now, tables, request, loaded, out>>

Tick ==
    /\ now < MaxTime
    /\ now' = now + 1
    /\ UNCHANGED <<tables, pc, request, loaded, out>>

\* Every request has been answered and the clock is at its bound: the instance
\* has nothing left to do. Any other state without a step is a deadlock.
Quiescent ==
    /\ Requests = Ended
    /\ now = MaxTime
    /\ UNCHANGED serviceVars

ServiceInit ==
    /\ now = 0
    /\ \E hash \in [Seeds -> Secrets \cup {None}] :
           users = [u \in UserIDs |->
                       IF u \in Seeds THEN NewUser([box |-> u, lower |-> TRUE], hash[u])
                                     ELSE None]
    /\ refreshTokens = [r \in Requests |-> None]
    /\ accessTokens = [r \in Requests |-> None]
    /\ pc = [r \in Requests |-> "idle"]
    /\ op = [r \in Requests |-> None]
    /\ arg = [r \in Requests |-> None]
    /\ loaded = [r \in Requests |-> None]
    /\ out = [r \in Requests |-> None]
    /\ before = [r \in Requests |-> {}]
    /\ at = [r \in Requests |-> 0]

\* The types of what the components share.
ServiceTypeOK ==
    /\ now \in Nat
    /\ users \in [UserIDs -> UserRows \cup {None}]
    /\ refreshTokens \in [Requests -> TokenRows \cup {None}]
    /\ accessTokens \in [Requests -> Claims \cup {None}]
    /\ loaded \in [Requests -> DomainUsers \cup {None}]
    /\ pc \in [Requests -> Statements]
    /\ op \in [Requests -> Operations \cup {None}]
    /\ out \in [Requests -> Results \cup {None}]
    /\ before \in [Requests -> SUBSET Requests]
    /\ at \in [Requests -> Nat]

\* Every path that creates an account looks the address up in one statement and
\* inserts in another; the unique constraint of the schema keeps a mailbox from
\* ever having two accounts (user_repository.go).
OneAccountPerMailbox ==
    \A u, v \in UserIDs :
        users[u] # None /\ users[v] # None /\ users[u].email.box = users[v].email.box => u = v
=============================================================================
