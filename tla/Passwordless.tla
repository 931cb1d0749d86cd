---------------------------- MODULE Passwordless ----------------------------
(***************************************************************************)
(* Signing in without a password: POST /auth/request-code stores a code    *)
(* and mails it, POST /auth/verify-code redeems it for a token pair and    *)
(* creates the account if the mailbox has none.                            *)
(*                                                                         *)
(* A row of verification_codes is named after the request that created it. *)
(***************************************************************************)
EXTENDS Service

CONSTANTS
    CodeValues,               \* the six-digit codes
    verificationCodeTTL,      \* a duration, in ticks
    maxVerificationAttempts

\* The rows of verification_codes.
CodeRows == [email : Emails, code : CodeValues, createdAt : Nat, expiresAt : Nat,
             consumed : BOOLEAN, attempts : Nat]

\* The bodies of the two routes, once decoded.
CodeRequests == [email : Emails]
Guesses      == [email : Emails, code : CodeValues]

ASSUME CodesAssumption ==
    /\ verificationCodeTTL \in Nat
    /\ maxVerificationAttempts \in Nat \ {0}
    /\ None \notin CodeRows \cup CodeRequests \cup Guesses

VARIABLES
    codes,   \* table verification_codes: request -> row
    mailed,  \* the requests whose code reached the mailbox
    record   \* the row in the hands of a verification, once it may try a guess

codeVars == <<codes, mailed, record>>
passwordlessVars == <<serviceVars, codeVars>>

PasswordlessOps == {"request_code", "verify_code"}

\* The address of a request as the use cases see it.
AddressOf(r) == normalizeEmail(arg[r].email)

-----------------------------------------------------------------------------
(* RequestCode *)

\* Mutant: the mail goes out before the row is stored.
ArriveRequestCode_SendsFirst(r) ==
    /\ \E e \in Typed : Arrive(r, "request_code", [email |-> e])
    /\ Goto(r, "code.send")
    /\ UNCHANGED <<now, tables, loaded, codeVars>>

\* The code and createdAt are made here; nobody sees the code before the
\* INSERT, where it is drawn, and createdAt is the time of arrival.
ArriveRequestCode(r) ==
    /\ \E e \in Typed : Arrive(r, "request_code", [email |-> e])
    /\ Goto(r, "code.insert")
    /\ UNCHANGED <<now, tables, loaded, codeVars>>

\* Mutant: createdAt is the time of the INSERT.
InsertCode_DatedLate(r) ==
    /\ pc[r] = "code.insert"
    /\ \E code \in CodeValues :
           codes' = [codes EXCEPT ![r] =
               [email |-> AddressOf(r), code |-> code, createdAt |-> now,
                expiresAt |-> now + verificationCodeTTL, consumed |-> FALSE, attempts |-> 0]]
    /\ Goto(r, "code.send") \/ Answer(r, "failure")
    /\ UNCHANGED <<now, tables, request, loaded, mailed, record>>

InsertCode(r) ==
    /\ pc[r] = "code.insert"
    /\ \E code \in CodeValues :
           codes' = [codes EXCEPT ![r] =
               [email |-> AddressOf(r), code |-> code, createdAt |-> at[r],
                expiresAt |-> at[r] + verificationCodeTTL, consumed |-> FALSE, attempts |-> 0]]
    /\ Goto(r, "code.send") \/ Answer(r, "failure")
    /\ UNCHANGED <<now, tables, request, loaded, mailed, record>>

\* SendMail may fail after the server has taken the message.
SendVerificationCode(r) ==
    /\ pc[r] = "code.send"
    /\ mailed' = mailed \cup {r}
    /\ Answer(r, "ok") \/ Answer(r, "failure")
    /\ UNCHANGED <<now, tables, request, loaded, codes, record>>

-----------------------------------------------------------------------------
(* VerifyCode *)

ArriveVerifyCode(r) ==
    /\ \E e \in Typed, guess \in CodeValues :
           Arrive(r, "verify_code", [email |-> e, code |-> guess])
    /\ Goto(r, "verify.find")
    /\ UNCHANGED <<now, tables, loaded, codeVars>>

RowsOf(email) == {c \in Requests : codes[c] # None /\ codes[c].email = email}

\* Mutant: created_at in ascending order.
FindLatestByEmail_Oldest(email) ==
    {c \in RowsOf(email) : \A d \in RowsOf(email) : codes[c].createdAt <= codes[d].createdAt}

\* The candidates for the first row by created_at DESC; the random primary key
\* decides between rows of the same instant.
FindLatestByEmail(email) ==
    {c \in RowsOf(email) : \A d \in RowsOf(email) : codes[d].createdAt <= codes[c].createdAt}

\* Mutant: the expiry is not looked at.
Usable_NeverExpires(code) == ~code.consumed

Usable(code) == ~code.consumed /\ now <= code.expiresAt

VerifyFind(r) ==
    LET found == FindLatestByEmail(AddressOf(r))
    IN  /\ pc[r] = "verify.find"
        /\ \/ /\ found = {} \/ \E c \in found : ~Usable(codes[c])
              /\ Answer(r, "ErrCodeInvalid")
              /\ UNCHANGED record
           \/ /\ \E c \in found : /\ Usable(codes[c])
                                  /\ codes[c].attempts >= maxVerificationAttempts
              /\ Answer(r, "ErrTooManyAttempts")
              /\ UNCHANGED record
           \/ \E c \in found :
                 /\ Usable(codes[c])
                 /\ codes[c].attempts < maxVerificationAttempts
                 /\ record' = [record EXCEPT ![r] = c]
                 /\ Goto(r, IF codes[c].code = arg[r].code THEN "verify.consume"
                                                            ELSE "verify.increment")
        /\ UNCHANGED <<now, tables, request, loaded, codes, mailed>>

\* Mutant: a wrong guess leaves no trace.
IncrementAttempts_Skipped(r) ==
    /\ pc[r] = "verify.increment"
    /\ Answer(r, "ErrCodeInvalid")
    /\ UNCHANGED <<now, tables, request, loaded, codeVars>>

\* UPDATE verification_codes SET attempts = attempts + 1 WHERE id = ?
IncrementAttempts(r) ==
    /\ pc[r] = "verify.increment"
    /\ codes' = [codes EXCEPT ![record[r]].attempts = @ + 1]
    /\ Answer(r, "ErrCodeInvalid") \/ Answer(r, "failure")
    /\ UNCHANGED <<now, tables, request, loaded, mailed, record>>

\* Mutant: the code is not marked.
MarkConsumed_Skipped(r) ==
    /\ pc[r] = "verify.consume"
    /\ Goto(r, "verify.user")
    /\ UNCHANGED <<now, tables, request, loaded, codeVars>>

\* UPDATE verification_codes SET consumed_at = ? WHERE id = ?: whether or not
\* another request has consumed it since it was read.
MarkConsumed(r) ==
    /\ pc[r] = "verify.consume"
    /\ codes' = [codes EXCEPT ![record[r]].consumed = TRUE]
    /\ Goto(r, "verify.user") \/ Answer(r, "failure")
    /\ UNCHANGED <<now, tables, request, loaded, mailed, record>>

VerifyFindUser(r) ==
    /\ pc[r] = "verify.user"
    /\ FindUser(r, AddressOf(r), "verify.insert")
    /\ UNCHANGED codeVars

VerifyInsertUser(r) ==
    /\ pc[r] = "verify.insert"
    /\ InsertUser(r, AddressOf(r))
    /\ UNCHANGED codeVars

-----------------------------------------------------------------------------
(* The handlers' answers *)

RequestCodeStatus == [ok |-> 204, malformed |-> 400, failure |-> 500]

VerifyCodeStatus ==
    [ok |-> 200, malformed |-> 400, ErrCodeInvalid |-> 401, ErrTooManyAttempts |-> 401,
     failure |-> 500]

Refused(v) ==
    /\ pc[v] = "done"
    /\ op[v] = "verify_code"
    /\ VerifyCodeStatus[out[v]] = 401

-----------------------------------------------------------------------------
(* Specification *)

PasswordlessInit ==
    /\ ServiceInit
    /\ codes = [r \in Requests |-> None]
    /\ mailed = {}
    /\ record = [r \in Requests |-> None]

PasswordlessArrive(r) == ArriveRequestCode(r) \/ ArriveVerifyCode(r)

PasswordlessStep(r) ==
    \/ InsertCode(r)
    \/ SendVerificationCode(r)
    \/ VerifyFind(r)
    \/ IncrementAttempts(r)
    \/ MarkConsumed(r)
    \/ VerifyFindUser(r)
    \/ VerifyInsertUser(r)
    \/ Issue(r) /\ UNCHANGED codeVars
    \/ StatementFails(r) /\ UNCHANGED codeVars

PasswordlessNext ==
    \/ \E r \in Requests :
          \/ ArriveMalformed(r) /\ UNCHANGED codeVars
          \/ PasswordlessArrive(r)
          \/ PasswordlessStep(r)
    \/ Crash /\ UNCHANGED codeVars
    \/ Tick /\ UNCHANGED codeVars
    \/ Quiescent /\ UNCHANGED codeVars

PasswordlessSpec == PasswordlessInit /\ [][PasswordlessNext]_passwordlessVars

-----------------------------------------------------------------------------
(* Properties *)

\* Types, and what a request has established at each statement: a guess is
\* recorded or a code consumed only on a row that was read, and tokens are
\* signed only for a user in memory (verify_code.go).
PasswordlessTypeOK ==
    /\ ServiceTypeOK
    /\ codes \in [Requests -> CodeRows \cup {None}]
    /\ mailed \subseteq {r \in Requests : codes[r] # None}
    /\ record \in [Requests -> Requests \cup {None}]
    /\ \A r \in Requests :
          /\ record[r] # None => codes[record[r]] # None
          /\ pc[r] \in {"verify.increment", "verify.consume", "verify.user", "verify.insert"} =>
                record[r] # None
          /\ pc[r] = "issue" => record[r] # None /\ loaded[r] # None

\* The wrong guesses against code c that were answered as such before v arrived.
FailuresBefore(v, c) ==
    {u \in before[v] : record[u] = c /\ out[u] = "ErrCodeInvalid"}

\* A guess is compared with a code only while fewer than
\* maxVerificationAttempts wrong guesses were answered before it arrived:
\* no failure answered to a client is lost, whatever ran concurrently
\* (verify_code.go, IncrementAttempts).
LockoutHolds ==
    \A v \in Requests : record[v] # None =>
        Cardinality(FailuresBefore(v, record[v])) < maxVerificationAttempts

\* Once a redemption of a code has ended with a token row, no later request
\* gets as far as comparing a guess with that code, across crashes too
\* (verify_code.go, MarkConsumed).
RedeemedCodeRefusedLater ==
    \A v \in Requests : record[v] # None =>
        \A u \in before[v] : refreshTokens[u] # None => record[u] # record[v]

\* A verification never looks at a code older than the newest one whose
\* request had been answered when it arrived: asking for a new code retires
\* the old ones (FindLatestByEmail).
SupersededCodeRefused ==
    \A v, p \in Requests :
        /\ record[v] # None
        /\ p \in before[v] /\ op[p] = "request_code" /\ out[p] = "ok"
        /\ arg[p].email.box = arg[v].email.box
        => codes[p].createdAt <= codes[record[v]].createdAt

\* The other codes stored for the mailbox of code p whose requests did not arrive
\* before the one of p.
AskedSince(p) ==
    {q \in Requests \ {p} : /\ codes[q] # None
                            /\ codes[q].email.box = codes[p].email.box
                            /\ at[q] >= at[p]}

\* The owner of the mailbox gets in: whoever types the code that was mailed,
\* before it expires, is not refused unless another verification has tried that
\* code or a newer one was asked for. An older request for a code whose row or
\* mail comes late takes nothing away, nor does the case of the address, an
\* error answered for the mail, or a verification that failed before it found
\* the row (request_code.go, verify_code.go).
MailedCodeAccepted ==
    \A v, p \in Requests :
        /\ Refused(v)
        /\ p \in mailed \cap before[v]
        /\ arg[v].email.box = codes[p].email.box
        /\ arg[v].code = codes[p].code
        => \/ now > codes[p].expiresAt
           \/ \E q \in Requests \ {v} : record[q] = p
           \/ AskedSince(p) # {}

\* A pair is issued only to a request that arrived with the right code, before
\* its expiry, for the account of the mailbox the code was sent to, and the
\* code is consumed first (verify_code.go).
TokensOnlyForRedeemedCode ==
    \A v \in Requests : op[v] = "verify_code" /\ refreshTokens[v] # None =>
        LET row == codes[record[v]]
        IN  /\ row.consumed
            /\ row.code = arg[v].code
            /\ at[v] <= row.expiresAt
            /\ row.email.box = arg[v].email.box
            /\ users[refreshTokens[v].user].email = row.email

-----------------------------------------------------------------------------
(* What the repository says and the code does not do *)

\* maxVerificationAttempts = 5 (verify_code.go), "too many attempts, request a
\* new code" (errors.go): a code takes that many guesses.
AttemptsCapped ==
    \A c \in Requests : codes[c] # None => codes[c].attempts <= maxVerificationAttempts

\* "verification code is invalid, expired, or already used" (errors.go): a code
\* is good for one sign-in.
RedeemedOnce ==
    \A u, v \in Requests :
        out[u] = "ok" /\ out[v] = "ok" /\ record[u] # None /\ record[u] = record[v] => u = v
=============================================================================
