------------------------- MODULE PasswordlessProofs -------------------------
(***************************************************************************)
(* Theorems about Passwordless, for every set of requests, every length of *)
(* code and every limit of attempts.                                       *)
(***************************************************************************)
EXTENDS Passwordless, ServiceProofs, FiniteSetTheorems

-----------------------------------------------------------------------------
(* The inductive invariant *)

\* The bodies of the two routes.
BodiesTyped == arg \in [Requests -> CodeRequests \cup Guesses \cup {None}]

\* Where request r is, what it was sent, what it has in memory and what it has
\* stored agree.
Journey(r) ==
    /\ pc[r] = "idle" => op[r] = None
    /\ out[r] = None <=> pc[r] # "done"
    /\ pc[r] \in {"code.insert", "code.send"} => op[r] = "request_code" /\ arg[r] \in CodeRequests
    /\ pc[r] \in {"verify.find", "verify.increment", "verify.consume", "verify.user",
                  "verify.insert", "issue"} =>
          op[r] = "verify_code" /\ arg[r] \in Guesses
    /\ pc[r] = "code.send" => codes[r] # None
    /\ codes[r] # None => pc[r] \in {"code.send", "done", "crashed"}
    /\ record[r] # None => pc[r] \notin {"idle", "verify.find"} /\ op[r] = "verify_code"
                              /\ arg[r] \in Guesses
    /\ refreshTokens[r] # None => pc[r] = "done" /\ record[r] # None
    /\ users[r] # None \/ loaded[r] # None => pc[r] \in {"issue", "done", "crashed"}
    /\ op[r] = "request_code" => out[r] \in {None, "ok", "malformed", "failure"}
    /\ op[r] = "request_code" /\ out[r] = "ok" => codes[r] # None
    /\ op[r] = "verify_code" =>
          out[r] \in {None, "ok", "malformed", "ErrCodeInvalid", "ErrTooManyAttempts", "failure"}

\* A row of verification_codes is what its request asked for.
CodeDated(c) ==
    codes[c] # None =>
        /\ op[c] = "request_code" /\ arg[c] \in CodeRequests
        /\ codes[c].email = AddressOf(c)
        /\ codes[c].createdAt = at[c]

\* The row in the hands of verification r is one of its mailbox, found before
\* its expiry; its code decides which statement comes next.
Compared(r) ==
    record[r] # None =>
        LET row == codes[record[r]]
        IN  /\ row # None
            /\ row.email = AddressOf(r)
            /\ at[r] <= row.expiresAt
            /\ pc[r] = "verify.increment" => row.code # arg[r].code
            /\ pc[r] \in {"verify.consume", "verify.user", "verify.insert", "issue"}
                  \/ refreshTokens[r] # None => row.code = arg[r].code
            /\ pc[r] \in {"verify.user", "verify.insert", "issue"} \/ refreshTokens[r] # None =>
                  row.consumed

\* The user a verification signs for has the mailbox it proved.
SignsForMailbox(r) ==
    /\ loaded[r] # None => /\ users[loaded[r].id] # None
                           /\ users[loaded[r].id].email = AddressOf(r)
    /\ refreshTokens[r] # None => /\ users[refreshTokens[r].user] # None
                                  /\ users[refreshTokens[r].user].email = AddressOf(r)

\* The wrong guesses against code c that were answered as such.
Failures(c) == {u \in Requests : record[u] = c /\ out[u] = "ErrCodeInvalid"}

\* The row of code c counts at least those, and nothing but a verification that
\* found the row has touched it.
CodeCounts(c) ==
    codes[c] # None =>
        /\ IsFiniteSet(Failures(c))
        /\ Cardinality(Failures(c)) <= codes[c].attempts
        /\ codes[c].consumed \/ codes[c].attempts # 0 => \E q \in Requests : record[q] = c

\* What verification v could not see when it arrived, it did not overlook.
Foresight(v) ==
    /\ at[v] <= now
    /\ before[v] \subseteq Ended
    /\ record[v] # None =>
          /\ IsFiniteSet(FailuresBefore(v, record[v]))
          /\ Cardinality(FailuresBefore(v, record[v])) < maxVerificationAttempts
          /\ \A u \in before[v] : refreshTokens[u] # None => record[u] # record[v]
          /\ \A p \in before[v] :
                codes[p] # None /\ codes[p].email.box = arg[v].email.box
                => codes[p].createdAt <= codes[record[v]].createdAt

\* A refusal of v has one of the reasons there are: the mailed code p has
\* expired, it is not the one typed, somebody else has tried it, or a newer code
\* was asked for.
RefusedForCause(v) ==
    op[v] = "verify_code" /\ out[v] \in {"ErrCodeInvalid", "ErrTooManyAttempts"} =>
        /\ arg[v] \in Guesses
        /\ \A p \in mailed \cap before[v] :
              \/ now > codes[p].expiresAt
              \/ codes[p].code # arg[v].code
              \/ codes[p].email.box # arg[v].email.box
              \/ \E q \in Requests \ {v} : record[q] = p
              \/ AskedSince(p) # {}

PasswordlessInv ==
    /\ PasswordlessTypeOK
    /\ BodiesTyped
    /\ \A r \in Requests :
          /\ Journey(r)
          /\ CodeDated(r)
          /\ Compared(r)
          /\ SignsForMailbox(r)
          /\ CodeCounts(r)
          /\ Foresight(r)
          /\ RefusedForCause(r)

-----------------------------------------------------------------------------
(* The steps, action by action *)

\* Arrivals, in one form.
LEMMA ArrivalEffect ==
    ASSUME ServiceTypeOK, BodiesTyped, NEW r \in Requests,
           (ArriveMalformed(r) /\ UNCHANGED codeVars) \/ PasswordlessArrive(r)
    PROVE  /\ UNCHANGED <<now, users, refreshTokens, accessTokens, loaded, codes, mailed, record>>
           /\ pc[r] = "idle"
           /\ pc' \in [Requests -> Statements] /\ out' \in [Requests -> Results \cup {None}]
           /\ op' \in [Requests -> Operations \cup {None}]
           /\ before' \in [Requests -> SUBSET Requests] /\ at' \in [Requests -> Nat]
           /\ before'[r] = Ended /\ at'[r] = now /\ BodiesTyped'
           /\ \A s \in Requests \ {r} :
                 UNCHANGED <<pc[s], op[s], arg[s], out[s], before[s], at[s]>>
           /\ \/ /\ pc'[r] = "code.insert" /\ out'[r] = out[r]
                 /\ op'[r] = "request_code" /\ arg'[r] \in CodeRequests
              \/ /\ pc'[r] = "verify.find" /\ out'[r] = out[r]
                 /\ op'[r] = "verify_code" /\ arg'[r] \in Guesses
              \/ pc'[r] = "done" /\ out'[r] = "malformed" /\ arg'[r] = None
<1> USE DEF ServiceTypeOK, BodiesTyped, Statements, Results
<1>0. Ended \in SUBSET Requests
  BY DEF Ended
<1>1. ASSUME NEW route, NEW body \in CodeRequests \cup Guesses \cup {None}, Arrive(r, route, body)
      PROVE  /\ pc[r] = "idle"
             /\ op' \in [Requests -> Operations \cup {None}]
             /\ before' \in [Requests -> SUBSET Requests] /\ at' \in [Requests -> Nat]
             /\ BodiesTyped'
             /\ before'[r] = Ended /\ at'[r] = now /\ op'[r] = route /\ arg'[r] = body
             /\ \A s \in Requests \ {r} : UNCHANGED <<op[s], arg[s], before[s], at[s]>>
  BY <1>0, <1>1 DEF Arrive
<1>2. CASE ArriveMalformed(r) /\ UNCHANGED codeVars
  <2>1. PICK route : Arrive(r, route, None)
    BY <1>2 DEF ArriveMalformed
  <2>2. UNCHANGED <<now, tables, loaded, codeVars>> /\ Answer(r, "malformed")
    BY <1>2 DEF ArriveMalformed
  <2> QED
    BY <1>1, <2>1, <2>2, Moves DEF Answer, tables, codeVars
<1>3. CASE ArriveRequestCode(r)
  <2>1. PICK e \in Typed : Arrive(r, "request_code", [email |-> e])
    BY <1>3 DEF ArriveRequestCode
  <2>2. UNCHANGED <<now, tables, loaded, codeVars>> /\ Goto(r, "code.insert")
    BY <1>3 DEF ArriveRequestCode
  <2>3. [email |-> e] \in CodeRequests
    BY ServiceAssumption DEF CodeRequests, Typed, Emails
  <2> QED
    BY <1>1, <2>1, <2>2, <2>3, Moves DEF Goto, tables, codeVars
<1>4. CASE ArriveVerifyCode(r)
  <2>1. PICK e \in Typed, guess \in CodeValues :
           Arrive(r, "verify_code", [email |-> e, code |-> guess])
    BY <1>4 DEF ArriveVerifyCode
  <2>2. UNCHANGED <<now, tables, loaded, codeVars>> /\ Goto(r, "verify.find")
    BY <1>4 DEF ArriveVerifyCode
  <2>3. [email |-> e, code |-> guess] \in Guesses
    BY ServiceAssumption DEF Guesses, Typed, Emails
  <2> QED
    BY <1>1, <2>1, <2>2, <2>3, Moves DEF Goto, tables, codeVars
<1> QED
  BY <1>2, <1>3, <1>4 DEF PasswordlessArrive

\* The address of a request that reaches its use case is a normalised one.
LEMMA AddressTyped ==
    ASSUME NEW r \in Requests, arg[r] \in CodeRequests \/ arg[r] \in Guesses
    PROVE  AddressOf(r) = [box |-> arg[r].email.box, lower |-> TRUE] /\ AddressOf(r) \in Emails
<1>1. arg[r].email \in Emails
  BY DEF CodeRequests, Guesses
<1>2. AddressOf(r) = [box |-> arg[r].email.box, lower |-> TRUE]
  BY <1>1, Normalized DEF AddressOf
<1> QED
  BY <1>1, <1>2 DEF Emails

\* The INSERT of a code.
LEMMA InsertCodeEffect ==
    ASSUME PasswordlessTypeOK, NEW r \in Requests, Journey(r), InsertCode(r)
    PROVE  /\ pc[r] = "code.insert" /\ codes[r] = None
           /\ op[r] = "request_code" /\ arg[r] \in CodeRequests
           /\ UNCHANGED <<now, users, refreshTokens, accessTokens, op, arg, before, at, loaded,
                          mailed, record>>
           /\ codes' \in [Requests -> CodeRows \cup {None}]
           /\ \A c \in Requests \ {r} : codes'[c] = codes[c]
           /\ codes'[r] \in CodeRows /\ codes'[r] # None
           /\ codes'[r].email = AddressOf(r) /\ codes'[r].createdAt = at[r]
           /\ ~codes'[r].consumed /\ codes'[r].attempts = 0
           /\ Goto(r, "code.send") \/ Answer(r, "failure")
<1>1. PICK code \in CodeValues :
         codes' = [codes EXCEPT ![r] =
             [email |-> AddressOf(r), code |-> code, createdAt |-> at[r],
              expiresAt |-> at[r] + verificationCodeTTL, consumed |-> FALSE, attempts |-> 0]]
  BY DEF InsertCode
<1> DEFINE row == [email |-> AddressOf(r), code |-> code, createdAt |-> at[r],
                   expiresAt |-> at[r] + verificationCodeTTL, consumed |-> FALSE, attempts |-> 0]
<1>2. /\ pc[r] = "code.insert" /\ op[r] = "request_code" /\ arg[r] \in CodeRequests /\ codes[r] = None
  BY DEF InsertCode, Journey
<1>3. at[r] \in Nat /\ at[r] + verificationCodeTTL \in Nat
  BY CodesAssumption DEF PasswordlessTypeOK, ServiceTypeOK
<1>4. row \in CodeRows
  BY <1>2, <1>3, AddressTyped DEF CodeRows
<1>5. /\ row.email = AddressOf(r) /\ row.createdAt = at[r] /\ ~row.consumed /\ row.attempts = 0
      /\ row # None
  BY <1>4, CodesAssumption
<1> HIDE DEF row
<1>6. /\ codes' \in [Requests -> CodeRows \cup {None}]
      /\ \A c \in Requests \ {r} : codes'[c] = codes[c]
      /\ codes'[r] = row
  BY <1>1, <1>4 DEF row, PasswordlessTypeOK
<1>7. /\ UNCHANGED <<now, users, refreshTokens, accessTokens, op, arg, before, at, loaded,
                     mailed, record>>
      /\ Goto(r, "code.send") \/ Answer(r, "failure")
  BY DEF InsertCode, tables, request
<1> QED
  BY <1>2, <1>4, <1>5, <1>6, <1>7

\* Row c keeps what identifies it, stays consumed once it is and counts no fewer
\* attempts.
RowAdvances(c) ==
    /\ codes'[c] # None
    /\ codes'[c].email = codes[c].email /\ codes'[c].code = codes[c].code
    /\ codes'[c].createdAt = codes[c].createdAt /\ codes'[c].expiresAt = codes[c].expiresAt
    /\ codes[c].consumed => codes'[c].consumed
    /\ codes[c].attempts <= codes'[c].attempts

\* The two UPDATEs of a row of verification_codes.
LEMMA UpdateCodeEffect ==
    ASSUME PasswordlessTypeOK, NEW r \in Requests, Journey(r),
           IncrementAttempts(r) \/ MarkConsumed(r)
    PROVE  /\ record[r] \in Requests /\ codes[record[r]] \in CodeRows
           /\ codes' \in [Requests -> CodeRows \cup {None}]
           /\ \A c \in Requests \ {record[r]} : codes'[c] = codes[c]
           /\ RowAdvances(record[r])
           /\ UNCHANGED <<now, users, refreshTokens, accessTokens, op, arg, before, at, loaded,
                          mailed, record>>
           /\ IncrementAttempts(r) => codes'[record[r]].attempts = codes[record[r]].attempts + 1
           /\ MarkConsumed(r) => codes'[record[r]].consumed
<1> DEFINE c == record[r]
           counted == [codes[c] EXCEPT !.attempts = codes[c].attempts + 1]
           spent == [codes[c] EXCEPT !.consumed = TRUE]
<1>1. pc[r] \in {"verify.increment", "verify.consume"}
  BY DEF IncrementAttempts, MarkConsumed
<1>2. c \in Requests /\ codes[c] \in CodeRows
  BY <1>1 DEF PasswordlessTypeOK
<1>3. UNCHANGED <<now, users, refreshTokens, accessTokens, op, arg, before, at, loaded,
                  mailed, record>>
  BY DEF IncrementAttempts, MarkConsumed, tables, request
<1>4. /\ counted \in CodeRows /\ spent \in CodeRows
      /\ counted.attempts = codes[c].attempts + 1 /\ counted.consumed = codes[c].consumed
      /\ spent.attempts = codes[c].attempts /\ spent.consumed
      /\ counted.email = codes[c].email /\ counted.code = codes[c].code
      /\ counted.createdAt = codes[c].createdAt /\ counted.expiresAt = codes[c].expiresAt
      /\ spent.email = codes[c].email /\ spent.code = codes[c].code
      /\ spent.createdAt = codes[c].createdAt /\ spent.expiresAt = codes[c].expiresAt
      /\ codes[c].attempts \in Nat
  <2>1. codes[c].attempts \in Nat /\ codes[c].attempts + 1 \in Nat
    BY <1>2 DEF CodeRows
  <2>2. counted \in CodeRows
    BY <1>2, <2>1 DEF CodeRows
  <2>3. spent \in CodeRows
    BY <1>2 DEF CodeRows
  <2>4. /\ counted.attempts = codes[c].attempts + 1 /\ counted.consumed = codes[c].consumed
        /\ counted.email = codes[c].email /\ counted.code = codes[c].code
        /\ counted.createdAt = codes[c].createdAt /\ counted.expiresAt = codes[c].expiresAt
    BY <1>2 DEF CodeRows
  <2>5. /\ spent.attempts = codes[c].attempts /\ spent.consumed = TRUE
        /\ spent.email = codes[c].email /\ spent.code = codes[c].code
        /\ spent.createdAt = codes[c].createdAt /\ spent.expiresAt = codes[c].expiresAt
    BY <1>2 DEF CodeRows
  <2> HIDE DEF counted, spent
  <2> QED
    BY <2>1, <2>2, <2>3, <2>4, <2>5
<1>5. counted # None /\ spent # None
  BY <1>4, CodesAssumption
<1>6. ASSUME IncrementAttempts(r) PROVE codes' = [codes EXCEPT ![c] = counted]
  BY <1>2, <1>6 DEF IncrementAttempts, PasswordlessTypeOK
<1>7. ASSUME MarkConsumed(r) PROVE codes' = [codes EXCEPT ![c] = spent]
  BY <1>2, <1>7 DEF MarkConsumed, PasswordlessTypeOK
<1>8. IncrementAttempts(r) => pc[r] = "verify.increment"
  BY DEF IncrementAttempts
<1>9. MarkConsumed(r) => pc[r] = "verify.consume"
  BY DEF MarkConsumed
<1> HIDE DEF counted, spent
<1>10. CASE IncrementAttempts(r)
  BY <1>2, <1>3, <1>4, <1>5, <1>6, <1>8, <1>9, <1>10 DEF RowAdvances, PasswordlessTypeOK
<1>11. CASE MarkConsumed(r)
  BY <1>2, <1>3, <1>4, <1>5, <1>7, <1>8, <1>9, <1>11 DEF RowAdvances, PasswordlessTypeOK
<1> QED
  BY <1>10, <1>11

-----------------------------------------------------------------------------
(* What no step undoes, and whom a step leaves alone *)

\* Rows, accounts and tokens stay; a request keeps what it was sent and the row
\* it has found; one that has ended does nothing any more.
Forward ==
    /\ now <= now'
    /\ \A c \in Requests : codes[c] # None => RowAdvances(c)
    /\ \A u \in UserIDs : users[u] # None =>
          users'[u] # None /\ users'[u].email = users[u].email
    /\ \A r \in Requests :
          /\ pc[r] # "idle" => UNCHANGED <<op[r], arg[r], before[r], at[r]>>
          /\ record[r] # None => record'[r] = record[r]
          /\ refreshTokens[r] # None => refreshTokens'[r] = refreshTokens[r]
    /\ \A r \in Ended :
          /\ r \in Ended'
          /\ UNCHANGED <<out[r], record[r], refreshTokens[r]>>
          /\ codes'[r] # None => codes[r] # None
          /\ r \in mailed' => r \in mailed

\* Request s takes no step, or dies.
Bystander(s) ==
    /\ pc'[s] = pc[s] \/ (pc'[s] = "crashed" /\ Active(s))
    /\ UNCHANGED <<op[s], arg[s], out[s], before[s], at[s], loaded[s], record[s], refreshTokens[s]>>
    /\ codes'[s] # None => codes[s] # None
    /\ s \in mailed' => s \in mailed
    /\ users'[s] # None => users[s] # None

\* When one request that has not ended moves and the tables keep their rows, the
\* step is forward.
LEMMA ForwardByOne ==
    ASSUME PasswordlessTypeOK, NEW r \in Requests, r \notin Ended,
           \A s \in Requests \ {r} : Bystander(s),
           now' = now,
           \A c \in Requests : codes[c] # None => RowAdvances(c),
           \A u \in UserIDs : users[u] # None =>
               users'[u] # None /\ users'[u].email = users[u].email,
           pc[r] # "idle" => UNCHANGED <<op[r], arg[r], before[r], at[r]>>,
           record[r] # None => record'[r] = record[r],
           refreshTokens[r] # None => refreshTokens'[r] = refreshTokens[r]
    PROVE  Forward
<1>1. now <= now'
  BY DEF PasswordlessTypeOK, ServiceTypeOK
<1>2. \A s \in Ended : s \in Requests \ {r} /\ s \in Ended'
  BY DEF Ended, Bystander, Active
<1> QED
  BY <1>1, <1>2 DEF Forward, Bystander

\* A row not touched advances.
LEMMA RowStays ==
    ASSUME PasswordlessTypeOK, NEW c \in Requests, codes[c] # None, codes'[c] = codes[c]
    PROVE  RowAdvances(c)
<1>1. codes[c] \in CodeRows
  BY DEF PasswordlessTypeOK
<1> QED
  BY <1>1 DEF RowAdvances, CodeRows

\* Arrivals.
LEMMA ArrivalForward ==
    ASSUME PasswordlessInv, NEW r \in Requests,
           (ArriveMalformed(r) /\ UNCHANGED codeVars) \/ PasswordlessArrive(r)
    PROVE  /\ PasswordlessTypeOK' /\ BodiesTyped' /\ Forward
           /\ \A s \in Requests \ {r} : Bystander(s)
<1>0. PasswordlessTypeOK /\ ServiceTypeOK /\ BodiesTyped /\ Journey(r)
  BY DEF PasswordlessInv, PasswordlessTypeOK
<1>1. /\ UNCHANGED <<now, users, refreshTokens, accessTokens, loaded, codes, mailed, record>>
      /\ pc[r] = "idle" /\ BodiesTyped'
      /\ pc' \in [Requests -> Statements] /\ out' \in [Requests -> Results \cup {None}]
      /\ op' \in [Requests -> Operations \cup {None}]
      /\ before' \in [Requests -> SUBSET Requests] /\ at' \in [Requests -> Nat]
      /\ \A s \in Requests \ {r} : UNCHANGED <<pc[s], op[s], arg[s], out[s], before[s], at[s]>>
      /\ pc'[r] \in {"code.insert", "verify.find", "done"}
  BY <1>0, ArrivalEffect
<1>2. ServiceTypeOK'
  BY <1>0, <1>1 DEF ServiceTypeOK
<1>3. PasswordlessTypeOK'
  BY <1>0, <1>1, <1>2 DEF PasswordlessTypeOK
<1>4. ASSUME NEW s \in Requests \ {r} PROVE Bystander(s)
  BY <1>1 DEF Bystander
<1>5. r \notin Ended
  BY <1>1 DEF Ended
<1>6. \A c \in Requests : codes[c] # None => RowAdvances(c)
  BY <1>0, <1>1, RowStays
<1>7. Forward
  BY <1>0, <1>1, <1>4, <1>5, <1>6, ForwardByOne
<1> QED
  BY <1>1, <1>3, <1>4, <1>7

\* Statements.
LEMMA StatementForward ==
    ASSUME PasswordlessInv, NEW r \in Requests, PasswordlessStep(r)
    PROVE  /\ PasswordlessTypeOK' /\ Forward
           /\ \A s \in Requests \ {r} : Bystander(s)
           /\ UNCHANGED <<op, arg, before, at>>
           /\ pc[r] \notin {"idle", "done", "crashed"}
           /\ pc'[r] \notin {"idle", "code.insert", "verify.find"}
<1>0. /\ PasswordlessTypeOK /\ ServiceTypeOK /\ Journey(r) /\ Compared(r)
  BY DEF PasswordlessInv, PasswordlessTypeOK
<1> USE DEF Statements, Results
<1>1. CASE InsertCode(r)
  <2>1. PICK x \in {"code.send", "failure"} :
           (x = "code.send" /\ Goto(r, x)) \/ (x = "failure" /\ Answer(r, x))
    BY <1>0, <1>1, InsertCodeEffect
  <2>2. /\ pc' \in [Requests -> Statements] /\ out' \in [Requests -> Results \cup {None}]
        /\ \A s \in Requests \ {r} : pc'[s] = pc[s] /\ out'[s] = out[s]
    BY <1>0, <2>1, Moves
  <2>3. pc'[r] \in {"code.send", "done"}
    BY <1>0, <2>1 DEF Goto, Answer, ServiceTypeOK
  <2>4. ServiceTypeOK'
    BY <1>0, <1>1, <2>2, InsertCodeEffect DEF ServiceTypeOK
  <2>5. /\ pc[r] = "code.insert" /\ codes[r] = None
        /\ UNCHANGED <<now, users, refreshTokens, accessTokens, op, arg, before, at, loaded,
                       mailed, record>>
        /\ codes' \in [Requests -> CodeRows \cup {None}]
        /\ \A c \in Requests \ {r} : codes'[c] = codes[c]
        /\ codes'[r] # None
    BY <1>0, <1>1, InsertCodeEffect
  <2>6. PasswordlessTypeOK'
    BY <1>0, <2>2, <2>3, <2>4, <2>5 DEF PasswordlessTypeOK
  <2>7. \A s \in Requests \ {r} : Bystander(s)
    BY <2>2, <2>5 DEF Bystander
  <2>8. \A c \in Requests : codes[c] # None => RowAdvances(c)
    BY <1>0, <2>5, RowStays
  <2>9. Forward
    BY <1>0, <2>5, <2>7, <2>8, ForwardByOne DEF Ended
  <2> QED
    BY <2>3, <2>5, <2>6, <2>7, <2>9
<1>2. CASE SendVerificationCode(r)
  <2>1. /\ pc[r] = "code.send" /\ codes[r] # None
        /\ UNCHANGED <<now, users, refreshTokens, accessTokens, op, arg, before, at, loaded,
                       codes, record>>
        /\ mailed' = mailed \cup {r}
        /\ Answer(r, "ok") \/ Answer(r, "failure")
    BY <1>0, <1>2 DEF SendVerificationCode, Journey, tables, request
  <2>2. /\ pc' \in [Requests -> Statements] /\ out' \in [Requests -> Results \cup {None}]
        /\ \A s \in Requests \ {r} : pc'[s] = pc[s] /\ out'[s] = out[s]
    BY <1>0, <2>1, Moves
  <2>3. pc'[r] = "done"
    BY <1>0, <2>1 DEF Answer, ServiceTypeOK
  <2>4. ServiceTypeOK'
    BY <1>0, <2>1, <2>2 DEF ServiceTypeOK
  <2>5. PasswordlessTypeOK'
    BY <1>0, <2>1, <2>2, <2>3, <2>4 DEF PasswordlessTypeOK
  <2>6. \A s \in Requests \ {r} : Bystander(s)
    BY <2>1, <2>2 DEF Bystander
  <2>7. \A c \in Requests : codes[c] # None => RowAdvances(c)
    BY <1>0, <2>1, RowStays
  <2>8. Forward
    BY <1>0, <2>1, <2>6, <2>7, ForwardByOne DEF Ended
  <2> QED
    BY <2>1, <2>3, <2>5, <2>6, <2>8
<1>3. CASE VerifyFind(r)
  <2>1. /\ pc[r] = "verify.find"
        /\ UNCHANGED <<now, users, refreshTokens, accessTokens, op, arg, before, at, loaded,
                       codes, mailed>>
    BY <1>3 DEF VerifyFind, tables, request
  <2>2. record[r] = None
    BY <1>0, <2>1 DEF Journey
  <2>3. PICK x \in {"ErrCodeInvalid", "ErrTooManyAttempts", "verify.consume", "verify.increment"} :
           \/ /\ x \in {"ErrCodeInvalid", "ErrTooManyAttempts"}
              /\ Answer(r, x) /\ UNCHANGED record
           \/ /\ x \in {"verify.consume", "verify.increment"}
              /\ Goto(r, x) /\ \E c \in Requests : /\ codes[c] # None
                                                   /\ record' = [record EXCEPT ![r] = c]
    BY <1>3 DEF VerifyFind, FindLatestByEmail, RowsOf
  <2>4. /\ pc' \in [Requests -> Statements] /\ out' \in [Requests -> Results \cup {None}]
        /\ \A s \in Requests \ {r} : pc'[s] = pc[s] /\ out'[s] = out[s]
    BY <1>0, <2>3, Moves
  <2>5. /\ record' \in [Requests -> Requests \cup {None}]
        /\ \A s \in Requests \ {r} : record'[s] = record[s]
        /\ \/ pc'[r] = "done" /\ record'[r] = None
           \/ /\ pc'[r] \in {"verify.consume", "verify.increment"}
              /\ record'[r] # None /\ codes[record'[r]] # None
    BY <1>0, <2>2, <2>3, ServiceAssumption DEF Goto, Answer, PasswordlessTypeOK, ServiceTypeOK
  <2>6. ServiceTypeOK'
    BY <1>0, <2>1, <2>4 DEF ServiceTypeOK
  <2>7. PasswordlessTypeOK'
    BY <1>0, <2>1, <2>4, <2>5, <2>6 DEF PasswordlessTypeOK
  <2>8. \A s \in Requests \ {r} : Bystander(s)
    BY <2>1, <2>4, <2>5 DEF Bystander
  <2>9. \A c \in Requests : codes[c] # None => RowAdvances(c)
    BY <1>0, <2>1, RowStays
  <2>10. Forward
    BY <1>0, <2>1, <2>2, <2>8, <2>9, ForwardByOne DEF Ended
  <2> QED
    BY <2>1, <2>5, <2>7, <2>8, <2>10
<1>4. CASE IncrementAttempts(r) \/ MarkConsumed(r)
  <2>1. /\ record[r] \in Requests /\ codes[record[r]] \in CodeRows
        /\ UNCHANGED <<now, users, refreshTokens, accessTokens, op, arg, before, at, loaded,
                       mailed, record>>
        /\ codes' \in [Requests -> CodeRows \cup {None}]
        /\ \A c \in Requests \ {record[r]} : codes'[c] = codes[c]
        /\ RowAdvances(record[r])
    BY <1>0, <1>4, UpdateCodeEffect
  <2>2. /\ pc[r] \in {"verify.increment", "verify.consume"}
        /\ Goto(r, "verify.user") \/ Answer(r, "ErrCodeInvalid") \/ Answer(r, "failure")
    BY <1>4 DEF IncrementAttempts, MarkConsumed
  <2>3. /\ pc' \in [Requests -> Statements] /\ out' \in [Requests -> Results \cup {None}]
        /\ \A s \in Requests \ {r} : pc'[s] = pc[s] /\ out'[s] = out[s]
    BY <1>0, <2>2, Moves
  <2>4. pc'[r] \in {"verify.user", "done"}
    BY <1>0, <2>2 DEF Goto, Answer, ServiceTypeOK
  <2>5. ServiceTypeOK'
    BY <1>0, <2>1, <2>3 DEF ServiceTypeOK
  <2>6. \A c \in Requests : codes[c] # None <=> codes'[c] # None
    BY <2>1, CodesAssumption DEF RowAdvances
  <2>7. record[r] # None
    BY <2>1, ServiceAssumption
  <2>8. PasswordlessTypeOK'
    BY <1>0, <2>1, <2>3, <2>4, <2>5, <2>6, <2>7 DEF PasswordlessTypeOK
  <2>9. \A s \in Requests \ {r} : Bystander(s)
    BY <2>1, <2>3, <2>6 DEF Bystander
  <2>10. \A c \in Requests : codes[c] # None => RowAdvances(c)
    BY <1>0, <2>1, RowStays
  <2>11. Forward
    BY <1>0, <2>1, <2>2, <2>9, <2>10, ForwardByOne DEF Ended
  <2> QED
    BY <2>1, <2>2, <2>4, <2>8, <2>9, <2>11
<1>5. CASE VerifyFindUser(r) \/ VerifyInsertUser(r)
  <2>1. /\ pc[r] \in {"verify.user", "verify.insert"} /\ arg[r] \in Guesses /\ record[r] # None
        /\ users[r] = None /\ UNCHANGED <<codes, mailed, record>>
    BY <1>0, <1>5 DEF VerifyFindUser, VerifyInsertUser, Journey, PasswordlessTypeOK, codeVars
  <2>2. AddressOf(r) \in Emails
    BY <2>1, AddressTyped
  <2>3. /\ UNCHANGED <<now, refreshTokens, accessTokens, op, arg, before, at>>
        /\ users' \in [UserIDs -> UserRows \cup {None}]
        /\ \A u \in UserIDs \ {r} : users'[u] = users[u]
        /\ loaded' \in [Requests -> DomainUsers \cup {None}]
        /\ \A s \in Requests \ {r} : loaded'[s] = loaded[s]
        /\ \/ Goto(r, "issue") /\ loaded'[r] # None
           \/ Goto(r, "verify.insert")
           \/ Answer(r, "failure")
    <3>1. CASE VerifyFindUser(r)
      BY <1>0, <2>2, <3>1, FindUserEffect, NoneAssumption DEF VerifyFindUser, Goto, ServiceTypeOK
    <3>2. CASE VerifyInsertUser(r)
      BY <1>0, <2>1, <2>2, <3>2, InsertUserEffect, NoneAssumption DEF VerifyInsertUser
    <3> QED
      BY <1>5, <3>1, <3>2
  <2>4. /\ pc' \in [Requests -> Statements] /\ out' \in [Requests -> Results \cup {None}]
        /\ \A s \in Requests \ {r} : pc'[s] = pc[s] /\ out'[s] = out[s]
    BY <1>0, <2>3, Moves
  <2>5. pc'[r] \in {"issue", "verify.insert", "done"} /\ (pc'[r] = "issue" => loaded'[r] # None)
    BY <1>0, <2>3 DEF Goto, Answer, ServiceTypeOK
  <2>6. ServiceTypeOK'
    BY <1>0, <2>3, <2>4 DEF ServiceTypeOK
  <2>7. PasswordlessTypeOK'
    BY <1>0, <2>1, <2>3, <2>4, <2>5, <2>6 DEF PasswordlessTypeOK
  <2>8. \A s \in Requests \ {r} : Bystander(s)
    BY <2>1, <2>3, <2>4 DEF Bystander, UserIDs
  <2>9. \A c \in Requests : codes[c] # None => RowAdvances(c)
    BY <1>0, <2>1, RowStays
  <2>10. Forward
    BY <1>0, <2>1, <2>3, <2>8, <2>9, ForwardByOne DEF Ended
  <2> QED
    BY <2>1, <2>3, <2>5, <2>7, <2>8, <2>10
<1>6. CASE Issue(r) /\ UNCHANGED codeVars
  <2>1. /\ pc[r] = "issue" /\ loaded[r] # None /\ refreshTokens[r] = None
        /\ UNCHANGED <<codes, mailed, record>>
    BY <1>0, <1>6 DEF Issue, Journey, PasswordlessTypeOK, codeVars
  <2>2. /\ UNCHANGED <<now, users, op, arg, before, at, loaded>>
        /\ refreshTokens' \in [Requests -> TokenRows \cup {None}]
        /\ accessTokens' \in [Requests -> Claims \cup {None}]
        /\ \A s \in Requests \ {r} : refreshTokens'[s] = refreshTokens[s]
        /\ Answer(r, "ok") \/ Answer(r, "failure")
    BY <1>0, <1>6, <2>1, IssueEffect
  <2>3. /\ pc' \in [Requests -> Statements] /\ out' \in [Requests -> Results \cup {None}]
        /\ \A s \in Requests \ {r} : pc'[s] = pc[s] /\ out'[s] = out[s]
    BY <1>0, <2>2, Moves
  <2>4. pc'[r] = "done"
    BY <1>0, <2>2 DEF Answer, ServiceTypeOK
  <2>5. ServiceTypeOK'
    BY <1>0, <2>2, <2>3 DEF ServiceTypeOK
  <2>6. PasswordlessTypeOK'
    BY <1>0, <2>1, <2>2, <2>3, <2>4, <2>5 DEF PasswordlessTypeOK
  <2>7. \A s \in Requests \ {r} : Bystander(s)
    BY <2>1, <2>2, <2>3 DEF Bystander
  <2>8. \A c \in Requests : codes[c] # None => RowAdvances(c)
    BY <1>0, <2>1, RowStays
  <2>9. Forward
    BY <1>0, <2>1, <2>2, <2>7, <2>8, ForwardByOne DEF Ended
  <2> QED
    BY <2>1, <2>2, <2>4, <2>6, <2>7, <2>9
<1>7. CASE StatementFails(r) /\ UNCHANGED codeVars
  <2>1. /\ UNCHANGED <<now, users, refreshTokens, accessTokens, op, arg, before, at, loaded,
                       codes, mailed, record>>
        /\ pc[r] \notin {"idle", "done", "crashed"} /\ Answer(r, "failure")
    BY <1>7 DEF StatementFails, Active, Ended, tables, request, codeVars
  <2>2. /\ pc' \in [Requests -> Statements] /\ out' \in [Requests -> Results \cup {None}]
        /\ \A s \in Requests \ {r} : pc'[s] = pc[s] /\ out'[s] = out[s]
    BY <1>0, <2>1, Moves
  <2>3. pc'[r] = "done"
    BY <1>0, <2>1 DEF Answer, ServiceTypeOK
  <2>4. ServiceTypeOK'
    BY <1>0, <2>1, <2>2 DEF ServiceTypeOK
  <2>5. PasswordlessTypeOK'
    BY <1>0, <2>1, <2>2, <2>3, <2>4 DEF PasswordlessTypeOK
  <2>6. \A s \in Requests \ {r} : Bystander(s)
    BY <2>1, <2>2 DEF Bystander
  <2>7. \A c \in Requests : codes[c] # None => RowAdvances(c)
    BY <1>0, <2>1, RowStays
  <2>8. Forward
    BY <1>0, <2>1, <2>6, <2>7, ForwardByOne DEF Ended
  <2> QED
    BY <2>1, <2>3, <2>5, <2>6, <2>8
<1> QED
  BY <1>1, <1>2, <1>3, <1>4, <1>5, <1>6, <1>7 DEF PasswordlessStep

\* Steps of nobody: a crash, the clock, nothing.
LEMMA OtherForward ==
    ASSUME PasswordlessInv,
           ((Crash \/ Tick) /\ UNCHANGED codeVars) \/ UNCHANGED passwordlessVars
    PROVE  /\ PasswordlessTypeOK' /\ BodiesTyped' /\ Forward
           /\ \A s \in Requests : Bystander(s)
           /\ UNCHANGED <<codes, mailed, record, out, before>>
<1>0. PasswordlessTypeOK /\ ServiceTypeOK /\ BodiesTyped
  BY DEF PasswordlessInv, PasswordlessTypeOK
<1>1. UNCHANGED <<users, refreshTokens, accessTokens, op, arg, before, at, loaded, out,
                  codes, mailed, record>>
  BY DEF Crash, Tick, passwordlessVars, serviceVars, codeVars, tables, request
<1>2. now' \in Nat /\ now <= now'
  BY <1>0 DEF Crash, Tick, passwordlessVars, serviceVars, ServiceTypeOK
<1>3. \A s \in Requests : pc'[s] = pc[s] \/ (pc'[s] = "crashed" /\ Active(s))
  BY DEF Crash, Tick, passwordlessVars, serviceVars
<1>4. pc' \in [Requests -> Statements]
  BY <1>0 DEF Crash, Tick, passwordlessVars, serviceVars, ServiceTypeOK, Statements
<1>5. ServiceTypeOK'
  BY <1>0, <1>1, <1>2, <1>4 DEF ServiceTypeOK
<1>6. PasswordlessTypeOK' /\ BodiesTyped'
  BY <1>0, <1>1, <1>3, <1>5 DEF PasswordlessTypeOK, BodiesTyped
<1>7. \A s \in Requests : Bystander(s)
  BY <1>1, <1>3 DEF Bystander
<1>8. \A s \in Ended : s \in Ended'
  BY <1>3 DEF Ended, Active
<1>9. \A c \in Requests : codes[c] # None => RowAdvances(c)
  BY <1>0, <1>1, RowStays
<1>10. Forward
  BY <1>1, <1>2, <1>8, <1>9 DEF Forward
<1> QED
  BY <1>1, <1>6, <1>7, <1>10

-----------------------------------------------------------------------------
(* What a step leaves of the facts about the requests that do not take it *)

\* A code asked for since code p remains one.
LEMMA AskedSinceStands ==
    ASSUME PasswordlessInv, Forward, NEW p \in Requests, codes[p] # None, NEW q \in AskedSince(p)
    PROVE  q \in AskedSince(p)'
<1>1. /\ q \in Requests \ {p} /\ codes[q] # None
      /\ codes[q].email.box = codes[p].email.box /\ at[q] >= at[p]
  BY DEF AskedSince
<1>2. RowAdvances(p) /\ RowAdvances(q)
  BY <1>1 DEF Forward
<1>3. pc[p] # "idle" /\ pc[q] # "idle"
  BY <1>1 DEF PasswordlessInv, Journey
<1>4. UNCHANGED <<at[p], at[q]>>
  BY <1>1, <1>3 DEF Forward
<1> QED
  BY <1>1, <1>2, <1>4 DEF AskedSince, RowAdvances

\* What a request has not overlooked stays so while it finds no row.
LEMMA ForesightStands ==
    ASSUME PasswordlessInv, PasswordlessTypeOK', Forward, NEW s \in Requests,
           UNCHANGED <<arg[s], before[s], at[s], record[s]>>
    PROVE  Foresight(s)'
<1>0. PasswordlessTypeOK /\ ServiceTypeOK /\ Foresight(s)
  BY DEF PasswordlessInv, PasswordlessTypeOK
<1>1. \A u \in before[s] : /\ u \in Ended /\ u \in Requests /\ u \in Ended'
                           /\ UNCHANGED <<op[u], arg[u], out[u], record[u], refreshTokens[u]>>
  <2>1. ASSUME NEW u \in before[s] PROVE u \in Ended /\ u \in Requests /\ pc[u] # "idle"
    BY <1>0 DEF Foresight, Ended
  <2> QED
    BY <2>1 DEF Forward
<1>2. at[s] <= now'
  BY <1>0 DEF Foresight, Forward, ServiceTypeOK, PasswordlessTypeOK
<1>3. before[s] \subseteq Ended'
  BY <1>1
<1>4. FailuresBefore(s, record[s])' = FailuresBefore(s, record[s])
  BY <1>1 DEF FailuresBefore
<1>5. ASSUME record[s] # None, NEW u \in before[s], refreshTokens'[u] # None
      PROVE  record'[u] # record[s]
  BY <1>0, <1>1, <1>5 DEF Foresight
<1>6. ASSUME record[s] # None, NEW p \in before[s], codes'[p] # None,
             codes'[p].email.box = arg[s].email.box
      PROVE  codes'[p].createdAt <= codes'[record[s]].createdAt
  <2>1. codes[p] # None /\ codes[record[s]] # None /\ p \in Requests /\ record[s] \in Requests
    BY <1>0, <1>1, <1>6 DEF Forward, PasswordlessTypeOK
  <2>2. RowAdvances(p) /\ RowAdvances(record[s])
    BY <2>1 DEF Forward
  <2> QED
    BY <1>0, <1>6, <2>1, <2>2 DEF Foresight, RowAdvances
<1> QED
  BY <1>0, <1>1, <1>2, <1>3, <1>4, <1>5, <1>6 DEF Foresight

\* The facts about a request stand while it takes no step, or dies.
LEMMA BystanderStands ==
    ASSUME PasswordlessInv, PasswordlessTypeOK', Forward, NEW s \in Requests, Bystander(s)
    PROVE  /\ Journey(s)' /\ CodeDated(s)' /\ Compared(s)' /\ SignsForMailbox(s)'
           /\ Foresight(s)' /\ RefusedForCause(s)'
<1>0. /\ PasswordlessTypeOK /\ ServiceTypeOK /\ Journey(s) /\ CodeDated(s) /\ Compared(s)
      /\ SignsForMailbox(s) /\ Foresight(s) /\ RefusedForCause(s)
  BY DEF PasswordlessInv, PasswordlessTypeOK
<1>1. /\ UNCHANGED <<op[s], arg[s], out[s], before[s], at[s], loaded[s], record[s], refreshTokens[s]>>
      /\ AddressOf(s)' = AddressOf(s)
      /\ pc'[s] = pc[s] \/ (pc'[s] = "crashed" /\ pc[s] \notin {"idle", "done", "crashed"})
      /\ codes'[s] # None => codes[s] # None
      /\ codes[s] # None => codes'[s] # None
      /\ users'[s] # None => users[s] # None
  BY DEF Bystander, AddressOf, Active, Ended, Forward, RowAdvances
<1>2. Journey(s)'
  BY <1>0, <1>1 DEF Journey
<1>3. CodeDated(s)'
  BY <1>0, <1>1 DEF CodeDated, Forward, RowAdvances
<1>4. Compared(s)'
  <2>1. record[s] # None => record[s] \in Requests /\ codes[record[s]] # None
    BY <1>0 DEF PasswordlessTypeOK
  <2>2. record[s] # None => RowAdvances(record[s])
    BY <2>1 DEF Forward
  <2> QED
    BY <1>0, <1>1, <2>2 DEF Compared, RowAdvances
<1>5. SignsForMailbox(s)'
  <2>1. /\ loaded[s] # None => loaded[s].id \in UserIDs
        /\ refreshTokens[s] # None => refreshTokens[s].user \in UserIDs
    BY <1>0 DEF ServiceTypeOK, DomainUsers, TokenRows
  <2> QED
    BY <1>0, <1>1, <2>1 DEF SignsForMailbox, Forward
<1>6. \A p \in before[s] : p \in mailed' => p \in mailed
  BY <1>0 DEF Foresight, Forward
<1>7. Foresight(s)'
  BY <1>1, ForesightStands
<1>8. RefusedForCause(s)'
  <2>1. ASSUME op[s] = "verify_code", out[s] \in {"ErrCodeInvalid", "ErrTooManyAttempts"},
               NEW p \in mailed' \cap before[s]
        PROVE  \/ now' > codes'[p].expiresAt
               \/ codes'[p].code # arg[s].code
               \/ codes'[p].email.box # arg[s].email.box
               \/ \E q \in Requests \ {s} : record'[q] = p
               \/ AskedSince(p)' # {}
    <3>1. p \in mailed \cap before[s]
      BY <1>6, <2>1
    <3>2. p \in Requests /\ codes[p] # None /\ codes[p] \in CodeRows /\ RowAdvances(p)
      BY <1>0, <3>1 DEF PasswordlessTypeOK, Forward
    <3>3. now > codes[p].expiresAt => now' > codes'[p].expiresAt
      BY <1>0, <3>2 DEF RowAdvances, CodeRows, Forward, ServiceTypeOK, PasswordlessTypeOK
    <3>4. \A q \in Requests : record[q] = p => record'[q] = p
      BY <3>2, ServiceAssumption DEF Forward
    <3>5. AskedSince(p) # {} => AskedSince(p)' # {}
      BY <3>2, AskedSinceStands
    <3> QED
      BY <1>0, <2>1, <3>1, <3>2, <3>3, <3>4, <3>5 DEF RefusedForCause, RowAdvances
  <2> QED
    BY <1>0, <1>1, <2>1 DEF RefusedForCause
<1> QED
  BY <1>2, <1>3, <1>4, <1>5, <1>7, <1>8

-----------------------------------------------------------------------------
(* What a step establishes of the request that takes it *)

\* The facts that PasswordlessInv keeps of a request.
Stands(r) ==
    /\ Journey(r) /\ CodeDated(r) /\ Compared(r) /\ SignsForMailbox(r)
    /\ Foresight(r) /\ RefusedForCause(r)

\* An arrival starts from nothing.
LEMMA ArrivalStands ==
    ASSUME PasswordlessInv, PasswordlessTypeOK', Forward, NEW r \in Requests,
           (ArriveMalformed(r) /\ UNCHANGED codeVars) \/ PasswordlessArrive(r)
    PROVE  Stands(r)'
<1>0. /\ PasswordlessTypeOK /\ ServiceTypeOK /\ BodiesTyped /\ Journey(r)
  BY DEF PasswordlessInv, PasswordlessTypeOK
<1>1. /\ UNCHANGED <<now, users, refreshTokens, loaded, codes, mailed, record>>
      /\ pc[r] = "idle"
      /\ before'[r] = Ended /\ at'[r] = now
      /\ \/ /\ pc'[r] = "code.insert" /\ out'[r] = out[r]
            /\ op'[r] = "request_code" /\ arg'[r] \in CodeRequests
         \/ /\ pc'[r] = "verify.find" /\ out'[r] = out[r]
            /\ op'[r] = "verify_code" /\ arg'[r] \in Guesses
         \/ pc'[r] = "done" /\ out'[r] = "malformed" /\ arg'[r] = None
  BY <1>0, ArrivalEffect
<1>2. /\ users[r] = None /\ loaded[r] = None /\ codes[r] = None /\ record[r] = None
      /\ refreshTokens[r] = None /\ out[r] = None
  BY <1>0, <1>1 DEF Journey
<1>3. None \notin Results
  BY NoneAssumption
<1>4. Journey(r)'
  BY <1>1, <1>2, <1>3 DEF Journey, Results
<1>5. CodeDated(r)' /\ Compared(r)' /\ SignsForMailbox(r)'
  BY <1>1, <1>2 DEF CodeDated, Compared, SignsForMailbox
<1>6. Foresight(r)'
  BY <1>0, <1>1, <1>2 DEF Foresight, Forward, ServiceTypeOK
<1>7. RefusedForCause(r)'
  BY <1>1, <1>2, <1>3 DEF RefusedForCause, Results
<1> QED
  BY <1>4, <1>5, <1>6, <1>7 DEF Stands

\* A row was asked for by a request about its mailbox.
LEMMA RowAbout ==
    ASSUME PasswordlessInv, NEW c \in Requests, codes[c] # None
    PROVE  /\ op[c] = "request_code"
           /\ codes[c].email = [box |-> arg[c].email.box, lower |-> TRUE]
           /\ codes[c].email.box = arg[c].email.box
<1>1. CodeDated(c)
  BY DEF PasswordlessInv
<1>2. codes[c].email = [box |-> arg[c].email.box, lower |-> TRUE] /\ op[c] = "request_code"
  BY <1>1, AddressTyped DEF CodeDated
<1> QED
  BY <1>2

\* A verification that has found a row is about the mailbox of that row.
LEMMA HolderAbout ==
    ASSUME PasswordlessInv, NEW q \in Requests, record[q] # None
    PROVE  /\ record[q] \in Requests /\ codes[record[q]] # None
           /\ op[q] = "verify_code" /\ arg[q] \in Guesses
           /\ codes[record[q]].email = [box |-> arg[q].email.box, lower |-> TRUE]
           /\ codes[record[q]].email.box = arg[q].email.box
<1>1. Journey(q) /\ Compared(q) /\ PasswordlessTypeOK
  BY DEF PasswordlessInv
<1>2. /\ record[q] \in Requests /\ codes[record[q]] # None
      /\ op[q] = "verify_code" /\ arg[q] \in Guesses
  BY <1>1 DEF PasswordlessTypeOK, Journey
<1>3. codes[record[q]].email = [box |-> arg[q].email.box, lower |-> TRUE]
  BY <1>1, <1>2, AddressTyped DEF Compared
<1> QED
  BY <1>2, <1>3

\* The mailed code p is refused to r at once only if it has expired, somebody else
\* has tried it or a newer one was asked for.
LEMMA RefusedAtOnce ==
    ASSUME PasswordlessInv, NEW r \in Requests, pc[r] = "verify.find", NEW p \in mailed,
           codes[p].email.box = arg[r].email.box, now <= codes[p].expiresAt,
           \A q \in Requests \ {r} : record[q] # p, AskedSince(p) = {}
    PROVE  /\ FindLatestByEmail(AddressOf(r)) = {p}
           /\ Usable(codes[p]) /\ codes[p].attempts < maxVerificationAttempts
<1>0. /\ PasswordlessTypeOK /\ Journey(r) /\ p \in Requests /\ codes[p] # None
      /\ codes[p] \in CodeRows
  BY DEF PasswordlessInv, PasswordlessTypeOK
<1>1. op[r] = "verify_code" /\ arg[r] \in Guesses /\ record[r] = None
  BY <1>0 DEF Journey
<1>2. AddressOf(r) = [box |-> arg[r].email.box, lower |-> TRUE]
  BY <1>1, AddressTyped
<1>3. p \in RowsOf(AddressOf(r))
  <2>1. codes[p].email = [box |-> arg[p].email.box, lower |-> TRUE]
        /\ codes[p].email.box = arg[p].email.box
    BY <1>0, RowAbout
  <2>2. codes[p].email = AddressOf(r)
    BY <1>2, <2>1
  <2> QED
    BY <1>0, <2>2 DEF RowsOf
<1>4. codes[p].createdAt \in Nat
  BY <1>0 DEF CodeRows
<1>5. ASSUME NEW c \in RowsOf(AddressOf(r)), c # p
      PROVE  codes[c].createdAt \in Nat /\ codes[c].createdAt < codes[p].createdAt
  <2>1. c \in Requests \ {p} /\ codes[c] # None /\ codes[c].email.box = codes[p].email.box
    BY <1>2, <1>5 DEF RowsOf
  <2>2. ~(at[c] >= at[p])
    BY <2>1 DEF AskedSince
  <2>3. codes[c].createdAt = at[c] /\ codes[p].createdAt = at[p]
    BY <1>0, <2>1 DEF PasswordlessInv, CodeDated
  <2>4. at[c] \in Nat /\ at[p] \in Nat
    BY <1>0, <2>1 DEF PasswordlessTypeOK, ServiceTypeOK
  <2> QED
    BY <2>2, <2>3, <2>4
<1>6. FindLatestByEmail(AddressOf(r)) = {p}
  BY <1>3, <1>4, <1>5 DEF FindLatestByEmail
<1>7. \A q \in Requests : record[q] # p
  BY <1>0, <1>1, ServiceAssumption
<1>8. ~codes[p].consumed /\ codes[p].attempts = 0
  BY <1>0, <1>7 DEF PasswordlessInv, CodeCounts
<1> QED
  BY <1>6, <1>8, CodesAssumption DEF Usable

\* The SELECT of the latest row: every way it can end.
LEMMA VerifyFindStands ==
    ASSUME PasswordlessInv, PasswordlessTypeOK', Forward, NEW r \in Requests, VerifyFind(r)
    PROVE  Stands(r)'
<1>0. /\ PasswordlessTypeOK /\ ServiceTypeOK /\ Journey(r) /\ Foresight(r) /\ SignsForMailbox(r)
  BY DEF PasswordlessInv, PasswordlessTypeOK
<1>1. /\ pc[r] = "verify.find"
      /\ UNCHANGED <<now, users, refreshTokens, accessTokens, op, arg, before, at, loaded,
                     codes, mailed>>
  BY DEF VerifyFind, tables, request
<1>2. /\ op[r] = "verify_code" /\ arg[r] \in Guesses /\ record[r] = None /\ codes[r] = None
      /\ out[r] = None /\ refreshTokens[r] = None /\ users[r] = None /\ loaded[r] = None
  BY <1>0, <1>1 DEF Journey
<1>3. r \notin Ended /\ before[r] \subseteq Ended /\ before[r] \subseteq Ended' /\ at[r] <= now
  BY <1>0, <1>1 DEF Ended, Foresight, Forward
<1>4. None \notin Results
  BY NoneAssumption
<1>5. CodeDated(r)' /\ SignsForMailbox(r)'
  BY <1>1, <1>2 DEF CodeDated, SignsForMailbox
<1> DEFINE found == FindLatestByEmail(AddressOf(r))
<1>6. ASSUME UNCHANGED record, NEW x \in {"ErrCodeInvalid", "ErrTooManyAttempts"}, Answer(r, x),
             \/ found = {}
             \/ \E c \in found : ~Usable(codes[c]) \/ ~(codes[c].attempts < maxVerificationAttempts)
      PROVE  Stands(r)'
  <2>1. pc'[r] = "done" /\ out'[r] = x
    BY <1>0, <1>6 DEF Answer, ServiceTypeOK
  <2>2. Journey(r)' /\ Compared(r)' /\ Foresight(r)'
    BY <1>1, <1>2, <1>3, <1>4, <1>6, <2>1 DEF Journey, Compared, Foresight, Results
  <2>3. ASSUME NEW p \in mailed \cap before[r], ~(now > codes[p].expiresAt),
               codes[p].email.box = arg[r].email.box,
               \A q \in Requests \ {r} : record[q] # p, AskedSince(p) = {}
        PROVE  FALSE
    <3>1. now <= codes[p].expiresAt
      BY <1>0, <2>3 DEF ServiceTypeOK, PasswordlessTypeOK, CodeRows
    <3>2. found = {p} /\ Usable(codes[p]) /\ codes[p].attempts < maxVerificationAttempts
      BY <1>1, <2>3, <3>1, RefusedAtOnce
    <3> QED
      BY <1>6, <3>2
  <2>4. \A p : AskedSince(p)' = AskedSince(p)
    BY <1>1 DEF AskedSince
  <2>5. RefusedForCause(r)'
    BY <1>1, <1>2, <1>6, <2>3, <2>4 DEF RefusedForCause
  <2> QED
    BY <1>5, <2>2, <2>5 DEF Stands
<1>7. ASSUME NEW c \in found, Usable(codes[c]), codes[c].attempts < maxVerificationAttempts,
             record' = [record EXCEPT ![r] = c],
             Goto(r, IF codes[c].code = arg[r].code THEN "verify.consume" ELSE "verify.increment")
      PROVE  Stands(r)'
  <2>1. /\ c \in Requests /\ codes[c] # None /\ codes[c] \in CodeRows /\ codes[c].email = AddressOf(r)
        /\ c # None
        /\ \A d \in RowsOf(AddressOf(r)) : codes[d].createdAt <= codes[c].createdAt
    BY <1>0, ServiceAssumption DEF FindLatestByEmail, RowsOf, PasswordlessTypeOK
  <2>2. ~codes[c].consumed /\ now <= codes[c].expiresAt
    BY <1>7 DEF Usable
  <2>3. /\ record'[r] = c /\ out'[r] = None
        /\ \A u \in before[r] : u \in Requests /\ record'[u] = record[u] /\ out'[u] = out[u]
        /\ pc'[r] = IF codes[c].code = arg[r].code THEN "verify.consume" ELSE "verify.increment"
    BY <1>0, <1>2, <1>3, <1>7 DEF Goto, PasswordlessTypeOK, ServiceTypeOK, Ended
  <2>4. Journey(r)'
    BY <1>1, <1>2, <1>4, <2>1, <2>3 DEF Journey, Results
  <2>5. Compared(r)'
    <3>1. AddressOf(r)' = AddressOf(r)
      BY <1>1 DEF AddressOf
    <3>2. at[r] <= codes[c].expiresAt
      BY <1>0, <1>3, <2>1, <2>2 DEF ServiceTypeOK, CodeRows
    <3> QED
      BY <1>1, <1>2, <2>1, <2>3, <3>1, <3>2 DEF Compared
  <2>6. /\ IsFiniteSet(FailuresBefore(r, c)')
        /\ Cardinality(FailuresBefore(r, c)') < maxVerificationAttempts
    <3>1. FailuresBefore(r, c)' = FailuresBefore(r, c)
      BY <1>1, <2>3 DEF FailuresBefore
    <3>2. FailuresBefore(r, c) \subseteq Failures(c)
      BY <2>3 DEF FailuresBefore, Failures
    <3>3. IsFiniteSet(Failures(c)) /\ Cardinality(Failures(c)) <= codes[c].attempts
      BY <2>1 DEF PasswordlessInv, CodeCounts
    <3>4. /\ IsFiniteSet(FailuresBefore(r, c))
          /\ Cardinality(FailuresBefore(r, c)) <= Cardinality(Failures(c))
      BY <3>2, <3>3, FS_Subset
    <3>5. Cardinality(FailuresBefore(r, c)) \in Nat /\ Cardinality(Failures(c)) \in Nat
      BY <3>3, <3>4, FS_CardinalityType
    <3>6. codes[c].attempts \in Nat
      BY <2>1 DEF CodeRows
    <3> QED
      BY <1>7, <3>1, <3>3, <3>4, <3>5, <3>6, CodesAssumption
  <2>7. ASSUME NEW u \in before[r], refreshTokens[u] # None PROVE record[u] # c
    <3>1. Journey(u) /\ Compared(u)
      BY <2>3 DEF PasswordlessInv
    <3> QED
      BY <2>2, <2>7, <3>1 DEF Journey, Compared
  <2>8. ASSUME NEW p \in before[r], codes[p] # None, codes[p].email.box = arg[r].email.box
        PROVE  codes[p].createdAt <= codes[c].createdAt
    <3>1. codes[p].email = AddressOf(r)
      <4>1. /\ codes[p].email = [box |-> arg[p].email.box, lower |-> TRUE]
            /\ codes[p].email.box = arg[p].email.box
        BY <2>3, <2>8, RowAbout
      <4>2. AddressOf(r) = [box |-> arg[r].email.box, lower |-> TRUE]
        BY <1>2, AddressTyped
      <4> QED
        BY <2>8, <4>1, <4>2
    <3> QED
      BY <2>1, <2>3, <2>8, <3>1 DEF RowsOf
  <2>9. Foresight(r)'
    BY <1>1, <1>3, <2>3, <2>6, <2>7, <2>8 DEF Foresight
  <2>10. RefusedForCause(r)'
    BY <1>4, <2>3 DEF RefusedForCause, Results
  <2> QED
    BY <1>5, <2>4, <2>5, <2>9, <2>10 DEF Stands
<1> HIDE DEF found
<1>8. ASSUME NEW c, codes[c].attempts >= maxVerificationAttempts, c \in found
      PROVE  ~(codes[c].attempts < maxVerificationAttempts)
  <2>1. codes[c].attempts \in Nat
    BY <1>0, <1>8 DEF found, FindLatestByEmail, RowsOf, PasswordlessTypeOK, CodeRows
  <2> QED
    BY <1>8, <2>1, CodesAssumption
<1> QED
  BY <1>6, <1>7, <1>8 DEF VerifyFind, found

\* A statement of a request that has found its row, or looks for none.
LEMMA StatementStands ==
    ASSUME PasswordlessInv, PasswordlessTypeOK', Forward, NEW r \in Requests, PasswordlessStep(r)
    PROVE  Stands(r)'
<1>0. /\ PasswordlessTypeOK /\ ServiceTypeOK /\ Journey(r) /\ Compared(r) /\ CodeDated(r)
      /\ SignsForMailbox(r) /\ Foresight(r)
  BY DEF PasswordlessInv, PasswordlessTypeOK
<1>1. CASE VerifyFind(r)
  BY <1>1, VerifyFindStands
<1>2. /\ UNCHANGED <<op, arg, before, at>> /\ pc[r] \notin {"idle", "done", "crashed"}
      /\ AddressOf(r)' = AddressOf(r) /\ out[r] = None /\ refreshTokens[r] = None
  BY <1>0, StatementForward DEF AddressOf, Journey
<1>3. None \notin Results
  BY NoneAssumption
<1>4. CASE InsertCode(r)
  <2>1. /\ pc[r] = "code.insert" /\ codes'[r] # None /\ codes'[r].email = AddressOf(r)
        /\ codes'[r].createdAt = at[r] /\ arg[r] \in CodeRequests /\ op[r] = "request_code"
        /\ UNCHANGED <<users, refreshTokens, loaded, record>>
        /\ Goto(r, "code.send") \/ Answer(r, "failure")
    BY <1>0, <1>4, InsertCodeEffect
  <2>2. \/ pc'[r] = "code.send" /\ out'[r] = None
        \/ pc'[r] = "done" /\ out'[r] = "failure"
    BY <1>0, <1>2, <2>1 DEF Goto, Answer, ServiceTypeOK
  <2>3. record[r] = None /\ users[r] = None /\ loaded[r] = None
    BY <1>0, <2>1 DEF Journey
  <2>4. Journey(r)'
    BY <1>2, <1>3, <2>1, <2>2, <2>3 DEF Journey, Results
  <2>5. CodeDated(r)' /\ Compared(r)' /\ SignsForMailbox(r)' /\ RefusedForCause(r)'
    BY <1>2, <2>1, <2>3 DEF CodeDated, Compared, SignsForMailbox, RefusedForCause
  <2>6. Foresight(r)'
    BY <1>2, <2>1, ForesightStands
  <2> QED
    BY <2>4, <2>5, <2>6 DEF Stands
<1>5. CASE SendVerificationCode(r)
  <2>1. /\ pc[r] = "code.send" /\ codes[r] # None /\ op[r] = "request_code"
        /\ UNCHANGED <<users, refreshTokens, loaded, record, codes>>
        /\ Answer(r, "ok") \/ Answer(r, "failure")
    BY <1>0, <1>5 DEF SendVerificationCode, Journey, tables
  <2>2. pc'[r] = "done" /\ out'[r] \in {"ok", "failure"}
    BY <1>0, <2>1 DEF Answer, ServiceTypeOK
  <2>3. record[r] = None /\ users[r] = None /\ loaded[r] = None
    BY <1>0, <2>1 DEF Journey
  <2>4. Journey(r)'
    BY <1>2, <1>3, <2>1, <2>2, <2>3 DEF Journey, Results
  <2>5. CodeDated(r)' /\ Compared(r)' /\ SignsForMailbox(r)' /\ RefusedForCause(r)'
    BY <1>0, <1>2, <2>1, <2>3 DEF CodeDated, Compared, SignsForMailbox, RefusedForCause
  <2>6. Foresight(r)'
    BY <1>2, <2>1, ForesightStands
  <2> QED
    BY <2>4, <2>5, <2>6 DEF Stands
<1>6. CASE IncrementAttempts(r)
  <2>1. /\ record[r] \in Requests /\ RowAdvances(record[r]) /\ codes[record[r]] # None
        /\ UNCHANGED <<now, users, refreshTokens, loaded, record, mailed>>
        /\ \A c \in Requests \ {record[r]} : codes'[c] = codes[c]
    BY <1>0, <1>6, UpdateCodeEffect, CodesAssumption
  <2>2. /\ pc[r] = "verify.increment" /\ pc'[r] = "done"
        /\ out'[r] \in {"ErrCodeInvalid", "failure"}
    BY <1>0, <1>6 DEF IncrementAttempts, Answer, ServiceTypeOK
  <2>3. /\ op[r] = "verify_code" /\ arg[r] \in Guesses /\ codes[r] = None /\ users[r] = None
        /\ loaded[r] = None /\ record[r] # None
    BY <1>0, <2>1, <2>2, ServiceAssumption DEF Journey
  <2>4. r # record[r] /\ codes'[r] = None
    BY <2>1, <2>3
  <2>5. Journey(r)'
    BY <1>2, <1>3, <2>1, <2>2, <2>3, <2>4 DEF Journey, Results
  <2>6. Compared(r)'
    BY <1>0, <1>2, <2>1, <2>2 DEF Compared, RowAdvances
  <2>7. CodeDated(r)' /\ SignsForMailbox(r)'
    BY <1>2, <2>1, <2>3, <2>4 DEF CodeDated, SignsForMailbox
  <2>8. Foresight(r)'
    BY <1>2, <2>1, ForesightStands
  <2>9. ASSUME NEW p \in mailed \cap before[r]
        PROVE  \/ codes'[p].code # arg[r].code
               \/ codes'[p].email.box # arg[r].email.box
               \/ AskedSince(p)' # {}
    <3>1. codes[record[r]].code # arg[r].code
      BY <1>0, <2>2, <2>3 DEF Compared
    <3>2. CASE p = record[r]
      BY <2>1, <3>1, <3>2 DEF RowAdvances
    <3>3. CASE p # record[r] /\ codes[p].email.box = arg[r].email.box
      <4>1. codes[record[r]].email.box = arg[r].email.box
        BY <2>3, HolderAbout
      <4>2. p \in Requests /\ codes[p] # None
        BY <1>0 DEF PasswordlessTypeOK
      <4>3. codes[p].createdAt <= codes[record[r]].createdAt
        BY <1>0, <2>3, <3>3, <4>2 DEF Foresight
      <4>4. codes[p].createdAt = at[p] /\ codes[record[r]].createdAt = at[record[r]]
        BY <2>1, <4>2 DEF PasswordlessInv, CodeDated
      <4>5. at[p] \in Nat /\ at[record[r]] \in Nat
        BY <1>0, <2>1, <4>2 DEF ServiceTypeOK
      <4>6. record[r] \in AskedSince(p)
        BY <2>1, <3>3, <4>1, <4>3, <4>4, <4>5 DEF AskedSince
      <4> QED
        BY <4>2, <4>6, AskedSinceStands
    <3>4. CASE p # record[r] /\ codes[p].email.box # arg[r].email.box
      BY <1>0, <2>1, <3>4 DEF PasswordlessTypeOK
    <3> QED
      BY <3>2, <3>3, <3>4
  <2>10. RefusedForCause(r)'
    BY <1>2, <2>1, <2>3, <2>9 DEF RefusedForCause
  <2> QED
    BY <2>5, <2>6, <2>7, <2>8, <2>10 DEF Stands
<1>7. CASE MarkConsumed(r)
  <2>1. /\ record[r] \in Requests /\ RowAdvances(record[r]) /\ codes[record[r]] # None
        /\ codes'[record[r]].consumed
        /\ UNCHANGED <<now, users, refreshTokens, loaded, record, mailed>>
        /\ \A c \in Requests \ {record[r]} : codes'[c] = codes[c]
    BY <1>0, <1>7, UpdateCodeEffect, CodesAssumption
  <2>2. /\ pc[r] = "verify.consume"
        /\ \/ pc'[r] = "verify.user" /\ out'[r] = None
           \/ pc'[r] = "done" /\ out'[r] = "failure"
    BY <1>0, <1>2, <1>7 DEF MarkConsumed, Goto, Answer, ServiceTypeOK
  <2>3. /\ op[r] = "verify_code" /\ arg[r] \in Guesses /\ codes[r] = None /\ users[r] = None
        /\ loaded[r] = None /\ record[r] # None
    BY <1>0, <2>1, <2>2, ServiceAssumption DEF Journey
  <2>4. r # record[r] /\ codes'[r] = None
    BY <2>1, <2>3
  <2>5. Journey(r)'
    BY <1>2, <1>3, <2>1, <2>2, <2>3, <2>4 DEF Journey, Results
  <2>6. Compared(r)'
    BY <1>0, <1>2, <2>1, <2>2, <2>3 DEF Compared, RowAdvances
  <2>7. CodeDated(r)' /\ SignsForMailbox(r)'
    BY <1>2, <2>1, <2>3, <2>4 DEF CodeDated, SignsForMailbox
  <2>8. Foresight(r)'
    BY <1>2, <2>1, ForesightStands
  <2>9. RefusedForCause(r)'
    BY <1>3, <2>2 DEF RefusedForCause, Results
  <2> QED
    BY <2>5, <2>6, <2>7, <2>8, <2>9 DEF Stands
<1>8. CASE VerifyFindUser(r) \/ VerifyInsertUser(r)
  <2>1. /\ pc[r] \in {"verify.user", "verify.insert"} /\ arg[r] \in Guesses /\ op[r] = "verify_code"
        /\ record[r] # None /\ codes[r] = None /\ users[r] = None /\ loaded[r] = None
        /\ UNCHANGED <<codes, mailed, record>>
    BY <1>0, <1>8 DEF VerifyFindUser, VerifyInsertUser, Journey, PasswordlessTypeOK, codeVars
  <2>2. AddressOf(r) \in Emails
    BY <2>1, AddressTyped
  <2>3. /\ refreshTokens' = refreshTokens
        /\ \/ /\ Goto(r, "issue")
              /\ users'[loaded'[r].id] # None /\ users'[loaded'[r].id].email = AddressOf(r)
           \/ Goto(r, "verify.insert") /\ loaded'[r] = None /\ users'[r] = None
           \/ Answer(r, "failure") /\ loaded'[r] = None
    <3>1. CASE VerifyFindUser(r)
      <4>1. /\ UNCHANGED <<users, refreshTokens, out>>
            /\ \/ /\ pc' = [pc EXCEPT ![r] = "issue"]
                  /\ users[loaded'[r].id] # None /\ users[loaded'[r].id].email = AddressOf(r)
               \/ pc' = [pc EXCEPT ![r] = "verify.insert"] /\ UNCHANGED loaded
        BY <1>0, <2>2, <3>1, FindUserEffect DEF VerifyFindUser, Statements
      <4> QED
        BY <2>1, <4>1 DEF Goto
    <3>2. CASE VerifyInsertUser(r)
      <4>1. /\ UNCHANGED refreshTokens
            /\ users'[r] # None => users'[r] = NewUser(AddressOf(r), None)
            /\ \/ Goto(r, "issue") /\ loaded'[r].id = r /\ users'[r] # None
               \/ Answer(r, "failure") /\ UNCHANGED loaded
        BY <1>0, <2>1, <2>2, <3>2, InsertUserEffect DEF VerifyInsertUser
      <4> QED
        BY <2>1, <4>1 DEF NewUser
    <3> QED
      BY <1>8, <3>1, <3>2
  <2>4. \/ /\ pc'[r] = "issue" /\ out'[r] = None
           /\ users'[loaded'[r].id] # None /\ users'[loaded'[r].id].email = AddressOf(r)
        \/ pc'[r] = "verify.insert" /\ out'[r] = None /\ loaded'[r] = None /\ users'[r] = None
        \/ pc'[r] = "done" /\ out'[r] = "failure" /\ loaded'[r] = None
    BY <1>0, <1>2, <2>3 DEF Goto, Answer, ServiceTypeOK
  <2>5. Journey(r)'
    BY <1>2, <1>3, <2>1, <2>3, <2>4 DEF Journey, Results
  <2>6. Compared(r)'
    BY <1>0, <1>2, <2>1, <2>3, <2>4 DEF Compared
  <2>7. CodeDated(r)' /\ SignsForMailbox(r)'
    BY <1>2, <2>1, <2>3, <2>4 DEF CodeDated, SignsForMailbox
  <2>8. Foresight(r)'
    BY <1>2, <2>1, ForesightStands
  <2>9. RefusedForCause(r)'
    BY <1>3, <2>4 DEF RefusedForCause, Results
  <2> QED
    BY <2>5, <2>6, <2>7, <2>8, <2>9 DEF Stands
<1>9. CASE Issue(r) /\ UNCHANGED codeVars
  <2>1. /\ pc[r] = "issue" /\ record[r] # None /\ loaded[r] # None /\ codes[r] = None
        /\ op[r] = "verify_code" /\ arg[r] \in Guesses /\ UNCHANGED <<codes, mailed, record>>
    BY <1>0, <1>9 DEF Issue, Journey, PasswordlessTypeOK, codeVars
  <2>2. /\ UNCHANGED <<users, loaded>> /\ refreshTokens'[r].user = loaded[r].id
        /\ Answer(r, "ok") \/ Answer(r, "failure")
    BY <1>0, <1>9, <2>1, IssueEffect
  <2>3. pc'[r] = "done" /\ out'[r] \in {"ok", "failure"}
    BY <1>0, <2>2 DEF Answer, ServiceTypeOK
  <2>4. Journey(r)'
    BY <1>2, <1>3, <2>1, <2>2, <2>3 DEF Journey, Results
  <2>5. Compared(r)'
    BY <1>0, <1>2, <2>1, <2>3 DEF Compared
  <2>6. CodeDated(r)' /\ SignsForMailbox(r)'
    BY <1>0, <1>2, <2>1, <2>2 DEF CodeDated, SignsForMailbox
  <2>7. Foresight(r)'
    BY <1>2, <2>1, ForesightStands
  <2>8. RefusedForCause(r)'
    BY <1>3, <2>3 DEF RefusedForCause, Results
  <2> QED
    BY <2>4, <2>5, <2>6, <2>7, <2>8 DEF Stands
<1>10. CASE StatementFails(r) /\ UNCHANGED codeVars
  <2>1. /\ UNCHANGED <<users, refreshTokens, loaded, codes, mailed, record>>
        /\ pc'[r] = "done" /\ out'[r] = "failure"
    BY <1>0, <1>10 DEF StatementFails, Answer, ServiceTypeOK, tables, codeVars
  <2>2. Journey(r)'
    BY <1>0, <1>2, <1>3, <2>1 DEF Journey, Results
  <2>3. Compared(r)'
    BY <1>0, <1>2, <2>1 DEF Compared
  <2>4. CodeDated(r)' /\ SignsForMailbox(r)'
    BY <1>0, <1>2, <2>1 DEF CodeDated, SignsForMailbox
  <2>5. Foresight(r)'
    BY <1>2, <2>1, ForesightStands
  <2>6. RefusedForCause(r)'
    BY <1>3, <2>1 DEF RefusedForCause, Results
  <2> QED
    BY <2>2, <2>3, <2>4, <2>5, <2>6 DEF Stands
<1> QED
  BY <1>1, <1>4, <1>5, <1>6, <1>7, <1>8, <1>9, <1>10 DEF PasswordlessStep

-----------------------------------------------------------------------------
(* The count of a row *)

\* No failure is new: the row counts them still.
LEMMA CountStands ==
    ASSUME PasswordlessInv, PasswordlessTypeOK', Forward, NEW c \in Requests, codes[c] # None,
           Failures(c)' = Failures(c),
           codes'[c] = codes[c] \/ \E q \in Requests : record'[q] = c
    PROVE  CodeCounts(c)'
<1>1. PasswordlessTypeOK /\ CodeCounts(c) /\ RowAdvances(c)
  BY DEF PasswordlessInv, Forward
<1>2. IsFiniteSet(Failures(c)) /\ Cardinality(Failures(c)) <= codes[c].attempts
  BY <1>1 DEF CodeCounts
<1>3. /\ Cardinality(Failures(c)) \in Nat /\ codes[c].attempts \in Nat /\ codes'[c].attempts \in Nat
      /\ codes[c].attempts <= codes'[c].attempts
  BY <1>1, <1>2, FS_CardinalityType DEF PasswordlessTypeOK, CodeRows, RowAdvances
<1>4. Cardinality(Failures(c)) <= codes'[c].attempts
  BY <1>2, <1>3
<1>5. ASSUME codes'[c].consumed \/ codes'[c].attempts # 0
      PROVE  \E q \in Requests : record'[q] = c
  <2>1. CASE codes'[c] = codes[c]
    <3>1. PICK q \in Requests : record[q] = c
      BY <1>1, <1>5, <2>1 DEF CodeCounts
    <3>2. record'[q] = c
      BY <3>1, ServiceAssumption DEF Forward
    <3> QED
      BY <3>2
  <2> QED
    BY <2>1
<1> QED
  BY <1>2, <1>4, <1>5 DEF CodeCounts

\* When only r moves and r is not answered that its guess is wrong, no failure
\* is new.
LEMMA SameFailures ==
    ASSUME PasswordlessInv, NEW r \in Requests, pc[r] \notin {"done", "crashed"},
           \A s \in Requests \ {r} : Bystander(s), NEW c \in Requests,
           record'[r] # c \/ out'[r] # "ErrCodeInvalid"
    PROVE  Failures(c)' = Failures(c)
<1>1. out[r] = None
  BY DEF PasswordlessInv, Journey
<1>2. out[r] # "ErrCodeInvalid"
  BY <1>1, NoneAssumption DEF Results
<1> QED
  BY <1>2 DEF Failures, Bystander

\* Every row goes on counting at least the failures answered.
LEMMA StatementCounts ==
    ASSUME PasswordlessInv, PasswordlessTypeOK', Forward, NEW r \in Requests, PasswordlessStep(r),
           NEW c \in Requests
    PROVE  CodeCounts(c)'
<1>0. /\ PasswordlessTypeOK /\ ServiceTypeOK /\ Journey(r) /\ CodeCounts(c)
      /\ None \notin Results /\ c # None
  BY NoneAssumption, ServiceAssumption DEF PasswordlessInv, PasswordlessTypeOK
<1>1. /\ \A s \in Requests \ {r} : Bystander(s)
      /\ pc[r] \notin {"idle", "done", "crashed"} /\ out[r] = None
  BY <1>0, StatementForward DEF Journey
<1>2. CASE InsertCode(r)
  <2>1. /\ codes[r] = None /\ record' = record /\ codes'[r] # None /\ ~codes'[r].consumed
        /\ codes'[r].attempts = 0 /\ \A d \in Requests \ {r} : codes'[d] = codes[d]
        /\ Goto(r, "code.send") \/ Answer(r, "failure")
    BY <1>0, <1>2, InsertCodeEffect
  <2>2. out'[r] \in {None, "failure"}
    BY <1>0, <1>1, <2>1 DEF Goto, Answer, ServiceTypeOK
  <2>3. Failures(c)' = Failures(c)
    BY <1>0, <1>1, <2>2, SameFailures DEF Results
  <2>4. CASE c = r
    <3>1. Failures(r) = {}
      BY <1>0, <2>1, <2>4 DEF Failures, PasswordlessTypeOK
    <3>2. IsFiniteSet({}) /\ Cardinality({}) = 0
      BY FS_EmptySet
    <3> QED
      BY <2>1, <2>3, <2>4, <3>1, <3>2 DEF CodeCounts
  <2>5. CASE c # r
    <3>1. CASE codes[c] = None
      BY <2>1, <2>5, <3>1 DEF CodeCounts
    <3>2. CASE codes[c] # None
      BY <2>1, <2>3, <2>5, <3>2, CountStands
    <3> QED
      BY <3>1, <3>2
  <2> QED
    BY <2>4, <2>5
<1>3. CASE IncrementAttempts(r) \/ MarkConsumed(r)
  <2>1. /\ record[r] \in Requests /\ codes[record[r]] \in CodeRows /\ record' = record
        /\ \A d \in Requests \ {record[r]} : codes'[d] = codes[d]
        /\ IncrementAttempts(r) => codes'[record[r]].attempts = codes[record[r]].attempts + 1
    BY <1>0, <1>3, UpdateCodeEffect
  <2>2. CASE codes[c] = None
    <3>1. c # record[r]
      BY <2>1, <2>2, CodesAssumption
    <3> QED
      BY <2>1, <2>2, <3>1 DEF CodeCounts
  <2>3. CASE codes[c] # None /\ Failures(c)' = Failures(c)
    BY <2>1, <2>3, CountStands
  <2>4. CASE codes[c] # None /\ Failures(c)' # Failures(c)
    <3>1. c = record[r] /\ out'[r] = "ErrCodeInvalid"
      BY <1>1, <2>1, <2>4, SameFailures
    <3>2. IncrementAttempts(r)
      <4>1. ASSUME MarkConsumed(r) PROVE out'[r] \in {None, "failure"}
        BY <1>0, <1>1, <4>1 DEF MarkConsumed, Goto, Answer, ServiceTypeOK
      <4> QED
        BY <1>0, <1>3, <3>1, <4>1 DEF Results
    <3>3. Failures(c)' = Failures(c) \cup {r}
      BY <1>1, <2>1, <3>1 DEF Failures, Bystander
    <3>4. IsFiniteSet(Failures(c)) /\ Cardinality(Failures(c)) <= codes[c].attempts
      BY <1>0, <2>4 DEF CodeCounts
    <3>5. r \notin Failures(c)
      BY <1>0, <1>1 DEF Failures, Results
    <3>6. /\ IsFiniteSet(Failures(c) \cup {r})
          /\ Cardinality(Failures(c) \cup {r}) = Cardinality(Failures(c)) + 1
          /\ Cardinality(Failures(c)) \in Nat
      BY <3>4, <3>5, FS_AddElement, FS_CardinalityType
    <3>7. codes[c].attempts \in Nat
      BY <2>1, <3>1 DEF CodeRows
    <3>8. Cardinality(Failures(c) \cup {r}) <= codes'[c].attempts
      BY <2>1, <3>1, <3>2, <3>4, <3>6, <3>7
    <3>9. \E q \in Requests : record'[q] = c
      BY <2>1, <3>1
    <3> QED
      BY <3>3, <3>6, <3>8, <3>9 DEF CodeCounts
  <2> QED
    BY <2>2, <2>3, <2>4
<1>4. CASE /\ UNCHANGED codes
           /\ record'[r] # c \/ out'[r] # "ErrCodeInvalid"
  <2>1. Failures(c)' = Failures(c)
    BY <1>1, <1>4, SameFailures
  <2>2. CASE codes[c] = None
    BY <1>4, <2>2 DEF CodeCounts
  <2>3. CASE codes[c] # None
    BY <1>4, <2>1, <2>3, CountStands
  <2> QED
    BY <2>2, <2>3
<1>5. CASE VerifyFind(r)
  <2>1. record[r] = None
    BY <1>0, <1>5 DEF VerifyFind, Journey
  <2>2. UNCHANGED codes /\ (UNCHANGED record \/ UNCHANGED out)
    BY <1>5 DEF VerifyFind, Goto
  <2> QED
    BY <1>0, <1>1, <1>4, <2>1, <2>2 DEF Results
<1>6. CASE SendVerificationCode(r)
  <2>1. UNCHANGED codes /\ out'[r] \in {"ok", "failure"}
    BY <1>0, <1>6 DEF SendVerificationCode, Answer, ServiceTypeOK
  <2> QED
    BY <1>4, <2>1
<1>7. CASE VerifyFindUser(r) \/ VerifyInsertUser(r)
  <2>1. UNCHANGED codes /\ out'[r] \in {None, "failure"}
    BY <1>0, <1>1, <1>7 DEF VerifyFindUser, VerifyInsertUser, FindUser, InsertUser, Goto, Answer,
       ServiceTypeOK, codeVars
  <2> QED
    BY <1>0, <1>4, <2>1 DEF Results
<1>8. CASE (Issue(r) \/ StatementFails(r)) /\ UNCHANGED codeVars
  <2>1. UNCHANGED codes /\ out'[r] \in {"ok", "failure"}
    BY <1>0, <1>8 DEF Issue, StatementFails, Answer, ServiceTypeOK, codeVars
  <2> QED
    BY <1>4, <2>1
<1> QED
  BY <1>2, <1>3, <1>5, <1>6, <1>7, <1>8 DEF PasswordlessStep

-----------------------------------------------------------------------------
(* The invariant is inductive *)

\* The tables start without codes and tokens, and no request has arrived.
LEMMA PasswordlessInvInit == PasswordlessInit => PasswordlessInv
<1> SUFFICES ASSUME PasswordlessInit PROVE PasswordlessInv
  OBVIOUS
<1>1. PICK hash \in [Seeds -> Secrets \cup {None}] :
         users = [u \in UserIDs |->
                     IF u \in Seeds THEN NewUser([box |-> u, lower |-> TRUE], hash[u]) ELSE None]
  BY DEF PasswordlessInit, ServiceInit
<1>2. \A u \in Seeds : NewUser([box |-> u, lower |-> TRUE], hash[u]) \in UserRows
  BY ServiceAssumption DEF NewUser, UserRows, Emails, RoleLists
<1>3. users \in [UserIDs -> UserRows \cup {None}]
  <2> HIDE DEF NewUser
  <2> QED
    BY <1>1, <1>2
<1>4. \A r \in Requests : users[r] = None
  BY <1>1, ServiceAssumption DEF UserIDs
<1>5. ServiceTypeOK
  BY <1>3 DEF PasswordlessInit, ServiceInit, ServiceTypeOK, Statements
<1>6. /\ PasswordlessTypeOK /\ BodiesTyped
  BY <1>5 DEF PasswordlessInit, ServiceInit, PasswordlessTypeOK, BodiesTyped
<1>7. ASSUME NEW r \in Requests
      PROVE  /\ pc[r] = "idle" /\ op[r] = None /\ out[r] = None /\ loaded[r] = None
             /\ codes[r] = None /\ record[r] = None /\ refreshTokens[r] = None
             /\ before[r] = {} /\ at[r] = 0 /\ now = 0
  BY DEF PasswordlessInit, ServiceInit
<1>8. None \notin Routes
  BY NoneAssumption
<1>9. ASSUME NEW r \in Requests
      PROVE  /\ Journey(r) /\ CodeDated(r) /\ Compared(r) /\ SignsForMailbox(r) /\ CodeCounts(r)
             /\ Foresight(r) /\ RefusedForCause(r)
  BY <1>4, <1>7, <1>8 DEF Journey, CodeDated, Compared, SignsForMailbox, CodeCounts, Foresight,
     RefusedForCause, Routes
<1> QED
  BY <1>6, <1>9 DEF PasswordlessInv

\* Every step keeps it.
LEMMA PasswordlessInvStep ==
    PasswordlessInv /\ [PasswordlessNext]_passwordlessVars => PasswordlessInv'
<1> SUFFICES ASSUME PasswordlessInv, [PasswordlessNext]_passwordlessVars PROVE PasswordlessInv'
  OBVIOUS
<1>0. PasswordlessTypeOK /\ BodiesTyped
  BY DEF PasswordlessInv
<1>1. ASSUME NEW r \in Requests,
             (ArriveMalformed(r) /\ UNCHANGED codeVars) \/ PasswordlessArrive(r)
      PROVE  PasswordlessInv'
  <2>1. /\ PasswordlessTypeOK' /\ BodiesTyped' /\ Forward
        /\ \A s \in Requests \ {r} : Bystander(s)
    BY <1>1, ArrivalForward
  <2>2. \A s \in Requests : Stands(s)'
    BY <1>1, <2>1, ArrivalStands, BystanderStands DEF Stands
  <2>3. pc[r] = "idle" /\ UNCHANGED <<codes, record>>
    BY <1>0, <1>1, ArrivalEffect DEF PasswordlessTypeOK
  <2>4. record[r] = None
    BY <2>3 DEF PasswordlessInv, Journey
  <2>5. ASSUME NEW c \in Requests PROVE CodeCounts(c)'
    <3>1. Failures(c)' = Failures(c)
      BY <2>1, <2>3, <2>4, SameFailures, ServiceAssumption
    <3>2. CASE codes[c] = None
      BY <2>3, <3>2 DEF CodeCounts
    <3>3. CASE codes[c] # None
      BY <2>1, <2>3, <3>1, <3>3, CountStands
    <3> QED
      BY <3>2, <3>3
  <2> QED
    BY <2>1, <2>2, <2>5 DEF PasswordlessInv, Stands
<1>2. ASSUME NEW r \in Requests, PasswordlessStep(r) PROVE PasswordlessInv'
  <2>1. /\ PasswordlessTypeOK' /\ Forward /\ UNCHANGED arg
        /\ \A s \in Requests \ {r} : Bystander(s)
    BY <1>2, StatementForward
  <2>2. BodiesTyped'
    BY <1>0, <2>1 DEF BodiesTyped
  <2>3. \A s \in Requests : Stands(s)'
    BY <1>2, <2>1, StatementStands, BystanderStands DEF Stands
  <2>4. \A c \in Requests : CodeCounts(c)'
    BY <1>2, <2>1, StatementCounts
  <2> QED
    BY <2>1, <2>2, <2>3, <2>4 DEF PasswordlessInv, Stands
<1>3. ASSUME ((Crash \/ Tick) /\ UNCHANGED codeVars) \/ UNCHANGED passwordlessVars
      PROVE  PasswordlessInv'
  <2>1. /\ PasswordlessTypeOK' /\ BodiesTyped' /\ Forward
        /\ \A s \in Requests : Bystander(s)
        /\ UNCHANGED <<codes, record, out>>
    BY <1>3, OtherForward
  <2>2. \A s \in Requests : Stands(s)'
    BY <2>1, BystanderStands DEF Stands
  <2>3. ASSUME NEW c \in Requests PROVE CodeCounts(c)'
    <3>1. Failures(c)' = Failures(c)
      BY <2>1 DEF Failures
    <3>2. CASE codes[c] = None
      BY <2>1, <3>2 DEF CodeCounts
    <3>3. CASE codes[c] # None
      BY <2>1, <3>1, <3>3, CountStands
    <3> QED
      BY <3>2, <3>3
  <2> QED
    BY <2>1, <2>2, <2>3 DEF PasswordlessInv, Stands
<1>4. Quiescent /\ UNCHANGED codeVars => UNCHANGED passwordlessVars
  BY DEF Quiescent, passwordlessVars
<1> QED
  BY <1>1, <1>2, <1>3, <1>4 DEF PasswordlessNext

\* So it holds in every reachable state.
LEMMA PasswordlessInvHolds == PasswordlessSpec => []PasswordlessInv
  BY PasswordlessInvInit, PasswordlessInvStep, PTL DEF PasswordlessSpec

-----------------------------------------------------------------------------
(* Theorems *)

\* Types, and what a request has established at each statement of
\* request_code.go and verify_code.go.
THEOREM PasswordlessTypes == PasswordlessSpec => []PasswordlessTypeOK
<1>1. PasswordlessInv => PasswordlessTypeOK
  BY DEF PasswordlessInv
<1> QED
  BY <1>1, PasswordlessInvHolds, PTL

\* However many verifications run at once, none compares a guess with a code once
\* maxVerificationAttempts failures on it had been answered when it arrived:
\* attempts = attempts + 1 is one statement, and loses no failure.
THEOREM LockoutIsSound == PasswordlessSpec => []LockoutHolds
<1>1. PasswordlessInv => LockoutHolds
  BY DEF PasswordlessInv, Foresight, LockoutHolds
<1> QED
  BY <1>1, PasswordlessInvHolds, PTL

\* A code that was redeemed for a token row before a request arrived is never
\* tried by that request: MarkConsumed comes before the tokens and is kept.
THEOREM RedeemedCodesStayRefused == PasswordlessSpec => []RedeemedCodeRefusedLater
<1>1. PasswordlessInv => RedeemedCodeRefusedLater
  BY DEF PasswordlessInv, Foresight, RedeemedCodeRefusedLater
<1> QED
  BY <1>1, PasswordlessInvHolds, PTL

\* FindLatestByEmail never returns a code older than one whose request had been
\* answered when the verification arrived.
THEOREM NewCodesRetireOldOnes == PasswordlessSpec => []SupersededCodeRefused
<1>1. ASSUME PasswordlessInv, NEW v \in Requests, NEW p \in before[v], record[v] # None,
             op[p] = "request_code", out[p] = "ok", arg[p].email.box = arg[v].email.box
      PROVE  codes[p].createdAt <= codes[record[v]].createdAt
  <2>1. p \in Requests /\ Foresight(v)
    BY <1>1 DEF PasswordlessInv, PasswordlessTypeOK, ServiceTypeOK
  <2>2. codes[p] # None
    BY <1>1, <2>1 DEF PasswordlessInv, Journey
  <2>3. codes[p].email.box = arg[v].email.box
    BY <1>1, <2>1, <2>2, RowAbout
  <2> QED
    BY <1>1, <2>1, <2>2, <2>3 DEF Foresight
<1>2. PasswordlessInv => SupersededCodeRefused
  BY <1>1 DEF SupersededCodeRefused
<1> QED
  BY <1>2, PasswordlessInvHolds, PTL

\* Who types the code that was mailed, in time, is not answered 401 unless another
\* verification has tried it or a newer code was asked for: an older request whose
\* row comes late does not hide it.
THEOREM MailedCodesWork == PasswordlessSpec => []MailedCodeAccepted
<1>1. ASSUME PasswordlessInv, NEW v \in Requests, NEW p \in Requests,
             Refused(v), p \in mailed \cap before[v],
             arg[v].email.box = codes[p].email.box, arg[v].code = codes[p].code
      PROVE  \/ now > codes[p].expiresAt
             \/ \E q \in Requests \ {v} : record[q] = p
             \/ AskedSince(p) # {}
  <2>1. Journey(v) /\ RefusedForCause(v)
    BY <1>1 DEF PasswordlessInv
  <2>2. /\ op[v] = "verify_code" /\ out[v] # None /\ VerifyCodeStatus[out[v]] = 401
    BY <1>1, <2>1 DEF Refused, Journey
  <2>3. out[v] \in {"ok", "malformed", "ErrCodeInvalid", "ErrTooManyAttempts", "failure"}
    BY <2>1, <2>2 DEF Journey
  <2>4. out[v] \in {"ErrCodeInvalid", "ErrTooManyAttempts"}
    BY <2>2, <2>3 DEF VerifyCodeStatus
  <2> QED
    BY <1>1, <2>1, <2>2, <2>4 DEF RefusedForCause
<1>2. PasswordlessInv => MailedCodeAccepted
  BY <1>1 DEF MailedCodeAccepted
<1> QED
  BY <1>2, PasswordlessInvHolds, PTL

\* A pair is issued only to a verification that brought the right code in time,
\* for the account of the mailbox, and only after the code was consumed.
THEOREM TokensNeedTheCode == PasswordlessSpec => []TokensOnlyForRedeemedCode
<1>1. ASSUME PasswordlessInv, NEW v \in Requests, refreshTokens[v] # None
      PROVE  LET row == codes[record[v]]
             IN  /\ row.consumed
                 /\ row.code = arg[v].code
                 /\ at[v] <= row.expiresAt
                 /\ row.email.box = arg[v].email.box
                 /\ users[refreshTokens[v].user].email = row.email
  <2>1. Journey(v) /\ Compared(v) /\ SignsForMailbox(v)
    BY <1>1 DEF PasswordlessInv
  <2>2. record[v] # None
    BY <1>1, <2>1 DEF Journey
  <2>3. codes[record[v]].email.box = arg[v].email.box
    BY <1>1, <2>2, HolderAbout
  <2> QED
    BY <1>1, <2>1, <2>2, <2>3 DEF Compared, SignsForMailbox
<1>2. PasswordlessInv => TokensOnlyForRedeemedCode
  BY <1>1 DEF TokensOnlyForRedeemedCode
<1> QED
  BY <1>2, PasswordlessInvHolds, PTL
=============================================================================
