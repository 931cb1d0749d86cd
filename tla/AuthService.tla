----------------------------- MODULE AuthService -----------------------------
(***************************************************************************)
(* The whole service: the routes of all components over the same tables.   *)
(***************************************************************************)
EXTENDS Sessions, Passwordless, GoogleSignIn, Accounts

authVars == <<serviceVars, codeVars, grants, report>>

AuthInit ==
    /\ PasswordlessInit
    /\ GoogleInit
    /\ AccountsInit

\* SessionArrive also takes the malformed bodies of every route.
AuthArrive(r) ==
    \/ SessionArrive(r) /\ UNCHANGED <<codeVars, grants, report>>
    \/ PasswordlessArrive(r) /\ UNCHANGED <<grants, report>>
    \/ GoogleArrive(r) /\ UNCHANGED <<codeVars, report>>
    \/ AccountsArrive(r) /\ UNCHANGED <<codeVars, grants>>

AuthStep(r) ==
    \/ op[r] \in SessionOps /\ SessionStep(r) /\ UNCHANGED <<codeVars, grants, report>>
    \/ op[r] \in PasswordlessOps /\ PasswordlessStep(r) /\ UNCHANGED <<grants, report>>
    \/ op[r] \in GoogleOps /\ GoogleStep(r) /\ UNCHANGED <<codeVars, report>>
    \/ op[r] \in AccountOps /\ AccountsStep(r) /\ UNCHANGED <<codeVars, grants>>

AuthNext ==
    \/ \E r \in Requests : AuthArrive(r) \/ AuthStep(r)
    \/ \E code \in AuthCodes : Consent(code) /\ UNCHANGED <<codeVars, report>>
    \/ Crash /\ UNCHANGED <<codeVars, grants, report>>
    \/ Tick /\ UNCHANGED <<codeVars, grants, report>>
    \/ Quiescent /\ UNCHANGED <<codeVars, grants, report>>

AuthSpec == AuthInit /\ [][AuthNext]_authVars

-----------------------------------------------------------------------------
(* Properties *)

\* The mailbox whose control the opener of a session has shown: by a password,
\* by the code mailed to it, or by Google's word.
ProvenMailbox(r) ==
    IF op[r] = "google_callback" THEN grants[arg[r].code].email.box ELSE arg[r].email.box

\* Whichever way a session was opened, and whoever created the account while it
\* was, the session is of the account of the mailbox that was proven, and every
\* rotation stays with it (login.go, verify_code.go, complete_google_oauth.go,
\* refresh.go).
SessionOwnerProven ==
    \A r \in Requests : refreshTokens[r] # None =>
        IF op[r] = "refresh"
        THEN refreshTokens[r].user = refreshTokens[arg[r]].user
        ELSE users[refreshTokens[r].user].email.box = ProvenMailbox(r)

\* No step of any route removes an account, gives it another address or another
\* password, or takes a role from it: four paths write the table users
\* (user_repository.go).
AccountsPersist ==
    [][\A u \in UserIDs : users[u] # None =>
          /\ users'[u] # None
          /\ users'[u].email = users[u].email
          /\ users'[u].passwordHash = users[u].passwordHash
          /\ \A i \in DOMAIN users[u].roles : users'[u].roles[i] = users[u].roles[i]]_authVars
=============================================================================
