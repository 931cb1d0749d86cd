---------------------------- MODULE GoogleSignIn ----------------------------
(***************************************************************************)
(* Signing in with Google: GET /auth/oauth/google/start sends the browser  *)
(* to Google with a signed state, POST /auth/oauth/google/callback trades  *)
(* the authorization code that came back with the state for the identity   *)
(* of the user, finds or creates the account and issues a token pair.      *)
(*                                                                         *)
(* A state is named after the request that signed it: nobody else can make *)
(* one, and the service stores none. The target of the final redirect      *)
(* travels inside the state and is left out.                               *)
(***************************************************************************)
EXTENDS Service

CONSTANTS
    AuthCodes,       \* the authorization codes Google may give
    oauthStateTTL    \* a duration, in ticks

\* What Google keeps of a consent.
Grants == [email : Emails, verified : BOOLEAN, spentBy : Requests \cup {None}]

ASSUME GoogleAssumption ==
    /\ None \notin AuthCodes \cup Grants
    /\ oauthStateTTL \in Nat

VARIABLE
    grants    \* Google: authorization code -> the consent it stands for

GoogleOps == {"google_start", "google_callback"}

-----------------------------------------------------------------------------
(* StartGoogleOAuth and the state *)

\* The claim of the state signed by request s: when, in whole seconds.
IssuedAtClaim(s) == Unix(at[s])

\* The states clients hold.
HeldStates == {s \in Requests : op[s] = "google_start" /\ out[s] = "ok"}

\* The use case sends no statement; drawing the nonce may fail.
ArriveGoogleStart(r) ==
    /\ Arrive(r, "google_start", None)
    /\ Answer(r, "ok") \/ Answer(r, "failure")
    /\ UNCHANGED <<now, tables, loaded, grants>>

\* Mutant: the age is counted with the wrong comparison.
verify_Early(s) == s # None /\ now + TicksPerSecond <= IssuedAtClaim(s) + oauthStateTTL

\* oauthStateSigner.verify: the signature is the service's own (None: it is
\* not) and the state has not expired. The nonce is not looked at.
verify(s) == s # None /\ now <= IssuedAtClaim(s) + oauthStateTTL

-----------------------------------------------------------------------------
(* Google *)

\* At the end of an authorize URL a user consents, and the browser comes back
\* with a fresh code.
Consent(code) ==
    /\ HeldStates # {}
    /\ grants[code] = None
    /\ \E email \in Typed, verified \in BOOLEAN :
           grants' = [grants EXCEPT ![code] =
               [email |-> email, verified |-> verified, spentBy |-> None]]
    /\ UNCHANGED serviceVars

\* The codes clients hold.
HeldCodes == {code \in AuthCodes : grants[code] # None}

-----------------------------------------------------------------------------
(* CompleteGoogleOAuth *)

\* Mutant: the state is not verified before the exchange.
ArriveGoogleCallback_NoState(r) ==
    /\ \E s \in HeldStates \cup {None}, code \in HeldCodes \cup {None} :
           Arrive(r, "google_callback", [state |-> s, code |-> code])
    /\ Goto(r, "google.exchange")
    /\ UNCHANGED <<now, tables, loaded, grants>>

\* Any state with any code, perhaps once more; None is one that the service,
\* or Google, never gave.
ArriveGoogleCallback(r) ==
    /\ \E s \in HeldStates \cup {None}, code \in HeldCodes \cup {None} :
           /\ Arrive(r, "google_callback", [state |-> s, code |-> code])
           /\ \/ verify(s) /\ Goto(r, "google.exchange")
              \/ ~verify(s) /\ Answer(r, "ErrOAuthStateInvalid")
    /\ UNCHANGED <<now, tables, loaded, grants>>

\* Mutant: the status of Google's answer is not looked at.
ExchangeCodeForToken_StatusIgnored(r) ==
    /\ pc[r] = "google.exchange"
    /\ Goto(r, "google.userinfo")
    /\ UNCHANGED <<now, tables, request, loaded, grants>>

\* POST to the token endpoint. Google gives a token for a code once; its
\* answer may be lost or come after the ten seconds of the HTTP client.
ExchangeCodeForToken(r) ==
    LET code == arg[r].code
    IN  /\ pc[r] = "google.exchange"
        /\ \/ /\ code # None
              /\ grants[code].spentBy = None
              /\ grants' = [grants EXCEPT ![code].spentBy = r]
              /\ Goto(r, "google.userinfo") \/ Answer(r, "failure")
           \/ /\ code # None => grants[code].spentBy # None
              /\ Answer(r, "failure")
              /\ UNCHANGED grants
        /\ UNCHANGED <<now, tables, request, loaded>>

\* Mutant: email_verified is not looked at.
FetchUserinfo_TrustsAddress(r) ==
    /\ pc[r] = "google.userinfo"
    /\ Goto(r, "google.user")
    /\ UNCHANGED <<now, tables, request, loaded, grants>>

\* GET of the userinfo endpoint, and the check of what it says.
FetchUserinfo(r) ==
    /\ pc[r] = "google.userinfo"
    /\ \/ grants[arg[r].code].verified /\ Goto(r, "google.user")
       \/ ~grants[arg[r].code].verified /\ Answer(r, "ErrOAuthEmailNotVerified")
    /\ UNCHANGED <<now, tables, request, loaded, grants>>

\* The address Google vouches for, as the use case stores and looks it up.
IdentityOf(r) == normalizeEmail(grants[arg[r].code].email)

GoogleFindUser(r) ==
    /\ pc[r] = "google.user"
    /\ FindUser(r, IdentityOf(r), "google.insert")
    /\ UNCHANGED grants

GoogleInsertUser(r) ==
    /\ pc[r] = "google.insert"
    /\ InsertUser(r, IdentityOf(r))
    /\ UNCHANGED grants

GoogleCallbackStatus ==
    [ok |-> 200, malformed |-> 400, ErrOAuthStateInvalid |-> 400,
     ErrOAuthEmailNotVerified |-> 401, failure |-> 500]

-----------------------------------------------------------------------------
(* What AuthService composes with the other components *)

GoogleInit == ServiceInit /\ grants = [code \in AuthCodes |-> None]

GoogleArrive(r) == ArriveGoogleStart(r) \/ ArriveGoogleCallback(r)

GoogleStep(r) ==
    \/ ExchangeCodeForToken(r)
    \/ FetchUserinfo(r)
    \/ GoogleFindUser(r)
    \/ GoogleInsertUser(r)
    \/ Issue(r) /\ UNCHANGED grants
    \/ StatementFails(r) /\ UNCHANGED grants

-----------------------------------------------------------------------------
(* Properties *)

\* Types, and what a callback has established at each statement: past the
\* exchange the code is its own and nobody else's, past the identity the address
\* is verified, and tokens are signed only for a user in memory
\* (complete_google_oauth.go).
GoogleTypeOK ==
    /\ ServiceTypeOK
    /\ grants \in [AuthCodes -> Grants \cup {None}]
    /\ \A r \in Requests :
          /\ pc[r] = "google.exchange" => arg[r].code \in HeldCodes \cup {None}
          /\ pc[r] \in {"google.userinfo", "google.user", "google.insert"} =>
                arg[r].code \in HeldCodes /\ grants[arg[r].code].spentBy = r
          /\ pc[r] \in {"google.user", "google.insert"} => grants[arg[r].code].verified
          /\ pc[r] = "issue" => loaded[r] # None

\* A code is spent at Google only on behalf of a callback that presented it with
\* a state of the service, not older than oauthStateTTL: a callback that is going
\* to be refused for its state never costs the user the code
\* (complete_google_oauth.go, verify before Exchange).
StateGatesExchange ==
    \A code \in HeldCodes : LET r == grants[code].spentBy IN r # None =>
        /\ arg[r].code = code
        /\ arg[r].state \in HeldStates
        /\ at[r] <= at[arg[r].state] + oauthStateTTL

\* A pair is issued only to the callback that spent the code, for the account of
\* the address that Google has verified, whoever created that account meanwhile;
\* one consent opens at most one session (complete_google_oauth.go).
GoogleSessionOwner ==
    \A r \in Requests : op[r] = "google_callback" /\ refreshTokens[r] # None =>
        LET grant == grants[arg[r].code]
        IN  /\ grant.spentBy = r
            /\ grant.verified
            /\ users[refreshTokens[r].user].email.box = grant.email.box

\* A callback is turned down only for cause: 400 for a body or a state that is
\* not the service's, or one as old as oauthStateTTL less the second that the
\* claim drops; 401 for an address that Google has not verified
\* (google_oauth_handler.go).
GoogleRefusalJustified ==
    \A r \in Requests : pc[r] = "done" /\ op[r] = "google_callback" =>
        /\ GoogleCallbackStatus[out[r]] = 400 =>
              \/ arg[r] = None
              \/ arg[r].state = None
              \/ at[r] + TicksPerSecond > at[arg[r].state] + oauthStateTTL
        /\ GoogleCallbackStatus[out[r]] = 401 => ~grants[arg[r].code].verified

-----------------------------------------------------------------------------
(* What the repository says and the code does not do *)

\* "state must include a fresh nonce each time, or it'd be replayable"
\* (start_google_oauth_test.go): a state completes one sign-in.
StateUsedOnce ==
    \A r, q \in Requests :
        /\ op[r] = "google_callback" /\ out[r] = "ok"
        /\ op[q] = "google_callback" /\ out[q] = "ok"
        /\ arg[r].state = arg[q].state
        => r = q
=============================================================================
