------------------------------- MODULE Server -------------------------------
(***************************************************************************)
(* The life of the process: run() of cmd/auth-service connects to the      *)
(* database, loads the key pair, starts the HTTP server in a goroutine and *)
(* waits for a signal or for the server to fail. On a signal it drains the *)
(* requests in progress for at most shutdownTimeout; its deferred calls    *)
(* then close the database. The process may be started again, and may be   *)
(* killed at any moment.                                                   *)
(*                                                                         *)
(* What a request does is modelled by the other modules. Here it ends when *)
(* it pleases, or never: nothing in the code sets a limit to it.           *)
(***************************************************************************)
EXTENDS KeyPair

CONSTANTS
    Requests,
    shutdownTimeout,   \* in ticks
    MaxLosses          \* bound on the key files lost

ASSUME ServerAssumption ==
    /\ shutdownTimeout \in Nat
    /\ MaxLosses \in Nat

VARIABLES
    phase,       \* where the main goroutine is in run()
    signalled,   \* ctx.Done() of signal.NotifyContext
    listener,    \* the goroutine of ListenAndServe
    serverErr,   \* its error is in the channel
    elapsed,     \* how long Shutdown has waited
    dbOpen,      \* the connection pool
    state,       \* of each request
    exit,        \* the exit code of the last process
    issued,      \* history: the keys that signed an answered token
    lost         \* history: the key files lost, in order

serverVars == <<keyVars, phase, signalled, listener, serverErr, elapsed, dbOpen,
                state, exit, issued, lost>>

lifeVars == <<signalled, listener, serverErr, elapsed, dbOpen, state, exit, issued, lost>>

Phases == {"down", "connect", "keys", "select", "drain", "close", "flush"}

Active(r) == state[r] = "active"

-----------------------------------------------------------------------------
(* Start-up *)

Start ==
    /\ phase = "down"
    /\ drawn # Keys
    /\ phase' = "connect"
    /\ signalled' = FALSE
    /\ listener' = "none"
    /\ serverErr' = FALSE
    /\ elapsed' = 0
    /\ exit' = None
    /\ ForgetKey("idle")
    /\ UNCHANGED <<dbOpen, state, issued, lost>>

\* The configuration, the tracing or the database is not there: run returns
\* the error. The ping does not outlast a signal.
ConnectFails ==
    /\ phase = "connect"
    /\ exit' = 1
    /\ phase' = "flush"
    /\ UNCHANGED <<keyVars, signalled, listener, serverErr, elapsed, dbOpen, state, issued, lost>>

Connect ==
    /\ phase = "connect"
    /\ ~signalled
    /\ dbOpen' = TRUE
    /\ phase' = "keys"
    /\ ForgetKey("check")
    /\ UNCHANGED <<signalled, listener, serverErr, elapsed, state, exit, issued, lost>>

LoadKeys == phase = "keys" /\ LoadOrGenerateKeyPair /\ UNCHANGED <<phase, lifeVars>>

KeysFail ==
    /\ phase = "keys"
    /\ keyStep \in {"unreadable", "error"}
    /\ exit' = 1
    /\ phase' = "close"
    /\ UNCHANGED <<keyVars, signalled, listener, serverErr, elapsed, dbOpen, state, issued, lost>>

\* go server.ListenAndServe(); the main goroutine goes on to the select.
Serve ==
    /\ phase = "keys"
    /\ keyStep = "ok"
    /\ listener' = "starting"
    /\ phase' = "select"
    /\ UNCHANGED <<keyVars, signalled, serverErr, elapsed, dbOpen, state, exit, issued, lost>>

-----------------------------------------------------------------------------
(* The goroutine of the HTTP server *)

\* The port may be taken; and after Shutdown the call returns at once with
\* ErrServerClosed, which is no error.
Listen ==
    /\ listener = "starting"
    /\ \/ phase = "select" /\ listener' = "open" /\ UNCHANGED serverErr
       \/ phase = "select" /\ listener' = "closed" /\ serverErr' = TRUE
       \/ phase # "select" /\ listener' = "closed" /\ UNCHANGED serverErr
    /\ UNCHANGED <<keyVars, phase, signalled, elapsed, dbOpen, state, exit, issued, lost>>

\* Accept returns an error that is not temporary.
AcceptFails ==
    /\ listener = "open"
    /\ listener' = "closed"
    /\ serverErr' = TRUE
    /\ UNCHANGED <<keyVars, phase, signalled, elapsed, dbOpen, state, exit, issued, lost>>

Accept(r) ==
    /\ listener = "open"
    /\ state[r] = "idle"
    /\ state' = [state EXCEPT ![r] = "active"]
    /\ UNCHANGED <<keyVars, phase, signalled, listener, serverErr, elapsed, dbOpen, exit, issued, lost>>

\* A request in progress ends: with a token signed by the key of the process, or,
\* once the database is closed, with the error of its next statement.
Respond(r) ==
    /\ Active(r)
    /\ \/ /\ dbOpen
          /\ state' = [state EXCEPT ![r] = "answered"]
          /\ issued' = issued \cup {key}
       \/ /\ ~dbOpen
          /\ state' = [state EXCEPT ![r] = "failed"]
          /\ UNCHANGED issued
    /\ UNCHANGED <<keyVars, phase, signalled, listener, serverErr, elapsed, dbOpen, exit, lost>>

-----------------------------------------------------------------------------
(* Shutdown *)

\* SIGINT or SIGTERM, taken by NotifyContext; a second one changes nothing.
Signal ==
    /\ phase # "down"
    /\ ~signalled
    /\ signalled' = TRUE
    /\ UNCHANGED <<keyVars, phase, listener, serverErr, elapsed, dbOpen, state, exit, issued, lost>>

\* Mutant: the listener stays open while the requests are drained.
SelectSignal_KeepsListening ==
    /\ phase = "select"
    /\ signalled
    /\ phase' = "drain"
    /\ UNCHANGED <<keyVars, signalled, listener, serverErr, elapsed, dbOpen, state, exit, issued, lost>>

\* case <-ctx.Done(): Shutdown closes the listener first.
SelectSignal ==
    /\ phase = "select"
    /\ signalled
    /\ listener' = IF listener = "open" THEN "closed" ELSE listener
    /\ phase' = "drain"
    /\ UNCHANGED <<keyVars, signalled, serverErr, elapsed, dbOpen, state, exit, issued, lost>>

\* case err := <-serverErr: run returns, whoever is in progress.
SelectError ==
    /\ phase = "select"
    /\ serverErr
    /\ exit' = 1
    /\ phase' = "close"
    /\ UNCHANGED <<keyVars, signalled, listener, serverErr, elapsed, dbOpen, state, issued, lost>>

Drained ==
    /\ phase = "drain"
    /\ \A r \in Requests : ~Active(r)
    /\ exit' = 0
    /\ phase' = "close"
    /\ UNCHANGED <<keyVars, signalled, listener, serverErr, elapsed, dbOpen, state, issued, lost>>

Tick ==
    /\ phase = "drain"
    /\ elapsed < shutdownTimeout
    /\ elapsed' = elapsed + 1
    /\ UNCHANGED <<keyVars, phase, signalled, listener, serverErr, dbOpen, state, exit, issued, lost>>

\* Mutant: Shutdown is given a context without deadline.
DrainTimesOut_Never == FALSE /\ UNCHANGED serverVars

\* Mutant: the deadline of a context that is already over.
DrainTimesOut_Early ==
    /\ phase = "drain"
    /\ exit' = 1
    /\ phase' = "close"
    /\ UNCHANGED <<keyVars, signalled, listener, serverErr, elapsed, dbOpen, state, issued, lost>>

\* Shutdown returns the error of its context, and so does run.
DrainTimesOut ==
    /\ phase = "drain"
    /\ elapsed = shutdownTimeout
    /\ exit' = 1
    /\ phase' = "close"
    /\ UNCHANGED <<keyVars, signalled, listener, serverErr, elapsed, dbOpen, state, issued, lost>>

\* defer sqlDB.Close()
CloseDB ==
    /\ phase = "close"
    /\ dbOpen' = FALSE
    /\ phase' = "flush"
    /\ UNCHANGED <<keyVars, signalled, listener, serverErr, elapsed, state, exit, issued, lost>>

\* What the end of the process does to its requests, its socket and its memory.
Die ==
    /\ phase' = "down"
    /\ dbOpen' = FALSE
    /\ listener' = "none"
    /\ state' = [r \in Requests |-> IF Active(r) THEN "cut" ELSE state[r]]
    /\ ForgetKey("idle")
    /\ UNCHANGED <<signalled, serverErr, elapsed, issued, lost>>

\* The deferred shutdown of the tracing, in five seconds at most, then the exit.
Exit ==
    /\ phase = "flush"
    /\ Die
    /\ UNCHANGED exit

\* SIGKILL, or the machine goes down.
Kill ==
    /\ phase # "down"
    /\ Die
    /\ exit' = 137

\* A key file is lost, whether or not the process runs.
Lose(f) ==
    /\ Len(lost) < MaxLosses
    /\ LoseFile(f)
    /\ lost' = Append(lost, f)
    /\ UNCHANGED <<phase, signalled, listener, serverErr, elapsed, dbOpen, state, exit, issued>>

\* The process is down and there is no fresh key left: the instance ends.
Exhausted ==
    /\ phase = "down"
    /\ drawn = Keys
    /\ UNCHANGED serverVars

-----------------------------------------------------------------------------
(* Specification *)

ServerInit ==
    /\ KeyInit
    /\ phase = "down"
    /\ signalled = FALSE
    /\ listener = "none"
    /\ serverErr = FALSE
    /\ elapsed = 0
    /\ dbOpen = FALSE
    /\ state = [r \in Requests |-> "idle"]
    /\ exit = None
    /\ issued = {}
    /\ lost = <<>>

\* The steps of the main goroutine.
Main ==
    \/ ConnectFails
    \/ Connect
    \/ LoadKeys
    \/ KeysFail
    \/ Serve
    \/ SelectSignal
    \/ SelectError
    \/ Drained
    \/ DrainTimesOut
    \/ CloseDB
    \/ Exit

ServerNext ==
    \/ Start
    \/ Main
    \/ Listen
    \/ AcceptFails
    \/ \E r \in Requests : Accept(r) \/ Respond(r)
    \/ Signal
    \/ Tick
    \/ Kill
    \/ \E f \in Files : Lose(f)
    \/ Exhausted

ServerSpec == ServerInit /\ [][ServerNext]_serverVars

\* The main goroutine is scheduled, its calls return and time passes. Nothing is
\* assumed of the requests.
ServerFairSpec == ServerSpec /\ WF_serverVars(Main) /\ WF_serverVars(Tick)

-----------------------------------------------------------------------------
(* Properties *)

\* Types; requests are accepted only while run() waits in its select, with the
\* database open and a key in memory: not before, and not once a signal has been
\* taken, although the server runs in a goroutine of its own (main.go).
ServerTypeOK ==
    /\ KeyTypeOK
    /\ phase \in Phases
    /\ signalled \in BOOLEAN
    /\ listener \in {"none", "starting", "open", "closed"}
    /\ serverErr \in BOOLEAN
    /\ elapsed \in 0 .. shutdownTimeout
    /\ dbOpen \in BOOLEAN
    /\ state \in [Requests -> {"idle", "active", "answered", "failed", "cut"}]
    /\ exit \in {0, 1, 137, None}
    /\ issued \subseteq drawn
    /\ lost \in Seq(Files)
    /\ listener = "open" => phase = "select" /\ dbOpen /\ key \in drawn

\* A token signed before a restart verifies after it against the published key:
\* each loss of a key file and each os.Stat that fails on one costs at most one
\* key, and crashes at any point of the start-up, between and inside the two
\* writes, cost none (keys.go).
KeysOutliveRestarts ==
    listener = "open" => Cardinality(issued \ BuildJWKSet) <= Len(lost) + overlooked

\* No start-up, however it ended, leaves files that the next one cannot read: it
\* takes a private file that is being written while the public one is there,
\* because the private one had been lost or os.Stat had failed, and then a crash
\* (keys.go, the order of the two writes).
UnreadableOnlyAfterLoss ==
    keyStep = "unreadable" => overlooked > 0 \/ \E i \in DOMAIN lost : lost[i] = "private"

\* An orderly end takes nothing from a request in progress, neither its database
\* nor its life, unless the drain has run its full time or the listener had
\* failed; and the exit code is then not 0 (main.go, the order of the deferred
\* calls).
DrainHonoured ==
    [][\A r \in Requests : Active(r) /\ state'[r] \in {"failed", "cut"} =>
          \/ exit' = 137
          \/ exit' = 1 /\ (elapsed = shutdownTimeout \/ serverErr)]_serverVars

\* After a signal the process ends, whatever it was doing and even if a request
\* never does (main.go, the timeout of Shutdown).
StopsWhenTold == signalled /\ phase # "down" ~> phase = "down"
=============================================================================
