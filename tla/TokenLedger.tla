---------------------------- MODULE TokenLedger ----------------------------
(***************************************************************************)
(* What the refresh tokens promise to their holders, whatever the use      *)
(* cases, the failures and the interleavings behind them: a token is       *)
(* created once, stops working for good, and a session moves on to the     *)
(* next token only after the previous one has stopped working.             *)
(***************************************************************************)
CONSTANTS Tokens, None

VARIABLES
    status,  \* what each token is good for
    parent   \* the token it replaced, None when it opened a session

ledgerVars == <<status, parent>>

Init ==
    /\ status = [t \in Tokens |-> "absent"]
    /\ parent = [t \in Tokens |-> None]

\* A user authenticates.
Open(t) ==
    /\ status[t] = "absent"
    /\ status' = [status EXCEPT ![t] = "live"]
    /\ UNCHANGED parent

Revoke(t) ==
    /\ status[t] = "live"
    /\ status' = [status EXCEPT ![t] = "revoked"]
    /\ UNCHANGED parent

\* The successor of a token appears once the token is revoked.
Succeed(p, t) ==
    /\ status[p] = "revoked"
    /\ status[t] = "absent"
    /\ status' = [status EXCEPT ![t] = "live"]
    /\ parent' = [parent EXCEPT ![t] = p]

Next ==
    \E t \in Tokens :
        \/ Open(t)
        \/ Revoke(t)
        \/ \E p \in Tokens : Succeed(p, t)

Spec == Init /\ [][Next]_ledgerVars
=============================================================================
