---------------------------- MODULE Cancellation ----------------------------
(***************************************************************************)
(* What sets a limit to a request. The server has no timeouts and the      *)
(* statements none either; but every handler passes r.Context() on, which  *)
(* net/http cancels when the client goes away. A statement in progress may *)
(* then still have its effect, and later ones return an error at once. The *)
(* exception is the mail: SMTPSender looks at its context before           *)
(* smtp.SendMail, which takes none and has no deadline.                    *)
(***************************************************************************)
EXTENDS AuthService

VARIABLE ctx   \* of each request: alive, cancelled during its statement, or before it

cancellationVars == <<authVars, ctx>>

\* Mutant: RefreshTokenRepository.Insert without WithContext(ctx).
Interruptible_TokenDetached == Statements \ {"code.send", "issue"}

\* The calls that return when their context is cancelled: the statements of the
\* repositories, by WithContext(ctx), and the requests to Google, by
\* NewRequestWithContext.
Interruptible == Statements \ {"code.send"}

\* The client closes its connection.
ClientLeaves(r) ==
    /\ Active(r)
    /\ ctx[r] = "alive"
    /\ ctx' = [ctx EXCEPT ![r] = "cancelled"]
    /\ UNCHANGED authVars

\* A statement that is sent, or a mail that is about to be, with a context that
\* is over.
ContextError(r) ==
    /\ \/ op[r] \in AccountOps /\ RegisterFails(r)
       \/ op[r] \notin AccountOps /\ StatementFails(r) /\ UNCHANGED report
    /\ UNCHANGED <<codeVars, grants>>

\* The next step of a request. The context of one that has been answered is of
\* no interest.
Proceed(r) ==
    /\ \/ ctx[r] # "over" /\ AuthStep(r)
       \/ ctx[r] = "over" /\ ContextError(r)
    /\ ctx' = [ctx EXCEPT ![r] = IF Active(r)' /\ @ # "alive" THEN "over" ELSE "alive"]

\* The call that request r is in returns: its context is over before it, or is
\* cancelled and the call listens to it.
Bounded(r) == ctx[r] = "over" \/ (ctx[r] = "cancelled" /\ pc[r] \in Interruptible)

-----------------------------------------------------------------------------
(* Specification *)

CancellationInit == AuthInit /\ ctx = [r \in Requests |-> "alive"]

Environment ==
    \/ \E r \in Requests : AuthArrive(r)
    \/ \E code \in AuthCodes : Consent(code) /\ UNCHANGED <<codeVars, report>>
    \/ Crash /\ UNCHANGED <<codeVars, grants, report>>
    \/ Tick /\ UNCHANGED <<codeVars, grants, report>>
    \/ Quiescent /\ UNCHANGED <<codeVars, grants, report>>

CancellationNext ==
    \/ \E r \in Requests : Proceed(r) \/ ClientLeaves(r)
    \/ Environment /\ UNCHANGED ctx

\* Nothing is assumed of a statement, a mail or a call to Google whose client
\* waits, nor of a mail that is being sent.
CancellationSpec ==
    /\ CancellationInit
    /\ [][CancellationNext]_cancellationVars
    /\ \A r \in Requests : WF_cancellationVars(Bounded(r) /\ Proceed(r))

-----------------------------------------------------------------------------
(* Properties *)

\* A request that its client has abandoned ends, at whatever statement it was
\* and however many its use case had left, a batch included; only one that was
\* at the mail may hang (the handlers' r.Context(), WithContext of the
\* repositories, smtp_sender.go).
AbandonedRequestsEnd ==
    \A r \in Requests :
        Active(r) /\ (ctx[r] = "over" \/ (ctx[r] = "cancelled" /\ pc[r] # "code.send"))
            ~> r \in Ended
=============================================================================
