--------------------------- MODULE MCAuthService ---------------------------
(* AuthService on small instances. *)
EXTENDS AuthService, TLC

\* Nothing orders requests; mailboxes (none of which has an account at the start),
\* secrets and codes are only compared for equality.
Symmetry == Permutations(Requests) \cup Permutations(Mailboxes) \cup Permutations(Secrets)
                \cup Permutations(CodeValues) \cup Permutations(AuthCodes)

\* States are one that differ only in what no action and no property of the run
\* reads: history (before, mailed), what an ended request kept in memory, and
\* everything about a request that ended, unsuccessfully, without a token row.
View ==
    LET ended(r) == r \in Ended
        gone(r)  == ended(r) /\ out[r] # "ok" /\ refreshTokens[r] = None
    IN  <<now, tables, codes, grants, report,
          [r \in Requests |-> IF gone(r) THEN None ELSE <<pc[r], out[r], op[r], arg[r], at[r]>>],
          [r \in Requests |-> IF ended(r) THEN None ELSE <<loaded[r], record[r]>>]>>
=============================================================================
