--------------------------- MODULE MCPasswordless ---------------------------
(* Passwordless on small instances. *)
EXTENDS Passwordless, TLC

\* Nothing orders requests, and codes are only compared for equality.
Symmetry == Permutations(Requests) \cup Permutations(CodeValues)
=============================================================================
