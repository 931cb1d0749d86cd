----------------------------- MODULE MCSessions -----------------------------
(* Sessions on small instances. *)
EXTENDS Sessions, TLC

\* Nothing orders requests, and passwords are only compared for equality.
Symmetry == Permutations(Requests) \cup Permutations(Secrets)
=============================================================================
