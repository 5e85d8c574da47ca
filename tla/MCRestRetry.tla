---------------------------- MODULE MCRestRetry -----------------------------
(* RestRetry on small instances: two or three calls, five attempts each.    *)
EXTENDS RestRetry, TLC

Symmetry == Permutations(Calls)
=============================================================================
