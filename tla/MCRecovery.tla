------------------------------ MODULE MCRecovery ------------------------------
(* Two overlapping invocations that serve three requests for one checkout, *)
(* the client repeating what failed, one report at a time, and Act 1 at    *)
(* any moment.                                                             *)
EXTENDS DisasterRecovery, TLC

CONSTANTS w1, w2

Interchangeable == Permutations({w1, w2})
=============================================================================
