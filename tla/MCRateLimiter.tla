---------------------------- MODULE MCRateLimiter ----------------------------
(* Two overlapping requests of one client over three windows, with late    *)
(* answers, resent updates and a reset.  The key of a counter holds the    *)
(* client, so that clients do not meet; the theorems cover any number.     *)
EXTENDS RateLimiter, TLC

CONSTANTS w1, w2, a

Interchangeable == Permutations({w1, w2})
=============================================================================
