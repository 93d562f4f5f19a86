---------------------------- MODULE MCRateLimiter ----------------------------
(***************************************************************************)
(* RateLimiter for TLC.                                                    *)
(***************************************************************************)
EXTENDS RateLimiter, TLC

(* Requests are interchangeable; used with invariants and step properties  *)
(* only.                                                                   *)
Symmetry == Permutations(Requests)
=============================================================================
