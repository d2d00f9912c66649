---------------------------- MODULE MCRateLimiter ----------------------------
(* Small instances of module RateLimiter for TLC. *)
EXTENDS RateLimiter, TLC

CallerSymmetry == Permutations(Keys) \cup Permutations(Requests)

=============================================================================
