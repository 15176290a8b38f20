----------------------------- MODULE MCRateLimiter -----------------------------
(* Small instances of the rate limiter for TLC. *)
EXTENDS RateLimiter, TLC

LimiterSymmetry == Permutations(Instances) \cup Permutations(Buckets)
=============================================================================
