--------------------------- MODULE MCRateLimiter ----------------------------
(* RateLimiter with windows of two, four and eight ticks in place of a   *)
(* second, a minute and a day, and keys that live as long beyond them, in  *)
(* proportion, as 2, 120 and 90000 seconds.                                *)
EXTENDS RateLimiter, TLC

MCQuota == << 1, 2, 2 >>
MCWindow == << 2, 4, 8 >>
MCTtl == << 4, 8, 10 >>

RequestSymmetry == Permutations(Requests)
=============================================================================
