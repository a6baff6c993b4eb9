----------------------------- MODULE MCRateLimiter -----------------------------
(* Small instances of RateLimiter for TLC. *)
EXTENDS RateLimiter, TLC

Sliding(n) == [strategy |-> "SLIDING_WINDOW", limit |-> n, window |-> 3, refill |-> 1]
Fixed(n) == [strategy |-> "FIXED_WINDOW", limit |-> n, window |-> 3, refill |-> 1]
Bucket == [strategy |-> "TOKEN_BUCKET", limit |-> 2, window |-> 4, refill |-> 2]

(* Each strategy alone, and one refusing behind another. *)
MCChains ==
  {<<Sliding(2)>>, <<Fixed(2)>>, <<Bucket>>, <<Fixed(1), Bucket>>}

Symmetry == Permutations(Requests)
=============================================================================
