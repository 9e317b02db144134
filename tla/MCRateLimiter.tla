--------------------------- MODULE MCRateLimiter ---------------------------
(***************************************************************************)
(* Model-checking instance of RateLimiter: a small and a large tier.       *)
(***************************************************************************)
EXTENDS RateLimiter, TLC

CONSTANTS p1, p2, small, large

MCCapacity == [q \in Tier |-> IF q = small THEN 1 ELSE 2]
MCRefill == [q \in Tier |-> IF q = small THEN 1 ELSE 2]
MCFirstTier == [p \in Principal |-> IF p = p1 \/ large \notin Tier THEN small ELSE large]

Symmetry == Permutations(Request)
=============================================================================
