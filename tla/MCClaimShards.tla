--------------------------- MODULE MCClaimShards ---------------------------
EXTENDS ClaimShards, TLC

CONSTANTS s1, s2, w1, a

\* Two of the session's episodes and a worker's on one item.
OnItems == (s1 :> a) @@ (s2 :> a) @@ (w1 :> a)

Alike == Permutations(Writers) \cup Permutations({s1, s2})
=============================================================================
