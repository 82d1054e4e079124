--------------------------- MODULE MCTikTokSearch ---------------------------
(* Two searches at a time over three keys, the results of one of which change, *)
(* and a cache of two that loses one at a time.                                *)
EXTENDS TikTokSearch, TLC

CONSTANTS a, b, c, r1, r2

MCKeys == {a, b, c}
MCRequests == {r1, r2}

Symmetry == Permutations({b, c}) \cup Permutations(MCRequests)
=============================================================================
