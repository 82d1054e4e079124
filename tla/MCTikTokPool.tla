---------------------------- MODULE MCTikTokPool ----------------------------
(* Small pools: searches that share identities, with the threads they leave    *)
(* behind when they time out, and refreshes that replace the pool under them.  *)
EXTENDS TikTokPool, TLC

CONSTANTS i1, i2, i3, r1, r2, j1, j2, j3

Symmetry == Permutations(Idents) \cup Permutations(Requests) \cup Permutations(Jobs)
=============================================================================
