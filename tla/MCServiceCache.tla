--------------------------- MODULE MCServiceCache ---------------------------
(* A small instance of ServiceCache: two tasks, which can miss the same key     *)
(* together, and three keys that contend for two slots while upstream publishes  *)
(* a second version of one.                                                     *)
EXTENDS ServiceCache, TLC

CONSTANTS a, b, c, t1, t2

MCKeys == {a, b, c}
MCTasks == {t1, t2}
MCTtl == [k \in MCKeys |-> 2]

Symmetry == Permutations({b, c}) \cup Permutations(MCTasks)
=============================================================================
