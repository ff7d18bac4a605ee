----------------------------- MODULE MCStackPool -----------------------------
(* Model-checking instance of StackPool. *)
EXTENDS StackPool, TLC

CONSTANTS t1, t2, t3, b1, b2, b3, b4

ThreeThreads == {t1, t2, t3}
FourBlocks == {b1, b2, b3, b4}

Symmetry == Permutations(Threads) \cup Permutations(Blocks)
=============================================================================
