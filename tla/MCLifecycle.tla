----------------------------- MODULE MCLifecycle -----------------------------
(* Model-checking instances of Lifecycle. *)
EXTENDS Lifecycle, TLC

CONSTANTS parent, child, t1, t2, w1, w2

TwoProcs == {parent, child}
OneProc == {parent}
TwoThreads == {t1, t2}
OneThread == {t1}
TwoWorkers == {w1, w2}
OneWorker == {w1}

Symmetry == Permutations(Workers)
=============================================================================
