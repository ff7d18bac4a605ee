----------------------------- MODULE MCHttpMatch -----------------------------
(* Model-checking instances of HttpMatch. *)
EXTENDS HttpMatch, TLC

CONSTANTS f1, f2

TwoFds == {f1, f2}

\* Descriptors are compared with nothing but each other.
Symmetry == Permutations(Fds)
=============================================================================
