------------------------------ MODULE MCLinkList ------------------------------
(* Model-checking instances of LinkList. *)
EXTENDS LinkList, TLC

CONSTANTS a, b, c, t1, t2

ThreeNodes == {a, b, c}
TwoThreads == {t1, t2}
ThreeKeys == 1 .. 3

Use(ops, preload) == [ops |-> ops, preload |-> preload]

\* The lists of network state and of HTTP/2 streams: several threads insert
\* and look up.
Growing == {Use([th \in Threads |-> {"insert", "find"}], {})}

\* One thread with all the operations.
Sequential ==
    {Use([th \in Threads |-> IF th = u THEN {"insert", "delete", "find"} ELSE {}], {}) :
        u \in Threads}

\* Several threads delete from a full list.
Deleting == {Use([th \in Threads |-> {"delete"}], Keys)}

AnyUsage == Growing \cup Sequential \cup Deleting

Symmetry == Permutations(Nodes) \cup Permutations(Threads)
=============================================================================
