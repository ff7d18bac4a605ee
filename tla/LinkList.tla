------------------------------ MODULE LinkList ------------------------------
(***************************************************************************)
(* The lock-free ordered list of src/linklist.c (Harris's algorithm with   *)
(* memory that is freed at once).  A next pointer is a reference with a    *)
(* mark bit; a node whose own next is marked is deleted.  One action per   *)
(* read, write or compare-and-swap of a next pointer.                      *)
(* A freed element keeps its content until malloc hands it out again.      *)
(***************************************************************************)
EXTENDS Integers

CONSTANTS
    Nodes,      \* heap blocks for list elements; malloc may reuse a freed one
    Head,       \* the element lstCreate allocates, which has no key
    NULL,
    Keys,       \* a set of naturals
    Threads,
    Usages      \* how a list is used: the operations each thread calls, and
                \* the keys inserted before the threads start

ASSUME KeysAssumption == Keys \subseteq Nat \ {0}
ASSUME NodesAssumption == Head \notin Nodes /\ NULL \notin Nodes \cup {Head}
ASSUME UsagesAssumption ==
    Usages \subseteq [ops : [Threads -> SUBSET {"insert", "delete", "find"}],
                     preload : SUBSET Keys]

VARIABLES
    next,       \* element -> reference
    key,        \* element -> its key
    alloc,      \* elements that are allocated
    pc,         \* per thread
    loc,        \* per thread: the locals of the call
    present,    \* history: the keys the list stands for
    usage       \* the usage of this list, which does not change

vars == <<next, key, alloc, pc, loc, present, usage>>

Refs == [ptr : Nodes \cup {NULL}, mark : BOOLEAN]
Ref(n) == [ptr |-> n, mark |-> FALSE]
get_marked_reference(r) == [r EXCEPT !.mark = TRUE]

PCs == {"idle", "start", "walk", "adjacent", "check", "found", "mark",
        "unlink", "free", "crashed"}

NoLocals == [op |-> "find", key |-> 0, new |-> NULL, t |-> Head,
             t_next |-> Ref(NULL), left |-> Head, left_next |-> Ref(NULL),
             right |-> NULL, right_next |-> Ref(NULL), expect |-> FALSE]

Goto(th, l) == pc' = [pc EXCEPT ![th] = l]
At(th, l, op) == pc[th] = l /\ loc[th].op \in op

-----------------------------------------------------------------------------
\* The element that follows key k when node[j] holds key j
After(k, node) ==
    LET above == {j \in usage.preload : k < j}
    IN  IF above = {} THEN Ref(NULL)
        ELSE Ref(node[CHOOSE j \in above : \A i \in above : j <= i])

\* lstCreate, and the inserts made before
Init ==
    /\ usage \in Usages
    /\ \E node \in [usage.preload -> Nodes] :
          /\ \A j, k \in usage.preload : j # k => node[j] # node[k]
          /\ alloc = {node[k] : k \in usage.preload}
          /\ key = [n \in Nodes |->
                      IF \E k \in usage.preload : node[k] = n
                      THEN CHOOSE k \in usage.preload : node[k] = n ELSE 0]
          /\ next = [n \in Nodes \cup {Head} |->
                      IF n = Head THEN After(0, node)
                      ELSE IF n \in alloc THEN After(key[n], node)
                      ELSE Ref(NULL)]
    /\ pc = [th \in Threads |-> "idle"]
    /\ loc = [th \in Threads |-> NoLocals]
    /\ present = usage.preload

\* The call of an operation; lstInsert allocates its element first.
Call(th) ==
    /\ pc[th] = "idle"
    /\ Goto(th, "start")
    /\ \E k \in Keys, op \in usage.ops[th] :
          \/ /\ op = "insert"
             /\ \E n \in Nodes \ alloc :
                   /\ alloc' = alloc \cup {n}
                   /\ key' = [key EXCEPT ![n] = k]
                   /\ loc' = [loc EXCEPT ![th] =
                        [NoLocals EXCEPT !.op = op, !.key = k, !.new = n]]
          \/ /\ op # "insert"
             /\ loc' = [loc EXCEPT ![th] =
                  [NoLocals EXCEPT !.op = op, !.key = k,
                                   !.expect = k \in present]]
             /\ UNCHANGED <<alloc, key>>
    /\ UNCHANGED <<next, present, usage>>

-----------------------------------------------------------------------------
(***************************************************************************)
(* search                                                                  *)
(***************************************************************************)

\* t = head; t_next = head->next
SearchStart(th) ==
    /\ pc[th] = "start"
    /\ loc' = [loc EXCEPT ![th] = [@ EXCEPT !.t = Head, !.t_next = next[Head]]]
    /\ Goto(th, "walk")
    /\ UNCHANGED <<next, key, alloc, present, usage>>

\* Mutant of SearchWalk: the walk stops one element late.
SearchWalkTooFar(th) ==
    LET L == loc[th]
        keep == IF L.t_next.mark THEN L
                ELSE [L EXCEPT !.left = L.t, !.left_next = L.t_next]
        t == L.t_next.ptr
        more == t # NULL /\ (next[t].mark \/ key[t] <= L.key)
    IN  /\ pc[th] = "walk"
        /\ loc' = [loc EXCEPT ![th] =
             IF t = NULL THEN [keep EXCEPT !.t = t, !.right = t]
             ELSE [keep EXCEPT !.t = t, !.t_next = next[t], !.right = t]]
        /\ Goto(th, IF more THEN "walk" ELSE "adjacent")
        /\ UNCHANGED <<next, key, alloc, present, usage>>

\* One turn of the inner loop: remember the last unmarked element, go on
\* while the element is marked or its key is too small.
SearchWalk(th) ==
    LET L == loc[th]
        keep == IF L.t_next.mark THEN L
                ELSE [L EXCEPT !.left = L.t, !.left_next = L.t_next]
        t == L.t_next.ptr
        more == t # NULL /\ (next[t].mark \/ key[t] < L.key)
    IN  /\ pc[th] = "walk"
        /\ loc' = [loc EXCEPT ![th] =
             IF t = NULL THEN [keep EXCEPT !.t = t, !.right = t]
             ELSE [keep EXCEPT !.t = t, !.t_next = next[t], !.right = t]]
        /\ Goto(th, IF more THEN "walk" ELSE "adjacent")
        /\ UNCHANGED <<next, key, alloc, present, usage>>

\* G1, G2: start again when right_node has been marked; R1, R2: return it
Marked(n) == n # NULL /\ next[n].mark
SearchReturn(th) == IF Marked(loc[th].right) THEN "start" ELSE "found"

\* 2: the nodes are adjacent; 3: remove the marked nodes between them (C1)
SearchAdjacent(th) ==
    LET L == loc[th]
    IN  /\ pc[th] = "adjacent"
        /\ IF L.left_next = Ref(L.right)
           THEN /\ Goto(th, SearchReturn(th))
                /\ next' = next
           ELSE IF next[L.left] = L.left_next
           THEN /\ next' = [next EXCEPT ![L.left] = Ref(L.right)]
                /\ Goto(th, "check")
           ELSE /\ next' = next
                /\ Goto(th, "start")
        /\ UNCHANGED <<key, alloc, loc, present, usage>>

SearchCheck(th) ==
    /\ pc[th] = "check"
    /\ Goto(th, SearchReturn(th))
    /\ UNCHANGED <<next, key, alloc, loc, present, usage>>

-----------------------------------------------------------------------------
(***************************************************************************)
(* What each operation does with the element search returned.              *)
(***************************************************************************)
Match(th) == loc[th].right # NULL /\ key[loc[th].right] = loc[th].key

\* lstInsert, T1: the key is there already
InsertDuplicate(th) ==
    /\ At(th, "found", {"insert"})
    /\ Match(th)
    /\ alloc' = alloc \ {loc[th].new}
    /\ Goto(th, "idle")
    /\ UNCHANGED <<next, key, loc, present, usage>>

\* Mutant of InsertLink: a plain store instead of the compare-and-swap.
InsertLinkPlain(th) ==
    LET L == loc[th]
    IN  /\ At(th, "found", {"insert"})
        /\ ~ Match(th)
        /\ next' = [next EXCEPT ![L.new] = Ref(L.right), ![L.left] = Ref(L.new)]
        /\ present' = present \cup {L.key}
        /\ Goto(th, "idle")
        /\ UNCHANGED <<key, alloc, loc, usage>>

\* lstInsert, C2: link the new element between left_node and right_node
InsertLink(th) ==
    LET L == loc[th]
        prepared == [next EXCEPT ![L.new] = Ref(L.right)]
    IN  /\ At(th, "found", {"insert"})
        /\ ~ Match(th)
        /\ IF next[L.left] = Ref(L.right)
           THEN /\ next' = [prepared EXCEPT ![L.left] = Ref(L.new)]
                /\ present' = present \cup {L.key}
                /\ Goto(th, "idle")
           ELSE /\ next' = prepared
                /\ present' = present
                /\ Goto(th, "start")
        /\ UNCHANGED <<key, alloc, loc, usage>>

\* lstDelete, T1, and the read of right_node->next
DeleteRead(th) ==
    /\ At(th, "found", {"delete"})
    /\ IF ~ Match(th)
       THEN /\ Goto(th, "idle")
            /\ loc' = loc
       ELSE LET r == next[loc[th].right]
            IN  /\ loc' = [loc EXCEPT ![th] = [@ EXCEPT !.right_next = r]]
                /\ Goto(th, IF r.mark THEN "start" ELSE "mark")
    /\ UNCHANGED <<next, key, alloc, present, usage>>

\* Mutant of DeleteMark: a plain store instead of the compare-and-swap.
DeleteMarkPlain(th) ==
    LET L == loc[th]
    IN  /\ pc[th] = "mark"
        /\ next' = [next EXCEPT ![L.right] = get_marked_reference(L.right_next)]
        /\ present' = present \ {L.key}
        /\ Goto(th, "unlink")
        /\ UNCHANGED <<key, alloc, loc, usage>>

\* lstDelete, C3: mark the element
DeleteMark(th) ==
    LET L == loc[th]
    IN  /\ pc[th] = "mark"
        /\ IF next[L.right] = L.right_next
           THEN /\ next' = [next EXCEPT ![L.right] =
                                get_marked_reference(L.right_next)]
                /\ present' = present \ {L.key}
                /\ Goto(th, "unlink")
           ELSE /\ Goto(th, "start")
                /\ UNCHANGED <<next, present>>
        /\ UNCHANGED <<key, alloc, loc, usage>>

\* Mutant of DeleteUnlink: the marked element is freed while still linked.
DeleteUnlinkSkipped(th) ==
    /\ pc[th] = "unlink"
    /\ Goto(th, "free")
    /\ UNCHANGED <<next, key, alloc, loc, present, usage>>

\* lstDelete, C4: unlink it; if that fails, have search do it, whose result
\* replaces right_node
DeleteUnlink(th) ==
    LET L == loc[th]
    IN  /\ pc[th] = "unlink"
        /\ IF next[L.left] = Ref(L.right)
           THEN /\ next' = [next EXCEPT ![L.left] = L.right_next]
                /\ loc' = loc
                /\ Goto(th, "free")
           ELSE /\ next' = next
                /\ loc' = [loc EXCEPT ![th] = [@ EXCEPT !.op = "cleanup"]]
                /\ Goto(th, "start")
        /\ UNCHANGED <<key, alloc, present, usage>>

\* The search after a failed C4 has returned
DeleteCleanup(th) ==
    /\ At(th, "found", {"cleanup"})
    /\ Goto(th, "free")
    /\ UNCHANGED <<next, key, alloc, loc, present, usage>>

\* right_node->data is read, then right_node is freed
DeleteFree(th) ==
    /\ pc[th] = "free"
    /\ IF loc[th].right = NULL
       THEN /\ Goto(th, "crashed")
            /\ alloc' = alloc
       ELSE /\ alloc' = alloc \ {loc[th].right}
            /\ Goto(th, "idle")
    /\ UNCHANGED <<next, key, loc, present, usage>>

\* lstFind returns
FindReturn(th) ==
    /\ At(th, "found", {"find"})
    /\ Goto(th, "idle")
    /\ UNCHANGED <<next, key, alloc, loc, present, usage>>

-----------------------------------------------------------------------------
Search(th) ==
    \/ SearchStart(th)
    \/ SearchWalk(th)
    \/ SearchAdjacent(th)
    \/ SearchCheck(th)

lstInsert(th) == InsertDuplicate(th) \/ InsertLink(th)

lstDelete(th) ==
    \/ DeleteRead(th)
    \/ DeleteMark(th)
    \/ DeleteUnlink(th)
    \/ DeleteCleanup(th)
    \/ DeleteFree(th)

Next ==
    \E th \in Threads :
        \/ Call(th)
        \/ Search(th)
        \/ lstInsert(th)
        \/ lstDelete(th)
        \/ FindReturn(th)

Spec == Init /\ [][Next]_vars

-----------------------------------------------------------------------------
\* A set with the first element and with the successor of each of its elements
Closed(R) == \A n \in R \cup {Head} : next[n].ptr \in R \cup {NULL}

\* The elements reachable from the head: the least such set
Linked == {n \in Nodes : \A R \in SUBSET Nodes : Closed(R) => n \in R}

\* The locals of a call
Locals ==
    [op : {"insert", "delete", "find", "cleanup"}, key : Keys \cup {0},
     new : Nodes \cup {NULL}, t : Nodes \cup {Head, NULL}, t_next : Refs,
     left : Nodes \cup {Head}, left_next : Refs,
     right : Nodes \cup {NULL}, right_next : Refs, expect : BOOLEAN]

TypeOK ==
    /\ next \in [Nodes \cup {Head} -> Refs]
    /\ key \in [Nodes -> Keys \cup {0}]
    /\ alloc \in SUBSET Nodes
    /\ pc \in [Threads -> PCs]
    /\ loc \in [Threads -> Locals]
    /\ present \in SUBSET Keys
    /\ usage \in Usages

\* A thread that deletes has the list to itself.
DeletesAlone ==
    \A th, u \in Threads : "delete" \in usage.ops[th] /\ u # th => usage.ops[u] = {}

\* When deletes are not concurrent with anything, no element that is still
\* linked has been freed by lstDelete or by lstInsert of a duplicate.
LinkedIsAllocated == DeletesAlone => Linked \subseteq alloc

\* The algorithm "is known to handle 1) concurrent deletes": a delete frees
\* only elements that are out of the list, and does not crash.
DeleteIsSafe ==
    /\ Linked \subseteq alloc
    /\ \A th \in Threads : pc[th] # "crashed"

\* An element is deleted by one caller: of the calls that race to delete a
\* key, one has marked the element and will return TRUE for it.
DeleteHasOneWinner ==
    \A th \in Threads : pc[th] = "unlink" =>
        /\ next[loc[th].right].mark
        /\ \A u \in Threads \ {th} :
              pc[u] = "unlink" => loc[u].right # loc[th].right

\* The list is the set of keys that were inserted and not deleted, in order
\* and without duplicates, whatever inserts and searches interleave.
ListIsSet ==
    DeletesAlone =>
    /\ {key[n] : n \in {m \in Linked : ~ next[m].mark}} = present
    /\ \A m, n \in Linked : m # n => key[m] # key[n]
    /\ \A n \in Linked : next[n].ptr # NULL => key[n] < key[next[n].ptr]

\* A key that is in the list when lstFind is called, and is not deleted
\* meanwhile, is found.
FindSeesPresent ==
    DeletesAlone => \A th \in Threads :
        At(th, "found", {"find"}) /\ loc[th].expect /\ loc[th].key \in present
            => Match(th)
=============================================================================
