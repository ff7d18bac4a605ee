---------------------------- MODULE LinkListProofs ----------------------------
(***************************************************************************)
(* Proofs about LinkList, for all sets of threads, elements and keys and   *)
(* all usages.                                                             *)
(***************************************************************************)
EXTENDS LinkList, WellFoundedInduction, TLAPS

(***************************************************************************)
(* Deletes that race: what every usage keeps.                              *)
(***************************************************************************)

\* The operation of a call is one of its thread's.
Allowed(th) ==
    pc[th] # "idle" =>
        (IF loc[th].op = "cleanup" THEN "delete" ELSE loc[th].op) \in usage.ops[th]

\* A search stands on an element and remembers unmarked references only; a
\* delete that has read or marked an element has one.
Steady(th) ==
    /\ pc[th] = "walk" => loc[th].t # NULL
    /\ ~loc[th].left_next.mark
    /\ pc[th] # "idle" => loc[th].key \in Keys
    /\ pc[th] # "idle" /\ loc[th].op = "insert" => loc[th].new \in Nodes
    /\ pc[th] \in {"mark", "unlink"} =>
          loc[th].op = "delete" /\ loc[th].right \in Nodes /\ ~loc[th].right_next.mark

BaseInv == TypeOK /\ \A th \in Threads : Allowed(th) /\ Steady(th)

\* A list whose elements are deleted by one thread is not filled by another.
FillsOrDeletes(u) ==
    \A th, v \in Threads :
        th # v => ~("insert" \in u.ops[th] /\ "delete" \in u.ops[v])

(***************************************************************************)
(* A list that one thread at a time may delete from.                       *)
(***************************************************************************)

\* lstInsert has an element that is not linked yet.
Private(th) == pc[th] # "idle" /\ loc[th].op = "insert"

\* The allocated elements, except those not yet linked and the one unlinked
InList ==
    {n \in alloc : \A th \in Threads :
        /\ Private(th) => n # loc[th].new
        /\ pc[th] = "free" => n # loc[th].right}

KeyOf(n) == IF n = Head THEN 0 ELSE key[n]

\* The successor of n is the element with the next larger key.
Succeeded(n) ==
    /\ next[n].ptr \in InList \cup {NULL}
    /\ next[n].ptr # NULL => KeyOf(n) < key[next[n].ptr]
    /\ \A m \in InList : KeyOf(n) < key[m] =>
          next[n].ptr # NULL /\ key[next[n].ptr] <= key[m]

\* An element in the list that is marked is about to be unlinked.
MarkedByDelete(n) ==
    next[n].mark => \E th \in Threads : pc[th] = "unlink" /\ loc[th].right = n

Chain ==
    /\ \A n \in InList \cup {Head} : Succeeded(n) /\ MarkedByDelete(n)
    /\ \A n \in InList : key[n] \in Keys
    /\ \A m, n \in InList : key[m] = key[n] => m = n
    /\ \A k \in Keys : k \in present <=> \E n \in InList : key[n] = k /\ ~next[n].mark

\* The element of an insert is its own.
OwnElement(th) ==
    Private(th) =>
        /\ loc[th].new \in alloc /\ key[loc[th].new] = loc[th].key
        /\ \A u \in Threads : u # th /\ Private(u) => loc[u].new # loc[th].new

\* A search has come to t, whose key is smaller than the one it looks for.
\* What it has read may be out of date, unless it searches for a delete.
OnItsWay(th) ==
    pc[th] = "walk" =>
        /\ loc[th].t \in InList \cup {Head} /\ KeyOf(loc[th].t) < loc[th].key
        /\ ~loc[th].t_next.mark /\ loc[th].t_next.ptr \in InList \cup {NULL}
        /\ loc[th].op = "find" /\ loc[th].expect =>
              loc[th].t_next.ptr # NULL /\ key[loc[th].t_next.ptr] <= loc[th].key
        /\ loc[th].op = "delete" => loc[th].t_next = next[loc[th].t]

\* A search that has ended is between left and right.
Arrived(th) ==
    pc[th] \in {"adjacent", "found", "mark", "unlink"} =>
        /\ loc[th].left \in InList \cup {Head} /\ KeyOf(loc[th].left) < loc[th].key
        /\ loc[th].left_next = Ref(loc[th].right)
        /\ loc[th].right \in InList \cup {NULL}
        /\ loc[th].right # NULL => loc[th].key <= key[loc[th].right]
        /\ loc[th].op = "find" /\ loc[th].expect =>
              loc[th].right # NULL /\ key[loc[th].right] = loc[th].key
        /\ loc[th].op = "delete" => next[loc[th].left] = Ref(loc[th].right)

\* A delete has found its element and knows its successor.
HasTarget(th) ==
    /\ pc[th] \in {"mark", "unlink"} =>
          /\ loc[th].right # NULL /\ key[loc[th].right] = loc[th].key
          /\ loc[th].right_next.ptr = next[loc[th].right].ptr
          /\ next[loc[th].right].mark <=> pc[th] = "unlink"
    /\ pc[th] = "free" => loc[th].op = "delete" /\ loc[th].right \in alloc

\* Searches meet no marked element, so a delete has no cleaning up to do.
Undisturbed(th) ==
    /\ pc[th] \notin {"check", "crashed"}
    /\ pc[th] # "idle" => loc[th].op # "cleanup"
    /\ pc[th] # "idle" /\ loc[th].op = "find" /\ loc[th].expect => loc[th].key \in present

InCall(th) ==
    /\ OwnElement(th) /\ OnItsWay(th) /\ Arrived(th)
    /\ HasTarget(th) /\ Undisturbed(th)

ListInv == Chain /\ \A th \in Threads : InCall(th)

-----------------------------------------------------------------------------
(***************************************************************************)
(* Naturals and references                                                 *)
(***************************************************************************)

\* A set of naturals that is not empty has a least element.
LEMMA LeastNatural ==
    ASSUME NEW T \in SUBSET Nat, T # {}
    PROVE  \E x \in T : \A y \in T : x <= y
  <1>1. IsWellFoundedOn(OpToRel(<, Nat), Nat)
    BY NatLessThanWellFounded
  <1>2. PICK x \in T : \A y \in T : ~(<<y, x>> \in OpToRel(<, Nat))
    BY <1>1, WFMin
  <1>3. ASSUME NEW y \in T PROVE x <= y
    <2>1. ~(y < x)
      BY <1>2, <1>3 DEF OpToRel
    <2> QED
      BY <2>1
  <1> QED
    BY <1>2, <1>3

\* A set of naturals below a bound has a greatest element.
LEMMA GreatestNatural ==
    ASSUME NEW T \in SUBSET Nat, T # {}, NEW b \in Nat, \A x \in T : x < b
    PROVE  \E x \in T : \A y \in T : y <= x
  <1> DEFINE D == {n \in Nat : \E x \in T : n = b - x}
  <1>1. D \in SUBSET Nat /\ D # {}
    <2>1. PICK x \in T : TRUE
      OBVIOUS
    <2>2. b - x \in Nat
      OBVIOUS
    <2> QED
      BY <2>2
  <1>2. PICK d \in D : \A e \in D : d <= e
    BY <1>1, LeastNatural
  <1>3. PICK x \in T : d = b - x
    BY <1>2
  <1>4. ASSUME NEW y \in T PROVE y <= x
    <2>1. b - y \in D
      OBVIOUS
    <2> QED
      BY <2>1, <1>2, <1>3
  <1> QED
    BY <1>4

LEMMA RefType ==
    /\ \A n \in Nodes \cup {NULL} : Ref(n) \in Refs /\ Ref(n).ptr = n /\ Ref(n).mark = FALSE
    /\ \A r \in Refs : /\ get_marked_reference(r) \in Refs
                       /\ get_marked_reference(r).ptr = r.ptr
                       /\ get_marked_reference(r).mark = TRUE
                       /\ r.ptr \in Nodes \cup {NULL} /\ r.mark \in BOOLEAN
                       /\ ~r.mark => r = Ref(r.ptr)
  <1>1. ASSUME NEW n \in Nodes \cup {NULL}
        PROVE  Ref(n) \in Refs /\ Ref(n).ptr = n /\ Ref(n).mark = FALSE
    BY DEF Ref, Refs
  <1>2. ASSUME NEW r \in Refs
        PROVE  /\ get_marked_reference(r) \in Refs
               /\ get_marked_reference(r).ptr = r.ptr
               /\ get_marked_reference(r).mark = TRUE
    BY DEF Refs, get_marked_reference
  <1>3. ASSUME NEW r \in Refs
        PROVE  /\ r.ptr \in Nodes \cup {NULL} /\ r.mark \in BOOLEAN
               /\ ~r.mark => r = Ref(r.ptr)
    BY DEF Refs, Ref
  <1> QED
    BY <1>1, <1>2, <1>3

\* What follows key k in the list that is there at the start
LEMMA AfterIs ==
    ASSUME UsagesAssumption, KeysAssumption, usage \in Usages,
           NEW node \in [usage.preload -> Nodes], NEW k \in Nat
    PROVE  \/ /\ After(k, node) = Ref(NULL)
              /\ \A j \in usage.preload : ~(k < j)
           \/ \E j \in usage.preload :
                 /\ After(k, node) = Ref(node[j]) /\ k < j
                 /\ \A i \in usage.preload : k < i => j <= i
  <1> DEFINE above == {j \in usage.preload : k < j}
  <1>0. usage.preload \in SUBSET Nat
    BY DEF UsagesAssumption, KeysAssumption
  <1>1. CASE above = {}
    BY <1>1 DEF After
  <1>2. CASE above # {}
    <2>1. \E j \in above : \A i \in above : j <= i
      BY <1>0, <1>2, LeastNatural
    <2>2. PICK j \in above : j = CHOOSE m \in above : \A i \in above : m <= i
      BY <2>1
    <2>3. \A i \in above : j <= i
      BY <2>1, <2>2
    <2>4. After(k, node) = Ref(node[j])
      BY <1>2, <2>2 DEF After
    <2> QED
      BY <2>3, <2>4
  <1> QED
    BY <1>1, <1>2

-----------------------------------------------------------------------------
(***************************************************************************)
(* What the steps do to the locals of a call.                              *)
(***************************************************************************)
SameCall(M, L) == M.op = L.op /\ M.key = L.key /\ M.new = L.new /\ M.expect = L.expect

SameEnds(M, L) == M.left = L.left /\ M.left_next = L.left_next /\ M.right = L.right

OthersKeep(th) ==
    \A u \in Threads : u # th => pc'[u] = pc[u] /\ loc'[u] = loc[u]

LEMMA LocalTypes ==
    ASSUME NEW L \in Locals
    PROVE  /\ L.op \in {"insert", "delete", "find", "cleanup"} /\ L.key \in Keys \cup {0}
           /\ L.new \in Nodes \cup {NULL} /\ L.t \in Nodes \cup {Head, NULL}
           /\ L.t_next \in Refs /\ L.left \in Nodes \cup {Head} /\ L.left_next \in Refs
           /\ L.right \in Nodes \cup {NULL} /\ L.right_next \in Refs
           /\ L.expect \in BOOLEAN
  BY DEF Locals

LEMMA StartLocals ==
    ASSUME TypeOK, NEW th \in Threads, SearchStart(th)
    PROVE  /\ loc' \in [Threads -> Locals] /\ pc' \in [Threads -> PCs]
           /\ OthersKeep(th) /\ pc'[th] = "walk"
           /\ SameCall(loc'[th], loc[th]) /\ SameEnds(loc'[th], loc[th])
           /\ loc'[th].right_next = loc[th].right_next
           /\ loc'[th].t = Head /\ loc'[th].t_next = next[Head]
  <1> DEFINE L == loc[th]
             M == [L EXCEPT !.t = Head, !.t_next = next[Head]]
  <1>1. L \in Locals /\ next[Head] \in Refs
    BY DEF TypeOK
  <1>2. /\ SameCall(M, L) /\ SameEnds(M, L) /\ M.right_next = L.right_next
        /\ M.t = Head /\ M.t_next = next[Head]
    BY <1>1 DEF Locals, SameCall, SameEnds
  <1>3. M \in Locals
    BY <1>1 DEF Locals
  <1>4. loc' = [loc EXCEPT ![th] = M] /\ pc' = [pc EXCEPT ![th] = "walk"]
    BY DEF SearchStart, Goto
  <1> HIDE DEF M
  <1>5. loc'[th] = M
    BY <1>4 DEF TypeOK
  <1> QED
    BY <1>2, <1>3, <1>4, <1>5 DEF TypeOK, OthersKeep, PCs

\* The element the walk goes on to, and whether it goes on
Ahead(th) == loc[th].t_next.ptr
GoesOn(th) ==
    Ahead(th) # NULL /\ (next[Ahead(th)].mark \/ key[Ahead(th)] < loc[th].key)

LEMMA WalkLocals ==
    ASSUME TypeOK, NEW th \in Threads, SearchWalk(th), Steady(th)
    PROVE  /\ loc' \in [Threads -> Locals] /\ pc' \in [Threads -> PCs]
           /\ OthersKeep(th)
           /\ pc'[th] = IF GoesOn(th) THEN "walk" ELSE "adjacent"
           /\ SameCall(loc'[th], loc[th]) /\ loc'[th].right_next = loc[th].right_next
           /\ loc'[th].t = Ahead(th) /\ loc'[th].right = Ahead(th)
           /\ Ahead(th) # NULL => loc'[th].t_next = next[Ahead(th)]
           /\ ~loc[th].t_next.mark => /\ loc'[th].left = loc[th].t
                                      /\ loc'[th].left_next = loc[th].t_next
           /\ loc[th].t_next.mark => /\ loc'[th].left = loc[th].left
                                     /\ loc'[th].left_next = loc[th].left_next
  <1> DEFINE L == loc[th]
             keep == IF L.t_next.mark THEN L
                     ELSE [L EXCEPT !.left = L.t, !.left_next = L.t_next]
             t == L.t_next.ptr
             M == IF t = NULL THEN [keep EXCEPT !.t = t, !.right = t]
                  ELSE [keep EXCEPT !.t = t, !.t_next = next[t], !.right = t]
  <1>1. L \in Locals /\ L.t \in Nodes \cup {Head} /\ L.t_next \in Refs
    BY LocalTypes DEF TypeOK, Steady, SearchWalk
  <1>2. t \in Nodes \cup {NULL} /\ (t # NULL => next[t] \in Refs)
    BY <1>1 DEF Refs, TypeOK
  <1>3. /\ keep \in Locals /\ SameCall(keep, L) /\ keep.right_next = L.right_next
        /\ ~L.t_next.mark => keep.left = L.t /\ keep.left_next = L.t_next
        /\ L.t_next.mark => keep.left = L.left /\ keep.left_next = L.left_next
    <2>1. CASE L.t_next.mark
      BY <1>1, <2>1 DEF SameCall
    <2>2. CASE ~L.t_next.mark
      BY <1>1, <2>2 DEF SameCall, Locals
    <2> QED
      BY <2>1, <2>2
  <1>5. /\ loc' = [loc EXCEPT ![th] = M]
        /\ pc' = [pc EXCEPT ![th] = IF GoesOn(th) THEN "walk" ELSE "adjacent"]
    BY DEF SearchWalk, Goto, GoesOn, Ahead
  <1> HIDE DEF keep
  <1>4. /\ M \in Locals /\ SameCall(M, keep) /\ M.right_next = keep.right_next
        /\ M.t = t /\ M.right = t /\ (t # NULL => M.t_next = next[t])
        /\ M.left = keep.left /\ M.left_next = keep.left_next
    <2>1. CASE t = NULL
      BY <1>2, <1>3, <2>1, ZenonT(40) DEF SameCall, Locals
    <2>2. CASE t # NULL
      BY <1>2, <1>3, <2>2 DEF SameCall, Locals
    <2> QED
      BY <2>1, <2>2
  <1> HIDE DEF M
  <1>6. loc'[th] = M /\ loc' \in [Threads -> Locals]
    BY <1>4, <1>5 DEF TypeOK
  <1>7. pc' \in [Threads -> PCs] /\ OthersKeep(th)
        /\ pc'[th] = IF GoesOn(th) THEN "walk" ELSE "adjacent"
    BY <1>5 DEF TypeOK, OthersKeep, PCs
  <1>8. SameCall(M, L)
    BY <1>3, <1>4 DEF SameCall
  <1> QED
    BY <1>3, <1>4, <1>6, <1>7, <1>8 DEF Ahead

\* What a call of operation op for key k does
Called(th, k, op) ==
    /\ loc'[th].op = op /\ loc'[th].key = k /\ loc'[th].left_next = Ref(NULL)
    /\ \/ /\ op = "insert" /\ loc'[th].expect = FALSE
          /\ \E n \in Nodes \ alloc :
                /\ loc'[th].new = n /\ alloc' = alloc \cup {n}
                /\ key' = [key EXCEPT ![n] = k]
       \/ /\ op # "insert" /\ loc'[th].expect = (k \in present)
          /\ UNCHANGED <<alloc, key>>

LEMMA CallLocals ==
    ASSUME TypeOK, UsagesAssumption, NEW th \in Threads, Call(th)
    PROVE  /\ loc' \in [Threads -> Locals] /\ pc' \in [Threads -> PCs]
           /\ OthersKeep(th) /\ pc'[th] = "start"
           /\ \E k \in Keys, op \in usage.ops[th] : Called(th, k, op)
  <1>1. pc' \in [Threads -> PCs] /\ pc'[th] = "start"
        /\ \A u \in Threads : u # th => pc'[u] = pc[u]
    BY DEF Call, Goto, TypeOK, PCs
  <1>2. Ref(NULL) \in Refs
    BY RefType
  <1>3. PICK k \in Keys, op \in usage.ops[th] :
          \/ /\ op = "insert"
             /\ \E n \in Nodes \ alloc :
                   /\ alloc' = alloc \cup {n}
                   /\ key' = [key EXCEPT ![n] = k]
                   /\ loc' = [loc EXCEPT ![th] =
                        [NoLocals EXCEPT !.op = op, !.key = k, !.new = n]]
          \/ /\ op # "insert"
             /\ loc' = [loc EXCEPT ![th] =
                  [NoLocals EXCEPT !.op = op, !.key = k,
                                   !.expect = k \in present]]
             /\ UNCHANGED <<alloc, key>>
    BY DEF Call
  <1>4. op \in {"insert", "delete", "find"}
    BY DEF TypeOK, UsagesAssumption
  <1>5. CASE op = "insert"
    <2>1. PICK n \in Nodes \ alloc :
             /\ alloc' = alloc \cup {n} /\ key' = [key EXCEPT ![n] = k]
             /\ loc' = [loc EXCEPT ![th] =
                  [NoLocals EXCEPT !.op = op, !.key = k, !.new = n]]
      BY <1>3, <1>5
    <2> DEFINE M == [NoLocals EXCEPT !.op = op, !.key = k, !.new = n]
    <2>2. M \in Locals
      BY <1>2, <1>4 DEF NoLocals, Locals
    <2>3. M.op = op /\ M.key = k /\ M.new = n /\ M.expect = FALSE /\ M.left_next = Ref(NULL)
      BY DEF NoLocals
    <2>4. loc' = [loc EXCEPT ![th] = M]
      BY <2>1
    <2> HIDE DEF M
    <2>5. loc'[th] = M /\ loc' \in [Threads -> Locals] /\ OthersKeep(th)
      BY <1>1, <2>2, <2>4 DEF TypeOK, OthersKeep
    <2>6. Called(th, k, op)
      BY <2>1, <2>3, <2>5, <1>5 DEF Called
    <2> QED
      BY <1>1, <2>5, <2>6
  <1>6. CASE op # "insert"
    <2> DEFINE M == [NoLocals EXCEPT !.op = op, !.key = k, !.expect = k \in present]
    <2>0. ASSUME NEW e \in BOOLEAN
          PROVE  [NoLocals EXCEPT !.op = op, !.key = k, !.expect = e] \in Locals
      BY <1>2, <1>4 DEF NoLocals, Locals
    <2>1. (k \in present) \in BOOLEAN
      OBVIOUS
    <2>2. M \in Locals
      BY <2>0, <2>1, Zenon
    <2>3. M.op = op /\ M.key = k /\ M.expect = (k \in present) /\ M.left_next = Ref(NULL)
      BY DEF NoLocals
    <2>4. loc' = [loc EXCEPT ![th] = M] /\ UNCHANGED <<alloc, key>>
      BY <1>3, <1>6
    <2> HIDE DEF M
    <2>5. loc'[th] = M /\ loc' \in [Threads -> Locals] /\ OthersKeep(th)
      BY <1>1, <2>2, <2>4 DEF TypeOK, OthersKeep
    <2>6. Called(th, k, op)
      BY <2>3, <2>4, <2>5, <1>6 DEF Called
    <2> QED
      BY <1>1, <2>5, <2>6
  <1> QED
    BY <1>5, <1>6

LEMMA ReadLocals ==
    ASSUME TypeOK, NEW th \in Threads, DeleteRead(th)
    PROVE  /\ loc' \in [Threads -> Locals] /\ pc' \in [Threads -> PCs]
           /\ OthersKeep(th)
           /\ SameCall(loc'[th], loc[th]) /\ SameEnds(loc'[th], loc[th])
           /\ \/ ~Match(th) /\ pc'[th] = "idle"
              \/ /\ Match(th) /\ loc'[th].right_next = next[loc[th].right]
                 /\ pc'[th] = IF next[loc[th].right].mark THEN "start" ELSE "mark"
  <1>1. CASE ~Match(th)
    BY <1>1 DEF DeleteRead, Goto, TypeOK, PCs, OthersKeep, SameCall, SameEnds
  <1>2. CASE Match(th)
    <2> DEFINE L == loc[th]
               r == next[L.right]
               M == [L EXCEPT !.right_next = r]
    <2>1. L \in Locals /\ r \in Refs
      BY <1>2, LocalTypes DEF TypeOK, Match
    <2>2. loc' = [loc EXCEPT ![th] = M]
          /\ pc' = [pc EXCEPT ![th] = IF r.mark THEN "start" ELSE "mark"]
      BY <1>2 DEF DeleteRead, Goto
    <2> HIDE DEF r
    <2>3. M \in Locals /\ SameCall(M, L) /\ SameEnds(M, L) /\ M.right_next = r
      BY <2>1 DEF Locals, SameCall, SameEnds
    <2> HIDE DEF M
    <2>4. loc'[th] = M /\ loc' \in [Threads -> Locals]
      BY <2>2, <2>3 DEF TypeOK
    <2>5. pc' \in [Threads -> PCs] /\ OthersKeep(th)
          /\ pc'[th] = IF r.mark THEN "start" ELSE "mark"
      BY <2>2 DEF TypeOK, OthersKeep, PCs
    <2> QED
      BY <1>2, <2>3, <2>4, <2>5 DEF r
  <1> QED
    BY <1>1, <1>2

LEMMA UnlinkLocals ==
    ASSUME TypeOK, NEW th \in Threads, DeleteUnlink(th)
    PROVE  /\ loc' \in [Threads -> Locals] /\ pc' \in [Threads -> PCs]
           /\ OthersKeep(th) /\ SameEnds(loc'[th], loc[th])
           /\ loc'[th].key = loc[th].key
           /\ \/ /\ next[loc[th].left] = Ref(loc[th].right)
                 /\ next' = [next EXCEPT ![loc[th].left] = loc[th].right_next]
                 /\ pc'[th] = "free" /\ loc' = loc
              \/ /\ next[loc[th].left] # Ref(loc[th].right)
                 /\ pc'[th] = "start" /\ loc'[th].op = "cleanup" /\ next' = next
  <1> DEFINE L == loc[th]
             M == [L EXCEPT !.op = "cleanup"]
  <1>1. CASE next[L.left] = Ref(L.right)
    BY <1>1 DEF DeleteUnlink, Goto, TypeOK, PCs, OthersKeep, SameEnds
  <1>2. CASE next[L.left] # Ref(L.right)
    <2>1. L \in Locals
      BY DEF TypeOK
    <2>2. loc' = [loc EXCEPT ![th] = M] /\ pc' = [pc EXCEPT ![th] = "start"] /\ next' = next
      BY <1>2 DEF DeleteUnlink, Goto
    <2>3. M \in Locals /\ SameEnds(M, L) /\ M.op = "cleanup" /\ M.key = L.key
      BY <2>1 DEF Locals, SameEnds
    <2> HIDE DEF M
    <2>4. loc'[th] = M /\ loc' \in [Threads -> Locals]
      BY <2>2, <2>3 DEF TypeOK
    <2> QED
      BY <1>2, <2>2, <2>3, <2>4 DEF TypeOK, OthersKeep, PCs
  <1> QED
    BY <1>1, <1>2

-----------------------------------------------------------------------------
(***************************************************************************)
(* What every usage keeps.                                                 *)
(***************************************************************************)
LEMMA GotoKeeps ==
    ASSUME TypeOK, NEW th \in Threads, NEW l \in PCs, Goto(th, l), loc' = loc
    PROVE  /\ loc' \in [Threads -> Locals] /\ pc' \in [Threads -> PCs]
           /\ OthersKeep(th) /\ pc'[th] = l
  BY DEF Goto, TypeOK, OthersKeep

\* The list that is there at the start
Filled(node) ==
    /\ \A j, k \in usage.preload : j # k => node[j] # node[k]
    /\ alloc = {node[k] : k \in usage.preload}
    /\ \A k \in usage.preload : key[node[k]] = k
    /\ \A n \in Nodes : key[n] \in usage.preload \cup {0}
    /\ next[Head] = After(0, node)
    /\ \A n \in Nodes : next[n] = IF n \in alloc THEN After(key[n], node) ELSE Ref(NULL)
    /\ next = [n \in Nodes \cup {Head} |-> next[n]]
    /\ key = [n \in Nodes |-> key[n]]

LEMMA InitFilled ==
    ASSUME Init, NodesAssumption
    PROVE  \E node \in [usage.preload -> Nodes] : Filled(node)
  <1>1. PICK node \in [usage.preload -> Nodes] :
          /\ \A j, k \in usage.preload : j # k => node[j] # node[k]
          /\ alloc = {node[k] : k \in usage.preload}
          /\ key = [n \in Nodes |->
                      IF \E k \in usage.preload : node[k] = n
                      THEN CHOOSE k \in usage.preload : node[k] = n ELSE 0]
          /\ next = [n \in Nodes \cup {Head} |->
                      IF n = Head THEN After(0, node)
                      ELSE IF n \in alloc THEN After(key[n], node)
                      ELSE Ref(NULL)]
    BY DEF Init
  <1>2. ASSUME NEW n \in Nodes
        PROVE  /\ key[n] \in usage.preload \cup {0}
               /\ (\E k \in usage.preload : node[k] = n) =>
                      key[n] \in usage.preload /\ node[key[n]] = n
    <2>1. CASE \E k \in usage.preload : node[k] = n
      <3> DEFINE c == CHOOSE k \in usage.preload : node[k] = n
      <3>1. c \in usage.preload /\ node[c] = n
        BY <2>1
      <3>2. key[n] = c
        BY <1>1, <2>1
      <3> QED
        BY <3>1, <3>2
    <2>2. CASE ~\E k \in usage.preload : node[k] = n
      BY <1>1, <2>2
    <2> QED
      BY <2>1, <2>2
  <1>3. ASSUME NEW k \in usage.preload PROVE key[node[k]] = k
    <2>1. node[k] \in Nodes
      OBVIOUS
    <2>2. key[node[k]] \in usage.preload /\ node[key[node[k]]] = node[k]
      BY <1>2, <2>1
    <2> QED
      BY <1>1, <2>2
  <1>4. /\ next[Head] = After(0, node)
        /\ \A n \in Nodes : next[n] = IF n \in alloc THEN After(key[n], node) ELSE Ref(NULL)
        /\ next = [n \in Nodes \cup {Head} |-> next[n]] /\ key = [n \in Nodes |-> key[n]]
    BY <1>1, NodesAssumption DEF NodesAssumption
  <1>5. Filled(node)
    BY <1>1, <1>2, <1>3, <1>4 DEF Filled
  <1> QED
    BY <1>5

LEMMA BaseInit ==
    ASSUME KeysAssumption, NodesAssumption, UsagesAssumption, Init
    PROVE  BaseInv
  <1>1. PICK node \in [usage.preload -> Nodes] : Filled(node)
    BY InitFilled
  <1>f. /\ \A n \in Nodes : key[n] \in usage.preload \cup {0}
        /\ alloc = {node[k] : k \in usage.preload}
        /\ next[Head] = After(0, node)
        /\ \A n \in Nodes : next[n] = IF n \in alloc THEN After(key[n], node) ELSE Ref(NULL)
        /\ next = [n \in Nodes \cup {Head} |-> next[n]]
        /\ key = [n \in Nodes |-> key[n]]
    BY <1>1, Zenon DEF Filled
  <1>2. usage \in Usages /\ usage.preload \in SUBSET Keys /\ usage.preload \in SUBSET Nat
    BY DEF Init, UsagesAssumption, KeysAssumption
  <1>3. ASSUME NEW k \in Nat PROVE After(k, node) \in Refs
    BY <1>2, AfterIs, RefType
  <1>4. next \in [Nodes \cup {Head} -> Refs]
    <2>1. ASSUME NEW n \in Nodes PROVE next[n] \in Refs
      <3>1. key[n] \in usage.preload \cup {0}
        BY <1>f
      <3>2. key[n] \in Nat
        BY <1>2, <3>1
      <3>3. next[n] = After(key[n], node) \/ next[n] = Ref(NULL)
        BY <1>f, Zenon
      <3>4. Ref(NULL) \in Refs
        BY RefType
      <3> QED
        BY <1>3, <3>2, <3>3, <3>4
    <2>2. \A n \in Nodes : next[n] \in Refs
      BY <2>1
    <2>3. next[Head] \in Refs
      BY <1>f, <1>3
    <2> QED
      BY <1>f, <2>2, <2>3
  <1>5. key \in [Nodes -> Keys \cup {0}] /\ alloc \in SUBSET Nodes
    BY <1>2, <1>f
  <1>6. NoLocals \in Locals /\ NoLocals.left_next = Ref(NULL)
    BY RefType DEF NoLocals, Locals
  <1>7. loc = [th \in Threads |-> NoLocals] /\ pc = [th \in Threads |-> "idle"]
        /\ present = usage.preload
    BY DEF Init
  <1>8. TypeOK
    BY <1>2, <1>4, <1>5, <1>6, <1>7 DEF TypeOK, PCs
  <1>9. \A th \in Threads : Allowed(th) /\ Steady(th)
    BY <1>6, <1>7, RefType DEF Allowed, Steady
  <1> QED
    BY <1>8, <1>9 DEF BaseInv

LEMMA BaseThread ==
    ASSUME BaseInv, NEW th \in Threads, OthersKeep(th),
           loc' \in [Threads -> Locals], pc' \in [Threads -> PCs], usage' = usage,
           next' \in [Nodes \cup {Head} -> Refs], key' \in [Nodes -> Keys \cup {0}],
           alloc' \in SUBSET Nodes, present' \in SUBSET Keys,
           Allowed(th)', Steady(th)'
    PROVE  BaseInv'
  <1>1. TypeOK'
    BY DEF BaseInv, TypeOK
  <1>2. ASSUME NEW u \in Threads PROVE Allowed(u)' /\ Steady(u)'
    <2>1. CASE u = th
      BY <2>1
    <2>2. CASE u # th
      <3>1. pc'[u] = pc[u] /\ loc'[u] = loc[u] /\ Allowed(u) /\ Steady(u)
        BY <2>2 DEF OthersKeep, BaseInv
      <3> QED
        BY <3>1 DEF Allowed, Steady
    <2> QED
      BY <2>1, <2>2
  <1> QED
    BY <1>1, <1>2 DEF BaseInv

\* Every step keeps the types, in every usage.
LEMMA BaseStep ==
    ASSUME KeysAssumption, NodesAssumption, UsagesAssumption, BaseInv, [Next]_vars
    PROVE  BaseInv'
  <1>0. CASE UNCHANGED vars
    BY <1>0 DEF vars, BaseInv, TypeOK, Allowed, Steady
  <1> SUFFICES ASSUME NEW th \in Threads,
                      \/ Call(th) \/ Search(th) \/ lstInsert(th)
                      \/ lstDelete(th) \/ FindReturn(th)
               PROVE  BaseInv'
    BY <1>0 DEF Next
  <1>t. TypeOK /\ Allowed(th) /\ Steady(th)
    BY DEF BaseInv
  <1>l. /\ loc[th] \in Locals /\ loc[th].left \in Nodes \cup {Head}
        /\ loc[th].right \in Nodes \cup {NULL} /\ loc[th].right_next \in Refs
        /\ loc[th].new \in Nodes \cup {NULL}
        /\ Ref(loc[th].right) \in Refs /\ Ref(loc[th].new) \in Refs
        /\ get_marked_reference(loc[th].right_next) \in Refs
    BY <1>t, LocalTypes, RefType DEF TypeOK
  <1>1. CASE Call(th)
    <2>1. PICK k \in Keys, op \in usage.ops[th] : Called(th, k, op)
      BY <1>1, <1>t, CallLocals
    <2>2. key' \in [Nodes -> Keys \cup {0}] /\ alloc' \in SUBSET Nodes
      BY <1>t, <2>1 DEF Called, TypeOK
    <2>3. /\ loc' \in [Threads -> Locals] /\ pc' \in [Threads -> PCs]
          /\ OthersKeep(th) /\ pc'[th] = "start"
      BY <1>1, <1>t, CallLocals
    <2>4. usage' = usage /\ next' = next /\ present' = present
      BY <1>1 DEF Call
    <2>5. op # "cleanup"
      BY <1>t DEF TypeOK, UsagesAssumption
    <2>6. Allowed(th)'
      BY <2>1, <2>3, <2>4, <2>5 DEF Allowed, Called
    <2>7. Steady(th)'
      BY <2>1, <2>3, RefType DEF Steady, Called
    <2> QED
      BY <1>t, <2>2, <2>3, <2>4, <2>6, <2>7, BaseThread DEF TypeOK
  <1>2. CASE SearchStart(th)
    <2>1. UNCHANGED <<next, key, alloc, present, usage>> /\ pc[th] = "start"
      BY <1>2 DEF SearchStart
    <2>2. Allowed(th)' /\ Steady(th)'
      BY <1>2, <1>t, <2>1, StartLocals, NodesAssumption
      DEF Allowed, Steady, SameCall, SameEnds, NodesAssumption
    <2> QED
      BY <1>2, <1>t, <2>1, <2>2, StartLocals, BaseThread DEF TypeOK
  <1>3. CASE SearchWalk(th)
    <2>1. UNCHANGED <<next, key, alloc, present, usage>> /\ pc[th] = "walk"
      BY <1>3 DEF SearchWalk
    <2>2. Allowed(th)'
      BY <1>3, <1>t, <2>1, WalkLocals DEF Allowed, SameCall
    <2>3. Steady(th)'
      BY <1>3, <1>t, <2>1, WalkLocals DEF Steady, SameCall, GoesOn
    <2> QED
      BY <1>3, <1>t, <2>1, <2>2, <2>3, WalkLocals, BaseThread DEF TypeOK
  <1>4. CASE SearchAdjacent(th)
    <2>1. UNCHANGED <<key, alloc, loc, present, usage>> /\ pc[th] = "adjacent"
          /\ \E l \in {"start", "found", "check"} : Goto(th, l)
          /\ (next' = next \/ next' = [next EXCEPT ![loc[th].left] = Ref(loc[th].right)])
      BY <1>4 DEF SearchAdjacent, SearchReturn
    <2>2. PICK l \in {"start", "found", "check"} : Goto(th, l)
      BY <2>1
    <2>3. next' \in [Nodes \cup {Head} -> Refs]
      BY <1>t, <1>l, <2>1 DEF TypeOK
    <2>4. /\ loc' \in [Threads -> Locals] /\ pc' \in [Threads -> PCs]
          /\ OthersKeep(th) /\ pc'[th] = l
      BY <1>t, <2>1, <2>2, GotoKeeps DEF PCs
    <2>5. Allowed(th)' /\ Steady(th)'
      BY <1>t, <2>1, <2>4 DEF Allowed, Steady
    <2> QED
      BY <1>t, <2>1, <2>3, <2>4, <2>5, BaseThread DEF TypeOK
  <1>5. CASE \/ SearchCheck(th) \/ DeleteCleanup(th) \/ FindReturn(th)
             \/ InsertDuplicate(th) \/ DeleteFree(th)
    <2>1. UNCHANGED <<next, key, loc, present, usage>> /\ pc[th] # "idle"
          /\ alloc' \subseteq alloc
          /\ \E l \in {"start", "found", "free", "idle", "crashed"} : Goto(th, l)
      BY <1>5 DEF SearchCheck, DeleteCleanup, FindReturn, InsertDuplicate, DeleteFree,
                  SearchReturn, At
    <2>2. PICK l \in {"start", "found", "free", "idle", "crashed"} : Goto(th, l)
      BY <2>1
    <2>4. /\ loc' \in [Threads -> Locals] /\ pc' \in [Threads -> PCs]
          /\ OthersKeep(th) /\ pc'[th] = l
      BY <1>t, <2>1, <2>2, GotoKeeps DEF PCs
    <2>5. Allowed(th)' /\ Steady(th)'
      BY <1>t, <2>1, <2>4 DEF Allowed, Steady
    <2> QED
      BY <1>t, <2>1, <2>4, <2>5, BaseThread DEF TypeOK
  <1>6. CASE InsertLink(th)
    <2> DEFINE L == loc[th]
               prepared == [next EXCEPT ![L.new] = Ref(L.right)]
    <2>1. UNCHANGED <<key, alloc, loc, usage>> /\ pc[th] # "idle" /\ L.op = "insert"
          /\ (present' = present \/ present' = present \cup {L.key})
          /\ (next' = prepared \/ next' = [prepared EXCEPT ![L.left] = Ref(L.new)])
          /\ \E l \in {"start", "idle"} : Goto(th, l)
      BY <1>6 DEF InsertLink, At
    <2>2. PICK l \in {"start", "idle"} : Goto(th, l)
      BY <2>1
    <2>3. prepared \in [Nodes \cup {Head} -> Refs]
      BY <1>t, <1>l DEF TypeOK
    <2> HIDE DEF prepared
    <2>4. next' \in [Nodes \cup {Head} -> Refs]
      BY <1>l, <2>1, <2>3
    <2>5. /\ loc' \in [Threads -> Locals] /\ pc' \in [Threads -> PCs]
          /\ OthersKeep(th) /\ pc'[th] = l
      BY <1>t, <2>1, <2>2, GotoKeeps DEF PCs
    <2>6. Allowed(th)' /\ Steady(th)'
      BY <1>t, <2>1, <2>5 DEF Allowed, Steady
    <2>7. present' \in SUBSET Keys
      BY <1>t, <2>1 DEF TypeOK, Steady
    <2> QED
      BY <1>t, <2>1, <2>4, <2>5, <2>6, <2>7, BaseThread DEF TypeOK
  <1>7. CASE DeleteRead(th)
    <2>1. UNCHANGED <<next, key, alloc, present, usage>> /\ At(th, "found", {"delete"})
      BY <1>7 DEF DeleteRead
    <2>2. Allowed(th)'
      BY <1>7, <1>t, <2>1, ReadLocals DEF Allowed, SameCall, At
    <2>3. Steady(th)'
      BY <1>7, <1>t, <1>l, <2>1, ReadLocals DEF Steady, SameCall, SameEnds, At, Match
    <2> QED
      BY <1>7, <1>t, <2>1, <2>2, <2>3, ReadLocals, BaseThread DEF TypeOK
  <1>8. CASE DeleteMark(th)
    <2>1. UNCHANGED <<key, alloc, loc, usage>> /\ pc[th] = "mark"
          /\ (present' = present \/ present' = present \ {loc[th].key})
          /\ \/ next' = next
             \/ next' = [next EXCEPT ![loc[th].right] =
                                get_marked_reference(loc[th].right_next)]
          /\ \E l \in {"start", "unlink"} : Goto(th, l)
      BY <1>8 DEF DeleteMark
    <2>2. PICK l \in {"start", "unlink"} : Goto(th, l)
      BY <2>1
    <2>4. next' \in [Nodes \cup {Head} -> Refs]
      BY <1>t, <1>l, <2>1 DEF TypeOK
    <2>5. /\ loc' \in [Threads -> Locals] /\ pc' \in [Threads -> PCs]
          /\ OthersKeep(th) /\ pc'[th] = l
      BY <1>t, <2>1, <2>2, GotoKeeps DEF PCs
    <2>6. Allowed(th)' /\ Steady(th)'
      BY <1>t, <2>1, <2>5 DEF Allowed, Steady
    <2> QED
      BY <1>t, <2>1, <2>4, <2>5, <2>6, BaseThread DEF TypeOK
  <1>9. CASE DeleteUnlink(th)
    <2>1. UNCHANGED <<key, alloc, present, usage>> /\ pc[th] = "unlink"
      BY <1>9 DEF DeleteUnlink
    <2>2. next' \in [Nodes \cup {Head} -> Refs]
      BY <1>9, <1>t, <1>l, UnlinkLocals DEF TypeOK
    <2>3. Allowed(th)'
      BY <1>9, <1>t, <2>1, UnlinkLocals DEF Allowed, Steady
    <2>4. Steady(th)'
      BY <1>9, <1>t, <2>1, UnlinkLocals DEF Steady, SameEnds
    <2> QED
      BY <1>9, <1>t, <2>1, <2>2, <2>3, <2>4, UnlinkLocals, BaseThread DEF TypeOK
  <1> QED
    BY <1>1, <1>2, <1>3, <1>4, <1>5, <1>6, <1>7, <1>8, <1>9
    DEF Search, lstInsert, lstDelete

\* The locals and the references of a list keep their types: every value that
\* search and the operations put into a next pointer is a list element or NULL.
THEOREM ListTypeCorrect == Spec => []TypeOK
  <1>1. Init => BaseInv
    BY BaseInit, KeysAssumption, NodesAssumption, UsagesAssumption
  <1>2. BaseInv /\ [Next]_vars => BaseInv'
    BY BaseStep, KeysAssumption, NodesAssumption, UsagesAssumption
  <1>3. BaseInv => TypeOK
    BY DEF BaseInv
  <1> QED
    BY <1>1, <1>2, <1>3, PTL DEF Spec

-----------------------------------------------------------------------------
(***************************************************************************)
(* Deletes that race for an element.                                       *)
(***************************************************************************)

\* A compare-and-swap expects an unmarked reference, so it finds no element
\* that is being deleted; the one plain store is to an element being inserted.
LEMMA MarksStay ==
    ASSUME NodesAssumption, BaseInv, FillsOrDeletes(usage), DeleteHasOneWinner, Next,
           NEW u \in Threads, pc[u] = "unlink"
    PROVE  next'[loc[u].right].mark
  <1> DEFINE n == loc[u].right
  <1>1. n \in Nodes /\ next[n].mark /\ loc[u].op = "delete" /\ "delete" \in usage.ops[u]
    BY DEF BaseInv, Steady, Allowed, DeleteHasOneWinner
  <1>2. PICK th \in Threads : \/ Call(th) \/ Search(th) \/ lstInsert(th)
                              \/ lstDelete(th) \/ FindReturn(th)
    BY DEF Next
  <1>t. /\ next \in [Nodes \cup {Head} -> Refs] /\ loc[th] \in Locals
        /\ loc[th].left \in Nodes \cup {Head} /\ Steady(th) /\ Allowed(th)
    BY LocalTypes DEF BaseInv, TypeOK
  <1>3. CASE next' = next
    BY <1>1, <1>3
  <1>4. CASE SearchAdjacent(th)
    <2>1. \/ next' = next
          \/ /\ next[loc[th].left] = loc[th].left_next
             /\ next' = [next EXCEPT ![loc[th].left] = Ref(loc[th].right)]
      BY <1>4 DEF SearchAdjacent
    <2>2. ~loc[th].left_next.mark
      BY <1>t DEF Steady
    <2> QED
      BY <1>1, <1>t, <2>1, <2>2
  <1>5. CASE InsertLink(th)
    <2>1. th # u /\ "insert" \in usage.ops[th]
      BY <1>5, <1>t DEF InsertLink, At, Allowed
    <2> QED
      BY <1>1, <2>1 DEF FillsOrDeletes
  <1>6. CASE DeleteMark(th)
    <2>1. \/ next' = next
          \/ /\ next[loc[th].right] = loc[th].right_next
             /\ next' = [next EXCEPT ![loc[th].right] =
                            get_marked_reference(loc[th].right_next)]
      BY <1>6 DEF DeleteMark
    <2>2. ~loc[th].right_next.mark
      BY <1>6, <1>t DEF Steady, DeleteMark
    <2> QED
      BY <1>1, <1>t, <2>1, <2>2
  <1>7. CASE DeleteUnlink(th)
    <2>1. \/ next' = next
          \/ /\ next[loc[th].left] = Ref(loc[th].right)
             /\ next' = [next EXCEPT ![loc[th].left] = loc[th].right_next]
      BY <1>7 DEF DeleteUnlink
    <2>2. ~Ref(loc[th].right).mark
      BY DEF Ref
    <2> QED
      BY <1>1, <1>t, <2>1, <2>2
  <1> QED
    BY <1>2, <1>3, <1>4, <1>5, <1>6, <1>7
    DEF Call, Search, SearchStart, SearchWalk, SearchCheck, lstInsert, InsertDuplicate,
        lstDelete, DeleteRead, DeleteCleanup, DeleteFree, FindReturn

\* Only the compare-and-swap that marks an element leads to its removal.
LEMMA WinnersMark ==
    ASSUME BaseInv, NodesAssumption, UsagesAssumption, Next,
           NEW u \in Threads, pc'[u] = "unlink"
    PROVE  /\ loc'[u].right = loc[u].right
           /\ \/ pc[u] = "unlink"
              \/ /\ DeleteMark(u)
                 /\ next[loc[u].right] = loc[u].right_next
                 /\ next' = [next EXCEPT ![loc[u].right] =
                                get_marked_reference(loc[u].right_next)]
  <1>1. PICK th \in Threads : \/ Call(th) \/ Search(th) \/ lstInsert(th)
                              \/ lstDelete(th) \/ FindReturn(th)
    BY DEF Next
  <1>t. TypeOK /\ Steady(th)
    BY DEF BaseInv
  <1>2. CASE Call(th) \/ SearchStart(th) \/ SearchWalk(th) \/ DeleteRead(th) \/ DeleteUnlink(th)
    <2>1. OthersKeep(th) /\ pc'[th] # "unlink"
      BY <1>2, <1>t, CallLocals, StartLocals, WalkLocals, ReadLocals, UnlinkLocals
    <2> QED
      BY <2>1 DEF OthersKeep
  <1>3. CASE \/ SearchAdjacent(th) \/ SearchCheck(th) \/ lstInsert(th) \/ DeleteCleanup(th)
             \/ DeleteFree(th) \/ FindReturn(th)
    <2>1. loc' = loc /\ \E l \in PCs \ {"unlink"} : Goto(th, l)
      BY <1>3 DEF SearchAdjacent, SearchCheck, lstInsert, InsertDuplicate, InsertLink,
                  DeleteCleanup, DeleteFree, FindReturn, SearchReturn, PCs
    <2>2. OthersKeep(th) /\ pc'[th] # "unlink"
      BY <1>t, <2>1, GotoKeeps
    <2> QED
      BY <2>1, <2>2 DEF OthersKeep
  <1>4. CASE DeleteMark(th)
    <2>1. loc' = loc /\ pc[th] = "mark" /\ \E l \in PCs : Goto(th, l)
      BY <1>4 DEF DeleteMark, PCs
    <2>2. OthersKeep(th)
      BY <1>t, <2>1, GotoKeeps
    <2>3. CASE u # th
      BY <2>1, <2>2, <2>3 DEF OthersKeep
    <2>4. CASE u = th
      BY <1>4, <1>t, <2>1, <2>4 DEF DeleteMark, Goto, TypeOK
    <2> QED
      BY <2>3, <2>4
  <1> QED
    BY <1>1, <1>2, <1>3, <1>4 DEF Search, lstDelete

LEMMA WinnerStep ==
    ASSUME NodesAssumption, UsagesAssumption, BaseInv, FillsOrDeletes(usage),
           DeleteHasOneWinner, [Next]_vars
    PROVE  DeleteHasOneWinner'
  <1>0. CASE UNCHANGED vars
    BY <1>0 DEF vars, DeleteHasOneWinner
  <1>1. CASE Next
    <2>t. next \in [Nodes \cup {Head} -> Refs]
      BY DEF BaseInv, TypeOK
    <2>1. ASSUME NEW th \in Threads, pc'[th] = "unlink"
          PROVE  next'[loc'[th].right].mark
      <3>1. CASE pc[th] = "unlink"
        BY <1>1, <2>1, <3>1, MarksStay, WinnersMark
      <3>2. CASE pc[th] # "unlink"
        <4>1. /\ DeleteMark(th) /\ loc'[th].right = loc[th].right
              /\ next' = [next EXCEPT ![loc[th].right] =
                            get_marked_reference(loc[th].right_next)]
          BY <1>1, <2>1, <3>2, WinnersMark
        <4>2. loc[th].right \in Nodes /\ loc[th].right_next \in Refs
          BY <4>1, LocalTypes DEF BaseInv, Steady, DeleteMark, TypeOK
        <4>3. get_marked_reference(loc[th].right_next).mark
          BY <4>2, RefType
        <4> QED
          BY <2>t, <4>1, <4>2, <4>3
      <3> QED
        BY <3>1, <3>2
    <2>2. ASSUME NEW th \in Threads, pc'[th] = "unlink",
                 NEW u \in Threads \ {th}, pc'[u] = "unlink"
          PROVE  loc'[u].right # loc'[th].right
      <3>1. CASE pc[th] = "unlink" /\ pc[u] = "unlink"
        BY <1>1, <2>2, <3>1, WinnersMark DEF DeleteHasOneWinner
      <3>2. ASSUME NEW v \in Threads, NEW w \in Threads, v # w,
                   pc'[v] = "unlink", pc[v] # "unlink", pc'[w] = "unlink"
            PROVE  loc'[v].right # loc'[w].right
        <4>1. /\ DeleteMark(v) /\ next[loc[v].right] = loc[v].right_next
              /\ loc'[v].right = loc[v].right /\ loc'[w].right = loc[w].right
          BY <1>1, <3>2, WinnersMark
        <4>2. ~next[loc[v].right].mark
          BY <4>1 DEF BaseInv, Steady, DeleteMark
        <4>3. \E l \in PCs : Goto(v, l) /\ loc' = loc
          BY <4>1 DEF DeleteMark, PCs
        <4>4. pc[w] = "unlink"
          BY <3>2, <4>3, GotoKeeps DEF BaseInv, OthersKeep
        <4>5. next[loc[w].right].mark
          BY <4>4 DEF DeleteHasOneWinner
        <4> QED
          BY <4>1, <4>2, <4>5
      <3> QED
        BY <2>2, <3>1, <3>2
    <2> QED
      BY <2>1, <2>2 DEF DeleteHasOneWinner
  <1> QED
    BY <1>0, <1>1

\* For any number of threads that delete, on any list: of the calls that race
\* for an element, one has marked it, as long as no other thread inserts
\* meanwhile.  Then no freed element is handed out again under a delete.
THEOREM OneWinner ==
    ASSUME \A u \in Usages : FillsOrDeletes(u)
    PROVE  Spec => []DeleteHasOneWinner
  <1> DEFINE Inv == BaseInv /\ DeleteHasOneWinner
  <1>1. Init => Inv
    <2>1. Init => BaseInv
      BY BaseInit, KeysAssumption, NodesAssumption, UsagesAssumption
    <2>2. Init => DeleteHasOneWinner
      BY DEF Init, DeleteHasOneWinner
    <2> QED
      BY <2>1, <2>2
  <1>2. Inv /\ [Next]_vars => Inv'
    <2>1. BaseInv => FillsOrDeletes(usage)
      BY DEF BaseInv, TypeOK
    <2>2. BaseInv /\ [Next]_vars => BaseInv'
      BY BaseStep, KeysAssumption, NodesAssumption, UsagesAssumption
    <2>3. Inv /\ [Next]_vars => DeleteHasOneWinner'
      BY <2>1, WinnerStep, NodesAssumption, UsagesAssumption
    <2> QED
      BY <2>2, <2>3
  <1>3. Inv => DeleteHasOneWinner
    OBVIOUS
  <1> QED
    BY <1>1, <1>2, <1>3, PTL DEF Spec

-----------------------------------------------------------------------------
(***************************************************************************)
(* A list that one thread at a time may delete from.                       *)
(***************************************************************************)
LEMMA InListTypes ==
    ASSUME KeysAssumption, NodesAssumption, BaseInv, ListInv
    PROVE  /\ InList \subseteq alloc /\ InList \subseteq Nodes
           /\ \A n \in InList : n # Head /\ n # NULL /\ key[n] \in Nat /\ 0 < key[n]
                                /\ KeyOf(n) = key[n]
           /\ KeyOf(Head) = 0
           /\ \A n \in InList \cup {Head} :
                 /\ n \in Nodes \cup {Head} /\ KeyOf(n) \in Nat /\ next[n] \in Refs
                 /\ next[n].ptr \in InList \cup {NULL}
  <1>1. InList \subseteq alloc /\ InList \subseteq Nodes
    BY DEF InList, BaseInv, TypeOK
  <1>2. \A n \in InList : n # Head /\ n # NULL /\ key[n] \in Nat /\ 0 < key[n]
    <2>1. ASSUME NEW n \in InList PROVE n # Head /\ n # NULL /\ key[n] \in Nat /\ 0 < key[n]
      <3>1. key[n] \in Nat \ {0}
        BY DEF ListInv, Chain, KeysAssumption
      <3>2. n # Head /\ n # NULL
        BY <1>1 DEF NodesAssumption
      <3> QED
        BY <3>1, <3>2
    <2> QED
      BY <2>1
  <1>3. \A n \in InList \cup {Head} : next[n].ptr \in InList \cup {NULL}
    BY DEF ListInv, Chain, Succeeded
  <1> QED
    BY <1>1, <1>2, <1>3 DEF KeyOf, BaseInv, TypeOK

\* While a thread deletes the others do nothing.
LEMMA DeleterIsAlone ==
    ASSUME BaseInv, DeletesAlone, NEW th \in Threads, pc[th] # "idle", loc[th].op = "delete",
           NEW u \in Threads, u # th
    PROVE  pc[u] = "idle"
  <1>1. "delete" \in usage.ops[th]
    BY DEF BaseInv, Allowed
  <1>2. usage.ops[u] = {}
    BY <1>1 DEF DeletesAlone
  <1> QED
    BY <1>2 DEF BaseInv, Allowed

\* So an element that is marked is seen by the thread that marked it only.
LEMMA NoMarksInSight ==
    ASSUME BaseInv, DeletesAlone, ListInv, NEW th \in Threads, pc[th] \notin {"idle", "unlink"},
           NEW n \in InList \cup {Head}
    PROVE  ~next[n].mark
  <1>1. SUFFICES ASSUME next[n].mark PROVE FALSE
    OBVIOUS
  <1>2. PICK u \in Threads : pc[u] = "unlink" /\ loc[u].right = n
    BY <1>1 DEF ListInv, Chain, MarkedByDelete
  <1>3. loc[u].op = "delete"
    BY <1>2 DEF BaseInv, Steady
  <1> QED
    BY <1>2, <1>3, DeleterIsAlone

\* A step that leaves the list as it is
Untouched ==
    /\ InList' = InList
    /\ \A n \in InList \cup {Head} : next'[n] = next[n]
    /\ \A n \in InList : key'[n] = key[n]
    /\ present' = present /\ usage' = usage

LEMMA FrameChain ==
    ASSUME KeysAssumption, NodesAssumption, BaseInv, ListInv, Untouched,
           NEW th \in Threads, OthersKeep(th), pc[th] # "unlink"
    PROVE  Chain'
  <1>t. /\ InList \subseteq Nodes
        /\ \A n \in InList \cup {Head} : next[n].ptr \in InList \cup {NULL}
        /\ \A n \in InList : n # Head /\ n # NULL
    BY InListTypes
  <1>u. /\ InList' = InList /\ present' = present
        /\ \A n \in InList \cup {Head} : next'[n] = next[n]
        /\ \A n \in InList : key'[n] = key[n]
    BY DEF Untouched
  <1>k. \A n \in InList \cup {Head} : KeyOf(n)' = KeyOf(n)
    BY <1>t, <1>u DEF KeyOf
  <1>1. ASSUME NEW n \in InList \cup {Head} PROVE Succeeded(n)'
    <2>1. Succeeded(n) /\ KeyOf(n)' = KeyOf(n) /\ next'[n] = next[n]
      BY <1>k, <1>u DEF ListInv, Chain
    <2>2. next[n].ptr # NULL => key'[next[n].ptr] = key[next[n].ptr]
      BY <1>t, <1>u
    <2>3. /\ next'[n].ptr \in InList \cup {NULL}
          /\ next'[n].ptr # NULL => KeyOf(n)' < key'[next'[n].ptr]
      BY <2>1, <2>2 DEF Succeeded
    <2>4. ASSUME NEW m \in InList, KeyOf(n)' < key'[m]
          PROVE  next'[n].ptr # NULL /\ key'[next'[n].ptr] <= key'[m]
      <3>1. KeyOf(n) < key[m] /\ key'[m] = key[m]
        BY <2>1, <2>4, <1>u
      <3>2. next[n].ptr # NULL /\ key[next[n].ptr] <= key[m]
        BY <2>1, <3>1 DEF Succeeded
      <3> QED
        BY <2>1, <2>2, <3>1, <3>2
    <2> QED
      BY <1>u, <2>3, <2>4 DEF Succeeded
  <1>2. ASSUME NEW n \in InList \cup {Head} PROVE MarkedByDelete(n)'
    <2>1. SUFFICES ASSUME next[n].mark
                   PROVE  \E w \in Threads : pc'[w] = "unlink" /\ loc'[w].right = n
      BY <1>u DEF MarkedByDelete
    <2>2. PICK w \in Threads : pc[w] = "unlink" /\ loc[w].right = n
      BY <2>1 DEF ListInv, Chain, MarkedByDelete
    <2> QED
      BY <2>2 DEF OthersKeep
  <1>3. /\ \A n \in InList' : key'[n] \in Keys
        /\ \A m, n \in InList' : key'[m] = key'[n] => m = n
    BY <1>u DEF ListInv, Chain
  <1>4. ASSUME NEW k \in Keys
        PROVE  k \in present' <=> \E n \in InList' : key'[n] = k /\ ~next'[n].mark
    <2>1. k \in present <=> \E n \in InList : key[n] = k /\ ~next[n].mark
      BY DEF ListInv, Chain
    <2> QED
      BY <2>1, <1>u
  <1> QED
    BY <1>u, <1>1, <1>2, <1>3, <1>4 DEF Chain

\* Then what the other calls know stays true.
LEMMA FrameCalls ==
    ASSUME KeysAssumption, NodesAssumption, BaseInv, ListInv, Untouched,
           NEW th \in Threads, OthersKeep(th), OwnElement(th)',
           NEW u \in Threads, u # th,
           Private(u) => loc[u].new \in alloc' /\ key'[loc[u].new] = key[loc[u].new],
           pc[u] = "free" => loc[u].right \in alloc'
    PROVE  InCall(u)'
  <1>t. InList \subseteq Nodes /\ \A n \in InList : n # Head /\ n # NULL
    BY InListTypes
  <1>u. /\ InList' = InList /\ present' = present /\ pc'[u] = pc[u] /\ loc'[u] = loc[u]
        /\ \A n \in InList \cup {Head} : next'[n] = next[n]
        /\ \A n \in InList : key'[n] = key[n]
    BY DEF Untouched, OthersKeep
  <1>k. \A n \in InList \cup {Head} : KeyOf(n)' = KeyOf(n)
    BY <1>t, <1>u DEF KeyOf
  <1>i. InCall(u)
    BY DEF ListInv
  <1>1. OwnElement(u)'
    <2>1. SUFFICES ASSUME Private(u)
                   PROVE  /\ loc[u].new \in alloc' /\ key'[loc[u].new] = loc[u].key
                          /\ \A w \in Threads : w # u /\ Private(w)' => loc'[w].new # loc[u].new
      BY <1>u DEF OwnElement, Private
    <2>2. loc[u].new \in alloc' /\ key'[loc[u].new] = loc[u].key
      BY <1>i, <2>1 DEF InCall, OwnElement
    <2>3. ASSUME NEW w \in Threads, w # u, Private(w)' PROVE loc'[w].new # loc[u].new
      <3>1. CASE w = th
        <4>1. Private(u)'
          BY <1>u, <2>1 DEF Private
        <4> QED
          BY <1>u, <2>3, <3>1, <4>1 DEF OwnElement
      <3>2. CASE w # th
        BY <1>i, <2>1, <2>3, <3>2 DEF InCall, OwnElement, Private, OthersKeep
      <3> QED
        BY <3>1, <3>2
    <2> QED
      BY <2>2, <2>3
  <1>2. OnItsWay(u)'
    BY <1>i, <1>u, <1>k DEF InCall, OnItsWay
  <1>3. Arrived(u)'
    BY <1>i, <1>u, <1>k DEF InCall, Arrived
  <1>4. HasTarget(u)'
    BY <1>i, <1>u DEF InCall, HasTarget, Arrived
  <1>5. Undisturbed(u)'
    BY <1>i, <1>u DEF InCall, Undisturbed
  <1> QED
    BY <1>1, <1>2, <1>3, <1>4, <1>5 DEF InCall

LEMMA Frame ==
    ASSUME KeysAssumption, NodesAssumption, BaseInv, ListInv, Untouched,
           NEW th \in Threads, OthersKeep(th), pc[th] # "unlink", InCall(th)',
           \A u \in Threads : u # th =>
              /\ Private(u) => loc[u].new \in alloc' /\ key'[loc[u].new] = key[loc[u].new]
              /\ pc[u] = "free" => loc[u].right \in alloc'
    PROVE  ListInv'
  <1>1. Chain'
    BY FrameChain
  <1>2. OwnElement(th)'
    BY DEF InCall
  <1>3. ASSUME NEW u \in Threads PROVE InCall(u)'
    BY <1>2, FrameCalls
  <1> QED
    BY <1>1, <1>3 DEF ListInv

\* A step between two accesses to the list changes the call of its thread only.
LEMMA LocalStep ==
    ASSUME KeysAssumption, NodesAssumption, BaseInv, ListInv,
           NEW th \in Threads, OthersKeep(th), UNCHANGED <<next, key, alloc, present, usage>>,
           SameCall(loc'[th], loc[th]),
           pc[th] \notin {"idle", "free", "unlink"}, pc'[th] \notin {"free", "check", "crashed"},
           pc'[th] = "idle" => loc[th].op # "insert"
    PROVE  /\ InList' = InList /\ \A n \in InList \cup {Head} : KeyOf(n)' = KeyOf(n)
           /\ OnItsWay(th)' /\ Arrived(th)' /\ HasTarget(th)' => ListInv'
  <1>p. \A u \in Threads : Private(u)' <=> Private(u)
    BY DEF Private, OthersKeep, SameCall
  <1>n. \A u \in Threads : /\ loc'[u].new = loc[u].new
                           /\ pc'[u] = "free" <=> pc[u] = "free"
                           /\ pc[u] = "free" => loc'[u].right = loc[u].right
    BY DEF OthersKeep, SameCall
  <1>1. InList' = InList
    BY <1>p, <1>n DEF InList
  <1>2. \A n \in InList \cup {Head} : KeyOf(n)' = KeyOf(n)
    BY DEF KeyOf
  <1>3. Untouched
    BY <1>1 DEF Untouched
  <1>i. \A u \in Threads : InCall(u)
    BY DEF ListInv
  <1>4. OwnElement(th)'
    BY <1>i, <1>p, <1>n DEF InCall, OwnElement, SameCall
  <1>5. Undisturbed(th)'
    BY <1>i DEF InCall, Undisturbed, SameCall
  <1>6. \A u \in Threads : u # th =>
              /\ Private(u) => loc[u].new \in alloc' /\ key'[loc[u].new] = key[loc[u].new]
              /\ pc[u] = "free" => loc[u].right \in alloc'
    BY <1>i DEF InCall, OwnElement, HasTarget
  <1>7. ASSUME OnItsWay(th)', Arrived(th)', HasTarget(th)' PROVE ListInv'
    <2>1. InCall(th)'
      BY <1>4, <1>5, <1>7 DEF InCall
    <2> QED
      BY <2>1, <1>3, <1>6, Frame
  <1> QED
    BY <1>1, <1>2, <1>7

\* A key that is present is not before the successor of a smaller one.
LEMMA PresentIsAhead ==
    ASSUME KeysAssumption, NodesAssumption, BaseInv, ListInv, NEW n \in InList \cup {Head},
           NEW k \in present, KeyOf(n) < k
    PROVE  next[n].ptr # NULL /\ key[next[n].ptr] <= k
  <1>1. PICK m \in InList : key[m] = k
    BY DEF ListInv, Chain, BaseInv, TypeOK
  <1> QED
    BY <1>1 DEF ListInv, Chain, Succeeded

LEMMA ListSearchStart ==
    ASSUME KeysAssumption, NodesAssumption, BaseInv, DeletesAlone, ListInv,
           NEW th \in Threads, SearchStart(th)
    PROVE  ListInv'
  <1>1. UNCHANGED <<next, key, alloc, present, usage>> /\ pc[th] = "start" /\ TypeOK
    BY DEF SearchStart, BaseInv
  <1>2. /\ OthersKeep(th) /\ pc'[th] = "walk" /\ SameCall(loc'[th], loc[th])
        /\ loc'[th].t = Head /\ loc'[th].t_next = next[Head]
    BY <1>1, StartLocals
  <1>3. /\ InList' = InList /\ \A n \in InList \cup {Head} : KeyOf(n)' = KeyOf(n)
        /\ OnItsWay(th)' /\ Arrived(th)' /\ HasTarget(th)' => ListInv'
    BY <1>1, <1>2, LocalStep
  <1>4. ~next[Head].mark /\ next[Head].ptr \in InList \cup {NULL}
    BY <1>1, NoMarksInSight, InListTypes
  <1>5. KeyOf(Head) = 0 /\ loc[th].key \in Nat /\ 0 < loc[th].key
    <2>1. loc[th].key \in Keys
      BY <1>1 DEF BaseInv, Steady
    <2>2. loc[th].key \in Nat \ {0}
      BY <2>1 DEF KeysAssumption
    <2>3. KeyOf(Head) = 0
      BY DEF KeyOf
    <2> QED
      BY <2>2, <2>3
  <1>6. loc[th].op = "find" /\ loc[th].expect =>
            next[Head].ptr # NULL /\ key[next[Head].ptr] <= loc[th].key
    <2>1. loc[th].op = "find" /\ loc[th].expect => loc[th].key \in present
      BY <1>1 DEF ListInv, InCall, Undisturbed
    <2> QED
      BY <1>5, <2>1, PresentIsAhead
  <1>7. OnItsWay(th)'
    BY <1>1, <1>2, <1>3, <1>4, <1>5, <1>6 DEF OnItsWay, SameCall
  <1> QED
    BY <1>2, <1>3, <1>7 DEF Arrived, HasTarget

LEMMA ListSearchWalk ==
    ASSUME KeysAssumption, NodesAssumption, BaseInv, DeletesAlone, ListInv,
           NEW th \in Threads, SearchWalk(th)
    PROVE  ListInv'
  <1> DEFINE L == loc[th]
             M == loc'[th]
             a == Ahead(th)
  <1>1. UNCHANGED <<next, key, alloc, present, usage>> /\ pc[th] = "walk" /\ TypeOK /\ Steady(th)
    BY DEF SearchWalk, BaseInv
  <1>i. OnItsWay(th) /\ Undisturbed(th)
    BY DEF ListInv, InCall
  <1>2. /\ OthersKeep(th) /\ pc'[th] = IF GoesOn(th) THEN "walk" ELSE "adjacent"
        /\ SameCall(M, L) /\ M.t = a /\ M.right = a
        /\ a # NULL => M.t_next = next[a]
        /\ M.left = L.t /\ M.left_next = L.t_next
    BY <1>1, <1>i, WalkLocals DEF OnItsWay
  <1>3. /\ InList' = InList /\ \A n \in InList \cup {Head} : KeyOf(n)' = KeyOf(n)
        /\ OnItsWay(th)' /\ Arrived(th)' /\ HasTarget(th)' => ListInv'
    BY <1>1, <1>2, LocalStep
  <1>4. /\ L.t \in InList \cup {Head} /\ KeyOf(L.t) < L.key
        /\ L.t_next = Ref(a) /\ a \in InList \cup {NULL}
        /\ L.op = "find" /\ L.expect => a # NULL /\ key[a] <= L.key
        /\ L.op = "delete" => L.t_next = next[L.t]
    <2>1. L.t_next \in Refs
      BY <1>1, LocalTypes DEF TypeOK
    <2> QED
      BY <1>1, <1>i, <2>1, RefType DEF OnItsWay, Ahead
  <1>5. /\ L.key \in Nat
        /\ a # NULL => /\ key[a] \in Nat /\ KeyOf(a) = key[a] /\ ~next[a].mark
                       /\ next[a].ptr \in InList \cup {NULL}
    <2>1. L.key \in Keys
      BY <1>1 DEF Steady
    <2>2. a # NULL => /\ key[a] \in Nat /\ KeyOf(a) = key[a]
                      /\ next[a].ptr \in InList \cup {NULL}
      BY <1>4, InListTypes
    <2>3. a # NULL => ~next[a].mark
      BY <1>1, <1>4, NoMarksInSight
    <2> QED
      BY <2>1, <2>2, <2>3 DEF KeysAssumption
  <1> HIDE DEF a
  <1>6. CASE GoesOn(th)
    <2>1. a \in InList /\ a # NULL /\ key[a] < L.key
      BY <1>4, <1>5, <1>6 DEF GoesOn, a
    <2>2. L.op = "find" /\ L.expect => next[a].ptr # NULL /\ key[next[a].ptr] <= L.key
      <3>1. L.op = "find" /\ L.expect => L.key \in present
        BY <1>1, <1>i DEF Undisturbed
      <3> QED
        BY <1>5, <2>1, <3>1, PresentIsAhead
    <2>3. OnItsWay(th)'
      BY <1>1, <1>2, <1>3, <1>5, <2>1, <2>2 DEF OnItsWay, SameCall
    <2> QED
      BY <1>2, <1>3, <1>6, <2>3 DEF Arrived, HasTarget
  <1>7. CASE ~GoesOn(th)
    <2>1. a # NULL => L.key <= key[a]
      BY <1>5, <1>7 DEF GoesOn, a
    <2>2. L.op = "find" /\ L.expect => a # NULL /\ key[a] = L.key
      BY <1>4, <1>5, <2>1
    <2>3. L.op = "delete" => next[L.t] = Ref(a)
      BY <1>4
    <2>4. Arrived(th)'
      BY <1>1, <1>2, <1>3, <1>4, <1>7, <2>1, <2>2, <2>3 DEF Arrived, SameCall
    <2> QED
      BY <1>2, <1>3, <1>7, <2>4 DEF OnItsWay, HasTarget
  <1> QED
    BY <1>6, <1>7

LEMMA ListSearchAdjacent ==
    ASSUME KeysAssumption, NodesAssumption, BaseInv, DeletesAlone, ListInv,
           NEW th \in Threads, SearchAdjacent(th)
    PROVE  ListInv'
  <1>1. /\ UNCHANGED <<key, alloc, loc, present, usage>> /\ pc[th] = "adjacent" /\ TypeOK
        /\ Arrived(th)
    BY DEF SearchAdjacent, BaseInv, ListInv, InCall
  <1>2. loc[th].left_next = Ref(loc[th].right) /\ loc[th].right \in InList \cup {NULL}
    BY <1>1 DEF Arrived
  <1>3. ~Marked(loc[th].right)
    BY <1>1, <1>2, NoMarksInSight DEF Marked
  <1>4. next' = next /\ Goto(th, "found")
    BY <1>2, <1>3 DEF SearchAdjacent, SearchReturn
  <1>5. OthersKeep(th) /\ pc'[th] = "found"
    BY <1>1, <1>4, GotoKeeps DEF PCs
  <1>6. /\ InList' = InList /\ \A n \in InList \cup {Head} : KeyOf(n)' = KeyOf(n)
        /\ OnItsWay(th)' /\ Arrived(th)' /\ HasTarget(th)' => ListInv'
    BY <1>1, <1>4, <1>5, LocalStep DEF SameCall
  <1>7. Arrived(th)'
    BY <1>1, <1>4, <1>5, <1>6 DEF Arrived
  <1> QED
    BY <1>5, <1>6, <1>7 DEF OnItsWay, HasTarget

LEMMA ListFindReturn ==
    ASSUME KeysAssumption, NodesAssumption, BaseInv, DeletesAlone, ListInv,
           NEW th \in Threads, FindReturn(th)
    PROVE  ListInv'
  <1>1. /\ UNCHANGED <<next, key, alloc, loc, present, usage>> /\ pc[th] = "found"
        /\ loc[th].op = "find" /\ Goto(th, "idle") /\ TypeOK
    BY DEF FindReturn, At, BaseInv
  <1>2. OthersKeep(th) /\ pc'[th] = "idle"
    BY <1>1, GotoKeeps DEF PCs
  <1>3. OnItsWay(th)' /\ Arrived(th)' /\ HasTarget(th)' => ListInv'
    BY <1>1, <1>2, LocalStep DEF SameCall
  <1> QED
    BY <1>2, <1>3 DEF OnItsWay, Arrived, HasTarget

LEMMA ListDeleteRead ==
    ASSUME KeysAssumption, NodesAssumption, BaseInv, DeletesAlone, ListInv,
           NEW th \in Threads, DeleteRead(th)
    PROVE  ListInv'
  <1>1. /\ UNCHANGED <<next, key, alloc, present, usage>> /\ pc[th] = "found"
        /\ loc[th].op = "delete" /\ TypeOK /\ Arrived(th)
    BY DEF DeleteRead, At, BaseInv, ListInv, InCall
  <1>2. /\ OthersKeep(th) /\ SameCall(loc'[th], loc[th]) /\ SameEnds(loc'[th], loc[th])
        /\ \/ ~Match(th) /\ pc'[th] = "idle"
           \/ /\ Match(th) /\ loc'[th].right_next = next[loc[th].right]
              /\ pc'[th] = IF next[loc[th].right].mark THEN "start" ELSE "mark"
    BY <1>1, ReadLocals
  <1>3. /\ InList' = InList /\ \A n \in InList \cup {Head} : KeyOf(n)' = KeyOf(n)
        /\ OnItsWay(th)' /\ Arrived(th)' /\ HasTarget(th)' => ListInv'
    BY <1>1, <1>2, LocalStep
  <1>4. CASE ~Match(th)
    BY <1>2, <1>3, <1>4 DEF OnItsWay, Arrived, HasTarget
  <1>5. CASE Match(th)
    <2>1. /\ loc[th].right \in InList /\ loc[th].right # NULL
          /\ key[loc[th].right] = loc[th].key
      BY <1>1, <1>5 DEF Arrived, Match
    <2>2. ~next[loc[th].right].mark
      BY <1>1, <2>1, NoMarksInSight
    <2>3. pc'[th] = "mark" /\ loc'[th].right_next = next[loc[th].right]
      BY <1>2, <1>5, <2>2
    <2>4. Arrived(th)'
      BY <1>1, <1>2, <1>3, <2>3 DEF Arrived, SameCall, SameEnds
    <2>5. HasTarget(th)'
      BY <1>1, <1>2, <2>1, <2>2, <2>3 DEF HasTarget, SameCall, SameEnds
    <2> QED
      BY <1>3, <2>3, <2>4, <2>5 DEF OnItsWay
  <1> QED
    BY <1>4, <1>5

LEMMA ListInsertDuplicate ==
    ASSUME KeysAssumption, NodesAssumption, BaseInv, DeletesAlone, ListInv,
           NEW th \in Threads, InsertDuplicate(th)
    PROVE  ListInv'
  <1>1. /\ UNCHANGED <<next, key, loc, present, usage>> /\ pc[th] = "found"
        /\ loc[th].op = "insert" /\ Goto(th, "idle") /\ TypeOK
        /\ alloc' = alloc \ {loc[th].new}
    BY DEF InsertDuplicate, At, BaseInv
  <1>2. OthersKeep(th) /\ pc'[th] = "idle"
    BY <1>1, GotoKeeps DEF PCs
  <1>i. \A u \in Threads : InCall(u)
    BY DEF ListInv
  <1>f. \A u \in Threads : pc[u] # "free"
    <2>1. ASSUME NEW u \in Threads, pc[u] = "free" PROVE FALSE
      <3>1. loc[u].op = "delete" /\ u # th
        BY <1>1, <1>i, <2>1 DEF InCall, HasTarget
      <3> QED
        BY <1>1, <2>1, <3>1, DeleterIsAlone
    <2> QED
      BY <2>1
  <1>p. Private(th) /\ ~Private(th)' /\ \A u \in Threads : u # th => (Private(u)' <=> Private(u))
    BY <1>1, <1>2 DEF Private, OthersKeep
  <1>3. InList' = InList
    <2>1. ASSUME NEW n \in InList PROVE n \in InList'
      BY <1>1, <1>2, <1>f, <1>p DEF InList, OthersKeep
    <2>2. ASSUME NEW n \in InList' PROVE n \in InList
      <3>1. n \in alloc /\ n # loc[th].new
        BY <1>1 DEF InList
      <3>2. \A u \in Threads : u # th => (Private(u) => n # loc[u].new)
        BY <1>1, <1>p DEF InList
      <3> QED
        BY <1>f, <3>1, <3>2 DEF InList
    <2> QED
      BY <2>1, <2>2
  <1>4. Untouched
    BY <1>1, <1>3 DEF Untouched
  <1>5. InCall(th)'
    BY <1>2, <1>p DEF InCall, OwnElement, OnItsWay, Arrived, HasTarget, Undisturbed
  <1>6. \A u \in Threads : u # th =>
              /\ Private(u) => loc[u].new \in alloc' /\ key'[loc[u].new] = key[loc[u].new]
              /\ pc[u] = "free" => loc[u].right \in alloc'
    BY <1>1, <1>f, <1>i, <1>p DEF InCall, OwnElement
  <1> QED
    BY <1>1, <1>2, <1>4, <1>5, <1>6, Frame

LEMMA ListDeleteFree ==
    ASSUME KeysAssumption, NodesAssumption, BaseInv, DeletesAlone, ListInv,
           NEW th \in Threads, DeleteFree(th)
    PROVE  ListInv'
  <1>i. \A u \in Threads : InCall(u)
    BY DEF ListInv
  <1>1. /\ UNCHANGED <<next, key, loc, present, usage>> /\ pc[th] = "free" /\ TypeOK
        /\ loc[th].op = "delete" /\ loc[th].right \in alloc
    BY <1>i DEF DeleteFree, BaseInv, InCall, HasTarget
  <1>2. Goto(th, "idle") /\ alloc' = alloc \ {loc[th].right}
    BY <1>1, NodesAssumption DEF DeleteFree, TypeOK, NodesAssumption
  <1>3. OthersKeep(th) /\ pc'[th] = "idle"
    BY <1>1, <1>2, GotoKeeps DEF PCs
  <1>o. \A u \in Threads : u # th => pc[u] = "idle"
    BY <1>1, DeleterIsAlone
  <1>p. \A u \in Threads : /\ ~Private(u) /\ ~Private(u)' /\ pc'[u] # "free"
                           /\ pc[u] = "free" => u = th
    BY <1>1, <1>3, <1>o DEF Private, OthersKeep
  <1>4. InList' = InList
    BY <1>1, <1>2, <1>p DEF InList
  <1>5. Untouched
    BY <1>1, <1>4 DEF Untouched
  <1>6. InCall(th)'
    BY <1>3, <1>p DEF InCall, OwnElement, OnItsWay, Arrived, HasTarget, Undisturbed
  <1>7. \A u \in Threads : u # th =>
              /\ Private(u) => loc[u].new \in alloc' /\ key'[loc[u].new] = key[loc[u].new]
              /\ pc[u] = "free" => loc[u].right \in alloc'
    BY <1>p
  <1> QED
    BY <1>1, <1>3, <1>5, <1>6, <1>7, Frame

LEMMA ListCall ==
    ASSUME KeysAssumption, NodesAssumption, UsagesAssumption, BaseInv, DeletesAlone, ListInv,
           NEW th \in Threads, Call(th)
    PROVE  ListInv'
  <1>i. \A u \in Threads : InCall(u)
    BY DEF ListInv
  <1>1. UNCHANGED <<next, present, usage>> /\ pc[th] = "idle" /\ TypeOK
    BY DEF Call, BaseInv
  <1>2. OthersKeep(th) /\ pc'[th] = "start"
    BY <1>1, CallLocals
  <1>3. PICK k \in Keys, op \in usage.ops[th] : Called(th, k, op)
    BY <1>1, CallLocals
  <1>c. op # "cleanup"
    BY <1>1 DEF TypeOK, UsagesAssumption
  <1>p. \A u \in Threads : u # th => (Private(u)' <=> Private(u)) /\ loc'[u] = loc[u]
                                     /\ (pc'[u] = "free" <=> pc[u] = "free")
    BY <1>2 DEF Private, OthersKeep
  <1>q. ~Private(th) /\ pc[th] # "free" /\ pc'[th] # "free"
    BY <1>1, <1>2 DEF Private
  <1>4. CASE op = "insert"
    <2>1. PICK n \in Nodes \ alloc : /\ loc'[th].new = n /\ alloc' = alloc \cup {n}
                                     /\ key' = [key EXCEPT ![n] = k]
      BY <1>3, <1>4 DEF Called
    <2>2. Private(th)' /\ loc'[th].op = "insert" /\ loc'[th].key = k
      BY <1>2, <1>3, <1>4 DEF Private, Called
    <2>3. InList' = InList
      <3>1. ASSUME NEW m \in InList PROVE m \in InList'
        BY <1>p, <1>q, <2>1 DEF InList
      <3>2. ASSUME NEW m \in InList' PROVE m \in InList
        <4>1. m \in alloc' /\ m # n
          BY <2>1, <2>2 DEF InList
        <4>2. \A u \in Threads : u # th => /\ Private(u) => m # loc[u].new
                                           /\ pc[u] = "free" => m # loc[u].right
          BY <1>p DEF InList
        <4> QED
          BY <1>q, <2>1, <4>1, <4>2 DEF InList
      <3> QED
        BY <3>1, <3>2
    <2>4. \A m \in Nodes : m # n => key'[m] = key[m]
      BY <1>1, <2>1 DEF TypeOK
    <2>5. Untouched
      <3>1. \A m \in InList : m \in Nodes /\ m # n
        BY <2>1, InListTypes
      <3> QED
        BY <1>1, <2>3, <2>4, <3>1 DEF Untouched
    <2>6. \A u \in Threads : u # th =>
              /\ Private(u) => loc[u].new \in alloc /\ loc[u].new \in alloc'
                               /\ key'[loc[u].new] = key[loc[u].new]
              /\ pc[u] = "free" => loc[u].right \in alloc'
      <3>1. alloc \subseteq Nodes
        BY <1>1 DEF TypeOK
      <3> QED
        BY <1>i, <2>1, <2>4, <3>1 DEF InCall, OwnElement, HasTarget
    <2>7. OwnElement(th)'
      <3>1. loc'[th].new \in alloc' /\ key'[loc'[th].new] = loc'[th].key
        BY <1>1, <2>1, <2>2 DEF TypeOK
      <3>2. ASSUME NEW u \in Threads, u # th, Private(u)' PROVE loc'[u].new # loc'[th].new
        BY <1>p, <2>1, <2>6, <3>2
      <3> QED
        BY <3>1, <3>2 DEF OwnElement
    <2>8. InCall(th)'
      BY <1>2, <2>2, <2>7 DEF InCall, OnItsWay, Arrived, HasTarget, Undisturbed
    <2> QED
      BY <1>1, <1>2, <2>5, <2>6, <2>8, Frame
  <1>5. CASE op # "insert"
    <2>1. /\ UNCHANGED <<alloc, key>> /\ loc'[th].op = op /\ loc'[th].key = k
          /\ loc'[th].expect = (k \in present)
      BY <1>3, <1>5 DEF Called
    <2>2. ~Private(th)'
      BY <1>5, <2>1 DEF Private
    <2>3. InList' = InList
      BY <1>p, <1>q, <2>1, <2>2 DEF InList
    <2>4. Untouched
      BY <1>1, <2>1, <2>3 DEF Untouched
    <2>5. \A u \in Threads : u # th =>
              /\ Private(u) => loc[u].new \in alloc' /\ key'[loc[u].new] = key[loc[u].new]
              /\ pc[u] = "free" => loc[u].right \in alloc'
      BY <1>i, <2>1 DEF InCall, OwnElement, HasTarget
    <2>6. InCall(th)'
      BY <1>1, <1>2, <1>c, <2>1, <2>2
      DEF InCall, OwnElement, OnItsWay, Arrived, HasTarget, Undisturbed
    <2> QED
      BY <1>1, <1>2, <2>4, <2>5, <2>6, Frame
  <1> QED
    BY <1>4, <1>5

LEMMA IdleInCall ==
    ASSUME NEW u \in Threads, pc'[u] = "idle"
    PROVE  InCall(u)'
  BY DEF InCall, OwnElement, OnItsWay, Arrived, HasTarget, Undisturbed, Private

\* If no key is between l and x, another element below x is before l.
LEMMA BeforeLeft ==
    ASSUME KeysAssumption, NodesAssumption, BaseInv, ListInv,
           NEW l \in InList \cup {Head}, NEW x \in Nat, KeyOf(l) < x,
           \A m \in InList : KeyOf(l) < key[m] => x <= key[m],
           NEW n \in InList \cup {Head}, n # l, KeyOf(n) < x
    PROVE  /\ l \in InList /\ KeyOf(n) < key[l] /\ key[l] < x
           /\ next[n].ptr # NULL /\ key[next[n].ptr] <= key[l]
  <1>t. /\ \A m \in InList : m # Head /\ key[m] \in Nat /\ 0 < key[m] /\ KeyOf(m) = key[m]
        /\ KeyOf(Head) = 0 /\ KeyOf(n) \in Nat /\ KeyOf(l) \in Nat
    BY InListTypes
  <1>1. ~(KeyOf(l) < KeyOf(n))
    BY <1>t
  <1>2. KeyOf(l) # KeyOf(n)
    BY <1>t DEF ListInv, Chain
  <1>3. KeyOf(n) < KeyOf(l)
    BY <1>t, <1>1, <1>2
  <1>4. l \in InList /\ KeyOf(l) = key[l]
    BY <1>t, <1>3
  <1> QED
    BY <1>3, <1>4 DEF ListInv, Chain, Succeeded

LEMMA ListInsertFails ==
    ASSUME KeysAssumption, NodesAssumption, BaseInv, DeletesAlone, ListInv,
           NEW th \in Threads, InsertLink(th), next[loc[th].left] # Ref(loc[th].right)
    PROVE  ListInv'
  <1> DEFINE L == loc[th]
  <1>i. \A u \in Threads : InCall(u)
    BY DEF ListInv
  <1>1. /\ UNCHANGED <<key, alloc, loc, usage>> /\ pc[th] = "found" /\ L.op = "insert"
        /\ present' = present /\ Goto(th, "start") /\ TypeOK
        /\ next' = [next EXCEPT ![L.new] = Ref(L.right)]
    BY DEF InsertLink, At, BaseInv
  <1>2. OthersKeep(th) /\ pc'[th] = "start"
    BY <1>1, GotoKeeps DEF PCs
  <1>p. Private(th) /\ \A u \in Threads : /\ Private(u)' <=> Private(u)
                                          /\ pc'[u] = "free" <=> pc[u] = "free"
    BY <1>1, <1>2 DEF Private, OthersKeep
  <1>3. InList' = InList
    BY <1>1, <1>p DEF InList
  <1>4. L.new \notin InList /\ L.new \in Nodes /\ Head \notin Nodes
    BY <1>i, <1>1, <1>p DEF InList, InCall, OwnElement, TypeOK, NodesAssumption
  <1>5. Untouched
    <2>1. \A n \in InList \cup {Head} : n \in Nodes \cup {Head} /\ n # L.new
      BY <1>4, InListTypes
    <2>2. \A n \in InList \cup {Head} : next'[n] = next[n]
      BY <1>1, <2>1 DEF TypeOK
    <2> QED
      BY <1>1, <1>3, <2>2 DEF Untouched
  <1>6. InCall(th)'
    BY <1>i, <1>1, <1>2, <1>p
    DEF InCall, OwnElement, OnItsWay, Arrived, HasTarget, Undisturbed
  <1>7. \A u \in Threads : u # th =>
              /\ Private(u) => loc[u].new \in alloc' /\ key'[loc[u].new] = key[loc[u].new]
              /\ pc[u] = "free" => loc[u].right \in alloc'
    BY <1>i, <1>1 DEF InCall, OwnElement, HasTarget
  <1> QED
    BY <1>1, <1>2, <1>5, <1>6, <1>7, Frame

LEMMA ListInsertLinks ==
    ASSUME KeysAssumption, NodesAssumption, BaseInv, DeletesAlone, ListInv,
           NEW th \in Threads, InsertLink(th), next[loc[th].left] = Ref(loc[th].right)
    PROVE  ListInv'
  <1> DEFINE L == loc[th]
             k == L.key
             prepared == [next EXCEPT ![L.new] = Ref(L.right)]
  <1>i. \A u \in Threads : InCall(u)
    BY DEF ListInv
  <1>1. /\ UNCHANGED <<key, alloc, loc, usage>> /\ pc[th] = "found" /\ L.op = "insert"
        /\ present' = present \cup {k} /\ Goto(th, "idle") /\ TypeOK /\ ~Match(th)
        /\ next' = [prepared EXCEPT ![L.left] = Ref(L.new)]
    BY DEF InsertLink, At, BaseInv
  <1>2. OthersKeep(th) /\ pc'[th] = "idle"
    BY <1>1, GotoKeeps DEF PCs
  <1>e. key' = key
    BY <1>1
  <1>d. \A u \in Threads : pc[u] # "idle" =>
            loc[u].op # "delete" /\ pc[u] \notin {"mark", "unlink", "free"}
    <2>1. ASSUME NEW u \in Threads, pc[u] # "idle" PROVE loc[u].op # "delete"
      BY <1>1, <2>1, DeleterIsAlone
    <2> QED
      BY <2>1, <1>i DEF InCall, HasTarget, BaseInv, Steady
  <1>p. /\ Private(th) /\ ~Private(th)'
        /\ \A u \in Threads : u # th => (Private(u)' <=> Private(u))
        /\ \A u \in Threads : pc[u] # "free" /\ pc'[u] # "free"
    BY <1>1, <1>2, <1>d DEF Private, OthersKeep
  <1>n. /\ L.new \in alloc /\ L.new \in Nodes /\ L.new \notin InList /\ key[L.new] = k
        /\ L.new # Head /\ L.new # NULL
    BY <1>i, <1>1, <1>p DEF InList, InCall, OwnElement, TypeOK, NodesAssumption
  <1>a. /\ L.left \in InList \cup {Head} /\ KeyOf(L.left) < k /\ k \in Keys /\ k \in Nat
        /\ L.right \in InList \cup {NULL}
        /\ L.right # NULL => key[L.right] \in Nat /\ k < key[L.right]
    <2>1. /\ L.left \in InList \cup {Head} /\ KeyOf(L.left) < k
          /\ L.right \in InList \cup {NULL}
          /\ L.right # NULL => k <= key[L.right] /\ key[L.right] # k
      BY <1>i, <1>1 DEF InCall, Arrived, Match
    <2>2. k \in Keys /\ k \in Nat
      BY <1>1 DEF BaseInv, Steady, KeysAssumption
    <2>3. L.right # NULL => key[L.right] \in Nat
      BY <2>1, InListTypes
    <2> QED
      BY <2>1, <2>2, <2>3
  <1>t. /\ InList \subseteq Nodes
        /\ \A n \in InList : n # Head /\ n # NULL /\ key[n] \in Nat /\ KeyOf(n) = key[n]
        /\ \A n \in InList \cup {Head} : n \in Nodes \cup {Head} /\ KeyOf(n) \in Nat
    BY InListTypes
  <1>x. /\ next'[L.left] = Ref(L.new) /\ next'[L.new] = Ref(L.right)
        /\ \A n \in InList \cup {Head} : n # L.left => next'[n] = next[n]
    <2>1. prepared \in [Nodes \cup {Head} -> Refs]
      BY <1>1, <1>n, RefType, LocalTypes DEF TypeOK
    <2>2. /\ prepared[L.new] = Ref(L.right)
          /\ \A n \in InList \cup {Head} : n # L.new /\ prepared[n] = next[n]
      BY <1>1, <1>n, <1>t DEF TypeOK
    <2> HIDE DEF prepared
    <2>3. L.left \in Nodes \cup {Head} /\ L.left # L.new
      BY <1>a, <1>t, <2>2
    <2> QED
      BY <1>1, <1>n, <1>t, <2>1, <2>2, <2>3
  <1>r. /\ Ref(L.new).ptr = L.new /\ ~Ref(L.new).mark
        /\ Ref(L.right).ptr = L.right /\ ~Ref(L.right).mark
    BY <1>a, <1>n, <1>t, RefType
  <1>l. InList' = InList \cup {L.new}
    <2>1. ASSUME NEW n \in InList PROVE n \in InList'
      BY <1>1, <1>p DEF InList
    <2>2. L.new \in InList'
      <3>1. \A u \in Threads : u # th /\ Private(u) => loc[u].new # L.new
        BY <1>i, <1>p DEF InCall, OwnElement
      <3> QED
        BY <1>1, <1>n, <1>p, <3>1 DEF InList
    <2>3. ASSUME NEW n \in InList', n # L.new PROVE n \in InList
      <3>1. n \in alloc /\ \A u \in Threads : u # th /\ Private(u) => n # loc[u].new
        BY <1>1, <1>p DEF InList
      <3> QED
        BY <1>p, <2>3, <3>1 DEF InList
    <2> QED
      BY <2>1, <2>2, <2>3
  <1>m. \A n \in InList \cup {Head} : ~next[n].mark
    BY <1>1, NoMarksInSight
  <1>s. \A m \in InList : KeyOf(L.left) < key[m] =>
            L.right # NULL /\ key[L.right] <= key[m] /\ k < key[m]
    <2>1. ASSUME NEW m \in InList, KeyOf(L.left) < key[m]
          PROVE  L.right # NULL /\ key[L.right] <= key[m]
      BY <1>a, <1>r, <2>1 DEF ListInv, Chain, Succeeded
    <2> QED
      BY <1>a, <1>t, <2>1
  <1>k. \A n \in InList \cup {Head} : KeyOf(n)' = KeyOf(n)
    BY <1>1 DEF KeyOf
  <1>3. ASSUME NEW n \in InList \cup {L.new, Head}
        PROVE  Succeeded(n)' /\ ~next'[n].mark
    <2>1. CASE n = L.left
      <3>1. next'[n].ptr = L.new /\ ~next'[n].mark /\ KeyOf(n)' < key[L.new]
        BY <1>a, <1>k, <1>n, <1>r, <1>x, <2>1
      <3>2. ASSUME NEW m \in InList \cup {L.new}, KeyOf(n)' < key[m]
            PROVE  key[L.new] <= key[m]
        BY <1>a, <1>k, <1>n, <1>s, <1>t, <2>1, <3>2
      <3> QED
        BY <1>e, <1>l, <1>n, <3>1, <3>2 DEF Succeeded
    <2>2. CASE n = L.new
      <3>1. next'[n].ptr = L.right /\ ~next'[n].mark
        BY <1>r, <1>x, <2>2
      <3>2. KeyOf(n)' = k
        BY <1>1, <1>n, <2>2 DEF KeyOf
      <3>3. ASSUME NEW m \in InList \cup {L.new}, k < key[m]
            PROVE  L.right # NULL /\ key[L.right] <= key[m]
        <4>1. m \in InList
          BY <1>a, <1>n, <3>3
        <4>2. KeyOf(L.left) < key[m]
          BY <1>a, <1>t, <3>3, <4>1
        <4> QED
          BY <1>s, <4>1, <4>2
      <3> QED
        BY <1>e, <1>a, <1>l, <3>1, <3>2, <3>3 DEF Succeeded
    <2>3. CASE n # L.left /\ n # L.new
      <3>1. n \in InList \cup {Head} /\ next'[n] = next[n] /\ KeyOf(n)' = KeyOf(n)
        BY <1>k, <1>x, <2>3
      <3>2. Succeeded(n) /\ ~next[n].mark
        BY <1>m, <3>1 DEF ListInv, Chain
      <3>3. ASSUME KeyOf(n) < k PROVE next[n].ptr # NULL /\ key[next[n].ptr] <= k
        <4>1. \A m \in InList : KeyOf(L.left) < key[m] => k <= key[m]
          BY <1>a, <1>s, <1>t
        <4>2. /\ L.left \in InList /\ key[L.left] < k
              /\ next[n].ptr # NULL /\ key[next[n].ptr] <= key[L.left]
          BY <1>a, <2>3, <3>1, <3>3, <4>1, BeforeLeft
        <4>3. next[n].ptr \in InList
          BY <3>2, <4>2 DEF Succeeded
        <4> QED
          BY <1>a, <1>t, <4>2, <4>3
      <3> QED
        BY <1>e, <1>l, <1>n, <3>1, <3>2, <3>3 DEF Succeeded
    <2> QED
      BY <2>1, <2>2, <2>3
  <1>4. \A m \in InList : key[m] # k
    BY <1>a, <1>s, <1>t
  <1>5. Chain'
    <2>1. \A n \in InList' \cup {Head} : Succeeded(n)' /\ MarkedByDelete(n)'
      BY <1>3, <1>l DEF MarkedByDelete
    <2>2. /\ \A n \in InList' : key'[n] \in Keys
          /\ \A m, n \in InList' : key'[m] = key'[n] => m = n
      BY <1>1, <1>4, <1>a, <1>l, <1>n DEF ListInv, Chain
    <2>3. ASSUME NEW j \in Keys
          PROVE  j \in present' <=> \E n \in InList' : key'[n] = j /\ ~next'[n].mark
      <3>1. j \in present <=> \E n \in InList : key[n] = j /\ ~next[n].mark
        BY DEF ListInv, Chain
      <3>2. j \in present <=> \E n \in InList : key[n] = j
        BY <1>m, <3>1
      <3>3. (\E n \in InList' : key'[n] = j /\ ~next'[n].mark)
               <=> j = k \/ \E n \in InList : key[n] = j
        BY <1>1, <1>3, <1>l, <1>n
      <3> QED
        BY <1>1, <3>2, <3>3
    <2> QED
      BY <2>1, <2>2, <2>3 DEF Chain
  <1>6. ASSUME NEW u \in Threads, u # th PROVE InCall(u)'
    <2>1. CASE pc[u] = "idle"
      BY <1>2, <1>6, <2>1, IdleInCall DEF OthersKeep
    <2>2. CASE pc[u] # "idle"
      <3>1. /\ pc'[u] = pc[u] /\ loc'[u] = loc[u] /\ InCall(u)
            /\ pc[u] \notin {"mark", "unlink", "free"} /\ loc[u].op # "delete"
        BY <1>2, <1>6, <1>d, <1>i, <2>2 DEF OthersKeep
      <3>2. OwnElement(u)'
        <4>1. Private(u)' => Private(u)
          BY <1>6, <1>p
        <4>2. \A w \in Threads : Private(w)' => Private(w)
          BY <1>p
        <4> QED
          BY <1>1, <3>1, <4>1, <4>2 DEF InCall, OwnElement
      <3>3. OnItsWay(u)'
        BY <1>1, <1>k, <1>l, <3>1 DEF InCall, OnItsWay
      <3>4. Arrived(u)'
        BY <1>1, <1>k, <1>l, <3>1 DEF InCall, Arrived
      <3>5. HasTarget(u)'
        BY <3>1 DEF HasTarget
      <3>6. Undisturbed(u)'
        BY <1>1, <3>1 DEF InCall, Undisturbed
      <3> QED
        BY <3>2, <3>3, <3>4, <3>5, <3>6 DEF InCall
    <2> QED
      BY <2>1, <2>2
  <1> QED
    BY <1>2, <1>5, <1>6, IdleInCall DEF ListInv

LEMMA ListDeleteMark ==
    ASSUME KeysAssumption, NodesAssumption, BaseInv, DeletesAlone, ListInv,
           NEW th \in Threads, DeleteMark(th)
    PROVE  ListInv'
  <1> DEFINE L == loc[th]
             r == L.right
  <1>i. InCall(th)
    BY DEF ListInv
  <1>1. /\ UNCHANGED <<key, alloc, loc, usage>> /\ pc[th] = "mark" /\ TypeOK
        /\ L.op = "delete" /\ r \in Nodes /\ ~L.right_next.mark
    BY DEF DeleteMark, BaseInv, Steady
  <1>2. /\ r \in InList /\ key[r] = L.key
        /\ L.right_next.ptr = next[r].ptr /\ ~next[r].mark
        /\ L.left \in InList \cup {Head} /\ KeyOf(L.left) < L.key /\ next[L.left] = Ref(r)
        /\ L.left_next = Ref(r)
    BY <1>i, <1>1 DEF InCall, HasTarget, Arrived
  <1>t. /\ InList \subseteq Nodes /\ Head \notin InList
        /\ \A n \in InList : key[n] \in Nat /\ KeyOf(n) = key[n]
        /\ \A n \in InList \cup {Head} : next[n] \in Refs /\ KeyOf(n) \in Nat
                                         /\ n \in Nodes \cup {Head}
    BY InListTypes
  <1>3. next[r] = L.right_next
    <2>1. L.right_next \in Refs
      BY <1>1, LocalTypes DEF TypeOK
    <2>2. next[r] \in Refs
      BY <1>2, <1>t
    <2>3. next[r] = Ref(next[r].ptr) /\ L.right_next = Ref(L.right_next.ptr)
      BY <1>1, <1>2, <2>1, <2>2, RefType
    <2> QED
      BY <1>2, <2>3
  <1>4. /\ next' = [next EXCEPT ![r] = get_marked_reference(L.right_next)]
        /\ present' = present \ {L.key} /\ Goto(th, "unlink")
    BY <1>3 DEF DeleteMark
  <1>5. OthersKeep(th) /\ pc'[th] = "unlink"
    BY <1>1, <1>4, GotoKeeps DEF PCs
  <1>x. /\ \A n \in InList \cup {Head} : next'[n].ptr = next[n].ptr
        /\ \A n \in InList \cup {Head} : n # r => next'[n] = next[n]
        /\ next'[r].mark
    <2>1. /\ get_marked_reference(L.right_next).ptr = L.right_next.ptr
          /\ get_marked_reference(L.right_next).mark
      BY <1>1, RefType, LocalTypes DEF TypeOK
    <2>2. next'[r] = get_marked_reference(L.right_next)
      BY <1>1, <1>4 DEF TypeOK
    <2>3. \A n \in InList \cup {Head} : n # r => next'[n] = next[n]
      BY <1>1, <1>4, <1>t DEF TypeOK
    <2> QED
      BY <1>2, <2>1, <2>2, <2>3
  <1>o. \A u \in Threads : u # th => pc[u] = "idle" /\ pc'[u] = "idle"
    BY <1>1, <1>5, DeleterIsAlone DEF OthersKeep
  <1>l. InList' = InList
    <2>1. \A u \in Threads : ~Private(u) /\ ~Private(u)' /\ pc[u] # "free" /\ pc'[u] # "free"
      BY <1>1, <1>5, <1>o DEF Private
    <2> QED
      BY <1>1, <2>1 DEF InList
  <1>k. \A n \in InList \cup {Head} : KeyOf(n)' = KeyOf(n)
    BY <1>1 DEF KeyOf
  <1>e. key' = key /\ loc' = loc
    BY <1>1
  <1>m. \A n \in InList \cup {Head} : ~next[n].mark
    BY <1>1, NoMarksInSight
  <1>6. ASSUME NEW n \in InList \cup {Head} PROVE Succeeded(n)'
    <2>1. Succeeded(n) /\ next'[n].ptr = next[n].ptr /\ KeyOf(n)' = KeyOf(n)
      BY <1>k, <1>x DEF ListInv, Chain
    <2> QED
      BY <1>e, <1>l, <2>1 DEF Succeeded
  <1>7. ASSUME NEW n \in InList \cup {Head} PROVE MarkedByDelete(n)'
    <2>1. CASE n = r
      BY <1>e, <1>5, <2>1 DEF MarkedByDelete
    <2>2. CASE n # r
      BY <1>m, <1>x, <2>2 DEF MarkedByDelete
    <2> QED
      BY <2>1, <2>2
  <1>8. ASSUME NEW j \in Keys
        PROVE  j \in present' <=> \E n \in InList : key[n] = j /\ ~next'[n].mark
    <2>1. j \in present <=> \E n \in InList : key[n] = j /\ ~next[n].mark
      BY DEF ListInv, Chain
    <2>2. \A n \in InList : key[n] = key[r] => n = r
      BY <1>2 DEF ListInv, Chain
    <2>3. j \in present' <=> j \in present /\ j # key[r]
      BY <1>2, <1>4
    <2>4. \A n \in InList : ~next'[n].mark <=> n # r
      BY <1>m, <1>x
    <2> QED
      BY <1>m, <2>1, <2>2, <2>3, <2>4
  <1>9. Chain'
    BY <1>e, <1>l, <1>6, <1>7, <1>8 DEF ListInv, Chain
  <1>10. InCall(th)'
    <2>1. OwnElement(th)' /\ OnItsWay(th)' /\ Undisturbed(th)'
      BY <1>1, <1>5, <1>e DEF OwnElement, OnItsWay, Undisturbed, Private
    <2>2. L.left # r
      BY <1>2, <1>t
    <2>3. next'[L.left] = Ref(r)
      BY <1>2, <1>x, <2>2
    <2>4. Arrived(th)'
      BY <1>i, <1>1, <1>2, <1>5, <1>e, <1>k, <1>l, <2>3 DEF InCall, Arrived
    <2>5. HasTarget(th)'
      BY <1>i, <1>1, <1>2, <1>5, <1>e, <1>x DEF InCall, HasTarget
    <2> QED
      BY <2>1, <2>4, <2>5 DEF InCall
  <1> QED
    BY <1>o, <1>9, <1>10, IdleInCall DEF ListInv

LEMMA ListDeleteUnlink ==
    ASSUME KeysAssumption, NodesAssumption, BaseInv, DeletesAlone, ListInv,
           NEW th \in Threads, DeleteUnlink(th)
    PROVE  ListInv'
  <1> DEFINE L == loc[th]
             r == L.right
             l == L.left
             s == L.right_next.ptr
  <1>i. InCall(th)
    BY DEF ListInv
  <1>1. /\ UNCHANGED <<key, alloc, present, usage>> /\ pc[th] = "unlink" /\ TypeOK
        /\ L.op = "delete" /\ r \in Nodes /\ ~L.right_next.mark
    BY DEF DeleteUnlink, BaseInv, Steady
  <1>2. /\ r \in InList /\ key[r] = L.key /\ s = next[r].ptr /\ next[r].mark
        /\ l \in InList \cup {Head} /\ KeyOf(l) < key[r] /\ next[l] = Ref(r)
    BY <1>i, <1>1 DEF InCall, HasTarget, Arrived
  <1>t. /\ InList \subseteq Nodes /\ InList \subseteq alloc
        /\ \A n \in InList : n # Head /\ key[n] \in Nat /\ KeyOf(n) = key[n] /\ n # NULL
        /\ \A n \in InList \cup {Head} : next[n] \in Refs /\ KeyOf(n) \in Nat
                                         /\ n \in Nodes \cup {Head}
    BY InListTypes
  <1>3. /\ OthersKeep(th) /\ pc'[th] = "free" /\ loc' = loc
        /\ next' = [next EXCEPT ![l] = L.right_next]
    BY <1>1, <1>2, UnlinkLocals
  <1>x. /\ next'[l].ptr = s /\ ~next'[l].mark
        /\ \A n \in InList \cup {Head} : n # l => next'[n] = next[n]
        /\ next[l].ptr = r /\ ~next[l].mark
    <2>1. next'[l] = L.right_next /\ \A n \in InList \cup {Head} : n # l => next'[n] = next[n]
      BY <1>1, <1>2, <1>3, <1>t DEF TypeOK
    <2>2. Ref(r).ptr = r /\ ~Ref(r).mark
      BY <1>1, RefType
    <2> QED
      BY <1>1, <1>2, <2>1, <2>2
  <1>o. \A u \in Threads : u # th => pc[u] = "idle" /\ pc'[u] = "idle"
    BY <1>1, <1>3, DeleterIsAlone DEF OthersKeep
  <1>l. InList' = InList \ {r}
    <2>1. \A u \in Threads : /\ ~Private(u) /\ ~Private(u)' /\ pc[u] # "free"
                             /\ pc'[u] = "free" <=> u = th
      BY <1>1, <1>3, <1>o DEF Private
    <2> QED
      BY <1>1, <1>3, <2>1 DEF InList
  <1>k. \A n \in InList \cup {Head} : KeyOf(n)' = KeyOf(n)
    BY <1>1 DEF KeyOf
  <1>e. key' = key /\ loc' = loc /\ present' = present /\ alloc' = alloc
    BY <1>1, <1>3
  <1>c. \A n \in InList \cup {Head} : Succeeded(n)
    BY DEF ListInv, Chain
  <1>s. \A m \in InList : KeyOf(l) < key[m] => key[r] <= key[m]
    BY <1>2, <1>c, <1>x DEF Succeeded
  <1>d. \A m, n \in InList : key[m] = key[n] => m = n
    BY DEF ListInv, Chain
  <1>a. /\ s \in InList \cup {NULL} /\ s # r /\ (s # NULL => key[r] < key[s])
        /\ \A m \in InList : key[r] < key[m] => s # NULL /\ key[s] <= key[m]
    <2>1. /\ s \in InList \cup {NULL} /\ (s # NULL => key[r] < key[s])
          /\ \A m \in InList : key[r] < key[m] => s # NULL /\ key[s] <= key[m]
      BY <1>2, <1>c, <1>t DEF Succeeded
    <2>2. s # r
      BY <1>2, <1>t, <2>1
    <2> QED
      BY <2>1, <2>2
  <1>6. ASSUME NEW n \in (InList \ {r}) \cup {Head} PROVE Succeeded(n)'
    <2>1. CASE n = l
      <3>1. next'[n].ptr = s /\ KeyOf(n)' = KeyOf(l)
        BY <1>2, <1>k, <1>x, <2>1
      <3>2. s # NULL => KeyOf(l) < key[s]
        BY <1>2, <1>a, <1>t
      <3>3. ASSUME NEW m \in InList \ {r}, KeyOf(l) < key[m]
            PROVE  s # NULL /\ key[s] <= key[m]
        <4>1. key[r] < key[m]
          BY <1>2, <1>d, <1>s, <1>t, <3>3
        <4> QED
          BY <1>a, <4>1
      <3> QED
        BY <1>a, <1>e, <1>l, <3>1, <3>2, <3>3 DEF Succeeded
    <2>2. CASE n # l
      <3>1. next'[n] = next[n] /\ KeyOf(n)' = KeyOf(n) /\ Succeeded(n)
        BY <1>c, <1>k, <1>x, <2>2
      <3>2. next[n].ptr # r
        <4>1. SUFFICES ASSUME next[n].ptr = r PROVE FALSE
          OBVIOUS
        <4>2. KeyOf(n) < key[r]
          BY <1>2, <1>t, <3>1, <4>1 DEF Succeeded
        <4>3. l \in InList /\ key[l] < key[r] /\ key[next[n].ptr] <= key[l]
          BY <1>2, <1>s, <1>t, <2>2, <4>2, BeforeLeft
        <4> QED
          BY <1>2, <1>t, <4>1, <4>3
      <3> QED
        BY <1>e, <1>l, <3>1, <3>2 DEF Succeeded
    <2> QED
      BY <2>1, <2>2
  <1>7. ASSUME NEW n \in (InList \ {r}) \cup {Head} PROVE ~next'[n].mark /\ ~next[n].mark
    <2>1. ~next[n].mark
      <3>1. SUFFICES ASSUME next[n].mark PROVE FALSE
        OBVIOUS
      <3>2. PICK u \in Threads : pc[u] = "unlink" /\ loc[u].right = n
        BY <3>1 DEF ListInv, Chain, MarkedByDelete
      <3>3. n = r
        BY <1>o, <3>2
      <3> QED
        BY <1>2, <1>t, <3>3
    <2> QED
      BY <1>x, <2>1
  <1>8. ASSUME NEW j \in Keys
        PROVE  j \in present <=> \E n \in InList \ {r} : key[n] = j /\ ~next'[n].mark
    <2>1. j \in present <=> \E n \in InList : key[n] = j /\ ~next[n].mark
      BY DEF ListInv, Chain
    <2> QED
      BY <1>2, <1>7, <2>1
  <1>9. Chain'
    <2>1. \A n \in InList' \cup {Head} : Succeeded(n)' /\ MarkedByDelete(n)'
      BY <1>l, <1>6, <1>7 DEF MarkedByDelete
    <2>2. /\ \A n \in InList' : key'[n] \in Keys
          /\ \A m, n \in InList' : key'[m] = key'[n] => m = n
      BY <1>d, <1>e, <1>l DEF ListInv, Chain
    <2> QED
      BY <1>8, <1>e, <1>l, <2>1, <2>2 DEF Chain
  <1>10. InCall(th)'
    <2>1. r \in alloc'
      BY <1>2, <1>e, <1>t
    <2> QED
      BY <1>1, <1>3, <2>1
      DEF InCall, OwnElement, OnItsWay, Arrived, HasTarget, Undisturbed, Private
  <1> QED
    BY <1>o, <1>9, <1>10, IdleInCall DEF ListInv

LEMMA ListStep ==
    ASSUME KeysAssumption, NodesAssumption, UsagesAssumption, BaseInv, DeletesAlone, ListInv,
           [Next]_vars
    PROVE  ListInv'
  <1>0. CASE UNCHANGED vars
    <2>1. InList' = InList /\ \A n \in Nodes \cup {Head} : KeyOf(n)' = KeyOf(n)
      BY <1>0 DEF vars, InList, Private, KeyOf
    <2> QED
      BY <1>0 DEF vars, ListInv, Chain, Succeeded, MarkedByDelete, InCall, OwnElement, OnItsWay,
                  Arrived, HasTarget, Undisturbed, Private, InList, KeyOf
  <1> SUFFICES ASSUME NEW th \in Threads,
                      \/ Call(th) \/ Search(th) \/ lstInsert(th)
                      \/ lstDelete(th) \/ FindReturn(th)
               PROVE  ListInv'
    BY <1>0 DEF Next
  <1>1. CASE Call(th)
    BY <1>1, ListCall
  <1>2. CASE Search(th)
    <2>1. ~SearchCheck(th)
      BY DEF ListInv, InCall, Undisturbed, SearchCheck
    <2> QED
      BY <1>2, <2>1, ListSearchStart, ListSearchWalk, ListSearchAdjacent DEF Search
  <1>3. CASE lstInsert(th)
    BY <1>3, ListInsertDuplicate, ListInsertFails, ListInsertLinks DEF lstInsert
  <1>4. CASE lstDelete(th)
    <2>1. ~DeleteCleanup(th)
      BY DEF ListInv, InCall, Undisturbed, DeleteCleanup, At
    <2> QED
      BY <1>4, <2>1, ListDeleteRead, ListDeleteMark, ListDeleteUnlink, ListDeleteFree
      DEF lstDelete
  <1>5. CASE FindReturn(th)
    BY <1>5, ListFindReturn
  <1> QED
    BY <1>1, <1>2, <1>3, <1>4, <1>5

LEMMA ListInit ==
    ASSUME KeysAssumption, NodesAssumption, UsagesAssumption, Init
    PROVE  ListInv
  <1>1. PICK node \in [usage.preload -> Nodes] : Filled(node)
    BY InitFilled
  <1>f. /\ \A j, k \in usage.preload : j # k => node[j] # node[k]
        /\ alloc = {node[k] : k \in usage.preload}
        /\ \A k \in usage.preload : key[node[k]] = k
        /\ next[Head] = After(0, node)
        /\ \A n \in Nodes : next[n] = IF n \in alloc THEN After(key[n], node) ELSE Ref(NULL)
    BY <1>1, Zenon DEF Filled
  <1>u. /\ usage \in Usages /\ usage.preload \in SUBSET Keys
        /\ \A k \in usage.preload : k \in Nat /\ 0 < k
    <2>1. usage \in Usages /\ usage.preload \in SUBSET Keys
      BY DEF Init, UsagesAssumption
    <2>2. \A k \in usage.preload : k \in Nat \ {0}
      BY <2>1 DEF KeysAssumption
    <2> QED
      BY <2>1, <2>2
  <1>2. \A th \in Threads : pc[th] = "idle"
    BY DEF Init
  <1>3. InList = alloc
    BY <1>2 DEF InList, Private
  <1>4. ASSUME NEW n \in Nodes \cup {Head}, NEW k \in Nat, KeyOf(n) = k, next[n] = After(k, node)
        PROVE  Succeeded(n) /\ ~next[n].mark
    <2>1. CASE /\ After(k, node) = Ref(NULL)
               /\ \A j \in usage.preload : ~(k < j)
      <3>1. next[n].ptr = NULL /\ ~next[n].mark
        BY <1>4, <2>1, RefType
      <3>2. \A m \in InList : ~(KeyOf(n) < key[m])
        BY <1>3, <1>4, <1>f, <2>1
      <3> QED
        BY <3>1, <3>2 DEF Succeeded
    <2>2. ASSUME NEW j \in usage.preload, After(k, node) = Ref(node[j]), k < j,
                 \A i \in usage.preload : k < i => j <= i
          PROVE  Succeeded(n) /\ ~next[n].mark
      <3>1. node[j] \in Nodes /\ node[j] \in InList /\ key[node[j]] = j /\ node[j] # NULL
        BY <1>3, <1>f DEF NodesAssumption
      <3>2. next[n].ptr = node[j] /\ ~next[n].mark
        BY <1>4, <2>2, <3>1, RefType
      <3>3. ASSUME NEW m \in InList, KeyOf(n) < key[m] PROVE j <= key[m]
        <4>1. PICK i \in usage.preload : m = node[i]
          BY <1>3, <1>f
        <4> QED
          BY <1>4, <1>f, <2>2, <3>3, <4>1
      <3> QED
        BY <1>4, <2>2, <3>1, <3>2, <3>3 DEF Succeeded
    <2> QED
      BY <1>u, <2>1, <2>2, AfterIs
  <1>5. ASSUME NEW n \in InList \cup {Head} PROVE Succeeded(n) /\ ~next[n].mark
    <2>1. CASE n = Head
      BY <1>4, <1>f, <2>1 DEF KeyOf
    <2>2. CASE n # Head
      <3>1. PICK i \in usage.preload : n = node[i]
        BY <1>3, <1>f, <2>2
      <3>2. n \in Nodes /\ key[n] = i /\ i \in Nat /\ n \in alloc
        BY <1>f, <1>u, <3>1
      <3>3. KeyOf(n) = i /\ next[n] = After(i, node)
        BY <1>f, <2>2, <3>2 DEF KeyOf
      <3> QED
        BY <1>4, <3>2, <3>3
    <2> QED
      BY <2>1, <2>2
  <1>6. /\ \A n \in InList : key[n] \in Keys
        /\ \A m, n \in InList : key[m] = key[n] => m = n
    BY <1>3, <1>f, <1>u
  <1>7. ASSUME NEW k \in Keys
        PROVE  k \in present <=> \E n \in InList : key[n] = k /\ ~next[n].mark
    <2>1. present = usage.preload
      BY DEF Init
    <2> QED
      BY <1>3, <1>5, <1>f, <2>1
  <1>8. Chain
    BY <1>5, <1>6, <1>7 DEF Chain, MarkedByDelete
  <1>9. \A th \in Threads : InCall(th)
    BY <1>2 DEF InCall, OwnElement, OnItsWay, Arrived, HasTarget, Undisturbed, Private
  <1> QED
    BY <1>8, <1>9 DEF ListInv

\* The order makes every element of the list reachable.
LEMMA LinkedIsInList ==
    ASSUME KeysAssumption, NodesAssumption, BaseInv, ListInv
    PROVE  Linked = InList
  <1>t. /\ InList \subseteq Nodes
        /\ \A n \in InList : n # Head /\ n # NULL /\ key[n] \in Nat /\ 0 < key[n]
                             /\ KeyOf(n) = key[n]
        /\ KeyOf(Head) = 0
        /\ \A n \in InList \cup {Head} : KeyOf(n) \in Nat /\ next[n].ptr \in InList \cup {NULL}
    BY InListTypes
  <1>1. Linked \subseteq InList
    <2>1. Closed(InList)
      BY <1>t DEF Closed
    <2> QED
      BY <1>t, <2>1 DEF Linked
  <1>2. ASSUME NEW m \in InList, NEW R \in SUBSET Nodes, Closed(R) PROVE m \in R
    <2>1. SUFFICES ASSUME m \notin R PROVE FALSE
      OBVIOUS
    <2> DEFINE T == {x \in Nat : \E p \in (R \cap InList) \cup {Head} :
                                     x = KeyOf(p) /\ x < key[m]}
    <2>2. T \in SUBSET Nat /\ 0 \in T /\ key[m] \in Nat /\ \A x \in T : x < key[m]
      BY <1>t
    <2>3. PICK x \in T : \A y \in T : y <= x
      <3> HIDE DEF T
      <3> QED
        BY <2>2, GreatestNatural
    <2>4. PICK p \in (R \cap InList) \cup {Head} : x = KeyOf(p) /\ x < key[m]
      BY <2>3
    <2> DEFINE q == next[p].ptr
    <2>5. q \in InList /\ q # NULL /\ KeyOf(p) < key[q] /\ key[q] <= key[m]
      BY <1>t, <2>4 DEF ListInv, Chain, Succeeded
    <2>6. q \in R
      BY <1>2, <2>4, <2>5 DEF Closed
    <2>7. key[q] # key[m]
      BY <2>1, <2>5, <2>6 DEF ListInv, Chain
    <2>8. key[q] \in T
      BY <1>t, <2>5, <2>6, <2>7, <2>2
    <2>9. key[q] <= x /\ x \in Nat /\ key[q] \in Nat
      BY <1>t, <2>3, <2>5, <2>8
    <2> QED
      BY <2>4, <2>5, <2>9
  <1>3. InList \subseteq Linked
    BY <1>t, <1>2 DEF Linked
  <1> QED
    BY <1>1, <1>3

\* The inductive invariant
SetInv == BaseInv /\ (DeletesAlone => ListInv)

LEMMA SetInvariant == Spec => []SetInv
  <1>1. Init => SetInv
    BY BaseInit, ListInit, KeysAssumption, NodesAssumption, UsagesAssumption DEF SetInv
  <1>2. SetInv /\ [Next]_vars => SetInv'
    <2> SUFFICES ASSUME SetInv, [Next]_vars PROVE SetInv'
      OBVIOUS
    <2>1. BaseInv'
      BY BaseStep, KeysAssumption, NodesAssumption, UsagesAssumption DEF SetInv
    <2>2. usage' = usage
      BY DEF Next, vars, Call, Search, SearchStart, SearchWalk, SearchAdjacent, SearchCheck,
             lstInsert, InsertDuplicate, InsertLink, lstDelete, DeleteRead, DeleteMark,
             DeleteUnlink, DeleteCleanup, DeleteFree, FindReturn
    <2>3. DeletesAlone' => DeletesAlone
      BY <2>2 DEF DeletesAlone
    <2>4. DeletesAlone => ListInv'
      BY ListStep, KeysAssumption, NodesAssumption, UsagesAssumption DEF SetInv
    <2> QED
      BY <2>1, <2>3, <2>4 DEF SetInv
  <1> QED
    BY <1>1, <1>2, PTL DEF Spec

\* For any number of threads that insert and look up, or one that also
\* deletes, lstInsert and lstDelete never free an element that is reachable.
THEOREM LinkedStaysAllocated == Spec => []LinkedIsAllocated
  <1>1. SetInv => LinkedIsAllocated
    BY LinkedIsInList, InListTypes, KeysAssumption, NodesAssumption
    DEF SetInv, LinkedIsAllocated
  <1> QED
    BY <1>1, SetInvariant, PTL

\* In those usages the list is the set of the keys inserted and not deleted,
\* in order and without duplicates, whatever interleaving of its
\* compare-and-swaps.
THEOREM ListStaysSet == Spec => []ListIsSet
  <1>1. SetInv => ListIsSet
    <2> SUFFICES ASSUME SetInv, DeletesAlone
                 PROVE  /\ {key[n] : n \in {m \in Linked : ~ next[m].mark}} = present
                        /\ \A m, n \in Linked : m # n => key[m] # key[n]
                        /\ \A n \in Linked : next[n].ptr # NULL => key[n] < key[next[n].ptr]
      BY DEF ListIsSet
    <2>1. BaseInv /\ ListInv /\ Linked = InList
      BY LinkedIsInList, KeysAssumption, NodesAssumption DEF SetInv
    <2>2. \A m, n \in Linked : m # n => key[m] # key[n]
      BY <2>1 DEF ListInv, Chain
    <2>3. \A n \in Linked : next[n].ptr # NULL => key[n] < key[next[n].ptr]
      <3>1. \A n \in InList : KeyOf(n) = key[n]
        BY <2>1, InListTypes, KeysAssumption, NodesAssumption
      <3> QED
        BY <2>1, <3>1 DEF ListInv, Chain, Succeeded
    <2>4. {key[n] : n \in {m \in Linked : ~ next[m].mark}} = present
      <3>1. \A k \in Keys : k \in present <=> \E n \in Linked : key[n] = k /\ ~next[n].mark
        BY <2>1 DEF ListInv, Chain
      <3>2. present \subseteq Keys /\ \A n \in Linked : key[n] \in Keys
        BY <2>1 DEF ListInv, Chain, BaseInv, TypeOK
      <3> QED
        BY <3>1, <3>2
    <2> QED
      BY <2>2, <2>3, <2>4
  <1> QED
    BY <1>1, SetInvariant, PTL

\* In those usages lstFind does not miss a key that was there when it was
\* called, however far its references are out of date.
THEOREM FindNeverMisses == Spec => []FindSeesPresent
  <1>1. SetInv => FindSeesPresent
    <2> SUFFICES ASSUME SetInv, DeletesAlone, NEW th \in Threads,
                        At(th, "found", {"find"}), loc[th].expect
                 PROVE  Match(th)
      BY DEF FindSeesPresent
    <2>1. Arrived(th) /\ pc[th] = "found" /\ loc[th].op = "find"
      BY DEF SetInv, ListInv, InCall, At
    <2> QED
      BY <2>1 DEF Arrived, Match
  <1> QED
    BY <1>1, SetInvariant, PTL
===============================================================================
