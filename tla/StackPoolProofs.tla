--------------------------- MODULE StackPoolProofs ---------------------------
(***************************************************************************)
(* Proofs about StackPool, for any number of threads, slots and blocks.    *)
(*                                                                         *)
(* Exclusive use of the stacks is not inductive by itself: it rests on a   *)
(* used slot having exactly one holder (SlotsConserved), on no two slots   *)
(* sharing a stack (DistinctSlots), and on what a thread has learnt from   *)
(* its scan (ScanIsRight) staying true while other threads fill slots,     *)
(* which it does because malloc returns blocks nobody has.                 *)
(***************************************************************************)
EXTENDS StackPool, TLAPS

USE PoolAssumption

\* The initial state of the pool satisfies the invariant.
LEMMA PoolInit == Init => PoolInv
BY DEF Init, PoolInv, TypeOK, ExclusiveStacks, StacksAreAllocated, SlotsConserved,
       DistinctSlots, ScanIsRight, Holds, HasStack, Slots, Pcs

\* Call preserves the invariant.
LEMMA CallStep ==
    ASSUME PoolInv, NEW t \in Threads, Call(t)
    PROVE  PoolInv'
<1>1. TypeOK'
  BY DEF PoolInv, TypeOK, Slots, Pcs, Call, Goto
<1>2. ExclusiveStacks'
  BY DEF PoolInv, TypeOK, ExclusiveStacks, HasStack, Call
<1>3. StacksAreAllocated'
  BY DEF PoolInv, TypeOK, StacksAreAllocated, HasStack, Call
<1>4. SlotsConserved'
  BY DEF PoolInv, TypeOK, SlotsConserved, Holds, HasStack, Slots, Call, Goto
<1>5. DistinctSlots'
  BY DEF PoolInv, TypeOK, DistinctSlots, Call
<1>6. ScanIsRight'
  BY DEF PoolInv, TypeOK, ScanIsRight, HasStack, Slots, Call, Goto
<1> QED
  BY <1>1, <1>2, <1>3, <1>4, <1>5, <1>6 DEF PoolInv

\* GetCheck preserves the invariant.
LEMMA GetCheckStep ==
    ASSUME PoolInv, NEW t \in Threads, GetCheck(t)
    PROVE  PoolInv'
<1>1. TypeOK'
  <2>1. /\ used' \in [Slots -> BOOLEAN]
        /\ addr' \in [Slots -> Blocks \cup {NULL}]
        /\ heap' \in SUBSET Blocks
    BY DEF PoolInv, TypeOK, GetCheck
  <2>2. pc' \in [Threads -> Pcs] /\ stack' \in [Threads -> Blocks \cup {NULL}]
    BY DEF PoolInv, TypeOK, GetCheck, Goto, Pcs
  <2>3. /\ i' \in [Threads -> 0 .. POOL_MAX]
        /\ \A u \in Threads : pc'[u] \in {"cas", "grabbed", "alloc", "putback", "unuse"} => i'[u] \in Slots
    BY DEF PoolInv, TypeOK, GetCheck, Goto, Slots
  <2> QED
    BY <2>1, <2>2, <2>3 DEF TypeOK, Slots, Pcs
<1>2. ExclusiveStacks'
  BY DEF PoolInv, TypeOK, ExclusiveStacks, HasStack, GetCheck
<1>3. StacksAreAllocated'
  BY DEF PoolInv, TypeOK, StacksAreAllocated, HasStack, GetCheck
<1>4. SlotsConserved'
  <2>1. \A s \in Slots, u \in Threads : Holds(u, s)' <=> Holds(u, s)
    BY DEF PoolInv, TypeOK, Holds, HasStack, GetCheck, Goto
  <2> QED
    BY <2>1 DEF PoolInv, SlotsConserved, GetCheck, Slots
<1>5. DistinctSlots'
  BY DEF PoolInv, TypeOK, DistinctSlots, GetCheck
<1>6. ScanIsRight'
  BY DEF PoolInv, TypeOK, ScanIsRight, HasStack, Slots, GetCheck, Goto
<1> QED
  BY <1>1, <1>2, <1>3, <1>4, <1>5, <1>6 DEF PoolInv

\* grab_unused preserves the invariant.
LEMMA grab_unusedStep ==
    ASSUME PoolInv, NEW t \in Threads, grab_unused(t)
    PROVE  PoolInv'
<1>1. TypeOK'
  <2>1. /\ used' \in [Slots -> BOOLEAN]
        /\ addr' \in [Slots -> Blocks \cup {NULL}]
        /\ heap' \in SUBSET Blocks
    BY DEF PoolInv, TypeOK, grab_unused
  <2>2. pc' \in [Threads -> Pcs] /\ stack' \in [Threads -> Blocks \cup {NULL}]
    BY DEF PoolInv, TypeOK, grab_unused, Goto, Pcs
  <2>3. /\ i' \in [Threads -> 0 .. POOL_MAX]
        /\ \A u \in Threads : pc'[u] \in {"cas", "grabbed", "alloc", "putback", "unuse"} => i'[u] \in Slots
    BY DEF PoolInv, TypeOK, grab_unused, Goto, Slots
  <2> QED
    BY <2>1, <2>2, <2>3 DEF TypeOK, Slots, Pcs
<1>2. ExclusiveStacks'
  BY DEF PoolInv, TypeOK, ExclusiveStacks, HasStack, grab_unused
<1>3. StacksAreAllocated'
  BY DEF PoolInv, TypeOK, StacksAreAllocated, HasStack, grab_unused
<1>4. SlotsConserved'
  <2>1. CASE used[i[t]]
    <3>1. used' = used /\ \A s \in Slots, u \in Threads : Holds(u, s)' <=> Holds(u, s)
      BY <2>1 DEF PoolInv, TypeOK, Holds, HasStack, grab_unused, Goto
    <3> QED
      BY <3>1 DEF PoolInv, SlotsConserved, Slots
  <2>2. CASE ~used[i[t]]
    <3>1. i[t] \in Slots /\ used' = [used EXCEPT ![i[t]] = TRUE]
      BY <2>2 DEF PoolInv, TypeOK, grab_unused
    <3>2. \A s \in Slots, u \in Threads :
             Holds(u, s)' <=> (Holds(u, s) \/ (u = t /\ s = i[t]))
      BY <2>2 DEF PoolInv, TypeOK, ScanIsRight, Holds, HasStack, grab_unused, Goto
    <3>3. \A u \in Threads : ~Holds(u, i[t])
      BY <2>2, <3>1 DEF PoolInv, SlotsConserved
    <3>4. \A s \in Slots : s # i[t] => used'[s] = used[s]
      BY <3>1 DEF PoolInv, TypeOK
    <3>5. used'[i[t]]
      BY <3>1 DEF PoolInv, TypeOK
    <3>6. ASSUME NEW s \in Slots
          PROVE  /\ used'[s] <=> \E u \in Threads : Holds(u, s)'
                 /\ \A u, v \in Threads : Holds(u, s)' /\ Holds(v, s)' => u = v
      <4>1. CASE s = i[t]
        BY <4>1, <3>2, <3>3, <3>5
      <4>2. CASE s # i[t]
        BY <4>2, <3>2, <3>4 DEF PoolInv, SlotsConserved
      <4> QED
        BY <4>1, <4>2
    <3> QED
      BY <3>6 DEF SlotsConserved, Slots
  <2> QED
    BY <2>1, <2>2
<1>5. DistinctSlots'
  BY DEF PoolInv, TypeOK, DistinctSlots, grab_unused
<1>6. ScanIsRight'
  <2>1. /\ pc[t] = "cas" /\ pc'[t] \in {"grabbed", "check"}
        /\ \A u \in Threads \ {t} : pc'[u] = pc[u] /\ i'[u] = i[u]
        /\ UNCHANGED <<addr, stack>>
    BY DEF PoolInv, TypeOK, grab_unused, Goto
  <2> QED
    BY <2>1 DEF PoolInv, ScanIsRight, HasStack, Slots
<1> QED
  BY <1>1, <1>2, <1>3, <1>4, <1>5, <1>6 DEF PoolInv

\* GetGrabbed preserves the invariant.
LEMMA GetGrabbedStep ==
    ASSUME PoolInv, NEW t \in Threads, GetGrabbed(t)
    PROVE  PoolInv'
<1>1. TypeOK'
  <2>1. /\ used' \in [Slots -> BOOLEAN]
        /\ addr' \in [Slots -> Blocks \cup {NULL}]
        /\ heap' \in SUBSET Blocks
    BY DEF PoolInv, TypeOK, GetGrabbed
  <2>2. pc' \in [Threads -> Pcs] /\ stack' \in [Threads -> Blocks \cup {NULL}]
    BY DEF PoolInv, TypeOK, GetGrabbed, Goto, Pcs
  <2>3. /\ i' \in [Threads -> 0 .. POOL_MAX]
        /\ \A u \in Threads : pc'[u] \in {"cas", "grabbed", "alloc", "putback", "unuse"} => i'[u] \in Slots
    BY DEF PoolInv, TypeOK, GetGrabbed, Goto, Slots
  <2> QED
    BY <2>1, <2>2, <2>3 DEF TypeOK, Slots, Pcs
<1>2. ExclusiveStacks'
  BY DEF PoolInv, TypeOK, ExclusiveStacks, SlotsConserved, Holds, HasStack, GetGrabbed
<1>3. StacksAreAllocated'
  BY DEF PoolInv, TypeOK, StacksAreAllocated, HasStack, GetGrabbed
<1>4. SlotsConserved'
  <2>1. \A s \in Slots, u \in Threads : Holds(u, s)' <=> Holds(u, s)
    BY DEF PoolInv, TypeOK, StacksAreAllocated, DistinctSlots, SlotsConserved, ScanIsRight,
           Holds, HasStack, GetGrabbed, Goto
  <2>2. used' = used
    BY DEF GetGrabbed
  <2> QED
    BY <2>1, <2>2 DEF PoolInv, SlotsConserved, Slots
<1>5. DistinctSlots'
  BY DEF PoolInv, TypeOK, DistinctSlots, GetGrabbed
<1>6. ScanIsRight'
  BY DEF PoolInv, TypeOK, ScanIsRight, HasStack, Slots, GetGrabbed, Goto
<1> QED
  BY <1>1, <1>2, <1>3, <1>4, <1>5, <1>6 DEF PoolInv

\* GetAlloc preserves the invariant.
LEMMA GetAllocStep ==
    ASSUME PoolInv, NEW t \in Threads, GetAlloc(t)
    PROVE  PoolInv'
<1>1. TypeOK'
  <2>1. /\ used' \in [Slots -> BOOLEAN]
        /\ addr' \in [Slots -> Blocks \cup {NULL}]
        /\ heap' \in SUBSET Blocks
    BY DEF PoolInv, TypeOK, GetAlloc
  <2>2. pc' \in [Threads -> Pcs] /\ stack' \in [Threads -> Blocks \cup {NULL}]
    BY DEF PoolInv, TypeOK, GetAlloc, Goto, Pcs
  <2>3. /\ i' \in [Threads -> 0 .. POOL_MAX]
        /\ \A u \in Threads : pc'[u] \in {"cas", "grabbed", "alloc", "putback", "unuse"} => i'[u] \in Slots
    BY DEF PoolInv, TypeOK, GetAlloc, Goto, Slots
  <2> QED
    BY <2>1, <2>2, <2>3 DEF TypeOK, Slots, Pcs
<1>2. ExclusiveStacks'
  BY DEF PoolInv, TypeOK, ExclusiveStacks, StacksAreAllocated, HasStack, GetAlloc
<1>3. StacksAreAllocated'
  BY DEF PoolInv, TypeOK, StacksAreAllocated, HasStack, GetAlloc
<1>4. SlotsConserved'
  <2>1. \A s \in Slots, u \in Threads : Holds(u, s)' <=> Holds(u, s)
    BY DEF PoolInv, TypeOK, StacksAreAllocated, DistinctSlots, SlotsConserved, ScanIsRight,
           Holds, HasStack, GetAlloc, Goto
  <2>2. used' = used
    BY DEF GetAlloc
  <2> QED
    BY <2>1, <2>2 DEF PoolInv, SlotsConserved, Slots
<1>5. DistinctSlots'
  BY SMTT(30) DEF PoolInv, TypeOK, DistinctSlots, StacksAreAllocated, Slots, GetAlloc
<1>6. ScanIsRight'
  BY DEF PoolInv, TypeOK, ScanIsRight, SlotsConserved, StacksAreAllocated, Holds, HasStack, Slots, GetAlloc, Goto
<1> QED
  BY <1>1, <1>2, <1>3, <1>4, <1>5, <1>6 DEF PoolInv

\* GetPutBack preserves the invariant.
LEMMA GetPutBackStep ==
    ASSUME PoolInv, NEW t \in Threads, GetPutBack(t)
    PROVE  PoolInv'
<1>1. TypeOK'
  BY DEF PoolInv, TypeOK, Slots, Pcs, GetPutBack, Goto
<1>2. ExclusiveStacks'
  BY DEF PoolInv, TypeOK, ExclusiveStacks, HasStack, GetPutBack
<1>3. StacksAreAllocated'
  BY DEF PoolInv, TypeOK, StacksAreAllocated, HasStack, GetPutBack
<1>4. SlotsConserved'
  BY DEF PoolInv, TypeOK, SlotsConserved, ScanIsRight, Holds, HasStack, Slots, GetPutBack, Goto
<1>5. DistinctSlots'
  BY DEF PoolInv, TypeOK, DistinctSlots, GetPutBack
<1>6. ScanIsRight'
  BY DEF PoolInv, TypeOK, ScanIsRight, HasStack, Slots, GetPutBack, Goto
<1> QED
  BY <1>1, <1>2, <1>3, <1>4, <1>5, <1>6 DEF PoolInv

\* GetFallback preserves the invariant.
LEMMA GetFallbackStep ==
    ASSUME PoolInv, NEW t \in Threads, GetFallback(t)
    PROVE  PoolInv'
<1>1. TypeOK'
  <2>1. /\ used' \in [Slots -> BOOLEAN]
        /\ addr' \in [Slots -> Blocks \cup {NULL}]
        /\ heap' \in SUBSET Blocks
    BY DEF PoolInv, TypeOK, GetFallback
  <2>2. pc' \in [Threads -> Pcs] /\ stack' \in [Threads -> Blocks \cup {NULL}]
    BY DEF PoolInv, TypeOK, GetFallback, Goto, Pcs
  <2>3. /\ i' \in [Threads -> 0 .. POOL_MAX]
        /\ \A u \in Threads : pc'[u] \in {"cas", "grabbed", "alloc", "putback", "unuse"} => i'[u] \in Slots
    BY DEF PoolInv, TypeOK, GetFallback, Goto, Slots
  <2> QED
    BY <2>1, <2>2, <2>3 DEF TypeOK, Slots, Pcs
<1>2. ExclusiveStacks'
  <2>1. stack' = stack \/ \E b \in Blocks \ heap : stack' = [stack EXCEPT ![t] = b]
    BY DEF GetFallback
  <2> QED
    BY <2>1 DEF PoolInv, TypeOK, ExclusiveStacks, StacksAreAllocated, HasStack
<1>3. StacksAreAllocated'
  BY DEF PoolInv, TypeOK, StacksAreAllocated, HasStack, GetFallback
<1>4. SlotsConserved'
  BY SMTT(30) DEF PoolInv, TypeOK, ExclusiveStacks, StacksAreAllocated, SlotsConserved,
     DistinctSlots, ScanIsRight, Holds, HasStack, Slots, Pcs, GetFallback, Goto
<1>5. DistinctSlots'
  BY DEF PoolInv, TypeOK, DistinctSlots, GetFallback
<1>6. ScanIsRight'
  BY DEF PoolInv, TypeOK, ScanIsRight, HasStack, Slots, GetFallback, Goto
<1> QED
  BY <1>1, <1>2, <1>3, <1>4, <1>5, <1>6 DEF PoolInv

\* Free preserves the invariant.
LEMMA FreeStep ==
    ASSUME PoolInv, NEW t \in Threads, Free(t)
    PROVE  PoolInv'
<1>1. TypeOK'
  BY DEF PoolInv, TypeOK, Slots, Pcs, Free, Goto
<1>2. ExclusiveStacks'
  BY DEF PoolInv, TypeOK, ExclusiveStacks, HasStack, Free
<1>3. StacksAreAllocated'
  BY DEF PoolInv, TypeOK, StacksAreAllocated, HasStack, Free
<1>4. SlotsConserved'
  BY DEF PoolInv, TypeOK, SlotsConserved, Holds, HasStack, Slots, Free, Goto
<1>5. DistinctSlots'
  BY DEF PoolInv, TypeOK, DistinctSlots, Free
<1>6. ScanIsRight'
  BY DEF PoolInv, TypeOK, ScanIsRight, HasStack, Slots, Free, Goto
<1> QED
  BY <1>1, <1>2, <1>3, <1>4, <1>5, <1>6 DEF PoolInv

\* FreeScan preserves the invariant.
LEMMA FreeScanStep ==
    ASSUME PoolInv, NEW t \in Threads, FreeScan(t)
    PROVE  PoolInv'
<1>0. /\ UNCHANGED <<used, addr, heap, stack>>
      /\ pc[t] = "scan" /\ pc'[t] \in {"scan", "release", "unuse"}
      /\ pc'[t] = "unuse" => i'[t] \in Slots
      /\ i'[t] \in 0 .. POOL_MAX
      /\ pc' = [pc EXCEPT ![t] = pc'[t]] /\ i' = [i EXCEPT ![t] = i'[t]]
  BY PoolAssumption DEF PoolInv, TypeOK, FreeScan, Goto, Slots
<1>1. TypeOK'
  <2>1. pc' \in [Threads -> Pcs] /\ i' \in [Threads -> 0 .. POOL_MAX]
    BY <1>0 DEF PoolInv, TypeOK, Pcs
  <2>2. \A u \in Threads : pc'[u] \in {"cas", "grabbed", "alloc", "putback", "unuse"} => i'[u] \in Slots
    BY <1>0 DEF PoolInv, TypeOK
  <2> QED
    BY <1>0, <2>1, <2>2 DEF PoolInv, TypeOK, Slots, Pcs
<1>2. ExclusiveStacks'
  BY DEF PoolInv, TypeOK, ExclusiveStacks, HasStack, FreeScan
<1>3. StacksAreAllocated'
  BY DEF PoolInv, TypeOK, StacksAreAllocated, HasStack, FreeScan
<1>4. SlotsConserved'
  <2>1. \A u \in Threads, r \in Slots : Holds(u, r)' <=> Holds(u, r)
    BY <1>0 DEF PoolInv, TypeOK, Holds, HasStack
  <2> QED
    BY <1>0, <2>1 DEF PoolInv, SlotsConserved, Slots
<1>5. DistinctSlots'
  BY DEF PoolInv, TypeOK, DistinctSlots, FreeScan
<1>6. ScanIsRight'
  BY DEF PoolInv, TypeOK, ScanIsRight, HasStack, Slots, FreeScan, Goto
<1> QED
  BY <1>1, <1>2, <1>3, <1>4, <1>5, <1>6 DEF PoolInv

\* FreeUnuse preserves the invariant.
LEMMA FreeUnuseStep ==
    ASSUME PoolInv, NEW t \in Threads, FreeUnuse(t)
    PROVE  PoolInv'
<1>1. TypeOK'
  BY DEF PoolInv, TypeOK, Slots, Pcs, FreeUnuse, Goto
<1>2. ExclusiveStacks'
  BY DEF PoolInv, TypeOK, ExclusiveStacks, HasStack, FreeUnuse
<1>3. StacksAreAllocated'
  BY DEF PoolInv, TypeOK, StacksAreAllocated, HasStack, FreeUnuse
<1>4. SlotsConserved'
  <2>1. i[t] \in Slots /\ Holds(t, i[t]) /\ HasStack(t) /\ addr[i[t]] = stack[t]
    BY DEF PoolInv, TypeOK, ScanIsRight, FreeUnuse, Holds
  <2>2. \A s \in Slots, u \in Threads :
           Holds(u, s)' <=> (Holds(u, s) /\ u # t)
    BY <2>1 DEF PoolInv, TypeOK, Holds, HasStack, FreeUnuse, Goto
  <2>3. \A s \in Slots : s # i[t] => ~Holds(t, s)
    BY <2>1 DEF PoolInv, DistinctSlots, ScanIsRight, Holds, HasStack, FreeUnuse
  <2>4. \A u \in Threads : Holds(u, i[t]) => u = t
    BY <2>1 DEF PoolInv, SlotsConserved
  <2>5. /\ \A s \in Slots : s # i[t] => used'[s] = used[s]
        /\ ~used'[i[t]]
    BY <2>1 DEF PoolInv, TypeOK, FreeUnuse
  <2>6. ASSUME NEW s \in Slots
        PROVE  /\ used'[s] <=> \E u \in Threads : Holds(u, s)'
               /\ \A u, v \in Threads : Holds(u, s)' /\ Holds(v, s)' => u = v
    <3>1. CASE s = i[t]
      BY <3>1, <2>2, <2>4, <2>5
    <3>2. CASE s # i[t]
      BY <3>2, <2>2, <2>3, <2>5 DEF PoolInv, SlotsConserved
    <3> QED
      BY <3>1, <3>2
  <2> QED
    BY <2>6 DEF SlotsConserved, Slots
<1>5. DistinctSlots'
  BY DEF PoolInv, TypeOK, DistinctSlots, FreeUnuse
<1>6. ScanIsRight'
  BY DEF PoolInv, TypeOK, ScanIsRight, HasStack, Slots, FreeUnuse, Goto
<1> QED
  BY <1>1, <1>2, <1>3, <1>4, <1>5, <1>6 DEF PoolInv

\* FreeRelease preserves the invariant.
LEMMA FreeReleaseStep ==
    ASSUME PoolInv, NEW t \in Threads, FreeRelease(t)
    PROVE  PoolInv'
<1>1. TypeOK'
  BY DEF PoolInv, TypeOK, Slots, Pcs, FreeRelease, Goto
<1>2. ExclusiveStacks'
  BY DEF PoolInv, TypeOK, ExclusiveStacks, HasStack, FreeRelease
<1>3. StacksAreAllocated'
  BY DEF PoolInv, TypeOK, StacksAreAllocated, ExclusiveStacks, ScanIsRight, HasStack, FreeRelease
<1>4. SlotsConserved'
  BY DEF PoolInv, TypeOK, ExclusiveStacks, StacksAreAllocated, SlotsConserved, DistinctSlots,
         ScanIsRight, Holds, HasStack, Slots, Pcs, FreeRelease, Goto
<1>5. DistinctSlots'
  BY DEF PoolInv, TypeOK, DistinctSlots, FreeRelease
<1>6. ScanIsRight'
  BY DEF PoolInv, TypeOK, ScanIsRight, HasStack, Slots, FreeRelease, Goto
<1> QED
  BY <1>1, <1>2, <1>3, <1>4, <1>5, <1>6 DEF PoolInv

\* Every step of every thread keeps the invariant of the pool.
THEOREM PoolCorrect == Spec => []PoolInv
<1>1. PoolInv /\ [Next]_vars => PoolInv'
  <2> SUFFICES ASSUME PoolInv, [Next]_vars PROVE PoolInv'
    OBVIOUS
  <2>1. CASE UNCHANGED vars
    BY <2>1 DEF vars, PoolInv, TypeOK, ExclusiveStacks, StacksAreAllocated, SlotsConserved,
                DistinctSlots, ScanIsRight, Holds, HasStack, Slots, Pcs
  <2>2. ASSUME NEW t \in Threads, Step(t) PROVE PoolInv'
    BY <2>2, CallStep, GetCheckStep, grab_unusedStep, GetGrabbedStep, GetAllocStep,
       GetPutBackStep, GetFallbackStep, FreeStep, FreeScanStep, FreeUnuseStep, FreeReleaseStep
       DEF Step
  <2> QED
    BY <2>1, <2>2 DEF Next
<1> QED
  BY <1>1, PoolInit, PTL DEF Spec

\* Slots and positions keep their types: a scan never leaves the pool.
THEOREM PoolTypeCorrect == Spec => []TypeOK
BY PoolCorrect, PTL DEF PoolInv

\* Two threads never match on one stack, whatever the number of threads, slots
\* and blocks, and however get_stack and free_stack interleave.
THEOREM StacksExclusive == Spec => []ExclusiveStacks
BY PoolCorrect, PTL DEF PoolInv

\* A slot of the pool is marked used exactly while one thread holds it.
THEOREM SlotsAreConserved == Spec => []SlotsConserved
BY PoolCorrect, PTL DEF PoolInv

\* No thread's stack and no stack of the pool is ever freed under its users.
THEOREM StacksStayAllocated == Spec => []StacksAreAllocated
BY PoolCorrect, PTL DEF PoolInv
=============================================================================
