----------------------------- MODULE StackPool -----------------------------
(***************************************************************************)
(* The pool of stacks that regular expressions are matched on (com.c):     *)
(* pcre2_match_wrapper and regexec_wrapper take a stack with get_stack,    *)
(* run the match on it, and give it back with free_stack.  Threads of the  *)
(* application and the reporter do so concurrently, without a lock: a slot *)
(* is claimed and released by compare-and-swap of its "used" word, while   *)
(* its "addr" is read by every thread that scans the pool.                 *)
(*                                                                         *)
(* A thread killed asynchronously is one that takes no further step, so    *)
(* every safety property below covers it.                                  *)
(***************************************************************************)
EXTENDS Integers

CONSTANTS
    Threads,
    Blocks,      \* the addresses malloc can return for a stack
    NULL,
    POOL_MAX

ASSUME PoolAssumption == POOL_MAX \in Nat /\ NULL \notin Blocks

VARIABLES
    used,    \* per slot
    addr,    \* per slot: its stack, NULL until one is allocated
    heap,    \* the allocated blocks
    pc,      \* per thread: the next step
    i,       \* per thread: the slot the loop is at
    stack    \* per thread: what get_stack returned (pcre_stack)

vars == <<used, addr, heap, pc, i, stack>>

Slots == 0 .. POOL_MAX - 1
Pcs == {"idle", "check", "cas", "grabbed", "alloc", "putback", "fallback",
        "match", "scan", "unuse", "release"}

TypeOK ==
    /\ used \in [Slots -> BOOLEAN]
    /\ addr \in [Slots -> Blocks \cup {NULL}]
    /\ heap \in SUBSET Blocks
    /\ pc \in [Threads -> Pcs]
    /\ i \in [Threads -> 0 .. POOL_MAX]
    /\ \A t \in Threads : pc[t] \in {"cas", "grabbed", "alloc", "putback", "unuse"} => i[t] \in Slots
    /\ stack \in [Threads -> Blocks \cup {NULL}]

Init ==
    /\ used = [s \in Slots |-> FALSE]
    /\ addr = [s \in Slots |-> NULL]
    /\ heap = {}
    /\ pc = [t \in Threads |-> "idle"]
    /\ i = [t \in Threads |-> 0]
    /\ stack = [t \in Threads |-> NULL]

Goto(t, l) == pc' = [pc EXCEPT ![t] = l]

----------------------------------------------------------------------------
(* get_stack.                                                              *)

Call(t) ==
    /\ pc[t] = "idle"
    /\ Goto(t, "check")
    /\ i' = [i EXCEPT ![t] = 0]
    /\ UNCHANGED <<used, addr, heap, stack>>

\* !entry->used, or the end of the loop.
GetCheck(t) ==
    /\ pc[t] = "check"
    /\ \/ /\ i[t] = POOL_MAX
          /\ Goto(t, "fallback")
          /\ UNCHANGED i
       \/ /\ i[t] < POOL_MAX /\ ~used[i[t]]
          /\ Goto(t, "cas")
          /\ UNCHANGED i
       \/ /\ i[t] < POOL_MAX /\ used[i[t]]
          /\ i' = [i EXCEPT ![t] = @ + 1]
          /\ UNCHANGED pc
    /\ UNCHANGED <<used, addr, heap, stack>>

\* Mutant of grab_unused: a plain store after the test.
grab_unusedPlain(t) ==
    /\ pc[t] = "cas"
    /\ used' = [used EXCEPT ![i[t]] = TRUE]
    /\ Goto(t, "grabbed")
    /\ UNCHANGED <<addr, heap, i, stack>>

grab_unused(t) ==
    /\ pc[t] = "cas"
    /\ \/ /\ ~used[i[t]]
          /\ used' = [used EXCEPT ![i[t]] = TRUE]
          /\ Goto(t, "grabbed")
          /\ UNCHANGED i
       \/ /\ used[i[t]]
          /\ i' = [i EXCEPT ![t] = @ + 1]
          /\ Goto(t, "check")
          /\ UNCHANGED used
    /\ UNCHANGED <<addr, heap, stack>>

\* Mutant of GetGrabbed: the stack is taken from the first slot, whichever
\* slot was grabbed.
GetGrabbedFirst(t) ==
    /\ pc[t] = "grabbed"
    /\ \/ /\ addr[0] # NULL
          /\ stack' = [stack EXCEPT ![t] = addr[0]]
          /\ Goto(t, "match")
       \/ /\ addr[0] = NULL
          /\ Goto(t, "alloc")
          /\ UNCHANGED stack
    /\ UNCHANGED <<used, addr, heap, i>>

GetGrabbed(t) ==
    /\ pc[t] = "grabbed"
    /\ \/ /\ addr[i[t]] # NULL
          /\ stack' = [stack EXCEPT ![t] = addr[i[t]]]
          /\ Goto(t, "match")
       \/ /\ addr[i[t]] = NULL
          /\ Goto(t, "alloc")
          /\ UNCHANGED stack
    /\ UNCHANGED <<used, addr, heap, i>>

\* entry->addr = malloc: a block nobody has, or NULL.
GetAlloc(t) ==
    /\ pc[t] = "alloc"
    /\ \/ \E b \in Blocks \ heap :
            /\ heap' = heap \cup {b}
            /\ addr' = [addr EXCEPT ![i[t]] = b]
            /\ stack' = [stack EXCEPT ![t] = b]
            /\ Goto(t, "match")
       \/ /\ addr' = [addr EXCEPT ![i[t]] = NULL]
          /\ Goto(t, "putback")
          /\ UNCHANGED <<heap, stack>>
    /\ UNCHANGED <<used, i>>

GetPutBack(t) ==
    /\ pc[t] = "putback"
    /\ used' = [used EXCEPT ![i[t]] = FALSE]
    /\ Goto(t, "fallback")
    /\ UNCHANGED <<addr, heap, i, stack>>

\* An allocation outside the pool; the wrapper gives up if it fails.
GetFallback(t) ==
    /\ pc[t] = "fallback"
    /\ \/ \E b \in Blocks \ heap :
            /\ heap' = heap \cup {b}
            /\ stack' = [stack EXCEPT ![t] = b]
            /\ Goto(t, "match")
       \/ /\ Goto(t, "idle")
          /\ UNCHANGED <<heap, stack>>
    /\ UNCHANGED <<used, addr, i>>

----------------------------------------------------------------------------
(* free_stack.                                                             *)

\* The match ends.
Free(t) ==
    /\ pc[t] = "match"
    /\ Goto(t, "scan")
    /\ i' = [i EXCEPT ![t] = 0]
    /\ UNCHANGED <<used, addr, heap, stack>>

\* Mutant of FreeScan: the loop stops one slot short.
FreeScanShort(t) ==
    /\ pc[t] = "scan"
    /\ \/ /\ i[t] >= POOL_MAX - 1
          /\ Goto(t, "release")
          /\ UNCHANGED i
       \/ /\ i[t] < POOL_MAX - 1 /\ addr[i[t]] = stack[t]
          /\ Goto(t, "unuse")
          /\ UNCHANGED i
       \/ /\ i[t] < POOL_MAX - 1 /\ addr[i[t]] # stack[t]
          /\ i' = [i EXCEPT ![t] = @ + 1]
          /\ UNCHANGED pc
    /\ UNCHANGED <<used, addr, heap, stack>>

\* Mutant of FreeScan: the scan runs past the last slot.
FreeScanPast(t) ==
    /\ pc[t] = "scan"
    /\ \/ /\ i[t] >= POOL_MAX
          /\ i' = [i EXCEPT ![t] = @ + 1]
          /\ Goto(t, "release")
       \/ /\ i[t] < POOL_MAX /\ addr[i[t]] = stack[t]
          /\ Goto(t, "unuse")
          /\ UNCHANGED i
       \/ /\ i[t] < POOL_MAX /\ addr[i[t]] # stack[t]
          /\ i' = [i EXCEPT ![t] = @ + 1]
          /\ UNCHANGED pc
    /\ UNCHANGED <<used, addr, heap, stack>>

\* entry->addr == addr, or the end of the loop.
FreeScan(t) ==
    /\ pc[t] = "scan"
    /\ \/ /\ i[t] = POOL_MAX
          /\ Goto(t, "release")
          /\ UNCHANGED i
       \/ /\ i[t] < POOL_MAX /\ addr[i[t]] = stack[t]
          /\ Goto(t, "unuse")
          /\ UNCHANGED i
       \/ /\ i[t] < POOL_MAX /\ addr[i[t]] # stack[t]
          /\ i' = [i EXCEPT ![t] = @ + 1]
          /\ UNCHANGED pc
    /\ UNCHANGED <<used, addr, heap, stack>>

FreeUnuse(t) ==
    /\ pc[t] = "unuse"
    /\ used' = [used EXCEPT ![i[t]] = FALSE]
    /\ stack' = [stack EXCEPT ![t] = NULL]
    /\ Goto(t, "idle")
    /\ UNCHANGED <<addr, heap, i>>

FreeRelease(t) ==
    /\ pc[t] = "release"
    /\ heap' = heap \ {stack[t]}
    /\ stack' = [stack EXCEPT ![t] = NULL]
    /\ Goto(t, "idle")
    /\ UNCHANGED <<used, addr, i>>

Step(t) ==
    \/ Call(t) \/ GetCheck(t) \/ grab_unused(t) \/ GetGrabbed(t) \/ GetAlloc(t)
    \/ GetPutBack(t) \/ GetFallback(t)
    \/ Free(t) \/ FreeScan(t) \/ FreeUnuse(t) \/ FreeRelease(t)

Next == \E t \in Threads : Step(t)

Spec == Init /\ [][Next]_vars

----------------------------------------------------------------------------
(* Properties.                                                             *)

\* The thread has a stack: from get_stack's return to free_stack's.
HasStack(t) == stack[t] # NULL

\* Two threads never match on the same stack: what grab_unused is for.
ExclusiveStacks ==
    \A t, u \in Threads : HasStack(t) /\ stack[t] = stack[u] => t = u

\* free_stack never frees a stack that is in use or in the pool: whoever has
\* a stack, and every slot that has one, refers to an allocated block.
StacksAreAllocated ==
    /\ \A t \in Threads : HasStack(t) => stack[t] \in heap
    /\ \A s \in Slots : addr[s] # NULL => addr[s] \in heap

\* The thread is between grab_unused of slot s and the release of s.
Holds(t, s) ==
    \/ pc[t] \in {"grabbed", "alloc", "putback"} /\ i[t] = s
    \/ HasStack(t) /\ stack[t] = addr[s]

\* No slot is lost and none is claimed twice: a slot is marked used exactly
\* while one thread holds it, so only the slots of killed threads stay used.
SlotsConserved ==
    \A s \in Slots :
        /\ used[s] <=> \E t \in Threads : Holds(t, s)
        /\ \A t, u \in Threads : Holds(t, s) /\ Holds(u, s) => t = u

\* No two slots share a stack.
DistinctSlots ==
    \A r, s \in Slots : addr[r] # NULL /\ addr[r] = addr[s] => r = s

\* Who is about to release a stack has passed every slot without finding it;
\* who is about to unuse a slot has found its stack there.
ScanIsRight ==
    \A t \in Threads :
        /\ pc[t] \in {"match", "scan", "unuse", "release"} <=> HasStack(t)
        /\ pc[t] = "scan" => \A s \in Slots : s < i[t] => addr[s] # stack[t]
        /\ pc[t] = "release" => \A s \in Slots : addr[s] # stack[t]
        /\ pc[t] = "unuse" => addr[i[t]] = stack[t]
        /\ pc[t] \in {"alloc", "putback"} => addr[i[t]] = NULL

\* The inductive invariant.
PoolInv ==
    TypeOK /\ ExclusiveStacks /\ StacksAreAllocated /\ SlotsConserved
    /\ DistinctSlots /\ ScanIsRight
=============================================================================
