------------------------------- MODULE CircBuf -------------------------------
(***************************************************************************)
(* The lock-free ring of src/circbuf.c, with the way its callers use it:   *)
(* an application thread allocates a block (an event, a log line, a        *)
(* payload, a control message), puts its address in the ring, and frees    *)
(* the block itself when cbufPut returns -1 (ctlSendMsg, ctlPostEvent,     *)
(* ctlSendLog); the reader takes the address out, uses the block and       *)
(* frees it (sendBufferedMessages, doEvent, ctlFlushLog, doPayload).       *)
(*                                                                         *)
(* One action per access to shared memory.  Words are read and written     *)
(* whole (aligned int and uint64_t), in program order.  g_cbuf_drop_count  *)
(* and DBG only feed the exit-time log line and are left out.              *)
(***************************************************************************)
EXTENDS Integers, FiniteSets

CONSTANTS
    Size,       \* the argument of cbufInit
    Producers,  \* threads that call cbufPut
    Consumers,  \* threads that call cbufGet
    Data,       \* the heap blocks; malloc may hand out a freed one again
    Zero        \* 0ULL, the content of an unused slot

ASSUME SizeAssumption == Size \in Nat \ {0}
ASSUME ThreadsAssumption == Producers \cap Consumers = {}
ASSUME ZeroAssumption == Zero \notin Data

maxlen == Size + 1
Slots == 0 .. Size
Threads == Producers \cup Consumers

VARIABLES
    buffer,     \* cbuf->buffer
    head,       \* cbuf->head, the slot filled last
    tail,       \* cbuf->tail, the slot emptied last
    pc,         \* where each thread is in cbufPut or cbufGet
    idx,        \* the local copy of head (in a put) or tail (in a get)
    attempts,   \* the local retry counter
    data,       \* the put's argument; the get's *data
    alloc,      \* blocks that are allocated and not freed
    accepted    \* history: blocks whose put returned 0, not yet read out

vars == <<buffer, head, tail, pc, idx, attempts, data, alloc, accepted>>

PutPCs == {"idle", "put_load", "put_full", "put_cas", "put_slot", "put_store",
           "put_free"}
GetPCs == {"idle", "get_load", "get_empty", "get_cas", "get_read", "get_clear",
           "get_free"}
EmptyHandedPCs == {"idle", "get_load", "get_empty", "get_cas", "get_read"}

\* Mutant of Succ: the index is not wrapped.
SuccUnwrapped(i) == i + 1

\* (i + 1) % cbuf->maxlen: head_next and tail_next
Succ(i) == (i + 1) % maxlen

Goto(t, l) == pc' = [pc EXCEPT ![t] = l]

\* cbufPut returns, and its locals are gone.
Return(t) ==
    /\ Goto(t, "idle")
    /\ idx' = [idx EXCEPT ![t] = 0]
    /\ attempts' = [attempts EXCEPT ![t] = 0]

\* Mutant of Retry: the attempts are not counted.
RetryForever(t, again, giveup) ==
    /\ attempts' = attempts
    /\ Goto(t, again)

\* while (!success && (attempts++ < cbuf->maxlen)): the loop of both calls
Retry(t, again, giveup) ==
    IF attempts[t] < maxlen
    THEN /\ attempts' = [attempts EXCEPT ![t] = @ + 1]
         /\ Goto(t, again)
    ELSE /\ attempts' = attempts
         /\ Goto(t, giveup)

-----------------------------------------------------------------------------
(***************************************************************************)
(* cbufInit: an empty ring (calloc, then cbufReset).                       *)
(***************************************************************************)
cbufInit ==
    /\ buffer = [i \in Slots |-> Zero]
    /\ head = 0
    /\ tail = 0

Init ==
    /\ cbufInit
    /\ pc = [t \in Threads |-> "idle"]
    /\ idx = [t \in Threads |-> 0]
    /\ attempts = [t \in Threads |-> 0]
    /\ data = [t \in Threads |-> Zero]
    /\ alloc = {}
    /\ accepted = {}

-----------------------------------------------------------------------------
(***************************************************************************)
(* cbufPut and its caller.                                                 *)
(***************************************************************************)

\* The caller has allocated a block and calls cbufPut with its address.
PutCall(p) ==
    /\ pc[p] = "idle"
    /\ \E d \in Data \ alloc :
          /\ alloc' = alloc \cup {d}
          /\ data' = [data EXCEPT ![p] = d]
    /\ attempts' = [attempts EXCEPT ![p] = 0]
    /\ Goto(p, "put_load")
    /\ UNCHANGED <<buffer, head, tail, idx, accepted>>

\* head = cbuf->head
PutLoad(p) ==
    /\ pc[p] = "put_load"
    /\ idx' = [idx EXCEPT ![p] = head]
    /\ Goto(p, "put_full")
    /\ UNCHANGED <<buffer, head, tail, attempts, data, alloc, accepted>>

\* if (head_next == cbuf->tail) break
PutFull(p) ==
    /\ pc[p] = "put_full"
    /\ Goto(p, IF Succ(idx[p]) = tail THEN "put_free" ELSE "put_cas")
    /\ UNCHANGED <<buffer, head, tail, idx, attempts, data, alloc, accepted>>

\* success = atomicCas32(&cbuf->head, head, head_next)
PutCas(p) ==
    /\ pc[p] = "put_cas"
    /\ IF head = idx[p]
       THEN /\ head' = Succ(idx[p])
            /\ attempts' = attempts
            /\ Goto(p, "put_slot")
       ELSE /\ head' = head
            /\ Retry(p, "put_load", "put_free")
    /\ UNCHANGED <<buffer, tail, idx, data, alloc, accepted>>

\* if (cbuf->buffer[head_next] != 0) return -1; head stays advanced
PutSlot(p) ==
    /\ pc[p] = "put_slot"
    /\ Goto(p, IF buffer[Succ(idx[p])] # Zero THEN "put_free" ELSE "put_store")
    /\ UNCHANGED <<buffer, head, tail, idx, attempts, data, alloc, accepted>>

\* Mutant of PutStore: falls through to the return -1 after the store.
PutStoreFails(p) ==
    /\ pc[p] = "put_store"
    /\ buffer' = [buffer EXCEPT ![Succ(idx[p])] = data[p]]
    /\ Goto(p, "put_free")
    /\ UNCHANGED <<head, tail, idx, attempts, data, alloc, accepted>>

\* Mutant of PutStore: the caller frees the block although the put succeeded.
PutStoreFrees(p) ==
    /\ pc[p] = "put_store"
    /\ buffer' = [buffer EXCEPT ![Succ(idx[p])] = data[p]]
    /\ alloc' = alloc \ {data[p]}
    /\ data' = [data EXCEPT ![p] = Zero]
    /\ Return(p)
    /\ UNCHANGED <<head, tail, accepted>>

\* cbuf->buffer[head_next] = data; return 0
PutStore(p) ==
    /\ pc[p] = "put_store"
    /\ buffer' = [buffer EXCEPT ![Succ(idx[p])] = data[p]]
    /\ accepted' = accepted \cup {data[p]}
    /\ data' = [data EXCEPT ![p] = Zero]
    /\ Return(p)
    /\ UNCHANGED <<head, tail, alloc>>

\* Mutant of PutFree: the caller forgets to free the block.
PutFreeLeaks(p) ==
    /\ pc[p] = "put_free"
    /\ data' = [data EXCEPT ![p] = Zero]
    /\ Return(p)
    /\ UNCHANGED <<buffer, head, tail, alloc, accepted>>

\* cbufPut returned -1: the caller frees the block
PutFree(p) ==
    /\ pc[p] = "put_free"
    /\ alloc' = alloc \ {data[p]}
    /\ data' = [data EXCEPT ![p] = Zero]
    /\ Return(p)
    /\ UNCHANGED <<buffer, head, tail, accepted>>

-----------------------------------------------------------------------------
(***************************************************************************)
(* cbufGet and its caller.                                                 *)
(***************************************************************************)
GetCall(c) ==
    /\ pc[c] = "idle"
    /\ attempts' = [attempts EXCEPT ![c] = 0]
    /\ Goto(c, "get_load")
    /\ UNCHANGED <<buffer, head, tail, idx, data, alloc, accepted>>

\* tail = cbuf->tail
GetLoad(c) ==
    /\ pc[c] = "get_load"
    /\ idx' = [idx EXCEPT ![c] = tail]
    /\ Goto(c, "get_empty")
    /\ UNCHANGED <<buffer, head, tail, attempts, data, alloc, accepted>>

\* if (tail == cbuf->head) break, and return -1
GetEmpty(c) ==
    /\ pc[c] = "get_empty"
    /\ Goto(c, IF idx[c] = head THEN "idle" ELSE "get_cas")
    /\ UNCHANGED <<buffer, head, tail, idx, attempts, data, alloc, accepted>>

\* success = atomicCas32(&cbuf->tail, tail, tail_next)
GetCas(c) ==
    /\ pc[c] = "get_cas"
    /\ IF tail = idx[c]
       THEN /\ tail' = Succ(idx[c])
            /\ attempts' = attempts
            /\ Goto(c, "get_read")
       ELSE /\ tail' = tail
            /\ Retry(c, "get_load", "idle")
    /\ UNCHANGED <<buffer, head, idx, data, alloc, accepted>>

\* *data = cbuf->buffer[tail_next]; a 0 is only logged
GetRead(c) ==
    /\ pc[c] = "get_read"
    /\ data' = [data EXCEPT ![c] = buffer[Succ(idx[c])]]
    /\ accepted' = accepted \ {buffer[Succ(idx[c])]}
    /\ Goto(c, "get_clear")
    /\ UNCHANGED <<buffer, head, tail, idx, attempts, alloc>>

\* cbuf->buffer[tail_next] = 0ULL; return 0
GetClear(c) ==
    /\ pc[c] = "get_clear"
    /\ buffer' = [buffer EXCEPT ![Succ(idx[c])] = Zero]
    /\ Goto(c, "get_free")
    /\ UNCHANGED <<head, tail, idx, attempts, data, alloc, accepted>>

\* The caller has used the block, if it got one, and frees it.
GetFree(c) ==
    /\ pc[c] = "get_free"
    /\ alloc' = alloc \ {data[c]}
    /\ data' = [data EXCEPT ![c] = Zero]
    /\ Goto(c, "idle")
    /\ UNCHANGED <<buffer, head, tail, idx, attempts, accepted>>

-----------------------------------------------------------------------------
cbufPut(p) ==
    \/ PutLoad(p)
    \/ PutFull(p)
    \/ PutCas(p)
    \/ PutSlot(p)
    \/ PutStore(p)
    \/ PutFree(p)

cbufGet(c) ==
    \/ GetLoad(c)
    \/ GetEmpty(c)
    \/ GetCas(c)
    \/ GetRead(c)
    \/ GetClear(c)
    \/ GetFree(c)

Next ==
    \/ \E p \in Producers : PutCall(p) \/ cbufPut(p)
    \/ \E c \in Consumers : GetCall(c) \/ cbufGet(c)

Spec == Init /\ [][Next]_vars

\* Every thread that is inside a call keeps being scheduled.
Fairness ==
    /\ \A p \in Producers : WF_vars(cbufPut(p))
    /\ \A c \in Consumers : WF_vars(cbufGet(c))

FairSpec == Spec /\ Fairness

-----------------------------------------------------------------------------
TypeOK ==
    /\ buffer \in [Slots -> Data \cup {Zero}]
    /\ head \in Slots
    /\ tail \in Slots
    /\ pc \in [Threads -> PutPCs \cup GetPCs]
    /\ \A p \in Producers : pc[p] \in PutPCs
    /\ \A c \in Consumers : pc[c] \in GetPCs
    /\ idx \in [Threads -> Slots]
    /\ attempts \in [Threads -> 0 .. maxlen]
    /\ data \in [Threads -> Data \cup {Zero}]
    /\ \A p \in Producers : pc[p] # "idle" => data[p] # Zero
    /\ \A t \in Threads : pc[t] \in EmptyHandedPCs => data[t] = Zero
    /\ alloc \in SUBSET Data
    /\ accepted \in SUBSET Data

(***************************************************************************)
(* Ownership of the heap blocks that travel through the ring.  The thread  *)
(* that is in a call owns data[t], a slot owns its content, except that    *)
(* between the read and the clear of a get the block is the reader's       *)
(* although the slot still shows it.                                       *)
(***************************************************************************)
BeingCleared(i) ==
    \E c \in Consumers : /\ pc[c] = "get_clear"
                         /\ i = Succ(idx[c])
                         /\ buffer[i] = data[c]

\* A block a thread will use or free is allocated (no use after free).
OwnedIsLive ==
    /\ \A t \in Threads : data[t] # Zero => data[t] \in alloc
    /\ \A i \in Slots : buffer[i] # Zero => buffer[i] \in alloc

\* No block has two owners (no double delivery, no double free), whatever
\* producers race on the same slot, wrap around or give up.
ExclusiveOwnership ==
    /\ \A t, u \in Threads : t # u /\ data[t] # Zero => data[t] # data[u]
    /\ \A i, j \in Slots : i # j /\ buffer[i] # Zero => buffer[i] # buffer[j]
    /\ \A t \in Threads, i \in Slots :
          data[t] # Zero /\ buffer[i] = data[t] => BeingCleared(i)

(***************************************************************************)
(* The ring implements HandOff: who has a block, read off the ring's       *)
(* state.                                                                  *)
(***************************************************************************)
OwnerOf(d) ==
    IF \E p \in Producers : data[p] = d THEN "producer"
    ELSE IF \E c \in Consumers : data[c] = d THEN "consumer"
    ELSE IF \E i \in Slots : buffer[i] = d THEN "ring"
    ELSE IF d \in alloc THEN "lost"
    ELSE "heap"

Owner == [d \in Data |-> OwnerOf(d)]

Abstract == INSTANCE HandOff WITH owner <- Owner

\* A block is delivered at most once per successful put, a block whose put
\* failed is never delivered, and a block leaves the ring only by delivery or
\* by being erased or overwritten in its slot, after which it stays lost.
ImplementsHandOff == Abstract!HSpec

\* circbuf.h: "0 on success": a block whose put returned 0 is in the ring
\* until a get reads it out.
AcceptedIsQueued == \A d \in accepted : \E i \in Slots : buffer[i] = d

\* Every call returns: the retry loops are bounded, however the other
\* threads keep moving head and tail.
CallsReturn == \A t \in Threads : pc[t] # "idle" ~> pc[t] = "idle"
=============================================================================
