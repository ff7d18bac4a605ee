---------------------------- MODULE CircBufProofs ----------------------------
(***************************************************************************)
(* Proofs about CircBuf: type correctness for any number of threads, and   *)
(* ownership of the blocks for any number of producers and one reader.     *)
(***************************************************************************)
EXTENDS CircBuf, TLAPS

\* An index stays in the ring: what head_next and tail_next can be.
LEMMA SuccType == \A i \in Slots : Succ(i) \in Slots
  BY SizeAssumption DEF Succ, Slots, maxlen

\* The step of either retry loop keeps the types of the locals it changes.
LEMMA RetryType ==
  ASSUME TypeOK, NEW t \in Threads, NEW a, NEW g, Retry(t, a, g)
  PROVE  /\ attempts' \in [Threads -> 0 .. maxlen]
         /\ pc' = [pc EXCEPT ![t] = a] \/ pc' = [pc EXCEPT ![t] = g]
  BY SizeAssumption DEF TypeOK, Retry, Goto, maxlen

(***************************************************************************)
(* Every index the calls compute is a slot, the retry counters stay within *)
(* the ring's length, and no call mixes the steps of put and get: for      *)
(* every size of the ring and every set of threads and blocks.             *)
(***************************************************************************)
THEOREM TypeCorrect == Spec => []TypeOK
<1>1. Init => TypeOK
  BY SizeAssumption
     DEF Init, cbufInit, TypeOK, Slots, PutPCs, GetPCs, EmptyHandedPCs,
         maxlen, Threads
<1>2. TypeOK /\ [Next]_vars => TypeOK'
  <2> SUFFICES ASSUME TypeOK, [Next]_vars PROVE TypeOK'
    OBVIOUS
  <2> USE SuccType DEF TypeOK, PutPCs, GetPCs, EmptyHandedPCs, Goto
  <2>0. \A p \in Producers : p \in Threads /\ p \notin Consumers
    BY ThreadsAssumption DEF Threads
  <2>000. 0 \in Slots /\ 0 \in 0 .. maxlen
    BY SizeAssumption DEF Slots, maxlen
  <2>00. \A c \in Consumers : c \in Threads /\ c \notin Producers
    BY ThreadsAssumption DEF Threads
  <2>1. ASSUME NEW p \in Producers, PutCall(p) PROVE TypeOK'
    BY <2>0, <2>1, SizeAssumption, ZeroAssumption DEF PutCall, maxlen
  <2>2. ASSUME NEW p \in Producers, PutLoad(p) PROVE TypeOK'
    BY <2>0, <2>2 DEF PutLoad
  <2>3. ASSUME NEW p \in Producers, PutFull(p) PROVE TypeOK'
    BY <2>0, <2>3 DEF PutFull
  <2>4. ASSUME NEW p \in Producers, PutCas(p) PROVE TypeOK'
    <3>1. head' \in Slots
      BY <2>0, <2>4 DEF PutCas
    <3>2. /\ attempts' \in [Threads -> 0 .. maxlen]
          /\ \E l \in {"put_slot", "put_load", "put_free"} :
                pc' = [pc EXCEPT ![p] = l]
      <4>1. CASE head = idx[p]
        BY <2>0, <2>4, <4>1 DEF PutCas
      <4>2. CASE head # idx[p]
        BY <2>0, <2>4, <4>2, RetryType DEF PutCas
      <4> QED BY <4>1, <4>2
    <3>3. UNCHANGED <<buffer, tail, idx, data, alloc, accepted>>
      BY <2>4 DEF PutCas
    <3>4. pc[p] = "put_cas"
      BY <2>4 DEF PutCas
    <3> QED BY <2>0, <3>1, <3>2, <3>3, <3>4
  <2>5. ASSUME NEW p \in Producers, PutSlot(p) PROVE TypeOK'
    BY <2>0, <2>5 DEF PutSlot
  <2>6. ASSUME NEW p \in Producers, PutStore(p) PROVE TypeOK'
    BY <2>0, <2>000, <2>6 DEF PutStore, Return
  <2>7. ASSUME NEW p \in Producers, PutFree(p) PROVE TypeOK'
    BY <2>0, <2>000, <2>7 DEF PutFree, Return
  <2>8. ASSUME NEW c \in Consumers, GetCall(c) PROVE TypeOK'
    BY <2>00, <2>8, SizeAssumption DEF GetCall, maxlen
  <2>9. ASSUME NEW c \in Consumers, GetLoad(c) PROVE TypeOK'
    BY <2>00, <2>9 DEF GetLoad
  <2>10. ASSUME NEW c \in Consumers, GetEmpty(c) PROVE TypeOK'
    BY <2>00, <2>10 DEF GetEmpty
  <2>11. ASSUME NEW c \in Consumers, GetCas(c) PROVE TypeOK'
    <3>1. tail' \in Slots
      BY <2>00, <2>11 DEF GetCas
    <3>2. /\ attempts' \in [Threads -> 0 .. maxlen]
          /\ \E l \in {"get_read", "get_load", "idle"} :
                pc' = [pc EXCEPT ![c] = l]
      <4>1. CASE tail = idx[c]
        BY <2>00, <2>11, <4>1 DEF GetCas
      <4>2. CASE tail # idx[c]
        BY <2>00, <2>11, <4>2, RetryType DEF GetCas
      <4> QED BY <4>1, <4>2
    <3>3. UNCHANGED <<buffer, head, idx, data, alloc, accepted>>
      BY <2>11 DEF GetCas
    <3>4. pc[c] = "get_cas"
      BY <2>11 DEF GetCas
    <3> QED BY <2>00, <3>1, <3>2, <3>3, <3>4
  <2>12. ASSUME NEW c \in Consumers, GetRead(c) PROVE TypeOK'
    BY <2>00, <2>12 DEF GetRead
  <2>13. ASSUME NEW c \in Consumers, GetClear(c) PROVE TypeOK'
    BY <2>00, <2>13 DEF GetClear
  <2>14. ASSUME NEW c \in Consumers, GetFree(c) PROVE TypeOK'
    BY <2>00, <2>14 DEF GetFree
  <2>15. CASE UNCHANGED vars
    BY <2>15 DEF vars
  <2> QED
    BY <2>1, <2>2, <2>3, <2>4, <2>5, <2>6, <2>7, <2>8, <2>9, <2>10, <2>11,
       <2>12, <2>13, <2>14, <2>15 DEF Next, cbufPut, cbufGet
<1> QED
  BY <1>1, <1>2, PTL DEF Spec

-----------------------------------------------------------------------------
(***************************************************************************)
(* Ownership.  With one reader a slot whose content a thread also holds is *)
(* the slot that reader is about to clear; that is what makes the          *)
(* invariant inductive.                                                    *)
(***************************************************************************)
SingleConsumer == \A c1, c2 \in Consumers : c1 = c2

Ownership == OwnedIsLive /\ ExclusiveOwnership

\* A step that touches neither the ring's slots nor the blocks, made by a
\* thread that is not about to clear a slot, leaves every owner as it is.
LEMMA OwnershipFrame ==
  ASSUME Ownership, TypeOK, TypeOK',
         NEW t \in Threads, NEW l, pc' = [pc EXCEPT ![t] = l],
         pc[t] # "get_clear",
         UNCHANGED <<buffer, data, alloc>>,
         \A u \in Threads : u # t => idx'[u] = idx[u]
  PROVE  Ownership'
<1>1. \A i : BeingCleared(i) => BeingCleared(i)'
  BY DEF BeingCleared, TypeOK, Threads
<1> QED
  BY <1>1 DEF Ownership, OwnedIsLive, ExclusiveOwnership

(***************************************************************************)
(* A block that a thread holds or a slot shows is allocated, and no block  *)
(* is held twice: for every size of the ring, every set of producers and   *)
(* blocks, and one reader, neither a double free nor a use after free can  *)
(* come out of cbufPut and cbufGet.                                        *)
(***************************************************************************)
THEOREM OwnershipCorrect ==
  ASSUME SingleConsumer
  PROVE  Spec => [](OwnedIsLive /\ ExclusiveOwnership)
<1>1. Init => Ownership
  BY ZeroAssumption DEF Init, cbufInit, Ownership, OwnedIsLive,
     ExclusiveOwnership
<1>2. Ownership /\ TypeOK /\ TypeOK' /\ [Next]_vars => Ownership'
  <2> SUFFICES ASSUME Ownership, TypeOK, TypeOK', [Next]_vars
               PROVE  Ownership'
    OBVIOUS
  <2>0. /\ \A p \in Producers : p \in Threads /\ p \notin Consumers
        /\ \A c \in Consumers : c \in Threads /\ c \notin Producers
    BY ThreadsAssumption DEF Threads
  <2>1. ASSUME NEW p \in Producers, PutCall(p) PROVE Ownership'
    <3>1. PICK d \in Data \ alloc : /\ alloc' = alloc \cup {d}
                                   /\ data' = [data EXCEPT ![p] = d]
      BY <2>1 DEF PutCall
    <3>2. /\ \A t \in Threads : data[t] # d
          /\ \A i \in Slots : buffer[i] # d
          /\ d # Zero
      BY <3>1, ZeroAssumption DEF Ownership, OwnedIsLive
    <3>3. \A i : BeingCleared(i) => BeingCleared(i)'
      BY <2>0, <2>1, <3>1 DEF PutCall, BeingCleared, TypeOK, Goto
    <3>4. OwnedIsLive'
      BY <2>0, <2>1, <3>1 DEF Ownership, OwnedIsLive, PutCall, TypeOK
    <3>5. ExclusiveOwnership'
      BY <2>0, <2>1, <3>1, <3>2, <3>3
         DEF Ownership, ExclusiveOwnership, PutCall, TypeOK
    <3> QED BY <3>4, <3>5 DEF Ownership
  <2>2. ASSUME NEW p \in Producers,
               PutLoad(p) \/ PutFull(p) \/ PutCas(p) \/ PutSlot(p)
        PROVE Ownership'
    <3>1. /\ UNCHANGED <<buffer, data, alloc>>
          /\ pc[p] # "get_clear"
          /\ \A u \in Threads : u # p => idx'[u] = idx[u]
      BY <2>0, <2>2 DEF PutLoad, PutFull, PutCas, PutSlot, TypeOK
    <3>2. \E l : pc' = [pc EXCEPT ![p] = l]
      BY <2>2 DEF PutLoad, PutFull, PutCas, PutSlot, Goto, Retry
    <3> QED BY <2>0, <3>1, <3>2, OwnershipFrame
  <2>3. ASSUME NEW p \in Producers, PutStore(p) PROVE Ownership'
    <3> DEFINE s == Succ(idx[p])
    <3>1. /\ s \in Slots /\ data[p] # Zero /\ data[p] \in alloc
          /\ buffer' = [buffer EXCEPT ![s] = data[p]]
          /\ data' = [data EXCEPT ![p] = Zero]
          /\ UNCHANGED alloc
          /\ pc[p] # "get_clear" /\ pc' = [pc EXCEPT ![p] = "idle"]
          /\ idx' = [idx EXCEPT ![p] = 0]
      BY <2>0, <2>3, SuccType
         DEF PutStore, TypeOK, Return, Goto, Ownership, OwnedIsLive
    <3> HIDE DEF s
    <3>2. \A i \in Slots : buffer[i] # data[p]
      BY <2>0, <3>1
         DEF Ownership, ExclusiveOwnership, BeingCleared, Threads
    <3>3. \A i \in Slots : i # s /\ BeingCleared(i) => BeingCleared(i)'
      BY <2>0, <3>1 DEF BeingCleared, TypeOK, Slots
    <3>4. OwnedIsLive'
      BY <2>0, <3>1 DEF Ownership, OwnedIsLive, TypeOK
    <3>5. ExclusiveOwnership'
      BY <2>0, <3>1, <3>2, <3>3 DEF Ownership, ExclusiveOwnership, TypeOK
    <3> QED BY <3>4, <3>5 DEF Ownership
  <2>4. ASSUME NEW p \in Producers, PutFree(p) PROVE Ownership'
    <3>1. /\ data[p] # Zero
          /\ alloc' = alloc \ {data[p]}
          /\ data' = [data EXCEPT ![p] = Zero]
          /\ UNCHANGED buffer
          /\ pc[p] # "get_clear" /\ pc' = [pc EXCEPT ![p] = "idle"]
          /\ idx' = [idx EXCEPT ![p] = 0]
      BY <2>0, <2>4 DEF PutFree, TypeOK, Return, Goto
    <3>2. \A i \in Slots : buffer[i] # data[p]
      BY <2>0, <3>1
         DEF Ownership, ExclusiveOwnership, BeingCleared, Threads
    <3>3. \A i : BeingCleared(i) => BeingCleared(i)'
      BY <2>0, <3>1 DEF BeingCleared, TypeOK
    <3>4. OwnedIsLive'
      BY <2>0, <3>1, <3>2
         DEF Ownership, OwnedIsLive, ExclusiveOwnership, TypeOK
    <3>5. ExclusiveOwnership'
      BY <2>0, <3>1, <3>3 DEF Ownership, ExclusiveOwnership, TypeOK
    <3> QED BY <3>4, <3>5 DEF Ownership
  <2>5. ASSUME NEW c \in Consumers,
               GetCall(c) \/ GetLoad(c) \/ GetEmpty(c) \/ GetCas(c)
        PROVE Ownership'
    <3>1. /\ UNCHANGED <<buffer, data, alloc>>
          /\ pc[c] # "get_clear"
          /\ \A u \in Threads : u # c => idx'[u] = idx[u]
      BY <2>0, <2>5 DEF GetCall, GetLoad, GetEmpty, GetCas, TypeOK
    <3>2. \E l : pc' = [pc EXCEPT ![c] = l]
      BY <2>5 DEF GetCall, GetLoad, GetEmpty, GetCas, Goto, Retry
    <3> QED BY <2>0, <3>1, <3>2, OwnershipFrame
  <2>6. ASSUME NEW c \in Consumers, GetRead(c) PROVE Ownership'
    <3> DEFINE s == Succ(idx[c])
    <3>1. /\ s \in Slots /\ data[c] = Zero /\ pc[c] = "get_read"
          /\ data' = [data EXCEPT ![c] = buffer[s]]
          /\ UNCHANGED <<buffer, alloc, idx>>
          /\ pc' = [pc EXCEPT ![c] = "get_clear"]
      BY <2>0, <2>6, SuccType DEF GetRead, TypeOK, Goto, EmptyHandedPCs
    <3>2. \A i : ~ BeingCleared(i)
      BY <3>1, SingleConsumer DEF SingleConsumer, BeingCleared
    <3>3. \A t \in Threads, i \in Slots : data[t] # Zero => buffer[i] # data[t]
      BY <3>2 DEF Ownership, ExclusiveOwnership
    <3>4. \A i : i = s => BeingCleared(i)'
      BY <2>0, <3>1 DEF BeingCleared, TypeOK
    <3>5. OwnedIsLive'
      BY <2>0, <3>1 DEF Ownership, OwnedIsLive, TypeOK
    <3> HIDE DEF s
    <3>6. ExclusiveOwnership'
      BY <2>0, <3>1, <3>3, <3>4 DEF Ownership, ExclusiveOwnership, TypeOK
    <3> QED BY <3>5, <3>6 DEF Ownership
  <2>7. ASSUME NEW c \in Consumers, GetClear(c) PROVE Ownership'
    <3> DEFINE s == Succ(idx[c])
    <3>1. /\ s \in Slots
          /\ buffer' = [buffer EXCEPT ![s] = Zero]
          /\ UNCHANGED <<data, alloc>>
      BY <2>0, <2>7, SuccType DEF GetClear, TypeOK
    <3>2. \A i : BeingCleared(i) => i = s
      BY <2>7, SingleConsumer DEF SingleConsumer, BeingCleared
    <3> HIDE DEF s
    <3>3. OwnedIsLive'
      BY <3>1 DEF Ownership, OwnedIsLive, TypeOK
    <3>4. ExclusiveOwnership'
      BY <3>1, <3>2 DEF Ownership, ExclusiveOwnership, TypeOK
    <3> QED BY <3>3, <3>4 DEF Ownership
  <2>8. ASSUME NEW c \in Consumers, GetFree(c) PROVE Ownership'
    <3>1. /\ alloc' = alloc \ {data[c]}
          /\ data' = [data EXCEPT ![c] = Zero]
          /\ buffer' = buffer
      BY <2>8 DEF GetFree
    <3>2. \A i : ~ BeingCleared(i)
      BY <2>8, SingleConsumer DEF SingleConsumer, BeingCleared, GetFree
    <3>3. \A i \in Slots : data[c] # Zero => buffer[i] # data[c]
      BY <2>0, <3>2 DEF Ownership, ExclusiveOwnership
    <3>4. OwnedIsLive'
      BY <2>0, <3>1, <3>3
         DEF Ownership, OwnedIsLive, ExclusiveOwnership, TypeOK
    <3>5. ExclusiveOwnership'
      BY <2>0, <3>1, <3>2 DEF Ownership, ExclusiveOwnership, TypeOK
    <3> QED BY <3>4, <3>5 DEF Ownership
  <2>9. CASE UNCHANGED vars
    BY <2>9 DEF vars, Ownership, OwnedIsLive, ExclusiveOwnership, BeingCleared
  <2> QED
    BY <2>1, <2>2, <2>3, <2>4, <2>5, <2>6, <2>7, <2>8, <2>9
       DEF Next, cbufPut, cbufGet
<1> QED
  BY <1>1, <1>2, TypeCorrect, PTL DEF Spec, Ownership

\* With one reader, cbufPut and cbufGet never leave a freed block in a slot or
\* in the hands of a thread.
THEOREM HeldStaysAllocated ==
  ASSUME SingleConsumer
  PROVE  Spec => []OwnedIsLive
BY OwnershipCorrect, PTL

-----------------------------------------------------------------------------
(***************************************************************************)
(* The ring implements HandOff.                                            *)
(***************************************************************************)

\* A step that moves one block, or none, is a step of Move, or stutters.
LEMMA OneMoves ==
  ASSUME NEW d \in Data, \A e \in Data \ {d} : OwnerOf(e)' = OwnerOf(e)
  PROVE  Owner' = [Owner EXCEPT ![d] = OwnerOf(d)']
  BY DEF Owner

LEMMA NoneMoves ==
  ASSUME \A e \in Data : OwnerOf(e)' = OwnerOf(e)
  PROVE  Owner' = Owner
  BY DEF Owner

\* Without a change of slots, locals and heap nothing moves.
LEMMA OwnersKept ==
  ASSUME UNCHANGED <<buffer, data, alloc>>
  PROVE  Owner' = Owner
<1>1. \A e \in Data : OwnerOf(e)' = OwnerOf(e)
  BY DEF OwnerOf
<1> QED BY <1>1, NoneMoves

\* Every step of a put or a get, or of their callers, moves a block the way
\* HandOff allows, or moves none.
LEMMA HandOffStep ==
  ASSUME SingleConsumer, TypeOK, TypeOK', Ownership, [Next]_vars
  PROVE  [Abstract!HNext]_Owner
<1> USE DEF Ownership
<1>0. /\ \A p \in Producers : p \in Threads /\ p \notin Consumers
      /\ \A c \in Consumers : c \in Threads /\ c \notin Producers
  BY ThreadsAssumption DEF Threads
<1>1. ASSUME NEW p \in Producers, PutCall(p) PROVE Abstract!HNext
  <2>1. PICK d \in Data \ alloc : /\ alloc' = alloc \cup {d}
                                 /\ data' = [data EXCEPT ![p] = d]
                                 /\ buffer' = buffer
    BY <1>1 DEF PutCall
  <2>2. /\ \A t \in Threads : data[t] # d
        /\ \A i \in Slots : buffer[i] # d
        /\ d # Zero /\ data[p] = Zero
    BY <1>0, <1>1, <2>1, ZeroAssumption DEF OwnedIsLive, TypeOK, PutCall, EmptyHandedPCs
  <2>3. OwnerOf(d) = "heap" /\ OwnerOf(d)' = "producer"
    BY <1>0, <2>1, <2>2 DEF OwnerOf, TypeOK
  <2>4. \A e \in Data \ {d} : OwnerOf(e)' = OwnerOf(e)
    BY <1>0, <2>1, <2>2, ZeroAssumption DEF OwnerOf, TypeOK
  <2>5. Abstract!Offer(d)
    BY <2>1, <2>3, <2>4, OneMoves DEF Abstract!Offer, Abstract!Move, Owner
  <2> QED BY <2>5 DEF Abstract!HNext
<1>2. ASSUME NEW p \in Producers,
             PutLoad(p) \/ PutFull(p) \/ PutCas(p) \/ PutSlot(p)
      PROVE  Owner' = Owner
  BY <1>2, OwnersKept DEF PutLoad, PutFull, PutCas, PutSlot
<1>3. ASSUME NEW p \in Producers, PutStore(p) PROVE Abstract!HNext
  <2>1. PICK s \in Slots, d \in Data, e \in Data \cup {Zero} :
           /\ s = Succ(idx[p]) /\ d = data[p] /\ e = buffer[s]
           /\ d \in alloc
           /\ buffer' = [buffer EXCEPT ![s] = d]
           /\ data' = [data EXCEPT ![p] = Zero]
           /\ UNCHANGED alloc
           /\ pc[p] = "put_store"
    BY <1>0, <1>3, SuccType DEF PutStore, TypeOK, OwnedIsLive
  <2>2. /\ \A i \in Slots : buffer[i] # d
        /\ \A t \in Threads : t # p => data[t] # d
        /\ d # Zero /\ d # e
    BY <1>0, <2>1, ZeroAssumption DEF ExclusiveOwnership, BeingCleared, Threads
  <2>3. OwnerOf(d) = "producer" /\ OwnerOf(d)' = "ring"
    BY <1>0, <2>1, <2>2 DEF OwnerOf, TypeOK
  <2>4. \A f \in Data \ {d, e} : OwnerOf(f)' = OwnerOf(f)
    BY <1>0, <2>1, <2>2, ZeroAssumption DEF OwnerOf, TypeOK
  <2>5. CASE e \notin Data \/ OwnerOf(e)' = OwnerOf(e)
    <3>1. Abstract!Accept(d)
      BY <2>1, <2>3, <2>4, <2>5, OneMoves DEF Abstract!Accept, Abstract!Move, Owner
    <3> QED BY <3>1 DEF Abstract!HNext
  <2>6. CASE e \in Data /\ OwnerOf(e)' # OwnerOf(e)
    <3>1. /\ \A i \in Slots : i # s => buffer[i] # e
          /\ e \in alloc
      BY <2>1, <2>6, ZeroAssumption DEF ExclusiveOwnership, OwnedIsLive
    <3>2. OwnerOf(e) = "ring" /\ OwnerOf(e)' = "lost"
      BY <1>0, <2>1, <2>2, <2>6, <3>1, ZeroAssumption DEF OwnerOf, TypeOK
    <3>3. Owner' = [Owner EXCEPT ![d] = "ring", ![e] = "lost"]
      BY <2>1, <2>2, <2>3, <2>4, <3>2 DEF Owner
    <3>4. Abstract!Overwrite(d, e)
      BY <2>1, <2>3, <2>6, <3>2, <3>3 DEF Abstract!Overwrite, Owner
    <3> QED BY <2>6, <3>4 DEF Abstract!HNext
  <2> QED BY <2>5, <2>6
<1>4. ASSUME NEW p \in Producers, PutFree(p) PROVE Abstract!HNext
  <2>1. PICK d \in Data :
           /\ d = data[p]
           /\ alloc' = alloc \ {d}
           /\ data' = [data EXCEPT ![p] = Zero]
           /\ UNCHANGED buffer
           /\ pc[p] = "put_free"
    BY <1>0, <1>4 DEF PutFree, TypeOK
  <2>2. /\ \A i \in Slots : buffer[i] # d
        /\ \A t \in Threads : t # p => data[t] # d
        /\ d # Zero
    BY <1>0, <2>1, ZeroAssumption DEF ExclusiveOwnership, BeingCleared, Threads
  <2>3. OwnerOf(d) = "producer" /\ OwnerOf(d)' = "heap"
    BY <1>0, <2>1, <2>2 DEF OwnerOf, TypeOK
  <2>4. \A f \in Data \ {d} : OwnerOf(f)' = OwnerOf(f)
    BY <1>0, <2>1, <2>2, ZeroAssumption DEF OwnerOf, TypeOK
  <2>5. Abstract!Reject(d)
    BY <2>3, <2>4, OneMoves DEF Abstract!Reject, Abstract!Move, Owner
  <2> QED BY <2>5 DEF Abstract!HNext
<1>5. ASSUME NEW c \in Consumers,
             GetCall(c) \/ GetLoad(c) \/ GetEmpty(c) \/ GetCas(c)
      PROVE  Owner' = Owner
  BY <1>5, OwnersKept DEF GetCall, GetLoad, GetEmpty, GetCas
<1>6. ASSUME NEW c \in Consumers, GetRead(c) PROVE [Abstract!HNext]_Owner
  <2>1. PICK s \in Slots, d \in Data \cup {Zero} :
           /\ s = Succ(idx[c]) /\ d = buffer[s]
           /\ data[c] = Zero
           /\ data' = [data EXCEPT ![c] = d]
           /\ UNCHANGED <<buffer, alloc>>
           /\ pc[c] = "get_read"
    BY <1>0, <1>6, SuccType DEF GetRead, TypeOK, EmptyHandedPCs
  <2>2. \A t \in Threads : d # Zero => data[t] # d
    BY <2>1, SingleConsumer DEF SingleConsumer, ExclusiveOwnership, BeingCleared
  <2>3. \A f \in Data \ {d} : OwnerOf(f)' = OwnerOf(f)
    BY <1>0, <2>1, ZeroAssumption DEF OwnerOf, TypeOK
  <2>4. CASE d = Zero
    BY <2>3, <2>4, NoneMoves, ZeroAssumption
  <2>5. CASE d \in Data
    <3>1. OwnerOf(d) = "ring" /\ OwnerOf(d)' = "consumer"
      BY <1>0, <2>1, <2>2, <2>5, ZeroAssumption DEF OwnerOf, TypeOK
    <3>2. Abstract!Deliver(d)
      BY <2>3, <2>5, <3>1, OneMoves DEF Abstract!Deliver, Abstract!Move, Owner
    <3> QED BY <2>5, <3>2 DEF Abstract!HNext
  <2> QED BY <2>4, <2>5
<1>7. ASSUME NEW c \in Consumers, GetClear(c) PROVE [Abstract!HNext]_Owner
  <2>1. PICK s \in Slots, d \in Data \cup {Zero} :
           /\ s = Succ(idx[c]) /\ d = buffer[s]
           /\ buffer' = [buffer EXCEPT ![s] = Zero]
           /\ UNCHANGED <<data, alloc>>
    BY <1>0, <1>7, SuccType DEF GetClear, TypeOK
  <2>2. \A f \in Data \ {d} : OwnerOf(f)' = OwnerOf(f)
    BY <2>1, ZeroAssumption DEF OwnerOf, TypeOK
  <2>3. CASE d = Zero \/ OwnerOf(d)' = OwnerOf(d)
    BY <2>2, <2>3, NoneMoves, ZeroAssumption
  <2>4. CASE d \in Data /\ OwnerOf(d)' # OwnerOf(d)
    <3>1. /\ \A i \in Slots : i # s => buffer[i] # d
          /\ d \in alloc
      BY <2>1, <2>4, ZeroAssumption DEF ExclusiveOwnership, OwnedIsLive
    <3>2. OwnerOf(d) = "ring" /\ OwnerOf(d)' = "lost"
      BY <2>1, <2>4, <3>1, ZeroAssumption DEF OwnerOf, TypeOK
    <3>3. Abstract!Lose(d)
      BY <2>2, <2>4, <3>2, OneMoves DEF Abstract!Lose, Abstract!Move, Owner
    <3> QED BY <2>4, <3>3 DEF Abstract!HNext
  <2> QED BY <2>1, <2>3, <2>4
<1>8. ASSUME NEW c \in Consumers, GetFree(c) PROVE [Abstract!HNext]_Owner
  <2>1. PICK d \in Data \cup {Zero} :
           /\ d = data[c]
           /\ alloc' = alloc \ {d}
           /\ data' = [data EXCEPT ![c] = Zero]
           /\ UNCHANGED buffer
           /\ pc[c] = "get_free"
    BY <1>0, <1>8 DEF GetFree, TypeOK
  <2>2. d # Zero => /\ \A i \in Slots : buffer[i] # d
                    /\ \A t \in Threads : t # c => data[t] # d
    BY <1>0, <2>1, SingleConsumer
       DEF SingleConsumer, ExclusiveOwnership, BeingCleared
  <2>3. \A f \in Data \ {d} : OwnerOf(f)' = OwnerOf(f)
    BY <1>0, <2>1, ZeroAssumption DEF OwnerOf, TypeOK
  <2>4. CASE d = Zero
    BY <2>3, <2>4, NoneMoves, ZeroAssumption
  <2>5. CASE d \in Data
    <3>1. OwnerOf(d) = "consumer" /\ OwnerOf(d)' = "heap"
      BY <1>0, <2>1, <2>2, <2>5, ZeroAssumption DEF OwnerOf, TypeOK
    <3>2. Abstract!Release(d)
      BY <2>3, <2>5, <3>1, OneMoves DEF Abstract!Release, Abstract!Move, Owner
    <3> QED BY <2>5, <3>2 DEF Abstract!HNext
  <2> QED BY <2>1, <2>4, <2>5
<1>9. CASE UNCHANGED vars
  BY <1>9, OwnersKept DEF vars
<1> QED
  BY <1>1, <1>2, <1>3, <1>4, <1>5, <1>6, <1>7, <1>8, <1>9 DEF Next, cbufPut, cbufGet

\* The ring keeps its promise to the code around it: with one reader, for
\* every size of the ring and any number of producers, each step of cbufPut,
\* cbufGet and their callers is a step of the abstract hand-off or leaves
\* every block where it is.
THEOREM HandOffImplemented ==
  ASSUME SingleConsumer
  PROVE  Spec => ImplementsHandOff
<1>1. Init => Abstract!HInit
  BY ZeroAssumption DEF Init, cbufInit, Abstract!HInit, Owner, OwnerOf, Threads
<1>2. TypeOK /\ TypeOK' /\ Ownership /\ [Next]_vars => [Abstract!HNext]_Owner
  BY SingleConsumer, HandOffStep
<1> QED
  BY <1>1, <1>2, TypeCorrect, OwnershipCorrect, PTL
     DEF Spec, ImplementsHandOff, Abstract!HSpec, Ownership
=============================================================================
