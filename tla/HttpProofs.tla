----------------------------- MODULE HttpProofs -----------------------------
(***************************************************************************)
(* Proofs about HttpMatch, for any number of descriptors, sockets and      *)
(* requests, any ring and any number of chains.                            *)
(***************************************************************************)
EXTENDS HttpMatch, HttpScan, NaturalsInduction, WellFoundedInduction, SequenceTheorems, TLAPS

(***************************************************************************)
(* The inductive invariant.                                                *)
(***************************************************************************)

\* A descriptor has the uid of one socket, a socket in use has one, and a
\* request is under way only after it was counted.
SocketsOK ==
    /\ \A f \in Fds : /\ netInfo[f].uid <= lastUid
                      /\ netInfo[f].active => netInfo[f].uid # 0
                      /\ talk[f].phase = "asked" => talk[f].sent # 0
    /\ \A f, g \in Fds : netInfo[f].uid = netInfo[g].uid /\ netInfo[f].uid # 0 => f = g

\* An event names the descriptor of its socket.
EventOK(e) ==
    /\ e.uid <= lastUid
    /\ \A f \in Fds : netInfo[f].uid = e.uid => f = e.fd
    /\ e.kind # "CONNECTION_DURATION" => e.req # 0

EventsOK == \A i \in 1 .. Len(ring) : EventOK(ring[i])

\* No event of a socket is in the ring.
Silent(u) == \A i \in 1 .. Len(ring) : ring[i].uid # u

\* An item names the descriptor of its socket.  Once it is marked its socket is
\* closed, and what the ring holds of it was there when it was marked: it is
\* consumed before the ring has turned over.
ItemOK(it) ==
    /\ it.sockid <= lastUid
    /\ \A f \in Fds : netInfo[f].uid = it.sockid => f = it.sockfd
    /\ it.circBufCount # 0 =>
          /\ Dead(it.sockid)
          /\ \A i \in 1 .. Len(ring) :
                ring[i].uid = it.sockid => g_cumulativeEventCount + i <= it.circBufCount + cbufSize

ItemsOK == \A h \in Chains : \A i \in 1 .. Len(hashTable[h]) : ItemOK(hashTable[h][i])

\* An item is in its chain, once.
Filed ==
    \A h \in Chains :
        /\ \A i \in 1 .. Len(hashTable[h]) : hashOfKey(hashTable[h][i].sockid) = h
        /\ \A i, j \in 1 .. Len(hashTable[h]) :
              hashTable[h][i].sockid = hashTable[h][j].sockid => i = j

\* storeExpire starts at the first chain; the event loop is left at the limit.
LoopOK ==
    /\ loop.at # "expire" => walk.chain = 0 /\ walk.current = 1
    /\ loop.at = "in" => loop.eventCount <= MAX_EVT_COUNT /\ ~loop.exitedLoopEarly

\* Item i of chain h is still to be visited.
Ahead(h, i) == h > walk.chain \/ (h = walk.chain /\ i >= walk.current)

\* Where the ring was emptied before the walk, an item that the walk has not
\* reached yet was marked by an earlier one: its socket has been silent since.
EmptiedIsSilent ==
    loop.at \in {"after", "expire"} /\ ~loop.exitedLoopEarly =>
        \A h \in Chains : \A i \in 1 .. Len(hashTable[h]) :
            Ahead(h, i) /\ hashTable[h][i].circBufCount # 0 => Silent(hashTable[h][i].sockid)

ExpiredIsDead == \A u \in hist.expired : Dead(u) /\ Silent(u)

SilenceInv ==
    /\ TypeOK /\ SocketsOK /\ EventsOK /\ ItemsOK /\ Filed /\ LoopOK /\ EmptiedIsSilent /\ ExpiredIsDead

\* The store has request k of a socket, or has nothing of it.
Has(u, k) ==
    \E i \in 1 .. Len(hashTable[hashOfKey(u)]) :
        hashTable[hashOfKey(u)][i].sockid = u /\ hashTable[hashOfKey(u)][i].data = k
HasNone(u) ==
    \A i \in 1 .. Len(hashTable[hashOfKey(u)]) : hashTable[hashOfKey(u)][i].sockid # u

\* Event j is the last one of its socket among the first i.
LastOf(u, i, j) ==
    j \in 1 .. i /\ ring[j].uid = u /\ \A l \in 1 .. i : ring[l].uid = u => l <= j
NoneOf(u, i) == \A l \in 1 .. i : ring[l].uid # u

\* When the first i events have been handled the store will have request k of
\* the socket, or it was cut off; or will have nothing of the socket.
WillHave(u, i, k) ==
    \/ \E j \in 1 .. i : LastOf(u, i, j) /\ ring[j].kind = "EVT_HREQ" /\ ring[j].req = k
    \/ NoneOf(u, i) /\ (Has(u, k) \/ (HasNone(u) /\ u \in hist.cut))
WillHaveNone(u, i) ==
    \/ \E j \in 1 .. i : LastOf(u, i, j) /\ ring[j].kind = "EVT_HRES"
    \/ NoneOf(u, i) /\ HasNone(u)

\* A response finds its request, a request finds nothing.
EventInTurn(i) ==
    /\ ring[i].kind = "EVT_HRES" => WillHave(ring[i].uid, i - 1, ring[i].req)
    /\ ring[i].kind = "EVT_HREQ" => WillHaveNone(ring[i].uid, i - 1)

\* So does what the application posts next.
TalkInTurn(f) ==
    /\ talk[f].phase = "asked" => WillHave(netInfo[f].uid, Len(ring), talk[f].sent)
    /\ talk[f].phase = "idle" => WillHaveNone(netInfo[f].uid, Len(ring))

PairInv ==
    /\ PairedUnlessDropped
    /\ \A i \in 1 .. Len(ring) : ring[i].uid \notin hist.dropped => EventInTurn(i)
    /\ \A f \in Fds :
          netInfo[f].active /\ netInfo[f].uid \notin hist.dropped => TalkInTurn(f)

HttpMatchInv == SilenceInv /\ PairInv

(***************************************************************************)
(* Sequences and the store.                                                *)
(***************************************************************************)

\* A set of numbers that is not empty has a least one.
LEMMA LeastNumber ==
    ASSUME NEW S \in SUBSET Nat, S # {}
    PROVE  \E n \in S : \A m \in S : n <= m
<1>1. IsWellFoundedOn(OpToRel(<, Nat), Nat) BY NatLessThanWellFounded
<1>2. PICK n \in S : \A m \in S : <<m, n>> \notin OpToRel(<, Nat) BY <1>1, WFMin, Zenon
<1>3. ASSUME NEW m \in S PROVE n <= m
  <2>1. ~(m < n) BY <1>2, <1>3 DEF OpToRel
  <2> QED BY <2>1
<1> QED BY <1>3

LEMMA MinIsIn ==
    ASSUME NEW S \in SUBSET Nat, S # {}
    PROVE  Min(S) \in S
<1>1. \E n \in S : \A m \in S : n <= m BY LeastNumber
<1> QED BY <1>1 DEF Min

LEMMA SequenceFacts ==
    ASSUME NEW S, NEW s \in Seq(S)
    PROVE  /\ Len(s) \in Nat /\ DOMAIN s = 1 .. Len(s)
           /\ \A i \in 1 .. Len(s) : s[i] \in S
OBVIOUS

\* What is left of a sequence without its first element.
LEMMA TailOf ==
    ASSUME NEW S, NEW s \in Seq(S), s # <<>>
    PROVE  /\ Len(s) \in Nat \ {0} /\ Head(s) = s[1] /\ s[1] \in S
           /\ Tail(s) \in Seq(S) /\ Len(Tail(s)) = Len(s) - 1
           /\ \A i \in 1 .. Len(s) - 1 : Tail(s)[i] = s[i + 1]
OBVIOUS

LEMMA AppendTo ==
    ASSUME NEW S, NEW s \in Seq(S), NEW e \in S
    PROVE  /\ Append(s, e) \in Seq(S) /\ Len(s) \in Nat /\ Len(Append(s, e)) = Len(s) + 1
           /\ Append(s, e)[Len(s) + 1] = e
           /\ \A i \in 1 .. Len(s) : Append(s, e)[i] = s[i]
OBVIOUS

\* What is left of a chain when an item is taken out.
LEMMA RemoveAtFacts ==
    ASSUME NEW S, NEW s \in Seq(S), NEW n \in 1 .. Len(s)
    PROVE  /\ RemoveAt(s, n) \in Seq(S) /\ Len(RemoveAt(s, n)) = Len(s) - 1
           /\ \A i \in 1 .. Len(s) - 1 :
                 RemoveAt(s, n)[i] = IF i < n THEN s[i] ELSE s[i + 1]
<1> DEFINE a == SubSeq(s, 1, n - 1)
           b == SubSeq(s, n + 1, Len(s))
<1>1. /\ a \in Seq(S) /\ Len(a) = n - 1 /\ Len(s) \in Nat
      /\ \A i \in 1 .. n - 1 : a[i] = s[i]
  OBVIOUS
<1>2. /\ b \in Seq(S) /\ Len(b) = Len(s) - n
      /\ \A i \in 1 .. Len(s) - n : b[i] = s[n + i]
  OBVIOUS
<1> HIDE DEF a, b
<1>3. PICK r : r = RemoveAt(s, n) OBVIOUS
<1>4. r = a \o b BY <1>3 DEF RemoveAt, a, b
<1>5. /\ r \in Seq(S) /\ Len(r) = Len(a) + Len(b)
      /\ \A i \in 1 .. Len(a) + Len(b) : r[i] = IF i <= Len(a) THEN a[i] ELSE b[i - Len(a)]
  BY <1>1, <1>2, <1>4, ConcatProperties, Zenon
<1>6. ASSUME NEW i \in 1 .. Len(s) - 1
      PROVE  r[i] = IF i < n THEN s[i] ELSE s[i + 1]
  <2>1. n \in Nat /\ i \in Nat /\ i \in 1 .. Len(a) + Len(b) BY <1>1, <1>2
  <2>2. CASE i < n BY <1>1, <1>5, <2>1, <2>2
  <2>3. CASE i >= n
    <3>0. i - (n - 1) \in 1 .. Len(s) - n BY <1>1, <2>1, <2>3
    <3>1. PICK k \in 1 .. Len(s) - n : k = i - (n - 1) BY <3>0
    <3>2. r[i] = b[k]
      <4>1. r[i] = IF i <= Len(a) THEN a[i] ELSE b[i - Len(a)] BY <1>5, <2>1, Zenon
      <4>2. ~(i <= Len(a)) /\ i - Len(a) = k BY <1>1, <2>1, <2>3, <3>1
      <4> QED BY <4>1, <4>2, Zenon
    <3>3. b[k] = s[i + 1]
      <4>1. n + k = i + 1 BY <2>1, <3>1
      <4> QED BY <1>2, <4>1
    <3> QED BY <2>1, <2>3, <3>2, <3>3
  <2> QED BY <2>1, <2>2, <2>3
<1> QED BY <1>1, <1>2, <1>3, <1>5, <1>6

\* What is left of a chain whose head is moved.
LEMMA CutFacts ==
    ASSUME NEW S, NEW s \in Seq(S), NEW n \in 1 .. Len(s)
    PROVE  /\ SubSeq(s, n + 1, Len(s)) \in Seq(S) /\ Len(SubSeq(s, n + 1, Len(s))) = Len(s) - n
           /\ \A i \in 1 .. Len(s) - n : SubSeq(s, n + 1, Len(s))[i] = s[n + i]
OBVIOUS

\* A chain of a socket.
LEMMA ChainFacts ==
    ASSUME TypeOK, NEW u \in Uids
    PROVE  /\ hashOfKey(u) \in Chains /\ hashTable[hashOfKey(u)] \in Seq(Item)
           /\ Len(hashTable[hashOfKey(u)]) \in Nat
<1>1. hashOfKey(u) \in Chains BY HttpMatchAssumption DEF hashOfKey, Chains, Uids
<1> QED BY <1>1 DEF TypeOK

\* findHashTableItemFromList finds the item of a socket where there is one.
LEMMA FindFacts ==
    ASSUME TypeOK, NEW u \in Uids
    PROVE  /\ Find(u) = 0 => HasNone(u)
           /\ Find(u) # 0 => /\ Find(u) \in 1 .. Len(hashTable[hashOfKey(u)])
                             /\ hashTable[hashOfKey(u)][Find(u)].sockid = u
<1> DEFINE c == hashTable[hashOfKey(u)]
           I == {i \in 1 .. Len(c) : c[i].sockid = u}
<1>1. c \in Seq(Item) /\ Len(c) \in Nat BY ChainFacts
<1>2. Find(u) = IF I # {} THEN Min(I) ELSE 0 BY DEF Find, SelectInSeq
<1>3. CASE I = {} BY <1>2, <1>3 DEF HasNone
<1>4. CASE I # {}
  <2>1. I \in SUBSET Nat BY <1>1
  <2>2. Min(I) \in I BY <1>4, <2>1, MinIsIn
  <2>3. Min(I) # 0 BY <2>2, <1>1
  <2> QED BY <1>2, <1>4, <2>2, <2>3
<1> QED BY <1>3, <1>4

\* Every item of the store was there before.
OldItems ==
    \A g \in Chains : \A j \in 1 .. Len(hashTable'[g]) :
        \E i \in 1 .. Len(hashTable[g]) : hashTable'[g][j] = hashTable[g][i]

\* The store says the same of a socket as before.
SameOf(v) == (HasNone(v)' <=> HasNone(v)) /\ \A d \in Nat : Has(v, d)' <=> Has(v, d)

\* A chain loses the items of some sockets, and the rest keeps its order: item j
\* of it was item m[j].
Shrinks(h, t, Gone, m) ==
    /\ m \in [1 .. Len(t) -> 1 .. Len(hashTable[h])]
    /\ \A i, j \in 1 .. Len(t) : m[i] = m[j] => i = j
    /\ \A j \in 1 .. Len(t) : t[j] = hashTable[h][m[j]] /\ t[j].sockid \notin Gone
    /\ \A i \in 1 .. Len(hashTable[h]) :
          hashTable[h][i].sockid \notin Gone => \E j \in 1 .. Len(t) : m[j] = i

\* Then the chain stays filed, and the store says the same of the others.
LEMMA ChainShrinks ==
    ASSUME TypeOK, Filed, NEW h \in Chains, NEW t \in Seq(Item), NEW Gone, NEW m,
           Shrinks(h, t, Gone, m), hashTable' = [hashTable EXCEPT ![h] = t]
    PROVE  /\ hashTable' \in [Chains -> Seq(Item)] /\ Filed' /\ OldItems
           /\ \A v \in Uids : v \notin Gone => SameOf(v)
           /\ \A v \in Uids : v \in Gone /\ hashOfKey(v) = h => HasNone(v)'
<1>0. /\ m \in [1 .. Len(t) -> 1 .. Len(hashTable[h])]
      /\ \A i, j \in 1 .. Len(t) : m[i] = m[j] => i = j
      /\ \A j \in 1 .. Len(t) : t[j] = hashTable[h][m[j]] /\ t[j].sockid \notin Gone
      /\ \A i \in 1 .. Len(hashTable[h]) :
            hashTable[h][i].sockid \notin Gone => \E j \in 1 .. Len(t) : m[j] = i
  BY DEF Shrinks
<1>1. hashTable \in [Chains -> Seq(Item)] /\ Len(t) \in Nat /\ Len(hashTable[h]) \in Nat BY DEF TypeOK
<1>2. /\ hashTable' \in [Chains -> Seq(Item)] /\ hashTable'[h] = t
      /\ \A g \in Chains : g # h => hashTable'[g] = hashTable[g]
  BY <1>1
<1>3. OldItems
  <2> SUFFICES ASSUME NEW g \in Chains, NEW j \in 1 .. Len(hashTable'[g])
               PROVE  \E i \in 1 .. Len(hashTable[g]) : hashTable'[g][j] = hashTable[g][i]
    BY DEF OldItems
  <2>1. CASE g # h BY <1>2, <2>1
  <2>2. CASE g = h
    <3>1. m[j] \in 1 .. Len(hashTable[h]) /\ hashTable'[g][j] = hashTable[g][m[j]] BY <1>0, <1>2, <2>2
    <3> QED BY <2>2, <3>1
  <2> QED BY <2>1, <2>2
<1>4. Filed'
  <2> SUFFICES ASSUME NEW g \in Chains
               PROVE  /\ \A i \in 1 .. Len(hashTable'[g]) : hashOfKey(hashTable'[g][i].sockid) = g
                      /\ \A i, j \in 1 .. Len(hashTable'[g]) :
                            hashTable'[g][i].sockid = hashTable'[g][j].sockid => i = j
    BY DEF Filed, hashOfKey
  <2>1. CASE g # h BY <1>2, <2>1 DEF Filed
  <2>2. CASE g = h
    <3>1. ASSUME NEW i \in 1 .. Len(t)
          PROVE  m[i] \in 1 .. Len(hashTable[h]) /\ t[i] = hashTable[h][m[i]]
      BY <1>0
    <3>0. /\ \A k \in 1 .. Len(hashTable[h]) : hashOfKey(hashTable[h][k].sockid) = h
          /\ \A k, l \in 1 .. Len(hashTable[h]) :
                hashTable[h][k].sockid = hashTable[h][l].sockid => k = l
      BY DEF Filed
    <3>2. ASSUME NEW i \in 1 .. Len(t) PROVE hashOfKey(t[i].sockid) = h
      <4>1. hashOfKey(hashTable[h][m[i]].sockid) = h BY <3>0, <3>1
      <4> QED BY <3>1, <4>1
    <3>3. ASSUME NEW i \in 1 .. Len(t), NEW j \in 1 .. Len(t), t[i].sockid = t[j].sockid PROVE i = j
      <4>1. m[i] = m[j] BY SMTT(30), <3>0, <3>1, <3>3
      <4> QED BY <1>0, <4>1
    <3> QED BY <1>2, <2>2, <3>2, <3>3
  <2> QED BY <2>1, <2>2
<1>5. ASSUME NEW v \in Uids, v \notin Gone PROVE SameOf(v)
  <2>1. hashOfKey(v) \in Chains BY ChainFacts
  <2>2. CASE hashOfKey(v) # h BY <1>2, <2>1, <2>2 DEF SameOf, Has, HasNone, hashOfKey
  <2>3. CASE hashOfKey(v) = h
    <3>1. ASSUME NEW j \in 1 .. Len(t)
          PROVE  \E i \in 1 .. Len(hashTable[h]) : t[j] = hashTable[h][i]
      <4>1. m[j] \in 1 .. Len(hashTable[h]) /\ t[j] = hashTable[h][m[j]] BY <1>0
      <4> QED BY <4>1
    <3>2. ASSUME NEW i \in 1 .. Len(hashTable[h]), hashTable[h][i].sockid = v
          PROVE  \E j \in 1 .. Len(t) : t[j] = hashTable[h][i]
      <4>1. PICK j \in 1 .. Len(t) : m[j] = i BY <1>0, <1>5, <3>2
      <4> QED BY <1>0, <4>1
    <3>3. HasNone(v)' <=> HasNone(v)
      <4>1. HasNone(v)' <=> \A j \in 1 .. Len(t) : t[j].sockid # v BY <1>2, <2>3 DEF HasNone, hashOfKey
      <4>2. HasNone(v) <=> \A j \in 1 .. Len(hashTable[h]) : hashTable[h][j].sockid # v BY <2>3 DEF HasNone
      <4>3. ASSUME NEW j \in 1 .. Len(t), t[j].sockid = v
            PROVE  \E i \in 1 .. Len(hashTable[h]) : hashTable[h][i].sockid = v
        BY <3>1, <4>3
      <4>4. ASSUME NEW i \in 1 .. Len(hashTable[h]), hashTable[h][i].sockid = v
            PROVE  \E j \in 1 .. Len(t) : t[j].sockid = v
        <5>1. PICK j \in 1 .. Len(t) : t[j] = hashTable[h][i] BY <3>2, <4>4
        <5> QED BY <4>4, <5>1
      <4> QED BY <4>1, <4>2, <4>3, <4>4, Zenon
    <3>4. ASSUME NEW d PROVE Has(v, d)' <=> Has(v, d)
      <4>1. Has(v, d)' <=> \E j \in 1 .. Len(t) : t[j].sockid = v /\ t[j].data = d
        BY <1>2, <2>3 DEF Has, hashOfKey
      <4>2. Has(v, d) <=> \E j \in 1 .. Len(hashTable[h]) :
                             hashTable[h][j].sockid = v /\ hashTable[h][j].data = d
        BY <2>3 DEF Has
      <4>3. ASSUME NEW j \in 1 .. Len(t), t[j].sockid = v, t[j].data = d
            PROVE  \E i \in 1 .. Len(hashTable[h]) : hashTable[h][i].sockid = v /\ hashTable[h][i].data = d
        <5>1. PICK i \in 1 .. Len(hashTable[h]) : t[j] = hashTable[h][i] BY <3>1
        <5> QED BY <4>3, <5>1
      <4>4. ASSUME NEW i \in 1 .. Len(hashTable[h]), hashTable[h][i].sockid = v, hashTable[h][i].data = d
            PROVE  \E j \in 1 .. Len(t) : t[j].sockid = v /\ t[j].data = d
        <5>1. PICK j \in 1 .. Len(t) : t[j] = hashTable[h][i] BY <3>2, <4>4
        <5> QED BY <4>4, <5>1
      <4> QED BY <4>1, <4>2, <4>3, <4>4, Zenon
    <3> QED BY <3>3, <3>4 DEF SameOf
  <2> QED BY <2>2, <2>3
<1>6. ASSUME NEW v \in Uids, v \in Gone, hashOfKey(v) = h PROVE HasNone(v)'
  <2>1. HasNone(v)' <=> \A j \in 1 .. Len(t) : t[j].sockid # v BY <1>2, <1>6 DEF HasNone, hashOfKey
  <2> QED BY <1>0, <1>6, <2>1
<1> QED BY <1>2, <1>3, <1>4, <1>5, <1>6

\* The items of a chain are those of different sockets, and hash to it.
LEMMA FiledFacts ==
    ASSUME Filed, NEW h \in Chains
    PROVE  /\ \A i \in 1 .. Len(hashTable[h]) : hashOfKey(hashTable[h][i].sockid) = h
           /\ \A i, j \in 1 .. Len(hashTable[h]) :
                 hashTable[h][i].sockid = hashTable[h][j].sockid => i = j
BY DEF Filed

LEMMA NothingChanges ==
    ASSUME TypeOK, Filed, hashTable' = hashTable
    PROVE  /\ hashTable' \in [Chains -> Seq(Item)] /\ Filed' /\ OldItems
           /\ \A v \in Uids : SameOf(v)
<1>1. hashTable' \in [Chains -> Seq(Item)] BY DEF TypeOK
<1>2. Filed' BY DEF Filed, hashOfKey
<1>3. OldItems BY DEF OldItems
<1>4. \A v \in Uids : SameOf(v) BY DEF SameOf, Has, HasNone, hashOfKey
<1> QED BY <1>1, <1>2, <1>3, <1>4

\* RemoveAt takes the item of one socket out of its chain.
LEMMA RemoveShrinks ==
    ASSUME TypeOK, Filed, NEW h \in Chains, NEW n \in 1 .. Len(hashTable[h]),
           NEW u, u = hashTable[h][n].sockid,
           hashTable' = [hashTable EXCEPT ![h] = RemoveAt(hashTable[h], n)]
    PROVE  /\ hashTable' \in [Chains -> Seq(Item)] /\ Filed' /\ OldItems
           /\ \A v \in Uids : v # u => SameOf(v)
           /\ u \in Uids => HasNone(u)'
<1>1. PICK c : c = hashTable[h] OBVIOUS
<1>2. PICK t : t = RemoveAt(c, n) OBVIOUS
<1>3. c \in Seq(Item) /\ Len(c) \in Nat /\ n \in 1 .. Len(c) BY <1>1 DEF TypeOK
<1>4. /\ t \in Seq(Item) /\ Len(t) = Len(c) - 1
      /\ \A i \in 1 .. Len(c) - 1 : t[i] = IF i < n THEN c[i] ELSE c[i + 1]
  BY <1>2, <1>3, RemoveAtFacts, Zenon
<1>5. PICK m : m = [j \in 1 .. Len(t) |-> IF j < n THEN j ELSE j + 1] OBVIOUS
<1>6. m \in [1 .. Len(t) -> 1 .. Len(c)] BY <1>3, <1>4, <1>5
<1>7. \A i, j \in 1 .. Len(t) : m[i] = m[j] => i = j BY <1>3, <1>4, <1>5
<1>8. ASSUME NEW j \in 1 .. Len(t) PROVE t[j] = c[m[j]] /\ t[j].sockid \notin {u}
  <2>1. m[j] = (IF j < n THEN j ELSE j + 1) BY <1>5
  <2>2. m[j] \in 1 .. Len(c) /\ m[j] # n BY <1>3, <1>6, <2>1
  <2>3. j \in 1 .. Len(c) - 1 BY <1>4
  <2>4. t[j] = c[m[j]] BY <1>4, <2>1, <2>3
  <2>5. c[m[j]].sockid # c[n].sockid BY <1>1, <1>3, <2>2, FiledFacts
  <2> QED BY <1>1, <2>4, <2>5
<1>9. ASSUME NEW i \in 1 .. Len(c), c[i].sockid \notin {u} PROVE \E j \in 1 .. Len(t) : m[j] = i
  <2>1. i # n BY <1>1, <1>9
  <2>2. CASE i < n
    <3>1. i \in 1 .. Len(t) /\ m[i] = i BY <1>3, <1>4, <1>5, <2>2
    <3> QED BY <3>1
  <2>3. CASE i > n
    <3>1. i - 1 \in 1 .. Len(t) /\ m[i - 1] = i BY <1>3, <1>4, <1>5, <2>3
    <3> QED BY <3>1
  <2> QED BY <1>3, <2>1, <2>2, <2>3
<1>10. hashTable' = [hashTable EXCEPT ![h] = t] BY <1>1, <1>2
<1>11. PICK Gone : Gone = {u} OBVIOUS
<1>12. hashOfKey(u) = h BY FiledFacts
<1>13. Shrinks(h, t, Gone, m) BY <1>1, <1>6, <1>7, <1>8, <1>9, <1>11 DEF Shrinks
<1>14. /\ hashTable' \in [Chains -> Seq(Item)] /\ Filed' /\ OldItems
       /\ \A v \in Uids : v \notin Gone => SameOf(v)
       /\ \A v \in Uids : v \in Gone /\ hashOfKey(v) = h => HasNone(v)'
  BY <1>4, <1>10, <1>13, ChainShrinks
<1> QED BY <1>11, <1>12, <1>14, Zenon

\* storeDelete leaves nothing of the socket, and the others as they were.
LEMMA DeleteFacts ==
    ASSUME TypeOK, Filed, NEW u \in Uids, storeDelete(u)
    PROVE  /\ hashTable' \in [Chains -> Seq(Item)] /\ Filed' /\ OldItems
           /\ \A v \in Uids : v # u => SameOf(v)
           /\ HasNone(u)'
<1>1. hashOfKey(u) \in Chains BY ChainFacts
<1>2. CASE Find(u) = 0
  <2>1. hashTable' = hashTable BY <1>2 DEF storeDelete
  <2>2. HasNone(u) BY <1>2, FindFacts
  <2>3. HasNone(u)' BY <2>1, <2>2 DEF HasNone, hashOfKey
  <2> QED BY <2>1, <2>3, NothingChanges
<1>3. CASE Find(u) # 0
  <2>1. PICK n : n = Find(u) OBVIOUS
  <2>2. n \in 1 .. Len(hashTable[hashOfKey(u)]) /\ u = hashTable[hashOfKey(u)][n].sockid
    BY <1>3, <2>1, FindFacts
  <2>3. hashTable' = [hashTable EXCEPT ![hashOfKey(u)] = RemoveAt(hashTable[hashOfKey(u)], n)]
    BY <1>3, <2>1 DEF storeDelete
  <2> QED BY <1>1, <2>2, <2>3, RemoveShrinks
<1> QED BY <1>2, <1>3

\* What storeSave appends.
NewItem(u, f, d) == [sockid |-> u, sockfd |-> f, data |-> d, circBufCount |-> 0]

\* storeSave adds the item of a socket that has none.
LEMMA SaveFacts ==
    ASSUME TypeOK, Filed, NEW u \in Uids, NEW f \in Fds, NEW d \in 1 .. MaxReq, storeSave(u, f, d)
    PROVE  /\ hashTable' \in [Chains -> Seq(Item)] /\ Filed'
           /\ \A h \in Chains : \A j \in 1 .. Len(hashTable'[h]) :
                 \/ \E i \in 1 .. Len(hashTable[h]) : hashTable'[h][j] = hashTable[h][i]
                 \/ hashTable'[h][j] = NewItem(u, f, d)
           /\ \A v \in Uids : v # u => SameOf(v)
           /\ HasNone(u) => Has(u, d)'
<1>1. CASE Find(u) # 0
  <2>1. hashTable' = hashTable BY <1>1 DEF storeSave
  <2>2. ~HasNone(u) BY <1>1, FindFacts DEF HasNone
  <2> QED BY <2>1, <2>2, NothingChanges DEF OldItems
<1>2. CASE Find(u) = 0
  <2> DEFINE h == hashOfKey(u)
             c == hashTable[h]
             t == Append(c, NewItem(u, f, d))
  <2>1. h \in Chains /\ c \in Seq(Item) BY ChainFacts
  <2>2. NewItem(u, f, d) \in Item BY HttpMatchAssumption DEF NewItem, Item
  <2>3. /\ t \in Seq(Item) /\ Len(c) \in Nat /\ Len(t) = Len(c) + 1
        /\ t[Len(c) + 1] = NewItem(u, f, d) /\ \A i \in 1 .. Len(c) : t[i] = c[i]
    BY <2>1, <2>2, AppendTo
  <2>4. hashTable' = [hashTable EXCEPT ![h] = t] BY <1>2 DEF storeSave, NewItem
  <2>5. \A i \in 1 .. Len(c) : c[i].sockid # u BY <1>2, FindFacts DEF HasNone
  <2>6. (\A i \in 1 .. Len(c) : hashOfKey(c[i].sockid) = h)
        /\ \A i, j \in 1 .. Len(c) : c[i].sockid = c[j].sockid => i = j
    BY <2>1, FiledFacts
  <2>7. NewItem(u, f, d).sockid = u /\ NewItem(u, f, d).data = d BY DEF NewItem
  <2>8. hashOfKey(u) = h OBVIOUS
  <2> HIDE DEF h, c, t
  <2>9. c = hashTable[h] BY DEF c
  <2>10. /\ hashTable' \in [Chains -> Seq(Item)] /\ hashTable'[h] = t
         /\ \A g \in Chains : g # h => hashTable'[g] = hashTable[g]
    BY <2>1, <2>3, <2>4 DEF TypeOK
  <2>11. ASSUME NEW g \in Chains, NEW j \in 1 .. Len(hashTable'[g])
         PROVE  \/ \E i \in 1 .. Len(hashTable[g]) : hashTable'[g][j] = hashTable[g][i]
                \/ hashTable'[g][j] = NewItem(u, f, d)
    <3>1. CASE g # h BY <2>10, <3>1
    <3>2. CASE g = h
      <4>1. j \in 1 .. Len(c) \/ j = Len(c) + 1 BY <2>3, <2>10, <3>2
      <4> QED BY <2>3, <2>9, <2>10, <3>2, <4>1
    <3> QED BY <3>1, <3>2
  <2>12. Filed'
    <3> SUFFICES ASSUME NEW g \in Chains
                 PROVE  /\ \A i \in 1 .. Len(hashTable'[g]) : hashOfKey(hashTable'[g][i].sockid) = g
                        /\ \A i, j \in 1 .. Len(hashTable'[g]) :
                              hashTable'[g][i].sockid = hashTable'[g][j].sockid => i = j
      BY DEF Filed, hashOfKey
    <3>1. CASE g # h BY <2>10, <3>1 DEF Filed
    <3>2. CASE g = h
      <4>1. \A i \in 1 .. Len(t) : i \in 1 .. Len(c) \/ i = Len(c) + 1 BY <2>3
      <4>2. \A i \in 1 .. Len(t) : hashOfKey(t[i].sockid) = h BY <2>3, <2>6, <2>7, <2>8, <4>1
      <4>3. ASSUME NEW i \in 1 .. Len(t), NEW j \in 1 .. Len(t), t[i].sockid = t[j].sockid PROVE i = j
        BY <2>3, <2>5, <2>6, <2>7, <4>1, <4>3
      <4> QED BY <2>10, <3>2, <4>2, <4>3
    <3> QED BY <3>1, <3>2
  <2>13. ASSUME NEW v \in Uids, v # u PROVE SameOf(v)
    <3>1. hashOfKey(v) \in Chains BY ChainFacts
    <3>2. CASE hashOfKey(v) # h BY <2>10, <3>1, <3>2 DEF SameOf, Has, HasNone, hashOfKey
    <3>3. CASE hashOfKey(v) = h
      <4>1. \A i \in 1 .. Len(t) : i \in 1 .. Len(c) \/ t[i].sockid # v BY <2>3, <2>7, <2>13
      <4>2. \A i \in 1 .. Len(c) : i \in 1 .. Len(t) BY <2>3
      <4>3. HasNone(v)' <=> HasNone(v)
        <5>1. HasNone(v)' <=> \A i \in 1 .. Len(t) : t[i].sockid # v
          BY <2>10, <3>3 DEF HasNone, hashOfKey
        <5>2. HasNone(v) <=> \A i \in 1 .. Len(c) : c[i].sockid # v BY <2>9, <3>3 DEF HasNone
        <5> QED BY <2>3, <4>1, <4>2, <5>1, <5>2
      <4>4. ASSUME NEW k PROVE Has(v, k)' <=> Has(v, k)
        <5>1. Has(v, k)' <=> \E i \in 1 .. Len(t) : t[i].sockid = v /\ t[i].data = k
          BY <2>10, <3>3 DEF Has, hashOfKey
        <5>2. Has(v, k) <=> \E i \in 1 .. Len(c) : c[i].sockid = v /\ c[i].data = k
          BY <2>9, <3>3 DEF Has
        <5> QED BY <2>3, <4>1, <4>2, <5>1, <5>2
      <4> QED BY <4>3, <4>4 DEF SameOf
    <3> QED BY <3>2, <3>3
  <2>14. Has(u, d)'
    <3>1. Has(u, d)' <=> \E i \in 1 .. Len(t) : t[i].sockid = u /\ t[i].data = d
      BY <2>8, <2>10 DEF Has, hashOfKey
    <3>2. Len(c) + 1 \in 1 .. Len(t) BY <2>3
    <3> QED BY <2>3, <2>7, <3>1, <3>2
  <2> QED BY <2>10, <2>11, <2>12, <2>13, <2>14
<1> QED BY <1>1, <1>2

\* The item that storeExpire looks at.
LEMMA CurrentFacts ==
    ASSUME TypeOK, Walking
    PROVE  /\ walk.chain \in Chains /\ walk.current \in Nat \ {0}
           /\ hashTable[walk.chain] \in Seq(Item) /\ Len(hashTable[walk.chain]) \in Nat
           /\ walk.current \in 1 .. Len(hashTable[walk.chain])
           /\ Current \in Item /\ Current = hashTable[walk.chain][walk.current]
<1>1. walk.chain \in Chains /\ walk.current \in Nat \ {0} BY DEF TypeOK
<1>2. hashTable[walk.chain] \in Seq(Item) /\ Len(hashTable[walk.chain]) \in Nat BY <1>1 DEF TypeOK
<1>3. walk.current \in 1 .. Len(hashTable[walk.chain]) BY <1>1, <1>2 DEF Walking
<1>4. hashTable[walk.chain][walk.current] \in Item BY <1>2, <1>3
<1> QED BY <1>1, <1>2, <1>3, <1>4 DEF Current

\* Marking changes neither the socket nor the request of an item.
LEMMA MarkedFacts ==
    ASSUME NEW it \in Item, NEW count \in Nat
    PROVE  /\ Marked(it, count) \in Item
           /\ Marked(it, count).sockid = it.sockid /\ Marked(it, count).sockfd = it.sockfd
           /\ Marked(it, count).data = it.data
           /\ Marked(it, count) = it
              \/ (~InUse(it) /\ Marked(it, count).circBufCount = count)
BY DEF Marked, Item

\* A pass that keeps an item leaves the chains as they are but for its mark.
LEMMA KeepFacts ==
    ASSUME TypeOK, Filed, ExpireKeep
    PROVE  /\ hashTable' \in [Chains -> Seq(Item)] /\ Filed'
           /\ \A h \in Chains : Len(hashTable'[h]) = Len(hashTable[h])
           /\ \A h \in Chains : \A j \in 1 .. Len(hashTable[h]) :
                 IF h = walk.chain /\ j = walk.current
                 THEN hashTable'[h][j] = Marked(hashTable[h][j], g_cumulativeEventCount)
                 ELSE hashTable'[h][j] = hashTable[h][j]
           /\ \A v \in Uids : SameOf(v)
<1> DEFINE h == walk.chain
           n == walk.current
           c == hashTable[h]
           t == [c EXCEPT ![n] = Marked(@, g_cumulativeEventCount)]
<1>1. Walking BY DEF ExpireKeep
<1>2. h \in Chains /\ c \in Seq(Item) /\ Len(c) \in Nat /\ n \in 1 .. Len(c) BY <1>1, CurrentFacts
<1>3. c[n] \in Item /\ g_cumulativeEventCount \in Nat BY <1>2 DEF TypeOK
<1>4. /\ Marked(c[n], g_cumulativeEventCount) \in Item
      /\ Marked(c[n], g_cumulativeEventCount).sockid = c[n].sockid
      /\ Marked(c[n], g_cumulativeEventCount).data = c[n].data
  BY <1>3, MarkedFacts
<1>5. hashTable' = [hashTable EXCEPT ![h] = t]
  BY DEF ExpireKeep, Current
<1> HIDE DEF h, n
<1>6. /\ t \in Seq(Item) /\ Len(t) = Len(c)
      /\ \A j \in 1 .. Len(c) : t[j] = IF j = n THEN Marked(c[n], g_cumulativeEventCount) ELSE c[j]
  BY <1>2, <1>4
<1>7. c = hashTable[h] OBVIOUS
<1> HIDE DEF c, t
<1>8. /\ hashTable' \in [Chains -> Seq(Item)] /\ hashTable'[h] = t
      /\ \A g \in Chains : g # h => hashTable'[g] = hashTable[g]
  BY <1>2, <1>5, <1>6 DEF TypeOK
<1>9. \A j \in 1 .. Len(c) : t[j].sockid = c[j].sockid /\ t[j].data = c[j].data
  BY <1>4, <1>6
<1>10. ASSUME NEW g \in Chains
       PROVE  /\ Len(hashTable'[g]) = Len(hashTable[g])
              /\ \A j \in 1 .. Len(hashTable[g]) :
                    /\ hashTable'[g][j].sockid = hashTable[g][j].sockid
                    /\ hashTable'[g][j].data = hashTable[g][j].data
                    /\ IF g = h /\ j = n
                       THEN hashTable'[g][j] = Marked(hashTable[g][j], g_cumulativeEventCount)
                       ELSE hashTable'[g][j] = hashTable[g][j]
  <2>1. CASE g # h BY <1>8, <2>1
  <2>2. CASE g = h BY <1>6, <1>7, <1>8, <1>9, <2>2
  <2> QED BY <2>1, <2>2
<1>11. Filed'
  <2> SUFFICES ASSUME NEW g \in Chains
               PROVE  /\ \A i \in 1 .. Len(hashTable'[g]) : hashOfKey(hashTable'[g][i].sockid) = g
                      /\ \A i, j \in 1 .. Len(hashTable'[g]) :
                            hashTable'[g][i].sockid = hashTable'[g][j].sockid => i = j
    BY DEF Filed, hashOfKey
  <2> QED BY <1>10, FiledFacts
<1>12. ASSUME NEW v \in Uids PROVE SameOf(v)
  <2>1. hashOfKey(v) \in Chains BY ChainFacts
  <2>2. HasNone(v)' <=> \A j \in 1 .. Len(hashTable'[hashOfKey(v)]) : hashTable'[hashOfKey(v)][j].sockid # v
    BY DEF HasNone, hashOfKey
  <2>3. HasNone(v)' <=> HasNone(v) BY <1>10, <2>1, <2>2 DEF HasNone
  <2>4. ASSUME NEW d \in Nat PROVE Has(v, d)' <=> Has(v, d)
    <3>1. Has(v, d)' <=> \E j \in 1 .. Len(hashTable'[hashOfKey(v)]) :
                            hashTable'[hashOfKey(v)][j].sockid = v /\ hashTable'[hashOfKey(v)][j].data = d
      BY DEF Has, hashOfKey
    <3> QED BY <1>10, <2>1, <3>1 DEF Has
  <2> QED BY <2>3, <2>4 DEF SameOf
<1> QED BY <1>8, <1>10, <1>11, <1>12 DEF h, n

\* A pass that frees an item: what is not cut off with it stays, in its place
\* ahead of the walk if it is still to be visited.
LEMMA FreeFacts ==
    ASSUME TypeOK, Filed, ExpireFree
    PROVE  /\ hashTable' \in [Chains -> Seq(Item)] /\ Filed' /\ OldItems
           /\ \A h \in Chains : \A j \in 1 .. Len(hashTable'[h]) :
                 Ahead(h, j)' => \E i \in 1 .. Len(hashTable[h]) :
                                    Ahead(h, i) /\ hashTable'[h][j] = hashTable[h][i]
           /\ \A v \in Uids : v # Current.sockid => SameOf(v) \/ (HasNone(v)' /\ v \in hist'.cut)
           /\ walk' \in [chain : Chains, current : Nat \ {0}, previous : BOOLEAN]
<1> DEFINE h == walk.chain
           n == walk.current
           c == hashTable[h]
<1>1. Walking BY DEF ExpireFree
<1>2. /\ h \in Chains /\ c \in Seq(Item) /\ Len(c) \in Nat /\ n \in 1 .. Len(c) /\ n \in Nat \ {0}
      /\ Current = c[n] /\ h \in Int
  BY <1>1, CurrentFacts DEF Chains
<1>3. /\ walk' \in [chain : Chains, current : Nat \ {0}, previous : BOOLEAN]
      /\ walk'.chain = h /\ walk'.current = IF walk.previous THEN n ELSE 1
  <2>1. walk' = [walk EXCEPT !.current = IF walk.previous THEN @ ELSE 1, !.previous = FALSE]
    BY DEF ExpireFree
  <2>2. walk \in [chain : Chains, current : Nat \ {0}, previous : BOOLEAN] BY DEF TypeOK
  <2>3. CASE walk.previous
    <3>1. walk' = [walk EXCEPT !.previous = FALSE] BY <2>1, <2>2, <2>3
    <3> QED BY <2>2, <2>3, <3>1
  <2>4. CASE ~walk.previous
    <3>1. walk' = [walk EXCEPT !.current = 1, !.previous = FALSE] BY <2>1, <2>4
    <3>2. walk'.chain = walk.chain /\ walk'.current = 1 BY <2>2, <3>1
    <3>3. PICK w : w = [walk EXCEPT !.current = 1] OBVIOUS
    <3>4. w \in [chain : Chains, current : Nat \ {0}, previous : BOOLEAN] BY <2>2, <3>3
    <3>5. walk' = [w EXCEPT !.previous = FALSE] BY <3>1, <3>3
    <3>6. walk' \in [chain : Chains, current : Nat \ {0}, previous : BOOLEAN] BY <3>4, <3>5
    <3> QED BY <2>4, <3>2, <3>6
  <2> QED BY <2>3, <2>4
<1>4. /\ hashTable' = [hashTable EXCEPT ![h] = IF walk.previous THEN RemoveAt(c, n)
                                               ELSE SubSeq(c, n + 1, Len(c))]
      /\ ~walk.previous => \A i \in 1 .. n - 1 : c[i].sockid \in hist'.cut
  BY DEF ExpireFree, TypeOK
<1>5. \A g \in Chains, j \in Nat :
          Ahead(g, j)' <=> (g > h \/ (g = h /\ j >= IF walk.previous THEN n ELSE 1))
  BY <1>3 DEF Ahead
<1>6. \A g \in Chains, j \in Nat : Ahead(g, j) <=> (g > h \/ (g = h /\ j >= n)) BY DEF Ahead
<1>7. c = hashTable[h] OBVIOUS
<1> HIDE DEF h, n, c
<1>8. \A g \in Chains : g # h => hashTable'[g] = hashTable[g] BY <1>4
<1>9. CASE walk.previous
  <2>1. hashTable' = [hashTable EXCEPT ![h] = RemoveAt(hashTable[h], n)] BY <1>4, <1>7, <1>9
  <2>2. /\ hashTable' \in [Chains -> Seq(Item)] /\ Filed' /\ OldItems
        /\ \A v \in Uids : v # Current.sockid => SameOf(v)
    BY <1>2, <1>7, <2>1, RemoveShrinks
  <2>3. /\ Len(hashTable'[h]) = Len(c) - 1
        /\ \A i \in 1 .. Len(c) - 1 : hashTable'[h][i] = IF i < n THEN c[i] ELSE c[i + 1]
    <3>1. hashTable'[h] = RemoveAt(c, n) BY <1>2, <1>7, <2>1 DEF TypeOK
    <3> QED BY <1>2, <3>1, RemoveAtFacts
  <2>4. ASSUME NEW g \in Chains, NEW j \in 1 .. Len(hashTable'[g]), Ahead(g, j)'
        PROVE  \E i \in 1 .. Len(hashTable[g]) : Ahead(g, i) /\ hashTable'[g][j] = hashTable[g][i]
    <3>1. CASE g # h BY <1>5, <1>6, <1>8, <1>9, <2>4, <3>1
    <3>2. CASE g = h
      <4>1. j \in 1 .. Len(c) - 1 /\ j >= n BY <1>2, <1>5, <1>9, <2>3, <2>4, <3>2 DEF Chains
      <4>2. j + 1 \in 1 .. Len(c) /\ hashTable'[g][j] = c[j + 1] BY <1>2, <2>3, <3>2, <4>1
      <4>3. Ahead(g, j + 1) BY <1>2, <1>6, <3>2, <4>1
      <4> QED BY <1>7, <3>2, <4>2, <4>3
    <3> QED BY <3>1, <3>2
  <2> QED BY <1>3, <2>2, <2>4
<1>10. CASE ~walk.previous
  <2>1. PICK t : t = SubSeq(c, n + 1, Len(c)) OBVIOUS
  <2>2. /\ t \in Seq(Item) /\ Len(t) = Len(c) - n
        /\ \A i \in 1 .. Len(c) - n : t[i] = c[n + i]
    BY <1>2, <2>1, CutFacts
  <2>3. hashTable' = [hashTable EXCEPT ![h] = t] BY <1>4, <1>10, <2>1
  <2>4. PICK m : m = [j \in 1 .. Len(t) |-> n + j] OBVIOUS
  <2>5. PICK Gone : Gone = {c[i].sockid : i \in 1 .. n} OBVIOUS
  <2>6. Shrinks(h, t, Gone, m)
    <3>1. m \in [1 .. Len(t) -> 1 .. Len(c)] BY <1>2, <2>2, <2>4
    <3>2. \A i, j \in 1 .. Len(t) : m[i] = m[j] => i = j BY <1>2, <2>2, <2>4
    <3>3. ASSUME NEW j \in 1 .. Len(t) PROVE t[j] = c[m[j]] /\ t[j].sockid \notin Gone
      <4>1. m[j] = n + j /\ t[j] = c[n + j] BY <2>2, <2>4
      <4>2. ASSUME NEW i \in 1 .. n PROVE c[n + j].sockid # c[i].sockid
        <5>1. i \in 1 .. Len(c) /\ n + j \in 1 .. Len(c) /\ n + j # i BY <1>2, <2>2
        <5> QED BY <1>2, <1>7, <5>1, FiledFacts
      <4> QED BY <2>5, <4>1, <4>2
    <3>4. ASSUME NEW i \in 1 .. Len(c), c[i].sockid \notin Gone PROVE \E j \in 1 .. Len(t) : m[j] = i
      <4>1. i \notin 1 .. n BY <2>5, <3>4
      <4>2. i - n \in 1 .. Len(t) BY <1>2, <2>2, <4>1
      <4>3. m[i - n] = i BY <1>2, <2>4, <4>2
      <4> QED BY <4>2, <4>3
    <3> QED BY <1>7, <3>1, <3>2, <3>3, <3>4 DEF Shrinks
  <2>7. /\ hashTable' \in [Chains -> Seq(Item)] /\ Filed' /\ OldItems
        /\ \A v \in Uids : v \notin Gone => SameOf(v)
        /\ \A v \in Uids : v \in Gone /\ hashOfKey(v) = h => HasNone(v)'
    BY <1>2, <2>2, <2>3, <2>6, ChainShrinks
  <2>8. ASSUME NEW v \in Uids, v # Current.sockid, v \in Gone PROVE HasNone(v)' /\ v \in hist'.cut
    <3>1. PICK i \in 1 .. n : v = c[i].sockid BY <2>5, <2>8
    <3>2. i \in 1 .. n - 1 /\ i \in 1 .. Len(c) BY <1>2, <2>8, <3>1
    <3>3. hashOfKey(v) = h BY <1>2, <1>7, <3>1, <3>2, FiledFacts
    <3> QED BY <1>4, <1>10, <2>7, <2>8, <3>1, <3>2, <3>3
  <2>9. ASSUME NEW g \in Chains, NEW j \in 1 .. Len(hashTable'[g]), Ahead(g, j)'
        PROVE  \E i \in 1 .. Len(hashTable[g]) : Ahead(g, i) /\ hashTable'[g][j] = hashTable[g][i]
    <3>1. CASE g # h BY <1>5, <1>6, <1>8, <1>10, <2>9, <3>1
    <3>2. CASE g = h
      <4>1. hashTable'[g] = t BY <1>2, <2>3, <3>2 DEF TypeOK
      <4>2. j \in 1 .. Len(c) - n BY <2>2, <4>1
      <4>3. n + j \in 1 .. Len(c) /\ hashTable'[g][j] = c[n + j] BY <1>2, <2>2, <4>1, <4>2
      <4>4. Ahead(g, n + j) BY <1>2, <1>6, <3>2, <4>2
      <4> QED BY <1>7, <3>2, <4>3, <4>4
    <3> QED BY <3>1, <3>2
  <2> QED BY <1>3, <2>7, <2>8, <2>9
<1> QED BY <1>9, <1>10

(***************************************************************************)
(* What every step does to sockets and events.                             *)
(***************************************************************************)

\* An event of the ring was there before the step, at the same place counted
\* from the first event ever, ...
Stays(i) ==
    \E j \in 1 .. Len(ring) :
        ring'[i] = ring[j] /\ g_cumulativeEventCount' + i = g_cumulativeEventCount + j

\* ... or is posted by the step, of a socket in use.
Posted(i) ==
    /\ netInfo' = netInfo /\ lastUid' = lastUid
    /\ \E f \in Fds : netInfo[f].active /\ ring'[i].uid = netInfo[f].uid /\ ring'[i].fd = f
    /\ ring'[i].kind # "CONNECTION_DURATION" => ring'[i].req # 0

\* A descriptor keeps its socket or gets a new one, and no socket is reopened.
SocketsForward ==
    /\ lastUid <= lastUid'
    /\ \A f \in Fds : netInfo'[f].uid <= lastUid =>
          netInfo'[f].uid = netInfo[f].uid /\ (netInfo'[f].active => netInfo[f].active)

Forward == SocketsForward /\ \A i \in 1 .. Len(ring') : Stays(i) \/ Posted(i)

LEMMA DeadForward ==
    ASSUME TypeOK, TypeOK', Forward, NEW u \in Uids, Dead(u)
    PROVE  Dead(u)'
<1>1. /\ lastUid \in Nat /\ lastUid' \in Nat /\ u \in Nat /\ lastUid <= lastUid' /\ u <= lastUid
  BY DEF TypeOK, Forward, SocketsForward, Dead, Uids
<1>2. u <= lastUid' BY <1>1
<1>3. ASSUME NEW f \in Fds, netInfo'[f].uid = u PROVE ~netInfo'[f].active
  <2>1. netInfo'[f].uid <= lastUid BY <1>1, <1>3
  <2>2. netInfo[f].uid = u /\ (netInfo'[f].active => netInfo[f].active)
    BY <1>3, <2>1 DEF Forward, SocketsForward
  <2> QED BY <2>2 DEF Dead
<1> QED BY <1>2, <1>3 DEF Dead

\* What comes into the ring is not of a closed socket.
LEMMA DeadPostsNothing ==
    ASSUME Forward, NEW u, Dead(u), NEW i \in 1 .. Len(ring'), ring'[i].uid = u
    PROVE  Stays(i)
<1>1. CASE Posted(i) BY <1>1 DEF Posted, Dead
<1> QED BY <1>1 DEF Forward

LEMMA SilentForward ==
    ASSUME Forward, NEW u, Dead(u), Silent(u)
    PROVE  Silent(u)'
<1> SUFFICES ASSUME NEW i \in 1 .. Len(ring'), ring'[i].uid = u PROVE FALSE BY DEF Silent
<1>1. PICK j \in 1 .. Len(ring) : ring'[i] = ring[j] BY DeadPostsNothing DEF Stays
<1> QED BY <1>1 DEF Silent

\* The descriptor of a socket stays the only one that may have its uid.
LEMMA OwnerForward ==
    ASSUME TypeOK, TypeOK', Forward, NEW x \in Uids, x <= lastUid, NEW y,
           \A f \in Fds : netInfo[f].uid = x => f = y
    PROVE  x <= lastUid' /\ \A f \in Fds : netInfo'[f].uid = x => f = y
<1>1. lastUid \in Nat /\ lastUid' \in Nat /\ x \in Nat /\ lastUid <= lastUid'
  BY DEF TypeOK, Forward, SocketsForward, Uids
<1>2. ASSUME NEW f \in Fds, netInfo'[f].uid = x PROVE f = y
  <2>1. netInfo'[f].uid <= lastUid BY <1>1, <1>2
  <2> QED BY <1>2, <2>1 DEF Forward, SocketsForward
<1> QED BY <1>1, <1>2

LEMMA ItemForward ==
    ASSUME TypeOK, TypeOK', Forward, NEW it \in Item, ItemOK(it)
    PROVE  ItemOK(it)'
<1>1. it.sockid \in Uids BY DEF Item
<1>2. it.sockid <= lastUid' /\ \A f \in Fds : netInfo'[f].uid = it.sockid => f = it.sockfd
  BY <1>1, OwnerForward DEF ItemOK
<1>3. ASSUME it.circBufCount # 0
      PROVE  /\ Dead(it.sockid)'
             /\ \A i \in 1 .. Len(ring') :
                   ring'[i].uid = it.sockid => g_cumulativeEventCount' + i <= it.circBufCount + cbufSize
  <2>1. Dead(it.sockid) BY <1>3 DEF ItemOK
  <2>2. PICK u : u = it.sockid OBVIOUS
  <2>3. Dead(u)' BY <1>1, <2>1, <2>2, DeadForward
  <2>4. ASSUME NEW i \in 1 .. Len(ring'), ring'[i].uid = it.sockid
        PROVE  g_cumulativeEventCount' + i <= it.circBufCount + cbufSize
    <3>1. PICK j \in 1 .. Len(ring) :
             ring'[i] = ring[j] /\ g_cumulativeEventCount' + i = g_cumulativeEventCount + j
      BY <2>1, <2>4, DeadPostsNothing DEF Stays
    <3> QED BY <1>3, <2>4, <3>1 DEF ItemOK
  <2> QED BY <2>2, <2>3, <2>4
<1> QED BY <1>2, <1>3 DEF ItemOK

\* The events of the ring, and their number.
LEMMA EventTypes ==
    ASSUME TypeOK
    PROVE  ring \in Seq(Event) /\ Len(ring) \in Nat /\ \A i \in 1 .. Len(ring) : ring[i] \in Event
<1>1. ring \in Seq(Event) BY DEF TypeOK
<1> QED BY <1>1

LEMMA EventsForward ==
    ASSUME TypeOK, TypeOK', Forward, SocketsOK, EventsOK
    PROVE  EventsOK'
<1> SUFFICES ASSUME NEW i \in 1 .. Len(ring')
             PROVE  /\ ring'[i].uid <= lastUid'
                    /\ \A f \in Fds : netInfo'[f].uid = ring'[i].uid => f = ring'[i].fd
                    /\ ring'[i].kind # "CONNECTION_DURATION" => ring'[i].req # 0
  BY DEF EventsOK, EventOK
<1>1. CASE Stays(i)
  <2>1. PICK j \in 1 .. Len(ring) : ring'[i] = ring[j] BY <1>1 DEF Stays
  <2>2. EventOK(ring[j]) BY DEF EventsOK
  <2>3. ring[j] \in Event BY EventTypes
  <2>4. PICK e \in Event : e = ring[j] BY <2>3
  <2>5. e.uid \in Uids /\ EventOK(e) BY <2>2, <2>4 DEF Event
  <2>6. e.uid <= lastUid' /\ \A f \in Fds : netInfo'[f].uid = e.uid => f = e.fd
    BY <2>5, OwnerForward DEF EventOK
  <2> QED BY <2>1, <2>4, <2>5, <2>6 DEF EventOK
<1>2. CASE Posted(i)
  <2>1. PICK f \in Fds : netInfo[f].active /\ ring'[i].uid = netInfo[f].uid /\ ring'[i].fd = f
    BY <1>2 DEF Posted
  <2>2. netInfo' = netInfo /\ lastUid' = lastUid BY <1>2 DEF Posted
  <2> QED BY <1>2, <2>1, <2>2 DEF Posted, SocketsOK
<1> QED BY <1>1, <1>2 DEF Forward

\* Items that were there before the step stay in order, ...
LEMMA OldItemsOK ==
    ASSUME TypeOK, TypeOK', Forward, ItemsOK, OldItems
    PROVE  ItemsOK'
<1> SUFFICES ASSUME NEW h \in Chains, NEW j \in 1 .. Len(hashTable'[h])
             PROVE  ItemOK(hashTable[h][j])'
  BY DEF ItemsOK
<1>1. PICK i \in 1 .. Len(hashTable[h]) : hashTable'[h][j] = hashTable[h][i] BY DEF OldItems
<1>2. PICK it : it = hashTable[h][i] OBVIOUS
<1>3. it \in Item
  <2>1. hashTable[h] \in Seq(Item) BY DEF TypeOK
  <2> QED BY <1>2, <2>1
<1>4. ItemOK(it)' BY <1>2, <1>3, ItemForward DEF ItemsOK
<1>5. it = hashTable'[h][j] BY <1>1, <1>2
<1> QED BY <1>4, <1>5 DEF ItemOK, Dead

\* ... and so do the items that have expired.
LEMMA OldExpired ==
    ASSUME TypeOK, TypeOK', Forward, ExpiredIsDead, hist'.expired = hist.expired
    PROVE  ExpiredIsDead'
<1> SUFFICES ASSUME NEW u \in hist'.expired PROVE Dead(u)' /\ Silent(u)' BY DEF ExpiredIsDead
<1>1. u \in hist.expired /\ u \in Uids BY DEF TypeOK
<1>2. Dead(u) /\ Silent(u) BY <1>1 DEF ExpiredIsDead
<1> QED BY <1>1, <1>2, DeadForward, SilentForward

\* An item ahead of the walk was ahead of it before, and the walk has not begun.
OldAhead ==
    \A h \in Chains : \A j \in 1 .. Len(hashTable'[h]) :
        Ahead(h, j)' /\ hashTable'[h][j].circBufCount # 0 =>
            \E i \in 1 .. Len(hashTable[h]) : Ahead(h, i) /\ hashTable'[h][j] = hashTable[h][i]

LEMMA StaysEmptied ==
    ASSUME TypeOK, TypeOK', Forward, ItemsOK, EmptiedIsSilent,
           loop.at \in {"after", "expire"}, loop'.exitedLoopEarly = loop.exitedLoopEarly, OldAhead
    PROVE  EmptiedIsSilent'
<1> SUFFICES ASSUME ~loop.exitedLoopEarly, NEW h \in Chains, NEW j \in 1 .. Len(hashTable'[h]),
                    Ahead(h, j)', hashTable'[h][j].circBufCount # 0
             PROVE  Silent(hashTable[h][j].sockid)'
  BY DEF EmptiedIsSilent
<1>1. PICK i \in 1 .. Len(hashTable[h]) : Ahead(h, i) /\ hashTable'[h][j] = hashTable[h][i]
  BY DEF OldAhead
<1>2. hashTable[h][i].circBufCount # 0 /\ ItemOK(hashTable[h][i]) BY <1>1 DEF ItemsOK
<1>3. PICK u : u = hashTable[h][i].sockid OBVIOUS
<1>4. Dead(u) /\ Silent(u) BY <1>1, <1>2, <1>3 DEF EmptiedIsSilent, ItemOK
<1>5. Silent(u)' BY <1>4, SilentForward
<1>6. u = hashTable'[h][j].sockid BY <1>1, <1>3
<1> QED BY <1>5, <1>6 DEF Silent

(***************************************************************************)
(* The application's threads keep the first part of the invariant.         *)
(***************************************************************************)

HistType ==
    [dropped : SUBSET Uids, expired : SUBSET Uids, cut : SUBSET Uids, pending : SUBSET Uids,
     reported : SUBSET (Uids \X (1 .. MaxReq) \X (0 .. MaxReq))]

\* cmdPostEvent appends the event, or only notes that it dropped it.
LEMMA PostFacts ==
    ASSUME TypeOK, NEW e \in Event, Post(e)
    PROVE  /\ ring' \in Seq(Event) /\ Len(ring') <= cbufSize /\ hist' \in HistType
           /\ \/ /\ ring' = ring /\ e.uid \in hist'.dropped
                 /\ hist'.expired = hist.expired /\ hist'.cut = hist.cut
                 /\ hist'.reported = hist.reported /\ hist.dropped \subseteq hist'.dropped
              \/ /\ hist' = hist /\ Len(ring') = Len(ring) + 1 /\ ring'[Len(ring) + 1] = e
                 /\ \A i \in 1 .. Len(ring) : ring'[i] = ring[i]
<1>1. ring \in Seq(Event) /\ Len(ring) \in Nat /\ Len(ring) <= cbufSize /\ cbufSize \in Nat
  BY HttpMatchAssumption DEF TypeOK
<1>2. hist \in HistType BY DEF TypeOK, HistType
<1>3. e.uid \in Uids BY DEF Event
<1>4. CASE Len(ring) < cbufSize /\ ring' = Append(ring, e) /\ hist' = hist
  <2>1. /\ ring' \in Seq(Event) /\ Len(ring') = Len(ring) + 1 /\ ring'[Len(ring) + 1] = e
        /\ \A i \in 1 .. Len(ring) : ring'[i] = ring[i]
    BY <1>1, <1>4, AppendTo
  <2> QED BY <1>1, <1>2, <1>4, <2>1
<1>5. CASE ring' = ring /\ hist' = [hist EXCEPT !.dropped = @ \cup {e.uid}]
  <2>1. hist' \in HistType BY <1>2, <1>3, <1>5 DEF HistType
  <2>2. /\ hist'.dropped = hist.dropped \cup {e.uid} /\ hist'.expired = hist.expired
        /\ hist'.cut = hist.cut /\ hist'.reported = hist.reported
    BY <1>2, <1>5 DEF HistType
  <2> QED BY <1>1, <1>5, <2>1, <2>2
<1> QED BY <1>4, <1>5 DEF Post

\* A step that leaves the store and the reporter alone.
LEMMA StoreUntouched ==
    ASSUME SilenceInv, TypeOK', SocketsOK', Forward, hist'.expired = hist.expired,
           UNCHANGED <<hashTable, loop, walk>>
    PROVE  SilenceInv'
<1>1. /\ TypeOK /\ SocketsOK /\ EventsOK /\ ItemsOK /\ Filed /\ LoopOK
      /\ EmptiedIsSilent /\ ExpiredIsDead
  BY DEF SilenceInv
<1>2. Filed' /\ OldItems BY <1>1, NothingChanges
<1>3. EventsOK' BY <1>1, EventsForward
<1>4. ItemsOK' BY <1>1, <1>2, OldItemsOK
<1>5. LoopOK' BY <1>1 DEF LoopOK
<1>6. ExpiredIsDead' BY <1>1, OldExpired
<1>7. OldAhead BY DEF OldAhead, Ahead
<1>8. EmptiedIsSilent'
  <2>1. CASE loop.at \in {"after", "expire"} BY <1>1, <1>7, <2>1, StaysEmptied
  <2>2. CASE loop.at \notin {"after", "expire"} BY <2>2 DEF EmptiedIsSilent
  <2> QED BY <2>1, <2>2
<1> QED BY <1>2, <1>3, <1>4, <1>5, <1>6, <1>8 DEF SilenceInv

LEMMA SameRing ==
    ASSUME TypeOK, ring' = ring, g_cumulativeEventCount' = g_cumulativeEventCount
    PROVE  \A i \in 1 .. Len(ring') : Stays(i)
BY DEF Stays

LEMMA SameSockets ==
    ASSUME TypeOK, SocketsOK, netInfo' = netInfo, talk' = talk, lastUid' = lastUid
    PROVE  SocketsOK' /\ SocketsForward
<1>1. lastUid <= lastUid' BY DEF TypeOK
<1> QED BY <1>1 DEF SocketsOK, SocketsForward

\* The three actions that post an event of a socket in use.
LEMMA PostKeepsSilence ==
    ASSUME SilenceInv, NEW f \in Fds, netInfo[f].active, NEW e \in Event,
           e.uid = netInfo[f].uid, e.fd = f, e.kind # "CONNECTION_DURATION" => e.req # 0, Post(e),
           talk' \in [Fds -> [phase : {"idle", "asked", "closing"}, sent : 0 .. MaxReq]],
           \A g \in Fds : talk'[g].phase = "asked" => talk'[g].sent # 0,
           UNCHANGED <<netInfo, lastUid, storeVars, loop, walk, g_numCallsToDoEvent>>
    PROVE  SilenceInv'
<1>1. TypeOK /\ SocketsOK BY DEF SilenceInv
<1>2. TypeOK'
  <2>1. ring' \in Seq(Event) /\ Len(ring') <= cbufSize /\ hist' \in HistType BY <1>1, PostFacts
  <2> QED BY <1>1, <2>1 DEF TypeOK, HistType, storeVars
<1>3. SocketsOK' BY <1>1 DEF SocketsOK
<1>4. Forward
  <2>1. SocketsForward BY <1>1 DEF TypeOK, SocketsForward
  <2>2. ASSUME NEW i \in 1 .. Len(ring') PROVE Stays(i) \/ Posted(i)
    <3>1. CASE ring' = ring BY <1>1, <2>2, <3>1, SameRing DEF storeVars
    <3>2. CASE /\ Len(ring') = Len(ring) + 1 /\ ring'[Len(ring) + 1] = e
               /\ \A k \in 1 .. Len(ring) : ring'[k] = ring[k]
      <4>1. Len(ring) \in Nat BY <1>1, EventTypes
      <4>2. CASE i \in 1 .. Len(ring) BY <3>2, <4>2 DEF Stays, storeVars
      <4>3. CASE i = Len(ring) + 1 BY <3>2, <4>3 DEF Posted
      <4> QED BY <3>2, <4>1, <4>2, <4>3
    <3> QED BY <1>1, <3>1, <3>2, PostFacts
  <2> QED BY <2>1, <2>2 DEF Forward
<1>5. hist'.expired = hist.expired BY <1>1, PostFacts
<1> QED BY <1>2, <1>3, <1>4, <1>5, StoreUntouched DEF storeVars

\* What Request, Response and doClose post.
LEMMA PostedEvents ==
    ASSUME SilenceInv, NEW f \in Fds, netInfo[f].active
    PROVE  /\ netInfo[f].uid \in Uids /\ talk[f] \in [phase : {"idle", "asked", "closing"}, sent : 0 .. MaxReq]
           /\ talk[f].sent < MaxReq =>
                 [kind |-> "EVT_HREQ", uid |-> netInfo[f].uid, fd |-> f, req |-> talk[f].sent + 1] \in Event
           /\ [kind |-> "EVT_HRES", uid |-> netInfo[f].uid, fd |-> f, req |-> talk[f].sent] \in Event
           /\ [kind |-> "CONNECTION_DURATION", uid |-> netInfo[f].uid, fd |-> f, req |-> 0] \in Event
<1>1. netInfo[f].uid \in 0 .. MaxUid /\ netInfo[f].uid # 0 BY DEF SilenceInv, TypeOK, SocketsOK
<1>2. netInfo[f].uid \in Uids BY <1>1, HttpMatchAssumption DEF Uids
<1>3. talk[f] \in [phase : {"idle", "asked", "closing"}, sent : 0 .. MaxReq] BY DEF SilenceInv, TypeOK
<1>4. talk[f].sent \in 0 .. MaxReq /\ MaxReq \in Nat BY <1>3, HttpMatchAssumption
<1>5. talk[f].sent < MaxReq => talk[f].sent + 1 \in 0 .. MaxReq BY <1>4
<1>6. 0 \in 0 .. MaxReq BY <1>4
<1> QED BY <1>2, <1>3, <1>4, <1>5, <1>6 DEF Event, Kinds

LEMMA RequestKeepsSilence ==
    ASSUME SilenceInv, NEW f \in Fds, Request(f)
    PROVE  SilenceInv'
<1> DEFINE e == [kind |-> "EVT_HREQ", uid |-> netInfo[f].uid, fd |-> f, req |-> talk[f].sent + 1]
<1>1. /\ netInfo[f].active /\ talk[f].sent < MaxReq /\ Post(e)
      /\ UNCHANGED <<netInfo, lastUid, storeVars, loop, walk, g_numCallsToDoEvent>>
      /\ talk' = [talk EXCEPT ![f] = [phase |-> "asked", sent |-> talk[f].sent + 1]]
  BY DEF Request
<1>2. e \in Event BY <1>1, PostedEvents
<1>3. talk \in [Fds -> [phase : {"idle", "asked", "closing"}, sent : 0 .. MaxReq]] BY DEF SilenceInv, TypeOK
<1>4. talk[f].sent + 1 \in 0 .. MaxReq /\ talk[f].sent + 1 # 0 BY <1>1, <1>3, HttpMatchAssumption
<1>5. talk' \in [Fds -> [phase : {"idle", "asked", "closing"}, sent : 0 .. MaxReq]] BY <1>1, <1>3, <1>4
<1>6. \A g \in Fds : talk'[g].phase = "asked" => talk'[g].sent # 0
  BY <1>1, <1>3, <1>4 DEF SilenceInv, SocketsOK
<1>7. e.uid = netInfo[f].uid /\ e.fd = f /\ e.req # 0 BY <1>4
<1> QED BY <1>1, <1>2, <1>5, <1>6, <1>7, PostKeepsSilence

LEMMA ResponseKeepsSilence ==
    ASSUME SilenceInv, NEW f \in Fds, Response(f)
    PROVE  SilenceInv'
<1> DEFINE e == [kind |-> "EVT_HRES", uid |-> netInfo[f].uid, fd |-> f, req |-> talk[f].sent]
<1>1. /\ netInfo[f].active /\ talk[f].phase = "asked" /\ Post(e)
      /\ UNCHANGED <<netInfo, lastUid, storeVars, loop, walk, g_numCallsToDoEvent>>
      /\ talk' = [talk EXCEPT ![f].phase = "idle"]
  BY DEF Response
<1>2. e \in Event BY <1>1, PostedEvents
<1>3. talk \in [Fds -> [phase : {"idle", "asked", "closing"}, sent : 0 .. MaxReq]] BY DEF SilenceInv, TypeOK
<1>4. talk' \in [Fds -> [phase : {"idle", "asked", "closing"}, sent : 0 .. MaxReq]] BY <1>1, <1>3
<1>5. \A g \in Fds : talk'[g].phase = "asked" => talk'[g].sent # 0
  BY <1>1, <1>3 DEF SilenceInv, SocketsOK
<1>6. e.uid = netInfo[f].uid /\ e.fd = f /\ e.req # 0 BY <1>1 DEF SilenceInv, SocketsOK
<1> QED BY <1>1, <1>2, <1>4, <1>5, <1>6, PostKeepsSilence

LEMMA doCloseKeepsSilence ==
    ASSUME SilenceInv, NEW f \in Fds, doClose(f)
    PROVE  SilenceInv'
<1> DEFINE e == [kind |-> "CONNECTION_DURATION", uid |-> netInfo[f].uid, fd |-> f, req |-> 0]
<1>1. /\ netInfo[f].active /\ Post(e)
      /\ UNCHANGED <<netInfo, lastUid, storeVars, loop, walk, g_numCallsToDoEvent>>
      /\ talk' = [talk EXCEPT ![f].phase = "closing"]
  BY DEF doClose
<1>2. e \in Event BY <1>1, PostedEvents
<1>3. talk \in [Fds -> [phase : {"idle", "asked", "closing"}, sent : 0 .. MaxReq]] BY DEF SilenceInv, TypeOK
<1>4. talk' \in [Fds -> [phase : {"idle", "asked", "closing"}, sent : 0 .. MaxReq]] BY <1>1, <1>3
<1>5. \A g \in Fds : talk'[g].phase = "asked" => talk'[g].sent # 0
  BY <1>1, <1>3 DEF SilenceInv, SocketsOK
<1>6. e.uid = netInfo[f].uid /\ e.fd = f /\ e.kind = "CONNECTION_DURATION" OBVIOUS
<1> QED BY <1>1, <1>2, <1>4, <1>5, <1>6, PostKeepsSilence

LEMMA doCloseInactiveKeepsSilence ==
    ASSUME SilenceInv, NEW f \in Fds, doCloseInactive(f)
    PROVE  SilenceInv'
<1>1. TypeOK /\ SocketsOK BY DEF SilenceInv
<1>2. /\ netInfo' = [netInfo EXCEPT ![f].active = FALSE] /\ talk' = [talk EXCEPT ![f].phase = "idle"]
      /\ UNCHANGED <<lastUid, ring, storeVars, loop, walk, g_numCallsToDoEvent, hist>>
  BY DEF doCloseInactive
<1>3. /\ netInfo \in [Fds -> [uid : 0 .. MaxUid, active : BOOLEAN]]
      /\ talk \in [Fds -> [phase : {"idle", "asked", "closing"}, sent : 0 .. MaxReq]]
  BY <1>1 DEF TypeOK
<1>4. netInfo' \in [Fds -> [uid : 0 .. MaxUid, active : BOOLEAN]] BY <1>2, <1>3
<1>5. talk' \in [Fds -> [phase : {"idle", "asked", "closing"}, sent : 0 .. MaxReq]] BY <1>2, <1>3
<1>6. TypeOK' BY <1>1, <1>2, <1>4, <1>5 DEF TypeOK, storeVars
<1>7. \A g \in Fds : /\ netInfo'[g].uid = netInfo[g].uid /\ (netInfo'[g].active => netInfo[g].active)
                     /\ talk'[g].sent = talk[g].sent
                     /\ talk'[g].phase = "asked" => talk[g].phase = "asked"
  BY <1>2, <1>3
<1>8. SocketsOK' BY <1>1, <1>2, <1>7 DEF SocketsOK
<1>9. lastUid <= lastUid' BY <1>1, <1>2 DEF TypeOK
<1>10. Forward BY <1>1, <1>2, <1>7, <1>9, SameRing DEF Forward, SocketsForward, storeVars
<1> QED BY <1>2, <1>6, <1>8, <1>10, StoreUntouched DEF storeVars

LEMMA addSockKeepsSilence ==
    ASSUME SilenceInv, NEW f \in Fds, addSock(f)
    PROVE  SilenceInv'
<1>1. TypeOK /\ SocketsOK BY DEF SilenceInv
<1>2. /\ lastUid < MaxUid /\ lastUid' = lastUid + 1
      /\ netInfo' = [netInfo EXCEPT ![f] = [uid |-> lastUid + 1, active |-> TRUE]]
      /\ talk' = [talk EXCEPT ![f] = [phase |-> "idle", sent |-> 0]]
      /\ UNCHANGED <<ring, storeVars, loop, walk, g_numCallsToDoEvent, hist>>
  BY DEF addSock
<1>3. /\ netInfo \in [Fds -> [uid : 0 .. MaxUid, active : BOOLEAN]]
      /\ talk \in [Fds -> [phase : {"idle", "asked", "closing"}, sent : 0 .. MaxReq]]
      /\ lastUid \in 0 .. MaxUid /\ MaxUid \in Nat /\ MaxReq \in Nat
  BY <1>1, HttpMatchAssumption DEF TypeOK
<1>4. lastUid' \in 0 .. MaxUid /\ lastUid + 1 \in 0 .. MaxUid BY <1>2, <1>3
<1>5. netInfo' \in [Fds -> [uid : 0 .. MaxUid, active : BOOLEAN]] BY <1>2, <1>3, <1>4
<1>6. talk' \in [Fds -> [phase : {"idle", "asked", "closing"}, sent : 0 .. MaxReq]] BY <1>2, <1>3
<1>7. TypeOK' BY <1>1, <1>2, <1>4, <1>5, <1>6 DEF TypeOK, storeVars
<1>8. /\ netInfo'[f].uid = lastUid + 1 /\ talk'[f].phase = "idle"
      /\ \A g \in Fds : g # f => netInfo'[g] = netInfo[g] /\ talk'[g] = talk[g]
  BY <1>2, <1>3
<1>9. \A g \in Fds : netInfo[g].uid \in Nat /\ netInfo[g].uid <= lastUid BY <1>1, <1>3 DEF SocketsOK
<1>10. SocketsOK'
  <2>1. ASSUME NEW g \in Fds
        PROVE  /\ netInfo'[g].uid <= lastUid'
               /\ netInfo'[g].active => netInfo'[g].uid # 0
               /\ talk'[g].phase = "asked" => talk'[g].sent # 0
    BY <1>1, <1>2, <1>3, <1>8, <1>9 DEF SocketsOK
  <2>2. ASSUME NEW g \in Fds, NEW k \in Fds, netInfo'[g].uid = netInfo'[k].uid, netInfo'[g].uid # 0
        PROVE  g = k
    BY <1>1, <1>3, <1>8, <1>9, <2>2 DEF SocketsOK
  <2> QED BY <2>1, <2>2 DEF SocketsOK
<1>11. SocketsForward
  <2>1. ASSUME NEW g \in Fds, netInfo'[g].uid <= lastUid
        PROVE  netInfo'[g].uid = netInfo[g].uid /\ (netInfo'[g].active => netInfo[g].active)
    BY <1>3, <1>8, <2>1
  <2>2. lastUid <= lastUid' BY <1>2, <1>3
  <2> QED BY <2>1, <2>2 DEF SocketsForward
<1>12. Forward BY <1>1, <1>2, <1>11, SameRing DEF Forward, storeVars
<1> QED BY <1>2, <1>7, <1>10, <1>12, StoreUntouched DEF storeVars

(***************************************************************************)
(* The reporter keeps the first part of the invariant.                     *)
(***************************************************************************)

LoopType ==
    [at : {"out", "in", "after", "expire"}, eventCount : 0 .. MAX_EVT_COUNT + 1, exitedLoopEarly : BOOLEAN]

\* The next turn of storeExpire looks at the same sockets and events.
LEMMA SameSocketsAndRing ==
    ASSUME TypeOK, SocketsOK, UNCHANGED <<sockVars, ring, g_cumulativeEventCount>>
    PROVE  SocketsOK' /\ Forward
<1>1. \A i \in 1 .. Len(ring') : Stays(i) BY SameRing
<1>2. SocketsOK' /\ SocketsForward BY SameSockets DEF sockVars
<1> QED BY <1>1, <1>2 DEF Forward

\* A step that changes only where the reporter is.
LEMMA LoopOnly ==
    ASSUME SilenceInv, UNCHANGED <<sockVars, ring, storeVars, hist>>, loop' \in LoopType,
           walk' \in [chain : Chains, current : Nat \ {0}, previous : BOOLEAN],
           g_numCallsToDoEvent' \in 0 .. ExpireEvery - 1, LoopOK',
           TypeOK' => EmptiedIsSilent'
    PROVE  SilenceInv'
<1>1. /\ TypeOK /\ SocketsOK /\ EventsOK /\ ItemsOK /\ Filed /\ ExpiredIsDead BY DEF SilenceInv
<1>2. TypeOK' BY <1>1 DEF TypeOK, LoopType, sockVars, storeVars
<1>3. SocketsOK' /\ Forward BY <1>1, SameSocketsAndRing DEF storeVars
<1>4. Filed' /\ OldItems BY <1>1, NothingChanges DEF storeVars
<1>5. EventsOK' BY <1>1, <1>2, <1>3, EventsForward
<1>6. ItemsOK' BY <1>1, <1>2, <1>3, <1>4, OldItemsOK
<1>7. ExpiredIsDead' BY <1>1, <1>2, <1>3, OldExpired
<1> QED BY <1>2, <1>3, <1>4, <1>5, <1>6, <1>7 DEF SilenceInv

LEMMA LoopTypes ==
    ASSUME SilenceInv
    PROVE  /\ loop \in LoopType /\ MAX_EVT_COUNT \in Nat /\ ExpireEvery \in Nat \ {0}
           /\ walk \in [chain : Chains, current : Nat \ {0}, previous : BOOLEAN]
           /\ g_numCallsToDoEvent \in 0 .. ExpireEvery - 1 /\ g_cumulativeEventCount \in Nat
BY HttpMatchAssumption DEF SilenceInv, TypeOK, LoopType

LEMMA doEventKeepsSilence ==
    ASSUME SilenceInv, doEvent
    PROVE  SilenceInv'
<1>1. /\ loop.at = "out" /\ loop' = [at |-> "in", eventCount |-> 0, exitedLoopEarly |-> FALSE]
      /\ UNCHANGED <<sockVars, ring, storeVars, walk, g_numCallsToDoEvent, hist>>
  BY DEF doEvent
<1>2. loop' \in LoopType BY <1>1, LoopTypes DEF LoopType
<1>3. LoopOK' BY <1>1, LoopTypes DEF LoopOK, SilenceInv
<1>4. EmptiedIsSilent' BY <1>1 DEF EmptiedIsSilent
<1> QED BY <1>1, <1>2, <1>3, <1>4, LoopTypes, LoopOnly

LEMMA doEventEmptyKeepsSilence ==
    ASSUME SilenceInv, doEventEmpty
    PROVE  SilenceInv'
<1>1. /\ loop.at = "in" /\ ring = <<>> /\ loop' = [loop EXCEPT !.at = "after"]
      /\ UNCHANGED <<sockVars, ring, storeVars, walk, g_numCallsToDoEvent, hist>>
  BY DEF doEventEmpty
<1>2. loop' \in LoopType /\ loop'.at = "after" BY <1>1, LoopTypes DEF LoopType
<1>3. LoopOK' BY <1>1, <1>2 DEF LoopOK, SilenceInv
<1>4. \A u : Silent(u)' BY <1>1 DEF Silent
<1>5. EmptiedIsSilent' BY <1>4, Zenon DEF EmptiedIsSilent
<1> QED BY <1>1, <1>2, <1>3, <1>5, LoopTypes, LoopOnly

LEMMA doEventEndKeepsSilence ==
    ASSUME SilenceInv, doEventEnd
    PROVE  SilenceInv'
<1>1. /\ loop.at = "after" /\ g_numCallsToDoEvent' = (g_numCallsToDoEvent + 1) % ExpireEvery
      /\ loop' = [loop EXCEPT !.at = IF g_numCallsToDoEvent' = 0 THEN "expire" ELSE "out"]
      /\ UNCHANGED <<sockVars, ring, storeVars, walk, hist>>
  BY DEF doEventEnd
<1>2. loop' \in LoopType /\ loop'.at \in {"expire", "out"} /\ loop'.exitedLoopEarly = loop.exitedLoopEarly
  BY <1>1, LoopTypes DEF LoopType
<1>3. LoopOK' BY <1>1, <1>2 DEF LoopOK, SilenceInv
<1>4. g_numCallsToDoEvent' \in 0 .. ExpireEvery - 1 BY <1>1, LoopTypes
<1>5. TypeOK /\ SocketsOK /\ ItemsOK /\ EmptiedIsSilent BY DEF SilenceInv
<1>6. Forward BY <1>1, <1>5, SameSocketsAndRing DEF storeVars
<1>7. OldAhead BY <1>1 DEF OldAhead, Ahead, storeVars
<1>8. TypeOK' => EmptiedIsSilent' BY <1>1, <1>2, <1>5, <1>6, <1>7, StaysEmptied
<1> QED BY <1>1, <1>2, <1>3, <1>4, <1>8, LoopTypes, LoopOnly

LEMMA ExpireNextKeepsSilence ==
    ASSUME SilenceInv, ExpireNext
    PROVE  SilenceInv'
<1>1. /\ loop.at = "expire"
      /\ walk' = [chain |-> (walk.chain + 1) % HASH_TABLE_SIZE, current |-> 1, previous |-> FALSE]
      /\ loop' = [loop EXCEPT !.at = IF walk.chain + 1 = HASH_TABLE_SIZE THEN "out" ELSE @]
      /\ UNCHANGED <<sockVars, ring, storeVars, g_numCallsToDoEvent, hist>>
  BY DEF ExpireNext
<1>2. /\ loop' \in LoopType /\ loop'.exitedLoopEarly = loop.exitedLoopEarly
      /\ loop'.at = IF walk.chain + 1 = HASH_TABLE_SIZE THEN "out" ELSE "expire"
  BY <1>1, LoopTypes DEF LoopType
<1>3. walk.chain \in 0 .. HASH_TABLE_SIZE - 1 /\ HASH_TABLE_SIZE \in Nat \ {0}
  BY LoopTypes, HttpMatchAssumption DEF Chains
<1>4. (walk.chain + 1) % HASH_TABLE_SIZE = IF walk.chain + 1 = HASH_TABLE_SIZE THEN 0 ELSE walk.chain + 1
  BY <1>3
<1>5. walk' \in [chain : Chains, current : Nat \ {0}, previous : BOOLEAN] BY <1>1, <1>3, <1>4 DEF Chains
<1>6. walk'.chain = (IF walk.chain + 1 = HASH_TABLE_SIZE THEN 0 ELSE walk.chain + 1) /\ walk'.current = 1
  BY <1>1, <1>4
<1>7. LoopOK' BY <1>2, <1>6 DEF LoopOK
<1>8. TypeOK /\ SocketsOK /\ ItemsOK /\ EmptiedIsSilent BY DEF SilenceInv
<1>9. TypeOK' => EmptiedIsSilent'
  <2>1. CASE walk.chain + 1 = HASH_TABLE_SIZE BY <1>2, <2>1 DEF EmptiedIsSilent
  <2>2. CASE walk.chain + 1 # HASH_TABLE_SIZE
    <3>1. ASSUME NEW h \in Chains, NEW j, Ahead(h, j)' PROVE Ahead(h, j)
      BY <1>3, <1>6, <2>2, <3>1 DEF Ahead, Chains
    <3>2. OldAhead BY <1>1, <3>1 DEF OldAhead, storeVars
    <3>3. Forward BY <1>1, <1>8, SameSocketsAndRing DEF storeVars
    <3> QED BY <1>1, <1>2, <1>8, <3>2, <3>3, StaysEmptied
  <2> QED BY <2>1, <2>2
<1> QED BY <1>1, <1>2, <1>5, <1>7, <1>9, LoopTypes, LoopOnly

\* The item that storeExpire marks is that of a closed socket, and its events
\* in the ring are among the next cbufSize.
LEMMA MarkedIsOK ==
    ASSUME TypeOK, NEW it \in Item, ItemOK(it)
    PROVE  ItemOK(Marked(it, g_cumulativeEventCount))
<1>1. PICK mk : mk = Marked(it, g_cumulativeEventCount) OBVIOUS
<1>2. g_cumulativeEventCount \in Nat /\ Len(ring) \in Nat /\ Len(ring) <= cbufSize /\ cbufSize \in Nat
  BY HttpMatchAssumption, EventTypes DEF TypeOK
<1>3. /\ mk.sockid = it.sockid /\ mk.sockfd = it.sockfd
      /\ mk = it \/ (~InUse(it) /\ mk.circBufCount = g_cumulativeEventCount)
  BY <1>1, <1>2, MarkedFacts
<1>4. CASE mk = it BY <1>1, <1>4
<1>5. CASE ~InUse(it) /\ mk.circBufCount = g_cumulativeEventCount
  <2>1. it.sockid <= lastUid /\ \A f \in Fds : netInfo[f].uid = it.sockid => f = it.sockfd BY DEF ItemOK
  <2>2. Dead(it.sockid) BY <1>5, <2>1 DEF Dead, InUse
  <2>3. \A i \in 1 .. Len(ring) : g_cumulativeEventCount + i <= g_cumulativeEventCount + cbufSize BY <1>2
  <2>4. Dead(mk.sockid) BY <1>3, <2>2
  <2> QED BY <1>1, <1>3, <1>5, <2>1, <2>3, <2>4 DEF ItemOK
<1> QED BY <1>3, <1>4, <1>5

LEMMA ExpireKeepKeepsSilence ==
    ASSUME SilenceInv, ExpireKeep
    PROVE  SilenceInv'
<1>1. /\ Walking /\ walk' = [walk EXCEPT !.current = @ + 1, !.previous = TRUE]
      /\ UNCHANGED <<sockVars, ring, loop, g_cumulativeEventCount, g_numCallsToDoEvent, hist>>
  BY DEF ExpireKeep
<1>2. /\ TypeOK /\ SocketsOK /\ EventsOK /\ ItemsOK /\ Filed /\ LoopOK
      /\ EmptiedIsSilent /\ ExpiredIsDead
  BY DEF SilenceInv
<1>3. /\ hashTable' \in [Chains -> Seq(Item)] /\ Filed'
      /\ \A h \in Chains : Len(hashTable'[h]) = Len(hashTable[h])
      /\ \A h \in Chains : \A j \in 1 .. Len(hashTable[h]) :
            IF h = walk.chain /\ j = walk.current
            THEN hashTable'[h][j] = Marked(hashTable[h][j], g_cumulativeEventCount)
            ELSE hashTable'[h][j] = hashTable[h][j]
  BY <1>2, KeepFacts
<1>4. /\ walk' \in [chain : Chains, current : Nat \ {0}, previous : BOOLEAN]
      /\ walk'.chain = walk.chain /\ walk'.current = walk.current + 1
      /\ walk.current \in Nat /\ walk.chain \in Int
  <2>1. walk \in [chain : Chains, current : Nat \ {0}, previous : BOOLEAN] BY LoopTypes
  <2>2. PICK w : w = [walk EXCEPT !.current = walk.current + 1] OBVIOUS
  <2>3. w \in [chain : Chains, current : Nat \ {0}, previous : BOOLEAN]
        /\ w.chain = walk.chain /\ w.current = walk.current + 1
    BY <2>1, <2>2
  <2>4. walk' = [w EXCEPT !.previous = TRUE] BY <1>1, <2>2
  <2>5. walk' \in [chain : Chains, current : Nat \ {0}, previous : BOOLEAN] BY <2>3, <2>4
  <2>6. walk'.chain = w.chain /\ walk'.current = w.current BY <2>3, <2>4
  <2>7. walk.current \in Nat /\ walk.chain \in Int BY <2>1 DEF Chains
  <2> QED BY <2>3, <2>5, <2>6, <2>7
<1>5. TypeOK' BY <1>1, <1>2, <1>3, <1>4 DEF TypeOK, sockVars
<1>6. SocketsOK' /\ Forward BY <1>1, <1>2, SameSocketsAndRing
<1>7. EventsOK' BY <1>2, <1>5, <1>6, EventsForward
<1>8. ItemsOK'
  <2> SUFFICES ASSUME NEW h \in Chains, NEW j \in 1 .. Len(hashTable'[h])
               PROVE  ItemOK(hashTable[h][j])'
    BY DEF ItemsOK
  <2>1. j \in 1 .. Len(hashTable[h]) BY <1>3
  <2>2. PICK it : it = hashTable[h][j] OBVIOUS
  <2>3. it \in Item /\ ItemOK(it) BY <1>2, <2>1, <2>2 DEF TypeOK, ItemsOK
  <2>4. PICK x : x = hashTable'[h][j] OBVIOUS
  <2>5. x = it \/ x = Marked(it, g_cumulativeEventCount) BY <1>3, <2>1, <2>2, <2>4
  <2>6. x \in Item /\ ItemOK(x)
    <3>1. g_cumulativeEventCount \in Nat BY LoopTypes
    <3>2. Marked(it, g_cumulativeEventCount) \in Item BY <2>3, <3>1, MarkedFacts
    <3>3. ItemOK(Marked(it, g_cumulativeEventCount)) BY <1>2, <2>3, MarkedIsOK
    <3> QED BY <2>3, <2>5, <3>2, <3>3, Zenon
  <2>7. ItemOK(x)' BY <1>2, <1>5, <1>6, <2>6, ItemForward
  <2> QED BY <2>4, <2>7 DEF ItemOK, Dead
<1>9. LoopOK' BY <1>1 DEF LoopOK, Walking
<1>10. ExpiredIsDead' BY <1>1, <1>2, <1>5, <1>6, OldExpired
<1>11. EmptiedIsSilent'
  <2>1. ASSUME NEW h \in Chains, NEW j \in 1 .. Len(hashTable'[h]), Ahead(h, j)'
        PROVE  Ahead(h, j) /\ j \in 1 .. Len(hashTable[h]) /\ hashTable'[h][j] = hashTable[h][j]
    <3>1. j \in 1 .. Len(hashTable[h]) /\ j \in Nat /\ h \in Int BY <1>2, <1>3 DEF Chains, TypeOK
    <3>2. Ahead(h, j) /\ ~(h = walk.chain /\ j = walk.current) BY <1>4, <2>1, <3>1 DEF Ahead
    <3> QED BY <1>3, <3>1, <3>2
  <2>2. OldAhead BY <2>1 DEF OldAhead
  <2>3. loop.at = "expire" BY <1>1 DEF Walking
  <2> QED BY <1>1, <1>2, <1>5, <1>6, <2>2, <2>3, StaysEmptied
<1> QED BY <1>3, <1>5, <1>6, <1>7, <1>8, <1>9, <1>10, <1>11 DEF SilenceInv

\* The item that storeExpire frees is that of a closed socket of which the ring
\* holds nothing: it was emptied since the mark, or has turned over.
LEMMA FreedIsSilent ==
    ASSUME SilenceInv, ExpireFree
    PROVE  Current.sockid \in Uids /\ Dead(Current.sockid) /\ Silent(Current.sockid)
<1>1. TypeOK /\ ItemsOK /\ EmptiedIsSilent BY DEF SilenceInv
<1>2. Walking /\ Expirable(Current, g_cumulativeEventCount, ~loop.exitedLoopEarly) BY DEF ExpireFree
<1>3. /\ walk.chain \in Chains /\ walk.current \in 1 .. Len(hashTable[walk.chain])
      /\ Current \in Item /\ Current = hashTable[walk.chain][walk.current]
  BY <1>1, <1>2, CurrentFacts
<1>4. ItemOK(Current) BY <1>1, <1>3 DEF ItemsOK
<1>5. Current.circBufCount # 0 /\ Current.circBufCount \in Nat /\ Current.sockid \in Uids
  BY <1>2, <1>3 DEF Expirable, Item
<1>6. Dead(Current.sockid) BY <1>4, <1>5 DEF ItemOK
<1>7. CASE ~loop.exitedLoopEarly
  <2>1. Ahead(walk.chain, walk.current) BY <1>3, <1>1 DEF Ahead, TypeOK
  <2>2. loop.at = "expire" BY <1>2 DEF Walking
  <2> QED BY <1>1, <1>3, <1>5, <1>6, <1>7, <2>1, <2>2 DEF EmptiedIsSilent
<1>8. CASE loop.exitedLoopEarly
  <2>1. Current.circBufCount + cbufSize < g_cumulativeEventCount BY <1>2, <1>8 DEF Expirable
  <2>2. ASSUME NEW i \in 1 .. Len(ring), ring[i].uid = Current.sockid PROVE FALSE
    <3>1. g_cumulativeEventCount + i <= Current.circBufCount + cbufSize BY <1>4, <1>5, <2>2 DEF ItemOK
    <3>2. g_cumulativeEventCount \in Nat /\ i \in Nat \ {0} /\ cbufSize \in Nat
      BY LoopTypes, HttpMatchAssumption
    <3> QED BY <1>5, <2>1, <3>1, <3>2
  <2> QED BY <1>5, <1>6, <2>2 DEF Silent
<1> QED BY <1>7, <1>8

\* What is noted of it.
LEMMA FreeHist ==
    ASSUME SilenceInv, ExpireFree
    PROVE  /\ hist' \in HistType /\ hist'.expired = hist.expired \cup {Current.sockid}
           /\ hist'.dropped = hist.dropped /\ hist'.reported = hist.reported /\ hist.cut \subseteq hist'.cut
<1>1. TypeOK /\ Walking BY DEF SilenceInv, ExpireFree
<1>2. /\ hashTable[walk.chain] \in Seq(Item) /\ Len(hashTable[walk.chain]) \in Nat
      /\ walk.current \in 1 .. Len(hashTable[walk.chain]) /\ Current \in Item
  BY <1>1, CurrentFacts
<1>3. PICK lost : lost = IF walk.previous THEN {}
                         ELSE {hashTable[walk.chain][i].sockid : i \in 1 .. walk.current - 1}
  OBVIOUS
<1>4. hist' = [hist EXCEPT !.expired = hist.expired \cup {Current.sockid},
                           !.cut = hist.cut \cup lost,
                           !.pending = hist.pending \ {Current.sockid}]
  BY <1>3, Zenon DEF ExpireFree
<1>5. lost \subseteq Uids
  <2>1. \A i \in 1 .. walk.current - 1 : hashTable[walk.chain][i] \in Item BY <1>2
  <2> QED BY <1>3, <2>1 DEF Item
<1>6. hist \in HistType BY <1>1 DEF TypeOK, HistType
<1>7. Current.sockid \in Uids BY <1>2 DEF Item
<1>8. /\ hist'.expired = hist.expired \cup {Current.sockid} /\ hist'.cut = hist.cut \cup lost
      /\ hist'.dropped = hist.dropped /\ hist'.reported = hist.reported
      /\ hist'.pending = hist.pending \ {Current.sockid}
      /\ hist' = [dropped |-> hist'.dropped, expired |-> hist'.expired, cut |-> hist'.cut,
                  pending |-> hist'.pending, reported |-> hist'.reported]
  BY <1>4, <1>6 DEF HistType
<1>9. /\ hist'.expired \in SUBSET Uids /\ hist'.cut \in SUBSET Uids /\ hist'.pending \in SUBSET Uids
      /\ hist'.dropped \in SUBSET Uids
      /\ hist'.reported \in SUBSET (Uids \X (1 .. MaxReq) \X (0 .. MaxReq))
  BY <1>5, <1>6, <1>7, <1>8 DEF HistType
<1>10. hist' \in HistType BY <1>8, <1>9 DEF HistType
<1> QED BY <1>8, <1>10

LEMMA ExpireFreeKeepsSilence ==
    ASSUME SilenceInv, ExpireFree
    PROVE  SilenceInv'
<1>1. /\ Walking
      /\ UNCHANGED <<sockVars, ring, loop, g_cumulativeEventCount, g_numCallsToDoEvent>>
  BY DEF ExpireFree
<1>2. /\ TypeOK /\ SocketsOK /\ EventsOK /\ ItemsOK /\ Filed /\ LoopOK
      /\ EmptiedIsSilent /\ ExpiredIsDead
  BY DEF SilenceInv
<1>3. /\ hashTable' \in [Chains -> Seq(Item)] /\ Filed' /\ OldItems
      /\ \A h \in Chains : \A j \in 1 .. Len(hashTable'[h]) :
            Ahead(h, j)' => \E i \in 1 .. Len(hashTable[h]) :
                               Ahead(h, i) /\ hashTable'[h][j] = hashTable[h][i]
      /\ walk' \in [chain : Chains, current : Nat \ {0}, previous : BOOLEAN]
  BY <1>2, FreeFacts
<1>4. Current.sockid \in Uids /\ Dead(Current.sockid) /\ Silent(Current.sockid) BY FreedIsSilent
<1>5. /\ hist' \in HistType /\ hist'.expired = hist.expired \cup {Current.sockid}
      /\ hist'.dropped = hist.dropped /\ hist'.reported = hist.reported /\ hist.cut \subseteq hist'.cut
  BY FreeHist
<1>6. TypeOK' BY <1>1, <1>2, <1>3, <1>5 DEF TypeOK, HistType, sockVars
<1>7. SocketsOK' /\ Forward BY <1>1, <1>2, SameSocketsAndRing
<1>8. EventsOK' BY <1>2, <1>6, <1>7, EventsForward
<1>9. ItemsOK' BY <1>2, <1>3, <1>6, <1>7, OldItemsOK
<1>10. LoopOK' BY <1>1 DEF LoopOK, Walking
<1>11. ExpiredIsDead'
  <2> SUFFICES ASSUME NEW u \in hist'.expired PROVE Dead(u)' /\ Silent(u)' BY DEF ExpiredIsDead
  <2>1. Dead(u) /\ Silent(u) /\ u \in Uids BY <1>2, <1>4, <1>5 DEF ExpiredIsDead, TypeOK
  <2> QED BY <1>2, <1>6, <1>7, <2>1, DeadForward, SilentForward
<1>12. EmptiedIsSilent'
  <2>1. OldAhead BY <1>3 DEF OldAhead
  <2>2. loop.at = "expire" BY <1>1 DEF Walking
  <2> QED BY <1>1, <1>2, <1>6, <1>7, <2>1, <2>2, StaysEmptied
<1> QED BY <1>3, <1>6, <1>7, <1>8, <1>9, <1>10, <1>11, <1>12 DEF SilenceInv

\* The loop that handles events ends when it has handled its limit.
LEMMA GetLoop ==
    ASSUME SilenceInv, doEventGet
    PROVE  /\ loop' \in LoopType /\ loop'.at \in {"in", "after"}
           /\ loop'.at = "after" => loop'.exitedLoopEarly
           /\ loop'.at = "in" => loop'.eventCount <= MAX_EVT_COUNT /\ ~loop'.exitedLoopEarly
<1>1. /\ loop.at = "in"
      /\ loop' = [loop EXCEPT !.eventCount = loop.eventCount + 1,
                              !.exitedLoopEarly = loop.eventCount >= MAX_EVT_COUNT,
                              !.at = IF loop.eventCount >= MAX_EVT_COUNT THEN "after" ELSE "in"]
  BY DEF doEventGet
<1>2. loop \in LoopType /\ MAX_EVT_COUNT \in Nat BY LoopTypes
<1>3. loop.eventCount \in 0 .. MAX_EVT_COUNT /\ loop.eventCount \in Nat
  BY <1>1, <1>2 DEF SilenceInv, LoopOK, LoopType
<1>4. /\ loop'.eventCount = loop.eventCount + 1
      /\ loop'.exitedLoopEarly = (loop.eventCount >= MAX_EVT_COUNT)
      /\ loop'.at = IF loop.eventCount >= MAX_EVT_COUNT THEN "after" ELSE "in"
      /\ loop' = [at |-> loop'.at, eventCount |-> loop'.eventCount, exitedLoopEarly |-> loop'.exitedLoopEarly]
  BY <1>1, <1>2 DEF LoopType
<1>5. loop.eventCount + 1 \in 0 .. MAX_EVT_COUNT + 1 BY <1>2, <1>3
<1>6. loop'.at \in {"in", "after"} BY <1>4
<1>7. loop'.exitedLoopEarly \in BOOLEAN BY <1>4
<1>8. loop' \in LoopType BY <1>4, <1>5, <1>6, <1>7 DEF LoopType
<1>9. CASE loop.eventCount >= MAX_EVT_COUNT
  <2>1. loop'.exitedLoopEarly /\ loop'.at = "after" BY <1>4, <1>9
  <2> QED BY <1>8, <2>1
<1>10. CASE ~(loop.eventCount >= MAX_EVT_COUNT)
  <2>1. ~loop'.exitedLoopEarly /\ loop'.at = "in" BY <1>4, <1>10
  <2>2. loop'.eventCount <= MAX_EVT_COUNT BY <1>2, <1>3, <1>4, <1>10
  <2> QED BY <1>8, <2>1, <2>2
<1> QED BY <1>9, <1>10

\* What an event does to the store.
LEMMA GetStore ==
    ASSUME SilenceInv, doEventGet, NEW e, e = Head(ring)
    PROVE  /\ e \in Event /\ e = ring[1] /\ EventOK(e) /\ Len(ring) \in Nat \ {0}
           /\ hashTable' \in [Chains -> Seq(Item)] /\ Filed'
           /\ \A h \in Chains : \A j \in 1 .. Len(hashTable'[h]) :
                 \/ \E i \in 1 .. Len(hashTable[h]) : hashTable'[h][j] = hashTable[h][i]
                 \/ /\ e.kind = "EVT_HREQ" /\ hashTable'[h][j] = NewItem(e.uid, e.fd, e.req)
                    /\ NewItem(e.uid, e.fd, e.req) \in Item
           /\ \A v \in Uids : v # e.uid => SameOf(v)
           /\ e.kind = "EVT_HREQ" /\ HasNone(e.uid) => Has(e.uid, e.req)'
           /\ e.kind # "EVT_HREQ" => HasNone(e.uid)'
<1>1. TypeOK /\ Filed /\ EventsOK BY DEF SilenceInv
<1>2. ring \in Seq(Event) /\ ring # <<>> BY <1>1 DEF TypeOK, doEventGet
<1>3. e \in Event /\ e = ring[1] /\ Len(ring) \in Nat \ {0} BY <1>2
<1>4. EventOK(e) BY <1>1, <1>3 DEF EventsOK
<1>5. e.uid \in Uids /\ e.fd \in Fds /\ e.req \in 0 .. MaxReq BY <1>3 DEF Event
<1>6. CASE e.kind = "EVT_HREQ" /\ storeSave(e.uid, e.fd, e.req)
  <2>1. e.req \in 1 .. MaxReq BY <1>4, <1>5, <1>6, HttpMatchAssumption DEF EventOK
  <2>2. NewItem(e.uid, e.fd, e.req) \in Item BY <1>5, <2>1 DEF NewItem, Item
  <2>3. /\ hashTable' \in [Chains -> Seq(Item)] /\ Filed'
        /\ \A h \in Chains : \A j \in 1 .. Len(hashTable'[h]) :
              \/ \E i \in 1 .. Len(hashTable[h]) : hashTable'[h][j] = hashTable[h][i]
              \/ hashTable'[h][j] = NewItem(e.uid, e.fd, e.req)
        /\ \A v \in Uids : v # e.uid => SameOf(v)
        /\ HasNone(e.uid) => Has(e.uid, e.req)'
    BY <1>1, <1>5, <1>6, <2>1, SaveFacts
  <2> QED BY <1>3, <1>4, <1>6, <2>2, <2>3, Zenon
<1>7. CASE e.kind # "EVT_HREQ" /\ storeDelete(e.uid)
  <2>1. /\ hashTable' \in [Chains -> Seq(Item)] /\ Filed' /\ OldItems
        /\ \A v \in Uids : v # e.uid => SameOf(v)
        /\ HasNone(e.uid)'
    BY <1>1, <1>5, <1>7, DeleteFacts
  <2> QED BY <1>3, <1>4, <1>7, <2>1, Zenon DEF OldItems
<1> QED BY <1>6, <1>7 DEF doEventGet, doHttp1Header, doNetMetric

\* What is noted of it: the response that is reported.
LEMMA GetHist ==
    ASSUME SilenceInv, doEventGet, NEW e, e = Head(ring)
    PROVE  /\ hist' \in HistType /\ hist'.expired = hist.expired
           /\ hist'.dropped = hist.dropped /\ hist'.cut = hist.cut
           /\ \/ hist'.reported = hist.reported
              \/ /\ e.kind = "EVT_HRES"
                 /\ hist'.reported = hist.reported \cup {<<e.uid, e.req, storeGet(e.uid)>>}
<1>1. TypeOK /\ EventsOK BY DEF SilenceInv
<1>2. hist \in HistType BY <1>1 DEF TypeOK, HistType
<1>3. e \in Event /\ EventOK(e) BY GetStore
<1>4. e.uid \in Uids /\ e.req \in 0 .. MaxReq BY <1>3 DEF Event
<1>5. CASE e.kind = "EVT_HREQ" /\ hist' = [hist EXCEPT !.pending = hist.pending \cup {e.uid}]
  <2>1. hist' \in HistType BY <1>2, <1>4, <1>5 DEF HistType
  <2> QED BY <1>2, <1>5, <2>1 DEF HistType
<1>6. CASE e.kind = "CONNECTION_DURATION" /\ hist' = [hist EXCEPT !.pending = hist.pending \ {e.uid}]
  <2>1. hist' \in HistType BY <1>2, <1>4, <1>6 DEF HistType
  <2> QED BY <1>2, <1>6, <2>1 DEF HistType
<1>7. CASE /\ e.kind = "EVT_HRES"
           /\ hist' = [hist EXCEPT !.reported = hist.reported \cup {<<e.uid, e.req, storeGet(e.uid)>>},
                                   !.pending = hist.pending \ {e.uid}]
  <2>1. e.req \in 1 .. MaxReq BY <1>3, <1>4, <1>7, HttpMatchAssumption DEF EventOK
  <2>2. storeGet(e.uid) \in 0 .. MaxReq
    <3>1. CASE Find(e.uid) = 0 BY <3>1, HttpMatchAssumption DEF storeGet, NoRequest
    <3>2. CASE Find(e.uid) # 0
      <4>1. Find(e.uid) \in 1 .. Len(hashTable[hashOfKey(e.uid)]) BY <1>1, <1>4, <3>2, FindFacts
      <4>2. hashTable[hashOfKey(e.uid)] \in Seq(Item) BY <1>1, <1>4, ChainFacts
      <4>3. hashTable[hashOfKey(e.uid)][Find(e.uid)] \in Item BY <4>1, <4>2
      <4>4. hashTable[hashOfKey(e.uid)][Find(e.uid)].data \in 0 .. MaxReq
        BY <4>3, HttpMatchAssumption DEF Item
      <4> QED BY <3>2, <4>4 DEF storeGet
    <3> QED BY <3>1, <3>2
  <2>3. PICK r : r = <<e.uid, e.req, storeGet(e.uid)>> OBVIOUS
  <2>4. r \in Uids \X (1 .. MaxReq) \X (0 .. MaxReq) BY <1>4, <2>1, <2>2, <2>3
  <2>5. /\ hist'.reported = hist.reported \cup {r} /\ hist'.pending = hist.pending \ {e.uid}
        /\ hist'.dropped = hist.dropped /\ hist'.cut = hist.cut /\ hist'.expired = hist.expired
        /\ hist' = [dropped |-> hist'.dropped, expired |-> hist'.expired, cut |-> hist'.cut,
                    pending |-> hist'.pending, reported |-> hist'.reported]
    BY <1>2, <1>7, <2>3 DEF HistType
  <2>6. /\ hist'.expired \in SUBSET Uids /\ hist'.cut \in SUBSET Uids /\ hist'.pending \in SUBSET Uids
        /\ hist'.dropped \in SUBSET Uids
        /\ hist'.reported \in SUBSET (Uids \X (1 .. MaxReq) \X (0 .. MaxReq))
    BY <1>2, <2>4, <2>5 DEF HistType
  <2>7. hist' \in HistType BY <2>5, <2>6 DEF HistType
  <2> QED BY <1>7, <2>3, <2>5, <2>7
<1> QED BY <1>5, <1>6, <1>7 DEF doEventGet, doHttp1Header, doNetMetric

\* The ring without its first event.
LEMMA GetRing ==
    ASSUME SilenceInv, doEventGet
    PROVE  /\ ring' \in Seq(Event) /\ Len(ring) \in Nat \ {0} /\ Len(ring') = Len(ring) - 1
           /\ \A i \in 1 .. Len(ring) - 1 : ring'[i] = ring[i + 1]
           /\ Forward /\ SocketsOK'
<1>1. TypeOK /\ SocketsOK BY DEF SilenceInv
<1>2. ring \in Seq(Event) /\ ring # <<>> /\ ring' = Tail(ring) BY <1>1 DEF TypeOK, doEventGet
<1>3. /\ ring' \in Seq(Event) /\ Len(ring) \in Nat \ {0} /\ Len(ring') = Len(ring) - 1
      /\ \A i \in 1 .. Len(ring) - 1 : ring'[i] = ring[i + 1]
  BY <1>2, TailOf
<1>4. g_cumulativeEventCount' = g_cumulativeEventCount + 1 /\ g_cumulativeEventCount \in Nat
  BY LoopTypes DEF doEventGet
<1>5. ASSUME NEW i \in 1 .. Len(ring') PROVE Stays(i)
  <2>1. i + 1 \in 1 .. Len(ring) /\ ring'[i] = ring[i + 1] BY <1>3
  <2>2. g_cumulativeEventCount' + i = g_cumulativeEventCount + (i + 1) BY <1>4
  <2> QED BY <2>1, <2>2 DEF Stays
<1>6. SocketsOK' /\ SocketsForward BY <1>1, SameSockets DEF doEventGet, sockVars
<1> QED BY <1>3, <1>5, <1>6 DEF Forward

LEMMA doEventGetKeepsSilence ==
    ASSUME SilenceInv, doEventGet
    PROVE  SilenceInv'
<1>1. /\ TypeOK /\ SocketsOK /\ EventsOK /\ ItemsOK /\ Filed /\ LoopOK /\ ExpiredIsDead
  BY DEF SilenceInv
<1>2. /\ loop.at = "in" /\ g_cumulativeEventCount' = g_cumulativeEventCount + 1
      /\ UNCHANGED <<sockVars, walk, g_numCallsToDoEvent>>
  BY DEF doEventGet
<1>3. PICK e : e = Head(ring) OBVIOUS
<1>4. /\ e \in Event /\ e = ring[1] /\ EventOK(e)
      /\ hashTable' \in [Chains -> Seq(Item)] /\ Filed'
      /\ \A h \in Chains : \A j \in 1 .. Len(hashTable'[h]) :
            \/ \E i \in 1 .. Len(hashTable[h]) : hashTable'[h][j] = hashTable[h][i]
            \/ /\ e.kind = "EVT_HREQ" /\ hashTable'[h][j] = NewItem(e.uid, e.fd, e.req)
               /\ NewItem(e.uid, e.fd, e.req) \in Item
  BY <1>3, GetStore
<1>5. hist' \in HistType /\ hist'.expired = hist.expired BY <1>3, GetHist
<1>6. /\ ring' \in Seq(Event) /\ Len(ring) \in Nat \ {0} /\ Len(ring') = Len(ring) - 1
      /\ Forward /\ SocketsOK'
  BY GetRing
<1>7. loop' \in LoopType BY GetLoop
<1>8. TypeOK'
  <2>1. Len(ring') <= cbufSize BY <1>1, <1>6, HttpMatchAssumption DEF TypeOK
  <2>2. g_cumulativeEventCount' \in Nat BY <1>2, LoopTypes
  <2> QED BY <1>1, <1>2, <1>4, <1>5, <1>6, <1>7, <2>1, <2>2 DEF TypeOK, HistType, LoopType, sockVars
<1>9. EventsOK' BY <1>1, <1>6, <1>8, EventsForward
<1>10. ItemsOK'
  <2> SUFFICES ASSUME NEW h \in Chains, NEW j \in 1 .. Len(hashTable'[h])
               PROVE  ItemOK(hashTable[h][j])'
    BY DEF ItemsOK
  <2>1. PICK x : x = hashTable'[h][j] OBVIOUS
  <2>2. x \in Item /\ ItemOK(x)
    <3>1. ASSUME NEW i \in 1 .. Len(hashTable[h]), x = hashTable[h][i] PROVE x \in Item /\ ItemOK(x)
      BY <1>1, <3>1 DEF TypeOK, ItemsOK
    <3>2. ASSUME x = NewItem(e.uid, e.fd, e.req), x \in Item PROVE ItemOK(x)
      <4>1. x.sockid = e.uid /\ x.sockfd = e.fd /\ x.circBufCount = 0 BY <3>2 DEF NewItem
      <4> QED BY <1>4, <4>1 DEF ItemOK, EventOK
    <3> QED BY <1>4, <2>1, <3>1, <3>2
  <2>3. ItemOK(x)' BY <1>1, <1>6, <1>8, <2>2, ItemForward
  <2> QED BY <2>1, <2>3 DEF ItemOK, Dead
<1>11. LoopOK'
  <2>1. walk' = walk BY <1>2
  <2> QED BY <1>1, <1>2, <2>1, GetLoop DEF LoopOK
<1>12. ExpiredIsDead' BY <1>1, <1>5, <1>6, <1>8, OldExpired
<1>13. EmptiedIsSilent' BY GetLoop DEF EmptiedIsSilent
<1> QED BY <1>4, <1>6, <1>8, <1>9, <1>10, <1>11, <1>12, <1>13 DEF SilenceInv

\* Every step keeps the first part of the invariant.
LEMMA NextKeepsSilence ==
    ASSUME SilenceInv, [Next]_vars
    PROVE  SilenceInv'
<1>1. CASE UNCHANGED vars
  <2>1. TypeOK /\ SocketsOK BY DEF SilenceInv
  <2>2. TypeOK' BY <1>1, <2>1 DEF TypeOK, vars
  <2>3. SocketsOK' /\ Forward BY <1>1, <2>1, SameSocketsAndRing DEF vars, sockVars
  <2> QED BY <1>1, <2>2, <2>3, StoreUntouched DEF vars
<1>2. ASSUME NEW f \in Fds,
             addSock(f) \/ Request(f) \/ Response(f) \/ doClose(f) \/ doCloseInactive(f)
      PROVE  SilenceInv'
  BY <1>2, addSockKeepsSilence, RequestKeepsSilence, ResponseKeepsSilence, doCloseKeepsSilence,
     doCloseInactiveKeepsSilence
<1>3. CASE Reporter
  BY <1>3, doEventKeepsSilence, doEventGetKeepsSilence, doEventEmptyKeepsSilence,
     doEventEndKeepsSilence, ExpireKeepKeepsSilence, ExpireFreeKeepsSilence, ExpireNextKeepsSilence
     DEF Reporter, storeExpire
<1> QED BY <1>1, <1>2, <1>3 DEF Next

LEMMA InitSilence ==
    ASSUME Init
    PROVE  SilenceInv
<1>1. TypeOK
  <2>1. /\ 0 \in 0 .. MaxUid /\ 0 \in 0 .. MaxReq /\ 0 \in 0 .. MAX_EVT_COUNT + 1 /\ 0 \in Chains
        /\ 0 \in 0 .. ExpireEvery - 1 /\ cbufSize \in Nat
    BY HttpMatchAssumption DEF Chains
  <2>2. ring \in Seq(Event) /\ Len(ring) <= cbufSize BY <2>1 DEF Init
  <2>3. hashTable \in [Chains -> Seq(Item)] BY DEF Init
  <2> QED BY <2>1, <2>2, <2>3 DEF Init, TypeOK
<1>2. SocketsOK BY HttpMatchAssumption DEF Init, SocketsOK
<1>3. EventsOK BY DEF Init, EventsOK
<1>4. \A h \in Chains : hashTable[h] = <<>> BY DEF Init
<1>5. ItemsOK /\ Filed BY <1>4 DEF ItemsOK, Filed
<1>6. LoopOK /\ EmptiedIsSilent BY DEF Init, LoopOK, EmptiedIsSilent
<1>7. ExpiredIsDead BY DEF Init, ExpiredIsDead
<1> QED BY <1>1, <1>2, <1>3, <1>5, <1>6, <1>7 DEF SilenceInv

\* storeExpire never frees a request too early.
THEOREM ExpiredIsSilentAlways == Spec => []ExpiredIsSilent
<1>1. Init => SilenceInv BY InitSilence
<1>2. SilenceInv /\ [Next]_vars => SilenceInv' BY NextKeepsSilence
<1>3. SilenceInv => ExpiredIsSilent
  <2> SUFFICES ASSUME SilenceInv PROVE ExpiredIsSilent OBVIOUS
  <2>1. DOMAIN ring = 1 .. Len(ring) BY DEF SilenceInv, TypeOK
  <2> QED BY <2>1 DEF SilenceInv, ExpiredIsDead, Dead, Silent, ExpiredIsSilent
<1> QED BY <1>1, <1>2, <1>3, PTL DEF Spec

(***************************************************************************)
(* What the store will have when a response is reported.                   *)
(***************************************************************************)

\* The store keeps what it says of a socket, or storeExpire cut it off.
Kept(u) ==
    /\ HasNone(u) => HasNone(u)'
    /\ \A k \in Nat : Has(u, k) => Has(u, k)' \/ (HasNone(u)' /\ u \in hist'.cut)
    /\ u \in hist.cut => u \in hist'.cut

LEMMA SameIsKept ==
    ASSUME NEW u, SameOf(u), hist'.cut = hist.cut
    PROVE  Kept(u)
BY DEF SameOf, Kept

\* What is said of the first i events holds after a step that leaves them.
LEMMA PrefixStays ==
    ASSUME NEW u, NEW i \in Nat, NEW k \in Nat, Kept(u), \A l \in 1 .. i : ring'[l] = ring[l]
    PROVE  /\ WillHave(u, i, k) => WillHave(u, i, k)'
           /\ WillHaveNone(u, i) => WillHaveNone(u, i)'
<1>1. NoneOf(u, i) => NoneOf(u, i)' BY DEF NoneOf
<1>2. ASSUME NEW j \in 1 .. i, LastOf(u, i, j) PROVE LastOf(u, i, j)' /\ ring'[j] = ring[j]
  BY <1>2 DEF LastOf
<1>3. ASSUME WillHave(u, i, k) PROVE WillHave(u, i, k)'
  <2>1. CASE \E j \in 1 .. i : LastOf(u, i, j) /\ ring[j].kind = "EVT_HREQ" /\ ring[j].req = k
    <3>1. PICK j \in 1 .. i : LastOf(u, i, j) /\ ring[j].kind = "EVT_HREQ" /\ ring[j].req = k BY <2>1
    <3>2. LastOf(u, i, j)' /\ ring'[j].kind = "EVT_HREQ" /\ ring'[j].req = k BY <1>2, <3>1
    <3> QED BY <3>2 DEF WillHave
  <2>2. CASE NoneOf(u, i) /\ (Has(u, k) \/ (HasNone(u) /\ u \in hist.cut))
    <3>1. Has(u, k)' \/ (HasNone(u)' /\ u \in hist'.cut) BY <2>2 DEF Kept
    <3> QED BY <1>1, <2>2, <3>1 DEF WillHave
  <2> QED BY <1>3, <2>1, <2>2 DEF WillHave
<1>4. ASSUME WillHaveNone(u, i) PROVE WillHaveNone(u, i)'
  <2>1. CASE \E j \in 1 .. i : LastOf(u, i, j) /\ ring[j].kind = "EVT_HRES"
    <3>1. PICK j \in 1 .. i : LastOf(u, i, j) /\ ring[j].kind = "EVT_HRES" BY <2>1
    <3>2. LastOf(u, i, j)' /\ ring'[j].kind = "EVT_HRES" BY <1>2, <3>1
    <3> QED BY <3>2 DEF WillHaveNone
  <2>2. CASE NoneOf(u, i) /\ HasNone(u)
    <3>1. HasNone(u)' BY <2>2 DEF Kept
    <3> QED BY <1>1, <2>2, <3>1 DEF WillHaveNone
  <2> QED BY <1>4, <2>1, <2>2 DEF WillHaveNone
<1> QED BY <1>3, <1>4

\* An event of another socket changes nothing.
LEMMA OtherAppended ==
    ASSUME NEW u, NEW n \in Nat, NEW k \in Nat, ring'[n + 1].uid # u
    PROVE  /\ WillHave(u, n, k)' => WillHave(u, n + 1, k)'
           /\ WillHaveNone(u, n)' => WillHaveNone(u, n + 1)'
<1>1. NoneOf(u, n)' => NoneOf(u, n + 1)' BY DEF NoneOf
<1>2. ASSUME NEW j \in 1 .. n, LastOf(u, n, j)' PROVE j \in 1 .. n + 1 /\ LastOf(u, n + 1, j)'
  BY <1>2 DEF LastOf
<1>3. ASSUME WillHave(u, n, k)' PROVE WillHave(u, n + 1, k)'
  <2>1. CASE \E j \in 1 .. n : LastOf(u, n, j)' /\ ring'[j].kind = "EVT_HREQ" /\ ring'[j].req = k
    BY <1>2, <2>1 DEF WillHave
  <2> QED BY <1>1, <1>3, <2>1 DEF WillHave
<1>4. ASSUME WillHaveNone(u, n)' PROVE WillHaveNone(u, n + 1)'
  <2>1. CASE \E j \in 1 .. n : LastOf(u, n, j)' /\ ring'[j].kind = "EVT_HRES"
    BY <1>2, <2>1 DEF WillHaveNone
  <2> QED BY <1>1, <1>4, <2>1 DEF WillHaveNone
<1> QED BY <1>3, <1>4

\* A request that is posted will be there, a response leaves nothing.
LEMMA OwnAppended ==
    ASSUME NEW n \in Nat, NEW e, ring'[n + 1] = e
    PROVE  /\ e.kind = "EVT_HREQ" => WillHave(e.uid, n + 1, e.req)'
           /\ e.kind = "EVT_HRES" => WillHaveNone(e.uid, n + 1)'
<1>1. n + 1 \in 1 .. n + 1 /\ \A l \in 1 .. n + 1 : l <= n + 1 OBVIOUS
<1>2. LastOf(e.uid, n + 1, n + 1)' BY <1>1 DEF LastOf
<1> QED BY <1>1, <1>2 DEF WillHave, WillHaveNone

\* What is said of the first i events is said of the rest of them when the first
\* one has been handled.
LEMMA FirstHandled ==
    ASSUME NEW u, NEW i \in Nat \ {0}, NEW k \in Nat, NEW e, e = ring[1],
           \A l \in 1 .. i - 1 : ring'[l] = ring[l + 1], hist'.cut = hist.cut,
           e.uid # u => SameOf(u),
           e.uid = u /\ e.kind = "EVT_HREQ" => Has(u, e.req)',
           e.uid = u /\ e.kind = "EVT_HRES" => HasNone(u)'
    PROVE  /\ WillHave(u, i, k) => WillHave(u, i - 1, k)'
           /\ WillHaveNone(u, i) => WillHaveNone(u, i - 1)'
<1>1. ASSUME NEW j \in 1 .. i, LastOf(u, i, j), j # 1
      PROVE  j - 1 \in 1 .. i - 1 /\ LastOf(u, i - 1, j - 1)' /\ ring'[j - 1] = ring[j]
  <2>1. j - 1 \in 1 .. i - 1 /\ (j - 1) + 1 = j BY <1>1
  <2>2. ring'[j - 1] = ring[j] BY <2>1
  <2>3. ASSUME NEW l \in 1 .. i - 1, ring'[l].uid = u PROVE l <= j - 1
    <3>1. l + 1 \in 1 .. i /\ ring[l + 1].uid = u BY <2>3
    <3>2. l + 1 <= j BY <1>1, <3>1 DEF LastOf
    <3> QED BY <3>2
  <2> QED BY <1>1, <2>1, <2>2, <2>3 DEF LastOf
<1>2. ASSUME LastOf(u, i, 1) PROVE NoneOf(u, i - 1)'
  <2>1. ASSUME NEW l \in 1 .. i - 1 PROVE ring'[l].uid # u
    <3>1. l + 1 \in 1 .. i /\ ~(l + 1 <= 1) /\ ring'[l] = ring[l + 1] OBVIOUS
    <3> QED BY <1>2, <3>1 DEF LastOf
  <2> QED BY <2>1 DEF NoneOf
<1>3. ASSUME NoneOf(u, i) PROVE NoneOf(u, i - 1)' /\ SameOf(u)
  <2>1. ASSUME NEW l \in 1 .. i - 1 PROVE ring'[l].uid # u
    <3>1. l + 1 \in 1 .. i /\ ring'[l] = ring[l + 1] OBVIOUS
    <3> QED BY <1>3, <3>1 DEF NoneOf
  <2>2. ring[1].uid # u BY <1>3 DEF NoneOf
  <2> QED BY <2>1, <2>2 DEF NoneOf
<1>4. ASSUME WillHave(u, i, k) PROVE WillHave(u, i - 1, k)'
  <2>1. ASSUME NEW j \in 1 .. i, LastOf(u, i, j), ring[j].kind = "EVT_HREQ", ring[j].req = k
        PROVE  WillHave(u, i - 1, k)'
    <3>1. CASE j # 1
      <4>1. /\ j - 1 \in 1 .. i - 1 /\ LastOf(u, i - 1, j - 1)'
            /\ ring'[j - 1].kind = "EVT_HREQ" /\ ring'[j - 1].req = k
        BY <1>1, <2>1, <3>1
      <4> QED BY <4>1 DEF WillHave
    <3>2. CASE j = 1
      <4>1. ring[1].uid = u BY <2>1, <3>2 DEF LastOf
      <4>2. NoneOf(u, i - 1)' /\ Has(u, k)' BY <1>2, <2>1, <3>2, <4>1
      <4> QED BY <4>2 DEF WillHave
    <3> QED BY <3>1, <3>2
  <2>2. ASSUME NoneOf(u, i), Has(u, k) \/ (HasNone(u) /\ u \in hist.cut) PROVE WillHave(u, i - 1, k)'
    <3>1. NoneOf(u, i - 1)' /\ (Has(u, k)' \/ (HasNone(u)' /\ u \in hist'.cut))
      BY <1>3, <2>2 DEF SameOf
    <3> QED BY <3>1 DEF WillHave
  <2> QED BY <1>4, <2>1, <2>2 DEF WillHave
<1>5. ASSUME WillHaveNone(u, i) PROVE WillHaveNone(u, i - 1)'
  <2>1. ASSUME NEW j \in 1 .. i, LastOf(u, i, j), ring[j].kind = "EVT_HRES" PROVE WillHaveNone(u, i - 1)'
    <3>1. CASE j # 1
      <4>1. j - 1 \in 1 .. i - 1 /\ LastOf(u, i - 1, j - 1)' /\ ring'[j - 1].kind = "EVT_HRES"
        BY <1>1, <2>1, <3>1
      <4> QED BY <4>1 DEF WillHaveNone
    <3>2. CASE j = 1
      <4>1. ring[1].uid = u BY <2>1, <3>2 DEF LastOf
      <4>2. NoneOf(u, i - 1)' /\ HasNone(u)' BY <1>2, <2>1, <3>2, <4>1
      <4> QED BY <4>2 DEF WillHaveNone
    <3> QED BY <3>1, <3>2
  <2>2. ASSUME NoneOf(u, i), HasNone(u) PROVE WillHaveNone(u, i - 1)'
    <3>1. NoneOf(u, i - 1)' /\ HasNone(u)' BY <1>3, <2>2 DEF SameOf
    <3> QED BY <3>1 DEF WillHaveNone
  <2> QED BY <1>5, <2>1, <2>2 DEF WillHaveNone
<1> QED BY <1>4, <1>5

(***************************************************************************)
(* Every step keeps the second part of the invariant.                      *)
(***************************************************************************)

LEMMA TalkInTurnNext ==
    ASSUME NEW f \in Fds, NEW u, NEW n, NEW k,
           u = netInfo'[f].uid, n = Len(ring'), k = talk'[f].sent,
           talk'[f].phase = "asked" => WillHave(u, n, k)',
           talk'[f].phase = "idle" => WillHaveNone(u, n)'
    PROVE  TalkInTurn(f)'
<1>1. ASSUME WillHave(u, n, k)' PROVE WillHave(netInfo[f].uid, Len(ring), talk[f].sent)'
  BY <1>1 DEF WillHave, LastOf, NoneOf, Has, HasNone, hashOfKey
<1>2. ASSUME WillHaveNone(u, n)' PROVE WillHaveNone(netInfo[f].uid, Len(ring))'
  BY <1>2 DEF WillHaveNone, LastOf, NoneOf, HasNone, hashOfKey
<1> QED BY <1>1, <1>2 DEF TalkInTurn

LEMMA EventInTurnNext ==
    ASSUME NEW i, NEW u, NEW k, u = ring'[i].uid, k = ring'[i].req,
           ring'[i].kind = "EVT_HRES" => WillHave(u, i - 1, k)',
           ring'[i].kind = "EVT_HREQ" => WillHaveNone(u, i - 1)'
    PROVE  EventInTurn(i)'
<1>1. ASSUME WillHave(u, i - 1, k)' PROVE WillHave(ring[i].uid, i - 1, ring[i].req)'
  BY <1>1 DEF WillHave, LastOf, NoneOf, Has, HasNone, hashOfKey
<1>2. ASSUME WillHaveNone(u, i - 1)' PROVE WillHaveNone(ring[i].uid, i - 1)'
  BY <1>2 DEF WillHaveNone, LastOf, NoneOf, HasNone, hashOfKey
<1> QED BY <1>1, <1>2 DEF EventInTurn

\* Only the socket of a closed descriptor that the ring says nothing of may lose
\* its item, and the ring drops more events, never fewer.
StoreKeeps ==
    /\ \A v \in Uids : (Dead(v) /\ Silent(v)) \/ Kept(v)
    /\ hist.dropped \subseteq hist'.dropped

\* The events that stay in the ring stay in turn, ...
LEMMA EventsStayInTurn ==
    ASSUME SilenceInv, PairInv, StoreKeeps, NEW i \in 1 .. Len(ring),
           \A l \in 1 .. Len(ring) : ring'[l] = ring[l], ring'[i].uid \notin hist'.dropped
    PROVE  EventInTurn(i)'
<1>1. TypeOK BY DEF SilenceInv
<1>2. Len(ring) \in Nat /\ ring[i] \in Event BY <1>1, EventTypes
<1>3. PICK u : u = ring[i].uid OBVIOUS
<1>4. PICK k : k = ring[i].req OBVIOUS
<1>5. u \in Uids /\ k \in Nat BY <1>2, <1>3, <1>4, HttpMatchAssumption DEF Event
<1>6. ring'[i] = ring[i] /\ u \notin hist.dropped BY <1>3 DEF StoreKeeps
<1>7. EventInTurn(i) BY <1>3, <1>6 DEF PairInv
<1>8. Kept(u) BY <1>3, <1>5 DEF StoreKeeps, Silent
<1>9. i - 1 \in Nat /\ \A l \in 1 .. i - 1 : ring'[l] = ring[l] BY <1>2
<1>10. /\ WillHave(u, i - 1, k) => WillHave(u, i - 1, k)'
       /\ WillHaveNone(u, i - 1) => WillHaveNone(u, i - 1)'
  BY <1>5, <1>8, <1>9, PrefixStays
<1>11. /\ ring'[i].kind = "EVT_HRES" => WillHave(u, i - 1, k)'
       /\ ring'[i].kind = "EVT_HREQ" => WillHaveNone(u, i - 1)'
  BY <1>3, <1>4, <1>6, <1>7, <1>10 DEF EventInTurn
<1> QED BY <1>3, <1>4, <1>6, <1>11, EventInTurnNext

\* ... and what a socket posts next is in turn among them.
LEMMA TalkStaysInTurn ==
    ASSUME SilenceInv, PairInv, StoreKeeps, NEW f \in Fds, NEW u, NEW n, NEW k,
           u = netInfo[f].uid, n = Len(ring), k = talk[f].sent,
           \A l \in 1 .. Len(ring) : ring'[l] = ring[l], netInfo[f].active, u \notin hist'.dropped
    PROVE  /\ u \in Uids /\ n \in Nat /\ k \in Nat
           /\ talk[f].phase = "asked" => WillHave(u, n, k)'
           /\ talk[f].phase = "idle" => WillHaveNone(u, n)'
<1>1. TypeOK BY DEF SilenceInv
<1>2. n \in Nat BY <1>1, EventTypes
<1>3. u \in Uids /\ talk[f].sent \in 0 .. MaxReq BY PostedEvents
<1>4. k \in Nat BY <1>3, HttpMatchAssumption
<1>5. Kept(u) BY <1>3 DEF StoreKeeps, Dead
<1>6. TalkInTurn(f) BY DEF PairInv, StoreKeeps
<1>7. /\ WillHave(u, n, k) => WillHave(u, n, k)'
      /\ WillHaveNone(u, n) => WillHaveNone(u, n)'
  BY <1>2, <1>4, <1>5, PrefixStays
<1> QED BY <1>2, <1>3, <1>4, <1>6, <1>7 DEF TalkInTurn

\* A step that posts nothing and consumes nothing.
LEMMA QuietStep ==
    ASSUME SilenceInv, PairInv, StoreKeeps, ring' = ring, PairedUnlessDropped',
           \A f \in Fds : netInfo'[f].active /\ netInfo'[f].uid \notin hist'.dropped =>
               \/ netInfo[f].active /\ netInfo'[f].uid = netInfo[f].uid /\ talk'[f] = talk[f]
               \/ TalkInTurn(f)'
    PROVE  PairInv'
<1>1. \A i \in 1 .. Len(ring') : ring'[i].uid \notin hist'.dropped => EventInTurn(i)'
  BY EventsStayInTurn
<1>2. ASSUME NEW f \in Fds, netInfo'[f].active, netInfo'[f].uid \notin hist'.dropped
      PROVE  TalkInTurn(f)'
  <2>1. CASE netInfo[f].active /\ netInfo'[f].uid = netInfo[f].uid /\ talk'[f] = talk[f]
    <3>1. PICK u : u = netInfo[f].uid OBVIOUS
    <3>2. PICK n : n = Len(ring) OBVIOUS
    <3>3. PICK k : k = talk[f].sent OBVIOUS
    <3>4. /\ talk[f].phase = "asked" => WillHave(u, n, k)'
          /\ talk[f].phase = "idle" => WillHaveNone(u, n)'
      BY <1>2, <2>1, <3>1, <3>2, <3>3, TalkStaysInTurn
    <3>5. u = netInfo'[f].uid /\ n = Len(ring') /\ k = talk'[f].sent /\ talk'[f].phase = talk[f].phase
      BY <2>1, <3>1, <3>2, <3>3
    <3> QED BY <3>4, <3>5, TalkInTurnNext
  <2> QED BY <1>2, <2>1
<1> QED BY <1>1, <1>2 DEF PairInv

\* The store, what was dropped and what was reported are as they were.
LEMMA StoreUntouchedKeeps ==
    ASSUME SilenceInv, PairInv, hashTable' = hashTable, hist' = hist
    PROVE  StoreKeeps /\ PairedUnlessDropped'
<1>1. \A v \in Uids : SameOf(v) BY NothingChanges DEF SilenceInv
<1>2. \A v \in Uids : Kept(v) BY <1>1, SameIsKept
<1>3. PairedUnlessDropped' BY DEF PairInv, PairedUnlessDropped
<1> QED BY <1>2, <1>3 DEF StoreKeeps

LEMMA PostKeepsPair ==
    ASSUME SilenceInv, PairInv, NEW f \in Fds, netInfo[f].active, NEW e \in Event,
           e.uid = netInfo[f].uid, Post(e),
           \A g \in Fds : g # f => talk'[g] = talk[g],
           e.kind = "EVT_HREQ" => talk[f].phase = "idle",
           e.kind = "EVT_HRES" => talk[f].phase = "asked" /\ e.req = talk[f].sent,
           talk'[f].phase = "asked" => e.kind = "EVT_HREQ" /\ e.req = talk'[f].sent,
           talk'[f].phase = "idle" => e.kind = "EVT_HRES",
           UNCHANGED <<netInfo, hashTable>>
    PROVE  PairInv'
<1>1. TypeOK /\ SocketsOK /\ Filed BY DEF SilenceInv
<1>2. CASE ring' = ring /\ e.uid \in hist'.dropped /\ hist'.expired = hist.expired
           /\ hist'.cut = hist.cut /\ hist'.reported = hist.reported
           /\ hist.dropped \subseteq hist'.dropped
  <2>1. \A v \in Uids : SameOf(v) BY <1>1, NothingChanges
  <2>2. \A v \in Uids : Kept(v) BY <1>2, <2>1, SameIsKept
  <2>3. StoreKeeps BY <1>2, <2>2 DEF StoreKeeps
  <2>4. PairedUnlessDropped' BY <1>2 DEF PairInv, PairedUnlessDropped
  <2>5. \A g \in Fds : netInfo'[g].active /\ netInfo'[g].uid \notin hist'.dropped =>
            netInfo[g].active /\ netInfo'[g].uid = netInfo[g].uid /\ talk'[g] = talk[g]
    BY <1>2
  <2> QED BY <1>2, <2>3, <2>4, <2>5, QuietStep
<1>3. CASE /\ hist' = hist /\ Len(ring') = Len(ring) + 1 /\ ring'[Len(ring) + 1] = e
           /\ \A i \in 1 .. Len(ring) : ring'[i] = ring[i]
  <2>1. StoreKeeps /\ PairedUnlessDropped' BY <1>3, StoreUntouchedKeeps
  <2>2. Len(ring) \in Nat BY <1>1, EventTypes
  <2>3. PICK n \in Nat : n = Len(ring) BY <2>2
  <2>4. PICK u : u = netInfo[f].uid OBVIOUS
  <2>5. PICK k : k = talk[f].sent OBVIOUS
  <2>6. ASSUME u \notin hist'.dropped
        PROVE  /\ talk[f].phase = "asked" => WillHave(u, n, k)'
               /\ talk[f].phase = "idle" => WillHaveNone(u, n)'
    BY <1>3, <2>1, <2>3, <2>4, <2>5, <2>6, TalkStaysInTurn
  <2>7. ASSUME NEW i \in 1 .. Len(ring'), ring'[i].uid \notin hist'.dropped PROVE EventInTurn(i)'
    <3>1. CASE i \in 1 .. Len(ring) BY <1>3, <2>1, <2>7, <3>1, EventsStayInTurn
    <3>2. CASE i = Len(ring) + 1
      <4>1. ring'[i] = e /\ e.uid = u /\ i - 1 = n BY <1>3, <2>3, <2>4, <3>2
      <4>2. u \notin hist'.dropped BY <2>7, <4>1
      <4>3. PICK d : d = e.req OBVIOUS
      <4>4. e.kind = "EVT_HRES" => d = k BY <2>5, <4>3
      <4>5. ring'[i].kind = "EVT_HRES" => WillHave(u, i - 1, d)' BY <2>6, <4>1, <4>2, <4>4
      <4>6. ring'[i].kind = "EVT_HREQ" => WillHaveNone(u, i - 1)' BY <2>6, <4>1, <4>2
      <4> QED BY <4>1, <4>3, <4>5, <4>6, EventInTurnNext
    <3> QED BY <1>3, <2>2, <3>1, <3>2
  <2>8. ASSUME NEW g \in Fds, netInfo'[g].active, netInfo'[g].uid \notin hist'.dropped
        PROVE  TalkInTurn(g)'
    <3>1. PICK v : v = netInfo'[g].uid OBVIOUS
    <3>2. PICK m : m = Len(ring') OBVIOUS
    <3>3. PICK d : d = talk'[g].sent OBVIOUS
    <3>4. m = n + 1 /\ ring'[n + 1] = e BY <1>3, <2>3, <3>2
    <3>5. CASE g = f
      <4>1. /\ e.kind = "EVT_HREQ" => WillHave(e.uid, n + 1, e.req)'
            /\ e.kind = "EVT_HRES" => WillHaveNone(e.uid, n + 1)'
        BY <3>4, OwnAppended
      <4>2. e.uid = v BY <3>1, <3>5
      <4>3. talk'[g].phase = "asked" => WillHave(v, m, d)' BY <3>3, <3>4, <3>5, <4>1, <4>2
      <4>4. talk'[g].phase = "idle" => WillHaveNone(v, m)' BY <3>4, <3>5, <4>1, <4>2
      <4> QED BY <3>1, <3>2, <3>3, <4>3, <4>4, TalkInTurnNext
    <3>6. CASE g # f
      <4>1. v = netInfo[g].uid /\ netInfo[g].active /\ d = talk[g].sent /\ talk'[g].phase = talk[g].phase
            /\ v \notin hist'.dropped
        BY <2>8, <3>1, <3>3, <3>6
      <4>2. e.uid # v BY <1>1, <3>6, <4>1 DEF SocketsOK
      <4>3. /\ v \in Uids /\ n \in Nat /\ d \in Nat
            /\ talk[g].phase = "asked" => WillHave(v, n, d)'
            /\ talk[g].phase = "idle" => WillHaveNone(v, n)'
        BY <1>3, <2>1, <2>3, <4>1, TalkStaysInTurn
      <4>4. /\ WillHave(v, n, d)' => WillHave(v, n + 1, d)'
            /\ WillHaveNone(v, n)' => WillHaveNone(v, n + 1)'
        BY <3>4, <4>2, <4>3, OtherAppended
      <4>5. /\ talk'[g].phase = "asked" => WillHave(v, m, d)'
            /\ talk'[g].phase = "idle" => WillHaveNone(v, m)'
        BY <3>4, <4>1, <4>3, <4>4
      <4> QED BY <3>1, <3>2, <3>3, <4>5, TalkInTurnNext
    <3> QED BY <3>5, <3>6
  <2> QED BY <2>1, <2>7, <2>8 DEF PairInv
<1> QED BY <1>1, <1>2, <1>3, PostFacts

LEMMA RequestKeepsPair ==
    ASSUME SilenceInv, PairInv, NEW f \in Fds, Request(f)
    PROVE  PairInv'
<1> DEFINE e == [kind |-> "EVT_HREQ", uid |-> netInfo[f].uid, fd |-> f, req |-> talk[f].sent + 1]
<1>1. /\ netInfo[f].active /\ talk[f].phase = "idle" /\ talk[f].sent < MaxReq /\ Post(e)
      /\ UNCHANGED <<netInfo, hashTable>>
      /\ talk' = [talk EXCEPT ![f] = [phase |-> "asked", sent |-> talk[f].sent + 1]]
  BY DEF Request, storeVars
<1>2. e \in Event BY <1>1, PostedEvents
<1>3. talk \in [Fds -> [phase : {"idle", "asked", "closing"}, sent : 0 .. MaxReq]] BY DEF SilenceInv, TypeOK
<1>4. /\ talk'[f].phase = "asked" /\ talk'[f].sent = talk[f].sent + 1
      /\ \A g \in Fds : g # f => talk'[g] = talk[g]
  BY <1>1, <1>3
<1>5. e.kind = "EVT_HREQ" /\ e.uid = netInfo[f].uid /\ e.req = talk'[f].sent BY <1>4
<1> HIDE DEF e
<1> QED BY <1>1, <1>2, <1>4, <1>5, PostKeepsPair

LEMMA ResponseKeepsPair ==
    ASSUME SilenceInv, PairInv, NEW f \in Fds, Response(f)
    PROVE  PairInv'
<1> DEFINE e == [kind |-> "EVT_HRES", uid |-> netInfo[f].uid, fd |-> f, req |-> talk[f].sent]
<1>1. /\ netInfo[f].active /\ talk[f].phase = "asked" /\ Post(e)
      /\ UNCHANGED <<netInfo, hashTable>> /\ talk' = [talk EXCEPT ![f].phase = "idle"]
  BY DEF Response, storeVars
<1>2. e \in Event BY <1>1, PostedEvents
<1>3. talk \in [Fds -> [phase : {"idle", "asked", "closing"}, sent : 0 .. MaxReq]] BY DEF SilenceInv, TypeOK
<1>4. talk'[f].phase = "idle" /\ \A g \in Fds : g # f => talk'[g] = talk[g] BY <1>1, <1>3
<1>5. e.kind = "EVT_HRES" /\ e.uid = netInfo[f].uid /\ e.req = talk[f].sent OBVIOUS
<1> HIDE DEF e
<1> QED BY <1>1, <1>2, <1>4, <1>5, PostKeepsPair

LEMMA doCloseKeepsPair ==
    ASSUME SilenceInv, PairInv, NEW f \in Fds, doClose(f)
    PROVE  PairInv'
<1> DEFINE e == [kind |-> "CONNECTION_DURATION", uid |-> netInfo[f].uid, fd |-> f, req |-> 0]
<1>1. /\ netInfo[f].active /\ Post(e)
      /\ UNCHANGED <<netInfo, hashTable>> /\ talk' = [talk EXCEPT ![f].phase = "closing"]
  BY DEF doClose, storeVars
<1>2. e \in Event BY <1>1, PostedEvents
<1>3. talk \in [Fds -> [phase : {"idle", "asked", "closing"}, sent : 0 .. MaxReq]] BY DEF SilenceInv, TypeOK
<1>4. talk'[f].phase = "closing" /\ \A g \in Fds : g # f => talk'[g] = talk[g] BY <1>1, <1>3
<1>5. e.kind = "CONNECTION_DURATION" /\ e.uid = netInfo[f].uid OBVIOUS
<1> HIDE DEF e
<1> QED BY <1>1, <1>2, <1>4, <1>5, PostKeepsPair

LEMMA doCloseInactiveKeepsPair ==
    ASSUME SilenceInv, PairInv, NEW f \in Fds, doCloseInactive(f)
    PROVE  PairInv'
<1>1. /\ netInfo' = [netInfo EXCEPT ![f].active = FALSE] /\ talk' = [talk EXCEPT ![f].phase = "idle"]
      /\ UNCHANGED <<ring, hashTable, hist>>
  BY DEF doCloseInactive, storeVars
<1>2. /\ netInfo \in [Fds -> [uid : 0 .. MaxUid, active : BOOLEAN]]
      /\ talk \in [Fds -> [phase : {"idle", "asked", "closing"}, sent : 0 .. MaxReq]]
  BY DEF SilenceInv, TypeOK
<1>3. ~netInfo'[f].active /\ \A g \in Fds : g # f => netInfo'[g] = netInfo[g] /\ talk'[g] = talk[g]
  BY <1>1, <1>2
<1>4. StoreKeeps /\ PairedUnlessDropped' BY <1>1, StoreUntouchedKeeps
<1> QED BY <1>1, <1>3, <1>4, QuietStep

\* A new socket has no event and no item.
LEMMA addSockKeepsPair ==
    ASSUME SilenceInv, PairInv, NEW f \in Fds, addSock(f)
    PROVE  PairInv'
<1>1. TypeOK /\ EventsOK /\ ItemsOK BY DEF SilenceInv
<1>2. /\ lastUid < MaxUid /\ netInfo' = [netInfo EXCEPT ![f] = [uid |-> lastUid + 1, active |-> TRUE]]
      /\ talk' = [talk EXCEPT ![f] = [phase |-> "idle", sent |-> 0]]
      /\ UNCHANGED <<ring, hashTable, hist>>
  BY DEF addSock, storeVars
<1>3. /\ netInfo \in [Fds -> [uid : 0 .. MaxUid, active : BOOLEAN]]
      /\ talk \in [Fds -> [phase : {"idle", "asked", "closing"}, sent : 0 .. MaxReq]]
      /\ lastUid \in 0 .. MaxUid /\ MaxUid \in Nat /\ MaxReq \in Nat
  BY <1>1, HttpMatchAssumption DEF TypeOK
<1>4. /\ netInfo'[f].uid = lastUid + 1 /\ talk'[f].phase = "idle" /\ talk'[f].sent = 0
      /\ \A g \in Fds : g # f => netInfo'[g] = netInfo[g] /\ talk'[g] = talk[g]
  BY <1>2, <1>3
<1>5. PICK u : u = lastUid + 1 OBVIOUS
<1>6. u \in Uids /\ ~(u <= lastUid) BY <1>2, <1>3, <1>5 DEF Uids
<1>7. \A i \in 1 .. Len(ring) : ring[i].uid # u BY <1>1, <1>6 DEF EventsOK, EventOK
<1>8. \A h \in Chains : \A i \in 1 .. Len(hashTable[h]) : hashTable[h][i].sockid # u
  BY <1>1, <1>6 DEF ItemsOK, ItemOK
<1>9. HasNone(u)
  <2>1. hashOfKey(u) \in Chains BY <1>1, <1>6, ChainFacts
  <2> QED BY <1>8, <2>1 DEF HasNone
<1>10. HasNone(u)' BY <1>2, <1>9 DEF HasNone, hashOfKey
<1>11. PICK n : n = Len(ring) OBVIOUS
<1>12. NoneOf(u, n)' BY <1>2, <1>7, <1>11 DEF NoneOf
<1>13. WillHaveNone(u, n)' BY <1>10, <1>12 DEF WillHaveNone
<1>14. TalkInTurn(f)' BY <1>2, <1>4, <1>5, <1>11, <1>13, TalkInTurnNext
<1>15. StoreKeeps /\ PairedUnlessDropped' BY <1>2, StoreUntouchedKeeps
<1> QED BY <1>2, <1>4, <1>14, <1>15, QuietStep

\* The steps of the reporter that handle no event.
LEMMA LoopKeepsPair ==
    ASSUME SilenceInv, PairInv, UNCHANGED <<sockVars, ring, hashTable, hist>>
    PROVE  PairInv'
<1>1. StoreKeeps /\ PairedUnlessDropped' BY StoreUntouchedKeeps
<1> QED BY <1>1, QuietStep DEF sockVars

LEMMA ExpireKeepKeepsPair ==
    ASSUME SilenceInv, PairInv, ExpireKeep
    PROVE  PairInv'
<1>1. UNCHANGED <<sockVars, ring, hist>> BY DEF ExpireKeep
<1>2. \A v \in Uids : SameOf(v) BY KeepFacts DEF SilenceInv
<1>3. \A v \in Uids : Kept(v) BY <1>1, <1>2, SameIsKept
<1>4. StoreKeeps BY <1>1, <1>3 DEF StoreKeeps
<1>5. PairedUnlessDropped' BY <1>1 DEF PairInv, PairedUnlessDropped
<1> QED BY <1>1, <1>4, <1>5, QuietStep DEF sockVars

LEMMA ExpireFreeKeepsPair ==
    ASSUME SilenceInv, PairInv, ExpireFree
    PROVE  PairInv'
<1>1. UNCHANGED <<sockVars, ring>> BY DEF ExpireFree
<1>2. /\ hist'.dropped = hist.dropped /\ hist'.reported = hist.reported /\ hist.cut \subseteq hist'.cut
  BY FreeHist
<1>3. \A v \in Uids : v # Current.sockid => SameOf(v) \/ (HasNone(v)' /\ v \in hist'.cut)
  BY FreeFacts DEF SilenceInv
<1>4. ASSUME NEW v \in Uids PROVE (Dead(v) /\ Silent(v)) \/ Kept(v)
  <2>1. CASE v = Current.sockid BY <2>1, FreedIsSilent
  <2>2. CASE SameOf(v) BY <1>2, <2>2 DEF SameOf, Kept
  <2>3. CASE HasNone(v)' /\ v \in hist'.cut BY <2>3 DEF Kept
  <2> QED BY <1>3, <2>1, <2>2, <2>3
<1>5. StoreKeeps BY <1>2, <1>4 DEF StoreKeeps
<1>6. PairedUnlessDropped' BY <1>2 DEF PairInv, PairedUnlessDropped
<1> QED BY <1>1, <1>5, <1>6, QuietStep DEF sockVars

\* storeGet returns what the store has of a socket.
LEMMA storeGetFacts ==
    ASSUME TypeOK, Filed, NEW u \in Uids
    PROVE  /\ HasNone(u) => storeGet(u) = NoRequest
           /\ \A k \in Nat : Has(u, k) => storeGet(u) = k
<1>1. hashOfKey(u) \in Chains BY ChainFacts
<1>2. ASSUME HasNone(u) PROVE storeGet(u) = NoRequest
  <2>1. Find(u) = 0 BY <1>2, FindFacts DEF HasNone
  <2> QED BY <2>1 DEF storeGet
<1>3. ASSUME NEW k \in Nat, Has(u, k) PROVE storeGet(u) = k
  <2>1. PICK i \in 1 .. Len(hashTable[hashOfKey(u)]) :
            hashTable[hashOfKey(u)][i].sockid = u /\ hashTable[hashOfKey(u)][i].data = k
    BY <1>3 DEF Has
  <2>2. ~HasNone(u) BY <2>1 DEF HasNone
  <2>3. /\ Find(u) # 0 /\ Find(u) \in 1 .. Len(hashTable[hashOfKey(u)])
        /\ hashTable[hashOfKey(u)][Find(u)].sockid = u
    BY <2>2, FindFacts
  <2>4. Find(u) = i BY <1>1, <2>1, <2>3, FiledFacts
  <2> QED BY <2>1, <2>3, <2>4 DEF storeGet
<1> QED BY <1>2, <1>3

LEMMA doEventGetKeepsPair ==
    ASSUME SilenceInv, PairInv, doEventGet
    PROVE  PairInv'
<1>1. TypeOK /\ Filed BY DEF SilenceInv
<1>2. UNCHANGED sockVars BY DEF doEventGet
<1>3. PICK e : e = Head(ring) OBVIOUS
<1>4. /\ e \in Event /\ e = ring[1] /\ Len(ring) \in Nat \ {0} /\ EventOK(e)
      /\ \A v \in Uids : v # e.uid => SameOf(v)
      /\ e.kind = "EVT_HREQ" /\ HasNone(e.uid) => Has(e.uid, e.req)'
      /\ e.kind # "EVT_HREQ" => HasNone(e.uid)'
  BY <1>3, GetStore
<1>5. /\ Len(ring') = Len(ring) - 1 /\ \A i \in 1 .. Len(ring) - 1 : ring'[i] = ring[i + 1]
  BY GetRing
<1>6. /\ hist'.dropped = hist.dropped /\ hist'.cut = hist.cut
      /\ \/ hist'.reported = hist.reported
         \/ /\ e.kind = "EVT_HRES"
            /\ hist'.reported = hist.reported \cup {<<e.uid, e.req, storeGet(e.uid)>>}
  BY <1>3, GetHist
<1>7. e.uid \in Uids /\ e.req \in Nat BY <1>4, HttpMatchAssumption DEF Event
<1>8. ASSUME e.uid \notin hist.dropped
      PROVE  /\ e.kind = "EVT_HRES" => Has(e.uid, e.req) \/ (HasNone(e.uid) /\ e.uid \in hist.cut)
             /\ e.kind = "EVT_HREQ" => HasNone(e.uid)
  <2>1. 1 \in 1 .. Len(ring) BY <1>4
  <2>2. EventInTurn(1) BY <1>4, <1>8, <2>1 DEF PairInv
  <2>3. 1 - 1 = 0 /\ 1 .. 0 = {} OBVIOUS
  <2>4. ~\E j \in 1 .. 0 : TRUE BY <2>3
  <2>5. /\ e.kind = "EVT_HRES" => WillHave(e.uid, 0, e.req)
        /\ e.kind = "EVT_HREQ" => WillHaveNone(e.uid, 0)
    BY <1>4, <2>2, <2>3 DEF EventInTurn
  <2> QED BY <2>4, <2>5 DEF WillHave, WillHaveNone
<1>9. PairedUnlessDropped'
  <2> SUFFICES ASSUME NEW r \in hist'.reported, r[1] \notin hist'.dropped
               PROVE  r[3] = r[2] \/ (r[3] = NoRequest /\ r[1] \in hist'.cut)
    BY DEF PairedUnlessDropped
  <2>1. CASE r \in hist.reported BY <1>6, <2>1 DEF PairInv, PairedUnlessDropped
  <2>2. CASE e.kind = "EVT_HRES" /\ r = <<e.uid, e.req, storeGet(e.uid)>>
    <3>1. r[1] = e.uid /\ r[2] = e.req /\ r[3] = storeGet(e.uid) BY <2>2
    <3>2. Has(e.uid, e.req) \/ (HasNone(e.uid) /\ e.uid \in hist.cut) BY <1>6, <1>8, <2>2, <3>1
    <3>3. storeGet(e.uid) = e.req \/ (storeGet(e.uid) = NoRequest /\ e.uid \in hist.cut)
      BY <1>1, <1>7, <3>2, storeGetFacts
    <3> QED BY <1>6, <3>1, <3>3
  <2> QED BY <1>6, <2>1, <2>2
<1>10. ASSUME NEW u \in Uids, u \notin hist.dropped, NEW i \in 1 .. Len(ring), NEW k \in Nat
       PROVE  /\ WillHave(u, i, k) => WillHave(u, i - 1, k)'
              /\ WillHaveNone(u, i) => WillHaveNone(u, i - 1)'
  <2>1. \A l \in 1 .. i - 1 : ring'[l] = ring[l + 1] BY <1>4, <1>5
  <2>2. e.uid # u => SameOf(u) BY <1>4
  <2>3. ASSUME e.uid = u
        PROVE  /\ e.kind = "EVT_HREQ" => Has(e.uid, e.req)'
               /\ e.kind = "EVT_HRES" => HasNone(e.uid)'
    BY <1>4, <1>8, <1>10, <2>3
  <2>4. ASSUME e.uid = u
        PROVE  /\ e.kind = "EVT_HREQ" => Has(u, e.req)'
               /\ e.kind = "EVT_HRES" => HasNone(u)'
    BY <2>3, <2>4
  <2>5. i \in Nat \ {0} BY <1>4
  <2> QED BY <1>4, <1>6, <2>1, <2>2, <2>4, <2>5, FirstHandled
<1>11. ASSUME NEW i \in 1 .. Len(ring'), ring'[i].uid \notin hist'.dropped PROVE EventInTurn(i)'
  <2>1. i \in Nat /\ i + 1 \in 1 .. Len(ring) /\ (i + 1) - 1 = i /\ ring'[i] = ring[i + 1] /\ i \in 1 .. Len(ring)
    BY <1>4, <1>5
  <2>2. PICK u : u = ring'[i].uid OBVIOUS
  <2>3. PICK k : k = ring'[i].req OBVIOUS
  <2>4. ring[i + 1] \in Event BY <1>1, <2>1, EventTypes
  <2>5. u \in Uids /\ k \in Nat BY <2>1, <2>2, <2>3, <2>4, HttpMatchAssumption DEF Event
  <2>6. EventInTurn(i + 1) BY <1>6, <1>11, <2>1 DEF PairInv
  <2>7. /\ ring'[i].kind = "EVT_HRES" => WillHave(u, i, k)
        /\ ring'[i].kind = "EVT_HREQ" => WillHaveNone(u, i)
    BY <2>1, <2>2, <2>3, <2>6 DEF EventInTurn
  <2>8. /\ WillHave(u, i, k) => WillHave(u, i - 1, k)'
        /\ WillHaveNone(u, i) => WillHaveNone(u, i - 1)'
    BY <1>6, <1>10, <1>11, <2>1, <2>2, <2>5
  <2> QED BY <2>2, <2>3, <2>7, <2>8, EventInTurnNext
<1>12. ASSUME NEW f \in Fds, netInfo'[f].active, netInfo'[f].uid \notin hist'.dropped PROVE TalkInTurn(f)'
  <2>1. netInfo' = netInfo /\ talk' = talk BY <1>2 DEF sockVars
  <2>2. PICK u : u = netInfo[f].uid OBVIOUS
  <2>3. PICK n : n = Len(ring) OBVIOUS
  <2>4. PICK k : k = talk[f].sent OBVIOUS
  <2>5. u \in Uids /\ talk[f].sent \in 0 .. MaxReq BY <1>12, <2>1, <2>2, PostedEvents
  <2>6. k \in Nat /\ n \in 1 .. Len(ring) BY <1>4, <2>3, <2>4, <2>5, HttpMatchAssumption
  <2>7. u \notin hist.dropped /\ TalkInTurn(f) BY <1>6, <1>12, <2>1, <2>2 DEF PairInv
  <2>8. /\ talk[f].phase = "asked" => WillHave(u, n, k)
        /\ talk[f].phase = "idle" => WillHaveNone(u, n)
    BY <2>2, <2>3, <2>4, <2>7 DEF TalkInTurn
  <2>9. /\ WillHave(u, n, k) => WillHave(u, n - 1, k)'
        /\ WillHaveNone(u, n) => WillHaveNone(u, n - 1)'
    BY <1>10, <2>5, <2>6, <2>7
  <2>10. PICK m : m = n - 1 OBVIOUS
  <2>11. /\ talk'[f].phase = "asked" => WillHave(u, m, k)'
         /\ talk'[f].phase = "idle" => WillHaveNone(u, m)'
    BY <2>1, <2>8, <2>9, <2>10
  <2> QED BY <1>5, <2>1, <2>2, <2>3, <2>4, <2>10, <2>11, TalkInTurnNext
<1> QED BY <1>9, <1>11, <1>12 DEF PairInv

LEMMA NextKeepsPair ==
    ASSUME SilenceInv, PairInv, [Next]_vars
    PROVE  PairInv'
<1>1. CASE UNCHANGED vars BY <1>1, LoopKeepsPair DEF vars, sockVars
<1>2. ASSUME NEW f \in Fds,
             addSock(f) \/ Request(f) \/ Response(f) \/ doClose(f) \/ doCloseInactive(f)
      PROVE  PairInv'
  BY <1>2, addSockKeepsPair, RequestKeepsPair, ResponseKeepsPair, doCloseKeepsPair,
     doCloseInactiveKeepsPair
<1>3. CASE doEvent \/ doEventEmpty \/ doEventEnd \/ ExpireNext
  <2>1. UNCHANGED <<sockVars, ring, hashTable, hist>>
    BY <1>3 DEF doEvent, doEventEmpty, doEventEnd, ExpireNext, storeVars
  <2> QED BY <2>1, LoopKeepsPair
<1>4. CASE doEventGet BY <1>4, doEventGetKeepsPair
<1>5. CASE ExpireKeep BY <1>5, ExpireKeepKeepsPair
<1>6. CASE ExpireFree BY <1>6, ExpireFreeKeepsPair
<1> QED BY <1>1, <1>2, <1>3, <1>4, <1>5, <1>6 DEF Next, Reporter, storeExpire

\* The inductive invariant of the store holds in every state.
THEOREM HttpMatchInvariant == Spec => []HttpMatchInv
<1>1. Init => HttpMatchInv
  <2> SUFFICES ASSUME Init PROVE PairInv BY InitSilence DEF HttpMatchInv
  <2>1. ring = <<>> /\ hist.reported = {} /\ \A f \in Fds : ~netInfo[f].active BY DEF Init
  <2> QED BY <2>1 DEF PairInv, PairedUnlessDropped
<1>2. HttpMatchInv /\ [Next]_vars => HttpMatchInv' BY NextKeepsSilence, NextKeepsPair DEF HttpMatchInv
<1> QED BY <1>1, <1>2, PTL DEF Spec

\* A response is reported with its own request, if the ring has dropped no event
\* of its socket and storeExpire has not cut its item off.
THEOREM PairedAlways == Spec => []PairedUnlessDropped
<1>1. HttpMatchInv => PairedUnlessDropped BY DEF HttpMatchInv, PairInv
<1> QED BY <1>1, HttpMatchInvariant, PTL

(***************************************************************************)
(* HttpScan: what the scanner keeps between two buffers.                   *)
(***************************************************************************)

\* Less than a frame.
Partial(s) == ~(Len(s) >= FrameHdr /\ Len(s) >= FrameHdr + FrameLen(s))

HttpState == [state : {"NONE", "HDR", "HDREND", "DATA"}, hdr : Seq(Token), clen : Nat,
              isSsl : BOOLEAN, stash : Seq(Token)]

\* What may be kept for one direction of a connection.
StateOK(st) == st \in HttpState /\ Len(st.hdr) <= MaxHdr /\ Partial(st.stash)

\* The inductive invariant: every direction keeps no more than that, and the
\* version, which chooses the parser, is one of the three.
ScanInv ==
    /\ session \in Sessions /\ pos \in [Directions -> Nat] /\ net.version \in 0 .. 2
    /\ http \in [Directions -> HttpState] /\ \A d \in Directions : StateOK(http[d])

LEMMA TokensOK == (\A k \in TokenKinds : Tok(k) \in Token) /\ MaxHdr \in Nat \ {0}
BY HttpScanAssumption DEF Tok, Token

\* A part of a buffer is a buffer.
LEMMA SubSeqFacts ==
    ASSUME NEW S, NEW s \in Seq(S), NEW a \in Nat \ {0}, NEW b \in Int, b <= Len(s)
    PROVE  SubSeq(s, a, b) \in Seq(S) /\ Len(SubSeq(s, a, b)) = IF a <= b THEN b - a + 1 ELSE 0
OBVIOUS

LEMMA ConcatFacts ==
    ASSUME NEW S, NEW s \in Seq(S), NEW t \in Seq(S)
    PROVE  s \o t \in Seq(S) /\ Len(s \o t) = Len(s) + Len(t) /\ Len(s) \in Nat /\ Len(t) \in Nat
OBVIOUS

LEMMA NoneIsOK == StateOK(HTTP_NONE) /\ HTTP_NONE.stash = <<>>
<1>1. HTTP_NONE \in HttpState BY DEF HTTP_NONE, HttpState
<1>2. Len(HTTP_NONE.hdr) = 0 /\ Len(HTTP_NONE.stash) = 0 /\ HTTP_NONE.stash = <<>> BY DEF HTTP_NONE
<1>3. Partial(HTTP_NONE.stash) BY <1>2 DEF Partial, FrameHdr
<1> QED BY <1>1, <1>2, <1>3, TokensOK DEF StateOK

\* appendHeader never takes more than is allocated.
LEMMA AppendHeaderOK ==
    ASSUME NEW st, StateOK(st), NEW s \in Seq(Token)
    PROVE  StateOK(appendHeader(st, s))
<1>1. CASE Len(st.hdr) + Len(s) > MaxHdr BY <1>1, NoneIsOK DEF appendHeader
<1>2. CASE ~(Len(st.hdr) + Len(s) > MaxHdr)
  <2>1. st \in HttpState /\ st.hdr \in Seq(Token) BY DEF StateOK, HttpState
  <2>2. PICK t : t = st.hdr \o s OBVIOUS
  <2>3. t \in Seq(Token) /\ Len(t) = Len(st.hdr) + Len(s) /\ Len(st.hdr) \in Nat /\ Len(s) \in Nat
    BY <2>1, <2>2, ConcatFacts
  <2>4. Len(t) <= MaxHdr BY <1>2, <2>3, TokensOK
  <2>5. appendHeader(st, s) = [st EXCEPT !.hdr = t] BY <1>2, <2>2 DEF appendHeader
  <2>6. PICK x : x = [st EXCEPT !.hdr = t] OBVIOUS
  <2>7. x \in HttpState /\ x.hdr = t /\ x.stash = st.stash BY <2>1, <2>3, <2>6 DEF HttpState
  <2>8. Partial(x.stash) BY <2>7 DEF StateOK
  <2> QED BY <2>4, <2>5, <2>6, <2>7, <2>8 DEF StateOK
<1> QED BY <1>1, <1>2

\* An announced length is a number, or -1.
LEMMA ContentLengthOK ==
    ASSUME NEW hdr \in Seq(Token)
    PROVE  getContentLength(hdr) \in Int /\ (getContentLength(hdr) # -1 => getContentLength(hdr) \in Nat)
<1> DEFINE at == {i \in DOMAIN hdr : hdr[i].k = "clen" /\ i - 2 \in Matches(HTTP_END, hdr)}
<1>1. getContentLength(hdr) = IF at = {} \/ hdr[Min(at)].v = 0 THEN -1 ELSE hdr[Min(at)].v
  BY DEF getContentLength
<1>2. at \in SUBSET Nat /\ at \subseteq 1 .. Len(hdr) OBVIOUS
<1> HIDE DEF at
<1>3. CASE at = {} BY <1>1, <1>3
<1>4. CASE at # {}
  <2>1. Min(at) \in 1 .. Len(hdr) BY <1>2, <1>4, MinIsIn
  <2>2. hdr[Min(at)] \in Token BY <2>1
  <2>3. hdr[Min(at)].v \in Nat BY <2>2 DEF Token
  <2> QED BY <1>1, <2>3
<1> QED BY <1>3, <1>4

LEMMA Http1EndOK ==
    ASSUME NEW st, StateOK(st), NEW content \in Int
    PROVE  StateOK(Http1End(st, content).st)
<1>1. PICK done : done = appendHeader(st, <<Tok("NUL")>>) OBVIOUS
<1>2. PICK clen : clen = getContentLength(done.hdr) OBVIOUS
<1>3. <<Tok("NUL")>> \in Seq(Token)
  <2>1. "NUL" \in TokenKinds BY DEF TokenKinds
  <2>2. Tok("NUL") \in Token BY <2>1, TokensOK, Zenon
  <2>3. PICK t \in Token : t = Tok("NUL") BY <2>2
  <2>4. <<t>> \in Seq(Token) OBVIOUS
  <2> QED BY <2>3, <2>4
<1>4. StateOK(done) BY <1>1, <1>3, AppendHeaderOK
<1>5. done \in HttpState /\ done.hdr \in Seq(Token) BY <1>4 DEF StateOK, HttpState
<1>6. clen \in Int /\ (clen # -1 => clen \in Nat) BY <1>2, <1>5, ContentLengthOK
<1>7. Http1End(st, content).st =
          IF clen # -1 /\ clen >= content
          THEN [done EXCEPT !.state = "DATA", !.hdr = <<>>, !.clen = clen - content]
          ELSE HTTP_NONE
  BY <1>1, <1>2 DEF Http1End
<1>8. CASE clen # -1 /\ clen >= content
  <2>1. clen - content \in Nat BY <1>6, <1>8
  <2>2. PICK n : n = clen - content OBVIOUS
  <2>3. PICK x : x = [done EXCEPT !.state = "DATA", !.hdr = <<>>, !.clen = n] OBVIOUS
  <2>4. x \in HttpState /\ x.hdr = <<>> /\ x.stash = done.stash
    <3>1. PICK y : y = [done EXCEPT !.state = "DATA"] OBVIOUS
    <3>2. y \in HttpState /\ y.stash = done.stash BY <1>5, <3>1 DEF HttpState
    <3>3. <<>> \in Seq(Token) OBVIOUS
    <3>4. PICK none \in Seq(Token) : none = <<>> BY <3>3, Zenon
    <3>5. PICK z : z = [y EXCEPT !.hdr = none] OBVIOUS
    <3>6. z \in HttpState /\ z.hdr = none /\ z.stash = y.stash BY <3>2, <3>5 DEF HttpState
    <3>7. x = [z EXCEPT !.clen = n] BY <2>3, <3>1, <3>4, <3>5
    <3> QED BY <2>1, <2>2, <3>2, <3>4, <3>6, <3>7 DEF HttpState
  <2>5. Len(x.hdr) <= MaxHdr /\ Partial(x.stash) BY <1>4, <2>4, TokensOK DEF StateOK
  <2> QED BY <1>7, <1>8, <2>2, <2>3, <2>4, <2>5 DEF StateOK
<1>9. CASE ~(clen # -1 /\ clen >= content) BY <1>7, <1>9, NoneIsOK
<1> QED BY <1>8, <1>9

\* Changing the state of the capture alone.
LEMMA StateChangeOK ==
    ASSUME NEW st, StateOK(st), NEW at \in {"NONE", "HDR", "HDREND", "DATA"}
    PROVE  StateOK([st EXCEPT !.state = at])
<1>1. PICK x : x = [st EXCEPT !.state = at] OBVIOUS
<1>2. x \in HttpState /\ x.hdr = st.hdr /\ x.stash = st.stash BY <1>1 DEF StateOK, HttpState
<1>3. Len(x.hdr) <= MaxHdr /\ Partial(x.stash) BY <1>2 DEF StateOK
<1> QED BY <1>1, <1>2, <1>3 DEF StateOK

LEMMA Http1LinesOK ==
    ASSUME NEW st, StateOK(st), NEW buf \in Seq(Token)
    PROVE  StateOK(Http1Lines(st, buf).st)
<1>1. PICK blank : blank = BlankLines(st, buf) OBVIOUS
<1>2. PICK all : all = appendHeader(st, buf) OBVIOUS
<1>3. PICK part : part = appendHeader(st, SubSeq(buf, 1, Min(blank) - 1)) OBVIOUS
<1>4. PICK to : to = IF Len(buf) - 1 \in Matches(HTTP_END, buf) THEN "HDREND" ELSE "HDR" OBVIOUS
<1>5. Http1Lines(st, buf) =
          IF blank = {}
          THEN Nothing(IF all = HTTP_NONE THEN all ELSE [all EXCEPT !.state = to])
          ELSE IF part = HTTP_NONE THEN Nothing(part)
          ELSE Http1End(part, Len(buf) - Min(blank) - 1)
  BY <1>1, <1>2, <1>3, <1>4 DEF Http1Lines
<1>6. StateOK(all) BY <1>2, AppendHeaderOK
<1>7. CASE blank = {}
  <2>1. to \in {"NONE", "HDR", "HDREND", "DATA"} BY <1>4
  <2>2. StateOK([all EXCEPT !.state = to]) BY <1>6, <2>1, StateChangeOK
  <2>3. PICK x : x = IF all = HTTP_NONE THEN all ELSE [all EXCEPT !.state = to] OBVIOUS
  <2>4. StateOK(x) BY <1>6, <2>2, <2>3
  <2>5. Http1Lines(st, buf).st = x BY <1>5, <1>7, <2>3 DEF Nothing
  <2> QED BY <2>4, <2>5
<1>8. CASE blank # {}
  <2>1. Len(HTTP_END) = 2 BY DEF HTTP_END
  <2>2. blank \subseteq 1 .. Len(buf) - 1 BY <1>1, <2>1 DEF BlankLines, Matches
  <2>3. blank \in SUBSET Nat BY <2>2
  <2>4. Min(blank) \in 1 .. Len(buf) - 1 BY <1>8, <2>2, <2>3, MinIsIn
  <2>5. PICK m : m = Min(blank) OBVIOUS
  <2>6. SubSeq(buf, 1, m - 1) \in Seq(Token) BY <2>4, <2>5, SubSeqFacts
  <2>7. StateOK(part) BY <1>3, <2>5, <2>6, AppendHeaderOK
  <2>8. Len(buf) - Min(blank) - 1 \in Int BY <2>4
  <2>9. StateOK(Http1End(part, Len(buf) - Min(blank) - 1).st) BY <2>7, <2>8, Http1EndOK
  <2>10. Http1Lines(st, buf).st = part \/ Http1Lines(st, buf) = Http1End(part, Len(buf) - Min(blank) - 1)
    BY <1>5, <1>8 DEF Nothing
  <2> QED BY <2>7, <2>9, <2>10
<1> QED BY <1>7, <1>8

LEMMA Http1StartOK ==
    ASSUME NEW st, StateOK(st), NEW buf \in Seq(Token), NEW isSsl \in BOOLEAN
    PROVE  StateOK(Http1Start(st, buf, isSsl).st)
<1>1. PICK x : x = [st EXCEPT !.state = "HDR", !.isSsl = isSsl] OBVIOUS
<1>2. x \in HttpState /\ x.hdr = st.hdr /\ x.stash = st.stash
  <2>1. PICK y : y = [st EXCEPT !.state = "HDR"] OBVIOUS
  <2>2. y \in HttpState /\ y.hdr = st.hdr /\ y.stash = st.stash BY <2>1 DEF StateOK, HttpState
  <2>3. x = [y EXCEPT !.isSsl = isSsl] BY <1>1, <2>1
  <2>4. x.hdr = y.hdr /\ x.stash = y.stash BY <2>2, <2>3 DEF HttpState
  <2>5. x \in HttpState BY <2>2, <2>3 DEF HttpState
  <2> QED BY <2>2, <2>4, <2>5
<1>3. StateOK(x) BY <1>2 DEF StateOK
<1>4. StateOK(Http1Lines(x, buf).st) /\ StateOK(Http1Lines(st, buf).st) BY <1>3, Http1LinesOK
<1>5. \/ Http1Start(st, buf, isSsl).st = st
      \/ Http1Start(st, buf, isSsl) = Http1Lines(x, buf)
      \/ Http1Start(st, buf, isSsl) = Http1Lines(st, buf)
  BY <1>1 DEF Http1Start, Nothing
<1> QED BY <1>4, <1>5

LEMMA parseHttp1OK ==
    ASSUME NEW st, StateOK(st), NEW buf \in Seq(Token), NEW isSsl \in BOOLEAN
    PROVE  StateOK(parseHttp1(st, buf, isSsl).st)
<1>1. st \in HttpState /\ st.clen \in Nat /\ Len(buf) \in Nat BY DEF StateOK, HttpState
<1>2. PICK rest : rest = From(buf, st.clen + 1) OBVIOUS
<1>3. rest \in Seq(Token) BY <1>1, <1>2, SubSeqFacts DEF From
<1>4. /\ StateOK(Http1Start(st, buf, isSsl).st)
      /\ StateOK(Http1Start(HTTP_NONE, rest, isSsl).st)
  BY <1>3, NoneIsOK, Http1StartOK
<1>5. CASE st.clen >= Len(buf) /\ parseHttp1(st, buf, isSsl) = Nothing([st EXCEPT !.clen = st.clen - Len(buf)])
  <2>1. PICK n \in Nat : n = st.clen - Len(buf) BY <1>1, <1>5
  <2>2. PICK x : x = [st EXCEPT !.clen = n] OBVIOUS
  <2>3. x \in HttpState /\ x.hdr = st.hdr /\ x.stash = st.stash BY <1>1, <2>2 DEF HttpState
  <2>4. StateOK(x) BY <2>3 DEF StateOK
  <2>5. parseHttp1(st, buf, isSsl).st = x BY <1>5, <2>1, <2>2 DEF Nothing
  <2> QED BY <2>4, <2>5
<1>6. \/ parseHttp1(st, buf, isSsl) = Nothing(st)
      \/ parseHttp1(st, buf, isSsl) = Http1Start(st, buf, isSsl)
      \/ st.clen >= Len(buf) /\ parseHttp1(st, buf, isSsl) = Nothing([st EXCEPT !.clen = st.clen - Len(buf)])
      \/ parseHttp1(st, buf, isSsl) = Http1Start(HTTP_NONE, rest, isSsl)
  BY <1>2 DEF parseHttp1
<1>7. Nothing(st).st = st BY DEF Nothing
<1> QED BY <1>4, <1>5, <1>6, <1>7

\* What FrameAt looks at: where the next frame would be and what is from there.
LEMMA FramePlace ==
    ASSUME NEW buf, NEW all \in Seq(Token), NEW p \in 0 .. Len(all),
           NEW q, q = p + MagicLen(buf, Len(all) - p), NEW rest, rest = From(all, q + 1),
           NEW n, n = FrameHdr + FrameLen(rest)
    PROVE  /\ rest \in Seq(Token)
           /\ ~(Len(rest) < FrameHdr \/ Len(rest) < n) => q + n \in p + 1 .. Len(all)
           /\ Len(rest) < FrameHdr \/ Len(rest) < n => Partial(rest)
<1>1. Len(all) \in Nat /\ p \in Nat /\ FrameHdr = 3 /\ Len(HTTP2_MAGIC) = 2
  BY DEF FrameHdr, HTTP2_MAGIC
<1>2. q \in p .. Len(all) BY <1>1 DEF MagicLen
<1>3. rest = SubSeq(all, q + 1, Len(all)) /\ q + 1 \in Nat \ {0} BY <1>1, <1>2 DEF From
<1>4. rest \in Seq(Token) /\ Len(rest) = Len(all) - q
  <2>1. PICK a \in Nat \ {0} : a = q + 1 BY <1>3
  <2>2. PICK b \in Int : b = Len(all) /\ b <= Len(all) BY <1>1
  <2>3. rest = SubSeq(all, a, b) BY <1>3, <2>1, <2>2
  <2>4. SubSeq(all, a, b) \in Seq(Token) /\ Len(SubSeq(all, a, b)) = IF a <= b THEN b - a + 1 ELSE 0
    BY <2>2, SubSeqFacts, Zenon
  <2>5. rest \in Seq(Token) /\ Len(rest) = IF a <= b THEN b - a + 1 ELSE 0 BY <2>3, <2>4, Zenon
  <2>6. (IF a <= b THEN b - a + 1 ELSE 0) = Len(all) - q BY <1>1, <1>2, <2>1, <2>2
  <2> QED BY <2>5, <2>6, Zenon
<1>5. ASSUME Len(rest) >= FrameHdr PROVE n \in Nat /\ n >= 3
  <2>1. rest[1] \in Token /\ rest[2] \in Token BY <1>1, <1>4, <1>5
  <2>2. rest[1].v \in Nat /\ rest[2].v \in Nat BY <2>1 DEF Token
  <2>3. PICK x \in Nat, y \in Nat : x = rest[1].v /\ y = rest[2].v BY <2>2
  <2>4. FrameLen(rest) = x * 2 + y BY <2>3 DEF FrameLen, Radix
  <2>5. x * 2 + y \in Nat OBVIOUS
  <2>6. PICK z \in Nat : z = FrameLen(rest) BY <2>4, <2>5
  <2> QED BY <1>1, <2>6
<1>6. ASSUME ~(Len(rest) < FrameHdr), ~(Len(rest) < n) PROVE q + n \in p + 1 .. Len(all)
  <2>1. Len(rest) \in Nat /\ Len(rest) >= FrameHdr BY <1>1, <1>4, <1>6
  <2>2. n \in Nat /\ n >= 3 BY <1>5, <2>1
  <2> QED BY <1>1, <1>2, <1>4, <1>6, <2>1, <2>2
<1>7. ASSUME Len(rest) < FrameHdr \/ Len(rest) < n PROVE Partial(rest)
  <2>1. Len(rest) \in Nat BY <1>4
  <2>2. CASE Len(rest) < FrameHdr BY <1>1, <2>1, <2>2 DEF Partial
  <2>3. CASE ~(Len(rest) < FrameHdr)
    <3>1. Len(rest) >= FrameHdr BY <1>1, <2>1, <2>3
    <3>2. ~(Len(rest) >= n) BY <1>5, <1>7, <2>1, <2>3, <3>1
    <3> QED BY <3>2 DEF Partial
  <2> QED BY <2>2, <2>3
<1> QED BY <1>4, <1>6, <1>7

\* FrameAt asks only for what follows a frame.
LEMMA FrameAtLooksAhead ==
    ASSUME NEW st, NEW buf, NEW all \in Seq(Token), NEW p \in 0 .. Len(all), NEW f, NEW g,
           \A r \in p + 1 .. Len(all) : f[r] = g[r]
    PROVE  FrameAt(st, buf, all, p, f) = FrameAt(st, buf, all, p, g)
<1>1. PICK q : q = p + MagicLen(buf, Len(all) - p) OBVIOUS
<1>2. PICK rest : rest = From(all, q + 1) OBVIOUS
<1>3. PICK n : n = FrameHdr + FrameLen(rest) OBVIOUS
<1>4. ~(Len(rest) < FrameHdr \/ Len(rest) < n) => q + n \in p + 1 .. Len(all)
  BY <1>1, <1>2, <1>3, FramePlace
<1>5. ASSUME NEW h
      PROVE  FrameAt(st, buf, all, p, h) =
                 IF Len(rest) < FrameHdr \/ Len(rest) < n
                 THEN [Nothing(st) EXCEPT !.st.stash = rest]
                 ELSE IF rest[FrameHdr].v = HEADERS
                 THEN [h[q + n] EXCEPT !.posted = <<SubSeq(rest, 1, n)>> \o @]
                 ELSE h[q + n]
  BY <1>1, <1>2, <1>3 DEF FrameAt
<1> QED BY <1>4, <1>5

\* The function that parseHttp2 defines by recursion on the position.
IsFrames(st, buf, all, f) == f = [p \in 0 .. Len(all) |-> FrameAt(st, buf, all, p, f)]

\* It exists: it is made from its end.
LEMMA FramesExist ==
    ASSUME NEW st, NEW buf, NEW all \in Seq(Token)
    PROVE  \E f : IsFrames(st, buf, all, f)
<1>1. PICK N \in Nat : N = Len(all) OBVIOUS
<1> DEFINE Made(f, m) == /\ f = [p \in 0 .. N |-> f[p]]
                         /\ \A p \in m .. N : f[p] = FrameAt(st, buf, all, p, f)
           Missing == {j \in 0 .. N + 1 : ~\E f : Made(f, N + 1 - j)}
<1>2. \E f : Made(f, N + 1 - 0)
  <2>1. PICK f : f = [p \in 0 .. N |-> 0] OBVIOUS
  <2>2. f = [p \in 0 .. N |-> f[p]] BY <2>1
  <2>3. \A p \in N + 1 - 0 .. N : FALSE OBVIOUS
  <2> QED BY <2>2, <2>3
<1>3. ASSUME NEW m \in 0 .. N, NEW f, Made(f, m + 1) PROVE \E g : Made(g, m)
  <2>1. PICK g : g = [f EXCEPT ![m] = FrameAt(st, buf, all, m, f)] OBVIOUS
  <2>2. DOMAIN f = 0 .. N BY <1>3
  <2>3. /\ g = [p \in 0 .. N |-> g[p]] /\ g[m] = FrameAt(st, buf, all, m, f)
        /\ \A p \in 0 .. N : p # m => g[p] = f[p]
    BY <2>1, <2>2
  <2>4. ASSUME NEW p \in m .. N PROVE g[p] = FrameAt(st, buf, all, p, g)
    <3>1. p \in 0 .. Len(all) BY <1>1
    <3>2. \A r \in p + 1 .. Len(all) : f[r] = g[r] BY <1>1, <2>3
    <3>3. FrameAt(st, buf, all, p, f) = FrameAt(st, buf, all, p, g) BY <3>1, <3>2, FrameAtLooksAhead
    <3>4. CASE p = m BY <2>3, <3>3, <3>4
    <3>5. CASE p # m
      <4>1. p \in m + 1 .. N /\ p \in 0 .. N BY <3>5
      <4>2. f[p] = FrameAt(st, buf, all, p, f) BY <1>3, <4>1
      <4>3. g[p] = f[p] BY <2>3, <3>5, <4>1
      <4> QED BY <3>3, <4>2, <4>3
    <3> QED BY <3>4, <3>5
  <2> QED BY <2>3, <2>4
<1>4. Missing = {}
  <2> SUFFICES ASSUME Missing # {} PROVE FALSE OBVIOUS
  <2>1. Missing \in SUBSET Nat OBVIOUS
  <2>2. PICK j \in Missing : \A i \in Missing : j <= i BY <2>1, LeastNumber
  <2>3. j \in 0 .. N + 1 /\ ~\E f : Made(f, N + 1 - j) OBVIOUS
  <2>4. j # 0 BY <1>2, <2>3
  <2>5. j - 1 \in 0 .. N + 1 /\ ~(j <= j - 1) BY <2>3, <2>4
  <2>6. j - 1 \notin Missing BY <2>2, <2>5
  <2>7. \E f : Made(f, N + 1 - (j - 1)) BY <2>5, <2>6
  <2>8. PICK m \in 0 .. N : m = N + 1 - j BY <2>3, <2>4
  <2>9. N + 1 - (j - 1) = m + 1 BY <2>3, <2>8
  <2>10. PICK f : Made(f, m + 1) BY <2>7, <2>9
  <2>11. \E g : Made(g, m) BY <1>3, <2>10
  <2> QED BY <2>3, <2>8, <2>11
<1>5. N + 1 \in 0 .. N + 1 /\ N + 1 - (N + 1) = 0 OBVIOUS
<1>6. \E f : Made(f, N + 1 - (N + 1)) BY <1>4, <1>5
<1>7. PICK f : Made(f, 0) BY <1>5, <1>6
<1>8. \A p \in 0 .. N : f[p] = FrameAt(st, buf, all, p, f) BY <1>7
<1>9. f = [p \in 0 .. N |-> FrameAt(st, buf, all, p, f)] BY <1>7, <1>8
<1>10. IsFrames(st, buf, all, f) BY <1>1, <1>9 DEF IsFrames
<1> QED BY <1>10, Zenon

\* A stash that is less than a frame is the only change of the state.
Stashed(st, x) ==
    \E rest \in Seq(Token) : Partial(rest) /\ x.st = [st EXCEPT !.stash = rest] /\ "st" \in DOMAIN x
                             /\ x = [i \in DOMAIN x |-> x[i]]

LEMMA FrameAtStashes ==
    ASSUME NEW st, NEW buf, NEW all \in Seq(Token), NEW p \in 0 .. Len(all), NEW f,
           \A r \in p + 1 .. Len(all) : Stashed(st, f[r])
    PROVE  Stashed(st, FrameAt(st, buf, all, p, f))
<1>1. PICK q : q = p + MagicLen(buf, Len(all) - p) OBVIOUS
<1>2. PICK rest : rest = From(all, q + 1) OBVIOUS
<1>3. PICK n : n = FrameHdr + FrameLen(rest) OBVIOUS
<1>4. /\ rest \in Seq(Token)
      /\ ~(Len(rest) < FrameHdr \/ Len(rest) < n) => q + n \in p + 1 .. Len(all)
      /\ Len(rest) < FrameHdr \/ Len(rest) < n => Partial(rest)
  BY <1>1, <1>2, <1>3, FramePlace
<1>5. FrameAt(st, buf, all, p, f) =
          IF Len(rest) < FrameHdr \/ Len(rest) < n
          THEN [Nothing(st) EXCEPT !.st.stash = rest]
          ELSE IF rest[FrameHdr].v = HEADERS
          THEN [f[q + n] EXCEPT !.posted = <<SubSeq(rest, 1, n)>> \o @]
          ELSE f[q + n]
  BY <1>1, <1>2, <1>3 DEF FrameAt
<1>6. CASE Len(rest) < FrameHdr \/ Len(rest) < n
  <2>1. PICK x : x = FrameAt(st, buf, all, p, f) OBVIOUS
  <2>2. x = [Nothing(st) EXCEPT !.st.stash = rest] BY <1>5, <1>6, <2>1
  <2>3. PICK new : new = [st EXCEPT !.stash = rest] OBVIOUS
  <2>4. x = [st |-> new, posted |-> <<>>, upgrade |-> FALSE] BY <2>2, <2>3 DEF Nothing
  <2>5. x.st = new /\ "st" \in DOMAIN x /\ x = [i \in DOMAIN x |-> x[i]] BY <2>4
  <2> QED BY <1>4, <1>6, <2>1, <2>3, <2>5 DEF Stashed
<1>7. CASE ~(Len(rest) < FrameHdr \/ Len(rest) < n)
  <2>1. PICK y : y = f[q + n] OBVIOUS
  <2>2. Stashed(st, y) BY <1>4, <1>7, <2>1
  <2>3. PICK x : x = [y EXCEPT !.posted = <<SubSeq(rest, 1, n)>> \o @] OBVIOUS
  <2>4. PICK left \in Seq(Token) :
            Partial(left) /\ y.st = [st EXCEPT !.stash = left] /\ "st" \in DOMAIN y
            /\ y = [i \in DOMAIN y |-> y[i]]
    BY <2>2 DEF Stashed
  <2>5. x.st = y.st /\ "st" \in DOMAIN x /\ x = [i \in DOMAIN x |-> x[i]] BY <2>3, <2>4
  <2>6. Stashed(st, x) BY <2>4, <2>5 DEF Stashed
  <2>7. FrameAt(st, buf, all, p, f) = x \/ FrameAt(st, buf, all, p, f) = y BY <1>5, <1>7, <2>1, <2>3
  <2> QED BY <2>2, <2>6, <2>7
<1> QED BY <1>6, <1>7

LEMMA parseHttp2Stashes ==
    ASSUME NEW st, st.stash \in Seq(Token), NEW buf \in Seq(Token)
    PROVE  Stashed(st, parseHttp2(st, buf))
<1>1. PICK all : all = st.stash \o buf OBVIOUS
<1>2. all \in Seq(Token) BY <1>1, ConcatFacts
<1>3. PICK f : f = CHOOSE g : IsFrames(st, buf, all, g) OBVIOUS
<1>4. f = [p \in 0 .. Len(all) |-> FrameAt(st, buf, all, p, f)]
  <2>1. \E g : IsFrames(st, buf, all, g) BY <1>2, FramesExist, Zenon
  <2>2. IsFrames(st, buf, all, f) BY <1>3, <2>1, Zenon
  <2> QED BY <2>2 DEF IsFrames
<1>5. parseHttp2(st, buf) = f[0] BY <1>1, <1>3 DEF parseHttp2, IsFrames
<1>6. PICK N \in Nat : N = Len(all) BY <1>2
<1> DEFINE Bad == {j \in 0 .. N : ~Stashed(st, f[N - j])}
<1>7. Bad = {}
  <2> SUFFICES ASSUME Bad # {} PROVE FALSE OBVIOUS
  <2>1. Bad \in SUBSET Nat OBVIOUS
  <2>2. PICK j \in Bad : \A i \in Bad : j <= i BY <2>1, LeastNumber
  <2>3. PICK p \in 0 .. N : p = N - j /\ ~Stashed(st, f[p]) OBVIOUS
  <2>4. ASSUME NEW r \in p + 1 .. Len(all) PROVE Stashed(st, f[r])
    <3>1. N - r \in 0 .. N /\ ~(j <= N - r) /\ N - (N - r) = r BY <1>6, <2>3
    <3>2. N - r \notin Bad BY <2>2, <3>1
    <3> QED BY <3>1, <3>2
  <2>5. p \in 0 .. Len(all) BY <1>6
  <2>6. Stashed(st, FrameAt(st, buf, all, p, f)) BY <1>2, <2>4, <2>5, FrameAtStashes
  <2> QED BY <1>4, <2>3, <2>5, <2>6
<1>8. N \in 0 .. N /\ N - N = 0 OBVIOUS
<1> QED BY <1>5, <1>7, <1>8

LEMMA parseHttp2OK ==
    ASSUME NEW st, StateOK(st), NEW buf \in Seq(Token)
    PROVE  StateOK(parseHttp2(st, buf).st)
<1>1. st \in HttpState /\ st.stash \in Seq(Token) BY DEF StateOK, HttpState
<1>2. Stashed(st, parseHttp2(st, buf)) BY <1>1, parseHttp2Stashes
<1>3. PICK rest \in Seq(Token) : Partial(rest) /\ parseHttp2(st, buf).st = [st EXCEPT !.stash = rest]
  BY <1>2 DEF Stashed
<1>4. PICK x : x = [st EXCEPT !.stash = rest] OBVIOUS
<1>5. x \in HttpState /\ x.hdr = st.hdr /\ x.stash = rest BY <1>1, <1>4 DEF HttpState
<1>6. StateOK(x) BY <1>3, <1>5 DEF StateOK
<1> QED BY <1>3, <1>4, <1>6

\* What a call has found so far: the version and a state that is within bounds.
CallOK(r) == r.version \in 0 .. 2 /\ StateOK(r.st)

\* The version is detected, the magic taken off, and one of the parsers called.
LEMMA doHttpBufferOK ==
    ASSUME NEW r, CallOK(r), NEW buf \in Seq(Token), NEW isSsl \in BOOLEAN
    PROVE  CallOK(doHttpBuffer(r, buf, isSsl))
<1>1. PICK detected : detected = IF r.version = 0 THEN DetectVersion(buf) ELSE r.version OBVIOUS
<1>2. PICK rest : rest = IF r.version = 0 /\ detected = 2 THEN From(buf, Len(HTTP2_MAGIC) + 1) ELSE buf
  OBVIOUS
<1>3. PICK parsed : parsed = IF rest = <<>> \/ detected = 0 THEN Nothing(r.st)
                             ELSE IF detected = 1 THEN parseHttp1(r.st, rest, isSsl)
                             ELSE parseHttp2(r.st, rest)
  OBVIOUS
<1>4. doHttpBuffer(r, buf, isSsl) =
          [version |-> IF parsed.upgrade THEN 2 ELSE detected, st |-> parsed.st,
           posted |-> r.posted \o parsed.posted]
  BY <1>1, <1>2, <1>3 DEF doHttpBuffer
<1>5. detected \in 0 .. 2
  <2>1. DetectVersion(buf) \in {0, 1, 2} BY DEF DetectVersion
  <2> QED BY <1>1, <2>1 DEF CallOK
<1>6. rest \in Seq(Token)
  <2>1. Len(HTTP2_MAGIC) = 2 BY DEF HTTP2_MAGIC
  <2>2. PICK a \in Nat \ {0} : a = Len(HTTP2_MAGIC) + 1 BY <2>1
  <2>3. SubSeq(buf, a, Len(buf)) \in Seq(Token) BY SubSeqFacts
  <2> QED BY <1>2, <2>2, <2>3 DEF From
<1>7. StateOK(parsed.st)
  <2>1. StateOK(r.st) BY DEF CallOK
  <2>2. CASE rest = <<>> \/ detected = 0
    <3>1. parsed = Nothing(r.st) BY <1>3, <2>2
    <3> QED BY <2>1, <3>1 DEF Nothing
  <2>3. CASE ~(rest = <<>> \/ detected = 0) /\ detected = 1
    <3>1. parsed = parseHttp1(r.st, rest, isSsl) BY <1>3, <2>3
    <3> QED BY <1>6, <2>1, <3>1, parseHttp1OK
  <2>4. CASE ~(rest = <<>> \/ detected = 0) /\ detected = 2
    <3>1. parsed = parseHttp2(r.st, rest) BY <1>3, <2>4
    <3> QED BY <1>6, <2>1, <3>1, parseHttp2OK
  <2> QED BY <1>5, <2>2, <2>3, <2>4
<1>8. PICK v \in 0 .. 2 : v = IF parsed.upgrade THEN 2 ELSE detected BY <1>5
<1>9. doHttpBuffer(r, buf, isSsl).version = v /\ doHttpBuffer(r, buf, isSsl).st = parsed.st
  BY <1>4, <1>8
<1> QED BY <1>7, <1>9 DEF CallOK

\* One buffer, or a vector of two.
Buffers == {b \in Seq(Seq(Token)) : Len(b) \in 1 .. 2}

LEMMA doHttpBuffersOK ==
    ASSUME NEW r, CallOK(r), NEW bufs \in Buffers, NEW isSsl \in BOOLEAN
    PROVE  CallOK(doHttpBuffers(r, bufs, isSsl))
<1>1. bufs[1] \in Seq(Token) /\ (Len(bufs) # 1 => bufs[2] \in Seq(Token)) BY DEF Buffers
<1>2. PICK first : first = doHttpBuffer(r, bufs[1], isSsl) OBVIOUS
<1>3. CallOK(first) BY <1>1, <1>2, doHttpBufferOK
<1>4. CASE Len(bufs) = 1 BY <1>2, <1>3, <1>4 DEF doHttpBuffers
<1>5. CASE Len(bufs) # 1
  <2>1. CallOK(doHttpBuffer(first, bufs[2], isSsl)) BY <1>1, <1>3, <1>5, doHttpBufferOK
  <2> QED BY <1>2, <1>5, <2>1 DEF doHttpBuffers
<1> QED BY <1>4, <1>5

LEMMA doProtocolOK ==
    ASSUME ScanInv, NEW d \in Directions, NEW bufs \in Buffers, NEW isSsl \in BOOLEAN,
           doProtocol(d, bufs, isSsl)
    PROVE  /\ net'.version \in 0 .. 2
           /\ http' \in [Directions -> HttpState] /\ \A e \in Directions : StateOK(http'[e])
<1>1. PICK tls : tls = DetectTls(bufs) OBVIOUS
<1>2. PICK ours : ours = (tls = "false" \/ isSsl) OBVIOUS
<1>3. PICK proto : proto = IF ours THEN DetectProto(bufs) ELSE net.proto OBVIOUS
<1>4. PICK before : before = [version |-> net.version, st |-> http[d], posted |-> <<>>] OBVIOUS
<1>5. PICK after : after = IF ours /\ proto = "true" THEN doHttpBuffers(before, bufs, isSsl) ELSE before
  OBVIOUS
<1>6. /\ net' = [tls |-> tls, proto |-> proto, version |-> after.version]
      /\ http' = [http EXCEPT ![d] = after.st]
  BY <1>1, <1>2, <1>3, <1>4, <1>5 DEF doProtocol
<1>7. CallOK(before)
  <2>1. before.version = net.version /\ before.st = http[d] BY <1>4
  <2> QED BY <2>1 DEF ScanInv, CallOK
<1>8. CallOK(after) BY <1>5, <1>7, doHttpBuffersOK
<1>9. PICK x : x = after.st OBVIOUS
<1>10. StateOK(x) /\ x \in HttpState /\ after.version \in 0 .. 2 BY <1>8, <1>9 DEF CallOK, StateOK
<1>11. http' = [http EXCEPT ![d] = x] /\ net'.version = after.version BY <1>6, <1>9
<1>12. http' \in [Directions -> HttpState] /\ http'[d] = x
       /\ \A e \in Directions : e # d => http'[e] = http[e]
  BY <1>10, <1>11 DEF ScanInv
<1>13. ASSUME NEW e \in Directions PROVE StateOK(http'[e]) BY <1>10, <1>12 DEF ScanInv
<1> QED BY <1>10, <1>11, <1>12, <1>13

LEMMA DeliverOK ==
    ASSUME ScanInv, NEW d \in Directions, Deliver(d)
    PROVE  ScanInv'
<1>1. Stream(d) \in Seq(Token) /\ session.isSsl \in BOOLEAN
  BY HttpScanAssumption DEF ScanInv, Stream
<1>2. PICK s \in Seq(Token) : s = Stream(d) BY <1>1
<1>3. PICK a \in Nat : a = pos[d] BY DEF ScanInv
<1>4. PICK m \in a + 1 .. Len(s), b \in a + 1 .. Len(s) :
          /\ m <= b
          /\ doProtocol(d, IF m < b THEN <<SubSeq(s, a + 1, m), SubSeq(s, m + 1, b)>>
                                    ELSE <<SubSeq(s, a + 1, b)>>, session.isSsl)
          /\ pos' = [pos EXCEPT ![d] = b] /\ session' = session
  BY <1>2, <1>3 DEF Deliver
<1>5. m \in Nat /\ b \in Nat /\ m <= Len(s) /\ b <= Len(s)
  OBVIOUS
<1>6. ASSUME NEW i \in Nat, NEW j \in Nat, j <= Len(s) PROVE SubSeq(s, i + 1, j) \in Seq(Token)
  <2>1. PICK h \in Nat \ {0} : h = i + 1 OBVIOUS
  <2>2. SubSeq(s, h, j) \in Seq(Token) BY <1>6, SubSeqFacts
  <2> QED BY <2>1, <2>2
<1>7. PICK x \in Seq(Token), y \in Seq(Token) : x = SubSeq(s, a + 1, m) /\ y = SubSeq(s, m + 1, b)
  BY <1>5, <1>6
<1>8. PICK z \in Seq(Token) : z = SubSeq(s, a + 1, b) BY <1>5, <1>6
<1>9. PICK bufs : bufs = IF m < b THEN <<x, y>> ELSE <<z>> OBVIOUS
<1>10. bufs \in Buffers
  <2>1. <<x, y>> \in Seq(Seq(Token)) /\ Len(<<x, y>>) = 2 OBVIOUS
  <2>2. <<z>> \in Seq(Seq(Token)) /\ Len(<<z>>) = 1 OBVIOUS
  <2>3. <<x, y>> \in Buffers BY <2>1 DEF Buffers
  <2>4. <<z>> \in Buffers BY <2>2 DEF Buffers
  <2> QED BY <1>9, <2>3, <2>4
<1>11. doProtocol(d, bufs, session.isSsl) BY <1>4, <1>7, <1>8, <1>9
<1>12. /\ net'.version \in 0 .. 2
       /\ http' \in [Directions -> HttpState] /\ \A e \in Directions : StateOK(http'[e])
  BY <1>1, <1>10, <1>11, doProtocolOK
<1>13. pos' \in [Directions -> Nat] /\ session' \in Sessions BY <1>4, <1>5 DEF ScanInv
<1> QED BY <1>12, <1>13 DEF ScanInv

LEMMA DeliverRawOK ==
    ASSUME ScanInv, NEW d \in Directions, DeliverRaw(d)
    PROVE  ScanInv'
<1>1. PICK k \in {"hello", "record"} : doProtocol(d, <<<<Tok(k), Tok("enc")>>>>, FALSE)
                                       /\ session' = session /\ pos' = pos
  BY DEF DeliverRaw
<1>2. k \in TokenKinds /\ "enc" \in TokenKinds BY DEF TokenKinds
<1>3. PICK x \in Token, y \in Token : x = Tok(k) /\ y = Tok("enc") BY <1>2, TokensOK, Zenon
<1>4. PICK z : z = <<x, y>> OBVIOUS
<1>5. z \in Seq(Token) BY <1>4
<1>6. <<z>> \in Seq(Seq(Token)) /\ Len(<<z>>) = 1 BY <1>5
<1>7. PICK bufs : bufs = <<z>> OBVIOUS
<1>8. bufs \in Buffers BY <1>6, <1>7 DEF Buffers
<1>9. doProtocol(d, bufs, FALSE) BY <1>1, <1>3, <1>4, <1>7
<1>10. /\ net'.version \in 0 .. 2
       /\ http' \in [Directions -> HttpState] /\ \A e \in Directions : StateOK(http'[e])
  BY <1>8, <1>9, doProtocolOK
<1> QED BY <1>1, <1>10 DEF ScanInv

\* What the two parsers keep between calls is bounded, however the application
\* cuts its data into buffers and vectors: a header in progress never has more
\* than MAX_HDR_ALLOC (appendHeader), and no whole frame is left in the stash
\* (parseHttp2).
THEOREM StoreBoundedAlways == HttpScanSpec => []StoreBounded
<1>1. HttpScanInit => ScanInv
  <2> SUFFICES ASSUME HttpScanInit PROVE ScanInv OBVIOUS
  <2>1. PICK none : none = HTTP_NONE OBVIOUS
  <2>2. StateOK(none) /\ none \in HttpState BY <2>1, NoneIsOK DEF StateOK
  <2>3. http = [d \in Directions |-> none] BY <2>1 DEF HttpScanInit
  <2>4. http \in [Directions -> HttpState] /\ \A d \in Directions : StateOK(http[d]) BY <2>2, <2>3
  <2>5. session \in Sessions /\ pos \in [Directions -> Nat] /\ net.version \in 0 .. 2
    BY DEF HttpScanInit
  <2> QED BY <2>4, <2>5 DEF ScanInv
<1>2. ScanInv /\ [HttpScanNext]_httpScanVars => ScanInv'
  <2> SUFFICES ASSUME ScanInv, [HttpScanNext]_httpScanVars PROVE ScanInv' OBVIOUS
  <2>1. CASE HttpScanNext BY <2>1, DeliverOK, DeliverRawOK DEF HttpScanNext
  <2>2. CASE UNCHANGED httpScanVars BY <2>2 DEF httpScanVars, ScanInv
  <2> QED BY <2>1, <2>2
<1>3. ScanInv => StoreBounded BY DEF ScanInv, StateOK, StoreBounded, Partial
<1> QED BY <1>1, <1>2, <1>3, PTL DEF HttpScanSpec
=============================================================================
