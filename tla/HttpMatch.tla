----------------------------- MODULE HttpMatch -----------------------------
(***************************************************************************)
(* The store that pairs HTTP/1 responses with their requests               *)
(* (httpmatch.c), driven by the reporter's event loop (doEvent, report.c)  *)
(* and by the application threads that open, use and close the sockets     *)
(* (state.c).  Events travel through the ring of CircBuf, here a bounded   *)
(* FIFO that drops an event when it is full.                               *)
(*                                                                         *)
(* A stored request leaves the store when its response is reported, when   *)
(* the close of its socket is reported, or, since both events may have     *)
(* been dropped, when storeExpire finds its socket unused: the first pass  *)
(* marks the item with the count of events handled so far, a later pass    *)
(* frees it once the ring has been emptied or has turned over since.       *)
(*                                                                         *)
(* One HTTP exchange at a time per socket; a request is a number.  An      *)
(* event is handled in one step, and so is a turn of storeExpire's loop:   *)
(* each looks at a descriptor that the application may open or close       *)
(* between them.                                                           *)
(***************************************************************************)
EXTENDS Integers, Sequences, SequencesExt

CONSTANTS
    Fds,              \* socket descriptors, reused by later sockets
    MaxUid,           \* bound on the sockets opened in a run
    MaxReq,           \* bound on the requests of one socket
    cbufSize,         \* capacity of the ring (APPVIEW_QUEUE_LENGTH)
    MAX_EVT_COUNT,    \* events handled in one call of doEvent
    ExpireEvery,      \* calls of doEvent between two expiry passes (1000)
    HASH_TABLE_SIZE   \* chains of the store (257)

ASSUME HttpMatchAssumption ==
    /\ MaxUid \in Nat /\ MaxReq \in Nat
    /\ cbufSize \in Nat \ {0} /\ MAX_EVT_COUNT \in Nat
    /\ ExpireEvery \in Nat \ {0} /\ HASH_TABLE_SIZE \in Nat \ {0}

VARIABLES
    netInfo,      \* per descriptor: the uid of its last socket, and whether it is active
    talk,         \* per descriptor: exchange phase and number of requests sent
    lastUid,      \* uid of the youngest socket
    ring,         \* events posted and not yet consumed
    hashTable,    \* the store: one chain of items per hash value
    loop,         \* where doEvent is, and its eventCount and exitedLoopEarly
    walk,         \* storeExpire: the chain, the place of "current" in it, and
                  \* whether "previous" is set
    g_cumulativeEventCount,
    g_numCallsToDoEvent,   \* modulo ExpireEvery
    hist          \* what happened: uids with a dropped event, uids of expired
                  \* items, uids of items cut off by storeExpire, uids awaiting a
                  \* response, reported <<uid, response, request>>

sockVars == <<netInfo, talk, lastUid>>
storeVars == <<hashTable, g_cumulativeEventCount>>
vars == <<netInfo, talk, lastUid, ring, hashTable, loop, walk,
          g_cumulativeEventCount, g_numCallsToDoEvent, hist>>

Uids == 1 .. MaxUid
NoRequest == 0
Kinds == {"EVT_HREQ", "EVT_HRES", "CONNECTION_DURATION"}
Event == [kind : Kinds, uid : Uids, fd : Fds, req : 0 .. MaxReq]
Item == [sockid : Uids, sockfd : Fds, data : 1 .. MaxReq, circBufCount : Nat]
Chains == 0 .. HASH_TABLE_SIZE - 1

TypeOK ==
    /\ netInfo \in [Fds -> [uid : 0 .. MaxUid, active : BOOLEAN]]
    /\ talk \in [Fds -> [phase : {"idle", "asked", "closing"}, sent : 0 .. MaxReq]]
    /\ lastUid \in 0 .. MaxUid
    /\ ring \in Seq(Event) /\ Len(ring) <= cbufSize
    /\ hashTable \in [Chains -> Seq(Item)]
    /\ loop \in [at : {"out", "in", "after", "expire"}, eventCount : 0 .. MAX_EVT_COUNT + 1,
                 exitedLoopEarly : BOOLEAN]
    /\ walk \in [chain : Chains, current : Nat \ {0}, previous : BOOLEAN]
    /\ g_cumulativeEventCount \in Nat
    /\ g_numCallsToDoEvent \in 0 .. ExpireEvery - 1
    /\ hist \in [dropped : SUBSET Uids, expired : SUBSET Uids, cut : SUBSET Uids, pending : SUBSET Uids,
                 reported : SUBSET (Uids \X (1 .. MaxReq) \X (0 .. MaxReq))]

Init ==
    /\ netInfo = [f \in Fds |-> [uid |-> 0, active |-> FALSE]]
    /\ talk = [f \in Fds |-> [phase |-> "idle", sent |-> 0]]
    /\ lastUid = 0
    /\ ring = <<>>
    /\ hashTable = [h \in Chains |-> <<>>]
    /\ loop = [at |-> "out", eventCount |-> 0, exitedLoopEarly |-> FALSE]
    /\ walk = [chain |-> 0, current |-> 1, previous |-> FALSE]
    /\ g_cumulativeEventCount = 0
    /\ g_numCallsToDoEvent = 0
    /\ hist = [dropped |-> {}, expired |-> {}, cut |-> {}, pending |-> {}, reported |-> {}]

----------------------------------------------------------------------------
(* The store.                                                              *)

hashOfKey(key) == key % HASH_TABLE_SIZE

\* findHashTableItemFromList: where the item of a socket is, 0 without one.
Find(sockid) == SelectInSeq(hashTable[hashOfKey(sockid)], LAMBDA it : it.sockid = sockid)

storeGet(sockid) ==
    IF Find(sockid) = 0 THEN NoRequest ELSE hashTable[hashOfKey(sockid)][Find(sockid)].data

\* A second request of a socket is refused, else the item ends its chain.
storeSave(sockid, fd, data) ==
    hashTable' = IF Find(sockid) # 0 THEN hashTable
                 ELSE [hashTable EXCEPT ![hashOfKey(sockid)] =
                          Append(@, [sockid |-> sockid, sockfd |-> fd,
                                     data |-> data, circBufCount |-> 0])]

\* Mutant of storeDelete: the item stays linked when it is the only one.
storeDeleteKeepsHead(sockid) ==
    hashTable' = IF Find(sockid) = 0 \/ Len(hashTable[hashOfKey(sockid)]) = 1 THEN hashTable
                 ELSE [hashTable EXCEPT ![hashOfKey(sockid)] = RemoveAt(@, Find(sockid))]

storeDelete(sockid) ==
    hashTable' = IF Find(sockid) = 0 THEN hashTable
                 ELSE [hashTable EXCEPT ![hashOfKey(sockid)] = RemoveAt(@, Find(sockid))]

\* Mutant of InUse: the uid of the socket is not looked at.
InUseByFd(it) == netInfo[it.sockfd].active

InUse(it) == netInfo[it.sockfd].uid = it.sockid /\ netInfo[it.sockfd].active

\* Mutant of Expirable: any event handled since the mark will do.
ExpirableAtOnce(it, count, wasEmptied) ==
    /\ it.circBufCount # 0
    /\ wasEmptied \/ it.circBufCount < count

Expirable(it, count, wasEmptied) ==
    /\ it.circBufCount # 0
    /\ wasEmptied \/ it.circBufCount + cbufSize < count

Marked(it, count) ==
    IF ~InUse(it) /\ it.circBufCount = 0 THEN [it EXCEPT !.circBufCount = count] ELSE it

----------------------------------------------------------------------------
(* The application's threads.                                              *)

\* cmdPostEvent: the event is queued, or dropped when the ring is full.
Post(ev) ==
    \/ /\ Len(ring) < cbufSize
       /\ ring' = Append(ring, ev)
       /\ UNCHANGED hist
    \/ /\ Len(ring) = cbufSize
       /\ hist' = [hist EXCEPT !.dropped = @ \cup {ev.uid}]
       /\ UNCHANGED ring

addSock(f) ==
    /\ ~netInfo[f].active
    /\ lastUid < MaxUid
    /\ lastUid' = lastUid + 1
    /\ netInfo' = [netInfo EXCEPT ![f] = [uid |-> lastUid + 1, active |-> TRUE]]
    /\ talk' = [talk EXCEPT ![f] = [phase |-> "idle", sent |-> 0]]
    /\ UNCHANGED <<ring, storeVars, loop, walk, g_numCallsToDoEvent, hist>>

Request(f) ==
    /\ netInfo[f].active /\ talk[f].phase = "idle" /\ talk[f].sent < MaxReq
    /\ talk' = [talk EXCEPT ![f] = [phase |-> "asked", sent |-> @.sent + 1]]
    /\ Post([kind |-> "EVT_HREQ", uid |-> netInfo[f].uid, fd |-> f, req |-> talk[f].sent + 1])
    /\ UNCHANGED <<netInfo, lastUid, storeVars, loop, walk, g_numCallsToDoEvent>>

Response(f) ==
    /\ netInfo[f].active /\ talk[f].phase = "asked"
    /\ talk' = [talk EXCEPT ![f].phase = "idle"]
    /\ Post([kind |-> "EVT_HRES", uid |-> netInfo[f].uid, fd |-> f, req |-> talk[f].sent])
    /\ UNCHANGED <<netInfo, lastUid, storeVars, loop, walk, g_numCallsToDoEvent>>

\* doClose posts the duration of the connection while the entry is active ...
doClose(f) ==
    /\ netInfo[f].active /\ talk[f].phase # "closing"
    /\ talk' = [talk EXCEPT ![f].phase = "closing"]
    /\ Post([kind |-> "CONNECTION_DURATION", uid |-> netInfo[f].uid, fd |-> f, req |-> 0])
    /\ UNCHANGED <<netInfo, lastUid, storeVars, loop, walk, g_numCallsToDoEvent>>

\* ... and clears the active flag last.
doCloseInactive(f) ==
    /\ talk[f].phase = "closing"
    /\ netInfo' = [netInfo EXCEPT ![f].active = FALSE]
    /\ talk' = [talk EXCEPT ![f].phase = "idle"]
    /\ UNCHANGED <<lastUid, ring, storeVars, loop, walk, g_numCallsToDoEvent, hist>>

----------------------------------------------------------------------------
(* The reporter.                                                           *)

\* doHttp1Header: a request is saved, unless one of the socket is there; a
\* response is reported with what the store holds, which is then deleted.
doHttp1Header(ev) ==
    \/ /\ ev.kind = "EVT_HREQ"
       /\ storeSave(ev.uid, ev.fd, ev.req)
       /\ hist' = [hist EXCEPT !.pending = @ \cup {ev.uid}]
    \/ /\ ev.kind = "EVT_HRES"
       /\ hist' = [hist EXCEPT !.reported = @ \cup {<<ev.uid, ev.req, storeGet(ev.uid)>>},
                               !.pending = @ \ {ev.uid}]
       /\ storeDelete(ev.uid)

doNetMetric(ev) ==
    /\ ev.kind = "CONNECTION_DURATION"
    /\ storeDelete(ev.uid)
    /\ hist' = [hist EXCEPT !.pending = @ \ {ev.uid}]

\* doEvent is entered when there is a connection to report over.
doEvent ==
    /\ loop.at = "out"
    /\ loop' = [at |-> "in", eventCount |-> 0, exitedLoopEarly |-> FALSE]
    /\ UNCHANGED <<sockVars, ring, storeVars, walk, g_numCallsToDoEvent, hist>>

\* One event consumed; the loop gives up after MAX_EVT_COUNT of them.
doEventGet ==
    /\ loop.at = "in" /\ ring # <<>>
    /\ ring' = Tail(ring)
    /\ doHttp1Header(Head(ring)) \/ doNetMetric(Head(ring))
    /\ g_cumulativeEventCount' = g_cumulativeEventCount + 1
    /\ loop' = [loop EXCEPT !.eventCount = @ + 1,
                            !.exitedLoopEarly = loop.eventCount >= MAX_EVT_COUNT,
                            !.at = IF loop.eventCount >= MAX_EVT_COUNT THEN "after" ELSE "in"]
    /\ UNCHANGED <<sockVars, walk, g_numCallsToDoEvent>>

doEventEmpty ==
    /\ loop.at = "in" /\ ring = <<>>
    /\ loop' = [loop EXCEPT !.at = "after"]
    /\ UNCHANGED <<sockVars, ring, storeVars, walk, g_numCallsToDoEvent, hist>>

\* After the loop, every ExpireEvery-th call walks the store.
doEventEnd ==
    /\ loop.at = "after"
    /\ g_numCallsToDoEvent' = (g_numCallsToDoEvent + 1) % ExpireEvery
    /\ loop' = [loop EXCEPT !.at = IF g_numCallsToDoEvent' = 0 THEN "expire" ELSE "out"]
    /\ UNCHANGED <<sockVars, ring, storeVars, walk, hist>>

\* storeExpire: the loop along a chain, one item per turn.  The chain is what
\* *listptr reaches.
Current == hashTable[walk.chain][walk.current]
Walking == loop.at = "expire" /\ walk.current <= Len(hashTable[walk.chain])

\* An item that is not in use is marked, when it is not yet.
ExpireKeep ==
    /\ Walking /\ ~Expirable(Current, g_cumulativeEventCount, ~loop.exitedLoopEarly)
    /\ hashTable' = [hashTable EXCEPT ![walk.chain][walk.current] =
                        Marked(Current, g_cumulativeEventCount)]
    /\ walk' = [walk EXCEPT !.current = @ + 1, !.previous = TRUE]
    /\ UNCHANGED <<sockVars, ring, loop, g_cumulativeEventCount, g_numCallsToDoEvent, hist>>

\* Freeing an item clears the loop's own "current", so the turn after it starts
\* with previous = NULL; if that turn frees its item too, it stores into *listptr
\* and whatever the chain held before is cut off.
ExpireFree ==
    /\ Walking /\ Expirable(Current, g_cumulativeEventCount, ~loop.exitedLoopEarly)
    /\ LET list == hashTable[walk.chain]
           lost == IF walk.previous THEN {} ELSE {list[i].sockid : i \in 1 .. walk.current - 1}
       IN  /\ hashTable' = [hashTable EXCEPT ![walk.chain] =
                               IF walk.previous THEN RemoveAt(list, walk.current)
                               ELSE SubSeq(list, walk.current + 1, Len(list))]
           /\ walk' = [walk EXCEPT !.current = IF walk.previous THEN @ ELSE 1, !.previous = FALSE]
           /\ hist' = [hist EXCEPT !.expired = @ \cup {Current.sockid},
                                   !.cut = @ \cup lost,
                                   !.pending = @ \ {Current.sockid}]
    /\ UNCHANGED <<sockVars, ring, loop, g_cumulativeEventCount, g_numCallsToDoEvent>>

\* The next chain, or the end of the pass.
ExpireNext ==
    /\ loop.at = "expire" /\ ~Walking
    /\ walk' = [chain |-> (walk.chain + 1) % HASH_TABLE_SIZE, current |-> 1, previous |-> FALSE]
    /\ loop' = [loop EXCEPT !.at = IF walk.chain + 1 = HASH_TABLE_SIZE THEN "out" ELSE @]
    /\ UNCHANGED <<sockVars, ring, storeVars, g_numCallsToDoEvent, hist>>

storeExpire == ExpireKeep \/ ExpireFree \/ ExpireNext

Reporter == doEvent \/ doEventGet \/ doEventEmpty \/ doEventEnd \/ storeExpire

Next ==
    \/ \E f \in Fds : addSock(f) \/ Request(f) \/ Response(f) \/ doClose(f) \/ doCloseInactive(f)
    \/ Reporter

Spec == Init /\ [][Next]_vars

\* The periodic thread keeps calling doEvent; the application owes nothing.
FairSpec == Spec /\ WF_vars(Reporter)

----------------------------------------------------------------------------
(* Properties.                                                             *)

Stored == {it.sockid : it \in UNION {ToSet(hashTable[h]) : h \in Chains}}

\* storeExpire never frees a request too early: once the item of a socket has
\* expired, no event of that socket is in the ring, and its socket is closed.
ExpiredIsSilent ==
    \A u \in hist.expired :
        /\ \A i \in DOMAIN ring : ring[i].uid # u
        /\ \A f \in Fds : netInfo[f].uid = u => ~netInfo[f].active

\* doHttp1Header reports a response with its own request, whatever closes,
\* descriptor reuse and expiry passes come between, if the ring has dropped
\* no event of the socket; with none at all only if storeExpire cut its item off,
\* and with that of another exchange never.
PairedUnlessDropped ==
    \A r \in hist.reported :
        r[1] \notin hist.dropped => r[3] = r[2] \/ (r[3] = NoRequest /\ r[1] \in hist.cut)

\* Nothing is kept for ever: the request of a socket that has been closed
\* leaves the store, even when its response and its close were dropped.
Dead(u) == u <= lastUid /\ \A f \in Fds : netInfo[f].uid = u => ~netInfo[f].active
DeadIsReclaimed == \A u \in Uids : Dead(u) ~> u \notin Stored

\* A request that awaits its response on a socket in use is in the store:
\* storeExpire removes the items of unused sockets only.
InUseIsKept ==
    \A f \in Fds : netInfo[f].active /\ netInfo[f].uid \in hist.pending => netInfo[f].uid \in Stored

=============================================================================
