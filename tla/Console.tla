------------------------------- MODULE Console -------------------------------
(***************************************************************************)
(* Console and log data on its way out through a control channel (ctl.c).  *)
(* Application threads put what the application writes into the ring of    *)
(* the channel (ctlSendLog); one thread at a time gathers it in a batch    *)
(* per descriptor (ctlFlushLog) and sends the batches (ctlFlush).  A new   *)
(* configuration replaces the channel by another one, with a ring and      *)
(* batches of its own (doConfig in wrap.c).                                *)
(*                                                                         *)
(* A write is a number, given when the ring accepts it, with a length.     *)
(* The ring is a queue that refuses when it is full.  Filters by name and  *)
(* value let everything through, and console data is text.                 *)
(***************************************************************************)
EXTENDS Integers, Sequences, FiniteSets, Functions

CONSTANTS
    Writers,        \* application threads
    NumFds,         \* descriptors of files that are logged: 1 .. NumFds
    QueueLength,    \* capacity of the log ring
    MaxAggBytes,    \* max_agg_bytes
    FlushPeriod,    \* flush_period_in_ms, in calls of ctlFlush
    MaxWrites, MaxOpens, MaxCtls, MaxOutages    \* bounds

ASSUME ConsoleAssumption ==
    /\ NumFds \in Nat \ {0} /\ QueueLength \in Nat \ {0} /\ FlushPeriod \in Nat \ {0}
    /\ MaxAggBytes \in Nat
    /\ MaxWrites \in Nat /\ MaxOpens \in Nat /\ MaxCtls \in Nat \ {0} /\ MaxOutages \in Nat

VARIABLES
    g_ctl,      \* the channel in use
    ctl,        \* the channels there have been: rings, batches, connections;
                \* outage is history: the peer was not there at some time
    fileUid,    \* per descriptor: g_fsinfo[fd].uid
    clock,      \* the time, as far as files have got their uid from it
    writing,    \* per thread: where it is in ctlSendLog, with what it has loaded
    count,      \* calls of ctlSendAllAggregatedLogData, modulo the period
    writes,     \* history: per accepted write its file and channel
    sent,       \* history: the messages that were sent
    dropped,    \* history: the messages for which there was no connection
    outages     \* how often the peer was not there, or went away

consoleVars == <<g_ctl, ctl, fileUid, clock, writing, count, writes, sent, dropped, outages>>

Fds == 1 .. NumFds
Ctls == 1 .. MaxCtls
NoBatch == [stream |-> FALSE, uid |-> 0, size |-> 0, data |-> <<>>]
NotWriting == [at |-> "idle", fd |-> 0, uid |-> 0, len |-> 0, ctl |-> 0]
ctlCreate(connected) ==
    [ring |-> <<>>, batch |-> [f \in Fds |-> NoBatch], stop |-> FALSE,
     up |-> connected, outage |-> ~connected]

ConsoleTypeOK ==
    /\ g_ctl \in Ctls
    /\ \A c \in Ctls :
          /\ Len(ctl[c].ring) <= QueueLength
          /\ \A f \in Fds : ctl[c].batch[f] = NoBatch \/ ctl[c].batch[f].size > 0
    /\ \A f \in Fds : fileUid[f] \in 1 .. clock
    /\ clock \in NumFds .. NumFds + MaxOpens
    /\ \A t \in Writers : writing[t].at \in {"idle", "put"}
    /\ count \in 0 .. FlushPeriod - 1
    /\ Len(writes) <= MaxWrites /\ outages \in 0 .. MaxOutages

ConsoleInit ==
    /\ g_ctl = 1
    /\ outages \in {0, 1} \cap 0 .. MaxOutages
    /\ ctl = [c \in Ctls |-> ctlCreate(outages = 0)]
    /\ fileUid = [f \in Fds |-> f] /\ clock = NumFds
    /\ writing = [t \in Writers |-> NotWriting]
    /\ count = 0
    /\ writes = <<>> /\ sent = <<>> /\ dropped = <<>>

----------------------------------------------------------------------------
(* Application threads.                                                    *)

\* doClose and doOpen: a descriptor is used for another file.
doOpen(f) ==
    /\ clock < NumFds + MaxOpens
    /\ clock' = clock + 1
    /\ fileUid' = [fileUid EXCEPT ![f] = clock + 1]
    /\ UNCHANGED <<g_ctl, ctl, writing, count, writes, sent, dropped, outages>>

InFlight == {t \in Writers : writing[t] # NotWriting}

\* The call of ctlSendLog: g_ctl and the uid of the file are loaded.
SendLogCall(t, f, len) ==
    /\ writing[t] = NotWriting
    /\ Len(writes) + Cardinality(InFlight) < MaxWrites
    /\ writing' = [writing EXCEPT ![t] =
                      [at |-> "put", fd |-> f, uid |-> fileUid[f], len |-> len, ctl |-> g_ctl]]
    /\ UNCHANGED <<g_ctl, ctl, fileUid, clock, count, writes, sent, dropped, outages>>

\* cbufPut; a write that is refused is destroyed.
SendLogPut(t) ==
    LET w == writing[t]
    IN  /\ w.at = "put"
        /\ writing' = [writing EXCEPT ![t] = NotWriting]
        /\ IF Len(ctl[w.ctl].ring) < QueueLength
           THEN /\ writes' = Append(writes, [uid |-> w.uid, ctl |-> w.ctl])
                /\ ctl' = [ctl EXCEPT ![w.ctl].ring =
                              Append(@, [n |-> Len(writes) + 1, fd |-> w.fd, uid |-> w.uid, len |-> w.len])]
           ELSE UNCHANGED <<writes, ctl>>
        /\ UNCHANGED <<g_ctl, fileUid, clock, count, sent, dropped, outages>>

----------------------------------------------------------------------------
(* The thread that reports.                                                *)

\* transportSend: without a connection the messages are gone.
SendAll(c, messages) ==
    IF ctl[c].up THEN sent' = sent \o messages /\ dropped' = dropped
                 ELSE sent' = sent /\ dropped' = dropped \o messages

\* Mutant of NeedsNewBatch: only the size matters.
NeedsNewBatchBySize(b, e) == b.size + e.len > MaxAggBytes

\* Mutant of NeedsNewBatch: a batch may be one write too long.
NeedsNewBatchLate(b, e) == b.uid # e.uid \/ b.size > MaxAggBytes

\* Something new is on the same descriptor, or the batch would get too long.
NeedsNewBatch(b, e) == b.uid # e.uid \/ b.size + e.len > MaxAggBytes

\* One turn of the loop of ctlFlushLog.
FlushLogTurn(c) ==
    /\ ctl[c].ring # <<>>
    /\ LET e == Head(ctl[c].ring)
           b == ctl[c].batch[e.fd]
           full == b.stream /\ NeedsNewBatch(b, e)
           open == IF b.stream /\ ~full THEN b
                   ELSE [stream |-> TRUE, uid |-> e.uid, size |-> 0, data |-> <<>>]
       IN  /\ ctl' = [ctl EXCEPT ![c].ring = Tail(@),
                                 ![c].batch[e.fd] = [open EXCEPT !.size = @ + e.len,
                                                                 !.data = Append(@, e.n)]]
           /\ SendAll(c, IF full THEN <<b>> ELSE <<>>)
    /\ UNCHANGED <<g_ctl, fileUid, clock, writing, count, writes, outages>>

\* The members of a set of numbers, in order.
Ascending(S) ==
    [i \in 1 .. Cardinality(S) |-> CHOOSE x \in S : Cardinality({y \in S : y < x}) = i - 1]

Streams(c) == {f \in Fds : ctl[c].batch[f].stream}

Batches(c) == [i \in 1 .. Cardinality(Streams(c)) |-> ctl[c].batch[Ascending(Streams(c))[i]]]

\* Mutant of ctlFlush: the period never comes round.
ctlFlushAtStop(c) ==
    /\ count' = (count + 1) % FlushPeriod
    /\ IF ctl[c].stop
       THEN /\ SendAll(c, Batches(c))
            /\ ctl' = [ctl EXCEPT ![c].batch = [f \in Fds |-> NoBatch]]
       ELSE UNCHANGED <<ctl, sent, dropped>>
    /\ UNCHANGED <<g_ctl, fileUid, clock, writing, writes, outages>>

\* ctlFlush: every batch, if the channel is going away or it is time.
ctlFlush(c) ==
    /\ count' = (count + 1) % FlushPeriod
    /\ IF ctl[c].stop \/ count = 0
       THEN /\ SendAll(c, Batches(c))
            /\ ctl' = [ctl EXCEPT ![c].batch = [f \in Fds |-> NoBatch]]
       ELSE UNCHANGED <<ctl, sent, dropped>>
    /\ UNCHANGED <<g_ctl, fileUid, clock, writing, writes, outages>>

\* Mutant of ctlStopAggregating: the channel keeps its batches.
ctlStopAggregatingNot(c) == UNCHANGED consoleVars

ctlStopAggregating(c) ==
    /\ ctl' = [ctl EXCEPT ![c].stop = TRUE]
    /\ UNCHANGED <<g_ctl, fileUid, clock, writing, count, writes, sent, dropped, outages>>

\* doConnection: the channel is connected afterwards, or is not.
ctlConnect(c, connected) ==
    /\ ctl[c].up => connected
    /\ ctl' = [ctl EXCEPT ![c].up = connected]
    /\ UNCHANGED <<g_ctl, fileUid, clock, writing, count, writes, sent, dropped, outages>>

\* doConfig, first part: a new channel takes the place of the current one.
ConfigSwap ==
    /\ g_ctl < MaxCtls
    /\ g_ctl' = g_ctl + 1
    /\ outages' \in {outages, outages + 1} \cap 0 .. MaxOutages
    /\ ctl' = [ctl EXCEPT ![g_ctl + 1] = ctlCreate(outages' = outages)]
    /\ UNCHANGED <<fileUid, clock, writing, count, writes, sent, dropped>>

\* Mutant of ConfigFlush: the old channel is disconnected before the flush.
ConfigFlushLate(c) ==
    /\ dropped' = dropped \o Batches(c)
    /\ ctl' = [ctl EXCEPT ![c].stop = TRUE, ![c].up = FALSE, ![c].batch = [f \in Fds |-> NoBatch]]
    /\ count' = (count + 1) % FlushPeriod
    /\ UNCHANGED <<g_ctl, fileUid, clock, writing, writes, sent, outages>>

\* doConfig, the rest: the old channel sends its batches and is disconnected.
\* What is in its ring stays there.
ConfigFlush(c) ==
    /\ SendAll(c, Batches(c))
    /\ ctl' = [ctl EXCEPT ![c].stop = TRUE, ![c].up = FALSE, ![c].batch = [f \in Fds |-> NoBatch]]
    /\ count' = (count + 1) % FlushPeriod
    /\ UNCHANGED <<g_ctl, fileUid, clock, writing, writes, outages>>

ctlDisconnect(c) ==
    /\ ctl' = [ctl EXCEPT ![c].up = FALSE]
    /\ UNCHANGED <<g_ctl, fileUid, clock, writing, count, writes, sent, dropped, outages>>

\* External: the connection is lost.
Break(c) ==
    /\ ctl[c].up /\ outages < MaxOutages
    /\ outages' = outages + 1
    /\ ctl' = [ctl EXCEPT ![c].up = FALSE, ![c].outage = TRUE]
    /\ UNCHANGED <<g_ctl, fileUid, clock, writing, count, writes, sent, dropped>>

----------------------------------------------------------------------------
(* Properties.                                                             *)

SentData == UNION {Range(sent[i].data) : i \in DOMAIN sent}
DroppedData == UNION {Range(dropped[i].data) : i \in DOMAIN dropped}

\* No message is longer than max_agg_bytes, unless one write alone is.
MessagesBounded ==
    \A i \in DOMAIN sent : sent[i].size > MaxAggBytes => Len(sent[i].data) = 1
=============================================================================
