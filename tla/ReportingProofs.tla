--------------------------- MODULE ReportingProofs ---------------------------
(***************************************************************************)
(* Proofs about Console, Reporting and Counters, for any number of         *)
(* threads, descriptors, channels and writes, and any amounts and limits.  *)
(*                                                                         *)
(* A write is in the ring of its channel, then in the batch of its         *)
(* descriptor there, then in a message.  The first part of the invariant   *)
(* says how the numbers in these three places are ordered, the second who  *)
(* may move them.                                                          *)
(***************************************************************************)
EXTENDS Reporting, Counters, FiniteSetTheorems, TLAPS

Entry == [n : Nat, fd : Fds, uid : Nat, len : Nat]
Message == [stream : BOOLEAN, uid : Nat, size : Nat, data : Seq(Nat)]
Channel ==
    [ring : Seq(Entry), batch : [Fds -> Message], stop : BOOLEAN, up : BOOLEAN, outage : BOOLEAN]
Writing == [at : {"idle", "put"}, fd : Fds \cup {0}, uid : Nat, len : Nat, ctl : Ctls \cup {0}]

DataTypes ==
    /\ g_ctl \in Ctls /\ ctl \in [Ctls -> Channel]
    /\ fileUid \in [Fds -> Nat] /\ clock \in Nat
    /\ writing \in [Writers -> Writing]
    /\ \A t \in Writers : writing[t].at = "put" => writing[t].fd \in Fds /\ writing[t].ctl \in Ctls
    /\ writes \in Seq([uid : Nat, ctl : Ctls])
    /\ sent \in Seq(Message) /\ dropped \in Seq(Message)

----------------------------------------------------------------------------
(* Where a write is.                                                       *)

Numbers(m) == {m.data[k] : k \in 1 .. Len(m.data)}
Queued(ring) == {ring[i].n : i \in 1 .. Len(ring)}
InRing(c) == Queued(ctl[c].ring)
Held(c, f) == Numbers(ctl[c].batch[f])
Out(messages) == UNION {Numbers(messages[i]) : i \in 1 .. Len(messages)}

\* A message has numbers of one file in order, and is too long only with a
\* single one.
Ordered(m, ws) ==
    /\ \A k, l \in 1 .. Len(m.data) : k < l => m.data[k] < m.data[l]
    /\ \A k \in 1 .. Len(m.data) : m.data[k] \in 1 .. Len(ws) /\ ws[m.data[k]].uid = m.uid
    /\ m.size > MaxAggBytes => Len(m.data) = 1

\* A ring has writes to its channel, in order.
RingOrdered(ring, c, ws) ==
    /\ \A i \in 1 .. Len(ring) :
          /\ ring[i].n \in 1 .. Len(ws)
          /\ ws[ring[i].n].uid = ring[i].uid /\ ws[ring[i].n].ctl = c
    /\ \A i, j \in 1 .. Len(ring) : i < j => ring[i].n < ring[j].n

\* A batch has writes to its channel that are older than those in the ring.
BatchOrdered(b, ring, c, ws) ==
    /\ ~b.stream => Len(b.data) = 0
    /\ Ordered(b, ws)
    /\ \A x \in Numbers(b) : ws[x].ctl = c /\ \A y \in Queued(ring) : x < y

InOrder(m) == Ordered(m, writes)
RingInOrder(c) == RingOrdered(ctl[c].ring, c, writes)
BatchInOrder(c, f) == BatchOrdered(ctl[c].batch[f], ctl[c].ring, c, writes)

\* What was sent is older than what its channel still has in the ring, and
\* than what it has of the same file in a batch; older than what any channel
\* has, unless doConfig and handleExit met.
SentOlder ==
    /\ \A i \in 1 .. Len(sent) : InOrder(sent[i])
    /\ \A x \in Out(sent) : \A y \in InRing(writes[x].ctl) : x < y
    /\ \A x \in Out(sent) : \A c \in Ctls, f \in Fds : \A y \in Held(c, f) :
          writes[x].uid = writes[y].uid /\ (exit.alone \/ writes[x].ctl = c) => x < y

DroppedKnown == \A x \in Out(dropped) : x \in 1 .. Len(writes)

\* Two messages for a file are in order: their writes to one channel are, and
\* all of them unless doConfig and handleExit met.
TurnInChannel(messages, ws) ==
    \A i, j \in 1 .. Len(messages) :
        i < j /\ messages[i].uid = messages[j].uid =>
            \A x \in Numbers(messages[i]), y \in Numbers(messages[j]) : ws[x].ctl = ws[y].ctl => x < y

TurnInAll(messages) ==
    \A i, j \in 1 .. Len(messages) :
        i < j /\ messages[i].uid = messages[j].uid =>
            \A x \in Numbers(messages[i]), y \in Numbers(messages[j]) : x < y

SentInTurn == TurnInChannel(sent, writes) /\ (exit.alone => TurnInAll(sent))

\* A uid is one descriptor's, wherever it is met.
AtHome(f, u) ==
    \/ fileUid[f] = u
    \/ \E t \in Writers : writing[t].at = "put" /\ writing[t].fd = f /\ writing[t].uid = u
    \/ \E c \in Ctls : \E i \in 1 .. Len(ctl[c].ring) : ctl[c].ring[i].fd = f /\ ctl[c].ring[i].uid = u
    \/ \E c \in Ctls : ctl[c].batch[f].stream /\ ctl[c].batch[f].uid = u

OneHome ==
    \A f, g \in Fds, u \in Nat : AtHome(f, u) => u <= clock /\ (AtHome(g, u) => f = g)

\* Channels that are not in use yet have nothing.
FutureEmpty ==
    /\ \A n \in 1 .. Len(writes) : writes[n].ctl <= g_ctl
    /\ \A t \in Writers : writing[t].at = "put" => writing[t].ctl <= g_ctl
    /\ \A c \in Ctls : c > g_ctl => Len(ctl[c].ring) = 0 /\ \A f \in Fds : ~ctl[c].batch[f].stream

\* Only one channel at a time has batches, and what was gathered of a channel
\* is older than every write to a later one.
Active == IF configuring # 0 THEN configuring ELSE g_ctl
OneActive ==
    exit.alone =>
        /\ \A c \in Ctls, f \in Fds : ctl[c].batch[f].stream => c = Active
        /\ \A n \in 1 .. Len(writes) :
              /\ \A x \in Out(sent) : writes[x].ctl < writes[n].ctl => x < n
              /\ \A c \in Ctls, f \in Fds : \A x \in Held(c, f) : c < writes[n].ctl => x < n

\* Nothing is lost on the way.
Conserved ==
    \A n \in 1 .. Len(writes) :
        \/ n \in Out(sent) \/ n \in Out(dropped)
        \/ n \in InRing(writes[n].ctl)
        \/ \E f \in Fds : n \in Held(writes[n].ctl, f)

DataInv ==
    /\ DataTypes
    /\ \A c \in Ctls : RingInOrder(c) /\ \A f \in Fds : BatchInOrder(c, f)
    /\ SentOlder /\ DroppedKnown /\ SentInTurn
    /\ OneHome /\ FutureEmpty /\ OneActive /\ Conserved

----------------------------------------------------------------------------
(* Who moves it.                                                           *)

PassState ==
    [by : {"none", "reporter", "exit"}, at : {"none", "stop", "connect", "log", "flush", "last"},
     ctl : Ctls \cup {0}]
ExitState ==
    [at : {"no", "waiting", "reporting", "flushed", "done", "gave up"}, mark : Nat,
     alone : BOOLEAN, ready : BOOLEAN, late : BOOLEAN]
ControlTypes == pass \in PassState /\ configuring \in 0 .. MaxCtls /\ exit \in ExitState

\* handleExit has the guard, or the reporting thread, or nobody.
WhoPasses ==
    /\ pass.by = "none" => pass = NoPass
    /\ pass.by = "exit" <=> exit.at \in {"reporting", "flushed", "done"}
    /\ pass.at \in {"stop", "last"} => pass.by = "exit"
    /\ exit.at \in {"flushed", "done"} => pass.at = "last"
    /\ pass.by # "none" => pass.at # "none"
    /\ pass.at \in {"log", "flush", "last"} => pass.ctl \in Ctls

\* As long as doConfig and handleExit have not met, a pass is over the channel
\* in use, and the one being replaced is not in a pass.
Alone ==
    /\ configuring # 0 => configuring < g_ctl
    /\ exit.at = "no" => exit.alone
    /\ exit.alone =>
          /\ configuring # 0 => exit.at = "no" /\ pass = NoPass
          /\ pass.at \in {"log", "flush", "last"} => pass.ctl = g_ctl

\* A channel is without a connection only when its peer was away, and what was
\* dropped was dropped by such a channel.
Outages ==
    exit.alone =>
        /\ exit.at # "done" => \A c \in {g_ctl, Active} : ~ctl[c].up => ctl[c].outage
        /\ \A x \in Out(dropped) : ctl[writes[x].ctl].outage

\* How far the exit has got.
ExitOnItsWay ==
    /\ exit.mark <= Len(writes)
    /\ exit.alone /\ pass.by = "exit" =>
          /\ pass.at \in {"connect", "log", "flush"} => ctl[g_ctl].stop
          /\ pass.at = "flush" \/ (pass.at = "last" /\ exit.ready) => \A x \in InRing(g_ctl) : exit.mark < x
          /\ pass.at = "last" /\ exit.ready => \A f \in Fds : ~ctl[g_ctl].batch[f].stream

ControlInv == ControlTypes /\ WhoPasses /\ Alone /\ Outages /\ ExitOnItsWay

ReportingInv == DataInv /\ ControlInv

----------------------------------------------------------------------------
(* The batches of a channel, as a sequence.                                *)

\* Ascending lists the members of a finite set of numbers.
LEMMA AscendingFacts ==
    ASSUME NEW S \in SUBSET Int, IsFiniteSet(S)
    PROVE  /\ Cardinality(S) \in Nat
           /\ \A i \in 1 .. Cardinality(S) : Ascending(S)[i] \in S
           /\ \A i, j \in 1 .. Cardinality(S) : Ascending(S)[i] = Ascending(S)[j] => i = j
           /\ \A x \in S : \E i \in 1 .. Cardinality(S) : Ascending(S)[i] = x
<1> DEFINE Below(x) == {y \in S : y < x}
<1>1. PICK n \in Nat : n = Cardinality(S) BY FS_CardinalityType
<1>2. ASSUME NEW x \in S
      PROVE  IsFiniteSet(Below(x)) /\ Cardinality(Below(x)) \in 0 .. n - 1
  <2>1. Below(x) \in SUBSET S /\ Below(x) # S OBVIOUS
  <2> HIDE DEF Below
  <2>2. IsFiniteSet(Below(x)) /\ Cardinality(Below(x)) <= n /\ n # Cardinality(Below(x))
    BY <1>1, <2>1, FS_Subset
  <2>3. Cardinality(Below(x)) \in Nat BY <2>2, FS_CardinalityType
  <2> QED BY <2>2, <2>3
<1>3. ASSUME NEW x \in S, NEW y \in S, x < y
      PROVE  Cardinality(Below(x)) # Cardinality(Below(y))
  <2>0. \A z \in S : z \in Int OBVIOUS
  <2>1. Below(x) \in SUBSET Below(y) /\ x \in Below(y) /\ x \notin Below(x)
    <3>1. \A z \in S : z < x => z < y BY <1>3, <2>0
    <3>2. x < y /\ ~(x < x) BY <1>3, <2>0
    <3> QED BY <3>1, <3>2, Zenon
  <2> HIDE DEF Below
  <2> QED BY <1>2, <2>1, FS_Subset
<1>4. ASSUME NEW x \in S, NEW y \in S, Cardinality(Below(x)) = Cardinality(Below(y)) PROVE x = y
  <2> HIDE DEF Below
  <2>1. x \in Int /\ y \in Int OBVIOUS
  <2>2. ~(x < y) /\ ~(y < x) BY <1>3, <1>4
  <2> QED BY <2>1, <2>2
<1>5. ASSUME NEW i \in 1 .. n PROVE \E x \in S : Cardinality(Below(x)) = i - 1
  <2> SUFFICES ASSUME \A x \in S : Cardinality(Below(x)) # i - 1 PROVE FALSE OBVIOUS
  <2>1. PICK T, U, k : U = 0 .. n - 1 /\ k = i - 1 /\ T = U \ {k} OBVIOUS
  <2>2. IsFiniteSet(U) /\ Cardinality(U) = n
    <3>1. 0 \in Int /\ n - 1 \in Int /\ n >= 1 BY <1>1
    <3>2. IsFiniteSet(U) /\ Cardinality(U) = IF 0 > n - 1 THEN 0 ELSE (n - 1) - 0 + 1
      BY <2>1, <3>1, FS_Interval
    <3> QED BY <3>1, <3>2
  <2>3. k \in U BY <1>1, <2>1
  <2>4. IsFiniteSet(T) /\ Cardinality(T) = n - 1
    <3>1. IsFiniteSet(U \ {k}) /\ Cardinality(U \ {k}) = IF k \in U THEN Cardinality(U) - 1 ELSE Cardinality(U)
      BY <2>2, FS_RemoveElement
    <3> QED BY <2>1, <2>2, <2>3, <3>1
  <2> HIDE DEF Below
  <2>5. \A x \in S : Cardinality(Below(x)) \in T BY <1>2, <2>1
  <2>6. PICK f : f = [x \in S |-> Cardinality(Below(x))] OBVIOUS
  <2>7. f \in [S -> T] BY <2>5, <2>6
  <2>8. Cardinality(T) < Cardinality(S) BY <1>1, <2>4
  <2>9. PICK x, y \in S : x # y /\ f[x] = f[y] BY <2>4, <2>7, <2>8, FS_PigeonHole
  <2> QED BY <1>4, <2>6, <2>9
<1>6. ASSUME NEW i \in 1 .. n
      PROVE  Ascending(S)[i] \in S /\ Cardinality(Below(Ascending(S)[i])) = i - 1
  <2>1. Ascending(S)[i] = CHOOSE x \in S : Cardinality(Below(x)) = i - 1 BY <1>1 DEF Ascending
  <2> HIDE DEF Below
  <2> QED BY <1>5, <2>1
<1>7. ASSUME NEW i \in 1 .. n, NEW j \in 1 .. n, Ascending(S)[i] = Ascending(S)[j] PROVE i = j
  <2> HIDE DEF Below
  <2>1. i - 1 = j - 1 BY <1>6, <1>7
  <2> QED BY <2>1
<1>8. ASSUME NEW x \in S PROVE \E i \in 1 .. n : Ascending(S)[i] = x
  <2> HIDE DEF Below
  <2>1. PICK i : i = Cardinality(Below(x)) + 1 OBVIOUS
  <2>2. i \in 1 .. n /\ i - 1 = Cardinality(Below(x)) BY <1>2, <2>1
  <2>3. Ascending(S)[i] \in S /\ Cardinality(Below(Ascending(S)[i])) = Cardinality(Below(x))
    BY <1>6, <2>2
  <2> QED BY <1>4, <2>2, <2>3
<1> QED BY <1>1, <1>6, <1>7, <1>8

\* Messages that are batches of a channel, each of another descriptor.
BatchesOf(c, messages, fd) ==
    /\ messages \in Seq(Message)
    /\ \A i \in 1 .. Len(messages) :
          fd[i] \in Fds /\ ctl[c].batch[fd[i]].stream /\ messages[i] = ctl[c].batch[fd[i]]
    /\ \A i, j \in 1 .. Len(messages) : fd[i] = fd[j] => i = j

\* Batches has every batch of its channel.
LEMMA BatchesFacts ==
    ASSUME DataTypes, NEW c \in Ctls
    PROVE  /\ BatchesOf(c, Batches(c), Ascending(Streams(c)))
           /\ \A f \in Fds : ctl[c].batch[f].stream =>
                 \E i \in 1 .. Len(Batches(c)) : Ascending(Streams(c))[i] = f
<1>1. NumFds \in Nat BY ConsoleAssumption
<1>2. PICK S : S = Streams(c) OBVIOUS
<1>3. S \subseteq Fds /\ S \in SUBSET Int /\ \A f \in Fds : ctl[c].batch[f].stream <=> f \in S
  BY <1>1, <1>2 DEF Streams, Fds
<1>4. IsFiniteSet(Fds) BY <1>1, FS_Interval DEF Fds
<1>5. IsFiniteSet(S) BY <1>3, <1>4, FS_Subset
<1>6. /\ Cardinality(S) \in Nat
      /\ \A i \in 1 .. Cardinality(S) : Ascending(S)[i] \in S
      /\ \A i, j \in 1 .. Cardinality(S) : Ascending(S)[i] = Ascending(S)[j] => i = j
      /\ \A x \in S : \E i \in 1 .. Cardinality(S) : Ascending(S)[i] = x
  BY <1>3, <1>5, AscendingFacts
<1>7. ctl[c].batch \in [Fds -> Message] BY DEF DataTypes, Channel
<1>8. PICK n \in Nat : n = Cardinality(S) BY <1>6
<1>9. Batches(c) = [i \in 1 .. n |-> ctl[c].batch[Ascending(S)[i]]] BY <1>2, <1>8 DEF Batches
<1>10. \A i \in 1 .. n : ctl[c].batch[Ascending(S)[i]] \in Message BY <1>3, <1>6, <1>7, <1>8
<1>11. Batches(c) \in Seq(Message) /\ Len(Batches(c)) = n BY <1>9, <1>10
<1> QED BY <1>2, <1>3, <1>6, <1>8, <1>9, <1>11 DEF BatchesOf

\* A descriptor without data.
LEMMA EmptyBatch == NoBatch \in Message /\ ~NoBatch.stream
<1>1. NoBatch.stream = FALSE /\ NoBatch.uid = 0 /\ NoBatch.size = 0 /\ NoBatch.data = <<>> BY DEF NoBatch
<1>2. 0 \in Nat /\ <<>> \in Seq(Nat) /\ FALSE \in BOOLEAN OBVIOUS
<1>3. NoBatch \in Message BY <1>2, Zenon DEF NoBatch, Message
<1> QED BY <1>1, <1>3

\* A new channel is empty, and without a connection only in an outage.
LEMMA Created ==
    ASSUME NEW p \in BOOLEAN, NEW k, k = ctlCreate(p)
    PROVE  /\ k \in Channel /\ Len(k.ring) = 0 /\ (\A f \in Fds : k.batch[f] = NoBatch)
           /\ (~k.up => k.outage) /\ \A i \in 1 .. Len(k.ring) : FALSE
<1>1. PICK bs : bs = [f \in Fds |-> NoBatch] OBVIOUS
<1>2. bs \in [Fds -> Message] /\ \A f \in Fds : bs[f] = NoBatch BY <1>1, EmptyBatch
<1>3. PICK q \in BOOLEAN : q = ~p /\ (~p => q) OBVIOUS
<1>4. PICK r : r = <<>> OBVIOUS
<1>5. r \in Seq(Entry) /\ Len(r) = 0 /\ FALSE \in BOOLEAN BY <1>4
<1>6. k = [ring |-> r, batch |-> bs, stop |-> FALSE, up |-> p, outage |-> q]
  BY <1>1, <1>3, <1>4, Zenon DEF ctlCreate
<1>7. k \in Channel
  <2>1. ASSUME NEW R, NEW B, NEW x \in R, NEW y \in B, NEW z \in BOOLEAN, NEW u \in BOOLEAN, NEW v \in BOOLEAN
        PROVE  [ring |-> x, batch |-> y, stop |-> z, up |-> u, outage |-> v]
                  \in [ring : R, batch : B, stop : BOOLEAN, up : BOOLEAN, outage : BOOLEAN]
    OBVIOUS
  <2> QED BY <1>2, <1>5, <1>6, <2>1 DEF Channel
<1>8. k.ring = r /\ k.batch = bs /\ k.up = p /\ k.outage = q BY <1>6
<1>9. ~k.up => k.outage BY <1>3, <1>8, Zenon
<1>10. Len(k.ring) = 0 BY <1>5, <1>8
<1> QED BY <1>2, <1>7, <1>8, <1>9, <1>10

----------------------------------------------------------------------------
(* Sending.                                                                *)

\* What is in messages one after the other.
LEMMA OutConcat ==
    ASSUME NEW p \in Seq(Message), NEW q \in Seq(Message)
    PROVE  /\ p \o q \in Seq(Message) /\ Len(p \o q) = Len(p) + Len(q)
           /\ \A i \in 1 .. Len(p) : (p \o q)[i] = p[i]
           /\ \A i \in 1 .. Len(q) : (p \o q)[Len(p) + i] = q[i]
           /\ Out(p \o q) = Out(p) \cup Out(q)
<1>1. /\ p \o q \in Seq(Message) /\ Len(p \o q) = Len(p) + Len(q)
      /\ Len(p) \in Nat /\ Len(q) \in Nat
      /\ \A i \in 1 .. Len(p) : (p \o q)[i] = p[i]
      /\ \A i \in 1 .. Len(q) : (p \o q)[Len(p) + i] = q[i]
  OBVIOUS
<1>2. PICK r : r = p \o q OBVIOUS
<1>3. ASSUME NEW x \in Out(r) PROVE x \in Out(p) \cup Out(q)
  <2>1. PICK i \in 1 .. Len(r) : x \in Numbers(r[i]) BY <1>3 DEF Out
  <2>2. CASE i \in 1 .. Len(p) BY <1>1, <1>2, <2>1, <2>2 DEF Out
  <2>3. CASE i \notin 1 .. Len(p)
    <3>1. i - Len(p) \in 1 .. Len(q) /\ i = Len(p) + (i - Len(p)) BY <1>1, <1>2, <2>1, <2>3
    <3>2. r[i] = q[i - Len(p)] BY <1>1, <1>2, <3>1
    <3> QED BY <2>1, <3>1, <3>2 DEF Out
  <2> QED BY <2>2, <2>3
<1>4. ASSUME NEW x \in Out(p) PROVE x \in Out(r)
  <2>1. PICK i \in 1 .. Len(p) : x \in Numbers(p[i]) BY <1>4 DEF Out
  <2>2. i \in 1 .. Len(r) /\ r[i] = p[i] BY <1>1, <1>2
  <2> QED BY <2>1, <2>2 DEF Out
<1>5. ASSUME NEW x \in Out(q) PROVE x \in Out(r)
  <2>1. PICK i \in 1 .. Len(q) : x \in Numbers(q[i]) BY <1>5 DEF Out
  <2>2. Len(p) + i \in 1 .. Len(r) /\ r[Len(p) + i] = q[i] BY <1>1, <1>2
  <2> QED BY <2>1, <2>2 DEF Out
<1> QED BY <1>1, <1>2, <1>3, <1>4, <1>5

\* A write has a file and a channel.
LEMMA WriteFacts ==
    ASSUME DataTypes, NEW n \in 1 .. Len(writes)
    PROVE  n \in Nat /\ writes[n].uid \in Nat /\ writes[n].ctl \in Ctls
<1>1. writes \in Seq([uid : Nat, ctl : Ctls]) BY DEF DataTypes
<1>2. ASSUME NEW T, writes \in Seq(T) PROVE writes[n] \in T BY <1>2
<1>3. writes[n] \in [uid : Nat, ctl : Ctls] BY <1>1, <1>2
<1>4. n \in Nat OBVIOUS
<1> QED BY <1>3, <1>4

\* Batches are sent, or there is no connection.
LEMMA Sending ==
    ASSUME DataInv, NEW c \in Ctls, NEW messages, NEW fd, BatchesOf(c, messages, fd),
           SendAll(c, messages), writes' = writes, exit'.alone => exit.alone
    PROVE  /\ sent' \in Seq(Message) /\ dropped' \in Seq(Message)
           /\ \A x \in Out(messages) : \E i \in 1 .. Len(messages) : x \in Held(c, fd[i])
           /\ \A i \in 1 .. Len(messages) : Held(c, fd[i]) \subseteq Out(messages)
           /\ Out(sent)' = IF ctl[c].up THEN Out(sent) \cup Out(messages) ELSE Out(sent)
           /\ Out(dropped)' = IF ctl[c].up THEN Out(dropped) ELSE Out(dropped) \cup Out(messages)
           /\ \A i \in 1 .. Len(sent') : InOrder(sent'[i])
           /\ SentInTurn'
<1>1. /\ sent \in Seq(Message) /\ dropped \in Seq(Message) /\ messages \in Seq(Message)
      /\ ctl[c].up \in BOOLEAN
  BY DEF DataInv, DataTypes, Channel, BatchesOf
<1>2. /\ \A x \in Out(messages) : \E i \in 1 .. Len(messages) : x \in Held(c, fd[i])
      /\ \A i \in 1 .. Len(messages) : Held(c, fd[i]) \subseteq Out(messages)
  BY DEF Out, Held, BatchesOf
<1>3. CASE ~ctl[c].up
  <2>1. sent' = sent /\ dropped' = dropped \o messages BY <1>3 DEF SendAll
  <2>2. Out(dropped)' = Out(dropped) \cup Out(messages) /\ dropped' \in Seq(Message)
    BY <1>1, <2>1, OutConcat
  <2>3. Out(sent)' = Out(sent) BY <2>1
  <2>4. \A i \in 1 .. Len(sent') : InOrder(sent'[i]) BY <2>1 DEF DataInv, SentOlder
  <2>5. SentInTurn' BY <2>1 DEF DataInv, SentInTurn
  <2> QED BY <1>1, <1>2, <1>3, <2>1, <2>2, <2>3, <2>4, <2>5
<1>4. CASE ctl[c].up
  <2>1. sent' = sent \o messages /\ dropped' = dropped BY <1>4 DEF SendAll
  <2>2. /\ sent' \in Seq(Message) /\ Len(sent') = Len(sent) + Len(messages)
        /\ \A i \in 1 .. Len(sent) : sent'[i] = sent[i]
        /\ \A i \in 1 .. Len(messages) : sent'[Len(sent) + i] = messages[i]
        /\ Out(sent)' = Out(sent) \cup Out(messages)
    BY <1>1, <2>1, OutConcat
  <2>3. Len(sent) \in Nat /\ Len(messages) \in Nat BY <1>1
  <2>4. ASSUME NEW i \in 1 .. Len(sent')
        PROVE  \/ i \in 1 .. Len(sent) /\ sent'[i] = sent[i]
               \/ /\ i - Len(sent) \in 1 .. Len(messages)
                  /\ sent'[i] = messages[i - Len(sent)]
    <3>1. CASE i \in 1 .. Len(sent) BY <2>2, <3>1
    <3>2. CASE i \notin 1 .. Len(sent)
      <4>1. i - Len(sent) \in 1 .. Len(messages) /\ i = Len(sent) + (i - Len(sent))
        BY <2>2, <2>3, <3>2
      <4> QED BY <2>2, <4>1
    <3> QED BY <3>1, <3>2
  <2>5. ASSUME NEW i \in 1 .. Len(messages) PROVE InOrder(messages[i])
    BY DEF BatchesOf, DataInv, BatchInOrder, BatchOrdered, InOrder
  <2>6. \A i \in 1 .. Len(sent') : InOrder(sent'[i])
    BY <2>4, <2>5 DEF DataInv, SentOlder
  <2>7. ASSUME NEW i \in 1 .. Len(sent'), NEW j \in 1 .. Len(sent'), i < j, sent'[i].uid = sent'[j].uid,
               NEW x \in Numbers(sent'[i]), NEW y \in Numbers(sent'[j]),
               exit'.alone \/ writes[x].ctl = writes[y].ctl
        PROVE  x < y
    <3>1. exit.alone \/ writes[x].ctl = writes[y].ctl BY <2>7
    <3>2. CASE i \in 1 .. Len(sent) /\ j \in 1 .. Len(sent)
      <4>1. sent'[i] = sent[i] /\ sent'[j] = sent[j] BY <2>2, <3>2
      <4> QED BY <2>7, <3>1, <3>2, <4>1 DEF DataInv, SentInTurn, TurnInChannel, TurnInAll
    <3>3. CASE i \in 1 .. Len(sent) /\ j \notin 1 .. Len(sent)
      <4>1. PICK k \in 1 .. Len(messages) : sent'[j] = messages[k] BY <2>4, <3>3
      <4>2. sent'[i] = sent[i] BY <2>2, <3>3
      <4>3. x \in Out(sent) BY <2>7, <3>3, <4>2 DEF Out
      <4>4. y \in Held(c, fd[k]) /\ fd[k] \in Fds BY <2>7, <4>1 DEF Held, BatchesOf
      <4>5. InOrder(sent[i]) /\ InOrder(messages[k]) BY <2>5, <3>3 DEF DataInv, SentOlder
      <4>6. writes[x].uid = sent[i].uid BY <2>7, <4>2, <4>5, SMTT(30) DEF InOrder, Ordered, Numbers
      <4>7. writes[y].uid = messages[k].uid
        BY <2>7, <4>1, <4>5, SMTT(30) DEF InOrder, Ordered, Numbers
      <4>8. writes[y].ctl = c BY <4>4 DEF DataInv, BatchInOrder, BatchOrdered, Held
      <4>9. writes[x].uid = writes[y].uid BY <2>7, <4>1, <4>2, <4>6, <4>7
      <4> QED BY <3>1, <4>3, <4>4, <4>8, <4>9 DEF DataInv, SentOlder
    <3>4. CASE i \notin 1 .. Len(sent)
      <4>1. PICK k \in 1 .. Len(messages) : sent'[i] = messages[k] /\ k = i - Len(sent)
        BY <2>4, <3>4
      <4>2. j \notin 1 .. Len(sent) BY <2>2, <2>3, <2>7, <3>4
      <4>3. PICK l \in 1 .. Len(messages) : sent'[j] = messages[l] /\ l = j - Len(sent)
        BY <2>4, <4>2
      <4>4. k # l BY <2>2, <2>3, <2>7, <4>1, <4>3
      <4>5. PICK f, g \in Fds : f = fd[k] /\ g = fd[l] BY DEF BatchesOf
      <4>6. f # g BY <4>4, <4>5 DEF BatchesOf
      <4>7. /\ messages[k] = ctl[c].batch[f] /\ ctl[c].batch[f].stream
            /\ messages[l] = ctl[c].batch[g] /\ ctl[c].batch[g].stream
        BY <4>5 DEF BatchesOf
      <4>8. ctl[c].batch[f].uid = ctl[c].batch[g].uid BY <2>7, <4>1, <4>3, <4>7
      <4>9. PICK u \in Nat : u = ctl[c].batch[f].uid
        BY DEF DataInv, DataTypes, Channel, Message
      <4>10. AtHome(f, u) /\ AtHome(g, u) BY <4>7, <4>8, <4>9 DEF AtHome
      <4> QED BY <4>6, <4>10 DEF DataInv, OneHome
    <3> QED BY <3>2, <3>3, <3>4
  <2>8. TurnInChannel(sent', writes') BY <2>7 DEF TurnInChannel
  <2>9. exit'.alone => TurnInAll(sent') BY <2>7 DEF TurnInAll
  <2>10. SentInTurn' BY <2>8, <2>9 DEF SentInTurn
  <2> QED BY <1>1, <1>2, <1>4, <2>1, <2>2, <2>6, <2>10
<1> QED BY <1>1, <1>3, <1>4

\* All batches of a channel are sent, and there are none.
LEMMA FlushKeeps ==
    ASSUME DataInv, NEW c \in Ctls, SendAll(c, Batches(c)),
           ctl' \in [Ctls -> Channel], \A x \in Ctls : ctl'[x].ring = ctl[x].ring,
           ctl'[c].batch = [f \in Fds |-> NoBatch], \A x \in Ctls \ {c} : ctl'[x].batch = ctl[x].batch,
           UNCHANGED <<g_ctl, fileUid, clock, writing, writes>>,
           exit'.alone => exit.alone /\ (Active' = Active \/ c = Active)
    PROVE  /\ DataInv' /\ \A f \in Fds : ~ctl'[c].batch[f].stream
           /\ \A x \in Out(dropped)' : x \in Out(dropped) \/ (~ctl[c].up /\ writes[x].ctl = c)
<1> DEFINE messages == Batches(c)
           fd == Ascending(Streams(c))
<1>1. /\ BatchesOf(c, messages, fd)
      /\ \A f \in Fds : ctl[c].batch[f].stream => \E i \in 1 .. Len(messages) : fd[i] = f
  BY BatchesFacts DEF DataInv
<1> HIDE DEF messages, fd
<1>2. /\ sent' \in Seq(Message) /\ dropped' \in Seq(Message)
      /\ \A x \in Out(messages) : \E i \in 1 .. Len(messages) : x \in Held(c, fd[i])
      /\ \A i \in 1 .. Len(messages) : Held(c, fd[i]) \subseteq Out(messages)
      /\ Out(sent)' = IF ctl[c].up THEN Out(sent) \cup Out(messages) ELSE Out(sent)
      /\ Out(dropped)' = IF ctl[c].up THEN Out(dropped) ELSE Out(dropped) \cup Out(messages)
      /\ \A i \in 1 .. Len(sent') : InOrder(sent'[i])
      /\ SentInTurn'
  BY <1>1, Sending DEF messages
<1>3. /\ \A f \in Fds : ctl'[c].batch[f] = NoBatch
      /\ \A x \in Ctls \ {c}, f \in Fds : ctl'[x].batch[f] = ctl[x].batch[f]
  OBVIOUS
<1>4. \A x \in Ctls : InRing(x)' = InRing(x) BY DEF InRing
<1>5. /\ \A f \in Fds : Held(c, f)' = {} /\ ~ctl'[c].batch[f].stream
      /\ \A x \in Ctls \ {c}, f \in Fds : Held(x, f)' = Held(x, f)
  BY <1>3 DEF Held, Numbers, NoBatch
<1>6. \A x \in Out(messages) : \E f \in Fds : x \in Held(c, f) /\ ctl[c].batch[f].stream
  BY <1>1, <1>2 DEF BatchesOf
<1>7. \A f \in Fds : Held(c, f) \subseteq Out(messages)
  <2> SUFFICES ASSUME NEW f \in Fds, NEW x \in Held(c, f) PROVE x \in Out(messages) OBVIOUS
  <2>1. Len(ctl[c].batch[f].data) # 0 BY DEF Held, Numbers
  <2>2. ctl[c].batch[f].stream BY <2>1 DEF DataInv, BatchInOrder, BatchOrdered
  <2> QED BY <1>1, <1>2, <2>2
<1>17. \A x \in Out(messages) : x \in 1 .. Len(writes)
  BY <1>6 DEF DataInv, BatchInOrder, BatchOrdered, Ordered, Held, Numbers
<1>18. \A x \in Out(sent) : x \in 1 .. Len(writes)
  BY DEF DataInv, SentOlder, InOrder, Ordered, Out, Numbers
<1>8. DataTypes' BY <1>2 DEF DataInv, DataTypes
<1>9. ASSUME NEW x \in Ctls PROVE RingInOrder(x)' BY DEF DataInv, RingInOrder
<1>10. ASSUME NEW x \in Ctls, NEW f \in Fds PROVE BatchInOrder(x, f)'
  <2>1. CASE x = c
    BY <1>3, <2>1, ConsoleAssumption DEF BatchInOrder, BatchOrdered, Ordered, NoBatch, Numbers
  <2>2. CASE x # c
    BY <1>3, <2>2 DEF DataInv, BatchInOrder
  <2> QED BY <2>1, <2>2
<1>11. SentOlder'
  <2>1. \A i \in 1 .. Len(sent') : InOrder(sent[i])' BY <1>2 DEF InOrder
  <2>2. ASSUME NEW x \in Out(sent)', NEW y \in InRing(writes[x].ctl)' PROVE x < y
    <3>1. writes[x].ctl \in Ctls /\ y \in InRing(writes[x].ctl)
      <4>1. x \in 1 .. Len(writes) BY <1>2, <1>17, <1>18
      <4>2. writes[x].ctl \in Ctls BY <4>1, WriteFacts DEF DataInv
      <4>3. y \in Queued(ctl'[writes[x].ctl].ring) BY <2>2 DEF InRing
      <4> QED BY <4>2, <4>3 DEF InRing
    <3>2. CASE x \in Out(sent) BY <3>1, <3>2 DEF DataInv, SentOlder
    <3>3. CASE x \in Out(messages)
      <4>1. PICK f \in Fds : x \in Held(c, f) BY <1>6, <3>3
      <4>2. writes[x].ctl = c BY <4>1 DEF DataInv, BatchInOrder, BatchOrdered, Held
      <4> QED BY <3>1, <4>1, <4>2 DEF DataInv, BatchInOrder, BatchOrdered, Held, InRing
    <3> QED BY <1>2, <3>2, <3>3
  <2>3. ASSUME NEW x \in Out(sent)', NEW z \in Ctls, NEW f \in Fds, NEW y \in Held(z, f)',
               writes[x].uid = writes[y].uid, exit'.alone \/ writes[x].ctl = z
        PROVE  x < y
    <3>1. z # c /\ y \in Held(z, f) BY <1>5, <2>3
    <3>2. exit.alone \/ writes[x].ctl = z BY <2>3
    <3>3. CASE x \in Out(sent) BY <2>3, <3>1, <3>2, <3>3 DEF DataInv, SentOlder
    <3>4. CASE x \in Out(messages)
      <4>1. PICK g \in Fds : x \in Held(c, g) /\ ctl[c].batch[g].stream BY <1>6, <3>4
      <4>2. writes[x].ctl = c BY <4>1 DEF DataInv, BatchInOrder, BatchOrdered, Held
      <4>3. exit.alone BY <3>1, <3>2, <4>2
      <4>4. Len(ctl[z].batch[f].data) # 0 BY <3>1 DEF Held, Numbers
      <4>5. ctl[z].batch[f].stream BY <4>4 DEF DataInv, BatchInOrder, BatchOrdered
      <4> QED BY <3>1, <4>1, <4>3, <4>5 DEF DataInv, OneActive
    <3> QED BY <1>2, <3>3, <3>4
  <2>4. ASSUME NEW x \in Out(sent)', NEW z \in Ctls, NEW f \in Fds, NEW y \in Held(z, f)'
        PROVE  writes'[x].uid = writes'[y].uid /\ (exit'.alone \/ writes'[x].ctl = z) => x < y
    BY <2>3
  <2>5. (\A x \in Out(sent) : \A y \in InRing(writes[x].ctl) : x < y)' BY <2>2
  <2>6. (\A x \in Out(sent) : \A z \in Ctls, f \in Fds : \A y \in Held(z, f) :
           writes[x].uid = writes[y].uid /\ (exit.alone \/ writes[x].ctl = z) => x < y)'
    BY <2>4
  <2> QED BY <2>1, <2>5, <2>6 DEF SentOlder
<1>12. DroppedKnown' BY <1>2, <1>17 DEF DataInv, DroppedKnown
<1>13. OneHome'
  <2>1. ASSUME NEW f \in Fds, NEW u \in Nat, AtHome(f, u)' PROVE AtHome(f, u)
    BY <1>3, <1>5, <2>1 DEF AtHome
  <2> QED BY <2>1 DEF DataInv, OneHome
<1>14. FutureEmpty' BY <1>3, <1>5 DEF DataInv, FutureEmpty
<1>15. OneActive'
  <2> SUFFICES ASSUME exit'.alone PROVE OneActive' BY DEF OneActive
  <2>1. exit.alone /\ (Active' = Active \/ c = Active) OBVIOUS
  <2>2. ASSUME NEW x \in Ctls, NEW f \in Fds, ctl'[x].batch[f].stream PROVE x = Active'
    <3>1. x # c /\ ctl[x].batch[f].stream BY <1>3, <1>5, <2>2
    <3>2. x = Active BY <2>1, <3>1 DEF DataInv, OneActive
    <3> QED BY <2>1, <3>1, <3>2
  <2>3. ASSUME NEW n \in 1 .. Len(writes), NEW x \in Out(sent)', writes[x].ctl < writes[n].ctl
        PROVE  x < n
    <3>1. CASE x \in Out(sent) BY <2>1, <2>3, <3>1 DEF DataInv, OneActive
    <3>2. CASE x \in Out(messages)
      <4>1. PICK f \in Fds : x \in Held(c, f) BY <1>6, <3>2
      <4>2. writes[x].ctl = c BY <4>1 DEF DataInv, BatchInOrder, BatchOrdered, Held
      <4> QED BY <2>1, <2>3, <4>1, <4>2 DEF DataInv, OneActive
    <3> QED BY <1>2, <3>1, <3>2
  <2>4. ASSUME NEW n \in 1 .. Len(writes), NEW z \in Ctls, NEW f \in Fds, NEW x \in Held(z, f)',
               z < writes[n].ctl
        PROVE  x < n
    BY <1>5, <2>1, <2>4 DEF DataInv, OneActive
  <2> QED BY <2>2, <2>3, <2>4 DEF OneActive
<1>16. Conserved'
  <2> SUFFICES ASSUME NEW n \in 1 .. Len(writes)
               PROVE  \/ n \in Out(sent)' \/ n \in Out(dropped)'
                      \/ n \in InRing(writes[n].ctl)'
                      \/ \E f \in Fds : n \in Held(writes[n].ctl, f)'
    BY DEF Conserved
  <2>1. writes[n].ctl \in Ctls BY WriteFacts DEF DataInv
  <2>2. CASE n \in Out(sent) \/ n \in Out(dropped) BY <1>2, <2>2
  <2>3. CASE n \in InRing(writes[n].ctl) BY <1>4, <2>1, <2>3
  <2>4. CASE \E f \in Fds : n \in Held(writes[n].ctl, f) BY <1>2, <1>5, <1>7, <2>1, <2>4
  <2> QED BY <2>2, <2>3, <2>4 DEF DataInv, Conserved
<1>19. \A x \in Out(dropped)' : x \in Out(dropped) \/ (~ctl[c].up /\ writes[x].ctl = c)
  <2>1. \A x \in Out(messages) : writes[x].ctl = c
    BY <1>6 DEF DataInv, BatchInOrder, BatchOrdered, Held
  <2> QED BY <1>2, <2>1
<1>20. DataInv' BY <1>2, <1>8, <1>9, <1>10, <1>11, <1>12, <1>13, <1>14, <1>15, <1>16 DEF DataInv
<1> QED BY <1>5, <1>19, <1>20

----------------------------------------------------------------------------
(* Steps that leave rings and batches alone.                               *)

\* What threads and descriptors do before a write is in a ring.
LEMMA StillKeeps ==
    ASSUME DataInv, DataTypes', OneHome',
           \A x \in Ctls : ctl'[x].ring = ctl[x].ring /\ ctl'[x].batch = ctl[x].batch,
           \A t \in Writers : writing'[t].at = "put" => writing'[t].ctl <= g_ctl,
           UNCHANGED <<g_ctl, writes, sent, dropped>>,
           exit'.alone => exit.alone /\ Active' = Active
    PROVE  DataInv'
<1>1. \A x \in Ctls : InRing(x)' = InRing(x) /\ \A f \in Fds : Held(x, f)' = Held(x, f)
  BY DEF InRing, Held
<1>2. Out(sent)' = Out(sent) /\ Out(dropped)' = Out(dropped) OBVIOUS
<1>3. \A x \in Ctls : RingInOrder(x)' BY DEF DataInv, RingInOrder
<1>4. \A x \in Ctls, f \in Fds : BatchInOrder(x, f)' BY DEF DataInv, BatchInOrder
<1>5. SentOlder'
  <2>1. (\A i \in 1 .. Len(sent) : InOrder(sent[i]))' BY DEF DataInv, SentOlder, InOrder
  <2>2. ASSUME NEW x \in Out(sent), NEW y \in InRing(writes[x].ctl)' PROVE x < y
    <3>1. x \in 1 .. Len(writes) BY DEF DataInv, SentOlder, InOrder, Ordered, Out, Numbers
    <3>2. writes[x].ctl \in Ctls BY <3>1, WriteFacts DEF DataInv
    <3>3. y \in Queued(ctl'[writes[x].ctl].ring) BY <2>2 DEF InRing
    <3>4. y \in InRing(writes[x].ctl) BY <3>2, <3>3 DEF InRing
    <3> QED BY <3>4 DEF DataInv, SentOlder
  <2>3. (\A x \in Out(sent) : \A y \in InRing(writes[x].ctl) : x < y)' BY <1>2, <2>2
  <2>4. ASSUME NEW x \in Out(sent), NEW z \in Ctls, NEW f \in Fds, NEW y \in Held(z, f)',
               writes[x].uid = writes[y].uid, exit'.alone \/ writes[x].ctl = z
        PROVE  x < y
    BY <1>1, <2>4 DEF DataInv, SentOlder
  <2>5. (\A x \in Out(sent) : \A z \in Ctls, f \in Fds : \A y \in Held(z, f) :
           writes[x].uid = writes[y].uid /\ (exit.alone \/ writes[x].ctl = z) => x < y)'
    BY <1>2, <2>4
  <2> QED BY <2>1, <2>3, <2>5 DEF SentOlder
<1>6. DroppedKnown' BY <1>2 DEF DataInv, DroppedKnown
<1>7. SentInTurn' BY DEF DataInv, SentInTurn
<1>8. FutureEmpty' BY DEF DataInv, FutureEmpty
<1>9. OneActive'
  <2> SUFFICES ASSUME exit'.alone PROVE OneActive' BY DEF OneActive
  <2>1. exit.alone /\ Active' = Active OBVIOUS
  <2>2. \A x \in Ctls, f \in Fds : ctl'[x].batch[f].stream => x = Active'
    BY <2>1 DEF DataInv, OneActive
  <2>3. ASSUME NEW n \in 1 .. Len(writes)
        PROVE  /\ \A x \in Out(sent) : writes[x].ctl < writes[n].ctl => x < n
               /\ \A c \in Ctls, f \in Fds : \A x \in Held(c, f)' : c < writes[n].ctl => x < n
    BY <1>1, <2>1 DEF DataInv, OneActive
  <2> QED BY <1>2, <2>2, <2>3 DEF OneActive
<1>10. Conserved'
  <2> SUFFICES ASSUME NEW n \in 1 .. Len(writes)
               PROVE  \/ n \in Out(sent)' \/ n \in Out(dropped)'
                      \/ n \in InRing(writes[n].ctl)'
                      \/ \E f \in Fds : n \in Held(writes[n].ctl, f)'
    BY DEF Conserved
  <2>1. writes[n].ctl \in Ctls BY WriteFacts DEF DataInv
  <2> QED BY <1>1, <1>2, <2>1 DEF DataInv, Conserved
<1> QED BY <1>3, <1>4, <1>5, <1>6, <1>7, <1>8, <1>9, <1>10 DEF DataInv

\* Steps that set flags only.
LEMMA QuietKeeps ==
    ASSUME DataInv, ctl' \in [Ctls -> Channel],
           \A x \in Ctls : ctl'[x].ring = ctl[x].ring /\ ctl'[x].batch = ctl[x].batch,
           UNCHANGED <<g_ctl, fileUid, clock, writing, writes, sent, dropped>>,
           exit'.alone => exit.alone /\ Active' = Active
    PROVE  DataInv'
<1>1. DataTypes' BY DEF DataInv, DataTypes
<1>2. ASSUME NEW f \in Fds, NEW u \in Nat, AtHome(f, u)' PROVE AtHome(f, u) BY <1>2 DEF AtHome
<1>3. OneHome' BY <1>2 DEF DataInv, OneHome
<1>4. \A t \in Writers : writing'[t].at = "put" => writing'[t].ctl <= g_ctl
  BY DEF DataInv, FutureEmpty
<1> QED BY <1>1, <1>3, <1>4, StillKeeps

\* A thread begins a write.
LEMMA CallKeeps ==
    ASSUME DataInv, NEW t \in Writers, NEW f \in Fds, NEW len \in Lens, SendLogCall(t, f, len),
           UNCHANGED <<exit, configuring>>
    PROVE  DataInv'
<1>1. PICK w : w = [at |-> "put", fd |-> f, uid |-> fileUid[f], len |-> len, ctl |-> g_ctl] OBVIOUS
<1>2. /\ w \in Writing /\ w.at = "put" /\ w.fd = f /\ w.uid = fileUid[f] /\ w.ctl = g_ctl
      /\ w.ctl \in Ctls
  BY <1>1, ReportingAssumption DEF DataInv, DataTypes, Writing
<1>3. writing' = [writing EXCEPT ![t] = w] BY <1>1 DEF SendLogCall
<1>4. UNCHANGED <<g_ctl, ctl, fileUid, clock, writes, sent, dropped>> BY DEF SendLogCall
<1>5. writing' \in [Writers -> Writing] /\ \A s \in Writers : writing'[s] = IF s = t THEN w ELSE writing[s]
  BY <1>2, <1>3 DEF DataInv, DataTypes
<1>6. DataTypes' BY <1>2, <1>4, <1>5 DEF DataInv, DataTypes
<1>7. ASSUME NEW g \in Fds, NEW u \in Nat, AtHome(g, u)' PROVE AtHome(g, u)
  BY <1>2, <1>4, <1>5, <1>7 DEF AtHome
<1>8. OneHome' BY <1>4, <1>7 DEF DataInv, OneHome
<1>9. g_ctl \in Nat BY DEF DataInv, DataTypes, Ctls
<1>10. \A s \in Writers : writing'[s].at = "put" => writing'[s].ctl <= g_ctl
  BY <1>2, <1>5, <1>9 DEF DataInv, FutureEmpty
<1>11. Active' = Active BY <1>4 DEF Active
<1> QED BY <1>4, <1>6, <1>8, <1>10, <1>11, StillKeeps

\* A descriptor is used for another file.
LEMMA OpenKeeps ==
    ASSUME DataInv, NEW f \in Fds, doOpen(f), UNCHANGED <<exit, configuring>>
    PROVE  DataInv'
<1>1. /\ clock \in Nat /\ clock' = clock + 1 /\ fileUid' = [fileUid EXCEPT ![f] = clock + 1]
      /\ UNCHANGED <<g_ctl, ctl, writing, writes, sent, dropped>>
  BY DEF doOpen, DataInv, DataTypes
<1>2. /\ fileUid' \in [Fds -> Nat]
      /\ \A g \in Fds : fileUid'[g] = IF g = f THEN clock + 1 ELSE fileUid[g]
  BY <1>1 DEF DataInv, DataTypes
<1>3. DataTypes' BY <1>1, <1>2 DEF DataInv, DataTypes
<1>4. ASSUME NEW g \in Fds, NEW u \in Nat, AtHome(g, u)'
      PROVE  AtHome(g, u) \/ (g = f /\ u = clock + 1)
  BY <1>1, <1>2, <1>4 DEF AtHome
<1>5. ASSUME NEW g \in Fds, NEW u \in Nat, AtHome(g, u) PROVE u <= clock /\ u # clock + 1
  <2>1. u <= clock BY <1>5 DEF DataInv, OneHome
  <2> QED BY <1>1, <2>1
<1>6. OneHome'
  <2> SUFFICES ASSUME NEW g \in Fds, NEW h \in Fds, NEW u \in Nat, AtHome(g, u)'
               PROVE  u <= clock' /\ (AtHome(h, u)' => g = h)
    BY DEF OneHome
  <2>1. u <= clock' BY <1>1, <1>4, <1>5
  <2>2. ASSUME AtHome(h, u)' PROVE g = h
    <3>1. CASE u = clock + 1 BY <1>4, <1>5, <2>2, <3>1
    <3>2. CASE u # clock + 1 BY <1>4, <2>2, <3>2 DEF DataInv, OneHome
    <3> QED BY <3>1, <3>2
  <2> QED BY <2>1, <2>2
<1>7. \A s \in Writers : writing'[s].at = "put" => writing'[s].ctl <= g_ctl
  BY <1>1 DEF DataInv, FutureEmpty
<1>8. Active' = Active BY <1>1 DEF Active
<1> QED BY <1>1, <1>3, <1>6, <1>7, <1>8, StillKeeps

----------------------------------------------------------------------------
(* A write reaches the ring.                                               *)

\* Whatever has a number is a write, to the channel where it is found.
LEMMA Known ==
    ASSUME DataInv
    PROVE  /\ \A x \in Out(sent) \cup Out(dropped) : x \in 1 .. Len(writes)
           /\ \A c \in Ctls : \A x \in InRing(c) : x \in 1 .. Len(writes) /\ writes[x].ctl = c
           /\ \A c \in Ctls, f \in Fds : \A x \in Held(c, f) :
                 /\ x \in 1 .. Len(writes) /\ writes[x].ctl = c
                 /\ writes[x].uid = ctl[c].batch[f].uid /\ ctl[c].batch[f].stream
<1>1. \A x \in Out(sent) : x \in 1 .. Len(writes)
  BY DEF DataInv, SentOlder, InOrder, Ordered, Out, Numbers
<1>2. \A x \in Out(dropped) : x \in 1 .. Len(writes) BY DEF DataInv, DroppedKnown
<1>3. \A c \in Ctls : \A x \in InRing(c) : x \in 1 .. Len(writes) /\ writes[x].ctl = c
  BY DEF DataInv, RingInOrder, RingOrdered, InRing, Queued
<1>4. ASSUME NEW c \in Ctls, NEW f \in Fds, NEW x \in Held(c, f)
      PROVE  /\ x \in 1 .. Len(writes) /\ writes[x].ctl = c
             /\ writes[x].uid = ctl[c].batch[f].uid /\ ctl[c].batch[f].stream
  <2>1. BatchOrdered(ctl[c].batch[f], ctl[c].ring, c, writes) BY DEF DataInv, BatchInOrder
  <2>2. PICK b : b = ctl[c].batch[f] OBVIOUS
  <2>3. PICK k \in 1 .. Len(b.data) : x = b.data[k] BY <2>2 DEF Held, Numbers
  <2>4. x \in 1 .. Len(writes) /\ writes[x].uid = b.uid BY <2>1, <2>2, <2>3 DEF BatchOrdered, Ordered
  <2>5. writes[x].ctl = c BY <2>1, <2>2 DEF BatchOrdered, Held
  <2>6. Len(b.data) # 0 BY <2>3
  <2>7. b.stream BY <2>1, <2>2, <2>6 DEF BatchOrdered
  <2> QED BY <2>2, <2>4, <2>5, <2>7
<1> QED BY <1>1, <1>2, <1>3, <1>4

\* A thread ends a write.
LEMMA PutKeeps ==
    ASSUME DataInv, NEW t \in Writers, SendLogPut(t), UNCHANGED <<exit, configuring>>
    PROVE  /\ DataInv'
           /\ Len(writes) <= Len(writes') /\ Len(writes) \in Nat /\ Len(writes') \in Nat
           /\ \A n \in 1 .. Len(writes) : writes'[n] = writes[n]
           /\ \A c \in Ctls : \A x \in InRing(c)' : x \in InRing(c) \/ Len(writes) < x
           /\ \A c \in Ctls : /\ ctl'[c].batch = ctl[c].batch /\ ctl'[c].up = ctl[c].up
                              /\ ctl'[c].outage = ctl[c].outage /\ ctl'[c].stop = ctl[c].stop
<1>1. PICK w : w = writing[t] OBVIOUS
<1>2. /\ w \in Writing /\ w.at = "put" /\ w.fd \in Fds /\ w.uid \in Nat /\ w.len \in Nat /\ w.ctl \in Ctls
      /\ w.ctl <= g_ctl
  BY <1>1 DEF SendLogPut, DataInv, DataTypes, Writing, FutureEmpty
<1>3. /\ writing' = [writing EXCEPT ![t] = NotWriting]
      /\ UNCHANGED <<g_ctl, fileUid, clock, sent, dropped>>
  BY DEF SendLogPut
<1>4. NotWriting \in Writing /\ NotWriting.at # "put" BY DEF NotWriting, Writing
<1>5. /\ writing' \in [Writers -> Writing]
      /\ \A s \in Writers : writing'[s].at = "put" => s # t /\ writing'[s] = writing[s]
  BY <1>3, <1>4 DEF DataInv, DataTypes
<1>6. Active' = Active BY <1>3 DEF Active
<1>7. writes \in Seq([uid : Nat, ctl : Ctls]) /\ Len(writes) \in Nat BY DEF DataInv, DataTypes
<1>8. CASE UNCHANGED <<writes, ctl>>
  <2>1. DataTypes' BY <1>3, <1>5, <1>8 DEF DataInv, DataTypes
  <2>2. ASSUME NEW f \in Fds, NEW u \in Nat, AtHome(f, u)' PROVE AtHome(f, u)
    BY <1>3, <1>5, <1>8, <2>2 DEF AtHome
  <2>3. OneHome' BY <1>3, <2>2 DEF DataInv, OneHome
  <2>4. \A s \in Writers : writing'[s].at = "put" => writing'[s].ctl <= g_ctl
    BY <1>5 DEF DataInv, FutureEmpty
  <2>5. DataInv' BY <1>3, <1>6, <1>8, <2>1, <2>3, <2>4, StillKeeps
  <2>6. \A c \in Ctls : InRing(c)' = InRing(c) BY <1>8 DEF InRing
  <2> QED BY <1>7, <1>8, <2>5, <2>6
<1>9. CASE ~UNCHANGED <<writes, ctl>>
  <2> DEFINE n == Len(writes) + 1
             v == [uid |-> w.uid, ctl |-> w.ctl]
             e == [n |-> n, fd |-> w.fd, uid |-> w.uid, len |-> w.len]
             c == w.ctl
             r == Append(ctl[c].ring, e)
  <2>1. writes' = Append(writes, v) BY <1>1, <1>9, Zenon DEF SendLogPut
  <2>2. PICK k : k = [ctl[c] EXCEPT !.ring = r] OBVIOUS
  <2>3. ctl' = [ctl EXCEPT ![c] = k] BY <1>1, <1>9, <2>2, Zenon DEF SendLogPut
  <2>4. n \in Nat /\ e \in Entry /\ v \in [uid : Nat, ctl : Ctls] /\ v.uid = w.uid /\ v.ctl = c
        /\ e.n = n /\ e.fd = w.fd /\ e.uid = w.uid
    BY <1>2, <1>7 DEF Entry
  <2> HIDE DEF v, e
  <2>5. ctl[c] \in Channel /\ ctl[c].ring \in Seq(Entry) BY <1>2 DEF DataInv, DataTypes, Channel
  <2>6. /\ r \in Seq(Entry) /\ Len(r) = Len(ctl[c].ring) + 1 /\ Len(ctl[c].ring) \in Nat
        /\ \A i \in 1 .. Len(ctl[c].ring) : r[i] = ctl[c].ring[i]
        /\ r[Len(ctl[c].ring) + 1] = e
    BY <2>4, <2>5
  <2> HIDE DEF r
  <2>7. /\ k \in Channel /\ k.ring = r /\ k.batch = ctl[c].batch /\ k.up = ctl[c].up
        /\ k.outage = ctl[c].outage /\ k.stop = ctl[c].stop
    BY <2>2, <2>5, <2>6, Zenon DEF Channel
  <2>8. /\ ctl' \in [Ctls -> Channel]
        /\ \A x \in Ctls : ctl'[x] = IF x = c THEN k ELSE ctl[x]
    BY <2>3, <2>7 DEF DataInv, DataTypes
  <2>9. /\ \A x \in Ctls : /\ ctl'[x].batch = ctl[x].batch /\ ctl'[x].up = ctl[x].up
                           /\ ctl'[x].outage = ctl[x].outage /\ ctl'[x].stop = ctl[x].stop
                           /\ x # c => ctl'[x].ring = ctl[x].ring
        /\ ctl'[c].ring = r
    BY <1>2, <2>7, <2>8
  <2>10. /\ writes' \in Seq([uid : Nat, ctl : Ctls]) /\ Len(writes') = n
         /\ \A m \in 1 .. Len(writes) : writes'[m] = writes[m]
         /\ writes'[n] = v
    BY <1>7, <2>1, <2>4
  <2> HIDE DEF n
  <2>11. n = Len(writes) + 1 /\ n \in Nat /\ n \in 1 .. Len(writes') BY <1>7, <2>4, <2>10 DEF n
  <2>12. Queued(r) = Queued(ctl[c].ring) \cup {n}
    <3>1. ASSUME NEW x \in Queued(r) PROVE x \in Queued(ctl[c].ring) \cup {n}
      <4>1. PICK i \in 1 .. Len(r) : x = r[i].n BY <3>1 DEF Queued
      <4>2. CASE i \in 1 .. Len(ctl[c].ring) BY <2>6, <4>1, <4>2 DEF Queued
      <4>3. CASE i = Len(ctl[c].ring) + 1 BY <2>4, <2>6, <4>1, <4>3
      <4> QED BY <2>6, <4>1, <4>2, <4>3, SMTT(30)
    <3>2. ASSUME NEW x \in Queued(ctl[c].ring) PROVE x \in Queued(r)
      <4>1. PICK i \in 1 .. Len(ctl[c].ring) : x = ctl[c].ring[i].n BY <3>2 DEF Queued
      <4>2. i \in 1 .. Len(r) /\ x = r[i].n BY <2>6, <4>1
      <4> QED BY <4>2 DEF Queued
    <3>3. n \in Queued(r)
      <4>1. Len(ctl[c].ring) + 1 \in 1 .. Len(r) /\ n = r[Len(ctl[c].ring) + 1].n BY <2>4, <2>6
      <4> QED BY <4>1 DEF Queued
    <3> QED BY <3>1, <3>2, <3>3
  <2>13. /\ InRing(c)' = InRing(c) \cup {n}
         /\ \A x \in Ctls \ {c} : InRing(x)' = InRing(x)
         /\ \A x \in Ctls, f \in Fds : Held(x, f)' = Held(x, f)
    BY <2>9, <2>12 DEF InRing, Held
  <2>14. Out(sent)' = Out(sent) /\ Out(dropped)' = Out(dropped) BY <1>3
  <2>15. ASSUME NEW m, Ordered(m, writes) PROVE Ordered(m, writes')
    <3>1. \A k1 \in 1 .. Len(m.data) : m.data[k1] \in 1 .. Len(writes)
      BY <2>15 DEF Ordered
    <3>2. \A x \in 1 .. Len(writes) : x \in 1 .. Len(writes') /\ writes'[x] = writes[x]
      BY <1>7, <2>10, <2>11
    <3> QED BY <2>15, <3>1, <3>2 DEF Ordered
  <2>16. \A x \in 1 .. Len(writes) : x \in Nat /\ x < n /\ x \in 1 .. Len(writes') /\ writes'[x] = writes[x]
    BY <1>7, <2>10, <2>11
  <2>17. DataTypes' BY <1>3, <1>5, <2>8, <2>10 DEF DataInv, DataTypes
  <2>29. /\ \A x \in Out(sent) \cup Out(dropped) : x \in 1 .. Len(writes)
         /\ \A z \in Ctls : \A x \in InRing(z) : x \in 1 .. Len(writes) /\ writes[x].ctl = z
         /\ \A z \in Ctls, f \in Fds : \A x \in Held(z, f) : x \in 1 .. Len(writes) /\ writes[x].ctl = z
    BY Known
  <2>18. ASSUME NEW x \in Ctls PROVE RingInOrder(x)'
    <3>1. RingOrdered(ctl[x].ring, x, writes) BY DEF DataInv, RingInOrder
    <3>2. CASE x # c
      <4>1. RingOrdered(ctl[x].ring, x, writes') BY <2>16, <3>1 DEF RingOrdered
      <4> QED BY <2>9, <3>2, <4>1 DEF RingInOrder
    <3>3. CASE x = c
      <4>1. ASSUME NEW i \in 1 .. Len(r)
            PROVE  \/ i \in 1 .. Len(ctl[c].ring) /\ r[i] = ctl[c].ring[i]
                   \/ i = Len(ctl[c].ring) + 1 /\ r[i] = e
        BY SMTT(30), <2>6
      <4>2. ASSUME NEW i \in 1 .. Len(r)
            PROVE  /\ r[i].n \in 1 .. Len(writes')
                   /\ writes'[r[i].n].uid = r[i].uid /\ writes'[r[i].n].ctl = c
        <5>1. CASE i \in 1 .. Len(ctl[c].ring) /\ r[i] = ctl[c].ring[i]
          <6>1. /\ r[i].n \in 1 .. Len(writes)
                /\ writes[r[i].n].uid = r[i].uid /\ writes[r[i].n].ctl = c
            BY <3>1, <3>3, <5>1, Zenon DEF RingOrdered
          <6> QED BY <2>16, <6>1
        <5>2. CASE r[i] = e BY <2>4, <2>10, <2>11, <5>2
        <5> QED BY <4>1, <5>1, <5>2
      <4>3. ASSUME NEW i \in 1 .. Len(r), NEW j \in 1 .. Len(r), i < j PROVE r[i].n < r[j].n
        <5>1. i \in 1 .. Len(ctl[c].ring) /\ r[i] = ctl[c].ring[i] BY <2>6, <4>1, <4>3
        <5>2. CASE j \in 1 .. Len(ctl[c].ring) /\ r[j] = ctl[c].ring[j]
          BY <3>1, <3>3, <4>3, <5>1, <5>2 DEF RingOrdered
        <5>3. CASE r[j] = e
          <6>1. ctl[c].ring[i].n \in 1 .. Len(writes) BY <3>1, <3>3, <5>1 DEF RingOrdered
          <6> QED BY <2>4, <2>16, <5>1, <5>3, <6>1
        <5> QED BY <4>1, <5>2, <5>3
      <4>4. RingOrdered(r, c, writes') BY <4>2, <4>3 DEF RingOrdered
      <4> QED BY <2>9, <3>3, <4>4 DEF RingInOrder
    <3> QED BY <3>2, <3>3
  <2>19. ASSUME NEW x \in Ctls, NEW f \in Fds PROVE BatchInOrder(x, f)'
    <3>1. PICK b : b = ctl[x].batch[f] OBVIOUS
    <3>2. BatchOrdered(b, ctl[x].ring, x, writes) BY <3>1 DEF DataInv, BatchInOrder
    <3>3. Ordered(b, writes') BY <2>15, <3>2 DEF BatchOrdered
    <3>4. \A y \in Numbers(b) : y \in 1 .. Len(writes) BY <2>29, <3>1 DEF Held
    <3>5. \A y \in Numbers(b) : writes'[y].ctl = x BY <2>16, <3>2, <3>4 DEF BatchOrdered
    <3>6. \A y \in Queued(ctl'[x].ring) : y \in Queued(ctl[x].ring) \/ y = n BY <2>9, <2>12
    <3>7. \A y \in Numbers(b) : \A z \in Queued(ctl'[x].ring) : y < z
      BY <2>16, <3>2, <3>4, <3>6 DEF BatchOrdered
    <3>8. BatchOrdered(b, ctl'[x].ring, x, writes') BY <3>2, <3>3, <3>5, <3>7 DEF BatchOrdered
    <3> QED BY <2>9, <3>1, <3>8 DEF BatchInOrder
  <2>20. SentOlder'
    <3>1. (\A i \in 1 .. Len(sent) : InOrder(sent[i]))'
      BY <1>3, <2>15 DEF DataInv, SentOlder, InOrder
    <3>2. ASSUME NEW x \in Out(sent), NEW y \in InRing(writes[x].ctl)' PROVE x < y
      <4>1. x \in 1 .. Len(writes) /\ writes'[x] = writes[x] BY <2>16, <2>29
      <4>2. writes[x].ctl \in Ctls BY <4>1, WriteFacts DEF DataInv
      <4>3. y \in Queued(ctl'[writes[x].ctl].ring) BY <3>2, <4>1 DEF InRing
      <4>4. y \in InRing(writes[x].ctl) \/ y = n BY <2>9, <2>12, <4>2, <4>3 DEF InRing
      <4>5. x < n BY <2>16, <4>1
      <4> QED BY <4>4, <4>5 DEF DataInv, SentOlder
    <3>3. (\A x \in Out(sent) : \A y \in InRing(writes[x].ctl) : x < y)' BY <2>14, <3>2
    <3>4. ASSUME NEW x \in Out(sent), NEW z \in Ctls, NEW f \in Fds, NEW y \in Held(z, f),
                 writes'[x].uid = writes'[y].uid, exit.alone \/ writes'[x].ctl = z
          PROVE  x < y
      <4>1. writes'[x] = writes[x] /\ writes'[y] = writes[y] BY <2>16, <2>29
      <4> QED BY <3>4, <4>1 DEF DataInv, SentOlder
    <3>5. (\A x \in Out(sent) : \A z \in Ctls, f \in Fds : \A y \in Held(z, f) :
             writes[x].uid = writes[y].uid /\ (exit.alone \/ writes[x].ctl = z) => x < y)'
      BY <2>13, <2>14, <3>4
    <3> QED BY <3>1, <3>3, <3>5 DEF SentOlder
  <2>21. DroppedKnown' BY <2>14, <2>16, <2>29 DEF DroppedKnown
  <2>22. SentInTurn'
    <3>1. ASSUME NEW i \in 1 .. Len(sent), NEW j \in 1 .. Len(sent), i < j, sent[i].uid = sent[j].uid,
                 NEW x \in Numbers(sent[i]), NEW y \in Numbers(sent[j]), writes'[x].ctl = writes'[y].ctl
          PROVE  x < y
      <4>1. x \in Out(sent) /\ y \in Out(sent) BY DEF Out
      <4>2. writes'[x] = writes[x] /\ writes'[y] = writes[y] BY <2>16, <2>29, <4>1
      <4> QED BY <3>1, <4>2 DEF DataInv, SentInTurn, TurnInChannel
    <3>2. TurnInChannel(sent, writes') BY <3>1 DEF TurnInChannel
    <3> QED BY <1>3, <3>2 DEF DataInv, SentInTurn
  <2>23. OneHome'
    <3>1. ASSUME NEW f \in Fds, NEW u \in Nat, AtHome(f, u)' PROVE AtHome(f, u)
      <4>1. CASE fileUid'[f] = u BY <1>3, <4>1 DEF AtHome
      <4>2. CASE \E s \in Writers : writing'[s].at = "put" /\ writing'[s].fd = f /\ writing'[s].uid = u
        BY <1>5, <4>2 DEF AtHome
      <4>3. CASE \E x \in Ctls : \E i \in 1 .. Len(ctl'[x].ring) : ctl'[x].ring[i].fd = f /\ ctl'[x].ring[i].uid = u
        <5>1. PICK x \in Ctls : \E i \in 1 .. Len(ctl'[x].ring) : ctl'[x].ring[i].fd = f /\ ctl'[x].ring[i].uid = u
          BY <4>3
        <5>2. PICK i \in 1 .. Len(ctl'[x].ring) : ctl'[x].ring[i].fd = f /\ ctl'[x].ring[i].uid = u BY <5>1
        <5>3. CASE x # c BY <2>9, <5>2, <5>3 DEF AtHome
        <5>4. CASE x = c /\ i \in 1 .. Len(ctl[c].ring) BY <2>6, <2>9, <5>2, <5>4, SMTT(30) DEF AtHome
        <5>5. CASE x = c /\ i \notin 1 .. Len(ctl[c].ring)
          <6>1. ctl'[x].ring[i] = e BY <2>6, <2>9, <5>5, SMTT(30)
          <6>2. writing[t].at = "put" /\ writing[t].fd = f /\ writing[t].uid = u BY <1>1, <1>2, <2>4, <5>2, <6>1
          <6> QED BY <6>2 DEF AtHome
        <5> QED BY <5>3, <5>4, <5>5
      <4>4. CASE \E x \in Ctls : ctl'[x].batch[f].stream /\ ctl'[x].batch[f].uid = u
        BY <2>9, <4>4 DEF AtHome
      <4> QED BY <3>1, <4>1, <4>2, <4>3, <4>4 DEF AtHome
    <3> QED BY <1>3, <3>1 DEF DataInv, OneHome
  <2>24. FutureEmpty'
    <3>1. ASSUME NEW m \in 1 .. Len(writes') PROVE writes'[m].ctl <= g_ctl
      <4>1. CASE m \in 1 .. Len(writes) BY <2>16, <4>1 DEF DataInv, FutureEmpty
      <4>2. CASE m \notin 1 .. Len(writes)
        <5>1. m = n BY <1>7, <2>10, <2>11, <4>2
        <5> QED BY <1>2, <2>4, <2>10, <5>1
      <4> QED BY <4>1, <4>2
    <3>2. \A s \in Writers : writing'[s].at = "put" => writing'[s].ctl <= g_ctl
      BY <1>5 DEF DataInv, FutureEmpty
    <3>3. c \in Int /\ g_ctl \in Int BY <1>2 DEF DataInv, DataTypes, Ctls
    <3>4. ASSUME NEW x \in Ctls, x > g_ctl
          PROVE  Len(ctl'[x].ring) = 0 /\ \A f \in Fds : ~ctl'[x].batch[f].stream
      <4>1. x # c BY <1>2, <3>3, <3>4
      <4> QED BY <2>9, <3>4, <4>1 DEF DataInv, FutureEmpty
    <3> QED BY <1>3, <3>1, <3>2, <3>4 DEF FutureEmpty
  <2>25. OneActive'
    <3> SUFFICES ASSUME exit.alone PROVE OneActive' BY DEF OneActive
    <3>1. \A x \in Ctls, f \in Fds : ctl'[x].batch[f].stream => x = Active'
      BY <1>6, <2>9 DEF DataInv, OneActive
    <3>2. ASSUME NEW m \in 1 .. Len(writes'), NEW x \in Out(sent), writes'[x].ctl < writes'[m].ctl
          PROVE  x < m
      <4>1. x \in 1 .. Len(writes) /\ writes'[x] = writes[x] BY <2>16, <2>29
      <4>2. CASE m \in 1 .. Len(writes) BY <2>16, <3>2, <4>1, <4>2 DEF DataInv, OneActive
      <4>3. CASE m \notin 1 .. Len(writes)
        <5>1. m = n BY <1>7, <2>10, <2>11, <4>3
        <5> QED BY <2>16, <4>1, <5>1
      <4> QED BY <4>2, <4>3
    <3>3. ASSUME NEW m \in 1 .. Len(writes'), NEW z \in Ctls, NEW f \in Fds, NEW x \in Held(z, f),
                 z < writes'[m].ctl
          PROVE  x < m
      <4>1. x \in 1 .. Len(writes) BY <2>29
      <4>2. CASE m \in 1 .. Len(writes) BY <2>16, <3>3, <4>2 DEF DataInv, OneActive
      <4>3. CASE m \notin 1 .. Len(writes)
        <5>1. m = n BY <1>7, <2>10, <2>11, <4>3
        <5> QED BY <2>16, <4>1, <5>1
      <4> QED BY <4>2, <4>3
    <3> QED BY <2>13, <2>14, <3>1, <3>2, <3>3 DEF OneActive
  <2>26. Conserved'
    <3>1. ASSUME NEW m \in 1 .. Len(writes')
          PROVE  \/ m \in Out(sent)' \/ m \in Out(dropped)'
                 \/ m \in InRing(writes[m].ctl)'
                 \/ \E f \in Fds : m \in Held(writes[m].ctl, f)'
      <4>1. CASE m \notin 1 .. Len(writes)
        <5>1. m = n BY <1>7, <2>10, <2>11, <4>1
        <5>2. writes'[m].ctl = c BY <2>4, <2>10, <5>1
        <5>3. m \in Queued(ctl'[c].ring) BY <2>9, <2>12, <5>1
        <5> QED BY <5>2, <5>3 DEF InRing
      <4>2. CASE m \in 1 .. Len(writes)
        <5>1. writes'[m] = writes[m] /\ writes[m].ctl \in Ctls BY <2>16, <4>2, WriteFacts DEF DataInv
        <5>2. PICK z \in Ctls : z = writes[m].ctl BY <5>1
        <5>3. \/ m \in Out(sent) \/ m \in Out(dropped) \/ m \in InRing(z)
              \/ \E f \in Fds : m \in Held(z, f)
          BY <4>2, <5>2 DEF DataInv, Conserved
        <5>4. m \in InRing(z) => m \in Queued(ctl'[z].ring) BY <2>9, <2>12 DEF InRing
        <5>5. \A f \in Fds : m \in Held(z, f) => m \in Numbers(ctl'[z].batch[f]) BY <2>9 DEF Held
        <5> QED BY <2>14, <5>1, <5>2, <5>3, <5>4, <5>5 DEF InRing, Held
      <4> QED BY <4>1, <4>2
    <3> QED BY <3>1 DEF Conserved
  <2>27. DataInv' BY <2>17, <2>18, <2>19, <2>20, <2>21, <2>22, <2>23, <2>24, <2>25, <2>26 DEF DataInv
  <2>28. \A x \in Ctls : \A y \in InRing(x)' : y \in InRing(x) \/ Len(writes) < y
    BY <1>7, <2>11, <2>13
  <2> QED BY <1>7, <2>9, <2>10, <2>11, <2>27, <2>28
<1> QED BY <1>8, <1>9

----------------------------------------------------------------------------
(* A write moves from the ring into a batch.                               *)

\* There is a batch of the same file and it has room.
Room(b, e) == b.stream /\ ~NeedsNewBatch(b, e)

\* The first of the ring is at the end of its batch, which is now m.
Moved(c, e, b, m) ==
    /\ m.stream /\ m.uid = e.uid /\ m.size = (IF Room(b, e) THEN b.size ELSE 0) + e.len
    /\ m.data = Append(IF Room(b, e) THEN b.data ELSE <<>>, e.n)
    /\ ctl' \in [Ctls -> Channel]
    /\ \A x \in Ctls : x # c => ctl'[x] = ctl[x]
    /\ ctl'[c].ring = Tail(ctl[c].ring) /\ ctl'[c].batch = [ctl[c].batch EXCEPT ![e.fd] = m]
    /\ ctl'[c].up = ctl[c].up /\ ctl'[c].stop = ctl[c].stop /\ ctl'[c].outage = ctl[c].outage

\* What one turn of ctlFlushLog changes.
LEMMA GatherFacts ==
    ASSUME DataTypes, NEW c \in Ctls, FlushLogTurn(c),
           NEW e, e = Head(ctl[c].ring), NEW b, b = ctl[c].batch[e.fd]
    PROVE  /\ e \in Entry /\ b \in Message
           /\ SendAll(c, IF b.stream /\ ~Room(b, e) THEN <<b>> ELSE <<>>)
           /\ UNCHANGED <<g_ctl, fileUid, clock, writing, writes>>
           /\ \E m \in Message : Moved(c, e, b, m)
<1>1. /\ ctl \in [Ctls -> Channel] /\ ctl[c] \in Channel
      /\ ctl[c].ring \in Seq(Entry) /\ ctl[c].batch \in [Fds -> Message]
  BY DEF DataTypes, Channel
<1>2. e \in Entry /\ Tail(ctl[c].ring) \in Seq(Entry)
  <2>1. ctl[c].ring # <<>> BY Zenon DEF FlushLogTurn
  <2>2. ASSUME NEW T, NEW r \in Seq(T), r # <<>> PROVE Head(r) \in T /\ Tail(r) \in Seq(T) BY <2>2
  <2> QED BY <1>1, <2>1, <2>2
<1>3. b \in Message /\ e.fd \in Fds BY <1>1, <1>2 DEF Entry
<1>4. e.n \in Nat /\ e.uid \in Nat /\ e.len \in Nat BY <1>2 DEF Entry
<1>5. b.stream \in BOOLEAN /\ b.uid \in Nat /\ b.size \in Nat /\ b.data \in Seq(Nat) BY <1>3 DEF Message
<1> DEFINE full == b.stream /\ NeedsNewBatch(b, e)
           open == IF b.stream /\ ~full THEN b ELSE [stream |-> TRUE, uid |-> e.uid, size |-> 0, data |-> <<>>]
<1>6. Room(b, e) <=> b.stream /\ ~full BY DEF Room
<1>7. SendAll(c, IF b.stream /\ ~Room(b, e) THEN <<b>> ELSE <<>>)
  <2>1. SendAll(c, IF full THEN <<b>> ELSE <<>>) BY Zenon DEF FlushLogTurn
  <2>2. full <=> b.stream /\ ~Room(b, e) BY <1>6
  <2> HIDE DEF full
  <2>3. CASE full BY <2>1, <2>2, <2>3
  <2>4. CASE ~full BY <2>1, <2>2, <2>4
  <2> QED BY <2>3, <2>4
<1>8. UNCHANGED <<g_ctl, fileUid, clock, writing, writes>> BY DEF FlushLogTurn
<1>9. PICK m : m = [open EXCEPT !.size = @ + e.len, !.data = Append(@, e.n)] OBVIOUS
<1>10. ctl' = [ctl EXCEPT ![c].ring = Tail(@), ![c].batch[e.fd] = m] BY <1>9, Zenon DEF FlushLogTurn
<1>11. /\ open \in Message /\ open.stream /\ open.uid = e.uid
       /\ open.size = IF Room(b, e) THEN b.size ELSE 0
       /\ open.data = IF Room(b, e) THEN b.data ELSE <<>>
  <2>1. CASE Room(b, e)
    <3>1. open = b BY <1>6, <2>1
    <3>2. b.uid = e.uid /\ b.stream BY <2>1 DEF Room, NeedsNewBatch
    <3> HIDE DEF open, full
    <3> QED BY <1>3, <2>1, <3>1, <3>2, Zenon
  <2>2. CASE ~Room(b, e)
    <3>1. open = [stream |-> TRUE, uid |-> e.uid, size |-> 0, data |-> <<>>] BY <1>6, <2>2
    <3> HIDE DEF open, full
    <3>2. 0 \in Nat /\ <<>> \in Seq(Nat) /\ TRUE \in BOOLEAN OBVIOUS
    <3>3. open \in Message BY <1>4, <3>1, <3>2, Zenon DEF Message
    <3>4. open.stream /\ open.uid = e.uid /\ open.size = 0 /\ open.data = <<>> BY <3>1, Zenon
    <3> QED BY <2>2, <3>3, <3>4, Zenon
  <2> QED BY <2>1, <2>2
<1> HIDE DEF open, full
<1>12. PICK s, d : s = open.size + e.len /\ d = Append(open.data, e.n) OBVIOUS
<1>13. s \in Nat /\ d \in Seq(Nat)
  <2>1. open.size \in Nat /\ open.data \in Seq(Nat) BY <1>11, Zenon DEF Message
  <2> QED BY <1>4, <1>12, <2>1
<1>14. m = [open EXCEPT !.size = s, !.data = d] BY <1>9, <1>12
<1>15. m \in Message /\ m.stream = open.stream /\ m.uid = open.uid /\ m.size = s /\ m.data = d
  BY <1>11, <1>13, <1>14, Zenon DEF Message
<1>16. PICK r, bs : r = Tail(ctl[c].ring) /\ bs = [ctl[c].batch EXCEPT ![e.fd] = m] OBVIOUS
<1>17. bs \in [Fds -> Message] BY <1>1, <1>15, <1>16
<1>18. PICK k : k = [ctl[c] EXCEPT !.ring = r] OBVIOUS
<1>19. PICK l : l = [k EXCEPT !.batch = bs] OBVIOUS
<1>20. /\ k \in Channel /\ k.ring = r /\ k.batch = ctl[c].batch /\ k.up = ctl[c].up
       /\ k.stop = ctl[c].stop /\ k.outage = ctl[c].outage
  BY <1>1, <1>2, <1>16, <1>18, Zenon DEF Channel
<1>21. /\ l \in Channel /\ l.ring = r /\ l.batch = bs /\ l.up = ctl[c].up
       /\ l.stop = ctl[c].stop /\ l.outage = ctl[c].outage
  BY <1>17, <1>19, <1>20, Zenon DEF Channel
<1>22. ctl' = [ctl EXCEPT ![c] = l]
  <2>1. PICK one : one = [ctl EXCEPT ![c].ring = Tail(@)] OBVIOUS
  <2>2. one = [ctl EXCEPT ![c] = k] BY <1>16, <1>18, <2>1, Zenon
  <2>3. ctl' = [one EXCEPT ![c].batch[e.fd] = m] BY <1>10, <2>1, Zenon
  <2>4. one[c] = k /\ \A x \in Ctls : x # c => one[x] = ctl[x] BY <1>1, <2>2
  <2>5. one \in [Ctls -> Channel] BY <1>1, <1>20, <2>2
  <2>6. ctl' = [one EXCEPT ![c] = [k EXCEPT !.batch = [k.batch EXCEPT ![e.fd] = m]]]
    BY <2>3, <2>4, Zenon
  <2>7. ctl' = [one EXCEPT ![c] = l] BY <1>16, <1>19, <1>20, <2>6
  <2> QED BY <1>1, <2>2, <2>4, <2>5, <2>7
<1>23. /\ ctl' \in [Ctls -> Channel] /\ ctl'[c] = l /\ \A x \in Ctls : x # c => ctl'[x] = ctl[x]
  BY <1>1, <1>21, <1>22
<1>24. m.stream /\ m.uid = e.uid BY <1>11, <1>15
<1>25. m.size = (IF Room(b, e) THEN b.size ELSE 0) + e.len BY <1>11, <1>12, <1>15
<1>26. m.data = Append(IF Room(b, e) THEN b.data ELSE <<>>, e.n) BY <1>11, <1>12, <1>15
<1>27. Moved(c, e, b, m) BY <1>16, <1>21, <1>23, <1>24, <1>25, <1>26 DEF Moved
<1> QED BY <1>2, <1>3, <1>7, <1>8, <1>15, <1>27

\* One turn of ctlFlushLog.
LEMMA GatherKeeps ==
    ASSUME DataInv, NEW c \in Ctls, FlushLogTurn(c), UNCHANGED <<exit, configuring>>,
           exit.alone => c = g_ctl /\ c = Active
    PROVE  /\ DataInv'
           /\ \A x \in Ctls : InRing(x)' \subseteq InRing(x)
           /\ \A x \in Ctls : /\ ctl'[x].up = ctl[x].up /\ ctl'[x].stop = ctl[x].stop
                              /\ ctl'[x].outage = ctl[x].outage
           /\ \A x \in Out(dropped)' : x \in Out(dropped) \/ (~ctl[c].up /\ writes[x].ctl = c)
<1>1. PICK e, b : e = Head(ctl[c].ring) /\ b = ctl[c].batch[e.fd] OBVIOUS
<1>2. DataTypes BY DEF DataInv
<1>3. /\ e \in Entry /\ b \in Message
      /\ SendAll(c, IF b.stream /\ ~Room(b, e) THEN <<b>> ELSE <<>>)
      /\ UNCHANGED <<g_ctl, fileUid, clock, writing, writes>>
  BY <1>1, <1>2, GatherFacts
<1>36. PICK m \in Message : Moved(c, e, b, m) BY <1>1, <1>2, GatherFacts
<1>4. /\ m.stream /\ m.uid = e.uid /\ m.size = (IF Room(b, e) THEN b.size ELSE 0) + e.len
      /\ m.data = Append(IF Room(b, e) THEN b.data ELSE <<>>, e.n)
      /\ ctl' \in [Ctls -> Channel]
      /\ \A x \in Ctls : x # c => ctl'[x] = ctl[x]
      /\ ctl'[c].ring = Tail(ctl[c].ring) /\ ctl'[c].batch = [ctl[c].batch EXCEPT ![e.fd] = m]
      /\ ctl'[c].up = ctl[c].up /\ ctl'[c].stop = ctl[c].stop /\ ctl'[c].outage = ctl[c].outage
  BY <1>36 DEF Moved
<1>5. /\ e.n \in Nat /\ e.uid \in Nat /\ e.len \in Nat /\ e.fd \in Fds
      /\ b.stream \in BOOLEAN /\ b.uid \in Nat /\ b.size \in Nat /\ b.data \in Seq(Nat)
      /\ ctl[c].ring \in Seq(Entry) /\ ctl[c].batch \in [Fds -> Message]
  BY <1>2, <1>3 DEF Entry, Message, DataTypes, Channel
<1>6. PICK f \in Fds : f = e.fd BY <1>5
<1>7. PICK r, q : r = ctl[c].ring /\ q = Tail(r) OBVIOUS
<1>8. /\ r \in Seq(Entry) /\ Len(r) \in Nat /\ Len(r) > 0 /\ r[1] = e
      /\ q \in Seq(Entry) /\ Len(q) = Len(r) - 1 /\ \A i \in 1 .. Len(q) : q[i] = r[i + 1]
  <2>1. r # <<>> BY <1>7, Zenon DEF FlushLogTurn
  <2>2. ASSUME NEW T, NEW s \in Seq(T), s # <<>>
        PROVE  /\ Len(s) \in Nat /\ Len(s) > 0 /\ s[1] = Head(s)
               /\ Tail(s) \in Seq(T) /\ Len(Tail(s)) = Len(s) - 1
               /\ \A i \in 1 .. Len(Tail(s)) : Tail(s)[i] = s[i + 1]
    BY <2>2
  <2> QED BY <1>1, <1>5, <1>7, <2>1, <2>2
<1>9. /\ \A x \in Ctls : x # c => ctl'[x] = ctl[x]
      /\ ctl'[c].ring = q
      /\ ctl'[c].batch[f] = m /\ \A g \in Fds : g # f => ctl'[c].batch[g] = ctl[c].batch[g]
  BY <1>4, <1>5, <1>6, <1>7
<1>10. RingOrdered(r, c, writes) /\ BatchOrdered(b, r, c, writes)
  BY <1>1, <1>6, <1>7 DEF DataInv, RingInOrder, BatchInOrder
<1>11. e.n \in 1 .. Len(writes) /\ writes[e.n].uid = e.uid /\ writes[e.n].ctl = c
  <2>1. 1 \in 1 .. Len(r) BY <1>8
  <2> QED BY <1>8, <1>10, <2>1 DEF RingOrdered
<1>12. /\ e.n \in Queued(r) /\ Queued(q) \subseteq Queued(r)
       /\ \A y \in Queued(r) : y = e.n \/ y \in Queued(q)
       /\ \A y \in Queued(q) : e.n < y
  <2>1. 1 \in 1 .. Len(r) BY <1>8
  <2>2. e.n \in Queued(r) BY <1>8, <2>1 DEF Queued
  <2>3. ASSUME NEW y \in Queued(q) PROVE y \in Queued(r) /\ e.n < y
    <3>1. PICK i \in 1 .. Len(q) : y = q[i].n BY <2>3 DEF Queued
    <3>2. i + 1 \in 1 .. Len(r) /\ 1 < i + 1 /\ y = r[i + 1].n BY <1>8, <3>1
    <3>3. r[1].n < r[i + 1].n BY <1>10, <2>1, <3>2 DEF RingOrdered
    <3> QED BY <1>8, <3>2, <3>3 DEF Queued
  <2>4. ASSUME NEW y \in Queued(r), y # e.n PROVE y \in Queued(q)
    <3>1. PICK i \in 1 .. Len(r) : y = r[i].n BY <2>4 DEF Queued
    <3>2. i # 1 BY <1>8, <2>4, <3>1
    <3>3. i - 1 \in 1 .. Len(q) /\ q[i - 1] = r[(i - 1) + 1] /\ (i - 1) + 1 = i BY <1>8, <3>1, <3>2
    <3> QED BY <3>1, <3>3 DEF Queued
  <2> QED BY <2>2, <2>3, <2>4
<1>13. \A x \in Numbers(b) : x \in 1 .. Len(writes) /\ writes[x].uid = b.uid /\ writes[x].ctl = c /\ x < e.n
  BY <1>10, <1>12 DEF BatchOrdered, Ordered, Numbers
<1>14. ~b.stream => Numbers(b) = {}
  <2>1. ASSUME ~b.stream, NEW x \in Numbers(b) PROVE FALSE BY <1>10, <2>1 DEF BatchOrdered, Numbers
  <2> QED BY <2>1
<1>15. /\ Room(b, e) => Numbers(m) = Numbers(b) \cup {e.n}
       /\ ~Room(b, e) => Numbers(m) = {e.n}
       /\ Ordered(m, writes)
  <2>1. CASE Room(b, e)
    <3>1. /\ m.data = Append(b.data, e.n) /\ m.size = b.size + e.len
          /\ b.uid = e.uid /\ b.size + e.len <= MaxAggBytes
      BY <1>4, <1>5, <2>1, ConsoleAssumption DEF Room, NeedsNewBatch
    <3>2. PICK d, k : d = m.data /\ k = Len(b.data) OBVIOUS
    <3>3. /\ k \in Nat /\ Len(d) = k + 1 /\ d[k + 1] = e.n
          /\ \A i \in 1 .. k : i \in 1 .. Len(d) /\ d[i] = b.data[i]
          /\ \A i \in 1 .. Len(d) : i \in 1 .. k \/ i = k + 1
      BY <1>5, <3>1, <3>2
    <3>4. Numbers(m) = Numbers(b) \cup {e.n}
      <4>1. ASSUME NEW x \in Numbers(m) PROVE x \in Numbers(b) \cup {e.n}
        <5>1. PICK i \in 1 .. Len(d) : x = d[i] BY <3>2, <4>1 DEF Numbers
        <5> QED BY <3>2, <3>3, <5>1 DEF Numbers
      <4>2. ASSUME NEW x \in Numbers(b) PROVE x \in Numbers(m)
        <5>1. PICK i \in 1 .. k : x = b.data[i] BY <3>2, <4>2 DEF Numbers
        <5> QED BY <3>2, <3>3, <5>1 DEF Numbers
      <4>3. e.n \in Numbers(m)
        <5>1. k + 1 \in 1 .. Len(d) BY <3>3
        <5> QED BY <3>2, <3>3, <5>1 DEF Numbers
      <4> QED BY <4>1, <4>2, <4>3
    <3>5. ASSUME NEW i \in 1 .. Len(d), NEW j \in 1 .. Len(d), i < j PROVE d[i] < d[j]
      <4>1. i \in 1 .. k /\ d[i] = b.data[i] BY <3>3, <3>5
      <4>2. CASE j \in 1 .. k BY <1>10, <3>2, <3>3, <3>5, <4>1, <4>2 DEF BatchOrdered, Ordered
      <4>3. CASE j = k + 1
        <5>1. b.data[i] \in Numbers(b) BY <3>2, <4>1 DEF Numbers
        <5> QED BY <1>13, <3>3, <4>1, <4>3, <5>1
      <4> QED BY <3>3, <4>2, <4>3
    <3>6. ASSUME NEW i \in 1 .. Len(d) PROVE d[i] \in 1 .. Len(writes) /\ writes[d[i]].uid = m.uid
      <4>1. d[i] \in Numbers(m) BY <3>2 DEF Numbers
      <4> QED BY <1>4, <1>11, <1>13, <3>1, <3>4, <4>1
    <3>7. ~(m.size > MaxAggBytes) BY <1>5, <3>1, ConsoleAssumption
    <3> QED BY <2>1, <3>2, <3>4, <3>5, <3>6, <3>7 DEF Ordered
  <2>2. CASE ~Room(b, e)
    <3>1. m.data = Append(<<>>, e.n) BY <1>4, <2>2
    <3>2. PICK d : d = m.data OBVIOUS
    <3>3. Len(d) = 1 /\ d[1] = e.n /\ \A i \in 1 .. Len(d) : i = 1 BY <1>5, <3>1, <3>2
    <3>4. Numbers(m) = {e.n}
      <4>1. 1 \in 1 .. Len(d) BY <3>3
      <4> QED BY <3>2, <3>3, <4>1 DEF Numbers
    <3>5. \A i, j \in 1 .. Len(d) : ~(i < j) BY <3>3
    <3>6. ASSUME NEW i \in 1 .. Len(d) PROVE d[i] \in 1 .. Len(writes) /\ writes[d[i]].uid = m.uid
      BY <1>4, <1>11, <3>3
    <3> QED BY <2>2, <3>2, <3>3, <3>4, <3>5, <3>6 DEF Ordered
  <2> QED BY <2>1, <2>2
<1>16. PICK messages : messages = IF b.stream /\ ~Room(b, e) THEN <<b>> ELSE <<>> OBVIOUS
<1>17. PICK fd : fd = [i \in 1 .. 1 |-> f] OBVIOUS
<1>18. BatchesOf(c, messages, fd)
  <2>1. CASE b.stream /\ ~Room(b, e)
    <3>1. messages = <<b>> BY <1>16, <2>1
    <3>2. messages \in Seq(Message) /\ Len(messages) = 1 /\ messages[1] = b BY <1>3, <3>1
    <3>3. \A i \in 1 .. Len(messages) : i = 1 /\ fd[i] = f BY <1>17, <3>2
    <3> QED BY <1>1, <1>6, <2>1, <3>2, <3>3 DEF BatchesOf
  <2>2. CASE ~(b.stream /\ ~Room(b, e))
    <3>1. messages = <<>> BY <1>16, <2>2
    <3>2. messages \in Seq(Message) /\ Len(messages) = 0 BY <3>1
    <3> QED BY <3>2 DEF BatchesOf
  <2> QED BY <2>1, <2>2
<1>19. /\ sent' \in Seq(Message) /\ dropped' \in Seq(Message)
       /\ \A x \in Out(messages) : \E i \in 1 .. Len(messages) : x \in Held(c, fd[i])
       /\ \A i \in 1 .. Len(messages) : Held(c, fd[i]) \subseteq Out(messages)
       /\ Out(sent)' = IF ctl[c].up THEN Out(sent) \cup Out(messages) ELSE Out(sent)
       /\ Out(dropped)' = IF ctl[c].up THEN Out(dropped) ELSE Out(dropped) \cup Out(messages)
       /\ \A i \in 1 .. Len(sent') : InOrder(sent'[i])
       /\ SentInTurn'
  BY <1>3, <1>16, <1>18, Sending
<1>20. Held(c, f) = Numbers(b) BY <1>1, <1>6 DEF Held
<1>21. /\ Out(messages) \subseteq Numbers(b)
       /\ Out(messages) # {} => b.stream /\ ~Room(b, e)
       /\ b.stream /\ ~Room(b, e) => Numbers(b) \subseteq Out(messages)
  <2>1. CASE b.stream /\ ~Room(b, e)
    <3>1. messages = <<b>> BY <1>16, <2>1
    <3>2. Len(messages) = 1 BY <3>1
    <3>3. \A i \in 1 .. Len(messages) : fd[i] = f BY <1>17, <3>2
    <3>4. 1 \in 1 .. Len(messages) BY <3>2
    <3> QED BY <1>19, <1>20, <2>1, <3>3, <3>4
  <2>2. CASE ~(b.stream /\ ~Room(b, e))
    <3>1. messages = <<>> BY <1>16, <2>2
    <3>2. Len(messages) = 0 BY <3>1
    <3>3. Out(messages) = {} BY <3>2 DEF Out
    <3> QED BY <2>2, <3>3
  <2> QED BY <2>1, <2>2
<1>22. /\ InRing(c)' = Queued(q) /\ InRing(c) = Queued(r)
       /\ \A x \in Ctls : x # c => InRing(x)' = InRing(x)
       /\ Held(c, f)' = Numbers(m)
       /\ \A g \in Fds : g # f => Held(c, g)' = Held(c, g)
       /\ \A x \in Ctls, g \in Fds : x # c => Held(x, g)' = Held(x, g)
  BY <1>7, <1>9 DEF InRing, Held
<1>23. \A x \in Ctls : InRing(x)' \subseteq InRing(x) BY <1>12, <1>22
<1>24. /\ \A x \in Out(sent) \cup Out(dropped) : x \in 1 .. Len(writes)
       /\ \A x \in Ctls, g \in Fds : \A y \in Held(x, g) :
             /\ y \in 1 .. Len(writes) /\ writes[y].ctl = x
             /\ writes[y].uid = ctl[x].batch[g].uid /\ ctl[x].batch[g].stream
  BY Known
<1>25. DataTypes' BY <1>3, <1>4, <1>19 DEF DataInv, DataTypes
<1>26. ASSUME NEW x \in Ctls PROVE RingInOrder(x)'
  <2>1. CASE x # c BY <1>3, <1>9, <2>1 DEF DataInv, RingInOrder
  <2>2. CASE x = c
    <3>1. ASSUME NEW i \in 1 .. Len(q) PROVE q[i] = r[i + 1] /\ i + 1 \in 1 .. Len(r) BY <1>8
    <3>2. \A i \in 1 .. Len(q) : /\ q[i].n \in 1 .. Len(writes)
                                 /\ writes[q[i].n].uid = q[i].uid /\ writes[q[i].n].ctl = c
      BY <1>10, <3>1 DEF RingOrdered
    <3>3. ASSUME NEW i \in 1 .. Len(q), NEW j \in 1 .. Len(q), i < j PROVE q[i].n < q[j].n
      <4>1. i + 1 < j + 1 BY <3>3
      <4> QED BY <1>10, <3>1, <4>1 DEF RingOrdered
    <3>4. RingOrdered(q, c, writes) BY <3>2, <3>3 DEF RingOrdered
    <3> QED BY <1>3, <1>9, <2>2, <3>4 DEF RingInOrder
  <2> QED BY <2>1, <2>2
<1>27. ASSUME NEW x \in Ctls, NEW g \in Fds PROVE BatchInOrder(x, g)'
  <2>1. CASE x # c BY <1>3, <1>9, <2>1 DEF DataInv, BatchInOrder
  <2>2. CASE x = c /\ g # f
    <3>1. BatchOrdered(ctl[c].batch[g], r, c, writes) BY <1>7 DEF DataInv, BatchInOrder
    <3>2. BatchOrdered(ctl[c].batch[g], q, c, writes) BY <1>12, <3>1 DEF BatchOrdered
    <3> QED BY <1>3, <1>9, <2>2, <3>2 DEF BatchInOrder
  <2>3. CASE x = c /\ g = f
    <3>1. ASSUME NEW y \in Numbers(m) PROVE writes[y].ctl = c /\ \A z \in Queued(q) : y < z
      <4>1. CASE y = e.n BY <1>11, <1>12, <4>1
      <4>2. CASE y \in Numbers(b) BY <1>10, <1>12, <4>2 DEF BatchOrdered
      <4> QED BY <1>15, <4>1, <4>2
    <3>2. BatchOrdered(m, q, c, writes) BY <1>4, <1>15, <3>1 DEF BatchOrdered
    <3> QED BY <1>3, <1>9, <2>3, <3>2 DEF BatchInOrder
  <2> QED BY <2>1, <2>2, <2>3
<1>28. SentOlder'
  <2>1. (\A i \in 1 .. Len(sent) : InOrder(sent[i]))' BY <1>3, <1>19 DEF InOrder
  <2>2. ASSUME NEW x \in Out(sent)', NEW y \in InRing(writes[x].ctl)' PROVE x < y
    <3>1. x \in 1 .. Len(writes) BY <1>13, <1>19, <1>21, <1>24
    <3>2. writes[x].ctl \in Ctls BY <1>2, <3>1, WriteFacts
    <3>3. y \in Queued(ctl'[writes[x].ctl].ring) BY <1>3, <2>2 DEF InRing
    <3>4. y \in InRing(writes[x].ctl) BY <1>9, <1>7, <1>12, <3>2, <3>3 DEF InRing
    <3>5. CASE x \in Out(sent) BY <3>4, <3>5 DEF DataInv, SentOlder
    <3>6. CASE x \in Out(messages)
      <4>1. x \in Numbers(b) /\ writes[x].ctl = c BY <1>13, <1>21, <3>6
      <4> QED BY <1>10, <1>22, <3>4, <4>1 DEF BatchOrdered
    <3> QED BY <1>19, <3>5, <3>6
  <2>3. (\A x \in Out(sent) : \A y \in InRing(writes[x].ctl) : x < y)' BY <2>2
  <2>4. ASSUME NEW x \in Out(sent)', NEW z \in Ctls, NEW g \in Fds, NEW y \in Held(z, g)',
               writes[x].uid = writes[y].uid, exit.alone \/ writes[x].ctl = z
        PROVE  x < y
    <3>1. CASE z = c /\ g = f /\ y = e.n
      <4>1. CASE x \in Out(messages) BY <1>13, <1>21, <3>1, <4>1
      <4>2. CASE x \in Out(sent) /\ writes[x].ctl = c
        BY <1>12, <1>22, <3>1, <4>2 DEF DataInv, SentOlder
      <4>3. CASE x \in Out(sent) /\ writes[x].ctl # c
        <5>1. exit.alone /\ c = g_ctl BY <2>4, <3>1, <4>3
        <5>2. x \in 1 .. Len(writes) BY <1>24, <4>3
        <5>3. writes[x].ctl \in Ctls /\ writes[x].ctl <= g_ctl
          BY <1>2, <5>2, WriteFacts DEF DataInv, FutureEmpty
        <5>4. writes[x].ctl < c BY <4>3, <5>1, <5>3 DEF Ctls
        <5> QED BY <1>11, <3>1, <4>3, <5>1, <5>4 DEF DataInv, OneActive
      <4> QED BY <1>19, <4>1, <4>2, <4>3
    <3>2. CASE ~(z = c /\ g = f /\ y = e.n)
      <4>1. y \in Held(z, g) /\ (z = c /\ g = f => Room(b, e))
        <5>1. CASE z = c /\ g = f BY <1>15, <1>20, <1>22, <2>4, <3>2, <5>1
        <5>2. CASE z # c \/ g # f BY <1>22, <2>4, <5>2
        <5> QED BY <5>1, <5>2
      <4>2. CASE x \in Out(sent) BY <2>4, <4>1, <4>2 DEF DataInv, SentOlder
      <4>3. CASE x \in Out(messages)
        <5>1. x \in Held(c, f) /\ b.stream /\ ~Room(b, e) BY <1>20, <1>21, <4>3
        <5>2. ctl[z].batch[g].stream /\ writes[y].uid = ctl[z].batch[g].uid BY <1>24, <4>1
        <5>3. writes[x].ctl = c /\ writes[x].uid = ctl[c].batch[f].uid /\ ctl[c].batch[f].stream
          BY <1>24, <5>1
        <5>4. CASE z # c BY <2>4, <5>2, <5>3, <5>4 DEF DataInv, OneActive
        <5>5. CASE z = c
          <6>1. g # f BY <4>1, <5>1, <5>5
          <6>2. PICK u \in Nat : u = ctl[c].batch[f].uid BY <1>1, <1>5, <1>6
          <6>3. AtHome(f, u) BY <5>3, <6>2 DEF AtHome
          <6>4. AtHome(g, u) BY <2>4, <5>2, <5>3, <5>5, <6>2 DEF AtHome
          <6> QED BY <6>1, <6>3, <6>4 DEF DataInv, OneHome
        <5> QED BY <5>4, <5>5
      <4> QED BY <1>19, <4>2, <4>3
    <3> QED BY <3>1, <3>2
  <2>5. ASSUME NEW x \in Out(sent)', NEW z \in Ctls, NEW g \in Fds, NEW y \in Held(z, g)'
        PROVE  writes'[x].uid = writes'[y].uid /\ (exit'.alone \/ writes'[x].ctl = z) => x < y
    BY <1>3, <2>4
  <2>6. (\A x \in Out(sent) : \A z \in Ctls, g \in Fds : \A y \in Held(z, g) :
           writes[x].uid = writes[y].uid /\ (exit.alone \/ writes[x].ctl = z) => x < y)'
    BY <2>5
  <2> QED BY <2>1, <2>3, <2>6 DEF SentOlder
<1>29. ASSUME NEW x \in Out(dropped)'
       PROVE  x \in 1 .. Len(writes) /\ (x \in Out(dropped) \/ (~ctl[c].up /\ writes[x].ctl = c))
  <2>1. CASE x \in Out(dropped) BY <1>24, <2>1
  <2>2. CASE x \notin Out(dropped) BY <1>13, <1>19, <1>21, <1>29, <2>2
  <2> QED BY <2>1, <2>2
<1>30. DroppedKnown' BY <1>3, <1>29 DEF DroppedKnown
<1>31. OneHome'
  <2>1. ASSUME NEW g \in Fds, NEW u \in Nat, AtHome(g, u)' PROVE AtHome(g, u)
    <3>1. CASE fileUid'[g] = u BY <1>3, <3>1 DEF AtHome
    <3>2. CASE \E t \in Writers : writing'[t].at = "put" /\ writing'[t].fd = g /\ writing'[t].uid = u
      BY <1>3, <3>2 DEF AtHome
    <3>3. ASSUME NEW x \in Ctls, NEW i \in 1 .. Len(ctl'[x].ring), ctl'[x].ring[i].fd = g, ctl'[x].ring[i].uid = u
          PROVE  AtHome(g, u)
      <4>1. CASE x # c BY <1>9, <3>3, <4>1 DEF AtHome
      <4>2. CASE x = c
        <5>0. ctl'[x].ring = q BY <1>9, <4>2
        <5>1. i \in 1 .. Len(q) BY <5>0
        <5>2. i + 1 \in 1 .. Len(r) /\ q[i] = r[i + 1] BY <1>8, <5>1
        <5>3. i + 1 \in 1 .. Len(ctl[c].ring) /\ ctl'[x].ring[i] = ctl[c].ring[i + 1]
          BY <1>7, <5>0, <5>2
        <5> QED BY <3>3, <5>3 DEF AtHome
      <4> QED BY <4>1, <4>2
    <3>4. ASSUME NEW x \in Ctls, ctl'[x].batch[g].stream, ctl'[x].batch[g].uid = u
          PROVE  AtHome(g, u)
      <4>1. CASE x # c BY <1>9, <3>4, <4>1 DEF AtHome
      <4>2. CASE x = c /\ g # f BY <1>9, <3>4, <4>2 DEF AtHome
      <4>3. CASE x = c /\ g = f
        <5>1. 1 \in 1 .. Len(ctl[c].ring) /\ ctl[c].ring[1] = e BY <1>7, <1>8
        <5>2. e.fd = g /\ e.uid = u BY <1>4, <1>6, <1>9, <3>4, <4>3
        <5> QED BY <5>1, <5>2 DEF AtHome
      <4> QED BY <4>1, <4>2, <4>3
    <3> QED BY <2>1, <3>1, <3>2, <3>3, <3>4 DEF AtHome
  <2> QED BY <1>3, <2>1 DEF DataInv, OneHome
<1>32. FutureEmpty'
  <2>1. c <= g_ctl
    <3>1. ~(c > g_ctl) BY <1>7, <1>8 DEF DataInv, FutureEmpty
    <3> QED BY <3>1 DEF DataInv, DataTypes, Ctls
  <2>2. g_ctl \in Int /\ c \in Int BY <1>2 DEF DataTypes, Ctls
  <2>3. \A x \in Ctls : x > g_ctl => Len(ctl'[x].ring) = 0 /\ \A g \in Fds : ~ctl'[x].batch[g].stream
    BY <1>9, <2>1, <2>2 DEF DataInv, FutureEmpty
  <2> QED BY <1>3, <2>3 DEF DataInv, FutureEmpty
<1>33. OneActive'
  <2> SUFFICES ASSUME exit.alone PROVE OneActive' BY DEF OneActive
  <2>1. c = g_ctl /\ c = Active /\ Active' = Active BY <1>3 DEF Active
  <2>2. \A x \in Ctls, g \in Fds : ctl'[x].batch[g].stream => x = Active'
    BY <1>9, <2>1 DEF DataInv, OneActive
  <2>3. ASSUME NEW n \in 1 .. Len(writes) PROVE ~(c < writes[n].ctl)
    <3>1. writes[n].ctl \in Ctls /\ writes[n].ctl <= c
      BY <1>2, <2>1, WriteFacts DEF DataInv, FutureEmpty
    <3> QED BY <3>1 DEF Ctls
  <2>4. ASSUME NEW n \in 1 .. Len(writes), NEW x \in Out(sent)', writes[x].ctl < writes[n].ctl
        PROVE  x < n
    <3>1. CASE x \in Out(sent) BY <2>4, <3>1 DEF DataInv, OneActive
    <3>2. CASE x \in Out(messages) BY <1>13, <1>21, <2>3, <2>4, <3>2
    <3> QED BY <1>19, <3>1, <3>2
  <2>5. ASSUME NEW n \in 1 .. Len(writes), NEW z \in Ctls, NEW g \in Fds, NEW x \in Held(z, g)',
               z < writes[n].ctl
        PROVE  x < n
    <3>1. z # c BY <2>3, <2>5
    <3> QED BY <1>22, <2>5, <3>1 DEF DataInv, OneActive
  <2> QED BY <1>3, <2>2, <2>4, <2>5 DEF OneActive
<1>34. Conserved'
  <2> SUFFICES ASSUME NEW n \in 1 .. Len(writes)
               PROVE  \/ n \in Out(sent)' \/ n \in Out(dropped)'
                      \/ n \in InRing(writes[n].ctl)'
                      \/ \E g \in Fds : n \in Held(writes[n].ctl, g)'
    BY <1>3 DEF Conserved
  <2>1. PICK z \in Ctls : z = writes[n].ctl BY <1>2, WriteFacts
  <2>2. ASSUME NEW g \in Fds, n \in Numbers(ctl'[z].batch[g])
        PROVE  n \in Held(writes[n].ctl, g)'
    BY <1>3, <2>1, <2>2 DEF Held
  <2>3. CASE n \in Out(sent) \/ n \in Out(dropped) BY <1>19, <2>3
  <2>4. CASE n \in InRing(z)
    <3>1. CASE z = c /\ n = e.n
      <4>1. n \in Numbers(ctl'[z].batch[f]) BY <1>9, <1>15, <3>1
      <4> QED BY <2>2, <4>1
    <3>2. CASE ~(z = c /\ n = e.n)
      <4>1. n \in Queued(ctl'[z].ring) BY <1>7, <1>9, <1>12, <2>4, <3>2 DEF InRing
      <4> QED BY <1>3, <2>1, <4>1 DEF InRing
    <3> QED BY <3>1, <3>2
  <2>5. ASSUME NEW g \in Fds, n \in Held(z, g)
        PROVE  n \in Out(sent)' \/ n \in Out(dropped)' \/ n \in Held(writes[n].ctl, g)'
    <3>1. CASE z = c /\ g = f /\ ~Room(b, e)
      <4>1. n \in Out(messages) BY <1>14, <1>20, <1>21, <2>5, <3>1
      <4> QED BY <1>19, <4>1
    <3>2. CASE z = c /\ g = f /\ Room(b, e)
      <4>1. n \in Numbers(ctl'[z].batch[g]) BY <1>9, <1>15, <1>20, <2>5, <3>2
      <4> QED BY <2>2, <4>1
    <3>3. CASE z # c \/ g # f
      <4>1. n \in Numbers(ctl'[z].batch[g]) BY <1>9, <2>5, <3>3 DEF Held
      <4> QED BY <2>2, <4>1
    <3> QED BY <3>1, <3>2, <3>3
  <2> QED BY <2>1, <2>3, <2>4, <2>5 DEF DataInv, Conserved
<1>35. DataInv' BY <1>19, <1>25, <1>26, <1>27, <1>28, <1>30, <1>31, <1>32, <1>33, <1>34 DEF DataInv
<1> QED BY <1>4, <1>23, <1>29, <1>35

----------------------------------------------------------------------------
(* A channel is flushed, or replaced.                                      *)

\* ctlFlush: the batches are gone or everything is as it was.
LEMMA CtlFlushKeeps ==
    ASSUME DataInv, NEW c \in Ctls, ctlFlush(c), configuring' = configuring, exit'.alone => exit.alone
    PROVE  /\ DataInv' /\ g_ctl' = g_ctl /\ writes' = writes
           /\ ctl' \in [Ctls -> Channel]
           /\ \A x \in Ctls : /\ ctl'[x].ring = ctl[x].ring /\ ctl'[x].up = ctl[x].up
                              /\ ctl'[x].stop = ctl[x].stop /\ ctl'[x].outage = ctl[x].outage
           /\ \A x \in Ctls, f \in Fds : ctl'[x].batch[f].stream => ctl[x].batch[f].stream
           /\ ctl[c].stop => \A f \in Fds : ~ctl'[c].batch[f].stream
           /\ \A x \in Out(dropped)' : x \in Out(dropped) \/ (~ctl[c].up /\ writes[x].ctl = c)
<1>1. UNCHANGED <<g_ctl, fileUid, clock, writing, writes>> BY DEF ctlFlush
<1>2. Active' = Active BY <1>1 DEF Active
<1>3. ctl \in [Ctls -> Channel] /\ ctl[c] \in Channel BY DEF DataInv, DataTypes
<1>4. CASE ctl[c].stop \/ count = 0
  <2>1. SendAll(c, Batches(c)) /\ ctl' = [ctl EXCEPT ![c].batch = [f \in Fds |-> NoBatch]]
    BY <1>4, Zenon DEF ctlFlush
  <2>2. PICK bs : bs = [f \in Fds |-> NoBatch] OBVIOUS
  <2>3. bs \in [Fds -> Message] /\ \A f \in Fds : bs[f] = NoBatch /\ ~bs[f].stream
    BY <2>2, EmptyBatch
  <2>4. PICK k : k = [ctl[c] EXCEPT !.batch = bs] OBVIOUS
  <2>5. ctl' = [ctl EXCEPT ![c] = k] BY <2>1, <2>2, <2>4, Zenon
  <2>6. /\ k \in Channel /\ k.ring = ctl[c].ring /\ k.batch = bs /\ k.up = ctl[c].up
        /\ k.stop = ctl[c].stop /\ k.outage = ctl[c].outage
    BY <1>3, <2>3, <2>4, Zenon DEF Channel
  <2>7. ctl' \in [Ctls -> Channel] /\ \A x \in Ctls : ctl'[x] = IF x = c THEN k ELSE ctl[x]
    BY <1>3, <2>5, <2>6
  <2>8. /\ \A x \in Ctls : /\ ctl'[x].ring = ctl[x].ring /\ ctl'[x].up = ctl[x].up
                           /\ ctl'[x].stop = ctl[x].stop /\ ctl'[x].outage = ctl[x].outage
        /\ ctl'[c].batch = [f \in Fds |-> NoBatch]
        /\ \A x \in Ctls \ {c} : ctl'[x].batch = ctl[x].batch
    BY <2>2, <2>6, <2>7
  <2>9. /\ DataInv' /\ \A f \in Fds : ~ctl'[c].batch[f].stream
        /\ \A x \in Out(dropped)' : x \in Out(dropped) \/ (~ctl[c].up /\ writes[x].ctl = c)
    BY <1>1, <1>2, <2>1, <2>7, <2>8, FlushKeeps
  <2>10. \A x \in Ctls, f \in Fds : ctl'[x].batch[f].stream => ctl[x].batch[f].stream
    BY <2>8, <2>9
  <2> QED BY <1>1, <2>7, <2>8, <2>9, <2>10
<1>5. CASE ~(ctl[c].stop \/ count = 0)
  <2>1. UNCHANGED <<ctl, sent, dropped>> BY <1>5, Zenon DEF ctlFlush
  <2>2. DataInv' BY <1>1, <1>2, <1>3, <2>1, QuietKeeps
  <2>3. Out(dropped)' = Out(dropped) BY <2>1
  <2>4. ~ctl[c].stop BY <1>5
  <2> QED BY <1>1, <1>3, <2>1, <2>2, <2>3, <2>4
<1> QED BY <1>4, <1>5

\* doConfig, the rest: the old channel has nothing but its ring.
LEMMA ConfigFlushKeeps ==
    ASSUME DataInv, NEW c \in Ctls, ConfigFlush(c), exit'.alone => exit.alone /\ c = Active
    PROVE  /\ DataInv' /\ g_ctl' = g_ctl /\ writes' = writes
           /\ \A x \in Ctls : /\ ctl'[x].ring = ctl[x].ring /\ ctl'[x].outage = ctl[x].outage
                              /\ x # c => ctl'[x] = ctl[x]
           /\ \A x \in Out(dropped)' : x \in Out(dropped) \/ (~ctl[c].up /\ writes[x].ctl = c)
<1>1. UNCHANGED <<g_ctl, fileUid, clock, writing, writes>> BY DEF ConfigFlush
<1>2. ctl \in [Ctls -> Channel] /\ ctl[c] \in Channel BY DEF DataInv, DataTypes
<1>3. /\ SendAll(c, Batches(c))
      /\ ctl' = [ctl EXCEPT ![c].stop = TRUE, ![c].up = FALSE, ![c].batch = [f \in Fds |-> NoBatch]]
  BY Zenon DEF ConfigFlush
<1>4. PICK bs : bs = [f \in Fds |-> NoBatch] OBVIOUS
<1>5. bs \in [Fds -> Message] /\ \A f \in Fds : bs[f] = NoBatch BY <1>4, EmptyBatch
<1>6. PICK i : i = [ctl[c] EXCEPT !.stop = TRUE] OBVIOUS
<1>7. PICK j : j = [i EXCEPT !.up = FALSE] OBVIOUS
<1>8. PICK k : k = [j EXCEPT !.batch = bs] OBVIOUS
<1>9. ctl' = [ctl EXCEPT ![c] = k] BY <1>2, <1>3, <1>4, <1>6, <1>7, <1>8, Zenon
<1>10. i \in Channel /\ i.ring = ctl[c].ring /\ i.outage = ctl[c].outage BY <1>2, <1>6, Zenon DEF Channel
<1>11. j \in Channel /\ j.ring = ctl[c].ring /\ j.outage = ctl[c].outage BY <1>7, <1>10, Zenon DEF Channel
<1>12. k \in Channel /\ k.ring = ctl[c].ring /\ k.outage = ctl[c].outage /\ k.batch = bs
  BY <1>5, <1>8, <1>11, Zenon DEF Channel
<1>13. ctl' \in [Ctls -> Channel] /\ \A x \in Ctls : ctl'[x] = IF x = c THEN k ELSE ctl[x]
  BY <1>2, <1>9, <1>12
<1>14. /\ \A x \in Ctls : /\ ctl'[x].ring = ctl[x].ring /\ ctl'[x].outage = ctl[x].outage
                          /\ x # c => ctl'[x] = ctl[x]
       /\ ctl'[c].batch = [f \in Fds |-> NoBatch]
       /\ \A x \in Ctls \ {c} : ctl'[x].batch = ctl[x].batch
  BY <1>4, <1>12, <1>13
<1>15. /\ DataInv'
       /\ \A x \in Out(dropped)' : x \in Out(dropped) \/ (~ctl[c].up /\ writes[x].ctl = c)
  BY <1>1, <1>3, <1>13, <1>14, FlushKeeps
<1> QED BY <1>1, <1>14, <1>15

\* doConfig, first part: a new channel.
LEMMA SwapKeeps ==
    ASSUME DataInv, ConfigSwap, configuring = 0, configuring' = g_ctl, exit'.alone => exit.alone
    PROVE  /\ DataInv' /\ g_ctl' = g_ctl + 1 /\ g_ctl' \in Ctls /\ g_ctl \in Ctls
           /\ UNCHANGED <<writes, dropped>> /\ Active' = g_ctl
           /\ \A x \in Ctls : x # g_ctl' => ctl'[x] = ctl[x]
           /\ ~ctl'[g_ctl'].up => ctl'[g_ctl'].outage
<1>1. MaxCtls \in Nat BY ConsoleAssumption
<1>2. DataTypes BY DEF DataInv
<1>3. /\ g_ctl \in Ctls /\ g_ctl \in Int /\ g_ctl # 0 /\ g_ctl' = g_ctl + 1 /\ g_ctl' \in Ctls /\ g_ctl < g_ctl'
  BY <1>1, <1>2 DEF ConfigSwap, DataTypes, Ctls
<1>4. UNCHANGED <<fileUid, clock, writing, writes, sent, dropped>> BY DEF ConfigSwap
<1>5. PICK p \in BOOLEAN : p = (outages' = outages) OBVIOUS
<1>6. PICK g, k : g = g_ctl' /\ k = ctlCreate(p) OBVIOUS
<1>7. ctl' = [ctl EXCEPT ![g] = k] BY <1>3, <1>5, <1>6 DEF ConfigSwap
<1>8. /\ k \in Channel /\ Len(k.ring) = 0 /\ (\A f \in Fds : k.batch[f] = NoBatch)
      /\ (~k.up => k.outage) /\ \A i \in 1 .. Len(k.ring) : FALSE
  BY <1>6, Created
<1>9. g \in Ctls /\ g > g_ctl BY <1>3, <1>6
<1>10. ctl' \in [Ctls -> Channel] /\ \A x \in Ctls : ctl'[x] = IF x = g THEN k ELSE ctl[x]
  BY <1>2, <1>7, <1>8, <1>9 DEF DataTypes
<1>11. Len(ctl[g].ring) = 0 /\ \A f \in Fds : ~ctl[g].batch[f].stream BY <1>9 DEF DataInv, FutureEmpty
<1>12. Active' = g_ctl /\ Active = g_ctl BY <1>3 DEF Active
<1>13. \A x \in Ctls : InRing(x)' = InRing(x)
  <2>1. Queued(k.ring) = {} /\ Queued(ctl[g].ring) = {} BY <1>8, <1>11 DEF Queued
  <2> QED BY <1>10, <2>1 DEF InRing
<1>14. \A x \in Ctls, f \in Fds : Held(x, f)' = Held(x, f)
  <2> SUFFICES ASSUME NEW x \in Ctls, NEW f \in Fds PROVE Held(x, f)' = Held(x, f) OBVIOUS
  <2>1. CASE x # g BY <1>10, <2>1 DEF Held
  <2>2. CASE x = g
    <3>1. Numbers(k.batch[f]) = {} BY <1>8 DEF Numbers, NoBatch
    <3>2. Len(ctl[g].batch[f].data) = 0 BY <1>9, <1>11 DEF DataInv, BatchInOrder, BatchOrdered
    <3>3. Numbers(ctl[g].batch[f]) = {} BY <3>2 DEF Numbers
    <3> QED BY <1>10, <2>2, <3>1, <3>3 DEF Held
  <2> QED BY <2>1, <2>2
<1>15. \A f \in Fds : ~k.batch[f].stream BY <1>8 DEF NoBatch
<1>16. Out(sent)' = Out(sent) /\ Out(dropped)' = Out(dropped) BY <1>4
<1>17. /\ \A x \in Out(sent) : x \in 1 .. Len(writes) /\ writes[x].ctl \in Ctls
       /\ \A x \in 1 .. Len(writes) : writes[x].ctl \in Ctls
  BY <1>2, Known, WriteFacts
<1>18. DataTypes' BY <1>3, <1>4, <1>10 DEF DataInv, DataTypes
<1>19. ASSUME NEW x \in Ctls PROVE RingInOrder(x)'
  <2>1. CASE x # g BY <1>4, <1>10, <2>1 DEF DataInv, RingInOrder
  <2>2. CASE x = g BY <1>8, <1>10, <2>2 DEF RingInOrder, RingOrdered
  <2> QED BY <2>1, <2>2
<1>20. ASSUME NEW x \in Ctls, NEW f \in Fds PROVE BatchInOrder(x, f)'
  <2>1. CASE x # g BY <1>4, <1>10, <2>1 DEF DataInv, BatchInOrder
  <2>2. CASE x = g
    BY <1>8, <1>10, <2>2, ConsoleAssumption DEF BatchInOrder, BatchOrdered, Ordered, NoBatch, Numbers
  <2> QED BY <2>1, <2>2
<1>21. SentOlder'
  <2>1. (\A i \in 1 .. Len(sent) : InOrder(sent[i]))' BY <1>4 DEF DataInv, SentOlder, InOrder
  <2>2. ASSUME NEW x \in Out(sent), NEW y \in InRing(writes[x].ctl)' PROVE x < y
    <3>1. PICK z \in Ctls : z = writes[x].ctl BY <1>17
    <3>2. y \in Queued(ctl'[z].ring) BY <1>4, <2>2, <3>1 DEF InRing
    <3>3. y \in InRing(z) BY <1>13, <3>2 DEF InRing
    <3> QED BY <3>1, <3>3 DEF DataInv, SentOlder
  <2>3. (\A x \in Out(sent) : \A y \in InRing(writes[x].ctl) : x < y)' BY <1>16, <2>2
  <2>4. ASSUME NEW x \in Out(sent), NEW z \in Ctls, NEW f \in Fds, NEW y \in Held(z, f),
               writes[x].uid = writes[y].uid, exit'.alone \/ writes[x].ctl = z
        PROVE  x < y
    BY <2>4 DEF DataInv, SentOlder
  <2>5. (\A x \in Out(sent) : \A z \in Ctls, f \in Fds : \A y \in Held(z, f) :
           writes[x].uid = writes[y].uid /\ (exit.alone \/ writes[x].ctl = z) => x < y)'
    BY <1>4, <1>14, <1>16, <2>4
  <2> QED BY <2>1, <2>3, <2>5 DEF SentOlder
<1>22. DroppedKnown' BY <1>4, <1>16 DEF DataInv, DroppedKnown
<1>23. SentInTurn' BY <1>4 DEF DataInv, SentInTurn
<1>24. OneHome'
  <2>1. ASSUME NEW f \in Fds, NEW u \in Nat, AtHome(f, u)' PROVE AtHome(f, u)
    BY <1>4, <1>8, <1>10, <1>15, <2>1 DEF AtHome
  <2> QED BY <1>4, <2>1 DEF DataInv, OneHome
<1>25. FutureEmpty'
  <2>1. \A n \in 1 .. Len(writes) : writes[n].ctl <= g_ctl'
    <3>1. ASSUME NEW n \in 1 .. Len(writes) PROVE writes[n].ctl <= g_ctl'
      <4>1. writes[n].ctl \in Int /\ writes[n].ctl <= g_ctl BY <1>17 DEF DataInv, FutureEmpty, Ctls
      <4> QED BY <1>3, <4>1
    <3> QED BY <3>1
  <2>2. ASSUME NEW t \in Writers, writing[t].at = "put" PROVE writing[t].ctl <= g_ctl'
    <3>1. writing[t].ctl \in Ctls /\ writing[t].ctl <= g_ctl
      BY <2>2 DEF DataInv, FutureEmpty, DataTypes
    <3> QED BY <1>3, <3>1 DEF Ctls
  <2>3. ASSUME NEW x \in Ctls, x > g_ctl'
        PROVE  Len(ctl'[x].ring) = 0 /\ \A f \in Fds : ~ctl'[x].batch[f].stream
    <3>1. x > g_ctl /\ x # g BY <1>3, <1>6, <2>3 DEF Ctls
    <3> QED BY <1>10, <3>1 DEF DataInv, FutureEmpty
  <2> QED BY <1>4, <2>1, <2>2, <2>3 DEF FutureEmpty
<1>26. OneActive'
  <2> SUFFICES ASSUME exit'.alone PROVE OneActive' BY DEF OneActive
  <2>1. exit.alone OBVIOUS
  <2>2. \A x \in Ctls, f \in Fds : ctl'[x].batch[f].stream => x = Active'
    BY <1>10, <1>12, <1>15, <2>1 DEF DataInv, OneActive
  <2>3. \A n \in 1 .. Len(writes) :
           /\ \A x \in Out(sent) : writes[x].ctl < writes[n].ctl => x < n
           /\ \A c \in Ctls, f \in Fds : \A x \in Held(c, f) : c < writes[n].ctl => x < n
    BY <2>1 DEF DataInv, OneActive
  <2> QED BY <1>4, <1>14, <1>16, <2>2, <2>3 DEF OneActive
<1>27. Conserved'
  <2> SUFFICES ASSUME NEW n \in 1 .. Len(writes)
               PROVE  \/ n \in Out(sent)' \/ n \in Out(dropped)'
                      \/ n \in InRing(writes[n].ctl)'
                      \/ \E f \in Fds : n \in Held(writes[n].ctl, f)'
    BY <1>4 DEF Conserved
  <2>1. PICK z \in Ctls : z = writes[n].ctl BY <1>17
  <2>2. n \in InRing(z) => n \in Queued(ctl'[z].ring) BY <1>13 DEF InRing
  <2>3. \A f \in Fds : n \in Held(z, f) => n \in Numbers(ctl'[z].batch[f]) BY <1>14 DEF Held
  <2>4. \/ n \in Out(sent) \/ n \in Out(dropped) \/ n \in InRing(z)
        \/ \E f \in Fds : n \in Held(z, f)
    BY <2>1 DEF DataInv, Conserved
  <2> QED BY <1>4, <1>16, <2>1, <2>2, <2>3, <2>4 DEF InRing, Held
<1>28. DataInv'
  BY <1>18, <1>19, <1>20, <1>21, <1>22, <1>23, <1>24, <1>25, <1>26, <1>27 DEF DataInv
<1> QED BY <1>3, <1>4, <1>6, <1>8, <1>10, <1>12, <1>28

----------------------------------------------------------------------------
(* Flags of a channel.                                                     *)

LEMMA SetUp ==
    ASSUME DataTypes, NEW c \in Ctls, NEW p \in BOOLEAN, ctl' = [ctl EXCEPT ![c].up = p]
    PROVE  /\ ctl' \in [Ctls -> Channel]
           /\ \A x \in Ctls : /\ ctl'[x].ring = ctl[x].ring /\ ctl'[x].batch = ctl[x].batch
                              /\ ctl'[x].stop = ctl[x].stop /\ ctl'[x].outage = ctl[x].outage
                              /\ x # c => ctl'[x].up = ctl[x].up
           /\ ctl'[c].up = p
<1>1. ctl \in [Ctls -> Channel] /\ ctl[c] \in Channel BY DEF DataTypes
<1>2. PICK k : k = [ctl[c] EXCEPT !.up = p] OBVIOUS
<1>3. ctl' = [ctl EXCEPT ![c] = k] BY <1>2, Zenon
<1>4. /\ k \in Channel /\ k.ring = ctl[c].ring /\ k.batch = ctl[c].batch /\ k.up = p
      /\ k.stop = ctl[c].stop /\ k.outage = ctl[c].outage
  BY <1>1, <1>2, Zenon DEF Channel
<1>5. ctl' \in [Ctls -> Channel] /\ ctl'[c] = k /\ \A x \in Ctls : x # c => ctl'[x] = ctl[x]
  BY <1>1, <1>3, <1>4
<1> QED BY <1>4, <1>5

LEMMA SetStop ==
    ASSUME DataTypes, NEW c \in Ctls, ctlStopAggregating(c)
    PROVE  /\ ctl' \in [Ctls -> Channel]
           /\ \A x \in Ctls : /\ ctl'[x].ring = ctl[x].ring /\ ctl'[x].batch = ctl[x].batch
                              /\ ctl'[x].up = ctl[x].up /\ ctl'[x].outage = ctl[x].outage
           /\ ctl'[c].stop
<1>1. ctl \in [Ctls -> Channel] /\ ctl[c] \in Channel BY DEF DataTypes
<1>2. PICK k : k = [ctl[c] EXCEPT !.stop = TRUE] OBVIOUS
<1>3. ctl' = [ctl EXCEPT ![c] = k] BY <1>2, Zenon DEF ctlStopAggregating
<1>4. /\ k \in Channel /\ k.ring = ctl[c].ring /\ k.batch = ctl[c].batch /\ k.stop
      /\ k.up = ctl[c].up /\ k.outage = ctl[c].outage
  BY <1>1, <1>2, Zenon DEF Channel
<1>5. ctl' \in [Ctls -> Channel] /\ ctl'[c] = k /\ \A x \in Ctls : x # c => ctl'[x] = ctl[x]
  BY <1>1, <1>3, <1>4
<1> QED BY <1>4, <1>5

LEMMA SetBroken ==
    ASSUME DataTypes, NEW c \in Ctls, Break(c)
    PROVE  /\ ctl' \in [Ctls -> Channel]
           /\ \A x \in Ctls : /\ ctl'[x].ring = ctl[x].ring /\ ctl'[x].batch = ctl[x].batch
                              /\ ctl'[x].stop = ctl[x].stop
                              /\ x # c => ctl'[x] = ctl[x]
           /\ ctl'[c].outage
<1>1. ctl \in [Ctls -> Channel] /\ ctl[c] \in Channel BY DEF DataTypes
<1>2. PICK j : j = [ctl[c] EXCEPT !.up = FALSE] OBVIOUS
<1>3. PICK k : k = [j EXCEPT !.outage = TRUE] OBVIOUS
<1>4. ctl' = [ctl EXCEPT ![c] = k] BY <1>1, <1>2, <1>3, Zenon DEF Break
<1>5. j \in Channel /\ j.ring = ctl[c].ring /\ j.batch = ctl[c].batch /\ j.stop = ctl[c].stop
  BY <1>1, <1>2, Zenon DEF Channel
<1>6. k \in Channel /\ k.ring = ctl[c].ring /\ k.batch = ctl[c].batch /\ k.stop = ctl[c].stop /\ k.outage
  BY <1>3, <1>5, Zenon DEF Channel
<1>7. ctl' \in [Ctls -> Channel] /\ ctl'[c] = k /\ \A x \in Ctls : x # c => ctl'[x] = ctl[x]
  BY <1>1, <1>4, <1>6
<1> QED BY <1>6, <1>7

----------------------------------------------------------------------------
(* The control part.                                                       *)

LEMMA ActiveType ==
    ASSUME DataTypes, ControlTypes
    PROVE  g_ctl \in Ctls /\ Active \in Ctls /\ (configuring # 0 => configuring \in Ctls)
  BY ConsoleAssumption DEF DataTypes, ControlTypes, Active, Ctls

\* Outages, in steps that connect or drop by the rules.
LEMMA OutagesKept ==
    ASSUME DataInv, DataInv', ControlInv, UNCHANGED <<g_ctl, configuring, writes>>,
           exit'.alone => exit.alone /\ (exit'.at # "done" => exit.at # "done"),
           \A x \in Ctls : ctl'[x].outage = ctl[x].outage /\ (~ctl'[x].up => ~ctl[x].up),
           exit.alone => \A x \in Out(dropped)' : x \in Out(dropped) \/ ctl[writes[x].ctl].outage
    PROVE  Outages'
<1> SUFFICES ASSUME exit'.alone PROVE Outages' BY DEF Outages
<1>1. exit.alone /\ Active' = Active BY DEF Active
<1>2. g_ctl \in Ctls /\ Active \in Ctls BY ActiveType DEF DataInv, ControlInv
<1>3. (exit.at # "done" => \A c \in {g_ctl, Active} : ~ctl[c].up => ctl[c].outage)'
  BY <1>1, <1>2 DEF ControlInv, Outages
<1>4. ASSUME NEW x \in Out(dropped)' PROVE ctl'[writes'[x].ctl].outage
  <2>1. ctl[writes[x].ctl].outage BY <1>1, <1>4 DEF ControlInv, Outages
  <2>2. x \in 1 .. Len(writes) BY <1>4 DEF DataInv, DroppedKnown
  <2>3. writes[x].ctl \in Ctls BY <2>2, WriteFacts DEF DataInv
  <2> QED BY <2>1, <2>3
<1> QED BY <1>3, <1>4 DEF Outages

\* Steps that leave pass, doConfig and handleExit where they are.
LEMMA SameControl ==
    ASSUME DataInv, DataInv', ControlInv, UNCHANGED <<pass, configuring, exit, g_ctl>>,
           Len(writes) \in Nat, Len(writes') \in Nat, Len(writes) <= Len(writes'),
           \A n \in 1 .. Len(writes) : writes'[n] = writes[n],
           \A c \in Ctls : /\ ctl'[c].stop = ctl[c].stop /\ (ctl[c].outage => ctl'[c].outage)
                           /\ ctl'[c].up = ctl[c].up \/ ctl'[c].outage,
           \A c \in Ctls : \A x \in InRing(c)' : x \in InRing(c) \/ Len(writes) < x,
           pass.at = "last" => \A f \in Fds : ctl'[g_ctl].batch[f].stream => ctl[g_ctl].batch[f].stream,
           exit.alone => \A x \in Out(dropped)' :
                            x \in 1 .. Len(writes) /\ (x \in Out(dropped) \/ ctl[writes[x].ctl].outage)
    PROVE  ControlInv'
<1>1. g_ctl \in Ctls /\ Active \in Ctls /\ Active' = Active
  BY ActiveType DEF DataInv, ControlInv, Active
<1>2. ControlTypes' /\ WhoPasses' /\ Alone' BY DEF ControlInv, ControlTypes, WhoPasses, Alone
<1>3. Outages'
  <2> SUFFICES ASSUME exit.alone PROVE Outages' BY DEF Outages
  <2>1. (exit.at # "done" => \A c \in {g_ctl, Active} : ~ctl[c].up => ctl[c].outage)'
    BY <1>1 DEF ControlInv, Outages
  <2>2. ASSUME NEW x \in Out(dropped)' PROVE ctl'[writes'[x].ctl].outage
    <3>1. x \in 1 .. Len(writes) /\ ctl[writes[x].ctl].outage BY <2>2 DEF ControlInv, Outages
    <3>2. writes[x].ctl \in Ctls BY <3>1, WriteFacts DEF DataInv
    <3> QED BY <3>1, <3>2
  <2> QED BY <2>1, <2>2 DEF Outages
<1>4. ExitOnItsWay'
  <2>1. exit.mark \in Nat /\ exit.mark <= Len(writes) BY DEF ControlInv, ControlTypes, ExitState, ExitOnItsWay
  <2>2. exit'.mark <= Len(writes') BY <2>1
  <2>3. ASSUME exit.alone, pass.by = "exit", pass.at \in {"connect", "log", "flush"} PROVE ctl'[g_ctl].stop
    BY <1>1, <2>3 DEF ControlInv, ExitOnItsWay
  <2>4. ASSUME exit.alone, pass.by = "exit", pass.at = "flush" \/ (pass.at = "last" /\ exit.ready),
               NEW x \in InRing(g_ctl)'
        PROVE  exit.mark < x
    <3>1. x \in Queued(ctl'[g_ctl].ring) BY <2>4 DEF InRing
    <3>2. x \in InRing(g_ctl) \/ Len(writes) < x
      <4>1. \A c \in Ctls : \A y \in Queued(ctl'[c].ring) : y \in InRing(c) \/ Len(writes) < y BY DEF InRing
      <4> QED BY <1>1, <3>1, <4>1
    <3>3. CASE x \in InRing(g_ctl) BY <2>4, <3>3 DEF ControlInv, ExitOnItsWay
    <3>4. CASE Len(writes) < x
      <4>1. x \in 1 .. Len(writes')
        <5>1. RingOrdered(ctl'[g_ctl].ring, g_ctl, writes') BY <1>1 DEF DataInv, RingInOrder
        <5> QED BY <3>1, <5>1 DEF RingOrdered, Queued
      <4> QED BY <2>1, <3>4, <4>1
    <3> QED BY <3>2, <3>3, <3>4
  <2>5. ASSUME exit.alone, pass.by = "exit", pass.at = "last", exit.ready, NEW f \in Fds
        PROVE  ~ctl'[g_ctl].batch[f].stream
    BY <2>5 DEF ControlInv, ExitOnItsWay
  <2>6. (pass.at = "flush" \/ (pass.at = "last" /\ exit.ready)) /\ exit.alone /\ pass.by = "exit" =>
           \A x \in Queued(ctl'[g_ctl].ring) : exit.mark < x
    BY <2>4 DEF InRing
  <2> QED BY <2>2, <2>3, <2>5, <2>6 DEF ExitOnItsWay, InRing
<1> QED BY <1>2, <1>3, <1>4 DEF ControlInv

\* Application threads and the network.
LEMMA ThreadsKeep ==
    ASSUME ReportingInv,
           \/ \E t \in Writers : DoWrite(t) \/ DoWriteEnd(t)
           \/ \E f \in Fds : Reopen(f)
           \/ \E c \in Ctls : Lost(c)
    PROVE  ReportingInv'
<1> USE DEF ReportingInv
<1>1. DataTypes /\ Len(writes) \in Nat BY DEF DataInv, DataTypes
<1>2. \A x \in Out(dropped) : x \in 1 .. Len(writes) BY Known
<1>3. ASSUME NEW t \in Writers, DoWrite(t) PROVE ReportingInv'
  <2>1. PICK f \in Fds, n \in Lens : SendLogCall(t, f, n) BY <1>3 DEF DoWrite
  <2>2. UNCHANGED <<pass, configuring, exit>> BY <1>3 DEF DoWrite
  <2>3. DataInv' BY <2>1, <2>2, CallKeeps
  <2>4. UNCHANGED <<g_ctl, ctl, writes, dropped>> BY <2>1 DEF SendLogCall
  <2>5. \A x \in Ctls : InRing(x)' = InRing(x) BY <2>4 DEF InRing
  <2>6. Out(dropped)' = Out(dropped) BY <2>4
  <2>7. ControlInv' BY <1>1, <1>2, <2>2, <2>3, <2>4, <2>5, <2>6, SameControl
  <2> QED BY <2>3, <2>7
<1>4. ASSUME NEW t \in Writers, DoWriteEnd(t) PROVE ReportingInv'
  <2>1. SendLogPut(t) /\ UNCHANGED <<pass, configuring, exit>> BY <1>4 DEF DoWriteEnd
  <2>2. /\ DataInv'
        /\ Len(writes) <= Len(writes') /\ Len(writes) \in Nat /\ Len(writes') \in Nat
        /\ \A n \in 1 .. Len(writes) : writes'[n] = writes[n]
        /\ \A c \in Ctls : \A x \in InRing(c)' : x \in InRing(c) \/ Len(writes) < x
        /\ \A c \in Ctls : /\ ctl'[c].batch = ctl[c].batch /\ ctl'[c].up = ctl[c].up
                           /\ ctl'[c].outage = ctl[c].outage /\ ctl'[c].stop = ctl[c].stop
    BY <2>1, PutKeeps
  <2>3. g_ctl' = g_ctl /\ dropped' = dropped BY <2>1 DEF SendLogPut
  <2>4. Out(dropped)' = Out(dropped) BY <2>3
  <2>5. g_ctl \in Ctls BY <1>1 DEF DataTypes
  <2>6. ControlInv' BY <1>2, <2>1, <2>2, <2>3, <2>4, <2>5, SameControl
  <2> QED BY <2>2, <2>6
<1>5. ASSUME NEW f \in Fds, Reopen(f) PROVE ReportingInv'
  <2>1. doOpen(f) /\ UNCHANGED <<pass, configuring, exit>> BY <1>5 DEF Reopen
  <2>2. DataInv' BY <2>1, OpenKeeps
  <2>3. UNCHANGED <<g_ctl, ctl, writes, dropped>> BY <2>1 DEF doOpen
  <2>4. \A x \in Ctls : InRing(x)' = InRing(x) BY <2>3 DEF InRing
  <2>5. Out(dropped)' = Out(dropped) BY <2>3
  <2>6. ControlInv' BY <1>1, <1>2, <2>1, <2>2, <2>3, <2>4, <2>5, SameControl
  <2> QED BY <2>2, <2>6
<1>6. ASSUME NEW c \in Ctls, Lost(c) PROVE ReportingInv'
  <2>1. Break(c) /\ UNCHANGED <<pass, configuring, exit>> BY <1>6 DEF Lost
  <2>2. UNCHANGED <<g_ctl, fileUid, clock, writing, writes, sent, dropped>> BY <2>1 DEF Break
  <2>3. /\ ctl' \in [Ctls -> Channel]
        /\ \A x \in Ctls : /\ ctl'[x].ring = ctl[x].ring /\ ctl'[x].batch = ctl[x].batch
                           /\ ctl'[x].stop = ctl[x].stop
                           /\ x # c => ctl'[x] = ctl[x]
        /\ ctl'[c].outage
    BY <1>1, <2>1, SetBroken
  <2>4. Active' = Active BY <2>1, <2>2 DEF Active
  <2>5. DataInv' BY <2>1, <2>2, <2>3, <2>4, QuietKeeps
  <2>6. \A x \in Ctls : InRing(x)' = InRing(x) BY <2>3 DEF InRing
  <2>7. Out(dropped)' = Out(dropped) BY <2>2
  <2>8. g_ctl \in Ctls BY <1>1 DEF DataTypes
  <2>9. \A x \in Ctls : (ctl[x].outage => ctl'[x].outage) /\ (ctl'[x].up = ctl[x].up \/ ctl'[x].outage)
    BY <2>3
  <2>10. ControlInv' BY <1>1, <1>2, <2>1, <2>2, <2>3, <2>5, <2>6, <2>7, <2>8, <2>9, SameControl
  <2> QED BY <2>5, <2>10
<1> QED BY <1>3, <1>4, <1>5, <1>6

\* The fields of NoPass, and of what a pass ends with.
LEMMA PassEnds ==
    ASSUME DataTypes, ControlTypes
    PROVE  /\ NoPass \in PassState /\ NoPass.by = "none" /\ NoPass.at = "none"
           /\ pass.by # "exit" => AfterPass = NoPass
           /\ pass.by = "exit" => /\ AfterPass \in PassState /\ AfterPass.by = "exit"
                                  /\ AfterPass.at = "last" /\ AfterPass.ctl = g_ctl
<1>1. NoPass \in PassState /\ NoPass.by = "none" /\ NoPass.at = "none" BY DEF NoPass, PassState
<1>2. pass.by # "exit" => AfterPass = NoPass BY DEF AfterPass
<1>3. ASSUME pass.by = "exit"
      PROVE  /\ AfterPass \in PassState /\ AfterPass.by = "exit"
             /\ AfterPass.at = "last" /\ AfterPass.ctl = g_ctl
  <2>1. AfterPass = [pass EXCEPT !.at = "last", !.ctl = g_ctl] BY <1>3 DEF AfterPass
  <2>2. pass \in PassState /\ g_ctl \in Ctls BY DEF DataTypes, ControlTypes
  <2> QED BY <1>3, <2>1, <2>2 DEF PassState
<1> QED BY <1>1, <1>2, <1>3

\* A pass.
LEMMA PassKeeps ==
    ASSUME ReportingInv, PassStart \/ Pass
    PROVE  ReportingInv'
<1> USE DEF ReportingInv
<1>1. DataTypes /\ ControlTypes BY DEF DataInv, ControlInv
<1>2. /\ g_ctl \in Ctls /\ pass \in PassState /\ exit \in ExitState /\ ctl \in [Ctls -> Channel]
      /\ Len(writes) \in Nat /\ exit.alone \in BOOLEAN
  <2>1. g_ctl \in Ctls /\ ctl \in [Ctls -> Channel] /\ Len(writes) \in Nat BY <1>1 DEF DataTypes
  <2>2. pass \in PassState /\ exit \in ExitState BY <1>1 DEF ControlTypes
  <2>3. exit.alone \in BOOLEAN BY <2>2 DEF ExitState
  <2> QED BY <2>1, <2>2, <2>3
<1>3. CASE PassStart
  <2>1. /\ pass = NoPass /\ configuring = 0 /\ UNCHANGED <<consoleVars, configuring>>
        /\ pass' = [by |-> "reporter", at |-> "connect", ctl |-> 0]
    BY <1>3 DEF PassStart
  <2>2. PICK q \in BOOLEAN : exit' = [exit EXCEPT !.late = q] BY <1>3 DEF PassStart
  <2>3. /\ exit' \in ExitState /\ exit'.at = exit.at /\ exit'.mark = exit.mark
        /\ exit'.alone = exit.alone /\ exit'.ready = exit.ready
    BY <1>2, <2>2 DEF ExitState
  <2>4. pass' \in PassState /\ pass'.by = "reporter" /\ pass'.at = "connect" BY <2>1 DEF PassState
  <2>5. UNCHANGED <<g_ctl, ctl, fileUid, clock, writing, writes, sent, dropped>> BY <2>1 DEF consoleVars
  <2>6. Active' = Active BY <2>1, <2>5 DEF Active
  <2>7. DataInv' BY <1>2, <2>3, <2>5, <2>6, QuietKeeps
  <2>8. ControlTypes' BY <1>1, <2>1, <2>3, <2>4 DEF ControlTypes
  <2>9. WhoPasses' BY <2>1, <2>3, <2>4, PassEnds, <1>1 DEF ControlInv, WhoPasses
  <2>10. Alone' BY <2>1, <2>3, <2>4, <2>5 DEF ControlInv, Alone
  <2>11. Outages' BY <2>1, <2>3, <2>5, <2>7, OutagesKept
  <2>12. ExitOnItsWay' BY <2>3, <2>4, <2>5 DEF ControlInv, ExitOnItsWay
  <2> QED BY <2>7, <2>8, <2>9, <2>10, <2>11, <2>12 DEF ControlInv
<1>4. CASE PassConnect
  <2>1. PICK p \in BOOLEAN, q \in BOOLEAN :
          /\ ctlConnect(g_ctl, p)
          /\ pass' = IF p \/ q THEN [pass EXCEPT !.at = "log", !.ctl = g_ctl] ELSE AfterPass
          /\ exit' = [exit EXCEPT !.ready = pass.by = "exit" /\ (p \/ q)]
    BY <1>4 DEF PassConnect
  <2>2. pass.at = "connect" /\ configuring' = configuring /\ exit.at \notin {"done", "gave up"}
    BY <1>4 DEF PassConnect, Running
  <2>3. UNCHANGED <<g_ctl, fileUid, clock, writing, writes, sent, dropped>> BY <2>1 DEF ctlConnect
  <2>4. (ctl[g_ctl].up => p) /\ ctl' = [ctl EXCEPT ![g_ctl].up = p] BY <2>1, Zenon DEF ctlConnect
  <2>5. /\ ctl' \in [Ctls -> Channel]
        /\ \A x \in Ctls : /\ ctl'[x].ring = ctl[x].ring /\ ctl'[x].batch = ctl[x].batch
                           /\ ctl'[x].stop = ctl[x].stop /\ ctl'[x].outage = ctl[x].outage
                           /\ x # g_ctl => ctl'[x].up = ctl[x].up
        /\ ctl'[g_ctl].up = p
    BY <1>1, <1>2, <2>4, SetUp
  <2>6. PICK r \in BOOLEAN : r = (pass.by = "exit" /\ (p \/ q)) OBVIOUS
  <2>7. exit' = [exit EXCEPT !.ready = r] BY <2>1, <2>6
  <2>8. /\ exit' \in ExitState /\ exit'.at = exit.at /\ exit'.mark = exit.mark
        /\ exit'.alone = exit.alone /\ exit'.ready = r
    BY <1>2, <2>7 DEF ExitState
  <2>9. Active' = Active BY <2>2, <2>3 DEF Active
  <2>10. DataInv' BY <2>3, <2>5, <2>8, <2>9, QuietKeeps
  <2>11. \A x \in Ctls : ctl'[x].outage = ctl[x].outage /\ (~ctl'[x].up => ~ctl[x].up) BY <2>4, <2>5
  <2>12. Out(dropped)' = Out(dropped) BY <2>3
  <2>13. Outages' BY <2>2, <2>3, <2>8, <2>10, <2>11, <2>12, OutagesKept
  <2>14. pass.by # "none" BY <1>1, <2>2, PassEnds DEF ControlInv, WhoPasses
  <2>15. InRing(g_ctl)' = InRing(g_ctl)
    <3>1. ctl'[g_ctl].ring = ctl[g_ctl].ring BY <1>2, <2>5
    <3> QED BY <2>3, <3>1 DEF InRing
  <2>16. CASE p \/ q
    <3>1. pass' = [pass EXCEPT !.at = "log", !.ctl = g_ctl] BY <2>1, <2>16
    <3>2. pass' \in PassState /\ pass'.by = pass.by /\ pass'.at = "log" /\ pass'.ctl = g_ctl
      BY <1>2, <3>1 DEF PassState
    <3>3. ControlTypes' BY <1>1, <2>2, <2>8, <3>2 DEF ControlTypes
    <3>4. WhoPasses' BY <1>2, <2>2, <2>3, <2>8, <2>14, <3>2 DEF ControlInv, WhoPasses
    <3>5. Alone' BY <1>1, <2>2, <2>3, <2>8, <3>2, PassEnds DEF ControlInv, Alone
    <3>6. ExitOnItsWay'
      <4>1. exit.mark <= Len(writes) BY DEF ControlInv, ExitOnItsWay
      <4>2. exit.alone /\ pass.by = "exit" => ctl'[g_ctl].stop
        BY <1>2, <2>2, <2>5 DEF ControlInv, ExitOnItsWay
      <4> QED BY <2>3, <2>8, <3>2, <4>1, <4>2 DEF ExitOnItsWay
    <3> QED BY <2>10, <2>13, <3>3, <3>4, <3>5, <3>6 DEF ControlInv
  <2>17. CASE ~(p \/ q)
    <3>1. pass' = AfterPass /\ ~exit'.ready BY <2>1, <2>6, <2>8, <2>17
    <3>2. /\ pass' \in PassState
          /\ pass.by = "exit" => pass'.by = "exit" /\ pass'.at = "last" /\ pass'.ctl = g_ctl
          /\ pass.by # "exit" => pass' = NoPass
          /\ NoPass.by = "none" /\ NoPass.at = "none"
      BY <1>1, <3>1, PassEnds
    <3>3. ControlTypes' BY <1>1, <2>2, <2>8, <3>2 DEF ControlTypes
    <3>4. WhoPasses'
      <4>1. CASE pass.by = "exit" BY <1>2, <2>2, <2>8, <3>2, <4>1 DEF ControlInv, WhoPasses
      <4>2. CASE pass.by # "exit" BY <2>2, <2>8, <3>2, <4>2 DEF ControlInv, WhoPasses
      <4> QED BY <4>1, <4>2
    <3>5. Alone' BY <1>1, <2>2, <2>3, <2>8, <3>2, PassEnds DEF ControlInv, Alone
    <3>6. ExitOnItsWay'
      <4>1. exit.mark <= Len(writes) BY DEF ControlInv, ExitOnItsWay
      <4> QED BY <2>3, <2>8, <3>1, <3>2, <4>1 DEF ExitOnItsWay
    <3> QED BY <2>10, <2>13, <3>3, <3>4, <3>5, <3>6 DEF ControlInv
  <2> QED BY <2>16, <2>17
<1>5. CASE PassLog
  <2>1. /\ pass.at = "log" /\ FlushLogTurn(pass.ctl) /\ UNCHANGED <<pass, configuring, exit>>
        /\ exit.at \notin {"done", "gave up"}
    BY <1>5 DEF PassLog, Running
  <2>2. PICK c \in Ctls : c = pass.ctl BY <2>1 DEF ControlInv, WhoPasses
  <2>3. exit.alone => c = g_ctl /\ c = Active
    <3>1. pass # NoPass BY <1>1, <2>1, PassEnds
    <3> QED BY <2>1, <2>2, <3>1 DEF ControlInv, Alone, Active
  <2>4. /\ DataInv'
        /\ \A x \in Ctls : InRing(x)' \subseteq InRing(x)
        /\ \A x \in Ctls : /\ ctl'[x].up = ctl[x].up /\ ctl'[x].stop = ctl[x].stop
                           /\ ctl'[x].outage = ctl[x].outage
        /\ \A x \in Out(dropped)' : x \in Out(dropped) \/ (~ctl[c].up /\ writes[x].ctl = c)
    BY <2>1, <2>2, <2>3, GatherKeeps
  <2>5. g_ctl' = g_ctl /\ writes' = writes BY <2>1 DEF FlushLogTurn
  <2>6. exit.alone /\ ~ctl[c].up => ctl[c].outage BY <2>1, <2>3 DEF ControlInv, Outages
  <2>7. \A x \in Out(dropped)' : x \in 1 .. Len(writes)
    BY <2>4, <2>5 DEF DataInv, DroppedKnown
  <2>8. exit.alone => \A x \in Out(dropped)' :
                         x \in 1 .. Len(writes) /\ (x \in Out(dropped) \/ ctl[writes[x].ctl].outage)
    BY <2>4, <2>6, <2>7
  <2>9. \A x \in Ctls : \A y \in InRing(x)' : y \in InRing(x) \/ Len(writes) < y BY <2>4
  <2>10. pass.at # "last" BY <2>1
  <2>11. Len(writes) <= Len(writes') BY <1>2, <2>5
  <2>12. ControlInv' BY <1>2, <2>1, <2>4, <2>5, <2>8, <2>9, <2>10, <2>11, SameControl
  <2> QED BY <2>4, <2>12
<1>6. CASE PassLogEnd
  <2>1. /\ pass.at = "log" /\ ctl[pass.ctl].ring = <<>>
        /\ pass' = [pass EXCEPT !.at = "flush", !.ctl = g_ctl]
        /\ UNCHANGED <<consoleVars, configuring, exit>>
    BY <1>6 DEF PassLogEnd
  <2>2. UNCHANGED <<g_ctl, ctl, fileUid, clock, writing, writes, sent, dropped>> BY <2>1 DEF consoleVars
  <2>3. pass' \in PassState /\ pass'.by = pass.by /\ pass'.at = "flush" /\ pass'.ctl = g_ctl
    BY <1>2, <2>1 DEF PassState
  <2>4. Active' = Active BY <2>1, <2>2 DEF Active
  <2>5. DataInv' BY <1>2, <2>1, <2>2, <2>4, QuietKeeps
  <2>6. ControlTypes' BY <1>1, <2>1, <2>3 DEF ControlTypes
  <2>7. pass # NoPass BY <1>1, <2>1, PassEnds
  <2>8. WhoPasses' BY <1>2, <2>1, <2>2, <2>3, <2>7 DEF ControlInv, WhoPasses
  <2>9. Alone' BY <2>1, <2>2, <2>3, <2>7 DEF ControlInv, Alone
  <2>10. Out(dropped)' = Out(dropped) BY <2>2
  <2>11. Outages' BY <2>1, <2>2, <2>5, <2>10, OutagesKept
  <2>12. ExitOnItsWay'
    <3>1. exit.mark <= Len(writes) /\ (exit.alone /\ pass.by = "exit" => ctl[g_ctl].stop)
      BY <2>1 DEF ControlInv, ExitOnItsWay
    <3>2. exit.alone => ctl[g_ctl].ring = <<>> BY <2>1 DEF ControlInv, Alone
    <3>3. exit.alone => \A x \in Queued(ctl[g_ctl].ring) : FALSE BY <3>2 DEF Queued
    <3> QED BY <2>1, <2>2, <2>3, <3>1, <3>3 DEF ExitOnItsWay, InRing
  <2> QED BY <2>5, <2>6, <2>8, <2>9, <2>11, <2>12 DEF ControlInv
<1>7. CASE PassFlush
  <2>1. /\ pass.at = "flush" /\ ctlFlush(pass.ctl) /\ pass' = AfterPass
        /\ UNCHANGED <<configuring, exit>> /\ exit.at \notin {"done", "gave up"}
    BY <1>7 DEF PassFlush, Running
  <2>2. PICK c \in Ctls : c = pass.ctl BY <2>1 DEF ControlInv, WhoPasses
  <2>3. pass # NoPass /\ (exit.alone => c = g_ctl)
    BY <1>1, <2>1, <2>2, PassEnds DEF ControlInv, Alone
  <2>4. /\ DataInv' /\ g_ctl' = g_ctl /\ writes' = writes
        /\ \A x \in Ctls : /\ ctl'[x].ring = ctl[x].ring /\ ctl'[x].up = ctl[x].up
                           /\ ctl'[x].stop = ctl[x].stop /\ ctl'[x].outage = ctl[x].outage
        /\ ctl[c].stop => \A f \in Fds : ~ctl'[c].batch[f].stream
        /\ \A x \in Out(dropped)' : x \in Out(dropped) \/ (~ctl[c].up /\ writes[x].ctl = c)
    BY <2>1, <2>2, CtlFlushKeeps
  <2>5. exit.alone /\ ~ctl[c].up => ctl[c].outage BY <2>1, <2>3 DEF ControlInv, Outages
  <2>6. Outages' BY <2>1, <2>4, <2>5, OutagesKept
  <2>7. /\ pass' \in PassState
        /\ pass.by = "exit" => pass'.by = "exit" /\ pass'.at = "last" /\ pass'.ctl = g_ctl
        /\ pass.by # "exit" => pass' = NoPass
        /\ NoPass.by = "none" /\ NoPass.at = "none"
    BY <1>1, <2>1, PassEnds
  <2>8. ControlTypes' BY <1>1, <2>1, <2>7 DEF ControlTypes
  <2>9. WhoPasses'
    <3>1. CASE pass.by = "exit" BY <1>2, <2>1, <2>7, <3>1 DEF ControlInv, WhoPasses
    <3>2. CASE pass.by # "exit" BY <2>1, <2>7, <3>2 DEF ControlInv, WhoPasses
    <3> QED BY <3>1, <3>2
  <2>10. Alone' BY <2>1, <2>3, <2>4, <2>7 DEF ControlInv, Alone
  <2>11. ExitOnItsWay'
    <3>1. exit.mark <= Len(writes) BY DEF ControlInv, ExitOnItsWay
    <3>2. CASE pass.by # "exit" BY <2>1, <2>4, <2>7, <3>1, <3>2 DEF ExitOnItsWay
    <3>3. CASE pass.by = "exit" /\ exit.alone
      <4>1. /\ ctl[g_ctl].stop /\ \A x \in Queued(ctl[g_ctl].ring) : exit.mark < x
        BY <2>1, <3>3 DEF ControlInv, ExitOnItsWay, InRing
      <4>2. ctl'[g_ctl].ring = ctl[g_ctl].ring /\ \A f \in Fds : ~ctl'[g_ctl].batch[f].stream
        BY <1>2, <2>3, <2>4, <3>3, <4>1
      <4> QED BY <2>1, <2>4, <2>7, <3>1, <3>3, <4>1, <4>2 DEF ExitOnItsWay, InRing
    <3>4. CASE ~exit.alone BY <2>1, <2>4, <3>1, <3>4 DEF ExitOnItsWay
    <3> QED BY <3>2, <3>3, <3>4
  <2> QED BY <2>4, <2>6, <2>8, <2>9, <2>10, <2>11 DEF ControlInv
<1> QED BY <1>3, <1>4, <1>5, <1>6, <1>7 DEF Pass

\* A new configuration.
LEMMA ConfigureKeeps ==
    ASSUME ReportingInv, Configure \/ ConfigureEnd
    PROVE  ReportingInv'
<1> USE DEF ReportingInv
<1>1. DataTypes /\ ControlTypes BY DEF DataInv, ControlInv
<1>2. pass \in PassState /\ exit \in ExitState /\ configuring \in 0 .. MaxCtls BY <1>1 DEF ControlTypes
<1>3. exit.alone \in BOOLEAN BY <1>2 DEF ExitState
<1>4. CASE Configure
  <2>1. /\ ConfigSwap /\ configuring = 0 /\ configuring' = g_ctl /\ pass' = pass /\ pass.by # "reporter"
        /\ exit.at \notin {"done", "gave up"}
    BY <1>4 DEF Configure, Running
  <2>2. PICK q \in BOOLEAN : q = (exit.alone /\ exit.at = "no") OBVIOUS
  <2>3. exit' = [exit EXCEPT !.alone = q] BY <1>4, <2>2 DEF Configure
  <2>4. /\ exit' \in ExitState /\ exit'.at = exit.at /\ exit'.mark = exit.mark
        /\ exit'.alone = q /\ exit'.ready = exit.ready
    BY <1>2, <2>3 DEF ExitState
  <2>5. exit'.alone => exit.alone /\ exit.at = "no" BY <2>2, <2>4
  <2>6. /\ DataInv' /\ g_ctl' = g_ctl + 1 /\ g_ctl' \in Ctls /\ g_ctl \in Ctls
        /\ UNCHANGED <<writes, dropped>> /\ Active' = g_ctl
        /\ \A x \in Ctls : x # g_ctl' => ctl'[x] = ctl[x]
        /\ ~ctl'[g_ctl'].up => ctl'[g_ctl'].outage
    BY <2>1, <2>5, SwapKeeps
  <2>7. g_ctl \in Int /\ g_ctl # 0 /\ g_ctl < g_ctl' /\ g_ctl \in 0 .. MaxCtls
    BY <2>6, ConsoleAssumption DEF Ctls
  <2>8. exit'.alone => pass = NoPass /\ pass.by = "none"
    BY <1>2, <2>1, <2>5 DEF ControlInv, WhoPasses, PassState
  <2>9. ControlTypes' BY <1>2, <2>1, <2>4, <2>7 DEF ControlTypes
  <2>10. WhoPasses' BY <2>1, <2>4 DEF ControlInv, WhoPasses
  <2>11. Alone'
    <3>1. (configuring # 0 => configuring < g_ctl)' BY <2>1, <2>7
    <3>2. exit'.at = "no" => exit'.alone BY <2>2, <2>4 DEF ControlInv, Alone
    <3>3. NoPass.at = "none" BY <1>1, PassEnds
    <3> QED BY <2>1, <2>4, <2>5, <2>8, <3>1, <3>2, <3>3 DEF Alone
  <2>12. Outages'
    <3> SUFFICES ASSUME exit'.alone PROVE Outages' BY DEF Outages
    <3>1. ctl'[g_ctl] = ctl[g_ctl] BY <2>6, <2>7
    <3>2. ~ctl[g_ctl].up => ctl[g_ctl].outage BY <2>5 DEF ControlInv, Outages
    <3>3. (\A c \in {g_ctl, Active} : ~ctl[c].up => ctl[c].outage)' BY <2>6, <3>1, <3>2
    <3>4. ASSUME NEW x \in Out(dropped) PROVE ctl'[writes[x].ctl].outage
      <4>1. x \in 1 .. Len(writes) /\ ctl[writes[x].ctl].outage BY <2>5, Known DEF ControlInv, Outages
      <4>2. writes[x].ctl \in Ctls /\ writes[x].ctl <= g_ctl
        BY <1>1, <4>1, WriteFacts DEF DataInv, FutureEmpty
      <4>3. writes[x].ctl # g_ctl' BY <2>7, <4>2, <2>6 DEF Ctls
      <4> QED BY <2>6, <4>1, <4>2, <4>3
    <3> QED BY <2>6, <3>3, <3>4 DEF Outages
  <2>13. ExitOnItsWay'
    <3>1. exit.mark <= Len(writes) BY DEF ControlInv, ExitOnItsWay
    <3> QED BY <2>1, <2>4, <2>6, <2>8, <3>1 DEF ExitOnItsWay
  <2> QED BY <2>6, <2>9, <2>10, <2>11, <2>12, <2>13 DEF ControlInv
<1>5. CASE ConfigureEnd
  <2>1. /\ configuring # 0 /\ ConfigFlush(configuring) /\ configuring' = 0 /\ UNCHANGED <<pass, exit>>
        /\ exit.at \notin {"done", "gave up"}
    BY <1>5 DEF ConfigureEnd, Running
  <2>2. PICK c \in Ctls : c = configuring BY <1>1, <2>1, ActiveType
  <2>3. c = Active BY <2>1, <2>2 DEF Active
  <2>4. /\ DataInv' /\ g_ctl' = g_ctl /\ writes' = writes
        /\ \A x \in Ctls : /\ ctl'[x].ring = ctl[x].ring /\ ctl'[x].outage = ctl[x].outage
                           /\ x # c => ctl'[x] = ctl[x]
        /\ \A x \in Out(dropped)' : x \in Out(dropped) \/ (~ctl[c].up /\ writes[x].ctl = c)
    BY <2>1, <2>2, <2>3, ConfigFlushKeeps
  <2>5. g_ctl \in Ctls /\ g_ctl # c /\ Active' = g_ctl
    <3>1. c < g_ctl /\ g_ctl \in Ctls BY <1>1, <2>1, <2>2 DEF ControlInv, Alone, DataTypes
    <3>2. c \in Int /\ g_ctl \in Int BY <3>1 DEF Ctls
    <3>3. g_ctl # c BY <3>1, <3>2
    <3>4. Active' = g_ctl BY <2>1, <2>4 DEF Active
    <3> QED BY <3>1, <3>3, <3>4
  <2>6. exit.alone => exit.at = "no" /\ pass = NoPass /\ pass.by # "exit"
    BY <1>1, <2>1, PassEnds DEF ControlInv, Alone
  <2>7. ControlTypes'
    <3>1. 0 \in 0 .. MaxCtls BY ConsoleAssumption
    <3> QED BY <1>2, <2>1, <3>1 DEF ControlTypes
  <2>8. WhoPasses' BY <2>1 DEF ControlInv, WhoPasses
  <2>9. Alone' BY <2>1, <2>4 DEF ControlInv, Alone
  <2>10. Outages'
    <3> SUFFICES ASSUME exit.alone PROVE Outages' BY <2>1 DEF Outages
    <3>1. (~ctl[c].up => ctl[c].outage) /\ (~ctl[g_ctl].up => ctl[g_ctl].outage)
      BY <2>1, <2>3 DEF ControlInv, Outages
    <3>2. (\A x \in {g_ctl, Active} : ~ctl[x].up => ctl[x].outage)' BY <2>4, <2>5, <3>1
    <3>3. ASSUME NEW x \in Out(dropped)' PROVE ctl'[writes[x].ctl].outage
      <4>1. ctl[writes[x].ctl].outage BY <2>4, <3>1, <3>3 DEF ControlInv, Outages
      <4>2. x \in 1 .. Len(writes) BY <2>4, <3>3 DEF DataInv, DroppedKnown
      <4>3. writes[x].ctl \in Ctls BY <1>1, <4>2, WriteFacts
      <4> QED BY <2>4, <4>1, <4>3
    <3> QED BY <2>4, <3>2, <3>3 DEF Outages
  <2>11. ExitOnItsWay'
    <3>1. exit.mark <= Len(writes) BY DEF ControlInv, ExitOnItsWay
    <3> QED BY <2>1, <2>4, <2>6, <3>1 DEF ExitOnItsWay
  <2> QED BY <2>4, <2>7, <2>8, <2>9, <2>10, <2>11 DEF ControlInv
<1> QED BY <1>4, <1>5

\* The end of the process.
LEMMA ExitKeeps ==
    ASSUME ReportingInv, Exit
    PROVE  ReportingInv'
<1> USE DEF ReportingInv
<1>1. DataTypes /\ ControlTypes BY DEF DataInv, ControlInv
<1>2. pass \in PassState /\ exit \in ExitState BY <1>1 DEF ControlTypes
<1>3. g_ctl \in Ctls /\ ctl \in [Ctls -> Channel] /\ Len(writes) \in Nat BY <1>1 DEF DataTypes
<1>4. exit.alone \in BOOLEAN /\ exit.mark \in Nat BY <1>2 DEF ExitState
<1>5. exit.mark <= Len(writes) BY DEF ControlInv, ExitOnItsWay
<1>6. NoPass \in PassState /\ NoPass.by = "none" /\ NoPass.at = "none" BY <1>1, PassEnds
<1>7. ASSUME UNCHANGED <<consoleVars, configuring>>, exit'.alone => exit.alone,
             exit'.at # "done" => exit.at # "done"
      PROVE  /\ DataInv' /\ Outages'
             /\ UNCHANGED <<g_ctl, ctl, fileUid, clock, writing, writes, sent, dropped>>
  <2>1. UNCHANGED <<g_ctl, ctl, fileUid, clock, writing, writes, sent, dropped>> BY <1>7 DEF consoleVars
  <2>2. Active' = Active BY <1>7, <2>1 DEF Active
  <2>3. DataInv' BY <1>3, <1>7, <2>1, <2>2, QuietKeeps
  <2>4. Out(dropped)' = Out(dropped) BY <2>1
  <2>5. Outages' BY <1>7, <2>1, <2>3, <2>4, OutagesKept
  <2> QED BY <2>1, <2>3, <2>5
<1>8. CASE ExitStart
  <2>1. exit.at = "no" /\ UNCHANGED <<consoleVars, pass, configuring>> BY <1>8 DEF ExitStart
  <2>2. PICK q \in BOOLEAN : q = (configuring = 0) OBVIOUS
  <2>3. exit' = [exit EXCEPT !.at = "waiting", !.mark = Len(writes), !.alone = q] BY <1>8, <2>2 DEF ExitStart
  <2>4. exit' \in ExitState /\ exit'.at = "waiting" /\ exit'.mark = Len(writes) /\ exit'.alone = q
    BY <1>2, <1>3, <2>3 DEF ExitState
  <2>5. exit.alone /\ pass.by # "exit" BY <2>1 DEF ControlInv, Alone, WhoPasses
  <2>6. /\ DataInv' /\ Outages'
        /\ UNCHANGED <<g_ctl, ctl, fileUid, clock, writing, writes, sent, dropped>>
    BY <1>7, <2>1, <2>4, <2>5
  <2>7. ControlTypes' BY <1>1, <2>1, <2>4 DEF ControlTypes
  <2>8. WhoPasses' BY <2>1, <2>4, <2>5 DEF ControlInv, WhoPasses
  <2>9. Alone'
    <3>1. exit'.alone => configuring = 0 BY <2>2, <2>4
    <3>2. pass.at \in {"log", "flush", "last"} => pass.ctl = g_ctl BY <2>5 DEF ControlInv, Alone
    <3>3. configuring # 0 => configuring < g_ctl BY DEF ControlInv, Alone
    <3> QED BY <2>1, <2>4, <2>6, <3>1, <3>2, <3>3 DEF Alone
  <2>10. ExitOnItsWay' BY <1>3, <2>1, <2>4, <2>5, <2>6 DEF ExitOnItsWay
  <2> QED BY <2>6, <2>7, <2>8, <2>9, <2>10 DEF ControlInv
<1>9. CASE ExitGuard
  <2>1. /\ exit.at = "waiting" /\ pass = NoPass /\ UNCHANGED <<consoleVars, configuring>>
        /\ pass' = [by |-> "exit", at |-> "stop", ctl |-> 0]
        /\ exit' = [exit EXCEPT !.at = "reporting", !.late = FALSE]
    BY <1>9 DEF ExitGuard
  <2>2. exit' \in ExitState /\ exit'.at = "reporting" /\ exit'.mark = exit.mark /\ exit'.alone = exit.alone
    BY <1>2, <2>1 DEF ExitState
  <2>3. pass' \in PassState /\ pass'.by = "exit" /\ pass'.at = "stop" BY <2>1 DEF PassState
  <2>4. /\ DataInv' /\ Outages'
        /\ UNCHANGED <<g_ctl, ctl, fileUid, clock, writing, writes, sent, dropped>>
    BY <1>7, <2>1, <2>2
  <2>5. ControlTypes' BY <1>1, <2>1, <2>2, <2>3 DEF ControlTypes
  <2>6. WhoPasses' BY <2>2, <2>3 DEF WhoPasses
  <2>7. Alone' BY <2>1, <2>2, <2>3, <2>4 DEF ControlInv, Alone
  <2>8. ExitOnItsWay' BY <1>5, <2>2, <2>3, <2>4 DEF ExitOnItsWay
  <2> QED BY <2>4, <2>5, <2>6, <2>7, <2>8 DEF ControlInv
<1>10. CASE ExitGiveUp
  <2>1. /\ exit.at = "waiting" /\ pass # NoPass /\ UNCHANGED <<consoleVars, pass, configuring>>
        /\ exit' = [exit EXCEPT !.at = "gave up", !.late = FALSE]
    BY <1>10 DEF ExitGiveUp
  <2>2. exit' \in ExitState /\ exit'.at = "gave up" /\ exit'.mark = exit.mark /\ exit'.alone = exit.alone
    BY <1>2, <2>1 DEF ExitState
  <2>3. /\ DataInv' /\ Outages'
        /\ UNCHANGED <<g_ctl, ctl, fileUid, clock, writing, writes, sent, dropped>>
    BY <1>7, <2>1, <2>2
  <2>4. pass.by # "exit" BY <2>1 DEF ControlInv, WhoPasses
  <2>5. ControlTypes' BY <1>1, <2>1, <2>2 DEF ControlTypes
  <2>6. WhoPasses' BY <2>1, <2>2, <2>4 DEF ControlInv, WhoPasses
  <2>7. Alone' BY <2>1, <2>2, <2>3 DEF ControlInv, Alone
  <2>8. ExitOnItsWay' BY <1>5, <2>1, <2>2, <2>3, <2>4 DEF ExitOnItsWay
  <2> QED BY <2>3, <2>5, <2>6, <2>7, <2>8 DEF ControlInv
<1>11. CASE ExitStop
  <2>1. /\ pass.at = "stop" /\ ctlStopAggregating(g_ctl) /\ UNCHANGED <<configuring, exit>>
        /\ pass' = [pass EXCEPT !.at = "connect"]
    BY <1>11 DEF ExitStop
  <2>2. UNCHANGED <<g_ctl, fileUid, clock, writing, writes, sent, dropped>> BY <2>1 DEF ctlStopAggregating
  <2>3. /\ ctl' \in [Ctls -> Channel]
        /\ \A x \in Ctls : /\ ctl'[x].ring = ctl[x].ring /\ ctl'[x].batch = ctl[x].batch
                           /\ ctl'[x].up = ctl[x].up /\ ctl'[x].outage = ctl[x].outage
        /\ ctl'[g_ctl].stop
    BY <1>1, <1>3, <2>1, SetStop
  <2>4. pass' \in PassState /\ pass'.by = pass.by /\ pass'.at = "connect" BY <1>2, <2>1 DEF PassState
  <2>5. Active' = Active BY <2>1, <2>2 DEF Active
  <2>6. DataInv' BY <2>1, <2>2, <2>3, <2>5, QuietKeeps
  <2>7. Out(dropped)' = Out(dropped) BY <2>2
  <2>8. Outages' BY <2>1, <2>2, <2>3, <2>6, <2>7, OutagesKept
  <2>9. pass.by = "exit" /\ pass # NoPass BY <1>6, <2>1 DEF ControlInv, WhoPasses
  <2>10. ControlTypes' BY <1>1, <2>1, <2>4 DEF ControlTypes
  <2>11. WhoPasses' BY <2>1, <2>4, <2>9 DEF ControlInv, WhoPasses
  <2>12. Alone' BY <2>1, <2>2, <2>4, <2>9 DEF ControlInv, Alone
  <2>13. ExitOnItsWay' BY <1>5, <2>1, <2>2, <2>3, <2>4 DEF ExitOnItsWay
  <2> QED BY <2>6, <2>8, <2>10, <2>11, <2>12, <2>13 DEF ControlInv
<1>12. CASE ExitConnect
  <2>1. pass.at = "stop" /\ ctlConnect(g_ctl, TRUE) /\ UNCHANGED <<pass, configuring, exit>>
    BY <1>12 DEF ExitConnect
  <2>2. UNCHANGED <<g_ctl, fileUid, clock, writing, writes, sent, dropped>> BY <2>1 DEF ctlConnect
  <2>3. ctl' = [ctl EXCEPT ![g_ctl].up = TRUE] BY <2>1, Zenon DEF ctlConnect
  <2>4. /\ ctl' \in [Ctls -> Channel]
        /\ \A x \in Ctls : /\ ctl'[x].ring = ctl[x].ring /\ ctl'[x].batch = ctl[x].batch
                           /\ ctl'[x].stop = ctl[x].stop /\ ctl'[x].outage = ctl[x].outage
                           /\ x # g_ctl => ctl'[x].up = ctl[x].up
        /\ ctl'[g_ctl].up = TRUE
    BY <1>1, <1>3, <2>3, SetUp
  <2>5. Active' = Active BY <2>1, <2>2 DEF Active
  <2>6. DataInv' BY <2>1, <2>2, <2>4, <2>5, QuietKeeps
  <2>7. Out(dropped)' = Out(dropped) BY <2>2
  <2>8. \A x \in Ctls : ctl'[x].outage = ctl[x].outage /\ (~ctl'[x].up => ~ctl[x].up) BY <2>4
  <2>9. Outages' BY <2>1, <2>2, <2>6, <2>7, <2>8, OutagesKept
  <2>10. ControlTypes' /\ WhoPasses' /\ Alone' BY <2>1, <2>2 DEF ControlInv, ControlTypes, WhoPasses, Alone
  <2>11. ExitOnItsWay' BY <1>5, <2>1, <2>2 DEF ExitOnItsWay
  <2> QED BY <2>6, <2>9, <2>10, <2>11 DEF ControlInv
<1>13. CASE ExitFlush
  <2>1. /\ pass.at = "last" /\ exit.at = "reporting" /\ ctlFlush(pass.ctl) /\ UNCHANGED <<pass, configuring>>
        /\ exit' = [exit EXCEPT !.at = "flushed"]
    BY <1>13 DEF ExitFlush
  <2>2. /\ exit' \in ExitState /\ exit'.at = "flushed" /\ exit'.mark = exit.mark
        /\ exit'.alone = exit.alone /\ exit'.ready = exit.ready
    BY <1>2, <2>1 DEF ExitState
  <2>3. PICK c \in Ctls : c = pass.ctl BY <2>1 DEF ControlInv, WhoPasses
  <2>4. exit.alone => c = g_ctl BY <2>1, <2>3 DEF ControlInv, Alone
  <2>5. /\ DataInv' /\ g_ctl' = g_ctl /\ writes' = writes
        /\ \A x \in Ctls : /\ ctl'[x].ring = ctl[x].ring /\ ctl'[x].up = ctl[x].up
                           /\ ctl'[x].stop = ctl[x].stop /\ ctl'[x].outage = ctl[x].outage
        /\ \A x \in Ctls, f \in Fds : ctl'[x].batch[f].stream => ctl[x].batch[f].stream
        /\ \A x \in Out(dropped)' : x \in Out(dropped) \/ (~ctl[c].up /\ writes[x].ctl = c)
    BY <2>1, <2>2, <2>3, CtlFlushKeeps
  <2>6. exit.alone /\ ~ctl[c].up => ctl[c].outage BY <2>1, <2>4 DEF ControlInv, Outages
  <2>7. Outages' BY <2>1, <2>2, <2>5, <2>6, OutagesKept
  <2>8. ControlTypes' BY <1>1, <2>1, <2>2 DEF ControlTypes
  <2>9. WhoPasses' BY <2>1, <2>2 DEF ControlInv, WhoPasses
  <2>10. Alone' BY <2>1, <2>2, <2>5 DEF ControlInv, Alone
  <2>11. ExitOnItsWay'
    <3>1. ASSUME exit.alone, pass.by = "exit", exit.ready
          PROVE  /\ \A x \in Queued(ctl'[g_ctl].ring) : exit.mark < x
                 /\ \A f \in Fds : ~ctl'[g_ctl].batch[f].stream
      BY <1>3, <2>1, <2>5, <3>1 DEF ControlInv, ExitOnItsWay, InRing
    <3> QED BY <1>5, <2>1, <2>2, <2>5, <3>1 DEF ExitOnItsWay, InRing
  <2> QED BY <2>5, <2>7, <2>8, <2>9, <2>10, <2>11 DEF ControlInv
<1>14. CASE ExitEnd
  <2>1. /\ exit.at = "flushed" /\ ctlDisconnect(g_ctl) /\ UNCHANGED <<pass, configuring>>
        /\ exit' = [exit EXCEPT !.at = "done"]
    BY <1>14 DEF ExitEnd
  <2>2. /\ exit' \in ExitState /\ exit'.at = "done" /\ exit'.mark = exit.mark
        /\ exit'.alone = exit.alone /\ exit'.ready = exit.ready
    BY <1>2, <2>1 DEF ExitState
  <2>3. UNCHANGED <<g_ctl, fileUid, clock, writing, writes, sent, dropped>> BY <2>1 DEF ctlDisconnect
  <2>4. ctl' = [ctl EXCEPT ![g_ctl].up = FALSE] BY <2>1, Zenon DEF ctlDisconnect
  <2>5. /\ ctl' \in [Ctls -> Channel]
        /\ \A x \in Ctls : /\ ctl'[x].ring = ctl[x].ring /\ ctl'[x].batch = ctl[x].batch
                           /\ ctl'[x].stop = ctl[x].stop /\ ctl'[x].outage = ctl[x].outage
    BY <1>1, <1>3, <2>4, SetUp
  <2>6. Active' = Active BY <2>1, <2>3 DEF Active
  <2>7. DataInv' BY <2>2, <2>3, <2>5, <2>6, QuietKeeps
  <2>8. Outages'
    <3>1. ASSUME exit.alone, NEW x \in Out(dropped) PROVE ctl'[writes[x].ctl].outage
      <4>1. x \in 1 .. Len(writes) /\ ctl[writes[x].ctl].outage BY <3>1, Known DEF ControlInv, Outages
      <4>2. writes[x].ctl \in Ctls BY <1>1, <4>1, WriteFacts
      <4> QED BY <2>5, <4>1, <4>2
    <3> QED BY <2>2, <2>3, <3>1 DEF Outages
  <2>9. ControlTypes' BY <1>1, <2>1, <2>2 DEF ControlTypes
  <2>10. WhoPasses' BY <2>1, <2>2 DEF ControlInv, WhoPasses
  <2>11. Alone' BY <2>1, <2>2, <2>3 DEF ControlInv, Alone
  <2>12. pass.at = "last" BY <2>1 DEF ControlInv, WhoPasses
  <2>13. ExitOnItsWay'
    <3>1. ASSUME exit.alone, pass.by = "exit", exit.ready
          PROVE  /\ \A x \in Queued(ctl'[g_ctl].ring) : exit.mark < x
                 /\ \A f \in Fds : ~ctl'[g_ctl].batch[f].stream
      BY <1>3, <2>5, <2>12, <3>1 DEF ControlInv, ExitOnItsWay, InRing
    <3> QED BY <1>5, <2>1, <2>2, <2>3, <2>12, <3>1 DEF ExitOnItsWay, InRing
  <2> QED BY <2>7, <2>8, <2>9, <2>10, <2>11, <2>13 DEF ControlInv
<1> QED BY <1>8, <1>9, <1>10, <1>11, <1>12, <1>13, <1>14 DEF Exit

----------------------------------------------------------------------------
(* The theorems.                                                           *)

LEMMA InitReporting == ReportingInit => ReportingInv
<1> SUFFICES ASSUME ReportingInit PROVE ReportingInv OBVIOUS
<1>1. /\ g_ctl = 1 /\ fileUid = [f \in Fds |-> f] /\ clock = NumFds
      /\ writing = [t \in Writers |-> NotWriting]
      /\ writes = <<>> /\ sent = <<>> /\ dropped = <<>>
      /\ pass = NoPass /\ configuring = 0
      /\ exit = [at |-> "no", mark |-> 0, alone |-> TRUE, ready |-> FALSE, late |-> FALSE]
  BY DEF ReportingInit, ConsoleInit
<1>2. /\ NumFds \in Nat /\ MaxCtls \in Nat /\ MaxCtls >= 1 /\ 1 \in Ctls /\ 0 \in 0 .. MaxCtls
      /\ \A f \in Fds : f \in Nat /\ f <= NumFds
  BY ConsoleAssumption DEF Ctls, Fds
<1>3. PICK p \in BOOLEAN : p = (outages = 0) OBVIOUS
<1>4. PICK k : k = ctlCreate(p) OBVIOUS
<1>5. ctl = [c \in Ctls |-> k] BY <1>3, <1>4 DEF ReportingInit, ConsoleInit
<1>6. /\ k \in Channel /\ Len(k.ring) = 0 /\ (\A f \in Fds : k.batch[f] = NoBatch)
      /\ (~k.up => k.outage) /\ \A i \in 1 .. Len(k.ring) : FALSE
  BY <1>4, Created
<1>7. ctl \in [Ctls -> Channel] /\ \A c \in Ctls : ctl[c] = k BY <1>5, <1>6
<1>8. Len(writes) = 0 /\ Len(sent) = 0 /\ Len(dropped) = 0 BY <1>1
<1>9. Out(sent) = {} /\ Out(dropped) = {} BY <1>8 DEF Out
<1>10. \A c \in Ctls, f \in Fds : ~ctl[c].batch[f].stream BY <1>6, <1>7, EmptyBatch
<1>11. NotWriting \in Writing /\ NotWriting.at # "put" BY DEF NotWriting, Writing
<1>12. \A t \in Writers : writing[t] = NotWriting BY <1>1
<1>13. \A f \in Fds : fileUid[f] = f BY <1>1
<1>14. DataTypes
  <2>1. fileUid \in [Fds -> Nat] /\ writing \in [Writers -> Writing] BY <1>1, <1>2, <1>11
  <2>2. writes \in Seq([uid : Nat, ctl : Ctls]) /\ sent \in Seq(Message) /\ dropped \in Seq(Message)
    BY <1>1
  <2> QED BY <1>1, <1>2, <1>7, <1>11, <1>12, <2>1, <2>2 DEF DataTypes
<1>15. \A c \in Ctls : RingInOrder(c) BY <1>6, <1>7 DEF RingInOrder, RingOrdered
<1>16. \A c \in Ctls, f \in Fds : BatchInOrder(c, f)
  BY <1>6, <1>7, ConsoleAssumption DEF BatchInOrder, BatchOrdered, Ordered, NoBatch, Numbers
<1>17. SentOlder /\ DroppedKnown /\ SentInTurn
  BY <1>8, <1>9 DEF SentOlder, DroppedKnown, SentInTurn, TurnInChannel, TurnInAll
<1>18. OneHome
  <2>1. ASSUME NEW f \in Fds, NEW u \in Nat, AtHome(f, u) PROVE u = f
    BY <1>6, <1>7, <1>10, <1>11, <1>12, <1>13, <2>1 DEF AtHome
  <2> QED BY <1>1, <1>2, <2>1 DEF OneHome
<1>19. FutureEmpty BY <1>6, <1>7, <1>8, <1>10, <1>11, <1>12 DEF FutureEmpty
<1>20. OneActive BY <1>8, <1>10 DEF OneActive
<1>21. Conserved BY <1>8 DEF Conserved
<1>22. DataInv BY <1>14, <1>15, <1>16, <1>17, <1>18, <1>19, <1>20, <1>21 DEF DataInv
<1>23. /\ exit \in ExitState /\ exit.at = "no" /\ exit.mark = 0 /\ exit.alone BY <1>1 DEF ExitState
<1>24. /\ NoPass \in PassState /\ NoPass.by = "none" /\ NoPass.at = "none" BY DEF NoPass, PassState
<1>25. ControlTypes BY <1>1, <1>2, <1>23, <1>24 DEF ControlTypes
<1>26. WhoPasses BY <1>1, <1>23, <1>24 DEF WhoPasses
<1>27. Alone BY <1>1, <1>23, <1>24 DEF Alone
<1>28. Outages
  <2>1. Active = g_ctl /\ g_ctl \in Ctls BY <1>1, <1>2 DEF Active
  <2> QED BY <1>6, <1>7, <1>9, <2>1 DEF Outages
<1>29. ExitOnItsWay BY <1>1, <1>8, <1>23, <1>24 DEF ExitOnItsWay
<1> QED BY <1>22, <1>25, <1>26, <1>27, <1>28, <1>29 DEF ReportingInv, ControlInv

LEMMA NextReporting == ReportingInv /\ [ReportingNext]_reportingVars => ReportingInv'
<1> SUFFICES ASSUME ReportingInv, [ReportingNext]_reportingVars PROVE ReportingInv' OBVIOUS
<1>1. CASE \/ \E t \in Writers : DoWrite(t) \/ DoWriteEnd(t)
           \/ \E f \in Fds : Reopen(f)
           \/ \E c \in Ctls : Lost(c)
  BY <1>1, ThreadsKeep
<1>2. CASE PassStart \/ Pass BY <1>2, PassKeeps
<1>3. CASE Configure \/ ConfigureEnd BY <1>3, ConfigureKeeps
<1>4. CASE Exit BY <1>4, ExitKeeps
<1>5. CASE UNCHANGED reportingVars
  <2>1. UNCHANGED <<g_ctl, ctl, fileUid, clock, writing, writes, sent, dropped, pass, configuring, exit>>
    BY <1>5 DEF reportingVars, consoleVars
  <2>2. DataTypes /\ ctl' \in [Ctls -> Channel] /\ Len(writes) \in Nat
    BY <2>1 DEF ReportingInv, DataInv, DataTypes
  <2>3. Active' = Active BY <2>1 DEF Active
  <2>4. DataInv' BY <2>1, <2>2, <2>3, QuietKeeps DEF ReportingInv
  <2>5. \A x \in Ctls : InRing(x)' = InRing(x) BY <2>1 DEF InRing
  <2>6. Out(dropped)' = Out(dropped) BY <2>1
  <2>7. \A x \in Out(dropped) : x \in 1 .. Len(writes) BY Known DEF ReportingInv
  <2>8. ControlInv' BY <2>1, <2>2, <2>4, <2>5, <2>6, <2>7, SameControl DEF ReportingInv
  <2> QED BY <2>4, <2>8 DEF ReportingInv
<1> QED BY <1>1, <1>2, <1>3, <1>4, <1>5 DEF ReportingNext

\* The invariant holds in every state: where each write is, in which order,
\* and who moves it.
THEOREM ReportingInvariant == ReportingSpec => []ReportingInv
<1> QED BY InitReporting, NextReporting, PTL DEF ReportingSpec

\* What the provers have to know of a sequence of messages.
LEMMA MessageFacts ==
    ASSUME NEW s \in Seq(Message), NEW i \in DOMAIN s
    PROVE  i \in 1 .. Len(s) /\ s[i] \in Message /\ DOMAIN s[i].data = 1 .. Len(s[i].data)
<1>1. ASSUME NEW T, NEW q \in Seq(T), NEW k \in DOMAIN q
      PROVE  k \in 1 .. Len(q) /\ q[k] \in T /\ DOMAIN q = 1 .. Len(q)
  BY <1>1
<1>2. i \in 1 .. Len(s) /\ s[i] \in Message BY <1>1
<1>3. s[i].data \in Seq(Nat) BY <1>2 DEF Message
<1> QED BY <1>2, <1>3

\* What is sent for a file was written to it, once and in order, across
\* batches and channels (ctlFlushLog, ctlFlush, doConfig).
THEOREM SentAsWrittenAlways == ReportingSpec => []SentAsWritten
<1>1. ASSUME ReportingInv PROVE SentAsWritten
  <2>1. sent \in Seq(Message) BY <1>1 DEF ReportingInv, DataInv, DataTypes
  <2> SUFFICES ASSUME NEW i \in DOMAIN sent, NEW j \in DOMAIN sent,
                      NEW k \in DOMAIN sent[i].data, NEW l \in DOMAIN sent[j].data
               PROVE  /\ writes[sent[i].data[k]].uid = sent[i].uid
                      /\ /\ sent[i].uid = sent[j].uid
                         /\ i < j \/ (i = j /\ k < l)
                         /\ exit.alone \/ writes[sent[i].data[k]].ctl = writes[sent[j].data[l]].ctl
                         => sent[i].data[k] < sent[j].data[l]
    BY DEF SentAsWritten
  <2>2. /\ i \in 1 .. Len(sent) /\ j \in 1 .. Len(sent)
        /\ k \in 1 .. Len(sent[i].data) /\ l \in 1 .. Len(sent[j].data)
    BY <2>1, MessageFacts
  <2>3. Ordered(sent[i], writes) BY <1>1, <2>2 DEF ReportingInv, DataInv, SentOlder, InOrder
  <2>4. PICK x, y : x = sent[i].data[k] /\ y = sent[j].data[l] OBVIOUS
  <2>5. x \in Numbers(sent[i]) /\ y \in Numbers(sent[j]) BY <2>2, <2>4 DEF Numbers
  <2>6. writes[x].uid = sent[i].uid BY <2>2, <2>3, <2>4 DEF Ordered
  <2>7. ASSUME i = j, k < l PROVE x < y BY <2>2, <2>3, <2>4, <2>7 DEF Ordered
  <2>8. ASSUME i < j, sent[i].uid = sent[j].uid, exit.alone \/ writes[x].ctl = writes[y].ctl PROVE x < y
    BY <1>1, <2>2, <2>5, <2>8 DEF ReportingInv, DataInv, SentInTurn, TurnInChannel, TurnInAll
  <2> QED BY <2>4, <2>6, <2>7, <2>8
<1> QED BY <1>1, ReportingInvariant, PTL

\* A message is longer than max_agg_bytes only when a single write is
\* (ctlFlushLog).
THEOREM MessagesBoundedAlways == ReportingSpec => []MessagesBounded
<1>1. ASSUME ReportingInv PROVE MessagesBounded
  <2>1. sent \in Seq(Message) BY <1>1 DEF ReportingInv, DataInv, DataTypes
  <2> QED BY <1>1, <2>1, MessageFacts DEF MessagesBounded, ReportingInv, DataInv, SentOlder, InOrder, Ordered
<1> QED BY <1>1, ReportingInvariant, PTL

\* As long as doConfig and handleExit do not meet, gathered data is given up
\* only by a channel whose peer was away (transportSend, doConfig).
THEOREM DroppedNeedsOutageAlways == ReportingSpec => []DroppedNeedsOutage
<1>1. ASSUME ReportingInv PROVE DroppedNeedsOutage
  <2>1. dropped \in Seq(Message) BY <1>1 DEF ReportingInv, DataInv, DataTypes
  <2> SUFFICES ASSUME exit.alone, NEW i \in DOMAIN dropped, NEW n \in Range(dropped[i].data)
               PROVE  ctl[writes[n].ctl].outage
    BY DEF DroppedNeedsOutage
  <2>2. PICK k \in DOMAIN dropped[i].data : n = dropped[i].data[k] BY DEF Range
  <2>3. i \in 1 .. Len(dropped) /\ k \in 1 .. Len(dropped[i].data) BY <2>1, MessageFacts
  <2>4. n \in Numbers(dropped[i]) BY <2>2, <2>3 DEF Numbers
  <2>5. n \in Out(dropped) BY <2>3, <2>4 DEF Out
  <2> QED BY <1>1, <2>5 DEF ReportingInv, ControlInv, Outages
<1> QED BY <1>1, ReportingInvariant, PTL

\* When handleExit has run its course with a connection and without doConfig
\* beside it, nothing that the channel had accepted before is left behind.
THEOREM ExitSendsAllAlways == ReportingSpec => []ExitSendsAll
<1>1. ASSUME NEW s \in Seq(Message), NEW n \in Out(s) PROVE n \in UNION {Range(s[i].data) : i \in DOMAIN s}
  <2>1. PICK i \in 1 .. Len(s) : n \in Numbers(s[i]) BY <1>1 DEF Out
  <2>2. i \in DOMAIN s OBVIOUS
  <2>3. DOMAIN s[i].data = 1 .. Len(s[i].data) BY <2>2, MessageFacts
  <2>4. n \in Range(s[i].data) BY <2>1, <2>3 DEF Numbers, Range
  <2> QED BY <2>2, <2>4
<1>2. ASSUME ReportingInv PROVE ExitSendsAll
  <2>1. sent \in Seq(Message) /\ dropped \in Seq(Message) BY <1>2 DEF ReportingInv, DataInv, DataTypes
  <2> SUFFICES ASSUME exit.at = "done", exit.alone, exit.ready, NEW n \in 1 .. exit.mark, writes[n].ctl = g_ctl
               PROVE  n \in SentData \cup DroppedData
    BY DEF ExitSendsAll
  <2>2. pass.by = "exit" /\ pass.at = "last" BY <1>2 DEF ReportingInv, ControlInv, WhoPasses
  <2>3. /\ exit.mark <= Len(writes) /\ exit.mark \in Nat /\ Len(writes) \in Nat /\ g_ctl \in Ctls
        /\ \A x \in InRing(g_ctl) : exit.mark < x
        /\ \A f \in Fds : ~ctl[g_ctl].batch[f].stream
    <3>1. exit.mark \in Nat BY <1>2 DEF ReportingInv, ControlInv, ControlTypes, ExitState
    <3>2. Len(writes) \in Nat /\ g_ctl \in Ctls BY <1>2 DEF ReportingInv, DataInv, DataTypes
    <3> QED BY <1>2, <2>2, <3>1, <3>2 DEF ReportingInv, ControlInv, ExitOnItsWay
  <2>4. n \in 1 .. Len(writes) /\ ~(exit.mark < n) BY <2>3
  <2>5. n \notin InRing(g_ctl) BY <2>3, <2>4
  <2>6. \A f \in Fds : n \notin Held(g_ctl, f) BY <1>2, <2>3, Known DEF ReportingInv
  <2>7. n \in Out(sent) \cup Out(dropped) BY <1>2, <2>4, <2>5, <2>6 DEF ReportingInv, DataInv, Conserved
  <2> QED BY <1>1, <2>1, <2>7 DEF SentData, DroppedData
<1> QED BY <1>2, ReportingInvariant, PTL

----------------------------------------------------------------------------
(* The counter behind a metric: for any number of threads, any amounts and *)
(* any limits, in both modes.                                              *)

\* In summary mode no thread posts its counter and no copy is on its way.
SummaryShape ==
    summary => copies = <<>> /\ queued = 0 /\ \A t \in Threads : upd[t] = "idle"

\* Threads only add to what doTotal has read.
ReadIsPart == summary /\ total = "reset" => val <= ctr

CountersInv ==
    CountersTypeOK /\ SummaryShape /\ ReadIsPart /\ NeverOverReported /\ ExactWithoutOverlap

\* The sum of atomicAddU64 stays within the width, and is between the counter
\* and the true sum.
LEMMA AddBounds ==
    ASSUME CountersTypeOK, NEW n \in Nat
    PROVE  /\ atomicAddU64(n) \in 0 .. MaxCtr
           /\ ctr <= atomicAddU64(n) /\ atomicAddU64(n) <= ctr + n
           /\ ctr + n <= MaxCtr => atomicAddU64(n) = ctr + n
BY CountersAssumption DEF CountersTypeOK, atomicAddU64

\* What stays in its type when a queue is used.
LEMMA QueueTypes ==
    ASSUME NEW S, NEW q \in Seq(S)
    PROVE  /\ \A e \in S : Append(q, e) \in Seq(S)
           /\ q # <<>> => Head(q) \in S /\ Tail(q) \in Seq(S)
OBVIOUS

LEMMA CountersInitial == CountersInit => CountersInv
<1> SUFFICES ASSUME CountersInit PROVE CountersInv
    OBVIOUS
<1> USE DEF CountersInit
<1>1. CountersTypeOK
    <2>1. summary \in BOOLEAN /\ lossy \in BOOLEAN /\ upd \in [Threads -> {"idle", "post", "clear"}]
        BY CountersAssumption
    <2>2. copies \in Seq(0 .. MaxCtr) /\ ctr \in 0 .. MaxCtr /\ val \in 0 .. MaxCtr
        BY CountersAssumption
    <2> QED
        BY <2>1, <2>2 DEF CountersTypeOK
<1>2. ~WindowOpen
    BY DEF WindowOpen
<1> QED
    BY <1>1, <1>2
       DEF CountersInv, SummaryShape, ReadIsPart, NeverOverReported, ExactWithoutOverlap, Unsent

\* Every step preserves the types.
LEMMA TypeStep ==
    ASSUME CountersTypeOK, [CountersNext]_countersVars PROVE CountersTypeOK'
<1>1. ASSUME NEW t \in Threads, NEW n \in Amounts, Add(t, n) PROVE CountersTypeOK'
    <2>1. n \in Nat
        BY CountersAssumption
    <2>2. atomicAddU64(n) \in 0 .. MaxCtr
        BY <2>1, AddBounds
    <2> QED
        BY <1>1, <2>1, <2>2 DEF Add, CountersTypeOK
<1>2. ASSUME NEW t \in Threads, Post(t) PROVE CountersTypeOK'
    <2>1. lossy' \in BOOLEAN
        BY <1>2 DEF Post
    <2>2. copies' \in Seq(0 .. MaxCtr) /\ queued' \in Int
        <3>1. Append(copies, ctr) \in Seq(0 .. MaxCtr)
            BY QueueTypes DEF CountersTypeOK
        <3>2. ctr \in Int
            BY CountersAssumption DEF CountersTypeOK
        <3>3. copies' = copies \/ copies' = Append(copies, ctr)
            BY <1>2 DEF Post
        <3>4. queued' = queued \/ queued' = queued + ctr
            BY <1>2 DEF Post
        <3>5. copies' \in Seq(0 .. MaxCtr)
            BY <3>1, <3>3 DEF CountersTypeOK
        <3> QED
            BY <3>2, <3>4, <3>5 DEF CountersTypeOK
    <2>3. upd' \in [Threads -> {"idle", "post", "clear"}]
        BY <1>2 DEF Post, CountersTypeOK
    <2> QED
        BY <1>2, <2>1, <2>2, <2>3 DEF Post, CountersTypeOK
<1>3. ASSUME NEW t \in Threads, Clear(t) PROVE CountersTypeOK'
    BY <1>3, CountersAssumption DEF Clear, CountersTypeOK
<1>4. CASE EventReport
    <2>1. Head(copies) \in 0 .. MaxCtr /\ Tail(copies) \in Seq(0 .. MaxCtr)
        <3>1. copies \in Seq(0 .. MaxCtr) /\ copies # <<>>
            BY <1>4 DEF EventReport, CountersTypeOK
        <3> QED
            BY <3>1, QueueTypes, Zenon
    <2>2. Head(copies) \in Nat
        BY <2>1, CountersAssumption
    <2> QED
        BY <1>4, <2>1, <2>2 DEF EventReport, CountersTypeOK
<1>5. CASE TotalCheck
    BY <1>5 DEF TotalCheck, CountersTypeOK
<1>6. CASE TotalSend
    BY <1>6, CountersAssumption DEF TotalSend, CountersTypeOK
<1>7. CASE TotalReset
    BY <1>7, CountersAssumption DEF TotalReset, CountersTypeOK
<1>8. CASE NewEventRing
    BY <1>8 DEF NewEventRing, CountersTypeOK
<1>9. CASE UNCHANGED countersVars
    BY <1>9 DEF countersVars, CountersTypeOK
<1> QED
    BY <1>1, <1>2, <1>3, <1>4, <1>5, <1>6, <1>7, <1>8, <1>9
       DEF CountersNext, Update, Report

\* An update by an application thread.
LEMMA UpdateStep ==
    ASSUME CountersInv, NEW t \in Threads, Update(t)
    PROVE  SummaryShape' /\ ReadIsPart' /\ NeverOverReported' /\ ExactWithoutOverlap'
<1> USE DEF CountersInv
<1>1. ASSUME NEW n \in Amounts, Add(t, n)
      PROVE  SummaryShape' /\ ReadIsPart' /\ NeverOverReported' /\ ExactWithoutOverlap'
    <2>1. n \in Nat
        BY CountersAssumption
    <2>2. /\ ctr' \in Int /\ ctr <= ctr' /\ ctr' <= ctr + n
          /\ ctr + n <= MaxCtr => ctr' = ctr + n
        BY <1>1, <2>1, AddBounds, CountersAssumption DEF Add, CountersTypeOK
    <2>3. ctr \in Nat /\ val \in Nat /\ MaxCtr \in Nat
        BY CountersAssumption DEF CountersTypeOK
    <2>4. SummaryShape'
        BY <1>1 DEF Add, SummaryShape, CountersTypeOK
    <2>5. ReadIsPart'
        BY <1>1, <2>2, <2>3 DEF Add, ReadIsPart
    <2>6. NeverOverReported'
        BY <1>1, <2>1, <2>2, <2>3 DEF Add, NeverOverReported, Unsent, CountersTypeOK
    <2>7. ExactWithoutOverlap'
        <3>1. SUFFICES ASSUME ~lossy' PROVE ExactWithoutOverlap'
            BY DEF ExactWithoutOverlap
        <3>4. ~lossy /\ ~WindowOpen /\ ~(ctr + n > MaxCtr)
            BY <1>1, <3>1, Zenon DEF Add
        <3>2. ~lossy /\ ~WindowOpen /\ ctr' = ctr + n
            BY <2>1, <2>2, <2>3, <3>4
        <3>3. ~WindowOpen'
            BY <1>1, <3>2 DEF Add, WindowOpen, CountersTypeOK
        <3> QED
            BY <1>1, <2>1, <2>3, <3>2, <3>3 DEF Add, ExactWithoutOverlap, CountersTypeOK
    <2> QED
        BY <2>4, <2>5, <2>6, <2>7
<1>2. CASE Post(t)
    <2>1. ~summary
        BY <1>2 DEF Post, SummaryShape
    <2>2. ExactWithoutOverlap'
        <3>1. SUFFICES ASSUME ~lossy' PROVE ExactWithoutOverlap'
            BY DEF ExactWithoutOverlap
        <3>4. ~lossy /\ ~WindowOpen /\ ~(Len(copies) >= MaxCopies)
            BY <1>2, <3>1, Zenon DEF Post
        <3>5. Len(copies) \in Nat /\ MaxCopies \in Nat
            BY CountersAssumption DEF CountersTypeOK
        <3>2. ~lossy /\ ~WindowOpen /\ queued' = queued + ctr
            BY <1>2, <3>4, <3>5 DEF Post
        <3>3. WindowOpen'
            BY <1>2 DEF Post, WindowOpen, CountersTypeOK
        <3> QED
            BY <1>2, <3>2, <3>3, CountersAssumption DEF Post, ExactWithoutOverlap, CountersTypeOK
    <2> QED
        BY <1>2, <2>1, <2>2 DEF Post, SummaryShape, ReadIsPart, NeverOverReported
<1>3. CASE Clear(t)
    <2>1. ~summary
        BY <1>3 DEF Clear, SummaryShape
    <2>2. WindowOpen
        BY <1>3 DEF Clear, WindowOpen
    <2>3. ExactWithoutOverlap'
        BY <1>3, <2>2 DEF Clear, ExactWithoutOverlap, CountersTypeOK
    <2> QED
        BY <1>3, <2>1, <2>3 DEF Clear, SummaryShape, ReadIsPart, NeverOverReported
<1> QED
    BY <1>1, <1>2, <1>3 DEF Update

\* A step of the reporting thread.
LEMMA ReportStep ==
    ASSUME CountersInv, Report
    PROVE  SummaryShape' /\ ReadIsPart' /\ NeverOverReported' /\ ExactWithoutOverlap'
<1> USE DEF CountersInv
<1>0. ctr \in Nat /\ val \in Nat /\ queued \in Int /\ reported \in Nat /\ added \in Nat
    BY CountersAssumption DEF CountersTypeOK
<1>1. CASE EventReport
    <2>1. ~summary
        BY <1>1 DEF EventReport, SummaryShape
    <2>2. Head(copies) \in Int
        <3>1. Head(copies) \in 0 .. MaxCtr
            BY <1>1, QueueTypes DEF EventReport, CountersTypeOK
        <3> QED
            BY <3>1, CountersAssumption
    <2>3. WindowOpen' <=> WindowOpen
        BY <1>1 DEF EventReport, WindowOpen
    <2>4. ExactWithoutOverlap'
        <3>1. reported' + queued' = reported + queued
            BY <1>0, <1>1, <2>2 DEF EventReport
        <3>2. lossy' = lossy /\ ctr' = ctr /\ added' = added
            BY <1>1 DEF EventReport
        <3> QED
            BY <2>3, <3>1, <3>2 DEF ExactWithoutOverlap
    <2> QED
        BY <1>1, <2>1, <2>4 DEF EventReport, SummaryShape, ReadIsPart, NeverOverReported
<1>2. CASE TotalCheck
    <2>1. WindowOpen' <=> WindowOpen
        BY <1>2 DEF TotalCheck, WindowOpen
    <2> QED
        BY <1>2, <2>1 DEF TotalCheck, SummaryShape, ReadIsPart, NeverOverReported,
                          ExactWithoutOverlap, Unsent
<1>3. CASE TotalSend
    <2>1. WindowOpen'
        BY <1>3 DEF TotalSend, WindowOpen
    <2>2. ExactWithoutOverlap'
        <3>1. SUFFICES ASSUME ~lossy' PROVE ExactWithoutOverlap'
            BY DEF ExactWithoutOverlap
        <3>2. ~lossy /\ ~WindowOpen
            BY <1>3, <3>1, Zenon DEF TotalSend
        <3> QED
            BY <1>0, <1>3, <2>1, <3>2 DEF TotalSend, ExactWithoutOverlap
    <2>3. NeverOverReported'
        BY <1>0, <1>3 DEF TotalSend, NeverOverReported, Unsent
    <2> QED
        BY <1>0, <1>3, <2>2, <2>3 DEF TotalSend, SummaryShape, ReadIsPart
<1>4. CASE TotalReset
    <2>1. WindowOpen
        BY <1>4 DEF TotalReset, WindowOpen
    <2>2. ExactWithoutOverlap'
        BY <1>0, <1>4, <2>1 DEF TotalReset, ExactWithoutOverlap
    <2>3. NeverOverReported'
        BY <1>0, <1>4 DEF TotalReset, NeverOverReported, Unsent, ReadIsPart
    <2> QED
        BY <1>4, <2>2, <2>3 DEF TotalReset, SummaryShape, ReadIsPart
<1>5. CASE NewEventRing
    <2>1. WindowOpen' <=> WindowOpen
        BY <1>5 DEF NewEventRing, WindowOpen
    <2>2. ExactWithoutOverlap'
        <3>1. SUFFICES ASSUME ~lossy' PROVE ExactWithoutOverlap'
            BY DEF ExactWithoutOverlap
        <3>2. ~lossy /\ queued = 0
            BY <1>5, <3>1, Zenon DEF NewEventRing
        <3> QED
            BY <1>0, <1>5, <2>1, <3>2 DEF NewEventRing, ExactWithoutOverlap
    <2> QED
        BY <1>5, <2>2 DEF NewEventRing, SummaryShape, ReadIsPart, NeverOverReported, Unsent
<1> QED
    BY <1>1, <1>2, <1>3, <1>4, <1>5 DEF Report

\* The inductive invariant holds in every reachable state.
LEMMA CountersInvariant == CountersSpec => []CountersInv
<1>1. ASSUME CountersInv, [CountersNext]_countersVars PROVE CountersInv'
    <2>1. CountersTypeOK'
        BY <1>1, TypeStep DEF CountersInv
    <2>2. CASE CountersNext
        BY <1>1, <2>1, <2>2, UpdateStep, ReportStep DEF CountersInv, CountersNext
    <2>3. CASE UNCHANGED countersVars
        BY <1>1, <2>3
           DEF countersVars, CountersInv, CountersTypeOK, SummaryShape, ReadIsPart,
               NeverOverReported, ExactWithoutOverlap, Unsent, WindowOpen
    <2> QED
        BY <1>1, <2>2, <2>3
<1> QED
    BY CountersInitial, <1>1, PTL DEF CountersSpec

\* Type correctness: in particular, no sequence of updates makes a counter
\* wrap around (atomicAddU64).
THEOREM CountersTypeCorrect == CountersSpec => []CountersTypeOK
BY CountersInvariant, PTL DEF CountersInv

\* However many threads add to the total of the process while doTotal reads,
\* sends and clears it, the reports never exceed what was added.
THEOREM TotalsNeverTooHigh == CountersSpec => []NeverOverReported
BY CountersInvariant, PTL DEF CountersInv

\* The only source of error in a reported metric, in either mode, is an access
\* between a read and its clear, or a limit that was reached.
THEOREM ErrorsNeedOverlap == CountersSpec => []ExactWithoutOverlap
BY CountersInvariant, PTL DEF CountersInv

==============================================================================
