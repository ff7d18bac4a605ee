----------------------------- MODULE Transport -----------------------------
(***************************************************************************)
(* One configured transport (transport.c) with its retry schedule          *)
(* (backoff.c), as the reporter of a process uses it: it tries to connect  *)
(* every millisecond while there is no connection, sends, and notices a    *)
(* connection closed by its peer.  A child of the process inherits the     *)
(* transport and reconnects it (doReset calls transportReconnect).         *)
(*                                                                         *)
(* A transport is used by one thread of its process, so a call is one      *)
(* step; a function of the code is the set of its possible outcomes, each  *)
(* the transport afterwards and the value returned.  Messages are not      *)
(* told apart.  The calls' descriptors below the reserved range are not    *)
(* numbered; those of the range are, because placeDescriptor searches it.  *)
(***************************************************************************)
EXTENDS Integers, FiniteSets, FiniteSetsExt

CONSTANTS
    Procs, Root,        \* processes; the one that created the transport
    Configs,            \* what the transport may be created as, and in what surroundings
    MinFd, MaxFd,       \* DEFAULT_MIN_FD .. DEFAULT_FD, the reserved range
    Addrs, GoodAddr,    \* how many addresses the name has, the one that is served
    BackoffStart,
    MaxOutages          \* bound on how often the peer goes away

\* faults: whether system calls may fail for local reasons; forks: whether the
\* process forks; taken: the reserved descriptors that the application or
\* another transport has; baseMax and jitter: the limits of the retry schedule.
ASSUME TransportAssumption ==
    /\ Root \in Procs /\ IsFiniteSet(Procs)
    /\ MinFd \in Nat /\ MaxFd \in Nat /\ MinFd <= MaxFd
    /\ Configs \subseteq
          [type : {"CFG_TCP", "CFG_UDP", "CFG_UNIX", "CFG_FILE"}, tls : BOOLEAN,
           faults : BOOLEAN, forks : BOOLEAN, taken : SUBSET (MinFd .. MaxFd),
           baseMax : Nat \ {0},
           jitter : {{0}, {0, 1}}]
    /\ Addrs \in Nat /\ GoodAddr \in 1 .. Addrs
    /\ BackoffStart \in Nat \ {0}
    /\ MaxOutages \in Nat

VARIABLES
    config,    \* what it was created with; CFG_UNIX stands for CFG_EDGE too
    trans,     \* per process: its copy of the transport, and what it last returned
    life,      \* per process: "none", "forked" (before doReset) or "running"
    up,        \* connections the kernel has, with both ends open
    peer,      \* whether somebody listens at the other end
    outages    \* how often the peer has gone away

vars == <<config, trans, life, up, peer, outages>>

NoFd == -1
FdRange == MinFd .. MaxFd
NoConn == 0
Conns == 1 .. Cardinality(Procs) + 1
Type == config.type
Faults == config.faults
TakenFds == config.taken
BackoffBaseMax == config.baseMax
JitterMs == config.jitter
IsNet == Type \in {"CFG_TCP", "CFG_UDP"}
Tls == Type = "CFG_TCP" /\ config.tls
TopLimit == 2 * BackoffBaseMax + Max(JitterMs)

\* The doubling schedule: the shortest wait after one more failed attempt,
\* given the one before it, or 0.
Doubled(wait) == Min({IF wait = 0 THEN BackoffStart ELSE 2 * wait, BackoffBaseMax})

\* gap and due are history: calls since the last attempt that started, and
\* how many there have to be before the next.  cut and torn too: the stream
\* ends in a message cut short; something was sent after one.
State ==
    [sock : FdRange \cup {NoFd}, ssl : BOOLEAN, conn : Conns \cup {NoConn},
     pending : 0 .. Addrs, status : {"wait", "ok", "refused"},
     left : 0 .. Addrs, nextFd : MinFd - 1 .. MaxFd, leaked : BOOLEAN,
     base : 1 .. 2 * BackoffBaseMax, limit : 1 .. TopLimit, count : 0 .. TopLimit,
     cut : BOOLEAN, torn : BOOLEAN,
     rc : {-1, 0, 1}, gap : 0 .. BackoffBaseMax, due : 0 .. BackoffBaseMax, early : BOOLEAN]

TypeOK ==
    /\ config \in Configs
    /\ trans \in [Procs -> State]
    /\ life \in [Procs -> {"none", "forked", "running"}]
    /\ up \subseteq Conns
    /\ peer \in BOOLEAN
    /\ outages \in 0 .. MaxOutages

----------------------------------------------------------------------------
(* The retry schedule.                                                     *)

backoffReset(t) ==
    [t EXCEPT !.base = BackoffStart, !.limit = 1, !.count = 0, !.due = 0]

\* Mutant of backoffAllowed: the wait is not doubled.
backoffAllowedFlat(t) ==
    {[t EXCEPT !.limit = t.base + j, !.count = 0] : j \in JitterMs}

\* backoffAlgoAllowsConnect: the calls that let an attempt through ...
backoffAllowed(t) ==
    {[t EXCEPT !.limit = t.base + j,
               !.base = IF @ < BackoffBaseMax THEN @ * 2 ELSE @,
               !.count = 0] : j \in JitterMs}

\* ... and those that only count.
backoffAllows(t) == t.count + 1 >= t.limit
backoffWaits(t) == [t EXCEPT !.count = @ + 1]

----------------------------------------------------------------------------
(* Descriptors.                                                            *)

\* The highest free descriptor from next_fd_to_try down, which is taken back
\* to the top of the range only once it has left it at the bottom.
placeDescriptor(t) ==
    LET start == IF t.nextFd < MinFd THEN MaxFd ELSE t.nextFd
        free == (MinFd .. start) \ TakenFds
    IN  IF free = {} THEN [t EXCEPT !.sock = NoFd, !.nextFd = start]
        ELSE [t EXCEPT !.sock = Max(free), !.nextFd = Max(free) - 1]

\* transportDisconnect, shutdownTlsSession included.
transportDisconnect(t) ==
    [t EXCEPT !.sock = NoFd, !.ssl = FALSE, !.conn = NoConn, !.pending = 0, !.cut = FALSE]

\* The connections that a transportDisconnect takes down for everybody: a
\* network socket is shut down before it is closed.
ShutDown(t) == IF IsNet /\ t.sock # NoFd THEN {t.conn} ELSE {}

ClosedRemotely(t) ==
    /\ Type \in {"CFG_TCP", "CFG_UNIX"}
    /\ t.sock # NoFd /\ t.conn \notin up

NeedsConnection(t) == t.sock = NoFd \/ (Tls /\ ~t.ssl) \/ ClosedRemotely(t)

\* transportNeedsConnection disconnects a transport whose peer has closed.
transportNeedsConnection(t) == IF ClosedRemotely(t) THEN transportDisconnect(t) ELSE t

----------------------------------------------------------------------------
(* Connecting.  Ret pairs a transport with the value returned.             *)

Ret(t, rc) == [t EXCEPT !.rc = rc]

\* A connection of its own: one that no process refers to.
Fresh == CHOOSE c \in Conns : \A p \in Procs : trans[p].conn # c

Connected(t) ==
    Ret(backoffReset([t EXCEPT !.conn = IF t.sock = NoFd THEN NoConn ELSE Fresh, !.cut = FALSE]), 1)

\* After the TCP connect succeeded: the TLS session, if one is wanted.
establishTlsSession(t) ==
    IF ~Tls THEN {Connected(t)}
    ELSE {Connected([t EXCEPT !.ssl = TRUE])}
         \cup (IF Faults \/ ~peer THEN {Ret(transportDisconnect(t), 0)} ELSE {})

\* Mutant of checkPendingSocketStatus: a refused connect stays pending.
checkPendingStuck(t) ==
    IF t.pending = 0 \/ t.status \in {"wait", "refused"} THEN {Ret(t, 0)}
    ELSE LET placed == placeDescriptor([t EXCEPT !.pending = 0])
         IN  IF placed.sock = NoFd THEN {Ret(placed, 0)} ELSE establishTlsSession(placed)

\* Mutant of checkPendingSocketStatus: the placement is not looked at.
checkPendingUnplaced(t) ==
    IF t.pending = 0 \/ t.status # "ok" THEN {Ret(t, 0)}
    ELSE establishTlsSession(placeDescriptor([t EXCEPT !.pending = 0]))

checkPendingSocketStatus(t) ==
    IF t.pending = 0 THEN {Ret(t, 0)}
    ELSE
    (IF Faults THEN {Ret(transportDisconnect(t), 0)} ELSE {})
    \cup
    CASE t.status = "wait" -> {Ret(t, 0)}
      [] t.status = "refused" -> {Ret([t EXCEPT !.pending = 0], 0)}
      [] t.status = "ok" ->
            LET placed == placeDescriptor([t EXCEPT !.pending = 0])
            IN  IF placed.sock = NoFd THEN {Ret(placed, 0)} ELSE establishTlsSession(placed)

\* getAddressList, when the current list is used up.  A child that reconnects
\* has the address of its parent's connection as the whole list; otherwise the
\* lookup may fail while the peer is away.
getAddressList(t, cached) ==
    IF t.left > 0 THEN {t}
    ELSE IF cached THEN {[t EXCEPT !.left = 1]}
    ELSE {[t EXCEPT !.left = Addrs]} \cup (IF peer THEN {} ELSE {t})

\* An attempt starts; history records how it relates to the schedule.
Attempt(t) ==
    [t EXCEPT !.gap = 0, !.due = Doubled(@), !.early = @ \/ t.gap < t.due]

\* The loop over the addresses: some fail at once, then one is pending (TCP)
\* or connected (UDP), or none is left.  A descriptor whose mode cannot be set
\* is forgotten, and the transport disconnected instead.
socketConnectionStart(t, cached) ==
    LET Address(left) == IF cached /\ t.left = 0 THEN GoodAddr ELSE Addrs - left + 1
        MayFail(left) == Faults \/ ~peer \/ Address(left) # GoodAddr
        Skipped(u) == {n \in 0 .. u.left : \A m \in n + 1 .. u.left : MayFail(m)}
        Leaks(u) == IF Faults THEN {u.leaked, TRUE} ELSE {u.leaked}
        Failed(u) == UNION {{[u EXCEPT !.left = n, !.leaked = l] : n \in Skipped(u)} : l \in Leaks(u)}
        Placed(v) == placeDescriptor([v EXCEPT !.left = @ - 1])
        Tried(v) ==
            IF v.left = 0 THEN v
            ELSE IF Type = "CFG_TCP"
            THEN [v EXCEPT !.left = @ - 1, !.pending = Address(v.left), !.status = "wait"]
            ELSE IF Placed(v).sock = NoFd THEN [Placed(v) EXCEPT !.left = 0]
            ELSE Connected(Placed(v))
    IN  UNION {{Tried(v) : v \in Failed(u)} : u \in getAddressList(Attempt(t), cached)}

\* A UNIX connect, and an EDGE one once the path is known: a placement that
\* fails is not looked at.
ConnectUnix(t) ==
    (IF Faults \/ ~peer THEN {Ret(t, 0)} ELSE {})
    \cup (IF peer THEN {Connected(placeDescriptor(t))} ELSE {})

transportConnectFile(t) ==
    (IF Faults \/ ~peer THEN {Ret(t, 0)} ELSE {})
    \cup
    LET placed == placeDescriptor(t)
    IN  IF placed.sock = NoFd THEN {Ret(placed, 0)}
        ELSE {Connected(placed)}
             \cup IF Faults THEN {Ret([transportDisconnect(placed) EXCEPT !.leaked = TRUE], 0)} ELSE {}

\* transportConnect, from the test of the backoff on.
ConnectNow(t, cached) ==
    IF ~backoffAllows(t)
    THEN IF IsNet THEN checkPendingSocketStatus(backoffWaits(t)) ELSE {Ret(backoffWaits(t), 0)}
    ELSE UNION {
        CASE IsNet /\ b.pending # 0 -> checkPendingSocketStatus(b)
          [] IsNet /\ b.pending = 0 ->
                UNION {IF s.sock # NoFd THEN {Ret(s, 1)} ELSE checkPendingSocketStatus(s)
                       : s \in socketConnectionStart(b, cached)}
          [] Type = "CFG_UNIX" -> ConnectUnix(Attempt(b))
          [] Type = "CFG_FILE" -> transportConnectFile(Attempt(b))
        : b \in backoffAllowed(t)}

ConnectWith(t, cached) ==
    IF ~NeedsConnection(t) THEN {Ret(t, 1)}
    ELSE ConnectNow([transportNeedsConnection(t) EXCEPT !.gap = Min({@ + 1, BackoffBaseMax})], cached)

transportConnect(t) == ConnectWith(t, FALSE)

\* Mutant of transportReconnect: the parent's connection is kept.
transportReconnectKeeps(t) == {Ret(t, 0)}

\* transportReconnect, of a child: a TCP connection is given up, and the
\* address of its peer offered to one attempt at a new one.
transportReconnect(t) ==
    IF Type # "CFG_TCP" THEN {Ret(t, 0)}
    ELSE IF NeedsConnection(t) THEN {Ret(transportDisconnect(t), 0)}
    ELSE {Ret(u, 0) : u \in ConnectWith(transportDisconnect(t), TRUE)}

----------------------------------------------------------------------------
(* Sending.                                                                *)

SendOk(t) == Ret([t EXCEPT !.torn = @ \/ t.cut], 0)

\* EBADF, EPIPE, and any error of a TLS session.
SendFailed(t) == {Ret(u, -1) : u \in transportConnect(transportDisconnect(t))}

\* Mutant of tcpSendTls: a failed write ends the message, not the session.
tcpSendTlsIgnores(t) ==
    {SendOk(t)} \cup (IF Faults THEN {[SendOk(t) EXCEPT !.cut = TRUE]} ELSE {})

tcpSendTls(t) ==
    {SendOk(t)} \cup (IF Faults THEN SendFailed(t) ELSE {})

\* A plain send that fails otherwise (EINTR, say) is given up where it stands.
tcpSendPlain(t) ==
    {SendOk(t)} \cup (IF Faults THEN SendFailed(t) \cup {Ret([t EXCEPT !.cut = TRUE], 0)} ELSE {})

transportSend(t) ==
    CASE Type = "CFG_TCP" /\ NeedsConnection(t) -> {Ret(transportNeedsConnection(t), -1)}
      [] Tls /\ ~NeedsConnection(t) -> tcpSendTls(t)
      [] Type = "CFG_TCP" /\ ~Tls /\ ~NeedsConnection(t) -> tcpSendPlain(t)
      [] Type # "CFG_TCP" /\ t.sock = NoFd -> {Ret(t, 0)}
      [] Type = "CFG_UNIX" /\ t.sock # NoFd ->
            IF ClosedRemotely(t) THEN SendFailed(t)
            ELSE {SendOk(t)} \cup IF Faults THEN {[SendOk(t) EXCEPT !.cut = TRUE]} ELSE {}
      [] Type \in {"CFG_UDP", "CFG_FILE"} /\ t.sock # NoFd ->
            {Ret(t, 0)} \cup (IF Faults THEN SendFailed(t) ELSE {})

----------------------------------------------------------------------------
(* The steps.                                                              *)

Init ==
    /\ config \in Configs
    /\ trans = [p \in Procs |->
                  [sock |-> NoFd, ssl |-> FALSE, conn |-> NoConn, pending |-> 0, status |-> "wait",
                   left |-> 0, nextFd |-> MaxFd, leaked |-> FALSE,
                   base |-> BackoffStart, limit |-> 1, count |-> 0, cut |-> FALSE, torn |-> FALSE,
                   rc |-> 0, gap |-> 0, due |-> 0, early |-> FALSE]]
    /\ life = [p \in Procs |-> IF p = Root THEN "running" ELSE "none"]
    /\ up = {}
    /\ peer \in BOOLEAN
    /\ outages = 0

\* The process's transport becomes t, with what that does to the connections.
Becomes(p, t) ==
    /\ trans' = [trans EXCEPT ![p] = t]
    /\ up' = (up \ (IF t.conn # trans[p].conn THEN ShutDown(trans[p]) ELSE {}))
             \cup (IF t.conn \notin {NoConn, trans[p].conn} THEN {t.conn} ELSE {})

Connect(p) ==
    /\ life[p] = "running" /\ NeedsConnection(trans[p])
    /\ \E t \in transportConnect(trans[p]) : Becomes(p, t)
    /\ UNCHANGED <<config, life, peer, outages>>

Send(p) ==
    /\ life[p] = "running"
    /\ \E t \in transportSend(trans[p]) : Becomes(p, t)
    /\ UNCHANGED <<config, life, peer, outages>>

\* External: fork copies the transport, the descriptor with it.
Fork(p, q) ==
    /\ config.forks
    /\ life[p] = "running" /\ life[q] = "none"
    /\ life' = [life EXCEPT ![q] = "forked"]
    /\ trans' = [trans EXCEPT ![q] = trans[p]]
    /\ UNCHANGED <<config, up, peer, outages>>

\* The child's doReset.
Reset(q) ==
    /\ life[q] = "forked"
    /\ life' = [life EXCEPT ![q] = "running"]
    /\ \E t \in transportReconnect(trans[q]) : Becomes(q, t)
    /\ UNCHANGED <<config, peer, outages>>

\* External: the kernel finishes a pending connect.
Resolve(p) ==
    /\ trans[p].pending # 0 /\ trans[p].status = "wait"
    /\ trans' = [trans EXCEPT ![p].status =
                    IF peer /\ trans[p].pending = GoodAddr THEN "ok" ELSE "refused"]
    /\ UNCHANGED <<config, life, up, peer, outages>>

\* External: the other end goes away, with its connections, and comes back.
PeerDown ==
    /\ peer /\ outages < MaxOutages
    /\ peer' = FALSE /\ up' = {} /\ outages' = outages + 1
    /\ UNCHANGED <<config, trans, life>>

PeerUp ==
    /\ ~peer
    /\ peer' = TRUE
    /\ UNCHANGED <<config, trans, life, up, outages>>

Step(p) == Connect(p) \/ Send(p) \/ Reset(p)

Next ==
    \/ \E p \in Procs : Step(p) \/ Resolve(p) \/ \E q \in Procs : Fork(p, q)
    \/ PeerDown \/ PeerUp

Spec == Init /\ [][Next]_vars

\* The reporter retries every millisecond; the kernel answers every connect.
FairSpec ==
    /\ Spec
    /\ \A p \in Procs : WF_vars(Connect(p)) /\ WF_vars(Reset(p)) /\ WF_vars(Resolve(p))

----------------------------------------------------------------------------
(* Properties.                                                             *)

\* A connection attempt is not made before its time: with every failure in a
\* row, however it came about, the wait before the next attempt doubles, up to
\* the limit.
BackoffKept == \A p \in Procs : ~trans[p].early

\* The receiver can split the stream into messages: nothing is sent on a
\* connection after a message that was cut short on it.  A plain TCP or UNIX
\* connection is left as it is by a write that fails half way; of the others
\* it holds whatever fails.
FramingIntact ==
    Tls \/ Type \in {"CFG_UDP", "CFG_FILE"} \/ ~Faults => \A p \in Procs : ~trans[p].torn

\* transportConnect returns 1 only when there is a connection; the caller
\* announces the process over it.
ConnectedWhenItSaysSo == \A p \in Procs : trans[p].rc = 1 => trans[p].sock # NoFd

\* After doReset, a process and its child do not share a TCP connection.
DistinctConnections ==
    Type = "CFG_TCP" => \A p, q \in Procs :
        /\ p # q /\ life[p] = "running" /\ life[q] = "running"
        /\ trans[p].conn # NoConn
        => trans[p].conn # trans[q].conn

\* A child that resets its transport leaves its parent's connection alone.
ParentUndisturbed ==
    [][\A q \in Procs : Reset(q) =>
          \A p \in Procs \ {q} : trans[p].conn \in up => trans[p].conn \in up']_vars

\* The attempt a child makes while it resets goes to the address that its
\* parent is connected to.
ChildKeepsAddress ==
    [][\A q \in Procs : Reset(q) /\ trans'[q].pending # 0 => trans'[q].pending = GoodAddr]_vars

\* Once the peer is there for good, and nothing fails locally, the transport
\* gets connected and stays so.
Reconnects ==
    ~Faults /\ TakenFds = {} /\ <>[]peer
        => <>[](\A p \in Procs : life[p] = "running" => ~NeedsConnection(trans[p]))

\* The same with the lowest descriptor of the range taken.
ReconnectsAnyway ==
    ~Faults /\ <>[]peer
        => <>[](\A p \in Procs : life[p] = "running" => ~NeedsConnection(trans[p]))
=============================================================================
