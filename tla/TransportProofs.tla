--------------------------- MODULE TransportProofs ---------------------------
(***************************************************************************)
(* Proofs about Transport, for any number of processes, descriptors and    *)
(* addresses, any limits of the retry schedule, and any configurations.    *)
(*                                                                         *)
(* A function of transport.c is a set of outcomes.  Each lemma says of one *)
(* function that all its outcomes are Ends of the transport it was called  *)
(* with, a relation that composes along the calls.                         *)
(***************************************************************************)
EXTENDS Transport, FiniteSetTheorems, TLAPS

Fields ==
    {"sock", "ssl", "conn", "pending", "status", "left", "nextFd", "leaked", "base", "limit",
     "count", "cut", "torn", "rc", "gap", "due", "early"}

Shaped(t) == DOMAIN t = Fields /\ t.status \in {"wait", "ok", "refused"}

\* Nothing was sent after a message cut short, and none was cut short.
Clean(t) == t.cut = FALSE /\ t.torn = FALSE

\* The retry schedule has waited for as long as it has counted, and waits for
\* at least as long as it must, now and after the next attempt.
Timed(t) ==
    /\ t.base \in Nat /\ t.limit \in Nat /\ t.count \in Nat /\ t.gap \in Nat /\ t.due \in Nat
    /\ t.due <= BackoffBaseMax /\ t.due <= t.limit
    /\ Doubled(t.due) <= t.base
    /\ t.count <= t.gap \/ BackoffBaseMax <= t.gap
    /\ t.early = FALSE

\* No write fails half way, or the connection is given up when one does.
Framed == Tls \/ Type \in {"CFG_UDP", "CFG_FILE"} \/ ~Faults

\* What a call may make of a transport: it keeps its connection, gives it up
\* or has one of its own; its stream stays clean, and its schedule is kept.
Leads(t, u) ==
    /\ Shaped(u)
    /\ u.conn \in {t.conn, NoConn, Fresh}
    /\ Framed /\ Clean(t) => Clean(u)

Ends(t, u) == Leads(t, u) /\ (Timed(t) => Timed(u))

\* It says that it is connected only with a descriptor.
Says(u) == u.rc = 1 => u.sock # NoFd

----------------------------------------------------------------------------
(* Numbers and sets.                                                       *)

\* The smaller of two numbers.
LEMMA MinFacts ==
    ASSUME NEW a \in Int, NEW b \in Int
    PROVE  Min({a, b}) = IF a <= b THEN a ELSE b
<1>1. \E x \in {a, b} : \A y \in {a, b} : x <= y OBVIOUS
<1>2. Min({a, b}) \in {a, b} /\ \A y \in {a, b} : Min({a, b}) <= y BY <1>1 DEF Min
<1> QED BY <1>2

\* There is a connection that no process refers to.
LEMMA FreshIsUnused == Fresh \in Conns /\ \A p \in Procs : trans[p].conn # Fresh
<1>1. \E c \in Conns : \A p \in Procs : trans[p].conn # c
  <2> SUFFICES ASSUME \A c \in Conns : \E p \in Procs : trans[p].conn = c PROVE FALSE OBVIOUS
  <2>1. IsFiniteSet(Procs) /\ Cardinality(Procs) \in Nat BY TransportAssumption, FS_CardinalityType
  <2>2. PICK n \in Nat : n = Cardinality(Procs) + 1 BY <2>1
  <2>3. IsFiniteSet(Conns) /\ Cardinality(Conns) = n
    <3>1. Conns = 1 .. n BY <2>2 DEF Conns
    <3> QED BY <2>1, <2>2, <3>1, FS_Interval
  <2>4. PICK f : f = [c \in Conns |-> CHOOSE p \in Procs : trans[p].conn = c] OBVIOUS
  <2>5. \A c \in Conns : f[c] \in Procs /\ trans[f[c]].conn = c BY <2>4
  <2>6. f \in [Conns -> Procs] BY <2>4, <2>5
  <2>7. PICK x, y \in Conns : x # y /\ f[x] = f[y]
    BY <2>1, <2>2, <2>3, <2>6, FS_PigeonHole
  <2> QED BY <2>5, <2>7
<1> QED BY <1>1 DEF Fresh

\* The schedule doubles, up to the limit.
LEMMA DoubledFacts ==
    ASSUME NEW d \in Nat, BackoffBaseMax \in Nat
    PROVE  /\ Doubled(d) \in Nat /\ Doubled(d) <= BackoffBaseMax
           /\ d <= BackoffBaseMax => d <= Doubled(d)
           /\ d # 0 => Doubled(d) <= 2 * d
           /\ Doubled(0) <= BackoffStart
           /\ BackoffBaseMax # 0 => Doubled(d) # 0
<1>1. BackoffStart \in Nat \ {0} BY TransportAssumption
<1>2. ASSUME NEW e \in Nat
      PROVE  Doubled(e) = IF (IF e = 0 THEN BackoffStart ELSE 2 * e) <= BackoffBaseMax
                          THEN IF e = 0 THEN BackoffStart ELSE 2 * e
                          ELSE BackoffBaseMax
  BY <1>1, MinFacts DEF Doubled
<1> HIDE DEF BackoffBaseMax
<1> QED BY <1>1, <1>2

----------------------------------------------------------------------------
(* The functions that neither start an attempt nor ask the schedule.       *)

\* The schedule stands as it was, or as after a connect that succeeded.
Kept(t, u) ==
    /\ u.gap = t.gap /\ u.early = t.early
    /\ \/ u.base = t.base /\ u.limit = t.limit /\ u.count = t.count /\ u.due = t.due
       \/ u.base = BackoffStart /\ u.limit = 1 /\ u.count = 0 /\ u.due = 0

Quiet(t, u) ==
    /\ Shaped(u)
    /\ u.conn \in {t.conn, NoConn, Fresh}
    /\ u.cut \in {t.cut, FALSE} /\ u.torn = t.torn
    /\ Kept(t, u)

\* One after the other they are as quiet.
LEMMA QuietComposes ==
    ASSUME NEW t, NEW u, NEW v, Quiet(t, u), Quiet(u, v) PROVE Quiet(t, v)
BY Zenon DEF Quiet, Kept

\* Ends composes too.
LEMMA EndsComposes ==
    ASSUME NEW t, NEW u, NEW v, Ends(t, u), Ends(u, v) PROVE Ends(t, v)
BY Zenon DEF Ends, Leads

\* And keeps the schedule and the stream.
LEMMA QuietEnds ==
    ASSUME NEW t, NEW u, Quiet(t, u), BackoffBaseMax \in Nat
    PROVE  Ends(t, u)
<1>1. ASSUME Clean(t) PROVE Clean(u) BY <1>1, Zenon DEF Quiet, Clean
<1>2. ASSUME Timed(t) PROVE Timed(u)
  <2>1. CASE u.base = t.base /\ u.limit = t.limit /\ u.count = t.count /\ u.due = t.due
    BY <1>2, <2>1, Zenon DEF Quiet, Kept, Timed
  <2>2. CASE u.base = BackoffStart /\ u.limit = 1 /\ u.count = 0 /\ u.due = 0
    <3>1. u.gap = t.gap /\ u.early = t.early BY DEF Quiet, Kept
    <3>2. BackoffStart \in Nat BY TransportAssumption
    <3>3. Doubled(u.due) <= u.base BY <2>2, DoubledFacts
    <3>4. t.gap \in Nat /\ t.early = FALSE BY <1>2 DEF Timed
    <3> HIDE DEF BackoffBaseMax
    <3>5. /\ u.base \in Nat /\ u.limit \in Nat /\ u.count \in Nat /\ u.gap \in Nat /\ u.due \in Nat
          /\ u.due <= BackoffBaseMax /\ u.due <= u.limit /\ u.count <= u.gap
      BY <2>2, <3>1, <3>2, <3>4
    <3> QED BY <3>1, <3>3, <3>4, <3>5 DEF Timed
  <2> QED BY <2>1, <2>2 DEF Quiet, Kept
<1> QED BY <1>1, <1>2 DEF Ends, Leads, Quiet

\* A value returned.
LEMMA RetQuiet ==
    ASSUME NEW t, NEW rc, Shaped(t)
    PROVE  Quiet(t, Ret(t, rc)) /\ Ret(t, rc).rc = rc /\ Ret(t, rc).sock = t.sock
           /\ Ret(t, rc).conn = t.conn
BY Zenon DEF Ret, Quiet, Kept, Shaped, Fields

\* Giving a connection up.
LEMMA DisconnectQuiet ==
    ASSUME NEW t, Shaped(t)
    PROVE  Quiet(t, transportDisconnect(t)) /\ transportDisconnect(t).conn = NoConn
           /\ transportDisconnect(t).sock = NoFd
BY Zenon DEF transportDisconnect, Quiet, Kept, Shaped, Fields

\* A descriptor in the reserved range, or none.
LEMMA PlaceQuiet ==
    ASSUME NEW t, Shaped(t)
    PROVE  Quiet(t, placeDescriptor(t)) /\ placeDescriptor(t).conn = t.conn
<1>1. PICK s, n : placeDescriptor(t) = [t EXCEPT !.sock = s, !.nextFd = n]
  BY Zenon DEF placeDescriptor
<1> QED BY <1>1, Zenon DEF Quiet, Kept, Shaped, Fields

\* A connection made.
LEMMA ConnectedQuiet ==
    ASSUME NEW t, Shaped(t)
    PROVE  Quiet(t, Connected(t)) /\ Connected(t).sock = t.sock
           /\ Connected(t).conn \in {NoConn, Fresh}
<1>1. PICK a : a = [t EXCEPT !.conn = IF t.sock = NoFd THEN NoConn ELSE Fresh, !.cut = FALSE]
  OBVIOUS
<1>2. Quiet(t, a) /\ a.sock = t.sock /\ a.conn \in {NoConn, Fresh}
  BY <1>1, Zenon DEF Quiet, Kept, Shaped, Fields
<1>3. Shaped(a) BY <1>2 DEF Quiet
<1>4. Quiet(a, backoffReset(a)) /\ backoffReset(a).sock = a.sock /\ backoffReset(a).conn = a.conn
  BY <1>3, Zenon DEF backoffReset, Quiet, Kept, Shaped, Fields
<1>5. PICK b : b = backoffReset(a) OBVIOUS
<1>6. Quiet(a, b) /\ Shaped(b) /\ b.sock = a.sock /\ b.conn = a.conn
  BY <1>4, <1>5 DEF Quiet
<1>7. Quiet(b, Ret(b, 1)) /\ Ret(b, 1).sock = b.sock /\ Ret(b, 1).conn = b.conn
  BY <1>6, RetQuiet
<1>8. Connected(t) = Ret(b, 1) BY <1>1, <1>5 DEF Connected
<1> QED BY <1>2, <1>6, <1>7, <1>8, QuietComposes

\* The TLS session of a connection that has its descriptor.
LEMMA TlsQuiet ==
    ASSUME NEW t, Shaped(t), t.sock # NoFd, NEW u \in establishTlsSession(t)
    PROVE  Quiet(t, u) /\ Says(u) /\ u.conn \in {NoConn, Fresh}
<1>1. PICK a : a = [t EXCEPT !.ssl = TRUE] OBVIOUS
<1>2. Quiet(t, a) /\ a.sock = t.sock BY <1>1, Zenon DEF Quiet, Kept, Shaped, Fields
<1>3. Shaped(a) BY <1>2 DEF Quiet
<1>4. u \in {Connected(t), Connected(a), Ret(transportDisconnect(t), 0)}
  BY <1>1, Zenon DEF establishTlsSession
<1>5. CASE u = Connected(t) BY <1>5, ConnectedQuiet, Zenon DEF Says
<1>6. CASE u = Connected(a) BY <1>2, <1>3, <1>6, ConnectedQuiet, QuietComposes, Zenon DEF Says
<1>7. CASE u = Ret(transportDisconnect(t), 0)
  <2>1. PICK d : d = transportDisconnect(t) OBVIOUS
  <2>2. Quiet(t, d) /\ Shaped(d) /\ d.conn = NoConn BY <2>1, DisconnectQuiet DEF Quiet
  <2>3. Quiet(d, Ret(d, 0)) /\ Ret(d, 0).rc = 0 /\ Ret(d, 0).conn = NoConn BY <2>2, RetQuiet
  <2>4. Says(Ret(d, 0)) BY <2>3 DEF Says
  <2> QED BY <1>7, <2>1, <2>2, <2>3, <2>4, QuietComposes
<1> QED BY <1>4, <1>5, <1>6, <1>7

\* A returned value other than 1.
LEMMA ZeroSays == ASSUME NEW t, Shaped(t), NEW rc \in {0, -1} PROVE Says(Ret(t, rc))
BY RetQuiet DEF Says

\* A pending connect.
LEMMA PendingQuiet ==
    ASSUME NEW t, Shaped(t), NEW u \in checkPendingSocketStatus(t)
    PROVE  Quiet(t, u) /\ Says(u) /\ u.conn \in {t.conn, NoConn, Fresh}
<1>1. PICK a : a = [t EXCEPT !.pending = 0] OBVIOUS
<1>2. Quiet(t, a) /\ a.conn = t.conn BY <1>1, Zenon DEF Quiet, Kept, Shaped, Fields
<1>3. Shaped(a) BY <1>2 DEF Quiet
<1>4. PICK b : b = placeDescriptor(a) OBVIOUS
<1>5. Quiet(a, b) BY <1>3, <1>4, PlaceQuiet
<1>6. Quiet(t, b) /\ Shaped(b) BY <1>2, <1>5, QuietComposes DEF Quiet
<1> DEFINE d == transportDisconnect(t)
<1>7. Quiet(t, d) /\ Shaped(d) BY DisconnectQuiet DEF Quiet
<1>8. \/ u \in {Ret(t, 0), Ret(d, 0), Ret(a, 0), Ret(b, 0)}
      \/ b.sock # NoFd /\ u \in establishTlsSession(b)
  <2>1. CASE t.pending = 0 BY <2>1, Zenon DEF checkPendingSocketStatus
  <2>2. CASE t.pending # 0
    <3> DEFINE C == CASE t.status = "wait" -> {Ret(t, 0)}
                      [] t.status = "refused" -> {Ret([t EXCEPT !.pending = 0], 0)}
                      [] t.status = "ok" ->
                            LET placed == placeDescriptor([t EXCEPT !.pending = 0])
                            IN  IF placed.sock = NoFd THEN {Ret(placed, 0)}
                                ELSE establishTlsSession(placed)
    <3>1. u = Ret(d, 0) \/ u \in C
      BY <2>2, Zenon DEF checkPendingSocketStatus
    <3>2. t.status \in {"wait", "ok", "refused"} BY DEF Shaped
    <3> QED BY <1>1, <1>4, <3>1, <3>2
  <2> QED BY <2>1, <2>2
<1>9. ASSUME NEW s \in {t, d, a, b}, u = Ret(s, 0) PROVE Quiet(t, u) /\ Says(u)
  <2>1. Shaped(s) BY <1>3, <1>6, <1>7
  <2>2. s = t \/ Quiet(t, s) BY <1>2, <1>6, <1>7
  <2>3. Quiet(s, u) BY <1>9, <2>1, RetQuiet, Zenon
  <2> QED BY <1>9, <2>1, <2>2, <2>3, QuietComposes, ZeroSays
<1>10. CASE b.sock # NoFd /\ u \in establishTlsSession(b)
  BY <1>6, <1>10, TlsQuiet, QuietComposes
<1> HIDE DEF d
<1> QED BY <1>8, <1>9, <1>10 DEF Quiet

----------------------------------------------------------------------------
(* The schedule.                                                           *)

\* What every configuration gives.
LEMMA ConfigFacts ==
    ASSUME config \in Configs
    PROVE  /\ BackoffBaseMax \in Nat /\ BackoffBaseMax # 0
           /\ \A j \in JitterMs : j \in Nat
           /\ Type \in {"CFG_TCP", "CFG_UDP", "CFG_UNIX", "CFG_FILE"}
<1>1. /\ config.baseMax \in Nat \ {0} /\ config.jitter \in {{0}, {0, 1}}
      /\ config.type \in {"CFG_TCP", "CFG_UDP", "CFG_UNIX", "CFG_FILE"}
  BY TransportAssumption
<1> QED BY <1>1 DEF BackoffBaseMax, JitterMs, Type

\* A transport in the middle of a call: the call itself is not counted yet.
Counting(t) ==
    /\ t.base \in Nat /\ t.limit \in Nat /\ t.count \in Nat /\ t.gap \in Nat /\ t.due \in Nat
    /\ t.due <= BackoffBaseMax /\ t.due <= t.limit
    /\ Doubled(t.due) <= t.base
    /\ t.count + 1 <= t.gap \/ BackoffBaseMax <= t.gap
    /\ t.early = FALSE

\* A transport that the schedule lets make an attempt: it has waited for long
\* enough, and will again after it.
Ready(t) ==
    /\ t.base \in Nat /\ t.limit \in Nat /\ t.gap \in Nat /\ t.due \in Nat
    /\ t.count = 0
    /\ t.due <= BackoffBaseMax /\ t.due <= t.gap
    /\ Doubled(t.due) <= t.limit
    /\ Doubled(Doubled(t.due)) <= t.base
    /\ t.early = FALSE

\* The fields that the schedule does not use.
Apart(t, u) ==
    /\ Shaped(u)
    /\ u.conn = t.conn /\ u.sock = t.sock /\ u.cut = t.cut /\ u.torn = t.torn

\* A step of the schedule does nothing to the connection.
LEMMA ApartLeads ==
    ASSUME NEW t, NEW u, NEW v, Apart(t, u), Quiet(u, v)
    PROVE  Leads(t, v)
<1>1. Shaped(v) /\ v.conn \in {t.conn, NoConn, Fresh} /\ v.cut \in {t.cut, FALSE} /\ v.torn = t.torn
  BY Zenon DEF Apart, Quiet
<1> QED BY <1>1, Zenon DEF Leads, Clean

\* A call begins.
LEMMA CallCounts ==
    ASSUME config \in Configs, NEW t, Shaped(t),
           NEW u, u = [t EXCEPT !.gap = Min({@ + 1, BackoffBaseMax})]
    PROVE  Apart(t, u) /\ (Timed(t) => Counting(u))
<1>1. /\ Shaped(u) /\ u.conn = t.conn /\ u.sock = t.sock /\ u.cut = t.cut /\ u.torn = t.torn
      /\ u.base = t.base /\ u.limit = t.limit /\ u.count = t.count /\ u.due = t.due
      /\ u.early = t.early /\ u.gap = Min({t.gap + 1, BackoffBaseMax})
  BY Zenon DEF Shaped, Fields
<1>2. ASSUME Timed(t) PROVE Counting(u)
  <2>1. BackoffBaseMax \in Nat BY ConfigFacts
  <2>2. t.gap \in Nat /\ t.count \in Nat /\ (t.count <= t.gap \/ BackoffBaseMax <= t.gap)
    BY <1>2 DEF Timed
  <2> HIDE DEF BackoffBaseMax
  <2>3. u.gap = IF t.gap + 1 <= BackoffBaseMax THEN t.gap + 1 ELSE BackoffBaseMax
    <3>1. t.gap + 1 \in Int /\ BackoffBaseMax \in Int BY <2>1, <2>2
    <3> QED BY <1>1, <3>1, MinFacts
  <2>4. u.gap \in Nat /\ (t.count + 1 <= u.gap \/ BackoffBaseMax <= u.gap) BY <2>1, <2>2, <2>3
  <2> QED BY <1>1, <1>2, <2>4 DEF Timed, Counting
<1> QED BY <1>1, <1>2 DEF Apart

\* A call that only counts.
LEMMA WaitsTimed ==
    ASSUME config \in Configs, NEW t, Shaped(t)
    PROVE  Apart(t, backoffWaits(t)) /\ (Counting(t) => Timed(backoffWaits(t)))
<1>1. PICK u : u = backoffWaits(t) OBVIOUS
<1>2. /\ Shaped(u) /\ u.conn = t.conn /\ u.sock = t.sock /\ u.cut = t.cut /\ u.torn = t.torn
      /\ u.base = t.base /\ u.limit = t.limit /\ u.count = t.count + 1 /\ u.due = t.due
      /\ u.early = t.early /\ u.gap = t.gap
  BY <1>1, Zenon DEF Shaped, Fields, backoffWaits
<1>3. ASSUME Counting(t) PROVE Timed(u)
  <2>1. t.count \in Nat BY <1>3 DEF Counting
  <2>2. u.count \in Nat BY <1>2, <2>1
  <2> QED BY <1>2, <1>3, <2>2 DEF Counting, Timed
<1> QED BY <1>1, <1>2, <1>3 DEF Apart

\* A call that is let through.
LEMMA AllowedReady ==
    ASSUME config \in Configs, NEW t, Shaped(t), backoffAllows(t), NEW u \in backoffAllowed(t)
    PROVE  Apart(t, u) /\ (Counting(t) => Ready(u))
<1>1. PICK j \in JitterMs : u = [t EXCEPT !.limit = t.base + j,
               !.base = IF @ < BackoffBaseMax THEN @ * 2 ELSE @, !.count = 0]
  BY Zenon DEF backoffAllowed
<1>2. /\ Shaped(u) /\ u.conn = t.conn /\ u.sock = t.sock /\ u.cut = t.cut /\ u.torn = t.torn
      /\ u.limit = t.base + j /\ u.count = 0 /\ u.due = t.due
      /\ u.base = IF t.base < BackoffBaseMax THEN t.base * 2 ELSE t.base
      /\ u.early = t.early /\ u.gap = t.gap
  BY <1>1, Zenon DEF Shaped, Fields
<1>3. ASSUME Counting(t) PROVE Ready(u)
  <2>1. BackoffBaseMax \in Nat /\ j \in Nat BY ConfigFacts
  <2>2. PICK d \in Nat : d = t.due BY <1>3 DEF Counting
  <2>3. /\ t.base \in Nat /\ t.limit \in Nat /\ t.count \in Nat /\ t.gap \in Nat
        /\ d <= BackoffBaseMax /\ d <= t.limit /\ Doubled(d) <= t.base /\ t.early = FALSE
        /\ t.count + 1 <= t.gap \/ BackoffBaseMax <= t.gap
    BY <1>3, <2>2 DEF Counting
  <2>4. t.count + 1 >= t.limit BY DEF backoffAllows
  <2>5. Doubled(d) \in Nat BY <2>1, DoubledFacts
  <2>6. PICK e \in Nat : e = Doubled(d) BY <2>5
  <2>7. /\ Doubled(e) \in Nat /\ Doubled(e) <= BackoffBaseMax
        /\ e # 0 => Doubled(e) <= 2 * e
    BY <2>1, DoubledFacts
  <2>8. e # 0 BY <2>6, DoubledFacts, ConfigFacts
  <2> HIDE DEF BackoffBaseMax
  <2>9. u.base \in Nat /\ u.limit \in Nat BY <1>2, <2>1, <2>3
  <2>10. d <= t.gap BY <2>1, <2>3, <2>4
  <2>11. e <= u.limit BY <1>2, <2>1, <2>3, <2>6
  <2>12. Doubled(e) <= u.base BY <1>2, <2>1, <2>3, <2>6, <2>7, <2>8
  <2> QED BY <1>2, <2>2, <2>3, <2>6, <2>9, <2>10, <2>11, <2>12 DEF Ready
<1> QED BY <1>2, <1>3 DEF Apart

\* One that is let through and only looks at a pending connect.
LEMMA ReadyTimed ==
    ASSUME config \in Configs, NEW t, Ready(t)
    PROVE  Timed(t)
<1>1. BackoffBaseMax \in Nat BY ConfigFacts
<1>2. PICK d \in Nat : d = t.due BY DEF Ready
<1>3. Doubled(d) \in Nat /\ Doubled(d) <= BackoffBaseMax /\ d <= Doubled(d)
  BY <1>1, <1>2, DoubledFacts DEF Ready
<1>4. Doubled(Doubled(d)) \in Nat /\ Doubled(d) <= Doubled(Doubled(d))
  BY <1>1, <1>3, DoubledFacts
<1>5. /\ t.base \in Nat /\ t.limit \in Nat /\ t.gap \in Nat /\ t.count = 0 /\ t.early = FALSE
      /\ d <= BackoffBaseMax /\ Doubled(d) <= t.limit /\ Doubled(Doubled(d)) <= t.base
  BY <1>2 DEF Ready
<1> HIDE DEF BackoffBaseMax
<1>6. d <= t.limit BY <1>3, <1>5
<1>7. Doubled(d) <= t.base BY <1>3, <1>4, <1>5
<1>8. t.count \in Nat /\ t.count <= t.gap BY <1>5
<1> QED BY <1>2, <1>5, <1>6, <1>7, <1>8 DEF Timed

\* An attempt.
LEMMA AttemptTimed ==
    ASSUME config \in Configs, NEW t, Shaped(t)
    PROVE  Apart(t, Attempt(t)) /\ (Ready(t) => Timed(Attempt(t)))
<1>1. PICK u : u = Attempt(t) OBVIOUS
<1>2. /\ Shaped(u) /\ u.conn = t.conn /\ u.sock = t.sock /\ u.cut = t.cut /\ u.torn = t.torn
      /\ u.base = t.base /\ u.limit = t.limit /\ u.count = t.count /\ u.due = Doubled(t.due)
      /\ u.gap = 0 /\ u.early = (t.early \/ t.gap < t.due)
  BY <1>1, Zenon DEF Shaped, Fields, Attempt
<1>3. ASSUME Ready(t) PROVE Timed(u)
  <2>1. BackoffBaseMax \in Nat BY ConfigFacts
  <2>2. PICK d \in Nat : d = t.due BY <1>3 DEF Ready
  <2>3. Doubled(d) \in Nat /\ Doubled(d) <= BackoffBaseMax BY <2>1, DoubledFacts
  <2>4. ~(t.gap < t.due) BY <1>3 DEF Ready
  <2>5. u.early = FALSE BY <1>2, <1>3, <2>4, Zenon DEF Ready
  <2>6. /\ t.base \in Nat /\ t.limit \in Nat /\ t.count = 0
        /\ Doubled(d) <= t.limit /\ Doubled(Doubled(d)) <= t.base
    BY <1>3, <2>2 DEF Ready
  <2>7. u.due = Doubled(d) BY <1>2, <2>2
  <2>8. u.gap \in Nat /\ u.count \in Nat /\ u.count <= u.gap BY <1>2, <2>6
  <2> QED BY <1>2, <2>3, <2>5, <2>6, <2>7, <2>8 DEF Timed
<1> QED BY <1>1, <1>2, <1>3 DEF Apart

----------------------------------------------------------------------------
(* Connecting.                                                             *)

\* The addresses of the name.
LEMMA AddressesQuiet ==
    ASSUME NEW t, Shaped(t), NEW cached, NEW u \in getAddressList(t, cached)
    PROVE  Quiet(t, u)
<1>1. u = t \/ \E n : u = [t EXCEPT !.left = n] BY Zenon DEF getAddressList
<1> QED BY <1>1, Zenon DEF Quiet, Kept, Shaped, Fields

\* The loop over the addresses.
LEMMA StartQuiet ==
    ASSUME config \in Configs, NEW t, Shaped(t), NEW cached, NEW u \in socketConnectionStart(t, cached)
    PROVE  Quiet(Attempt(t), u)
<1> DEFINE Address(left) == IF cached /\ t.left = 0 THEN GoodAddr ELSE Addrs - left + 1
           MayFail(left) == Faults \/ ~peer \/ Address(left) # GoodAddr
           Skipped(a) == {n \in 0 .. a.left : \A m \in n + 1 .. a.left : MayFail(m)}
           Leaks(a) == IF Faults THEN {a.leaked, TRUE} ELSE {a.leaked}
           Failed(a) == UNION {{[a EXCEPT !.left = n, !.leaked = l] : n \in Skipped(a)} : l \in Leaks(a)}
           Placed(v) == placeDescriptor([v EXCEPT !.left = @ - 1])
           Tried(v) ==
               IF v.left = 0 THEN v
               ELSE IF Type = "CFG_TCP"
               THEN [v EXCEPT !.left = @ - 1, !.pending = Address(v.left), !.status = "wait"]
               ELSE IF Placed(v).sock = NoFd THEN [Placed(v) EXCEPT !.left = 0]
               ELSE Connected(Placed(v))
<1>0. u \in UNION {{Tried(v) : v \in Failed(a)} : a \in getAddressList(Attempt(t), cached)}
  BY Zenon DEF socketConnectionStart
<1>10. PICK a \in getAddressList(Attempt(t), cached) : u \in {Tried(v) : v \in Failed(a)}
  <2> HIDE DEF Failed, Tried
  <2> QED BY <1>0, Zenon
<1>11. PICK v \in Failed(a) : u = Tried(v)
  <2> HIDE DEF Failed, Tried
  <2> QED BY <1>10, Zenon
<1>1. /\ \E n, l : v = [a EXCEPT !.left = n, !.leaked = l]
      /\ \/ u = v
         \/ \E n, m : u = [v EXCEPT !.left = n, !.pending = m, !.status = "wait"]
         \/ \E n : u = [placeDescriptor([v EXCEPT !.left = n]) EXCEPT !.left = 0]
         \/ \E n : u = Connected(placeDescriptor([v EXCEPT !.left = n]))
  <2>1. PICK l \in Leaks(a), r \in Skipped(a) : v = [a EXCEPT !.left = r, !.leaked = l]
    <3> HIDE DEF Leaks, Skipped
    <3> QED BY <1>11, Zenon
  <2>2. v.left = 0 => u = v BY <1>11, Zenon
  <2>3. v.left # 0 /\ Type = "CFG_TCP"
          => \E n, m : u = [v EXCEPT !.left = n, !.pending = m, !.status = "wait"]
    BY <1>11, Zenon
  <2>4. v.left # 0 /\ Type # "CFG_TCP" /\ Placed(v).sock = NoFd
          => u = [placeDescriptor([v EXCEPT !.left = v.left - 1]) EXCEPT !.left = 0]
    BY <1>11, Zenon
  <2>5. v.left # 0 /\ Type # "CFG_TCP" /\ Placed(v).sock # NoFd
          => u = Connected(placeDescriptor([v EXCEPT !.left = v.left - 1]))
    BY <1>11, Zenon
  <2> QED BY <2>1, <2>2, <2>3, <2>4, <2>5, Zenon
<1> HIDE DEF Failed, Tried
<1>2. Shaped(Attempt(t)) BY AttemptTimed DEF Apart
<1>3. Quiet(Attempt(t), a) /\ Shaped(a) BY <1>10, <1>2, AddressesQuiet DEF Quiet
<1>4. Quiet(a, v) BY <1>1, <1>3, Zenon DEF Quiet, Kept, Shaped, Fields
<1>5. Quiet(Attempt(t), v) /\ Shaped(v) BY <1>3, <1>4, QuietComposes DEF Quiet
<1>6. CASE \E n, m : u = [v EXCEPT !.left = n, !.pending = m, !.status = "wait"]
  <2>1. Quiet(v, u) BY <1>5, <1>6, ZenonT(40) DEF Quiet, Kept, Shaped, Fields
  <2> QED BY <1>5, <2>1, QuietComposes
<1>7. ASSUME NEW n, u = [placeDescriptor([v EXCEPT !.left = n]) EXCEPT !.left = 0]
             \/ u = Connected(placeDescriptor([v EXCEPT !.left = n]))
      PROVE  Quiet(Attempt(t), u)
  <2>1. PICK w : w = [v EXCEPT !.left = n] OBVIOUS
  <2>2. Quiet(v, w) BY <1>5, <2>1, Zenon DEF Quiet, Kept, Shaped, Fields
  <2>3. PICK x : x = placeDescriptor(w) OBVIOUS
  <2>4. Quiet(w, x) BY <2>2, <2>3, PlaceQuiet DEF Quiet
  <2>5. Quiet(Attempt(t), x) /\ Shaped(x) BY <1>5, <2>2, <2>4, QuietComposes DEF Quiet
  <2>6. CASE u = [x EXCEPT !.left = 0]
    <3>1. Quiet(x, u) BY <2>5, <2>6, Zenon DEF Quiet, Kept, Shaped, Fields
    <3> QED BY <2>5, <3>1, QuietComposes
  <2>7. CASE u = Connected(x) BY <2>5, <2>7, ConnectedQuiet, QuietComposes
  <2> QED BY <1>7, <2>1, <2>3, <2>6, <2>7, Zenon
<1> QED BY <1>1, <1>5, <1>6, <1>7, Zenon

\* A UNIX connect, which may end without a descriptor.
LEMMA UnixQuiet ==
    ASSUME NEW t, Shaped(t), NEW u \in ConnectUnix(t)
    PROVE  Quiet(t, u)
<1>1. PICK x : x = placeDescriptor(t) OBVIOUS
<1>2. u = Ret(t, 0) \/ u = Connected(x) BY <1>1, Zenon DEF ConnectUnix
<1>3. Quiet(t, x) /\ Shaped(x) BY <1>1, PlaceQuiet DEF Quiet
<1>4. Quiet(x, Connected(x)) BY <1>3, ConnectedQuiet
<1>5. Quiet(t, Ret(t, 0)) BY RetQuiet
<1> QED BY <1>2, <1>3, <1>4, <1>5, QuietComposes

\* Opening a file.
LEMMA FileQuiet ==
    ASSUME NEW t, Shaped(t), NEW u \in transportConnectFile(t)
    PROVE  Quiet(t, u) /\ Says(u)
<1>1. PICK x : x = placeDescriptor(t) OBVIOUS
<1>2. Quiet(t, x) /\ Shaped(x) BY <1>1, PlaceQuiet DEF Quiet
<1>3. PICK d : d = transportDisconnect(x) OBVIOUS
<1>4. Quiet(x, d) /\ Shaped(d) BY <1>2, <1>3, DisconnectQuiet DEF Quiet
<1>5. PICK e : e = [d EXCEPT !.leaked = TRUE] OBVIOUS
<1>6. Quiet(d, e) BY <1>4, <1>5, Zenon DEF Quiet, Kept, Shaped, Fields
<1>7. Quiet(t, e) /\ Shaped(e) BY <1>2, <1>4, <1>6, QuietComposes DEF Quiet
<1>8. u \in {Ret(t, 0), Ret(x, 0), Ret(e, 0)} \/ (x.sock # NoFd /\ u = Connected(x))
  BY <1>1, <1>3, <1>5, Zenon DEF transportConnectFile
<1>9. ASSUME NEW s \in {t, x, e}, u = Ret(s, 0) PROVE Quiet(t, u) /\ Says(u)
  <2>1. Shaped(s) /\ (s = t \/ Quiet(t, s)) BY <1>2, <1>7
  <2>2. Quiet(s, Ret(s, 0)) BY <2>1, RetQuiet
  <2> QED BY <1>9, <2>1, <2>2, QuietComposes, ZeroSays
<1>10. CASE x.sock # NoFd /\ u = Connected(x)
  BY <1>2, <1>10, ConnectedQuiet, QuietComposes DEF Says
<1> QED BY <1>8, <1>9, <1>10

\* A step of the schedule, and what follows it.
LEMMA ThroughSchedule ==
    ASSUME config \in Configs, NEW t, NEW b, NEW u,
           Apart(t, b), Counting(t) => Timed(b), Quiet(b, u)
    PROVE  Leads(t, u) /\ (Counting(t) => Timed(u))
BY ApartLeads, QuietEnds, ConfigFacts DEF Ends

\* transportConnect, from the test of the backoff on.
LEMMA ConnectNowEnds ==
    ASSUME config \in Configs, NEW t, Shaped(t), NEW cached, NEW u \in ConnectNow(t, cached)
    PROVE  /\ Leads(t, u) /\ (Counting(t) => Timed(u))
           /\ Type # "CFG_UNIX" => Says(u)
<1>1. CASE ~backoffAllows(t)
  <2>1. PICK b : b = backoffWaits(t) OBVIOUS
  <2>2. Apart(t, b) /\ Shaped(b) /\ (Counting(t) => Timed(b)) BY <2>1, WaitsTimed DEF Apart
  <2>3. u = Ret(b, 0) \/ u \in checkPendingSocketStatus(b) BY <1>1, <2>1, Zenon DEF ConnectNow
  <2>4. Quiet(b, u) /\ Says(u) BY <2>2, <2>3, RetQuiet, ZeroSays, PendingQuiet
  <2> QED BY <2>2, <2>4, ThroughSchedule
<1>2. CASE backoffAllows(t)
  <2> DEFINE Go(b) ==
        CASE IsNet /\ b.pending # 0 -> checkPendingSocketStatus(b)
          [] IsNet /\ b.pending = 0 ->
                UNION {IF s.sock # NoFd THEN {Ret(s, 1)} ELSE checkPendingSocketStatus(s)
                       : s \in socketConnectionStart(b, cached)}
          [] Type = "CFG_UNIX" -> ConnectUnix(Attempt(b))
          [] Type = "CFG_FILE" -> transportConnectFile(Attempt(b))
  <2>1. u \in UNION {Go(b) : b \in backoffAllowed(t)} BY <1>2, Zenon DEF ConnectNow
  <2>2. PICK b \in backoffAllowed(t) : u \in Go(b)
    <3> HIDE DEF Go
    <3> QED BY <2>1, Zenon
  <2>3. Apart(t, b) /\ Shaped(b) /\ (Counting(t) => Ready(b)) BY <1>2, AllowedReady DEF Apart
  <2>4. Counting(t) => Timed(b) BY <2>3, ReadyTimed
  <2>5. PICK a : a = Attempt(b) OBVIOUS
  <2>6. Apart(t, a) /\ Shaped(a) /\ (Counting(t) => Timed(a))
    BY <2>3, <2>5, AttemptTimed DEF Apart
  <2>7. Type \in {"CFG_TCP", "CFG_UDP", "CFG_UNIX", "CFG_FILE"} BY ConfigFacts
  <2>8. CASE IsNet /\ b.pending # 0
    <3>1. u \in checkPendingSocketStatus(b) BY <2>2, <2>8, Zenon DEF IsNet
    <3> QED BY <2>3, <2>4, <3>1, PendingQuiet, ThroughSchedule
  <2>9. CASE IsNet /\ b.pending = 0
    <3>1. u \in UNION {IF s.sock # NoFd THEN {Ret(s, 1)} ELSE checkPendingSocketStatus(s)
                       : s \in socketConnectionStart(b, cached)}
      BY <2>2, <2>9 DEF IsNet
    <3>2. PICK s \in socketConnectionStart(b, cached) :
             u \in IF s.sock # NoFd THEN {Ret(s, 1)} ELSE checkPendingSocketStatus(s)
      BY <3>1, Zenon
    <3>3. Quiet(a, s) /\ Shaped(s) BY <2>3, <2>5, StartQuiet DEF Quiet
    <3>4. CASE s.sock # NoFd
      <4>1. u = Ret(s, 1) BY <3>2, <3>4
      <4>2. Quiet(s, Ret(s, 1)) /\ Ret(s, 1).sock = s.sock BY <3>3, RetQuiet
      <4>3. Quiet(a, u) /\ Says(u) BY <3>3, <3>4, <4>1, <4>2, QuietComposes DEF Says
      <4> QED BY <2>6, <4>3, ThroughSchedule
    <3>5. CASE s.sock = NoFd
      <4>1. Quiet(s, u) /\ Says(u) BY <3>2, <3>3, <3>5, PendingQuiet
      <4>2. Quiet(a, u) BY <3>3, <4>1, QuietComposes
      <4> QED BY <2>6, <4>1, <4>2, ThroughSchedule
    <3> QED BY <3>4, <3>5
  <2>10. CASE Type = "CFG_UNIX"
    <3>1. u \in ConnectUnix(a) BY <2>2, <2>5, <2>10 DEF IsNet
    <3> QED BY <2>6, <2>10, <3>1, UnixQuiet, ThroughSchedule
  <2>11. CASE Type = "CFG_FILE"
    <3>1. u \in transportConnectFile(a) BY <2>2, <2>5, <2>11 DEF IsNet
    <3> QED BY <2>6, <3>1, FileQuiet, ThroughSchedule
  <2> QED BY <2>7, <2>8, <2>9, <2>10, <2>11 DEF IsNet
<1> QED BY <1>1, <1>2

\* What every call that connects or sends does.
Fine(t, u) == Ends(t, u) /\ (Type # "CFG_UNIX" => Says(u))

\* transportConnect.
LEMMA ConnectFine ==
    ASSUME config \in Configs, NEW t, Shaped(t), NEW cached, NEW u \in ConnectWith(t, cached)
    PROVE  Fine(t, u)
<1>1. BackoffBaseMax \in Nat BY ConfigFacts
<1>2. CASE ~NeedsConnection(t)
  <2>1. u = Ret(t, 1) /\ t.sock # NoFd BY <1>2 DEF ConnectWith, NeedsConnection
  <2>2. Quiet(t, u) /\ Says(u) BY <2>1, RetQuiet DEF Says
  <2> QED BY <1>1, <2>2, QuietEnds DEF Fine
<1>3. CASE NeedsConnection(t)
  <2>1. PICK n : n = transportNeedsConnection(t) OBVIOUS
  <2>2. Shaped(n) /\ (n = t \/ Quiet(t, n))
    BY <2>1, DisconnectQuiet DEF transportNeedsConnection, Quiet
  <2>3. n = t \/ Ends(t, n) BY <1>1, <2>2, QuietEnds
  <2>4. PICK g : g = [n EXCEPT !.gap = Min({@ + 1, BackoffBaseMax})] OBVIOUS
  <2>5. Apart(n, g) /\ (Timed(n) => Counting(g)) BY <2>2, <2>4, CallCounts
  <2>6. u \in ConnectNow(g, cached) BY <1>3, <2>1, <2>4, Zenon DEF ConnectWith
  <2>7. Shaped(g) BY <2>5 DEF Apart
  <2>8. Leads(g, u) /\ (Counting(g) => Timed(u)) /\ (Type # "CFG_UNIX" => Says(u))
    BY <2>6, <2>7, ConnectNowEnds
  <2>9. Leads(n, u) BY <2>5, <2>8, Zenon DEF Leads, Apart, Clean
  <2>10. Ends(n, u) BY <2>5, <2>8, <2>9 DEF Ends
  <2> QED BY <2>3, <2>8, <2>10, EndsComposes DEF Fine
<1> QED BY <1>2, <1>3

\* transportReconnect: after it a TCP transport has a connection of its own or none.
LEMMA ReconnectFine ==
    ASSUME config \in Configs, NEW t, Shaped(t), NEW u \in transportReconnect(t)
    PROVE  Fine(t, u) /\ (Type = "CFG_TCP" => u.conn \in {NoConn, Fresh})
<1>1. BackoffBaseMax \in Nat BY ConfigFacts
<1>2. PICK d : d = transportDisconnect(t) OBVIOUS
<1>3. Quiet(t, d) /\ Shaped(d) /\ d.conn = NoConn BY <1>2, DisconnectQuiet DEF Quiet
<1>4. Ends(t, d) BY <1>1, <1>3, QuietEnds
<1>5. \/ Type # "CFG_TCP" /\ u = Ret(t, 0)
      \/ u = Ret(d, 0)
      \/ \E w \in ConnectWith(d, TRUE) : u = Ret(w, 0)
  BY <1>2, Zenon DEF transportReconnect
<1>6. CASE Type # "CFG_TCP" /\ u = Ret(t, 0)
  BY <1>1, <1>6, RetQuiet, ZeroSays, QuietEnds DEF Fine
<1>7. ASSUME NEW w, Shaped(w), w.conn \in {NoConn, Fresh}, Ends(t, w), u = Ret(w, 0)
      PROVE  Fine(t, u) /\ u.conn \in {NoConn, Fresh}
  <2>1. Quiet(w, u) /\ u.conn = w.conn BY <1>7, RetQuiet
  <2>2. Ends(w, u) BY <1>1, <2>1, QuietEnds
  <2> QED BY <1>7, <2>1, <2>2, EndsComposes, ZeroSays DEF Fine
<1>8. CASE u = Ret(d, 0) BY <1>3, <1>4, <1>7, <1>8
<1>9. ASSUME NEW w \in ConnectWith(d, TRUE), u = Ret(w, 0)
      PROVE  Fine(t, u) /\ u.conn \in {NoConn, Fresh}
  <2>1. Ends(d, w) BY <1>3, <1>9, ConnectFine DEF Fine
  <2>2. Shaped(w) /\ w.conn \in {NoConn, Fresh} BY <1>3, <2>1 DEF Ends, Leads
  <2> QED BY <1>4, <1>7, <1>9, <2>1, <2>2, EndsComposes
<1> QED BY <1>5, <1>6, <1>8, <1>9

----------------------------------------------------------------------------
(* Sending.                                                                *)

\* A message sent.
LEMMA SendOkFine ==
    ASSUME config \in Configs, NEW t, Shaped(t), NEW u, u = SendOk(t)
    PROVE  Fine(t, u) /\ Shaped(u) /\ Says(u) /\ u.rc = 0
<1>1. PICK a : a = [t EXCEPT !.torn = @ \/ t.cut] OBVIOUS
<1>2. /\ Shaped(a) /\ a.conn = t.conn /\ a.cut = t.cut /\ a.torn = (t.torn \/ t.cut) /\ Kept(t, a)
      /\ a.base = t.base /\ a.limit = t.limit /\ a.count = t.count /\ a.due = t.due
      /\ a.gap = t.gap /\ a.early = t.early
  BY <1>1, Zenon DEF Kept, Shaped, Fields
<1>3. Clean(t) => Clean(a) BY <1>2, Zenon DEF Clean
<1>4. Timed(t) => Timed(a) BY <1>2, Zenon DEF Timed
<1>5. Ends(t, a) BY <1>2, <1>3, <1>4 DEF Ends, Leads
<1>6. u = Ret(a, 0) BY <1>1 DEF SendOk
<1>7. Quiet(a, u) /\ u.rc = 0 BY <1>2, <1>6, RetQuiet
<1>8. Ends(a, u) BY <1>7, QuietEnds, ConfigFacts
<1>9. Shaped(u) /\ Says(u) BY <1>7 DEF Quiet, Says
<1> QED BY <1>5, <1>7, <1>8, <1>9, EndsComposes DEF Fine

\* A message cut short, on a connection that is left as it is.
LEMMA CutFine ==
    ASSUME config \in Configs, NEW t, Shaped(t), ~Framed, NEW u, u = [t EXCEPT !.cut = TRUE]
    PROVE  Ends(t, u) /\ Shaped(u) /\ u.rc = t.rc
<1>1. /\ Shaped(u) /\ u.conn = t.conn /\ u.rc = t.rc
      /\ u.base = t.base /\ u.limit = t.limit /\ u.count = t.count /\ u.due = t.due
      /\ u.gap = t.gap /\ u.early = t.early
  BY Zenon DEF Shaped, Fields
<1>2. Timed(t) => Timed(u) BY <1>1, Zenon DEF Timed
<1> QED BY <1>1, <1>2 DEF Ends, Leads

\* A value returned other than 1.
LEMMA RetFine ==
    ASSUME config \in Configs, NEW t, NEW w, Shaped(w), w = t \/ Ends(t, w),
           NEW rc \in {0, -1}, NEW u, u = Ret(w, rc)
    PROVE  Fine(t, u)
<1>1. Quiet(w, u) /\ Says(u) BY RetQuiet, ZeroSays
<1>2. Ends(w, u) BY <1>1, QuietEnds, ConfigFacts
<1> QED BY <1>1, <1>2, EndsComposes DEF Fine

\* A send that gives the connection up and tries for another.
LEMMA SendFailedFine ==
    ASSUME config \in Configs, NEW t, Shaped(t), NEW u \in SendFailed(t)
    PROVE  Fine(t, u)
<1>1. PICK d : d = transportDisconnect(t) OBVIOUS
<1>2. Quiet(t, d) /\ Shaped(d) BY <1>1, DisconnectQuiet DEF Quiet
<1>3. Ends(t, d) BY <1>2, QuietEnds, ConfigFacts
<1>4. PICK w \in ConnectWith(d, FALSE) : u = Ret(w, -1)
  BY <1>1, Zenon DEF SendFailed, transportConnect
<1>5. Ends(d, w) BY <1>2, ConnectFine DEF Fine
<1>6. Ends(t, w) /\ Shaped(w) BY <1>3, <1>5, EndsComposes DEF Ends, Leads
<1> QED BY <1>4, <1>6, RetFine

\* transportSend.
LEMMA SendFine ==
    ASSUME config \in Configs, NEW t, Shaped(t), NEW u \in transportSend(t)
    PROVE  Fine(t, u)
<1>1. Type \in {"CFG_TCP", "CFG_UDP", "CFG_UNIX", "CFG_FILE"} BY ConfigFacts
<1>2. CASE u = SendOk(t) BY <1>2, SendOkFine
<1>3. CASE u \in SendFailed(t) BY <1>3, SendFailedFine
<1>4. CASE u = Ret(t, 0) BY <1>4, RetFine
<1>5. CASE Type = "CFG_TCP" /\ NeedsConnection(t)
  <2>1. PICK n : n = transportNeedsConnection(t) OBVIOUS
  <2>2. Shaped(n) /\ (n = t \/ Quiet(t, n))
    BY <2>1, DisconnectQuiet DEF transportNeedsConnection, Quiet
  <2>3. n = t \/ Ends(t, n) BY <2>2, QuietEnds, ConfigFacts
  <2>4. u \in {Ret(n, -1)} BY <1>5, <2>1 DEF transportSend, Tls
  <2> QED BY <2>2, <2>3, <2>4, RetFine
<1>6. CASE Tls /\ ~NeedsConnection(t)
  <2>1. u \in tcpSendTls(t) BY <1>6 DEF transportSend, Tls
  <2> QED BY <1>2, <1>3, <2>1 DEF tcpSendTls
<1>7. CASE Type = "CFG_TCP" /\ ~Tls /\ ~NeedsConnection(t)
  <2>1. u \in tcpSendPlain(t) BY <1>7 DEF transportSend
  <2>2. CASE Faults /\ u = Ret([t EXCEPT !.cut = TRUE], 0)
    <3>1. PICK c : c = [t EXCEPT !.cut = TRUE] OBVIOUS
    <3>2. ~Framed BY <1>7, <2>2 DEF Framed
    <3>3. Ends(t, c) /\ Shaped(c) BY <3>1, <3>2, CutFine
    <3> QED BY <2>2, <3>1, <3>3, RetFine
  <2> QED BY <1>2, <1>3, <2>1, <2>2 DEF tcpSendPlain
<1>8. CASE Type # "CFG_TCP" /\ t.sock = NoFd
  <2>1. u \in {Ret(t, 0)} BY <1>8 DEF transportSend, Tls
  <2> QED BY <1>4, <2>1
<1>9. CASE Type = "CFG_UNIX" /\ t.sock # NoFd
  <2>1. \/ u \in SendFailed(t) \/ u = SendOk(t)
        \/ Faults /\ u = [SendOk(t) EXCEPT !.cut = TRUE]
    BY <1>9 DEF transportSend, Tls
  <2>2. CASE Faults /\ u = [SendOk(t) EXCEPT !.cut = TRUE]
    <3>1. PICK s : s = SendOk(t) OBVIOUS
    <3>2. Ends(t, s) /\ Shaped(s) BY <3>1, SendOkFine DEF Fine
    <3>3. ~Framed BY <1>9, <2>2 DEF Framed, Tls
    <3>4. u = [s EXCEPT !.cut = TRUE] BY <2>2, <3>1
    <3>5. Ends(s, u) BY <3>2, <3>3, <3>4, CutFine
    <3> QED BY <1>9, <3>2, <3>5, EndsComposes DEF Fine
  <2> QED BY <1>2, <1>3, <2>1, <2>2
<1>10. CASE Type \in {"CFG_UDP", "CFG_FILE"} /\ t.sock # NoFd
  <2>1. u = Ret(t, 0) \/ u \in SendFailed(t) BY <1>10 DEF transportSend, Tls
  <2> QED BY <1>3, <1>4, <2>1
<1> QED BY <1>1, <1>5, <1>6, <1>7, <1>8, <1>9, <1>10

----------------------------------------------------------------------------
(* The invariant.                                                          *)

Ordered == \A p \in Procs : Shaped(trans[p]) /\ Timed(trans[p]) /\ (Framed => Clean(trans[p]))

Saying == Type # "CFG_UNIX" => \A p \in Procs : Says(trans[p])

TransportInv ==
    /\ config \in Configs
    /\ trans = [p \in Procs |-> trans[p]] /\ life = [p \in Procs |-> life[p]]
    /\ Ordered /\ Saying
    /\ DistinctConnections

\* A new transport has everything to come.
LEMMA InitTransport == Init => TransportInv
<1> SUFFICES ASSUME Init PROVE TransportInv OBVIOUS
<1> USE DEF Init
<1>1. config \in Configs /\ BackoffBaseMax \in Nat BY ConfigFacts
<1>2. trans = [p \in Procs |-> trans[p]] /\ life = [p \in Procs |-> life[p]] BY Zenon
<1>3. ASSUME NEW p \in Procs
      PROVE  /\ Shaped(trans[p]) /\ Timed(trans[p]) /\ Clean(trans[p]) /\ Says(trans[p])
             /\ trans[p].conn = NoConn
  <2>1. PICK t : t = trans[p] OBVIOUS
  <2>2. /\ Shaped(t) /\ t.conn = NoConn /\ t.cut = FALSE /\ t.torn = FALSE /\ t.rc = 0
        /\ t.base = BackoffStart /\ t.limit = 1 /\ t.count = 0 /\ t.gap = 0 /\ t.due = 0
        /\ t.early = FALSE
    BY <2>1 DEF Shaped, Fields
  <2>3. BackoffStart \in Nat /\ Doubled(0) <= BackoffStart BY <1>1, DoubledFacts, TransportAssumption
  <2> HIDE DEF BackoffBaseMax
  <2>4. Timed(t) BY <1>1, <2>2, <2>3 DEF Timed
  <2> QED BY <2>1, <2>2, <2>4 DEF Clean, Says
<1>4. Ordered /\ Saying BY <1>3 DEF Ordered, Saying
<1>5. DistinctConnections BY <1>3 DEF DistinctConnections
<1> QED BY <1>1, <1>2, <1>4, <1>5 DEF TransportInv

\* One process's transport changes as a call may change it.
LEMMA CallKeeps ==
    ASSUME TransportInv, NEW p \in Procs, NEW u, Fine(trans[p], u),
           config' = config, trans' = [trans EXCEPT ![p] = u]
    PROVE  /\ trans' = [q \in Procs |-> trans'[q]]
           /\ \A q \in Procs : trans'[q] = IF q = p THEN u ELSE trans[q]
           /\ Ordered' /\ Saying'
<1>1. DOMAIN trans = Procs BY Zenon DEF TransportInv
<1>2. \A q \in Procs : trans'[q] = IF q = p THEN u ELSE trans[q] BY <1>1, Zenon
<1>3. trans' = [q \in Procs |-> trans'[q]] BY <1>1, Zenon
<1>4. Type' = Type /\ Framed' = Framed /\ BackoffBaseMax' = BackoffBaseMax
  BY Zenon DEF Type, Framed, Tls, Faults, BackoffBaseMax
<1>5. ASSUME NEW q \in Procs
      PROVE  /\ Shaped(trans[q])' /\ Timed(trans[q])' /\ (Framed => Clean(trans[q])')
             /\ Type # "CFG_UNIX" => Says(trans[q])'
  <2>1. PICK t : t = trans'[q] OBVIOUS
  <2>2. t = u \/ t = trans[q] BY <1>2, <2>1
  <2>3. /\ Shaped(trans[p]) /\ Timed(trans[p]) /\ (Framed => Clean(trans[p]))
        /\ Shaped(trans[q]) /\ Timed(trans[q]) /\ (Framed => Clean(trans[q]))
        /\ Type # "CFG_UNIX" => Says(trans[q])
    BY DEF TransportInv, Ordered, Saying
  <2>4. Shaped(u) /\ Timed(u) /\ (Framed => Clean(u)) /\ (Type # "CFG_UNIX" => Says(u))
    BY <2>3 DEF Fine, Ends, Leads
  <2>5. Shaped(t) /\ Timed(t) /\ (Framed => Clean(t)) /\ (Type # "CFG_UNIX" => Says(t))
    BY <2>2, <2>3, <2>4
  <2>6. Timed(trans[q])' BY <1>4, <2>1, <2>5, Zenon DEF Timed, Doubled
  <2> QED BY <2>1, <2>5, <2>6, Zenon DEF Shaped, Clean, Says, NoFd
<1> QED BY <1>2, <1>3, <1>4, <1>5, Zenon DEF Ordered, Saying

\* No step shares a connection, upsets a schedule or spoils a stream.
LEMMA NextTransport == TransportInv /\ [Next]_vars => TransportInv'
<1> SUFFICES ASSUME TransportInv, [Next]_vars PROVE TransportInv' OBVIOUS
<1>1. config \in Configs /\ DOMAIN trans = Procs /\ DOMAIN life = Procs BY Zenon DEF TransportInv
<1>2. \A p \in Procs : Shaped(trans[p]) BY DEF TransportInv, Ordered
<1>3. \A q \in Procs : trans[q].conn # Fresh BY FreshIsUnused
<1>4. ASSUME NEW p \in Procs, life[p] = "running", NEW u, Fine(trans[p], u),
             trans' = [trans EXCEPT ![p] = u], UNCHANGED <<config, life>>
      PROVE  TransportInv'
  <2>1. /\ trans' = [q \in Procs |-> trans'[q]]
        /\ \A q \in Procs : trans'[q] = IF q = p THEN u ELSE trans[q]
        /\ Ordered' /\ Saying'
    BY <1>4, CallKeeps
  <2>2. u.conn \in {trans[p].conn, NoConn, Fresh} BY <1>4 DEF Fine, Ends, Leads
  <2>3. ASSUME (Type = "CFG_TCP")', NEW x \in Procs, NEW y \in Procs, x # y,
               life'[x] = "running", life'[y] = "running", trans'[x].conn # NoConn
        PROVE  trans'[x].conn # trans'[y].conn
    <3>1. life[x] = "running" /\ life[y] = "running" BY <1>4, <2>3
    <3>2. ASSUME NEW a \in Procs, NEW b \in Procs, a # b, life[a] = "running", life[b] = "running",
                 trans[a].conn # NoConn
          PROVE  trans[a].conn # trans[b].conn
      BY <1>4, <2>3, <3>2 DEF TransportInv, DistinctConnections, Type
    <3>3. CASE x = p BY <1>3, <2>1, <2>2, <2>3, <3>1, <3>2, <3>3
    <3>4. CASE y = p BY <1>3, <2>1, <2>2, <2>3, <3>1, <3>2, <3>4
    <3>5. CASE x # p /\ y # p BY <2>1, <2>3, <3>1, <3>2, <3>5
    <3> QED BY <3>3, <3>4, <3>5
  <2>4. DistinctConnections' BY <2>3 DEF DistinctConnections
  <2> QED BY <1>1, <1>4, <2>1, <2>4 DEF TransportInv
<1>5. ASSUME NEW p \in Procs, Connect(p) PROVE TransportInv'
  <2>1. PICK u \in ConnectWith(trans[p], FALSE) : trans' = [trans EXCEPT ![p] = u]
    BY <1>5 DEF Connect, transportConnect, Becomes
  <2>2. Fine(trans[p], u) BY <1>1, <1>2, ConnectFine
  <2> QED BY <1>4, <1>5, <2>1, <2>2 DEF Connect
<1>6. ASSUME NEW p \in Procs, Send(p) PROVE TransportInv'
  <2>1. PICK u \in transportSend(trans[p]) : trans' = [trans EXCEPT ![p] = u]
    BY <1>6 DEF Send, Becomes
  <2>2. Fine(trans[p], u) BY <1>1, <1>2, SendFine
  <2> QED BY <1>4, <1>6, <2>1, <2>2 DEF Send
<1>7. ASSUME NEW p \in Procs, Reset(p) PROVE TransportInv'
  <2>1. PICK u \in transportReconnect(trans[p]) : trans' = [trans EXCEPT ![p] = u]
    BY <1>7 DEF Reset, Becomes
  <2>2. Fine(trans[p], u) /\ (Type = "CFG_TCP" => u.conn \in {NoConn, Fresh})
    BY <1>1, <1>2, ReconnectFine
  <2>3. config' = config /\ life' = [life EXCEPT ![p] = "running"] BY <1>7 DEF Reset
  <2>4. /\ trans' = [q \in Procs |-> trans'[q]]
        /\ \A q \in Procs : trans'[q] = IF q = p THEN u ELSE trans[q]
        /\ Ordered' /\ Saying'
    BY <2>1, <2>2, <2>3, CallKeeps
  <2>5. ASSUME (Type = "CFG_TCP")', NEW x \in Procs, NEW y \in Procs, x # y,
               life'[x] = "running", life'[y] = "running", trans'[x].conn # NoConn
        PROVE  trans'[x].conn # trans'[y].conn
    <3>1. u.conn \in {NoConn, Fresh} BY <2>2, <2>3, <2>5 DEF Type
    <3>2. CASE x = p BY <1>3, <2>4, <2>5, <3>1, <3>2
    <3>3. CASE y = p BY <1>3, <2>4, <2>5, <3>1, <3>3
    <3>4. CASE x # p /\ y # p
      <4>1. life[x] = "running" /\ life[y] = "running" BY <1>1, <2>3, <2>5, <3>4
      <4>2. trans'[x] = trans[x] /\ trans'[y] = trans[y] BY <2>4, <3>4
      <4> QED BY <2>3, <2>5, <4>1, <4>2 DEF TransportInv, DistinctConnections, Type
    <3> QED BY <3>2, <3>3, <3>4
  <2>6. DistinctConnections' BY <2>5 DEF DistinctConnections
  <2>7. life' = [q \in Procs |-> life'[q]] BY <1>1, <2>3, Zenon
  <2> QED BY <1>1, <2>3, <2>4, <2>6, <2>7 DEF TransportInv
<1>8. ASSUME NEW p \in Procs, Resolve(p) PROVE TransportInv'
  <2>1. PICK v : v \in {"ok", "refused"} /\ trans' = [trans EXCEPT ![p].status = v]
    BY <1>8, Zenon DEF Resolve
  <2>2. PICK u : u = [trans[p] EXCEPT !.status = v] OBVIOUS
  <2>3. trans' = [trans EXCEPT ![p] = u] BY <2>1, <2>2, Zenon
  <2>4. UNCHANGED <<config, life>> BY <1>8 DEF Resolve
  <2>5. Shaped(trans[p]) BY <1>2
  <2>6. /\ Shaped(u) /\ u.conn = trans[p].conn /\ u.rc = trans[p].rc /\ u.sock = trans[p].sock
        /\ u.cut = trans[p].cut /\ u.torn = trans[p].torn
        /\ u.base = trans[p].base /\ u.limit = trans[p].limit /\ u.count = trans[p].count
        /\ u.due = trans[p].due /\ u.gap = trans[p].gap /\ u.early = trans[p].early
    BY <2>1, <2>2, <2>5, Zenon DEF Shaped, Fields
  <2>7. Quiet(trans[p], u) BY <2>6, Zenon DEF Quiet, Kept
  <2>8. Type # "CFG_UNIX" => Says(u) BY <2>6 DEF Says, TransportInv, Saying
  <2>9. Fine(trans[p], u) BY <1>1, <2>7, <2>8, QuietEnds, ConfigFacts DEF Fine
  <2>10. /\ trans' = [q \in Procs |-> trans'[q]]
         /\ \A q \in Procs : trans'[q] = IF q = p THEN u ELSE trans[q]
         /\ Ordered' /\ Saying'
    BY <2>3, <2>4, <2>9, CallKeeps
  <2>11. \A q \in Procs : trans'[q].conn = trans[q].conn BY <2>6, <2>10
  <2>12. DistinctConnections'
    BY <2>4, <2>11 DEF TransportInv, DistinctConnections, Type
  <2> QED BY <1>1, <2>4, <2>10, <2>12 DEF TransportInv
<1>9. ASSUME NEW p \in Procs, NEW q \in Procs, Fork(p, q) PROVE TransportInv'
  <2>1. /\ config' = config /\ life' = [life EXCEPT ![q] = "forked"]
        /\ trans' = [trans EXCEPT ![q] = trans[p]]
    BY <1>9 DEF Fork
  <2>2. \A x \in Procs : /\ trans'[x] = IF x = q THEN trans[p] ELSE trans[x]
                         /\ life'[x] = IF x = q THEN "forked" ELSE life[x]
    BY <1>1, <2>1
  <2>3. Type' = Type /\ Framed' = Framed /\ BackoffBaseMax' = BackoffBaseMax
    BY <2>1, Zenon DEF Type, Framed, Tls, Faults, BackoffBaseMax
  <2>4. ASSUME NEW x \in Procs
        PROVE  /\ Shaped(trans[x])' /\ Timed(trans[x])' /\ (Framed => Clean(trans[x])')
               /\ Type # "CFG_UNIX" => Says(trans[x])'
    <3>1. PICK y \in Procs : trans'[x] = trans[y] BY <2>2
    <3>2. /\ Shaped(trans[y]) /\ Timed(trans[y]) /\ (Framed => Clean(trans[y]))
          /\ Type # "CFG_UNIX" => Says(trans[y])
      BY DEF TransportInv, Ordered, Saying
    <3>3. Timed(trans[x])' BY <2>3, <3>1, <3>2, Zenon DEF Timed, Doubled
    <3> QED BY <3>1, <3>2, <3>3, Zenon DEF Shaped, Clean, Says, NoFd
  <2>5. Ordered' /\ Saying' BY <2>3, <2>4, Zenon DEF Ordered, Saying
  <2>6. DistinctConnections'
    <3> SUFFICES ASSUME Type = "CFG_TCP", NEW x \in Procs, NEW y \in Procs, x # y,
                        life'[x] = "running", life'[y] = "running", trans'[x].conn # NoConn
                 PROVE  trans'[x].conn # trans'[y].conn
      BY <2>3 DEF DistinctConnections
    <3>1. x # q /\ y # q BY <2>2
    <3>2. /\ trans'[x] = trans[x] /\ trans'[y] = trans[y]
          /\ life[x] = "running" /\ life[y] = "running"
      BY <2>2, <3>1
    <3> QED BY <3>2 DEF TransportInv, DistinctConnections
  <2>7. trans' = [x \in Procs |-> trans'[x]] /\ life' = [x \in Procs |-> life'[x]]
    BY <1>1, <2>1, Zenon
  <2> QED BY <1>1, <2>1, <2>5, <2>6, <2>7 DEF TransportInv
<1>10. ASSUME UNCHANGED <<config, trans, life>> PROVE TransportInv'
  <2>1. Type' = Type /\ Framed' = Framed /\ BackoffBaseMax' = BackoffBaseMax
    BY <1>10, Zenon DEF Type, Framed, Tls, Faults, BackoffBaseMax
  <2>2. Ordered' BY <1>10, <2>1, Zenon DEF TransportInv, Ordered, Shaped, Clean, Timed, Doubled
  <2>3. Saying' BY <1>10, <2>1, Zenon DEF TransportInv, Saying, Says, NoFd
  <2>4. DistinctConnections' BY <1>10, <2>1 DEF TransportInv, DistinctConnections
  <2> QED BY <1>10, <2>2, <2>3, <2>4 DEF TransportInv
<1>11. CASE PeerDown \/ PeerUp BY <1>10, <1>11 DEF PeerDown, PeerUp
<1>12. CASE UNCHANGED vars BY <1>10, <1>12 DEF vars
<1> QED BY <1>5, <1>6, <1>7, <1>8, <1>9, <1>11, <1>12 DEF Next, Step

\* Every state the program reaches satisfies the invariant.
THEOREM TransportInvariant == Spec => []TransportInv
<1>1. Init => TransportInv BY InitTransport
<1>2. TransportInv /\ [Next]_vars => TransportInv' BY NextTransport
<1> QED BY <1>1, <1>2, PTL DEF Spec

\* backoffAlgoAllowsConnect never lets an attempt through before its time: the
\* wait doubles with every failure in a row up to the limit, for any limit, any
\* start, and whatever calls of transportConnect, transportSend and
\* transportReconnect make the attempts and count the time.
THEOREM BackoffKeptAlways == Spec => []BackoffKept
<1>1. TransportInv => BackoffKept BY DEF TransportInv, Ordered, Timed, BackoffKept
<1> QED BY <1>1, TransportInvariant, PTL

\* Over TLS, UDP and a file, and over everything when no call fails, nothing is
\* sent after a message that was cut short: each path of transportSend that
\* leaves a message unfinished gives the connection up.
THEOREM FramingIntactAlways == Spec => []FramingIntact
<1>1. TransportInv => FramingIntact
  BY DEF TransportInv, Ordered, Framed, Clean, FramingIntact
<1> QED BY <1>1, TransportInvariant, PTL

\* However many processes fork from one another, two that have done doReset
\* never use the same TCP connection.
THEOREM DistinctConnectionsAlways == Spec => []DistinctConnections
<1>1. TransportInv => DistinctConnections BY DEF TransportInv
<1> QED BY <1>1, TransportInvariant, PTL

\* Without a UNIX transport, whose placement is not looked at, transportConnect
\* says that it is connected only when it has a descriptor, and no later call
\* takes the descriptor and leaves that answer standing.
THEOREM ConnectedUnlessUnix ==
    ASSUME \A c \in Configs : c.type # "CFG_UNIX"
    PROVE  Spec => []ConnectedWhenItSaysSo
<1>1. TransportInv => ConnectedWhenItSaysSo
  BY DEF TransportInv, Saying, Says, Type, ConnectedWhenItSaysSo
<1> QED BY <1>1, TransportInvariant, PTL
=============================================================================
