------------------------------ MODULE IpcProofs ------------------------------
(***************************************************************************)
(* Proofs about Ipc, for any number of clients, any sizes of requests,     *)
(* responses and queues, and any metadata of undisciplined clients.        *)
(***************************************************************************)
EXTENDS Ipc, TLAPS

(***************************************************************************)
(* The inductive invariant.  How much of a request the server has taken    *)
(* out of its queue says whether it can still be put together, and so      *)
(* whether there is, or will be, a whole response.                         *)
(***************************************************************************)

\* The queue of a client holds what it has sent and the server has not taken.
RequestInOrder(c) ==
    /\ Len(inQ[c]) <= cli[c].sent /\ cli[c].sent <= ReqFrames[c]
    /\ cli[c].at \in {"new", "half"} => cli[c].sent = 0
    /\ cli[c].at = "send" => cli[c].sent < ReqFrames[c]
    /\ cli[c].at \in {"new", "half", "send", "verify", "recv"} => cli[c].result = "none"
    /\ \A i \in 1 .. Len(inQ[c]) :
          /\ inQ[c][i].of = c /\ inQ[c][i].uniq \in {c, NoUniq}
          /\ inQ[c][i].k = cli[c].sent - Len(inQ[c]) + i

\* What the server has put together came out of the queue it has open.
MessageIsTaken ==
    /\ srv.at # "idle" => srv.in \in Clients
    /\ srv.at \in {"idle", "openOut"} => srv.msg = <<>> /\ srv.uniq = NoUniq /\ srv.k = 0
    /\ srv.at \in {"recv", "answer", "refuse"} => srv.out \in Clients
    /\ srv.at = "answer" => srv.msg # <<>>
    /\ srv.uniq \in {srv.in, NoUniq} /\ srv.status # "206"
    /\ \A i \in 1 .. Len(srv.msg) :
          /\ srv.msg[i].of = srv.in
          /\ srv.msg[i].k <= cli[srv.in].sent - Len(inQ[srv.in])
    /\ srv.k # 0 =>
          /\ srv.at = "answer" /\ Whole(srv.msg) /\ srv.in \in executed /\ srv.k < RespFrames

\* Only a whole response has partial frames.
WellFormed(f) ==
    /\ f.status = "206" => f.whole /\ f.k < RespFrames
    /\ f.whole /\ f.status # "206" => f.k = RespFrames

\* A client keeps frames with its own identifier, in order, up to the first
\* that is not partial.
CollectedInOrder(c) ==
    /\ \A i \in 1 .. Len(cli[c].got) :
          /\ cli[c].got[i].uniq = c /\ WellFormed(cli[c].got[i])
          /\ cli[c].got[i].whole => cli[c].got[i].k = i
          /\ ~cli[c].got[i].whole => Len(cli[c].got) = 1
          /\ i < Len(cli[c].got) \/ cli[c].result # "ok" => cli[c].got[i].status = "206"
    /\ cli[c].result = "ok" => /\ cli[c].got # <<>>
                               /\ cli[c].got[Len(cli[c].got)].status # "206"

\* Frame i of a queue will be reached: those before it are partial ones of c.
Reached(c, i) ==
    \A j \in 1 .. i - 1 : outQ[c][j].uniq = c /\ outQ[c][j].status = "206"

\* A frame that its client will reach is the next one of the response.
QueuedInOrder(c) ==
    \A i \in 1 .. Len(outQ[c]) :
        /\ WellFormed(outQ[c][i])
        /\ cli[c].result = "none" /\ Reached(c, i) /\ outQ[c][i].uniq = c =>
              /\ outQ[c][i].whole => outQ[c][i].k = Len(cli[c].got) + i
              /\ ~outQ[c][i].whole => Len(cli[c].got) + i = 1

\* A client has, or may read, a frame of a whole response to it.
HasWhole(c) ==
    \/ \E i \in 1 .. Len(cli[c].got) : cli[c].got[i].whole
    \/ \E i \in 1 .. Len(outQ[c]) : outQ[c][i].whole /\ outQ[c][i].uniq = c

\* Such a response was made once, from all the frames of the request.
WholeIsOnce(c) ==
    HasWhole(c) =>
        /\ c \in executed
        /\ cli[c].sent = ReqFrames[c] /\ inQ[c] = <<>>
        /\ srv.in = c => srv.at = "answer" /\ srv.k # 0

\* The answer being sent goes on where the client's frames end.
AnswerInOrder(c) ==
    /\ srv.k # 0 /\ srv.in = c /\ srv.uniq = c /\ srv.out = c
    /\ cli[c].result = "none" /\ Reached(c, Len(outQ[c]) + 1)
    => srv.k = Len(cli[c].got) + Len(outQ[c])

\* What holds of every client.
ClientInv(c) ==
    /\ RequestInOrder(c) /\ CollectedInOrder(c) /\ QueuedInOrder(c)
    /\ WholeIsOnce(c) /\ AnswerInOrder(c)

IpcInv == TypeOK /\ MessageIsTaken /\ \A c \in Clients : ClientInv(c)

----------------------------------------------------------------------------
(* Sequences.                                                              *)

\* What taking the first frame of a queue leaves.
LEMMA TailFacts ==
    ASSUME NEW S, NEW s \in Seq(S), s # <<>>
    PROVE  /\ Len(s) \in Nat \ {0} /\ Head(s) = s[1] /\ s[1] \in S
           /\ Tail(s) \in Seq(S) /\ Len(Tail(s)) = Len(s) - 1
           /\ \A i \in 1 .. Len(s) - 1 : Tail(s)[i] = s[i + 1]
OBVIOUS

\* What adding a frame to a queue makes of it.
LEMMA AppendFacts ==
    ASSUME NEW S, NEW s \in Seq(S), NEW e \in S
    PROVE  /\ Len(s) \in Nat
           /\ Append(s, e) \in Seq(S) /\ Len(Append(s, e)) = Len(s) + 1
           /\ \A i \in 1 .. Len(s) : Append(s, e)[i] = s[i]
           /\ Append(s, e)[Len(s) + 1] = e
OBVIOUS

\* The frames of a sequence are of its type.
LEMMA ElementFacts ==
    ASSUME NEW S, NEW s \in Seq(S)
    PROVE  /\ Len(s) \in Nat /\ DOMAIN s = 1 .. Len(s)
           /\ \A i \in 1 .. Len(s) : s[i] \in S
           /\ s = <<>> <=> Len(s) = 0
OBVIOUS

----------------------------------------------------------------------------
(* Types.                                                                  *)

\* What a client may send, disciplined or not, is a frame of its request with
\* its number, and with its identifier or one that nobody has.
LEMMA MetaFacts ==
    ASSUME NEW c \in Clients, NEW k \in Nat \ {0}, k <= ReqFrames[c], NEW f \in Meta(c, k)
    PROVE  /\ f \in ReqFrame /\ f.of = c /\ f.k = k /\ f.uniq \in {c, NoUniq}
           /\ f.last = (k = ReqFrames[c])
<1>1. /\ ReqFrames[c] \in Nat \ {0} /\ ReqFrames[c] - k + 1 \in Nat /\ 0 \in Nat /\ 1 \in Nat
      /\ "REQ_PARSE_OK" \in ParseStatuses /\ "REQ_PARSE_UNIQ_ERROR" \in ParseStatuses
  BY IpcAssumption DEF ParseStatuses
<1>2. PICK u \in {c, NoUniq}, r \in Nat, p \in ParseStatuses : f = Frame(c, k, u, r, p)
  <2>1. PICK remain \in Nat : remain = ReqFrames[c] - k + 1 BY <1>1
  <2>2. CASE c \in Disciplined
    <3>1. f = Frame(c, k, c, remain, "REQ_PARSE_OK") BY <2>1, <2>2 DEF Meta
    <3> QED BY <1>1, <3>1, Zenon
  <2>3. CASE c \notin Disciplined
    <3>1. \/ f \in {Frame(c, k, v, s, "REQ_PARSE_OK") : v \in {c, NoUniq}, s \in {1, remain}}
          \/ f \in {Frame(c, k, v, 0, q) :
                  v \in {c, NoUniq}, q \in ParseStatuses \ {"REQ_PARSE_OK", "REQ_PARSE_UNIQ_ERROR"}}
          \/ f \in {Frame(c, k, NoUniq, 0, "REQ_PARSE_UNIQ_ERROR")}
      BY <2>1, <2>3 DEF Meta
    <3>2. \/ \E v \in {c, NoUniq}, s \in {1, remain} : f = Frame(c, k, v, s, "REQ_PARSE_OK")
          \/ \E v \in {c, NoUniq}, q \in ParseStatuses : f = Frame(c, k, v, 0, q)
          \/ f = Frame(c, k, NoUniq, 0, "REQ_PARSE_UNIQ_ERROR")
      BY <3>1, SMT
    <3> QED BY <1>1, <3>2, Zenon
  <2> QED BY <2>2, <2>3
<1>3. PICK l \in BOOLEAN : l = (k = ReqFrames[c]) OBVIOUS
<1>4. f = [of |-> c, k |-> k, last |-> l, uniq |-> u, remain |-> r, parse |-> p]
  BY <1>2, <1>3, Zenon DEF Frame
<1>5. f \in ReqFrame BY <1>4 DEF ReqFrame
<1> QED BY <1>3, <1>4, <1>5

----------------------------------------------------------------------------
(* The inductive invariant.                                                *)

LEMMA InitEstablishesIpcInv == Init => IpcInv
<1> SUFFICES ASSUME Init PROVE IpcInv OBVIOUS
<1> USE IpcAssumption
<1>1. \A c \in Clients : /\ cli[c].at = "new" /\ cli[c].sent = 0 /\ cli[c].got = <<>>
                         /\ cli[c].result = "none" /\ inQ[c] = <<>> /\ outQ[c] = <<>>
  BY DEF Init
<1>2. \A S : <<>> \in Seq(S) /\ Len(<<>>) = 0 OBVIOUS
<1>3. TypeOK
  <2>1. [at |-> "new", sent |-> 0, got |-> <<>>, result |-> "none"] \in ClientState
    BY DEF ClientState
  <2>2. cli \in [Clients -> ClientState] BY <2>1 DEF Init
  <2>3. srv \in ServerState BY DEF Init, ServerState, Statuses, NoUniq
  <2>4. inQ \in [Clients -> Seq(ReqFrame)] /\ outQ \in [Clients -> Seq(RespFrame)]
    BY <1>2 DEF Init
  <2>5. \A c \in Clients : Len(inQ[c]) <= MqMaxMsg /\ Len(outQ[c]) <= MqMaxMsg
    <3>1. Len(<<>>) <= MqMaxMsg OBVIOUS
    <3> QED BY <1>1, <3>1
  <2> QED BY <2>2, <2>3, <2>4, <2>5, Zenon DEF Init, TypeOK
<1>4. MessageIsTaken BY DEF Init, MessageIsTaken, NoUniq
<1>5. ASSUME NEW c \in Clients PROVE ClientInv(c)
  <2>1. /\ cli[c].at = "new" /\ cli[c].sent = 0 /\ Len(cli[c].got) = 0
        /\ cli[c].result = "none" /\ Len(inQ[c]) = 0 /\ Len(outQ[c]) = 0 /\ srv.k = 0
    BY <1>1, <1>2 DEF Init
  <2>2. RequestInOrder(c) BY <2>1 DEF RequestInOrder
  <2>3. CollectedInOrder(c) BY <2>1 DEF CollectedInOrder
  <2>4. QueuedInOrder(c) BY <2>1 DEF QueuedInOrder
  <2>5. WholeIsOnce(c) BY <2>1 DEF WholeIsOnce, HasWhole
  <2>6. AnswerInOrder(c) BY <2>1 DEF AnswerInOrder
  <2> QED BY <2>2, <2>3, <2>4, <2>5, <2>6 DEF ClientInv
<1> QED BY <1>3, <1>4, <1>5 DEF IpcInv

\* What holds of a client goes on holding when nothing about it changes, or
\* only its step, or it gives up.
LEMMA ClientKept ==
    ASSUME NEW c \in Clients, TypeOK, ClientInv(c),
           cli'[c].sent = cli[c].sent, cli'[c].got = cli[c].got,
           cli'[c].result = cli[c].result \/ (cli[c].result = "none" /\ cli'[c].result = "failed"),
           cli'[c].at \in {"new", "half", "send", "verify", "recv"} => cli'[c].result = "none",
           cli'[c].at \in {"new", "half"} => cli[c].at \in {"new", "half"},
           cli'[c].at = "send" => cli[c].at \in {"half", "send"},
           inQ'[c] = inQ[c], outQ'[c] = outQ[c],
           executed \subseteq executed',
           UNCHANGED srv \/ srv'.in # c \/ (~HasWhole(c) /\ srv'.k = 0)
    PROVE  ClientInv(c)'
<1> USE IpcAssumption
<1>1. RequestInOrder(c)'
  <2>1. ReqFrames[c] > 0 OBVIOUS
  <2> QED BY <2>1 DEF ClientInv, RequestInOrder
<1>2. CollectedInOrder(c)' BY DEF ClientInv, CollectedInOrder, WellFormed
<1>3. QueuedInOrder(c)'
  <2>1. \A i \in 1 .. Len(outQ[c]) : Reached(c, i)' <=> Reached(c, i) BY DEF Reached
  <2>2. cli'[c].result = "none" => cli[c].result = "none" OBVIOUS
  <2> QED BY <2>1, <2>2 DEF ClientInv, QueuedInOrder, WellFormed
<1>4. HasWhole(c)' <=> HasWhole(c) BY DEF HasWhole
<1>5. WholeIsOnce(c)' BY <1>4 DEF ClientInv, WholeIsOnce
<1>6. AnswerInOrder(c)' BY DEF ClientInv, AnswerInOrder, Reached
<1> QED BY <1>1, <1>2, <1>3, <1>5, <1>6 DEF ClientInv

\* What the server has is not disturbed by a client that gives up, or moves on
\* without touching its queues, or has sent more.
LEMMA ServerKept ==
    ASSUME TypeOK, MessageIsTaken, UNCHANGED srv, executed \subseteq executed',
           \A c \in Clients : /\ cli'[c].sent \in Nat /\ Len(inQ'[c]) \in Nat
                              /\ cli[c].sent - Len(inQ[c]) = cli'[c].sent - Len(inQ'[c])
    PROVE  MessageIsTaken'
<1>1. srv.in \in Clients \/ Len(srv.msg) = 0
  BY DEF TypeOK, MessageIsTaken, ServerState
<1> QED BY <1>1 DEF MessageIsTaken, Whole

\* What an update of the state of a client makes of it.
ClientUpdate(x, y, c, at, sent, got, result) ==
    /\ y \in [Clients -> ClientState]
    /\ \A d \in Clients : d # c => y[d] = x[d]
    /\ y[c].at = at /\ y[c].sent = sent /\ y[c].got = got /\ y[c].result = result

\* The state of one client is replaced.
LEMMA ClientSet ==
    ASSUME NEW x \in [Clients -> ClientState], NEW c \in Clients, NEW n \in ClientState,
           NEW y, y = [x EXCEPT ![c] = n]
    PROVE  ClientUpdate(x, y, c, n.at, n.sent, n.got, n.result)
BY DEF ClientUpdate

\* The forms in which the actions of a client update its state.
LEMMA ClientUpdates ==
    ASSUME NEW x \in [Clients -> ClientState], NEW c \in Clients, NEW y,
           NEW step \in {"half", "send", "verify", "recv", "close", "unlinkOut", "gone"},
           NEW sent \in Nat, NEW got \in Seq(RespFrame), NEW res \in {"none", "ok", "failed"}
    PROVE  /\ y = [x EXCEPT ![c].at = step] =>
                 ClientUpdate(x, y, c, step, x[c].sent, x[c].got, x[c].result)
           /\ y = [x EXCEPT ![c].at = step, ![c].result = res] =>
                 ClientUpdate(x, y, c, step, x[c].sent, x[c].got, res)
           /\ y = [x EXCEPT ![c].sent = sent, ![c].at = step] =>
                 ClientUpdate(x, y, c, step, sent, x[c].got, x[c].result)
           /\ y = [x EXCEPT ![c].got = got, ![c].at = step, ![c].result = res] =>
                 ClientUpdate(x, y, c, step, x[c].sent, got, res)
<1>1. PICK r : r \in ClientState /\ r = x[c] OBVIOUS
<1>2. ASSUME y = [x EXCEPT ![c].at = step]
      PROVE  ClientUpdate(x, y, c, step, x[c].sent, x[c].got, x[c].result)
  <2>1. PICK n : n = [r EXCEPT !.at = step] OBVIOUS
  <2>2. y = [x EXCEPT ![c] = n] BY <1>1, <1>2, <2>1, Zenon
  <2>3. n \in ClientState /\ n.at = step /\ n.sent = r.sent /\ n.got = r.got /\ n.result = r.result
    BY <1>1, <2>1 DEF ClientState
  <2> QED BY <1>1, <2>2, <2>3, ClientSet, Zenon
<1>3. ASSUME y = [x EXCEPT ![c].at = step, ![c].result = res]
      PROVE  ClientUpdate(x, y, c, step, x[c].sent, x[c].got, res)
  <2>1. PICK m : m = [r EXCEPT !.at = step] OBVIOUS
  <2>2. PICK n : n = [m EXCEPT !.result = res] OBVIOUS
  <2>3. y = [x EXCEPT ![c] = n] BY <1>1, <1>3, <2>1, <2>2, Zenon
  <2>4. n \in ClientState /\ n.at = step /\ n.sent = r.sent /\ n.got = r.got /\ n.result = res
    BY <1>1, <2>1, <2>2 DEF ClientState
  <2> QED BY <1>1, <2>3, <2>4, ClientSet, Zenon
<1>4. ASSUME y = [x EXCEPT ![c].sent = sent, ![c].at = step]
      PROVE  ClientUpdate(x, y, c, step, sent, x[c].got, x[c].result)
  <2>1. PICK m : m = [r EXCEPT !.sent = sent] OBVIOUS
  <2>2. PICK n : n = [m EXCEPT !.at = step] OBVIOUS
  <2>3. y = [x EXCEPT ![c] = n] BY <1>1, <1>4, <2>1, <2>2, Zenon
  <2>4. n \in ClientState /\ n.at = step /\ n.sent = sent /\ n.got = r.got /\ n.result = r.result
    BY <1>1, <2>1, <2>2 DEF ClientState
  <2> QED BY <1>1, <2>3, <2>4, ClientSet, Zenon
<1>5. ASSUME y = [x EXCEPT ![c].got = got, ![c].at = step, ![c].result = res]
      PROVE  ClientUpdate(x, y, c, step, x[c].sent, got, res)
  <2>1. PICK l : l = [r EXCEPT !.got = got] OBVIOUS
  <2>2. PICK m : m = [l EXCEPT !.at = step] OBVIOUS
  <2>3. PICK n : n = [m EXCEPT !.result = res] OBVIOUS
  <2>4. y = [x EXCEPT ![c] = n] BY <1>1, <1>5, <2>1, <2>2, <2>3, Zenon
  <2>5. n \in ClientState /\ n.at = step /\ n.sent = r.sent /\ n.got = got /\ n.result = res
    BY <1>1, <2>1, <2>2, <2>3, ZenonT(40) DEF ClientState
  <2> QED BY <1>1, <2>4, <2>5, ClientSet, Zenon
<1> QED BY <1>2, <1>3, <1>4, <1>5, Zenon

\* A step of a client that leaves the queues alone.
LEMMA ClientMoves ==
    ASSUME IpcInv, NEW c \in Clients,
           NEW step \in {"half", "send", "verify", "recv", "close", "unlinkOut", "gone"},
           NEW res \in {"none", "ok", "failed"},
           ClientUpdate(cli, cli', c, step, cli[c].sent, cli[c].got, res),
           res = cli[c].result \/ (res = "failed" /\ cli[c].result = "none"),
           step \in {"half", "send", "verify", "recv"} => res = "none",
           step = "half" => cli[c].at = "new",
           step = "send" => cli[c].at = "half",
           nameIn' \in Clients \cup {None}, nameOut' \in Clients \cup {None},
           UNCHANGED <<inQ, outQ, srvVars>>
    PROVE  IpcInv'
<1>1. cli \in [Clients -> ClientState] BY DEF IpcInv, TypeOK
<1>2. /\ cli' \in [Clients -> ClientState]
      /\ \A d \in Clients : d # c => cli'[d] = cli[d]
      /\ cli'[c].sent = cli[c].sent /\ cli'[c].got = cli[c].got
      /\ cli'[c].at = step /\ cli'[c].result = res
  BY DEF ClientUpdate
<1>3. TypeOK' BY <1>2 DEF IpcInv, TypeOK, srvVars
<1>4. MessageIsTaken'
  <2>1. \A d \in Clients : cli[d].sent \in Nat /\ Len(inQ[d]) \in Nat
    BY ElementFacts, <1>1 DEF IpcInv, TypeOK, ClientState
  <2>2. \A d \in Clients : cli'[d].sent = cli[d].sent /\ inQ'[d] = inQ[d] BY <1>2
  <2> QED BY <2>1, <2>2, ServerKept DEF IpcInv, srvVars
<1>5. ASSUME NEW d \in Clients PROVE ClientInv(d)'
  <2>1. CASE d # c BY <1>2, <2>1, ClientKept DEF IpcInv, srvVars, ClientInv, RequestInOrder
  <2>2. CASE d = c BY <1>2, <2>2, ClientKept DEF IpcInv, srvVars
  <2> QED BY <2>1, <2>2
<1> QED BY <1>3, <1>4, <1>5 DEF IpcInv

\* A client that gives up for lack of an answer, or of a queue.
LEMMA FailKeeps ==
    ASSUME IpcInv, NEW c \in Clients, NEW step \in {"close", "gone"}, Fail(c, step),
           cli[c].at \in {"new", "half", "send", "verify", "recv"},
           nameIn' \in Clients \cup {None}, nameOut' \in Clients \cup {None},
           UNCHANGED <<inQ, outQ, srvVars>>
    PROVE  IpcInv'
<1>1. cli \in [Clients -> ClientState] BY DEF IpcInv, TypeOK
<1>2. /\ 0 \in Nat /\ cli[c].got \in Seq(RespFrame)
      /\ "failed" \in {"none", "ok", "failed"}
      /\ step \in {"half", "send", "verify", "recv", "close", "unlinkOut", "gone"}
  BY <1>1 DEF ClientState
<1>3. cli[c].result = "none" BY DEF IpcInv, ClientInv, RequestInOrder
<1>4. ClientUpdate(cli, cli', c, step, cli[c].sent, cli[c].got, "failed")
  BY <1>1, <1>2, ClientUpdates, Zenon DEF Fail
<1> HIDE DEF Fail
<1> QED BY <1>2, <1>3, <1>4, ClientMoves

\* A client that moves on.
LEMMA MoveKeeps ==
    ASSUME IpcInv, NEW c \in Clients,
           NEW step \in {"half", "send", "recv", "unlinkOut", "gone"},
           cli' = [cli EXCEPT ![c].at = step],
           \/ step = "half" /\ cli[c].at = "new"
           \/ step = "send" /\ cli[c].at = "half"
           \/ step = "recv" /\ cli[c].at = "verify"
           \/ step \in {"unlinkOut", "gone"},
           nameIn' \in Clients \cup {None}, nameOut' \in Clients \cup {None},
           UNCHANGED <<inQ, outQ, srvVars>>
    PROVE  IpcInv'
<1>1. cli \in [Clients -> ClientState] BY DEF IpcInv, TypeOK
<1>2. /\ 0 \in Nat /\ cli[c].got \in Seq(RespFrame) /\ cli[c].result \in {"none", "ok", "failed"}
      /\ step \in {"half", "send", "verify", "recv", "close", "unlinkOut", "gone"}
  BY <1>1 DEF ClientState
<1>3. step \in {"half", "send", "recv"} => cli[c].result = "none" BY DEF IpcInv, ClientInv, RequestInOrder
<1>4. ClientUpdate(cli, cli', c, step, cli[c].sent, cli[c].got, cli[c].result)
  BY <1>1, <1>2, ClientUpdates, Zenon
<1> QED BY <1>2, <1>3, <1>4, ClientMoves

\* The names of the queues lead to clients, or nowhere.
LEMMA NamesTyped ==
    ASSUME IpcInv
    PROVE  nameIn \in Clients \cup {None} /\ nameOut \in Clients \cup {None}
BY DEF IpcInv, TypeOK

\* The steps of a client that do not touch the queues.
LEMMA NamingKeepsIpcInv ==
    ASSUME IpcInv, NEW c \in Clients,
           newMsgQWriter(c) \/ newMsgQReader(c) \/ verifySendingMsg(c) \/ destroyIPC(c)
    PROVE  IpcInv'
<1>1. CASE newMsgQWriter(c)
  <2>1. CASE nameIn = None /\ nameIn' = c /\ cli' = [cli EXCEPT ![c].at = "half"]
    BY <1>1, <2>1, NamesTyped, MoveKeeps DEF newMsgQWriter
  <2>2. CASE nameIn # None /\ Fail(c, "gone") /\ UNCHANGED nameIn
    BY <1>1, <2>2, NamesTyped, FailKeeps DEF newMsgQWriter
  <2> QED BY <1>1, <2>1, <2>2 DEF newMsgQWriter
<1>2. CASE newMsgQReader(c)
  <2>1. CASE nameOut = None /\ nameOut' = c /\ cli' = [cli EXCEPT ![c].at = "send"] /\ UNCHANGED nameIn
    BY <1>2, <2>1, NamesTyped, MoveKeeps DEF newMsgQReader
  <2>2. CASE nameOut # None /\ Fail(c, "gone") /\ nameIn' = None /\ UNCHANGED nameOut
    BY <1>2, <2>2, NamesTyped, FailKeeps DEF newMsgQReader
  <2> QED BY <1>2, <2>1, <2>2 DEF newMsgQReader
<1>3. CASE verifySendingMsg(c)
  <2>1. CASE cli' = [cli EXCEPT ![c].at = "recv"]
    BY <1>3, <2>1, NamesTyped, MoveKeeps DEF verifySendingMsg
  <2>2. CASE Fail(c, "close")
    BY <1>3, <2>2, NamesTyped, FailKeeps DEF verifySendingMsg
  <2> QED BY <1>3, <2>1, <2>2 DEF verifySendingMsg
<1>4. CASE destroyIPC(c)
  <2>1. CASE cli' = [cli EXCEPT ![c].at = "unlinkOut"] /\ nameIn' = None /\ UNCHANGED nameOut
    BY <1>4, <2>1, NamesTyped, MoveKeeps DEF destroyIPC
  <2>2. CASE cli' = [cli EXCEPT ![c].at = "gone"] /\ nameOut' = None /\ UNCHANGED nameIn
    BY <1>4, <2>2, NamesTyped, MoveKeeps DEF destroyIPC
  <2> QED BY <1>4, <2>1, <2>2 DEF destroyIPC
<1> QED BY <1>1, <1>2, <1>3, <1>4

\* A frame of the request is sent.
LEMMA SendKeepsIpcInv ==
    ASSUME IpcInv, NEW c \in Clients, sendIpcRequest(c)
    PROVE  IpcInv'
<1>1. CASE Len(inQ[c]) = MqMaxMsg /\ Fail(c, "close") /\ UNCHANGED inQ
  BY <1>1, NamesTyped, FailKeeps DEF sendIpcRequest
<1>2. CASE /\ Len(inQ[c]) < MqMaxMsg
           /\ \E f \in Meta(c, cli[c].sent + 1) : inQ' = [inQ EXCEPT ![c] = Append(@, f)]
           /\ cli' = [cli EXCEPT ![c].sent = @ + 1,
                                 ![c].at = IF cli[c].sent + 1 = ReqFrames[c] THEN "verify" ELSE "send"]
  <2>1. /\ cli \in [Clients -> ClientState] /\ inQ \in [Clients -> Seq(ReqFrame)]
        /\ outQ \in [Clients -> Seq(RespFrame)]
    BY DEF IpcInv, TypeOK
  <2>2. /\ cli[c].sent \in Nat /\ cli[c].sent < ReqFrames[c] /\ ReqFrames[c] \in Nat
        /\ cli[c].at = "send" /\ cli[c].result = "none"
    BY <2>1, IpcAssumption DEF IpcInv, ClientInv, RequestInOrder, ClientState, sendIpcRequest
  <2>3. PICK n \in Nat \ {0} : n = cli[c].sent + 1 /\ n <= ReqFrames[c] BY <2>2
  <2>4. PICK f \in Meta(c, n) : inQ' = [inQ EXCEPT ![c] = Append(@, f)] BY <1>2, <2>3
  <2>5. f \in ReqFrame /\ f.of = c /\ f.k = n /\ f.uniq \in {c, NoUniq} BY <2>3, MetaFacts
  <2>6. PICK step \in {"verify", "send"} : step = IF n = ReqFrames[c] THEN "verify" ELSE "send"
    OBVIOUS
  <2>7. ClientUpdate(cli, cli', c, step, n, cli[c].got, cli[c].result)
    <3>1. cli' = [cli EXCEPT ![c].sent = n, ![c].at = step] BY <1>2, <2>3, <2>6, Zenon
    <3>2. /\ step \in {"half", "send", "verify", "recv", "close", "unlinkOut", "gone"}
          /\ n \in Nat /\ cli[c].got \in Seq(RespFrame) /\ cli[c].result \in {"none", "ok", "failed"}
      BY <2>1 DEF ClientState
    <3> QED BY <2>1, <3>1, <3>2, ClientUpdates, ZenonT(40)
  <2>8. /\ inQ' \in [Clients -> Seq(ReqFrame)] /\ inQ'[c] = Append(inQ[c], f)
        /\ \A d \in Clients : d # c => inQ'[d] = inQ[d]
    BY <2>1, <2>4, <2>5
  <2>9. /\ Len(inQ[c]) \in Nat /\ Len(inQ'[c]) = Len(inQ[c]) + 1
        /\ \A i \in 1 .. Len(inQ[c]) : inQ'[c][i] = inQ[c][i]
        /\ inQ'[c][Len(inQ[c]) + 1] = f
    BY <2>1, <2>5, <2>8, AppendFacts
  <2>10. UNCHANGED <<nameIn, nameOut, outQ, srv, executed, unreachable>>
    BY DEF sendIpcRequest, srvVars
  <2>11. TypeOK'
    <3>1. \A d \in Clients : Len(inQ'[d]) <= MqMaxMsg
      BY <1>2, <2>8, <2>9, IpcAssumption DEF IpcInv, TypeOK
    <3> QED BY <2>7, <2>8, <2>10, <3>1 DEF IpcInv, TypeOK, ClientUpdate
  <2>12. MessageIsTaken'
    <3>1. \A d \in Clients : /\ cli'[d].sent \in Nat /\ Len(inQ'[d]) \in Nat
                             /\ cli[d].sent - Len(inQ[d]) = cli'[d].sent - Len(inQ'[d])
      <4> SUFFICES ASSUME NEW d \in Clients
                   PROVE  /\ cli'[d].sent \in Nat /\ Len(inQ'[d]) \in Nat
                          /\ cli[d].sent - Len(inQ[d]) = cli'[d].sent - Len(inQ'[d])
        OBVIOUS
      <4>1. CASE d = c
        <5>1. cli'[c].sent = n BY <2>7 DEF ClientUpdate
        <5>2. Len(inQ[c]) \in Nat /\ Len(inQ'[c]) = Len(inQ[c]) + 1 BY <2>9
        <5>3. Len(inQ'[c]) \in Nat BY <5>2
        <5>4. cli'[c].sent = cli[c].sent + 1 /\ cli'[c].sent \in Nat BY <2>2, <2>3, <5>1
        <5>5. cli[c].sent - Len(inQ[c]) = cli'[c].sent - Len(inQ'[c]) BY <2>2, <5>2, <5>4
        <5> QED BY <4>1, <5>3, <5>4, <5>5
      <4>2. CASE d # c
        <5>1. cli'[d] = cli[d] /\ inQ'[d] = inQ[d] BY <2>7, <2>8, <4>2 DEF ClientUpdate
        <5>2. cli[d].sent \in Nat /\ Len(inQ[d]) \in Nat BY <2>1, ElementFacts DEF ClientState
        <5> QED BY <5>1, <5>2
      <4> QED BY <4>1, <4>2
    <3> QED BY <2>10, <3>1, ServerKept DEF IpcInv
  <2>13. ASSUME NEW d \in Clients PROVE ClientInv(d)'
    <3>1. CASE d # c
      <4>1. cli'[d] = cli[d] /\ inQ'[d] = inQ[d] BY <2>7, <2>8, <3>1 DEF ClientUpdate
      <4> QED BY <2>10, <4>1, ClientKept DEF IpcInv, ClientInv, RequestInOrder
    <3>2. CASE d = c
      <4>1. ClientInv(c) BY DEF IpcInv
      <4>2. /\ cli'[c].at = step /\ cli'[c].sent = n /\ cli'[c].got = cli[c].got
            /\ cli'[c].result = "none"
        BY <2>2, <2>7 DEF ClientUpdate
      <4>3. RequestInOrder(c)'
        <5>1. /\ Len(inQ[c]) <= cli[c].sent
              /\ \A i \in 1 .. Len(inQ[c]) :
                    /\ inQ[c][i].of = c /\ inQ[c][i].uniq \in {c, NoUniq}
                    /\ inQ[c][i].k = cli[c].sent - Len(inQ[c]) + i
          BY <4>1 DEF ClientInv, RequestInOrder
        <5>2. ASSUME NEW i \in 1 .. Len(inQ'[c])
              PROVE  /\ inQ'[c][i].of = c /\ inQ'[c][i].uniq \in {c, NoUniq}
                     /\ inQ'[c][i].k = n - Len(inQ'[c]) + i
          <6>1. CASE i = Len(inQ[c]) + 1 BY <2>1, <2>3, <2>5, <2>8, <2>9, <6>1, SMTT(30)
          <6>2. CASE i \in 1 .. Len(inQ[c]) BY <2>1, <2>2, <2>3, <2>8, <2>9, <5>1, <6>2, SMTT(30)
          <6> QED BY <2>9, <6>1, <6>2
        <5>3. Len(inQ'[c]) <= n BY <2>2, <2>3, <2>9, <5>1
        <5> QED BY <2>2, <2>3, <2>6, <4>2, <5>2, <5>3 DEF RequestInOrder
      <4>4. CollectedInOrder(c)' BY <2>2, <4>1, <4>2 DEF ClientInv, CollectedInOrder, WellFormed
      <4>5. QueuedInOrder(c)' BY <2>2, <2>10, <4>1, <4>2 DEF ClientInv, QueuedInOrder, WellFormed, Reached
      <4>6. WholeIsOnce(c)' BY <2>2, <2>10, <4>1, <4>2 DEF ClientInv, WholeIsOnce, HasWhole
      <4>7. AnswerInOrder(c)' BY <2>2, <2>10, <4>1, <4>2 DEF ClientInv, AnswerInOrder, Reached
      <4> QED BY <3>2, <4>3, <4>4, <4>5, <4>6, <4>7 DEF ClientInv
    <3> QED BY <3>1, <3>2
  <2> QED BY <2>11, <2>12, <2>13 DEF IpcInv
<1> QED BY <1>1, <1>2 DEF sendIpcRequest

\* A client takes a frame out of its response queue, and keeps it or gives up.
LEMMA ReceiveKeepsIpcInv ==
    ASSUME IpcInv, NEW c \in Clients, receiveIpcResponse(c)
    PROVE  IpcInv'
<1>1. CASE outQ[c] = <<>> /\ Fail(c, "close") /\ UNCHANGED outQ
  BY <1>1, NamesTyped, FailKeeps DEF receiveIpcResponse
<1>2. CASE outQ[c] # <<>>
  <2>1. /\ cli \in [Clients -> ClientState] /\ inQ \in [Clients -> Seq(ReqFrame)]
        /\ outQ \in [Clients -> Seq(RespFrame)] /\ cli[c] \in ClientState
        /\ outQ[c] \in Seq(RespFrame)
    BY DEF IpcInv, TypeOK
  <2>2. cli[c].at = "recv" /\ cli[c].result = "none" /\ ClientInv(c)
    BY DEF IpcInv, ClientInv, RequestInOrder, receiveIpcResponse
  <2>3. outQ' = [outQ EXCEPT ![c] = Tail(outQ[c])] BY <1>2 DEF receiveIpcResponse
  <2>4. PICK f \in RespFrame : f = outQ[c][1] /\ f = Head(outQ[c]) BY <1>2, <2>1, TailFacts
  <2>5. /\ Len(outQ[c]) \in Nat \ {0} /\ Len(Tail(outQ[c])) = Len(outQ[c]) - 1
        /\ Tail(outQ[c]) \in Seq(RespFrame)
        /\ \A i \in 1 .. Len(outQ[c]) - 1 : Tail(outQ[c])[i] = outQ[c][i + 1]
    BY <1>2, <2>1, TailFacts
  <2>6. /\ outQ' \in [Clients -> Seq(RespFrame)] /\ outQ'[c] = Tail(outQ[c])
        /\ \A d \in Clients : d # c => outQ'[d] = outQ[d]
    BY <2>1, <2>3, <2>5
  <2>7. /\ Len(outQ'[c]) = Len(outQ[c]) - 1
        /\ \A i \in 1 .. Len(outQ[c]) - 1 : outQ'[c][i] = outQ[c][i + 1]
    BY <2>5, <2>6
  <2>8. UNCHANGED <<nameIn, nameOut, inQ, srv, executed, unreachable>>
    BY DEF receiveIpcResponse, srvVars
  <2>9. PICK n \in Nat : n = Len(cli[c].got) BY <2>1, ElementFacts DEF ClientState
  <2>10. PICK step \in {"recv", "close"}, got \in Seq(RespFrame), res \in {"none", "ok", "failed"} :
            /\ ClientUpdate(cli, cli', c, step, cli[c].sent, got, res)
            /\ \/ got = cli[c].got /\ res = "failed" /\ step = "close"
               \/ /\ got = Append(cli[c].got, f) /\ f.uniq = c
                  /\ \/ f.status = "206" /\ res = "none" /\ step = "recv"
                     \/ f.status # "206" /\ res = "ok" /\ step = "close"
    <3>1. /\ cli[c].got \in Seq(RespFrame) /\ 0 \in Nat
          /\ Append(cli[c].got, f) \in Seq(RespFrame)
      BY <2>1, AppendFacts DEF ClientState
    <3>2. CASE Fail(c, "close")
      <4>1. cli' = [cli EXCEPT ![c].at = "close", ![c].result = "failed"] BY <3>2 DEF Fail
      <4>2. ClientUpdate(cli, cli', c, "close", cli[c].sent, cli[c].got, "failed")
        BY <2>1, <3>1, <4>1, ClientUpdates
      <4> QED BY <3>1, <4>2
    <3>3. CASE /\ ~Rejected(c, f)
               /\ cli' = [cli EXCEPT ![c].got = Append(@, f),
                                     ![c].at = IF f.status = "206" THEN "recv" ELSE "close",
                                     ![c].result = IF f.status = "206" THEN @ ELSE "ok"]
      <4>1. f.uniq = c BY <3>3 DEF Rejected
      <4>2. PICK g \in Seq(RespFrame) : g = Append(cli[c].got, f) BY <3>1
      <4>3. CASE f.status = "206"
        <5>1. cli' = [cli EXCEPT ![c].got = g, ![c].at = "recv", ![c].result = "none"]
          BY <2>2, <3>3, <4>2, <4>3, Zenon
        <5>2. ClientUpdate(cli, cli', c, "recv", cli[c].sent, g, "none")
          BY <2>1, <3>1, <4>2, <5>1, ClientUpdates
        <5> QED BY <4>1, <4>2, <4>3, <5>2
      <4>4. CASE f.status # "206"
        <5>1. cli' = [cli EXCEPT ![c].got = g, ![c].at = "close", ![c].result = "ok"]
          BY <3>3, <4>2, <4>4, Zenon
        <5>2. ClientUpdate(cli, cli', c, "close", cli[c].sent, g, "ok")
          BY <2>1, <3>1, <4>2, <5>1, ClientUpdates
        <5> QED BY <4>1, <4>2, <4>4, <5>2
      <4> QED BY <4>3, <4>4
    <3> QED BY <1>2, <2>4, <3>2, <3>3 DEF receiveIpcResponse
  <2>11. /\ cli'[c].at = step /\ cli'[c].sent = cli[c].sent /\ cli'[c].got = got
         /\ cli'[c].result = res
    BY <2>10 DEF ClientUpdate
  <2>12. TypeOK'
    <3>1. \A d \in Clients : Len(outQ[d]) <= MqMaxMsg BY DEF IpcInv, TypeOK
    <3>2. Len(outQ'[c]) <= MqMaxMsg BY <2>5, <2>7, <3>1, IpcAssumption
    <3>3. \A d \in Clients : Len(outQ'[d]) <= MqMaxMsg BY <2>6, <3>1, <3>2
    <3> QED BY <2>6, <2>8, <2>10, <3>3 DEF IpcInv, TypeOK, ClientUpdate
  <2>13. MessageIsTaken'
    <3>1. \A d \in Clients : cli'[d].sent = cli[d].sent BY <2>10, <2>11 DEF ClientUpdate
    <3>2. \A d \in Clients : cli[d].sent \in Nat /\ Len(inQ[d]) \in Nat
      BY <2>1, ElementFacts DEF ClientState
    <3>3. \A d \in Clients : /\ cli'[d].sent \in Nat /\ Len(inQ'[d]) \in Nat
                             /\ cli[d].sent - Len(inQ[d]) = cli'[d].sent - Len(inQ'[d])
      BY <2>8, <3>1, <3>2
    <3> QED BY <2>8, <3>3, ServerKept DEF IpcInv
  <2>14. got = Append(cli[c].got, f) =>
            /\ Len(got) = n + 1 /\ got[n + 1] = f /\ got # <<>>
            /\ \A i \in 1 .. n : got[i] = cli[c].got[i]
    <3>1. cli[c].got \in Seq(RespFrame) BY <2>1 DEF ClientState
    <3> SUFFICES ASSUME got = Append(cli[c].got, f)
                 PROVE  /\ Len(got) = n + 1 /\ got[n + 1] = f
                        /\ \A i \in 1 .. n : got[i] = cli[c].got[i]
      BY <2>9, ElementFacts
    <3> QED BY <2>9, <3>1, AppendFacts
  <2>15. /\ WellFormed(f)
         /\ f.uniq = c => (f.whole => f.k = n + 1) /\ (~f.whole => n = 0)
    <3>1. 1 \in 1 .. Len(outQ[c]) /\ Reached(c, 1) BY <2>5 DEF Reached
    <3>2. /\ WellFormed(outQ[c][1])
          /\ outQ[c][1].uniq = c => /\ outQ[c][1].whole => outQ[c][1].k = n + 1
                                    /\ ~outQ[c][1].whole => n + 1 = 1
      BY <2>2, <2>9, <3>1 DEF ClientInv, QueuedInOrder
    <3> QED BY <2>4, <3>2
  <2>16. ASSUME NEW i \in Nat \ {0}, i <= Len(outQ[c]), Reached(c, i)', f.uniq = c, f.status = "206"
         PROVE  Reached(c, i + 1)
    <3> SUFFICES ASSUME NEW j \in 1 .. i PROVE outQ[c][j].uniq = c /\ outQ[c][j].status = "206"
      BY DEF Reached
    <3>1. CASE j = 1 BY <2>4, <2>16, <3>1
    <3>2. CASE j # 1
      <4>1. PICK h \in 1 .. i - 1 : j = h + 1 BY <3>2
      <4>2. outQ'[c][h].uniq = c /\ outQ'[c][h].status = "206" BY <2>16 DEF Reached
      <4>3. outQ'[c][h] = outQ[c][j] BY <2>5, <2>7, <2>16, <4>1
      <4> QED BY <4>2, <4>3
    <3> QED BY <3>1, <3>2
  <2>17. RequestInOrder(c)' BY <2>2, <2>8, <2>10, <2>11 DEF ClientInv, RequestInOrder
  <2>18. HasWhole(c)' => HasWhole(c)
    <3>1. ASSUME NEW i \in 1 .. Len(outQ'[c]), outQ'[c][i].whole /\ outQ'[c][i].uniq = c
          PROVE  HasWhole(c)
      <4>1. i + 1 \in 1 .. Len(outQ[c]) /\ outQ'[c][i] = outQ[c][i + 1] BY <2>5, <2>7
      <4> QED BY <3>1, <4>1 DEF HasWhole
    <3>2. ASSUME NEW i \in 1 .. Len(got), got[i].whole PROVE HasWhole(c)
      <4>1. CASE i \in 1 .. n /\ got[i] = cli[c].got[i] BY <2>9, <3>2, <4>1 DEF HasWhole
      <4>2. CASE f.uniq = c /\ got[i] = f
        <5>1. 1 \in 1 .. Len(outQ[c]) BY <2>5
        <5> QED BY <2>4, <3>2, <4>2, <5>1 DEF HasWhole
      <4> QED BY <2>9, <2>10, <2>14, <4>1, <4>2
    <3> QED BY <2>11, <3>1, <3>2 DEF HasWhole
  <2>19. WholeIsOnce(c)' BY <2>2, <2>8, <2>11, <2>18 DEF ClientInv, WholeIsOnce
  <2>20. CollectedInOrder(c)'
    <3>1. CASE got = cli[c].got /\ res = "failed"
      BY <2>2, <2>11, <3>1 DEF ClientInv, CollectedInOrder, WellFormed
    <3>2. CASE got = Append(cli[c].got, f) /\ f.uniq = c
      <4>1. \A i \in 1 .. n : /\ cli[c].got[i].uniq = c /\ WellFormed(cli[c].got[i])
                              /\ cli[c].got[i].status = "206" /\ cli[c].got[i].whole
                              /\ cli[c].got[i].k = i
        BY <2>2, <2>9 DEF ClientInv, CollectedInOrder, WellFormed
      <4>2. ASSUME NEW i \in 1 .. n + 1
            PROVE  /\ got[i].uniq = c /\ WellFormed(got[i])
                   /\ got[i].whole => got[i].k = i
                   /\ ~got[i].whole => n = 0
                   /\ i < n + 1 => got[i].status = "206"
        <5>1. CASE i \in 1 .. n BY <2>14, <3>2, <4>1, <5>1
        <5>2. CASE i = n + 1 BY <2>14, <2>15, <3>2, <5>2
        <5> QED BY <5>1, <5>2
      <4>3. \A i \in 1 .. n + 1 : i < n + 1 \/ res # "ok" => got[i].status = "206"
        BY <2>10, <2>14, <3>2, <4>2
      <4>4. res = "ok" => got # <<>> /\ got[n + 1].status # "206"
        BY <2>10, <2>14, <3>2
      <4> QED BY <2>11, <2>14, <3>2, <4>2, <4>3, <4>4 DEF CollectedInOrder
    <3> QED BY <2>10, <3>1, <3>2
  <2>21. QueuedInOrder(c)'
    <3> SUFFICES ASSUME NEW i \in 1 .. Len(outQ'[c])
                 PROVE  /\ WellFormed(outQ'[c][i])
                        /\ res = "none" /\ Reached(c, i)' /\ outQ'[c][i].uniq = c =>
                              /\ outQ'[c][i].whole => outQ'[c][i].k = Len(got) + i
                              /\ ~outQ'[c][i].whole => Len(got) + i = 1
      BY <2>11 DEF QueuedInOrder
    <3>1. i + 1 \in 1 .. Len(outQ[c]) /\ outQ'[c][i] = outQ[c][i + 1] BY <2>5, <2>7
    <3>2. WellFormed(outQ'[c][i]) BY <2>2, <3>1 DEF ClientInv, QueuedInOrder
    <3>3. ASSUME res = "none", Reached(c, i)', outQ'[c][i].uniq = c
          PROVE  /\ outQ'[c][i].whole => outQ'[c][i].k = Len(got) + i
                 /\ ~outQ'[c][i].whole => Len(got) + i = 1
      <4>1. got = Append(cli[c].got, f) /\ f.uniq = c /\ f.status = "206" BY <2>10, <3>3
      <4>2. Reached(c, i + 1) BY <2>16, <3>1, <3>3, <4>1
      <4>3. Len(got) = n + 1 BY <2>14, <4>1
      <4>4. /\ outQ[c][i + 1].whole => outQ[c][i + 1].k = n + (i + 1)
            /\ ~outQ[c][i + 1].whole => n + (i + 1) = 1
        BY <2>2, <2>9, <3>1, <3>3, <4>2 DEF ClientInv, QueuedInOrder
      <4> QED BY <3>1, <4>3, <4>4
    <3> QED BY <3>2, <3>3
  <2>22. AnswerInOrder(c)'
    <3>1. PICK m \in Nat \ {0} : m = Len(outQ[c]) BY <2>5
    <3>2. Len(outQ'[c]) + 1 = m BY <2>5, <2>7, <3>1
    <3> SUFFICES ASSUME srv.k # 0, srv.in = c, srv.uniq = c, srv.out = c,
                        res = "none", Reached(c, m)'
                 PROVE  srv.k = Len(got) + Len(outQ'[c])
      <4>1. Reached(c, Len(outQ[c]) + 1)' => Reached(c, m)' BY <3>2 DEF Reached
      <4> QED BY <2>8, <2>11, <4>1 DEF AnswerInOrder
    <3>3. got = Append(cli[c].got, f) /\ f.uniq = c /\ f.status = "206" BY <2>10
    <3>4. Len(got) = n + 1 BY <2>14, <3>3
    <3>5. Reached(c, m + 1) BY <2>16, <3>1, <3>3
    <3>6. srv.k = n + m BY <2>2, <2>9, <3>1, <3>5 DEF ClientInv, AnswerInOrder
    <3> QED BY <2>7, <3>1, <3>4, <3>6
  <2>23. ASSUME NEW d \in Clients, d # c PROVE ClientInv(d)'
    <3>1. cli'[d] = cli[d] /\ outQ'[d] = outQ[d] BY <2>6, <2>10, <2>23 DEF ClientUpdate
    <3>2. TypeOK /\ ClientInv(d) BY DEF IpcInv
    <3>3. cli[d].at \in {"new", "half", "send", "verify", "recv"} => cli[d].result = "none"
      BY <3>2, Zenon DEF ClientInv, RequestInOrder
    <3> QED BY <2>8, <3>1, <3>2, <3>3, ClientKept
  <2> QED BY <2>12, <2>13, <2>17, <2>19, <2>20, <2>21, <2>22, <2>23 DEF IpcInv, ClientInv
<1> QED BY <1>1, <1>2 DEF receiveIpcResponse

----------------------------------------------------------------------------
(* The server's steps.                                                     *)

\* What an update of the server's state makes of it.
ServerUpdate(x, y, at, queues, msg, uniq, status, k) ==
    /\ y \in ServerState
    /\ y.at = at /\ <<y.in, y.out>> = queues /\ y.msg = msg /\ y.uniq = uniq
    /\ y.status = status /\ y.k = k

\* The forms in which the actions of the server update its state.
LEMMA ServerUpdates ==
    ASSUME NEW x \in ServerState, NEW y,
           NEW at \in {"idle", "openOut", "recv", "answer", "refuse"},
           NEW in \in Clients, NEW out \in Clients, NEW msg \in Seq(ReqFrame),
           NEW uniq \in Clients \cup {NoUniq}, NEW status \in Statuses
    PROVE  /\ y = [x EXCEPT !.at = at, !.in = in] =>
                 ServerUpdate(x, y, at, <<in, x.out>>, x.msg, x.uniq, x.status, x.k)
           /\ y = [x EXCEPT !.at = at, !.out = out] =>
                 ServerUpdate(x, y, at, <<x.in, out>>, x.msg, x.uniq, x.status, x.k)
           /\ y = [x EXCEPT !.at = at, !.uniq = uniq, !.status = status] =>
                 ServerUpdate(x, y, at, <<x.in, x.out>>, x.msg, uniq, status, x.k)
           /\ y = [x EXCEPT !.msg = msg, !.uniq = uniq, !.at = at] =>
                 ServerUpdate(x, y, at, <<x.in, x.out>>, msg, uniq, x.status, x.k)
<1>1. ASSUME y = [x EXCEPT !.at = at, !.in = in]
      PROVE  ServerUpdate(x, y, at, <<in, x.out>>, x.msg, x.uniq, x.status, x.k)
  <2>1. PICK n1 : n1 = [x EXCEPT !.at = at] OBVIOUS
  <2>2. PICK n2 : n2 = [n1 EXCEPT !.in = in] OBVIOUS
  <2>3. y = n2 BY <1>1, <2>1, <2>2, Zenon
  <2> QED BY <2>1, <2>2, <2>3 DEF ServerState, ServerUpdate
<1>2. ASSUME y = [x EXCEPT !.at = at, !.out = out]
      PROVE  ServerUpdate(x, y, at, <<x.in, out>>, x.msg, x.uniq, x.status, x.k)
  <2>1. PICK n1 : n1 = [x EXCEPT !.at = at] OBVIOUS
  <2>2. PICK n2 : n2 = [n1 EXCEPT !.out = out] OBVIOUS
  <2>3. y = n2 BY <1>2, <2>1, <2>2, Zenon
  <2> QED BY <2>1, <2>2, <2>3 DEF ServerState, ServerUpdate
<1>3. ASSUME y = [x EXCEPT !.at = at, !.uniq = uniq, !.status = status]
      PROVE  ServerUpdate(x, y, at, <<x.in, x.out>>, x.msg, uniq, status, x.k)
  <2>1. PICK n1 : n1 = [x EXCEPT !.at = at] OBVIOUS
  <2>2. PICK n2 : n2 = [n1 EXCEPT !.uniq = uniq] OBVIOUS
  <2>3. PICK n3 : n3 = [n2 EXCEPT !.status = status] OBVIOUS
  <2>4. y = n3 BY <1>3, <2>1, <2>2, <2>3, Zenon
  <2> QED BY <2>1, <2>2, <2>3, <2>4 DEF ServerState, ServerUpdate
<1>4. ASSUME y = [x EXCEPT !.msg = msg, !.uniq = uniq, !.at = at]
      PROVE  ServerUpdate(x, y, at, <<x.in, x.out>>, msg, uniq, x.status, x.k)
  <2>1. PICK n1 : n1 = [x EXCEPT !.msg = msg] OBVIOUS
  <2>2. PICK n2 : n2 = [n1 EXCEPT !.uniq = uniq] OBVIOUS
  <2>3. PICK n3 : n3 = [n2 EXCEPT !.at = at] OBVIOUS
  <2>4. y = n3 BY <1>4, <2>1, <2>2, <2>3, Zenon
  <2> QED BY <2>1, <2>2, <2>3, <2>4 DEF ServerState, ServerUpdate
<1> QED BY <1>1, <1>2, <1>3, <1>4, Zenon

\* The server counts a frame that it has sent.
LEMMA ServerCounts ==
    ASSUME NEW x \in ServerState, NEW y, NEW k \in 0 .. RespFrames, y = [x EXCEPT !.k = k]
    PROVE  ServerUpdate(x, y, x.at, <<x.in, x.out>>, x.msg, x.uniq, x.status, k)
BY DEF ServerState, ServerUpdate

\* The server stops looking at the queues it has open.
LEMMA IdleFacts ==
    /\ Idle \in ServerState
    /\ Idle.at = "idle" /\ Idle.in = None /\ Idle.out = None /\ Len(Idle.msg) = 0 /\ Idle.msg = <<>>
    /\ Idle.uniq = NoUniq /\ Idle.status = "200" /\ Idle.k = 0
BY IpcAssumption DEF Idle, ServerState, Statuses, NoUniq

\* An idle server has taken nothing.
LEMMA IdleTakesNothing == ASSUME srv' = Idle PROVE MessageIsTaken'
BY IdleFacts DEF MessageIsTaken, NoUniq

\* The server gives up without a word, perhaps after it carried out a request.
LEMMA IdleKeepsIpcInv ==
    ASSUME IpcInv, srv' = Idle, UNCHANGED <<cliVars, inQ, outQ, unreachable>>,
           executed \subseteq executed', executed' \subseteq Clients
    PROVE  IpcInv'
<1>1. TypeOK' BY IdleFacts DEF IpcInv, TypeOK, cliVars
<1>2. ASSUME NEW c \in Clients PROVE ClientInv(c)'
  <2>1. srv'.in # c BY IdleFacts, IpcAssumption
  <2> QED BY <2>1, ClientKept DEF IpcInv, ClientInv, RequestInOrder, cliVars
<1> QED BY <1>1, <1>2, IdleTakesNothing DEF IpcInv

\* When the server sends the next frame of an answer, what its client has or
\* will reach is as many frames of it as the server has sent.
LEMMA SentIsReached ==
    ASSUME IpcInv, NEW c \in Clients, srv.at \in {"answer", "refuse"},
           srv.in = c, srv.uniq = c, srv.out = c,
           cli[c].result = "none", Reached(c, Len(outQ[c]) + 1)
    PROVE  srv.k = Len(cli[c].got) + Len(outQ[c])
<1>1. ClientInv(c) BY DEF IpcInv
<1>2. PICK n \in Nat, m \in Nat : n = Len(cli[c].got) /\ m = Len(outQ[c])
  BY ElementFacts DEF IpcInv, TypeOK, ClientState
<1>3. CASE srv.k # 0 BY <1>1, <1>3 DEF ClientInv, AnswerInOrder
<1>4. CASE srv.k = 0
  <2>1. ~HasWhole(c) BY <1>1, <1>4 DEF ClientInv, WholeIsOnce
  <2>2. n = 0
    <3>1. n # 0 => 1 \in 1 .. n /\ cli[c].got[1].whole
      BY <1>1, <1>2 DEF ClientInv, CollectedInOrder, WellFormed
    <3> QED BY <1>2, <2>1, <3>1 DEF HasWhole
  <2>3. m = 0
    <3>1. m # 0 => /\ 1 \in 1 .. m /\ 1 \in 1 .. (m + 1) - 1
                   /\ outQ[c][1].whole /\ outQ[c][1].uniq = c
      BY <1>1, <1>2 DEF ClientInv, QueuedInOrder, WellFormed, Reached
    <3> QED BY <1>2, <2>1, <3>1 DEF HasWhole
  <2> QED BY <1>2, <1>4, <2>2, <2>3
<1> QED BY <1>3, <1>4

\* A queue that nothing is put into stays in order.
LEMMA QueueKept ==
    ASSUME NEW c \in Clients, QueuedInOrder(c), outQ'[c] = outQ[c], cli'[c] = cli[c]
    PROVE  QueuedInOrder(c)'
BY DEF QueuedInOrder, WellFormed, Reached

\* A frame that goes on with an answer, or stands alone, is put into the queue
\* that the server has open, whoever that queue belongs to.
LEMMA QueueingKeepsClients ==
    ASSUME IpcInv, NEW f \in RespFrame, WellFormed(f), f.uniq = srv.uniq,
           srv.at \in {"answer", "refuse"}, UNCHANGED <<cliVars, inQ>>,
           outQ' = [outQ EXCEPT ![srv.out] = Append(@, f)],
           executed \subseteq executed',
           f.whole => /\ srv.in \in executed' /\ f.k = srv.k + 1
                      /\ cli[srv.in].sent = ReqFrames[srv.in] /\ inQ[srv.in] = <<>>,
           ~f.whole => srv.k = 0,
           \/ srv'.in = None /\ srv'.k = 0
           \/ /\ f.whole
              /\ srv'.at = "answer" /\ srv'.in = srv.in /\ srv'.out = srv.out
              /\ srv'.uniq = srv.uniq /\ srv'.k = srv.k + 1,
           NEW c \in Clients
    PROVE  ClientInv(c)'
<1> USE IpcAssumption
<1>1. ClientInv(c) /\ TypeOK /\ MessageIsTaken BY DEF IpcInv
<1>2. srv.in \in Clients /\ srv.out \in Clients /\ srv.uniq \in {srv.in, NoUniq} /\ srv.k \in Nat
  BY <1>1 DEF MessageIsTaken, TypeOK, ServerState
<1>3. outQ \in [Clients -> Seq(RespFrame)] BY <1>1 DEF TypeOK
<1>4. RequestInOrder(c)' BY <1>1 DEF ClientInv, RequestInOrder, cliVars
<1>5. CollectedInOrder(c)' BY <1>1 DEF ClientInv, CollectedInOrder, WellFormed, cliVars
<1>6. PICK n \in Nat, m \in Nat : n = Len(cli[c].got) /\ m = Len(outQ[c])
  BY <1>1, ElementFacts DEF TypeOK, ClientState
<1>9. cli' = cli /\ inQ' = inQ BY DEF cliVars
<1>7. CASE c = srv.out
  <2>1. /\ Len(outQ'[c]) = m + 1 /\ outQ'[c][m + 1] = f
        /\ \A i \in 1 .. m : outQ'[c][i] = outQ[c][i]
    <3>1. outQ[c] \in Seq(RespFrame) /\ outQ'[c] = Append(outQ[c], f) BY <1>2, <1>3, <1>7
    <3> QED BY <1>6, <3>1, AppendFacts
  <2>2. \A i \in 1 .. m + 1 : Reached(c, i)' => Reached(c, i) BY <2>1 DEF Reached
  <2>3. cli'[c].result = "none" /\ Reached(c, m + 1)' /\ f.uniq = c => srv.k = n + m
    <3> SUFFICES ASSUME cli'[c].result = "none", Reached(c, m + 1)', f.uniq = c PROVE srv.k = n + m
      OBVIOUS
    <3>1. srv.in = c /\ srv.uniq = c BY <1>2 DEF NoUniq
    <3>2. m + 1 \in 1 .. m + 1 /\ cli[c].result = "none" BY <1>9
    <3>3. Reached(c, Len(outQ[c]) + 1) BY <1>6, <2>2, <3>2
    <3> QED BY <1>6, <1>7, <3>1, <3>2, <3>3, SentIsReached
  <2>4. QueuedInOrder(c)'
    <3> SUFFICES ASSUME NEW i \in 1 .. m + 1
                 PROVE  /\ WellFormed(outQ'[c][i])
                        /\ cli[c].result = "none" /\ Reached(c, i)' /\ outQ'[c][i].uniq = c =>
                              /\ outQ'[c][i].whole => outQ'[c][i].k = n + i
                              /\ ~outQ'[c][i].whole => n + i = 1
      <4>1. QueuedInOrder(c)' =
              \A i \in 1 .. Len(outQ'[c]) :
                  /\ WellFormed(outQ'[c][i])
                  /\ cli'[c].result = "none" /\ Reached(c, i)' /\ outQ'[c][i].uniq = c =>
                        /\ outQ'[c][i].whole => outQ'[c][i].k = Len(cli'[c].got) + i
                        /\ ~outQ'[c][i].whole => Len(cli'[c].got) + i = 1
        BY DEF QueuedInOrder, WellFormed
      <4>2. /\ 1 .. Len(outQ'[c]) = 1 .. m + 1 /\ Len(cli'[c].got) = n
            /\ cli'[c].result = cli[c].result
        BY <1>6, <1>9, <2>1
      <4> QED BY <4>1, <4>2, Zenon
    <3>1. CASE i \in 1 .. m
      <4>1. outQ'[c][i] = outQ[c][i] /\ (Reached(c, i)' => Reached(c, i)) BY <1>6, <2>1, <2>2, <3>1
      <4>2. /\ WellFormed(outQ[c][i])
            /\ cli[c].result = "none" /\ Reached(c, i) /\ outQ[c][i].uniq = c =>
                  /\ outQ[c][i].whole => outQ[c][i].k = n + i
                  /\ ~outQ[c][i].whole => n + i = 1
        BY <1>1, <1>6, <3>1, Zenon DEF ClientInv, QueuedInOrder
      <4> QED BY <4>1, <4>2, Zenon
    <3>2. CASE i = m + 1
      <4>1. outQ'[c][i] = f BY <2>1, <3>2
      <4>2. ASSUME cli[c].result = "none", Reached(c, i)', f.uniq = c
            PROVE  (f.whole => f.k = n + i) /\ (~f.whole => n + i = 1)
        <5>1. srv.k = n + m BY <1>9, <2>3, <3>2, <4>2
        <5> QED BY <1>2, <3>2, <5>1
      <4> QED BY <4>1, <4>2
    <3>3. i \in 1 .. m \/ i = m + 1 OBVIOUS
    <3> QED BY <3>1, <3>2, <3>3, Zenon
  <2>5. HasWhole(c)' => HasWhole(c) \/ (f.whole /\ srv.in = c)
    <3>1. ASSUME NEW i \in 1 .. m + 1, outQ'[c][i].whole, outQ'[c][i].uniq = c
          PROVE  HasWhole(c) \/ (f.whole /\ srv.in = c)
      <4>1. CASE i \in 1 .. m BY <1>6, <2>1, <3>1, <4>1 DEF HasWhole
      <4>2. CASE i = m + 1 BY <1>2, <2>1, <3>1, <4>2 DEF NoUniq
      <4> QED BY <4>1, <4>2
    <3> QED BY <2>1, <3>1 DEF HasWhole, cliVars
  <2>6. WholeIsOnce(c)'
    BY <1>1, <1>2, <2>5 DEF ClientInv, WholeIsOnce, cliVars
  <2>7. AnswerInOrder(c)'
    <3> SUFFICES ASSUME srv'.k # 0, srv'.in = c, srv'.uniq = c, srv'.out = c,
                        cli[c].result = "none", Reached(c, Len(outQ[c]) + 1)'
                 PROVE  srv'.k = Len(cli[c].got) + Len(outQ'[c])
      BY DEF AnswerInOrder, cliVars
    <3>1. srv'.k = srv.k + 1 /\ f.uniq = c OBVIOUS
    <3>2. Reached(c, m + 1)' BY <2>1 DEF Reached
    <3>3. srv.k = n + m BY <1>9, <2>3, <3>1, <3>2
    <3>4. srv'.k = n + (m + 1) BY <3>1, <3>3
    <3> QED BY <1>6, <2>1, <3>4
  <2> QED BY <1>4, <1>5, <2>4, <2>6, <2>7 DEF ClientInv
<1>8. CASE c # srv.out
  <2>1. outQ'[c] = outQ[c] BY <1>2, <1>3, <1>8
  <2>2. QueuedInOrder(c)'
    BY <1>1, <1>9, <2>1, QueueKept DEF ClientInv
  <2>3. HasWhole(c)' => HasWhole(c) BY <2>1 DEF HasWhole, cliVars
  <2>4. WholeIsOnce(c)' BY <1>1, <1>2, <2>3 DEF ClientInv, WholeIsOnce, cliVars
  <2>5. AnswerInOrder(c)' BY <1>8 DEF AnswerInOrder
  <2> QED BY <1>4, <1>5, <2>2, <2>4, <2>5 DEF ClientInv
<1> QED BY <1>7, <1>8

\* The server opens the queues.
LEMMA OpeningKeepsIpcInv ==
    ASSUME IpcInv, ipcCommunication \/ OpenOut
    PROVE  IpcInv'
<1>1. TypeOK /\ MessageIsTaken /\ srv \in ServerState BY DEF IpcInv, TypeOK
<1>2. CASE OpenOut /\ srv' = Idle
  BY <1>2, IdleKeepsIpcInv DEF OpenOut, IpcInv, TypeOK
<1>3. ASSUME ~(OpenOut /\ srv' = Idle) PROVE IpcInv'
  <2>1. PICK at \in {"openOut", "recv"}, in \in Clients, out \in Clients \cup {None} :
           /\ ServerUpdate(srv, srv', at, <<in, out>>, srv.msg, srv.uniq, srv.status, srv.k)
           /\ at = "recv" => out \in Clients
           /\ \/ srv.at = "idle" /\ inQ[in] # <<>>
              \/ srv.at = "openOut" /\ in = srv.in
    <3>1. /\ srv.msg \in Seq(ReqFrame) /\ srv.uniq \in Clients \cup {NoUniq}
          /\ srv.status \in Statuses /\ srv.k \in 0 .. RespFrames /\ srv.out \in Clients \cup {None}
      BY <1>1 DEF ServerState
    <3>2. CASE ipcCommunication
      <4>1. nameIn \in Clients /\ srv.at = "idle" /\ inQ[nameIn] # <<>>
            /\ srv' = [srv EXCEPT !.at = "openOut", !.in = nameIn]
        BY <3>2, NamesTyped DEF ipcCommunication
      <4>2. ServerUpdate(srv, srv', "openOut", <<nameIn, srv.out>>, srv.msg, srv.uniq, srv.status, srv.k)
        BY <1>1, <3>1, <4>1, ServerUpdates
      <4> QED BY <3>1, <4>1, <4>2
    <3>3. CASE OpenOut
      <4>1. nameOut \in Clients /\ srv.at = "openOut" /\ srv.in \in Clients
            /\ srv' = [srv EXCEPT !.at = "recv", !.out = nameOut]
        BY <1>1, <1>3, <3>3, NamesTyped DEF OpenOut, MessageIsTaken
      <4>2. ServerUpdate(srv, srv', "recv", <<srv.in, nameOut>>, srv.msg, srv.uniq, srv.status, srv.k)
        BY <1>1, <3>1, <4>1, ServerUpdates
      <4> QED BY <3>1, <4>1, <4>2
    <3> QED BY <3>2, <3>3
  <2>2. srv' \in ServerState /\ srv'.at = at /\ srv'.in = in /\ srv'.out = out /\ srv'.msg = srv.msg
        /\ srv'.uniq = srv.uniq /\ srv'.status = srv.status /\ srv'.k = srv.k
    BY <2>1 DEF ServerUpdate
  <2>3. srv.msg = <<>> /\ Len(srv.msg) = 0 /\ srv.uniq = NoUniq /\ srv.k = 0 /\ srv.status # "206"
    BY <1>1, <2>1 DEF MessageIsTaken
  <2>4. UNCHANGED <<nameIn, nameOut, cli, inQ, outQ, executed, unreachable>>
    BY DEF ipcCommunication, OpenOut, cliVars
  <2>5. TypeOK' BY <1>1, <2>2, <2>4 DEF TypeOK
  <2>6. MessageIsTaken' BY <2>1, <2>2, <2>3 DEF MessageIsTaken
  <2>7. ASSUME NEW c \in Clients PROVE ClientInv(c)'
    <3>1. CASE in # c BY <2>2, <2>4, <3>1, ClientKept DEF IpcInv, ClientInv, RequestInOrder
    <3>2. CASE in = c
      <4>1. ~HasWhole(c) BY <2>1, <3>2 DEF IpcInv, ClientInv, WholeIsOnce
      <4> QED BY <2>2, <2>3, <2>4, <4>1, ClientKept DEF IpcInv, ClientInv, RequestInOrder
    <3> QED BY <3>1, <3>2
  <2> QED BY <2>5, <2>6, <2>7 DEF IpcInv
<1> QED BY <1>2, <1>3

\* While the server takes frames there is no whole response to that request.
LEMMA TakingIsBefore ==
    ASSUME IpcInv, srv.at = "recv"
    PROVE  /\ srv.in \in Clients /\ srv.out \in Clients /\ srv.k = 0
           /\ srv.uniq \in {srv.in, NoUniq} /\ srv.status # "206"
           /\ ~HasWhole(srv.in)
<1>1. srv.in \in Clients /\ srv.out \in Clients /\ srv.k = 0 /\ srv.uniq \in {srv.in, NoUniq}
      /\ srv.status # "206"
  BY DEF IpcInv, MessageIsTaken
<1>2. WholeIsOnce(srv.in) BY <1>1 DEF IpcInv, ClientInv
<1> QED BY <1>1, <1>2 DEF WholeIsOnce

\* A frame is taken from the request queue, or none, and put into the message
\* or not.
LEMMA TakingKeepsIpcInv ==
    ASSUME IpcInv, srv.at = "recv",
           NEW at \in {"recv", "answer", "refuse"}, NEW msg \in Seq(ReqFrame),
           NEW uniq \in {srv.in, NoUniq}, NEW status \in Statuses, status # "206",
           ServerUpdate(srv, srv', at, <<srv.in, srv.out>>, msg, uniq, status, srv.k),
           \/ msg = srv.msg /\ inQ' = inQ
           \/ /\ inQ[srv.in] # <<>> /\ inQ' = [inQ EXCEPT ![srv.in] = Tail(@)]
              /\ msg = srv.msg \/ msg = Append(srv.msg, Head(inQ[srv.in])),
           at = "answer" => msg # <<>>,
           UNCHANGED <<cliVars, outQ, executed>>, unreachable' \in BOOLEAN
    PROVE  IpcInv'
<1>1. TypeOK /\ MessageIsTaken BY DEF IpcInv
<1>2. cli' = cli /\ nameIn' = nameIn /\ nameOut' = nameOut /\ outQ' = outQ /\ executed' = executed
  BY DEF cliVars
<1>3. /\ srv' \in ServerState /\ srv'.at = at /\ srv'.in = srv.in /\ srv'.out = srv.out /\ srv'.msg = msg
      /\ srv'.uniq = uniq /\ srv'.status = status /\ srv'.k = 0
  BY TakingIsBefore DEF ServerUpdate
<1>4. PICK c \in Clients : c = srv.in /\ ~HasWhole(c) BY TakingIsBefore
<1>5. /\ cli[c].sent \in Nat /\ inQ \in [Clients -> Seq(ReqFrame)] /\ inQ[c] \in Seq(ReqFrame)
      /\ srv.msg \in Seq(ReqFrame) /\ RequestInOrder(c)
  BY <1>1 DEF TypeOK, ServerState, ClientState, IpcInv, ClientInv
<1>6. PICK m \in Nat, n \in Nat, l \in Nat :
         m = Len(inQ[c]) /\ n = Len(inQ'[c]) /\ l = Len(msg) /\ n <= m
      /\ (inQ' = inQ \/ (m # 0 /\ n = m - 1 /\ inQ' = [inQ EXCEPT ![c] = Tail(inQ[c])]))
  <2>1. CASE inQ' = inQ BY <1>4, <1>5, <2>1, ElementFacts
  <2>2. CASE inQ[c] # <<>> /\ inQ' = [inQ EXCEPT ![c] = Tail(inQ[c])]
    <3>1. inQ'[c] = Tail(inQ[c]) BY <1>5, <2>2
    <3>2. Len(inQ[c]) \in Nat \ {0} /\ Len(inQ'[c]) = Len(inQ[c]) - 1 BY <1>5, <2>2, <3>1, TailFacts
    <3>3. Len(msg) \in Nat BY ElementFacts
    <3> QED BY <2>2, <3>2, <3>3
  <2> QED BY <1>4, <2>1, <2>2
<1>7. /\ inQ' \in [Clients -> Seq(ReqFrame)]
      /\ \A d \in Clients : d # c => inQ'[d] = inQ[d]
      /\ \A i \in 1 .. n : inQ'[c][i] = inQ[c][i + (m - n)]
  <2>1. CASE inQ' = inQ BY <1>5, <1>6, <2>1
  <2>2. CASE m # 0 /\ n = m - 1 /\ inQ' = [inQ EXCEPT ![c] = Tail(inQ[c])]
    <3>1. inQ[c] # <<>> BY <1>5, <1>6, <2>2, ElementFacts
    <3>2. Tail(inQ[c]) \in Seq(ReqFrame) /\ \A i \in 1 .. n : Tail(inQ[c])[i] = inQ[c][i + 1]
      BY <1>5, <1>6, <2>2, <3>1, TailFacts
    <3>3. inQ'[c] = Tail(inQ[c]) /\ m - n = 1 BY <1>5, <2>2
    <3>4. /\ inQ' \in [Clients -> Seq(ReqFrame)]
          /\ \A d \in Clients : d # c => inQ'[d] = inQ[d]
      BY <1>5, <2>2, <3>2
    <3> QED BY <3>2, <3>3, <3>4
  <2> QED BY <1>6, <2>1, <2>2
<1>8. TypeOK'
  <2>1. \A d \in Clients : Len(inQ[d]) <= MqMaxMsg BY <1>1 DEF TypeOK
  <2>2. Len(inQ'[c]) <= MqMaxMsg BY <1>6, <2>1, IpcAssumption
  <2>3. \A d \in Clients : Len(inQ'[d]) <= MqMaxMsg BY <1>7, <2>1, <2>2
  <2> QED BY <1>1, <1>2, <1>3, <1>7, <2>3 DEF TypeOK
<1>9. MessageIsTaken'
  <2>1. ASSUME NEW i \in 1 .. Len(msg)
        PROVE  msg[i].of = c /\ msg[i].k <= cli[c].sent - n
    <3>1. CASE i \in 1 .. Len(srv.msg) /\ msg[i] = srv.msg[i]
      <4>1. srv.msg[i].of = c /\ srv.msg[i].k <= cli[c].sent - m
        BY <1>1, <1>4, <1>6, <3>1 DEF MessageIsTaken
      <4>2. srv.msg[i] \in ReqFrame BY <1>5, <3>1, ElementFacts
      <4>3. PICK k \in Nat : k = srv.msg[i].k BY <4>2 DEF ReqFrame
      <4>4. PICK sent \in Nat : sent = cli[c].sent BY <1>5
      <4>5. n <= m /\ k <= sent - m BY <1>6, <4>1, <4>3, <4>4
      <4>6. k <= sent - n BY <4>5
      <4> QED BY <3>1, <4>1, <4>3, <4>4, <4>6
    <3>2. CASE m # 0 /\ n = m - 1 /\ msg[i] = inQ[c][1]
      <4>1. inQ[c][1].of = c /\ inQ[c][1].k = cli[c].sent - m + 1
        BY <1>5, <1>6, <3>2 DEF RequestInOrder
      <4> QED BY <1>5, <1>6, <3>2, <4>1
    <3>3. CASE msg = srv.msg BY <3>1, <3>3
    <3>4. CASE /\ inQ[c] # <<>> /\ inQ' = [inQ EXCEPT ![c] = Tail(inQ[c])]
               /\ msg = Append(srv.msg, Head(inQ[c]))
      <4>1. Head(inQ[c]) = inQ[c][1] /\ inQ[c][1] \in ReqFrame BY <1>5, <3>4, TailFacts
      <4>2. \/ i \in 1 .. Len(srv.msg) /\ msg[i] = srv.msg[i]
            \/ msg[i] = inQ[c][1]
        BY <1>5, <3>4, <4>1, AppendFacts
      <4>3. m # 0 /\ n = m - 1
        <5>1. Len(Tail(inQ[c])) = Len(inQ[c]) - 1 /\ Len(inQ[c]) \in Nat \ {0} /\ inQ'[c] = Tail(inQ[c])
          BY <1>5, <3>4, TailFacts
        <5> QED BY <1>6, <5>1
      <4> QED BY <3>1, <3>2, <4>2, <4>3
    <3> QED BY <1>4, <3>3, <3>4
  <2> QED BY <1>2, <1>3, <1>4, <1>6, <2>1, TakingIsBefore DEF MessageIsTaken
<1>10. ASSUME NEW d \in Clients PROVE ClientInv(d)'
  <2>1. CASE d # c
    <3>1. inQ'[d] = inQ[d] /\ srv'.in # d BY <1>3, <1>4, <1>7, <2>1
    <3> QED BY <1>2, <3>1, ClientKept DEF IpcInv, ClientInv, RequestInOrder
  <2>2. CASE d = c
    <3>1. ClientInv(c) BY DEF IpcInv
    <3>2. ~HasWhole(c)' BY <1>2, <1>4 DEF HasWhole
    <3>3. WholeIsOnce(c)' BY <3>2 DEF WholeIsOnce
    <3>4. RequestInOrder(c)'
      <4>1. ASSUME NEW i \in 1 .. n
            PROVE  /\ inQ'[c][i].of = c /\ inQ'[c][i].uniq \in {c, NoUniq}
                   /\ inQ'[c][i].k = cli[c].sent - n + i
        <5>1. i + (m - n) \in 1 .. m
          <6>1. n <= m BY <1>6
          <6> QED BY <6>1
        <5>2. /\ inQ[c][i + (m - n)].of = c /\ inQ[c][i + (m - n)].uniq \in {c, NoUniq}
              /\ inQ[c][i + (m - n)].k = cli[c].sent - m + (i + (m - n))
          BY <1>5, <1>6, <5>1 DEF RequestInOrder
        <5>3. inQ'[c][i] = inQ[c][i + (m - n)] BY <1>7
        <5>4. cli[c].sent - m + (i + (m - n)) = cli[c].sent - n + i BY <1>5
        <5> QED BY <5>2, <5>3, <5>4
      <4>2. n <= cli[c].sent BY <1>5, <1>6 DEF RequestInOrder
      <4> QED BY <1>2, <1>5, <1>6, <4>1, <4>2 DEF RequestInOrder
    <3>5. CollectedInOrder(c)' BY <1>2, <3>1 DEF ClientInv, CollectedInOrder, WellFormed
    <3>6. QueuedInOrder(c)' BY <1>2, <3>1, QueueKept DEF ClientInv
    <3>7. AnswerInOrder(c)' BY <1>3 DEF AnswerInOrder
    <3> QED BY <2>2, <3>3, <3>4, <3>5, <3>6, <3>7 DEF ClientInv
  <2> QED BY <2>1, <2>2
<1> QED BY <1>8, <1>9, <1>10 DEF IpcInv

\* The server takes a frame, or finds none in time.
LEMMA RequestKeepsIpcInv ==
    ASSUME IpcInv, ipcRequestHandler
    PROVE  IpcInv'
<1>1. srv.at = "recv" /\ UNCHANGED <<cliVars, outQ, executed>> BY DEF ipcRequestHandler
<1>2. srv \in ServerState /\ inQ \in [Clients -> Seq(ReqFrame)] /\ unreachable \in BOOLEAN
  BY DEF IpcInv, TypeOK
<1>3. /\ srv.msg \in Seq(ReqFrame) /\ srv.status \in Statuses /\ srv.k \in 0 .. RespFrames
      /\ srv.in \in Clients /\ srv.out \in Clients /\ srv.uniq \in {srv.in, NoUniq}
      /\ srv.status # "206"
  BY <1>1, <1>2, TakingIsBefore DEF ServerState
<1>4. ASSUME NEW status, NEW uniq \in {srv.in, NoUniq}, Refuse(status, uniq),
             \/ inQ' = inQ
             \/ inQ[srv.in] # <<>> /\ inQ' = [inQ EXCEPT ![srv.in] = Tail(@)]
      PROVE  IpcInv'
  <2>1. unreachable' \in BOOLEAN BY <1>4, Zenon DEF Refuse
  <2>2. PICK s \in translateParseStatusToResp(status) :
           srv' = [srv EXCEPT !.at = "refuse", !.uniq = uniq, !.status = s]
    BY <1>4 DEF Refuse
  <2>3. s \in Statuses /\ s # "206" BY <2>2 DEF translateParseStatusToResp, Statuses
  <2>4. uniq \in Clients \cup {NoUniq} BY <1>3
  <2>5. ServerUpdate(srv, srv', "refuse", <<srv.in, srv.out>>, srv.msg, uniq, s, srv.k)
    BY <1>2, <1>3, <2>2, <2>3, <2>4, ServerUpdates
  <2> QED BY <1>1, <1>3, <1>4, <2>1, <2>3, <2>5, TakingKeepsIpcInv
<1>5. CASE inQ[srv.in] # <<>>
  <2>1. inQ' = [inQ EXCEPT ![srv.in] = Tail(@)] BY <1>5 DEF ipcRequestHandler
  <2>2. PICK f \in ReqFrame : f = inQ[srv.in][1] /\ f = Head(inQ[srv.in]) BY <1>2, <1>3, <1>5, TailFacts
  <2>3. f.uniq \in {srv.in, NoUniq}
    <3>1. RequestInOrder(srv.in) BY <1>3 DEF IpcInv, ClientInv
    <3>2. 1 \in 1 .. Len(inQ[srv.in]) BY <1>2, <1>3, <1>5, TailFacts
    <3> QED BY <2>2, <3>1, <3>2 DEF RequestInOrder
  <2>4. CASE Refuse(f.parse, uniqVal(f))
    <3>1. uniqVal(f) \in {srv.in, NoUniq} BY <1>3, <2>3 DEF uniqVal
    <3> QED BY <1>4, <1>5, <2>1, <2>4, <3>1
  <2>5. CASE Refuse("REQ_PARSE_APPVIEW_SIZE_ERROR", f.uniq) BY <1>4, <1>5, <2>1, <2>3, <2>5
  <2>6. CASE /\ srv' = [srv EXCEPT !.msg = Append(@, f), !.uniq = f.uniq,
                                   !.at = IF f.last THEN "answer" ELSE "recv"]
             /\ UNCHANGED unreachable
    <3>1. PICK msg \in Seq(ReqFrame) : msg = Append(srv.msg, f) /\ msg # <<>>
      <4>1. /\ Append(srv.msg, f) \in Seq(ReqFrame) /\ Len(srv.msg) \in Nat
            /\ Len(Append(srv.msg, f)) = Len(srv.msg) + 1
        BY <1>3, AppendFacts
      <4>2. Append(srv.msg, f) # <<>> BY <4>1
      <4> QED BY <4>1, <4>2
    <3>2. PICK at \in {"answer", "recv"} : at = IF f.last THEN "answer" ELSE "recv" OBVIOUS
    <3>3. PICK uniq \in {srv.in, NoUniq} : uniq = f.uniq BY <2>3
    <3>4. srv' = [srv EXCEPT !.msg = msg, !.uniq = uniq, !.at = at]
      BY <2>6, <3>1, <3>2, <3>3, Zenon
    <3>5. ServerUpdate(srv, srv', at, <<srv.in, srv.out>>, msg, uniq, srv.status, srv.k)
      <4>1. /\ at \in {"idle", "openOut", "recv", "answer", "refuse"}
            /\ uniq \in Clients \cup {NoUniq}
        BY <1>3
      <4> QED BY <1>2, <1>3, <3>4, <4>1, ServerUpdates, Zenon
    <3>6. unreachable' \in BOOLEAN BY <1>2, <2>6
    <3> QED BY <1>1, <1>3, <1>5, <2>1, <2>2, <3>1, <3>5, <3>6, TakingKeepsIpcInv
  <2> QED BY <1>5, <2>2, <2>4, <2>5, <2>6 DEF ipcRequestHandler
<1>6. CASE inQ[srv.in] = <<>>
  <2>1. Refuse("REQ_PARSE_RECEIVE_TIMEOUT_ERROR", srv.uniq) /\ inQ' = inQ BY <1>6 DEF ipcRequestHandler
  <2> QED BY <1>3, <1>4, <2>1
<1> QED BY <1>5, <1>6

\* A message that is a request has all the frames of it, so none is left.
LEMMA WholeIsAll ==
    ASSUME IpcInv, srv.at = "answer", Whole(srv.msg)
    PROVE  /\ srv.in \in Clients /\ srv.msg[1].of = srv.in
           /\ cli[srv.in].sent = ReqFrames[srv.in] /\ inQ[srv.in] = <<>>
<1>1. PICK c \in Clients : c = srv.in BY DEF IpcInv, MessageIsTaken
<1>2. srv.msg \in Seq(ReqFrame) /\ srv.msg # <<>> /\ inQ[c] \in Seq(ReqFrame)
  BY <1>1 DEF IpcInv, TypeOK, ServerState, MessageIsTaken
<1>3. PICK n \in Nat \ {0}, m \in Nat : n = Len(srv.msg) /\ m = Len(inQ[c]) BY <1>2, ElementFacts
<1>4. DOMAIN srv.msg = 1 .. n BY <1>2, <1>3, ElementFacts
<1>5. srv.msg[1].of = c /\ srv.msg[n].k <= cli[c].sent - m
  BY <1>1, <1>3 DEF IpcInv, MessageIsTaken
<1>6. n = ReqFrames[c] /\ srv.msg[n].k = n BY <1>3, <1>4, <1>5 DEF Whole
<1>7. PICK sent \in Nat : sent = cli[c].sent /\ sent <= ReqFrames[c]
  BY <1>1, ZenonT(40) DEF IpcInv, TypeOK, ClientState, ClientInv, RequestInOrder
<1>8. n <= sent - m /\ sent <= n BY <1>5, <1>6, <1>7
<1>9. m = 0 /\ sent = n BY <1>8
<1> QED BY <1>1, <1>2, <1>3, <1>5, <1>6, <1>7, <1>9, ElementFacts

\* A frame is sent, and the server goes on, or it is given up.
LEMMA FrameSentKeepsIpcInv ==
    ASSUME IpcInv, NEW f \in RespFrame, WellFormed(f), f.uniq = srv.uniq,
           srv.at \in {"answer", "refuse"}, UNCHANGED <<cliVars, inQ, unreachable>>,
           executed \subseteq executed', executed' \subseteq Clients,
           f.whole => /\ srv.at = "answer" /\ Whole(srv.msg)
                      /\ srv.in \in executed' /\ f.k = srv.k + 1
                      /\ cli[srv.in].sent = ReqFrames[srv.in] /\ inQ[srv.in] = <<>>,
           ~f.whole => srv.k = 0,
           NEW then,
           \/ then = Idle
           \/ f.whole /\ srv.k + 1 < RespFrames /\ then = [srv EXCEPT !.k = @ + 1],
           SendFrame(f, then)
    PROVE  IpcInv'
<1>1. TypeOK /\ MessageIsTaken /\ srv \in ServerState BY DEF IpcInv, TypeOK
<1>2. srv.in \in Clients /\ srv.out \in Clients /\ srv.k \in Nat
  BY <1>1 DEF MessageIsTaken, ServerState
<1>3. CASE srv' = Idle /\ UNCHANGED outQ BY <1>3, IdleKeepsIpcInv
<1>4. CASE /\ Len(outQ[srv.out]) < MqMaxMsg
           /\ outQ' = [outQ EXCEPT ![srv.out] = Append(@, f)]
           /\ srv' = then
  <2>1. \/ srv' = Idle
        \/ /\ f.whole /\ srv.k + 1 < RespFrames
           /\ ServerUpdate(srv, srv', srv.at, <<srv.in, srv.out>>, srv.msg, srv.uniq, srv.status, srv.k + 1)
    <3>1. CASE f.whole /\ srv.k + 1 < RespFrames /\ then = [srv EXCEPT !.k = @ + 1]
      <4>1. PICK k \in 0 .. RespFrames : k = srv.k + 1 BY <1>2, <3>1, IpcAssumption
      <4>2. srv' = [srv EXCEPT !.k = k] BY <1>4, <3>1, <4>1, Zenon
      <4>3. ServerUpdate(srv, srv', srv.at, <<srv.in, srv.out>>, srv.msg, srv.uniq, srv.status, k)
        BY <1>1, <4>2, ServerCounts, Zenon
      <4> QED BY <3>1, <4>1, <4>3
    <3> QED BY <1>4, <3>1
  <2>2. \/ srv' = Idle
        \/ /\ f.whole /\ srv' \in ServerState
           /\ srv'.at = "answer" /\ srv'.in = srv.in /\ srv'.out = srv.out /\ srv'.msg = srv.msg
           /\ srv'.uniq = srv.uniq /\ srv'.status = srv.status /\ srv'.k = srv.k + 1
           /\ srv.k + 1 < RespFrames
    BY <2>1 DEF ServerUpdate
  <2>3. TypeOK'
    <3>1. outQ \in [Clients -> Seq(RespFrame)] /\ outQ[srv.out] \in Seq(RespFrame) BY <1>1, <1>2 DEF TypeOK
    <3>2. /\ Append(outQ[srv.out], f) \in Seq(RespFrame) /\ Len(outQ[srv.out]) \in Nat
          /\ Len(Append(outQ[srv.out], f)) = Len(outQ[srv.out]) + 1
      BY <3>1, AppendFacts
    <3>3. /\ outQ' \in [Clients -> Seq(RespFrame)] /\ outQ'[srv.out] = Append(outQ[srv.out], f)
          /\ \A d \in Clients : d # srv.out => outQ'[d] = outQ[d]
      BY <1>2, <1>4, <3>1, <3>2
    <3>4. Len(outQ'[srv.out]) <= MqMaxMsg BY <1>4, <3>2, <3>3, IpcAssumption
    <3>5. \A d \in Clients : Len(outQ'[d]) <= MqMaxMsg BY <1>1, <3>3, <3>4 DEF TypeOK
    <3>6. srv' \in ServerState BY <2>2, IdleFacts
    <3> QED BY <1>1, <3>3, <3>5, <3>6 DEF TypeOK, cliVars
  <2>4. MessageIsTaken'
    <3>1. CASE srv' = Idle BY <3>1, IdleTakesNothing
    <3>2. CASE /\ f.whole
               /\ srv'.at = "answer" /\ srv'.in = srv.in /\ srv'.out = srv.out /\ srv'.msg = srv.msg
               /\ srv'.uniq = srv.uniq /\ srv'.status = srv.status /\ srv'.k = srv.k + 1
               /\ srv.k + 1 < RespFrames
      <4>1. Whole(srv'.msg) BY <3>2 
      <4>2. srv.at = "answer" /\ srv.in \in executed' BY <3>2
      <4>3. cli' = cli /\ inQ' = inQ BY DEF cliVars
      <4> HIDE DEF Whole
      <4> QED BY <1>1, <1>2, <3>2, <4>1, <4>2, <4>3 DEF MessageIsTaken
    <3> QED BY <2>2, <3>1, <3>2
  <2>5. ASSUME NEW c \in Clients PROVE ClientInv(c)'
    <3>1. \/ srv'.in = None /\ srv'.k = 0
          \/ /\ f.whole
             /\ srv'.at = "answer" /\ srv'.in = srv.in /\ srv'.out = srv.out
             /\ srv'.uniq = srv.uniq /\ srv'.k = srv.k + 1
      BY <2>2, IdleFacts
    <3> QED BY <1>4, <3>1, QueueingKeepsClients
  <2> QED BY <2>3, <2>4, <2>5 DEF IpcInv
<1> QED BY <1>3, <1>4 DEF SendFrame

\* The server answers a request that it took, or refuses it.
LEMMA AnswerKeepsIpcInv ==
    ASSUME IpcInv, ipcSendSuccessfulResponse \/ ipcSendFailedResponse
    PROVE  IpcInv'
<1>1. TypeOK /\ MessageIsTaken /\ srv \in ServerState BY DEF IpcInv, TypeOK
<1>2. /\ srv.k \in 0 .. RespFrames /\ srv.uniq \in Clients \cup {NoUniq} /\ srv.status \in Statuses
      /\ RespFrames \in Nat \ {0} /\ srv.k < RespFrames /\ srv.k \in Nat
  BY <1>1, IpcAssumption DEF ServerState, MessageIsTaken
<1>3. CASE ipcSendFailedResponse
  <2>1. PICK f : f = [status |-> srv.status, uniq |-> srv.uniq, k |-> 0, whole |-> FALSE] OBVIOUS
  <2>2. f \in RespFrame /\ f.whole = FALSE /\ f.uniq = srv.uniq /\ f.status = srv.status
    BY <1>2, <2>1 DEF RespFrame
  <2>3. WellFormed(f) BY <1>1, <2>2 DEF WellFormed, MessageIsTaken
  <2>4. /\ srv.at = "refuse" /\ SendFrame(f, Idle) /\ UNCHANGED <<cliVars, inQ, executed, unreachable>>
    BY <1>3, <2>1, Zenon DEF ipcSendFailedResponse
  <2>5. srv.k = 0 /\ executed' \subseteq Clients BY <1>1, <2>4 DEF MessageIsTaken, TypeOK
  <2> QED BY <2>2, <2>3, <2>4, <2>5, FrameSentKeepsIpcInv
<1>4. CASE ipcSendSuccessfulResponse
  <2>1. srv.at = "answer" /\ UNCHANGED <<cliVars, inQ, unreachable>>
    BY <1>4 DEF ipcSendSuccessfulResponse
  <2>2. CASE ~Whole(srv.msg)
    <3>1. PICK f : f = [status |-> "200", uniq |-> srv.uniq, k |-> 0, whole |-> FALSE] OBVIOUS
    <3>2. f \in RespFrame /\ f.whole = FALSE /\ f.uniq = srv.uniq /\ f.status = "200"
      BY <1>2, <3>1 DEF RespFrame, Statuses
    <3>3. WellFormed(f) BY <3>2 DEF WellFormed
    <3>4. SendFrame(f, Idle) /\ executed' = executed
      <4>1. Whole(srv.msg) = FALSE BY <2>2 DEF Whole
      <4>2. f = [status |-> IF ~Whole(srv.msg) \/ srv.k + 1 = RespFrames THEN "200" ELSE "206",
                 uniq |-> srv.uniq, k |-> IF Whole(srv.msg) THEN srv.k + 1 ELSE 0, whole |-> Whole(srv.msg)]
        BY <3>1, <4>1, Zenon
      <4>3. Idle = IF ~Whole(srv.msg) \/ srv.k + 1 = RespFrames THEN Idle ELSE [srv EXCEPT !.k = @ + 1]
        BY <4>1, Zenon
      <4>4. SendFrame(f, Idle) BY <1>4, <4>2, <4>3, Zenon DEF ipcSendSuccessfulResponse
      <4> QED BY <1>4, <4>1, <4>4 DEF ipcSendSuccessfulResponse
    <3>5. srv.k = 0 /\ executed' \subseteq Clients BY <1>1, <2>2, <3>4 DEF MessageIsTaken, TypeOK
    <3> QED BY <2>1, <3>2, <3>3, <3>4, <3>5, FrameSentKeepsIpcInv
  <2>3. CASE Whole(srv.msg)
    <3>1. PICK st \in Statuses : st = IF srv.k + 1 = RespFrames THEN "200" ELSE "206" BY DEF Statuses
    <3>2. PICK then : then = IF srv.k + 1 = RespFrames THEN Idle ELSE [srv EXCEPT !.k = @ + 1] OBVIOUS
    <3>3. PICK f : f = [status |-> st, uniq |-> srv.uniq, k |-> srv.k + 1, whole |-> TRUE] OBVIOUS
    <3>4. f \in RespFrame /\ f.whole = TRUE /\ f.uniq = srv.uniq /\ f.status = st /\ f.k = srv.k + 1
      BY <1>2, <3>1, <3>3 DEF RespFrame
    <3>5. WellFormed(f) BY <1>2, <3>1, <3>4 DEF WellFormed
    <3>6. SendFrame(f, then) BY <1>4, <2>3, <3>1, <3>2, <3>3 DEF ipcSendSuccessfulResponse
    <3>7. executed' = IF srv.k = 0 THEN executed \cup {srv.msg[1].of} ELSE executed
      BY <1>4, <2>3 DEF ipcSendSuccessfulResponse
    <3>8. /\ srv.in \in Clients /\ srv.msg[1].of = srv.in
          /\ cli[srv.in].sent = ReqFrames[srv.in] /\ inQ[srv.in] = <<>>
      BY <2>1, <2>3, WholeIsAll
    <3>9. executed \subseteq executed' /\ executed' \subseteq Clients /\ srv.in \in executed'
      BY <1>1, <3>7, <3>8 DEF MessageIsTaken, TypeOK
    <3>10. \/ then = Idle
           \/ f.whole /\ srv.k + 1 < RespFrames /\ then = [srv EXCEPT !.k = @ + 1]
      <4>1. srv.k + 1 = RespFrames \/ srv.k + 1 < RespFrames BY <1>2
      <4> QED BY <3>2, <3>4, <4>1, Zenon
    <3> QED BY <2>1, <2>3, <3>4, <3>5, <3>6, <3>8, <3>9, <3>10, FrameSentKeepsIpcInv, Zenon
  <2> QED BY <2>2, <2>3
<1> QED BY <1>3, <1>4

----------------------------------------------------------------------------
(* The theorems.                                                           *)

\* Every step keeps the invariant.
LEMMA NextKeepsIpcInv == IpcInv /\ [Next]_vars => IpcInv'
<1> SUFFICES ASSUME IpcInv, [Next]_vars PROVE IpcInv' OBVIOUS
<1>1. ASSUME NEW c \in Clients, Client(c) PROVE IpcInv'
  BY <1>1, NamingKeepsIpcInv, SendKeepsIpcInv, ReceiveKeepsIpcInv DEF Client
<1>2. CASE Server
  BY <1>2, OpeningKeepsIpcInv, RequestKeepsIpcInv, AnswerKeepsIpcInv DEF Server
<1>3. CASE UNCHANGED vars
  <2>1. TypeOK' /\ MessageIsTaken' BY <1>3 DEF IpcInv, TypeOK, MessageIsTaken, Whole, vars
  <2>2. ASSUME NEW c \in Clients PROVE ClientInv(c)'
    BY <1>3, ClientKept DEF IpcInv, ClientInv, RequestInOrder, vars
  <2> QED BY <2>1, <2>2 DEF IpcInv
<1> QED BY <1>1, <1>2, <1>3 DEF Next

\* The invariant holds in every reachable state.
THEOREM IpcInvariant == Spec => []IpcInv
<1>1. Init => IpcInv BY InitEstablishesIpcInv
<1>2. IpcInv /\ [Next]_vars => IpcInv' BY NextKeepsIpcInv
<1> QED BY <1>1, <1>2, PTL DEF Spec

\* Queues, clients and server stay in their types; no queue of POSIX messages
\* holds more than its limit, whoever writes to it.
THEOREM IpcTypeCorrect == Spec => []TypeOK
<1>1. IpcInv => TypeOK BY DEF IpcInv
<1> QED BY <1>1, IpcInvariant, PTL

\* A client that keeps a complete answer (receiveIpcResponse) has every frame
\* of the answer to its own request, in order, and the request was carried
\* out: for any number of clients that take turns at the queues or give up at
\* any point, and with any metadata of theirs.
THEOREM AcceptedIsOwnAlways == Spec => []AcceptedIsOwn
<1>1. IpcInv => AcceptedIsOwn
  <2> SUFFICES ASSUME IpcInv, NEW c \in Clients, cli[c].result = "ok",
                      NEW i \in DOMAIN cli[c].got, cli[c].got[i].whole
               PROVE  /\ c \in executed
                      /\ Len(cli[c].got) = RespFrames
                      /\ \A j \in 1 .. RespFrames : cli[c].got[j].k = j /\ cli[c].got[j].uniq = c
    BY DEF AcceptedIsOwn
  <2>1. cli[c].got \in Seq(RespFrame) /\ CollectedInOrder(c) /\ WholeIsOnce(c)
    BY DEF IpcInv, TypeOK, ClientState, ClientInv
  <2>2. PICK n \in Nat : n = Len(cli[c].got) /\ i \in 1 .. n BY <2>1, ElementFacts
  <2>3. c \in executed BY <2>1, <2>2 DEF WholeIsOnce, HasWhole
  <2>4. \A j \in 1 .. n : cli[c].got[j].whole
    <3> SUFFICES ASSUME NEW j \in 1 .. n, ~cli[c].got[j].whole PROVE FALSE OBVIOUS
    <3>1. n = 1 BY <2>1, <2>2 DEF CollectedInOrder
    <3> QED BY <2>2, <3>1
  <2>5. \A j \in 1 .. n : cli[c].got[j].k = j /\ cli[c].got[j].uniq = c
    BY <2>1, <2>2, <2>4 DEF CollectedInOrder
  <2>6. cli[c].got[n].k = RespFrames
    <3>1. n \in 1 .. n /\ cli[c].got[n].status # "206" BY <2>1, <2>2 DEF CollectedInOrder
    <3>2. WellFormed(cli[c].got[n]) BY <2>1, <2>2, <3>1 DEF CollectedInOrder
    <3> QED BY <2>4, <3>1, <3>2 DEF WellFormed
  <2>7. n = RespFrames BY <2>2, <2>5, <2>6
  <2> QED BY <2>2, <2>3, <2>5, <2>7
<1> QED BY <1>1, IpcInvariant, PTL

\* A client that is done with its queues unlinks its own and nobody else's
\* (destroyIPC, and newIPC when the second queue cannot be made): the names
\* lead to the queues of the one client that is past creating them.
THEOREM NamesAreOwnedAlways == Spec => []NamesAreOwned
<1>1. Init => NamesAreOwned
  <2>1. ASSUME Init, NEW c \in Clients PROVE cli[c].at = "new"
    <3>1. cli[c] = [at |-> "new", sent |-> 0, got |-> <<>>, result |-> "none"] BY <2>1 DEF Init
    <3> QED BY <3>1
  <2> QED BY <2>1 DEF NamesAreOwned
<1>2. TypeOK /\ NamesAreOwned /\ [Next]_vars => NamesAreOwned'
  <2> SUFFICES ASSUME TypeOK, NamesAreOwned, [Next]_vars PROVE NamesAreOwned' OBVIOUS
  <2>1. cli \in [Clients -> ClientState] BY DEF TypeOK
  <2>2. CASE UNCHANGED <<nameIn, nameOut, cli>> BY <2>2 DEF NamesAreOwned
  <2>3. CASE Server
    BY <2>2, <2>3 DEF Server, ipcCommunication, OpenOut, ipcRequestHandler, ipcSendSuccessfulResponse,
                      ipcSendFailedResponse, cliVars
  <2>4. ASSUME NEW c \in Clients, Client(c) PROVE NamesAreOwned'
    <3>1. \A d \in Clients : d # c => cli'[d].at = cli[d].at
      BY <2>1, <2>4, Zenon DEF Client, newMsgQWriter, newMsgQReader, sendIpcRequest, verifySendingMsg,
                        receiveIpcResponse, destroyIPC, Fail
    <3>2. DOMAIN cli[c] = {"at", "sent", "got", "result"} /\ c \in DOMAIN cli BY <2>1 DEF ClientState
    <3>3. CASE newMsgQWriter(c)
      <4>1. \/ nameIn = None /\ nameIn' = c /\ cli'[c].at = "half"
            \/ nameIn' = nameIn /\ cli'[c].at = "gone"
        BY <3>2, <3>3, ZenonT(40) DEF newMsgQWriter, Fail
      <4> QED BY <3>1, <3>3, <4>1, IpcAssumption DEF newMsgQWriter, NamesAreOwned
    <3>4. CASE newMsgQReader(c)
      <4>1. \/ nameOut = None /\ nameOut' = c /\ nameIn' = nameIn /\ cli'[c].at = "send"
            \/ nameOut' = nameOut /\ nameIn' = None /\ cli'[c].at = "gone"
        BY <3>2, <3>4, ZenonT(40) DEF newMsgQReader, Fail
      <4> QED BY <3>1, <3>4, <4>1, IpcAssumption DEF newMsgQReader, NamesAreOwned
    <3>5. CASE sendIpcRequest(c)
      <4>1. cli'[c].at \in {"send", "verify", "close"} BY <3>2, <3>5, ZenonT(40) DEF sendIpcRequest, Fail
      <4> QED BY <3>1, <3>5, <4>1 DEF sendIpcRequest, NamesAreOwned
    <3>6. CASE verifySendingMsg(c)
      <4>1. cli'[c].at \in {"recv", "close"} BY <3>2, <3>6, Zenon DEF verifySendingMsg, Fail
      <4> QED BY <3>1, <3>6, <4>1 DEF verifySendingMsg, NamesAreOwned
    <3>7. CASE receiveIpcResponse(c)
      <4>1. \/ cli' = [cli EXCEPT ![c].at = "close", ![c].result = "failed"]
            \/ \E f : cli' = [cli EXCEPT ![c].got = Append(@, f),
                                         ![c].at = IF f.status = "206" THEN "recv" ELSE "close",
                                         ![c].result = IF f.status = "206" THEN @ ELSE "ok"]
        BY <3>7, Zenon DEF receiveIpcResponse, Fail
      <4>2. cli'[c].at \in {"recv", "close"}
        <5>1. CASE cli' = [cli EXCEPT ![c].at = "close", ![c].result = "failed"] BY <3>2, <5>1, Zenon
        <5>2. ASSUME NEW f, cli' = [cli EXCEPT ![c].got = Append(@, f),
                                               ![c].at = IF f.status = "206" THEN "recv" ELSE "close",
                                               ![c].result = IF f.status = "206" THEN @ ELSE "ok"]
              PROVE  cli'[c].at \in {"recv", "close"}
          <6>1. PICK a \in {"recv", "close"} : a = IF f.status = "206" THEN "recv" ELSE "close"
            OBVIOUS
          <6>2. PICK g, r : cli' = [cli EXCEPT ![c].got = g, ![c].at = a, ![c].result = r]
            BY <5>2, <6>1, Zenon
          <6> QED BY <3>2, <6>2, Zenon
        <5> QED BY <4>1, <5>1, <5>2, Zenon
      <4> QED BY <3>1, <3>7, <4>2 DEF receiveIpcResponse, NamesAreOwned
    <3>8. CASE destroyIPC(c)
      <4>1. \/ cli[c].at = "close" /\ cli'[c].at = "unlinkOut" /\ nameIn' = None /\ nameOut' = nameOut
            \/ cli[c].at = "unlinkOut" /\ cli'[c].at = "gone" /\ nameOut' = None /\ nameIn' = nameIn
        BY <3>2, <3>8, Zenon DEF destroyIPC
      <4> QED BY <3>1, <4>1, IpcAssumption DEF NamesAreOwned
    <3> QED BY <2>4, <3>3, <3>4, <3>5, <3>6, <3>7, <3>8 DEF Client
  <2> QED BY <2>2, <2>3, <2>4 DEF Next, vars
<1> QED BY <1>1, <1>2, IpcTypeCorrect, PTL DEF Spec
=============================================================================
