-------------------------------- MODULE Ipc --------------------------------
(***************************************************************************)
(* The request/response protocol between the appview command line (client, *)
(* cli/ipc) and the library inside a viewed process (server, ipc.c and     *)
(* ipcCommunication of wrap.c), over two POSIX message queues named after  *)
(* the process.                                                            *)
(*                                                                         *)
(* A client creates both queues exclusively, sends its request in frames,  *)
(* waits until they are consumed, collects the response, and unlinks the   *)
(* queues, early if any of these takes too long.  The server looks in now  *)
(* and then: it opens the request queue, then the response queue, by name, *)
(* and keeps using what it opened even if the names move on to the queues  *)
(* of another client.  A queue is identified with the client that created  *)
(* it, and so is the identifier (uniq) of an exchange.                     *)
(***************************************************************************)
EXTENDS Integers, Sequences

CONSTANTS
    Clients,
    None,
    ReqFrames,      \* per client: the frames of its request
    RespFrames,     \* the frames of a response
    MqMaxMsg,       \* frames that a queue holds (mqMaxMsgMax)
    MsgLimit,       \* frames of a request that the server puts together (INPUT_MSG_ALLOC_LIMIT)
    Disciplined     \* the clients that frame as cli/ipc does; metadata of the others is arbitrary

ASSUME IpcAssumption ==
    /\ None \notin Clients
    /\ ReqFrames \in [Clients -> Nat \ {0}] /\ RespFrames \in Nat \ {0} /\ MqMaxMsg \in Nat \ {0}
    /\ MsgLimit \in Nat \ {0}
    /\ Disciplined \subseteq Clients

VARIABLES
    nameIn, nameOut,   \* whose queues the names AppViewIPCIn/Out.<pid> lead to
    inQ, outQ,         \* per client: the contents of its queues
    cli,               \* per client: step, frames sent, frames received, outcome
    srv,               \* the server: step, opened queues, message, uniq, frames sent
    executed,          \* requests the server has carried out
    unreachable        \* whether UNREACHABLE() was reached

vars == <<nameIn, nameOut, inQ, outQ, cli, srv, executed, unreachable>>

NoUniq == None

\* What ipcParseSingleFrame makes of a frame, apart from its being the last or
\* a partial one.  REQ_PARSE_JSON_ERROR and REQ_PARSE_REQ_ERROR are treated
\* exactly as REQ_PARSE_UNIQ_ERROR, which stands for all three.
ParseStatuses ==
    {"REQ_PARSE_OK", "REQ_PARSE_UNIQ_ERROR", "REQ_PARSE_REMAIN_ERROR",
     "REQ_PARSE_MISSING_APPVIEW_DATA_ERROR"}

\* A request frame: whose it is, its number, its metadata, and how it parses.
ReqFrame == [of : Clients, k : Nat \ {0}, last : BOOLEAN,
             uniq : Clients \cup {NoUniq}, remain : Nat, parse : ParseStatuses]
\* A response frame: its status, and which part of what it answers.
Statuses == {"200", "206", "400", "500"}
RespFrame == [status : Statuses, uniq : Clients \cup {NoUniq}, k : 0 .. RespFrames,
              whole : BOOLEAN]

ClientState ==
    [at : {"new", "half", "send", "verify", "recv", "close", "unlinkOut", "gone"},
     sent : Nat, got : Seq(RespFrame), result : {"none", "ok", "failed"}]
ServerState ==
    [at : {"idle", "openOut", "recv", "answer", "refuse"},
     in : Clients \cup {None}, out : Clients \cup {None},
     msg : Seq(ReqFrame), uniq : Clients \cup {NoUniq}, status : Statuses, k : 0 .. RespFrames]

TypeOK ==
    /\ nameIn \in Clients \cup {None} /\ nameOut \in Clients \cup {None}
    /\ inQ \in [Clients -> Seq(ReqFrame)] /\ outQ \in [Clients -> Seq(RespFrame)]
    /\ \A c \in Clients : Len(inQ[c]) <= MqMaxMsg /\ Len(outQ[c]) <= MqMaxMsg
    /\ cli \in [Clients -> ClientState] /\ srv \in ServerState
    /\ executed \subseteq Clients
    /\ unreachable \in BOOLEAN

Init ==
    /\ nameIn = None /\ nameOut = None
    /\ inQ = [c \in Clients |-> <<>>] /\ outQ = [c \in Clients |-> <<>>]
    /\ cli = [c \in Clients |-> [at |-> "new", sent |-> 0, got |-> <<>>, result |-> "none"]]
    /\ srv = [at |-> "idle", in |-> None, out |-> None, msg |-> <<>>, uniq |-> NoUniq,
              status |-> "200", k |-> 0]
    /\ executed = {}
    /\ unreachable = FALSE

srvVars == <<srv, executed, unreachable>>

----------------------------------------------------------------------------
(* The client.                                                             *)

Fail(c, step) == cli' = [cli EXCEPT ![c].at = step, ![c].result = "failed"]

\* Mutant of newMsgQWriter: the queue is opened without O_EXCL.
newMsgQWriterShared(c) ==
    /\ cli[c].at = "new"
    /\ nameIn' = c
    /\ cli' = [cli EXCEPT ![c].at = "half"]
    /\ UNCHANGED <<nameOut, inQ, outQ, srvVars>>

\* newIPC creates the request queue, which fails while the name is taken ...
newMsgQWriter(c) ==
    /\ cli[c].at = "new"
    /\ \/ nameIn = None /\ nameIn' = c /\ cli' = [cli EXCEPT ![c].at = "half"]
       \/ nameIn # None /\ Fail(c, "gone") /\ UNCHANGED nameIn
    /\ UNCHANGED <<nameOut, inQ, outQ, srvVars>>

\* ... then the response queue; if that fails the first is unlinked again.
newMsgQReader(c) ==
    /\ cli[c].at = "half"
    /\ \/ nameOut = None /\ nameOut' = c /\ cli' = [cli EXCEPT ![c].at = "send"] /\ UNCHANGED nameIn
       \/ nameOut # None /\ Fail(c, "gone") /\ nameIn' = None /\ UNCHANGED nameOut
    /\ UNCHANGED <<inQ, outQ, srvVars>>

\* Frame k of a request, with its metadata.
Frame(c, k, uniq, remain, parse) ==
    [of |-> c, k |-> k, last |-> k = ReqFrames[c], uniq |-> uniq, remain |-> remain, parse |-> parse]

\* The frames that may be sent as frame k.  Remaining bytes are counted in
\* frames.  A client that is not disciplined may send an identifier that nobody
\* has, repeat "remain", or send what does not parse; what is then not read is
\* left out.
Meta(c, k) ==
    LET remain == ReqFrames[c] - k + 1
    IN  IF c \in Disciplined THEN {Frame(c, k, c, remain, "REQ_PARSE_OK")}
        ELSE {Frame(c, k, u, r, "REQ_PARSE_OK") : u \in {c, NoUniq}, r \in {1, remain}}
             \cup {Frame(c, k, u, 0, p) :
                     u \in {c, NoUniq}, p \in ParseStatuses \ {"REQ_PARSE_OK", "REQ_PARSE_UNIQ_ERROR"}}
             \cup {Frame(c, k, NoUniq, 0, "REQ_PARSE_UNIQ_ERROR")}

sendIpcRequest(c) ==
    /\ cli[c].at = "send"
    /\ \/ /\ Len(inQ[c]) < MqMaxMsg
          /\ \E f \in Meta(c, cli[c].sent + 1) : inQ' = [inQ EXCEPT ![c] = Append(@, f)]
          /\ cli' = [cli EXCEPT ![c].sent = @ + 1,
                                ![c].at = IF cli[c].sent + 1 = ReqFrames[c] THEN "verify" ELSE "send"]
       \/ Len(inQ[c]) = MqMaxMsg /\ Fail(c, "close") /\ UNCHANGED inQ    \* errSendTimeout
    /\ UNCHANGED <<nameIn, nameOut, outQ, srvVars>>

verifySendingMsg(c) ==
    /\ cli[c].at = "verify"
    /\ \/ inQ[c] = <<>> /\ cli' = [cli EXCEPT ![c].at = "recv"]
       \/ inQ[c] # <<>> /\ Fail(c, "close")                              \* ErrConsumerTimeout
    /\ UNCHANGED <<nameIn, nameOut, inQ, outQ, srvVars>>

Remain(f) == IF f.k = 0 THEN 0 ELSE RespFrames - f.k + 1

\* Mutant of Rejected: the unique identifier is not compared.
RejectedNoUniq(c, f) == cli[c].got # <<>> /\ Remain(f) > Remain(cli[c].got[Len(cli[c].got)])

\* receiveIpcResponse's checks of a frame.
Rejected(c, f) ==
    \/ f.uniq # c
    \/ cli[c].got # <<>> /\ Remain(f) > Remain(cli[c].got[Len(cli[c].got)])

receiveIpcResponse(c) ==
    /\ cli[c].at = "recv"
    /\ \/ /\ outQ[c] = <<>> /\ Fail(c, "close") /\ UNCHANGED outQ        \* errReceiveTimeout
       \/ /\ outQ[c] # <<>>
          /\ outQ' = [outQ EXCEPT ![c] = Tail(@)]
          /\ LET f == Head(outQ[c])
             IN  IF Rejected(c, f) THEN Fail(c, "close")
                 ELSE cli' = [cli EXCEPT ![c].got = Append(@, f),
                                         ![c].at = IF f.status = "206" THEN "recv" ELSE "close",
                                         ![c].result = IF f.status = "206" THEN @ ELSE "ok"]
    /\ UNCHANGED <<nameIn, nameOut, inQ, srvVars>>

\* Mutant of destroyIPC: the response queue keeps its name.
destroyIPCHalf(c) ==
    /\ cli[c].at = "close" /\ nameIn' = None
    /\ cli' = [cli EXCEPT ![c].at = "gone"]
    /\ UNCHANGED <<nameOut, inQ, outQ, srvVars>>

\* destroyIPC: the names are unlinked one after the other.
destroyIPC(c) ==
    \/ /\ cli[c].at = "close" /\ nameIn' = None
       /\ cli' = [cli EXCEPT ![c].at = "unlinkOut"]
       /\ UNCHANGED <<nameOut, inQ, outQ, srvVars>>
    \/ /\ cli[c].at = "unlinkOut" /\ nameOut' = None
       /\ cli' = [cli EXCEPT ![c].at = "gone"]
       /\ UNCHANGED <<nameIn, inQ, outQ, srvVars>>

Client(c) ==
    \/ newMsgQWriter(c) \/ newMsgQReader(c) \/ sendIpcRequest(c) \/ verifySendingMsg(c)
    \/ receiveIpcResponse(c) \/ destroyIPC(c)

----------------------------------------------------------------------------
(* The server.                                                             *)

cliVars == <<nameIn, nameOut, cli>>
Idle == [at |-> "idle", in |-> None, out |-> None, msg |-> <<>>, uniq |-> NoUniq,
         status |-> "200", k |-> 0]

\* ipcCommunication opens the request queue, and goes on if it holds something.
ipcCommunication ==
    /\ srv.at = "idle" /\ nameIn # None
    /\ inQ[nameIn] # <<>>
    /\ srv' = [srv EXCEPT !.at = "openOut", !.in = nameIn]
    /\ UNCHANGED <<cliVars, inQ, outQ, executed, unreachable>>

OpenOut ==
    /\ srv.at = "openOut"
    /\ srv' = IF nameOut = None THEN Idle ELSE [srv EXCEPT !.at = "recv", !.out = nameOut]
    /\ UNCHANGED <<cliVars, inQ, outQ, executed, unreachable>>

\* translateParseStatusToResp: REQ_PARSE_REMAIN_ERROR is not among its cases,
\* and runs into UNREACHABLE(), after which any status may come out.
translateParseStatusToResp(status) ==
    CASE status = "REQ_PARSE_RECEIVE_TIMEOUT_ERROR" -> {"500"}
      [] status = "REQ_PARSE_REMAIN_ERROR" -> {"200", "400", "500"}
      [] OTHER -> {"400"}

\* The request is given up: the response will be the status alone.
Refuse(status, uniq) ==
    /\ unreachable' = (unreachable \/ status = "REQ_PARSE_REMAIN_ERROR")
    /\ \E s \in translateParseStatusToResp(status) :
          srv' = [srv EXCEPT !.at = "refuse", !.uniq = uniq, !.status = s]

\* uniqVal is assigned once the frame is known to have one.
uniqVal(f) ==
    IF f.parse = "REQ_PARSE_UNIQ_ERROR" THEN srv.uniq ELSE f.uniq

\* ipcRequestHandler, one frame.  ipcParseSingleFrame compares "remain" with a
\* limit that starts anew with every frame, so any value will do.
ipcRequestHandler ==
    /\ srv.at = "recv"
    /\ \/ /\ inQ[srv.in] # <<>>
          /\ inQ' = [inQ EXCEPT ![srv.in] = Tail(@)]
          /\ LET f == Head(inQ[srv.in])
             IN  CASE f.parse # "REQ_PARSE_OK" -> Refuse(f.parse, uniqVal(f))
                   [] f.parse = "REQ_PARSE_OK" /\ Len(srv.msg) = MsgLimit ->
                         Refuse("REQ_PARSE_APPVIEW_SIZE_ERROR", f.uniq)
                   [] OTHER ->
                         /\ srv' = [srv EXCEPT !.msg = Append(@, f), !.uniq = f.uniq,
                                               !.at = IF f.last THEN "answer" ELSE "recv"]
                         /\ UNCHANGED unreachable
       \/ /\ inQ[srv.in] = <<>>                                          \* retry limit
          /\ Refuse("REQ_PARSE_RECEIVE_TIMEOUT_ERROR", srv.uniq)
          /\ UNCHANGED inQ
    /\ UNCHANGED <<cliVars, outQ, executed>>

\* A message is a JSON request when it is all the frames of one.
Whole(msg) ==
    Len(msg) = ReqFrames[msg[1].of] /\ \A i \in DOMAIN msg : msg[i].k = i /\ msg[i].of = msg[1].of

\* A frame fits into the response queue, or the retries run out.  Memory may
\* also run out before it is made.
SendFrame(f, then) ==
    \/ /\ Len(outQ[srv.out]) < MqMaxMsg
       /\ outQ' = [outQ EXCEPT ![srv.out] = Append(@, f)]
       /\ srv' = then
    \/ /\ srv' = Idle
       /\ UNCHANGED outQ

\* ipcSendSuccessfulResponse: the request is carried out once, before its
\* first frame; what is not a request gets a one-frame answer that says so.
ipcSendSuccessfulResponse ==
    /\ srv.at = "answer"
    /\ executed' = IF srv.k = 0 /\ Whole(srv.msg) THEN executed \cup {srv.msg[1].of} ELSE executed
    /\ LET done == ~Whole(srv.msg) \/ srv.k + 1 = RespFrames
       IN  SendFrame([status |-> IF done THEN "200" ELSE "206", uniq |-> srv.uniq,
                      k |-> IF Whole(srv.msg) THEN srv.k + 1 ELSE 0, whole |-> Whole(srv.msg)],
                     IF done THEN Idle ELSE [srv EXCEPT !.k = @ + 1])
    /\ UNCHANGED <<cliVars, inQ, unreachable>>

ipcSendFailedResponse ==
    /\ srv.at = "refuse"
    /\ SendFrame([status |-> srv.status, uniq |-> srv.uniq, k |-> 0, whole |-> FALSE], Idle)
    /\ UNCHANGED <<cliVars, inQ, executed, unreachable>>

Server ==
    ipcCommunication \/ OpenOut \/ ipcRequestHandler \/ ipcSendSuccessfulResponse \/ ipcSendFailedResponse

Next == Server \/ \E c \in Clients : Client(c)

Spec == Init /\ [][Next]_vars

FairSpec == Spec /\ WF_vars(Server) /\ \A c \in Clients : WF_vars(Client(c))

----------------------------------------------------------------------------
(* Properties.                                                             *)

\* A client that accepts a complete response has exactly the response to its
\* own request, every frame of it, in order: no frames of another client, of
\* an aborted answer or of an answer to half a request are mixed in.
AcceptedIsOwn ==
    \A c \in Clients :
        cli[c].result = "ok" /\ (\E i \in DOMAIN cli[c].got : cli[c].got[i].whole)
        => /\ c \in executed
           /\ Len(cli[c].got) = RespFrames
           /\ \A i \in 1 .. RespFrames : cli[c].got[i].k = i /\ cli[c].got[i].uniq = c

\* A client that is done with its queues unlinks its own and nobody else's,
\* and while it talks the names lead to its queues.
NamesAreOwned ==
    \A c \in Clients :
        /\ cli[c].at \in {"half", "send", "verify", "recv", "close"} => nameIn = c
        /\ cli[c].at \in {"send", "verify", "recv", "close", "unlinkOut"} => nameOut = c

\* Every client comes to an end, and leaves the names free for the next.
ClientsFinish == <>(\A c \in Clients : cli[c].at = "gone") /\ <>[](nameIn = None /\ nameOut = None)

\* docs/Ipc.md: each frame of a response has the uniq of the request, so a
\* client finds only frames with its own identifier in its response queue.
ResponsesHaveUniq == \A c \in Clients : \A i \in DOMAIN outQ[c] : outQ[c][i].uniq = c

\* docs/Ipc.md: the frames of a request that is taken have one uniq and
\* a decreasing remain.
FramingRulesEnforced ==
    srv.at = "answer" =>
        \A i, j \in DOMAIN srv.msg :
            i < j => srv.msg[i].uniq = srv.msg[j].uniq /\ srv.msg[i].remain > srv.msg[j].remain

\* The default case of translateParseStatusToResp is never taken.
UnreachableIsUnreachable == ~unreachable
=============================================================================
