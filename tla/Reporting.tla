------------------------------ MODULE Reporting ------------------------------
(***************************************************************************)
(* What becomes of the data an application writes to logged files: the     *)
(* reporting thread (periodic in wrap.c), or the thread that ends the      *)
(* process (handleExit), sends it in passes that reentrancy_guard keeps    *)
(* apart; a new configuration replaces the channel outside that guard.     *)
(* Console says what the steps do, this module who takes them in which     *)
(* order.                                                                  *)
(*                                                                         *)
(* A pass is what doEvent (report.c) does with the log; the events it      *)
(* handles first and the rest of reportPeriodicStuff touch nothing of it.  *)
(***************************************************************************)
EXTENDS Console

CONSTANT Lens    \* lengths of writes

ASSUME ReportingAssumption == Lens \subseteq Nat \ {0}

VARIABLES
    pass,          \* reentrancy_guard: who has it, where in the pass, with what channel
    configuring,   \* the channel doConfig is replacing, or 0
    exit           \* handleExit: where it is and, as history, how it began and went

reportingVars == <<consoleVars, pass, configuring, exit>>

NoPass == [by |-> "none", at |-> "none", ctl |-> 0]

ReportingTypeOK ==
    /\ ConsoleTypeOK
    /\ pass.by \in {"none", "reporter", "exit"}
    /\ pass.at \in {"none", "stop", "connect", "log", "flush", "last"}
    /\ configuring \in 0 .. MaxCtls
    /\ exit.at \in {"no", "waiting", "reporting", "flushed", "done", "gave up"}

ReportingInit ==
    /\ ConsoleInit
    /\ pass = NoPass /\ configuring = 0
    /\ exit = [at |-> "no", mark |-> 0, alone |-> TRUE, ready |-> FALSE, late |-> FALSE]

----------------------------------------------------------------------------
(* Application threads, as long as there is a process.                     *)

Running == exit.at \notin {"done", "gave up"}

\* doWrite: the data is queued.
DoWrite(t) ==
    /\ Running
    /\ \E f \in Fds, n \in Lens : SendLogCall(t, f, n)
    /\ UNCHANGED <<pass, configuring, exit>>

DoWriteEnd(t) ==
    /\ Running
    /\ SendLogPut(t)
    /\ UNCHANGED <<pass, configuring, exit>>

Reopen(f) ==
    /\ Running
    /\ doOpen(f)
    /\ UNCHANGED <<pass, configuring, exit>>

----------------------------------------------------------------------------
(* A pass.                                                                 *)

\* periodic takes the guard; after the start of handleExit at most once more,
\* for it does not go round its loop again when g_exitdone is set.
PassStart ==
    /\ Running /\ pass = NoPass /\ configuring = 0 /\ ~exit.late
    /\ pass' = [by |-> "reporter", at |-> "connect", ctl |-> 0]
    /\ exit' = [exit EXCEPT !.late = exit.at # "no"]
    /\ UNCHANGED <<consoleVars, configuring>>

\* periodic releases the guard, handleExit has something left to do.
AfterPass == IF pass.by = "exit" THEN [pass EXCEPT !.at = "last", !.ctl = g_ctl] ELSE NoPass

\* doConnection.  Nothing is taken from the queue when neither the channel
\* nor, where that counts, the metrics have a connection.
PassConnect ==
    /\ Running /\ pass.at = "connect"
    /\ \E connected \in BOOLEAN, metrics \in BOOLEAN :
          /\ ctlConnect(g_ctl, connected)
          /\ pass' = IF connected \/ metrics THEN [pass EXCEPT !.at = "log", !.ctl = g_ctl]
                                             ELSE AfterPass
          /\ exit' = [exit EXCEPT !.ready = pass.by = "exit" /\ (connected \/ metrics)]
    /\ UNCHANGED configuring

PassLog ==
    /\ Running /\ pass.at = "log"
    /\ FlushLogTurn(pass.ctl)
    /\ UNCHANGED <<pass, configuring, exit>>

PassLogEnd ==
    /\ Running /\ pass.at = "log" /\ ctl[pass.ctl].ring = <<>>
    /\ pass' = [pass EXCEPT !.at = "flush", !.ctl = g_ctl]
    /\ UNCHANGED <<consoleVars, configuring, exit>>

PassFlush ==
    /\ Running /\ pass.at = "flush"
    /\ ctlFlush(pass.ctl)
    /\ pass' = AfterPass
    /\ UNCHANGED <<configuring, exit>>

----------------------------------------------------------------------------
(* A new configuration, on the reporting thread.                           *)

Configure ==
    /\ Running /\ pass.by # "reporter" /\ configuring = 0
    /\ ConfigSwap
    /\ configuring' = g_ctl
    /\ exit' = [exit EXCEPT !.alone = @ /\ exit.at = "no"]
    /\ UNCHANGED pass

ConfigureEnd ==
    /\ Running /\ configuring # 0
    /\ ConfigFlush(configuring)
    /\ configuring' = 0
    /\ UNCHANGED <<pass, exit>>

----------------------------------------------------------------------------
(* The end of the process.                                                 *)

ExitStart ==
    /\ exit.at = "no"
    /\ exit' = [exit EXCEPT !.at = "waiting", !.mark = Len(writes), !.alone = configuring = 0]
    /\ UNCHANGED <<consoleVars, pass, configuring>>

ExitGuard ==
    /\ exit.at = "waiting" /\ pass = NoPass
    /\ pass' = [by |-> "exit", at |-> "stop", ctl |-> 0]
    /\ exit' = [exit EXCEPT !.at = "reporting", !.late = FALSE]
    /\ UNCHANGED <<consoleVars, configuring>>

\* The reporting thread has had the guard for too long.
ExitGiveUp ==
    /\ exit.at = "waiting" /\ pass # NoPass
    /\ exit' = [exit EXCEPT !.at = "gave up", !.late = FALSE]
    /\ UNCHANGED <<consoleVars, pass, configuring>>

ExitStop ==
    /\ pass.at = "stop"
    /\ ctlStopAggregating(g_ctl)
    /\ pass' = [pass EXCEPT !.at = "connect"]
    /\ UNCHANGED <<configuring, exit>>

\* APPVIEW_CONNECT_TIMEOUT_SECS: wait for the connection before that.
ExitConnect ==
    /\ pass.at = "stop" /\ ~ctl[g_ctl].up
    /\ ctlConnect(g_ctl, TRUE)
    /\ UNCHANGED <<pass, configuring, exit>>

\* Once more ctlFlush, and the connections are closed.
ExitFlush ==
    /\ pass.at = "last" /\ exit.at = "reporting"
    /\ ctlFlush(pass.ctl)
    /\ exit' = [exit EXCEPT !.at = "flushed"]
    /\ UNCHANGED <<pass, configuring>>

ExitEnd ==
    /\ exit.at = "flushed"
    /\ ctlDisconnect(g_ctl)
    /\ exit' = [exit EXCEPT !.at = "done"]
    /\ UNCHANGED <<pass, configuring>>

Lost(c) == Running /\ Break(c) /\ UNCHANGED <<pass, configuring, exit>>

----------------------------------------------------------------------------
Pass == PassConnect \/ PassLog \/ PassLogEnd \/ PassFlush

Exit == ExitStart \/ ExitGuard \/ ExitGiveUp \/ ExitStop \/ ExitConnect \/ ExitFlush \/ ExitEnd

ReportingNext ==
    \/ \E t \in Writers : DoWrite(t) \/ DoWriteEnd(t)
    \/ \E f \in Fds : Reopen(f)
    \/ PassStart \/ Pass \/ Configure \/ ConfigureEnd \/ Exit
    \/ \E c \in Ctls : Lost(c)

ReportingSpec == ReportingInit /\ [][ReportingNext]_reportingVars

\* The reporting thread keeps running: it takes every step it can, and its
\* loops end.
FairReportingSpec ==
    /\ ReportingSpec
    /\ WF_reportingVars(PassStart) /\ WF_reportingVars(Pass) /\ WF_reportingVars(ConfigureEnd)

----------------------------------------------------------------------------
(* Properties.                                                             *)

\* A file's data comes out as it went in: what is sent for an opened file was
\* written to that file, no write is sent twice, and none overtakes another,
\* across batches and reused descriptors.  It also holds across replaced
\* channels, unless doConfig and handleExit run at the same time.
SentAsWritten ==
    \A i, j \in DOMAIN sent :
        \A k \in DOMAIN sent[i].data, l \in DOMAIN sent[j].data :
            LET m == sent[i].data[k]
                n == sent[j].data[l]
            IN  /\ writes[m].uid = sent[i].uid
                /\ /\ sent[i].uid = sent[j].uid
                   /\ i < j \/ (i = j /\ k < l)
                   /\ exit.alone \/ writes[m].ctl = writes[n].ctl
                   => m < n

\* Data that was gathered is given up only by a channel whose peer has been
\* away: not by one that is replaced or at exit, as long as doConfig and
\* handleExit do not run at the same time.
DroppedNeedsOutage ==
    exit.alone =>
        \A i \in DOMAIN dropped :
            \A n \in Range(dropped[i].data) : ctl[writes[n].ctl].outage

\* "Ensures all queued events are processed and that we try to send all
\* aggregated data" (wrap.c, handleExit): when it has run its course, with a
\* connection and without doConfig beside it, everything that the channel had
\* accepted before is sent or has been tried.
ExitSendsAll ==
    exit.at = "done" /\ exit.alone /\ exit.ready =>
        \A n \in 1 .. exit.mark :
            writes[n].ctl = g_ctl => n \in SentData \cup DroppedData

\* A write that has left the library, or that is not to be expected to.
Settled(n) ==
    /\ n \in DOMAIN writes
    /\ n \in SentData \cup DroppedData \/ writes[n].ctl # g_ctl \/ exit.at # "no"

\* As long as the connection is there, what the channel accepts does not stay
\* in the library, unless the channel is replaced or the process ends.
NothingLingers ==
    <>[]ctl[g_ctl].up =>
        \A n \in 1 .. MaxWrites : n \in DOMAIN writes ~> Settled(n)
=============================================================================
