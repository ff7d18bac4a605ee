------------------------------ MODULE Lifecycle ------------------------------
(***************************************************************************)
(* The life of the library inside the processes it is loaded into          *)
(* (src/wrap.c): how the reporting thread is started from any application  *)
(* thread, its loop, the guard it shares with process exit, exit itself,   *)
(* and fork.                                                               *)
(*                                                                         *)
(* Each process has its own copy of the library's globals; fork copies     *)
(* them with the one thread that calls it.  One action per access to a     *)
(* global that threads share.                                              *)
(***************************************************************************)
EXTENDS Integers, FiniteSets

CONSTANTS
    Procs,          \* processes: the first one and those forked from it
    Root,           \* the process the library's constructor runs in
    App,            \* application threads a process may have
    Main,           \* the thread that runs the constructor
    Workers,        \* names for reporting threads (pthread_create)
    CreateMayFail   \* whether pthread_create may fail

ASSUME RootAssumption == Root \in Procs
ASSUME MainAssumption == Main \in App
ASSUME ThreadsAssumption == App \cap Workers = {}
ASSUME CreateAssumption == CreateMayFail \in BOOLEAN

VARIABLES
    state,      \* "unborn", "live" or "dead", per process
    serialize,  \* the static of threadNow: TRUE while a thread is inside
    once,       \* g_thread.once
    guard,      \* reentrancy_guard
    exitdone,   \* g_exitdone
    timer,      \* the SIGUSR2 timer is armed
    apc,        \* where each application thread is
    wpc,        \* where each reporting thread is
    outcome     \* history: how the last handleExit of the process went

vars == <<state, serialize, once, guard, exitdone, timer, apc, wpc, outcome>>

ThreadNowPCs == {"tn_cas", "tn_once", "tn_create", "tn_set", "tn_release"}
ExitPCs == {"ex_check", "ex_set", "ex_try", "ex_wait", "ex_flush", "ex_return"}
AppPCs == {"none", "app"} \cup ThreadNowPCs \cup ExitPCs
WorkerPCs == {"none", "top", "conf", "try", "report", "release", "remote",
              "spin"}
Outcomes == {"none", "flushed", "timedout", "raced"}

AppAt(x, t, l) == state[x] = "live" /\ apc[x][t] = l
AppGoto(x, t, l) == apc' = [apc EXCEPT ![x][t] = l]
WorkerAt(x, w, l) == state[x] = "live" /\ wpc[x][w] = l
WorkerGoto(x, w, l) == wpc' = [wpc EXCEPT ![x][w] = l]

-----------------------------------------------------------------------------
(***************************************************************************)
(* init, the constructor: it either arms the timer (threadInit), which may *)
(* fail or be disabled, or calls threadNow at once (Go, attach, musl).     *)
(***************************************************************************)
Init ==
    /\ state = [x \in Procs |-> IF x = Root THEN "live" ELSE "unborn"]
    /\ serialize = [x \in Procs |-> FALSE]
    /\ once = [x \in Procs |-> FALSE]
    /\ guard = [x \in Procs |-> FALSE]
    /\ exitdone = [x \in Procs |-> FALSE]
    /\ wpc = [x \in Procs |-> [w \in Workers |-> "none"]]
    /\ outcome = [x \in Procs |-> "none"]
    /\ \E armed \in BOOLEAN, l \in {"app", "tn_cas"} :
          /\ timer = [x \in Procs |-> x = Root /\ armed]
          /\ apc = [x \in Procs |->
                      [t \in App |-> IF x = Root /\ t = Main THEN l
                                                            ELSE "none"]]

\* The application starts another thread.
AppSpawn(x, t) ==
    /\ AppAt(x, t, "none")
    /\ AppGoto(x, t, "app")
    /\ UNCHANGED <<state, serialize, once, guard, exitdone, timer, wpc, outcome>>

-----------------------------------------------------------------------------
(***************************************************************************)
(* Starting the reporting thread.                                          *)
(***************************************************************************)

\* doThread, at the start of every interposed function: g_thread.once is
\* read without any lock.
doThread(x, t) ==
    /\ AppAt(x, t, "app")
    /\ ~ once[x]
    /\ AppGoto(x, t, "tn_cas")
    /\ UNCHANGED <<state, serialize, once, guard, exitdone, timer, wpc, outcome>>

\* The timer expires and its signal runs threadNow on some thread.  A signal
\* that lands inside threadNow finds serialize set and returns.
TimerSignal(x, t) ==
    /\ AppAt(x, t, "app")
    /\ timer[x]
    /\ timer' = [timer EXCEPT ![x] = FALSE]
    /\ AppGoto(x, t, "tn_cas")
    /\ UNCHANGED <<state, serialize, once, guard, exitdone, wpc, outcome>>

\* stopTimer, in the interposed sleeping functions
stopTimer(x, t) ==
    /\ AppAt(x, t, "app")
    /\ timer' = [timer EXCEPT ![x] = FALSE]
    /\ AppGoto(x, t, "tn_cas")
    /\ UNCHANGED <<state, serialize, once, guard, exitdone, wpc, outcome>>

\* Mutant of ThreadNowCas: the test and the set are not one step with the rest.
ThreadNowCasUnlocked(x, t) ==
    /\ AppAt(x, t, "tn_cas")
    /\ AppGoto(x, t, "tn_once")
    /\ UNCHANGED <<state, serialize, once, guard, exitdone, timer, wpc, outcome>>

\* if (!atomicCasU64(&serialize, 0, 1)) return
ThreadNowCas(x, t) ==
    /\ AppAt(x, t, "tn_cas")
    /\ serialize' = [serialize EXCEPT ![x] = TRUE]
    /\ AppGoto(x, t, IF serialize[x] THEN "app" ELSE "tn_once")
    /\ UNCHANGED <<state, once, guard, exitdone, timer, wpc, outcome>>

\* if (g_thread.once == TRUE) release and return
ThreadNowOnce(x, t) ==
    /\ AppAt(x, t, "tn_once")
    /\ AppGoto(x, t, IF once[x] THEN "tn_release" ELSE "tn_create")
    /\ UNCHANGED <<state, serialize, once, guard, exitdone, timer, wpc, outcome>>

\* osTimerStop and pthread_create(periodic)
ThreadNowCreate(x, t) ==
    /\ AppAt(x, t, "tn_create")
    /\ timer' = [timer EXCEPT ![x] = FALSE]
    /\ \/ \E w \in Workers : /\ wpc[x][w] = "none"
                             /\ WorkerGoto(x, w, "top")
                             /\ AppGoto(x, t, "tn_set")
       \/ /\ CreateMayFail
          /\ AppGoto(x, t, "tn_release")
          /\ wpc' = wpc
    /\ UNCHANGED <<state, serialize, once, guard, exitdone, outcome>>

\* g_thread.once = TRUE
ThreadNowSet(x, t) ==
    /\ AppAt(x, t, "tn_set")
    /\ once' = [once EXCEPT ![x] = TRUE]
    /\ AppGoto(x, t, "tn_release")
    /\ UNCHANGED <<state, serialize, guard, exitdone, timer, wpc, outcome>>

\* atomicCasU64(&serialize, 1, 0)
ThreadNowRelease(x, t) ==
    /\ AppAt(x, t, "tn_release")
    /\ serialize' = [serialize EXCEPT ![x] = FALSE]
    /\ AppGoto(x, t, "app")
    /\ UNCHANGED <<state, once, guard, exitdone, timer, wpc, outcome>>

threadNow(x, t) ==
    \/ ThreadNowCas(x, t)
    \/ ThreadNowOnce(x, t)
    \/ ThreadNowCreate(x, t)
    \/ ThreadNowSet(x, t)
    \/ ThreadNowRelease(x, t)

-----------------------------------------------------------------------------
(***************************************************************************)
(* periodic, the reporting thread.                                         *)
(***************************************************************************)

\* The top of the loop: park once the process is exiting; otherwise it is
\* time for a summary ("conf"), or not, and then "try" depends on perf.
PeriodicTop(x, w) ==
    /\ WorkerAt(x, w, "top")
    /\ IF exitdone[x] THEN WorkerGoto(x, w, "spin")
       ELSE \E l \in {"conf", "try", "remote"} : WorkerGoto(x, w, l)
    /\ UNCHANGED <<state, serialize, once, guard, exitdone, timer, apc, outcome>>

\* dynConfig, mtcConnect and logConnect; no guard is held
PeriodicConfig(x, w) ==
    /\ WorkerAt(x, w, "conf")
    /\ WorkerGoto(x, w, "try")
    /\ UNCHANGED <<state, serialize, once, guard, exitdone, timer, apc, outcome>>

\* if (atomicCasU64(&reentrancy_guard, 0, 1))
PeriodicTry(x, w) ==
    /\ WorkerAt(x, w, "try")
    /\ guard' = [guard EXCEPT ![x] = TRUE]
    /\ WorkerGoto(x, w, IF guard[x] THEN "remote" ELSE "report")
    /\ UNCHANGED <<state, serialize, once, exitdone, timer, apc, outcome>>

\* reportPeriodicStuff, or doEvent and doPayload
PeriodicReport(x, w) ==
    /\ WorkerAt(x, w, "report")
    /\ WorkerGoto(x, w, "release")
    /\ UNCHANGED <<state, serialize, once, guard, exitdone, timer, apc, outcome>>

\* atomicCasU64(&reentrancy_guard, 1, 0)
PeriodicRelease(x, w) ==
    /\ WorkerAt(x, w, "release")
    /\ guard' = [guard EXCEPT ![x] = FALSE]
    /\ WorkerGoto(x, w, "remote")
    /\ UNCHANGED <<state, serialize, once, exitdone, timer, apc, outcome>>

\* remoteConfig, whose responses flush the control channel, and
\* ipcCommunication; no guard is held
PeriodicRemote(x, w) ==
    /\ WorkerAt(x, w, "remote")
    /\ WorkerGoto(x, w, "top")
    /\ UNCHANGED <<state, serialize, once, guard, exitdone, timer, apc, outcome>>

periodic(x, w) ==
    \/ PeriodicTop(x, w)
    \/ PeriodicConfig(x, w)
    \/ PeriodicTry(x, w)
    \/ PeriodicReport(x, w)
    \/ PeriodicRelease(x, w)
    \/ PeriodicRemote(x, w)

-----------------------------------------------------------------------------
(***************************************************************************)
(* handleExit, called by _exit and by the atexit hook, and the end of the  *)
(* process after it.                                                       *)
(***************************************************************************)
ExitCall(x, t) ==
    /\ AppAt(x, t, "app")
    /\ AppGoto(x, t, "ex_check")
    /\ UNCHANGED <<state, serialize, once, guard, exitdone, timer, wpc, outcome>>

\* if (g_exitdone == TRUE) return
ExitCheck(x, t) ==
    /\ AppAt(x, t, "ex_check")
    /\ AppGoto(x, t, IF exitdone[x] THEN "ex_return" ELSE "ex_set")
    /\ outcome' = [outcome EXCEPT ![x] = IF exitdone[x] THEN "raced" ELSE @]
    /\ UNCHANGED <<state, serialize, once, guard, exitdone, timer, wpc>>

\* g_exitdone = TRUE: not one step with the test above
ExitSet(x, t) ==
    /\ AppAt(x, t, "ex_set")
    /\ exitdone' = [exitdone EXCEPT ![x] = TRUE]
    /\ AppGoto(x, t, "ex_try")
    /\ UNCHANGED <<state, serialize, once, guard, timer, wpc, outcome>>

\* The first attempt at the guard
ExitTry(x, t) ==
    /\ AppAt(x, t, "ex_try")
    /\ guard' = [guard EXCEPT ![x] = TRUE]
    /\ AppGoto(x, t, IF guard[x] THEN "ex_wait" ELSE "ex_flush")
    /\ UNCHANGED <<state, serialize, once, exitdone, timer, wpc, outcome>>

\* Mutant of ExitWait: no bound on the wait for the guard.
ExitWaitForever(x, t) ==
    /\ AppAt(x, t, "ex_wait")
    /\ ~ guard[x]
    /\ guard' = [guard EXCEPT ![x] = TRUE]
    /\ AppGoto(x, t, "ex_flush")
    /\ UNCHANGED <<state, serialize, once, exitdone, timer, wpc, outcome>>

\* Mutant of ExitWait: goes on to flush when the wait has expired.
ExitWaitBargesIn(x, t) ==
    /\ AppAt(x, t, "ex_wait")
    /\ guard' = [guard EXCEPT ![x] = TRUE]
    /\ AppGoto(x, t, "ex_flush")
    /\ UNCHANGED <<state, serialize, once, exitdone, timer, wpc, outcome>>

\* Mutant of ExitWait: the return of the expired wait is missing.
ExitWaitNoReturn(x, t) ==
    /\ AppAt(x, t, "ex_wait")
    /\ guard' = [guard EXCEPT ![x] = TRUE]
    /\ AppGoto(x, t, IF guard[x] THEN "ex_expired" ELSE "ex_flush")
    /\ UNCHANGED <<state, serialize, once, exitdone, timer, wpc, outcome>>

\* The loop that waits for the guard.  Time passes: when the guard stays
\* taken, the clock goes beyond expiration_time and handleExit gives up.
ExitWait(x, t) ==
    /\ AppAt(x, t, "ex_wait")
    /\ guard' = [guard EXCEPT ![x] = TRUE]
    /\ AppGoto(x, t, IF guard[x] THEN "ex_return" ELSE "ex_flush")
    /\ outcome' = [outcome EXCEPT ![x] = IF guard[x] THEN "timedout" ELSE @]
    /\ UNCHANGED <<state, serialize, once, exitdone, timer, wpc>>

\* ctlStopAggregating, reportPeriodicStuff, the flushes and the disconnects;
\* the guard is never given back
ExitFlush(x, t) ==
    /\ AppAt(x, t, "ex_flush")
    /\ outcome' = [outcome EXCEPT ![x] = "flushed"]
    /\ AppGoto(x, t, "ex_return")
    /\ UNCHANGED <<state, serialize, once, guard, exitdone, timer, wpc>>

\* The thread that returns from handleExit ends the process, its other
\* threads included.
ProcessExit(x, t) ==
    /\ AppAt(x, t, "ex_return")
    /\ state' = [state EXCEPT ![x] = "dead"]
    /\ apc' = [apc EXCEPT ![x] = [u \in App |-> "none"]]
    /\ wpc' = [wpc EXCEPT ![x] = [w \in Workers |-> "none"]]
    /\ timer' = [timer EXCEPT ![x] = FALSE]
    /\ UNCHANGED <<serialize, once, guard, exitdone, outcome>>

handleExit(x, t) ==
    \/ ExitCheck(x, t)
    \/ ExitSet(x, t)
    \/ ExitTry(x, t)
    \/ ExitWait(x, t)
    \/ ExitFlush(x, t)
    \/ ProcessExit(x, t)

-----------------------------------------------------------------------------
(***************************************************************************)
(* fork, with doReset in the child.  The child has a copy of the globals   *)
(* and only the calling thread; timers are not inherited.  doReset clears  *)
(* once, drops an inherited guard and re-arms the timer, which may fail;   *)
(* serialize and g_exitdone are as they were in the parent.                *)
(***************************************************************************)

\* Mutant of doReset: once is inherited.
doResetKeepsOnce(x, y) ==
    /\ once' = [once EXCEPT ![y] = once[x]]
    /\ guard' = [guard EXCEPT ![y] = FALSE]
    /\ \E armed \in BOOLEAN : timer' = [timer EXCEPT ![y] = armed]

doReset(x, y) ==
    /\ once' = [once EXCEPT ![y] = FALSE]
    /\ guard' = [guard EXCEPT ![y] = FALSE]
    /\ \E armed \in BOOLEAN : timer' = [timer EXCEPT ![y] = armed]

fork(x, t, y) ==
    /\ AppAt(x, t, "app")
    /\ state[y] = "unborn"
    /\ state' = [state EXCEPT ![y] = "live"]
    /\ serialize' = [serialize EXCEPT ![y] = serialize[x]]
    /\ exitdone' = [exitdone EXCEPT ![y] = exitdone[x]]
    /\ AppGoto(y, t, "app")
    /\ doReset(x, y)
    /\ UNCHANGED <<wpc, outcome>>

-----------------------------------------------------------------------------
Next ==
    \/ \E x \in Procs, t \in App :
          \/ AppSpawn(x, t)
          \/ doThread(x, t)
          \/ TimerSignal(x, t)
          \/ stopTimer(x, t)
          \/ threadNow(x, t)
          \/ ExitCall(x, t)
          \/ handleExit(x, t)
          \/ \E y \in Procs : fork(x, t, y)
    \/ \E x \in Procs, w \in Workers : periodic(x, w)

Spec == Init /\ [][Next]_vars

\* The threads that call the library are scheduled.  Nothing is assumed of
\* the reporting thread: it may hang while it holds the guard.
ExitFairness == \A x \in Procs, t \in App : WF_vars(handleExit(x, t))

\* The main thread keeps calling interposed functions and none of its calls
\* stops half way; so do the threads of the children.
StartFairness ==
    \A x \in Procs, t \in App : /\ WF_vars(threadNow(x, t))
                                /\ WF_vars(doThread(x, t))

FairSpec == Spec /\ ExitFairness /\ StartFairness

-----------------------------------------------------------------------------
TypeOK ==
    /\ state \in [Procs -> {"unborn", "live", "dead"}]
    /\ serialize \in [Procs -> BOOLEAN]
    /\ once \in [Procs -> BOOLEAN]
    /\ guard \in [Procs -> BOOLEAN]
    /\ exitdone \in [Procs -> BOOLEAN]
    /\ timer \in [Procs -> BOOLEAN]
    /\ apc \in [Procs -> [App -> AppPCs]]
    /\ wpc \in [Procs -> [Workers -> WorkerPCs]]
    /\ outcome \in [Procs -> Outcomes]

\* The threads inside the section that serialize protects
Inside(x) ==
    {t \in App : apc[x][t] \in {"tn_once", "tn_create", "tn_set", "tn_release"}}

\* What makes the two properties below inductive: one thread at a time is
\* inside threadNow, and a reporting thread without once is one whose creator
\* is about to set it.  A process that is not running has no threads.
StartInv ==
    \A x \in Procs :
        /\ \A t, u \in Inside(x) : t = u
        /\ \A t \in Inside(x) : serialize[x]
        /\ \A t \in App : apc[x][t] = "tn_create" => ~ once[x]
        /\ \A t \in App : apc[x][t] = "tn_set" =>
              \E w \in Workers : wpc[x][w] # "none"
        /\ \A w \in Workers : wpc[x][w] # "none" =>
              once[x] \/ \E t \in App : apc[x][t] = "tn_set"
        /\ state[x] # "live" => /\ \A t \in App : apc[x][t] = "none"
                                /\ \A w \in Workers : wpc[x][w] = "none"

\* "Create one thread at most": a process never has two reporting threads,
\* whichever threads race into threadNow, however it was forked.
OneReporter ==
    \A x \in Procs : \A v, w \in Workers :
        wpc[x][v] # "none" /\ wpc[x][w] # "none" => v = w

\* g_thread.once is TRUE only in a process that has its reporting thread: a
\* child never inherits the flag without the thread.
OnceMeansRunning ==
    \A x \in Procs : state[x] = "live" /\ once[x] => \E w \in Workers : wpc[x][w] # "none"

\* The threads of a process that are in code the guard protects: the drain of
\* the event and payload rings, and the final flush.
Holders(x) ==
    {w \in Workers : wpc[x][w] \in {"report", "release"}}
        \cup {t \in App : apc[x][t] = "ex_flush"}

\* reportPeriodicStuff, doEvent and the exit flush never run in two threads of
\* a process at the same time: the rings they read have one reader.
GuardExclusion ==
    \A x \in Procs : \A a, b \in Holders(x) : a = b

\* Whoever is in guarded code has set the guard.
GuardTaken == \A x \in Procs : Holders(x) # {} => guard[x]

\* handleExit "allows events to be reported" before the process is gone: a
\* process ends after the final flush, or after the bounded wait for it.
ExitReports ==
    \A x \in Procs : state[x] = "dead" => outcome[x] \in {"flushed", "timedout"}

\* A stuck reporting thread does not keep a process from exiting.
ExitCompletes ==
    \A x \in Procs, t \in App :
        apc[x][t] \in ExitPCs ~> state[x] = "dead"

\* A process that stays alive and calls interposed functions gets its
\* reporting thread, a forked one as well.
ReporterStarts ==
    \A x \in Procs :
        state[x] = "live" ~> \/ \E w \in Workers : wpc[x][w] # "none"
                             \/ \E t \in App : apc[x][t] \in ExitPCs

\* handleExit, "let the periodic thread finish": while a process flushes and
\* disconnects at exit, its reporting thread is not using the same channels.
PeriodicFinished ==
    \A x \in Procs : (\E t \in App : apc[x][t] = "ex_flush") =>
        \A w \in Workers : wpc[x][w] \notin {"conf", "report", "remote"}
=============================================================================
