--------------------------- MODULE LifecycleProofs ---------------------------
(***************************************************************************)
(* Proofs about Lifecycle, for any number of processes and threads: one    *)
(* reporting thread per process, once set only where that thread exists,   *)
(* and one thread at a time in guarded code.                               *)
(***************************************************************************)
EXTENDS Lifecycle, TLAPS

\* What moving one application thread changes.
LEMMA AppGotoFacts ==
  ASSUME TypeOK, NEW x \in Procs, NEW t \in App, NEW l \in AppPCs,
         AppGoto(x, t, l)
  PROVE  /\ apc' \in [Procs -> [App -> AppPCs]]
         /\ apc'[x][t] = l
         /\ \A y \in Procs, u \in App : y # x \/ u # t => apc'[y][u] = apc[y][u]
  BY DEF TypeOK, AppGoto

\* What moving one reporting thread changes.
LEMMA WorkerGotoFacts ==
  ASSUME TypeOK, NEW x \in Procs, NEW w \in Workers, NEW l \in WorkerPCs,
         WorkerGoto(x, w, l)
  PROVE  /\ wpc' \in [Procs -> [Workers -> WorkerPCs]]
         /\ wpc'[x][w] = l
         /\ \A y \in Procs, v \in Workers :
               y # x \/ v # w => wpc'[y][v] = wpc[y][v]
  BY DEF TypeOK, WorkerGoto

(***************************************************************************)
(* The globals and the threads' positions keep their types.                *)
(***************************************************************************)
THEOREM TypeCorrect == Spec => []TypeOK
<1>1. Init => TypeOK
  BY DEF Init, TypeOK, AppPCs, ThreadNowPCs, ExitPCs, WorkerPCs, Outcomes
<1>2. TypeOK /\ [Next]_vars => TypeOK'
  <2> SUFFICES ASSUME TypeOK, [Next]_vars PROVE TypeOK'
    OBVIOUS
  <2> USE AppGotoFacts, WorkerGotoFacts
      DEF TypeOK, AppPCs, ThreadNowPCs, ExitPCs, WorkerPCs, Outcomes
  <2>1. ASSUME NEW x \in Procs, NEW t \in App,
               AppSpawn(x, t) \/ doThread(x, t) \/ ExitCall(x, t)
        PROVE  TypeOK'
    BY <2>1 DEF AppSpawn, doThread, ExitCall
  <2>2. ASSUME NEW x \in Procs, NEW t \in App,
               TimerSignal(x, t) \/ stopTimer(x, t)
        PROVE  TypeOK'
    <3>1. CASE TimerSignal(x, t)
      BY <3>1 DEF TimerSignal
    <3>2. CASE stopTimer(x, t)
      BY <3>2 DEF stopTimer
    <3> QED BY <2>2, <3>1, <3>2
  <2>3. ASSUME NEW x \in Procs, NEW t \in App, threadNow(x, t)
        PROVE  TypeOK'
    <3>1. CASE ThreadNowCas(x, t)
      BY <3>1 DEF ThreadNowCas
    <3>2. CASE ThreadNowOnce(x, t)
      BY <3>2 DEF ThreadNowOnce
    <3>3. CASE ThreadNowCreate(x, t)
      BY <3>3 DEF ThreadNowCreate
    <3>4. CASE ThreadNowSet(x, t)
      BY <3>4 DEF ThreadNowSet
    <3>5. CASE ThreadNowRelease(x, t)
      BY <3>5 DEF ThreadNowRelease
    <3> QED BY <2>3, <3>1, <3>2, <3>3, <3>4, <3>5 DEF threadNow
  <2>4. ASSUME NEW x \in Procs, NEW t \in App, handleExit(x, t)
        PROVE  TypeOK'
    <3>1. CASE ExitCheck(x, t)
      BY <3>1 DEF ExitCheck
    <3>2. CASE ExitSet(x, t)
      BY <3>2 DEF ExitSet
    <3>3. CASE ExitTry(x, t)
      BY <3>3 DEF ExitTry
    <3>4. CASE ExitWait(x, t)
      BY <3>4 DEF ExitWait
    <3>5. CASE ExitFlush(x, t)
      BY <3>5 DEF ExitFlush
    <3>6. CASE ProcessExit(x, t)
      BY <3>6 DEF ProcessExit
    <3> QED BY <2>4, <3>1, <3>2, <3>3, <3>4, <3>5, <3>6 DEF handleExit
  <2>5. ASSUME NEW x \in Procs, NEW t \in App, NEW y \in Procs, fork(x, t, y)
        PROVE  TypeOK'
    BY <2>5 DEF fork, doReset
  <2>6. ASSUME NEW x \in Procs, NEW w \in Workers, periodic(x, w)
        PROVE  TypeOK'
    <3>1. CASE PeriodicTop(x, w)
      BY <3>1 DEF PeriodicTop
    <3>2. CASE PeriodicConfig(x, w) \/ PeriodicReport(x, w) \/ PeriodicRemote(x, w)
      BY <3>2 DEF PeriodicConfig, PeriodicReport, PeriodicRemote
    <3>3. CASE PeriodicTry(x, w)
      BY <3>3 DEF PeriodicTry
    <3>4. CASE PeriodicRelease(x, w)
      BY <3>4 DEF PeriodicRelease
    <3> QED BY <2>6, <3>1, <3>2, <3>3, <3>4 DEF periodic
  <2>7. CASE UNCHANGED vars
    BY <2>7 DEF vars
  <2> QED
    BY <2>1, <2>2, <2>3, <2>4, <2>5, <2>6, <2>7 DEF Next
<1> QED
  BY <1>1, <1>2, PTL DEF Spec

-----------------------------------------------------------------------------
(***************************************************************************)
(* Starting the reporting thread.                                          *)
(***************************************************************************)
Reporter == StartInv /\ OneReporter /\ OnceMeansRunning

\* A thread that moves from outside the serialized section to outside it, in
\* a live process, with the globals of threadNow as they are.
LEMMA OutsideStep ==
  ASSUME TypeOK, Reporter, NEW x \in Procs, NEW t \in App,
         state[x] = "live",
         apc[x][t] \notin {"tn_once", "tn_create", "tn_set", "tn_release"},
         NEW l \in AppPCs \ {"tn_once", "tn_create", "tn_set", "tn_release"},
         AppGoto(x, t, l),
         UNCHANGED <<state, once, wpc>>,
         \A y \in Procs : serialize[y] => serialize'[y]
  PROVE  Reporter'
<1>1. /\ apc'[x][t] = l
      /\ \A y \in Procs, u \in App : y # x \/ u # t => apc'[y][u] = apc[y][u]
  BY AppGotoFacts
<1>2. /\ \A y \in Procs : Inside(y)' = Inside(y)
      /\ \A y \in Procs, u \in App :
            /\ apc'[y][u] = "tn_create" <=> apc[y][u] = "tn_create"
            /\ apc'[y][u] = "tn_set" <=> apc[y][u] = "tn_set"
  BY <1>1 DEF Inside
<1>3. StartInv'
  BY <1>1, <1>2 DEF Reporter, StartInv
<1> QED
  BY <1>3 DEF Reporter, OneReporter, OnceMeansRunning

\* A step of a running reporting thread.
LEMMA WorkerStep ==
  ASSUME TypeOK, Reporter, NEW x \in Procs, NEW w \in Workers,
         wpc[x][w] # "none", NEW l \in WorkerPCs \ {"none"},
         WorkerGoto(x, w, l),
         UNCHANGED <<state, serialize, once, apc>>
  PROVE  Reporter'
<1>1. \A y \in Procs, v \in Workers : wpc'[y][v] # "none" <=> wpc[y][v] # "none"
  BY WorkerGotoFacts
<1>2. StartInv'
  BY <1>1 DEF Reporter, StartInv, Inside
<1> QED
  BY <1>1, <1>2 DEF Reporter, OneReporter, OnceMeansRunning

\* The inductive invariant holds: every action keeps it.
THEOREM ReporterInvariant == Spec => []Reporter
<1>1. Init => Reporter
  BY DEF Init, Reporter, StartInv, OneReporter, OnceMeansRunning, Inside
<1>2. TypeOK /\ TypeOK' /\ Reporter /\ [Next]_vars => Reporter'
  <2> SUFFICES ASSUME TypeOK, TypeOK', Reporter, [Next]_vars PROVE Reporter'
    OBVIOUS
  <2> USE DEF AppPCs, ThreadNowPCs, ExitPCs, WorkerPCs
  <2>1. ASSUME NEW x \in Procs, NEW t \in App,
               \/ AppSpawn(x, t) \/ doThread(x, t) \/ ExitCall(x, t)
               \/ TimerSignal(x, t) \/ stopTimer(x, t)
        PROVE  Reporter'
    <3>1. \E l \in {"app", "tn_cas", "ex_check"} : AppGoto(x, t, l)
      BY <2>1 DEF AppSpawn, doThread, ExitCall, TimerSignal, stopTimer
    <3>2. /\ UNCHANGED <<state, serialize, once, wpc>>
          /\ state[x] = "live" /\ apc[x][t] \in {"none", "app"}
      BY <2>1 DEF AppSpawn, doThread, ExitCall, TimerSignal, stopTimer, AppAt
    <3> QED BY <3>1, <3>2, OutsideStep
  <2>2. ASSUME NEW x \in Procs, NEW t \in App,
               \/ ExitCheck(x, t) \/ ExitSet(x, t) \/ ExitTry(x, t)
               \/ ExitWait(x, t) \/ ExitFlush(x, t)
        PROVE  Reporter'
    <3>1. \E l \in ExitPCs : AppGoto(x, t, l)
      BY <2>2 DEF ExitCheck, ExitSet, ExitTry, ExitWait, ExitFlush
    <3>2. /\ UNCHANGED <<state, serialize, once, wpc>>
          /\ state[x] = "live" /\ apc[x][t] \in ExitPCs
      BY <2>2 DEF ExitCheck, ExitSet, ExitTry, ExitWait, ExitFlush, AppAt
    <3> QED BY <3>1, <3>2, OutsideStep
  <2>3. ASSUME NEW x \in Procs, NEW t \in App, ThreadNowCas(x, t)
        PROVE  Reporter'
    <3>1. CASE serialize[x]
      <4>1. /\ AppGoto(x, t, "app") /\ apc[x][t] = "tn_cas"
            /\ state[x] = "live" /\ UNCHANGED <<state, once, wpc>>
            /\ \A y \in Procs : serialize[y] => serialize'[y]
        BY <2>3, <3>1 DEF ThreadNowCas, AppAt, TypeOK
      <4> QED BY <4>1, OutsideStep
    <3>2. CASE ~ serialize[x]
      <4>1. /\ apc'[x][t] = "tn_once" /\ apc[x][t] = "tn_cas"
            /\ \A y \in Procs, u \in App :
                  y # x \/ u # t => apc'[y][u] = apc[y][u]
            /\ state[x] = "live" /\ serialize'[x]
            /\ \A y \in Procs : serialize[y] => serialize'[y]
            /\ UNCHANGED <<state, once, wpc>>
        BY <2>3, <3>2, AppGotoFacts DEF ThreadNowCas, AppAt, TypeOK
      <4>2. Inside(x) = {}
        BY <3>2 DEF Reporter, StartInv
      <4>3. /\ Inside(x)' = {t}
            /\ \A y \in Procs : y # x => Inside(y)' = Inside(y)
        BY <4>1, <4>2 DEF Inside
      <4>4. StartInv'
        BY <4>1, <4>3 DEF Reporter, StartInv
      <4> QED BY <4>1, <4>4 DEF Reporter, OneReporter, OnceMeansRunning
    <3> QED BY <3>1, <3>2
  <2>4. ASSUME NEW x \in Procs, NEW t \in App, ThreadNowOnce(x, t)
        PROVE  Reporter'
    <3>1. /\ apc'[x][t] = IF once[x] THEN "tn_release" ELSE "tn_create"
          /\ apc[x][t] = "tn_once"
          /\ \A y \in Procs, u \in App :
                y # x \/ u # t => apc'[y][u] = apc[y][u]
          /\ state[x] = "live" /\ UNCHANGED <<state, serialize, once, wpc>>
      BY <2>4, AppGotoFacts DEF ThreadNowOnce, AppAt
    <3>2. \A y \in Procs : Inside(y)' = Inside(y)
      BY <3>1 DEF Inside
    <3>3. StartInv'
      BY <3>1, <3>2 DEF Reporter, StartInv
    <3> QED BY <3>1, <3>3 DEF Reporter, OneReporter, OnceMeansRunning
  <2>5. ASSUME NEW x \in Procs, NEW t \in App, ThreadNowCreate(x, t)
        PROVE  Reporter'
    <3>1. /\ apc[x][t] = "tn_create" /\ state[x] = "live"
          /\ UNCHANGED <<state, serialize, once>>
      BY <2>5 DEF ThreadNowCreate, AppAt
    <3>2. /\ ~ once[x] /\ t \in Inside(x)
          /\ \A u \in App : apc[x][u] # "tn_set"
          /\ \A w \in Workers : wpc[x][w] = "none"
      BY <3>1 DEF Reporter, StartInv, Inside
    <3>3. CASE AppGoto(x, t, "tn_release") /\ wpc' = wpc
      <4>1. /\ apc'[x][t] = "tn_release"
            /\ \A y \in Procs, u \in App :
                  y # x \/ u # t => apc'[y][u] = apc[y][u]
        BY <3>3, AppGotoFacts
      <4>2. \A y \in Procs : Inside(y)' = Inside(y)
        BY <3>1, <4>1 DEF Inside
      <4>3. StartInv'
        BY <3>1, <3>2, <3>3, <4>1, <4>2 DEF Reporter, StartInv
      <4> QED BY <3>1, <3>3, <4>3 DEF Reporter, OneReporter, OnceMeansRunning
    <3>4. ASSUME NEW w \in Workers,
                 WorkerGoto(x, w, "top"), AppGoto(x, t, "tn_set")
          PROVE  Reporter'
      <4>1. /\ apc'[x][t] = "tn_set"
            /\ \A y \in Procs, u \in App :
                  y # x \/ u # t => apc'[y][u] = apc[y][u]
        BY <3>4, AppGotoFacts
      <4>2. /\ wpc'[x][w] = "top"
            /\ \A y \in Procs, v \in Workers :
                  y # x \/ v # w => wpc'[y][v] = wpc[y][v]
        BY <3>4, WorkerGotoFacts
      <4>3. \A y \in Procs : Inside(y)' = Inside(y)
        BY <3>1, <4>1 DEF Inside
      <4>4. StartInv'
        BY <3>1, <3>2, <4>1, <4>2, <4>3 DEF Reporter, StartInv
      <4>5. OneReporter'
        BY <3>2, <4>2 DEF Reporter, OneReporter
      <4>6. OnceMeansRunning'
        BY <3>1, <3>2, <4>2 DEF Reporter, OnceMeansRunning
      <4> QED BY <4>4, <4>5, <4>6 DEF Reporter
    <3> QED BY <2>5, <3>3, <3>4 DEF ThreadNowCreate
  <2>6. ASSUME NEW x \in Procs, NEW t \in App, ThreadNowSet(x, t)
        PROVE  Reporter'
    <3>1. /\ apc'[x][t] = "tn_release" /\ apc[x][t] = "tn_set"
          /\ \A y \in Procs, u \in App :
                y # x \/ u # t => apc'[y][u] = apc[y][u]
          /\ once' = [once EXCEPT ![x] = TRUE]
          /\ state[x] = "live" /\ UNCHANGED <<state, serialize, wpc>>
      BY <2>6, AppGotoFacts DEF ThreadNowSet, AppAt
    <3>2. /\ \A y \in Procs : Inside(y)' = Inside(y)
          /\ t \in Inside(x)
      BY <3>1 DEF Inside
    <3>3. \A u \in App : apc[x][u] # "tn_create"
      BY <3>1, <3>2 DEF Reporter, StartInv, Inside
    <3>4. StartInv'
      BY <3>1, <3>2, <3>3 DEF Reporter, StartInv, TypeOK
    <3>5. OnceMeansRunning'
      BY <3>1 DEF Reporter, StartInv, OnceMeansRunning, TypeOK
    <3> QED BY <3>1, <3>4, <3>5 DEF Reporter, OneReporter
  <2>7. ASSUME NEW x \in Procs, NEW t \in App, ThreadNowRelease(x, t)
        PROVE  Reporter'
    <3>1. /\ apc'[x][t] = "app" /\ apc[x][t] = "tn_release"
          /\ \A y \in Procs, u \in App :
                y # x \/ u # t => apc'[y][u] = apc[y][u]
          /\ \A y \in Procs : y # x => serialize'[y] = serialize[y]
          /\ state[x] = "live" /\ UNCHANGED <<state, once, wpc>>
      BY <2>7, AppGotoFacts DEF ThreadNowRelease, AppAt, TypeOK
    <3>2. t \in Inside(x)
      BY <3>1 DEF Inside
    <3>3. /\ Inside(x)' = {}
          /\ \A y \in Procs : y # x => Inside(y)' = Inside(y)
      BY <3>1, <3>2 DEF Inside, Reporter, StartInv
    <3>4. StartInv'
      BY <3>1, <3>3 DEF Reporter, StartInv
    <3> QED BY <3>1, <3>4 DEF Reporter, OneReporter, OnceMeansRunning
  <2>8. ASSUME NEW x \in Procs, NEW t \in App, ProcessExit(x, t)
        PROVE  Reporter'
    <3>1. /\ \A u \in App : apc'[x][u] = "none"
          /\ \A w \in Workers : wpc'[x][w] = "none"
          /\ \A y \in Procs : y # x =>
                /\ apc'[y] = apc[y] /\ wpc'[y] = wpc[y]
                /\ state'[y] = state[y]
          /\ state'[x] = "dead"
          /\ UNCHANGED <<once, serialize>>
      BY <2>8 DEF ProcessExit, TypeOK
    <3>2. /\ Inside(x)' = {}
          /\ \A y \in Procs : y # x => Inside(y)' = Inside(y)
      BY <3>1 DEF Inside
    <3>3. StartInv'
      BY <3>1, <3>2 DEF Reporter, StartInv
    <3> QED BY <3>1, <3>3 DEF Reporter, OneReporter, OnceMeansRunning
  <2>9. ASSUME NEW x \in Procs, NEW t \in App, NEW y \in Procs, fork(x, t, y)
        PROVE  Reporter'
    <3>1. /\ state[y] = "unborn" /\ state'[y] = "live"
          /\ apc'[y][t] = "app"
          /\ \A z \in Procs, u \in App :
                z # y \/ u # t => apc'[z][u] = apc[z][u]
          /\ ~ once'[y]
          /\ \A z \in Procs : z # y => /\ state'[z] = state[z]
                                       /\ once'[z] = once[z]
                                       /\ serialize'[z] = serialize[z]
          /\ wpc' = wpc
      BY <2>9, AppGotoFacts DEF fork, doReset, TypeOK
    <3>2. /\ \A u \in App : apc[y][u] = "none"
          /\ \A w \in Workers : wpc[y][w] = "none"
      BY <3>1 DEF Reporter, StartInv
    <3>3. /\ Inside(y)' = {}
          /\ \A z \in Procs : z # y => Inside(z)' = Inside(z)
      BY <3>1, <3>2 DEF Inside
    <3>4. StartInv'
      BY <3>1, <3>2, <3>3 DEF Reporter, StartInv
    <3>5. OnceMeansRunning'
      BY <3>1 DEF Reporter, OnceMeansRunning
    <3> QED BY <3>1, <3>4, <3>5 DEF Reporter, OneReporter
  <2>10. ASSUME NEW x \in Procs, NEW w \in Workers, periodic(x, w)
         PROVE  Reporter'
    <3>1. /\ wpc[x][w] # "none"
          /\ UNCHANGED <<state, serialize, once, apc>>
      BY <2>10 DEF periodic, PeriodicTop, PeriodicConfig, PeriodicTry,
         PeriodicReport, PeriodicRelease, PeriodicRemote, WorkerAt
    <3>2. \E l \in WorkerPCs \ {"none"} : WorkerGoto(x, w, l)
      BY <2>10 DEF periodic, PeriodicTop, PeriodicConfig, PeriodicTry,
         PeriodicReport, PeriodicRelease, PeriodicRemote
    <3> QED BY <3>1, <3>2, WorkerStep
  <2>11. CASE UNCHANGED vars
    BY <2>11 DEF vars, Reporter, StartInv, OneReporter, OnceMeansRunning,
       Inside
  <2> QED
    BY <2>1, <2>2, <2>3, <2>4, <2>5, <2>6, <2>7, <2>8, <2>9, <2>10, <2>11
       DEF Next, threadNow, handleExit
<1> QED
  BY <1>1, <1>2, TypeCorrect, PTL DEF Spec

(***************************************************************************)
(* Every process has at most one reporting thread, and g_thread.once is    *)
(* set only where there is one: for any number of threads racing into      *)
(* threadNow from interposed calls, timer signals and sleeps, with         *)
(* failures of pthread_create, and for every process in a tree of forks.   *)
(***************************************************************************)
THEOREM ReporterCorrect == Spec => [](OneReporter /\ OnceMeansRunning)
<1>1. Reporter => OneReporter /\ OnceMeansRunning
  BY DEF Reporter
<1> QED
  BY <1>1, ReporterInvariant, PTL

\* g_thread.once never stands for a thread that the process does not have.
THEOREM OnceCorrect == Spec => []OnceMeansRunning
BY ReporterCorrect, PTL

-----------------------------------------------------------------------------
(***************************************************************************)
(* The guard.                                                              *)
(***************************************************************************)
Guarded == GuardExclusion /\ GuardTaken

\* A step that brings nobody into guarded code and gives up no guard.
LEMMA GuardFrame ==
  ASSUME Guarded,
         \A x \in Procs : Holders(x)' \subseteq Holders(x),
         \A x \in Procs : Holders(x)' # {} => (guard[x] => guard'[x])
  PROVE  Guarded'
  BY DEF Guarded, GuardExclusion, GuardTaken

\* A step that finds the guard free, takes it and enters.
LEMMA GuardEnter ==
  ASSUME Guarded, NEW x \in Procs, ~ guard[x], guard'[x], NEW h,
         Holders(x)' = Holders(x) \cup {h},
         \A y \in Procs : y # x => /\ Holders(y)' = Holders(y)
                                   /\ guard'[y] = guard[y]
  PROVE  Guarded'
<1>1. Holders(x) = {}
  BY DEF Guarded, GuardTaken
<1> QED
  BY <1>1 DEF Guarded, GuardExclusion, GuardTaken

(***************************************************************************)
(* At most one thread of a process is in the code that reads the event and *)
(* payload rings or in the final flush: for any number of reporting,       *)
(* exiting and forking threads.  So the rings drained there have the one   *)
(* reader that OwnershipCorrect (CircBufProofs) asks for.                  *)
(***************************************************************************)
THEOREM GuardCorrect == Spec => []GuardExclusion
<1>1. Init => Guarded
  BY DEF Init, Guarded, GuardExclusion, GuardTaken, Holders
<1>2. TypeOK /\ Reporter /\ Guarded /\ [Next]_vars => Guarded'
  <2> SUFFICES ASSUME TypeOK, Reporter, Guarded, [Next]_vars PROVE Guarded'
    OBVIOUS
  <2> USE DEF AppPCs, ThreadNowPCs, ExitPCs, WorkerPCs
  <2>1. ASSUME NEW x \in Procs, NEW t \in App, NEW l \in AppPCs \ {"ex_flush"},
               AppGoto(x, t, l), wpc' = wpc, guard' = guard
        PROVE  Guarded'
    <3>1. \A y \in Procs : Holders(y)' \subseteq Holders(y)
      BY <2>1, AppGotoFacts DEF Holders
    <3> QED BY <2>1, <3>1, GuardFrame
  <2>2. ASSUME NEW x \in Procs, NEW t \in App,
               \/ AppSpawn(x, t) \/ doThread(x, t) \/ ExitCall(x, t)
               \/ TimerSignal(x, t) \/ stopTimer(x, t)
        PROVE  Guarded'
    <3>1. \E l \in {"app", "tn_cas", "ex_check"} : AppGoto(x, t, l)
      BY <2>2 DEF AppSpawn, doThread, ExitCall, TimerSignal, stopTimer
    <3>2. wpc' = wpc /\ guard' = guard
      BY <2>2 DEF AppSpawn, doThread, ExitCall, TimerSignal, stopTimer
    <3> QED BY <2>1, <3>1, <3>2
  <2>3. ASSUME NEW x \in Procs, NEW t \in App, threadNow(x, t)
        PROVE  Guarded'
    <3>1. \E l \in ThreadNowPCs \cup {"app"} : AppGoto(x, t, l)
      BY <2>3 DEF threadNow, ThreadNowCas, ThreadNowOnce, ThreadNowCreate,
         ThreadNowSet, ThreadNowRelease
    <3>2. guard' = guard
      BY <2>3 DEF threadNow, ThreadNowCas, ThreadNowOnce, ThreadNowCreate,
         ThreadNowSet, ThreadNowRelease
    <3>3. wpc' = wpc \/ \E w \in Workers : WorkerGoto(x, w, "top")
      BY <2>3 DEF threadNow, ThreadNowCas, ThreadNowOnce, ThreadNowCreate,
         ThreadNowSet, ThreadNowRelease
    <3>4. \A y \in Procs : Holders(y)' \subseteq Holders(y)
      BY <3>1, <3>3, AppGotoFacts, WorkerGotoFacts DEF Holders
    <3> QED BY <3>2, <3>4, GuardFrame
  <2>4. ASSUME NEW x \in Procs, NEW t \in App,
               ExitCheck(x, t) \/ ExitSet(x, t) \/ ExitFlush(x, t)
        PROVE  Guarded'
    <3>1. \E l \in ExitPCs \ {"ex_flush"} : AppGoto(x, t, l)
      BY <2>4 DEF ExitCheck, ExitSet, ExitFlush
    <3>2. wpc' = wpc /\ guard' = guard
      BY <2>4 DEF ExitCheck, ExitSet, ExitFlush
    <3> QED BY <2>1, <3>1, <3>2
  <2>5. ASSUME NEW x \in Procs, NEW t \in App, ExitTry(x, t) \/ ExitWait(x, t)
        PROVE  Guarded'
    <3>1. /\ apc[x][t] \in {"ex_try", "ex_wait"}
          /\ guard' = [guard EXCEPT ![x] = TRUE] /\ wpc' = wpc
      BY <2>5 DEF ExitTry, ExitWait, AppAt
    <3>2. CASE guard[x]
      <4>1. \E l \in {"ex_wait", "ex_return"} : AppGoto(x, t, l)
        BY <2>5, <3>2 DEF ExitTry, ExitWait
      <4>2. guard' = guard
        BY <3>1, <3>2 DEF TypeOK
      <4> QED BY <2>1, <3>1, <4>1, <4>2
    <3>3. CASE ~ guard[x]
      <4>1. AppGoto(x, t, "ex_flush")
        BY <2>5, <3>3 DEF ExitTry, ExitWait
      <4>2. /\ Holders(x)' = Holders(x) \cup {t}
            /\ \A y \in Procs : y # x => Holders(y)' = Holders(y)
        BY <3>1, <4>1, AppGotoFacts DEF Holders
      <4> QED BY <3>1, <3>3, <4>2, GuardEnter DEF TypeOK
    <3> QED BY <3>2, <3>3
  <2>6. ASSUME NEW x \in Procs, NEW t \in App, ProcessExit(x, t)
        PROVE  Guarded'
    <3>1. \A y \in Procs : Holders(y)' \subseteq Holders(y)
      BY <2>6 DEF ProcessExit, Holders, TypeOK
    <3>2. guard' = guard
      BY <2>6 DEF ProcessExit
    <3> QED BY <3>1, <3>2, GuardFrame
  <2>7. ASSUME NEW x \in Procs, NEW t \in App, NEW y \in Procs, fork(x, t, y)
        PROVE  Guarded'
    <3>1. /\ apc'[y][t] = "app" /\ state[y] = "unborn"
          /\ \A z \in Procs, u \in App :
                z # y \/ u # t => apc'[z][u] = apc[z][u]
          /\ \A z \in Procs : z # y => guard'[z] = guard[z]
          /\ wpc' = wpc
      BY <2>7, AppGotoFacts DEF fork, doReset, TypeOK
    <3>2. Holders(y)' = {}
      BY <3>1 DEF Reporter, StartInv, Holders
    <3>3. \A z \in Procs : Holders(z)' \subseteq Holders(z)
      BY <3>1 DEF Holders
    <3> QED BY <3>1, <3>2, <3>3, GuardFrame
  <2>8. ASSUME NEW x \in Procs, NEW w \in Workers,
               NEW l \in WorkerPCs \ {"report", "release"},
               WorkerGoto(x, w, l), apc' = apc, guard' = guard
        PROVE  Guarded'
    <3>1. \A y \in Procs : Holders(y)' \subseteq Holders(y)
      BY <2>8, WorkerGotoFacts DEF Holders
    <3> QED BY <2>8, <3>1, GuardFrame
  <2>9. ASSUME NEW x \in Procs, NEW w \in Workers,
               PeriodicTop(x, w) \/ PeriodicConfig(x, w) \/ PeriodicRemote(x, w)
        PROVE  Guarded'
    <3>1. \E l \in WorkerPCs \ {"report", "release"} : WorkerGoto(x, w, l)
      BY <2>9 DEF PeriodicTop, PeriodicConfig, PeriodicRemote
    <3>2. apc' = apc /\ guard' = guard
      BY <2>9 DEF PeriodicTop, PeriodicConfig, PeriodicRemote
    <3> QED BY <2>8, <3>1, <3>2
  <2>10. ASSUME NEW x \in Procs, NEW w \in Workers, PeriodicTry(x, w)
         PROVE  Guarded'
    <3>1. /\ wpc[x][w] = "try" /\ apc' = apc
          /\ guard' = [guard EXCEPT ![x] = TRUE]
      BY <2>10 DEF PeriodicTry, WorkerAt
    <3>2. CASE guard[x]
      <4>1. WorkerGoto(x, w, "remote")
        BY <2>10, <3>2 DEF PeriodicTry
      <4>2. guard' = guard
        BY <3>1, <3>2 DEF TypeOK
      <4> QED BY <2>8, <3>1, <4>1, <4>2
    <3>3. CASE ~ guard[x]
      <4>1. WorkerGoto(x, w, "report")
        BY <2>10, <3>3 DEF PeriodicTry
      <4>2. /\ Holders(x)' = Holders(x) \cup {w}
            /\ \A y \in Procs : y # x => Holders(y)' = Holders(y)
        BY <3>1, <4>1, WorkerGotoFacts DEF Holders
      <4> QED BY <3>1, <3>3, <4>2, GuardEnter DEF TypeOK
    <3> QED BY <3>2, <3>3
  <2>11. ASSUME NEW x \in Procs, NEW w \in Workers, PeriodicReport(x, w)
         PROVE  Guarded'
    <3>1. /\ wpc[x][w] = "report" /\ apc' = apc /\ guard' = guard
          /\ WorkerGoto(x, w, "release")
      BY <2>11 DEF PeriodicReport, WorkerAt
    <3>2. \A y \in Procs : Holders(y)' \subseteq Holders(y)
      BY <3>1, WorkerGotoFacts DEF Holders
    <3> QED BY <3>1, <3>2, GuardFrame
  <2>12. ASSUME NEW x \in Procs, NEW w \in Workers, PeriodicRelease(x, w)
         PROVE  Guarded'
    <3>1. /\ wpc[x][w] = "release" /\ apc' = apc
          /\ guard' = [guard EXCEPT ![x] = FALSE]
          /\ WorkerGoto(x, w, "remote")
      BY <2>12 DEF PeriodicRelease, WorkerAt
    <3>2. w \in Holders(x) /\ w \notin App
      BY <3>1, ThreadsAssumption DEF Holders
    <3>3. Holders(x) = {w}
      BY <3>2 DEF Guarded, GuardExclusion
    <3>4. /\ Holders(x)' = Holders(x) \ {w}
          /\ \A y \in Procs : y # x => Holders(y)' = Holders(y)
      BY <3>1, <3>2, WorkerGotoFacts DEF Holders
    <3> QED BY <3>1, <3>3, <3>4, GuardFrame DEF TypeOK
  <2>13. CASE UNCHANGED vars
    BY <2>13 DEF vars, Guarded, GuardExclusion, GuardTaken, Holders
  <2> QED
    BY <2>2, <2>3, <2>4, <2>5, <2>6, <2>7, <2>9, <2>10, <2>11, <2>12, <2>13
       DEF Next, handleExit, periodic
<1>3. Guarded => GuardExclusion
  BY DEF Guarded
<1> QED
  BY <1>1, <1>2, <1>3, TypeCorrect, ReporterInvariant, PTL DEF Spec
=============================================================================
