------------------------------ MODULE Counters ------------------------------
(***************************************************************************)
(* A metric counter that application threads add to (doUpdateState in      *)
(* state.c) and that the reporting thread reads, sends and swaps with zero *)
(* (report.c): two accesses, with updates possible in between.             *)
(*                                                                         *)
(* The verbosity decides which of two counters carries the metric.  With   *)
(* summary, doTotal reports the total of the process.  Without, the thread *)
(* that updates the counter of a descriptor also posts a copy of it as an  *)
(* event and clears it, while reportFD reports the same counter            *)
(* periodically.  ctr is the counter of the mode in force; the other one   *)
(* is not reported in that mode.                                           *)
(*                                                                         *)
(* Which metric it is (bytes, operations, errors) makes no difference.     *)
(***************************************************************************)
EXTENDS Integers, Sequences

CONSTANTS
    Threads,     \* application threads
    Modes,       \* values of summary to start with
    MaxCtr,      \* UINTMAX_MAX: atomicAddU64 does not count past it
    Amounts,     \* how much one operation adds
    MaxAdded,    \* bound on what is added in all
    MaxCopies    \* capacity of the event ring

ASSUME CountersAssumption ==
    /\ Modes \subseteq BOOLEAN
    /\ MaxCtr \in Nat /\ MaxAdded \in Nat /\ MaxCopies \in Nat
    /\ Amounts \subseteq Nat \ {0}

VARIABLES
    summary,     \* g_summary, for this metric
    ctr,         \* the counter
    upd,         \* per thread: where it is in doUpdateState
    copies,      \* copies of the counter in the event ring
    total,       \* where the reporting thread is with this metric
    val,         \* what it has sent and not yet taken off
    queued,      \* history: sum of the copies
    reported,    \* history: sum of the values sent
    added,       \* history: sum of the updates
    lossy        \* history: two accesses overlapped, or something did not fit

countersVars == <<summary, ctr, upd, copies, total, val, queued, reported, added, lossy>>

CountersTypeOK ==
    /\ summary \in BOOLEAN
    /\ ctr \in 0 .. MaxCtr
    /\ upd \in [Threads -> {"idle", "post", "clear"}]
    /\ copies \in Seq(0 .. MaxCtr)
    /\ total \in {"idle", "send", "reset"}
    /\ val \in 0 .. MaxCtr
    /\ queued \in Int /\ reported \in Nat /\ added \in Nat
    /\ lossy \in BOOLEAN

CountersInit ==
    /\ summary \in Modes
    /\ ctr = 0
    /\ upd = [t \in Threads |-> "idle"]
    /\ copies = <<>>
    /\ total = "idle" /\ val = 0
    /\ queued = 0 /\ reported = 0 /\ added = 0 /\ lossy = FALSE

----------------------------------------------------------------------------
(* Application threads.                                                    *)

\* Mutant of atomicAddU64: the overflow is not noticed.
atomicAddU64Unchecked(n) == ctr + n

\* The sum, or the largest value where it would overflow.
atomicAddU64(n) == IF ctr + n > MaxCtr THEN MaxCtr ELSE ctr + n

\* The counter has been read by someone, to be cleared.
WindowOpen == total = "reset" \/ \E t \in Threads : upd[t] = "clear"

\* Mutant of Add: the event is reported in summary mode too.
AddAlwaysPosts(t, n) ==
    /\ upd[t] = "idle" /\ added + n <= MaxAdded
    /\ ctr' = atomicAddU64(n)
    /\ added' = added + n
    /\ lossy' = (lossy \/ WindowOpen \/ ctr + n > MaxCtr)
    /\ upd' = [upd EXCEPT ![t] = "post"]
    /\ UNCHANGED <<summary, copies, total, val, queued, reported>>

\* addToInterfaceCounts, the first thing doUpdateState does.
Add(t, n) ==
    /\ upd[t] = "idle" /\ added + n <= MaxAdded
    /\ ctr' = atomicAddU64(n)
    /\ added' = added + n
    /\ lossy' = (lossy \/ WindowOpen \/ ctr + n > MaxCtr)
    /\ upd' = [upd EXCEPT ![t] = IF summary THEN "idle" ELSE "post"]
    /\ UNCHANGED <<summary, copies, total, val, queued, reported>>

\* postFSState, postNetState: a copy goes to the event ring, or is dropped
\* there; the return value says that the caller is to clear the counter.
Post(t) ==
    /\ upd[t] = "post"
    /\ IF Len(copies) < MaxCopies
       THEN copies' = Append(copies, ctr) /\ queued' = queued + ctr
       ELSE UNCHANGED <<copies, queued>>
    /\ lossy' = (lossy \/ WindowOpen \/ Len(copies) >= MaxCopies)
    /\ upd' = [upd EXCEPT ![t] = "clear"]
    /\ UNCHANGED <<summary, ctr, total, val, reported, added>>

\* Mutant of Clear: the counter is left to the periodic report.
ClearNot(t) ==
    /\ upd[t] = "clear"
    /\ upd' = [upd EXCEPT ![t] = "idle"]
    /\ UNCHANGED <<summary, ctr, copies, total, val, queued, reported, added, lossy>>

\* The atomicSwapU64 that follows a post.
Clear(t) ==
    /\ upd[t] = "clear"
    /\ ctr' = 0
    /\ upd' = [upd EXCEPT ![t] = "idle"]
    /\ UNCHANGED <<summary, copies, total, val, queued, reported, added, lossy>>

----------------------------------------------------------------------------
(* The reporting thread.                                                   *)

\* doEvent: the copy in an event is reported with doFSMetric, doNetMetric.
EventReport ==
    /\ total = "idle" /\ copies # <<>>
    /\ reported' = reported + Head(copies)
    /\ copies' = Tail(copies) /\ queued' = queued - Head(copies)
    /\ UNCHANGED <<summary, ctr, upd, total, val, added, lossy>>

\* doTotal with summary, reportFD without: nothing is done for a zero.
TotalCheck ==
    /\ total = "idle" /\ ctr # 0
    /\ total' = "send"
    /\ UNCHANGED <<summary, ctr, upd, copies, val, queued, reported, added, lossy>>

\* The value is read again for the event, which is sent.
TotalSend ==
    /\ total = "send"
    /\ val' = ctr
    /\ reported' = reported + ctr
    /\ total' = "reset"
    /\ lossy' = (lossy \/ WindowOpen)
    /\ UNCHANGED <<summary, ctr, upd, copies, queued, added>>

\* The counter is swapped with zero, whatever it has become.
TotalReset ==
    /\ total = "reset"
    /\ ctr' = 0
    /\ val' = 0
    /\ total' = "idle"
    /\ UNCHANGED <<summary, upd, copies, queued, reported, added, lossy>>

\* doConfig replaces the channel, and with it the event ring.
NewEventRing ==
    /\ copies' = <<>> /\ queued' = 0
    /\ lossy' = (lossy \/ queued # 0)
    /\ UNCHANGED <<summary, ctr, upd, total, val, reported, added>>

Update(t) == (\E n \in Amounts : Add(t, n)) \/ Post(t) \/ Clear(t)

Report == EventReport \/ TotalCheck \/ TotalSend \/ TotalReset \/ NewEventRing

CountersNext == (\E t \in Threads : Update(t)) \/ Report

CountersSpec == CountersInit /\ [][CountersNext]_countersVars

----------------------------------------------------------------------------
(* Properties.                                                             *)

\* What is in the counter and has not been sent.
Unsent == IF total = "reset" THEN ctr - val ELSE ctr

\* The metric of the process never says more than the application did,
\* whatever threads add while doTotal reports: nothing is counted in a report
\* and again in the next one.
NeverOverReported == summary => reported + Unsent <= added

\* In either mode a metric is wrong only when two accesses of its counter
\* overlap: one adds to it, or reads it, while another has read it and not
\* yet cleared it.  Otherwise what is reported, on its way in an event, or
\* still in the counter adds up to what was done.
ExactWithoutOverlap ==
    ~lossy => reported + queued + (IF WindowOpen THEN 0 ELSE ctr) = added

\* A metric reported per descriptor never says more than was done.
DetailNotOverReported == reported <= added
=============================================================================
