---------------------------- MODULE MinuteBackfill -----------------------------
(***************************************************************************)
(* The backfill of raw minute bars from BaoStock: a table of jobs, the     *)
(* runs that work on it, and the day's ledger of requests                  *)
(* (minute_backfill.py, minute_backfill_adapter.py,                        *)
(* minute_backfill_watchdog.py, baostock_minute_backfill_watchdog.py).     *)
(*                                                                         *)
(* A run reserves requests in the ledger, resets stale rows, claims as     *)
(* many rows as it has requests, fetches one after the other, derives the  *)
(* adjusted (qfq) bars of each, and settles the reservation.  The watchdog *)
(* does the work in a child process under a lock and a deadline; the       *)
(* dedicated script does it itself, with neither.  Each request is made by *)
(* one more process, the attempt.                                          *)
(***************************************************************************)
EXTENDS Integers, FiniteSets, Sequences

CONSTANTS
    Proc,         \* those that start runs
    Script,       \* the ones that are the dedicated script
    N,            \* the number of jobs: one asset and month each
    Budget,       \* backfill_request_budget of the day
    Ask,          \* the requests a run asks for (max_jobs)
    MaxAttempts,  \* BACKFILL_JOB_MAX_ATTEMPTS
    MaxRuns       \* bound: runs started

ASSUME BackfillAssumption ==
    /\ Script \subseteq Proc
    /\ N \in Nat /\ Budget \in Nat /\ Ask \in Nat
    /\ MaxAttempts \in Nat \ {0}
    /\ MaxRuns \in Nat

Nobody == "nobody"

ASSUME NobodyAssumption == Nobody \notin Proc

Job == 1 .. N

VARIABLES
    file,      \* the ledger: the documents in it, at most one while it is sound
    flock,     \* who has the ledger locked
    buffer,    \* buffer[p]: the document p has written but not flushed
    status,    \* status[j]: the row of the raw job
    stale,     \* the running rows that are older than the stale time
    qfq,       \* qfq[j]: the row of the derived job says success
    bars,      \* bars[j]: "raw" when there are raw bars, "derived" when the qfq
               \* bars are those of the raw bars
    pc,        \* pc[p]: the step of the run of p
    child,     \* child[p]: the step of the process that works on the rows
    runLock,   \* whose run has the watchdog's lock
    alloc,     \* alloc[p]: allocated_requests
    before,    \* before[p]: the handled rows that pre_rows counts
    since,     \* since[p]: the rows claimed since the run of p started
    queue,     \* queue[p]: the claimed jobs p has not come to
    cur,       \* cur[p]: the job p works on
    tries,     \* tries[p]: its attempts
    count,     \* count[p]: attempted, in the result of the run
    orphan,    \* orphan[p]: the job of an attempt that outlives its run
    used,      \* history: used[p], the jobs the run has requested
    sent,      \* history: the jobs requested that day
    forgotten, \* history: those that were settled as not attempted
    lost,      \* history: an update of the ledger was lost
    late,      \* history: the jobs whose bars an orphan has written
    runs       \* runs started

ledger == <<file, flock, buffer>>
rows == <<status, stale, qfq, bars>>
work == <<since, before, queue, cur, tries>>
result == <<alloc, count, used>>
history == <<sent, forgotten, lost, late>>
vars == <<ledger, rows, pc, child, runLock, work, result, orphan, history, runs>>

Doc == [consumed : Nat, reserved : Nat]
Empty == [consumed |-> 0, reserved |-> 0]

Steps == {"idle", "allocate", "grant", "granted", "scan", "start", "wait",
          "finalize", "settle", "settled"}
Parts == {"none", "claim", "next", "fetch", "mark", "skip", "derive"}

TypeOK ==
    /\ file \in Seq(Doc)
    /\ flock \in Proc \cup {Nobody}
    /\ buffer \in [Proc -> Doc]
    /\ status \in [Job -> {"pending", "running", "success", "skipped"}]
    /\ stale \subseteq Job
    /\ qfq \in [Job -> BOOLEAN]
    /\ bars \in [Job -> {"none", "raw", "derived"}]
    /\ pc \in [Proc -> Steps]
    /\ child \in [Proc -> Parts]
    /\ runLock \in Proc \cup {Nobody}
    /\ alloc \in [Proc -> Nat]
    /\ before \in [Proc -> Nat]
    /\ since \in [Proc -> SUBSET Job]
    /\ queue \in [Proc -> SUBSET Job]
    /\ cur \in [Proc -> 0 .. N]
    /\ tries \in [Proc -> Nat]
    /\ count \in [Proc -> Nat]
    /\ orphan \in [Proc -> 0 .. N]
    /\ used \in [Proc -> Nat]
    /\ sent \in Nat /\ forgotten \in Nat /\ runs \in Nat
    /\ lost \in BOOLEAN
    /\ late \subseteq Job

Init ==
    /\ file = <<>>
    /\ flock = Nobody
    /\ buffer = [p \in Proc |-> Empty]
    /\ status = [j \in Job |-> "pending"]
    /\ stale = {}
    /\ qfq = [j \in Job |-> FALSE]
    /\ bars = [j \in Job |-> "none"]
    /\ pc = [p \in Proc |-> "idle"]
    /\ child = [p \in Proc |-> "none"]
    /\ runLock = Nobody
    /\ alloc = [p \in Proc |-> 0]
    /\ before = [p \in Proc |-> 0]
    /\ since = [p \in Proc |-> {}]
    /\ queue = [p \in Proc |-> {}]
    /\ cur = [p \in Proc |-> 0]
    /\ tries = [p \in Proc |-> 0]
    /\ count = [p \in Proc |-> 0]
    /\ orphan = [p \in Proc |-> 0]
    /\ used = [p \in Proc |-> 0]
    /\ sent = 0
    /\ forgotten = 0
    /\ lost = FALSE
    /\ late = {}
    /\ runs = 0

Smaller(a, b) == IF a < b THEN a ELSE b
OrZero(a) == IF a < 0 THEN 0 ELSE a

Goto(p, step) == pc' = [pc EXCEPT ![p] = step]
GotoPart(p, part) == child' = [child EXCEPT ![p] = part]

Handled == {j \in Job : status[j] \in {"success", "skipped"}}

--------------------------------------------------------------------------------
(* The ledger.  _update_ledger opens the file, locks it, reads, truncates,  *)
(* writes, unlocks and closes.  What it writes stays in the buffer of the   *)
(* handle until it is closed, which is after the unlock.                    *)

Unflushed(p) == pc[p] \in {"granted", "settled"}

Readable == Len(file) <= 1

Read == IF file = <<>> THEN Empty ELSE file[1]

\* Mutant: what other runs have reserved counts as available.
AllocatedOverReservations(doc) == Smaller(Ask, OrZero(Budget - doc.consumed))

\* allocate_daily_backfill_quota
Allocated(doc) == Smaller(Ask, OrZero(Budget - doc.consumed - doc.reserved))

\* Mutant: the reservation is taken off without a floor.
SettleBelowZero(doc, allocated, attempted) ==
    [consumed |-> doc.consumed + Smaller(attempted, allocated),
     reserved |-> doc.reserved - allocated]

\* finalize_daily_backfill_quota
Settle(doc, allocated, attempted) ==
    [consumed |-> doc.consumed + Smaller(attempted, allocated),
     reserved |-> OrZero(doc.reserved - allocated)]

\* The run is over.
Ended(p) ==
    /\ alloc' = [alloc EXCEPT ![p] = 0]
    /\ count' = [count EXCEPT ![p] = 0]
    /\ used' = [used EXCEPT ![p] = 0]

\* Opened while somebody else's document is still to come.
Lock(p) ==
    /\ flock = Nobody
    /\ Readable
    /\ flock' = p
    /\ lost' = (lost \/ \E q \in Proc : Unflushed(q))

Allocate(p) ==
    /\ pc[p] = "allocate"
    /\ Lock(p)
    /\ alloc' = [alloc EXCEPT ![p] = Allocated(Read)]
    /\ buffer' = [buffer EXCEPT ![p] =
           [consumed |-> Read.consumed, reserved |-> Read.reserved + Allocated(Read)]]
    /\ Goto(p, "grant")
    /\ UNCHANGED <<file, rows, child, runLock, work, count, used, orphan, sent,
                   forgotten, late, runs>>

Finalize(p) ==
    /\ pc[p] = "finalize"
    /\ Lock(p)
    /\ buffer' = [buffer EXCEPT ![p] = Settle(Read, alloc[p], count[p])]
    /\ forgotten' = forgotten + OrZero(used[p] - Smaller(count[p], alloc[p]))
    /\ Ended(p)
    /\ Goto(p, "settle")
    /\ UNCHANGED <<file, rows, child, runLock, work, orphan, sent, late, runs>>

\* Two documents in the file are no JSON: the update raises, and so does the run.
Unreadable(p) ==
    /\ pc[p] \in {"allocate", "finalize"}
    /\ flock = Nobody
    /\ ~Readable
    /\ Ended(p)
    /\ Goto(p, "idle")
    /\ UNCHANGED <<ledger, rows, child, runLock, work, orphan, history, runs>>

Truncate(p) ==
    /\ flock = p
    /\ file' = <<>>
    /\ flock' = Nobody
    /\ Goto(p, IF pc[p] = "grant" THEN "granted" ELSE "settled")
    /\ UNCHANGED <<buffer, rows, child, runLock, work, result, orphan, history, runs>>

\* The handle appends.  The script ends here when it has no requests.
Close(p) ==
    /\ Unflushed(p)
    /\ file' = Append(file, buffer[p])
    /\ buffer' = [buffer EXCEPT ![p] = Empty]
    /\ Goto(p, IF pc[p] = "granted" /\ (p \in Script => alloc[p] > 0)
               THEN "scan" ELSE "idle")
    /\ UNCHANGED <<flock, rows, child, runLock, work, result, orphan, history, runs>>

--------------------------------------------------------------------------------
(* The run *)

Launch(p) ==
    /\ pc[p] = "idle" /\ child[p] = "none" /\ orphan[p] = 0
    /\ runs < MaxRuns
    /\ runs' = runs + 1
    /\ Goto(p, "allocate")
    /\ UNCHANGED <<ledger, rows, child, runLock, work, result, orphan, history>>

Ages(j) ==
    /\ status[j] = "running"
    /\ j \notin stale
    /\ stale' = stale \cup {j}
    /\ UNCHANGED <<ledger, status, qfq, bars, pc, child, runLock, work, result,
                   orphan, history, runs>>

Reset(S) ==
    /\ status' = [j \in Job |-> IF j \in S THEN "pending" ELSE status[j]]
    /\ stale' = stale \ S

\* What a run knows of its work is gone with it.
Dropped(p) ==
    /\ since' = [since EXCEPT ![p] = {}]
    /\ before' = [before EXCEPT ![p] = 0]
    /\ queue' = [queue EXCEPT ![p] = {}]
    /\ cur' = [cur EXCEPT ![p] = 0]
    /\ tries' = [tries EXCEPT ![p] = 0]

\* run_watchdog_once reads the rows and has the stale ones reset, whoever works
\* on them: the lock comes after it.
Scan(p) ==
    /\ pc[p] = "scan"
    /\ before' = [before EXCEPT ![p] = Cardinality(Handled)]
    /\ Reset(stale)
    /\ Goto(p, "start")
    /\ UNCHANGED <<ledger, qfq, bars, child, runLock, since, queue, cur, tries, result,
                   orphan, history, runs>>

\* The child inherits the open file of the lock.  A busy lock is a result: nothing
\* was attempted.
Start(p) ==
    /\ pc[p] = "start"
    /\ IF p \in Script \/ runLock = Nobody
       THEN /\ runLock' = IF p \in Script THEN runLock ELSE p
            /\ GotoPart(p, "claim")
            /\ Goto(p, "wait")
            /\ UNCHANGED work
       ELSE /\ Goto(p, "finalize")
            /\ Dropped(p)
            /\ UNCHANGED <<runLock, child>>
    /\ UNCHANGED <<ledger, rows, result, orphan, history, runs>>

\* The database fails before the work has begun.
StartFails(p) ==
    /\ pc[p] \in {"scan", "start"}
    /\ Dropped(p)
    /\ Goto(p, "finalize")
    /\ UNCHANGED <<ledger, rows, child, runLock, result, orphan, history, runs>>

\* No step of a run makes a raw row "failed", which would be claimed too.
Claimable == {j \in Job : status[j] = "pending"}

\* ORDER BY start_date ... LIMIT
FirstOf(S, k) == {j \in S : Cardinality({i \in S : i < j}) < k}

\* claim_backfill_jobs: as many rows as there are requests, at once.
Claim(p) ==
    /\ child[p] = "claim"
    /\ LET S == FirstOf(Claimable, alloc[p]) IN
          /\ status' = [j \in Job |-> IF j \in S THEN "running" ELSE status[j]]
          /\ queue' = [queue EXCEPT ![p] = S]
          /\ since' = [q \in Proc |-> IF pc[q] = "wait" THEN since[q] \cup S ELSE since[q]]
    /\ GotoPart(p, "next")
    /\ UNCHANGED <<ledger, stale, qfq, bars, pc, runLock, before, cur, tries, result,
                   orphan, history, runs>>

\* run_backfill_job_worker: the first attempt.
Attempt(p) ==
    /\ child[p] = "next"
    /\ \E j \in queue[p] :
        /\ cur' = [cur EXCEPT ![p] = j]
        /\ queue' = [queue EXCEPT ![p] = @ \ {j}]
    /\ tries' = [tries EXCEPT ![p] = 1]
    /\ used' = [used EXCEPT ![p] = @ + 1]
    /\ sent' = sent + 1
    /\ GotoPart(p, "fetch")
    /\ UNCHANGED <<ledger, rows, pc, runLock, since, before, alloc, count, orphan,
                   forgotten, lost, late, runs>>

Store(j) == bars' = [bars EXCEPT ![j] = "raw"]

AttemptSucceeds(p) ==
    /\ child[p] = "fetch"
    /\ Store(cur[p])
    /\ GotoPart(p, "mark")
    /\ UNCHANGED <<ledger, status, stale, qfq, pc, runLock, work, result, orphan,
                   history, runs>>

\* One that is too slow is terminated, perhaps after it has stored the bars.
AttemptFails(p) ==
    /\ child[p] = "fetch"
    /\ Store(cur[p]) \/ UNCHANGED bars
    /\ IF tries[p] < MaxAttempts
       THEN tries' = [tries EXCEPT ![p] = @ + 1] /\ UNCHANGED child
       ELSE GotoPart(p, "skip") /\ UNCHANGED tries
    /\ UNCHANGED <<ledger, status, stale, qfq, pc, runLock, since, before, queue, cur, result,
                   orphan, history, runs>>

\* mark_job_success and mark_job_skipped: by job id, whatever the row says.
Mark(p, outcome) ==
    /\ status' = [status EXCEPT ![cur[p]] = outcome]
    /\ stale' = stale \ {cur[p]}
    /\ count' = [count EXCEPT ![p] = @ + 1]

MarkSuccess(p) ==
    /\ child[p] = "mark"
    /\ Mark(p, "success")
    /\ GotoPart(p, "derive")
    /\ UNCHANGED <<ledger, qfq, bars, pc, runLock, work, alloc, used, orphan, history, runs>>

MarkSkipped(p) ==
    /\ child[p] = "skip"
    /\ Mark(p, "skipped")
    /\ GotoPart(p, "next")
    /\ UNCHANGED <<ledger, qfq, bars, pc, runLock, work, alloc, used, orphan, history, runs>>

Derived(j) ==
    /\ bars' = [bars EXCEPT ![j] = "derived"]
    /\ qfq' = [qfq EXCEPT ![j] = TRUE]

\* Mutant: the row says success when the bars do not match.
DeriveLoosely(p) ==
    /\ child[p] = "derive"
    /\ qfq' = [qfq EXCEPT ![cur[p]] = TRUE]
    /\ bars' \in {bars, [bars EXCEPT ![cur[p]] = "derived"]}
    /\ GotoPart(p, "next")
    /\ UNCHANGED <<ledger, status, stale, pc, runLock, work, result, orphan,
                   history, runs>>

\* _derive_qfq_after_raw_success: one transaction.  When adjustment factors are
\* missing it raises, which takes the "failed" of the row back as well.
Derive(p) ==
    /\ child[p] = "derive"
    /\ Derived(cur[p]) \/ UNCHANGED <<bars, qfq>>
    /\ GotoPart(p, "next")
    /\ UNCHANGED <<ledger, status, stale, pc, runLock, work, result, orphan,
                   history, runs>>

--------------------------------------------------------------------------------
(* The end of the work *)

\* The process that works on the rows is gone; an attempt of its own is not.
Gone(p) ==
    /\ GotoPart(p, "none")
    /\ Dropped(p)
    /\ orphan' = IF child[p] = "fetch" THEN [orphan EXCEPT ![p] = cur[p]] ELSE orphan

\* The watchdog unlocks; without it the lock goes with the last process of the run.
Unlock(p) == runLock' = IF runLock = p THEN Nobody ELSE runLock

\* The watchdog, or the script, goes on with the number of attempted jobs.
Resume(p, attempted) ==
    IF pc[p] = "wait"
    THEN /\ Goto(p, "finalize")
         /\ count' = [count EXCEPT ![p] = attempted]
         /\ UNCHANGED <<alloc, used>>
    ELSE Ended(p) /\ UNCHANGED pc

WorkEnds(p) ==
    /\ child[p] = "next"
    /\ queue[p] = {}
    /\ Gone(p)
    /\ Unlock(p)
    /\ Resume(p, count[p])
    /\ UNCHANGED <<ledger, rows, history, runs>>

\* A claim or a mark raises, or the child is killed: there is no result.  An
\* orphan keeps the lock of a watchdog that is gone.
WorkFails(p) ==
    /\ child[p] # "none"
    /\ p \notin Script \/ child[p] # "fetch"
    /\ Gone(p)
    /\ IF pc[p] # "wait" /\ orphan'[p] # 0 THEN UNCHANGED runLock ELSE Unlock(p)
    /\ Resume(p, 0)
    /\ UNCHANGED <<ledger, rows, history, runs>>

\* Mutant: the rows are taken back whatever they say.
TakenBackAll(p) == since[p]

\* reset_running_jobs_in_scope
TakenBack(p) == {j \in since[p] : status[j] = "running"}

\* The deadline of the run: the child is killed, its rows are reset, and what it
\* has attempted is told from the rows.
Timeout(p) ==
    /\ p \notin Script
    /\ pc[p] = "wait"
    /\ Gone(p)
    /\ Reset(TakenBack(p))
    /\ Unlock(p)
    /\ Resume(p, OrZero(Cardinality(Handled) - before[p]))
    /\ UNCHANGED <<ledger, qfq, bars, history, runs>>

OrphanEnds(p) ==
    /\ orphan[p] # 0
    /\ \/ /\ Store(orphan[p])
          /\ late' = late \cup {orphan[p]}
       \/ UNCHANGED <<bars, late>>
    /\ orphan' = [orphan EXCEPT ![p] = 0]
    /\ Unlock(p)
    /\ UNCHANGED <<ledger, status, stale, qfq, pc, child, work, result,
                   sent, forgotten, lost, runs>>

\* Mutant: the lock goes with the watchdog, though its child is at work.
ReleaseWithWatchdog(p) == Unlock(p)

\* The lock is held by the child as well.
ReleaseAtKill(p) == UNCHANGED runLock

\* A kill, or a TERM, which nothing handles: no reservation is settled.  The
\* child of a watchdog goes on.
Killed(p) ==
    /\ pc[p] # "idle"
    /\ Goto(p, "idle")
    /\ flock' = IF flock = p THEN Nobody ELSE flock
    /\ lost' = (lost \/ Unflushed(p))
    /\ IF child[p] = "none" \/ p \in Script
       THEN Gone(p) /\ Ended(p) /\ UNCHANGED runLock
       ELSE ReleaseAtKill(p) /\ UNCHANGED <<child, work, result, orphan>>
    /\ buffer' = [buffer EXCEPT ![p] = Empty]
    /\ UNCHANGED <<file, rows, sent, forgotten, late, runs>>

Update(p) == Allocate(p) \/ Finalize(p) \/ Unreadable(p) \/ Truncate(p) \/ Close(p)

Work(p) ==
    \/ Claim(p) \/ Attempt(p) \/ AttemptSucceeds(p) \/ AttemptFails(p)
    \/ MarkSuccess(p) \/ MarkSkipped(p) \/ Derive(p)
    \/ WorkEnds(p) \/ WorkFails(p) \/ Timeout(p) \/ OrphanEnds(p)

Step(p) ==
    \/ Launch(p) \/ Scan(p) \/ Start(p) \/ StartFails(p) \/ Killed(p)
    \/ Update(p)
    \/ Work(p)

Next == (\E p \in Proc : Step(p)) \/ (\E j \in Job : Ages(j))

Spec == Init /\ [][Next]_vars

--------------------------------------------------------------------------------
(* Properties *)

\* One run of the watchdog works on the table at a time, although watchdogs are
\* killed and their children work on.
OneRun ==
    \A p, q \in Proc \ Script :
        child[p] # "none" /\ child[q] # "none" => p = q

\* The job whose row the run of p will mark.
InHand(p) == IF child[p] \in {"fetch", "mark", "skip"} THEN cur[p] ELSE 0

Queue == INSTANCE WorkQueue
         WITH Worker <- Proc,
              working <- [p \in Proc |-> InHand(p)],
              finished <- Handled

\* With the watchdog alone the table is the work queue: although rows are reset
\* under runs that work on them, none is worked on twice at once and one that
\* was fetched or skipped is never touched again.
WorkedOnce == Queue!Spec

\* A derived row that says success has the bars of the raw bars there are now,
\* whatever was retried, killed or taken back, unless an attempt that outlived
\* its run has stored them again.
DerivedMatchesRaw ==
    \A j \in Job : qfq[j] => bars[j] = "derived" \/ j \in late

\* However runs overlap and end, no more jobs are requested than the day's
\* budget, but for those of runs that were settled as not having attempted
\* them, and as long as no update of the ledger was lost.
BudgetHolds == ~lost => sent <= Budget + forgotten

\* As long as no update of the ledger was lost, no more than the budget of the
\* day is requested, since the end of an interrupted run records what it attempted.
BudgetKept == ~lost => sent <= Budget
================================================================================
