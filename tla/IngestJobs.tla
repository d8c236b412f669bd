------------------------------- MODULE IngestJobs -------------------------------
(***************************************************************************)
(* The finance ingest: ingest.batch_job rows worked off by the worker      *)
(* processes of run-ingest-loop (ingest_jobs.py), under a watchdog that    *)
(* resets stale rows and kills and restarts the loop                       *)
(* (finance_ingest_watchdog.py).                                           *)
(*                                                                         *)
(* A loop process runs rounds.  In a round each of its workers claims and  *)
(* runs at most Quota jobs, lowest job first, pending or failed.  Rows do  *)
(* not say who runs them: a row is taken back when it has been running for *)
(* longer than the stall time, whoever runs it.                            *)
(***************************************************************************)
EXTENDS Integers, FiniteSets

CONSTANTS
    N,           \* jobs of the dataset, in the order they are claimed
    Loop,        \* loop processes; one that has ended may be spawned anew
    Slot,        \* the worker processes of one loop
    Quota,       \* claims of one worker in one round
    MaxFaults,   \* bound: failed batches, hangs, deaths and errors altogether
    SlowJobs,    \* may a batch that is making progress outlast the stall time?
    StrayLoop,   \* may the loop found at first not lead a process group?
    DogDiesInRestart   \* may the watchdog die between a reset and the spawn?

ASSUME IngestAssumption ==
    /\ N \in Nat
    /\ Quota \in Nat
    /\ MaxFaults \in Nat
    /\ SlowJobs \in BOOLEAN
    /\ StrayLoop \in BOOLEAN
    /\ DogDiesInRestart \in BOOLEAN

Job == 1 .. N
Worker == Loop \X Slot

VARIABLES
    status,    \* status[j]: the status column of job j
    stale,     \* the running jobs that started longer ago than the stall time
    ended,     \* history: jobs whose row a worker has marked, either way
    on,        \* the loop processes that exist
    leader,    \* the loop processes that were spawned in a group of their own
    tried,     \* loops with an attempt in the current round
    wpc,       \* wpc[w]: what worker w is doing
    wjob,      \* wjob[w]: the job w works on, or 0
    left,      \* left[w]: claims w may still make in this round
    dog,       \* the step of the watchdog
    pid,       \* {l}: the loop the watchdog looks after, {} before it has one
    seen,      \* what the snapshot of the watchdog says
    faults     \* faults so far

rows == <<status, stale>>
workers == <<wpc, wjob, left>>
loops == <<on, leader, tried>>
watchdog == <<dog, pid, seen>>
vars == <<rows, ended, loops, workers, watchdog, faults>>

Statuses == {"pending", "running", "failed", "success"}

\* A worker with a claimed job that will get on with it.
Working == {"syncing", "synced", "erred"}

\* Between rounds, between jobs, stuck in a sync, or ended by an exception.
WorkerSteps == Working \cup {"idle", "ready", "hung", "raised"}

DogSteps == {"start", "count", "latest", "decide", "missing", "stalled",
             "kill", "spawn", "done"}

Seen == [settled : BOOLEAN, running : BOOLEAN, stalled : BOOLEAN]

NoSnapshot == [settled |-> FALSE, running |-> FALSE, stalled |-> FALSE]

TypeOK ==
    /\ status \in [Job -> Statuses]
    /\ stale \subseteq {j \in Job : status[j] = "running"}
    /\ ended \subseteq Job
    /\ on \subseteq Loop
    /\ leader \subseteq Loop
    /\ tried \subseteq Loop
    /\ wpc \in [Worker -> WorkerSteps]
    /\ wjob \in [Worker -> 0 .. N]
    /\ left \in [Worker -> 0 .. Quota]
    /\ dog \in DogSteps
    /\ pid \in SUBSET Loop
    /\ seen \in Seen
    /\ faults \in 0 .. MaxFaults

Of(l) == {l} \X Slot

\* Jobs that nobody has run yet; or the loop was started by hand before the
\* watchdog, and then it need not lead its process group.
Init ==
    /\ status = [j \in Job |-> "pending"]
    /\ stale = {}
    /\ ended = {}
    /\ on \in {{}} \cup {{l} : l \in Loop}
    /\ leader \in IF StrayLoop THEN {on, {}} ELSE {on}
    /\ tried = {}
    /\ wpc = [w \in Worker |-> IF w[1] \in on THEN "ready" ELSE "idle"]
    /\ wjob = [w \in Worker |-> 0]
    /\ left = [w \in Worker |-> IF w[1] \in on THEN Quota ELSE 0]
    /\ dog = "start"
    /\ pid = {}
    /\ seen = NoSnapshot
    /\ faults = 0

Fault ==
    /\ faults < MaxFaults
    /\ faults' = faults + 1

--------------------------------------------------------------------------------
(* Workers: run_ingest_jobs. *)

\* Mutant: the claim looks at running rows too.
RunnableOrRunning == {j \in Job : status[j] # "success"}

Runnable == {j \in Job : status[j] \in {"pending", "failed"}}

\* The first row that claim_runnable_jobs finds.
First(j) == j \in Runnable /\ \A i \in Runnable : j <= i

\* A row leaves the running state, or enters it anew, and is not stale then.
SetStatus(j, s) ==
    /\ status' = [status EXCEPT ![j] = s]
    /\ stale' = stale \ {j}

\* Worker w goes on to another step, with its job as long as it works on it.
Goto(w, step) ==
    /\ wpc' = [wpc EXCEPT ![w] = step]
    /\ wjob' = [wjob EXCEPT ![w] = IF step \in Working THEN wjob[w] ELSE 0]
    /\ left' = [left EXCEPT ![w] = IF step \in Working \cup {"ready"}
                                   THEN left[w] ELSE 0]

\* Mutant: a worker claims once more than its share.
ClaimBeyondQuota(w) ==
    /\ wpc[w] = "ready"
    /\ \E j \in Job :
          /\ First(j)
          /\ SetStatus(j, "running")
          /\ wjob' = [wjob EXCEPT ![w] = j]
    /\ wpc' = [wpc EXCEPT ![w] = "syncing"]
    /\ left' = [left EXCEPT ![w] = left[w] - 1]
    /\ tried' = tried \cup ({w[1]} \cap on)
    /\ UNCHANGED <<ended, on, leader, watchdog, faults>>

\* claim_runnable_jobs, FOR UPDATE SKIP LOCKED, and its commit.
Claim(w) ==
    /\ wpc[w] = "ready"
    /\ left[w] > 0
    /\ \E j \in Job :
          /\ First(j)
          /\ SetStatus(j, "running")
          /\ wjob' = [wjob EXCEPT ![w] = j]
    /\ wpc' = [wpc EXCEPT ![w] = "syncing"]
    /\ left' = [left EXCEPT ![w] = left[w] - 1]
    /\ tried' = tried \cup ({w[1]} \cap on)
    /\ UNCHANGED <<ended, on, leader, watchdog, faults>>

\* The quota is used up or nothing is runnable.
WorkerEnds(w) ==
    /\ wpc[w] = "ready"
    /\ left[w] = 0 \/ Runnable = {}
    /\ Goto(w, "idle")
    /\ UNCHANGED <<rows, ended, loops, watchdog, faults>>

\* The sync of the batch returns, its rows committed.  An asset that raised is
\* counted in failed_codes and left out: the batch returns all the same, and
\* nobody looks at the count.
SyncReturns(w) ==
    /\ wpc[w] = "syncing"
    /\ Goto(w, "synced")
    /\ UNCHANGED <<rows, ended, loops, watchdog, faults>>

\* The batch itself raises: the login, the flush or the database.
SyncFails(w) ==
    /\ wpc[w] = "syncing"
    /\ Fault
    /\ Goto(w, "erred")
    /\ UNCHANGED <<rows, ended, loops, watchdog>>

\* mark_job_success and its commit: whatever the row says by now.
MarkSuccess(w) ==
    /\ wpc[w] = "synced"
    /\ SetStatus(wjob[w], "success")
    /\ ended' = ended \cup {wjob[w]}
    /\ Goto(w, "ready")
    /\ UNCHANGED <<loops, watchdog, faults>>

\* mark_job_failed and its commit; an interrupt is raised again after it.
MarkFailed(w) ==
    /\ wpc[w] = "erred"
    /\ SetStatus(wjob[w], "failed")
    /\ ended' = ended \cup {wjob[w]}
    /\ \E step \in {"ready", "raised"} : Goto(w, step)
    /\ UNCHANGED <<loops, watchdog, faults>>

\* The database fails in a claim or in a mark: the exception ends the worker
\* and the row stays as it is.
WorkerRaises(w) ==
    /\ wpc[w] \in {"ready", "synced", "erred"}
    /\ Fault
    /\ Goto(w, "raised")
    /\ UNCHANGED <<rows, ended, loops, watchdog>>

\* The data source never answers.
Hang(w) ==
    /\ wpc[w] = "syncing"
    /\ Fault
    /\ Goto(w, "hung")
    /\ UNCHANGED <<rows, ended, loops, watchdog>>

--------------------------------------------------------------------------------
(* Loop processes: run_ingest_loop and its process pool. *)

\* Mutant: running rows count as settled.
SettledNothingPending == \A j \in Job : status[j] # "pending"

Settled == \A j \in Job : status[j] \in {"failed", "success"}

\* The process of loop l is gone; the workers W with it.
Gone(l, W) ==
    /\ on' = on \ {l}
    /\ tried' = tried \ {l}
    /\ wpc' = [w \in Worker |-> IF w \in W THEN "idle" ELSE wpc[w]]
    /\ wjob' = [w \in Worker |-> IF w \in W THEN 0 ELSE wjob[w]]
    /\ left' = [w \in Worker |-> IF w \in W THEN 0 ELSE left[w]]
    /\ UNCHANGED leader

\* The workers of l are ready for another round.
NewRound(l) ==
    /\ wpc' = [w \in Worker |-> IF w \in Of(l) THEN "ready" ELSE wpc[w]]
    /\ wjob' = [w \in Worker |-> IF w \in Of(l) THEN 0 ELSE wjob[w]]
    /\ left' = [w \in Worker |-> IF w \in Of(l) THEN Quota ELSE left[w]]
    /\ tried' = tried \ {l}

\* All workers have returned.  An exception of one of them leaves the loop;
\* so does a round without an attempt, and one after which nothing is pending
\* or running.  Failed jobs do not keep the loop going.
RoundEnds(l) ==
    /\ l \in on
    /\ \A w \in Of(l) : wpc[w] \in {"idle", "raised"}
    /\ IF \/ \E w \in Of(l) : wpc[w] = "raised"
          \/ l \notin tried
          \/ Settled
       THEN Gone(l, Of(l))
       ELSE NewRound(l) /\ UNCHANGED <<on, leader>>
    /\ UNCHANGED <<rows, ended, watchdog, faults>>

\* A worker is killed and the broken pool takes the others down, or the whole
\* group is killed.
LoopDies(l) ==
    /\ l \in on
    /\ Fault
    /\ Gone(l, Of(l))
    /\ UNCHANGED <<rows, ended, watchdog>>

\* Only the parent is killed: workers finish their share without it.
ParentDies(l) ==
    /\ l \in on
    /\ Fault
    /\ Gone(l, {w \in Of(l) : wpc[w] \in {"hung", "raised"}})
    /\ UNCHANGED <<rows, ended, watchdog>>

\* started_at of a running row falls behind the stall time.  Unless batches
\* are slow, that does not happen to a row some worker is getting on with.
Ages(j) ==
    /\ status[j] = "running"
    /\ j \notin stale
    /\ SlowJobs \/ \A w \in Worker : wjob[w] # j
    /\ stale' = stale \cup {j}
    /\ UNCHANGED <<status, ended, loops, workers, watchdog, faults>>

--------------------------------------------------------------------------------
(* The watchdog: main and maybe_restart. *)

DogGoto(step) ==
    /\ dog' = step
    /\ seen' = NoSnapshot
    /\ UNCHANGED pid

\* pgrep finds a running loop, or none.
Attach ==
    /\ dog = "start"
    /\ IF on = {}
       THEN DogGoto("spawn")
       ELSE /\ \E l \in on : pid' = {l}
            /\ dog' = "count"
            /\ UNCHANGED seen
    /\ UNCHANGED <<rows, ended, loops, workers, faults>>

\* First query of read_snapshot: jobs by status.
CountJobs ==
    /\ dog = "count"
    /\ seen' = [settled |-> Settled,
                running |-> \E j \in Job : status[j] = "running",
                stalled |-> FALSE]
    /\ dog' = "latest"
    /\ UNCHANGED <<rows, ended, loops, workers, pid, faults>>

\* Second query: the age of the running job that was touched last.
LatestRunning ==
    LET running == {j \in Job : status[j] = "running"}
    IN  /\ dog = "latest"
        /\ seen' = [settled |-> seen.settled, running |-> seen.running,
                    stalled |-> seen.running /\ running # {} /\ running \subseteq stale]
        /\ dog' = "decide"
        /\ UNCHANGED <<rows, ended, loops, workers, pid, faults>>

\* maybe_restart decides: nothing pending or running is the end.
SeesEnd ==
    /\ dog = "decide"
    /\ seen.settled
    /\ DogGoto("done")
    /\ UNCHANGED <<rows, ended, loops, workers, faults>>

\* The watched process is missing.
SeesNoLoop ==
    /\ dog = "decide"
    /\ ~seen.settled
    /\ pid \cap on = {}
    /\ DogGoto("missing")
    /\ UNCHANGED <<rows, ended, loops, workers, faults>>

\* All running jobs are stale and the loop shows little CPU time.
SeesStall ==
    /\ dog = "decide"
    /\ ~seen.settled
    /\ pid \cap on # {}
    /\ seen.stalled
    /\ DogGoto("stalled")
    /\ UNCHANGED <<rows, ended, loops, workers, faults>>

\* No running job, or a fresh one, or the loop shows CPU time: ps reports the
\* mean since the process started, which may be high for a while.
SeesNothing ==
    /\ dog = "decide"
    /\ ~seen.settled
    /\ pid \cap on # {}
    /\ DogGoto("count")
    /\ UNCHANGED <<rows, ended, loops, workers, faults>>

\* Mutant: the reset takes every running row back, however young.
ResetYoung ==
    /\ dog \in {"missing", "stalled"}
    /\ status' = [j \in Job |-> IF status[j] = "running" THEN "pending" ELSE status[j]]
    /\ stale' = {}
    /\ DogGoto(IF dog = "missing" THEN "spawn" ELSE "kill")
    /\ UNCHANGED <<ended, loops, workers, faults>>

\* Mutant: a loop that is missing is restarted without a reset.
ResetStalledOnly ==
    /\ dog \in {"missing", "stalled"}
    /\ status' = [j \in Job |-> IF dog = "stalled" /\ j \in stale THEN "pending" ELSE status[j]]
    /\ stale' = IF dog = "stalled" THEN {} ELSE stale
    /\ DogGoto(IF dog = "missing" THEN "spawn" ELSE "kill")
    /\ UNCHANGED <<ended, loops, workers, faults>>

\* reset_stale_ingest_jobs.
Reset ==
    /\ dog \in {"missing", "stalled"}
    /\ status' = [j \in Job |-> IF j \in stale THEN "pending" ELSE status[j]]
    /\ stale' = {}
    /\ DogGoto(IF dog = "missing" THEN "spawn" ELSE "kill")
    /\ UNCHANGED <<ended, loops, workers, faults>>

\* kill_process: killpg with the pid of the loop.  When the loop does not lead
\* a group there is no such group, and nothing is killed.
Kill ==
    /\ dog = "kill"
    /\ \E l \in pid :
          IF l \in leader THEN Gone(l, Of(l)) ELSE UNCHANGED <<loops, workers>>
    /\ DogGoto("spawn")
    /\ UNCHANGED <<rows, ended, faults>>

\* spawn_loop, in a session and hence a group of its own.
Spawn ==
    /\ dog = "spawn"
    /\ \E l \in Loop \ on :
          /\ \A w \in Of(l) : wpc[w] \notin Working \cup {"ready"}
          /\ on' = on \cup {l}
          /\ leader' = leader \cup {l}
          /\ pid' = {l}
          /\ NewRound(l)
    /\ dog' = "count"
    /\ UNCHANGED <<rows, ended, seen, faults>>

\* The watchdog dies, of a database error say, and is started again.  When it
\* dies after it has reset the rows of a hung loop, the loop has no running row
\* any more, and the next watchdog that attaches to it never finds that it hangs.
DogRestarts ==
    /\ dog # "done"
    /\ dog \in {"kill", "spawn"} => DogDiesInRestart
    /\ Fault
    /\ dog' = "start"
    /\ pid' = {}
    /\ seen' = NoSnapshot
    /\ UNCHANGED <<rows, ended, loops, workers>>

--------------------------------------------------------------------------------

WorkerStep(w) ==
    \/ Claim(w)        \/ WorkerEnds(w)   \/ SyncReturns(w)
    \/ SyncFails(w)    \/ MarkSuccess(w)  \/ MarkFailed(w)
    \/ WorkerRaises(w)

LoopStep(l) == RoundEnds(l) \/ LoopDies(l) \/ ParentDies(l)

DogStep ==
    \/ Attach     \/ CountJobs    \/ LatestRunning  \/ SeesEnd  \/ SeesNoLoop
    \/ SeesStall  \/ SeesNothing  \/ Reset          \/ Kill     \/ Spawn

Next ==
    \/ \E w \in Worker : WorkerStep(w) \/ Hang(w)
    \/ \E l \in Loop : LoopStep(l)
    \/ \E j \in Job : Ages(j)
    \/ DogStep
    \/ DogRestarts

Spec == Init /\ [][Next]_vars

\* No worker of the watched loop has a claim to lose.
Undisturbed == \A l \in pid, s \in Slot : wjob[<<l, s>>] = 0

\* Processes that are not stuck run on, and time passes.  A check of the
\* watchdog and a restart take moments, once a minute: it does not happen every
\* time that a worker claims a job between the snapshot and the kill.
Fairness ==
    /\ \A w \in Worker : WF_vars(WorkerStep(w))
    /\ \A l \in Loop : WF_vars(RoundEnds(l))
    /\ \A j \in Job : WF_vars(Ages(j))
    /\ WF_vars(DogStep)
    /\ SF_vars(Undisturbed /\ SeesStall)
    /\ SF_vars(Undisturbed /\ dog = "stalled" /\ Reset)
    /\ SF_vars(Undisturbed /\ Kill)

FairSpec == Spec /\ Fairness

--------------------------------------------------------------------------------
(* Properties. *)

\* The watchdog reports that all is done from counts that workers may have
\* overtaken (a failed job is claimed again).  When it does, every job has been
\* run to a success or to a recorded failure, and none waits for a worker.
CompletionIsTried ==
    dog = "done" => \A j \in Job : j \in ended /\ status[j] # "pending"

Queue == INSTANCE WorkQueue
         WITH working <- wjob,
              finished <- {j \in Job : status[j] = "success"}

\* The table implements the work queue: resets and restarts never give a job
\* to a second worker while the first is getting on with it, and a success is
\* never run again or overwritten.
WorkedOnce == Queue!Spec

\* While a worker is getting on with a job, the row says that it is running,
\* so that no claim and no completion check takes it for anything else.
ClaimsHold ==
    \A w \in Worker : wjob[w] # 0 => status[wjob[w]] = "running"

\* The watchdog comes to an end: rows left running by dead or stuck workers
\* are always found, taken back and run again.
WatchdogFinishes == <>(dog = "done")
================================================================================
