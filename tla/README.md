# TLA+ models of the stock research platform

The platform collects A-share market data every trading day, computes factors,
scores and three strategies, and publishes one *strategy release* per trade
date that the dashboard serves.  Beside it, reviewed research evidence is
promoted into canonical theme artifacts.  These modules model the parts of the
platform where processes, locks, files and database rows meet.

## Inventory

| Part | State it keeps | Operations | What makes it correct |
| --- | --- | --- | --- |
| Strategy publication (`strategy_daily_eod.py`, `strategy_daily_eod_store.py`) | `<root>/<date>` directory or symlink, version and failure directories, status row, manifest rows, publish flock | publish, roll back, prune, answer "already published" | one publisher at a time; a success row names what the canonical path leads to; failures leave the previous release alone |
| EOD auto repair (`eod_auto_repair*.py`) | in-memory queue, failure counts, attempt log, repair summary JSON | check, repair, force dependents, stop | prerequisites before publication; publication at most once; ready only when the dependents were rebuilt; terminates |
| Finalisation (`eod_auto_repair.py:170-770`, `strategy_publication_receipt.py`) | finalisation JSON with phases, receipts | check, sync, verify, resume by operation id | what a finaliser ships was validated; a success has the date's release on the host and has done every phase for this data, or found it live |
| Lock launcher (`scripts/repair_publication_lock.py`, cron scripts) | flock inherited by children | run a command under the lock | one repair or publication per host |
| Dashboard sync (`deploy/*.sh`, `validate_strategy_release.py`) | remote release directory | look whether the release is live, copy, restart, mirror | after a success the host has the registered release; a skip or a stray copy does not undo it |
| Daily close (`daily_close_pipeline.py`) | job and quality rows per stage | run stage, mark stale, retry, finalize, latest ready | READY only when the stages it depends on succeeded |
| Finance ingest (`ingest_jobs.py`, `finance_ingest_watchdog.py`) | job rows pending/running/failed/success, loop processes and their process groups | claim, mark, reset stale, kill, restart | no job runs twice at once; the queue drains; completion is reported when every job was run |
| Theme research review and promotion (`theme_research_ingestion.py`) | run directories with a hash-chained ledger and its head, canonical artifact and backups, package and run flocks | ingest, review, validate, promote, recover | evidence only grows and agrees with the ledgers; an interrupted promotion can always be resolved; a run stays valid |
| Minute backfill (`minute_backfill*.py`, `baostock_minute_backfill_watchdog.py`) | job rows, raw and derived bars, the day's request ledger, the watchdog's flock | reserve, claim, attempt, mark, derive, reset, settle | as above; derived bars are those of the raw bars; the day's budget is kept |
| Other watchdogs and runs (`backfill_*`, `*_watchdog.py`) | run rows, pid files | detect stall, kill, restart | one worker |
| Dashboard background work (`news_scheduler.py`, `backtest_jobs.py`, ...) | asyncio tasks, in-memory jobs | schedule, cancel, clean up | no two runs of one task |
| OTP relay, Founder OS recovery, external delivery | small JSON or table state | one-shot hand-over, retry, record | once only |
| Dashboard API, journals, research computations, loaders | none of their own, or append-only | read, compute, load | out of scope, see the end |

Interactions: cron starts the daily close, the publication and the auto repair
as separate processes.  They share the database rows, the directories under the
release root and two flocks; the cron of the publication takes only one of them,
and the nightly sync of the dashboard none.  The auto repair calls the publication in process,
under an alarm; the finalisation reads the status row and the canonical
directory and starts the dashboard sync.  The job queues are shared between
their workers, the loop that claims from them, and a watchdog that resets and
restarts.  Reviewers and promoters of research evidence meet in the run ledgers
and in the artifact.

## The modules

| Module | What it is |
| --- | --- |
| `StrategyPublish` | the publication of one trade date, by competing processes |
| `ReleaseRegister` | what it promises: a write-once register |
| `IngestJobs` | the finance ingest: job rows, loops, workers, watchdog |
| `WorkQueue` | what it promises: one worker per job, and never again once finished |
| `ThemePromotion` | review ledgers and the two-phase promotion of evidence |
| `EvidenceStore` | what it promises: supported rows that are only ever added |
| `RepairLoop` | the repair of one trade date: checks, repair order, forced dependents |
| `FinalizeRelease` | what the cron jobs do with a repaired date under one inherited flock: repair, validate, clear the cache, sync, resume |
| `MinuteBackfill` | the budgeted backfill of minute bars: ledger, watchdog, child, attempts; implements `WorkQueue` too |
| `MCStrategyPublish`, `MCIngestJobs`, `MCThemePromotion`, `MCMinuteBackfill` | symmetry and model values for the runs; the `.cfg` files give the constants |
| `MCRepairLoop` | the tables of the repair plan, with one check of each kind |
| `MCFinalizeRelease` | the cron jobs and the operator as model values |
| `StrategyPublishProofs`, `StrategyRegisterProofs`, `StrategyRestoreProofs` | theorems about `StrategyPublish` |
| `IngestProofs` | theorems about `IngestJobs` |
| `ThemePromotionProofs` | theorems about `ThemePromotion` |
| `RepairLoopProofs` | theorems about `RepairLoop` |
| `FinalizeReleaseProofs` | theorems about `FinalizeRelease` |
| `MinuteBackfillProofs` | theorems about `MinuteBackfill` |

How they meet: `RepairLoop` calls the publication as the write-once register
that `StrategyPublish` implements, and `FinalizeRelease` has the whole repair as
one place (`repair`) where the data changes and the date may get published.
`IngestJobs` and `MinuteBackfill` both implement `WorkQueue`.

Definitions whose comment begins with "Mutant:" are deliberate bugs; no
specification uses them.  Putting one in the place of the definition after it
must break the property it is paired with in `PROJECT.json`.

### StrategyPublish

One action per step between which another process, a crash or an exception can
come.  `pc[p]` says where in `run_strategy_daily_eod` the call of process `p`
is:

| `pc` | Actions | Code |
| --- | --- | --- |
| `idle` | `Start` | a call begins (131-175) |
| `row`, `summary` | `ReadRow`, `ReadSummary` | `_load_published_result`: first the status row, later the summary file; run before the lock, while waiting, and with the lock held |
| `lock` | `Acquire`, `Blocked`, `DeadlinePasses` | non-blocking `flock`, look again, deadline, sleep (176-199) |
| `build` | `Build` | strategies, checks, manifest validation, staging (220-411) |
| `ready` | `Switch`, `SwitchRaises` | `begin_atomic_publish`: rename of the first release, exchange of two directories, or relink of a symlink |
| `switched` | `Transact` | `commit_strategy_publication`: manifest rows and status row in one transaction |
| `committed` | `Finish` | `AtomicPublishHandle.commit`: prune the versions, return success |
| `rollback` | `Rollback`, `RollbackRaises` | the except block (442-468) |
| `audit`, `status`, `cleanup` | `PersistFailure`, `BestEffortStatus`, `Cleanup`, `RejectStatus` | failure summary, failed status row, removal of the staging directory |
| any | `Crash` | the process dies; the kernel drops its flock |

The directories are `dirs`, a function from places to the release they hold,
and `link`, where the canonical path leads: a real directory (`Canonical`) or a
symlink to a version directory.  A release is the number of the call that built
it; what is in it is valid or not.  `Legacy` is a release left by an earlier
deployment, registered or not, as a directory or behind a symlink.  `db` holds
the status row and the run of the manifest rows.

Three constants switch on faults of the surroundings:

- `CommitAckLost`: the server commits and the connection breaks before the
  answer; the caller takes it for a failed transaction.
- `ProbeFails`: an error while looking for a published release counts as "not
  published" (line 90), so a published date is built again.
- `RaiseAfterSwitch`: something raises between the rename in
  `begin_atomic_publish` and its return.  The caller then has no handle.

Crashes, failing builds, failing transactions, failing rollbacks and failing
writes of the audit are always possible.

### IngestJobs

Rows: `status`, and `stale`, the running rows whose `started_at` is older than
the stall time; time is not a number, a row just becomes stale at some moment
(`Ages`).  `ended` remembers whose row a worker has marked.  Workers are pairs of
a loop process and a slot of its pool.

| Action | Code |
| --- | --- |
| `Claim` | `claim_runnable_jobs` and its commit: lowest pending or failed row |
| `SyncReturns`, `SyncFails`, `Hang` | the call of the data source and its upserts: it returns, also when assets that raised were left out; the batch itself raises (login, flush, database); it never answers |
| `MarkSuccess`, `MarkFailed` | the marks: by job id only, whatever the row says |
| `WorkerRaises` | the database fails in a claim or a mark |
| `WorkerEnds`, `RoundEnds` | quota used or nothing runnable; all futures returned, then the end of the loop or another round |
| `LoopDies`, `ParentDies` | kill of the process group, of a worker (the pool breaks) or of the parent only: then its workers finish their share as orphans |
| `Attach`, `CountJobs`, `LatestRunning` | `main` and the two queries of `read_snapshot`, between which the table moves |
| `SeesEnd`, `SeesNoLoop`, `SeesStall`, `SeesNothing` | the branches of `maybe_restart`; the CPU test is nondeterministic |
| `Reset`, `Kill`, `Spawn` | reset of stale rows, then `killpg`, then a new loop: three steps, in this order |
| `DogRestarts` | the watchdog dies and is started again |

`killpg` gets the pid of the loop.  A loop the watchdog spawned leads its own
group; one it found with `pgrep` need not (`StrayLoop`), and then nothing is
killed.  `SlowJobs` allows a batch that is getting on to outlast the stall
time; `DogDiesInRestart` allows the watchdog to die between the reset and the
spawn.

### ThemePromotion

A run has two candidates: a source, whose id all runs share (the same document
ingested with other claims), and a claim, named like the run.  A canonical row
is told apart by the decision it was accepted with; `reject` stands for the
three decisions that project no row.  The artifact's hash is the artifact.  A
promotion is known by the artifact before it and the rows it adds, as its
`promotion_id` is.

`ledger[r]` is the log of a run and `head[r]` the event count its head anchors.
Nothing derived is stored: `Frozen`, `Decided`, `Outstanding` and `Valid` read
the first `k` events as `_read_review_events` does, and `Frozen` compares with
the artifact of now, as the code does.

| `pc` | Actions | Code |
| --- | --- | --- |
| `idle`, `package` | `Start`, `TakePackageLock` | the caller takes the hash; `promote_run` waits for the package lock |
| `recover` | `NothingToRecover`, `Recover` | every run of the package, under its lock: validate, close what is outstanding as committed, failed or rolled_back, or refuse |
| `recover`, nothing left to do | `Prepare` | validate, hash, preview, collisions, "no changes", prepared event |
| `replace` | `Replace`, `ReplaceFails` | `os.replace`, or the failed event |
| `commit` | `Commit`, `CommitFails` | the committed event |
| `restore`, `rollback` | `Restore`, `RollBack` | the backup, the rolled_back event whose failure is swallowed |
| any | `Stop` | a refusal, an I/O error or a kill: the locks are released and nothing is written |

Every append is written completely, without its head, or not at all.
`ReviewCandidate` is `append_review_event`, which holds the run lock from start
to end; `ValidateReads` and `ValidateRepairs` are a `validate_run` that holds no
lock and writes the head late.  The locks are not variables: a call holds the
package lock from `recover` to its end and its run lock from `replace` on
(`PackageLocked`, `RunLocked`); the kernel drops both with the process.

`AddsEvidence` reads the artifact through `Published`: while a call may still
put its backup back, readers are promised only what was there before.

### RepairLoop

`run_eod_auto_repair` in its modes `loop` and `repair`.  What a check finds is
not computed: after every look (`Observe`) any set of checks may block the date,
because other jobs write the tables too, and the plan itself may raise.

| Action | Code |
| --- | --- |
| `Pass` | a check that does not block, has had its action, or has none |
| `GiveUp` | mode `loop` refuses a second publication, or what has failed twice, and stops |
| `RunInLoop` | the action, the dependents it forces, the look after it, the reasons to stop |
| `RunInStage` | the same in mode `repair`, which looks only after a stage |
| `CycleEnds`, `StageEnds` | the end of the order or the stage: stop, or go on with the next |

`Order`, `Dependents` and `Stages` are `LOOP_REPAIR_ORDER`,
`LOOP_DEPENDENT_REPAIRS` and `STAGE_CHECKS`; the assumptions say what their shape
is used for.  An action may fail after it has written (`ok`, `wrote`).  `stale`,
`reused` and `published` are history: which outputs are older than something
they are built from, and what the publication did.

`ReadyIsRebuilt` has three excuses, and each is something the code does:
`ops_health` stands in the order before one of the checks it follows, so its
forced action is not always behind the repair (`Backward`); an action that
failed, or the dependent of one, forces nothing; and a publication that finds
the date registered leaves the release as it is (`reused`).

### FinalizeRelease

| `pc` | Actions | Code |
| --- | --- | --- |
| `idle` | `Launch` | `repair_publication_lock.py`: take the flock or leave with code 75 |
| `repair` | `Repair`, `RepairEnds`, `RepairDies` | the repair as `RepairLoop` has it, then its own summary file |
| `gate` | `Gate` | read the summary, refuse after a failed repair, find the phases done for this operation id |
| `publish` | `Publish`, `PublishFails` | a registered release or its receipt is taken; only a finaliser that requires none publishes |
| `validate` | `Validate`, `ValidateFails` | release contract and readiness, on every run |
| `cache` | `ClearCache`, `ClearCacheFails` | the dashboard's cache; the answer may be lost |
| `sync` | `Sync`, `SyncFails` | the external host: copied and restarted (`Ship`), or nothing when it is found live (`AlreadyLive`), or a failure at any point (`ShipSome`); after a success the loop job starts the artifact mirror |
| any | `Killed`, `LauncherDies`, `Mirror` | kills, a command that outlives its launcher, the mirror of the loop job |
| no lock | `StrategyCronPublishes`, `StrategyMirror` | `run_strategy_daily_eod_cron.sh`: its publication, under the publish lock only, and the mirror it starts |
| no lock | `DailySync`, `Deploy` | the nightly launchd job, which runs the sync script by itself; a new HEAD |

`fds` is the set of open files of the lock: the launcher, its command and the
mirror each have one, and the lock is free when nobody has.  The data of the
date is a version number that every repair and a publication raise; `cached`,
`shipped` and `validated` are versions too, and `published` is the version at
which the date's release was registered.  `AlreadyLive` compares what the gate
of the script compares: the release of the code and whether the host shows the
date's release, not the data behind it.  `skipped` remembers that the last sync
that was done found the host live.  The operation id is the HEAD of the
release root.  A repair writes a summary without phases, and so takes the phases of
the data before it away; `dirty` is true from a change of the data until a summary
is written, and `SuccessIsExposed` excuses a finaliser that an operator runs on
the summary of before a repair that was killed.

### MinuteBackfill

The ledger of the day is a file that `_update_ledger` opens, locks, reads,
truncates, writes, unlocks and closes.  What it writes is in the buffer of the
handle until the close, which comes after the unlock.  So an update is three
steps: `Allocate` or `Finalize` (lock and read), `Truncate` (empty the file and
unlock), `Close` (the document is appended).  `file` is the sequence of documents in
it.  Another update between the last two reads an empty file, and afterwards
there are two documents in it, which no update can read any more (`Unreadable`).
`lost` remembers that such a thing happened.

| Action | Code |
| --- | --- |
| `Launch`, `Allocate` | a run begins and reserves requests |
| `Scan` | read the rows and reset the stale ones, before the lock is asked for |
| `Start`, `StartFails` | the watchdog's flock, which the forked child inherits; a busy lock is a result without attempts |
| `Claim` | as many rows as there are requests, at once |
| `Attempt`, `AttemptSucceeds`, `AttemptFails` | a process for each request, some retries, a timeout that may come after the bars are stored |
| `MarkSuccess`, `MarkSkipped` | by job id, whatever the row says |
| `Derive` | the adjusted bars in one transaction; when it fails, the row's "failed" is rolled back with it |
| `WorkEnds`, `WorkFails` | the result; or the child dies or raises, and the run counts no attempts |
| `Timeout` | the child is killed, the rows claimed since the start of the run are reset, the attempts are told from the rows |
| `OrphanEnds` | an attempt whose child was killed goes on and may store its bars |
| `Killed` | a kill, or a TERM, which nothing handles: no settlement; the child of a watchdog goes on and keeps the lock |
| `Ages` | a running row becomes older than the stale time |

`child[p]` is the process that works on the rows: the child of a watchdog, or
the dedicated script itself (`Script`), which has neither lock nor deadline.
`run_watchdog_once` is called but is not in the repository; the order of its
calls is the one that `tests/test_backfill_watchdog.py:611` lists.

`used`, `sent`, `forgotten`, `lost` and `late` are history.  `BudgetHolds` says
what is true of the budget in spite of the losses: no more is requested than
the budget and what earlier runs settled as not attempted, as long as no update
of the ledger was lost.  `DerivedMatchesRaw` excuses the jobs whose raw bars an
orphan has stored again (`late`).

## What the runs check

| Run | Instance | Shows |
| --- | --- | --- |
| `publish_safety` | 2 processes, 3 calls, truthful surroundings | `SinglePublisher`, `RegisteredIsVisible`, `PreviousReleaseKept`, `AnswersAreRegistered`, `FailedCallsLeaveRelease`, `ReleaseNeverLost`, `FailureIsAudited`, and the refinement `PublishesOnce` |
| `publish_faults` | 2 processes, 2 calls, with `CommitAckLost` and `ProbeFails` | `SuccessIsVisible`, `FailedCallsLeaveRelease`, `ReleaseNeverLost` survive; the register does not: a lost answer or a failing look lets a registered date be published again.  `WaitsEnd`: a waiting call ends although the holder of the lock may hang |
| `publish_raise_after_switch` | `RaiseAfterSwitch` | the counterexample to `FailedCallsLeaveRelease` (finding 1) |
| `ingest_safety` | 2 jobs, 2 loops of 2 workers, quota 2, 2 faults, stray loops | `CompletionIsTried`; and `ClaimsHold` and the refinement `WorkedOnce`, which need that no batch outlasts the stall time |
| `ingest_liveness` | quota 1, 2 faults, no stray loop, no death within a restart | `WatchdogFinishes` |
| `theme_safety` | 2 promoters, 2 runs, 3 calls, 2 reviews, 1 head repair without a lock | `ValidUnlessOvertaken`, `Recoverable`, `Audited` and the refinement `AddsEvidence` |
| `theme_overtaken` | 1 promoter, 2 runs, 3 calls, 3 reviews | the counterexample to `RunsStayValid` (finding 2) |
| `repair_loop` | 5 checks, 2 cycles, both modes | `PublishesOnce`, `ReadyIsRebuilt`, `Progresses` (a step ends the run or brings it closer to its end), `RepairEnds` |
| `repair_prerequisites` | the same | the counterexample to `PrerequisitesFirst` (finding 3) |
| `finalize_release` | 2 cron jobs, 1 operator, 4 commands, 3 versions, 2 releases of the code, publications and copies without the lock at any time | `OneCommand`, `FinaliserShipsValidated`, `SuccessIsExposed` |
| `minute_backfill` | 2 watchdogs, 2 runs, 2 jobs, budget 2, 2 attempts | `OneRun`, `DerivedMatchesRaw`, `BudgetHolds` and the refinement `WorkedOnce` |
| `backfill_budget` | the script, 2 runs, 3 jobs, budget 2 | the counterexample to `BudgetKept` (finding 4) |

Why the bounds are enough to meet the interesting cases.  Two processes are
needed for a race and three calls for "fails after a success, before another
one"; `Retain = 2` and `RetainAudits = 2` stand for 3 versions and 10 summaries
so that three calls already overflow them.  Two jobs and two loops of two
workers give an orphan of an old loop beside a new loop, a free worker beside a
hung one and a claim between snapshot and kill; two faults are a hang and a
death.  The faults are bounded because each could otherwise happen for ever.
Two reviews make a reviewed claim
over its source, or two runs that disagree about the source; three promotions
leave one outstanding, fail to recover it and recover it.
The repair has a check that feeds others, one in the middle, one that is forced
backwards, and two that share the publication; a second cycle is where pending
work can be forgotten.  Four commands are a job that fails after each half, one
that resumes it, one of the other cron and the operator; three versions are the
first and two changes, by repairs, by a publication or by one of each; a second release of the code
makes phases of another operation.  The backfill has two runs that overlap, two jobs, so
that a run has a queue behind what it works on and another job to take back, and a budget
that one reservation uses up.
Every safety property of the passing runs is proved for all values of the
constants, some under a hypothesis (below); what is only model-checked is liveness.  Slow
batches of the ingest (`SlowJobs`) are not in a run; what holds with them is
`CompletionIsTried`, which is proved with them (`CompletionTold`).
Deadlock is not checked: calls, commands and runs are used up, the repair ends,
and the ingest may come to its end.

### Fairness

`StrategyPublish` is fair only to calls that have no lock yet: they poll with a
sleep and the clock goes on.  Nothing is assumed of the holder, which may hang
in the builder or in the database; that is why no property says that it ends.

`IngestJobs` is weakly fair to every process that is not stuck: workers that
are not hung, the end of rounds, the age of rows and the watchdog.  Two things
need strong fairness.  `ps` reports the mean CPU share since the process
started, so a stuck loop falls below the threshold only in time: `SeesStall` is
not passed over for ever.  And a free worker may claim a job between the
snapshot and the kill, lose it there and so leave another stale row; the check
takes a moment once a minute, so some restart runs undisturbed.  A hung call is
never fair.

`RepairLoop` is weakly fair to its next step: the process is single-threaded,
each action of the registry has a deadline (`SIGALRM`), and nobody else can
disable a step.  `FinalizeRelease` and `MinuteBackfill` state no fairness: their
properties are about safety, and a child or a sync may hang.

## What is proved

TLAPS checks these for all values of the constants that satisfy the named
assumptions.

`StrategyPublishProofs`, with no hypothesis about faults.  The invariant is
`BaseInv`: types, `Numbered` (a call in progress has a number), the lock
(whoever is past the acquisition holds it) and the progress of the holder (what
its `pc` implies about directories, rows and audits).  From it: `TypeCorrect`,
`MutualExclusion`, `SuccessTold`, `FailureNamesSummary`.

`StrategyRegisterProofs`, when answers are reliable (`~CommitAckLost` and
`~ProbeFails`).  `RegisterInv` is `RegisteredIsVisible` with `Unpublished`
(a call that is publishing and has not committed sees no success row; this is
what the second look, with the lock held, is for) and `Looking` (a call that
goes on to the summary file saw a success row, which stays).  From it: `RowsTellTheTruth`, `AnswersCorrect` and the
refinement `PublicationIsWriteOnce`.

`StrategyRestoreProofs`, when nothing raises between a rename and the return of
its function (`~RaiseAfterSwitch`), lost answers allowed.  `OwnInv` says that
the version directory of a call is used by nobody else, remembered by no handle
and not visible unless the call switched; `RestoreInv` where the release of
before is: for the holder, visible until the switch and afterwards where the
handle looks for it.  From it: `PreviousReleaseSurvives`,
`FailuresAreHarmless`, `ReleaseSurvives`.

`IngestProofs`.  With no hypothesis, `TypeCorrect`, by `Base` (types, and a
worker has a job exactly while it works on one), and `CompletionTold`, by `Told`:
a row with an end was marked by a worker, and from the moment that the watchdog
has counted neither a pending nor a running row none becomes pending before it
reports.  Workers never make a row pending (`Onward`), and the watchdog, which
does, reports first.  When no batch that gets on
outlasts the stall time (`~SlowJobs`), `Owned` is inductive: the row of a
claimed job says running, is not stale, and no other worker has the job.
`ClaimsHold` alone is not inductive, because the reset goes by age and not by
owner; the age in `Owned` is what stops it.  From it: `RowsSayWhoWorks` and the
refinement `TableIsQueue`, for stray loops, orphans and restarts of every kind.

`ThemePromotionProofs`.  `TypeCorrect`, and the refinement `EvidenceOnlyGrows`.
Its invariant `EvidenceInv` says that one call is past the package lock
(`OneHolder`); that this call knows the artifact, before its replacement and
after (`Holding`); that what it prepared only fills absent rows and leaves every
claim supported (`Additive`, where the blocked claims of the preview and the
refused collisions are both needed); and that the promises of the store hold
(`Promised`).  No property of the ledgers is needed: the locks and the expected
order of the steps carry it.

The other three theorems are about the ledgers.  Lemmas say what an appended
event does to what is read from a ledger (`Ids`, `Last`, `Now`: its promotions,
their latest statuses, the latest decisions), so that each step either leaves the ledgers the
same (`Same`), has written one status (`Wrote`) or one review (`Reviewed`).
`RecoverySound` rests on `OpenInv`: a promotion that recovery would have to
resolve is *open*; there is at most one (`OneOpen`), the artifact is what it was
before that promotion or what it made it (`OpenKnown`), and it belongs to the
call that has the package lock, or that call has not recovered its run yet
(`HeldOpen`).  `Recoverable` alone is not inductive: an outstanding promotion is
told from the artifact, and whether another step may change the artifact depends
on who holds the lock.  `EvidenceAudited` adds `Witnessed`: each row readers
see has a promotion that made it, with its artifact in place; the refinement's
step lemma (`GrowsNext`) keeps old witnesses good.  `ValidStays` is independent
of both: `Fresh` says of each review, at its position in the log, that its
candidate was not frozen by what the artifact may ever say of the events before it, and
`AnchorsInv` that no head is ahead of its log, also not the one that an unlocked
validation is about to write.

`RepairLoopProofs`, for every order, dependency table, division into stages and
number of cycles that satisfies the assumptions of the module.  `TypeCorrect`
and `OnePublication` need only types and that a publication counts as
attempted.  `ReadyRebuilt` needs `Followed`: whatever is stale without an excuse
is still ahead of the walk (`AllAhead`), and only what stands before its
cause is put behind the order (`Appended`).  `ReadyIsRebuilt` alone is not
inductive, since a run may stop at any look; `Pending` in the verdict is
what `AllAhead` turns into the goal.  `EveryStepCloser` is the safety half of
`RepairEnds`: cycles are bounded (`Bounded`), the walk only moves forward, and
behind the order it only gets shorter, because what stands there
(`Appended`) forces nothing, which is what the assumption about `Backward` is
for.  With fairness, and since a run that has not stopped has a step, the end
follows; that last inference is TLC's.

`FinalizeReleaseProofs`, with no hypothesis.  `OneJob` rests on `Held`: who has
the file open is the job at work, with its launcher, or else the mirror of the
job that ended last.  `ShippedIsValidated` adds `Versions` and `Accepted`:
versions only grow, who is past the publication has a registered release, which
is why the strategy cron does not publish under it, and between validation and
the end of the mirror the data is what was validated.  `SuccessExposed` adds
`Recorded`: a recorded sync means that the host has the release of the operation
and the date's (`Live`), which later copies of anybody keep (`LiveStays`); unless
the data has changed since, the phases in the summary have been done for this data
(`Done`); and the same of those that a finaliser goes on from (`Knows`).

`MinuteBackfillProofs`.  With no hypothesis, `TypeCorrect` and `OneRunAtATime`:
`Base` (types, a job in hand, nobody at work for a run that is not waiting, the
ledger locked between reading and truncating) and `Locks` (who works for a watchdog has
its lock, and an orphan only outlives a run that ends or is gone).  When nobody but the watchdog works on the
table (`WatchdogOnly`), `Queued` is inductive: stale rows say running, claimed
rows that are not marked are not over, a derived row is a success.  `DerivedMatchesRaw`
needs it because a success is never claimed, and so its raw bars are written
again by nobody but an orphan.  From it: the refinement
`TableIsQueue`, and `DerivedMatches`.  Here a reset may take
a row back from the run that works on it; with one run at a time nobody else
claims it, and that is why no bound on the age of rows is needed as in the
ingest.

`BudgetKeptUpTo`, about the ledger of requests, needs no hypothesis: any mix of
watchdogs and scripts.  It is about sums over the runs, of what
they have allocated (`Reserved`) and of what they may still request (`Unused`).
Such a sum is stated as the number of cells of a finite set that has one cell
for each request of each run (`Cells`), and a step of one run moves the sum by
what that run's part changes (`CellsChange`, `SumsMove`), for which the theorems on
cardinalities suffice and no induction is needed.  A document is `Sound` when it
covers what is reserved, when it covers what was requested and still may be, up to
what was forgotten, and when it is within the budget.  The invariant `BudgetInv`
says that a run never has more rows in its queue than requests left (`Fits`),
that the ledger is locked between reading and truncating (`Locked`), and
(`Books`) that as long as no update was lost one run at a time updates the
ledger, that the document it is about to write is sound, and that until
the file is truncated so is the one in it, which is what a kill leaves behind.

Only model-checked: `WaitsEnd`, `WatchdogFinishes` and `RepairEnds` (liveness
under fairness, and `ENABLED`, are out of reach of the prover).  The properties
of the runs that expect a violation are false and have nothing to prove.

## Findings

1. An exception between the rename and the return of `begin_atomic_publish`
   (the `fsync` of the parent directory, or the alarm of the auto repair) leaves
   the except block without a handle.  It restores nothing and removes the
   staging directory, which after an exchange holds the previous release.  The
   design document says that failed runs never replace the previous canonical
   directory.
2. A review is accepted while a promotion of its candidate is outstanding and
   its rows are not in the artifact.  Once a later promotion adds the same rows,
   validation takes the old review for one after a promotion, because it
   compares the prefix of the log with the artifact of now.  The run is refused
   for ever, and so is every promotion of the package, whose recovery validates
   all runs.  The documentation says that freezing follows the latest terminal
   state of a promotion, which here was none and then failed.
3. Mode `loop` of the repair looks only at the check it has come to.  When the
   action of an earlier check failed, or left it blocking, the walk goes on to
   the publication, whose single attempt is then spent on a date that is not
   repaired, also when the next cycle repairs it
   (`eod_auto_repair.py:1347`).  The design documents say that downstream stages
   must not run behind a blocker (2026-07-02, line 89), and that the repair fixes prerequisite
   data and then invokes the publication (2026-07-27, line 56).
4. A backfill run that raises settles its reservation with no attempts, whatever
   it has sent, and the next run of the day is granted the same requests again
   (`run_baostock_2020_minute5_raw_derive_backfill_today.py:76`, and the same in
   the watchdog).  The design (2026-07-11, lines 78 and 117) says that an
   interruption records the attempted requests and that no more than the
   day's budget is consumed.

Met while modelling, and not the subject of a run:

- An asset of an ingest batch whose query raises is left out, the batch returns
  normally and its job is marked a success, which no claim looks at again
  (`baostock_finance_ingestion.py:446`, `ingest_jobs.py:420-438`): a success does
  not mean that the batch is complete.
- The sync of the dashboard ends with success and copies nothing when the release,
  the dates and the counts of the host match (`sync_dashboard_release.sh:428`).
  After the repair of a date that the host had under the same HEAD, the finaliser
  reports success and the host keeps the data of before the repair; the loop job's
  mirror, or the next deployment, brings it there (`skipped` in
  `SuccessIsExposed`).
- The strategy cron starts its mirror, and the nightly job its sync, without the
  repair lock and without contract and readiness
  (`run_strategy_daily_eod_cron.sh:161-165`,
  `com.stockresearch.dashboard-daily-sync.plist`).  They may copy a date in the
  middle of its repair; `FinaliserShipsValidated` is about the finaliser's copies
  and those of its job's mirror only.
- The watchdog of the ingest, and the loop itself, report that all tasks are
  completed when nothing is pending or running, although failed jobs remain that
  the next claim would run again (`finance_ingest_watchdog.py:215`).
- A watchdog that dies after it reset the rows of a hung loop and before it
  killed the loop leaves a loop without a running row; the next watchdog
  attaches to it and never sees a stall (`DogDiesInRestart`).
- The same happens with a hung loop that `killpg` misses (`StrayLoop`), when the
  loop spawned beside it and the watchdog both die.
- Failed jobs are claimed before later pending ones; one that always fails uses
  up every round.
- A batch that outlasts the stall time has its row taken back and given to a
  second worker; the first one still marks it, also as failed over a success.
- The ledger of the backfill is unlocked before it is flushed
  (`baostock_minute_backfill_watchdog.py:357-367`): an update in between
  grants the budget again, and leaves two documents, which every later
  update fails to read.
- TERM runs no `finally`, so the reservation of a terminated run stays until
  the day is over; the plan of 2026-07-11 (weekend backfill, line 144) expects it to be released.
- When a derivation fails, the exception that follows rolls its "failed" mark
  back (`db.py:11-27`), and the raw job is a success: nothing derives it again.
  The same holds when the child is killed before the derivation.
- The attempts of one job count as one request of the budget.
- An attempt whose child was killed at the deadline goes on and may store raw
  bars after another run derived from them (`DerivedMatchesRaw`, `late`).
- A second watchdog resets stale rows under the run that works on them, before
  it asks for the lock.  With the dedicated script beside a watchdog, two runs
  may then work on one job and one may mark `skipped` over a success.
- Forced dependents do not survive a failed action or a stop: a later look that
  finds everything clean is taken for ready (the excuses of `ReadyIsRebuilt`).

## What is not modelled

- Of the publication: the content of a release, the dependency checks, the
  manifest validation (a release is valid or not); the macOS rename and the
  fallback for kernels without `RENAME_EXCHANGE`.
- Of the ingest: what a batch writes and which assets it leaves out, the creation of jobs, the event table, reports, `--max-checks`,
  `--max-rounds`, `--dry-run`, the manual reset.
- Of the evidence: the extraction of candidates, S4 sources, several themes in a
  package, edits of the artifact by hand, torn log lines, the preview file; an
  unlocked validation reads log and head in one step.
- Of the repair: modes `check` and `publish-only`, `--dry-run`, `--strict`,
  progress and reports; what checks find and what actions compute.
- Of the finalisation: the fields of receipts and summaries (valid or
  not), the phase `minute5`, a cache without a URL (its phase is skipped), the
  steps of the sync on the external host, the mirror's `mkdir` lock, which a kill leaves behind, heartbeats,
  weekday guards and credentials.  A copy to the host is one step: one that begins
  without the lock before a repair and ends after a finaliser's sync, and so leaves
  older files there, is not modelled, nor are other jobs that write the platform's
  tables, among them the review and queue refresh of the strategy cron.  The publication subprocess
  of a killed finaliser, which has no file of the lock open, is part of that
  finaliser.
- Of the backfill: planning and validation, the range controller, the benchmark,
  several workers without a budget, the order of the months, the BaoStock
  session that the jobs share, messages.  A day is one ledger bucket.
- The daily close pipeline (`daily_close_pipeline.py`), the dashboard's
  background tasks, the OTP relay, Founder OS recovery and external delivery:
  they have state and are left for later.
- The parts the inventory marks out of scope: numerical research code (no
  protocol, and the data is the point), loaders (I/O), the dashboard's read-only
  views, append-only journals of a single operator.

## Plan

Done: `StrategyPublish` refining `ReleaseRegister`, `IngestJobs` and
`MinuteBackfill` refining `WorkQueue`, `ThemePromotion` refining `EvidenceStore`,
`RepairLoop` and `FinalizeRelease` over the register, with their proofs.  Left,
in this order:

1. `PipelineStatus` (`daily_close_pipeline.py`): stages, staleness, retry, quality
   rows and readiness.
2. Schedulers and backtest jobs of the dashboard: tasks that are cancelled while
   a thread of theirs works on.
3. OTP relay, Founder OS recovery, external delivery: each a hand-over or an
   attempt that must happen once.

Theorems left: types and safety of these, and for the modules that are there a
step-by-step measure for `WatchdogFinishes` and `WaitsEnd` like the one
`EveryStepCloser` gives for `RepairEnds`.
