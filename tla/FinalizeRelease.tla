---------------------------- MODULE FinalizeRelease ----------------------------
(***************************************************************************)
(* What the two cron jobs do with a repaired trade date: under one file    *)
(* lock (scripts/repair_publication_lock.py) each runs the repair, which   *)
(* RepairLoop models, and then the finaliser (finalize_repaired_release,   *)
(* eod_auto_repair.py), which publishes if need be, validates, clears the  *)
(* dashboard's cache and syncs the release to the external host.  The      *)
(* finaliser writes its phases to run_summary.json, and one that is run    *)
(* again for the same operation resumes from them.  An operator may run it *)
(* alone, through the same launcher.                                       *)
(*                                                                         *)
(* The lock does not cover everything: the strategy cron publishes a date  *)
(* and starts an artifact mirror, and a nightly job syncs the release,     *)
(* without it.                                                             *)
(*                                                                         *)
(* The data of the date, what the repair's actions and the publication     *)
(* write, is a version number.  The published summary never changes once   *)
(* it is there (StrategyPublish), so that its receipt stays valid and is   *)
(* not modelled.  The cache's URL is configured: otherwise its phase is    *)
(* skipped and claims nothing.                                             *)
(***************************************************************************)
EXTENDS Naturals

CONSTANTS
    Cron,         \* the jobs that repair and finalise
    LoopCron,     \* those of run_eod_auto_repair_cron.sh
    Operator,     \* those that only finalise
    MaxRuns,      \* bound: commands launched
    MaxData,      \* bound: versions of the data
    MaxCode       \* bound: releases of the code

ASSUME FinalizeAssumption ==
    /\ LoopCron \subseteq Cron
    /\ Cron \cap Operator = {}
    /\ MaxRuns \in Nat /\ MaxData \in Nat /\ MaxCode \in Nat \ {0}

Proc == Cron \cup Operator

VARIABLES
    pc,          \* pc[p]: the step of the command of p
    failed,      \* failed[p]: the repair's exit code is not zero
    op,          \* op[p]: the release that operation_id names
    resumed,     \* resumed[p]: the phases the finaliser found done
    fds,         \* who has the lock's file open: launchers, commands and mirrors
    summary,     \* run_summary.json: the phases that are "success"
    summaryOp,   \* run_summary.json: finalization_operation_id, 0 when there is none
    status,      \* run_summary.json: finalization_status
    published,   \* the data's version when the date's release was registered, or 0
    data,        \* the version of the repaired and published data
    cached,      \* the oldest version the dashboard's cache may show
    shipped,     \* the version the external host has
    shippedCode, \* the release the external host runs
    code,        \* the HEAD of the release root
    validated,   \* history: the version that contract and readiness last agreed to
    dirty,       \* history: a repair has changed the data since the summary was written
    skipped,     \* history: the last sync that was done found the release live
    runs         \* commands launched

file == <<summary, summaryOp, status>>
outside == <<cached, shipped, shippedCode>>
locals == <<pc, failed, op, resumed>>
history == <<validated, dirty, skipped>>
vars == <<locals, fds, file, published, data, outside, code, history, runs>>

Steps == {"idle", "repair", "gate", "publish", "validate", "cache", "sync"}
Phases == {"cache", "sync"}
Parts == {"launcher", "command", "mirror"}

TypeOK ==
    /\ pc \in [Proc -> Steps]
    /\ failed \in [Proc -> BOOLEAN]
    /\ op \in [Proc -> 0 .. MaxCode]
    /\ resumed \in [Proc -> SUBSET Phases]
    /\ fds \subseteq Proc \X Parts
    /\ summary \subseteq Phases
    /\ summaryOp \in 0 .. MaxCode
    /\ status \in {"none", "pending", "failed", "success"}
    /\ published \in Nat
    /\ data \in Nat /\ cached \in Nat /\ shipped \in Nat /\ validated \in Nat
    /\ shippedCode \in 0 .. MaxCode
    /\ code \in 1 .. MaxCode
    /\ dirty \in BOOLEAN /\ skipped \in BOOLEAN
    /\ runs \in Nat

Init ==
    /\ pc = [p \in Proc |-> "idle"]
    /\ failed = [p \in Proc |-> FALSE]
    /\ op = [p \in Proc |-> 0]
    /\ resumed = [p \in Proc |-> {}]
    /\ fds = {}
    /\ summary = {}
    /\ summaryOp = 0
    /\ status = "none"
    /\ published \in {0, 1}
    /\ data = 1
    /\ cached = 0
    /\ shipped = 0
    /\ shippedCode = 0
    /\ code = 1
    /\ validated = 0
    /\ dirty = FALSE
    /\ skipped = FALSE
    /\ runs = 0

--------------------------------------------------------------------------------
(* The lock.  A command inherits the open file and keeps the lock when its *)
(* launcher is gone, and so does the artifact mirror a loop job leaves     *)
(* running behind it.                                                      *)

\* Mutant: the lock is the launcher's alone.
LockedByLauncher == \E p \in Proc : <<p, "launcher">> \in fds

Locked == fds # {}

Goto(p, step) == pc' = [pc EXCEPT ![p] = step]

\* Somebody who finds the file locked leaves with exit code 75.
Launch(p) ==
    /\ pc[p] = "idle"
    /\ ~Locked
    /\ runs < MaxRuns
    /\ runs' = runs + 1
    /\ fds' = fds \cup ({p} \X {"launcher", "command"})
    /\ Goto(p, IF p \in Cron THEN "repair" ELSE "gate")
    /\ failed' = [failed EXCEPT ![p] = FALSE]
    /\ UNCHANGED <<op, resumed, file, published, data, outside, code, history>>

LauncherDies(p) ==
    /\ <<p, "launcher">> \in fds
    /\ fds' = fds \ {<<p, "launcher">>}
    /\ UNCHANGED <<locals, file, published, data, outside, code, history, runs>>

\* The command of p ends, and its launcher with it.
Leave(p) ==
    /\ Goto(p, "idle")
    /\ fds' = fds \ ({p} \X {"launcher", "command"})

--------------------------------------------------------------------------------
(* The repair *)

\* An action of the repair changes the data, and may publish the date.
Repair(p) ==
    /\ pc[p] = "repair"
    /\ data < MaxData
    /\ data' = data + 1
    /\ dirty' = TRUE
    /\ published' \in IF published = 0 THEN {0, data'} ELSE {published}
    /\ UNCHANGED <<locals, fds, file, outside, code, validated, skipped, runs>>

\* _write_summary_files: a summary of its own, without phases of a finaliser.
Rewritten ==
    /\ summary' = {}
    /\ summaryOp' = 0
    /\ status' = "none"
    /\ dirty' = FALSE

RepairEnds(p) ==
    /\ pc[p] = "repair"
    /\ Rewritten
    /\ failed' \in {[failed EXCEPT ![p] = bad] : bad \in BOOLEAN}
    /\ Goto(p, "gate")
    /\ UNCHANGED <<op, resumed, fds, published, data, outside, code, validated, skipped, runs>>

\* A repair that dies leaves the old summary, or one torn by the write, which
\* read_json takes for an empty one.
Left == Rewritten \/ UNCHANGED <<file, dirty>>

\* The job sees an exit code and finalises.
RepairDies(p) ==
    /\ pc[p] = "repair"
    /\ Left
    /\ failed' = [failed EXCEPT ![p] = TRUE]
    /\ Goto(p, "gate")
    /\ UNCHANGED <<op, resumed, fds, published, data, outside, code, validated, skipped, runs>>

\* The command is killed with all its processes; or it is the loop job and has
\* a signal, which ends the repair and skips the finaliser.  In a phase, what is
\* killed after its effect is as one that failed after it.
Killed(p) ==
    /\ pc[p] # "idle"
    /\ Leave(p)
    /\ IF pc[p] = "repair" THEN Left ELSE UNCHANGED <<file, dirty>>
    /\ UNCHANGED <<failed, op, resumed, published, data, outside, code, validated, skipped, runs>>

--------------------------------------------------------------------------------
(* The finaliser *)

\* Mutant: the publication is resumed like the other phases.
PersistWithPublication(release, phases, result) ==
    /\ summary' = phases \cup {"publish"}
    /\ summaryOp' = release
    /\ status' = result

\* persist_repair_publication_summary, under a lock of the file and with an
\* atomic replace.
Persist(release, phases, result) ==
    /\ summary' = phases
    /\ summaryOp' = release
    /\ status' = result

\* Mutant: phases are resumed whatever operation they are of.
FoundOfAny(release) == summary

\* The phases that the file has as done for this operation.
Found(release) == IF summaryOp = release THEN summary ELSE {}

\* finalize_repaired_release reads the summary; a failed repair ends there.
Gate(p) ==
    /\ pc[p] = "gate"
    /\ op' = [op EXCEPT ![p] = code]
    /\ IF failed[p]
       THEN /\ Persist(code, {}, "failed")
            /\ dirty' = FALSE
            /\ Leave(p)
            /\ UNCHANGED resumed
       ELSE /\ resumed' = [resumed EXCEPT ![p] = Found(code)]
            /\ Goto(p, "publish")
            /\ UNCHANGED <<summary, summaryOp, status, dirty, fds>>
    /\ UNCHANGED <<failed, published, data, outside, code, validated, skipped, runs>>

\* A phase fails: the later phases are skipped, done is what was before it.
Fail(p, done) ==
    /\ Persist(op[p], done, "failed")
    /\ Leave(p)
    /\ UNCHANGED <<failed, op, resumed>>

\* A receipt or a publication that is there is taken.  Only a finaliser that
\* requires none publishes itself, with new data.
Publish(p) ==
    /\ pc[p] = "publish"
    /\ published # 0 \/ (p \notin LoopCron /\ data < MaxData)
    /\ data' = IF published # 0 THEN data ELSE data + 1
    /\ published' = IF published # 0 THEN published ELSE data'
    /\ Goto(p, "validate")
    /\ UNCHANGED <<failed, op, resumed, fds, summary, summaryOp, status, outside, code,
                   history, runs>>

PublishFails(p) ==
    /\ pc[p] = "publish"
    /\ Fail(p, {})
    /\ UNCHANGED <<published, data, outside, code, history, runs>>

\* Mutant: what has been finalised before is not validated again.
ValidateOnce(p) ==
    /\ pc[p] = "validate"
    /\ validated' = IF validated = 0 THEN data ELSE validated
    /\ Persist(op[p], resumed[p], "pending")
    /\ Goto(p, "cache")
    /\ UNCHANGED <<failed, op, resumed, fds, published, data, outside, code, dirty, skipped, runs>>

\* contract_check and readiness_check, on every run of the finaliser.
Validate(p) ==
    /\ pc[p] = "validate"
    /\ validated' = data
    /\ Persist(op[p], resumed[p], "pending")
    /\ Goto(p, "cache")
    /\ UNCHANGED <<failed, op, resumed, fds, published, data, outside, code, dirty, skipped, runs>>

ValidateFails(p) ==
    /\ pc[p] = "validate"
    /\ Fail(p, {})
    /\ UNCHANGED <<published, data, outside, code, history, runs>>

ClearCache(p) ==
    /\ pc[p] = "cache"
    /\ cached' = IF "cache" \in resumed[p] THEN cached ELSE data
    /\ Persist(op[p], resumed[p] \cup {"cache"}, "pending")
    /\ Goto(p, "sync")
    /\ UNCHANGED <<failed, op, resumed, fds, published, data, shipped, shippedCode,
                   code, history, runs>>

\* The answer may be lost after the cache was cleared.
ClearCacheFails(p) ==
    /\ pc[p] = "cache"
    /\ "cache" \notin resumed[p]
    /\ cached' \in {cached, data}
    /\ Fail(p, {})
    /\ UNCHANGED <<published, data, shipped, shippedCode, code, history, runs>>

\* sync_dashboard_release.sh finds the desired state live and copies nothing: the
\* host runs the release and shows the date's strategy release with its counts.
\* It does not look at the data, and it looks at more than that.
AlreadyLive ==
    /\ shippedCode = code
    /\ published # 0 /\ shipped >= published

\* It copies the artifacts and restarts the host with the release.
Ship ==
    /\ shipped' = data
    /\ shippedCode' = code

\* It fails before, between or after the two.
ShipSome ==
    \/ Ship
    \/ shipped' \in {shipped, data} /\ UNCHANGED shippedCode

\* After a success the loop job leaves the artifact mirror running.
Sync(p) ==
    /\ pc[p] = "sync"
    /\ \/ "sync" \in resumed[p] /\ UNCHANGED <<shipped, shippedCode, skipped>>
       \/ "sync" \notin resumed[p] /\ Ship /\ skipped' = FALSE
       \/ /\ "sync" \notin resumed[p] /\ AlreadyLive
          /\ skipped' = TRUE
          /\ UNCHANGED <<shipped, shippedCode>>
    /\ Persist(op[p], Phases, "success")
    /\ Goto(p, "idle")
    /\ fds' = (fds \ ({p} \X {"launcher", "command"}))
              \cup (IF p \in LoopCron THEN {<<p, "mirror">>} ELSE {})
    /\ UNCHANGED <<failed, op, resumed, published, data, cached, code, validated,
                   dirty, runs>>

SyncFails(p) ==
    /\ pc[p] = "sync"
    /\ "sync" \notin resumed[p]
    /\ ShipSome
    /\ Fail(p, {"cache"})
    /\ UNCHANGED <<published, data, cached, code, history, runs>>

Finalise(p) ==
    \/ Gate(p)
    \/ Publish(p) \/ PublishFails(p)
    \/ Validate(p) \/ ValidateFails(p)
    \/ ClearCache(p) \/ ClearCacheFails(p)
    \/ Sync(p) \/ SyncFails(p)

--------------------------------------------------------------------------------
(* The loop job's mirror, and what goes on without the lock *)

\* deploy/sync_dashboard_artifacts.sh copies the artifacts once more.
Mirror(p) ==
    /\ <<p, "mirror">> \in fds
    /\ shipped' \in {shipped, data}
    /\ fds' = fds \ {<<p, "mirror">>}
    /\ UNCHANGED <<locals, file, published, data, cached, shippedCode, code, history, runs>>

\* run_strategy_daily_eod_cron.sh publishes the date itself.
StrategyCronPublishes ==
    /\ published = 0
    /\ data < MaxData
    /\ data' = data + 1
    /\ published' = data'
    /\ UNCHANGED <<locals, fds, file, outside, code, history, runs>>

\* It leaves a mirror of its own running, whose copy nobody has validated.
StrategyMirror ==
    /\ published # 0
    /\ shipped' = data
    /\ UNCHANGED <<locals, fds, file, published, data, cached, shippedCode, code, history, runs>>

\* The nightly job runs sync_dashboard_release.sh: it copies, skips or fails.
DailySync ==
    /\ ShipSome
    /\ UNCHANGED <<locals, fds, file, published, data, cached, code, history, runs>>

Deploy ==
    /\ code < MaxCode
    /\ code' = code + 1
    /\ UNCHANGED <<locals, fds, file, published, data, outside, history, runs>>

Unlocked == StrategyCronPublishes \/ StrategyMirror \/ DailySync \/ Deploy

Step(p) ==
    \/ Launch(p) \/ LauncherDies(p) \/ Killed(p) \/ Mirror(p)
    \/ Repair(p) \/ RepairEnds(p) \/ RepairDies(p)
    \/ Finalise(p)

Next == Unlocked \/ \E p \in Proc : Step(p)

Spec == Init /\ [][Next]_vars

--------------------------------------------------------------------------------
(* Properties *)

\* One of the jobs that take the lock works on the date at a time, and none
\* while the mirror of one of them copies, although launchers die and commands
\* outlive them.
OneCommand ==
    \A p, q \in Proc :
        /\ pc[p] # "idle" /\ pc[q] # "idle" => p = q
        /\ <<p, "mirror">> \in fds => pc[q] = "idle"

\* When a finaliser reports success, the external host runs the release the
\* operation is for or a later one and has the date's registered strategy
\* release; and the cache shows nothing older than the repaired data, and the
\* host has that data too, even when the finaliser found phases done by an
\* earlier one that was killed or failed half-way.  Two cases are excused from
\* the second part.  A deployment that was skipped leaves the host the data it
\* has: after the repair of a date that the host had under the same release,
\* that is older data.  A repair that is killed before it writes a summary leaves the phases
\* of the data before it, and a finaliser run by hand on that summary may take
\* them for done.
SuccessIsExposed ==
    [][\A p \in Proc :
        pc[p] = "sync" /\ pc'[p] = "idle" /\ status' = "success" =>
            /\ shippedCode' >= op[p] /\ shipped' >= published
            /\ ~dirty => cached' = data /\ (skipped' \/ shipped' = data)]_vars

\* What a finaliser's sync, and the mirror of its job after it, copy to the
\* external host is data that the release contract and the platform's readiness
\* have accepted as it is.  (The strategy cron's mirror and the nightly sync
\* copy whatever they find.)
FinaliserShipsValidated ==
    [][\A p \in Proc :
        \/ pc[p] = "sync" /\ pc'[p] # "sync"
        \/ <<p, "mirror">> \in fds /\ <<p, "mirror">> \notin fds'
        => shipped' \in {shipped, validated}]_vars
================================================================================
