---------------------------- MODULE StrategyPublish ----------------------------
(***************************************************************************)
(* run_strategy_daily_eod (strategy_daily_eod.py): the publication of the  *)
(* strategy release of one trade date by competing processes (the nightly  *)
(* cron, the platform build, the EOD auto repair).  Each call              *)
(*   - returns early when the date is already published,                   *)
(*   - waits for the publish lock, looking again while it waits,           *)
(*   - builds and validates a release in a staging directory,              *)
(*   - switches the canonical directory, commits the manifest rows and the *)
(*     status row in one transaction, and rolls the switch back when the   *)
(*     transaction raises.                                                 *)
(*                                                                         *)
(* The directories of the date: Canonical is the directory <root>/<date>   *)
(* itself; a call stages in a version directory of its own, named here by  *)
(* the call's number; LegacyHome is the version directory a symlinked      *)
(* canonical path points to at the start.  link is where the canonical     *)
(* path leads: Canonical when it is a real directory, a version directory  *)
(* when it is a symlink.                                                   *)
(***************************************************************************)
EXTENDS Integers, FiniteSets

CONSTANTS
    Proc,              \* the processes that publish
    Free,              \* the publish lock is not held
    MaxCalls,          \* bound: calls of run_strategy_daily_eod altogether
    Retain,            \* version directories kept by _prune_version_history
    RetainAudits,      \* failure summaries kept by _persist_failure_summary
    CommitAckLost,     \* may the connection break after the server committed?
    RaiseAfterSwitch,  \* may fsync or the action alarm raise after a rename?
    ProbeFails         \* may an inspection error hide a published release?

ASSUME ConstantsAssumption ==
    /\ Free \notin Proc
    /\ MaxCalls \in Nat
    /\ Retain \in Nat \ {0}
    /\ RetainAudits \in Nat \ {0}
    /\ CommitAckLost \in BOOLEAN
    /\ RaiseAfterSwitch \in BOOLEAN
    /\ ProbeFails \in BOOLEAN

None == 0            \* no directory there
Legacy == -1         \* the release an earlier deployment left
Call == 1 .. MaxCalls
Content == Call \cup {None, Legacy}

Canonical == 0
LegacyHome == -1
Place == Call \cup {Canonical, LegacyHome}
Version == Place \ {Canonical}

VARIABLES
    calls,     \* number of calls started so far
    lock,      \* holder of strategy_daily_eod_publish.flock, or Free
    link,      \* where the canonical path of the date leads
    dirs,      \* dirs[d]: the release directory d holds, or None
    db,        \* status row and manifest rows of the date
    audits,    \* calls whose failure summary is kept under .failures
    pc,        \* pc[p]: the step process p is about to take
    call,      \* call[p]: the number of p's call
    look,      \* look[p]: which _load_published_result p is about to run
    late,      \* late[p]: the lock deadline of p's call has passed
    base,      \* base[p]: the visible release when p got the lock
    mode,      \* mode[p]: mode of p's publish handle, "none" without one
    oldLink,   \* oldLink[p]: the link target the handle remembers
    fate,      \* fate[p]: why p's run is not a success
    result     \* result[p]: how p's last call ended and what it reported

files == <<link, dirs>>
locals == <<call, look, late, base, mode, oldLink, fate>>
vars == <<calls, lock, files, db, audits, pc, locals, result>>

Steps == {"idle", "row", "summary", "lock", "build", "ready", "switched",
          "committed", "rollback", "audit", "status", "cleanup"}

Looks == {"first", "busy", "held"}
Modes == {"none", "first", "exchange", "symlink"}
Fates == {"none", "invalid", "commit_failed", "rollback_failed"}

Result == [how : {"none", "published", "success", "failed", "raised", "crashed"},
           release : Content]

Row == [status : {"none", "failed", "success"}, run : Content,
        manifest : Content]

NoResult == [how |-> "none", release |-> None]

NoRow == [status |-> "none", run |-> None, manifest |-> None]

\* What a reader of <root>/<date> finds.
Visible == dirs[link]

TypeOK ==
    /\ calls \in 0 .. MaxCalls
    /\ lock \in Proc \cup {Free}
    /\ link \in Place
    /\ dirs \in [Place -> Content]
    /\ db \in Row
    /\ audits \subseteq Call
    /\ pc \in [Proc -> Steps]
    /\ call \in [Proc -> 0 .. MaxCalls]
    /\ look \in [Proc -> Looks]
    /\ late \in [Proc -> BOOLEAN]
    /\ base \in [Proc -> Content]
    /\ mode \in [Proc -> Modes]
    /\ oldLink \in [Proc -> Place]
    /\ fate \in [Proc -> Fates]
    /\ result \in [Proc -> Result]

--------------------------------------------------------------------------------
(* Initial states: no release, a release in a real directory, or a release *)
(* behind a symlink; the status row absent, left by a failed diagnosis, or *)
(* already a success of that release.                                      *)

InitRow(release) ==
    {NoRow, [status |-> "failed", run |-> Legacy, manifest |-> release]} \cup
    (IF release = None THEN {}
     ELSE {[status |-> "success", run |-> Legacy, manifest |-> Legacy]})

Init ==
    /\ calls = 0
    /\ lock = Free
    /\ link \in {Canonical, LegacyHome}
    /\ \/ /\ link = Canonical
          /\ dirs = [d \in Place |-> None]
       \/ dirs = [d \in Place |-> IF d = link THEN Legacy ELSE None]
    /\ db \in InitRow(dirs[link])
    /\ audits = {}
    /\ pc = [p \in Proc |-> "idle"]
    /\ call = [p \in Proc |-> 0]
    /\ look = [p \in Proc |-> "first"]
    /\ late = [p \in Proc |-> FALSE]
    /\ base = [p \in Proc |-> None]
    /\ mode = [p \in Proc |-> "none"]
    /\ oldLink = [p \in Proc |-> Canonical]
    /\ fate = [p \in Proc |-> "none"]
    /\ result = [p \in Proc |-> NoResult]

--------------------------------------------------------------------------------
(* Control. *)

\* The locals of p's call number c before it does anything; 0 for no call.
Fresh(p, c) ==
    /\ call' = [call EXCEPT ![p] = c]
    /\ look' = [look EXCEPT ![p] = "first"]
    /\ late' = [late EXCEPT ![p] = FALSE]
    /\ base' = [base EXCEPT ![p] = None]
    /\ mode' = [mode EXCEPT ![p] = "none"]
    /\ oldLink' = [oldLink EXCEPT ![p] = Canonical]
    /\ fate' = [fate EXCEPT ![p] = "none"]

Start(p) ==
    /\ pc[p] = "idle"
    /\ calls < MaxCalls
    /\ calls' = calls + 1
    /\ pc' = [pc EXCEPT ![p] = "row"]
    /\ Fresh(p, calls + 1)
    /\ result' = [result EXCEPT ![p] = NoResult]
    /\ UNCHANGED <<lock, files, db, audits>>

\* p goes on to another step of its call.
Goto(p, step) ==
    /\ pc' = [pc EXCEPT ![p] = step]
    /\ UNCHANGED <<calls, lock, result>>

\* p's call ends; its finally block gives the lock back, however it ends.
End(p, how, release) ==
    /\ pc' = [pc EXCEPT ![p] = "idle"]
    /\ Fresh(p, 0)
    /\ result' = [result EXCEPT ![p] = [how |-> how, release |-> release]]
    /\ lock' = IF lock = p THEN Free ELSE lock
    /\ UNCHANGED calls

\* The run is not going to be a success.
SetFate(p, why) ==
    /\ fate' = [fate EXCEPT ![p] = why]
    /\ UNCHANGED <<call, look, late, base, mode, oldLink>>

\* The monotonic clock reaches the deadline of a call that has no lock yet.
DeadlinePasses(p) ==
    /\ pc[p] # "idle"
    /\ look[p] # "held"
    /\ ~late[p]
    /\ late' = [late EXCEPT ![p] = TRUE]
    /\ UNCHANGED <<calls, lock, files, db, audits, pc, result, call, look,
                   base, mode, oldLink, fate>>

\* _load_published_result said no: go for the lock, give up, or build.
NotPublished(p) ==
    IF look[p] = "busy" /\ late[p]
    THEN End(p, "raised", None)
    ELSE /\ Goto(p, IF look[p] = "held" THEN "build" ELSE "lock")
         /\ UNCHANGED locals

\* Mutant: the summary file alone decides whether the date is published.
ReadRowUnchecked(p) ==
    /\ pc[p] = "row"
    /\ Goto(p, "summary")
    /\ UNCHANGED <<files, db, audits, locals>>

\* First half of _load_published_result: the status row.
ReadRow(p) ==
    /\ pc[p] = "row"
    /\ \/ /\ db.status = "success"
          /\ Goto(p, "summary")
          /\ UNCHANGED locals
       \/ /\ db.status # "success" \/ ProbeFails
          /\ NotPublished(p)
    /\ UNCHANGED <<files, db, audits>>

\* Second half: the summary file under the canonical directory.  Every
\* release holds a success summary, so only a missing directory is refused.
ReadSummary(p) ==
    /\ pc[p] = "summary"
    /\ \/ /\ Visible # None
          /\ End(p, "published", Visible)
       \/ /\ Visible = None \/ ProbeFails
          /\ NotPublished(p)
    /\ UNCHANGED <<files, db, audits>>

\* Mutant: the result of flock is ignored.
AcquireAnyway(p) ==
    /\ pc[p] = "lock"
    /\ lock' = p
    /\ look' = [look EXCEPT ![p] = "held"]
    /\ base' = [base EXCEPT ![p] = Visible]
    /\ pc' = [pc EXCEPT ![p] = "row"]
    /\ UNCHANGED <<calls, files, db, audits, result, call, late, mode,
                   oldLink, fate>>

\* Mutant: no second look once the lock is held.
AcquireWithoutLook(p) ==
    /\ pc[p] = "lock"
    /\ lock = Free
    /\ lock' = p
    /\ look' = [look EXCEPT ![p] = "held"]
    /\ base' = [base EXCEPT ![p] = Visible]
    /\ pc' = [pc EXCEPT ![p] = "build"]
    /\ UNCHANGED <<calls, files, db, audits, result, call, late, mode,
                   oldLink, fate>>

\* flock(LOCK_EX | LOCK_NB): with the lock, look once more before building.
Acquire(p) ==
    /\ pc[p] = "lock"
    /\ lock = Free
    /\ lock' = p
    /\ look' = [look EXCEPT ![p] = "held"]
    /\ base' = [base EXCEPT ![p] = Visible]
    /\ pc' = [pc EXCEPT ![p] = "row"]
    /\ UNCHANGED <<calls, files, db, audits, result, call, late, mode,
                   oldLink, fate>>

\* Mutant: a blocked call looks again but never checks its deadline.
BlockedForever(p) ==
    /\ pc[p] = "lock"
    /\ lock # Free
    /\ Goto(p, "row")
    /\ UNCHANGED <<files, db, audits, locals>>

\* BlockingIOError: look whether the holder has published meanwhile.
Blocked(p) ==
    /\ pc[p] = "lock"
    /\ lock # Free
    /\ look' = [look EXCEPT ![p] = "busy"]
    /\ Goto(p, "row")
    /\ UNCHANGED <<files, db, audits, call, late, base, mode, oldLink, fate>>

--------------------------------------------------------------------------------
(* The publication itself, under the lock. *)

\* Schema, dependency check, publisher and staged validation.  The contract
\* is valid or not, and what runs outside the try block may raise.
Build(p) ==
    /\ pc[p] = "build"
    /\ \/ /\ dirs' = [dirs EXCEPT ![call[p]] = call[p]]
          /\ Goto(p, "ready")
          /\ UNCHANGED locals
       \/ /\ \E staged \in {None, call[p]} :
                dirs' = [dirs EXCEPT ![call[p]] = staged]
          /\ SetFate(p, "invalid")
          /\ Goto(p, "audit")
       \/ /\ End(p, "raised", None)
          /\ UNCHANGED dirs
    /\ UNCHANGED <<link, db, audits>>

\* begin_atomic_publish, once the release is relocated and its summary
\* written: how the canonical path is made to lead to the staged release.
SwitchMode ==
    IF link # Canonical THEN "symlink"
    ELSE IF dirs[Canonical] = None THEN "first" ELSE "exchange"

\* Mutant: the canonical directory is replaced, not exchanged.
Overwrite(c) ==
    /\ dirs' = [dirs EXCEPT ![Canonical] = dirs[c], ![c] = None]
    /\ UNCHANGED link

\* The rename of the first publication is an exchange with nothing.
Exchange(c) ==
    /\ dirs' = [dirs EXCEPT ![Canonical] = dirs[c], ![c] = dirs[Canonical]]
    /\ UNCHANGED link

Relink(d) ==
    /\ link' = d
    /\ UNCHANGED dirs

DoSwitch(c) == IF SwitchMode = "symlink" THEN Relink(c) ELSE Exchange(c)

Switch(p) ==
    /\ pc[p] = "ready"
    /\ DoSwitch(call[p])
    /\ mode' = [mode EXCEPT ![p] = SwitchMode]
    /\ oldLink' = [oldLink EXCEPT ![p] = link]
    /\ Goto(p, "switched")
    /\ UNCHANGED <<db, audits, call, look, late, base, fate>>

\* Relocation, the summary write or the switch raises: the except block runs
\* without a handle, so nothing is rolled back, not even a rename that had
\* already happened.
SwitchRaises(p) ==
    /\ pc[p] = "ready"
    /\ UNCHANGED files \/ (RaiseAfterSwitch /\ DoSwitch(call[p]))
    /\ SetFate(p, "commit_failed")
    /\ Goto(p, "audit")
    /\ UNCHANGED <<db, audits>>

\* Mutant: the status row is committed on its own, before the manifest rows.
TransactInTwo(p) ==
    /\ pc[p] = "switched"
    /\ \/ /\ db' = [status |-> "success", run |-> call[p],
                    manifest |-> call[p]]
          /\ Goto(p, "committed")
       \/ /\ db' = [db EXCEPT !.status = "success", !.run = call[p]]
          /\ Goto(p, "rollback")
    /\ UNCHANGED <<files, audits, locals>>

\* commit_strategy_publication: manifest rows and status row in one
\* transaction.  It commits, rolls back, or commits and still raises.
Transact(p) ==
    /\ pc[p] = "switched"
    /\ \/ /\ db' = [status |-> "success", run |-> call[p],
                    manifest |-> call[p]]
          /\ \/ Goto(p, "committed")
             \/ CommitAckLost /\ Goto(p, "rollback")
       \/ /\ UNCHANGED db
          /\ Goto(p, "rollback")
    /\ UNCHANGED <<files, audits, locals>>

\* Mutant: the current target is pruned like any other version.
PrunableAll(current, kept) ==
    LET history == {d \in Version : dirs[d] # None}
    IN  {gone \in SUBSET history :
            Cardinality(history \ gone) >= kept \/ gone = {}}

\* _prune_version_history: the version directories it may delete, sparing the
\* current target and the newest ones.  Deletion is best effort; which
\* directories are the newest is left open.
Prunable(current, kept) ==
    LET history == {d \in Version \ current : dirs[d] # None}
    IN  {gone \in SUBSET history :
            Cardinality(history \ gone) >= kept \/ gone = {}}

\* What handle.commit() deletes: the first publication has no history.
Pruned(p) ==
    IF mode[p] = "symlink" THEN Prunable({call[p]}, Retain - 1)
    ELSE IF mode[p] = "exchange" THEN Prunable({}, Retain) ELSE {{}}

\* handle.commit(): keep a bounded history and report success.
Finish(p) ==
    /\ pc[p] = "committed"
    /\ \E gone \in Pruned(p) :
          dirs' = [d \in Place |-> IF d \in gone THEN None ELSE dirs[d]]
    /\ End(p, "success", call[p])
    /\ UNCHANGED <<link, db, audits>>

\* handle.rollback(): undo the rename of the handle's mode.
Undo(p) == IF mode[p] = "symlink" THEN Relink(oldLink[p])
           ELSE Exchange(call[p])

\* Mutant: the transaction failed, the switch stays.
RollbackForgotten(p) ==
    /\ pc[p] = "rollback"
    /\ SetFate(p, "commit_failed")
    /\ Goto(p, "audit")
    /\ UNCHANGED <<files, db, audits>>

Rollback(p) ==
    /\ pc[p] = "rollback"
    /\ Undo(p)
    /\ SetFate(p, "commit_failed")
    /\ Goto(p, "audit")
    /\ UNCHANGED <<db, audits>>

RollbackRaises(p) ==
    /\ pc[p] = "rollback"
    /\ UNCHANGED files \/ (RaiseAfterSwitch /\ Undo(p))
    /\ SetFate(p, "rollback_failed")
    /\ Goto(p, "audit")
    /\ UNCHANGED <<db, audits>>

\* Mutant: the summary just written can be pruned with the old ones.
PersistFailureUnprotected(p) ==
    /\ pc[p] = "audit"
    /\ \E kept \in SUBSET (audits \cup {call[p]}) :
          /\ Cardinality(kept) >= RetainAudits \/ kept = audits \cup {call[p]}
          /\ audits' = kept
    /\ Goto(p, IF fate[p] = "invalid" THEN "cleanup" ELSE "status")
    /\ UNCHANGED <<files, db, locals>>

\* _persist_failure_summary: write the summary and keep a bounded number; or
\* it raises, before or after the write, and the exception leaves the call.
PersistFailure(p) ==
    /\ pc[p] = "audit"
    /\ \/ /\ \E kept \in SUBSET audits :
                /\ Cardinality(kept) >= RetainAudits - 1 \/ kept = audits
                /\ audits' = kept \cup {call[p]}
          /\ Goto(p, IF fate[p] = "invalid" THEN "cleanup" ELSE "status")
          /\ UNCHANGED locals
       \/ /\ audits' \in {audits, audits \cup {call[p]}}
          /\ End(p, "raised", None)
    /\ UNCHANGED <<files, db>>

\* Mutant: a status the table does not know.
FailedRowUnknown(p) ==
    [status |-> "error", run |-> call[p], manifest |-> db.manifest]

FailedRow(p) ==
    [status |-> "failed", run |-> call[p], manifest |-> db.manifest]

\* _best_effort_failed_status swallows its errors; the recovery scene of a
\* failed rollback is left alone and the call raises.
BestEffortStatus(p) ==
    /\ pc[p] = "status"
    /\ fate[p] # "invalid"
    /\ db' \in {FailedRow(p), db}
    /\ IF fate[p] = "rollback_failed"
       THEN End(p, "raised", None)
       ELSE Goto(p, "cleanup") /\ UNCHANGED locals
    /\ UNCHANGED <<files, audits>>

\* shutil.rmtree(output_dir, ignore_errors=True).
Cleanup(p) ==
    /\ pc[p] = "cleanup"
    /\ dirs' \in {[dirs EXCEPT ![call[p]] = None], dirs}
    /\ IF fate[p] = "invalid"
       THEN Goto(p, "status") /\ UNCHANGED locals
       ELSE End(p, "failed", None)
    /\ UNCHANGED <<link, db, audits>>

\* The status row of an invalid release; this upsert may raise, and raise
\* after the server has committed it.
RejectStatus(p) ==
    /\ pc[p] = "status"
    /\ fate[p] = "invalid"
    /\ \/ /\ db' = FailedRow(p)
          /\ End(p, "failed", None)
       \/ /\ db' \in IF CommitAckLost THEN {db, FailedRow(p)} ELSE {db}
          /\ End(p, "raised", None)
    /\ UNCHANGED <<files, audits>>

\* The process dies; the kernel drops its lock, the files and rows stay.
Crash(p) ==
    /\ pc[p] # "idle"
    /\ End(p, "crashed", None)
    /\ UNCHANGED <<files, db, audits>>

--------------------------------------------------------------------------------

\* The steps of a running call.
Step(p) ==
    \/ ReadRow(p)        \/ ReadSummary(p)       \/ Acquire(p)
    \/ Blocked(p)        \/ Build(p)             \/ Switch(p)
    \/ SwitchRaises(p)   \/ Transact(p)          \/ Finish(p)
    \/ Rollback(p)       \/ RollbackRaises(p)    \/ PersistFailure(p)
    \/ Cleanup(p)        \/ BestEffortStatus(p)  \/ RejectStatus(p)

Next == \E p \in Proc :
            Start(p) \/ DeadlinePasses(p) \/ Step(p) \/ Crash(p)

Spec == Init /\ [][Next]_vars

Waiting == {"row", "summary", "lock"}

\* A call that has no lock yet keeps polling and the clock keeps going.  The
\* holder is not fair: it may hang in the publisher or in the database.
Fairness ==
    \A p \in Proc :
        /\ WF_vars(pc[p] \in Waiting /\ Step(p))
        /\ WF_vars(DeadlinePasses(p))

FairSpec == Spec /\ Fairness

--------------------------------------------------------------------------------
(* Properties. *)

Publishing == {"build", "ready", "switched", "committed", "rollback", "audit",
               "status", "cleanup"}

Ends(p) == pc[p] # "idle" /\ pc'[p] = "idle"

\* Two calls are never between the acquisition of the publish lock and its
\* release: one call at a time touches the directories and the rows.
SinglePublisher ==
    \A p, q \in Proc :
        pc[p] \in Publishing /\ pc[q] \in Publishing => p = q

\* A success row always tells the truth: the canonical path leads to the
\* release of the run it names, and the manifest rows are of that run.
RegisteredIsVisible ==
    db.status = "success" =>
        /\ Visible # None
        /\ Visible = db.run
        /\ Visible = db.manifest

\* While a call holds the lock, the release that was visible when it got the
\* lock is still on disk in one of the directories, so it can be restored.
PreviousReleaseKept ==
    \A p \in Proc :
        lock = p /\ base[p] # None =>
            \E d \in Place : dirs[d] = base[p]

\* What a reader that trusts the status row takes for the release.
Registered == IF db.status = "success" THEN Visible ELSE None

Register == INSTANCE ReleaseRegister
            WITH Release <- Content \ {None}, registered <- Registered

\* The publication implements the write-once register: a registered release
\* is never replaced and never taken back by a later call.
PublishesOnce == Register!Spec

\* A call that returns success, or finds the date already published, reports
\* exactly the release the rows name and the canonical path leads to.
AnswersAreRegistered ==
    [][\A p \in Proc :
          Ends(p) /\ result'[p].how \in {"success", "published"} =>
              /\ db'.status = "success"
              /\ db'.run = result'[p].release
              /\ Visible' = result'[p].release]_vars

\* A call that returns success has really published its release, whatever
\* went wrong before, in this call or in another one.
SuccessIsVisible ==
    [][\A p \in Proc :
          Ends(p) /\ result'[p].how = "success" =>
              /\ db'.status = "success"
              /\ db'.run = call[p]
              /\ Visible' = call[p]]_vars

\* A call that held the lock and returns a failed or partial summary leaves
\* the canonical release as it found it.
FailedCallsLeaveRelease ==
    [][\A p \in Proc :
          Ends(p) /\ lock = p /\ result'[p].how = "failed" =>
              Visible' = base[p]]_vars

\* The date never goes from released to not released, except when the call
\* that released it for the first time takes its own release back.
ReleaseNeverLost ==
    [][Visible # None /\ Visible' = None =>
          \E p \in Proc : lock = p /\ base[p] = None]_vars

\* A row that records a failed or partial run names a run whose failure
\* summary is on disk.
FailureIsAudited ==
    [][db' # db /\ db'.status = "failed" => db'.run \in audits']_vars

\* No call waits forever: it answers, gets the lock or gives up, although the
\* holder of the publish lock may hang.
WaitsEnd == \A p \in Proc : pc[p] \in Waiting ~> pc[p] \notin Waiting
================================================================================
