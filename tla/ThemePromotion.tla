---------------------------- MODULE ThemePromotion ----------------------------
(***************************************************************************)
(* Review and promotion of research evidence (theme_research_ingestion.py) *)
(* into one canonical theme artifact.  An ingestion run holds candidates:  *)
(* a source and a claim.  Reviewers append decisions to the run's ledger   *)
(* (review_events.jsonl); promote_run adds the accepted rows to the        *)
(* artifact in two phases, with a "prepared" event before the artifact is  *)
(* replaced and a "committed" one after, and first resolves whatever an    *)
(* earlier promotion of any run left outstanding.                          *)
(*                                                                         *)
(* Every ledger append is a line of the log (fsync) and then a replacement *)
(* of review_ledger_head.json; either may fail, and a process may be       *)
(* killed anywhere, which releases its file locks.                         *)
(***************************************************************************)
EXTENDS Integers, Sequences, FiniteSets

CONSTANTS
    Proc,         \* processes that call promote_run
    Run,          \* ingestion runs; a run's claim row has the run's name as id
    Source,       \* the source id, the same in every run
    Decision,     \* review decisions that are used
    MaxCalls,     \* bound: calls of promote_run altogether
    MaxReviews,   \* bound: review decisions recorded altogether
    MaxRepairs    \* bound: head repairs by validations that hold no lock

ASSUME ConstantsAssumption ==
    /\ Source \notin Run
    /\ IsFiniteSet(Run)
    /\ Decision \subseteq {"accept_as_lead", "accept_draft", "accept_reviewed", "reject"}
    /\ MaxCalls \in Nat
    /\ MaxReviews \in Nat
    /\ MaxRepairs \in Nat

VARIABLES
    ledger,       \* ledger[r]: the events of run r, oldest first
    head,         \* head[r]: the event count its ledger head anchors
    target,       \* the canonical artifact: target[i] is row i, or Absent
    repairs,      \* number of head repairs that started without a lock
    validating,   \* <<run, event count>> such a repair is about to write, or <<>>
    calls,        \* number of promote_run calls so far
    pc,           \* pc[p]: the step process p is about to take
    run,          \* run[p]: the run p promotes
    expected,     \* expected[p]: the artifact p's caller took the hash of
    todo,         \* todo[p]: the runs p has still to recover
    prepared,     \* prepared[p]: the prepared event p appended
    told,         \* the <<id, row>> pairs a call reported as promoted
    overtaken     \* runs reviewed while their own promotion was outstanding

vars == <<ledger, head, target, repairs, validating, calls, pc, run, expected, todo,
          prepared, told, overtaken>>

Absent == "absent"

\* The decisions that project a candidate to a canonical row; the row is told
\* apart by the decision (lead, draft or accepted, reviewed).
Row == Decision \ {"reject"}

Item == Run \cup {Source}
Artifact == [Item -> Row \cup {Absent}]
NoRows == [i \in Item |-> Absent]
None == "none"

\* A ledger event: a review, or a status of a promotion.  A promotion is
\* known by the artifact before it and the rows it adds.
Promotion == Artifact \X Artifact
Review == [kind : {"review"}, item : Item, decision : Decision]
Audit == [kind : {"prepared", "committed", "failed", "rolled_back"}, id : Promotion]

Before(id) == id[1]
Rows(id) == id[2]
Candidates(id) == {i \in Item : Rows(id)[i] # Absent}
After(id) == [i \in Item |-> IF Rows(id)[i] = Absent THEN Before(id)[i] ELSE Rows(id)[i]]

TypeOK ==
    /\ ledger \in [Run -> Seq(Review \cup Audit)]
    /\ head \in [Run -> Nat]
    /\ target \in Artifact
    /\ repairs \in 0 .. MaxRepairs
    /\ validating \in {<<>>} \cup (Run \X Nat)
    /\ calls \in 0 .. MaxCalls
    /\ pc \in [Proc -> {"idle", "package", "recover", "replace", "commit", "restore", "rollback"}]
    /\ run \in [Proc -> Run \cup {None}]
    /\ expected \in [Proc -> Artifact]
    /\ todo \in [Proc -> SUBSET Run]
    /\ prepared \in [Proc -> Promotion]
    /\ told \subseteq Item \X Row
    /\ overtaken \subseteq Run

Init ==
    /\ ledger = [r \in Run |-> <<>>]
    /\ head = [r \in Run |-> 0]
    /\ target = NoRows
    /\ repairs = 0
    /\ validating = <<>>
    /\ calls = 0
    /\ pc = [p \in Proc |-> "idle"]
    /\ run = [p \in Proc |-> None]
    /\ expected = [p \in Proc |-> NoRows]
    /\ todo = [p \in Proc |-> {}]
    /\ prepared = [p \in Proc |-> <<NoRows, NoRows>>]
    /\ told = {}
    /\ overtaken = {}

--------------------------------------------------------------------------------
(* Reading a ledger: what its first k events say, against today's artifact. *)



\* Positions among the first k of run r with an audit of promotion id.
Audits(r, k, id) == {j \in 1 .. k : ledger[r][j].kind # "review" /\ ledger[r][j].id = id}

Promotions(r, k) ==
    {ledger[r][j].id : j \in {j \in 1 .. k : ledger[r][j].kind # "review"}}

Latest(S) == CHOOSE j \in S : \A i \in S : i <= j

Status(r, k, id) == ledger[r][Latest(Audits(r, k, id))].kind

\* _prepared_rows_match_target
RowsMatch(id) == \A i \in Candidates(id) : target[i] = Rows(id)[i]

\* _effectively_promoted_candidate_ids
Frozen(r, k) ==
    UNION {Candidates(id) : id \in {q \in Promotions(r, k) :
        Status(r, k, q) \in {"committed", "prepared"} /\ RowsMatch(q)}}

Reviews(r, k, i) == {j \in 1 .. k : ledger[r][j].kind = "review" /\ ledger[r][j].item = i}

\* _latest_review_events
Decided(r, k, i) ==
    IF Reviews(r, k, i) = {} THEN None ELSE ledger[r][Latest(Reviews(r, k, i))].decision

\* _validate_review_decision: what the policy lets a reviewer decide.
Permitted(r, k, i, d) ==
    /\ i \in {r, Source}
    /\ d = "accept_reviewed" => i = r /\ Decided(r, k, Source) = "accept_draft"

\* _validate_ledger_head
Anchored(r) == head[r] <= Len(ledger[r])

\* validate_run: the head lies in the log, and every review respects the
\* freezing and the policy at its place.
Valid(r) ==
    /\ Anchored(r)
    /\ \A k \in 1 .. Len(ledger[r]) :
          ledger[r][k].kind = "review" =>
             /\ ledger[r][k].item \notin Frozen(r, k - 1)
             /\ Permitted(r, k - 1, ledger[r][k].item, ledger[r][k].decision)

--------------------------------------------------------------------------------
(* Writing a ledger: the line of the log, then the head that anchors it.  An *)
(* append that fails at the head raises with the line written.               *)

Log(r, event, anchor) ==
    /\ ledger' = [ledger EXCEPT ![r] = Append(@, event)]
    /\ head' = [head EXCEPT ![r] = anchor]

LogOk(r, event) == Log(r, event, Len(ledger[r]) + 1)

\* After a validation, which moved the head up to the log.
LogRaisesAfterValidation(r, event) == Log(r, event, Len(ledger[r]))

LogRaises(r, event) == Log(r, event, head[r])

\* _append_promotion_terminal_event: written, written without its head, or not.
LogStatus(r, id, status) ==
    LET event == [kind |-> status, id |-> id]
    IN  LogOk(r, event) \/ LogRaises(r, event) \/ UNCHANGED <<ledger, head>>

RunLocked(r) ==
    \E p \in Proc : run[p] = r /\ pc[p] \in {"replace", "commit", "restore", "rollback"}

\* Mutant: promotions do not share a lock.
PackageLockedNever == FALSE

PackageLocked == \E p \in Proc : pc[p] \notin {"idle", "package"}

--------------------------------------------------------------------------------
(* Recovery: what an earlier call left open, and how it is closed. *)

\* Promotions of r that _recover_prepared_promotions does not skip.
Outstanding(r) ==
    {id \in Promotions(r, Len(ledger[r])) :
        \/ Status(r, Len(ledger[r]), id) = "prepared"
        \/ Status(r, Len(ledger[r]), id) = "committed" /\ ~RowsMatch(id)}

\* Mutant: a prepared promotion that was not reported is taken for failed.
ResolutionFailed(r, id) ==
    IF Status(r, Len(ledger[r]), id) = "committed"
    THEN IF target = Before(id) THEN "rolled_back" ELSE "conflict"
    ELSE "failed"

Resolution(r, id) ==
    IF Status(r, Len(ledger[r]), id) = "committed"
    THEN IF target = Before(id) THEN "rolled_back" ELSE "conflict"
    ELSE IF target = After(id) \/ RowsMatch(id) THEN "committed"
    ELSE IF target = Before(id) THEN "failed" ELSE "conflict"

--------------------------------------------------------------------------------
(* Reviewers *)

Recorded ==
    UNION {{r} \X {j \in 1 .. Len(ledger[r]) : ledger[r][j].kind = "review"} : r \in Run}

\* Mutant: the freezing of promoted candidates is not looked at.
ReviewFrozenToo(r, i, d) ==
    LET event == [kind |-> "review", item |-> i, decision |-> d]
    IN  /\ ~RunLocked(r)
        /\ Cardinality(Recorded) < MaxReviews
        /\ Valid(r)
        /\ Permitted(r, Len(ledger[r]), i, d)
        /\ LogOk(r, event) \/ LogRaisesAfterValidation(r, event)
        /\ overtaken' = IF \E id \in Outstanding(r) : i \in Candidates(id)
                        THEN overtaken \cup {r} ELSE overtaken
        /\ UNCHANGED <<target, repairs, validating, calls, pc, run, expected, todo, prepared, told>>

\* append_review_event, under the run lock from its validation to its end.  The
\* preview it rebuilds is for people: a promotion makes its own.
ReviewCandidate(r, i, d) ==
    LET event == [kind |-> "review", item |-> i, decision |-> d]
    IN  /\ ~RunLocked(r)
        /\ Cardinality(Recorded) < MaxReviews
        /\ Valid(r)
        /\ i \notin Frozen(r, Len(ledger[r]))
        /\ Permitted(r, Len(ledger[r]), i, d)
        /\ LogOk(r, event) \/ LogRaisesAfterValidation(r, event)
        /\ overtaken' = IF \E id \in Outstanding(r) : i \in Candidates(id)
                        THEN overtaken \cup {r} ELSE overtaken
        /\ UNCHANGED <<target, repairs, validating, calls, pc, run, expected, todo, prepared, told>>

\* validate_run without a lock (validate-run, summary, a repeated ingestion):
\* it reads the log and the head, and writes the head of the log it read.
ValidateReads(r) ==
    /\ validating = <<>>
    /\ repairs < MaxRepairs
    /\ repairs' = repairs + 1
    /\ head[r] < Len(ledger[r])
    /\ Valid(r)
    /\ validating' = <<r, Len(ledger[r])>>
    /\ UNCHANGED <<ledger, head, target, calls, pc, run, expected, todo, prepared, told, overtaken>>

ValidateRepairs ==
    /\ validating # <<>>
    /\ head' = [head EXCEPT ![validating[1]] = validating[2]]
    /\ validating' = <<>>
    /\ UNCHANGED <<ledger, target, repairs, calls, pc, run, expected, todo, prepared, told, overtaken>>

--------------------------------------------------------------------------------
(* promote_run *)

\* The caller takes the hash of the artifact and calls.
Start(p, r) ==
    /\ pc[p] = "idle"
    /\ calls < MaxCalls
    /\ calls' = calls + 1
    /\ pc' = [pc EXCEPT ![p] = "package"]
    /\ run' = [run EXCEPT ![p] = r]
    /\ expected' = [expected EXCEPT ![p] = target]
    /\ UNCHANGED <<ledger, head, target, repairs, validating, todo, prepared, told, overtaken>>

\* Mutant: only the run that is promoted is recovered first.
TakePackageLockRecoverOwn(p) ==
    /\ pc[p] = "package"
    /\ ~PackageLocked
    /\ pc' = [pc EXCEPT ![p] = "recover"]
    /\ todo' = [todo EXCEPT ![p] = {run[p]}]
    /\ UNCHANGED <<ledger, head, target, repairs, validating, calls, run, expected, prepared, told, overtaken>>

TakePackageLock(p) ==
    /\ pc[p] = "package"
    /\ ~PackageLocked
    /\ pc' = [pc EXCEPT ![p] = "recover"]
    /\ todo' = [todo EXCEPT ![p] = Run]
    /\ UNCHANGED <<ledger, head, target, repairs, validating, calls, run, expected, prepared, told, overtaken>>

\* The call is over, its locks are released.
Leave(p) ==
    /\ pc' = [pc EXCEPT ![p] = "idle"]
    /\ run' = [run EXCEPT ![p] = None]
    /\ expected' = [expected EXCEPT ![p] = NoRows]
    /\ todo' = [todo EXCEPT ![p] = {}]
    /\ prepared' = [prepared EXCEPT ![p] = <<NoRows, NoRows>>]
    /\ calls' = calls

\* _recover_outstanding_package_promotions comes to run r and finds nothing open.
NothingToRecover(p, r) ==
    /\ pc[p] = "recover"
    /\ r \in todo[p]
    /\ Valid(r)
    /\ Outstanding(r) = {}
    /\ todo' = [todo EXCEPT ![p] = @ \ {r}]
    /\ head' = [head EXCEPT ![r] = Len(ledger[r])]
    /\ UNCHANGED <<ledger, target, repairs, validating, calls, pc, run, expected, prepared, told, overtaken>>

\* It closes promotion id of run r; an append that raises ends the call.
Recover(p, r, id) ==
    LET event == [kind |-> Resolution(r, id), id |-> id]
    IN  /\ pc[p] = "recover"
        /\ r \in todo[p]
        /\ Valid(r)
        /\ id \in Outstanding(r)
        /\ Resolution(r, id) # "conflict"
        /\ \/ /\ LogOk(r, event)
              /\ todo' = IF Outstanding(r) = {id} THEN [todo EXCEPT ![p] = @ \ {r}] ELSE todo
              /\ UNCHANGED <<calls, pc, run, expected, prepared>>
           \/ LogRaisesAfterValidation(r, event) /\ Leave(p)
        /\ UNCHANGED <<target, repairs, validating, told, overtaken>>

\* _build_promotion_preview_unlocked: the accepted candidates, without a claim
\* whose source is neither here nor in the artifact, or is not accepted.
Accepted(r) == {i \in {r, Source} : Decided(r, Len(ledger[r]), i) \in Row}

Blocked(r) ==
    LET sources == {target[Source]} \cup
                   (IF Source \in Accepted(r) THEN {Decided(r, Len(ledger[r]), Source)} ELSE {})
    IN  IF Decided(r, Len(ledger[r]), r) = "accept_reviewed"
        THEN "accept_draft" \notin sources
        ELSE sources = {Absent}

Promotable(r) == IF Blocked(r) THEN Accepted(r) \ {r} ELSE Accepted(r)

\* Another row has the id of a promotable one.
Collision(r) ==
    \E i \in Promotable(r) : target[i] \notin {Absent, Decided(r, Len(ledger[r]), i)}

\* Mutant: candidates are added whether or not they were accepted.
AddedUndecided(r) ==
    [i \in Item |-> IF i \in {r, Source} /\ target[i] = Absent
                    THEN Decided(r, Len(ledger[r]), i) ELSE Absent]

Added(r) ==
    [i \in Item |-> IF i \in Promotable(r) /\ target[i] = Absent
                    THEN Decided(r, Len(ledger[r]), i) ELSE Absent]

\* _promote_run_locked up to the prepared event.  If its head cannot be written
\* the call raises and leaves the promotion outstanding.
Prepare(p) ==
    LET r == run[p]
        id == <<target, Added(r)>>
        event == [kind |-> "prepared", id |-> id]
    IN  /\ pc[p] = "recover"
        /\ todo[p] = {}
        /\ Valid(r)
        /\ target = expected[p]
        /\ ~Collision(r)
        /\ Added(r) # NoRows
        /\ \/ /\ LogOk(r, event)
              /\ pc' = [pc EXCEPT ![p] = "replace"]
              /\ prepared' = [prepared EXCEPT ![p] = id]
              /\ UNCHANGED <<calls, run, expected, todo>>
           \/ LogRaisesAfterValidation(r, event) /\ Leave(p)
        /\ UNCHANGED <<target, repairs, validating, told, overtaken>>

\* os.replace of the canonical artifact.
Replace(p) ==
    /\ pc[p] = "replace"
    /\ target' = After(prepared[p])
    /\ pc' = [pc EXCEPT ![p] = "commit"]
    /\ UNCHANGED <<ledger, head, repairs, validating, calls, run, expected, todo, prepared, told, overtaken>>

ReplaceFails(p) ==
    /\ pc[p] = "replace"
    /\ LogStatus(run[p], prepared[p], "failed")
    /\ Leave(p)
    /\ UNCHANGED <<target, repairs, validating, told, overtaken>>

\* The committed event is written and the call answers "promoted".
Commit(p) ==
    /\ pc[p] = "commit"
    /\ LogOk(run[p], [kind |-> "committed", id |-> prepared[p]])
    /\ told' = told \cup {<<i, Rows(prepared[p])[i]>> : i \in Candidates(prepared[p])}
    /\ Leave(p)
    /\ UNCHANGED <<target, repairs, validating, overtaken>>

\* The append raised, before or after its line: the backup is to be restored.
CommitFails(p) ==
    /\ pc[p] = "commit"
    /\ \/ LogRaises(run[p], [kind |-> "committed", id |-> prepared[p]])
       \/ UNCHANGED <<ledger, head>>
    /\ pc' = [pc EXCEPT ![p] = "restore"]
    /\ UNCHANGED <<target, repairs, validating, calls, run, expected, todo, prepared, told, overtaken>>

\* _restore_file_atomically(backup_path, target_path)
Restore(p) ==
    /\ pc[p] = "restore"
    /\ target' = Before(prepared[p])
    /\ pc' = [pc EXCEPT ![p] = "rollback"]
    /\ UNCHANGED <<ledger, head, repairs, validating, calls, run, expected, todo, prepared, told, overtaken>>

\* The rolled_back event; a failure to write it is swallowed.
RollBack(p) ==
    /\ pc[p] = "rollback"
    /\ LogStatus(run[p], prepared[p], "rolled_back")
    /\ Leave(p)
    /\ UNCHANGED <<target, repairs, validating, told, overtaken>>

\* The call ends here with nothing written: it refuses (a run is not valid, a
\* recovery conflict, a changed hash, a collision, no changes), an I/O error
\* is raised while it reads or restores, or the process is killed.
Stop(p) ==
    /\ pc[p] # "idle"
    /\ Leave(p)
    /\ UNCHANGED <<ledger, head, target, repairs, validating, told, overtaken>>

Promoter(p) ==
    \/ \E r \in Run : Start(p, r) \/ NothingToRecover(p, r)
    \/ \E r \in Run : \E id \in Outstanding(r) : Recover(p, r, id)
    \/ TakePackageLock(p) \/ Prepare(p)
    \/ Replace(p) \/ ReplaceFails(p)
    \/ Commit(p) \/ CommitFails(p)
    \/ Restore(p) \/ RollBack(p)
    \/ Stop(p)

Next ==
    \/ \E r \in Run, i \in Item, d \in Decision : ReviewCandidate(r, i, d)
    \/ \E r \in Run : ValidateReads(r)
    \/ ValidateRepairs
    \/ \E p \in Proc : Promoter(p)

Spec == Init /\ [][Next]_vars

--------------------------------------------------------------------------------
(* Properties *)

\* A run no reviewer touched while its own promotion was outstanding stays
\* valid: append failures, crashes and head repairs by validations that hold
\* no lock never leave a log that validate_run refuses.
ValidUnlessOvertaken == \A r \in Run : r \notin overtaken => Valid(r)

\* Freezing follows each promotion's latest state: what the commands wrote
\* stays a run that validate_run accepts.
RunsStayValid == \A r \in Run : Valid(r)

\* At most one promotion of the package is outstanding, and recovery can always
\* tell how it ended: the artifact never is in a state it blocks on.
Recoverable ==
    /\ Cardinality(UNION {{r} \X Outstanding(r) : r \in Run}) <= 1
    /\ \A r \in Run : \A id \in Outstanding(r) : Resolution(r, id) # "conflict"

\* What readers may rely on: while a call may still take its replacement back,
\* that is the artifact before it.
Published ==
    LET undecided == {p \in Proc : pc[p] \in {"commit", "restore"}}
    IN  IF undecided = {} THEN target ELSE Before(prepared[CHOOSE p \in undecided : TRUE])

\* Canonical evidence never diverges from its ledgers: every row is one that a
\* run's promotion added, with that run's latest decision on the candidate.
Audited ==
    \A i \in {j \in Item : Published[j] # Absent} :
        \E r \in Run : \E id \in Promotions(r, Len(ledger[r])) :
            /\ Rows(id)[i] = Published[i]
            /\ Status(r, Len(ledger[r]), id) \in {"prepared", "committed"}
            /\ Decided(r, Len(ledger[r]), i) = Published[i]

\* Promotions, with their failures, crashes, rollbacks and recoveries, only add
\* supported rows to the evidence, and a reported promotion stays.
Store == INSTANCE EvidenceStore WITH rows <- Published
AddsEvidence == Store!Spec
================================================================================
