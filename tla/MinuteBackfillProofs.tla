-------------------------- MODULE MinuteBackfillProofs --------------------------
(***************************************************************************)
(* Theorems about MinuteBackfill, for every number of jobs, runs, requests *)
(* and attempts.  The sums over runs that the budget is about are numbers  *)
(* of cells: the ledger has one for each request a run has allocated.      *)
(***************************************************************************)
EXTENDS MinuteBackfill, FiniteSetTheorems, SequenceTheorems, TLAPS

USE BackfillAssumption, NobodyAssumption DEF Job

--------------------------------------------------------------------------------
(* Type correctness. *)

LedgerOK ==
    /\ file \in Seq(Doc)
    /\ flock \in Proc \cup {Nobody}
    /\ buffer \in [Proc -> Doc]
    /\ lost \in BOOLEAN

RowsOK ==
    /\ status \in [Job -> {"pending", "running", "success", "skipped"}]
    /\ stale \subseteq Job
    /\ qfq \in [Job -> BOOLEAN]
    /\ bars \in [Job -> {"none", "raw", "derived"}]
    /\ late \subseteq Job

RunsOK ==
    /\ pc \in [Proc -> Steps]
    /\ alloc \in [Proc -> Nat]
    /\ count \in [Proc -> Nat]
    /\ used \in [Proc -> Nat]
    /\ sent \in Nat /\ forgotten \in Nat /\ runs \in Nat

WorkOK ==
    /\ child \in [Proc -> Parts]
    /\ runLock \in Proc \cup {Nobody}
    /\ before \in [Proc -> Nat]
    /\ since \in [Proc -> SUBSET Job]
    /\ queue \in [Proc -> SUBSET Job]
    /\ cur \in [Proc -> 0 .. N]
    /\ tries \in [Proc -> Nat]
    /\ orphan \in [Proc -> 0 .. N]

Types == LedgerOK /\ RowsOK /\ RunsOK /\ WorkOK

LEMMA TypeParts == TypeOK <=> Types
BY DEF TypeOK, Types, LedgerOK, RowsOK, RunsOK, WorkOK

\* A job is in hand from its first attempt to the end of its derivation.
HasJob ==
    \A p \in Proc : child[p] \in {"fetch", "mark", "skip", "derive"} => cur[p] \in Job

\* A run has nobody at work before it waits, or after.
Parent == \A p \in Proc : pc[p] \notin {"idle", "wait"} => child[p] = "none"

\* The ledger is locked between reading and truncating.
Holder == \A p \in Proc : flock = p => pc[p] \in {"grant", "settle"}

Base == Types /\ HasJob /\ Parent /\ Holder

LEMMA DocFields ==
    ASSUME NEW doc \in Doc
    PROVE  doc.consumed \in Nat /\ doc.reserved \in Nat
BY DEF Doc

LEMMA ReadTypes ==
    ASSUME LedgerOK
    PROVE  Read \in Doc /\ Empty \in Doc
<1>1. Empty \in Doc
  BY DEF Empty, Doc
<1>2. ASSUME file # <<>> PROVE file[1] \in Doc
  <2>1. file \in Seq(Doc) /\ 1 \in 1 .. Len(file)
    BY <1>2, EmptySeq DEF LedgerOK
  <2>2. QED
    BY <2>1, ElementOfSeq
<1>3. QED
  BY <1>1, <1>2 DEF Read

LEMMA AllocatedTypes ==
    ASSUME NEW doc \in Doc
    PROVE  Allocated(doc) \in Nat
BY DocFields DEF Allocated, Smaller, OrZero

LEMMA SettleTypes ==
    ASSUME NEW doc \in Doc, NEW a \in Nat, NEW b \in Nat
    PROVE  Settle(doc, a, b) \in Doc
<1>1. /\ doc.consumed + Smaller(b, a) \in Nat
      /\ OrZero(doc.reserved - a) \in Nat
  BY DocFields DEF Smaller, OrZero
<1>2. QED
  BY <1>1 DEF Settle, Doc

LEMMA HandledFinite == Cardinality(Handled) \in Nat
<1>1. IsFiniteSet(1 .. N)
  BY FS_Interval
<1>2. Handled \subseteq 1 .. N
  BY DEF Handled
<1>3. QED
  BY <1>1, <1>2, FS_Subset, FS_CardinalityType

LEMMA TypeInit == Init => Base
<1> SUFFICES ASSUME Init PROVE Base
  OBVIOUS
<1>1. Empty \in Doc
  BY DEF Empty, Doc
<1>2. LedgerOK
  <2>1. <<>> \in Seq(Doc)
    OBVIOUS
  <2>2. buffer \in [Proc -> Doc] /\ lost \in BOOLEAN
    BY <1>1 DEF Init
  <2>3. QED
    BY <2>1, <2>2 DEF Init, LedgerOK
<1>3. RowsOK
  BY DEF Init, RowsOK
<1>4. RunsOK
  BY DEF Init, RunsOK, Steps
<1>5. WorkOK /\ HasJob
  BY DEF Init, WorkOK, HasJob, Parts
<1>6. QED
  BY <1>2, <1>3, <1>4, <1>5 DEF Base, Types, Parent, Holder, Init

\* What the actions leave alone.
LEMMA Same ==
    ASSUME Base
    PROVE  /\ UNCHANGED <<ledger, lost>> => LedgerOK'
           /\ UNCHANGED <<rows, late>> => RowsOK'
           /\ UNCHANGED <<pc, result, sent, forgotten, runs>> => RunsOK'
           /\ UNCHANGED <<child, runLock, work, orphan>> => WorkOK' /\ HasJob'
           /\ UNCHANGED <<pc, child>> => Parent'
           /\ UNCHANGED <<pc, flock>> => Holder'
<1>1. UNCHANGED <<ledger, lost>> => LedgerOK'
  BY DEF Base, Types, LedgerOK, ledger
<1>2. UNCHANGED <<rows, late>> => RowsOK'
  BY DEF Base, Types, RowsOK, rows
<1>3. UNCHANGED <<pc, result, sent, forgotten, runs>> => RunsOK'
  BY DEF Base, Types, RunsOK, result
<1>4. UNCHANGED <<child, runLock, work, orphan>> => WorkOK' /\ HasJob'
  BY DEF Base, Types, WorkOK, HasJob, work
<1>5. UNCHANGED <<pc, child>> => Parent'
  BY DEF Base, Parent
<1>6. UNCHANGED <<pc, flock>> => Holder'
  BY DEF Base, Holder
<1>7. QED
  BY <1>1, <1>2, <1>3, <1>4, <1>5, <1>6

LEMMA GotoTypes ==
    ASSUME Base, NEW p \in Proc, NEW step \in Steps, Goto(p, step)
    PROVE  pc' \in [Proc -> Steps]
BY DEF Base, Types, RunsOK, Goto

\* Going on without starting anybody.
LEMMA GotoParent ==
    ASSUME Base, NEW p \in Proc, NEW step, Goto(p, step),
           \/ pc[p] \notin {"idle", "wait"}
           \/ step \in {"idle", "wait"}
           \/ child[p] = "none",
           UNCHANGED child
    PROVE  Parent'
BY DEF Base, Types, RunsOK, WorkOK, Goto, Parent

LEMMA GotoHolder ==
    ASSUME Base, NEW p \in Proc, NEW step, Goto(p, step),
           \/ flock' = p /\ flock = Nobody /\ step \in {"grant", "settle"}
           \/ flock' = flock /\ pc[p] \notin {"grant", "settle"}
           \/ flock' = Nobody
    PROVE  Holder'
BY DEF Base, Types, RunsOK, LedgerOK, Goto, Holder

LEMMA EndedTypes ==
    ASSUME Base, NEW p \in Proc, Ended(p)
    PROVE  /\ alloc' \in [Proc -> Nat]
           /\ count' \in [Proc -> Nat]
           /\ used' \in [Proc -> Nat]
BY DEF Base, Types, RunsOK, Ended

LEMMA DroppedTypes ==
    ASSUME Base, NEW p \in Proc, Dropped(p)
    PROVE  /\ before' \in [Proc -> Nat]
           /\ since' \in [Proc -> SUBSET Job]
           /\ queue' \in [Proc -> SUBSET Job]
           /\ cur' \in [Proc -> 0 .. N]
           /\ tries' \in [Proc -> Nat]
BY DEF Base, Types, WorkOK, Dropped

LEMMA GoneTypes ==
    ASSUME Base, NEW p \in Proc, Gone(p), runLock' \in Proc \cup {Nobody}
    PROVE  WorkOK' /\ HasJob'
<1>1. child' \in [Proc -> Parts] /\ orphan' \in [Proc -> 0 .. N]
  BY DEF Base, Types, WorkOK, Gone, GotoPart, Parts
<1>2. HasJob'
  BY DEF Base, Types, WorkOK, HasJob, Gone, GotoPart, Dropped
<1>3. QED
  BY <1>1, <1>2, DroppedTypes DEF Gone, WorkOK

LEMMA ResumeTypes ==
    ASSUME Base, NEW p \in Proc, NEW n \in Nat, Resume(p, n),
           UNCHANGED <<sent, forgotten, runs>>
    PROVE  RunsOK'
<1>1. pc' \in [Proc -> Steps]
  BY GotoTypes DEF Resume, Steps, Base, Types, RunsOK
<1>2. /\ alloc' \in [Proc -> Nat]
      /\ count' \in [Proc -> Nat]
      /\ used' \in [Proc -> Nat]
  BY EndedTypes DEF Resume, Base, Types, RunsOK
<1>3. QED
  BY <1>1, <1>2 DEF RunsOK, Base, Types

LEMMA ResetTypes ==
    ASSUME Base, NEW S, Reset(S), UNCHANGED <<qfq, bars, late>>
    PROVE  RowsOK'
BY DEF Base, Types, RowsOK, Reset

LEMMA UpdateTypes ==
    ASSUME Base, NEW p \in Proc, Update(p)
    PROVE  Base'
<1> USE DEF Base, Types
<1>1. CASE Allocate(p)
  <2>1. Allocated(Read) \in Nat /\ Read \in Doc
    BY ReadTypes, AllocatedTypes
  <2>2. [consumed |-> Read.consumed, reserved |-> Read.reserved + Allocated(Read)] \in Doc
    BY <2>1, DocFields DEF Doc
  <2>3. LedgerOK'
    BY <1>1, <2>2 DEF Allocate, Lock, LedgerOK
  <2>4. pc' \in [Proc -> Steps]
    BY <1>1, GotoTypes DEF Allocate, Steps
  <2>5. RunsOK'
    BY <1>1, <2>1, <2>4 DEF Allocate, RunsOK
  <2>6. Parent'
    BY <1>1, GotoParent DEF Allocate
  <2>7. Holder'
    BY <1>1, GotoHolder DEF Allocate, Lock
  <2>8. QED
    BY <1>1, <2>3, <2>5, <2>6, <2>7, Same DEF Allocate
<1>2. CASE Finalize(p)
  <2>1. alloc[p] \in Nat /\ count[p] \in Nat /\ used[p] \in Nat
    BY DEF RunsOK
  <2>2. Settle(Read, alloc[p], count[p]) \in Doc
    BY <2>1, ReadTypes, SettleTypes
  <2>3. LedgerOK'
    BY <1>2, <2>2 DEF Finalize, Lock, LedgerOK
  <2>4. pc' \in [Proc -> Steps]
    BY <1>2, GotoTypes DEF Finalize, Steps
  <2>5. forgotten' \in Nat
    BY <1>2, <2>1 DEF Finalize, OrZero, Smaller, RunsOK
  <2>6. RunsOK'
    BY <1>2, <2>4, <2>5, EndedTypes DEF Finalize, RunsOK
  <2>7. Parent'
    BY <1>2, GotoParent DEF Finalize
  <2>8. Holder'
    BY <1>2, GotoHolder DEF Finalize, Lock
  <2>9. QED
    BY <1>2, <2>3, <2>6, <2>7, <2>8, Same DEF Finalize
<1>3. CASE Unreadable(p)
  <2>1. pc' \in [Proc -> Steps]
    BY <1>3, GotoTypes DEF Unreadable, Steps
  <2>2. RunsOK'
    BY <1>3, <2>1, EndedTypes DEF Unreadable, RunsOK, history
  <2>3. Parent'
    BY <1>3, GotoParent DEF Unreadable
  <2>4. Holder'
    BY <1>3, GotoHolder DEF Unreadable, ledger
  <2>5. QED
    BY <1>3, <2>2, <2>3, <2>4, Same DEF Unreadable, history
<1>4. CASE Truncate(p)
  <2>1. pc' \in [Proc -> Steps]
    <3>1. CASE Goto(p, "granted")
      BY <3>1, GotoTypes DEF Steps
    <3>2. CASE Goto(p, "settled")
      BY <3>2, GotoTypes DEF Steps
    <3>3. QED
      BY <1>4, <3>1, <3>2 DEF Truncate
  <2>2. RunsOK'
    BY <1>4, <2>1 DEF Truncate, RunsOK, result, history
  <2>3. <<>> \in Seq(Doc)
    OBVIOUS
  <2>4. LedgerOK'
    BY <1>4, <2>3 DEF Truncate, LedgerOK, history
  <2>5. Parent'
    BY <1>4, GotoParent DEF Truncate, Holder
  <2>6. Holder'
    BY <1>4, GotoHolder DEF Truncate
  <2>7. QED
    BY <1>4, <2>2, <2>4, <2>5, <2>6, Same DEF Truncate, history
<1>5. CASE Close(p)
  <2>1. pc' \in [Proc -> Steps]
    <3>1. CASE Goto(p, "scan")
      BY <3>1, GotoTypes DEF Steps
    <3>2. CASE Goto(p, "idle")
      BY <3>2, GotoTypes DEF Steps
    <3>3. QED
      BY <1>5, <3>1, <3>2 DEF Close
  <2>2. RunsOK'
    BY <1>5, <2>1 DEF Close, RunsOK, result, history
  <2>3. Append(file, buffer[p]) \in Seq(Doc)
    BY AppendProperties DEF LedgerOK
  <2>4. LedgerOK'
    BY <1>5, <2>3, ReadTypes DEF Close, LedgerOK, history
  <2>5. Parent'
    BY <1>5, GotoParent DEF Close, Unflushed
  <2>6. Holder'
    BY <1>5, GotoHolder DEF Close, Unflushed
  <2>7. QED
    BY <1>5, <2>2, <2>4, <2>5, <2>6, Same DEF Close, history
<1>6. QED
  BY <1>1, <1>2, <1>3, <1>4, <1>5 DEF Update

LEMMA RunTypes ==
    ASSUME Base, NEW p \in Proc, Launch(p) \/ Scan(p) \/ Start(p) \/ StartFails(p)
    PROVE  Base'
<1> USE DEF Base, Types
<1>1. CASE Launch(p)
  <2>1. pc' \in [Proc -> Steps]
    BY <1>1, GotoTypes DEF Launch, Steps
  <2>2. RunsOK'
    BY <1>1, <2>1 DEF Launch, RunsOK, result, history
  <2>3. Parent'
    BY <1>1, GotoParent DEF Launch
  <2>4. Holder'
    BY <1>1, GotoHolder DEF Launch, ledger
  <2>5. QED
    BY <1>1, <2>2, <2>3, <2>4, Same DEF Launch, history
<1>2. CASE Scan(p)
  <2>1. pc' \in [Proc -> Steps]
    BY <1>2, GotoTypes DEF Scan, Steps
  <2>2. RunsOK'
    BY <1>2, <2>1 DEF Scan, RunsOK, result, history
  <2>3. RowsOK'
    BY <1>2, ResetTypes DEF Scan, history
  <2>4. WorkOK' /\ HasJob'
    BY <1>2, HandledFinite DEF Scan, WorkOK, HasJob
  <2>5. Parent'
    BY <1>2, GotoParent DEF Scan
  <2>6. Holder'
    BY <1>2, GotoHolder DEF Scan, ledger
  <2>7. QED
    BY <1>2, <2>2, <2>3, <2>4, <2>5, <2>6, Same DEF Scan, history
<1>3. CASE Start(p)
  <2>1. pc' \in [Proc -> Steps]
    <3>1. CASE Goto(p, "wait")
      BY <3>1, GotoTypes DEF Steps
    <3>2. CASE Goto(p, "finalize")
      BY <3>2, GotoTypes DEF Steps
    <3>3. QED
      BY <1>3, <3>1, <3>2 DEF Start
  <2>2. RunsOK'
    BY <1>3, <2>1 DEF Start, RunsOK, result, history
  <2>3. WorkOK' /\ HasJob'
    <3>1. CASE UNCHANGED work /\ GotoPart(p, "claim")
               /\ runLock' \in {runLock, p} /\ UNCHANGED orphan
      BY <3>1 DEF GotoPart, WorkOK, HasJob, Parts, work
    <3>2. CASE Dropped(p) /\ UNCHANGED <<runLock, child, orphan>>
      <4>1. HasJob'
        <5>1. child[p] = "none"
          BY <1>3 DEF Start, Parent
        <5>2. QED
          BY <3>2, <5>1 DEF Dropped, HasJob
      <4>2. QED
        BY <3>2, <4>1, DroppedTypes DEF WorkOK
    <3>3. QED
      BY <1>3, <3>1, <3>2 DEF Start
  <2>4. Parent'
    BY <1>3 DEF Start, Parent, Goto, GotoPart, RunsOK, WorkOK
  <2>5. Holder'
    BY <1>3, GotoHolder DEF Start, ledger
  <2>6. QED
    BY <1>3, <2>2, <2>3, <2>4, <2>5, Same DEF Start, history
<1>4. CASE StartFails(p)
  <2>1. pc' \in [Proc -> Steps]
    BY <1>4, GotoTypes DEF StartFails, Steps
  <2>2. RunsOK'
    BY <1>4, <2>1 DEF StartFails, RunsOK, result, history
  <2>3. child[p] = "none"
    BY <1>4 DEF StartFails, Parent
  <2>4. WorkOK' /\ HasJob'
    BY <1>4, <2>3, DroppedTypes DEF StartFails, Dropped, WorkOK, HasJob
  <2>5. Parent'
    BY <1>4, <2>3, GotoParent DEF StartFails
  <2>6. Holder'
    BY <1>4, <2>3, GotoHolder DEF StartFails, ledger
  <2>7. QED
    BY <1>4, <2>2, <2>4, <2>5, <2>6, Same DEF StartFails, history
<1>5. QED
  BY <1>1, <1>2, <1>3, <1>4

\* A step of the process at work that changes nothing of its run.
LEMMA PartParent ==
    ASSUME Base, NEW p \in Proc, NEW part, GotoPart(p, part), child[p] # "none",
           UNCHANGED <<pc, flock>>
    PROVE  Parent' /\ Holder'
BY DEF Base, Parent, Holder, Types, WorkOK, GotoPart

LEMMA ClaimedJobs ==
    ASSUME NEW k
    PROVE  FirstOf(Claimable, k) \subseteq {j \in Job : status[j] = "pending"}
BY DEF FirstOf, Claimable

LEMMA WorkTypes ==
    ASSUME Base, NEW p \in Proc,
           \/ Claim(p) \/ Attempt(p) \/ AttemptSucceeds(p) \/ AttemptFails(p)
           \/ MarkSuccess(p) \/ MarkSkipped(p) \/ Derive(p)
    PROVE  Base'
<1> USE DEF Base, Types
<1>1. CASE Claim(p)
  <2> DEFINE S == FirstOf(Claimable, alloc[p])
  <2>1. S \subseteq Job
    BY ClaimedJobs
  <2> HIDE DEF S
  <2>2. /\ status' = [j \in Job |-> IF j \in S THEN "running" ELSE status[j]]
        /\ queue' = [queue EXCEPT ![p] = S]
        /\ since' = [q \in Proc |-> IF pc[q] = "wait" THEN since[q] \cup S ELSE since[q]]
    BY <1>1 DEF Claim, S
  <2>3. RowsOK'
    BY <1>1, <2>2 DEF Claim, RowsOK, history
  <2>4. since' \in [Proc -> SUBSET Job]
    BY <2>1, <2>2 DEF WorkOK
  <2>5. WorkOK' /\ HasJob'
    BY <1>1, <2>1, <2>2, <2>4 DEF Claim, GotoPart, WorkOK, HasJob, Parts
  <2>6. Parent' /\ Holder'
    BY <1>1, PartParent DEF Claim, ledger
  <2>7. QED
    BY <1>1, <2>3, <2>5, <2>6, Same DEF Claim, history
<1>2. CASE Attempt(p)
  <2>1. PICK j \in queue[p] : /\ cur' = [cur EXCEPT ![p] = j]
                              /\ queue' = [queue EXCEPT ![p] = @ \ {j}]
    BY <1>2 DEF Attempt
  <2>2. j \in Job
    BY DEF WorkOK
  <2>3. WorkOK' /\ HasJob'
    BY <1>2, <2>1, <2>2 DEF Attempt, GotoPart, WorkOK, HasJob, Parts
  <2>4. RunsOK'
    BY <1>2 DEF Attempt, RunsOK
  <2>5. Parent' /\ Holder'
    BY <1>2, PartParent DEF Attempt, ledger
  <2>6. QED
    BY <1>2, <2>3, <2>4, <2>5, Same DEF Attempt
<1>3. CASE AttemptSucceeds(p)
  <2>1. RowsOK'
    BY <1>3 DEF AttemptSucceeds, Store, RowsOK, history
  <2>2. WorkOK' /\ HasJob'
    BY <1>3 DEF AttemptSucceeds, GotoPart, WorkOK, HasJob, Parts, work
  <2>3. Parent' /\ Holder'
    BY <1>3, PartParent DEF AttemptSucceeds, ledger
  <2>4. QED
    BY <1>3, <2>1, <2>2, <2>3, Same DEF AttemptSucceeds, history
<1>4. CASE AttemptFails(p)
  <2>1. RowsOK'
    BY <1>4 DEF AttemptFails, Store, RowsOK, history
  <2>2. WorkOK' /\ HasJob' /\ Parent' /\ Holder'
    <3>1. CASE tries' = [tries EXCEPT ![p] = @ + 1] /\ UNCHANGED child
      BY <1>4, <3>1 DEF AttemptFails, WorkOK, HasJob, Parent, Holder, ledger
    <3>2. CASE GotoPart(p, "skip") /\ UNCHANGED tries
      <4>1. Parent' /\ Holder'
        BY <1>4, <3>2, PartParent DEF AttemptFails, ledger
      <4>2. QED
        BY <1>4, <3>2, <4>1 DEF AttemptFails, GotoPart, WorkOK, HasJob, Parts
    <3>3. QED
      BY <1>4, <3>1, <3>2 DEF AttemptFails
  <2>3. QED
    BY <1>4, <2>1, <2>2, Same DEF AttemptFails, history
<1>5. CASE MarkSuccess(p)
  <2>1. cur[p] \in Job
    BY <1>5 DEF MarkSuccess, HasJob
  <2>2. RowsOK'
    BY <1>5, <2>1 DEF MarkSuccess, Mark, RowsOK, history
  <2>3. RunsOK'
    BY <1>5 DEF MarkSuccess, Mark, RunsOK, history
  <2>4. WorkOK' /\ HasJob'
    BY <1>5, <2>1 DEF MarkSuccess, GotoPart, WorkOK, HasJob, Parts, work
  <2>5. Parent' /\ Holder'
    BY <1>5, PartParent DEF MarkSuccess, ledger
  <2>6. QED
    BY <1>5, <2>2, <2>3, <2>4, <2>5, Same DEF MarkSuccess, history
<1>6. CASE MarkSkipped(p)
  <2>1. cur[p] \in Job
    BY <1>6 DEF MarkSkipped, HasJob
  <2>2. RowsOK'
    BY <1>6, <2>1 DEF MarkSkipped, Mark, RowsOK, history
  <2>3. RunsOK'
    BY <1>6 DEF MarkSkipped, Mark, RunsOK, history
  <2>4. WorkOK' /\ HasJob'
    BY <1>6, <2>1 DEF MarkSkipped, GotoPart, WorkOK, HasJob, Parts, work
  <2>5. Parent' /\ Holder'
    BY <1>6, PartParent DEF MarkSkipped, ledger
  <2>6. QED
    BY <1>6, <2>2, <2>3, <2>4, <2>5, Same DEF MarkSkipped, history
<1>7. CASE Derive(p)
  <2>1. cur[p] \in Job
    BY <1>7 DEF Derive, HasJob
  <2>2. qfq' \in [Job -> BOOLEAN] /\ bars' \in [Job -> {"none", "raw", "derived"}]
    BY <1>7, <2>1 DEF Derive, Derived, RowsOK
  <2>3. RowsOK'
    BY <1>7, <2>2 DEF Derive, RowsOK, history
  <2>4. WorkOK' /\ HasJob'
    BY <1>7 DEF Derive, GotoPart, WorkOK, HasJob, Parts, work
  <2>5. Parent' /\ Holder'
    BY <1>7, PartParent DEF Derive, ledger
  <2>6. QED
    BY <1>7, <2>3, <2>4, <2>5, Same DEF Derive, history
<1>8. QED
  BY <1>1, <1>2, <1>3, <1>4, <1>5, <1>6, <1>7

LEMMA UnlockTypes ==
    ASSUME Base, NEW p \in Proc, Unlock(p)
    PROVE  runLock' \in {runLock, Nobody} /\ runLock' \in Proc \cup {Nobody}
BY DEF Base, Types, WorkOK, Unlock

LEMMA ResumeParent ==
    ASSUME Base, NEW p \in Proc, NEW n, Gone(p), Resume(p, n), UNCHANGED flock
    PROVE  Parent' /\ Holder'
BY DEF Base, Types, WorkOK, RunsOK, Parent, Holder, Gone, GotoPart, Resume, Goto

LEMMA EndTypes ==
    ASSUME Base, NEW p \in Proc,
           WorkEnds(p) \/ WorkFails(p) \/ Timeout(p) \/ OrphanEnds(p) \/ Killed(p)
    PROVE  Base'
<1> USE DEF Base, Types
<1>1. CASE WorkEnds(p)
  <2>1. WorkOK' /\ HasJob'
    BY <1>1, GoneTypes, UnlockTypes DEF WorkEnds
  <2>2. RunsOK'
    <3>1. count[p] \in Nat
      BY DEF RunsOK
    <3>2. QED
      BY <1>1, <3>1, ResumeTypes DEF WorkEnds, history
  <2>3. Parent' /\ Holder'
    BY <1>1, ResumeParent DEF WorkEnds, ledger
  <2>4. QED
    BY <1>1, <2>1, <2>2, <2>3, Same DEF WorkEnds, history
<1>2. CASE WorkFails(p)
  <2>1. runLock' \in Proc \cup {Nobody}
    BY <1>2, UnlockTypes DEF WorkFails, WorkOK
  <2>2. WorkOK' /\ HasJob'
    BY <1>2, <2>1, GoneTypes DEF WorkFails
  <2>3. RunsOK'
    BY <1>2, ResumeTypes DEF WorkFails, history
  <2>4. Parent' /\ Holder'
    BY <1>2, ResumeParent DEF WorkFails, ledger
  <2>5. QED
    BY <1>2, <2>2, <2>3, <2>4, Same DEF WorkFails, history
<1>3. CASE Timeout(p)
  <2>1. WorkOK' /\ HasJob'
    BY <1>3, GoneTypes, UnlockTypes DEF Timeout
  <2>2. OrZero(Cardinality(Handled) - before[p]) \in Nat
    BY HandledFinite DEF OrZero, WorkOK
  <2>3. RunsOK'
    BY <1>3, <2>2, ResumeTypes DEF Timeout, history
  <2>4. RowsOK'
    BY <1>3, ResetTypes DEF Timeout, history
  <2>5. Parent' /\ Holder'
    BY <1>3, ResumeParent DEF Timeout, ledger
  <2>6. QED
    BY <1>3, <2>1, <2>3, <2>4, <2>5, Same DEF Timeout, history
<1>4. CASE OrphanEnds(p)
  <2>1. orphan[p] \in Job
    BY <1>4 DEF OrphanEnds, WorkOK
  <2>2. RowsOK'
    BY <1>4, <2>1 DEF OrphanEnds, Store, RowsOK
  <2>3. orphan' \in [Proc -> 0 .. N] /\ runLock' \in Proc \cup {Nobody}
    BY <1>4, UnlockTypes DEF OrphanEnds, WorkOK
  <2>4. WorkOK' /\ HasJob'
    BY <1>4, <2>3 DEF OrphanEnds, WorkOK, HasJob, work
  <2>5. QED
    BY <1>4, <2>2, <2>4, Same DEF OrphanEnds, ledger
<1>5. CASE Killed(p)
  <2>1. pc' \in [Proc -> Steps]
    BY <1>5, GotoTypes DEF Killed, Steps
  <2>2. RunsOK'
    BY <1>5, <2>1, EndedTypes DEF Killed, RunsOK, result
  <2>3. WorkOK' /\ HasJob'
    <3>1. CASE Gone(p) /\ UNCHANGED runLock
      BY <3>1, GoneTypes DEF WorkOK
    <3>2. CASE UNCHANGED <<runLock, child, work, orphan>>
      BY <3>2, Same
    <3>3. QED
      BY <1>5, <3>1, <3>2 DEF Killed, ReleaseAtKill
  <2>4. LedgerOK'
    <3>1. lost' \in BOOLEAN
      BY <1>5 DEF Killed, LedgerOK, Unflushed
    <3>2. flock' \in Proc \cup {Nobody} /\ buffer' \in [Proc -> Doc]
      BY <1>5, ReadTypes DEF Killed, LedgerOK
    <3>3. QED
      BY <1>5, <3>1, <3>2 DEF Killed, LedgerOK
  <2>5. Parent' /\ Holder'
    <3>1. \A q \in Proc : q # p => child'[q] = child[q] /\ pc'[q] = pc[q]
      BY <1>5 DEF Killed, Gone, GotoPart, Goto, ReleaseAtKill, RunsOK, WorkOK
    <3>2. pc'[p] = "idle" /\ (flock' = flock \/ flock' = Nobody) /\ flock' # p
      BY <1>5 DEF Killed, Goto, RunsOK, LedgerOK
    <3>3. QED
      BY <3>1, <3>2 DEF Parent, Holder
  <2>6. QED
    BY <1>5, <2>2, <2>3, <2>4, <2>5, Same DEF Killed
<1>6. QED
  BY <1>1, <1>2, <1>3, <1>4, <1>5

LEMMA BaseNext == Base /\ [Next]_vars => Base'
<1> SUFFICES ASSUME Base, [Next]_vars PROVE Base'
  OBVIOUS
<1>1. CASE \E p \in Proc : Step(p)
  BY <1>1, UpdateTypes, RunTypes, WorkTypes, EndTypes DEF Step, Work
<1>2. ASSUME NEW j \in Job, Ages(j) PROVE Base'
  <2>1. RowsOK'
    BY <1>2 DEF Ages, Base, Types, RowsOK, history
  <2>2. QED
    BY <1>2, <2>1, Same DEF Ages, Base, Types, ledger, history
<1>3. CASE UNCHANGED vars
  BY <1>3, Same DEF vars, Base, Types, ledger, history
<1>4. QED
  BY <1>1, <1>2, <1>3 DEF Next

LEMMA BaseCorrect == Spec => []Base
<1>1. QED
  BY TypeInit, BaseNext, PTL DEF Spec

\* The state of the backfill keeps its types, for every number of jobs, runs,
\* requests and attempts, whatever the ledger loses.
THEOREM TypeCorrect == Spec => []TypeOK
<1>1. Base => TypeOK
  BY TypeParts DEF Base
<1>2. QED
  BY <1>1, BaseCorrect, PTL

--------------------------------------------------------------------------------
(* One run at a time. *)

\* Who works for a watchdog has its lock; an attempt outlives only runs that are
\* about to end or are gone.
Locks ==
    /\ \A p \in Proc \ Script : child[p] # "none" => runLock = p
    /\ \A p \in Proc : orphan[p] # 0 =>
           child[p] = "none" /\ pc[p] \in {"idle", "finalize", "settle", "settled"}

\* The process of p is gone, and its run goes on to the end or is over.
LEMMA GoneLocks ==
    ASSUME Base, Locks, NEW p \in Proc, Gone(p),
           runLock' \in {runLock, Nobody}, runLock' # runLock => runLock = p,
           \A q \in Proc \ {p} : pc'[q] = pc[q],
           child[p] = "fetch" \/ orphan[p] # 0 => pc'[p] \in {"idle", "finalize", "settle", "settled"}
    PROVE  Locks'
<1>1. child'[p] = "none" /\ \A q \in Proc \ {p} : child'[q] = child[q]
  BY DEF Base, Types, WorkOK, Gone, GotoPart
<1>2. /\ \A q \in Proc \ {p} : orphan'[q] = orphan[q]
      /\ orphan'[p] # 0 => child[p] = "fetch" \/ orphan[p] # 0
  BY DEF Base, Types, WorkOK, Gone
<1>3. QED
  BY <1>1, <1>2 DEF Locks

LEMMA LocksNext == Base /\ Locks /\ [Next]_vars => Locks'
<1> SUFFICES ASSUME Base, Locks, [Next]_vars PROVE Locks'
  OBVIOUS
<1> USE DEF Base, Types
<1>1. ASSUME NEW p \in Proc, Update(p) \/ Launch(p) \/ Scan(p) \/ StartFails(p)
      PROVE  Locks'
  <2>1. UNCHANGED <<child, runLock, orphan>> /\ \A q \in Proc \ {p} : pc'[q] = pc[q]
    BY <1>1 DEF Update, Allocate, Finalize, Unreadable, Truncate, Close, Launch, Scan,
       StartFails, Goto, RunsOK
  <2>2. orphan[p] = 0 \/ pc'[p] \in {"idle", "finalize", "settle", "settled"}
    <3>1. CASE Allocate(p) \/ Launch(p) \/ Scan(p) \/ StartFails(p)
      BY <3>1 DEF Allocate, Launch, Scan, StartFails, Locks
    <3>2. CASE Finalize(p) \/ Unreadable(p)
      BY <3>2 DEF Finalize, Unreadable, Goto, RunsOK
    <3>3. CASE Truncate(p)
      BY <3>3 DEF Truncate, Goto, RunsOK, Holder, Locks
    <3>4. CASE Close(p)
      BY <3>4 DEF Close, Unflushed, Goto, RunsOK, Locks
    <3>5. QED
      BY <1>1, <3>1, <3>2, <3>3, <3>4 DEF Update
  <2>3. QED
    BY <2>1, <2>2 DEF Locks
<1>2. ASSUME NEW p \in Proc, Start(p) PROVE Locks'
  <2>1. orphan[p] = 0 /\ UNCHANGED orphan /\ \A q \in Proc \ {p} : pc'[q] = pc[q]
    BY <1>2 DEF Start, Locks, Goto, RunsOK
  <2>2. CASE UNCHANGED <<runLock, child>>
    BY <2>1, <2>2 DEF Locks
  <2>3. CASE /\ p \in Script \/ runLock = Nobody
             /\ runLock' = IF p \in Script THEN runLock ELSE p
             /\ GotoPart(p, "claim")
    BY <2>1, <2>3 DEF Locks, GotoPart, WorkOK
  <2>4. QED
    BY <1>2, <2>2, <2>3 DEF Start
<1>3. ASSUME NEW p \in Proc,
             \/ Claim(p) \/ Attempt(p) \/ AttemptSucceeds(p) \/ AttemptFails(p)
             \/ MarkSuccess(p) \/ MarkSkipped(p) \/ Derive(p)
      PROVE  Locks'
  <2>1. child[p] # "none" /\ UNCHANGED <<pc, runLock, orphan>>
    BY <1>3 DEF Claim, Attempt, AttemptSucceeds, AttemptFails, MarkSuccess, MarkSkipped,
       Derive, result
  <2>2. \A q \in Proc \ {p} : child'[q] = child[q]
    BY <1>3 DEF Claim, Attempt, AttemptSucceeds, AttemptFails, MarkSuccess, MarkSkipped,
       Derive, GotoPart, WorkOK
  <2>3. QED
    BY <2>1, <2>2 DEF Locks
<1>4. ASSUME NEW p \in Proc, WorkEnds(p) \/ WorkFails(p) \/ Timeout(p) PROVE Locks'
  <2>1. Gone(p) /\ runLock' \in {runLock, Nobody} /\ (runLock' # runLock => runLock = p)
    BY <1>4 DEF WorkEnds, WorkFails, Timeout, Unlock
  <2>2. PICK n : Resume(p, n)
    BY <1>4 DEF WorkEnds, WorkFails, Timeout
  <2>3. \A q \in Proc \ {p} : pc'[q] = pc[q]
    BY <2>2 DEF Resume, Goto, RunsOK
  <2>4. child[p] = "fetch" => pc'[p] \in {"idle", "finalize"}
    BY <2>2 DEF Resume, Goto, RunsOK, Parent
  <2>5. orphan[p] = 0
    BY <1>4 DEF WorkEnds, WorkFails, Timeout, Locks
  <2>6. QED
    BY <2>1, <2>3, <2>4, <2>5, GoneLocks
<1>5. ASSUME NEW p \in Proc, OrphanEnds(p) PROVE Locks'
  <2>1. child[p] = "none" /\ UNCHANGED <<child, pc>>
    BY <1>5 DEF OrphanEnds, Locks
  <2>2. orphan'[p] = 0 /\ \A q \in Proc \ {p} : orphan'[q] = orphan[q]
    BY <1>5 DEF OrphanEnds, WorkOK
  <2>3. runLock' = runLock \/ runLock = p
    BY <1>5 DEF OrphanEnds, Unlock
  <2>4. QED
    BY <2>1, <2>2, <2>3 DEF Locks
<1>6. ASSUME NEW p \in Proc, Killed(p) PROVE Locks'
  <2>1. pc'[p] = "idle" /\ \A q \in Proc \ {p} : pc'[q] = pc[q]
    BY <1>6 DEF Killed, Goto, RunsOK
  <2>2. CASE Gone(p) /\ UNCHANGED runLock
    BY <2>1, <2>2, GoneLocks
  <2>3. CASE UNCHANGED <<child, orphan, runLock>>
    BY <2>1, <2>3 DEF Locks
  <2>4. QED
    BY <1>6, <2>2, <2>3 DEF Killed, ReleaseAtKill
<1>7. CASE (\E j \in Job : Ages(j)) \/ UNCHANGED vars
  BY <1>7 DEF Ages, Locks, vars
<1>8. QED
  BY <1>1, <1>2, <1>3, <1>4, <1>5, <1>6, <1>7 DEF Next, Step, Work

LEMMA LocksCorrect == Spec => [](Base /\ Locks)
<1>1. Init => Locks
  BY DEF Init, Locks
<1>2. QED
  BY <1>1, LocksNext, BaseCorrect, PTL DEF Spec

\* One run of the watchdog works on the table at a time: the child holds the lock
\* of its run as well, so that neither the death of the watchdog nor the end of
\* an attempt that outlived an earlier run lets a second one begin.
THEOREM OneRunAtATime == Spec => []OneRun
<1>1. Base /\ Locks => OneRun
  BY DEF Locks, OneRun
<1>2. QED
  BY <1>1, LocksCorrect, PTL

--------------------------------------------------------------------------------
(* The table is a work queue, and what was derived matches the raw bars, when   *)
(* the watchdog is the only one who works on the table.                         *)

WatchdogOnly == Script = {}

Over == {"success", "skipped"}

\* Stale rows say running.
Stales == \A j \in stale : status[j] = "running"

\* What is claimed and not yet marked is not over, and what is derived is a
\* success.
Claims ==
    \A p \in Proc :
        /\ \A j \in queue[p] : status[j] \notin Over
        /\ child[p] = "none" => queue[p] = {}
        /\ child[p] \in {"fetch", "mark", "skip"} =>
               status[cur[p]] \notin Over /\ cur[p] \notin queue[p]
        /\ child[p] = "derive" => status[cur[p]] = "success"

Derivations == \A j \in Job : qfq[j] => status[j] = "success"

Queued == Stales /\ Claims /\ Derivations

Hand == [p \in Proc |-> InHand(p)]

LEMMA Alone ==
    ASSUME WatchdogOnly, Base, Locks, NEW p \in Proc, child[p] # "none",
           NEW q \in Proc, q # p
    PROVE  child[q] = "none"
BY DEF WatchdogOnly, Locks, Base, Types, WorkOK

\* The rows S go back to pending.
LEMMA ResetQueued ==
    ASSUME Base, Queued, NEW S, \A j \in S \cap Job : status[j] = "running", Reset(S),
           UNCHANGED qfq
    PROVE  /\ Stales' /\ Derivations' /\ Handled' = Handled
           /\ \A j \in Job : status[j] \notin Over => status'[j] \notin Over
           /\ \A j \in Job : status[j] = "success" => status'[j] = "success"
<1> USE DEF Base, Types, RowsOK
<1>1. /\ \A j \in Job : status[j] \notin Over => status'[j] \notin Over
      /\ \A j \in Job : status[j] \in Over => status'[j] = status[j]
  BY DEF Reset, Over
<1>2. Handled' = Handled
  BY <1>1 DEF Handled, Over
<1>3. Stales'
  BY DEF Reset, Stales, Queued
<1>4. Derivations'
  BY <1>1 DEF Queued, Derivations, Over
<1>5. QED
  BY <1>1, <1>2, <1>3, <1>4 DEF Over

\* Nobody gets on with anything but what he had, and some may lose it.
LEMMA QuietQueued ==
    ASSUME Base, Queued, NEW P,
           Stales', Derivations', Handled' = Handled,
           \A j \in Job : status[j] \notin Over => status'[j] \notin Over,
           \A j \in Job : status[j] = "success" => status'[j] = "success",
           \A p \in Proc \cap P : child'[p] = "none" /\ queue'[p] = {},
           \A p \in Proc \ P : UNCHANGED <<child[p], queue[p], cur[p]>>
    PROVE  Queued' /\ [Queue!Next]_<<Hand, Handled>>
<1> USE DEF Base, Types, WorkOK
<1>1. Claims'
  <2> SUFFICES ASSUME NEW p \in Proc
               PROVE  /\ \A j \in queue'[p] : status'[j] \notin Over
                      /\ child'[p] = "none" => queue'[p] = {}
                      /\ child'[p] \in {"fetch", "mark", "skip"} =>
                             status'[cur'[p]] \notin Over /\ cur'[p] \notin queue'[p]
                      /\ child'[p] = "derive" => status'[cur'[p]] = "success"
    BY DEF Claims, Over
  <2>1. CASE p \in P
    BY <2>1
  <2>2. CASE p \notin P
    <3>1. UNCHANGED <<child[p], queue[p], cur[p]>> /\ queue[p] \subseteq Job
      BY <2>2
    <3>2. child[p] \in {"fetch", "mark", "skip", "derive"} => cur[p] \in Job
      BY DEF HasJob
    <3>3. QED
      BY <3>1, <3>2 DEF Queued, Claims
  <2>3. QED
    BY <2>1, <2>2
<1>2. Hand' = [p \in Proc |-> IF p \in Proc \cap P THEN 0 ELSE Hand[p]]
  <2>1. ASSUME NEW p \in Proc
        PROVE  InHand(p)' = IF p \in Proc \cap P THEN 0 ELSE InHand(p)
    BY DEF InHand
  <2>2. QED
    BY <2>1 DEF Hand
<1>3. Queue!Lose(Proc \cap P)
  BY <1>2 DEF Queue!Lose, Queue!Nothing, Hand
<1>4. QED
  BY <1>1, <1>3 DEF Queued, Queue!Next

\* p takes a claimed job.
LEMMA AttemptQueued ==
    ASSUME WatchdogOnly, Base, Locks, Queued, NEW p \in Proc, Attempt(p)
    PROVE  Queued' /\ [Queue!Next]_<<Hand, Handled>>
<1> USE DEF Base, Types, WorkOK
<1>0. child[p] = "next" /\ UNCHANGED <<status, stale, qfq>>
  BY DEF Attempt, rows
<1>1. PICK j \in queue[p] : /\ cur' = [cur EXCEPT ![p] = j]
                            /\ queue' = [queue EXCEPT ![p] = @ \ {j}]
  BY DEF Attempt
<1>2. j \in Job /\ status[j] \notin Over
  BY DEF Queued, Claims
<1>3. child' = [child EXCEPT ![p] = "fetch"]
  BY DEF Attempt, GotoPart
<1>4. \A q \in Proc : q # p => child[q] = "none"
  BY <1>0, Alone
<1>5. Claims'
  BY <1>0, <1>1, <1>2, <1>3, <1>4 DEF Queued, Claims
<1>6. Queued'
  BY <1>0, <1>5 DEF Queued, Stales, Derivations
<1>7. Handled' = Handled /\ j \notin Handled
  BY <1>0, <1>2 DEF Handled, Over
<1>8. Hand' = [Hand EXCEPT ![p] = j]
  BY <1>1, <1>3, <1>4 DEF Hand, InHand
<1>9. /\ Hand[p] = 0
      /\ \A q \in Proc : Hand[q] # j
  BY <1>0, <1>2, <1>4 DEF Hand, InHand
<1>10. Queue!Take(p, j)
  BY <1>7, <1>8, <1>9 DEF Queue!Take, Queue!Nothing, Hand
<1>11. QED
  BY <1>2, <1>6, <1>10 DEF Queue!Next

\* The row of the job in hand is marked.
LEMMA MarkQueued ==
    ASSUME WatchdogOnly, Base, Locks, Queued, NEW p \in Proc,
           NEW outcome \in Over, NEW part,
           Mark(p, outcome), GotoPart(p, part), UNCHANGED <<queue, cur, qfq>>,
           \/ child[p] = "mark" /\ outcome = "success" /\ part = "derive"
           \/ child[p] = "skip" /\ part = "next"
    PROVE  Queued' /\ [Queue!Next]_<<Hand, Handled>>
<1> USE DEF Base, Types, WorkOK
<1>1. cur[p] \in Job /\ status[cur[p]] \notin Over /\ cur[p] \notin queue[p]
  BY DEF HasJob, Queued, Claims
<1>2. /\ status' = [status EXCEPT ![cur[p]] = outcome]
      /\ stale' = stale \ {cur[p]}
      /\ status \in [Job -> {"pending", "running", "success", "skipped"}]
  BY DEF Mark, RowsOK
<1>3. child' = [child EXCEPT ![p] = part]
  BY DEF GotoPart
<1>4. \A q \in Proc : q # p => child[q] = "none"
  BY Alone
<1>5. Claims'
  <2>1. \A q \in Proc : q # p => child'[q] = "none" /\ queue'[q] = {}
    BY <1>3, <1>4 DEF Queued, Claims
  <2>2. \A j \in queue'[p] : status'[j] \notin Over
    BY <1>1, <1>2 DEF Queued, Claims
  <2>3. /\ child'[p] = "derive" => status'[cur'[p]] = "success"
        /\ child'[p] \in {"derive", "next"}
    BY <1>1, <1>2, <1>3
  <2>4. QED
    BY <2>1, <2>2, <2>3 DEF Claims
<1>6. Stales'
  BY <1>1, <1>2 DEF Queued, Stales, RowsOK
<1>7. Derivations'
  <2>1. \A j \in Job : j # cur[p] => status'[j] = status[j]
    BY <1>2
  <2>2. ~qfq[cur[p]]
    BY <1>1 DEF Queued, Derivations, Over
  <2>3. QED
    BY <2>1, <2>2 DEF Queued, Derivations
<1>8. Handled' = Handled \cup {cur[p]}
  BY <1>1, <1>2 DEF Handled, Over
<1>9. Hand' = [Hand EXCEPT ![p] = 0] /\ Hand[p] = cur[p]
  BY <1>3, <1>4 DEF Hand, InHand
<1>10. Queue!Finish(p)
  BY <1>1, <1>8, <1>9 DEF Queue!Finish, Queue!Nothing, Hand
<1>11. QED
  BY <1>5, <1>6, <1>7, <1>10 DEF Queued, Queue!Next

LEMMA DeriveQueued ==
    ASSUME WatchdogOnly, Base, Locks, Queued, NEW p \in Proc, Derive(p)
    PROVE  Queued' /\ [Queue!Next]_<<Hand, Handled>>
<1> USE DEF Base, Types, WorkOK
<1>1. /\ child[p] = "derive" /\ cur[p] \in Job /\ status[cur[p]] = "success"
      /\ UNCHANGED <<status, stale, queue, cur>>
  BY DEF Derive, HasJob, Queued, Claims, work
<1>2. child' = [child EXCEPT ![p] = "next"]
  BY DEF Derive, GotoPart
<1>3. \A j \in Job : j # cur[p] => qfq'[j] = qfq[j]
  BY DEF Derive, Derived, RowsOK
<1>4. Derivations'
  BY <1>1, <1>3 DEF Queued, Derivations
<1>5. Claims'
  BY <1>1, <1>2 DEF Queued, Claims
<1>6. Stales'
  BY <1>1 DEF Queued, Stales
<1>7. UNCHANGED <<Hand, Handled>>
  BY <1>1, <1>2 DEF Hand, InHand, Handled
<1>8. QED
  BY <1>4, <1>5, <1>6, <1>7 DEF Queued

LEMMA ClaimQueued ==
    ASSUME WatchdogOnly, Base, Locks, Queued, NEW p \in Proc, Claim(p)
    PROVE  Queued' /\ [Queue!Next]_<<Hand, Handled>>
<1> USE DEF Base, Types, WorkOK
<1> DEFINE S == FirstOf(Claimable, alloc[p])
<1>1. S \subseteq {j \in Job : status[j] = "pending"}
  BY ClaimedJobs
<1> HIDE DEF S
<1>2. /\ status' = [j \in Job |-> IF j \in S THEN "running" ELSE status[j]]
      /\ queue' = [queue EXCEPT ![p] = S]
      /\ child' = [child EXCEPT ![p] = "next"]
      /\ child[p] = "claim"
      /\ UNCHANGED <<stale, qfq, cur>>
  BY DEF Claim, GotoPart, S
<1>3. \A q \in Proc : q # p => child[q] = "none" /\ queue[q] = {}
  BY <1>2, Alone DEF Queued, Claims
<1>4. Claims'
  <2>1. \A q \in Proc : q # p => child'[q] = "none" /\ queue'[q] = {}
    BY <1>2, <1>3
  <2>2. \A j \in queue'[p] : status'[j] \notin Over
    BY <1>1, <1>2 DEF Over
  <2>3. child'[p] = "next"
    BY <1>2
  <2>4. QED
    BY <2>1, <2>2, <2>3 DEF Claims
<1>5. Stales'
  BY <1>1, <1>2 DEF Queued, Stales, RowsOK
<1>6. Derivations'
  BY <1>1, <1>2 DEF Queued, Derivations
<1>7. Handled' = Handled
  BY <1>1, <1>2 DEF Handled
<1>8. Hand' = Hand
  BY <1>2 DEF Hand, InHand
<1>9. QED
  BY <1>4, <1>5, <1>6, <1>7, <1>8 DEF Queued

\* The run begins to work, or the last attempt at a job is over.
LEMMA MoveQueued ==
    ASSUME Base, Queued, NEW p \in Proc, NEW part, GotoPart(p, part),
           UNCHANGED <<status, stale, qfq, queue, cur>>,
           \/ child[p] = "none" /\ part = "claim"
           \/ child[p] = "fetch" /\ part \in {"mark", "skip"}
    PROVE  Queued' /\ [Queue!Next]_<<Hand, Handled>>
<1> USE DEF Base, Types, WorkOK
<1>1. child' = [child EXCEPT ![p] = part]
  BY DEF GotoPart
<1>2. Claims'
  BY <1>1 DEF Queued, Claims
<1>3. Stales' /\ Derivations'
  BY DEF Queued, Stales, Derivations
<1>4. UNCHANGED <<Hand, Handled>>
  BY <1>1 DEF Hand, InHand, Handled
<1>5. QED
  BY <1>2, <1>3, <1>4 DEF Queued

LEMMA SameRows ==
    ASSUME Base, Queued, UNCHANGED <<status, qfq>>, Stales'
    PROVE  /\ Derivations' /\ Handled' = Handled
           /\ \A j \in Job : status[j] \notin Over => status'[j] \notin Over
           /\ \A j \in Job : status[j] = "success" => status'[j] = "success"
BY DEF Queued, Derivations, Handled

\* A step that leaves the rows that are over, and in which nobody moves, or p
\* alone goes.
LEMMA IdleQueued ==
    ASSUME Base, Queued, Stales', Derivations', Handled' = Handled,
           \A j \in Job : status[j] \notin Over => status'[j] \notin Over,
           \A j \in Job : status[j] = "success" => status'[j] = "success",
           UNCHANGED <<child, queue, cur>>
    PROVE  Queued' /\ [Queue!Next]_<<Hand, Handled>>
<1> DEFINE P == {}
<1>1. /\ \A p \in Proc \cap P : child'[p] = "none" /\ queue'[p] = {}
      /\ \A p \in Proc \ P : UNCHANGED <<child[p], queue[p], cur[p]>>
  OBVIOUS
<1> HIDE DEF P
<1>2. QED
  BY <1>1, QuietQueued

LEMMA GoneQueued ==
    ASSUME Base, Queued, Stales', Derivations', Handled' = Handled,
           \A j \in Job : status[j] \notin Over => status'[j] \notin Over,
           \A j \in Job : status[j] = "success" => status'[j] = "success",
           NEW p \in Proc, child'[p] = "none", queue'[p] = {},
           \A q \in Proc \ {p} : UNCHANGED <<child[q], queue[q], cur[q]>>
    PROVE  Queued' /\ [Queue!Next]_<<Hand, Handled>>
<1> DEFINE P == {p}
<1>1. /\ \A q \in Proc \cap P : child'[q] = "none" /\ queue'[q] = {}
      /\ \A q \in Proc \ P : UNCHANGED <<child[q], queue[q], cur[q]>>
  OBVIOUS
<1> HIDE DEF P
<1>2. QED
  BY <1>1, QuietQueued

LEMMA QueuedNext ==
    ASSUME WatchdogOnly
    PROVE  Base /\ Locks /\ Queued /\ [Next]_vars
             => Queued' /\ [Queue!Next]_<<Hand, Handled>>
<1> SUFFICES ASSUME Base, Locks, Queued, [Next]_vars
             PROVE  Queued' /\ [Queue!Next]_<<Hand, Handled>>
  OBVIOUS
<1> USE DEF Base, Types
<1>1. ASSUME NEW p \in Proc, Update(p) \/ Launch(p) \/ OrphanEnds(p)
      PROVE  Queued' /\ [Queue!Next]_<<Hand, Handled>>
  <2>1. UNCHANGED <<status, stale, qfq, child, queue, cur>>
    BY <1>1 DEF Update, Allocate, Finalize, Unreadable, Truncate, Close, Launch,
       OrphanEnds, rows, work
  <2>2. Stales'
    BY <2>1 DEF Queued, Stales
  <2>3. QED
    BY <2>1, <2>2, SameRows, IdleQueued
<1>2. ASSUME NEW p \in Proc, Scan(p) PROVE Queued' /\ [Queue!Next]_<<Hand, Handled>>
  <2>1. Reset(stale) /\ UNCHANGED <<qfq, child, queue, cur>>
    BY <1>2 DEF Scan
  <2>2. \A j \in stale \cap Job : status[j] = "running"
    BY DEF Queued, Stales
  <2>3. QED
    BY <2>1, <2>2, ResetQueued, IdleQueued
<1>3. ASSUME NEW p \in Proc, Start(p) PROVE Queued' /\ [Queue!Next]_<<Hand, Handled>>
  <2>1. child[p] = "none" /\ UNCHANGED <<status, stale, qfq>>
    BY <1>3 DEF Start, Parent, rows
  <2>2. CASE GotoPart(p, "claim") /\ UNCHANGED work
    BY <2>1, <2>2, MoveQueued DEF work
  <2>3. CASE Dropped(p) /\ UNCHANGED child
    <3>1. /\ child'[p] = "none" /\ queue'[p] = {}
          /\ \A q \in Proc \ {p} : UNCHANGED <<child[q], queue[q], cur[q]>>
      BY <2>1, <2>3 DEF Dropped, WorkOK
    <3>2. Stales'
      BY <2>1 DEF Queued, Stales
    <3>3. QED
      BY <2>1, <3>1, <3>2, SameRows, GoneQueued
  <2>4. QED
    BY <1>3, <2>2, <2>3 DEF Start
<1>4. ASSUME NEW p \in Proc, StartFails(p)
      PROVE  Queued' /\ [Queue!Next]_<<Hand, Handled>>
  <2>1. /\ child'[p] = "none" /\ queue'[p] = {}
        /\ \A q \in Proc \ {p} : UNCHANGED <<child[q], queue[q], cur[q]>>
    BY <1>4 DEF StartFails, Dropped, WorkOK, Parent
  <2>2. UNCHANGED <<status, qfq>> /\ Stales'
    BY <1>4 DEF StartFails, rows, Queued, Stales
  <2>3. QED
    BY <2>1, <2>2, SameRows, GoneQueued
<1>5. ASSUME NEW p \in Proc, AttemptSucceeds(p)
      PROVE  Queued' /\ [Queue!Next]_<<Hand, Handled>>
  BY <1>5, MoveQueued DEF AttemptSucceeds, work
<1>6. ASSUME NEW p \in Proc, AttemptFails(p)
      PROVE  Queued' /\ [Queue!Next]_<<Hand, Handled>>
  <2>1. UNCHANGED <<status, stale, qfq, queue, cur>> /\ child[p] = "fetch"
    BY <1>6 DEF AttemptFails
  <2>2. CASE UNCHANGED child
    <3>1. Stales'
      BY <2>1 DEF Queued, Stales
    <3>2. QED
      BY <2>1, <2>2, <3>1, SameRows, IdleQueued
  <2>3. CASE GotoPart(p, "skip")
    BY <2>1, <2>3, MoveQueued
  <2>4. QED
    BY <1>6, <2>2, <2>3 DEF AttemptFails
<1>7. ASSUME NEW p \in Proc, MarkSuccess(p) \/ MarkSkipped(p)
      PROVE  Queued' /\ [Queue!Next]_<<Hand, Handled>>
  <2>1. CASE MarkSuccess(p)
    BY <2>1, MarkQueued DEF MarkSuccess, work, Over
  <2>2. CASE MarkSkipped(p)
    BY <2>2, MarkQueued DEF MarkSkipped, work, Over
  <2>3. QED
    BY <1>7, <2>1, <2>2
<1>8. ASSUME NEW p \in Proc, WorkEnds(p) \/ WorkFails(p) \/ Killed(p)
      PROVE  Queued' /\ [Queue!Next]_<<Hand, Handled>>
  <2>1. UNCHANGED <<status, stale, qfq>> /\ Stales'
    BY <1>8 DEF WorkEnds, WorkFails, Killed, rows, Queued, Stales
  <2>2. CASE Gone(p)
    <3>1. /\ child'[p] = "none" /\ queue'[p] = {}
          /\ \A q \in Proc \ {p} : UNCHANGED <<child[q], queue[q], cur[q]>>
      BY <2>2 DEF Gone, GotoPart, Dropped, WorkOK
    <3>2. QED
      BY <2>1, <3>1, SameRows, GoneQueued
  <2>3. CASE UNCHANGED <<child, work>>
    BY <2>1, <2>3, SameRows, IdleQueued DEF work
  <2>4. QED
    BY <1>8, <2>2, <2>3 DEF WorkEnds, WorkFails, Killed
<1>9. ASSUME NEW p \in Proc, Timeout(p)
      PROVE  Queued' /\ [Queue!Next]_<<Hand, Handled>>
  <2>1. Reset(TakenBack(p)) /\ UNCHANGED qfq
    BY <1>9 DEF Timeout
  <2>2. \A j \in TakenBack(p) \cap Job : status[j] = "running"
    BY DEF TakenBack
  <2>3. /\ child'[p] = "none" /\ queue'[p] = {}
        /\ \A q \in Proc \ {p} : UNCHANGED <<child[q], queue[q], cur[q]>>
    BY <1>9 DEF Timeout, Gone, GotoPart, Dropped, WorkOK
  <2>4. QED
    BY <2>1, <2>2, <2>3, ResetQueued, GoneQueued
<1>10. ASSUME NEW j \in Job, Ages(j)
       PROVE  Queued' /\ [Queue!Next]_<<Hand, Handled>>
  <2>1. UNCHANGED <<status, qfq, child, queue, cur>> /\ Stales'
    BY <1>10 DEF Ages, work, Queued, Stales
  <2>2. QED
    BY <2>1, SameRows, IdleQueued
<1>11. CASE UNCHANGED vars
  <2>1. UNCHANGED <<status, stale, qfq, child, queue, cur>> /\ Stales'
    BY <1>11 DEF vars, rows, work, Queued, Stales
  <2>2. QED
    BY <2>1, SameRows, IdleQueued
<1>12. QED
  BY <1>1, <1>2, <1>3, <1>4, <1>5, <1>6, <1>7, <1>8, <1>9, <1>10, <1>11,
     AttemptQueued, DeriveQueued, ClaimQueued DEF Next, Step, Work

LEMMA QueuedCorrect ==
    ASSUME WatchdogOnly PROVE Spec => [](Base /\ Locks /\ Queued)
<1>1. Init => Queued
  BY DEF Init, Queued, Stales, Claims, Derivations
<1>2. Base /\ Locks /\ Queued /\ [Next]_vars => Queued'
  BY QueuedNext
<1>3. QED
  BY <1>1, <1>2, LocksCorrect, PTL DEF Spec

\* Run by the watchdog alone, the table of backfill jobs is the work queue.
THEOREM TableIsQueue == ASSUME WatchdogOnly PROVE Spec => WorkedOnce
<1>1. Init => Queue!Init
  BY DEF Init, InHand, Handled, Queue!Init, Queue!Nothing
<1>2. Base /\ Locks /\ Queued /\ [Next]_vars
        => [Queue!Next]_<<[p \in Proc |-> InHand(p)], Handled>>
  BY QueuedNext DEF Hand
<1>3. QED
  BY <1>1, <1>2, QueuedCorrect, PTL DEF Spec, WorkedOnce, Queue!Spec

--------------------------------------------------------------------------------
(* The derived bars. *)

LEMMA DerivedNext ==
    ASSUME WatchdogOnly
    PROVE  Base /\ Locks /\ Queued /\ DerivedMatchesRaw /\ [Next]_vars
             => DerivedMatchesRaw'
<1> SUFFICES ASSUME Base, Locks, Queued, DerivedMatchesRaw, [Next]_vars
             PROVE  DerivedMatchesRaw'
  OBVIOUS
<1> USE DEF Base, Types, RowsOK
<1>1. CASE UNCHANGED <<qfq, bars, late>>
  BY <1>1 DEF DerivedMatchesRaw
<1>2. ASSUME NEW p \in Proc, AttemptSucceeds(p) \/ AttemptFails(p)
      PROVE  DerivedMatchesRaw'
  <2>1. cur[p] \in Job /\ ~qfq[cur[p]]
    BY <1>2 DEF AttemptSucceeds, AttemptFails, HasJob, Queued, Claims, Derivations, Over
  <2>2. UNCHANGED <<qfq, late>> /\ (Store(cur[p]) \/ UNCHANGED bars)
    BY <1>2 DEF AttemptSucceeds, AttemptFails, history
  <2>3. QED
    BY <2>1, <2>2 DEF DerivedMatchesRaw, Store
<1>3. ASSUME NEW p \in Proc, Derive(p) PROVE DerivedMatchesRaw'
  BY <1>3 DEF Derive, Derived, DerivedMatchesRaw, history
<1>4. ASSUME NEW p \in Proc, OrphanEnds(p) PROVE DerivedMatchesRaw'
  BY <1>4 DEF OrphanEnds, Store, DerivedMatchesRaw
<1>5. ASSUME \/ \E p \in Proc :
                   \/ Update(p) \/ Launch(p) \/ Scan(p) \/ Start(p) \/ StartFails(p)
                   \/ Killed(p) \/ Claim(p) \/ Attempt(p) \/ MarkSuccess(p)
                   \/ MarkSkipped(p) \/ WorkEnds(p) \/ WorkFails(p) \/ Timeout(p)
             \/ \E j \in Job : Ages(j)
             \/ UNCHANGED vars
      PROVE  UNCHANGED <<qfq, bars, late>>
  BY <1>5 DEF Update, Allocate, Finalize, Unreadable, Truncate, Close, Launch, Scan,
     Start, StartFails, Killed, Claim, Attempt, MarkSuccess, MarkSkipped, WorkEnds,
     WorkFails, Timeout, Ages, vars, rows, history
<1>6. QED
  BY <1>1, <1>2, <1>3, <1>4, <1>5 DEF Next, Step, Work

\* Run by the watchdog alone, a derived row that says success has the bars that
\* belong to the raw bars, but for attempts that outlive their run.
THEOREM DerivedMatches == ASSUME WatchdogOnly PROVE Spec => []DerivedMatchesRaw
<1>1. Init => DerivedMatchesRaw
  BY DEF Init, DerivedMatchesRaw
<1>2. QED
  BY <1>1, DerivedNext, QueuedCorrect, PTL DEF Spec

--------------------------------------------------------------------------------
(* Sums over the runs, as numbers of cells: run p has the cells above low[p] *)
(* up to high[p].                                                            *)

Cells(low, high) == UNION {{p} \X (low[p] + 1 .. high[p]) : p \in Proc}

LEMMA Column ==
    ASSUME NEW p, NEW a \in Nat, NEW b \in Nat, a <= b
    PROVE  /\ IsFiniteSet({p} \X (a + 1 .. b))
           /\ Cardinality({p} \X (a + 1 .. b)) = b - a
<1>1. IsFiniteSet(a + 1 .. b) /\ Cardinality(a + 1 .. b) = b - a
  <2>1. /\ IsFiniteSet(a + 1 .. b)
        /\ Cardinality(a + 1 .. b) = IF a + 1 > b THEN 0 ELSE b - (a + 1) + 1
    BY FS_Interval
  <2>2. QED
    BY <2>1
<1>2. IsFiniteSet({p}) /\ Cardinality({p}) = 1
  BY FS_Singleton
<1>3. /\ IsFiniteSet({p} \X (a + 1 .. b))
      /\ Cardinality({p} \X (a + 1 .. b)) = Cardinality({p}) * Cardinality(a + 1 .. b)
  BY <1>1, <1>2, FS_Product
<1>4. QED
  BY <1>1, <1>2, <1>3

\* The sum moves with the one run that changes.
LEMMA CellsChange ==
    ASSUME NEW low \in [Proc -> Nat], NEW high \in [Proc -> Nat],
           NEW low2 \in [Proc -> Nat], NEW high2 \in [Proc -> Nat], NEW p \in Proc,
           \A q \in Proc \ {p} : low2[q] = low[q] /\ high2[q] = high[q],
           low[p] <= high[p], low2[p] <= high2[p],
           IsFiniteSet(Cells(low, high))
    PROVE  /\ IsFiniteSet(Cells(low2, high2))
           /\ Cardinality(Cells(low2, high2)) + (high[p] - low[p])
                = Cardinality(Cells(low, high)) + (high2[p] - low2[p])
           /\ Cardinality(Cells(low, high)) >= high[p] - low[p]
<1> DEFINE rest == UNION {{q} \X (low[q] + 1 .. high[q]) : q \in Proc \ {p}}
           old == {p} \X (low[p] + 1 .. high[p])
           new == {p} \X (low2[p] + 1 .. high2[p])
<1>1. Cells(low, high) = rest \cup old /\ rest \cap old = {}
  BY DEF Cells
<1>2. Cells(low2, high2) = rest \cup new /\ rest \cap new = {}
  BY DEF Cells
<1>3. /\ IsFiniteSet(old) /\ Cardinality(old) = high[p] - low[p]
      /\ IsFiniteSet(new) /\ Cardinality(new) = high2[p] - low2[p]
  <2>1. low[p] \in Nat /\ high[p] \in Nat /\ low2[p] \in Nat /\ high2[p] \in Nat
    OBVIOUS
  <2>2. IsFiniteSet(old) /\ Cardinality(old) = high[p] - low[p]
    BY <2>1, Column
  <2>3. IsFiniteSet(new) /\ Cardinality(new) = high2[p] - low2[p]
    BY <2>1, Column
  <2>4. QED
    BY <2>2, <2>3
<1>4. IsFiniteSet(rest)
  BY <1>1, FS_Subset
<1> HIDE DEF rest, old, new
<1>5. Cardinality(rest) \in Nat /\ Cardinality({}) = 0
  BY <1>4, FS_CardinalityType, FS_EmptySet
<1>6. Cardinality(rest \cup old) = Cardinality(rest) + Cardinality(old)
  <2>1. Cardinality(rest \cup old)
          = Cardinality(rest) + Cardinality(old) - Cardinality(rest \cap old)
    BY <1>3, <1>4, FS_Union
  <2>2. Cardinality(old) \in Nat
    BY <1>3, FS_CardinalityType
  <2>3. Cardinality(rest \cap old) = 0
    BY <1>1, <1>5
  <2>4. QED
    BY <1>5, <2>1, <2>2, <2>3
<1>7. /\ IsFiniteSet(rest \cup new)
      /\ Cardinality(rest \cup new) = Cardinality(rest) + Cardinality(new)
  <2>1. /\ IsFiniteSet(rest \cup new)
        /\ Cardinality(rest \cup new)
             = Cardinality(rest) + Cardinality(new) - Cardinality(rest \cap new)
    BY <1>3, <1>4, FS_Union
  <2>2. Cardinality(new) \in Nat
    BY <1>3, FS_CardinalityType
  <2>3. Cardinality(rest \cap new) = 0
    BY <1>2, <1>5
  <2>4. QED
    BY <1>5, <2>1, <2>2, <2>3
<1>8. QED
  <2>1. low[p] \in Nat /\ high[p] \in Nat /\ low2[p] \in Nat /\ high2[p] \in Nat
    OBVIOUS
  <2>2. QED
    BY <1>1, <1>2, <1>3, <1>5, <1>6, <1>7, <2>1

LEMMA NoCells ==
    ASSUME NEW low \in [Proc -> Nat], \A p \in Proc : low[p] = 0
    PROVE  IsFiniteSet(Cells(low, low)) /\ Cardinality(Cells(low, low)) = 0
<1>1. Cells(low, low) = {}
  BY DEF Cells
<1>2. QED
  BY <1>1, FS_EmptySet

\* A claim takes no more rows than the run has requests.
LEMMA FirstBound ==
    ASSUME NEW S \in SUBSET Job, NEW k \in Nat
    PROVE  /\ IsFiniteSet(FirstOf(S, k))
           /\ Cardinality(FirstOf(S, k)) <= k
<1> DEFINE below(j) == {i \in S : i < j}
           f == [j \in FirstOf(S, k) |-> Cardinality(below(j))]
<1>1. IsFiniteSet(S)
  <2>1. IsFiniteSet(1 .. N)
    BY FS_Interval
  <2>2. QED
    BY <2>1, FS_Subset
<1>2. \A j \in S : IsFiniteSet(below(j)) /\ Cardinality(below(j)) \in Nat
  <2>1. \A j \in S : below(j) \in SUBSET S
    OBVIOUS
  <2>2. QED
    BY <1>1, <2>1, FS_Subset, FS_CardinalityType
<1>3. \A j \in FirstOf(S, k) : j \in S /\ Cardinality(below(j)) < k
  BY DEF FirstOf
<1>4. ASSUME NEW i \in S, NEW j \in S, i < j
      PROVE  Cardinality(below(i)) # Cardinality(below(j))
  <2>1. \A m \in S : m \in Int
    OBVIOUS
  <2>2. \A m \in S : m < i => m < j
    BY <1>4, <2>1
  <2>3. below(i) \in SUBSET below(j)
    BY <2>2
  <2>4. i \in below(j)
    BY <1>4
  <2>5. i \notin below(i)
    BY <2>1
  <2>6. QED
    BY <1>2, <2>3, <2>4, <2>5, FS_Subset
<1>5. f \in [FirstOf(S, k) -> 0 .. k - 1]
  <2>1. \A j \in FirstOf(S, k) : Cardinality(below(j)) \in 0 .. k - 1
    <3>1. ASSUME NEW n \in Nat, n < k PROVE n \in 0 .. k - 1
      BY <3>1
    <3>2. QED
      BY <1>2, <1>3, <3>1
  <2>2. QED
    BY <2>1
<1>6. ASSUME NEW i \in FirstOf(S, k), NEW j \in FirstOf(S, k), f[i] = f[j]
      PROVE  i = j
  <2>1. i \in S /\ j \in S
    BY <1>3
  <2>0. i \in Int /\ j \in Int
    BY <2>1
  <2>2. Cardinality(below(i)) = Cardinality(below(j))
    BY <1>6
  <2>3. ~(i < j) /\ ~(j < i)
    BY <1>4, <2>1, <2>2
  <2>4. QED
    BY <2>0, <2>3
<1> HIDE DEF f, below
<1>7. f \in Injection(FirstOf(S, k), 0 .. k - 1)
  BY <1>5, <1>6 DEF Injection, IsInjective
<1>8. IsFiniteSet(0 .. k - 1) /\ Cardinality(0 .. k - 1) = k
  <2>1. /\ IsFiniteSet(0 .. k - 1)
        /\ Cardinality(0 .. k - 1) = IF 0 > k - 1 THEN 0 ELSE (k - 1) - 0 + 1
    BY FS_Interval
  <2>2. QED
    BY <2>1
<1>9. QED
  BY <1>7, <1>8, FS_Injection

--------------------------------------------------------------------------------
(* What a run may still request. *)

\* The run of p has not requested anything yet.
Fresh(p) ==
    \/ child[p] = "claim"
    \/ pc[p] \in {"allocate", "grant", "granted", "scan", "start", "settle", "settled"}
    \/ pc[p] = "idle" /\ child[p] = "none"

\* The run of p has nothing allocated, or no longer.
Bare(p) ==
    \/ pc[p] \in {"allocate", "settle", "settled"}
    \/ pc[p] = "idle" /\ child[p] = "none"

FitsAt(p) ==
    /\ used[p] + Cardinality(queue[p]) <= alloc[p]
    /\ child[p] \in {"none", "claim"} => queue[p] = {}
    /\ Fresh(p) => used[p] = 0
    /\ Bare(p) => alloc[p] = 0

\* What it has requested and the rows it has still to come to are no more than
\* what it was allocated.
Fits == \A p \in Proc : FitsAt(p)

LEMMA QueueFinite ==
    ASSUME Base
    PROVE  \A p \in Proc : IsFiniteSet(queue[p]) /\ Cardinality(queue[p]) \in Nat
<1>1. IsFiniteSet(1 .. N)
  BY FS_Interval
<1>2. \A p \in Proc : queue[p] \in SUBSET (1 .. N)
  BY DEF Base, Types, WorkOK
<1>3. QED
  BY <1>1, <1>2, FS_Subset, FS_CardinalityType

\* A run changes only its own part.
Apart(p) ==
    \A q \in Proc \ {p} : UNCHANGED <<alloc[q], used[q], queue[q], child[q], pc[q], buffer[q]>>

LEMMA StepApart ==
    ASSUME Base, NEW p \in Proc, Step(p)
    PROVE  Apart(p)
<1> USE DEF Base, Types, LedgerOK, RunsOK, WorkOK, Apart, Goto, GotoPart
<1>1. CASE Update(p)
  BY <1>1 DEF Update, Allocate, Finalize, Unreadable, Truncate, Close, Ended, Lock,
     ledger, work, result
<1>2. CASE Launch(p) \/ Scan(p) \/ Start(p) \/ StartFails(p)
  BY <1>2 DEF Launch, Scan, Start, StartFails, Dropped, ledger, work, result
<1>3. CASE Killed(p)
  BY <1>3 DEF Killed, Gone, Ended, Dropped, work, result
<1>4. CASE \/ Claim(p) \/ Attempt(p) \/ AttemptSucceeds(p) \/ AttemptFails(p)
           \/ MarkSuccess(p) \/ MarkSkipped(p) \/ Derive(p) \/ OrphanEnds(p)
  BY <1>4 DEF Claim, Attempt, AttemptSucceeds, AttemptFails, MarkSuccess, MarkSkipped,
     Derive, OrphanEnds, Mark, ledger, work, result
<1>5. CASE WorkEnds(p) \/ WorkFails(p) \/ Timeout(p)
  BY <1>5 DEF WorkEnds, WorkFails, Timeout, Gone, Dropped, Resume, Ended, ledger
<1>6. QED
  BY <1>1, <1>2, <1>3, <1>4, <1>5 DEF Step, Work

\* A run that is over.
LEMMA EndedFits ==
    ASSUME Base, NEW p \in Proc, Ended(p), queue'[p] = {}
    PROVE  FitsAt(p)'
<1>1. used'[p] = 0 /\ alloc'[p] = 0 /\ Cardinality({}) = 0
  BY FS_EmptySet DEF Ended, Base, Types, RunsOK
<1>2. QED
  BY <1>1 DEF FitsAt

\* One that goes on with less in its queue.
LEMMA LessFits ==
    ASSUME Base, Fits, NEW p \in Proc,
           used'[p] = used[p] /\ alloc'[p] = alloc[p],
           queue'[p] = {} \/ (queue'[p] = queue[p] /\ child'[p] \notin {"none", "claim"}),
           Fresh(p)' => Fresh(p),
           Bare(p)' => Bare(p)
    PROVE  FitsAt(p)'
<1>1. /\ used[p] + Cardinality(queue[p]) <= alloc[p]
      /\ Cardinality(queue[p]) \in Nat /\ used[p] \in Nat /\ alloc[p] \in Nat
      /\ Cardinality({}) = 0
  BY QueueFinite, FS_EmptySet DEF Fits, FitsAt, Base, Types, RunsOK
<1>2. Cardinality(queue'[p]) \in {0, Cardinality(queue[p])}
  BY <1>1
<1>3. used'[p] + Cardinality(queue'[p]) <= alloc'[p]
  BY <1>1, <1>2
<1>4. QED
  BY <1>3 DEF Fits, FitsAt

LEMMA FitsStep ==
    ASSUME Base, Fits, NEW p \in Proc, Step(p)
    PROVE  FitsAt(p)'
<1> USE DEF Base, Types, RunsOK, WorkOK, Goto, GotoPart
<1>0. /\ pc[p] \in Steps /\ child[p] \in Parts
      /\ pc[p] \notin {"idle", "wait"} => child[p] = "none"
      /\ child[p] \in {"none", "claim"} => queue[p] = {}
  BY DEF Parent, Fits, FitsAt
<1>1. CASE Allocate(p)
  <2>1. used'[p] = 0 /\ queue'[p] = {} /\ pc'[p] = "grant"
    BY <1>0, <1>1 DEF Allocate, Fits, FitsAt, Fresh, work
  <2>2. alloc'[p] \in Nat
    BY <1>1, ReadTypes, AllocatedTypes DEF Allocate
  <2>3. child'[p] = "none"
    BY <1>0, <1>1 DEF Allocate
  <2>4. QED
    BY <2>1, <2>2, <2>3, FS_EmptySet DEF FitsAt, Bare
<1>2. CASE Finalize(p) \/ Unreadable(p)
  <2>1. Ended(p) /\ queue'[p] = {}
    BY <1>0, <1>2 DEF Finalize, Unreadable, work
  <2>2. QED
    BY <2>1, EndedFits
<1>3. CASE Truncate(p)
  <2>1. /\ pc[p] \in {"grant", "settle"} /\ queue'[p] = {}
        /\ UNCHANGED <<used, alloc, child>>
    BY <1>0, <1>3 DEF Truncate, Holder, work, result
  <2>2. pc'[p] = IF pc[p] = "grant" THEN "granted" ELSE "settled"
    BY <1>3 DEF Truncate
  <2>3. QED
    BY <1>0, <2>1, <2>2, LessFits DEF Fresh, Bare
<1>4. CASE Close(p)
  <2>1. /\ pc[p] \in {"granted", "settled"} /\ queue'[p] = {}
        /\ UNCHANGED <<used, alloc, child>>
    BY <1>0, <1>4 DEF Close, Unflushed, work, result
  <2>2. pc'[p] = IF pc[p] = "granted" /\ (p \in Script => alloc[p] > 0) THEN "scan" ELSE "idle"
    BY <1>4 DEF Close
  <2>3. CASE pc'[p] = "idle" /\ pc[p] = "granted"
    <3>1. used[p] = 0 /\ alloc[p] = 0
      BY <2>1, <2>2, <2>3 DEF Fits, FitsAt, Fresh
    <3>2. QED
      BY <2>1, <3>1, FS_EmptySet DEF FitsAt
  <2>4. CASE pc'[p] = "scan" \/ pc[p] = "settled"
    BY <1>0, <2>1, <2>2, <2>4, LessFits DEF Fresh, Bare
  <2>5. QED
    BY <2>1, <2>2, <2>3, <2>4
<1>5. CASE Launch(p) \/ Scan(p) \/ StartFails(p)
  <2>1. /\ queue'[p] = {} /\ UNCHANGED <<used, alloc, child>> /\ child[p] = "none"
        /\ \/ pc[p] = "idle" /\ pc'[p] = "allocate"
           \/ pc[p] = "scan" /\ pc'[p] = "start"
           \/ pc[p] \in {"scan", "start"} /\ pc'[p] = "finalize"
    BY <1>0, <1>5 DEF Launch, Scan, StartFails, Dropped, work, result
  <2>2. QED
    BY <2>1, LessFits DEF Fresh, Bare
<1>6. CASE Start(p)
  <2>1. /\ queue'[p] = {} /\ UNCHANGED <<used, alloc>> /\ pc[p] = "start"
        /\ pc'[p] \in {"wait", "finalize"}
    BY <1>0, <1>6 DEF Start, Dropped, work, result
  <2>2. QED
    BY <2>1, LessFits DEF Fresh, Bare
<1>7. CASE Killed(p)
  <2>1. CASE Gone(p) /\ Ended(p)
    BY <2>1, EndedFits DEF Gone, Dropped
  <2>2. CASE child[p] # "none" /\ UNCHANGED <<child, work, result>>
    <3>1. pc'[p] = "idle" /\ UNCHANGED <<used, alloc, queue, child>>
      BY <1>7, <2>2 DEF Killed, work, result
    <3>2. QED
      BY <1>0, <2>2, <3>1, LessFits DEF Fresh, Bare
  <2>3. QED
    BY <1>7, <2>1, <2>2 DEF Killed
<1>8. CASE Claim(p)
  <2> DEFINE S == FirstOf(Claimable, alloc[p])
  <2>1. Claimable \in SUBSET Job /\ alloc[p] \in Nat
    BY DEF Claimable
  <2>2. Cardinality(S) <= alloc[p] /\ IsFiniteSet(S)
    BY <2>1, FirstBound
  <2>3. used[p] = 0
    BY <1>8 DEF Claim, Fits, FitsAt, Fresh
  <2> HIDE DEF S
  <2>4. queue'[p] = S /\ used'[p] = used[p] /\ alloc'[p] = alloc[p] /\ child'[p] = "next"
    BY <1>8 DEF Claim, result, S
  <2>5. pc[p] \in {"idle", "wait"} /\ pc' = pc
    BY <1>0, <1>8 DEF Claim
  <2>6. Cardinality(S) \in Nat
    BY <2>2, FS_CardinalityType
  <2>7. used'[p] + Cardinality(queue'[p]) <= alloc'[p]
    BY <2>1, <2>2, <2>3, <2>4, <2>6
  <2>8. QED
    BY <2>4, <2>5, <2>7 DEF FitsAt, Fresh, Bare
<1>9. CASE Attempt(p)
  <2>1. PICK j \in queue[p] : queue' = [queue EXCEPT ![p] = @ \ {j}]
    BY <1>9 DEF Attempt
  <2>2. Cardinality(queue[p] \ {j}) = Cardinality(queue[p]) - 1
    BY <2>1, QueueFinite, FS_RemoveElement
  <2>3. queue'[p] = queue[p] \ {j} /\ used'[p] = used[p] + 1 /\ alloc'[p] = alloc[p]
    BY <1>9, <2>1 DEF Attempt
  <2>4. used[p] + Cardinality(queue[p]) <= alloc[p] /\ Cardinality(queue[p]) \in Nat
    BY QueueFinite DEF Fits, FitsAt
  <2>5. used'[p] + Cardinality(queue'[p]) <= alloc'[p]
    BY <2>2, <2>3, <2>4
  <2>6. child'[p] = "fetch" /\ pc'[p] \in {"idle", "wait"}
    BY <1>0, <1>9 DEF Attempt
  <2>7. QED
    BY <2>5, <2>6 DEF FitsAt, Fresh, Bare
<1>10. CASE \/ AttemptSucceeds(p) \/ AttemptFails(p)
            \/ MarkSuccess(p) \/ MarkSkipped(p) \/ Derive(p)
  <2>1. /\ UNCHANGED <<used, alloc, queue, pc>> /\ child[p] \notin {"none", "claim"}
        /\ child'[p] \notin {"none", "claim"}
    BY <1>10 DEF AttemptSucceeds, AttemptFails, MarkSuccess, MarkSkipped, Derive, Mark, work, result
  <2>2. pc[p] \in {"idle", "wait"}
    BY <1>0, <2>1
  <2>3. QED
    BY <2>1, <2>2, LessFits DEF Fresh, Bare
<1>11. CASE WorkEnds(p) \/ WorkFails(p) \/ Timeout(p)
  <2>1. PICK n : Resume(p, n) /\ Gone(p)
    BY <1>11 DEF WorkEnds, WorkFails, Timeout
  <2>2. queue'[p] = {}
    BY <2>1 DEF Gone, Dropped
  <2>3. CASE pc[p] = "wait"
    <3>1. pc'[p] = "finalize" /\ UNCHANGED <<used, alloc>> /\ child'[p] = "none"
      BY <2>1, <2>3 DEF Resume, Gone
    <3>2. QED
      BY <2>2, <3>1, LessFits DEF Fresh, Bare
  <2>4. CASE pc[p] # "wait"
    BY <2>1, <2>2, <2>4, EndedFits DEF Resume
  <2>5. QED
    BY <2>3, <2>4
<1>12. CASE OrphanEnds(p)
  BY <1>12 DEF OrphanEnds, work, result, Fits, FitsAt, Fresh, Bare
<1>13. QED
  BY <1>1, <1>2, <1>3, <1>4, <1>5, <1>6, <1>7, <1>8, <1>9, <1>10, <1>11, <1>12
  DEF Step, Update, Work

LEMMA FitsNext ==
    ASSUME Base, Fits, [Next]_vars
    PROVE  Fits'
<1>1. ASSUME NEW p \in Proc, Step(p) PROVE Fits'
  <2>1. \A q \in Proc \ {p} : FitsAt(q)'
    BY <1>1, StepApart DEF Apart, Fits, FitsAt, Fresh, Bare
  <2>2. QED
    BY <1>1, <2>1, FitsStep DEF Fits
<1>2. CASE UNCHANGED <<alloc, used, queue, child, pc>>
  BY <1>2 DEF Fits, FitsAt, Fresh, Bare
<1>3. QED
  BY <1>1, <1>2 DEF Next, Ages, vars, work, result

LEMMA FitsInit == Init => Fits
BY FS_EmptySet DEF Init, Fits, FitsAt

--------------------------------------------------------------------------------
(* The books: what the document of the day covers. *)

Zeros == [p \in Proc |-> 0]

\* What all runs together have allocated, and what of it they have not requested.
Reserved == Cardinality(Cells(Zeros, alloc))
Unused == Cardinality(Cells(used, alloc))

Counted == IsFiniteSet(Cells(Zeros, alloc)) /\ IsFiniteSet(Cells(used, alloc))

\* A document that covers every allocation, and all that was requested or still
\* may be, within the budget.
Sound(doc) ==
    /\ Reserved <= doc.reserved
    /\ sent + Unused <= doc.consumed + doc.reserved + forgotten
    /\ doc.consumed + doc.reserved <= Budget

\* The run of p is updating the ledger.
Busy(p) == pc[p] \in {"grant", "granted", "settle", "settled"}

Locked == \A p \in Proc : pc[p] \in {"grant", "settle"} => flock = p

\* One run at a time updates the ledger.  The document it has written is sound,
\* and until it truncates the file so is the one in it, for a kill leaves that.
Books ==
    ~lost =>
        /\ \A p, q \in Proc : Busy(p) /\ Busy(q) => p = q
        /\ Readable
        /\ \A p \in Proc : Unflushed(p) => file = <<>>
        /\ (\A p \in Proc : ~Busy(p)) => Sound(Read)
        /\ \A p \in Proc : Busy(p) => Sound(buffer[p])
        /\ \A p \in Proc : pc[p] = "grant" =>
               /\ buffer[p].consumed = Read.consumed
               /\ buffer[p].reserved = Read.reserved + alloc[p]
        /\ \A p \in Proc : pc[p] = "settle" => Sound(Read)

BudgetInv == Base /\ Fits /\ Counted /\ Locked /\ Books

LEMMA SumTypes ==
    ASSUME Counted
    PROVE  Reserved \in Nat /\ Unused \in Nat
BY FS_CardinalityType DEF Counted, Reserved, Unused

LEMMA UsedFits ==
    ASSUME Base, Fits
    PROVE  \A p \in Proc : used[p] \in Nat /\ alloc[p] \in Nat /\ used[p] <= alloc[p]
<1>1. ASSUME NEW p \in Proc PROVE used[p] \in Nat /\ alloc[p] \in Nat /\ used[p] <= alloc[p]
  <2>1. used[p] \in Nat /\ alloc[p] \in Nat /\ Cardinality(queue[p]) \in Nat
    BY QueueFinite DEF Base, Types, RunsOK
  <2>2. used[p] + Cardinality(queue[p]) <= alloc[p]
    BY DEF Fits, FitsAt
  <2>3. QED
    BY <2>1, <2>2
<1>2. QED
  BY <1>1

\* When nothing is taken off below.
LEMMA CellsGrow ==
    ASSUME NEW low \in [Proc -> Nat], NEW high \in [Proc -> Nat], NEW high2 \in [Proc -> Nat],
           NEW p \in Proc, \A q \in Proc \ {p} : high2[q] = high[q],
           low[p] <= high[p], low[p] <= high2[p],
           IsFiniteSet(Cells(low, high))
    PROVE  /\ IsFiniteSet(Cells(low, high2))
           /\ Cardinality(Cells(low, high2)) + (high[p] - low[p])
                = Cardinality(Cells(low, high)) + (high2[p] - low[p])
           /\ Cardinality(Cells(low, high)) >= high[p] - low[p]
<1>1. \A q \in Proc \ {p} : low[q] = low[q] /\ high2[q] = high[q]
  OBVIOUS
<1> DEFINE low2 == low
<1>2. /\ low2 \in [Proc -> Nat] /\ low2[p] <= high2[p]
      /\ \A q \in Proc \ {p} : low2[q] = low[q] /\ high2[q] = high[q]
  BY <1>1
<1> HIDE DEF low2
<1>3. /\ IsFiniteSet(Cells(low2, high2))
      /\ Cardinality(Cells(low2, high2)) + (high[p] - low[p])
           = Cardinality(Cells(low, high)) + (high2[p] - low2[p])
      /\ Cardinality(Cells(low, high)) >= high[p] - low[p]
  BY <1>2, CellsChange
<1>4. QED
  BY <1>3 DEF low2

\* The sums follow the run that takes the step.
LEMMA SumsMove ==
    ASSUME Base, Base', Fits, Fits', Counted, NEW p \in Proc, Apart(p)
    PROVE  /\ Counted'
           /\ Reserved' + alloc[p] = Reserved + alloc'[p]
           /\ Unused' + (alloc[p] - used[p]) = Unused + (alloc'[p] - used'[p])
           /\ Reserved >= alloc[p]
           /\ Unused >= alloc[p] - used[p]
<1>1. /\ used \in [Proc -> Nat] /\ alloc \in [Proc -> Nat]
      /\ used' \in [Proc -> Nat] /\ alloc' \in [Proc -> Nat]
      /\ Zeros \in [Proc -> Nat]
  BY DEF Base, Types, RunsOK, Zeros
<1>2. used[p] <= alloc[p] /\ Zeros[p] <= alloc[p] /\ Zeros[p] = 0
  BY <1>1, UsedFits DEF Zeros
<1>3. used'[p] <= alloc'[p] /\ Zeros[p] <= alloc'[p]
  <2>1. used'[p] + Cardinality(queue'[p]) <= alloc'[p]
    BY DEF Fits, FitsAt
  <2>2. Cardinality(queue'[p]) \in Nat
    <3>1. IsFiniteSet(1 .. N)
      BY FS_Interval
    <3>2. queue'[p] \in SUBSET (1 .. N)
      BY DEF Base, Types, WorkOK
    <3>3. QED
      BY <3>1, <3>2, FS_Subset, FS_CardinalityType
  <2>3. QED
    BY <1>1, <1>2, <2>1, <2>2
<1>4. \A q \in Proc \ {p} : used'[q] = used[q] /\ alloc'[q] = alloc[q]
  BY DEF Apart
<1>5. /\ IsFiniteSet(Cells(used', alloc'))
      /\ Cardinality(Cells(used', alloc')) + (alloc[p] - used[p])
           = Cardinality(Cells(used, alloc)) + (alloc'[p] - used'[p])
      /\ Cardinality(Cells(used, alloc)) >= alloc[p] - used[p]
  <2> DEFINE low2 == used'
             high2 == alloc'
  <2>1. low2 \in [Proc -> Nat] /\ high2 \in [Proc -> Nat] /\ low2[p] <= high2[p]
    BY <1>1, <1>3
  <2>2. \A q \in Proc \ {p} : low2[q] = used[q] /\ high2[q] = alloc[q]
    BY <1>4
  <2>3. used \in [Proc -> Nat] /\ alloc \in [Proc -> Nat] /\ used[p] <= alloc[p]
    BY <1>1, <1>2
  <2>4. IsFiniteSet(Cells(used, alloc))
    BY DEF Counted
  <2> HIDE DEF low2, high2
  <2>5. /\ IsFiniteSet(Cells(low2, high2))
        /\ Cardinality(Cells(low2, high2)) + (alloc[p] - used[p])
             = Cardinality(Cells(used, alloc)) + (high2[p] - low2[p])
        /\ Cardinality(Cells(used, alloc)) >= alloc[p] - used[p]
    BY <2>1, <2>2, <2>3, <2>4, CellsChange
  <2>6. QED
    BY <2>5 DEF low2, high2
<1>6. /\ IsFiniteSet(Cells(Zeros, alloc'))
      /\ Cardinality(Cells(Zeros, alloc')) + (alloc[p] - Zeros[p])
           = Cardinality(Cells(Zeros, alloc)) + (alloc'[p] - Zeros[p])
      /\ Cardinality(Cells(Zeros, alloc)) >= alloc[p] - Zeros[p]
  <2> DEFINE high2 == alloc'
  <2>1. high2 \in [Proc -> Nat] /\ Zeros[p] <= high2[p] /\ \A q \in Proc \ {p} : high2[q] = alloc[q]
    BY <1>1, <1>3, <1>4
  <2>2. IsFiniteSet(Cells(Zeros, alloc))
    BY DEF Counted
  <2> HIDE DEF high2
  <2>3. /\ IsFiniteSet(Cells(Zeros, high2))
        /\ Cardinality(Cells(Zeros, high2)) + (alloc[p] - Zeros[p])
             = Cardinality(Cells(Zeros, alloc)) + (high2[p] - Zeros[p])
        /\ Cardinality(Cells(Zeros, alloc)) >= alloc[p] - Zeros[p]
    BY <1>1, <1>2, <2>1, <2>2, CellsGrow
  <2>4. QED
    BY <2>3 DEF high2
<1>7. alloc[p] \in Nat /\ alloc'[p] \in Nat
  BY <1>1
<1>8. alloc[p] - Zeros[p] = alloc[p] /\ alloc'[p] - Zeros[p] = alloc'[p]
  BY <1>2, <1>7
<1>9. QED
  BY <1>5, <1>6, <1>8 DEF Counted, Reserved, Unused, Cells, Zeros

\* The step leaves what every document covers within it.
Spares ==
    /\ Reserved' <= Reserved
    /\ sent' + Unused' + forgotten <= sent + Unused + forgotten'

LEMMA SoundStays ==
    ASSUME BudgetInv, Base', Counted', Spares, NEW doc \in Doc, Sound(doc)
    PROVE  Sound(doc)'
<1>1. /\ Reserved \in Nat /\ Unused \in Nat /\ Reserved' \in Nat /\ Unused' \in Nat
      /\ sent \in Nat /\ sent' \in Nat /\ forgotten \in Nat /\ forgotten' \in Nat
      /\ doc.consumed \in Nat /\ doc.reserved \in Nat
  <2>1. Reserved' \in Nat /\ Unused' \in Nat
    BY FS_CardinalityType DEF Counted, Reserved, Unused
  <2>2. QED
    BY <2>1, SumTypes, DocFields DEF BudgetInv, Base, Types, RunsOK
<1>2. /\ Reserved <= doc.reserved
      /\ sent + Unused <= doc.consumed + doc.reserved + forgotten
      /\ doc.consumed + doc.reserved <= Budget
  BY DEF Sound
<1>3. /\ Reserved' <= Reserved
      /\ sent' + Unused' + forgotten <= sent + Unused + forgotten'
  BY DEF Spares
<1>4. Reserved' <= doc.reserved
  BY <1>1, <1>2, <1>3
<1>5. sent' + Unused' <= doc.consumed + doc.reserved + forgotten'
  <2> DEFINE c == doc.consumed
             r == doc.reserved
             u2 == Unused'
             s2 == sent'
             f2 == forgotten'
  <2>1. /\ c \in Nat /\ r \in Nat /\ u2 \in Nat /\ s2 \in Nat /\ f2 \in Nat
        /\ sent \in Nat /\ Unused \in Nat /\ forgotten \in Nat
    BY <1>1
  <2>2. sent + Unused <= c + r + forgotten
    BY <1>2
  <2>3. s2 + u2 + forgotten <= sent + Unused + f2
    BY <1>3
  <2> HIDE DEF c, r, u2, s2, f2
  <2>4. s2 + u2 <= c + r + f2
    BY <2>1, <2>2, <2>3
  <2>5. QED
    BY <2>4 DEF c, r, u2, s2, f2
<1>6. QED
  BY <1>2, <1>4, <1>5 DEF Sound

LEMMA MostStepsSpare ==
    ASSUME BudgetInv, Base', Fits', NEW p \in Proc, Step(p), ~Allocate(p), ~Finalize(p)
    PROVE  Counted' /\ Spares
<1>1. Apart(p)
  BY StepApart DEF BudgetInv
<1>2. /\ Counted'
      /\ Reserved' + alloc[p] = Reserved + alloc'[p]
      /\ Unused' + (alloc[p] - used[p]) = Unused + (alloc'[p] - used'[p])
      /\ Reserved >= alloc[p]
      /\ Unused >= alloc[p] - used[p]
  BY <1>1, SumsMove DEF BudgetInv
<1>3. /\ Reserved \in Nat /\ Unused \in Nat /\ Reserved' \in Nat /\ Unused' \in Nat
      /\ sent \in Nat /\ forgotten \in Nat
      /\ alloc[p] \in Nat /\ used[p] \in Nat /\ used[p] <= alloc[p]
  <2>1. Reserved' \in Nat /\ Unused' \in Nat
    BY <1>2, FS_CardinalityType DEF Counted, Reserved, Unused
  <2>2. QED
    BY <2>1, SumTypes, UsedFits DEF BudgetInv, Base, Types, RunsOK
<1>4. \/ UNCHANGED <<sent, forgotten>> /\ alloc'[p] = alloc[p] /\ used'[p] = used[p]
      \/ UNCHANGED <<sent, forgotten>> /\ alloc'[p] = 0 /\ used'[p] = 0
      \/ /\ sent' = sent + 1 /\ forgotten' = forgotten
         /\ alloc'[p] = alloc[p] /\ used'[p] = used[p] + 1
  <2> USE DEF BudgetInv, Base, Types, RunsOK
  <2>1. CASE \/ Unreadable(p) \/ Truncate(p) \/ Close(p)
             \/ Launch(p) \/ Scan(p) \/ Start(p) \/ StartFails(p)
    BY <2>1 DEF Unreadable, Truncate, Close, Launch, Scan, Start, StartFails, Ended, result, history
  <2>2. CASE Killed(p)
    BY <2>2 DEF Killed, Ended, result
  <2>3. CASE \/ Claim(p) \/ AttemptSucceeds(p) \/ AttemptFails(p) \/ MarkSuccess(p)
             \/ MarkSkipped(p) \/ Derive(p) \/ OrphanEnds(p)
    BY <2>3 DEF Claim, AttemptSucceeds, AttemptFails, MarkSuccess, MarkSkipped, Derive, OrphanEnds,
       Mark, result, history
  <2>4. CASE Attempt(p)
    BY <2>4 DEF Attempt
  <2>5. CASE WorkEnds(p) \/ WorkFails(p) \/ Timeout(p)
    BY <2>5 DEF WorkEnds, WorkFails, Timeout, Resume, Ended, history
  <2>6. QED
    BY <2>1, <2>2, <2>3, <2>4, <2>5 DEF Step, Update, Work
<1>5. QED
  BY <1>2, <1>3, <1>4 DEF Spares

--------------------------------------------------------------------------------
(* The books stay in order. *)

LEMMA LockedNext ==
    ASSUME Base, Locked, NEW p \in Proc, Step(p)
    PROVE  Locked'
<1> USE DEF Base, Types, LedgerOK, RunsOK
<1>1. Apart(p) /\ pc' \in [Proc -> Steps] /\ flock \in Proc \cup {Nobody}
  <2>1. Base'
    BY BaseNext DEF Next
  <2>2. QED
    BY <2>1, StepApart
<1>2. CASE Allocate(p) \/ Finalize(p)
  BY <1>1, <1>2 DEF Allocate, Finalize, Lock, Locked, Apart
<1>3. CASE Truncate(p)
  <2>1. pc'[p] \notin {"grant", "settle"} /\ \A q \in Proc \ {p} : pc'[q] \notin {"grant", "settle"}
    BY <1>1, <1>3 DEF Truncate, Goto, Locked, Apart
  <2>2. QED
    BY <2>1 DEF Locked
<1>4. CASE Killed(p)
  <2>1. pc'[p] = "idle" /\ flock' = IF flock = p THEN Nobody ELSE flock
    BY <1>4 DEF Killed, Goto
  <2>2. QED
    BY <1>1, <2>1 DEF Locked, Apart
<1>5. CASE Unreadable(p) \/ Close(p) \/ Launch(p) \/ Scan(p) \/ Start(p) \/ StartFails(p)
  <2>1. flock' = flock /\ pc'[p] \notin {"grant", "settle"}
    BY <1>5 DEF Unreadable, Close, Launch, Scan, Start, StartFails, Goto, ledger
  <2>2. QED
    BY <1>1, <2>1 DEF Locked, Apart
<1>6. CASE Work(p)
  <2>1. flock' = flock /\ (pc'[p] = pc[p] \/ pc'[p] = "finalize")
    BY <1>6 DEF Work, Claim, Attempt, AttemptSucceeds, AttemptFails, MarkSuccess, MarkSkipped,
       Derive, WorkEnds, WorkFails, Timeout, OrphanEnds, Resume, Goto, ledger
  <2>2. QED
    BY <1>1, <2>1 DEF Locked, Apart
<1>7. QED
  BY <1>2, <1>3, <1>4, <1>5, <1>6 DEF Step, Update

\* A document that was sound is so after a step that spares.
LEMMA SoundMoves ==
    ASSUME BudgetInv, Base', Counted', Spares
    PROVE  \A doc \in Doc : Sound(doc) =>
               /\ Reserved' <= doc.reserved
               /\ sent' + Unused' <= doc.consumed + doc.reserved + forgotten'
               /\ doc.consumed + doc.reserved <= Budget
<1> SUFFICES ASSUME NEW doc \in Doc, Sound(doc)
             PROVE  /\ Reserved' <= doc.reserved
                    /\ sent' + Unused' <= doc.consumed + doc.reserved + forgotten'
                    /\ doc.consumed + doc.reserved <= Budget
  OBVIOUS
<1>1. Sound(doc)'
  BY SoundStays
<1>2. QED
  BY <1>1 DEF Sound

LEMMA BookTypes ==
    ASSUME Base
    PROVE  Read \in Doc /\ \A p \in Proc : buffer[p] \in Doc
BY ReadTypes DEF Base, Types, LedgerOK

\* A step that neither begins nor ends an update.
LEMMA CalmBooks ==
    ASSUME BudgetInv, Base', Counted', Spares, NEW p \in Proc, Apart(p),
           file' = file, lost => lost',
           \/ ~Busy(p) /\ ~Busy(p)'
           \/ pc'[p] = pc[p] /\ buffer'[p] = buffer[p] /\ alloc'[p] = alloc[p]
    PROVE  Books'
<1> SUFFICES ASSUME ~lost'
             PROVE  /\ \A q, r \in Proc : Busy(q)' /\ Busy(r)' => q = r
                    /\ Readable'
                    /\ \A q \in Proc : Unflushed(q)' => file' = <<>>
                    /\ (\A q \in Proc : ~Busy(q)') => Sound(Read)'
                    /\ \A q \in Proc : Busy(q)' => Sound(buffer[q])'
                    /\ \A q \in Proc : pc'[q] = "grant" =>
                           /\ buffer'[q].consumed = Read'.consumed
                           /\ buffer'[q].reserved = Read'.reserved + alloc'[q]
                    /\ \A q \in Proc : pc'[q] = "settle" => Sound(Read)'
  BY DEF Books
<1>1. ~lost /\ Read' = Read /\ (Readable' <=> Readable)
  BY DEF Read, Readable
<1>2. \A q \in Proc : Busy(q)' <=> Busy(q)
  BY DEF Apart, Busy
<1>3. \A q \in Proc : Busy(q) =>
          pc'[q] = pc[q] /\ buffer'[q] = buffer[q] /\ alloc'[q] = alloc[q]
  BY <1>2 DEF Apart
<1>4. Sound(Read) => Sound(Read)'
  <2>1. Read \in Doc
    BY BookTypes DEF BudgetInv
  <2>2. QED
    BY <1>1, <2>1, SoundMoves DEF Sound
<1>5. \A q \in Proc : Busy(q) /\ Sound(buffer[q]) => Sound(buffer[q])'
  <2> SUFFICES ASSUME NEW q \in Proc, Busy(q), Sound(buffer[q]) PROVE Sound(buffer[q])'
    OBVIOUS
  <2>1. buffer[q] \in Doc /\ buffer'[q] = buffer[q]
    BY <1>3, BookTypes DEF BudgetInv
  <2>2. QED
    BY <2>1, SoundMoves DEF Sound
<1>6. \A q \in Proc : pc'[q] \in {"grant", "settle"} \/ Unflushed(q)' => Busy(q)
  BY <1>2 DEF Busy, Unflushed
<1>7. QED
  <2>1. \A q, r \in Proc : Busy(q)' /\ Busy(r)' => q = r
    BY <1>1, <1>2 DEF BudgetInv, Books
  <2>2. Readable'
    BY <1>1 DEF BudgetInv, Books
  <2>3. \A q \in Proc : Unflushed(q)' => file' = <<>>
    BY <1>1, <1>3, <1>6 DEF BudgetInv, Books, Unflushed
  <2>4. (\A q \in Proc : ~Busy(q)') => Sound(Read)'
    BY <1>1, <1>2, <1>4 DEF BudgetInv, Books
  <2>5. \A q \in Proc : Busy(q)' => Sound(buffer[q])'
    BY <1>1, <1>2, <1>5 DEF BudgetInv, Books
  <2>6. \A q \in Proc : pc'[q] = "grant" =>
            /\ buffer'[q].consumed = Read'.consumed
            /\ buffer'[q].reserved = Read'.reserved + alloc'[q]
    BY <1>1, <1>3, <1>6 DEF BudgetInv, Books
  <2>7. \A q \in Proc : pc'[q] = "settle" => Sound(Read)'
    BY <1>1, <1>3, <1>4, <1>6 DEF BudgetInv, Books
  <2>8. QED
    BY <2>1, <2>2, <2>3, <2>4, <2>5, <2>6, <2>7

\* The only one that updates, when it has taken the lock.
LEMMA LoneBooks ==
    ASSUME NEW p \in Proc, Base', Busy(p)', \A q \in Proc \ {p} : ~Busy(q)',
           Readable', Unflushed(p)' => file' = <<>>,
           Sound(buffer[p])',
           pc'[p] = "grant" =>
               /\ buffer'[p].consumed = Read'.consumed
               /\ buffer'[p].reserved = Read'.reserved + alloc'[p],
           pc'[p] = "settle" => Sound(Read)'
    PROVE  Books'
<1>1. \A q \in Proc \ {p} : pc'[q] \notin {"grant", "settle"} /\ ~Unflushed(q)'
  BY DEF Busy, Unflushed
<1>2. QED
  BY <1>1 DEF Books

\* Nobody updates.
LEMMA IdleBooks ==
    ASSUME \A q \in Proc : ~Busy(q)', Readable', Sound(Read)'
    PROVE  Books'
<1>1. \A q \in Proc : pc'[q] \notin {"grant", "settle"} /\ ~Unflushed(q)'
  BY DEF Busy, Unflushed
<1>2. QED
  BY <1>1 DEF Books

\* When the ledger is locked anew and no update is lost, nobody updates it.
LEMMA LockedAlone ==
    ASSUME BudgetInv, NEW p \in Proc, Lock(p), ~lost'
    PROVE  ~lost /\ (\A q \in Proc : ~Busy(q)) /\ Readable /\ Sound(Read)
<1>1. ~lost /\ \A q \in Proc : ~Unflushed(q)
  BY DEF Lock
<1>2. \A q \in Proc : pc[q] \notin {"grant", "settle"}
  BY DEF Lock, BudgetInv, Locked
<1>3. \A q \in Proc : ~Busy(q)
  BY <1>1, <1>2 DEF Busy, Unflushed
<1>4. QED
  BY <1>1, <1>3 DEF BudgetInv, Books

LEMMA AllocateBooks ==
    ASSUME BudgetInv, Base', Fits', NEW p \in Proc, Allocate(p)
    PROVE  Counted' /\ Books'
<1> DEFINE a == Allocated(Read)
           c == Read.consumed
           r == Read.reserved
<1>1. Apart(p)
  BY StepApart DEF BudgetInv, Step, Update
<1>2. Read \in Doc /\ a \in Nat /\ c \in Nat /\ r \in Nat
  BY BookTypes, AllocatedTypes, DocFields DEF BudgetInv
<1>3. alloc[p] = 0 /\ used[p] = 0
  BY DEF Allocate, BudgetInv, Fits, FitsAt, Fresh, Bare
<1>4. /\ alloc'[p] = a /\ used'[p] = 0 /\ pc'[p] = "grant"
      /\ buffer'[p] = [consumed |-> c, reserved |-> r + a]
      /\ UNCHANGED <<file, sent, forgotten>>
  BY <1>3 DEF Allocate, Goto, BudgetInv, Base, Types, LedgerOK, RunsOK
<1> HIDE DEF a, c, r
<1>5. /\ Counted'
      /\ Reserved' + 0 = Reserved + a
      /\ Unused' + (0 - 0) = Unused + (a - 0)
  <2>1. /\ Counted'
        /\ Reserved' + alloc[p] = Reserved + alloc'[p]
        /\ Unused' + (alloc[p] - used[p]) = Unused + (alloc'[p] - used'[p])
    BY <1>1, SumsMove DEF BudgetInv
  <2>2. QED
    BY <1>3, <1>4, <2>1
<1>6. /\ Reserved \in Nat /\ Unused \in Nat /\ Reserved' \in Nat /\ Unused' \in Nat
      /\ sent \in Nat /\ forgotten \in Nat
  <2>1. Reserved' \in Nat /\ Unused' \in Nat
    BY <1>5, FS_CardinalityType DEF Counted, Reserved, Unused
  <2>2. QED
    BY <2>1, SumTypes DEF BudgetInv, Base, Types, RunsOK
<1>7. Reserved' = Reserved + a /\ Unused' = Unused + a
  <2> DEFINE r2 == Reserved'
             u2 == Unused'
  <2>1. r2 \in Nat /\ u2 \in Nat /\ r2 + 0 = Reserved + a /\ u2 + (0 - 0) = Unused + (a - 0)
    BY <1>5, <1>6
  <2> HIDE DEF r2, u2
  <2>2. r2 = Reserved + a /\ u2 = Unused + a
    BY <1>2, <1>6, <2>1
  <2>3. QED
    BY <2>2 DEF r2, u2
<1>8. ASSUME ~lost' PROVE Books'
  <2>1. (\A q \in Proc : ~Busy(q)) /\ Readable /\ Sound(Read)
    BY <1>8, LockedAlone DEF Allocate
  <2>2. Reserved <= r /\ sent + Unused <= c + r + forgotten /\ c + r <= Budget
    BY <2>1 DEF Sound, c, r
  <2>3. c + r + a <= Budget
    <3>1. a = Smaller(Ask, OrZero(Budget - c - r))
      BY DEF a, c, r, Allocated
    <3>2. QED
      BY <1>2, <2>2, <3>1 DEF Smaller, OrZero
  <2>4. Sound(buffer[p])'
    <3>1. buffer'[p].consumed = c /\ buffer'[p].reserved = r + a
      BY <1>4
    <3>2. Reserved' <= r + a
      BY <1>2, <1>6, <1>7, <2>2
    <3>3. sent' + Unused' <= c + (r + a) + forgotten'
      BY <1>2, <1>4, <1>6, <1>7, <2>2
    <3>4. c + (r + a) <= Budget
      BY <1>2, <2>3
    <3>5. QED
      BY <3>1, <3>2, <3>3, <3>4 DEF Sound
  <2>5. Busy(p)' /\ ~Unflushed(p)' /\ pc'[p] # "settle" /\ \A q \in Proc \ {p} : ~Busy(q)'
    BY <1>1, <1>4, <2>1 DEF Busy, Unflushed, Apart
  <2>6. Readable' /\ Read' = Read
    BY <1>4, <2>1 DEF Readable, Read
  <2>7. buffer'[p].consumed = Read'.consumed /\ buffer'[p].reserved = Read'.reserved + alloc'[p]
    BY <1>4, <2>6 DEF c, r
  <2>8. QED
    BY <2>4, <2>5, <2>6, <2>7, LoneBooks
<1>9. QED
  BY <1>5, <1>8 DEF Books

LEMMA FinalizeBooks ==
    ASSUME BudgetInv, Base', Fits', NEW p \in Proc, Finalize(p)
    PROVE  Counted' /\ Books'
<1> DEFINE a == alloc[p]
           m == Smaller(count[p], a)
           u == used[p]
           c == Read.consumed
           r == Read.reserved
           o == OrZero(u - m)
<1>1. Apart(p)
  BY StepApart DEF BudgetInv, Step, Update
<1>2. /\ Read \in Doc /\ c \in Nat /\ r \in Nat
      /\ a \in Nat /\ u \in Nat /\ u <= a
      /\ m \in Nat /\ m <= a
      /\ o \in Nat /\ u <= m + o
  <2>1. Read \in Doc /\ c \in Nat /\ r \in Nat
    BY BookTypes, DocFields DEF BudgetInv
  <2>2. a \in Nat /\ u \in Nat /\ u <= a
    BY UsedFits DEF BudgetInv
  <2>3. count[p] \in Nat
    BY DEF BudgetInv, Base, Types, RunsOK
  <2>4. m \in Nat /\ m <= a
    BY <2>2, <2>3 DEF Smaller
  <2> HIDE DEF a, m, u
  <2>5. o \in Nat /\ u <= m + o
    BY <2>2, <2>4 DEF OrZero
  <2>6. QED
    BY <2>1, <2>2, <2>4, <2>5
<1>3. /\ alloc'[p] = 0 /\ used'[p] = 0 /\ pc'[p] = "settle"
      /\ buffer'[p] = Settle(Read, a, count[p])
      /\ forgotten' = forgotten + o
      /\ UNCHANGED <<file, sent>>
  BY DEF Finalize, Ended, Goto, BudgetInv, Base, Types, LedgerOK, RunsOK
<1>4. /\ Counted'
      /\ Reserved' + a = Reserved + 0
      /\ Unused' + (a - u) = Unused + (0 - 0)
      /\ Reserved >= a
  <2>1. /\ Counted'
        /\ Reserved' + alloc[p] = Reserved + alloc'[p]
        /\ Unused' + (alloc[p] - used[p]) = Unused + (alloc'[p] - used'[p])
        /\ Reserved >= alloc[p]
    BY <1>1, SumsMove DEF BudgetInv
  <2>2. QED
    BY <1>3, <2>1
<1>5. buffer'[p].consumed = c + m /\ buffer'[p].reserved = OrZero(r - a)
  BY <1>3 DEF Settle
<1> HIDE DEF a, m, u, c, r, o
<1>6. /\ Reserved \in Nat /\ Unused \in Nat /\ Reserved' \in Nat /\ Unused' \in Nat
      /\ sent \in Nat /\ forgotten \in Nat
  <2>1. Reserved' \in Nat /\ Unused' \in Nat
    BY <1>4, FS_CardinalityType DEF Counted, Reserved, Unused
  <2>2. QED
    BY <2>1, SumTypes DEF BudgetInv, Base, Types, RunsOK
<1>7. Reserved' = Reserved - a /\ Unused' = Unused - a + u
  <2> DEFINE r2 == Reserved'
             u2 == Unused'
  <2>1. r2 \in Nat /\ u2 \in Nat /\ r2 + a = Reserved + 0 /\ u2 + (a - u) = Unused + (0 - 0)
    BY <1>4, <1>6
  <2> HIDE DEF r2, u2
  <2>2. r2 = Reserved - a /\ u2 = Unused - a + u
    BY <1>2, <1>6, <2>1
  <2>3. QED
    BY <2>2 DEF r2, u2
<1>8. ASSUME ~lost' PROVE Books'
  <2>1. (\A q \in Proc : ~Busy(q)) /\ Readable /\ Sound(Read)
    BY <1>8, LockedAlone DEF Finalize
  <2>2. Reserved <= r /\ sent + Unused <= c + r + forgotten /\ c + r <= Budget
    BY <2>1 DEF Sound, c, r
  <2>3. OrZero(r - a) = r - a
    BY <1>2, <1>4, <1>6, <2>2 DEF OrZero
  <2>4. Sound(buffer[p])'
    <3>1. Reserved' <= r - a
      BY <1>2, <1>6, <1>7, <2>2
    <3>2. sent' + Unused' <= (c + m) + (r - a) + forgotten'
      <4> DEFINE f2 == forgotten'
                 u2 == Unused'
      <4>1. f2 = forgotten + o /\ u2 = Unused - a + u
        BY <1>3, <1>7
      <4> HIDE DEF f2, u2
      <4>2. sent + u2 <= (c + m) + (r - a) + f2
        BY <1>2, <1>6, <2>2, <4>1
      <4>3. QED
        BY <1>3, <4>2 DEF f2, u2
    <3>3. (c + m) + (r - a) <= Budget
      BY <1>2, <2>2
    <3>4. QED
      BY <1>5, <2>3, <3>1, <3>2, <3>3 DEF Sound
  <2>5. Busy(p)' /\ ~Unflushed(p)' /\ pc'[p] # "grant" /\ \A q \in Proc \ {p} : ~Busy(q)'
    BY <1>1, <1>3, <2>1 DEF Busy, Unflushed, Apart
  <2>6. Readable' /\ Read' = Read
    BY <1>3, <2>1 DEF Readable, Read
  <2>7. Sound(Read)'
    <3>1. Reserved' <= r
      BY <1>2, <1>6, <1>7, <2>2
    <3>2. sent' + Unused' <= c + r + forgotten'
      <4> DEFINE f2 == forgotten'
                 u2 == Unused'
      <4>1. f2 = forgotten + o /\ u2 = Unused - a + u
        BY <1>3, <1>7
      <4> HIDE DEF f2, u2
      <4>2. sent + u2 <= c + r + f2
        BY <1>2, <1>6, <2>2, <4>1
      <4>3. QED
        BY <1>3, <4>2 DEF f2, u2
    <3>3. QED
      BY <2>2, <2>6, <3>1, <3>2 DEF Sound, c, r
  <2>8. QED
    BY <2>4, <2>5, <2>6, <2>7, LoneBooks
<1>9. QED
  BY <1>4, <1>8 DEF Books

LEMMA TruncateBooks ==
    ASSUME BudgetInv, Base', Counted', Spares, NEW p \in Proc, Truncate(p)
    PROVE  Books'
<1>1. Apart(p)
  BY StepApart DEF BudgetInv, Step, Update
<1>2. pc[p] \in {"grant", "settle"}
  BY DEF Truncate, BudgetInv, Base, Holder
<1>3. /\ pc'[p] \in {"granted", "settled"} /\ file' = <<>>
      /\ UNCHANGED <<buffer, lost>>
  BY DEF Truncate, Goto, BudgetInv, Base, Types, RunsOK, history
<1>4. ASSUME ~lost' PROVE Books'
  <2>1. Busy(p) /\ Sound(buffer[p]) /\ \A q \in Proc \ {p} : ~Busy(q)
    BY <1>2, <1>3, <1>4 DEF BudgetInv, Books, Busy
  <2>2. Busy(p)' /\ pc'[p] \notin {"grant", "settle"} /\ \A q \in Proc \ {p} : ~Busy(q)'
    BY <1>1, <1>3, <2>1 DEF Busy, Apart
  <2>3. Readable'
    BY <1>3, EmptySeq DEF Readable
  <2>4. Sound(buffer[p])'
    <3>1. buffer[p] \in Doc /\ buffer'[p] = buffer[p]
      BY <1>3, BookTypes DEF BudgetInv
    <3>2. QED
      BY <2>1, <3>1, SoundMoves DEF Sound
  <2>5. QED
    BY <1>3, <2>2, <2>3, <2>4, LoneBooks
<1>5. QED
  BY <1>4 DEF Books

LEMMA CloseBooks ==
    ASSUME BudgetInv, Base', Counted', Spares, NEW p \in Proc, Close(p)
    PROVE  Books'
<1>1. Apart(p)
  BY StepApart DEF BudgetInv, Step, Update
<1>2. /\ pc'[p] \in {"scan", "idle"} /\ file' = Append(file, buffer[p]) /\ lost' = lost
      /\ Unflushed(p)
  BY DEF Close, Goto, BudgetInv, Base, Types, RunsOK, history
<1>3. ASSUME ~lost' PROVE Books'
  <2>1. Busy(p) /\ Sound(buffer[p]) /\ file = <<>> /\ \A q \in Proc \ {p} : ~Busy(q)
    BY <1>2, <1>3 DEF BudgetInv, Books, Busy, Unflushed
  <2>2. \A q \in Proc : ~Busy(q)'
    BY <1>1, <1>2, <2>1 DEF Busy, Apart
  <2>3. buffer[p] \in Doc
    BY BookTypes DEF BudgetInv
  <2>4. Len(file') = 1 /\ file'[1] = buffer[p] /\ file' # <<>>
    BY <1>2, <2>1, <2>3
  <2>5. Readable' /\ Read' = buffer[p]
    BY <2>4 DEF Readable, Read
  <2>6. Sound(Read)'
    BY <2>1, <2>3, <2>5, SoundMoves DEF Sound
  <2>7. QED
    BY <2>2, <2>5, <2>6, IdleBooks
<1>4. QED
  BY <1>3 DEF Books

\* A kill before the file is truncated leaves the document that was read.
LEMMA KilledBooks ==
    ASSUME BudgetInv, Base', Fits', Counted', Spares, NEW p \in Proc, Killed(p)
    PROVE  Books'
<1>1. Apart(p)
  BY StepApart DEF BudgetInv, Step
<1>2. pc'[p] = "idle" /\ file' = file /\ lost' = (lost \/ Unflushed(p))
  BY DEF Killed, Goto, BudgetInv, Base, Types, RunsOK
<1>3. CASE ~Busy(p)
  <2>1. ~Busy(p)'
    BY <1>2 DEF Busy
  <2>2. QED
    BY <1>1, <1>2, <1>3, <2>1, CalmBooks
<1>4. ASSUME Busy(p), ~lost' PROVE Books'
  <2>1. /\ ~lost /\ pc[p] \in {"grant", "settle"} /\ Readable /\ Sound(buffer[p])
        /\ \A q \in Proc \ {p} : ~Busy(q)
    BY <1>2, <1>4 DEF BudgetInv, Books, Busy, Unflushed
  <2>2. \A q \in Proc : ~Busy(q)'
    BY <1>1, <1>2, <2>1 DEF Busy, Apart
  <2>3. Readable' /\ Read' = Read /\ Read \in Doc
    BY <1>2, <2>1, BookTypes DEF Readable, Read, BudgetInv
  <2>4. CASE pc[p] = "settle"
    <3>1. Sound(Read)
      BY <2>1, <2>4 DEF BudgetInv, Books
    <3>2. Sound(Read)'
      BY <2>3, <3>1, SoundMoves DEF Sound
    <3>3. QED
      BY <2>2, <2>3, <3>2, IdleBooks
  <2>5. CASE pc[p] = "grant"
    <3> DEFINE a == alloc[p]
               c == Read.consumed
               r == Read.reserved
               r2 == Reserved'
               u2 == Unused'
    <3>1. child[p] = "none" /\ used[p] = 0
      BY <2>5 DEF BudgetInv, Base, Parent, Fits, FitsAt, Fresh
    <3>2. /\ alloc'[p] = 0 /\ used'[p] = 0
          /\ UNCHANGED <<sent, forgotten>>
      BY <3>1 DEF Killed, Ended, BudgetInv, Base, Types, RunsOK
    <3>3. /\ buffer[p].consumed = c /\ buffer[p].reserved = r + a
      BY <2>1, <2>5 DEF BudgetInv, Books
    <3>4. /\ Counted'
          /\ Reserved' + alloc[p] = Reserved + alloc'[p]
          /\ Unused' + (alloc[p] - used[p]) = Unused + (alloc'[p] - used'[p])
      BY <1>1, SumsMove DEF BudgetInv
    <3>5. /\ Reserved <= r + a
          /\ sent + Unused <= c + (r + a) + forgotten
          /\ c + (r + a) <= Budget
      BY <2>1, <3>3 DEF Sound
    <3>6. r2 + a = Reserved + 0 /\ u2 + (a - 0) = Unused + (0 - 0)
      BY <3>1, <3>2, <3>4
    <3>7. r2 \in Nat /\ u2 \in Nat
      BY <3>4, FS_CardinalityType DEF Counted, Reserved, Unused
    <3>8. /\ Reserved \in Nat /\ Unused \in Nat /\ sent \in Nat /\ forgotten \in Nat
          /\ a \in Nat /\ c \in Nat /\ r \in Nat
      BY <2>3, SumTypes, DocFields DEF BudgetInv, Base, Types, RunsOK
    <3> HIDE DEF a, c, r, r2, u2
    <3>9. r2 <= r /\ sent + u2 <= c + r + forgotten /\ c + r <= Budget
      BY <3>5, <3>6, <3>7, <3>8
    <3>10. Sound(Read)'
      BY <2>3, <3>2, <3>9 DEF Sound, c, r, r2, u2
    <3>11. QED
      BY <2>2, <2>3, <3>10, IdleBooks
  <2>6. QED
    BY <2>1, <2>4, <2>5
<1>5. QED
  BY <1>3, <1>4 DEF Books

LEMMA BudgetStep ==
    ASSUME BudgetInv, NEW p \in Proc, Step(p)
    PROVE  BudgetInv'
<1>1. Base' /\ Fits' /\ Locked' /\ Apart(p)
  BY BaseNext, FitsNext, LockedNext, StepApart DEF BudgetInv, Next
<1>2. CASE Allocate(p)
  BY <1>1, <1>2, AllocateBooks DEF BudgetInv
<1>3. CASE Finalize(p)
  BY <1>1, <1>3, FinalizeBooks DEF BudgetInv
<1>4. ASSUME ~Allocate(p), ~Finalize(p) PROVE Counted' /\ Spares
  BY <1>1, <1>4, MostStepsSpare
<1>5. ASSUME ~Allocate(p), ~Finalize(p) PROVE Books'
  <2>1. Counted' /\ Spares
    BY <1>4, <1>5
  <2>2. CASE Truncate(p)
    BY <1>1, <2>1, <2>2, TruncateBooks
  <2>3. CASE Close(p)
    BY <1>1, <2>1, <2>3, CloseBooks
  <2>4. CASE Killed(p)
    BY <1>1, <2>1, <2>4, KilledBooks
  <2>5. CASE Unreadable(p) \/ Launch(p) \/ Scan(p) \/ Start(p) \/ StartFails(p)
    <3>1. file' = file /\ lost' = lost /\ ~Busy(p) /\ ~Busy(p)'
      BY <2>5 DEF Unreadable, Launch, Scan, Start, StartFails, Goto, Busy, ledger, history,
         BudgetInv, Base, Types, RunsOK
    <3>2. QED
      BY <1>1, <2>1, <3>1, CalmBooks
  <2>6. CASE Work(p)
    <3>1. /\ file' = file /\ buffer' = buffer /\ lost' = lost
          /\ \/ pc[p] = "wait" /\ pc'[p] = "finalize"
             \/ pc' = pc /\ alloc'[p] = alloc[p]
             \/ child[p] # "none" /\ pc' = pc
      BY <2>6 DEF Work, Claim, Attempt, AttemptSucceeds, AttemptFails, MarkSuccess, MarkSkipped,
         Derive, WorkEnds, WorkFails, Timeout, OrphanEnds, Mark, Resume, Goto, ledger, history, result,
         BudgetInv, Base, Types, RunsOK
    <3>2. CASE pc[p] = "wait" /\ pc'[p] = "finalize"
      BY <1>1, <2>1, <3>1, <3>2, CalmBooks DEF Busy
    <3>3. CASE pc' = pc /\ alloc'[p] = alloc[p]
      BY <1>1, <2>1, <3>1, <3>3, CalmBooks
    <3>4. CASE child[p] # "none" /\ pc' = pc
      <4>1. ~Busy(p) /\ ~Busy(p)'
        BY <3>4 DEF Busy, BudgetInv, Base, Parent
      <4>2. QED
        BY <1>1, <2>1, <3>1, <4>1, CalmBooks
    <3>5. QED
      BY <3>1, <3>2, <3>3, <3>4
  <2>7. QED
    BY <1>5, <2>2, <2>3, <2>4, <2>5, <2>6 DEF Step, Update
<1>6. QED
  BY <1>1, <1>2, <1>3, <1>4, <1>5 DEF BudgetInv

LEMMA BudgetNext == BudgetInv /\ [Next]_vars => BudgetInv'
<1> SUFFICES ASSUME BudgetInv, [Next]_vars PROVE BudgetInv'
  OBVIOUS
<1>1. CASE UNCHANGED <<ledger, pc, alloc, used, sent, forgotten, lost>>
  <2>1. Base' /\ Fits'
    BY BaseNext, FitsNext DEF BudgetInv
  <2>2. Counted' /\ Locked'
    BY <1>1 DEF BudgetInv, Counted, Cells, Zeros, Locked, ledger
  <2>3. Books'
    BY <1>1 DEF BudgetInv, Books, Busy, Unflushed, Readable, Read, Sound, Reserved, Unused,
       Cells, Zeros, ledger
  <2>4. QED
    BY <2>1, <2>2, <2>3 DEF BudgetInv
<1>2. CASE \E p \in Proc : Step(p)
  BY <1>2, BudgetStep
<1>3. QED
  BY <1>1, <1>2 DEF Next, Ages, vars, result, history

LEMMA BudgetInit == Init => BudgetInv
<1> SUFFICES ASSUME Init PROVE BudgetInv
  OBVIOUS
<1>1. Base /\ Fits /\ Locked
  BY TypeInit, FitsInit DEF Init, Locked
<1>2. alloc \in [Proc -> Nat] /\ (\A p \in Proc : alloc[p] = 0) /\ used = alloc /\ Zeros = alloc
  BY DEF Init, Zeros
<1>3. Counted /\ Reserved = 0 /\ Unused = 0
  BY <1>2, NoCells DEF Counted, Reserved, Unused
<1>4. file = <<>> /\ Read = [consumed |-> 0, reserved |-> 0] /\ sent = 0 /\ forgotten = 0
  BY DEF Init, Read, Empty
<1>5. Sound(Read)
  BY <1>3, <1>4 DEF Sound
<1>6. Readable
  BY <1>4 DEF Readable
<1>7. \A p \in Proc : pc[p] = "idle"
  BY DEF Init
<1>8. Books
  BY <1>5, <1>6, <1>7 DEF Books, Busy, Unflushed
<1>9. QED
  BY <1>1, <1>3, <1>8 DEF BudgetInv

LEMMA BooksBalance == BudgetInv => BudgetHolds
<1> SUFFICES ASSUME BudgetInv, ~lost PROVE sent <= Budget + forgotten
  BY DEF BudgetHolds
<1>1. \E doc \in Doc : Sound(doc)
  <2>1. CASE \A p \in Proc : ~Busy(p)
    BY <2>1, BookTypes DEF BudgetInv, Books
  <2>2. CASE \E p \in Proc : Busy(p)
    BY <2>2, BookTypes DEF BudgetInv, Books
  <2>3. QED
    BY <2>1, <2>2
<1>2. PICK doc \in Doc : Sound(doc)
  BY <1>1
<1>3. sent \in Nat /\ forgotten \in Nat /\ Unused \in Nat /\ doc.consumed \in Nat /\ doc.reserved \in Nat
  BY SumTypes, DocFields DEF BudgetInv, Base, Types, RunsOK
<1>4. sent + Unused <= doc.consumed + doc.reserved + forgotten /\ doc.consumed + doc.reserved <= Budget
  BY <1>2 DEF Sound
<1>5. QED
  BY <1>3, <1>4

\* However runs overlap, are killed and settled, no more jobs are requested than
\* the budget of the day and what settled runs are said not to have attempted,
\* unless an update of the ledger was lost (_update_ledger,
\* allocate_daily_backfill_quota, finalize_daily_backfill_quota).
THEOREM BudgetKeptUpTo == Spec => []BudgetHolds
<1>1. Init => BudgetInv
  BY BudgetInit
<1>2. BudgetInv /\ [Next]_vars => BudgetInv'
  BY BudgetNext
<1>3. BudgetInv => BudgetHolds
  BY BooksBalance
<1>4. QED
  BY <1>1, <1>2, <1>3, PTL DEF Spec
================================================================================
