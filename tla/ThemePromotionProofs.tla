-------------------------- MODULE ThemePromotionProofs --------------------------
(***************************************************************************)
(* Theorems about ThemePromotion, for every number of promoters, runs,     *)
(* calls, reviews and head repairs: the artifact first, then what the      *)
(* ledgers of the runs say of it.                                          *)
(***************************************************************************)
EXTENDS ThemePromotion, FiniteSetTheorems, TLAPS

USE ConstantsAssumption DEF Absent, None

Event == Review \cup Audit

Steps == {"idle", "package", "recover", "replace", "commit", "restore", "rollback"}

--------------------------------------------------------------------------------
(* Type correctness. *)

\* The part of TypeOK about the promotion calls.
CallsOK ==
    /\ calls \in 0 .. MaxCalls
    /\ pc \in [Proc -> Steps]
    /\ run \in [Proc -> Run \cup {None}]
    /\ expected \in [Proc -> Artifact]
    /\ todo \in [Proc -> SUBSET Run]
    /\ prepared \in [Proc -> Promotion]

\* The part about the ledgers and the validations without a lock.
LedgersOK ==
    /\ ledger \in [Run -> Seq(Event)]
    /\ head \in [Run -> Nat]
    /\ repairs \in 0 .. MaxRepairs
    /\ validating \in {<<>>} \cup (Run \X Nat)

EvidenceOK ==
    /\ target \in Artifact
    /\ told \subseteq Item \X Row
    /\ overtaken \subseteq Run

LEMMA TypeParts == TypeOK <=> CallsOK /\ LedgersOK /\ EvidenceOK
BY DEF TypeOK, CallsOK, LedgersOK, EvidenceOK, Steps, Event

LEMMA NextTypeParts == CallsOK' /\ LedgersOK' /\ EvidenceOK' => TypeOK'
BY DEF TypeOK, CallsOK, LedgersOK, EvidenceOK, Steps, Event

LEMMA NoRowsType == NoRows \in Artifact /\ <<NoRows, NoRows>> \in Promotion
BY DEF NoRows, Artifact, Promotion

LEMMA AddedType == ASSUME NEW r \in Run PROVE Added(r) \in Artifact
<1>1. \A i \in Promotable(r) : Decided(r, Len(ledger[r]), i) \in Row
  BY DEF Promotable, Accepted
<1>2. QED
  BY <1>1 DEF Added, Artifact

LEMMA AfterType == ASSUME NEW id \in Promotion PROVE After(id) \in Artifact
<1>1. id[1] \in Artifact /\ id[2] \in Artifact
  BY DEF Promotion
<1>2. QED
  BY <1>1 DEF After, Before, Rows, Artifact

LEMMA LeaveTypes ==
    ASSUME CallsOK, NEW p \in Proc, Leave(p)
    PROVE  CallsOK'
BY NoRowsType DEF CallsOK, Leave, Steps

\* Writing an event of the right type keeps the types of the ledgers.
LEMMA LogTypes ==
    ASSUME LedgersOK, NEW r \in Run, NEW event \in Event, NEW anchor \in Nat,
           Log(r, event, anchor), UNCHANGED <<repairs, validating>>
    PROVE  LedgersOK'
<1>1. Append(ledger[r], event) \in Seq(Event)
  BY DEF LedgersOK
<1>2. ledger' \in [Run -> Seq(Event)]
  BY <1>1 DEF LedgersOK, Log
<1>3. head' \in [Run -> Nat]
  BY DEF LedgersOK, Log
<1>4. QED
  BY <1>2, <1>3 DEF LedgersOK

\* The three ways an append is written.
LEMMA LogsTypes ==
    ASSUME LedgersOK, NEW r \in Run, NEW event \in Event,
           LogOk(r, event) \/ LogRaisesAfterValidation(r, event) \/ LogRaises(r, event),
           UNCHANGED <<repairs, validating>>
    PROVE  LedgersOK'
<1>1. Len(ledger[r]) \in Nat /\ head[r] \in Nat
  BY DEF LedgersOK
<1>2. PICK anchor \in Nat : Log(r, event, anchor)
  BY <1>1 DEF LogOk, LogRaisesAfterValidation, LogRaises
<1>3. QED
  BY <1>2, LogTypes

LEMMA StatusEventType ==
    ASSUME NEW status \in {"prepared", "committed", "failed", "rolled_back"},
           NEW id \in Promotion
    PROVE  [kind |-> status, id |-> id] \in Event
BY DEF Event, Audit

LEMMA LogStatusTypes ==
    ASSUME LedgersOK, NEW r \in Run, NEW id \in Promotion,
           NEW status \in {"prepared", "committed", "failed", "rolled_back"},
           LogStatus(r, id, status), UNCHANGED <<repairs, validating>>
    PROVE  LedgersOK'
<1>1. CASE UNCHANGED <<ledger, head>>
  BY <1>1 DEF LedgersOK
<1>2. CASE \/ LogOk(r, [kind |-> status, id |-> id])
           \/ LogRaises(r, [kind |-> status, id |-> id])
  BY <1>2, LogsTypes, StatusEventType
<1>3. QED
  BY <1>1, <1>2 DEF LogStatus

\* Whoever prepares, replaces or takes back promotes a run.
Promoting == \A p \in Proc : pc[p] # "idle" => run[p] \in Run

LEMMA ReviewTypes ==
    ASSUME TypeOK, NEW r \in Run, NEW i \in Item, NEW d \in Decision,
           ReviewCandidate(r, i, d)
    PROVE  TypeOK'
<1>1. [kind |-> "review", item |-> i, decision |-> d] \in Event
  BY DEF Event, Review
<1>2. LedgersOK'
  BY <1>1, LogsTypes, TypeParts DEF ReviewCandidate
<1>3. CallsOK' /\ EvidenceOK'
  BY TypeParts DEF ReviewCandidate, CallsOK, EvidenceOK
<1>4. QED
  BY <1>2, <1>3, NextTypeParts

LEMMA ValidateTypes ==
    ASSUME TypeOK, ValidateRepairs \/ \E r \in Run : ValidateReads(r)
    PROVE  TypeOK'
<1>1. CallsOK' /\ EvidenceOK'
  BY TypeParts DEF ValidateReads, ValidateRepairs, CallsOK, EvidenceOK
<1>2. CASE ValidateRepairs
  <2>1. validating[1] \in Run /\ validating[2] \in Nat
    BY <1>2, TypeParts DEF ValidateRepairs, LedgersOK
  <2>2. LedgersOK'
    BY <1>2, <2>1, TypeParts DEF ValidateRepairs, LedgersOK
  <2>3. QED
    BY <1>1, <2>2, NextTypeParts
<1>3. ASSUME NEW r \in Run, ValidateReads(r) PROVE TypeOK'
  <2>1. <<r, Len(ledger[r])>> \in Run \X Nat
    BY TypeParts DEF LedgersOK
  <2>2. LedgersOK'
    BY <1>3, <2>1, TypeParts DEF ValidateReads, LedgersOK
  <2>3. QED
    BY <1>1, <2>2, NextTypeParts
<1>4. QED
  BY <1>2, <1>3

LEMMA OutstandingTypes ==
    ASSUME LedgersOK, NEW r \in Run
    PROVE  Outstanding(r) \subseteq Promotion
<1>1. ASSUME NEW j \in 1 .. Len(ledger[r]), ledger[r][j].kind # "review"
      PROVE  ledger[r][j].id \in Promotion
  <2>1. ledger[r][j] \in Event
    BY DEF LedgersOK
  <2>2. QED
    BY <1>1, <2>1 DEF Event, Review, Audit
<1>2. QED
  BY <1>1 DEF Outstanding, Promotions

LEMMA RecoverTypes ==
    ASSUME TypeOK, NEW p \in Proc, NEW r \in Run, NEW id \in Outstanding(r),
           Recover(p, r, id)
    PROVE  TypeOK'
<1> DEFINE event == [kind |-> Resolution(r, id), id |-> id]
<1>1. Resolution(r, id) \in {"committed", "failed", "rolled_back"}
  BY DEF Resolution, Recover
<1>2. id \in Promotion
  BY OutstandingTypes, TypeParts
<1>3. event \in Event
  BY <1>1, <1>2, StatusEventType
<1>4. LogOk(r, event) \/ LogRaisesAfterValidation(r, event)
  BY DEF Recover
<1>5. LedgersOK'
  BY <1>3, <1>4, LogsTypes, TypeParts DEF Recover
<1>6. CASE Leave(p)
  BY <1>5, <1>6, LeaveTypes, TypeParts, NextTypeParts DEF Recover, EvidenceOK
<1>7. CASE /\ todo' = IF Outstanding(r) = {id} THEN [todo EXCEPT ![p] = @ \ {r}] ELSE todo
           /\ UNCHANGED <<calls, pc, run, expected, prepared>>
  <2>1. CallsOK'
    BY <1>7, TypeParts DEF CallsOK
  <2>2. QED
    BY <1>5, <2>1, TypeParts, NextTypeParts DEF Recover, EvidenceOK
<1>8. QED
  BY <1>6, <1>7 DEF Recover

LEMMA PrepareTypes ==
    ASSUME TypeOK, Promoting, NEW p \in Proc, Prepare(p)
    PROVE  TypeOK'
<1> DEFINE id == <<target, Added(run[p])>>
           event == [kind |-> "prepared", id |-> id]
<1>1. run[p] \in Run
  BY DEF Prepare, Promoting
<1>2. id \in Promotion
  BY <1>1, AddedType, TypeParts DEF EvidenceOK, Promotion
<1>3. event \in Event
  BY <1>2, StatusEventType
<1>4. LogOk(run[p], event) \/ LogRaisesAfterValidation(run[p], event)
  BY DEF Prepare
<1>5. LedgersOK'
  BY <1>1, <1>3, <1>4, LogsTypes, TypeParts DEF Prepare
<1>6. CASE Leave(p)
  BY <1>5, <1>6, LeaveTypes, TypeParts, NextTypeParts DEF Prepare, EvidenceOK
<1>7. CASE /\ pc' = [pc EXCEPT ![p] = "replace"]
           /\ prepared' = [prepared EXCEPT ![p] = id]
           /\ UNCHANGED <<calls, run, expected, todo>>
  <2>1. CallsOK'
    BY <1>2, <1>7, TypeParts DEF CallsOK, Steps
  <2>2. QED
    BY <1>5, <2>1, TypeParts, NextTypeParts DEF Prepare, EvidenceOK
<1>8. QED
  BY <1>6, <1>7 DEF Prepare

\* The steps of a call that only move it on, or that write a status.
LEMMA MoveTypes ==
    ASSUME TypeOK, NEW p \in Proc, NEW r \in Run,
           Start(p, r) \/ NothingToRecover(p, r)
    PROVE  TypeOK'
<1>1. CASE Start(p, r)
  BY <1>1, TypeParts, NextTypeParts DEF Start, CallsOK, LedgersOK, EvidenceOK, Steps
<1>2. CASE NothingToRecover(p, r)
  <2>1. Len(ledger[r]) \in Nat
    BY TypeParts DEF LedgersOK
  <2>2. QED
    BY <1>2, <2>1, TypeParts, NextTypeParts DEF NothingToRecover, CallsOK, LedgersOK, EvidenceOK
<1>3. QED
  BY <1>1, <1>2

LEMMA TakeTypes == ASSUME TypeOK, NEW p \in Proc, TakePackageLock(p) PROVE TypeOK'
BY TypeParts, NextTypeParts DEF TakePackageLock, CallsOK, LedgersOK, EvidenceOK, Steps

LEMMA SwitchTypes ==
    ASSUME TypeOK, NEW p \in Proc, Replace(p) \/ Restore(p)
    PROVE  TypeOK'
<1>1. prepared[p] \in Promotion
  BY TypeParts DEF CallsOK
<1>2. After(prepared[p]) \in Artifact /\ Before(prepared[p]) \in Artifact
  BY <1>1, AfterType DEF Promotion, Before
<1>3. CASE Replace(p)
  BY <1>2, <1>3, TypeParts, NextTypeParts DEF Replace, CallsOK, LedgersOK, EvidenceOK, Steps
<1>4. CASE Restore(p)
  BY <1>2, <1>4, TypeParts, NextTypeParts DEF Restore, CallsOK, LedgersOK, EvidenceOK, Steps
<1>5. QED
  BY <1>3, <1>4

LEMMA EndTypes ==
    ASSUME TypeOK, Promoting, NEW p \in Proc,
           ReplaceFails(p) \/ Commit(p) \/ CommitFails(p) \/ RollBack(p) \/ Stop(p)
    PROVE  TypeOK'
<1>1. prepared[p] \in Promotion
  BY TypeParts DEF CallsOK
<1>2. CASE ReplaceFails(p)
  <2>1. LedgersOK'
    BY <1>1, <1>2, LogStatusTypes, TypeParts DEF ReplaceFails, Promoting
  <2>2. QED
    BY <1>2, <2>1, LeaveTypes, TypeParts, NextTypeParts DEF ReplaceFails, EvidenceOK
<1>3. CASE Commit(p)
  <2>1. [kind |-> "committed", id |-> prepared[p]] \in Event
    BY <1>1, StatusEventType
  <2>2. LedgersOK'
    BY <1>3, <2>1, LogsTypes, TypeParts DEF Commit, Promoting
  <2>3. Rows(prepared[p]) \in Artifact
    BY <1>1 DEF Promotion, Rows
  <2>4. told' \subseteq Item \X Row
    BY <1>3, <2>3, TypeParts DEF Commit, EvidenceOK, Candidates, Artifact
  <2>5. QED
    BY <1>3, <2>2, <2>4, LeaveTypes, TypeParts, NextTypeParts DEF Commit, EvidenceOK
<1>4. CASE CommitFails(p)
  <2>1. [kind |-> "committed", id |-> prepared[p]] \in Event
    BY <1>1, StatusEventType
  <2>2. LedgersOK'
    BY <1>4, <2>1, LogsTypes, TypeParts DEF CommitFails, Promoting, LedgersOK
  <2>3. QED
    BY <1>4, <2>2, TypeParts, NextTypeParts DEF CommitFails, EvidenceOK, CallsOK, Steps
<1>5. CASE RollBack(p)
  <2>1. LedgersOK'
    BY <1>1, <1>5, LogStatusTypes, TypeParts DEF RollBack, Promoting
  <2>2. QED
    BY <1>5, <2>1, LeaveTypes, TypeParts, NextTypeParts DEF RollBack, EvidenceOK
<1>6. CASE Stop(p)
  <2>1. LedgersOK' /\ EvidenceOK'
    BY <1>6, TypeParts DEF Stop, LedgersOK, EvidenceOK
  <2>2. QED
    BY <1>6, <2>1, LeaveTypes, TypeParts, NextTypeParts DEF Stop
<1>7. QED
  BY <1>2, <1>3, <1>4, <1>5, <1>6

LEMMA PromotingNext ==
    ASSUME TypeOK, Promoting, [Next]_vars
    PROVE  Promoting'
<1>1. ASSUME NEW p \in Proc, Promoter(p) PROVE Promoting'
  BY <1>1, TypeParts
  DEF Promoter, Start, TakePackageLock, NothingToRecover, Recover, Prepare, Replace,
      ReplaceFails, Commit, CommitFails, Restore, RollBack, Stop, Leave, Promoting, CallsOK
<1>2. CASE UNCHANGED <<pc, run>>
  BY <1>2 DEF Promoting
<1>3. QED
  BY <1>1, <1>2 DEF Next, ReviewCandidate, ValidateReads, ValidateRepairs, vars

LEMMA TypeNext ==
    ASSUME TypeOK, Promoting, [Next]_vars
    PROVE  TypeOK'
<1>1. ASSUME NEW p \in Proc, Promoter(p) PROVE TypeOK'
  BY <1>1, MoveTypes, TakeTypes, RecoverTypes, PrepareTypes, SwitchTypes, EndTypes DEF Promoter
<1>2. CASE UNCHANGED vars
  BY <1>2 DEF TypeOK, vars
<1>3. QED
  BY <1>1, <1>2, ReviewTypes, ValidateTypes DEF Next

LEMMA TypeInit == Init => TypeOK /\ Promoting
<1>1. SUFFICES ASSUME Init PROVE TypeOK /\ Promoting
  OBVIOUS
<1>2. CallsOK /\ EvidenceOK
  BY <1>1, NoRowsType DEF Init, CallsOK, EvidenceOK, Steps
<1>3. LedgersOK
  BY <1>1 DEF Init, LedgersOK
<1>4. QED
  BY <1>1, <1>2, <1>3, TypeParts DEF Init, Promoting

\* The state of the promotion keeps its types.
THEOREM TypeCorrect == Spec => []TypeOK
<1>1. TypeOK /\ Promoting /\ [Next]_vars => TypeOK' /\ Promoting'
  BY TypeNext, PromotingNext
<1>2. QED
  BY <1>1, TypeInit, PTL DEF Spec

--------------------------------------------------------------------------------
(* The evidence: what the holder of the package lock is doing to it. *)

Inside(p) == pc[p] \notin {"idle", "package"}

OneHolder == \A p, q \in Proc : Inside(p) /\ Inside(q) => p = q

\* The promotion adds rows where there were none, and claims with their sources.
Additive(id) ==
    /\ \A i \in Candidates(id) : Before(id)[i] = Absent
    /\ Store!Supported(After(id))

\* From the prepared event on, the holder knows what the artifact is.
Holding ==
    \A p \in Proc :
        /\ pc[p] \in {"replace", "rollback"} => target = Before(prepared[p])
        /\ pc[p] \in {"commit", "restore"} => target = After(prepared[p])
        /\ pc[p] \in {"replace", "commit", "restore", "rollback"} => Additive(prepared[p])

\* What the store has promised.
Promised ==
    /\ Store!Supported(Published)
    /\ \A t \in told : Published[t[1]] = t[2]

Undecided == {"commit", "restore"}

LEMMA PublishedIsBefore ==
    ASSUME OneHolder, NEW p \in Proc, pc[p] \in Undecided
    PROVE  Published = Before(prepared[p])
<1> DEFINE undecided == {q \in Proc : pc[q] \in {"commit", "restore"}}
<1>1. undecided = {p}
  BY DEF OneHolder, Inside, Undecided
<1>2. (CHOOSE q \in undecided : TRUE) = p
  BY <1>1
<1>3. QED
  BY <1>1, <1>2 DEF Published

LEMMA PublishedIsBeforeNext ==
    ASSUME OneHolder', NEW p \in Proc, pc'[p] \in Undecided
    PROVE  Published' = Before(prepared'[p])
<1> DEFINE undecided == {q \in Proc : pc'[q] \in {"commit", "restore"}}
<1>1. undecided = {p}
  BY DEF OneHolder, Inside, Undecided
<1>2. (CHOOSE q \in undecided : TRUE) = p
  BY <1>1
<1>3. QED
  BY <1>1, <1>2 DEF Published, Before

LEMMA PublishedIsTarget ==
    ASSUME \A p \in Proc : pc[p] \notin Undecided
    PROVE  Published = target
BY DEF Published, Undecided

LEMMA PublishedIsTargetNext ==
    ASSUME \A p \in Proc : pc'[p] \notin Undecided
    PROVE  Published' = target'
BY DEF Published, Undecided

\* A step of one call from and to a place where nothing is undecided about it.
LEMMA QuietStep ==
    ASSUME TypeOK, OneHolder, OneHolder', NEW p \in Proc,
           pc[p] \notin Undecided, pc'[p] \notin Undecided,
           \A q \in Proc \ {p} : pc'[q] = pc[q] /\ prepared'[q] = prepared[q],
           target' = target
    PROVE  Published' = Published
<1>1. CASE \E q \in Proc : pc[q] \in Undecided
  <2>1. PICK q \in Proc : pc[q] \in Undecided
    BY <1>1
  <2>2. Published = Before(prepared[q]) /\ Published' = Before(prepared'[q])
    BY <2>1, PublishedIsBefore, PublishedIsBeforeNext
  <2>3. QED
    BY <2>1, <2>2
<1>2. CASE \A q \in Proc : pc[q] \notin Undecided
  <2>1. \A q \in Proc : pc'[q] \notin Undecided
    BY <1>2
  <2>2. QED
    BY <1>2, <2>1, PublishedIsTarget, PublishedIsTargetNext
<1>3. QED
  BY <1>1, <1>2

LEMMA OneHolderNext ==
    ASSUME TypeOK, OneHolder, [Next]_vars
    PROVE  OneHolder'
<1>1. ASSUME NEW p \in Proc, Promoter(p) PROVE OneHolder'
  <2>1. pc' = [pc EXCEPT ![p] = pc'[p]]
    BY <1>1, TypeParts
    DEF Promoter, Start, TakePackageLock, NothingToRecover, Recover, Prepare, Replace,
        ReplaceFails, Commit, CommitFails, Restore, RollBack, Stop, Leave, CallsOK
  <2>2. CASE Inside(p) \/ pc'[p] \in {"idle", "package"}
    BY <2>1, <2>2, TypeParts DEF OneHolder, Inside, CallsOK
  <2>3. CASE \A q \in Proc : ~Inside(q)
    BY <2>1, <2>3, TypeParts DEF OneHolder, Inside, CallsOK
  <2>4. Inside(p) \/ pc'[p] \in {"idle", "package"} \/ \A q \in Proc : ~Inside(q)
    BY <1>1, TypeParts
    DEF Promoter, Start, TakePackageLock, NothingToRecover, Recover, Prepare, Replace,
        ReplaceFails, Commit, CommitFails, Restore, RollBack, Stop, Leave, CallsOK,
        Inside, PackageLocked
  <2>5. QED
    BY <2>2, <2>3, <2>4
<1>2. CASE UNCHANGED pc
  BY <1>2 DEF OneHolder, Inside
<1>3. QED
  BY <1>1, <1>2 DEF Next, ReviewCandidate, ValidateReads, ValidateRepairs, vars

\* What a run adds: only absent rows, and no claim without its source.  The
\* blocking of claims and the refusal of collisions are both needed.
LEMMA AddedIsAdditive ==
    ASSUME NEW r \in Run, target \in Artifact, Store!Supported(target), ~Collision(r)
    PROVE  Additive(<<target, Added(r)>>)
<1> DEFINE id == <<target, Added(r)>>
           decided(i) == Decided(r, Len(ledger[r]), i)
<1>1. Before(id) = target /\ Rows(id) = Added(r)
  BY DEF Before, Rows
<1>2. \A i \in Promotable(r) : decided(i) \in Row
  BY DEF Promotable, Accepted
<1>3. "absent" \notin Row
  BY DEF Row
<1>4. \A i \in Candidates(id) : target[i] = Absent /\ i \in Promotable(r)
  BY <1>1 DEF Candidates, Added
<1>5. \A i \in Item : After(id)[i] = IF i \in Promotable(r) /\ target[i] = Absent
                                    THEN decided(i) ELSE target[i]
  <2>1. \A i \in Item : After(id)[i] =
            IF Added(r)[i] = Absent THEN target[i] ELSE Added(r)[i]
    BY <1>1 DEF After
  <2>2. QED
    BY <1>2, <1>3, <2>1 DEF Added
<1>6. Source \in Promotable(r) => After(id)[Source] = decided(Source)
  BY <1>5 DEF Collision, Item
<1>7. ASSUME NEW c \in Item \ {Source}
      PROVE  /\ After(id)[c] # Absent => After(id)[Source] # Absent
             /\ After(id)[c] = "accept_reviewed" => After(id)[Source] = "accept_draft"
  <2>1. CASE target[c] # Absent
    <3>1. After(id)[c] = target[c]
      BY <1>5, <2>1
    <3>2. target[Source] # Absent
      BY <2>1 DEF Store!Supported, Store!Absent
    <3>3. After(id)[Source] = target[Source]
      BY <1>5, <3>2 DEF Item
    <3>4. QED
      BY <2>1, <3>1, <3>2, <3>3 DEF Store!Supported, Store!Absent
  <2>2. CASE target[c] = Absent /\ c \notin Promotable(r)
    BY <1>5, <2>2
  <2>3. CASE target[c] = Absent /\ c \in Promotable(r)
    <3>1. c = r /\ ~Blocked(r)
      BY <2>3, <1>7 DEF Promotable, Accepted
    <3>2. After(id)[c] = decided(r)
      BY <1>5, <2>3, <3>1
    <3>3. Source \in Accepted(r) => Source \in Promotable(r)
      BY DEF Promotable
    <3>4. Source \in Accepted(r) => After(id)[Source] = decided(Source) /\ decided(Source) \in Row
      BY <1>2, <1>6, <3>3
    <3>5. target[Source] # Absent => After(id)[Source] = target[Source]
      BY <1>5 DEF Item
    <3>6. CASE decided(r) = "accept_reviewed"
      <4>1. \/ target[Source] = "accept_draft"
            \/ Source \in Accepted(r) /\ decided(Source) = "accept_draft"
        BY <3>1, <3>6 DEF Blocked
      <4>2. After(id)[Source] = "accept_draft"
        BY <3>4, <3>5, <4>1
      <4>3. QED
        BY <4>2
    <3>7. CASE decided(r) # "accept_reviewed"
      <4>1. target[Source] # Absent \/ Source \in Accepted(r)
        BY <3>1, <3>7 DEF Blocked
      <4>2. After(id)[Source] # Absent
        BY <1>3, <3>4, <3>5, <4>1
      <4>3. QED
        BY <3>2, <3>7, <4>2
    <3>8. QED
      BY <3>6, <3>7
  <2>4. QED
    BY <2>1, <2>2, <2>3
<1>8. Store!Supported(After(id))
  BY <1>7 DEF Store!Supported, Store!Absent
<1>9. QED
  BY <1>1, <1>4, <1>8 DEF Additive

EvidenceInv == TypeOK /\ Promoting /\ OneHolder /\ Holding /\ Promised

\* The steps that change neither the artifact nor what a call holds.
LEMMA HoldingMoves ==
    ASSUME TypeOK, Holding, NEW p \in Proc,
           target' = target,
           \A q \in Proc \ {p} : pc'[q] = pc[q] /\ prepared'[q] = prepared[q],
           pc'[p] \in {"idle", "package", "recover"}
    PROVE  Holding'
BY DEF Holding

\* Another call inside means that this one is outside.
LEMMA OthersOutside ==
    ASSUME OneHolder, NEW p \in Proc, Inside(p)
    PROVE  \A q \in Proc \ {p} : pc[q] \in {"idle", "package"}
BY DEF OneHolder, Inside

LEMMA HoldingNext ==
    ASSUME EvidenceInv, NEW p \in Proc, Promoter(p)
    PROVE  Holding'
<1>1. prepared[p] \in Promotion /\ pc \in [Proc -> Steps]
  BY TypeParts DEF EvidenceInv, CallsOK
<1>2. CASE \/ \E r \in Run : Start(p, r) \/ NothingToRecover(p, r)
           \/ TakePackageLock(p) \/ ReplaceFails(p) \/ Commit(p) \/ RollBack(p) \/ Stop(p)
           \/ \E r \in Run : \E id \in Outstanding(r) : Recover(p, r, id)
  <2>1. /\ target' = target
        /\ \A q \in Proc \ {p} : pc'[q] = pc[q] /\ prepared'[q] = prepared[q]
        /\ pc'[p] \in {"idle", "package", "recover"}
    BY <1>2, TypeParts
    DEF Start, TakePackageLock, NothingToRecover, Recover, ReplaceFails, Commit, RollBack,
        Stop, Leave, EvidenceInv, CallsOK
  <2>2. QED
    BY <2>1, HoldingMoves DEF EvidenceInv
<1>3. CASE Prepare(p)
  <2>1. \A q \in Proc \ {p} : pc[q] \in {"idle", "package"}
    BY <1>3, OthersOutside DEF Prepare, EvidenceInv, Inside
  <2>2. Store!Supported(target)
    <3>1. Published = target
      BY <1>3, <2>1, PublishedIsTarget DEF Prepare, Undecided
    <3>2. QED
      BY <3>1 DEF EvidenceInv, Promised
  <2>3. Additive(<<target, Added(run[p])>>)
    BY <1>3, <2>2, AddedIsAdditive, TypeParts
    DEF Prepare, EvidenceInv, EvidenceOK, Promoting
  <2>4. CASE Leave(p)
    <3>1. /\ target' = target
          /\ \A q \in Proc \ {p} : pc'[q] = pc[q] /\ prepared'[q] = prepared[q]
          /\ pc'[p] \in {"idle", "package", "recover"}
      BY <1>3, <2>4, TypeParts DEF Prepare, Leave, EvidenceInv, CallsOK
    <3>2. QED
      BY <3>1, HoldingMoves DEF EvidenceInv
  <2>5. CASE /\ pc' = [pc EXCEPT ![p] = "replace"]
             /\ prepared' = [prepared EXCEPT ![p] = <<target, Added(run[p])>>]
    <3>1. /\ pc'[p] = "replace"
          /\ prepared'[p] = <<target, Added(run[p])>>
          /\ \A q \in Proc \ {p} : pc'[q] \in {"idle", "package"}
          /\ target' = target
      BY <1>3, <2>1, <2>5, TypeParts DEF Prepare, EvidenceInv, CallsOK
    <3>2. Before(prepared'[p]) = target
      BY <3>1 DEF Before
    <3>3. QED
      BY <2>3, <3>1, <3>2 DEF Holding, Additive, Candidates, After, Before, Rows
  <2>6. QED
    BY <1>3, <2>4, <2>5 DEF Prepare
<1>4. CASE Replace(p) \/ CommitFails(p) \/ Restore(p)
  <2>1. \A q \in Proc \ {p} : pc[q] \in {"idle", "package"}
    BY <1>4, OthersOutside DEF Replace, CommitFails, Restore, EvidenceInv, Inside
  <2>2. prepared' = prepared /\ \A q \in Proc \ {p} : pc'[q] = pc[q]
    BY <1>1, <1>4 DEF Replace, CommitFails, Restore
  <2>3. Additive(prepared[p])
    BY <1>4 DEF Replace, CommitFails, Restore, EvidenceInv, Holding
  <2>4. CASE Replace(p)
    <3>1. pc'[p] = "commit" /\ target' = After(prepared[p])
      BY <1>1, <2>4 DEF Replace
    <3>2. QED
      BY <2>1, <2>2, <2>3, <3>1 DEF Holding
  <2>5. CASE CommitFails(p)
    <3>1. pc'[p] = "restore" /\ target' = After(prepared[p])
      BY <1>1, <2>5 DEF CommitFails, EvidenceInv, Holding
    <3>2. QED
      BY <2>1, <2>2, <2>3, <3>1 DEF Holding
  <2>6. CASE Restore(p)
    <3>1. pc'[p] = "rollback" /\ target' = Before(prepared[p])
      BY <1>1, <2>6 DEF Restore
    <3>2. QED
      BY <2>1, <2>2, <2>3, <3>1 DEF Holding
  <2>7. QED
    BY <1>4, <2>4, <2>5, <2>6
<1>5. QED
  BY <1>2, <1>3, <1>4 DEF Promoter

--------------------------------------------------------------------------------
(* The refinement: every step promotes in the store or leaves it as it is. *)

Stutters == UNCHANGED <<Published, told>>

\* A promotion that becomes final adds its rows to what was published.
LEMMA Finalises ==
    ASSUME EvidenceInv, NEW p \in Proc, pc[p] \in Undecided,
           Published' = After(prepared[p]),
           told \subseteq told',
           told' \subseteq told \cup {<<i, Rows(prepared[p])[i]>> : i \in Candidates(prepared[p])}
    PROVE  Store!Promote
<1>1. Published = Before(prepared[p]) /\ Additive(prepared[p])
  BY PublishedIsBefore DEF EvidenceInv, Holding, Undecided
<1>2. prepared[p] \in Promotion
  BY TypeParts DEF EvidenceInv, CallsOK
<1>3. Published' \in Store!Artifact
  BY <1>2, AfterType DEF Artifact, Store!Artifact, Store!Absent
<1>4. \A i \in Item : Published[i] # Absent => Published'[i] = Published[i]
  BY <1>1 DEF Additive, Candidates, After
<1>5. Store!Supported(Published')
  BY <1>1 DEF Additive
<1>6. ASSUME NEW t \in told' PROVE Published'[t[1]] = t[2]
  <2>1. CASE t \in told
    <3>1. t[1] \in Item /\ t[2] \in Row /\ Published[t[1]] = t[2]
      BY <2>1, TypeParts DEF EvidenceInv, EvidenceOK, Promised
    <3>2. t[2] # Absent
      BY <3>1 DEF Row
    <3>3. QED
      BY <1>4, <3>1, <3>2
  <2>2. CASE t \in {<<i, Rows(prepared[p])[i]>> : i \in Candidates(prepared[p])}
    BY <2>2 DEF After, Candidates
  <2>3. QED
    BY <1>6, <2>1, <2>2
<1>7. QED
  BY <1>3, <1>4, <1>5, <1>6 DEF Store!Promote, Store!Absent

\* What readers see changes only when a replacement becomes final.
LEMMA PublishedMoves ==
    ASSUME EvidenceInv, OneHolder', NEW p \in Proc, Promoter(p)
    PROVE  \/ Published' = Published
           \/ /\ pc[p] \in Undecided
              /\ Commit(p) \/ Stop(p)
              /\ Published = Before(prepared[p])
              /\ Published' = After(prepared[p])
<1>1. prepared[p] \in Promotion /\ pc \in [Proc -> Steps]
  BY TypeParts DEF EvidenceInv, CallsOK
<1>2. CASE pc[p] \notin Undecided /\ ~Replace(p)
  <2>1. /\ target' = target
        /\ \A q \in Proc \ {p} : pc'[q] = pc[q] /\ prepared'[q] = prepared[q]
        /\ pc'[p] \notin Undecided
    BY <1>2, TypeParts
    DEF Promoter, Start, TakePackageLock, NothingToRecover, Recover, Prepare, ReplaceFails, Commit,
        CommitFails, Restore, RollBack, Stop, Leave, EvidenceInv, CallsOK, Undecided
  <2>2. QED
    BY <1>2, <2>1, QuietStep DEF EvidenceInv
<1>3. CASE Replace(p)
  <2>1. \A q \in Proc \ {p} : pc[q] \in {"idle", "package"}
    BY <1>3, OthersOutside DEF Replace, EvidenceInv, Inside
  <2>2. Published = target
    BY <1>3, <2>1, PublishedIsTarget DEF Replace, Undecided
  <2>3. pc'[p] \in Undecided
    BY <1>1, <1>3 DEF Replace, Undecided
  <2>4. Published' = Before(prepared[p])
    BY <1>3, <2>3, PublishedIsBeforeNext DEF Replace
  <2>5. QED
    BY <1>3, <2>2, <2>4 DEF Replace, EvidenceInv, Holding
<1>4. CASE pc[p] \in Undecided
  <2>1. Published = Before(prepared[p])
    BY <1>4, PublishedIsBefore DEF EvidenceInv
  <2>2. CASE CommitFails(p)
    <3>1. pc'[p] \in Undecided
      BY <1>1, <2>2 DEF CommitFails, Undecided
    <3>2. Published' = Before(prepared[p])
      BY <2>2, <3>1, PublishedIsBeforeNext DEF CommitFails
    <3>3. QED
      BY <2>1, <3>2
  <2>3. CASE Commit(p) \/ Restore(p) \/ Stop(p)
    <3>1. \A q \in Proc \ {p} : pc[q] \in {"idle", "package"}
      BY <1>4, OthersOutside DEF EvidenceInv, Inside, Undecided
    <3>2. \A q \in Proc : pc'[q] \notin Undecided
      BY <1>1, <2>3, <3>1 DEF Commit, Restore, Stop, Leave, Undecided
    <3>3. Published' = target'
      BY <3>2, PublishedIsTargetNext
    <3>4. CASE Restore(p)
      BY <2>1, <3>3, <3>4 DEF Restore
    <3>5. CASE Commit(p) \/ Stop(p)
      BY <1>4, <2>1, <3>3, <3>5 DEF Commit, Stop, EvidenceInv, Holding, Undecided
    <3>6. QED
      BY <2>3, <3>4, <3>5
  <2>4. CommitFails(p) \/ Commit(p) \/ Restore(p) \/ Stop(p)
    BY <1>4
    DEF Promoter, Undecided, Start, NothingToRecover, Recover, TakePackageLock, Prepare, Replace,
        ReplaceFails, RollBack
  <2>5. QED
    BY <2>2, <2>3, <2>4
<1>5. QED
  BY <1>2, <1>3, <1>4

LEMMA PromoterMaps ==
    ASSUME EvidenceInv, OneHolder', NEW p \in Proc, Promoter(p)
    PROVE  Store!Promote \/ Stutters
<1>1. CASE Published' = Published /\ ~Commit(p)
  <2>1. told' = told
    BY <1>1
    DEF Promoter, Start, TakePackageLock, NothingToRecover, Recover, Prepare, Replace,
        ReplaceFails, CommitFails, Restore, RollBack, Stop
  <2>2. QED
    BY <1>1, <2>1 DEF Stutters
<1>2. CASE Published' = After(prepared[p]) /\ pc[p] \in Undecided /\ (Commit(p) \/ Stop(p))
  BY <1>2, Finalises DEF Commit, Stop
<1>3. CASE Published' = Published /\ Commit(p)
  <2>1. \A q \in Proc \ {p} : pc[q] \in {"idle", "package"}
    BY <1>3, OthersOutside DEF Commit, EvidenceInv, Inside
  <2>2. \A q \in Proc : pc'[q] \notin Undecided
    BY <1>3, <2>1, TypeParts DEF Commit, Leave, Undecided, EvidenceInv, CallsOK
  <2>3. Published' = After(prepared[p])
    BY <1>3, <2>2, PublishedIsTargetNext DEF Commit, EvidenceInv, Holding
  <2>4. QED
    BY <1>2, <1>3, <2>3 DEF Commit, Undecided
<1>4. QED
  BY <1>1, <1>2, <1>3, PublishedMoves

LEMMA StepMaps ==
    ASSUME EvidenceInv, OneHolder', [Next]_vars
    PROVE  Store!Promote \/ Stutters
<1>1. CASE UNCHANGED <<target, pc, prepared, told>>
  BY <1>1 DEF Published, Stutters, Before
<1>2. QED
  BY <1>1, PromoterMaps DEF Next, ReviewCandidate, ValidateReads, ValidateRepairs, vars

LEMMA PromisedNext ==
    ASSUME Promised, Store!Promote \/ Stutters
    PROVE  Promised'
<1>1. CASE Store!Promote
  BY <1>1 DEF Store!Promote, Promised, Store!Supported, Store!Absent
<1>2. CASE Stutters
  BY <1>2 DEF Stutters, Promised, Store!Supported, Store!Absent
<1>3. QED
  BY <1>1, <1>2

LEMMA EvidenceInit == Init => EvidenceInv /\ Store!Init
<1>1. SUFFICES ASSUME Init PROVE EvidenceInv /\ Store!Init
  OBVIOUS
<1>2. \A p \in Proc : pc[p] = "idle"
  BY <1>1 DEF Init
<1>3. Published = NoRows /\ told = {}
  BY <1>1, <1>2, PublishedIsTarget DEF Init, Undecided
<1>4. Store!Init
  BY <1>3 DEF Store!Init, Store!Absent, NoRows
<1>5. Promised
  BY <1>3 DEF Promised, Store!Supported, Store!Absent, NoRows
<1>6. OneHolder /\ Holding
  BY <1>2 DEF OneHolder, Inside, Holding
<1>7. QED
  BY <1>1, <1>4, <1>5, <1>6, TypeInit DEF EvidenceInv

LEMMA EvidenceStep ==
    ASSUME EvidenceInv, [Next]_vars
    PROVE  EvidenceInv' /\ (Store!Promote \/ Stutters)
<1>1. TypeOK' /\ Promoting' /\ OneHolder'
  BY TypeNext, PromotingNext, OneHolderNext DEF EvidenceInv
<1>2. Store!Promote \/ Stutters
  BY <1>1, StepMaps
<1>3. Promised'
  BY <1>2, PromisedNext DEF EvidenceInv
<1>4. Holding'
  <2>1. CASE UNCHANGED <<target, pc, prepared>>
    BY <2>1 DEF EvidenceInv, Holding
  <2>2. QED
    BY <2>1, HoldingNext DEF Next, ReviewCandidate, ValidateReads, ValidateRepairs, vars
<1>5. QED
  BY <1>1, <1>2, <1>3, <1>4 DEF EvidenceInv

\* Promotions, with their failures, kills, rollbacks and recoveries, refine the
\* evidence store: rows are only added, never without support, never changed or
\* taken back, and what a call reported as promoted stays.
THEOREM EvidenceOnlyGrows == Spec => AddsEvidence
<1>1. EvidenceInv /\ [Next]_vars => EvidenceInv' /\ [Store!Next]_<<Published, told>>
  BY EvidenceStep DEF Store!Next, Stutters
<1>2. Init => EvidenceInv /\ Store!Init
  BY EvidenceInit
<1>3. QED
  BY <1>1, <1>2, PTL DEF Spec, AddsEvidence, Store!Spec

--------------------------------------------------------------------------------
(* Reading a ledger that grows.                                            *)

\* A nonempty set of positions has a last one.
LEMMA LastPosition ==
    ASSUME NEW n \in Nat, NEW S \in SUBSET (1 .. n), S # {}
    PROVE  \E j \in S : \A i \in S : i <= j
<1> DEFINE above(j) == {i \in S : i > j}
           T == {above(j) : j \in S}
<1>1. IsFiniteSet(S)
  <2>1. IsFiniteSet(1 .. n)
    BY FS_Interval
  <2>2. QED
    BY <2>1, FS_Subset
<1>2. T \subseteq FiniteSubsetsOf(S) /\ T # {}
  <2>1. \A j \in S : above(j) \in SUBSET S /\ IsFiniteSet(above(j))
    BY <1>1, FS_Subset
  <2>2. \A j \in S : above(j) \in FiniteSubsetsOf(S)
    <3> HIDE DEF above
    <3> QED
      BY <2>1 DEF FiniteSubsetsOf
  <2> HIDE DEF above
  <2>3. T # {}
    <3>1. PICK j : j \in S
      OBVIOUS
    <3>2. above(j) \in T
      BY <3>1
    <3>3. QED
      BY <3>2
  <2>4. QED
    BY <2>2, <2>3
<1>3. PICK U \in T : \A V \in T : <<V, U>> \notin StrictSubsetOrdering(S)
  <2> HIDE DEF T
  <2> QED
    BY <1>2, FS_StrictSubsetOrderingWellFounded, WFMin
<1>4. PICK j \in S : U = above(j)
  OBVIOUS
<1>5. ASSUME NEW i \in S, i > j PROVE FALSE
  <2>1. above(i) \in T
    OBVIOUS
  <2>2. above(i) \subseteq U /\ i \in U /\ i \notin above(i)
    <3>1. \A k \in S : k \in Int
      OBVIOUS
    <3>2. U = {k \in S : k > j} /\ above(i) = {k \in S : k > i}
      BY <1>4
    <3> HIDE DEF above, T
    <3>3. i \in U
      BY <1>5, <3>2
    <3>4. i \notin above(i)
      BY <3>1, <3>2
    <3>5. ASSUME NEW k \in above(i) PROVE k \in S /\ k > j
      <4>1. k \in S /\ k > i
        BY <3>2
      <4>2. k \in Int /\ i \in Int /\ j \in Int
        BY <3>1, <4>1
      <4>3. QED
        BY <1>5, <4>1, <4>2
    <3>6. QED
      BY <3>2, <3>3, <3>4, <3>5
  <2>3. <<above(i), U>> \in StrictSubsetOrdering(S)
    BY <1>4, <2>2 DEF StrictSubsetOrdering
  <2>4. QED
    BY <1>3, <2>1, <2>3
<1>6. QED
  BY <1>5

LEMMA LatestOf ==
    ASSUME NEW n \in Nat, NEW S \in SUBSET (1 .. n), S # {}
    PROVE  Latest(S) \in S
BY LastPosition DEF Latest

\* Nothing that is in the ledger of q is lost or changed by a step.
Kept(q) ==
    /\ Len(ledger[q]) <= Len(ledger'[q])
    /\ \A j \in 1 .. Len(ledger[q]) : ledger'[q][j] = ledger[q][j]

LEMMA LogKeeps ==
    ASSUME LedgersOK, NEW r \in Run, NEW event \in Event, NEW anchor,
           Log(r, event, anchor)
    PROVE  /\ \A q \in Run \ {r} : ledger'[q] = ledger[q]
           /\ Len(ledger'[r]) = Len(ledger[r]) + 1
           /\ ledger'[r][Len(ledger[r]) + 1] = event
           /\ \A q \in Run : Kept(q)
<1>1. \A q \in Run : ledger[q] \in Seq(Event) /\ Len(ledger[q]) \in Nat
  BY DEF LedgersOK
<1>2. ledger'[r] = Append(ledger[r], event) /\ \A q \in Run \ {r} : ledger'[q] = ledger[q]
  BY DEF Log, LedgersOK
<1>3. /\ Len(ledger'[r]) = Len(ledger[r]) + 1
      /\ ledger'[r][Len(ledger[r]) + 1] = event
      /\ \A j \in 1 .. Len(ledger[r]) : ledger'[r][j] = ledger[r][j]
  BY <1>1, <1>2
<1>4. \A q \in Run \ {r} : Kept(q)
  BY <1>1, <1>2 DEF Kept
<1>5. Kept(r)
  BY <1>1, <1>3 DEF Kept
<1>6. QED
  BY <1>2, <1>3, <1>4, <1>5

\* What the first k events say is said for ever.
LEMMA PrefixStays ==
    ASSUME LedgersOK, NEW q \in Run, Kept(q), NEW k \in 0 .. Len(ledger[q])
    PROVE  /\ Promotions(q, k)' = Promotions(q, k)
           /\ \A id \in Promotions(q, k) : Status(q, k, id)' = Status(q, k, id)
           /\ \A i : Decided(q, k, i)' = Decided(q, k, i)
<1>1. Len(ledger[q]) \in Nat /\ k \in Nat
  BY DEF LedgersOK
<1>2. \A j \in 1 .. k : ledger'[q][j] = ledger[q][j]
  BY <1>1 DEF Kept
<1>3. Promotions(q, k)' = Promotions(q, k)
  BY <1>2 DEF Promotions
<1>4. ASSUME NEW id \in Promotions(q, k) PROVE Status(q, k, id)' = Status(q, k, id)
  <2>1. Audits(q, k, id)' = Audits(q, k, id)
    BY <1>2 DEF Audits
  <2>2. Audits(q, k, id) \in SUBSET (1 .. k) /\ Audits(q, k, id) # {}
    BY DEF Audits, Promotions
  <2>3. Latest(Audits(q, k, id)) \in 1 .. k
    BY <1>1, <2>2, LatestOf
  <2>4. QED
    BY <1>2, <2>1, <2>3 DEF Status
<1>5. ASSUME NEW i PROVE Decided(q, k, i)' = Decided(q, k, i)
  <2>1. Reviews(q, k, i)' = Reviews(q, k, i)
    BY <1>2 DEF Reviews
  <2>2. CASE Reviews(q, k, i) = {}
    BY <2>1, <2>2 DEF Decided
  <2>3. CASE Reviews(q, k, i) # {}
    <3>1. Reviews(q, k, i) \in SUBSET (1 .. k)
      BY DEF Reviews
    <3>2. Latest(Reviews(q, k, i)) \in 1 .. k
      BY <1>1, <2>3, <3>1, LatestOf
    <3>3. QED
      BY <1>2, <2>1, <2>3, <3>2 DEF Decided
  <2>4. QED
    BY <2>2, <2>3
<1>6. QED
  BY <1>3, <1>4, <1>5

--------------------------------------------------------------------------------
(* What a ledger says as a whole, and how a step changes that. *)

\* What the ledger of a run says: its promotions, the status of each, and the
\* latest decision on a candidate.
Ids(r) == Promotions(r, Len(ledger[r]))
Last(r, id) == Status(r, Len(ledger[r]), id)
Now(r, i) == Decided(r, Len(ledger[r]), i)

StatusKind == {"prepared", "committed", "failed", "rolled_back"}

\* The ledger of q says the same after a step.
Same(q) ==
    /\ Ids(q)' = Ids(q)
    /\ \A id \in Ids(q) : Last(q, id)' = Last(q, id)
    /\ \A i \in Item : Now(q, i)' = Now(q, i)

\* The step wrote status s of promotion id into the ledger of r.
Wrote(r, id, s) ==
    /\ Ids(r)' = Ids(r) \cup {id}
    /\ Last(r, id)' = s
    /\ \A jd \in Ids(r) \ {id} : Last(r, jd)' = Last(r, jd)
    /\ \A i \in Item : Now(r, i)' = Now(r, i)
    /\ \A q \in Run \ {r} : Same(q)

\* The step wrote a review of candidate i into the ledger of r.
Reviewed(r, i) ==
    /\ Ids(r)' = Ids(r)
    /\ \A id \in Ids(r) : Last(r, id)' = Last(r, id)
    /\ \A j \in Item \ {i} : Now(r, j)' = Now(r, j)
    /\ \A q \in Run \ {r} : Same(q)

LEMMA IdsTypes ==
    ASSUME LedgersOK, NEW r \in Run
    PROVE  /\ Ids(r) \subseteq Promotion
           /\ \A id \in Ids(r) : Last(r, id) \in StatusKind
<1>1. \A j \in 1 .. Len(ledger[r]) : ledger[r][j] \in Event
  BY DEF LedgersOK
<1>2. \A e \in Event : e.kind # "review" => e.id \in Promotion /\ e.kind \in StatusKind
  BY DEF Event, Review, Audit, StatusKind
<1>3. Ids(r) \subseteq Promotion
  BY <1>1, <1>2 DEF Ids, Promotions
<1>4. ASSUME NEW id \in Ids(r) PROVE Last(r, id) \in StatusKind
  <2>1. Len(ledger[r]) \in Nat
    BY DEF LedgersOK
  <2>2. /\ Audits(r, Len(ledger[r]), id) \in SUBSET (1 .. Len(ledger[r]))
        /\ Audits(r, Len(ledger[r]), id) # {}
    BY DEF Audits, Ids, Promotions
  <2>3. Latest(Audits(r, Len(ledger[r]), id)) \in Audits(r, Len(ledger[r]), id)
    BY <2>1, <2>2, LatestOf
  <2>4. QED
    BY <1>1, <1>2, <2>3 DEF Last, Status, Audits
<1>5. QED
  BY <1>3, <1>4

LEMMA SameLedger ==
    ASSUME NEW q \in Run, ledger'[q] = ledger[q]
    PROVE  Same(q)
<1>1. Ids(q)' = Ids(q)
  BY DEF Ids, Promotions
<1>2. \A id : Last(q, id)' = Last(q, id)
  BY DEF Last, Status, Audits
<1>3. \A i : Now(q, i)' = Now(q, i)
  BY DEF Now, Decided, Reviews
<1>4. QED
  BY <1>1, <1>2, <1>3 DEF Same

\* The latest of a set of positions to which a later position is added.
LEMMA LatestAdded ==
    ASSUME NEW n \in Nat, NEW S \in SUBSET (1 .. n)
    PROVE  Latest(S \cup {n + 1}) = n + 1
<1> DEFINE T == S \cup {n + 1}
<1>1. n + 1 \in T /\ \A i \in T : i <= n + 1
  OBVIOUS
<1>2. ASSUME NEW j \in T, \A i \in T : i <= j PROVE j = n + 1
  BY <1>2
<1> HIDE DEF T
<1>3. Latest(T) = n + 1
  BY <1>1, <1>2 DEF Latest
<1>4. QED
  BY <1>3 DEF T

LEMMA AuditWritten ==
    ASSUME LedgersOK, NEW r \in Run, NEW id \in Promotion, NEW s \in StatusKind, NEW anchor,
           Log(r, [kind |-> s, id |-> id], anchor)
    PROVE  Wrote(r, id, s)
<1> DEFINE event == [kind |-> s, id |-> id]
           audits(k, jd) == {j \in 1 .. k : ledger'[r][j].kind # "review" /\ ledger'[r][j].id = jd}
           reviews(k, i) == {j \in 1 .. k : ledger'[r][j].kind = "review" /\ ledger'[r][j].item = i}
<1>0. PICK n \in Nat : n = Len(ledger[r])
  BY DEF LedgersOK
<1>1. event \in Event
  BY DEF Event, Audit, StatusKind
<1>2. /\ \A q \in Run \ {r} : ledger'[q] = ledger[q]
      /\ Len(ledger'[r]) = n + 1
      /\ ledger'[r][n + 1] = event
      /\ Kept(r)
  BY <1>0, <1>1, LogKeeps
<1>3. n \in Nat
  OBVIOUS
<1>4. \A j \in 1 .. n : ledger'[r][j] = ledger[r][j]
  BY <1>0, <1>2 DEF Kept
<1>5. \A j \in 1 .. n + 1 : j \in 1 .. n \/ j = n + 1
  BY <1>3
<1>5a. 1 .. n \subseteq 1 .. n + 1 /\ n + 1 \in 1 .. n + 1 /\ n + 1 \notin 1 .. n
  BY <1>3
<1>5b. event.kind # "review" /\ event.kind = s /\ event.id = id
  BY DEF StatusKind
<1> HIDE DEF event
<1>6. Ids(r)' = Ids(r) \cup {id}
  <2>1. Ids(r)' = {ledger'[r][j].id : j \in {j \in 1 .. n + 1 : ledger'[r][j].kind # "review"}}
    BY <1>2 DEF Ids, Promotions
  <2>2. Ids(r) = {ledger[r][j].id : j \in {j \in 1 .. n : ledger[r][j].kind # "review"}}
    BY <1>0 DEF Ids, Promotions
  <2>3. {j \in 1 .. n + 1 : ledger'[r][j].kind # "review"}
            = {j \in 1 .. n : ledger[r][j].kind # "review"} \cup {n + 1}
    BY <1>2, <1>4, <1>5, <1>5a, <1>5b
  <2> DEFINE old == {j \in 1 .. n : ledger[r][j].kind # "review"}
  <2>4. Ids(r)' = {ledger'[r][j].id : j \in old \cup {n + 1}}
    BY <2>1, <2>3
  <2>5. Ids(r)' = {ledger'[r][j].id : j \in old} \cup {id}
    <3> HIDE DEF old
    <3>1. ledger'[r][n + 1].id = id
      BY <1>2, <1>5b
    <3>2. QED
      BY <2>4, <3>1
  <2>6. \A j \in old : ledger'[r][j].id = ledger[r][j].id
    BY <1>4
  <2>7. QED
    BY <2>2, <2>5, <2>6
<1>7. Last(r, id)' = s
  <2>1. audits(n + 1, id) = Audits(r, n, id) \cup {n + 1}
    BY <1>2, <1>4, <1>5, <1>5a, <1>5b DEF Audits
  <2>2. Audits(r, n, id) \in SUBSET (1 .. n)
    BY DEF Audits
  <2>3. Latest(audits(n + 1, id)) = n + 1
    BY <1>3, <2>1, <2>2, LatestAdded
  <2>4. Last(r, id)' = ledger'[r][Latest(audits(n + 1, id))].kind
    BY <1>2 DEF Last, Status, Audits
  <2>5. QED
    BY <1>2, <1>5b, <2>3, <2>4
<1>8. ASSUME NEW jd \in Ids(r) \ {id} PROVE Last(r, jd)' = Last(r, jd)
  <2>1. audits(n + 1, jd) = Audits(r, n, jd)
    BY <1>2, <1>4, <1>5, <1>5a, <1>5b, <1>8 DEF Audits
  <2>2. Audits(r, n, jd) \in SUBSET (1 .. n) /\ Audits(r, n, jd) # {}
    BY <1>0 DEF Audits, Ids, Promotions
  <2>3. Latest(Audits(r, n, jd)) \in 1 .. n
    BY <1>3, <2>2, LatestOf
  <2>4. Last(r, jd)' = ledger'[r][Latest(audits(n + 1, jd))].kind
    BY <1>2 DEF Last, Status, Audits
  <2>5. Last(r, jd) = ledger[r][Latest(Audits(r, n, jd))].kind
    BY <1>0 DEF Last, Status
  <2>6. QED
    BY <1>4, <2>1, <2>3, <2>4, <2>5
<1>9. ASSUME NEW i PROVE Now(r, i)' = Now(r, i)
  <2>1. reviews(n + 1, i) = Reviews(r, n, i)
    BY <1>2, <1>4, <1>5, <1>5a, <1>5b DEF Reviews
  <2>2. Now(r, i)' = IF reviews(n + 1, i) = {} THEN None
                     ELSE ledger'[r][Latest(reviews(n + 1, i))].decision
    BY <1>2 DEF Now, Decided, Reviews
  <2>3. Now(r, i) = IF Reviews(r, n, i) = {} THEN None
                    ELSE ledger[r][Latest(Reviews(r, n, i))].decision
    BY <1>0 DEF Now, Decided
  <2>4. Reviews(r, n, i) # {} => Latest(Reviews(r, n, i)) \in 1 .. n
    <3>1. Reviews(r, n, i) \in SUBSET (1 .. n)
      BY DEF Reviews
    <3>2. QED
      BY <1>3, <3>1, LatestOf
  <2>5. QED
    BY <1>4, <2>1, <2>2, <2>3, <2>4
<1>10. \A q \in Run \ {r} : Same(q)
  BY <1>2, SameLedger
<1>11. QED
  BY <1>6, <1>7, <1>8, <1>9, <1>10 DEF Wrote

LEMMA ReviewWritten ==
    ASSUME LedgersOK, NEW r \in Run, NEW i \in Item, NEW d \in Decision, NEW anchor,
           Log(r, [kind |-> "review", item |-> i, decision |-> d], anchor)
    PROVE  Reviewed(r, i)
<1> DEFINE event == [kind |-> "review", item |-> i, decision |-> d]
           audits(k, jd) == {j \in 1 .. k : ledger'[r][j].kind # "review" /\ ledger'[r][j].id = jd}
           reviews(k, j) == {m \in 1 .. k : ledger'[r][m].kind = "review" /\ ledger'[r][m].item = j}
<1>0. PICK n \in Nat : n = Len(ledger[r])
  BY DEF LedgersOK
<1>1. event \in Event
  BY DEF Event, Review
<1>2. /\ \A q \in Run \ {r} : ledger'[q] = ledger[q]
      /\ Len(ledger'[r]) = n + 1
      /\ ledger'[r][n + 1] = event
      /\ Kept(r)
  BY <1>0, <1>1, LogKeeps
<1>3. n \in Nat
  OBVIOUS
<1>4. \A j \in 1 .. n : ledger'[r][j] = ledger[r][j]
  BY <1>0, <1>2 DEF Kept
<1>5. \A j \in 1 .. n + 1 : j \in 1 .. n \/ j = n + 1
  BY <1>3
<1>5a. 1 .. n \subseteq 1 .. n + 1 /\ n + 1 \in 1 .. n + 1 /\ n + 1 \notin 1 .. n
  BY <1>3
<1>5b. event.kind = "review" /\ event.item = i
  OBVIOUS
<1> HIDE DEF event
<1>6. Ids(r)' = Ids(r)
  <2>1. Ids(r)' = {ledger'[r][j].id : j \in {j \in 1 .. n + 1 : ledger'[r][j].kind # "review"}}
    BY <1>2 DEF Ids, Promotions
  <2>2. Ids(r) = {ledger[r][j].id : j \in {j \in 1 .. n : ledger[r][j].kind # "review"}}
    BY <1>0 DEF Ids, Promotions
  <2>3. {j \in 1 .. n + 1 : ledger'[r][j].kind # "review"}
            = {j \in 1 .. n : ledger[r][j].kind # "review"}
    BY <1>2, <1>4, <1>5, <1>5a, <1>5b
  <2>4. QED
    BY <1>4, <2>1, <2>2, <2>3
<1>7. ASSUME NEW jd \in Ids(r) PROVE Last(r, jd)' = Last(r, jd)
  <2>1. audits(n + 1, jd) = Audits(r, n, jd)
    BY <1>2, <1>4, <1>5, <1>5a, <1>5b DEF Audits
  <2>2. Audits(r, n, jd) \in SUBSET (1 .. n) /\ Audits(r, n, jd) # {}
    BY <1>0 DEF Audits, Ids, Promotions
  <2>3. Latest(Audits(r, n, jd)) \in 1 .. n
    BY <1>3, <2>2, LatestOf
  <2>4. Last(r, jd)' = ledger'[r][Latest(audits(n + 1, jd))].kind
    BY <1>2 DEF Last, Status, Audits
  <2>5. Last(r, jd) = ledger[r][Latest(Audits(r, n, jd))].kind
    BY <1>0 DEF Last, Status
  <2>6. QED
    BY <1>4, <2>1, <2>3, <2>4, <2>5
<1>8. ASSUME NEW j \in Item \ {i} PROVE Now(r, j)' = Now(r, j)
  <2>1. reviews(n + 1, j) = Reviews(r, n, j)
    BY <1>2, <1>4, <1>5, <1>5a, <1>5b, <1>8 DEF Reviews
  <2>2. Now(r, j)' = IF reviews(n + 1, j) = {} THEN None
                     ELSE ledger'[r][Latest(reviews(n + 1, j))].decision
    BY <1>2 DEF Now, Decided, Reviews
  <2>3. Now(r, j) = IF Reviews(r, n, j) = {} THEN None
                    ELSE ledger[r][Latest(Reviews(r, n, j))].decision
    BY <1>0 DEF Now, Decided
  <2>4. Reviews(r, n, j) # {} => Latest(Reviews(r, n, j)) \in 1 .. n
    <3>1. Reviews(r, n, j) \in SUBSET (1 .. n)
      BY DEF Reviews
    <3>2. QED
      BY <1>3, <3>1, LatestOf
  <2>5. QED
    BY <1>4, <2>1, <2>2, <2>3, <2>4
<1>9. \A q \in Run \ {r} : Same(q)
  BY <1>2, SameLedger
<1>10. QED
  BY <1>6, <1>7, <1>8, <1>9 DEF Reviewed

--------------------------------------------------------------------------------
(* The ledgers against the artifact: at most one promotion is open, and what *)
(* readers see has its witness in a ledger.                                  *)

RowsPublished(id) == \A i \in Candidates(id) : Published[i] = Rows(id)[i]

\* A promotion that recovery would have to resolve if its call were killed.
Open(r) ==
    {id \in Ids(r) : \/ Last(r, id) = "prepared"
                     \/ Last(r, id) = "committed" /\ ~RowsPublished(id)}

\* No two promotions are open, in one run or in two.
OneOpen == \A r, q \in Run : \A id \in Open(r), jd \in Open(q) : r = q /\ id = jd

\* The artifact is what it was before the open promotion, or what that made it.
OpenKnown ==
    \A r \in Run : \A id \in Open(r) :
        /\ Additive(id)
        /\ Candidates(id) # {}
        /\ target = Before(id) \/ target = After(id)
        /\ Last(r, id) = "committed" => target = Before(id) \/ \E p \in Proc : pc[p] = "restore"

\* The call of p is between the prepare of this promotion and its last status.
Holder(p, r, id) ==
    /\ run[p] = r
    /\ prepared[p] = id
    /\ pc[p] \in {"replace", "commit", "restore", "rollback"}

\* The open promotion is the one the holder of the lock is working on, and a
\* call that recovers has not come to its run yet.
HeldOpen ==
    /\ \A p \in Proc, r \in Run, id \in Promotion : Holder(p, r, id) =>
           /\ id \in Open(r)
           /\ pc[p] \in {"replace", "commit"} => Last(r, id) = "prepared"
           /\ pc[p] # "rollback" => \A i \in Candidates(id) : Now(r, i) = Rows(id)[i]
    /\ \A p \in Proc, r \in Run : pc[p] = "recover" /\ r \notin todo[p] => Open(r) = {}

\* This promotion accounts for the row.
Witness(r, id, i) ==
    /\ id \in Ids(r)
    /\ i \in Candidates(id)
    /\ RowsPublished(id)
    /\ Last(r, id) \in {"prepared", "committed"}
    /\ Now(r, i) = Published[i]

Witnessed == \A i \in Item : Published[i] # Absent => \E r \in Run : \E id \in Ids(r) : Witness(r, id, i)

\* What readers see is never changed or withdrawn.
Grows == \A i \in Item : Published[i] # Absent => Published'[i] = Published[i]

LEMMA GrowsNext == ASSUME EvidenceInv, [Next]_vars PROVE Grows
<1>1. Store!Promote \/ Stutters
  BY EvidenceStep
<1>2. Store!Promote => Grows
  BY DEF Grows, Store!Promote, Store!Absent
<1>3. Stutters => Grows
  BY DEF Grows, Stutters
<1>4. QED
  BY <1>1, <1>2, <1>3

LEMMA RowsStay ==
    ASSUME Grows, NEW id \in Promotion, RowsPublished(id)
    PROVE  RowsPublished(id)'
<1>1. \A i \in Candidates(id) : i \in Item /\ Rows(id)[i] # Absent
  BY DEF Candidates
<1>2. QED
  BY <1>1 DEF Grows, RowsPublished, Candidates, Rows

\* The artifact holds all that readers see.
LEMMA TargetHolds ==
    ASSUME EvidenceInv
    PROVE  \A i \in Item : Published[i] # Absent => target[i] = Published[i]
<1>1. CASE \A p \in Proc : pc[p] \notin Undecided
  BY <1>1, PublishedIsTarget
<1>2. ASSUME NEW p \in Proc, pc[p] \in Undecided
      PROVE  \A i \in Item : Published[i] # Absent => target[i] = Published[i]
  <2>1. Published = Before(prepared[p])
    BY <1>2, PublishedIsBefore DEF EvidenceInv
  <2>2. target = After(prepared[p]) /\ Additive(prepared[p])
    BY <1>2 DEF EvidenceInv, Holding, Undecided
  <2>3. QED
    BY <2>1, <2>2 DEF After, Additive, Candidates
<1>3. QED
  BY <1>1, <1>2

\* No status of a promotion is written.
Quiet == \A q \in Run : Ids(q)' = Ids(q) /\ \A id \in Ids(q) : Last(q, id)' = Last(q, id)

LEMMA QuietLedger == ASSUME ledger' = ledger PROVE Quiet /\ \A r \in Run, i \in Item : Now(r, i)' = Now(r, i)
BY SameLedger DEF Quiet, Same

LEMMA OpenShrinks ==
    ASSUME LedgersOK, Grows, Quiet, NEW q \in Run
    PROVE  Open(q)' \subseteq Open(q)
<1>1. ASSUME NEW id \in Ids(q) PROVE RowsPublished(id) => RowsPublished(id)'
  BY IdsTypes, RowsStay
<1>2. QED
  BY <1>1 DEF Quiet, Open

LEMMA OpenWritten ==
    ASSUME LedgersOK, Grows, NEW r \in Run, NEW id \in Promotion, NEW s, Wrote(r, id, s)
    PROVE  /\ \A q \in Run \ {r} : Open(q)' \subseteq Open(q)
           /\ Open(r)' \subseteq Open(r) \cup {id}
           /\ id \in Open(r)' <=> (s = "prepared" \/ (s = "committed" /\ ~RowsPublished(id)'))
<1>1. ASSUME NEW q \in Run, NEW jd \in Ids(q) PROVE RowsPublished(jd) => RowsPublished(jd)'
  BY IdsTypes, RowsStay
<1>2. ASSUME NEW q \in Run \ {r} PROVE Open(q)' \subseteq Open(q)
  BY <1>1 DEF Wrote, Same, Open
<1>3. Open(r)' \subseteq Open(r) \cup {id}
  BY <1>1 DEF Wrote, Open
<1>4. id \in Open(r)' <=> (s = "prepared" \/ (s = "committed" /\ ~RowsPublished(id)'))
  BY DEF Wrote, Open
<1>5. QED
  BY <1>2, <1>3, <1>4

\* A step that ends or leaves alone what the calls hold, and writes no status.
LEMMA CalmStep ==
    ASSUME OneOpen, OpenKnown, HeldOpen, Quiet, Published' = Published, target' = target,
           \A q \in Proc : \/ pc'[q] \in {"idle", "package"}
                           \/ pc'[q] = "recover" /\ todo'[q] = Run
                           \/ /\ pc'[q] = pc[q] /\ run'[q] = run[q]
                              /\ prepared'[q] = prepared[q] /\ todo'[q] = todo[q],
           \A q \in Proc : pc[q] = "restore" => pc'[q] = "restore",
           \A r \in Run, i \in Item : RunLocked(r) => Now(r, i)' = Now(r, i)
    PROVE  OneOpen' /\ OpenKnown' /\ HeldOpen'
<1>1. \A id : RowsPublished(id)' <=> RowsPublished(id)
  BY DEF RowsPublished, Candidates, Rows
<1>2. \A q \in Run : Open(q)' = Open(q)
  BY <1>1 DEF Quiet, Open
<1>3. OneOpen'
  BY <1>2 DEF OneOpen
<1>4. OpenKnown'
  <2>1. \A q \in Run : \A id \in Open(q) : Last(q, id)' = Last(q, id)
    BY DEF Quiet, Open
  <2>2. QED
    BY <1>2, <2>1 DEF OpenKnown
<1>5. ASSUME NEW p \in Proc, NEW r \in Run, NEW id \in Promotion, Holder(p, r, id)'
      PROVE  /\ id \in Open(r)'
             /\ pc'[p] \in {"replace", "commit"} => Last(r, id)' = "prepared"
             /\ pc'[p] # "rollback" => \A i \in Candidates(id) : Now(r, i)' = Rows(id)[i]
  <2>1. Holder(p, r, id) /\ pc'[p] = pc[p] /\ RunLocked(r)
    BY <1>5 DEF Holder, RunLocked
  <2>2. /\ id \in Open(r)
        /\ pc[p] \in {"replace", "commit"} => Last(r, id) = "prepared"
        /\ pc[p] # "rollback" => \A i \in Candidates(id) : Now(r, i) = Rows(id)[i]
    BY <2>1 DEF HeldOpen
  <2>3. id \in Ids(r)
    BY <2>2 DEF Open
  <2>4. \A i \in Candidates(id) : Now(r, i)' = Now(r, i)
    BY <2>1 DEF Candidates
  <2>5. QED
    BY <1>2, <2>1, <2>2, <2>3, <2>4 DEF Quiet
<1>6. ASSUME NEW p \in Proc, NEW r \in Run, pc'[p] = "recover", r \notin todo'[p]
      PROVE  Open(r)' = {}
  BY <1>2, <1>6 DEF HeldOpen
<1>7. HeldOpen'
  BY <1>5, <1>6 DEF HeldOpen, Candidates, Rows
<1>8. QED
  BY <1>3, <1>4, <1>7

OpenInv == EvidenceInv /\ OneOpen /\ OpenKnown /\ HeldOpen

\* No status is written: a step of a call that writes nothing and keeps or
\* gives up what it holds, or one of nobody.
LEMMA CalmCall ==
    ASSUME OpenInv, OneHolder', NEW p \in Proc, Promoter(p), ledger' = ledger, target' = target,
           pc[p] \notin Undecided,
           pc'[p] \in {"idle", "package"} \/ (pc'[p] = "recover" /\ todo'[p] = Run)
    PROVE  OneOpen' /\ OpenKnown' /\ HeldOpen'
<1>1. \A q \in Proc \ {p} : /\ pc'[q] = pc[q] /\ run'[q] = run[q]
                            /\ prepared'[q] = prepared[q] /\ todo'[q] = todo[q]
  BY TypeParts
  DEF Promoter, Start, TakePackageLock, NothingToRecover, Recover, Prepare, Replace,
      ReplaceFails, Commit, CommitFails, Restore, RollBack, Stop, Leave, CallsOK,
      OpenInv, EvidenceInv
<1>2. Published' = Published
  BY <1>1, QuietStep DEF OpenInv, EvidenceInv, Undecided
<1>3. Quiet /\ \A r \in Run, i \in Item : Now(r, i)' = Now(r, i)
  BY QuietLedger
<1>4. \A q \in Proc : pc[q] = "restore" => pc'[q] = "restore"
  BY <1>1 DEF Undecided
<1>5. QED
  BY <1>1, <1>2, <1>3, <1>4, CalmStep DEF OpenInv

LEMMA ReviewOpen ==
    ASSUME OpenInv, NEW r \in Run, NEW i \in Item, NEW d \in Decision, ReviewCandidate(r, i, d)
    PROVE  OneOpen' /\ OpenKnown' /\ HeldOpen'
<1>1. PICK anchor : Log(r, [kind |-> "review", item |-> i, decision |-> d], anchor)
  BY DEF ReviewCandidate, LogOk, LogRaisesAfterValidation
<1>2. Reviewed(r, i)
  BY <1>1, ReviewWritten, TypeParts DEF OpenInv, EvidenceInv
<1>3. Quiet
  BY <1>2 DEF Reviewed, Quiet, Same
<1>4. \A q \in Run, j \in Item : RunLocked(q) => Now(q, j)' = Now(q, j)
  BY <1>2 DEF ReviewCandidate, Reviewed, Same
<1>5. Published' = Published
  BY DEF ReviewCandidate, Published, Before
<1>6. QED
  BY <1>3, <1>4, <1>5, CalmStep DEF OpenInv, ReviewCandidate

LEMMA QuietOpen ==
    ASSUME OpenInv, UNCHANGED <<ledger, target, pc, run, todo, prepared>>
    PROVE  OneOpen' /\ OpenKnown' /\ HeldOpen'
<1>1. Quiet /\ \A r \in Run, i \in Item : Now(r, i)' = Now(r, i)
  BY QuietLedger
<1>2. Published' = Published
  BY DEF Published, Before
<1>3. QED
  BY <1>1, <1>2, CalmStep DEF OpenInv

\* Nothing is left open.
LEMMA AllClosed ==
    ASSUME \A q \in Run : Open(q)' = {},
           \A q \in Proc : pc'[q] \in {"idle", "package", "recover"}
    PROVE  OneOpen' /\ OpenKnown' /\ HeldOpen'
BY DEF OneOpen, OpenKnown, HeldOpen, Holder

\* One promotion is left open, of the only call that holds anything.
LEMMA OneLeft ==
    ASSUME NEW p \in Proc, NEW r \in Run, NEW id \in Promotion,
           \A q \in Run \ {r} : Open(q)' = {},
           Open(r)' \subseteq {id},
           Additive(id), Candidates(id) # {},
           target' = Before(id) \/ target' = After(id),
           id \in Open(r)' /\ Last(r, id)' = "committed" =>
               target' = Before(id) \/ \E q \in Proc : pc'[q] = "restore",
           \A q \in Proc \ {p} : pc'[q] \in {"idle", "package"},
           \/ pc'[p] = "idle"
           \/ /\ pc'[p] \in {"replace", "commit", "restore", "rollback"}
              /\ run'[p] = r /\ prepared'[p] = id
              /\ id \in Open(r)'
              /\ pc'[p] \in {"replace", "commit"} => Last(r, id)' = "prepared"
              /\ pc'[p] # "rollback" => \A i \in Candidates(id) : Now(r, i)' = Rows(id)[i]
    PROVE  OneOpen' /\ OpenKnown' /\ HeldOpen'
<1>1. OneOpen'
  BY DEF OneOpen
<1>2. \A q \in Run : \A jd \in Open(q)' : q = r /\ jd = id
  OBVIOUS
<1>3. OpenKnown'
  BY <1>2 DEF OpenKnown
<1>4. \A q \in Proc, s \in Run, jd \in Promotion : Holder(q, s, jd)' => q = p /\ s = r /\ jd = id
  BY DEF Holder
<1>5. \A q \in Proc : pc'[q] # "recover"
  OBVIOUS
<1>6. ASSUME NEW q \in Proc, NEW s \in Run, NEW jd \in Promotion, Holder(q, s, jd)'
      PROVE  /\ jd \in Open(s)'
             /\ pc'[q] \in {"replace", "commit"} => Last(s, jd)' = "prepared"
             /\ pc'[q] # "rollback" => \A i \in Candidates(jd) : Now(s, i)' = Rows(jd)[i]
  <2>1. q = p /\ s = r /\ jd = id
    BY <1>4, <1>6
  <2>2. pc'[q] \in {"replace", "commit", "restore", "rollback"}
    BY <1>6 DEF Holder
  <2>3. QED
    BY <2>1, <2>2
<1>7. HeldOpen'
  BY <1>5, <1>6 DEF HeldOpen, Candidates, Rows
<1>8. QED
  BY <1>1, <1>3, <1>7

\* What the holder of the lock holds.
LEMMA HolderHolds ==
    ASSUME OpenInv, NEW p \in Proc, pc[p] \in {"replace", "commit", "restore", "rollback"}
    PROVE  \E r \in Run, id \in Promotion :
               /\ Holder(p, r, id)
               /\ Open(r) = {id} /\ \A q \in Run \ {r} : Open(q) = {}
               /\ id \in Ids(r)
               /\ Additive(id) /\ Candidates(id) # {}
               /\ pc[p] \in {"replace", "commit"} => Last(r, id) = "prepared"
               /\ pc[p] # "rollback" => \A i \in Candidates(id) : Now(r, i) = Rows(id)[i]
<1>1. PICK r \in Run, id \in Promotion : run[p] = r /\ prepared[p] = id
  BY TypeParts DEF OpenInv, EvidenceInv, Promoting, CallsOK
<1>2. Holder(p, r, id)
  BY <1>1 DEF Holder
<1>3. /\ id \in Open(r)
      /\ pc[p] \in {"replace", "commit"} => Last(r, id) = "prepared"
      /\ pc[p] # "rollback" => \A i \in Candidates(id) : Now(r, i) = Rows(id)[i]
  BY <1>2 DEF OpenInv, HeldOpen
<1>4. Open(r) = {id} /\ \A q \in Run \ {r} : Open(q) = {}
  BY <1>3 DEF OpenInv, OneOpen
<1>5. Additive(id) /\ Candidates(id) # {} /\ id \in Ids(r)
  BY <1>3 DEF OpenInv, OpenKnown, Open
<1>6. QED
  BY <1>2, <1>3, <1>4, <1>5

\* The others are outside, and stay there.
LEMMA OthersStay ==
    ASSUME OpenInv, NEW p \in Proc, Inside(p), Promoter(p)
    PROVE  \A q \in Proc \ {p} : pc[q] \in {"idle", "package"} /\ pc'[q] = pc[q]
<1>1. \A q \in Proc \ {p} : pc[q] \in {"idle", "package"}
  BY OthersOutside DEF OpenInv, EvidenceInv
<1>2. \A q \in Proc \ {p} : pc'[q] = pc[q]
  BY TypeParts
  DEF Promoter, Start, TakePackageLock, NothingToRecover, Recover, Prepare, Replace,
      ReplaceFails, Commit, CommitFails, Restore, RollBack, Stop, Leave, CallsOK,
      OpenInv, EvidenceInv
<1>3. QED
  BY <1>1, <1>2

\* When nothing is undecided, readers see the artifact.
LEMMA DecidedTarget ==
    ASSUME OpenInv, NEW p \in Proc, Inside(p), pc[p] \notin Undecided
    PROVE  Published = target
BY OthersOutside, PublishedIsTarget DEF OpenInv, EvidenceInv, Undecided

LEMMA DecidedTargetNext ==
    ASSUME OpenInv, NEW p \in Proc, Inside(p), Promoter(p), pc'[p] \notin Undecided
    PROVE  Published' = target'
BY OthersStay, PublishedIsTargetNext DEF Undecided

LEMMA ReplaceOpen ==
    ASSUME OpenInv, OneHolder', Grows, NEW p \in Proc, Replace(p)
    PROVE  OneOpen' /\ OpenKnown' /\ HeldOpen'
<1>0. Inside(p) /\ Promoter(p) /\ pc \in [Proc -> Steps] /\ LedgersOK
  BY TypeParts DEF Replace, Inside, Promoter, OpenInv, EvidenceInv, CallsOK
<1>1. PICK r \in Run, id \in Promotion :
               /\ Holder(p, r, id)
               /\ Open(r) = {id} /\ \A q \in Run \ {r} : Open(q) = {}
               /\ id \in Ids(r)
               /\ Additive(id) /\ Candidates(id) # {}
               /\ Last(r, id) = "prepared"
               /\ \A i \in Candidates(id) : Now(r, i) = Rows(id)[i]
  BY HolderHolds DEF Replace
<1>2. Quiet /\ \A i \in Item : Now(r, i)' = Now(r, i)
  BY QuietLedger DEF Replace
<1>3. Open(r)' \subseteq {id} /\ \A q \in Run \ {r} : Open(q)' = {}
  BY <1>0, <1>1, <1>2, OpenShrinks
<1>4. Last(r, id)' = "prepared" /\ id \in Open(r)'
  BY <1>1, <1>2 DEF Quiet, Open
<1>5. target' = After(id) /\ pc'[p] = "commit" /\ run'[p] = r /\ prepared'[p] = id
  BY <1>0, <1>1 DEF Replace, Holder
<1>6. \A i \in Candidates(id) : Now(r, i)' = Rows(id)[i]
  BY <1>1, <1>2 DEF Candidates
<1>7. \A q \in Proc \ {p} : pc'[q] \in {"idle", "package"}
  BY <1>0, OthersStay
<1>8. QED
  BY <1>1, <1>3, <1>4, <1>5, <1>6, <1>7, OneLeft

LEMMA RestoreOpen ==
    ASSUME OpenInv, OneHolder', Grows, NEW p \in Proc, Restore(p)
    PROVE  OneOpen' /\ OpenKnown' /\ HeldOpen'
<1>0. Inside(p) /\ Promoter(p) /\ pc \in [Proc -> Steps] /\ LedgersOK
  BY TypeParts DEF Restore, Inside, Promoter, OpenInv, EvidenceInv, CallsOK
<1>1. PICK r \in Run, id \in Promotion :
               /\ Holder(p, r, id)
               /\ Open(r) = {id} /\ \A q \in Run \ {r} : Open(q) = {}
               /\ Additive(id) /\ Candidates(id) # {}
  BY HolderHolds DEF Restore
<1>2. Quiet
  BY QuietLedger DEF Restore
<1>3. Open(r)' \subseteq {id} /\ \A q \in Run \ {r} : Open(q)' = {}
  BY <1>0, <1>1, <1>2, OpenShrinks
<1>4. target' = Before(id) /\ pc'[p] = "rollback" /\ run'[p] = r /\ prepared'[p] = id
  BY <1>0, <1>1 DEF Restore, Holder
<1>5. id \in Open(r)'
  <2>1. Published = Before(id)
    BY <1>1, PublishedIsBefore DEF Restore, Holder, Undecided, OpenInv, EvidenceInv
  <2>2. Published' = Before(id)
    BY <1>0, <1>4, DecidedTargetNext DEF Undecided
  <2>3. RowsPublished(id)' <=> RowsPublished(id)
    BY <2>1, <2>2 DEF RowsPublished, Candidates, Rows
  <2>4. QED
    BY <1>1, <1>2, <2>3 DEF Quiet, Open
<1>6. \A q \in Proc \ {p} : pc'[q] \in {"idle", "package"}
  BY <1>0, OthersStay
<1>7. QED
  BY <1>1, <1>3, <1>4, <1>5, <1>6, OneLeft

\* The call ends while its replacement is not final: it becomes so.
LEMMA StopOpen ==
    ASSUME OpenInv, OneHolder', Grows, NEW p \in Proc, pc[p] \in Undecided, Stop(p)
    PROVE  OneOpen' /\ OpenKnown' /\ HeldOpen'
<1>0. Inside(p) /\ Promoter(p) /\ pc'[p] = "idle" /\ LedgersOK
  BY TypeParts DEF Stop, Leave, Inside, Undecided, Promoter, OpenInv, EvidenceInv, CallsOK
<1>1. PICK r \in Run, id \in Promotion :
               /\ Holder(p, r, id)
               /\ Open(r) = {id} /\ \A q \in Run \ {r} : Open(q) = {}
               /\ Additive(id) /\ Candidates(id) # {}
  BY HolderHolds DEF Undecided
<1>2. Quiet
  BY QuietLedger DEF Stop
<1>3. Open(r)' \subseteq {id} /\ \A q \in Run \ {r} : Open(q)' = {}
  BY <1>0, <1>1, <1>2, OpenShrinks
<1>4. target' = After(id)
  BY <1>1 DEF Stop, Holder, Undecided, OpenInv, EvidenceInv, Holding
<1>5. RowsPublished(id)'
  <2>1. Published' = After(id)
    BY <1>0, <1>4, DecidedTargetNext DEF Undecided
  <2>2. QED
    BY <2>1 DEF RowsPublished, Candidates, Rows, After
<1>6. ~(id \in Open(r)' /\ Last(r, id)' = "committed")
  BY <1>5 DEF Open
<1>7. \A q \in Proc \ {p} : pc'[q] \in {"idle", "package"}
  BY <1>0, OthersStay
<1>8. QED
  BY <1>0, <1>1, <1>3, <1>4, <1>6, <1>7, OneLeft

LEMMA CommitFailsOpen ==
    ASSUME OpenInv, OneHolder', Grows, NEW p \in Proc, CommitFails(p)
    PROVE  OneOpen' /\ OpenKnown' /\ HeldOpen'
<1>0. Inside(p) /\ Promoter(p) /\ pc \in [Proc -> Steps] /\ LedgersOK
  BY TypeParts DEF CommitFails, Inside, Promoter, OpenInv, EvidenceInv, CallsOK
<1>1. PICK r \in Run, id \in Promotion :
               /\ Holder(p, r, id)
               /\ Open(r) = {id} /\ \A q \in Run \ {r} : Open(q) = {}
               /\ id \in Ids(r)
               /\ Additive(id) /\ Candidates(id) # {}
               /\ Last(r, id) = "prepared"
               /\ \A i \in Candidates(id) : Now(r, i) = Rows(id)[i]
  BY HolderHolds DEF CommitFails
<1>2. target' = After(id) /\ pc'[p] = "restore" /\ run'[p] = r /\ prepared'[p] = id
  BY <1>0, <1>1 DEF CommitFails, Holder, OpenInv, EvidenceInv, Holding
<1>3. ~RowsPublished(id)'
  <2>1. Published' = Before(id)
    BY <1>2, PublishedIsBeforeNext DEF Undecided
  <2>2. PICK i \in Candidates(id) : TRUE
    BY <1>1
  <2>3. Published'[i] = Absent /\ Rows(id)[i] # Absent
    BY <1>1, <2>1 DEF Additive, Candidates
  <2>4. QED
    BY <2>3 DEF RowsPublished, Candidates, Rows
<1>4. /\ Open(r)' \subseteq {id} /\ \A q \in Run \ {r} : Open(q)' = {}
      /\ id \in Open(r)'
      /\ \A i \in Item : Now(r, i)' = Now(r, i)
  <2>1. CASE ledger' = ledger
    <3>1. Quiet /\ \A i \in Item : Now(r, i)' = Now(r, i)
      BY <2>1, QuietLedger
    <3>2. Open(r)' \subseteq {id} /\ \A q \in Run \ {r} : Open(q)' = {}
      BY <1>0, <1>1, <3>1, OpenShrinks
    <3>3. id \in Open(r)'
      BY <1>1, <3>1 DEF Quiet, Open
    <3>4. QED
      BY <3>1, <3>2, <3>3
  <2>2. CASE LogRaises(run[p], [kind |-> "committed", id |-> prepared[p]])
    <3>1. Wrote(r, id, "committed")
      BY <1>0, <1>1, <2>2, AuditWritten DEF LogRaises, Holder, StatusKind
    <3>3. Open(r)' \subseteq {id} /\ (\A q \in Run \ {r} : Open(q)' = {}) /\ id \in Open(r)'
      BY <1>0, <1>1, <1>3, <3>1, OpenWritten
    <3>4. QED
      BY <3>1, <3>3 DEF Wrote
  <2>3. QED
    BY <2>1, <2>2 DEF CommitFails
<1>5. \A i \in Candidates(id) : Now(r, i)' = Rows(id)[i]
  BY <1>1, <1>4 DEF Candidates
<1>6. \A q \in Proc \ {p} : pc'[q] \in {"idle", "package"}
  BY <1>0, OthersStay
<1>7. QED
  BY <1>1, <1>2, <1>4, <1>5, <1>6, OneLeft

\* What recovery resolves is what is open.
LEMMA OutstandingIsOpen ==
    ASSUME OpenInv, Published = target, NEW r \in Run
    PROVE  Outstanding(r) = Open(r)
<1>1. \A id : RowsMatch(id) <=> RowsPublished(id)
  BY DEF RowsMatch, RowsPublished
<1>2. QED
  BY <1>1 DEF Outstanding, Open, Ids, Last

LEMMA NothingOpen ==
    ASSUME OpenInv, OneHolder', NEW p \in Proc, NEW r \in Run, NothingToRecover(p, r)
    PROVE  OneOpen' /\ OpenKnown' /\ HeldOpen'
<1>0. /\ Inside(p) /\ Promoter(p) /\ pc[p] \notin Undecided
      /\ pc \in [Proc -> Steps] /\ todo \in [Proc -> SUBSET Run]
  BY TypeParts DEF NothingToRecover, Inside, Undecided, Promoter, OpenInv, EvidenceInv, CallsOK
<1>1. Open(r) = {}
  BY <1>0, DecidedTarget, OutstandingIsOpen DEF NothingToRecover
<1>2. Quiet
  BY QuietLedger DEF NothingToRecover
<1>3. Published' = Published
  BY DEF NothingToRecover, Published, Before
<1>4. \A id : RowsPublished(id)' <=> RowsPublished(id)
  BY <1>3 DEF RowsPublished, Candidates, Rows
<1>5. \A q \in Run : Open(q)' = Open(q)
  BY <1>2, <1>4 DEF Quiet, Open
<1>6. OneOpen'
  BY <1>5 DEF OneOpen, OpenInv
<1>7. OpenKnown'
  <2>1. \A q \in Run : \A id \in Open(q) : Last(q, id)' = Last(q, id)
    BY <1>2 DEF Quiet, Open
  <2>2. target' = target /\ pc' = pc
    BY DEF NothingToRecover
  <2>3. QED
    BY <1>5, <2>1, <2>2 DEF OpenKnown, OpenInv
<1>8. HeldOpen'
  <2>1. pc[p] = "recover" /\ \A q \in Proc \ {p} : pc[q] \in {"idle", "package"}
    BY <1>0, OthersStay DEF NothingToRecover
  <2>2. pc' = pc
    BY DEF NothingToRecover
  <2>3. \A q \in Run : q \notin todo'[p] => q \notin todo[p] \/ q = r
    BY <1>0 DEF NothingToRecover
  <2>4. \A q \in Run : q \notin todo'[p] => Open(q)' = {}
    BY <1>1, <1>5, <2>1, <2>3 DEF HeldOpen, OpenInv
  <2>5. \A q \in Proc : pc'[q] \notin {"replace", "commit", "restore", "rollback"}
    BY <2>1, <2>2
  <2>6. \A q \in Proc : pc'[q] = "recover" => q = p
    BY <2>1, <2>2
  <2>7. QED
    BY <2>4, <2>5, <2>6 DEF HeldOpen, Holder
<1>9. QED
  BY <1>6, <1>7, <1>8

\* A status that closes the open promotion.
LEMMA Closing ==
    ASSUME OpenInv, OneHolder', Grows, NEW p \in Proc, Inside(p), Promoter(p),
           NEW r \in Run, NEW id \in Promotion, NEW s, Wrote(r, id, s),
           id \in Open(r),
           s \in {"failed", "rolled_back"} \/ (s = "committed" /\ RowsPublished(id)'),
           pc'[p] \in {"idle", "recover"}
    PROVE  OneOpen' /\ OpenKnown' /\ HeldOpen'
<1>1. LedgersOK
  BY TypeParts DEF OpenInv, EvidenceInv
<1>2. Open(r) = {id} /\ \A q \in Run \ {r} : Open(q) = {}
  BY DEF OpenInv, OneOpen
<1>3. id \notin Open(r)'
  BY <1>1, OpenWritten
<1>4. \A q \in Run : Open(q)' = {}
  BY <1>1, <1>2, <1>3, OpenWritten
<1>5. \A q \in Proc : pc'[q] \in {"idle", "package", "recover"}
  BY OthersStay
<1>6. QED
  BY <1>4, <1>5, AllClosed

LEMMA RecoverOpen ==
    ASSUME OpenInv, OneHolder', Grows, NEW p \in Proc, NEW r \in Run,
           NEW id \in Outstanding(r), Recover(p, r, id)
    PROVE  OneOpen' /\ OpenKnown' /\ HeldOpen'
<1>0. /\ Inside(p) /\ Promoter(p) /\ pc[p] \notin Undecided
      /\ pc \in [Proc -> Steps]
  BY TypeParts DEF Recover, Inside, Undecided, Promoter, OpenInv, EvidenceInv, CallsOK
<1>1. PICK s : s = Resolution(r, id)
  OBVIOUS
<1>2. id \in Promotion /\ id \in Open(r)
  BY <1>0, DecidedTarget, OutstandingIsOpen, OutstandingTypes, TypeParts DEF OpenInv, EvidenceInv
<1>3. s \in {"committed", "failed", "rolled_back"}
  BY <1>1 DEF Recover, Resolution
<1>4. Wrote(r, id, s)
  <2>1. PICK anchor : Log(r, [kind |-> s, id |-> id], anchor)
    BY <1>1 DEF Recover, LogOk, LogRaisesAfterValidation
  <2>2. QED
    BY <1>2, <1>3, <2>1, AuditWritten, TypeParts DEF StatusKind, OpenInv, EvidenceInv
<1>5. pc'[p] \in {"idle", "recover"}
  BY <1>0 DEF Recover, Leave
<1>6. s = "committed" => RowsPublished(id)'
  <2>1. Published' = target'
    BY <1>0, <1>5, DecidedTargetNext DEF Undecided
  <2>2. target' = target
    BY DEF Recover
  <2>3. target = After(id) => RowsMatch(id)
    BY DEF RowsMatch, After, Candidates
  <2>4. s = "committed" => RowsMatch(id)
    BY <1>1, <2>3 DEF Resolution
  <2>5. QED
    BY <2>1, <2>2, <2>4 DEF RowsMatch, RowsPublished, Candidates, Rows
<1>7. QED
  BY <1>0, <1>2, <1>3, <1>4, <1>5, <1>6, Closing

LEMMA EndOpen ==
    ASSUME OpenInv, OneHolder', Grows, NEW p \in Proc, ledger' # ledger,
           ReplaceFails(p) \/ Commit(p) \/ RollBack(p)
    PROVE  OneOpen' /\ OpenKnown' /\ HeldOpen'
<1>0. /\ Inside(p) /\ Promoter(p) /\ pc'[p] = "idle" /\ LedgersOK
      /\ pc[p] \in {"replace", "commit", "restore", "rollback"}
  BY TypeParts DEF ReplaceFails, Commit, RollBack, Leave, Inside, Promoter, OpenInv, EvidenceInv, CallsOK
<1>1. PICK r \in Run, id \in Promotion : Holder(p, r, id) /\ Open(r) = {id}
  BY <1>0, HolderHolds
<1>2. PICK s \in {"failed", "rolled_back", "committed"} :
          /\ s = "committed" => Commit(p)
          /\ \E anchor : Log(r, [kind |-> s, id |-> id], anchor)
  BY <1>1 DEF ReplaceFails, Commit, RollBack, LogStatus, LogOk, LogRaises, Holder
<1>3. Wrote(r, id, s)
  BY <1>0, <1>2, AuditWritten DEF StatusKind
<1>4. s = "committed" => RowsPublished(id)'
  <2>1. SUFFICES ASSUME Commit(p) PROVE RowsPublished(id)'
    BY <1>2
  <2>2. target' = After(id)
    BY <1>1, <2>1 DEF Commit, Holder, OpenInv, EvidenceInv, Holding
  <2>3. Published' = target'
    BY <1>0, DecidedTargetNext DEF Undecided
  <2>4. QED
    BY <2>2, <2>3 DEF RowsPublished, Candidates, Rows, After
<1>5. QED
  BY <1>0, <1>1, <1>2, <1>3, <1>4, Closing

LEMMA PrepareOpen ==
    ASSUME OpenInv, OneHolder', Grows, NEW p \in Proc, Prepare(p)
    PROVE  OneOpen' /\ OpenKnown' /\ HeldOpen'
<1>0. /\ Inside(p) /\ Promoter(p) /\ pc[p] \notin Undecided /\ pc[p] = "recover"
      /\ LedgersOK /\ CallsOK /\ run[p] \in Run /\ target \in Artifact
  BY TypeParts DEF Prepare, Inside, Undecided, Promoter, OpenInv, EvidenceInv, Promoting, EvidenceOK
<1>1. PICK r \in Run : r = run[p]
  BY <1>0
<1>2. PICK id \in Promotion : id = <<target, Added(r)>>
  BY <1>0, <1>1, AddedType DEF Promotion
<1>3. \A q \in Run : Open(q) = {}
  BY <1>0 DEF Prepare, HeldOpen, OpenInv
<1>4. Wrote(r, id, "prepared")
  <2>1. PICK anchor : Log(r, [kind |-> "prepared", id |-> id], anchor)
    BY <1>1, <1>2 DEF Prepare, LogOk, LogRaisesAfterValidation
  <2>2. QED
    BY <1>0, <2>1, AuditWritten DEF StatusKind
<1>5. Open(r)' \subseteq {id} /\ (\A q \in Run \ {r} : Open(q)' = {}) /\ id \in Open(r)'
  BY <1>0, <1>3, <1>4, OpenWritten
<1>6. Additive(id)
  <2>1. Store!Supported(target)
    <3>1. Published = target
      BY <1>0, DecidedTarget
    <3>2. QED
      BY <3>1 DEF OpenInv, EvidenceInv, Promised
  <2>2. QED
    BY <1>0, <1>1, <1>2, <2>1, AddedIsAdditive DEF Prepare
<1>7. \A i \in Candidates(id) : Now(r, i) = Rows(id)[i]
  BY <1>2 DEF Candidates, Rows, Added, Now
<1>8. Candidates(id) # {}
  <2>1. Added(r) # NoRows
    BY <1>1 DEF Prepare
  <2>2. \E i \in Item : Added(r)[i] # Absent
    BY <2>1 DEF Added, NoRows
  <2>3. QED
    BY <1>2, <2>2 DEF Candidates, Rows
<1>9. target' = Before(id)
  BY <1>2 DEF Prepare, Before
<1>10. \A q \in Proc \ {p} : pc'[q] \in {"idle", "package"}
  BY <1>0, OthersStay
<1>11. pc'[p] = "idle" \/ (pc'[p] = "replace" /\ run'[p] = r /\ prepared'[p] = id)
  BY <1>0, <1>1, <1>2 DEF Prepare, Leave, CallsOK
<1>12. /\ Last(r, id)' = "prepared"
       /\ \A i \in Candidates(id) : Now(r, i)' = Rows(id)[i]
  BY <1>4, <1>7 DEF Wrote, Candidates
<1>13. QED
  BY <1>5, <1>6, <1>8, <1>9, <1>10, <1>11, <1>12, OneLeft

LEMMA OpenNext ==
    ASSUME OpenInv, [Next]_vars
    PROVE  OpenInv'
<1>1. EvidenceInv' /\ Grows /\ OneHolder'
  BY EvidenceStep, GrowsNext DEF OpenInv, EvidenceInv
<1>2. CASE UNCHANGED <<ledger, target, pc, run, todo, prepared>>
  BY <1>1, <1>2, QuietOpen DEF OpenInv
<1>3. ASSUME NEW r \in Run, NEW i \in Item, NEW d \in Decision, ReviewCandidate(r, i, d)
      PROVE  OpenInv'
  BY <1>1, <1>3, ReviewOpen DEF OpenInv
<1>4. ASSUME NEW p \in Proc, Promoter(p) PROVE OneOpen' /\ OpenKnown' /\ HeldOpen'
  <2>0. pc \in [Proc -> Steps] /\ todo \in [Proc -> SUBSET Run]
    BY TypeParts DEF OpenInv, EvidenceInv, CallsOK
  <2>1. CASE /\ \/ \E r \in Run : Start(p, r)
                \/ TakePackageLock(p)
                \/ ReplaceFails(p) \/ RollBack(p)
                \/ pc[p] \notin Undecided /\ Stop(p)
             /\ ledger' = ledger
    <3>1. /\ target' = target /\ pc[p] \notin Undecided
          /\ pc'[p] \in {"idle", "package"} \/ (pc'[p] = "recover" /\ todo'[p] = Run)
      BY <2>0, <2>1 DEF Start, TakePackageLock, ReplaceFails, RollBack, Stop, Leave, Undecided
    <3>2. QED
      BY <1>1, <1>4, <2>1, <3>1, CalmCall
  <2>2. CASE (ReplaceFails(p) \/ Commit(p) \/ RollBack(p)) /\ ledger' # ledger
    BY <1>1, <2>2, EndOpen
  <2>3. CASE Commit(p) /\ ledger' = ledger
    <3>1. /\ run[p] \in Run /\ ledger \in [Run -> Seq(Event)]
          /\ [kind |-> "committed", id |-> prepared[p]] \in Event
      BY <2>3, StatusEventType, TypeParts
      DEF Commit, OpenInv, EvidenceInv, Promoting, LedgersOK, CallsOK
    <3>2. Len(ledger'[run[p]]) = Len(ledger[run[p]]) + 1
      BY <2>3, <3>1, LogKeeps, TypeParts DEF Commit, LogOk, OpenInv, EvidenceInv
    <3>3. Len(ledger[run[p]]) \in Nat
      BY <3>1
    <3>4. QED
      BY <2>3, <3>2, <3>3
  <2>4. CASE \E r \in Run : NothingToRecover(p, r)
    BY <1>1, <2>4, NothingOpen
  <2>5. CASE \E r \in Run : \E id \in Outstanding(r) : Recover(p, r, id)
    BY <1>1, <2>5, RecoverOpen
  <2>6. CASE Prepare(p)
    BY <1>1, <2>6, PrepareOpen
  <2>7. CASE Replace(p)
    BY <1>1, <2>7, ReplaceOpen
  <2>8. CASE CommitFails(p)
    BY <1>1, <2>8, CommitFailsOpen
  <2>9. CASE Restore(p)
    BY <1>1, <2>9, RestoreOpen
  <2>10. CASE pc[p] \in Undecided /\ Stop(p)
    BY <1>1, <2>10, StopOpen
  <2>11. (\E r \in Run : Start(p, r)) \/ TakePackageLock(p) \/ Stop(p) => ledger' = ledger
    BY DEF Start, TakePackageLock, Stop
  <2>12. QED
    BY <1>4, <2>1, <2>2, <2>3, <2>4, <2>5, <2>6, <2>7, <2>8, <2>9, <2>10, <2>11 DEF Promoter
<1>5. ValidateRepairs \/ (\E r \in Run : ValidateReads(r)) \/ UNCHANGED vars
        => UNCHANGED <<ledger, target, pc, run, todo, prepared>>
  BY DEF ValidateReads, ValidateRepairs, vars
<1>6. QED
  BY <1>1, <1>2, <1>3, <1>4, <1>5 DEF Next, OpenInv

LEMMA OpenInit == Init => OpenInv
<1>1. SUFFICES ASSUME Init PROVE OpenInv
  OBVIOUS
<1>2. EvidenceInv
  BY <1>1, EvidenceInit
<1>3. \A r \in Run : Open(r) = {}
  BY <1>1 DEF Init, Open, Ids, Promotions
<1>4. QED
  BY <1>1, <1>2, <1>3 DEF OpenInv, OneOpen, OpenKnown, HeldOpen, Holder, Init

LEMMA RecoverableHere == OpenInv => Recoverable
<1>1. SUFFICES ASSUME OpenInv PROVE Recoverable
  OBVIOUS
<1>2. \A r \in Run : Outstanding(r) \subseteq Open(r)
  <2>1. ASSUME NEW r \in Run, NEW id \in Ids(r), RowsPublished(id) PROVE RowsMatch(id)
    <3>1. \A i \in Candidates(id) : i \in Item /\ Rows(id)[i] # Absent
      BY DEF Candidates
    <3>2. QED
      BY <1>1, <2>1, <3>1, TargetHolds DEF RowsPublished, RowsMatch, OpenInv
  <2>2. QED
    BY <2>1 DEF Outstanding, Open, Ids, Last
<1>3. Cardinality(UNION {{r} \X Outstanding(r) : r \in Run}) <= 1
  <2> DEFINE all == UNION {{r} \X Outstanding(r) : r \in Run}
  <2>1. \A x, y \in all : x = y
    BY <1>1, <1>2 DEF OpenInv, OneOpen
  <2>2. CASE all = {}
    BY <2>2, FS_EmptySet
  <2>3. ASSUME NEW x \in all PROVE Cardinality(all) <= 1
    <3>1. all = {x}
      BY <2>1
    <3>2. QED
      BY <3>1, FS_Singleton
  <2>4. QED
    BY <2>2, <2>3
<1>4. ASSUME NEW r \in Run, NEW id \in Outstanding(r) PROVE Resolution(r, id) # "conflict"
  <2>1. /\ target = Before(id) \/ target = After(id)
        /\ Last(r, id) = "committed" => target = Before(id) \/ \E p \in Proc : pc[p] = "restore"
        /\ Additive(id) /\ Candidates(id) # {}
    BY <1>1, <1>2 DEF OpenInv, OpenKnown
  <2>2. target = After(id) => RowsMatch(id)
    BY DEF RowsMatch, After, Candidates
  <2>3. CASE Status(r, Len(ledger[r]), id) = "committed"
    <3>1. ~RowsMatch(id)
      BY <2>3 DEF Outstanding
    <3>2. QED
      BY <2>1, <2>2, <2>3, <3>1 DEF Resolution
  <2>4. CASE Status(r, Len(ledger[r]), id) # "committed"
    BY <2>1, <2>4 DEF Resolution
  <2>5. QED
    BY <2>3, <2>4
<1>5. QED
  BY <1>3, <1>4 DEF Recoverable

\* At most one promotion is outstanding, and recover_outstanding_promotions can
\* always tell from the artifact how it ended, for any number of promoters and
\* runs, kills and failed writes.
THEOREM RecoverySound == Spec => []Recoverable
BY OpenInit, OpenNext, RecoverableHere, PTL DEF Spec

\* An open promotion whose rows the artifact does not hold yet.
LEMMA NotPublished ==
    ASSUME Published = target, NEW id, target = Before(id), Additive(id), Candidates(id) # {}
    PROVE  ~RowsPublished(id)
BY DEF RowsPublished, Additive, Candidates

\* A promotion is closed as failed or rolled back only when readers do not see
\* its rows.
LEMMA StatusWritten ==
    ASSUME OpenInv, NEW p \in Proc, Promoter(p), ledger' # ledger
    PROVE  \E r \in Run, id \in Promotion, s \in StatusKind :
               /\ Wrote(r, id, s)
               /\ s \in {"failed", "rolled_back"} => ~RowsPublished(id)
<1>0. LedgersOK /\ pc \in [Proc -> Steps]
  BY TypeParts DEF OpenInv, EvidenceInv, CallsOK
<1>1. ASSUME NEW r \in Run, NEW id \in Outstanding(r), Recover(p, r, id)
      PROVE  \E s \in StatusKind : /\ id \in Promotion /\ Wrote(r, id, s)
                                   /\ s \in {"failed", "rolled_back"} => ~RowsPublished(id)
  <2>1. PICK s : s = Resolution(r, id)
    OBVIOUS
  <2>2. Published = target
    BY <1>1, DecidedTarget DEF Recover, Inside, Undecided
  <2>3. id \in Promotion /\ id \in Open(r)
    BY <1>0, <2>2, OutstandingIsOpen, OutstandingTypes
  <2>4. s \in {"committed", "failed", "rolled_back"}
    BY <1>1, <2>1 DEF Recover, Resolution
  <2>5. PICK anchor : Log(r, [kind |-> s, id |-> id], anchor)
    BY <1>1, <2>1 DEF Recover, LogOk, LogRaisesAfterValidation
  <2>6. Wrote(r, id, s)
    BY <1>0, <2>3, <2>4, <2>5, AuditWritten DEF StatusKind
  <2>7. s \in {"failed", "rolled_back"} => target = Before(id)
    BY <2>1 DEF Resolution
  <2>8. Additive(id) /\ Candidates(id) # {}
    BY <2>3 DEF OpenInv, OpenKnown
  <2>9. QED
    BY <2>2, <2>3, <2>4, <2>6, <2>7, <2>8, NotPublished DEF StatusKind
<1>2. CASE Prepare(p)
  <2>1. PICK r \in Run : r = run[p]
    BY <1>2 DEF Prepare, OpenInv, EvidenceInv, Promoting
  <2>2. PICK id \in Promotion : id = <<target, Added(r)>>
    BY AddedType, TypeParts DEF Promotion, OpenInv, EvidenceInv, EvidenceOK
  <2>3. PICK anchor : Log(r, [kind |-> "prepared", id |-> id], anchor)
    BY <1>2, <2>1, <2>2 DEF Prepare, LogOk, LogRaisesAfterValidation
  <2>4. Wrote(r, id, "prepared")
    BY <1>0, <2>3, AuditWritten DEF StatusKind
  <2>5. QED
    BY <2>4 DEF StatusKind
<1>3. CASE ReplaceFails(p) \/ Commit(p) \/ CommitFails(p) \/ RollBack(p)
  <2>1. pc[p] \in {"replace", "commit", "restore", "rollback"}
    BY <1>3 DEF ReplaceFails, Commit, CommitFails, RollBack
  <2>2. PICK r \in Run, id \in Promotion :
            Holder(p, r, id) /\ Additive(id) /\ Candidates(id) # {}
    BY <2>1, HolderHolds
  <2>3. PICK s \in {"failed", "rolled_back", "committed"} :
            /\ s # "committed" => ReplaceFails(p) \/ RollBack(p)
            /\ \E anchor : Log(r, [kind |-> s, id |-> id], anchor)
    BY <1>3, <2>2 DEF ReplaceFails, Commit, CommitFails, RollBack, LogStatus, LogOk, LogRaises, Holder
  <2>4. Wrote(r, id, s)
    BY <1>0, <2>3, AuditWritten DEF StatusKind
  <2>5. s # "committed" => Published = target /\ target = Before(id)
    BY <2>2, <2>3, DecidedTarget
    DEF ReplaceFails, RollBack, Inside, Undecided, Holder, OpenInv, EvidenceInv, Holding
  <2>6. s # "committed" => ~RowsPublished(id)
    BY <2>2, <2>5, NotPublished
  <2>7. QED
    BY <2>4, <2>6 DEF StatusKind
<1>4. ~Replace(p) /\ ~Restore(p) /\ ~Stop(p) /\ ~TakePackageLock(p)
      /\ \A r \in Run : ~Start(p, r) /\ ~NothingToRecover(p, r)
  BY DEF Replace, Restore, Stop, TakePackageLock, Start, NothingToRecover
<1>5. QED
  BY <1>1, <1>2, <1>3, <1>4 DEF Promoter

\* A reviewer cannot decide a candidate again while readers see its row.
LEMMA WitnessFrozen ==
    ASSUME OpenInv, NEW r \in Run, NEW i \in Item, NEW id \in Ids(r), Witness(r, id, i)
    PROVE  i \in Frozen(r, Len(ledger[r]))
<1>1. \A j \in Candidates(id) : j \in Item /\ Rows(id)[j] # Absent
  BY DEF Candidates
<1>2. RowsMatch(id)
  BY <1>1, TargetHolds DEF Witness, RowsPublished, RowsMatch, OpenInv
<1>3. QED
  BY <1>2 DEF Witness, Frozen, Ids, Last

LEMMA WitnessStays ==
    ASSUME OpenInv, [Next]_vars, NEW r \in Run, NEW id \in Ids(r), NEW i \in Item,
           Published[i] # Absent, Witness(r, id, i)
    PROVE  id \in Ids(r)' /\ Witness(r, id, i)'
<1>1. /\ Grows /\ LedgersOK
  BY GrowsNext, TypeParts DEF OpenInv, EvidenceInv
<1>2. /\ i \in Candidates(id) /\ RowsPublished(id)' /\ Published'[i] = Published[i]
      /\ Last(r, id) \in {"prepared", "committed"} /\ Now(r, i) = Published[i] /\ RowsPublished(id)
      /\ id \in Promotion
  BY <1>1, RowsStay, IdsTypes DEF Witness, Grows
<1>3. SUFFICES /\ id \in Ids(r)'
               /\ Last(r, id)' \in {"prepared", "committed"}
               /\ Now(r, i)' = Now(r, i)
  BY <1>2 DEF Witness, Candidates, Rows
<1>4. CASE Same(r)
  BY <1>2, <1>4 DEF Same
<1>5. ASSUME NEW q \in Run, NEW j \in Item, NEW d \in Decision, ReviewCandidate(q, j, d)
      PROVE  Same(r) \/ (q = r /\ j # i /\ Reviewed(r, j))
  <2>1. PICK anchor : Log(q, [kind |-> "review", item |-> j, decision |-> d], anchor)
    BY <1>5 DEF ReviewCandidate, LogOk, LogRaisesAfterValidation
  <2>2. Reviewed(q, j)
    BY <1>1, <2>1, ReviewWritten
  <2>3. q = r => j # i
    BY <1>5, WitnessFrozen DEF ReviewCandidate
  <2>4. QED
    BY <2>2, <2>3 DEF Reviewed
<1>6. ASSUME NEW j \in Item, j # i, Reviewed(r, j)
      PROVE  /\ id \in Ids(r)'
             /\ Last(r, id)' \in {"prepared", "committed"}
             /\ Now(r, i)' = Now(r, i)
  BY <1>2, <1>6 DEF Reviewed
<1>7. ASSUME NEW q \in Run, NEW jd \in Promotion, NEW s \in StatusKind, Wrote(q, jd, s),
             s \in {"failed", "rolled_back"} => ~RowsPublished(jd)
      PROVE  /\ id \in Ids(r)'
             /\ Last(r, id)' \in {"prepared", "committed"}
             /\ Now(r, i)' = Now(r, i)
  <2>1. CASE q # r
    <3>1. Same(r)
      BY <1>7, <2>1 DEF Wrote
    <3>2. QED
      BY <1>2, <3>1 DEF Same
  <2>2. CASE q = r /\ jd # id
    BY <1>2, <1>7, <2>2 DEF Wrote
  <2>3. CASE q = r /\ jd = id
    BY <1>2, <1>7, <2>3 DEF Wrote, StatusKind
  <2>4. QED
    BY <2>1, <2>2, <2>3
<1>8. CASE ledger' = ledger
  BY <1>4, <1>8, SameLedger
<1>9. ASSUME NEW p \in Proc, Promoter(p), ledger' # ledger
      PROVE  /\ id \in Ids(r)'
             /\ Last(r, id)' \in {"prepared", "committed"}
             /\ Now(r, i)' = Now(r, i)
  BY <1>7, <1>9, StatusWritten
<1>10. QED
  BY <1>4, <1>5, <1>6, <1>8, <1>9 DEF Next, ValidateReads, ValidateRepairs, vars

\* A row that readers did not see before comes from the promotion that the
\* step made final.
LEMMA WitnessNew ==
    ASSUME OpenInv, [Next]_vars, NEW i \in Item, Published[i] = Absent, Published'[i] # Absent
    PROVE  \E r \in Run : \E id \in Ids(r)' : Witness(r, id, i)'
<1>1. OneHolder' /\ LedgersOK
  BY EvidenceStep, TypeParts DEF OpenInv, EvidenceInv
<1>2. PICK p \in Proc : Promoter(p)
  <2>1. UNCHANGED <<target, pc, prepared>> => Published' = Published
    BY DEF Published, Before
  <2>2. QED
    BY <2>1 DEF Next, ReviewCandidate, ValidateReads, ValidateRepairs, vars
<1>3. /\ pc[p] \in Undecided /\ (Commit(p) \/ Stop(p))
      /\ Published = Before(prepared[p]) /\ Published' = After(prepared[p])
  BY <1>1, <1>2, PublishedMoves DEF OpenInv
<1>4. PICK r \in Run, id \in Promotion :
          /\ Holder(p, r, id) /\ id \in Open(r) /\ id \in Ids(r)
          /\ \A j \in Candidates(id) : Now(r, j) = Rows(id)[j]
  BY <1>3, HolderHolds DEF Undecided
<1>5. i \in Candidates(id) /\ Published'[i] = Rows(id)[i]
  BY <1>3, <1>4 DEF Holder, Candidates, After
<1>6. RowsPublished(id)'
  BY <1>3, <1>4 DEF RowsPublished, Candidates, Rows, After, Holder
<1>7. /\ id \in Ids(r)' /\ Last(r, id)' \in {"prepared", "committed"}
      /\ \A j \in Item : Now(r, j)' = Now(r, j)
  <2>1. CASE Stop(p)
    <3>1. Same(r)
      BY <2>1, SameLedger DEF Stop
    <3>2. QED
      BY <1>4, <3>1 DEF Same, Open
  <2>2. CASE Commit(p)
    <3>1. PICK anchor : Log(r, [kind |-> "committed", id |-> id], anchor)
      BY <1>4, <2>2 DEF Commit, LogOk, Holder
    <3>2. Wrote(r, id, "committed")
      BY <1>1, <3>1, AuditWritten DEF StatusKind
    <3>3. QED
      BY <3>2 DEF Wrote
  <2>3. QED
    BY <1>3, <2>1, <2>2
<1>8. QED
  BY <1>4, <1>5, <1>6, <1>7 DEF Witness, Candidates, Rows

AuditInv == OpenInv /\ Witnessed

LEMMA AuditNext == ASSUME AuditInv, [Next]_vars PROVE AuditInv'
<1>1. OpenInv' /\ Grows
  BY OpenNext, GrowsNext DEF AuditInv, OpenInv
<1>2. ASSUME NEW i \in Item, Published'[i] # Absent
      PROVE  \E r \in Run : \E id \in Ids(r)' : Witness(r, id, i)'
  <2>1. CASE Published[i] = Absent
    BY <1>2, <2>1, WitnessNew DEF AuditInv
  <2>2. CASE Published[i] # Absent
    <3>1. PICK r \in Run : \E id \in Ids(r) : Witness(r, id, i)
      BY <2>2 DEF AuditInv, Witnessed
    <3>2. PICK id \in Ids(r) : Witness(r, id, i)
      BY <3>1
    <3>3. QED
      BY <2>2, <3>2, WitnessStays DEF AuditInv
  <2>3. QED
    BY <2>1, <2>2
<1>3. Witnessed'
  BY <1>2 DEF Witnessed
<1>4. QED
  BY <1>1, <1>3 DEF AuditInv

LEMMA AuditInit == Init => AuditInv
<1>1. SUFFICES ASSUME Init PROVE AuditInv
  OBVIOUS
<1>2. \A i \in Item : Published[i] = Absent
  <2>1. \A p \in Proc : pc[p] \notin Undecided
    BY <1>1 DEF Init, Undecided
  <2>2. QED
    BY <1>1, <2>1, PublishedIsTarget DEF Init, NoRows
<1>3. QED
  BY <1>1, <1>2, OpenInit DEF AuditInv, Witnessed

LEMMA AuditedHere == AuditInv => Audited
<1>1. SUFFICES ASSUME AuditInv, NEW i \in Item, Published[i] # Absent
               PROVE  \E r \in Run : \E id \in Promotions(r, Len(ledger[r])) :
                          /\ Rows(id)[i] = Published[i]
                          /\ Status(r, Len(ledger[r]), id) \in {"prepared", "committed"}
                          /\ Decided(r, Len(ledger[r]), i) = Published[i]
  BY DEF Audited
<1>2. PICK r \in Run : \E id \in Ids(r) : Witness(r, id, i)
  BY <1>1 DEF AuditInv, Witnessed
<1>3. PICK id \in Ids(r) : Witness(r, id, i)
  BY <1>2
<1>4. QED
  BY <1>3 DEF Witness, RowsPublished, Ids, Last, Now

\* Every canonical row that readers may rely on is one that a promotion of some
\* run added and that run's latest review decided: neither recovery nor a
\* rollback leaves a row without its ledger entry (promote_candidates).
THEOREM EvidenceAudited == Spec => []Audited
BY AuditInit, AuditNext, AuditedHere, PTL DEF Spec

--------------------------------------------------------------------------------
(* The validity of the logs. *)

\* The review at position k is one a reviewer could make, and no promotion of
\* its candidate was open or committed then.
FreshAt(r, k) ==
    ledger[r][k].kind = "review" =>
        /\ Permitted(r, k - 1, ledger[r][k].item, ledger[r][k].decision)
        /\ \A id \in Promotions(r, k - 1) :
              ledger[r][k].item \in Candidates(id) =>
                  Status(r, k - 1, id) \in {"failed", "rolled_back"}

Fresh == \A r \in Run \ overtaken : \A k \in 1 .. Len(ledger[r]) : FreshAt(r, k)

\* No head is ahead of its log, nor will be when a pending repair is written.
AnchorsInv ==
    /\ \A r \in Run : Anchored(r)
    /\ validating # <<>> => validating[2] <= Len(ledger[validating[1]])

ValidInv == TypeOK /\ Promoting /\ Fresh /\ AnchorsInv

\* What happens to the ledgers in a step: nothing, or one event is appended.
Appended(r, event) ==
    \/ LogOk(r, event)
    \/ LogRaisesAfterValidation(r, event)
    \/ LogRaises(r, event)

LEMMA LedgerSteps ==
    ASSUME TypeOK, Promoting, [Next]_vars
    PROVE  \/ UNCHANGED <<ledger, head>>
           \/ \/ ValidateRepairs
              \/ \E p \in Proc, r \in Run : NothingToRecover(p, r)
           \/ \E r \in Run, i \in Item, d \in Decision : ReviewCandidate(r, i, d)
           \/ /\ \E r \in Run, event \in Audit : Appended(r, event)
              /\ UNCHANGED <<validating, overtaken>>
<1>1. ASSUME NEW r \in Run, NEW id \in Promotion, NEW s \in StatusKind,
             Appended(r, [kind |-> s, id |-> id])
      PROVE  \E e \in Audit : Appended(r, e)
  BY <1>1 DEF Audit, StatusKind
<1>2. CallsOK /\ LedgersOK /\ EvidenceOK
  BY TypeParts
<1>3. ASSUME NEW p \in Proc, Prepare(p) PROVE \E r \in Run, event \in Audit : Appended(r, event)
  <2>1. PICK r \in Run : r = run[p]
    BY <1>3 DEF Prepare, Promoting
  <2>2. PICK id \in Promotion : id = <<target, Added(r)>>
    BY <1>2, AddedType DEF Promotion, EvidenceOK
  <2>3. Appended(r, [kind |-> "prepared", id |-> id])
    BY <1>3, <2>1, <2>2 DEF Prepare, Appended
  <2>4. QED
    BY <1>1, <2>3 DEF StatusKind
<1>4. ASSUME NEW p \in Proc, NEW r \in Run, NEW id \in Outstanding(r), Recover(p, r, id)
      PROVE  \E event \in Audit : Appended(r, event)
  <2>1. PICK s : s = Resolution(r, id)
    OBVIOUS
  <2>2. s \in StatusKind /\ id \in Promotion
    BY <1>2, <1>4, <2>1, OutstandingTypes DEF Recover, Resolution, StatusKind
  <2>3. Appended(r, [kind |-> s, id |-> id])
    BY <1>4, <2>1 DEF Recover, Appended
  <2>4. QED
    BY <1>1, <2>2, <2>3
<1>5. ASSUME NEW p \in Proc, ReplaceFails(p) \/ Commit(p) \/ CommitFails(p) \/ RollBack(p),
             ~UNCHANGED <<ledger, head>>
      PROVE  \E r \in Run, event \in Audit : Appended(r, event)
  <2>1. PICK r \in Run, id \in Promotion : r = run[p] /\ id = prepared[p]
    BY <1>2, <1>5 DEF ReplaceFails, Commit, CommitFails, RollBack, Promoting, CallsOK
  <2>2. \E s \in StatusKind : Appended(r, [kind |-> s, id |-> id])
    BY <1>5, <2>1
    DEF ReplaceFails, Commit, CommitFails, RollBack, LogStatus, Appended, StatusKind
  <2>3. QED
    BY <1>1, <2>2
<1>6. ASSUME NEW p \in Proc, Promoter(p), ~UNCHANGED <<ledger, head>>,
             \A r \in Run : ~NothingToRecover(p, r)
      PROVE  /\ \E r \in Run, event \in Audit : Appended(r, event)
             /\ UNCHANGED <<validating, overtaken>>
  <2>1. UNCHANGED <<validating, overtaken>>
    BY <1>6
    DEF Promoter, Start, TakePackageLock, NothingToRecover, Recover, Prepare, Replace,
        ReplaceFails, Commit, CommitFails, Restore, RollBack, Stop
  <2>2. ~Replace(p) /\ ~Restore(p) /\ ~Stop(p) /\ ~TakePackageLock(p)
        /\ \A r \in Run : ~Start(p, r)
    BY <1>6 DEF Replace, Restore, Stop, TakePackageLock, Start
  <2>3. QED
    BY <1>3, <1>4, <1>5, <1>6, <2>1, <2>2 DEF Promoter
<1>7. QED
  BY <1>6 DEF Next, ValidateReads, vars

LEMMA AppendedKeeps ==
    ASSUME LedgersOK, NEW r \in Run, NEW event \in Event, Appended(r, event)
    PROVE  /\ \A q \in Run : Kept(q)
           /\ \A q \in Run \ {r} : ledger'[q] = ledger[q]
           /\ Len(ledger'[r]) = Len(ledger[r]) + 1
           /\ ledger'[r][Len(ledger[r]) + 1] = event
<1>1. PICK anchor : Log(r, event, anchor)
  BY DEF Appended, LogOk, LogRaisesAfterValidation, LogRaises
<1>2. QED
  BY <1>1, LogKeeps

\* A position that was fresh stays so.
LEMMA FreshStays ==
    ASSUME LedgersOK, NEW q \in Run, Kept(q), NEW k \in 1 .. Len(ledger[q]), FreshAt(q, k)
    PROVE  FreshAt(q, k)'
<1>1. Len(ledger[q]) \in Nat /\ k \in Nat
  BY DEF LedgersOK
<1>2. k - 1 \in 0 .. Len(ledger[q])
  BY <1>1
<1>3. PICK m \in 0 .. Len(ledger[q]) : m = k - 1
  BY <1>2
<1>4. /\ Promotions(q, m)' = Promotions(q, m)
      /\ \A id \in Promotions(q, m) : Status(q, m, id)' = Status(q, m, id)
      /\ \A i : Decided(q, m, i)' = Decided(q, m, i)
  BY <1>3, PrefixStays
<1>5. ledger'[q][k] = ledger[q][k]
  BY DEF Kept
<1>6. ASSUME ledger'[q][k].kind = "review"
      PROVE  /\ Permitted(q, m, ledger[q][k].item, ledger[q][k].decision)
             /\ \A id \in Promotions(q, m) :
                   ledger[q][k].item \in Candidates(id) => Status(q, m, id) \in {"failed", "rolled_back"}
  BY <1>3, <1>5, <1>6 DEF FreshAt
<1>7. PICK item, decision : item = ledger[q][k].item /\ decision = ledger[q][k].decision
  OBVIOUS
<1>8. item = ledger'[q][k].item /\ decision = ledger'[q][k].decision
  BY <1>5, <1>7
<1>9. Permitted(q, m, item, decision)' <=> Permitted(q, m, item, decision)
  BY <1>4 DEF Permitted
<1>10. QED
  BY <1>3, <1>4, <1>6, <1>7, <1>8, <1>9 DEF FreshAt, Candidates, Rows, Permitted

\* The review that is being written.
LEMMA FreshReview ==
    ASSUME LedgersOK, NEW r \in Run, NEW i \in Item, NEW d \in Decision,
           ReviewCandidate(r, i, d), r \notin overtaken', NEW n \in Nat, n = Len(ledger[r])
    PROVE  /\ Permitted(r, n, i, d)
           /\ \A id \in Promotions(r, n) :
                 i \in Candidates(id) => Status(r, n, id) \in {"failed", "rolled_back"}
<1>1. Permitted(r, n, i, d) /\ i \notin Frozen(r, n)
  BY DEF ReviewCandidate
<1>2. \A id \in Outstanding(r) : i \notin Candidates(id)
  BY DEF ReviewCandidate
<1>3. ASSUME NEW id \in Promotions(r, n), i \in Candidates(id)
      PROVE  Status(r, n, id) \in {"failed", "rolled_back"}
  <2>1. Status(r, n, id) \in StatusKind
    BY IdsTypes DEF Ids, Last
  <2>2. Status(r, n, id) # "prepared" /\ (Status(r, n, id) = "committed" => RowsMatch(id))
    BY <1>2, <1>3 DEF Outstanding
  <2>3. ~(Status(r, n, id) \in {"committed", "prepared"} /\ RowsMatch(id))
    BY <1>1, <1>3 DEF Frozen
  <2>4. QED
    BY <2>1, <2>2, <2>3 DEF StatusKind
<1>4. QED
  BY <1>1, <1>3

LEMMA FreshNext ==
    ASSUME ValidInv, [Next]_vars
    PROVE  Fresh'
<1>1. LedgersOK /\ Fresh /\ \A r \in Run : Len(ledger[r]) \in Nat
  BY TypeParts DEF ValidInv, LedgersOK
<1>2. overtaken \subseteq overtaken'
  BY DEF Next, ReviewCandidate, ValidateReads, ValidateRepairs, Promoter, Start, TakePackageLock,
     NothingToRecover, Recover, Prepare, Replace, ReplaceFails, Commit, CommitFails, Restore,
     RollBack, Stop, vars
<1>3. \A q \in Run : ledger'[q] = ledger[q] => Kept(q)
  BY <1>1 DEF Kept
<1>4. ASSUME NEW q \in Run \ overtaken', Kept(q), NEW k \in 1 .. Len(ledger[q])
      PROVE  FreshAt(q, k)'
  BY <1>1, <1>2, <1>4, FreshStays DEF Fresh
<1>5. CASE ledger' = ledger
  <2>1. \A q \in Run \ overtaken' : \A k \in 1 .. Len(ledger[q]) : FreshAt(q, k)'
    BY <1>3, <1>4, <1>5
  <2>2. QED
    BY <1>5, <2>1 DEF Fresh
<1>6. ASSUME NEW r \in Run, NEW event \in Event, Appended(r, event),
             NEW n \in Nat, n = Len(ledger[r]),
             r \notin overtaken' => FreshAt(r, n + 1)'
      PROVE  Fresh'
  <2>1. /\ \A q \in Run : Kept(q)
        /\ \A q \in Run \ {r} : ledger'[q] = ledger[q]
        /\ Len(ledger'[r]) = n + 1
    BY <1>1, <1>6, AppendedKeeps
  <2>2. ASSUME NEW q \in Run \ overtaken', NEW k \in 1 .. Len(ledger'[q])
        PROVE  FreshAt(q, k)'
    <3>1. CASE k \in 1 .. Len(ledger[q])
      BY <1>4, <2>1, <3>1
    <3>2. CASE k \notin 1 .. Len(ledger[q])
      <4>1. q = r
        BY <2>1, <3>2
      <4>2. k = n + 1
        BY <1>6, <2>1, <3>2, <4>1
      <4>3. QED
        BY <1>6, <4>1, <4>2
    <3>3. QED
      BY <3>1, <3>2
  <2>3. QED
    BY <2>2 DEF Fresh
<1>7. ASSUME NEW r \in Run, NEW event \in Audit, Appended(r, event)
      PROVE  Fresh'
  <2>1. PICK n \in Nat : n = Len(ledger[r])
    BY <1>1
  <2>2. event \in Event /\ event.kind # "review"
    BY DEF Event, Audit
  <2>3. ledger'[r][n + 1] = event
    BY <1>1, <1>7, <2>1, <2>2, AppendedKeeps
  <2>4. FreshAt(r, n + 1)'
    BY <2>2, <2>3 DEF FreshAt
  <2>5. QED
    BY <1>6, <1>7, <2>1, <2>2, <2>4
<1>8. ASSUME NEW r \in Run, NEW i \in Item, NEW d \in Decision, ReviewCandidate(r, i, d)
      PROVE  Fresh'
  <2> DEFINE event == [kind |-> "review", item |-> i, decision |-> d]
  <2>1. PICK n \in Nat : n = Len(ledger[r])
    BY <1>1
  <2>2. event \in Event /\ Appended(r, event)
    BY <1>8 DEF Event, Review, Appended, ReviewCandidate
  <2>3. ledger'[r][n + 1] = event /\ Kept(r)
    BY <1>1, <2>1, <2>2, AppendedKeeps
  <2>4. ASSUME r \notin overtaken' PROVE FreshAt(r, n + 1)'
    <3>1. /\ Permitted(r, n, i, d)
          /\ \A id \in Promotions(r, n) :
                i \in Candidates(id) => Status(r, n, id) \in {"failed", "rolled_back"}
      BY <1>1, <1>8, <2>1, <2>4, FreshReview
    <3>2. PICK m \in 0 .. Len(ledger[r]) : m = n
      BY <2>1
    <3>3. /\ Promotions(r, m)' = Promotions(r, m)
          /\ \A id \in Promotions(r, m) : Status(r, m, id)' = Status(r, m, id)
          /\ \A j : Decided(r, m, j)' = Decided(r, m, j)
      BY <1>1, <2>3, PrefixStays
    <3>4. Permitted(r, n, i, d)'
      BY <3>1, <3>2, <3>3 DEF Permitted
    <3>5. \A id \in Promotions(r, n)' :
                i \in Candidates(id) => Status(r, n, id)' \in {"failed", "rolled_back"}
      BY <3>1, <3>2, <3>3
    <3>6. /\ ledger'[r][n + 1].item = i /\ ledger'[r][n + 1].decision = d
          /\ (n + 1) - 1 = n
      BY <2>3
    <3>7. QED
      BY <3>4, <3>5, <3>6 DEF FreshAt, Permitted, Candidates, Rows
  <2>5. QED
    BY <1>6, <2>1, <2>2, <2>4
<1>9. QED
  BY <1>5, <1>7, <1>8, LedgerSteps DEF ValidInv, ValidateRepairs, NothingToRecover

\* The heads in the steps that append nothing.
LEMMA AnchorsNext ==
    ASSUME ValidInv, [Next]_vars
    PROVE  AnchorsInv'
<1>1. LedgersOK /\ AnchorsInv /\ \A r \in Run : Len(ledger[r]) \in Nat /\ head[r] \in Nat
  BY TypeParts DEF ValidInv, LedgersOK
<1>2. ASSUME NEW r \in Run, NEW event \in Event, Appended(r, event), validating' = validating
      PROVE  AnchorsInv'
  <2>1. /\ \A q \in Run \ {r} : ledger'[q] = ledger[q]
        /\ Len(ledger'[r]) = Len(ledger[r]) + 1
    BY <1>1, <1>2, AppendedKeeps
  <2>2. /\ \A q \in Run \ {r} : head'[q] = head[q]
        /\ head'[r] \in {Len(ledger[r]) + 1, Len(ledger[r]), head[r]}
    BY <1>1, <1>2 DEF Appended, LogOk, LogRaisesAfterValidation, LogRaises, Log, LedgersOK
  <2>3. \A q \in Run : head'[q] <= Len(ledger'[q])
    BY <1>1, <2>1, <2>2 DEF AnchorsInv, Anchored
  <2>4. \A q \in Run, m \in Nat : m <= Len(ledger[q]) => m <= Len(ledger'[q])
    BY <1>1, <2>1
  <2>5. validating # <<>> => validating[1] \in Run /\ validating[2] \in Nat
    BY <1>1 DEF LedgersOK
  <2>6. validating' # <<>> => validating'[2] <= Len(ledger'[validating'[1]])
    BY <1>1, <1>2, <2>4, <2>5 DEF AnchorsInv
  <2>7. QED
    BY <2>3, <2>6 DEF AnchorsInv, Anchored
<1>3. ASSUME NEW r \in Run, NEW i \in Item, NEW d \in Decision, ReviewCandidate(r, i, d)
      PROVE  AnchorsInv'
  BY <1>2, <1>3 DEF Event, Review, Appended, ReviewCandidate
<1>4. ASSUME NEW r \in Run, NEW event \in Audit, Appended(r, event), validating' = validating
      PROVE  AnchorsInv'
  BY <1>2, <1>4 DEF Event
<1>5. CASE UNCHANGED <<ledger, head>>
  <2>1. ~ValidateRepairs \/ validating' = <<>>
    BY DEF ValidateRepairs
  <2>2. \/ validating' \in {validating, <<>>}
        \/ \E r \in Run : ValidateReads(r)
    BY DEF Next, ReviewCandidate, ValidateRepairs, Promoter, Start, TakePackageLock,
       NothingToRecover, Recover, Prepare, Replace, ReplaceFails, Commit, CommitFails, Restore,
       RollBack, Stop, vars
  <2>3. ASSUME NEW r \in Run, ValidateReads(r) PROVE AnchorsInv'
    BY <1>1, <2>3 DEF ValidateReads, AnchorsInv, Anchored
  <2>4. QED
    BY <1>1, <1>5, <2>2, <2>3 DEF AnchorsInv, Anchored
<1>6. CASE ValidateRepairs
  <2>1. validating[1] \in Run /\ validating[2] \in Nat
    BY <1>1, <1>6 DEF LedgersOK, ValidateRepairs
  <2>2. QED
    BY <1>1, <1>6, <2>1 DEF ValidateRepairs, AnchorsInv, Anchored, LedgersOK
<1>7. ASSUME NEW p \in Proc, NEW r \in Run, NothingToRecover(p, r) PROVE AnchorsInv'
  BY <1>1, <1>7 DEF NothingToRecover, AnchorsInv, Anchored, LedgersOK
<1>8. QED
  BY <1>3, <1>4, <1>5, <1>6, <1>7, LedgerSteps DEF ValidInv

LEMMA ValidNext == ASSUME ValidInv, [Next]_vars PROVE ValidInv'
BY TypeNext, PromotingNext, FreshNext, AnchorsNext DEF ValidInv

LEMMA ValidInit == Init => ValidInv
<1>1. SUFFICES ASSUME Init PROVE ValidInv
  OBVIOUS
<1>2. \A r \in Run : Len(ledger[r]) = 0 /\ head[r] = 0
  BY <1>1 DEF Init
<1>3. Fresh /\ AnchorsInv
  BY <1>1, <1>2 DEF Fresh, AnchorsInv, Anchored, Init
<1>4. QED
  BY <1>1, <1>3, TypeInit DEF ValidInv

LEMMA ValidHere == ValidInv => ValidUnlessOvertaken
<1>1. SUFFICES ASSUME ValidInv, NEW r \in Run \ overtaken PROVE Valid(r)
  BY DEF ValidUnlessOvertaken
<1>2. ASSUME NEW k \in 1 .. Len(ledger[r]), ledger[r][k].kind = "review"
      PROVE  /\ ledger[r][k].item \notin Frozen(r, k - 1)
             /\ Permitted(r, k - 1, ledger[r][k].item, ledger[r][k].decision)
  <2>1. FreshAt(r, k)
    BY <1>1 DEF ValidInv, Fresh
  <2>2. QED
    BY <1>2, <2>1 DEF FreshAt, Frozen
<1>3. Anchored(r)
  BY <1>1 DEF ValidInv, AnchorsInv
<1>4. QED
  BY <1>2, <1>3 DEF Valid

\* What the commands write stays a run that validate_run accepts, however
\* appends fail and heads are repaired, unless a review came in between the
\* prepare and the end of a promotion of that run.
THEOREM ValidStays == Spec => []ValidUnlessOvertaken
BY ValidInit, ValidNext, ValidHere, PTL DEF Spec
================================================================================
