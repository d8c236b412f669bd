------------------------- MODULE StrategyRegisterProofs -------------------------
(***************************************************************************)
(* When the database always answers what it did, and a published release   *)
(* can always be inspected, the publication implements ReleaseRegister:    *)
(* the date is published once.  Both hypotheses are needed: without the    *)
(* first a committed transaction is rolled back on disk, without the       *)
(* second a call builds over a release it could not see.                   *)
(***************************************************************************)
EXTENDS StrategyPublishProofs

USE ConstantsAssumption DEF None, Legacy, Canonical, LegacyHome

\* No answer of the database is lost and no inspection fails.
Reliable == ~CommitAckLost /\ ~ProbeFails

--------------------------------------------------------------------------------

\* Who publishes has seen that the date is not published yet, and nobody
\* publishes it meanwhile.
Unpublished(p) ==
    pc[p] \in Publishing \ {"committed"} => db.status # "success"

\* Who has read a success row may still rely on it.
Looking(p) == pc[p] = "summary" => db.status = "success"

RegisterInv ==
    /\ RegisteredIsVisible
    /\ \A p \in Proc : Unpublished(p) /\ Looking(p)

LEMMA RegisterInit == Init => RegisterInv
<1> SUFFICES ASSUME Init PROVE RegisterInv
  OBVIOUS
<1>1. \A p \in Proc : Unpublished(p) /\ Looking(p)
  BY DEF Init, Unpublished, Looking, Publishing
<1>2. link \in Place
  BY DEF Init, Place
<1>3. Visible \in {None, Legacy} /\ db \in InitRow(Visible)
  BY <1>2 DEF Init, Visible
<1>4. RegisteredIsVisible
  BY <1>3 DEF InitRow, NoRow, RegisteredIsVisible
<1>5. QED
  BY <1>1, <1>4 DEF RegisterInv

LEMMA RegisterStuttering == RegisterInv /\ UNCHANGED vars => RegisterInv'
BY DEF RegisterInv, RegisteredIsVisible, Unpublished, Looking, Visible, vars,
       files

\* Only these actions write the rows.
LEMMA RowWriters ==
    ASSUME NEW p \in Proc, Act(p), db' # db
    PROVE  Transact(p) \/ BestEffortStatus(p) \/ RejectStatus(p)
BY DEF Act, Step, Start, DeadlinePasses, Crash, ReadRow, ReadSummary, Acquire,
       Blocked, Build, Switch, SwitchRaises, Finish, Rollback,
       RollbackRaises, PersistFailure, Cleanup

\* Nothing touches the rows or the release of a registered date.
LEMMA RegisteredKept ==
    ASSUME BaseInv, RegisterInv, NEW p \in Proc, Act(p),
           db.status = "success"
    PROVE  db' = db /\ Visible' = Visible
<1>1. pc[p] \notin Publishing \ {"committed"}
  BY DEF RegisterInv, Unpublished
<1>2. CASE pc[p] \notin Publishing
  BY <1>2, OutsideLock DEF BaseInv, Visible
<1>3. CASE pc[p] = "committed"
  <2>1. Finish(p) \/ UNCHANGED <<files, db>>
    BY <1>3 DEF Act, Step, Start, DeadlinePasses, Crash, ReadRow,
       ReadSummary, Acquire, Blocked, Build, Switch, SwitchRaises, Transact,
       Rollback, RollbackRaises, PersistFailure, Cleanup, BestEffortStatus,
       RejectStatus
  <2>2. Visible = call[p]
    BY <1>3 DEF BaseInv, ProgressInv, Progress
  <2>3. QED
    BY <2>1, <2>2, FinishKeepsRelease DEF Visible, files
<1>4. QED
  BY <1>1, <1>2, <1>3

LEMMA RegisterNext ==
    ASSUME Reliable, BaseInv, RegisterInv, NEW p \in Proc, Act(p)
    PROVE  RegisterInv'
<1>1. RegisteredIsVisible'
  <2>1. CASE db.status = "success"
    BY <2>1, RegisteredKept DEF RegisterInv, RegisteredIsVisible
  <2>2. CASE db.status # "success" /\ db' = db
    BY <2>2 DEF RegisteredIsVisible
  <2>3. CASE BestEffortStatus(p) \/ RejectStatus(p)
    <3>1. db' \in {db, FailedRow(p)}
      BY <2>3 DEF BestEffortStatus, RejectStatus
    <3>2. QED
      BY <2>1, <2>2, <3>1 DEF FailedRow, RegisteredIsVisible
  <2>4. CASE Transact(p) /\ db' # db
    <3>1. /\ db' = [status |-> "success", run |-> call[p], manifest |-> call[p]]
          /\ Visible' = Visible
      BY <2>4 DEF Transact, Visible, files
    <3>2. Visible = call[p] /\ call[p] # None
      BY <2>4
         DEF BaseInv, ProgressInv, Progress, Numbered, Transact, Call
    <3>3. QED
      BY <3>1, <3>2 DEF RegisteredIsVisible
  <2>5. QED
    BY <2>1, <2>2, <2>3, <2>4, RowWriters
<1>2. ASSUME NEW q \in Proc, q # p PROVE Unpublished(q)' /\ Looking(q)'
  <2>1. Kept(q)
    BY <1>2, OthersKept DEF BaseInv
  <2>2. Looking(q)'
    BY <2>1, RegisteredKept DEF Kept, RegisterInv, Looking
  <2>3. ASSUME pc[q] \in Publishing PROVE Unpublished(q)'
    BY <1>2, <2>1, <2>3, Alone, OutsideLock
       DEF BaseInv, Kept, RegisterInv, Unpublished
  <2>4. ASSUME pc[q] \notin Publishing PROVE Unpublished(q)'
    BY <2>1, <2>4 DEF Kept, Unpublished
  <2>5. QED
    BY <2>2, <2>3, <2>4
<1>3. Unpublished(p)' /\ Looking(p)'
  <2>0. Unpublished(p) /\ Looking(p) /\ TypeOK
    BY DEF RegisterInv, BaseInv
  <2> DEFINE Goal == Unpublished(p)' /\ Looking(p)'
  <2>1. ASSUME NEW how, NEW release, End(p, how, release) PROVE Goal
    BY <2>0, <2>1 DEF End, TypeOK, Unpublished, Looking, Publishing
  <2>2. ASSUME NEW step, Goto(p, step), step \notin {"summary", "committed"},
               db'.status # "success" \/ step \notin Publishing
        PROVE  Goal
    BY <2>0, <2>2 DEF Goto, TypeOK, Unpublished, Looking
  <2>3. ASSUME NotPublished(p), db' = db, db.status # "success" PROVE Goal
    BY <2>1, <2>2, <2>3 DEF NotPublished
  <2>4. ASSUME ReadRow(p) PROVE Goal
    <3>1. CASE db.status = "success" /\ Goto(p, "summary")
      BY <2>0, <2>4, <3>1
         DEF ReadRow, Goto, TypeOK, Unpublished, Looking, Publishing
    <3>2. CASE db.status # "success" /\ NotPublished(p)
      BY <2>3, <2>4, <3>2 DEF ReadRow
    <3>3. QED
      BY <2>4, <3>1, <3>2 DEF ReadRow, Reliable
  <2>5. ASSUME ReadSummary(p) PROVE Goal
    <3>1. Visible # None
      BY <2>0, <2>5
         DEF ReadSummary, Looking, RegisterInv, RegisteredIsVisible
    <3>2. QED
      BY <2>1, <2>5, <3>1 DEF ReadSummary, Reliable
  <2>6. ASSUME Acquire(p) \/ Blocked(p) PROVE Goal
    BY <2>0, <2>6
       DEF Acquire, Blocked, Goto, TypeOK, Unpublished, Looking, Publishing
  <2>7. ASSUME Build(p) \/ Switch(p) \/ SwitchRaises(p) \/ Rollback(p)
               \/ RollbackRaises(p) \/ PersistFailure(p)
        PROVE  Goal
    <3>1. db.status # "success" /\ db' = db
      BY <2>0, <2>7
         DEF Unpublished, Publishing, Build, Switch, SwitchRaises, Rollback,
             RollbackRaises, PersistFailure
    <3>2. QED
      BY <2>1, <2>2, <2>7, <3>1
         DEF Build, Switch, SwitchRaises, Rollback, RollbackRaises,
             PersistFailure
  <2>8. ASSUME Transact(p) PROVE Goal
    <3>1. db.status # "success"
      BY <2>0, <2>8 DEF Unpublished, Publishing, Transact
    <3>2. CASE Goto(p, "committed")
      BY <2>0, <3>2 DEF Goto, TypeOK, Unpublished, Looking
    <3>3. CASE db' = db /\ Goto(p, "rollback")
      BY <2>2, <3>1, <3>3
    <3>4. QED
      BY <2>8, <3>2, <3>3 DEF Transact, Reliable
  <2>9. ASSUME Cleanup(p) \/ BestEffortStatus(p) \/ RejectStatus(p)
        PROVE  Goal
    <3>1. db'.status # "success"
      BY <2>0, <2>9
         DEF Unpublished, Publishing, Cleanup, BestEffortStatus,
             RejectStatus, FailedRow
    <3>2. QED
      BY <2>1, <2>2, <2>9, <3>1 DEF Cleanup, BestEffortStatus, RejectStatus
  <2>10. ASSUME Step(p) PROVE Goal
    <3>1. ASSUME Finish(p) PROVE Goal
      BY <2>1, <3>1 DEF Finish
    <3>2. QED
      BY <2>4, <2>5, <2>6, <2>7, <2>8, <2>9, <2>10, <3>1, Zenon DEF Step
  <2>11. ASSUME Start(p) \/ Crash(p) \/ DeadlinePasses(p) PROVE Goal
    BY <2>0, <2>1, <2>11
       DEF Start, Crash, DeadlinePasses, TypeOK, Unpublished, Looking,
           Publishing
  <2>12. QED
    BY <2>10, <2>11, Zenon DEF Act
<1>4. QED
  BY <1>1, <1>2, <1>3 DEF RegisterInv

LEMMA RegisterCorrect ==
    ASSUME Reliable PROVE Spec => [](BaseInv /\ RegisterInv)
<1>1. BaseInv /\ RegisterInv /\ [Next]_vars => RegisterInv'
  BY RegisterNext, RegisterStuttering DEF Next, Act
<1>2. QED
  BY RegisterInit, BaseCorrect, <1>1, PTL DEF Spec

\* A success row names the release the canonical path leads to, and so do the
\* manifest rows.
THEOREM RowsTellTheTruth ==
    ASSUME Reliable PROVE Spec => []RegisteredIsVisible
<1>1. RegisterInv => RegisteredIsVisible
  BY DEF RegisterInv
<1>2. QED
  BY RegisterCorrect, <1>1, PTL

\* A call that returns success or finds the date published reports the
\* registered release.
THEOREM AnswersCorrect ==
    ASSUME Reliable PROVE Spec => AnswersAreRegistered
<1> DEFINE Answered(p) ==
          /\ db'.status = "success"
          /\ db'.run = result'[p].release
          /\ Visible' = result'[p].release
<1> DEFINE Good == \A p \in Proc :
          Ends(p) /\ result'[p].how \in {"success", "published"} => Answered(p)
<1>1. ASSUME BaseInv, RegisterInv, NEW p \in Proc, Act(p) PROVE Good
  <2> SUFFICES ASSUME NEW q \in Proc, Ends(q),
                      result'[q].how \in {"success", "published"}
               PROVE  Answered(q)
    OBVIOUS
  <2>1. CASE Finish(p) /\ p = q /\ result'[p].release = call[p]
    <3>1. Progress(p) /\ pc[p] = "committed"
      BY <1>1, <2>1 DEF BaseInv, ProgressInv, Finish
    <3>2. QED
      BY <1>1, <2>1, <3>1, FinishKeepsRelease DEF Progress
  <2>2. CASE /\ ReadSummary(p)
             /\ p = q
             /\ UNCHANGED <<link, dirs, db>>
             /\ result'[p].release = Visible
    BY <1>1, <2>2
       DEF ReadSummary, RegisterInv, Looking, RegisteredIsVisible, Visible
  <2>3. QED
    BY <1>1, <2>1, <2>2, Endings DEF BaseInv
<1>2. BaseInv /\ RegisterInv /\ [Next]_vars => [Good]_vars
  BY <1>1 DEF Next, Act
<1>3. QED
  BY RegisterCorrect, <1>2, PTL DEF Spec, AnswersAreRegistered

\* The publication of a date implements the write-once register.
THEOREM PublicationIsWriteOnce ==
    ASSUME Reliable PROVE Spec => PublishesOnce
<1>1. BaseInv => Registered \in Content
  BY Zero DEF BaseInv, TypeOK, Registered, Visible
<1>2. BaseInv => Register!Init
  BY <1>1 DEF Register!Init, Register!Unregistered
<1>3. BaseInv /\ RegisterInv /\ BaseInv' /\ [Next]_vars
        => [Register!Next]_Registered
  <2> SUFFICES ASSUME BaseInv, RegisterInv, BaseInv', [Next]_vars,
                      Registered' # Registered
               PROVE  Register!Next
    OBVIOUS
  <2>1. PICK p \in Proc : Act(p)
    BY DEF vars, files, Registered, Visible, Next, Act
  <2>2. Registered = None
    BY <2>1, RegisteredKept DEF Registered
  <2>3. Registered' \in Content \ {None}
    BY <1>1, <2>2 DEF Registered, BaseInv, TypeOK, Visible
  <2>4. QED
    BY <2>2, <2>3
       DEF Register!Next, Register!Register, Register!Unregistered
<1>4. QED
  BY RegisterCorrect, <1>2, <1>3, PTL DEF Spec, PublishesOnce, Register!Spec
================================================================================
