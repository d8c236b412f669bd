------------------------- MODULE StrategyPublishProofs -------------------------
(***************************************************************************)
(* Theorems about StrategyPublish, for every number of processes, of calls *)
(* and of retained versions.                                               *)
(***************************************************************************)
EXTENDS StrategyPublish, TLAPS

USE ConstantsAssumption DEF None, Legacy, Canonical, LegacyHome

--------------------------------------------------------------------------------
(* Type correctness. *)

\* The part of TypeOK about the locals of the calls.
LocalsOK ==
    /\ call \in [Proc -> 0 .. MaxCalls]
    /\ look \in [Proc -> Looks]
    /\ late \in [Proc -> BOOLEAN]
    /\ base \in [Proc -> Content]
    /\ mode \in [Proc -> Modes]
    /\ oldLink \in [Proc -> Place]
    /\ fate \in [Proc -> Fates]

\* The part of TypeOK that Goto and End write.
ControlOK ==
    /\ calls \in 0 .. MaxCalls
    /\ lock \in Proc \cup {Free}
    /\ pc \in [Proc -> Steps]
    /\ result \in [Proc -> Result]

FilesOK == link \in Place /\ dirs \in [Place -> Content]

RowsOK == db \in Row /\ audits \subseteq Call

LEMMA TypeParts ==
    TypeOK <=> ControlOK /\ LocalsOK /\ FilesOK /\ RowsOK
BY DEF TypeOK, ControlOK, LocalsOK, FilesOK, RowsOK

\* A call in progress has a number.
Numbered == \A p \in Proc : pc[p] # "idle" => call[p] \in Call

LEMMA Zero == 0 \in Content /\ 0 \in Place
BY DEF Content, Place

\* The types of the values the actions write.
LEMMA Values ==
    ASSUME TypeOK, NEW p \in Proc
    PROVE  /\ call[p] \in Place /\ call[p] \in Content
           /\ Visible \in Content
           /\ SwitchMode \in Modes
           /\ FailedRow(p) \in Row
<1>1. call[p] \in Place /\ call[p] \in Content
  BY DEF TypeOK, Place, Content, Call
<1>2. Visible \in Content
  BY DEF TypeOK, Visible
<1>3. SwitchMode \in Modes
  BY DEF SwitchMode, Modes
<1>4. FailedRow(p) \in Row
  BY <1>1 DEF TypeOK, FailedRow, Row
<1>5. QED
  BY <1>1, <1>2, <1>3, <1>4

LEMMA GotoTypes ==
    ASSUME TypeOK, NEW p \in Proc, NEW step \in Steps, Goto(p, step)
    PROVE  ControlOK'
BY DEF TypeOK, ControlOK, Goto

LEMMA EndTypes ==
    ASSUME TypeOK, NEW p \in Proc, NEW release \in Content,
           NEW how \in {"published", "success", "failed", "raised", "crashed"},
           End(p, how, release)
    PROVE  ControlOK' /\ LocalsOK'
<1>1. [how |-> how, release |-> release] \in Result
  BY DEF Result
<1>2. ControlOK'
  BY <1>1 DEF TypeOK, ControlOK, End, Steps
<1>3. LocalsOK'
  BY Values, Zero DEF TypeOK, LocalsOK, End, Fresh, Looks, Modes, Fates
<1>4. QED
  BY <1>2, <1>3

LEMMA SameLocals ==
    ASSUME TypeOK, UNCHANGED locals PROVE LocalsOK'
BY DEF TypeOK, LocalsOK, locals

LEMMA FateTypes ==
    ASSUME TypeOK, NEW p \in Proc, NEW why \in Fates, SetFate(p, why)
    PROVE  LocalsOK'
BY DEF TypeOK, LocalsOK, SetFate

LEMMA NotPublishedTypes ==
    ASSUME TypeOK, NEW p \in Proc, NotPublished(p)
    PROVE  ControlOK' /\ LocalsOK'
<1>1. {"build", "lock"} \subseteq Steps
  BY DEF Steps
<1>2. CASE End(p, "raised", None)
  BY <1>2, EndTypes, Values, Zero
<1>3. CASE /\ Goto(p, IF look[p] = "held" THEN "build" ELSE "lock")
           /\ UNCHANGED locals
  BY <1>1, <1>3, GotoTypes, SameLocals
<1>4. QED
  BY <1>2, <1>3 DEF NotPublished

\* The ways the directories change keep their types.
LEMMA FileTypes ==
    ASSUME TypeOK, NEW p \in Proc
    PROVE  /\ DoSwitch(call[p]) => FilesOK'
           /\ Undo(p) => FilesOK'
           /\ UNCHANGED files => FilesOK'
<1>1. Canonical \in Place /\ call[p] \in Place /\ oldLink[p] \in Place
  BY Values, Zero DEF TypeOK
<1>2. ASSUME NEW d \in Place, Relink(d) PROVE FilesOK'
  BY <1>2 DEF TypeOK, FilesOK, Relink
<1>3. ASSUME NEW c \in Place, Exchange(c) PROVE FilesOK'
  BY <1>1, <1>3 DEF TypeOK, FilesOK, Exchange
<1>4. QED
  BY <1>1, <1>2, <1>3 DEF TypeOK, FilesOK, DoSwitch, Undo, files

LEMMA TypeInit == Init => TypeOK /\ Numbered
<1> SUFFICES ASSUME Init PROVE TypeOK /\ Numbered
  OBVIOUS
<1>1. NoResult \in Result
  BY DEF NoResult, Result, Content
<1>2. link \in Place /\ dirs \in [Place -> Content]
  BY DEF Init, Place, Content
<1>3. db \in Row
  BY <1>2 DEF Init, InitRow, NoRow, Row, Content
<1>4. QED
  BY <1>1, <1>2, <1>3, Zero
     DEF Init, TypeOK, Numbered, Steps, Looks, Modes, Fates

LEMMA NumberedNext ==
    TypeOK /\ Numbered /\ [Next]_vars => Numbered'
<1> SUFFICES ASSUME TypeOK, Numbered, [Next]_vars PROVE Numbered'
  OBVIOUS
<1>1. ASSUME NEW p \in Proc, Start(p) PROVE Numbered'
  BY <1>1 DEF TypeOK, Numbered, Start, Fresh, Call
<1>2. ASSUME NEW p \in Proc, NEW how, NEW release, End(p, how, release)
      PROVE  Numbered'
  BY <1>2 DEF TypeOK, Numbered, End, Fresh
<1>3. ASSUME NEW p \in Proc, NEW step, Goto(p, step), pc[p] # "idle",
             UNCHANGED call
      PROVE  Numbered'
  BY <1>3 DEF TypeOK, Numbered, Goto
<1>4. ASSUME NEW p \in Proc, NotPublished(p), pc[p] # "idle" PROVE Numbered'
  BY <1>2, <1>3, <1>4 DEF NotPublished, locals
<1>5. ASSUME NEW p \in Proc, Step(p) PROVE Numbered'
  BY <1>2, <1>3, <1>4, <1>5
     DEF Step, ReadRow, ReadSummary, Acquire, Blocked, Build, Switch,
         SwitchRaises, Transact, Finish, Rollback, RollbackRaises,
         PersistFailure, Cleanup, BestEffortStatus, RejectStatus, SetFate,
         locals, TypeOK, Numbered
<1>6. ASSUME NEW p \in Proc, DeadlinePasses(p) PROVE Numbered'
  BY <1>6 DEF Numbered, DeadlinePasses
<1>7. ASSUME NEW p \in Proc, Crash(p) PROVE Numbered'
  BY <1>2, <1>7 DEF Crash
<1>8. CASE UNCHANGED vars
  BY <1>8 DEF Numbered, vars, locals
<1>9. QED
  BY <1>1, <1>5, <1>6, <1>7, <1>8 DEF Next

LEMMA TypeNext == TypeOK /\ Numbered /\ [Next]_vars => TypeOK' /\ Numbered'
<1> SUFFICES ASSUME TypeOK, Numbered, [Next]_vars PROVE TypeOK' /\ Numbered'
  OBVIOUS
<1>1. Numbered'
  BY NumberedNext
<1>2. ControlOK /\ LocalsOK /\ FilesOK /\ RowsOK
  BY TypeParts
<1> DEFINE Goal == ControlOK' /\ LocalsOK' /\ FilesOK' /\ RowsOK'
<1>3. Steps = {"idle", "row", "summary", "lock", "build", "ready", "switched",
               "committed", "rollback", "audit", "status", "cleanup"}
  BY DEF Steps
<1>4. UNCHANGED <<db, audits>> => RowsOK'
  BY <1>2 DEF RowsOK
<1>5. UNCHANGED <<files, db, audits>> => FilesOK' /\ RowsOK'
  BY <1>2 DEF FilesOK, RowsOK, files
<1>6. ASSUME NEW p \in Proc, Start(p) PROVE Goal
  <2>1. NoResult \in Result
    BY DEF NoResult, Result, Content
  <2>2. ControlOK'
    BY <1>6, <2>1, <1>3 DEF TypeOK, Start, ControlOK
  <2>3. LocalsOK'
    BY <1>6, Values, Zero DEF TypeOK, Start, Fresh, LocalsOK, Looks, Modes, Fates
  <2>4. QED
    BY <1>6, <2>2, <2>3, <1>5 DEF Start
<1>7. ASSUME NEW p \in Proc, DeadlinePasses(p) PROVE Goal
  BY <1>7, <1>5 DEF TypeOK, ControlOK, LocalsOK, DeadlinePasses
<1>8. ASSUME NEW p \in Proc, ReadRow(p) PROVE Goal
  BY <1>8, <1>3, <1>5, NotPublishedTypes, GotoTypes, SameLocals DEF ReadRow
<1>9. ASSUME NEW p \in Proc, ReadSummary(p) PROVE Goal
  BY <1>9, <1>5, NotPublishedTypes, EndTypes, Values, Zero DEF ReadSummary
<1>10. ASSUME NEW p \in Proc, Acquire(p) PROVE Goal
  BY <1>10, <1>3, <1>5, Values, Zero DEF TypeOK, ControlOK, LocalsOK, Acquire, Looks
<1>11. ASSUME NEW p \in Proc, Blocked(p) PROVE Goal
  BY <1>11, <1>3, <1>5, GotoTypes DEF TypeOK, LocalsOK, Blocked, Looks
<1>12. ASSUME NEW p \in Proc, Build(p) PROVE Goal
  <2>1. FilesOK'
    BY <1>12, Values, Zero DEF TypeOK, FilesOK, Build
  <2>2. ControlOK' /\ LocalsOK'
    BY <1>12, <1>3, GotoTypes, SameLocals, EndTypes, FateTypes, Values, Zero
       DEF Build, Fates
  <2>3. QED
    BY <1>12, <2>1, <2>2, <1>4 DEF Build
<1>13. ASSUME NEW p \in Proc, Switch(p) PROVE Goal
  <2>1. LocalsOK'
    BY <1>13, Values, Zero DEF TypeOK, LocalsOK, Switch
  <2>2. QED
    BY <1>13, <2>1, <1>3, <1>4, GotoTypes, FileTypes DEF Switch
<1>14. ASSUME NEW p \in Proc, SwitchRaises(p) PROVE Goal
  BY <1>14, <1>3, <1>4, GotoTypes, FileTypes, FateTypes
     DEF SwitchRaises, Fates
<1>15. ASSUME NEW p \in Proc, Transact(p) PROVE Goal
  <2>1. RowsOK'
    BY <1>15, Values, Zero DEF TypeOK, Transact, RowsOK, Row
  <2>2. QED
    BY <1>15, <2>1, <1>3, GotoTypes, FileTypes, SameLocals DEF Transact
<1>16. ASSUME NEW p \in Proc, Finish(p) PROVE Goal
  <2>1. FilesOK'
    BY <1>16, Values, Zero DEF TypeOK, FilesOK, Finish
  <2>2. QED
    BY <1>16, <2>1, <1>4, EndTypes, Values, Zero DEF Finish
<1>17. ASSUME NEW p \in Proc, Rollback(p) PROVE Goal
  BY <1>17, <1>3, <1>4, GotoTypes, FileTypes, FateTypes DEF Rollback, Fates
<1>18. ASSUME NEW p \in Proc, RollbackRaises(p) PROVE Goal
  BY <1>18, <1>3, <1>4, GotoTypes, FileTypes, FateTypes
     DEF RollbackRaises, Fates
<1>19. ASSUME NEW p \in Proc, PersistFailure(p) PROVE Goal
  <2>1. RowsOK'
    BY <1>19, <1>2 DEF PersistFailure, RowsOK, Numbered
  <2>2. QED
    BY <1>19, <2>1, <1>3, GotoTypes, FileTypes, EndTypes, SameLocals, Values, Zero
       DEF PersistFailure
<1>20. ASSUME NEW p \in Proc, Cleanup(p) PROVE Goal
  <2>1. FilesOK'
    BY <1>20, Values, Zero DEF TypeOK, FilesOK, Cleanup
  <2>2. QED
    BY <1>20, <2>1, <1>3, <1>4, GotoTypes, EndTypes, SameLocals, Values, Zero
       DEF Cleanup
<1>21. ASSUME NEW p \in Proc, BestEffortStatus(p) PROVE Goal
  <2>1. RowsOK'
    BY <1>21, <1>2, Values, Zero DEF RowsOK, BestEffortStatus
  <2>2. QED
    BY <1>21, <2>1, <1>3, GotoTypes, FileTypes, EndTypes, SameLocals, Values, Zero
       DEF BestEffortStatus
<1>22. ASSUME NEW p \in Proc, RejectStatus(p) PROVE Goal
  <2>1. RowsOK'
    BY <1>22, <1>2, Values, Zero DEF RowsOK, RejectStatus
  <2>2. QED
    BY <1>22, <2>1, FileTypes, EndTypes, Values, Zero DEF RejectStatus
<1>23. ASSUME NEW p \in Proc, Crash(p) PROVE Goal
  BY <1>23, <1>5, EndTypes, Values, Zero DEF Crash
<1>24. ASSUME NEW p \in Proc, Step(p) PROVE Goal
  BY <1>8, <1>9, <1>10, <1>11, <1>12, <1>13, <1>14, <1>15, <1>16, <1>17,
     <1>18, <1>19, <1>20, <1>21, <1>22, <1>24, Zenon DEF Step
<1>25. ASSUME UNCHANGED vars PROVE Goal
  BY <1>25, <1>2 DEF vars, locals, files, ControlOK, LocalsOK, FilesOK, RowsOK
<1>26. Goal
  BY <1>6, <1>7, <1>23, <1>24, <1>25, Zenon DEF Next
<1>27. QED
  BY <1>1, <1>26 DEF TypeOK, ControlOK, LocalsOK, FilesOK, RowsOK

\* The state of the publication always has the types TypeOK gives it.
THEOREM TypeCorrect == Spec => []TypeOK
BY TypeInit, TypeNext, PTL DEF Spec

--------------------------------------------------------------------------------
(* Mutual exclusion, and what follows from it: while a call is between the *)
(* acquisition and the release of the publish lock, only its own steps     *)
(* change the directories and the rows.                                    *)

\* The lock is p's exactly while p looks, or publishes, as its holder.
Locked(p) ==
    /\ lock = p <=> look[p] = "held"
    /\ pc[p] \in Publishing => look[p] = "held"
    /\ pc[p] \in {"idle", "lock"} => look[p] # "held"

LockInv == \A p \in Proc : Locked(p)

\* A step of the system is an Act of one process.
Act(p) == Start(p) \/ DeadlinePasses(p) \/ Step(p) \/ Crash(p)

\* The locals of q, pc[q] included, are what they were.
Kept(q) ==
    /\ pc'[q] = pc[q]        /\ call'[q] = call[q]
    /\ look'[q] = look[q]    /\ base'[q] = base[q]
    /\ mode'[q] = mode[q]    /\ oldLink'[q] = oldLink[q]
    /\ fate'[q] = fate[q]

LEMMA OthersKept ==
    ASSUME TypeOK, NEW p \in Proc, NEW q \in Proc, p # q, Act(p)
    PROVE  Kept(q)
<1>1. ASSUME NEW how, NEW release, End(p, how, release) PROVE Kept(q)
  BY <1>1 DEF TypeOK, Kept, End, Fresh
<1>2. ASSUME NEW step, Goto(p, step), UNCHANGED locals PROVE Kept(q)
  BY <1>2 DEF TypeOK, Kept, Goto, locals
<1>3. ASSUME NEW step, NEW why, Goto(p, step), SetFate(p, why) PROVE Kept(q)
  BY <1>3 DEF TypeOK, Kept, Goto, SetFate
<1>4. ASSUME NotPublished(p) PROVE Kept(q)
  BY <1>1, <1>2, <1>4 DEF NotPublished
<1>5. CASE Step(p)
  <2>1. ASSUME ReadRow(p) \/ ReadSummary(p) PROVE Kept(q)
    BY <1>1, <1>2, <1>4, <2>1 DEF ReadRow, ReadSummary
  <2>2. ASSUME Acquire(p) \/ Blocked(p) \/ Switch(p) PROVE Kept(q)
    BY <2>2 DEF TypeOK, Kept, Acquire, Blocked, Switch, Goto
  <2>3. ASSUME Build(p) \/ SwitchRaises(p) \/ Rollback(p) \/ RollbackRaises(p)
        PROVE  Kept(q)
    BY <1>1, <1>2, <1>3, <2>3 DEF Build, SwitchRaises, Rollback, RollbackRaises
  <2>4. ASSUME Transact(p) \/ Finish(p) \/ PersistFailure(p) \/ Cleanup(p)
               \/ BestEffortStatus(p) \/ RejectStatus(p)
        PROVE  Kept(q)
    BY <1>1, <1>2, <2>4
       DEF Transact, Finish, PersistFailure, Cleanup, BestEffortStatus,
           RejectStatus
  <2>5. QED
    BY <1>5, <2>1, <2>2, <2>3, <2>4 DEF Step
<1>6. CASE Start(p) \/ DeadlinePasses(p) \/ Crash(p)
  BY <1>1, <1>6 DEF TypeOK, Kept, Start, DeadlinePasses, Crash, Fresh
<1>7. QED
  BY <1>5, <1>6 DEF Act

LEMMA OutsideLock ==
    ASSUME TypeOK, NEW p \in Proc, Act(p), pc[p] \notin Publishing
    PROVE  UNCHANGED <<link, dirs, db, audits>>
BY DEF Act, Step, Publishing, Start, DeadlinePasses, Crash, ReadRow,
       ReadSummary, Acquire, Blocked, Build, Switch, SwitchRaises, Transact,
       Finish, Rollback, RollbackRaises, PersistFailure, Cleanup,
       BestEffortStatus, RejectStatus, files

LEMMA LockNext ==
    ASSUME TypeOK, LockInv, NEW p \in Proc, Act(p)
    PROVE  LockInv'
<1> DEFINE Others == \A q \in Proc \ {p} : lock' = q <=> lock = q
<1>1. ASSUME NEW how, NEW release, End(p, how, release)
      PROVE  Locked(p)' /\ Others
  BY <1>1 DEF TypeOK, LockInv, Locked, End, Fresh, Publishing
<1>2. ASSUME NEW step \in Steps, Goto(p, step), look' = look,
             step \in Publishing => look[p] = "held",
             step \in {"idle", "lock"} => look[p] # "held"
      PROVE  Locked(p)' /\ Others
  BY <1>2 DEF TypeOK, LockInv, Locked, Goto
<1>3. ASSUME NotPublished(p) PROVE Locked(p)' /\ Others
  BY <1>1, <1>2, <1>3 DEF NotPublished, locals, Publishing, Steps
<1>4. ASSUME ReadRow(p) \/ ReadSummary(p) PROVE Locked(p)' /\ Others
  BY <1>1, <1>2, <1>3, <1>4 DEF ReadRow, ReadSummary, locals, Publishing, Steps
<1>5. ASSUME Acquire(p) PROVE Locked(p)' /\ Others
  BY <1>5 DEF TypeOK, LockInv, Locked, Acquire, Publishing
<1>6. ASSUME Blocked(p) PROVE Locked(p)' /\ Others
  BY <1>6 DEF TypeOK, LockInv, Locked, Blocked, Goto, Publishing
<1>7. ASSUME Build(p) \/ Switch(p) \/ SwitchRaises(p) \/ Transact(p)
             \/ Finish(p) \/ Rollback(p) \/ RollbackRaises(p)
             \/ PersistFailure(p) \/ Cleanup(p) \/ BestEffortStatus(p)
             \/ RejectStatus(p)
      PROVE  Locked(p)' /\ Others
  <2>1. pc[p] \in Publishing
    BY <1>7 DEF Build, Switch, SwitchRaises, Transact, Finish, Rollback,
         RollbackRaises, PersistFailure, Cleanup, BestEffortStatus,
         RejectStatus, Publishing
  <2>2. look[p] = "held"
    BY <2>1 DEF LockInv, Locked
  <2>3. ASSUME NEW step \in Publishing, Goto(p, step), look' = look
        PROVE  Locked(p)' /\ Others
    BY <1>2, <2>2, <2>3 DEF Publishing, Steps
  <2>4. QED
    BY <1>1, <1>7, <2>3
       DEF Build, Switch, SwitchRaises, Transact, Finish, Rollback,
           RollbackRaises, PersistFailure, Cleanup, BestEffortStatus,
           RejectStatus, Publishing, SetFate, locals
<1>8. ASSUME Step(p) PROVE Locked(p)' /\ Others
  BY <1>4, <1>5, <1>6, <1>7, <1>8 DEF Step
<1>9. ASSUME Start(p) \/ DeadlinePasses(p) \/ Crash(p)
      PROVE  Locked(p)' /\ Others
  BY <1>1, <1>9
     DEF Start, DeadlinePasses, Crash, TypeOK, LockInv, Locked, Fresh,
         Publishing
<1>10. Locked(p)' /\ Others
  BY <1>8, <1>9, Zenon DEF Act
<1>11. ASSUME NEW q \in Proc, q # p PROVE Locked(q)'
  BY <1>10, <1>11, OthersKept DEF LockInv, Locked, Kept
<1>12. QED
  BY <1>10, <1>11 DEF LockInv

LEMMA LockInit == Init => LockInv
BY DEF Init, LockInv, Locked, Publishing

\* A publishing call holds the lock, so no other call does.
LEMMA Alone ==
    ASSUME LockInv, NEW p \in Proc, NEW q \in Proc, p # q,
           pc[p] \in Publishing
    PROVE  lock = p /\ lock # q /\ pc[q] \notin Publishing
BY DEF LockInv, Locked

LEMMA LockStuttering ==
    LockInv /\ UNCHANGED vars => LockInv'
BY DEF LockInv, Locked, vars, locals

\* Two calls are never between the acquisition and the release of the publish
\* lock, whatever crashes, raises or loses its answer.
THEOREM MutualExclusion == Spec => []SinglePublisher
<1>1. TypeOK /\ Numbered /\ LockInv /\ [Next]_vars
        => TypeOK' /\ Numbered' /\ LockInv'
  BY TypeNext, LockNext, LockStuttering DEF Next, Act
<1>2. LockInv => SinglePublisher
  BY Alone DEF SinglePublisher
<1>3. QED
  BY TypeInit, LockInit, <1>1, <1>2, PTL DEF Spec

--------------------------------------------------------------------------------
(* What a call that reports success has done, under any fault.             *)

\* What the holder of the lock knows of the release it stages and publishes.
Progress(p) ==
    /\ pc[p] = "ready" => dirs[call[p]] = call[p]
    /\ pc[p] \in {"switched", "committed", "rollback"} =>
          /\ Visible = call[p]
          /\ IF mode[p] = "symlink" THEN link = call[p] ELSE link = Canonical
    /\ pc[p] = "committed" =>
          db = [status |-> "success", run |-> call[p], manifest |-> call[p]]

\* The failure summary a status row is going to name is on disk.
Audited(p) == pc[p] \in {"status", "cleanup"} => call[p] \in audits

ProgressInv == \A p \in Proc : Progress(p) /\ Audited(p)

\* What is known at the end of an action that moves p to another step.
LEMMA ProgressInit == Init => ProgressInv
BY DEF Init, ProgressInv, Progress, Audited

LEMMA ProgressStuttering == ProgressInv /\ UNCHANGED vars => ProgressInv'
BY DEF ProgressInv, Progress, Audited, Visible, vars, locals, files

LEMMA ProgressNext ==
    ASSUME TypeOK, Numbered, LockInv, ProgressInv, NEW p \in Proc, Act(p)
    PROVE  ProgressInv'
<1> DEFINE Watched == {"ready", "switched", "committed", "rollback",
                       "status", "cleanup"}
<1> DEFINE Goal == Progress(p)' /\ Audited(p)'
<1>0. Progress(p) /\ Audited(p)
  BY DEF ProgressInv
<1>1. ASSUME pc'[p] \notin Watched PROVE Goal
  BY <1>1 DEF Progress, Audited
<1>2. ASSUME NEW how, NEW release, End(p, how, release) PROVE Goal
  BY <1>1, <1>2 DEF End, TypeOK
<1>3. ASSUME NEW step, Goto(p, step), step \notin Watched PROVE Goal
  BY <1>1, <1>3 DEF Goto, TypeOK
<1>4. ASSUME NotPublished(p) PROVE Goal
  BY <1>2, <1>3, <1>4 DEF NotPublished
<1>5. ASSUME ReadRow(p) \/ ReadSummary(p) PROVE Goal
  BY <1>2, <1>3, <1>4, <1>5 DEF ReadRow, ReadSummary
<1>6. ASSUME Acquire(p) PROVE Goal
  BY <1>1, <1>6 DEF Acquire, TypeOK
<1>7. ASSUME Blocked(p) \/ SwitchRaises(p) \/ Rollback(p) \/ RollbackRaises(p)
      PROVE  Goal
  BY <1>3, <1>7 DEF Blocked, SwitchRaises, Rollback, RollbackRaises
<1>8. ASSUME Build(p) PROVE Goal
  <2>1. CASE /\ dirs' = [dirs EXCEPT ![call[p]] = call[p]]
             /\ Goto(p, "ready")
             /\ UNCHANGED locals
    BY <2>1, Values DEF Progress, Audited, Goto, TypeOK, locals
  <2>2. QED
    BY <1>2, <1>3, <1>8, <2>1 DEF Build
<1>9. ASSUME Switch(p) PROVE Goal
  <2>1. pc'[p] = "switched" /\ call' = call /\ mode'[p] = SwitchMode
    BY <1>9 DEF Switch, Goto, TypeOK
  <2>2. call[p] \in Place /\ call[p] # Canonical /\ Canonical \in Place
    BY <1>9, Values, Zero DEF Numbered, Switch, Call
  <2>3. dirs[call[p]] = call[p]
    BY <1>9, <1>0 DEF Switch, Progress
  <2>4. CASE SwitchMode = "symlink"
    BY <1>9, <2>1, <2>3, <2>4
       DEF Switch, DoSwitch, Relink, Progress, Audited, Visible
  <2>5. CASE SwitchMode # "symlink"
    <3>1. link = Canonical
      BY <2>5 DEF SwitchMode
    <3>2. Exchange(call[p])
      BY <1>9, <2>5 DEF Switch, DoSwitch
    <3>3. link' = Canonical /\ dirs'[Canonical] = call[p]
      BY <3>1, <3>2, <2>2, <2>3 DEF Exchange, TypeOK
    <3>4. QED
      BY <2>1, <2>5, <3>3 DEF Progress, Audited, Visible
  <2>6. QED
    BY <2>4, <2>5
<1>10. ASSUME Transact(p) PROVE Goal
  <2>1. CASE /\ db' = [status |-> "success", run |-> call[p],
                       manifest |-> call[p]]
             /\ Goto(p, "committed")
    BY <1>10, <2>1, <1>0
       DEF Transact, Progress, Audited, Visible, Goto, TypeOK, files, locals
  <2>2. CASE Goto(p, "rollback")
    BY <1>10, <2>2, <1>0
       DEF Transact, Progress, Audited, Visible, Goto, TypeOK, files, locals
  <2>3. QED
    BY <1>10, <2>1, <2>2 DEF Transact
<1>11. ASSUME PersistFailure(p) PROVE Goal
  <2>1. CASE /\ \E kept \in SUBSET audits : audits' = kept \cup {call[p]}
             /\ Goto(p, IF fate[p] = "invalid" THEN "cleanup" ELSE "status")
             /\ UNCHANGED locals
    BY <2>1 DEF Progress, Audited, Goto, TypeOK, locals
  <2>2. QED
    BY <1>2, <1>11, <2>1 DEF PersistFailure
<1>12. ASSUME Cleanup(p) \/ BestEffortStatus(p) PROVE Goal
  <2>1. ASSUME NEW step \in {"status", "cleanup"}, Goto(p, step),
               UNCHANGED <<locals, audits>>, pc[p] \in {"status", "cleanup"}
        PROVE  Goal
    BY <2>1, <1>0 DEF Progress, Audited, Goto, TypeOK, locals
  <2>2. QED
    BY <1>2, <1>12, <2>1 DEF Cleanup, BestEffortStatus
<1>13. ASSUME Finish(p) \/ RejectStatus(p) PROVE Goal
  BY <1>2, <1>13 DEF Finish, RejectStatus
<1>14. ASSUME Step(p) PROVE Goal
  BY <1>5, <1>6, <1>7, <1>8, <1>9, <1>10, <1>11, <1>12, <1>13, <1>14, Zenon
     DEF Step
<1>15. ASSUME Start(p) \/ Crash(p) PROVE Goal
  BY <1>1, <1>2, <1>15 DEF Start, Crash, TypeOK
<1>16. ASSUME DeadlinePasses(p) PROVE Goal
  BY <1>0, <1>16 DEF DeadlinePasses, Progress, Audited, Visible, files
<1>17. Goal
  BY <1>14, <1>15, <1>16, Zenon DEF Act
<1>18. ASSUME NEW q \in Proc, q # p PROVE Progress(q)' /\ Audited(q)'
  <2>1. Kept(q)
    BY <1>18, OthersKept
  <2>2. CASE pc[p] \in Publishing
    <3>1. pc'[q] \notin Publishing
      BY <1>18, <2>1, <2>2, Alone DEF Kept
    <3>2. QED
      BY <3>1 DEF Progress, Audited, Publishing
  <2>3. CASE pc[p] \notin Publishing
    BY <2>1, <2>3, OutsideLock
       DEF ProgressInv, Progress, Audited, Kept, Visible
  <2>4. QED
    BY <2>2, <2>3
<1>19. QED
  BY <1>17, <1>18 DEF ProgressInv

\* All that is known of every reachable state, whatever goes wrong.
BaseInv == TypeOK /\ Numbered /\ LockInv /\ ProgressInv

LEMMA BaseCorrect == Spec => []BaseInv
<1>1. Init => BaseInv
  BY TypeInit, LockInit, ProgressInit DEF BaseInv
<1>2. BaseInv /\ [Next]_vars => BaseInv'
  BY TypeNext, LockNext, LockStuttering, ProgressNext, ProgressStuttering
     DEF BaseInv, Next, Act
<1>3. QED
  BY <1>1, <1>2, PTL DEF Spec

\* Keeping a bounded history spares what the canonical path leads to.
LEMMA FinishKeepsRelease ==
    ASSUME BaseInv, NEW p \in Proc, Finish(p)
    PROVE  Visible' = call[p] /\ link' = link /\ db' = db
<1>1. Progress(p) /\ pc[p] = "committed" /\ link \in Place
  BY DEF BaseInv, ProgressInv, Finish, TypeOK
<1>2. PICK gone \in Pruned(p) :
         dirs' = [d \in Place |-> IF d \in gone THEN None ELSE dirs[d]]
  BY DEF Finish
<1>3. link \notin gone
  BY <1>1, <1>2 DEF Pruned, Prunable, Version, Progress
<1>4. QED
  BY <1>1, <1>2, <1>3 DEF Progress, Visible, Finish

\* How a call ends.
LEMMA Endings ==
    ASSUME TypeOK, NEW p \in Proc, NEW q \in Proc, Act(p), Ends(q)
    PROVE  /\ p = q
           /\ \/ /\ Finish(p)
                 /\ result'[p].how = "success"
                 /\ result'[p].release = call[p]
              \/ /\ ReadSummary(p)
                 /\ Visible # None
                 /\ UNCHANGED <<link, dirs, db>>
                 /\ result'[p].how = "published"
                 /\ result'[p].release = Visible
              \/ /\ Cleanup(p)
                 /\ fate[p] # "invalid"
                 /\ result'[p].how = "failed"
              \/ /\ RejectStatus(p)
                 /\ result'[p].how = "failed"
              \/ result'[p].how \in {"raised", "crashed"}
<1>1. p = q
  BY OthersKept DEF Ends, Kept
<1>2. ASSUME NEW step, Goto(p, step), step # "idle" PROVE FALSE
  BY <1>1, <1>2 DEF Goto, Ends, TypeOK
<1>3. ASSUME NEW how, NEW release, End(p, how, release)
      PROVE  result'[p].how = how /\ result'[p].release = release
  <2>1. result'[p] = [how |-> how, release |-> release]
    BY <1>3 DEF End, TypeOK
  <2>2. QED
    BY <2>1
<1>4. ASSUME NotPublished(p) PROVE result'[p].how = "raised"
  BY <1>2, <1>3, <1>4 DEF NotPublished
<1>5. CASE Step(p)
  <2>1. ASSUME ReadRow(p) PROVE result'[p].how = "raised"
    BY <1>2, <1>4, <2>1 DEF ReadRow
  <2>2. ASSUME ReadSummary(p)
        PROVE  \/ /\ Visible # None
                  /\ UNCHANGED <<link, dirs, db>>
                  /\ result'[p].how = "published"
                  /\ result'[p].release = Visible
               \/ result'[p].how = "raised"
    BY <1>3, <1>4, <2>2 DEF ReadSummary, files
  <2>3. ASSUME Acquire(p) PROVE FALSE
    BY <1>1, <2>3 DEF Acquire, Ends, TypeOK
  <2>4. ASSUME Blocked(p) \/ Switch(p) \/ SwitchRaises(p) \/ Transact(p)
               \/ Rollback(p) \/ RollbackRaises(p)
        PROVE  FALSE
    BY <1>2, <2>4
       DEF Blocked, Switch, SwitchRaises, Transact, Rollback, RollbackRaises
  <2>5. ASSUME Build(p) \/ PersistFailure(p) \/ BestEffortStatus(p)
        PROVE  result'[p].how = "raised"
    BY <1>2, <1>3, <2>5 DEF Build, PersistFailure, BestEffortStatus
  <2>6. ASSUME Finish(p)
        PROVE  result'[p].how = "success" /\ result'[p].release = call[p]
    BY <1>3, <2>6 DEF Finish
  <2>7. ASSUME Cleanup(p)
        PROVE  fate[p] # "invalid" /\ result'[p].how = "failed"
    BY <1>2, <1>3, <2>7 DEF Cleanup
  <2>8. ASSUME RejectStatus(p) PROVE result'[p].how \in {"failed", "raised"}
    BY <1>3, <2>8 DEF RejectStatus
  <2>9. QED
    BY <1>1, <1>5, <2>1, <2>2, <2>3, <2>4, <2>5, <2>6, <2>7, <2>8 DEF Step
<1>6. CASE Start(p) \/ DeadlinePasses(p)
  BY <1>1, <1>6 DEF Start, DeadlinePasses, Ends, TypeOK
<1>7. CASE Crash(p)
  BY <1>1, <1>3, <1>7 DEF Crash
<1>8. QED
  BY <1>5, <1>6, <1>7 DEF Act

\* A call that returns success has published its release, whatever crashed,
\* raised or lost its answer before.
THEOREM SuccessTold == Spec => SuccessIsVisible
<1> DEFINE Told == \A p \in Proc :
          Ends(p) /\ result'[p].how = "success" =>
              /\ db'.status = "success"
              /\ db'.run = call[p]
              /\ Visible' = call[p]
<1>1. ASSUME BaseInv, NEW p \in Proc, Act(p) PROVE Told
  <2> SUFFICES ASSUME NEW q \in Proc, Ends(q), result'[q].how = "success"
               PROVE  /\ db'.status = "success"
                      /\ db'.run = call[q]
                      /\ Visible' = call[q]
    OBVIOUS
  <2>1. p = q /\ Finish(p)
    BY <1>1, Endings DEF BaseInv
  <2>2. Progress(p) /\ pc[p] = "committed"
    BY <1>1, <2>1 DEF BaseInv, ProgressInv, Finish
  <2>3. QED
    BY <1>1, <2>1, <2>2, FinishKeepsRelease DEF Progress
<1>2. BaseInv /\ [Next]_vars => [Told]_vars
  BY <1>1 DEF Next, Act
<1>3. QED
  BY BaseCorrect, <1>2, PTL DEF Spec, SuccessIsVisible

\* A status row that turns into a failed one names a run whose failure
\* summary is on disk.
THEOREM FailureNamesSummary == Spec => FailureIsAudited
<1> DEFINE Named == db' # db /\ db'.status = "failed" => db'.run \in audits'
<1>1. ASSUME BaseInv, NEW p \in Proc, Act(p) PROVE Named
  <2> SUFFICES ASSUME db' # db, db'.status = "failed"
               PROVE  db'.run \in audits'
    OBVIOUS
  <2>1. BestEffortStatus(p) \/ RejectStatus(p)
    BY <1>1 DEF Act, Step, Start, DeadlinePasses, Crash, ReadRow,
       ReadSummary, Acquire, Blocked, Build, Switch, SwitchRaises, Transact,
       Finish, Rollback, RollbackRaises, PersistFailure, Cleanup
  <2>2. db' = FailedRow(p) /\ audits' = audits /\ call[p] \in audits
    BY <1>1, <2>1
       DEF BestEffortStatus, RejectStatus, BaseInv, ProgressInv, Audited
  <2>3. QED
    BY <2>2 DEF FailedRow
<1>2. BaseInv /\ [Next]_vars => [Named]_vars
  BY <1>1 DEF Next, Act
<1>3. QED
  BY BaseCorrect, <1>2, PTL DEF Spec, FailureIsAudited
================================================================================
