-------------------------- MODULE StrategyRestoreProofs --------------------------
(***************************************************************************)
(* When nothing raises between a rename and the return of the function     *)
(* that made it, the release of before survives every failed publication.  *)
(* The hypothesis is needed: an exception after the rename leaves the call *)
(* without a handle to undo it.                                            *)
(***************************************************************************)
EXTENDS StrategyPublishProofs

USE ConstantsAssumption DEF None, Legacy, Canonical, LegacyHome

--------------------------------------------------------------------------------
(* Nobody else uses the version directory of a call.                       *)

Active(p) == pc[p] # "idle"

\* p's release may be the one the canonical path leads to.
Switched(p) ==
    \/ pc[p] \in {"switched", "committed", "rollback"}
    \/ pc[p] \in {"audit", "status"} /\ fate[p] = "rollback_failed"

\* Call numbers are new: no path leads to the directory of a later call.
Numbers ==
    /\ link <= calls
    /\ \A p \in Proc : call[p] <= calls /\ oldLink[p] <= calls

\* The directory of p's call: not another call's, not remembered by a handle,
\* and not the release, except while p's release is switched in.
Own(p) ==
    Active(p) =>
        /\ \A q \in Proc \ {p} : Active(q) => call[p] # call[q]
        /\ \A q \in Proc : oldLink[q] # call[p]
        /\ Switched(p) \/ link # call[p]

OwnInv == Numbers /\ \A p \in Proc : Own(p)

LEMMA OwnInit == Init => OwnInv
BY DEF Init, OwnInv, Numbers, Own, Active

LEMMA OwnStuttering == OwnInv /\ UNCHANGED vars => OwnInv'
BY DEF OwnInv, Numbers, Own, Active, Switched, vars, locals, files

\* A step that leaves the canonical path alone.
Stays(p) ==
    /\ calls' = calls
    /\ link' = link
    /\ \/ /\ pc'[p] = "idle"
          /\ call'[p] = 0
          /\ oldLink'[p] = Canonical
       \/ /\ pc[p] # "idle"
          /\ call'[p] = call[p]
          /\ oldLink'[p] = oldLink[p]
          /\ Switched(p) => Switched(p)'

LEMMA Moves ==
    ASSUME BaseInv, ~RaiseAfterSwitch, NEW p \in Proc, Act(p)
    PROVE  Stays(p) \/ Start(p) \/ Switch(p) \/ Rollback(p)
<1>0. TypeOK
  BY DEF BaseInv
<1>1. ASSUME NEW how, NEW release, End(p, how, release), link' = link
      PROVE  Stays(p)
  BY <1>0, <1>1 DEF End, Fresh, TypeOK, Stays
<1>2. ASSUME NEW step, Goto(p, step), UNCHANGED <<call, oldLink, fate, link>>,
             pc[p] # "idle",
             Switched(p) => \/ step \in {"switched", "committed", "rollback"}
                            \/ step = "status" /\ fate[p] = "rollback_failed"
      PROVE  Stays(p)
  BY <1>0, <1>2 DEF Goto, TypeOK, Stays, Switched
<1>3. ASSUME NotPublished(p), pc[p] \in {"row", "summary"}, link' = link
      PROVE  Stays(p)
  BY <1>1, <1>2, <1>3 DEF NotPublished, locals, Switched
<1>4. ASSUME NEW step, NEW why, Goto(p, step), SetFate(p, why), link' = link,
             pc[p] # "idle", step = "audit",
             ~Switched(p) \/ why = "rollback_failed"
      PROVE  Stays(p)
  BY <1>0, <1>4 DEF Goto, SetFate, TypeOK, Stays, Switched
<1>5. ASSUME ReadRow(p) \/ ReadSummary(p) PROVE Stays(p)
  BY <1>1, <1>2, <1>3, <1>5 DEF ReadRow, ReadSummary, locals, files, Switched
<1>6. ASSUME Acquire(p) \/ Blocked(p) \/ DeadlinePasses(p) PROVE Stays(p)
  BY <1>0, <1>6
     DEF Acquire, Blocked, DeadlinePasses, Goto, TypeOK, Stays, Switched, files
<1>7. ASSUME Build(p) \/ SwitchRaises(p) \/ RollbackRaises(p) PROVE Stays(p)
  BY <1>1, <1>2, <1>4, <1>7
     DEF Build, SwitchRaises, RollbackRaises, locals, files, Switched
<1>8. ASSUME Transact(p) \/ PersistFailure(p) \/ Cleanup(p) \/ Finish(p)
             \/ BestEffortStatus(p) \/ RejectStatus(p)
      PROVE  Stays(p)
  BY <1>1, <1>2, <1>8
     DEF Transact, PersistFailure, Cleanup, Finish, BestEffortStatus,
         RejectStatus, locals, files, Switched
<1>9. ASSUME Crash(p) PROVE Stays(p)
  BY <1>1, <1>9 DEF Crash, files
<1>10. QED
  BY <1>5, <1>6, <1>7, <1>8, <1>9 DEF Act, Step

LEMMA OwnNext ==
    ASSUME BaseInv, BaseInv', OwnInv, ~RaiseAfterSwitch, NEW p \in Proc, Act(p)
    PROVE  OwnInv'
<1>1. /\ TypeOK /\ TypeOK' /\ Numbers /\ \A q \in Proc : Own(q)
      /\ \A q \in Proc \ {p} : Kept(q)
  BY OthersKept DEF BaseInv, OwnInv
<1>2. ASSUME NEW q \in Proc \ {p}
      PROVE  Own(q) /\ Kept(q) /\ (Switched(q) => Switched(q)')
  BY <1>1 DEF Kept, Switched
<1>3. link \in Int /\ calls \in Nat /\ call \in [Proc -> Nat]
      /\ oldLink \in [Proc -> Int]
  BY <1>1 DEF TypeOK, Place, Call
<1>4. CASE Stays(p)
  <2>1. Numbers'
    BY <1>1, <1>3, <1>4 DEF Stays, Numbers, Kept
  <2>2. Own(p)'
    BY <1>1, <1>3, <1>4 DEF Stays, Own, Active, Kept
  <2>3. ASSUME NEW q \in Proc \ {p} PROVE Own(q)'
    BY <1>1, <1>2, <1>4, <2>3 DEF Stays, Own, Active, Kept, Numbered, BaseInv, Call
  <2>4. QED
    BY <2>1, <2>2, <2>3 DEF OwnInv
<1>5. CASE Start(p)
  <2>1. /\ calls' = calls + 1 /\ link' = link
        /\ call'[p] = calls + 1 /\ oldLink'[p] = Canonical
    BY <1>1, <1>5 DEF Start, Fresh, TypeOK, files
  <2>2. Numbers'
    BY <1>1, <1>3, <2>1 DEF Numbers, Kept
  <2>3. Own(p)'
    BY <1>1, <1>3, <2>1 DEF Numbers, Own, Active, Kept
  <2>4. ASSUME NEW q \in Proc \ {p} PROVE Own(q)'
    BY <1>1, <1>2, <1>3, <2>1, <2>4
       DEF Numbers, Own, Active, Kept, Numbered, BaseInv, Call
  <2>5. QED
    BY <2>2, <2>3, <2>4 DEF OwnInv
<1>6. CASE Switch(p)
  <2>1. /\ calls' = calls /\ call' = call /\ oldLink' = [oldLink EXCEPT ![p] = link]
        /\ link' \in {link, call[p]} /\ Switched(p)' /\ ~Switched(p)
        /\ Active(p)
    BY <1>1, <1>6
       DEF Switch, DoSwitch, Relink, Exchange, Goto, TypeOK, Switched, Active
  <2>2. Numbers'
    BY <1>1, <1>3, <2>1 DEF Numbers
  <2>3. Own(p)'
    BY <1>1, <1>3, <2>1 DEF Own, Active, Kept
  <2>4. ASSUME NEW q \in Proc \ {p} PROVE Own(q)'
    <3>1. CASE Active(q)
      <4>1. ~Switched(q)
        BY <1>6, Alone, <2>4 DEF Switch, Switched, Publishing, BaseInv
      <4>2. QED
        BY <1>1, <1>2, <2>1, <2>4, <3>1, <4>1 DEF Own, Active, Kept
    <3>2. CASE ~Active(q)
      BY <1>2, <3>2 DEF Own, Active, Kept
    <3>3. QED
      BY <3>1, <3>2
  <2>5. QED
    BY <2>2, <2>3, <2>4 DEF OwnInv
<1>7. CASE Rollback(p)
  <2>1. /\ calls' = calls /\ call' = call /\ oldLink' = oldLink
        /\ link' \in {link, oldLink[p]} /\ Active(p)
        /\ link' = oldLink[p] \/ link' = Canonical
    BY <1>1, <1>7
       DEF Rollback, Undo, Relink, Exchange, Goto, SetFate, TypeOK, Active,
           BaseInv, ProgressInv, Progress
  <2>2. Numbers'
    BY <1>1, <1>3, <2>1 DEF Numbers
  <2>3. Own(p)'
    BY <1>1, <1>3, <2>1 DEF Own, Active, Kept, BaseInv, Numbered, Call
  <2>4. ASSUME NEW q \in Proc \ {p} PROVE Own(q)'
    BY <1>1, <1>2, <2>1, <2>4 DEF Own, Active, Kept
  <2>5. QED
    BY <2>2, <2>3, <2>4 DEF OwnInv
<1>8. QED
  BY <1>4, <1>5, <1>6, <1>7, Moves

--------------------------------------------------------------------------------
(* The release of before is visible, or where the handle can find it.      *)

\* Where the handle keeps the release it has to bring back.
Home(p) == IF mode[p] = "symlink" THEN oldLink[p] ELSE call[p]

Restorable(p) ==
    lock = p => IF Switched(p) THEN dirs[Home(p)] = base[p]
                ELSE Visible = base[p]

RestoreInv == \A p \in Proc : Restorable(p)

LEMMA RestoreInit == Init => RestoreInv
BY DEF Init, RestoreInv, Restorable

LEMMA RestoreStuttering == RestoreInv /\ UNCHANGED vars => RestoreInv'
BY DEF RestoreInv, Restorable, Switched, Home, Visible, vars, locals, files

\* Writing the directory of its call never shows while it is not the release.
LEMMA StagingIsHidden ==
    ASSUME BaseInv, OwnInv, NEW p \in Proc, Active(p), ~Switched(p),
           link' = link, NEW staged,
           dirs' = [dirs EXCEPT ![call[p]] = staged]
    PROVE  Visible' = Visible
BY DEF BaseInv, OwnInv, Own, TypeOK, Visible

LEMMA RestoreNext ==
    ASSUME BaseInv, BaseInv', OwnInv, RestoreInv, ~RaiseAfterSwitch,
           NEW p \in Proc, Act(p)
    PROVE  RestoreInv'
<1>0. /\ TypeOK /\ Locked(p) /\ Progress(p) /\ Own(p) /\ Restorable(p)
      /\ call[p] \in Place /\ Canonical \in Place
      /\ Active(p) => call[p] \in Call
  BY Values, Zero
     DEF BaseInv, LockInv, ProgressInv, OwnInv, RestoreInv, Numbered, Active
<1>1. ASSUME NEW how, NEW release, End(p, how, release) PROVE Restorable(p)'
  BY <1>0, <1>1 DEF End, TypeOK, Restorable
\* Steps of the call that leave the release and what the handle knows.
<1>2. ASSUME lock' = lock, UNCHANGED <<base, call, mode, oldLink>>,
             Switched(p)' = Switched(p), dirs' = dirs /\ link' = link
      PROVE  Restorable(p)'
  BY <1>0, <1>2 DEF Restorable, Home, Visible
<1>3. ASSUME lock' = lock, base' = base, ~Switched(p), ~Switched(p)',
             Visible' = Visible
      PROVE  Restorable(p)'
  BY <1>0, <1>3 DEF Restorable
<1>4. ASSUME NEW step, Goto(p, step), UNCHANGED <<locals, files>>,
             Switched(p) <=> \/ step \in {"switched", "committed", "rollback"}
                             \/ /\ step \in {"audit", "status"}
                                /\ fate[p] = "rollback_failed"
      PROVE  Restorable(p)'
  <2>1. Switched(p)' <=> Switched(p)
    BY <1>0, <1>4 DEF Goto, locals, TypeOK, Switched
  <2>2. QED
    BY <1>0, <1>4, <2>1 DEF Goto, locals, files, Restorable, Home, Visible
<1>5. ASSUME NotPublished(p), pc[p] \in {"row", "summary"}, UNCHANGED files
      PROVE  Restorable(p)'
  BY <1>1, <1>4, <1>5 DEF NotPublished, Switched
<1>6. ASSUME ReadRow(p) \/ ReadSummary(p) PROVE Restorable(p)'
  BY <1>1, <1>4, <1>5, <1>6 DEF ReadRow, ReadSummary, Switched
<1>7. ASSUME Acquire(p) PROVE Restorable(p)'
  BY <1>0, <1>7 DEF Acquire, TypeOK, Restorable, Switched, Visible, files
<1>8. ASSUME Blocked(p) \/ DeadlinePasses(p) \/ Start(p)
      PROVE  Restorable(p)'
  <2>1. lock # p /\ lock' = lock
    BY <1>0, <1>8
       DEF Blocked, DeadlinePasses, Start, Goto, Locked
  <2>2. QED
    BY <2>1 DEF Restorable
<1>9. ASSUME Build(p) PROVE Restorable(p)'
  <2>1. CASE End(p, "raised", None)
    BY <1>1, <2>1
  <2>2. CASE /\ \E staged : dirs' = [dirs EXCEPT ![call[p]] = staged]
             /\ \/ Goto(p, "ready") /\ UNCHANGED locals
                \/ Goto(p, "audit") /\ SetFate(p, "invalid")
    <3>1. Active(p) /\ ~Switched(p) /\ link' = link
      BY <1>9 DEF Build, Active, Switched
    <3>2. Visible' = Visible
      BY <2>2, <3>1, StagingIsHidden
    <3>3. lock' = lock /\ base' = base /\ ~Switched(p)'
      BY <1>0, <2>2 DEF Goto, SetFate, locals, TypeOK, Switched
    <3>4. QED
      BY <1>3, <3>1, <3>2, <3>3
  <2>3. QED
    BY <1>9, <2>1, <2>2 DEF Build
<1>10. ASSUME Switch(p) PROVE Restorable(p)'
  <2>1. /\ ~Switched(p) /\ Active(p) /\ Switched(p)'
        /\ UNCHANGED <<lock, call, base>>
        /\ mode'[p] = SwitchMode /\ oldLink'[p] = link
    BY <1>0, <1>10 DEF Switch, Goto, TypeOK, Switched, Active
  <2>2. lock = p => dirs[link] = base[p]
    BY <1>0, <2>1 DEF Restorable, Visible
  <2>3. CASE SwitchMode = "symlink"
    BY <1>10, <2>1, <2>2, <2>3 DEF Switch, DoSwitch, Relink, Restorable, Home
  <2>4. CASE SwitchMode # "symlink"
    <3>1. link = Canonical /\ Exchange(call[p])
      BY <1>10, <2>4 DEF SwitchMode, Switch, DoSwitch
    <3>2. dirs'[call[p]] = dirs[link]
      BY <1>0, <3>1 DEF Exchange, TypeOK
    <3>3. QED
      BY <2>1, <2>2, <2>4, <3>2 DEF Restorable, Home
  <2>5. QED
    BY <2>3, <2>4
<1>11. ASSUME SwitchRaises(p) PROVE Restorable(p)'
  <2>1. UNCHANGED files /\ Goto(p, "audit") /\ SetFate(p, "commit_failed")
    BY <1>11 DEF SwitchRaises
  <2>2. lock' = lock /\ base' = base /\ ~Switched(p) /\ ~Switched(p)'
    BY <1>0, <1>11, <2>1 DEF SwitchRaises, Goto, SetFate, TypeOK, Switched
  <2>3. QED
    BY <1>3, <2>1, <2>2 DEF Visible, files
<1>12. ASSUME Transact(p) \/ PersistFailure(p) \/ BestEffortStatus(p)
              \/ RejectStatus(p) \/ Finish(p)
       PROVE  Restorable(p)'
  BY <1>1, <1>4, <1>12
     DEF Transact, PersistFailure, BestEffortStatus, RejectStatus, Finish,
         Switched
<1>13. ASSUME Rollback(p) PROVE Restorable(p)'
  <2>1. /\ Undo(p) /\ UNCHANGED <<lock, base>>
        /\ Switched(p) /\ ~Switched(p)' /\ pc[p] = "rollback"
    BY <1>0, <1>13 DEF Rollback, Goto, SetFate, TypeOK, Switched
  <2>2. lock = p => dirs[Home(p)] = base[p]
    BY <1>0, <2>1 DEF Restorable
  <2>3. CASE mode[p] = "symlink"
    BY <2>1, <2>2, <2>3 DEF Undo, Relink, Restorable, Home, Visible
  <2>4. CASE mode[p] # "symlink"
    <3>1. link = Canonical /\ Exchange(call[p])
      BY <1>0, <2>1, <2>4 DEF Undo, Progress
    <3>2. call[p] # Canonical
      BY <1>0, <2>1 DEF Active, Call
    <3>3. link' = Canonical /\ dirs'[Canonical] = dirs[call[p]]
      BY <1>0, <3>1, <3>2 DEF Exchange, TypeOK
    <3>4. QED
      BY <2>1, <2>2, <2>4, <3>3 DEF Restorable, Home, Visible
  <2>5. QED
    BY <2>3, <2>4
<1>14. ASSUME RollbackRaises(p) PROVE Restorable(p)'
  <2>1. /\ UNCHANGED files /\ Switched(p) /\ Switched(p)'
        /\ UNCHANGED <<lock, base, call, mode, oldLink>>
    BY <1>0, <1>14
       DEF RollbackRaises, Goto, SetFate, TypeOK, Switched
  <2>2. QED
    BY <1>0, <2>1 DEF files, Restorable, Home
<1>15. ASSUME Cleanup(p) PROVE Restorable(p)'
  <2>1. CASE Goto(p, "status") /\ UNCHANGED locals /\ fate[p] = "invalid"
    <3>1. Active(p) /\ ~Switched(p) /\ ~Switched(p)' /\ link' = link
          /\ UNCHANGED <<lock, base>>
      BY <1>0, <1>15, <2>1
         DEF Cleanup, Goto, locals, Active, Switched, TypeOK
    <3>2. Visible' = Visible
      BY <1>15, <3>1, StagingIsHidden DEF Cleanup, Visible
    <3>3. QED
      BY <1>3, <3>1, <3>2
  <2>2. QED
    BY <1>1, <1>15, <2>1 DEF Cleanup
<1>16. ASSUME Step(p) PROVE Restorable(p)'
  BY <1>6, <1>7, <1>8, <1>9, <1>10, <1>11, <1>12, <1>13, <1>14, <1>15, <1>16,
     Zenon DEF Step
<1>17. Restorable(p)'
  BY <1>1, <1>8, <1>16, Zenon DEF Act, Crash
<1>18. ASSUME NEW q \in Proc \ {p} PROVE Restorable(q)'
  <2>1. Kept(q) /\ (lock' = q <=> lock = q)
    BY OthersKept DEF BaseInv, LockInv, Locked, Kept
  <2>2. CASE pc[p] \in Publishing
    BY <2>1, <2>2, Alone DEF BaseInv, Restorable
  <2>3. CASE pc[p] \notin Publishing
    BY <2>1, <2>3, OutsideLock
       DEF BaseInv, RestoreInv, Restorable, Kept, Switched, Home, Visible
  <2>4. QED
    BY <2>2, <2>3
<1>19. QED
  BY <1>17, <1>18 DEF RestoreInv

LEMMA RestoreCorrect ==
    ASSUME ~RaiseAfterSwitch PROVE Spec => [](BaseInv /\ OwnInv /\ RestoreInv)
<1>1. BaseInv /\ BaseInv' /\ OwnInv /\ RestoreInv /\ [Next]_vars
        => OwnInv' /\ RestoreInv'
  BY OwnNext, OwnStuttering, RestoreNext, RestoreStuttering DEF Next, Act
<1>2. QED
  BY OwnInit, RestoreInit, BaseCorrect, <1>1, PTL DEF Spec

\* While a call publishes, the release of before is still on disk.
THEOREM PreviousReleaseSurvives ==
    ASSUME ~RaiseAfterSwitch PROVE Spec => []PreviousReleaseKept
<1>1. BaseInv /\ RestoreInv => PreviousReleaseKept
  <2> SUFFICES ASSUME BaseInv, RestoreInv, NEW p \in Proc, lock = p
               PROVE  \E d \in Place : dirs[d] = base[p]
    BY DEF PreviousReleaseKept
  <2>1. Home(p) \in Place /\ link \in Place
    BY Values DEF Home, BaseInv, TypeOK
  <2>2. QED
    BY <2>1 DEF RestoreInv, Restorable, Visible
<1>2. QED
  BY RestoreCorrect, <1>1, PTL

\* A call that returns a failed or partial summary leaves the canonical
\* release as it found it.
THEOREM FailuresAreHarmless ==
    ASSUME ~RaiseAfterSwitch PROVE Spec => FailedCallsLeaveRelease
<1> DEFINE Harmless == \A p \in Proc :
          Ends(p) /\ lock = p /\ result'[p].how = "failed" =>
              Visible' = base[p]
<1>1. ASSUME BaseInv, OwnInv, RestoreInv, NEW p \in Proc, Act(p)
      PROVE  Harmless
  <2> SUFFICES ASSUME NEW q \in Proc, Ends(q), lock = q,
                      result'[q].how = "failed"
               PROVE  Visible' = base[q]
    OBVIOUS
  <2>1. p = q /\ (Cleanup(p) \/ RejectStatus(p)) /\ ~Switched(p) /\ Active(p)
    <3>1. CASE Cleanup(p) /\ p = q
      BY <3>1 DEF Cleanup, Switched, Active
    <3>2. CASE RejectStatus(p) /\ p = q
      BY <3>2 DEF RejectStatus, Switched, Active
    <3>3. QED
      BY <1>1, <3>1, <3>2, Endings DEF BaseInv
  <2>2. Visible = base[p]
    BY <1>1, <2>1 DEF RestoreInv, Restorable
  <2>3. Visible' = Visible
    BY <1>1, <2>1, StagingIsHidden DEF Cleanup, RejectStatus, Visible, files
  <2>4. QED
    BY <2>1, <2>2, <2>3
<1>2. BaseInv /\ OwnInv /\ RestoreInv /\ [Next]_vars => [Harmless]_vars
  BY <1>1 DEF Next, Act
<1>3. QED
  BY RestoreCorrect, <1>2, PTL DEF Spec, FailedCallsLeaveRelease

\* A published date never becomes unpublished, except when a call takes back
\* the first release, which is its own.
THEOREM ReleaseSurvives ==
    ASSUME ~RaiseAfterSwitch PROVE Spec => ReleaseNeverLost
<1> DEFINE Survives == Visible # None /\ Visible' = None =>
          \E p \in Proc : lock = p /\ base[p] = None
<1>1. ASSUME BaseInv, BaseInv', OwnInv, RestoreInv, RestoreInv',
             NEW p \in Proc, Act(p)
      PROVE  Survives
  <2> SUFFICES ASSUME Visible # None, Visible' = None
               PROVE  lock = p /\ base[p] = None
    OBVIOUS
  <2>1. pc[p] \in Publishing
    BY <1>1, OutsideLock DEF BaseInv, Visible
  <2>2. lock = p
    BY <1>1, <2>1 DEF BaseInv, LockInv, Locked
  <2>3. ASSUME Build(p) \/ Cleanup(p) PROVE FALSE
    BY <1>1, <2>3, StagingIsHidden
       DEF Build, Cleanup, Active, Switched, Visible
  <2>4. ASSUME Switch(p) PROVE FALSE
    <3>1. pc'[p] = "switched" /\ call'[p] = call[p] /\ call[p] \in Call
      BY <1>1, <2>4 DEF Switch, Goto, BaseInv, TypeOK, Numbered
    <3>2. Visible' = call[p]
      BY <1>1, <3>1 DEF BaseInv, ProgressInv, Progress
    <3>3. QED
      BY <3>1, <3>2 DEF Call
  <2>5. ASSUME Finish(p) PROVE FALSE
    <3>1. pc[p] = "committed" /\ call[p] \in Call
      BY <1>1, <2>5 DEF Finish, BaseInv, Numbered
    <3>2. QED
      BY <1>1, <2>5, <3>1, FinishKeepsRelease DEF Call
  <2>6. Rollback(p)
    BY <1>1, <2>3, <2>4, <2>5
       DEF Act, Step, Start, DeadlinePasses, Crash, ReadRow, ReadSummary,
           Acquire, Blocked, SwitchRaises, Transact, RollbackRaises,
           PersistFailure, BestEffortStatus, RejectStatus, Visible, files
  <2>7. /\ lock' = p /\ base'[p] = base[p] /\ ~Switched(p)'
    BY <1>1, <2>2, <2>6
       DEF Rollback, Goto, SetFate, BaseInv, TypeOK, Switched
  <2>8. Visible' = base[p]
    BY <1>1, <2>7 DEF RestoreInv, Restorable
  <2>9. QED
    BY <2>2, <2>8
<1>2. BaseInv /\ BaseInv' /\ OwnInv /\ RestoreInv /\ RestoreInv' /\ [Next]_vars
        => [Survives]_vars
  BY <1>1 DEF Next, Act
<1>3. QED
  BY RestoreCorrect, <1>2, PTL DEF Spec, ReleaseNeverLost
================================================================================
