------------------------ MODULE FinalizeReleaseProofs --------------------------
(***************************************************************************)
(* Theorems about FinalizeRelease, for every set of jobs, every number of  *)
(* runs, of versions of the data and of releases of the code.              *)
(***************************************************************************)
EXTENDS FinalizeRelease, TLAPS

USE DEF Steps, Phases, Parts, history

Holds(p, part) == <<p, part>> \in fds

--------------------------------------------------------------------------------
(* What a step of one job does to its place, to the open files and to the  *)
(* locals of the others                                                    *)

\* The job p has the lock and goes on from its step to another.
Works(p) ==
    /\ pc[p] # "idle"
    /\ UNCHANGED fds
    /\ \E step \in Steps \ {"idle"} : Goto(p, step)

Ends(p) ==
    /\ pc[p] # "idle"
    /\ Leave(p)

\* It ends with success: the loop job leaves the mirror behind.
Succeeds(p) ==
    /\ pc[p] = "sync"
    /\ Goto(p, "idle")
    /\ fds' = (fds \ ({p} \X {"launcher", "command"}))
              \cup (IF p \in LoopCron THEN {<<p, "mirror">>} ELSE {})

Idles == UNCHANGED <<pc, fds>>

Kind(p) ==
    \/ Launch(p) \/ LauncherDies(p) \/ Mirror(p)
    \/ Works(p) \/ Ends(p) \/ Succeeds(p) \/ Idles

LEMMA StepKind == ASSUME NEW p \in Proc, Step(p) PROVE Kind(p)
  <1>1. CASE Launch(p) \/ LauncherDies(p) \/ Mirror(p)
    BY <1>1 DEF Kind
  <1>2. CASE Killed(p) \/ PublishFails(p) \/ ValidateFails(p) \/ ClearCacheFails(p) \/ SyncFails(p)
    BY <1>2 DEF Kind, Ends, Killed, PublishFails, ValidateFails, ClearCacheFails, SyncFails, Fail
  <1>3. CASE Repair(p)
    BY <1>3 DEF Kind, Idles, Repair, locals
  <1>4. CASE RepairEnds(p) \/ RepairDies(p)
    BY <1>4 DEF Kind, Works, RepairEnds, RepairDies
  <1>5. CASE Gate(p)
    BY <1>5 DEF Kind, Works, Ends, Gate
  <1>6. CASE Publish(p) \/ Validate(p) \/ ClearCache(p)
    BY <1>6 DEF Kind, Works, Publish, Validate, ClearCache
  <1>7. CASE Sync(p)
    BY <1>7 DEF Kind, Succeeds, Sync
  <1> QED BY <1>1, <1>2, <1>3, <1>4, <1>5, <1>6, <1>7 DEF Step, Finalise

--------------------------------------------------------------------------------
(* Type correctness *)

LEMMA KindTyped ==
    ASSUME TypeOK, NEW p \in Proc, Kind(p)
    PROVE  pc' \in [Proc -> Steps] /\ fds' \subseteq Proc \X Parts
  BY DEF TypeOK, Kind, Launch, LauncherDies, Mirror, Works, Ends, Succeeds, Idles, Leave, Goto,
     locals

\* The file keeps its types.
Filed ==
    /\ summary \subseteq Phases
    /\ summaryOp \in 0 .. MaxCode
    /\ status \in {"none", "pending", "failed", "success"}

LEMMA RewrittenTyped == ASSUME TypeOK, Rewritten PROVE Filed' /\ dirty' \in BOOLEAN
  <1>1. Filed'
    BY FinalizeAssumption DEF Rewritten, Filed
  <1> QED BY <1>1 DEF Rewritten

LEMMA LeftTyped == ASSUME TypeOK, Left PROVE Filed' /\ dirty' \in BOOLEAN
  <1>1. CASE Rewritten
    BY <1>1, RewrittenTyped
  <1>2. CASE UNCHANGED <<file, dirty>>
    BY <1>2 DEF file, Filed, TypeOK
  <1> QED BY <1>1, <1>2 DEF Left

LEMMA PersistTyped ==
    ASSUME NEW release \in 0 .. MaxCode, NEW phases \in SUBSET Phases,
           NEW result \in {"pending", "failed", "success"}, Persist(release, phases, result)
    PROVE  Filed'
  BY DEF Persist, Filed

LEMMA TypedNext == TypeOK /\ [Next]_vars => TypeOK'
  <1> SUFFICES ASSUME TypeOK, [Next]_vars PROVE TypeOK'
    OBVIOUS
  <1> DEFINE Mine ==
          /\ failed \in [Proc -> BOOLEAN]
          /\ op \in [Proc -> 0 .. MaxCode]
          /\ resumed \in [Proc -> SUBSET Phases]
  <1> DEFINE World ==
          /\ published \in Nat
          /\ data \in Nat /\ cached \in Nat /\ shipped \in Nat /\ validated \in Nat
          /\ shippedCode \in 0 .. MaxCode
          /\ code \in 1 .. MaxCode
          /\ dirty \in BOOLEAN /\ skipped \in BOOLEAN
          /\ runs \in Nat
  <1>T. Filed /\ Mine /\ World
    BY DEF TypeOK, Filed
  <1>S. ASSUME UNCHANGED file PROVE Filed'
    BY <1>S, <1>T DEF file, Filed
  <1>1. ASSUME NEW p \in Proc, Step(p) PROVE TypeOK'
    <2>1. pc' \in [Proc -> Steps] /\ fds' \subseteq Proc \X Parts
      BY <1>1, StepKind, KindTyped
    <2>R. op[p] \in 0 .. MaxCode /\ resumed[p] \in SUBSET Phases
      BY <1>T
    <2>2. Mine'
      <3>1. CASE Launch(p)
        BY <3>1, <1>T DEF Launch
      <3>2. CASE RepairEnds(p) \/ RepairDies(p)
        BY <3>2, <1>T DEF RepairEnds, RepairDies
      <3>3. CASE Gate(p)
        <4>1. op' \in [Proc -> 0 .. MaxCode] /\ failed' = failed
          BY <3>3, <1>T, FinalizeAssumption DEF Gate
        <4>2. Found(code) \in SUBSET Phases
          BY <1>T DEF Filed, Found
        <4>3. resumed' \in [Proc -> SUBSET Phases]
          BY <3>3, <4>2, <1>T DEF Gate
        <4> QED BY <4>1, <4>3, <1>T
      <3>4. UNCHANGED <<failed, op, resumed>> => Mine'
        BY <1>T
      <3> QED BY <1>1, <3>1, <3>2, <3>3, <3>4 DEF Step, Finalise, LauncherDies, Killed, Mirror, Repair,
                 Publish, PublishFails, Validate, ValidateFails, ClearCache, ClearCacheFails,
                 Sync, SyncFails, Fail, locals
    <2>3. Filed'
      <3>1. CASE Launch(p) \/ LauncherDies(p) \/ Mirror(p) \/ Repair(p)
        BY <3>1, <1>S DEF Launch, LauncherDies, Mirror, Repair
      <3>2. CASE Killed(p) \/ RepairEnds(p) \/ RepairDies(p)
        <4>1. Left \/ Rewritten \/ UNCHANGED file
          BY <3>2 DEF Killed, RepairEnds, RepairDies
        <4> QED BY <4>1, <1>S, LeftTyped, RewrittenTyped
      <3>3. CASE Gate(p)
        <4>1. code \in 0 .. MaxCode
          BY <1>T, FinalizeAssumption
        <4>2. Persist(code, {}, "failed") \/ UNCHANGED file
          BY <3>3 DEF Gate, file
        <4> QED BY <4>1, <4>2, <1>S, PersistTyped
      <3>4. CASE Publish(p)
        BY <3>4, <1>S DEF Publish, file
      <3>5. CASE PublishFails(p) \/ ValidateFails(p) \/ ClearCacheFails(p)
        BY <3>5, <2>R, PersistTyped DEF PublishFails, ValidateFails, ClearCacheFails, Fail
      <3>6. CASE Validate(p)
        BY <3>6, <2>R, PersistTyped DEF Validate
      <3>7. CASE ClearCache(p)
        <4>1. resumed[p] \cup {"cache"} \in SUBSET Phases
          BY <2>R
        <4> QED BY <3>7, <4>1, <2>R, PersistTyped DEF ClearCache
      <3>8. CASE Sync(p) \/ SyncFails(p)
        <4>1. {"cache"} \in SUBSET Phases
          OBVIOUS
        <4> QED BY <3>8, <4>1, <2>R, PersistTyped DEF Sync, SyncFails, Fail
      <3> QED BY <1>1, <3>1, <3>2, <3>3, <3>4, <3>5, <3>6, <3>7, <3>8 DEF Step, Finalise
    <2>4. World'
      <3>1. CASE Launch(p) \/ LauncherDies(p)
        BY <3>1, <1>T DEF Launch, LauncherDies, outside
      <3>2. CASE Mirror(p)
        BY <3>2, <1>T DEF Mirror
      <3>3. CASE Repair(p)
        BY <3>3, <1>T DEF Repair, outside
      <3>4. CASE Killed(p) \/ RepairEnds(p) \/ RepairDies(p)
        <4>1. UNCHANGED <<published, data, outside, code, validated, skipped, runs>>
          BY <3>4 DEF Killed, RepairEnds, RepairDies
        <4>2. Left \/ Rewritten \/ UNCHANGED dirty
          BY <3>4 DEF Killed, RepairEnds, RepairDies
        <4>3. dirty' \in BOOLEAN
          BY <4>2, <1>T, LeftTyped, RewrittenTyped
        <4> QED BY <4>1, <4>3, <1>T DEF outside
      <3>5. CASE Gate(p)
        <4>1. UNCHANGED <<published, data, outside, code, validated, skipped, runs>>
          BY <3>5 DEF Gate
        <4>2. dirty' = FALSE \/ dirty' = dirty
          BY <3>5 DEF Gate
        <4>3. dirty' \in BOOLEAN
          BY <4>2, <1>T
        <4> QED BY <4>1, <4>3, <1>T DEF outside
      <3>6. CASE Publish(p)
        BY <3>6, <1>T DEF Publish, outside
      <3>7. CASE PublishFails(p) \/ Validate(p) \/ ValidateFails(p)
        BY <3>7, <1>T DEF PublishFails, Validate, ValidateFails, outside
      <3>8. CASE ClearCache(p) \/ ClearCacheFails(p)
        BY <3>8, <1>T DEF ClearCache, ClearCacheFails
      <3>9. CASE Sync(p) \/ SyncFails(p)
        <4>1. /\ shipped' \in {shipped, data} /\ shippedCode' \in {shippedCode, code}
              /\ UNCHANGED <<published, data, cached, code, validated, dirty, runs>>
          BY <3>9 DEF Sync, SyncFails, Ship, ShipSome
        <4>2. skipped' = skipped \/ skipped' = TRUE \/ skipped' = FALSE
          BY <3>9 DEF Sync, SyncFails
        <4>3. skipped' \in BOOLEAN
          BY <4>2, <1>T
        <4> QED BY <4>1, <4>3, <1>T, FinalizeAssumption
      <3> QED BY <1>1, <3>1, <3>2, <3>3, <3>4, <3>5, <3>6, <3>7, <3>8, <3>9 DEF Step, Finalise
    <2> QED BY <2>1, <2>2, <2>3, <2>4 DEF TypeOK, Filed
  <1>2. CASE Unlocked
    <2>1. World'
      BY <1>2, <1>T, FinalizeAssumption DEF Unlocked, StrategyCronPublishes, StrategyMirror,
         DailySync, Ship, ShipSome, Deploy, outside
    <2>2. UNCHANGED <<locals, fds, file>>
      BY <1>2 DEF Unlocked, StrategyCronPublishes, StrategyMirror, DailySync, Deploy
    <2> QED BY <2>1, <2>2 DEF locals, file, TypeOK
  <1>3. CASE UNCHANGED vars
    BY <1>3 DEF vars, locals, file, outside, TypeOK
  <1> QED BY <1>1, <1>2, <1>3 DEF Next

LEMMA TypedInit == Init => TypeOK
  <1> SUFFICES ASSUME Init PROVE TypeOK
    OBVIOUS
  <1>1. failed \in [Proc -> BOOLEAN]
    BY DEF Init
  <1>2. resumed \in [Proc -> SUBSET Phases]
    BY DEF Init
  <1>3. op \in [Proc -> 0 .. MaxCode] /\ pc \in [Proc -> Steps] /\ fds \subseteq Proc \X Parts
    BY FinalizeAssumption DEF Init
  <1>4. dirty \in BOOLEAN /\ skipped \in BOOLEAN
    BY DEF Init
  <1>5. /\ summary \subseteq Phases /\ summaryOp \in 0 .. MaxCode
        /\ status \in {"none", "pending", "failed", "success"}
    BY FinalizeAssumption DEF Init
  <1>6. /\ published \in Nat /\ runs \in Nat
        /\ data \in Nat /\ cached \in Nat /\ shipped \in Nat /\ validated \in Nat
        /\ shippedCode \in 0 .. MaxCode /\ code \in 1 .. MaxCode
    BY FinalizeAssumption DEF Init
  <1> QED BY <1>1, <1>2, <1>3, <1>4, <1>5, <1>6 DEF TypeOK

\* Every variable keeps its type.
THEOREM TypeCorrect == Spec => []TypeOK
  BY TypedInit, TypedNext, PTL DEF Spec

--------------------------------------------------------------------------------
(* The lock *)

\* Who has the file open is the job at work with its launcher, or else the
\* mirror of the job that ended last.
Held ==
    /\ \A p \in Proc : pc[p] # "idle" <=> Holds(p, "command")
    /\ \A p \in Proc : Holds(p, "launcher") => Holds(p, "command")
    /\ \A p \in Proc : Holds(p, "mirror") => ~Holds(p, "command")
    /\ \A p, q \in Proc : \A j, k \in Parts : Holds(p, j) /\ Holds(q, k) => p = q

LEMMA HeldKind == ASSUME TypeOK, Held, NEW p \in Proc, Kind(p) PROVE Held'
  <1> USE DEF TypeOK, Held, Holds
  <1>1. CASE Launch(p)
    BY <1>1, FinalizeAssumption DEF Launch, Locked, Goto, Proc
  <1>2. CASE LauncherDies(p)
    BY <1>2 DEF LauncherDies, locals
  <1>3. CASE Mirror(p)
    BY <1>3 DEF Mirror, locals
  <1>4. CASE Works(p)
    BY <1>4 DEF Works, Goto
  <1>5. CASE Ends(p)
    BY <1>5 DEF Ends, Leave, Goto
  <1>6. CASE Succeeds(p)
    BY <1>6 DEF Succeeds, Goto
  <1>7. CASE Idles
    BY <1>7 DEF Idles
  <1> QED BY <1>1, <1>2, <1>3, <1>4, <1>5, <1>6, <1>7 DEF Kind

LEMMA HeldNext == TypeOK /\ Held /\ [Next]_vars => Held'
  <1> SUFFICES ASSUME TypeOK, Held, [Next]_vars PROVE Held'
    OBVIOUS
  <1>1. ASSUME NEW p \in Proc, Step(p) PROVE Held'
    BY <1>1, StepKind, HeldKind
  <1>2. CASE Unlocked
    BY <1>2 DEF Unlocked, StrategyCronPublishes, StrategyMirror, DailySync, Deploy, Held, Holds,
       locals
  <1>3. CASE UNCHANGED vars
    BY <1>3 DEF vars, Held, Holds, locals
  <1> QED BY <1>1, <1>2, <1>3 DEF Next

LEMMA HeldInit == Init => Held
  BY DEF Init, Held, Holds

LEMMA HeldAlone == ASSUME Held PROVE OneCommand
  BY DEF Held, Holds, OneCommand

LEMMA AlwaysHeld == Spec => [](TypeOK /\ Held)
  BY HeldInit, HeldNext, TypeCorrect, PTL DEF Spec

\* One job at a time, and none while a mirror copies, whoever dies.
THEOREM OneJob == Spec => []OneCommand
  <1>1. Held => OneCommand
    BY HeldAlone
  <1> QED BY <1>1, AlwaysHeld, PTL

\* While p works nobody else does, and its step leaves no mirror but its own.
LEMMA Alone ==
    ASSUME TypeOK, Held, NEW p \in Proc, pc[p] # "idle", Kind(p)
    PROVE  /\ \A q \in Proc : q # p => pc[q] = "idle" /\ pc'[q] = "idle"
           /\ \A q \in Proc : ~Holds(q, "mirror")
           /\ \A q \in Proc : Holds(q, "mirror")' => Succeeds(p)
  <1>1. /\ \A q \in Proc : q # p => pc[q] = "idle"
        /\ \A q \in Proc : ~Holds(q, "mirror")
    BY DEF Held, Holds
  <1>2. ~Launch(p) /\ ~Mirror(p)
    BY <1>1 DEF Launch, Mirror, Holds
  <1>3. \A q \in Proc : q # p => pc'[q] = pc[q]
    BY <1>2 DEF TypeOK, Kind, LauncherDies, Works, Ends, Succeeds, Idles, Leave, Goto, locals
  <1>4. Succeeds(p) \/ fds' \subseteq fds
    BY <1>2 DEF Kind, LauncherDies, Works, Ends, Idles, Leave
  <1> QED BY <1>1, <1>3, <1>4 DEF Holds

--------------------------------------------------------------------------------
(* Versions only grow, and who is past the publication has a release *)

Versions ==
    /\ shipped <= data
    /\ published <= data
    /\ shippedCode <= code
    /\ \A p \in Proc : pc[p] \in {"validate", "cache", "sync"} => published # 0
    /\ \A p \in Proc : Holds(p, "mirror") => published # 0

\* The host's data is changed by copies alone, and a release is registered once.
Grows ==
    /\ data' = data \/ data' = data + 1
    /\ code' = code \/ code' = code + 1
    /\ shipped' \in {shipped, data}
    /\ shippedCode' \in {shippedCode, code}
    /\ \/ published' = published
       \/ published = 0 /\ published' = data' /\ data' = data + 1

LEMMA StepGrows == ASSUME TypeOK, NEW p \in Proc, Step(p) PROVE Grows /\ code' = code
  <1>1. CASE Launch(p) \/ LauncherDies(p) \/ Killed(p) \/ RepairEnds(p) \/ RepairDies(p)
    BY <1>1 DEF Launch, LauncherDies, Killed, RepairEnds, RepairDies, outside, Grows
  <1>2. CASE Repair(p)
    BY <1>2 DEF Repair, outside, Grows
  <1>3. CASE Gate(p) \/ PublishFails(p) \/ Validate(p) \/ ValidateFails(p)
    BY <1>3 DEF Gate, PublishFails, Validate, ValidateFails, outside, Grows
  <1>4. CASE Publish(p)
    BY <1>4 DEF Publish, outside, Grows
  <1>5. CASE ClearCache(p) \/ ClearCacheFails(p) \/ Mirror(p)
    BY <1>5 DEF ClearCache, ClearCacheFails, Mirror, Grows
  <1>6. CASE Sync(p) \/ SyncFails(p)
    BY <1>6 DEF Sync, SyncFails, Ship, ShipSome, Grows
  <1> QED BY <1>1, <1>2, <1>3, <1>4, <1>5, <1>6 DEF Step, Finalise

LEMMA UnlockedGrows ==
    ASSUME TypeOK, Unlocked
    PROVE  Grows /\ UNCHANGED <<locals, fds, file, cached, history>>
  BY DEF Unlocked, StrategyCronPublishes, StrategyMirror, DailySync, Deploy, Ship, ShipSome,
     outside, Grows

LEMMA NextGrows == ASSUME TypeOK, [Next]_vars PROVE Grows
  BY StepGrows, UnlockedGrows DEF Next, vars, outside, Grows

\* The step by which a job comes to have a release.
LEMMA PastPublication ==
    ASSUME TypeOK, Held, Versions, NEW p \in Proc, Step(p), NEW q \in Proc,
           pc'[q] \in {"validate", "cache", "sync"} \/ Holds(q, "mirror")'
    PROVE  published # 0 \/ published' # 0
  <1>1. CASE Publish(p)
    BY <1>1 DEF Publish, TypeOK
  <1>2. CASE ~Publish(p)
    <2>1. \/ pc[q] \in {"validate", "cache", "sync"}
          \/ Holds(q, "mirror")
          \/ pc[p] = "sync"
          \/ Validate(p)
          \/ ClearCache(p)
      BY <1>2 DEF Step, Finalise, Launch, LauncherDies, Killed, Mirror, Repair, RepairEnds,
         RepairDies, Gate, PublishFails, Validate, ValidateFails, ClearCache, ClearCacheFails,
         Sync, SyncFails, Fail, Leave, Goto, TypeOK, Holds, locals
    <2> QED BY <2>1 DEF Versions, Validate, ClearCache
  <1> QED BY <1>1, <1>2

LEMMA VersionsNext == TypeOK /\ Held /\ Versions /\ [Next]_vars => Versions'
  <1> SUFFICES ASSUME TypeOK, Held, Versions, [Next]_vars PROVE Versions'
    OBVIOUS
  <1>1. Grows
    BY NextGrows
  <1>2. shipped' <= data' /\ published' <= data' /\ shippedCode' <= code'
    BY <1>1, FinalizeAssumption DEF Grows, Versions, TypeOK
  <1>3. published # 0 => published' # 0
    BY <1>1 DEF Grows
  <1>4. ASSUME NEW q \in Proc, pc'[q] \in {"validate", "cache", "sync"} \/ Holds(q, "mirror")'
        PROVE  published' # 0
    <2>1. CASE \E p \in Proc : Step(p)
      BY <1>3, <1>4, <2>1, PastPublication
    <2>2. CASE Unlocked \/ UNCHANGED vars
      <3>1. UNCHANGED <<pc, fds>>
        BY <2>2, UnlockedGrows DEF vars, locals
      <3> QED BY <1>3, <1>4, <3>1 DEF Versions, Holds
    <2> QED BY <2>1, <2>2 DEF Next
  <1> QED BY <1>2, <1>4 DEF Versions

LEMMA VersionsInit == Init => Versions
  BY DEF Init, Versions, Holds

--------------------------------------------------------------------------------
(* Only what was accepted is shipped *)

\* From the validation to the end of the mirror the data does not change.
Accepted ==
    /\ \A p \in Proc : pc[p] \in {"cache", "sync"} => validated = data
    /\ \A p \in Proc : Holds(p, "mirror") => validated = data

LEMMA AcceptedStep ==
    ASSUME TypeOK, Held, Accepted, NEW p \in Proc, Step(p)
    PROVE  Accepted'
  <1>K. Kind(p)
    BY StepKind
  <1>1. CASE pc[p] = "idle"
    <2>1. Launch(p) \/ LauncherDies(p) \/ Mirror(p)
      BY <1>1 DEF Step, Finalise, Killed, Repair, RepairEnds, RepairDies, Gate, Publish, PublishFails,
         Validate, ValidateFails, ClearCache, ClearCacheFails, Sync, SyncFails
    <2>2. CASE Launch(p)
      <3>1. /\ \A q \in Proc : pc'[q] \in {"cache", "sync"} => pc[q] \in {"cache", "sync"}
            /\ \A q \in Proc : Holds(q, "mirror")' => Holds(q, "mirror")
            /\ UNCHANGED <<data, validated>>
        BY <2>2 DEF Launch, Goto, TypeOK, Holds
      <3> QED BY <3>1 DEF Accepted
    <2>3. CASE LauncherDies(p) \/ Mirror(p)
      <3>1. /\ \A q \in Proc : Holds(q, "mirror")' => Holds(q, "mirror")
            /\ UNCHANGED <<pc, data, validated>>
        BY <2>3 DEF LauncherDies, Mirror, Holds, locals
      <3> QED BY <3>1 DEF Accepted
    <2> QED BY <2>1, <2>2, <2>3
  <1>2. CASE pc[p] # "idle"
    <2>1. /\ \A q \in Proc : q # p => pc'[q] = "idle"
          /\ \A q \in Proc : Holds(q, "mirror")' => pc[p] = "sync" /\ pc'[p] = "idle"
      BY <1>K, <1>2, Alone DEF Succeeds, Goto, TypeOK
    <2>2. pc'[p] \in {"cache", "sync"} => validated' = data'
      <3>1. CASE LauncherDies(p)
        BY <3>1 DEF LauncherDies, locals, Accepted
      <3>2. CASE Validate(p) \/ ClearCache(p)
        BY <3>2 DEF Validate, ClearCache, Accepted
      <3>3. CASE Repair(p)
        BY <3>3 DEF Repair, locals
      <3>4. CASE \/ Killed(p) \/ RepairEnds(p) \/ RepairDies(p) \/ Gate(p) \/ Publish(p)
                 \/ PublishFails(p) \/ ValidateFails(p) \/ ClearCacheFails(p) \/ SyncFails(p)
                 \/ Sync(p)
        <4>1. pc'[p] \notin {"cache", "sync"}
          BY <3>4 DEF Killed, RepairEnds, RepairDies, Gate, Publish, PublishFails, ValidateFails,
             ClearCacheFails, SyncFails, Sync, Fail, Leave, Goto, TypeOK
        <4> QED BY <4>1
      <3> QED BY <1>2, <1>K, <3>1, <3>2, <3>3, <3>4, Alone DEF Step, Finalise, Launch, Mirror, Holds
    <2>3. pc[p] = "sync" => UNCHANGED <<data, validated>>
      BY <1>2 DEF Step, Finalise, Launch, LauncherDies, Mirror, Killed, Repair, RepairEnds, RepairDies,
         Gate, Publish, PublishFails, Validate, ValidateFails, ClearCache, ClearCacheFails,
         Sync, SyncFails
    <2> QED BY <2>1, <2>2, <2>3 DEF Accepted
  <1> QED BY <1>1, <1>2

LEMMA AcceptedNext == TypeOK /\ Held /\ Versions /\ Accepted /\ [Next]_vars => Accepted'
  <1> SUFFICES ASSUME TypeOK, Held, Versions, Accepted, [Next]_vars PROVE Accepted'
    OBVIOUS
  <1>1. ASSUME NEW p \in Proc, Step(p) PROVE Accepted'
    BY <1>1, AcceptedStep
  <1>2. CASE Unlocked
    <2>1. UNCHANGED <<pc, fds, validated>>
      BY <1>2, UnlockedGrows DEF locals
    <2>2. published # 0 => data' = data
      BY <1>2 DEF Unlocked, StrategyCronPublishes, StrategyMirror, DailySync, Deploy
    <2> QED BY <2>1, <2>2 DEF Accepted, Versions, Holds
  <1>3. CASE UNCHANGED vars
    BY <1>3 DEF vars, Accepted, Holds, locals
  <1> QED BY <1>1, <1>2, <1>3 DEF Next

LEMMA AcceptedInit == Init => Accepted
  BY DEF Init, Accepted, Holds

LEMMA AlwaysAccepted == Spec => [](TypeOK /\ Held /\ Versions /\ Accepted)
  BY AlwaysHeld, VersionsInit, VersionsNext, AcceptedInit, AcceptedNext, PTL DEF Spec

LEMMA OnlyAcceptedShips ==
    ASSUME TypeOK, Accepted, [Next]_vars, NEW p \in Proc,
           \/ pc[p] = "sync" /\ pc'[p] # "sync"
           \/ Holds(p, "mirror") /\ ~Holds(p, "mirror")'
    PROVE  shipped' \in {shipped, validated}
  <1>1. validated = data
    BY DEF Accepted
  <1>2. Grows
    BY NextGrows
  <1> QED BY <1>1, <1>2 DEF Grows

\* What a finaliser and its job's mirror copy is what the contract and the
\* readiness check accepted, whatever goes on without the lock.
THEOREM ShippedIsValidated == Spec => FinaliserShipsValidated
  <1> DEFINE Copied ==
          \A p \in Proc :
              \/ pc[p] = "sync" /\ pc'[p] # "sync"
              \/ <<p, "mirror">> \in fds /\ <<p, "mirror">> \notin fds'
              => shipped' \in {shipped, validated}
  <1>1. TypeOK /\ Held /\ Versions /\ Accepted /\ [Next]_vars => [Copied]_vars
    BY OnlyAcceptedShips DEF Holds
  <1>2. Spec => [][Copied]_vars
    BY <1>1, AlwaysAccepted, PTL DEF Spec
  <1> QED BY <1>2 DEF FinaliserShipsValidated

--------------------------------------------------------------------------------
(* What the summary says is done has been done *)

\* The host has the release or a later one, and the date's strategy release.
Live(phases, release) ==
    "sync" \in phases => shippedCode >= release /\ shipped >= published

\* The phases were done with the data as it is; or the host was found live.
Done(phases) ==
    /\ "cache" \in phases => cached = data
    /\ "sync" \in phases => skipped \/ shipped = data

\* What the job that is past its gate has found and done.
Knows(p) ==
    /\ op[p] <= code
    /\ resumed[p] # {} \/ pc[p] # "publish" => published # 0
    /\ Live(resumed[p], op[p])
    /\ ~dirty => Done(resumed[p])
    /\ ~dirty /\ pc[p] = "sync" => cached = data
    /\ pc[p] \in {"cache", "sync"} => status = "pending"

Finalising == {"publish", "validate", "cache", "sync"}

Recorded ==
    /\ summary # {} => published # 0
    /\ Live(summary, summaryOp)
    /\ ~dirty => Done(summary)
    /\ \A p \in Proc : pc[p] \in Finalising => Knows(p)

\* What the host once had of a registered release it does not lose.
LEMMA LiveStays ==
    ASSUME TypeOK, Versions, [Next]_vars, NEW phases, NEW release \in 0 .. MaxCode,
           phases # {} => published # 0, Live(phases, release)
    PROVE  "sync" \in phases => shippedCode' >= release /\ shipped' >= published'
  <1> SUFFICES ASSUME "sync" \in phases
               PROVE  shippedCode' >= release /\ shipped' >= published'
    OBVIOUS
  <1>1. /\ published' = published
        /\ shipped' \in {shipped, data} /\ shippedCode' \in {shippedCode, code}
    BY NextGrows DEF Grows
  <1>2. shipped' >= shipped /\ shippedCode' >= shippedCode
    BY <1>1, FinalizeAssumption DEF Versions, TypeOK
  <1> QED BY <1>1, <1>2, FinalizeAssumption DEF Live, TypeOK

\* So what the summary and the job p record of it stays true.
LEMMA RecordsStayLive ==
    ASSUME TypeOK, Versions, Recorded, [Next]_vars
    PROVE  /\ UNCHANGED <<summary, summaryOp>> => Live(summary, summaryOp)'
           /\ \A p \in Proc :
                pc[p] \in Finalising /\ UNCHANGED <<resumed[p], op[p]>> =>
                    Live(resumed[p], op[p])'
  <1>1. UNCHANGED <<summary, summaryOp>> => Live(summary, summaryOp)'
    BY LiveStays DEF Recorded, Live, TypeOK
  <1>2. ASSUME NEW p \in Proc, pc[p] \in Finalising, UNCHANGED <<resumed[p], op[p]>>
        PROVE  Live(resumed[p], op[p])'
    <2>1. Knows(p) /\ op[p] \in 0 .. MaxCode
      BY <1>2 DEF Recorded, TypeOK
    <2>2. "sync" \in resumed[p] => shippedCode' >= op[p] /\ shipped' >= published'
      BY <2>1, LiveStays DEF Knows
    <2> QED BY <1>2, <2>2 DEF Live
  <1> QED BY <1>1, <1>2

\* A job that is not at work has nothing to know.
LEMMA RecordedByWorker ==
    ASSUME TypeOK, Held, NEW p \in Proc, pc[p] # "idle", Kind(p),
           summary' # {} => published' # 0,
           Live(summary, summaryOp)',
           ~dirty' => Done(summary)',
           pc'[p] \in Finalising => Knows(p)'
    PROVE  Recorded'
  BY Alone DEF Recorded, Finalising

LEMMA RecordedRepair ==
    ASSUME TypeOK, Held, Versions, Recorded, [Next]_vars, NEW p \in Proc,
           Repair(p) \/ RepairEnds(p) \/ RepairDies(p)
    PROVE  Recorded'
  <1>K. Kind(p) /\ pc[p] # "idle"
    BY StepKind DEF Step, Repair, RepairEnds, RepairDies
  <1>1. pc'[p] \notin Finalising
    BY DEF Repair, RepairEnds, RepairDies, Goto, TypeOK, Finalising, locals
  <1>2. published # 0 => published' # 0
    BY DEF Repair, RepairEnds, RepairDies
  <1>3. CASE Repair(p)
    <2>1. dirty' /\ UNCHANGED <<summary, summaryOp>>
      BY <1>3 DEF Repair, file
    <2>2. Live(summary, summaryOp)'
      BY <2>1, RecordsStayLive
    <2> QED BY <1>K, <1>1, <1>2, <2>1, <2>2, RecordedByWorker DEF Recorded
  <1>4. CASE RepairEnds(p) \/ RepairDies(p)
    <2>1. Left /\ UNCHANGED <<data, outside, published, skipped>>
      BY <1>4 DEF RepairEnds, RepairDies, Left
    <2>2. CASE Rewritten
      BY <1>K, <1>1, <2>2, RecordedByWorker DEF Rewritten, Done, Live
    <2>3. CASE UNCHANGED <<file, dirty>>
      <3>1. (~dirty => Done(summary)) /\ UNCHANGED <<dirty, summary, summaryOp>>
        BY <2>3 DEF Recorded, file
      <3>2. ~dirty' => Done(summary)'
        BY <2>1, <3>1 DEF Done, outside
      <3>3. Live(summary, summaryOp)'
        BY <3>1, RecordsStayLive
      <3> QED BY <1>K, <1>1, <1>2, <3>1, <3>2, <3>3, RecordedByWorker DEF Recorded
    <2> QED BY <2>1, <2>2, <2>3 DEF Left
  <1> QED BY <1>3, <1>4

LEMMA RecordedKilled ==
    ASSUME TypeOK, Held, Versions, Recorded, [Next]_vars, NEW p \in Proc, Killed(p)
    PROVE  Recorded'
  <1>K. Kind(p) /\ pc[p] # "idle" /\ pc'[p] = "idle"
    BY StepKind DEF Step, Killed, Leave, Goto, TypeOK
  <1>1. Rewritten \/ UNCHANGED <<file, dirty>>
    BY DEF Killed, Left
  <1>2. UNCHANGED <<data, outside, published, skipped>>
    BY DEF Killed
  <1>3. CASE Rewritten
    BY <1>K, <1>3, RecordedByWorker DEF Rewritten, Done, Live, Finalising
  <1>4. CASE UNCHANGED <<file, dirty>>
    <2>1. (~dirty => Done(summary)) /\ UNCHANGED <<dirty, summary, summaryOp>>
      BY <1>4 DEF Recorded, file
    <2>2. ~dirty' => Done(summary)'
      BY <1>2, <2>1 DEF Done, outside
    <2>3. Live(summary, summaryOp)'
      BY <2>1, RecordsStayLive
    <2> QED BY <1>K, <1>2, <2>1, <2>2, <2>3, RecordedByWorker DEF Recorded, Finalising
  <1> QED BY <1>1, <1>3, <1>4

LEMMA RecordedGate ==
    ASSUME TypeOK, Held, Versions, Recorded, [Next]_vars, NEW p \in Proc, Gate(p)
    PROVE  Recorded'
  <1>K. Kind(p) /\ pc[p] # "idle"
    BY StepKind DEF Step, Finalise, Gate
  <1>1. CASE failed[p]
    BY <1>K, <1>1, RecordedByWorker DEF Gate, Persist, Done, Live, Leave, Goto, TypeOK, Finalising
  <1>2. CASE ~failed[p]
    <2>1. /\ op'[p] = code /\ resumed'[p] = Found(code) /\ pc'[p] = "publish"
          /\ UNCHANGED <<summary, summaryOp, status, dirty, published, data, outside, code, skipped>>
      BY <1>2 DEF Gate, Goto, TypeOK
    <2>2. ~dirty' => Done(summary)'
      BY <2>1 DEF Recorded, Done, outside
    <2>3. Found(code) # {} => Found(code) = summary /\ summaryOp = code
      BY DEF Found
    <2>4. ~dirty' => Done(resumed[p])'
      BY <2>1, <2>2, <2>3 DEF Done
    <2>5. Live(summary, summaryOp)'
      BY <2>1, RecordsStayLive
    <2>6. Live(resumed[p], op[p])'
      BY <2>1, <2>3, <2>5 DEF Live
    <2>7. Knows(p)'
      BY <2>1, <2>3, <2>4, <2>6 DEF Knows, Recorded, TypeOK
    <2> QED BY <1>K, <2>1, <2>2, <2>5, <2>7, RecordedByWorker DEF Recorded
  <1> QED BY <1>1, <1>2

LEMMA RecordedPublish ==
    ASSUME TypeOK, Held, Versions, Recorded, [Next]_vars, NEW p \in Proc, Publish(p)
    PROVE  Recorded'
  <1>K. Kind(p) /\ pc[p] = "publish"
    BY StepKind DEF Step, Finalise, Publish
  <1>1. /\ pc'[p] = "validate"
        /\ UNCHANGED <<op, resumed, summary, summaryOp, status, outside, code, dirty, skipped>>
    BY DEF Publish, Goto, TypeOK
  <1>2. published' # 0
    BY DEF Publish, TypeOK
  <1>3. Knows(p)
    BY <1>K DEF Recorded, Finalising
  <1>4. data' = data \/ (summary = {} /\ resumed[p] = {})
    BY <1>3 DEF Publish, Recorded, Knows
  <1>5. ~dirty' => Done(summary)' /\ Done(resumed[p])'
    BY <1>1, <1>3, <1>4 DEF Recorded, Knows, Done, outside
  <1>6. Live(summary, summaryOp)' /\ Live(resumed[p], op[p])'
    BY <1>K, <1>1, RecordsStayLive DEF Finalising
  <1>7. Knows(p)'
    BY <1>1, <1>2, <1>3, <1>5, <1>6 DEF Knows
  <1> QED BY <1>K, <1>1, <1>2, <1>5, <1>6, <1>7, RecordedByWorker

\* A failed phase before the sync leaves a summary without phases.
LEMMA RecordedFails ==
    ASSUME TypeOK, Held, NEW p \in Proc,
           PublishFails(p) \/ ValidateFails(p) \/ ClearCacheFails(p)
    PROVE  Recorded'
  <1>1. Kind(p) /\ pc[p] # "idle"
    BY StepKind DEF Step, Finalise, PublishFails, ValidateFails, ClearCacheFails
  <1>2. summary' = {} /\ pc'[p] = "idle"
    BY DEF PublishFails, ValidateFails, ClearCacheFails, Fail, Persist, Leave, Goto, TypeOK
  <1> QED BY <1>1, <1>2, RecordedByWorker DEF Done, Live, Finalising

LEMMA RecordedValidate ==
    ASSUME TypeOK, Held, Versions, Recorded, [Next]_vars, NEW p \in Proc, Validate(p)
    PROVE  Recorded'
  <1>K. Kind(p) /\ pc[p] = "validate"
    BY StepKind DEF Step, Finalise, Validate
  <1>1. /\ summary' = resumed[p] /\ summaryOp' = op[p] /\ status' = "pending" /\ pc'[p] = "cache"
        /\ UNCHANGED <<op, resumed, published, data, outside, code, dirty, skipped>>
    BY DEF Validate, Persist, Goto, TypeOK
  <1>2. Knows(p) /\ published # 0
    BY <1>K DEF Recorded, Finalising, Knows
  <1>3. ~dirty' => Done(summary)' /\ Done(resumed[p])'
    BY <1>1, <1>2 DEF Knows, Done, outside
  <1>4. Live(summary, summaryOp)' /\ Live(resumed[p], op[p])'
    BY <1>K, <1>1, RecordsStayLive DEF Live, Finalising
  <1>5. Knows(p)'
    BY <1>1, <1>2, <1>3, <1>4 DEF Knows
  <1> QED BY <1>K, <1>1, <1>2, <1>3, <1>4, <1>5, RecordedByWorker

LEMMA RecordedClearCache ==
    ASSUME TypeOK, Held, Versions, Recorded, [Next]_vars, NEW p \in Proc, ClearCache(p)
    PROVE  Recorded'
  <1>K. Kind(p) /\ pc[p] = "cache"
    BY StepKind DEF Step, Finalise, ClearCache
  <1>1. /\ summary' = resumed[p] \cup {"cache"} /\ summaryOp' = op[p] /\ status' = "pending"
        /\ pc'[p] = "sync"
        /\ cached' = IF "cache" \in resumed[p] THEN cached ELSE data
        /\ UNCHANGED <<op, resumed, published, data, shipped, shippedCode, code, dirty, skipped>>
    BY DEF ClearCache, Persist, Goto, TypeOK
  <1>2. Knows(p) /\ published # 0
    BY <1>K DEF Recorded, Finalising, Knows
  <1>3. ~dirty => cached' = data'
    BY <1>1, <1>2 DEF Knows, Done
  <1>4. ~dirty' => Done(summary)' /\ Done(resumed[p])'
    BY <1>1, <1>2, <1>3 DEF Knows, Done
  <1>5. Live(summary, summaryOp)' /\ Live(resumed[p], op[p])'
    BY <1>K, <1>1, RecordsStayLive DEF Live, Finalising
  <1>6. Knows(p)'
    BY <1>1, <1>2, <1>3, <1>4, <1>5 DEF Knows
  <1> QED BY <1>K, <1>1, <1>2, <1>4, <1>5, <1>6, RecordedByWorker

LEMMA SyncedKnows ==
    ASSUME TypeOK, Held, Recorded, Versions, NEW p \in Proc, Sync(p)
    PROVE  /\ shippedCode' >= op[p] /\ shipped' >= published
           /\ ~dirty => cached' = data /\ (skipped' \/ shipped' = data)
  <1>1. Knows(p) /\ cached' = cached
    BY DEF Sync, Recorded, Finalising
  <1>2. ~dirty => cached' = data
    BY <1>1 DEF Sync, Knows
  <1>3. CASE "sync" \in resumed[p]
    <2>1. UNCHANGED <<shipped, shippedCode, skipped>>
      BY <1>3 DEF Sync
    <2> QED BY <1>1, <1>2, <1>3, <2>1 DEF Knows, Done, Live
  <1>4. CASE "sync" \notin resumed[p] /\ Ship
    <2>1. shippedCode' >= op[p] /\ shipped' >= published
      BY <1>1, <1>4, FinalizeAssumption DEF Knows, Ship, Versions, TypeOK
    <2> QED BY <1>2, <1>4, <2>1 DEF Ship
  <1>5. CASE AlreadyLive /\ skipped' = TRUE /\ UNCHANGED <<shipped, shippedCode>>
    <2>1. shippedCode' >= op[p] /\ shipped' >= published
      BY <1>1, <1>5, FinalizeAssumption DEF Knows, AlreadyLive, TypeOK
    <2> QED BY <1>2, <1>5, <2>1
  <1> QED BY <1>3, <1>4, <1>5 DEF Sync

LEMMA RecordedSync ==
    ASSUME TypeOK, Held, Versions, Recorded, NEW p \in Proc, Sync(p) \/ SyncFails(p)
    PROVE  Recorded'
  <1>K. Kind(p) /\ pc[p] = "sync" /\ pc'[p] = "idle" /\ UNCHANGED <<published, data, cached, dirty>>
    BY StepKind DEF Step, Finalise, Sync, SyncFails, Fail, Leave, Goto, TypeOK
  <1>1. Knows(p) /\ published # 0
    BY <1>K DEF Recorded, Finalising, Knows
  <1>2. CASE Sync(p)
    <2>1. summaryOp' = op[p]
      BY <1>2 DEF Sync, Persist
    <2>2. ~dirty' => Done(summary)'
      BY <1>2, <1>K, SyncedKnows DEF Done
    <2>3. Live(summary, summaryOp)'
      BY <1>2, <1>K, <2>1, SyncedKnows DEF Live
    <2> QED BY <1>K, <1>1, <2>2, <2>3, RecordedByWorker DEF Finalising
  <1>3. CASE SyncFails(p)
    <2>1. summary' = {"cache"}
      BY <1>3 DEF SyncFails, Fail, Persist
    <2>2. (~dirty' => Done(summary)') /\ Live(summary, summaryOp)'
      BY <1>K, <1>1, <2>1 DEF Done, Live, Knows
    <2> QED BY <1>K, <1>1, <2>2, RecordedByWorker DEF Finalising
  <1> QED BY <1>2, <1>3

\* Steps that are of no finaliser: the launcher, the mirror, what has no lock.
\* The cron publishes only while there is nothing to record.
LEMMA RecordedOutside ==
    ASSUME TypeOK, Held, Versions, Recorded, [Next]_vars,
           \/ \E p \in Proc : Launch(p) \/ LauncherDies(p) \/ Mirror(p)
           \/ Unlocked
           \/ UNCHANGED vars
    PROVE  Recorded'
  <1>1. UNCHANGED <<op, resumed, file, cached, dirty, skipped>>
    BY UnlockedGrows DEF Launch, LauncherDies, Mirror, vars, locals, outside
  <1>2. Grows
    BY NextGrows
  <1>3. published # 0 => data' = data /\ published' = published
    BY DEF Launch, LauncherDies, Mirror, Unlocked, StrategyCronPublishes, StrategyMirror,
       DailySync, Deploy, vars
  <1>4. \A q \in Proc : pc'[q] \in Finalising => pc'[q] = pc[q]
    BY UnlockedGrows DEF Launch, LauncherDies, Mirror, vars, locals, Goto, TypeOK, Finalising
  <1>5. \A phases : (phases # {} => published # 0) /\ Done(phases) =>
            /\ "cache" \in phases => cached' = data'
            /\ "sync" \in phases => skipped' \/ shipped' = data'
    BY <1>1, <1>2, <1>3 DEF Done, Grows
  <1>6. (~dirty' => Done(summary)') /\ Live(summary, summaryOp)'
    BY <1>1, <1>5, RecordsStayLive DEF Recorded, Done, file
  <1>7. ASSUME NEW q \in Proc, pc'[q] \in Finalising PROVE Knows(q)'
    <2>1. Knows(q) /\ op[q] \in Nat /\ code \in Nat /\ pc'[q] = pc[q]
      BY <1>4, <1>7, FinalizeAssumption DEF Recorded, TypeOK
    <2>2. ~dirty' => Done(resumed[q])'
      BY <1>1, <1>5, <2>1 DEF Knows, Done
    <2>3. Live(resumed[q], op[q])'
      BY <1>1, <1>7, <2>1, RecordsStayLive
    <2>4. op'[q] <= code'
      BY <1>1, <1>2, <2>1 DEF Knows, Grows
    <2>5. resumed'[q] # {} \/ pc'[q] # "publish" => published' # 0
      BY <1>1, <1>3, <2>1 DEF Knows
    <2>6. ~dirty' /\ pc'[q] = "sync" => cached' = data'
      BY <1>1, <1>3, <2>1 DEF Knows
    <2> QED BY <1>1, <2>1, <2>2, <2>3, <2>4, <2>5, <2>6 DEF Knows, file
  <1> QED BY <1>1, <1>3, <1>6, <1>7 DEF Recorded, file

LEMMA RecordedNext == TypeOK /\ Held /\ Versions /\ Recorded /\ [Next]_vars => Recorded'
  <1> SUFFICES ASSUME TypeOK, Held, Versions, Recorded, [Next]_vars PROVE Recorded'
    OBVIOUS
  <1>1. ASSUME NEW p \in Proc, Step(p) PROVE Recorded'
    BY <1>1, RecordedOutside, RecordedRepair, RecordedKilled, RecordedGate, RecordedPublish,
       RecordedFails, RecordedValidate, RecordedClearCache, RecordedSync DEF Step, Finalise
  <1>2. CASE Unlocked \/ UNCHANGED vars
    BY <1>2, RecordedOutside
  <1> QED BY <1>1, <1>2 DEF Next

LEMMA RecordedInit == Init => Recorded
  BY DEF Init, Recorded, Done, Live, Finalising

\* The step of the property is a Sync.
LEMMA SuccessIsSync ==
    ASSUME TypeOK, Held, Recorded, [Next]_vars, NEW p \in Proc,
           pc[p] = "sync", pc'[p] = "idle", status' = "success"
    PROVE  Sync(p)
  <1>1. status = "pending"
    BY DEF Recorded, Finalising, Knows
  <1>2. ~Unlocked /\ ~UNCHANGED vars
    BY UnlockedGrows DEF vars, locals
  <1>3. PICK q \in Proc : Step(q)
    BY <1>2 DEF Next
  <1>4. CASE q # p
    <2>1. pc[q] = "idle"
      BY <1>4 DEF Held
    <2>2. Launch(q) \/ LauncherDies(q) \/ Mirror(q)
      BY <1>3, <2>1 DEF Step, Finalise, Killed, Repair, RepairEnds, RepairDies, Gate, Publish,
         PublishFails, Validate, ValidateFails, ClearCache, ClearCacheFails, Sync, SyncFails
    <2>3. pc'[p] = pc[p]
      BY <1>4, <2>2 DEF Launch, LauncherDies, Mirror, Goto, TypeOK, locals
    <2> QED BY <2>3
  <1>5. CASE q = p
    <2>1. ~Killed(p)
      BY <1>1 DEF Killed, file
    <2>2. ~Launch(p) /\ ~LauncherDies(p) /\ ~Mirror(p)
      BY DEF Launch, LauncherDies, Mirror, locals
    <2>3. ~SyncFails(p)
      BY DEF SyncFails, Fail, Persist
    <2> QED BY <1>3, <1>5, <2>1, <2>2, <2>3 DEF Step, Finalise, Repair, RepairEnds, RepairDies, Gate,
               Publish, PublishFails, Validate, ValidateFails, ClearCache, ClearCacheFails
  <1> QED BY <1>4, <1>5

\* A finaliser that reports success has the date's release on the host, and has
\* exposed the data as it is, on the cache and, unless it found the release live
\* there, on the host, whatever it resumed from.
THEOREM SuccessExposed == Spec => SuccessIsExposed
  <1> DEFINE Exposed ==
          \A p \in Proc :
              pc[p] = "sync" /\ pc'[p] = "idle" /\ status' = "success" =>
                  /\ shippedCode' >= op[p] /\ shipped' >= published
                  /\ ~dirty => cached' = data /\ (skipped' \/ shipped' = data)
  <1>1. TypeOK /\ Held /\ Versions /\ Recorded /\ [Next]_vars => [Exposed]_vars
    BY SuccessIsSync, SyncedKnows
  <1>2. Spec => [][Exposed]_vars
    BY <1>1, AlwaysAccepted, RecordedInit, RecordedNext, PTL DEF Spec
  <1> QED BY <1>2 DEF SuccessIsExposed
================================================================================
