------------------------------ MODULE IngestProofs ------------------------------
(***************************************************************************)
(* Theorems about IngestJobs, for every number of jobs, loops, workers,    *)
(* claims and faults.                                                      *)
(***************************************************************************)
EXTENDS IngestJobs, TLAPS

USE IngestAssumption DEF Job, Worker

--------------------------------------------------------------------------------
(* Type correctness. *)

RowsOK ==
    /\ status \in [Job -> Statuses]
    /\ stale \subseteq {j \in Job : status[j] = "running"}

WorkersOK ==
    /\ wpc \in [Worker -> WorkerSteps]
    /\ wjob \in [Worker -> 0 .. N]
    /\ left \in [Worker -> 0 .. Quota]

LoopsOK == on \subseteq Loop /\ leader \subseteq Loop /\ tried \subseteq Loop

DogOK == dog \in DogSteps /\ pid \in SUBSET Loop /\ seen \in Seen

RestOK == ended \subseteq Job /\ faults \in 0 .. MaxFaults

LEMMA TypeParts ==
    ASSUME RowsOK', WorkersOK', LoopsOK', DogOK', RestOK' PROVE TypeOK'
BY DEF TypeOK, RowsOK, WorkersOK, LoopsOK, DogOK, RestOK

\* A worker has a job exactly as long as it works on one.
HasJob == \A w \in Worker : wjob[w] # 0 <=> wpc[w] \in Working

LEMMA HasJobIsJob ==
    ASSUME TypeOK, HasJob, NEW w \in Worker, wpc[w] \in Working
    PROVE  wjob[w] \in Job
BY DEF TypeOK, HasJob

LEMMA SetStatusRows ==
    ASSUME TypeOK, NEW j \in Job, NEW s \in Statuses, SetStatus(j, s)
    PROVE  RowsOK'
BY DEF TypeOK, RowsOK, SetStatus

LEMMA GotoWorkers ==
    ASSUME TypeOK, HasJob, NEW w \in Worker, NEW step \in WorkerSteps,
           Goto(w, step), step \in Working => wpc[w] \in Working
    PROVE  WorkersOK' /\ HasJob'
BY DEF TypeOK, WorkersOK, HasJob, Goto

LEMMA GoneWorkers ==
    ASSUME TypeOK, HasJob, NEW l, NEW W, Gone(l, W)
    PROVE  WorkersOK' /\ HasJob' /\ LoopsOK'
<1>1. "idle" \in WorkerSteps /\ "idle" \notin Working
  BY DEF WorkerSteps, Working
<1>2. WorkersOK' /\ LoopsOK'
  BY <1>1 DEF TypeOK, WorkersOK, LoopsOK, Gone
<1>3. HasJob'
  BY <1>1 DEF TypeOK, HasJob, Gone
<1>4. QED
  BY <1>2, <1>3

LEMMA NewRoundWorkers ==
    ASSUME TypeOK, HasJob, NEW l \in Loop, NewRound(l)
    PROVE  WorkersOK' /\ HasJob' /\ tried' \subseteq Loop
<1>1. "ready" \in WorkerSteps /\ "ready" \notin Working
  BY DEF WorkerSteps, Working
<1>2. WorkersOK' /\ tried' \subseteq Loop
  BY <1>1 DEF TypeOK, WorkersOK, NewRound
<1>3. HasJob'
  BY <1>1 DEF TypeOK, HasJob, NewRound
<1>4. QED
  BY <1>2, <1>3

\* What the actions leave alone.
LEMMA Same ==
    ASSUME TypeOK, HasJob
    PROVE  /\ UNCHANGED rows => RowsOK'
           /\ UNCHANGED workers => WorkersOK' /\ HasJob'
           /\ UNCHANGED loops => LoopsOK'
           /\ UNCHANGED watchdog => DogOK'
           /\ UNCHANGED <<ended, faults>> => RestOK'
           /\ UNCHANGED ended /\ Fault => RestOK'
<1>1. UNCHANGED rows => RowsOK'
  BY DEF TypeOK, RowsOK, rows
<1>2. UNCHANGED workers => WorkersOK' /\ HasJob'
  BY DEF TypeOK, HasJob, WorkersOK, workers
<1>3. UNCHANGED loops => LoopsOK'
  BY DEF TypeOK, LoopsOK, loops
<1>4. UNCHANGED watchdog => DogOK'
  BY DEF TypeOK, DogOK, watchdog
<1>5. UNCHANGED <<ended, faults>> => RestOK'
  BY DEF TypeOK, RestOK
<1>6. UNCHANGED ended /\ Fault => RestOK'
  BY DEF TypeOK, RestOK, Fault
<1>7. QED
  BY <1>1, <1>2, <1>3, <1>4, <1>5, <1>6

LEMMA DogGotoTypes ==
    ASSUME TypeOK, NEW step \in DogSteps, DogGoto(step) PROVE DogOK'
BY DEF TypeOK, DogOK, DogGoto, Seen, NoSnapshot

LEMMA TypeInit == Init => TypeOK /\ HasJob
BY DEF Init, TypeOK, HasJob, Statuses, WorkerSteps, Working, DogSteps, Seen,
       NoSnapshot

Base == TypeOK /\ HasJob

LEMMA WorkerStepBase ==
    ASSUME Base, NEW w \in Worker, WorkerStep(w) \/ Hang(w) PROVE Base'
<1> USE TypeParts, Same DEF Base
<1>0. {"syncing", "synced", "erred"} = Working /\ Working \subseteq WorkerSteps
      /\ {"idle", "ready", "hung", "raised"} \subseteq WorkerSteps
      /\ {"running", "failed", "success"} \subseteq Statuses
      /\ {"idle", "ready", "hung", "raised"} \cap Working = {}
  BY DEF Working, WorkerSteps, Statuses
<1>1. CASE Claim(w)
  <2>1. PICK j \in Job : SetStatus(j, "running") /\ wjob' = [wjob EXCEPT ![w] = j]
    BY <1>1 DEF Claim
  <2>2. RowsOK' /\ DogOK' /\ RestOK'
    BY <1>0, <1>1, <2>1, SetStatusRows DEF Claim
  <2>3. WorkersOK' /\ HasJob'
    BY <1>0, <1>1, <2>1 DEF Claim, TypeOK, WorkersOK, HasJob
  <2>4. LoopsOK'
    BY <1>1 DEF Claim, TypeOK, LoopsOK
  <2>5. QED
    BY <2>2, <2>3, <2>4
<1>2. CASE WorkerEnds(w)
  BY <1>0, <1>2, GotoWorkers DEF WorkerEnds
<1>3. CASE SyncReturns(w)
  BY <1>0, <1>3, GotoWorkers DEF SyncReturns
<1>4. CASE SyncFails(w)
  BY <1>0, <1>4, GotoWorkers DEF SyncFails
<1>5. CASE MarkSuccess(w)
  <2>1. RowsOK' /\ RestOK'
    BY <1>0, <1>5, HasJobIsJob, SetStatusRows DEF MarkSuccess, TypeOK, RestOK
  <2>2. QED
    BY <1>0, <1>5, <2>1, GotoWorkers DEF MarkSuccess
<1>6. CASE MarkFailed(w)
  <2>1. RowsOK' /\ RestOK'
    BY <1>0, <1>6, HasJobIsJob, SetStatusRows DEF MarkFailed, TypeOK, RestOK
  <2>2. QED
    BY <1>0, <1>6, <2>1, GotoWorkers DEF MarkFailed
<1>7. CASE WorkerRaises(w)
  BY <1>0, <1>7, GotoWorkers DEF WorkerRaises
<1>8. CASE Hang(w)
  BY <1>0, <1>8, GotoWorkers DEF Hang
<1>9. QED
  BY <1>1, <1>2, <1>3, <1>4, <1>5, <1>6, <1>7, <1>8 DEF WorkerStep

LEMMA LoopStepBase ==
    ASSUME Base, NEW l \in Loop, LoopStep(l) PROVE Base'
<1> USE TypeParts, Same DEF Base
<1>1. CASE RoundEnds(l)
  <2>1. WorkersOK' /\ HasJob' /\ LoopsOK'
    BY <1>1, GoneWorkers, NewRoundWorkers DEF RoundEnds, TypeOK, LoopsOK
  <2>2. QED
    BY <1>1, <2>1 DEF RoundEnds
<1>2. CASE LoopDies(l)
  BY <1>2, GoneWorkers DEF LoopDies
<1>3. CASE ParentDies(l)
  BY <1>3, GoneWorkers DEF ParentDies
<1>4. QED
  BY <1>1, <1>2, <1>3 DEF LoopStep

LEMMA DogStepBase ==
    ASSUME Base, DogStep \/ DogRestarts PROVE Base'
<1> USE TypeParts, Same DEF Base
<1>0. {"start", "count", "latest", "decide", "missing", "stalled", "kill",
       "spawn", "done"} = DogSteps
  BY DEF DogSteps
<1>1. CASE Attach
  <2>1. DogOK'
    BY <1>0, <1>1, DogGotoTypes DEF Attach, TypeOK, DogOK
  <2>2. QED
    BY <1>1, <2>1 DEF Attach
<1>2. CASE CountJobs
  <2>1. DogOK'
    BY <1>0, <1>2 DEF CountJobs, TypeOK, DogOK, Seen, Settled
  <2>2. QED
    BY <1>2, <2>1 DEF CountJobs, watchdog
<1>3. CASE LatestRunning
  <2>1. DogOK'
    BY <1>0, <1>3 DEF LatestRunning, TypeOK, DogOK, Seen
  <2>2. QED
    BY <1>3, <2>1 DEF LatestRunning
<1>4. CASE SeesEnd \/ SeesNoLoop \/ SeesStall \/ SeesNothing
  <2>1. PICK step \in DogSteps : DogGoto(step)
    BY <1>0, <1>4 DEF SeesEnd, SeesNoLoop, SeesStall, SeesNothing
  <2>2. UNCHANGED <<rows, ended, loops, workers, faults>>
    BY <1>4 DEF SeesEnd, SeesNoLoop, SeesStall, SeesNothing
  <2>3. QED
    BY <2>1, <2>2, DogGotoTypes
<1>5. CASE Reset
  <2>1. DogOK'
    BY <1>0, <1>5, DogGotoTypes DEF Reset
  <2>2. RowsOK'
    BY <1>5 DEF Reset, TypeOK, RowsOK, Statuses
  <2>3. QED
    BY <1>5, <2>1, <2>2 DEF Reset
<1>6. CASE Kill
  <2>1. DogOK'
    BY <1>0, <1>6, DogGotoTypes DEF Kill
  <2>2. WorkersOK' /\ HasJob' /\ LoopsOK'
    BY <1>6, GoneWorkers DEF Kill
  <2>3. QED
    BY <1>6, <2>1, <2>2 DEF Kill
<1>7. CASE Spawn
  <2>1. PICK l \in Loop : on' = on \cup {l} /\ leader' = leader \cup {l}
                          /\ pid' = {l} /\ NewRound(l)
    BY <1>7 DEF Spawn
  <2>2. DogOK'
    BY <1>0, <1>7, <2>1 DEF Spawn, TypeOK, DogOK
  <2>3. WorkersOK' /\ HasJob' /\ LoopsOK'
    BY <2>1, NewRoundWorkers DEF TypeOK, LoopsOK
  <2>4. QED
    BY <1>7, <2>2, <2>3 DEF Spawn
<1>8. CASE DogRestarts
  <2>1. DogOK'
    BY <1>0, <1>8 DEF DogRestarts, DogOK, Seen, NoSnapshot
  <2>2. QED
    BY <1>8, <2>1 DEF DogRestarts
<1>9. QED
  BY <1>1, <1>2, <1>3, <1>4, <1>5, <1>6, <1>7, <1>8 DEF DogStep

LEMMA BaseNext == Base /\ [Next]_vars => Base'
<1> SUFFICES ASSUME Base, [Next]_vars PROVE Base'
  OBVIOUS
<1>1. ASSUME NEW j \in Job, Ages(j) PROVE Base'
  <2>1. RowsOK'
    BY <1>1 DEF Ages, Base, TypeOK, RowsOK
  <2>2. QED
    BY <1>1, <2>1, TypeParts, Same DEF Ages, Base
<1>2. CASE UNCHANGED vars
  BY <1>2, TypeParts, Same DEF Base, vars
<1>3. QED
  BY <1>1, <1>2, WorkerStepBase, LoopStepBase, DogStepBase DEF Next

LEMMA BaseCorrect == Spec => []Base
BY TypeInit, BaseNext, PTL DEF Spec, Base

\* The variables keep their types.
THEOREM TypeCorrect == Spec => []TypeOK
BY BaseCorrect, PTL DEF Base

--------------------------------------------------------------------------------
(* The completion the watchdog reports, also when batches outlast the      *)
(* stall time.                                                             *)

\* Every job has been run to an end, and none waits.
Tried == \A j \in Job : j \in ended /\ status[j] # "pending"

\* A row with an end was marked by a worker; and once the watchdog has counted
\* neither pending nor running rows, none can become pending again before it
\* reports: it is the only one that resets rows, and it reports first.
Told ==
    /\ \A j \in Job : status[j] \in {"failed", "success"} => j \in ended
    /\ seen.settled => Tried
    /\ dog = "done" => Tried

\* A step that resets no row: what has ended stays so, and no row is pending
\* that was not.
Onward ==
    /\ ended \subseteq ended'
    /\ \A j \in Job : status'[j] = "pending" => status[j] = "pending"
    /\ \A j \in Job : status'[j] \in {"failed", "success"} =>
          j \in ended' \/ status[j] = status'[j]

LEMMA OnwardKeepsTold ==
    ASSUME Told, Onward,
           seen'.settled => seen.settled \/ Tried,
           dog' = "done" => dog = "done" \/ seen.settled
    PROVE  Told'
BY DEF Told, Onward, Tried

LEMMA WorkerOnward ==
    ASSUME Base, NEW w \in Worker, WorkerStep(w) \/ Hang(w)
    PROVE  Onward /\ UNCHANGED watchdog
<1> USE DEF Base
<1>1. CASE Claim(w)
  BY <1>1 DEF Claim, SetStatus, TypeOK, Onward
<1>2. CASE MarkSuccess(w) \/ MarkFailed(w)
  <2>1. wjob[w] \in Job
    BY <1>2, HasJobIsJob DEF MarkSuccess, MarkFailed, Working
  <2>2. QED
    BY <1>2, <2>1 DEF MarkSuccess, MarkFailed, SetStatus, TypeOK, Onward
<1>3. CASE WorkerEnds(w) \/ SyncReturns(w) \/ SyncFails(w) \/ WorkerRaises(w)
           \/ Hang(w)
  BY <1>3 DEF WorkerEnds, SyncReturns, SyncFails, WorkerRaises, Hang, rows, Onward
<1>4. QED
  BY <1>1, <1>2, <1>3 DEF WorkerStep

LEMMA WorkerTold ==
    ASSUME Base, Told, NEW w \in Worker, WorkerStep(w) \/ Hang(w)
    PROVE  Told'
<1>1. Onward /\ seen' = seen /\ dog' = dog
  BY WorkerOnward DEF watchdog
<1>2. QED
  BY <1>1, OnwardKeepsTold

LEMMA DogTold ==
    ASSUME Base, Told, DogStep
    PROVE  Told'
<1>1. CASE Reset
  <2>1. ~seen'.settled /\ dog' # "done" /\ ended' = ended
    BY <1>1 DEF Reset, DogGoto, NoSnapshot
  <2>2. \A j \in Job : status'[j] \in {"failed", "success"} => status[j] = status'[j]
    BY <1>1 DEF Reset, Base, TypeOK
  <2>3. QED
    BY <2>1, <2>2 DEF Told
<1>2. CASE ~Reset
  <2>1. UNCHANGED <<rows, ended>>
    BY <1>2 DEF DogStep, Attach, CountJobs, LatestRunning, SeesEnd, SeesNoLoop,
       SeesStall, SeesNothing, Kill, Spawn
  <2>2. Onward
    BY <2>1 DEF Onward, rows
  <2>3. seen'.settled => seen.settled \/ Tried
    <3>1. CASE CountJobs
      BY <3>1 DEF CountJobs, Settled, Told, Tried
    <3>2. CASE ~CountJobs
      BY <1>2, <3>2 DEF DogStep, Attach, LatestRunning, SeesEnd, SeesNoLoop,
         SeesStall, SeesNothing, Kill, Spawn, DogGoto, NoSnapshot
    <3>3. QED
      BY <3>1, <3>2
  <2>4. dog' = "done" => seen.settled
    BY <1>2 DEF DogStep, Attach, CountJobs, LatestRunning, SeesEnd, SeesNoLoop,
       SeesStall, SeesNothing, Kill, Spawn, DogGoto
  <2>5. QED
    BY <2>2, <2>3, <2>4, OnwardKeepsTold
<1>3. QED
  BY <1>1, <1>2

\* The watchdog never reports the end of an ingest of which a job was not run
\* to a success or to a recorded failure, or is waiting.
THEOREM CompletionTold == Spec => []CompletionIsTried
<1>1. Init => Told
  BY DEF Init, Told, NoSnapshot
<1>2. ASSUME Base, Told, [Next]_vars PROVE Told'
  <2>1. ASSUME \/ \E l \in Loop : LoopStep(l)
               \/ \E j \in Job : Ages(j)
               \/ UNCHANGED vars
        PROVE  Told'
    <3>1. UNCHANGED <<status, ended, dog, seen>>
      BY <2>1 DEF LoopStep, RoundEnds, LoopDies, ParentDies, Ages, vars, rows,
         watchdog
    <3>2. QED
      BY <1>2, <3>1 DEF Told, Tried
  <2>2. CASE DogRestarts
    BY <1>2, <2>2 DEF DogRestarts, NoSnapshot, rows, Told
  <2>3. QED
    BY <1>2, <2>1, <2>2, WorkerTold, DogTold DEF Next
<1>3. Told => CompletionIsTried
  BY DEF Told, Tried, CompletionIsTried
<1>4. QED
  BY <1>1, <1>2, <1>3, BaseCorrect, PTL DEF Spec

--------------------------------------------------------------------------------
(* The work queue, when no batch that gets on outlasts the stall time. *)

\* The row of a job that somebody works on says so, is young, and belongs to
\* one worker.  The age is what keeps the watchdog from giving the job away.
Owned ==
    /\ \A w \in Worker : wjob[w] # 0 =>
          status[wjob[w]] = "running" /\ wjob[w] \notin stale
    /\ \A v, w \in Worker : wjob[v] # 0 /\ wjob[v] = wjob[w] => v = w

Success == {j \in Job : status[j] = "success"}

Timely == ~SlowJobs

\* Workers W lose their jobs and no row of a job that somebody else works on
\* changes: that keeps Owned.
LEMMA LosingKeepsOwned ==
    ASSUME Base, Owned, NEW W,
           \A w \in Worker : wjob'[w] = IF w \in W THEN 0 ELSE wjob[w],
           \A w \in Worker \ W : wjob[w] # 0 =>
               /\ status'[wjob[w]] = status[wjob[w]]
               /\ wjob[w] \in stale' => wjob[w] \in stale
    PROVE  Owned'
BY DEF Owned

LEMMA WorkerStepOwned ==
    ASSUME Base, Owned, NEW w \in Worker, WorkerStep(w) \/ Hang(w)
    PROVE  Owned' /\ [Queue!Next]_<<wjob, Success>>
<1> USE DEF Base
<1>0. /\ \A step : step \in Working <=> step \in {"syncing", "synced", "erred"}
      /\ wjob \in [Worker -> 0 .. N]
  BY DEF Working, TypeOK
<1>1. CASE Claim(w)
  <2>1. PICK j \in Job : /\ First(j)
                         /\ SetStatus(j, "running")
                         /\ wjob' = [wjob EXCEPT ![w] = j]
    BY <1>1 DEF Claim
  <2>2. wjob[w] = 0 /\ \A v \in Worker : wjob[v] # j
    BY <1>0, <1>1, <2>1 DEF Claim, HasJob, Owned, First, Runnable
  <2>3. Owned'
    <3>1. \A v \in Worker : v # w => wjob'[v] = wjob[v]
      BY <1>0, <2>1
    <3>2. wjob'[w] = j /\ status'[j] = "running" /\ j \notin stale'
      BY <1>0, <2>1 DEF SetStatus, TypeOK
    <3>3. \A i \in Job : i # j => status'[i] = status[i]
                              /\ (i \in stale' => i \in stale)
      BY <2>1 DEF SetStatus, TypeOK
    <3>4. QED
      BY <1>0, <2>2, <3>1, <3>2, <3>3 DEF Owned
  <2>4. Success' = Success /\ j \notin Success
    BY <2>1 DEF Success, SetStatus, TypeOK, First, Runnable
  <2>5. Queue!Take(w, j)
    BY <2>1, <2>2, <2>4 DEF Queue!Take, Queue!Nothing, Success
  <2>6. QED
    BY <2>3, <2>5 DEF Queue!Next
<1>2. CASE MarkSuccess(w)
  <2>0. wjob[w] \in Job
    BY <1>0, <1>2, HasJobIsJob DEF MarkSuccess
  <2>1. wjob' = [wjob EXCEPT ![w] = 0] /\ SetStatus(wjob[w], "success")
    BY <1>2 DEF MarkSuccess, Goto, Working
  <2>2. Owned'
    BY <1>0, <2>0, <2>1 DEF Owned, SetStatus, TypeOK
  <2>3. Success' = Success \cup {wjob[w]}
    BY <2>0, <2>1 DEF Success, SetStatus, TypeOK
  <2>4. Queue!Finish(w)
    BY <2>0, <2>1, <2>3 DEF Queue!Finish, Queue!Nothing, Success
  <2>5. QED
    BY <2>2, <2>4 DEF Queue!Next
<1>3. CASE MarkFailed(w)
  <2>1. wjob[w] \in Job /\ wjob' = [wjob EXCEPT ![w] = 0]
        /\ SetStatus(wjob[w], "failed")
    BY <1>0, <1>3, HasJobIsJob DEF MarkFailed, Goto
  <2>2. Owned'
    BY <1>0, <2>1 DEF Owned, SetStatus, TypeOK
  <2>3. status[wjob[w]] = "running"
    BY <2>1 DEF Owned
  <2>4. Success' = Success
    BY <2>1, <2>3 DEF Success, SetStatus, TypeOK
  <2>5. Queue!Lose({w})
    BY <1>0, <2>1, <2>4 DEF Queue!Lose, Queue!Nothing, Success
  <2>6. QED
    BY <2>2, <2>5 DEF Queue!Next
<1>4. CASE WorkerEnds(w) \/ SyncReturns(w) \/ SyncFails(w) \/ WorkerRaises(w)
           \/ Hang(w)
  <2>1. PICK W \in SUBSET Worker :
           wjob' = [v \in Worker |-> IF v \in W THEN 0 ELSE wjob[v]]
    <3>1. CASE wjob' = [wjob EXCEPT ![w] = wjob[w]]
      BY <1>0, <3>1, {} \in SUBSET Worker
    <3>2. CASE wjob' = [wjob EXCEPT ![w] = 0]
      BY <1>0, <3>2, {w} \in SUBSET Worker
    <3>3. QED
      BY <1>4, <3>1, <3>2
         DEF WorkerEnds, SyncReturns, SyncFails, WorkerRaises, Hang, Goto
  <2>2. UNCHANGED <<status, stale>>
    BY <1>4 DEF WorkerEnds, SyncReturns, SyncFails, WorkerRaises, Hang, rows
  <2>3. Owned'
    BY <2>1, <2>2, LosingKeepsOwned
  <2>4. Queue!Lose(W)
    BY <2>1, <2>2 DEF Queue!Lose, Queue!Nothing
  <2>5. QED
    BY <2>3, <2>4 DEF Queue!Next
<1>5. QED
  BY <1>1, <1>2, <1>3, <1>4 DEF WorkerStep

LEMMA LoopStepOwned ==
    ASSUME Base, Owned, Timely,
           \/ \E l \in Loop : LoopStep(l)
           \/ \E j \in Job : Ages(j)
           \/ DogStep
           \/ DogRestarts
    PROVE  Owned' /\ [Queue!Next]_<<wjob, Success>>
<1>0. wjob \in [Worker -> 0 .. N]
  BY DEF Base, TypeOK
<1>1. \E W \in SUBSET Worker :
         wjob' = [v \in Worker |-> IF v \in W THEN 0 ELSE wjob[v]]
  <2>1. ASSUME UNCHANGED workers
        PROVE  wjob' = [v \in Worker |-> IF v \in {} THEN 0 ELSE wjob[v]]
    BY <1>0, <2>1 DEF workers
  <2>2. ASSUME NEW l, NEW W, Gone(l, W)
        PROVE  wjob' = [v \in Worker |->
                         IF v \in W \cap Worker THEN 0 ELSE wjob[v]]
    BY <2>2 DEF Gone
  <2>3. ASSUME NEW l, NewRound(l)
        PROVE  wjob' = [v \in Worker |->
                         IF v \in Of(l) \cap Worker THEN 0 ELSE wjob[v]]
    BY <2>3 DEF NewRound
  <2>4. ASSUME NEW l \in Loop, LoopStep(l)
        PROVE  \/ \E W : Gone(l, W)
               \/ NewRound(l)
    BY <2>4 DEF LoopStep, RoundEnds, LoopDies, ParentDies
  <2>5. ASSUME Kill \/ Spawn
        PROVE  \/ \E l, W : Gone(l, W)
               \/ \E l : NewRound(l)
               \/ UNCHANGED workers
    BY <2>5 DEF Kill, Spawn
  <2>6. ASSUME \/ \E j \in Job : Ages(j)
               \/ DogStep /\ ~(Kill \/ Spawn)
               \/ DogRestarts
        PROVE  UNCHANGED workers
    BY <2>6 DEF DogStep, Attach, CountJobs, LatestRunning, SeesEnd, SeesNoLoop,
       SeesStall, SeesNothing, Reset, DogRestarts, Ages
  <2>7. \/ \E l, W : Gone(l, W)
        \/ \E l : NewRound(l)
        \/ UNCHANGED workers
    BY <2>4, <2>5, <2>6
  <2>8. \A W : W \cap Worker \in SUBSET Worker
    OBVIOUS
  <2>9. {} \in SUBSET Worker
    OBVIOUS
  <2>10. QED
    BY <2>1, <2>2, <2>3, <2>7, <2>8, <2>9
<1>2. /\ Success' = Success
      /\ \A w \in Worker : wjob[w] # 0 =>
            /\ status'[wjob[w]] = status[wjob[w]]
            /\ wjob[w] \in stale' => wjob[w] \in stale
  <2>1. CASE Reset
    BY <2>1 DEF Base, TypeOK, Owned, Success, Reset
  <2>2. CASE \E j \in Job : Ages(j)
    BY <2>2 DEF Base, TypeOK, Owned, Success, Ages, Timely
  <2>3. CASE UNCHANGED rows
    BY <2>3 DEF rows, Success
  <2>4. QED
    BY <2>1, <2>2, <2>3 DEF LoopStep, RoundEnds, LoopDies, ParentDies, DogStep,
       Attach, CountJobs, LatestRunning, SeesEnd, SeesNoLoop, SeesStall,
       SeesNothing, Kill, Spawn, DogRestarts
<1>3. PICK W \in SUBSET Worker :
         wjob' = [v \in Worker |-> IF v \in W THEN 0 ELSE wjob[v]]
  BY <1>1
<1>4. Owned'
  BY <1>2, <1>3, LosingKeepsOwned
<1>5. Queue!Lose(W)
  BY <1>2, <1>3 DEF Queue!Lose, Queue!Nothing, Success
<1>6. QED
  BY <1>4, <1>5 DEF Queue!Next

LEMMA OwnedNext ==
    ASSUME Timely
    PROVE  Base /\ Owned /\ [Next]_vars
             => Owned' /\ [Queue!Next]_<<wjob, Success>>
<1> SUFFICES ASSUME Base, Owned, [Next]_vars
             PROVE  Owned' /\ [Queue!Next]_<<wjob, Success>>
  OBVIOUS
<1>1. CASE UNCHANGED vars
  BY <1>1 DEF vars, rows, workers, Owned, Success
<1>2. QED
  BY <1>1, WorkerStepOwned, LoopStepOwned DEF Next

LEMMA OwnedCorrect == ASSUME Timely PROVE Spec => [](Base /\ Owned)
<1>1. Init => Owned
  BY DEF Init, Owned
<1>2. QED
  BY <1>1, OwnedNext, BaseCorrect, PTL DEF Spec

\* When no batch that gets on outlasts the stall time, the row of a job that
\* somebody works on says that it is running.
THEOREM RowsSayWhoWorks == ASSUME Timely PROVE Spec => []ClaimsHold
<1>1. Owned => ClaimsHold
  BY DEF Owned, ClaimsHold
<1>2. QED
  BY <1>1, OwnedCorrect, PTL

\* Under the same hypothesis the table implements the work queue.
THEOREM TableIsQueue == ASSUME Timely PROVE Spec => WorkedOnce
<1>1. Init => Queue!Init
  BY DEF Init, Queue!Init, Queue!Nothing
<1>2. Base /\ Owned /\ [Next]_vars
        => [Queue!Next]_<<wjob, {j \in Job : status[j] = "success"}>>
  BY OwnedNext DEF Success
<1>3. QED
  BY <1>1, <1>2, OwnedCorrect, PTL DEF Spec, WorkedOnce, Queue!Spec
================================================================================
