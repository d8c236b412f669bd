------------------------------ MODULE RepairLoop -------------------------------
(***************************************************************************)
(* run_eod_auto_repair (eod_auto_repair.py): the repair of one trade date. *)
(* It runs a plan of checks, runs the action of a check that blocks the    *)
(* date, and checks again.                                                 *)
(*   - Mode "loop" walks through the repair order for some cycles, forces  *)
(*     the dependents of what it repaired, and looks after every action.   *)
(*   - Mode "repair" walks once through the stages, looks after each stage *)
(*     and stops before the next one when a blocker remains.               *)
(* Either mode attempts the strategy publication once.  The publication    *)
(* itself is the write-once register that StrategyPublish implements.      *)
(***************************************************************************)
EXTENDS Naturals, Sequences, Functions

CONSTANTS
    Check,        \* the checks of the plan
    Order,        \* LOOP_REPAIR_ORDER
    Dependents,   \* LOOP_DEPENDENT_REPAIRS, a sequence of checks for each check
    Stages,       \* STAGE_CHECKS, a sequence of sequences of checks
    Publication,  \* STRATEGY_PUBLICATION_CHECKS
    Repairable,   \* the checks the action registry has an action for
    MaxCycles,    \* the argument max_cycles
    PlanFailed    \* the check plan itself raises

ASSUME TablesAssumption ==
    /\ PlanFailed \notin Check
    /\ Order \in Seq(Check)
    /\ Dependents \in [Check -> Seq(Check)]
    /\ Stages \in Seq(Seq(Check)) \ {<<>>}
    /\ Publication \subseteq Check
    /\ Repairable \subseteq Check
    /\ MaxCycles \in Nat \ {0}

Position == 1 .. Len(Order)

DependentsOf(c) == Range(Dependents[c])

\* Dependents that the repair order puts before what they depend on.  There is
\* one: ops_health, which follows market_monitor and precedes strategy_publish.
Backward ==
    {d \in Check : \E i, j \in Position :
        i < j /\ Order[i] = d /\ d \in DependentsOf(Order[j])}

\* The rest of the tables' shape: no check is named twice or depends on itself,
\* and what is forced out of order forces nothing itself.
ASSUME OrderAssumption ==
    /\ \A i, j \in Position : Order[i] = Order[j] => i = j
    /\ \A c \in Check : DependentsOf(c) \subseteq Range(Order) \ {c}
    /\ \A d \in Backward : Dependents[d] = <<>>

VARIABLES
    mode,        \* "loop" or "repair"
    blocked,     \* current_checks: the checks that block the date
    soft,        \* current_checks: those that fail without blocking it
    cycle,       \* cycle_number, or the number of the stage
    pos,         \* queue_index, in the cycle's repair order or in the stage
    extra,       \* what repair_queue has behind the repair order
    ran,         \* ran_action_this_cycle, or the actions of the stage
    forced,      \* forced_actions, or what the stage found failing at its start
    fails,       \* failed_action_counts
    attempted,   \* publication_action_ran
    stop,        \* stop_reason, "none" while there is none
    registered,  \* a strategy release of the date is registered
    stale,       \* history: checks whose output is older than something it depends on
    reused,      \* history: a publication found a release registered before it
    published    \* history: the number of publication actions

checks == <<blocked, soft>>
walk == <<pos, extra, ran, forced>>
outputs == <<registered, stale, reused, published>>
vars == <<mode, checks, cycle, walk, fails, attempted, stop, outputs>>

Stops == {"none", "ready", "publication_attempted", "failed_repeatedly",
          "no_action", "max_cycles", "stage_blocked", "stages_done"}

TypeOK ==
    /\ mode \in {"loop", "repair"}
    /\ blocked \subseteq Check \cup {PlanFailed}
    /\ soft \subseteq Check
    /\ cycle \in Nat
    /\ pos \in Nat
    /\ extra \subseteq Check
    /\ ran \subseteq Check
    /\ forced \subseteq Check
    /\ fails \in [Check -> Nat]
    /\ attempted \in BOOLEAN
    /\ stop \in Stops
    /\ registered \in BOOLEAN
    /\ stale \subseteq Check
    /\ reused \in BOOLEAN
    /\ published \in Nat

--------------------------------------------------------------------------------
(* Checks.  A check may come out differently for reasons of its own: other *)
(* jobs write the tables too, and a check that raises counts as a blocker. *)

\* What _safe_run_check_plan may return, in _has_blocker's terms: the blockers,
\* and the other failures, which only mode "repair" acts on.  ops_health blocks
\* whenever _ops_health_ready is false, so the blockers alone decide.
Blockers == {{PlanFailed}} \cup SUBSET Check

Minor(bad) ==
    IF mode = "loop" \/ PlanFailed \in bad THEN {{}} ELSE SUBSET (Check \ bad)

Observe ==
    /\ blocked' \in Blockers
    /\ soft' \in Minor(blocked')

Ready(bad) == bad = {}

\* LOOP_REPAIR_ORDER, or the checks of the current stage.
Line == IF mode = "loop" THEN Order ELSE Stages[cycle]

\* What the walk has come to, and repair_queue[queue_index:].  The checks that
\* are forced behind the order are independent: their order is left open.
Heads == IF pos \in DOMAIN Line THEN {Line[pos]} ELSE extra

LeftFrom(p) == {Line[i] : i \in {j \in DOMAIN Line : j >= p}}

Init ==
    /\ mode \in {"loop", "repair"}
    /\ blocked \in Blockers
    /\ soft \in Minor(blocked)
    /\ cycle = 1
    /\ pos = 1
    /\ extra = {}
    /\ ran = {}
    /\ forced = IF mode = "loop" THEN {} ELSE (blocked \cup soft) \cap Range(Stages[1])
    /\ fails = [c \in Check |-> 0]
    /\ attempted = FALSE
    /\ stop = IF mode = "loop" /\ Ready(blocked) THEN "ready" ELSE "none"
    /\ registered \in BOOLEAN
    /\ stale = {}
    /\ reused = FALSE
    /\ published = 0

--------------------------------------------------------------------------------
(* The walk along the order or the stage *)

\* Mode "loop" looks whether the check blocks when it gets there; mode "repair"
\* goes by what the stage found at its start.
Wanted(c) == c \notin ran /\ (c \in forced \/ (mode = "loop" /\ c \in blocked))

\* Mutant: a check is refused only when its own publication has failed.
RefusedAfterOwnFailure(c) ==
    Wanted(c) /\ ((c \in Publication /\ attempted /\ fails[c] > 0) \/ fails[c] >= 2)

\* A check that is wanted but will not get another action in this run.
Refused(c) == Wanted(c) /\ ((c \in Publication /\ attempted) \/ fails[c] >= 2)

Runs(c) == Wanted(c) /\ ~Refused(c) /\ c \in Repairable

\* Mutant: the index moves on only when the check's action runs.
AdvanceWhenRun(c) == pos' = IF pos \in DOMAIN Line /\ Runs(c) THEN pos + 1 ELSE pos

Advance(c) == pos' = IF pos \in DOMAIN Line THEN pos + 1 ELSE pos

\* Mode "loop" gives up at a refusal, mode "repair" passes on.
Pass(c) ==
    /\ ~Runs(c)
    /\ mode = "loop" => ~Refused(c)
    /\ Advance(c)
    /\ extra' = extra \ {c}
    /\ UNCHANGED <<mode, checks, cycle, ran, forced, fails, attempted, stop, outputs>>

GiveUp(c) ==
    /\ mode = "loop"
    /\ Refused(c)
    /\ stop' = IF c \in Publication /\ attempted
               THEN "publication_attempted" ELSE "failed_repeatedly"
    /\ UNCHANGED <<mode, checks, cycle, walk, fails, attempted, outputs>>

\* _safe_run_action: an action succeeds, or raises or times out, and may have
\* written all the same.  The three publication checks have the same action:
\* it publishes, or finds the date published and rebuilds nothing; its receipt
\* may fail after it.
Act(c, ok, wrote) ==
    LET publication == c \in Publication
        rebuilt == IF ~publication THEN {c} ELSE IF registered THEN {} ELSE Publication
    IN
    /\ ok => wrote
    /\ ran' = ran \cup {c}
    /\ attempted' = (attempted \/ publication)
    /\ published' = IF publication THEN published + 1 ELSE published
    /\ registered' = (registered \/ (publication /\ wrote))
    /\ reused' = (reused \/ (publication /\ registered))
    /\ stale' = IF wrote
                THEN (IF ok THEN stale \ rebuilt ELSE stale) \cup DependentsOf(c)
                ELSE stale

\* A success forces the dependents that have had no action in this cycle.
Forced(c, ok) == IF ok THEN DependentsOf(c) \ (ran \cup {c}) ELSE {}

\* Forced actions that the cycle has yet to come to.
Pending(p) == ((LeftFrom(p) \cup extra') \cap forced' \cap Repairable) \ ran'

\* Mutant: the run stops as soon as the checks are clean.
VerdictWhenClean(c, ok, pending) ==
    IF ~ok /\ fails[c] >= 1 THEN "failed_repeatedly"
    ELSE IF Ready(blocked') THEN "ready"
    ELSE "none"

Verdict(c, ok, pending) ==
    IF ~ok /\ fails[c] >= 1 THEN "failed_repeatedly"
    ELSE IF pending = {} /\ Ready(blocked') THEN "ready"
    ELSE "none"

RunInLoop(c) ==
    /\ mode = "loop"
    /\ Runs(c)
    /\ Advance(c)
    /\ \E ok, wrote \in BOOLEAN :
        /\ Act(c, ok, wrote)
        /\ fails' = [fails EXCEPT ![c] = IF ok THEN @ ELSE @ + 1]
        /\ forced' = forced \cup Forced(c, ok)
        /\ extra' = (extra \ {c}) \cup (Forced(c, ok) \ LeftFrom(pos'))
        /\ LET pending == Pending(pos') IN
              /\ Observe
              /\ stop' = Verdict(c, ok, pending)
    /\ UNCHANGED <<mode, cycle>>

\* Mode "repair" does not look between the actions of a stage.
RunInStage(c) ==
    /\ mode = "repair"
    /\ Runs(c)
    /\ Advance(c)
    /\ \E ok, wrote \in BOOLEAN : Act(c, ok, wrote)
    /\ UNCHANGED <<mode, checks, cycle, extra, forced, fails, stop>>

--------------------------------------------------------------------------------
(* Cycles and stages *)

\* Mutant: the next part forces whatever blocks the date.
NextPartForcesBlockers(wanted) ==
    /\ cycle' = cycle + 1
    /\ pos' = 1
    /\ ran' = {}
    /\ forced' = blocked'

NextPart(wanted) ==
    /\ cycle' = cycle + 1
    /\ pos' = 1
    /\ ran' = {}
    /\ forced' = wanted

\* Mutant: one cycle too many.
CycleEndsLate ==
    /\ mode = "loop"
    /\ Heads = {}
    /\ stop' = IF Ready(blocked) THEN "ready"
               ELSE IF ran = {} THEN "no_action"
               ELSE IF cycle > MaxCycles THEN "max_cycles" ELSE "none"
    /\ IF stop' = "none" THEN NextPart({}) ELSE UNCHANGED <<cycle, pos, ran, forced>>
    /\ UNCHANGED <<mode, checks, extra, fails, attempted, outputs>>

CycleEnds ==
    /\ mode = "loop"
    /\ Heads = {}
    /\ stop' = IF Ready(blocked) THEN "ready"
               ELSE IF ran = {} THEN "no_action"
               ELSE IF cycle = MaxCycles THEN "max_cycles" ELSE "none"
    /\ IF stop' = "none" THEN NextPart({}) ELSE UNCHANGED <<cycle, pos, ran, forced>>
    /\ UNCHANGED <<mode, checks, extra, fails, attempted, outputs>>

\* Only the blockers of the stage itself stop the run.
StageEnds ==
    /\ mode = "repair"
    /\ Heads = {}
    /\ IF ran = {} THEN UNCHANGED checks ELSE Observe
    /\ stop' = IF blocked' \cap Range(Line) # {} THEN "stage_blocked"
               ELSE IF cycle = Len(Stages) THEN "stages_done" ELSE "none"
    /\ IF stop' = "none"
       THEN NextPart((blocked' \cup soft') \cap Range(Stages[cycle + 1]))
       ELSE UNCHANGED <<cycle, pos, ran, forced>>
    /\ UNCHANGED <<mode, extra, fails, attempted, outputs>>

Walk(c) == Pass(c) \/ GiveUp(c) \/ RunInLoop(c) \/ RunInStage(c)

Next ==
    /\ stop = "none"
    /\ \/ \E c \in Heads : Walk(c)
       \/ CycleEnds
       \/ StageEnds

Spec == Init /\ [][Next]_vars

\* The process is single-threaded and each action of the registry has a
\* deadline (SIGALRM, action_timeout_seconds): it does not stay in a step.
FairSpec == Spec /\ WF_vars(Next)

--------------------------------------------------------------------------------
(* Properties *)

\* One run attempts the strategy publication at most once, whichever of the
\* three checks asks for it, in however many cycles or stages, and whether the
\* attempt succeeds or not.
PublishesOnce == published <= 1

\* Why a check may be older than something it depends on when the run says
\* "ready": it comes before it in the order, its action or the action it
\* depends on failed, or the release of the date was registered before the
\* run and a publication leaves it as it is.
Excused(d) ==
    \/ d \in Backward
    \/ \E c \in Check : fails[c] > 0 /\ (d = c \/ d \in DependentsOf(c))
    \/ d \in Publication /\ reused

\* When mode "loop" stops because nothing blocks the date, everything that was
\* repaired has been followed by the repair of what depends on it, across the
\* cycles and although the checks alone would have let it stop before.
ReadyIsRebuilt ==
    mode = "loop" /\ stop = "ready" => \A d \in stale \cap Repairable : Excused(d)

\* The checks of the stages before the publication's.
Prerequisites ==
    UNION {Range(Stages[i]) : i \in {j \in DOMAIN Stages : \E k \in DOMAIN Stages :
        j < k /\ Range(Stages[k]) \cap Publication # {}}}

\* The publication is attempted when the data it is built from has been
\* repaired: no check of an earlier stage blocks the date.  It is what the
\* design documents say of the repair; mode "loop" does not keep it.
PrerequisitesFirst ==
    [][mode = "loop" /\ published' > published => blocked \cap Prerequisites = {}]_vars

\* The last cycle there may be, or the last stage.
LastCycle == IF mode = "loop" THEN MaxCycles ELSE Len(Stages)

\* The run goes on to the next of its cycles or stages, along the order or the
\* stage, or leaves one check fewer behind it.
Closer ==
    \/ cycle' = cycle + 1 /\ cycle < LastCycle
    \/ cycle' = cycle /\ pos' = pos + 1 /\ pos <= Len(Line)
    \/ cycle' = cycle /\ pos' = pos /\ extra' \subseteq extra /\ extra' # extra

\* Every step of a run ends it or brings it closer to its end: an action that
\* forces others puts nothing back in front of the walk, and what it puts
\* behind the order is never made more from there.
Progresses == [][stop' # "none" \/ Closer]_vars

\* The run comes to an end: what it forces does not keep it going.
RepairEnds == <>(stop # "none")
================================================================================
