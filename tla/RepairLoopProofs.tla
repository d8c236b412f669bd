---------------------------- MODULE RepairLoopProofs ---------------------------
(***************************************************************************)
(* Theorems about RepairLoop, for every repair order, every dependency     *)
(* table of the assumed shape, every division into stages and any number   *)
(* of cycles.                                                              *)
(***************************************************************************)
EXTENDS RepairLoop, TLAPS

USE DEF Ready

--------------------------------------------------------------------------------
(* The tables *)

LEMMA TablesTyped ==
    /\ Order \in Seq(Check)
    /\ Range(Order) \subseteq Check
    /\ \A c \in Check : DependentsOf(c) \subseteq Check /\ DependentsOf(c) = Range(Dependents[c])
    /\ \A k \in DOMAIN Stages : Stages[k] \in Seq(Check) /\ Range(Stages[k]) \subseteq Check
    /\ DOMAIN Stages = 1 .. Len(Stages) /\ Len(Stages) \in Nat /\ 1 \in DOMAIN Stages
    /\ Position = DOMAIN Order
    /\ Repairable \subseteq Check /\ Publication \subseteq Check
  <1>1. Order \in Seq(Check) /\ Range(Order) \subseteq Check /\ Position = DOMAIN Order
    BY TablesAssumption DEF Range, Position
  <1>2. \A c \in Check : DependentsOf(c) = Range(Dependents[c])
    BY DEF DependentsOf
  <1>3. ASSUME NEW c \in Check PROVE DependentsOf(c) \subseteq Check
    <2>1. Dependents[c] \in Seq(Check)
      BY TablesAssumption
    <2> QED BY <2>1 DEF Range, DependentsOf
  <1>4. DOMAIN Stages = 1 .. Len(Stages) /\ Len(Stages) \in Nat /\ 1 \in DOMAIN Stages
    BY TablesAssumption
  <1>5. ASSUME NEW k \in DOMAIN Stages
        PROVE  Stages[k] \in Seq(Check) /\ Range(Stages[k]) \subseteq Check
    <2>1. Stages[k] \in Seq(Check)
      BY TablesAssumption
    <2> QED BY <2>1 DEF Range
  <1> QED BY <1>1, <1>2, <1>3, <1>4, <1>5, TablesAssumption

\* The walk stays in the tables.
InTables ==
    /\ pos \in Nat \ {0}
    /\ mode = "repair" => cycle \in DOMAIN Stages

LEMMA LineTyped ==
    ASSUME TypeOK, InTables
    PROVE  /\ Line \in Seq(Check)
           /\ DOMAIN Line = 1 .. Len(Line) /\ Len(Line) \in Nat
           /\ Heads \subseteq Check
           /\ Range(Line) \subseteq Check
  <1>1. Line \in Seq(Check)
    BY TablesTyped DEF TypeOK, InTables, Line
  <1>2. Heads \subseteq Check /\ Range(Line) \subseteq Check
    BY <1>1 DEF Heads, Range, TypeOK
  <1> QED BY <1>1, <1>2

--------------------------------------------------------------------------------
(* Type correctness *)

Typed == TypeOK /\ InTables

LEMMA ObserveTyped ==
    ASSUME Observe
    PROVE  blocked' \subseteq Check \cup {PlanFailed} /\ soft' \subseteq Check
  BY DEF Observe, Blockers, Minor

LEMMA ActTyped ==
    ASSUME TypeOK, NEW c \in Check, NEW ok \in BOOLEAN, NEW wrote \in BOOLEAN, Act(c, ok, wrote)
    PROVE  /\ ran' \subseteq Check /\ attempted' \in BOOLEAN /\ published' \in Nat
           /\ registered' \in BOOLEAN /\ reused' \in BOOLEAN /\ stale' \subseteq Check
  <1>1. stale' \subseteq Check
    BY TablesTyped DEF Act, TypeOK
  <1> QED BY <1>1 DEF Act, TypeOK

LEMMA TypedInit == Init => Typed
  <1> SUFFICES ASSUME Init PROVE Typed
    OBVIOUS
  <1>1. blocked \subseteq Check \cup {PlanFailed} /\ soft \subseteq Check
    BY DEF Init, Blockers, Minor
  <1>2. forced \subseteq Check
    <2>1. Range(Stages[1]) \subseteq Check
      BY TablesTyped
    <2> QED BY <2>1 DEF Init
  <1>4. InTables
    <2>1. cycle = 1 /\ pos = 1
      BY DEF Init
    <2> QED BY <2>1, TablesTyped DEF InTables
  <1>3. fails \in [Check -> Nat]
    BY DEF Init
  <1> QED BY <1>1, <1>2, <1>3, <1>4 DEF Init, Typed, TypeOK, Stops

LEMMA TypedNext == Typed /\ [Next]_vars => Typed'
  <1> SUFFICES ASSUME Typed, [Next]_vars PROVE Typed'
    OBVIOUS
  <1> USE DEF Typed
  <1>L. /\ Line \in Seq(Check) /\ DOMAIN Line = 1 .. Len(Line) /\ Len(Line) \in Nat
        /\ Heads \subseteq Check
    BY LineTyped
  <1>1. ASSUME NEW c \in Heads, Pass(c) PROVE Typed'
    <2>1. InTables'
      BY <1>1, <1>L DEF Pass, Advance, InTables
    <2>2. extra' \subseteq Check
      BY <1>1 DEF Pass, TypeOK
    <2>3. UNCHANGED <<mode, checks, cycle, ran, forced, fails, attempted, stop, outputs>>
      BY <1>1 DEF Pass
    <2> QED BY <2>1, <2>2, <2>3 DEF TypeOK, InTables, checks, outputs
  <1>2. ASSUME NEW c \in Heads, GiveUp(c) PROVE Typed'
    BY <1>2 DEF GiveUp, TypeOK, InTables, checks, walk, outputs, Stops
  <1>3. ASSUME NEW c \in Heads, RunInLoop(c) PROVE Typed'
    <2>1. c \in Check
      BY <1>L
    <2>2. PICK ok \in BOOLEAN, wrote \in BOOLEAN :
            /\ Act(c, ok, wrote)
            /\ fails' = [fails EXCEPT ![c] = IF ok THEN @ ELSE @ + 1]
            /\ forced' = forced \cup Forced(c, ok)
            /\ extra' = (extra \ {c}) \cup (Forced(c, ok) \ LeftFrom(pos'))
            /\ Observe
            /\ stop' = Verdict(c, ok, Pending(pos'))
      BY <1>3 DEF RunInLoop
    <2>3. Forced(c, ok) \subseteq Check
      BY <2>1, TablesTyped DEF Forced
    <2>4. fails' \in [Check -> Nat]
      <3>1. fails \in [Check -> Nat] /\ fails[c] \in Nat
        BY <2>1 DEF TypeOK
      <3> QED BY <2>1, <2>2, <3>1
    <2>5. stop' \in Stops
      BY <2>2 DEF Verdict, Stops
    <2>6. InTables' /\ mode' = mode /\ cycle' = cycle
      BY <1>3, <1>L DEF RunInLoop, Advance, InTables
    <2>7. blocked' \subseteq Check \cup {PlanFailed} /\ soft' \subseteq Check
      BY <2>2, ObserveTyped
    <2>8. /\ ran' \subseteq Check /\ attempted' \in BOOLEAN /\ published' \in Nat
          /\ registered' \in BOOLEAN /\ reused' \in BOOLEAN /\ stale' \subseteq Check
      BY <2>1, <2>2, ActTyped
    <2>9. forced' \subseteq Check /\ extra' \subseteq Check
      BY <2>2, <2>3 DEF TypeOK
    <2> QED BY <2>4, <2>5, <2>6, <2>7, <2>8, <2>9 DEF TypeOK, InTables
  <1>4. ASSUME NEW c \in Heads, RunInStage(c) PROVE Typed'
    <2>1. PICK ok \in BOOLEAN, wrote \in BOOLEAN : Act(c, ok, wrote)
      BY <1>4 DEF RunInStage
    <2>2. /\ ran' \subseteq Check /\ attempted' \in BOOLEAN /\ published' \in Nat
          /\ registered' \in BOOLEAN /\ reused' \in BOOLEAN /\ stale' \subseteq Check
      BY <2>1, <1>L, ActTyped
    <2>3. InTables' /\ UNCHANGED <<mode, checks, cycle, extra, forced, fails, stop>>
      BY <1>4, <1>L DEF RunInStage, Advance, InTables
    <2> QED BY <2>2, <2>3 DEF TypeOK, InTables, checks
  <1>5. CASE CycleEnds
    <2>1. stop' \in Stops
      BY <1>5 DEF CycleEnds, Stops
    <2>2. cycle' \in Nat /\ pos' \in Nat \ {0} /\ ran' \subseteq Check /\ forced' \subseteq Check
      <3>1. CASE stop' = "none"
        <4>1. NextPart({})
          BY <1>5, <3>1 DEF CycleEnds
        <4> QED BY <4>1 DEF NextPart, TypeOK
      <3>2. CASE stop' # "none"
        <4>1. UNCHANGED <<cycle, pos, ran, forced>>
          BY <1>5, <3>2 DEF CycleEnds
        <4> QED BY <4>1 DEF TypeOK, InTables
      <3> QED BY <3>1, <3>2
    <2> QED BY <1>5, <2>1, <2>2 DEF CycleEnds, TypeOK, InTables, checks, outputs
  <1>6. CASE StageEnds
    <2>1. stop' \in Stops
      BY <1>6 DEF StageEnds, Stops
    <2>2. blocked' \subseteq Check \cup {PlanFailed} /\ soft' \subseteq Check
      BY <1>6, ObserveTyped DEF StageEnds, checks, TypeOK
    <2>3. CASE stop' = "none"
      <3>1. cycle # Len(Stages) /\ NextPart((blocked' \cup soft') \cap Range(Stages[cycle + 1]))
        BY <1>6, <2>3 DEF StageEnds
      <3>2. cycle + 1 \in DOMAIN Stages /\ cycle \in Nat
        <4>1. DOMAIN Stages = 1 .. Len(Stages) /\ Len(Stages) \in Nat
          BY TablesTyped
        <4>2. cycle \in DOMAIN Stages
          BY <1>6 DEF StageEnds, InTables
        <4> QED BY <3>1, <4>1, <4>2
      <3>3. forced' \subseteq Check
        BY <3>1, <3>2, TablesTyped DEF NextPart
      <3>4. cycle' = cycle + 1 /\ pos' = 1 /\ ran' = {}
        BY <3>1 DEF NextPart
      <3>5. UNCHANGED <<mode, extra, fails, attempted, outputs>>
        BY <1>6 DEF StageEnds
      <3> QED BY <2>1, <2>2, <3>2, <3>3, <3>4, <3>5 DEF TypeOK, InTables, outputs
    <2>4. CASE stop' # "none"
      BY <1>6, <2>1, <2>2, <2>4 DEF StageEnds, TypeOK, InTables, outputs
    <2> QED BY <2>3, <2>4
  <1>7. CASE UNCHANGED vars
    BY <1>7 DEF vars, TypeOK, InTables, checks, walk, outputs
  <1> QED BY <1>1, <1>2, <1>3, <1>4, <1>5, <1>6, <1>7 DEF Next, Walk

\* Type correctness of the repair run.
THEOREM TypeCorrect == Spec => []TypeOK
  <1>1. Spec => []Typed
    BY TypedInit, TypedNext, PTL DEF Spec
  <1> QED BY <1>1, PTL DEF Typed

\* Types and the place of the walk, for the proofs below.
THEOREM AlwaysTyped == Spec => []Typed
  BY TypedInit, TypedNext, PTL DEF Spec

--------------------------------------------------------------------------------
(* One publication a run *)

\* published counts what attempted remembers.
Counted == published = (IF attempted THEN 1 ELSE 0)

LEMMA CountedNext == Typed /\ Counted /\ [Next]_vars => Counted'
  <1> SUFFICES ASSUME Typed, Counted, [Next]_vars PROVE Counted'
    OBVIOUS
  <1> USE DEF Counted
  <1>1. ASSUME NEW c \in Heads, NEW ok \in BOOLEAN, NEW wrote \in BOOLEAN,
               Runs(c), Act(c, ok, wrote)
        PROVE  Counted'
    <2>1. c \in Publication => ~attempted
      BY <1>1 DEF Runs, Refused
    <2>2. CASE c \in Publication
      <3>1. published = 0
        BY <2>1, <2>2
      <3>2. published' = published + 1 /\ attempted'
        BY <1>1, <2>2 DEF Act
      <3> QED BY <3>1, <3>2
    <2>3. CASE c \notin Publication
      <3>1. published' = published
        BY <1>1, <2>3 DEF Act
      <3>2. attempted' <=> attempted
        BY <1>1, <2>3 DEF Act
      <3> QED BY <3>1, <3>2
    <2> QED BY <2>2, <2>3
  <1>2. ASSUME NEW c \in Heads, Walk(c) PROVE Counted'
    <2>1. CASE Pass(c)
      BY <2>1 DEF Pass, outputs
    <2>2. CASE GiveUp(c)
      BY <2>2 DEF GiveUp, outputs
    <2>3. CASE RunInLoop(c)
      BY <1>1, <2>3 DEF RunInLoop
    <2>4. CASE RunInStage(c)
      BY <1>1, <2>4 DEF RunInStage
    <2> QED BY <1>2, <2>1, <2>2, <2>3, <2>4 DEF Walk
  <1>3. CASE CycleEnds
    BY <1>3 DEF CycleEnds, outputs
  <1>4. CASE StageEnds
    BY <1>4 DEF StageEnds, outputs
  <1>5. CASE UNCHANGED vars
    BY <1>5 DEF vars, outputs
  <1> QED BY <1>2, <1>3, <1>4, <1>5 DEF Next

\* A repair run attempts the publication at most once, in either mode.
THEOREM OnePublication == Spec => []PublishesOnce
  <1>1. Init => Counted
    BY DEF Init, Counted
  <1>2. Counted => PublishesOnce
    BY DEF Counted, PublishesOnce
  <1> QED BY <1>1, <1>2, CountedNext, AlwaysTyped, PTL DEF Spec

--------------------------------------------------------------------------------
(* What was repaired is followed by what depends on it *)

\* A check the cycle will still come to and run.
Ahead(d) == d \in forced /\ d \notin ran /\ d \in LeftFrom(pos) \cup extra

\* Checks the walk has passed.
Behind(d) == \E i \in Position : i < pos /\ Order[i] = d

\* Only what stands before its cause is put behind the order.
Appended == extra \subseteq Backward /\ \A d \in ran : Behind(d) \/ d \in Backward

AllAhead ==
    stop \in {"none", "ready"} => \A d \in stale \cap Repairable : Excused(d) \/ Ahead(d)

Followed == mode = "loop" => Appended /\ AllAhead /\ ReadyIsRebuilt

\* In mode "loop" the walk follows the order.
LEMMA LoopLine ==
    ASSUME Typed, mode = "loop"
    PROVE  /\ Line = Order
           /\ DOMAIN Line = Position
           /\ \A p : LeftFrom(p) = {Order[i] : i \in {j \in Position : j >= p}}
           /\ Heads = IF pos \in Position THEN {Order[pos]} ELSE extra
  BY TablesTyped DEF Line, Position, LeftFrom, Heads

LEMMA PositionNat == Position = 1 .. Len(Order) /\ Len(Order) \in Nat
  BY TablesAssumption DEF Position

\* What the run leaves behind it keeps its excuse.
LEMMA ExcusedStays ==
    ASSUME Typed, NEW d \in Check, Excused(d),
           \A c \in Check : fails[c] > 0 => fails'[c] > 0,
           reused => reused'
    PROVE  Excused(d)'
  <1>1. CASE d \in Backward
    BY <1>1 DEF Excused
  <1>2. CASE \E c \in Check : fails[c] > 0 /\ (d = c \/ d \in DependentsOf(c))
    BY <1>2 DEF Excused
  <1>3. CASE d \in Publication /\ reused
    BY <1>3 DEF Excused
  <1> QED BY <1>1, <1>2, <1>3 DEF Excused

\* A check that is ahead stays ahead until the walk is at it.
LEMMA AheadStays ==
    ASSUME Typed, mode = "loop", mode' = mode, NEW c \in Heads, NEW d \in Check, Ahead(d), d # c,
           Advance(c), extra \ {c} \subseteq extra', forced \subseteq forced',
           ran' \subseteq ran \cup {c}
    PROVE  Ahead(d)'
  <1>1. d \in forced' /\ d \notin ran'
    BY DEF Ahead
  <1>2. Typed => Line = Order /\ DOMAIN Line = Position
    BY LoopLine
  <1>3. LeftFrom(pos)' = {Order[i] : i \in {j \in Position : j >= pos'}}
    BY TablesTyped DEF LeftFrom, Line
  <1>4. CASE d \in extra
    BY <1>1, <1>4 DEF Ahead
  <1>5. CASE d \in LeftFrom(pos)
    <2>1. PICK i \in Position : i >= pos /\ Order[i] = d
      BY <1>5, LoopLine
    <2>2. CASE pos \in Position
      <3>1. c = Order[pos] /\ pos' = pos + 1
        BY <2>2, LoopLine DEF Advance
      <3>2. i # pos /\ i \in Nat /\ pos \in Nat
        BY <2>1, <3>1, PositionNat DEF Typed, TypeOK
      <3>3. i >= pos'
        BY <2>1, <3>1, <3>2
      <3> QED BY <1>1, <1>3, <2>1, <3>3 DEF Ahead
    <2>3. CASE pos \notin Position
      <3>1. pos' = pos
        BY <2>3, LoopLine DEF Advance
      <3> QED BY <1>1, <1>3, <2>1, <3>1 DEF Ahead
    <2> QED BY <2>2, <2>3
  <1> QED BY <1>4, <1>5 DEF Ahead

\* A dependent of the check the walk is at is behind only if it is Backward.
LEMMA DependentsLater ==
    ASSUME Typed, mode = "loop", Appended, NEW c \in Heads, NEW d \in DependentsOf(c)
    PROVE  /\ pos \in Position /\ c = Order[pos] /\ d # c
           /\ \A i \in Position : Order[i] = d => i > pos \/ d \in Backward
           /\ \E i \in Position : Order[i] = d
  <1>1. c \in Check /\ d \in Check
    BY LineTyped, TablesTyped DEF Typed
  <1>2. pos \in Position
    <2> SUFFICES ASSUME pos \notin Position PROVE FALSE
      OBVIOUS
    <2>1. c \in Backward
      BY LoopLine DEF Appended
    <2>2. Dependents[c] = <<>>
      BY <2>1, OrderAssumption
    <2>3. DependentsOf(c) = {}
      BY <2>2 DEF DependentsOf, Range
    <2> QED BY <2>3
  <1>3. c = Order[pos]
    BY <1>2, LoopLine
  <1>4. d \in Range(Order) /\ d # c
    BY <1>1, OrderAssumption
  <1>5. \E i \in Position : Order[i] = d
    BY <1>4, TablesTyped DEF Range
  <1>6. ASSUME NEW i \in Position, Order[i] = d PROVE i > pos \/ d \in Backward
    <2>1. i \in Nat /\ pos \in Nat /\ i # pos
      BY <1>2, <1>3, <1>4, <1>6, PositionNat
    <2>2. CASE i < pos
      BY <1>1, <1>2, <1>3, <1>6, <2>2 DEF Backward
    <2>3. CASE i > pos
      BY <2>3
    <2> QED BY <2>1, <2>2, <2>3
  <1> QED BY <1>2, <1>3, <1>4, <1>5, <1>6

\* At the end of a cycle nothing is ahead.
LEMMA NothingAhead ==
    ASSUME Typed, mode = "loop", Heads = {}, NEW d
    PROVE  ~Ahead(d) /\ extra = {}
  <1>1. pos \notin Position /\ extra = {}
    BY LoopLine
  <1>2. LeftFrom(pos) = {}
    BY <1>1, LoopLine, PositionNat DEF Typed, InTables
  <1> QED BY <1>1, <1>2 DEF Ahead

LEMMA FollowedInit == Init => Followed
  <1> SUFFICES ASSUME Init PROVE Followed
    OBVIOUS
  <1>1. extra = {} /\ ran = {} /\ stale = {}
    BY DEF Init
  <1> QED BY <1>1 DEF Followed, Appended, AllAhead, ReadyIsRebuilt

LEMMA AdvanceGrows ==
    ASSUME Typed, NEW c, Advance(c)
    PROVE  pos' \in Nat /\ pos' >= pos /\ pos \in Nat
  <1>1. pos \in Nat
    BY DEF Typed, TypeOK
  <1>2. pos' = pos + 1 \/ pos' = pos
    BY DEF Advance
  <1> QED BY <1>1, <1>2

LEMMA BehindStays ==
    ASSUME NEW d, Behind(d), pos' \in Nat, pos' >= pos, pos \in Nat
    PROVE  Behind(d)'
  <1>1. PICK i \in Position : i < pos /\ Order[i] = d
    BY DEF Behind
  <1>2. i \in Nat /\ i < pos'
    BY <1>1, PositionNat
  <1> QED BY <1>1, <1>2 DEF Behind

LEMMA FollowedPass ==
    ASSUME Typed, Followed, stop = "none", NEW c \in Heads, Pass(c)
    PROVE  Followed'
  <1> SUFFICES ASSUME mode' = "loop" PROVE Appended' /\ AllAhead' /\ ReadyIsRebuilt'
    BY DEF Followed
  <1>1. /\ mode = "loop" /\ mode' = mode /\ stop' = "none" /\ Advance(c) /\ extra' = extra \ {c}
        /\ UNCHANGED <<ran, forced, fails, stale, reused>>
    BY DEF Pass, outputs
  <1>2. Appended /\ AllAhead
    BY <1>1 DEF Followed
  <1>3. pos' \in Nat /\ pos' >= pos /\ pos \in Nat
    BY <1>1, AdvanceGrows
  <1>4. Appended'
    <2>1. extra' \subseteq Backward
      BY <1>1, <1>2 DEF Appended
    <2>2. ASSUME NEW d \in ran', Behind(d) PROVE Behind(d)'
      BY <1>3, <2>2, BehindStays
    <2> QED BY <1>1, <1>2, <2>1, <2>2 DEF Appended
  <1>5. ASSUME NEW d \in stale \cap Repairable PROVE Excused(d)' \/ Ahead(d)'
    <2>1. d \in Check
      BY TablesTyped
    <2>2. CASE Excused(d)
      BY <1>1, <2>1, <2>2, ExcusedStays
    <2>3. CASE Ahead(d)
      <3>1. d # c
        <4> SUFFICES ASSUME d = c PROVE FALSE
          OBVIOUS
        <4>1. Wanted(c)
          BY <2>3 DEF Ahead, Wanted
        <4>2. ~Refused(c) /\ ~Runs(c)
          BY <1>1 DEF Pass
        <4> QED BY <4>1, <4>2 DEF Runs
      <3> QED BY <1>1, <2>1, <2>3, <3>1, AheadStays
    <2> QED BY <1>1, <1>2, <2>2, <2>3 DEF AllAhead, ReadyIsRebuilt
  <1>6. AllAhead' /\ ReadyIsRebuilt'
    BY <1>1, <1>5 DEF AllAhead, ReadyIsRebuilt
  <1> QED BY <1>4, <1>6

LEMMA FollowedRun ==
    ASSUME Typed, Followed, stop = "none", NEW c \in Heads, RunInLoop(c)
    PROVE  Followed'
  <1> SUFFICES Appended' /\ AllAhead' /\ ReadyIsRebuilt'
    BY DEF Followed
  <1>1. PICK ok \in BOOLEAN, wrote \in BOOLEAN :
          /\ Act(c, ok, wrote)
          /\ fails' = [fails EXCEPT ![c] = IF ok THEN @ ELSE @ + 1]
          /\ forced' = forced \cup Forced(c, ok)
          /\ extra' = (extra \ {c}) \cup (Forced(c, ok) \ LeftFrom(pos'))
          /\ stop' = Verdict(c, ok, Pending(pos'))
    BY DEF RunInLoop
  <1>2. mode = "loop" /\ mode' = mode /\ Runs(c) /\ Advance(c) /\ Appended /\ AllAhead
    BY DEF RunInLoop, Followed
  <1>3. c \in Check
    BY LineTyped DEF Typed
  <1>4. pos' \in Nat /\ pos' >= pos /\ pos \in Nat
    BY <1>2, AdvanceGrows
  <1>5. ran' = ran \cup {c}
    BY <1>1 DEF Act
  <1>6. pos \in Position => pos' = pos + 1 /\ c = Order[pos]
    BY <1>2, LoopLine DEF Advance
  <1>7. pos \notin Position => c \in Backward
    BY <1>2, LoopLine DEF Appended
  <1>8. ASSUME NEW d \in DependentsOf(c)
        PROVE  d \in Check /\ d # c /\ (d \in Backward \/ (d \in LeftFrom(pos') /\ ~Behind(d)))
    <2>1. /\ pos \in Position /\ d # c
          /\ \A i \in Position : Order[i] = d => i > pos \/ d \in Backward
          /\ \E i \in Position : Order[i] = d
      BY <1>2, <1>8, DependentsLater
    <2>2. d \in Check
      BY <1>3, TablesTyped
    <2>3. CASE d \notin Backward
      <3>1. PICK i \in Position : Order[i] = d /\ i > pos
        BY <2>1, <2>3
      <3>2. i \in Nat /\ i >= pos'
        <4>1. i \in Nat
          BY PositionNat
        <4>2. pos' = pos + 1
          BY <1>6, <2>1
        <4> QED BY <1>4, <3>1, <4>1, <4>2
      <3>3. d \in LeftFrom(pos')
        BY <1>2, <3>1, <3>2, LoopLine
      <3>4. ~Behind(d)
        <4> SUFFICES ASSUME NEW j \in Position, j < pos, Order[j] = d PROVE FALSE
          BY DEF Behind
        <4>1. j > pos
          BY <2>1, <2>3
        <4>2. j \in Nat
          BY PositionNat
        <4> QED BY <1>4, <4>1, <4>2
      <3> QED BY <2>1, <2>2, <3>3, <3>4
    <2> QED BY <2>1, <2>2, <2>3
  <1>9. Appended'
    <2>1. ASSUME NEW d \in extra' PROVE d \in Backward
      <3>1. CASE d \in extra
        BY <1>2, <3>1 DEF Appended
      <3>2. CASE d \in Forced(c, ok) \ LeftFrom(pos')
        <4>1. d \in DependentsOf(c)
          BY <3>2 DEF Forced
        <4> QED BY <1>8, <3>2, <4>1
      <3> QED BY <1>1, <3>1, <3>2
    <2>2. ASSUME NEW d \in ran' PROVE Behind(d)' \/ d \in Backward
      <3>1. CASE d \in ran
        BY <1>2, <1>4, <3>1, BehindStays DEF Appended
      <3>2. CASE d = c /\ pos \in Position
        <4>1. pos < pos' /\ Order[pos] = d
          <5>1. pos' = pos + 1 /\ Order[pos] = d
            BY <1>6, <3>2
          <5> QED BY <1>4, <5>1
        <4> QED BY <3>2, <4>1 DEF Behind
      <3>3. CASE d = c /\ pos \notin Position
        BY <1>7, <3>3
      <3> QED BY <1>5, <3>1, <3>2, <3>3
    <2> QED BY <2>1, <2>2 DEF Appended
  <1>10. /\ \A x \in Check : fails[x] > 0 => fails'[x] > 0
         /\ ~ok => fails'[c] > 0
    <2>1. fails \in [Check -> Nat]
      BY DEF Typed, TypeOK
    <2>2. fails[c] \in Nat /\ fails'[c] = IF ok THEN fails[c] ELSE fails[c] + 1
      BY <1>1, <1>3, <2>1
    <2>3. \A x \in Check : x # c => fails'[x] = fails[x]
      BY <1>1, <2>1
    <2> QED BY <2>2, <2>3
  <1>11. (reused => reused') /\ (c \in Publication /\ registered => reused')
    BY <1>1 DEF Act
  <1>12. ASSUME NEW d \in stale' \cap Repairable PROVE Excused(d)' \/ Ahead(d)'
    <2>1. d \in Check
      BY TablesTyped
    <2>2. CASE d \in stale /\ d # c
      <3>1. Excused(d) \/ Ahead(d)
        BY <1>2, <2>2 DEF AllAhead
      <3>2. ASSUME Excused(d) PROVE Excused(d)'
        BY <1>10, <1>11, <2>1, <3>2, ExcusedStays
      <3>3. ASSUME Ahead(d) PROVE Ahead(d)'
        BY <1>1, <1>2, <1>5, <2>1, <2>2, <3>3, AheadStays
      <3> QED BY <3>1, <3>2, <3>3
    <2>3. CASE ~ok /\ (d = c \/ d \in DependentsOf(c))
      BY <1>3, <1>10, <2>3 DEF Excused
    <2>4. CASE ok /\ d \in DependentsOf(c)
      <3>1. d # c /\ (d \in Backward \/ (d \in LeftFrom(pos') /\ ~Behind(d)))
        BY <1>8, <2>4
      <3>2. CASE d \in Backward
        BY <3>2 DEF Excused
      <3>3. CASE d \in LeftFrom(pos') /\ ~Behind(d) /\ d \notin Backward
        <4>1. d \notin ran'
          BY <1>2, <1>5, <3>1, <3>3 DEF Appended
        <4>2. d \in Forced(c, ok)
          BY <1>5, <2>4, <4>1 DEF Forced
        <4>3. LeftFrom(pos)' = LeftFrom(pos')
          BY <1>2 DEF LeftFrom, Line
        <4> QED BY <1>1, <3>3, <4>1, <4>2, <4>3 DEF Ahead
      <3> QED BY <3>1, <3>2, <3>3
    <2>5. CASE ok /\ d = c /\ d \notin DependentsOf(c)
      <3>1. wrote
        BY <1>1, <2>5 DEF Act
      <3>2. CASE c \notin Publication
        BY <1>1, <2>5, <3>1, <3>2 DEF Act
      <3>3. CASE c \in Publication /\ ~registered
        BY <1>1, <2>5, <3>1, <3>3 DEF Act
      <3>4. CASE c \in Publication /\ registered
        BY <1>11, <2>5, <3>4 DEF Excused
      <3> QED BY <3>2, <3>3, <3>4
    <2>6. stale' \subseteq stale \cup DependentsOf(c)
      BY <1>1 DEF Act
    <2> QED BY <2>2, <2>3, <2>4, <2>5, <2>6
  <1>13. stop' = "ready" => \A d \in Repairable : ~Ahead(d)'
    <2> SUFFICES ASSUME stop' = "ready", NEW d \in Repairable, Ahead(d)' PROVE FALSE
      OBVIOUS
    <2>1. Pending(pos') = {}
      BY <1>1 DEF Verdict
    <2>2. LeftFrom(pos)' = LeftFrom(pos')
      BY <1>2 DEF LeftFrom, Line
    <2>3. d \in Pending(pos')
      BY <2>2 DEF Ahead, Pending
    <2> QED BY <2>1, <2>3
  <1> QED BY <1>9, <1>12, <1>13 DEF AllAhead, ReadyIsRebuilt

LEMMA FollowedCycle ==
    ASSUME Typed, Followed, stop = "none", CycleEnds
    PROVE  Followed'
  <1>1. /\ mode = "loop" /\ mode' = mode /\ Heads = {}
        /\ UNCHANGED <<extra, fails, stale, reused>>
    BY DEF CycleEnds, outputs
  <1>2. \A d \in stale \cap Repairable : Excused(d)
    BY <1>1, NothingAhead DEF Followed, AllAhead
  <1>3. \A d \in stale' \cap Repairable : Excused(d)'
    <2> SUFFICES ASSUME NEW d \in stale \cap Repairable PROVE Excused(d)'
      BY <1>1
    <2>1. d \in Check /\ Excused(d)
      BY <1>2, TablesTyped
    <2> QED BY <1>1, <2>1, ExcusedStays
  <1>4. Appended'
    <2>1. extra' = {}
      BY <1>1, NothingAhead
    <2>2. CASE stop' = "none"
      <3>1. ran' = {}
        BY <2>2 DEF CycleEnds, NextPart
      <3> QED BY <2>1, <3>1 DEF Appended
    <2>3. CASE stop' # "none"
      <3>1. ran' = ran /\ pos' = pos
        BY <2>3 DEF CycleEnds
      <3>2. \A d \in ran : Behind(d) \/ d \in Backward
        BY <1>1 DEF Followed, Appended
      <3> QED BY <2>1, <3>1, <3>2 DEF Appended, Behind
    <2> QED BY <2>2, <2>3
  <1> QED BY <1>3, <1>4 DEF Followed, AllAhead, ReadyIsRebuilt

LEMMA FollowedNext == Typed /\ Followed /\ [Next]_vars => Followed'
  <1> SUFFICES ASSUME Typed, Followed, [Next]_vars PROVE Followed'
    OBVIOUS
  <1>1. ASSUME stop = "none", NEW c \in Heads, Walk(c) PROVE Followed'
    <2>1. CASE Pass(c)
      BY <1>1, <2>1, FollowedPass
    <2>2. CASE GiveUp(c)
      <3>1. stop' \notin {"none", "ready"} /\ mode = "loop"
        BY <2>2 DEF GiveUp
      <3>2. UNCHANGED <<mode, walk>>
        BY <2>2 DEF GiveUp
      <3> QED BY <3>1, <3>2 DEF Followed, Appended, AllAhead, ReadyIsRebuilt, Behind, walk
    <2>3. CASE RunInLoop(c)
      BY <1>1, <2>3, FollowedRun
    <2>4. CASE RunInStage(c)
      BY <2>4 DEF RunInStage, Followed
    <2> QED BY <1>1, <2>1, <2>2, <2>3, <2>4 DEF Walk
  <1>2. CASE stop = "none" /\ CycleEnds
    BY <1>2, FollowedCycle
  <1>3. CASE StageEnds
    BY <1>3 DEF StageEnds, Followed
  <1>4. CASE UNCHANGED vars
    <2>1. UNCHANGED <<mode, cycle, pos, extra, ran, forced, fails, stop, stale, reused>>
      BY <1>4 DEF vars, walk, outputs
    <2>2. \A d : Excused(d)' = Excused(d)
      BY <2>1 DEF Excused
    <2>3. \A d : Ahead(d) => Ahead(d)'
      <3>1. LeftFrom(pos)' = LeftFrom(pos)
        BY <2>1 DEF LeftFrom, Line
      <3> QED BY <2>1, <3>1 DEF Ahead
    <2>4. AllAhead => AllAhead'
      BY <2>1, <2>2, <2>3 DEF AllAhead
    <2>5. (Appended => Appended') /\ (ReadyIsRebuilt => ReadyIsRebuilt')
      BY <2>1, <2>2 DEF Appended, Behind, ReadyIsRebuilt
    <2> QED BY <2>1, <2>4, <2>5 DEF Followed
  <1> QED BY <1>1, <1>2, <1>3, <1>4 DEF Next

\* When mode "loop" stops because the date is ready, whatever it repaired has
\* been followed by the repair of what depends on it, or there is an excuse.
THEOREM ReadyRebuilt == Spec => []ReadyIsRebuilt
  <1>1. Followed => ReadyIsRebuilt
    BY DEF Followed, ReadyIsRebuilt
  <1> QED BY <1>1, FollowedInit, FollowedNext, AlwaysTyped, PTL DEF Spec

--------------------------------------------------------------------------------
(* A run comes closer to its end *)

Bounded == (mode = "loop" => cycle <= MaxCycles) /\ (mode = "repair" => extra = {})

LEMMA BoundedInit == Init => Bounded
  BY TablesAssumption DEF Init, Bounded

LEMMA BoundedNext == Typed /\ Bounded /\ [Next]_vars => Bounded'
  <1> SUFFICES ASSUME Typed, Bounded, [Next]_vars PROVE Bounded'
    OBVIOUS
  <1>1. ASSUME NEW c \in Heads, Walk(c) PROVE Bounded'
    <2>1. UNCHANGED <<mode, cycle>>
      BY <1>1 DEF Walk, Pass, GiveUp, RunInLoop, RunInStage
    <2>2. mode = "repair" => extra' \subseteq extra
      BY <1>1 DEF Walk, Pass, GiveUp, RunInLoop, RunInStage, walk
    <2> QED BY <2>1, <2>2 DEF Bounded
  <1>2. CASE CycleEnds
    <2>1. mode = "loop" /\ mode' = mode
      BY <1>2 DEF CycleEnds
    <2>2. cycle' = cycle \/ (cycle' = cycle + 1 /\ cycle # MaxCycles)
      BY <1>2 DEF CycleEnds, NextPart
    <2>3. cycle \in Nat /\ MaxCycles \in Nat /\ cycle <= MaxCycles
      BY <2>1, TablesAssumption DEF Typed, TypeOK, Bounded
    <2> QED BY <2>1, <2>2, <2>3 DEF Bounded
  <1>3. CASE StageEnds
    BY <1>3 DEF StageEnds, Bounded
  <1>4. CASE UNCHANGED vars
    BY <1>4 DEF vars, walk, Bounded
  <1> QED BY <1>1, <1>2, <1>3, <1>4 DEF Next

\* A check behind the order is taken off, and nothing comes in its place.
LEMMA BehindShrinks ==
    ASSUME Typed, Followed, Bounded, stop = "none", NEW c \in Heads, pos \notin DOMAIN Line,
           Pass(c) \/ RunInLoop(c) \/ RunInStage(c)
    PROVE  extra' \subseteq extra /\ extra' # extra /\ pos' = pos
  <1>1. c \in extra /\ mode = "loop"
    BY DEF Heads, Bounded, Typed, TypeOK
  <1>2. pos' = pos
    BY DEF Pass, RunInLoop, RunInStage, Advance
  <1>3. CASE Pass(c)
    BY <1>1, <1>2, <1>3 DEF Pass
  <1>4. CASE RunInLoop(c)
    <2>1. c \in Backward /\ c \in Check
      BY <1>1 DEF Followed, Appended, Typed, TypeOK
    <2>2. DependentsOf(c) = {}
      <3>1. Dependents[c] = <<>>
        BY <2>1, OrderAssumption
      <3> QED BY <3>1 DEF DependentsOf, Range
    <2>3. PICK ok \in BOOLEAN : extra' = (extra \ {c}) \cup (Forced(c, ok) \ LeftFrom(pos'))
      BY <1>4 DEF RunInLoop
    <2>4. Forced(c, ok) = {}
      BY <2>2 DEF Forced
    <2> QED BY <1>1, <1>2, <2>3, <2>4
  <1>5. CASE RunInStage(c)
    BY <1>1, <1>5 DEF RunInStage
  <1> QED BY <1>3, <1>4, <1>5

LEMMA StepCloser ==
    ASSUME Typed, Followed, Bounded, [Next]_vars
    PROVE  [stop' # "none" \/ Closer]_vars
  <1> SUFFICES ASSUME Next, stop' = "none" PROVE Closer
    OBVIOUS
  <1>1. stop = "none" /\ cycle \in Nat /\ pos \in Nat /\ DOMAIN Line = 1 .. Len(Line) /\ Len(Line) \in Nat
    BY LineTyped DEF Next, Typed, TypeOK
  <1>2. ASSUME NEW c \in Heads, Walk(c) PROVE Closer
    <2>1. ~GiveUp(c)
      BY DEF GiveUp
    <2>2. Pass(c) \/ RunInLoop(c) \/ RunInStage(c)
      BY <1>2, <2>1 DEF Walk
    <2>3. cycle' = cycle /\ Advance(c)
      BY <2>2 DEF Pass, RunInLoop, RunInStage
    <2>4. CASE pos \in DOMAIN Line
      BY <1>1, <2>3, <2>4 DEF Advance, Closer
    <2>5. CASE pos \notin DOMAIN Line
      BY <1>1, <2>2, <2>3, <2>5, BehindShrinks DEF Closer
    <2> QED BY <2>4, <2>5
  <1>3. CASE CycleEnds
    <2>1. mode = "loop" /\ cycle # MaxCycles /\ cycle' = cycle + 1
      BY <1>3 DEF CycleEnds, NextPart
    <2>2. cycle <= MaxCycles /\ MaxCycles \in Nat
      BY <2>1, TablesAssumption DEF Bounded
    <2> QED BY <1>1, <2>1, <2>2 DEF Closer, LastCycle
  <1>4. CASE StageEnds
    <2>1. mode = "repair" /\ cycle # Len(Stages) /\ cycle' = cycle + 1
      BY <1>4 DEF StageEnds, NextPart
    <2>2. cycle \in 1 .. Len(Stages) /\ Len(Stages) \in Nat
      BY <2>1, TablesTyped DEF Typed, InTables
    <2> QED BY <1>1, <2>1, <2>2 DEF Closer, LastCycle
  <1> QED BY <1>2, <1>3, <1>4 DEF Next

\* Every step of run_eod_auto_repair ends the run or brings it closer to its
\* end: repair_queue and max_cycles leave it no way to go round for ever,
\* whatever the checks say and the actions do.
THEOREM EveryStepCloser == Spec => Progresses
  <1>1. Typed /\ Followed /\ Bounded /\ [Next]_vars => [stop' # "none" \/ Closer]_vars
    BY StepCloser
  <1>2. Spec => [](Typed /\ Followed /\ Bounded)
    BY TypedInit, TypedNext, FollowedInit, FollowedNext, BoundedInit, BoundedNext, PTL DEF Spec
  <1> QED BY <1>1, <1>2, PTL DEF Spec, Progresses
================================================================================
