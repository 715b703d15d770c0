-------------------------- MODULE SimulationProofs --------------------------
(***************************************************************************)
(* The driver loop for every workload and every number of tasks.  Each of  *)
(* its steps is a step of the scheduler, so what SchedulerProofs           *)
(* establishes holds of every simulation; on top of that, completions are  *)
(* recorded on time, the baselines serve in the order of the workload,     *)
(* nothing is left behind when the loop returns, and the deferral of       *)
(* patient work alone costs none of it its deadline.                       *)
(***************************************************************************)
EXTENDS Simulation, SchedulerProofs

LEMMA LoopStep == [LoopNext]_loopVars => [Next]_vars
<1> SUFFICES ASSUME [LoopNext]_loopVars PROVE [Next]_vars
  OBVIOUS
<1>1. CASE Over \/ UNCHANGED loopVars
  BY <1>1 DEF Over, loopVars, vars
<1>2. CASE Tick
  BY <1>2 DEF Tick, Next
<1>3. CASE Advance
  BY <1>3 DEF Advance, Next
<1>4. ASSUME NEW t \in Task, Finalize(t) \/ Arrive(t) \/ AskForUpdate(t) PROVE Next
  BY <1>4 DEF Finalize, Arrive, AskForUpdate, Next
<1> QED
  BY <1>1, <1>2, <1>3, <1>4 DEF LoopNext

\* The loop drives the scheduler and does nothing else to it.
THEOREM DriverTheorem == LoopSpec => Spec
<1>1. LoopInit => Init
  BY DEF LoopInit
<1> QED
  BY <1>1, LoopStep, PTL DEF LoopSpec, Spec

\* A round of tick changes the state of queued tasks only.
LEMMA DispatchTouchesQueue ==
    ASSUME IInv, NextTask, NEW t \in Task, state'[t] # state[t]
    PROVE  state[t] = "queued"
<1>1. PICK blocked : Dispatch(Started(Offers), Dropped(Offers), blocked)
  BY DEF NextTask
<1>2. t \in Started(Offers) \/ t \in Dropped(Offers)
  BY <1>1 DEF Dispatch
<1>3. CASE t \in Dropped(Offers)
  BY <1>3, OfferType DEF Dropped, Drained, Ready
<1> QED
  BY <1>2, <1>3, StartedFits

-----------------------------------------------------------------------------
(* Completions *)

\* What has been running since the tick before has not outlasted it; once the
\* iteration has done its work, nothing that has ended still runs.
Timely ==
    /\ due \in [Task -> Int]
    /\ CompletedOnTick
    /\ stage = "ticked" => Finished = {}

\* Every execution the scheduler may start takes some time.
LEMMA DurationType ==
    ASSUME NEW d \in DecisionRecord
    PROVE  ServiceDuration(d) \in Nat
<1>1. \A model \in ModelTier : \A effort \in ReasoningEffort : Stage(model, effort) \in Nat
  BY DEF Stage, ModelTier, ReasoningEffort, ASSUMED_MODEL_STAGE_HOURS, ASSUMED_EFFORT_MULTIPLIER
<1>2. d.model \in ModelTier /\ d.effort \in ReasoningEffort
  BY DEF DecisionRecord
<1>3. Stage(d.model, d.effort) \in Nat /\ Stage("luna", "low") \in Nat
  BY <1>1, <1>2 DEF ModelTier, ReasoningEffort
<1> HIDE DEF Stage
<1> QED
  BY <1>3 DEF ServiceDuration

LEMMA TimelyStep == IInv /\ IInv' /\ Timely /\ [LoopNext]_loopVars => Timely'
<1> SUFFICES ASSUME IInv, IInv', Timely, [LoopNext]_loopVars PROVE Timely'
  OBVIOUS
<1>1. now \in Int /\ \A t \in Task : due[t] \in Int
  BY DEF IInv, TypeOK, Timely
<1>2. CASE Over \/ UNCHANGED loopVars
  BY <1>2 DEF Over, loopVars, Timely, CompletedOnTick, Finished, Running
<1>3. CASE Tick
  <2>1. /\ Finished = {} /\ now' = now /\ stage = "tick"
        /\ due' = [t \in Task |->
              IF t \in StartedNow THEN now * Unit + ServiceDuration(decision'[t]) ELSE due[t]]
        /\ stage' = IF StartedNow = {} THEN "ticked" ELSE "tick"
    BY <1>3 DEF Tick, Quiet, NextTask, Dispatch
  <2>2. \A t \in StartedNow : ServiceDuration(decision'[t]) \in Nat
    BY DurationType DEF IInv, TypeOK, StartedNow
  <2>3. due' \in [Task -> Int]
    BY <1>1, <2>1, <2>2 DEF Unit
  <2>4. ASSUME NEW t \in Running', t \notin StartedNow
        PROVE  t \in Running /\ due'[t] = due[t]
    <3>1. t \in Task /\ state'[t] = "in-flight" /\ state[t] # "queued"
      BY <2>4 DEF Running, StartedNow, Starts
    <3>2. state'[t] = state[t]
      BY <1>3, <3>1, DispatchTouchesQueue DEF Tick
    <3> QED
      BY <2>1, <2>4, <3>1, <3>2 DEF Running
  <2>5. ASSUME NEW t \in Running'
        PROVE  (now' - 1) * Unit < due'[t]
    <3>1. t \in Task
      BY DEF Running
    <3>2. CASE t \in StartedNow
      <4>1. due'[t] = now * Unit + ServiceDuration(decision'[t])
        BY <2>1, <3>1, <3>2
      <4> QED
        BY <1>1, <2>1, <2>2, <3>2, <4>1 DEF Unit
    <3>3. CASE t \notin StartedNow
      BY <2>1, <2>4, <3>3 DEF Timely, CompletedOnTick
    <3> QED
      BY <3>2, <3>3
  <2>6. ASSUME stage' = "ticked"
        PROVE  Finished' = {}
    <3>1. StartedNow = {}
      BY <2>1, <2>6
    <3>2. \A t \in Finished' : t \in Running' /\ due'[t] <= now' * Unit
      BY DEF Finished, Running
    <3>3. \A t \in Finished' : t \in Finished
      BY <2>1, <2>4, <3>1, <3>2 DEF Finished, Running
    <3> QED
      BY <2>1, <3>3
  <2> QED
    BY <2>3, <2>5, <2>6 DEF Timely, CompletedOnTick
<1>4. CASE Advance
  <2>1. Finished = {}
    BY <1>4 DEF Advance, Quiet, Timely
  <2>2. UNCHANGED <<state, due>> /\ now' = now + 1 /\ stage' \in {"tick", "over"}
    BY <1>4 DEF Advance, Elapse
  <2>3. \A t \in Running : now * Unit < due[t]
    BY <1>1, <2>1 DEF Finished, Running, Unit
  <2>4. Running' = Running /\ (now' - 1) * Unit = now * Unit
    BY <1>1, <2>2 DEF Running
  <2> QED
    BY <2>2, <2>3, <2>4 DEF Timely, CompletedOnTick
<1>5. ASSUME NEW t \in Task, Finalize(t) \/ Arrive(t) \/ AskForUpdate(t)
      PROVE  Timely'
  <2>1. UNCHANGED <<now, due, stage>> /\ stage = "tick"
    BY <1>5 DEF Finalize, Arrive, AskForUpdate, Complete, Finish, Submit, Nudge
  <2>2. Running' \subseteq Running
    BY <1>5 DEF Finalize, Arrive, AskForUpdate, Complete, Finish, Submit, Nudge, Running,
                IInv, TypeOK
  <2> QED
    BY <2>1, <2>2 DEF Timely, CompletedOnTick
<1> QED
  BY <1>2, <1>3, <1>4, <1>5 DEF LoopNext

\* docs/architecture.md:34: a completion is recorded at the first tick at
\* which the assumed duration has elapsed, for every workload and capacity.
THEOREM CompletionTheorem == LoopSpec => []CompletedOnTick
<1>1. LoopInit => Timely
  BY DEF LoopInit, Init, Timely, CompletedOnTick, Finished, Running
<1>2. Timely => CompletedOnTick
  BY DEF Timely
<1>3. LoopSpec => []IInv
  BY DriverTheorem, InvHolds
<1> QED
  BY <1>1, <1>2, <1>3, TimelyStep, PTL DEF LoopSpec

-----------------------------------------------------------------------------
(* The baselines serve in the order of the workload *)

\* The loop submits in the order of arrival and the scheduler numbers what it
\* queues: numbers follow arrivals, and whatever has no number yet is not
\* earlier than what has one.
ArrivalsInOrder ==
    /\ item \in [Task -> Items]
    /\ \A t, u \in Task : state[t] # "new" /\ state[u] = "new" =>
          item[t].arrival <= item[u].arrival
    /\ \A t, u \in Task : 0 < order[t] /\ order[t] < order[u] =>
          item[t].arrival <= item[u].arrival

LEMMA ArrivalsStep ==
    IInv /\ Ordered /\ ArrivalsInOrder /\ [LoopNext]_loopVars => ArrivalsInOrder'
<1> SUFFICES ASSUME IInv, Ordered, ArrivalsInOrder, [LoopNext]_loopVars
             PROVE  ArrivalsInOrder'
  OBVIOUS
<1>1. \A t \in Task : item[t].arrival \in Int /\ order[t] \in Int
  BY SimulationAssumption DEF ArrivalsInOrder, IInv, TypeOK
<1>2. ASSUME UNCHANGED <<item, order>>,
             \A t \in Task : state'[t] = "new" <=> state[t] = "new"
      PROVE  ArrivalsInOrder'
  BY <1>2 DEF ArrivalsInOrder
<1>3. CASE Over \/ UNCHANGED loopVars
  BY <1>2, <1>3 DEF Over, loopVars
<1>4. CASE Tick
  <2>1. NextTask /\ UNCHANGED <<item, order>>
    BY <1>4 DEF Tick, NextTask, Dispatch
  <2>2. ASSUME NEW t \in Task
        PROVE  state'[t] = "new" <=> state[t] = "new"
    <3>1. PICK started, dropped, blocked : Dispatch(started, dropped, blocked)
      BY <2>1 DEF NextTask
    <3>2. state'[t] = state[t] \/ state'[t] \in {"in-flight", "rejected"}
      BY <3>1 DEF Dispatch
    <3> QED
      BY <2>1, <3>2, DispatchTouchesQueue
  <2> QED
    BY <1>2, <2>1, <2>2
<1>5. CASE Advance
  BY <1>2, <1>5 DEF Advance, Elapse
<1>6. ASSUME NEW t \in Task, Finalize(t) \/ AskForUpdate(t) PROVE ArrivalsInOrder'
  <2>1. UNCHANGED <<item, order>> /\ \A u \in Task : state'[u] = "new" <=> state[u] = "new"
    BY <1>6 DEF Finalize, AskForUpdate, Complete, Finish, Nudge, IInv, TypeOK
  <2> QED
    BY <1>2, <2>1
<1>7. ASSUME NEW t \in Task, Arrive(t) PROVE ArrivalsInOrder'
  <2>1. /\ state[t] = "new" /\ item' = item /\ now \in Int
        /\ \A u \in Task \ {t} : state'[u] = state[u]
        /\ state'[t] \in {"queued", "rejected"}
    <3>1. state \in [Task -> TaskState] /\ now \in Int
      BY DEF IInv, TypeOK
    <3>2. /\ state[t] = "new" /\ item' = item
          /\ \/ state' = [state EXCEPT ![t] = "queued"]
             \/ state' = [state EXCEPT ![t] = "rejected"]
      BY <1>7 DEF Arrive, Submit
    <3> QED
      BY <3>1, <3>2
  <2>2. \A u \in Task : state[u] = "new" => item[t].arrival <= item[u].arrival
    <3>1. item[t].arrival <= now
      BY <1>7 DEF Arrive, Arrived
    <3>2. TAKE u \in Task
    <3>3. HAVE state[u] = "new"
    <3>4. CASE u \in Arrived
      BY <1>7, <3>4 DEF Arrive
    <3>5. CASE u \notin Arrived
      BY <1>1, <2>1, <3>1, <3>3, <3>5 DEF Arrived, Arrivals
    <3> QED
      BY <3>4, <3>5
  <2>3. \A u, v \in Task : state'[u] # "new" /\ state'[v] = "new" =>
            item[u].arrival <= item[v].arrival
    BY <2>1, <2>2 DEF ArrivalsInOrder
  <2>4. ASSUME NEW u \in Task, NEW v \in Task, 0 < order'[u], order'[u] < order'[v]
        PROVE  item[u].arrival <= item[v].arrival
    <3> DEFINE number == 1 + Cardinality({w \in Task : order[w] > 0})
    <3>1. CASE order' = [order EXCEPT ![t] = number]
      <4>1. order'[t] = number /\ \A w \in Task \ {t} : order'[w] = order[w] /\ order[w] < number
        <5>1. Cardinality({w \in Task : order[w] > 0}) \in Nat
          BY SubsetCount
        <5>2. \A w \in Task : order[w] < number
          BY <1>1, <5>1 DEF Ordered
        <5> HIDE DEF number
        <5> QED
          BY <3>1, <5>2 DEF IInv, TypeOK
      <4>2. u # t
        <5>1. number \in Int
          BY SubsetCount
        <5> HIDE DEF number
        <5> QED
          BY <1>1, <2>4, <4>1, <5>1
      <4>3. CASE v = t
        <5>1. order[u] > 0
          BY <2>4, <4>1, <4>2
        <5>2. state[u] # "new"
          BY <1>1, <5>1 DEF IInv
        <5> QED
          BY <2>1, <4>3, <5>2 DEF ArrivalsInOrder
      <4>4. CASE v # t
        BY <2>4, <4>1, <4>2, <4>4 DEF ArrivalsInOrder
      <4> QED
        BY <4>3, <4>4
    <3>2. CASE UNCHANGED order
      BY <2>4, <3>2 DEF ArrivalsInOrder
    <3> QED
      BY <1>7, <3>1, <3>2 DEF Arrive, Submit
  <2> QED
    BY <2>1, <2>3, <2>4 DEF ArrivalsInOrder
<1> QED
  BY <1>3, <1>4, <1>5, <1>6, <1>7 DEF LoopNext

\* A baseline configuration of the simulation is a baseline scheduler.
LEMMA BaselineMode == Mode # "intent-aware" => Baseline
BY SimulationAssumption DEF Baseline

LEMMA BaselineStarts ==
    ASSUME IInv, Ordered, ArrivalsInOrder, Baseline => OneClass, [LoopNext]_loopVars
    PROVE  Mode # "intent-aware" =>
             \A t \in StartedNow :
                /\ effective'[t] = STANDARD
                /\ \A u \in Queued' : item[t].arrival <= item[u].arrival
<1> SUFFICES ASSUME Mode # "intent-aware", NEW t \in StartedNow
             PROVE  /\ effective'[t] = STANDARD
                    /\ \A u \in Queued' : item[t].arrival <= item[u].arrival
  OBVIOUS
<1>1. Baseline /\ OneClass /\ [Next]_vars
  BY BaselineMode, LoopStep
<1>2. t \in Task /\ Starts(t) /\ t \in Queued
  BY DEF StartedNow, Starts, Queued
<1>3. effective'[t] = STANDARD
  BY <1>1, <1>2, StartsStandard
<1>4. ASSUME NEW u \in Queued'
      PROVE  item[t].arrival <= item[u].arrival
  <2>1. order[t] < order[u]
    BY <1>1, <1>2, EarlierFirst
  <2>2. order[t] > 0 /\ u \in Task
    BY <1>2 DEF Ordered, Queued
  <2> QED
    BY <1>2, <2>1, <2>2 DEF ArrivalsInOrder
<1> QED
  BY <1>3, <1>4

\* tests/test_simulation.py:60: both baselines preserve arrival order, for
\* every workload, capacity and sequence of nudges.
THEOREM BaselinesTheorem == LoopSpec => BaselinesKeepArrivalOrder
<1>1. LoopInit => ArrivalsInOrder
  <2> SUFFICES ASSUME LoopInit PROVE ArrivalsInOrder
    OBVIOUS
  <2>1. item \in [Task -> Items] /\ \A t \in Task : state[t] = "new" /\ order[t] = 0
    BY DEF LoopInit, Init
  <2> QED
    BY <2>1 DEF ArrivalsInOrder
<1>2. LoopSpec => []IInv /\ []Ordered /\ [](Baseline => OneClass)
  <2>1. CASE Baseline
    <3>1. LoopSpec => []OneClass
      BY <2>1, DriverTheorem, OneClassHolds
    <3>2. OneClass => (Baseline => OneClass)
      OBVIOUS
    <3> QED
      BY <3>1, <3>2, DriverTheorem, InvHolds, OrderedHolds, PTL
  <2>2. CASE ~Baseline
    <3>1. Baseline => OneClass
      BY <2>2
    <3> QED
      BY <3>1, DriverTheorem, InvHolds, OrderedHolds, PTL
  <2> QED
    BY <2>1, <2>2
<1>3. IInv /\ Ordered /\ ArrivalsInOrder /\ (Baseline => OneClass) /\ [LoopNext]_loopVars =>
        [Mode # "intent-aware" =>
           \A t \in StartedNow :
              /\ effective'[t] = STANDARD
              /\ \A u \in Queued' : item[t].arrival <= item[u].arrival]_loopVars
  BY BaselineStarts
<1> QED
  BY <1>1, <1>2, <1>3, ArrivalsStep, PTL DEF LoopSpec, BaselinesKeepArrivalOrder

-----------------------------------------------------------------------------
(* Nothing is left behind.  Past the last deadline no window postpones     *)
(* anything, so the fleet is never idle while work waits, and whatever     *)
(* runs ends within four ticks: each task that leaves the queue pays for   *)
(* four ticks of the clock.                                                *)

\* What has been refused or has started.
Begun == {t \in Task : state[t] \notin {"new", "queued"}}

\* The clock keeps up with the work that has left the queue.
Limit == LastDeadline + 4 * Cardinality(Begun)

Paced ==
    /\ stage \in {"tick", "ticked", "over"}
    /\ item \in [Task -> Items]
    /\ \A t \in Task :
          /\ contract[t].deadline = item[t].arrival + item[t].patience
          /\ state[t] \in {"new", "queued", "in-flight", "completed", "rejected"}
          /\ state[t] = "in-flight" => due[t] <= Limit * Unit
    /\ stage # "over" => now <= Limit
    /\ stage = "ticked" =>
          Arrived = {} /\ (LastDeadline <= now /\ Running = {} => Queued = {})

\* The longest service takes less than four ticks.
LEMMA DurationBound ==
    ASSUME NEW d \in DecisionRecord
    PROVE  ServiceDuration(d) \in Nat /\ ServiceDuration(d) <= 4 * Unit
<1>1. \A model \in ModelTier : \A effort \in ReasoningEffort :
         Stage(model, effort) \in Nat /\ Stage(model, effort) <= 325
  BY DEF Stage, ModelTier, ReasoningEffort, ASSUMED_MODEL_STAGE_HOURS, ASSUMED_EFFORT_MULTIPLIER
<1>2. d.model \in ModelTier /\ d.effort \in ReasoningEffort
  BY DEF DecisionRecord
<1>3. /\ Stage(d.model, d.effort) \in Nat /\ Stage(d.model, d.effort) <= 325
      /\ Stage("luna", "low") \in Nat /\ Stage("luna", "low") <= 325
  BY <1>1, <1>2 DEF ModelTier, ReasoningEffort
<1> HIDE DEF Stage
<1> QED
  BY <1>3 DEF ServiceDuration, Unit

\* Among finitely many tasks one has the greatest of any numbers.
LEMMA GreatestExists ==
    ASSUME NEW f, \A t \in Task : f[t] \in Int, Task # {}
    PROVE  \E t \in Task : \A u \in Task : f[u] <= f[t]
<1> DEFINE A == {f[t] : t \in Task}
           above(x, y) == y < x
           R == {p \in A \X A : above(p[1], p[2])}
           g == [t \in Task |-> f[t]]
<1>1. g \in Surjection(Task, A)
  BY DEF Surjection
<1>2. IsFiniteSet(A)
  BY <1>1, SchedulerAssumption, FS_Surjection
<1>3. A # {} /\ \A x \in A : x \in Int
  OBVIOUS
<1> HIDE DEF A
<1>4. \A x, y \in A : <<x, y>> \in R <=> y < x
  <2>1. \A x, y \in A : <<x, y>> \in R <=> above(x, y)
    <3> HIDE DEF above
    <3> QED
      OBVIOUS
  <2> QED
    BY <2>1
<1> HIDE DEF R
<1>5. \A x \in A : <<x, x>> \notin R
  BY <1>3, <1>4
<1>6. \A x, y \in A : x = y \/ <<x, y>> \in R \/ <<y, x>> \in R
  <2>1. TAKE x, y \in A
  <2>2. x \in Int /\ y \in Int
    BY <1>3
  <2>3. x = y \/ y < x \/ x < y
    BY <2>2
  <2> QED
    BY <1>4, <2>3
<1>7. \A x, y, z \in A : <<x, y>> \in R /\ <<y, z>> \in R => <<x, z>> \in R
  BY <1>3, <1>4
<1>8. PICK x \in A : \A y \in A : x = y \/ <<x, y>> \in R
  BY <1>2, <1>3, <1>5, <1>6, <1>7, FirstExists
<1>9. \A y \in A : y <= x
  <2>1. TAKE y \in A
  <2>2. x \in Int /\ y \in Int /\ (x = y \/ y < x)
    BY <1>3, <1>4, <1>8
  <2> QED
    BY <2>2
<1>10. \A t \in Task : f[t] \in A
  BY DEF A
<1>11. PICK t \in Task : x = f[t]
  BY <1>8 DEF A
<1> QED
  BY <1>9, <1>10, <1>11

\* The end of the loop is counted from the greatest deadline.
LEMMA LastDeadlineIs ==
    ASSUME IInv, Task # {}
    PROVE  /\ \E t \in Task : LastDeadline = contract[t].deadline
           /\ \A t \in Task : contract[t].deadline <= LastDeadline
           /\ LastDeadline \in Nat
<1> DEFINE f == [t \in Task |-> contract[t].deadline]
<1>1. \A t \in Task : f[t] \in Nat
  BY DEF IInv
<1>2. \E t \in Task : \A u \in Task : f[u] <= f[t]
  <2> HIDE DEF f
  <2> QED
    BY <1>1, GreatestExists
<1>3. \E d \in {contract[t].deadline : t \in Task} : \A t \in Task : contract[t].deadline <= d
  BY <1>2
<1>4. /\ LastDeadline \in {contract[t].deadline : t \in Task}
      /\ \A t \in Task : contract[t].deadline <= LastDeadline
  BY <1>3 DEF LastDeadline
<1> QED
  BY <1>1, <1>4

\* It stays where it is: the loop changes no deadline.
LEMMA LastDeadlineKept ==
    ASSUME IInv, IInv', [LoopNext]_loopVars, Task # {}
    PROVE  /\ \A t \in Task : contract'[t].deadline = contract[t].deadline
           /\ LastDeadline' = LastDeadline
<1>1. \A t \in Task : contract'[t].deadline = contract[t].deadline
  <2>1. CASE \E t \in Task : AskForUpdate(t)
    <3>1. PICK t \in Task : contract' = [contract EXCEPT ![t] =
                                           [contract[t] EXCEPT !.interactive = TRUE]]
      BY <2>1 DEF AskForUpdate, Nudge
    <3>2. [contract[t] EXCEPT !.interactive = TRUE].deadline = contract[t].deadline
      BY InteractiveEdit DEF IInv, TypeOK
    <3> QED
      BY <3>1, <3>2 DEF IInv, TypeOK
  <2>2. CASE ~\E t \in Task : AskForUpdate(t)
    BY <2>2 DEF LoopNext, Over, loopVars, Tick, NextTask, Dispatch, Advance, Elapse, Finalize,
                Complete, Finish, Arrive, Submit
  <2> QED
    BY <2>1, <2>2
<1> DEFINE f == [t \in Task |-> contract'[t].deadline]
<1>2. \A t \in Task : f[t] \in Nat
  BY DEF IInv
<1>3. \E t \in Task : \A u \in Task : f[u] <= f[t]
  <2> HIDE DEF f
  <2> QED
    BY <1>2, GreatestExists
<1>4. \E d \in {contract'[t].deadline : t \in Task} : \A t \in Task : contract'[t].deadline <= d
  BY <1>3
<1>5. /\ LastDeadline' \in {contract'[t].deadline : t \in Task}
      /\ \A t \in Task : contract'[t].deadline <= LastDeadline'
  BY <1>4 DEF LastDeadline
<1> QED
  BY <1>1, <1>2, <1>5, LastDeadlineIs

\* Each task that leaves the queue moves the limit by four ticks.
LEMMA LimitGrows ==
    ASSUME IInv, IInv', [LoopNext]_loopVars, Task # {}, Begun \subseteq Begun'
    PROVE  /\ Limit \in Int /\ Limit' \in Int /\ LastDeadline \in Nat
           /\ LastDeadline <= Limit /\ Limit <= Limit'
           /\ Begun' # Begun => Limit + 4 <= Limit'
<1>1. LastDeadline' = LastDeadline /\ LastDeadline \in Nat
  BY LastDeadlineKept, LastDeadlineIs
<1> DEFINE before == Begun
           after == {t \in Task : state'[t] \notin {"new", "queued"}}
<1>2. /\ IsFiniteSet(after) /\ Cardinality(after) \in Nat
      /\ Cardinality(before) \in Nat /\ before \subseteq after
  BY SubsetCount DEF Begun
<1>3. Limit = LastDeadline + 4 * Cardinality(before)
  BY DEF Limit
<1>4. Limit' = LastDeadline + 4 * Cardinality(after) /\ Begun' = after
  BY <1>1 DEF Limit, Begun
<1> HIDE DEF before, after
<1>5. Cardinality(before) <= Cardinality(after)
  BY <1>2, FS_Subset
<1>6. before # after => Cardinality(before) # Cardinality(after)
  BY <1>2, FS_Subset
<1> QED
  BY <1>1, <1>2, <1>3, <1>4, <1>5, <1>6 DEF before

\* A class that can start is either tried or behind one that is.
LEMMA SomethingStarts ==
    ASSUME NEW o \in PriorityClass, Startable(Offers, o) # {}
    PROVE  Started(Offers) # {}
<1> DEFINE busy(c) == Startable(Offers, c) # {}
<1>1. busy(o)
  OBVIOUS
<1>2. \E c \in PriorityClass :
         busy(c) /\ \A d \in PriorityClass : Rank(d) < Rank(c) => ~busy(d)
  <2> HIDE DEF busy
  <2> QED
    BY <1>1 DEF Rank, PriorityClass, INTERACTIVE, STANDARD, DEFERRED_BATCH
<1> QED
  BY <1>2 DEF Tried, Started

\* On an idle fleet a round that starts nothing has nothing to leave behind
\* that is ready.
LEMMA IdleRoundEmpties ==
    ASSUME IInv, IdleFleetServes, NextTask, Running = {}, StartedNow = {},
           \A t \in Queued : decision[t].at <= now
    PROVE  Queued' = {}
<1>1. PICK blocked : Dispatch(Started(Offers), Dropped(Offers), blocked)
  BY DEF NextTask
<1>2. Started(Offers) = {}
  <2>1. ASSUME NEW t \in Started(Offers) PROVE FALSE
    <3>1. t \in Task /\ state[t] = "queued" /\ state'[t] = "in-flight"
      BY <1>1, StartedFits DEF Dispatch
    <3> QED
      BY <3>1 DEF StartedNow, Starts
  <2> QED
    BY <2>1
<1>3. InFlightCount = 0
  <2>1. Slots(Task) = {}
    BY DEF Slots, Running
  <2> QED
    BY <2>1, FS_EmptySet DEF InFlightCount
<1>4. \A x \in Offers : ~x.admitted
  BY <1>2, <1>3 DEF IdleFleetServes
<1>5. \A c \in PriorityClass : Heads(Offers, c) = {} /\ c \in Tried(Offers)
  BY <1>4 DEF Heads, Admitted, Tried, Startable
<1>6. ASSUME NEW t \in Queued PROVE t \in Dropped(Offers)
  <2>1. t \in Task /\ PromotedPlan(t, Class(t)).at <= now
    <3>1. t \in Task /\ now \in Int
      BY DEF Queued, IInv, TypeOK
    <3> QED
      BY <3>1, PromotionCases
  <2>2. Offer(t) \in Offers
    BY <2>1 DEF Offers
  <2>3. Offer(t).task = t /\ Offer(t).class \in PriorityClass
    BY <2>1, <2>2, OfferType, ClassTypes, SchedulerAssumption DEF Offer, IInv
  <2>4. Offer(t) \in Drained(Offers, Offer(t).class)
    BY <1>4, <1>5, <2>2, <2>3 DEF Drained, Ready
  <2> QED
    BY <1>5, <2>3, <2>4 DEF Dropped
<1>7. \A t \in Task : state'[t] # "queued"
  BY <1>1, <1>2, <1>6 DEF Dispatch, Queued
<1> QED
  BY <1>7 DEF Queued

LEMMA PacedTick ==
    ASSUME IInv, IInv', Timely, Timing, IdleFleetServes, Paced, Task # {}, Tick
    PROVE  Paced'
<1>1. NextTask /\ UNCHANGED <<now, contract, item>> /\ Quiet
  BY DEF Tick, NextTask, Dispatch
<1>2. \A t \in Task : state'[t] # state[t] =>
         state[t] = "queued" /\ state'[t] \in {"in-flight", "rejected"}
  <2>1. TAKE t \in Task
  <2>2. PICK started, dropped, blocked : Dispatch(started, dropped, blocked)
    BY <1>1 DEF NextTask
  <2>3. state'[t] = state[t] \/ state'[t] \in {"in-flight", "rejected"}
    BY <2>2 DEF Dispatch
  <2> QED
    BY <1>1, <2>3, DispatchTouchesQueue
<1>3. Begun \subseteq Begun' /\ Running \subseteq Running'
  BY <1>2 DEF Begun, Running
<1>4. /\ Limit \in Int /\ Limit' \in Int /\ Limit <= Limit'
      /\ Begun' # Begun => Limit + 4 <= Limit'
      /\ LastDeadline' = LastDeadline /\ LastDeadline \in Nat
  BY <1>3, LimitGrows, LastDeadlineKept DEF LoopNext
<1>5. now \in Int /\ now <= Limit /\ now' = now /\ stage = "tick"
  BY <1>1 DEF IInv, TypeOK, Paced, Quiet
<1>6. ASSUME NEW t \in Task, state'[t] = "in-flight"
      PROVE  due'[t] <= Limit' * Unit
  <2>1. CASE t \in StartedNow
    <3>1. t \in Begun' /\ t \notin Begun
      BY <1>6, <2>1 DEF StartedNow, Starts, Begun
    <3>2. due'[t] = now * Unit + ServiceDuration(decision'[t])
      BY <2>1 DEF Tick
    <3>3. ServiceDuration(decision'[t]) \in Nat /\ ServiceDuration(decision'[t]) <= 4 * Unit
      BY DurationBound DEF IInv, TypeOK
    <3>4. now + 4 <= Limit'
      BY <1>4, <1>5, <3>1
    <3> QED
      BY <1>4, <1>5, <3>2, <3>3, <3>4 DEF Unit
  <2>2. CASE t \notin StartedNow
    <3>1. state[t] = "in-flight" /\ due'[t] = due[t]
      BY <1>2, <1>6, <2>2 DEF StartedNow, Starts, Tick
    <3>2. due[t] <= Limit * Unit /\ due[t] \in Int
      BY <3>1 DEF Paced, Timely
    <3> QED
      BY <1>4, <3>1, <3>2 DEF Unit
  <2> QED
    BY <2>1, <2>2
<1>7. ASSUME stage' = "ticked"
      PROVE  Arrived' = {} /\ (LastDeadline' <= now' /\ Running' = {} => Queued' = {})
  <2>1. Arrived' = {}
    BY <1>1, <1>2 DEF Quiet, Arrived, Arrivals
  <2>2. ASSUME LastDeadline <= now, Running' = {}
        PROVE  Queued' = {}
    <3>1. StartedNow = {} /\ Running = {}
      BY <1>3, <1>7, <2>2 DEF Tick
    <3>2. ASSUME NEW t \in Queued PROVE decision[t].at <= now
      <4>1. t \in Task /\ decision[t].at \in Int /\ contract[t].deadline \in Int
        BY DEF Queued, IInv, TypeOK, DecisionRecord
      <4>2. contract[t].deadline <= LastDeadline
        BY <4>1, LastDeadlineIs
      <4>3. decision[t].at > now => decision[t].at + SafetyMargin <= contract[t].deadline
        BY DEF Timing, PostponedIsPatient
      <4> QED
        BY <1>4, <1>5, <2>2, <4>1, <4>2, <4>3, PolicyAssumption
    <3> QED
      BY <1>1, <3>1, <3>2, IdleRoundEmpties
  <2> QED
    BY <1>4, <1>5, <2>1, <2>2
<1>8. /\ stage' \in {"tick", "ticked", "over"} /\ item' \in [Task -> Items]
      /\ \A t \in Task :
            /\ contract'[t].deadline = item'[t].arrival + item'[t].patience
            /\ state'[t] \in {"new", "queued", "in-flight", "completed", "rejected"}
  BY <1>1, <1>2 DEF Paced, Tick
<1>9. stage' # "over" => now' <= Limit'
  BY <1>4, <1>5
<1> QED
  BY <1>6, <1>7, <1>8, <1>9 DEF Paced

\* The clock advances only past work that ends within the limit.
LEMMA PacedAdvance ==
    ASSUME IInv, IInv', Timely, Paced, Task # {}, Advance
    PROVE  /\ Paced'
           /\ 4 * N <= Tail /\ stage' = "over" => EverythingServed'
<1>1. /\ UNCHANGED <<state, contract, due, item>> /\ now' = now + 1 /\ now \in Int
      /\ stage' = IF Continues(now + 1) THEN "tick" ELSE "over"
  BY DEF Advance, Elapse, IInv, TypeOK
<1>2. /\ Limit \in Int /\ Limit' = Limit /\ LastDeadline \in Nat
      /\ LastDeadline <= Limit
  <2>1. Begun' = Begun /\ [LoopNext]_loopVars
    BY <1>1 DEF Begun, LoopNext
  <2>2. LastDeadline' = LastDeadline
    BY <2>1, LastDeadlineKept
  <2> QED
    BY <2>1, <2>2, LimitGrows DEF Limit
<1>3. Finished = {} /\ Arrived = {} /\ stage # "over"
  BY DEF Advance, Quiet, Timely, Paced
<1>4. Limit <= LastDeadline + 4 * N /\ N \in Nat
  <2>1. Cardinality(Begun) \in Nat /\ Cardinality(Begun) <= N
    BY SubsetCount, TaskCount DEF Begun
  <2> QED
    BY <1>2, <2>1, TaskCount DEF Limit
<1>5. LastDeadline <= now /\ Running = {} => Queued = {}
  <2>1. CASE stage = "ticked"
    BY <2>1 DEF Paced
  <2>2. CASE InFlightCount = Capacity
    <3>1. Running = {} => Slots(Task) = {}
      BY DEF Slots, Running
    <3>2. Running # {}
      BY <2>2, <3>1, FS_EmptySet, SchedulerAssumption DEF InFlightCount
    <3> QED
      BY <3>2
  <2> QED
    BY <2>1, <2>2 DEF Advance
<1>6. LastDeadline <= now => Arrivals = {}
  <2>1. ASSUME LastDeadline <= now, NEW t \in Arrivals PROVE FALSE
    <3>1. t \in Task /\ item[t] \in Items /\ contract[t].deadline = item[t].arrival + item[t].patience
      BY DEF Arrivals, Paced
    <3>2. contract[t].deadline <= LastDeadline /\ contract[t].deadline \in Int
      BY <3>1, LastDeadlineIs DEF IInv
    <3>3. item[t].arrival <= now
      BY <1>1, <1>2, <2>1, <3>1, <3>2, SimulationAssumption
    <3> QED
      BY <1>3, <2>1, <3>3 DEF Arrived
  <2> QED
    BY <2>1
<1>7. Running # {} => now + 1 <= Limit
  <2>1. ASSUME NEW t \in Running PROVE now + 1 <= Limit
    <3>1. /\ t \in Task /\ due[t] \in Int /\ due[t] <= Limit * Unit
          /\ ~(due[t] <= now * Unit)
      BY <1>3 DEF Running, Paced, Timely, Finished
    <3> QED
      BY <1>1, <1>2, <3>1 DEF Unit
  <2> QED
    BY <2>1
<1>8. now + 1 <= Limit \/ (Arrivals = {} /\ Queued = {} /\ Running = {})
  BY <1>1, <1>2, <1>5, <1>6, <1>7
<1>9. stage' # "over" => now' <= Limit'
  BY <1>1, <1>2, <1>8 DEF Continues
<1>10. ASSUME 4 * N <= Tail, stage' = "over"
       PROVE  EverythingServed'
  <2>1. ~Continues(now + 1)
    BY <1>1, <1>10
  <2>2. now + 1 <= Limit => now + 1 <= LastDeadline + Tail
    BY <1>1, <1>2, <1>4, <1>10, SimulationAssumption
  <2>3. Arrivals = {} /\ Queued = {} /\ Running = {}
    BY <1>8, <2>1, <2>2 DEF Continues
  <2>4. \A t \in Task : state[t] \in {"completed", "rejected"}
    BY <2>3 DEF Arrivals, Queued, Running, Paced
  <2> QED
    BY <1>1, <2>4 DEF EverythingServed
<1>11. Paced'
  <2>1. stage' \in {"tick", "over"} /\ item' \in [Task -> Items]
    BY <1>1 DEF Paced
  <2>2. \A t \in Task :
           /\ contract'[t].deadline = item'[t].arrival + item'[t].patience
           /\ state'[t] \in {"new", "queued", "in-flight", "completed", "rejected"}
           /\ state'[t] = "in-flight" => due'[t] <= Limit' * Unit
    BY <1>1, <1>2 DEF Paced
  <2> QED
    BY <1>9, <2>1, <2>2 DEF Paced
<1> QED
  BY <1>10, <1>11

\* What else the loop does takes no time and starts nothing.
LEMMA PacedOtherwise ==
    ASSUME IInv, IInv', Timely, Paced, Task # {}, NEW t \in Task,
           Finalize(t) \/ Arrive(t) \/ AskForUpdate(t)
    PROVE  Paced'
<1>1. /\ UNCHANGED <<now, due, item, stage>> /\ stage = "tick"
      /\ state \in [Task -> TaskState]
  BY DEF Finalize, Arrive, AskForUpdate, Complete, Finish, Submit, Nudge, IInv, TypeOK
<1>2. \A u \in Task :
         \/ state'[u] = state[u]
         \/ state[u] = "in-flight" /\ state'[u] = "completed"
         \/ state[u] = "new" /\ state'[u] \in {"queued", "rejected"}
  BY <1>1 DEF Finalize, Arrive, AskForUpdate, Complete, Finish, Submit, Nudge
<1>3. Begun \subseteq Begun'
  BY <1>2 DEF Begun
<1>4. /\ Limit \in Int /\ Limit' \in Int /\ Limit <= Limit'
      /\ \A u \in Task : contract'[u].deadline = contract[u].deadline
  BY <1>3, LimitGrows, LastDeadlineKept DEF LoopNext
<1>5. ASSUME NEW u \in Task
      PROVE  /\ contract'[u].deadline = item'[u].arrival + item'[u].patience
             /\ state'[u] \in {"new", "queued", "in-flight", "completed", "rejected"}
             /\ state'[u] = "in-flight" => due'[u] <= Limit' * Unit
  <2>1. /\ contract[u].deadline = item[u].arrival + item[u].patience
        /\ state[u] \in {"new", "queued", "in-flight", "completed", "rejected"}
    BY DEF Paced
  <2>2. ASSUME state'[u] = "in-flight" PROVE due'[u] <= Limit' * Unit
    <3>1. due[u] <= Limit * Unit /\ due[u] \in Int /\ due'[u] = due[u]
      BY <1>1, <1>2, <2>2 DEF Paced, Timely
    <3> QED
      BY <1>4, <3>1 DEF Unit
  <2> QED
    BY <1>1, <1>2, <1>4, <2>1, <2>2
<1>6. now' <= Limit'
  BY <1>1, <1>4 DEF Paced, IInv, TypeOK
<1> QED
  BY <1>1, <1>5, <1>6 DEF Paced

LEMMA PacedStep ==
    ASSUME Task # {}
    PROVE  IInv /\ IInv' /\ Timely /\ Timing /\ IdleFleetServes /\ Paced /\ [LoopNext]_loopVars
             => Paced'
<1> SUFFICES ASSUME IInv, IInv', Timely, Timing, IdleFleetServes, Paced, [LoopNext]_loopVars
             PROVE  Paced'
  OBVIOUS
<1>1. CASE Over \/ UNCHANGED loopVars
  <2>1. UNCHANGED loopVars
    BY <1>1 DEF Over
  <2> QED
    BY <2>1 DEF loopVars, Paced, Limit, LastDeadline, Begun, Arrived, Arrivals, Running, Queued
<1> QED
  BY <1>1, PacedTick, PacedAdvance, PacedOtherwise DEF LoopNext

LEMMA PacedHolds ==
    ASSUME Task # {}, RoomForLargest
    PROVE  LoopSpec => []Paced /\ []Timely /\ []IInv
<1>1. LoopInit => Timely
  BY DEF LoopInit, Init, Timely, CompletedOnTick, Finished, Running
<1>2. LoopInit => Paced
  <2> SUFFICES ASSUME LoopInit PROVE Paced
    OBVIOUS
  <2>1. /\ item \in [Task -> Items] /\ now = 0 /\ stage = "tick"
        /\ \A t \in Task : state[t] = "new" /\ contract[t] = Explicit(item[t])
    BY DEF LoopInit, Init
  <2>2. LastDeadline \in Nat
    <3>1. Init => IInv
      BY InitIInv
    <3> QED
      BY <3>1, LastDeadlineIs DEF LoopInit
  <2>3. Cardinality(Begun) \in Nat
    BY SubsetCount DEF Begun
  <2>4. now <= Limit
    BY <2>1, <2>2, <2>3 DEF Limit
  <2>5. \A t \in Task : contract[t].deadline = item[t].arrival + item[t].patience
    <3>1. \A i \in Items : Explicit(i).deadline = i.arrival + i.patience
      BY SimulationAssumption DEF Explicit
    <3> QED
      BY <2>1, <3>1
  <2> QED
    BY <2>1, <2>4, <2>5 DEF Paced
<1>3. LoopSpec => []IInv /\ []Timing /\ []IdleFleetServes
  BY DriverTheorem, InvHolds, TimingHolds, IdleTheorem, PTL
<1> QED
  BY <1>1, <1>2, <1>3, TimelyStep, PacedStep, PTL DEF LoopSpec

\* simulation.py:238: with reservations that leave room for the largest task
\* the loop runs on past the last deadline for at most four ticks per task
\* that has left the queue, whatever arrives when and in every configuration.
THEOREM PaceTheorem ==
    Task # {} /\ RoomForLargest =>
        (LoopSpec => [](stage # "over" => now <= LastDeadline + 4 * Cardinality(Begun)))
<1> SUFFICES ASSUME Task # {}, RoomForLargest
             PROVE  LoopSpec => [](stage # "over" => now <= LastDeadline + 4 * Cardinality(Begun))
  OBVIOUS
<1>1. Paced => (stage # "over" => now <= LastDeadline + 4 * Cardinality(Begun))
  BY DEF Paced, Limit
<1>2. LoopSpec => []Paced
  BY PacedHolds
<1> QED
  BY <1>1, <1>2, PTL

\* Hence the two days the loop runs on (288 ticks) serve up to 72 tasks, which
\* is the size of the default workload: whatever was admitted has run and is
\* recorded when the loop returns.
THEOREM ServedTheorem ==
    RoomForLargest /\ 4 * N <= Tail => (LoopSpec => []EverythingServed)
<1> SUFFICES ASSUME RoomForLargest, 4 * N <= Tail PROVE LoopSpec => []EverythingServed
  OBVIOUS
<1>1. CASE Task = {}
  <2>1. EverythingServed
    BY <1>1 DEF EverythingServed
  <2> QED
    BY <2>1, PTL
<1>2. CASE Task # {}
  <2>1. LoopInit => EverythingServed
    BY DEF LoopInit, EverythingServed
  <2>2. IInv /\ IInv' /\ Timely /\ Paced /\ EverythingServed /\ [LoopNext]_loopVars
          => EverythingServed'
    <3> SUFFICES ASSUME IInv, IInv', Timely, Paced, EverythingServed, [LoopNext]_loopVars
                 PROVE  EverythingServed'
      OBVIOUS
    <3>1. CASE Over \/ UNCHANGED loopVars
      BY <3>1 DEF Over, loopVars, EverythingServed
    <3>2. CASE Advance
      BY <1>2, <3>2, PacedAdvance DEF EverythingServed
    <3>3. CASE Tick \/ \E t \in Task : Finalize(t) \/ Arrive(t) \/ AskForUpdate(t)
      BY <3>3 DEF Tick, Quiet, Finalize, Arrive, AskForUpdate, EverythingServed
    <3> QED
      BY <3>1, <3>2, <3>3 DEF LoopNext
  <2>3. LoopSpec => []Paced /\ []Timely /\ []IInv
    BY <1>2, PacedHolds
  <2> QED
    BY <2>1, <2>2, <2>3, PTL DEF LoopSpec
<1> QED
  BY <1>1, <1>2

-----------------------------------------------------------------------------
(* Deferral alone costs no deadline.  A patient task that waits for the    *)
(* window is ready with the margin left, and one the limit on deferred     *)
(* work holds back is promoted in time; both are started with the four     *)
(* ticks left that any service needs, unless other work is in the way.     *)

\* As in the experiment: nothing is reserved, and the margin, the escalation
\* window and the slack of patient work all cover the longest service.
Unreserved == \A c \in PriorityClass : Reservation[c] = 0
Covered == 4 <= SafetyMargin /\ 4 <= EscalationWindow /\ 4 <= DeferredSlack

\* Other work is in the way if a patient task is down to the time it needs
\* and something in its line does not fit into the free slots.
Uncontended ==
    \A t \in Patient : state[t] = "queued" /\ contract[t].deadline <= now + 4 =>
        \A u \in Queued : Class(u) = Class(t) =>
            InFlightCount + Units(Redecision(u)) <= Capacity

Punctual ==
    /\ stage \in {"tick", "ticked", "over"}
    /\ item \in [Task -> Items]
    /\ \A t \in Task :
          /\ contract[t].deadline = item[t].arrival + item[t].patience
          /\ state[t] = "new" /\ stage # "over" => now <= item[t].arrival
    /\ stage = "ticked" => Arrived = {}
    /\ \A t \in Patient :
          /\ state[t] = "queued" => now + 4 <= contract[t].deadline
          /\ state[t] = "queued" /\ stage = "ticked" => now + 4 < contract[t].deadline
          /\ state[t] \in {"in-flight", "completed"} => due[t] <= contract[t].deadline * Unit

\* With nothing reserved and room for whatever heads its class, a round that
\* starts nothing leaves no ready task outside the deferred class.
LEMMA RoundTakes ==
    ASSUME IInv, Ordered, Unreserved, NextTask, StartedNow = {},
           NEW t \in Queued, PromotedPlan(t, Class(t)).at <= now, Class(t) # DEFERRED_BATCH,
           \A u \in Queued : Class(u) = Class(t) =>
               InFlightCount + Units(Redecision(u)) <= Capacity
    PROVE  state'[t] # "queued"
<1>1. PICK blocked : Dispatch(Started(Offers), Dropped(Offers), blocked)
  BY DEF NextTask
<1>2. Started(Offers) = {}
  <2>1. ASSUME NEW u \in Started(Offers) PROVE FALSE
    <3>1. u \in Task /\ state[u] = "queued" /\ state'[u] = "in-flight"
      BY <1>1, StartedFits DEF Dispatch
    <3> QED
      BY <3>1 DEF StartedNow, Starts
  <2> QED
    BY <2>1
<1> DEFINE c == Class(t)
<1>3. t \in Task /\ c \in PriorityClass /\ Offer(t) \in Offers
  <2>1. t \in Task
    BY DEF Queued
  <2> QED
    BY <2>1, ClassTypes, SchedulerAssumption DEF Offers, Class, IInv, TypeOK, TaskContract
<1>4. \A o \in PriorityClass : o \in Tried(Offers)
  <2>1. ASSUME NEW o \in PriorityClass, Startable(Offers, o) # {}
        PROVE  FALSE
    BY <1>2, <2>1, SomethingStarts
  <2> QED
    BY <2>1 DEF Tried
<1>5. Startable(Offers, c) = {}
  BY <1>2, <1>3, <1>4 DEF Started
<1>6. Protected(Offers, c) = 0
  <2>1. \A o \in PriorityClass : Shortfall(o) = 0
    BY SlotsType DEF Shortfall, Unreserved, InFlightByClass, IInv
  <2> QED
    BY <2>1 DEF Protected, ProtectedFor, PriorityClass
<1>7. Heads(Offers, c) = {}
  <2>1. ASSUME NEW x \in Heads(Offers, c) PROVE FALSE
    <3>1. x \in Offers /\ x.class = c
      BY DEF Heads, Admitted
    <3>2. x.task \in Queued /\ Class(x.task) = c /\ x.units = Units(Redecision(x.task))
          /\ x.units \in 1 .. 3
      BY <3>1, OfferType DEF Queued
    <3>3. InFlightCount + x.units <= Capacity /\ InFlightCount \in Nat /\ Capacity \in Nat
      BY <3>2, CountType, SchedulerAssumption DEF IInv
    <3>4. CanUseSlot(Offers, c, x.units)
      BY <1>6, <3>2, <3>3 DEF CanUseSlot
    <3> QED
      BY <1>5, <3>4 DEF Startable
  <2> QED
    BY <2>1
<1>8. ~Offer(t).admitted
  <2>1. Admitted(Offers, c) = {}
    BY <1>7, HeadExists
  <2>2. Offer(t).class = c
    BY DEF Offer
  <2> QED
    BY <1>3, <2>1, <2>2 DEF Admitted
<1>9. t \in Dropped(Offers)
  <2>1. Offer(t).task = t /\ Offer(t).class = c
    BY DEF Offer
  <2>2. Offer(t) \in Drained(Offers, c)
    BY <1>3, <1>7, <1>8, <2>1 DEF Drained, Ready
  <2> QED
    BY <1>3, <1>4, <2>1, <2>2 DEF Dropped
<1> QED
  BY <1>1, <1>2, <1>3, <1>9 DEF Dispatch

\* A patient task that is down to the time it needs is ready, and no longer
\* in the deferred class once the round has escalated it.
LEMMA LastChanceReady ==
    ASSUME IInv, Timing, Covered, Mode = "intent-aware", NEW t \in Queued,
           contract[t].deadline = now + 4
    PROVE  PromotedPlan(t, Class(t)).at <= now /\ Class(t) # DEFERRED_BATCH
<1>1. /\ t \in Task /\ state[t] = "queued" /\ now \in Int
      /\ effective[t] \in PriorityClass /\ decision[t].at \in Int
  BY DEF Queued, IInv, TypeOK, DecisionRecord
<1>2. Class(t) = Aged(effective[t], contract[t].deadline)
  BY <1>1, SimulationAssumption DEF Class, Escalated
<1>3. Class(t) # DEFERRED_BATCH
  BY <1>1, <1>2, SchedulerAssumption
     DEF Aged, Covered, PriorityClass, INTERACTIVE, STANDARD, DEFERRED_BATCH
<1>4. decision[t].at <= now
  <2>1. decision[t].at > now => decision[t].at + SafetyMargin <= contract[t].deadline
    BY DEF Timing, PostponedIsPatient
  <2> QED
    BY <1>1, <2>1, PolicyAssumption DEF Covered
<1>5. PromotedPlan(t, Class(t)).at <= now
  BY <1>1, <1>4, PromotionCases
<1> QED
  BY <1>3, <1>5
LEMMA PunctualTick ==
    ASSUME IInv, IInv', Timely, Timing, Ordered, Unreserved, Covered, Mode = "intent-aware",
           Uncontended, Punctual, Tick
    PROVE  Punctual'
<1>1. /\ NextTask /\ UNCHANGED <<now, contract, item>> /\ Arrived = {} /\ stage = "tick"
      /\ stage' = IF StartedNow = {} THEN "ticked" ELSE "tick"
  BY DEF Tick, Quiet, NextTask, Dispatch
<1>2. \A t \in Task : state'[t] # state[t] =>
         state[t] = "queued" /\ state'[t] \in {"in-flight", "rejected"}
  <2>1. TAKE t \in Task
  <2>2. PICK started, dropped, blocked : Dispatch(started, dropped, blocked)
    BY <1>1 DEF NextTask
  <2>3. state'[t] = state[t] \/ state'[t] \in {"in-flight", "rejected"}
    BY <2>2 DEF Dispatch
  <2> QED
    BY <1>1, <2>3, DispatchTouchesQueue
<1>3. Patient' = Patient /\ Patient \subseteq Task /\ now \in Int
      /\ \A t \in Task : contract[t].deadline \in Int
  BY <1>1 DEF Patient, IInv, TypeOK
<1>4. ASSUME NEW t \in Patient, state'[t] = "queued", stage' = "ticked"
      PROVE  now + 4 < contract[t].deadline
  <2>1. t \in Task /\ t \in Queued /\ now + 4 <= contract[t].deadline /\ StartedNow = {}
    BY <1>1, <1>2, <1>3, <1>4 DEF Queued, Punctual
  <2>2. ASSUME contract[t].deadline = now + 4 PROVE FALSE
    <3>1. PromotedPlan(t, Class(t)).at <= now /\ Class(t) # DEFERRED_BATCH
      BY <2>1, <2>2, LastChanceReady
    <3>2. \A u \in Queued : Class(u) = Class(t) =>
             InFlightCount + Units(Redecision(u)) <= Capacity
      BY <1>3, <2>1, <2>2 DEF Uncontended, Queued
    <3>3. state'[t] # "queued"
      BY <1>1, <2>1, <3>1, <3>2, RoundTakes
    <3> QED
      BY <1>4, <3>3
  <2> QED
    BY <1>3, <2>1, <2>2
<1>5. ASSUME NEW t \in Patient, state'[t] \in {"in-flight", "completed"}
      PROVE  due'[t] <= contract[t].deadline * Unit
  <2>1. t \in Task /\ contract[t].deadline \in Int
    BY <1>3
  <2>2. CASE t \in StartedNow
    <3>1. due'[t] = now * Unit + ServiceDuration(decision'[t])
      BY <2>1, <2>2 DEF Tick
    <3>2. ServiceDuration(decision'[t]) \in Nat /\ ServiceDuration(decision'[t]) <= 4 * Unit
      BY <2>1, DurationBound DEF IInv, TypeOK
    <3>3. now + 4 <= contract[t].deadline
      BY <2>2 DEF StartedNow, Starts, Punctual
    <3> QED
      BY <1>3, <2>1, <3>1, <3>2, <3>3 DEF Unit
  <2>3. CASE t \notin StartedNow
    <3>1. state'[t] = state[t]
      BY <1>2, <1>5, <2>1, <2>3 DEF StartedNow, Starts
    <3>2. due'[t] = due[t]
      BY <2>1, <2>3 DEF Tick
    <3> QED
      BY <1>5, <3>1, <3>2 DEF Punctual
  <2> QED
    BY <2>2, <2>3
<1>6. /\ stage' \in {"tick", "ticked", "over"} /\ item' \in [Task -> Items]
      /\ \A t \in Task :
            /\ contract'[t].deadline = item'[t].arrival + item'[t].patience
            /\ state'[t] = "new" /\ stage' # "over" => now' <= item'[t].arrival
      /\ stage' = "ticked" => Arrived' = {}
  BY <1>1, <1>2 DEF Punctual, Arrived, Arrivals
<1>7. \A t \in Patient : state'[t] = "queued" => now + 4 <= contract[t].deadline
  BY <1>2, <1>3 DEF Punctual
<1> QED
  BY <1>1, <1>3, <1>4, <1>5, <1>6, <1>7 DEF Punctual

\* The clock does not pass the last chance of a patient task: the round before
\* has taken it, or a busy fleet would be other work in the way.
LEMMA PunctualAdvance ==
    ASSUME IInv, Uncontended, Punctual, Advance
    PROVE  Punctual'
<1>1. /\ UNCHANGED <<state, contract, due, item>> /\ now' = now + 1 /\ now \in Int
      /\ stage' \in {"tick", "over"} /\ Arrived = {}
      /\ stage = "ticked" \/ InFlightCount = Capacity
  BY DEF Advance, Elapse, Quiet, Punctual, IInv, TypeOK
<1>2. Patient' = Patient /\ Patient \subseteq Task
  BY <1>1 DEF Patient
<1>3. ASSUME NEW t \in Patient, state[t] = "queued"
      PROVE  now + 1 + 4 <= contract[t].deadline
  <2>1. t \in Task /\ contract[t].deadline \in Int /\ now + 4 <= contract[t].deadline
    BY <1>2, <1>3 DEF Punctual, IInv
  <2>2. CASE stage = "ticked"
    BY <1>1, <1>3, <2>1, <2>2 DEF Punctual
  <2>3. CASE InFlightCount = Capacity
    <3>1. Units(Redecision(t)) \in 1 .. 3 /\ InFlightCount \in Nat /\ Capacity \in Nat
      BY <2>1, UnitsType, RedecisionType, CountType, SchedulerAssumption DEF IInv
    <3>2. ~(InFlightCount + Units(Redecision(t)) <= Capacity)
      BY <2>3, <3>1
    <3>3. ~(contract[t].deadline <= now + 4)
      BY <1>3, <2>1, <3>2 DEF Uncontended, Queued
    <3> QED
      BY <1>1, <2>1, <3>3
  <2> QED
    BY <1>1, <2>2, <2>3
<1>4. ASSUME NEW t \in Task, state[t] = "new"
      PROVE  now + 1 <= item[t].arrival
  <2>1. item[t].arrival \in Int
    BY SimulationAssumption DEF Punctual
  <2>2. ~(item[t].arrival <= now)
    BY <1>1, <1>4 DEF Arrived, Arrivals
  <2> QED
    BY <1>1, <2>1, <2>2
<1> QED
  BY <1>1, <1>2, <1>3, <1>4 DEF Punctual

\* A task joins the queue at the tick of its arrival, with its whole patience.
LEMMA PunctualOtherwise ==
    ASSUME IInv, IInv', Covered, Punctual, NEW t \in Task,
           Finalize(t) \/ Arrive(t) \/ AskForUpdate(t)
    PROVE  Punctual'
<1>1. /\ UNCHANGED <<now, due, item, stage>> /\ stage = "tick" /\ now \in Int
      /\ state \in [Task -> TaskState]
  <2>1. now \in Int /\ state \in [Task -> TaskState]
    BY DEF IInv, TypeOK
  <2>2. UNCHANGED <<now, due, item, stage>> /\ stage = "tick"
    BY DEF Finalize, Arrive, AskForUpdate, Complete, Finish, Submit, Nudge
  <2> QED
    BY <2>1, <2>2
<1>2. \A u \in Task :
         \/ state'[u] = state[u]
         \/ state[u] = "in-flight" /\ state'[u] = "completed"
         \/ state[u] = "new" /\ state'[u] \in {"queued", "rejected"}
  BY <1>1 DEF Finalize, Arrive, AskForUpdate, Complete, Finish, Submit, Nudge
<1>3. \A u \in Task : contract'[u].deadline = contract[u].deadline
  <2>1. Task # {} /\ [LoopNext]_loopVars
    BY DEF LoopNext
  <2> QED
    BY <2>1, LastDeadlineKept
<1>4. Patient' = Patient /\ Patient \subseteq Task
  BY <1>1 DEF Patient
<1>5. ASSUME NEW u \in Patient, state'[u] = "queued"
      PROVE  now + 4 <= contract[u].deadline
  <2>1. u \in Task /\ item[u].patience >= DeferredSlack
    BY DEF Patient
  <2>2. CASE state[u] = "queued"
    BY <2>2 DEF Punctual
  <2>3. CASE state[u] = "new"
    <3>1. /\ item[u].arrival \in Int /\ item[u].patience \in Int
          /\ contract[u].deadline = item[u].arrival + item[u].patience
      BY <2>1, SimulationAssumption DEF Punctual
    <3>2. now <= item[u].arrival
      BY <1>1, <2>1, <2>3 DEF Punctual
    <3> QED
      BY <1>1, <2>1, <3>1, <3>2, PolicyAssumption DEF Covered
  <2> QED
    BY <1>2, <1>5, <2>1, <2>2, <2>3
<1>6. ASSUME NEW u \in Patient, state'[u] \in {"in-flight", "completed"}
      PROVE  due[u] <= contract[u].deadline * Unit
  BY <1>2, <1>4, <1>6 DEF Punctual
<1>7. ASSUME NEW u \in Task, state'[u] = "new"
      PROVE  now <= item[u].arrival
  BY <1>1, <1>2, <1>7 DEF Punctual
<1>8. \A u \in Task : contract[u].deadline = item[u].arrival + item[u].patience
  BY DEF Punctual
<1>9. item \in [Task -> Items]
  BY DEF Punctual
<1> QED
  BY <1>1, <1>3, <1>4, <1>5, <1>6, <1>7, <1>8, <1>9 DEF Punctual

LEMMA PunctualStep ==
    ASSUME Unreserved, Covered, Mode = "intent-aware"
    PROVE  IInv /\ IInv' /\ Timely /\ Timing /\ Ordered /\ Uncontended /\ Punctual
             /\ [LoopNext]_loopVars => Punctual'
<1> SUFFICES ASSUME IInv, IInv', Timely, Timing, Ordered, Uncontended, Punctual,
                    [LoopNext]_loopVars
             PROVE  Punctual'
  OBVIOUS
<1>1. CASE Over \/ UNCHANGED loopVars
  <2>1. UNCHANGED loopVars
    BY <1>1 DEF Over
  <2> QED
    BY <2>1 DEF loopVars, Punctual, Arrived, Arrivals, Patient
<1> QED
  BY <1>1, PunctualTick, PunctualAdvance, PunctualOtherwise DEF LoopNext

\* docs/architecture.md:36: patient tasks are deferred "if enough deadline
\* margin remains".  For every workload with no more patient tasks than
\* slots, every capacity and order of events: where no other work fills the
\* slots when a patient task is down to its last chance, neither the window nor
\* the limit on deferred work costs a patient task its deadline.
THEOREM DeadlineTheorem ==
    Unreserved /\ Covered =>
        (LoopSpec /\ [](Cardinality(Patient) <= Capacity => Uncontended)
           => []DeferralKeepsDeadline)
<1> DEFINE Few == Cardinality(Patient) <= Capacity
<1> SUFFICES ASSUME Unreserved, Covered
             PROVE  LoopSpec /\ [](Few => Uncontended) => []DeferralKeepsDeadline
  OBVIOUS
<1>1. CASE Mode # "intent-aware"
  <2>1. DeferralKeepsDeadline
    BY <1>1 DEF DeferralKeepsDeadline
  <2> QED
    BY <2>1, PTL
<1>2. CASE Mode = "intent-aware"
  <2>1. LoopInit => Timely
    BY DEF LoopInit, Init, Timely, CompletedOnTick, Finished, Running
  <2>2. LoopInit => (Few => Punctual)
    <3> SUFFICES ASSUME LoopInit PROVE Punctual
      OBVIOUS
    <3>1. /\ item \in [Task -> Items] /\ now = 0 /\ stage = "tick" /\ Patient \subseteq Task
          /\ \A t \in Task : state[t] = "new" /\ contract[t] = Explicit(item[t])
      BY DEF LoopInit, Init, Patient
    <3>2. \A i \in Items : Explicit(i).deadline = i.arrival + i.patience
                           /\ i.arrival \in Nat
      BY SimulationAssumption DEF Explicit
    <3> QED
      BY <3>1, <3>2 DEF Punctual
  <2>3. IInv /\ IInv' /\ Timely /\ Timing /\ Ordered /\ (Few => Uncontended)
          /\ (Few => Punctual) /\ [LoopNext]_loopVars => (Few => Punctual)'
    <3> SUFFICES ASSUME IInv, IInv', Timely, Timing, Ordered, Few => Uncontended,
                        Few => Punctual, [LoopNext]_loopVars, Few'
                 PROVE  Punctual'
      OBVIOUS
    <3>1. item' = item
      BY DEF LoopNext, Over, loopVars, Tick, Advance, Finalize, Arrive, AskForUpdate
    <3>2. Few
      BY <3>1 DEF Patient
    <3> QED
      BY <1>2, <3>2, PunctualStep
  <2>4. IInv /\ Timely /\ (Few => Punctual) => DeferralKeepsDeadline
    BY DEF Punctual, DeferralKeepsDeadline
  <2>5. LoopSpec => []IInv /\ []Timing /\ []Ordered
    BY DriverTheorem, InvHolds, TimingHolds, OrderedHolds, PTL
  <2> QED
    BY <2>1, <2>2, <2>3, <2>4, <2>5, TimelyStep, PTL DEF LoopSpec
<1> QED
  BY <1>1, <1>2

=============================================================================
