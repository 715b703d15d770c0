-------------------------- MODULE SchedulerProofs ---------------------------
(***************************************************************************)
(* Safety of the scheduler for every set of tasks, contracts, capacity,    *)
(* reservation, window and mode: what the queue may do to the slots, and   *)
(* on the shape of a step so established, that what runs is paid for, not  *)
(* degraded, and not more deferred work than allowed; that the scheduler   *)
(* implements the task lifecycle; that who waits for a person is never     *)
(* postponed and what is postponed can afford it; that every start leaves  *)
(* the other classes what is reserved for them; that an idle fleet serves; *)
(* and that the baselines start work in the order of arrival.              *)
(***************************************************************************)
EXTENDS Scheduler, PolicyProofs, FiniteSetTheorems

\* The inductive core: types, and tasks never submitted have no order yet
\* (which bounds the order numbers by the number of tasks).
IInv ==
    /\ TypeOK
    /\ \A t \in Task : contract[t].deadline \in Nat
    /\ \A t \in Task : state[t] = "new" => order[t] = 0

-----------------------------------------------------------------------------
(* Counting *)

LEMMA TaskCount == N \in Nat
BY SchedulerAssumption, FS_CardinalityType DEF N

\* A set of tasks is finite and at most as large as Task.
LEMMA SubsetCount ==
    ASSUME NEW S \in SUBSET Task
    PROVE  IsFiniteSet(S) /\ Cardinality(S) \in 0 .. N
<1>1. IsFiniteSet(S) /\ Cardinality(S) <= Cardinality(Task)
  BY SchedulerAssumption, FS_Subset
<1>2. Cardinality(S) \in Nat
  BY <1>1, FS_CardinalityType
<1> QED
  BY <1>1, <1>2, TaskCount DEF N

\* Renumbering the live entries keeps every rank within the number of tasks.
LEMMA RequeueType ==
    ASSUME NEW temp, NEW live \in SUBSET Task
    PROVE  Requeue(temp, live) \in [Task -> 0 .. N]
<1>1. ASSUME NEW t \in Task
      PROVE  Cardinality({u \in live : temp[u] <= temp[t]}) \in 0 .. N
  BY SubsetCount
<1> QED
  BY <1>1, TaskCount DEF Requeue

\* Every decision needs one to three slots.
LEMMA UnitsType ==
    ASSUME NEW d \in DecisionRecord
    PROVE  Units(d) \in 1 .. 3
BY DEF Units, DecisionRecord

\* The slots held by any tasks are finitely many pairs.
LEMMA SlotsType ==
    ASSUME TypeOK, NEW S \in SUBSET Task
    PROVE  /\ Slots(S) \subseteq Task \X (1 .. 3)
           /\ IsFiniteSet(Slots(S))
           /\ Cardinality(Slots(S)) \in Nat
<1>1. Slots(S) \subseteq Task \X (1 .. 3)
  BY UnitsType DEF Slots, TypeOK
<1>2. IsFiniteSet(Task \X (1 .. 3))
  <2>1. \A a, b \in Int : IsFiniteSet(a .. b)
    BY FS_Interval
  <2>2. 1 \in Int /\ 3 \in Int
    OBVIOUS
  <2>3. IsFiniteSet(1 .. 3)
    BY <2>1, <2>2, Zenon
  <2> QED
    BY <2>3, SchedulerAssumption, FS_Product
<1>3. IsFiniteSet(Slots(S))
  BY <1>1, <1>2, FS_Subset
<1> QED
  BY <1>1, <1>3, FS_CardinalityType

LEMMA CountType == TypeOK => InFlightCount \in Nat
BY SlotsType DEF InFlightCount

LEMMA FleetType ==
    ASSUME TypeOK, NEW allow \in BOOLEAN
    PROVE  Fleet(allow) \in FleetState
BY CountType, NextLowLoadType, SchedulerAssumption DEF Fleet, FleetState, TypeOK

\* Every plan the scheduler asks for is a decision record.
LEMMA PlanType ==
    ASSUME TypeOK, NEW c \in TaskContract, NEW allow \in BOOLEAN
    PROVE  Decide(Mode, c, Fleet(allow)) \in DecisionRecord
BY FleetType, DecideType, SchedulerAssumption

LEMMA ClassTypes ==
    ASSUME TypeOK, NEW t \in Task, NEW deadline \in Int
    PROVE  /\ Escalated(t, deadline) \in PriorityClass
           /\ Class(t) \in PriorityClass
           /\ \A c : PromotedPlan(t, c) \in DecisionRecord
<1>1. \A d : \A class \in PriorityClass : Aged(class, d) \in PriorityClass
  BY DEF Aged, PriorityClass
<1>2. effective[t] \in PriorityClass /\ decision[t] \in DecisionRecord /\ now \in Int
  BY DEF TypeOK
<1>3. [decision[t] EXCEPT !.at = now] \in DecisionRecord
  BY <1>2 DEF DecisionRecord
<1> QED
  BY <1>1, <1>2, <1>3 DEF Escalated, Class, PromotedPlan

LEMMA RedecisionType ==
    ASSUME TypeOK, NEW t \in Task
    PROVE  Redecision(t) \in DecisionRecord
<1> DEFINE plan == Decide(Mode, contract[t], Fleet(FALSE))
<1>1. plan \in DecisionRecord
  BY PlanType DEF TypeOK
<1>2. Class(t) \in PriorityClass /\ now \in Int
  BY ClassTypes DEF TypeOK
<1> HIDE DEF plan
<1>3. [plan EXCEPT !.class = Class(t), !.at = now] \in DecisionRecord
  BY <1>1, <1>2 DEF DecisionRecord
<1> QED
  BY <1>3 DEF Redecision, plan

LEMMA InteractiveEdit ==
    ASSUME NEW c \in TaskContract
    PROVE  /\ [c EXCEPT !.interactive = TRUE] \in TaskContract
           /\ [c EXCEPT !.interactive = TRUE].deadline = c.deadline
BY DEF TaskContract

LEMMA DeadlineEdit ==
    ASSUME NEW c \in TaskContract, NEW d \in Nat
    PROVE  /\ [c EXCEPT !.deadline = d] \in TaskContract
           /\ [c EXCEPT !.deadline = d].deadline = d
BY DEF TaskContract

-----------------------------------------------------------------------------
(* The inductive core, action by action *)

LEMMA InitIInv == Init => IInv
<1> SUFFICES ASSUME Init PROVE IInv
  OBVIOUS
<1>1. contract \in [Task -> TaskContract] /\ \A t \in Task : contract[t].deadline \in Nat
  BY SchedulerAssumption DEF Init
<1>2. [now |-> 0, inFlight |-> 0, capacity |-> Capacity, lowLoad |-> {}] \in FleetState
  BY SchedulerAssumption DEF FleetState
<1>3. decision \in [Task -> DecisionRecord]
  BY <1>1, <1>2, DecideType, SchedulerAssumption DEF Init
<1>4. effective \in [Task -> PriorityClass]
  BY <1>3 DEF Init, DecisionRecord
<1>5. 0 \in 0 .. N /\ now \in 0 .. Horizon
  BY TaskCount, SchedulerAssumption DEF Init
<1> QED
  BY <1>1, <1>3, <1>4, <1>5 DEF Init, IInv, TypeOK, TaskState

LEMMA SubmitIInv ==
    ASSUME IInv, NEW t \in Task, Submit(t)
    PROVE  IInv'
<1> DEFINE plan == Decide(Mode, contract[t], Fleet(TRUE))
<1>1. plan \in DecisionRecord /\ plan.class \in PriorityClass
  BY PlanType DEF IInv, TypeOK, DecisionRecord
<1> HIDE DEF plan
<1>2. /\ state[t] = "new"
      /\ decision' = [decision EXCEPT ![t] = plan]
      /\ effective' = [effective EXCEPT ![t] = plan.class]
      /\ UNCHANGED <<now, contract>>
  BY DEF Submit, plan
<1>3. 1 + Cardinality({u \in Task : order[u] > 0}) \in 0 .. N
  <2>1. {u \in Task : order[u] > 0} \subseteq Task \ {t}
    BY <1>2 DEF IInv
  <2>2. IsFiniteSet(Task) /\ Cardinality(Task \ {t}) = N - 1 /\ IsFiniteSet(Task \ {t})
    BY SchedulerAssumption, FS_RemoveElement DEF N
  <2>3. Cardinality({u \in Task : order[u] > 0}) <= N - 1
    BY <2>1, <2>2, FS_Subset
  <2>4. Cardinality({u \in Task : order[u] > 0}) \in 0 .. N
    BY SubsetCount
  <2> QED
    BY <2>3, <2>4, TaskCount
<1>4. CASE /\ state' = [state EXCEPT ![t] = "queued"]
           /\ order' = [order EXCEPT ![t] = 1 + Cardinality({u \in Task : order[u] > 0})]
           /\ place' = Requeue([place EXCEPT ![t] = N + 1], Queued \cup {t})
  <2>1. place' \in [Task -> 0 .. N]
    BY <1>4, RequeueType DEF Queued
  <2> QED
    BY <1>1, <1>2, <1>3, <1>4, <2>1 DEF IInv, TypeOK, TaskState
<1>5. CASE state' = [state EXCEPT ![t] = "rejected"] /\ UNCHANGED <<order, place>>
  BY <1>1, <1>2, <1>5 DEF IInv, TypeOK, TaskState
<1> QED
  BY <1>4, <1>5 DEF Submit

LEMMA NextTaskIInv ==
    ASSUME IInv, NEW started, NEW dropped, NEW blocked, Dispatch(started, dropped, blocked)
    PROVE  IInv'
<1>1. state' \in [Task -> TaskState] /\ \A t \in Task : state'[t] = "new" => state[t] = "new"
  BY DEF Dispatch, IInv, TypeOK, TaskState
<1>2. decision' \in [Task -> DecisionRecord]
  BY RedecisionType, ClassTypes, SchedulerAssumption DEF Dispatch, IInv
<1>3. effective' \in [Task -> PriorityClass]
  BY ClassTypes DEF Dispatch, IInv
<1>4. place' \in [Task -> 0 .. N]
  BY RequeueType DEF Dispatch, Queued
<1> QED
  BY <1>1, <1>2, <1>3, <1>4 DEF Dispatch, IInv, TypeOK

LEMMA FinishIInv ==
    ASSUME IInv, NEW t \in Task, NEW outcome \in TaskState \ {"new"}, Finish(t, outcome)
    PROVE  IInv'
BY DEF Finish, IInv, TypeOK

LEMMA CancelIInv ==
    ASSUME IInv, NEW t \in Task, Cancel(t)
    PROVE  IInv'
<1>1. place' \in [Task -> 0 .. N]
  BY RequeueType DEF Cancel, Queued
<1> QED
  BY <1>1 DEF Cancel, IInv, TypeOK, TaskState

LEMMA NudgeIInv ==
    ASSUME IInv, NEW t \in Task, Nudge(t)
    PROVE  IInv'
<1> DEFINE revealed == [contract[t] EXCEPT !.interactive = TRUE]
           plan == Decide(Mode, revealed, Fleet(TRUE))
<1>1. revealed \in TaskContract /\ revealed.deadline = contract[t].deadline
  BY InteractiveEdit DEF IInv, TypeOK
<1> HIDE DEF revealed
<1>2. plan \in DecisionRecord /\ plan.class \in PriorityClass
  BY <1>1, PlanType DEF IInv, DecisionRecord
<1> HIDE DEF plan
<1>3. contract' = [contract EXCEPT ![t] = revealed] /\ UNCHANGED <<now, state, order>>
  BY DEF Nudge, revealed
<1>4. contract' \in [Task -> TaskContract] /\ \A u \in Task : contract'[u].deadline \in Nat
  BY <1>1, <1>3 DEF IInv, TypeOK
<1>5. CASE /\ decision' = [decision EXCEPT ![t] = plan]
           /\ effective' = [effective EXCEPT ![t] = plan.class]
           /\ place' = Requeue([place EXCEPT ![t] = N + 1], Queued)
  <2>1. place' \in [Task -> 0 .. N]
    BY <1>5, RequeueType DEF Queued
  <2> QED
    BY <1>2, <1>3, <1>4, <1>5, <2>1 DEF IInv, TypeOK
<1>6. CASE /\ effective' = [effective EXCEPT ![t] = INTERACTIVE]
           /\ UNCHANGED <<decision, place>>
  BY <1>3, <1>4, <1>6 DEF IInv, TypeOK, PriorityClass
<1> QED
  BY <1>5, <1>6 DEF Nudge, revealed, plan

LEMMA UpdateDeadlineIInv ==
    ASSUME IInv, NEW t \in Task, NEW deadline \in Deadlines, UpdateDeadline(t, deadline)
    PROVE  IInv'
<1> DEFINE revised == [contract[t] EXCEPT !.deadline = deadline]
           class(u) == Escalated(u, IF u = t THEN deadline ELSE contract[u].deadline)
           plan == Decide(Mode, revised, Fleet(TRUE))
<1>1. revised \in TaskContract /\ revised.deadline \in Nat /\ deadline \in Int
  <2>1. deadline \in Nat /\ contract[t] \in TaskContract
    BY SchedulerAssumption DEF IInv, TypeOK
  <2> QED
    BY <2>1, DeadlineEdit
<1>2. \A u \in Task : class(u) \in PriorityClass /\ PromotedPlan(u, class(u)) \in DecisionRecord
  BY <1>1, ClassTypes DEF IInv
<1> HIDE DEF revised
<1>3. plan \in DecisionRecord /\ plan.class \in PriorityClass
  BY <1>1, PlanType DEF IInv, DecisionRecord
<1> HIDE DEF plan, class
<1>4. contract' = [contract EXCEPT ![t] = revised] /\ UNCHANGED <<now, state, order>>
  BY DEF UpdateDeadline, revised
<1>5. contract' \in [Task -> TaskContract] /\ \A u \in Task : contract'[u].deadline \in Nat
  BY <1>1, <1>4 DEF IInv, TypeOK
<1>6. CASE /\ decision' = [u \in Task |-> IF u = t THEN plan ELSE PromotedPlan(u, class(u))]
           /\ effective' = [u \in Task |-> IF u = t THEN plan.class ELSE class(u)]
           /\ place' = Requeue([u \in Task |->
                 IF u = t THEN 2 * N + 1 ELSE PromotedPlace(u, class(u))], Queued)
  <2>1. place' \in [Task -> 0 .. N]
    BY <1>6, RequeueType DEF Queued
  <2>2. decision' \in [Task -> DecisionRecord] /\ effective' \in [Task -> PriorityClass]
    BY <1>2, <1>3, <1>6
  <2> QED
    BY <1>4, <1>5, <2>1, <2>2 DEF IInv, TypeOK
<1>7. CASE UNCHANGED <<decision, effective, place>>
  BY <1>4, <1>5, <1>7 DEF IInv, TypeOK
<1> QED
  BY <1>6, <1>7 DEF UpdateDeadline, revised, plan, class

LEMMA NextIInv == IInv /\ [Next]_vars => IInv'
<1> SUFFICES ASSUME IInv, [Next]_vars PROVE IInv'
  OBVIOUS
<1>1. CASE NextTask
  BY <1>1, NextTaskIInv DEF NextTask
<1>2. CASE Elapse
  <2>1. now' \in 0 .. Horizon
    BY <1>2, SchedulerAssumption DEF Elapse, IInv, TypeOK
  <2> QED
    BY <1>2, <2>1 DEF Elapse, IInv, TypeOK
<1>3. ASSUME NEW t \in Task, Submit(t) PROVE IInv'
  BY <1>3, SubmitIInv
<1>4. ASSUME NEW t \in Task, Complete(t) \/ Fail(t) PROVE IInv'
  BY <1>4, FinishIInv DEF Complete, Fail, TaskState
<1>5. ASSUME NEW t \in Task, Cancel(t) PROVE IInv'
  BY <1>5, CancelIInv
<1>6. ASSUME NEW t \in Task, Nudge(t) PROVE IInv'
  BY <1>6, NudgeIInv
<1>7. ASSUME NEW t \in Task, NEW d \in Deadlines, UpdateDeadline(t, d) PROVE IInv'
  BY <1>7, UpdateDeadlineIInv
<1>8. CASE UNCHANGED vars
  BY <1>8 DEF vars, IInv, TypeOK
<1> QED
  BY <1>1, <1>2, <1>3, <1>4, <1>5, <1>6, <1>7, <1>8 DEF Next

LEMMA InvHolds == Spec => []IInv
BY InitIInv, NextIInv, PTL DEF Spec

\* Every field of every task keeps its type.
THEOREM TypeCorrect == Spec => []TypeOK
<1>1. IInv => TypeOK
  BY DEF IInv
<1> QED
  BY <1>1, InvHolds, PTL

-----------------------------------------------------------------------------
(* What one dispatch can start *)

\* An offer repeats the fields of its task.
LEMMA OfferType ==
    ASSUME IInv, NEW x \in Offers
    PROVE  /\ x.task \in Task /\ state[x.task] = "queued"
           /\ x = Offer(x.task)
           /\ x.key \in Int /\ x.place \in Int
           /\ x.units = Units(Redecision(x.task)) /\ x.units \in 1 .. 3
           /\ x.class = Class(x.task)
<1>1. PICK t \in Queued : x = Offer(t)
  BY DEF Offers
<1>2. t \in Task /\ state[t] = "queued" /\ x.task = t
  BY <1>1 DEF Queued, Offer
<1>3. contract[t].deadline \in Int /\ order[t] \in Int /\ place[t] \in Int /\ N \in Int
  BY <1>2, TaskCount DEF IInv, TypeOK
<1>4. x.key \in Int /\ x.place \in Int
  BY <1>1, <1>3 DEF Offer, PromotedPlace
<1>5. x.units = Units(Redecision(t)) /\ x.class = Class(t)
  BY <1>1 DEF Offer
<1>6. Units(Redecision(t)) \in 1 .. 3
  BY <1>2, RedecisionType, UnitsType DEF IInv
<1> QED
  BY <1>1, <1>2, <1>4, <1>5, <1>6

\* next_task starts at most one task.
LEMMA OneStarted ==
    ASSUME IInv, NEW t \in Started(Offers), NEW u \in Started(Offers)
    PROVE  t = u
<1>1. PICK c, x : c \in Tried(Offers) /\ x \in Startable(Offers, c) /\ x.task = t
  BY DEF Started
<1>2. PICK d, y : d \in Tried(Offers) /\ y \in Startable(Offers, d) /\ y.task = u
  BY DEF Started
<1>3. c = d
  <2>1. c \in PriorityClass /\ d \in PriorityClass
    BY <1>1, <1>2 DEF Tried
  <2>2. ~(Rank(c) < Rank(d)) /\ ~(Rank(d) < Rank(c))
    BY <1>1, <1>2, <2>1 DEF Tried
  <2> QED
    BY <2>1, <2>2 DEF Rank, PriorityClass, INTERACTIVE, STANDARD, DEFERRED_BATCH
<1>4. x \in Heads(Offers, c) /\ y \in Heads(Offers, c)
  BY <1>1, <1>2, <1>3 DEF Startable
<1>5. x \in Admitted(Offers, c) /\ y \in Admitted(Offers, c)
  BY <1>4 DEF Heads
<1>6. (x = y \/ Before(x, y)) /\ (y = x \/ Before(y, x))
  BY <1>4, <1>5 DEF Heads
<1>7. x \in Offers /\ y \in Offers
  BY <1>5 DEF Admitted
<1>8. x.key \in Int /\ y.key \in Int /\ x.place \in Int /\ y.place \in Int
  BY <1>7, OfferType
<1> QED
  BY <1>1, <1>2, <1>6, <1>8 DEF Before

\* What is started was queued and ready, is admitted on its redecision, fits
\* the free slots, and respects the deferred limit.
LEMMA StartedFits ==
    ASSUME IInv, NEW t \in Started(Offers)
    PROVE  /\ t \in Task /\ state[t] = "queued"
           /\ CheckAdmission(contract[t], Redecision(t))
           /\ InFlightCount + Units(Redecision(t)) <= Capacity
           /\ Class(t) = DEFERRED_BATCH => InFlightCount < DeferredLimit
<1>1. PICK c, x : c \in Tried(Offers) /\ x \in Startable(Offers, c) /\ x.task = t
  BY DEF Started
<1>2. x \in Offers /\ x.class = c /\ x.admitted /\ CanUseSlot(Offers, c, x.units)
  BY <1>1 DEF Startable, Heads, Admitted
<1>3. /\ t \in Task /\ state[t] = "queued" /\ x = Offer(t)
      /\ x.units = Units(Redecision(t)) /\ x.class = Class(t)
  BY <1>1, <1>2, OfferType
<1>4. CheckAdmission(contract[t], Redecision(t))
  BY <1>2, <1>3 DEF Offer
<1> QED
  BY <1>2, <1>3, <1>4 DEF CanUseSlot

-----------------------------------------------------------------------------
(* The shape of a step: nothing enters flight, or one started task does *)

\* Running tasks of the next state ran already, on the same decision.
Unstarted(S) ==
    \A u \in S : state'[u] = "in-flight" =>
        state[u] = "in-flight" /\ decision'[u] = decision[u]

Starting(t) ==
    /\ t \in Started(Offers)
    /\ state'[t] = "in-flight" /\ decision'[t] = Redecision(t) /\ effective'[t] = Class(t)
    /\ UNCHANGED <<now, contract>>

LEMMA DispatchShape ==
    ASSUME IInv, NextTask
    PROVE  \/ Unstarted(Task)
           \/ \E t \in Task : Starting(t) /\ Unstarted(Task \ {t})
<1>1. PICK dropped, blocked : Dispatch(Started(Offers), dropped, blocked)
  BY DEF NextTask
<1>2. ASSUME NEW u \in Task, u \notin Started(Offers), state'[u] = "in-flight"
      PROVE  state[u] = "in-flight" /\ decision'[u] = decision[u]
  <2>1. state[u] = "in-flight" /\ u \notin dropped
    BY <1>1, <1>2 DEF Dispatch, IInv, TypeOK
  <2>2. Class(u) = effective[u]
    BY <2>1 DEF Class, Escalated
  <2> QED
    BY <1>1, <1>2, <2>1, <2>2 DEF Dispatch, PromotedPlan
<1>3. CASE Started(Offers) = {}
  BY <1>2, <1>3 DEF Unstarted
<1>4. CASE Started(Offers) # {}
  <2>1. PICK t : t \in Started(Offers)
    BY <1>4
  <2>2. t \in Task /\ \A u \in Task \ {t} : u \notin Started(Offers)
    BY <2>1, OneStarted, StartedFits
  <2>3. Starting(t)
    BY <1>1, <2>1, <2>2 DEF Dispatch, Starting
  <2>4. Unstarted(Task \ {t})
    BY <1>2, <2>2 DEF Unstarted
  <2> QED
    BY <2>2, <2>3, <2>4
<1> QED
  BY <1>3, <1>4

LEMMA UpdateDeadlineShape ==
    ASSUME IInv, NEW t \in Task, NEW d \in Deadlines, UpdateDeadline(t, d)
    PROVE  Unstarted(Task)
<1>1. UNCHANGED state
  BY DEF UpdateDeadline
<1>2. ASSUME NEW u \in Task, state'[u] = "in-flight"
      PROVE  decision'[u] = decision[u]
  <2> DEFINE class(v) == Escalated(v, IF v = t THEN d ELSE contract[v].deadline)
  <2>1. state[u] = "in-flight" /\ class(u) = effective[u]
    BY <1>1, <1>2 DEF Escalated
  <2>2. PromotedPlan(u, class(u)) = decision[u]
    BY <2>1 DEF PromotedPlan
  <2>3. CASE state[t] = "queued"
    <3>1. decision'[u] = PromotedPlan(u, class(u))
      BY <2>1, <2>3 DEF UpdateDeadline
    <3> QED
      BY <2>2, <3>1
  <2>4. CASE UNCHANGED decision
    BY <2>4
  <2> QED
    BY <2>3, <2>4 DEF UpdateDeadline
<1> QED
  BY <1>1, <1>2 DEF Unstarted

LEMMA StepShape ==
    ASSUME IInv, [Next]_vars
    PROVE  \/ Unstarted(Task)
           \/ \E t \in Task : Starting(t) /\ Unstarted(Task \ {t})
<1>1. CASE NextTask
  BY <1>1, DispatchShape
<1>2. CASE Elapse \/ UNCHANGED vars
  BY <1>2 DEF Elapse, vars, Unstarted
<1>3. ASSUME NEW t \in Task, Submit(t) PROVE Unstarted(Task)
  BY <1>3 DEF Submit, Unstarted, IInv, TypeOK
<1>4. ASSUME NEW t \in Task, Complete(t) \/ Fail(t) PROVE Unstarted(Task)
  BY <1>4 DEF Complete, Fail, Finish, Unstarted, IInv, TypeOK
<1>5. ASSUME NEW t \in Task, Cancel(t) PROVE Unstarted(Task)
  BY <1>5 DEF Cancel, Unstarted, IInv, TypeOK
<1>6. ASSUME NEW t \in Task, Nudge(t) PROVE Unstarted(Task)
  BY <1>6 DEF Nudge, Unstarted, IInv, TypeOK
<1>7. ASSUME NEW t \in Task, NEW d \in Deadlines, UpdateDeadline(t, d) PROVE Unstarted(Task)
  BY <1>7, UpdateDeadlineShape
<1> QED
  BY <1>1, <1>2, <1>3, <1>4, <1>5, <1>6, <1>7 DEF Next

-----------------------------------------------------------------------------
(* Capacity *)

LEMMA IntervalCount == \A n \in 1 .. 3 : IsFiniteSet(1 .. n) /\ Cardinality(1 .. n) = n
<1>1. \A a, b \in Int : /\ IsFiniteSet(a .. b)
                        /\ Cardinality(a .. b) = IF a > b THEN 0 ELSE b - a + 1
  BY FS_Interval
<1>2. TAKE n \in 1 .. 3
<1>3. 1 \in Int /\ n \in Int
  OBVIOUS
<1>4. IsFiniteSet(1 .. n) /\ Cardinality(1 .. n) = IF 1 > n THEN 0 ELSE n - 1 + 1
  BY <1>1, <1>3, Zenon
<1> QED
  BY <1>4

\* Slots held by tasks that ran before are slots held before.
LEMMA SlotsShrink ==
    ASSUME IInv, NEW S \in SUBSET Task, NEW R \in SUBSET Task, S \subseteq R, Unstarted(S)
    PROVE  UNION {{t} \X (1 .. Units(decision'[t])) : t \in {u \in S : state'[u] = "in-flight"}}
             \subseteq Slots(R)
BY DEF Unstarted, Slots

\* One start adds the slots of one decision.
LEMMA SlotsGrow ==
    ASSUME NEW H, IsFiniteSet(H), NEW t \in Task, NEW n \in 1 .. 3
    PROVE  /\ IsFiniteSet(H \cup ({t} \X (1 .. n)))
           /\ Cardinality(H \cup ({t} \X (1 .. n))) <= Cardinality(H) + n
<1>1. IsFiniteSet(1 .. n) /\ Cardinality(1 .. n) = n
  BY IntervalCount
<1>2. IsFiniteSet({t}) /\ Cardinality({t}) = 1
  BY FS_Singleton
<1>3. IsFiniteSet({t} \X (1 .. n)) /\ Cardinality({t} \X (1 .. n)) = 1 * n
  BY <1>1, <1>2, FS_Product
<1>4. IsFiniteSet(H \cap ({t} \X (1 .. n)))
  BY FS_Intersection
<1>5. Cardinality(H \cap ({t} \X (1 .. n))) \in Nat /\ Cardinality(H) \in Nat
  BY <1>4, FS_CardinalityType
<1> QED
  BY <1>3, <1>5, FS_Union

\* The slots of a class, or of all tasks, after a start in it.
LEMMA SlotsAfterStart ==
    ASSUME IInv, NEW S \in SUBSET Task, NEW R \in SUBSET Task,
           NEW t \in Task, Starting(t), Unstarted(Task \ {t}), S \ {t} \subseteq R
    PROVE  UNION {{u} \X (1 .. Units(decision'[u])) : u \in {v \in S : state'[v] = "in-flight"}}
             \subseteq Slots(R) \cup ({t} \X (1 .. Units(Redecision(t))))
BY DEF Starting, Unstarted, Slots

LEMMA CapacityStep == IInv /\ CapacityRespected /\ [Next]_vars => CapacityRespected'
<1> SUFFICES ASSUME IInv, CapacityRespected, [Next]_vars PROVE CapacityRespected'
  OBVIOUS
<1> DEFINE after == UNION {{u} \X (1 .. Units(decision'[u])) :
                              u \in {v \in Task : state'[v] = "in-flight"}}
<1>1. InFlightCount' = Cardinality(after)
  BY DEF InFlightCount, Slots
<1>2. IsFiniteSet(Slots(Task)) /\ InFlightCount \in Nat /\ Capacity \in Nat
  BY SlotsType, CountType, SchedulerAssumption DEF IInv
<1>3. CASE Unstarted(Task)
  <2>1. after \subseteq Slots(Task)
    BY <1>3, SlotsShrink
  <2>2. Cardinality(after) <= Cardinality(Slots(Task)) /\ IsFiniteSet(after)
    BY <1>2, <2>1, FS_Subset
  <2>3. Cardinality(after) \in Nat
    BY <2>2, FS_CardinalityType
  <2> QED
    BY <1>1, <1>2, <2>2, <2>3 DEF CapacityRespected, InFlightCount
<1>4. ASSUME NEW t \in Task, Starting(t), Unstarted(Task \ {t})
      PROVE  CapacityRespected'
  <2> DEFINE n == Units(Redecision(t))
             grown == Slots(Task) \cup ({t} \X (1 .. n))
  <2>1. n \in 1 .. 3
    BY RedecisionType, UnitsType DEF IInv
  <2>2. after \subseteq grown
    BY <1>4, SlotsAfterStart
  <2>3. IsFiniteSet(grown) /\ Cardinality(grown) <= InFlightCount + n
    BY <1>2, <2>1, SlotsGrow DEF InFlightCount
  <2>4. InFlightCount + n <= Capacity
    BY <1>4, StartedFits DEF Starting
  <2>5. IsFiniteSet(after) /\ Cardinality(after) <= Cardinality(grown)
    BY <2>2, <2>3, FS_Subset
  <2>6. Cardinality(after) \in Nat /\ Cardinality(grown) \in Nat
    BY <2>3, <2>5, FS_CardinalityType
  <2> QED
    BY <1>1, <1>2, <2>1, <2>3, <2>4, <2>5, <2>6 DEF CapacityRespected
<1> QED
  BY <1>3, <1>4, StepShape

\* The calls in flight never exceed the capacity, whatever the redecisions ask.
THEOREM CapacityTheorem == Spec => []CapacityRespected
<1>1. Init => CapacityRespected
  <2> SUFFICES ASSUME Init PROVE CapacityRespected
    OBVIOUS
  <2>1. Slots(Task) = {}
    BY DEF Init, Slots
  <2> QED
    BY <2>1, FS_EmptySet, SchedulerAssumption DEF CapacityRespected, InFlightCount
<1> QED
  BY <1>1, CapacityStep, InvHolds, PTL DEF Spec

-----------------------------------------------------------------------------
(* What no step changes *)

\* No step changes what a contract pays for or asks of its execution.
LEMMA ContractKept ==
    ASSUME IInv, [Next]_vars, NEW u \in Task
    PROVE  /\ contract'[u].cap = contract[u].cap
           /\ contract'[u].quality = contract[u].quality
           /\ contract'[u].attention = contract[u].attention
<1> DEFINE Kept(c) == /\ c.cap = contract[u].cap /\ c.quality = contract[u].quality
                      /\ c.attention = contract[u].attention
<1>1. contract[u] \in TaskContract /\ contract \in [Task -> TaskContract]
  BY DEF IInv, TypeOK
<1>2. /\ Kept([contract[u] EXCEPT !.interactive = TRUE])
      /\ \A d : Kept([contract[u] EXCEPT !.deadline = d])
  BY <1>1 DEF TaskContract
<1>3. CASE UNCHANGED contract
  BY <1>3
<1>4. ASSUME NEW t \in Task, Nudge(t) PROVE Kept(contract'[u])
  <2>1. contract' = [contract EXCEPT ![t] = [contract[t] EXCEPT !.interactive = TRUE]]
    BY <1>4 DEF Nudge
  <2>2. contract'[u] = contract[u] \/ contract'[u] = [contract[u] EXCEPT !.interactive = TRUE]
    BY <1>1, <2>1
  <2> QED
    BY <1>2, <2>2
<1>5. ASSUME NEW t \in Task, NEW d \in Deadlines, UpdateDeadline(t, d) PROVE Kept(contract'[u])
  <2>1. contract' = [contract EXCEPT ![t] = [contract[t] EXCEPT !.deadline = d]]
    BY <1>5 DEF UpdateDeadline
  <2>2. contract'[u] = contract[u] \/ contract'[u] = [contract[u] EXCEPT !.deadline = d]
    BY <1>1, <2>1
  <2> QED
    BY <1>2, <2>2
<1>6. CASE NextTask \/ Elapse \/ UNCHANGED vars \/ \E t \in Task :
              Submit(t) \/ Complete(t) \/ Fail(t) \/ Cancel(t)
  BY <1>3, <1>6 DEF NextTask, Dispatch, Elapse, vars, Submit, Complete, Fail, Finish, Cancel
<1> QED
  BY <1>4, <1>5, <1>6 DEF Next

-----------------------------------------------------------------------------
(* Budgets *)

LEMMA WithinCapStep == IInv /\ RunningWithinCap /\ [Next]_vars => RunningWithinCap'
<1> SUFFICES ASSUME IInv, RunningWithinCap, [Next]_vars, NEW u \in Task, state'[u] = "in-flight"
             PROVE  CheckAdmission(contract'[u], decision'[u])
  BY DEF RunningWithinCap
<1>1. contract'[u].cap = contract[u].cap
  BY ContractKept
<1>2. CASE state[u] = "in-flight" /\ decision'[u] = decision[u]
  BY <1>1, <1>2 DEF RunningWithinCap, CheckAdmission
<1>3. CASE Starting(u)
  BY <1>1, <1>3, StartedFits DEF Starting, CheckAdmission
<1> QED
  BY <1>2, <1>3, StepShape DEF Unstarted

\* Every running task's settings are paid for by its cap, although they were
\* chosen again after its admission.
THEOREM WithinCapTheorem == Spec => []RunningWithinCap
<1>1. Init => RunningWithinCap
  BY DEF Init, RunningWithinCap
<1> QED
  BY <1>1, WithinCapStep, InvHolds, PTL DEF Spec

-----------------------------------------------------------------------------
(* Settings *)

\* Below the high load every mode selects from the quality floor and the
\* attention profile alone.
LEMMA SettingsByContract ==
    ASSUME NEW c, NEW d, NEW f, NEW g,
           c.quality = d.quality, c.attention = d.attention, ~HighLoad(f), ~HighLoad(g)
    PROVE  /\ Decide(Mode, c, f).model = Decide(Mode, d, g).model
           /\ Decide(Mode, c, f).effort = Decide(Mode, d, g).effort
           /\ Decide(Mode, c, f).template = Decide(Mode, d, g).template
           /\ Decide(Mode, c, f).drafts = Decide(Mode, d, g).drafts
<1>1. Selected(c, f) = Selected(d, g)
  BY UndegradedByContract
<1> DEFINE Same(x, y) == /\ x.model = y.model /\ x.effort = y.effort
                         /\ x.template = y.template /\ x.drafts = y.drafts
<1>2. Same(PolicyEngine(c, f), PolicyEngine(d, g))
  BY <1>1 DEF PolicyEngine, Decision
<1>3. Same(StaticBaselinePolicy(c, f), StaticBaselinePolicy(d, g))
  BY DEF StaticBaselinePolicy, Decision
<1>4. \A x : /\ x \in {PolicyEngine(c, f), PolicyEngine(d, g)}
             => Same([x EXCEPT !.class = STANDARD, !.at = f.now], x)
                /\ Same([x EXCEPT !.class = STANDARD, !.at = g.now], x)
  BY DEF PolicyEngine, Decision
<1>5. Same(ContractFifoPolicy(c, f), ContractFifoPolicy(d, g))
  BY <1>2, <1>4 DEF ContractFifoPolicy
<1> QED
  BY <1>2, <1>3, <1>5 DEF Decide

\* A start on at most six slots finds less than the high load.
LEMMA StartBelowHighLoad ==
    ASSUME IInv, NEW t \in Started(Offers), Capacity <= 6
    PROVE  ~HighLoad(Fleet(FALSE))
<1>1. InFlightCount + Units(Redecision(t)) <= Capacity /\ t \in Task
  BY StartedFits
<1>2. Units(Redecision(t)) \in 1 .. 3
  BY <1>1, RedecisionType, UnitsType DEF IInv
<1>3. InFlightCount \in Nat /\ Capacity \in Nat
  BY CountType, SchedulerAssumption DEF IInv
<1> QED
  BY <1>1, <1>2, <1>3 DEF HighLoad, Fleet

\* The settings a contract gets on an idle fleet are a matter of its quality
\* floor and attention profile.
LEMMA UndegradedStep == IInv /\ RunningUndegraded /\ [Next]_vars => RunningUndegraded'
<1> SUFFICES ASSUME IInv, RunningUndegraded, [Next]_vars, Capacity <= 6,
                    NEW u \in Task, state'[u] = "in-flight"
             PROVE  LET alone == Decide(Mode, contract'[u], [Fleet(FALSE)' EXCEPT !.inFlight = 0]) IN
                    /\ decision'[u].model = alone.model /\ decision'[u].effort = alone.effort
                    /\ decision'[u].template = alone.template
                    /\ decision'[u].drafts = alone.drafts
  BY DEF RunningUndegraded
<1> DEFINE idle == [Fleet(FALSE) EXCEPT !.inFlight = 0]
<1>1. /\ contract'[u].quality = contract[u].quality
      /\ contract'[u].attention = contract[u].attention
  BY ContractKept
<1>2. ~HighLoad(idle) /\ ~HighLoad(idle')
  BY SchedulerAssumption DEF HighLoad, Fleet
<1> DEFINE before == Decide(Mode, contract[u], idle)
           after == Decide(Mode, contract'[u], idle')
<1>3. /\ before.model = after.model /\ before.effort = after.effort
      /\ before.template = after.template /\ before.drafts = after.drafts
  BY <1>1, <1>2, SettingsByContract
<1>4. CASE state[u] = "in-flight" /\ decision'[u] = decision[u]
  BY <1>3, <1>4 DEF RunningUndegraded
<1>5. CASE Starting(u)
  <2> DEFINE plan == Decide(Mode, contract[u], Fleet(FALSE))
  <2>1. ~HighLoad(Fleet(FALSE))
    BY <1>5, StartBelowHighLoad DEF Starting
  <2>2. /\ plan.model = before.model /\ plan.effort = before.effort
        /\ plan.template = before.template /\ plan.drafts = before.drafts
    <3>1. \A f, g : ~HighLoad(f) /\ ~HighLoad(g) =>
             /\ Decide(Mode, contract[u], f).model = Decide(Mode, contract[u], g).model
             /\ Decide(Mode, contract[u], f).effort = Decide(Mode, contract[u], g).effort
             /\ Decide(Mode, contract[u], f).template = Decide(Mode, contract[u], g).template
             /\ Decide(Mode, contract[u], f).drafts = Decide(Mode, contract[u], g).drafts
      BY SettingsByContract
    <3> HIDE DEF idle
    <3> QED
      BY <1>2, <2>1, <3>1
  <2>3. plan \in DecisionRecord
    BY PlanType DEF IInv, TypeOK
  <2>4. /\ Redecision(u).model = plan.model /\ Redecision(u).effort = plan.effort
        /\ Redecision(u).template = plan.template /\ Redecision(u).drafts = plan.drafts
    BY <2>3 DEF Redecision, DecisionRecord
  <2>5. decision'[u] = Redecision(u)
    BY <1>5 DEF Starting
  <2> QED
    BY <1>3, <2>2, <2>4, <2>5
<1> QED
  BY <1>4, <1>5, StepShape DEF Unstarted

\* On at most six slots nothing runs degraded: what runs is what the
\* contract alone selects, whatever the load was at any earlier decision.
THEOREM UndegradedTheorem == Spec => []RunningUndegraded
<1>1. Init => RunningUndegraded
  BY DEF Init, RunningUndegraded
<1> QED
  BY <1>1, UndegradedStep, InvHolds, PTL DEF Spec

-----------------------------------------------------------------------------
(* The deferred class *)

\* A running task changes its class only for the top one.
LEMMA RunningClass ==
    ASSUME IInv, [Next]_vars, NEW u \in Task, state[u] = "in-flight"
    PROVE  effective'[u] \in {effective[u], INTERACTIVE}
<1>1. CASE NextTask
  <2>1. Class(u) = effective[u]
    BY DEF Class, Escalated
  <2> QED
    BY <1>1, <2>1 DEF NextTask, Dispatch
<1>2. CASE Elapse \/ UNCHANGED vars \/ \E t \in Task : Complete(t) \/ Fail(t) \/ Cancel(t)
  BY <1>2 DEF Elapse, vars, Complete, Fail, Finish, Cancel
<1>3. ASSUME NEW t \in Task, Submit(t) PROVE effective'[u] = effective[u]
  <2>1. t # u
    BY <1>3 DEF Submit
  <2> QED
    BY <1>3, <2>1 DEF Submit, IInv, TypeOK
<1>4. ASSUME NEW t \in Task, Nudge(t) PROVE effective'[u] \in {effective[u], INTERACTIVE}
  BY <1>4 DEF Nudge, IInv, TypeOK
<1>5. ASSUME NEW t \in Task, NEW d \in Deadlines, UpdateDeadline(t, d)
      PROVE  effective'[u] = effective[u]
  <2>1. \A e : Escalated(u, e) = effective[u]
    BY DEF Escalated
  <2>2. CASE state[t] = "queued"
    BY <1>5, <2>1, <2>2 DEF UpdateDeadline
  <2>3. CASE state[t] = "in-flight"
    BY <1>5, <2>3 DEF UpdateDeadline
  <2> QED
    BY <1>5, <2>2, <2>3 DEF UpdateDeadline
<1> QED
  BY <1>1, <1>2, <1>3, <1>4, <1>5 DEF Next

LEMMA BatchShareStep == IInv /\ BatchShare /\ [Next]_vars => BatchShare'
<1> SUFFICES ASSUME IInv, BatchShare, [Next]_vars PROVE BatchShare'
  OBVIOUS
<1> DEFINE class == {t \in Task : effective[t] = DEFERRED_BATCH}
           after == {t \in Task : effective'[t] = DEFERRED_BATCH}
           left == {t \in after : state'[t] = "in-flight"}
           slots == UNION {{t} \X (1 .. Units(decision'[t])) :
                              t \in {u \in left : state'[u] = "in-flight"}}
<1>1. InFlightByClass(DEFERRED_BATCH)' = Cardinality(slots)
  <2>1. {u \in left : state'[u] = "in-flight"} = {u \in after : state'[u] = "in-flight"}
    OBVIOUS
  <2> QED
    BY <2>1 DEF InFlightByClass, Slots
<1>2. InFlightByClass(DEFERRED_BATCH) = Cardinality(Slots(class))
  BY DEF InFlightByClass
<1>3. /\ IsFiniteSet(Slots(class)) /\ Cardinality(Slots(class)) \in Nat
      /\ IsFiniteSet(Slots(Task)) /\ InFlightCount \in Nat
      /\ Capacity \in Nat /\ DeferredLimit \in Nat
  BY SlotsType, CountType, SchedulerAssumption DEF IInv
<1>4. left \subseteq Task /\ class \subseteq Task
  OBVIOUS
<1>5. ASSUME Unstarted(left) PROVE BatchShare'
  <2>1. left \subseteq class
    BY <1>5, RunningClass DEF Unstarted, INTERACTIVE, DEFERRED_BATCH
  <2>2. slots \subseteq Slots(class)
    BY <1>4, <1>5, <2>1, SlotsShrink
  <2>3. Cardinality(slots) <= Cardinality(Slots(class)) /\ IsFiniteSet(slots)
    BY <1>3, <2>2, FS_Subset
  <2>4. Cardinality(slots) \in Nat
    BY <2>3, FS_CardinalityType
  <2> HIDE DEF slots
  <2> QED
    BY <1>1, <1>2, <1>3, <2>3, <2>4 DEF BatchShare
<1>6. ASSUME NEW t \in Task, Starting(t), Unstarted(Task \ {t}) PROVE BatchShare'
  <2>1. CASE t \notin left
    <3>1. Unstarted(left)
      BY <1>4, <1>6, <2>1 DEF Unstarted
    <3> QED
      BY <1>5, <3>1
  <2>2. CASE t \in left
    <3> DEFINE n == Units(Redecision(t))
               grown == Slots(Task) \cup ({t} \X (1 .. n))
    <3>1. Class(t) = DEFERRED_BATCH
      BY <1>6, <2>2 DEF Starting
    <3>2. InFlightCount < DeferredLimit
      BY <1>6, <3>1, StartedFits DEF Starting
    <3>3. n \in 1 .. 3
      BY RedecisionType, UnitsType DEF IInv
    <3>4. slots \subseteq grown
      BY <1>4, <1>6, SlotsAfterStart
    <3>5. IsFiniteSet(grown) /\ Cardinality(grown) <= InFlightCount + n
      BY <1>3, <3>3, SlotsGrow DEF InFlightCount
    <3>6. IsFiniteSet(slots) /\ Cardinality(slots) <= Cardinality(grown)
      BY <3>4, <3>5, FS_Subset
    <3>7. Cardinality(slots) \in Nat /\ Cardinality(grown) \in Nat
      BY <3>5, <3>6, FS_CardinalityType
    <3> HIDE DEF slots, grown, n
    <3> QED
      BY <1>1, <1>3, <3>2, <3>3, <3>5, <3>6, <3>7 DEF BatchShare
  <2> QED
    BY <2>1, <2>2
<1>7. CASE Unstarted(Task)
  BY <1>4, <1>5, <1>7 DEF Unstarted
<1> QED
  BY <1>6, <1>7, StepShape

\* Deferred work holds fewer slots than its limit and one task more.
THEOREM BatchShareTheorem == Spec => []BatchShare
<1>1. Init => BatchShare
  <2> SUFFICES ASSUME Init PROVE BatchShare
    OBVIOUS
  <2>1. Slots({t \in Task : effective[t] = DEFERRED_BATCH}) = {}
    BY DEF Init, Slots
  <2>2. InFlightByClass(DEFERRED_BATCH) = 0
    BY <2>1, FS_EmptySet DEF InFlightByClass
  <2>3. DeferredLimit \in Nat
    BY SchedulerAssumption
  <2> QED
    BY <2>2, <2>3 DEF BatchShare
<1> QED
  BY <1>1, BatchShareStep, InvHolds, PTL DEF Spec

-----------------------------------------------------------------------------
(* The task lifecycle: each step is one lifecycle step or a stutter, with  *)
(* the slots a task occupies as the slots it holds.                        *)

\* The refinement mapping of Lifecycle.
Holding == [t \in Task |-> IF state[t] = "in-flight" THEN Units(decision[t]) ELSE 0]

\* The lifecycle counts the slots that InFlightCount counts.
LEMMA HeldIsCount ==
    ASSUME NEW s \in [Task -> TaskState], NEW d \in [Task -> DecisionRecord]
    PROVE  UNION {{t} \X (1 .. [u \in Task |->
                      IF s[u] = "in-flight" THEN Units(d[u]) ELSE 0][t]) : t \in Task}
             = UNION {{t} \X (1 .. Units(d[t])) : t \in {u \in Task : s[u] = "in-flight"}}
<1>1. \A t \in Task : {t} \X (1 .. 0) = {}
  OBVIOUS
<1> QED
  BY <1>1

\* The instance's cardinality is the one of FiniteSets.
LEMMA SameCardinality == \A S : Lifecycle!Cardinality(S) = Cardinality(S)
BY DEF Cardinality, Lifecycle!Cardinality

\* A step that neither starts nor ends anything holds what was held.
LEMMA HoldingKept ==
    ASSUME IInv, Unstarted(Task), \A u \in Task : state[u] = "in-flight" => state'[u] = "in-flight"
    PROVE  Holding' = Holding
BY DEF Unstarted, Holding

LEMMA HeldWithin ==
    ASSUME IInv', CapacityRespected'
    PROVE  Lifecycle!Held(Holding') <= Capacity
<1>1. state' \in [Task -> TaskState] /\ decision' \in [Task -> DecisionRecord]
  BY DEF IInv, TypeOK
<1>2. Lifecycle!Held(Holding') = InFlightCount'
  BY <1>1, HeldIsCount, SameCardinality DEF Lifecycle!Held, InFlightCount, Slots, Holding
<1> QED
  BY <1>2 DEF CapacityRespected

\* next_task: the drained offers are dropped, the started one takes its slots.
LEMMA DispatchRefines ==
    ASSUME IInv, IInv', CapacityRespected', NextTask
    PROVE  Lifecycle!Dispatch
<1>1. PICK blocked : Dispatch(Started(Offers), Dropped(Offers), blocked)
  BY DEF NextTask
<1> DEFINE dropped == Dropped(Offers) \ Started(Offers)
<1>2. dropped \subseteq {t \in Task : state[t] = "queued"}
  <2>1. ASSUME NEW u \in Dropped(Offers) PROVE u \in Task /\ state[u] = "queued"
    <3>1. PICK c, x : x \in Drained(Offers, c) /\ x.task = u
      BY <2>1 DEF Dropped
    <3>2. x \in Offers
      BY <3>1 DEF Drained, Ready
    <3> QED
      BY <3>1, <3>2, OfferType
  <2> QED
    BY <2>1
<1>3. ASSUME NEW u \in Task, state[u] = "in-flight" PROVE state'[u] = "in-flight"
  BY <1>1, <1>2, <1>3 DEF Dispatch
<1>4. CASE Started(Offers) = {}
  <2>1. state' = [t \in Task |-> IF t \in dropped THEN "rejected" ELSE state[t]]
    BY <1>1, <1>4 DEF Dispatch
  <2>2. Unstarted(Task)
    BY <1>4, DispatchShape DEF Starting
  <2>3. Holding' = Holding
    BY <1>3, <2>2, HoldingKept
  <2> HIDE DEF dropped
  <2> QED
    BY <1>2, <2>1, <2>3 DEF Lifecycle!Dispatch, Holding
<1>5. CASE Started(Offers) # {}
  <2>1. PICK t : t \in Started(Offers)
    BY <1>5
  <2>2. t \in Task /\ state[t] = "queued" /\ \A u \in Started(Offers) : u = t
    BY <2>1, OneStarted, StartedFits
  <2> DEFINE units == Units(Redecision(t))
  <2>3. units \in 1 .. Capacity
    <3>1. units \in 1 .. 3
      BY <2>2, RedecisionType, UnitsType DEF IInv
    <3>2. InFlightCount \in Nat /\ Capacity \in Nat /\ InFlightCount + units <= Capacity
      BY <2>1, CountType, StartedFits, SchedulerAssumption DEF IInv
    <3> HIDE DEF units
    <3> QED
      BY <3>1, <3>2
  <2>4. state'[t] = "in-flight" /\ decision'[t] = Redecision(t)
    BY <1>1, <2>1, <2>2 DEF Dispatch
  <2>5. Unstarted(Task \ {t})
    BY <2>1, <2>2, <2>4, DispatchShape DEF Starting, Unstarted
  <2>6. Holding' = [Holding EXCEPT ![t] = units]
    <3>1. ASSUME NEW u \in Task PROVE Holding'[u] = IF u = t THEN units ELSE Holding[u]
      BY <1>3, <2>4, <2>5 DEF Unstarted, Holding
    <3> QED
      BY <3>1 DEF Holding
  <2>7. state' = [u \in Task |-> IF u = t THEN "in-flight"
                                ELSE IF u \in dropped THEN "rejected" ELSE state[u]]
    BY <1>1, <2>1, <2>2 DEF Dispatch
  <2>8. t \in Task \ dropped
    BY <2>1, <2>2
  <2>9. Lifecycle!Held(Holding') <= Capacity
    BY HeldWithin
  <2> HIDE DEF dropped, units
  <2> QED
    BY <1>2, <2>2, <2>3, <2>6, <2>7, <2>8, <2>9 DEF Lifecycle!Dispatch, Holding
<1> QED
  BY <1>4, <1>5

\* Every step is a lifecycle step or a stutter.
LEMMA StepRefines ==
    ASSUME IInv, IInv', CapacityRespected', [Next]_vars
    PROVE  [Lifecycle!Next]_(Lifecycle!vars)
<1> USE DEF Holding
<1>1. CASE NextTask
  BY <1>1, DispatchRefines DEF Lifecycle!Next
<1>2. ASSUME UNCHANGED state, Unstarted(Task) PROVE UNCHANGED Lifecycle!vars
  BY <1>2, HoldingKept DEF Lifecycle!vars
<1>3. ASSUME NEW t \in Task, Submit(t) PROVE Lifecycle!Arrive(t)
  <2>1. /\ state[t] = "new" /\ \E s \in {"queued", "rejected"} : state' = [state EXCEPT ![t] = s]
        /\ \A u \in Task \ {t} : decision'[u] = decision[u]
    BY <1>3 DEF Submit, IInv, TypeOK
  <2>2. Holding' = Holding
    BY <2>1 DEF IInv, TypeOK
  <2> QED
    BY <2>1, <2>2 DEF Lifecycle!Arrive
<1>4. ASSUME NEW t \in Task, Complete(t) \/ Fail(t) PROVE Lifecycle!Release(t)
  <2>1. /\ state[t] = "in-flight" /\ UNCHANGED decision
        /\ \E s \in {"completed", "failed"} : state' = [state EXCEPT ![t] = s]
    BY <1>4 DEF Complete, Fail, Finish
  <2>2. Holding' = [Holding EXCEPT ![t] = 0]
    BY <2>1 DEF IInv, TypeOK
  <2> QED
    BY <2>1, <2>2 DEF Lifecycle!Release
<1>5. ASSUME NEW t \in Task, Cancel(t) PROVE Lifecycle!Withdraw(t)
  <2>1. /\ state[t] = "queued" /\ state' = [state EXCEPT ![t] = "cancelled"]
        /\ UNCHANGED decision
    BY <1>5 DEF Cancel
  <2>2. Holding' = Holding
    BY <2>1 DEF IInv, TypeOK
  <2> QED
    BY <2>1, <2>2 DEF Lifecycle!Withdraw
<1>6. ASSUME NEW t \in Task, Nudge(t) PROVE UNCHANGED state /\ Unstarted(Task)
  BY <1>6 DEF Nudge, Unstarted, IInv, TypeOK
<1>7. ASSUME NEW t \in Task, NEW d \in Deadlines, UpdateDeadline(t, d)
      PROVE  UNCHANGED state /\ Unstarted(Task)
  BY <1>7, UpdateDeadlineShape DEF UpdateDeadline
<1>8. CASE Elapse \/ UNCHANGED vars
  BY <1>2, <1>8 DEF Elapse, vars, Unstarted
<1> QED
  BY <1>1, <1>2, <1>3, <1>4, <1>5, <1>6, <1>7, <1>8 DEF Next, Lifecycle!Next

\* The scheduler keeps what TaskLifecycle promises the gateway: a task is
\* admitted or refused once, leaves the queue once, keeps its slots from its
\* dispatch to its end, and the slots held stay within the capacity.
THEOREM LifecycleTheorem == Spec => ImplementsLifecycle
<1>1. Init => Lifecycle!Init
  BY DEF Init, Lifecycle!Init
<1>2. IInv /\ IInv' /\ CapacityRespected' /\ [Next]_vars => [Lifecycle!Next]_(Lifecycle!vars)
  BY StepRefines
<1> QED
  BY <1>1, <1>2, InvHolds, CapacityTheorem, PTL DEF Spec, ImplementsLifecycle, Lifecycle!Spec

-----------------------------------------------------------------------------
(* When tasks may start.  The four events that rewrite class and start of  *)
(* a task are told apart first (TaskStep); the invariant follows from what *)
(* each of them leaves behind.                                             *)

Active(t) == state[t] \in {"queued", "in-flight"}

\* What holds of a task is inductive only together with: whatever has
\* started was ready, so that a nudge of running work finds it ready.
StartedReady == \A t \in Task : state[t] = "in-flight" => decision[t].at <= now

Timing == StartedReady /\ HumanWaitingIsInteractive /\ PostponedIsPatient

-----------------------------------------------------------------------------
(* What a step may do to a task that is active after it *)

Untouched(u) ==
    /\ state'[u] = state[u] /\ contract'[u] = contract[u]
    /\ decision'[u] = decision[u] /\ effective'[u] = effective[u]

\* A promotion or a start.
MadeReady(u) ==
    /\ state[u] = "queued" /\ contract'[u] = contract[u]
    /\ decision'[u].at = now /\ effective'[u] = Escalated(u, contract[u].deadline)

\* A start in a mode that does not escalate.
StartedAsIs(u) ==
    /\ state[u] = "queued" /\ contract'[u] = contract[u]
    /\ decision'[u].at = now /\ effective'[u] = effective[u]

\* A plan for the contract it now has: submission, nudge, new deadline.
PlannedAnew(u) ==
    /\ state'[u] = "queued"
    /\ decision'[u] = Decide(Mode, contract'[u], Fleet(TRUE))
    /\ effective'[u] = decision'[u].class

\* A nudge or a new deadline that met running work.
Relabelled(u) ==
    /\ state[u] = "in-flight" /\ state'[u] = "in-flight" /\ decision'[u] = decision[u]
    /\ \/ effective'[u] = INTERACTIVE
       \/ effective'[u] = effective[u] /\ contract'[u].interactive = contract[u].interactive

Move(u) ==
    Untouched(u) \/ MadeReady(u) \/ StartedAsIs(u) \/ PlannedAnew(u) \/ Relabelled(u)

LEMMA RedecisionNow ==
    ASSUME IInv, NEW u \in Task
    PROVE  Redecision(u).at = now
<1>1. Decide(Mode, contract[u], Fleet(FALSE)) \in DecisionRecord
  BY PlanType DEF IInv, TypeOK
<1> QED
  BY <1>1 DEF Redecision, DecisionRecord

\* A task is promoted, and ready at once, or left as it is.
LEMMA PromotionCases ==
    ASSUME IInv, NEW u \in Task, NEW class
    PROVE  \/ class = effective[u] /\ PromotedPlan(u, class) = decision[u]
           \/ class # effective[u] /\ PromotedPlan(u, class).at = now
<1>1. decision[u] \in DecisionRecord
  BY DEF IInv, TypeOK
<1> QED
  BY <1>1 DEF PromotedPlan, DecisionRecord

LEMMA DispatchMoves ==
    ASSUME IInv, NEW u \in Task, NEW blocked,
           Dispatch(Started(Offers), Dropped(Offers), blocked),
           state'[u] \in {"queued", "in-flight"}
    PROVE  Untouched(u) \/ MadeReady(u) \/ StartedAsIs(u)
<1>1. contract'[u] = contract[u] /\ effective'[u] = Class(u)
  BY DEF Dispatch
<1>2. CASE u \in Started(Offers)
  <2>1. state[u] = "queued" /\ decision'[u].at = now
    BY <1>2, StartedFits, RedecisionNow DEF Dispatch
  <2> QED
    BY <1>1, <2>1 DEF MadeReady, StartedAsIs, Class
<1>3. CASE u \notin Started(Offers)
  <2>1. u \notin Dropped(Offers) /\ state'[u] = state[u]
    BY <1>3 DEF Dispatch
  <2>2. decision'[u] = PromotedPlan(u, Class(u))
    BY <1>3, <2>1 DEF Dispatch
  <2>3. CASE Class(u) = effective[u]
    BY <1>1, <2>1, <2>2, <2>3 DEF Untouched, PromotedPlan
  <2>4. CASE Class(u) # effective[u]
    <3>1. state[u] = "queued" /\ Class(u) = Escalated(u, contract[u].deadline)
      BY <2>4 DEF Class, Escalated
    <3>2. decision'[u].at = now
      BY <2>2, <2>4, PromotionCases
    <3> QED
      BY <1>1, <3>1, <3>2 DEF MadeReady
  <2> QED
    BY <2>3, <2>4
<1> QED
  BY <1>2, <1>3

LEMMA UpdateDeadlineMoves ==
    ASSUME IInv, NEW t \in Task, NEW d \in Deadlines, UpdateDeadline(t, d), NEW u \in Task,
           state'[u] \in {"queued", "in-flight"}
    PROVE  Move(u) /\ (u # t => Untouched(u) \/ MadeReady(u))
<1> DEFINE revised == [contract[t] EXCEPT !.deadline = d]
           class(v) == Escalated(v, IF v = t THEN d ELSE contract[v].deadline)
<1>1. /\ contract' = [contract EXCEPT ![t] = revised] /\ UNCHANGED <<now, state, order>>
      /\ contract \in [Task -> TaskContract]
  BY DEF UpdateDeadline, IInv, TypeOK
<1>2. revised.interactive = contract[t].interactive
  BY <1>1 DEF TaskContract
<1>3. CASE state[t] = "queued"
  <2>1. /\ decision' = [v \in Task |-> IF v = t THEN Decide(Mode, revised, Fleet(TRUE))
                                       ELSE PromotedPlan(v, class(v))]
        /\ effective' = [v \in Task |-> IF v = t THEN Decide(Mode, revised, Fleet(TRUE)).class
                                        ELSE class(v)]
    BY <1>3 DEF UpdateDeadline
  <2>2. CASE u = t
    BY <1>1, <1>3, <2>1, <2>2 DEF Move, PlannedAnew
  <2>3. CASE u # t
    <3>1. /\ contract'[u] = contract[u] /\ class(u) = Escalated(u, contract[u].deadline)
          /\ decision'[u] = PromotedPlan(u, class(u)) /\ effective'[u] = class(u)
      BY <1>1, <2>1, <2>3
    <3>2. CASE class(u) = effective[u]
      BY <1>1, <3>1, <3>2 DEF Move, Untouched, PromotedPlan
    <3>3. CASE class(u) # effective[u]
      <4>1. state[u] = "queued"
        BY <3>3, <1>1 DEF Escalated
      <4>2. decision'[u].at = now
        BY <3>1, <3>3, PromotionCases
      <4> QED
        BY <3>1, <4>1, <4>2 DEF Move, MadeReady
    <3> QED
      BY <3>2, <3>3
  <2> QED
    BY <2>2, <2>3
<1>4. CASE state[t] = "in-flight" /\ UNCHANGED <<decision, effective, place>>
  <2>1. CASE u = t
    BY <1>1, <1>2, <1>4, <2>1 DEF Move, Relabelled
  <2>2. CASE u # t
    BY <1>1, <1>4, <2>2 DEF Move, Untouched
  <2> QED
    BY <2>1, <2>2
<1> QED
  BY <1>3, <1>4 DEF UpdateDeadline

LEMMA NudgeMoves ==
    ASSUME IInv, NEW t \in Task, Nudge(t), NEW u \in Task
    PROVE  /\ Move(u) /\ (u # t => Untouched(u))
           /\ contract'[t].interactive /\ (state[t] = "queued" => PlannedAnew(t))
<1> DEFINE revealed == [contract[t] EXCEPT !.interactive = TRUE]
<1>1. /\ contract' = [contract EXCEPT ![t] = revealed] /\ UNCHANGED <<now, state, order>>
      /\ contract \in [Task -> TaskContract]
      /\ decision \in [Task -> DecisionRecord] /\ effective \in [Task -> PriorityClass]
  BY DEF Nudge, IInv, TypeOK
<1>2. ASSUME /\ state[t] = "queued"
             /\ decision' = [decision EXCEPT ![t] = Decide(Mode, revealed, Fleet(TRUE))]
             /\ effective' = [effective EXCEPT ![t] = Decide(Mode, revealed, Fleet(TRUE)).class]
      PROVE  Move(u) /\ (u # t => Untouched(u))
  <2>1. CASE u = t
    BY <1>1, <1>2, <2>1 DEF Move, PlannedAnew
  <2>2. CASE u # t
    BY <1>1, <1>2, <2>2 DEF Move, Untouched
  <2> QED
    BY <2>1, <2>2
<1>3. ASSUME /\ state[t] = "in-flight" /\ effective' = [effective EXCEPT ![t] = INTERACTIVE]
             /\ UNCHANGED <<decision, place>>
      PROVE  Move(u) /\ (u # t => Untouched(u))
  <2>1. CASE u = t
    BY <1>1, <1>3, <2>1 DEF Move, Relabelled
  <2>2. CASE u # t
    BY <1>1, <1>3, <2>2 DEF Move, Untouched
  <2> QED
    BY <2>1, <2>2
<1>4. contract'[t].interactive
  BY <1>1 DEF TaskContract
<1>5. state[t] = "queued" => PlannedAnew(t)
  <2> SUFFICES ASSUME state[t] = "queued" PROVE PlannedAnew(t)
    OBVIOUS
  <2>1. /\ decision' = [decision EXCEPT ![t] = Decide(Mode, revealed, Fleet(TRUE))]
        /\ effective' = [effective EXCEPT ![t] = Decide(Mode, revealed, Fleet(TRUE)).class]
    BY DEF Nudge
  <2> QED
    BY <1>1, <2>1 DEF PlannedAnew
<1> QED
  BY <1>2, <1>3, <1>4, <1>5 DEF Nudge

\* Every step does one of the five things to every task it leaves active,
\* and does them at a clock that stands unless nothing is touched.
LEMMA TaskStep ==
    ASSUME IInv, [Next]_vars, NEW u \in Task, state'[u] \in {"queued", "in-flight"}
    PROVE  Move(u) /\ (now' = now \/ (now' = now + 1 /\ Untouched(u)))
<1>1. CASE NextTask
  <2>1. PICK blocked : Dispatch(Started(Offers), Dropped(Offers), blocked)
    BY <1>1 DEF NextTask
  <2> QED
    BY <2>1, DispatchMoves DEF Move, Dispatch
<1>2. CASE Elapse \/ UNCHANGED vars
  BY <1>2 DEF Elapse, vars, Move, Untouched
<1>3. ASSUME NEW t \in Task, Submit(t) PROVE Move(u) /\ now' = now
  <2> DEFINE plan == Decide(Mode, contract[t], Fleet(TRUE))
  <2>1. /\ decision' = [decision EXCEPT ![t] = plan]
        /\ effective' = [effective EXCEPT ![t] = plan.class]
        /\ UNCHANGED <<now, contract>>
        /\ \E s \in {"queued", "rejected"} : state' = [state EXCEPT ![t] = s]
    BY <1>3 DEF Submit
  <2> HIDE DEF plan
  <2>2. CASE u = t
    <3>1. decision'[u] = plan /\ effective'[u] = plan.class /\ state'[u] = "queued"
      BY <2>1, <2>2 DEF IInv, TypeOK
    <3> QED
      BY <2>1, <2>2, <3>1 DEF Move, PlannedAnew, plan
  <2>3. CASE u # t
    BY <2>1, <2>3 DEF Move, Untouched, IInv, TypeOK
  <2> QED
    BY <2>1, <2>2, <2>3
<1>4. ASSUME NEW t \in Task, Complete(t) \/ Fail(t) \/ Cancel(t) PROVE Move(u) /\ now' = now
  <2>1. state'[u] = state[u]
    BY <1>4 DEF Complete, Fail, Finish, Cancel, IInv, TypeOK
  <2> QED
    BY <1>4, <2>1 DEF Complete, Fail, Finish, Cancel, Move, Untouched
<1>5. ASSUME NEW t \in Task, Nudge(t) PROVE Move(u) /\ now' = now
  BY <1>5, NudgeMoves DEF Nudge
<1>6. ASSUME NEW t \in Task, NEW d \in Deadlines, UpdateDeadline(t, d) PROVE Move(u) /\ now' = now
  BY <1>6, UpdateDeadlineMoves DEF UpdateDeadline
<1> QED
  BY <1>1, <1>2, <1>3, <1>4, <1>5, <1>6 DEF Next

-----------------------------------------------------------------------------
(* What a plan says of class and start *)

LEMMA PlanTiming ==
    ASSUME IInv, NEW c \in TaskContract
    PROVE  LET plan == Decide(Mode, c, Fleet(TRUE)) IN
           /\ Mode = "intent-aware" /\ c.interactive =>
                 plan.class = INTERACTIVE /\ plan.at = now
           /\ plan.at > now =>
                 plan.class = DEFERRED_BATCH /\ plan.at + SafetyMargin <= c.deadline
<1> DEFINE f == Fleet(TRUE)
           plan == Decide(Mode, c, f)
<1>1. f \in FleetState /\ f.now = now /\ now \in Int
  <2>1. f \in FleetState
    BY FleetType DEF IInv
  <2>2. f.now = now
    BY DEF Fleet
  <2>3. now \in Int
    BY SchedulerAssumption DEF IInv, TypeOK
  <2> QED
    BY <2>1, <2>2, <2>3
<1> HIDE DEF f
<1>3. PolicyEngine(c, f).class = Priority(c, now) /\ PolicyEngine(c, f).at = ScheduledAt(c, f)
  BY <1>1 DEF PolicyEngine, Decision
<1>4. CASE Mode = "intent-aware"
  <2>1. plan = PolicyEngine(c, f)
    BY <1>4 DEF Decide
  <2>2. c.interactive => Priority(c, now) = INTERACTIVE
    BY DEF Priority
  <2>3. c.interactive => ScheduledAt(c, f) = now
    BY <1>1, <2>2 DEF ScheduledAt, INTERACTIVE, DEFERRED_BATCH
  <2>4. ScheduledAt(c, f) > now =>
           Priority(c, now) = DEFERRED_BATCH /\ ScheduledAt(c, f) + SafetyMargin <= c.deadline
    <3>1. SafetyMargin \in Int /\ c.deadline \in Int /\ ScheduledAt(c, f) \in Int
      BY <1>1, PolicyAssumption, ScheduledAtType DEF TaskContract
    <3> QED
      BY <1>1, <3>1, ScheduledAtCases
  <2> HIDE DEF plan
  <2> QED
    BY <1>3, <2>1, <2>2, <2>3, <2>4 DEF plan, f
<1>5. CASE Mode # "intent-aware"
  <2>1. Mode = "static" \/ Mode = "contract-fifo"
    BY <1>5, SchedulerAssumption DEF RunMode
  <2>2. StaticBaselinePolicy(c, f).at = now
    BY <1>1 DEF StaticBaselinePolicy, Decision
  <2>3. ContractFifoPolicy(c, f).at = now
    <3>1. \A s, class, at : [Decision(s, class, at) EXCEPT !.class = STANDARD, !.at = now].at = now
      BY DEF Decision
    <3> QED
      BY <1>1, <3>1 DEF ContractFifoPolicy, PolicyEngine
  <2>4. plan.at = now
    BY <2>1, <2>2, <2>3 DEF Decide
  <2>5. ~(plan.at > now)
    BY <1>1, <2>4
  <2> HIDE DEF plan
  <2> QED
    BY <1>5, <2>5 DEF plan, f
<1> QED
  BY <1>4, <1>5

\* Escalation leaves the top class alone.
LEMMA TopStays ==
    ASSUME NEW u \in Task, NEW d, effective[u] = INTERACTIVE
    PROVE  Escalated(u, d) = INTERACTIVE
BY DEF Escalated, Aged, INTERACTIVE, STANDARD, DEFERRED_BATCH

-----------------------------------------------------------------------------
(* The invariant *)

LEMMA TimingStep == IInv /\ IInv' /\ Timing /\ [Next]_vars => Timing'
<1> SUFFICES ASSUME IInv, IInv', Timing, [Next]_vars PROVE Timing'
  OBVIOUS
<1>1. /\ now \in Int /\ now' \in Int
      /\ \A u \in Task : /\ decision[u].at \in Int /\ decision'[u].at \in Int
                         /\ contract'[u] \in TaskContract
  BY DEF IInv, TypeOK, DecisionRecord
<1> DEFINE Prompt(u) == state'[u] = "in-flight" => decision'[u].at <= now'
           Served(u) == Mode = "intent-aware" /\ contract'[u].interactive =>
                           effective'[u] = INTERACTIVE /\ decision'[u].at <= now'
           Patient(u) == state'[u] = "queued" /\ decision'[u].at > now' =>
                           /\ effective'[u] = DEFERRED_BATCH
                           /\ decision'[u].at + SafetyMargin <= contract'[u].deadline
<1>2. ASSUME NEW u \in Task, state'[u] \in {"queued", "in-flight"}
      PROVE  Prompt(u) /\ Served(u) /\ Patient(u)
  <2>1. Move(u) /\ (now' = now \/ (now' = now + 1 /\ Untouched(u)))
    BY <1>2, TaskStep
  <2>2. /\ state[u] = "in-flight" => decision[u].at <= now
        /\ Mode = "intent-aware" /\ Active(u) /\ contract[u].interactive =>
              effective[u] = INTERACTIVE /\ decision[u].at <= now
        /\ state[u] = "queued" /\ decision[u].at > now =>
              /\ effective[u] = DEFERRED_BATCH
              /\ decision[u].at + SafetyMargin <= contract[u].deadline
    BY DEF Timing, StartedReady, HumanWaitingIsInteractive, PostponedIsPatient, Queued, Active
  <2>3. CASE Untouched(u)
    BY <1>1, <1>2, <2>1, <2>2, <2>3 DEF Untouched, Active
  <2>4. CASE MadeReady(u) /\ now' = now
    BY <1>1, <2>2, <2>4, TopStays DEF MadeReady, Active
  <2>5. CASE StartedAsIs(u) /\ now' = now
    BY <1>1, <2>2, <2>5 DEF StartedAsIs, Active
  <2>6. CASE PlannedAnew(u) /\ now' = now
    <3> DEFINE c == contract'[u]
               plan == Decide(Mode, c, Fleet(TRUE))
    <3>1. c \in TaskContract
      BY <1>1
    <3> HIDE DEF c
    <3>2. /\ Mode = "intent-aware" /\ c.interactive => plan.class = INTERACTIVE /\ plan.at = now
          /\ plan.at > now =>
                plan.class = DEFERRED_BATCH /\ plan.at + SafetyMargin <= c.deadline
      BY <3>1, PlanTiming
    <3>3. state'[u] = "queued" /\ decision'[u] = plan /\ effective'[u] = plan.class
      BY <2>6 DEF PlannedAnew, c
    <3> HIDE DEF plan
    <3> QED
      BY <1>1, <2>6, <3>2, <3>3 DEF c
  <2>7. CASE Relabelled(u) /\ now' = now
    BY <1>1, <2>2, <2>7 DEF Relabelled, Active
  <2> QED
    BY <2>1, <2>3, <2>4, <2>5, <2>6, <2>7 DEF Move
<1> QED
  BY <1>2 DEF Timing, StartedReady, HumanWaitingIsInteractive, PostponedIsPatient, Queued

LEMMA TimingHolds == Spec => []Timing
<1>1. Init => Timing
  BY DEF Init, Timing, StartedReady, HumanWaitingIsInteractive, PostponedIsPatient, Queued
<1> QED
  BY <1>1, TimingStep, InvHolds, PTL DEF Spec

\* A task whose person waits, from the start or since a nudge, is in the top
\* class and ready until it ends, whatever deadline it is given.
THEOREM HumanWaitingTheorem == Spec => []HumanWaitingIsInteractive
BY TimingHolds, PTL DEF Timing

\* Only deferred work is postponed, and only to a start that leaves its
\* margin, whatever promotions, nudges and new deadlines it goes through.
THEOREM PatienceTheorem == Spec => []PostponedIsPatient
BY TimingHolds, PTL DEF Timing

\* Escalation only raises.
LEMMA AgedRises ==
    ASSUME NEW u \in Task, NEW d
    PROVE  Rank(Escalated(u, d)) <= Rank(effective[u])
BY DEF Escalated, Aged, Rank, INTERACTIVE, STANDARD, DEFERRED_BATCH

LEMMA UrgencyStep ==
    ASSUME IInv, IInv', [Next]_vars, Mode = "intent-aware",
           NEW u \in Task, state[u] = "queued", state'[u] = "queued",
           ~ \E d \in Deadlines : UpdateDeadline(u, d)
    PROVE  /\ Rank(effective'[u]) <= Rank(effective[u])
           /\ decision[u].at <= now => decision'[u].at <= now'
<1>1. now \in Int /\ now' \in Int /\ decision[u].at \in Int /\ contract'[u] \in TaskContract
  BY DEF IInv, TypeOK, DecisionRecord
<1>2. Move(u) /\ (now' = now \/ (now' = now + 1 /\ Untouched(u)))
  BY TaskStep
<1>3. CASE Untouched(u)
  <2>1. Rank(effective[u]) \in Int
    BY DEF Rank
  <2> QED
    BY <1>1, <1>2, <1>3, <2>1 DEF Untouched
<1>4. CASE MadeReady(u) /\ now' = now
  BY <1>1, <1>4, AgedRises DEF MadeReady
<1>5. CASE Nudge(u)
  <2>1. PlannedAnew(u) /\ contract'[u].interactive /\ now' = now
    BY <1>5, NudgeMoves DEF Nudge
  <2>2. effective'[u] = INTERACTIVE /\ decision'[u].at = now
    <3> DEFINE c == contract'[u]
               plan == Decide(Mode, c, Fleet(TRUE))
    <3>1. c \in TaskContract /\ c.interactive /\ decision'[u] = plan /\ effective'[u] = plan.class
      BY <1>1, <2>1 DEF PlannedAnew
    <3> HIDE DEF c
    <3>2. plan.class = INTERACTIVE /\ plan.at = now
      BY <3>1, PlanTiming
    <3> QED
      BY <3>1, <3>2
  <2> QED
    BY <1>1, <2>1, <2>2 DEF Rank
<1>6. CASE NextTask
  <2>1. PICK blocked : Dispatch(Started(Offers), Dropped(Offers), blocked)
    BY <1>6 DEF NextTask
  <2>2. now' = now /\ u \notin Started(Offers)
    BY <2>1 DEF Dispatch
  <2>3. Untouched(u) \/ MadeReady(u) \/ StartedAsIs(u)
    BY <2>1, DispatchMoves
  <2>4. CASE StartedAsIs(u)
    BY <1>1, <2>2, <2>4 DEF StartedAsIs, Rank
  <2> QED
    BY <1>3, <1>4, <2>2, <2>3, <2>4
<1>7. ASSUME NEW t \in Task, Submit(t) PROVE Untouched(u)
  <2>1. u # t
    BY <1>7 DEF Submit
  <2> QED
    BY <1>7, <2>1 DEF Submit, Untouched, IInv, TypeOK
<1>8. ASSUME NEW t \in Task, t # u, Nudge(t) PROVE Untouched(u)
  BY <1>8, NudgeMoves
<1>9. ASSUME NEW t \in Task, t # u, NEW d \in Deadlines, UpdateDeadline(t, d)
      PROVE  (Untouched(u) \/ MadeReady(u)) /\ now' = now
  BY <1>9, UpdateDeadlineMoves DEF UpdateDeadline
<1>10. ASSUME NEW t \in Task, Complete(t) \/ Fail(t) \/ Cancel(t) PROVE Untouched(u)
  BY <1>10 DEF Complete, Fail, Finish, Cancel, Untouched
<1>11. CASE Elapse \/ UNCHANGED vars
  BY <1>3, <1>11 DEF Elapse, vars, Untouched
<1> QED
  BY <1>3, <1>4, <1>5, <1>6, <1>7, <1>8, <1>9, <1>10, <1>11 DEF Next

\* Nothing but a task's own new deadline lowers its class or takes back its
\* being ready, for any tasks and contracts and in every interleaving.
THEOREM UrgencyTheorem == Spec => UrgencyKept
<1>1. IInv /\ IInv' /\ [Next]_vars =>
         [Mode = "intent-aware" =>
            \A t \in Queued \cap Queued' :
               \/ /\ Rank(effective'[t]) <= Rank(effective[t])
                  /\ decision[t].at <= now => decision'[t].at <= now'
               \/ \E d \in Deadlines : UpdateDeadline(t, d)]_vars
  BY UrgencyStep DEF Queued
<1> QED
  BY <1>1, InvHolds, PTL DEF Spec, UrgencyKept

-----------------------------------------------------------------------------
(* Overdue work *)

\* Only next_task starts a task.
LEMMA StartIsDispatch ==
    ASSUME IInv, [Next]_vars, NEW t \in Task, Starts(t)
    PROVE  \E blocked : Dispatch(Started(Offers), Dropped(Offers), blocked)
<1>1. CASE NextTask
  BY <1>1 DEF NextTask
<1>2. CASE Elapse \/ UNCHANGED vars
  BY <1>2 DEF Elapse, vars, Starts
<1>3. ASSUME NEW u \in Task,
             \/ Submit(u) \/ Complete(u) \/ Fail(u) \/ Cancel(u) \/ Nudge(u)
             \/ \E d \in Deadlines : UpdateDeadline(u, d)
      PROVE  FALSE
  BY <1>3 DEF Submit, Complete, Fail, Finish, Cancel, Nudge, UpdateDeadline, Starts, IInv, TypeOK
<1> QED
  BY <1>1, <1>2, <1>3 DEF Next

\* Escalation takes whatever is overdue to the top class.
LEMMA OverdueAged ==
    ASSUME NEW class \in PriorityClass, NEW d \in Int, now \in Int, d <= now
    PROVE  Aged(class, d) = INTERACTIVE
BY SchedulerAssumption DEF Aged, PriorityClass, INTERACTIVE, STANDARD, DEFERRED_BATCH

LEMMA OverdueStep ==
    ASSUME IInv, Timing, [Next]_vars, EnableEscalation,
           NEW t \in Task, Starts(t), NEW u \in Queued', contract[u].deadline <= now
    PROVE  effective'[u] = INTERACTIVE /\ decision'[u].at <= now
<1>1. PICK blocked : Dispatch(Started(Offers), Dropped(Offers), blocked)
  BY StartIsDispatch
<1>2. /\ u \in Task /\ state[u] = "queued"
      /\ decision'[u] = PromotedPlan(u, Class(u)) /\ effective'[u] = Class(u)
  BY <1>1 DEF Dispatch, Queued
<1>3. /\ effective[u] \in PriorityClass /\ contract[u].deadline \in Int
      /\ now \in Int /\ decision[u].at \in Int
  BY <1>2 DEF IInv, TypeOK, DecisionRecord
<1>4. Class(u) = INTERACTIVE
  BY <1>2, <1>3, OverdueAged DEF Class, Escalated
<1>5. CASE effective[u] = INTERACTIVE
  <2>1. ~(decision[u].at > now)
    BY <1>2, <1>5 DEF Timing, PostponedIsPatient, Queued, INTERACTIVE, DEFERRED_BATCH
  <2> QED
    BY <1>2, <1>3, <1>4, <1>5, <2>1 DEF PromotedPlan
<1>6. CASE effective[u] # INTERACTIVE
  BY <1>2, <1>3, <1>4, <1>6, PromotionCases
<1> QED
  BY <1>5, <1>6

\* When a start leaves overdue work waiting, that work is in the top class
\* and ready: escalation has seen it, however it came to be overdue.
THEOREM OverdueTheorem == Spec => OverdueIsUrgent
<1>1. IInv /\ Timing /\ [Next]_vars =>
         [EnableEscalation /\ (\E t \in Task : Starts(t)) =>
            \A u \in Queued' : contract[u].deadline <= now =>
               effective'[u] = INTERACTIVE /\ decision'[u].at <= now]_vars
  BY OverdueStep
<1> QED
  BY <1>1, InvHolds, TimingHolds, PTL DEF Spec, OverdueIsUrgent

-----------------------------------------------------------------------------
(* Reservations survive every start.  The loop counts the classes below it *)
(* as it found them and the classes above it after their refusals; what it *)
(* counts covers whatever is ready and still queued after the step, and no *)
(* class but the starting one has changed the slots it uses.               *)

\* A start comes from the head of the class next_task is trying.
LEMMA StartedHead ==
    ASSUME IInv, NEW t \in Started(Offers)
    PROVE  /\ Class(t) \in Tried(Offers)
           /\ CanUseSlot(Offers, Class(t), Units(Redecision(t)))
<1>1. PICK c, x : c \in Tried(Offers) /\ x \in Startable(Offers, c) /\ x.task = t
  BY DEF Started
<1>2. x \in Offers /\ x.class = c /\ CanUseSlot(Offers, c, x.units)
  BY <1>1 DEF Startable, Heads, Admitted
<1>3. x.class = Class(t) /\ x.units = Units(Redecision(t))
  BY <1>1, <1>2, OfferType
<1> QED
  BY <1>1, <1>2, <1>3

\* Work that is ready and queued after the step was on offer, and the loop
\* neither started nor refused it.
LEMMA LeftWasOffered ==
    ASSUME IInv, NEW blocked, Dispatch(Started(Offers), Dropped(Offers), blocked),
           NEW o, NEW u \in ReadyWork(o)'
    PROVE  Offer(u) \in Ready(Offers, o) /\ u \notin Dropped(Offers)
<1>1. u \in Task /\ state'[u] = "queued" /\ effective'[u] = o /\ decision'[u].at <= now'
  BY DEF ReadyWork, Queued
<1>2. u \notin Started(Offers) /\ u \notin Dropped(Offers) /\ state[u] = "queued"
  BY <1>1 DEF Dispatch
<1>3. Class(u) = o /\ PromotedPlan(u, Class(u)).at <= now
  BY <1>1, <1>2 DEF Dispatch
<1>4. Offer(u) \in Offers /\ Offer(u).class = o
  BY <1>1, <1>2, <1>3 DEF Offers, Offer, Queued
<1> QED
  BY <1>2, <1>4 DEF Ready

\* So the loop counted its class as waiting.
LEMMA LeftWasCounted ==
    ASSUME IInv, NEW blocked, Dispatch(Started(Offers), Dropped(Offers), blocked),
           NEW o \in PriorityClass, NEW c \in Tried(Offers), ReadyWork(o)' # {}
    PROVE  Waiting(Offers, o, c)
<1>1. PICK u : u \in ReadyWork(o)'
  OBVIOUS
<1>2. Offer(u) \in Ready(Offers, o) /\ u \notin Dropped(Offers)
  BY <1>1, LeftWasOffered
<1>3. CASE Rank(o) < Rank(c)
  <2>1. o \in Tried(Offers)
    <3>1. \A p \in PriorityClass : Rank(p) < Rank(o) => Rank(p) < Rank(c)
      BY <1>3 DEF Rank, PriorityClass, Tried
    <3> QED
      BY <3>1 DEF Tried
  <2>2. Offer(u).task = u
    BY DEF Offer
  <2>3. Offer(u) \notin Drained(Offers, o)
    BY <1>2, <2>1, <2>2 DEF Dropped
  <2>4. CASE Offer(u).admitted
    BY <1>2, <1>3, <2>4 DEF Ready, Admitted, Waiting
  <2>5. CASE ~Offer(u).admitted
    <3>1. Heads(Offers, o) # {}
      BY <1>2, <2>3, <2>5 DEF Drained
    <3> QED
      BY <1>3, <3>1 DEF Heads, Waiting
  <2> QED
    BY <2>4, <2>5
<1>4. CASE ~(Rank(o) < Rank(c))
  BY <1>2, <1>4 DEF Waiting
<1> QED
  BY <1>3, <1>4

\* No other class gains or loses a slot, so it is owed what it was owed.
LEMMA ShortfallKept ==
    ASSUME IInv, NEW blocked, Dispatch(Started(Offers), Dropped(Offers), blocked),
           NEW t \in Started(Offers), NEW o, o # Class(t)
    PROVE  Shortfall(o)' = Shortfall(o)
<1> DEFINE before == {u \in {v \in Task : effective[v] = o} : state[u] = "in-flight"}
           after == {u \in {v \in Task : effective'[v] = o} : state'[u] = "in-flight"}
<1>1. ASSUME NEW u \in Task, state[u] = "in-flight"
      PROVE  state'[u] = "in-flight" /\ effective'[u] = effective[u] /\ decision'[u] = decision[u]
  <2>1. u \notin Started(Offers)
    BY <1>1, StartedFits
  <2>2. u \notin Dropped(Offers)
    <3>1. \A c, x : x \in Drained(Offers, c) => x \in Offers
      BY DEF Drained, Ready
    <3>2. \A x \in Offers : state[x.task] = "queued"
      BY OfferType
    <3> QED
      BY <1>1, <3>1, <3>2 DEF Dropped
  <2>3. Class(u) = effective[u]
    BY <1>1 DEF Class, Escalated
  <2> QED
    BY <1>1, <2>1, <2>2, <2>3 DEF Dispatch, PromotedPlan
<1>2. ASSUME NEW u \in Task, state'[u] = "in-flight", effective'[u] = o
      PROVE  state[u] = "in-flight"
  <2>1. u \notin Started(Offers)
    BY <1>2, OneStarted DEF Dispatch
  <2> QED
    BY <1>2, <2>1 DEF Dispatch
<1>3. before = after
  BY <1>1, <1>2
<1>4. \A u \in before : decision'[u] = decision[u]
  BY <1>1
<1>5. {{u} \X (1 .. Units(decision[u])) : u \in before}
        = {{u} \X (1 .. Units(decision'[u])) : u \in after}
  BY <1>3, <1>4
<1>6. InFlightByClass(o)' = InFlightByClass(o)
  BY <1>5 DEF InFlightByClass, Slots
<1> QED
  BY <1>6 DEF Shortfall

LEMMA ShortfallType ==
    ASSUME IInv, NEW o \in PriorityClass
    PROVE  Shortfall(o) \in Nat
<1>1. Cardinality(Slots({t \in Task : effective[t] = o})) \in Nat
  BY SlotsType DEF IInv
<1> QED
  BY <1>1, SchedulerAssumption DEF Shortfall, InFlightByClass

\* What a class is owed after the step, the loop has kept free.
LEMMA OwedWasProtected ==
    ASSUME IInv, NEW blocked, Dispatch(Started(Offers), Dropped(Offers), blocked),
           NEW t \in Started(Offers), NEW o \in PriorityClass
    PROVE  /\ Owed(o, effective[t])' \in Nat /\ ProtectedFor(Offers, o, Class(t)) \in Nat
           /\ Owed(o, effective[t])' <= ProtectedFor(Offers, o, Class(t))
<1>1. t \in Task /\ effective'[t] = Class(t)
  BY StartedFits DEF Dispatch
<1>2. Shortfall(o) \in Nat
  BY ShortfallType
<1>3. ProtectedFor(Offers, o, Class(t)) \in Nat
  BY <1>2 DEF ProtectedFor
<1>4. CASE o # Class(t) /\ ReadyWork(o)' # {}
  <2>1. Waiting(Offers, o, Class(t))
    BY <1>4, StartedHead, LeftWasCounted
  <2>2. Shortfall(o)' = Shortfall(o)
    BY <1>4, ShortfallKept
  <2> QED
    BY <1>1, <1>2, <1>3, <1>4, <2>1, <2>2 DEF Owed, ProtectedFor
<1>5. CASE ~(o # Class(t) /\ ReadyWork(o)' # {})
  <2>1. Owed(o, effective[t])' = 0
    BY <1>1, <1>5 DEF Owed
  <2> QED
    BY <1>3, <2>1
<1> QED
  BY <1>4, <1>5

\* The slots after a start are those before and its own.
LEMMA CountAfterStart ==
    ASSUME IInv, NEW t \in Task, Starting(t), Unstarted(Task \ {t})
    PROVE  InFlightCount' \in Nat /\ InFlightCount' <= InFlightCount + Units(Redecision(t))
<1> DEFINE after == UNION {{u} \X (1 .. Units(decision'[u])) :
                              u \in {v \in Task : state'[v] = "in-flight"}}
           n == Units(Redecision(t))
           grown == Slots(Task) \cup ({t} \X (1 .. n))
<1>1. InFlightCount' = Cardinality(after)
  BY DEF InFlightCount, Slots
<1>2. n \in 1 .. 3
  BY RedecisionType, UnitsType DEF IInv
<1>3. IsFiniteSet(Slots(Task)) /\ InFlightCount \in Nat
  BY SlotsType, CountType DEF IInv
<1>4. after \subseteq grown
  BY SlotsAfterStart
<1>5. IsFiniteSet(grown) /\ Cardinality(grown) <= InFlightCount + n
  BY <1>2, <1>3, SlotsGrow DEF InFlightCount
<1>6. IsFiniteSet(after) /\ Cardinality(after) <= Cardinality(grown)
  BY <1>4, <1>5, FS_Subset
<1>7. Cardinality(after) \in Nat /\ Cardinality(grown) \in Nat
  BY <1>5, <1>6, FS_CardinalityType
<1> QED
  BY <1>1, <1>2, <1>3, <1>5, <1>6, <1>7

LEMMA ReservationStep ==
    ASSUME IInv, [Next]_vars, NEW t \in Task, Starts(t)
    PROVE  InFlightCount' + (Owed(INTERACTIVE, effective[t]) + Owed(STANDARD, effective[t])
              + Owed(DEFERRED_BATCH, effective[t]))' <= Capacity
<1>1. PICK blocked : Dispatch(Started(Offers), Dropped(Offers), blocked)
  BY StartIsDispatch
<1>2. t \in Started(Offers)
  BY <1>1 DEF Dispatch, Starts
<1>3. Starting(t) /\ Unstarted(Task \ {t})
  <2>1. ~Unstarted(Task)
    BY DEF Unstarted, Starts
  <2>2. PICK u \in Task : Starting(u) /\ Unstarted(Task \ {u})
    BY <2>1, StepShape
  <2>3. u = t
    BY <1>2, <2>2, OneStarted DEF Starting
  <2> QED
    BY <2>2, <2>3
<1> DEFINE n == Units(Redecision(t))
           owed(o) == Owed(o, effective[t])'
           kept(o) == ProtectedFor(Offers, o, Class(t))
<1>4. n \in 1 .. 3 /\ InFlightCount \in Nat /\ Capacity \in Nat
  BY RedecisionType, UnitsType, CountType, SchedulerAssumption DEF IInv
<1>5. InFlightCount' \in Nat /\ InFlightCount' <= InFlightCount + n
  BY <1>3, CountAfterStart
<1>6. Capacity - InFlightCount - n
        >= kept(INTERACTIVE) + kept(STANDARD) + kept(DEFERRED_BATCH)
  BY <1>2, StartedHead DEF CanUseSlot, Protected
<1>7. \A o \in PriorityClass : owed(o) \in Nat /\ kept(o) \in Nat /\ owed(o) <= kept(o)
  BY <1>1, <1>2, OwedWasProtected
<1>8. /\ owed(INTERACTIVE) \in Nat /\ kept(INTERACTIVE) \in Nat
      /\ owed(INTERACTIVE) <= kept(INTERACTIVE)
      /\ owed(STANDARD) \in Nat /\ kept(STANDARD) \in Nat /\ owed(STANDARD) <= kept(STANDARD)
      /\ owed(DEFERRED_BATCH) \in Nat /\ kept(DEFERRED_BATCH) \in Nat
      /\ owed(DEFERRED_BATCH) <= kept(DEFERRED_BATCH)
  BY <1>7 DEF PriorityClass
<1> HIDE DEF n, owed, kept
<1>9. InFlightCount' + (owed(INTERACTIVE) + owed(STANDARD) + owed(DEFERRED_BATCH)) <= Capacity
  BY <1>4, <1>5, <1>6, <1>8
<1> QED
  BY <1>9 DEF owed

\* After any start every other class with ready work finds free what its
\* reservation still owes it, refusals and promotions of the step included.
THEOREM ReservationTheorem == Spec => ReservationsKept
<1>1. IInv /\ [Next]_vars =>
         [\A t \in Task : Starts(t) =>
            InFlightCount' + (Owed(INTERACTIVE, effective[t]) + Owed(STANDARD, effective[t])
               + Owed(DEFERRED_BATCH, effective[t]))' <= Capacity]_vars
  BY ReservationStep
<1> QED
  BY <1>1, InvHolds, PTL DEF Spec, ReservationsKept

-----------------------------------------------------------------------------
(* The order of the queue.  A class tries its first admitted offer, and    *)
(* there is one: arrivals and heap ranks never repeat, although every push *)
(* and every removal numbers the live entries from 1 again.                *)

Ordered ==
    /\ \A t \in Task : order[t] <= Cardinality({u \in Task : order[u] > 0})
    /\ \A t, u \in Task : order[t] = order[u] /\ order[t] > 0 => t = u
    /\ \A t \in Queued : order[t] > 0
    /\ \A t, u \in Queued : place[t] = place[u] => t = u

\* Renumbering keeps different entries different.
LEMMA RequeueDistinct ==
    ASSUME NEW temp, NEW live \in SUBSET Task,
           \A t \in live : temp[t] \in Int,
           \A t, u \in live : temp[t] = temp[u] => t = u
    PROVE  \A t, u \in live : Requeue(temp, live)[t] = Requeue(temp, live)[u] => t = u
<1> DEFINE upto(t) == {u \in live : temp[u] <= temp[t]}
<1>1. ASSUME NEW t \in live, NEW u \in live, temp[t] < temp[u]
      PROVE  Cardinality(upto(t)) # Cardinality(upto(u))
  <2>1. upto(t) \subseteq upto(u) /\ upto(t) # upto(u)
    <3>1. u \in upto(u) /\ u \notin upto(t)
      BY <1>1
    <3>2. \A v \in upto(t) : v \in upto(u)
      BY <1>1
    <3> QED
      BY <3>1, <3>2
  <2>2. IsFiniteSet(upto(u))
    BY SubsetCount
  <2> QED
    BY <2>1, <2>2, FS_Subset
<1>2. \A t \in live : Requeue(temp, live)[t] = Cardinality(upto(t))
  BY DEF Requeue
<1> HIDE DEF upto
<1>3. TAKE t, u \in live
<1>4. HAVE Requeue(temp, live)[t] = Requeue(temp, live)[u]
<1>5. ~(temp[t] < temp[u]) /\ ~(temp[u] < temp[t])
  BY <1>1, <1>2, <1>4
<1> QED
  BY <1>5

\* A class has at most one head.
LEMMA OneHead ==
    ASSUME IInv, NEW c, NEW x \in Heads(Offers, c), NEW y \in Heads(Offers, c)
    PROVE  x = y
<1>1. x \in Admitted(Offers, c) /\ y \in Admitted(Offers, c)
  BY DEF Heads
<1>2. (x = y \/ Before(x, y)) /\ (y = x \/ Before(y, x))
  BY <1>1 DEF Heads
<1>3. x \in Offers /\ y \in Offers
  BY <1>1 DEF Admitted
<1>4. x.key \in Int /\ y.key \in Int /\ x.place \in Int /\ y.place \in Int
  BY <1>3, OfferType
<1> QED
  BY <1>2, <1>4 DEF Before

\* Whatever is pushed by a promotion is younger than every entry there is.
LEMMA PromotedDistinct ==
    ASSUME IInv, Ordered, NEW class, NEW t \in Queued, NEW u \in Queued,
           PromotedPlace(t, class[t]) = PromotedPlace(u, class[u])
    PROVE  t = u
<1>1. /\ t \in Task /\ u \in Task
      /\ place[t] \in 0 .. N /\ place[u] \in 0 .. N /\ N \in Nat
      /\ order[t] \in 0 .. N /\ order[u] \in 0 .. N
      /\ order[t] > 0 /\ order[u] > 0
  BY TaskCount DEF IInv, TypeOK, Queued, Ordered
<1>2. place[t] = place[u] \/ order[t] = order[u]
  BY <1>1 DEF PromotedPlace
<1> QED
  BY <1>1, <1>2 DEF Ordered

LEMMA PromotedBound ==
    ASSUME IInv, NEW t \in Task, NEW c
    PROVE  PromotedPlace(t, c) \in 0 .. 2 * N
<1>1. place[t] \in 0 .. N /\ order[t] \in 0 .. N /\ N \in Nat
  BY TaskCount DEF IInv, TypeOK
<1> QED
  BY <1>1 DEF PromotedPlace

LEMMA SubmitOrdered ==
    ASSUME IInv, Ordered, NEW t \in Task, Submit(t)
    PROVE  Ordered'
<1> DEFINE ranked == {u \in Task : order[u] > 0}
           number == 1 + Cardinality(ranked)
<1>1. state[t] = "new" /\ order[t] = 0 /\ t \notin Queued
  BY DEF Submit, IInv, Queued
<1>2. IsFiniteSet(ranked) /\ Cardinality(ranked) \in Nat
  BY SubsetCount
<1>3. \A u \in Task : order[u] \in Int /\ order[u] <= Cardinality(ranked)
  BY DEF IInv, TypeOK, Ordered
<1>4. CASE /\ state' = [state EXCEPT ![t] = "queued"]
           /\ order' = [order EXCEPT ![t] = number]
           /\ place' = Requeue([place EXCEPT ![t] = N + 1], Queued \cup {t})
  <2>1. order'[t] = number /\ \A u \in Task \ {t} : order'[u] = order[u]
    BY <1>4 DEF IInv, TypeOK
  <2>2. {u \in Task : order'[u] > 0} = ranked \cup {t}
    BY <1>2, <2>1
  <2>3. Cardinality(ranked \cup {t}) = number
    <3>1. t \notin ranked
      BY <1>1
    <3> HIDE DEF ranked
    <3>2. Cardinality(ranked \cup {t}) = Cardinality(ranked) + 1
      BY <1>2, <3>1, FS_AddElement
    <3> QED
      BY <1>2, <3>2
  <2>4. \A u \in Task : order'[u] <= Cardinality({v \in Task : order'[v] > 0})
    BY <1>2, <1>3, <2>1, <2>2, <2>3
  <2>5. \A u, v \in Task : order'[u] = order'[v] /\ order'[u] > 0 => u = v
    <3>1. \A u \in Task \ {t} : order'[u] # number
      BY <1>2, <1>3, <2>1
    <3> HIDE DEF number
    <3> QED
      BY <2>1, <3>1 DEF Ordered
  <2>6. Queued' = Queued \cup {t}
    BY <1>4 DEF Queued, IInv, TypeOK
  <2>7. \A u \in Queued' : order'[u] > 0
    BY <1>1, <1>2, <2>1, <2>6 DEF Ordered, Queued
  <2> DEFINE temp == [place EXCEPT ![t] = N + 1]
  <2>8. /\ \A u \in Queued : u \in Task /\ u # t /\ temp[u] = place[u] /\ place[u] \in 0 .. N
        /\ temp[t] = N + 1 /\ N \in Nat
    BY <1>1, TaskCount DEF IInv, TypeOK, Queued
  <2> HIDE DEF temp
  <2>9. \A u \in Queued \cup {t} : temp[u] \in Int
    BY <2>8
  <2>10. \A u, v \in Queued \cup {t} : temp[u] = temp[v] => u = v
    BY <2>8 DEF Ordered
  <2>11. \A u, v \in Queued' : place'[u] = place'[v] => u = v
    <3>1. Queued \cup {t} \in SUBSET Task
      BY DEF Queued
    <3>2. \A u, v \in Queued \cup {t} :
             Requeue(temp, Queued \cup {t})[u] = Requeue(temp, Queued \cup {t})[v] => u = v
      BY <2>9, <2>10, <3>1, RequeueDistinct
    <3> QED
      BY <1>4, <2>6, <3>2 DEF temp
  <2> QED
    BY <2>4, <2>5, <2>7, <2>11 DEF Ordered
<1>5. CASE state' = [state EXCEPT ![t] = "rejected"] /\ UNCHANGED <<order, place>>
  <2>1. Queued' = Queued
    BY <1>1, <1>5 DEF Queued, IInv, TypeOK
  <2> QED
    BY <1>5, <2>1 DEF Ordered
<1> QED
  BY <1>4, <1>5 DEF Submit

\* The numbers of the arrivals stay, and no task joins the queue.
Shrinks == order' = order /\ Queued' \subseteq Queued

LEMMA OrderedAfter ==
    ASSUME Ordered, Shrinks, \A t, u \in Queued' : place'[t] = place'[u] => t = u
    PROVE  Ordered'
BY DEF Ordered, Shrinks

LEMMA DispatchOrdered ==
    ASSUME IInv, Ordered, NEW started, NEW dropped,
           Dispatch(started, dropped, Blocked(Offers))
    PROVE  Ordered'
<1> DEFINE temp == [t \in Task |-> IF t \in Blocked(Offers) THEN 2 * N + 1 + Rank(Class(t))
                                   ELSE PromotedPlace(t, Class(t))]
           live == Queued \ (started \cup dropped)
<1>1. \A t \in Blocked(Offers) : \A u \in Blocked(Offers) : Class(t) = Class(u) => t = u
  <2>1. TAKE t \in Blocked(Offers)
  <2>2. TAKE u \in Blocked(Offers)
  <2>3. HAVE Class(t) = Class(u)
  <2>4. PICK c, x : x \in Heads(Offers, c) /\ x.task = t
    BY DEF Blocked
  <2>5. PICK d, y : y \in Heads(Offers, d) /\ y.task = u
    BY DEF Blocked
  <2>6. x \in Offers /\ x.class = c /\ y \in Offers /\ y.class = d
    BY <2>4, <2>5 DEF Heads, Admitted
  <2>7. c = d
    BY <2>3, <2>4, <2>5, <2>6, OfferType
  <2> QED
    BY <2>4, <2>5, <2>7, OneHead
<1>2. \A t \in Queued : t \in Task /\ Class(t) \in PriorityClass
  BY ClassTypes, SchedulerAssumption DEF Queued, IInv
<1>3. \A c, d \in PriorityClass : Rank(c) \in 0 .. 2 /\ (Rank(c) = Rank(d) => c = d)
  BY DEF Rank, PriorityClass, INTERACTIVE, STANDARD, DEFERRED_BATCH
<1>4. N \in Nat
  BY TaskCount
<1>5. \A t \in Queued : PromotedPlace(t, Class(t)) \in 0 .. 2 * N
  BY <1>2, PromotedBound
<1>6. \A t \in Queued : temp[t] \in Int
  BY <1>2, <1>3, <1>4, <1>5
<1>7. ASSUME NEW t \in Queued, NEW u \in Queued, temp[t] = temp[u]
      PROVE  t = u
  <2>1. CASE t \in Blocked(Offers) /\ u \in Blocked(Offers)
    <3>1. 2 * N + 1 + Rank(Class(t)) = 2 * N + 1 + Rank(Class(u))
      BY <1>2, <1>7, <2>1
    <3>2. Rank(Class(t)) = Rank(Class(u))
      BY <1>2, <1>3, <1>4, <3>1
    <3> QED
      BY <1>1, <1>2, <1>3, <2>1, <3>2
  <2>2. CASE t \notin Blocked(Offers) /\ u \notin Blocked(Offers)
    <3> DEFINE class == [v \in Task |-> Class(v)]
    <3>1. PromotedPlace(t, class[t]) = PromotedPlace(u, class[u])
      BY <1>2, <1>7, <2>2
    <3> QED
      BY <3>1, PromotedDistinct
  <2>3. ASSUME NEW v \in Queued, NEW w \in Queued,
               v \in Blocked(Offers), w \notin Blocked(Offers)
        PROVE  temp[v] # temp[w]
    <3>1. temp[v] = 2 * N + 1 + Rank(Class(v)) /\ temp[w] \in 0 .. 2 * N
      BY <1>2, <1>5, <2>3
    <3> QED
      BY <1>2, <1>3, <1>4, <3>1
  <2> QED
    BY <1>7, <2>1, <2>2, <2>3
<1> HIDE DEF temp
<1>8. Queued' \subseteq live
  BY DEF Dispatch, Queued, IInv, TypeOK
<1>9. \A t, u \in live : Requeue(temp, live)[t] = Requeue(temp, live)[u] => t = u
  <2>1. live \in SUBSET Task
    BY DEF Queued
  <2>2. (\A t \in live : temp[t] \in Int) /\ \A t, u \in live : temp[t] = temp[u] => t = u
    BY <1>6, <1>7
  <2> QED
    BY <2>1, <2>2, RequeueDistinct
<1>10. place' = Requeue(temp, live) /\ order' = order
  BY DEF Dispatch, temp
<1>11. Shrinks
  BY <1>8, <1>10 DEF Shrinks
<1>12. \A t, u \in Queued' : place'[t] = place'[u] => t = u
  BY <1>8, <1>9, <1>10
<1> QED
  BY <1>11, <1>12, OrderedAfter

LEMMA CancelOrdered ==
    ASSUME IInv, Ordered, NEW t \in Task, Cancel(t)
    PROVE  Ordered'
<1>1. /\ Queued' = Queued \ {t} /\ order' = order
      /\ place' = Requeue(place, Queued \ {t})
  BY DEF Cancel, Queued, IInv, TypeOK
<1>2. \A u \in Queued \ {t} : place[u] \in Int
  BY DEF Queued, IInv, TypeOK
<1>3. \A u, v \in Queued \ {t} : place[u] = place[v] => u = v
  BY DEF Ordered
<1>4. Queued \ {t} \in SUBSET Task
  BY DEF Queued
<1>5. \A u, v \in Queued' : place'[u] = place'[v] => u = v
  BY <1>1, <1>2, <1>3, <1>4, RequeueDistinct
<1> QED
  BY <1>1, <1>5, OrderedAfter DEF Shrinks

LEMMA NudgeOrdered ==
    ASSUME IInv, Ordered, NEW t \in Task, Nudge(t)
    PROVE  Ordered'
<1>1. order' = order /\ Queued' = Queued
  BY DEF Nudge, Queued
<1>2. CASE state[t] = "queued" /\ place' = Requeue([place EXCEPT ![t] = N + 1], Queued)
  <2> DEFINE temp == [place EXCEPT ![t] = N + 1]
  <2>1. /\ \A u \in Queued : u # t => temp[u] = place[u] /\ place[u] \in 0 .. N
        /\ temp[t] = N + 1 /\ N \in Nat
    BY TaskCount DEF IInv, TypeOK, Queued
  <2> HIDE DEF temp
  <2>2. (\A u \in Queued : temp[u] \in Int) /\ \A u, v \in Queued : temp[u] = temp[v] => u = v
    BY <2>1 DEF Ordered
  <2>3. Queued \in SUBSET Task
    BY DEF Queued
  <2>4. \A u, v \in Queued : Requeue(temp, Queued)[u] = Requeue(temp, Queued)[v] => u = v
    BY <2>2, <2>3, RequeueDistinct
  <2> QED
    BY <1>1, <1>2, <2>4, OrderedAfter DEF Shrinks, temp
<1>3. CASE UNCHANGED place
  BY <1>1, <1>3, OrderedAfter DEF Shrinks, Ordered
<1> QED
  BY <1>2, <1>3 DEF Nudge

LEMMA UpdateDeadlineOrdered ==
    ASSUME IInv, Ordered, NEW t \in Task, NEW d \in Deadlines, UpdateDeadline(t, d)
    PROVE  Ordered'
<1> DEFINE class == [u \in Task |->
                        Escalated(u, IF u = t THEN d ELSE contract[u].deadline)]
           temp == [u \in Task |-> IF u = t THEN 2 * N + 1 ELSE PromotedPlace(u, class[u])]
<1>1. order' = order /\ Queued' = Queued
  BY DEF UpdateDeadline, Queued
<1>2. CASE place' = Requeue(temp, Queued)
  <2>1. /\ \A u \in Queued : u \in Task
        /\ \A u \in Task : PromotedPlace(u, class[u]) \in 0 .. 2 * N
        /\ N \in Nat
    BY PromotedBound, TaskCount DEF Queued
  <2>2. \A u \in Queued : temp[u] \in Int
    BY <2>1
  <2>3. ASSUME NEW u \in Queued, NEW v \in Queued, temp[u] = temp[v]
        PROVE  u = v
    <3>1. CASE u = t \/ v = t
      BY <2>1, <2>3, <3>1
    <3>2. CASE u # t /\ v # t
      <4>1. PromotedPlace(u, class[u]) = PromotedPlace(v, class[v])
        BY <2>1, <2>3, <3>2
      <4> HIDE DEF class
      <4> QED
        BY <4>1, PromotedDistinct
    <3> QED
      BY <3>1, <3>2
  <2> HIDE DEF temp
  <2>4. \A u, v \in Queued : Requeue(temp, Queued)[u] = Requeue(temp, Queued)[v] => u = v
    <3>1. Queued \in SUBSET Task
      BY DEF Queued
    <3>2. \A u, v \in Queued : temp[u] = temp[v] => u = v
      BY <2>3
    <3> QED
      BY <2>2, <3>1, <3>2, RequeueDistinct
  <2> QED
    BY <1>1, <1>2, <2>4, OrderedAfter DEF Shrinks
<1>3. CASE UNCHANGED place
  BY <1>1, <1>3, OrderedAfter DEF Shrinks, Ordered
<1>4. state[t] = "queued" => place' = Requeue(temp, Queued)
  BY DEF UpdateDeadline
<1> QED
  BY <1>2, <1>3, <1>4 DEF UpdateDeadline

LEMMA OrderedStep == IInv /\ Ordered /\ [Next]_vars => Ordered'
<1> SUFFICES ASSUME IInv, Ordered, [Next]_vars PROVE Ordered'
  OBVIOUS
<1>1. CASE NextTask
  BY <1>1, DispatchOrdered DEF NextTask
<1>2. CASE Elapse \/ UNCHANGED vars
  <2>1. UNCHANGED <<state, order, place>>
    BY <1>2 DEF Elapse, vars
  <2> QED
    BY <2>1 DEF Ordered, Queued
<1>3. ASSUME NEW t \in Task, Submit(t) PROVE Ordered'
  BY <1>3, SubmitOrdered
<1>4. ASSUME NEW t \in Task, Complete(t) \/ Fail(t) PROVE Ordered'
  <2>1. UNCHANGED <<order, place>> /\ Queued' \subseteq Queued
    BY <1>4 DEF Complete, Fail, Finish, Queued, IInv, TypeOK
  <2> QED
    BY <2>1, OrderedAfter DEF Shrinks, Ordered
<1>5. ASSUME NEW t \in Task, Cancel(t) PROVE Ordered'
  BY <1>5, CancelOrdered
<1>6. ASSUME NEW t \in Task, Nudge(t) PROVE Ordered'
  BY <1>6, NudgeOrdered
<1>7. ASSUME NEW t \in Task, NEW d \in Deadlines, UpdateDeadline(t, d) PROVE Ordered'
  BY <1>7, UpdateDeadlineOrdered
<1> QED
  BY <1>1, <1>2, <1>3, <1>4, <1>5, <1>6, <1>7 DEF Next

LEMMA OrderedHolds == Spec => []Ordered
<1>1. Init => Ordered
  <2> SUFFICES ASSUME Init PROVE Ordered
    OBVIOUS
  <2>1. Queued = {} /\ {u \in Task : order[u] > 0} = {} /\ \A t \in Task : order[t] = 0
    BY DEF Init, Queued
  <2> QED
    BY <2>1, FS_EmptySet DEF Ordered
<1> QED
  BY <1>1, OrderedStep, InvHolds, PTL DEF Spec
-----------------------------------------------------------------------------
(* The first of a finite set *)

\* A finite set that is strictly and totally ordered has a first element: the
\* sets of what comes before an element are well-founded by inclusion.
LEMMA FirstExists ==
    ASSUME NEW A, IsFiniteSet(A), A # {}, NEW R,
           \A x \in A : <<x, x>> \notin R,
           \A x, y \in A : x = y \/ <<x, y>> \in R \/ <<y, x>> \in R,
           \A x, y, z \in A : <<x, y>> \in R /\ <<y, z>> \in R => <<x, z>> \in R
    PROVE  \E x \in A : \A y \in A : x = y \/ <<x, y>> \in R
<1> DEFINE upto(x) == {y \in A : <<y, x>> \in R}
           T == {upto(x) : x \in A}
<1>1. IsWellFoundedOn(StrictSubsetOrdering(A), SUBSET A)
  BY FS_StrictSubsetOrderingWellFounded, FS_FiniteSubsetsOfFinite
<1>2. T \subseteq SUBSET A /\ T # {}
  <2>1. \A x \in A : upto(x) \subseteq A
    OBVIOUS
  <2> HIDE DEF upto
  <2> QED
    BY <2>1
<1> HIDE DEF T
<1>3. PICK m \in T : \A n \in T : <<n, m>> \notin StrictSubsetOrdering(A)
  BY <1>1, <1>2, WFMin
<1>4. PICK x \in A : m = upto(x)
  BY <1>3 DEF T
<1>5. ASSUME NEW y \in A, <<y, x>> \in R
      PROVE  FALSE
  <2>1. upto(y) \subseteq upto(x) /\ upto(y) # upto(x)
    BY <1>5
  <2>2. <<upto(y), upto(x)>> \in StrictSubsetOrdering(A)
    BY <2>1 DEF StrictSubsetOrdering
  <2>3. upto(y) \in T
    BY DEF T
  <2> QED
    BY <1>3, <1>4, <2>2, <2>3
<1> QED
  BY <1>5

LEMMA OffersFinite == IsFiniteSet(Offers)
<1> DEFINE ready == {u \in Queued : PromotedPlan(u, Class(u)).at <= now}
           f == [t \in ready |-> Offer(t)]
<1>1. IsFiniteSet(ready)
  BY SubsetCount DEF Queued
<1>2. f \in Surjection(ready, Offers)
  BY DEF Surjection, Offers
<1> QED
  BY <1>1, <1>2, FS_Surjection

\* Two offers of the queue are never in the same place.
LEMMA OffersOrdered ==
    ASSUME IInv, Ordered, NEW x \in Offers, NEW y \in Offers, x.place = y.place
    PROVE  x = y
<1> DEFINE class == [u \in Task |-> Class(u)]
<1>1. /\ x.task \in Queued /\ y.task \in Queued /\ x = Offer(x.task) /\ y = Offer(y.task)
      /\ x.task \in Task /\ y.task \in Task
  BY OfferType DEF Queued
<1>2. Offer(x.task).place = PromotedPlace(x.task, class[x.task])
  BY <1>1 DEF Offer
<1>3. Offer(y.task).place = PromotedPlace(y.task, class[y.task])
  BY <1>1 DEF Offer
<1>4. x.task = y.task
  BY <1>1, <1>2, <1>3, PromotedDistinct
<1> QED
  BY <1>1, <1>4

\* A class with admitted work has a head.
LEMMA HeadExists ==
    ASSUME IInv, Ordered, NEW c, Admitted(Offers, c) # {}
    PROVE  Heads(Offers, c) # {}
<1> DEFINE A == Admitted(Offers, c)
           R == {p \in A \X A : Before(p[1], p[2])}
<1>1. A \subseteq Offers /\ IsFiniteSet(A)
  <2>1. A \subseteq Offers
    BY DEF Admitted
  <2> QED
    BY <2>1, OffersFinite, FS_Subset
<1>2. \A x \in A : x.key \in Int /\ x.place \in Int
  BY <1>1, OfferType
<1>3. \A x, y \in A : x.place = y.place => x = y
  BY <1>1, OffersOrdered
<1> HIDE DEF A
<1>4. \A x, y \in A : <<x, y>> \in R <=> Before(x, y)
  BY DEF Before
<1> HIDE DEF R
<1>5. \A x \in A : <<x, x>> \notin R
  BY <1>2, <1>4 DEF Before
<1>6. \A x, y \in A : x = y \/ <<x, y>> \in R \/ <<y, x>> \in R
  <2>1. TAKE x, y \in A
  <2>2. x = y \/ Before(x, y) \/ Before(y, x)
    BY <1>2, <1>3 DEF Before
  <2> QED
    BY <1>4, <2>2
<1>7. \A x, y, z \in A : <<x, y>> \in R /\ <<y, z>> \in R => <<x, z>> \in R
  <2>1. TAKE x, y, z \in A
  <2>2. HAVE <<x, y>> \in R /\ <<y, z>> \in R
  <2>3. Before(x, y) /\ Before(y, z)
    BY <1>4, <2>2
  <2>4. Before(x, z)
    BY <1>2, <2>3 DEF Before
  <2> QED
    BY <1>4, <2>4
<1>8. \E x \in A : \A y \in A : x = y \/ <<x, y>> \in R
  BY <1>1, <1>5, <1>6, <1>7, FirstExists DEF A
<1> QED
  BY <1>4, <1>8 DEF Heads, A

-----------------------------------------------------------------------------
(* An idle fleet serves *)

\* The reservations leave room for the largest task that is admitted at all.
RoomForLargest ==
    \A units \in 1 .. 3 :
        units <= Capacity => units + Reservation[STANDARD] + Reservation[DEFERRED_BATCH] <= Capacity

\* On an idle fleet nothing stops the most urgent class with admitted work.
LEMMA UrgentStarts ==
    ASSUME IInv, Ordered, RoomForLargest, InFlightCount = 0,
           NEW c \in PriorityClass, Admitted(Offers, c) # {},
           \A o \in PriorityClass : Rank(o) < Rank(c) => Admitted(Offers, o) = {}
    PROVE  Started(Offers) # {}
<1>1. PICK x : x \in Heads(Offers, c)
  BY HeadExists
<1>2. x \in Offers /\ x.admitted
  BY <1>1 DEF Heads, Admitted
<1>3. x.units \in 1 .. 3 /\ x.units <= Capacity
  <2>1. x.units \in 1 .. 3 /\ x = Offer(x.task)
    BY <1>2, OfferType
  <2>2. Offer(x.task).admitted => Offer(x.task).units <= Capacity
    BY DEF Offer
  <2> QED
    BY <1>2, <2>1, <2>2
<1>4. /\ \A o \in PriorityClass : Shortfall(o) \in Nat /\ Shortfall(o) <= Reservation[o]
      /\ \A o \in PriorityClass : Reservation[o] \in Nat
  BY ShortfallType, SlotsType, SchedulerAssumption DEF IInv, Shortfall, InFlightByClass
<1>5. ASSUME NEW o \in PriorityClass
      PROVE  /\ ProtectedFor(Offers, o, c) \in Nat /\ ProtectedFor(Offers, o, c) <= Reservation[o]
             /\ Rank(o) < Rank(c) \/ o = c => ProtectedFor(Offers, o, c) = 0
  BY <1>4 DEF ProtectedFor, Waiting
<1>6. INTERACTIVE \in PriorityClass /\ STANDARD \in PriorityClass /\ DEFERRED_BATCH \in PriorityClass
  BY DEF PriorityClass
<1>7. ProtectedFor(Offers, INTERACTIVE, c) = 0
  BY <1>5, <1>6 DEF Rank, PriorityClass, INTERACTIVE, STANDARD, DEFERRED_BATCH
<1>8. x.units + Protected(Offers, c) <= Capacity
  <2>1. Protected(Offers, c) <= Reservation[STANDARD] + Reservation[DEFERRED_BATCH]
    BY <1>4, <1>5, <1>6, <1>7 DEF Protected
  <2>2. Protected(Offers, c) \in Nat
    BY <1>5, <1>6 DEF Protected
  <2> QED
    BY <1>3, <1>4, <1>6, <2>1, <2>2, SchedulerAssumption DEF RoomForLargest
<1>9. Protected(Offers, c) \in Nat
  BY <1>5, <1>6 DEF Protected
<1>10. CanUseSlot(Offers, c, x.units)
  BY <1>3, <1>8, <1>9, SchedulerAssumption DEF CanUseSlot
<1>11. x \in Startable(Offers, c)
  BY <1>1, <1>10 DEF Startable
<1>12. c \in Tried(Offers)
  BY DEF Tried, Startable, Heads
<1> QED
  BY <1>11, <1>12 DEF Started

LEMMA IdleServes ==
    ASSUME IInv, Ordered, RoomForLargest
    PROVE  IdleFleetServes
<1> SUFFICES ASSUME InFlightCount = 0, NEW x \in Offers, x.admitted
             PROVE  Started(Offers) # {}
  BY DEF IdleFleetServes
<1> DEFINE busy(c) == Admitted(Offers, c) # {}
<1>1. x.class \in PriorityClass
  BY OfferType, ClassTypes, SchedulerAssumption DEF IInv
<1>2. busy(x.class)
  BY DEF Admitted
<1>3. \E c \in PriorityClass :
         busy(c) /\ \A o \in PriorityClass : Rank(o) < Rank(c) => ~busy(o)
  <2> HIDE DEF busy
  <2> QED
    BY <1>1, <1>2 DEF Rank, PriorityClass, INTERACTIVE, STANDARD, DEFERRED_BATCH
<1> QED
  BY <1>3, UrgentStarts

\* With reservations that leave room for the largest task, an idle fleet is
\* never blocked: next_task starts a task whenever a ready one is admitted.
THEOREM IdleTheorem == RoomForLargest => (Spec => []IdleFleetServes)
<1> SUFFICES ASSUME RoomForLargest PROVE Spec => []IdleFleetServes
  OBVIOUS
<1>1. IInv /\ Ordered => IdleFleetServes
  BY IdleServes
<1> QED
  BY <1>1, InvHolds, OrderedHolds, PTL

-----------------------------------------------------------------------------
(* The baselines keep the order of arrival *)

\* A baseline scheduler, as long as no deadline is updated.
Baseline == Mode # "intent-aware" /\ Discipline = "fifo" /\ ~EnableEscalation /\ Deadlines = {}

\* Nothing leaves the standard class or is postponed, nudged or not.
OneClass == \A t \in Queued : effective[t] = STANDARD /\ decision[t].at <= now

LEMMA BaselineDecision ==
    ASSUME Baseline, NEW c, NEW f
    PROVE  Decide(Mode, c, f).class = STANDARD /\ Decide(Mode, c, f).at = f.now
BY SchedulerAssumption
   DEF Baseline, Decide, RunMode, StaticBaselinePolicy, ContractFifoPolicy, PolicyEngine, Decision

LEMMA OneClassStep == Baseline /\ IInv /\ OneClass /\ [Next]_vars => OneClass'
<1> SUFFICES ASSUME Baseline, IInv, OneClass, [Next]_vars PROVE OneClass'
  OBVIOUS
<1>1. now \in Int /\ \A u \in Task : decision[u].at \in Int
  BY DEF IInv, TypeOK, DecisionRecord
<1>2. CASE NextTask
  <2>1. PICK started, dropped, blocked : Dispatch(started, dropped, blocked)
    BY <1>2 DEF NextTask
  <2>2. ASSUME NEW u \in Queued'
        PROVE  u \in Queued /\ effective'[u] = effective[u] /\ decision'[u] = decision[u] /\ now' = now
    <3>1. u \in Queued /\ u \notin started \cup dropped
      BY <2>1, <2>2 DEF Dispatch, Queued, IInv, TypeOK
    <3>2. Class(u) = effective[u]
      BY DEF Baseline, Class
    <3> QED
      BY <2>1, <3>1, <3>2 DEF Dispatch, Queued, PromotedPlan
  <2> QED
    BY <2>2 DEF OneClass
<1>3. CASE Elapse \/ UNCHANGED vars
  <2>1. UNCHANGED <<state, effective, decision>> /\ now' \in Int /\ now <= now'
    BY <1>1, <1>3 DEF Elapse, vars
  <2> QED
    BY <1>1, <2>1 DEF OneClass, Queued
<1>4. ASSUME NEW t \in Task, Submit(t) PROVE OneClass'
  <2> DEFINE plan == Decide(Mode, contract[t], Fleet(TRUE))
  <2>1. plan.class = STANDARD /\ plan.at = now
    BY BaselineDecision DEF Fleet
  <2> HIDE DEF plan
  <2>2. /\ decision' = [decision EXCEPT ![t] = plan]
        /\ effective' = [effective EXCEPT ![t] = plan.class]
        /\ \A u \in Task \ {t} : state'[u] = state[u]
        /\ now' = now
    BY <1>4 DEF Submit, plan, IInv, TypeOK
  <2> QED
    BY <1>1, <2>1, <2>2 DEF OneClass, Queued, IInv, TypeOK
<1>5. ASSUME NEW t \in Task, Complete(t) \/ Fail(t) \/ Cancel(t) PROVE OneClass'
  <2>1. UNCHANGED <<now, effective, decision>> /\ Queued' \subseteq Queued
    BY <1>5 DEF Complete, Fail, Finish, Cancel, Queued, IInv, TypeOK
  <2> QED
    BY <2>1 DEF OneClass
<1>6. ASSUME NEW t \in Task, Nudge(t) PROVE OneClass'
  <2> DEFINE revealed == [contract[t] EXCEPT !.interactive = TRUE]
             plan == Decide(Mode, revealed, Fleet(TRUE))
  <2>1. plan.class = STANDARD /\ plan.at = now
    BY BaselineDecision DEF Fleet
  <2>2. UNCHANGED <<now, state>>
    BY <1>6 DEF Nudge
  <2>3. CASE /\ decision' = [decision EXCEPT ![t] = plan]
             /\ effective' = [effective EXCEPT ![t] = plan.class]
    <3> HIDE DEF plan
    <3> QED
      BY <1>1, <2>1, <2>2, <2>3 DEF OneClass, Queued, IInv, TypeOK
  <2>4. CASE /\ state[t] = "in-flight" /\ UNCHANGED decision
             /\ effective' = [effective EXCEPT ![t] = INTERACTIVE]
    BY <2>2, <2>4 DEF OneClass, Queued, IInv, TypeOK
  <2> QED
    BY <1>6, <2>3, <2>4 DEF Nudge
<1>7. ASSUME NEW t \in Task, NEW d \in Deadlines, UpdateDeadline(t, d) PROVE OneClass'
  BY <1>7 DEF Baseline
<1> QED
  BY <1>2, <1>3, <1>4, <1>5, <1>6, <1>7 DEF Next

LEMMA OneClassHolds == Baseline => (Spec => []OneClass)
<1> SUFFICES ASSUME Baseline PROVE Spec => []OneClass
  OBVIOUS
<1>1. Init => OneClass
  BY DEF Init, OneClass, Queued
<1>2. IInv /\ OneClass /\ [Next]_vars => OneClass'
  BY OneClassStep
<1> QED
  BY <1>1, <1>2, InvHolds, PTL DEF Spec

\* What a baseline starts came before everything it leaves in the queue: a
\* task that came earlier was ready in the same class, so it was the head or
\* was refused.
LEMMA EarlierFirst ==
    ASSUME Baseline, IInv, Ordered, OneClass, [Next]_vars,
           NEW t \in Task, Starts(t), NEW u \in Queued'
    PROVE  order[t] < order[u]
<1>1. PICK blocked : Dispatch(Started(Offers), Dropped(Offers), blocked)
  BY StartIsDispatch
<1>2. t \in Started(Offers)
  BY <1>1 DEF Dispatch, Starts
<1>3. u \in Queued /\ u \notin Started(Offers) /\ u \notin Dropped(Offers) /\ t \in Queued
  BY <1>1 DEF Dispatch, Queued, Starts, IInv, TypeOK
<1>4. ASSUME NEW v \in Queued
      PROVE  /\ Class(v) = STANDARD /\ Offer(v) \in Offers
             /\ Offer(v).class = STANDARD /\ Offer(v).key = order[v] /\ Offer(v).task = v
  <2>1. Class(v) = STANDARD /\ PromotedPlan(v, Class(v)).at <= now
    BY DEF Baseline, Class, OneClass, PromotedPlan
  <2>2. Offer(v) \in Offers
    BY <2>1 DEF Offers
  <2> QED
    BY <2>1, <2>2 DEF Offer, Baseline
<1>5. PICK c, x : c \in Tried(Offers) /\ x \in Startable(Offers, c) /\ x.task = t
  BY <1>2 DEF Started
<1>6. x \in Heads(Offers, c) /\ x \in Offers /\ x.class = c
  BY <1>5 DEF Startable, Heads, Admitted
<1>7. x = Offer(t) /\ c = STANDARD
  BY <1>3, <1>4, <1>5, <1>6, OfferType
<1> DEFINE y == Offer(u)
<1>8. y \in Ready(Offers, c) /\ y.task = u /\ y.key = order[u] /\ x.key = order[t]
  BY <1>3, <1>4, <1>7 DEF Ready
<1> HIDE DEF y
<1>9. x = y \/ Before(x, y)
  <2>1. CASE y.admitted
    BY <1>6, <1>8, <2>1 DEF Heads, Admitted, Ready
  <2>2. CASE ~y.admitted
    <3>1. y \notin Drained(Offers, c)
      BY <1>3, <1>5, <1>8 DEF Dropped
    <3>2. PICK z : z \in Heads(Offers, c) /\ ~Before(y, z)
      BY <1>8, <2>2, <3>1 DEF Drained
    <3>3. z = x
      BY <1>6, <3>2, OneHead
    <3>4. x.place # y.place
      BY <1>6, <1>8, <2>2, OffersOrdered DEF Ready, Heads, Admitted
    <3>5. x.key \in Int /\ y.key \in Int /\ x.place \in Int /\ y.place \in Int
      BY <1>6, <1>8, OfferType DEF Ready
    <3> QED
      BY <3>2, <3>3, <3>4, <3>5 DEF Before
  <2> QED
    BY <2>1, <2>2
<1>10. t # u
  BY <1>2, <1>3
<1>11. order[t] <= order[u]
  BY <1>3, <1>5, <1>8, <1>9, <1>10 DEF Before, Queued, IInv, TypeOK
<1>12. order[t] # order[u]
  BY <1>3, <1>10 DEF Ordered, Queued
<1>13. order[t] \in Int /\ order[u] \in Int
  BY <1>3 DEF Queued, IInv, TypeOK
<1> QED
  BY <1>11, <1>12, <1>13

\* It starts as standard work, as it waited.
LEMMA StartsStandard ==
    ASSUME Baseline, IInv, OneClass, [Next]_vars, NEW t \in Task, Starts(t)
    PROVE  effective'[t] = STANDARD
<1>1. PICK blocked : Dispatch(Started(Offers), Dropped(Offers), blocked)
  BY StartIsDispatch
<1>2. Class(t) = STANDARD
  BY DEF Baseline, Class, OneClass, Starts, Queued
<1> QED
  BY <1>1, <1>2 DEF Dispatch

\* tests/test_simulation.py:60: the baselines preserve arrival order, however
\* tasks are nudged, cancelled or refused.  Only a new deadline breaks it.
THEOREM ArrivalTheorem == Baseline => (Spec => ArrivalOrder)
<1> SUFFICES ASSUME Baseline PROVE Spec => ArrivalOrder
  OBVIOUS
<1>1. IInv /\ Ordered /\ OneClass /\ [Next]_vars =>
        [\A t \in Task : Starts(t) => \A u \in Queued' : order[t] < order[u]]_vars
  BY EarlierFirst
<1> QED
  BY <1>1, InvHolds, OrderedHolds, OneClassHolds, PTL DEF Spec, ArrivalOrder
=============================================================================
