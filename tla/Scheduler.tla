----------------------------- MODULE Scheduler ------------------------------
(***************************************************************************)
(* The scheduler of scheduler.py as gateway.py drives it: priority classes *)
(* with reservations, earliest-deadline or arrival order inside a class,   *)
(* deadline escalation, dispatch-time redecision, and tasks that hold one  *)
(* to three provider-call slots until they finish.                         *)
(*                                                                         *)
(* Each action is one call into the scheduler under its lock, with the     *)
(* gateway steps that belong to the same call (planning before enqueue and *)
(* after a nudge or a new deadline).  The heaps with their generations and *)
(* stale entries are abstracted: a class is the set of its queued tasks,   *)
(* ordered by the key of their offer and then by the position of their     *)
(* live heap entry.                                                        *)
(***************************************************************************)
EXTENDS Policy, FiniteSets

CONSTANTS
    Task,               \* the task ids that may be submitted
    Contracts,          \* the contracts they may carry
    Deadlines,          \* the deadlines update_deadline may install
    Capacity,           \* provider-call slots
    Reservation,        \* slots protected for each class
    DeferredLimit,      \* load at which deferred work stops starting
    EscalationWindow,   \* how close a deadline promotes its task
    Discipline,         \* "edf" or "fifo"
    EnableEscalation,   \* whether next_task escalates
    Mode,               \* which of the three policies plans
    Horizon             \* bound on the clock

ASSUME SchedulerAssumption ==
    /\ IsFiniteSet(Task)
    /\ Contracts \subseteq TaskContract
    /\ \A c \in Contracts : c.deadline \in Nat
    /\ Deadlines \subseteq Nat
    /\ Capacity \in Nat \ {0}
    /\ Reservation \in [PriorityClass -> Nat]
    /\ Reservation[INTERACTIVE] + Reservation[STANDARD] + Reservation[DEFERRED_BATCH]
          <= Capacity
    /\ DeferredLimit \in 1 .. Capacity
    /\ EscalationWindow \in Nat
    /\ Discipline \in {"edf", "fifo"}
    /\ EnableEscalation \in BOOLEAN
    /\ Mode \in RunMode
    /\ Horizon \in Nat

VARIABLES
    now,        \* the clock
    state,      \* ScheduledTask.state
    contract,   \* ScheduledTask.contract
    decision,   \* ScheduledTask.decision
    effective,  \* ScheduledTask.effective_priority
    order,      \* _queue_order, and the task's place in _tasks; 0 before
    place       \* rank of the task's live heap entry among all live entries

vars == <<now, state, contract, decision, effective, order, place>>

TaskState == {"new", "queued", "in-flight", "completed", "failed", "cancelled", "rejected"}
N == Cardinality(Task)
Queued == {t \in Task : state[t] = "queued"}

-----------------------------------------------------------------------------
(* Capacity *)

\* ScheduledTask.capacity_units
Units(d) == IF d.template = PARALLEL_JUDGE THEN d.drafts ELSE 1

\* The slots held by the running tasks of S, and in_flight_by_class.
Slots(S) ==
    UNION {{t} \X (1 .. Units(decision[t])) : t \in {u \in S : state[u] = "in-flight"}}
InFlightCount == Cardinality(Slots(Task))
InFlightByClass(c) == Cardinality(Slots({t \in Task : effective[t] = c}))

\* Gateway._fleet
Fleet(allowDeferral) ==
    [now |-> now, inFlight |-> InFlightCount, capacity |-> Capacity,
     lowLoad |-> IF allowDeferral THEN {NextLowLoad(now)} ELSE {}]

\* A fresh heap entry is the youngest: temp ranks old and new entries alike
\* and Requeue numbers the live ones from 1 again.
Requeue(temp, live) ==
    [t \in Task |->
        IF t \in live THEN Cardinality({u \in live : temp[u] <= temp[t]}) ELSE 0]

-----------------------------------------------------------------------------
(* Escalation *)

\* Mutants of Aged: the overdue test comes after the window test; standard
\* work is never promoted; nothing is promoted before it is overdue.
AgedWindowFirst(class, deadline) ==
    IF deadline - now > EscalationWindow THEN class
    ELSE IF class = DEFERRED_BATCH THEN STANDARD ELSE INTERACTIVE
AgedToStandard(class, deadline) ==
    IF class = DEFERRED_BATCH /\ deadline - now <= EscalationWindow THEN STANDARD ELSE class
AgedWhenOverdue(class, deadline) == IF deadline <= now THEN INTERACTIVE ELSE class

\* The class escalate gives a queued task of this class and deadline.
Aged(class, deadline) ==
    CASE class = STANDARD /\ deadline - now <= EscalationWindow -> INTERACTIVE
      [] class = DEFERRED_BATCH /\ deadline <= now -> INTERACTIVE
      [] class = DEFERRED_BATCH /\ now < deadline /\ deadline - now <= EscalationWindow
            -> STANDARD
      [] OTHER -> class

\* The class of t after escalate has run with this deadline.
Escalated(t, deadline) ==
    IF state[t] = "queued" THEN Aged(effective[t], deadline) ELSE effective[t]

\* Mutant of PromotedPlan: the promotion leaves the window alone.
PromotedPlanKept(t, class) == decision[t]

\* A promotion overrides a future window and pushes a fresh entry, in the
\* order of _tasks; without one the task stays as it is.
PromotedPlan(t, class) ==
    IF class = effective[t] THEN decision[t] ELSE [decision[t] EXCEPT !.at = now]
PromotedPlace(t, class) == IF class = effective[t] THEN place[t] ELSE N + order[t]

-----------------------------------------------------------------------------
(* Dispatch: next_task as a function of the escalated queue *)

\* Mutant of Class: the baselines escalate too.
ClassAlwaysEscalated(t) == Escalated(t, contract[t].deadline)

Class(t) ==
    IF EnableEscalation THEN Escalated(t, contract[t].deadline) ELSE effective[t]

\* Gateway._dispatch_decision
Redecision(t) ==
    [Decide(Mode, contract[t], Fleet(FALSE)) EXCEPT !.class = Class(t), !.at = now]

\* Mutant of Offer: the admission at submission is trusted.
OfferTrusted(t) ==
    LET plan == Redecision(t) IN
    [task |-> t, class |-> Class(t),
     key |-> IF Discipline = "edf" THEN contract[t].deadline ELSE order[t],
     place |-> PromotedPlace(t, Class(t)),
     units |-> Units(plan), admitted |-> Units(plan) <= Capacity]

\* What the loop of next_task sees of one task: its place in the heap of its
\* class, and what admission says of its redecision.
Offer(t) ==
    LET plan == Redecision(t) IN
    [task |-> t, class |-> Class(t),
     key |-> IF Discipline = "edf" THEN contract[t].deadline ELSE order[t],
     place |-> PromotedPlace(t, Class(t)),
     units |-> Units(plan),
     admitted |-> CheckAdmission(contract[t], plan) /\ Units(plan) <= Capacity]

\* The offers of the ready tasks.  The operators below take such a set.
Offers == {Offer(t) : t \in {u \in Queued : PromotedPlan(u, Class(u)).at <= now}}

Before(x, y) == x.key < y.key \/ (x.key = y.key /\ x.place < y.place)

Ready(offers, c) == {x \in offers : x.class = c}
Admitted(offers, c) == {x \in offers : x.class = c /\ x.admitted}

\* The first admitted offer of a class (at most one), and the refused ones
\* the loop meets and rejects on the way to it.
Heads(offers, c) ==
    {x \in Admitted(offers, c) : \A y \in Admitted(offers, c) : x = y \/ Before(x, y)}
Drained(offers, c) ==
    {x \in Ready(offers, c) : ~x.admitted /\ \A y \in Heads(offers, c) : Before(x, y)}

Rank(c) == CASE c = INTERACTIVE -> 0 [] c = STANDARD -> 1 [] OTHER -> 2

\* Mutant of Waiting: only more urgent classes are protected.
WaitingAbove(offers, o, c) == Rank(o) < Rank(c) /\ Admitted(offers, o) # {}

\* When the loop tries class c, a more urgent class has already lost its
\* refused tasks, a less urgent one still counts them as ready.
Waiting(offers, o, c) ==
    IF Rank(o) < Rank(c) THEN Admitted(offers, o) # {} ELSE Ready(offers, o) # {}

Shortfall(o) ==
    LET used == InFlightByClass(o) IN
    IF Reservation[o] > used THEN Reservation[o] - used ELSE 0
ProtectedFor(offers, o, c) == IF o # c /\ Waiting(offers, o, c) THEN Shortfall(o) ELSE 0
Protected(offers, c) ==
    ProtectedFor(offers, INTERACTIVE, c) + ProtectedFor(offers, STANDARD, c)
        + ProtectedFor(offers, DEFERRED_BATCH, c)

\* Mutants of CanUseSlot: every task counts for one slot; the deferred limit
\* is tested one slot late; the last unprotected slot is never used.
CanUseOneSlot(offers, c, units) ==
    /\ InFlightCount < Capacity
    /\ c = DEFERRED_BATCH => InFlightCount < DeferredLimit
    /\ Capacity - InFlightCount - 1 >= Protected(offers, c)
CanUseSlotLate(offers, c, units) ==
    /\ InFlightCount + units <= Capacity
    /\ c = DEFERRED_BATCH => InFlightCount <= DeferredLimit
    /\ Capacity - InFlightCount - units >= Protected(offers, c)
CanUseSpareSlot(offers, c, units) ==
    /\ InFlightCount + units <= Capacity
    /\ c = DEFERRED_BATCH => InFlightCount < DeferredLimit
    /\ Capacity - InFlightCount - units > Protected(offers, c)

\* _can_use_slot
CanUseSlot(offers, c, units) ==
    /\ InFlightCount + units <= Capacity
    /\ c = DEFERRED_BATCH => InFlightCount < DeferredLimit
    /\ Capacity - InFlightCount - units >= Protected(offers, c)

Startable(offers, c) == {x \in Heads(offers, c) : CanUseSlot(offers, c, x.units)}

\* Classes are tried from the most urgent down, until one starts a task.
Tried(offers) ==
    {c \in PriorityClass :
        \A o \in PriorityClass : Rank(o) < Rank(c) => Startable(offers, o) = {}}

Started(offers) == {x.task : x \in UNION {Startable(offers, c) : c \in Tried(offers)}}
Dropped(offers) == {x.task : x \in UNION {Drained(offers, c) : c \in Tried(offers)}}
Blocked(offers) ==
    {x.task : x \in UNION {Heads(offers, c) \ Startable(offers, c) : c \in Tried(offers)}}

-----------------------------------------------------------------------------
(* Actions *)

\* A task never submitted carries no decision; the field holds its plan on an
\* idle fleet until Submit overwrites it.
Init ==
    /\ now = 0
    /\ state = [t \in Task |-> "new"]
    /\ contract \in [Task -> Contracts]
    /\ decision = [t \in Task |->
          Decide(Mode, contract[t],
                 [now |-> 0, inFlight |-> 0, capacity |-> Capacity, lowLoad |-> {}])]
    /\ effective = [t \in Task |-> decision[t].class]
    /\ order = [t \in Task |-> 0]
    /\ place = [t \in Task |-> 0]

\* Gateway.submit up to its tick: plan, check admission, enqueue.
Submit(t) ==
    LET plan == Decide(Mode, contract[t], Fleet(TRUE)) IN
    /\ state[t] = "new"
    /\ decision' = [decision EXCEPT ![t] = plan]
    /\ effective' = [effective EXCEPT ![t] = plan.class]
    /\ \/ /\ CheckAdmission(contract[t], plan)
          /\ state' = [state EXCEPT ![t] = "queued"]
          /\ order' = [order EXCEPT ![t] = 1 + Cardinality({u \in Task : order[u] > 0})]
          /\ place' = Requeue([place EXCEPT ![t] = N + 1], Queued \cup {t})
       \/ /\ ~CheckAdmission(contract[t], plan)
          /\ state' = [state EXCEPT ![t] = "rejected"]
          /\ UNCHANGED <<order, place>>
    /\ UNCHANGED <<now, contract>>

\* The effect of one next_task on the queue it found: reject the drained
\* offers, start the started one, push the blocked heads back after
\* everything else in class order, keep the promotions.
Dispatch(started, dropped, blocked) ==
    /\ state' = [t \in Task |-> IF t \in started THEN "in-flight"
                               ELSE IF t \in dropped THEN "rejected" ELSE state[t]]
    /\ decision' = [t \in Task |-> IF t \in started \cup dropped
                                  THEN Redecision(t) ELSE PromotedPlan(t, Class(t))]
    /\ effective' = [t \in Task |-> Class(t)]
    /\ place' = Requeue([t \in Task |-> IF t \in blocked THEN 2 * N + 1 + Rank(Class(t))
                                       ELSE PromotedPlace(t, Class(t))],
                        Queued \ (started \cup dropped))
    /\ UNCHANGED <<now, contract, order>>

\* One round of dispatch_ready: next_task, called while a slot is free.
NextTask ==
    /\ InFlightCount < Capacity
    /\ \E offers \in {Offers} :
          \E started \in {Started(offers)}, dropped \in {Dropped(offers)},
             blocked \in {Blocked(offers)} : Dispatch(started, dropped, blocked)

\* complete and fail release the slots; running work is never preempted.
Finish(t, outcome) ==
    /\ state[t] = "in-flight"
    /\ state' = [state EXCEPT ![t] = outcome]
    /\ UNCHANGED <<now, contract, decision, effective, order, place>>

Complete(t) == Finish(t, "completed")
Fail(t) == Finish(t, "failed")

\* Mutant of Cancel: running work can be cancelled.
CancelActive(t) ==
    /\ state[t] \in {"queued", "in-flight"}
    /\ state' = [state EXCEPT ![t] = "cancelled"]
    /\ place' = Requeue(place, Queued \ {t})
    /\ UNCHANGED <<now, contract, decision, effective, order>>

Cancel(t) ==
    /\ state[t] = "queued"
    /\ state' = [state EXCEPT ![t] = "cancelled"]
    /\ place' = Requeue(place, Queued \ {t})
    /\ UNCHANGED <<now, contract, decision, effective, order>>

\* Mutant of Nudge: the plan is made for the contract before the nudge.
NudgeOnOldContract(t) ==
    LET revealed == [contract[t] EXCEPT !.interactive = TRUE]
        plan == Decide(Mode, contract[t], Fleet(TRUE)) IN
    /\ contract' = [contract EXCEPT ![t] = revealed]
    /\ \/ /\ state[t] = "queued"
          /\ decision' = [decision EXCEPT ![t] = plan]
          /\ effective' = [effective EXCEPT ![t] = plan.class]
          /\ place' = Requeue([place EXCEPT ![t] = N + 1], Queued)
       \/ /\ state[t] = "in-flight"
          /\ effective' = [effective EXCEPT ![t] = INTERACTIVE]
          /\ UNCHANGED <<decision, place>>
    /\ UNCHANGED <<now, state, order>>

\* Gateway.nudge up to its tick: queued work is planned again, running work
\* is only relabelled.
Nudge(t) ==
    LET revealed == [contract[t] EXCEPT !.interactive = TRUE]
        plan == Decide(Mode, revealed, Fleet(TRUE)) IN
    /\ contract' = [contract EXCEPT ![t] = revealed]
    /\ \/ /\ state[t] = "queued"
          /\ decision' = [decision EXCEPT ![t] = plan]
          /\ effective' = [effective EXCEPT ![t] = plan.class]
          /\ place' = Requeue([place EXCEPT ![t] = N + 1], Queued)
       \/ /\ state[t] = "in-flight"
          /\ effective' = [effective EXCEPT ![t] = INTERACTIVE]
          /\ UNCHANGED <<decision, place>>
    /\ UNCHANGED <<now, state, order>>

\* Gateway.update_deadline up to its tick: the scheduler escalates the whole
\* queue, whatever EnableEscalation says, and then the task is planned again.
UpdateDeadline(t, deadline) ==
    LET revised == [contract[t] EXCEPT !.deadline = deadline]
        class(u) == Escalated(u, IF u = t THEN deadline ELSE contract[u].deadline)
        plan == Decide(Mode, revised, Fleet(TRUE)) IN
    /\ contract' = [contract EXCEPT ![t] = revised]
    /\ \/ /\ state[t] = "queued"
          /\ decision' = [u \in Task |->
                IF u = t THEN plan ELSE PromotedPlan(u, class(u))]
          /\ effective' = [u \in Task |-> IF u = t THEN plan.class ELSE class(u)]
          /\ place' = Requeue([u \in Task |->
                IF u = t THEN 2 * N + 1 ELSE PromotedPlace(u, class(u))], Queued)
       \/ /\ state[t] = "in-flight"
          /\ UNCHANGED <<decision, effective, place>>
    /\ UNCHANGED <<now, state, order>>

\* The clock, bounded by Horizon.
Elapse ==
    /\ now < Horizon
    /\ now' = now + 1
    /\ UNCHANGED <<state, contract, decision, effective, order, place>>

Next ==
    \/ NextTask
    \/ Elapse
    \/ \E t \in Task :
          \/ Submit(t) \/ Complete(t) \/ Fail(t) \/ Cancel(t) \/ Nudge(t)
          \/ \E d \in Deadlines : UpdateDeadline(t, d)

Spec == Init /\ [][Next]_vars

\* The scheduler loop wakes for ever, provider calls return or raise, and
\* the clock runs.
Fairness ==
    /\ WF_vars(NextTask)
    /\ WF_vars(Elapse)
    /\ \A t \in Task : WF_vars(Complete(t) \/ Fail(t))

FairSpec == Spec /\ Fairness

-----------------------------------------------------------------------------
(* Properties *)

\* Every field of every task stays in its domain, and the clock in its bound.
TypeOK ==
    /\ now \in 0 .. Horizon
    /\ state \in [Task -> TaskState]
    /\ contract \in [Task -> TaskContract]
    /\ decision \in [Task -> DecisionRecord]
    /\ effective \in [Task -> PriorityClass]
    /\ order \in [Task -> 0 .. N]
    /\ place \in [Task -> 0 .. N]

\* The peak calls of the running tasks, redecided settings included, never
\* exceed the capacity (next_task reserves what the redecision needs, not
\* what was planned at submission).
CapacityRespected == InFlightCount <= Capacity

\* No task runs on settings its cap does not pay for, although the settings
\* are chosen again at dispatch, where less load or a nudge since the
\* submission can make them dearer than what was admitted.
RunningWithinCap ==
    \A t \in Task : state[t] = "in-flight" => CheckAdmission(contract[t], decision[t])

\* The only ready work is what a class may count: a task waits for its start
\* only in the deferred class and only with the margin left.  Promotion,
\* nudges and new deadlines all leave a task that is ready or still patient.
PostponedIsPatient ==
    \A t \in Queued : decision[t].at > now =>
        /\ effective[t] = DEFERRED_BATCH
        /\ decision[t].at + SafetyMargin <= contract[t].deadline

\* Revealed intent is kept: once a person waits, the task is in the top class
\* and ready until it ends, whatever deadline it is given afterwards.
HumanWaitingIsInteractive ==
    Mode = "intent-aware" =>
        \A t \in Task : state[t] \in {"queued", "in-flight"} /\ contract[t].interactive =>
            effective[t] = INTERACTIVE /\ decision[t].at <= now

\* Queued work loses its turn to nothing but its own deadline: neither the
\* nudges and deadlines of others nor dispatches, time or its own nudge lower
\* its class or postpone it once it is ready.  A plan for its own new deadline,
\* be it the old one again, may do both.
UrgencyKept ==
    [][Mode = "intent-aware" =>
         \A t \in Queued \cap Queued' :
            \/ /\ Rank(effective'[t]) <= Rank(effective[t])
               /\ decision[t].at <= now => decision'[t].at <= now'
            \/ \E d \in Deadlines : UpdateDeadline(t, d)]_vars

\* docs/architecture.md:28: intent-aware scheduling "uses the same execution
\* choices as contract-FIFO".  Up to six slots a dispatch always finds less
\* than the high load, so what runs is what the contract alone selects.
RunningUndegraded ==
    Capacity <= 6 =>
        \A t \in Task : state[t] = "in-flight" =>
            LET alone == Decide(Mode, contract[t], [Fleet(FALSE) EXCEPT !.inFlight = 0]) IN
            /\ decision[t].model = alone.model /\ decision[t].effort = alone.effort
            /\ decision[t].template = alone.template /\ decision[t].drafts = alone.drafts

\* The limit on deferred work is tested before the slots of the task are
\* added: the deferred class overshoots it, but by less than one task.
BatchShare == InFlightByClass(DEFERRED_BATCH) < DeferredLimit + 3

Starts(t) == state[t] = "queued" /\ state'[t] = "in-flight"

\* The ready work a class is left with, as the next caller would count it.
ReadyWork(c) == {t \in Queued : effective[t] = c /\ decision[t].at <= now}

Owed(o, c) == IF o # c /\ ReadyWork(o) # {} THEN Shortfall(o) ELSE 0

\* scheduler.py:115: reservations "protect slots for classes with eligible
\* queued work".  After any start, every other class with ready work finds
\* free what it is still owed, promotions of the same step included.
ReservationsKept ==
    [][\A t \in Task : Starts(t) =>
         InFlightCount' + (Owed(INTERACTIVE, effective[t]) + Owed(STANDARD, effective[t])
            + Owed(DEFERRED_BATCH, effective[t]))' <= Capacity]_vars

\* Lateness wins: whenever the scheduler starts a task, everything overdue
\* that stays queued is already in the top class and ready.
OverdueIsUrgent ==
    [][EnableEscalation /\ (\E t \in Task : Starts(t)) =>
         \A u \in Queued' : contract[u].deadline <= now =>
            effective'[u] = INTERACTIVE /\ decision'[u].at <= now]_vars

\* tests/test_simulation.py:60: "Both baselines must preserve arrival order
\* even when deadlines approach."  No task starts before an earlier arrival.
ArrivalOrder ==
    [][\A t \in Task : Starts(t) => \A u \in Queued' : order[t] < order[u]]_vars

\* docs/architecture.md:36: "Capacity may remain idle while the gateway waits
\* for the planned low-load window."  With reservations that leave room for
\* the largest task it is idle for nothing else: with no task running, ready
\* and admissible work makes next_task start a task.
IdleFleetServes ==
    InFlightCount = 0 /\ (\E x \in Offers : x.admitted) => Started(Offers) # {}

\* Every queued task leaves the queue: no reservation, limit, class order or
\* window keeps it there once the clock has passed the deadlines.
ServedEventually ==
    \A t \in Task : state[t] = "queued" ~> state[t] # "queued"

\* The scheduler implements the lifecycle it promises.
Lifecycle == INSTANCE TaskLifecycle WITH
    status <- state,
    held <- [t \in Task |-> IF state[t] = "in-flight" THEN Units(decision[t]) ELSE 0]
ImplementsLifecycle == Lifecycle!Spec
=============================================================================
