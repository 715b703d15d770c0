--------------------------- MODULE SchedulerHeaps ---------------------------
(***************************************************************************)
(* The data structure of scheduler.py that module Scheduler abstracts to a *)
(* rank: one heap per class.  No entry is taken out when its task changes  *)
(* class, deadline or plan; every push gives the task a new generation,    *)
(* and the entries of older generations are stale.                         *)
(*                                                                         *)
(* The scheduler is one object.  A method is an operator from the object   *)
(* it finds to the object it leaves; an action is the methods one gateway  *)
(* call invokes.  Only next_task takes several steps: it is the loop of    *)
(* the code here, one pop at a time, under the lock.  ImplementsScheduler  *)
(* says that whoever waits for the lock sees module Scheduler.             *)
(***************************************************************************)
EXTENDS Policy, Sequences, FiniteSets

CONSTANTS
    Task, Contracts, Deadlines, Capacity, Reservation, DeferredLimit,
    EscalationWindow, Discipline, EnableEscalation, Mode, Horizon,
    MaxSequence         \* bound on the sequence numbers drawn

ASSUME HeapAssumption ==
    /\ IsFiniteSet(Task)
    /\ Contracts \subseteq TaskContract
    /\ \A c \in Contracts : c.deadline \in Nat
    /\ Deadlines \subseteq Nat
    /\ Capacity \in Nat \ {0}
    /\ Reservation \in [PriorityClass -> Nat]
    /\ Reservation[INTERACTIVE] + Reservation[STANDARD] + Reservation[DEFERRED_BATCH]
          <= Capacity
    /\ DeferredLimit \in 1 .. Capacity
    /\ EscalationWindow \in Nat
    /\ Discipline \in {"edf", "fifo"}
    /\ EnableEscalation \in BOOLEAN
    /\ Mode \in RunMode
    /\ Horizon \in Nat
    /\ MaxSequence \in Nat

VARIABLES
    now,    \* the clock
    self,   \* the Scheduler object, with the fields of its ScheduledTasks
    trying, \* the classes the loop of next_task has still to try
    seen    \* the object as it was when next_task took the lock

vars == <<now, self, trying, seen>>

\* _queue_order of a task that has none.
None == -1

PRIORITY_ORDER == <<INTERACTIVE, STANDARD, DEFERRED_BATCH>>

-----------------------------------------------------------------------------
(* Capacity and entries *)

Units(d) == IF d.template = PARALLEL_JUDGE THEN d.drafts ELSE 1

\* The slots held by the running tasks among these, in_flight_count, and
\* in_flight_by_class.
Slots(s, tasks) ==
    UNION {{t} \X (1 .. Units(s.decision[t])) : t \in {u \in tasks : s.state[u] = "in-flight"}}
InFlightCount(s) == Cardinality(Slots(s, Task))
InFlightByClass(s, c) == Cardinality(Slots(s, {t \in Task : s.effective[t] = c}))

Fleet(s, allowDeferral) ==
    [now |-> now, inFlight |-> InFlightCount(s), capacity |-> Capacity,
     lowLoad |-> IF allowDeferral THEN {NextLowLoad(now)} ELSE {}]

\* The key of an entry for t.
Key(s, t) == IF Discipline = "edf" THEN s.contract[t].deadline ELSE s.order[t]

\* An entry in the heap of each task's class, numbered in the order in which
\* the tasks came in.
Entered(s, tasks) ==
    LET turn(t) == Cardinality({u \in tasks : s.order[u] < s.order[t]})
        entry(t) == [key |-> Key(s, t), sequence |-> s.sequence + turn(t),
                     generation |-> s.generation[t], task |-> t] IN
    [s EXCEPT !.sequence = @ + Cardinality(tasks),
              !.queues = [c \in PriorityClass |->
                  @[c] \cup {entry(t) : t \in {u \in tasks : s.effective[u] = c}}]]

\* Mutant of PushAll: every entry is of the same generation.
PushAllSameGeneration(s, tasks) == Entered(s, tasks)

\* _push of each of these tasks.
PushAll(s, tasks) ==
    Entered([s EXCEPT !.generation =
                [t \in Task |-> IF t \in tasks THEN @[t] + 1 ELSE @[t]]], tasks)
Push(s, t) == PushAll(s, {t})

Before(x, y) == x.key < y.key \/ (x.key = y.key /\ x.sequence < y.sequence)

ValidEntry(s, c, e) ==
    /\ s.state[e.task] = "queued"
    /\ s.effective[e.task] = c
    /\ s.generation[e.task] = e.generation

ReadyEntries(s, c) ==
    {e \in s.queues[c] : ValidEntry(s, c, e) /\ s.decision[e.task].at <= now}
HasReady(s, c) == ReadyEntries(s, c) # {}
IsFirst(e, entries) == e \in entries /\ \A x \in entries : e = x \/ Before(e, x)

\* _pop_ready: the first ready entry goes, and the stale ones before it; what
\* is valid but not ready yet is pushed back as it was.
Popped(s, c, selected) ==
    [s EXCEPT !.queues[c] = {e \in @ \ {selected} : Before(selected, e) \/ ValidEntry(s, c, e)}]

-----------------------------------------------------------------------------
(* Escalation *)

\* The class one escalation gives a queued task, the same if none applies.
Target(s, t) ==
    LET slack == s.contract[t].deadline - now IN
    CASE s.effective[t] = STANDARD /\ slack <= EscalationWindow -> INTERACTIVE
      [] s.effective[t] = DEFERRED_BATCH /\ slack <= 0 -> INTERACTIVE
      [] s.effective[t] = DEFERRED_BATCH /\ slack > 0 /\ slack <= EscalationWindow -> STANDARD
      [] OTHER -> s.effective[t]

\* escalate promotes whatever has a target, in the order of _tasks.
Escalate(s) ==
    LET promoted == {t \in Task : s.state[t] = "queued" /\ Target(s, t) # s.effective[t]} IN
    PushAll([s EXCEPT
                !.effective = [t \in Task |-> IF t \in promoted THEN Target(s, t) ELSE @[t]],
                !.decision = [t \in Task |->
                    IF t \in promoted THEN [@[t] EXCEPT !.at = now] ELSE @[t]]],
            promoted)

-----------------------------------------------------------------------------
(* Dispatch *)

ProtectedFor(s, o, c) ==
    IF o # c /\ HasReady(s, o) /\ Reservation[o] > InFlightByClass(s, o)
    THEN Reservation[o] - InFlightByClass(s, o) ELSE 0
Protected(s, c) ==
    ProtectedFor(s, INTERACTIVE, c) + ProtectedFor(s, STANDARD, c)
        + ProtectedFor(s, DEFERRED_BATCH, c)

CanUseSlot(s, c, units) ==
    /\ InFlightCount(s) + units <= Capacity
    /\ c = DEFERRED_BATCH => InFlightCount(s) < DeferredLimit
    /\ Capacity - InFlightCount(s) - units >= Protected(s, c)

Redecision(s, t) ==
    [Decide(Mode, s.contract[t], Fleet(s, FALSE)) EXCEPT !.class = s.effective[t], !.at = now]

\* Mutant of Blocked: a blocked head keeps the new decision.
BlockedRedecided(s, popped, t) ==
    Push([popped EXCEPT !.decision[t] = Redecision(s, t)], t)

\* The head of a class that finds no slot goes back with its prior decision.
Blocked(s, popped, t) == Push(popped, t)

Admissible(s, t) ==
    LET plan == Redecision(s, t) IN
    CheckAdmission(s.contract[t], plan) /\ Units(plan) <= Capacity

-----------------------------------------------------------------------------
(* Actions *)

Init ==
    /\ now = 0
    /\ \E contract \in [Task -> Contracts] :
         LET plan == [t \in Task |->
                Decide(Mode, contract[t],
                       [now |-> 0, inFlight |-> 0, capacity |-> Capacity, lowLoad |-> {}])] IN
         self = [state |-> [t \in Task |-> "new"], contract |-> contract, decision |-> plan,
                 effective |-> [t \in Task |-> plan[t].class],
                 order |-> [t \in Task |-> None], generation |-> [t \in Task |-> 0],
                 sequence |-> 0, queues |-> [c \in PriorityClass |-> {}]]
    /\ trying = <<>>
    /\ seen = self

\* The object after a step, and what is left of the loop; the lock is
\* released with the last class.
Continue(s, classes) ==
    /\ self' = s
    /\ trying' = classes
    /\ seen' = IF classes = <<>> THEN s ELSE seen
    /\ UNCHANGED now

\* A call of one step, unless the bound on sequence numbers is reached.
Return(s) == trying = <<>> /\ s.sequence <= MaxSequence /\ Continue(s, <<>>)

\* Gateway.submit up to its tick; enqueue draws a number for the arrival and
\* another for the entry.
Submit(t) ==
    LET plan == Decide(Mode, self.contract[t], Fleet(self, TRUE))
        planned == [self EXCEPT !.decision[t] = plan, !.effective[t] = plan.class]
        numbered == [planned EXCEPT !.order[t] = self.sequence, !.sequence = @ + 1,
                                    !.state[t] = "queued"] IN
    /\ self.state[t] = "new"
    /\ Return(IF CheckAdmission(self.contract[t], plan) THEN Push(numbered, t)
              ELSE [planned EXCEPT !.state[t] = "rejected"])

\* next_task, called while a slot is free, takes the lock and escalates; the
\* bound leaves room for every head it may push back.
NextTask ==
    LET aged == IF EnableEscalation THEN Escalate(self) ELSE self IN
    /\ trying = <<>>
    /\ InFlightCount(self) < Capacity
    /\ aged.sequence + Cardinality({t \in Task : self.state[t] = "queued"}) <= MaxSequence
    /\ Continue(aged, PRIORITY_ORDER)

\* The while loop over a class ends: nothing in it is ready.
PassOver ==
    /\ trying # <<>>
    /\ ~HasReady(self, Head(trying))
    /\ Continue(self, Tail(trying))

\* A pass through the while loop with the entry it pops: its task is planned
\* again and then refused, started, or found to have no slot.
Try(e) ==
    LET c == Head(trying)
        t == e.task
        popped == Popped(self, c, e)
        decided == [popped EXCEPT !.decision[t] = Redecision(self, t)] IN
    /\ IsFirst(e, ReadyEntries(self, c))
    /\ \/ /\ ~Admissible(self, t)
          /\ Continue([decided EXCEPT !.state[t] = "rejected"], trying)
       \/ /\ Admissible(self, t) /\ CanUseSlot(popped, c, Units(Redecision(self, t)))
          /\ Continue([decided EXCEPT !.state[t] = "in-flight"], <<>>)
       \/ /\ Admissible(self, t) /\ ~CanUseSlot(popped, c, Units(Redecision(self, t)))
          /\ Continue(Blocked(self, popped, t), Tail(trying))

\* complete and fail
Finish(t) ==
    /\ self.state[t] = "in-flight"
    /\ \E outcome \in {"completed", "failed"} : Return([self EXCEPT !.state[t] = outcome])

\* cancel leaves the entry in its heap.
Cancel(t) ==
    /\ self.state[t] = "queued"
    /\ Return([self EXCEPT !.state[t] = "cancelled"])

\* update_decision, the second half of _replan.
UpdateDecision(s, t, plan) ==
    Push([s EXCEPT !.decision[t] = plan, !.effective[t] = plan.class], t)

\* Gateway._replan of queued work.
Replan(s, t) ==
    IF s.state[t] = "queued"
    THEN UpdateDecision(s, t, Decide(Mode, s.contract[t], Fleet(s, TRUE))) ELSE s

Nudge(t) ==
    LET revealed == [self EXCEPT !.contract[t].interactive = TRUE] IN
    /\ self.state[t] \in {"queued", "in-flight"}
    /\ Return(IF self.state[t] = "queued" THEN Replan(revealed, t)
              ELSE [revealed EXCEPT !.effective[t] = INTERACTIVE])

\* The scheduler pushes the task under its new deadline, escalates the queue,
\* and the gateway plans the task again.
UpdateDeadline(t, deadline) ==
    LET revised == [self EXCEPT !.contract[t].deadline = deadline] IN
    /\ self.state[t] \in {"queued", "in-flight"}
    /\ Return(IF self.state[t] = "queued" THEN Replan(Escalate(Push(revised, t)), t)
              ELSE revised)

Elapse ==
    /\ trying = <<>>
    /\ now < Horizon
    /\ now' = now + 1
    /\ UNCHANGED <<self, trying, seen>>

Next ==
    \/ NextTask
    \/ PassOver
    \/ trying # <<>> /\ \E e \in self.queues[Head(trying)] : Try(e)
    \/ Elapse
    \/ \E t \in Task :
          \/ Submit(t) \/ Finish(t) \/ Cancel(t) \/ Nudge(t)
          \/ \E d \in Deadlines : UpdateDeadline(t, d)

Spec == Init /\ [][Next]_vars

-----------------------------------------------------------------------------
(* Properties *)

LiveEntries(s, t) ==
    {e \in s.queues[s.effective[t]] : e.task = t /\ ValidEntry(s, s.effective[t], e)}

\* Whatever entries older pushes have left in whatever heaps, and in whatever
\* order tasks leave classes and come back to them: a queued task has exactly
\* one entry next_task can find, in the heap of its class, and its key is the
\* deadline the contract has now (or its arrival).  Nothing else can be found,
\* in the midst of the loop either.
OneLiveEntry ==
    \A t \in Task :
        /\ Cardinality(LiveEntries(self, t)) = IF self.state[t] = "queued" THEN 1 ELSE 0
        /\ \A e \in LiveEntries(self, t) : e.key = Key(self, t)

Youngest(t) == CHOOSE e \in LiveEntries(seen, t) : TRUE
QueuedTasks == {t \in Task : seen.state[t] = "queued"}

\* The scheduler with heaps, generations and a loop is the scheduler that
\* chooses among sets of offers: the same task starts, the same are refused,
\* and the entries left in the heaps never tell.
Abstract == INSTANCE Scheduler WITH
    state <- seen.state, contract <- seen.contract, decision <- seen.decision,
    effective <- seen.effective,
    order <- [t \in Task |->
        IF seen.order[t] = None THEN 0
        ELSE Cardinality({u \in Task : seen.order[u] \in 0 .. seen.order[t]})],
    place <- [t \in Task |->
        IF t \notin QueuedTasks THEN 0
        ELSE Cardinality({u \in QueuedTasks : Youngest(u).sequence <= Youngest(t).sequence})]
ImplementsScheduler == Abstract!Spec
=============================================================================
