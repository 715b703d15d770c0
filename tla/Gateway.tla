------------------------------ MODULE Gateway -------------------------------
(***************************************************************************)
(* The gateway of gateway.py between its neighbours: the scheduler, taken  *)
(* as the abstract TaskLifecycle that module Scheduler implements, the     *)
(* executions it runs as asyncio tasks, and the store it writes to.        *)
(*                                                                         *)
(* Coroutines share the event loop and run without interruption from one   *)
(* await to the next: agenda[LOOP] holds what such a stretch has still to  *)
(* do.  The cancel endpoint of app.py is a plain function, which FastAPI   *)
(* runs on a worker thread: between any two statements of the loop.        *)
(***************************************************************************)
EXTENDS Naturals, FiniteSets, Sequences

CONSTANTS
    Task,           \* the task ids
    Capacity,       \* provider-call slots
    Worker,         \* threads that serve the synchronous endpoints
    LeastUrgent,    \* index of the last class in PRIORITY_ORDER
    StoreFailures   \* bound: how many writes of the store may raise

LOOP == "loop"
Thread == {LOOP} \cup Worker

ASSUME GatewayAssumption ==
    /\ IsFiniteSet(Task)
    /\ Capacity \in Nat \ {0}
    /\ LOOP \notin Worker
    /\ LeastUrgent \in Nat
    /\ StoreFailures \in Nat

VARIABLES
    sched,      \* ScheduledTask.state
    held,       \* provider-call slots the task occupies
    revised,    \* tasks whose contract has changed since the submission
    record,     \* _records[t]["status"], "none" without a record
    stored,     \* status in the row of the task, "none" without a row
    running,    \* _running: tasks whose execution coroutine is alive
    agenda,     \* statements each thread has still to run
    seen,       \* the status in the snapshot a thread is about to write
    alive,      \* whether run_scheduler_loop has not died of an exception
    awaited,    \* the executions close gathers
    phase,      \* "open", "stopping" once _stop is set, "closed" with the store
    failures,   \* writes of the store that have raised
    class,      \* ScheduledTask.effective_priority
    storedClass,\* "effective_priority" in the row of the task
    seenClass   \* the same in the snapshot a thread is about to write

ranks == <<class, storedClass, seenClass>>
vars == <<sched, held, revised, record, stored, running, agenda, seen,
          alive, awaited, phase, failures, class, storedClass, seenClass>>

S == INSTANCE TaskLifecycle WITH status <- sched, held <- held

TaskStatus ==
    {"none", "queued", "running", "completed", "failed", "cancelled", "rejected"}
Field == {"interactive", "deadline"}

\* Indices of PRIORITY_ORDER, the most urgent class first.  A class stands
\* also for what changes with it: decision, start time and transitions.
Rank == 0 .. LeastUrgent

\* A statement is a pair of its name and its argument.
Statement ==
    (({"snapshot", "put", "launch", "completed", "failed", "leave"} \cup Field) \X Task)
        \cup ({"next", "dispatched"} \X Seq(Task))
        \cup ({"rejections", "doze"} \X {<<>>})

-----------------------------------------------------------------------------
(* Snapshots and stretches of statements *)

\* Mutant of Reported: the scheduler's vocabulary reaches the rows.
ReportedRaw(t) == IF sched[t] = "new" THEN record[t] ELSE sched[t]

\* Gateway.get: the scheduler's word, the record's where it has none.
Reported(t) ==
    CASE sched[t] = "new" -> record[t]
      [] sched[t] = "in-flight" -> "running"
      [] OTHER -> sched[t]

Persist(t) == <<<<"snapshot", t>>, <<"put", t>>>>
Tick == <<<<"next", <<>>>>>>

At(thread, name) == agenda[thread] # <<>> /\ Head(agenda[thread])[1] = name
Argument(thread) == Head(agenda[thread])[2]
Rest(thread) == Tail(agenda[thread])
Idle(thread) == agenda[thread] = <<>>
Continue(thread, statements) == agenda' = [agenda EXCEPT ![thread] = statements]

-----------------------------------------------------------------------------
(* Requests and wake-ups: each begins a stretch *)

Init ==
    /\ S!Init
    /\ revised = {}
    /\ record = [t \in Task |-> "none"]
    /\ stored = [t \in Task |-> "none"]
    /\ running = {}
    /\ agenda = [h \in Thread |-> <<>>]
    /\ seen = [h \in Thread |-> "none"]
    /\ alive = TRUE
    /\ awaited = {}
    /\ phase = "open"
    /\ failures = 0
    /\ class = [t \in Task |-> 0]
    /\ storedClass = [t \in Task |-> 0]
    /\ seenClass = [h \in Thread |-> 0]

\* submit after the extraction: plan, admission and enqueue, record, row, tick.
Submit(t) ==
    /\ Idle(LOOP) /\ phase = "open" /\ record[t] = "none"
    /\ S!Arrive(t)
    /\ record' = [record EXCEPT ![t] = sched'[t]]
    /\ \E c \in Rank : class' = [class EXCEPT ![t] = c]
    /\ Continue(LOOP, Persist(t) \o Tick)
    /\ UNCHANGED <<revised, stored, running, seen, alive, awaited, phase, failures,
                   storedClass, seenClass>>

\* Mutant of Change: the endpoint does not ask whether the task is active.
ChangeAnything(t, field) ==
    /\ Idle(LOOP) /\ phase = "open" /\ record[t] # "none"
    /\ Continue(LOOP, <<<<field, t>>>> \o Persist(t) \o Tick)
    /\ UNCHANGED <<sched, held, revised, record, stored, running, seen, alive,
                   awaited, phase, failures, ranks>>

\* nudge and update_deadline: _require_active, then the scheduler call, the
\* new plan, row and tick.
Change(t, field) ==
    /\ Idle(LOOP) /\ phase = "open" /\ record[t] # "none"
    /\ sched[t] \in {"queued", "in-flight"}
    /\ Continue(LOOP, <<<<field, t>>>> \o Persist(t) \o Tick)
    /\ UNCHANGED <<sched, held, revised, record, stored, running, seen, alive,
                   awaited, phase, failures, ranks>>

Nudge(t) == Change(t, "interactive")
UpdateDeadline(t) == Change(t, "deadline")

\* run_scheduler_loop wakes up.
Wake ==
    /\ Idle(LOOP) /\ phase = "open" /\ alive
    /\ Continue(LOOP, Tick \o <<<<"doze", <<>>>>>>)
    /\ UNCHANGED <<sched, held, revised, record, stored, running, seen, alive,
                   awaited, phase, failures, ranks>>

\* Mutants of ExecutionEnds: an exception skips scheduler.fail; the finally
\* clause only runs after a success.
ExecutionEndsUnreleased(t) ==
    /\ Idle(LOOP) /\ t \in running
    /\ \/ Continue(LOOP, <<<<"completed", t>>>> \o Persist(t) \o <<<<"leave", t>>>>)
       \/ Continue(LOOP, Persist(t) \o <<<<"leave", t>>>>)
    /\ UNCHANGED <<sched, held, revised, record, stored, running, seen, alive,
                   awaited, phase, failures, ranks>>
ExecutionEndsNoFinally(t) ==
    /\ Idle(LOOP) /\ t \in running
    /\ \/ Continue(LOOP, <<<<"completed", t>>>> \o Persist(t) \o <<<<"leave", t>>>>)
       \/ Continue(LOOP, <<<<"failed", t>>>> \o Persist(t))
    /\ UNCHANGED <<sched, held, revised, record, stored, running, seen, alive,
                   awaited, phase, failures, ranks>>

\* The provider calls of _execute have returned, or one has raised.
ExecutionEnds(t) ==
    /\ Idle(LOOP) /\ t \in running
    /\ \E outcome \in {"completed", "failed"} :
          Continue(LOOP, <<<<outcome, t>>>> \o Persist(t) \o <<<<"leave", t>>>>)
    /\ UNCHANGED <<sched, held, revised, record, stored, running, seen, alive,
                   awaited, phase, failures, ranks>>

\* close, which the server calls when it has finished serving requests.
Close ==
    /\ phase = "open"
    /\ \A h \in Thread : Idle(h)
    /\ phase' = "stopping"
    /\ awaited' = running
    /\ UNCHANGED <<sched, held, revised, record, stored, running, agenda, seen,
                   alive, failures, ranks>>

CloseStore ==
    /\ phase = "stopping"
    /\ Idle(LOOP)
    /\ awaited \cap running = {}
    /\ phase' = "closed"
    /\ UNCHANGED <<sched, held, revised, record, stored, running, agenda, seen,
                   alive, awaited, failures, ranks>>

\* Mutant of Cancel: the state of the task is not looked at.
CancelActive(h, t) ==
    /\ Idle(h) /\ phase = "open" /\ record[t] # "none"
    /\ sched[t] \in {"queued", "in-flight"}
    /\ sched' = [sched EXCEPT ![t] = "cancelled"]
    /\ held' = [held EXCEPT ![t] = 0]
    /\ record' = [record EXCEPT ![t] = "cancelled"]
    /\ Continue(h, Persist(t))
    /\ UNCHANGED <<revised, stored, running, seen, alive, awaited, phase, failures, ranks>>

\* cancel on a worker thread; a refusal by the scheduler changes nothing.
Cancel(h, t) ==
    /\ Idle(h) /\ phase = "open" /\ record[t] # "none"
    /\ S!Withdraw(t)
    /\ record' = [record EXCEPT ![t] = "cancelled"]
    /\ Continue(h, Persist(t))
    /\ UNCHANGED <<revised, stored, running, seen, alive, awaited, phase, failures, ranks>>

-----------------------------------------------------------------------------
(* Statements *)

\* escalate: some queued tasks rise.  Which ones is module Scheduler's.
Escalated ==
    {c \in [Task -> Rank] : \A t \in Task :
        c[t] = class[t] \/ (sched[t] = "queued" /\ c[t] < class[t])}

\* scheduler.nudge and scheduler.update_deadline revise the contract; queued
\* work is planned again, after an escalation if its deadline has changed.
Revise(field) ==
    LET t == Argument(LOOP) IN
    /\ At(LOOP, field)
    /\ revised' = revised \cup {t}
    /\ \/ /\ sched[t] = "queued"
          /\ \E c \in Rank, raised \in IF field = "deadline" THEN Escalated ELSE {class} :
                class' = [raised EXCEPT ![t] = c]
       \/ /\ sched[t] = "in-flight" /\ field = "interactive"
          /\ class' = [class EXCEPT ![t] = 0]
       \/ /\ sched[t] # "queued"
          /\ sched[t] = "in-flight" => field = "deadline"
          /\ UNCHANGED class
    /\ Continue(LOOP, Rest(LOOP))
    /\ UNCHANGED <<sched, held, record, stored, running, seen, alive, awaited,
                   phase, failures, storedClass, seenClass>>

\* dispatch_ready: next_task again and again, while a slot is free and the
\* last call has returned a task.  Each call escalates the queue first.
NextTask ==
    /\ At(LOOP, "next")
    /\ LET dispatched == Argument(LOOP) IN
       \/ /\ S!Held(held) < Capacity /\ S!Dispatch
          /\ class' \in Escalated
          /\ \/ \E t \in Task :
                   /\ sched[t] = "queued" /\ sched'[t] = "in-flight"
                   /\ Continue(LOOP, <<<<"next", Append(dispatched, t)>>>> \o Rest(LOOP))
             \/ /\ held' = held
                /\ Continue(LOOP, <<<<"rejections", <<>>>>, <<"dispatched", dispatched>>>>
                                     \o Rest(LOOP))
       \/ /\ S!Held(held) >= Capacity
          /\ Continue(LOOP, <<<<"rejections", <<>>>>, <<"dispatched", dispatched>>>>
                               \o Rest(LOOP))
          /\ UNCHANGED <<sched, held, class>>
    /\ UNCHANGED <<revised, record, stored, running, seen, alive, awaited, phase, failures,
                   storedClass, seenClass>>

\* Mutant of Rejections: tick does not look for them.
RejectionsSkipped ==
    /\ At(LOOP, "rejections")
    /\ Continue(LOOP, Rest(LOOP))
    /\ UNCHANGED <<sched, held, revised, record, stored, running, seen, alive,
                   awaited, phase, failures, ranks>>

\* tick brings the records of refused tasks up to date, one after the other.
Rejections ==
    LET refused == {t \in Task : sched[t] = "rejected" /\ record[t] \notin {"none", "rejected"}} IN
    /\ At(LOOP, "rejections")
    /\ \/ \E t \in refused :
             /\ record' = [record EXCEPT ![t] = "rejected"]
             /\ Continue(LOOP, Persist(t) \o agenda[LOOP])
       \/ /\ refused = {}
          /\ Continue(LOOP, Rest(LOOP))
          /\ UNCHANGED record
    /\ UNCHANGED <<sched, held, revised, stored, running, seen, alive, awaited,
                   phase, failures, ranks>>

\* Mutant of Dispatched: create_task has slipped out of the for loop.
DispatchedLast ==
    /\ At(LOOP, "dispatched")
    /\ LET left == Argument(LOOP) IN
       \/ /\ left # <<>>
          /\ record' = [record EXCEPT ![Head(left)] = "running"]
          /\ Continue(LOOP, Persist(Head(left))
                \o (IF Len(left) = 1 THEN <<<<"launch", Head(left)>>>> ELSE <<>>)
                \o <<<<"dispatched", Tail(left)>>>> \o Rest(LOOP))
       \/ /\ left = <<>>
          /\ Continue(LOOP, Rest(LOOP))
          /\ UNCHANGED record
    /\ UNCHANGED <<sched, held, revised, stored, running, seen, alive, awaited,
                   phase, failures, ranks>>

\* tick: record, row and coroutine of each dispatched task.
Dispatched ==
    /\ At(LOOP, "dispatched")
    /\ LET left == Argument(LOOP) IN
       \/ /\ left # <<>>
          /\ record' = [record EXCEPT ![Head(left)] = "running"]
          /\ Continue(LOOP, Persist(Head(left)) \o <<<<"launch", Head(left)>>,
                               <<"dispatched", Tail(left)>>>> \o Rest(LOOP))
       \/ /\ left = <<>>
          /\ Continue(LOOP, Rest(LOOP))
          /\ UNCHANGED record
    /\ UNCHANGED <<sched, held, revised, stored, running, seen, alive, awaited,
                   phase, failures, ranks>>

Launch ==
    /\ At(LOOP, "launch")
    /\ running' = running \cup {Argument(LOOP)}
    /\ Continue(LOOP, Rest(LOOP))
    /\ UNCHANGED <<sched, held, revised, record, stored, seen, alive, awaited,
                   phase, failures, ranks>>

\* scheduler.complete or scheduler.fail, and the record.
Finish(outcome) ==
    /\ At(LOOP, outcome)
    /\ S!Release(Argument(LOOP))
    /\ sched'[Argument(LOOP)] = outcome
    /\ record' = [record EXCEPT ![Argument(LOOP)] = outcome]
    /\ Continue(LOOP, Rest(LOOP))
    /\ UNCHANGED <<revised, stored, running, seen, alive, awaited, phase, failures, ranks>>

\* Mutant of Leave: the last executions dispatch although the gateway stops.
LeaveTicking ==
    /\ At(LOOP, "leave")
    /\ running' = running \ {Argument(LOOP)}
    /\ Continue(LOOP, Tick \o Rest(LOOP))
    /\ UNCHANGED <<sched, held, revised, record, stored, seen, alive, awaited,
                   phase, failures, ranks>>

\* The finally clause of _execute.
Leave ==
    /\ At(LOOP, "leave")
    /\ running' = running \ {Argument(LOOP)}
    /\ Continue(LOOP, (IF phase = "open" THEN Tick ELSE <<>>) \o Rest(LOOP))
    /\ UNCHANGED <<sched, held, revised, record, stored, seen, alive, awaited,
                   phase, failures, ranks>>

\* run_scheduler_loop goes back to sleep.
Doze ==
    /\ At(LOOP, "doze")
    /\ Continue(LOOP, Rest(LOOP))
    /\ UNCHANGED <<sched, held, revised, record, stored, running, seen, alive,
                   awaited, phase, failures, ranks>>

Snapshot(h) ==
    /\ At(h, "snapshot")
    /\ seen' = [seen EXCEPT ![h] = Reported(Argument(h))]
    /\ seenClass' = [seenClass EXCEPT ![h] = class[Argument(h)]]
    /\ Continue(h, Rest(h))
    /\ UNCHANGED <<sched, held, revised, record, stored, running, alive, awaited,
                   phase, failures, class, storedClass>>

\* The row becomes the snapshot, which is then gone.
Write(h) ==
    /\ stored' = [stored EXCEPT ![Argument(h)] = seen[h]]
    /\ storedClass' = [storedClass EXCEPT ![Argument(h)] = seenClass[h]]
Drop(h) ==
    /\ seen' = [seen EXCEPT ![h] = "none"]
    /\ seenClass' = [seenClass EXCEPT ![h] = 0]

Put(h) ==
    /\ At(h, "put")
    /\ Write(h) /\ Drop(h)
    /\ Continue(h, Rest(h))
    /\ UNCHANGED <<sched, held, revised, record, running, alive, awaited, phase, failures,
                   class>>

\* What an exception leaves of a stretch: the finally clause of _execute, in
\* whose except clause scheduler.fail raises again once the task is finished.
Unwound(h) ==
    LET last == agenda[h][Len(agenda[h])] IN
    IF last[1] = "leave" THEN <<last>> ELSE <<>>

\* Mutant of PutRaises: a finished task can be failed once more.
PutRaisesRefailed(h) ==
    LET t == Argument(h) IN
    /\ At(h, "put") /\ failures < StoreFailures
    /\ failures' = failures + 1
    /\ Write(h) \/ UNCHANGED <<stored, storedClass>>
    /\ Drop(h)
    /\ Continue(h, Unwound(h))
    /\ IF sched[t] = "completed"
       THEN sched' = [sched EXCEPT ![t] = "failed"] ELSE UNCHANGED sched
    /\ alive' = (alive /\ \A i \in 1 .. Len(agenda[h]) : agenda[h][i][1] # "doze")
    /\ UNCHANGED <<held, revised, record, running, awaited, phase, class>>

\* The row or the event after it cannot be written: nobody catches the
\* exception in a handler, in tick or in run_scheduler_loop, which dies of it.
PutRaises(h) ==
    /\ At(h, "put") /\ failures < StoreFailures
    /\ failures' = failures + 1
    /\ Write(h) \/ UNCHANGED <<stored, storedClass>>
    /\ Drop(h)
    /\ Continue(h, Unwound(h))
    /\ alive' = (alive /\ \A i \in 1 .. Len(agenda[h]) : agenda[h][i][1] # "doze")
    /\ UNCHANGED <<sched, held, revised, record, running, awaited, phase, class>>

-----------------------------------------------------------------------------
Events ==
    \/ Wake \/ Close \/ CloseStore
    \/ \E t \in Task : Submit(t) \/ Nudge(t) \/ UpdateDeadline(t) \/ ExecutionEnds(t)
    \/ \E h \in Worker, t \in Task : Cancel(h, t)

Statements ==
    \/ NextTask \/ Rejections \/ Dispatched \/ Launch \/ Leave \/ Doze
    \/ Finish("completed") \/ Finish("failed")
    \/ \E field \in Field : Revise(field)
    \/ \E h \in Thread : Snapshot(h) \/ Put(h)

\* The process has ended; so has every behaviour.
Ended == phase = "closed" /\ UNCHANGED vars

Next == Events \/ Statements \/ Ended \/ \E h \in Thread : PutRaises(h)

Spec == Init /\ [][Next]_vars

\* Threads go on, provider calls return or raise, and the loop's timer fires.
Fairness ==
    /\ WF_vars(Statements)
    /\ WF_vars(CloseStore)
    /\ \A t \in Task : SF_vars(ExecutionEnds(t))

FairSpec == Spec /\ Fairness

-----------------------------------------------------------------------------
(* Properties *)

\* Statuses, slots and statements stay in their domains: no word of the
\* scheduler's vocabulary and no status without a record reaches a row.
TypeOK ==
    /\ sched \in [Task -> S!Status]
    /\ held \in [Task -> 0 .. Capacity]
    /\ revised \subseteq Task
    /\ record \in [Task -> TaskStatus]
    /\ stored \in [Task -> TaskStatus]
    /\ running \subseteq Task
    /\ agenda \in [Thread -> Seq(Statement)]
    /\ seen \in [Thread -> TaskStatus]
    /\ alive \in BOOLEAN
    /\ awaited \subseteq Task
    /\ phase \in {"open", "stopping", "closed"}
    /\ failures \in 0 .. StoreFailures
    /\ class \in [Task -> Rank]
    /\ storedClass \in [Task -> Rank]
    /\ seenClass \in [Thread -> Rank]

Pending(h, statement) == \E i \in 1 .. Len(agenda[h]) : agenda[h][i] = statement

\* Provider calls under way are paid for in slots: an execution that has not
\* begun to end holds its slots, whatever is cancelled, changed or refused
\* meanwhile, and all of them together stay within the capacity.
SlotsCoverCalls ==
    /\ \A t \in running : ~Pending(LOOP, <<"leave", t>>) =>
          sched[t] = "in-flight" /\ held[t] > 0
    /\ S!Held(held) <= Capacity

\* No slot is lost between scheduler and event loop: while the store works,
\* a started task has its coroutine or the loop is about to create it.
StartedHasExecution ==
    failures = 0 => \A t \in Task : sched[t] = "in-flight" =>
        \/ t \in running
        \/ Pending(LOOP, <<"launch", t>>)
        \/ \E i \in 1 .. Len(agenda[LOOP]) :
              /\ agenda[LOOP][i][1] \in {"next", "dispatched"}
              /\ \E k \in 1 .. Len(agenda[LOOP][i][2]) : agenda[LOOP][i][2][k] = t

\* Rows catch up: with every thread at rest and a working store the row of a
\* task says what GET says, in status and class.  Two things may be missing: a
\* cancellation that met another write of the same task, and the promotion of
\* work that is still queued, which escalate makes and nobody writes down.
RowsCatchUp ==
    failures = 0 /\ (\A h \in Thread : Idle(h)) =>
        \A t \in Task :
            \/ stored[t] = Reported(t) /\ storedClass[t] = class[t]
            \/ stored[t] = "queued" /\ Reported(t) = "cancelled"
            \/ stored[t] = "queued" /\ Reported(t) = "queued" /\ class[t] < storedClass[t]

\* A row never tells of an end that did not come about, even when writes
\* raise in the middle of finishing a task.
HonestRows ==
    \A t \in Task : stored[t] \in {"completed", "failed", "cancelled", "rejected"} =>
        sched[t] = stored[t]

\* close leaves nothing behind that would still write to the closed store:
\* the executions that end while it waits start no others.
QuietAfterClose ==
    phase = "closed" => running = {} /\ \A h \in Thread : Idle(h)

\* Every started task ends, during shutdown too, and its slots come back,
\* unless a write has raised.
EveryStartEnds ==
    \A t \in Task :
        sched[t] = "in-flight" ~> sched[t] \in {"completed", "failed"} \/ failures > 0

\* close returns, whatever raises.
CloseEnds == phase = "stopping" ~> phase = "closed"

\* gateway.py:410: "Persist the same scheduler state exposed by GET,
\* including promotions and terminal transitions, for inspection after
\* restart."  With every thread at rest the row has the status GET has.
StoredAsReported ==
    failures = 0 /\ (\A h \in Thread : Idle(h)) =>
        \A t \in Task : stored[t] = Reported(t)

\* The same comment on promotions: with every thread at rest the row of a
\* queued task has the class GET has.  Stated for a fleet without a free slot,
\* where promoted work has to go on waiting.
PromotionsStored ==
    failures = 0 /\ (\A h \in Thread : Idle(h)) /\ S!Held(held) = Capacity =>
        \A t \in Task : sched[t] = "queued" => storedClass[t] = class[t]

\* gateway.py:406: "only queued or running tasks can be changed".
OnlyActiveChanged ==
    [][\A t \in revised' \ revised : sched[t] \in {"queued", "in-flight"}]_vars
=============================================================================
