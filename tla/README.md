# Verification of the intent-aware scheduling prototype

TLA+ models of the gateway in `src/src/intent_scheduler/`, TLC runs over small
instances of them, and theorems about them checked by TLAPS. Paths below are
relative to `src/src/intent_scheduler/` unless they start with `src/`.

## 1. The system

A request becomes a *contract* (quality floor, deadline, whether a person is
waiting, cost cap, attention profile). A deterministic *policy* maps contract
and fleet snapshot to a *decision* (model, effort, template, drafts, priority
class, earliest start, cost). The *scheduler* queues admitted tasks in three
classes, and starts them on a fixed number of provider-call slots. The *gateway*
connects them: it plans at submission, again at a nudge or a deadline change,
and again at dispatch; it executes started tasks and stores snapshots.

| Component | State | Operations | Interacts with |
|---|---|---|---|
| Policy (`policy.py`; baselines in `simulation.py`) | none | `decide`, `estimate_cost`, `check_admission` | called by the gateway with a snapshot of the fleet |
| Scheduler (`scheduler.py`) | tasks, one heap per class, in-flight tasks, a sequence | `enqueue`, `next_task`, `dispatch_ready`, `escalate`, `nudge`, `update_deadline`, `update_decision`, `complete`, `fail`, `cancel` | calls the gateway back through `decision_hook` under its lock |
| Gateway (`gateway.py`) | records, running asyncio tasks | `submit`, `tick`, `run_scheduler_loop`, `finalize_dispatched`, `_execute`, `cancel`, `update_deadline`, `nudge`, `get`, `close` | everything else |
| Clock (`clock.py`) | simulated time | `now`, `advance`, `set` (forward only) | read by scheduler and gateway |
| Execution engine (`execution.py`) | none between tasks | `execute` with self-check, parallel drafts and a judge, fallback models | provider |
| Intent extraction (`intent.py`) | diagnostics of the last call | `extract` | provider |
| Store (`store.py`) | SQLite rows, events | `put`, `get`, `event`, `events` | gateway |
| REST service (`app.py`) | the gateway, its loop | endpoints; the synchronous ones (`cancel`, the GETs) run in a thread pool | gateway |
| Simulation (`simulation.py`, `workload.py`) | arrivals, running results | `simulate_pipeline` | gateway with `auto_execute=False` and a simulated clock |
| CLI, configuration, real validation, reproduction | none | parsing, reports | simulation |

What is hard here: decisions are made from a load that has changed when they are
used; a start is a loop over classes that rejects, blocks and protects as it goes;
four kinds of events rewrite a task's class and start time; tasks occupy one to
three slots, so "one more slot" arguments fail; cancellation comes from another
thread between any two scheduler calls; escalation is the only way out of some
stalls; heaps keep the entries of every earlier push; several coroutines wait for
provider calls at once, and a call may raise or answer nonsense; the experiment's
loop mixes all this with a clock that moves in ticks. `PROJECT.json` lists the hazards with their lines and the properties that
cover each.

What makes each component correct:

- *Policy*: congestion never takes the tier and never adds cost; waiting persons
  keep full settings; forbidden questions are replaced by a self-check; a postponed
  start leaves the margin; urgency falls only with a deadline change of the task itself.
- *Scheduler*: slots never exceed capacity; what runs is paid for by its cap;
  reservations hold after every start; lateness beats class; FIFO baselines keep
  arrival order; nothing waits for ever; tasks move through their lifecycle once.
- *Gateway*: stored snapshots follow the scheduler in status and class (not always: findings 2
  and 3); every started task ends and releases its slots.
- *Execution and extraction*: a record accounts for its own answered calls, each once;
  calls stay within the slots; what is recorded as output exists; every coroutine ends.
- *Simulation*: completions are recorded on time, nothing is left behind, deferrals cost
  no deadline, and the baselines serve in the order of arrival.

## 2. Modules

| Module | Role |
|---|---|
| `Policy` | the three policies as operators, with their thresholds as constants |
| `Replanning` | one contract while clock, load, deadline and waiting flag change; checks what every decision owes to its contract |
| `TaskLifecycle` | abstract specification: what the scheduler promises its callers |
| `Scheduler` | the scheduler as the gateway drives it; refines `TaskLifecycle` |
| `SchedulerMC` | contracts, reservations and symmetry for TLC |
| `SchedulerHeaps` | the scheduler object with its heaps, stale entries and generations, `next_task` as a loop of pops; refines `Scheduler` |
| `SchedulerHeapsMC` | contracts, reservations and symmetry for TLC |
| `Gateway` | the gateway's event loop, its executions, worker-thread cancellation, store and shutdown, over the scheduler as `TaskLifecycle` promises it |
| `GatewayMC` | symmetry for TLC |
| `Requests` | the provider calls of concurrent requests, from the extraction to the recorded result, over the scheduler as `TaskLifecycle` promises it |
| `Simulation` | `simulate_pipeline`: `Scheduler` under the driver loop of one configuration, with the code's durations |
| `SimulationMC` | the personas of `workload.py` as items |
| `PolicyProofs`, `ReplanningProofs`, `SchedulerProofs`, `SchedulerHeapsProofs`, `SchedulerRefinement`, `GatewayProofs`, `RequestsProofs`, `SimulationProofs` | theorems |

`Replanning` and `Scheduler` EXTEND `Policy`. The scheduler is specified three times,
each version implementing the next:

    SchedulerHeaps  --ImplementsScheduler-->  Scheduler  --ImplementsLifecycle-->  TaskLifecycle

`Gateway` and `Requests` are each composed with an INSTANCE of `TaskLifecycle`: what is
checked of them holds for any scheduler that keeps that promise, and the detailed ones do.
`Simulation` EXTENDS `Scheduler` itself, because its properties are about times: its loop chooses
which of the scheduler's actions comes next.

### State and actions of `Scheduler`

| TLA+ | Code |
|---|---|
| `state`, `contract`, `decision`, `effective`, `order` | `ScheduledTask.state`, `.contract`, `.decision`, `.effective_priority`, `._queue_order` |
| `place` | rank of the task's live heap entry among all live entries, in place of the unbounded `_sequence` |
| `now` | `clock.now()` |
| `Submit` | `Gateway.submit` up to its tick, with `check_admission` and `enqueue` |
| `NextTask` | one round of `dispatch_ready`: the test for a free slot and a whole `next_task`, with escalation, redecision, rejections, the start and the blocked heads pushed back |
| `Complete`, `Fail`, `Cancel` | the scheduler's methods |
| `Nudge`, `UpdateDeadline` | the gateway's methods up to their tick: the scheduler call and `_replan` |
| `Elapse` | time passes |

The granularity is the scheduler's lock. A gateway method ends in `tick()`, that is,
in `dispatch_ready()`; here that is the separate action `NextTask`. The simulation
really runs the two apart (`auto_execute=False`), and in the service a cancellation from a
worker thread, or a new minute, may fall between a plan and the dispatch that
follows it, so every interleaving of the two is a behaviour of the program.

`NextTask` is written as a function of the escalated queue, not as a loop. `Offers`
holds what the loop would see of every ready task (its class after escalation, its
heap key, what admission says of its redecision). All redecisions of one call see
the same load, because only the start that ends the call changes it. The head of a
class is then its first *admitted* offer, the refused ones before it are rejected,
and a class is tried when no more urgent one starts a task. `Waiting` reproduces the one
place where the progress of the loop shows: a more urgent class has lost its
refused tasks when a less urgent one is tried.

### State and actions of `Gateway`

| TLA+ | Code |
|---|---|
| `sched`, `held`, `class` | `ScheduledTask.state`, the slots of the task's decision while in flight, `effective_priority` |
| `record` | `Gateway._records[...]["status"]` |
| `stored`, `storedClass` | status and class in the row of the task in SQLite |
| `running` | `Gateway._running` |
| `revised` | tasks whose contract `Scheduler.nudge` or `update_deadline` has changed |
| `agenda` | what each thread has still to do before it rests |
| `seen`, `seenClass` | status and class in the snapshot `_persist` has taken and not yet written |
| `alive`, `phase`, `awaited`, `failures` | the wake-up task, `_stop` and the store, the gathered executions, writes that raised |
| `Submit`, `Nudge`, `UpdateDeadline`, `Wake`, `ExecutionEnds`, `Close`, `CloseStore` | a stretch of the event loop begins |
| `Cancel(h, t)` | the cancel endpoint on thread `h`: one locked scheduler call and the record (whose status nothing reads of a cancelled task), then the row |
| `Revise`, `NextTask`, `Rejections`, `Dispatched`, `Launch`, `Finish`, `Leave`, `Doze` | the statements of these stretches |
| `Snapshot`, `Put`, `PutRaises` | `_persist`: `get`, then the row and its event, which may raise |

The granularity is a statement. Coroutines do not interleave with each other between two
awaits, and between planning and the end of `tick` there is none; a stretch of the loop is
therefore a sequence of statements in `agenda["loop"]`, and a new one begins only when it is
empty. The endpoints declared with plain `def` run on FastAPI's worker threads and interleave
with every statement. An exception unwinds the stretch: only the `finally` clause of
`_execute` is left of it, and if the stretch was the wake-up loop's the loop is dead.

A class is an index into `PRIORITY_ORDER`; it stands for everything a promotion or a new plan changes in
a snapshot (decision, start and transitions go with it). Submission and replanning choose any class,
`Escalated` lets any queued tasks rise: which ones is `Scheduler`'s, and nothing claimed of rows depends on it.
The other fields of a row are not modelled.

### State and actions of `SchedulerHeaps`

| TLA+ | Code |
|---|---|
| `self` | the `Scheduler` object: the fields of its tasks, `_queues`, the next number of `_sequence` |
| an entry of `self.queues[c]` | `(order, sequence, generation, task_id)` |
| `trying` | what is left of `PRIORITY_ORDER` in the loop of `next_task` |
| `seen` | the object as `next_task` found it: what everybody sees who waits for its lock |
| `PushAll`, `ValidEntry`, `Popped`, `Escalate` | `_push`, `_valid_entry`, `_pop_ready`, `escalate` |
| `NextTask`, `Try`, `PassOver` | `next_task` up to its loop, one pass of the while loop, the end of one |
| the other actions | those of `Scheduler`, one gateway call each |

A heap is the set of its entries: `heapq` serves the one that is first in the order of keys and
sequence numbers, and sequence numbers are never equal. Entries survive a promotion, a cancellation, a
new deadline and a new plan, exactly as in the code. `Scheduler`'s `place` is recovered as the rank
of a task's live entry in `seen`. `escalate` pushes what it promotes one after the other; `PushAll` numbers these
entries in the order of `_tasks`, which is the order of arrival.

### State and actions of `Requests`

| TLA+ | Code |
|---|---|
| `status`, `held` | the scheduler as `TaskLifecycle` has it |
| `call`, `text` | the state of each provider call of a request, and what its answer says |
| `awaiting` | the calls at which the request's coroutine is suspended |
| `diagnostics` | `provider_responses` and `fallback_events` of an extractor |
| `execution` | `responses`, `fallback_events` and `output` inside `execute` |
| `record` | `accounting`, `fallback_events` and `output` of the record |
| `Answer` | a provider call returns or raises |
| `Submit`, `RepeatExtraction`, `RefuseSubmission`, `RecordSubmission` | `submit` and `extract`, from one await to the next |
| `Begin`, `SelfCheck`, `Select`, `Repeat`, `Judge` | `execute` and `_structured_call`, from one await to the next |
| `Complete`, `Fail` | the two ends of `_execute`, with `finalize_dispatched` |
| `Dispatch`, `Cancel` | the scheduler starts, refuses or withdraws tasks |

Coroutines interleave only at an await, so an action is a stretch between two of them. A list of
responses is a count per role: nothing the code does depends on their order. An answer's text is
what its parser makes of it: invalid, a winner (which may be one too high), a contract, or a contract with
a cap of zero, which `ParsedIntent` admits and `TaskContract` does not. A decision is parallel exactly if it
holds more than one slot, which is what `capacity_units` computes.

### State and actions of `Simulation`

| TLA+ | Code |
|---|---|
| `Scheduler`'s variables | the scheduler the driver builds for `Mode`; `SimulationAssumption` gives the discipline and escalation of each |
| `item` | the workload item of a task |
| `due` | the first component of `running[task_id]` |
| `nudged` | `nudged` |
| `stage` | where the iteration stands |
| `Finalize`, `Arrive`, `AskForUpdate`, `Tick`, `Advance` | the loops of one iteration, in their order, and its end |
| `Over` | the function has returned |

A tick is ten minutes; service durations are whole multiples of a ten-thousandth of it. Arrivals,
deadlines and caps are those of the personas. Submissions take place within a tick in any order
the arrival times allow.

Abstractions of data in `Scheduler`:

- Costs are in units of half a Luna call of the task. The two rates of the ladder
  stand in the ratio 2 : 5 for input and for output tokens, so the token estimate
  divides out of every comparison with a cap, which is arbitrary anyway.
- Slots are pairs `<<task, k>>`; the load is the number of such pairs in use.
- Model names, wording, transitions, provenance and metadata are left out: no
  scheduling decision reads them.
- The clock is read once per `next_task` and once per submission; the code reads it several times, in
  `escalate`, in the redecision and in the test for ready work. No property depends on the difference.
- `spent_cost_usd` is zero until a task has completed, and a completed task is
  never queued again by the gateway; admission therefore compares with the cap.

## 3. Runs

| Run | Instance | Shows |
|---|---|---|
| `Replanning` | all contracts, 7 slots, deadlines up to 11, clock up to 7, a day of 6 | what decisions owe to contracts: tier, cost, full service, margin, self-check, urgency |
| `SchedulerCore` | 3 tasks, 4 slots, default reservations, deferred limit 1 | `CapacityRespected`, `RunningWithinCap`, `RunningUndegraded`, `BatchShare`, `IdleFleetServes`, `ReservationsKept` |
| `SchedulerReplan` | 2 tasks, default reservations, deadlines moved to 4, with fairness | `PostponedIsPatient`, `HumanWaitingIsInteractive`, `OverdueIsUrgent`, `UrgencyKept`, the refinement `ImplementsLifecycle`, `ServedEventually` |
| `SchedulerHeaps` | 2 tasks, deadlines moved to 1 or 4, 8 pushes | `OneLiveEntry`, the refinement `ImplementsScheduler` |
| `Gateway` | 2 tasks, 2 slots, 2 classes, a worker thread, a write that raises, with fairness | `SlotsCoverCalls`, `StartedHasExecution`, `RowsCatchUp`, `HonestRows`, `QuietAfterClose`, `EveryStartEnds`, `CloseEnds` |
| `Requests` | 2 requests, 3 slots, fallbacks for two of the three structured roles, with fairness | `CallsWithinCapacity`, `OutputExists`, `ExactAccounting`, `FallbacksReported`, `EveryCoroutineEnds` |
| `SimulationIntentAware` | 4 tasks from nine items, 3 slots, the code's own margins, windows and durations | `EverythingServed`, `DeferralKeepsDeadline` |
| `SimulationStatic` | the same under the static baseline | `CompletedOnTick`, `BaselinesKeepArrivalOrder` |
| `SchedulerFifoDeadline` | contract-FIFO with one deadline change | **violation** of `ArrivalOrder` |
| `GatewayStale` | 2 tasks, a worker thread | **violation** of `StoredAsReported` |
| `GatewayPromotion` | 2 tasks, 2 slots, 2 classes | **violation** of `PromotionsStored` |
| `GatewayChange` | 2 tasks, a worker thread | **violation** of `OnlyActiveChanged` |

Bounds. Seven slots are the fewest with which the fleet can be highly loaded (85 %)
while a slot is free; three slots are the experiment's capacity and let one parallel
task fill the fleet. Three tasks give a running one, a head and a task behind it, in any
classes. The thresholds keep the order of the code's (15 min, 1 h, 1 h, 6 h, a day) on a
scale on which a deadline passes through all classes within `Horizon` steps. `Horizon`
is the only bound on behaviour that is not a bound of an instance; past it the clock
stands still and the actions stay enabled. Tasks are symmetric: `Init`
assigns them contracts freely. The liveness runs use no symmetry.

One worker thread is enough for a cancellation between any two statements of the loop: two threads
cancel different tasks and meet in no row. `StoreFailures` bounds the writes that raise, anywhere,
shutdown included; what handles a failure (the `finally` clause) writes nothing of its task. Two tasks and two
slots let one `tick` start two, start one and refuse or promote the other, and find one cancelled; two classes are
what a promotion needs. `GatewayProofs` proves the safety properties for all sizes. Nothing else in `Gateway` is bounded: a task is submitted once and its
agenda is finite.

`SchedulerHeaps` bounds the sequence numbers (`MaxSequence`): eight pushes of two tasks let a task leave a
class and come back to it over its own stale entries, be blocked, and be promoted in between. `next_task`
begins only if the bound leaves room for every head it may push back, so the loop never stops halfway.
Three offers at a time are the subject of `SchedulerCore`.

In `Requests` two coroutines extract and execute at once, which is what a shared extractor, a leaked slot or
a mixed-up record needs; three slots let one task make parallel drafts beside another's extraction.
`Fallbacks` names two roles, so that both ways of `_structured_call` occur, and the judge has none.
Nothing else is bounded.

In the two runs of `Simulation` four tasks are one more than the slots. Static services are whole numbers of
ticks, so that a task may end exactly at one; the contract-FIFO configuration is covered by the
theorems of `SimulationProofs`, which hold for every `Mode`, and its discipline by `SchedulerFifoDeadline`. The items are at the edges: a deadline of
eighteen hours from 08:00, for which the window is too late, and from 09:00, for which it
leaves exactly the margin; two executives arriving forty minutes apart; a task nobody pays for.
The premise of `DeferralKeepsDeadline` (no more patient tasks than slots) is needed: with four patient
tasks that the window leaves the bare margin, one of them waits for a slot and ends late. The bursts of
the experiment have more patient tasks than that; `src/README.md` reports the deadlines met as a result and promises
none. `Tail` is the loop's two days; `Horizon` lies beyond every end of the loop.

The gateway stops: after `close` the process ends. `Ended` lets such a behaviour go on by
stuttering, so that every other state without a successor is a deadlock that the runs
would report; a shutdown that gets stuck while something else goes on violates `CloseEnds`.

Fairness. `NextTask`: `run_scheduler_loop` wakes every `scheduler_interval_seconds` as
long as `tick` raises nothing. `Complete \/ Fail`: `_execute` ends a task in one of the
two ways whenever its provider calls return or raise; both adapters have timeouts or
return at once. `Elapse`: time passes. In `Gateway`, `Statements`: a thread that is not at
rest goes on. `ExecutionEnds` is strongly fair for each task: the loop is busy again and again, which
disables it, but asyncio runs ready coroutines in the order they became ready. `CloseStore`: `close` is
resumed when the last of the gathered executions is done. In `Requests`, `Answer`:
a provider call returns or raises (the real client has a timeout), and `Resume`: the event loop runs a
coroutine whose calls are over. No fairness is assumed of the users' actions.

### Findings

1. `update_deadline` (`scheduler.py:419`) escalates the queue without looking at
   `enable_escalation`. In a FIFO baseline, moving one deadline promotes other tasks past
   earlier arrivals. `src/tests/test_simulation.py:60` says that the baselines "must preserve
   arrival order even when deadlines approach". The experiment itself never moves a deadline.
2. `_persist` (`gateway.py:408-415`) takes a snapshot and writes it without a lock around
   both. A cancellation on a worker thread between the two writes its row first, and the
   older snapshot overwrites it: GET answers `cancelled`, the row says `queued` for good.
   `gateway.py:410` says "Persist the same scheduler state exposed by GET".
3. `escalate` (`scheduler.py:332-368`) raises the class of queued tasks, moves their start and adds to their
   transitions, but `tick` and `update_deadline` write only the rows of the tasks they refuse, start or are
   asked about. A promoted task that goes on waiting is in its new class for GET and in its old one in its
   row, until it starts: with six slots and five in use, a standard task of three slots that comes
   within an hour of its deadline. The comment of finding 2 goes on: "including promotions and terminal
   transitions, for inspection after restart". `RowsCatchUp` shows that, of status and class, nothing
   but these two is missing from the rows of a working store.
4. `nudge` and `update_deadline` test `_require_active` (`gateway.py:366`, `379`) and then call the
   scheduler, which does not look at the state. A cancellation in between leaves a cancelled task
   with a changed contract and a successful answer; `gateway.py:406` says "only queued or running
   tasks can be changed".

A stall that no text rules out: with the default reservations and three slots
(`scheduler.py:318-330`) an interactive and a standard three-slot task each keep the other from
starting, and the idle fleet serves nobody until escalation merges the classes. `ServedEventually`
shows that the stall always ends; `IdleFleetServes` (`SchedulerCore`) shows that it needs reservations
that leave less than the largest task. The experiment uses no reservations.

## 4. Proofs

`PolicyProofs` proves facts about the operators: each decision is well formed
(`DecideType`), settings below the high load depend on the contract alone
(`UndegradedByContract`), congestion keeps the tier (`TierByQuality`) and only reduces
cost and drafts (`CongestionReduces`). `ReplanningProofs` lifts them to
`Replanning`: its invariant is only typing, and the properties follow state by
state, or step by step for the two action properties. `DeferralTheorem` needs arithmetic the solver does not
do by itself: `Remainder` and `MultipleRemainder` characterise `%` by the quotient, and `NextLowLoadOpens`
concludes that the instant `NextLowLoad` names is an opening of the window within the coming day.

`SchedulerProofs` proves `Spec => []TypeOK` and `Spec => []CapacityRespected` for every
number of tasks, every capacity, all reservations, thresholds and contracts, under
`PolicyAssumption` and `SchedulerAssumption` only (a finite set of tasks, reservations
that fit the capacity: what `__init__` enforces).

- `IInv` strengthens `TypeOK`: times are integers, caps naturals, and a submitted task has a
  position. Each action has its lemma (`SubmitIInv`, `DispatchIInv`, ...), and `NextIInv`
  combines them. `RequeueType` is what keeps ranks within the number of tasks: a rank counts
  a subset of the tasks.
- Capacity is not inductive by counting tasks, because slots are counted, a dispatch chooses new
  settings, and several offers are in play. The argument: a dispatch starts at
  most one task (`OneStarted`: two startable heads would be in two tried classes, and a
  class is tried only if no more urgent one can start); the started task's redecided
  slots fit (`StartedFits`); `StepShape` says that every step starts at most one
  task, leaves the decisions of running tasks alone and otherwise only releases slots;
  so the slots after it are those of before plus an interval of fitting size
  (`SlotsAfterStart`), and their number stays within the capacity (`CapacityStep`).

The module draws three more invariants from `StepShape`, under the same assumptions:

- `WithinCapTheorem`: what starts has passed admission on its redecided settings (`StartedFits`),
  and no step changes the cap of a contract (`ContractKept`).
- `UndegradedTheorem`: with at most six slots, one of them free, the load is below 85 %
  (`StartBelowHighLoad`: 5/6), and below it the settings depend on quality floor and attention
  alone (`SettingsByContract`), which no step changes. The premise of at most six slots is part of the
  property: with seven, six of them in use are a high load, and the seventh starts degraded work.
- `BatchShareTheorem`: deferred work starts only below its limit, whatever its size, and a
  running task leaves its class only upwards (`RunningClass`); the count needs
  the slots of one class as a subset of all of them (`BatchShareStep`).

It goes on to `HumanWaitingIsInteractive` and `PostponedIsPatient`. Neither survives
a step on its own terms alone: a nudge of running work finds it ready only because whatever
started was (`StartedReady`), and a promotion must not take a waiting person's task out of the top class
(`TopStays`). `TaskStep` says that every step does one of five things to a task it leaves active:
nothing, a promotion or start, a start without escalation, a new plan, a relabelling; `PlanTiming` says
what a plan promises; `Timing`, the conjunction, is then inductive relative to `IInv`. `UrgencyTheorem` proves `UrgencyKept` from the
same lemmas: of the five things, only a new plan can cost queued work its turn, a nudge's plan is for a
waiting person (`PlanTiming`), escalation only raises (`AgedRises`), and the one plan left is for the task's own new
deadline, which the property excepts: inside the window it postpones ready deferred work to the next
day's, the same deadline included, with the margin that `PostponedIsPatient` asks for. No text says that it should not. `OverdueTheorem`
is about the start alone: whatever stays queued over a start has been through the escalation of that
same step, and the escalation of an overdue task ends in the top class whatever class it had.

`ReservationTheorem` proves `ReservationsKept`. A start leaves free what it protects, but the property
counts what is owed *afterwards*, to the queue the step leaves, and the two differ: the loop has drained
refused tasks of the more urgent classes and blocked heads are back. `LeftWasCounted`: ready work that
is left in another class was counted by `Waiting` when the start was decided. `ShortfallKept`: the start adds no
slot to another class. Hence what is owed was protected (`OwedWasProtected`), class by class.

`IdleTheorem` proves `IdleFleetServes` for reservations that leave room for the largest task
(`RoomForLargest`; without it the property is false, which is the stall described above). It has to show that
a class with admitted work *has* a first offer, and that is a fact about every earlier step: `Ordered` says that
arrival numbers and heap ranks never repeat, although each push and each removal numbers the live entries from 1 again
(`RequeueDistinct`). A finite set of offers without ties has a first one (`FirstExists`, by well-founded
induction over sets), and on an idle fleet the most urgent head passes every test of `CanUseSlot` (`UrgentStarts`).

`ArrivalTheorem` proves `ArrivalOrder` for a `Baseline`: FIFO, without escalation, and without deadline updates. `OneClass` shows
that nothing leaves the standard class, `EarlierFirst` that the head of a FIFO queue arrived
first. The premise on deadlines is what the code lacks: `SchedulerFifoDeadline` violates the same property.

`SchedulerHeapsProofs` proves `OneLiveEntry`, for any number of tasks and pushes, and at every pass of
the loop. `Sound` says that no heap holds an entry of a generation its task has not reached, at most one of
the generation it has, and for a queued task that one, in the heap of its class and under its present key. The methods of
the code break this halfway (a deadline is changed before the task is pushed, a popped task has no entry before it is refused,
started or pushed back), so the lemmas are about `SoundBut(s, tasks)`: in order but for these tasks. `PushAllSound`
repairs them all, whatever stale entries are left; `PoppedSound` costs exactly the popped task its entry; `EditSound` is
for the fields a method changes in between.

`SimulationProofs` first shows that the loop only ever takes the scheduler's steps (`DriverTheorem`), so that every
theorem about `Scheduler` holds of a simulation. `CompletionTheorem` rests on `Timely`: an iteration does not end
before everything finished is recorded, and what starts takes some time.
`BaselinesTheorem` combines `ArrivalTheorem`, which is about the numbers the scheduler gives, with `ArrivalsInOrder`: the loop
submits in the order of the workload, so numbers follow arrivals. All hold for every workload.

Two more theorems of the module are about the times of any workload; all they use of the durations is that no service takes more than 3.9
ticks (`DurationBound`), and of the workload that arrivals and patience are not negative.

- `ServedTheorem` proves `EverythingServed`: the loop may give up two days after the last deadline with work left,
  and does not. The inductive invariant `Paced` bounds the clock by what has been done: until the loop ends, `now` is at most the last deadline plus
  four ticks for each task that has left the queue (`PaceTheorem`), and what runs ends within that bound. A start pays
  for its own service (`PacedTick`). The clock moves only past arrivals still to come, past a service that runs, or before the last deadline: after it nothing is
  postponed any more (`PatienceTheorem`), and a round that starts nothing on an idle fleet leaves nothing queued
  (`IdleRoundEmpties`, by `IdleTheorem`, hence the premise `RoomForLargest`). The last deadline stays where it is (`LastDeadlineKept`).
  Four ticks for each of the default workload's 72 items are 288, the two days exactly.
- `DeadlineTheorem` proves `DeferralKeepsDeadline` as far as it is about the deferral. A patient task of *any* workload can be late because
  other work fills the slots when it has just the time left that a service needs; `Uncontended` says that this does not happen, and is the
  theorem's hypothesis on the behaviour, for workloads with no more patient tasks than slots. Then neither the window nor the limit
  on deferred work makes it late (`Punctual`): by its last chance it is ready and escalated out of the deferred class (`LastChanceReady`), and a round that
  starts nothing leaves nothing ready outside that class that would have fitted (`RoundTakes`). `Unreserved` and `Covered` hold in the experiment: no reservations, and a margin,
  a window and a patience of at least four ticks (they are 6, 6 and 36). TLC finds the hypothesis true in every state of the run `SimulationIntentAware`, and finds
  patient tasks late there when there are more of them than slots.

`RequestsProofs` proves `Spec => []TypeOK` and `Spec => []CallsWithinCapacity` for every finite set of requests,
every capacity and every choice of fallbacks. The invariant `RInv` says of each request (`Standing`) that calls are
in flight only among the awaited ones, that the extraction is awaited only before the submission is recorded and
other calls only while the task is in flight, that an awaited set is empty, one call, or as many drafts as the
task holds slots, and that a task in flight holds at least one; and that the slots held fit the capacity. The calls in flight then map into the occupied slots, one to one (`Slot`): the injection
bounds their number. Each action has a lemma, and the actions that move a coroutine share one.
Three more theorems rest on it. `OutputExists`: drafts are awaited together, so all of them are
answered when a winner is chosen, and what is chosen as output is settled before the judge is asked (`Settled`,
`Kept`). `ExactAccounting`: the answers a coroutine has gone on with are in its tallies, each once, and the two
answers of a structured call join them when that call returns (`Accounted`, `PastGrows`). `FallbacksReported` follows from it with
one invariant more (`Noted`): a role stands in the list of fallbacks exactly as often as its second model has answered.

`GatewayProofs` proves the six invariants of `Gateway` for every number of tasks, slots, worker threads and failing
writes. The inductive invariant `GInv` is about what the threads have still to do. `Shapes`: a new contract is
followed by the snapshot of its task, a snapshot by its write, "leave" comes last (`Paired`); workers only write rows of cancelled tasks; a loop that
ends an execution has nothing else to do (`Ending`); a stopping gateway begins nothing new. `Slots`: what is on a list to
dispatch, about to be launched or running is in flight and holds slots, or is about to leave with its task
ended (`Paid`). `Rows`: what is about to be written was true, status and class, or was overtaken by a cancellation or a
promotion (`Vouched`); a row that lags will be written, or its task is still to be dispatched or noticed as
refused, or it lags in one of the two permitted ways (`CatchesUp`). Both follow every class step by step: it only
rises (`Rises`) unless its task is planned again, which is followed by a row.
Each action has a lemma; those of the loop share `LoopGoesOn`, `QuietSlots`, `LoopVouched` and `KeptCatchesUp`,
and those on sequences (`Pushed`, `Popped`) say what taking a statement or inserting a stretch does.

`SchedulerProofs` also proves `Spec => ImplementsLifecycle`: submission is `Arrive`, a dispatch is
`Dispatch` with the drained offers as the dropped ones and the redecided slots as the slots taken
(`DispatchRefines`), completion and failure are `Release`, everything else stutters. The one obligation
that is not local, that the slots held fit, is `CapacityTheorem`; `HeldIsCount` identifies the
two counts. This is what entitles `Gateway` to the abstract scheduler.

`SchedulerRefinement` proves `Spec => ImplementsScheduler`, the other step of the chain: with `EntryTheorem` and the
theorem before, all three schedulers are one for every set of tasks, contracts, thresholds and reservations.

- What the mapping does not show. A position in `Scheduler` is a rank among live entries, a number in `SchedulerHeaps`
  comes from the unbounded `_sequence`. The lemmas compare orders (`Agree`): two numberings in the same order have
  the same ranks (`Requeued`). Raised tasks go behind the rest, in the order of arrival, in both (`PromotedAgree`), although the code
  numbers them one after the other and `Scheduler` adds a constant to their ranks.
- Calls. Each method but `next_task` is one step of both modules (`SubmitRefines`, `NudgeRefines`, ...).
- The loop. `Scheduler` chooses once, among the offers of the queue as the loop *took* it (`Taken(seen)`: escalated). `OffersMapped`,
  `ClassMapped` and `ChosenMapped` say who starts, is dropped and is blocked in terms of that object: `Served`, `Cleared`, `Halted`.
  `Loop(a, s, q)` says what the object `s` may be when the loop that took `a` has the classes `q` left: nothing has started; of a
  class passed exactly the offers before its first admitted one are refused, and that one does not fit; in the
  class being tried, a first part of the line is refused; the blocked heads are back, numbered after everything else in the order of
  classes. A refusal (`LoopRefuses`), a blocked head (`LoopBlocks`) and an exhausted class (`LoopPassesOver`) keep it and
  are stutters; a start (`LoopServes`) and the end of the classes (`LoopEnds`) reach the `Outcome` that `NextTask` chooses.
- The invariant `RInv` conjoins `HInv`, `Loop` while the loop runs, and `Dated`: numbers and arrivals given so far are below
  the counters. It is needed because the choice of `Scheduler` depends on `Taken(seen)` alone, and a pass of the loop sees only what
  is left of it. It was checked on the instance of the run `SchedulerHeaps` before it was proved.

Model-checked only: liveness under fairness, which is out of the prover's reach: `ServedEventually`, `EveryStartEnds`,
`CloseEnds`, `EveryCoroutineEnds`. That the instance's workload satisfies the hypothesis of `DeadlineTheorem` is TLC's result too.
`Paced` and that hypothesis were checked on the instance of `SimulationIntentAware`.

## 5. Not modelled

- Extraction: which of explicit, parsed and default values a field of the contract takes (`_resolve`), and the
  provenance it is labelled with: a function without state, which no decision reads back.
- Execution and providers: prompts, tokens, prices, the mock's canned answers, the metrics of a result.
- Simulation: outcome statistics, the trace, reports and HTML; the full workload of 72 items (its personas are
  the instance's).
- The HTTP layer but for its threads; command line, configuration, real validation and the reproduction
  script, which parse arguments, write files and keep no state.
- Gateway: `wait_for_idle`; the fields of a record other than those named above; the event log, which
  grows by one with each row. Without `auto_execute` the gateway is what `Simulation` drives.
- A restart is not an action: queues are not restored (`src/docs/service.md:11`), so a new
  process finds rows and nothing else, and what a row may say is the subject of `HonestRows`,
  `RowsCatchUp`, `StoredAsReported` and `PromotionsStored`.
- Enqueueing an id twice is possible through the scheduler's public API but not through the gateway.
- The wall clock is never set back.

## 6. Plan

The modules of the plan are written, and a theorem states every safety and action property the runs check. What could
be added to the models: the precedence of explicit, parsed and default fields. What could be proved next: conditions on
workload and capacity alone that imply the hypothesis of `DeadlineTheorem`; and, once written,
a composition of the gateway with `Scheduler` itself, which should keep what the gateway keeps over `TaskLifecycle`.
