----------------------------- MODULE Simulation -----------------------------
(***************************************************************************)
(* simulate_pipeline of simulation.py: the loop that drives the scheduler  *)
(* of one configuration, Mode, through a fixed workload, a clock tick at a *)
(* time.  The scheduler is module Scheduler itself; the loop decides which *)
(* of its actions comes next, and the assumed service durations when a     *)
(* task ends.                                                              *)
(*                                                                         *)
(* Time is counted in ticks of ten minutes, durations in units of 1/10000  *)
(* of a tick, in which every sum the code forms is a whole number.         *)
(***************************************************************************)
EXTENDS Scheduler

CONSTANTS
    Items,              \* the workload items a task may stand for
    Tail                \* ticks the loop runs on after the last deadline

\* _explicit: every field of the contract is supplied by the item.
Explicit(i) ==
    [quality |-> i.quality, deadline |-> i.arrival + i.patience,
     interactive |-> i.waiting, cap |-> i.cap, attention |-> i.attention]

\* The scheduler of a configuration.
ASSUME SimulationAssumption ==
    /\ Discipline = IF Mode = "intent-aware" THEN "edf" ELSE "fifo"
    /\ EnableEscalation = (Mode = "intent-aware")
    /\ Contracts = {Explicit(i) : i \in Items}
    /\ Deadlines = {}
    /\ \A i \in Items : i.arrival \in Nat /\ i.patience \in Nat
    /\ Tail \in Nat

VARIABLES
    item,       \* the workload item of each task
    due,        \* running: when the task's assumed service ends
    nudged,
    stage       \* "tick": the iteration has work left, "ticked", "over"

loopVars == <<now, state, contract, decision, effective, order, place,
              item, due, nudged, stage>>

Unit == 10000

-----------------------------------------------------------------------------
(* Durations *)

\* Assumed hours of one stage, times 100, and effort multipliers, times 10.
ASSUMED_MODEL_STAGE_HOURS == [luna |-> 12, terra |-> 25]
ASSUMED_EFFORT_MULTIPLIER == [low |-> 8, medium |-> 10, high |-> 13]

Stage(model, effort) ==
    ASSUMED_MODEL_STAGE_HOURS[model] * ASSUMED_EFFORT_MULTIPLIER[effort]

\* assumed_service_duration in ticks of 1/6 hour: the two passes of a
\* self-check, or the parallel drafts as one stage and their selection.
ServiceDuration(d) ==
    60 * (CASE d.template = SELF_CHECK -> 2 * Stage(d.model, d.effort)
            [] d.template = PARALLEL_JUDGE -> Stage(d.model, d.effort) + Stage("luna", "low")
            [] OTHER -> Stage(d.model, d.effort))

-----------------------------------------------------------------------------
(* What the iteration still has to do *)

\* Mutant of Finished: completion is recorded only past the end of service.
FinishedPast == {t \in Task : state[t] = "in-flight" /\ due[t] < now * Unit}

Finished == {t \in Task : state[t] = "in-flight" /\ due[t] <= now * Unit}
Arrivals == {t \in Task : state[t] = "new"}
Arrived == {t \in Arrivals : item[t].arrival <= now}
Signalled ==
    {t \in Task \ nudged :
        state[t] = "queued" /\ \E after \in item[t].nudge : item[t].arrival + after <= now}

Running == {t \in Task : state[t] = "in-flight"}

\* The end of the loop: two days after the last deadline of the workload.
LastDeadline ==
    CHOOSE d \in {contract[t].deadline : t \in Task} :
        \A t \in Task : contract[t].deadline <= d

\* Mutant of Continues: running work does not keep the loop going.
ContinuesWhileQueued(instant) ==
    Arrivals \cup Queued # {} /\ instant <= LastDeadline + Tail

\* The condition of the while loop.
Continues(instant) ==
    Arrivals \cup Queued \cup Running # {} /\ instant <= LastDeadline + Tail

-----------------------------------------------------------------------------
(* Actions *)

LoopInit ==
    /\ item \in [Task -> Items]
    /\ contract = [t \in Task |-> Explicit(item[t])]
    /\ Init
    /\ due = [t \in Task |-> 0]
    /\ nudged = {}
    /\ stage = "tick"

\* finalize_dispatched for a task whose service has ended.
Finalize(t) ==
    /\ stage = "tick"
    /\ t \in Finished
    /\ Complete(t)
    /\ UNCHANGED <<item, due, nudged, stage>>

\* submit, in the order of arrival.
Arrive(t) ==
    /\ stage = "tick" /\ Finished = {}
    /\ t \in Arrived
    /\ \A u \in Arrived : item[t].arrival <= item[u].arrival
    /\ Submit(t)
    /\ UNCHANGED <<item, due, nudged, stage>>

\* The user asks for an update, once, and only while the task is queued.
AskForUpdate(t) ==
    /\ stage = "tick" /\ Finished = {} /\ Arrived = {}
    /\ t \in Signalled
    /\ Nudge(t)
    /\ nudged' = nudged \cup {t}
    /\ UNCHANGED <<item, due, stage>>

Quiet == stage = "tick" /\ Finished = {} /\ Arrived = {} /\ Signalled = {}
StartedNow == {t \in Task : Starts(t)}

\* A round of tick; what it starts is executed at once and ends when the
\* assumed duration has passed.  The round that starts nothing is the last.
Tick ==
    /\ Quiet
    /\ NextTask
    /\ due' = [t \in Task |->
          IF t \in StartedNow THEN now * Unit + ServiceDuration(decision'[t]) ELSE due[t]]
    /\ stage' = IF StartedNow = {} THEN "ticked" ELSE "tick"
    /\ UNCHANGED <<item, nudged>>

\* The clock advances and the loop condition is tested.
Advance ==
    /\ stage = "ticked" \/ (Quiet /\ InFlightCount = Capacity)
    /\ Elapse
    /\ stage' = IF Continues(now + 1) THEN "tick" ELSE "over"
    /\ UNCHANGED <<item, due, nudged>>

\* The function returns.
Over == stage = "over" /\ UNCHANGED loopVars

LoopNext ==
    \/ Over \/ Tick \/ Advance
    \/ \E t \in Task : Finalize(t) \/ Arrive(t) \/ AskForUpdate(t)

LoopSpec == LoopInit /\ [][LoopNext]_loopVars

-----------------------------------------------------------------------------
(* Properties *)

\* tests/test_simulation.py:60: "Both baselines must preserve arrival order
\* even when deadlines approach."  No task starts while an earlier arrival
\* waits, and none has left the standard class.
BaselinesKeepArrivalOrder ==
    [][Mode # "intent-aware" =>
         \A t \in StartedNow :
            /\ effective'[t] = STANDARD
            /\ \A u \in Queued' : item[t].arrival <= item[u].arrival]_loopVars

\* docs/architecture.md:34: "Completion is recorded at the first ten-minute
\* clock tick when the assumed duration has elapsed."  No task is still
\* running at a tick when it could have ended at the one before.
CompletedOnTick ==
    \A t \in Running : (now - 1) * Unit < due[t]

\* The loop ends with nothing left behind: whatever was admitted has run and
\* its completion is in the outcomes, within the two days after the last
\* deadline.
EverythingServed ==
    stage = "over" => \A t \in Task : state[t] \in {"completed", "rejected"}

Patient == {t \in Task : item[t].patience >= DeferredSlack}

\* docs/architecture.md:36: patient tasks are deferred "if enough deadline
\* margin remains".  As long as there are no more patient tasks than slots,
\* the deferral costs none its deadline, even if all wait for one window that
\* leaves them the bare margin: the margin pays for the longest service, and
\* escalation takes them out of the class with the limit as the window opens.
DeferralKeepsDeadline ==
    Mode = "intent-aware" /\ Cardinality(Patient) <= Capacity =>
        \A t \in Patient : state[t] = "completed" => due[t] <= contract[t].deadline * Unit
=============================================================================
