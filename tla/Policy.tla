------------------------------- MODULE Policy -------------------------------
(***************************************************************************)
(* The deterministic policy of policy.py: from a task's contract and a     *)
(* snapshot of the fleet to the decision record the scheduler works from,  *)
(* with the two baseline policies simulation.py swaps in for it.           *)
(*                                                                         *)
(* Times are integers of one unit, the thresholds are constants.  Costs    *)
(* are in the unit "one Luna call of this task" doubled: the two rates per *)
(* token of the ladder stand in the exact ratio 2 : 5 for input and for    *)
(* output, so the task's token estimate divides out of every comparison    *)
(* with its (arbitrary) cap.                                               *)
(***************************************************************************)
EXTENDS Integers

CONSTANTS
    InteractiveSlack,   \* at most this far from the deadline: interactive
    DeferredSlack,      \* at least this far from the deadline: deferred-batch
    SafetyMargin,       \* left before the deadline by a deferred start
    Day, Valley         \* the low-load window opens at Valley + k * Day

ASSUME PolicyAssumption ==
    /\ InteractiveSlack \in Nat /\ DeferredSlack \in Nat
    /\ InteractiveSlack < DeferredSlack
    /\ SafetyMargin \in Nat
    /\ Day \in Nat \ {0} /\ Valley \in Nat

INTERACTIVE == "interactive"
STANDARD == "standard"
DEFERRED_BATCH == "deferred-batch"
PriorityClass == {INTERACTIVE, STANDARD, DEFERRED_BATCH}

QualityFloor == {"draft", "standard", "high", "critical"}
AttentionProfile == {"ask-freely", "batch-questions", "do-not-interrupt"}
ModelTier == {"luna", "terra"}
ReasoningEffort == {"low", "medium", "high"}
SINGLE_PASS == "single-pass"
SELF_CHECK == "single-pass+self-check"
PARALLEL_JUDGE == "parallel-drafts+judge"
ExecutionTemplate == {SINGLE_PASS, SELF_CHECK, PARALLEL_JUDGE}

\* A contract: every field may come from the request or from extraction.
TaskContract ==
    [quality : QualityFloor, deadline : Int, interactive : BOOLEAN,
     cap : Nat, attention : AttentionProfile]

\* A decision: the execution settings, the class, the earliest start, the cost.
DecisionRecord ==
    [model : ModelTier, effort : ReasoningEffort, template : ExecutionTemplate,
     drafts : 1 .. 3, class : PriorityClass, at : Int, cost : Nat]

\* The snapshot the policy reads.  lowLoad holds the next low-load instant,
\* or nothing when the caller does not allow deferral.
FleetState ==
    [now : Int, inFlight : Nat, capacity : Nat \ {0}, lowLoad : SUBSET Int]

(***************************************************************************)
(* Execution settings                                                      *)
(***************************************************************************)
Settings(model, effort, template, drafts) ==
    [model |-> model, effort |-> effort, template |-> template, drafts |-> drafts]

QUALITY_POLICY_TABLE ==
    [draft    |-> Settings("luna", "low", SINGLE_PASS, 1),
     standard |-> Settings("luna", "medium", SINGLE_PASS, 1),
     high     |-> Settings("terra", "high", SELF_CHECK, 1),
     critical |-> Settings("terra", "high", PARALLEL_JUDGE, 3)]

\* Mutants of HighLoad: the comparison turned round; half the fleet is enough.
HighLoadInverted(fleet) == 100 * fleet.inFlight < 85 * fleet.capacity
HighLoadAtHalf(fleet) == 100 * fleet.inFlight >= 50 * fleet.capacity

\* load_fraction < HIGH_LOAD_FRACTION, over the integers
HighLoad(fleet) == 100 * fleet.inFlight >= 85 * fleet.capacity

\* Mutants of DegradeForLoad: no draft is left of a critical task; congestion
\* takes the tier; waiting persons are degraded like patient work.
DegradeToNoDraft(base, contract, fleet) ==
    IF HighLoad(fleet) /\ ~contract.interactive /\ contract.quality = "critical"
    THEN Settings(base.model, base.effort, SELF_CHECK, 0) ELSE base
DegradeTier(base, contract, fleet) ==
    IF HighLoad(fleet) /\ ~contract.interactive
    THEN [base EXCEPT !.model = "luna"] ELSE base
DegradeEverybody(base, contract, fleet) ==
    IF HighLoad(fleet) /\ contract.quality = "high"
    THEN [base EXCEPT !.effort = "medium"] ELSE base

DegradeForLoad(base, contract, fleet) ==
    IF ~HighLoad(fleet) \/ contract.interactive
    THEN base
    ELSE CASE contract.quality = "critical" ->
                Settings(base.model, base.effort, SELF_CHECK, 1)
           [] contract.quality = "high" -> [base EXCEPT !.effort = "medium"]
           [] contract.quality = "standard" -> [base EXCEPT !.effort = "low"]
           [] OTHER -> base

\* Mutant of SelfVerify: cheap work goes unchecked.
SelfVerifyAboveLow(selected, contract) ==
    IF /\ contract.attention = "do-not-interrupt" /\ selected.template = SINGLE_PASS
       /\ selected.effort # "low"
    THEN [selected EXCEPT !.template = SELF_CHECK]
    ELSE selected

\* Nobody may be asked: a single pass gets a self-check instead.
SelfVerify(selected, contract) ==
    IF contract.attention = "do-not-interrupt" /\ selected.template = SINGLE_PASS
    THEN [selected EXCEPT !.template = SELF_CHECK]
    ELSE selected

Selected(contract, fleet) ==
    SelfVerify(DegradeForLoad(QUALITY_POLICY_TABLE[contract.quality], contract, fleet),
               contract)

CallPrice(model) == IF model = "luna" THEN 2 ELSE 5

Calls(template, drafts) ==
    CASE template = SINGLE_PASS -> 1
      [] template = SELF_CHECK -> 2
      [] OTHER -> IF drafts + 1 > 2 THEN drafts + 1 ELSE 2

EstimateCost(s) == CallPrice(s.model) * Calls(s.template, s.drafts)

(***************************************************************************)
(* Urgency                                                                 *)
(***************************************************************************)
\* Mutants of Priority: an overdue task is not inside the interactive slack;
\* a distant deadline is looked at before the waiting person.
PriorityNotOverdue(contract, now) ==
    IF contract.interactive \/ contract.deadline - now \in 0 .. InteractiveSlack
    THEN INTERACTIVE
    ELSE IF contract.deadline - now >= DeferredSlack THEN DEFERRED_BATCH ELSE STANDARD
PriorityDeadlineFirst(contract, now) ==
    IF contract.deadline - now >= DeferredSlack
    THEN DEFERRED_BATCH
    ELSE IF contract.interactive \/ contract.deadline - now <= InteractiveSlack
         THEN INTERACTIVE ELSE STANDARD

Priority(contract, now) ==
    IF contract.interactive \/ contract.deadline - now <= InteractiveSlack
    THEN INTERACTIVE
    ELSE IF contract.deadline - now >= DeferredSlack THEN DEFERRED_BATCH ELSE STANDARD

\* The next Valley strictly after now.
NextLowLoad(now) == now + Day - ((now - Valley) % Day)

\* Mutant of ScheduledAt: the window only has to open before the deadline.
ScheduledWithoutMargin(contract, fleet) ==
    IF /\ Priority(contract, fleet.now) = DEFERRED_BATCH
       /\ \E low \in fleet.lowLoad : low <= contract.deadline
    THEN CHOOSE low \in fleet.lowLoad : low <= contract.deadline
    ELSE fleet.now

\* Deferred work waits for the window if the window leaves the margin.
ScheduledAt(contract, fleet) ==
    IF /\ Priority(contract, fleet.now) = DEFERRED_BATCH
       /\ \E low \in fleet.lowLoad : low <= contract.deadline - SafetyMargin
    THEN CHOOSE low \in fleet.lowLoad : low <= contract.deadline - SafetyMargin
    ELSE fleet.now

(***************************************************************************)
(* The three policies                                                      *)
(***************************************************************************)
Decision(s, class, at) ==
    [model |-> s.model, effort |-> s.effort, template |-> s.template,
     drafts |-> s.drafts, class |-> class, at |-> at, cost |-> EstimateCost(s)]

PolicyEngine(contract, fleet) ==
    Decision(Selected(contract, fleet), Priority(contract, fleet.now),
             ScheduledAt(contract, fleet))

StaticBaselinePolicy(contract, fleet) ==
    Decision(Settings("terra", "medium", SELF_CHECK, 1), STANDARD, fleet.now)

ContractFifoPolicy(contract, fleet) ==
    [PolicyEngine(contract, fleet) EXCEPT !.class = STANDARD, !.at = fleet.now]

RunMode == {"static", "contract-fifo", "intent-aware"}

Decide(mode, contract, fleet) ==
    CASE mode = "static" -> StaticBaselinePolicy(contract, fleet)
      [] mode = "contract-fifo" -> ContractFifoPolicy(contract, fleet)
      [] OTHER -> PolicyEngine(contract, fleet)

\* admit and check_admission: the estimate fits the contract's cap.
CheckAdmission(contract, decision) == decision.cost <= contract.cap
=============================================================================
