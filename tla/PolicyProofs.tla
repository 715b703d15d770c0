---------------------------- MODULE PolicyProofs ----------------------------
(***************************************************************************)
(* Facts about the operators of Policy, for every contract, snapshot and   *)
(* value of the thresholds.  The state machines that plan with the policy  *)
(* cite them instead of opening its case distinctions again.               *)
(***************************************************************************)
EXTENDS Policy, TLAPS

\* The execution settings the tables and their adjustments can produce.
SettingsRecord ==
    [model : ModelTier, effort : ReasoningEffort, template : ExecutionTemplate,
     drafts : 1 .. 3]

\* The table's row of a contract.
LEMMA TableType ==
    ASSUME NEW contract \in TaskContract
    PROVE  QUALITY_POLICY_TABLE[contract.quality] \in SettingsRecord
BY DEF TaskContract, QualityFloor, QUALITY_POLICY_TABLE, Settings, SettingsRecord, ModelTier,
   ReasoningEffort, ExecutionTemplate, SINGLE_PASS, SELF_CHECK, PARALLEL_JUDGE

\* Degradation stays inside the tables' vocabulary, and on the same model.
LEMMA DegradedType ==
    ASSUME NEW contract \in TaskContract, NEW fleet
    PROVE  LET base == QUALITY_POLICY_TABLE[contract.quality] IN
           /\ DegradeForLoad(base, contract, fleet) \in SettingsRecord
           /\ DegradeForLoad(base, contract, fleet).model = base.model
<1> DEFINE base == QUALITY_POLICY_TABLE[contract.quality]
<1>1. base \in SettingsRecord
  BY TableType
<1> HIDE DEF base
<1>2. /\ Settings(base.model, base.effort, SELF_CHECK, 1) \in SettingsRecord
      /\ Settings(base.model, base.effort, SELF_CHECK, 1).model = base.model
  BY <1>1 DEF Settings, SettingsRecord, ExecutionTemplate
<1>3. \A e \in ReasoningEffort : /\ [base EXCEPT !.effort = e] \in SettingsRecord
                                 /\ [base EXCEPT !.effort = e].model = base.model
  BY <1>1 DEF SettingsRecord
<1>4. "medium" \in ReasoningEffort /\ "low" \in ReasoningEffort
  BY DEF ReasoningEffort
<1>5. contract.quality \in QualityFloor
  BY DEF TaskContract
<1>6. /\ DegradeForLoad(base, contract, fleet) \in SettingsRecord
      /\ DegradeForLoad(base, contract, fleet).model = base.model
  BY <1>1, <1>2, <1>3, <1>4, <1>5 DEF DegradeForLoad, QualityFloor
<1> QED
  BY <1>6 DEF base

\* The self-check is in the vocabulary too.
LEMMA SelectedType ==
    ASSUME NEW contract \in TaskContract, NEW fleet
    PROVE  Selected(contract, fleet) \in SettingsRecord
<1>1. \A s \in SettingsRecord : SelfVerify(s, contract) \in SettingsRecord
  BY DEF SelfVerify, SettingsRecord, ExecutionTemplate, SELF_CHECK
<1> QED
  BY <1>1, DegradedType DEF Selected

\* The price of any settings is a natural number.
LEMMA CostType ==
    ASSUME NEW s \in SettingsRecord
    PROVE  EstimateCost(s) \in Nat
<1>1. s.drafts \in 1 .. 3
  BY DEF SettingsRecord
<1>2. Calls(s.template, s.drafts) \in 1 .. 4
  BY <1>1 DEF Calls
<1>3. CallPrice(s.model) \in {2, 5}
  BY DEF CallPrice
<1> QED
  BY <1>2, <1>3 DEF EstimateCost

\* The three classes are all the urgency rule can answer.
LEMMA PriorityType ==
    ASSUME NEW contract, NEW now
    PROVE  Priority(contract, now) \in PriorityClass
BY DEF Priority, PriorityClass

LEMMA NextLowLoadType ==
    ASSUME NEW now \in Int
    PROVE  NextLowLoad(now) \in Int
BY PolicyAssumption DEF NextLowLoad

\* Division with a remainder, for whatever divisor the solver is not told.
LEMMA Remainder ==
    ASSUME NEW x \in Int, NEW d \in Nat \ {0}
    PROVE  x \div d \in Int /\ x = d * (x \div d) + (x % d) /\ x % d \in 0 .. d - 1
OBVIOUS

LEMMA MultipleRemainder ==
    ASSUME NEW q \in Int, NEW d \in Nat \ {0}
    PROVE  (d * q) % d = 0
<1>1. d * q \in Int
  OBVIOUS
<1>2. /\ (d * q) \div d \in Int /\ (d * q) % d \in 0 .. d - 1
      /\ d * q = d * ((d * q) \div d) + ((d * q) % d)
  BY <1>1, Remainder
<1>3. ASSUME NEW k \in Int, NEW m \in 0 .. d - 1, d * q = d * k + m
      PROVE  m = 0
  <2>1. m = d * (q - k)
    BY <1>3
  <2>2. q - k >= 1 => d * (q - k) >= d
    OBVIOUS
  <2>3. q - k <= -1 => d * (q - k) <= -d
    OBVIOUS
  <2> QED
    BY <2>1, <2>2, <2>3
<1> QED
  BY <1>2, <1>3

\* The window is an opening of the low-load hours, in the coming day.
LEMMA NextLowLoadOpens ==
    ASSUME NEW now \in Int
    PROVE  /\ NextLowLoad(now) \in now + 1 .. now + Day
           /\ (NextLowLoad(now) - Valley) % Day = 0
<1> DEFINE x == now - Valley
<1>1. x \in Int /\ Day \in Nat \ {0} /\ Valley \in Int
  BY PolicyAssumption
<1>2. x \div Day \in Int /\ x = Day * (x \div Day) + (x % Day) /\ x % Day \in 0 .. Day - 1
  BY <1>1, Remainder
<1>3. NextLowLoad(now) = now + Day - (x % Day)
  BY DEF NextLowLoad
<1> HIDE DEF x
<1>4. NextLowLoad(now) \in now + 1 .. now + Day
  BY <1>1, <1>2, <1>3
<1>5. NextLowLoad(now) - Valley = x + Day - (x % Day)
  BY <1>1, <1>2, <1>3 DEF x
<1>6. x + Day - (x % Day) = Day * ((x \div Day) + 1) /\ (x \div Day) + 1 \in Int
  BY <1>1, <1>2
<1> QED
  BY <1>1, <1>4, <1>5, <1>6, MultipleRemainder

\* The start of a planned task is the present, or the one low-load instant,
\* and then the task is deferred and its margin is safe.
LEMMA ScheduledAtCases ==
    ASSUME NEW contract \in TaskContract, NEW fleet \in FleetState
    PROVE  \/ ScheduledAt(contract, fleet) = fleet.now
           \/ /\ ScheduledAt(contract, fleet) \in fleet.lowLoad
              /\ Priority(contract, fleet.now) = DEFERRED_BATCH
              /\ ScheduledAt(contract, fleet) <= contract.deadline - SafetyMargin
BY DEF ScheduledAt

LEMMA ScheduledAtType ==
    ASSUME NEW contract \in TaskContract, NEW fleet \in FleetState
    PROVE  ScheduledAt(contract, fleet) \in Int
BY ScheduledAtCases DEF FleetState

\* Whatever mode plans, the result is a decision record.
THEOREM DecideType ==
    ASSUME NEW mode \in RunMode, NEW contract \in TaskContract, NEW fleet \in FleetState
    PROVE  Decide(mode, contract, fleet) \in DecisionRecord
<1>1. ASSUME NEW s \in SettingsRecord, NEW class \in PriorityClass, NEW at \in Int
      PROVE  Decision(s, class, at) \in DecisionRecord
  BY CostType DEF Decision, SettingsRecord, DecisionRecord
<1>2. PolicyEngine(contract, fleet) \in DecisionRecord
  BY <1>1, SelectedType, PriorityType, ScheduledAtType DEF PolicyEngine
<1>3. fleet.now \in Int
  BY DEF FleetState
<1>4. StaticBaselinePolicy(contract, fleet) \in DecisionRecord
  <2>1. Settings("terra", "medium", SELF_CHECK, 1) \in SettingsRecord
    BY DEF Settings, SettingsRecord, ModelTier, ReasoningEffort, ExecutionTemplate
  <2>2. STANDARD \in PriorityClass
    BY DEF PriorityClass
  <2> QED
    BY <1>1, <1>3, <2>1, <2>2 DEF StaticBaselinePolicy
<1>5. ContractFifoPolicy(contract, fleet) \in DecisionRecord
  BY <1>2, <1>3 DEF ContractFifoPolicy, DecisionRecord, PriorityClass
<1> QED
  BY <1>2, <1>4, <1>5 DEF Decide

-----------------------------------------------------------------------------
(* What load may change, and what it may not *)

\* Below the high load the settings are the contract's own: they depend on its
\* quality floor and attention profile, not on the fleet or on who waits.
THEOREM UndegradedByContract ==
    ASSUME NEW c, NEW d, NEW f, NEW g,
           c.quality = d.quality, c.attention = d.attention,
           ~HighLoad(f), ~HighLoad(g)
    PROVE  Selected(c, f) = Selected(d, g)
BY DEF Selected, DegradeForLoad, SelfVerify

\* Congestion keeps the model tier the quality floor selected.
THEOREM TierByQuality ==
    ASSUME NEW c \in TaskContract, NEW f
    PROVE  Selected(c, f).model = QUALITY_POLICY_TABLE[c.quality].model
<1>1. \A s \in SettingsRecord : SelfVerify(s, c).model = s.model
  BY DEF SelfVerify, SettingsRecord
<1> QED
  BY <1>1, DegradedType DEF Selected

\* Congestion only takes work away: under any load the settings cost at most
\* what they cost below the high load, and keep at most as many drafts.
THEOREM CongestionReduces ==
    ASSUME NEW c \in TaskContract, NEW f, NEW g, ~HighLoad(g)
    PROVE  /\ EstimateCost(Selected(c, f)) <= EstimateCost(Selected(c, g))
           /\ Selected(c, f).drafts <= Selected(c, g).drafts
<1>1. CASE ~HighLoad(f)
  <2>1. Selected(c, f) = Selected(c, g)
    BY <1>1, UndegradedByContract
  <2>2. Selected(c, g) \in SettingsRecord
    BY SelectedType
  <2>3. EstimateCost(Selected(c, g)) \in Nat /\ Selected(c, g).drafts \in Nat
    BY <2>2, CostType DEF SettingsRecord
  <2> QED
    BY <2>1, <2>3
<1>2. CASE HighLoad(f)
  <2>1. CASE c.quality = "draft"
    BY <2>1 DEF Selected, DegradeForLoad, SelfVerify, QUALITY_POLICY_TABLE, Settings,
       EstimateCost, CallPrice, Calls, SINGLE_PASS, SELF_CHECK, PARALLEL_JUDGE
  <2>2. CASE c.quality = "standard"
    BY <2>2 DEF Selected, DegradeForLoad, SelfVerify, QUALITY_POLICY_TABLE, Settings,
       EstimateCost, CallPrice, Calls, SINGLE_PASS, SELF_CHECK, PARALLEL_JUDGE
  <2>3. CASE c.quality = "high"
    BY <2>3 DEF Selected, DegradeForLoad, SelfVerify, QUALITY_POLICY_TABLE, Settings,
       EstimateCost, CallPrice, Calls, SINGLE_PASS, SELF_CHECK, PARALLEL_JUDGE
  <2>4. CASE c.quality = "critical"
    BY <2>4 DEF Selected, DegradeForLoad, SelfVerify, QUALITY_POLICY_TABLE, Settings,
       EstimateCost, CallPrice, Calls, SINGLE_PASS, SELF_CHECK, PARALLEL_JUDGE
  <2> QED
    BY <2>1, <2>2, <2>3, <2>4 DEF TaskContract, QualityFloor
<1> QED
  BY <1>1, <1>2
=============================================================================
