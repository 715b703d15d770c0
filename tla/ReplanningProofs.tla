-------------------------- MODULE ReplanningProofs --------------------------
(***************************************************************************)
(* What the decision owes to its contract while the fleet changes, for     *)
(* every capacity, threshold, clock bound and deadline.                    *)
(***************************************************************************)
EXTENDS Replanning, PolicyProofs

\* The two state variables the decisions are functions of.
Inv ==
    /\ contract \in TaskContract
    /\ now \in 0 .. Horizon
    /\ inFlight \in 0 .. Capacity

LEMMA FleetType ==
    ASSUME Inv, NEW load \in 0 .. Capacity, NEW allow \in BOOLEAN
    PROVE  Fleet(load, allow) \in FleetState
BY ReplanningAssumption, NextLowLoadType DEF Inv, Fleet, FleetState

LEMMA ContractEdits ==
    ASSUME NEW c \in TaskContract
    PROVE  /\ [c EXCEPT !.interactive = TRUE] \in TaskContract
           /\ \A d \in Int : [c EXCEPT !.deadline = d] \in TaskContract
BY DEF TaskContract

LEMMA InvHolds == Spec => []Inv
<1>1. Init => Inv
  BY ReplanningAssumption DEF Init, Inv, TaskContract
<1>2. Inv /\ [Next]_vars => Inv'
  <2> SUFFICES ASSUME Inv, [Next]_vars PROVE Inv'
    OBVIOUS
  <2>1. CASE Elapse
    <3>1. now' \in 0 .. Horizon
      BY <2>1, ReplanningAssumption DEF Elapse, Inv
    <3> QED
      BY <2>1, <3>1 DEF Elapse, Inv
  <2>2. CASE LoadChange
    BY <2>2 DEF LoadChange, Inv
  <2>3. CASE Nudge
    BY <2>3, ContractEdits DEF Nudge, Inv
  <2>4. CASE UpdateDeadline
    <3>1. PICK d \in 0 .. MaxDeadline : contract' = [contract EXCEPT !.deadline = d]
      BY <2>4 DEF UpdateDeadline
    <3>2. d \in Int
      BY ReplanningAssumption
    <3>3. contract' \in TaskContract
      BY <3>1, <3>2, ContractEdits DEF Inv
    <3> QED
      BY <2>4, <3>3 DEF UpdateDeadline, Inv
  <2>5. CASE UNCHANGED vars
    BY <2>5 DEF vars, Inv
  <2> QED
    BY <2>1, <2>2, <2>3, <2>4, <2>5 DEF Next
<1> QED
  BY <1>1, <1>2, PTL DEF Spec

LEMMA EngineType ==
    ASSUME Inv, NEW load \in 0 .. Capacity, NEW allow \in BOOLEAN
    PROVE  PolicyEngine(contract, Fleet(load, allow)) \in DecisionRecord
<1>1. "intent-aware" \in RunMode
  BY DEF RunMode
<1>2. Decide("intent-aware", contract, Fleet(load, allow)) \in DecisionRecord
  BY <1>1, FleetType, DecideType DEF Inv
<1> QED
  BY <1>2 DEF Decide

\* Contract, snapshot and decisions stay well formed.
THEOREM TypeCorrect == Spec => []TypeOK
<1>1. Inv => TypeOK
  BY EngineType DEF Inv, TypeOK, Planned, AtDispatch
<1> QED
  BY <1>1, InvHolds, PTL

\* An idle fleet is never under high load.
LEMMA IdleIsLow == ~HighLoad(Fleet(0, TRUE))
BY ReplanningAssumption DEF HighLoad, Fleet

\* Congestion only reduces cost and breadth: what an idle fleet would admit
\* is admitted under every load.
THEOREM CongestionTheorem == Spec => []CongestionOnlyReduces
<1>1. Inv => CongestionOnlyReduces
  <2> SUFFICES ASSUME Inv PROVE CongestionOnlyReduces
    OBVIOUS
  <2> DEFINE busy == Fleet(inFlight, TRUE)
             idle == Fleet(0, TRUE)
  <2>1. /\ EstimateCost(Selected(contract, busy)) <= EstimateCost(Selected(contract, idle))
        /\ Selected(contract, busy).drafts <= Selected(contract, idle).drafts
    BY IdleIsLow, CongestionReduces DEF Inv
  <2>2. /\ Planned.cost = EstimateCost(Selected(contract, busy))
        /\ Planned.drafts = Selected(contract, busy).drafts
        /\ PolicyEngine(contract, idle).cost = EstimateCost(Selected(contract, idle))
        /\ PolicyEngine(contract, idle).drafts = Selected(contract, idle).drafts
    BY DEF Planned, PolicyEngine, Decision
  <2>3. ASSUME NEW n PROVE [contract EXCEPT !.cap = n].cap = n
    BY DEF Inv, TaskContract
  <2> QED
    BY <2>1, <2>2, <2>3 DEF CongestionOnlyReduces, CheckAdmission
<1> QED
  BY <1>1, InvHolds, PTL

\* A waiting person is planned at once, in the top class, in full.
THEOREM WaitingTheorem == Spec => []WaitingServedInFull
<1>1. Inv => WaitingServedInFull
  <2> SUFFICES ASSUME Inv, contract.interactive PROVE WaitingServedInFull
    BY DEF WaitingServedInFull
  <2>1. \A load : Selected(contract, Fleet(load, TRUE)) = Selected(contract, Fleet(0, TRUE))
    BY DEF Selected, DegradeForLoad
  <2>2. \A load : Fleet(load, TRUE).now = now
    BY DEF Fleet
  <2>3. Priority(contract, now) = INTERACTIVE
    BY DEF Priority, Inv, TaskContract
  <2>4. \A load : ScheduledAt(contract, Fleet(load, TRUE)) = now
    BY <2>2, <2>3 DEF ScheduledAt, INTERACTIVE, DEFERRED_BATCH
  <2> QED
    BY <2>1, <2>2, <2>3, <2>4 DEF WaitingServedInFull, Planned, PolicyEngine, Decision
<1> QED
  BY <1>1, InvHolds, PTL

\* What is postponed is patient, waits for an opening of the low-load window in
\* the coming day, and keeps the margin; a dispatch postpones nothing (policy.py's
\* _scheduled_for on the instant gateway.py's _fleet offers).
THEOREM DeferralTheorem == Spec => []DeferralLeavesMargin
<1>1. Inv => DeferralLeavesMargin
  <2> SUFFICES ASSUME Inv PROVE DeferralLeavesMargin
    OBVIOUS
  <2>1. now \in Int
    BY ReplanningAssumption DEF Inv
  <2>2. /\ Planned.at = ScheduledAt(contract, Fleet(inFlight, TRUE))
        /\ Planned.class = Priority(contract, now)
        /\ AtDispatch.at = ScheduledAt(contract, Fleet(inFlight, FALSE))
    BY DEF Planned, AtDispatch, PolicyEngine, Decision, Fleet
  <2>3. AtDispatch.at = now
    BY <2>2 DEF ScheduledAt, Fleet
  <2>4. \/ Planned.at = now
        \/ /\ Planned.at = NextLowLoad(now)
           /\ Priority(contract, now) = DEFERRED_BATCH
           /\ Planned.at <= contract.deadline - SafetyMargin
    <3>1. Fleet(inFlight, TRUE) \in FleetState /\ contract \in TaskContract
      BY FleetType DEF Inv
    <3> QED
      BY <2>2, <3>1, ScheduledAtCases DEF Fleet
  <2>5. ASSUME Planned.at # now
        PROVE  /\ Planned.class = DEFERRED_BATCH
               /\ Planned.at \in now + 1 .. now + Day
               /\ (Planned.at - Valley) % Day = 0
               /\ Planned.at + SafetyMargin <= contract.deadline
    <3>1. contract.deadline \in Int /\ SafetyMargin \in Int /\ Planned.at \in Int
      BY <2>1, <2>4, <2>5, PolicyAssumption, NextLowLoadType DEF Inv, TaskContract
    <3>2. /\ Planned.at = NextLowLoad(now) /\ Planned.class = DEFERRED_BATCH
          /\ Planned.at <= contract.deadline - SafetyMargin
      BY <2>2, <2>4, <2>5
    <3>3. Planned.at \in now + 1 .. now + Day /\ (Planned.at - Valley) % Day = 0
      BY <2>1, <3>2, NextLowLoadOpens
    <3>4. Planned.at + SafetyMargin <= contract.deadline
      BY <3>1, <3>2
    <3> QED
      BY <3>2, <3>3, <3>4
  <2> QED
    BY <2>3, <2>5 DEF DeferralLeavesMargin
<1> QED
  BY <1>1, InvHolds, PTL

\* The machine check survives every load.
THEOREM SelfVerifiedTheorem == Spec => []SelfVerified
<1>1. ASSUME NEW f, contract.attention = "do-not-interrupt", Inv
      PROVE  Selected(contract, f).template # SINGLE_PASS
  <2>1. \A s \in SettingsRecord : SelfVerify(s, contract).template # SINGLE_PASS
    BY <1>1 DEF SelfVerify, SettingsRecord, SINGLE_PASS, SELF_CHECK
  <2>2. contract.quality \in QualityFloor
    BY <1>1 DEF Inv, TaskContract
  <2>3. DegradeForLoad(QUALITY_POLICY_TABLE[contract.quality], contract, f) \in SettingsRecord
    BY <1>1, DegradedType DEF Inv
  <2> QED
    BY <2>1, <2>3 DEF Selected
<1>2. Inv => SelfVerified
  BY <1>1 DEF SelfVerified, Planned, AtDispatch, PolicyEngine, Decision
<1> QED
  BY <1>2, InvHolds, PTL

\* The tier is a function of the quality floor, which no action edits.
THEOREM TierTheorem == Spec => TierKept
<1>1. ASSUME Inv, Inv', [Next]_vars
      PROVE  Planned'.model = Planned.model /\ AtDispatch'.model = Planned.model
  <2>1. contract'.quality = contract.quality
    BY <1>1 DEF Next, Elapse, LoadChange, Nudge, UpdateDeadline, vars, Inv, TaskContract
  <2>2. \A f : Selected(contract, f).model = QUALITY_POLICY_TABLE[contract.quality].model
    BY <1>1, TierByQuality DEF Inv
  <2>3. \A f : Selected(contract', f).model = QUALITY_POLICY_TABLE[contract'.quality].model
    BY <1>1, TierByQuality DEF Inv
  <2> QED
    BY <2>1, <2>2, <2>3 DEF Planned, AtDispatch, PolicyEngine, Decision
<1>2. Inv /\ Inv' /\ [Next]_vars
        => [Planned'.model = Planned.model /\ AtDispatch'.model = Planned.model]_vars
  BY <1>1
<1> QED
  BY <1>2, InvHolds, PTL DEF Spec, TierKept

\* Time, load and nudges never make a task less urgent.
THEOREM UrgencyTheorem == Spec => UrgencyOnlyRises
<1>1. ASSUME Inv, Inv', [Next]_vars, contract'.deadline = contract.deadline
      PROVE  Urgency(Planned'.class) >= Urgency(Planned.class)
  <2>1. now' \in Int /\ now \in Int /\ now' >= now /\ contract.deadline \in Int
    BY <1>1, ReplanningAssumption DEF Next, Elapse, LoadChange, Nudge, UpdateDeadline, vars,
       Inv, TaskContract
  <2>2. contract.interactive => contract'.interactive
    BY <1>1 DEF Next, Elapse, LoadChange, Nudge, UpdateDeadline, vars, Inv, TaskContract
  <2>3. Planned.class = Priority(contract, now) /\ Planned'.class = Priority(contract', now')
    BY DEF Planned, PolicyEngine, Decision, Fleet
  <2>4. Urgency(Priority(contract', now')) >= Urgency(Priority(contract, now))
    BY <1>1, <2>1, <2>2, PolicyAssumption DEF Priority, Urgency, INTERACTIVE, STANDARD,
       DEFERRED_BATCH
  <2> QED
    BY <2>3, <2>4
<1>2. Inv /\ Inv' /\ [Next]_vars
        => [contract'.deadline = contract.deadline =>
              Urgency(Planned'.class) >= Urgency(Planned.class)]_vars
  BY <1>1
<1> QED
  BY <1>2, InvHolds, PTL DEF Spec, UrgencyOnlyRises
=============================================================================
