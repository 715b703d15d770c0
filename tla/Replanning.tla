----------------------------- MODULE Replanning -----------------------------
(***************************************************************************)
(* One contract in the hands of the policy while the fleet changes around  *)
(* it.  The gateway plans a contract when it is submitted, nudged or given *)
(* a new deadline, and again (without deferral) when it is dispatched; in  *)
(* between, time passes and slots fill and empty.  The decision is a       *)
(* function of the contract and of the snapshot, so the module keeps only  *)
(* those two and states what the decision owes to each.                    *)
(***************************************************************************)
EXTENDS Policy

CONSTANTS Capacity, Horizon, MaxDeadline

ASSUME ReplanningAssumption ==
    Capacity \in Nat \ {0} /\ Horizon \in Nat /\ MaxDeadline \in Nat

VARIABLES contract, now, inFlight
vars == <<contract, now, inFlight>>

\* Gateway._fleet
Fleet(load, allowDeferral) ==
    [now |-> now, inFlight |-> load, capacity |-> Capacity,
     lowLoad |-> IF allowDeferral THEN {NextLowLoad(now)} ELSE {}]

Planned == PolicyEngine(contract, Fleet(inFlight, TRUE))
AtDispatch == PolicyEngine(contract, Fleet(inFlight, FALSE))

Init ==
    /\ contract \in [quality : QualityFloor, deadline : 0 .. MaxDeadline,
                     interactive : BOOLEAN, cap : {0}, attention : AttentionProfile]
    /\ now = 0
    /\ inFlight = 0

\* The clock: SimulatedClock.advance, bounded by Horizon.
Elapse ==
    /\ now < Horizon
    /\ now' = now + 1
    /\ UNCHANGED <<contract, inFlight>>

\* Tasks start and finish elsewhere in the fleet.
LoadChange ==
    /\ \E load \in 0 .. Capacity : inFlight' = load
    /\ UNCHANGED <<contract, now>>

Nudge ==
    /\ contract' = [contract EXCEPT !.interactive = TRUE]
    /\ UNCHANGED <<now, inFlight>>

UpdateDeadline ==
    /\ \E d \in 0 .. MaxDeadline : contract' = [contract EXCEPT !.deadline = d]
    /\ UNCHANGED <<now, inFlight>>

Next == Elapse \/ LoadChange \/ Nudge \/ UpdateDeadline

Spec == Init /\ [][Next]_vars

-----------------------------------------------------------------------------
\* The contract and the snapshot stay well formed, and so does the decision
\* policy.py's decide derives from them.
TypeOK ==
    /\ contract \in TaskContract
    /\ now \in 0 .. Horizon
    /\ inFlight \in 0 .. Capacity
    /\ Planned \in DecisionRecord
    /\ AtDispatch \in DecisionRecord

\* policy.py:55-56: congestion "never silently lowers this assigned tier".
\* No sequence of load changes, deadline changes, nudges and waiting changes
\* the model a task was first planned on.
TierKept == [][Planned'.model = Planned.model /\ AtDispatch'.model = Planned.model]_vars

\* Congestion only takes work away: whatever the load, the settings cost no
\* more and occupy no more parallel drafts than on an idle fleet, so a task
\* whose idle estimate fits its cap is admitted under every load.
CongestionOnlyReduces ==
    LET idle == PolicyEngine(contract, Fleet(0, TRUE)) IN
    /\ Planned.cost <= idle.cost
    /\ Planned.drafts <= idle.drafts
    /\ CheckAdmission([contract EXCEPT !.cap = idle.cost], Planned)

\* A waiting person is served now and in full: an interactive contract has
\* the top class, starts at once and keeps its settings under any load.
WaitingServedInFull ==
    contract.interactive =>
        /\ Planned.class = INTERACTIVE /\ Planned.at = now
        /\ Planned = PolicyEngine(contract, Fleet(0, TRUE))

\* A postponed start is worth the wait: only deferred-batch work is
\* postponed, to a low-load instant at most a day away, and SafetyMargin is
\* left between that instant and the deadline.  A dispatch never postpones.
DeferralLeavesMargin ==
    /\ AtDispatch.at = now
    /\ Planned.at # now =>
          /\ Planned.class = DEFERRED_BATCH
          /\ Planned.at \in now + 1 .. now + Day
          /\ (Planned.at - Valley) % Day = 0
          /\ Planned.at + SafetyMargin <= contract.deadline

\* The machine check that replaces a forbidden question is never lost to
\* congestion: do-not-interrupt work is never planned as a single pass.
SelfVerified ==
    contract.attention = "do-not-interrupt" =>
        Planned.template # SINGLE_PASS /\ AtDispatch.template # SINGLE_PASS

Urgency(class) ==
    CASE class = INTERACTIVE -> 2 [] class = STANDARD -> 1 [] OTHER -> 0

\* Waiting, congestion and nudges never make a task less urgent: its class
\* falls only when somebody moves its deadline.
UrgencyOnlyRises ==
    [][contract'.deadline = contract.deadline =>
         Urgency(Planned'.class) >= Urgency(Planned.class)]_vars
=============================================================================
