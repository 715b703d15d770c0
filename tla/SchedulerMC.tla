---------------------------- MODULE SchedulerMC -----------------------------
(* Instances of Scheduler for TLC: contracts, reservations and symmetry. *)
EXTENDS Scheduler, TLC

Contract(quality, deadline, interactive, cap, attention) ==
    [quality |-> quality, deadline |-> deadline, interactive |-> interactive,
     cap |-> cap, attention |-> attention]

\* Scheduler.__init__'s reservations when none are supplied, and none at all.
DefaultReservation ==
    (INTERACTIVE :> 1) @@ (STANDARD :> IF Capacity > 1 THEN 1 ELSE 0) @@ (DEFERRED_BATCH :> 0)
NoReservation == [c \in PriorityClass |-> 0]

\* Three-slot work that is urgent, only paid for when degraded, or patient
\* enough for the window at 2; and patient one-slot work.
FleetContracts ==
    {Contract("critical", 2, FALSE, 20, "batch-questions"),
     Contract("critical", 3, FALSE, 10, "ask-freely"),
     Contract("critical", 4, FALSE, 20, "batch-questions"),
     Contract("standard", 4, FALSE, 4, "do-not-interrupt")}

\* Three-slot work that stalls on the default reservations, and deferred work.
StallContracts ==
    {Contract("critical", 2, FALSE, 20, "batch-questions"),
     Contract("high", 3, FALSE, 10, "ask-freely")}

\* Work of one and of three slots whose deadlines come within the run.
BaselineContracts ==
    {Contract("critical", 2, FALSE, 20, "batch-questions"),
     Contract("standard", 1, TRUE, 4, "do-not-interrupt")}

Symmetry == Permutations(Task)
=============================================================================
