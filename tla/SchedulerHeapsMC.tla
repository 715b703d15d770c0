-------------------------- MODULE SchedulerHeapsMC --------------------------
(* An instance of SchedulerHeaps for TLC. *)
EXTENDS SchedulerHeaps, TLC

Contract(quality, deadline, interactive, cap, attention) ==
    [quality |-> quality, deadline |-> deadline, interactive |-> interactive,
     cap |-> cap, attention |-> attention]

\* Three-slot work due soon, work that may be deferred, and three-slot work
\* only the degraded form of which is paid for.
HeapContracts ==
    {Contract("critical", 2, FALSE, 20, "batch-questions"),
     Contract("high", 3, FALSE, 10, "ask-freely"),
     Contract("critical", 3, FALSE, 10, "ask-freely")}

DefaultReservation ==
    (INTERACTIVE :> 1) @@ (STANDARD :> IF Capacity > 1 THEN 1 ELSE 0) @@ (DEFERRED_BATCH :> 0)

Symmetry == Permutations(Task)
=============================================================================
