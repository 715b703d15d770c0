---------------------------- MODULE SimulationMC ----------------------------
(* An instance of Simulation for TLC: items of the personas of workload.py. *)
EXTENDS Simulation, TLC

Item(arrival, patience, waiting, quality, cap, attention, nudge) ==
    [arrival |-> arrival, patience |-> patience, waiting |-> waiting,
     quality |-> quality, cap |-> cap, attention |-> attention, nudge |-> nudge]

\* PERSONA_TEXT's four personas, with their caps in units of half a Luna call.
Executive(arrival) ==
    Item(arrival, 3, TRUE, "critical", 3076, "do-not-interrupt", {})
Collaborator(arrival) ==
    Item(arrival, 12, TRUE, "standard", 461, "ask-freely", {})
Researcher(arrival, nudge) ==
    Item(arrival, 108, FALSE, "high", 769, "batch-questions", nudge)
Drafter(arrival) ==
    Item(arrival, 108, FALSE, "draft", 76, "do-not-interrupt", {})

\* Arrivals at 08:00, from where the window at 02:00 is too late for a
\* deadline of eighteen hours, and at 09:00, from where it leaves the margin
\* exactly; a researcher who asks for an update; a task nobody pays for.
CaseStudy ==
    {Executive(54), Executive(58), Collaborator(54), Drafter(48), Drafter(54),
     Researcher(48, {}), Researcher(54, {}), Researcher(54, {3}),
     [Executive(54) EXCEPT !.cap = 1]}

WorkloadContracts == {Explicit(i) : i \in CaseStudy}

NoReservation == [c \in PriorityClass |-> 0]
Symmetry == Permutations(Task)
=============================================================================
