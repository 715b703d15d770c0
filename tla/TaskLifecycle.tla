--------------------------- MODULE TaskLifecycle ----------------------------
(***************************************************************************)
(* What the scheduler promises its callers, without classes, clocks or     *)
(* deadlines: a task is admitted or refused once, leaves the queue once,   *)
(* holds a fixed number of slots from its dispatch to its end, and the     *)
(* slots held never exceed the capacity.  Each action abstracts the        *)
(* public operations of scheduler.py that may have its effect.             *)
(***************************************************************************)
EXTENDS Naturals, FiniteSets

CONSTANTS Task, Capacity

VARIABLES
    status,     \* the task's state as GET reports it
    held        \* provider-call slots the task occupies

vars == <<status, held>>

Status == {"new", "queued", "in-flight", "completed", "failed", "cancelled", "rejected"}

Held(h) == Cardinality(UNION {{t} \X (1 .. h[t]) : t \in Task})

Init ==
    /\ status = [t \in Task |-> "new"]
    /\ held = [t \in Task |-> 0]

\* enqueue, or the refusal of a task whose estimate exceeds its cap
Arrive(t) ==
    /\ status[t] = "new"
    /\ \E s \in {"queued", "rejected"} : status' = [status EXCEPT ![t] = s]
    /\ UNCHANGED held

\* cancel: only work that has not started
Withdraw(t) ==
    /\ status[t] = "queued"
    /\ status' = [status EXCEPT ![t] = "cancelled"]
    /\ UNCHANGED held

\* next_task: some queued tasks fail admission, at most one starts
Dispatch ==
    \E dropped \in SUBSET {t \in Task : status[t] = "queued"} :
        \/ /\ status' = [t \in Task |-> IF t \in dropped THEN "rejected" ELSE status[t]]
           /\ UNCHANGED held
        \/ \E t \in Task \ dropped, units \in 1 .. Capacity :
              /\ status[t] = "queued"
              /\ status' = [u \in Task |->
                    IF u = t THEN "in-flight"
                    ELSE IF u \in dropped THEN "rejected" ELSE status[u]]
              /\ held' = [held EXCEPT ![t] = units]
              /\ Held(held') <= Capacity

\* complete and fail
Release(t) ==
    /\ status[t] = "in-flight"
    /\ \E s \in {"completed", "failed"} : status' = [status EXCEPT ![t] = s]
    /\ held' = [held EXCEPT ![t] = 0]

Next == Dispatch \/ \E t \in Task : Arrive(t) \/ Withdraw(t) \/ Release(t)

Spec == Init /\ [][Next]_vars
=============================================================================
