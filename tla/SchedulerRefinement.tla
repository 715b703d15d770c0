------------------------ MODULE SchedulerRefinement -------------------------
(***************************************************************************)
(* The scheduler of module SchedulerHeaps implements module Scheduler, for *)
(* every set of tasks, contracts and thresholds: heaps, generations, stale *)
(* entries and a loop that pops, refuses and pushes back come to the same  *)
(* as choosing once among sets of offers.                                  *)
(*                                                                         *)
(* Every call but next_task is one step of both.  The steps of the loop    *)
(* are stutters but the last, which is NextTask: the invariant says of the *)
(* object in the midst of the loop what it has become of the one the loop  *)
(* took, in terms of that one alone.  Positions are ranks of the numbers   *)
(* of the live entries; the proofs compare numbers.                        *)
(***************************************************************************)
EXTENDS SchedulerHeapsProofs

-----------------------------------------------------------------------------
(* The scheduler that the object refines.  Its operators, read with the     *)
(* mapping, are those of the object other callers see.                      *)

\* The instance counts as this module does.
LEMMA SameCardinality == \A S : Abstract!Cardinality(S) = Cardinality(S)
BY DEF Cardinality, Abstract!Cardinality

\* Classes and patterns carry the same names in both modules.
LEMMA SameNames ==
    /\ Abstract!PriorityClass = PriorityClass
    /\ Abstract!INTERACTIVE = INTERACTIVE /\ Abstract!STANDARD = STANDARD
    /\ Abstract!DEFERRED_BATCH = DEFERRED_BATCH
    /\ Abstract!SINGLE_PASS = SINGLE_PASS /\ Abstract!SELF_CHECK = SELF_CHECK
    /\ Abstract!PARALLEL_JUDGE = PARALLEL_JUDGE
BY DEF Abstract!PriorityClass, PriorityClass, Abstract!INTERACTIVE, INTERACTIVE,
       Abstract!STANDARD, STANDARD, Abstract!DEFERRED_BATCH, DEFERRED_BATCH,
       Abstract!SINGLE_PASS, SINGLE_PASS, Abstract!SELF_CHECK, SELF_CHECK,
       Abstract!PARALLEL_JUDGE, PARALLEL_JUDGE

\* Both modules run work with the same settings,
LEMMA SameSettings == \A m, e, t, d : Abstract!Settings(m, e, t, d) = Settings(m, e, t, d)
BY DEF Abstract!Settings, Settings

\* choose from the same table,
LEMMA SameTable == Abstract!QUALITY_POLICY_TABLE = QUALITY_POLICY_TABLE
BY SameNames, SameSettings DEF Abstract!QUALITY_POLICY_TABLE, QUALITY_POLICY_TABLE

\* select the same row of it,
LEMMA SameSelected == \A c, f : Abstract!Selected(c, f) = Selected(c, f)
<1>1. \A f : Abstract!HighLoad(f) = HighLoad(f)
  BY DEF Abstract!HighLoad, HighLoad
<1>2. \A b, c, f : Abstract!DegradeForLoad(b, c, f) = DegradeForLoad(b, c, f)
  BY <1>1, SameNames, SameSettings, Zenon DEF Abstract!DegradeForLoad, DegradeForLoad
<1>3. \A s, c : Abstract!SelfVerify(s, c) = SelfVerify(s, c)
  BY SameNames DEF Abstract!SelfVerify, SelfVerify
<1> QED
  BY <1>2, <1>3, SameTable DEF Abstract!Selected, Selected

\* decide alike,
LEMMA SameDecide == \A m, c, f : Abstract!Decide(m, c, f) = Decide(m, c, f)
<1>1. \A c, n : Abstract!Priority(c, n) = Priority(c, n)
  BY SameNames DEF Abstract!Priority, Priority
<1>2. \A c, f : Abstract!ScheduledAt(c, f) = ScheduledAt(c, f)
  BY <1>1, SameNames, Zenon DEF Abstract!ScheduledAt, ScheduledAt
<1>3. \A s : Abstract!EstimateCost(s) = EstimateCost(s)
  <2>1. \A m : Abstract!CallPrice(m) = CallPrice(m)
    BY DEF Abstract!CallPrice, CallPrice
  <2>2. \A t, d : Abstract!Calls(t, d) = Calls(t, d)
    BY SameNames, Zenon DEF Abstract!Calls, Calls
  <2> QED
    BY <2>1, <2>2 DEF Abstract!EstimateCost, EstimateCost
<1>4. \A s, c, a : Abstract!Decision(s, c, a) = Decision(s, c, a)
  BY <1>3 DEF Abstract!Decision, Decision
<1>5. \A c, f : Abstract!PolicyEngine(c, f) = PolicyEngine(c, f)
  BY <1>1, <1>2, <1>4, SameSelected DEF Abstract!PolicyEngine, PolicyEngine
<1>6. \A c, f : Abstract!StaticBaselinePolicy(c, f) = StaticBaselinePolicy(c, f)
  BY <1>4, SameNames, SameSettings DEF Abstract!StaticBaselinePolicy, StaticBaselinePolicy
<1>7. \A c, f : Abstract!ContractFifoPolicy(c, f) = ContractFifoPolicy(c, f)
  BY <1>5, SameNames DEF Abstract!ContractFifoPolicy, ContractFifoPolicy
<1> QED
  BY <1>5, <1>6, <1>7, Zenon DEF Abstract!Decide, Decide

\* admit alike,
LEMMA SameAdmission == \A c, d : Abstract!CheckAdmission(c, d) = CheckAdmission(c, d)
BY DEF Abstract!CheckAdmission, CheckAdmission

\* and count the same slots for a decision.
LEMMA SameUnits == \A d : Abstract!Units(d) = Units(d)
BY SameNames DEF Abstract!Units, Units

\* The load of the mapped state is the load of the object.
LEMMA SameLoad ==
    /\ Abstract!InFlightCount = InFlightCount(seen)
    /\ \A c : Abstract!InFlightByClass(c) = InFlightByClass(seen, c)
    /\ \A allow : Abstract!Fleet(allow) = Fleet(seen, allow)
<1>1. \A S : Abstract!Slots(S) = Slots(seen, S)
  BY SameUnits DEF Abstract!Slots, Slots
<1>2. Abstract!InFlightCount = InFlightCount(seen)
  BY <1>1, SameCardinality DEF Abstract!InFlightCount, InFlightCount
<1>3. \A c : Abstract!InFlightByClass(c) = InFlightByClass(seen, c)
  BY <1>1, SameCardinality DEF Abstract!InFlightByClass, InFlightByClass
<1>4. Abstract!NextLowLoad(now) = NextLowLoad(now)
  BY DEF Abstract!NextLowLoad, NextLowLoad
<1> QED
  BY <1>2, <1>3, <1>4 DEF Abstract!Fleet, Fleet

\* The bound of the ranks is the number of tasks.
LEMMA SameN == Abstract!N = Cardinality(Task)
BY SameCardinality DEF Abstract!N

-----------------------------------------------------------------------------
(* Ranks.  The positions of module Scheduler are ranks of the numbers here. *)

RankIn(f, live, t) == Cardinality({u \in live : f[u] <= f[t]})
Agree(f, g, live) == \A t, u \in live : f[t] <= f[u] <=> g[t] <= g[u]

\* A proper part of a set of tasks is smaller.
LEMMA SmallerSet ==
    ASSUME NEW S \in SUBSET Task, NEW T \in SUBSET S
    PROVE  /\ Cardinality(T) <= Cardinality(S)
           /\ T # S => Cardinality(T) < Cardinality(S)
<1>1. IsFiniteSet(S)
  BY SubsetFinite
<1> QED
  BY <1>1, FS_Subset, SubsetFinite

\* Ranks of integers are in the order of the integers.
LEMMA RankInAgrees ==
    ASSUME NEW live \in SUBSET Task, NEW f, \A t \in live : f[t] \in Int
    PROVE  /\ \A t, u \in live : RankIn(f, live, t) <= RankIn(f, live, u) <=> f[t] <= f[u]
           /\ \A t \in live : RankIn(f, live, t) \in 1 .. Cardinality(Task)
<1> DEFINE below(t) == {u \in live : f[u] <= f[t]}
<1>1. ASSUME NEW t \in live
      PROVE  /\ RankIn(f, live, t) = Cardinality(below(t)) /\ below(t) \in SUBSET Task
             /\ RankIn(f, live, t) \in 1 .. Cardinality(Task)
  <2>1. RankIn(f, live, t) = Cardinality(below(t)) /\ below(t) \in SUBSET Task
    BY DEF RankIn
  <2>2. {} \in SUBSET below(t) /\ {} # below(t)
    OBVIOUS
  <2>3. Cardinality({}) = 0
    BY FS_EmptySet
  <2> HIDE DEF below
  <2>4. 0 < Cardinality(below(t)) /\ Cardinality(below(t)) <= Cardinality(Task)
    BY <2>1, <2>2, <2>3, SmallerSet
  <2>5. Cardinality(below(t)) \in Nat /\ Cardinality(Task) \in Nat
    BY <2>1, SubsetFinite
  <2> QED
    BY <2>1, <2>4, <2>5
<1>2. ASSUME NEW t \in live, NEW u \in live, f[t] <= f[u]
      PROVE  RankIn(f, live, t) <= RankIn(f, live, u)
  <2>1. below(t) \in SUBSET below(u)
    BY <1>2
  <2> QED
    BY <1>1, <2>1, SmallerSet
<1>3. ASSUME NEW t \in live, NEW u \in live, ~(f[t] <= f[u])
      PROVE  RankIn(f, live, u) < RankIn(f, live, t)
  <2>1. below(u) \in SUBSET below(t) /\ below(u) # below(t)
    BY <1>3
  <2> QED
    BY <1>1, <2>1, SmallerSet
<1> HIDE DEF below
<1> QED
  BY <1>1, <1>2, <1>3

\* Two functions agree on the union of sets on each of which they agree, if
\* both put one set below the other.
LEMMA AgreeJoin ==
    ASSUME NEW f, NEW g, NEW S, NEW T, Agree(f, g, S), Agree(f, g, T),
           \A t \in S \cup T : f[t] \in Int /\ g[t] \in Int,
           \A t \in S, u \in T : f[t] < f[u] /\ g[t] < g[u]
    PROVE  Agree(f, g, S \cup T)
BY DEF Agree

\* Any two numberings of one task agree.
LEMMA AgreeSingle ==
    ASSUME NEW f, NEW g, NEW t, f[t] \in Int, g[t] \in Int
    PROVE  Agree(f, g, {t})
BY DEF Agree

-----------------------------------------------------------------------------
(* The mapping *)

Number(s, t) == (CHOOSE e \in LiveEntries(s, t) : TRUE).sequence
Numbers(s) == [t \in Task |-> Number(s, t)]
Waiting(s) == {t \in Task : s.state[t] = "queued"}
Arrived(s) == {t \in Task : s.order[t] \in Nat}

PlaceOf(s) ==
    [t \in Task |-> IF t \in Waiting(s) THEN RankIn(Numbers(s), Waiting(s), t) ELSE 0]
OrderOf(s) ==
    [t \in Task |-> IF t \in Arrived(s) THEN RankIn(s.order, Arrived(s), t) ELSE 0]

\* Numbers and any positions in the same order give the same ranks.
LEMMA Requeued ==
    ASSUME NEW s, NEW temp, Agree(Numbers(s), temp, Waiting(s))
    PROVE  PlaceOf(s) = Abstract!Requeue(temp, Waiting(s))
<1>1. ASSUME NEW t \in Waiting(s)
      PROVE  RankIn(Numbers(s), Waiting(s), t)
                = Cardinality({u \in Waiting(s) : temp[u] <= temp[t]})
  BY DEF RankIn, Agree
<1> QED
  BY <1>1, SameCardinality DEF PlaceOf, Abstract!Requeue

-----------------------------------------------------------------------------
(* The numbers of the live entries *)

\* What was drawn from the counter lies below it; a task has its place in
\* _tasks from its arrival on.
Dated(s) ==
    /\ \A c \in PriorityClass : \A e \in s.queues[c] : e.sequence < s.sequence
    /\ \A t \in Task :
          /\ s.order[t] = None \/ (s.order[t] \in Nat /\ s.order[t] < s.sequence)
          /\ s.state[t] = "new" => s.order[t] = None
          /\ s.state[t] = "queued" => s.order[t] # None

\* The number of a task is that of its one live entry.
LEMMA EntryNumber ==
    ASSUME NEW s \in Object, Generations(s), NEW t \in Task, NEW e \in LiveEntries(s, t)
    PROVE  Number(s, t) = e.sequence
<1>1. s.effective[t] \in PriorityClass
  BY ObjectFields
<1>2. \A x \in LiveEntries(s, t) : x = e
  BY <1>1 DEF LiveEntries, ValidEntry, Generations
<1>3. LiveEntries(s, t) = {e}
  BY <1>2
<1>4. (CHOOSE x \in {e} : TRUE) = e
  OBVIOUS
<1> QED
  BY <1>3, <1>4 DEF Number

\* A queued task in order has a number, under its present key.
LEMMA SoundNumber ==
    ASSUME NEW s, NEW tasks, SoundBut(s, tasks), NEW t \in Task \ tasks, s.state[t] = "queued"
    PROVE  /\ Number(s, t) \in Nat
           /\ \E e \in LiveEntries(s, t) :
                e \in Entry /\ e.key = Key(s, t) /\ e.sequence = Number(s, t)
<1>1. s \in Object /\ Generations(s) /\ Present(s, t)
  BY DEF SoundBut
<1>2. PICK e \in s.queues[s.effective[t]] :
         e.task = t /\ e.generation = s.generation[t] /\ e.key = Key(s, t)
  BY <1>1 DEF Present
<1>3. e \in LiveEntries(s, t)
  BY <1>2 DEF LiveEntries, ValidEntry
<1>4. e \in Entry
  BY <1>1, <1>2, ObjectFields
<1>5. Number(s, t) = e.sequence
  BY <1>1, <1>3, EntryNumber
<1> QED
  BY <1>2, <1>3, <1>4, <1>5 DEF Entry

\* Numbers given so far are below the counter.
LEMMA DatedNumber ==
    ASSUME NEW s, NEW tasks, SoundBut(s, tasks), Dated(s),
           NEW t \in Task \ tasks, s.state[t] = "queued"
    PROVE  Number(s, t) \in Nat /\ Number(s, t) < s.sequence
<1>1. s.effective[t] \in PriorityClass
  BY ObjectFields DEF SoundBut
<1>2. PICK e \in LiveEntries(s, t) : e.sequence = Number(s, t)
  BY SoundNumber
<1> QED
  BY <1>1, <1>2, SoundNumber DEF LiveEntries, Dated

\* Tasks pushed together take turns in the order of arrival.
LEMMA TurnBounds ==
    ASSUME NEW s \in Object, NEW tasks \in SUBSET Task
    PROVE  /\ \A t \in tasks : Turn(s, tasks, t) \in Nat /\ Turn(s, tasks, t) < Cardinality(tasks)
           /\ \A t, u \in tasks :
                Turn(s, tasks, t) <= Turn(s, tasks, u) <=> s.order[t] <= s.order[u]
<1> DEFINE before(t) == {u \in tasks : s.order[u] < s.order[t]}
<1>1. \A t \in Task : s.order[t] \in Int
  BY ObjectFields
<1>2. ASSUME NEW t \in tasks
      PROVE  /\ Turn(s, tasks, t) = Cardinality(before(t)) /\ before(t) \in SUBSET tasks
             /\ before(t) \in SUBSET Task /\ before(t) # tasks
  BY <1>1 DEF Turn
<1>3. ASSUME NEW t \in tasks, NEW u \in tasks, s.order[t] <= s.order[u]
      PROVE  before(t) \in SUBSET before(u)
  BY <1>1, <1>3
<1>4. ASSUME NEW t \in tasks, NEW u \in tasks, ~(s.order[t] <= s.order[u])
      PROVE  before(u) \in SUBSET before(t) /\ before(u) # before(t)
  BY <1>1, <1>4
<1> HIDE DEF before
<1>5. \A t \in tasks : Turn(s, tasks, t) \in Nat /\ Turn(s, tasks, t) < Cardinality(tasks)
  BY <1>2, SmallerSet, SubsetFinite
<1>6. \A t, u \in tasks : s.order[t] <= s.order[u] => Turn(s, tasks, t) <= Turn(s, tasks, u)
  BY <1>2, <1>3, SmallerSet
<1>7. \A t, u \in tasks : ~(s.order[t] <= s.order[u]) => Turn(s, tasks, u) < Turn(s, tasks, t)
  BY <1>2, <1>4, SmallerSet
<1> QED
  BY <1>5, <1>6, <1>7

\* _push numbers what it pushes after everything else, in order of arrival.
LEMMA PushAllNumbers ==
    ASSUME NEW s, NEW tasks \in SUBSET Task, SoundBut(s, tasks)
    PROVE  /\ \A t \in tasks : s.state[t] = "queued" =>
                Number(PushAll(s, tasks), t) = s.sequence + Turn(s, tasks, t)
           /\ \A t \in Task \ tasks : Number(PushAll(s, tasks), t) = Number(s, t)
           /\ PushAll(s, tasks).sequence = s.sequence + Cardinality(tasks)
<1> DEFINE r == PushAll(s, tasks)
<1>1. s \in Object /\ \A t \in Task : s.effective[t] \in PriorityClass
  BY ObjectFields DEF SoundBut
<1>2. PushedTo(s, tasks, r) /\ r \in Object /\ Generations(r)
  BY <1>1, PushAllEffect, PushAllSound DEF Sound, SoundBut
<1> HIDE DEF r
<1>3. ASSUME NEW t \in tasks, s.state[t] = "queued"
      PROVE  Number(r, t) = s.sequence + Turn(s, tasks, t)
  <2>1. PICK e \in r.queues[s.effective[t]] :
           /\ e.task = t /\ e.generation = r.generation[t]
           /\ e.sequence = s.sequence + Turn(s, tasks, t)
    BY <1>1, <1>2 DEF PushedTo
  <2>2. e \in LiveEntries(r, t)
    BY <1>2, <1>3, <2>1 DEF LiveEntries, ValidEntry, PushedTo
  <2> QED
    BY <1>2, <2>1, <2>2, EntryNumber
<1>4. ASSUME NEW t \in Task \ tasks PROVE Number(r, t) = Number(s, t)
  <2>1. LiveEntries(r, t) = LiveEntries(s, t)
    BY <1>1, <1>2, <1>4 DEF LiveEntries, ValidEntry, PushedTo
  <2> QED
    BY <2>1 DEF Number
<1> QED
  BY <1>2, <1>3, <1>4 DEF r, PushedTo

\* What is pushed is numbered by the counter and moves it on.
LEMMA PushAllDated ==
    ASSUME NEW s, NEW tasks \in SUBSET Task, SoundBut(s, tasks), Dated(s)
    PROVE  Dated(PushAll(s, tasks))
<1> DEFINE r == PushAll(s, tasks)
<1>1. s \in Object /\ s.sequence \in Nat /\ Cardinality(tasks) \in Nat
  BY ObjectFields, SubsetFinite DEF SoundBut
<1>2. PushedTo(s, tasks, r)
  BY <1>1, PushAllEffect
<1> HIDE DEF r
<1>3. r.sequence = s.sequence + Cardinality(tasks)
  BY <1>2 DEF PushedTo
<1>4. ASSUME NEW c \in PriorityClass, NEW e \in r.queues[c] PROVE e.sequence < r.sequence
  <2>1. CASE e \in s.queues[c]
    <3>1. e.sequence < s.sequence /\ e.sequence \in Nat
      BY <1>1, <2>1, ObjectFields DEF Dated, Entry
    <3> QED
      BY <1>1, <1>3, <3>1
  <2>2. CASE e \notin s.queues[c]
    <3>1. e.task \in tasks /\ e.sequence = s.sequence + Turn(s, tasks, e.task)
      BY <1>2, <2>2 DEF PushedTo
    <3>2. Turn(s, tasks, e.task) \in Nat /\ Turn(s, tasks, e.task) < Cardinality(tasks)
      BY <1>1, <3>1, TurnBounds
    <3> QED
      BY <1>1, <1>3, <3>1, <3>2
  <2> QED
    BY <2>1, <2>2
<1>5. r.order = s.order /\ r.state = s.state
  BY <1>2 DEF PushedTo
<1> QED
  BY <1>1, <1>3, <1>4, <1>5 DEF Dated, r

\* An edit that leaves queues and generations alone leaves the numbers alone.
LEMMA EditNumber ==
    ASSUME NEW s, NEW r, r.queues = s.queues, r.generation = s.generation,
           NEW t, r.effective[t] = s.effective[t], r.state[t] = s.state[t]
    PROVE  Number(r, t) = Number(s, t)
BY DEF Number, LiveEntries, ValidEntry

\* Fields that are not numbers may change.
LEMMA EditDated ==
    ASSUME NEW s, NEW r, Dated(s),
           r.queues = s.queues, r.sequence = s.sequence, r.order = s.order,
           \A t \in Task : r.state[t] \in {"new", "queued"} => r.state[t] = s.state[t]
    PROVE  Dated(r)
BY DEF Dated

\* The load is that of the running tasks.
SameRunning(s, r) ==
    \A t \in Task :
        /\ r.state[t] = "in-flight" <=> s.state[t] = "in-flight"
        /\ s.state[t] = "in-flight" => r.decision[t] = s.decision[t]

\* The load is that of the running tasks alone.
LEMMA LoadKept ==
    ASSUME NEW s, NEW r, SameRunning(s, r)
    PROVE  /\ InFlightCount(r) = InFlightCount(s)
           /\ \A allow : Fleet(r, allow) = Fleet(s, allow)
           /\ (\A t \in Task : s.state[t] = "in-flight" => r.effective[t] = s.effective[t])
                => \A c : InFlightByClass(r, c) = InFlightByClass(s, c)
<1>1. \A S \in SUBSET Task : Slots(r, S) = Slots(s, S)
  <2> SUFFICES ASSUME NEW S \in SUBSET Task PROVE Slots(r, S) = Slots(s, S)
    OBVIOUS
  <2>1. {u \in S : r.state[u] = "in-flight"} = {u \in S : s.state[u] = "in-flight"}
    BY DEF SameRunning
  <2>2. \A u \in {v \in S : s.state[v] = "in-flight"} : r.decision[u] = s.decision[u]
    BY DEF SameRunning
  <2> QED
    BY <2>1, <2>2 DEF Slots
<1>2. InFlightCount(r) = InFlightCount(s)
  BY <1>1 DEF InFlightCount
<1>3. ASSUME \A t \in Task : s.state[t] = "in-flight" => r.effective[t] = s.effective[t],
             NEW c
      PROVE  InFlightByClass(r, c) = InFlightByClass(s, c)
  <2>1. {u \in {t \in Task : r.effective[t] = c} : r.state[u] = "in-flight"}
           = {u \in {t \in Task : s.effective[t] = c} : s.state[u] = "in-flight"}
    BY <1>3 DEF SameRunning
  <2>2. \A u \in {v \in {t \in Task : s.effective[t] = c} : s.state[v] = "in-flight"} :
           r.decision[u] = s.decision[u]
    BY DEF SameRunning
  <2>3. Slots(r, {t \in Task : r.effective[t] = c}) = Slots(s, {t \in Task : s.effective[t] = c})
    BY <2>1, <2>2 DEF Slots
  <2> QED
    BY <2>3 DEF InFlightByClass
<1> QED
  BY <1>2, <1>3 DEF Fleet

\* Escalation labels the raised tasks, and pushes them after everything else in the
\* order of arrival.
LEMMA EscalateEffect ==
    ASSUME NEW s, Sound(s), now \in Nat
    PROVE  LET r == Escalate(s) IN
           /\ Sound(r) /\ Raised(s) \in SUBSET Task
           /\ r.state = s.state /\ r.contract = s.contract /\ r.order = s.order
           /\ r.sequence = s.sequence + Cardinality(Raised(s))
           /\ \A t \in Task :
                /\ r.effective[t] = IF t \in Raised(s) THEN Target(s, t) ELSE s.effective[t]
                /\ r.decision[t] = IF t \in Raised(s) THEN [s.decision[t] EXCEPT !.at = now]
                                   ELSE s.decision[t]
           /\ \A t \in Raised(s) : Number(r, t) = s.sequence + Turn(s, Raised(s), t)
           /\ \A t \in Task \ Raised(s) : Number(r, t) = Number(s, t)
           /\ Dated(s) => Dated(r)
           /\ SameRunning(s, r)
<1> DEFINE r == Escalate(s)
           m == Raise(s)
<1>1. Sound(r) /\ Raised(s) \in SUBSET Task
  BY EscalateSound DEF Raised
<1>2. /\ r = PushAll(m, Raised(s)) /\ SoundBut(m, Raised(s)) /\ m \in Object
      /\ m.state = s.state /\ m.contract = s.contract /\ m.order = s.order
      /\ m.generation = s.generation /\ m.queues = s.queues /\ m.sequence = s.sequence
      /\ \A t \in Task :
            /\ m.effective[t] = IF t \in Raised(s) THEN Target(s, t) ELSE s.effective[t]
            /\ m.decision[t] = IF t \in Raised(s) THEN [s.decision[t] EXCEPT !.at = now]
                               ELSE s.decision[t]
  BY RaiseEffect DEF SoundBut
<1> HIDE DEF r, m
<1>3. PushedTo(m, Raised(s), r)
  BY <1>1, <1>2, PushAllEffect
<1>4. /\ \A t \in Raised(s) : m.state[t] = "queued" =>
            Number(r, t) = m.sequence + Turn(m, Raised(s), t)
      /\ \A t \in Task \ Raised(s) : Number(r, t) = Number(m, t)
  BY <1>1, <1>2, PushAllNumbers
<1>5. \A t : Turn(m, Raised(s), t) = Turn(s, Raised(s), t)
  BY <1>2 DEF Turn
<1>6. \A t \in Raised(s) : m.state[t] = "queued"
  BY <1>2 DEF Raised
<1>7. \A t \in Task \ Raised(s) : Number(m, t) = Number(s, t)
  BY <1>2, EditNumber
<1>8. Dated(s) => Dated(r)
  <2>1. Dated(s) => Dated(m)
    BY <1>2, EditDated
  <2> QED
    BY <1>1, <1>2, <2>1, PushAllDated
<1>9. /\ r.state = s.state /\ r.contract = s.contract /\ r.order = s.order
      /\ r.sequence = s.sequence + Cardinality(Raised(s))
      /\ r.effective = m.effective /\ r.decision = m.decision
  BY <1>2, <1>3 DEF PushedTo
<1>10. SameRunning(s, r)
  BY <1>2, <1>9 DEF SameRunning, Raised
<1>11. \A t \in Raised(s) : Number(r, t) = s.sequence + Turn(s, Raised(s), t)
  BY <1>2, <1>4, <1>5, <1>6
<1>12. \A t \in Task \ Raised(s) : Number(r, t) = Number(s, t)
  BY <1>4, <1>7
<1> QED
  BY <1>1, <1>2, <1>8, <1>9, <1>10, <1>11, <1>12 DEF r

-----------------------------------------------------------------------------
(* Positions and numbers agree *)

\* Positions are the order of the numbers of live entries.
LEMMA PlaceRanks ==
    ASSUME NEW s, Sound(s)
    PROVE  /\ Waiting(s) \in SUBSET Task
           /\ \A t \in Waiting(s) : PlaceOf(s)[t] \in 1 .. Cardinality(Task)
           /\ Agree(PlaceOf(s), Numbers(s), Waiting(s))
<1>1. Waiting(s) \in SUBSET Task
  BY DEF Waiting
<1>2. \A t \in Waiting(s) : Numbers(s)[t] \in Int
  BY SoundNumber DEF Sound, Numbers, Waiting
<1>3. \A t \in Waiting(s) : PlaceOf(s)[t] = RankIn(Numbers(s), Waiting(s), t)
  BY <1>1 DEF PlaceOf
<1> QED
  BY <1>1, <1>2, <1>3, RankInAgrees DEF Agree

\* Mapped arrival numbers are in the order of the arrival numbers.
LEMMA OrderRanks ==
    ASSUME NEW s \in Object, Dated(s)
    PROVE  /\ Arrived(s) \in SUBSET Task /\ Waiting(s) \subseteq Arrived(s)
           /\ \A t \in Arrived(s) : OrderOf(s)[t] \in 1 .. Cardinality(Task)
           /\ Agree(OrderOf(s), s.order, Arrived(s))
<1>1. Arrived(s) \in SUBSET Task /\ \A t \in Arrived(s) : s.order[t] \in Int
  BY DEF Arrived
<1>2. \A t \in Arrived(s) : OrderOf(s)[t] = RankIn(s.order, Arrived(s), t)
  BY <1>1 DEF OrderOf
<1>3. Waiting(s) \subseteq Arrived(s)
  BY DEF Waiting, Arrived, Dated
<1> QED
  BY <1>1, <1>2, <1>3, RankInAgrees DEF Agree

\* The two expressions SchedulerHeaps substitutes.
MappedOrder(s) ==
    [t \in Task |->
        IF s.order[t] = None THEN 0
        ELSE Cardinality({u \in Task : s.order[u] \in 0 .. s.order[t]})]
MappedPlace(s) ==
    [t \in Task |->
        IF t \notin Waiting(s) THEN 0
        ELSE Cardinality({u \in Waiting(s) : Number(s, u) <= Number(s, t)})]

\* The refinement mapping gives arrivals their ranks,
LEMMA SameOrder ==
    ASSUME NEW s \in Object, Dated(s)
    PROVE  MappedOrder(s) = OrderOf(s)
<1> SUFFICES ASSUME NEW t \in Task PROVE MappedOrder(s)[t] = OrderOf(s)[t]
  BY DEF MappedOrder, OrderOf
<1>1. CASE s.order[t] = None
  BY <1>1 DEF MappedOrder, OrderOf, Arrived, None
<1>2. CASE s.order[t] # None
  <2>1. s.order[t] \in Nat
    BY <1>2 DEF Dated
  <2>2. {u \in Task : s.order[u] \in 0 .. s.order[t]}
           = {u \in Arrived(s) : s.order[u] <= s.order[t]}
    <3>1. \A u \in Task : s.order[u] \in Int
      BY ObjectFields
    <3> QED
      BY <2>1, <3>1 DEF Arrived
  <2>3. t \in Arrived(s)
    BY <2>1 DEF Arrived
  <2> QED
    BY <1>2, <2>2, <2>3, Zenon DEF MappedOrder, OrderOf, RankIn
<1> QED
  BY <1>1, <1>2

\* and queued tasks the ranks of their numbers.
LEMMA SamePlace == \A s : MappedPlace(s) = PlaceOf(s)
<1> SUFFICES ASSUME NEW s PROVE MappedPlace(s) = PlaceOf(s)
  OBVIOUS
<1>1. ASSUME NEW t \in Waiting(s)
      PROVE  RankIn(Numbers(s), Waiting(s), t)
                = Cardinality({u \in Waiting(s) : Number(s, u) <= Number(s, t)})
  <2>1. \A u \in Waiting(s) : Numbers(s)[u] = Number(s, u)
    BY DEF Numbers, Waiting
  <2>2. {u \in Waiting(s) : Numbers(s)[u] <= Numbers(s)[t]}
           = {u \in Waiting(s) : Number(s, u) <= Number(s, t)}
    BY <2>1
  <2> QED
    BY <2>2 DEF RankIn
<1> QED
  BY <1>1 DEF MappedPlace, PlaceOf

\* f numbers the tasks of R after what keeps its number, in order of arrival
\* (among T); g puts them where module Scheduler does.
PromotedTo(s, live, R, T, q, f, g) ==
    /\ live \subseteq Waiting(s) /\ R \subseteq live /\ R \subseteq T /\ T \subseteq Task
    /\ q \in Nat /\ s.sequence <= q
    /\ \A t \in live \ R : f[t] = Number(s, t) /\ g[t] = PlaceOf(s)[t]
    /\ \A t \in R : f[t] = q + Turn(s, T, t) /\ g[t] = Cardinality(Task) + OrderOf(s)[t]

\* Two numberings that both move the raised tasks behind the rest agree.
LEMMA PromotedAgree ==
    ASSUME NEW s, Sound(s), Dated(s), NEW live, NEW R, NEW T, NEW q, NEW f, NEW g,
           PromotedTo(s, live, R, T, q, f, g)
    PROVE  /\ Agree(f, g, live)
           /\ \A t \in live : f[t] \in Nat /\ f[t] < q + Cardinality(T)
                              /\ g[t] \in 1 .. 2 * Cardinality(Task)
<1>1. /\ live \in SUBSET Waiting(s) /\ R \in SUBSET live /\ R \subseteq T /\ T \in SUBSET Task
      /\ q \in Nat /\ s.sequence <= q
      /\ \A t \in live \ R : f[t] = Number(s, t) /\ g[t] = PlaceOf(s)[t]
      /\ \A t \in R : f[t] = q + Turn(s, T, t) /\ g[t] = Cardinality(Task) + OrderOf(s)[t]
  BY DEF PromotedTo
<1>2. s \in Object /\ s.sequence \in Nat /\ Cardinality(Task) \in Nat /\ Cardinality(T) \in Nat
  BY ObjectFields, SubsetFinite, <1>1 DEF Sound, SoundBut
<1>3. /\ Waiting(s) \in SUBSET Task /\ Waiting(s) \subseteq Arrived(s)
      /\ \A t \in Waiting(s) : PlaceOf(s)[t] \in 1 .. Cardinality(Task)
      /\ \A t \in Waiting(s) : OrderOf(s)[t] \in 1 .. Cardinality(Task)
      /\ \A t, u \in Waiting(s) : PlaceOf(s)[t] <= PlaceOf(s)[u] <=> Number(s, t) <= Number(s, u)
      /\ \A t, u \in Waiting(s) : OrderOf(s)[t] <= OrderOf(s)[u] <=> s.order[t] <= s.order[u]
  BY <1>2, PlaceRanks, OrderRanks DEF Agree, Numbers
<1>4. \A t \in live \ R : f[t] \in Nat /\ f[t] < q /\ g[t] \in 1 .. Cardinality(Task)
  <2> SUFFICES ASSUME NEW t \in live \ R
               PROVE  f[t] \in Nat /\ f[t] < q /\ g[t] \in 1 .. Cardinality(Task)
    OBVIOUS
  <2>1. Number(s, t) \in Nat /\ Number(s, t) < s.sequence
    BY <1>1, DatedNumber DEF Sound, Waiting
  <2> QED
    BY <1>2, <1>3, <1>1, <2>1
<1>5. \A t \in R : /\ f[t] \in Nat /\ q <= f[t] /\ f[t] < q + Cardinality(T)
                   /\ Cardinality(Task) < g[t] /\ g[t] \in 1 .. 2 * Cardinality(Task)
  <2> SUFFICES ASSUME NEW t \in R
               PROVE  /\ f[t] \in Nat /\ q <= f[t] /\ f[t] < q + Cardinality(T)
                      /\ Cardinality(Task) < g[t] /\ g[t] \in 1 .. 2 * Cardinality(Task)
    OBVIOUS
  <2>1. Turn(s, T, t) \in Nat /\ Turn(s, T, t) < Cardinality(T)
    BY <1>2, <1>1, TurnBounds
  <2>2. OrderOf(s)[t] \in 1 .. Cardinality(Task)
    BY <1>3, <1>1
  <2> QED
    BY <1>2, <1>1, <2>1, <2>2
<1>6. Agree(f, g, live \ R)
  BY <1>3, <1>1 DEF Agree
<1>7. Agree(f, g, R)
  <2> SUFFICES ASSUME NEW t \in R, NEW u \in R PROVE f[t] <= f[u] <=> g[t] <= g[u]
    BY DEF Agree
  <2>1. Turn(s, T, t) <= Turn(s, T, u) <=> s.order[t] <= s.order[u]
    BY <1>2, <1>1, TurnBounds
  <2>2. OrderOf(s)[t] <= OrderOf(s)[u] <=> s.order[t] <= s.order[u]
    BY <1>3, <1>1
  <2>3. Turn(s, T, t) \in Nat /\ Turn(s, T, u) \in Nat
    BY <1>2, <1>1, TurnBounds
  <2>4. OrderOf(s)[t] \in Nat /\ OrderOf(s)[u] \in Nat
    BY <1>3, <1>1
  <2> QED
    BY <1>2, <1>1, <2>1, <2>2, <2>3, <2>4
<1>8. Agree(f, g, (live \ R) \cup R)
  <2>1. \A t \in (live \ R) \cup R : f[t] \in Int /\ g[t] \in Int
    BY <1>4, <1>5
  <2>2. \A t \in live \ R, u \in R : f[t] < f[u] /\ g[t] < g[u]
    <3> SUFFICES ASSUME NEW t \in live \ R, NEW u \in R PROVE f[t] < f[u] /\ g[t] < g[u]
      OBVIOUS
    <3>1. f[t] \in Nat /\ f[t] < q /\ g[t] \in 1 .. Cardinality(Task)
      BY <1>4
    <3>2. f[u] \in Nat /\ q <= f[u] /\ Cardinality(Task) < g[u] /\ g[u] \in Int
      BY <1>5
    <3> QED
      BY <1>2, <1>1, <3>1, <3>2
  <2> QED
    BY <1>6, <1>7, <2>1, <2>2, AgreeJoin
<1>9. (live \ R) \cup R = live
  BY <1>1
<1>10. \A t \in live : f[t] \in Nat /\ f[t] < q + Cardinality(T) /\ g[t] \in 1 .. 2 * Cardinality(Task)
  <2> SUFFICES ASSUME NEW t \in live
               PROVE  f[t] \in Nat /\ f[t] < q + Cardinality(T) /\ g[t] \in 1 .. 2 * Cardinality(Task)
    OBVIOUS
  <2>1. CASE t \in R
    BY <1>5, <2>1
  <2>2. CASE t \notin R
    <3>1. f[t] \in Nat /\ f[t] < q /\ g[t] \in 1 .. Cardinality(Task)
      BY <1>4, <2>2
    <3> QED
      BY <1>2, <1>1, <3>1
  <2> QED
    BY <2>1, <2>2
<1> QED
  BY <1>8, <1>9, <1>10

\* Both modules age a task into the same class.
LEMMA TargetAged ==
    ASSUME NEW s \in Object, now \in Nat, NEW t \in Task
    PROVE  Target(s, t) = Abstract!Aged(s.effective[t], s.contract[t].deadline)
<1>1. /\ s.effective[t] \in PriorityClass /\ s.contract[t].deadline \in Int
      /\ EscalationWindow \in Nat
  BY ObjectFields, HeapAssumption DEF TaskContract
<1>2. s.contract[t].deadline - now <= 0 <=> s.contract[t].deadline <= now
  BY <1>1
<1>3. s.contract[t].deadline - now > 0 <=> now < s.contract[t].deadline
  BY <1>1
<1> QED
  BY <1>1, <1>2, <1>3, SameNames, Zenon DEF Target, Abstract!Aged

\* Read with the mapping, the positions of module Scheduler are these, before
\* a step and after it.
LEMMA MappedNow ==
    ASSUME seen \in Object, Dated(seen)
    PROVE  /\ [t \in Task |-> IF seen.order[t] = None THEN 0
                  ELSE Cardinality({u \in Task : seen.order[u] \in 0 .. seen.order[t]})] = OrderOf(seen)
           /\ [t \in Task |-> IF t \notin QueuedTasks THEN 0
                  ELSE Cardinality({u \in QueuedTasks : Youngest(u).sequence <= Youngest(t).sequence})]
                = PlaceOf(seen)
<1>1. QueuedTasks = Waiting(seen)
  BY DEF QueuedTasks, Waiting
<1>2. \A t : Youngest(t).sequence = Number(seen, t)
  BY DEF Youngest, Number
<1>3. MappedPlace(seen) = [t \in Task |-> IF t \notin QueuedTasks THEN 0
                  ELSE Cardinality({u \in QueuedTasks : Youngest(u).sequence <= Youngest(t).sequence})]
  BY <1>1, <1>2 DEF MappedPlace
<1> QED
  BY <1>3, SameOrder, SamePlace DEF MappedOrder

\* The mapping after a step is the mapping of the object after it.
LEMMA MappedThen ==
    ASSUME seen' \in Object, Dated(seen')
    PROVE  /\ [t \in Task |-> IF seen.order[t] = None THEN 0
                  ELSE Cardinality({u \in Task : seen.order[u] \in 0 .. seen.order[t]})]' = OrderOf(seen')
           /\ [t \in Task |-> IF t \notin QueuedTasks THEN 0
                  ELSE Cardinality({u \in QueuedTasks : Youngest(u).sequence <= Youngest(t).sequence})]'
                = PlaceOf(seen')
<1>1. QueuedTasks' = Waiting(seen')
  BY DEF QueuedTasks, Waiting
<1>2. \A t : Youngest(t)'.sequence = Number(seen', t)
  BY DEF Youngest, Number
<1>3. MappedPlace(seen') = [t \in Task |-> IF t \notin QueuedTasks' THEN 0
                  ELSE Cardinality({u \in QueuedTasks' : Youngest(u)'.sequence <= Youngest(t)'.sequence})]
  BY <1>1, <1>2 DEF MappedPlace
<1> QED
  BY <1>3, SameOrder, SamePlace DEF MappedOrder


-----------------------------------------------------------------------------
(* What the methods do to positions *)

\* Without new arrivals the ranks of arrival stay,
LEMMA OrderKept ==
    ASSUME NEW s, NEW r, r.order = s.order
    PROVE  OrderOf(r) = OrderOf(s)
BY DEF OrderOf, Arrived

\* and without a push or a removal the positions stay.
LEMMA PlaceKept ==
    ASSUME NEW s, NEW r, Waiting(r) = Waiting(s),
           \A t \in Waiting(s) : Number(r, t) = Number(s, t)
    PROVE  PlaceOf(r) = PlaceOf(s)
<1>1. \A t \in Waiting(s) : Numbers(r)[t] = Numbers(s)[t]
  BY DEF Numbers, Waiting
<1>2. \A t \in Waiting(s) : RankIn(Numbers(r), Waiting(s), t) = RankIn(Numbers(s), Waiting(s), t)
  <2> SUFFICES ASSUME NEW t \in Waiting(s)
               PROVE  {u \in Waiting(s) : Numbers(r)[u] <= Numbers(r)[t]}
                         = {u \in Waiting(s) : Numbers(s)[u] <= Numbers(s)[t]}
    BY DEF RankIn
  <2> QED
    BY <1>1
<1> QED
  BY <1>2 DEF PlaceOf

\* The last one pushed stands last.
LEMMA LastAgrees ==
    ASSUME NEW f, NEW g, NEW live, NEW t \in live, Agree(f, g, live \ {t}),
           f[t] \in Int, g[t] \in Int,
           \A u \in live \ {t} : f[u] \in Int /\ g[u] \in Int /\ f[u] < f[t] /\ g[u] < g[t]
    PROVE  Agree(f, g, live)
<1>1. Agree(f, g, {t})
  BY AgreeSingle
<1>2. Agree(f, g, (live \ {t}) \cup {t})
  BY <1>1, AgreeJoin
<1>3. (live \ {t}) \cup {t} = live
  OBVIOUS
<1> QED
  BY <1>2, <1>3

\* A task pushed alone takes the first turn.
LEMMA TurnAlone == ASSUME NEW s \in Object, NEW t \in Task PROVE Turn(s, {t}, t) = 0
<1>1. Cardinality({t}) = 1
  BY FS_Singleton
<1>2. Turn(s, {t}, t) \in Nat /\ Turn(s, {t}, t) < Cardinality({t})
  BY TurnBounds
<1> QED
  BY <1>1, <1>2

\* A task that ends leaves its entry behind: the others close up.
LEMMA EndEffect ==
    ASSUME NEW s, Sound(s), Dated(s), NEW t \in Task, NEW end \in TaskState \ {"queued", "new"}
    PROVE  LET r == [s EXCEPT !.state[t] = end] IN
           /\ r.state = [s.state EXCEPT ![t] = end]
           /\ r.contract = s.contract /\ r.decision = s.decision /\ r.effective = s.effective
           /\ Dated(r) /\ OrderOf(r) = OrderOf(s)
           /\ PlaceOf(r) = Abstract!Requeue(PlaceOf(s), Waiting(s) \ {t})
           /\ t \notin Waiting(s) => PlaceOf(r) = PlaceOf(s)
<1> DEFINE r == [s EXCEPT !.state[t] = end]
<1>1. s \in Object /\ s.state \in [Task -> TaskState]
  BY ObjectFields DEF Sound, SoundBut
<1>2. /\ r.state = [s.state EXCEPT ![t] = end]
      /\ r.contract = s.contract /\ r.decision = s.decision /\ r.effective = s.effective
      /\ r.order = s.order /\ r.generation = s.generation /\ r.queues = s.queues
      /\ r.sequence = s.sequence
  BY <1>1 DEF Object
<1> HIDE DEF r
<1>3. Dated(r)
  BY <1>1, <1>2, EditDated
<1>4. Waiting(r) = Waiting(s) \ {t}
  BY <1>1, <1>2 DEF Waiting
<1>5. \A u \in Waiting(r) : Number(r, u) = Number(s, u)
  <2> SUFFICES ASSUME NEW u \in Waiting(r) PROVE Number(r, u) = Number(s, u)
    OBVIOUS
  <2>1. r.state[u] = s.state[u]
    BY <1>1, <1>2, <1>4 DEF Waiting
  <2> QED
    BY <1>2, <2>1, EditNumber
<1>6. Agree(Numbers(r), PlaceOf(s), Waiting(r))
  <2>1. Agree(PlaceOf(s), Numbers(s), Waiting(s)) /\ Waiting(s) \in SUBSET Task
    BY PlaceRanks
  <2> QED
    BY <1>4, <1>5, <2>1 DEF Agree, Numbers
<1>7. PlaceOf(r) = Abstract!Requeue(PlaceOf(s), Waiting(s) \ {t})
  BY <1>4, <1>6, Requeued
<1>8. t \notin Waiting(s) => PlaceOf(r) = PlaceOf(s)
  BY <1>4, <1>5, PlaceKept
<1> QED
  BY <1>2, <1>3, <1>7, <1>8, OrderKept DEF r

\* update_decision of a task that waits numbers it last.
ReplannedTo(s, t, plan, r) ==
    /\ r.state = s.state /\ r.contract = s.contract /\ r.order = s.order
    /\ r.decision = [s.decision EXCEPT ![t] = plan]
    /\ r.effective = [s.effective EXCEPT ![t] = plan.class]
    /\ Number(r, t) = s.sequence
    /\ \A u \in Task \ {t} : Number(r, u) = Number(s, u)
    /\ Dated(r)

\* A replanned task is decided, labelled and pushed anew.
LEMMA ReplanEffect ==
    ASSUME NEW s, NEW t \in Task, SoundBut(s, {t}), Dated(s), now \in Nat, s.state[t] = "queued"
    PROVE  ReplannedTo(s, t, Decide(Mode, s.contract[t], Fleet(s, TRUE)), Replan(s, t))
<1> DEFINE plan == Decide(Mode, s.contract[t], Fleet(s, TRUE))
           m == [s EXCEPT !.decision[t] = plan, !.effective[t] = plan.class]
           r == PushAll(m, {t})
<1>1. s \in Object /\ s.contract[t] \in TaskContract
  BY ObjectFields DEF SoundBut
<1>2. plan \in DecisionRecord
  BY <1>1, PlanType
<1>3. Replan(s, t) = r
  BY DEF Replan, UpdateDecision, Push
<1> HIDE DEF plan
<1>4. s.decision \in [Task -> DecisionRecord]
         /\ s.effective \in [Task -> PriorityClass] /\ plan.class \in PriorityClass
  BY <1>1, <1>2, ObjectFields DEF DecisionRecord
<1>5. /\ m \in Object /\ m.state = s.state /\ m.contract = s.contract /\ m.order = s.order
      /\ m.generation = s.generation /\ m.queues = s.queues /\ m.sequence = s.sequence
      /\ m.effective = [s.effective EXCEPT ![t] = plan.class]
      /\ m.decision = [s.decision EXCEPT ![t] = plan]
  BY <1>1, <1>2, <1>4 DEF Object
<1> HIDE DEF m
<1>6. SoundBut(m, {t}) /\ Dated(m)
  <2>1. \A u \in Task \ {t} : m.effective[u] = s.effective[u] /\ Key(m, u) = Key(s, u)
    BY <1>4, <1>5 DEF Key
  <2>2. Edited(s, {t}, m, {t})
    BY <1>5, <2>1 DEF Edited
  <2> QED
    BY <1>5, <2>2, EditSound, EditDated
<1>7. PushedTo(m, {t}, r) /\ Dated(r)
  BY <1>5, <1>6, PushAllEffect, PushAllDated
<1>8. /\ m.state[t] = "queued" => Number(r, t) = m.sequence + Turn(m, {t}, t)
      /\ \A u \in Task \ {t} : Number(r, u) = Number(m, u)
  BY <1>6, PushAllNumbers
<1> HIDE DEF r
<1>9. Turn(m, {t}, t) = 0 /\ m.sequence \in Nat
  BY <1>5, TurnAlone, ObjectFields
<1>10. \A u \in Task \ {t} : Number(m, u) = Number(s, u)
  <2> SUFFICES ASSUME NEW u \in Task \ {t} PROVE Number(m, u) = Number(s, u)
    OBVIOUS
  <2>1. m.effective[u] = s.effective[u]
    BY <1>4, <1>5
  <2> QED
    BY <1>5, <2>1, EditNumber
<1>11. Number(r, t) = s.sequence
  BY <1>5, <1>8, <1>9
<1>12. r.state = s.state /\ r.contract = s.contract /\ r.order = s.order
          /\ r.decision = m.decision /\ r.effective = m.effective
  BY <1>5, <1>7 DEF PushedTo
<1> QED
  BY <1>3, <1>5, <1>7, <1>8, <1>10, <1>11, <1>12 DEF plan, ReplannedTo

-----------------------------------------------------------------------------
(* The calls of one step *)

Settled == HInv /\ Dated(self) /\ trying = <<>> /\ seen = self

\* A call that returns leaves its object to the next.
LEMMA Returned ==
    ASSUME NEW r, Return(r)
    PROVE  self' = r /\ seen' = r /\ trying' = <<>> /\ now' = now
BY DEF Return, Continue

\* Time passes alike in both modules.
LEMMA ElapseRefines ==
    ASSUME Settled, Elapse
    PROVE  Abstract!Elapse
BY DEF Elapse, Abstract!Elapse, QueuedTasks, Youngest, LiveEntries, ValidEntry

\* Completion and failure refine Complete and Fail.
LEMMA FinishRefines ==
    ASSUME Settled, HInv', NEW t \in Task, Finish(t)
    PROVE  Dated(self') /\ (Abstract!Complete(t) \/ Abstract!Fail(t))
<1>1. PICK end \in {"completed", "failed"} : Return([self EXCEPT !.state[t] = end])
  BY DEF Finish
<1>2. end \in TaskState \ {"queued", "new"}
  BY DEF TaskState
<1>3. Sound(self) /\ self \in Object /\ self' \in Object /\ seen = self /\ Dated(self)
  BY DEF Settled, HInv, Sound, SoundBut
<1>4. self' = [self EXCEPT !.state[t] = end] /\ seen' = self' /\ now' = now
  BY <1>1, Returned
<1>5. self.state[t] = "in-flight" /\ t \notin Waiting(self)
  BY DEF Finish, Waiting
<1>6. /\ self'.state = [self.state EXCEPT ![t] = end]
      /\ self'.contract = self.contract /\ self'.decision = self.decision
      /\ self'.effective = self.effective
      /\ Dated(self') /\ OrderOf(self') = OrderOf(self) /\ PlaceOf(self') = PlaceOf(self)
  BY <1>2, <1>3, <1>4, <1>5, EndEffect
<1>7. Abstract!Finish(t, end)
  BY <1>3, <1>4, <1>5, <1>6, MappedNow, MappedThen DEF Abstract!Finish
<1> QED
  BY <1>6, <1>7 DEF Abstract!Complete, Abstract!Fail

\* A cancellation refines Cancel: the entry goes stale, the position is gone.
LEMMA CancelRefines ==
    ASSUME Settled, HInv', NEW t \in Task, Cancel(t)
    PROVE  Dated(self') /\ Abstract!Cancel(t)
<1> DEFINE r == [self EXCEPT !.state[t] = "cancelled"]
<1>1. Return(r)
  BY DEF Cancel
<1>2. "cancelled" \in TaskState \ {"queued", "new"}
  BY DEF TaskState
<1>3. Sound(self) /\ self \in Object /\ self' \in Object /\ seen = self /\ Dated(self)
  BY DEF Settled, HInv, Sound, SoundBut
<1>4. self' = r /\ seen' = r /\ now' = now
  BY <1>1, Returned
<1>5. self.state[t] = "queued" /\ Abstract!Queued = Waiting(seen)
  BY DEF Cancel, Waiting, Abstract!Queued
<1>6. /\ r.state = [self.state EXCEPT ![t] = "cancelled"]
      /\ r.contract = self.contract /\ r.decision = self.decision
      /\ r.effective = self.effective
      /\ Dated(r) /\ OrderOf(r) = OrderOf(self)
      /\ PlaceOf(r) = Abstract!Requeue(PlaceOf(self), Waiting(self) \ {t})
  BY <1>2, <1>3, EndEffect
<1> HIDE DEF r
<1>7. Abstract!Cancel(t)
  BY <1>3, <1>4, <1>5, <1>6, MappedNow, MappedThen DEF Abstract!Cancel
<1> QED
  BY <1>4, <1>6, <1>7

\* A submission refines Submit: rejected, or pushed with the next number.
LEMMA SubmitRefines ==
    ASSUME Settled, HInv', NEW t \in Task, Submit(t)
    PROVE  Dated(self') /\ Abstract!Submit(t)
<1> DEFINE plan == Decide(Mode, self.contract[t], Fleet(self, TRUE))
           planned == [self EXCEPT !.decision[t] = plan, !.effective[t] = plan.class]
           numbered == [planned EXCEPT !.order[t] = self.sequence,
                                       !.sequence = planned.sequence + 1, !.state[t] = "queued"]
           refused == [planned EXCEPT !.state[t] = "rejected"]
           n == Cardinality(Task)
<1>1. /\ Sound(self) /\ self \in Object /\ self' \in Object /\ seen = self /\ Dated(self)
      /\ now \in Nat /\ self.contract[t] \in TaskContract
  BY ObjectFields DEF Settled, HInv, Sound, SoundBut
<1>2. /\ self.state[t] = "new"
      /\ Return(IF CheckAdmission(self.contract[t], plan) THEN Push(numbered, t) ELSE refused)
  BY DEF Submit
<1>3. /\ self' = IF CheckAdmission(self.contract[t], plan) THEN Push(numbered, t) ELSE refused
      /\ seen' = self' /\ now' = now
  BY <1>2 DEF Return, Continue
<1>4. plan \in DecisionRecord
  BY <1>1, PlanType
<1>5. plan = Abstract!Decide(Mode, seen.contract[t], Abstract!Fleet(TRUE))
         /\ \A c, d : Abstract!CheckAdmission(c, d) = CheckAdmission(c, d)
  BY <1>1, SameDecide, SameLoad, SameAdmission
<1> HIDE DEF plan
<1>6. plan.class \in PriorityClass
  BY <1>4 DEF DecisionRecord
<1>7. /\ planned \in Object /\ planned.state = self.state /\ planned.order = self.order
      /\ planned.contract = self.contract /\ planned.sequence = self.sequence
      /\ planned.generation = self.generation /\ planned.queues = self.queues
      /\ planned.effective = [self.effective EXCEPT ![t] = plan.class]
      /\ planned.decision = [self.decision EXCEPT ![t] = plan]
  BY <1>1, <1>4, <1>6 DEF Object
<1> HIDE DEF planned
<1>8. /\ \A u \in Task \ {t} : planned.effective[u] = self.effective[u]
      /\ self.state \in [Task -> TaskState] /\ self.order \in [Task -> Int]
      /\ self.sequence \in Nat /\ self.order[t] = None /\ t \notin Waiting(self)
  BY <1>1, <1>2, <1>7, ObjectFields DEF Dated, Waiting
<1>9. CASE ~CheckAdmission(self.contract[t], plan)
  <2>1. /\ refused.state = [planned.state EXCEPT ![t] = "rejected"]
        /\ refused.order = planned.order /\ refused.contract = planned.contract
        /\ refused.decision = planned.decision /\ refused.effective = planned.effective
        /\ refused.generation = planned.generation /\ refused.queues = planned.queues
        /\ refused.sequence = planned.sequence
    BY <1>7 DEF Object
  <2>2. self' = refused
    BY <1>3, <1>9
  <2> HIDE DEF refused
  <2>3. Dated(self')
    BY <1>1, <1>7, <1>8, <2>1, <2>2, EditDated
  <2>4. Waiting(self') = Waiting(self)
    BY <1>7, <1>8, <2>1, <2>2 DEF Waiting
  <2>5. \A u \in Waiting(self) : Number(self', u) = Number(self, u)
    <3> SUFFICES ASSUME NEW u \in Waiting(self) PROVE Number(self', u) = Number(self, u)
      OBVIOUS
    <3>1. u \in Task \ {t} /\ self'.state[u] = self.state[u]
      BY <1>7, <1>8, <2>1, <2>2 DEF Waiting
    <3>2. /\ self'.queues = self.queues /\ self'.generation = self.generation
          /\ self'.effective[u] = self.effective[u]
      BY <1>7, <1>8, <2>1, <2>2, <3>1
    <3> QED
      BY <3>1, <3>2, EditNumber
  <2>6. PlaceOf(self') = PlaceOf(self) /\ OrderOf(self') = OrderOf(self)
    BY <1>7, <2>1, <2>2, <2>4, <2>5, PlaceKept, OrderKept
  <2>7. Abstract!Submit(t)
    BY <1>1, <1>2, <1>3, <1>5, <1>7, <1>9, <2>1, <2>2, <2>3, <2>6, MappedNow, MappedThen
       DEF Abstract!Submit
  <2> QED
    BY <2>3, <2>7
<1>10. CASE CheckAdmission(self.contract[t], plan)
  <2> DEFINE ordered == [planned.order EXCEPT ![t] = self.sequence]
             queued == [planned.state EXCEPT ![t] = "queued"]
             next == planned.sequence + 1
  <2>1. numbered = [planned EXCEPT !.order = ordered, !.sequence = next, !.state = queued]
    OBVIOUS
  <2>2. ordered \in [Task -> Int] /\ queued \in [Task -> TaskState] /\ next \in Nat
    BY <1>7, <1>8 DEF TaskState
  <2> HIDE DEF numbered, ordered, queued, next
  <2>3. /\ numbered \in Object /\ numbered.state = queued /\ numbered.order = ordered
        /\ numbered.sequence = next
        /\ numbered.contract = planned.contract /\ numbered.decision = planned.decision
        /\ numbered.generation = planned.generation /\ numbered.queues = planned.queues
        /\ numbered.effective = planned.effective
    BY <1>7, <2>1, <2>2 DEF Object
  <2>4. /\ \A u \in Task \ {t} : numbered.state[u] = self.state[u]
                                 /\ numbered.order[u] = self.order[u]
        /\ numbered.state[t] = "queued" /\ numbered.order[t] = self.sequence
        /\ numbered.sequence = self.sequence + 1
    BY <1>7, <1>8, <2>3 DEF ordered, queued, next
  <2>5. SoundBut(numbered, {t})
    <3>1. \A u \in Task \ {t} : numbered.state[u] = "queued" =>
             /\ self.state[u] = "queued" /\ numbered.effective[u] = self.effective[u]
             /\ Key(numbered, u) = Key(self, u)
      BY <1>7, <1>8, <2>3, <2>4 DEF Key
    <3>2. Edited(self, {}, numbered, {t})
      BY <1>7, <2>3, <3>1 DEF Edited
    <3> QED
      BY <1>1, <3>2, EditSound DEF Sound
  <2>6. Dated(numbered)
    <3>1. ASSUME NEW c \in PriorityClass, NEW e \in numbered.queues[c]
          PROVE  e.sequence < numbered.sequence
      <4>1. e.sequence < self.sequence /\ e.sequence \in Nat
        BY <1>1, <1>7, <2>3, <3>1, ObjectFields DEF Dated, Entry
      <4> QED
        BY <1>8, <2>4, <4>1
    <3>2. ASSUME NEW u \in Task
          PROVE  /\ \/ numbered.order[u] = None
                    \/ numbered.order[u] \in Nat /\ numbered.order[u] < numbered.sequence
                 /\ numbered.state[u] = "new" => numbered.order[u] = None
                 /\ numbered.state[u] = "queued" => numbered.order[u] # None
      <4>1. CASE u = t
        BY <1>8, <2>4, <4>1 DEF None
      <4>2. CASE u # t
        BY <1>1, <1>8, <2>4, <4>2 DEF Dated
      <4> QED
        BY <4>1, <4>2
    <3> QED
      BY <3>1, <3>2 DEF Dated
  <2>7. self' = PushAll(numbered, {t})
    BY <1>3, <1>10 DEF Push
  <2>8. PushedTo(numbered, {t}, self') /\ Dated(self')
    BY <2>3, <2>5, <2>6, <2>7, PushAllEffect, PushAllDated
  <2>9. /\ self'.state = queued /\ self'.order = ordered /\ self'.contract = self.contract
        /\ self'.decision = planned.decision /\ self'.effective = planned.effective
    BY <1>7, <2>3, <2>8 DEF PushedTo
  <2>10. Number(self', t) = self.sequence + 1
    <3>1. Turn(numbered, {t}, t) = 0
      BY <2>3, TurnAlone
    <3> QED
      BY <1>8, <2>4, <2>5, <2>7, <3>1, PushAllNumbers
  <2>11. ASSUME NEW u \in Waiting(self)
         PROVE  Number(self', u) = Number(self, u)
    <3>1. u \in Task \ {t} /\ numbered.state[u] = self.state[u]
             /\ numbered.effective[u] = self.effective[u]
      BY <1>7, <1>8, <2>3, <2>4 DEF Waiting
    <3>2. Number(numbered, u) = Number(self, u)
      BY <1>7, <2>3, <3>1, EditNumber
    <3> QED
      BY <2>5, <2>7, <3>1, <3>2, PushAllNumbers
  <2>12. Waiting(self') = Waiting(self) \cup {t}
    BY <2>3, <2>4, <2>9 DEF Waiting
  <2> DEFINE temp == [PlaceOf(self) EXCEPT ![t] = n + 1]
  <2>13. Agree(Numbers(self'), temp, Waiting(self) \cup {t})
    <3>1. /\ Waiting(self) \in SUBSET Task /\ n \in Nat
          /\ \A u \in Waiting(self) : PlaceOf(self)[u] \in 1 .. n
          /\ Agree(PlaceOf(self), Numbers(self), Waiting(self))
      BY <1>1, PlaceRanks, SubsetFinite
    <3>2. \A u \in Waiting(self) : Number(self, u) \in Nat /\ Number(self, u) < self.sequence
      BY <1>1, DatedNumber DEF Sound, Waiting
    <3>3. /\ \A u \in Waiting(self) : Numbers(self')[u] = Number(self, u)
          /\ Numbers(self')[t] = self.sequence + 1
          /\ \A u \in Waiting(self) : Numbers(self)[u] = Number(self, u)
      BY <2>10, <2>11, <3>1 DEF Numbers
    <3>4. temp[t] = n + 1 /\ \A u \in Waiting(self) : temp[u] = PlaceOf(self)[u]
      BY <1>8, <3>1 DEF PlaceOf
    <3>5. (Waiting(self) \cup {t}) \ {t} = Waiting(self)
      BY <1>8
    <3> HIDE DEF temp
    <3>6. Agree(Numbers(self'), temp, Waiting(self))
      BY <3>1, <3>3, <3>4 DEF Agree
    <3>7. /\ Numbers(self')[t] \in Int /\ temp[t] \in Int
          /\ \A u \in Waiting(self) :
               /\ Numbers(self')[u] \in Int /\ temp[u] \in Int
               /\ Numbers(self')[u] < Numbers(self')[t] /\ temp[u] < temp[t]
      BY <1>8, <3>1, <3>2, <3>3, <3>4
    <3> QED
      BY <3>5, <3>6, <3>7, LastAgrees
  <2>14. PlaceOf(self') = Abstract!Requeue(temp, Waiting(self) \cup {t})
    BY <2>12, <2>13, Requeued
  <2>15. OrderOf(self') = [OrderOf(self) EXCEPT ![t] =
                             1 + Cardinality({u \in Task : OrderOf(self)[u] > 0})]
    <3>1. t \notin Arrived(self) /\ Arrived(self') = Arrived(self) \cup {t}
      BY <1>8, <2>3, <2>4, <2>9 DEF Arrived, None
    <3>2. {u \in Task : OrderOf(self)[u] > 0} = Arrived(self)
      <4>1. \A u \in Arrived(self) : OrderOf(self)[u] \in 1 .. n
        BY <1>1, OrderRanks
      <4> QED
        BY <4>1 DEF OrderOf, Arrived
    <3>3. \A u \in Arrived(self) : self.order[u] \in Nat /\ self.order[u] < self.sequence
                                   /\ self'.order[u] = self.order[u]
      BY <1>1, <2>3, <2>4, <2>9, <3>1 DEF Arrived, Dated, None
    <3>4. self'.order[t] = self.sequence
      BY <2>3, <2>4, <2>9
    <3>5. \A u \in Arrived(self) : RankIn(self'.order, Arrived(self'), u)
                                      = RankIn(self.order, Arrived(self), u)
      <4> SUFFICES ASSUME NEW u \in Arrived(self)
                   PROVE  {x \in Arrived(self') : self'.order[x] <= self'.order[u]}
                             = {x \in Arrived(self) : self.order[x] <= self.order[u]}
        BY DEF RankIn
      <4> QED
        BY <1>8, <3>1, <3>3, <3>4
    <3>6. RankIn(self'.order, Arrived(self'), t) = 1 + Cardinality(Arrived(self))
      <4>1. {x \in Arrived(self') : self'.order[x] <= self'.order[t]} = Arrived(self) \cup {t}
        BY <1>8, <3>1, <3>3, <3>4
      <4>2. IsFiniteSet(Arrived(self)) /\ Cardinality(Arrived(self)) \in Nat
        BY SubsetFinite DEF Arrived
      <4>3. Cardinality(Arrived(self) \cup {t}) = Cardinality(Arrived(self)) + 1
        BY <3>1, <4>2, FS_AddElement
      <4>4. RankIn(self'.order, Arrived(self'), t) = Cardinality(Arrived(self) \cup {t})
        BY <4>1 DEF RankIn
      <4> QED
        BY <4>2, <4>3, <4>4
    <3> QED
      BY <3>1, <3>2, <3>5, <3>6 DEF OrderOf
  <2>16. /\ Abstract!Queued = Waiting(self) /\ Abstract!N = n
         /\ \A S : Abstract!Cardinality(S) = Cardinality(S)
    BY <1>1, SameN, SameCardinality DEF Abstract!Queued, Waiting
  <2>17. /\ seen'.decision = [seen.decision EXCEPT ![t] = plan]
         /\ seen'.effective = [seen.effective EXCEPT ![t] = plan.class]
         /\ seen'.state = [seen.state EXCEPT ![t] = "queued"]
         /\ seen'.contract = seen.contract
    BY <1>1, <1>3, <1>7, <2>9 DEF queued
  <2>18. Abstract!Submit(t)
    BY <1>1, <1>2, <1>3, <1>5, <1>10, <2>8, <2>14, <2>15, <2>16, <2>17, MappedNow, MappedThen
       DEF Abstract!Submit
  <2> QED
    BY <2>8, <2>18
<1> QED
  BY <1>9, <1>10

Revised(s, t, c) == [s EXCEPT !.contract[t] = c]
RevisedTo(s, t, c, r) ==
    /\ SoundBut(r, {t}) /\ Dated(r) /\ r \in Object
    /\ r.contract = [s.contract EXCEPT ![t] = c]
    /\ r.state = s.state /\ r.decision = s.decision /\ r.effective = s.effective
    /\ r.order = s.order /\ r.sequence = s.sequence
    /\ \A u \in Task : Number(r, u) = Number(s, u)

\* A changed contract moves no entry; only the entry of its task may be under an old key.
LEMMA ReviseEffect ==
    ASSUME NEW s, Sound(s), Dated(s), NEW t \in Task, NEW c \in TaskContract
    PROVE  RevisedTo(s, t, c, Revised(s, t, c))
<1> DEFINE r == [s EXCEPT !.contract[t] = c]
<1>1. s \in Object
  BY DEF Sound, SoundBut
<1>2. SoundBut(r, {t}) /\ r \in Object
  BY ReviseSound DEF SoundBut
<1>3. /\ r.contract = [s.contract EXCEPT ![t] = c]
      /\ r.state = s.state /\ r.decision = s.decision /\ r.effective = s.effective
      /\ r.order = s.order /\ r.sequence = s.sequence
      /\ r.generation = s.generation /\ r.queues = s.queues
  BY <1>1 DEF Object
<1> HIDE DEF r
<1>4. Dated(r)
  BY <1>3, EditDated
<1>5. \A u \in Task : Number(r, u) = Number(s, u)
  BY <1>3, EditNumber
<1> QED
  BY <1>2, <1>3, <1>4, <1>5 DEF r, Revised, RevisedTo

\* A nudge refines Nudge.
LEMMA NudgeRefines ==
    ASSUME Settled, HInv', NEW t \in Task, Nudge(t)
    PROVE  Dated(self') /\ Abstract!Nudge(t)
<1> DEFINE told == [self.contract[t] EXCEPT !.interactive = TRUE]
           revealed == [self EXCEPT !.contract[t] = told]
           relabelled == [revealed EXCEPT !.effective[t] = INTERACTIVE]
           n == Cardinality(Task)
<1>1. /\ Sound(self) /\ self \in Object /\ self' \in Object /\ seen = self /\ Dated(self)
      /\ now \in Nat /\ self.contract[t] \in TaskContract /\ self.state \in [Task -> TaskState]
      /\ self.contract \in [Task -> TaskContract]
      /\ self.effective \in [Task -> PriorityClass]
  BY ObjectFields DEF Settled, HInv, Sound, SoundBut
<1>2. told \in TaskContract
  BY <1>1 DEF TaskContract
<1>3. /\ self' = IF self.state[t] = "queued" THEN Replan(revealed, t) ELSE relabelled
      /\ self.state[t] \in {"queued", "in-flight"} /\ now' = now /\ seen' = self'
  BY DEF Nudge, Return, Continue
<1> HIDE DEF told
<1>4. revealed = Revised(self, t, told)
  BY DEF Revised
<1> HIDE DEF revealed
<1>5. /\ SoundBut(revealed, {t}) /\ Dated(revealed) /\ revealed \in Object
      /\ revealed.contract = [self.contract EXCEPT ![t] = told]
      /\ revealed.state = self.state /\ revealed.decision = self.decision
      /\ revealed.effective = self.effective
      /\ revealed.order = self.order /\ revealed.sequence = self.sequence
      /\ \A u \in Task : Number(revealed, u) = Number(self, u)
  <2>1. RevisedTo(self, t, told, Revised(self, t, told))
    BY <1>1, <1>2, ReviseEffect
  <2> QED
    BY <1>4, <2>1 DEF RevisedTo
<1>6. /\ Abstract!Queued = Waiting(self) /\ Abstract!N = n
      /\ Abstract!INTERACTIVE = INTERACTIVE
  BY <1>1, SameN, SameNames DEF Abstract!Queued, Waiting
<1>7. CASE self.state[t] = "queued"
  <2> DEFINE plan == Decide(Mode, told, Fleet(revealed, TRUE))
             temp == [PlaceOf(self) EXCEPT ![t] = n + 1]
  <2>1. revealed.contract[t] = told /\ revealed.state[t] = "queued"
    BY <1>1, <1>5, <1>7
  <2>2. /\ self'.state = self.state /\ self'.contract = [self.contract EXCEPT ![t] = told]
        /\ self'.order = self.order
        /\ self'.decision = [self.decision EXCEPT ![t] = plan]
        /\ self'.effective = [self.effective EXCEPT ![t] = plan.class]
        /\ Number(self', t) = self.sequence
        /\ \A u \in Task \ {t} : Number(self', u) = Number(self, u)
        /\ Dated(self')
    <3>1. plan = Decide(Mode, revealed.contract[t], Fleet(revealed, TRUE))
      BY <2>1
    <3>2. self' = Replan(revealed, t)
      BY <1>3, <1>7
    <3> HIDE DEF plan
    <3>3. ReplannedTo(revealed, t, plan, self')
      BY <1>1, <1>5, <2>1, <3>1, <3>2, ReplanEffect
    <3> QED
      BY <1>5, <3>3 DEF ReplannedTo
  <2>3. plan = Abstract!Decide(Mode, told, Abstract!Fleet(TRUE))
    <3>1. SameRunning(self, revealed)
      BY <1>5 DEF SameRunning
    <3>2. Fleet(revealed, TRUE) = Fleet(self, TRUE)
      BY <3>1, LoadKept
    <3> QED
      BY <1>1, <3>2, SameDecide, SameLoad
  <2> HIDE DEF plan
  <2>4. Waiting(self') = Waiting(self) /\ OrderOf(self') = OrderOf(self)
    BY <2>2, OrderKept DEF Waiting
  <2>5. Agree(Numbers(self'), temp, Waiting(self))
    <3>1. /\ Waiting(self) \in SUBSET Task /\ n \in Nat /\ t \in Waiting(self)
          /\ self.sequence \in Nat
          /\ \A u \in Waiting(self) : PlaceOf(self)[u] \in 1 .. n
          /\ Agree(PlaceOf(self), Numbers(self), Waiting(self))
      BY <1>1, <1>7, PlaceRanks, SubsetFinite, ObjectFields DEF Waiting
    <3>2. \A u \in Waiting(self) : Number(self, u) \in Nat /\ Number(self, u) < self.sequence
      BY <1>1, DatedNumber DEF Sound, Waiting
    <3>3. /\ \A u \in Waiting(self) \ {t} : Numbers(self')[u] = Number(self, u)
          /\ Numbers(self')[t] = self.sequence
          /\ \A u \in Waiting(self) : Numbers(self)[u] = Number(self, u)
      BY <2>2, <3>1 DEF Numbers
    <3>4. temp[t] = n + 1 /\ \A u \in Waiting(self) \ {t} : temp[u] = PlaceOf(self)[u]
      BY <3>1 DEF PlaceOf
    <3> HIDE DEF temp
    <3>5. Agree(Numbers(self'), temp, Waiting(self) \ {t})
      BY <3>1, <3>3, <3>4 DEF Agree
    <3>6. /\ Numbers(self')[t] \in Int /\ temp[t] \in Int
          /\ \A u \in Waiting(self) \ {t} :
               /\ Numbers(self')[u] \in Int /\ temp[u] \in Int
               /\ Numbers(self')[u] < Numbers(self')[t] /\ temp[u] < temp[t]
      BY <3>1, <3>2, <3>3, <3>4
    <3> QED
      BY <3>1, <3>5, <3>6, LastAgrees
  <2>6. PlaceOf(self') = Abstract!Requeue(temp, Waiting(self))
    BY <2>4, <2>5, Requeued
  <2>7. Abstract!Nudge(t)
    BY <1>1, <1>3, <1>6, <1>7, <2>2, <2>3, <2>4, <2>6, MappedNow, MappedThen
       DEF Abstract!Nudge, told
  <2> QED
    BY <2>2, <2>7
<1>8. CASE self.state[t] = "in-flight"
  <2>1. self' = relabelled /\ t \notin Waiting(self) /\ INTERACTIVE \in PriorityClass
    BY <1>3, <1>8 DEF Waiting, PriorityClass
  <2>2. /\ relabelled.state = revealed.state
        /\ relabelled.contract = revealed.contract /\ relabelled.order = revealed.order
        /\ relabelled.generation = revealed.generation
        /\ relabelled.queues = revealed.queues /\ relabelled.sequence = revealed.sequence
        /\ relabelled.decision = revealed.decision
        /\ relabelled.effective = [revealed.effective EXCEPT ![t] = INTERACTIVE]
    BY <1>5 DEF Object
  <2> HIDE DEF relabelled
  <2>3. Dated(relabelled)
    BY <1>5, <2>2, EditDated
  <2>4. \A u \in Waiting(self) : Number(relabelled, u) = Number(self, u)
    <3> SUFFICES ASSUME NEW u \in Waiting(self) PROVE Number(relabelled, u) = Number(self, u)
      OBVIOUS
    <3>1. u \in Task \ {t}
      BY <2>1 DEF Waiting
    <3>2. Number(relabelled, u) = Number(revealed, u)
      BY <1>1, <1>5, <2>2, <3>1, EditNumber
    <3> QED
      BY <1>5, <3>1, <3>2
  <2>5. Waiting(relabelled) = Waiting(self)
    BY <1>5, <2>2 DEF Waiting
  <2>6. PlaceOf(relabelled) = PlaceOf(self) /\ OrderOf(relabelled) = OrderOf(self)
    BY <1>5, <2>2, <2>4, <2>5, PlaceKept, OrderKept
  <2>7. /\ seen'.state = seen.state /\ seen'.contract = [seen.contract EXCEPT ![t] = told]
        /\ seen'.decision = seen.decision
        /\ seen'.effective = [seen.effective EXCEPT ![t] = INTERACTIVE]
        /\ OrderOf(seen') = OrderOf(seen) /\ PlaceOf(seen') = PlaceOf(seen) /\ Dated(seen')
    BY <1>1, <1>3, <1>5, <2>1, <2>2, <2>3, <2>6
  <2>8. Abstract!Nudge(t)
    BY <1>1, <1>3, <1>6, <1>8, <2>7, MappedNow, MappedThen DEF Abstract!Nudge, told
  <2> QED
    BY <1>3, <2>7, <2>8
<1> QED
  BY <1>3, <1>7, <1>8

\* A new deadline refines UpdateDeadline.
LEMMA UpdateDeadlineRefines ==
    ASSUME Settled, HInv', NEW t \in Task, NEW d \in Deadlines, UpdateDeadline(t, d)
    PROVE  Dated(self') /\ Abstract!UpdateDeadline(t, d)
<1> DEFINE terms == [self.contract[t] EXCEPT !.deadline = d]
           revised == [self EXCEPT !.contract[t] = terms]
           n == Cardinality(Task)
<1>1. /\ Sound(self) /\ self \in Object /\ self' \in Object /\ seen = self /\ Dated(self)
      /\ now \in Nat /\ self.contract[t] \in TaskContract /\ self.state \in [Task -> TaskState]
      /\ self.contract \in [Task -> TaskContract]
      /\ self.effective \in [Task -> PriorityClass]
      /\ self.decision \in [Task -> DecisionRecord] /\ self.sequence \in Nat
  BY ObjectFields DEF Settled, HInv, Sound, SoundBut
<1>2. terms \in TaskContract
  <2>1. d \in Int
    BY HeapAssumption
  <2> QED
    BY <1>1, <2>1 DEF TaskContract
<1>3. /\ self' = IF self.state[t] = "queued" THEN Replan(Escalate(Push(revised, t)), t)
                 ELSE revised
      /\ self.state[t] \in {"queued", "in-flight"} /\ now' = now /\ seen' = self'
  BY DEF UpdateDeadline, Return, Continue
<1> HIDE DEF terms
<1>4. revised = Revised(self, t, terms)
  BY DEF Revised
<1> HIDE DEF revised
<1>5. /\ SoundBut(revised, {t}) /\ Dated(revised) /\ revised \in Object
      /\ revised.contract = [self.contract EXCEPT ![t] = terms]
      /\ revised.state = self.state /\ revised.decision = self.decision
      /\ revised.effective = self.effective
      /\ revised.order = self.order /\ revised.sequence = self.sequence
      /\ \A u \in Task : Number(revised, u) = Number(self, u)
  <2>1. RevisedTo(self, t, terms, Revised(self, t, terms))
    BY <1>1, <1>2, ReviseEffect
  <2> QED
    BY <1>4, <2>1 DEF RevisedTo
<1>6. Abstract!Queued = Waiting(self) /\ Abstract!N = n /\ n \in Nat
  BY <1>1, SameN, SubsetFinite DEF Abstract!Queued, Waiting
<1>7. CASE self.state[t] = "queued"
  <2> DEFINE pushed == PushAll(revised, {t})
             T == Raised(pushed)
             aged == Escalate(pushed)
             plan == Decide(Mode, terms, Fleet(aged, TRUE))
             class(u) == Abstract!Escalated(u, IF u = t THEN d ELSE seen.contract[u].deadline)
             temp == [u \in Task |-> IF u = t THEN 2 * Abstract!N + 1
                                     ELSE Abstract!PromotedPlace(u, class(u))]
  <2>1. Cardinality({t}) = 1 /\ Turn(revised, {t}, t) = 0
    BY <1>5, TurnAlone, FS_Singleton
  <2>2. /\ Sound(pushed) /\ Dated(pushed) /\ pushed \in Object
        /\ pushed.state = self.state /\ pushed.contract = revised.contract
        /\ pushed.decision = self.decision /\ pushed.effective = self.effective
        /\ pushed.order = self.order /\ pushed.sequence = self.sequence + 1
    <3>1. PushedTo(revised, {t}, pushed)
      BY <1>5, PushAllEffect
    <3>2. Sound(pushed) /\ Dated(pushed)
      BY <1>5, PushAllSound, PushAllDated
    <3> HIDE DEF pushed
    <3> QED
      BY <1>5, <2>1, <3>1, <3>2 DEF PushedTo
  <2>3. \A u \in Task \ {t} : Number(pushed, u) = Number(self, u)
    BY <1>5, PushAllNumbers
  <2>4. self' = Replan(aged, t)
    BY <1>3, <1>7 DEF Push
  <2> HIDE DEF pushed
  <2>5. /\ Sound(aged) /\ T \in SUBSET Task
        /\ aged.state = self.state /\ aged.contract = revised.contract
        /\ aged.order = self.order
        /\ aged.sequence = self.sequence + 1 + Cardinality(T)
        /\ \A u \in Task :
             /\ aged.effective[u] = IF u \in T THEN Target(pushed, u) ELSE self.effective[u]
             /\ aged.decision[u] = IF u \in T THEN [self.decision[u] EXCEPT !.at = now]
                                   ELSE self.decision[u]
        /\ \A u \in T : Number(aged, u) = pushed.sequence + Turn(pushed, T, u)
        /\ \A u \in Task \ T : Number(aged, u) = Number(pushed, u)
        /\ Dated(aged) /\ SameRunning(pushed, aged)
    BY <1>1, <2>2, EscalateEffect
  <2>6. SoundBut(aged, {t}) /\ aged.state[t] = "queued" /\ aged.contract[t] = terms
    BY <1>1, <1>5, <1>7, <2>5 DEF Sound, SoundBut
  <2> HIDE DEF aged, T
  <2>7. /\ self'.state = self.state /\ self'.contract = [self.contract EXCEPT ![t] = terms]
        /\ self'.order = self.order
        /\ self'.decision = [aged.decision EXCEPT ![t] = plan]
        /\ self'.effective = [aged.effective EXCEPT ![t] = plan.class]
        /\ Number(self', t) = aged.sequence
        /\ \A u \in Task \ {t} : Number(self', u) = Number(aged, u)
        /\ Dated(self')
    <3>1. plan = Decide(Mode, aged.contract[t], Fleet(aged, TRUE))
      BY <2>6
    <3> HIDE DEF plan
    <3>2. ReplannedTo(aged, t, plan, self')
      BY <1>1, <2>4, <2>5, <2>6, <3>1, ReplanEffect
    <3> QED
      BY <1>5, <2>5, <3>2 DEF ReplannedTo
  <2>8. plan = Abstract!Decide(Mode, terms, Abstract!Fleet(TRUE))
    <3>1. SameRunning(self, aged)
      BY <2>2, <2>5 DEF SameRunning
    <3>2. Fleet(aged, TRUE) = Fleet(self, TRUE)
      BY <3>1, LoadKept
    <3> QED
      BY <1>1, <3>2, SameDecide, SameLoad
  <2> HIDE DEF plan
  <2>9. ASSUME NEW u \in Task \ {t}
        PROVE  /\ class(u) = IF u \in T THEN Target(pushed, u) ELSE self.effective[u]
               /\ u \in T => class(u) # self.effective[u] /\ u \in Waiting(self)
    <3>1. pushed.contract[u] = self.contract[u]
      BY <1>1, <1>5, <2>2
    <3>2. Target(pushed, u) = Abstract!Aged(self.effective[u], self.contract[u].deadline)
      BY <1>1, <2>2, <3>1, TargetAged
    <3> QED
      BY <1>1, <2>2, <2>9, <3>2 DEF T, Raised, Abstract!Escalated, Waiting
  <2> HIDE DEF class
  <2>10. ASSUME NEW u \in Task \ {t}
         PROVE  /\ aged.effective[u] = class(u)
                /\ aged.decision[u] = Abstract!PromotedPlan(u, class(u))
                /\ temp[u] = IF u \in T THEN n + OrderOf(self)[u] ELSE PlaceOf(self)[u]
    <3>1. aged.effective[u] = class(u) /\ aged.decision[u] = Abstract!PromotedPlan(u, class(u))
      BY <1>1, <2>5, <2>9 DEF Abstract!PromotedPlan
    <3>2. temp[u] = IF u \in T THEN n + OrderOf(self)[u] ELSE PlaceOf(self)[u]
      BY <1>1, <1>6, <2>9, MappedNow DEF Abstract!PromotedPlace
    <3> QED
      BY <3>1, <3>2
  <2>11. temp[t] = 2 * n + 1
    BY <1>6
  <2> DEFINE live == Waiting(self) \ {t}
             R == T \ {t}
             q == self.sequence + 1
  <2>12. /\ Agree(Numbers(self'), temp, live)
         /\ \A u \in live : /\ Numbers(self')[u] \in Nat
                            /\ Numbers(self')[u] < q + Cardinality(T)
                            /\ temp[u] \in 1 .. 2 * n
    <3>1. live \in SUBSET Waiting(self) /\ R \in SUBSET live /\ R \subseteq T
             /\ T \in SUBSET Task /\ live \in SUBSET Task
      BY <2>5, <2>9 DEF Waiting
    <3>2. q \in Nat /\ self.sequence <= q
      BY <1>1
    <3>3. \A u : Turn(pushed, T, u) = Turn(self, T, u)
      BY <2>2 DEF Turn
    <3>4. ASSUME NEW u \in live \ R
          PROVE  Numbers(self')[u] = Number(self, u) /\ temp[u] = PlaceOf(self)[u]
      <4>1. u \in Task \ {t} /\ u \notin T
        BY <3>1, <3>4
      <4>2. Numbers(self')[u] = Number(self, u)
        BY <2>3, <2>5, <2>7, <4>1 DEF Numbers
      <4> QED
        BY <2>10, <4>1, <4>2
    <3>5. ASSUME NEW u \in R
          PROVE  Numbers(self')[u] = q + Turn(self, T, u) /\ temp[u] = n + OrderOf(self)[u]
      <4>1. u \in Task \ {t} /\ u \in T
        BY <3>1, <3>5
      <4>2. Numbers(self')[u] = q + Turn(self, T, u)
        BY <2>2, <2>5, <2>7, <3>3, <4>1 DEF Numbers
      <4> QED
        BY <2>10, <4>1, <4>2
    <3> HIDE DEF temp, live, R, q
    <3>6. PromotedTo(self, live, R, T, q, Numbers(self'), temp)
      BY <3>1, <3>2, <3>4, <3>5 DEF PromotedTo
    <3> QED
      BY <1>1, <3>6, PromotedAgree
  <2>13. Agree(Numbers(self'), temp, Waiting(self))
    <3>1. Numbers(self')[t] = q + Cardinality(T)
      BY <2>5, <2>7 DEF Numbers
    <3>2. q + Cardinality(T) \in Nat /\ t \in Waiting(self)
      BY <1>1, <1>7, <2>5, SubsetFinite DEF Waiting
    <3> HIDE DEF temp, q
    <3>3. \A u \in Waiting(self) \ {t} :
             /\ Numbers(self')[u] \in Int /\ temp[u] \in Int
             /\ Numbers(self')[u] < Numbers(self')[t] /\ temp[u] < temp[t]
      BY <1>6, <2>11, <2>12, <3>1
    <3>4. Numbers(self')[t] \in Int /\ temp[t] \in Int
      BY <1>6, <2>11, <3>1, <3>2
    <3> QED
      BY <2>12, <3>2, <3>3, <3>4, LastAgrees
  <2>14. Waiting(self') = Waiting(self) /\ OrderOf(self') = OrderOf(self)
    BY <2>7, OrderKept DEF Waiting
  <2>15. PlaceOf(self') = Abstract!Requeue(temp, Waiting(self))
    BY <2>13, <2>14, Requeued
  <2>16. self'.decision = [u \in Task |->
             IF u = t THEN plan ELSE Abstract!PromotedPlan(u, class(u))]
    <3>1. aged.decision \in [Task -> DecisionRecord]
      BY <2>5, ObjectFields DEF Sound, SoundBut
    <3>2. \A u \in Task : self'.decision[u] =
             IF u = t THEN plan ELSE Abstract!PromotedPlan(u, class(u))
      BY <2>7, <2>10, <3>1
    <3>3. self'.decision \in [Task -> DecisionRecord]
      BY <1>1, ObjectFields
    <3> QED
      BY <3>2, <3>3
  <2>17. self'.effective = [u \in Task |-> IF u = t THEN plan.class ELSE class(u)]
    <3>1. aged.effective \in [Task -> PriorityClass]
      BY <2>5, ObjectFields DEF Sound, SoundBut
    <3>2. \A u \in Task : self'.effective[u] = IF u = t THEN plan.class ELSE class(u)
      BY <2>7, <2>10, <3>1
    <3>3. self'.effective \in [Task -> PriorityClass]
      BY <1>1, ObjectFields
    <3> QED
      BY <3>2, <3>3
  <2>18. Abstract!UpdateDeadline(t, d)
    <3> DEFINE replan == Abstract!Decide(Mode, terms, Abstract!Fleet(TRUE))
    <3>1. /\ seen \in Object /\ seen' \in Object /\ Dated(seen) /\ Dated(seen')
          /\ seen.state[t] = "queued" /\ now' = now /\ seen'.state = seen.state
          /\ terms = [seen.contract[t] EXCEPT !.deadline = d]
          /\ seen'.contract = [seen.contract EXCEPT ![t] = terms]
      BY <1>1, <1>3, <1>7, <2>7 DEF terms
    <3>2. /\ OrderOf(seen') = OrderOf(seen)
          /\ PlaceOf(seen') = Abstract!Requeue(temp, Abstract!Queued)
      BY <1>1, <1>3, <1>6, <2>14, <2>15
    <3>3. /\ seen'.decision = [u \in Task |->
                IF u = t THEN replan ELSE Abstract!PromotedPlan(u, class(u))]
          /\ seen'.effective = [u \in Task |-> IF u = t THEN replan.class ELSE class(u)]
      BY <1>3, <2>8, <2>16, <2>17
    <3> QED
      BY <3>1, <3>2, <3>3, MappedNow, MappedThen, Zenon DEF Abstract!UpdateDeadline, class
  <2> QED
    BY <2>7, <2>18
<1>8. CASE self.state[t] = "in-flight"
  <2>1. self' = revised
    BY <1>3, <1>8
  <2>2. PlaceOf(revised) = PlaceOf(self) /\ OrderOf(revised) = OrderOf(self)
    BY <1>5, PlaceKept, OrderKept DEF Waiting
  <2>3. Abstract!UpdateDeadline(t, d)
    BY <1>1, <1>3, <1>5, <1>8, <2>1, <2>2, MappedNow, MappedThen
       DEF Abstract!UpdateDeadline, terms
  <2> QED
    BY <1>5, <2>1, <2>3
<1> QED
  BY <1>3, <1>7, <1>8

-----------------------------------------------------------------------------
(* The loop of next_task.  It works from the object a that escalation left; *)
(* of what follows only a and the clock matter, not the heaps.              *)

Urgency(c) == CASE c = INTERACTIVE -> 0 [] c = STANDARD -> 1 [] OTHER -> 2
Suffixes == {PRIORITY_ORDER, <<STANDARD, DEFERRED_BATCH>>, <<DEFERRED_BATCH>>, <<>>}

\* The classes the loop has left behind when it has still to try those of q.
Passed(q) == {c \in PriorityClass : Urgency(c) < 3 - Len(q)}

Ripe(a) == {t \in Waiting(a) : a.decision[t].at <= now}
Line(a, c) == {t \in Ripe(a) : a.effective[t] = c}
Ahead(a, t, u) ==
    Key(a, t) < Key(a, u) \/ (Key(a, t) = Key(a, u) /\ Number(a, t) < Number(a, u))

\* The first admissible task of a class, and the inadmissible ones before it.
Lead(a, c) ==
    {t \in Line(a, c) : /\ Admissible(a, t)
                        /\ \A u \in Line(a, c) : Admissible(a, u) => t = u \/ Ahead(a, t, u)}
Dregs(a, c) ==
    {t \in Line(a, c) : ~Admissible(a, t) /\ \A u \in Lead(a, c) : Ahead(a, t, u)}

\* What reservations leave for class c, as _can_use_slot finds it.
Claims(a, o, c) ==
    IF Urgency(o) < Urgency(c) THEN \E t \in Line(a, o) : Admissible(a, t)
    ELSE Line(a, o) # {}
Guarded(a, o, c) ==
    IF o # c /\ Claims(a, o, c) /\ Reservation[o] > InFlightByClass(a, o)
    THEN Reservation[o] - InFlightByClass(a, o) ELSE 0
Room(a, c, units) ==
    /\ InFlightCount(a) + units <= Capacity
    /\ c = DEFERRED_BATCH => InFlightCount(a) < DeferredLimit
    /\ Capacity - InFlightCount(a) - units
          >= Guarded(a, INTERACTIVE, c) + Guarded(a, STANDARD, c) + Guarded(a, DEFERRED_BATCH, c)
Fits(a, c, t) == Room(a, c, Units(Redecision(a, t)))

Refused(a, s) == Waiting(a) \ Waiting(s)
Stuck(a, q) == UNION {Lead(a, c) : c \in Passed(q)}

\* The object in the midst of the loop.
Untouched(a, s) ==
    /\ s.contract = a.contract /\ s.order = a.order /\ s.effective = a.effective
    /\ \A t \in Task :
          IF t \in Refused(a, s)
          THEN s.state[t] = "rejected" /\ s.decision[t] = Redecision(a, t)
          ELSE s.state[t] = a.state[t] /\ s.decision[t] = a.decision[t]

\* What was pushed back is numbered after everything else, in class order.
Ranked(a, s, stuck) ==
    /\ \A t \in Waiting(s) \ stuck : Number(s, t) = Number(a, t)
    /\ \A t \in stuck : a.sequence <= Number(s, t)
    /\ \A t, u \in stuck :
          Urgency(a.effective[t]) < Urgency(a.effective[u]) => Number(s, t) < Number(s, u)

Loop(a, s, q) ==
    /\ q \in Suffixes
    /\ Untouched(a, s) /\ a.sequence <= s.sequence
    /\ Refused(a, s) \subseteq Ripe(a) /\ \A t \in Refused(a, s) : ~Admissible(a, t)
    /\ \A c \in Passed(q) :
          /\ \A t \in Lead(a, c) : ~Fits(a, c, t)
          /\ Refused(a, s) \cap Line(a, c) = Dregs(a, c)
    /\ \A c \in PriorityClass \ Passed(q) : \A t \in Refused(a, s) \cap Line(a, c) :
          c = Head(q) /\ \A u \in Line(a, c) \ Refused(a, s) : Ahead(a, t, u)
    /\ Ranked(a, s, Stuck(a, q))

\* The loop tries the classes once each, the most urgent first.
LEMMA Classes ==
    /\ \A c \in PriorityClass : Urgency(c) \in 0 .. 2
    /\ \A c, d \in PriorityClass : Urgency(c) = Urgency(d) => c = d
    /\ Passed(<<>>) = PriorityClass /\ Passed(PRIORITY_ORDER) = {}
    /\ \A q \in Suffixes : q # <<>> =>
          /\ Head(q) \in PriorityClass /\ Urgency(Head(q)) = 3 - Len(q)
          /\ Tail(q) \in Suffixes /\ Passed(Tail(q)) = Passed(q) \cup {Head(q)}
          /\ Head(q) \notin Passed(q)
<1>1. INTERACTIVE # STANDARD /\ INTERACTIVE # DEFERRED_BATCH /\ STANDARD # DEFERRED_BATCH
  BY DEF INTERACTIVE, STANDARD, DEFERRED_BATCH
<1>2. Urgency(INTERACTIVE) = 0 /\ Urgency(STANDARD) = 1 /\ Urgency(DEFERRED_BATCH) = 2
  BY <1>1 DEF Urgency
<1>3. PriorityClass = {INTERACTIVE, STANDARD, DEFERRED_BATCH}
  BY DEF PriorityClass
<1>4. /\ \A c \in PriorityClass : Urgency(c) \in 0 .. 2
      /\ \A c, d \in PriorityClass : Urgency(c) = Urgency(d) => c = d
  BY <1>2, <1>3
<1>5. ASSUME NEW q \in Suffixes, q # <<>>
      PROVE  /\ Head(q) \in PriorityClass /\ Urgency(Head(q)) = 3 - Len(q)
             /\ Tail(q) \in Suffixes /\ Len(Tail(q)) = Len(q) - 1 /\ Len(q) \in 1 .. 3
  <2>1. /\ Tail(<<DEFERRED_BATCH>>) = <<>>
        /\ Tail(<<STANDARD, DEFERRED_BATCH>>) = <<DEFERRED_BATCH>>
        /\ Tail(<<INTERACTIVE, STANDARD, DEFERRED_BATCH>>) = <<STANDARD, DEFERRED_BATCH>>
    OBVIOUS
  <2>2. CASE q = PRIORITY_ORDER
    BY <1>2, <1>3, <2>1, <2>2 DEF Suffixes, PRIORITY_ORDER
  <2>3. CASE q = <<STANDARD, DEFERRED_BATCH>>
    BY <1>2, <1>3, <2>1, <2>3 DEF Suffixes
  <2>4. CASE q = <<DEFERRED_BATCH>>
    BY <1>2, <1>3, <2>1, <2>4 DEF Suffixes
  <2> QED
    BY <1>5, <2>2, <2>3, <2>4 DEF Suffixes
<1>6. Len(<<>>) = 0 /\ Len(PRIORITY_ORDER) = 3
  BY DEF PRIORITY_ORDER
<1>7. Passed(<<>>) = PriorityClass /\ Passed(PRIORITY_ORDER) = {}
  BY <1>4, <1>6 DEF Passed
<1>8. ASSUME NEW q \in Suffixes, q # <<>>
      PROVE  Passed(Tail(q)) = Passed(q) \cup {Head(q)} /\ Head(q) \notin Passed(q)
  <2>1. /\ Head(q) \in PriorityClass /\ Urgency(Head(q)) = 3 - Len(q)
        /\ Len(Tail(q)) = Len(q) - 1 /\ Len(q) \in 1 .. 3
    BY <1>5, <1>8
  <2>2. ASSUME NEW c \in PriorityClass
        PROVE  Urgency(c) < 3 - Len(Tail(q)) <=> Urgency(c) < 3 - Len(q) \/ c = Head(q)
    <3>1. Urgency(c) \in Int /\ (Urgency(c) = Urgency(Head(q)) <=> c = Head(q))
      BY <1>4, <2>1
    <3> QED
      BY <2>1, <3>1
  <2>3. ~(Urgency(Head(q)) < 3 - Len(q))
    BY <2>1
  <2> QED
    BY <2>1, <2>2, <2>3 DEF Passed
<1> QED
  BY <1>4, <1>5, <1>7, <1>8

\* The loop finds each ready task by one entry, under its key and number.
LEMMA ReadyTasks ==
    ASSUME NEW s, Sound(s), NEW c \in PriorityClass
    PROVE  /\ \A e \in ReadyEntries(s, c) :
                /\ e.task \in Task /\ s.state[e.task] = "queued" /\ s.effective[e.task] = c
                /\ s.decision[e.task].at <= now
                /\ e.key = Key(s, e.task) /\ e.sequence = Number(s, e.task)
           /\ \A t \in Task : s.state[t] = "queued" /\ s.effective[t] = c
                              /\ s.decision[t].at <= now
                => \E e \in ReadyEntries(s, c) : e.task = t
<1>1. s \in Object /\ Generations(s) /\ s.queues[c] \subseteq Entry
  BY ObjectFields DEF Sound, SoundBut
<1>2. ASSUME NEW e \in ReadyEntries(s, c)
      PROVE  /\ e.task \in Task /\ s.state[e.task] = "queued" /\ s.effective[e.task] = c
             /\ s.decision[e.task].at <= now
             /\ e.key = Key(s, e.task) /\ e.sequence = Number(s, e.task)
  <2>1. /\ e \in s.queues[c] /\ ValidEntry(s, c, e) /\ s.decision[e.task].at <= now
        /\ e.task \in Task /\ s.state[e.task] = "queued" /\ s.effective[e.task] = c
    BY <1>1 DEF ReadyEntries, ValidEntry, Entry
  <2>2. e \in LiveEntries(s, e.task)
    BY <2>1 DEF LiveEntries
  <2>3. PICK x \in LiveEntries(s, e.task) : x.key = Key(s, e.task)
    BY <2>1, SoundNumber DEF Sound
  <2>4. x = e
    BY <1>1, <2>1, <2>2, <2>3 DEF LiveEntries, ValidEntry, Generations
  <2> QED
    BY <1>1, <2>1, <2>2, <2>3, <2>4, EntryNumber
<1>3. ASSUME NEW t \in Task, s.state[t] = "queued", s.effective[t] = c, s.decision[t].at <= now
      PROVE  \E e \in ReadyEntries(s, c) : e.task = t
  <2>1. PICK x \in LiveEntries(s, t) : x.key = Key(s, t)
    BY <1>3, SoundNumber DEF Sound
  <2>2. x.task = t /\ x \in ReadyEntries(s, c)
    BY <1>3, <2>1 DEF LiveEntries, ReadyEntries
  <2> QED
    BY <2>2
<1> QED
  BY <1>2, <1>3

\* What a class still offers in mid-loop is its line without the refused.
LEMMA LoopReady ==
    ASSUME NEW a, NEW s, Sound(s), Untouched(a, s), NEW c \in PriorityClass
    PROVE  /\ \A e \in ReadyEntries(s, c) : e.task \in Line(a, c) \ Refused(a, s)
           /\ \A t \in Line(a, c) \ Refused(a, s) : \E e \in ReadyEntries(s, c) : e.task = t
           /\ HasReady(s, c) <=> Line(a, c) \ Refused(a, s) # {}
<1>1. \A t \in Task : t \in Line(a, c) \ Refused(a, s) <=>
         s.state[t] = "queued" /\ s.effective[t] = c /\ s.decision[t].at <= now
  BY DEF Untouched, Refused, Line, Ripe, Waiting
<1>2. \A t \in Line(a, c) : t \in Task
  BY DEF Line, Ripe, Waiting
<1> QED
  BY <1>1, <1>2, ReadyTasks DEF HasReady

\* The loop begins with nothing refused and nothing passed.
LEMMA LoopStarts ==
    ASSUME NEW a, Sound(a)
    PROVE  Loop(a, a, PRIORITY_ORDER)
<1>1. Refused(a, a) = {} /\ Stuck(a, PRIORITY_ORDER) = {} /\ Passed(PRIORITY_ORDER) = {}
  BY Classes DEF Refused, Stuck
<1>2. a.sequence \in Nat
  BY ObjectFields DEF Sound, SoundBut
<1> QED
  BY <1>1, <1>2 DEF Loop, Suffixes, Untouched, Ranked

\* Nothing ready is left in the class: whatever was in it has been refused.
LEMMA LoopPassesOver ==
    ASSUME NEW a, NEW s, NEW q, Sound(s), Loop(a, s, q), q # <<>>, ~HasReady(s, Head(q))
    PROVE  Loop(a, s, Tail(q))
<1> DEFINE c == Head(q)
<1>1. /\ c \in PriorityClass /\ Tail(q) \in Suffixes /\ Passed(Tail(q)) = Passed(q) \cup {c}
      /\ c \notin Passed(q)
  BY Classes DEF Loop
<1> HIDE DEF c
<1>2. Line(a, c) \subseteq Refused(a, s)
  BY <1>1, LoopReady DEF Loop, c
<1>3. Lead(a, c) = {} /\ Dregs(a, c) = Line(a, c)
  BY <1>2 DEF Loop, Lead, Dregs
<1>4. Stuck(a, Tail(q)) = Stuck(a, q)
  BY <1>1, <1>3 DEF Stuck
<1>5. ASSUME NEW d \in Passed(Tail(q))
      PROVE  /\ \A t \in Lead(a, d) : ~Fits(a, d, t)
             /\ Refused(a, s) \cap Line(a, d) = Dregs(a, d)
  BY <1>1, <1>2, <1>3 DEF Loop
<1>6. ASSUME NEW d \in PriorityClass \ Passed(Tail(q)), NEW t \in Refused(a, s) \cap Line(a, d)
      PROVE  FALSE
  BY <1>1 DEF Loop, c
<1> QED
  BY <1>1, <1>4, <1>5, <1>6 DEF Loop

\* Until something starts, every pass decides on the load the loop took.
LEMMA LoopLoad ==
    ASSUME NEW a, NEW s, Untouched(a, s)
    PROVE  /\ InFlightCount(s) = InFlightCount(a)
           /\ \A c : InFlightByClass(s, c) = InFlightByClass(a, c)
           /\ \A t \in Task : Redecision(s, t) = Redecision(a, t)
           /\ \A t \in Task : Admissible(s, t) <=> Admissible(a, t)
<1>1. SameRunning(a, s)
  BY DEF SameRunning, Untouched, Refused, Waiting
<1>2. \A t \in Task : a.state[t] = "in-flight" => s.effective[t] = a.effective[t]
  BY DEF Untouched
<1>3. /\ InFlightCount(s) = InFlightCount(a)
      /\ \A c : InFlightByClass(s, c) = InFlightByClass(a, c)
      /\ Fleet(s, FALSE) = Fleet(a, FALSE)
  BY <1>1, <1>2, LoadKept
<1>4. \A t \in Task : Redecision(s, t) = Redecision(a, t)
  BY <1>3 DEF Redecision, Untouched
<1> QED
  BY <1>3, <1>4 DEF Admissible, Untouched

\* What heads the class in the loop heads what is left of its line.
LEMMA FirstTask ==
    ASSUME NEW a, Sound(a), NEW s, NEW q, Sound(s), Loop(a, s, q), q # <<>>,
           NEW e, IsFirst(e, ReadyEntries(s, Head(q)))
    PROVE  /\ e.task \in Line(a, Head(q)) \ Refused(a, s)
           /\ e.task \in Task /\ e.task \in Waiting(s) /\ e.task \notin Stuck(a, q)
           /\ \A u \in Line(a, Head(q)) \ Refused(a, s) : u = e.task \/ Ahead(a, e.task, u)
<1> DEFINE c == Head(q)
           t == e.task
<1>1. c \in PriorityClass /\ c \notin Passed(q) /\ Untouched(a, s)
  BY Classes DEF Loop
<1>2. e \in ReadyEntries(s, c) /\ \A x \in ReadyEntries(s, c) : e = x \/ Before(e, x)
  BY DEF IsFirst
<1> HIDE DEF c
<1>3. t \in Line(a, c) \ Refused(a, s)
  BY <1>1, <1>2, LoopReady
<1>4. ASSUME NEW u \in Line(a, c) \ Refused(a, s)
      PROVE  /\ u \in Waiting(s) /\ u \notin Stuck(a, q) /\ u \in Task
             /\ Number(s, u) = Number(a, u) /\ Key(s, u) = Key(a, u)
  <2>1. u \in Waiting(s) /\ u \in Task
    BY DEF Line, Ripe, Waiting, Refused
  <2>2. u \notin Stuck(a, q)
    BY <1>1 DEF Stuck, Lead, Line
  <2>3. Number(s, u) = Number(a, u)
    BY <2>1, <2>2 DEF Loop, Ranked
  <2>4. Key(s, u) = Key(a, u)
    BY <1>1 DEF Key, Untouched
  <2> QED
    BY <2>1, <2>2, <2>3, <2>4
<1>5. ASSUME NEW u \in Line(a, c) \ Refused(a, s), u # t
      PROVE  Ahead(a, t, u)
  <2>1. PICK x \in ReadyEntries(s, c) : x.task = u
    BY <1>1, LoopReady
  <2>2. Before(e, x)
    BY <1>2, <1>5, <2>1
  <2>3. e.key = Key(s, t) /\ e.sequence = Number(s, t)
           /\ x.key = Key(s, u) /\ x.sequence = Number(s, u)
    BY <1>1, <1>2, <2>1, ReadyTasks
  <2> QED
    BY <1>3, <1>4, <2>2, <2>3 DEF Before, Ahead
<1> QED
  BY <1>3, <1>4, <1>5 DEF c

\* A pop costs nothing but the popped entry.
LEMMA PoppedNumber ==
    ASSUME NEW s, Sound(s), Dated(s), NEW c \in PriorityClass, NEW e,
           IsFirst(e, ReadyEntries(s, c))
    PROVE  /\ \A u \in Task \ {e.task} : Number(Popped(s, c, e), u) = Number(s, u)
           /\ Popped(s, c, e).sequence = s.sequence /\ Dated(Popped(s, c, e))
           /\ \A d \in PriorityClass \ {c} : Popped(s, c, e).queues[d] = s.queues[d]
<1> DEFINE kept == {x \in s.queues[c] \ {e} : Before(e, x) \/ ValidEntry(s, c, x)}
           r == Popped(s, c, e)
<1>1. s \in Object /\ s.queues \in [PriorityClass -> SUBSET Entry]
         /\ s.effective \in [Task -> PriorityClass]
  BY ObjectFields DEF Sound, SoundBut
<1>2. /\ kept \subseteq s.queues[c]
      /\ \A x \in s.queues[c] : x # e /\ ValidEntry(s, c, x) => x \in kept
  OBVIOUS
<1>3. r = [s EXCEPT !.queues[c] = kept]
  BY DEF Popped
<1> HIDE DEF r, kept
<1>4. /\ r.state = s.state /\ r.effective = s.effective /\ r.order = s.order
      /\ r.generation = s.generation /\ r.sequence = s.sequence
      /\ r.queues = [s.queues EXCEPT ![c] = kept]
  BY <1>1, <1>3 DEF Object
<1>5. /\ r.queues[c] = kept
      /\ \A d \in PriorityClass \ {c} : r.queues[d] = s.queues[d]
  BY <1>1, <1>4
<1>6. ASSUME NEW u \in Task \ {e.task} PROVE Number(r, u) = Number(s, u)
  <2>1. s.effective[u] \in PriorityClass
    BY <1>1
  <2>2. \A d, x : ValidEntry(r, d, x) <=> ValidEntry(s, d, x)
    BY <1>4 DEF ValidEntry
  <2>3. LiveEntries(r, u) = LiveEntries(s, u)
    BY <1>2, <1>4, <1>5, <2>1, <2>2 DEF LiveEntries
  <2> QED
    BY <2>3 DEF Number
<1>7. Dated(r)
  <2>1. \A d \in PriorityClass : r.queues[d] \subseteq s.queues[d]
    BY <1>2, <1>5
  <2> QED
    BY <1>4, <2>1 DEF Dated
<1> QED
  BY <1>4, <1>5, <1>6, <1>7 DEF r

\* The slot test of the loop, made after the pop, is the test on the object
\* the loop began with.
LEMMA SlotTest ==
    ASSUME NEW a, NEW s, NEW q, Sound(s), Dated(s), Loop(a, s, q), q # <<>>,
           NEW e, IsFirst(e, ReadyEntries(s, Head(q))), NEW units
    PROVE  CanUseSlot(Popped(s, Head(q), e), Head(q), units) <=> Room(a, Head(q), units)
<1> DEFINE c == Head(q)
           r == Popped(s, c, e)
<1>1. c \in PriorityClass /\ Passed(q) = {o \in PriorityClass : Urgency(o) < Urgency(c)}
         /\ Untouched(a, s)
  BY Classes DEF Loop, Passed
<1>2. /\ r.state = s.state /\ r.decision = s.decision /\ r.effective = s.effective
      /\ r.generation = s.generation
  BY <1>1, PoppedSound
<1>3. \A d \in PriorityClass \ {c} : r.queues[d] = s.queues[d]
  BY <1>1, PoppedNumber
<1> HIDE DEF r
<1>4. SameRunning(s, r) /\ \A t \in Task : r.effective[t] = s.effective[t]
  BY <1>2 DEF SameRunning
<1>5. InFlightCount(r) = InFlightCount(a)
         /\ \A o : InFlightByClass(r, o) = InFlightByClass(a, o)
  BY <1>1, <1>4, LoadKept, LoopLoad
<1>6. ASSUME NEW o \in PriorityClass, o # c PROVE HasReady(r, o) <=> Claims(a, o, c)
  <2>1. HasReady(r, o) <=> HasReady(s, o)
    BY <1>2, <1>3, <1>6 DEF HasReady, ReadyEntries, ValidEntry
  <2>2. HasReady(s, o) <=> Line(a, o) \ Refused(a, s) # {}
    BY <1>1, LoopReady
  <2>3. CASE Urgency(o) < Urgency(c)
    <3>1. Refused(a, s) \cap Line(a, o) = Dregs(a, o)
      BY <1>1, <2>3 DEF Loop
    <3>2. ASSUME NEW t \in Line(a, o), Admissible(a, t) PROVE t \notin Refused(a, s)
      BY <3>2 DEF Loop
    <3>3. ASSUME \A t \in Line(a, o) : ~Admissible(a, t) PROVE Line(a, o) \subseteq Refused(a, s)
      <4>1. Lead(a, o) = {}
        BY <3>3 DEF Lead
      <4>2. Dregs(a, o) = Line(a, o)
        BY <3>3, <4>1 DEF Dregs
      <4> QED
        BY <3>1, <4>2
    <3> QED
      BY <2>1, <2>2, <2>3, <3>2, <3>3 DEF Claims
  <2>4. CASE ~(Urgency(o) < Urgency(c))
    <3>1. o \in PriorityClass \ Passed(q)
      BY <1>1, <2>4
    <3>2. Refused(a, s) \cap Line(a, o) = {}
      BY <1>6, <3>1 DEF Loop, c
    <3> QED
      BY <2>1, <2>2, <2>4, <3>2 DEF Claims
  <2> QED
    BY <2>3, <2>4
<1>7. \A o \in PriorityClass : ProtectedFor(r, o, c) = Guarded(a, o, c)
  BY <1>5, <1>6 DEF ProtectedFor, Guarded
<1>8. INTERACTIVE \in PriorityClass /\ STANDARD \in PriorityClass
         /\ DEFERRED_BATCH \in PriorityClass
  BY DEF PriorityClass
<1>9. CanUseSlot(r, c, units) <=> Room(a, c, units)
  BY <1>5, <1>7, <1>8, Zenon DEF CanUseSlot, Room, Protected
<1> QED
  BY <1>9 DEF r, c

\* An admissible head is the lead of its class, and what the loop refused on
\* the way to it the dregs.
LEMMA FoundLead ==
    ASSUME NEW a, Sound(a), NEW s, NEW q, Sound(s), Loop(a, s, q), q # <<>>,
           NEW e, IsFirst(e, ReadyEntries(s, Head(q))), Admissible(a, e.task)
    PROVE  /\ Lead(a, Head(q)) = {e.task}
           /\ Dregs(a, Head(q)) = Refused(a, s) \cap Line(a, Head(q))
<1> DEFINE c == Head(q)
           t == e.task
<1>1. c \in PriorityClass \ Passed(q)
  BY Classes DEF Loop
<1>2. /\ t \in Line(a, c) \ Refused(a, s)
      /\ \A u \in Line(a, c) \ Refused(a, s) : u = t \/ Ahead(a, t, u)
  BY FirstTask
<1>3. \A u \in Refused(a, s) : ~Admissible(a, u)
  BY DEF Loop
<1>4. \A u \in Refused(a, s) \cap Line(a, c) : Ahead(a, u, t)
  BY <1>1, <1>2 DEF Loop
<1> HIDE DEF c
<1>5. ASSUME NEW u \in Line(a, c), NEW x \in Line(a, c), Ahead(a, u, x), Ahead(a, x, u)
      PROVE  FALSE
  <2>1. a \in Object /\ u \in Task /\ x \in Task /\ a.state[u] = "queued" /\ a.state[x] = "queued"
    BY DEF Sound, SoundBut, Line, Ripe, Waiting
  <2>2. Key(a, u) \in Int /\ Key(a, x) \in Int /\ Number(a, u) \in Nat /\ Number(a, x) \in Nat
    BY <2>1, KeyType, SoundNumber DEF Sound
  <2> QED
    BY <1>5, <2>2 DEF Ahead
<1>6. t \in Lead(a, c)
  BY <1>2, <1>3 DEF Lead
<1>7. ASSUME NEW u \in Lead(a, c) PROVE u = t
  <2>1. u \in Line(a, c) /\ Admissible(a, u) /\ (u = t \/ Ahead(a, u, t))
    BY <1>2 DEF Lead
  <2>2. u = t \/ Ahead(a, t, u)
    BY <1>2, <1>3, <2>1
  <2> QED
    BY <1>2, <1>5, <2>1, <2>2
<1>8. Lead(a, c) = {t}
  BY <1>6, <1>7
<1>9. ASSUME NEW u \in Dregs(a, c) PROVE u \in Refused(a, s)
  <2>1. u \in Line(a, c) /\ ~Admissible(a, u) /\ Ahead(a, u, t)
    BY <1>6 DEF Dregs
  <2> QED
    BY <1>2, <1>5, <2>1
<1>10. ASSUME NEW u \in Refused(a, s) \cap Line(a, c) PROVE u \in Dregs(a, c)
  BY <1>3, <1>4, <1>8 DEF Dregs
<1>11. Dregs(a, c) = Refused(a, s) \cap Line(a, c)
  BY <1>9, <1>10 DEF Dregs
<1> QED
  BY <1>8, <1>11 DEF c

\* The object once the head e of class c is decided.
Decided(s, c, e, end) ==
    [[Popped(s, c, e) EXCEPT !.decision[e.task] = Redecision(s, e.task)]
        EXCEPT !.state[e.task] = end]

\* A task that is refused or started leaves the rest as it was.
LEMMA DecidedEffect ==
    ASSUME NEW s, Sound(s), Dated(s), now \in Nat, NEW c \in PriorityClass, NEW e,
           IsFirst(e, ReadyEntries(s, c)), NEW end \in {"rejected", "in-flight"}
    PROVE  LET r == Decided(s, c, e, end) IN
           /\ r.contract = s.contract /\ r.order = s.order /\ r.effective = s.effective
           /\ r.sequence = s.sequence /\ Dated(r)
           /\ r.state[e.task] = end /\ r.decision[e.task] = Redecision(s, e.task)
           /\ \A u \in Task \ {e.task} :
                /\ r.state[u] = s.state[u] /\ r.decision[u] = s.decision[u]
                /\ Number(r, u) = Number(s, u)
<1> DEFINE t == e.task
           plan == Redecision(s, t)
           popped == Popped(s, c, e)
           r == [[popped EXCEPT !.decision[t] = plan] EXCEPT !.state[t] = end]
<1>1. /\ t \in Task /\ SoundBut(popped, {t}) /\ popped \in Object
      /\ popped.state = s.state /\ popped.contract = s.contract
      /\ popped.decision = s.decision /\ popped.effective = s.effective
      /\ popped.order = s.order /\ s \in Object
  BY PoppedSound DEF Sound, SoundBut
<1>2. /\ \A u \in Task \ {t} : Number(popped, u) = Number(s, u)
      /\ popped.sequence = s.sequence /\ Dated(popped)
  BY PoppedNumber
<1>3. Decided(s, c, e, end) = r
  BY DEF Decided
<1> HIDE DEF popped, plan, t
<1>4. /\ r.state = [popped.state EXCEPT ![t] = end]
      /\ r.decision = [popped.decision EXCEPT ![t] = plan]
      /\ r.contract = popped.contract /\ r.order = popped.order
      /\ r.generation = popped.generation /\ r.queues = popped.queues
      /\ r.effective = popped.effective /\ r.sequence = popped.sequence
  BY <1>1 DEF Object
<1> HIDE DEF r
<1>5. popped.state \in [Task -> TaskState] /\ popped.decision \in [Task -> DecisionRecord]
  BY <1>1, ObjectFields
<1>6. /\ r.state[t] = end /\ r.decision[t] = plan
      /\ \A u \in Task \ {t} : r.state[u] = s.state[u] /\ r.decision[u] = s.decision[u]
  BY <1>1, <1>4, <1>5
<1>7. Dated(r)
  <2>1. \A u \in Task : r.state[u] \in {"new", "queued"} => r.state[u] = popped.state[u]
    BY <1>1, <1>6
  <2> QED
    BY <1>2, <1>4, <2>1, EditDated
<1>8. ASSUME NEW u \in Task \ {t} PROVE Number(r, u) = Number(s, u)
  <2>1. r.effective[u] = popped.effective[u] /\ r.state[u] = popped.state[u]
    BY <1>1, <1>4, <1>6
  <2>2. Number(r, u) = Number(popped, u)
    BY <1>4, <2>1, EditNumber
  <2> QED
    BY <1>2, <2>2
<1> QED
  BY <1>1, <1>2, <1>3, <1>4, <1>6, <1>7, <1>8 DEF t, plan

\* A refusal goes on with the next of the same class.
LEMMA LoopRefuses ==
    ASSUME NEW a, Sound(a), NEW s, NEW q, Sound(s), Dated(s), now \in Nat,
           Loop(a, s, q), q # <<>>, NEW e, IsFirst(e, ReadyEntries(s, Head(q))),
           ~Admissible(a, e.task)
    PROVE  Loop(a, Decided(s, Head(q), e, "rejected"), q)
<1> DEFINE c == Head(q)
           t == e.task
           r == Decided(s, c, e, "rejected")
<1>1. c \in PriorityClass \ Passed(q)
  BY Classes DEF Loop
<1>2. /\ t \in Line(a, c) \ Refused(a, s) /\ t \in Task /\ t \in Waiting(s)
      /\ t \notin Stuck(a, q)
      /\ \A u \in Line(a, c) \ Refused(a, s) : u = t \/ Ahead(a, t, u)
  BY FirstTask
<1>3. /\ r.contract = s.contract /\ r.order = s.order /\ r.effective = s.effective
      /\ r.sequence = s.sequence
      /\ r.state[t] = "rejected" /\ r.decision[t] = Redecision(s, t)
      /\ \A u \in Task \ {t} :
            /\ r.state[u] = s.state[u] /\ r.decision[u] = s.decision[u]
            /\ Number(r, u) = Number(s, u)
  <2>1. "rejected" \in {"rejected", "in-flight"} /\ c \in PriorityClass
    BY <1>1
  <2> HIDE DEF c
  <2> QED
    BY <2>1, DecidedEffect DEF c
<1> HIDE DEF c, t, r
<1>4. Untouched(a, s) /\ Redecision(s, t) = Redecision(a, t)
  BY <1>2, LoopLoad DEF Loop
<1>5. Waiting(r) = Waiting(s) \ {t} /\ Refused(a, r) = Refused(a, s) \cup {t}
  <2>1. Waiting(r) = Waiting(s) \ {t}
    BY <1>3 DEF Waiting
  <2>2. t \in Waiting(a)
    BY <1>2 DEF Line, Ripe
  <2> QED
    BY <2>1, <2>2 DEF Refused
<1>6. Untouched(a, r)
  BY <1>2, <1>3, <1>4, <1>5 DEF Untouched
<1>7. \A d \in PriorityClass : d # c => Refused(a, r) \cap Line(a, d) = Refused(a, s) \cap Line(a, d)
  BY <1>2, <1>5 DEF Line
<1>8. Ranked(a, r, Stuck(a, q))
  <2>1. Ranked(a, s, Stuck(a, q))
    BY DEF Loop
  <2>2. Stuck(a, q) \subseteq Task \ {t}
    BY <1>2 DEF Stuck, Lead, Line, Ripe, Waiting
  <2>3. \A u \in Stuck(a, q) : Number(r, u) = Number(s, u)
    BY <1>3, <2>2
  <2>4. \A u \in Waiting(r) : u \in Waiting(s) /\ Number(r, u) = Number(s, u)
    BY <1>3, <1>5 DEF Waiting
  <2> QED
    BY <2>1, <2>3, <2>4 DEF Ranked
<1>9. \A d \in Passed(q) :
         /\ \A u \in Lead(a, d) : ~Fits(a, d, u)
         /\ Refused(a, r) \cap Line(a, d) = Dregs(a, d)
  BY <1>1, <1>7 DEF Loop, Passed
<1>10. ASSUME NEW d \in PriorityClass \ Passed(q), NEW x \in Refused(a, r) \cap Line(a, d)
       PROVE  d = c /\ \A u \in Line(a, d) \ Refused(a, r) : Ahead(a, x, u)
  <2>1. CASE x = t
    BY <1>2, <1>5, <1>10, <2>1 DEF Line
  <2>2. CASE x # t
    BY <1>5, <1>10, <2>2 DEF Loop, c
  <2> QED
    BY <2>1, <2>2
<1>11. Refused(a, r) \subseteq Ripe(a) /\ \A u \in Refused(a, r) : ~Admissible(a, u)
  BY <1>2, <1>5 DEF Loop, Line, t
<1>12. Loop(a, r, q)
  BY <1>3, <1>6, <1>8, <1>9, <1>10, <1>11 DEF Loop, c
<1> QED
  BY <1>12 DEF c, r

\* A head that does not fit is pushed back, and its class is passed.
LEMMA LoopBlocks ==
    ASSUME NEW a, Sound(a), NEW s, NEW q, Sound(s), Dated(s), now \in Nat,
           Loop(a, s, q), q # <<>>, NEW e, IsFirst(e, ReadyEntries(s, Head(q))),
           Admissible(a, e.task), ~Fits(a, Head(q), e.task)
    PROVE  LET r == Blocked(s, Popped(s, Head(q), e), e.task) IN
           Loop(a, r, Tail(q)) /\ Dated(r)
<1> DEFINE c == Head(q)
           t == e.task
           popped == Popped(s, c, e)
           r == PushAll(popped, {t})
<1>1. /\ c \in PriorityClass \ Passed(q) /\ Tail(q) \in Suffixes
      /\ Passed(Tail(q)) = Passed(q) \cup {c}
      /\ \A d \in Passed(q) : Urgency(d) < Urgency(c)
  BY Classes DEF Loop, Passed
<1>2. /\ t \in Line(a, c) \ Refused(a, s) /\ t \in Task /\ t \in Waiting(s)
      /\ t \notin Stuck(a, q)
  BY FirstTask
<1>3. Lead(a, c) = {t} /\ Dregs(a, c) = Refused(a, s) \cap Line(a, c)
  BY FoundLead
<1>4. /\ SoundBut(popped, {t}) /\ popped \in Object
      /\ popped.state = s.state /\ popped.contract = s.contract
      /\ popped.decision = s.decision /\ popped.effective = s.effective
      /\ popped.order = s.order
  BY <1>1, PoppedSound DEF SoundBut
<1>5. /\ \A u \in Task \ {t} : Number(popped, u) = Number(s, u)
      /\ popped.sequence = s.sequence /\ Dated(popped)
  BY <1>1, PoppedNumber
<1> HIDE DEF c, t, popped
<1>6. PushedTo(popped, {t}, r) /\ Dated(r)
  BY <1>2, <1>4, <1>5, PushAllEffect, PushAllDated
<1>7. /\ popped.state[t] = "queued" => Number(r, t) = popped.sequence + Turn(popped, {t}, t)
      /\ \A u \in Task \ {t} : Number(r, u) = Number(popped, u)
      /\ r.sequence = popped.sequence + Cardinality({t})
  BY <1>2, <1>4, PushAllNumbers
<1> HIDE DEF r
<1>8. Turn(popped, {t}, t) = 0 /\ Cardinality({t}) = 1 /\ s.sequence \in Nat
  BY <1>2, <1>4, TurnAlone, FS_Singleton, ObjectFields DEF Sound, SoundBut
<1>9. /\ Number(r, t) = s.sequence /\ r.sequence = s.sequence + 1
      /\ \A u \in Task \ {t} : Number(r, u) = Number(s, u)
  BY <1>2, <1>4, <1>5, <1>7, <1>8 DEF Waiting
<1>10. /\ r.state = s.state /\ r.contract = s.contract /\ r.decision = s.decision
       /\ r.effective = s.effective /\ r.order = s.order
  BY <1>4, <1>6 DEF PushedTo
<1>11. Waiting(r) = Waiting(s) /\ Refused(a, r) = Refused(a, s)
  BY <1>10 DEF Waiting, Refused
<1>12. Untouched(a, r)
  BY <1>10, <1>11 DEF Loop, Untouched
<1>13. Stuck(a, Tail(q)) = Stuck(a, q) \cup {t}
  BY <1>1, <1>3 DEF Stuck
<1>14. Ranked(a, r, Stuck(a, Tail(q)))
  <2>1. Ranked(a, s, Stuck(a, q)) /\ a.sequence <= s.sequence
    BY DEF Loop
  <2>2. ASSUME NEW u \in Stuck(a, q)
        PROVE  /\ u \in Task \ {t} /\ Number(s, u) < s.sequence
               /\ Urgency(a.effective[u]) < Urgency(c)
    <3>1. PICK d \in Passed(q) : u \in Lead(a, d)
      BY <2>2 DEF Stuck
    <3>2. u \in Waiting(a) /\ u \in Task /\ Admissible(a, u) /\ a.effective[u] = d
      BY <3>1 DEF Lead, Line, Ripe, Waiting
    <3>3. u \in Waiting(s)
      BY <3>2 DEF Loop, Refused
    <3> QED
      BY <1>1, <1>2, <3>1, <3>2, <3>3, DatedNumber DEF Sound, Waiting
  <2>3. a.effective[t] = c
    BY <1>2 DEF Line
  <2>4. \A u \in Waiting(r) \ Stuck(a, Tail(q)) : Number(r, u) = Number(a, u)
    BY <1>9, <1>11, <1>13, <2>1 DEF Ranked, Waiting
  <2>5. \A u \in Stuck(a, Tail(q)) : a.sequence <= Number(r, u)
    BY <1>9, <1>13, <2>1, <2>2 DEF Ranked
  <2>6. ASSUME NEW u \in Stuck(a, Tail(q)), NEW x \in Stuck(a, Tail(q)),
               Urgency(a.effective[u]) < Urgency(a.effective[x])
        PROVE  Number(r, u) < Number(r, x)
    <3>1. Urgency(c) \in Int
      BY <1>1, Classes
    <3>2. CASE u \in Stuck(a, q) /\ x \in Stuck(a, q)
      BY <1>9, <2>1, <2>2, <2>6, <3>2 DEF Ranked
    <3>3. CASE u \in Stuck(a, q) /\ x = t
      BY <1>9, <2>2, <3>3
    <3>4. CASE u = t
      <4>1. x = t \/ Urgency(a.effective[x]) < Urgency(c)
        BY <1>13, <2>2
      <4>2. x \in Stuck(a, q) => Urgency(a.effective[x]) \in Int
        BY <1>1, Classes DEF Stuck, Lead, Line, Passed
      <4> QED
        BY <1>13, <2>3, <2>6, <3>1, <3>4, <4>1, <4>2
    <3> QED
      BY <1>13, <3>2, <3>3, <3>4
  <2> QED
    BY <2>4, <2>5, <2>6 DEF Ranked
<1>15. \A d \in Passed(Tail(q)) :
          /\ \A u \in Lead(a, d) : ~Fits(a, d, u)
          /\ Refused(a, r) \cap Line(a, d) = Dregs(a, d)
  BY <1>1, <1>3, <1>11 DEF Loop, c, t
<1>16. \A d \in PriorityClass \ Passed(Tail(q)) : Refused(a, r) \cap Line(a, d) = {}
  BY <1>1, <1>11 DEF Loop, c
<1>17. /\ Refused(a, r) \subseteq Ripe(a) /\ \A u \in Refused(a, r) : ~Admissible(a, u)
       /\ a.sequence <= r.sequence
  <2>1. a.sequence <= s.sequence /\ a.sequence \in Nat
    BY ObjectFields DEF Loop, Sound, SoundBut
  <2> QED
    BY <1>8, <1>9, <1>11, <2>1 DEF Loop
<1>18. Loop(a, r, Tail(q))
  BY <1>1, <1>12, <1>14, <1>15, <1>16, <1>17 DEF Loop
<1> QED
  BY <1>6, <1>18 DEF Blocked, Push, c, t, popped, r

-----------------------------------------------------------------------------
(* What next_task finds *)

\* The object as next_task has it when it has escalated.
Taken(s) == IF EnableEscalation THEN Escalate(s) ELSE s
Promoted(s) == IF EnableEscalation THEN Raised(s) ELSE {}
PromotedPlaces == [t \in Task |-> Abstract!PromotedPlace(t, Abstract!Class(t))]

\* r is s but for the class, the window and the number of the tasks of R.
TakenTo(s, R, r) ==
    /\ Sound(r) /\ Dated(r) /\ R \in SUBSET Task
    /\ r.state = s.state /\ r.contract = s.contract /\ r.order = s.order
    /\ r.sequence = s.sequence + Cardinality(R)
    /\ \A t \in Task :
          /\ r.effective[t] = IF t \in R THEN Target(s, t) ELSE s.effective[t]
          /\ r.decision[t] = IF t \in R THEN [s.decision[t] EXCEPT !.at = now] ELSE s.decision[t]
    /\ \A t \in R : Number(r, t) = s.sequence + Turn(s, R, t)
    /\ \A t \in Task \ R : Number(r, t) = Number(s, t)
    /\ \A t \in R : s.state[t] = "queued" /\ Target(s, t) # s.effective[t]

\* What the loop takes is escalated.
LEMMA TakenEffect ==
    ASSUME NEW s, Sound(s), Dated(s), now \in Nat
    PROVE  TakenTo(s, Promoted(s), Taken(s))
<1>1. CASE EnableEscalation
  <2> DEFINE r == Escalate(s)
  <2>1. /\ Sound(r) /\ Raised(s) \in SUBSET Task
        /\ r.state = s.state /\ r.contract = s.contract /\ r.order = s.order
        /\ r.sequence = s.sequence + Cardinality(Raised(s))
        /\ \A t \in Task :
             /\ r.effective[t] = IF t \in Raised(s) THEN Target(s, t) ELSE s.effective[t]
             /\ r.decision[t] = IF t \in Raised(s) THEN [s.decision[t] EXCEPT !.at = now]
                                ELSE s.decision[t]
        /\ \A t \in Raised(s) : Number(r, t) = s.sequence + Turn(s, Raised(s), t)
        /\ \A t \in Task \ Raised(s) : Number(r, t) = Number(s, t)
        /\ Dated(r)
    BY EscalateEffect
  <2>2. \A t \in Raised(s) : s.state[t] = "queued" /\ Target(s, t) # s.effective[t]
    BY DEF Raised
  <2>3. Taken(s) = r /\ Promoted(s) = Raised(s)
    BY <1>1 DEF Taken, Promoted
  <2> HIDE DEF r
  <2> QED
    BY <2>1, <2>2, <2>3 DEF TakenTo
<1>2. CASE ~EnableEscalation
  <2>1. Taken(s) = s /\ Promoted(s) = {}
    BY <1>2 DEF Taken, Promoted
  <2>2. Cardinality({}) = 0 /\ s.sequence \in Nat
    BY FS_EmptySet, ObjectFields DEF Sound, SoundBut
  <2>3. s.sequence = s.sequence + Cardinality({})
    BY <2>2
  <2> QED
    BY <2>1, <2>3 DEF TakenTo
<1> QED
  BY <1>1, <1>2

\* Escalation leaves the load alone.
LEMMA TakenRuns ==
    ASSUME NEW s, Sound(s), Dated(s), now \in Nat
    PROVE  LET a == Taken(s) IN
           /\ InFlightCount(a) = InFlightCount(s)
           /\ \A c : InFlightByClass(a, c) = InFlightByClass(s, c)
           /\ \A allow : Fleet(a, allow) = Fleet(s, allow)
<1> DEFINE a == Taken(s)
<1>1. TakenTo(s, Promoted(s), a)
  BY TakenEffect
<1> HIDE DEF a
<1>2. SameRunning(s, a) /\ \A t \in Task : s.state[t] = "in-flight" => a.effective[t] = s.effective[t]
  BY <1>1 DEF TakenTo, SameRunning
<1> QED
  BY <1>2, LoadKept DEF a

\* What it finds is what module Scheduler makes of the queue.
LEMMA TakenMapped ==
    ASSUME Sound(seen), Dated(seen), now \in Nat, NEW t \in Task
    PROVE  LET a == Taken(seen) IN
           /\ a.effective[t] = Abstract!Class(t)
           /\ a.decision[t] = Abstract!PromotedPlan(t, Abstract!Class(t))
           /\ Redecision(a, t) = Abstract!Redecision(t)
           /\ t \in Promoted(seen) <=> Abstract!Class(t) # seen.effective[t]
<1> DEFINE a == Taken(seen)
<1>1. TakenTo(seen, Promoted(seen), a)
  BY TakenEffect
<1>2. Target(seen, t) = Abstract!Aged(seen.effective[t], seen.contract[t].deadline)
  BY TargetAged DEF Sound, SoundBut
<1>3. Fleet(a, FALSE) = Fleet(seen, FALSE)
  BY TakenRuns
<1> HIDE DEF a
<1>4. Abstract!Class(t) = IF t \in Promoted(seen) THEN Target(seen, t) ELSE seen.effective[t]
  BY <1>2 DEF Abstract!Class, Abstract!Escalated, Promoted, Raised
<1>5. a.effective[t] = Abstract!Class(t) /\ a.contract[t] = seen.contract[t]
         /\ (t \in Promoted(seen) <=> Abstract!Class(t) # seen.effective[t])
  BY <1>1, <1>4 DEF TakenTo
<1>6. a.decision[t] = Abstract!PromotedPlan(t, Abstract!Class(t))
  BY <1>1, <1>5 DEF TakenTo, Abstract!PromotedPlan
<1>7. Decide(Mode, a.contract[t], Fleet(a, FALSE))
         = Abstract!Decide(Mode, seen.contract[t], Abstract!Fleet(FALSE))
  BY <1>3, <1>5, SameDecide, SameLoad
<1>8. Redecision(a, t) = Abstract!Redecision(t)
  BY <1>5, <1>7 DEF Redecision, Abstract!Redecision
<1> QED
  BY <1>5, <1>6, <1>8 DEF a

\* After escalation numbers are in the order of the promoted places.
LEMMA TakenPlaces ==
    ASSUME Sound(seen), Dated(seen), now \in Nat
    PROVE  LET a == Taken(seen) IN
           /\ Waiting(a) = Waiting(seen) /\ Waiting(a) \in SUBSET Task
           /\ Agree(Numbers(a), PromotedPlaces, Waiting(a))
           /\ \A t \in Waiting(a) : /\ Number(a, t) \in Nat /\ Number(a, t) < a.sequence
                                    /\ PromotedPlaces[t] \in 1 .. 2 * Cardinality(Task)
<1> DEFINE a == Taken(seen)
           R == Promoted(seen)
           n == Cardinality(Task)
<1>1. TakenTo(seen, R, a) /\ seen \in Object /\ seen.sequence \in Nat
  BY TakenEffect, ObjectFields DEF Sound, SoundBut
<1>2. \A t \in Task : t \in R <=> Abstract!Class(t) # seen.effective[t]
  BY TakenMapped
<1> HIDE DEF a, R
<1>3. Waiting(a) = Waiting(seen) /\ Waiting(a) \in SUBSET Task /\ R \subseteq Waiting(seen)
         /\ a.sequence = seen.sequence + Cardinality(R) /\ R \in SUBSET Task
  BY <1>1 DEF TakenTo, Waiting
<1>4. \A t \in Waiting(seen) \ R :
         Numbers(a)[t] = Number(seen, t) /\ PromotedPlaces[t] = PlaceOf(seen)[t]
  BY <1>1, <1>2, <1>3, MappedNow DEF TakenTo, Numbers, PromotedPlaces, Abstract!PromotedPlace
<1>5. \A t \in R : /\ Numbers(a)[t] = seen.sequence + Turn(seen, R, t)
                   /\ PromotedPlaces[t] = n + OrderOf(seen)[t]
  BY <1>1, <1>2, <1>3, MappedNow, SameN
     DEF TakenTo, Numbers, PromotedPlaces, Abstract!PromotedPlace
<1>6. PromotedTo(seen, Waiting(seen), R, R, seen.sequence, Numbers(a), PromotedPlaces)
  BY <1>1, <1>3, <1>4, <1>5 DEF PromotedTo
<1>7. /\ Agree(Numbers(a), PromotedPlaces, Waiting(seen))
      /\ \A t \in Waiting(seen) :
            /\ Numbers(a)[t] \in Nat /\ Numbers(a)[t] < seen.sequence + Cardinality(R)
            /\ PromotedPlaces[t] \in 1 .. 2 * n
  BY <1>6, PromotedAgree
<1>8. \A t \in Waiting(a) : Numbers(a)[t] = Number(a, t)
  BY <1>3 DEF Numbers
<1> QED
  BY <1>3, <1>7, <1>8 DEF a

-----------------------------------------------------------------------------
(* The offers of module Scheduler and the lines of the loop *)

\* The offers are those of the ready tasks of a, in the order of the loop.
Offering(a) ==
    /\ Ripe(a) \subseteq Task
    /\ Abstract!Offers = {Abstract!Offer(t) : t \in Ripe(a)}
    /\ \A t \in Task :
          /\ Abstract!Offer(t).task = t /\ Abstract!Offer(t).class = a.effective[t]
          /\ Abstract!Offer(t).units = Units(Redecision(a, t))
          /\ Abstract!Offer(t).admitted = Admissible(a, t)
    /\ \A t, u \in Ripe(a) :
          Abstract!Before(Abstract!Offer(t), Abstract!Offer(u)) <=> Ahead(a, t, u)

\* What an offer says of its task.
LEMMA OfferFields ==
    \A t : /\ Abstract!Offer(t).task = t /\ Abstract!Offer(t).class = Abstract!Class(t)
           /\ Abstract!Offer(t).key = IF Discipline = "edf" THEN seen.contract[t].deadline
                ELSE [u \in Task |-> IF seen.order[u] = None THEN 0
                  ELSE Cardinality({v \in Task : seen.order[v] \in 0 .. seen.order[u]})][t]
           /\ Abstract!Offer(t).place = Abstract!PromotedPlace(t, Abstract!Class(t))
           /\ Abstract!Offer(t).units = Abstract!Units(Abstract!Redecision(t))
           /\ Abstract!Offer(t).admitted =
                 /\ Abstract!CheckAdmission(seen.contract[t], Abstract!Redecision(t))
                 /\ Abstract!Units(Abstract!Redecision(t)) <= Capacity
BY DEF Abstract!Offer

\* The offers of Scheduler are the ready tasks of the object the loop took, admitted
\* and ordered alike.
LEMMA OffersMapped ==
    ASSUME Sound(seen), Dated(seen), now \in Nat
    PROVE  Offering(Taken(seen))
<1> DEFINE a == Taken(seen)
<1>1. /\ TakenTo(seen, Promoted(seen), a) /\ seen \in Object
      /\ a.contract = seen.contract /\ a.order = seen.order
      /\ a \in Object /\ Dated(a)
  BY TakenEffect DEF Sound, SoundBut, TakenTo
<1>2. /\ Waiting(a) = Waiting(seen) /\ Waiting(a) \in SUBSET Task
      /\ Agree(Numbers(a), PromotedPlaces, Waiting(a))
      /\ \A t \in Waiting(a) : /\ Number(a, t) \in Nat /\ Number(a, t) < a.sequence
                               /\ PromotedPlaces[t] \in 1 .. 2 * Cardinality(Task)
  BY TakenPlaces
<1>3. \A t \in Task :
         /\ a.effective[t] = Abstract!Class(t)
         /\ a.decision[t] = Abstract!PromotedPlan(t, Abstract!Class(t))
         /\ Redecision(a, t) = Abstract!Redecision(t)
  BY TakenMapped
<1> HIDE DEF a
<1>4. Ripe(a) \subseteq Task /\ Ripe(a) \subseteq Waiting(a)
  BY <1>2 DEF Ripe
<1>5. Abstract!Offers = {Abstract!Offer(t) : t \in Ripe(a)}
  <2>1. Abstract!Queued = Waiting(a)
    BY <1>2 DEF Abstract!Queued, Waiting
  <2>2. {u \in Abstract!Queued : Abstract!PromotedPlan(u, Abstract!Class(u)).at <= now} = Ripe(a)
    BY <1>2, <1>3, <2>1 DEF Ripe
  <2> QED
    BY <2>2 DEF Abstract!Offers
<1>6. ASSUME NEW t \in Task
      PROVE  /\ Abstract!Offer(t).task = t /\ Abstract!Offer(t).class = a.effective[t]
             /\ Abstract!Offer(t).units = Units(Redecision(a, t))
             /\ Abstract!Offer(t).admitted = Admissible(a, t)
  BY <1>1, <1>3, OfferFields, SameUnits, SameAdmission, Zenon DEF Admissible
<1>7. ASSUME NEW t \in Ripe(a), NEW u \in Ripe(a)
      PROVE  Abstract!Before(Abstract!Offer(t), Abstract!Offer(u)) <=> Ahead(a, t, u)
  <2> DEFINE x == Abstract!Offer(t)
             y == Abstract!Offer(u)
  <2>1. t \in Task /\ u \in Task /\ t \in Waiting(a) /\ u \in Waiting(a)
    BY <1>4
  <2>2. x.place = PromotedPlaces[t] /\ y.place = PromotedPlaces[u]
    BY <2>1, OfferFields DEF PromotedPlaces
  <2>3. /\ x.key = IF Discipline = "edf" THEN seen.contract[t].deadline ELSE OrderOf(seen)[t]
        /\ y.key = IF Discipline = "edf" THEN seen.contract[u].deadline ELSE OrderOf(seen)[u]
    BY <1>1, OfferFields, MappedNow DEF TakenTo, Sound, SoundBut
  <2> HIDE DEF x, y
  <2>4. (x.place < y.place <=> Number(a, t) < Number(a, u))
    <3>1. Number(a, u) <= Number(a, t) <=> PromotedPlaces[u] <= PromotedPlaces[t]
      BY <1>2, <2>1 DEF Agree, Numbers
    <3>2. Number(a, t) \in Nat /\ Number(a, u) \in Nat
             /\ PromotedPlaces[t] \in Int /\ PromotedPlaces[u] \in Int
      BY <1>2, <2>1
    <3> QED
      BY <2>2, <3>1, <3>2
  <2>5. (x.key < y.key <=> Key(a, t) < Key(a, u)) /\ (x.key = y.key <=> Key(a, t) = Key(a, u))
    <3>1. CASE Discipline = "edf"
      BY <1>1, <2>3, <3>1 DEF Key
    <3>2. CASE Discipline # "edf"
      <4>1. /\ t \in Arrived(seen) /\ u \in Arrived(seen)
            /\ OrderOf(seen)[t] \in 1 .. Cardinality(Task)
            /\ OrderOf(seen)[u] \in 1 .. Cardinality(Task)
            /\ Agree(OrderOf(seen), seen.order, Arrived(seen))
        BY <1>1, <1>2, <2>1, OrderRanks
      <4>2. /\ OrderOf(seen)[t] <= OrderOf(seen)[u] <=> seen.order[t] <= seen.order[u]
            /\ OrderOf(seen)[u] <= OrderOf(seen)[t] <=> seen.order[u] <= seen.order[t]
        BY <4>1 DEF Agree
      <4>3. seen.order[t] \in Int /\ seen.order[u] \in Int
               /\ OrderOf(seen)[t] \in Int /\ OrderOf(seen)[u] \in Int
        BY <1>1, <2>1, <4>1, ObjectFields
      <4>4. Key(a, t) = seen.order[t] /\ Key(a, u) = seen.order[u]
               /\ x.key = OrderOf(seen)[t] /\ y.key = OrderOf(seen)[u]
        BY <1>1, <2>3, <3>2 DEF Key
      <4> QED
        BY <4>2, <4>3, <4>4
    <3> QED
      BY <3>1, <3>2
  <2> QED
    BY <2>4, <2>5 DEF Ahead, Abstract!Before, x, y
<1> QED
  BY <1>4, <1>5, <1>6, <1>7 DEF Offering, a

Offers(S) == {Abstract!Offer(t) : t \in S}

\* Head, drained offers and admission of a class are those of its line.
LEMMA ClassMapped ==
    ASSUME NEW a, Offering(a), NEW c
    PROVE  /\ Abstract!Heads(Abstract!Offers, c) = Offers(Lead(a, c))
           /\ Abstract!Drained(Abstract!Offers, c) = Offers(Dregs(a, c))
           /\ Abstract!Ready(Abstract!Offers, c) # {} <=> Line(a, c) # {}
           /\ Abstract!Admitted(Abstract!Offers, c) # {}
                 <=> \E t \in Line(a, c) : Admissible(a, t)
<1> DEFINE O == Abstract!Offers
           offer(t) == Abstract!Offer(t)
<1>1. /\ Ripe(a) \subseteq Task /\ O = {offer(t) : t \in Ripe(a)}
      /\ \A t \in Ripe(a) : /\ offer(t).task = t /\ offer(t).class = a.effective[t]
                            /\ offer(t).admitted = Admissible(a, t)
      /\ \A t, u \in Ripe(a) : Abstract!Before(offer(t), offer(u)) <=> Ahead(a, t, u)
  BY DEF Offering
<1>2. Line(a, c) \subseteq Ripe(a) /\ \A t \in Ripe(a) : t \in Line(a, c) <=> a.effective[t] = c
  BY DEF Line
<1> HIDE DEF O, offer
<1>3. \A x : x \in Abstract!Ready(O, c) <=> \E t \in Line(a, c) : x = offer(t)
  BY <1>1, <1>2 DEF Abstract!Ready
<1>4. \A x : x \in Abstract!Admitted(O, c) <=>
           \E t \in Line(a, c) : Admissible(a, t) /\ x = offer(t)
  BY <1>1, <1>2 DEF Abstract!Admitted
<1>5. \A x : x \in Abstract!Heads(O, c) <=> \E t \in Lead(a, c) : x = offer(t)
  <2>1. ASSUME NEW t \in Line(a, c), Admissible(a, t)
        PROVE  t \in Lead(a, c) <=>
                  \A y \in Abstract!Admitted(O, c) : offer(t) = y \/ Abstract!Before(offer(t), y)
    <3>1. \A y : y \in Abstract!Admitted(O, c) <=>
             \E u \in Line(a, c) : Admissible(a, u) /\ y = offer(u)
      BY <1>4
    <3>2. \A u \in Line(a, c) :
             /\ offer(t) = offer(u) <=> t = u
             /\ Abstract!Before(offer(t), offer(u)) <=> Ahead(a, t, u)
      BY <1>1, <1>2
    <3> QED
      BY <2>1, <3>1, <3>2 DEF Lead
  <2>2. \A t \in Lead(a, c) : t \in Line(a, c) /\ Admissible(a, t)
    BY DEF Lead
  <2> QED
    BY <1>4, <2>1, <2>2 DEF Abstract!Heads
<1>6. \A x : x \in Abstract!Drained(O, c) <=> \E t \in Dregs(a, c) : x = offer(t)
  <2>1. ASSUME NEW t \in Line(a, c)
        PROVE  t \in Dregs(a, c) <=>
                  /\ ~offer(t).admitted
                  /\ \A y \in Abstract!Heads(O, c) : Abstract!Before(offer(t), y)
    <3>1. \A u \in Lead(a, c) : Abstract!Before(offer(t), offer(u)) <=> Ahead(a, t, u)
      BY <1>1, <1>2 DEF Lead
    <3>2. offer(t).admitted <=> Admissible(a, t)
      BY <1>1, <1>2
    <3> QED
      BY <1>5, <3>1, <3>2 DEF Dregs
  <2>2. \A t \in Dregs(a, c) : t \in Line(a, c)
    BY DEF Dregs
  <2> QED
    BY <1>3, <2>1, <2>2 DEF Abstract!Drained
<1> QED
  BY <1>3, <1>4, <1>5, <1>6 DEF Offers, O, offer

\* A class can start in Scheduler exactly when its lead fits.
LEMMA StartableMapped ==
    ASSUME Sound(seen), Dated(seen), now \in Nat, NEW c \in PriorityClass
    PROVE  LET a == Taken(seen) IN
           Abstract!Startable(Abstract!Offers, c) = Offers({t \in Lead(a, c) : Fits(a, c, t)})
<1> DEFINE a == Taken(seen)
           O == Abstract!Offers
<1>1. Offering(a)
  BY OffersMapped
<1>2. Abstract!InFlightCount = InFlightCount(a)
         /\ \A o : Abstract!InFlightByClass(o) = InFlightByClass(a, o)
  BY TakenRuns, SameLoad
<1> HIDE DEF a
<1>3. \A d : /\ Abstract!Heads(O, d) = Offers(Lead(a, d))
             /\ Abstract!Ready(O, d) # {} <=> Line(a, d) # {}
             /\ Abstract!Admitted(O, d) # {} <=> \E t \in Line(a, d) : Admissible(a, t)
  BY <1>1, ClassMapped
<1> HIDE DEF O
<1>4. \A d : Abstract!Rank(d) = Urgency(d)
  BY SameNames DEF Abstract!Rank, Urgency
<1>5. \A o : Abstract!Waiting(O, o, c) <=> Claims(a, o, c)
  BY <1>3, <1>4 DEF Abstract!Waiting, Claims
<1>6. \A o : Abstract!ProtectedFor(O, o, c) = Guarded(a, o, c)
  BY <1>2, <1>5, Zenon DEF Abstract!ProtectedFor, Abstract!Shortfall, Guarded
<1>7. \A units : Abstract!CanUseSlot(O, c, units) <=> Room(a, c, units)
  <2>1. Abstract!Protected(O, c) = Guarded(a, INTERACTIVE, c) + Guarded(a, STANDARD, c)
                                      + Guarded(a, DEFERRED_BATCH, c)
    BY <1>6, SameNames DEF Abstract!Protected
  <2>2. Abstract!DEFERRED_BATCH = DEFERRED_BATCH
    BY SameNames
  <2> QED
    BY <1>2, <2>1, <2>2 DEF Abstract!CanUseSlot, Room
<1>8. \A t \in Lead(a, c) : Abstract!Offer(t).units = Units(Redecision(a, t))
  BY <1>1 DEF Offering, Lead, Line, Ripe, Waiting
<1>9. \A x : x \in Abstract!Startable(O, c)
                <=> \E t \in {u \in Lead(a, c) : Fits(a, c, u)} : x = Abstract!Offer(t)
  BY <1>3, <1>7, <1>8 DEF Abstract!Startable, Fits, Offers
<1> QED
  BY <1>9 DEF Offers, a, O

-----------------------------------------------------------------------------
(* The end of the loop *)

\* The object r at the end of a loop that started, refused and pushed back
\* these tasks of a.
Outcome(a, r, started, refused, stuck) ==
    /\ r.contract = a.contract /\ r.order = a.order /\ r.effective = a.effective
    /\ started \subseteq Waiting(a) /\ refused \subseteq Waiting(a) /\ stuck \subseteq Waiting(r)
    /\ \A t \in Task :
          /\ r.state[t] = IF t \in started THEN "in-flight"
                          ELSE IF t \in refused THEN "rejected" ELSE a.state[t]
          /\ r.decision[t] = IF t \in started \cup refused THEN Redecision(a, t) ELSE a.decision[t]
    /\ Ranked(a, r, stuck)
    /\ \A t, u \in stuck : a.effective[t] = a.effective[u] => t = u

\* The places of module Scheduler after next_task, before they are numbered
\* from 1 again.
Places(stuck) ==
    [t \in Task |-> IF t \in stuck THEN 2 * Abstract!N + 1 + Abstract!Rank(Abstract!Class(t))
                    ELSE Abstract!PromotedPlace(t, Abstract!Class(t))]

\* When the loop is over, numbers are in the order of the places NextTask gives.
LEMMA OutcomePlaces ==
    ASSUME Sound(seen), Dated(seen), now \in Nat, NEW r, Sound(r),
           NEW started, NEW refused, NEW stuck,
           Outcome(Taken(seen), r, started, refused, stuck)
    PROVE  /\ Waiting(r) = Waiting(seen) \ (started \cup refused)
           /\ Agree(Numbers(r), Places(stuck), Waiting(r))
<1> DEFINE a == Taken(seen)
           n == Cardinality(Task)
           rest == Waiting(r) \ stuck
<1>1. /\ Waiting(a) = Waiting(seen) /\ Waiting(a) \in SUBSET Task
      /\ Agree(Numbers(a), PromotedPlaces, Waiting(a))
      /\ \A t \in Waiting(a) : /\ Number(a, t) \in Nat /\ Number(a, t) < a.sequence
                               /\ PromotedPlaces[t] \in 1 .. 2 * n
  BY TakenPlaces
<1>2. /\ \A t \in Task : a.effective[t] = Abstract!Class(t)
      /\ a \in Object
  BY TakenMapped, TakenEffect DEF TakenTo, Sound, SoundBut
<1>3. Outcome(a, r, started, refused, stuck)
  OBVIOUS
<1> HIDE DEF a
<1>4. Waiting(r) = Waiting(a) \ (started \cup refused)
  BY <1>3 DEF Outcome, Waiting
<1>5. \A t \in Waiting(r) : t \in Task /\ t \in Waiting(a) /\ Number(r, t) \in Nat
  BY <1>4, SoundNumber DEF Sound, Waiting
<1>6. n \in Nat /\ a.sequence \in Nat
  BY <1>2, SubsetFinite, ObjectFields
<1>7. \A t \in Task : Places(stuck)[t] = IF t \in stuck THEN 2 * n + 1 + Urgency(a.effective[t])
                                         ELSE PromotedPlaces[t]
  <2>1. \A d : Abstract!Rank(d) = Urgency(d)
    BY SameNames DEF Abstract!Rank, Urgency
  <2> QED
    BY <1>2, <2>1, SameN DEF Places, PromotedPlaces
<1>8. ASSUME NEW t \in rest
      PROVE  /\ Numbers(r)[t] = Number(a, t) /\ Places(stuck)[t] = PromotedPlaces[t]
             /\ t \in Waiting(a)
  BY <1>3, <1>5, <1>7 DEF Outcome, Ranked, Numbers
<1>9. ASSUME NEW t \in stuck
      PROVE  /\ Numbers(r)[t] = Number(r, t) /\ Number(r, t) \in Nat
             /\ a.sequence <= Number(r, t)
             /\ Places(stuck)[t] = 2 * n + 1 + Urgency(a.effective[t])
             /\ a.effective[t] \in PriorityClass /\ Urgency(a.effective[t]) \in 0 .. 2
  <2>1. t \in Waiting(r) /\ t \in Task
    BY <1>3, <1>5 DEF Outcome
  <2>2. a.effective[t] \in PriorityClass
    BY <1>2, <2>1, ObjectFields
  <2>3. Urgency(a.effective[t]) \in 0 .. 2
    BY <2>2, Classes
  <2> QED
    BY <1>3, <1>5, <1>7, <2>1, <2>2, <2>3 DEF Outcome, Ranked, Numbers
<1> HIDE DEF n
<1>10. Agree(Numbers(r), Places(stuck), rest)
  BY <1>1, <1>8 DEF Agree, Numbers
<1>11. Agree(Numbers(r), Places(stuck), stuck)
  <2> SUFFICES ASSUME NEW t \in stuck, NEW u \in stuck
               PROVE  Numbers(r)[t] <= Numbers(r)[u] <=> Places(stuck)[t] <= Places(stuck)[u]
    BY DEF Agree
  <2> DEFINE x == Urgency(a.effective[t])
             y == Urgency(a.effective[u])
  <2>1. x \in Int /\ y \in Int /\ Number(r, t) \in Nat /\ Number(r, u) \in Nat
    BY <1>9
  <2>2. /\ x < y => Number(r, t) < Number(r, u)
        /\ y < x => Number(r, u) < Number(r, t)
    BY <1>3 DEF Outcome, Ranked
  <2>3. x = y => t = u
    BY <1>3, <1>9, Classes DEF Outcome
  <2>4. /\ Numbers(r)[t] = Number(r, t) /\ Numbers(r)[u] = Number(r, u)
        /\ Places(stuck)[t] = 2 * n + 1 + x /\ Places(stuck)[u] = 2 * n + 1 + y
    BY <1>9
  <2> HIDE DEF x, y
  <2> QED
    BY <1>6, <2>1, <2>2, <2>3, <2>4 DEF n
<1>12. Agree(Numbers(r), Places(stuck), rest \cup stuck)
  <2>1. ASSUME NEW t \in rest
        PROVE  /\ Numbers(r)[t] \in Nat /\ Numbers(r)[t] < a.sequence
               /\ Places(stuck)[t] \in 1 .. 2 * n
    BY <1>1, <1>8 DEF n
  <2>2. ASSUME NEW u \in stuck
        PROVE  /\ Numbers(r)[u] \in Nat /\ a.sequence <= Numbers(r)[u]
               /\ Places(stuck)[u] \in Int /\ 2 * n < Places(stuck)[u]
    BY <1>6, <1>9 DEF n
  <2>3. n \in Nat
    BY <1>6
  <2> HIDE DEF rest
  <2>4. \A t \in rest \cup stuck : Numbers(r)[t] \in Int /\ Places(stuck)[t] \in Int
    BY <2>1, <2>2, <2>3
  <2>5. \A t \in rest, u \in stuck :
           Numbers(r)[t] < Numbers(r)[u] /\ Places(stuck)[t] < Places(stuck)[u]
    BY <1>6, <2>1, <2>2, <2>3
  <2> QED
    BY <1>10, <1>11, <2>4, <2>5, AgreeJoin
<1>13. rest \cup stuck = Waiting(r)
  BY <1>3 DEF Outcome
<1> QED
  BY <1>1, <1>4, <1>12, <1>13

\* The classes the loop comes to, and what it does in them.
Opened(a) ==
    {c \in PriorityClass : \A o \in PriorityClass :
        Urgency(o) < Urgency(c) => \A t \in Lead(a, o) : ~Fits(a, o, t)}
Served(a) == UNION {{t \in Lead(a, c) : Fits(a, c, t)} : c \in Opened(a)}
Cleared(a) == UNION {Dregs(a, c) : c \in Opened(a)}
Halted(a) == UNION {{t \in Lead(a, c) : ~Fits(a, c, t)} : c \in Opened(a)}

\* What Scheduler starts, drops and blocks is what the loop should.
LEMMA ChosenMapped ==
    ASSUME Sound(seen), Dated(seen), now \in Nat
    PROVE  LET a == Taken(seen) IN
           /\ Abstract!Started(Abstract!Offers) = Served(a)
           /\ Abstract!Dropped(Abstract!Offers) = Cleared(a)
           /\ Abstract!Blocked(Abstract!Offers) = Halted(a)
<1> DEFINE a == Taken(seen)
           O == Abstract!Offers
           fit(c) == {t \in Lead(a, c) : Fits(a, c, t)}
<1>1. Offering(a)
  BY OffersMapped
<1>2. /\ \A c : Abstract!Heads(O, c) = Offers(Lead(a, c))
      /\ \A c : Abstract!Drained(O, c) = Offers(Dregs(a, c))
  BY <1>1, ClassMapped
<1>3. \A c \in PriorityClass : Abstract!Startable(O, c) = Offers(fit(c))
  BY StartableMapped
<1>4. \A t \in Task : Abstract!Offer(t).task = t
  BY <1>1 DEF Offering
<1>5. \A c : Lead(a, c) \in SUBSET Task /\ Dregs(a, c) \in SUBSET Task
  BY DEF Lead, Dregs, Line, Ripe, Waiting
<1> HIDE DEF a, O
<1>6. \A S \in SUBSET Task : \A t : t \in S <=> \E x \in Offers(S) : x.task = t
  BY <1>4 DEF Offers
<1>7. \A S, T \in SUBSET Task : \A t : t \in S \ T <=> \E x \in Offers(S) \ Offers(T) : x.task = t
  BY <1>4 DEF Offers
<1>8. Abstract!Tried(O) = Opened(a)
  <2>1. \A d : Abstract!Rank(d) = Urgency(d)
    BY SameNames DEF Abstract!Rank, Urgency
  <2>2. \A o \in PriorityClass : Abstract!Startable(O, o) = {}
                                    <=> \A t \in Lead(a, o) : ~Fits(a, o, t)
    BY <1>3 DEF Offers
  <2> QED
    BY <2>1, <2>2, SameNames DEF Abstract!Tried, Opened
<1>9. \A c \in Opened(a) : c \in PriorityClass
  BY DEF Opened
<1>10. Abstract!Started(O) = Served(a)
  <2>1. \A t : t \in Abstract!Started(O)
                 <=> \E c \in Opened(a) : \E x \in Abstract!Startable(O, c) : x.task = t
    BY <1>8 DEF Abstract!Started
  <2>2. \A c : fit(c) \in SUBSET Task
    BY <1>5
  <2>3. \A c \in Opened(a) : \A t :
           t \in fit(c) <=> \E x \in Abstract!Startable(O, c) : x.task = t
    <3> HIDE DEF fit
    <3> QED
      BY <1>3, <1>6, <1>9, <2>2
  <2> QED
    BY <2>1, <2>3 DEF Served
<1>11. Abstract!Dropped(O) = Cleared(a)
  <2>1. \A t : t \in Abstract!Dropped(O)
                 <=> \E c \in Opened(a) : \E x \in Abstract!Drained(O, c) : x.task = t
    BY <1>8 DEF Abstract!Dropped
  <2>2. \A c \in Opened(a) : \A t :
           t \in Dregs(a, c) <=> \E x \in Abstract!Drained(O, c) : x.task = t
    BY <1>2, <1>5, <1>6
  <2> QED
    BY <2>1, <2>2 DEF Cleared
<1>12. Abstract!Blocked(O) = Halted(a)
  <2>1. \A t : t \in Abstract!Blocked(O) <=>
           \E c \in Opened(a) :
              \E x \in Abstract!Heads(O, c) \ Abstract!Startable(O, c) : x.task = t
    BY <1>8 DEF Abstract!Blocked
  <2>2. \A c \in Opened(a) : \A t :
           t \in Lead(a, c) \ fit(c) <=>
              \E x \in Abstract!Heads(O, c) \ Abstract!Startable(O, c) : x.task = t
    <3>1. \A c : fit(c) \in SUBSET Task
      BY <1>5
    <3> HIDE DEF fit
    <3> QED
      BY <1>2, <1>3, <1>5, <1>7, <1>9, <3>1
  <2>3. \A c : Lead(a, c) \ fit(c) = {t \in Lead(a, c) : ~Fits(a, c, t)}
    OBVIOUS
  <2> QED
    BY <2>1, <2>2, <2>3 DEF Halted
<1> QED
  BY <1>10, <1>11, <1>12 DEF a, O

\* A loop that ends as it should is one step NextTask.
LEMMA NextTaskRefines ==
    ASSUME Sound(seen), Dated(seen), now \in Nat, now' = now, InFlightCount(seen) < Capacity,
           NEW r, seen' = r, Sound(r), Dated(r),
           Outcome(Taken(seen), r, Served(Taken(seen)), Cleared(Taken(seen)), Halted(Taken(seen)))
    PROVE  Abstract!NextTask
<1> DEFINE a == Taken(seen)
           started == Served(a)
           refused == Cleared(a)
           stuck == Halted(a)
<1>1. TakenTo(seen, Promoted(seen), a) /\ seen \in Object /\ seen' \in Object /\ Dated(seen')
         /\ a \in Object
  BY TakenEffect DEF TakenTo, Sound, SoundBut
<1>2. \A t \in Task :
         /\ a.effective[t] = Abstract!Class(t)
         /\ a.decision[t] = Abstract!PromotedPlan(t, Abstract!Class(t))
         /\ Redecision(a, t) = Abstract!Redecision(t)
  BY TakenMapped
<1>3. Outcome(a, r, started, refused, stuck)
  OBVIOUS
<1>4. /\ Waiting(r) = Waiting(seen) \ (started \cup refused)
      /\ Agree(Numbers(r), Places(stuck), Waiting(r))
  BY OutcomePlaces
<1>5. /\ Abstract!Started(Abstract!Offers) = started
       /\ Abstract!Dropped(Abstract!Offers) = refused
       /\ Abstract!Blocked(Abstract!Offers) = stuck
  BY ChosenMapped
<1> HIDE DEF a, started, refused, stuck
<1>6. PlaceOf(r) = Abstract!Requeue(Places(stuck), Abstract!Queued \ (started \cup refused))
  <2>1. Abstract!Queued = Waiting(seen)
    BY DEF Abstract!Queued, Waiting
  <2>2. PlaceOf(r) = Abstract!Requeue(Places(stuck), Waiting(r))
    BY <1>4, Requeued
  <2> QED
    BY <1>4, <2>1, <2>2
<1>7. OrderOf(r) = OrderOf(seen)
  BY <1>1, <1>3, OrderKept DEF TakenTo, Outcome
<1>8. r.state = [t \in Task |-> IF t \in started THEN "in-flight"
                               ELSE IF t \in refused THEN "rejected" ELSE seen.state[t]]
  <2>1. r.state \in [Task -> TaskState]
    BY ObjectFields DEF Sound, SoundBut
  <2>2. \A t \in Task : r.state[t] = IF t \in started THEN "in-flight"
                               ELSE IF t \in refused THEN "rejected" ELSE seen.state[t]
    BY <1>1, <1>3 DEF TakenTo, Outcome
  <2> QED
    BY <2>1, <2>2
<1>9. r.decision = [t \in Task |-> IF t \in started \cup refused THEN Abstract!Redecision(t)
                                   ELSE Abstract!PromotedPlan(t, Abstract!Class(t))]
  <2>1. r.decision \in [Task -> DecisionRecord]
    BY ObjectFields DEF Sound, SoundBut
  <2>2. \A t \in Task : r.decision[t] = IF t \in started \cup refused THEN Abstract!Redecision(t)
                                   ELSE Abstract!PromotedPlan(t, Abstract!Class(t))
    BY <1>2, <1>3 DEF Outcome
  <2> QED
    BY <2>1, <2>2
<1>10. r.effective = [t \in Task |-> Abstract!Class(t)]
  <2>1. r.effective \in [Task -> PriorityClass]
    BY ObjectFields DEF Sound, SoundBut
  <2> QED
    BY <1>2, <1>3, <2>1 DEF Outcome
<1>11. r.contract = seen.contract
  BY <1>1, <1>3 DEF TakenTo, Outcome
<1>12. Abstract!InFlightCount < Capacity
  BY SameLoad
<1>13. Abstract!Dispatch(started, refused, stuck)
  BY <1>1, <1>6, <1>7, <1>8, <1>9, <1>10, <1>11, MappedNow, MappedThen, Zenon
     DEF Abstract!Dispatch, Places
<1> QED
  BY <1>5, <1>12, <1>13 DEF Abstract!NextTask, Abstract!Dispatch

\* A class has at most one lead.
LEMMA LeadAlone ==
    ASSUME NEW a, Sound(a), NEW c, NEW t \in Lead(a, c), NEW u \in Lead(a, c)
    PROVE  t = u
<1>1. /\ a \in Object /\ t \in Task /\ u \in Task
      /\ a.state[t] = "queued" /\ a.state[u] = "queued"
      /\ t = u \/ Ahead(a, t, u)
      /\ t = u \/ Ahead(a, u, t)
  BY DEF Sound, SoundBut, Lead, Line, Ripe, Waiting
<1>2. Key(a, t) \in Int /\ Key(a, u) \in Int /\ Number(a, t) \in Nat /\ Number(a, u) \in Nat
  BY <1>1, KeyType, SoundNumber DEF Sound
<1> QED
  BY <1>1, <1>2 DEF Ahead

\* Whom the loop has pushed back waits still, and one of each class.
LEMMA StuckWaits ==
    ASSUME NEW a, Sound(a), NEW s, NEW q, Loop(a, s, q)
    PROVE  /\ Stuck(a, q) \subseteq Waiting(s) /\ Stuck(a, q) \subseteq Task
           /\ \A t, u \in Stuck(a, q) : a.effective[t] = a.effective[u] => t = u
<1>1. ASSUME NEW t \in Stuck(a, q) PROVE t \in Waiting(s) /\ t \in Task
  <2>1. t \in Waiting(a) /\ Admissible(a, t) /\ t \in Task
    BY DEF Stuck, Lead, Line, Ripe, Waiting
  <2> QED
    BY <2>1 DEF Loop, Refused
<1>2. ASSUME NEW t \in Stuck(a, q), NEW u \in Stuck(a, q), a.effective[t] = a.effective[u]
      PROVE  t = u
  <2>1. PICK c \in Passed(q) : t \in Lead(a, c)
    BY DEF Stuck
  <2>2. PICK d \in Passed(q) : u \in Lead(a, d)
    BY DEF Stuck
  <2>3. c = d
    BY <1>2, <2>1, <2>2 DEF Lead, Line
  <2> QED
    BY <2>1, <2>2, <2>3, LeadAlone
<1> QED
  BY <1>1, <1>2

\* What has been refused are the dregs of the classes up to the one the loop
\* is in, if those of that class have all been refused.
LEMMA RefusedCleared ==
    ASSUME NEW a, Sound(a), NEW s, NEW q, Loop(a, s, q), NEW opened \in SUBSET PriorityClass,
           \A c \in opened : Refused(a, s) \cap Line(a, c) = Dregs(a, c),
           \A c \in PriorityClass \ opened : Refused(a, s) \cap Line(a, c) = {}
    PROVE  UNION {Dregs(a, c) : c \in opened} = Refused(a, s)
<1>1. ASSUME NEW t \in Refused(a, s) PROVE \E c \in opened : t \in Dregs(a, c)
  <2>1. t \in Ripe(a) /\ a.effective[t] \in PriorityClass
    BY ObjectFields DEF Loop, Sound, SoundBut, Ripe, Waiting
  <2>2. t \in Line(a, a.effective[t])
    BY <2>1 DEF Line
  <2> QED
    BY <2>1, <2>2
<1> QED
  BY <1>1

\* A loop out of classes has started nothing, and rightly so.
LEMMA LoopEnds ==
    ASSUME NEW a, Sound(a), NEW s, Loop(a, s, <<>>)
    PROVE  Outcome(a, s, Served(a), Cleared(a), Halted(a))
<1>1. Passed(<<>>) = PriorityClass
  BY Classes
<1>2. \A c \in PriorityClass : /\ \A t \in Lead(a, c) : ~Fits(a, c, t)
                               /\ Refused(a, s) \cap Line(a, c) = Dregs(a, c)
  BY <1>1 DEF Loop
<1>3. Opened(a) = PriorityClass
  BY <1>2 DEF Opened
<1>4. Served(a) = {}
  BY <1>2, <1>3 DEF Served
<1>5. Cleared(a) = Refused(a, s)
  BY <1>2, <1>3, RefusedCleared DEF Cleared
<1>6. Halted(a) = Stuck(a, <<>>)
  <2>1. \A c \in PriorityClass : {t \in Lead(a, c) : ~Fits(a, c, t)} = Lead(a, c)
    BY <1>2
  <2> QED
    BY <1>1, <1>3, <2>1 DEF Halted, Stuck
<1>7. Untouched(a, s) /\ Ranked(a, s, Stuck(a, <<>>)) /\ Refused(a, s) \subseteq Waiting(a)
  BY DEF Loop, Refused
<1> QED
  BY <1>4, <1>5, <1>6, <1>7, StuckWaits DEF Outcome, Untouched

\* A loop that starts a task starts the one it should.
LEMMA LoopServes ==
    ASSUME NEW a, Sound(a), NEW s, NEW q, Sound(s), Dated(s), now \in Nat,
           Loop(a, s, q), q # <<>>, NEW e, IsFirst(e, ReadyEntries(s, Head(q))),
           Admissible(a, e.task), Fits(a, Head(q), e.task)
    PROVE  Outcome(a, Decided(s, Head(q), e, "in-flight"), Served(a), Cleared(a), Halted(a))
<1> DEFINE c == Head(q)
           t == e.task
           r == Decided(s, c, e, "in-flight")
<1>1. /\ c \in PriorityClass \ Passed(q) /\ Passed(q) \subseteq PriorityClass
      /\ Passed(q) = {d \in PriorityClass : Urgency(d) < Urgency(c)}
      /\ \A d, o \in PriorityClass : /\ Urgency(d) \in Int
                                     /\ Urgency(d) = Urgency(o) => d = o
  BY Classes DEF Loop, Passed
<1>2. /\ t \in Line(a, c) \ Refused(a, s) /\ t \in Task /\ t \in Waiting(s) /\ t \in Waiting(a)
      /\ t \notin Stuck(a, q)
  BY FirstTask DEF Line, Ripe
<1>3. Lead(a, c) = {t} /\ Dregs(a, c) = Refused(a, s) \cap Line(a, c) /\ Fits(a, c, t)
  BY FoundLead
<1>4. /\ r.contract = s.contract /\ r.order = s.order /\ r.effective = s.effective
      /\ r.state[t] = "in-flight" /\ r.decision[t] = Redecision(s, t)
      /\ \A u \in Task \ {t} :
            /\ r.state[u] = s.state[u] /\ r.decision[u] = s.decision[u]
            /\ Number(r, u) = Number(s, u)
  <2>1. "in-flight" \in {"rejected", "in-flight"} /\ c \in PriorityClass
    BY <1>1
  <2> HIDE DEF c
  <2> QED
    BY <2>1, DecidedEffect DEF c
<1>5. \A d \in PriorityClass \ Passed(q) : d # c => Refused(a, s) \cap Line(a, d) = {}
  BY DEF Loop
<1> HIDE DEF c, t, r
<1>6. Untouched(a, s) /\ Redecision(s, t) = Redecision(a, t)
  BY <1>2, LoopLoad DEF Loop
<1>7. \A d \in Passed(q) : /\ \A u \in Lead(a, d) : ~Fits(a, d, u)
                           /\ Refused(a, s) \cap Line(a, d) = Dregs(a, d)
  BY DEF Loop
<1>8. Opened(a) = Passed(q) \cup {c}
  <2>1. ASSUME NEW d \in PriorityClass
        PROVE  d \in Opened(a) <=> d \in Passed(q) \cup {c}
    <3>1. CASE Urgency(d) < Urgency(c)
      BY <1>1, <1>7, <3>1 DEF Opened
    <3>2. CASE d = c
      BY <1>1, <1>7, <3>2 DEF Opened
    <3>3. CASE Urgency(c) < Urgency(d)
      BY <1>1, <1>3, <3>3 DEF Opened
    <3> QED
      BY <1>1, <3>1, <3>2, <3>3
  <2> QED
    BY <1>1, <2>1 DEF Opened
<1>9. Served(a) = {t}
  BY <1>3, <1>7, <1>8 DEF Served
<1>10. Cleared(a) = Refused(a, s)
  <2>1. Opened(a) \in SUBSET PriorityClass
    BY DEF Opened
  <2>2. \A d \in Opened(a) : Refused(a, s) \cap Line(a, d) = Dregs(a, d)
    BY <1>3, <1>7, <1>8
  <2>3. \A d \in PriorityClass \ Opened(a) : Refused(a, s) \cap Line(a, d) = {}
    BY <1>5, <1>8
  <2> QED
    BY <2>1, <2>2, <2>3, RefusedCleared DEF Cleared
<1>11. Halted(a) = Stuck(a, q)
  <2>1. \A d \in Passed(q) : {u \in Lead(a, d) : ~Fits(a, d, u)} = Lead(a, d)
    BY <1>7
  <2>2. {u \in Lead(a, c) : ~Fits(a, c, u)} = {}
    BY <1>3
  <2> QED
    BY <1>8, <2>1, <2>2 DEF Halted, Stuck
<1>12. Waiting(r) = Waiting(s) \ {t}
  BY <1>4 DEF Waiting
<1>13. Ranked(a, r, Stuck(a, q))
  <2>1. Ranked(a, s, Stuck(a, q))
    BY DEF Loop
  <2>2. \A u \in Stuck(a, q) : Number(r, u) = Number(s, u)
    BY <1>2, <1>4, StuckWaits
  <2>3. \A u \in Waiting(r) : u \in Waiting(s) /\ Number(r, u) = Number(s, u)
    BY <1>4, <1>12 DEF Waiting
  <2> QED
    BY <2>1, <2>2, <2>3 DEF Ranked
<1>14. Stuck(a, q) \subseteq Waiting(r)
          /\ \A u, x \in Stuck(a, q) : a.effective[u] = a.effective[x] => u = x
  BY <1>2, <1>12, StuckWaits
<1>15. Refused(a, s) \subseteq Waiting(a) /\ {t} \subseteq Waiting(a)
  BY <1>2 DEF Refused
<1>16. /\ r.contract = a.contract /\ r.order = a.order /\ r.effective = a.effective
       /\ \A u \in Task :
            /\ r.state[u] = IF u \in {t} THEN "in-flight"
                            ELSE IF u \in Refused(a, s) THEN "rejected" ELSE a.state[u]
            /\ r.decision[u] = IF u \in {t} \cup Refused(a, s) THEN Redecision(a, u)
                               ELSE a.decision[u]
  BY <1>4, <1>6 DEF Untouched
<1>17. Outcome(a, r, {t}, Refused(a, s), Stuck(a, q))
  BY <1>13, <1>14, <1>15, <1>16 DEF Outcome
<1> QED
  BY <1>9, <1>10, <1>11, <1>17 DEF c, t, r

-----------------------------------------------------------------------------
(* The invariant of the refinement *)

\* While the loop runs, its object is where it may be from what it took.
RInv ==
    /\ HInv /\ Sound(seen) /\ Dated(self) /\ Dated(seen)
    /\ IF trying = <<>> THEN seen = self
       ELSE InFlightCount(seen) < Capacity /\ Loop(Taken(seen), self, trying)

\* The loop invariant after a step is about the object after it.
LEMMA LoopThen ==
    ASSUME now' = now, seen' = seen, Loop(Taken(seen), self', trying')
    PROVE  Loop(Taken(seen), self, trying)'
<1>1. Taken(seen)' = Taken(seen)
  <2>1. \A t : Target(seen, t)' = Target(seen, t)
    BY DEF Target
  <2>2. Escalate(seen)' = Escalate(seen)
    BY <2>1 DEF Escalate
  <2> QED
    BY <2>2 DEF Taken
<1>2. \A a, t : Redecision(a, t)' = Redecision(a, t)
  <2>1. \A a : Fleet(a, FALSE)' = Fleet(a, FALSE)
    BY DEF Fleet, NextLowLoad
  <2> QED
    BY <2>1 DEF Redecision
<1>3. \A a, t : Admissible(a, t)' <=> Admissible(a, t)
  BY <1>2 DEF Admissible
<1>4. \A a, c : Line(a, c)' = Line(a, c)
  BY DEF Line, Ripe
<1>5. \A a, c : Lead(a, c)' = Lead(a, c)
  BY <1>3, <1>4 DEF Lead
<1>6. \A a, c : Dregs(a, c)' = Dregs(a, c)
  BY <1>3, <1>4, <1>5 DEF Dregs
<1>7. \A a, c, t : Fits(a, c, t)' <=> Fits(a, c, t)
  <2>1. \A a, o, c : Claims(a, o, c)' <=> Claims(a, o, c)
    BY <1>3, <1>4 DEF Claims
  <2>2. \A a, o, c : Guarded(a, o, c)' = Guarded(a, o, c)
    BY <2>1 DEF Guarded
  <2>3. \A a, c, units : Room(a, c, units)' <=> Room(a, c, units)
    BY <2>2 DEF Room
  <2> QED
    BY <1>2, <2>3 DEF Fits
<1>8. \A a, q : Stuck(a, q)' = Stuck(a, q)
  BY <1>5 DEF Stuck
<1>9. \A a, s : Untouched(a, s)' <=> Untouched(a, s)
  BY <1>2 DEF Untouched
<1>10. \A a : Ripe(a)' = Ripe(a)
  BY DEF Ripe
<1>11. \A a, s, q : Loop(a, s, q)' <=> Loop(a, s, q)
  BY <1>3, <1>4, <1>5, <1>6, <1>7, <1>8, <1>9, <1>10 DEF Loop
<1> QED
  BY <1>1, <1>11

\* What nobody waiting for the lock sees is a stutter.
LEMMA SeenKept ==
    ASSUME now' = now, seen' = seen
    PROVE  UNCHANGED Abstract!vars
<1>1. QueuedTasks' = QueuedTasks /\ \A t : Youngest(t)' = Youngest(t)
  BY DEF QueuedTasks, Youngest
<1> QED
  BY <1>1 DEF Abstract!vars

\* A pass of the loop either ends it or leaves the object others see alone.
Passes ==
    /\ trying # <<>> /\ now' = now
    /\ \/ trying' # <<>> /\ seen' = seen /\ Loop(Taken(seen), self', trying')
       \/ /\ trying' = <<>> /\ seen' = self'
          /\ Outcome(Taken(seen), self', Served(Taken(seen)), Cleared(Taken(seen)),
                     Halted(Taken(seen)))

\* A pass that keeps the loop invariant or ends as it should refines.
LEMMA PassesRefines ==
    ASSUME RInv, HInv', Dated(self'), Passes
    PROVE  RInv' /\ (Abstract!NextTask \/ UNCHANGED Abstract!vars)
<1>1. /\ Sound(seen) /\ Dated(seen) /\ now \in Nat /\ now' = now
      /\ InFlightCount(seen) < Capacity /\ Sound(self')
  BY DEF RInv, Passes, HInv
<1>2. CASE trying' # <<>>
  <2>1. seen' = seen /\ Loop(Taken(seen), self', trying')
    BY <1>2 DEF Passes
  <2>2. Loop(Taken(seen), self, trying)'
    BY <1>1, <2>1, LoopThen
  <2>3. (InFlightCount(seen) < Capacity)'
    BY <1>1, <2>1
  <2> QED
    BY <1>1, <1>2, <2>1, <2>2, <2>3, SeenKept DEF RInv
<1>3. CASE trying' = <<>>
  <2>1. /\ seen' = self'
        /\ Outcome(Taken(seen), self', Served(Taken(seen)), Cleared(Taken(seen)),
                   Halted(Taken(seen)))
    BY <1>3 DEF Passes
  <2>2. Abstract!NextTask
    BY <1>1, <2>1, NextTaskRefines
  <2> QED
    BY <1>1, <1>3, <2>1, <2>2 DEF RInv
<1> QED
  BY <1>2, <1>3

\* To take the lock shows nothing.
LEMMA TakeRefines ==
    ASSUME RInv, HInv', NextTask
    PROVE  RInv' /\ UNCHANGED Abstract!vars
<1>1. /\ trying = <<>> /\ seen = self /\ Sound(self) /\ Dated(self) /\ now \in Nat
      /\ InFlightCount(seen) < Capacity
  BY DEF RInv, NextTask, HInv
<1>2. self' = Taken(self) /\ trying' = PRIORITY_ORDER /\ now' = now /\ trying' # <<>>
         /\ seen' = seen
  BY DEF NextTask, Continue, Taken, PRIORITY_ORDER
<1>3. Sound(self') /\ Dated(self')
  BY <1>1, <1>2, TakenEffect DEF TakenTo
<1>4. Loop(Taken(seen), self', trying')
  BY <1>1, <1>2, <1>3, LoopStarts
<1>5. Loop(Taken(seen), self, trying)'
  BY <1>2, <1>4, LoopThen
<1>6. (InFlightCount(seen) < Capacity)'
  BY <1>1, <1>2
<1> QED
  BY <1>1, <1>2, <1>3, <1>5, <1>6, SeenKept DEF RInv

\* To pass over a class without ready work is such a pass,
LEMMA PassOverPasses ==
    ASSUME RInv, PassOver
    PROVE  Dated(self') /\ Passes
<1>1. /\ trying # <<>> /\ ~HasReady(self, Head(trying)) /\ now' = now
      /\ self' = self /\ trying' = Tail(trying)
      /\ seen' = IF trying' = <<>> THEN self' ELSE seen
  BY DEF PassOver, Continue
<1>2. /\ Sound(self) /\ Dated(self) /\ Loop(Taken(seen), self, trying)
      /\ Sound(Taken(seen))
  BY <1>1, TakenEffect DEF RInv, HInv, TakenTo
<1>3. Loop(Taken(seen), self, Tail(trying))
  BY <1>1, <1>2, LoopPassesOver
<1>4. CASE Tail(trying) = <<>>
  BY <1>1, <1>2, <1>3, <1>4, LoopEnds DEF Passes
<1>5. CASE Tail(trying) # <<>>
  BY <1>1, <1>2, <1>3, <1>5 DEF Passes
<1> QED
  BY <1>4, <1>5

\* and so is to try the first entry of a class.
LEMMA TryPasses ==
    ASSUME RInv, trying # <<>>, NEW e \in self.queues[Head(trying)], Try(e)
    PROVE  Dated(self') /\ Passes
<1> DEFINE c == Head(trying)
           t == e.task
           a == Taken(seen)
           popped == Popped(self, c, e)
<1>1. /\ Sound(self) /\ Dated(self) /\ Loop(a, self, trying) /\ Sound(a) /\ now \in Nat
      /\ IsFirst(e, ReadyEntries(self, c))
  BY TakenEffect DEF RInv, HInv, TakenTo, Try
<1>2. \/ /\ ~Admissible(self, t)
         /\ Continue(Decided(self, c, e, "rejected"), trying)
      \/ /\ Admissible(self, t) /\ CanUseSlot(popped, c, Units(Redecision(self, t)))
         /\ Continue(Decided(self, c, e, "in-flight"), <<>>)
      \/ /\ Admissible(self, t) /\ ~CanUseSlot(popped, c, Units(Redecision(self, t)))
         /\ Continue(Blocked(self, popped, t), Tail(trying))
  BY DEF Try, Decided
<1>3. /\ Admissible(self, t) <=> Admissible(a, t)
      /\ CanUseSlot(popped, c, Units(Redecision(self, t))) <=> Fits(a, c, t)
  <2>1. t \in Task
    BY <1>1, FirstTask
  <2>2. Redecision(self, t) = Redecision(a, t) /\ (Admissible(self, t) <=> Admissible(a, t))
    BY <1>1, <2>1, LoopLoad DEF Loop
  <2> QED
    BY <1>1, <2>2, SlotTest DEF Fits
<1>4. c \in PriorityClass
  BY <1>1, Classes DEF Loop
<1>5. CASE ~Admissible(self, t) /\ Continue(Decided(self, c, e, "rejected"), trying)
  <2>1. /\ self' = Decided(self, c, e, "rejected") /\ trying' = trying /\ seen' = seen
        /\ now' = now
    BY <1>5 DEF Continue
  <2>2. Loop(a, self', trying')
    BY <1>1, <1>3, <1>5, <2>1, LoopRefuses
  <2>3. "rejected" \in {"rejected", "in-flight"}
    OBVIOUS
  <2>4. Dated(self')
    BY <1>1, <1>4, <2>1, <2>3, DecidedEffect
  <2> QED
    BY <2>1, <2>2, <2>4 DEF Passes
<1>6. CASE /\ Admissible(self, t) /\ CanUseSlot(popped, c, Units(Redecision(self, t)))
           /\ Continue(Decided(self, c, e, "in-flight"), <<>>)
  <2>1. /\ self' = Decided(self, c, e, "in-flight") /\ trying' = <<>> /\ seen' = self'
        /\ now' = now
    BY <1>6 DEF Continue
  <2>2. Outcome(a, self', Served(a), Cleared(a), Halted(a))
    BY <1>1, <1>3, <1>6, <2>1, LoopServes
  <2>3. "in-flight" \in {"rejected", "in-flight"}
    OBVIOUS
  <2>4. Dated(self')
    BY <1>1, <1>4, <2>1, <2>3, DecidedEffect
  <2> QED
    BY <2>1, <2>2, <2>4 DEF Passes
<1>7. CASE /\ Admissible(self, t) /\ ~CanUseSlot(popped, c, Units(Redecision(self, t)))
           /\ Continue(Blocked(self, popped, t), Tail(trying))
  <2>1. /\ self' = Blocked(self, popped, t) /\ trying' = Tail(trying) /\ now' = now
        /\ seen' = IF trying' = <<>> THEN self' ELSE seen
    BY <1>7 DEF Continue
  <2>2. Loop(a, self', Tail(trying)) /\ Dated(self')
    BY <1>1, <1>3, <1>7, <2>1, LoopBlocks
  <2>3. CASE Tail(trying) = <<>>
    BY <1>1, <2>1, <2>2, <2>3, LoopEnds DEF Passes
  <2>4. CASE Tail(trying) # <<>>
    BY <1>1, <2>1, <2>2, <2>4 DEF Passes
  <2> QED
    BY <2>2, <2>3, <2>4
<1> QED
  BY <1>2, <1>5, <1>6, <1>7

\* A call that returns at once leaves nothing in the midst of the loop.
LEMMA CallRefines ==
    ASSUME RInv, HInv', trying = <<>>, trying' = <<>>, seen' = self', Dated(self')
    PROVE  RInv'
BY DEF RInv, HInv

\* Both modules begin with nothing submitted.
LEMMA RInvInit ==
    ASSUME Init
    PROVE  RInv /\ Abstract!Init
<1> DEFINE plan(c) == Decide(Mode, c,
               [now |-> 0, inFlight |-> 0, capacity |-> Capacity, lowLoad |-> {}])
<1>1. HInv /\ Sound(self) /\ self \in Object
  BY InitHInv DEF HInv, Sound, SoundBut
<1>2. PICK contract \in [Task -> Contracts] :
         self = [state |-> [t \in Task |-> "new"], contract |-> contract,
                 decision |-> [t \in Task |-> plan(contract[t])],
                 effective |-> [t \in Task |-> [u \in Task |-> plan(contract[u])][t].class],
                 order |-> [t \in Task |-> None], generation |-> [t \in Task |-> 0],
                 sequence |-> 0, queues |-> [c \in PriorityClass |-> {}]]
  BY DEF Init
<1>3. now = 0 /\ trying = <<>> /\ seen = self
  BY DEF Init
<1> HIDE DEF plan
<1>4. Dated(self)
  BY <1>2 DEF Dated, None
<1>5. RInv
  BY <1>1, <1>3, <1>4 DEF RInv
<1>6. /\ seen.state = [t \in Task |-> "new"] /\ seen.contract = contract
      /\ seen.decision = [t \in Task |-> plan(seen.contract[t])]
      /\ seen.effective = [t \in Task |-> seen.decision[t].class]
      /\ seen.order = [t \in Task |-> None]
  BY <1>2, <1>3
<1>7. seen.decision = [t \in Task |-> Abstract!Decide(Mode, seen.contract[t],
               [now |-> 0, inFlight |-> 0, capacity |-> Capacity, lowLoad |-> {}])]
  BY <1>6, SameDecide DEF plan
<1>8. OrderOf(seen) = [t \in Task |-> 0] /\ PlaceOf(seen) = [t \in Task |-> 0]
  BY <1>6 DEF OrderOf, PlaceOf, Arrived, Waiting, None
<1>9. Abstract!Init
  BY <1>1, <1>3, <1>4, <1>6, <1>7, <1>8, MappedNow DEF Abstract!Init
<1> QED
  BY <1>5, <1>9

\* Every step of the object is a step of Scheduler or a stutter.
LEMMA NextRefines ==
    RInv /\ [Next]_vars => RInv' /\ [Abstract!Next]_(Abstract!vars)
<1> SUFFICES ASSUME RInv, [Next]_vars
             PROVE  RInv' /\ (Abstract!Next \/ UNCHANGED Abstract!vars)
  OBVIOUS
<1>1. HInv /\ HInv'
  BY NextHInv DEF RInv
<1>2. CASE NextTask
  BY <1>1, <1>2, TakeRefines
<1>3. CASE PassOver
  BY <1>1, <1>3, PassOverPasses, PassesRefines DEF Abstract!Next
<1>4. CASE trying # <<>> /\ \E e \in self.queues[Head(trying)] : Try(e)
  BY <1>1, <1>4, TryPasses, PassesRefines DEF Abstract!Next
<1>5. CASE Elapse
  <2>1. Settled
    BY <1>1, <1>5 DEF Elapse, RInv, Settled
  <2>2. Abstract!Elapse
    BY <1>5, <2>1, ElapseRefines
  <2>3. RInv'
    BY <1>1, <1>5, <2>1 DEF Elapse, RInv, Settled, HInv, Dated
  <2> QED
    BY <2>2, <2>3 DEF Abstract!Next
<1>6. ASSUME NEW t \in Task,
             \/ Submit(t) \/ Finish(t) \/ Cancel(t) \/ Nudge(t)
             \/ \E d \in Deadlines : UpdateDeadline(t, d)
      PROVE  RInv' /\ Abstract!Next
  <2>1. trying = <<>> /\ trying' = <<>> /\ seen' = self'
    BY <1>6 DEF Submit, Finish, Cancel, Nudge, UpdateDeadline, Return, Continue
  <2>2. Settled
    BY <1>1, <2>1 DEF RInv, Settled
  <2>3. Dated(self') /\ Abstract!Next
    <3>1. CASE Submit(t)
      BY <1>1, <2>2, <3>1, SubmitRefines DEF Abstract!Next
    <3>2. CASE Finish(t)
      BY <1>1, <2>2, <3>2, FinishRefines DEF Abstract!Next
    <3>3. CASE Cancel(t)
      BY <1>1, <2>2, <3>3, CancelRefines DEF Abstract!Next
    <3>4. CASE Nudge(t)
      BY <1>1, <2>2, <3>4, NudgeRefines DEF Abstract!Next
    <3>5. ASSUME NEW d \in Deadlines, UpdateDeadline(t, d)
          PROVE  Dated(self') /\ Abstract!Next
      BY <1>1, <2>2, <3>5, UpdateDeadlineRefines DEF Abstract!Next
    <3> QED
      BY <1>6, <3>1, <3>2, <3>3, <3>4, <3>5
  <2> QED
    BY <1>1, <2>1, <2>3, CallRefines
<1>7. CASE UNCHANGED vars
  <2>1. now' = now /\ self' = self /\ trying' = trying /\ seen' = seen
    BY <1>7 DEF vars
  <2>2. CASE trying = <<>>
    BY <1>1, <2>1, <2>2, SeenKept DEF RInv, HInv, Dated
  <2>3. CASE trying # <<>>
    <3>1. Loop(Taken(seen), self, trying)'
      BY <2>1, <2>3, LoopThen DEF RInv
    <3>2. (InFlightCount(seen) < Capacity)'
      BY <2>1, <2>3 DEF RInv
    <3> QED
      BY <1>1, <2>1, <2>3, <3>1, <3>2, SeenKept DEF RInv
  <2> QED
    BY <2>2, <2>3
<1> QED
  BY <1>2, <1>3, <1>4, <1>5, <1>6, <1>7 DEF Next

\* Whoever waits for the lock sees module Scheduler: for any tasks, contracts
\* and thresholds, the loop over the heaps, stale entries and all, starts,
\* refuses and pushes back what choosing among the sets of offers would.
THEOREM RefinementTheorem == Spec => ImplementsScheduler
<1>1. Init => RInv /\ Abstract!Init
  BY RInvInit
<1>2. RInv /\ [Next]_vars => RInv' /\ [Abstract!Next]_(Abstract!vars)
  BY NextRefines
<1> QED
  BY <1>1, <1>2, PTL DEF Spec, ImplementsScheduler, Abstract!Spec
=============================================================================
