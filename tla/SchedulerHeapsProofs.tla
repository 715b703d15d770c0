------------------------ MODULE SchedulerHeapsProofs ------------------------
(***************************************************************************)
(* What the heaps of the scheduler hold, for every set of tasks, contracts *)
(* and thresholds: generations make stale entries harmless.                *)
(***************************************************************************)
EXTENDS SchedulerHeaps, PolicyProofs, FiniteSetTheorems

TaskState == {"new", "queued", "in-flight", "completed", "failed", "cancelled", "rejected"}
Entry == [key : Int, sequence : Nat, generation : Nat, task : Task]
Object ==
    [state : [Task -> TaskState], contract : [Task -> TaskContract],
     decision : [Task -> DecisionRecord], effective : [Task -> PriorityClass],
     order : [Task -> Int], generation : [Task -> Nat], sequence : Nat,
     queues : [PriorityClass -> SUBSET Entry]]

\* No entry is of a generation its task has not reached, and no heap has two
\* entries of a task's generation.
Generations(s) ==
    \A c \in PriorityClass : \A x \in s.queues[c] :
        /\ x.generation <= s.generation[x.task]
        /\ \A y \in s.queues[c] :
              /\ x.task = y.task /\ x.generation = y.generation
              /\ x.generation = s.generation[x.task]
              => x = y

\* The heap of the task's class holds an entry for it, of its generation and
\* with its key.
Present(s, t) ==
    \E e \in s.queues[s.effective[t]] :
        e.task = t /\ e.generation = s.generation[t] /\ e.key = Key(s, t)

\* The object is in order but for these tasks, which a method has still to push.
SoundBut(s, tasks) ==
    /\ s \in Object
    /\ Generations(s)
    /\ \A t \in Task \ tasks : s.state[t] = "queued" => Present(s, t)

Sound(s) == SoundBut(s, {})

HInv ==
    /\ now \in Nat
    /\ trying \in Seq(PriorityClass)
    /\ Sound(self)

-----------------------------------------------------------------------------
(* Types *)

LEMMA ObjectFields ==
    ASSUME NEW s \in Object
    PROVE  /\ s.state \in [Task -> TaskState]
           /\ s.contract \in [Task -> TaskContract]
           /\ s.decision \in [Task -> DecisionRecord]
           /\ s.effective \in [Task -> PriorityClass]
           /\ s.order \in [Task -> Int]
           /\ s.generation \in [Task -> Nat]
           /\ s.sequence \in Nat
           /\ s.queues \in [PriorityClass -> SUBSET Entry]
BY DEF Object

LEMMA KeyType == ASSUME NEW s \in Object, NEW t \in Task PROVE Key(s, t) \in Int
BY ObjectFields DEF Key, TaskContract

LEMMA SubsetFinite ==
    ASSUME NEW S \in SUBSET Task
    PROVE  IsFiniteSet(S) /\ Cardinality(S) \in Nat
<1>1. IsFiniteSet(S)
  BY HeapAssumption, FS_Subset
<1> QED
  BY <1>1, FS_CardinalityType

\* The slots in use are finitely many.
LEMMA CountType == ASSUME NEW s \in Object PROVE InFlightCount(s) \in Nat
<1>1. \A d \in DecisionRecord : Units(d) \in 1 .. 3
  BY DEF Units, DecisionRecord
<1>2. Slots(s, Task) \subseteq Task \X (1 .. 3)
  BY <1>1, ObjectFields DEF Slots
<1>3. \A a, b \in Int : IsFiniteSet(a .. b)
  BY FS_Interval
<1>4. 1 \in Int /\ 3 \in Int
  OBVIOUS
<1>5. IsFiniteSet(1 .. 3)
  BY <1>3, <1>4, Zenon
<1>6. IsFiniteSet(Task \X (1 .. 3))
  BY <1>5, HeapAssumption, FS_Product
<1> QED
  BY <1>2, <1>6, FS_Subset, FS_CardinalityType DEF InFlightCount

\* Every plan the gateway asks for is a decision record.
LEMMA PlanType ==
    ASSUME NEW s \in Object, now \in Nat, NEW c \in TaskContract, NEW allow \in BOOLEAN
    PROVE  Decide(Mode, c, Fleet(s, allow)) \in DecisionRecord
<1>1. Fleet(s, allow) \in FleetState
  BY CountType, NextLowLoadType, HeapAssumption DEF Fleet, FleetState
<1> QED
  BY <1>1, DecideType, HeapAssumption

LEMMA RedecisionType ==
    ASSUME NEW s \in Object, now \in Nat, NEW t \in Task
    PROVE  Redecision(s, t) \in DecisionRecord
<1> DEFINE plan == Decide(Mode, s.contract[t], Fleet(s, FALSE))
<1>1. s.contract[t] \in TaskContract /\ s.effective[t] \in PriorityClass /\ now \in Int
  BY ObjectFields
<1>2. plan \in DecisionRecord
  BY <1>1, PlanType
<1> HIDE DEF plan
<1>3. [plan EXCEPT !.class = s.effective[t], !.at = now] \in DecisionRecord
  BY <1>1, <1>2 DEF DecisionRecord
<1> QED
  BY <1>3 DEF Redecision, plan

-----------------------------------------------------------------------------
(* Pushing *)

\* _push leaves the fields of the tasks alone but for the generations of
\* those it pushes, and adds one entry for each to the heap of its class.
Turn(s, tasks, t) == Cardinality({u \in tasks : s.order[u] < s.order[t]})
PushedTo(s, tasks, r) ==
    /\ r \in Object
    /\ r.state = s.state /\ r.contract = s.contract /\ r.decision = s.decision
    /\ r.effective = s.effective /\ r.order = s.order
    /\ r.sequence = s.sequence + Cardinality(tasks)
    /\ \A t \in Task :
          r.generation[t] = IF t \in tasks THEN s.generation[t] + 1 ELSE s.generation[t]
    /\ \A c \in PriorityClass :
          /\ s.queues[c] \subseteq r.queues[c]
          /\ \A e \in r.queues[c] \ s.queues[c] :
                /\ e.task \in tasks /\ s.effective[e.task] = c
                /\ e.generation = r.generation[e.task] /\ e.key = Key(s, e.task)
                /\ e.sequence = s.sequence + Turn(s, tasks, e.task)
                /\ \A x \in r.queues[c] \ s.queues[c] : x.task = e.task => x = e
          /\ \A t \in tasks : s.effective[t] = c =>
                \E e \in r.queues[c] :
                    /\ e.task = t /\ e.generation = r.generation[t] /\ e.key = Key(s, t)
                    /\ e.sequence = s.sequence + Turn(s, tasks, t)

LEMMA PushAllEffect ==
    ASSUME NEW s \in Object, NEW tasks \in SUBSET Task
    PROVE  PushedTo(s, tasks, PushAll(s, tasks))
<1> DEFINE g == [t \in Task |-> IF t \in tasks THEN s.generation[t] + 1 ELSE s.generation[t]]
           m == [s EXCEPT !.generation = g]
           turn(t) == Cardinality({u \in tasks : s.order[u] < s.order[t]})
           entry(t) == [key |-> Key(s, t), sequence |-> s.sequence + turn(t),
                        generation |-> g[t], task |-> t]
           q == [c \in PriorityClass |->
                   s.queues[c] \cup {entry(t) : t \in {u \in tasks : s.effective[u] = c}}]
           n == s.sequence + Cardinality(tasks)
           r == [m EXCEPT !.sequence = n, !.queues = q]
<1>1. g \in [Task -> Nat] /\ n \in Nat
  BY ObjectFields, SubsetFinite
<1>2. \A t \in tasks : entry(t) \in Entry
  <2>1. ASSUME NEW t \in tasks PROVE turn(t) \in Nat
    BY SubsetFinite
  <2> QED
    BY <1>1, <2>1, KeyType, ObjectFields DEF Entry
<1> HIDE DEF turn, n, entry, g
<1>3. q \in [PriorityClass -> SUBSET Entry]
  <2>1. ASSUME NEW c \in PriorityClass
        PROVE  s.queues[c] \cup {entry(t) : t \in {u \in tasks : s.effective[u] = c}}
                  \in SUBSET Entry
    BY <1>2, ObjectFields
  <2> QED
    BY <2>1
<1> HIDE DEF q
<1>4. /\ m.state = s.state /\ m.contract = s.contract /\ m.decision = s.decision
      /\ m.effective = s.effective /\ m.order = s.order /\ m.generation = g
      /\ m.sequence = s.sequence /\ m.queues = s.queues /\ m \in Object
  BY <1>1 DEF Object
<1> HIDE DEF m
<1>5. /\ r.state = s.state /\ r.contract = s.contract /\ r.decision = s.decision
      /\ r.effective = s.effective /\ r.order = s.order /\ r.generation = g
      /\ r.queues = q /\ r.sequence = n /\ r \in Object
  BY <1>1, <1>3, <1>4 DEF Object
<1>6. PushAll(s, tasks) = r
  <2>1. PushAll(s, tasks) = Entered(m, tasks)
    BY DEF PushAll, m, g
  <2>2. \A t : Key(m, t) = Key(s, t)
    BY <1>4 DEF Key
  <2>3. q = [c \in PriorityClass |-> m.queues[c] \cup
               {[key |-> Key(m, t),
                 sequence |-> m.sequence + Cardinality({u \in tasks : m.order[u] < m.order[t]}),
                 generation |-> m.generation[t], task |-> t] :
                   t \in {u \in tasks : m.effective[u] = c}}]
    <3>1. \A t : entry(t) = [key |-> Key(m, t),
                 sequence |-> m.sequence + Cardinality({u \in tasks : m.order[u] < m.order[t]}),
                 generation |-> m.generation[t], task |-> t]
      BY <1>4, <2>2, Zenon DEF entry, turn
    <3>2. q = [c \in PriorityClass |->
             m.queues[c] \cup {entry(t) : t \in {u \in tasks : m.effective[u] = c}}]
      BY <1>4, Zenon DEF q
    <3> QED
      BY <3>1, <3>2
  <2>4. n = m.sequence + Cardinality(tasks)
    BY <1>4 DEF n
  <2>5. Entered(m, tasks) = [m EXCEPT !.sequence = m.sequence + Cardinality(tasks),
           !.queues = [c \in PriorityClass |-> m.queues[c] \cup
               {[key |-> Key(m, t),
                 sequence |-> m.sequence + Cardinality({u \in tasks : m.order[u] < m.order[t]}),
                 generation |-> m.generation[t], task |-> t] :
                   t \in {u \in tasks : m.effective[u] = c}}]]
    BY Zenon DEF Entered
  <2> QED
    BY <2>1, <2>3, <2>4, <2>5, Zenon
<1> HIDE DEF r
<1>7. \A c \in PriorityClass :
         r.queues[c] = s.queues[c] \cup {entry(t) : t \in {u \in tasks : s.effective[u] = c}}
  BY <1>5 DEF q
<1>8. \A t \in tasks : /\ entry(t).task = t /\ entry(t).generation = g[t]
                       /\ entry(t).key = Key(s, t) /\ entry(t).sequence = s.sequence + turn(t)
  BY DEF entry
<1>9. \A t \in Task : r.generation[t] =
           IF t \in tasks THEN s.generation[t] + 1 ELSE s.generation[t]
  BY <1>5 DEF g
<1>10. \A t : turn(t) = Turn(s, tasks, t)
  BY DEF turn, Turn
<1>11. r.sequence = s.sequence + Cardinality(tasks)
  BY <1>5 DEF n
<1>12. ASSUME NEW c \in PriorityClass
       PROVE  /\ s.queues[c] \subseteq r.queues[c]
              /\ \A e \in r.queues[c] \ s.queues[c] :
                    \E t \in tasks : s.effective[t] = c /\ e = entry(t)
              /\ \A t \in tasks : s.effective[t] = c => entry(t) \in r.queues[c]
  BY <1>7
<1>13. /\ r \in Object
       /\ r.state = s.state /\ r.contract = s.contract /\ r.decision = s.decision
       /\ r.effective = s.effective /\ r.order = s.order /\ r.generation = g
  BY <1>5
<1> HIDE DEF r
<1> QED
  BY <1>6, <1>8, <1>9, <1>10, <1>11, <1>12, <1>13 DEF PushedTo

\* After _push, the object is in order for what was pushed, too.
LEMMA PushAllSound ==
    ASSUME NEW s, NEW tasks \in SUBSET Task, SoundBut(s, tasks)
    PROVE  Sound(PushAll(s, tasks))
<1> DEFINE r == PushAll(s, tasks)
<1>1. s \in Object /\ Generations(s)
  BY DEF SoundBut
<1>2. PushedTo(s, tasks, r)
  BY <1>1, PushAllEffect
<1> HIDE DEF r
<1>3. /\ r \in Object
      /\ r.state = s.state /\ r.contract = s.contract
      /\ r.effective = s.effective /\ r.order = s.order
      /\ \A t \in Task :
           r.generation[t] = IF t \in tasks THEN s.generation[t] + 1 ELSE s.generation[t]
      /\ \A c \in PriorityClass :
           /\ s.queues[c] \subseteq r.queues[c]
           /\ \A e \in r.queues[c] \ s.queues[c] :
                 /\ e.task \in tasks /\ s.effective[e.task] = c
                 /\ e.generation = r.generation[e.task]
                 /\ \A x \in r.queues[c] \ s.queues[c] : x.task = e.task => x = e
           /\ \A t \in tasks : s.effective[t] = c =>
                 \E e \in r.queues[c] :
                     /\ e.task = t /\ e.generation = r.generation[t] /\ e.key = Key(s, t)
  BY <1>2 DEF PushedTo
<1>4. \A c \in PriorityClass : \A e \in r.queues[c] : e \in Entry
  BY <1>3, ObjectFields
<1>5. Generations(r)
  <2> SUFFICES ASSUME NEW c \in PriorityClass, NEW x \in r.queues[c]
               PROVE  /\ x.generation <= r.generation[x.task]
                      /\ \A y \in r.queues[c] :
                           /\ x.task = y.task /\ x.generation = y.generation
                           /\ x.generation = r.generation[x.task]
                           => x = y
    BY DEF Generations
  <2>1. x.task \in Task /\ x.generation \in Nat
    BY <1>4 DEF Entry
  <2>2. r.generation[x.task] \in Nat /\ s.generation[x.task] \in Nat
    BY <2>1, <1>1, <1>3, ObjectFields
  <2>3. CASE x \in s.queues[c]
    <3>1. x.generation <= s.generation[x.task]
      BY <1>1, <2>3 DEF Generations
    <3>2. ASSUME NEW y \in r.queues[c], x.task = y.task, x.generation = y.generation,
                 x.generation = r.generation[x.task]
          PROVE  x = y
      <4>1. x.task \notin tasks
        BY <1>3, <2>1, <2>2, <3>1, <3>2
      <4>2. y \in s.queues[c]
        BY <1>3, <3>2, <4>1
      <4> QED
        <5>1. x.generation = s.generation[x.task]
          BY <1>3, <2>1, <3>2, <4>1
        <5> QED
          BY <1>1, <2>3, <3>2, <4>2, <5>1 DEF Generations
    <3> QED
      BY <3>1, <3>2, <1>3, <2>1, <2>2
  <2>4. CASE x \notin s.queues[c]
    <3>1. x.task \in tasks /\ s.effective[x.task] = c /\ x.generation = r.generation[x.task]
      BY <1>3, <2>4
    <3>2. ASSUME NEW y \in r.queues[c], x.task = y.task, x.generation = y.generation
          PROVE  x = y
      <4>1. y \notin s.queues[c]
        BY <1>1, <1>3, <2>1, <2>2, <3>1, <3>2 DEF Generations
      <4> QED
        BY <1>3, <2>4, <3>1, <3>2, <4>1
    <3> QED
      BY <3>1, <3>2, <2>2
  <2> QED
    BY <2>3, <2>4
<1>6. \A t : Key(r, t) = Key(s, t)
  BY <1>3 DEF Key
<1>7. ASSUME NEW t \in Task, r.state[t] = "queued" PROVE Present(r, t)
  <2>1. r.effective[t] \in PriorityClass
    BY <1>3, ObjectFields
  <2>2. CASE t \in tasks
    BY <1>3, <1>6, <2>1, <2>2 DEF Present
  <2>3. CASE t \notin tasks
    <3>1. Present(s, t)
      BY <1>3, <1>7, <2>3 DEF SoundBut
    <3> QED
      BY <3>1, <1>3, <1>6, <2>1, <2>3 DEF Present
  <2> QED
    BY <2>2, <2>3
<1> QED
  BY <1>3, <1>5, <1>7 DEF Sound, SoundBut, r

\* Fields of a task may change while its entries stay, if the task is pushed
\* afterwards or no longer queued.
Edited(s, tasks, r, others) ==
    /\ r \in Object
    /\ r.generation = s.generation /\ r.queues = s.queues
    /\ \A t \in Task \ others : r.state[t] = "queued" =>
          /\ t \notin tasks /\ s.state[t] = "queued"
          /\ r.effective[t] = s.effective[t] /\ Key(r, t) = Key(s, t)

LEMMA EditSound ==
    ASSUME NEW s, NEW tasks, NEW r, NEW others,
           SoundBut(s, tasks), Edited(s, tasks, r, others)
    PROVE  SoundBut(r, others)
<1>1. Generations(r)
  BY DEF SoundBut, Generations, Edited
<1>2. ASSUME NEW t \in Task \ others, r.state[t] = "queued" PROVE Present(r, t)
  <2>1. Present(s, t)
    BY <1>2 DEF SoundBut, Edited
  <2> QED
    BY <1>2, <2>1 DEF Present, Edited
<1> QED
  BY <1>1, <1>2 DEF SoundBut, Edited

-----------------------------------------------------------------------------
(* The methods *)

\* What escalate promotes, and the object before it pushes the promoted tasks.
Raised(s) == {t \in Task : s.state[t] = "queued" /\ Target(s, t) # s.effective[t]}
Raise(s) ==
    [s EXCEPT !.effective = [t \in Task |-> IF t \in Raised(s) THEN Target(s, t) ELSE @[t]],
              !.decision = [t \in Task |->
                  IF t \in Raised(s) THEN [@[t] EXCEPT !.at = now] ELSE @[t]]]

LEMMA RaiseEffect ==
    ASSUME NEW s, Sound(s), now \in Nat
    PROVE  LET r == Raise(s) IN
           /\ Escalate(s) = PushAll(r, Raised(s))
           /\ SoundBut(r, Raised(s))
           /\ r.state = s.state /\ r.contract = s.contract /\ r.order = s.order
           /\ r.generation = s.generation /\ r.queues = s.queues /\ r.sequence = s.sequence
           /\ \A t \in Task :
                /\ r.effective[t] = IF t \in Raised(s) THEN Target(s, t) ELSE s.effective[t]
                /\ r.decision[t] = IF t \in Raised(s) THEN [s.decision[t] EXCEPT !.at = now]
                                   ELSE s.decision[t]
<1> DEFINE raised == [t \in Task |-> IF t \in Raised(s) THEN Target(s, t) ELSE s.effective[t]]
           ready == [t \in Task |-> IF t \in Raised(s) THEN [s.decision[t] EXCEPT !.at = now]
                                    ELSE s.decision[t]]
           r == [s EXCEPT !.effective = raised, !.decision = ready]
<1>1. s \in Object /\ now \in Int
  BY DEF Sound, SoundBut
<1>2. raised \in [Task -> PriorityClass]
  <2>1. \A t \in Task : Target(s, t) \in PriorityClass
    BY <1>1, ObjectFields DEF Target, PriorityClass
  <2> QED
    BY <1>1, <2>1, ObjectFields
<1>3. ready \in [Task -> DecisionRecord]
  <2>1. \A t \in Task : [s.decision[t] EXCEPT !.at = now] \in DecisionRecord
    <3> SUFFICES ASSUME NEW t \in Task PROVE [s.decision[t] EXCEPT !.at = now] \in DecisionRecord
      OBVIOUS
    <3>1. s.decision[t] \in DecisionRecord
      BY <1>1, ObjectFields
    <3> QED
      BY <1>1, <3>1 DEF DecisionRecord
  <2> QED
    BY <1>1, <2>1, ObjectFields
<1>4. \A t \in Task :
         /\ raised[t] = IF t \in Raised(s) THEN Target(s, t) ELSE s.effective[t]
         /\ ready[t] = IF t \in Raised(s) THEN [s.decision[t] EXCEPT !.at = now]
                       ELSE s.decision[t]
  OBVIOUS
<1>5. Raise(s) = r
  BY DEF Raise
<1>6. Escalate(s) = PushAll(Raise(s), Raised(s))
  BY DEF Escalate, Raise, Raised
<1> HIDE DEF raised, ready
<1>7. /\ r \in Object /\ r.state = s.state /\ r.contract = s.contract /\ r.order = s.order
      /\ r.generation = s.generation /\ r.queues = s.queues /\ r.sequence = s.sequence
      /\ r.effective = raised /\ r.decision = ready
  BY <1>1, <1>2, <1>3 DEF Object
<1> HIDE DEF r
<1>8. SoundBut(r, Raised(s))
  <2>1. Edited(s, {}, r, Raised(s))
    BY <1>4, <1>7 DEF Edited, Key
  <2> QED
    BY <2>1, EditSound DEF Sound
<1> QED
  BY <1>4, <1>5, <1>6, <1>7, <1>8

LEMMA EscalateSound ==
    ASSUME NEW s, Sound(s), now \in Nat
    PROVE  /\ Sound(Escalate(s))
           /\ Escalate(s).state = s.state /\ Escalate(s).contract = s.contract
<1>1. Raised(s) \in SUBSET Task
  BY DEF Raised
<1>2. Raise(s) \in Object
  BY RaiseEffect DEF SoundBut
<1>3. PushedTo(Raise(s), Raised(s), Escalate(s))
  BY <1>1, <1>2, RaiseEffect, PushAllEffect
<1> QED
  BY <1>1, <1>3, RaiseEffect, PushAllSound DEF PushedTo

\* Popping a ready entry costs its own task its entry and no other.
LEMMA PoppedSound ==
    ASSUME NEW s, Sound(s), NEW c \in PriorityClass, NEW e, IsFirst(e, ReadyEntries(s, c))
    PROVE  /\ e.task \in Task /\ s.state[e.task] = "queued"
           /\ SoundBut(Popped(s, c, e), {e.task})
           /\ Popped(s, c, e).state = s.state
           /\ Popped(s, c, e).contract = s.contract
           /\ Popped(s, c, e).decision = s.decision
           /\ Popped(s, c, e).effective = s.effective
           /\ Popped(s, c, e).order = s.order
           /\ Popped(s, c, e).generation = s.generation
<1> DEFINE kept == {x \in s.queues[c] \ {e} : Before(e, x) \/ ValidEntry(s, c, x)}
           r == [s EXCEPT !.queues[c] = kept]
<1>1. s \in Object /\ Generations(s) /\ s.queues \in [PriorityClass -> SUBSET Entry]
  BY ObjectFields DEF Sound, SoundBut
<1>2. e \in s.queues[c] /\ ValidEntry(s, c, e)
  BY DEF IsFirst, ReadyEntries
<1>3. e.task \in Task /\ s.state[e.task] = "queued"
  BY <1>1, <1>2 DEF Entry, ValidEntry
<1>4. Popped(s, c, e) = r
  BY DEF Popped
<1>5. kept \subseteq s.queues[c]
  OBVIOUS
<1>6. \A x \in s.queues[c] : x # e /\ ValidEntry(s, c, x) => x \in kept
  OBVIOUS
<1> HIDE DEF kept
<1>7. /\ r.state = s.state /\ r.contract = s.contract /\ r.decision = s.decision
      /\ r.effective = s.effective /\ r.order = s.order /\ r.generation = s.generation
      /\ r.queues = [s.queues EXCEPT ![c] = kept] /\ r.sequence = s.sequence /\ r \in Object
  <2>1. [s.queues EXCEPT ![c] = kept] \in [PriorityClass -> SUBSET Entry]
    BY <1>1, <1>5
  <2> QED
    BY <1>1, <2>1 DEF Object
<1> HIDE DEF r
<1>8. \A d \in PriorityClass : r.queues[d] \subseteq s.queues[d]
  BY <1>1, <1>5, <1>7
<1>9. Generations(r)
  BY <1>1, <1>7, <1>8 DEF Generations
<1>10. ASSUME NEW t \in Task \ {e.task}, r.state[t] = "queued" PROVE Present(r, t)
  <2>1. PICK x \in s.queues[s.effective[t]] :
           x.task = t /\ x.generation = s.generation[t] /\ x.key = Key(s, t)
    BY <1>7, <1>10 DEF Sound, SoundBut, Present
  <2>2. Key(r, t) = Key(s, t) /\ s.effective[t] \in PriorityClass
    BY <1>1, <1>7, ObjectFields DEF Key
  <2>3. CASE s.effective[t] = c
    <3>1. x # e /\ ValidEntry(s, c, x)
      BY <1>7, <1>10, <2>1, <2>3 DEF ValidEntry
    <3> QED
      BY <1>1, <1>6, <1>7, <2>1, <2>2, <2>3, <3>1 DEF Present
  <2>4. CASE s.effective[t] # c
    BY <1>1, <1>7, <2>1, <2>2, <2>4 DEF Present
  <2> QED
    BY <2>3, <2>4
<1> QED
  BY <1>3, <1>4, <1>7, <1>9, <1>10 DEF SoundBut

\* update_decision of a queued task, which may have been left to be pushed.
LEMMA UpdateDecisionSound ==
    ASSUME NEW s, NEW t \in Task, SoundBut(s, {t}), NEW plan \in DecisionRecord
    PROVE  Sound(UpdateDecision(s, t, plan))
<1> DEFINE r == [s EXCEPT !.decision[t] = plan, !.effective[t] = plan.class]
<1>1. s \in Object /\ s.decision \in [Task -> DecisionRecord]
         /\ s.effective \in [Task -> PriorityClass] /\ plan.class \in PriorityClass
  BY ObjectFields DEF SoundBut, DecisionRecord
<1>2. /\ r \in Object /\ r.state = s.state /\ r.contract = s.contract /\ r.order = s.order
      /\ r.generation = s.generation /\ r.queues = s.queues
      /\ r.effective = [s.effective EXCEPT ![t] = plan.class]
  BY <1>1 DEF Object
<1>3. UpdateDecision(s, t, plan) = PushAll(r, {t})
  BY DEF UpdateDecision, Push
<1> HIDE DEF r
<1>4. \A u \in Task \ {t} : r.effective[u] = s.effective[u] /\ Key(r, u) = Key(s, u)
  BY <1>1, <1>2 DEF Key
<1>5. SoundBut(r, {t})
  <2>1. Edited(s, {t}, r, {t})
    BY <1>2, <1>4 DEF Edited
  <2> QED
    BY <2>1, EditSound
<1> QED
  BY <1>3, <1>5, PushAllSound

LEMMA ReplanSound ==
    ASSUME NEW s, NEW t \in Task, SoundBut(s, {t}), now \in Nat, s.state[t] = "queued"
    PROVE  Sound(Replan(s, t))
<1>1. s \in Object /\ s.contract[t] \in TaskContract
  BY ObjectFields DEF SoundBut
<1> DEFINE plan == Decide(Mode, s.contract[t], Fleet(s, TRUE))
<1>2. plan \in DecisionRecord
  BY <1>1, PlanType
<1>3. Replan(s, t) = UpdateDecision(s, t, plan)
  BY DEF Replan
<1> HIDE DEF plan
<1> QED
  BY <1>2, <1>3, UpdateDecisionSound

-----------------------------------------------------------------------------
(* The actions *)

LEMMA InitHInv == Init => HInv
<1> SUFFICES ASSUME Init PROVE HInv
  OBVIOUS
<1> DEFINE idle == [now |-> 0, inFlight |-> 0, capacity |-> Capacity, lowLoad |-> {}]
           plan(contract) == [t \in Task |-> Decide(Mode, contract[t], idle)]
           empty(contract) ==
              [state |-> [t \in Task |-> "new"], contract |-> contract,
               decision |-> plan(contract),
               effective |-> [t \in Task |-> plan(contract)[t].class],
               order |-> [t \in Task |-> None], generation |-> [t \in Task |-> 0],
               sequence |-> 0, queues |-> [c \in PriorityClass |-> {}]]
<1>1. PICK contract \in [Task -> Contracts] : self = empty(contract)
  BY DEF Init
<1>2. idle \in FleetState
  BY HeapAssumption DEF FleetState
<1>3. contract \in [Task -> TaskContract]
  BY HeapAssumption
<1> HIDE DEF idle
<1>4. plan(contract) \in [Task -> DecisionRecord]
  BY <1>2, <1>3, DecideType, HeapAssumption
<1>5. \A t \in Task : plan(contract)[t].class \in PriorityClass
  BY <1>4 DEF DecisionRecord
<1>6. /\ self.state = [t \in Task |-> "new"] /\ self.queues = [c \in PriorityClass |-> {}]
      /\ self \in Object
  BY <1>1, <1>3, <1>4, <1>5 DEF Object, TaskState, None
<1>7. Sound(self)
  BY <1>6 DEF Sound, SoundBut, Generations
<1> QED
  BY <1>7 DEF Init, HInv

LEMMA SubmitSound ==
    ASSUME HInv, NEW t \in Task, Submit(t)
    PROVE  HInv'
<1> DEFINE plan == Decide(Mode, self.contract[t], Fleet(self, TRUE))
           planned == [self EXCEPT !.decision[t] = plan, !.effective[t] = plan.class]
           numbered == [planned EXCEPT !.order[t] = self.sequence,
                                       !.sequence = planned.sequence + 1, !.state[t] = "queued"]
           refused == [planned EXCEPT !.state[t] = "rejected"]
<1>1. Sound(self) /\ self \in Object /\ now \in Nat /\ self.contract[t] \in TaskContract
  BY ObjectFields DEF HInv, Sound, SoundBut
<1>2. plan \in DecisionRecord
  BY <1>1, PlanType
<1>3. self' \in {Push(numbered, t), refused} /\ trying' = <<>> /\ now' = now
  BY DEF Submit, Return, Continue
<1> HIDE DEF plan
<1>4. plan.class \in PriorityClass
  BY <1>2 DEF DecisionRecord
<1>5. /\ planned \in Object /\ planned.state = self.state /\ planned.order = self.order
      /\ planned.contract = self.contract /\ planned.sequence = self.sequence
      /\ planned.generation = self.generation /\ planned.queues = self.queues
      /\ planned.effective = [self.effective EXCEPT ![t] = plan.class]
  BY <1>1, <1>2, <1>4 DEF Object
<1> HIDE DEF planned
<1>6. \A u \in Task \ {t} : planned.effective[u] = self.effective[u]
  BY <1>1, <1>5, ObjectFields
<1>7. Sound(refused)
  <2>1. /\ refused \in Object /\ refused.state = [planned.state EXCEPT ![t] = "rejected"]
        /\ refused.order = planned.order /\ refused.contract = planned.contract
        /\ refused.generation = planned.generation /\ refused.queues = planned.queues
        /\ refused.effective = planned.effective
    BY <1>5 DEF Object, TaskState
  <2> HIDE DEF refused
  <2>2. \A u \in Task : refused.state[u] = "queued" =>
           /\ u # t /\ self.state[u] = "queued" /\ refused.effective[u] = self.effective[u]
           /\ Key(refused, u) = Key(self, u)
    BY <1>1, <1>5, <1>6, <2>1, ObjectFields DEF Key
  <2>3. Edited(self, {}, refused, {})
    BY <1>5, <2>1, <2>2 DEF Edited
  <2> QED
    BY <1>1, <2>3, EditSound DEF Sound
<1>8. SoundBut(numbered, {t})
  <2>1. /\ numbered \in Object /\ numbered.state = [planned.state EXCEPT ![t] = "queued"]
        /\ numbered.order = [planned.order EXCEPT ![t] = self.sequence]
        /\ numbered.contract = planned.contract
        /\ numbered.generation = planned.generation /\ numbered.queues = planned.queues
        /\ numbered.effective = planned.effective
    <3>1. self.sequence \in Nat /\ planned.state \in [Task -> TaskState]
             /\ planned.order \in [Task -> Int]
      BY <1>1, <1>5, ObjectFields
    <3>2. [planned.order EXCEPT ![t] = self.sequence] \in [Task -> Int]
      BY <3>1
    <3>3. [planned.state EXCEPT ![t] = "queued"] \in [Task -> TaskState]
      BY <3>1 DEF TaskState
    <3> DEFINE ordered == [planned.order EXCEPT ![t] = self.sequence]
               queued == [planned.state EXCEPT ![t] = "queued"]
               next == planned.sequence + 1
    <3>4. numbered = [planned EXCEPT !.order = ordered, !.sequence = next, !.state = queued]
      OBVIOUS
    <3>5. ordered \in [Task -> Int] /\ queued \in [Task -> TaskState] /\ next \in Nat
      BY <1>5, <3>1, <3>2, <3>3
    <3> HIDE DEF numbered, ordered, queued, next
    <3>6. /\ numbered \in Object /\ numbered.state = queued /\ numbered.order = ordered
          /\ numbered.contract = planned.contract
          /\ numbered.generation = planned.generation /\ numbered.queues = planned.queues
          /\ numbered.effective = planned.effective
      BY <1>5, <3>4, <3>5 DEF Object
    <3> QED
      BY <3>6 DEF ordered, queued
  <2> HIDE DEF numbered
  <2>2. \A u \in Task \ {t} : numbered.state[u] = "queued" =>
           /\ self.state[u] = "queued" /\ numbered.effective[u] = self.effective[u]
           /\ Key(numbered, u) = Key(self, u)
    BY <1>1, <1>5, <1>6, <2>1, ObjectFields DEF Key
  <2>3. Edited(self, {}, numbered, {t})
    BY <1>5, <2>1, <2>2 DEF Edited
  <2> QED
    BY <1>1, <2>3, EditSound DEF Sound
<1>9. Sound(Push(numbered, t))
  BY <1>8, PushAllSound DEF Push
<1> QED
  BY <1>1, <1>3, <1>7, <1>9 DEF HInv

LEMMA NextTaskSound == HInv /\ NextTask => HInv'
<1> SUFFICES ASSUME HInv, NextTask PROVE HInv'
  OBVIOUS
<1>1. self' \in {self, Escalate(self)} /\ trying' = PRIORITY_ORDER /\ now' = now
  BY DEF NextTask, Continue
<1>2. PRIORITY_ORDER \in Seq(PriorityClass)
  BY DEF PRIORITY_ORDER, PriorityClass
<1> QED
  BY <1>1, <1>2, EscalateSound DEF HInv

LEMMA PassOverSound == HInv /\ PassOver => HInv'
BY DEF HInv, PassOver, Continue

LEMMA TrySound ==
    ASSUME HInv, trying # <<>>, NEW e, Try(e)
    PROVE  HInv'
<1> DEFINE c == Head(trying)
           t == e.task
           popped == Popped(self, c, e)
           plan == Redecision(self, t)
           ended(state) == [[popped EXCEPT !.decision[t] = plan] EXCEPT !.state[t] = state]
<1>1. c \in PriorityClass /\ Tail(trying) \in Seq(PriorityClass)
  BY DEF HInv
<1>2. Sound(self) /\ self \in Object /\ now \in Nat
  BY DEF HInv, Sound, SoundBut
<1>3. IsFirst(e, ReadyEntries(self, c))
  BY DEF Try
<1>4. /\ t \in Task /\ SoundBut(popped, {t}) /\ popped \in Object
      /\ popped.state = self.state /\ popped.contract = self.contract
      /\ popped.effective = self.effective /\ popped.order = self.order
  BY <1>1, <1>2, <1>3, PoppedSound DEF SoundBut
<1>5. plan \in DecisionRecord
  BY <1>2, <1>4, RedecisionType
<1>6. /\ self' \in {ended("rejected"), ended("in-flight"), Blocked(self, popped, t)}
      /\ trying' \in {trying, <<>>, Tail(trying)} /\ now' = now
  BY DEF Try, Continue
<1>7. Sound(Blocked(self, popped, t))
  BY <1>4, PushAllSound DEF Blocked, Push
<1> HIDE DEF popped, t, plan, c
<1>8. ASSUME NEW end \in {"rejected", "in-flight"} PROVE Sound(ended(end))
  <2> DEFINE r == ended(end)
  <2>1. /\ r \in Object /\ r.state = [popped.state EXCEPT ![t] = end]
        /\ r.contract = popped.contract /\ r.order = popped.order
        /\ r.generation = popped.generation /\ r.queues = popped.queues
        /\ r.effective = popped.effective
    BY <1>4, <1>5 DEF Object, TaskState
  <2> HIDE DEF r
  <2>2. \A u \in Task : r.state[u] = "queued" =>
           /\ u # t /\ popped.state[u] = "queued" /\ r.effective[u] = popped.effective[u]
           /\ Key(r, u) = Key(popped, u)
    BY <1>4, <2>1, ObjectFields DEF Key
  <2>3. Edited(popped, {t}, r, {})
    BY <2>1, <2>2 DEF Edited
  <2>4. Sound(r)
    BY <1>4, <2>3, EditSound DEF Sound
  <2> QED
    BY <2>4 DEF r
<1> HIDE DEF ended
<1>9. Sound(self')
  BY <1>6, <1>7, <1>8
<1>10. trying' \in Seq(PriorityClass)
  <2>1. <<>> \in Seq(PriorityClass)
    OBVIOUS
  <2> QED
    BY <1>1, <1>6, <2>1 DEF HInv
<1> QED
  BY <1>2, <1>6, <1>9, <1>10 DEF HInv

\* The end of a task and its cancellation leave a stale entry at most.
LEMMA EndSound ==
    ASSUME HInv, NEW t \in Task, NEW end \in TaskState \ {"queued"},
           Return([self EXCEPT !.state[t] = end])
    PROVE  HInv'
<1> DEFINE r == [self EXCEPT !.state[t] = end]
<1>1. Sound(self) /\ self \in Object
  BY DEF HInv, Sound, SoundBut
<1>2. /\ r \in Object /\ r.state = [self.state EXCEPT ![t] = end]
      /\ r.contract = self.contract /\ r.order = self.order
      /\ r.generation = self.generation /\ r.queues = self.queues
      /\ r.effective = self.effective
  BY <1>1 DEF Object
<1>3. self' = r /\ trying' = <<>> /\ now' = now
  BY DEF Return, Continue
<1> HIDE DEF r
<1>4. \A u \in Task : r.state[u] = "queued" =>
         /\ self.state[u] = "queued" /\ r.effective[u] = self.effective[u]
         /\ Key(r, u) = Key(self, u)
  BY <1>1, <1>2, ObjectFields DEF Key
<1>5. Sound(r)
  <2>1. Edited(self, {}, r, {})
    BY <1>2, <1>4 DEF Edited
  <2> QED
    BY <1>1, <2>1, EditSound DEF Sound
<1> QED
  BY <1>3, <1>5 DEF HInv

\* A contract that changes leaves the other tasks' keys alone.
LEMMA ReviseSound ==
    ASSUME NEW s, Sound(s), NEW t \in Task, NEW c \in TaskContract
    PROVE  /\ SoundBut([s EXCEPT !.contract[t] = c], {t})
           /\ [s EXCEPT !.contract[t] = c].state = s.state
           /\ [s EXCEPT !.contract[t] = c].effective = s.effective
<1> DEFINE r == [s EXCEPT !.contract[t] = c]
<1>1. s \in Object
  BY DEF Sound, SoundBut
<1>2. /\ r \in Object /\ r.state = s.state /\ r.contract = [s.contract EXCEPT ![t] = c]
      /\ r.order = s.order /\ r.generation = s.generation /\ r.queues = s.queues
      /\ r.effective = s.effective
  BY <1>1 DEF Object
<1> HIDE DEF r
<1>3. \A u \in Task \ {t} : Key(r, u) = Key(s, u)
  BY <1>1, <1>2, ObjectFields DEF Key
<1>4. SoundBut(r, {t})
  <2>1. Edited(s, {}, r, {t})
    BY <1>2, <1>3 DEF Edited
  <2> QED
    BY <2>1, EditSound DEF Sound
<1> QED
  BY <1>2, <1>4 DEF r

LEMMA NudgeSound ==
    ASSUME HInv, NEW t \in Task, Nudge(t)
    PROVE  HInv'
<1> DEFINE revealed == [self EXCEPT !.contract[t].interactive = TRUE]
           relabelled == [revealed EXCEPT !.effective[t] = INTERACTIVE]
<1>1. Sound(self) /\ self \in Object /\ now \in Nat /\ self.contract[t] \in TaskContract
  BY ObjectFields DEF HInv, Sound, SoundBut
<1>2. revealed = [self EXCEPT !.contract[t] = [self.contract[t] EXCEPT !.interactive = TRUE]]
  OBVIOUS
<1>3. [self.contract[t] EXCEPT !.interactive = TRUE] \in TaskContract
  BY <1>1 DEF TaskContract
<1>4. SoundBut(revealed, {t}) /\ revealed.state = self.state
  BY <1>1, <1>2, <1>3, ReviseSound
<1>5. /\ self' = IF self.state[t] = "queued" THEN Replan(revealed, t) ELSE relabelled
      /\ self.state[t] \in {"queued", "in-flight"} /\ trying' = <<>> /\ now' = now
  BY DEF Nudge, Return, Continue
<1> HIDE DEF revealed
<1>6. CASE self.state[t] = "queued"
  BY <1>1, <1>4, <1>5, <1>6, ReplanSound DEF HInv
<1>7. CASE self.state[t] = "in-flight"
  <2>1. revealed \in Object /\ INTERACTIVE \in PriorityClass
    BY <1>4 DEF SoundBut, PriorityClass
  <2>2. /\ relabelled \in Object /\ relabelled.state = revealed.state
        /\ relabelled.contract = revealed.contract /\ relabelled.order = revealed.order
        /\ relabelled.generation = revealed.generation
        /\ relabelled.queues = revealed.queues
        /\ relabelled.effective = [revealed.effective EXCEPT ![t] = INTERACTIVE]
    BY <2>1 DEF Object
  <2> HIDE DEF relabelled
  <2>3. Edited(revealed, {t}, relabelled, {})
    BY <1>4, <1>7, <2>1, <2>2, ObjectFields DEF Edited, Key
  <2>4. Sound(relabelled)
    BY <1>4, <2>3, EditSound DEF Sound
  <2> QED
    BY <1>1, <1>5, <1>7, <2>4 DEF HInv
<1> QED
  BY <1>5, <1>6, <1>7

LEMMA UpdateDeadlineSound ==
    ASSUME HInv, NEW t \in Task, NEW d \in Deadlines, UpdateDeadline(t, d)
    PROVE  HInv'
<1> DEFINE revised == [self EXCEPT !.contract[t].deadline = d]
<1>1. Sound(self) /\ self \in Object /\ now \in Nat /\ self.contract[t] \in TaskContract
  BY ObjectFields DEF HInv, Sound, SoundBut
<1>2. revised = [self EXCEPT !.contract[t] = [self.contract[t] EXCEPT !.deadline = d]]
  OBVIOUS
<1>3. [self.contract[t] EXCEPT !.deadline = d] \in TaskContract
  BY <1>1, HeapAssumption DEF TaskContract
<1>4. SoundBut(revised, {t}) /\ revised.state = self.state
  BY <1>1, <1>2, <1>3, ReviseSound
<1>5. /\ self' = IF self.state[t] = "queued" THEN Replan(Escalate(Push(revised, t)), t)
                 ELSE revised
      /\ self.state[t] \in {"queued", "in-flight"} /\ trying' = <<>> /\ now' = now
  BY DEF UpdateDeadline, Return, Continue
<1> HIDE DEF revised
<1>6. CASE self.state[t] = "queued"
  <2> DEFINE pushed == Push(revised, t)
  <2>1. Sound(pushed)
    BY <1>4, PushAllSound DEF Push
  <2>2. pushed.state = self.state
    BY <1>4, PushAllEffect DEF Push, SoundBut, PushedTo
  <2> HIDE DEF pushed
  <2>3. Sound(Escalate(pushed)) /\ Escalate(pushed).state = self.state
    BY <1>1, <2>1, <2>2, EscalateSound
  <2>4. SoundBut(Escalate(pushed), {t})
    BY <2>3 DEF Sound, SoundBut
  <2>5. Sound(Replan(Escalate(pushed), t))
    BY <1>1, <1>6, <2>3, <2>4, ReplanSound
  <2> QED
    BY <1>1, <1>5, <1>6, <2>5 DEF HInv, pushed
<1>7. CASE self.state[t] = "in-flight"
  <2>1. Edited(revised, {t}, revised, {})
    BY <1>4, <1>7 DEF Edited, SoundBut
  <2>2. Sound(revised)
    BY <1>4, <2>1, EditSound DEF Sound
  <2> QED
    BY <1>1, <1>5, <1>7, <2>2 DEF HInv
<1> QED
  BY <1>5, <1>6, <1>7

LEMMA NextHInv == HInv /\ [Next]_vars => HInv'
<1> SUFFICES ASSUME HInv, [Next]_vars PROVE HInv'
  OBVIOUS
<1>1. CASE NextTask
  BY <1>1, NextTaskSound
<1>2. CASE PassOver
  BY <1>2, PassOverSound
<1>3. CASE trying # <<>> /\ \E e \in self.queues[Head(trying)] : Try(e)
  BY <1>3, TrySound
<1>4. CASE Elapse
  BY <1>4 DEF Elapse, HInv
<1>5. ASSUME NEW t \in Task, Submit(t) PROVE HInv'
  BY <1>5, SubmitSound
<1>6. ASSUME NEW t \in Task, Finish(t) PROVE HInv'
  <2>1. PICK outcome \in {"completed", "failed"} : Return([self EXCEPT !.state[t] = outcome])
    BY <1>6 DEF Finish
  <2>2. outcome \in TaskState \ {"queued"}
    BY DEF TaskState
  <2> QED
    BY <2>1, <2>2, EndSound
<1>7. ASSUME NEW t \in Task, Cancel(t) PROVE HInv'
  <2>1. Return([self EXCEPT !.state[t] = "cancelled"])
    BY <1>7 DEF Cancel
  <2>2. "cancelled" \in TaskState \ {"queued"}
    BY DEF TaskState
  <2> QED
    BY <2>1, <2>2, EndSound
<1>8. ASSUME NEW t \in Task, Nudge(t) PROVE HInv'
  BY <1>8, NudgeSound
<1>9. ASSUME NEW t \in Task, NEW d \in Deadlines, UpdateDeadline(t, d) PROVE HInv'
  BY <1>9, UpdateDeadlineSound
<1>10. CASE UNCHANGED vars
  BY <1>10 DEF vars, HInv
<1> QED
  BY <1>1, <1>2, <1>3, <1>4, <1>5, <1>6, <1>7, <1>8, <1>9, <1>10 DEF Next

LEMMA HInvHolds == Spec => []HInv
BY InitHInv, NextHInv, PTL DEF Spec

-----------------------------------------------------------------------------
(* One live entry *)

LEMMA OneLive == HInv => OneLiveEntry
<1> SUFFICES ASSUME HInv, NEW t \in Task
             PROVE  /\ Cardinality(LiveEntries(self, t)) =
                          IF self.state[t] = "queued" THEN 1 ELSE 0
                    /\ \A e \in LiveEntries(self, t) : e.key = Key(self, t)
  BY DEF OneLiveEntry
<1>1. /\ self \in Object /\ Generations(self) /\ self.effective[t] \in PriorityClass
      /\ self.state[t] = "queued" => Present(self, t)
  BY ObjectFields DEF HInv, Sound, SoundBut
<1>2. CASE self.state[t] = "queued"
  <2>1. PICK e \in self.queues[self.effective[t]] :
           e.task = t /\ e.generation = self.generation[t] /\ e.key = Key(self, t)
    BY <1>1, <1>2 DEF Present
  <2>2. e \in LiveEntries(self, t)
    BY <1>2, <2>1 DEF LiveEntries, ValidEntry
  <2>3. \A x \in LiveEntries(self, t) : x = e
    BY <1>1, <2>1 DEF LiveEntries, ValidEntry, Generations
  <2>4. LiveEntries(self, t) = {e}
    BY <2>2, <2>3
  <2>5. Cardinality({e}) = 1
    BY FS_Singleton
  <2> QED
    BY <1>2, <2>1, <2>4, <2>5
<1>3. CASE self.state[t] # "queued"
  <2>1. LiveEntries(self, t) = {}
    BY <1>3 DEF LiveEntries, ValidEntry
  <2>2. Cardinality({}) = 0
    BY FS_EmptySet
  <2> QED
    BY <1>3, <2>1, <2>2
<1> QED
  BY <1>2, <1>3

\* For any tasks, contracts and thresholds, and at every pass of next_task's
\* loop, each queued task has one entry that can be found, under its key.
THEOREM EntryTheorem == Spec => []OneLiveEntry
BY HInvHolds, OneLive, PTL
=============================================================================
