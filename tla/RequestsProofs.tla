--------------------------- MODULE RequestsProofs ---------------------------
(***************************************************************************)
(* The calls executions have with the provider fit the slots the scheduler *)
(* holds for them, for every number of requests and slots: a coroutine     *)
(* awaits all its calls in flight, and awaits more than one only for the   *)
(* drafts, of which it makes as many as its task holds slots.  And what a  *)
(* record holds is right: its output is the answer to a call of its own,   *)
(* its accounting counts its own answers once each, and its fallbacks are  *)
(* the roles whose second model answered.                                  *)
(***************************************************************************)
EXTENDS Requests, FiniteSetTheorems, TLAPS

\* Where the coroutine of r stands, whatever it has been through.
Standing(r) ==
    /\ \A c \in Call : call[r][c] = "flying" => c \in awaiting[r]
    /\ \A c \in awaiting[r] :
          IF c[1] = INTENT THEN status[r] = "new"
          ELSE status[r] = "in-flight" /\ call[r][Primary(TASK)] # "none"
    /\ \/ awaiting[r] = {}
       \/ \E c \in Call : awaiting[r] = {c}
       \/ awaiting[r] = {TASK} \X (1 .. held[r])
    /\ status[r] = "in-flight" => held[r] >= 1

RInv ==
    /\ TypeOK
    /\ \A r \in Request : Standing(r)
    /\ S!Held(held) <= Capacity

-----------------------------------------------------------------------------
(* Finite sets *)

LEMMA IntervalFinite == \A a, b \in Int : IsFiniteSet(a .. b)
BY FS_Interval

LEMMA CallFacts ==
    /\ \A role \in Role : Primary(role) \in Call /\ Fallback(role) \in Call
    /\ \A c \in Call : c[1] \in Role /\ c[2] \in Nat /\ c = <<c[1], c[2]>>
    /\ \A n \in 0 .. Capacity : {TASK} \X (1 .. n) \subseteq Call
    /\ IsFiniteSet(Call)
<1>1. \A role \in Role : Primary(role) \in Call /\ Fallback(role) \in Call
  BY DEF Call, Role, Primary, Fallback
<1>2. \A c \in Call : c[1] \in Role /\ c[2] \in Nat /\ c = <<c[1], c[2]>>
  BY RequestAssumption DEF Call, Role
<1>3. \A n \in 0 .. Capacity : {TASK} \X (1 .. n) \subseteq Call
  BY RequestAssumption DEF Call
<1>4. IsFiniteSet(Call)
  <2>1. IsFiniteSet({1, 2}) /\ IsFiniteSet({TASK}) /\ IsFiniteSet(Structured)
    <3>1. \A a, b : IsFiniteSet({a}) /\ IsFiniteSet({a} \cup {b})
      BY FS_Singleton, FS_Union
    <3>2. \A a, b, c : IsFiniteSet({a} \cup {b} \cup {c})
      BY <3>1, FS_Singleton, FS_Union
    <3>3. {1, 2} = {1} \cup {2} /\ Structured = {INTENT} \cup {SELECTION} \cup {QUALITY}
      BY DEF Structured
    <3> QED
      BY <3>1, <3>2, <3>3, Zenon
  <2>2. IsFiniteSet(1 .. Capacity)
    <3>1. 1 \in Int /\ Capacity \in Int
      BY RequestAssumption
    <3> QED
      BY <3>1, IntervalFinite, Zenon
  <2>3. IsFiniteSet({1, 2} \cup 1 .. Capacity)
    BY <2>1, <2>2, FS_Union
  <2>4. /\ IsFiniteSet(Structured \X {1, 2})
        /\ IsFiniteSet({TASK} \X ({1, 2} \cup 1 .. Capacity))
    BY <2>1, <2>3, FS_Product
  <2> QED
    BY <2>4, FS_Union DEF Call
<1> QED
  BY <1>1, <1>2, <1>3, <1>4

\* A tally of finitely many calls is a tally.
LEMMA ExtendType ==
    ASSUME NEW tally \in Tally, NEW made, IsFiniteSet(made)
    PROVE  Extend(tally, made) \in Tally
<1>1. ASSUME NEW role \in Role
      PROVE  Cardinality({c \in made : c[1] = role}) \in Nat
  <2>1. IsFiniteSet({c \in made : c[1] = role})
    <3>1. {c \in made : c[1] = role} \subseteq made
      OBVIOUS
    <3> QED
      BY <3>1, FS_Subset
  <2> QED
    BY <2>1, FS_CardinalityType
<1> QED
  BY <1>1 DEF Extend, Tally

LEMMA AccountType ==
    /\ \A tally \in Tally : Account(tally) \in Usage
    /\ \A a, b \in Usage : Merge(a, b) \in Usage
    /\ Nothing \in Tally
BY DEF Account, Merge, Usage, Tally, Nothing, Role, Structured

\* The slots requests hold, which the lifecycle counts.
Occupied(h) == UNION {{t} \X (1 .. h[t]) : t \in Request}

LEMMA HeldIsCount == \A h : S!Held(h) = Cardinality(Occupied(h))
<1>1. \A X : S!Cardinality(X) = Cardinality(X)
  BY DEF Cardinality, S!Cardinality
<1> QED
  BY <1>1 DEF S!Held, Occupied

\* They are finitely many, and fewer if a task releases its own.
LEMMA OccupiedFinite ==
    ASSUME NEW h \in [Request -> 0 .. Capacity]
    PROVE  IsFiniteSet(Occupied(h)) /\ Cardinality(Occupied(h)) \in Nat
<1>1. Occupied(h) \subseteq Request \X (1 .. Capacity)
  <2>1. \A t \in Request : h[t] \in Nat /\ h[t] <= Capacity
    OBVIOUS
  <2>2. \A t \in Request : 1 .. h[t] \subseteq 1 .. Capacity
    BY <2>1, RequestAssumption
  <2> QED
    BY <2>2 DEF Occupied
<1>2. IsFiniteSet(1 .. Capacity)
  <2>1. 1 \in Int /\ Capacity \in Int
    BY RequestAssumption
  <2> QED
    BY <2>1, IntervalFinite, Zenon
<1>3. IsFiniteSet(Request \X (1 .. Capacity))
  BY <1>2, RequestAssumption, FS_Product
<1>4. IsFiniteSet(Occupied(h))
  BY <1>1, <1>3, FS_Subset
<1> QED
  BY <1>4, FS_CardinalityType

LEMMA ReleaseHeld ==
    ASSUME NEW h \in [Request -> 0 .. Capacity], NEW r \in Request, S!Held(h) <= Capacity
    PROVE  /\ [h EXCEPT ![r] = 0] \in [Request -> 0 .. Capacity]
           /\ S!Held([h EXCEPT ![r] = 0]) <= Capacity
<1> DEFINE less == [h EXCEPT ![r] = 0]
<1>1. less \in [Request -> 0 .. Capacity]
  BY RequestAssumption
<1>2. Occupied(less) \subseteq Occupied(h)
  <2>1. \A t \in Request : less[t] = h[t] \/ less[t] = 0
    OBVIOUS
  <2>2. \A t \in Request : {t} \X (1 .. less[t]) \subseteq {t} \X (1 .. h[t])
    BY <2>1
  <2> QED
    BY <2>2 DEF Occupied
<1>3. Cardinality(Occupied(less)) <= Cardinality(Occupied(h))
  BY <1>2, OccupiedFinite, FS_Subset
<1>4. Cardinality(Occupied(less)) \in Nat /\ Cardinality(Occupied(h)) \in Nat
  BY <1>1, OccupiedFinite
<1> HIDE DEF less
<1>5. S!Held(less) <= Capacity
  BY <1>3, <1>4, HeldIsCount, RequestAssumption
<1> QED
  BY <1>1, <1>5 DEF less

-----------------------------------------------------------------------------
(* Awaiting *)

\* A coroutine that goes on has nothing in flight.
LEMMA ResumedQuiet ==
    ASSUME NEW r \in Request, Standing(r), Resumed(r)
    PROVE  \A c \in Call : call[r][c] # "flying"
BY DEF Standing, Resumed

\* What the other actions leave of a request they are not about.
LEMMA StandingElsewhere ==
    ASSUME NEW r \in Request, Standing(r),
           call'[r] = call[r], awaiting'[r] = awaiting[r],
           status'[r] = status[r], held'[r] = held[r]
    PROVE  Standing(r)'
BY DEF Standing

\* Suspending r on new calls, when it has none in flight.
LEMMA AwaitStep ==
    ASSUME TypeOK, NEW r \in Request, NEW made \in SUBSET Call, Await(r, made)
    PROVE  /\ call' \in [Request -> [Call -> {"none", "flying", "answered", "raised"}]]
           /\ awaiting' \in [Request -> SUBSET Call]
           /\ text' = text
           /\ awaiting'[r] = made
           /\ \A c \in Call : call'[r][c] = IF c \in made THEN "flying" ELSE call[r][c]
           /\ \A q \in Request \ {r} : call'[q] = call[q] /\ awaiting'[q] = awaiting[q]
<1>1. /\ call \in [Request -> [Call -> {"none", "flying", "answered", "raised"}]]
      /\ awaiting \in [Request -> SUBSET Call]
  BY DEF TypeOK
<1> QED
  BY <1>1 DEF Await

\* What is left to show of the types when a coroutine is suspended.
LEMMA TypesAfterAwait ==
    ASSUME TypeOK, NEW r \in Request, NEW made \in SUBSET Call, Await(r, made),
           status' \in [Request -> S!Status], held' \in [Request -> 0 .. Capacity],
           template' \in [Request -> Template],
           diagnostics' \in [Request -> [responses : Tally, events : Tally]],
           execution' \in [Request -> [responses : Tally, events : Tally, output : Output]],
           record' \in [Request -> [accounting : Usage, events : Tally, output : Output]]
    PROVE  TypeOK'
<1>1. /\ call' \in [Request -> [Call -> {"none", "flying", "answered", "raised"}]]
      /\ awaiting' \in [Request -> SUBSET Call]
      /\ text' = text
  BY AwaitStep
<1>2. text' \in [Request -> [Call -> Nat]]
  BY <1>1 DEF TypeOK
<1> QED
  BY <1>1, <1>2 DEF TypeOK

\* A coroutine that goes on with one call, or none, while the scheduler
\* stands still.
LEMMA ProceedStanding ==
    ASSUME TypeOK, \A q \in Request : Standing(q), UNCHANGED lifecycle,
           NEW r \in Request, NEW made \in SUBSET Call, Await(r, made),
           \A c \in Call : call[r][c] # "flying",
           \/ made = {}
           \/ \E c \in Call : /\ made = {c}
                              /\ IF c[1] = INTENT THEN status[r] = "new"
                                 ELSE \E d \in awaiting[r] : d[1] # INTENT
    PROVE  \A q \in Request : Standing(q)'
<1>1. /\ awaiting'[r] = made
      /\ \A c \in Call : call'[r][c] = IF c \in made THEN "flying" ELSE call[r][c]
      /\ \A q \in Request \ {r} : call'[q] = call[q] /\ awaiting'[q] = awaiting[q]
  BY AwaitStep
<1>2. status' = status /\ held' = held
  BY DEF lifecycle
<1>3. ASSUME NEW q \in Request, q # r PROVE Standing(q)'
  BY <1>1, <1>2, <1>3, StandingElsewhere
<1>4. Standing(r)'
  <2>1. \A c \in Call : call'[r][c] = "flying" => c \in awaiting'[r]
    BY <1>1
  <2>2. \A c \in awaiting'[r] :
          IF c[1] = INTENT THEN status'[r] = "new"
          ELSE status'[r] = "in-flight" /\ call'[r][Primary(TASK)] # "none"
    <3>1. Primary(TASK) \in Call
      BY CallFacts DEF Role
    <3> QED
      BY <1>1, <1>2, <3>1 DEF Standing
  <2>3. awaiting'[r] = {} \/ \E c \in Call : awaiting'[r] = {c}
    BY <1>1
  <2>4. status'[r] = "in-flight" => held'[r] >= 1
    BY <1>2 DEF Standing
  <2> QED
    BY <2>1, <2>2, <2>3, <2>4 DEF Standing
<1> QED
  BY <1>3, <1>4

\* A coroutine that returns while its request leaves the scheduler, or enters
\* it.
LEMMA ReturnStanding ==
    ASSUME TypeOK, \A q \in Request : Standing(q),
           NEW r \in Request, Await(r, {}), \A c \in Call : call[r][c] # "flying",
           status'[r] # "in-flight",
           \A q \in Request \ {r} : status'[q] = status[q] /\ held'[q] = held[q]
    PROVE  \A q \in Request : Standing(q)'
<1>1. /\ awaiting'[r] = {}
      /\ \A c \in Call : call'[r][c] = call[r][c]
      /\ \A q \in Request \ {r} : call'[q] = call[q] /\ awaiting'[q] = awaiting[q]
  BY AwaitStep
<1>2. ASSUME NEW q \in Request, q # r PROVE Standing(q)'
  BY <1>1, <1>2, StandingElsewhere
<1>3. Standing(r)'
  BY <1>1 DEF Standing
<1> QED
  BY <1>2, <1>3

-----------------------------------------------------------------------------
(* The invariant: the extraction *)

LEMMA RInvInit == Init => RInv
<1> SUFFICES ASSUME Init PROVE RInv
  OBVIOUS
<1>1. TypeOK
  BY RequestAssumption, AccountType DEF Init, TypeOK, S!Init, S!Status, Template, NoDiagnostics,
     NoExecution, NoRecord, Output, INVALID
<1>2. \A r \in Request : Standing(r)
  BY DEF Init, S!Init, Standing
<1>3. S!Held(held) <= Capacity
  <2>1. Occupied(held) = {}
    BY DEF Init, S!Init, Occupied
  <2> QED
    BY <2>1, HeldIsCount, FS_EmptySet, RequestAssumption
<1> QED
  BY <1>1, <1>2, <1>3 DEF RInv

LEMMA SubmitRInv ==
    ASSUME RInv, NEW r \in Request, Submit(r)
    PROVE  RInv'
<1>1. Primary(INTENT) \in Call /\ Primary(INTENT)[1] = INTENT
  BY CallFacts DEF Role, Structured, Primary
<1>2. UNCHANGED lifecycle /\ status[r] = "new" /\ \A c \in Call : call[r][c] # "flying"
  BY DEF Submit
<1>3. \A q \in Request : Standing(q)'
  BY <1>1, <1>2, ProceedStanding DEF Submit, RInv
<1>4. NoDiagnostics \in [responses : Tally, events : Tally]
  BY AccountType DEF NoDiagnostics
<1>5. diagnostics' \in [Request -> [responses : Tally, events : Tally]]
  BY <1>4 DEF Submit, RInv, TypeOK
<1>6. UNCHANGED <<status, held, template, execution, record>> /\ Await(r, {Primary(INTENT)})
  BY DEF Submit, lifecycle
<1>7. TypeOK'
  BY <1>1, <1>5, <1>6, TypesAfterAwait DEF RInv, TypeOK
<1> QED
  BY <1>2, <1>3, <1>7 DEF RInv, lifecycle

LEMMA HeardType ==
    ASSUME TypeOK, NEW r \in Request
    PROVE  /\ Heard(r) \in [responses : Tally, events : Tally]
           /\ Extractor(r) \in Request
           /\ \A c : [Heard(r) EXCEPT !.events = Extend(@, {c})] \in [responses : Tally, events : Tally]
<1> DEFINE answered == {c \in awaiting[r] : call[r][c] = "answered"}
           lists == diagnostics[Extractor(r)]
<1>1. Extractor(r) \in Request
  BY DEF Extractor
<1>2. IsFiniteSet(answered)
  <2>1. answered \subseteq Call
    BY DEF TypeOK
  <2> QED
    BY <2>1, CallFacts, FS_Subset
<1>3. lists \in [responses : Tally, events : Tally]
  BY <1>1 DEF TypeOK
<1> HIDE DEF answered, lists
<1>4. Extend(lists.responses, answered) \in Tally
  BY <1>2, <1>3, ExtendType
<1>5. Heard(r) = [lists EXCEPT !.responses = Extend(@, answered)]
  BY DEF Heard, lists, answered
<1>6. Heard(r) \in [responses : Tally, events : Tally]
  BY <1>3, <1>4, <1>5
<1>7. ASSUME NEW c
      PROVE  [Heard(r) EXCEPT !.events = Extend(@, {c})] \in [responses : Tally, events : Tally]
  <2>1. Extend(Heard(r).events, {c}) \in Tally
    BY <1>6, FS_Singleton, ExtendType
  <2> QED
    BY <1>6, <2>1
<1> QED
  BY <1>1, <1>6, <1>7

LEMMA RepeatExtractionRInv ==
    ASSUME RInv, NEW r \in Request, RepeatExtraction(r)
    PROVE  RInv'
<1>1. Fallback(INTENT) \in Call /\ Fallback(INTENT)[1] = INTENT /\ Primary(INTENT)[1] = INTENT
  BY CallFacts DEF Role, Structured, Primary, Fallback
<1>2. UNCHANGED lifecycle /\ Resumed(r) /\ Primary(INTENT) \in awaiting[r]
  BY DEF RepeatExtraction, Repeats, Returned
<1>3. status[r] = "new" /\ \A c \in Call : call[r][c] # "flying"
  BY <1>1, <1>2, ResumedQuiet DEF RInv, Standing
<1>4. \A q \in Request : Standing(q)'
  BY <1>1, <1>2, <1>3, ProceedStanding DEF RepeatExtraction, RInv
<1>5. diagnostics' \in [Request -> [responses : Tally, events : Tally]]
  BY HeardType DEF RepeatExtraction, RInv, TypeOK
<1>6. UNCHANGED <<status, held, template, execution, record>> /\ Await(r, {Fallback(INTENT)})
  BY DEF RepeatExtraction, lifecycle
<1>7. TypeOK'
  BY <1>1, <1>5, <1>6, TypesAfterAwait DEF RInv, TypeOK
<1> QED
  BY <1>2, <1>4, <1>7 DEF RInv, lifecycle

LEMMA RefuseSubmissionRInv ==
    ASSUME RInv, NEW r \in Request, NEW c \in Call, RefuseSubmission(r, c)
    PROVE  RInv'
<1>1. UNCHANGED lifecycle /\ Resumed(r)
  BY DEF RefuseSubmission, GivesUp, Returned
<1>2. \A d \in Call : call[r][d] # "flying"
  BY <1>1, ResumedQuiet DEF RInv
<1>3. \A q \in Request : Standing(q)'
  BY <1>1, <1>2, ProceedStanding DEF RefuseSubmission, RInv
<1>4. diagnostics' \in [Request -> [responses : Tally, events : Tally]]
  BY HeardType DEF RefuseSubmission, RInv, TypeOK
<1>5. UNCHANGED <<status, held, template, execution, record>> /\ Await(r, {})
  BY DEF RefuseSubmission, lifecycle
<1>6. TypeOK'
  BY <1>4, <1>5, TypesAfterAwait DEF RInv, TypeOK
<1> QED
  BY <1>1, <1>3, <1>6 DEF RInv, lifecycle

LEMMA RecordSubmissionRInv ==
    ASSUME RInv, NEW r \in Request, NEW c \in Call, RecordSubmission(r, c)
    PROVE  RInv'
<1>1. Resumed(r) /\ held' = held
  BY DEF RecordSubmission, Returned, S!Arrive
<1>2. \A d \in Call : call[r][d] # "flying"
  BY <1>1, ResumedQuiet DEF RInv
<1>3. PICK next \in {"queued", "rejected"} : status' = [status EXCEPT ![r] = next]
  BY DEF RecordSubmission, S!Arrive
<1>4. status' \in [Request -> S!Status] /\ status'[r] # "in-flight"
  BY <1>3 DEF RInv, TypeOK, S!Status
<1>5. \A q \in Request : Standing(q)'
  BY <1>1, <1>2, <1>3, <1>4, ReturnStanding DEF RecordSubmission, RInv
<1>6. [accounting |-> Account(Heard(r).responses), events |-> Heard(r).events,
       output |-> NoOutput] \in [accounting : Usage, events : Tally, output : Output]
  BY HeardType, AccountType DEF RInv, Output
<1>7. diagnostics' \in [Request -> [responses : Tally, events : Tally]]
  BY HeardType DEF RecordSubmission, RInv, TypeOK
<1>8. record' \in [Request -> [accounting : Usage, events : Tally, output : Output]]
  BY <1>6 DEF RecordSubmission, RInv, TypeOK
<1>9. UNCHANGED <<template, execution>> /\ Await(r, {})
  BY DEF RecordSubmission
<1>10. TypeOK'
  BY <1>1, <1>4, <1>7, <1>8, <1>9, TypesAfterAwait DEF RInv, TypeOK
<1> QED
  BY <1>1, <1>5, <1>10 DEF RInv

-----------------------------------------------------------------------------
(* The invariant: the scheduler, and the answers of the provider *)

\* Queued work awaits nothing.
LEMMA QueuedIdle ==
    ASSUME NEW r \in Request, Standing(r), status[r] = "queued", TypeOK
    PROVE  awaiting[r] = {} /\ \A c \in Call : call[r][c] # "flying"
BY DEF Standing, TypeOK

LEMMA DispatchRInv == RInv /\ Dispatch => RInv'
<1> SUFFICES ASSUME RInv, Dispatch PROVE RInv'
  OBVIOUS
<1>1. PICK dropped \in SUBSET {t \in Request : status[t] = "queued"} :
        \/ /\ status' = [t \in Request |-> IF t \in dropped THEN "rejected" ELSE status[t]]
           /\ UNCHANGED held
        \/ \E t \in Request \ dropped, units \in 1 .. Capacity :
              /\ status[t] = "queued"
              /\ status' = [u \in Request |->
                    IF u = t THEN "in-flight"
                    ELSE IF u \in dropped THEN "rejected" ELSE status[u]]
              /\ held' = [held EXCEPT ![t] = units]
              /\ S!Held(held') <= Capacity
  BY DEF Dispatch, S!Dispatch
<1>2. UNCHANGED <<template, calls, diagnostics, execution, record>>
  BY DEF Dispatch
<1>3. /\ status' \in [Request -> S!Status] /\ held' \in [Request -> 0 .. Capacity]
      /\ S!Held(held') <= Capacity
  BY <1>1, RequestAssumption DEF RInv, TypeOK, S!Status
<1>4. ASSUME NEW q \in Request PROVE Standing(q)'
  <2>1. CASE status[q] # "queued"
    <3>1. status'[q] = status[q] /\ held'[q] = held[q]
      BY <1>1, <2>1 DEF RInv, TypeOK
    <3> QED
      BY <1>2, <3>1, StandingElsewhere DEF RInv, calls
  <2>2. CASE status[q] = "queued"
    <3>1. awaiting'[q] = {} /\ \A c \in Call : call'[q][c] # "flying"
      BY <1>2, <2>2, QueuedIdle DEF RInv, calls
    <3>2. status'[q] = "in-flight" => held'[q] >= 1
      BY <1>1, <2>2 DEF RInv, TypeOK
    <3> QED
      BY <3>1, <3>2 DEF Standing
  <2> QED
    BY <2>1, <2>2
<1>5. TypeOK'
  BY <1>2, <1>3 DEF RInv, TypeOK, calls
<1> QED
  BY <1>3, <1>4, <1>5 DEF RInv

LEMMA CancelRInv ==
    ASSUME RInv, NEW r \in Request, Cancel(r)
    PROVE  RInv'
<1>1. /\ status[r] = "queued" /\ status' = [status EXCEPT ![r] = "cancelled"] /\ held' = held
      /\ UNCHANGED <<template, calls, diagnostics, execution, record>>
  BY DEF Cancel, S!Withdraw
<1>2. status' \in [Request -> S!Status] /\ status'[r] = "cancelled"
  BY <1>1 DEF RInv, TypeOK, S!Status
<1>3. ASSUME NEW q \in Request, q # r PROVE Standing(q)'
  BY <1>1, <1>3, StandingElsewhere DEF RInv, TypeOK, calls
<1>4. Standing(r)'
  BY <1>1, <1>2, QueuedIdle DEF RInv, Standing, calls
<1>5. TypeOK'
  BY <1>1, <1>2 DEF RInv, TypeOK, calls
<1> QED
  BY <1>1, <1>3, <1>4, <1>5 DEF RInv

LEMMA TextsType ==
    ASSUME TypeOK, NEW r \in Request, NEW role
    PROVE  role \in Role => Texts(r, role) \subseteq Nat
<1>1. held[r] \in Nat
  BY RequestAssumption DEF TypeOK
<1> QED
  BY <1>1 DEF Texts, Role, Structured, INVALID, CONTRACT, ZERO_CAP, INTENT, SELECTION, QUALITY, TASK

LEMMA AnswerRInv ==
    ASSUME RInv, NEW r \in Request, NEW c \in Call, Answer(r, c)
    PROVE  RInv'
<1>1. PICK ending \in {"answered", "raised"} : call' = [call EXCEPT ![r][c] = ending]
  BY DEF Answer
<1>2. /\ UNCHANGED <<lifecycle, template, awaiting, diagnostics, execution, record>>
      /\ text' = text \/ \E x \in Texts(r, c[1]) : text' = [text EXCEPT ![r][c] = x]
  BY DEF Answer
<1>3. text' \in [Request -> [Call -> Nat]]
  <2>1. Texts(r, c[1]) \subseteq Nat
    BY CallFacts, TextsType DEF RInv
  <2>2. text \in [Request -> [Call -> Nat]]
    BY DEF RInv, TypeOK
  <2> QED
    BY <1>2, <2>1, <2>2
<1>4. call' \in [Request -> [Call -> {"none", "flying", "answered", "raised"}]]
  BY <1>1 DEF RInv, TypeOK
<1>5. ASSUME NEW q \in Request, q # r PROVE Standing(q)'
  BY <1>1, <1>2, <1>5, StandingElsewhere DEF RInv, TypeOK, lifecycle
<1>6. Standing(r)'
  <2>1. \A d \in Call : call'[r][d] = IF d = c THEN ending ELSE call[r][d]
    BY <1>1 DEF RInv, TypeOK
  <2>2. Primary(TASK) \in Call
    BY CallFacts DEF Role
  <2> QED
    BY <1>2, <2>1, <2>2 DEF RInv, Standing, lifecycle
<1>7. TypeOK'
  BY <1>2, <1>3, <1>4 DEF RInv, TypeOK, lifecycle
<1> QED
  BY <1>2, <1>5, <1>6, <1>7 DEF RInv, lifecycle
-----------------------------------------------------------------------------
(* The invariant: the execution *)

\* As many drafts as slots are reserved, or one call: the set a task awaits.
LEMMA BeginRInv ==
    ASSUME RInv, NEW r \in Request, Begin(r)
    PROVE  RInv'
<1> DEFINE drafts == {TASK} \X (1 .. held[r])
<1>1. /\ status[r] = "in-flight" /\ call[r][Primary(TASK)] = "none"
      /\ template' \in [Request -> Template]
      /\ Await(r, drafts)
      /\ UNCHANGED <<status, held, diagnostics, execution, record>>
  BY DEF Begin, lifecycle, RInv, TypeOK
<1>2. held[r] \in 1 .. Capacity /\ Primary(TASK) \in drafts /\ drafts \in SUBSET Call
  <2>1. held[r] \in 0 .. Capacity /\ held[r] >= 1
    BY <1>1 DEF RInv, TypeOK, Standing
  <2>2. held[r] \in 1 .. Capacity
    BY <2>1
  <2> QED
    BY <2>1, <2>2, CallFacts DEF Primary
<1> HIDE DEF drafts
<1>3. \A c \in Call : call[r][c] # "flying"
  <2>1. \A c \in awaiting[r] : c[1] = INTENT => status[r] = "new"
    BY DEF RInv, Standing
  <2>2. awaiting[r] = {}
    BY <1>1, <2>1 DEF RInv, Standing
  <2> QED
    BY <2>2 DEF RInv, Standing
<1>4. /\ awaiting'[r] = drafts
      /\ \A c \in Call : call'[r][c] = IF c \in drafts THEN "flying" ELSE call[r][c]
      /\ \A q \in Request \ {r} : call'[q] = call[q] /\ awaiting'[q] = awaiting[q]
  BY <1>1, <1>2, AwaitStep DEF RInv
<1>5. ASSUME NEW q \in Request, q # r PROVE Standing(q)'
  BY <1>1, <1>4, <1>5, StandingElsewhere DEF RInv
<1>6. Standing(r)'
  <2>1. \A c \in Call : call'[r][c] = "flying" => c \in awaiting'[r]
    BY <1>3, <1>4
  <2>2. \A c \in awaiting'[r] :
          c[1] # INTENT /\ status'[r] = "in-flight" /\ call'[r][Primary(TASK)] # "none"
    <3>1. \A c \in drafts : c[1] = TASK /\ TASK # INTENT
      BY DEF drafts, TASK, INTENT
    <3>2. call'[r][Primary(TASK)] = "flying"
      BY <1>2, <1>4
    <3> QED
      BY <1>1, <1>4, <3>1, <3>2
  <2>3. awaiting'[r] = {TASK} \X (1 .. held'[r]) /\ held'[r] >= 1
    BY <1>1, <1>2, <1>4 DEF drafts
  <2> QED
    BY <2>1, <2>2, <2>3 DEF Standing
<1>7. TypeOK'
  BY <1>1, <1>2, TypesAfterAwait DEF RInv, TypeOK
<1> QED
  BY <1>1, <1>5, <1>6, <1>7 DEF RInv

\* The coroutine of an execution goes on with one more call.
LEMMA ExecutionStep ==
    ASSUME RInv, NEW r \in Request, NEW next \in Call, Await(r, {next}), next[1] # INTENT,
           Resumed(r), \E d \in awaiting[r] : d[1] # INTENT,
           execution' \in [Request -> [responses : Tally, events : Tally, output : Output]],
           UNCHANGED <<lifecycle, template, diagnostics, record>>
    PROVE  RInv'
<1>1. \A c \in Call : call[r][c] # "flying"
  BY ResumedQuiet DEF RInv
<1>2. UNCHANGED lifecycle
  OBVIOUS
<1>3. \A q \in Request : Standing(q)'
  BY <1>1, <1>2, ProceedStanding DEF RInv
<1>4. UNCHANGED <<status, held, template, diagnostics, record>>
  BY DEF lifecycle
<1>5. TypeOK'
  BY <1>4, TypesAfterAwait DEF RInv, TypeOK
<1> QED
  BY <1>3, <1>4, <1>5 DEF RInv

LEMMA AwaitedFinite ==
    ASSUME TypeOK, NEW r \in Request
    PROVE  IsFiniteSet(awaiting[r])
<1>1. awaiting[r] \subseteq Call
  BY DEF TypeOK
<1> QED
  BY <1>1, CallFacts, FS_Subset

LEMMA ProceedType ==
    ASSUME TypeOK, NEW r \in Request,
           execution' = [execution EXCEPT ![r].responses = Extend(@, awaiting[r])]
    PROVE  execution' \in [Request -> [responses : Tally, events : Tally, output : Output]]
<1>1. execution \in [Request -> [responses : Tally, events : Tally, output : Output]]
  BY DEF TypeOK
<1>2. Extend(execution[r].responses, awaiting[r]) \in Tally
  BY <1>1, AwaitedFinite, ExtendType
<1> QED
  BY <1>1, <1>2

LEMMA JoinedType ==
    ASSUME TypeOK, NEW r \in Request, NEW c \in Call
    PROVE  Joined(r, c) \in [responses : Tally, events : Tally, output : Output]
<1>1. execution[r] \in [responses : Tally, events : Tally, output : Output]
  BY DEF TypeOK
<1>2. IsFiniteSet({c[1]} \X (1 .. c[2]))
  <2>1. 1 \in Int /\ c[2] \in Int
    BY CallFacts
  <2>2. IsFiniteSet(1 .. c[2])
    BY <2>1, IntervalFinite, Zenon
  <2> QED
    BY <2>2, FS_Singleton, FS_Product
<1>3. IsFiniteSet({d \in {c} : d[2] = 2})
  <2>1. {d \in {c} : d[2] = 2} \subseteq {c}
    OBVIOUS
  <2> QED
    BY <2>1, FS_Singleton, FS_Subset
<1>4. /\ Extend(execution[r].responses, {c[1]} \X (1 .. c[2])) \in Tally
      /\ Extend(execution[r].events, {d \in {c} : d[2] = 2}) \in Tally
  BY <1>1, <1>2, <1>3, ExtendType
<1> QED
  BY <1>1, <1>4 DEF Joined

LEMMA JudgeRInv ==
    ASSUME RInv, NEW r \in Request, NEW c \in Call, Judge(r, c)
    PROVE  RInv'
<1>1. /\ Returned(r, c) /\ Resumed(r) /\ c \in awaiting[r]
      /\ Await(r, {Primary(QUALITY)}) /\ UNCHANGED <<lifecycle, template, diagnostics, record>>
  BY DEF Judge, Returned
<1>2. c[1] = TASK \/ (c[1] = SELECTION /\ Parses(r, c))
  <2>1. c = Primary(TASK) \/ c = Fallback(TASK) \/ (c[1] = SELECTION /\ Parses(r, c))
    BY DEF Judge
  <2> QED
    BY <2>1 DEF Primary, Fallback
<1>3. Primary(QUALITY) \in Call /\ Primary(QUALITY)[1] # INTENT /\ c[1] # INTENT
  BY <1>2, CallFacts DEF Role, Structured, Primary, QUALITY, INTENT, TASK, SELECTION
<1> DEFINE result == IF c[1] = TASK
                     THEN [execution[r] EXCEPT !.responses = Extend(@, awaiting[r]), !.output = c]
                     ELSE [Joined(r, c) EXCEPT !.output = <<TASK, text[r][c]>>]
<1>4. execution[r] \in [responses : Tally, events : Tally, output : Output]
  BY DEF RInv, TypeOK
<1>5. ASSUME c[1] = TASK
      PROVE  result \in [responses : Tally, events : Tally, output : Output]
  <2>1. Extend(execution[r].responses, awaiting[r]) \in Tally
    BY <1>4, AwaitedFinite, ExtendType DEF RInv
  <2> QED
    BY <1>4, <1>5, <2>1 DEF Output
<1>6. ASSUME c[1] # TASK
      PROVE  result \in [responses : Tally, events : Tally, output : Output]
  <2>1. text[r][c] \in 1 .. held[r] /\ held[r] \in 0 .. Capacity
    BY <1>2, <1>6 DEF Parses, RInv, TypeOK
  <2>2. <<TASK, text[r][c]>> \in Output
    BY <2>1, CallFacts DEF Output
  <2>3. Joined(r, c) \in [responses : Tally, events : Tally, output : Output]
    BY JoinedType DEF RInv
  <2> QED
    BY <1>6, <2>2, <2>3
<1>7. result \in [responses : Tally, events : Tally, output : Output]
  BY <1>5, <1>6
<1>8. execution' = [execution EXCEPT ![r] = result]
  BY DEF Judge
<1> HIDE DEF result
<1>9. execution' \in [Request -> [responses : Tally, events : Tally, output : Output]]
  BY <1>7, <1>8 DEF RInv, TypeOK
<1> QED
  BY <1>1, <1>3, <1>9, ExecutionStep

\* An execution ends, and its slots go with it.
LEMMA EndStep ==
    ASSUME RInv, NEW r \in Request, Await(r, {}), Resumed(r), S!Release(r),
           UNCHANGED <<template, diagnostics>>,
           execution' \in [Request -> [responses : Tally, events : Tally, output : Output]],
           record' \in [Request -> [accounting : Usage, events : Tally, output : Output]]
    PROVE  RInv'
<1>1. /\ held' = [held EXCEPT ![r] = 0]
      /\ \E next \in {"completed", "failed"} : status' = [status EXCEPT ![r] = next]
  BY DEF S!Release
<1>2. status' \in [Request -> S!Status] /\ status'[r] # "in-flight"
  BY <1>1 DEF RInv, TypeOK, S!Status
<1>3. held' \in [Request -> 0 .. Capacity] /\ S!Held(held') <= Capacity
  BY <1>1, ReleaseHeld DEF RInv, TypeOK
<1>4. \A c \in Call : call[r][c] # "flying"
  BY ResumedQuiet DEF RInv
<1>5. \A q \in Request \ {r} : status'[q] = status[q] /\ held'[q] = held[q]
  BY <1>1 DEF RInv, TypeOK
<1>6. \A q \in Request : Standing(q)'
  BY <1>2, <1>4, <1>5, ReturnStanding DEF RInv
<1>7. template' \in [Request -> Template]
      /\ diagnostics' \in [Request -> [responses : Tally, events : Tally]]
  BY DEF RInv, TypeOK
<1>8. TypeOK'
  BY <1>2, <1>3, <1>7, TypesAfterAwait DEF RInv
<1> QED
  BY <1>3, <1>6, <1>8 DEF RInv

LEMMA CompleteRInv ==
    ASSUME RInv, NEW r \in Request, NEW c \in Call, Complete(r, c)
    PROVE  RInv'
<1>1. Joined(r, c) \in [responses : Tally, events : Tally, output : Output]
  BY JoinedType DEF RInv
<1>2. /\ Await(r, {}) /\ Resumed(r) /\ S!Release(r) /\ UNCHANGED <<template, diagnostics>>
      /\ execution' = [execution EXCEPT ![r] = Joined(r, c)]
      /\ record' = [record EXCEPT ![r] = Recorded(r, Joined(r, c))]
  BY DEF Complete, Returned
<1>3. ASSUME NEW result \in [responses : Tally, events : Tally, output : Output]
      PROVE  Recorded(r, result) \in [accounting : Usage, events : Tally, output : Output]
  <2>1. record[r] \in [accounting : Usage, events : Tally, output : Output]
    BY DEF RInv, TypeOK
  <2>2. Merge(record[r].accounting, Account(result.responses)) \in Usage
    BY <2>1, AccountType
  <2>3. [role \in Role |-> record[r].events[role] + result.events[role]] \in Tally
    BY <2>1 DEF Tally
  <2> QED
    BY <2>2, <2>3 DEF Recorded
<1>4. /\ execution' \in [Request -> [responses : Tally, events : Tally, output : Output]]
      /\ record' \in [Request -> [accounting : Usage, events : Tally, output : Output]]
  BY <1>1, <1>2, <1>3 DEF RInv, TypeOK
<1> QED
  BY <1>2, <1>4, EndStep

LEMMA FailRInv ==
    ASSUME RInv, NEW r \in Request, NEW c \in Call, Fail(r, c)
    PROVE  RInv'
<1>1. /\ Await(r, {}) /\ Resumed(r) /\ S!Release(r)
      /\ UNCHANGED <<template, diagnostics, execution, record>>
  BY DEF Fail, GivesUp
<1>2. /\ execution' \in [Request -> [responses : Tally, events : Tally, output : Output]]
      /\ record' \in [Request -> [accounting : Usage, events : Tally, output : Output]]
  BY <1>1 DEF RInv, TypeOK
<1> QED
  BY <1>1, <1>2, EndStep

LEMMA NextRInv == RInv /\ [Next]_vars => RInv'
<1> SUFFICES ASSUME RInv, [Next]_vars PROVE RInv'
  OBVIOUS
<1>1. CASE Dispatch
  BY <1>1, DispatchRInv
<1>2. ASSUME NEW r \in Request, Submit(r) PROVE RInv'
  BY <1>2, SubmitRInv
<1>3. ASSUME NEW r \in Request, Cancel(r) PROVE RInv'
  BY <1>3, CancelRInv
<1>4. ASSUME NEW r \in Request, NEW c \in Call, Answer(r, c) PROVE RInv'
  BY <1>4, AnswerRInv
<1>5. ASSUME NEW r \in Request, RepeatExtraction(r) \/ Begin(r) PROVE RInv'
  BY <1>5, RepeatExtractionRInv, BeginRInv
<1>6. ASSUME NEW r \in Request, SelfCheck(r) PROVE RInv'
  <2>1. /\ Resumed(r) /\ Primary(TASK) \in awaiting[r] /\ Await(r, {Fallback(TASK)})
        /\ execution' = [execution EXCEPT ![r].responses = Extend(@, awaiting[r])]
        /\ UNCHANGED <<lifecycle, template, diagnostics, record>>
    BY <1>6 DEF SelfCheck, Proceed, Returned
  <2>2. Fallback(TASK) \in Call /\ Fallback(TASK)[1] # INTENT /\ Primary(TASK)[1] # INTENT
    BY CallFacts DEF Role, Primary, Fallback, TASK, INTENT
  <2> QED
    BY <2>1, <2>2, ProceedType, ExecutionStep DEF RInv
<1>7. ASSUME NEW r \in Request, Select(r) PROVE RInv'
  <2>1. /\ Resumed(r) /\ Primary(TASK) \in awaiting[r] /\ Await(r, {Primary(SELECTION)})
        /\ execution' = [execution EXCEPT ![r].responses = Extend(@, awaiting[r])]
        /\ UNCHANGED <<lifecycle, template, diagnostics, record>>
    BY <1>7 DEF Select, Proceed, Returned
  <2>2. Primary(SELECTION) \in Call /\ Primary(SELECTION)[1] # INTENT /\ Primary(TASK)[1] # INTENT
    BY CallFacts DEF Role, Structured, Primary, TASK, INTENT, SELECTION
  <2> QED
    BY <2>1, <2>2, ProceedType, ExecutionStep DEF RInv
<1>8. ASSUME NEW r \in Request, NEW role \in Structured, Repeat(r, role) PROVE RInv'
  <2>1. /\ role # INTENT /\ Resumed(r) /\ Primary(role) \in awaiting[r]
        /\ Await(r, {Fallback(role)})
        /\ UNCHANGED <<lifecycle, template, diagnostics, execution, record>>
    BY <1>8 DEF Repeat, Repeats, Returned
  <2>2. Fallback(role) \in Call /\ Fallback(role)[1] = role /\ Primary(role)[1] = role
    BY CallFacts DEF Role, Primary, Fallback
  <2>3. execution' \in [Request -> [responses : Tally, events : Tally, output : Output]]
    BY <2>1 DEF RInv, TypeOK
  <2> QED
    BY <2>1, <2>2, <2>3, ExecutionStep
<1>9. ASSUME NEW r \in Request, NEW c \in Call,
             \/ RefuseSubmission(r, c) \/ RecordSubmission(r, c)
             \/ Judge(r, c) \/ Complete(r, c) \/ Fail(r, c)
      PROVE  RInv'
  BY <1>9, RefuseSubmissionRInv, RecordSubmissionRInv, JudgeRInv, CompleteRInv, FailRInv
<1>10. CASE UNCHANGED vars
  BY <1>10 DEF vars, RInv, TypeOK, Standing
<1> QED
  BY <1>1, <1>2, <1>3, <1>4, <1>5, <1>6, <1>7, <1>8, <1>9, <1>10 DEF Next, Resume

LEMMA RInvHolds == Spec => []RInv
BY RInvInit, NextRInv, PTL DEF Spec

\* Every field keeps its type; a recorded output is a call the task could
\* make, so a winner that does not exist is never recorded.
THEOREM RequestTypes == Spec => []TypeOK
<1>1. RInv => TypeOK
  BY DEF RInv
<1> QED
  BY <1>1, RInvHolds, PTL

-----------------------------------------------------------------------------
(* Calls and slots *)

\* The slot a call in flight uses: its own of several drafts, else the first.
Slot(x) ==
    <<x[1], IF x[2] \in {TASK} \X (1 .. held[x[1]]) THEN x[2][2] ELSE 1>>

LEMMA FlyingFacts ==
    ASSUME RInv, NEW x \in Flying
    PROVE  /\ x[1] \in Request /\ x[2] \in Call /\ x = <<x[1], x[2]>>
           /\ x[2] \in awaiting[x[1]] /\ Slot(x) \in Occupied(held)
<1>1. x[1] \in Request /\ x[2] \in Call /\ x = <<x[1], x[2]>>
  BY DEF Flying
<1>2. x[2] \in awaiting[x[1]] /\ x[2][1] # INTENT
  BY <1>1 DEF Flying, RInv, Standing
<1>3. held[x[1]] \in 0 .. Capacity /\ held[x[1]] >= 1
  BY <1>1, <1>2 DEF RInv, TypeOK, Standing
<1>4. Slot(x) \in {x[1]} \X (1 .. held[x[1]])
  BY <1>3 DEF Slot
<1> QED
  BY <1>1, <1>2, <1>4 DEF Occupied

LEMMA SlotsDiffer ==
    ASSUME RInv, NEW x \in Flying, NEW y \in Flying, Slot(x) = Slot(y)
    PROVE  x = y
<1> DEFINE r == x[1]
           drafts == {TASK} \X (1 .. held[r])
<1>1. r \in Request /\ y[1] = r /\ x = <<r, x[2]>> /\ y = <<r, y[2]>>
  BY FlyingFacts DEF Slot
<1>2. x[2] \in awaiting[r] /\ y[2] \in awaiting[r]
  BY <1>1, FlyingFacts
<1>3. CASE \E c \in Call : awaiting[r] = {c}
  BY <1>1, <1>2, <1>3
<1>4. CASE awaiting[r] = drafts
  <2>1. x[2] \in drafts /\ y[2] \in drafts
    BY <1>2, <1>4
  <2>2. Slot(x)[2] = x[2][2] /\ Slot(y)[2] = y[2][2]
    BY <1>1, <2>1 DEF Slot
  <2>3. x[2] = <<TASK, x[2][2]>> /\ y[2] = <<TASK, y[2][2]>>
    BY <2>1
  <2> QED
    BY <1>1, <2>2, <2>3
<1> QED
  BY <1>1, <1>2, <1>3, <1>4 DEF RInv, Standing

\* However many drafts and checks are under way, and whichever of them fail
\* first, the calls of the executions fit the slots held, hence the capacity.
THEOREM CallsTheorem == Spec => []CallsWithinCapacity
<1>1. ASSUME RInv PROVE CallsWithinCapacity
  <2> DEFINE place == [x \in Flying |-> Slot(x)]
  <2>1. place \in Injection(Flying, Occupied(held))
    BY <1>1, FlyingFacts, SlotsDiffer DEF Injection, IsInjective
  <2>2. IsFiniteSet(Occupied(held)) /\ Cardinality(Occupied(held)) \in Nat
    BY <1>1, OccupiedFinite DEF RInv, TypeOK
  <2> HIDE DEF place
  <2>3. Cardinality(Flying) <= Cardinality(Occupied(held)) /\ IsFiniteSet(Flying)
    BY <2>1, <2>2, FS_Injection
  <2>4. Cardinality(Flying) \in Nat
    BY <2>3, FS_CardinalityType
  <2> QED
    BY <1>1, <2>2, <2>3, <2>4, HeldIsCount, RequestAssumption DEF CallsWithinCapacity, RInv
<1> QED
  BY <1>1, RInvHolds, PTL

-----------------------------------------------------------------------------
(* What is recorded as output *)

\* The calls of the task of r that are over, and what its coroutine has made
\* of them: the drafts are awaited together, all are there when a winner is
\* chosen, and the output is there when it is judged.
Settled(r) ==
    /\ status[r] # "failed" =>
          \A c \in Call : c[1] = TASK /\ c \notin awaiting[r] =>
              call[r][c] \in {"none", "answered"}
    /\ Primary(TASK) \in awaiting[r] => awaiting[r] = {TASK} \X (1 .. held[r])
    /\ \A c \in awaiting[r] : c[1] = SELECTION =>
          /\ template[r] = PARALLEL_JUDGE
          /\ \A n \in 1 .. held[r] : call[r][<<TASK, n>>] = "answered"
    /\ \A c \in awaiting[r] : c[1] = QUALITY =>
          /\ execution[r].output \in Call /\ execution[r].output[1] = TASK
          /\ call[r][execution[r].output] = "answered"
          /\ template[r] = SELF_CHECK => execution[r].output = Fallback(TASK)

Kept(r) ==
    status[r] = "completed" =>
        /\ record[r].output \in Call
        /\ call[r][record[r].output] = "answered"
        /\ template[r] = SELF_CHECK => record[r].output = Fallback(TASK)

OInv == RInv /\ \A r \in Request : Settled(r) /\ Kept(r)

LEMMA OInvInit == Init => OInv
<1> SUFFICES ASSUME Init PROVE OInv
  OBVIOUS
<1>1. ASSUME NEW r \in Request PROVE Settled(r) /\ Kept(r)
  BY DEF Init, S!Init, Settled, Kept
<1> QED
  BY <1>1, RInvInit DEF OInv

\* A request whose variables a step leaves alone.
LEMMA SettledElsewhere ==
    ASSUME NEW r \in Request, Settled(r), Kept(r),
           call'[r] = call[r], awaiting'[r] = awaiting[r], status'[r] = status[r],
           held'[r] = held[r], template'[r] = template[r], execution'[r] = execution[r],
           record'[r] = record[r]
    PROVE  (Settled(r) /\ Kept(r))'
BY DEF Settled, Kept

\* Requests other than r, which goes on to await other calls.
LEMMA OthersSettled ==
    ASSUME OInv, NEW r \in Request, NEW made \in SUBSET Call, Await(r, made),
           \A q \in Request \ {r} :
              /\ status'[q] = status[q] /\ held'[q] = held[q] /\ template'[q] = template[q]
              /\ execution'[q] = execution[q] /\ record'[q] = record[q]
    PROVE  \A q \in Request \ {r} : (Settled(q) /\ Kept(q))'
<1>1. \A q \in Request \ {r} : call'[q] = call[q] /\ awaiting'[q] = awaiting[q]
  BY AwaitStep DEF OInv, RInv
<1> QED
  BY <1>1, SettledElsewhere DEF OInv

\* A coroutine goes on only before its record is made or during execution.
LEMMA NotOver ==
    ASSUME RInv, NEW r \in Request, NEW c \in awaiting[r]
    PROVE  /\ c \in Call
           /\ status[r] \in {"new", "in-flight"}
           /\ c[1] # INTENT => status[r] = "in-flight"
           /\ \A d \in awaiting[r] : c[1] = INTENT <=> d[1] = INTENT
<1>1. \A d \in awaiting[r] :
        IF d[1] = INTENT THEN status[r] = "new" ELSE status[r] = "in-flight"
  BY DEF RInv, Standing
<1>2. c \in Call
  BY DEF RInv, TypeOK
<1> QED
  BY <1>1, <1>2

\* With the answers to all it awaited, it goes on to another call.
LEMMA GoesOn ==
    ASSUME OInv, NEW r \in Request, NEW c \in Call, Returned(r, c),
           NEW next \in Call, Await(r, {next}), next # Primary(TASK), UNCHANGED <<status, held>>,
           next[1] = SELECTION =>
              /\ template'[r] = PARALLEL_JUDGE
              /\ \A n \in 1 .. held[r] : call[r][<<TASK, n>>] = "answered",
           next[1] = QUALITY =>
              /\ execution'[r].output \in Call /\ execution'[r].output[1] = TASK
              /\ call[r][execution'[r].output] = "answered"
              /\ template'[r] = SELF_CHECK => execution'[r].output = Fallback(TASK)
    PROVE  (Settled(r) /\ Kept(r))'
<1>1. /\ awaiting'[r] = {next}
      /\ \A d \in Call : call'[r][d] = IF d = next THEN "flying" ELSE call[r][d]
  BY AwaitStep DEF OInv, RInv
<1>2. c \in awaiting[r] /\ \A d \in awaiting[r] : call[r][d] = "answered"
  BY DEF Returned
<1>3. status'[r] \in {"new", "in-flight"} /\ status'[r] = status[r]
  BY <1>2, NotOver DEF OInv
<1>4. \A d \in Call : d[1] = TASK /\ d # next => call'[r][d] \in {"none", "answered"}
  BY <1>1, <1>2, <1>3 DEF OInv, Settled
<1>5. next[1] = SELECTION => \A n \in 1 .. held'[r] : call'[r][<<TASK, n>>] = "answered"
  <2>1. held[r] \in 0 .. Capacity /\ held' = held
    BY DEF OInv, RInv, TypeOK
  <2>2. \A n \in 1 .. held[r] : <<TASK, n>> \in Call
    BY <2>1, CallFacts
  <2>3. TASK # SELECTION
    BY DEF TASK, SELECTION
  <2> QED
    BY <1>1, <2>1, <2>2, <2>3
<1>6. next[1] = QUALITY => call'[r][execution'[r].output] = "answered"
  <2>1. TASK # QUALITY
    BY DEF TASK, QUALITY
  <2> QED
    BY <1>1, <2>1
<1>7. Kept(r)'
  BY <1>3 DEF Kept
<1>8. Settled(r)'
  BY <1>1, <1>4, <1>5, <1>6 DEF Settled
<1> QED
  BY <1>7, <1>8

LEMMA SelectOInv ==
    ASSUME OInv, NEW r \in Request, Select(r), RInv'
    PROVE  OInv'
<1> DEFINE drafts == {TASK} \X (1 .. held[r])
<1>1. /\ template[r] = PARALLEL_JUDGE /\ Returned(r, Primary(TASK))
      /\ Await(r, {Primary(SELECTION)})
      /\ execution' = [execution EXCEPT ![r].responses = Extend(@, awaiting[r])]
      /\ UNCHANGED <<status, held, template, diagnostics, record>>
  BY DEF Select, Proceed, lifecycle
<1>2. Primary(TASK) \in Call /\ Primary(SELECTION) \in Call /\ Primary(SELECTION) # Primary(TASK)
      /\ Primary(SELECTION)[1] = SELECTION /\ SELECTION # QUALITY
  BY CallFacts DEF Role, Structured, Primary, TASK, SELECTION, QUALITY
<1>3. \A n \in 1 .. held[r] : call[r][<<TASK, n>>] = "answered"
  <2>1. awaiting[r] = drafts
    BY <1>1 DEF Returned, OInv, Settled
  <2> QED
    BY <1>1, <2>1 DEF Returned
<1>4. (Settled(r) /\ Kept(r))'
  BY <1>1, <1>2, <1>3, GoesOn
<1>5. \A q \in Request \ {r} : (Settled(q) /\ Kept(q))'
  BY <1>1, <1>2, OthersSettled DEF OInv, RInv, TypeOK
<1> QED
  BY <1>4, <1>5 DEF OInv

LEMMA SelfCheckOInv ==
    ASSUME OInv, NEW r \in Request, SelfCheck(r), RInv'
    PROVE  OInv'
<1>1. /\ Returned(r, Primary(TASK)) /\ Await(r, {Fallback(TASK)})
      /\ execution' = [execution EXCEPT ![r].responses = Extend(@, awaiting[r])]
      /\ UNCHANGED <<status, held, template, diagnostics, record>>
  BY DEF SelfCheck, Proceed, lifecycle
<1>2. Primary(TASK) \in Call /\ Fallback(TASK) \in Call /\ Fallback(TASK) # Primary(TASK)
      /\ Fallback(TASK)[1] # SELECTION /\ Fallback(TASK)[1] # QUALITY
  BY CallFacts DEF Role, Primary, Fallback, TASK, SELECTION, QUALITY
<1>3. (Settled(r) /\ Kept(r))'
  BY <1>1, <1>2, GoesOn
<1>4. \A q \in Request \ {r} : (Settled(q) /\ Kept(q))'
  BY <1>1, <1>2, OthersSettled DEF OInv, RInv, TypeOK
<1> QED
  BY <1>3, <1>4 DEF OInv

LEMMA JudgeOInv ==
    ASSUME OInv, NEW r \in Request, NEW c \in Call, Judge(r, c), RInv'
    PROVE  OInv'
<1>1. /\ Returned(r, c) /\ Await(r, {Primary(QUALITY)})
      /\ UNCHANGED <<status, held, template, diagnostics, record>>
  BY DEF Judge, lifecycle
<1>2. Primary(QUALITY) \in Call /\ Primary(QUALITY) # Primary(TASK)
      /\ Primary(QUALITY)[1] = QUALITY /\ SELECTION # QUALITY /\ TASK # SELECTION
  BY CallFacts DEF Role, Structured, Primary, TASK, SELECTION, QUALITY
<1>3. c \in awaiting[r] /\ call[r][c] = "answered"
  BY <1>1 DEF Returned
<1> DEFINE out == IF c[1] = TASK THEN c ELSE <<TASK, text[r][c]>>
<1>4. /\ execution'[r].output = out
      /\ \A q \in Request \ {r} : execution'[q] = execution[q]
  <2>1. execution[r] \in [responses : Tally, events : Tally, output : Output]
        /\ execution \in [Request -> [responses : Tally, events : Tally, output : Output]]
    BY DEF OInv, RInv, TypeOK
  <2>2. execution' = [execution EXCEPT ![r] =
          IF c[1] = TASK
          THEN [execution[r] EXCEPT !.responses = Extend(@, awaiting[r]), !.output = c]
          ELSE [Joined(r, c) EXCEPT !.output = <<TASK, text[r][c]>>]]
    BY DEF Judge
  <2> QED
    BY <2>1, <2>2 DEF Joined
<1>5. /\ out \in Call /\ out[1] = TASK /\ call[r][out] = "answered"
      /\ template[r] = SELF_CHECK => out = Fallback(TASK)
  <2>1. CASE c[1] = TASK
    <3>1. template[r] = SELF_CHECK => c = Fallback(TASK)
      BY <2>1, <1>2 DEF Judge, SELF_CHECK, SINGLE_PASS
    <3> QED
      BY <1>3, <2>1, <3>1
  <2>2. CASE c[1] # TASK
    <3>1. c[1] = SELECTION /\ Parses(r, c)
      BY <2>2 DEF Judge, Primary, Fallback
    <3>2. text[r][c] \in 1 .. held[r] /\ held[r] \in 0 .. Capacity
      BY <3>1 DEF Parses, OInv, RInv, TypeOK
    <3>3. /\ template[r] = PARALLEL_JUDGE
          /\ \A n \in 1 .. held[r] : call[r][<<TASK, n>>] = "answered"
      BY <1>3, <3>1 DEF OInv, Settled
    <3>4. <<TASK, text[r][c]>> \in Call
      BY <3>2, CallFacts
    <3> QED
      BY <2>2, <3>2, <3>3, <3>4 DEF PARALLEL_JUDGE, SELF_CHECK
  <2> QED
    BY <2>1, <2>2
<1> HIDE DEF out
<1>6. (Settled(r) /\ Kept(r))'
  BY <1>1, <1>2, <1>4, <1>5, GoesOn
<1>7. \A q \in Request \ {r} : (Settled(q) /\ Kept(q))'
  BY <1>1, <1>2, <1>4, OthersSettled DEF OInv, RInv, TypeOK
<1> QED
  BY <1>6, <1>7 DEF OInv

LEMMA RepeatOInv ==
    ASSUME OInv, NEW r \in Request, NEW role \in Structured, Repeat(r, role), RInv'
    PROVE  OInv'
<1>1. /\ role # INTENT /\ Returned(r, Primary(role)) /\ Await(r, {Fallback(role)})
      /\ UNCHANGED <<status, held, template, diagnostics, execution, record>>
  BY DEF Repeat, Repeats, lifecycle
<1>2. /\ Primary(role) \in Call /\ Fallback(role) \in Call /\ Fallback(role) # Primary(TASK)
      /\ Fallback(role)[1] = role /\ Primary(role)[1] = role /\ Primary(role) \in awaiting[r]
  BY <1>1, CallFacts DEF Role, Primary, Fallback, Returned
<1>3. (Settled(r) /\ Kept(r))'
  <2>1. role = SELECTION =>
          template[r] = PARALLEL_JUDGE /\ \A n \in 1 .. held[r] : call[r][<<TASK, n>>] = "answered"
    BY <1>2 DEF OInv, Settled
  <2>2. role = QUALITY =>
          /\ execution[r].output \in Call /\ execution[r].output[1] = TASK
          /\ call[r][execution[r].output] = "answered"
          /\ template[r] = SELF_CHECK => execution[r].output = Fallback(TASK)
    BY <1>2 DEF OInv, Settled
  <2> QED
    BY <1>1, <1>2, <2>1, <2>2, GoesOn
<1>4. \A q \in Request \ {r} : (Settled(q) /\ Kept(q))'
  BY <1>1, <1>2, OthersSettled DEF OInv
<1> QED
  BY <1>3, <1>4 DEF OInv

LEMMA RepeatExtractionOInv ==
    ASSUME OInv, NEW r \in Request, RepeatExtraction(r), RInv'
    PROVE  OInv'
<1>1. /\ Returned(r, Primary(INTENT)) /\ Await(r, {Fallback(INTENT)})
      /\ UNCHANGED <<status, held, template, execution, record>>
  BY DEF RepeatExtraction, Repeats, lifecycle
<1>2. /\ Primary(INTENT) \in Call /\ Fallback(INTENT) \in Call /\ Fallback(INTENT) # Primary(TASK)
      /\ Fallback(INTENT)[1] # SELECTION /\ Fallback(INTENT)[1] # QUALITY
  BY CallFacts DEF Role, Structured, Primary, Fallback, INTENT, SELECTION, QUALITY, TASK
<1>3. (Settled(r) /\ Kept(r))'
  BY <1>1, <1>2, GoesOn
<1>4. \A q \in Request \ {r} : (Settled(q) /\ Kept(q))'
  BY <1>1, <1>2, OthersSettled DEF OInv
<1> QED
  BY <1>3, <1>4 DEF OInv

LEMMA SubmitOInv ==
    ASSUME OInv, NEW r \in Request, Submit(r), RInv'
    PROVE  OInv'
<1>1. /\ status[r] = "new" /\ \A c \in Call : call[r][c] = "none"
      /\ Await(r, {Primary(INTENT)})
      /\ UNCHANGED <<status, held, template, execution, record>>
  BY DEF Submit, lifecycle
<1>2. /\ Primary(INTENT) \in Call /\ Primary(INTENT) # Primary(TASK)
      /\ Primary(INTENT)[1] \notin {SELECTION, QUALITY, TASK}
  BY CallFacts DEF Role, Structured, Primary, INTENT, SELECTION, QUALITY, TASK
<1>3. /\ awaiting'[r] = {Primary(INTENT)}
      /\ \A d \in Call : call'[r][d] = IF d = Primary(INTENT) THEN "flying" ELSE call[r][d]
  BY <1>1, <1>2, AwaitStep DEF OInv, RInv
<1>4. (Settled(r) /\ Kept(r))'
  BY <1>1, <1>2, <1>3 DEF Settled, Kept
<1>5. \A q \in Request \ {r} : (Settled(q) /\ Kept(q))'
  BY <1>1, <1>2, OthersSettled DEF OInv
<1> QED
  BY <1>4, <1>5 DEF OInv

LEMMA BeginOInv ==
    ASSUME OInv, NEW r \in Request, Begin(r), RInv'
    PROVE  OInv'
<1> DEFINE drafts == {TASK} \X (1 .. held[r])
<1>1. /\ status[r] = "in-flight" /\ call[r][Primary(TASK)] = "none" /\ Await(r, drafts)
      /\ \A q \in Request \ {r} : template'[q] = template[q]
      /\ UNCHANGED <<status, held, diagnostics, execution, record>>
  BY DEF Begin, lifecycle, OInv, RInv, TypeOK
<1>2. drafts \in SUBSET Call
  <2>1. held[r] \in 0 .. Capacity
    BY DEF OInv, RInv, TypeOK
  <2> QED
    BY <2>1, CallFacts
<1>3. awaiting[r] = {}
  BY <1>1 DEF OInv, RInv, Standing
<1>4. /\ awaiting'[r] = drafts
      /\ \A d \in Call : call'[r][d] = IF d \in drafts THEN "flying" ELSE call[r][d]
  BY <1>1, <1>2, AwaitStep DEF OInv, RInv
<1>5. \A d \in drafts : d[1] = TASK /\ TASK # SELECTION /\ TASK # QUALITY
  BY DEF TASK, SELECTION, QUALITY
<1>6. \A d \in Call : d[1] = TASK /\ d \notin drafts => call'[r][d] \in {"none", "answered"}
  BY <1>1, <1>3, <1>4 DEF OInv, Settled
<1>7. drafts = {TASK} \X (1 .. held'[r])
  BY <1>1
<1> HIDE DEF drafts
<1>8. (Settled(r) /\ Kept(r))'
  BY <1>1, <1>4, <1>5, <1>6, <1>7 DEF Settled, Kept
<1>9. \A q \in Request \ {r} : (Settled(q) /\ Kept(q))'
  BY <1>1, <1>2, OthersSettled DEF OInv
<1> QED
  BY <1>8, <1>9 DEF OInv

\* A coroutine that returns without completing its task.
LEMMA ReturnsOInv ==
    ASSUME OInv, NEW r \in Request, NEW c \in awaiting[r], Await(r, {}), RInv',
           status'[r] # "completed",
           status'[r] = "failed" \/ c[1] = INTENT,
           \A q \in Request \ {r} :
              /\ status'[q] = status[q] /\ held'[q] = held[q] /\ template'[q] = template[q]
              /\ execution'[q] = execution[q] /\ record'[q] = record[q]
    PROVE  OInv'
<1>1. /\ awaiting'[r] = {}
      /\ \A d \in Call : call'[r][d] = call[r][d]
  BY AwaitStep DEF OInv, RInv
<1>2. c[1] = INTENT => status[r] # "failed" /\ \A d \in awaiting[r] : d[1] # TASK
  BY NotOver DEF OInv, INTENT, TASK
<1>3. (Settled(r) /\ Kept(r))'
  BY <1>1, <1>2 DEF OInv, Settled, Kept
<1>4. \A q \in Request \ {r} : (Settled(q) /\ Kept(q))'
  <2>1. {} \in SUBSET Call
    OBVIOUS
  <2> QED
    BY <2>1, OthersSettled
<1> QED
  BY <1>3, <1>4 DEF OInv

LEMMA RefuseOInv ==
    ASSUME OInv, NEW r \in Request, NEW c \in Call,
           RefuseSubmission(r, c) \/ RecordSubmission(r, c) \/ Fail(r, c), RInv'
    PROVE  OInv'
<1>1. CASE RefuseSubmission(r, c)
  <2>1. /\ c[1] = INTENT /\ c \in awaiting[r] /\ Await(r, {})
        /\ UNCHANGED <<status, held, template, execution, record>>
    BY <1>1 DEF RefuseSubmission, GivesUp, Returned, lifecycle
  <2>2. status'[r] # "completed"
    BY <2>1, NotOver DEF OInv
  <2> QED
    BY <2>1, <2>2, ReturnsOInv
<1>2. CASE RecordSubmission(r, c)
  <2>1. /\ c[1] = INTENT /\ c \in awaiting[r] /\ Await(r, {})
        /\ UNCHANGED <<held, template, execution>>
        /\ \E next \in {"queued", "rejected"} : status' = [status EXCEPT ![r] = next]
    BY <1>2 DEF RecordSubmission, Returned, S!Arrive
  <2>2. \A q \in Request \ {r} : record'[q] = record[q] /\ status'[q] = status[q]
    BY <1>2, <2>1 DEF RecordSubmission, OInv, RInv, TypeOK
  <2>3. status'[r] # "completed"
    BY <2>1 DEF OInv, RInv, TypeOK
  <2> QED
    BY <2>1, <2>2, <2>3, ReturnsOInv
<1>3. CASE Fail(r, c)
  <2>1. /\ c \in awaiting[r] /\ Await(r, {}) /\ status'[r] = "failed"
        /\ UNCHANGED <<template, execution, record>>
        /\ held' = [held EXCEPT ![r] = 0]
        /\ \E next \in {"completed", "failed"} : status' = [status EXCEPT ![r] = next]
    BY <1>3 DEF Fail, GivesUp, S!Release
  <2>2. \A q \in Request \ {r} : held'[q] = held[q] /\ status'[q] = status[q]
    BY <2>1 DEF OInv, RInv, TypeOK
  <2> QED
    BY <2>1, <2>2, ReturnsOInv
<1> QED
  BY <1>1, <1>2, <1>3

LEMMA CompleteOInv ==
    ASSUME OInv, NEW r \in Request, NEW c \in Call, Complete(r, c), RInv'
    PROVE  OInv'
<1>1. /\ c[1] = QUALITY /\ Returned(r, c) /\ c \in awaiting[r] /\ Await(r, {})
      /\ status'[r] = "completed" /\ UNCHANGED template
      /\ execution' = [execution EXCEPT ![r] = Joined(r, c)]
      /\ record' = [record EXCEPT ![r] = Recorded(r, Joined(r, c))]
      /\ held' = [held EXCEPT ![r] = 0]
      /\ \E next \in {"completed", "failed"} : status' = [status EXCEPT ![r] = next]
  BY DEF Complete, Returned, S!Release
<1>2. /\ awaiting'[r] = {}
      /\ \A d \in Call : call'[r][d] = call[r][d]
  <2>1. {} \in SUBSET Call
    OBVIOUS
  <2> QED
    BY <1>1, <2>1, AwaitStep DEF OInv, RInv
<1>3. record'[r].output = execution[r].output
  <2>1. Joined(r, c).output = execution[r].output
    BY DEF Joined, OInv, RInv, TypeOK
  <2>2. record'[r] = Recorded(r, Joined(r, c))
    BY <1>1 DEF OInv, RInv, TypeOK
  <2> QED
    BY <2>1, <2>2 DEF Recorded
<1>4. Kept(r)'
  BY <1>1, <1>2, <1>3 DEF OInv, Settled, Kept
<1>5. status[r] # "failed" /\ \A d \in awaiting[r] : call[r][d] = "answered"
  BY <1>1, NotOver DEF OInv, Returned
<1>6. Settled(r)'
  BY <1>2, <1>5 DEF OInv, Settled
<1>7. \A q \in Request \ {r} :
        /\ status'[q] = status[q] /\ held'[q] = held[q] /\ template'[q] = template[q]
        /\ execution'[q] = execution[q] /\ record'[q] = record[q]
  BY <1>1 DEF OInv, RInv, TypeOK
<1>8. \A q \in Request \ {r} : (Settled(q) /\ Kept(q))'
  <2>1. {} \in SUBSET Call
    OBVIOUS
  <2> QED
    BY <1>1, <1>7, <2>1, OthersSettled
<1> QED
  BY <1>4, <1>6, <1>8 DEF OInv

LEMMA AnswerOInv ==
    ASSUME OInv, NEW r \in Request, NEW c \in Call, Answer(r, c), RInv'
    PROVE  OInv'
<1>1. PICK ending \in {"answered", "raised"} : call' = [call EXCEPT ![r][c] = ending]
  BY DEF Answer
<1>2. /\ call[r][c] = "flying" /\ c \in awaiting[r]
      /\ UNCHANGED <<status, held, template, awaiting, execution, record>>
  BY DEF Answer, lifecycle, OInv, RInv, Standing
<1>3. \A d \in Call : call'[r][d] = IF d = c THEN ending ELSE call[r][d]
  BY <1>1 DEF OInv, RInv, TypeOK
<1>4. \A q \in Request \ {r} : call'[q] = call[q]
  BY <1>1 DEF OInv, RInv, TypeOK
<1>5. \A q \in Request \ {r} : (Settled(q) /\ Kept(q))'
  BY <1>2, <1>4, SettledElsewhere DEF OInv
<1>6. Kept(r)'
  BY <1>2, NotOver DEF OInv, Kept
<1>7. Settled(r)'
  <2>1. status[r] # "failed" => \A d \in Call : d[1] = TASK /\ d \notin awaiting'[r] =>
          call'[r][d] \in {"none", "answered"}
    BY <1>2, <1>3 DEF OInv, Settled
  <2>2. \A d \in awaiting[r] : d[1] = SELECTION =>
          /\ template[r] = PARALLEL_JUDGE
          /\ \A n \in 1 .. held[r] : call'[r][<<TASK, n>>] = "answered"
    <3>1. held[r] \in 0 .. Capacity
      BY DEF OInv, RInv, TypeOK
    <3>2. \A n \in 1 .. held[r] : <<TASK, n>> \in Call
      BY <3>1, CallFacts
    <3> QED
      BY <1>2, <1>3, <3>2 DEF OInv, Settled
  <2>3. \A d \in awaiting[r] : d[1] = QUALITY =>
          /\ execution[r].output \in Call /\ execution[r].output[1] = TASK
          /\ call'[r][execution[r].output] = "answered"
          /\ template[r] = SELF_CHECK => execution[r].output = Fallback(TASK)
    BY <1>2, <1>3 DEF OInv, Settled
  <2> QED
    BY <1>2, <2>1, <2>2, <2>3 DEF OInv, Settled
<1> QED
  BY <1>5, <1>6, <1>7 DEF OInv

\* The scheduler moves no request that awaits a call, and completes none.
LEMMA QueueOInv ==
    ASSUME OInv, Dispatch \/ \E r \in Request : Cancel(r), RInv'
    PROVE  OInv'
<1>1. UNCHANGED <<template, call, awaiting, execution, record>>
  BY DEF Dispatch, Cancel, calls
<1>2. ASSUME NEW q \in Request
      PROVE  \/ status'[q] = status[q] /\ held'[q] = held[q]
             \/ status[q] = "queued" /\ status'[q] # "completed"
  BY DEF Dispatch, Cancel, S!Dispatch, S!Withdraw, OInv, RInv, TypeOK
<1>3. ASSUME NEW q \in Request PROVE (Settled(q) /\ Kept(q))'
  <2>1. CASE status'[q] = status[q] /\ held'[q] = held[q]
    BY <1>1, <2>1, SettledElsewhere DEF OInv
  <2>2. CASE status[q] = "queued" /\ status'[q] # "completed"
    <3>1. awaiting[q] = {}
      BY <2>2, QueuedIdle DEF OInv, RInv
    <3> QED
      BY <1>1, <2>2, <3>1 DEF OInv, Settled, Kept
  <2> QED
    BY <1>2, <2>1, <2>2
<1> QED
  BY <1>3 DEF OInv

LEMMA NextOInv == OInv /\ [Next]_vars => OInv'
<1> SUFFICES ASSUME OInv, [Next]_vars PROVE OInv'
  OBVIOUS
<1>1. RInv'
  BY NextRInv DEF OInv
<1>2. ASSUME NEW r \in Request, Submit(r) \/ RepeatExtraction(r) \/ Begin(r) PROVE OInv'
  BY <1>1, <1>2, SubmitOInv, RepeatExtractionOInv, BeginOInv
<1>3. ASSUME NEW r \in Request, SelfCheck(r) \/ Select(r) PROVE OInv'
  BY <1>1, <1>3, SelfCheckOInv, SelectOInv
<1>4. ASSUME NEW r \in Request, NEW role \in Structured, Repeat(r, role) PROVE OInv'
  BY <1>1, <1>4, RepeatOInv
<1>5. ASSUME NEW r \in Request, NEW c \in Call,
             RefuseSubmission(r, c) \/ RecordSubmission(r, c) \/ Fail(r, c)
      PROVE  OInv'
  BY <1>1, <1>5, RefuseOInv
<1>6. ASSUME NEW r \in Request, NEW c \in Call, Judge(r, c) \/ Complete(r, c) \/ Answer(r, c)
      PROVE  OInv'
  BY <1>1, <1>6, JudgeOInv, CompleteOInv, AnswerOInv
<1>7. CASE Dispatch \/ \E r \in Request : Cancel(r)
  BY <1>1, <1>7, QueueOInv
<1>8. CASE UNCHANGED vars
  BY <1>1, <1>8, SettledElsewhere DEF vars, OInv
<1> QED
  BY <1>2, <1>3, <1>4, <1>5, <1>6, <1>7, <1>8 DEF Next, Resume

\* A completed record holds the answer to a call of its own task, the checked
\* one if there is a check; no draft is missing or failed, and no winner is
\* one that does not exist.
THEOREM OutputTheorem == Spec => []OutputExists
<1>1. ASSUME OInv PROVE OutputExists
  <2>1. ASSUME NEW r \in Request, status[r] = "completed"
        PROVE  /\ call[r][record[r].output] = "answered"
               /\ template[r] = SELF_CHECK => record[r].output = Fallback(TASK)
               /\ \A c \in Call : c[1] = TASK => call[r][c] \in {"none", "answered"}
    <3>1. awaiting[r] = {}
      BY <1>1, <2>1, NotOver DEF OInv
    <3> QED
      BY <1>1, <2>1, <3>1 DEF OInv, Settled, Kept
  <2> QED
    BY <2>1 DEF OutputExists
<1> QED
  BY <1>1, OInvInit, NextOInv, PTL DEF Spec
-----------------------------------------------------------------------------
(* What is recorded as usage *)

Work == {TASK, SELECTION, QUALITY}

\* The answers of a role the coroutine of r has gone on with.
Past(r, role) ==
    {c \in Call : c[1] = role /\ call[r][c] = "answered" /\ c \notin awaiting[r]}
Fresh(r, roles) == \A c \in Call : c[1] \in roles => call[r][c] = "none"

\* Extraction and execution have in their lists the answers they went on
\* with, but for those of a structured call that has not returned yet; a call
\* is made once; the record has what it must have.
Extracting(r) ==
    status[r] = "new" =>
        \A role \in Role : diagnostics[r].responses[role] = Cardinality(Past(r, role))
Untouched(r) ==
    status[r] \in {"new", "queued"} \/ (status[r] = "in-flight" /\ call[r][Primary(TASK)] = "none") =>
        Fresh(r, Work) /\ execution[r].responses = Nothing
Sequel(r, c) ==
    /\ \A role \in Structured :
          /\ c = Primary(role) => call[r][Fallback(role)] = "none"
          /\ c = Fallback(role) => call[r][Primary(role)] = "answered"
    /\ c[1] = TASK => Fresh(r, {SELECTION, QUALITY})
    /\ c[1] = SELECTION => Fresh(r, {QUALITY})
    /\ c = Primary(TASK) /\ template[r] = SELF_CHECK => call[r][Fallback(TASK)] = "none"
Listed(r, c) ==
    c[1] # INTENT =>
        \A role \in Role :
            execution[r].responses[role] =
                IF role = INTENT \/ (role = c[1] /\ role # TASK) THEN 0
                ELSE Cardinality(Past(r, role))
Booked(r) ==
    status[r] # "new" =>
        record[r].accounting =
            IF status[r] = "completed"
            THEN [task |-> Cardinality(Answered(r, {TASK})),
                  overhead |-> Cardinality(Answered(r, Structured))]
            ELSE [task |-> 0, overhead |-> Cardinality(Answered(r, {INTENT}))]

Accounted(r) ==
    /\ Extracting(r) /\ Untouched(r) /\ Booked(r)
    /\ \A c \in awaiting[r] : Sequel(r, c) /\ Listed(r, c)

AInv == RInv /\ \A r \in Request : Accounted(r)

LEMMA CallSubsetFinite == \A X \in SUBSET Call : IsFiniteSet(X) /\ Cardinality(X) \in Nat
<1>1. ASSUME NEW X \in SUBSET Call PROVE IsFiniteSet(X) /\ Cardinality(X) \in Nat
  <2>1. IsFiniteSet(X)
    BY CallFacts, FS_Subset
  <2> QED
    BY <2>1, FS_CardinalityType
<1> QED
  BY <1>1

\* What a coroutine goes on with is new to it, and counts once.
LEMMA PastGrows ==
    ASSUME RInv, NEW r \in Request, NEW made \in SUBSET Call, Await(r, made),
           \A c \in made : call[r][c] = "none", NEW role
    PROVE  /\ Past(r, role)' =
                Past(r, role) \cup {c \in {d \in awaiting[r] : call[r][d] = "answered"} : c[1] = role}
           /\ Cardinality(Past(r, role)') = Cardinality(Past(r, role))
                + Cardinality({c \in {d \in awaiting[r] : call[r][d] = "answered"} : c[1] = role})
<1> DEFINE past == Past(r, role)
           heard == {c \in {d \in awaiting[r] : call[r][d] = "answered"} : c[1] = role}
<1>1. /\ awaiting'[r] = made
      /\ \A c \in Call : call'[r][c] = IF c \in made THEN "flying" ELSE call[r][c]
  BY AwaitStep DEF RInv
<1>2. awaiting[r] \subseteq Call
  BY DEF RInv, TypeOK
<1>3. past \in SUBSET Call /\ heard \in SUBSET Call /\ past \cap heard = {}
  BY <1>2 DEF Past
<1>4. Past(r, role)' = past \cup heard
  BY <1>1, <1>2 DEF Past
<1> HIDE DEF past, heard
<1>5. IsFiniteSet(past) /\ IsFiniteSet(heard) /\ Cardinality(past) \in Nat /\ Cardinality(heard) \in Nat
  BY <1>3, CallSubsetFinite
<1>6. Cardinality(past \cup heard) = Cardinality(past) + Cardinality(heard) - Cardinality(past \cap heard)
  BY <1>5, FS_Union
<1>7. Cardinality(past \cap heard) = 0
  BY <1>3, FS_EmptySet
<1>8. Cardinality(past \cup heard) = Cardinality(past) + Cardinality(heard)
  BY <1>5, <1>6, <1>7
<1> QED
  BY <1>4, <1>8 DEF past, heard

LEMMA FreshCount ==
    ASSUME NEW r, NEW roles, Fresh(r, roles), NEW role \in roles
    PROVE  Past(r, role) = {} /\ Cardinality(Past(r, role)) = 0
<1>1. Past(r, role) = {}
  BY DEF Past, Fresh
<1> QED
  BY <1>1, FS_EmptySet

LEMMA PastType == \A r, role : Cardinality(Past(r, role)) \in Nat
<1>1. ASSUME NEW r, NEW role PROVE Past(r, role) \in SUBSET Call
  BY DEF Past
<1> QED
  BY <1>1, CallSubsetFinite

\* A structured role has two calls, the second made after the first.
LEMMA StructuredCalls ==
    ASSUME NEW c \in Call, c[1] \in Structured
    PROVE  /\ c \in {Primary(c[1]), Fallback(c[1])} /\ Primary(c[1]) # Fallback(c[1])
           /\ \A d \in Call : d[1] = c[1] => d \in {Primary(c[1]), Fallback(c[1])}
BY DEF Call, Structured, Primary, Fallback, TASK, INTENT, SELECTION, QUALITY

LEMMA AnsweredPair ==
    ASSUME AInv, NEW r \in Request, NEW c \in Call, Returned(r, c), c[1] \in Structured
    PROVE  /\ awaiting[r] = {c}
           /\ {d \in Call : d[1] = c[1] /\ call[r][d] = "answered"} = {c[1]} \X (1 .. c[2])
<1> DEFINE role == c[1]
<1>1. c \in awaiting[r] /\ call[r][c] = "answered"
  BY DEF Returned
<1>2. c \in {Primary(role), Fallback(role)} /\ Primary(role) # Fallback(role)
      /\ Primary(role) \in Call /\ Fallback(role) \in Call
      /\ \A d \in Call : d[1] = role => d \in {Primary(role), Fallback(role)}
  BY StructuredCalls, CallFacts DEF Role
<1>3. Primary(role)[1] = role /\ Fallback(role)[1] = role
  BY DEF Primary, Fallback
<1>4. awaiting[r] = {c}
  <2>1. c \notin {TASK} \X (1 .. held[r])
    BY DEF Structured, TASK, INTENT, SELECTION, QUALITY
  <2> QED
    BY <1>1, <2>1 DEF AInv, RInv, Standing
<1>5. /\ c = Primary(role) => call[r][Fallback(role)] = "none"
      /\ c = Fallback(role) => call[r][Primary(role)] = "answered"
  BY <1>1 DEF AInv, Accounted, Sequel
<1>6. CASE c = Primary(role)
  <2>1. {role} \X (1 .. c[2]) = {Primary(role)}
    BY <1>6 DEF Primary
  <2> QED
    BY <1>1, <1>2, <1>3, <1>4, <1>5, <1>6, <2>1
<1>7. CASE c = Fallback(role)
  <2>1. {role} \X (1 .. c[2]) = {Primary(role), Fallback(role)}
    BY <1>7 DEF Primary, Fallback
  <2> QED
    BY <1>1, <1>2, <1>3, <1>4, <1>5, <1>7, <2>1
<1> QED
  BY <1>2, <1>6, <1>7

LEMMA AInvInit == Init => AInv
<1> SUFFICES ASSUME Init PROVE AInv
  OBVIOUS
<1>1. ASSUME NEW r \in Request PROVE Accounted(r)
  <2>1. status[r] = "new" /\ awaiting[r] = {} /\ Fresh(r, Role)
        /\ diagnostics[r] = NoDiagnostics /\ execution[r] = NoExecution
    BY DEF Init, S!Init, Fresh
  <2>2. Extracting(r)
    BY <2>1, FreshCount DEF Extracting, NoDiagnostics, Nothing
  <2>3. Untouched(r)
    BY <2>1 DEF Untouched, Fresh, NoExecution, Work, Role, Structured
  <2>4. Booked(r)
    BY <2>1 DEF Booked
  <2> QED
    BY <2>1, <2>2, <2>3, <2>4 DEF Accounted
<1> QED
  BY <1>1, RInvInit DEF AInv

\* Requests a step is not about.
LEMMA AccountedElsewhere ==
    ASSUME NEW r \in Request, Accounted(r),
           call'[r] = call[r], awaiting'[r] = awaiting[r], status'[r] = status[r],
           template'[r] = template[r], diagnostics'[r] = diagnostics[r],
           execution'[r] = execution[r], record'[r] = record[r]
    PROVE  Accounted(r)'
<1>1. \A role : Past(r, role)' = Past(r, role)
  BY DEF Past
<1>2. \A roles : Answered(r, roles)' = Answered(r, roles) /\ (Fresh(r, roles)' <=> Fresh(r, roles))
  BY DEF Answered, Fresh
<1>3. Extracting(r)' /\ Untouched(r)' /\ Booked(r)'
  BY <1>1, <1>2 DEF Accounted, Extracting, Untouched, Booked
<1>4. \A c \in awaiting[r] : Sequel(r, c)' /\ Listed(r, c)'
  BY <1>1, <1>2 DEF Accounted, Sequel, Listed
<1> QED
  BY <1>3, <1>4 DEF Accounted

LEMMA OthersAccounted ==
    ASSUME AInv, NEW r \in Request, NEW made \in SUBSET Call, Await(r, made), RInv', Accounted(r)',
           \A q \in Request \ {r} :
              /\ status'[q] = status[q] /\ template'[q] = template[q]
              /\ diagnostics'[q] = diagnostics[q]
              /\ execution'[q] = execution[q] /\ record'[q] = record[q]
    PROVE  AInv'
<1>1. \A q \in Request \ {r} : call'[q] = call[q] /\ awaiting'[q] = awaiting[q]
  BY AwaitStep DEF AInv, RInv
<1>2. \A q \in Request \ {r} : Accounted(q)'
  BY <1>1, AccountedElsewhere DEF AInv
<1> QED
  BY <1>2 DEF AInv

\* The extraction.
LEMMA SubmitAInv ==
    ASSUME AInv, NEW r \in Request, Submit(r), RInv'
    PROVE  AInv'
<1>1. /\ status[r] = "new" /\ \A c \in Call : call[r][c] = "none"
      /\ Await(r, {Primary(INTENT)}) /\ diagnostics' = [diagnostics EXCEPT ![r] = NoDiagnostics]
      /\ UNCHANGED <<status, held, template, execution, record>>
  BY DEF Submit, lifecycle, Extractor
<1>2. /\ Primary(INTENT) \in Call /\ Primary(INTENT)[1] = INTENT /\ Primary(INTENT) # Primary(TASK)
      /\ Fallback(INTENT) \in Call /\ Primary(INTENT) # Fallback(INTENT)
  BY CallFacts DEF Role, Structured, Primary, Fallback, INTENT, TASK
<1>3. /\ awaiting'[r] = {Primary(INTENT)}
      /\ \A d \in Call : call'[r][d] = IF d = Primary(INTENT) THEN "flying" ELSE call[r][d]
  BY <1>1, <1>2, AwaitStep DEF AInv, RInv
<1>4. diagnostics'[r] = NoDiagnostics
      /\ \A q \in Request \ {r} : diagnostics'[q] = diagnostics[q]
  BY <1>1 DEF AInv, RInv, TypeOK
<1>5. Extracting(r)'
  <2>1. \A role \in Role : Past(r, role)' = {}
    BY <1>1, <1>3 DEF Past
  <2>2. \A role \in Role : Cardinality(Past(r, role)') = 0
    BY <2>1, FS_EmptySet
  <2> QED
    BY <1>4, <2>2 DEF Extracting, NoDiagnostics, Nothing
<1>6. Untouched(r)'
  <2>1. Fresh(r, Work)'
    BY <1>1, <1>2, <1>3 DEF Fresh, Work, INTENT, TASK, SELECTION, QUALITY
  <2>2. execution'[r].responses = Nothing
    BY <1>1 DEF AInv, Accounted, Untouched
  <2> QED
    BY <2>1, <2>2 DEF Untouched
<1>7. \A c \in awaiting'[r] : Sequel(r, c)' /\ Listed(r, c)'
  <2>1. Sequel(r, Primary(INTENT))'
    BY <1>1, <1>2, <1>3 DEF Sequel, Primary, Fallback, INTENT, TASK, SELECTION
  <2>2. Listed(r, Primary(INTENT))'
    BY <1>2 DEF Listed
  <2> QED
    BY <1>3, <2>1, <2>2
<1>8. Accounted(r)'
  BY <1>1, <1>5, <1>6, <1>7 DEF Accounted, Booked
<1> QED
  BY <1>1, <1>2, <1>4, <1>8, OthersAccounted

\* What the extractor has heard is what is past once the coroutine goes on.
LEMMA HeardCounts ==
    ASSUME AInv, NEW r \in Request, NEW made \in SUBSET Call, Await(r, made),
           \A c \in made : call[r][c] = "none", status[r] = "new"
    PROVE  \A role \in Role : Heard(r).responses[role] = Cardinality(Past(r, role)')
<1> DEFINE heard == {d \in awaiting[r] : call[r][d] = "answered"}
<1>1. diagnostics[r] \in [responses : Tally, events : Tally]
  BY DEF AInv, RInv, TypeOK
<1>2. Heard(r).responses = Extend(diagnostics[r].responses, heard)
  BY <1>1 DEF Heard, Extractor
<1>3. ASSUME NEW role \in Role
      PROVE  Heard(r).responses[role] = Cardinality(Past(r, role)')
  <2>1. Heard(r).responses[role] =
          diagnostics[r].responses[role] + Cardinality({c \in heard : c[1] = role})
    BY <1>2 DEF Extend
  <2>2. diagnostics[r].responses[role] = Cardinality(Past(r, role))
    BY DEF AInv, Accounted, Extracting
  <2>3. Cardinality(Past(r, role)') =
          Cardinality(Past(r, role)) + Cardinality({c \in heard : c[1] = role})
    BY PastGrows DEF AInv
  <2> QED
    BY <2>1, <2>2, <2>3
<1> QED
  BY <1>3

LEMMA RepeatExtractionAInv ==
    ASSUME AInv, NEW r \in Request, RepeatExtraction(r), RInv'
    PROVE  AInv'
<1>1. /\ Returned(r, Primary(INTENT)) /\ Primary(INTENT) \in awaiting[r]
      /\ call[r][Primary(INTENT)] = "answered" /\ Await(r, {Fallback(INTENT)})
      /\ diagnostics' = [diagnostics EXCEPT ![r] =
            [Heard(r) EXCEPT !.events = Extend(@, {Primary(INTENT)})]]
      /\ UNCHANGED <<status, held, template, execution, record>>
  BY DEF RepeatExtraction, Repeats, Returned, lifecycle, Extractor
<1>2. /\ Primary(INTENT) \in Call /\ Fallback(INTENT) \in Call /\ Fallback(INTENT)[1] = INTENT
      /\ Primary(INTENT)[1] = INTENT /\ Primary(INTENT) # Fallback(INTENT) /\ INTENT \in Structured
  BY CallFacts DEF Role, Structured, Primary, Fallback
<1>3. status[r] = "new" /\ call[r][Fallback(INTENT)] = "none"
  BY <1>1, <1>2 DEF AInv, RInv, Standing, Accounted, Sequel
<1>4. /\ awaiting'[r] = {Fallback(INTENT)}
      /\ \A d \in Call : call'[r][d] = IF d = Fallback(INTENT) THEN "flying" ELSE call[r][d]
  BY <1>1, <1>2, AwaitStep DEF AInv, RInv
<1>5. diagnostics'[r].responses = Heard(r).responses
      /\ \A q \in Request \ {r} : diagnostics'[q] = diagnostics[q]
  <2>1. Heard(r) \in [responses : Tally, events : Tally]
    BY HeardType DEF AInv, RInv
  <2> QED
    BY <1>1, <2>1 DEF AInv, RInv, TypeOK
<1>6. Extracting(r)'
  BY <1>1, <1>2, <1>3, <1>5, HeardCounts DEF Extracting
<1>7. Untouched(r)'
  <2>1. Fresh(r, Work) /\ execution[r].responses = Nothing
    BY <1>3 DEF AInv, Accounted, Untouched
  <2>2. Fresh(r, Work)'
    BY <1>2, <1>4, <2>1 DEF Fresh, Work, INTENT, TASK, SELECTION, QUALITY
  <2> QED
    BY <1>1, <2>1, <2>2 DEF Untouched
<1>8. \A c \in awaiting'[r] : Sequel(r, c)' /\ Listed(r, c)'
  <2>1. Sequel(r, Fallback(INTENT))'
    BY <1>1, <1>2, <1>4 DEF Sequel, Primary, Fallback, INTENT, TASK, SELECTION
  <2>2. Listed(r, Fallback(INTENT))'
    BY <1>2 DEF Listed
  <2> QED
    BY <1>4, <2>1, <2>2
<1>9. Accounted(r)'
  BY <1>1, <1>3, <1>6, <1>7, <1>8 DEF Accounted, Booked
<1> QED
  BY <1>1, <1>2, <1>5, <1>9, OthersAccounted

LEMMA RefuseAInv ==
    ASSUME AInv, NEW r \in Request, NEW c \in Call, RefuseSubmission(r, c), RInv'
    PROVE  AInv'
<1>1. /\ c[1] = INTENT /\ c \in awaiting[r] /\ Await(r, {})
      /\ diagnostics' = [diagnostics EXCEPT ![r] = Heard(r)]
      /\ UNCHANGED <<status, held, template, execution, record>>
  BY DEF RefuseSubmission, GivesUp, Returned, lifecycle, Extractor
<1>2. {} \in SUBSET Call
  OBVIOUS
<1>3. status[r] = "new"
  BY <1>1 DEF AInv, RInv, Standing
<1>4. awaiting'[r] = {} /\ \A d \in Call : call'[r][d] = call[r][d]
  BY <1>1, <1>2, AwaitStep DEF AInv, RInv
<1>5. diagnostics'[r] = Heard(r) /\ \A q \in Request \ {r} : diagnostics'[q] = diagnostics[q]
  BY <1>1 DEF AInv, RInv, TypeOK
<1>6. Extracting(r)'
  BY <1>1, <1>2, <1>3, <1>5, HeardCounts DEF Extracting
<1>7. Untouched(r)'
  BY <1>1, <1>3, <1>4 DEF AInv, Accounted, Untouched, Fresh
<1>8. Accounted(r)'
  BY <1>1, <1>3, <1>4, <1>6, <1>7 DEF Accounted, Booked
<1> QED
  BY <1>1, <1>2, <1>5, <1>8, OthersAccounted

LEMMA RecordAInv ==
    ASSUME AInv, NEW r \in Request, NEW c \in Call, RecordSubmission(r, c), RInv'
    PROVE  AInv'
<1>1. /\ c[1] = INTENT /\ c \in awaiting[r] /\ Await(r, {})
      /\ diagnostics' = [diagnostics EXCEPT ![r] = Heard(r)]
      /\ record' = [record EXCEPT ![r] =
            [accounting |-> Account(Heard(r).responses), events |-> Heard(r).events,
             output |-> NoOutput]]
      /\ \E next \in {"queued", "rejected"} : status' = [status EXCEPT ![r] = next]
      /\ UNCHANGED <<held, template, execution>>
  BY DEF RecordSubmission, Returned, S!Arrive, Extractor
<1>2. {} \in SUBSET Call
  OBVIOUS
<1>3. status[r] = "new" /\ status'[r] \in {"queued", "rejected"}
  BY <1>1 DEF AInv, RInv, TypeOK, Standing
<1>4. awaiting'[r] = {} /\ \A d \in Call : call'[r][d] = call[r][d]
  BY <1>1, <1>2, AwaitStep DEF AInv, RInv
<1>5. /\ record'[r].accounting = Account(Heard(r).responses)
      /\ \A q \in Request \ {r} :
            /\ diagnostics'[q] = diagnostics[q] /\ record'[q] = record[q] /\ status'[q] = status[q]
  BY <1>1 DEF AInv, RInv, TypeOK
<1>6. Fresh(r, Work) /\ Fresh(r, Work)'
  BY <1>3, <1>4 DEF AInv, Accounted, Untouched, Fresh
<1>7. Untouched(r)'
  BY <1>1, <1>3, <1>6 DEF AInv, Accounted, Untouched
<1>8. Booked(r)'
  <2>1. /\ TASK \in Role /\ INTENT \in Role /\ SELECTION \in Role /\ QUALITY \in Role
        /\ TASK \in Work /\ SELECTION \in Work /\ QUALITY \in Work
    BY DEF Role, Structured, Work
  <2>2. \A role \in Role : Heard(r).responses[role] = Cardinality(Past(r, role)')
    BY <1>1, <1>2, <1>3, HeardCounts
  <2>3. \A role \in Work : Past(r, role)' = {}
    BY <1>6 DEF Past, Fresh
  <2>4. \A role \in Work : Cardinality(Past(r, role)') = 0
    BY <2>3, FS_EmptySet
  <2>5. Past(r, INTENT)' = Answered(r, {INTENT})'
    BY <1>4 DEF Past, Answered
  <2>6. Cardinality(Past(r, INTENT)') \in Nat
    <3>1. Past(r, INTENT)' \in SUBSET Call
      BY DEF Past
    <3> QED
      BY <3>1, CallSubsetFinite
  <2>7. Account(Heard(r).responses) =
          [task |-> 0, overhead |-> Cardinality(Answered(r, {INTENT})')]
    BY <2>1, <2>2, <2>4, <2>5, <2>6 DEF Account
  <2> QED
    BY <1>3, <1>5, <2>7 DEF Booked
<1>9. Accounted(r)'
  BY <1>3, <1>4, <1>7, <1>8 DEF Accounted, Extracting
<1> QED
  BY <1>1, <1>2, <1>5, <1>9, OthersAccounted

\* The queue, and the answers of the provider.
LEMMA QueueAInv ==
    ASSUME AInv, Dispatch \/ \E r \in Request : Cancel(r), RInv'
    PROVE  AInv'
<1>1. UNCHANGED <<template, call, awaiting, diagnostics, execution, record>>
  BY DEF Dispatch, Cancel, calls
<1>2. ASSUME NEW q \in Request
      PROVE  \/ status'[q] = status[q]
             \/ status[q] = "queued" /\ status'[q] \notin {"new", "completed"}
  BY DEF Dispatch, Cancel, S!Dispatch, S!Withdraw, AInv, RInv, TypeOK
<1>3. ASSUME NEW q \in Request PROVE Accounted(q)'
  <2>1. CASE status'[q] = status[q]
    BY <1>1, <2>1, AccountedElsewhere DEF AInv
  <2>2. CASE status[q] = "queued" /\ status'[q] \notin {"new", "completed"}
    <3>1. awaiting[q] = {}
      BY <2>2, QueuedIdle DEF AInv, RInv
    <3>2. Fresh(q, Work)' /\ execution'[q].responses = Nothing
      BY <1>1, <2>2 DEF AInv, Accounted, Untouched, Fresh
    <3>3. Booked(q)'
      BY <1>1, <2>2 DEF AInv, Accounted, Booked, Answered
    <3> QED
      BY <1>1, <2>2, <3>1, <3>2, <3>3 DEF Accounted, Extracting, Untouched
  <2> QED
    BY <1>2, <2>1, <2>2
<1> QED
  BY <1>3 DEF AInv

LEMMA AnswerAInv ==
    ASSUME AInv, NEW r \in Request, NEW c \in Call, Answer(r, c), RInv'
    PROVE  AInv'
<1>1. PICK ending \in {"answered", "raised"} : call' = [call EXCEPT ![r][c] = ending]
  BY DEF Answer
<1>2. /\ call[r][c] = "flying" /\ c \in awaiting[r]
      /\ UNCHANGED <<status, held, template, awaiting, diagnostics, execution, record>>
  BY DEF Answer, lifecycle, AInv, RInv, Standing
<1>3. \A d \in Call : call'[r][d] = IF d = c THEN ending ELSE call[r][d]
  BY <1>1 DEF AInv, RInv, TypeOK
<1>4. \A q \in Request \ {r} : call'[q] = call[q]
  BY <1>1 DEF AInv, RInv, TypeOK
<1>5. \A q \in Request \ {r} : Accounted(q)'
  BY <1>2, <1>4, AccountedElsewhere DEF AInv
<1>6. \A role : Past(r, role)' = Past(r, role)
  BY <1>2, <1>3 DEF Past
<1>7. /\ status[r] \in {"new", "in-flight"} /\ (status[r] = "new" <=> c[1] = INTENT)
      /\ c[1] # INTENT => call[r][Primary(TASK)] # "none" /\ call'[r][Primary(TASK)] # "none"
  <2>1. Primary(TASK) \in Call
    BY CallFacts DEF Role
  <2> QED
    BY <1>2, <1>3, <2>1 DEF AInv, RInv, Standing
<1>8. \A d \in Call : /\ call[r][d] = "none" => call'[r][d] = "none"
                      /\ call[r][d] = "answered" => call'[r][d] = "answered"
  BY <1>2, <1>3
<1>9. Extracting(r)' /\ Untouched(r)'
  BY <1>2, <1>6, <1>7, <1>8 DEF AInv, Accounted, Extracting, Untouched, Fresh
<1>10. Booked(r)'
  <2>1. c[1] # INTENT => Answered(r, {INTENT})' = Answered(r, {INTENT})
    BY <1>3 DEF Answered
  <2> QED
    BY <1>2, <1>7, <2>1 DEF AInv, Accounted, Booked
<1>11. ASSUME NEW d \in awaiting'[r] PROVE Sequel(r, d)' /\ Listed(r, d)'
  <2>1. Sequel(r, d) /\ Listed(r, d)
    BY <1>2, <1>11 DEF AInv, Accounted
  <2>2. Sequel(r, d)'
    <3>1. \A role \in Role : Primary(role) \in Call /\ Fallback(role) \in Call
      BY CallFacts
    <3> QED
      BY <1>2, <1>8, <2>1, <3>1 DEF Sequel, Fresh, Role
  <2>3. Listed(r, d)'
    BY <1>2, <1>6, <2>1 DEF Listed
  <2> QED
    BY <2>2, <2>3
<1> QED
  BY <1>5, <1>9, <1>10, <1>11 DEF AInv, Accounted


\* The execution.  The task's answers join those it went on with before.
LEMMA AnswersJoin ==
    ASSUME AInv, NEW r \in Request, NEW c \in Call, Returned(r, c), c[1] = TASK,
           NEW made \in SUBSET Call, Await(r, made), \A d \in made : call[r][d] = "none"
    PROVE  \A role \in Role :
              Extend(execution[r].responses, awaiting[r])[role] =
                  IF role = INTENT THEN 0 ELSE Cardinality(Past(r, role)')
<1> DEFINE heard == {d \in awaiting[r] : call[r][d] = "answered"}
<1>1. c \in awaiting[r] /\ heard = awaiting[r] /\ TASK # INTENT
  BY DEF Returned, TASK, INTENT
<1>2. \A d \in awaiting[r] : d[1] # INTENT
  BY <1>1 DEF AInv, RInv, Standing
<1>3. Listed(r, c)
  BY <1>1 DEF AInv, Accounted
<1>4. ASSUME NEW role \in Role
      PROVE  Extend(execution[r].responses, awaiting[r])[role] =
                IF role = INTENT THEN 0 ELSE Cardinality(Past(r, role)')
  <2>1. Extend(execution[r].responses, awaiting[r])[role] =
          execution[r].responses[role] + Cardinality({d \in awaiting[r] : d[1] = role})
    BY DEF Extend
  <2>2. Cardinality(Past(r, role)') =
          Cardinality(Past(r, role)) + Cardinality({d \in heard : d[1] = role})
    BY PastGrows DEF AInv
  <2>3. execution[r].responses[role] = IF role = INTENT THEN 0 ELSE Cardinality(Past(r, role))
    BY <1>1, <1>3 DEF Listed
  <2>4. CASE role = INTENT
    <3>1. {d \in awaiting[r] : d[1] = role} = {}
      BY <1>2, <2>4
    <3> QED
      BY <2>1, <2>3, <2>4, <3>1, FS_EmptySet
  <2>5. CASE role # INTENT
    BY <1>1, <2>1, <2>2, <2>3, <2>5
  <2> QED
    BY <2>4, <2>5
<1> QED
  BY <1>4

\* A structured call that returns brings one answer or two, all of its role.
LEMMA JoinedCounts ==
    ASSUME AInv, NEW r \in Request, NEW c \in Call, Returned(r, c), c[1] \in {SELECTION, QUALITY},
           NEW made \in SUBSET Call, Await(r, made), \A d \in made : call[r][d] = "none"
    PROVE  \A role \in Role :
              Joined(r, c).responses[role] =
                  IF role = INTENT THEN 0 ELSE Cardinality(Past(r, role)')
<1> DEFINE heard == {d \in awaiting[r] : call[r][d] = "answered"}
           both == {c[1]} \X (1 .. c[2])
<1>1. /\ c \in awaiting[r] /\ c[1] # INTENT /\ c[1] # TASK /\ c[1] \in Structured
  BY DEF Returned, Structured, TASK, INTENT, SELECTION, QUALITY
<1>2. /\ awaiting[r] = {c}
      /\ {d \in Call : d[1] = c[1] /\ call[r][d] = "answered"} = both
  BY <1>1, AnsweredPair
<1>3. Listed(r, c)
  BY <1>1 DEF AInv, Accounted
<1>4. /\ awaiting'[r] = made
      /\ \A d \in Call : call'[r][d] = IF d \in made THEN "flying" ELSE call[r][d]
  BY AwaitStep DEF AInv, RInv
<1>5. Joined(r, c).responses = Extend(execution[r].responses, both)
  BY DEF Joined, AInv, RInv, TypeOK
<1>6. ASSUME NEW role \in Role
      PROVE  Joined(r, c).responses[role] =
                IF role = INTENT THEN 0 ELSE Cardinality(Past(r, role)')
  <2>1. Joined(r, c).responses[role] =
          execution[r].responses[role] + Cardinality({d \in both : d[1] = role})
    BY <1>5 DEF Extend
  <2>2. CASE role = c[1]
    <3>1. {d \in both : d[1] = role} = both
      BY <2>2
    <3>2. Past(r, role)' = both
      BY <1>2, <1>4, <2>2 DEF Past
    <3>3. execution[r].responses[role] = 0
      BY <1>1, <1>3, <2>2 DEF Listed
    <3>4. Cardinality(both) \in Nat
      BY <1>2, CallSubsetFinite
    <3>5. /\ Cardinality({d \in both : d[1] = role}) = Cardinality(both)
          /\ Cardinality(Past(r, role)') = Cardinality(both)
      BY <3>1, <3>2
    <3> HIDE DEF both
    <3> QED
      BY <1>1, <2>1, <2>2, <3>3, <3>4, <3>5
  <2>3. CASE role # c[1]
    <3>1. {d \in both : d[1] = role} = {} /\ {d \in heard : d[1] = role} = {}
      BY <1>2, <2>3
    <3>2. Cardinality(Past(r, role)') = Cardinality(Past(r, role)) + 0
      BY <3>1, PastGrows, FS_EmptySet DEF AInv
    <3>3. Cardinality(Past(r, role)) \in Nat
      BY PastType
    <3>4. execution[r].responses[role] = IF role = INTENT THEN 0 ELSE Cardinality(Past(r, role))
      BY <1>1, <1>3, <2>3 DEF Listed
    <3>5. Cardinality({d \in both : d[1] = role}) = 0
      BY <3>1, FS_EmptySet
    <3> HIDE DEF both
    <3> QED
      BY <2>1, <3>2, <3>3, <3>4, <3>5
  <2> QED
    BY <2>2, <2>3
<1> QED
  BY <1>6

\* A coroutine that goes on with one more call of its execution.
LEMMA MoreWork ==
    ASSUME AInv, NEW r \in Request, NEW c \in Call, Returned(r, c), c[1] # INTENT, RInv',
           NEW next \in Call, next[1] # INTENT, call[r][next] = "none", Await(r, {next}),
           UNCHANGED <<status, held, template, diagnostics, record>>,
           \A q \in Request \ {r} : execution'[q] = execution[q],
           (Sequel(r, next) /\ Listed(r, next))'
    PROVE  AInv'
<1>1. /\ awaiting'[r] = {next}
      /\ \A d \in Call : call'[r][d] = IF d = next THEN "flying" ELSE call[r][d]
  BY AwaitStep DEF AInv, RInv
<1>2. c \in awaiting[r] /\ Primary(TASK) \in Call
  BY CallFacts DEF Returned, Role
<1>3. status[r] = "in-flight" /\ call'[r][Primary(TASK)] # "none"
  BY <1>1, <1>2 DEF AInv, RInv, Standing
<1>4. Answered(r, {INTENT})' = Answered(r, {INTENT})
  BY <1>1 DEF Answered
<1>5. (Extracting(r) /\ Untouched(r) /\ Booked(r))'
  BY <1>3, <1>4 DEF AInv, Accounted, Extracting, Untouched, Booked
<1>6. Accounted(r)'
  BY <1>1, <1>5 DEF Accounted
<1> QED
  BY <1>6, OthersAccounted

LEMMA SelfCheckAInv ==
    ASSUME AInv, NEW r \in Request, SelfCheck(r), RInv'
    PROVE  AInv'
<1>1. /\ template[r] = SELF_CHECK /\ Returned(r, Primary(TASK)) /\ Primary(TASK) \in awaiting[r]
      /\ Await(r, {Fallback(TASK)})
      /\ execution' = [execution EXCEPT ![r].responses = Extend(@, awaiting[r])]
      /\ UNCHANGED <<status, held, template, diagnostics, record>>
  BY DEF SelfCheck, Proceed, lifecycle, Returned
<1>2. /\ Primary(TASK) \in Call /\ Fallback(TASK) \in Call /\ Fallback(TASK) # Primary(TASK)
      /\ Primary(TASK)[1] = TASK /\ Fallback(TASK)[1] = TASK
      /\ TASK \notin Structured /\ TASK # INTENT /\ TASK # SELECTION /\ TASK # QUALITY
      /\ \A role \in Structured : Fallback(TASK) # Primary(role) /\ Fallback(TASK) # Fallback(role)
  BY CallFacts DEF Role, Structured, Primary, Fallback, TASK, INTENT, SELECTION, QUALITY
<1>3. call[r][Fallback(TASK)] = "none" /\ Fresh(r, {SELECTION, QUALITY})
  BY <1>1, <1>2 DEF AInv, Accounted, Sequel
<1>4. \A d \in Call : call'[r][d] = IF d = Fallback(TASK) THEN "flying" ELSE call[r][d]
  BY <1>1, <1>2, AwaitStep DEF AInv, RInv
<1>5. /\ execution'[r].responses = Extend(execution[r].responses, awaiting[r])
      /\ \A q \in Request \ {r} : execution'[q] = execution[q]
  BY <1>1 DEF AInv, RInv, TypeOK
<1>6. Sequel(r, Fallback(TASK))'
  <2>1. Fresh(r, {SELECTION, QUALITY})'
    BY <1>2, <1>3, <1>4 DEF Fresh
  <2> QED
    BY <1>2, <2>1 DEF Sequel
<1>7. Listed(r, Fallback(TASK))'
  <2>1. \A role \in Role : execution'[r].responses[role] =
          IF role = INTENT THEN 0 ELSE Cardinality(Past(r, role)')
    BY <1>1, <1>2, <1>3, <1>5, AnswersJoin
  <2> QED
    BY <1>2, <2>1 DEF Listed
<1> QED
  BY <1>1, <1>2, <1>3, <1>5, <1>6, <1>7, MoreWork

\* The first question of a structured role, when all answers are listed.
LEMMA AsksAInv ==
    ASSUME AInv, NEW r \in Request, NEW c \in Call, Returned(r, c), c[1] # INTENT, RInv',
           NEW role \in {SELECTION, QUALITY}, Await(r, {Primary(role)}),
           Fresh(r, {role}), Fresh(r, {QUALITY}),
           UNCHANGED <<status, held, template, diagnostics, record>>,
           \A q \in Request \ {r} : execution'[q] = execution[q],
           \A x \in Role : execution'[r].responses[x] =
              IF x = INTENT THEN 0 ELSE Cardinality(Past(r, x)')
    PROVE  AInv'
<1>1. /\ Primary(role) \in Call /\ Fallback(role) \in Call /\ Primary(role) # Fallback(role)
      /\ Primary(role)[1] = role /\ Fallback(role)[1] = role
      /\ role \in Structured /\ role # INTENT /\ role # TASK
      /\ \A x \in Structured : Primary(role) # Fallback(x) /\ (Primary(role) = Primary(x) => x = role)
  BY CallFacts DEF Role, Structured, Primary, Fallback, TASK, INTENT, SELECTION, QUALITY
<1>2. \A d \in Call : call'[r][d] = IF d = Primary(role) THEN "flying" ELSE call[r][d]
  BY <1>1, AwaitStep DEF AInv, RInv
<1>3. call[r][Primary(role)] = "none"
  BY <1>1 DEF Fresh
<1>4. Sequel(r, Primary(role))'
  <2>1. call'[r][Fallback(role)] = "none"
    BY <1>1, <1>2 DEF Fresh
  <2>2. role = SELECTION => Fresh(r, {QUALITY})'
    BY <1>1, <1>2 DEF Fresh, SELECTION, QUALITY
  <2>3. Primary(role) # Primary(TASK)
    BY <1>1 DEF Primary
  <2> QED
    BY <1>1, <2>1, <2>2, <2>3 DEF Sequel
<1>5. Listed(r, Primary(role))'
  <2>1. Past(r, role)' = {}
    BY <1>2 DEF Past, Fresh
  <2>2. execution'[r].responses[role] = 0
    BY <1>1, <2>1, FS_EmptySet DEF Role
  <2> QED
    BY <1>1, <2>2 DEF Listed
<1> QED
  BY <1>1, <1>3, <1>4, <1>5, MoreWork

LEMMA SelectAInv ==
    ASSUME AInv, NEW r \in Request, Select(r), RInv'
    PROVE  AInv'
<1>1. /\ Returned(r, Primary(TASK)) /\ Primary(TASK) \in awaiting[r]
      /\ Await(r, {Primary(SELECTION)})
      /\ execution' = [execution EXCEPT ![r].responses = Extend(@, awaiting[r])]
      /\ UNCHANGED <<status, held, template, diagnostics, record>>
  BY DEF Select, Proceed, lifecycle, Returned
<1>2. /\ Primary(TASK) \in Call /\ Primary(TASK)[1] = TASK /\ TASK # INTENT
      /\ Primary(SELECTION) \in Call /\ Primary(SELECTION)[1] = SELECTION
  BY CallFacts DEF Role, Structured, Primary, TASK, INTENT
<1>3. Fresh(r, {SELECTION, QUALITY})
  BY <1>1, <1>2 DEF AInv, Accounted, Sequel
<1>4. Fresh(r, {SELECTION}) /\ Fresh(r, {QUALITY}) /\ call[r][Primary(SELECTION)] = "none"
  BY <1>2, <1>3 DEF Fresh
<1>5. /\ execution'[r].responses = Extend(execution[r].responses, awaiting[r])
      /\ \A q \in Request \ {r} : execution'[q] = execution[q]
  BY <1>1 DEF AInv, RInv, TypeOK
<1>6. \A x \in Role : execution'[r].responses[x] =
        IF x = INTENT THEN 0 ELSE Cardinality(Past(r, x)')
  BY <1>1, <1>2, <1>4, <1>5, AnswersJoin
<1> QED
  BY <1>1, <1>2, <1>4, <1>5, <1>6, AsksAInv

LEMMA JudgeAInv ==
    ASSUME AInv, NEW r \in Request, NEW c \in Call, Judge(r, c), RInv'
    PROVE  AInv'
<1>1. /\ Returned(r, c) /\ c \in awaiting[r] /\ Await(r, {Primary(QUALITY)})
      /\ UNCHANGED <<status, held, template, diagnostics, record>>
      /\ execution' = [execution EXCEPT ![r] =
          IF c[1] = TASK
          THEN [execution[r] EXCEPT !.responses = Extend(@, awaiting[r]), !.output = c]
          ELSE [Joined(r, c) EXCEPT !.output = <<TASK, text[r][c]>>]]
  BY DEF Judge, lifecycle, Returned
<1>2. c[1] \in {TASK, SELECTION}
  BY DEF Judge, Primary, Fallback
<1>3. c[1] # INTENT /\ Primary(QUALITY) \in Call /\ Primary(QUALITY)[1] = QUALITY
  BY <1>2, CallFacts DEF Role, Structured, Primary, TASK, INTENT, SELECTION
<1>4. Fresh(r, {QUALITY}) /\ call[r][Primary(QUALITY)] = "none"
  <2>1. Fresh(r, {SELECTION, QUALITY}) \/ Fresh(r, {QUALITY})
    BY <1>1, <1>2 DEF AInv, Accounted, Sequel
  <2> QED
    BY <1>3, <2>1 DEF Fresh
<1>5. /\ execution'[r].responses =
          IF c[1] = TASK THEN Extend(execution[r].responses, awaiting[r]) ELSE Joined(r, c).responses
      /\ \A q \in Request \ {r} : execution'[q] = execution[q]
  BY <1>1 DEF AInv, RInv, TypeOK, Joined
<1>6. \A x \in Role : execution'[r].responses[x] =
        IF x = INTENT THEN 0 ELSE Cardinality(Past(r, x)')
  <2>1. CASE c[1] = TASK
    BY <1>1, <1>3, <1>4, <1>5, <2>1, AnswersJoin
  <2>2. CASE c[1] = SELECTION
    <3>1. c[1] # TASK
      BY <2>2 DEF TASK, SELECTION
    <3>2. execution'[r].responses = Joined(r, c).responses
      BY <1>5, <3>1
    <3> QED
      BY <1>1, <1>3, <1>4, <3>2, <2>2, JoinedCounts
  <2> QED
    BY <1>2, <2>1, <2>2
<1> QED
  BY <1>1, <1>3, <1>4, <1>5, <1>6, AsksAInv

LEMMA RepeatAInv ==
    ASSUME AInv, NEW r \in Request, NEW role \in Structured, Repeat(r, role), RInv'
    PROVE  AInv'
<1> DEFINE heard == {d \in awaiting[r] : call[r][d] = "answered"}
<1>1. /\ role # INTENT /\ Returned(r, Primary(role)) /\ Primary(role) \in awaiting[r]
      /\ call[r][Primary(role)] = "answered" /\ Await(r, {Fallback(role)})
      /\ UNCHANGED <<status, held, template, diagnostics, execution, record>>
  BY DEF Repeat, Repeats, Returned, lifecycle
<1>2. /\ Primary(role) \in Call /\ Fallback(role) \in Call /\ Primary(role) # Fallback(role)
      /\ Primary(role)[1] = role /\ Fallback(role)[1] = role /\ role # TASK
      /\ \A x \in Structured : Fallback(role) # Primary(x) /\ (Fallback(role) = Fallback(x) => x = role)
  BY CallFacts DEF Role, Structured, Primary, Fallback, TASK, INTENT, SELECTION, QUALITY
<1>3. /\ call[r][Fallback(role)] = "none"
      /\ role = SELECTION => Fresh(r, {QUALITY})
      /\ Listed(r, Primary(role))
  BY <1>1, <1>2 DEF AInv, Accounted, Sequel
<1>4. \A d \in Call : call'[r][d] = IF d = Fallback(role) THEN "flying" ELSE call[r][d]
  BY <1>1, <1>2, AwaitStep DEF AInv, RInv
<1>5. awaiting[r] = {Primary(role)}
  BY <1>1, <1>2, AnsweredPair
<1>6. Sequel(r, Fallback(role))'
  <2>1. call'[r][Primary(role)] = "answered"
    BY <1>1, <1>2, <1>4
  <2>2. role = SELECTION => Fresh(r, {QUALITY})'
    BY <1>2, <1>3, <1>4 DEF Fresh, SELECTION, QUALITY
  <2>3. Fallback(role) # Primary(TASK)
    BY <1>2 DEF Primary, Fallback
  <2> QED
    BY <1>2, <2>1, <2>2, <2>3 DEF Sequel
<1>7. Listed(r, Fallback(role))'
  <2>1. ASSUME NEW x \in Role, x # role
        PROVE  Cardinality(Past(r, x)') = Cardinality(Past(r, x))
    <3>1. {d \in heard : d[1] = x} = {}
      BY <1>2, <1>5, <2>1
    <3>2. Cardinality(Past(r, x)') = Cardinality(Past(r, x)) + Cardinality({d \in heard : d[1] = x})
      BY <1>1, <1>2, <1>3, PastGrows DEF AInv
    <3>3. Cardinality(Past(r, x)) \in Nat
      BY PastType
    <3>4. Cardinality({d \in heard : d[1] = x}) = 0
      BY <3>1, FS_EmptySet
    <3> HIDE DEF heard
    <3> QED
      BY <3>2, <3>3, <3>4
  <2> QED
    BY <1>1, <1>2, <1>3, <2>1 DEF Listed
<1> QED
  BY <1>1, <1>2, <1>3, <1>6, <1>7, MoreWork

LEMMA BeginAInv ==
    ASSUME AInv, NEW r \in Request, Begin(r), RInv'
    PROVE  AInv'
<1> DEFINE drafts == {TASK} \X (1 .. held[r])
<1>1. /\ status[r] = "in-flight" /\ call[r][Primary(TASK)] = "none" /\ Await(r, drafts)
      /\ template'[r] = PARALLEL_JUDGE <=> held[r] > 1
      /\ \A q \in Request \ {r} : template'[q] = template[q]
      /\ UNCHANGED <<status, held, diagnostics, execution, record>>
  BY DEF Begin, lifecycle, AInv, RInv, TypeOK
<1>2. drafts \in SUBSET Call /\ held[r] \in Nat /\ held[r] >= 1
  <2>1. held[r] \in 0 .. Capacity
    BY DEF AInv, RInv, TypeOK
  <2> QED
    BY <1>1, <2>1, CallFacts, RequestAssumption DEF AInv, RInv, Standing
<1>3. Fresh(r, Work) /\ execution[r].responses = Nothing
  BY <1>1 DEF AInv, Accounted, Untouched
<1>4. /\ awaiting'[r] = drafts
      /\ \A d \in Call : call'[r][d] = IF d \in drafts THEN "flying" ELSE call[r][d]
  BY <1>1, <1>2, AwaitStep DEF AInv, RInv
<1>5. /\ TASK \notin Structured /\ TASK # INTENT /\ Primary(TASK) \in Call /\ Fallback(TASK) \in Call
      /\ \A d \in drafts : d[1] = TASK
      /\ \A role \in Structured : Primary(role)[1] # TASK /\ Fallback(role)[1] # TASK
      /\ SELECTION # TASK /\ QUALITY # TASK /\ SELECTION \in Work /\ QUALITY \in Work
  BY CallFacts DEF Role, Structured, Primary, Fallback, TASK, INTENT, SELECTION, QUALITY, Work
<1>6. call'[r][Primary(TASK)] = "flying"
  <2>1. Primary(TASK) \in drafts
    BY <1>2 DEF Primary
  <2> QED
    BY <1>4, <1>5, <2>1
<1>7. Booked(r)'
  <2>1. Answered(r, {INTENT})' = Answered(r, {INTENT})
    BY <1>4, <1>5 DEF Answered
  <2> QED
    BY <1>1, <2>1 DEF AInv, Accounted, Booked
<1>8. ASSUME NEW d \in drafts PROVE Sequel(r, d)' /\ Listed(r, d)'
  <2>1. Fresh(r, {SELECTION, QUALITY})'
    BY <1>3, <1>4, <1>5 DEF Fresh
  <2>2. ASSUME template'[r] = SELF_CHECK PROVE call'[r][Fallback(TASK)] = "none"
    <3>1. template'[r] # PARALLEL_JUDGE
      BY <2>2 DEF SELF_CHECK, PARALLEL_JUDGE
    <3>2. held[r] = 1
      BY <1>1, <1>2, <3>1
    <3>3. Fallback(TASK) \notin drafts
      BY <3>2 DEF Fallback
    <3>4. Fallback(TASK)[1] = TASK /\ TASK \in Work
      BY DEF Fallback, Work
    <3> QED
      BY <1>3, <1>4, <1>5, <3>3, <3>4 DEF Fresh
  <2>3. d[1] = TASK /\ d \in Call
    BY <1>2, <1>5
  <2>4. Sequel(r, d)'
    <3>1. \A role \in Structured : d # Primary(role) /\ d # Fallback(role)
      BY <1>5, <2>3
    <3>2. d[1] # SELECTION
      BY <1>5, <2>3
    <3> QED
      BY <2>1, <2>2, <3>1, <3>2 DEF Sequel
  <2>5. \A role \in Work : Past(r, role)' = {}
    BY <1>3, <1>4 DEF Past, Fresh
  <2>6. \A role \in Work : Cardinality(Past(r, role)') = 0
    BY <2>5, FS_EmptySet
  <2>7. \A role \in Role : execution'[r].responses[role] = 0 /\ (role # INTENT => role \in Work)
    BY <1>1, <1>3 DEF Nothing, Role, Work, Structured
  <2>8. Listed(r, d)'
    BY <2>6, <2>7 DEF Listed
  <2> QED
    BY <2>4, <2>8
<1>9. Accounted(r)'
  BY <1>1, <1>4, <1>6, <1>7, <1>8 DEF Accounted, Extracting, Untouched
<1> QED
  BY <1>1, <1>2, <1>9, OthersAccounted

LEMMA FailAInv ==
    ASSUME AInv, NEW r \in Request, NEW c \in Call, Fail(r, c), RInv'
    PROVE  AInv'
<1>1. /\ c[1] # INTENT /\ c \in awaiting[r] /\ Await(r, {}) /\ status'[r] = "failed"
      /\ UNCHANGED <<template, diagnostics, execution, record>>
      /\ \E next \in {"completed", "failed"} : status' = [status EXCEPT ![r] = next]
  BY DEF Fail, GivesUp, S!Release
<1>2. {} \in SUBSET Call
  OBVIOUS
<1>3. awaiting'[r] = {} /\ \A d \in Call : call'[r][d] = call[r][d]
  BY <1>1, <1>2, AwaitStep DEF AInv, RInv
<1>4. status[r] = "in-flight"
  BY <1>1 DEF AInv, RInv, Standing
<1>5. Answered(r, {INTENT})' = Answered(r, {INTENT})
  BY <1>3 DEF Answered
<1>6. Accounted(r)'
  BY <1>1, <1>3, <1>4, <1>5 DEF AInv, Accounted, Extracting, Untouched, Booked
<1>7. \A q \in Request \ {r} : status'[q] = status[q]
  BY <1>1 DEF AInv, RInv, TypeOK
<1> QED
  BY <1>1, <1>2, <1>6, <1>7, OthersAccounted

\* The overhead is the answers of the three structured roles.
LEMMA OverheadSum ==
    ASSUME NEW r
    PROVE  Cardinality(Answered(r, Structured)) =
              Cardinality(Answered(r, {INTENT})) + Cardinality(Answered(r, {SELECTION}))
                + Cardinality(Answered(r, {QUALITY}))
<1> DEFINE a == Answered(r, {INTENT})
           b == Answered(r, {SELECTION})
           d == Answered(r, {QUALITY})
<1>1. /\ a \cup (b \cup d) = Answered(r, Structured)
      /\ b \cap d = {} /\ a \cap (b \cup d) = {}
      /\ a \in SUBSET Call /\ b \in SUBSET Call /\ d \in SUBSET Call /\ b \cup d \in SUBSET Call
  BY DEF Answered, Structured, INTENT, SELECTION, QUALITY
<1> HIDE DEF a, b, d
<1>2. /\ IsFiniteSet(a) /\ IsFiniteSet(b) /\ IsFiniteSet(d) /\ IsFiniteSet(b \cup d)
      /\ Cardinality(a) \in Nat /\ Cardinality(b) \in Nat /\ Cardinality(d) \in Nat
      /\ Cardinality(b \cup d) \in Nat
  BY <1>1, CallSubsetFinite
<1>3. /\ Cardinality(b \cup d) = Cardinality(b) + Cardinality(d) - Cardinality(b \cap d)
      /\ Cardinality(a \cup (b \cup d)) =
            Cardinality(a) + Cardinality(b \cup d) - Cardinality(a \cap (b \cup d))
  BY <1>2, FS_Union
<1>4. Cardinality(b \cap d) = 0 /\ Cardinality(a \cap (b \cup d)) = 0
  BY <1>1, FS_EmptySet
<1>5. Cardinality(a \cup (b \cup d)) = Cardinality(a) + Cardinality(b) + Cardinality(d)
  BY <1>2, <1>3, <1>4
<1> QED
  BY <1>1, <1>5 DEF a, b, d

LEMMA CompleteAInv ==
    ASSUME AInv, NEW r \in Request, NEW c \in Call, Complete(r, c), RInv'
    PROVE  AInv'
<1>1. /\ c[1] = QUALITY /\ Returned(r, c) /\ c \in awaiting[r] /\ Await(r, {})
      /\ status'[r] = "completed" /\ UNCHANGED <<template, diagnostics>>
      /\ execution' = [execution EXCEPT ![r] = Joined(r, c)]
      /\ record' = [record EXCEPT ![r] = Recorded(r, Joined(r, c))]
      /\ \E next \in {"completed", "failed"} : status' = [status EXCEPT ![r] = next]
  BY DEF Complete, Returned, S!Release
<1>2. {} \in SUBSET Call
  OBVIOUS
<1>3. awaiting'[r] = {} /\ \A d \in Call : call'[r][d] = call[r][d]
  BY <1>1, <1>2, AwaitStep DEF AInv, RInv
<1>4. status[r] = "in-flight"
  BY <1>1 DEF AInv, RInv, Standing, INTENT, QUALITY
<1>5. record[r].accounting = [task |-> 0, overhead |-> Cardinality(Answered(r, {INTENT}))]
  BY <1>4 DEF AInv, Accounted, Booked
<1>6. /\ record'[r].accounting = Merge(record[r].accounting, Account(Joined(r, c).responses))
      /\ \A q \in Request \ {r} :
            status'[q] = status[q] /\ execution'[q] = execution[q] /\ record'[q] = record[q]
  BY <1>1 DEF Recorded, AInv, RInv, TypeOK
<1>7. /\ \A role \in Role : Past(r, role)' = Answered(r, {role})
      /\ \A roles : Answered(r, roles)' = Answered(r, roles)
  BY <1>3 DEF Past, Answered
<1>8. \A role \in Role : Joined(r, c).responses[role] =
        IF role = INTENT THEN 0 ELSE Cardinality(Answered(r, {role}))
  BY <1>1, <1>2, <1>7, JoinedCounts
<1>9. /\ Cardinality(Answered(r, {TASK})) \in Nat /\ Cardinality(Answered(r, {INTENT})) \in Nat
      /\ Cardinality(Answered(r, {SELECTION})) \in Nat /\ Cardinality(Answered(r, {QUALITY})) \in Nat
  <2>1. \A roles : Answered(r, roles) \in SUBSET Call
    BY DEF Answered
  <2> QED
    BY <2>1, CallSubsetFinite
<1>10. Account(Joined(r, c).responses) =
          [task |-> Cardinality(Answered(r, {TASK})),
           overhead |-> 0 + Cardinality(Answered(r, {SELECTION})) + Cardinality(Answered(r, {QUALITY}))]
  BY <1>8 DEF Account, Role, Structured, TASK, INTENT, SELECTION, QUALITY
<1>11. record'[r].accounting =
          [task |-> Cardinality(Answered(r, {TASK})),
           overhead |-> Cardinality(Answered(r, Structured))]
  <2>1. Cardinality(Answered(r, Structured)) =
          Cardinality(Answered(r, {INTENT})) + Cardinality(Answered(r, {SELECTION}))
            + Cardinality(Answered(r, {QUALITY}))
    BY OverheadSum
  <2>2. record'[r].accounting =
          [task |-> 0 + Cardinality(Answered(r, {TASK})),
           overhead |-> Cardinality(Answered(r, {INTENT}))
              + (0 + Cardinality(Answered(r, {SELECTION})) + Cardinality(Answered(r, {QUALITY})))]
    BY <1>5, <1>6, <1>10 DEF Merge
  <2> QED
    BY <1>9, <2>1, <2>2
<1>12. Accounted(r)'
  BY <1>1, <1>3, <1>7, <1>11 DEF Accounted, Extracting, Untouched, Booked
<1> QED
  BY <1>1, <1>2, <1>6, <1>12, OthersAccounted

LEMMA NextAInv == AInv /\ [Next]_vars => AInv'
<1> SUFFICES ASSUME AInv, [Next]_vars PROVE AInv'
  OBVIOUS
<1>1. RInv'
  BY NextRInv DEF AInv
<1>2. ASSUME NEW r \in Request, Submit(r) \/ RepeatExtraction(r) \/ Begin(r) PROVE AInv'
  BY <1>1, <1>2, SubmitAInv, RepeatExtractionAInv, BeginAInv
<1>3. ASSUME NEW r \in Request, SelfCheck(r) \/ Select(r) PROVE AInv'
  BY <1>1, <1>3, SelfCheckAInv, SelectAInv
<1>4. ASSUME NEW r \in Request, NEW role \in Structured, Repeat(r, role) PROVE AInv'
  BY <1>1, <1>4, RepeatAInv
<1>5. ASSUME NEW r \in Request, NEW c \in Call,
             RefuseSubmission(r, c) \/ RecordSubmission(r, c) \/ Fail(r, c)
      PROVE  AInv'
  BY <1>1, <1>5, RefuseAInv, RecordAInv, FailAInv
<1>6. ASSUME NEW r \in Request, NEW c \in Call, Judge(r, c) \/ Complete(r, c) \/ Answer(r, c)
      PROVE  AInv'
  BY <1>1, <1>6, JudgeAInv, CompleteAInv, AnswerAInv
<1>7. CASE Dispatch \/ \E r \in Request : Cancel(r)
  BY <1>1, <1>7, QueueAInv
<1>8. CASE UNCHANGED vars
  BY <1>1, <1>8, AccountedElsewhere DEF vars, AInv
<1> QED
  BY <1>2, <1>3, <1>4, <1>5, <1>6, <1>7, <1>8 DEF Next, Resume

\* However the calls of concurrent requests interleave, the record of a
\* request accounts for its own answered calls and no other, each once: those
\* of the extraction, and once the task is completed all, the answers of both
\* attempts included (providers.py's account_responses over the lists of
\* intent.py and execution.py).
THEOREM AccountingTheorem == Spec => []ExactAccounting
<1>1. ASSUME AInv PROVE ExactAccounting
  BY <1>1 DEF AInv, Accounted, Booked, ExactAccounting
<1> QED
  BY <1>1, AInvInit, NextAInv, PTL DEF Spec

-----------------------------------------------------------------------------
(* What is recorded of fallbacks *)

Second(r, role) == IF call[r][Fallback(role)] = "answered" THEN 1 ELSE 0

\* The extractor notes its second model when it asks it; the record takes that
\* over with the submission.  The execution notes the second model of the
\* selection when its judge is asked, and nothing before.
Noted(r) ==
    /\ status[r] = "new" =>
          \A role \in Role : diagnostics[r].events[role] =
              IF role = INTENT /\ call[r][Fallback(INTENT)] # "none" THEN 1 ELSE 0
    /\ status[r] \notin {"new", "completed"} =>
          \A role \in Role : record[r].events[role] =
              IF role = INTENT THEN Second(r, INTENT) ELSE 0
    /\ status[r] \in {"new", "queued"} \/ (status[r] = "in-flight" /\ call[r][Primary(TASK)] = "none") =>
          execution[r].events = Nothing
    /\ \A c \in awaiting[r] : c[1] # INTENT =>
          \A role \in Role : execution[r].events[role] =
              IF role = SELECTION /\ c[1] = QUALITY THEN Second(r, SELECTION) ELSE 0
    /\ status[r] = "completed" =>
          \A role \in Structured : record[r].events[role] = Second(r, role)

EInv == AInv /\ \A r \in Request : Noted(r)

LEMMA EInvInit == Init => EInv
<1> SUFFICES ASSUME Init PROVE EInv
  OBVIOUS
<1>1. ASSUME NEW r \in Request PROVE Noted(r)
  <2>1. /\ status[r] = "new" /\ awaiting[r] = {} /\ call[r][Fallback(INTENT)] = "none"
        /\ diagnostics[r] = NoDiagnostics /\ execution[r] = NoExecution
    BY CallFacts DEF Init, S!Init, Role, Structured
  <2> QED
    BY <2>1 DEF Noted, NoDiagnostics, NoExecution, Nothing
<1> QED
  BY <1>1, AInvInit DEF EInv

LEMMA NotedElsewhere ==
    ASSUME NEW r \in Request, Noted(r),
           call'[r] = call[r], awaiting'[r] = awaiting[r], status'[r] = status[r],
           diagnostics'[r] = diagnostics[r],
           execution'[r] = execution[r], record'[r] = record[r]
    PROVE  Noted(r)'
BY DEF Noted, Second

LEMMA OthersNoted ==
    ASSUME EInv, NEW r \in Request, NEW made \in SUBSET Call, Await(r, made), AInv', Noted(r)',
           \A q \in Request \ {r} :
              /\ status'[q] = status[q] /\ diagnostics'[q] = diagnostics[q]
              /\ execution'[q] = execution[q] /\ record'[q] = record[q]
    PROVE  EInv'
<1>1. \A q \in Request \ {r} : call'[q] = call[q] /\ awaiting'[q] = awaiting[q]
  BY AwaitStep DEF EInv, AInv, RInv
<1>2. \A q \in Request \ {r} : Noted(q)'
  BY <1>1, NotedElsewhere DEF EInv
<1> QED
  BY <1>2 DEF EInv

\* The calls of the roles are different calls.
LEMMA RoleFacts ==
    /\ INTENT \in Role /\ TASK \in Role /\ SELECTION \in Role /\ QUALITY \in Role
    /\ INTENT \in Structured /\ SELECTION \in Structured /\ QUALITY \in Structured
    /\ INTENT # TASK /\ INTENT # SELECTION /\ INTENT # QUALITY /\ TASK # SELECTION
    /\ TASK # QUALITY /\ SELECTION # QUALITY
    /\ Structured \subseteq Role /\ Structured = {INTENT, SELECTION, QUALITY}
    /\ \A role : /\ Primary(role)[1] = role /\ Fallback(role)[1] = role
                 /\ Primary(role)[2] = 1 /\ Fallback(role)[2] = 2
                 /\ Primary(role) # Fallback(role)
    /\ \A role \in Role : Primary(role) \in Call /\ Fallback(role) \in Call
<1>1. \A role \in Role : Primary(role) \in Call /\ Fallback(role) \in Call
  BY CallFacts
<1> QED
  BY <1>1 DEF Role, Structured, Primary, Fallback, INTENT, TASK, SELECTION, QUALITY

\* One answer more, of the second model or not.
LEMMA JoinedEvents ==
    ASSUME EInv, NEW r \in Request, NEW c \in Call, Returned(r, c), c[1] \in {SELECTION, QUALITY}
    PROVE  \A role \in Role :
              Joined(r, c).events[role] =
                execution[r].events[role] + (IF role = c[1] THEN Second(r, role) ELSE 0)
<1>1. /\ c \in awaiting[r] /\ call[r][c] = "answered" /\ c[1] \in Structured
  BY RoleFacts DEF Returned
<1>2. /\ c \in {Primary(c[1]), Fallback(c[1])}
      /\ c = Primary(c[1]) => call[r][Fallback(c[1])] = "none"
  BY <1>1, StructuredCalls DEF EInv, AInv, Accounted, Sequel
<1>3. Joined(r, c).events = Extend(execution[r].events, {d \in {c} : d[2] = 2})
  BY DEF Joined, EInv, AInv, RInv, TypeOK
<1>4. ASSUME NEW role \in Role
      PROVE  Cardinality({d \in {d \in {c} : d[2] = 2} : d[1] = role}) =
                IF role = c[1] THEN Second(r, role) ELSE 0
  <2>1. CASE role = c[1] /\ c = Fallback(c[1])
    <3>1. {d \in {d \in {c} : d[2] = 2} : d[1] = role} = {c}
      BY <2>1, RoleFacts
    <3>2. Second(r, role) = 1
      BY <1>1, <2>1 DEF Second
    <3> QED
      BY <2>1, <3>1, <3>2, FS_Singleton
  <2>2. CASE ~(role = c[1] /\ c = Fallback(c[1]))
    <3>1. {d \in {d \in {c} : d[2] = 2} : d[1] = role} = {}
      BY <1>2, <2>2, RoleFacts
    <3>2. role = c[1] => Second(r, role) = 0
      BY <1>2, <2>2 DEF Second
    <3> QED
      BY <3>1, <3>2, FS_EmptySet
  <2> QED
    BY <2>1, <2>2
<1>5. ASSUME NEW role \in Role
      PROVE  Joined(r, c).events[role] =
                execution[r].events[role] + Cardinality({d \in {d \in {c} : d[2] = 2} : d[1] = role})
  BY <1>3 DEF Extend
<1> QED
  BY <1>4, <1>5

\* The extraction.
LEMMA SubmitEInv ==
    ASSUME EInv, NEW r \in Request, Submit(r), AInv'
    PROVE  EInv'
<1>1. /\ status[r] = "new" /\ \A c \in Call : call[r][c] = "none"
      /\ diagnostics' = [diagnostics EXCEPT ![r] = NoDiagnostics]
      /\ Await(r, {Primary(INTENT)})
      /\ UNCHANGED <<status, held, template, execution, record>>
  BY DEF Submit, Extractor, lifecycle
<1>2. {Primary(INTENT)} \in SUBSET Call
  BY RoleFacts
<1>3. /\ awaiting'[r] = {Primary(INTENT)}
      /\ \A c \in Call : call'[r][c] = IF c = Primary(INTENT) THEN "flying" ELSE call[r][c]
  BY <1>1, <1>2, AwaitStep DEF EInv, AInv, RInv
<1>4. /\ diagnostics'[r] = NoDiagnostics
      /\ \A q \in Request \ {r} : diagnostics'[q] = diagnostics[q]
  BY <1>1 DEF EInv, AInv, RInv, TypeOK
<1>5. call'[r][Fallback(INTENT)] = "none"
  BY <1>1, <1>3, RoleFacts
<1>6. Noted(r)'
  BY <1>1, <1>3, <1>4, <1>5, RoleFacts DEF EInv, Noted, NoDiagnostics, Nothing
<1> QED
  BY <1>1, <1>2, <1>4, <1>6, OthersNoted

LEMMA RepeatExtractionEInv ==
    ASSUME EInv, NEW r \in Request, RepeatExtraction(r), AInv'
    PROVE  EInv'
<1>1. /\ Returned(r, Primary(INTENT)) /\ Primary(INTENT) \in awaiting[r]
      /\ diagnostics' = [diagnostics EXCEPT ![r] =
            [Heard(r) EXCEPT !.events = Extend(@, {Primary(INTENT)})]]
      /\ Await(r, {Fallback(INTENT)})
      /\ UNCHANGED <<status, held, template, execution, record>>
  BY DEF RepeatExtraction, Repeats, Returned, Extractor, lifecycle
<1>2. {Fallback(INTENT)} \in SUBSET Call
  BY RoleFacts
<1>3. status[r] = "new" /\ call[r][Fallback(INTENT)] = "none"
  BY <1>1, RoleFacts DEF EInv, AInv, RInv, Standing, Accounted, Sequel
<1>4. /\ awaiting'[r] = {Fallback(INTENT)}
      /\ \A c \in Call : call'[r][c] = IF c = Fallback(INTENT) THEN "flying" ELSE call[r][c]
  BY <1>1, <1>2, AwaitStep DEF EInv, AInv, RInv
<1>5. /\ diagnostics'[r].events = Extend(diagnostics[r].events, {Primary(INTENT)})
      /\ \A q \in Request \ {r} : diagnostics'[q] = diagnostics[q]
  BY <1>1 DEF Heard, Extractor, EInv, AInv, RInv, TypeOK
<1>6. ASSUME NEW role \in Role
      PROVE  diagnostics'[r].events[role] = IF role = INTENT THEN 1 ELSE 0
  <2>1. diagnostics[r].events[role] = 0
    BY <1>3 DEF EInv, Noted
  <2>2. diagnostics'[r].events[role] = 0 + Cardinality({c \in {Primary(INTENT)} : c[1] = role})
    BY <1>5, <2>1 DEF Extend
  <2>3. CASE role = INTENT
    <3>1. {c \in {Primary(INTENT)} : c[1] = role} = {Primary(INTENT)}
      BY <2>3, RoleFacts
    <3>2. Cardinality({Primary(INTENT)}) = 1
      BY FS_Singleton
    <3> QED
      BY <2>2, <2>3, <3>1, <3>2
  <2>4. CASE role # INTENT
    <3>1. {c \in {Primary(INTENT)} : c[1] = role} = {}
      BY <2>4, RoleFacts
    <3> QED
      BY <2>2, <2>4, <3>1, FS_EmptySet
  <2> QED
    BY <2>3, <2>4
<1>7. call'[r][Fallback(INTENT)] # "none"
  BY <1>4, RoleFacts
<1>8. execution'[r].events = Nothing /\ status'[r] = "new"
      /\ \A c \in awaiting'[r] : c[1] = INTENT
  BY <1>1, <1>3, <1>4, RoleFacts DEF EInv, Noted
<1>9. Noted(r)'
  BY <1>6, <1>7, <1>8 DEF Noted
<1> QED
  BY <1>1, <1>2, <1>5, <1>9, OthersNoted

LEMMA RefuseEInv ==
    ASSUME EInv, NEW r \in Request, NEW c \in Call, RefuseSubmission(r, c), AInv'
    PROVE  EInv'
<1>1. /\ c[1] = INTENT /\ c \in awaiting[r] /\ Await(r, {})
      /\ diagnostics' = [diagnostics EXCEPT ![r] = Heard(r)]
      /\ UNCHANGED <<status, held, template, execution, record>>
  BY DEF RefuseSubmission, GivesUp, Returned, lifecycle, Extractor
<1>2. {} \in SUBSET Call
  OBVIOUS
<1>3. awaiting'[r] = {} /\ \A d \in Call : call'[r][d] = call[r][d]
  BY <1>1, <1>2, AwaitStep DEF EInv, AInv, RInv
<1>4. /\ diagnostics'[r].events = diagnostics[r].events
      /\ \A q \in Request \ {r} : diagnostics'[q] = diagnostics[q]
  BY <1>1 DEF Heard, Extractor, EInv, AInv, RInv, TypeOK
<1>5. status[r] = "new"
  BY <1>1 DEF EInv, AInv, RInv, Standing
<1>6. Noted(r)'
  BY <1>1, <1>3, <1>4, <1>5, RoleFacts DEF EInv, Noted
<1> QED
  BY <1>1, <1>2, <1>4, <1>6, OthersNoted

LEMMA RecordEInv ==
    ASSUME EInv, NEW r \in Request, NEW c \in Call, RecordSubmission(r, c), AInv'
    PROVE  EInv'
<1>1. /\ c[1] = INTENT /\ c \in awaiting[r] /\ call[r][c] = "answered" /\ Await(r, {})
      /\ diagnostics' = [diagnostics EXCEPT ![r] = Heard(r)]
      /\ record' = [record EXCEPT ![r] =
            [accounting |-> Account(Heard(r).responses), events |-> Heard(r).events,
             output |-> NoOutput]]
      /\ \E next \in {"queued", "rejected"} : status' = [status EXCEPT ![r] = next]
      /\ UNCHANGED <<held, template, execution>>
  BY DEF RecordSubmission, Returned, S!Arrive, Extractor
<1>2. {} \in SUBSET Call
  OBVIOUS
<1>3. awaiting'[r] = {} /\ \A d \in Call : call'[r][d] = call[r][d]
  BY <1>1, <1>2, AwaitStep DEF EInv, AInv, RInv
<1>4. status[r] = "new" /\ status'[r] \in {"queued", "rejected"}
  BY <1>1 DEF EInv, AInv, RInv, TypeOK, Standing
<1>5. /\ record'[r].events = diagnostics[r].events
      /\ \A q \in Request \ {r} :
            /\ diagnostics'[q] = diagnostics[q] /\ record'[q] = record[q] /\ status'[q] = status[q]
  BY <1>1 DEF Heard, Extractor, EInv, AInv, RInv, TypeOK
<1>6. Second(r, INTENT)' = IF call[r][Fallback(INTENT)] # "none" THEN 1 ELSE 0
  <2>1. /\ c \in {Primary(INTENT), Fallback(INTENT)}
        /\ c = Primary(INTENT) => call[r][Fallback(INTENT)] = "none"
    BY <1>1, RoleFacts, StructuredCalls DEF EInv, AInv, Accounted, Sequel
  <2> QED
    BY <1>1, <1>3, <2>1, RoleFacts DEF Second
<1>7. \A role \in Role : record'[r].events[role] = IF role = INTENT THEN Second(r, INTENT)' ELSE 0
  BY <1>4, <1>5, <1>6 DEF EInv, Noted
<1>8. execution'[r].events = Nothing
  BY <1>1, <1>4 DEF EInv, Noted
<1>9. Noted(r)'
  BY <1>3, <1>4, <1>7, <1>8 DEF Noted
<1> QED
  BY <1>1, <1>2, <1>5, <1>9, OthersNoted

\* The queue, and the answers of the provider.
LEMMA QueueEInv ==
    ASSUME EInv, Dispatch \/ \E r \in Request : Cancel(r), AInv'
    PROVE  EInv'
<1>1. UNCHANGED <<template, call, awaiting, diagnostics, execution, record>>
  BY DEF Dispatch, Cancel, calls
<1>2. ASSUME NEW q \in Request
      PROVE  \/ status'[q] = status[q]
             \/ status[q] = "queued" /\ status'[q] \notin {"new", "completed"}
  BY DEF Dispatch, Cancel, S!Dispatch, S!Withdraw, EInv, AInv, RInv, TypeOK
<1>3. ASSUME NEW q \in Request PROVE Noted(q)'
  <2>1. CASE status'[q] = status[q]
    BY <1>1, <2>1, NotedElsewhere DEF EInv
  <2>2. CASE status[q] = "queued" /\ status'[q] \notin {"new", "completed"}
    <3>1. awaiting[q] = {}
      BY <2>2, QueuedIdle DEF EInv, AInv, RInv
    <3>2. /\ execution[q].events = Nothing
          /\ \A role \in Role : record[q].events[role] = IF role = INTENT THEN Second(q, INTENT) ELSE 0
      BY <2>2 DEF EInv, Noted
    <3> QED
      BY <1>1, <2>2, <3>1, <3>2 DEF Noted, Second
  <2> QED
    BY <1>2, <2>1, <2>2
<1> QED
  BY <1>3 DEF EInv

LEMMA AnswerEInv ==
    ASSUME EInv, NEW r \in Request, NEW c \in Call, Answer(r, c), AInv'
    PROVE  EInv'
<1>1. PICK ending \in {"answered", "raised"} : call' = [call EXCEPT ![r][c] = ending]
  BY DEF Answer
<1>2. /\ call[r][c] = "flying" /\ c \in awaiting[r]
      /\ UNCHANGED <<status, held, template, awaiting, diagnostics, execution, record>>
  BY DEF Answer, lifecycle, EInv, AInv, RInv, Standing
<1>3. \A d \in Call : call'[r][d] = IF d = c THEN ending ELSE call[r][d]
  BY <1>1 DEF EInv, AInv, RInv, TypeOK
<1>4. \A q \in Request \ {r} : call'[q] = call[q]
  BY <1>1 DEF EInv, AInv, RInv, TypeOK
<1>5. \A q \in Request \ {r} : Noted(q)'
  BY <1>2, <1>4, NotedElsewhere DEF EInv
<1>6. /\ status[r] \in {"new", "in-flight"} /\ (status[r] = "new" <=> c[1] = INTENT)
      /\ c[1] # INTENT => call[r][Primary(TASK)] # "none"
  BY <1>2 DEF EInv, AInv, RInv, Standing
<1>7. call'[r][Fallback(INTENT)] # "none" <=> call[r][Fallback(INTENT)] # "none"
  BY <1>1, <1>2, <1>3, RoleFacts
<1>8. c[1] # INTENT => Second(r, INTENT)' = Second(r, INTENT)
  BY <1>3, RoleFacts DEF Second
<1>9. ASSUME NEW d \in awaiting[r], d[1] = QUALITY PROVE Second(r, SELECTION)' = Second(r, SELECTION)
  <2>1. d \notin {TASK} \X (1 .. held[r])
    BY <1>9, RoleFacts
  <2>2. c = d
    BY <1>2, <1>9, <2>1 DEF EInv, AInv, RInv, Standing
  <2> QED
    BY <1>3, <1>9, <2>2, RoleFacts DEF Second
<1>10. c[1] # INTENT => call'[r][Primary(TASK)] # "none"
  BY <1>3, <1>6, RoleFacts
<1>11. Noted(r)'
  <2>1. status[r] = "new" => \A role \in Role : diagnostics'[r].events[role] =
              IF role = INTENT /\ call'[r][Fallback(INTENT)] # "none" THEN 1 ELSE 0
    BY <1>2, <1>7 DEF EInv, Noted
  <2>2. status[r] # "new" =>
          \A role \in Role : record'[r].events[role] =
              IF role = INTENT THEN Second(r, INTENT)' ELSE 0
    BY <1>2, <1>6, <1>8 DEF EInv, Noted
  <2>3. status[r] = "new" => execution'[r].events = Nothing
    BY <1>2 DEF EInv, Noted
  <2>4. \A d \in awaiting[r] : d[1] # INTENT =>
          \A role \in Role : execution'[r].events[role] =
              IF role = SELECTION /\ d[1] = QUALITY THEN Second(r, SELECTION)' ELSE 0
    BY <1>2, <1>9 DEF EInv, Noted
  <2> QED
    BY <1>2, <1>6, <1>10, <2>1, <2>2, <2>3, <2>4 DEF Noted
<1> QED
  BY <1>5, <1>11 DEF EInv

\* The execution.  It goes on to another call, with its events as they must be.
LEMMA GoesOnNoted ==
    ASSUME EInv, NEW r \in Request, NEW made \in SUBSET Call, Await(r, made), AInv',
           status[r] = "in-flight", made # {}, \A c \in made : c[1] # INTENT,
           \A role \in Role, c \in made : execution'[r].events[role] =
              IF role = SELECTION /\ c[1] = QUALITY THEN Second(r, SELECTION) ELSE 0,
           \A q \in Request \ {r} : execution'[q] = execution[q],
           call[r][Primary(TASK)] # "none" \/ Primary(TASK) \in made,
           UNCHANGED <<status, diagnostics, record>>
    PROVE  EInv'
<1>1. /\ awaiting'[r] = made
      /\ \A c \in Call : call'[r][c] = IF c \in made THEN "flying" ELSE call[r][c]
  BY AwaitStep DEF EInv, AInv, RInv
<1>2. call'[r][Primary(TASK)] # "none"
  BY <1>1, RoleFacts
<1>3. Second(r, INTENT)' = Second(r, INTENT)
  BY <1>1, RoleFacts DEF Second
<1>4. ASSUME NEW c \in made, c[1] = QUALITY PROVE Second(r, SELECTION)' = Second(r, SELECTION)
  <2>1. Fallback(SELECTION) \notin made
    BY <1>1, <1>4, RoleFacts DEF AInv, RInv, Standing
  <2> QED
    BY <1>1, <2>1, RoleFacts DEF Second
<1>5. Noted(r)'
  BY <1>1, <1>2, <1>3, <1>4 DEF EInv, Noted
<1> QED
  BY <1>5, OthersNoted

LEMMA AwaitedNone ==
    ASSUME EInv, NEW r \in Request, NEW c \in awaiting[r], c[1] \in {TASK, SELECTION}
    PROVE  /\ status[r] = "in-flight" /\ call[r][Primary(TASK)] # "none"
           /\ \A role \in Role : execution[r].events[role] = 0
<1>1. c[1] # INTENT /\ c[1] # QUALITY
  BY RoleFacts
<1> QED
  BY <1>1 DEF EInv, Noted, AInv, RInv, Standing

LEMMA BeginEInv ==
    ASSUME EInv, NEW r \in Request, Begin(r), AInv'
    PROVE  EInv'
<1> DEFINE drafts == {TASK} \X (1 .. held[r])
<1>1. /\ status[r] = "in-flight" /\ call[r][Primary(TASK)] = "none" /\ Await(r, drafts)
      /\ UNCHANGED <<status, held, diagnostics, execution, record>>
  BY DEF Begin, lifecycle
<1>2. drafts \in SUBSET Call /\ held[r] \in Nat /\ held[r] >= 1
  <2>1. held[r] \in 0 .. Capacity
    BY DEF EInv, AInv, RInv, TypeOK
  <2> QED
    BY <1>1, <2>1, CallFacts, RequestAssumption DEF EInv, AInv, RInv, Standing
<1>3. Primary(TASK) \in drafts
  BY <1>2 DEF Primary
<1>4. \A role \in Role : execution'[r].events[role] = 0
  BY <1>1 DEF EInv, Noted, Nothing
<1>5. \A c \in drafts : c[1] = TASK
  OBVIOUS
<1> HIDE DEF drafts
<1> QED
  BY <1>1, <1>2, <1>3, <1>4, <1>5, RoleFacts, GoesOnNoted

LEMMA ProceedEInv ==
    ASSUME EInv, NEW r \in Request, AInv', SelfCheck(r) \/ Select(r)
    PROVE  EInv'
<1>1. PICK next \in {Fallback(TASK), Primary(SELECTION)} :
        /\ Returned(r, Primary(TASK)) /\ Primary(TASK) \in awaiting[r] /\ Await(r, {next})
        /\ execution' = [execution EXCEPT ![r].responses = Extend(@, awaiting[r])]
        /\ UNCHANGED <<status, held, template, diagnostics, record>>
  BY DEF SelfCheck, Select, Proceed, lifecycle, Returned
<1>2. {next} \in SUBSET Call /\ next[1] # INTENT /\ next[1] # QUALITY
  BY RoleFacts
<1>3. /\ status[r] = "in-flight" /\ call[r][Primary(TASK)] # "none"
      /\ \A role \in Role : execution[r].events[role] = 0
  BY <1>1, RoleFacts, AwaitedNone
<1>4. /\ execution'[r].events = execution[r].events
      /\ \A q \in Request \ {r} : execution'[q] = execution[q]
  BY <1>1 DEF EInv, AInv, RInv, TypeOK
<1> QED
  BY <1>1, <1>2, <1>3, <1>4, GoesOnNoted

LEMMA RepeatEInv ==
    ASSUME EInv, NEW r \in Request, NEW role \in Structured, Repeat(r, role), AInv'
    PROVE  EInv'
<1>1. /\ role # INTENT /\ Returned(r, Primary(role)) /\ Primary(role) \in awaiting[r]
      /\ Await(r, {Fallback(role)})
      /\ UNCHANGED <<status, held, template, diagnostics, execution, record>>
  BY DEF Repeat, Repeats, Returned, lifecycle
<1>2. {Fallback(role)} \in SUBSET Call /\ Fallback(role)[1] = role /\ Primary(role)[1] = role
  BY RoleFacts
<1>3. status[r] = "in-flight" /\ call[r][Primary(TASK)] # "none"
  BY <1>1, <1>2 DEF EInv, AInv, RInv, Standing
<1>4. \A x \in Role : execution[r].events[x] =
        IF x = SELECTION /\ role = QUALITY THEN Second(r, SELECTION) ELSE 0
  BY <1>1, <1>2 DEF EInv, Noted
<1> QED
  BY <1>1, <1>2, <1>3, <1>4, GoesOnNoted

LEMMA JudgeEInv ==
    ASSUME EInv, NEW r \in Request, NEW c \in Call, Judge(r, c), AInv'
    PROVE  EInv'
<1>1. /\ Returned(r, c) /\ c \in awaiting[r] /\ Await(r, {Primary(QUALITY)})
      /\ UNCHANGED <<status, held, template, diagnostics, record>>
      /\ execution' = [execution EXCEPT ![r] =
          IF c[1] = TASK
          THEN [execution[r] EXCEPT !.responses = Extend(@, awaiting[r]), !.output = c]
          ELSE [Joined(r, c) EXCEPT !.output = <<TASK, text[r][c]>>]]
  BY DEF Judge, lifecycle, Returned
<1>2. c[1] \in {TASK, SELECTION}
  BY RoleFacts DEF Judge
<1>3. {Primary(QUALITY)} \in SUBSET Call /\ Primary(QUALITY)[1] = QUALITY
  BY RoleFacts
<1>4. /\ status[r] = "in-flight" /\ call[r][Primary(TASK)] # "none"
      /\ \A role \in Role : execution[r].events[role] = 0
  BY <1>1, <1>2, AwaitedNone
<1>5. /\ execution'[r].events = IF c[1] = TASK THEN execution[r].events ELSE Joined(r, c).events
      /\ \A q \in Request \ {r} : execution'[q] = execution[q]
  BY <1>1 DEF EInv, AInv, RInv, TypeOK, Joined
<1>6. \A role \in Role : execution'[r].events[role] = IF role = SELECTION THEN Second(r, SELECTION) ELSE 0
  <2>1. CASE c[1] = TASK
    <3>1. call[r][Fallback(SELECTION)] = "none"
      BY <1>1, <2>1, RoleFacts DEF EInv, AInv, Accounted, Sequel, Fresh
    <3> QED
      BY <1>4, <1>5, <2>1, <3>1 DEF Second
  <2>2. CASE c[1] = SELECTION
    <3>1. \A role \in Role : Joined(r, c).events[role] =
                0 + (IF role = SELECTION THEN Second(r, role) ELSE 0)
      BY <1>1, <1>4, <2>2, JoinedEvents
    <3> QED
      BY <1>5, <2>2, <3>1, RoleFacts DEF Second
  <2> QED
    BY <1>2, <2>1, <2>2
<1> QED
  BY <1>1, <1>3, <1>4, <1>5, <1>6, RoleFacts, GoesOnNoted

LEMMA FailEInv ==
    ASSUME EInv, NEW r \in Request, NEW c \in Call, Fail(r, c), AInv'
    PROVE  EInv'
<1>1. /\ c[1] # INTENT /\ c \in awaiting[r] /\ Await(r, {}) /\ status'[r] = "failed"
      /\ UNCHANGED <<template, diagnostics, execution, record>>
      /\ \E next \in {"completed", "failed"} : status' = [status EXCEPT ![r] = next]
  BY DEF Fail, GivesUp, S!Release
<1>2. {} \in SUBSET Call
  OBVIOUS
<1>3. awaiting'[r] = {} /\ \A d \in Call : call'[r][d] = call[r][d]
  BY <1>1, <1>2, AwaitStep DEF EInv, AInv, RInv
<1>4. status[r] = "in-flight" /\ Second(r, INTENT)' = Second(r, INTENT)
  BY <1>1, <1>3, RoleFacts DEF EInv, AInv, RInv, Standing, Second
<1>5. Noted(r)'
  BY <1>1, <1>3, <1>4 DEF EInv, Noted
<1>6. \A q \in Request \ {r} : status'[q] = status[q]
  BY <1>1 DEF EInv, AInv, RInv, TypeOK
<1> QED
  BY <1>1, <1>2, <1>5, <1>6, OthersNoted

LEMMA CompleteEInv ==
    ASSUME EInv, NEW r \in Request, NEW c \in Call, Complete(r, c), AInv'
    PROVE  EInv'
<1>1. /\ c[1] = QUALITY /\ Returned(r, c) /\ c \in awaiting[r] /\ Await(r, {})
      /\ status'[r] = "completed" /\ UNCHANGED <<template, diagnostics>>
      /\ execution' = [execution EXCEPT ![r] = Joined(r, c)]
      /\ record' = [record EXCEPT ![r] = Recorded(r, Joined(r, c))]
      /\ \E next \in {"completed", "failed"} : status' = [status EXCEPT ![r] = next]
  BY DEF Complete, Returned, S!Release
<1>2. {} \in SUBSET Call
  OBVIOUS
<1>3. awaiting'[r] = {} /\ \A d \in Call : call'[r][d] = call[r][d]
  BY <1>1, <1>2, AwaitStep DEF EInv, AInv, RInv
<1>4. status[r] = "in-flight" /\ \A role \in Role : Second(r, role)' = Second(r, role)
  BY <1>1, <1>3, RoleFacts DEF EInv, AInv, RInv, Standing, Second
<1>5. \A role \in Role : record[r].events[role] = IF role = INTENT THEN Second(r, INTENT) ELSE 0
  BY <1>4 DEF EInv, Noted
<1>6. \A role \in Role : Joined(r, c).events[role] =
        (IF role = SELECTION THEN Second(r, SELECTION) ELSE 0)
          + (IF role = QUALITY THEN Second(r, QUALITY) ELSE 0)
  <2>1. \A role \in Role : execution[r].events[role] =
          IF role = SELECTION THEN Second(r, SELECTION) ELSE 0
    BY <1>1, RoleFacts DEF EInv, Noted
  <2>2. \A role \in Role : Joined(r, c).events[role] =
          execution[r].events[role] + (IF role = QUALITY THEN Second(r, role) ELSE 0)
    BY <1>1, JoinedEvents
  <2> QED
    BY <2>1, <2>2
<1>7. /\ \A role \in Role : record'[r].events[role] = record[r].events[role] + Joined(r, c).events[role]
      /\ \A q \in Request \ {r} :
            status'[q] = status[q] /\ execution'[q] = execution[q] /\ record'[q] = record[q]
  BY <1>1 DEF Recorded, EInv, AInv, RInv, TypeOK
<1>8. \A role \in Structured : record'[r].events[role] = Second(r, role)'
  <2>1. \A role \in Role : Second(r, role) \in {0, 1}
    BY DEF Second
  <2> QED
    BY <1>4, <1>5, <1>6, <1>7, <2>1, RoleFacts
<1>9. Noted(r)'
  BY <1>1, <1>3, <1>8 DEF Noted
<1> QED
  BY <1>1, <1>2, <1>7, <1>9, OthersNoted

LEMMA NextEInv == EInv /\ [Next]_vars => EInv'
<1> SUFFICES ASSUME EInv, [Next]_vars PROVE EInv'
  OBVIOUS
<1>1. AInv'
  BY NextAInv DEF EInv
<1>2. ASSUME NEW r \in Request, Submit(r) \/ RepeatExtraction(r) \/ Begin(r) PROVE EInv'
  BY <1>1, <1>2, SubmitEInv, RepeatExtractionEInv, BeginEInv
<1>3. ASSUME NEW r \in Request, SelfCheck(r) \/ Select(r) PROVE EInv'
  BY <1>1, <1>3, ProceedEInv
<1>4. ASSUME NEW r \in Request, NEW role \in Structured, Repeat(r, role) PROVE EInv'
  BY <1>1, <1>4, RepeatEInv
<1>5. ASSUME NEW r \in Request, NEW c \in Call,
             RefuseSubmission(r, c) \/ RecordSubmission(r, c) \/ Fail(r, c)
      PROVE  EInv'
  BY <1>1, <1>5, RefuseEInv, RecordEInv, FailEInv
<1>6. ASSUME NEW r \in Request, NEW c \in Call, Judge(r, c) \/ Complete(r, c) \/ Answer(r, c)
      PROVE  EInv'
  BY <1>1, <1>6, JudgeEInv, CompleteEInv, AnswerEInv
<1>7. CASE Dispatch \/ \E r \in Request : Cancel(r)
  BY <1>1, <1>7, QueueEInv
<1>8. CASE UNCHANGED vars
  BY <1>1, <1>8, NotedElsewhere DEF vars, EInv
<1> QED
  BY <1>2, <1>3, <1>4, <1>5, <1>6, <1>7, <1>8 DEF Next, Resume

\* A completed record names every role that needed a second model, once, and
\* no other: the extraction's events reach it with the submission, those of
\* selection and judge with the result (gateway.py's finalize_dispatched).
THEOREM FallbacksTheorem == Spec => []FallbacksReported
<1>1. ASSUME EInv PROVE FallbacksReported
  BY <1>1 DEF EInv, Noted, Second, FallbacksReported
<1> QED
  BY <1>1, EInvInit, NextEInv, PTL DEF Spec
=============================================================================
