------------------------------ MODULE Requests ------------------------------
(***************************************************************************)
(* The provider calls of a request, from its submission to its recorded    *)
(* result: intent.py's extract, execution.py's execute, and what gateway.py*)
(* records of both.                                                        *)
(*                                                                         *)
(* A request is one coroutine at a time: Gateway.submit, suspended in the  *)
(* extraction, and after the dispatch Gateway._execute.  Between two       *)
(* awaits nothing else on the event loop runs, so an action is the stretch *)
(* from one await to the next; `awaiting' says where the coroutine stands. *)
(* Whatever the scheduler does in between is what TaskLifecycle allows.    *)
(***************************************************************************)
EXTENDS Naturals, FiniteSets

CONSTANTS
    Request,
    Capacity,       \* provider-call slots
    Fallbacks       \* the structured roles with a fallback model of their own

INTENT == "intent_extraction"
TASK == "task_execution"
SELECTION == "candidate_selection"
QUALITY == "quality_judgment"
Structured == {INTENT, SELECTION, QUALITY}
Role == Structured \cup {TASK}

SINGLE_PASS == "single-pass"
SELF_CHECK == "single-pass+self-check"
PARALLEL_JUDGE == "parallel-drafts+judge"
Template == {SINGLE_PASS, SELF_CHECK, PARALLEL_JUDGE}

ASSUME RequestAssumption ==
    /\ IsFiniteSet(Request)
    /\ Capacity \in Nat
    /\ Fallbacks \subseteq Structured

VARIABLES
    status, held,   \* the scheduler, as TaskLifecycle has it
    template,       \* the execution template of the task's decision
    call,           \* the state of every call a request may make
    text,           \* what the answer to a call says
    awaiting,       \* the calls the coroutine of a request is suspended on
    diagnostics,    \* provider_responses and fallback_events of an extractor
    execution,      \* responses, fallback_events and output of execute
    record          \* accounting, fallback_events and output of _records

lifecycle == <<status, held>>
calls == <<call, text, awaiting>>
vars == <<status, held, template, call, text, awaiting, diagnostics, execution, record>>

S == INSTANCE TaskLifecycle WITH Task <- Request

-----------------------------------------------------------------------------
(* Calls *)

\* The role and number of a call: the drafts, or the first and second pass,
\* of the task; the primary and the fallback model of a structured role.
Call == (Structured \X {1, 2}) \cup ({TASK} \X ({1, 2} \cup 1 .. Capacity))
Primary(role) == <<role, 1>>
Fallback(role) == <<role, 2>>

\* What a structured answer says: no instance of the schema, or the number in
\* it; the extraction has a contract to offer or one with a cap of zero.
INVALID == 0
CONTRACT == 1
ZERO_CAP == 2

Texts(r, role) ==
    CASE role = INTENT -> {INVALID, CONTRACT, ZERO_CAP}
      [] role = SELECTION -> {INVALID} \cup 1 .. held[r] + 1
      [] role = QUALITY -> {INVALID, 1}
      [] role = TASK -> {1}

\* Mutant of Parses: any winner the schema admits is taken.
ParsesSchema(r, c) == text[r][c] # INVALID

\* The parser accepts the answer: _parse_selection knows the candidates, and
\* ParsedIntent admits a cap of zero.
Parses(r, c) ==
    IF c[1] = SELECTION THEN text[r][c] \in 1 .. held[r] ELSE text[r][c] # INVALID

\* Counts per role, in place of a list of responses or fallback events.
Nothing == [role \in Role |-> 0]
Extend(tally, made) ==
    [role \in Role |-> tally[role] + Cardinality({c \in made : c[1] = role})]

\* account_responses and merge_accounting
Account(tally) ==
    [task |-> tally[TASK],
     overhead |-> tally[INTENT] + tally[SELECTION] + tally[QUALITY]]
Merge(a, b) == [task |-> a.task + b.task, overhead |-> a.overhead + b.overhead]

NoOutput == <<TASK, 0>>
NoDiagnostics == [responses |-> Nothing, events |-> Nothing]
NoExecution == [responses |-> Nothing, events |-> Nothing, output |-> NoOutput]
NoRecord == [accounting |-> Account(Nothing), events |-> Nothing, output |-> NoOutput]

\* Mutant of Extractor: submissions share the gateway's extractor.
ExtractorShared(r) == CHOOSE e \in Request : TRUE

\* Each submission copies the gateway's extractor and extracts with the copy.
Extractor(r) == r

-----------------------------------------------------------------------------
(* Suspending and resuming *)

Init ==
    /\ S!Init
    /\ template = [r \in Request |-> SINGLE_PASS]
    /\ call = [r \in Request |-> [c \in Call |-> "none"]]
    /\ text = [r \in Request |-> [c \in Call |-> INVALID]]
    /\ awaiting = [r \in Request |-> {}]
    /\ diagnostics = [r \in Request |-> NoDiagnostics]
    /\ execution = [r \in Request |-> NoExecution]
    /\ record = [r \in Request |-> NoRecord]

\* The coroutine makes these calls and is suspended until they are over; with
\* no call it has returned.
Await(r, made) ==
    /\ awaiting' = [awaiting EXCEPT ![r] = made]
    /\ call' = [call EXCEPT ![r] = [c \in Call |-> IF c \in made THEN "flying" ELSE @[c]]]
    /\ UNCHANGED text

\* A provider answers or raises; complete records the call in both adapters.
Answer(r, c) ==
    /\ call[r][c] = "flying"
    /\ \/ /\ call' = [call EXCEPT ![r][c] = "answered"]
          /\ \E x \in Texts(r, c[1]) : text' = [text EXCEPT ![r][c] = x]
       \/ /\ call' = [call EXCEPT ![r][c] = "raised"]
          /\ UNCHANGED text
    /\ UNCHANGED <<lifecycle, template, awaiting, diagnostics, execution, record>>

\* Mutant of Resumed: gather without return_exceptions, which the first
\* failing draft ends.
ResumedByFirst(r) ==
    /\ awaiting[r] # {}
    /\ \/ \E c \in awaiting[r] : call[r][c] = "raised"
       \/ \A c \in awaiting[r] : call[r][c] = "answered"

\* The coroutine goes on when all calls it awaits are over.
Resumed(r) ==
    /\ awaiting[r] # {}
    /\ \A c \in awaiting[r] : call[r][c] \in {"answered", "raised"}

\* Mutant of Returned: drafts that failed are left out of the choice.
ReturnedByAny(r, c) ==
    Resumed(r) /\ c \in awaiting[r] /\ call[r][c] = "answered"

\* It goes on with answers, of which c's is one.
Returned(r, c) ==
    /\ Resumed(r)
    /\ c \in awaiting[r]
    /\ \A d \in awaiting[r] : call[r][d] = "answered"

\* The answer to the structured call c is of no use, and there is, or is not,
\* another model to ask.  A call that raises is not repeated.
Repeats(r, c) ==
    Returned(r, c) /\ ~Parses(r, c) /\ c[2] = 1 /\ c[1] \in Fallbacks
GivesUp(r, c) ==
    /\ Resumed(r)
    /\ c \in awaiting[r]
    /\ \/ call[r][c] = "raised"
       \/ /\ Returned(r, c)
          /\ c[1] # TASK /\ ~Parses(r, c)
          /\ ~(c[2] = 1 /\ c[1] \in Fallbacks)

-----------------------------------------------------------------------------
(* Submission *)

\* submit and extract up to the first call; extract starts with fresh lists.
Submit(r) ==
    /\ status[r] = "new"
    /\ \A c \in Call : call[r][c] = "none"
    /\ diagnostics' = [diagnostics EXCEPT ![Extractor(r)] = NoDiagnostics]
    /\ Await(r, {Primary(INTENT)})
    /\ UNCHANGED <<lifecycle, template, execution, record>>

\* The extractor's lists, with the answers the coroutine has just received.
Heard(r) ==
    [diagnostics[Extractor(r)] EXCEPT
        !.responses = Extend(@, {c \in awaiting[r] : call[r][c] = "answered"})]

\* extract asks its fallback model.
RepeatExtraction(r) ==
    /\ Repeats(r, Primary(INTENT))
    /\ diagnostics' = [diagnostics EXCEPT ![Extractor(r)] =
          [Heard(r) EXCEPT !.events = Extend(@, {Primary(INTENT)})]]
    /\ Await(r, {Fallback(INTENT)})
    /\ UNCHANGED <<lifecycle, template, execution, record>>

\* extract raises, and submit with it: nothing is recorded.  A cap of zero
\* passes ParsedIntent and is refused by TaskContract, after the fallback.
RefuseSubmission(r, c) ==
    /\ c[1] = INTENT
    /\ \/ GivesUp(r, c)
       \/ Returned(r, c) /\ text[r][c] = ZERO_CAP
    /\ diagnostics' = [diagnostics EXCEPT ![Extractor(r)] = Heard(r)]
    /\ Await(r, {})
    /\ UNCHANGED <<lifecycle, template, execution, record>>

\* submit goes on with a contract: it records the task and the scheduler
\* takes or refuses it.
RecordSubmission(r, c) ==
    /\ c[1] = INTENT
    /\ Returned(r, c) /\ Parses(r, c) /\ text[r][c] # ZERO_CAP
    /\ diagnostics' = [diagnostics EXCEPT ![Extractor(r)] = Heard(r)]
    /\ record' = [record EXCEPT ![r] =
          [accounting |-> Account(Heard(r).responses), events |-> Heard(r).events,
           output |-> NoOutput]]
    /\ S!Arrive(r)
    /\ Await(r, {})
    /\ UNCHANGED <<template, execution>>

\* tick and the cancel endpoint
Dispatch == S!Dispatch /\ UNCHANGED <<template, calls, diagnostics, execution, record>>
Cancel(r) == S!Withdraw(r) /\ UNCHANGED <<template, calls, diagnostics, execution, record>>

-----------------------------------------------------------------------------
(* Execution *)

\* _execute starts: the first pass, or as many drafts as slots were reserved.
Begin(r) ==
    /\ status[r] = "in-flight"
    /\ call[r][Primary(TASK)] = "none"
    /\ \E choice \in Template :
          /\ choice = PARALLEL_JUDGE <=> held[r] > 1
          /\ template' = [template EXCEPT ![r] = choice]
    /\ Await(r, {TASK} \X (1 .. held[r]))
    /\ UNCHANGED <<lifecycle, diagnostics, execution, record>>

\* The task's answers join the local list and the coroutine goes on to these.
Proceed(r, made) ==
    /\ execution' = [execution EXCEPT ![r].responses = Extend(@, awaiting[r])]
    /\ Await(r, made)
    /\ UNCHANGED <<lifecycle, template, diagnostics, record>>

SelfCheck(r) ==
    /\ template[r] = SELF_CHECK
    /\ Returned(r, Primary(TASK))
    /\ Proceed(r, {Fallback(TASK)})

Select(r) ==
    /\ template[r] = PARALLEL_JUDGE
    /\ Returned(r, Primary(TASK))
    /\ Proceed(r, {Primary(SELECTION)})

\* Mutant of Repeat: the fallback is the primary model, over and over.
RepeatForEver(r, role) ==
    /\ role # INTENT
    /\ \E c \in {Primary(role), Fallback(role)} :
          Returned(r, c) /\ ~Parses(r, c) /\ role \in Fallbacks
    /\ Await(r, {Primary(role)})
    /\ UNCHANGED <<lifecycle, template, diagnostics, execution, record>>

\* _structured_call asks its fallback model; its lists are its own until it
\* returns.
Repeat(r, role) ==
    /\ role # INTENT
    /\ Repeats(r, Primary(role))
    /\ Await(r, {Fallback(role)})
    /\ UNCHANGED <<lifecycle, template, diagnostics, execution, record>>

\* What execute has after _structured_call returns on the answer to c: both
\* answers, and an event if there were two.
Joined(r, c) ==
    [execution[r] EXCEPT
        !.responses = Extend(@, {c[1]} \X (1 .. c[2])),
        !.events = Extend(@, {d \in {c} : d[2] = 2})]

\* The output is settled and the judge is asked.
Judge(r, c) ==
    /\ Returned(r, c)
    /\ execution' = [execution EXCEPT ![r] =
          IF c[1] = TASK
          THEN [execution[r] EXCEPT !.responses = Extend(@, awaiting[r]), !.output = c]
          ELSE [Joined(r, c) EXCEPT !.output = <<TASK, text[r][c]>>]]
    /\ \/ template[r] = SINGLE_PASS /\ c = Primary(TASK)
       \/ template[r] = SELF_CHECK /\ c = Fallback(TASK)
       \/ c[1] = SELECTION /\ Parses(r, c)
    /\ Await(r, {Primary(QUALITY)})
    /\ UNCHANGED <<lifecycle, template, diagnostics, record>>

\* Mutant of Recorded: the result replaces what the submission recorded of
\* fallbacks.
RecordedAnew(r, result) ==
    [accounting |-> Merge(record[r].accounting, Account(result.responses)),
     events |-> result.events, output |-> result.output]

\* The record of finalize_dispatched.
Recorded(r, result) ==
    [accounting |-> Merge(record[r].accounting, Account(result.responses)),
     events |-> [role \in Role |-> record[r].events[role] + result.events[role]],
     output |-> result.output]

\* execute returns and finalize_dispatched completes the task.
Complete(r, c) ==
    /\ c[1] = QUALITY
    /\ Returned(r, c) /\ Parses(r, c)
    /\ execution' = [execution EXCEPT ![r] = Joined(r, c)]
    /\ record' = [record EXCEPT ![r] = Recorded(r, Joined(r, c))]
    /\ S!Release(r)
    /\ status'[r] = "completed"
    /\ Await(r, {})
    /\ UNCHANGED <<template, diagnostics>>

\* execute raises: the responses it held are lost with it.
Fail(r, c) ==
    /\ c[1] # INTENT
    /\ GivesUp(r, c)
    /\ S!Release(r)
    /\ status'[r] = "failed"
    /\ Await(r, {})
    /\ UNCHANGED <<template, diagnostics, execution, record>>

-----------------------------------------------------------------------------

\* A step of the coroutine of r.
Resume(r) ==
    \/ RepeatExtraction(r)
    \/ Begin(r) \/ SelfCheck(r) \/ Select(r)
    \/ \E role \in Structured : Repeat(r, role)
    \/ \E c \in Call :
          \/ RefuseSubmission(r, c) \/ RecordSubmission(r, c)
          \/ Judge(r, c) \/ Complete(r, c) \/ Fail(r, c)

Next ==
    \/ Dispatch
    \/ \E r \in Request :
          \/ Submit(r) \/ Cancel(r) \/ Resume(r)
          \/ \E c \in Call : Answer(r, c)

Spec == Init /\ [][Next]_vars

\* A call returns or raises (the client of the real adapter has a timeout),
\* and the event loop runs what is ready.
Fairness ==
    \A r \in Request :
        /\ WF_vars(Resume(r))
        /\ \A c \in Call : WF_vars(Answer(r, c))

FairSpec == Spec /\ Fairness

-----------------------------------------------------------------------------
(* Properties *)

Tally == [Role -> Nat]
Usage == [task : Nat, overhead : Nat]
Output == Call \cup {NoOutput}

\* Every field stays in its domain; an output is a call the task can make.
TypeOK ==
    /\ status \in [Request -> S!Status]
    /\ held \in [Request -> 0 .. Capacity]
    /\ template \in [Request -> Template]
    /\ call \in [Request -> [Call -> {"none", "flying", "answered", "raised"}]]
    /\ text \in [Request -> [Call -> Nat]]
    /\ awaiting \in [Request -> SUBSET Call]
    /\ diagnostics \in [Request -> [responses : Tally, events : Tally]]
    /\ execution \in [Request -> [responses : Tally, events : Tally, output : Output]]
    /\ record \in [Request -> [accounting : Usage, events : Tally, output : Output]]

Flying == {x \in Request \X Call : x[2][1] # INTENT /\ call[x[1]][x[2]] = "flying"}

\* execution.py:159: "Wait for every draft even when one fails. Releasing the
\* task's capacity while sibling calls still run would exceed the limit."  The
\* calls that executions have with the provider never exceed the slots.
CallsWithinCapacity == Cardinality(Flying) <= Capacity

Answered(r, roles) == {c \in Call : c[1] \in roles /\ call[r][c] = "answered"}

\* However the calls of concurrent requests interleave, a record accounts for
\* its own answered calls and no other: those of the extraction, and once the
\* task is completed all, both attempts at an answer included.
ExactAccounting ==
    \A r \in Request : status[r] # "new" =>
        record[r].accounting =
            IF status[r] = "completed"
            THEN [task |-> Cardinality(Answered(r, {TASK})),
                  overhead |-> Cardinality(Answered(r, Structured))]
            ELSE [task |-> 0, overhead |-> Cardinality(Answered(r, {INTENT}))]

\* A completed record names the roles that had to ask a second model, each
\* once, from the extraction to the judge.
FallbacksReported ==
    \A r \in Request : status[r] = "completed" =>
        \A role \in Structured :
            record[r].events[role] = IF call[r][Fallback(role)] = "answered" THEN 1 ELSE 0

\* A recorded output is the answer to a call of the request itself, the
\* checked one if there is a check, and no draft is missing when a winner is
\* chosen.
OutputExists ==
    \A r \in Request : status[r] = "completed" =>
        /\ call[r][record[r].output] = "answered"
        /\ template[r] = SELF_CHECK => record[r].output = Fallback(TASK)
        /\ \A c \in Call : c[1] = TASK => call[r][c] \in {"none", "answered"}

\* Every submission is answered and every execution ends: no call that fails,
\* no invalid answer and no sibling keeps a coroutine for ever.
EveryCoroutineEnds ==
    \A r \in Request :
        (status[r] = "in-flight" \/ awaiting[r] # {})
            ~> (status[r] # "in-flight" /\ awaiting[r] = {})
=============================================================================
