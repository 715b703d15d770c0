---------------------------- MODULE GatewayProofs ----------------------------
(***************************************************************************)
(* The gateway keeps its books, for every number of tasks, slots, worker   *)
(* threads and failing writes: every execution under way is paid for in    *)
(* slots, no started task is lost, no row tells of an end that did not     *)
(* come about, rows catch up, and close leaves nothing behind.  The        *)
(* argument is about what the event loop has still to do: the statements   *)
(* of `agenda' say which task must be in which state.                      *)
(***************************************************************************)
EXTENDS Gateway, FiniteSetTheorems, SequenceTheorems, TLAPS

Member(x, s) == \E i \in 1 .. Len(s) : s[i] = x

\* A new contract is followed by the snapshot of its task and a snapshot by
\* the write it is for; a write that is not the next statement is preceded by
\* its snapshot, and what the finally clause does comes last.
Paired(s) ==
    \A i \in 1 .. Len(s) :
        /\ s[i][1] \in Field => i < Len(s) /\ s[i + 1] = <<"snapshot", s[i][2]>>
        /\ s[i][1] = "snapshot" => i < Len(s) /\ s[i + 1] = <<"put", s[i][2]>>
        /\ s[i][1] = "put" /\ i > 1 => s[i - 1] = <<"snapshot", s[i][2]>>
        /\ s[i][1] = "leave" => i = Len(s)

Outcome == {"completed", "failed"}
Final == {"completed", "failed", "cancelled", "rejected"}
Ending(outcome, t) ==
    <<<<outcome, t>>, <<"snapshot", t>>, <<"put", t>>, <<"leave", t>>>>

Busy(t) == sched[t] = "in-flight" /\ held[t] > 0

\* The loop has a list to go through on which t is.
Dispatching(t) ==
    \E name \in {"next", "dispatched"}, list \in Seq(Task) :
        Member(<<name, list>>, agenda[LOOP]) /\ Member(t, list)

\* The loop will write the row of t as t is then.
Writing(t) ==
    Member(<<"snapshot", t>>, agenda[LOOP]) \/ (At(LOOP, "put") /\ Argument(LOOP) = t)

\* The loop will look for refused tasks.
Noticing ==
    \/ Member(<<"rejections", <<>>>>, agenda[LOOP])
    \/ \E list \in Seq(Task) : Member(<<"next", list>>, agenda[LOOP])

\* Threads: workers only write rows of cancelled tasks, an execution that ends
\* does nothing else, and a gateway that stops begins nothing new.
Shapes ==
    /\ \A h \in Thread : Paired(agenda[h])
    /\ \A h \in Worker, x \in Statement :
          Member(x, agenda[h]) => x[1] \in {"snapshot", "put"} /\ sched[x[2]] = "cancelled"
    /\ \A outcome \in Outcome, t \in Task :
          Member(<<outcome, t>>, agenda[LOOP]) => agenda[LOOP] = Ending(outcome, t)
    /\ phase # "open" =>
          /\ \A h \in Worker : Idle(h)
          /\ \A x \in Statement :
                Member(x, agenda[LOOP]) => x[1] \in Outcome \cup {"snapshot", "put", "leave"}
          /\ running \subseteq awaited
    /\ phase = "closed" => running = {} /\ Idle(LOOP)

\* Slots: what is about to be launched and what runs holds them, what has
\* ended or is about to end leaves, and nothing that started is forgotten.
Paid(t) ==
    /\ sched[t] # "in-flight" => held[t] = 0
    /\ Member(<<"launch", t>>, agenda[LOOP]) \/ Dispatching(t) => Busy(t)
    /\ t \in running => Busy(t) \/ Member(<<"leave", t>>, agenda[LOOP])
    /\ Member(<<"leave", t>>, agenda[LOOP]) =>
          sched[t] \in Outcome \/ \E outcome \in Outcome : Member(<<outcome, t>>, agenda[LOOP])
    /\ failures = 0 /\ sched[t] = "in-flight" =>
          t \in running \/ Member(<<"launch", t>>, agenda[LOOP]) \/ Dispatching(t)

\* The class of the row is that of the task, or the task has risen since and
\* still waits.
RowClass(t) ==
    storedClass[t] = class[t] \/ (sched[t] = "queued" /\ class[t] < storedClass[t])

\* The task waits, and its class rises.
Rises(t) ==
    /\ sched[t] = "queued" /\ class'[t] < class[t]
    /\ {class[t], class'[t], storedClass[t]} \subseteq Rank

\* Rows: what a thread is about to write was true and is overtaken by a
\* cancellation at most; a row that lags will be written.
Vouched(h) ==
    LET t == Argument(h) IN
    At(h, "put") =>
        /\ seen[h] = Reported(t) \/ (sched[t] = "cancelled" /\ seen[h] = "queued")
        /\ seenClass[h] = class[t]
Told(t) ==
    /\ record[t] = "none" <=> sched[t] = "new"
    /\ record[t] = "rejected" => sched[t] = "rejected"
    /\ stored[t] \in Final => sched[t] = stored[t] /\ storedClass[t] = class[t]
CatchesUp(t) ==
    /\ sched[t] # "cancelled" =>
          \/ stored[t] = Reported(t) /\ RowClass(t)
          \/ Writing(t)
          \/ Dispatching(t)
          \/ sched[t] = "rejected" /\ record[t] # "rejected" /\ Noticing
    /\ sched[t] = "cancelled" =>
          stored[t] \in {"queued", "cancelled"} \/ \E h \in Thread : Member(<<"put", t>>, agenda[h])

Slots == S!Held(held) <= Capacity /\ \A t \in Task : Paid(t)
Rows ==
    /\ \A h \in Thread : Vouched(h)
    /\ \A t \in Task : Told(t)
    /\ failures = 0 => \A t \in Task : CatchesUp(t)

GInv == TypeOK /\ Shapes /\ Slots /\ Rows

-----------------------------------------------------------------------------
(* Sequences *)

LEMMA ConcatMembers ==
    ASSUME NEW V, NEW s \in Seq(V), NEW u \in Seq(V), NEW x
    PROVE  Member(x, s \o u) <=> Member(x, s) \/ Member(x, u)
<1> DEFINE w == s \o u
<1>1. /\ Len(w) = Len(s) + Len(u) /\ Len(s) \in Nat /\ Len(u) \in Nat
      /\ \A i \in 1 .. Len(s) + Len(u) : w[i] = IF i <= Len(s) THEN s[i] ELSE u[i - Len(s)]
  BY ConcatProperties
<1> HIDE DEF w
<1>2. ASSUME Member(x, w) PROVE Member(x, s) \/ Member(x, u)
  BY <1>1, <1>2 DEF Member
<1>3. ASSUME Member(x, s) PROVE Member(x, w)
  BY <1>1, <1>3 DEF Member
<1>4. ASSUME Member(x, u) PROVE Member(x, w)
  <2>1. PICK i \in 1 .. Len(u) : u[i] = x
    BY <1>4 DEF Member
  <2>2. i + Len(s) \in 1 .. Len(w) /\ w[i + Len(s)] = x
    BY <1>1, <2>1
  <2> QED
    BY <2>2 DEF Member
<1> QED
  BY <1>2, <1>3, <1>4 DEF w

LEMMA ConcatPaired ==
    ASSUME NEW V, NEW s \in Seq(V), NEW u \in Seq(V), Paired(s), Paired(u),
           \A i \in 1 .. Len(s) : s[i][1] # "leave",
           u = <<>> \/ u[1][1] # "put"
    PROVE  Paired(s \o u)
<1> DEFINE w == s \o u
<1>1. /\ Len(w) = Len(s) + Len(u) /\ Len(s) \in Nat /\ Len(u) \in Nat
      /\ \A i \in 1 .. Len(s) + Len(u) : w[i] = IF i <= Len(s) THEN s[i] ELSE u[i - Len(s)]
  BY ConcatProperties
<1>2. u = <<>> => Len(u) = 0
  OBVIOUS
<1> HIDE DEF w
<1>3. ASSUME NEW i \in 1 .. Len(w)
      PROVE  /\ w[i][1] \in Field => i < Len(w) /\ w[i + 1] = <<"snapshot", w[i][2]>>
             /\ w[i][1] = "snapshot" => i < Len(w) /\ w[i + 1] = <<"put", w[i][2]>>
             /\ w[i][1] = "put" /\ i > 1 => w[i - 1] = <<"snapshot", w[i][2]>>
             /\ w[i][1] = "leave" => i = Len(w)
  <2>0. i \in Nat /\ i >= 1 /\ i <= Len(s) + Len(u)
    BY <1>1
  <2>1. CASE i <= Len(s)
    <3>1. w[i] = s[i] /\ i \in 1 .. Len(s)
      BY <1>1, <2>0, <2>1
    <3>2. i > 1 => w[i - 1] = s[i - 1]
      <4>1. i > 1 => i - 1 \in 1 .. Len(s) + Len(u) /\ i - 1 <= Len(s)
        BY <1>1, <2>0, <2>1
      <4> QED
        BY <1>1, <4>1
    <3>3. i < Len(s) => w[i + 1] = s[i + 1]
      <4>1. i < Len(s) => i + 1 \in 1 .. Len(s) + Len(u) /\ i + 1 <= Len(s)
        BY <1>1, <2>0, <2>1
      <4> QED
        BY <1>1, <4>1
    <3>4. s[i][1] # "leave" /\ (s[i][1] = "snapshot" => i < Len(s) /\ s[i + 1] = <<"put", s[i][2]>>)
          /\ (s[i][1] = "put" /\ i > 1 => s[i - 1] = <<"snapshot", s[i][2]>>)
          /\ (s[i][1] \in Field => i < Len(s) /\ s[i + 1] = <<"snapshot", s[i][2]>>)
      BY <3>1 DEF Paired
    <3>5. i < Len(s) => i < Len(w)
      BY <1>1, <2>0
    <3> QED
      BY <3>1, <3>2, <3>3, <3>4, <3>5
  <2>2. CASE i > Len(s)
    <3>1. PICK j \in 1 .. Len(u) : i = Len(s) + j
      <4>1. i - Len(s) \in 1 .. Len(u) /\ i = Len(s) + (i - Len(s))
        BY <1>1, <2>0, <2>2
      <4> QED
        BY <4>1
    <3>2. w[i] = u[j]
      BY <1>1, <3>1
    <3>3. j > 1 => w[i - 1] = u[j - 1]
      <4>1. j > 1 => i - 1 \in 1 .. Len(s) + Len(u) /\ ~(i - 1 <= Len(s)) /\ i - 1 - Len(s) = j - 1
        BY <1>1, <3>1
      <4> QED
        BY <1>1, <4>1
    <3>4. j < Len(u) => w[i + 1] = u[j + 1]
      <4>1. j < Len(u) => i + 1 \in 1 .. Len(s) + Len(u) /\ ~(i + 1 <= Len(s)) /\ i + 1 - Len(s) = j + 1
        BY <1>1, <3>1
      <4> QED
        BY <1>1, <4>1
    <3>5. u[j][1] = "put" => j > 1
      <4>1. j = 1 \/ j > 1
        BY <1>1, <3>1
      <4> QED
        BY <1>1, <1>2, <3>1, <4>1
    <3>6. /\ u[j][1] \in Field => j < Len(u) /\ u[j + 1] = <<"snapshot", u[j][2]>>
          /\ u[j][1] = "snapshot" => j < Len(u) /\ u[j + 1] = <<"put", u[j][2]>>
          /\ u[j][1] = "put" /\ j > 1 => u[j - 1] = <<"snapshot", u[j][2]>>
          /\ u[j][1] = "leave" => j = Len(u)
      BY <3>1 DEF Paired
    <3>7. (j < Len(u) => i < Len(w)) /\ (j = Len(u) => i = Len(w))
      <4>1. j \in Nat /\ Len(w) = Len(s) + Len(u) /\ Len(s) \in Nat /\ Len(u) \in Nat
        BY <1>1, <3>1
      <4>2. i = Len(s) + j
        BY <3>1
      <4> QED
        BY <4>1, <4>2
    <3>8. w[i][1] = "snapshot" => i < Len(w) /\ w[i + 1] = <<"put", w[i][2]>>
      BY <3>2, <3>4, <3>6, <3>7
    <3>9. w[i][1] = "put" => w[i - 1] = <<"snapshot", w[i][2]>>
      BY <3>2, <3>3, <3>5, <3>6
    <3>10. w[i][1] = "leave" => i = Len(w)
      BY <3>2, <3>6, <3>7
    <3>11. w[i][1] \in Field => i < Len(w) /\ w[i + 1] = <<"snapshot", w[i][2]>>
      BY <3>2, <3>4, <3>6, <3>7
    <3> QED
      BY <3>8, <3>9, <3>10, <3>11
  <2> QED
    BY <1>1, <2>0, <2>1, <2>2
<1> QED
  BY <1>3 DEF Paired, w

LEMMA TailMembers ==
    ASSUME NEW V, NEW s \in Seq(V), s # <<>>
    PROVE  /\ Tail(s) \in Seq(V) /\ Head(s) \in V /\ Head(s) = s[1]
           /\ \A x : Member(x, s) <=> x = Head(s) \/ Member(x, Tail(s))
BY HeadTailProperties DEF Member

\* What is left of a paired sequence is paired; a write comes first only
\* after its snapshot, and nothing comes after "leave".
LEMMA TailPaired ==
    ASSUME NEW V, NEW s \in Seq(V), s # <<>>, Paired(s)
    PROVE  /\ Paired(Tail(s))
           /\ Head(s)[1] # "snapshot" => Tail(s) = <<>> \/ Tail(s)[1][1] # "put"
           /\ Head(s)[1] \in Field => Tail(s) # <<>> /\ Head(Tail(s)) = <<"snapshot", Head(s)[2]>>
           /\ Head(s)[1] = "snapshot" => Tail(s) # <<>> /\ Head(Tail(s)) = <<"put", Head(s)[2]>>
           /\ Head(s)[1] = "leave" => Tail(s) = <<>>
<1>1. /\ Tail(s) \in Seq(V) /\ Head(s) = s[1] /\ Len(s) \in Nat /\ Len(s) >= 1
      /\ Len(Tail(s)) = Len(s) - 1
      /\ \A i \in 1 .. Len(Tail(s)) : Tail(s)[i] = s[i + 1]
  BY HeadTailProperties, EmptySeq
<1>2. Paired(Tail(s))
  BY HeadTailProperties DEF Paired
<1>3. 1 \in 1 .. Len(s) /\ (Len(s) > 1 => 2 \in 1 .. Len(s))
  BY <1>1
<1>4. /\ s[1][1] \in Field => 1 < Len(s) /\ s[2] = <<"snapshot", s[1][2]>>
      /\ s[1][1] = "snapshot" => 1 < Len(s) /\ s[2] = <<"put", s[1][2]>>
      /\ s[1][1] = "leave" => Len(s) = 1
  <2>1. 1 + 1 = 2
    OBVIOUS
  <2> QED
    BY <1>3, <2>1 DEF Paired
<1>5. Len(s) > 1 /\ s[2][1] = "put" => s[1] = <<"snapshot", s[2][2]>>
  <2>1. 2 > 1 /\ 2 - 1 = 1
    OBVIOUS
  <2> QED
    BY <1>3, <2>1 DEF Paired
<1>6. Tail(s) # <<>> => Len(Tail(s)) >= 1 /\ Head(Tail(s)) = Tail(s)[1]
  BY <1>1, EmptySeq, HeadTailProperties
<1>7. Tail(s) # <<>> => Len(s) > 1 /\ Tail(s)[1] = s[2]
  <2>1. 1 + 1 = 2 /\ (Tail(s) # <<>> => 1 \in 1 .. Len(Tail(s)) /\ Len(s) > 1)
    BY <1>1, <1>6
  <2>2. Tail(s) # <<>> => Tail(s)[1] = s[1 + 1]
    BY <1>1, <2>1
  <2> QED
    BY <2>1, <2>2
<1>8. Len(s) > 1 => Tail(s) # <<>>
  <2>1. Len(<<>>) = 0
    OBVIOUS
  <2>2. Len(s) > 1 => Len(Tail(s)) # 0
    BY <1>1
  <2> QED
    BY <2>1, <2>2
<1>9. Head(s)[1] # "snapshot" => Tail(s) = <<>> \/ Tail(s)[1][1] # "put"
  BY <1>1, <1>5, <1>7
<1>10. Head(s)[1] = "snapshot" => Tail(s) # <<>> /\ Head(Tail(s)) = <<"put", Head(s)[2]>>
  BY <1>1, <1>4, <1>6, <1>7, <1>8
<1>11. Head(s)[1] = "leave" => Tail(s) = <<>>
  BY <1>1, <1>4, <1>7
<1>12. Head(s)[1] \in Field => Tail(s) # <<>> /\ Head(Tail(s)) = <<"snapshot", Head(s)[2]>>
  BY <1>1, <1>4, <1>6, <1>7, <1>8
<1> QED
  BY <1>2, <1>9, <1>10, <1>11, <1>12

LEMMA TupleMembers ==
    /\ \A x : ~ Member(x, <<>>)
    /\ \A a, x : Member(x, <<a>>) <=> x = a
    /\ \A a, b, x : Member(x, <<a, b>>) <=> x = a \/ x = b
    /\ \A a, b, d, x : Member(x, <<a, b, d>>) <=> x = a \/ x = b \/ x = d
    /\ \A a, b, d, e, x : Member(x, <<a, b, d, e>>) <=> x = a \/ x = b \/ x = d \/ x = e
BY DEF Member

LEMMA TupleSeq ==
    ASSUME NEW V
    PROVE  /\ <<>> \in Seq(V)
           /\ \A a \in V : <<a>> \in Seq(V)
           /\ \A a, b \in V : <<a, b>> \in Seq(V)
           /\ \A a, b, d \in V : <<a, b, d>> \in Seq(V)
           /\ \A a, b, d, e \in V : <<a, b, d, e>> \in Seq(V)
OBVIOUS

LEMMA StatementFacts ==
    /\ \A t \in Task, name \in {"snapshot", "put", "launch", "completed", "failed", "leave"} \cup Field :
          <<name, t>> \in Statement
    /\ \A list \in Seq(Task) : <<"next", list>> \in Statement /\ <<"dispatched", list>> \in Statement
    /\ <<"rejections", <<>>>> \in Statement /\ <<"doze", <<>>>> \in Statement
    /\ \A x \in Statement :
          /\ x = <<x[1], x[2]>>
          /\ x[1] \in {"snapshot", "put", "launch", "completed", "failed", "leave"} \cup Field => x[2] \in Task
          /\ x[1] \in {"next", "dispatched"} => x[2] \in Seq(Task)
          /\ x[1] \in {"rejections", "doze"} => x[2] = <<>>
BY DEF Statement, Field

LEMMA ConcatTuples ==
    /\ \A a, b : <<a>> \o <<b>> = <<a, b>>
    /\ \A a, b, d : <<a>> \o <<b, d>> = <<a, b, d>>
    /\ \A a, b, d : <<a, b>> \o <<d>> = <<a, b, d>>
    /\ \A a, b, d, e : <<a, b>> \o <<d, e>> = <<a, b, d, e>>
    /\ \A a, b, d, e : <<a, b, d>> \o <<e>> = <<a, b, d, e>>
<1>1. ASSUME NEW a, NEW b PROVE <<a>> \o <<b>> = <<a, b>>
  <2> DEFINE V == {a, b}
             w == <<a>> \o <<b>>
  <2>1. <<a>> \in Seq(V) /\ <<b>> \in Seq(V) /\ <<a, b>> \in Seq(V)
    OBVIOUS
  <2> HIDE DEF V
  <2>2. w \in Seq(V) /\ Len(w) = 2 /\ w[1] = a /\ w[2] = b
    BY <2>1, ConcatProperties
  <2> HIDE DEF w
  <2>3. w = <<a, b>>
    BY <2>1, <2>2, SeqEqual
  <2> QED
    BY <2>3 DEF w
<1>2. ASSUME NEW a, NEW b, NEW d PROVE <<a>> \o <<b, d>> = <<a, b, d>>
  <2> DEFINE V == {a, b, d}
             w == <<a>> \o <<b, d>>
  <2>1. <<a>> \in Seq(V) /\ <<b, d>> \in Seq(V) /\ <<a, b, d>> \in Seq(V)
    OBVIOUS
  <2> HIDE DEF V
  <2>2. w \in Seq(V) /\ Len(w) = 3 /\ w[1] = a /\ w[2] = b /\ w[3] = d
    BY <2>1, ConcatProperties
  <2> HIDE DEF w
  <2>3. w = <<a, b, d>>
    BY <2>1, <2>2, SeqEqual
  <2> QED
    BY <2>3 DEF w
<1>3. ASSUME NEW a, NEW b, NEW d PROVE <<a, b>> \o <<d>> = <<a, b, d>>
  <2> DEFINE V == {a, b, d}
             w == <<a, b>> \o <<d>>
  <2>1. <<a, b>> \in Seq(V) /\ <<d>> \in Seq(V) /\ <<a, b, d>> \in Seq(V)
    OBVIOUS
  <2> HIDE DEF V
  <2>2. w \in Seq(V) /\ Len(w) = 3 /\ w[1] = a /\ w[2] = b /\ w[3] = d
    BY <2>1, ConcatProperties
  <2> HIDE DEF w
  <2>3. w = <<a, b, d>>
    BY <2>1, <2>2, SeqEqual
  <2> QED
    BY <2>3 DEF w
<1>4. ASSUME NEW a, NEW b, NEW d, NEW e PROVE <<a, b>> \o <<d, e>> = <<a, b, d, e>>
  <2> DEFINE V == {a, b, d, e}
             w == <<a, b>> \o <<d, e>>
  <2>1. <<a, b>> \in Seq(V) /\ <<d, e>> \in Seq(V) /\ <<a, b, d, e>> \in Seq(V)
    OBVIOUS
  <2> HIDE DEF V
  <2>2. w \in Seq(V) /\ Len(w) = 4 /\ w[1] = a /\ w[2] = b /\ w[3] = d /\ w[4] = e
    BY <2>1, ConcatProperties
  <2> HIDE DEF w
  <2>3. w = <<a, b, d, e>>
    BY <2>1, <2>2, SeqEqual
  <2> QED
    BY <2>3 DEF w
<1>5. ASSUME NEW a, NEW b, NEW d, NEW e PROVE <<a, b, d>> \o <<e>> = <<a, b, d, e>>
  <2> DEFINE V == {a, b, d, e}
             w == <<a, b, d>> \o <<e>>
  <2>1. <<a, b, d>> \in Seq(V) /\ <<e>> \in Seq(V) /\ <<a, b, d, e>> \in Seq(V)
    OBVIOUS
  <2> HIDE DEF V
  <2>2. w \in Seq(V) /\ Len(w) = 4 /\ w[1] = a /\ w[2] = b /\ w[3] = d /\ w[4] = e
    BY <2>1, ConcatProperties
  <2> HIDE DEF w
  <2>3. w = <<a, b, d, e>>
    BY <2>1, <2>2, SeqEqual
  <2> QED
    BY <2>3 DEF w
<1> QED
  BY <1>1, <1>2, <1>3, <1>4, <1>5

\* The stretches that begin with a row to write or with a tick.
LEMMA Stretches ==
    ASSUME NEW t, NEW name, NEW list
    PROVE  /\ Persist(t) \o Tick = <<<<"snapshot", t>>, <<"put", t>>, <<"next", <<>>>>>>
           /\ <<<<name, t>>>> \o Persist(t) \o Tick =
                <<<<name, t>>, <<"snapshot", t>>, <<"put", t>>, <<"next", <<>>>>>>
           /\ Tick \o <<<<"doze", <<>>>>>> = <<<<"next", <<>>>>, <<"doze", <<>>>>>>
           /\ <<<<name, t>>>> \o Persist(t) \o <<<<"leave", t>>>> = Ending(name, t)
           /\ Persist(t) \o <<<<"launch", t>>, <<"dispatched", list>>>> =
                <<<<"snapshot", t>>, <<"put", t>>, <<"launch", t>>, <<"dispatched", list>>>>
<1> DEFINE first == <<name, t>>
           snapshot == <<"snapshot", t>>
           put == <<"put", t>>
           next == <<"next", <<>>>>
           doze == <<"doze", <<>>>>
           leave == <<"leave", t>>
           launch == <<"launch", t>>
           dispatched == <<"dispatched", list>>
<1> HIDE DEF first, snapshot, put, next, doze, leave, launch, dispatched
<1>1. <<snapshot, put>> \o <<next>> = <<snapshot, put, next>>
  BY ConcatTuples
<1>2. <<first>> \o <<snapshot, put>> = <<first, snapshot, put>>
  BY ConcatTuples
<1>3. <<first, snapshot, put>> \o <<next>> = <<first, snapshot, put, next>>
  BY ConcatTuples
<1>4. <<next>> \o <<doze>> = <<next, doze>>
  BY ConcatTuples
<1>5. <<first, snapshot, put>> \o <<leave>> = <<first, snapshot, put, leave>>
  BY ConcatTuples
<1>6. <<snapshot, put>> \o <<launch, dispatched>> = <<snapshot, put, launch, dispatched>>
  BY ConcatTuples
<1>7. Persist(t) = <<snapshot, put>> /\ Tick = <<next>> /\ Ending(name, t) = <<first, snapshot, put, leave>>
  BY DEF Persist, Tick, Ending, first, snapshot, put, next, leave
<1> QED
  BY <1>1, <1>2, <1>3, <1>4, <1>5, <1>6, <1>7 DEF first, snapshot, put, next, doze, leave, launch, dispatched

-----------------------------------------------------------------------------
(* What a thread has still to do *)

\* Their statements, and the first ones.
LEMMA StretchMembers ==
    ASSUME NEW t, NEW name, NEW list
    PROVE  /\ \A x : Member(x, Persist(t)) <=> x = <<"snapshot", t>> \/ x = <<"put", t>>
           /\ \A x : Member(x, Persist(t) \o Tick) <=>
                x = <<"snapshot", t>> \/ x = <<"put", t>> \/ x = <<"next", <<>>>>
           /\ \A x : Member(x, <<<<name, t>>>> \o Persist(t) \o Tick) <=>
                \/ x = <<name, t>> \/ x = <<"snapshot", t>> \/ x = <<"put", t>>
                \/ x = <<"next", <<>>>>
           /\ \A x : Member(x, Tick \o <<<<"doze", <<>>>>>>) <=>
                x = <<"next", <<>>>> \/ x = <<"doze", <<>>>>
           /\ \A x : Member(x, Ending(name, t)) <=>
                \/ x = <<name, t>> \/ x = <<"snapshot", t>> \/ x = <<"put", t>>
                \/ x = <<"leave", t>>
           /\ \A x : Member(x, <<<<"rejections", <<>>>>, <<"dispatched", list>>>>) <=>
                x = <<"rejections", <<>>>> \/ x = <<"dispatched", list>>
           /\ \A x : Member(x, Persist(t) \o <<<<"launch", t>>, <<"dispatched", list>>>>) <=>
                \/ x = <<"snapshot", t>> \/ x = <<"put", t>>
                \/ x = <<"launch", t>> \/ x = <<"dispatched", list>>
<1> DEFINE first == <<name, t>>
           snapshot == <<"snapshot", t>>
           put == <<"put", t>>
           next == <<"next", <<>>>>
           doze == <<"doze", <<>>>>
           leave == <<"leave", t>>
           launch == <<"launch", t>>
           dispatched == <<"dispatched", list>>
           rejections == <<"rejections", <<>>>>
<1>1. /\ Persist(t) = <<snapshot, put>>
      /\ Persist(t) \o Tick = <<snapshot, put, next>>
      /\ <<first>> \o Persist(t) \o Tick = <<first, snapshot, put, next>>
      /\ Tick \o <<doze>> = <<next, doze>>
      /\ Ending(name, t) = <<first, snapshot, put, leave>>
      /\ Persist(t) \o <<launch, dispatched>> = <<snapshot, put, launch, dispatched>>
  BY Stretches DEF Persist, Ending
<1> HIDE DEF first, snapshot, put, next, doze, leave, launch, dispatched, rejections
<1>2. /\ \A x : Member(x, <<snapshot, put>>) <=> x = snapshot \/ x = put
      /\ \A x : Member(x, <<snapshot, put, next>>) <=> x = snapshot \/ x = put \/ x = next
      /\ \A x : Member(x, <<first, snapshot, put, next>>) <=>
            x = first \/ x = snapshot \/ x = put \/ x = next
      /\ \A x : Member(x, <<next, doze>>) <=> x = next \/ x = doze
      /\ \A x : Member(x, <<first, snapshot, put, leave>>) <=>
            x = first \/ x = snapshot \/ x = put \/ x = leave
      /\ \A x : Member(x, <<rejections, dispatched>>) <=> x = rejections \/ x = dispatched
      /\ \A x : Member(x, <<snapshot, put, launch, dispatched>>) <=>
            x = snapshot \/ x = put \/ x = launch \/ x = dispatched
  BY TupleMembers
<1> QED
  BY <1>1, <1>2 DEF first, snapshot, put, next, doze, leave, launch, dispatched, rejections

LEMMA StretchHeads ==
    ASSUME NEW t, NEW name
    PROVE  /\ Persist(t) # <<>> /\ Persist(t)[1] = <<"snapshot", t>> /\ Head(Persist(t)) = <<"snapshot", t>>
           /\ Head(Persist(t) \o Tick) = <<"snapshot", t>>
           /\ Head(<<<<name, t>>>> \o Persist(t) \o Tick) = <<name, t>>
           /\ Head(Tick \o <<<<"doze", <<>>>>>>) = <<"next", <<>>>>
           /\ Head(Ending(name, t)) = <<name, t>>
           /\ Tail(Ending(name, t)) = <<<<"snapshot", t>>, <<"put", t>>, <<"leave", t>>>>
<1> DEFINE first == <<name, t>>
           snapshot == <<"snapshot", t>>
           put == <<"put", t>>
           next == <<"next", <<>>>>
           doze == <<"doze", <<>>>>
           leave == <<"leave", t>>
<1>1. /\ Persist(t) = <<snapshot, put>>
      /\ Persist(t) \o Tick = <<snapshot, put, next>>
      /\ <<first>> \o Persist(t) \o Tick = <<first, snapshot, put, next>>
      /\ Tick \o <<doze>> = <<next, doze>>
      /\ Ending(name, t) = <<first, snapshot, put, leave>>
  BY Stretches DEF Persist, Ending
<1> HIDE DEF first, snapshot, put, next, doze, leave
<1>2. /\ <<snapshot, put>> # <<>> /\ <<snapshot, put>>[1] = snapshot
      /\ Head(<<snapshot, put>>) = snapshot /\ Head(<<snapshot, put, next>>) = snapshot
      /\ Head(<<first, snapshot, put, next>>) = first /\ Head(<<next, doze>>) = next
      /\ Head(<<first, snapshot, put, leave>>) = first
      /\ Tail(<<first, snapshot, put, leave>>) = <<snapshot, put, leave>>
  OBVIOUS
<1> QED
  BY <1>1, <1>2 DEF first, snapshot, put, next, doze, leave

LEMMA StretchFacts ==
    ASSUME NEW t \in Task, NEW list \in Seq(Task), NEW field \in Field
    PROVE  /\ Persist(t) \in Seq(Statement)
           /\ Persist(t) \o Tick \in Seq(Statement)
           /\ <<<<field, t>>>> \o Persist(t) \o Tick \in Seq(Statement)
           /\ Ending("completed", t) \in Seq(Statement) /\ Ending("failed", t) \in Seq(Statement)
           /\ <<<<"next", list>>>> \in Seq(Statement)
           /\ <<<<"rejections", <<>>>>, <<"dispatched", list>>>> \in Seq(Statement)
           /\ Persist(t) \o <<<<"launch", t>>, <<"dispatched", list>>>> \in Seq(Statement)
<1>1. /\ <<"snapshot", t>> \in Statement /\ <<"put", t>> \in Statement /\ <<field, t>> \in Statement
      /\ <<"launch", t>> \in Statement /\ <<"leave", t>> \in Statement
      /\ <<"completed", t>> \in Statement /\ <<"failed", t>> \in Statement
      /\ <<"next", list>> \in Statement /\ <<"dispatched", list>> \in Statement
      /\ <<"rejections", <<>>>> \in Statement
  BY StatementFacts
<1>2. <<"next", <<>>>> \in Statement
  <2>1. <<>> \in Seq(Task)
    OBVIOUS
  <2> QED
    BY <2>1, StatementFacts
<1>3. /\ Persist(t) = <<<<"snapshot", t>>, <<"put", t>>>>
      /\ Persist(t) \o Tick = <<<<"snapshot", t>>, <<"put", t>>, <<"next", <<>>>>>>
      /\ <<<<field, t>>>> \o Persist(t) \o Tick =
            <<<<field, t>>, <<"snapshot", t>>, <<"put", t>>, <<"next", <<>>>>>>
      /\ Persist(t) \o <<<<"launch", t>>, <<"dispatched", list>>>> =
            <<<<"snapshot", t>>, <<"put", t>>, <<"launch", t>>, <<"dispatched", list>>>>
  BY Stretches DEF Persist
<1>4. /\ \A a \in Statement : <<a>> \in Seq(Statement)
      /\ \A a, b \in Statement : <<a, b>> \in Seq(Statement)
      /\ \A a, b, d \in Statement : <<a, b, d>> \in Seq(Statement)
      /\ \A a, b, d, e \in Statement : <<a, b, d, e>> \in Seq(Statement)
  BY TupleSeq
<1>5. Persist(t) \in Seq(Statement) /\ Persist(t) \o Tick \in Seq(Statement)
      /\ <<<<field, t>>>> \o Persist(t) \o Tick \in Seq(Statement)
  <2>1. <<<<"snapshot", t>>, <<"put", t>>>> \in Seq(Statement)
    BY <1>1, <1>4
  <2>2. <<<<"snapshot", t>>, <<"put", t>>, <<"next", <<>>>>>> \in Seq(Statement)
    BY <1>1, <1>2, <1>4
  <2>3. <<<<field, t>>, <<"snapshot", t>>, <<"put", t>>, <<"next", <<>>>>>> \in Seq(Statement)
    BY <1>1, <1>2, <1>4
  <2> QED
    BY <1>3, <2>1, <2>2, <2>3
<1>6. Ending("completed", t) \in Seq(Statement) /\ Ending("failed", t) \in Seq(Statement)
  BY <1>1, <1>4 DEF Ending
<1>7. /\ <<<<"next", list>>>> \in Seq(Statement)
      /\ <<<<"rejections", <<>>>>, <<"dispatched", list>>>> \in Seq(Statement)
      /\ Persist(t) \o <<<<"launch", t>>, <<"dispatched", list>>>> \in Seq(Statement)
  BY <1>1, <1>3, <1>4
<1> QED
  BY <1>5, <1>6, <1>7

LEMMA StretchPaired ==
    ASSUME NEW t \in Task, NEW list, NEW field \in Field
    PROVE  /\ Paired(<<>>)
           /\ Paired(Persist(t))
           /\ Paired(Persist(t) \o Tick)
           /\ Paired(<<<<field, t>>>> \o Persist(t) \o Tick)
           /\ Paired(<<<<"next", <<>>>>, <<"doze", <<>>>>>>)
           /\ Paired(Ending("completed", t)) /\ Paired(Ending("failed", t))
           /\ Paired(<<<<"next", list>>>>)
           /\ Paired(<<<<"leave", t>>>>)
           /\ Paired(<<<<"rejections", <<>>>>, <<"dispatched", list>>>>)
           /\ Paired(Persist(t) \o <<<<"launch", t>>, <<"dispatched", list>>>>)
<1>1. Paired(<<>>) /\ Paired(Persist(t)) /\ Paired(<<<<"next", list>>>>) /\ Paired(<<<<"leave", t>>>>)
  BY DEF Persist, Paired, Field
<1>2. Paired(<<<<"snapshot", t>>, <<"put", t>>, <<"next", <<>>>>>>)
  BY DEF Paired, Field
<1>3. Paired(<<<<field, t>>, <<"snapshot", t>>, <<"put", t>>, <<"next", <<>>>>>>)
  BY DEF Paired, Field
<1>4. Paired(Ending("completed", t)) /\ Paired(Ending("failed", t))
  BY DEF Paired, Ending, Field
<1>5. Paired(<<<<"next", <<>>>>, <<"doze", <<>>>>>>)
      /\ Paired(<<<<"rejections", <<>>>>, <<"dispatched", list>>>>)
  BY DEF Paired, Field
<1>6. Paired(<<<<"snapshot", t>>, <<"put", t>>, <<"launch", t>>, <<"dispatched", list>>>>)
  BY DEF Paired, Field
<1> QED
  BY <1>1, <1>2, <1>3, <1>4, <1>5, <1>6, Stretches

\* Taking the next statement.
LEMMA Popped ==
    ASSUME TypeOK, Shapes, NEW h \in Thread, agenda[h] # <<>>
    PROVE  /\ Head(agenda[h]) \in Statement /\ Rest(h) \in Seq(Statement) /\ Paired(Rest(h))
           /\ \A x : Member(x, agenda[h]) <=> x = Head(agenda[h]) \/ Member(x, Rest(h))
           /\ Head(agenda[h])[1] # "snapshot" =>
                Rest(h) = <<>> \/ (Rest(h)[1][1] # "put" /\ Head(Rest(h))[1] # "put")
           /\ Head(agenda[h])[1] \in Field =>
                Rest(h) # <<>> /\ Head(Rest(h)) = <<"snapshot", Head(agenda[h])[2]>>
           /\ Head(agenda[h])[1] = "snapshot" =>
                Rest(h) # <<>> /\ Head(Rest(h)) = <<"put", Head(agenda[h])[2]>>
           /\ Head(agenda[h])[1] = "leave" => Rest(h) = <<>>
<1>1. agenda[h] \in Seq(Statement) /\ Paired(agenda[h])
  BY DEF TypeOK, Shapes
<1>2. Rest(h) = Tail(agenda[h])
  BY DEF Rest
<1>3. Rest(h) \in Seq(Statement) /\ (Rest(h) # <<>> => Head(Rest(h)) = Rest(h)[1])
  BY <1>1, <1>2, TailMembers
<1> QED
  BY <1>1, <1>2, <1>3, TailMembers, TailPaired

\* Putting a stretch before others.
LEMMA Pushed ==
    ASSUME NEW p \in Seq(Statement), NEW q \in Seq(Statement), Paired(p), Paired(q), p # <<>>,
           \A x : Member(x, p) => x[1] # "leave",
           q = <<>> \/ q[1][1] # "put"
    PROVE  /\ p \o q \in Seq(Statement) /\ Paired(p \o q)
           /\ \A x : Member(x, p \o q) <=> Member(x, p) \/ Member(x, q)
           /\ p \o q # <<>> /\ Head(p \o q) = p[1]
<1>1. p \o q \in Seq(Statement)
  BY ConcatProperties
<1>2. \A x : Member(x, p \o q) <=> Member(x, p) \/ Member(x, q)
  BY ConcatMembers
<1>3. Paired(p \o q)
  <2>1. \A i \in 1 .. Len(p) : p[i][1] # "leave"
    BY DEF Member
  <2> QED
    BY <2>1, ConcatPaired
<1>4. Len(p) \in Nat \ {0} /\ Len(q) \in Nat
  BY EmptySeq
<1>5. 1 \in 1 .. Len(p) + Len(q) /\ 1 <= Len(p) /\ Len(p \o q) = Len(p) + Len(q)
  BY <1>4, ConcatProperties
<1>6. (p \o q)[1] = p[1]
  BY <1>5, ConcatProperties
<1>7. p \o q # <<>>
  <2>1. Len(<<>>) = 0
    OBVIOUS
  <2> QED
    BY <1>4, <1>5, <2>1
<1>8. Head(p \o q) = (p \o q)[1]
  BY <1>1, <1>7, HeadTailProperties, TailMembers
<1> QED
  BY <1>1, <1>2, <1>3, <1>6, <1>7, <1>8

LEMMA Continued ==
    ASSUME TypeOK, NEW h \in Thread, NEW b \in Seq(Statement), Continue(h, b)
    PROVE  /\ agenda' \in [Thread -> Seq(Statement)] /\ agenda'[h] = b
           /\ \A g \in Thread \ {h} : agenda'[g] = agenda[g]
BY DEF TypeOK, Continue

\* Nothing ends in the middle of another stretch.
LEMMA NoOutcome ==
    ASSUME TypeOK, Shapes, Idle(LOOP) \/ Head(agenda[LOOP])[1] \notin Outcome
    PROVE  \A outcome \in Outcome, t \in Task : ~ Member(<<outcome, t>>, agenda[LOOP])
<1>1. ASSUME NEW outcome \in Outcome, NEW t \in Task, Member(<<outcome, t>>, agenda[LOOP])
      PROVE  FALSE
  <2>1. agenda[LOOP] = Ending(outcome, t)
    BY <1>1 DEF Shapes
  <2>2. ~Idle(LOOP)
    BY <1>1, TupleMembers DEF Idle
  <2>3. Head(agenda[LOOP]) = <<outcome, t>>
    BY <2>1 DEF Ending
  <2> QED
    BY <2>2, <2>3
<1> QED
  BY <1>1

\* A step of the loop that neither ends an execution nor stops the gateway.
LEMMA LoopShapes ==
    ASSUME TypeOK, Shapes, NEW b \in Seq(Statement), Paired(b), Continue(LOOP, b),
           \A t \in Task : sched[t] = "cancelled" => sched'[t] = "cancelled",
           \A outcome \in Outcome, t \in Task : Member(<<outcome, t>>, b) => b = Ending(outcome, t),
           phase' = phase, awaited' = awaited, phase # "closed",
           phase # "open" =>
              /\ \A x \in Statement : Member(x, b) => x[1] \in Outcome \cup {"snapshot", "put", "leave"}
              /\ running' \subseteq running
    PROVE  Shapes'
<1>1. /\ agenda'[LOOP] = b /\ \A h \in Worker : agenda'[h] = agenda[h]
      /\ Worker \subseteq Thread /\ LOOP \in Thread /\ Thread = {LOOP} \cup Worker
  BY Continued, GatewayAssumption DEF Thread
<1>2. \A h \in Thread : Paired(agenda[h])'
  BY <1>1 DEF Shapes
<1>3. \A h \in Worker, x \in Statement :
        Member(x, agenda'[h]) => x[1] \in {"snapshot", "put"} /\ sched'[x[2]] = "cancelled"
  BY <1>1, StatementFacts DEF Shapes
<1>4. \A h \in Worker : Idle(h) => Idle(h)'
  BY <1>1 DEF Idle
<1> QED
  BY <1>1, <1>2, <1>3, <1>4 DEF Shapes


\* A statement of the loop, not the end of an execution, is done and others
\* may be put in its place.
LEMMA LoopGoesOn ==
    ASSUME TypeOK, Shapes, agenda[LOOP] # <<>>, Head(agenda[LOOP])[1] \notin Outcome,
           NEW b \in Seq(Statement), Paired(b), Continue(LOOP, b),
           \A t \in Task : sched[t] = "cancelled" => sched'[t] = "cancelled",
           phase' = phase, awaited' = awaited,
           \A x \in Statement : Member(x, b) =>
              \/ Member(x, agenda[LOOP])
              \/ phase = "open" /\ x[1] \notin Outcome,
           phase = "open" \/ running' \subseteq running
    PROVE  Shapes'
<1>1. phase # "closed"
  BY DEF Shapes, Idle
<1>2. \A outcome \in Outcome, t \in Task : ~ Member(<<outcome, t>>, agenda[LOOP])
  BY NoOutcome
<1>3. \A outcome \in Outcome, t \in Task : ~ Member(<<outcome, t>>, b)
  BY <1>2, StatementFacts DEF Outcome
<1>4. phase # "open" =>
        \A x \in Statement : Member(x, b) => x[1] \in Outcome \cup {"snapshot", "put", "leave"}
  BY DEF Shapes
<1> QED
  BY <1>1, <1>3, <1>4, LoopShapes

\* What only a gateway that is open has to do.
LEMMA OnlyOpen ==
    ASSUME TypeOK, Shapes, agenda[LOOP] # <<>>,
           Head(agenda[LOOP])[1] \notin Outcome \cup {"snapshot", "put", "leave"}
    PROVE  phase = "open"
<1>1. Head(agenda[LOOP]) \in Statement /\ Member(Head(agenda[LOOP]), agenda[LOOP])
  BY Popped DEF Thread
<1> QED
  BY <1>1 DEF Shapes

-----------------------------------------------------------------------------
(* What a step keeps *)

\* A list nobody is on dispatches nobody.
LEMMA SameDispatching ==
    ASSUME NEW t \in Task,
           \A x \in Statement : x[1] \in {"next", "dispatched"} /\ x[2] # <<>> =>
              (Member(x, agenda'[LOOP]) <=> Member(x, agenda[LOOP]))
    PROVE  Dispatching(t)' <=> Dispatching(t)
<1>1. \A list \in Seq(Task) : Member(t, list) => list # <<>>
  BY TupleMembers
<1>2. \A name \in {"next", "dispatched"}, list \in Seq(Task) :
        /\ <<name, list>> \in Statement
        /\ <<name, list>>[1] = name /\ <<name, list>>[2] = list
  BY StatementFacts
<1>3. \A name \in {"next", "dispatched"}, list \in Seq(Task) : Member(t, list) =>
        (Member(<<name, list>>, agenda'[LOOP]) <=> Member(<<name, list>>, agenda[LOOP]))
  BY <1>1, <1>2
<1> QED
  BY <1>3 DEF Dispatching

\* A step that starts and ends no execution.
LEMMA QuietSlots ==
    ASSUME Slots, UNCHANGED <<held, running, failures>>,
           \A t \in Task : \/ sched'[t] = sched[t]
                           \/ /\ sched[t] \notin {"in-flight", "completed", "failed"}
                              /\ sched'[t] # "in-flight",
           \A t \in Task : Dispatching(t)' <=> Dispatching(t),
           \A x \in Statement : x[1] \in {"launch", "leave", "completed", "failed"} =>
              (Member(x, agenda'[LOOP]) <=> Member(x, agenda[LOOP]))
    PROVE  Slots'
<1>1. S!Held(held') <= Capacity
  BY DEF Slots
<1>2. ASSUME NEW t \in Task PROVE Paid(t)'
  <2>1. Dispatching(t)' <=> Dispatching(t)
    OBVIOUS
  <2>2. \A name \in {"launch", "leave", "completed", "failed"} :
          Member(<<name, t>>, agenda'[LOOP]) <=> Member(<<name, t>>, agenda[LOOP])
    BY StatementFacts
  <2>3. CASE sched'[t] = sched[t]
    BY <2>1, <2>2, <2>3 DEF Slots, Paid, Busy, Outcome
  <2>4. CASE sched[t] \notin {"in-flight", "completed", "failed"} /\ sched'[t] # "in-flight"
    BY <2>1, <2>2, <2>4 DEF Slots, Paid, Busy, Outcome
  <2> QED
    BY <2>3, <2>4
<1> QED
  BY <1>1, <1>2 DEF Slots

\* Workers write rows of cancelled tasks, whatever the loop does.
LEMMA WorkerVouched ==
    ASSUME TypeOK, Shapes, NEW h \in Worker, Vouched(h), agenda'[h] = agenda[h], seen'[h] = seen[h],
           seenClass'[h] = seenClass[h],
           \A t \in Task : sched[t] = "cancelled" => sched'[t] = "cancelled",
           \A t \in Task : sched[t] = "cancelled" => class'[t] = class[t]
    PROVE  Vouched(h)'
<1> SUFFICES ASSUME At(h, "put")' PROVE
        /\ \/ seen'[h] = Reported(Argument(h))'
           \/ sched'[Argument(h)'] = "cancelled" /\ seen'[h] = "queued"
        /\ seenClass'[h] = class'[Argument(h)']
  BY DEF Vouched
<1>1. h \in Thread
  BY DEF Thread
<1>2. At(h, "put") /\ Argument(h)' = Argument(h)
  BY DEF At, Argument
<1>3. Head(agenda[h]) \in Statement /\ Member(Head(agenda[h]), agenda[h]) /\ Head(agenda[h])[1] = "put"
  BY <1>1, <1>2, Popped DEF At
<1>4. Argument(h) \in Task /\ sched[Argument(h)] = "cancelled"
  BY <1>3, StatementFacts DEF Shapes, Argument
<1>5. Reported(Argument(h)) = "cancelled" /\ Reported(Argument(h))' = "cancelled"
  BY <1>2, <1>4 DEF Reported
<1> QED
  BY <1>2, <1>4, <1>5 DEF Vouched

LEMMA LoopVouched ==
    ASSUME TypeOK, Shapes, \A h \in Thread : Vouched(h),
           \A h \in Worker :
              agenda'[h] = agenda[h] /\ seen'[h] = seen[h] /\ seenClass'[h] = seenClass[h],
           \A t \in Task : sched[t] = "cancelled" => sched'[t] = "cancelled",
           \A t \in Task : sched[t] = "cancelled" => class'[t] = class[t],
           ~ At(LOOP, "put")'
    PROVE  \A h \in Thread : Vouched(h)'
<1>1. \A h \in Worker : Vouched(h)'
  BY WorkerVouched DEF Thread
<1>2. Vouched(LOOP)'
  BY DEF Vouched
<1> QED
  BY <1>1, <1>2 DEF Thread

\* A row that will be written, or a task that will be told of, stays so.
LEMMA KeptCatchesUp ==
    ASSUME NEW t \in Task, CatchesUp(t),
           sched'[t] = sched[t], record'[t] = record[t], stored'[t] = stored[t],
           storedClass'[t] = storedClass[t], class'[t] = class[t] \/ Rises(t),
           Writing(t) => Writing(t)', Dispatching(t) => Dispatching(t)',
           sched[t] = "rejected" /\ record[t] # "rejected" => (Noticing => Noticing'),
           \A h \in Thread : Member(<<"put", t>>, agenda[h]) => Member(<<"put", t>>, agenda'[h])
    PROVE  CatchesUp(t)'
<1>1. Reported(t)' = Reported(t)
  BY DEF Reported
<1>2. RowClass(t) => RowClass(t)'
  <2>1. \A c \in Rank : c \in Nat
    BY GatewayAssumption DEF Rank
  <2> QED
    BY <2>1 DEF RowClass, Rises
<1> QED
  BY <1>1, <1>2 DEF CatchesUp

\* It does when the loop has passed over something else.
LEMMA StillCatchesUp ==
    ASSUME NEW t \in Task, CatchesUp(t), ~ At(LOOP, "put"),
           sched'[t] = sched[t], record'[t] = record[t], stored'[t] = stored[t],
           storedClass'[t] = storedClass[t], class'[t] = class[t] \/ Rises(t),
           \A x \in Statement : x[1] \in {"snapshot", "put", "next", "dispatched", "rejections"} =>
              (Member(x, agenda[LOOP]) => Member(x, agenda'[LOOP])),
           \A h \in Worker : agenda'[h] = agenda[h]
    PROVE  CatchesUp(t)'
<1>1. \A name \in {"next", "dispatched"}, list \in Seq(Task) :
        Member(<<name, list>>, agenda[LOOP]) => Member(<<name, list>>, agenda'[LOOP])
  BY StatementFacts
<1>2. /\ Member(<<"snapshot", t>>, agenda[LOOP]) => Member(<<"snapshot", t>>, agenda'[LOOP])
      /\ Member(<<"rejections", <<>>>>, agenda[LOOP]) => Member(<<"rejections", <<>>>>, agenda'[LOOP])
      /\ \A h \in Thread : Member(<<"put", t>>, agenda[h]) => Member(<<"put", t>>, agenda'[h])
  BY StatementFacts DEF Thread
<1>3. Dispatching(t) => Dispatching(t)'
  BY <1>1 DEF Dispatching
<1>4. Noticing => Noticing'
  BY <1>1, <1>2 DEF Noticing
<1>5. Writing(t) => Writing(t)'
  BY <1>2 DEF Writing
<1> QED
  BY <1>2, <1>3, <1>4, <1>5, KeptCatchesUp


-----------------------------------------------------------------------------
(* The steps that begin a stretch *)

\* The loop at rest begins one without starting or ending anything.
LEMMA IdleBegins ==
    ASSUME GInv, Idle(LOOP), phase = "open", NEW b \in Seq(Statement), Paired(b), Continue(LOOP, b),
           UNCHANGED <<held, stored, running, seen, awaited, phase, failures, storedClass, seenClass>>,
           \A t \in Task : \/ /\ sched'[t] = sched[t] /\ record'[t] = record[t]
                              /\ class'[t] = class[t]
                           \/ /\ sched[t] = "new" /\ sched'[t] \in {"queued", "rejected"}
                              /\ record'[t] = sched'[t] /\ Member(<<"snapshot", t>>, b),
           \A x \in Statement : Member(x, b) =>
              x[1] \in Field \cup {"snapshot", "put", "doze"} \/ x = <<"next", <<>>>>,
           Head(b)[1] # "put"
    PROVE  Shapes' /\ Slots' /\ Rows'
<1>1. agenda[LOOP] = <<>> /\ LOOP \in Thread
  BY DEF Idle, Thread
<1>2. agenda'[LOOP] = b /\ \A h \in Worker : agenda'[h] = agenda[h]
  BY <1>1, Continued, GatewayAssumption DEF GInv, Thread
<1>3. \A x : ~ Member(x, agenda[LOOP])
  BY <1>1, TupleMembers
<1>4. \A t \in Task : sched[t] = "cancelled" => sched'[t] = "cancelled"
  OBVIOUS
<1>5. Shapes'
  <2>1. \A outcome \in Outcome, t \in Task : ~ Member(<<outcome, t>>, b)
    BY StatementFacts DEF Outcome, Field
  <2> QED
    BY <1>4, <2>1, LoopShapes DEF GInv
<1>6. Slots'
  <2>1. \A t \in Task : \/ sched'[t] = sched[t]
                        \/ /\ sched[t] \notin {"in-flight", "completed", "failed"}
                           /\ sched'[t] # "in-flight"
    OBVIOUS
  <2>2. \A x \in Statement :
          \/ x[1] \in {"launch", "leave", "completed", "failed"}
          \/ x[1] \in {"next", "dispatched"} /\ x[2] # <<>>
          => ~ Member(x, b)
    BY DEF Field
  <2>3. \A t \in Task : Dispatching(t)' <=> Dispatching(t)
    BY <1>2, <1>3, <2>2, SameDispatching
  <2> QED
    BY <1>2, <1>3, <2>1, <2>2, <2>3, QuietSlots DEF GInv
<1>7. \A h \in Thread : Vouched(h)'
  <2>1. ~ At(LOOP, "put")'
    BY <1>2 DEF At
  <2> QED
    BY <1>2, <1>4, <2>1, LoopVouched DEF GInv, Rows
<1>8. \A t \in Task : Told(t)'
  <2>1. ASSUME NEW t \in Task PROVE Told(t)'
    <3>1. CASE sched'[t] = sched[t] /\ record'[t] = record[t] /\ class'[t] = class[t]
      BY <3>1 DEF GInv, Rows, Told
    <3>2. CASE sched[t] = "new" /\ sched'[t] \in {"queued", "rejected"} /\ record'[t] = sched'[t]
      BY <3>2 DEF GInv, Rows, Told, Final
    <3> QED
      BY <3>1, <3>2
  <2> QED
    BY <2>1
<1>9. ASSUME failures' = 0, NEW t \in Task PROVE CatchesUp(t)'
  <2>1. CASE sched'[t] = sched[t] /\ record'[t] = record[t] /\ class'[t] = class[t]
    <3>1. ~ At(LOOP, "put")
      BY <1>1 DEF At
    <3> QED
      BY <1>2, <1>3, <1>9, <2>1, <3>1, StillCatchesUp DEF GInv, Rows
  <2>2. CASE sched'[t] \in {"queued", "rejected"} /\ Member(<<"snapshot", t>>, b)
    BY <1>2, <2>2 DEF CatchesUp, Writing
  <2> QED
    BY <2>1, <2>2
<1> QED
  BY <1>5, <1>6, <1>7, <1>8, <1>9 DEF Rows

LEMMA ChangeGInv ==
    ASSUME GInv, NEW t \in Task, NEW field \in Field, Change(t, field)
    PROVE  GInv'
<1> DEFINE b == <<<<field, t>>>> \o Persist(t) \o Tick
<1>1. /\ Idle(LOOP) /\ phase = "open" /\ Continue(LOOP, b)
      /\ UNCHANGED <<sched, held, revised, record, stored, running, seen, alive,
                     awaited, phase, failures, class, storedClass, seenClass>>
  BY DEF Change, ranks
<1>2. b \in Seq(Statement) /\ Paired(b)
  BY StretchFacts, StretchPaired, TupleSeq
<1>3. Head(b) = <<field, t>>
  BY StretchHeads
<1>4. Head(b)[1] # "put"
  BY <1>3 DEF Field
<1>5. \A x : Member(x, b) =>
        x = <<field, t>> \/ x = <<"snapshot", t>> \/ x = <<"put", t>> \/ x = <<"next", <<>>>>
  BY StretchMembers
<1> HIDE DEF b
<1>6. \A x : Member(x, b) => x[1] \in Field \cup {"snapshot", "put", "doze"} \/ x = <<"next", <<>>>>
  BY <1>5
<1>7. LOOP \in Thread
  BY DEF Thread
<1>8. TypeOK'
  BY <1>1, <1>2, <1>7, Continued DEF GInv, TypeOK
<1> QED
  BY <1>1, <1>2, <1>4, <1>6, <1>8, IdleBegins DEF GInv

LEMMA WakeGInv == GInv /\ Wake => GInv'
<1> SUFFICES ASSUME GInv, Wake PROVE GInv'
  OBVIOUS
<1> DEFINE b == Tick \o <<<<"doze", <<>>>>>>
<1>1. /\ Idle(LOOP) /\ phase = "open" /\ Continue(LOOP, b)
      /\ UNCHANGED <<sched, held, revised, record, stored, running, seen, alive,
                     awaited, phase, failures, class, storedClass, seenClass>>
  BY DEF Wake, ranks
<1>2. b = <<<<"next", <<>>>>, <<"doze", <<>>>>>>
  BY Stretches
<1>3. b \in Seq(Statement) /\ Paired(b)
  <2>1. <<"next", <<>>>> \in Statement /\ <<"doze", <<>>>> \in Statement
    BY StatementFacts, TupleSeq
  <2>2. Paired(<<<<"next", <<>>>>, <<"doze", <<>>>>>>)
    BY DEF Paired, Field
  <2> QED
    BY <1>2, <2>1, <2>2, TupleSeq
<1>4. Head(b) = <<"next", <<>>>>
  BY StretchHeads
<1>5. Head(b)[1] # "put"
  BY <1>4
<1>6. \A x : Member(x, b) => x = <<"doze", <<>>>> \/ x = <<"next", <<>>>>
  BY StretchMembers
<1> HIDE DEF b
<1>7. \A x : Member(x, b) => x[1] \in Field \cup {"snapshot", "put", "doze"} \/ x = <<"next", <<>>>>
  BY <1>6
<1>8. LOOP \in Thread
  BY DEF Thread
<1>9. TypeOK'
  BY <1>1, <1>3, <1>8, Continued DEF GInv, TypeOK
<1> QED
  BY <1>1, <1>3, <1>5, <1>7, <1>9, IdleBegins DEF GInv

LEMMA SubmitGInv ==
    ASSUME GInv, NEW t \in Task, Submit(t)
    PROVE  GInv'
<1> DEFINE b == Persist(t) \o Tick
<1>1. /\ Idle(LOOP) /\ phase = "open" /\ Continue(LOOP, b) /\ S!Arrive(t)
      /\ record' = [record EXCEPT ![t] = sched'[t]]
      /\ UNCHANGED <<revised, stored, running, seen, alive, awaited, phase, failures,
                     storedClass, seenClass>>
  BY DEF Submit
<1>2. sched[t] = "new" /\ held' = held
  BY <1>1 DEF S!Arrive
<1>3. PICK next \in {"queued", "rejected"} : sched' = [sched EXCEPT ![t] = next]
  BY <1>1 DEF S!Arrive
<1>4. /\ sched' \in [Task -> S!Status] /\ record' \in [Task -> TaskStatus]
      /\ sched'[t] = next /\ record'[t] = next
      /\ \A u \in Task \ {t} : sched'[u] = sched[u] /\ record'[u] = record[u]
  BY <1>1, <1>3 DEF GInv, TypeOK, S!Status, TaskStatus
<1>13. class' \in [Task -> Rank] /\ \A u \in Task \ {t} : class'[u] = class[u]
  BY DEF Submit, GInv, TypeOK
<1>5. b \in Seq(Statement) /\ Paired(b)
  BY StretchFacts, StretchPaired, TupleSeq DEF Field
<1>6. Head(b) = <<"snapshot", t>>
  BY StretchHeads
<1>7. \A x : Member(x, b) <=> x = <<"snapshot", t>> \/ x = <<"put", t>> \/ x = <<"next", <<>>>>
  BY StretchMembers
<1> HIDE DEF b
<1>8. Head(b)[1] # "put"
  BY <1>6
<1>9. /\ \A x : Member(x, b) => x[1] \in Field \cup {"snapshot", "put", "doze"} \/ x = <<"next", <<>>>>
      /\ Member(<<"snapshot", t>>, b)
  BY <1>7
<1>10. LOOP \in Thread
  BY DEF Thread
<1>11. TypeOK'
  BY <1>1, <1>2, <1>4, <1>5, <1>10, <1>13, Continued DEF GInv, TypeOK
<1>12. \A u \in Task :
        \/ sched'[u] = sched[u] /\ record'[u] = record[u] /\ class'[u] = class[u]
        \/ /\ sched[u] = "new" /\ sched'[u] \in {"queued", "rejected"}
           /\ record'[u] = sched'[u] /\ Member(<<"snapshot", u>>, b)
  BY <1>2, <1>4, <1>9, <1>13
<1> QED
  BY <1>1, <1>2, <1>5, <1>8, <1>9, <1>11, <1>12, IdleBegins DEF GInv

-----------------------------------------------------------------------------
(* The statements of the loop *)

\* A new contract, or sleep: only the statement itself goes, and the classes
\* that do not merely rise are written next.
LEMMA SkipGInv ==
    ASSUME GInv, agenda[LOOP] # <<>>, Head(agenda[LOOP])[1] \in Field \cup {"doze"},
           Continue(LOOP, Rest(LOOP)), revised' \subseteq Task, class' \in [Task -> Rank],
           \A t \in Task : \/ class'[t] = class[t] \/ Rises(t)
                           \/ /\ sched[t] \in {"queued", "in-flight"}
                              /\ Member(<<"snapshot", t>>, Rest(LOOP)),
           UNCHANGED <<sched, held, record, stored, running, seen, alive, awaited, phase, failures,
                       storedClass, seenClass>>
    PROVE  GInv'
<1>1. LOOP \in Thread /\ Worker \subseteq Thread
  BY DEF Thread
<1>2. /\ Rest(LOOP) \in Seq(Statement) /\ Paired(Rest(LOOP))
      /\ \A x : Member(x, agenda[LOOP]) <=> x = Head(agenda[LOOP]) \/ Member(x, Rest(LOOP))
      /\ Rest(LOOP) = <<>> \/ Head(Rest(LOOP))[1] # "put"
  BY <1>1, Popped DEF GInv, Field
<1>3. agenda' \in [Thread -> Seq(Statement)] /\ agenda'[LOOP] = Rest(LOOP)
      /\ \A h \in Worker : agenda'[h] = agenda[h]
  BY <1>1, <1>2, Continued, GatewayAssumption DEF GInv
<1>4. Head(agenda[LOOP])[1] \in {"interactive", "deadline", "doze"}
  BY DEF Field
<1>5. \A x \in Statement : x[1] \notin {"interactive", "deadline", "doze"} =>
        (Member(x, agenda'[LOOP]) <=> Member(x, agenda[LOOP]))
  BY <1>2, <1>3, <1>4
<1>6. TypeOK'
  BY <1>3 DEF GInv, TypeOK
<1>7. Shapes'
  <2>1. Head(agenda[LOOP])[1] \notin Outcome
    BY <1>4 DEF Outcome
  <2> QED
    BY <1>2, <2>1, LoopGoesOn DEF GInv
<1>8. Slots'
  <2>1. \A t \in Task : Dispatching(t)' <=> Dispatching(t)
    BY <1>5, SameDispatching
  <2> QED
    BY <1>5, <2>1, QuietSlots DEF GInv
<1>12. \A t \in Task : sched[t] = "cancelled" => class'[t] = class[t]
  BY DEF Rises
<1>9. \A h \in Thread : Vouched(h)'
  <2>1. ~ At(LOOP, "put")'
    BY <1>2, <1>3 DEF At
  <2> QED
    BY <1>3, <1>12, <2>1, LoopVouched DEF GInv, Rows
<1>10. \A t \in Task : Told(t)'
  <2>1. \A t \in Task : sched[t] \in Final => class'[t] = class[t]
    BY DEF Rises, Final
  <2> QED
    BY <2>1 DEF GInv, Rows, Told
<1>11. ASSUME failures' = 0, NEW t \in Task PROVE CatchesUp(t)'
  <2>1. ~ At(LOOP, "put")
    BY <1>4 DEF At
  <2>2. CASE class'[t] = class[t] \/ Rises(t)
    BY <1>3, <1>5, <1>11, <2>1, <2>2, StillCatchesUp DEF GInv, Rows
  <2>3. CASE sched[t] \in {"queued", "in-flight"} /\ Member(<<"snapshot", t>>, Rest(LOOP))
    BY <1>3, <2>3 DEF CatchesUp, Writing
  <2> QED
    BY <2>2, <2>3
<1> QED
  BY <1>6, <1>7, <1>8, <1>9, <1>10, <1>11 DEF GInv, Rows

LEMMA ReviseGInv ==
    ASSUME GInv, NEW field \in Field, Revise(field)
    PROVE  GInv'
<1> DEFINE t == Argument(LOOP)
<1>1. LOOP \in Thread
  BY DEF Thread
<1>2. agenda[LOOP] # <<>> /\ Head(agenda[LOOP])[1] = field /\ t = Head(agenda[LOOP])[2]
  BY DEF Revise, At, Argument
<1>3. /\ Continue(LOOP, Rest(LOOP)) /\ revised' = revised \cup {t}
      /\ UNCHANGED <<sched, held, record, stored, running, seen, alive, awaited, phase, failures,
                     storedClass, seenClass>>
  BY DEF Revise
<1>4. \/ /\ sched[t] = "queued"
         /\ \E c \in Rank : \E raised \in Escalated \cup {class} : class' = [raised EXCEPT ![t] = c]
      \/ sched[t] = "in-flight" /\ class' = [class EXCEPT ![t] = 0]
      \/ class' = class
  BY DEF Revise
<1> HIDE DEF t
<1>5. /\ Head(agenda[LOOP]) \in Statement /\ Rest(LOOP) \in Seq(Statement) /\ Rest(LOOP) # <<>>
      /\ Head(Rest(LOOP)) = <<"snapshot", t>>
  BY <1>1, <1>2, Popped DEF GInv
<1>6. t \in Task
  BY <1>2, <1>5, StatementFacts
<1>7. Member(<<"snapshot", t>>, Rest(LOOP))
  BY <1>5, TailMembers
<1>8. 0 \in Rank /\ class \in [Task -> Rank] /\ storedClass \in [Task -> Rank]
  BY GatewayAssumption DEF Rank, GInv, TypeOK
<1>9. \A raised \in Escalated \cup {class} : raised \in [Task -> Rank]
  BY <1>8 DEF Escalated
<1>10. class' \in [Task -> Rank]
  BY <1>4, <1>8, <1>9
<1>11. ASSUME NEW u \in Task, u # t PROVE class'[u] = class[u] \/ Rises(u)
  <2>1. \A raised \in Escalated \cup {class} :
          raised[u] = class[u] \/ (sched[u] = "queued" /\ raised[u] < class[u])
    BY DEF Escalated
  <2>2. class'[u] = class[u] \/ (sched[u] = "queued" /\ class'[u] < class[u])
    BY <1>4, <1>8, <1>9, <1>11, <2>1
  <2> QED
    BY <1>8, <1>10, <2>2 DEF Rises
<1>12. class'[t] = class[t] \/ sched[t] \in {"queued", "in-flight"}
  BY <1>4
<1>13. \A u \in Task : \/ class'[u] = class[u] \/ Rises(u)
                       \/ /\ sched[u] \in {"queued", "in-flight"}
                          /\ Member(<<"snapshot", u>>, Rest(LOOP))
  BY <1>7, <1>11, <1>12
<1>14. revised' \subseteq Task
  BY <1>3, <1>6 DEF GInv, TypeOK
<1> QED
  BY <1>2, <1>3, <1>10, <1>13, <1>14, SkipGInv

LEMMA DozeGInv == GInv /\ Doze => GInv'
<1> SUFFICES ASSUME GInv, Doze PROVE GInv'
  OBVIOUS
<1>1. agenda[LOOP] # <<>> /\ Head(agenda[LOOP])[1] = "doze"
  BY DEF Doze, At
<1>2. revised' \subseteq Task /\ class' = class /\ class \in [Task -> Rank]
  BY DEF Doze, ranks, GInv, TypeOK
<1> QED
  BY <1>1, <1>2, SkipGInv DEF Doze, ranks

\* The task launched holds its slots already.
LEMMA LaunchGInv == GInv /\ Launch => GInv'
<1> SUFFICES ASSUME GInv, Launch PROVE GInv'
  OBVIOUS
<1> DEFINE t == Argument(LOOP)
<1>1. LOOP \in Thread /\ Worker \subseteq Thread
  BY DEF Thread
<1>2. /\ agenda[LOOP] # <<>> /\ Head(agenda[LOOP])[1] = "launch" /\ Continue(LOOP, Rest(LOOP))
      /\ t = Head(agenda[LOOP])[2] /\ running' = running \cup {t}
      /\ UNCHANGED <<sched, held, revised, record, stored, seen, alive, awaited, phase, failures,
                     class, storedClass, seenClass>>
  BY DEF Launch, At, Argument, ranks
<1> HIDE DEF t
<1>3. /\ Rest(LOOP) \in Seq(Statement) /\ Paired(Rest(LOOP)) /\ Head(agenda[LOOP]) \in Statement
      /\ \A x : Member(x, agenda[LOOP]) <=> x = Head(agenda[LOOP]) \/ Member(x, Rest(LOOP))
      /\ Rest(LOOP) = <<>> \/ Head(Rest(LOOP))[1] # "put"
  BY <1>1, <1>2, Popped DEF GInv
<1>4. agenda' \in [Thread -> Seq(Statement)] /\ agenda'[LOOP] = Rest(LOOP)
      /\ \A h \in Worker : agenda'[h] = agenda[h]
  BY <1>1, <1>2, <1>3, Continued, GatewayAssumption DEF GInv
<1>5. t \in Task /\ Head(agenda[LOOP]) = <<"launch", t>>
  BY <1>2, <1>3, StatementFacts
<1>6. \A x \in Statement : x # <<"launch", t>> =>
        (Member(x, agenda'[LOOP]) <=> Member(x, agenda[LOOP]))
  BY <1>3, <1>4, <1>5
<1>7. \A x \in Statement : x[1] # "launch" =>
        (Member(x, agenda'[LOOP]) <=> Member(x, agenda[LOOP]))
  BY <1>3, <1>4, <1>2
<1>8. TypeOK'
  BY <1>2, <1>4, <1>5 DEF GInv, TypeOK
<1>9. Shapes'
  <2>1. Head(agenda[LOOP])[1] \notin Outcome /\ phase = "open"
    BY <1>2, OnlyOpen DEF GInv, Outcome
  <2> QED
    BY <1>2, <1>3, <2>1, LoopGoesOn DEF GInv
<1>10. Slots'
  <2>1. \A u \in Task : Dispatching(u)' <=> Dispatching(u)
    BY <1>7, SameDispatching
  <2>2. Busy(t)
    <3>1. Member(<<"launch", t>>, agenda[LOOP])
      BY <1>3, <1>5
    <3> QED
      BY <1>5, <3>1 DEF GInv, Slots, Paid
  <2>3. ASSUME NEW u \in Task PROVE Paid(u)'
    <3>1. \A name \in {"leave", "completed", "failed"} :
            Member(<<name, u>>, agenda'[LOOP]) <=> Member(<<name, u>>, agenda[LOOP])
      BY <1>7, StatementFacts
    <3>2. Member(<<"launch", u>>, agenda'[LOOP]) => Member(<<"launch", u>>, agenda[LOOP])
      BY <1>3, <1>4
    <3>3. u # t => (Member(<<"launch", u>>, agenda'[LOOP]) <=> Member(<<"launch", u>>, agenda[LOOP]))
      BY <1>6, StatementFacts
    <3>4. Busy(u)' <=> Busy(u)
      BY <1>2 DEF Busy
    <3>5. Paid(u)
      BY DEF GInv, Slots
    <3>6. u # t => (u \in running' <=> u \in running)
      BY <1>2
    <3> QED
      BY <1>2, <2>1, <2>2, <3>1, <3>2, <3>3, <3>4, <3>5, <3>6 DEF Paid, Outcome
  <2> QED
    BY <1>2, <2>3 DEF GInv, Slots
<1>11. \A h \in Thread : Vouched(h)'
  <2>1. ~ At(LOOP, "put")'
    BY <1>3, <1>4 DEF At
  <2> QED
    BY <1>2, <1>4, <2>1, LoopVouched DEF GInv, Rows
<1>12. \A u \in Task : Told(u)'
  BY <1>2 DEF GInv, Rows, Told
<1>13. ASSUME failures' = 0, NEW u \in Task PROVE CatchesUp(u)'
  <2>1. ~ At(LOOP, "put")
    BY <1>2 DEF At
  <2> QED
    BY <1>2, <1>4, <1>7, <1>13, <2>1, StillCatchesUp DEF GInv, Rows
<1> QED
  BY <1>8, <1>9, <1>10, <1>11, <1>12, <1>13 DEF GInv, Rows

\* An execution leaves after its task has ended; nothing else was to do.
LEMMA LeaveGInv == GInv /\ Leave => GInv'
<1> SUFFICES ASSUME GInv, Leave PROVE GInv'
  OBVIOUS
<1> DEFINE t == Argument(LOOP)
           b == IF phase = "open" THEN Tick ELSE <<>>
<1>1. LOOP \in Thread /\ Worker \subseteq Thread
  BY DEF Thread
<1>2. /\ agenda[LOOP] # <<>> /\ Head(agenda[LOOP])[1] = "leave" /\ Continue(LOOP, b \o Rest(LOOP))
      /\ t = Head(agenda[LOOP])[2] /\ running' = running \ {t}
      /\ UNCHANGED <<sched, held, revised, record, stored, seen, alive, awaited, phase, failures,
                     class, storedClass, seenClass>>
  BY DEF Leave, At, Argument, ranks
<1> HIDE DEF t
<1>3. /\ Head(agenda[LOOP]) \in Statement /\ Rest(LOOP) = <<>>
      /\ \A x : Member(x, agenda[LOOP]) <=> x = Head(agenda[LOOP]) \/ Member(x, Rest(LOOP))
  BY <1>1, <1>2, Popped DEF GInv
<1>4. t \in Task /\ \A x : Member(x, agenda[LOOP]) <=> x = <<"leave", t>>
  BY <1>2, <1>3, StatementFacts, TupleMembers
<1>5. <<"next", <<>>>> \in Statement
  BY TupleSeq, StatementFacts
<1>6. /\ b \in Seq(Statement) /\ Paired(b) /\ (phase = "open" \/ b = <<>>)
      /\ \A x : Member(x, b) => x = <<"next", <<>>>>
      /\ b = <<>> \/ Head(b) = <<"next", <<>>>>
  <2>1. Tick \in Seq(Statement) /\ Paired(Tick) /\ Head(Tick) = <<"next", <<>>>>
    <3>1. Paired(Tick)
      BY DEF Tick, Paired, Field
    <3> QED
      BY <1>5, <3>1, TupleSeq DEF Tick
  <2>2. \A x : Member(x, Tick) => x = <<"next", <<>>>>
    BY TupleMembers DEF Tick
  <2>3. <<>> \in Seq(Statement) /\ Paired(<<>>) /\ \A x : ~ Member(x, <<>>)
    BY TupleMembers DEF Paired
  <2> QED
    BY <2>1, <2>2, <2>3
<1> HIDE DEF b
<1>7. Continue(LOOP, b)
  BY <1>2, <1>3, <1>6, ConcatEmptySeq
<1>8. agenda' \in [Thread -> Seq(Statement)] /\ agenda'[LOOP] = b
      /\ \A h \in Worker : agenda'[h] = agenda[h]
  BY <1>1, <1>6, <1>7, Continued, GatewayAssumption DEF GInv
<1>9. \A x \in Statement : x # <<"next", <<>>>> => ~ Member(x, agenda'[LOOP])
  BY <1>6, <1>8
<1>10. \A u \in Task : ~ Dispatching(u) /\ ~ Dispatching(u)'
  <2>1. \A u \in Task, list \in Seq(Task) : Member(u, list) => list # <<>>
    BY TupleMembers
  <2>2. \A name \in {"next", "dispatched"}, list \in Seq(Task) :
          /\ <<name, list>> \in Statement /\ <<name, list>>[1] = name /\ <<name, list>>[2] = list
    BY StatementFacts
  <2>3. <<"leave", t>>[1] = "leave" /\ <<"next", <<>>>>[2] = <<>>
    OBVIOUS
  <2>4. ASSUME NEW name \in {"next", "dispatched"}, NEW list \in Seq(Task)
        PROVE  /\ ~ Member(<<name, list>>, agenda[LOOP])
               /\ Member(<<name, list>>, agenda'[LOOP]) => list = <<>>
    <3>1. <<name, list>> # <<"leave", t>>
      BY <2>2, <2>3
    <3>2. list # <<>> => <<name, list>> # <<"next", <<>>>>
      BY <2>2, <2>3
    <3>3. ~ Member(<<name, list>>, agenda[LOOP])
      BY <1>4, <3>1
    <3>4. <<name, list>> \in Statement
      BY <2>2
    <3> QED
      BY <1>9, <3>2, <3>3, <3>4
  <2> QED
    BY <2>1, <2>4 DEF Dispatching
<1>11. TypeOK'
  BY <1>2, <1>8 DEF GInv, TypeOK
<1>12. Shapes'
  <2>1. Head(agenda[LOOP])[1] \notin Outcome
    BY <1>2 DEF Outcome
  <2>2. \A x \in Statement : Member(x, b) => phase = "open" /\ x[1] \notin Outcome
    BY <1>6, TupleMembers DEF Outcome
  <2>3. running' \subseteq running /\ phase' = phase /\ awaited' = awaited /\ sched' = sched
    BY <1>2
  <2> QED
    BY <1>2, <1>6, <1>7, <2>1, <2>2, <2>3, LoopGoesOn DEF GInv
<1>13. Slots'
  <2>1. ASSUME NEW u \in Task PROVE Paid(u)'
    <3>1. \A name \in {"launch", "leave", "completed", "failed"} : ~ Member(<<name, u>>, agenda'[LOOP])
      BY <1>9, StatementFacts
    <3>2. \A name \in {"launch", "completed", "failed"} : ~ Member(<<name, u>>, agenda[LOOP])
      BY <1>4
    <3>3. Member(<<"leave", u>>, agenda[LOOP]) <=> u = t
      BY <1>4
    <3>4. Paid(u) /\ (Busy(u)' <=> Busy(u))
      BY <1>2 DEF GInv, Slots, Busy
    <3>5. (u \in running' => u \in running /\ u # t) /\ (u \in running /\ u # t => u \in running')
      BY <1>2
    <3>6. u = t => sched[u] # "in-flight"
      BY <3>2, <3>3, <3>4 DEF Paid, Outcome
    <3> QED
      BY <1>2, <1>10, <3>1, <3>2, <3>3, <3>4, <3>5, <3>6 DEF Paid
  <2> QED
    BY <1>2, <2>1 DEF GInv, Slots
<1>14. \A h \in Thread : Vouched(h)'
  <2>1. ~ At(LOOP, "put")'
    BY <1>6, <1>8 DEF At
  <2> QED
    BY <1>2, <1>8, <2>1, LoopVouched DEF GInv, Rows
<1>15. \A u \in Task : Told(u)'
  BY <1>2 DEF GInv, Rows, Told
<1>16. ASSUME failures' = 0, NEW u \in Task PROVE CatchesUp(u)'
  <2>1. ~ At(LOOP, "put")
    BY <1>2 DEF At
  <2>2. \A x \in Statement : x[1] \in {"snapshot", "put", "next", "dispatched", "rejections"} =>
          ~ Member(x, agenda[LOOP])
    BY <1>4
  <2> QED
    BY <1>2, <1>8, <1>16, <2>1, <2>2, StillCatchesUp DEF GInv, Rows
<1> QED
  BY <1>11, <1>12, <1>13, <1>14, <1>15, <1>16 DEF GInv, Rows

\* The records of refused tasks, one after the other.
LEMMA RejectionsGInv == GInv /\ Rejections => GInv'
<1> SUFFICES ASSUME GInv, Rejections PROVE GInv'
  OBVIOUS
<1> DEFINE refused == {t \in Task : sched[t] = "rejected" /\ record[t] \notin {"none", "rejected"}}
<1>1. LOOP \in Thread /\ Worker \subseteq Thread
  BY DEF Thread
<1>2. /\ agenda[LOOP] # <<>> /\ Head(agenda[LOOP])[1] = "rejections"
      /\ UNCHANGED <<sched, held, revised, stored, running, seen, alive, awaited, phase, failures,
                     class, storedClass, seenClass>>
  BY DEF Rejections, At, ranks
<1>3. /\ Rest(LOOP) \in Seq(Statement) /\ Paired(Rest(LOOP)) /\ Head(agenda[LOOP]) \in Statement
      /\ \A x : Member(x, agenda[LOOP]) <=> x = Head(agenda[LOOP]) \/ Member(x, Rest(LOOP))
      /\ Rest(LOOP) = <<>> \/ Head(Rest(LOOP))[1] # "put"
  BY <1>1, <1>2, Popped DEF GInv
<1>4. Head(agenda[LOOP])[1] \notin Outcome /\ phase = "open" /\ ~ At(LOOP, "put")
  BY <1>2, OnlyOpen DEF GInv, Outcome, At
<1>5. CASE refused = {} /\ Continue(LOOP, Rest(LOOP)) /\ record' = record
  <2>1. agenda' \in [Thread -> Seq(Statement)] /\ agenda'[LOOP] = Rest(LOOP)
        /\ \A h \in Worker : agenda'[h] = agenda[h]
    BY <1>1, <1>3, <1>5, Continued, GatewayAssumption DEF GInv
  <2>2. \A x \in Statement : x[1] # "rejections" =>
          (Member(x, agenda'[LOOP]) <=> Member(x, agenda[LOOP]))
    BY <1>2, <1>3, <2>1
  <2>3. TypeOK'
    BY <1>2, <1>5, <2>1 DEF GInv, TypeOK
  <2>4. Shapes'
    BY <1>2, <1>3, <1>4, <1>5, LoopGoesOn DEF GInv
  <2>5. \A t \in Task : Dispatching(t)' <=> Dispatching(t)
    BY <2>2, SameDispatching
  <2>6. Slots'
    BY <1>2, <2>2, <2>5, QuietSlots DEF GInv
  <2>7. \A h \in Thread : Vouched(h)'
    <3>1. ~ At(LOOP, "put")'
      BY <1>3, <2>1 DEF At
    <3> QED
      BY <1>2, <2>1, <3>1, LoopVouched DEF GInv, Rows
  <2>8. \A t \in Task : Told(t)'
    BY <1>2, <1>5 DEF GInv, Rows, Told
  <2>9. ASSUME failures' = 0, NEW t \in Task PROVE CatchesUp(t)'
    <3>1. CatchesUp(t) /\ Told(t)
      BY <1>2, <2>9 DEF GInv, Rows
    <3>2. ~(sched[t] = "rejected" /\ record[t] # "rejected")
      BY <1>5, <3>1 DEF Told
    <3>3. Writing(t) => Writing(t)'
      BY <1>4, <2>2, StatementFacts DEF Writing
    <3>4. \A h \in Thread : Member(<<"put", t>>, agenda[h]) => Member(<<"put", t>>, agenda'[h])
      BY <2>1, <2>2, StatementFacts DEF Thread
    <3> QED
      BY <1>2, <1>5, <2>5, <3>1, <3>2, <3>3, <3>4, KeptCatchesUp
  <2> QED
    BY <2>3, <2>4, <2>6, <2>7, <2>8, <2>9 DEF GInv, Rows
<1>6. ASSUME NEW t \in refused, record' = [record EXCEPT ![t] = "rejected"],
             Continue(LOOP, Persist(t) \o agenda[LOOP])
      PROVE  GInv'
  <2> DEFINE p == Persist(t)
             b == p \o agenda[LOOP]
  <2>1. p \in Seq(Statement) /\ Paired(p) /\ p # <<>> /\ p[1] = <<"snapshot", t>>
        /\ \A x : Member(x, p) <=> x = <<"snapshot", t>> \/ x = <<"put", t>>
    BY StretchFacts, StretchPaired, StretchMembers, StretchHeads, TupleSeq DEF Field
  <2> HIDE DEF p
  <2>2. agenda[LOOP] \in Seq(Statement) /\ Paired(agenda[LOOP]) /\ agenda[LOOP][1][1] # "put"
    BY <1>1, <1>2, TailMembers DEF GInv, TypeOK, Shapes
  <2>3. /\ b \in Seq(Statement) /\ Paired(b) /\ b # <<>> /\ Head(b) = <<"snapshot", t>>
        /\ \A x : Member(x, b) <=> Member(x, p) \/ Member(x, agenda[LOOP])
    <3>1. \A x : Member(x, p) => x[1] # "leave"
      BY <2>1
    <3> QED
      BY <2>1, <2>2, <3>1, Pushed
  <2>4. Continue(LOOP, b)
    BY <1>6 DEF p
  <2> HIDE DEF b
  <2>5. agenda' \in [Thread -> Seq(Statement)] /\ agenda'[LOOP] = b
        /\ \A h \in Worker : agenda'[h] = agenda[h]
    BY <1>1, <2>3, <2>4, Continued, GatewayAssumption DEF GInv
  <2>6. \A x \in Statement : x[1] \notin {"snapshot", "put"} =>
          (Member(x, agenda'[LOOP]) <=> Member(x, agenda[LOOP]))
    BY <2>1, <2>3, <2>5
  <2>7. /\ t \in Task /\ sched[t] = "rejected" /\ record[t] # "none"
        /\ record' \in [Task -> TaskStatus] /\ record'[t] = "rejected"
        /\ \A u \in Task \ {t} : record'[u] = record[u]
    BY <1>6 DEF GInv, TypeOK, TaskStatus
  <2>8. TypeOK'
    BY <1>2, <2>5, <2>7 DEF GInv, TypeOK
  <2>9. Shapes'
    <3>1. \A x \in Statement : Member(x, b) => Member(x, agenda[LOOP]) \/ x[1] \notin Outcome
      BY <2>1, <2>3 DEF Outcome
    <3> QED
      BY <1>2, <1>4, <2>3, <2>4, <3>1, LoopGoesOn DEF GInv
  <2>10. \A u \in Task : Dispatching(u)' <=> Dispatching(u)
    BY <2>6, SameDispatching
  <2>11. Slots'
    BY <1>2, <2>6, <2>10, QuietSlots DEF GInv
  <2>12. \A h \in Thread : Vouched(h)'
    <3>1. ~ At(LOOP, "put")'
      BY <2>3, <2>5 DEF At
    <3> QED
      BY <1>2, <2>5, <3>1, LoopVouched DEF GInv, Rows
  <2>13. \A u \in Task : Told(u)'
    BY <1>2, <2>7 DEF GInv, Rows, Told
  <2>14. ASSUME failures' = 0, NEW u \in Task PROVE CatchesUp(u)'
    <3>1. CASE u = t
      BY <1>2, <2>1, <2>3, <2>5, <2>7, <3>1 DEF CatchesUp, Writing
    <3>2. CASE u # t
      <4>1. \A x \in Statement : Member(x, agenda[LOOP]) => Member(x, agenda'[LOOP])
        BY <2>3, <2>5
      <4> QED
        BY <1>2, <1>4, <2>5, <2>7, <2>14, <3>2, <4>1, StillCatchesUp DEF GInv, Rows
    <3> QED
      BY <3>1, <3>2
  <2> QED
    BY <2>8, <2>9, <2>11, <2>12, <2>13, <2>14 DEF GInv, Rows
<1> QED
  BY <1>5, <1>6 DEF Rejections

-----------------------------------------------------------------------------
(* Writing rows *)

\* A worker's stretch while the gateway is open.
LEMMA WorkerShapes ==
    ASSUME TypeOK, Shapes, NEW h \in Worker, NEW b \in Seq(Statement), Paired(b), Continue(h, b),
           \A t \in Task : sched[t] = "cancelled" => sched'[t] = "cancelled",
           \A x \in Statement :
              Member(x, b) => x[1] \in {"snapshot", "put"} /\ sched'[x[2]] = "cancelled",
           phase' = phase, phase = "open"
    PROVE  Shapes'
<1>1. /\ agenda'[h] = b /\ \A g \in Thread \ {h} : agenda'[g] = agenda[g]
      /\ Worker \subseteq Thread /\ LOOP \in Thread /\ LOOP # h
  BY Continued, GatewayAssumption DEF Thread
<1>2. \A g \in Thread : Paired(agenda[g])'
  BY <1>1 DEF Shapes
<1>3. \A g \in Worker, x \in Statement :
        Member(x, agenda'[g]) => x[1] \in {"snapshot", "put"} /\ sched'[x[2]] = "cancelled"
  BY <1>1, StatementFacts DEF Shapes
<1>4. agenda'[LOOP] = agenda[LOOP]
  BY <1>1
<1> QED
  BY <1>2, <1>3, <1>4 DEF Shapes

\* Any thread that takes a statement, or gives up.
LEMMA ThreadShapes ==
    ASSUME TypeOK, Shapes, NEW h \in Thread, agenda[h] # <<>>, Head(agenda[h])[1] \notin Outcome,
           NEW b \in Seq(Statement), Paired(b), Continue(h, b),
           \A x : Member(x, b) => Member(x, agenda[h]),
           UNCHANGED <<sched, running, phase, awaited>>
    PROVE  Shapes'
<1>1. CASE h = LOOP
  BY <1>1, LoopGoesOn
<1>2. CASE h # LOOP
  <2>1. h \in Worker
    BY <1>2 DEF Thread
  <2>2. phase = "open"
    BY <2>1 DEF Shapes, Idle
  <2>3. \A x \in Statement :
          Member(x, b) => x[1] \in {"snapshot", "put"} /\ sched'[x[2]] = "cancelled"
    BY <2>1 DEF Shapes
  <2> QED
    BY <2>1, <2>2, <2>3, WorkerShapes
<1> QED
  BY <1>1, <1>2

\* What is about to be written is no end that has not come.
LEMMA WhatIsWritten ==
    ASSUME GInv, NEW h \in Thread, At(h, "put")
    PROVE  /\ Argument(h) \in Task /\ Head(agenda[h]) = <<"put", Argument(h)>>
           /\ seen[h] \in Final => sched[Argument(h)] = seen[h]
           /\ sched[Argument(h)] # "cancelled" => seen[h] = Reported(Argument(h))
           /\ sched[Argument(h)] = "cancelled" => seen[h] \in {"queued", "cancelled"}
           /\ seenClass[h] = class[Argument(h)]
<1> DEFINE a == Argument(h)
<1>1. agenda[h] # <<>> /\ Head(agenda[h])[1] = "put" /\ a = Head(agenda[h])[2]
  BY DEF At, Argument
<1>2. a \in Task /\ Head(agenda[h]) = <<"put", a>>
  <2>1. Head(agenda[h]) \in Statement
    BY <1>1, Popped DEF GInv
  <2> QED
    BY <1>1, <2>1, StatementFacts
<1>3. /\ seen[h] = Reported(a) \/ (sched[a] = "cancelled" /\ seen[h] = "queued")
      /\ seenClass[h] = class[a]
  BY DEF GInv, Rows, Vouched
<1>4. record[a] = "none" <=> sched[a] = "new"
  BY <1>2 DEF GInv, Rows, Told
<1>5. sched[a] # "new" => Reported(a) = IF sched[a] = "in-flight" THEN "running" ELSE sched[a]
  BY DEF Reported
<1>6. sched[a] = "new" => Reported(a) = "none"
  BY <1>4 DEF Reported
<1> QED
  BY <1>2, <1>3, <1>5, <1>6 DEF Final

LEMMA ReportedType ==
    ASSUME TypeOK, NEW t \in Task
    PROVE  Reported(t) \in TaskStatus
BY DEF TypeOK, Reported, TaskStatus, S!Status

LEMMA SnapshotGInv ==
    ASSUME GInv, NEW h \in Thread, Snapshot(h)
    PROVE  GInv'
<1> DEFINE a == Argument(h)
<1>1. LOOP \in Thread /\ Worker \subseteq Thread
  BY DEF Thread
<1>2. /\ agenda[h] # <<>> /\ Head(agenda[h])[1] = "snapshot" /\ Continue(h, Rest(h))
      /\ a = Head(agenda[h])[2] /\ seen' = [seen EXCEPT ![h] = Reported(a)]
      /\ seenClass' = [seenClass EXCEPT ![h] = class[a]]
      /\ UNCHANGED <<sched, held, revised, record, stored, running, alive, awaited, phase, failures,
                     class, storedClass>>
  BY DEF Snapshot, At, Argument
<1> HIDE DEF a
<1>3. /\ Rest(h) \in Seq(Statement) /\ Paired(Rest(h)) /\ Head(agenda[h]) \in Statement
      /\ \A x : Member(x, agenda[h]) <=> x = Head(agenda[h]) \/ Member(x, Rest(h))
      /\ Rest(h) # <<>> /\ Head(Rest(h)) = <<"put", Head(agenda[h])[2]>>
  BY <1>1, <1>2, Popped DEF GInv
<1>4. agenda' \in [Thread -> Seq(Statement)] /\ agenda'[h] = Rest(h)
      /\ \A g \in Thread \ {h} : agenda'[g] = agenda[g]
  BY <1>1, <1>2, <1>3, Continued DEF GInv
<1>5. a \in Task /\ Head(agenda[h]) = <<"snapshot", a>> /\ Head(Rest(h)) = <<"put", a>>
  BY <1>2, <1>3, StatementFacts
<1>6. /\ seen' \in [Thread -> TaskStatus] /\ seen'[h] = Reported(a)
      /\ seenClass' \in [Thread -> Rank] /\ seenClass'[h] = class[a]
      /\ \A g \in Thread \ {h} : seen'[g] = seen[g] /\ seenClass'[g] = seenClass[g]
  BY <1>2, <1>5, ReportedType DEF GInv, TypeOK
<1>7. \A g \in Thread : \A x : x # <<"snapshot", a>> => (Member(x, agenda'[g]) <=> Member(x, agenda[g]))
  BY <1>3, <1>4, <1>5
<1>8. \A x \in Statement : x[1] # "snapshot" =>
        (Member(x, agenda'[LOOP]) <=> Member(x, agenda[LOOP]))
  BY <1>1, <1>7
<1>9. TypeOK'
  BY <1>2, <1>4, <1>6 DEF GInv, TypeOK
<1>10. Shapes'
  <2>1. Head(agenda[h])[1] \notin Outcome
    BY <1>2 DEF Outcome
  <2> QED
    BY <1>2, <1>3, <2>1, ThreadShapes DEF GInv
<1>11. Slots'
  <2>1. \A t \in Task : Dispatching(t)' <=> Dispatching(t)
    BY <1>8, SameDispatching
  <2> QED
    BY <1>2, <1>8, <2>1, QuietSlots DEF GInv
<1>12. At(h, "put")' /\ Argument(h)' = a
  BY <1>3, <1>4, <1>5 DEF At, Argument
<1>13. \A g \in Thread : Vouched(g)'
  <2>1. \A t : Reported(t)' = Reported(t)
    BY <1>2 DEF Reported
  <2>2. Vouched(h)'
    BY <1>2, <1>6, <1>12, <2>1 DEF Vouched
  <2>3. ASSUME NEW g \in Thread \ {h} PROVE Vouched(g)'
    <3>1. /\ At(g, "put")' <=> At(g, "put")
          /\ Argument(g)' = Argument(g) /\ seen'[g] = seen[g] /\ seenClass'[g] = seenClass[g]
      BY <1>4, <1>6 DEF At, Argument
    <3>2. Vouched(g)
      BY DEF GInv, Rows
    <3> QED
      BY <1>2, <2>1, <3>1, <3>2 DEF Vouched
  <2> QED
    BY <2>2, <2>3
<1>14. \A t \in Task : Told(t)'
  BY <1>2 DEF GInv, Rows, Told
<1>15. ASSUME failures' = 0, NEW t \in Task PROVE CatchesUp(t)'
  <2>1. CatchesUp(t)
    BY <1>2, <1>15 DEF GInv, Rows
  <2>2. Writing(t) => Writing(t)'
    <3>1. CASE h = LOOP
      <4>1. ~ At(LOOP, "put")
        BY <1>2, <3>1 DEF At
      <4>2. <<"snapshot", t>> = <<"snapshot", a>> => t = a
        OBVIOUS
      <4> QED
        BY <1>1, <1>7, <1>12, <3>1, <4>1, <4>2 DEF Writing
    <3>2. CASE h # LOOP
      <4>1. agenda'[LOOP] = agenda[LOOP]
        BY <1>1, <1>4, <3>2
      <4> QED
        BY <4>1 DEF Writing, At, Argument
    <3> QED
      BY <3>1, <3>2
  <2>3. Dispatching(t) => Dispatching(t)'
    BY <1>8, SameDispatching
  <2>4. Noticing => Noticing'
    <3>1. \A list : <<"next", list>> # <<"snapshot", a>> /\ <<"rejections", <<>>>> # <<"snapshot", a>>
      OBVIOUS
    <3> QED
      BY <1>1, <1>7, <3>1 DEF Noticing
  <2>5. \A g \in Thread : Member(<<"put", t>>, agenda[g]) => Member(<<"put", t>>, agenda'[g])
    <3>1. <<"put", t>> # <<"snapshot", a>>
      OBVIOUS
    <3> QED
      BY <1>7, <3>1
  <2> QED
    BY <1>2, <2>1, <2>2, <2>3, <2>4, <2>5, KeptCatchesUp
<1> QED
  BY <1>9, <1>10, <1>11, <1>13, <1>14, <1>15 DEF GInv, Rows

LEMMA PutGInv ==
    ASSUME GInv, NEW h \in Thread, Put(h)
    PROVE  GInv'
<1> DEFINE a == Argument(h)
<1>1. LOOP \in Thread /\ Worker \subseteq Thread
  BY DEF Thread
<1>2. /\ agenda[h] # <<>> /\ Head(agenda[h])[1] = "put" /\ Continue(h, Rest(h)) /\ At(h, "put")
      /\ stored' = [stored EXCEPT ![a] = seen[h]] /\ seen' = [seen EXCEPT ![h] = "none"]
      /\ storedClass' = [storedClass EXCEPT ![a] = seenClass[h]]
      /\ seenClass' = [seenClass EXCEPT ![h] = 0]
      /\ UNCHANGED <<sched, held, revised, record, running, alive, awaited, phase, failures,
                     class>>
  BY DEF Put, Write, Drop, At
<1>3. /\ Rest(h) \in Seq(Statement) /\ Paired(Rest(h))
      /\ \A x : Member(x, agenda[h]) <=> x = Head(agenda[h]) \/ Member(x, Rest(h))
      /\ Rest(h) = <<>> \/ Head(Rest(h))[1] # "put"
  BY <1>1, <1>2, Popped DEF GInv
<1>4. agenda' \in [Thread -> Seq(Statement)] /\ agenda'[h] = Rest(h)
      /\ \A g \in Thread \ {h} : agenda'[g] = agenda[g]
  BY <1>1, <1>2, <1>3, Continued DEF GInv
<1>5. /\ a \in Task /\ Head(agenda[h]) = <<"put", a>>
      /\ seen[h] \in Final => sched[a] = seen[h]
      /\ sched[a] # "cancelled" => seen[h] = Reported(a)
      /\ sched[a] = "cancelled" => seen[h] \in {"queued", "cancelled"}
      /\ seenClass[h] = class[a]
  BY <1>2, WhatIsWritten
<1> HIDE DEF a
<1>6. /\ seen' \in [Thread -> TaskStatus] /\ stored' \in [Task -> TaskStatus] /\ stored'[a] = seen[h]
      /\ \A g \in Thread \ {h} : seen'[g] = seen[g]
      /\ \A t \in Task \ {a} : stored'[t] = stored[t]
  BY <1>2, <1>5 DEF GInv, TypeOK, TaskStatus
<1>16. /\ seenClass' \in [Thread -> Rank] /\ storedClass' \in [Task -> Rank]
       /\ storedClass'[a] = class[a]
       /\ \A g \in Thread \ {h} : seenClass'[g] = seenClass[g]
       /\ \A t \in Task \ {a} : storedClass'[t] = storedClass[t]
  <2>1. 0 \in Rank
    BY GatewayAssumption DEF Rank
  <2> QED
    BY <1>2, <1>5, <2>1 DEF GInv, TypeOK
<1>7. \A g \in Thread : \A x : x # <<"put", a>> => (Member(x, agenda'[g]) <=> Member(x, agenda[g]))
  BY <1>3, <1>4, <1>5
<1>8. \A x \in Statement : x[1] # "put" =>
        (Member(x, agenda'[LOOP]) <=> Member(x, agenda[LOOP]))
  BY <1>1, <1>7
<1>9. TypeOK'
  BY <1>2, <1>4, <1>6, <1>16 DEF GInv, TypeOK
<1>10. Shapes'
  <2>1. Head(agenda[h])[1] \notin Outcome
    BY <1>2 DEF Outcome
  <2> QED
    BY <1>2, <1>3, <2>1, ThreadShapes DEF GInv
<1>11. Slots'
  <2>1. \A t \in Task : Dispatching(t)' <=> Dispatching(t)
    BY <1>8, SameDispatching
  <2> QED
    BY <1>2, <1>8, <2>1, QuietSlots DEF GInv
<1>12. \A t : Reported(t)' = Reported(t)
  BY <1>2 DEF Reported
<1>13. \A g \in Thread : Vouched(g)'
  <2>1. Vouched(h)'
    BY <1>3, <1>4 DEF Vouched, At
  <2>2. ASSUME NEW g \in Thread \ {h} PROVE Vouched(g)'
    <3>1. /\ At(g, "put")' <=> At(g, "put")
          /\ Argument(g)' = Argument(g) /\ seen'[g] = seen[g] /\ seenClass'[g] = seenClass[g]
      BY <1>4, <1>6, <1>16 DEF At, Argument
    <3>2. Vouched(g)
      BY DEF GInv, Rows
    <3> QED
      BY <1>2, <1>12, <3>1, <3>2 DEF Vouched
  <2> QED
    BY <2>1, <2>2
<1>14. ASSUME NEW t \in Task PROVE Told(t)'
  <2>1. Told(t)
    BY DEF GInv, Rows
  <2>2. CASE t = a
    BY <1>2, <1>5, <1>6, <1>16, <2>1, <2>2 DEF Told
  <2>3. CASE t # a
    BY <1>2, <1>6, <1>16, <2>1, <2>3 DEF Told
  <2> QED
    BY <2>2, <2>3
<1>15. ASSUME failures' = 0, NEW t \in Task PROVE CatchesUp(t)'
  <2>1. CatchesUp(t)
    BY <1>2, <1>15 DEF GInv, Rows
  <2>2. CASE t = a
    BY <1>2, <1>5, <1>6, <1>12, <1>16, <2>2 DEF CatchesUp, RowClass
  <2>3. CASE t # a
    <3>1. Writing(t) => Writing(t)'
      <4>1. CASE h = LOOP
        <5>1. ~(At(LOOP, "put") /\ Argument(LOOP) = t)
          BY <2>3, <4>1 DEF a
        <5>2. <<"snapshot", t>> # <<"put", a>>
          OBVIOUS
        <5> QED
          BY <1>1, <1>7, <5>1, <5>2 DEF Writing
      <4>2. CASE h # LOOP
        <5>1. agenda'[LOOP] = agenda[LOOP]
          BY <1>1, <1>4, <4>2
        <5> QED
          BY <5>1 DEF Writing, At, Argument
      <4> QED
        BY <4>1, <4>2
    <3>2. Dispatching(t) => Dispatching(t)'
      BY <1>8, SameDispatching
    <3>3. Noticing => Noticing'
      <4>1. \A list : <<"next", list>> # <<"put", a>> /\ <<"rejections", <<>>>> # <<"put", a>>
        OBVIOUS
      <4> QED
        BY <1>1, <1>7, <4>1 DEF Noticing
    <3>4. \A g \in Thread : Member(<<"put", t>>, agenda[g]) => Member(<<"put", t>>, agenda'[g])
      <4>1. <<"put", t>> # <<"put", a>>
        BY <2>3
      <4> QED
        BY <1>7, <4>1
    <3> QED
      BY <1>2, <1>6, <1>16, <2>1, <2>3, <3>1, <3>2, <3>3, <3>4, KeptCatchesUp
  <2> QED
    BY <2>2, <2>3
<1> QED
  BY <1>9, <1>10, <1>11, <1>13, <1>14, <1>15 DEF GInv, Rows

\* Only the finally clause of an execution survives an exception.
LEMMA UnwoundFacts ==
    ASSUME TypeOK, Shapes, NEW h \in Thread, agenda[h] # <<>>
    PROVE  /\ Unwound(h) \in Seq(Statement) /\ Paired(Unwound(h))
           /\ \A x \in Statement : Member(x, Unwound(h)) <=> x[1] = "leave" /\ Member(x, agenda[h])
           /\ Unwound(h) = <<>> \/ Head(Unwound(h))[1] = "leave"
<1> DEFINE s == agenda[h]
           last == s[Len(s)]
<1>1. s \in Seq(Statement) /\ Paired(s) /\ s # <<>>
  BY DEF TypeOK, Shapes
<1> HIDE DEF s
<1>2. Len(s) \in Nat /\ Len(s) >= 1 /\ \A i \in 1 .. Len(s) : s[i] \in Statement
  BY <1>1, EmptySeq
<1>3. last \in Statement /\ Len(s) \in 1 .. Len(s)
  BY <1>2
<1>4. \A x : Member(x, s) /\ x[1] = "leave" => x = last
  BY <1>1 DEF Member, Paired
<1>5. Member(last, s)
  BY <1>3 DEF Member
<1>6. Unwound(h) = IF last[1] = "leave" THEN <<last>> ELSE <<>>
  BY DEF Unwound, s
<1> HIDE DEF last
<1>7. CASE last[1] = "leave"
  <2>1. <<last>> \in Seq(Statement) /\ Paired(<<last>>) /\ Head(<<last>>) = last
    BY <1>3, <1>7 DEF Paired, Field
  <2>2. \A x : Member(x, <<last>>) <=> x = last
    BY TupleMembers
  <2> QED
    BY <1>4, <1>5, <1>6, <1>7, <2>1, <2>2 DEF s
<1>8. CASE last[1] # "leave"
  <2>1. <<>> \in Seq(Statement) /\ Paired(<<>>) /\ \A x : ~ Member(x, <<>>)
    BY TupleMembers DEF Paired
  <2> QED
    BY <1>4, <1>6, <1>8, <2>1 DEF s
<1> QED
  BY <1>7, <1>8

LEMMA PutRaisesGInv ==
    ASSUME GInv, NEW h \in Thread, PutRaises(h)
    PROVE  GInv'
<1> DEFINE a == Argument(h)
           b == Unwound(h)
<1>1. LOOP \in Thread /\ Worker \subseteq Thread
  BY DEF Thread
<1>2. /\ agenda[h] # <<>> /\ Head(agenda[h])[1] = "put" /\ Continue(h, b) /\ At(h, "put")
      /\ \/ stored' = stored /\ storedClass' = storedClass
         \/ /\ stored' = [stored EXCEPT ![a] = seen[h]]
            /\ storedClass' = [storedClass EXCEPT ![a] = seenClass[h]]
      /\ seen' = [seen EXCEPT ![h] = "none"] /\ seenClass' = [seenClass EXCEPT ![h] = 0]
      /\ failures' = failures + 1 /\ failures < StoreFailures
      /\ UNCHANGED <<sched, held, revised, record, running, awaited, phase, class>>
  BY DEF PutRaises, Write, Drop, At
<1>3. alive' \in BOOLEAN
  <2>1. alive \in BOOLEAN /\ alive' = (alive /\ \A i \in 1 .. Len(agenda[h]) : agenda[h][i][1] # "doze")
    BY DEF PutRaises, GInv, TypeOK
  <2> QED
    BY <2>1
<1>4. /\ b \in Seq(Statement) /\ Paired(b)
      /\ \A x \in Statement : Member(x, b) <=> x[1] = "leave" /\ Member(x, agenda[h])
      /\ b = <<>> \/ Head(b)[1] = "leave"
  BY <1>2, UnwoundFacts DEF GInv
<1> HIDE DEF b
<1>5. /\ a \in Task /\ seenClass[h] = class[a]
      /\ seen[h] \in Final => sched[a] = seen[h]
  BY <1>2, WhatIsWritten
<1> HIDE DEF a
<1>6. agenda' \in [Thread -> Seq(Statement)] /\ agenda'[h] = b
      /\ \A g \in Thread \ {h} : agenda'[g] = agenda[g]
  BY <1>1, <1>2, <1>4, Continued DEF GInv
<1>7. /\ seen' \in [Thread -> TaskStatus] /\ stored' \in [Task -> TaskStatus]
      /\ seenClass' \in [Thread -> Rank] /\ storedClass' \in [Task -> Rank]
      /\ \A g \in Thread \ {h} : seen'[g] = seen[g] /\ seenClass'[g] = seenClass[g]
      /\ \A t \in Task : \/ stored'[t] = stored[t] /\ storedClass'[t] = storedClass[t]
                         \/ t = a /\ stored'[t] = seen[h] /\ storedClass'[t] = class[a]
  <2>1. 0 \in Rank
    BY GatewayAssumption DEF Rank
  <2>2. seen' \in [Thread -> TaskStatus] /\ stored' \in [Task -> TaskStatus]
    <3>1. "none" \in TaskStatus
      BY DEF TaskStatus
    <3>2. seen' \in [Thread -> TaskStatus]
      BY <1>2, <3>1 DEF GInv, TypeOK
    <3>3. stored' \in [Task -> TaskStatus]
      BY <1>2, <1>5 DEF GInv, TypeOK
    <3> QED
      BY <3>2, <3>3
  <2>3. seenClass' \in [Thread -> Rank] /\ storedClass' \in [Task -> Rank]
    BY <1>2, <1>5, <2>1 DEF GInv, TypeOK
  <2>4. \A g \in Thread \ {h} : seen'[g] = seen[g] /\ seenClass'[g] = seenClass[g]
    BY <1>2 DEF GInv, TypeOK
  <2>5. \A t \in Task : \/ stored'[t] = stored[t] /\ storedClass'[t] = storedClass[t]
                        \/ t = a /\ stored'[t] = seen[h] /\ storedClass'[t] = class[a]
    BY <1>2, <1>5 DEF GInv, TypeOK
  <2> QED
    BY <2>2, <2>3, <2>4, <2>5
<1>8. failures' \in 0 .. StoreFailures /\ failures' # 0
  BY <1>2, GatewayAssumption DEF GInv, TypeOK
<1>9. TypeOK'
  BY <1>2, <1>3, <1>6, <1>7, <1>8 DEF GInv, TypeOK
<1>10. Shapes'
  <2>1. Head(agenda[h])[1] \notin Outcome
    BY <1>2 DEF Outcome
  <2>2. \A x : Member(x, b) => Member(x, agenda[h])
    <3>1. \A x : Member(x, b) => x \in Statement
      BY <1>4 DEF Member
    <3> QED
      BY <1>4, <3>1
  <2> QED
    BY <1>2, <1>4, <2>1, <2>2, ThreadShapes DEF GInv
<1>11. Slots'
  <2>1. \A x \in Statement :
          /\ Member(x, agenda'[LOOP]) => Member(x, agenda[LOOP])
          /\ x[1] = "leave" => (Member(x, agenda'[LOOP]) <=> Member(x, agenda[LOOP]))
    BY <1>1, <1>4, <1>6
  <2>2. ASSUME NEW t \in Task PROVE Paid(t)'
    <3>1. Dispatching(t)' => Dispatching(t)
      <4>1. \A name \in {"next", "dispatched"}, list \in Seq(Task) : <<name, list>> \in Statement
        BY StatementFacts
      <4> QED
        BY <2>1, <4>1 DEF Dispatching
    <3>2. /\ Member(<<"launch", t>>, agenda'[LOOP]) => Member(<<"launch", t>>, agenda[LOOP])
          /\ Member(<<"leave", t>>, agenda'[LOOP]) <=> Member(<<"leave", t>>, agenda[LOOP])
      BY <2>1, StatementFacts
    <3>3. \A outcome \in Outcome : Member(<<outcome, t>>, agenda[LOOP]) => Member(<<outcome, t>>, agenda'[LOOP])
      <4>1. CASE h = LOOP
        <5>1. Head(agenda[LOOP])[1] \notin Outcome
          BY <1>2, <4>1 DEF Outcome
        <5> QED
          BY <5>1, NoOutcome DEF GInv
      <4>2. CASE h # LOOP
        BY <1>1, <1>6, <4>2
      <4> QED
        BY <4>1, <4>2
    <3>4. Paid(t) /\ (Busy(t)' <=> Busy(t))
      BY <1>2 DEF GInv, Slots, Busy
    <3> QED
      BY <1>2, <1>8, <3>1, <3>2, <3>3, <3>4 DEF Paid
  <2> QED
    BY <1>2, <2>2 DEF GInv, Slots
<1>12. \A g \in Thread : Vouched(g)'
  <2>1. Vouched(h)'
    BY <1>4, <1>6 DEF Vouched, At
  <2>2. ASSUME NEW g \in Thread \ {h} PROVE Vouched(g)'
    <3>1. /\ At(g, "put")' <=> At(g, "put")
          /\ Argument(g)' = Argument(g) /\ seen'[g] = seen[g] /\ seenClass'[g] = seenClass[g]
      BY <1>6, <1>7 DEF At, Argument
    <3>2. Vouched(g)
      BY DEF GInv, Rows
    <3>3. \A t : Reported(t)' = Reported(t)
      BY <1>2 DEF Reported
    <3> QED
      BY <1>2, <3>1, <3>2, <3>3 DEF Vouched
  <2> QED
    BY <2>1, <2>2
<1>13. ASSUME NEW t \in Task PROVE Told(t)'
  <2>1. Told(t)
    BY DEF GInv, Rows
  <2> QED
    BY <1>2, <1>5, <1>7, <2>1 DEF Told
<1> QED
  BY <1>8, <1>9, <1>10, <1>11, <1>12, <1>13 DEF GInv, Rows

-----------------------------------------------------------------------------
(* Cancelling, ending, closing *)

\* What was to be written as queued is overtaken; the worker will write.
LEMMA CancelGInv ==
    ASSUME GInv, NEW h \in Worker, NEW t \in Task, Cancel(h, t)
    PROVE  GInv'
<1> DEFINE b == Persist(t)
<1>1. LOOP \in Thread /\ Worker \subseteq Thread /\ h # LOOP
  BY GatewayAssumption DEF Thread
<1>2. /\ agenda[h] = <<>> /\ phase = "open" /\ Continue(h, b) /\ sched[t] = "queued"
      /\ sched' = [sched EXCEPT ![t] = "cancelled"] /\ record' = [record EXCEPT ![t] = "cancelled"]
      /\ UNCHANGED <<held, revised, stored, running, seen, alive, awaited, phase, failures,
                     class, storedClass, seenClass>>
  BY DEF Cancel, S!Withdraw, Idle, ranks
<1>3. /\ b \in Seq(Statement) /\ Paired(b) /\ b # <<>> /\ Head(b) = <<"snapshot", t>>
      /\ \A x : Member(x, b) <=> x = <<"snapshot", t>> \/ x = <<"put", t>>
  BY StretchFacts, StretchPaired, StretchMembers, StretchHeads, TupleSeq DEF Field
<1> HIDE DEF b
<1>4. agenda' \in [Thread -> Seq(Statement)] /\ agenda'[h] = b
      /\ \A g \in Thread \ {h} : agenda'[g] = agenda[g]
  BY <1>1, <1>2, <1>3, Continued DEF GInv
<1>5. agenda'[LOOP] = agenda[LOOP]
  BY <1>1, <1>4
<1>6. /\ sched' \in [Task -> S!Status] /\ record' \in [Task -> TaskStatus]
      /\ sched'[t] = "cancelled" /\ record'[t] = "cancelled"
      /\ \A u \in Task \ {t} : sched'[u] = sched[u] /\ record'[u] = record[u]
  BY <1>2 DEF GInv, TypeOK, TaskStatus, S!Status
<1>7. \A u \in Task : sched[u] = "cancelled" => sched'[u] = "cancelled"
  BY <1>6
<1>8. TypeOK'
  BY <1>2, <1>4, <1>6 DEF GInv, TypeOK
<1>9. Shapes'
  <2>1. \A x \in Statement : Member(x, b) => x[1] \in {"snapshot", "put"} /\ sched'[x[2]] = "cancelled"
    BY <1>3, <1>6
  <2> QED
    BY <1>2, <1>3, <1>7, <2>1, WorkerShapes DEF GInv
<1>10. \A u \in Task : Dispatching(u)' <=> Dispatching(u)
  BY <1>5 DEF Dispatching
<1>11. Slots'
  <2>1. \A u \in Task : \/ sched'[u] = sched[u]
                        \/ /\ sched[u] \notin {"in-flight", "completed", "failed"}
                           /\ sched'[u] # "in-flight"
    BY <1>2, <1>6
  <2> QED
    BY <1>2, <1>5, <1>10, <2>1, QuietSlots DEF GInv
<1>12. \A g \in Thread : Vouched(g)'
  <2>1. Vouched(h)'
    BY <1>3, <1>4 DEF Vouched, At
  <2>2. ASSUME NEW g \in Worker \ {h} PROVE Vouched(g)'
    BY <1>1, <1>2, <1>4, <1>7, WorkerVouched DEF GInv, Rows
  <2>3. Vouched(LOOP)'
    <3>1. SUFFICES ASSUME At(LOOP, "put")' PROVE
            /\ \/ seen'[LOOP] = Reported(Argument(LOOP))'
               \/ sched'[Argument(LOOP)'] = "cancelled" /\ seen'[LOOP] = "queued"
            /\ seenClass'[LOOP] = class'[Argument(LOOP)']
      BY DEF Vouched
    <3>2. At(LOOP, "put") /\ Argument(LOOP)' = Argument(LOOP)
      BY <1>5, <3>1 DEF At, Argument
    <3>3. Argument(LOOP) \in Task
      BY <1>1, <3>2, WhatIsWritten
    <3>4. /\ \/ seen[LOOP] = Reported(Argument(LOOP))
             \/ sched[Argument(LOOP)] = "cancelled" /\ seen[LOOP] = "queued"
          /\ seenClass[LOOP] = class[Argument(LOOP)]
      BY <1>1, <3>2 DEF GInv, Rows, Vouched
    <3>5. CASE Argument(LOOP) = t
      BY <1>2, <1>6, <3>2, <3>4, <3>5 DEF Reported
    <3>6. CASE Argument(LOOP) # t
      <4>1. Reported(Argument(LOOP))' = Reported(Argument(LOOP))
        BY <1>6, <3>2, <3>3, <3>6 DEF Reported
      <4> QED
        BY <1>2, <1>6, <3>2, <3>3, <3>4, <3>6, <4>1
    <3> QED
      BY <3>5, <3>6
  <2> QED
    BY <2>1, <2>2, <2>3 DEF Thread
<1>13. ASSUME NEW u \in Task PROVE Told(u)'
  <2>1. Told(u)
    BY DEF GInv, Rows
  <2>2. CASE u = t
    BY <1>2, <1>6, <2>1, <2>2 DEF Told, Final
  <2>3. CASE u # t
    BY <1>2, <1>6, <2>1, <2>3 DEF Told
  <2> QED
    BY <2>2, <2>3
<1>14. ASSUME failures' = 0, NEW u \in Task PROVE CatchesUp(u)'
  <2>1. CASE u = t
    BY <1>1, <1>3, <1>4, <1>6, <2>1 DEF CatchesUp
  <2>2. CASE u # t
    <3>1. CatchesUp(u)
      BY <1>2, <1>14 DEF GInv, Rows
    <3>2. Writing(u) => Writing(u)'
      BY <1>5 DEF Writing, At, Argument
    <3>3. Noticing => Noticing'
      BY <1>5 DEF Noticing
    <3>4. \A g \in Thread : Member(<<"put", u>>, agenda[g]) => Member(<<"put", u>>, agenda'[g])
      BY <1>2, <1>4, TupleMembers
    <3> QED
      BY <1>2, <1>6, <1>10, <2>2, <3>1, <3>2, <3>3, <3>4, KeptCatchesUp
  <2> QED
    BY <2>1, <2>2
<1> QED
  BY <1>8, <1>9, <1>11, <1>12, <1>13, <1>14 DEF GInv, Rows

\* The loop turns to an execution whose provider calls are over.
LEMMA ExecutionEndsGInv ==
    ASSUME GInv, NEW t \in Task, ExecutionEnds(t)
    PROVE  GInv'
<1>1. PICK outcome \in Outcome :
        Continue(LOOP, <<<<outcome, t>>>> \o Persist(t) \o <<<<"leave", t>>>>)
  BY DEF ExecutionEnds, Outcome
<1> DEFINE b == Ending(outcome, t)
<1>2. /\ agenda[LOOP] = <<>> /\ t \in running /\ Continue(LOOP, b)
      /\ UNCHANGED <<sched, held, revised, record, stored, running, seen, alive, awaited,
                     phase, failures, class, storedClass, seenClass>>
  BY <1>1, Stretches DEF ExecutionEnds, Idle, ranks
<1>3. LOOP \in Thread /\ Worker \subseteq Thread
  BY DEF Thread
<1>4. /\ b \in Seq(Statement) /\ Paired(b) /\ Head(b) = <<outcome, t>>
      /\ \A x : Member(x, b) <=>
            \/ x = <<outcome, t>> \/ x = <<"snapshot", t>> \/ x = <<"put", t>>
            \/ x = <<"leave", t>>
  <2>1. b \in Seq(Statement) /\ Paired(b)
    BY StretchFacts, StretchPaired, TupleSeq DEF Field, Outcome
  <2> QED
    BY <2>1, StretchMembers, StretchHeads
<1> HIDE DEF b
<1>5. agenda' \in [Thread -> Seq(Statement)] /\ agenda'[LOOP] = b
      /\ \A h \in Worker : agenda'[h] = agenda[h]
  BY <1>2, <1>3, <1>4, Continued, GatewayAssumption DEF GInv
<1>6. \A x : ~ Member(x, agenda[LOOP])
  BY <1>2, TupleMembers
<1>7. outcome \in {"completed", "failed"}
  BY DEF Outcome
<1>8. TypeOK'
  BY <1>2, <1>5 DEF GInv, TypeOK
<1>9. Shapes'
  <2>1. \A o \in Outcome, u \in Task : Member(<<o, u>>, b) => b = Ending(o, u)
    BY <1>4, <1>7 DEF Outcome, b
  <2>2. \A x \in Statement : Member(x, b) => x[1] \in Outcome \cup {"snapshot", "put", "leave"}
    BY <1>4
  <2>3. phase # "closed"
    BY <1>2 DEF GInv, Shapes
  <2> QED
    BY <1>2, <1>4, <2>1, <2>2, <2>3, LoopShapes DEF GInv
<1>10. \A u \in Task : Dispatching(u)' <=> Dispatching(u)
  <2>1. \A x \in Statement : x[1] \in {"next", "dispatched"} => ~ Member(x, b)
    BY <1>4, <1>7
  <2> QED
    BY <1>5, <1>6, <2>1, SameDispatching
<1>11. Slots'
  <2>1. ASSUME NEW u \in Task PROVE Paid(u)'
    <3>1. Paid(u) /\ (Busy(u)' <=> Busy(u)) /\ (Dispatching(u)' <=> Dispatching(u))
      BY <1>2, <1>10 DEF GInv, Slots, Busy
    <3>2. ~ Member(<<"launch", u>>, agenda'[LOOP])
      BY <1>4, <1>5, <1>7
    <3>3. Member(<<"leave", u>>, agenda'[LOOP]) => Member(<<outcome, u>>, agenda'[LOOP])
      BY <1>4, <1>5, <1>7
    <3> QED
      BY <1>2, <1>6, <3>1, <3>2, <3>3 DEF Paid
  <2> QED
    BY <1>2, <2>1 DEF GInv, Slots
<1>12. \A h \in Thread : Vouched(h)'
  <2>1. ~ At(LOOP, "put")'
    BY <1>4, <1>5, <1>7 DEF At
  <2> QED
    BY <1>2, <1>5, <2>1, LoopVouched DEF GInv, Rows
<1>13. \A u \in Task : Told(u)'
  BY <1>2 DEF GInv, Rows, Told
<1>14. ASSUME failures' = 0, NEW u \in Task PROVE CatchesUp(u)'
  <2>1. ~ At(LOOP, "put")
    BY <1>2 DEF At
  <2> QED
    BY <1>2, <1>5, <1>6, <1>14, <2>1, StillCatchesUp DEF GInv, Rows
<1> QED
  BY <1>8, <1>9, <1>11, <1>12, <1>13, <1>14 DEF GInv, Rows

\* Shutting down: a step that leaves the threads alone.
LEMMA ThreadsAlone ==
    ASSUME GInv, UNCHANGED <<sched, held, revised, record, stored, running, agenda, seen, alive, failures,
                             class, storedClass, seenClass>>,
           awaited' \subseteq Task, phase' \in {"open", "stopping", "closed"}, Shapes'
    PROVE  GInv'
<1>1. TypeOK'
  BY DEF GInv, TypeOK
<1>2. \A t : Reported(t)' = Reported(t)
  BY DEF Reported
<1>3. Slots'
  BY DEF GInv, Slots, Paid, Busy, Dispatching
<1>4. Rows'
  <2>1. \A h \in Thread : Vouched(h)'
    BY <1>2 DEF GInv, Rows, Vouched, At, Argument
  <2>2. \A t \in Task : Told(t)'
    BY DEF GInv, Rows, Told
  <2>3. ASSUME failures' = 0, NEW t \in Task PROVE CatchesUp(t)'
    <3>1. (Writing(t)' <=> Writing(t)) /\ (Dispatching(t)' <=> Dispatching(t)) /\ (Noticing' <=> Noticing)
      BY DEF Writing, Dispatching, Noticing, At, Argument
    <3> QED
      BY <2>3, <3>1, KeptCatchesUp DEF GInv, Rows
  <2> QED
    BY <2>1, <2>2, <2>3 DEF Rows
<1> QED
  BY <1>1, <1>3, <1>4 DEF GInv

LEMMA CloseGInv == GInv /\ Close => GInv'
<1> SUFFICES ASSUME GInv, Close PROVE GInv'
  OBVIOUS
<1>1. /\ (\A h \in Thread : Idle(h)) /\ phase' = "stopping" /\ awaited' = running
      /\ UNCHANGED <<sched, held, revised, record, stored, running, agenda, seen, alive, failures,
                     class, storedClass, seenClass>>
  BY DEF Close, ranks
<1>2. awaited' \subseteq Task
  BY <1>1 DEF GInv, TypeOK
<1>3. Shapes'
  <2>1. \A x : ~ Member(x, agenda[LOOP])
    BY <1>1, TupleMembers DEF Idle, Thread
  <2>2. \A h \in Worker : Idle(h)'
    BY <1>1 DEF Idle, Thread
  <2> QED
    BY <1>1, <2>1, <2>2 DEF GInv, Shapes
<1> QED
  BY <1>1, <1>2, <1>3, ThreadsAlone

LEMMA CloseStoreGInv == GInv /\ CloseStore => GInv'
<1> SUFFICES ASSUME GInv, CloseStore PROVE GInv'
  OBVIOUS
<1>1. /\ phase = "stopping" /\ Idle(LOOP) /\ awaited \cap running = {} /\ phase' = "closed"
      /\ UNCHANGED <<sched, held, revised, record, stored, running, agenda, seen, alive, awaited, failures,
                     class, storedClass, seenClass>>
  BY DEF CloseStore, ranks
<1>2. running = {}
  BY <1>1 DEF GInv, Shapes
<1>3. Shapes'
  BY <1>1, <1>2 DEF GInv, Shapes, Idle
<1> QED
  BY <1>1, <1>3, ThreadsAlone DEF GInv, TypeOK

-----------------------------------------------------------------------------
(* Slots *)

LEMMA IntervalFinite == \A a, b \in Int : IsFiniteSet(a .. b)
BY FS_Interval

\* The slots in use, one by one.
Occupied(h) == UNION {{t} \X (1 .. h[t]) : t \in Task}

LEMMA HeldIsCount == \A h : S!Held(h) = Cardinality(Occupied(h))
<1>1. \A X : S!Cardinality(X) = Cardinality(X)
  BY DEF Cardinality, S!Cardinality
<1> QED
  BY <1>1 DEF S!Held, Occupied

LEMMA OccupiedFinite ==
    ASSUME NEW h \in [Task -> 0 .. Capacity]
    PROVE  IsFiniteSet(Occupied(h)) /\ Cardinality(Occupied(h)) \in Nat
<1>1. Occupied(h) \subseteq Task \X (1 .. Capacity)
  <2>1. \A t \in Task : h[t] \in Nat /\ h[t] <= Capacity
    OBVIOUS
  <2>2. \A t \in Task : 1 .. h[t] \subseteq 1 .. Capacity
    BY <2>1, GatewayAssumption
  <2> QED
    BY <2>2 DEF Occupied
<1>2. IsFiniteSet(1 .. Capacity)
  <2>1. 1 \in Int /\ Capacity \in Int
    BY GatewayAssumption
  <2> QED
    BY <2>1, IntervalFinite, Zenon
<1>3. IsFiniteSet(Task \X (1 .. Capacity))
  BY <1>2, GatewayAssumption, FS_Product
<1>4. IsFiniteSet(Occupied(h))
  BY <1>1, <1>3, FS_Subset
<1> QED
  BY <1>4, FS_CardinalityType

\* A task that ends gives its slots back.
LEMMA ReleaseHeld ==
    ASSUME NEW h \in [Task -> 0 .. Capacity], NEW t \in Task, S!Held(h) <= Capacity
    PROVE  /\ [h EXCEPT ![t] = 0] \in [Task -> 0 .. Capacity]
           /\ S!Held([h EXCEPT ![t] = 0]) <= Capacity
<1> DEFINE less == [h EXCEPT ![t] = 0]
<1>1. less \in [Task -> 0 .. Capacity]
  BY GatewayAssumption
<1>2. Occupied(less) \subseteq Occupied(h)
  <2>1. \A u \in Task : less[u] = h[u] \/ less[u] = 0
    OBVIOUS
  <2>2. \A u \in Task : {u} \X (1 .. less[u]) \subseteq {u} \X (1 .. h[u])
    BY <2>1
  <2> QED
    BY <2>2 DEF Occupied
<1>3. Cardinality(Occupied(less)) <= Cardinality(Occupied(h))
  BY <1>2, OccupiedFinite, FS_Subset
<1>4. Cardinality(Occupied(less)) \in Nat /\ Cardinality(Occupied(h)) \in Nat
  BY <1>1, OccupiedFinite
<1> HIDE DEF less
<1>5. S!Held(less) <= Capacity
  BY <1>3, <1>4, HeldIsCount, GatewayAssumption
<1> QED
  BY <1>1, <1>5 DEF less

\* The end of an execution: the slots come back, its row will tell.
LEMMA FinishGInv ==
    ASSUME GInv, NEW outcome \in Outcome, Finish(outcome)
    PROVE  GInv'
<1> DEFINE t == Argument(LOOP)
<1>1. LOOP \in Thread /\ Worker \subseteq Thread
  BY DEF Thread
<1>2. /\ agenda[LOOP] # <<>> /\ Head(agenda[LOOP])[1] = outcome /\ Continue(LOOP, Rest(LOOP))
      /\ t = Head(agenda[LOOP])[2] /\ S!Release(t) /\ sched'[t] = outcome
      /\ record' = [record EXCEPT ![t] = outcome]
      /\ UNCHANGED <<revised, stored, running, seen, alive, awaited, phase, failures,
                     class, storedClass, seenClass>>
  BY DEF Finish, At, Argument, ranks
<1> HIDE DEF t
<1>3. /\ Rest(LOOP) \in Seq(Statement) /\ Paired(Rest(LOOP)) /\ Head(agenda[LOOP]) \in Statement
      /\ \A x : Member(x, agenda[LOOP]) <=> x = Head(agenda[LOOP]) \/ Member(x, Rest(LOOP))
  BY <1>1, <1>2, Popped DEF GInv
<1>4. agenda' \in [Thread -> Seq(Statement)] /\ agenda'[LOOP] = Rest(LOOP)
      /\ \A h \in Worker : agenda'[h] = agenda[h]
  BY <1>1, <1>2, <1>3, Continued, GatewayAssumption DEF GInv
<1>5. outcome \in {"completed", "failed"}
  BY DEF Outcome
<1>6. t \in Task /\ Head(agenda[LOOP]) = <<outcome, t>> /\ Member(<<outcome, t>>, agenda[LOOP])
  BY <1>2, <1>3, <1>5, StatementFacts
<1>7. agenda[LOOP] = Ending(outcome, t)
  BY <1>6 DEF GInv, Shapes
<1>8. /\ \A x : Member(x, agenda[LOOP]) <=>
            \/ x = <<outcome, t>> \/ x = <<"snapshot", t>> \/ x = <<"put", t>>
            \/ x = <<"leave", t>>
      /\ Rest(LOOP) = <<<<"snapshot", t>>, <<"put", t>>, <<"leave", t>>>>
  <2>1. \A x : Member(x, Ending(outcome, t)) <=>
            \/ x = <<outcome, t>> \/ x = <<"snapshot", t>> \/ x = <<"put", t>>
            \/ x = <<"leave", t>>
    BY StretchMembers
  <2>2. Tail(Ending(outcome, t)) = <<<<"snapshot", t>>, <<"put", t>>, <<"leave", t>>>>
    BY StretchHeads
  <2> QED
    BY <1>7, <2>1, <2>2 DEF Rest
<1>9. /\ \A x : Member(x, agenda'[LOOP]) <=>
            x = <<"snapshot", t>> \/ x = <<"put", t>> \/ x = <<"leave", t>>
      /\ Head(agenda'[LOOP]) = <<"snapshot", t>>
  <2> DEFINE s == <<"snapshot", t>>
             p == <<"put", t>>
             l == <<"leave", t>>
  <2> HIDE DEF s, p, l
  <2>1. \A x : Member(x, <<s, p, l>>) <=> x = s \/ x = p \/ x = l
    BY TupleMembers
  <2>2. Head(<<s, p, l>>) = s
    OBVIOUS
  <2>3. agenda'[LOOP] = <<s, p, l>>
    BY <1>4, <1>8 DEF s, p, l
  <2> QED
    BY <2>1, <2>2, <2>3 DEF s, p, l
<1>10. /\ sched[t] = "in-flight" /\ sched' = [sched EXCEPT ![t] = outcome]
       /\ held' = [held EXCEPT ![t] = 0]
  <2>1. PICK s \in {"completed", "failed"} : sched' = [sched EXCEPT ![t] = s]
    BY <1>2 DEF S!Release
  <2>2. s = outcome
    BY <1>2, <1>6, <2>1 DEF GInv, TypeOK
  <2> QED
    BY <1>2, <2>1, <2>2 DEF S!Release
<1>11. /\ sched' \in [Task -> S!Status] /\ record' \in [Task -> TaskStatus]
       /\ held' \in [Task -> 0 .. Capacity] /\ S!Held(held') <= Capacity
       /\ sched'[t] = outcome /\ record'[t] = outcome /\ held'[t] = 0
       /\ \A u \in Task \ {t} : sched'[u] = sched[u] /\ record'[u] = record[u] /\ held'[u] = held[u]
  <2>1. held \in [Task -> 0 .. Capacity] /\ S!Held(held) <= Capacity
    BY DEF GInv, TypeOK, Slots
  <2>2. held' \in [Task -> 0 .. Capacity] /\ S!Held(held') <= Capacity
    BY <1>6, <1>10, <2>1, ReleaseHeld
  <2> QED
    BY <1>2, <1>5, <1>6, <1>10, <2>1, <2>2 DEF GInv, TypeOK, S!Status, TaskStatus
<1>12. \A u \in Task : sched[u] = "cancelled" => sched'[u] = "cancelled"
  BY <1>10, <1>11
<1>13. TypeOK'
  BY <1>2, <1>4, <1>11 DEF GInv, TypeOK
<1>14. Shapes'
  <2>1. \A o \in Outcome, u \in Task : ~ Member(<<o, u>>, Rest(LOOP))
    BY <1>4, <1>9 DEF Outcome
  <2>2. \A x \in Statement : Member(x, Rest(LOOP)) => x[1] \in Outcome \cup {"snapshot", "put", "leave"}
    BY <1>4, <1>9
  <2>3. phase # "closed"
    BY <1>2 DEF GInv, Shapes, Idle
  <2> QED
    BY <1>2, <1>3, <1>12, <2>1, <2>2, <2>3, LoopShapes DEF GInv
<1>15. \A name, list : name \notin {outcome, "snapshot", "put", "leave"} =>
         ~ Member(<<name, list>>, agenda[LOOP]) /\ ~ Member(<<name, list>>, agenda'[LOOP])
  BY <1>8, <1>9
<1>16. \A list : /\ ~ Member(<<"next", list>>, agenda[LOOP]) /\ ~ Member(<<"dispatched", list>>, agenda[LOOP])
                 /\ ~ Member(<<"next", list>>, agenda'[LOOP]) /\ ~ Member(<<"dispatched", list>>, agenda'[LOOP])
                 /\ ~ Member(<<"rejections", list>>, agenda[LOOP])
  BY <1>5, <1>15
<1>17. \A u \in Task : ~ Dispatching(u) /\ ~ Dispatching(u)'
  BY <1>16 DEF Dispatching
<1>18. Slots'
  <2>1. ASSUME NEW u \in Task PROVE Paid(u)'
    <3>1. Paid(u)
      BY DEF GInv, Slots
    <3>2. ~ Member(<<"launch", u>>, agenda[LOOP]) /\ ~ Member(<<"launch", u>>, agenda'[LOOP])
      BY <1>5, <1>8, <1>9
    <3>3. /\ Member(<<"leave", u>>, agenda[LOOP]) <=> u = t
          /\ Member(<<"leave", u>>, agenda'[LOOP]) <=> u = t
      BY <1>5, <1>8, <1>9
    <3>4. CASE u = t
      BY <1>2, <1>5, <1>11, <1>17, <3>2, <3>3, <3>4 DEF Paid, Outcome
    <3>5. CASE u # t
      BY <1>2, <1>11, <1>17, <3>1, <3>2, <3>3, <3>5 DEF Paid, Busy
    <3> QED
      BY <3>4, <3>5
  <2> QED
    BY <1>11, <2>1 DEF Slots
<1>19. \A h \in Thread : Vouched(h)'
  <2>1. ~ At(LOOP, "put")'
    BY <1>9 DEF At
  <2> QED
    BY <1>2, <1>4, <1>12, <2>1, LoopVouched DEF GInv, Rows
<1>20. ASSUME NEW u \in Task PROVE Told(u)'
  <2>1. Told(u)
    BY DEF GInv, Rows
  <2>2. CASE u = t
    BY <1>2, <1>5, <1>10, <1>11, <2>1, <2>2 DEF Told, Final
  <2>3. CASE u # t
    BY <1>2, <1>11, <2>1, <2>3 DEF Told
  <2> QED
    BY <2>2, <2>3
<1>21. ASSUME failures' = 0, NEW u \in Task PROVE CatchesUp(u)'
  <2>1. CASE u = t
    BY <1>5, <1>9, <1>11, <2>1 DEF CatchesUp, Writing
  <2>2. CASE u # t
    <3>1. ~ At(LOOP, "put")
      BY <1>2, <1>5 DEF At
    <3>2. CatchesUp(u)
      BY <1>2, <1>21 DEF GInv, Rows
    <3>3. ~ Writing(u)
      BY <1>5, <1>8, <2>2, <3>1 DEF Writing
    <3>4. ~ Noticing
      BY <1>16 DEF Noticing
    <3>5. \A h \in Thread : Member(<<"put", u>>, agenda[h]) => Member(<<"put", u>>, agenda'[h])
      BY <1>4, <1>5, <1>8, <2>2 DEF Thread
    <3> QED
      BY <1>2, <1>11, <1>17, <2>2, <3>2, <3>3, <3>4, <3>5, KeptCatchesUp
  <2> QED
    BY <2>1, <2>2
<1> QED
  BY <1>13, <1>14, <1>18, <1>19, <1>20, <1>21 DEF GInv, Rows

-----------------------------------------------------------------------------
(* Dispatching *)

\* Who is on a list that gets shorter, or longer.
LEMMA ListFacts ==
    ASSUME NEW list \in Seq(Task)
    PROVE  /\ \A u \in Task : Append(list, u) \in Seq(Task) /\ Member(u, Append(list, u))
           /\ \A u, v \in Task : u # v => (Member(u, Append(list, v)) <=> Member(u, list))
           /\ list # <<>> => /\ Head(list) \in Task /\ Tail(list) \in Seq(Task)
                             /\ Member(Head(list), list)
                             /\ \A u : Member(u, list) <=> u = Head(list) \/ Member(u, Tail(list))
<1>1. ASSUME NEW v \in Task
      PROVE  Append(list, v) \in Seq(Task) /\ \A u : Member(u, Append(list, v)) <=> Member(u, list) \/ u = v
  <2> DEFINE w == Append(list, v)
  <2>1. /\ w \in Seq(Task) /\ Len(w) = Len(list) + 1 /\ Len(list) \in Nat /\ w[Len(list) + 1] = v
        /\ \A i \in 1 .. Len(list) : w[i] = list[i]
    BY AppendProperties
  <2> HIDE DEF w
  <2>2. Len(list) + 1 \in 1 .. Len(w)
    BY <2>1
  <2>3. \A i \in 1 .. Len(w) : i = Len(list) + 1 \/ i \in 1 .. Len(list)
    BY <2>1
  <2>4. \A i \in 1 .. Len(list) : i \in 1 .. Len(w)
    BY <2>1
  <2>5. ASSUME NEW u PROVE Member(u, w) <=> Member(u, list) \/ u = v
    BY <2>1, <2>2, <2>3, <2>4 DEF Member
  <2> QED
    BY <2>1, <2>5 DEF w
<1>2. \A u, v \in Task : u # v => (Member(u, Append(list, v)) <=> Member(u, list))
  BY <1>1
<1>3. \A u \in Task : Append(list, u) \in Seq(Task) /\ Member(u, Append(list, u))
  BY <1>1
<1>4. list # <<>> => /\ Head(list) \in Task /\ Tail(list) \in Seq(Task)
                     /\ \A u : Member(u, list) <=> u = Head(list) \/ Member(u, Tail(list))
  BY TailMembers
<1> QED
  BY <1>2, <1>3, <1>4

\* A dispatched task gets its record, its row and its coroutine.
LEMMA DispatchedGInv == GInv /\ Dispatched => GInv'
<1> SUFFICES ASSUME GInv, Dispatched PROVE GInv'
  OBVIOUS
<1> DEFINE left == Argument(LOOP)
<1>1. LOOP \in Thread /\ Worker \subseteq Thread
  BY DEF Thread
<1>2. /\ agenda[LOOP] # <<>> /\ Head(agenda[LOOP])[1] = "dispatched" /\ left = Head(agenda[LOOP])[2]
      /\ UNCHANGED <<sched, held, revised, stored, running, seen, alive, awaited, phase, failures,
                     class, storedClass, seenClass>>
  BY DEF Dispatched, At, Argument, ranks
<1>3. \/ /\ left # <<>> /\ record' = [record EXCEPT ![Head(left)] = "running"]
         /\ Continue(LOOP, Persist(Head(left)) \o <<<<"launch", Head(left)>>,
                               <<"dispatched", Tail(left)>>>> \o Rest(LOOP))
      \/ left = <<>> /\ record' = record /\ Continue(LOOP, Rest(LOOP))
  BY DEF Dispatched
<1> HIDE DEF left
<1>4. /\ Rest(LOOP) \in Seq(Statement) /\ Paired(Rest(LOOP)) /\ Head(agenda[LOOP]) \in Statement
      /\ \A x : Member(x, agenda[LOOP]) <=> x = Head(agenda[LOOP]) \/ Member(x, Rest(LOOP))
      /\ Rest(LOOP) = <<>> \/ (Rest(LOOP)[1][1] # "put" /\ Head(Rest(LOOP))[1] # "put")
  BY <1>1, <1>2, Popped DEF GInv
<1>5. left \in Seq(Task) /\ Head(agenda[LOOP]) = <<"dispatched", left>>
  BY <1>2, <1>4, StatementFacts
<1>6. Head(agenda[LOOP])[1] \notin Outcome /\ phase = "open" /\ ~ At(LOOP, "put")
  BY <1>2, OnlyOpen DEF GInv, Outcome, At
<1>7. \A u \in Task : sched[u] = "cancelled" => sched'[u] = "cancelled"
  BY <1>2
<1>8. CASE left = <<>> /\ record' = record /\ Continue(LOOP, Rest(LOOP))
  <2>1. agenda' \in [Thread -> Seq(Statement)] /\ agenda'[LOOP] = Rest(LOOP)
        /\ \A h \in Worker : agenda'[h] = agenda[h]
    BY <1>1, <1>4, <1>8, Continued, GatewayAssumption DEF GInv
  <2>2. \A x : x # <<"dispatched", <<>>>> => (Member(x, agenda'[LOOP]) <=> Member(x, agenda[LOOP]))
    BY <1>4, <1>5, <1>8, <2>1
  <2>3. TypeOK'
    BY <1>2, <1>8, <2>1 DEF GInv, TypeOK
  <2>4. Shapes'
    BY <1>2, <1>4, <1>6, <1>8, LoopGoesOn DEF GInv
  <2>5. \A u \in Task : Dispatching(u)' <=> Dispatching(u)
    BY <2>2, SameDispatching
  <2>6. Slots'
    BY <1>2, <2>2, <2>5, QuietSlots DEF GInv
  <2>7. \A h \in Thread : Vouched(h)'
    <3>1. ~ At(LOOP, "put")'
      BY <1>4, <2>1 DEF At
    <3> QED
      BY <1>2, <1>7, <2>1, <3>1, LoopVouched DEF GInv, Rows
  <2>8. \A u \in Task : Told(u)'
    BY <1>2, <1>8 DEF GInv, Rows, Told
  <2>9. ASSUME failures' = 0, NEW u \in Task PROVE CatchesUp(u)'
    <3>1. CatchesUp(u)
      BY <1>2, <2>9 DEF GInv, Rows
    <3>2. Writing(u) => Writing(u)'
      BY <1>6, <2>2 DEF Writing
    <3>3. Noticing => Noticing'
      BY <2>2 DEF Noticing
    <3>4. \A h \in Thread : Member(<<"put", u>>, agenda[h]) => Member(<<"put", u>>, agenda'[h])
      BY <2>1, <2>2 DEF Thread
    <3> QED
      BY <1>2, <1>8, <2>5, <3>1, <3>2, <3>3, <3>4, KeptCatchesUp
  <2> QED
    BY <2>3, <2>4, <2>6, <2>7, <2>8, <2>9 DEF GInv, Rows
<1>9. ASSUME left # <<>>, record' = [record EXCEPT ![Head(left)] = "running"],
             Continue(LOOP, Persist(Head(left)) \o <<<<"launch", Head(left)>>,
                               <<"dispatched", Tail(left)>>>> \o Rest(LOOP))
      PROVE  GInv'
  <2> DEFINE t == Head(left)
             p == Persist(t) \o <<<<"launch", t>>, <<"dispatched", Tail(left)>>>>
             b == p \o Rest(LOOP)
  <2>1. /\ t \in Task /\ Tail(left) \in Seq(Task) /\ Member(t, left)
        /\ \A u : Member(u, left) <=> u = t \/ Member(u, Tail(left))
    BY <1>5, <1>9, ListFacts
  <2>2. Continue(LOOP, b) /\ record' = [record EXCEPT ![t] = "running"]
    BY <1>9
  <2> HIDE DEF t
  <2>3. p \in Seq(Statement) /\ Paired(p)
    BY <2>1, StretchFacts, StretchPaired DEF Field
  <2>4. \A x : Member(x, p) <=>
          \/ x = <<"snapshot", t>> \/ x = <<"put", t>>
          \/ x = <<"launch", t>> \/ x = <<"dispatched", Tail(left)>>
    BY StretchMembers
  <2>5. p # <<>> /\ p[1] = <<"snapshot", t>>
    <3>1. p = <<<<"snapshot", t>>, <<"put", t>>, <<"launch", t>>, <<"dispatched", Tail(left)>>>>
      BY Stretches
    <3> HIDE DEF p
    <3> QED
      BY <3>1
  <2> HIDE DEF p
  <2>6. /\ b \in Seq(Statement) /\ Paired(b) /\ b # <<>> /\ Head(b) = <<"snapshot", t>>
        /\ \A x : Member(x, b) <=> Member(x, p) \/ Member(x, Rest(LOOP))
    <3>1. \A x : Member(x, p) => x[1] # "leave"
      BY <2>4
    <3> QED
      BY <1>4, <2>3, <2>5, <3>1, Pushed
  <2> HIDE DEF b
  <2>7. agenda' \in [Thread -> Seq(Statement)] /\ agenda'[LOOP] = b
        /\ \A h \in Worker : agenda'[h] = agenda[h]
    BY <1>1, <2>2, <2>6, Continued, GatewayAssumption DEF GInv
  <2>8. \A x : /\ Member(x, agenda[LOOP]) => Member(x, agenda'[LOOP]) \/ x = <<"dispatched", left>>
               /\ Member(x, agenda'[LOOP]) =>
                    \/ Member(x, agenda[LOOP])
                    \/ x = <<"snapshot", t>> \/ x = <<"put", t>>
                    \/ x = <<"launch", t>> \/ x = <<"dispatched", Tail(left)>>
    BY <1>4, <1>5, <2>4, <2>6, <2>7
  <2>9. /\ record' \in [Task -> TaskStatus] /\ record'[t] = "running"
        /\ \A u \in Task \ {t} : record'[u] = record[u]
    BY <2>1, <2>2 DEF GInv, TypeOK, TaskStatus
  <2>10. TypeOK'
    BY <1>2, <2>7, <2>9 DEF GInv, TypeOK
  <2>11. Shapes'
    <3>1. \A x \in Statement : Member(x, b) => Member(x, agenda[LOOP]) \/ x[1] \notin Outcome
      BY <2>7, <2>8 DEF Outcome
    <3> QED
      BY <1>2, <1>6, <1>7, <2>2, <2>6, <3>1, LoopGoesOn DEF GInv
  <2>12. Dispatching(t)
    <3>1. Member(<<"dispatched", left>>, agenda[LOOP])
      BY <1>4, <1>5
    <3> QED
      BY <1>5, <2>1, <3>1 DEF Dispatching
  <2>13. Busy(t)
    BY <2>1, <2>12 DEF GInv, Slots, Paid
  <2>14. ASSUME NEW u \in Task
         PROVE  /\ Dispatching(u)' => Dispatching(u)
                /\ u # t /\ Dispatching(u) => Dispatching(u)'
    <3>1. Dispatching(u)' => Dispatching(u)
      <4>1. ASSUME NEW name \in {"next", "dispatched"}, NEW list \in Seq(Task),
                   Member(<<name, list>>, agenda'[LOOP]), Member(u, list)
            PROVE  Dispatching(u)
        <5>1. Member(<<name, list>>, agenda[LOOP]) \/ <<name, list>> = <<"dispatched", Tail(left)>>
          BY <2>8, <4>1
        <5>2. CASE Member(<<name, list>>, agenda[LOOP])
          BY <4>1, <5>2 DEF Dispatching
        <5>3. CASE <<name, list>> = <<"dispatched", Tail(left)>>
          <6>1. Member(u, left)
            BY <2>1, <4>1, <5>3
          <6>2. Member(<<"dispatched", left>>, agenda[LOOP])
            BY <1>4, <1>5
          <6> QED
            BY <1>5, <6>1, <6>2 DEF Dispatching
        <5> QED
          BY <5>1, <5>2, <5>3
      <4> QED
        BY <4>1 DEF Dispatching
    <3>2. ASSUME u # t, NEW name \in {"next", "dispatched"}, NEW list \in Seq(Task),
                 Member(<<name, list>>, agenda[LOOP]), Member(u, list)
          PROVE  Dispatching(u)'
      <4>1. Member(<<name, list>>, agenda'[LOOP]) \/ <<name, list>> = <<"dispatched", left>>
        BY <2>8, <3>2
      <4>2. CASE Member(<<name, list>>, agenda'[LOOP])
        BY <3>2, <4>2 DEF Dispatching
      <4>3. CASE <<name, list>> = <<"dispatched", left>>
        <5>1. Member(u, Tail(left))
          BY <2>1, <3>2, <4>3
        <5>2. Member(<<"dispatched", Tail(left)>>, agenda'[LOOP])
          BY <2>4, <2>6, <2>7
        <5> QED
          BY <2>1, <5>1, <5>2 DEF Dispatching
      <4> QED
        BY <4>1, <4>2, <4>3
    <3>3. u # t /\ Dispatching(u) => Dispatching(u)'
      BY <3>2 DEF Dispatching
    <3> QED
      BY <3>1, <3>3
  <2>15. \A x : x[1] \notin {"snapshot", "put", "launch", "dispatched"} =>
           (Member(x, agenda'[LOOP]) <=> Member(x, agenda[LOOP]))
    BY <2>8
  <2>16. \A u \in Task :
           /\ Member(<<"launch", u>>, agenda[LOOP]) => Member(<<"launch", u>>, agenda'[LOOP])
           /\ Member(<<"launch", u>>, agenda'[LOOP]) => Member(<<"launch", u>>, agenda[LOOP]) \/ u = t
           /\ Member(<<"launch", t>>, agenda'[LOOP])
    BY <2>4, <2>6, <2>7, <2>8
  <2>17. Slots'
    <3>1. ASSUME NEW u \in Task PROVE Paid(u)'
      <4>1. Paid(u) /\ (Busy(u)' <=> Busy(u))
        BY <1>2 DEF GInv, Slots, Busy
      <4>2. \A name \in {"leave", "completed", "failed"} :
              Member(<<name, u>>, agenda'[LOOP]) <=> Member(<<name, u>>, agenda[LOOP])
        BY <2>15
      <4> QED
        BY <1>2, <2>13, <2>14, <2>16, <4>1, <4>2 DEF Paid, Outcome
    <3> QED
      BY <1>2, <3>1 DEF GInv, Slots
  <2>18. \A h \in Thread : Vouched(h)'
    <3>1. ~ At(LOOP, "put")'
      BY <2>6, <2>7 DEF At
    <3> QED
      BY <1>2, <1>7, <2>7, <3>1, LoopVouched DEF GInv, Rows
  <2>19. \A u \in Task : Told(u)'
    BY <1>2, <2>9, <2>13 DEF GInv, Rows, Told, Busy
  <2>20. ASSUME failures' = 0, NEW u \in Task PROVE CatchesUp(u)'
    <3>1. CASE u = t
      BY <1>2, <2>4, <2>6, <2>7, <2>13, <3>1 DEF CatchesUp, Writing, Busy
    <3>2. CASE u # t
      <4>1. CatchesUp(u)
        BY <1>2, <2>20 DEF GInv, Rows
      <4>2. Writing(u) => Writing(u)'
        BY <1>6, <2>8 DEF Writing
      <4>3. Noticing => Noticing'
        BY <2>15 DEF Noticing
      <4>4. \A h \in Thread : Member(<<"put", u>>, agenda[h]) => Member(<<"put", u>>, agenda'[h])
        BY <2>7, <2>8 DEF Thread
      <4> QED
        BY <1>2, <2>9, <2>14, <3>2, <4>1, <4>2, <4>3, <4>4, KeptCatchesUp
    <3> QED
      BY <3>1, <3>2
  <2> QED
    BY <2>10, <2>11, <2>17, <2>18, <2>19, <2>20 DEF GInv, Rows
<1> QED
  BY <1>3, <1>8, <1>9

\* The scheduler has nothing more to start: the loop turns to the refused
\* tasks, then to the dispatched ones.
LEMMA NothingMoreGInv ==
    ASSUME GInv, At(LOOP, "next"),
           Continue(LOOP, <<<<"rejections", <<>>>>, <<"dispatched", Argument(LOOP)>>>> \o Rest(LOOP)),
           sched' \in [Task -> S!Status],
           \A t \in Task : sched'[t] = sched[t] \/ (sched[t] = "queued" /\ sched'[t] = "rejected"),
           class' \in [Task -> Rank], \A t \in Task : class'[t] = class[t] \/ Rises(t),
           UNCHANGED <<held, revised, record, stored, running, seen, alive, awaited, phase, failures,
                       storedClass, seenClass>>
    PROVE  GInv'
<1> DEFINE list == Argument(LOOP)
           p == <<<<"rejections", <<>>>>, <<"dispatched", list>>>>
           b == p \o Rest(LOOP)
<1>1. LOOP \in Thread /\ Worker \subseteq Thread
  BY DEF Thread
<1>2. /\ agenda[LOOP] # <<>> /\ Head(agenda[LOOP])[1] = "next" /\ list = Head(agenda[LOOP])[2]
      /\ Continue(LOOP, b)
  BY DEF At, Argument
<1> HIDE DEF list
<1>3. /\ Rest(LOOP) \in Seq(Statement) /\ Paired(Rest(LOOP)) /\ Head(agenda[LOOP]) \in Statement
      /\ \A x : Member(x, agenda[LOOP]) <=> x = Head(agenda[LOOP]) \/ Member(x, Rest(LOOP))
      /\ Rest(LOOP) = <<>> \/ Rest(LOOP)[1][1] # "put"
  BY <1>1, <1>2, Popped DEF GInv
<1>4. list \in Seq(Task) /\ Head(agenda[LOOP]) = <<"next", list>>
  BY <1>2, <1>3, StatementFacts
<1>5. Head(agenda[LOOP])[1] \notin Outcome /\ phase = "open" /\ ~ At(LOOP, "put")
  BY <1>2, OnlyOpen DEF GInv, Outcome, At
<1>6. /\ p \in Seq(Statement) /\ p # <<>> /\ p[1] = <<"rejections", <<>>>>
      /\ \A x : Member(x, p) <=> x = <<"rejections", <<>>>> \/ x = <<"dispatched", list>>
  <2> DEFINE r == <<"rejections", <<>>>>
             d == <<"dispatched", list>>
  <2>1. r \in Statement /\ d \in Statement
    BY <1>4, StatementFacts
  <2> HIDE DEF r, d
  <2>2. <<r, d>> \in Seq(Statement) /\ <<r, d>> # <<>> /\ <<r, d>>[1] = r
    BY <2>1
  <2>3. \A x : Member(x, <<r, d>>) <=> x = r \/ x = d
    BY TupleMembers
  <2> QED
    BY <2>2, <2>3 DEF r, d
<1>7. Paired(p)
  BY DEF Paired, Field
<1> HIDE DEF p
<1>8. /\ b \in Seq(Statement) /\ Paired(b) /\ b # <<>> /\ Head(b) = <<"rejections", <<>>>>
      /\ \A x : Member(x, b) <=> Member(x, p) \/ Member(x, Rest(LOOP))
  <2>1. \A x : Member(x, p) => x[1] # "leave"
    BY <1>6
  <2> QED
    BY <1>3, <1>6, <1>7, <2>1, Pushed
<1> HIDE DEF b
<1>9. agenda' \in [Thread -> Seq(Statement)] /\ agenda'[LOOP] = b
      /\ \A h \in Worker : agenda'[h] = agenda[h]
  BY <1>1, <1>2, <1>8, Continued, GatewayAssumption DEF GInv
<1>10. \A x : /\ Member(x, agenda[LOOP]) => Member(x, agenda'[LOOP]) \/ x = <<"next", list>>
              /\ Member(x, agenda'[LOOP]) =>
                   Member(x, agenda[LOOP]) \/ x = <<"rejections", <<>>>> \/ x = <<"dispatched", list>>
  BY <1>3, <1>4, <1>6, <1>8, <1>9
<1>11. \A x : x[1] \notin {"next", "rejections", "dispatched"} =>
         (Member(x, agenda'[LOOP]) <=> Member(x, agenda[LOOP]))
  BY <1>10
<1>12. /\ Member(<<"next", list>>, agenda[LOOP]) /\ Member(<<"dispatched", list>>, agenda'[LOOP])
       /\ Member(<<"rejections", <<>>>>, agenda'[LOOP])
  BY <1>3, <1>4, <1>6, <1>8, <1>9
<1>13. TypeOK'
  BY <1>9 DEF GInv, TypeOK
<1>14. /\ \A t \in Task : sched[t] = "cancelled" => sched'[t] = "cancelled"
       /\ \A t \in Task : sched[t] = "cancelled" => class'[t] = class[t]
  BY DEF Rises
<1>15. Shapes'
  <2>1. \A x \in Statement : Member(x, b) => Member(x, agenda[LOOP]) \/ x[1] \notin Outcome
    BY <1>9, <1>10 DEF Outcome
  <2> QED
    BY <1>2, <1>5, <1>8, <1>14, <2>1, LoopGoesOn DEF GInv
<1>16. ASSUME NEW t \in Task PROVE Dispatching(t)' <=> Dispatching(t)
  <2>1. ASSUME NEW name \in {"next", "dispatched"}, NEW some \in Seq(Task),
               Member(<<name, some>>, agenda'[LOOP]), Member(t, some)
        PROVE  Dispatching(t)
    <3>1. Member(<<name, some>>, agenda[LOOP]) \/ some = list
      BY <1>10, <2>1
    <3> QED
      BY <1>12, <2>1, <3>1 DEF Dispatching
  <2>2. ASSUME NEW name \in {"next", "dispatched"}, NEW some \in Seq(Task),
               Member(<<name, some>>, agenda[LOOP]), Member(t, some)
        PROVE  Dispatching(t)'
    <3>1. Member(<<name, some>>, agenda'[LOOP]) \/ some = list
      BY <1>10, <2>2
    <3> QED
      BY <1>12, <2>2, <3>1 DEF Dispatching
  <2> QED
    BY <2>1, <2>2 DEF Dispatching
<1>17. Slots'
  <2>1. \A t \in Task : \/ sched'[t] = sched[t]
                        \/ /\ sched[t] \notin {"in-flight", "completed", "failed"}
                           /\ sched'[t] # "in-flight"
    OBVIOUS
  <2> QED
    BY <1>11, <1>16, <2>1, QuietSlots DEF GInv
<1>18. \A h \in Thread : Vouched(h)'
  <2>1. ~ At(LOOP, "put")'
    BY <1>8, <1>9 DEF At
  <2> QED
    BY <1>9, <1>14, <2>1, LoopVouched DEF GInv, Rows
<1>19. ASSUME NEW t \in Task PROVE Told(t)'
  <2>1. Told(t)
    BY DEF GInv, Rows
  <2> QED
    BY <2>1 DEF Told, Final, Rises
<1>20. ASSUME failures' = 0, NEW t \in Task PROVE CatchesUp(t)'
  <2>1. Noticing'
    BY <1>12 DEF Noticing
  <2>2. CASE sched[t] = "queued" /\ sched'[t] = "rejected"
    <3>1. record[t] # "rejected"
      BY <2>2 DEF GInv, Rows, Told
    <3> QED
      BY <2>1, <2>2, <3>1 DEF CatchesUp
  <2>3. CASE sched'[t] = sched[t]
    <3>1. CatchesUp(t)
      BY <1>20 DEF GInv, Rows
    <3>2. Writing(t) => Writing(t)'
      BY <1>5, <1>11 DEF Writing
    <3>3. \A h \in Thread : Member(<<"put", t>>, agenda[h]) => Member(<<"put", t>>, agenda'[h])
      BY <1>9, <1>11 DEF Thread
    <3> QED
      BY <1>16, <2>1, <2>3, <3>1, <3>2, <3>3, KeptCatchesUp
  <2> QED
    BY <2>2, <2>3
<1> QED
  BY <1>13, <1>15, <1>17, <1>18, <1>19, <1>20 DEF GInv, Rows

\* A task has started: it is on the list and holds its slots.
LEMMA StartedGInv ==
    ASSUME GInv, At(LOOP, "next"), NEW t \in Task, sched[t] = "queued", sched'[t] = "in-flight",
           Continue(LOOP, <<<<"next", Append(Argument(LOOP), t)>>>> \o Rest(LOOP)), S!Dispatch,
           class' \in [Task -> Rank], \A u \in Task : class'[u] = class[u] \/ Rises(u),
           UNCHANGED <<revised, record, stored, running, seen, alive, awaited, phase, failures,
                       storedClass, seenClass>>
    PROVE  GInv'
<1> DEFINE list == Argument(LOOP)
           more == Append(list, t)
           p == <<<<"next", more>>>>
           b == p \o Rest(LOOP)
<1>1. LOOP \in Thread /\ Worker \subseteq Thread
  BY DEF Thread
<1>2. /\ agenda[LOOP] # <<>> /\ Head(agenda[LOOP])[1] = "next" /\ list = Head(agenda[LOOP])[2]
      /\ Continue(LOOP, b)
  BY DEF At, Argument
<1> HIDE DEF list
<1>3. /\ Rest(LOOP) \in Seq(Statement) /\ Paired(Rest(LOOP)) /\ Head(agenda[LOOP]) \in Statement
      /\ \A x : Member(x, agenda[LOOP]) <=> x = Head(agenda[LOOP]) \/ Member(x, Rest(LOOP))
      /\ Rest(LOOP) = <<>> \/ Rest(LOOP)[1][1] # "put"
  BY <1>1, <1>2, Popped DEF GInv
<1>4. list \in Seq(Task) /\ Head(agenda[LOOP]) = <<"next", list>>
  BY <1>2, <1>3, StatementFacts
<1>5. Head(agenda[LOOP])[1] \notin Outcome /\ phase = "open" /\ ~ At(LOOP, "put")
  BY <1>2, OnlyOpen DEF GInv, Outcome, At
<1>6. /\ more \in Seq(Task) /\ Member(t, more)
      /\ \A u \in Task \ {t} : Member(u, more) <=> Member(u, list)
  BY <1>4, ListFacts
<1> HIDE DEF more
<1>7. /\ p \in Seq(Statement) /\ p # <<>> /\ p[1] = <<"next", more>> /\ Paired(p)
      /\ \A x : Member(x, p) <=> x = <<"next", more>>
  <2> DEFINE n == <<"next", more>>
  <2>1. n \in Statement /\ n[1] = "next"
    BY <1>6, StatementFacts
  <2> HIDE DEF n
  <2>2. <<n>> \in Seq(Statement) /\ <<n>> # <<>> /\ <<n>>[1] = n
    BY <2>1
  <2>3. Paired(<<n>>)
    BY <2>1 DEF Paired, Field
  <2>4. \A x : Member(x, <<n>>) <=> x = n
    BY TupleMembers
  <2> QED
    BY <2>2, <2>3, <2>4 DEF n
<1> HIDE DEF p
<1>8. /\ b \in Seq(Statement) /\ Paired(b) /\ b # <<>> /\ Head(b) = <<"next", more>>
      /\ \A x : Member(x, b) <=> Member(x, p) \/ Member(x, Rest(LOOP))
  <2>1. \A x : Member(x, p) => x[1] # "leave"
    BY <1>7
  <2> QED
    BY <1>3, <1>7, <2>1, Pushed
<1> HIDE DEF b
<1>9. agenda' \in [Thread -> Seq(Statement)] /\ agenda'[LOOP] = b
      /\ \A h \in Worker : agenda'[h] = agenda[h]
  BY <1>1, <1>2, <1>8, Continued, GatewayAssumption DEF GInv
<1>10. \A x : /\ Member(x, agenda[LOOP]) => Member(x, agenda'[LOOP]) \/ x = <<"next", list>>
              /\ Member(x, agenda'[LOOP]) => Member(x, agenda[LOOP]) \/ x = <<"next", more>>
  BY <1>3, <1>4, <1>7, <1>8, <1>9
<1>11. \A x : x[1] # "next" => (Member(x, agenda'[LOOP]) <=> Member(x, agenda[LOOP]))
  BY <1>10
<1>12. Member(<<"next", list>>, agenda[LOOP]) /\ Member(<<"next", more>>, agenda'[LOOP])
  BY <1>3, <1>4, <1>7, <1>8, <1>9
<1>13. /\ sched' \in [Task -> S!Status] /\ held' \in [Task -> 0 .. Capacity]
       /\ held'[t] > 0 /\ S!Held(held') <= Capacity
       /\ \A u \in Task \ {t} :
            /\ held'[u] = held[u]
            /\ sched'[u] = sched[u] \/ (sched[u] = "queued" /\ sched'[u] = "rejected")
  <2>1. PICK dropped \in SUBSET {u \in Task : sched[u] = "queued"} :
          \/ /\ sched' = [u \in Task |-> IF u \in dropped THEN "rejected" ELSE sched[u]]
             /\ held' = held
          \/ \E v \in Task \ dropped, units \in 1 .. Capacity :
               /\ sched[v] = "queued"
               /\ sched' = [u \in Task |->
                     IF u = v THEN "in-flight"
                     ELSE IF u \in dropped THEN "rejected" ELSE sched[u]]
               /\ held' = [held EXCEPT ![v] = units]
               /\ S!Held(held') <= Capacity
    BY DEF S!Dispatch
  <2>2. PICK v \in Task \ dropped, units \in 1 .. Capacity :
          /\ sched' = [u \in Task |->
                IF u = v THEN "in-flight"
                ELSE IF u \in dropped THEN "rejected" ELSE sched[u]]
          /\ held' = [held EXCEPT ![v] = units]
          /\ S!Held(held') <= Capacity
    BY <2>1
  <2>3. v = t
    BY <2>1, <2>2
  <2>4. \A u \in Task : sched[u] \in S!Status
    BY DEF GInv, TypeOK
  <2>5. sched' \in [Task -> S!Status]
    BY <2>2, <2>4 DEF S!Status
  <2>6. held \in [Task -> 0 .. Capacity] /\ units \in 0 .. Capacity /\ units > 0
    BY <2>2, GatewayAssumption DEF GInv, TypeOK
  <2>7. /\ held' \in [Task -> 0 .. Capacity] /\ held'[t] = units
        /\ \A u \in Task \ {t} : held'[u] = held[u]
    BY <2>2, <2>3, <2>6
  <2>8. \A u \in Task \ {t} : sched'[u] = sched[u] \/ (sched[u] = "queued" /\ sched'[u] = "rejected")
    BY <2>1, <2>2, <2>3
  <2> QED
    BY <2>2, <2>5, <2>6, <2>7, <2>8
<1>14. /\ \A u \in Task : sched[u] = "cancelled" => sched'[u] = "cancelled"
       /\ \A u \in Task : sched[u] = "cancelled" => class'[u] = class[u]
  BY <1>13 DEF Rises
<1>15. TypeOK'
  BY <1>9, <1>13 DEF GInv, TypeOK
<1>16. Shapes'
  <2>1. \A x \in Statement : Member(x, b) => Member(x, agenda[LOOP]) \/ x[1] \notin Outcome
    BY <1>9, <1>10 DEF Outcome
  <2> QED
    BY <1>2, <1>5, <1>8, <1>14, <2>1, LoopGoesOn DEF GInv
<1>17. Dispatching(t)'
  BY <1>6, <1>12 DEF Dispatching
<1>18. ASSUME NEW u \in Task, u # t PROVE Dispatching(u)' <=> Dispatching(u)
  <2>1. ASSUME NEW name \in {"next", "dispatched"}, NEW some \in Seq(Task),
               Member(<<name, some>>, agenda'[LOOP]), Member(u, some)
        PROVE  Dispatching(u)
    <3>1. Member(<<name, some>>, agenda[LOOP]) \/ some = more
      BY <1>10, <2>1
    <3>2. some = more => Member(u, list)
      BY <1>6, <1>18, <2>1
    <3> QED
      BY <1>4, <1>12, <2>1, <3>1, <3>2 DEF Dispatching
  <2>2. ASSUME NEW name \in {"next", "dispatched"}, NEW some \in Seq(Task),
               Member(<<name, some>>, agenda[LOOP]), Member(u, some)
        PROVE  Dispatching(u)'
    <3>1. Member(<<name, some>>, agenda'[LOOP]) \/ some = list
      BY <1>10, <2>2
    <3>2. some = list => Member(u, more)
      BY <1>6, <1>18, <2>2
    <3> QED
      BY <1>6, <1>12, <2>2, <3>1, <3>2 DEF Dispatching
  <2> QED
    BY <2>1, <2>2 DEF Dispatching
<1>19. Slots'
  <2>1. ASSUME NEW u \in Task PROVE Paid(u)'
    <3>1. Paid(u)
      BY DEF GInv, Slots
    <3>2. \A name \in {"launch", "leave", "completed", "failed"} :
            Member(<<name, u>>, agenda'[LOOP]) <=> Member(<<name, u>>, agenda[LOOP])
      BY <1>11
    <3>3. \A outcome \in Outcome : ~ Member(<<outcome, u>>, agenda[LOOP])
      BY <1>5, NoOutcome DEF GInv
    <3>4. CASE u = t
      <4>1. ~ Member(<<"leave", u>>, agenda[LOOP])
        BY <3>1, <3>3, <3>4 DEF Paid, Outcome
      <4>2. Busy(u)'
        BY <1>13, <3>4 DEF Busy
      <4> QED
        BY <1>17, <3>2, <3>4, <4>1, <4>2 DEF Paid, Busy
    <3>5. CASE u # t
      <4>1. Busy(u)' <=> Busy(u)
        BY <1>13, <3>5 DEF Busy
      <4>2. /\ held'[u] = held[u]
            /\ sched'[u] = sched[u] \/ (sched[u] = "queued" /\ sched'[u] = "rejected")
        BY <1>13, <3>5
      <4> QED
        BY <1>18, <3>1, <3>2, <3>5, <4>1, <4>2 DEF Paid, Outcome
    <3> QED
      BY <3>4, <3>5
  <2> QED
    BY <1>13, <2>1 DEF Slots
<1>20. \A h \in Thread : Vouched(h)'
  <2>1. ~ At(LOOP, "put")'
    BY <1>8, <1>9 DEF At
  <2> QED
    BY <1>9, <1>14, <2>1, LoopVouched DEF GInv, Rows
<1>21. ASSUME NEW u \in Task PROVE Told(u)'
  <2>1. Told(u)
    BY DEF GInv, Rows
  <2>2. CASE u = t
    BY <2>1, <2>2 DEF Told, Final
  <2>3. CASE u # t
    BY <1>13, <2>1, <2>3 DEF Told, Final, Rises
  <2> QED
    BY <2>2, <2>3
<1>22. ASSUME failures' = 0, NEW u \in Task PROVE CatchesUp(u)'
  <2>1. Noticing'
    BY <1>6, <1>12 DEF Noticing
  <2>2. CASE u = t
    BY <1>17, <2>2 DEF CatchesUp
  <2>3. CASE u # t /\ sched[u] = "queued" /\ sched'[u] = "rejected"
    <3>1. record[u] # "rejected"
      BY <2>3 DEF GInv, Rows, Told
    <3> QED
      BY <2>1, <2>3, <3>1 DEF CatchesUp
  <2>4. CASE u # t /\ sched'[u] = sched[u]
    <3>1. CatchesUp(u)
      BY <1>22 DEF GInv, Rows
    <3>2. Writing(u) => Writing(u)'
      BY <1>5, <1>11 DEF Writing
    <3>3. \A h \in Thread : Member(<<"put", u>>, agenda[h]) => Member(<<"put", u>>, agenda'[h])
      BY <1>9, <1>11 DEF Thread
    <3> QED
      BY <1>18, <2>1, <2>4, <3>1, <3>2, <3>3, KeptCatchesUp
  <2> QED
    BY <1>13, <2>2, <2>3, <2>4
<1> QED
  BY <1>15, <1>16, <1>19, <1>20, <1>21, <1>22 DEF GInv, Rows

LEMMA NextTaskGInv == GInv /\ NextTask => GInv'
<1> SUFFICES ASSUME GInv, NextTask PROVE GInv'
  OBVIOUS
<1>1. /\ At(LOOP, "next")
      /\ UNCHANGED <<revised, record, stored, running, seen, alive, awaited, phase, failures,
                     storedClass, seenClass>>
      /\ class' \in Escalated \/ class' = class
  BY DEF NextTask
<1>5. class' \in [Task -> Rank] /\ \A u \in Task : class'[u] = class[u] \/ Rises(u)
  <2>1. class \in [Task -> Rank] /\ storedClass \in [Task -> Rank]
    BY DEF GInv, TypeOK
  <2>2. CASE class' = class
    BY <2>1, <2>2
  <2>3. CASE class' \in Escalated
    BY <2>1, <2>3 DEF Escalated, Rises
  <2> QED
    BY <1>1, <2>2, <2>3
<1> DEFINE Turn == Continue(LOOP, <<<<"rejections", <<>>>>, <<"dispatched", Argument(LOOP)>>>> \o Rest(LOOP))
<1>2. CASE S!Held(held) < Capacity /\ S!Dispatch
           /\ \E t \in Task :
                 /\ sched[t] = "queued" /\ sched'[t] = "in-flight"
                 /\ Continue(LOOP, <<<<"next", Append(Argument(LOOP), t)>>>> \o Rest(LOOP))
  BY <1>1, <1>2, <1>5, StartedGInv
<1>3. CASE S!Held(held) < Capacity /\ S!Dispatch /\ held' = held /\ Turn
  <2>1. PICK dropped \in SUBSET {u \in Task : sched[u] = "queued"} :
          \/ sched' = [u \in Task |-> IF u \in dropped THEN "rejected" ELSE sched[u]]
          \/ \E v \in Task \ dropped, units \in 1 .. Capacity :
               sched[v] = "queued" /\ held' = [held EXCEPT ![v] = units]
    BY <1>3 DEF S!Dispatch
  <2>2. ~ \E v \in Task \ dropped, units \in 1 .. Capacity :
            sched[v] = "queued" /\ held' = [held EXCEPT ![v] = units]
    <3>1. SUFFICES ASSUME NEW v \in Task, NEW units \in 1 .. Capacity,
                          sched[v] = "queued", held' = [held EXCEPT ![v] = units]
                   PROVE  FALSE
      OBVIOUS
    <3>2. held[v] = 0
      BY <3>1 DEF GInv, Slots, Paid
    <3>3. held'[v] = units
      BY <3>1 DEF GInv, TypeOK
    <3>4. units # 0
      BY GatewayAssumption
    <3> QED
      BY <1>3, <3>2, <3>3, <3>4
  <2>3. sched' = [u \in Task |-> IF u \in dropped THEN "rejected" ELSE sched[u]]
    BY <2>1, <2>2
  <2>4. /\ sched' \in [Task -> S!Status]
        /\ \A u \in Task : sched'[u] = sched[u] \/ (sched[u] = "queued" /\ sched'[u] = "rejected")
    <3>1. \A u \in Task : sched[u] \in S!Status
      BY DEF GInv, TypeOK
    <3> QED
      BY <2>3, <3>1 DEF S!Status
  <2> QED
    BY <1>1, <1>3, <1>5, <2>4, NothingMoreGInv
<1>4. CASE S!Held(held) >= Capacity /\ Turn /\ UNCHANGED <<sched, held>>
  <2>1. sched' \in [Task -> S!Status]
    BY <1>4 DEF GInv, TypeOK
  <2> QED
    BY <1>1, <1>4, <1>5, <2>1, NothingMoreGInv
<1> QED
  BY <1>2, <1>3, <1>4 DEF NextTask

-----------------------------------------------------------------------------
(* The invariant and what it implies *)

LEMMA GInvInit == Init => GInv
<1> SUFFICES ASSUME Init PROVE GInv
  OBVIOUS
<1>1. /\ sched = [t \in Task |-> "new"] /\ held = [t \in Task |-> 0]
      /\ record = [t \in Task |-> "none"] /\ stored = [t \in Task |-> "none"]
      /\ running = {} /\ agenda = [h \in Thread |-> <<>>] /\ phase = "open"
      /\ class = [t \in Task |-> 0] /\ storedClass = [t \in Task |-> 0]
  BY DEF Init, S!Init
<1>2. LOOP \in Thread /\ Worker \subseteq Thread
  BY DEF Thread
<1>3. \A h \in Thread : agenda[h] = <<>> /\ Paired(agenda[h]) /\ (\A x : ~ Member(x, agenda[h])) /\ ~ At(h, "put")
  BY <1>1, TupleMembers DEF Paired, At
<1>4. TypeOK
  <2>1. agenda \in [Thread -> Seq(Statement)]
    BY <1>1, TupleSeq
  <2>2. held \in [Task -> 0 .. Capacity] /\ failures \in 0 .. StoreFailures
    BY <1>1, GatewayAssumption DEF Init
  <2>3. 0 \in Rank
    BY GatewayAssumption DEF Rank
  <2> QED
    BY <1>1, <2>1, <2>2, <2>3 DEF Init, TypeOK, S!Status, TaskStatus
<1>5. Shapes
  BY <1>1, <1>2, <1>3 DEF Shapes, Idle
<1>6. Slots
  <2>1. Occupied(held) = {}
    <3>1. \A t \in Task : 1 .. held[t] = {}
      BY <1>1
    <3> QED
      BY <3>1 DEF Occupied
  <2>2. S!Held(held) <= Capacity
    BY <2>1, HeldIsCount, FS_EmptySet, GatewayAssumption
  <2>3. ASSUME NEW t \in Task PROVE Paid(t)
    BY <1>1, <1>2, <1>3 DEF Paid, Dispatching
  <2> QED
    BY <2>2, <2>3 DEF Slots
<1>7. Rows
  <2>1. \A h \in Thread : Vouched(h)
    BY <1>3 DEF Vouched
  <2>2. \A t \in Task : Told(t) /\ CatchesUp(t)
    BY <1>1 DEF Told, CatchesUp, Reported, Final, RowClass
  <2> QED
    BY <2>1, <2>2 DEF Rows
<1> QED
  BY <1>4, <1>5, <1>6, <1>7 DEF GInv

LEMMA EventsGInv == GInv /\ Events => GInv'
<1> SUFFICES ASSUME GInv, Events PROVE GInv'
  OBVIOUS
<1>1. CASE Wake
  BY <1>1, WakeGInv
<1>2. CASE Close
  BY <1>2, CloseGInv
<1>3. CASE CloseStore
  BY <1>3, CloseStoreGInv
<1>4. ASSUME NEW t \in Task, Submit(t) PROVE GInv'
  BY <1>4, SubmitGInv
<1>5. ASSUME NEW t \in Task, Nudge(t) \/ UpdateDeadline(t) PROVE GInv'
  BY <1>5, ChangeGInv DEF Nudge, UpdateDeadline, Field
<1>6. ASSUME NEW t \in Task, ExecutionEnds(t) PROVE GInv'
  BY <1>6, ExecutionEndsGInv
<1>7. ASSUME NEW h \in Worker, NEW t \in Task, Cancel(h, t) PROVE GInv'
  BY <1>7, CancelGInv
<1> QED
  BY <1>1, <1>2, <1>3, <1>4, <1>5, <1>6, <1>7 DEF Events

LEMMA StatementsGInv == GInv /\ Statements => GInv'
<1> SUFFICES ASSUME GInv, Statements PROVE GInv'
  OBVIOUS
<1>1. CASE NextTask \/ Rejections \/ Dispatched
  BY <1>1, NextTaskGInv, RejectionsGInv, DispatchedGInv
<1>2. CASE Launch \/ Leave \/ Doze
  BY <1>2, LaunchGInv, LeaveGInv, DozeGInv
<1>3. CASE Finish("completed") \/ Finish("failed")
  BY <1>3, FinishGInv DEF Outcome
<1>4. ASSUME NEW field \in Field, Revise(field) PROVE GInv'
  BY <1>4, ReviseGInv
<1>5. ASSUME NEW h \in Thread, Snapshot(h) \/ Put(h) PROVE GInv'
  BY <1>5, SnapshotGInv, PutGInv
<1> QED
  BY <1>1, <1>2, <1>3, <1>4, <1>5 DEF Statements

LEMMA NextGInv == GInv /\ [Next]_vars => GInv'
<1> SUFFICES ASSUME GInv, [Next]_vars PROVE GInv'
  OBVIOUS
<1>1. CASE UNCHANGED vars
  <2>1. /\ UNCHANGED <<sched, held, revised, record, stored, running, agenda, seen, alive, failures,
                       class, storedClass, seenClass>>
        /\ awaited' = awaited /\ phase' = phase
    BY <1>1 DEF vars
  <2>2. Shapes'
    BY <2>1 DEF GInv, Shapes, Idle
  <2> QED
    BY <2>1, <2>2, ThreadsAlone DEF GInv, TypeOK
<1>2. ASSUME NEW h \in Thread, PutRaises(h) PROVE GInv'
  BY <1>2, PutRaisesGInv
<1> QED
  BY <1>1, <1>2, EventsGInv, StatementsGInv DEF Next, Ended

\* The books of the gateway are kept in every reachable state.
THEOREM GatewayInvariant == Spec => []GInv
<1> QED
  BY GInvInit, NextGInv, PTL DEF Spec

\* Statuses, slots, stretches of statements and rows stay in their domains
\* (gateway.py: _records, _running; store.py: the status column).
THEOREM GatewayTypes == Spec => []TypeOK
<1>1. GInv => TypeOK
  BY DEF GInv
<1> QED
  BY <1>1, GatewayInvariant, PTL

\* An execution holds slots until its end begins, and all executions together
\* stay within the capacity, whatever is cancelled or changed meanwhile
\* (gateway.py: tick, cancel, _execute).
THEOREM CoverTheorem == Spec => []SlotsCoverCalls
<1>1. GInv => SlotsCoverCalls
  BY DEF GInv, Slots, Paid, Busy, SlotsCoverCalls, Pending, Member, TypeOK
<1> QED
  BY <1>1, GatewayInvariant, PTL

\* Between scheduler and event loop no started task is lost while the store
\* works: its coroutine exists or the loop is about to create it
\* (gateway.py: tick).
THEOREM StartedTheorem == Spec => []StartedHasExecution
<1>1. ASSUME GInv PROVE StartedHasExecution
  <2>1. SUFFICES ASSUME failures = 0, NEW t \in Task, sched[t] = "in-flight"
                 PROVE  \/ t \in running
                        \/ Pending(LOOP, <<"launch", t>>)
                        \/ \E i \in 1 .. Len(agenda[LOOP]) :
                              /\ agenda[LOOP][i][1] \in {"next", "dispatched"}
                              /\ \E k \in 1 .. Len(agenda[LOOP][i][2]) : agenda[LOOP][i][2][k] = t
    BY DEF StartedHasExecution
  <2>2. t \in running \/ Member(<<"launch", t>>, agenda[LOOP]) \/ Dispatching(t)
    BY <1>1, <2>1 DEF GInv, Slots, Paid
  <2>3. CASE Dispatching(t)
    <3>1. PICK name \in {"next", "dispatched"}, list \in Seq(Task) :
            Member(<<name, list>>, agenda[LOOP]) /\ Member(t, list)
      BY <2>3 DEF Dispatching
    <3>2. PICK i \in 1 .. Len(agenda[LOOP]) : agenda[LOOP][i] = <<name, list>>
      BY <3>1 DEF Member
    <3>3. agenda[LOOP][i][1] = name /\ agenda[LOOP][i][2] = list
      BY <3>2
    <3> QED
      BY <3>1, <3>3 DEF Member
  <2> QED
    BY <2>2, <2>3 DEF Pending, Member
<1> QED
  BY <1>1, GatewayInvariant, PTL

\* With every thread at rest and a store that works a row has the status and
\* the class GET has, but for a cancellation overtaken by another write and a
\* promotion of work that still waits (gateway.py: _persist, get; scheduler.py:
\* escalate).
THEOREM CatchUpTheorem == Spec => []RowsCatchUp
<1>1. ASSUME GInv PROVE RowsCatchUp
  <2>1. SUFFICES ASSUME failures = 0, \A h \in Thread : Idle(h), NEW t \in Task
                 PROVE  \/ stored[t] = Reported(t) /\ storedClass[t] = class[t]
                        \/ stored[t] = "queued" /\ Reported(t) = "cancelled"
                        \/ stored[t] = "queued" /\ Reported(t) = "queued" /\ class[t] < storedClass[t]
    BY DEF RowsCatchUp
  <2>2. CatchesUp(t) /\ Told(t)
    BY <1>1, <2>1 DEF GInv, Rows
  <2>3. \A h \in Thread : (\A x : ~ Member(x, agenda[h])) /\ ~ At(h, "put")
    BY <2>1, TupleMembers DEF Idle, At
  <2>4. LOOP \in Thread
    BY DEF Thread
  <2>5. ~ Writing(t) /\ ~ Dispatching(t) /\ ~ Noticing
    BY <2>3, <2>4 DEF Writing, Dispatching, Noticing
  <2>6. CASE sched[t] = "cancelled"
    <3>1. Reported(t) = "cancelled" /\ stored[t] \in {"queued", "cancelled"}
      BY <2>2, <2>3, <2>6 DEF CatchesUp, Reported
    <3> QED
      BY <2>2, <3>1 DEF Told, Final
  <2>7. CASE sched[t] # "cancelled"
    <3>1. stored[t] = Reported(t) /\ RowClass(t)
      BY <2>2, <2>5, <2>7 DEF CatchesUp
    <3>2. sched[t] = "queued" => Reported(t) = "queued"
      BY DEF Reported
    <3> QED
      BY <3>1, <3>2 DEF RowClass
  <2> QED
    BY <2>6, <2>7
<1> QED
  BY <1>1, GatewayInvariant, PTL

\* A row never tells of an end that did not come about, whatever writes raise
\* (gateway.py: _persist, _execute).
THEOREM HonestTheorem == Spec => []HonestRows
<1>1. GInv => HonestRows
  BY DEF GInv, Rows, Told, Final, HonestRows
<1> QED
  BY <1>1, GatewayInvariant, PTL

\* Nothing is left that would write to the closed store (gateway.py: close).
THEOREM CloseTheorem == Spec => []QuietAfterClose
<1>1. GInv => QuietAfterClose
  BY DEF GInv, Shapes, QuietAfterClose, Thread
<1> QED
  BY <1>1, GatewayInvariant, PTL
=============================================================================
