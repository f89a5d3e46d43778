--------------------------- MODULE MetricsProofs ---------------------------
(***************************************************************************)
(* Proofs about Metrics, for any number of goroutines, any limit and any   *)
(* bounds of the buckets: the types, the gauge of the deliveries, what the *)
(* histograms hold, and what one scrape shows of runs that move on while   *)
(* it loads one counter after the other.                                   *)
(***************************************************************************)
EXTENDS Metrics, SumProofs

-----------------------------------------------------------------------------
(* The invariant.                                                          *)

\* The one counter that goes down.
gauge == <<"inflight", 0>>

\* A goroutine: where it stands, its additions to come, its retries.
Goroutine == [pc : {"idle", "reread", "execute", "return"},
              todo : Seq(Counter \X Int), tries : Nat]

\* An addition that never takes a counter down, to any counter but the gauge.
Plus(add) == add[1] # gauge /\ add[2] \in Nat

\* The types, but for the sign of the gauge.
Types ==
  /\ value \in [Counter -> Int]
  /\ \A c \in Counter \ {gauge} : value[c] \in Nat
  /\ worker \in [Worker -> Goroutine]
  /\ sem \subseteq Worker
  /\ scrape # None => scrape.left \in Seq(Counter) /\ scrape.read \in [Counter -> Nat]
  /\ runs \in 0..MaxStarts
  /\ noted \in [Histogram -> [Value -> Nat]]

\* What a goroutine has still to add: the gauge goes up first and down last.
Todo(r) ==
  LET n == Len(r.todo) IN
    /\ r.pc = "idle" => r.todo = << >>
    /\ r.pc = "reread" => r.todo = << >> \/ r.todo = InflightAdd(1)
    /\ r.pc = "execute" => \A i \in 1..n : Plus(r.todo[i])
    /\ r.pc = "return" /\ r.todo # << >> =>
         r.todo[n] = <<gauge, -1>> /\ \A i \in 1..(n - 1) : Plus(r.todo[i])

\* What every goroutine has still to add.
Todos == \A w \in Worker : Todo(worker[w])

\* A slot is held exactly while a run lasts.
SlotsHeld == /\ sem = {w \in Worker : worker[w].pc # "idle"}
             /\ IsFiniteSet(sem) /\ Cardinality(sem) <= MaxConcurrent

\* A goroutine that has taken the gauge up and not down.
Shown(r) == \/ r.pc = "reread" /\ r.todo = << >>
            \/ r.pc = "execute"
            \/ r.pc = "return" /\ r.todo # << >>

\* The gauge is their number.
GaugeExact == value[gauge] = Cardinality({w \in Worker : Shown(worker[w])})

\* The invariant of the types and of the gauge.
IInv == Types /\ Todos /\ SlotsHeld /\ GaugeExact

\* The counters of the skipped tasks, of the requests and of the finished tasks.
skipped == <<"tasksSkipped", 0>>
delivered == {<<"deliveriesOK", 0>>, <<"deliveriesFail", 0>>}
finished == {<<"tasksSucceeded", 0>>, <<"tasksFailed", 0>>}

\* The order in which a run moves the counters.
Stage == << delivered, Histogram \X Bucket, Histogram \X {sumNs},
            Histogram \X {count} \cup {skipped}, finished, {gauge} >>

\* What is to come are the last of these stages, one addition each.
Staged(r) ==
  LET q == r.todo
      n == Len(q)
      e == IF r.pc = "execute" THEN 4 ELSE 6 IN
    /\ n <= e
    /\ \A i \in 1..n : /\ q[i][1] \in Stage[e - n + i]
                       /\ q[i][1] \in Histogram \X {sumNs} \/ q[i][1] = gauge \/ q[i][2] = 1
                       /\ q[i][1] = skipped => i = 1 /\ r.pc = "return"

\* What a goroutine has still to add to the counters in C.
Due(q, C) == IF \E i \in 1..Len(q) : q[i][1] \in C
               THEN q[CHOOSE i \in 1..Len(q) : q[i][1] \in C][2] ELSE 0

\* What the counters in C come to, what is still to be added included.
Total(C) == SumFunctionOnSet(value, C)
              + SumFunctionOnSet([w \in sem |-> Due(worker[w].todo, C)], sem)

\* An observation is in its histogram as soon as it is noted.
Observed ==
  /\ \A h \in Histogram :
       /\ \A i \in Bucket : Total({h} \X (1..i)) = SumFunctionOnSet(noted[h], UpTo(i))
       /\ Total({<<h, sumNs>>}) = SumFunction([v \in Value |-> noted[h][v] * Max0(v)])
       /\ Total({<<h, count>>}) = SumFunctionOnSet(noted[h], Value)
  /\ Total(delivered) = SumFunctionOnSet(noted["deliveryDuration"], Value)

\* The observation in h that a goroutine has made, or has still to make, for a
\* task that is not finished.
Unfinished(r, h, X) ==
  IF r.pc # "execute" THEN 0 ELSE IF h = "lateness" THEN 1 ELSE Due(r.todo, X)

\* Every task that is finished and not skipped has its observation.
Accounted ==
  \A h \in Histogram : \A X \in {{h} \X Bucket, {<<h, count>>}} :
    Total(finished) + SumFunctionOnSet([w \in sem |-> Unfinished(worker[w], h, X)], sem)
      <= Total({skipped}) + Total(X)

\* Counters that run ahead of others, and by how much at most.
Order ==
  (UNION {{<<finished, {skipped} \cup {h} \X Bucket, 0>>,
           <<finished, {skipped, <<h, count>>}, 0>>,
           <<{h} \X Bucket, {<<h, count>>}, MaxConcurrent>>} : h \in Histogram})
    \cup {<<delivered, {<<"deliveryDuration", count>>}, MaxConcurrent>>}

\* The counters f are in that order.
Ordered(f) ==
  \A o \in Order : SumFunctionOnSet(f, o[1]) <= SumFunctionOnSet(f, o[2]) + o[3]

\* A counter that a scrape has still to load, and the scrape as it would be if
\* it loaded the rest at once.
Unread(c) == \E j \in 1..Len(scrape.left) : scrape.left[j] = c
Mix == [c \in Counter |-> IF Unread(c) THEN value[c] ELSE scrape.read[c]]

\* A scrape has loaded a first part of what it renders, no more than is there
\* now, and is in order together with what it has still to load.
Scraped ==
  scrape # None =>
    /\ Len(scrape.left) <= Len(Rendered)
    /\ \A j \in 1..Len(scrape.left) :
         scrape.left[j] = Rendered[Len(Rendered) - Len(scrape.left) + j]
    /\ \A c \in Counter \ {gauge} : scrape.read[c] <= value[c]
    /\ Ordered(Mix)

\* The counters and what is owed to them agree with what was observed.
Exact == (\A w \in Worker : Staged(worker[w])) /\ Observed /\ Accounted

\* The invariant of the histograms and of the scrapes.
JInv == IInv /\ Exact /\ Scraped

-----------------------------------------------------------------------------
(* The observations.                                                       *)

\* The names of the counters.
LEMMA Counters ==
  /\ \A name \in {"deliveriesOK", "deliveriesFail", "tasksSucceeded", "tasksFailed",
                  "tasksSkipped", "tasksReplayed", "inflight"} : <<name, 0>> \in Counter
  /\ Histogram \X (1..count) \subseteq Counter
<1> DEFINE S == {<<Plain[i], 0>> : i \in 1..Len(Plain)}
<1>1. /\ Len(Plain) = 7 /\ Plain[1] = "deliveriesOK" /\ Plain[2] = "deliveriesFail"
      /\ Plain[3] = "tasksSucceeded" /\ Plain[4] = "tasksFailed" /\ Plain[5] = "tasksSkipped"
      /\ Plain[6] = "tasksReplayed" /\ Plain[7] = "inflight"
  BY DEF Plain
<1>2. ASSUME NEW i \in 1..7 PROVE <<Plain[i], 0>> \in S
  BY <1>1
<1>3. Counter = S \cup Histogram \X (1..count)
  BY DEF Counter
<1> HIDE DEF S
<1> QED
  BY <1>1, <1>2, <1>3

\* sort.SearchFloat64s finds a bucket, the first whose bound is not below, and
\* the last if there is none.
LEMMA SearchFinds ==
  ASSUME NEW d \in Int
  PROVE  /\ Search(d) \in Bucket
         /\ Search(d) <= Len(upper) => upper[Search(d)] >= d
         /\ \A j \in 1..(Search(d) - 1) : upper[j] < d
<1> DEFINE n == Len(upper)
           T == {i \in Bucket : i <= n => upper[i] >= d}
           R == OpToRel(<, Nat)
<1>1. n \in Nat /\ \A i \in 1..n : upper[i] \in Nat
  BY MetricsAssumption
<1>2. T \subseteq Nat /\ n + 1 \in T
  BY <1>1 DEF Bucket
<1>3. \A x, y \in Nat : y < x => <<y, x>> \in R
  BY DEF OpToRel
<1>4. IsWellFoundedOn(R, Nat)
  BY NatLessThanWellFounded
<1> HIDE DEF R
<1>5. \E x \in T : \A y \in T : ~(<<y, x>> \in R)
  <2>1. T # {}
    BY <1>2
  <2> HIDE DEF T
  <2> QED
    BY <1>2, <1>4, <2>1, WFMin
<1>6. PICK x \in T : \A y \in T : ~(<<y, x>> \in R)
  BY <1>5
<1>7. ASSUME NEW j \in 1..(x - 1) PROVE upper[j] < d
  <2>1. x \in 1..(n + 1) /\ j \in Bucket /\ j \in Nat /\ x \in Nat /\ j < x /\ j \in 1..n
    BY <1>1, <1>6 DEF Bucket
  <2>2. j \notin T
    BY <1>3, <1>6, <2>1
  <2> QED
    BY <1>1, <2>1, <2>2
<1>8. \E i \in Bucket : /\ i <= Len(upper) => upper[i] >= d
                        /\ \A j \in 1..(i - 1) : upper[j] < d
  BY <1>6, <1>7
<1> QED
  BY <1>8 DEF Search

\* What a goroutine may have to add that is no step of the gauge.
Adds == {s \in Seq(Counter \X Int) : \A i \in 1..Len(s) : Plus(s[i])}

\* The observations are such additions.
LEMMA Observations ==
  /\ \A name \in {"deliveriesOK", "deliveriesFail", "tasksSucceeded", "tasksFailed",
                  "tasksSkipped", "tasksReplayed"} : Inc(name) \in Adds
  /\ \A h \in Histogram, d \in Int : observe(h, d) \in Adds
<1>1. ASSUME NEW c \in Counter, c # gauge, NEW k \in Nat
      PROVE  <<c, k>> \in Counter \X Int /\ Plus(<<c, k>>)
  BY <1>1 DEF Plus
<1>2. ASSUME NEW name \in {"deliveriesOK", "deliveriesFail", "tasksSucceeded", "tasksFailed",
                           "tasksSkipped", "tasksReplayed"}
      PROVE  Inc(name) \in Adds
  <2>1. <<name, 0>> \in Counter /\ <<name, 0>> # gauge
    BY Counters DEF gauge
  <2> DEFINE a == <<<<name, 0>>, 1>>
  <2>2. a \in Counter \X Int /\ Plus(a)
    BY <1>1, <2>1
  <2>3. Inc(name) = <<a>>
    BY DEF Inc
  <2> HIDE DEF a
  <2> QED
    BY <2>2, <2>3 DEF Adds
<1>3. ASSUME NEW h \in Histogram, NEW d \in Int PROVE observe(h, d) \in Adds
  <2>1. Len(upper) \in Nat
    BY MetricsAssumption
  <2>2. Search(d) \in 1..count /\ sumNs \in 1..count /\ count \in 1..count
    <3>1. Search(d) \in 1..(Len(upper) + 1)
      BY SearchFinds DEF Bucket
    <3> QED
      BY <2>1, <3>1 DEF sumNs, count
  <2>3. ASSUME NEW i \in 1..count PROVE <<h, i>> \in Counter /\ <<h, i>> # gauge
    BY <2>1, Counters DEF gauge, count
  <2>4. Max0(d) \in Nat
    BY DEF Max0
  <2> DEFINE a == <<<<h, Search(d)>>, 1>>
             b == <<<<h, sumNs>>, Max0(d)>>
             c == <<<<h, count>>, 1>>
  <2>5. a \in Counter \X Int /\ Plus(a)
    BY <1>1, <2>2, <2>3
  <2>6. b \in Counter \X Int /\ Plus(b)
    BY <1>1, <2>2, <2>3, <2>4
  <2>7. c \in Counter \X Int /\ Plus(c)
    BY <1>1, <2>2, <2>3
  <2>8. observe(h, d) = <<a, b, c>>
    BY DEF observe
  <2> HIDE DEF a, b, c
  <2> QED
    BY <2>5, <2>6, <2>7, <2>8 DEF Adds
<1> QED
  BY <1>2, <1>3

\* One observation after another, and the gauge taken down at the end.
LEMMA Concatenated ==
  ASSUME NEW s \in Adds, NEW t \in Adds
  PROVE  /\ s \o t \in Adds
         /\ LET u == s \o InflightAdd(-1) IN
              /\ u \in Seq(Counter \X Int) /\ u # << >>
              /\ u[Len(u)] = <<gauge, -1>> /\ \A i \in 1..(Len(u) - 1) : Plus(u[i])
<1>1. s \in Seq(Counter \X Int) /\ t \in Seq(Counter \X Int)
  BY DEF Adds
<1>2. s \o t \in Adds
  <2> DEFINE u == s \o t
  <2>1. u \in Seq(Counter \X Int) /\ Len(u) = Len(s) + Len(t)
    BY <1>1
  <2>2. ASSUME NEW i \in 1..Len(u) PROVE Plus(u[i])
    <3>1. CASE i <= Len(s)
      BY <1>1, <2>1, <3>1 DEF Adds
    <3>2. CASE i > Len(s)
      BY <1>1, <2>1, <3>2 DEF Adds
    <3> QED
      BY <1>1, <2>1, <3>1, <3>2
  <2> QED
    BY <2>1, <2>2 DEF Adds
<1> DEFINE a == <<gauge, -1>>
           u == s \o InflightAdd(-1)
<1>3. a \in Counter \X Int
  BY Counters DEF gauge
<1>4. InflightAdd(-1) = <<a>>
  BY DEF InflightAdd, gauge
<1> HIDE DEF a
<1>5. /\ u \in Seq(Counter \X Int) /\ Len(u) = Len(s) + 1 /\ u[Len(s) + 1] = a
      /\ \A i \in 1..Len(s) : u[i] = s[i]
  <2> DEFINE S == Counter \X Int
  <2>1. s \in Seq(S) /\ a \in S
    BY <1>1, <1>3
  <2> HIDE DEF S
  <2>2. u = s \o <<a>>
    BY <1>4
  <2>3. <<a>> \in Seq(S) /\ Len(<<a>>) = 1 /\ <<a>>[1] = a
    BY <2>1
  <2> HIDE DEF u
  <2>4. u \in Seq(S) /\ Len(u) = Len(s) + 1
    BY <2>1, <2>2, <2>3
  <2>5. u[Len(s) + 1] = a /\ \A i \in 1..Len(s) : u[i] = s[i]
    BY <2>1, <2>2, <2>3
  <2> QED
    BY <2>4, <2>5 DEF S
<1>6. Len(s) \in Nat /\ \A i \in 1..Len(s) : Plus(s[i])
  BY <1>1 DEF Adds
<1> HIDE DEF u
<1>7. /\ u \in Seq(Counter \X Int) /\ u # << >>
      /\ u[Len(u)] = a /\ \A i \in 1..(Len(u) - 1) : Plus(u[i])
  BY <1>5, <1>6
<1> QED
  BY <1>2, <1>7 DEF u, a

-----------------------------------------------------------------------------
(* The steps.                                                              *)

\* What a goroutine holds is a position, additions and a number of retries.
LEMMA GoroutineFields ==
  ASSUME NEW pc \in {"idle", "reread", "execute", "return"}, NEW todo \in Seq(Counter \X Int),
         NEW tries \in Nat
  PROVE  LET r == [pc |-> pc, todo |-> todo, tries |-> tries] IN
           r \in Goroutine /\ r.pc = pc /\ r.todo = todo /\ r.tries = tries
BY DEF Goroutine

\* A goroutine goes on to a position that shows in the gauge as the last did.
LEMMA GotoKeeps ==
  ASSUME IInv, NEW w \in Worker, NEW r \in Goroutine, worker' = [worker EXCEPT ![w] = r],
         Todo(r), Shown(r) <=> Shown(worker[w]), value'[gauge] = value[gauge]
  PROVE  /\ worker' \in [Worker -> Goroutine] /\ Todos' /\ GaugeExact'
         /\ worker'[w] = r /\ \A v \in Worker \ {w} : worker'[v] = worker[v]
<1>1. worker' \in [Worker -> Goroutine] /\ worker'[w] = r
      /\ \A v \in Worker \ {w} : worker'[v] = worker[v]
  BY DEF IInv, Types
<1>2. Todos'
  BY <1>1 DEF IInv, Todos
<1>3. \A v \in Worker : Shown(worker'[v]) <=> Shown(worker[v])
  BY <1>1
<1>4. {v \in Worker : Shown(worker'[v])} = {v \in Worker : Shown(worker[v])}
  BY <1>3
<1>5. GaugeExact'
  BY <1>4 DEF IInv, GaugeExact, gauge
<1> QED
  BY <1>1, <1>2, <1>5

\* The set of the goroutines that show is finite and within the semaphore.
LEMMA ShownHoldSlots ==
  ASSUME IInv
  PROVE  LET S == {w \in Worker : Shown(worker[w])} IN
           /\ S \subseteq sem /\ IsFiniteSet(S)
           /\ Cardinality(S) \in 0..Cardinality(sem) /\ value[gauge] = Cardinality(S)
           /\ Cardinality(sem) \in Nat
<1> DEFINE S == {w \in Worker : Shown(worker[w])}
<1>1. S \subseteq sem
  BY DEF IInv, SlotsHeld, Shown
<1>2. IsFiniteSet(sem) /\ value[gauge] = Cardinality(S)
  BY DEF IInv, SlotsHeld, GaugeExact
<1> HIDE DEF S
<1>3. IsFiniteSet(S) /\ Cardinality(S) <= Cardinality(sem)
  BY <1>1, <1>2, FS_Subset
<1>4. Cardinality(S) \in Nat /\ Cardinality(sem) \in Nat
  BY <1>2, <1>3, FS_CardinalityType
<1> QED
  BY <1>1, <1>2, <1>3, <1>4 DEF S

\* So every counter is a natural number, the gauge among them.
LEMMA ValuesNatural ==
  ASSUME IInv
  PROVE  value \in [Counter -> Nat] /\ gauge \in Counter
<1>1. value[gauge] \in Nat
  BY ShownHoldSlots
<1>2. gauge \in Counter
  BY Counters DEF gauge
<1> QED
  BY <1>1, <1>2 DEF IInv, Types

\* Positions of a run, none of which is outside it, keep the slots as they are.
LEMMA SlotsStay ==
  ASSUME IInv, NEW w \in Worker, worker[w].pc # "idle", worker'[w].pc # "idle",
         \A v \in Worker \ {w} : worker'[v] = worker[v], sem' = sem
  PROVE  SlotsHeld'
<1>1. {v \in Worker : worker'[v].pc # "idle"} = {v \in Worker : worker[v].pc # "idle"}
  OBVIOUS
<1> QED
  BY <1>1 DEF IInv, SlotsHeld

\* A step within a run that adds nothing yet.
LEMMA RunKeeps ==
  ASSUME IInv, NEW w \in Worker, NEW pc \in {"reread", "execute", "return"},
         NEW todo \in Seq(Counter \X Int), NEW tries \in Nat, Goto(w, pc, todo, tries),
         Todo([pc |-> pc, todo |-> todo, tries |-> tries]), worker[w].pc # "idle",
         Shown([pc |-> pc, todo |-> todo, tries |-> tries]), Shown(worker[w]),
         UNCHANGED <<value, sem, scrape, runs>>, noted' \in [Histogram -> [Value -> Nat]]
  PROVE  IInv'
<1> DEFINE r == [pc |-> pc, todo |-> todo, tries |-> tries]
<1>1. r \in Goroutine /\ r.pc = pc
  BY GoroutineFields
<1>2. Todo(r) /\ Shown(r) /\ worker' = [worker EXCEPT ![w] = r]
  BY DEF Goto
<1> HIDE DEF r
<1>3. /\ worker' \in [Worker -> Goroutine] /\ Todos' /\ GaugeExact'
      /\ worker'[w] = r /\ \A v \in Worker \ {w} : worker'[v] = worker[v]
  BY <1>1, <1>2, GotoKeeps
<1>4. SlotsHeld'
  BY <1>1, <1>3, SlotsStay
<1>5. Types'
  BY <1>3 DEF IInv, Types
<1> QED
  BY <1>3, <1>4, <1>5 DEF IInv

\* Dropping, skipping, committing and delivering.
LEMMA RunInductive ==
  ASSUME IInv, NEW w \in Worker,
         \/ DropRun(w) \/ skipStale(w)
         \/ \E late \in Value : Commit(w, late)
         \/ \E d \in Value, ok \in BOOLEAN : Execute(w, d, ok)
  PROVE  IInv'
<1>0. /\ worker[w] \in Goroutine /\ worker[w].todo = << >> /\ worker[w].pc \in {"reread", "execute"}
      /\ worker[w].tries \in Nat /\ noted \in [Histogram -> [Value -> Nat]] /\ Value \subseteq Int
  BY MetricsAssumption DEF IInv, Types, DropRun, skipStale, Commit, Execute, At, Goroutine
<1>1. Shown(worker[w]) /\ worker[w].pc # "idle"
  BY <1>0 DEF Shown
<1>2. << >> \in Adds
  BY DEF Adds
<1>3. ASSUME NEW s \in Adds, NEW tries \in Nat
      PROVE  /\ s \in Seq(Counter \X Int)
             /\ LET r == [pc |-> "execute", todo |-> s, tries |-> tries] IN Todo(r) /\ Shown(r)
             /\ LET u == s \o InflightAdd(-1)
                    r == [pc |-> "return", todo |-> u, tries |-> tries] IN
                  u \in Seq(Counter \X Int) /\ Todo(r) /\ Shown(r)
  <2> DEFINE u == s \o InflightAdd(-1)
  <2>1. /\ u \in Seq(Counter \X Int) /\ u # << >>
        /\ u[Len(u)] = <<gauge, -1>> /\ \A i \in 1..(Len(u) - 1) : Plus(u[i])
    BY <1>2, Concatenated
  <2>2. s \in Seq(Counter \X Int) /\ \A i \in 1..Len(s) : Plus(s[i])
    BY DEF Adds
  <2> HIDE DEF u
  <2>3. LET r == [pc |-> "execute", todo |-> s, tries |-> tries] IN Todo(r) /\ Shown(r)
    BY <2>2 DEF Todo, Shown
  <2>4. LET r == [pc |-> "return", todo |-> u, tries |-> tries] IN Todo(r) /\ Shown(r)
    BY <2>1 DEF Todo, Shown
  <2> QED
    BY <2>1, <2>2, <2>3, <2>4 DEF u
<1>4. ASSUME NEW s \in Adds, NEW tries \in Nat, Goto(w, "execute", s, tries),
             UNCHANGED <<value, sem, scrape, runs>>, noted' \in [Histogram -> [Value -> Nat]]
      PROVE  IInv'
  BY <1>1, <1>3, <1>4, RunKeeps
<1>5. ASSUME NEW s \in Adds, NEW tries \in Nat, Goto(w, "return", s \o InflightAdd(-1), tries),
             UNCHANGED <<value, sem, scrape, runs>>, noted' \in [Histogram -> [Value -> Nat]]
      PROVE  IInv'
  BY <1>1, <1>3, <1>5, RunKeeps
<1>6. ASSUME NEW h \in Histogram, NEW d \in Value, Note(h, d)
      PROVE  noted' \in [Histogram -> [Value -> Nat]]
  BY <1>0, <1>6 DEF Note
<1>7. CASE DropRun(w)
  <2>1. << >> \o InflightAdd(-1) = InflightAdd(-1)
    BY DEF InflightAdd
  <2> QED
    BY <1>0, <1>2, <1>5, <1>7, <2>1 DEF DropRun
<1>8. CASE skipStale(w)
  <2>1. ObserveSkipped \in Adds /\ ObserveTaskFinished(FALSE) \in Adds
    BY Observations DEF ObserveSkipped, ObserveTaskFinished
  <2>2. ObserveSkipped \o ObserveTaskFinished(FALSE) \in Adds
    BY <2>1, Concatenated
  <2> QED
    BY <1>0, <1>5, <1>8, <2>2 DEF skipStale
<1>9. ASSUME NEW late \in Value, Commit(w, late) PROVE IInv'
  <2>1. Max0(late) \in Int /\ "lateness" \in Histogram
    BY <1>0 DEF Max0, Histogram
  <2>2. ObserveLateness(late) \in Adds
    BY <2>1, Observations DEF ObserveLateness
  <2> QED
    BY <1>4, <1>6, <1>9, <2>1, <2>2 DEF Commit
<1>10. ASSUME NEW d \in Value, NEW ok \in BOOLEAN, Execute(w, d, ok) PROVE IInv'
  <2> DEFINE seen == ObserveDelivery(d, ok)
             done == seen \o ObserveTaskFinished(ok)
  <2>1. d \in Int /\ "deliveryDuration" \in Histogram
    BY <1>0 DEF Histogram
  <2>2. seen \in Adds
    <3>1. Inc(IF ok THEN "deliveriesOK" ELSE "deliveriesFail") \in Adds
      BY Observations
    <3>2. observe("deliveryDuration", d) \in Adds
      BY <2>1, Observations
    <3> QED
      BY <3>1, <3>2, Concatenated DEF ObserveDelivery
  <2>3. done \in Adds
    <3>1. ObserveTaskFinished(ok) \in Adds
      BY Observations DEF ObserveTaskFinished
    <3> QED
      BY <2>2, <3>1, Concatenated
  <2>4. noted' \in [Histogram -> [Value -> Nat]] /\ UNCHANGED <<value, sem, scrape, runs>>
    BY <1>6, <1>10, <2>1 DEF Execute
  <2>5. \/ Goto(w, "return", done \o InflightAdd(-1), 0)
        \/ Goto(w, "execute", seen, worker[w].tries + 1)
    BY <1>10 DEF Execute
  <2> HIDE DEF seen, done
  <2>6. CASE Goto(w, "return", done \o InflightAdd(-1), 0)
    BY <1>5, <2>3, <2>4, <2>6
  <2>7. CASE Goto(w, "execute", seen, worker[w].tries + 1)
    <3>1. PICK k \in Nat : k = worker[w].tries + 1
      BY <1>0
    <3>2. Goto(w, "execute", seen, k)
      BY <2>7, <3>1
    <3> QED
      BY <1>4, <2>2, <2>4, <3>2
  <2> QED
    BY <2>5, <2>6, <2>7
<1> QED
  BY <1>7, <1>8, <1>9, <1>10

\* A run begins with a slot and ends with giving it back.
LEMMA SlotInductive ==
  ASSUME IInv, NEW w \in Worker, AcquireSlot(w) \/ Return(w)
  PROVE  IInv'
<1>1. CASE AcquireSlot(w)
  <2> DEFINE r == [pc |-> "reread", todo |-> InflightAdd(1), tries |-> 0]
  <2>1. InflightAdd(1) \in Seq(Counter \X Int) /\ InflightAdd(1) # << >>
    <3> DEFINE a == <<gauge, 1>>
    <3>1. a \in Counter \X Int
      BY Counters DEF gauge
    <3>2. InflightAdd(1) = <<a>>
      BY DEF InflightAdd, gauge
    <3> DEFINE S == Counter \X Int
    <3> HIDE DEF a, S
    <3>3. a \in S => <<a>> \in Seq(S) /\ <<a>> # << >>
      OBVIOUS
    <3> QED
      BY <3>1, <3>2, <3>3 DEF S
  <2> HIDE DEF r
  <2>2. r \in Goroutine /\ r.pc = "reread" /\ r.todo = InflightAdd(1)
    BY <2>1 DEF r, Goroutine
  <2>3. Todo(r) /\ ~Shown(r)
    BY <2>1, <2>2 DEF Todo, Shown
  <2>4. worker' = [worker EXCEPT ![w] = r] /\ worker[w].pc = "idle" /\ ~Shown(worker[w])
    BY <1>1 DEF AcquireSlot, Goto, At, Shown, r
  <2>5. UNCHANGED <<value, scrape, noted>> /\ sem' = sem \cup {w} /\ runs' = runs + 1
    BY <1>1 DEF AcquireSlot
  <2>6. /\ worker' \in [Worker -> Goroutine] /\ Todos' /\ GaugeExact'
        /\ worker'[w] = r /\ \A v \in Worker \ {w} : worker'[v] = worker[v]
    BY <2>2, <2>3, <2>4, <2>5, GotoKeeps
  <2>7. SlotsHeld'
    <3>1. w \notin sem /\ IsFiniteSet(sem)
      BY <2>4 DEF IInv, SlotsHeld
    <3>2. IsFiniteSet(sem') /\ Cardinality(sem') = Cardinality(sem) + 1
      BY <2>5, <3>1, FS_AddElement
    <3>3. Cardinality(sem) < MaxConcurrent /\ Cardinality(sem) \in Nat /\ MaxConcurrent \in Nat
      BY <1>1, <3>1, FS_CardinalityType, MetricsAssumption DEF AcquireSlot
    <3>4. sem' = {v \in Worker : worker'[v].pc # "idle"}
      BY <2>2, <2>5, <2>6 DEF IInv, SlotsHeld
    <3> QED
      BY <3>2, <3>3, <3>4 DEF SlotsHeld
  <2>8. runs + 1 \in 0..MaxStarts
    <3>1. value[<<"tasksReplayed", 0>>] \in Nat
      BY Counters, ValuesNatural
    <3>2. runs \in Nat /\ runs + value[<<"tasksReplayed", 0>>] < MaxStarts /\ MaxStarts \in Nat
      BY <1>1, MetricsAssumption DEF AcquireSlot, MayStart, IInv, Types
    <3> QED
      BY <3>1, <3>2
  <2>9. Types'
    BY <2>5, <2>6, <2>8 DEF IInv, Types
  <2> QED
    BY <2>6, <2>7, <2>9 DEF IInv
<1>2. CASE Return(w)
  <2> DEFINE r == [pc |-> "idle", todo |-> << >>, tries |-> 0]
  <2>1. r \in Goroutine /\ r.pc = "idle" /\ r.todo = << >>
    BY DEF Goroutine
  <2> HIDE DEF r
  <2>2. Todo(r) /\ ~Shown(r)
    BY <2>1 DEF Todo, Shown
  <2>3. worker' = [worker EXCEPT ![w] = r] /\ ~Shown(worker[w])
    BY <1>2 DEF Return, Goto, At, Shown, r
  <2>4. UNCHANGED <<value, scrape, runs, noted>> /\ sem' = sem \ {w}
    BY <1>2 DEF Return
  <2>5. /\ worker' \in [Worker -> Goroutine] /\ Todos' /\ GaugeExact'
        /\ worker'[w] = r /\ \A v \in Worker \ {w} : worker'[v] = worker[v]
    BY <2>1, <2>2, <2>3, <2>4, GotoKeeps
  <2>6. SlotsHeld'
    <3>1. IsFiniteSet(sem) /\ sem' \subseteq sem /\ Cardinality(sem) <= MaxConcurrent
      BY <2>4 DEF IInv, SlotsHeld
    <3>2. IsFiniteSet(sem') /\ Cardinality(sem') <= Cardinality(sem)
      BY <3>1, FS_Subset
    <3>3. Cardinality(sem) \in Nat /\ Cardinality(sem') \in Nat /\ MaxConcurrent \in Nat
      BY <3>1, <3>2, FS_CardinalityType, MetricsAssumption
    <3>4. sem' = {v \in Worker : worker'[v].pc # "idle"}
      BY <2>1, <2>4, <2>5 DEF IInv, SlotsHeld
    <3> QED
      BY <3>1, <3>2, <3>3, <3>4 DEF SlotsHeld
  <2>7. Types'
    BY <2>4, <2>5 DEF IInv, Types
  <2> QED
    BY <2>5, <2>6, <2>7 DEF IInv
<1> QED
  BY <1>1, <1>2

\* The rest of a sequence that is not empty.
LEMMA Rest ==
  ASSUME NEW S, NEW q \in Seq(S), q # << >>
  PROVE  /\ Head(q) = q[1] /\ q[1] \in S /\ Len(q) \in Nat \ {0}
         /\ Tail(q) \in Seq(S) /\ Len(Tail(q)) = Len(q) - 1
         /\ \A i \in 1..(Len(q) - 1) : Tail(q)[i] = q[i + 1]
         /\ Len(q) = 1 <=> Tail(q) = << >>
<1>1. /\ Head(q) = q[1] /\ q[1] \in S /\ Len(q) \in Nat \ {0}
      /\ Tail(q) \in Seq(S) /\ Len(Tail(q)) = Len(q) - 1
      /\ \A i \in 1..(Len(q) - 1) : Tail(q)[i] = q[i + 1]
  OBVIOUS
<1>2. \A t \in Seq(S) : Len(t) = 0 <=> t = << >>
  <2>1. \A t \in Seq(S) : t # << >> => Len(t) # 0
    OBVIOUS
  <2> QED
    BY <2>1
<1>3. Len(q) = 1 <=> Tail(q) = << >>
  <2>1. Len(Tail(q)) = 0 <=> Tail(q) = << >>
    BY <1>1, <1>2
  <2>2. Len(q) \in Nat /\ Len(Tail(q)) = Len(q) - 1
    BY <1>1
  <2> QED
    BY <2>1, <2>2
<1> QED
  BY <1>1, <1>3

\* One addition: the first of those to come.
LEMMA AddInductive ==
  ASSUME IInv, NEW w \in Worker, Add(w)
  PROVE  IInv'
<1> DEFINE q == worker[w].todo
           c == Head(q)[1]
           k == Head(q)[2]
           r == [worker[w] EXCEPT !.todo = Tail(q)]
<1>1. /\ worker[w] \in Goroutine /\ q \in Seq(Counter \X Int) /\ q # << >>
      /\ worker[w].pc \in {"idle", "reread", "execute", "return"} /\ Todo(worker[w])
  BY DEF IInv, Types, Todos, Add, Goroutine
<1>2. /\ Head(q) = q[1] /\ q[1] \in Counter \X Int /\ Len(q) \in Nat \ {0}
      /\ Tail(q) \in Seq(Counter \X Int) /\ Len(Tail(q)) = Len(q) - 1
      /\ \A i \in 1..(Len(q) - 1) : Tail(q)[i] = q[i + 1]
      /\ Len(q) = 1 <=> Tail(q) = << >>
  <2> HIDE DEF q
  <2> QED
    BY <1>1, Rest
<1>3. c \in Counter /\ k \in Int
  BY <1>2
<1>4. value' = [value EXCEPT ![c] = @ + k] /\ worker' = [worker EXCEPT ![w] = r]
  BY DEF Add, IInv, Types
<1>5. UNCHANGED <<sem, scrape, runs, noted>>
  BY DEF Add
<1>6. /\ r \in Goroutine /\ r.pc = worker[w].pc /\ r.todo = Tail(q)
  BY <1>1, <1>2 DEF Goroutine
<1>7. /\ value' \in [Counter -> Int] /\ value'[c] = value[c] + k
      /\ \A b \in Counter \ {c} : value'[b] = value[b]
  BY <1>3, <1>4 DEF IInv, Types
<1>8. worker[w].pc # "idle"
  BY <1>1 DEF Todo
<1>9. gauge \in Counter
  BY Counters DEF gauge
<1>10. ASSUME Plus(Head(q)), Todo(r), Shown(r) <=> Shown(worker[w]) PROVE IInv'
  <2>1. c # gauge /\ k \in Nat
    BY <1>10 DEF Plus
  <2>2. value'[gauge] = value[gauge]
    BY <1>7, <1>9, <2>1
  <2> HIDE DEF q, c, k, r
  <2>3. /\ worker' \in [Worker -> Goroutine] /\ Todos' /\ GaugeExact'
        /\ worker'[w] = r /\ \A v \in Worker \ {w} : worker'[v] = worker[v]
    BY <1>4, <1>6, <1>10, <2>2, GotoKeeps
  <2>4. SlotsHeld'
    BY <1>5, <1>6, <1>8, <2>3, SlotsStay
  <2>5. \A b \in Counter \ {gauge} : value'[b] \in Nat
    BY <1>3, <1>7, <2>1 DEF IInv, Types
  <2>6. Types'
    BY <1>5, <1>7, <2>3, <2>5 DEF IInv, Types
  <2> QED
    BY <2>3, <2>4, <2>6 DEF IInv
<1> DEFINE S == {v \in Worker : Shown(worker[v])}
<1>11. ASSUME c = gauge, r.todo = << >>,
              \/ worker[w].pc = "reread" /\ k = 1 /\ ~Shown(worker[w])
              \/ worker[w].pc = "return" /\ k = -1 /\ Shown(worker[w])
       PROVE  IInv'
  <2> HIDE DEF q, c, k, r
  <2>1. /\ worker' \in [Worker -> Goroutine]
        /\ worker'[w] = r /\ \A v \in Worker \ {w} : worker'[v] = worker[v]
    BY <1>4, <1>6 DEF IInv, Types
  <2>2. SlotsHeld'
    BY <1>5, <1>6, <1>8, <2>1, SlotsStay
  <2>3. Todos'
    <3>1. Todo(r)
      BY <1>6, <1>11 DEF Todo
    <3> QED
      BY <2>1, <3>1 DEF IInv, Todos
  <2>4. Types'
    BY <1>5, <1>7, <1>11, <2>1 DEF IInv, Types
  <2>5. IsFiniteSet(S) /\ value[gauge] = Cardinality(S) /\ Cardinality(S) \in Nat
    BY ShownHoldSlots
  <2> DEFINE T == {v \in Worker : Shown(worker'[v])}
  <2>6. ASSUME worker[w].pc = "reread" PROVE GaugeExact'
    <3>1. T = S \cup {w} /\ w \notin S
      BY <1>6, <1>11, <2>1, <2>6 DEF Shown
    <3> HIDE DEF S, T
    <3>2. Cardinality(T) = Cardinality(S) + 1
      BY <2>5, <3>1, FS_AddElement
    <3>3. value'[gauge] = Cardinality(T)
      BY <1>7, <1>11, <2>5, <2>6, <3>2
    <3> QED
      BY <3>3 DEF GaugeExact, gauge, T
  <2>7. ASSUME worker[w].pc = "return" PROVE GaugeExact'
    <3>1. T = S \ {w} /\ w \in S
      BY <1>6, <1>11, <2>1, <2>7 DEF Shown
    <3> HIDE DEF S, T
    <3>2. Cardinality(T) = Cardinality(S) - 1
      BY <2>5, <3>1, FS_RemoveElement
    <3>3. value'[gauge] = Cardinality(T)
      BY <1>7, <1>11, <2>5, <2>7, <3>2
    <3> QED
      BY <3>3 DEF GaugeExact, gauge, T
  <2>8. GaugeExact'
    BY <1>11, <2>6, <2>7
  <2> QED
    BY <2>2, <2>3, <2>4, <2>8 DEF IInv
<1>12. CASE worker[w].pc = "reread"
  <2>1. q = << <<gauge, 1>> >>
    BY <1>1, <1>12 DEF Todo, InflightAdd, gauge
  <2>2. Head(q) = <<gauge, 1>> /\ Tail(q) = << >>
    BY <2>1
  <2>3. c = gauge /\ k = 1 /\ r.todo = << >> /\ ~Shown(worker[w])
    BY <1>1, <1>6, <1>12, <2>2 DEF Shown
  <2> QED
    BY <1>11, <1>12, <2>3
<1>13. CASE worker[w].pc = "execute"
  <2>1. \A i \in 1..Len(q) : Plus(q[i])
    BY <1>1, <1>13 DEF Todo
  <2>2. Plus(Head(q))
    BY <1>2, <2>1
  <2>3. \A i \in 1..Len(Tail(q)) : Plus(Tail(q)[i])
    BY <1>2, <2>1
  <2>4. Todo(r) /\ Shown(r) /\ Shown(worker[w])
    BY <1>6, <1>13, <2>3 DEF Todo, Shown
  <2> QED
    BY <1>10, <2>2, <2>4
<1>14. CASE worker[w].pc = "return"
  <2>1. q[Len(q)] = <<gauge, -1>> /\ \A i \in 1..(Len(q) - 1) : Plus(q[i])
    BY <1>1, <1>14 DEF Todo
  <2> HIDE DEF q
  <2>2. CASE Len(q) = 1
    <3>1. Head(q) = <<gauge, -1>> /\ Tail(q) = << >>
      BY <1>2, <2>1, <2>2
    <3>2. c = gauge /\ k = -1 /\ r.todo = << >> /\ Shown(worker[w])
      BY <1>1, <1>6, <1>14, <3>1 DEF Shown, q
    <3> QED
      BY <1>11, <1>14, <3>2
  <2>3. CASE Len(q) # 1
    <3>1. Plus(Head(q))
      BY <1>2, <2>1, <2>3
    <3>2. /\ Tail(q) # << >> /\ Tail(q)[Len(Tail(q))] = <<gauge, -1>>
          /\ \A i \in 1..(Len(Tail(q)) - 1) : Plus(Tail(q)[i])
      <4>1. Len(Tail(q)) \in Nat \ {0} /\ Len(q) - 1 \in 1..(Len(q) - 1)
        BY <1>2, <2>3
      <4>2. Tail(q) # << >>
        BY <1>2, <2>3
      <4>3. Tail(q)[Len(Tail(q))] = q[Len(q)]
        BY <1>2, <4>1
      <4>4. ASSUME NEW i \in 1..(Len(Tail(q)) - 1) PROVE Plus(Tail(q)[i])
        <5>1. i \in 1..(Len(q) - 1) /\ i + 1 \in 1..(Len(q) - 1)
          BY <1>2, <4>1
        <5> QED
          BY <1>2, <2>1, <5>1
      <4> QED
        BY <2>1, <4>2, <4>3, <4>4
    <3>3. Todo(r) /\ Shown(r) /\ Shown(worker[w])
      BY <1>1, <1>6, <1>14, <3>2 DEF Todo, Shown, q
    <3> QED
      BY <1>10, <3>1, <3>3
  <2> QED
    BY <2>2, <2>3
<1> QED
  BY <1>1, <1>8, <1>12, <1>13, <1>14

\* Replays and scrapes.
LEMMA OtherInductive ==
  ASSUME IInv, ObserveReplay \/ Scrape \/ Load \/ Respond \/ UNCHANGED vars
  PROVE  IInv'
<1>1. worker' = worker /\ sem' = sem /\ runs' = runs /\ noted' = noted
  BY DEF ObserveReplay, Scrape, Load, Respond, vars
<1>2. Todos' /\ SlotsHeld'
  BY <1>1 DEF IInv, Todos, SlotsHeld
<1>3. ASSUME value'[gauge] = value[gauge], value' \in [Counter -> Nat],
             scrape' # None => scrape'.left \in Seq(Counter) /\ scrape'.read \in [Counter -> Nat]
      PROVE  IInv'
  <2>1. GaugeExact'
    BY <1>1, <1>3 DEF IInv, GaugeExact, gauge
  <2>2. Types'
    BY <1>1, <1>3 DEF IInv, Types
  <2> QED
    BY <1>2, <2>1, <2>2 DEF IInv
<1>4. value \in [Counter -> Nat] /\ gauge \in Counter
  BY ValuesNatural
<1>5. CASE ObserveReplay
  <2>1. <<"tasksReplayed", 0>> \in Counter /\ <<"tasksReplayed", 0>> # gauge
    BY Counters DEF gauge
  <2>2. value' = [value EXCEPT ![<<"tasksReplayed", 0>>] = @ + 1] /\ scrape' = scrape
    BY <1>5 DEF ObserveReplay
  <2>3. value'[gauge] = value[gauge] /\ value' \in [Counter -> Nat]
    BY <1>4, <2>1, <2>2
  <2> QED
    BY <1>3, <2>2, <2>3 DEF IInv, Types
<1>6. CASE Scrape
  <2>1. Rendered \in Seq(Counter)
    <3> DEFINE a == [i \in 1..Len(Plain) |-> <<Plain[i], 0>>]
               b == [i \in 1..count |-> <<"deliveryDuration", i>>]
               c == [i \in 1..count |-> <<"lateness", i>>]
    <3>1. Len(Plain) \in Nat /\ count \in Nat
      BY MetricsAssumption DEF Plain, count
    <3>2. a \in [1..Len(Plain) -> Counter]
      BY DEF Counter
    <3>3. b \in [1..count -> Counter] /\ c \in [1..count -> Counter]
      BY Counters DEF Histogram
    <3>4. Rendered = a \o b \o c
      BY DEF Rendered
    <3> HIDE DEF a, b, c
    <3>5. a \in Seq(Counter) /\ b \in Seq(Counter) /\ c \in Seq(Counter)
      BY <3>1, <3>2, <3>3
    <3> QED
      BY <3>4, <3>5
  <2>2. value' = value /\ scrape' = [left |-> Rendered, read |-> [c \in Counter |-> 0]]
    BY <1>6 DEF Scrape
  <2> QED
    BY <1>3, <1>4, <2>1, <2>2
<1>7. CASE Load
  <2> DEFINE c == Head(scrape.left)
  <2>1. /\ scrape.left \in Seq(Counter) /\ scrape.left # << >> /\ scrape.read \in [Counter -> Nat]
    BY <1>7 DEF Load, IInv, Types
  <2>2. c \in Counter /\ Tail(scrape.left) \in Seq(Counter)
    BY <2>1
  <2>3. /\ value' = value
        /\ scrape' = [left |-> Tail(scrape.left), read |-> [scrape.read EXCEPT ![c] = value[c]]]
    BY <1>7 DEF Load
  <2>4. [scrape.read EXCEPT ![c] = value[c]] \in [Counter -> Nat]
    BY <1>4, <2>1, <2>2
  <2> HIDE DEF c
  <2> QED
    BY <1>3, <1>4, <2>2, <2>3, <2>4
<1>8. CASE Respond \/ UNCHANGED vars
  <2>1. value' = value /\ (scrape' = None \/ scrape' = scrape)
    BY <1>8 DEF Respond, vars
  <2> QED
    BY <1>3, <1>4, <2>1 DEF IInv, Types
<1> QED
  BY <1>5, <1>6, <1>7, <1>8

-----------------------------------------------------------------------------
(* The theorems.                                                           *)

\* The invariant holds of every reachable state.
THEOREM Invariance == Spec => []IInv
<1>1. Init => IInv
  <2> SUFFICES ASSUME Init PROVE IInv
    OBVIOUS
  <2>1. Types
    <3>1. worker \in [Worker -> Goroutine]
      BY DEF Init, Goroutine
    <3> QED
      BY <3>1, MetricsAssumption DEF Init, Types
  <2>2. \A w \in Worker : worker[w].pc = "idle" /\ worker[w].todo = << >>
    BY DEF Init
  <2>3. Todos
    BY <2>2 DEF Todos, Todo
  <2>4. SlotsHeld
    BY <2>2, FS_EmptySet, MetricsAssumption DEF Init, SlotsHeld
  <2>5. GaugeExact
    <3>1. {w \in Worker : Shown(worker[w])} = {}
      BY <2>2 DEF Shown
    <3>2. value[gauge] = 0
      BY Counters DEF Init, gauge
    <3> QED
      BY <3>1, <3>2, FS_EmptySet DEF GaugeExact
  <2> QED
    BY <2>1, <2>3, <2>4, <2>5 DEF IInv
<1>2. IInv /\ [Next]_vars => IInv'
  BY AddInductive, RunInductive, SlotInductive, OtherInductive DEF Next
<1> QED
  BY <1>1, <1>2, PTL DEF Spec

\* Every counter stays a natural number, the gauge that goes up and down
\* included, and a scrape loads nothing else.
THEOREM TypeCorrect == Spec => []TypeOK
<1>1. IInv => TypeOK
  BY ValuesNatural DEF IInv, Types, TypeOK, Goroutine
<1> QED
  BY <1>1, Invariance, PTL

\* Whatever the interleaving, and whichever way runs end, the gauge shows no
\* more deliveries than hold a slot, and no more slots are held than there are.
THEOREM GaugeWithinLimit == Spec => []GaugeInLimit
<1>1. IInv => GaugeInLimit
  BY ShownHoldSlots DEF GaugeInLimit, IInv, SlotsHeld, gauge
<1> QED
  BY <1>1, Invariance, PTL

-----------------------------------------------------------------------------
(* Totals: what the counters come to once everything owed is added.        *)

\* The stages share no counter, and the gauge is alone in the last.
LEMMA Stages ==
  /\ \A s \in 1..6 : Stage[s] \subseteq Counter
  /\ \A s, t \in 1..6 : s # t => Stage[s] \cap Stage[t] = {}
  /\ \A s \in 1..5 : gauge \notin Stage[s]
<1>0. /\ Stage[1] = delivered /\ Stage[2] = Histogram \X Bucket /\ Stage[3] = Histogram \X {sumNs}
      /\ Stage[4] = Histogram \X {count} \cup {skipped} /\ Stage[5] = finished /\ Stage[6] = {gauge}
  BY DEF Stage
<1>1. Len(upper) \in Nat
  BY MetricsAssumption
<1> DEFINE n == Len(upper)
<1>2. \A b \in Bucket : b \in 1..(n + 1)
  BY DEF Bucket
<1>3. sumNs = n + 2 /\ count = n + 3
  BY DEF sumNs, count
<1>4. /\ \A c \in Stage[1] : c[2] = 0 /\ c[1] \in {"deliveriesOK", "deliveriesFail"}
      /\ \A c \in Stage[2] : c[2] \in 1..(n + 1)
      /\ \A c \in Stage[3] : c[2] = n + 2
      /\ \A c \in Stage[4] : c[2] = n + 3 \/ (c[2] = 0 /\ c[1] = "tasksSkipped")
      /\ \A c \in Stage[5] : c[2] = 0 /\ c[1] \in {"tasksSucceeded", "tasksFailed"}
      /\ \A c \in Stage[6] : c[2] = 0 /\ c[1] = "inflight"
  <2>1. \A c \in Stage[1] : c[2] = 0 /\ c[1] \in {"deliveriesOK", "deliveriesFail"}
    BY <1>0 DEF delivered
  <2>2. \A c \in Stage[2] : c[2] \in 1..(n + 1)
    BY <1>0, <1>2
  <2>3. \A c \in Stage[3] : c[2] = n + 2
    BY <1>0, <1>3
  <2>4. \A c \in Stage[4] : c[2] = n + 3 \/ (c[2] = 0 /\ c[1] = "tasksSkipped")
    BY <1>0, <1>3 DEF skipped
  <2>5. \A c \in Stage[5] : c[2] = 0 /\ c[1] \in {"tasksSucceeded", "tasksFailed"}
    BY <1>0 DEF finished
  <2>6. \A c \in Stage[6] : c[2] = 0 /\ c[1] = "inflight"
    BY <1>0 DEF gauge
  <2> QED
    BY <2>1, <2>2, <2>3, <2>4, <2>5, <2>6
<1>5. \A s \in 1..6 : Stage[s] \subseteq Counter
  <2>1. Bucket \subseteq 1..count /\ sumNs \in 1..count /\ count \in 1..count
    BY <1>1, <1>2, <1>3
  <2>2. Histogram \X (1..count) \subseteq Counter
    BY Counters
  <2>3. Stage[2] \subseteq Counter /\ Stage[3] \subseteq Counter
    BY <1>0, <2>1, <2>2
  <2>4. Stage[4] \subseteq Counter
    BY <1>0, <2>1, <2>2, Counters DEF skipped
  <2>5. Stage[1] \subseteq Counter /\ Stage[5] \subseteq Counter /\ Stage[6] \subseteq Counter
    BY <1>0, Counters DEF delivered, finished, gauge
  <2> QED
    BY <2>3, <2>4, <2>5
<1>6. ASSUME NEW s \in 1..6, NEW t \in 1..6, s < t PROVE Stage[s] \cap Stage[t] = {}
  <2> SUFFICES ASSUME NEW c, c \in Stage[s], c \in Stage[t] PROVE FALSE
    OBVIOUS
  <2> HIDE DEF n
  <2>1. CASE s = 1
    BY <1>1, <1>4, <1>6, <2>1 DEF n
  <2>2. CASE s = 2
    BY <1>1, <1>4, <1>6, <2>2 DEF n
  <2>3. CASE s = 3
    BY <1>1, <1>4, <1>6, <2>3 DEF n
  <2>4. CASE s = 4
    BY <1>1, <1>4, <1>6, <2>4 DEF n
  <2>5. CASE s = 5
    BY <1>1, <1>4, <1>6, <2>5 DEF n
  <2> QED
    BY <1>6, <2>1, <2>2, <2>3, <2>4, <2>5
<1>7. \A s, t \in 1..6 : s # t => Stage[s] \cap Stage[t] = {}
  <2> SUFFICES ASSUME NEW s \in 1..6, NEW t \in 1..6, s # t PROVE Stage[s] \cap Stage[t] = {}
    OBVIOUS
  <2>1. CASE s < t
    BY <1>6, <2>1
  <2>2. CASE t < s
    BY <1>6, <2>2
  <2> QED
    BY <2>1, <2>2
<1>8. \A s \in 1..5 : gauge \notin Stage[s]
  <2> SUFFICES ASSUME NEW s \in 1..5 PROVE gauge \notin Stage[s]
    OBVIOUS
  <2>1. gauge \in Stage[6] /\ s # 6
    BY <1>0
  <2>2. Stage[s] \cap Stage[6] = {}
    BY <1>7, <2>1
  <2> QED
    BY <2>1, <2>2
<1> QED
  BY <1>5, <1>7, <1>8

\* Counters that one stage of a run moves, the gauge not among them.
Group(C) == IsFiniteSet(C) /\ \E s \in 1..5 : C \subseteq Stage[s]

\* The counters of a group are no gauge.
LEMMA GroupCounters ==
  ASSUME NEW C, Group(C)
  PROVE  C \subseteq Counter \ {gauge}
<1>1. PICK s \in 1..5 : C \subseteq Stage[s]
  BY DEF Group
<1> QED
  BY <1>1, Stages

\* The sets of counters that the properties are about are groups.
LEMMA Groups ==
  /\ Group(delivered) /\ Group(finished) /\ Group({skipped})
  /\ \A h \in Histogram :
       /\ Group({<<h, sumNs>>}) /\ Group({<<h, count>>}) /\ Group({h} \X Bucket)
       /\ \A i \in Bucket : Group({h} \X (1..i))
<1>0. /\ Stage[1] = delivered /\ Stage[2] = Histogram \X Bucket /\ Stage[3] = Histogram \X {sumNs}
      /\ Stage[4] = Histogram \X {count} \cup {skipped} /\ Stage[5] = finished
  BY DEF Stage
<1>1. \A a, b : IsFiniteSet({a}) /\ IsFiniteSet({a, b})
  <2> SUFFICES ASSUME NEW a, NEW b PROVE IsFiniteSet({a}) /\ IsFiniteSet({a, b})
    OBVIOUS
  <2>1. IsFiniteSet({a}) /\ IsFiniteSet({a} \cup {b}) /\ {a} \cup {b} = {a, b}
    BY FS_Singleton, FS_AddElement
  <2> QED
    BY <2>1
<1>2. Group(delivered) /\ Group(finished) /\ Group({skipped})
  <2>1. IsFiniteSet(delivered) /\ IsFiniteSet(finished) /\ IsFiniteSet({skipped})
    BY <1>1 DEF delivered, finished
  <2> QED
    BY <1>0, <2>1 DEF Group
<1>3. ASSUME NEW h \in Histogram
      PROVE  Group({<<h, sumNs>>}) /\ Group({<<h, count>>})
  <2>1. IsFiniteSet({<<h, sumNs>>}) /\ IsFiniteSet({<<h, count>>})
    BY <1>1
  <2>2. {<<h, sumNs>>} \subseteq Stage[3] /\ {<<h, count>>} \subseteq Stage[4]
    BY <1>0
  <2> QED
    BY <2>1, <2>2 DEF Group
<1>4. ASSUME NEW h \in Histogram, NEW i \in Bucket PROVE Group({h} \X (1..i))
  <2>1. Len(upper) \in Nat /\ i \in 1..(Len(upper) + 1)
    BY MetricsAssumption DEF Bucket
  <2>2. IsFiniteSet({h}) /\ IsFiniteSet(1..i)
    <3>1. 1 \in Int /\ i \in Int
      BY <2>1
    <3>2. IsFiniteSet(1..i)
      BY <3>1, FS_Interval
    <3> QED
      BY <3>2, FS_Singleton
  <2>3. IsFiniteSet({h} \X (1..i))
    BY <2>2, FS_Product
  <2>4. {h} \X (1..i) \subseteq Stage[2]
    BY <1>0, <2>1 DEF Bucket
  <2> QED
    BY <2>3, <2>4 DEF Group
<1>5. ASSUME NEW h \in Histogram PROVE Group({h} \X Bucket)
  <2>1. Len(upper) \in Nat
    BY MetricsAssumption
  <2>2. Bucket = 1..(Len(upper) + 1) /\ Len(upper) + 1 \in Bucket
    BY <2>1 DEF Bucket
  <2> QED
    BY <1>4, <2>2
<1> QED
  BY <1>2, <1>3, <1>4, <1>5

-----------------------------------------------------------------------------
(* What is due.                                                            *)

\* Nothing is due where no addition to come is to one of the counters; what is
\* due is the one addition if there is one.
LEMMA DueIs ==
  ASSUME NEW q, NEW C
  PROVE  /\ (\A i \in 1..Len(q) : q[i][1] \notin C) => Due(q, C) = 0
         /\ \A i \in 1..Len(q) :
              q[i][1] \in C /\ (\A j \in 1..Len(q) : q[j][1] \in C => j = i) => Due(q, C) = q[i][2]
<1>1. ASSUME NEW i \in 1..Len(q), q[i][1] \in C, \A j \in 1..Len(q) : q[j][1] \in C => j = i
      PROVE  Due(q, C) = q[i][2]
  <2>1. (CHOOSE j \in 1..Len(q) : q[j][1] \in C) = i
    BY <1>1
  <2> QED
    BY <1>1, <2>1 DEF Due
<1> QED
  BY <1>1 DEF Due

\* The addition that is made is no longer due.
LEMMA DueRest ==
  ASSUME NEW q \in Seq(Counter \X Int), q # << >>, NEW C,
         \A i, j \in 1..Len(q) : q[i][1] \in C /\ q[j][1] \in C => i = j
  PROVE  Due(Tail(q), C) = Due(q, C) - (IF Head(q)[1] \in C THEN Head(q)[2] ELSE 0)
<1> DEFINE S == Counter \X Int
           t == Tail(q)
           n == Len(q)
<1>1. /\ Head(q) = q[1] /\ q[1] \in S /\ n \in Nat \ {0}
      /\ t \in Seq(S) /\ Len(t) = n - 1 /\ \A i \in 1..(n - 1) : t[i] = q[i + 1]
  <2> HIDE DEF S
  <2>1. q \in Seq(S)
    BY DEF S
  <2> QED
    BY <2>1, Rest
<1>2. \A i \in 1..n : q[i][2] \in Int
  OBVIOUS
<1> HIDE DEF S, t, n
<1>3. CASE q[1][1] \in C
  <2>1. \A i \in 1..(n - 1) : t[i][1] \notin C
    <3> SUFFICES ASSUME NEW i \in 1..(n - 1), t[i][1] \in C PROVE FALSE
      OBVIOUS
    <3>1. i + 1 \in 1..n /\ 1 \in 1..n /\ i + 1 # 1
      BY <1>1
    <3>2. q[i + 1][1] \in C
      BY <1>1
    <3> QED
      BY <1>3, <3>1, <3>2 DEF n
  <2>2. Due(t, C) = 0
    BY <1>1, <2>1, DueIs
  <2>3. Due(q, C) = q[1][2]
    BY <1>1, <1>3, DueIs DEF n
  <2>4. q[1][2] \in Int
    BY <1>1, <1>2
  <2> QED
    BY <1>1, <1>3, <2>2, <2>3, <2>4 DEF t
<1>4. CASE q[1][1] \notin C
  <2>1. CASE \A i \in 1..n : q[i][1] \notin C
    <3>1. \A i \in 1..(n - 1) : t[i][1] \notin C
      BY <1>1, <2>1
    <3>2. Due(t, C) = 0 /\ Due(q, C) = 0
      BY <1>1, <2>1, <3>1, DueIs DEF n
    <3> QED
      BY <1>1, <1>4, <3>2 DEF t
  <2>2. CASE ~\A i \in 1..n : q[i][1] \notin C
    <3>1. PICK i \in 1..n : q[i][1] \in C
      BY <2>2
    <3>2. i # 1 /\ i - 1 \in 1..(n - 1) /\ t[i - 1] = q[i]
      BY <1>1, <1>4, <3>1
    <3>3. Due(q, C) = q[i][2]
      BY <3>1, DueIs DEF n
    <3>4. ASSUME NEW j \in 1..(n - 1), t[j][1] \in C PROVE j = i - 1
      <4>1. j + 1 \in 1..n /\ q[j + 1][1] \in C
        BY <1>1, <3>4
      <4>2. j + 1 = i
        BY <3>1, <4>1 DEF n
      <4> QED
        BY <1>1, <4>2
    <3>5. Due(t, C) = t[i - 1][2]
      BY <1>1, <3>1, <3>2, <3>4, DueIs
    <3>6. Due(t, C) = Due(q, C) /\ Due(q, C) \in Int
      BY <1>2, <3>1, <3>2, <3>3, <3>5
    <3> QED
      BY <1>1, <1>4, <3>6 DEF t
  <2> QED
    BY <2>1, <2>2
<1> QED
  BY <1>3, <1>4

\* An integer is due.
LEMMA DueType ==
  ASSUME NEW q \in Seq(Counter \X Int), NEW C
  PROVE  Due(q, C) \in Int
<1>1. \A i \in 1..Len(q) : q[i][2] \in Int
  OBVIOUS
<1> QED
  BY <1>1 DEF Due

\* A goroutine makes at most one addition in a group.
LEMMA StagedOnce ==
  ASSUME NEW r \in Goroutine, Staged(r), NEW C, Group(C)
  PROVE  \A i, j \in 1..Len(r.todo) : r.todo[i][1] \in C /\ r.todo[j][1] \in C => i = j
<1> DEFINE q == r.todo
           n == Len(q)
           e == IF r.pc = "execute" THEN 4 ELSE 6
<1>1. n \in Nat /\ e \in 4..6
  BY DEF Goroutine
<1>2. n <= e /\ \A i \in 1..n : q[i][1] \in Stage[e - n + i]
  BY DEF Staged
<1>3. PICK s \in 1..5 : C \subseteq Stage[s]
  BY DEF Group
<1> HIDE DEF q, n, e
<1>4. ASSUME NEW i \in 1..n, q[i][1] \in C PROVE e - n + i = s
  <2>1. q[i][1] \in Stage[s] /\ q[i][1] \in Stage[e - n + i]
    BY <1>2, <1>3, <1>4
  <2>2. e - n + i \in 1..6 /\ s \in 1..6
    BY <1>1, <1>2
  <2> QED
    BY <2>1, <2>2, Stages
<1>5. \A i, j \in 1..n : q[i][1] \in C /\ q[j][1] \in C => i = j
  <2> SUFFICES ASSUME NEW i \in 1..n, NEW j \in 1..n, q[i][1] \in C, q[j][1] \in C PROVE i = j
    OBVIOUS
  <2>1. e - n + i = s /\ e - n + j = s
    BY <1>4
  <2> QED
    BY <1>1, <2>1
<1> QED
  BY <1>5 DEF n, q

-----------------------------------------------------------------------------
(* What the steps do to the totals.                                        *)

\* A total is an integer, and so are its parts.
LEMMA TotalType ==
  ASSUME IInv, NEW C, Group(C)
  PROVE  /\ IsFiniteSet(C) /\ IsFiniteSet(sem) /\ \A c \in C : value[c] \in Nat
         /\ \A w \in sem : worker[w] \in Goroutine /\ Due(worker[w].todo, C) \in Int
         /\ SumFunctionOnSet(value, C) \in Int
         /\ SumFunctionOnSet([w \in sem |-> Due(worker[w].todo, C)], sem) \in Int
         /\ Total(C) \in Int
<1>1. IsFiniteSet(C) /\ IsFiniteSet(sem) /\ sem \subseteq Worker
  BY DEF IInv, SlotsHeld, Group, Types
<1>2. \A c \in C : value[c] \in Nat
  BY GroupCounters DEF IInv, Types
<1>3. \A w \in sem : worker[w] \in Goroutine /\ Due(worker[w].todo, C) \in Int
  BY <1>1, DueType DEF IInv, Types, Goroutine
<1>4. SumFunctionOnSet(value, C) \in Int
  BY <1>1, <1>2, SumType
<1> DEFINE D == [w \in sem |-> Due(worker[w].todo, C)]
<1>5. SumFunctionOnSet(D, sem) \in Int
  <2>1. \A w \in sem : D[w] \in Int
    BY <1>3
  <2> HIDE DEF D
  <2> QED
    BY <1>1, <2>1, SumType
<1>6. Total(C) = SumFunctionOnSet(value, C) + SumFunctionOnSet(D, sem)
  BY DEF Total
<1> QED
  BY <1>1, <1>2, <1>3, <1>4, <1>5, <1>6

\* One goroutine moves: the total changes by what its counters gain and by what
\* it comes to owe.
LEMMA TotalMoves ==
  ASSUME IInv, NEW C, Group(C), NEW w \in sem, sem' = sem, NEW k \in Int, NEW d \in Int,
         SumFunctionOnSet(value', C) = SumFunctionOnSet(value, C) + k,
         Due(worker'[w].todo, C) = Due(worker[w].todo, C) + d,
         \A v \in Worker \ {w} : worker'[v] = worker[v]
  PROVE  Total(C)' = Total(C) + k + d
<1> DEFINE D == [v \in sem |-> Due(worker[v].todo, C)]
           E == [v \in sem |-> Due(worker'[v].todo, C)]
<1>1. Total(C)' = SumFunctionOnSet(value', C) + SumFunctionOnSet(E, sem)
  BY DEF Total
<1>2. Total(C) = SumFunctionOnSet(value, C) + SumFunctionOnSet(D, sem)
  BY DEF Total
<1>3. /\ IsFiniteSet(sem) /\ sem \subseteq Worker /\ SumFunctionOnSet(value, C) \in Int
      /\ SumFunctionOnSet(D, sem) \in Int /\ \A v \in sem : D[v] \in Int
  BY TotalType DEF IInv, Types
<1>4. E[w] = D[w] + d /\ \A v \in sem \ {w} : E[v] = D[v]
  BY <1>3
<1> HIDE DEF D, E
<1>5. SumFunctionOnSet(E, sem) = SumFunctionOnSet(D, sem) + d
  BY <1>3, <1>4, SumChange
<1> QED
  BY <1>1, <1>2, <1>3, <1>5

\* A goroutine that owes nothing takes on what it has to add next.
LEMMA TotalGoto ==
  ASSUME IInv, NEW C, Group(C), NEW w \in sem, sem' = sem, value' = value,
         worker[w].todo = << >>, NEW r \in Goroutine, worker' = [worker EXCEPT ![w] = r]
  PROVE  Total(C)' = Total(C) + Due(r.todo, C)
<1>1. Due(<< >>, C) = 0 /\ Due(r.todo, C) \in Int
  <2>1. Due(<< >>, C) = 0
    BY DEF Due
  <2>2. r.todo \in Seq(Counter \X Int)
    BY DEF Goroutine
  <2> QED
    BY <2>1, <2>2, DueType
<1>2. w \in Worker /\ worker'[w] = r /\ \A v \in Worker \ {w} : worker'[v] = worker[v]
  BY DEF IInv, Types
<1>3. SumFunctionOnSet(value, C) \in Int /\ Total(C) \in Int
  BY TotalType
<1>4. PICK k \in Int, d \in Int : k = 0 /\ d = Due(r.todo, C)
  BY <1>1
<1>5. SumFunctionOnSet(value', C) = SumFunctionOnSet(value, C) + k
  BY <1>3, <1>4
<1>6. Due(worker'[w].todo, C) = Due(worker[w].todo, C) + d
  BY <1>1, <1>2, <1>4
<1>7. Total(C)' = Total(C) + k + d
  BY <1>2, <1>5, <1>6, TotalMoves
<1> QED
  BY <1>3, <1>4, <1>7

\* An addition to one counter changes the sums it is in.
LEMMA SumOfCounters ==
  ASSUME IInv, NEW C, Group(C), NEW c \in Counter, NEW k \in Int,
         value' = [value EXCEPT ![c] = @ + k]
  PROVE  SumFunctionOnSet(value', C)
           = SumFunctionOnSet(value, C) + (IF c \in C THEN k ELSE 0)
<1>1. /\ IsFiniteSet(C) /\ \A b \in C : value[b] \in Int /\ b \in Counter
      /\ SumFunctionOnSet(value, C) \in Int
  <2>1. IsFiniteSet(C) /\ SumFunctionOnSet(value, C) \in Int /\ C \subseteq Counter
    BY TotalType, GroupCounters
  <2>2. \A b \in C : value[b] \in Nat
    BY TotalType
  <2> QED
    BY <2>1, <2>2
<1>2. value'[c] = value[c] + k /\ \A b \in Counter \ {c} : value'[b] = value[b]
  BY DEF IInv, Types
<1>3. CASE c \in C
  <2> DEFINE f == value
             g == value'
  <2>1. g[c] = f[c] + k /\ \A b \in C \ {c} : g[b] = f[b]
    BY <1>1, <1>2
  <2>2. IsFiniteSet(C) /\ \A b \in C : f[b] \in Int
    BY <1>1
  <2> HIDE DEF f, g
  <2>3. SumFunctionOnSet(g, C) = SumFunctionOnSet(f, C) + k
    BY <1>3, <2>1, <2>2, SumChange
  <2> QED
    BY <1>3, <2>3 DEF f, g
<1>4. CASE c \notin C
  <2>1. SumFunctionOnSet(value', C) = SumFunctionOnSet(value, C)
    BY <1>1, <1>2, <1>4, SumAgrees
  <2> QED
    BY <1>1, <1>4, <2>1
<1> QED
  BY <1>3, <1>4

\* An addition moves what is due into a counter: no total changes.
LEMMA TotalAdd ==
  ASSUME IInv, NEW w \in Worker, Staged(worker[w]), Add(w), NEW C, Group(C)
  PROVE  Total(C)' = Total(C)
<1> DEFINE q == worker[w].todo
           c == Head(q)[1]
           k == Head(q)[2]
           d == IF c \in C THEN k ELSE 0
<1>1. worker[w] \in Goroutine /\ q \in Seq(Counter \X Int) /\ q # << >>
  BY DEF IInv, Types, Add, Goroutine
<1>2. w \in sem
  BY <1>1 DEF IInv, SlotsHeld, Todos, Todo
<1>3. c \in Counter /\ k \in Int /\ d \in Int
  BY <1>1
<1>4. /\ value' = [value EXCEPT ![c] = @ + k] /\ worker'[w].todo = Tail(q) /\ sem' = sem
      /\ \A v \in Worker \ {w} : worker'[v] = worker[v]
  BY <1>1 DEF Add, IInv, Types, Goroutine
<1>5. \A i, j \in 1..Len(q) : q[i][1] \in C /\ q[j][1] \in C => i = j
  BY <1>1, StagedOnce
<1>6. Due(Tail(q), C) = Due(q, C) - d /\ Due(q, C) \in Int
  BY <1>1, <1>5, DueRest, DueType
<1>7. SumFunctionOnSet(value', C) = SumFunctionOnSet(value, C) + d
  BY <1>3, <1>4, SumOfCounters
<1>8. Total(C) \in Int
  BY TotalType
<1>9. Due(worker'[w].todo, C) = Due(worker[w].todo, C) + (-d) /\ -d \in Int
  BY <1>3, <1>4, <1>6
<1> HIDE DEF d
<1>10. Total(C)' = Total(C) + d + (-d)
  BY <1>2, <1>3, <1>4, <1>7, <1>9, TotalMoves
<1> QED
  BY <1>3, <1>8, <1>10

\* A goroutine that owes nothing takes a slot, or gives it back.
LEMMA TotalSlot ==
  ASSUME IInv, NEW w \in Worker, AcquireSlot(w) \/ Return(w), NEW C, Group(C)
  PROVE  Total(C)' = Total(C)
<1> DEFINE D == [v \in sem |-> Due(worker[v].todo, C)]
           E == [v \in sem' |-> Due(worker'[v].todo, C)]
<1>1. Total(C)' = SumFunctionOnSet(value', C) + SumFunctionOnSet(E, sem')
  BY DEF Total
<1>2. Total(C) = SumFunctionOnSet(value, C) + SumFunctionOnSet(D, sem)
  BY DEF Total
<1>3. value' = value /\ \A v \in Worker \ {w} : worker'[v] = worker[v]
  BY DEF AcquireSlot, Return, Goto, IInv, Types
<1>4. IsFiniteSet(sem) /\ sem \subseteq Worker /\ \A v \in sem : Due(worker[v].todo, C) \in Int
  BY TotalType DEF IInv, Types
<1>5. ASSUME AcquireSlot(w) PROVE SumFunctionOnSet(E, sem') = SumFunctionOnSet(D, sem)
  <2>1. worker'[w].todo = InflightAdd(1) /\ worker[w].pc = "idle" /\ sem' = sem \cup {w}
    BY <1>5 DEF AcquireSlot, Goto, At, IInv, Types
  <2>2. w \notin sem /\ sem' \ {w} = sem
    BY <2>1 DEF IInv, SlotsHeld
  <2>3. Due(InflightAdd(1), C) = 0
    <3>1. Len(InflightAdd(1)) = 1 /\ InflightAdd(1)[1][1] = gauge
      BY DEF InflightAdd, gauge
    <3>2. gauge \notin C
      BY GroupCounters
    <3> QED
      BY <3>1, <3>2, DueIs
  <2>4. E[w] = 0 /\ \A v \in sem' \ {w} : E[v] \in Int /\ D[v] = E[v]
    BY <1>3, <1>4, <2>1, <2>2, <2>3
  <2>5. IsFiniteSet(sem') /\ w \in sem'
    BY <1>4, <2>1, FS_AddElement
  <2> HIDE DEF D, E
  <2>6. SumFunctionOnSet(D, sem' \ {w}) = SumFunctionOnSet(E, sem')
    BY <2>4, <2>5, SumWithout
  <2> QED
    BY <2>2, <2>6
<1>6. ASSUME Return(w) PROVE SumFunctionOnSet(E, sem') = SumFunctionOnSet(D, sem)
  <2>1. worker[w].todo = << >> /\ worker[w].pc = "return" /\ sem' = sem \ {w}
    BY <1>6 DEF Return, At
  <2>2. w \in sem
    BY <2>1 DEF IInv, SlotsHeld
  <2>3. Due(<< >>, C) = 0
    BY DEF Due
  <2>4. D[w] = 0 /\ \A v \in sem \ {w} : D[v] \in Int /\ E[v] = D[v]
    BY <1>3, <1>4, <2>1, <2>2, <2>3
  <2> HIDE DEF D, E
  <2>5. SumFunctionOnSet(E, sem \ {w}) = SumFunctionOnSet(D, sem)
    BY <1>4, <2>2, <2>4, SumWithout
  <2> QED
    BY <2>1, <2>5
<1> QED
  BY <1>1, <1>2, <1>3, <1>5, <1>6

\* Replays and scrapes leave the totals alone.
LEMMA TotalOther ==
  ASSUME IInv, ObserveReplay \/ Scrape \/ Load \/ Respond \/ UNCHANGED vars, NEW C, Group(C)
  PROVE  Total(C)' = Total(C)
<1>1. worker' = worker /\ sem' = sem
  BY DEF ObserveReplay, Scrape, Load, Respond, vars
<1>2. SumFunctionOnSet(value', C) = SumFunctionOnSet(value, C)
  <2>1. CASE ObserveReplay
    <3> DEFINE c == <<"tasksReplayed", 0>>
    <3>1. c \in Counter /\ value' = [value EXCEPT ![c] = @ + 1]
      BY <2>1, Counters DEF ObserveReplay
    <3>2. c \notin C
      <4>1. PICK s \in 1..5 : C \subseteq Stage[s]
        BY DEF Group
      <4>2. c \notin Stage[s]
        <5>1. c[1] = "tasksReplayed" /\ c[2] = 0
          OBVIOUS
        <5>2. /\ Stage[1] = delivered /\ Stage[2] = Histogram \X Bucket
              /\ Stage[3] = Histogram \X {sumNs} /\ Stage[5] = finished
              /\ Stage[4] = Histogram \X {count} \cup {skipped}
          BY DEF Stage
        <5> QED
          BY <5>1, <5>2 DEF delivered, finished, skipped, Histogram
      <4> QED
        BY <4>1, <4>2
    <3> HIDE DEF c
    <3>3. PICK k \in Int : k = 1
      OBVIOUS
    <3>4. SumFunctionOnSet(value', C) = SumFunctionOnSet(value, C) + (IF c \in C THEN k ELSE 0)
      BY <3>1, <3>3, SumOfCounters
    <3>5. SumFunctionOnSet(value, C) \in Int
      BY TotalType
    <3> QED
      BY <3>2, <3>4, <3>5
  <2>2. CASE Scrape \/ Load \/ Respond \/ UNCHANGED vars
    <3>1. value' = value
      BY <2>2 DEF Scrape, Load, Respond, vars
    <3> QED
      BY <3>1
  <2> QED
    BY <2>1, <2>2
<1> QED
  BY <1>1, <1>2 DEF Total

-----------------------------------------------------------------------------
(* What a goroutine takes on.                                              *)

\* Where in the additions to come a group is due, if it is.
LEMMA DueAt ==
  ASSUME NEW r \in Goroutine, Staged(r), NEW s \in 1..5, NEW C, C \subseteq Stage[s],
         NEW i \in Int, i = s - (IF r.pc = "execute" THEN 4 ELSE 6) + Len(r.todo)
  PROVE  Due(r.todo, C)
           = IF i \in 1..Len(r.todo) /\ r.todo[i][1] \in C THEN r.todo[i][2] ELSE 0
<1> DEFINE q == r.todo
           n == Len(q)
           e == IF r.pc = "execute" THEN 4 ELSE 6
<1>1. n \in Nat /\ e \in 4..6 /\ i = s - e + n
  BY DEF Goroutine
<1>2. n <= e /\ \A j \in 1..n : q[j][1] \in Stage[e - n + j]
  BY DEF Staged
<1> HIDE DEF q, n, e
<1>3. ASSUME NEW j \in 1..n, q[j][1] \in C PROVE j = i
  <2>1. q[j][1] \in Stage[s] /\ q[j][1] \in Stage[e - n + j]
    BY <1>2, <1>3
  <2>2. e - n + j \in 1..6 /\ s \in 1..6
    BY <1>1, <1>2
  <2>3. e - n + j = s
    BY <2>1, <2>2, Stages
  <2> QED
    BY <1>1, <2>3
<1>4. CASE i \in 1..n /\ q[i][1] \in C
  BY <1>3, <1>4, DueIs DEF q, n
<1>5. CASE ~(i \in 1..n /\ q[i][1] \in C)
  <2>1. \A j \in 1..n : q[j][1] \notin C
    BY <1>3, <1>5
  <2> QED
    BY <1>5, <2>1, DueIs DEF q, n
<1> QED
  BY <1>4, <1>5

\* The bucket of a value is within a bound exactly if the value is.
LEMMA SearchWithin ==
  ASSUME NEW d \in Value, NEW i \in Bucket
  PROVE  /\ Search(Max0(d)) \in Bucket
         /\ Search(Max0(d)) <= i <=> d \in UpTo(i)
<1> DEFINE x == Max0(d)
           n == Len(upper)
           b == Search(x)
<1>1. x \in Nat /\ n \in Nat /\ i \in 1..(n + 1)
  BY MetricsAssumption DEF Max0, Bucket
<1>2. /\ \A j \in 1..n : upper[j] \in Nat
      /\ \A j, k \in 1..n : j < k => upper[j] < upper[k]
  BY MetricsAssumption
<1>3. b \in Bucket /\ (b <= n => upper[b] >= x) /\ \A j \in 1..(b - 1) : upper[j] < x
  BY <1>1, SearchFinds
<1>4. b \in 1..(n + 1)
  BY <1>3 DEF Bucket
<1>5. d \in UpTo(i) <=> (i <= n => x <= upper[i])
  BY DEF UpTo
<1> HIDE DEF x, n, b
<1>6. ASSUME b <= i, i <= n PROVE x <= upper[i]
  <2>1. b \in 1..n /\ i \in 1..n /\ upper[b] \in Nat /\ upper[i] \in Nat /\ upper[b] >= x
    BY <1>1, <1>2, <1>3, <1>4, <1>6
  <2>2. CASE b = i
    BY <1>1, <2>1, <2>2
  <2>3. CASE b < i
    <3>1. upper[b] < upper[i]
      BY <1>2, <2>1, <2>3
    <3> QED
      BY <1>1, <2>1, <3>1
  <2> QED
    BY <1>1, <1>4, <1>6, <2>2, <2>3
<1>7. ASSUME ~(b <= i) PROVE i <= n /\ ~(x <= upper[i])
  <2>1. i \in 1..(b - 1) /\ i \in 1..n
    BY <1>1, <1>4, <1>7
  <2>2. upper[i] < x /\ upper[i] \in Nat
    BY <1>2, <1>3, <2>1
  <2> QED
    BY <1>1, <2>1, <2>2
<1> QED
  BY <1>3, <1>5, <1>6, <1>7 DEF b, x

\* The stages stay in order when the first addition is made.
LEMMA StagedRest ==
  ASSUME NEW r \in Goroutine, Staged(r), r.todo # << >>
  PROVE  Staged([r EXCEPT !.todo = Tail(r.todo)])
<1> DEFINE q == r.todo
           n == Len(q)
           t == [r EXCEPT !.todo = Tail(q)]
           e == IF r.pc = "execute" THEN 4 ELSE 6
           S == Counter \X Int
<1>1. q \in Seq(S) /\ t.todo = Tail(q) /\ t.pc = r.pc
  BY DEF Goroutine
<1>2. n \in Nat \ {0} /\ Len(Tail(q)) = n - 1 /\ \A i \in 1..(n - 1) : Tail(q)[i] = q[i + 1]
  <2> HIDE DEF q, S
  <2> QED
    BY <1>1, Rest DEF q
<1>3. /\ n <= e
      /\ \A i \in 1..n : /\ q[i][1] \in Stage[e - n + i]
                         /\ q[i][1] \in Histogram \X {sumNs} \/ q[i][1] = gauge \/ q[i][2] = 1
                         /\ q[i][1] = skipped => i = 1 /\ r.pc = "return"
  BY DEF Staged
<1>4. e \in Nat /\ (IF t.pc = "execute" THEN 4 ELSE 6) = e
  BY <1>1
<1> HIDE DEF q, n, e, S, t
<1>5. ASSUME NEW i \in 1..(n - 1)
      PROVE  LET a == Tail(q)[i] IN
               /\ a[1] \in Stage[e - (n - 1) + i]
               /\ a[1] \in Histogram \X {sumNs} \/ a[1] = gauge \/ a[2] = 1
               /\ a[1] = skipped => i = 1 /\ r.pc = "return"
  <2>1. i + 1 \in 1..n /\ e - n + (i + 1) = e - (n - 1) + i /\ i + 1 # 1
    BY <1>2, <1>4
  <2>2. /\ q[i + 1][1] \in Stage[e - n + (i + 1)]
        /\ q[i + 1][1] \in Histogram \X {sumNs} \/ q[i + 1][1] = gauge \/ q[i + 1][2] = 1
        /\ q[i + 1][1] # skipped
    BY <1>3, <2>1
  <2>3. Tail(q)[i] = q[i + 1]
    BY <1>2
  <2> QED
    BY <2>1, <2>2, <2>3
<1>6. Len(Tail(q)) <= e
  BY <1>2, <1>3, <1>4
<1>7. Staged(t)
  BY <1>1, <1>2, <1>4, <1>5, <1>6 DEF Staged
<1> QED
  BY <1>7 DEF t, q

\* q holds the observation of d in h, from its o-th addition on.
Holds(q, o, h, d) == /\ q[o] = <<<<h, Search(Max0(d))>>, 1>>
                     /\ q[o + 1] = <<<<h, sumNs>>, Max0(d)>>
                     /\ q[o + 2] = <<<<h, count>>, 1>>

\* A sequence of one addition, such as Inc's.
LEMMA One ==
  ASSUME NEW S, NEW a \in S, NEW u, u = <<a>>
  PROVE  u \in Seq(S) /\ Len(u) = 1 /\ u[1] = a
OBVIOUS

\* A sequence of three, such as observe's.
LEMMA Three ==
  ASSUME NEW S, NEW a \in S, NEW b \in S, NEW c \in S, NEW u, u = <<a, b, c>>
  PROVE  u \in Seq(S) /\ Len(u) = 3 /\ u[1] = a /\ u[2] = b /\ u[3] = c
OBVIOUS

\* u is s and then t.
IsJoined(u, s, t) == u = s \o t

\* The elements of one sequence after another.
LEMMA Joined ==
  ASSUME NEW S, NEW s \in Seq(S), NEW t \in Seq(S), NEW u, IsJoined(u, s, t)
  PROVE  /\ u \in Seq(S) /\ Len(u) = Len(s) + Len(t)
         /\ \A i \in 1..Len(s) : u[i] = s[i]
         /\ \A i \in 1..Len(t) : u[Len(s) + i] = t[i]
<1>1. s \o t \in Seq(S) /\ Len(s \o t) = Len(s) + Len(t) /\ Len(s) \in Nat /\ Len(t) \in Nat
  OBVIOUS
<1>2. \A i \in 1..Len(s) : (s \o t)[i] = s[i]
  BY <1>1
<1>3. \A i \in 1..Len(t) : (s \o t)[Len(s) + i] = t[i]
  BY <1>1
<1> QED
  BY <1>1, <1>2, <1>3 DEF IsJoined

\* The additions of a run that ends with a request: the outcome, its duration
\* (three), the task finished, the gauge down.
LEMMA Six ==
  ASSUME NEW S, NEW s \in Seq(S), NEW t \in Seq(S), NEW y \in Seq(S), NEW z \in Seq(S),
         NEW q, IsJoined(q, s, t), NEW v, IsJoined(v, q, y), NEW u, IsJoined(u, v, z)
  PROVE  Len(s) = 1 /\ Len(t) = 3 /\ Len(y) = 1 /\ Len(z) = 1 =>
         /\ q \in Seq(S) /\ Len(q) = 4 /\ q[1] = s[1] /\ q[2] = t[1] /\ q[3] = t[2] /\ q[4] = t[3]
         /\ u \in Seq(S) /\ Len(u) = 6 /\ u[5] = y[1] /\ u[6] = z[1]
         /\ u[1] = q[1] /\ u[2] = q[2] /\ u[3] = q[3] /\ u[4] = q[4]
<1>1. /\ q \in Seq(S) /\ Len(q) = Len(s) + Len(t)
      /\ \A i \in 1..Len(s) : q[i] = s[i]
      /\ \A i \in 1..Len(t) : q[Len(s) + i] = t[i]
  BY Joined
<1>2. q \in Seq(S)
  BY <1>1
<1>3. /\ v \in Seq(S) /\ Len(v) = Len(q) + Len(y)
      /\ \A i \in 1..Len(q) : v[i] = q[i]
      /\ \A i \in 1..Len(y) : v[Len(q) + i] = y[i]
  BY <1>2, Joined
<1>4. v \in Seq(S)
  BY <1>3
<1>5. /\ u \in Seq(S) /\ Len(u) = Len(v) + Len(z)
      /\ \A i \in 1..Len(v) : u[i] = v[i]
      /\ \A i \in 1..Len(z) : u[Len(v) + i] = z[i]
  BY <1>4, Joined
<1> SUFFICES ASSUME Len(s) = 1, Len(t) = 3, Len(y) = 1, Len(z) = 1
             PROVE  /\ Len(q) = 4 /\ q[1] = s[1] /\ q[2] = t[1] /\ q[3] = t[2] /\ q[4] = t[3]
                    /\ Len(u) = 6 /\ u[5] = y[1] /\ u[6] = z[1]
                    /\ u[1] = q[1] /\ u[2] = q[2] /\ u[3] = q[3] /\ u[4] = q[4]
  BY <1>2, <1>5
<1>6. q[1] = s[1] /\ q[1 + 1] = t[1] /\ q[1 + 2] = t[2] /\ q[1 + 3] = t[3] /\ Len(q) = 4
  BY <1>1
<1>7. v[4 + 1] = y[1] /\ Len(v) = 5 /\ \A i \in 1..4 : v[i] = q[i]
  BY <1>3, <1>6
<1>8. u[5 + 1] = z[1] /\ Len(u) = 6 /\ \A i \in 1..5 : u[i] = v[i]
  BY <1>5, <1>7
<1> QED
  BY <1>6, <1>7, <1>8

\* An addition to a counter that is an integer.
LEMMA Addition ==
  ASSUME NEW h \in Histogram, NEW d \in Int
  PROVE  /\ <<<<h, Search(d)>>, 1>> \in Counter \X Int
         /\ <<<<h, sumNs>>, Max0(d)>> \in Counter \X Int
         /\ <<<<h, count>>, 1>> \in Counter \X Int
<1>1. Len(upper) \in Nat
  BY MetricsAssumption
<1>2. Search(d) \in 1..(Len(upper) + 1)
  BY SearchFinds DEF Bucket
<1>3. Search(d) \in 1..count /\ sumNs \in 1..count /\ count \in 1..count
  BY <1>1, <1>2 DEF sumNs, count
<1>4. \A i \in 1..count : <<h, i>> \in Counter
  BY Counters
<1>5. Max0(d) \in Int
  BY DEF Max0
<1> QED
  BY <1>3, <1>4, <1>5

\* What a request adds, and what the end of its run adds after it.
LEMMA DeliveryTodo ==
  ASSUME NEW d \in Value, d >= 0, NEW ok \in BOOLEAN
  PROVE  LET q == ObserveDelivery(d, ok)
             u == q \o ObserveTaskFinished(ok) \o InflightAdd(-1) IN
           /\ q \in Seq(Counter \X Int) /\ Len(q) = 4
           /\ q[1][1] \in delivered /\ q[1][2] = 1 /\ Holds(q, 2, "deliveryDuration", d)
           /\ u \in Seq(Counter \X Int) /\ Len(u) = 6
           /\ u[1][1] \in delivered /\ u[1][2] = 1 /\ Holds(u, 2, "deliveryDuration", d)
           /\ u[5][1] \in finished /\ u[5][2] = 1 /\ u[6][1] = gauge
<1> DEFINE S == Counter \X Int
           h == "deliveryDuration"
           x == IF ok THEN <<"deliveriesOK", 0>> ELSE <<"deliveriesFail", 0>>
           y == IF ok THEN <<"tasksSucceeded", 0>> ELSE <<"tasksFailed", 0>>
           a == <<x, 1>>
           b == <<<<h, Search(d)>>, 1>>
           c == <<<<h, sumNs>>, Max0(d)>>
           e == <<<<h, count>>, 1>>
           f == <<y, 1>>
           g == <<gauge, -1>>
<1>1. d \in Int /\ Max0(d) = d /\ h \in Histogram
  BY MetricsAssumption DEF Max0, Histogram
<1>2. x \in delivered /\ x \in Counter /\ y \in finished /\ y \in Counter /\ gauge \in Counter
  BY Counters DEF delivered, finished, gauge
<1>3. a \in S /\ f \in S /\ g \in S
  BY <1>2
<1>4. b \in S /\ c \in S /\ e \in S
  BY <1>1, Addition
<1>5. ObserveDelivery(d, ok) = <<a>> \o <<b, c, e>>
  BY DEF ObserveDelivery, Inc, observe
<1>6. ObserveTaskFinished(ok) = <<f>> /\ InflightAdd(-1) = <<g>>
  BY DEF ObserveTaskFinished, Inc, InflightAdd, gauge
<1>7. a[1] \in delivered /\ a[2] = 1 /\ f[1] \in finished /\ f[2] = 1 /\ g[1] = gauge
  BY <1>2
<1>8. ASSUME NEW q, q[2] = b, q[3] = c, q[4] = e PROVE Holds(q, 2, h, d)
  BY <1>1, <1>8 DEF Holds
<1> DEFINE q == ObserveDelivery(d, ok)
           u == q \o ObserveTaskFinished(ok) \o InflightAdd(-1)
<1> HIDE DEF a, b, c, e, f, g, S, h, x, y
<1> DEFINE s == <<a>>
           t == <<b, c, e>>
           p == ObserveTaskFinished(ok)
           z == InflightAdd(-1)
           v == q \o p
<1>9. IsJoined(q, s, t) /\ IsJoined(v, q, p) /\ IsJoined(u, v, z)
  BY <1>5 DEF IsJoined
<1>10. s \in Seq(S) /\ Len(s) = 1 /\ s[1] = a /\ t \in Seq(S) /\ Len(t) = 3
  BY <1>3, <1>4, One, Three
<1>11. t[1] = b /\ t[2] = c /\ t[3] = e
  BY <1>4, Three
<1>12. p \in Seq(S) /\ Len(p) = 1 /\ p[1] = f
  BY <1>3, <1>6, One
<1>13. z \in Seq(S) /\ Len(z) = 1 /\ z[1] = g
  BY <1>3, <1>6, One
<1> HIDE DEF q, u, v, s, t, p, z
<1>14. /\ q \in Seq(S) /\ Len(q) = 4 /\ q[1] = s[1] /\ q[2] = t[1] /\ q[3] = t[2] /\ q[4] = t[3]
       /\ u \in Seq(S) /\ Len(u) = 6 /\ u[5] = p[1] /\ u[6] = z[1]
       /\ u[1] = q[1] /\ u[2] = q[2] /\ u[3] = q[3] /\ u[4] = q[4]
  BY <1>9, <1>10, <1>12, <1>13, Six
<1>15. Holds(q, 2, h, d) /\ Holds(u, 2, h, d)
  BY <1>8, <1>11, <1>14
<1> QED
  BY <1>7, <1>10, <1>12, <1>13, <1>14, <1>15 DEF q, u, v, p, z, S, h

\* What a commit adds.
LEMMA LatenessTodo ==
  ASSUME NEW late \in Value
  PROVE  LET q == ObserveLateness(late) IN
           q \in Seq(Counter \X Int) /\ Len(q) = 3 /\ Holds(q, 1, "lateness", late)
<1> DEFINE S == Counter \X Int
           h == "lateness"
           d == Max0(late)
           b == <<<<h, Search(d)>>, 1>>
           c == <<<<h, sumNs>>, Max0(d)>>
           e == <<<<h, count>>, 1>>
<1>1. d \in Int /\ Max0(d) = d /\ h \in Histogram
  BY MetricsAssumption DEF Max0, Histogram
<1>2. ObserveLateness(late) = <<b, c, e>>
  BY DEF ObserveLateness, observe
<1> HIDE DEF d
<1>3. b \in S /\ c \in S /\ e \in S
  BY <1>1, Addition
<1>4. ASSUME NEW q, q[1] = b, q[2] = c, q[3] = e PROVE Holds(q, 1, h, late)
  BY <1>1, <1>4 DEF Holds, d
<1> DEFINE q == ObserveLateness(late)
<1> HIDE DEF b, c, e, S, h
<1>5. <<b, c, e>> \in Seq(S)
  BY <1>3
<1> HIDE DEF q
<1>6. q = <<b, c, e>>
  BY <1>2 DEF q
<1>7. Len(q) = 3 /\ q[1] = b /\ q[2] = c /\ q[3] = e
  BY <1>6
<1> QED
  BY <1>4, <1>5, <1>6, <1>7 DEF q, S, h

\* What a skipped run adds, and one that is dropped.
LEMMA SkipTodo ==
  LET q == ObserveSkipped \o ObserveTaskFinished(FALSE) \o InflightAdd(-1)
      u == InflightAdd(-1) IN
    /\ q \in Seq(Counter \X Int) /\ Len(q) = 3
    /\ q[1] = <<skipped, 1>> /\ q[2][1] \in finished /\ q[2][2] = 1 /\ q[3][1] = gauge
    /\ u \in Seq(Counter \X Int) /\ Len(u) = 1 /\ u[1][1] = gauge
<1> DEFINE S == Counter \X Int
           a == <<skipped, 1>>
           b == <<<<"tasksFailed", 0>>, 1>>
           c == <<gauge, -1>>
<1>1. a \in S /\ b \in S /\ c \in S
  BY Counters DEF skipped, gauge
<1>2. ObserveSkipped = <<a>> /\ ObserveTaskFinished(FALSE) = <<b>> /\ InflightAdd(-1) = <<c>>
  BY DEF ObserveSkipped, ObserveTaskFinished, Inc, InflightAdd, gauge, skipped
<1>3. b[1] \in finished /\ b[2] = 1 /\ c[1] = gauge
  BY DEF finished
<1> DEFINE q == ObserveSkipped \o ObserveTaskFinished(FALSE) \o InflightAdd(-1)
           u == InflightAdd(-1)
<1> HIDE DEF a, b, c, S
<1> DEFINE s == ObserveSkipped
           t == ObserveTaskFinished(FALSE)
           v == s \o t
<1>4. IsJoined(q, v, u) /\ IsJoined(v, s, t) /\ s = <<a>> /\ t = <<b>> /\ u = <<c>>
  BY <1>2 DEF IsJoined
<1> HIDE DEF s, t, u, v, q
<1>5. s \in Seq(S) /\ Len(s) = 1 /\ s[1] = a
  BY <1>1, <1>4, One
<1>6. t \in Seq(S) /\ Len(t) = 1 /\ t[1] = b
  BY <1>1, <1>4, One
<1>7. u \in Seq(S) /\ Len(u) = 1 /\ u[1] = c
  BY <1>1, <1>4, One
<1>8. /\ IsJoined(q, v, u) /\ IsJoined(v, s, t)
      /\ s \in Seq(S) /\ t \in Seq(S) /\ u \in Seq(S)
  BY <1>4, <1>5, <1>6, <1>7
<1>9. /\ v \in Seq(S) /\ Len(v) = Len(s) + Len(t)
      /\ \A i \in 1..Len(s) : v[i] = s[i]
      /\ \A i \in 1..Len(t) : v[Len(s) + i] = t[i]
  BY <1>8, Joined
<1>10. Len(v) = 2 /\ v[1] = s[1] /\ v[1 + 1] = t[1]
  BY <1>5, <1>6, <1>9
<1>11. /\ q \in Seq(S) /\ Len(q) = Len(v) + Len(u)
       /\ \A i \in 1..Len(v) : q[i] = v[i]
       /\ \A i \in 1..Len(u) : q[Len(v) + i] = u[i]
  <2>1. v \in Seq(S)
    BY <1>9
  <2> QED
    BY <1>8, <2>1, Joined
<1>12. Len(q) = 3 /\ q[1] = v[1] /\ q[2] = v[2] /\ q[2 + 1] = u[1]
  BY <1>7, <1>10, <1>11
<1>13. q \in Seq(S) /\ Len(q) = 3 /\ q[1] = a /\ q[2] = b /\ q[3] = c
  BY <1>5, <1>6, <1>7, <1>10, <1>11, <1>12
<1> QED
  BY <1>3, <1>7, <1>13 DEF q, v, s, t, u, S, a

\* The goroutine owes the observation of d in h, and no other.
Carries(r, h, d) ==
  /\ \A g \in Histogram :
       /\ \A i \in Bucket :
            Due(r.todo, {g} \X (1..i)) = IF g = h /\ d \in UpTo(i) THEN 1 ELSE 0
       /\ Due(r.todo, {g} \X Bucket) = IF g = h THEN 1 ELSE 0
       /\ Due(r.todo, {<<g, sumNs>>}) = IF g = h THEN Max0(d) ELSE 0
       /\ Due(r.todo, {<<g, count>>}) = IF g = h THEN 1 ELSE 0
  /\ Due(r.todo, delivered) = IF h = "deliveryDuration" THEN 1 ELSE 0

\* What a request or a commit takes on is the observation it notes.
LEMMA ObservationDue ==
  ASSUME NEW r \in Goroutine, Staged(r), NEW h \in Histogram, NEW d \in Value, NEW o \in 1..2,
         o = Len(r.todo) - (IF r.pc = "execute" THEN 4 ELSE 6) + 2, o + 2 <= Len(r.todo),
         Holds(r.todo, o, h, d), h = "deliveryDuration" <=> o = 2,
         o = 2 => r.todo[1][1] \in delivered /\ r.todo[1][2] = 1
  PROVE  Carries(r, h, d)
<1> DEFINE q == r.todo
           n == Len(q)
           e == IF r.pc = "execute" THEN 4 ELSE 6
           b == Search(Max0(d))
<1>1. n \in Nat /\ e \in {4, 6} /\ o = n - e + 2 /\ o + 2 <= n
  <2>1. q \in Seq(Counter \X Int)
    BY DEF Goroutine
  <2>2. n \in Nat
    <3> DEFINE S == Counter \X Int
    <3>1. q \in Seq(S)
      BY <2>1
    <3> HIDE DEF S, q
    <3> QED
      BY <3>1
  <2>3. e \in {4, 6}
    OBVIOUS
  <2>4. o = n - e + 2 /\ o + 2 <= n
    OBVIOUS
  <2> QED
    BY <2>2, <2>3, <2>4
<1>2. /\ Stage[1] = delivered /\ Stage[2] = Histogram \X Bucket /\ Stage[3] = Histogram \X {sumNs}
      /\ Stage[4] = Histogram \X {count} \cup {skipped}
  BY DEF Stage
<1>3. /\ q[o][1] = <<h, b>> /\ q[o][2] = 1 /\ q[o + 1][1] = <<h, sumNs>> /\ q[o + 1][2] = Max0(d)
      /\ q[o + 2][1] = <<h, count>> /\ q[o + 2][2] = 1
  BY DEF Holds
<1>4. o \in 1..n /\ o + 1 \in 1..n /\ o + 2 \in 1..n
  <2> HIDE DEF q, n, e, b
  <2> QED
    BY <1>1
<1>5. Len(upper) \in Nat /\ Bucket = 1..(Len(upper) + 1)
  BY MetricsAssumption DEF Bucket
<1>6. b \in Bucket /\ \A i \in Bucket : b <= i <=> d \in UpTo(i)
  <2>1. Len(upper) + 1 \in Bucket
    BY <1>5
  <2> QED
    BY <2>1, SearchWithin
<1>7. ASSUME NEW s \in 1..5, NEW C, C \subseteq Stage[s], NEW i \in Int, i = s - e + n
      PROVE  Due(q, C) = IF i \in 1..n /\ q[i][1] \in C THEN q[i][2] ELSE 0
  BY <1>7, DueAt
<1> HIDE DEF q, n, e, b
<1>8. ASSUME NEW C, C \subseteq Histogram \X Bucket
      PROVE  Due(q, C) = IF <<h, b>> \in C THEN 1 ELSE 0
  <2>1. PICK s \in 1..5 : s = 2
    OBVIOUS
  <2>2. o \in Int /\ o = s - e + n /\ C \subseteq Stage[s]
    BY <1>1, <1>2, <1>8, <2>1
  <2>3. Due(q, C) = IF o \in 1..n /\ q[o][1] \in C THEN q[o][2] ELSE 0
    BY <1>7, <2>2
  <2> QED
    BY <1>3, <1>4, <2>3
<1>9. ASSUME NEW g \in Histogram
      PROVE  Due(q, {<<g, sumNs>>}) = IF g = h THEN Max0(d) ELSE 0
  <2> DEFINE C == {<<g, sumNs>>}
  <2>0. 3 \in 1..5 /\ o + 1 \in Int
    OBVIOUS
  <2>1. PICK s \in 1..5, j \in Int : s = 3 /\ j = o + 1
    BY <2>0
  <2>2. j = s - e + n /\ C \subseteq Stage[s]
    BY <1>1, <1>2, <2>1
  <2>3. <<h, sumNs>> \in C <=> g = h
    OBVIOUS
  <2> HIDE DEF C
  <2>4. Due(q, C) = IF j \in 1..n /\ q[j][1] \in C THEN q[j][2] ELSE 0
    BY <1>7, <2>2
  <2>5. Due(q, C) = IF g = h THEN Max0(d) ELSE 0
    BY <1>3, <1>4, <2>1, <2>3, <2>4
  <2> QED
    BY <2>5 DEF C
<1>10. ASSUME NEW g \in Histogram
       PROVE  Due(q, {<<g, count>>}) = IF g = h THEN 1 ELSE 0
  <2> DEFINE C == {<<g, count>>}
  <2>0. 4 \in 1..5 /\ o + 2 \in Int
    OBVIOUS
  <2>1. PICK s \in 1..5, j \in Int : s = 4 /\ j = o + 2
    BY <2>0
  <2>2. j = s - e + n /\ C \subseteq Stage[s]
    BY <1>1, <1>2, <2>1
  <2>3. <<h, count>> \in C <=> g = h
    OBVIOUS
  <2> HIDE DEF C
  <2>4. Due(q, C) = IF j \in 1..n /\ q[j][1] \in C THEN q[j][2] ELSE 0
    BY <1>7, <2>2
  <2>5. Due(q, C) = IF g = h THEN 1 ELSE 0
    BY <1>3, <1>4, <2>1, <2>3, <2>4
  <2> QED
    BY <2>5 DEF C
<1>11. Due(q, delivered) = IF h = "deliveryDuration" THEN 1 ELSE 0
  <2>0. 1 \in 1..5 /\ o - 1 \in Int
    OBVIOUS
  <2>1. PICK s \in 1..5, j \in Int : s = 1 /\ j = o - 1
    BY <2>0
  <2>2. j = s - e + n /\ delivered \subseteq Stage[s]
    BY <1>1, <1>2, <2>1
  <2>3. Due(q, delivered) = IF j \in 1..n /\ q[j][1] \in delivered THEN q[j][2] ELSE 0
    BY <1>7, <2>2
  <2>4. CASE o = 1
    <3>1. ~(o = 2) /\ j = 0
      BY <2>1, <2>4
    <3>2. h # "deliveryDuration"
      BY <3>1
    <3>3. j \notin 1..n
      BY <1>1, <3>1
    <3> QED
      BY <2>3, <3>2, <3>3
  <2>5. CASE o = 2
    <3>1. j = 1 /\ j \in 1..n /\ q[j][1] \in delivered /\ q[j][2] = 1
      BY <1>1, <2>1, <2>5 DEF q
    <3> QED
      BY <2>3, <2>5, <3>1
  <2> QED
    BY <2>4, <2>5
<1>12. ASSUME NEW g \in Histogram, NEW i \in Bucket
       PROVE  Due(q, {g} \X (1..i)) = IF g = h /\ d \in UpTo(i) THEN 1 ELSE 0
  <2> DEFINE C == {g} \X (1..i)
  <2>1. C \subseteq Histogram \X Bucket
    BY <1>5
  <2>2. <<h, b>> \in C <=> g = h /\ d \in UpTo(i)
    <3>1. b \in 1..i <=> b <= i
      BY <1>5, <1>6
    <3> QED
      BY <1>6, <3>1
  <2> HIDE DEF C
  <2>3. Due(q, C) = IF g = h /\ d \in UpTo(i) THEN 1 ELSE 0
    BY <1>8, <2>1, <2>2
  <2> QED
    BY <2>3 DEF C
<1>13. ASSUME NEW g \in Histogram PROVE Due(q, {g} \X Bucket) = IF g = h THEN 1 ELSE 0
  <2> DEFINE C == {g} \X Bucket
  <2>1. C \subseteq Histogram \X Bucket /\ (<<h, b>> \in C <=> g = h)
    BY <1>6
  <2> HIDE DEF C
  <2>2. Due(q, C) = IF g = h THEN 1 ELSE 0
    BY <1>8, <2>1
  <2> QED
    BY <2>2 DEF C
<1> QED
  BY <1>9, <1>10, <1>11, <1>12, <1>13 DEF Carries, q

\* What is noted adds one to the sums the value is in.
LEMMA NotedSums ==
  ASSUME IInv, NEW h \in Histogram, NEW d \in Value, Note(h, d), NEW g \in Histogram
  PROVE  \A S \in SUBSET Value :
           /\ SumFunctionOnSet(noted[g], S) \in Int
           /\ SumFunctionOnSet(noted'[g], S)
                = SumFunctionOnSet(noted[g], S) + (IF g = h /\ d \in S THEN 1 ELSE 0)
<1> DEFINE f == noted[g]
           f1 == noted'[g]
<1>1. /\ IsFiniteSet(Value) /\ \A v \in Value : f[v] \in Nat /\ Max0(v) \in Nat
      /\ noted \in [Histogram -> [Value -> Nat]]
  BY MetricsAssumption DEF IInv, Types, Max0
<1>2. /\ g # h => f1 = f
      /\ g = h => f1[d] = f[d] + 1 /\ \A v \in Value \ {d} : f1[v] = f[v]
  BY <1>1 DEF Note
<1>3. ASSUME NEW S \in SUBSET Value
      PROVE  /\ SumFunctionOnSet(f, S) \in Int
             /\ SumFunctionOnSet(f1, S)
                  = SumFunctionOnSet(f, S) + (IF g = h /\ d \in S THEN 1 ELSE 0)
  <2>1. IsFiniteSet(S) /\ \A v \in S : f[v] \in Int
    BY <1>1, FS_Subset
  <2> HIDE DEF f, f1
  <2>2. SumFunctionOnSet(f, S) \in Int
    BY <2>1, SumType
  <2>3. CASE g # h
    BY <1>2, <2>2, <2>3
  <2>4. CASE g = h /\ d \notin S
    <3>1. \A v \in S : f1[v] = f[v]
      BY <1>2, <2>4
    <3>2. SumFunctionOnSet(f1, S) = SumFunctionOnSet(f, S)
      BY <2>1, <3>1, SumAgrees
    <3> QED
      BY <2>2, <2>4, <3>2
  <2>5. CASE g = h /\ d \in S
    <3>1. PICK k \in Int : k = 1
      OBVIOUS
    <3>2. d \in S /\ f1[d] = f[d] + k /\ \A v \in S \ {d} : f1[v] = f[v]
      BY <1>2, <2>5, <3>1
    <3>3. SumFunctionOnSet(f1, S) = SumFunctionOnSet(f, S) + k
      BY <2>1, <3>2, SumChange
    <3> QED
      BY <2>2, <2>5, <3>1, <3>3
  <2> QED
    BY <2>2, <2>3, <2>4, <2>5
<1> QED
  BY <1>3

\* It adds its nanoseconds to their sum.
LEMMA NotedTimes ==
  ASSUME IInv, NEW h \in Histogram, NEW d \in Value, Note(h, d), NEW g \in Histogram
  PROVE  /\ SumFunction([v \in Value |-> noted[g][v] * Max0(v)]) \in Int
         /\ SumFunction([v \in Value |-> noted'[g][v] * Max0(v)])
              = SumFunction([v \in Value |-> noted[g][v] * Max0(v)])
                  + (IF g = h THEN Max0(d) ELSE 0)
<1> DEFINE f == noted[g]
           f1 == noted'[g]
           m == [v \in Value |-> f[v] * Max0(v)]
           m1 == [v \in Value |-> f1[v] * Max0(v)]
<1>1. /\ IsFiniteSet(Value) /\ \A v \in Value : f[v] \in Nat /\ Max0(v) \in Nat
      /\ noted \in [Histogram -> [Value -> Nat]]
  BY MetricsAssumption DEF IInv, Types, Max0
<1>2. /\ g # h => f1 = f
      /\ g = h => f1[d] = f[d] + 1 /\ \A v \in Value \ {d} : f1[v] = f[v]
  BY <1>1 DEF Note
<1>4. /\ SumFunctionOnSet(m, Value) \in Int
      /\ SumFunctionOnSet(m1, Value) = SumFunctionOnSet(m, Value) + (IF g = h THEN Max0(d) ELSE 0)
  <2>1. \A v \in Value : m[v] = f[v] * Max0(v) /\ m1[v] = f1[v] * Max0(v)
    OBVIOUS
  <2>2. \A x, y \in Nat : x * y \in Int /\ (x + 1) * y = x * y + y
    OBVIOUS
  <2> HIDE DEF f, f1, m, m1
  <2>3. \A v \in Value : m[v] \in Int
    BY <1>1, <2>1, <2>2
  <2>4. SumFunctionOnSet(m, Value) \in Int
    BY <1>1, <2>3, SumType
  <2>5. CASE g # h
    <3>1. \A v \in Value : m1[v] = m[v]
      BY <1>2, <2>1, <2>5
    <3>2. SumFunctionOnSet(m1, Value) = SumFunctionOnSet(m, Value)
      BY <1>1, <2>3, <3>1, SumAgrees
    <3> QED
      BY <2>4, <2>5, <3>2
  <2>6. CASE g = h
    <3>1. PICK k \in Int : k = Max0(d)
      BY <1>1
    <3>2. \A v \in Value \ {d} : m1[v] = m[v]
      BY <1>2, <2>1, <2>6
    <3>3. m1[d] = m[d] + k
      <4>1. f1[d] = f[d] + 1 /\ f[d] \in Nat /\ Max0(d) \in Nat
        BY <1>1, <1>2, <2>6
      <4>2. (f[d] + 1) * Max0(d) = f[d] * Max0(d) + Max0(d)
        BY <2>2, <4>1
      <4> QED
        BY <2>1, <3>1, <4>1, <4>2
    <3>4. SumFunctionOnSet(m1, Value) = SumFunctionOnSet(m, Value) + k
      <4>1. /\ IsFiniteSet(Value) /\ \A v \in Value : m[v] \in Int
            /\ m1[d] = m[d] + k /\ \A v \in Value \ {d} : m1[v] = m[v]
        BY <1>1, <2>3, <3>2, <3>3
      <4> QED
        BY <4>1, SumChange
    <3> QED
      BY <2>4, <2>6, <3>1, <3>4
  <2> QED
    BY <2>5, <2>6
<1>5. SumFunction(m) = SumFunctionOnSet(m, Value) /\ SumFunction(m1) = SumFunctionOnSet(m1, Value)
  <2>1. DOMAIN m = Value /\ DOMAIN m1 = Value
    OBVIOUS
  <2> HIDE DEF m, m1
  <2> QED
    BY <2>1 DEF SumFunction
<1> QED
  BY <1>4, <1>5

\* What the steps of a run take on is in the order of the stages: the additions
\* of an observation, those before it and those after it.
LEMMA StagedBy ==
  ASSUME NEW r \in Goroutine, NEW e \in {4, 6}, e = IF r.pc = "execute" THEN 4 ELSE 6,
         NEW n \in 0..e, n = Len(r.todo),
         \A i \in 1..n : \/ /\ r.todo[i][1] \in Stage[e - n + i] /\ r.todo[i][1] # skipped
                            /\ r.todo[i][2] = 1 \/ e - n + i \in {3, 6}
                         \/ r.todo[i] = <<skipped, 1>> /\ e - n + i = 4 /\ i = 1 /\ r.pc = "return"
  PROVE  Staged(r)
<1> DEFINE q == r.todo
<1>1. /\ Stage[3] = Histogram \X {sumNs} /\ Stage[6] = {gauge} /\ skipped \in Stage[4]
  BY DEF Stage
<1>2. ASSUME NEW i \in 1..n
      PROVE  /\ q[i][1] \in Stage[e - n + i]
             /\ q[i][1] \in Histogram \X {sumNs} \/ q[i][1] = gauge \/ q[i][2] = 1
             /\ q[i][1] = skipped => i = 1 /\ r.pc = "return"
  <2>1. CASE /\ q[i][1] \in Stage[e - n + i] /\ q[i][1] # skipped
             /\ q[i][2] = 1 \/ e - n + i \in {3, 6}
    BY <1>1, <2>1
  <2>2. CASE q[i] = <<skipped, 1>> /\ e - n + i = 4 /\ i = 1 /\ r.pc = "return"
    BY <1>1, <2>2
  <2> QED
    BY <2>1, <2>2
<1>3. n <= e
  OBVIOUS
<1> HIDE DEF q
<1> QED
  BY <1>2, <1>3 DEF Staged, q

\* An observation in its stages.
LEMMA HoldsStaged ==
  ASSUME NEW q, NEW o, NEW h \in Histogram, NEW d \in Value, Holds(q, o, h, d)
  PROVE  /\ q[o][1] \in Stage[2] /\ q[o][2] = 1 /\ q[o + 1][1] \in Stage[3]
         /\ q[o + 2][1] \in Stage[4] /\ q[o + 2][2] = 1 /\ q[o + 2][1] # skipped
<1>1. Search(Max0(d)) \in Bucket
  <2>1. Max0(d) \in Int
    BY MetricsAssumption DEF Max0
  <2> QED
    BY <2>1, SearchFinds
<1>2. <<h, count>> # skipped
  BY DEF skipped, Histogram
<1>3. /\ Stage[2] = Histogram \X Bucket /\ Stage[3] = Histogram \X {sumNs}
      /\ Stage[4] = Histogram \X {count} \cup {skipped}
  BY DEF Stage
<1> QED
  BY <1>1, <1>2, <1>3 DEF Holds

\* Only the fourth stage holds the counter of the skipped.
LEMMA SkippedStage == \A s \in 1..6 : s # 4 => skipped \notin Stage[s]
<1>1. skipped \in Stage[4]
  BY DEF Stage
<1> QED
  BY <1>1, Stages

\* From u to r a goroutine takes on no finished task without its observations:
\* with what it owes as r, or with what stands for it in u.
Settles(u, r) ==
  \A h \in Histogram : \A X \in {{h} \X Bucket, {<<h, count>>}} :
    Due(r.todo, finished) + Unfinished(r, h, X)
      <= Due(r.todo, {skipped}) + Due(r.todo, X) + Unfinished(u, h, X)

\* A request, and the end of the run if it was the last.
LEMMA DeliveryTakes ==
  ASSUME NEW r \in Goroutine, NEW u \in Goroutine, u.pc = "execute", u.todo = << >>,
         NEW d \in Value, d >= 0, NEW ok \in BOOLEAN,
         \/ r.pc = "execute" /\ r.todo = ObserveDelivery(d, ok)
         \/ /\ r.pc = "return"
            /\ r.todo = ObserveDelivery(d, ok) \o ObserveTaskFinished(ok) \o InflightAdd(-1)
  PROVE  Staged(r) /\ Carries(r, "deliveryDuration", d) /\ Settles(u, r)
<1> DEFINE q == r.todo
           n == Len(q)
           h == "deliveryDuration"
<1>1. \/ r.pc = "execute" /\ n = 4
      \/ /\ r.pc = "return" /\ n = 6
         /\ q[5][1] \in finished /\ q[5][2] = 1 /\ q[6][1] = gauge
  BY DeliveryTodo
<1>2. q[1][1] \in delivered /\ q[1][2] = 1 /\ Holds(q, 2, h, d)
  BY DeliveryTodo
<1>3. h \in Histogram /\ Histogram = {h, "lateness"} /\ h # "lateness"
  BY DEF Histogram
<1>4. PICK e \in {4, 6} : e = IF r.pc = "execute" THEN 4 ELSE 6
  OBVIOUS
<1>5. n = e /\ (e = 4 <=> r.pc = "execute") /\ n \in 0..e
  <2> HIDE DEF q, n
  <2> QED
    BY <1>1, <1>4
<1>6. /\ Stage[1] = delivered /\ Stage[5] = finished /\ Stage[6] = {gauge}
      /\ Stage[4] = Histogram \X {count} \cup {skipped}
  BY DEF Stage
<1>7. /\ q[2][1] \in Stage[2] /\ q[2][2] = 1 /\ q[2 + 1][1] \in Stage[3]
      /\ q[2 + 2][1] \in Stage[4] /\ q[2 + 2][2] = 1 /\ q[2 + 2][1] # skipped
  BY <1>2, <1>3, HoldsStaged
<1> HIDE DEF q, h, n
<1>8. ASSUME NEW i \in 1..n
      PROVE  /\ q[i][1] \in Stage[i] /\ q[i][1] # skipped
             /\ q[i][2] = 1 \/ i \in {3, 6}
  <2>1. CASE i = 1
    BY <1>2, <1>6, <2>1, SkippedStage
  <2>2. CASE i = 2
    BY <1>7, <2>2, SkippedStage
  <2>3. CASE i = 3
    BY <1>7, <2>3, SkippedStage
  <2>4. CASE i = 4
    BY <1>7, <2>4
  <2>5. CASE i = 5
    <3>1. q[5][1] \in finished /\ q[5][2] = 1
      BY <1>1, <1>5, <2>5 DEF n
    <3> QED
      BY <1>6, <2>5, <3>1, SkippedStage
  <2>6. CASE i = 6
    <3>1. q[6][1] = gauge
      BY <1>1, <1>5, <2>6 DEF n
    <3> QED
      BY <1>6, <2>6, <3>1, SkippedStage
  <2> QED
    BY <1>5, <2>1, <2>2, <2>3, <2>4, <2>5, <2>6
<1>9. Staged(r)
  <2>1. n = Len(r.todo) /\ \A i \in 1..n : e - n + i = i
    BY <1>5 DEF n, q
  <2>2. \A i \in 1..n : /\ r.todo[i][1] \in Stage[e - n + i] /\ r.todo[i][1] # skipped
                        /\ r.todo[i][2] = 1 \/ e - n + i \in {3, 6}
    BY <1>8, <2>1 DEF q
  <2> QED
    BY <1>4, <1>5, <2>1, <2>2, StagedBy
<1>10. Carries(r, h, d)
  <2>1. PICK o \in 1..2 : o = 2
    OBVIOUS
  <2>2. /\ o = Len(r.todo) - (IF r.pc = "execute" THEN 4 ELSE 6) + 2 /\ o + 2 <= Len(r.todo)
    BY <1>4, <1>5, <2>1 DEF n, q
  <2>3. /\ Holds(r.todo, o, h, d) /\ (h = "deliveryDuration" <=> o = 2)
        /\ o = 2 => r.todo[1][1] \in delivered /\ r.todo[1][2] = 1
    BY <1>2, <2>1 DEF q, h
  <2> QED
    BY <1>3, <1>9, <2>2, <2>3, ObservationDue
<1>11. Due(q, {skipped}) = 0 /\ Due(q, finished) = IF r.pc = "execute" THEN 0 ELSE 1
  <2>1. ASSUME NEW s \in 1..5, NEW C, C \subseteq Stage[s]
        PROVE  Due(q, C) = IF s \in 1..n /\ q[s][1] \in C THEN q[s][2] ELSE 0
    <3>1. PICK i \in Int : i = s
      OBVIOUS
    <3>2. i = s - (IF r.pc = "execute" THEN 4 ELSE 6) + Len(r.todo)
      BY <1>4, <1>5, <3>1 DEF n, q
    <3>3. Due(r.todo, C)
            = IF i \in 1..Len(r.todo) /\ r.todo[i][1] \in C THEN r.todo[i][2] ELSE 0
      BY <1>9, <2>1, <3>2, DueAt
    <3> QED
      BY <3>1, <3>3 DEF q, n
  <2>2. PICK s \in 1..5 : s = 4
    OBVIOUS
  <2>3. {skipped} \subseteq Stage[s] /\ q[s][1] # skipped
    BY <1>6, <1>7, <2>2
  <2>4. Due(q, {skipped}) = 0
    BY <2>1, <2>3
  <2>5. PICK t \in 1..5 : t = 5
    OBVIOUS
  <2>6. Due(q, finished) = IF t \in 1..n /\ q[t][1] \in finished THEN q[t][2] ELSE 0
    BY <1>6, <2>1, <2>5
  <2>7. CASE r.pc = "execute"
    <3>1. t \notin 1..n
      BY <1>5, <2>5, <2>7
    <3> QED
      BY <2>4, <2>6, <2>7, <3>1
  <2>8. CASE r.pc # "execute"
    <3>1. t \in 1..n /\ q[t][1] \in finished /\ q[t][2] = 1
      BY <1>1, <1>5, <2>5, <2>8
    <3> QED
      BY <2>4, <2>6, <2>8, <3>1
  <2> QED
    BY <2>7, <2>8
<1>12. Settles(u, r)
  <2> SUFFICES ASSUME NEW g \in Histogram, NEW X \in {{g} \X Bucket, {<<g, count>>}}
               PROVE  Due(q, finished) + Unfinished(r, g, X)
                        <= Due(q, {skipped}) + Due(q, X) + Unfinished(u, g, X)
    BY DEF Settles, q
  <2>1. Due(q, X) = IF g = h THEN 1 ELSE 0
    BY <1>10 DEF Carries, q
  <2>2. Due(<< >>, X) = 0
    BY DEF Due
  <2>3. Unfinished(u, g, X) = IF g = h THEN 0 ELSE 1
    BY <1>3, <2>2 DEF Unfinished
  <2>4. Unfinished(r, g, X) = IF r.pc = "execute" THEN 1 ELSE 0
    BY <1>3, <2>1 DEF Unfinished, q
  <2> QED
    BY <1>11, <2>1, <2>3, <2>4
<1> QED
  BY <1>9, <1>10, <1>12 DEF h

\* A commit.
LEMMA CommitTakes ==
  ASSUME NEW r \in Goroutine, NEW u \in Goroutine, u.pc = "reread", NEW late \in Value,
         r.pc = "execute", r.todo = ObserveLateness(late)
  PROVE  Staged(r) /\ Carries(r, "lateness", late) /\ Settles(u, r)
<1> DEFINE q == r.todo
           n == Len(q)
           h == "lateness"
<1>1. n = 3 /\ Holds(q, 1, h, late)
  BY LatenessTodo
<1>2. h \in Histogram /\ Histogram = {h, "deliveryDuration"} /\ h # "deliveryDuration"
  BY DEF Histogram
<1>3. PICK e \in {4, 6} : e = 4 /\ e = IF r.pc = "execute" THEN 4 ELSE 6
  OBVIOUS
<1>4. /\ Stage[5] = finished /\ Stage[4] = Histogram \X {count} \cup {skipped}
  BY DEF Stage
<1>5. /\ q[1][1] \in Stage[2] /\ q[1][2] = 1 /\ q[1 + 1][1] \in Stage[3]
      /\ q[1 + 2][1] \in Stage[4] /\ q[1 + 2][2] = 1 /\ q[1 + 2][1] # skipped
  BY <1>1, <1>2, HoldsStaged
<1> HIDE DEF q, h, n
<1>6. ASSUME NEW i \in 1..n
      PROVE  /\ q[i][1] \in Stage[i + 1] /\ q[i][1] # skipped
             /\ q[i][2] = 1 \/ i + 1 \in {3, 6}
  <2>1. CASE i = 1
    BY <1>5, <2>1, SkippedStage
  <2>2. CASE i = 2
    BY <1>5, <2>2, SkippedStage
  <2>3. CASE i = 3
    BY <1>5, <2>3
  <2> QED
    BY <1>1, <2>1, <2>2, <2>3
<1>7. Staged(r)
  <2>1. n = Len(r.todo) /\ n \in 0..e /\ \A i \in 1..n : e - n + i = i + 1
    BY <1>1, <1>3 DEF n, q
  <2>2. \A i \in 1..n : /\ r.todo[i][1] \in Stage[e - n + i] /\ r.todo[i][1] # skipped
                        /\ r.todo[i][2] = 1 \/ e - n + i \in {3, 6}
    BY <1>6, <2>1 DEF q
  <2> QED
    BY <1>3, <2>1, <2>2, StagedBy
<1>8. Carries(r, h, late)
  <2>1. PICK o \in 1..2 : o = 1
    OBVIOUS
  <2>2. o = Len(r.todo) - (IF r.pc = "execute" THEN 4 ELSE 6) + 2 /\ o + 2 <= Len(r.todo)
    BY <1>1, <1>3, <2>1 DEF n, q
  <2>3. /\ Holds(r.todo, o, h, late) /\ (h = "deliveryDuration" <=> o = 2)
        /\ o = 2 => r.todo[1][1] \in delivered /\ r.todo[1][2] = 1
    BY <1>1, <1>2, <2>1 DEF q
  <2> QED
    BY <1>2, <1>7, <2>2, <2>3, ObservationDue
<1>9. Due(q, {skipped}) = 0 /\ Due(q, finished) = 0
  <2>1. ASSUME NEW s \in 1..5, NEW C, C \subseteq Stage[s], NEW i \in Int, i = s - 1
        PROVE  Due(q, C) = IF i \in 1..n /\ q[i][1] \in C THEN q[i][2] ELSE 0
    <3>1. i = s - (IF r.pc = "execute" THEN 4 ELSE 6) + Len(r.todo)
      BY <1>1, <1>3, <2>1 DEF n, q
    <3> QED
      BY <1>7, <2>1, <3>1, DueAt DEF q, n
  <2>2. PICK s \in 1..5, i \in Int : s = 4 /\ i = 3
    OBVIOUS
  <2>3. {skipped} \subseteq Stage[s] /\ q[i][1] # skipped /\ i = s - 1
    BY <1>4, <1>5, <2>2
  <2>4. Due(q, {skipped}) = 0
    BY <2>1, <2>3
  <2>5. PICK t \in 1..5, j \in Int : t = 5 /\ j = 4
    OBVIOUS
  <2>6. finished \subseteq Stage[t] /\ j = t - 1 /\ j \notin 1..n
    BY <1>1, <1>4, <2>5
  <2>7. Due(q, finished) = 0
    BY <2>1, <2>6
  <2> QED
    BY <2>4, <2>7
<1>10. Settles(u, r)
  <2> SUFFICES ASSUME NEW g \in Histogram, NEW X \in {{g} \X Bucket, {<<g, count>>}}
               PROVE  Due(q, finished) + Unfinished(r, g, X)
                        <= Due(q, {skipped}) + Due(q, X) + Unfinished(u, g, X)
    BY DEF Settles, q
  <2>1. Due(q, X) = IF g = h THEN 1 ELSE 0
    BY <1>8 DEF Carries, q
  <2>2. Unfinished(u, g, X) = 0
    BY DEF Unfinished
  <2>3. Unfinished(r, g, X) = IF g = h THEN 1 ELSE 0
    BY <1>2, <2>1 DEF Unfinished, q, h
  <2> QED
    BY <1>9, <2>1, <2>2, <2>3
<1> QED
  BY <1>7, <1>8, <1>10 DEF h

\* The goroutine owes no observation.
Quiet(r) ==
  /\ \A g \in Histogram :
       /\ \A i \in Bucket : Due(r.todo, {g} \X (1..i)) = 0
       /\ Due(r.todo, {g} \X Bucket) = 0
       /\ Due(r.todo, {<<g, sumNs>>}) = 0
       /\ Due(r.todo, {<<g, count>>}) = 0
  /\ Due(r.todo, delivered) = 0

\* A run that is skipped, and one that is dropped.
LEMMA SkipTakes ==
  ASSUME NEW r \in Goroutine, NEW u \in Goroutine, u.pc = "reread", r.pc = "return",
         \/ r.todo = ObserveSkipped \o ObserveTaskFinished(FALSE) \o InflightAdd(-1)
         \/ r.todo = InflightAdd(-1)
  PROVE  Staged(r) /\ Quiet(r) /\ Settles(u, r)
<1> DEFINE q == r.todo
           n == Len(q)
<1>1. \/ /\ n = 3 /\ q[1] = <<skipped, 1>> /\ q[2][1] \in finished /\ q[2][2] = 1
         /\ q[3][1] = gauge
      \/ n = 1 /\ q[1][1] = gauge
  BY SkipTodo
<1>2. PICK e \in {4, 6} : e = 6 /\ e = IF r.pc = "execute" THEN 4 ELSE 6
  OBVIOUS
<1>3. /\ Stage[5] = finished /\ Stage[6] = {gauge} /\ Stage[4] = Histogram \X {count} \cup {skipped}
  BY DEF Stage
<1>4. n = Len(r.todo)
  OBVIOUS
<1> HIDE DEF q, n
<1>5. n \in 0..e
  BY <1>1, <1>2
<1>6. ASSUME NEW i \in 1..n
      PROVE  \/ /\ q[i][1] \in Stage[e - n + i] /\ q[i][1] # skipped
                /\ q[i][2] = 1 \/ e - n + i \in {3, 6}
             \/ q[i] = <<skipped, 1>> /\ e - n + i = 4 /\ i = 1 /\ r.pc = "return"
  <2>1. CASE n = 1
    BY <1>1, <1>2, <1>3, <2>1, SkippedStage
  <2>2. CASE n = 3
    <3>1. CASE i = 1
      BY <1>1, <1>2, <2>2, <3>1
    <3>2. CASE i = 2
      <4>1. e - n + i = 5 /\ q[i][1] \in finished /\ q[i][2] = 1
        BY <1>1, <1>2, <2>2, <3>2
      <4> QED
        BY <1>3, <4>1, SkippedStage
    <3>3. CASE i = 3
      <4>1. e - n + i = 6 /\ q[i][1] = gauge
        BY <1>1, <1>2, <2>2, <3>3
      <4> QED
        BY <1>3, <4>1, SkippedStage
    <3> QED
      BY <2>2, <3>1, <3>2, <3>3
  <2> QED
    BY <1>1, <2>1, <2>2
<1>7. Staged(r)
  BY <1>2, <1>4, <1>5, <1>6, StagedBy DEF q
<1>8. ASSUME NEW C, C \cap (finished \cup {skipped, gauge}) = {} PROVE Due(q, C) = 0
  <2>1. \A i \in 1..n : q[i][1] \in finished \cup {skipped, gauge}
    <3> SUFFICES ASSUME NEW i \in 1..n PROVE q[i][1] \in finished \cup {skipped, gauge}
      OBVIOUS
    <3>1. i = 1 \/ (n = 3 /\ i = 2) \/ (n = 3 /\ i = 3)
      BY <1>1
    <3> QED
      BY <1>1, <3>1
  <2>2. \A i \in 1..Len(q) : q[i][1] \notin C
    BY <1>8, <2>1 DEF n
  <2> QED
    BY <2>2, DueIs
<1>9. Quiet(r)
  <2>1. \A c \in finished \cup {skipped, gauge} : c[1] \notin Histogram /\ c \notin delivered
    BY DEF finished, skipped, gauge, delivered, Histogram
  <2>2. ASSUME NEW g \in Histogram, NEW Z PROVE ({g} \X Z) \cap (finished \cup {skipped, gauge}) = {}
    BY <2>1
  <2>3. ASSUME NEW g \in Histogram, NEW z PROVE {<<g, z>>} \cap (finished \cup {skipped, gauge}) = {}
    <3>1. <<g, z>>[1] = g
      OBVIOUS
    <3> QED
      BY <2>1, <3>1
  <2>4. delivered \cap (finished \cup {skipped, gauge}) = {}
    BY <2>1
  <2>5. ASSUME NEW g \in Histogram
        PROVE  /\ \A i \in Bucket : Due(q, {g} \X (1..i)) = 0
               /\ Due(q, {g} \X Bucket) = 0
               /\ Due(q, {<<g, sumNs>>}) = 0
               /\ Due(q, {<<g, count>>}) = 0
    BY <1>8, <2>2, <2>3
  <2>6. Due(q, delivered) = 0
    BY <1>8, <2>4
  <2> QED
    BY <2>5, <2>6 DEF Quiet, q
<1>10. Due(q, finished) = Due(q, {skipped}) /\ Due(q, finished) \in Int
  <2>1. finished \cap {skipped, gauge} = {} /\ skipped # gauge
    BY DEF finished, skipped, gauge
  <2>2. CASE n = 1
    <3>1. \A i \in 1..Len(q) : q[i][1] \notin finished /\ q[i][1] \notin {skipped}
      BY <1>1, <2>1, <2>2 DEF n
    <3>2. Due(q, finished) = 0 /\ Due(q, {skipped}) = 0
      BY <3>1, DueIs
    <3> QED
      BY <3>2
  <2>3. CASE n = 3
    <3>0. q[1][1] = skipped /\ q[1][2] = 1
      BY <1>1, <2>3
    <3>1. /\ 2 \in 1..Len(q) /\ q[2][1] \in finished /\ q[2][2] = 1
          /\ \A j \in 1..Len(q) : q[j][1] \in finished => j = 2
      BY <1>1, <2>1, <2>3, <3>0 DEF n
    <3>2. /\ 1 \in 1..Len(q) /\ q[1][1] \in {skipped} /\ q[1][2] = 1
          /\ \A j \in 1..Len(q) : q[j][1] \in {skipped} => j = 1
      BY <1>1, <2>1, <2>3, <3>0 DEF n
    <3>3. Due(q, finished) = 1
      BY <3>1, DueIs
    <3>4. Due(q, {skipped}) = 1
      BY <3>2, DueIs
    <3> QED
      BY <3>3, <3>4
  <2> QED
    BY <1>1, <2>2, <2>3
<1>11. Settles(u, r)
  <2> SUFFICES ASSUME NEW g \in Histogram, NEW X \in {{g} \X Bucket, {<<g, count>>}}
               PROVE  Due(q, finished) + Unfinished(r, g, X)
                        <= Due(q, {skipped}) + Due(q, X) + Unfinished(u, g, X)
    BY DEF Settles, q
  <2>1. Due(q, X) = 0
    <3>1. Due(q, {g} \X Bucket) = 0 /\ Due(q, {<<g, count>>}) = 0
      BY <1>9 DEF Quiet, q
    <3>2. X = {g} \X Bucket \/ X = {<<g, count>>}
      OBVIOUS
    <3> QED
      BY <3>1, <3>2
  <2>2. Unfinished(u, g, X) = 0 /\ Unfinished(r, g, X) = 0
    BY DEF Unfinished
  <2> QED
    BY <1>10, <2>1, <2>2
<1> QED
  BY <1>7, <1>9, <1>11

-----------------------------------------------------------------------------
(* The observations stay accounted for.                                    *)

\* The totals that Observed is about.
Sums(h) == {{h} \X (1..i) : i \in Bucket} \cup {{<<h, sumNs>>}, {<<h, count>>}}

\* They are totals of groups.
LEMMA SumsAreGroups == \A h \in Histogram : \A C \in Sums(h) : Group(C)
<1> SUFFICES ASSUME NEW h \in Histogram, NEW C \in Sums(h) PROVE Group(C)
  OBVIOUS
<1>1. CASE \E i \in Bucket : C = {h} \X (1..i)
  BY <1>1, Groups
<1>2. CASE C = {<<h, sumNs>>} \/ C = {<<h, count>>}
  BY <1>2, Groups
<1> QED
  BY <1>1, <1>2 DEF Sums

\* Steps that leave the totals alone and note nothing.
LEMMA ObservedKept ==
  ASSUME Observed, noted' = noted, \A h \in Histogram : \A C \in Sums(h) : Total(C)' = Total(C),
         Total(delivered)' = Total(delivered)
  PROVE  Observed'
<1>1. ASSUME NEW h \in Histogram
      PROVE  /\ \A i \in Bucket : Total({h} \X (1..i))' = SumFunctionOnSet(noted'[h], UpTo(i))
             /\ Total({<<h, sumNs>>})' = SumFunction([v \in Value |-> noted'[h][v] * Max0(v)])
             /\ Total({<<h, count>>})' = SumFunctionOnSet(noted'[h], Value)
  <2>1. ASSUME NEW i \in Bucket PROVE Total({h} \X (1..i))' = SumFunctionOnSet(noted'[h], UpTo(i))
    <3>1. {h} \X (1..i) \in Sums(h)
      BY DEF Sums
    <3>2. Total({h} \X (1..i)) = SumFunctionOnSet(noted[h], UpTo(i))
      BY DEF Observed
    <3> QED
      BY <3>1, <3>2
  <2>2. {<<h, sumNs>>} \in Sums(h) /\ {<<h, count>>} \in Sums(h)
    BY DEF Sums
  <2>3. Total({<<h, sumNs>>})' = SumFunction([v \in Value |-> noted'[h][v] * Max0(v)])
    <3>1. Total({<<h, sumNs>>}) = SumFunction([v \in Value |-> noted[h][v] * Max0(v)])
      BY DEF Observed
    <3> QED
      BY <2>2, <3>1
  <2>4. Total({<<h, count>>})' = SumFunctionOnSet(noted'[h], Value)
    <3>1. Total({<<h, count>>}) = SumFunctionOnSet(noted[h], Value)
      BY DEF Observed
    <3> QED
      BY <2>2, <3>1
  <2> QED
    BY <2>1, <2>3, <2>4
<1>2. Total(delivered)' = SumFunctionOnSet(noted'["deliveryDuration"], Value)
  BY DEF Observed
<1> QED
  BY <1>1, <1>2 DEF Observed, UpTo

\* Steps that note an observation and take on what it adds.
LEMMA ObservedGoto ==
  ASSUME IInv, Observed, NEW w \in sem, sem' = sem, value' = value, worker[w].todo = << >>,
         NEW r \in Goroutine, worker' = [worker EXCEPT ![w] = r],
         NEW h \in Histogram, NEW d \in Value, Note(h, d), Carries(r, h, d)
  PROVE  Observed'
<1>1. ASSUME NEW C, Group(C) PROVE Total(C)' = Total(C) + Due(r.todo, C)
  BY <1>1, TotalGoto
<1>0. ASSUME NEW g \in Histogram
      PROVE  \A S \in SUBSET Value :
               SumFunctionOnSet(noted'[g], S)
                 = SumFunctionOnSet(noted[g], S) + (IF g = h /\ d \in S THEN 1 ELSE 0)
  BY NotedSums
<1>2. ASSUME NEW g \in Histogram, NEW i \in Bucket
      PROVE  Total({g} \X (1..i))' = SumFunctionOnSet(noted'[g], UpTo(i))
  <2> DEFINE C == {g} \X (1..i)
             S == UpTo(i)
  <2>1. Group(C) /\ Total(C) = SumFunctionOnSet(noted[g], S)
    BY Groups DEF Observed
  <2>2. Due(r.todo, C) = IF g = h /\ d \in S THEN 1 ELSE 0
    BY DEF Carries
  <2>3. S \in SUBSET Value
    BY DEF UpTo
  <2> HIDE DEF C, S
  <2>4. SumFunctionOnSet(noted'[g], S)
          = SumFunctionOnSet(noted[g], S) + (IF g = h /\ d \in S THEN 1 ELSE 0)
    BY <1>0, <2>3
  <2>5. Total(C)' = SumFunctionOnSet(noted'[g], S)
    BY <1>1, <2>1, <2>2, <2>4
  <2> QED
    BY <2>5 DEF C, S
<1>3. ASSUME NEW g \in Histogram
      PROVE  Total({<<g, sumNs>>})' = SumFunction([v \in Value |-> noted'[g][v] * Max0(v)])
  <2> DEFINE C == {<<g, sumNs>>}
             m == SumFunction([v \in Value |-> noted[g][v] * Max0(v)])
             m1 == SumFunction([v \in Value |-> noted'[g][v] * Max0(v)])
  <2>1. Group(C) /\ Total(C) = m
    BY Groups DEF Observed
  <2>2. Due(r.todo, C) = IF g = h THEN Max0(d) ELSE 0
    BY DEF Carries
  <2>3. m1 = m + (IF g = h THEN Max0(d) ELSE 0)
    BY NotedTimes
  <2> HIDE DEF C, m, m1
  <2>4. Total(C)' = m1
    BY <1>1, <2>1, <2>2, <2>3
  <2> QED
    BY <2>4 DEF C, m1
<1>4. ASSUME NEW g \in Histogram, NEW C, Group(C), Total(C) = SumFunctionOnSet(noted[g], Value),
             Due(r.todo, C) = IF g = h THEN 1 ELSE 0
      PROVE  Total(C)' = SumFunctionOnSet(noted'[g], Value)
  <2>1. SumFunctionOnSet(noted'[g], Value)
          = SumFunctionOnSet(noted[g], Value) + (IF g = h THEN 1 ELSE 0)
    <3>1. Value \in SUBSET Value
      OBVIOUS
    <3> QED
      BY <1>0, <3>1
  <2> QED
    BY <1>1, <1>4, <2>1
<1>5. ASSUME NEW g \in Histogram
      PROVE  Total({<<g, count>>})' = SumFunctionOnSet(noted'[g], Value)
  <2> DEFINE C == {<<g, count>>}
  <2>1. Group(C) /\ Total(C) = SumFunctionOnSet(noted[g], Value)
    BY Groups DEF Observed
  <2>2. Due(r.todo, C) = IF g = h THEN 1 ELSE 0
    BY DEF Carries
  <2> HIDE DEF C
  <2>3. Total(C)' = SumFunctionOnSet(noted'[g], Value)
    BY <1>4, <2>1, <2>2
  <2> QED
    BY <2>3 DEF C
<1>6. Total(delivered)' = SumFunctionOnSet(noted'["deliveryDuration"], Value)
  <2>1. PICK g \in Histogram : g = "deliveryDuration"
    BY DEF Histogram
  <2>2. /\ Group(delivered) /\ Total(delivered) = SumFunctionOnSet(noted[g], Value)
        /\ Due(r.todo, delivered) = IF g = h THEN 1 ELSE 0
    BY <2>1, Groups DEF Observed, Carries
  <2> QED
    BY <1>4, <2>1, <2>2
<1> QED
  BY <1>2, <1>3, <1>5, <1>6 DEF Observed, UpTo

\* Steps that take on something else.
LEMMA ObservedQuiet ==
  ASSUME IInv, Observed, NEW w \in sem, sem' = sem, value' = value, worker[w].todo = << >>,
         NEW r \in Goroutine, worker' = [worker EXCEPT ![w] = r], noted' = noted, Quiet(r)
  PROVE  Observed'
<1>1. ASSUME NEW C, Group(C), Due(r.todo, C) = 0 PROVE Total(C)' = Total(C)
  <2>1. Total(C)' = Total(C) + Due(r.todo, C)
    BY <1>1, TotalGoto
  <2>2. Total(C) \in Int
    BY <1>1, TotalType
  <2> QED
    BY <1>1, <2>1, <2>2
<1>2. ASSUME NEW h \in Histogram, NEW C \in Sums(h) PROVE Total(C)' = Total(C)
  <2>1. Group(C)
    BY SumsAreGroups
  <2>2. Due(r.todo, C) = 0
    <3>1. CASE \E i \in Bucket : C = {h} \X (1..i)
      <4>1. PICK i \in Bucket : C = {h} \X (1..i)
        BY <3>1
      <4>2. Due(r.todo, {h} \X (1..i)) = 0
        BY DEF Quiet
      <4> QED
        BY <4>1, <4>2
    <3>2. CASE C = {<<h, sumNs>>}
      BY <3>2 DEF Quiet
    <3>3. CASE C = {<<h, count>>}
      BY <3>3 DEF Quiet
    <3> QED
      BY <3>1, <3>2, <3>3 DEF Sums
  <2> QED
    BY <1>1, <2>1, <2>2
<1>3. Total(delivered)' = Total(delivered)
  BY <1>1, Groups DEF Quiet
<1> QED
  BY <1>2, <1>3, ObservedKept

\* What is unfinished is an integer.
LEMMA UnfinishedType ==
  ASSUME NEW r \in Goroutine, NEW h, NEW X
  PROVE  Unfinished(r, h, X) \in Int
<1>1. r.todo \in Seq(Counter \X Int)
  BY DEF Goroutine
<1>2. Due(r.todo, X) \in Int
  BY <1>1, DueType
<1> QED
  BY <1>2 DEF Unfinished

\* The unfinished tasks of the goroutines that run, together.
Underway(h, X) == SumFunctionOnSet([w \in sem |-> Unfinished(worker[w], h, X)], sem)

\* They are a sum of integers.
LEMMA UnderwayType ==
  ASSUME IInv, NEW h, NEW X
  PROVE  /\ IsFiniteSet(sem) /\ sem \subseteq Worker
         /\ \A w \in sem : worker[w] \in Goroutine /\ Unfinished(worker[w], h, X) \in Int
         /\ Underway(h, X) \in Int
<1>1. IsFiniteSet(sem) /\ sem \subseteq Worker /\ \A w \in sem : worker[w] \in Goroutine
  BY DEF IInv, Types, SlotsHeld
<1>2. \A w \in sem : Unfinished(worker[w], h, X) \in Int
  BY <1>1, UnfinishedType
<1> DEFINE U == [w \in sem |-> Unfinished(worker[w], h, X)]
<1>3. \A w \in sem : U[w] \in Int
  BY <1>2
<1>4. Underway(h, X) = SumFunctionOnSet(U, sem)
  BY DEF Underway
<1> HIDE DEF U
<1>5. SumFunctionOnSet(U, sem) \in Int
  BY <1>1, <1>3, SumType
<1> QED
  BY <1>1, <1>2, <1>4, <1>5

\* One goroutine moves.
LEMMA UnderwayMoves ==
  ASSUME IInv, NEW h, NEW X, NEW w \in sem, sem' = sem, NEW k \in Int,
         Unfinished(worker'[w], h, X) = Unfinished(worker[w], h, X) + k,
         \A v \in Worker \ {w} : worker'[v] = worker[v]
  PROVE  Underway(h, X)' = Underway(h, X) + k
<1> DEFINE U == [v \in sem |-> Unfinished(worker[v], h, X)]
           V == [v \in sem |-> Unfinished(worker'[v], h, X)]
<1>1. Underway(h, X) = SumFunctionOnSet(U, sem) /\ Underway(h, X)' = SumFunctionOnSet(V, sem)
  BY DEF Underway
<1>2. /\ IsFiniteSet(sem) /\ sem \subseteq Worker /\ \A v \in sem : U[v] \in Int
  BY UnderwayType
<1>3. V[w] = U[w] + k /\ \A v \in sem \ {w} : V[v] = U[v]
  BY <1>2
<1> HIDE DEF U, V
<1>4. SumFunctionOnSet(V, sem) = SumFunctionOnSet(U, sem) + k
  BY <1>2, <1>3, SumChange
<1> QED
  BY <1>1, <1>4

\* The groups that Accounted is about.
LEMMA AccountGroups ==
  ASSUME NEW h \in Histogram, NEW X \in {{h} \X Bucket, {<<h, count>>}}
  PROVE  Group(X) /\ Group(finished) /\ Group({skipped})
<1>1. X = {h} \X Bucket \/ X = {<<h, count>>}
  OBVIOUS
<1> QED
  BY <1>1, Groups

\* A goroutine takes on more.
LEMMA AccountedGoto ==
  ASSUME IInv, Accounted, NEW w \in sem, sem' = sem, value' = value, worker[w].todo = << >>,
         NEW r \in Goroutine, worker' = [worker EXCEPT ![w] = r], Settles(worker[w], r)
  PROVE  Accounted'
<1> SUFFICES ASSUME NEW h \in Histogram, NEW X \in {{h} \X Bucket, {<<h, count>>}}
             PROVE  Total(finished)' + Underway(h, X)' <= Total({skipped})' + Total(X)'
  BY DEF Accounted, Underway
<1>1. Group(X) /\ Group(finished) /\ Group({skipped})
  BY AccountGroups
<1>2. ASSUME NEW C, Group(C)
      PROVE  /\ Total(C)' = Total(C) + Due(r.todo, C) /\ Total(C) \in Int
             /\ Due(r.todo, C) \in Int
  <2>1. r.todo \in Seq(Counter \X Int)
    BY DEF Goroutine
  <2> QED
    BY <1>2, <2>1, TotalGoto, TotalType, DueType
<1>3. /\ IsFiniteSet(sem) /\ sem \subseteq Worker
      /\ \A v \in sem : worker[v] \in Goroutine /\ Unfinished(worker[v], h, X) \in Int
      /\ Underway(h, X) \in Int
  BY UnderwayType
<1>4. PICK k \in Int : k = Unfinished(r, h, X) - Unfinished(worker[w], h, X)
  <2>1. Unfinished(r, h, X) \in Int /\ Unfinished(worker[w], h, X) \in Int
    BY <1>3, UnfinishedType
  <2> QED
    BY <2>1
<1>5. Underway(h, X)' = Underway(h, X) + k
  <2>1. w \in Worker /\ worker'[w] = r /\ \A v \in Worker \ {w} : worker'[v] = worker[v]
    BY DEF IInv, Types
  <2>2. Unfinished(r, h, X) \in Int /\ Unfinished(worker[w], h, X) \in Int
    BY <1>3, UnfinishedType
  <2>3. Unfinished(worker'[w], h, X) = Unfinished(worker[w], h, X) + k
    BY <1>4, <2>1, <2>2
  <2> QED
    BY <2>1, <2>3, UnderwayMoves
<1>6. Total(finished) + Underway(h, X) <= Total({skipped}) + Total(X)
  BY DEF Accounted, Underway
<1>7. Due(r.todo, finished) + Unfinished(r, h, X)
        <= Due(r.todo, {skipped}) + Due(r.todo, X) + Unfinished(worker[w], h, X)
  BY DEF Settles
<1>8. /\ Total(finished)' = Total(finished) + Due(r.todo, finished)
      /\ Total(finished) \in Int /\ Due(r.todo, finished) \in Int
  BY <1>1, <1>2
<1>9. /\ Total({skipped})' = Total({skipped}) + Due(r.todo, {skipped})
      /\ Total({skipped}) \in Int /\ Due(r.todo, {skipped}) \in Int
  BY <1>1, <1>2
<1>10. Total(X)' = Total(X) + Due(r.todo, X) /\ Total(X) \in Int /\ Due(r.todo, X) \in Int
  BY <1>1, <1>2
<1>11. Unfinished(r, h, X) \in Int /\ Unfinished(worker[w], h, X) \in Int
  BY <1>3, UnfinishedType
<1>12. Underway(h, X) \in Int
  BY <1>3
<1>13. Total(finished)' + Underway(h, X)'
         = (Total(finished) + Underway(h, X)) + (Due(r.todo, finished) + k)
  BY <1>5, <1>8, <1>12
<1>14. Total({skipped})' + Total(X)'
         = (Total({skipped}) + Total(X)) + (Due(r.todo, {skipped}) + Due(r.todo, X))
  BY <1>9, <1>10
<1>15. Due(r.todo, finished) + k <= Due(r.todo, {skipped}) + Due(r.todo, X)
  BY <1>4, <1>7, <1>8, <1>9, <1>10, <1>11
<1> QED
  BY <1>6, <1>8, <1>9, <1>10, <1>12, <1>13, <1>14, <1>15

\* Steps that leave the totals alone.
LEMMA AccountedKept ==
  ASSUME IInv, Accounted, \A C : Group(C) => Total(C)' = Total(C),
         \A h \in Histogram : \A X \in {{h} \X Bucket, {<<h, count>>}} :
           Underway(h, X)' \in Int /\ Underway(h, X)' <= Underway(h, X)
  PROVE  Accounted'
<1> SUFFICES ASSUME NEW h \in Histogram, NEW X \in {{h} \X Bucket, {<<h, count>>}}
             PROVE  Total(finished)' + Underway(h, X)' <= Total({skipped})' + Total(X)'
  BY DEF Accounted, Underway
<1>1. Group(X) /\ Group(finished) /\ Group({skipped})
  BY AccountGroups
<1>2. Total(finished)' = Total(finished) /\ Total({skipped})' = Total({skipped}) /\ Total(X)' = Total(X)
  BY <1>1
<1>3. Total(finished) \in Int /\ Total({skipped}) \in Int /\ Total(X) \in Int
  BY <1>1, TotalType
<1>4. Underway(h, X)' \in Int /\ Underway(h, X)' <= Underway(h, X) /\ Underway(h, X) \in Int
  BY UnderwayType
<1>5. Total(finished) + Underway(h, X) <= Total({skipped}) + Total(X)
  BY DEF Accounted, Underway
<1> QED
  BY <1>2, <1>3, <1>4, <1>5

\* What is due in a group that holds neither a sum nor the gauge is nothing or one.
LEMMA DueUnit ==
  ASSUME NEW r \in Goroutine, Staged(r), NEW C, gauge \notin C, C \cap Histogram \X {sumNs} = {}
  PROVE  Due(r.todo, C) \in {0, 1}
<1> DEFINE q == r.todo
<1>1. \A i \in 1..Len(q) : q[i][1] \in C => q[i][2] = 1
  BY DEF Staged
<1> HIDE DEF q
<1>2. Due(q, C) \in {0, 1}
  BY <1>1 DEF Due
<1> QED
  BY <1>2 DEF q

\* The groups that are counted, not summed.
LEMMA CountedGroups ==
  ASSUME NEW h \in Histogram,
         NEW C \in {delivered, finished, {skipped}, {h} \X Bucket, {<<h, count>>}}
  PROVE  Group(C) /\ gauge \notin C /\ C \cap Histogram \X {sumNs} = {}
<1>1. Group(C)
  <2>1. C = delivered \/ C = finished \/ C = {skipped} \/ C = {h} \X Bucket \/ C = {<<h, count>>}
    OBVIOUS
  <2> QED
    BY <2>1, Groups
<1>2. gauge \notin C
  BY <1>1, GroupCounters
<1>3. \E s \in {1, 2, 4, 5} : C \subseteq Stage[s]
  <2>1. /\ Stage[1] = delivered /\ Stage[2] = Histogram \X Bucket
        /\ Stage[4] = Histogram \X {count} \cup {skipped} /\ Stage[5] = finished
    BY DEF Stage
  <2>2. CASE C = delivered \/ C = finished
    BY <2>1, <2>2
  <2>3. CASE C = {skipped}
    BY <2>1, <2>3
  <2>4. CASE C = {h} \X Bucket
    BY <2>1, <2>4
  <2>5. CASE C = {<<h, count>>}
    BY <2>1, <2>5
  <2> QED
    BY <2>2, <2>3, <2>4, <2>5
<1>4. PICK s \in {1, 2, 4, 5} : C \subseteq Stage[s]
  BY <1>3
<1>5. s \in 1..6 /\ 3 \in 1..6 /\ s # 3 /\ Stage[3] = Histogram \X {sumNs}
  BY DEF Stage
<1>6. Stage[s] \cap Stage[3] = {}
  BY <1>5, Stages
<1>7. C \cap Histogram \X {sumNs} = {}
  BY <1>4, <1>5, <1>6
<1> QED
  BY <1>1, <1>2, <1>7

\* An addition leaves no more unfinished.
LEMMA UnderwayAdd ==
  ASSUME IInv, NEW w \in Worker, Staged(worker[w]), Add(w), NEW h \in Histogram,
         NEW X \in {{h} \X Bucket, {<<h, count>>}}
  PROVE  Underway(h, X)' \in Int /\ Underway(h, X)' <= Underway(h, X)
<1> DEFINE q == worker[w].todo
           U == [v \in sem |-> Unfinished(worker[v], h, X)]
           V == [v \in sem |-> Unfinished(worker'[v], h, X)]
<1>1. worker[w] \in Goroutine /\ q \in Seq(Counter \X Int) /\ q # << >>
  BY DEF IInv, Types, Add, Goroutine
<1>2. /\ worker'[w].todo = Tail(q) /\ worker'[w].pc = worker[w].pc /\ sem' = sem
      /\ \A v \in Worker \ {w} : worker'[v] = worker[v]
  BY <1>1 DEF Add, IInv, Types, Goroutine
<1>3. /\ IsFiniteSet(sem) /\ sem \subseteq Worker
      /\ \A v \in sem : worker[v] \in Goroutine /\ Unfinished(worker[v], h, X) \in Int
  BY UnderwayType
<1>4. Group(X) /\ gauge \notin X /\ X \cap Histogram \X {sumNs} = {}
  <2>1. X \in {delivered, finished, {skipped}, {h} \X Bucket, {<<h, count>>}}
    OBVIOUS
  <2> QED
    BY <2>1, CountedGroups
<1>5. Due(q, X) \in Int /\ Due(Tail(q), X) \in Int /\ Due(Tail(q), X) <= Due(q, X)
  <2>1. \A i, j \in 1..Len(q) : q[i][1] \in X /\ q[j][1] \in X => i = j
    BY <1>1, <1>4, StagedOnce
  <2>2. Due(Tail(q), X) = Due(q, X) - (IF Head(q)[1] \in X THEN Head(q)[2] ELSE 0)
    BY <1>1, <2>1, DueRest
  <2>3. Head(q)[1] \in X => Head(q)[2] = 1
    <3>1. Head(q) = q[1] /\ 1 \in 1..Len(q)
      BY <1>1
    <3> QED
      BY <1>4, <3>1 DEF Staged
  <2>4. Due(q, X) \in Int
    BY <1>1, DueType
  <2> QED
    BY <2>2, <2>3, <2>4
<1>6. /\ Unfinished(worker'[w], h, X) \in Int
      /\ Unfinished(worker'[w], h, X) <= Unfinished(worker[w], h, X)
  BY <1>2, <1>5 DEF Unfinished
<1>7. \A v \in sem : U[v] \in Int /\ V[v] \in Int /\ V[v] <= U[v]
  <2> SUFFICES ASSUME NEW v \in sem PROVE U[v] \in Int /\ V[v] \in Int /\ V[v] <= U[v]
    OBVIOUS
  <2>1. CASE v = w
    BY <1>3, <1>6, <2>1
  <2>2. CASE v # w
    BY <1>2, <1>3, <2>2
  <2> QED
    BY <2>1, <2>2
<1>8. Underway(h, X) = SumFunctionOnSet(U, sem) /\ Underway(h, X)' = SumFunctionOnSet(V, sem)
  BY <1>2 DEF Underway
<1> HIDE DEF U, V
<1>9. SumFunctionOnSet(V, sem) <= SumFunctionOnSet(U, sem) /\ SumFunctionOnSet(V, sem) \in Int
  BY <1>3, <1>7, SumMonotone, SumType
<1> QED
  BY <1>8, <1>9

\* A goroutine that takes a slot, or gives it back, has no task half done.
LEMMA UnderwaySlot ==
  ASSUME IInv, NEW w \in Worker, AcquireSlot(w) \/ Return(w), NEW h, NEW X
  PROVE  Underway(h, X)' = Underway(h, X)
<1> DEFINE U == [v \in sem |-> Unfinished(worker[v], h, X)]
           V == [v \in sem' |-> Unfinished(worker'[v], h, X)]
<1>1. Underway(h, X) = SumFunctionOnSet(U, sem) /\ Underway(h, X)' = SumFunctionOnSet(V, sem')
  BY DEF Underway
<1>2. \A v \in Worker \ {w} : worker'[v] = worker[v]
  BY DEF AcquireSlot, Return, Goto, IInv, Types
<1>3. /\ IsFiniteSet(sem) /\ sem \subseteq Worker
      /\ \A v \in sem : Unfinished(worker[v], h, X) \in Int
  BY UnderwayType
<1>4. ASSUME AcquireSlot(w) PROVE SumFunctionOnSet(V, sem') = SumFunctionOnSet(U, sem)
  <2>1. worker'[w].pc = "reread" /\ worker[w].pc = "idle" /\ sem' = sem \cup {w}
    BY <1>4 DEF AcquireSlot, Goto, At, IInv, Types
  <2>2. w \notin sem /\ sem' \ {w} = sem
    BY <2>1 DEF IInv, SlotsHeld
  <2>3. Unfinished(worker'[w], h, X) = 0
    BY <2>1 DEF Unfinished
  <2>4. V[w] = 0 /\ \A v \in sem' \ {w} : V[v] \in Int /\ U[v] = V[v]
    BY <1>2, <1>3, <2>1, <2>2, <2>3
  <2>5. IsFiniteSet(sem') /\ w \in sem'
    BY <1>3, <2>1, FS_AddElement
  <2> HIDE DEF U, V
  <2>6. SumFunctionOnSet(U, sem' \ {w}) = SumFunctionOnSet(V, sem')
    BY <2>4, <2>5, SumWithout
  <2> QED
    BY <2>2, <2>6
<1>5. ASSUME Return(w) PROVE SumFunctionOnSet(V, sem') = SumFunctionOnSet(U, sem)
  <2>1. worker[w].pc = "return" /\ sem' = sem \ {w}
    BY <1>5 DEF Return, At
  <2>2. w \in sem
    BY <2>1 DEF IInv, SlotsHeld
  <2>3. Unfinished(worker[w], h, X) = 0
    BY <2>1 DEF Unfinished
  <2>4. U[w] = 0 /\ \A v \in sem \ {w} : U[v] \in Int /\ V[v] = U[v]
    BY <1>2, <1>3, <2>1, <2>2, <2>3
  <2> HIDE DEF U, V
  <2>5. SumFunctionOnSet(V, sem \ {w}) = SumFunctionOnSet(U, sem)
    BY <1>3, <2>2, <2>4, SumWithout
  <2> QED
    BY <2>1, <2>5
<1> QED
  BY <1>1, <1>4, <1>5

\* One goroutine is in order after its step, and the others are as they were.
LEMMA StagedStep ==
  ASSUME Exact, NEW w \in Worker, \A v \in Worker \ {w} : worker'[v] = worker[v],
         Staged(worker'[w])
  PROVE  \A v \in Worker : Staged(worker'[v])
BY DEF Exact

\* Steps that leave every total alone and note nothing.
LEMMA ExactKept ==
  ASSUME IInv, Exact, noted' = noted, \A C : Group(C) => Total(C)' = Total(C),
         \A v \in Worker : Staged(worker'[v]),
         \A h \in Histogram : \A X \in {{h} \X Bucket, {<<h, count>>}} :
           Underway(h, X)' \in Int /\ Underway(h, X)' <= Underway(h, X)
  PROVE  Exact'
<1>1. \A h \in Histogram : \A C \in Sums(h) : Total(C)' = Total(C)
  BY SumsAreGroups
<1>2. Total(delivered)' = Total(delivered)
  BY Groups
<1>3. Observed'
  <2>1. Observed
    BY DEF Exact
  <2> QED
    BY <1>1, <1>2, <2>1, ObservedKept
<1>4. Accounted'
  <2>1. Accounted
    BY DEF Exact
  <2> QED
    BY <2>1, AccountedKept
<1> QED
  BY <1>3, <1>4 DEF Exact

\* An addition.
LEMMA AddExact ==
  ASSUME IInv, Exact, NEW w \in Worker, Add(w)
  PROVE  Exact'
<1> DEFINE q == worker[w].todo
           r == [worker[w] EXCEPT !.todo = Tail(q)]
<1>1. worker[w] \in Goroutine /\ q # << >> /\ Staged(worker[w])
  BY DEF IInv, Types, Add, Exact
<1>2. worker'[w] = r /\ noted' = noted /\ \A v \in Worker \ {w} : worker'[v] = worker[v]
  BY DEF Add, IInv, Types
<1>3. Staged(r)
  BY <1>1, StagedRest
<1>4. \A v \in Worker : Staged(worker'[v])
  <2>1. Staged(worker'[w])
    BY <1>2, <1>3
  <2> HIDE DEF r
  <2> QED
    BY <1>2, <2>1, StagedStep
<1>5. \A C : Group(C) => Total(C)' = Total(C)
  BY <1>1, TotalAdd
<1>6. \A h \in Histogram : \A X \in {{h} \X Bucket, {<<h, count>>}} :
        Underway(h, X)' \in Int /\ Underway(h, X)' <= Underway(h, X)
  BY <1>1, UnderwayAdd
<1> HIDE DEF q, r
<1> QED
  BY <1>2, <1>4, <1>5, <1>6, ExactKept

\* A slot is taken or given back.
LEMMA SlotExact ==
  ASSUME IInv, Exact, NEW w \in Worker, AcquireSlot(w) \/ Return(w), IInv'
  PROVE  Exact'
<1>1. noted' = noted /\ \A v \in Worker \ {w} : worker'[v] = worker[v]
  BY DEF AcquireSlot, Return, Goto, IInv, Types
<1> DEFINE r == worker'[w]
<1>2. r \in Goroutine
  BY DEF IInv, Types
<1>3. \/ r.pc = "reread" /\ r.todo = InflightAdd(1)
      \/ r.pc = "idle" /\ r.todo = << >>
  BY DEF AcquireSlot, Return, Goto, IInv, Types
<1> HIDE DEF r
<1>4. Staged(r)
  <2>1. PICK e \in {4, 6} : e = 6 /\ e = IF r.pc = "execute" THEN 4 ELSE 6
    BY <1>3
  <2> DEFINE n == Len(r.todo)
  <2>2. \/ n = 0 \/ (n = 1 /\ r.todo[1][1] = gauge)
    <3>1. CASE r.todo = << >>
      BY <3>1
    <3>2. CASE r.todo = InflightAdd(1)
      <4>1. r.todo = << <<gauge, 1>> >>
        BY <3>2 DEF InflightAdd, gauge
      <4>2. n = 1 /\ r.todo[1] = <<gauge, 1>>
        BY <4>1
      <4> QED
        BY <4>2
    <3> QED
      BY <1>3, <3>1, <3>2
  <2>3. n = Len(r.todo)
    OBVIOUS
  <2> HIDE DEF n
  <2>4. n \in 0..e
    BY <2>1, <2>2
  <2>5. ASSUME NEW i \in 1..n
        PROVE  /\ r.todo[i][1] \in Stage[e - n + i] /\ r.todo[i][1] # skipped
               /\ r.todo[i][2] = 1 \/ e - n + i \in {3, 6}
    <3>1. i = 1 /\ n = 1 /\ r.todo[i][1] = gauge /\ e - n + i = 6
      BY <2>1, <2>2
    <3>2. Stage[6] = {gauge} /\ skipped \notin Stage[6]
      BY SkippedStage DEF Stage
    <3> QED
      BY <3>1, <3>2
  <2> QED
    BY <1>2, <2>1, <2>3, <2>4, <2>5, StagedBy
<1>5. \A v \in Worker : Staged(worker'[v])
  BY <1>1, <1>4, StagedStep DEF r
<1>6. \A C : Group(C) => Total(C)' = Total(C)
  BY TotalSlot
<1>7. \A h \in Histogram : \A X \in {{h} \X Bucket, {<<h, count>>}} :
        Underway(h, X)' \in Int /\ Underway(h, X)' <= Underway(h, X)
  <2> SUFFICES ASSUME NEW h \in Histogram, NEW X \in {{h} \X Bucket, {<<h, count>>}}
               PROVE  Underway(h, X)' \in Int /\ Underway(h, X)' <= Underway(h, X)
    OBVIOUS
  <2>1. Underway(h, X)' = Underway(h, X) /\ Underway(h, X) \in Int
    BY UnderwaySlot, UnderwayType
  <2> QED
    BY <2>1
<1> QED
  BY <1>1, <1>5, <1>6, <1>7, ExactKept

\* Replays and scrapes.
LEMMA OtherExact ==
  ASSUME IInv, Exact, ObserveReplay \/ Scrape \/ Load \/ Respond \/ UNCHANGED vars
  PROVE  Exact'
<1>1. worker' = worker /\ sem' = sem /\ noted' = noted
  BY DEF ObserveReplay, Scrape, Load, Respond, vars
<1>2. \A C : Group(C) => Total(C)' = Total(C)
  BY TotalOther
<1>3. \A v \in Worker : Staged(worker'[v])
  BY <1>1 DEF Exact
<1>4. \A h \in Histogram : \A X \in {{h} \X Bucket, {<<h, count>>}} :
        Underway(h, X)' \in Int /\ Underway(h, X)' <= Underway(h, X)
  <2> SUFFICES ASSUME NEW h \in Histogram, NEW X \in {{h} \X Bucket, {<<h, count>>}}
               PROVE  Underway(h, X)' \in Int /\ Underway(h, X)' <= Underway(h, X)
    OBVIOUS
  <2>1. Underway(h, X)' = Underway(h, X)
    BY <1>1 DEF Underway
  <2>2. Underway(h, X) \in Int
    BY UnderwayType
  <2> QED
    BY <2>1, <2>2
<1> QED
  BY <1>1, <1>2, <1>3, <1>4, ExactKept

\* A run goes on: it takes on what it owes next, in order.
LEMMA RunExact ==
  ASSUME IInv, Exact, NEW w \in Worker,
         \/ DropRun(w) \/ skipStale(w)
         \/ \E late \in Value : Commit(w, late)
         \/ \E d \in Value, ok \in BOOLEAN : d >= 0 /\ Execute(w, d, ok),
         IInv'
  PROVE  Exact'
<1> DEFINE u == worker[w]
           r == worker'[w]
<1>1. /\ u \in Goroutine /\ r \in Goroutine /\ u.todo = << >> /\ u.pc \in {"reread", "execute"}
      /\ value' = value /\ sem' = sem
  BY DEF IInv, Types, DropRun, skipStale, Commit, Execute, At
<1>2. w \in sem
  BY <1>1 DEF IInv, SlotsHeld
<1>3. worker' = [worker EXCEPT ![w] = r] /\ \A v \in Worker \ {w} : worker'[v] = worker[v]
  BY DEF IInv, Types, DropRun, skipStale, Commit, Execute, Goto
<1> HIDE DEF r
<1>4. ASSUME NEW h \in Histogram, NEW d \in Value, Note(h, d), Carries(r, h, d) PROVE Observed'
  <2>1. Observed
    BY DEF Exact
  <2> QED
    BY <1>1, <1>2, <1>3, <1>4, <2>1, ObservedGoto
<1>5. ASSUME noted' = noted, Quiet(r) PROVE Observed'
  <2>1. Observed
    BY DEF Exact
  <2> QED
    BY <1>1, <1>2, <1>3, <1>5, <2>1, ObservedQuiet
<1>6. ASSUME Staged(r), Observed', Settles(u, r) PROVE Exact'
  <2>1. Accounted
    BY DEF Exact
  <2>2. Accounted'
    BY <1>1, <1>2, <1>3, <1>6, <2>1, AccountedGoto
  <2>3. \A v \in Worker : Staged(worker'[v])
    BY <1>3, <1>6, StagedStep DEF r
  <2> QED
    BY <1>6, <2>2, <2>3 DEF Exact
<1>7. ASSUME NEW pc, NEW todo, NEW tries, Goto(w, pc, todo, tries)
      PROVE  r.pc = pc /\ r.todo = todo
  BY <1>7 DEF Goto, r, IInv, Types
<1>8. CASE DropRun(w) \/ skipStale(w)
  <2>1. noted' = noted /\ u.pc = "reread"
    BY <1>8 DEF DropRun, skipStale, At
  <2>2. /\ r.pc = "return"
        /\ \/ r.todo = ObserveSkipped \o ObserveTaskFinished(FALSE) \o InflightAdd(-1)
           \/ r.todo = InflightAdd(-1)
    BY <1>7, <1>8 DEF DropRun, skipStale
  <2>3. Staged(r) /\ Quiet(r) /\ Settles(u, r)
    <3> HIDE DEF u
    <3> QED
      BY <1>1, <2>1, <2>2, SkipTakes
  <2> QED
    BY <1>5, <1>6, <2>1, <2>3
<1>9. ASSUME NEW late \in Value, Commit(w, late) PROVE Exact'
  <2>1. Note("lateness", late) /\ u.pc = "reread" /\ "lateness" \in Histogram
    BY <1>9 DEF Commit, At, Histogram
  <2>2. r.pc = "execute" /\ r.todo = ObserveLateness(late)
    BY <1>7, <1>9 DEF Commit
  <2>3. Staged(r) /\ Carries(r, "lateness", late) /\ Settles(u, r)
    <3> HIDE DEF u
    <3> QED
      BY <1>1, <2>1, <2>2, CommitTakes
  <2> QED
    BY <1>4, <1>6, <2>1, <2>3
<1>10. ASSUME NEW d \in Value, d >= 0, NEW ok \in BOOLEAN, Execute(w, d, ok) PROVE Exact'
  <2>1. Note("deliveryDuration", d) /\ u.pc = "execute" /\ "deliveryDuration" \in Histogram
    BY <1>10 DEF Execute, At, Histogram
  <2>2. \/ r.pc = "execute" /\ r.todo = ObserveDelivery(d, ok)
        \/ /\ r.pc = "return"
           /\ r.todo = ObserveDelivery(d, ok) \o ObserveTaskFinished(ok) \o InflightAdd(-1)
    BY <1>7, <1>10 DEF Execute
  <2>3. Staged(r) /\ Carries(r, "deliveryDuration", d) /\ Settles(u, r)
    <3> HIDE DEF u
    <3> QED
      BY <1>1, <1>10, <2>1, <2>2, DeliveryTakes
  <2> QED
    BY <1>4, <1>6, <2>1, <2>3
<1> QED
  BY <1>8, <1>9, <1>10

-----------------------------------------------------------------------------
(* The counters at any moment.                                             *)

\* What is owed to a group by all goroutines.
Owed(C) == SumFunctionOnSet([w \in sem |-> Due(worker[w].todo, C)], sem)

\* A total is what is there and what is owed.
LEMMA OwedType ==
  ASSUME IInv, NEW C, Group(C)
  PROVE  /\ Owed(C) \in Int /\ SumFunctionOnSet(value, C) \in Int
         /\ Total(C) = SumFunctionOnSet(value, C) + Owed(C)
BY TotalType DEF Owed, Total

\* At most one is owed by each goroutine.
LEMMA OwedBounded ==
  ASSUME IInv, Exact, NEW C, Group(C), C \cap Histogram \X {sumNs} = {}
  PROVE  Owed(C) \in 0..MaxConcurrent
<1> DEFINE D == [w \in sem |-> Due(worker[w].todo, C)]
<1>1. /\ IsFiniteSet(sem) /\ sem \subseteq Worker /\ \A w \in sem : worker[w] \in Goroutine
      /\ Cardinality(sem) <= MaxConcurrent /\ MaxConcurrent \in Nat
  BY MetricsAssumption DEF IInv, Types, SlotsHeld
<1>2. \A w \in sem : D[w] \in {0, 1}
  <2>1. gauge \notin C
    BY GroupCounters
  <2> SUFFICES ASSUME NEW w \in sem PROVE Due(worker[w].todo, C) \in {0, 1}
    OBVIOUS
  <2>2. worker[w] \in Goroutine /\ Staged(worker[w])
    BY <1>1 DEF Exact
  <2> QED
    BY <2>1, <2>2, DueUnit
<1>3. Owed(C) = SumFunctionOnSet(D, sem) /\ Owed(C) \in Int
  BY OwedType DEF Owed
<1> HIDE DEF D
<1>4. \A w \in sem : D[w] \in Int /\ D[w] >= 0 /\ D[w] <= 1
  BY <1>2
<1>5. SumFunctionOnSet(D, sem) >= 0 /\ SumFunctionOnSet(D, sem) <= Cardinality(sem)
  BY <1>1, <1>4, SumOfUnits
<1>6. Cardinality(sem) \in Nat
  BY <1>1, FS_CardinalityType
<1> QED
  BY <1>1, <1>3, <1>5, <1>6

\* Counters with the same total differ by no more than what is owed.
LEMMA LagsBehind ==
  ASSUME IInv, Exact, NEW h \in Histogram, NEW A \in {delivered, {h} \X Bucket},
         Total(A) = Total({<<h, count>>})
  PROVE  SumFunctionOnSet(value, A) <= SumFunctionOnSet(value, {<<h, count>>}) + MaxConcurrent
<1> DEFINE B == {<<h, count>>}
<1>1. Group(A) /\ A \cap Histogram \X {sumNs} = {}
  <2>1. A \in {delivered, finished, {skipped}, {h} \X Bucket, {<<h, count>>}}
    OBVIOUS
  <2> QED
    BY <2>1, CountedGroups
<1>2. Group(B) /\ B \cap Histogram \X {sumNs} = {}
  <2>1. B \in {delivered, finished, {skipped}, {h} \X Bucket, {<<h, count>>}}
    OBVIOUS
  <2> QED
    BY <2>1, CountedGroups
<1>3. Total(A) = Total(B)
  OBVIOUS
<1> HIDE DEF B
<1>4. Owed(A) \in 0..MaxConcurrent /\ Owed(B) \in 0..MaxConcurrent
  BY <1>1, <1>2, OwedBounded
<1>5. /\ Total(A) = SumFunctionOnSet(value, A) + Owed(A)
      /\ Total(B) = SumFunctionOnSet(value, B) + Owed(B)
      /\ SumFunctionOnSet(value, A) \in Int /\ SumFunctionOnSet(value, B) \in Int
  BY <1>1, <1>2, OwedType
<1>6. SumFunctionOnSet(value, A) <= SumFunctionOnSet(value, B) + MaxConcurrent
  <2>1. MaxConcurrent \in Nat
    BY MetricsAssumption
  <2>2. PICK a \in Int, b \in Int, x \in 0..MaxConcurrent, y \in 0..MaxConcurrent :
          /\ a = SumFunctionOnSet(value, A) /\ b = SumFunctionOnSet(value, B)
          /\ x = Owed(A) /\ y = Owed(B)
    BY <1>4, <1>5
  <2>3. a + x = b + y
    BY <1>3, <1>5, <2>2
  <2>4. a <= b + MaxConcurrent
    BY <2>1, <2>3
  <2> QED
    BY <2>2, <2>4
<1> QED
  BY <1>6 DEF B

\* The buckets hold what the count does, and so do the deliveries.
LEMMA SameTotals ==
  ASSUME Observed, NEW h \in Histogram
  PROVE  /\ Total({h} \X Bucket) = Total({<<h, count>>})
         /\ h = "deliveryDuration" => Total(delivered) = Total({<<h, count>>})
<1>1. PICK n \in Nat : n = Len(upper)
  BY MetricsAssumption
<1>2. n + 1 \in Bucket /\ Bucket = 1..(n + 1) /\ UpTo(n + 1) = Value
  BY <1>1 DEF Bucket, UpTo
<1>3. Total({h} \X (1..(n + 1))) = SumFunctionOnSet(noted[h], UpTo(n + 1))
  BY <1>2 DEF Observed
<1>4. Total({<<h, count>>}) = SumFunctionOnSet(noted[h], Value)
  BY DEF Observed
<1>5. Total(delivered) = SumFunctionOnSet(noted["deliveryDuration"], Value)
  BY DEF Observed
<1> QED
  BY <1>2, <1>3, <1>4, <1>5

\* A goroutine that owes a skip, or an observation of a task that it is to
\* finish, owes the finish too.
LEMMA FinishLast ==
  ASSUME NEW r \in Goroutine, Staged(r), NEW h \in Histogram,
         NEW X \in {{h} \X Bucket, {<<h, count>>}}
  PROVE  Due(r.todo, {skipped}) + Due(r.todo, X)
           <= Unfinished(r, h, X) + Due(r.todo, finished)
<1> DEFINE q == r.todo
           n == Len(q)
           e == IF r.pc = "execute" THEN 4 ELSE 6
<1>1. n \in Nat
  <2>1. q \in Seq(Counter \X Int)
    BY DEF Goroutine
  <2> HIDE DEF q
  <2> QED
    BY <2>1
<1>2. /\ Due(q, {skipped}) \in {0, 1} /\ Due(q, finished) \in {0, 1} /\ Due(q, X) \in {0, 1}
  <2>1. \A C \in {delivered, finished, {skipped}, {h} \X Bucket, {<<h, count>>}} :
          gauge \notin C /\ C \cap Histogram \X {sumNs} = {}
    BY CountedGroups
  <2> QED
    BY <2>1, DueUnit
<1>3. /\ n <= e
      /\ \A i \in 1..n : /\ q[i][1] \in Stage[e - n + i]
                         /\ q[i][1] \in Histogram \X {sumNs} \/ q[i][1] = gauge \/ q[i][2] = 1
                         /\ q[i][1] = skipped => i = 1 /\ r.pc = "return"
  BY DEF Staged
<1>4. ASSUME NEW s \in 1..5, NEW C, C \subseteq Stage[s], NEW i \in Int, i = s - e + n
      PROVE  Due(q, C) = IF i \in 1..n /\ q[i][1] \in C THEN q[i][2] ELSE 0
  BY <1>4, DueAt
<1>5. /\ Stage[2] = Histogram \X Bucket /\ Stage[5] = finished
      /\ Stage[4] = Histogram \X {count} \cup {skipped}
  BY DEF Stage
<1>6. r.pc = "execute" => e = 4
  OBVIOUS
<1>7. r.pc # "execute" => e = 6
  OBVIOUS
<1>8. <<h, count>> # skipped
  BY DEF skipped, Histogram
<1> HIDE DEF q, n, e
<1>9. CASE r.pc = "execute"
  <2>1. Due(q, {skipped}) = 0
    <3>1. \A i \in 1..n : q[i][1] \notin {skipped}
      BY <1>3, <1>9
    <3> QED
      BY <3>1, DueIs DEF n
  <2>2. Unfinished(r, h, X) = IF h = "lateness" THEN 1 ELSE Due(q, X)
    BY <1>9 DEF Unfinished, q
  <2> QED
    BY <1>2, <2>1, <2>2 DEF q
<1>10. CASE r.pc # "execute"
  <2>1. Unfinished(r, h, X) = 0
    BY <1>10 DEF Unfinished
  <2>2. e = 6
    BY <1>7, <1>10
  <2>3. PICK s \in 1..5, i \in Int : s = 4 /\ i = n - 2
    BY <1>1
  <2>4. {skipped} \subseteq Stage[s] /\ {<<h, count>>} \subseteq Stage[s] /\ i = s - e + n
    BY <1>1, <1>5, <2>2, <2>3
  <2>5. Due(q, {skipped}) = IF i \in 1..n /\ q[i][1] = skipped THEN q[i][2] ELSE 0
    BY <1>4, <2>4
  <2>6. Due(q, {<<h, count>>}) = IF i \in 1..n /\ q[i][1] = <<h, count>> THEN q[i][2] ELSE 0
    BY <1>4, <2>4
  <2>7. PICK t \in 1..5, j \in Int : t = 2 /\ j = n - 4
    BY <1>1
  <2>8. {h} \X Bucket \subseteq Stage[t] /\ j = t - e + n
    BY <1>1, <1>5, <2>2, <2>7
  <2>9. Due(q, {h} \X Bucket) = IF j \in 1..n /\ q[j][1] \in {h} \X Bucket THEN q[j][2] ELSE 0
    BY <1>4, <2>8
  <2>10. n >= 3 => Due(q, finished) = 1
    <3> SUFFICES ASSUME n >= 3 PROVE Due(q, finished) = 1
      OBVIOUS
    <3>1. PICK p \in 1..5, k \in Int : p = 5 /\ k = n - 1
      BY <1>1
    <3>2. finished \subseteq Stage[p] /\ k = p - e + n /\ k \in 1..n /\ e - n + k = 5
      BY <1>1, <1>5, <2>2, <3>1
    <3>3. q[k][1] \in finished
      BY <1>3, <1>5, <3>2
    <3>4. q[k][2] = 1
      <4>1. q[k][1] # gauge /\ q[k][1] \notin Histogram \X {sumNs}
        BY <3>3 DEF finished, gauge, Histogram
      <4> QED
        BY <1>3, <3>2, <4>1
    <3>5. Due(q, finished) = IF k \in 1..n /\ q[k][1] \in finished THEN q[k][2] ELSE 0
      BY <1>4, <3>2
    <3> QED
      BY <3>2, <3>3, <3>4, <3>5
  <2>11. n < 3 => i \notin 1..n /\ j \notin 1..n
    BY <1>1, <2>3, <2>7
  <2>12. i \in 1..n /\ q[i][1] = skipped => n = 3 /\ j \notin 1..n
    BY <1>1, <1>3, <2>3, <2>7
  <2>13. X = {h} \X Bucket \/ X = {<<h, count>>}
    OBVIOUS
  <2>14. CASE n < 3
    <3>1. Due(q, {skipped}) = 0 /\ Due(q, X) = 0
      BY <2>5, <2>6, <2>9, <2>11, <2>13, <2>14
    <3> QED
      BY <1>2, <2>1, <3>1 DEF q
  <2>15. CASE n >= 3 /\ ~(i \in 1..n /\ q[i][1] = skipped)
    <3>1. Due(q, {skipped}) = 0 /\ Due(q, finished) = 1
      BY <2>5, <2>10, <2>15
    <3> QED
      BY <1>2, <2>1, <3>1 DEF q
  <2>16. CASE n >= 3 /\ i \in 1..n /\ q[i][1] = skipped
    <3>1. Due(q, X) = 0 /\ Due(q, finished) = 1
      BY <1>8, <2>6, <2>9, <2>10, <2>12, <2>13, <2>16
    <3> QED
      BY <1>2, <2>1, <3>1 DEF q
  <2> QED
    BY <1>1, <2>14, <2>15, <2>16
<1> QED
  BY <1>9, <1>10

\* Together the goroutines owe no skip and no observation without the finish.
LEMMA OwedInOrder ==
  ASSUME IInv, Exact, NEW h \in Histogram, NEW X \in {{h} \X Bucket, {<<h, count>>}}
  PROVE  Owed({skipped}) + Owed(X) <= Underway(h, X) + Owed(finished)
<1> DEFINE D(C) == [w \in sem |-> Due(worker[w].todo, C)]
           U == [w \in sem |-> Unfinished(worker[w], h, X)]
           K == D({skipped})
           Y == D(X)
           F == D(finished)
<1>1. Group(X) /\ Group(finished) /\ Group({skipped})
  BY AccountGroups
<1>2. /\ IsFiniteSet(sem) /\ sem \subseteq Worker
      /\ \A w \in sem : worker[w] \in Goroutine /\ Unfinished(worker[w], h, X) \in Int
  BY UnderwayType
<1>3. \A w \in sem : /\ Due(worker[w].todo, {skipped}) \in Int /\ Due(worker[w].todo, X) \in Int
                     /\ Due(worker[w].todo, finished) \in Int
  BY <1>1, TotalType
<1>4. \A w \in sem : K[w] \in Int /\ Y[w] \in Int /\ F[w] \in Int /\ U[w] \in Int
  BY <1>2, <1>3
<1>5. \A w \in sem : K[w] + Y[w] <= U[w] + F[w]
  <2> SUFFICES ASSUME NEW w \in sem
               PROVE  Due(worker[w].todo, {skipped}) + Due(worker[w].todo, X)
                        <= Unfinished(worker[w], h, X) + Due(worker[w].todo, finished)
    OBVIOUS
  <2>1. worker[w] \in Goroutine /\ Staged(worker[w])
    BY <1>2 DEF Exact
  <2> QED
    BY <2>1, FinishLast
<1>6. /\ Owed({skipped}) = SumFunctionOnSet(K, sem) /\ Owed(X) = SumFunctionOnSet(Y, sem)
      /\ Owed(finished) = SumFunctionOnSet(F, sem) /\ Underway(h, X) = SumFunctionOnSet(U, sem)
  BY DEF Owed, Underway
<1> HIDE DEF D, K, Y, F, U
<1> DEFINE f == [w \in sem |-> Y[w] - U[w]]
           g == [w \in sem |-> F[w] - K[w]]
<1>7. SumFunctionOnSet(f, sem) = SumFunctionOnSet(Y, sem) - SumFunctionOnSet(U, sem)
  <2>1. IsFiniteSet(sem) /\ \A w \in sem : Y[w] \in Int /\ U[w] \in Int
    BY <1>2, <1>4
  <2> QED
    BY <2>1, SumDifference
<1>8. SumFunctionOnSet(g, sem) = SumFunctionOnSet(F, sem) - SumFunctionOnSet(K, sem)
  <2>1. IsFiniteSet(sem) /\ \A w \in sem : F[w] \in Int /\ K[w] \in Int
    BY <1>2, <1>4
  <2> QED
    BY <2>1, SumDifference
<1>9. \A w \in sem : f[w] \in Int /\ g[w] \in Int /\ f[w] <= g[w]
  <2> SUFFICES ASSUME NEW w \in sem PROVE f[w] \in Int /\ g[w] \in Int /\ f[w] <= g[w]
    OBVIOUS
  <2>1. f[w] = Y[w] - U[w] /\ g[w] = F[w] - K[w]
    OBVIOUS
  <2> HIDE DEF f, g
  <2> QED
    BY <1>4, <1>5, <2>1
<1> HIDE DEF f, g
<1>10. SumFunctionOnSet(f, sem) <= SumFunctionOnSet(g, sem)
  <2>1. IsFiniteSet(sem)
    BY <1>2
  <2> QED
    BY <1>9, <2>1, SumMonotone
<1>11. /\ SumFunctionOnSet(Y, sem) \in Int /\ SumFunctionOnSet(U, sem) \in Int
       /\ SumFunctionOnSet(F, sem) \in Int /\ SumFunctionOnSet(K, sem) \in Int
  <2>1. Owed({skipped}) \in Int /\ Owed(X) \in Int /\ Owed(finished) \in Int
    BY <1>1, OwedType
  <2>2. Underway(h, X) \in Int
    BY UnderwayType
  <2> QED
    BY <1>6, <2>1, <2>2
<1>12. PICK a \in Int, b \in Int, c \in Int, d \in Int :
         /\ a = SumFunctionOnSet(K, sem) /\ b = SumFunctionOnSet(Y, sem)
         /\ c = SumFunctionOnSet(U, sem) /\ d = SumFunctionOnSet(F, sem)
  BY <1>11
<1>13. b - c <= d - a
  BY <1>7, <1>8, <1>10, <1>12
<1>14. a + b <= c + d
  BY <1>13
<1> QED
  BY <1>6, <1>12, <1>14

\* So no more tasks are finished than are skipped or observed.
LEMMA FinishedBehind ==
  ASSUME IInv, Exact, NEW h \in Histogram, NEW X \in {{h} \X Bucket, {<<h, count>>}}
  PROVE  SumFunctionOnSet(value, finished)
           <= SumFunctionOnSet(value, {skipped}) + SumFunctionOnSet(value, X)
<1>1. Group(X) /\ Group(finished) /\ Group({skipped})
  BY AccountGroups
<1>2. Total(finished) + Underway(h, X) <= Total({skipped}) + Total(X)
  BY DEF Exact, Accounted, Underway
<1>3. Owed({skipped}) + Owed(X) <= Underway(h, X) + Owed(finished)
  BY OwedInOrder
<1>4. /\ Total(finished) = SumFunctionOnSet(value, finished) + Owed(finished)
      /\ Owed(finished) \in Int /\ SumFunctionOnSet(value, finished) \in Int
  BY <1>1, OwedType
<1>5. /\ Total({skipped}) = SumFunctionOnSet(value, {skipped}) + Owed({skipped})
      /\ Owed({skipped}) \in Int /\ SumFunctionOnSet(value, {skipped}) \in Int
  BY <1>1, OwedType
<1>6. /\ Total(X) = SumFunctionOnSet(value, X) + Owed(X)
      /\ Owed(X) \in Int /\ SumFunctionOnSet(value, X) \in Int
  BY <1>1, OwedType
<1>7. Underway(h, X) \in Int
  BY UnderwayType
<1>8. PICK a \in Int, b \in Int, c \in Int, x \in Int, y \in Int, z \in Int, u \in Int :
        /\ a = SumFunctionOnSet(value, finished) /\ b = SumFunctionOnSet(value, {skipped})
        /\ c = SumFunctionOnSet(value, X) /\ u = Underway(h, X)
        /\ x = Owed(finished) /\ y = Owed({skipped}) /\ z = Owed(X)
  BY <1>4, <1>5, <1>6, <1>7
<1>9. (a + x) + u <= (b + y) + (c + z)
  BY <1>2, <1>4, <1>5, <1>6, <1>8
<1>10. y + z <= u + x
  BY <1>3, <1>8
<1>11. a <= b + c
  BY <1>9, <1>10
<1> QED
  BY <1>8, <1>11

\* The inequalities of Ordered, one by one.
LEMMA OrderCases ==
  ASSUME NEW o \in Order
  PROVE  \/ \E h \in Histogram :
              \/ o = <<finished, {skipped} \cup {h} \X Bucket, 0>>
              \/ o = <<finished, {skipped} \cup {<<h, count>>}, 0>>
              \/ o = <<{h} \X Bucket, {<<h, count>>}, MaxConcurrent>>
         \/ o = <<delivered, {<<"deliveryDuration", count>>}, MaxConcurrent>>
<1>1. CASE o = <<delivered, {<<"deliveryDuration", count>>}, MaxConcurrent>>
  BY <1>1
<1>2. CASE o # <<delivered, {<<"deliveryDuration", count>>}, MaxConcurrent>>
  <2>1. PICK h \in Histogram :
          \/ o = <<finished, {skipped} \cup {h} \X Bucket, 0>>
          \/ o = <<finished, {skipped, <<h, count>>}, 0>>
          \/ o = <<{h} \X Bucket, {<<h, count>>}, MaxConcurrent>>
    BY <1>2 DEF Order
  <2>2. {skipped, <<h, count>>} = {skipped} \cup {<<h, count>>}
    OBVIOUS
  <2> QED
    BY <2>1, <2>2
<1> QED
  BY <1>1, <1>2

\* A sum with one counter more.
LEMMA SumWith ==
  ASSUME NEW f, NEW X, IsFiniteSet(X), \A x \in X : f[x] \in Int, NEW c, c \notin X, f[c] \in Int
  PROVE  SumFunctionOnSet(f, {c} \cup X) = SumFunctionOnSet(f, {c}) + SumFunctionOnSet(f, X)
<1> DEFINE S == {c} \cup X
<1>1. IsFiniteSet(S) /\ c \in S /\ S \ {c} = X /\ \A x \in S : f[x] \in Int
  <2>1. S = X \cup {c}
    OBVIOUS
  <2>2. IsFiniteSet(X \cup {c})
    BY FS_AddElement
  <2> QED
    BY <2>1, <2>2
<1> HIDE DEF S
<1>2. SumFunctionOnSet(f, S) = f[c] + SumFunctionOnSet(f, S \ {c})
  BY <1>1, SumTakes
<1>3. SumFunctionOnSet(f, {c}) = f[c]
  BY SumSmall
<1> QED
  BY <1>1, <1>2, <1>3 DEF S

\* The counter of the skipped tasks is in no histogram.
LEMMA SkippedApart ==
  ASSUME NEW h \in Histogram, NEW X \in {{h} \X Bucket, {<<h, count>>}}
  PROVE  skipped \notin X
<1>1. skipped[1] \notin Histogram /\ skipped = <<"tasksSkipped", 0>>
  BY DEF skipped, Histogram
<1>2. X = {h} \X Bucket \/ X = {<<h, count>>}
  OBVIOUS
<1> HIDE DEF skipped
<1>3. \A c \in X : c[1] = h
  BY <1>2
<1> QED
  BY <1>1, <1>3

\* The counters are in order at any moment.
LEMMA ValuesOrdered ==
  ASSUME IInv, Exact
  PROVE  Ordered(value)
<1> DEFINE Sum(C) == SumFunctionOnSet(value, C)
<1>1. ASSUME NEW h \in Histogram, NEW X \in {{h} \X Bucket, {<<h, count>>}}
      PROVE  Sum(finished) <= Sum({skipped} \cup X) + 0
  <2>1. Group(X) /\ Group({skipped}) /\ skipped \notin X
    BY AccountGroups, SkippedApart
  <2>2. /\ IsFiniteSet(X) /\ (\A c \in X : value[c] \in Int) /\ Sum(X) \in Int
        /\ value[skipped] \in Int /\ Sum({skipped}) \in Int
    <3>1. IsFiniteSet(X) /\ (\A c \in X : value[c] \in Nat) /\ Sum(X) \in Int
      BY <2>1, TotalType
    <3>2. (\A c \in {skipped} : value[c] \in Nat) /\ Sum({skipped}) \in Int
      BY <2>1, TotalType
    <3> HIDE DEF Sum
    <3> QED
      BY <3>1, <3>2
  <2>3. Sum({skipped} \cup X) = Sum({skipped}) + Sum(X)
    BY <2>1, <2>2, SumWith
  <2>4. Sum(finished) <= Sum({skipped}) + Sum(X)
    BY FinishedBehind
  <2> QED
    BY <2>2, <2>3, <2>4
<1>2. ASSUME NEW h \in Histogram
      PROVE  Sum({h} \X Bucket) <= Sum({<<h, count>>}) + MaxConcurrent
  <2>1. Total({h} \X Bucket) = Total({<<h, count>>})
    BY SameTotals DEF Exact
  <2> QED
    BY <2>1, LagsBehind
<1>3. Sum(delivered) <= Sum({<<"deliveryDuration", count>>}) + MaxConcurrent
  <2>1. PICK h \in Histogram : h = "deliveryDuration"
    BY DEF Histogram
  <2>2. Total(delivered) = Total({<<h, count>>})
    BY <2>1, SameTotals DEF Exact
  <2>3. Sum(delivered) <= Sum({<<h, count>>}) + MaxConcurrent
    BY <2>2, LagsBehind
  <2> QED
    BY <2>1, <2>3
<1> SUFFICES ASSUME NEW o \in Order PROVE Sum(o[1]) <= Sum(o[2]) + o[3]
  BY DEF Ordered
<1> HIDE DEF Sum
<1>4. ASSUME NEW h \in Histogram, o = <<finished, {skipped} \cup {h} \X Bucket, 0>>
      PROVE  Sum(o[1]) <= Sum(o[2]) + o[3]
  BY <1>1, <1>4
<1>5. ASSUME NEW h \in Histogram, o = <<finished, {skipped} \cup {<<h, count>>}, 0>>
      PROVE  Sum(o[1]) <= Sum(o[2]) + o[3]
  BY <1>1, <1>5
<1>6. ASSUME NEW h \in Histogram, o = <<{h} \X Bucket, {<<h, count>>}, MaxConcurrent>>
      PROVE  Sum(o[1]) <= Sum(o[2]) + o[3]
  BY <1>2, <1>6
<1>7. CASE o = <<delivered, {<<"deliveryDuration", count>>}, MaxConcurrent>>
  BY <1>3, <1>7
<1> QED
  BY <1>4, <1>5, <1>6, <1>7, OrderCases

\* While no goroutine is in the middle of an observation in h, nothing is owed
\* to its counters.
LEMMA NothingOwed ==
  ASSUME IInv, NEW h \in Histogram, ~Observing(h), NEW C, Group(C), \A c \in C : c[1] = h
  PROVE  SumFunctionOnSet(value, C) = Total(C)
<1> DEFINE D == [w \in sem |-> Due(worker[w].todo, C)]
<1>1. IsFiniteSet(sem) /\ sem \subseteq Worker
  BY DEF IInv, Types, SlotsHeld
<1>2. \A w \in sem : D[w] = 0
  <2> SUFFICES ASSUME NEW w \in sem PROVE Due(worker[w].todo, C) = 0
    OBVIOUS
  <2> DEFINE q == worker[w].todo
  <2>1. \A i \in 1..Len(q) : q[i][1][1] # h
    BY <1>1 DEF Observing
  <2>2. \A i \in 1..Len(q) : q[i][1] \notin C
    BY <2>1
  <2> QED
    BY <2>2, DueIs
<1>3. Owed(C) = SumFunctionOnSet(D, sem)
  BY DEF Owed
<1> HIDE DEF D
<1>4. \A w \in sem : D[w] \in Int
  BY <1>2
<1>5. SumFunctionOnSet(D, sem) = 0
  BY <1>1, <1>2, <1>4, SumOfUnits
<1>6. SumFunctionOnSet(value, C) \in Int /\ Total(C) = SumFunctionOnSet(value, C) + Owed(C)
  BY OwedType
<1> QED
  BY <1>3, <1>5, <1>6

\* So its counters are what was observed.
LEMMA HistogramsExact ==
  ASSUME IInv, Exact
  PROVE  HistogramExact
<1> SUFFICES ASSUME NEW h \in Histogram, ~Observing(h)
             PROVE  /\ \A i \in Bucket :
                         Cumulative(value, h, i) = SumFunctionOnSet(noted[h], UpTo(i))
                    /\ value[<<h, count>>] = Inf(value, h)
                    /\ value[<<h, sumNs>>]
                         = SumFunction([v \in Value |-> noted[h][v] * Max0(v)])
  BY DEF HistogramExact
<1>1. Observed
  BY DEF Exact
<1>2. ASSUME NEW i \in Bucket
      PROVE  Cumulative(value, h, i) = SumFunctionOnSet(noted[h], UpTo(i))
  <2> DEFINE C == {h} \X (1..i)
  <2>1. Group(C) /\ \A c \in C : c[1] = h
    BY Groups
  <2>2. Total(C) = SumFunctionOnSet(noted[h], UpTo(i))
    BY <1>1 DEF Observed
  <2>3. Cumulative(value, h, i) = SumFunctionOnSet(value, C)
    BY DEF Cumulative
  <2> HIDE DEF C
  <2>4. SumFunctionOnSet(value, C) = Total(C)
    BY <2>1, NothingOwed
  <2> QED
    BY <2>2, <2>3, <2>4
<1>3. ASSUME NEW p, Group({<<h, p>>}) PROVE value[<<h, p>>] = Total({<<h, p>>})
  <2>1. \A c \in {<<h, p>>} : c[1] = h
    OBVIOUS
  <2>2. SumFunctionOnSet(value, {<<h, p>>}) = Total({<<h, p>>})
    BY <1>3, <2>1, NothingOwed
  <2>3. \A c \in {<<h, p>>} : value[c] \in Nat
    BY <1>3, TotalType
  <2>4. value[<<h, p>>] \in Int
    BY <2>3
  <2>5. SumFunctionOnSet(value, {<<h, p>>}) = value[<<h, p>>]
    BY <2>4, SumSmall
  <2> QED
    BY <2>2, <2>5
<1>4. value[<<h, sumNs>>] = SumFunction([v \in Value |-> noted[h][v] * Max0(v)])
  <2>1. Group({<<h, sumNs>>})
    BY Groups
  <2>2. Total({<<h, sumNs>>}) = SumFunction([v \in Value |-> noted[h][v] * Max0(v)])
    BY <1>1 DEF Observed
  <2> QED
    BY <1>3, <2>1, <2>2
<1>5. value[<<h, count>>] = Inf(value, h)
  <2>1. PICK n \in Nat : n = Len(upper)
    BY MetricsAssumption
  <2>2. n + 1 \in Bucket /\ UpTo(n + 1) = Value
    BY <2>1 DEF Bucket, UpTo
  <2>3. Inf(value, h) = SumFunctionOnSet(noted[h], Value)
    BY <1>2, <2>1, <2>2 DEF Inf
  <2>4. Total({<<h, count>>}) = SumFunctionOnSet(noted[h], Value)
    BY <1>1 DEF Observed
  <2>5. Group({<<h, count>>})
    BY Groups
  <2> QED
    BY <1>3, <2>3, <2>4, <2>5
<1> QED
  BY <1>2, <1>4, <1>5

-----------------------------------------------------------------------------
(* A scrape.                                                               *)

\* Where each counter is rendered.
LEMMA RenderedAt ==
  /\ count \in Nat /\ Rendered \in Seq(Counter) /\ Len(Rendered) = 7 + count + count
  /\ \A i \in 1..7 : Rendered[i] = <<Plain[i], 0>>
  /\ \A i \in 1..count : Rendered[7 + i] = <<"deliveryDuration", i>>
  /\ \A i \in 1..count : Rendered[7 + count + i] = <<"lateness", i>>
<1> DEFINE a == [i \in 1..Len(Plain) |-> <<Plain[i], 0>>]
           b == [i \in 1..count |-> <<"deliveryDuration", i>>]
           c == [i \in 1..count |-> <<"lateness", i>>]
           t == a \o b
<1>1. Len(Plain) = 7 /\ count \in Nat
  BY MetricsAssumption DEF Plain, count
<1>2. a \in [1..7 -> Counter] /\ \A i \in 1..7 : a[i] = <<Plain[i], 0>>
  BY <1>1 DEF Counter
<1>3. b \in [1..count -> Counter] /\ c \in [1..count -> Counter]
  BY Counters DEF Histogram
<1>4. \A i \in 1..count : b[i] = <<"deliveryDuration", i>> /\ c[i] = <<"lateness", i>>
  OBVIOUS
<1>5. IsJoined(t, a, b) /\ IsJoined(Rendered, t, c)
  BY DEF Rendered, IsJoined
<1> HIDE DEF a, b, c, t
<1>6. a \in Seq(Counter) /\ Len(a) = 7
  <2>1. PICK m \in Nat : m = 7
    OBVIOUS
  <2>2. a \in [1..m -> Counter]
    BY <1>2, <2>1
  <2>3. a \in Seq(Counter) /\ Len(a) = m
    BY <2>2
  <2> QED
    BY <2>1, <2>3
<1>7. b \in Seq(Counter) /\ Len(b) = count /\ c \in Seq(Counter) /\ Len(c) = count
  BY <1>1, <1>3
<1>8. /\ t \in Seq(Counter) /\ Len(t) = Len(a) + Len(b)
      /\ \A i \in 1..Len(a) : t[i] = a[i]
      /\ \A i \in 1..Len(b) : t[Len(a) + i] = b[i]
  <2>1. a \in Seq(Counter) /\ b \in Seq(Counter)
    BY <1>6, <1>7
  <2> QED
    BY <1>5, <2>1, Joined
<1>9. /\ Rendered \in Seq(Counter) /\ Len(Rendered) = Len(t) + Len(c)
      /\ \A i \in 1..Len(t) : Rendered[i] = t[i]
      /\ \A i \in 1..Len(c) : Rendered[Len(t) + i] = c[i]
  <2>1. t \in Seq(Counter) /\ c \in Seq(Counter)
    BY <1>7, <1>8
  <2> QED
    BY <1>5, <2>1, Joined
<1>10. Len(t) = 7 + count /\ Len(Rendered) = 7 + count + count
  BY <1>6, <1>7, <1>8, <1>9
<1>11. \A i \in 1..7 : Rendered[i] = <<Plain[i], 0>>
  <2> SUFFICES ASSUME NEW i \in 1..7 PROVE Rendered[i] = <<Plain[i], 0>>
    OBVIOUS
  <2>1. i \in 1..Len(a) /\ i \in 1..Len(t)
    BY <1>1, <1>6, <1>10
  <2> QED
    BY <1>2, <1>8, <1>9, <2>1
<1>12. \A i \in 1..count : Rendered[7 + i] = <<"deliveryDuration", i>>
  <2> SUFFICES ASSUME NEW i \in 1..count PROVE Rendered[7 + i] = <<"deliveryDuration", i>>
    OBVIOUS
  <2>1. i \in 1..Len(b) /\ 7 + i \in 1..Len(t) /\ Len(a) + i = 7 + i
    BY <1>1, <1>6, <1>7, <1>10
  <2>2. t[7 + i] = b[i]
    BY <1>8, <2>1
  <2> QED
    BY <1>4, <1>9, <2>1, <2>2
<1>13. \A i \in 1..count : Rendered[7 + count + i] = <<"lateness", i>>
  <2> SUFFICES ASSUME NEW i \in 1..count PROVE Rendered[7 + count + i] = <<"lateness", i>>
    OBVIOUS
  <2>1. i \in 1..Len(c) /\ Len(t) + i = 7 + count + i
    BY <1>7, <1>10
  <2> QED
    BY <1>4, <1>9, <2>1
<1> QED
  BY <1>1, <1>9, <1>10, <1>11, <1>12, <1>13

\* Every counter is rendered.
LEMMA AllRendered == \A c \in Counter : \E k \in 1..Len(Rendered) : Rendered[k] = c
<1> SUFFICES ASSUME NEW c \in Counter PROVE \E k \in 1..Len(Rendered) : Rendered[k] = c
  OBVIOUS
<1>1. count \in Nat /\ Len(Rendered) = 7 + count + count /\ Len(Plain) = 7
  BY RenderedAt DEF Plain
<1>2. CASE \E i \in 1..7 : c = <<Plain[i], 0>>
  <2>1. PICK i \in 1..7 : c = <<Plain[i], 0>>
    BY <1>2
  <2>2. i \in 1..Len(Rendered) /\ Rendered[i] = c
    BY <1>1, <2>1, RenderedAt
  <2> QED
    BY <2>2
<1>3. CASE \E i \in 1..count : c = <<"deliveryDuration", i>>
  <2>1. PICK i \in 1..count : c = <<"deliveryDuration", i>>
    BY <1>3
  <2>2. 7 + i \in 1..Len(Rendered) /\ Rendered[7 + i] = c
    BY <1>1, <2>1, RenderedAt
  <2> QED
    BY <2>2
<1>4. CASE \E i \in 1..count : c = <<"lateness", i>>
  <2>1. PICK i \in 1..count : c = <<"lateness", i>>
    BY <1>4
  <2>2. 7 + count + i \in 1..Len(Rendered) /\ Rendered[7 + count + i] = c
    BY <1>1, <2>1, RenderedAt
  <2> QED
    BY <2>2
<1>5. \/ \E i \in 1..7 : c = <<Plain[i], 0>>
      \/ \E i \in 1..count : c = <<"deliveryDuration", i>>
      \/ \E i \in 1..count : c = <<"lateness", i>>
  BY <1>1 DEF Counter, Histogram
<1> QED
  BY <1>2, <1>3, <1>4, <1>5

\* Which line shows which counter.
LEMMA LineOf ==
  ASSUME NEW i \in 1..Len(Rendered)
  PROVE  \/ i \in 1..7 /\ Rendered[i] = <<Plain[i], 0>>
         \/ \E x \in 1..count : i = 7 + x /\ Rendered[i] = <<"deliveryDuration", x>>
         \/ \E x \in 1..count : i = 7 + count + x /\ Rendered[i] = <<"lateness", x>>
<1>1. count \in Nat /\ Len(Rendered) = 7 + count + count
  BY RenderedAt
<1>2. PICK x \in Int, y \in Int : x = i - 7 /\ y = i - 7 - count
  BY <1>1
<1>3. \/ i \in 1..7
      \/ x \in 1..count /\ i = 7 + x
      \/ y \in 1..count /\ i = 7 + count + y
  BY <1>1, <1>2
<1> QED
  BY <1>3, RenderedAt

\* The groups of Order, from the one that is shown first.
LEMMA ShownInOrder ==
  ASSUME NEW o \in Order, NEW i \in 1..Len(Rendered), Rendered[i] \in o[1], NEW b \in o[2]
  PROVE  \E k \in 1..Len(Rendered) : k > i /\ Rendered[k] = b
<1>1. count \in Nat /\ Len(Rendered) = 7 + count + count
  BY RenderedAt
<1>2. Len(upper) \in Nat /\ count = Len(upper) + 3 /\ Bucket = 1..(Len(upper) + 1)
  BY MetricsAssumption DEF count, Bucket
<1>3. count \in 1..count /\ \A x \in Bucket : x \in 1..count /\ x < count
  BY <1>1, <1>2
<1>4. ASSUME Rendered[i][1] \notin Histogram PROVE i \in 1..7 /\ Rendered[i] = <<Plain[i], 0>>
  BY <1>4, LineOf DEF Histogram
<1>5. ASSUME NEW h \in Histogram, NEW x \in 1..count
      PROVE  \E k \in 1..Len(Rendered) : k > 7 /\ Rendered[k] = <<h, x>>
  <2>1. CASE h = "deliveryDuration"
    <3>1. 7 + x \in 1..Len(Rendered) /\ 7 + x > 7 /\ Rendered[7 + x] = <<h, x>>
      <4>1. 7 + x \in 1..Len(Rendered) /\ 7 + x > 7
        BY <1>1
      <4>2. Rendered[7 + x] = <<"deliveryDuration", x>>
        BY RenderedAt
      <4> QED
        BY <2>1, <4>1, <4>2
    <3> QED
      BY <3>1
  <2>2. CASE h = "lateness"
    <3>1. /\ 7 + count + x \in 1..Len(Rendered) /\ 7 + count + x > 7
          /\ Rendered[7 + count + x] = <<h, x>>
      BY <1>1, <2>2, RenderedAt
    <3> QED
      BY <3>1
  <2> QED
    BY <2>1, <2>2 DEF Histogram
<1>6. ASSUME o[1] = finished PROVE i \in {3, 4}
  <2>1. Rendered[i] = <<"tasksSucceeded", 0>> \/ Rendered[i] = <<"tasksFailed", 0>>
    BY <1>6 DEF finished
  <2>2. Rendered[i][1] \in {"tasksSucceeded", "tasksFailed"}
    BY <2>1
  <2>3. i \in 1..7 /\ Rendered[i] = <<Plain[i], 0>>
    BY <1>4, <2>2 DEF Histogram
  <2>4. Plain[i] \in {"tasksSucceeded", "tasksFailed"}
    BY <2>2, <2>3
  <2>5. /\ Plain[1] = "deliveriesOK" /\ Plain[2] = "deliveriesFail" /\ Plain[5] = "tasksSkipped"
        /\ Plain[6] = "tasksReplayed" /\ Plain[7] = "inflight"
    BY DEF Plain
  <2> QED
    BY <2>3, <2>4, <2>5
<1>7. ASSUME o[1] = finished, b = skipped PROVE \E k \in 1..Len(Rendered) : k > i /\ Rendered[k] = b
  <2>1. i \in {3, 4}
    BY <1>6, <1>7
  <2>2. PICK k \in 1..7 : k = 5
    OBVIOUS
  <2>3. k \in 1..Len(Rendered) /\ k > i
    BY <1>1, <2>1, <2>2
  <2>4. Rendered[k] = <<Plain[k], 0>> /\ Plain[5] = "tasksSkipped"
    BY RenderedAt DEF Plain
  <2> QED
    BY <1>7, <2>2, <2>3, <2>4 DEF skipped
<1>8. ASSUME NEW h \in Histogram, NEW x \in 1..count, b = <<h, x>>, i \in 1..7
      PROVE  \E k \in 1..Len(Rendered) : k > i /\ Rendered[k] = b
  <2>1. PICK k \in 1..Len(Rendered) : k > 7 /\ Rendered[k] = <<h, x>>
    BY <1>5
  <2> QED
    BY <1>1, <1>8, <2>1
<1>9. ASSUME NEW h \in Histogram, o[1] = finished, b \in {h} \X Bucket \/ b = <<h, count>>
      PROVE  \E k \in 1..Len(Rendered) : k > i /\ Rendered[k] = b
  <2>1. PICK x \in 1..count : b = <<h, x>>
    BY <1>3, <1>9
  <2>2. i \in 1..7
    BY <1>6, <1>9
  <2> QED
    BY <1>8, <2>1, <2>2
<1>10. ASSUME NEW h \in Histogram, o[1] = {h} \X Bucket, b = <<h, count>>
       PROVE  \E k \in 1..Len(Rendered) : k > i /\ Rendered[k] = b
  <2>1. PICK x \in Bucket : Rendered[i] = <<h, x>>
    BY <1>10
  <2>2. x \in 1..count /\ x < count
    BY <1>3
  <2>3. CASE h = "deliveryDuration"
    <3>1. i = 7 + x
      <4>1. <<Plain[i], 0>>[2] = 0 /\ <<h, x>>[2] = x /\ x # 0
        BY <2>2
      <4>2. ASSUME NEW y PROVE <<h, x>> = <<"deliveryDuration", y>> => x = y
        OBVIOUS
      <4>3. ASSUME NEW y PROVE <<h, x>> # <<"lateness", y>>
        BY <2>3
      <4> QED
        BY <2>1, <4>1, <4>2, <4>3, LineOf
    <3>2. 7 + count \in 1..Len(Rendered) /\ 7 + count > i /\ Rendered[7 + count] = b
      BY <1>1, <1>3, <1>10, <2>2, <2>3, <3>1, RenderedAt
    <3> QED
      BY <3>2
  <2>4. CASE h = "lateness"
    <3>1. i = 7 + count + x
      <4>1. <<Plain[i], 0>>[2] = 0 /\ <<h, x>>[2] = x /\ x # 0
        BY <2>2
      <4>2. ASSUME NEW y PROVE <<h, x>> = <<"lateness", y>> => x = y
        OBVIOUS
      <4>3. ASSUME NEW y PROVE <<h, x>> # <<"deliveryDuration", y>>
        BY <2>4
      <4> QED
        BY <2>1, <4>1, <4>2, <4>3, LineOf
    <3>2. /\ 7 + count + count \in 1..Len(Rendered) /\ 7 + count + count > i
          /\ Rendered[7 + count + count] = b
      BY <1>1, <1>3, <1>10, <2>2, <2>4, <3>1, RenderedAt
    <3> QED
      BY <3>2
  <2> QED
    BY <2>3, <2>4 DEF Histogram
<1>11. ASSUME o[1] = delivered, b = <<"deliveryDuration", count>>
       PROVE  \E k \in 1..Len(Rendered) : k > i /\ Rendered[k] = b
  <2>1. Rendered[i][1] \notin Histogram
    BY <1>11 DEF delivered, Histogram
  <2>2. i \in 1..7
    BY <1>4, <2>1
  <2>3. "deliveryDuration" \in Histogram
    BY DEF Histogram
  <2> QED
    BY <1>3, <1>8, <1>11, <2>2, <2>3
<1>12. CASE o = <<delivered, {<<"deliveryDuration", count>>}, MaxConcurrent>>
  BY <1>11, <1>12
<1>13. ASSUME NEW h \in Histogram, o = <<finished, {skipped} \cup {h} \X Bucket, 0>>
       PROVE  \E k \in 1..Len(Rendered) : k > i /\ Rendered[k] = b
  <2>1. o[1] = finished /\ (b = skipped \/ b \in {h} \X Bucket)
    BY <1>13
  <2> QED
    BY <1>7, <1>9, <2>1
<1>14. ASSUME NEW h \in Histogram, o = <<finished, {skipped} \cup {<<h, count>>}, 0>>
       PROVE  \E k \in 1..Len(Rendered) : k > i /\ Rendered[k] = b
  <2>1. o[1] = finished /\ (b = skipped \/ b = <<h, count>>)
    BY <1>14
  <2> QED
    BY <1>7, <1>9, <2>1
<1>15. ASSUME NEW h \in Histogram, o = <<{h} \X Bucket, {<<h, count>>}, MaxConcurrent>>
       PROVE  \E k \in 1..Len(Rendered) : k > i /\ Rendered[k] = b
  <2>1. o[1] = {h} \X Bucket /\ b = <<h, count>>
    BY <1>15
  <2> QED
    BY <1>10, <2>1
<1> QED
  BY <1>12, <1>13, <1>14, <1>15, OrderCases

\* The groups of Order are finite, and the gauge is in none.
LEMMA OrderType ==
  ASSUME NEW o \in Order
  PROVE  /\ IsFiniteSet(o[1]) /\ IsFiniteSet(o[2]) /\ o[3] \in Int
         /\ o[1] \cup o[2] \subseteq Counter \ {gauge}
<1>1. MaxConcurrent \in Int
  BY MetricsAssumption
<1>2. ASSUME NEW C, Group(C) PROVE IsFiniteSet(C) /\ C \subseteq Counter \ {gauge}
  BY <1>2, GroupCounters DEF Group
<1>3. ASSUME NEW h \in Histogram, NEW X, Group(X), o = <<finished, {skipped} \cup X, 0>>
      PROVE  /\ IsFiniteSet(o[1]) /\ IsFiniteSet(o[2]) /\ o[3] \in Int
             /\ o[1] \cup o[2] \subseteq Counter \ {gauge}
  <2>1. IsFiniteSet(finished) /\ finished \subseteq Counter \ {gauge}
    BY <1>2, Groups
  <2>2. {skipped} \subseteq Counter \ {gauge} /\ X \subseteq Counter \ {gauge} /\ IsFiniteSet(X)
    BY <1>2, <1>3, Groups
  <2>3. IsFiniteSet(X \cup {skipped})
    BY <2>2, FS_AddElement
  <2>4. X \cup {skipped} = {skipped} \cup X
    OBVIOUS
  <2> QED
    BY <1>3, <2>1, <2>2, <2>3, <2>4
<1>4. ASSUME NEW A, NEW B, Group(A), Group(B), o = <<A, B, MaxConcurrent>>
      PROVE  /\ IsFiniteSet(o[1]) /\ IsFiniteSet(o[2]) /\ o[3] \in Int
             /\ o[1] \cup o[2] \subseteq Counter \ {gauge}
  BY <1>1, <1>2, <1>4
<1>5. CASE o = <<delivered, {<<"deliveryDuration", count>>}, MaxConcurrent>>
  <2>1. Group(delivered) /\ Group({<<"deliveryDuration", count>>})
    BY Groups DEF Histogram
  <2> QED
    BY <1>4, <1>5, <2>1
<1>6. ASSUME NEW h \in Histogram,
             \/ o = <<finished, {skipped} \cup {h} \X Bucket, 0>>
             \/ o = <<finished, {skipped} \cup {<<h, count>>}, 0>>
             \/ o = <<{h} \X Bucket, {<<h, count>>}, MaxConcurrent>>
      PROVE  /\ IsFiniteSet(o[1]) /\ IsFiniteSet(o[2]) /\ o[3] \in Int
             /\ o[1] \cup o[2] \subseteq Counter \ {gauge}
  <2>1. Group({h} \X Bucket) /\ Group({<<h, count>>})
    BY Groups
  <2>2. CASE o = <<finished, {skipped} \cup {h} \X Bucket, 0>>
    BY <1>3, <2>1, <2>2
  <2>3. CASE o = <<finished, {skipped} \cup {<<h, count>>}, 0>>
    BY <1>3, <2>1, <2>3
  <2>4. CASE o = <<{h} \X Bucket, {<<h, count>>}, MaxConcurrent>>
    BY <1>4, <2>1, <2>4
  <2> QED
    BY <1>6, <2>2, <2>3, <2>4
<1> QED
  BY <1>5, <1>6, OrderCases

\* Two sums stay in order from f to g if those on the right grow, and those on
\* the left stay, or else all follow v, in which they are in order.
LEMMA OrderStays ==
  ASSUME NEW L, IsFiniteSet(L), NEW R, IsFiniteSet(R), NEW k \in Int, NEW f, NEW g, NEW v,
         \A c \in L \cup R : f[c] \in Int /\ g[c] \in Int /\ v[c] \in Int,
         \A c \in R : f[c] <= g[c],
         SumFunctionOnSet(f, L) <= SumFunctionOnSet(f, R) + k,
         SumFunctionOnSet(v, L) <= SumFunctionOnSet(v, R) + k,
         \/ (\A c \in L : g[c] <= v[c]) /\ (\A c \in R : g[c] = v[c])
         \/ \A c \in L : g[c] = f[c]
  PROVE  SumFunctionOnSet(g, L) <= SumFunctionOnSet(g, R) + k
<1>1. /\ \A c \in L : f[c] \in Int /\ g[c] \in Int /\ v[c] \in Int
      /\ \A c \in R : f[c] \in Int /\ g[c] \in Int /\ v[c] \in Int
  OBVIOUS
<1>2. /\ SumFunctionOnSet(f, L) \in Int /\ SumFunctionOnSet(f, R) \in Int
      /\ SumFunctionOnSet(g, L) \in Int /\ SumFunctionOnSet(g, R) \in Int
      /\ SumFunctionOnSet(v, L) \in Int /\ SumFunctionOnSet(v, R) \in Int
  <2>1. SumFunctionOnSet(f, L) \in Int /\ SumFunctionOnSet(f, R) \in Int
    BY <1>1, SumType
  <2>2. SumFunctionOnSet(g, L) \in Int /\ SumFunctionOnSet(g, R) \in Int
    BY <1>1, SumType
  <2>3. SumFunctionOnSet(v, L) \in Int /\ SumFunctionOnSet(v, R) \in Int
    BY <1>1, SumType
  <2> QED
    BY <2>1, <2>2, <2>3
<1>3. CASE (\A c \in L : g[c] <= v[c]) /\ (\A c \in R : g[c] = v[c])
  <2>1. SumFunctionOnSet(g, L) <= SumFunctionOnSet(v, L)
    <3>1. \A c \in L : g[c] \in Int /\ v[c] \in Int /\ g[c] <= v[c]
      BY <1>1, <1>3
    <3> QED
      BY <3>1, SumMonotone
  <2>2. SumFunctionOnSet(g, R) = SumFunctionOnSet(v, R)
    <3>1. \A c \in R : v[c] \in Int /\ g[c] = v[c]
      BY <1>1, <1>3
    <3> QED
      BY <3>1, SumAgrees
  <2> QED
    BY <1>2, <2>1, <2>2
<1>4. CASE \A c \in L : g[c] = f[c]
  <2>1. SumFunctionOnSet(g, L) = SumFunctionOnSet(f, L)
    <3>1. \A c \in L : f[c] \in Int /\ g[c] = f[c]
      BY <1>1, <1>4
    <3> QED
      BY <3>1, SumAgrees
  <2>2. SumFunctionOnSet(f, R) <= SumFunctionOnSet(g, R)
    <3>1. \A c \in R : f[c] \in Int /\ g[c] \in Int /\ f[c] <= g[c]
      BY <1>1
    <3> QED
      BY <3>1, SumMonotone
  <2> QED
    BY <1>2, <2>1, <2>2
<1> QED
  BY <1>3, <1>4

\* When counters of the first group of an order are still to be loaded, all of
\* the second are.
LEMMA UnreadInOrder ==
  ASSUME IInv, Scraped, scrape # None, NEW o \in Order, NEW a \in o[1], Unread(a), NEW b \in o[2]
  PROVE  Unread(b)
<1> DEFINE q == scrape.left
           n == Len(q)
           m == Len(Rendered)
<1>1. q \in Seq(Counter)
  BY DEF IInv, Types
<1>2. /\ n <= m /\ \A j \in 1..n : q[j] = Rendered[m - n + j]
  BY DEF Scraped
<1>3. PICK j \in 1..n : q[j] = a
  BY DEF Unread
<1> HIDE DEF q, n, m
<1>4. n \in Nat
  BY <1>1 DEF n
<1>5. m \in Nat
  BY RenderedAt DEF m
<1>6. PICK i \in 1..m : i = m - n + j
  BY <1>2, <1>4, <1>5
<1>7. Rendered[i] = a
  BY <1>2, <1>3, <1>6
<1>8. PICK k \in 1..m : k > i /\ Rendered[k] = b
  BY <1>7, ShownInOrder DEF m
<1>9. PICK l \in 1..n : l = k - m + n
  BY <1>2, <1>4, <1>5, <1>6, <1>8
<1>10. m - n + l = k
  BY <1>4, <1>5, <1>9
<1>11. q[l] = b
  BY <1>2, <1>8, <1>10
<1> QED
  BY <1>11 DEF Unread, n, q

\* The counters move while a scrape stands still.
LEMMA ScrapedKept ==
  ASSUME IInv, IInv', Scraped, Ordered(value)', scrape' = scrape,
         \A c \in Counter \ {gauge} : value[c] <= value'[c]
  PROVE  Scraped'
<1> SUFFICES ASSUME scrape # None PROVE Scraped'
  BY DEF Scraped
<1> DEFINE N == [c \in Counter |-> IF Unread(c) THEN value'[c] ELSE scrape.read[c]]
<1>1. \A c : Unread(c)' <=> Unread(c)
  BY DEF Unread
<1>2. Mix' = N
  BY <1>1 DEF Mix
<1>3. ASSUME NEW c \in Counter \ {gauge}
      PROVE  /\ value[c] \in Nat /\ value'[c] \in Nat /\ value[c] <= value'[c]
             /\ scrape.read[c] \in Nat /\ scrape.read[c] <= value[c]
  BY <1>3 DEF IInv, Types, Scraped
<1>4. ASSUME NEW c \in Counter \ {gauge}
      PROVE  /\ Mix[c] \in Int /\ N[c] \in Int /\ value'[c] \in Int
             /\ Mix[c] <= N[c] /\ N[c] <= value'[c] /\ scrape.read[c] <= value'[c]
             /\ Unread(c) => N[c] = value'[c]
             /\ ~Unread(c) => N[c] = Mix[c]
  <2>1. Mix[c] = IF Unread(c) THEN value[c] ELSE scrape.read[c]
    BY DEF Mix
  <2>2. N[c] = IF Unread(c) THEN value'[c] ELSE scrape.read[c]
    OBVIOUS
  <2> HIDE DEF N
  <2> QED
    BY <1>3, <2>1, <2>2
<1> HIDE DEF N
<1>5. Ordered(N)
  <2> SUFFICES ASSUME NEW o \in Order
               PROVE  SumFunctionOnSet(N, o[1]) <= SumFunctionOnSet(N, o[2]) + o[3]
    BY DEF Ordered
  <2> DEFINE f == Mix
             v == value'
  <2>1. /\ IsFiniteSet(o[1]) /\ IsFiniteSet(o[2]) /\ o[3] \in Int
        /\ o[1] \cup o[2] \subseteq Counter \ {gauge}
    BY OrderType
  <2>2. \A c \in o[1] \cup o[2] : f[c] \in Int /\ N[c] \in Int /\ v[c] \in Int
    BY <1>4, <2>1
  <2>3. \A c \in o[2] : f[c] <= N[c]
    BY <1>4, <2>1
  <2>4. SumFunctionOnSet(f, o[1]) <= SumFunctionOnSet(f, o[2]) + o[3]
    BY DEF Scraped, Ordered
  <2>5. SumFunctionOnSet(v, o[1]) <= SumFunctionOnSet(v, o[2]) + o[3]
    BY DEF Ordered
  <2>6. \/ (\A c \in o[1] : N[c] <= v[c]) /\ (\A c \in o[2] : N[c] = v[c])
        \/ \A c \in o[1] : N[c] = f[c]
    <3>1. CASE \E a \in o[1] : Unread(a)
      <4>1. \A b \in o[2] : Unread(b)
        BY <3>1, UnreadInOrder
      <4> QED
        BY <1>4, <2>1, <4>1
    <3>2. CASE \A a \in o[1] : ~Unread(a)
      BY <1>4, <2>1, <3>2
    <3> QED
      BY <3>1, <3>2
  <2> DEFINE L == o[1]
             R == o[2]
             k == o[3]
  <2>7. /\ IsFiniteSet(L) /\ IsFiniteSet(R) /\ k \in Int
        /\ \A c \in L \cup R : f[c] \in Int /\ N[c] \in Int /\ v[c] \in Int
        /\ \A c \in R : f[c] <= N[c]
        /\ SumFunctionOnSet(f, L) <= SumFunctionOnSet(f, R) + k
        /\ SumFunctionOnSet(v, L) <= SumFunctionOnSet(v, R) + k
        /\ \/ (\A c \in L : N[c] <= v[c]) /\ (\A c \in R : N[c] = v[c])
           \/ \A c \in L : N[c] = f[c]
    BY <2>1, <2>2, <2>3, <2>4, <2>5, <2>6
  <2> HIDE DEF f, v, L, R, k
  <2>8. SumFunctionOnSet(N, L) <= SumFunctionOnSet(N, R) + k
    BY <2>7, OrderStays
  <2> QED
    BY <2>8 DEF L, R, k
<1>6. Ordered(Mix)'
  BY <1>2, <1>5 DEF Ordered
<1>7. \A c \in Counter \ {gauge} : scrape.read[c] <= value'[c]
  BY <1>4
<1> QED
  BY <1>6, <1>7 DEF Scraped

\* No counter but the gauge goes down.
LEMMA ValuesGrow ==
  ASSUME IInv, [Next]_vars, NEW c \in Counter \ {gauge}
  PROVE  value[c] <= value'[c]
<1>1. value[c] \in Nat /\ value \in [Counter -> Int]
  BY DEF IInv, Types
<1>2. ASSUME value' = value PROVE value[c] <= value'[c]
  BY <1>1, <1>2
<1>3. ASSUME NEW w \in Worker, Add(w) PROVE value[c] <= value'[c]
  <2> DEFINE q == worker[w].todo
             n == Len(q)
             b == Head(q)[1]
             k == Head(q)[2]
  <2>1. q \in Seq(Counter \X Int) /\ q # << >> /\ Todo(worker[w]) /\ worker[w] \in Goroutine
    BY <1>3 DEF IInv, Types, Todos, Add, Goroutine
  <2>2. Head(q) = q[1] /\ q[1] \in Counter \X Int /\ n \in Nat \ {0}
    BY <2>1
  <2>3. value' = [value EXCEPT ![b] = @ + k] /\ b \in Counter /\ k \in Int
    BY <1>3, <2>2 DEF Add
  <2>4. b = gauge \/ k \in Nat
    <3>1. worker[w].pc \in {"idle", "reread", "execute", "return"}
      BY <2>1 DEF Goroutine
    <3>2. CASE worker[w].pc = "reread"
      <4>1. q = << <<gauge, 1>> >>
        BY <2>1, <3>2 DEF Todo, InflightAdd, gauge
      <4> QED
        BY <4>1
    <3>3. CASE worker[w].pc = "execute"
      <4>1. Plus(q[1])
        BY <2>1, <2>2, <3>3 DEF Todo
      <4> QED
        BY <2>2, <4>1 DEF Plus
    <3>4. CASE worker[w].pc = "return"
      <4>1. q[n] = <<gauge, -1>> /\ \A i \in 1..(n - 1) : Plus(q[i])
        BY <2>1, <3>4 DEF Todo
      <4>2. q[1] = <<gauge, -1>> \/ Plus(q[1])
        <5> HIDE DEF q, n
        <5> QED
          BY <2>2, <4>1
      <4>3. CASE q[1] = <<gauge, -1>>
        BY <2>2, <4>3
      <4>4. CASE Plus(q[1])
        BY <2>2, <4>4 DEF Plus
      <4> QED
        BY <4>2, <4>3, <4>4
    <3>5. CASE worker[w].pc = "idle"
      BY <2>1, <3>5 DEF Todo
    <3> QED
      BY <3>1, <3>2, <3>3, <3>4, <3>5
  <2> HIDE DEF b, k
  <2>5. value'[c] = IF c = b THEN value[c] + k ELSE value[c]
    BY <1>1, <2>3
  <2> QED
    BY <1>1, <2>3, <2>4, <2>5
<1>4. CASE ObserveReplay
  <2>1. value' = [value EXCEPT ![<<"tasksReplayed", 0>>] = @ + 1]
    BY <1>4 DEF ObserveReplay
  <2>2. value'[c] = value[c] \/ value'[c] = value[c] + 1
    BY <1>1, <2>1
  <2> QED
    BY <1>1, <2>2
<1>5. ASSUME NEW w \in Worker,
             \/ AcquireSlot(w) \/ DropRun(w) \/ skipStale(w)
             \/ \E late \in Value : Commit(w, late)
             \/ \E d \in Value, ok \in BOOLEAN : Execute(w, d, ok)
             \/ Return(w)
      PROVE  value' = value
  BY <1>5 DEF AcquireSlot, DropRun, skipStale, Commit, Execute, Return
<1>6. CASE Scrape \/ Load \/ Respond \/ UNCHANGED vars
  BY <1>2, <1>6 DEF Scrape, Load, Respond, vars
<1> QED
  BY <1>2, <1>3, <1>4, <1>5, <1>6 DEF Next

\* A scrape begins: it is to load everything.
LEMMA ScrapeScraped ==
  ASSUME IInv, Scrape, Ordered(value)
  PROVE  Scraped'
<1>1. /\ scrape'.left = Rendered /\ scrape'.read = [c \in Counter |-> 0] /\ value' = value
  BY DEF Scrape
<1>2. Len(Rendered) \in Nat
  BY RenderedAt
<1>3. \A j \in 1..Len(Rendered) : Rendered[j] = Rendered[Len(Rendered) - Len(Rendered) + j]
  <2>1. \A j \in 1..Len(Rendered) : Len(Rendered) - Len(Rendered) + j = j
    BY <1>2
  <2> QED
    BY <2>1
<1>4. \A c \in Counter : Unread(c)'
  BY <1>1, AllRendered DEF Unread
<1>5. \A c \in Counter \ {gauge} : scrape'.read[c] <= value'[c]
  BY <1>1 DEF IInv, Types
<1>6. Mix' = [c \in Counter |-> value[c]]
  BY <1>1, <1>4 DEF Mix
<1>7. [c \in Counter |-> value[c]] = value
  BY DEF IInv, Types
<1>8. Ordered(Mix)'
  BY <1>6, <1>7 DEF Ordered
<1> QED
  BY <1>1, <1>2, <1>3, <1>5, <1>8 DEF Scraped

\* A load: the scrape shows what it would have shown.
LEMMA LoadScraped ==
  ASSUME IInv, Load, Scraped
  PROVE  Scraped'
<1> DEFINE q == scrape.left
           t == Tail(q)
           n == Len(q)
           m == Len(Rendered)
           b == Head(q)
<1>1. q \in Seq(Counter) /\ q # << >> /\ scrape.read \in [Counter -> Nat] /\ scrape # None
  BY DEF IInv, Types, Load
<1>2. /\ b = q[1] /\ b \in Counter /\ n \in Nat \ {0} /\ Len(t) = n - 1
      /\ \A i \in 1..(n - 1) : t[i] = q[i + 1]
  <2> HIDE DEF q
  <2> QED
    BY <1>1, Rest
<1>3. scrape'.left = t /\ scrape'.read = [scrape.read EXCEPT ![b] = value[b]] /\ value' = value
  BY DEF Load
<1>4. n <= m /\ (\A j \in 1..n : q[j] = Rendered[m - n + j]) /\ m \in Nat
  <2>1. n <= m /\ (\A j \in 1..n : q[j] = Rendered[m - n + j])
    BY <1>1 DEF Scraped
  <2>2. m \in Nat
    BY RenderedAt
  <2> QED
    BY <2>1, <2>2
<1>5. \A c \in Counter : /\ Unread(c) <=> \E j \in 1..n : q[j] = c
                         /\ Unread(c)' <=> \E j \in 1..Len(t) : t[j] = c
  BY <1>3 DEF Unread
<1> HIDE DEF q, t, n, m, b
<1>6. Len(t) <= m /\ \A j \in 1..Len(t) : t[j] = Rendered[m - Len(t) + j]
  <2>1. Len(t) <= m
    BY <1>2, <1>4
  <2>2. ASSUME NEW j \in 1..Len(t) PROVE t[j] = Rendered[m - Len(t) + j]
    <3>1. j \in 1..(n - 1) /\ j + 1 \in 1..n /\ m - n + (j + 1) = m - Len(t) + j
      BY <1>2, <1>4
    <3>2. q[j + 1] = Rendered[m - n + (j + 1)]
      BY <1>4, <3>1
    <3> QED
      BY <1>2, <3>1, <3>2
  <2> QED
    BY <2>1, <2>2
<1>7. \A c \in Counter : Unread(c) <=> c = b \/ Unread(c)'
  <2> SUFFICES ASSUME NEW c \in Counter
               PROVE  (\E j \in 1..n : q[j] = c) <=> c = b \/ \E j \in 1..Len(t) : t[j] = c
    BY <1>5
  <2>1. ASSUME NEW j \in 1..n, q[j] = c PROVE c = b \/ \E i \in 1..Len(t) : t[i] = c
    <3>1. CASE j = 1
      BY <1>2, <2>1, <3>1
    <3>2. CASE j # 1
      <4>1. PICK i \in 1..(n - 1) : i + 1 = j
        <5>1. j - 1 \in 1..(n - 1) /\ (j - 1) + 1 = j
          BY <1>2, <3>2
        <5> QED
          BY <5>1
      <4>2. t[i] = c /\ i \in 1..Len(t)
        BY <1>2, <2>1, <4>1
      <4> QED
        BY <4>2
    <3> QED
      BY <3>1, <3>2
  <2>2. c = b => \E j \in 1..n : q[j] = c
    <3>1. 1 \in 1..n
      BY <1>2
    <3> QED
      BY <1>2, <3>1
  <2>3. ASSUME NEW i \in 1..Len(t), t[i] = c PROVE \E j \in 1..n : q[j] = c
    <3>1. i \in 1..(n - 1) /\ i + 1 \in 1..n
      BY <1>2
    <3> QED
      BY <1>2, <2>3, <3>1
  <2> QED
    BY <2>1, <2>2, <2>3
<1>8. ASSUME NEW c \in Counter
      PROVE  (IF Unread(c)' THEN value'[c] ELSE scrape'.read[c])
               = IF Unread(c) THEN value[c] ELSE scrape.read[c]
  <2>1. scrape'.read[c] = IF c = b THEN value[b] ELSE scrape.read[c]
    BY <1>1, <1>3
  <2> QED
    BY <1>3, <1>7, <2>1
<1>9. Mix' = Mix
  BY <1>8 DEF Mix
<1>10. Ordered(Mix)'
  <2>1. Ordered(Mix)
    BY <1>1 DEF Scraped
  <2> QED
    BY <1>9, <2>1 DEF Ordered
<1>11. \A c \in Counter \ {gauge} : scrape'.read[c] <= value'[c]
  <2> SUFFICES ASSUME NEW c \in Counter \ {gauge} PROVE scrape'.read[c] <= value[c]
    BY <1>3
  <2>1. value[c] \in Nat /\ scrape.read[c] <= value[c]
    BY <1>1 DEF IInv, Types, Scraped
  <2>2. scrape'.read[c] = IF c = b THEN value[b] ELSE scrape.read[c]
    BY <1>1, <1>3
  <2> QED
    BY <2>1, <2>2
<1> QED
  BY <1>3, <1>6, <1>10, <1>11 DEF Scraped, m

\* Every step leaves a scrape in order.
LEMMA ScrapedInductive ==
  ASSUME IInv, IInv', Scraped, Ordered(value), Ordered(value)', [Next]_vars
  PROVE  Scraped'
<1>1. \A c \in Counter \ {gauge} : value[c] <= value'[c]
  BY ValuesGrow
<1>2. CASE scrape' = scrape
  BY <1>1, <1>2, ScrapedKept
<1>3. CASE Scrape
  BY <1>3, ScrapeScraped
<1>4. CASE Load
  BY <1>4, LoadScraped
<1>5. CASE Respond
  BY <1>5 DEF Respond, Scraped
<1>6. scrape' = scrape \/ Scrape \/ Load \/ Respond
  <2>1. ASSUME NEW w \in Worker,
               \/ Add(w) \/ AcquireSlot(w) \/ DropRun(w) \/ skipStale(w)
               \/ \E late \in Value : Commit(w, late)
               \/ \E d \in Value, ok \in BOOLEAN : Execute(w, d, ok)
               \/ Return(w)
        PROVE  scrape' = scrape
    BY <2>1 DEF Add, AcquireSlot, DropRun, skipStale, Commit, Execute, Return
  <2>2. ObserveReplay \/ UNCHANGED vars => scrape' = scrape
    BY DEF ObserveReplay, vars
  <2> QED
    BY <2>1, <2>2 DEF Next
<1> QED
  BY <1>2, <1>3, <1>4, <1>5, <1>6

\* A scrape that has loaded everything is in order.
LEMMA ReadOrdered ==
  ASSUME IInv, Scraped, scrape # None, scrape.left = << >>
  PROVE  scrape.read \in [Counter -> Nat] /\ Ordered(scrape.read)
<1>1. scrape.read \in [Counter -> Nat]
  BY DEF IInv, Types
<1>2. \A c : ~Unread(c)
  BY DEF Unread
<1>3. Mix = scrape.read
  BY <1>1, <1>2 DEF Mix
<1> QED
  BY <1>1, <1>3 DEF Scraped

\* It shows what its groups come to.
LEMMA ReadSums ==
  ASSUME NEW f \in [Counter -> Nat], NEW h \in Histogram
  PROVE  /\ SumFunctionOnSet(f, finished)
              = f[<<"tasksSucceeded", 0>>] + f[<<"tasksFailed", 0>>]
         /\ SumFunctionOnSet(f, delivered)
              = f[<<"deliveriesOK", 0>>] + f[<<"deliveriesFail", 0>>]
         /\ SumFunctionOnSet(f, {h} \X Bucket) = Inf(f, h) /\ Inf(f, h) \in Int
         /\ SumFunctionOnSet(f, {<<h, count>>}) = f[<<h, count>>]
         /\ SumFunctionOnSet(f, {skipped} \cup {h} \X Bucket) = f[skipped] + Inf(f, h)
         /\ SumFunctionOnSet(f, {skipped} \cup {<<h, count>>}) = f[skipped] + f[<<h, count>>]
         /\ f[skipped] \in Nat /\ f[<<h, count>>] \in Nat
<1>1. /\ f[<<"tasksSucceeded", 0>>] \in Nat /\ f[<<"tasksFailed", 0>>] \in Nat
      /\ f[<<"deliveriesOK", 0>>] \in Nat /\ f[<<"deliveriesFail", 0>>] \in Nat
      /\ f[skipped] \in Nat
  BY Counters DEF skipped
<1>2. ASSUME NEW C, Group(C) PROVE IsFiniteSet(C) /\ \A c \in C : f[c] \in Nat
  BY <1>2, GroupCounters DEF Group
<1>3. SumFunctionOnSet(f, finished) = f[<<"tasksSucceeded", 0>>] + f[<<"tasksFailed", 0>>]
  <2> DEFINE x == <<"tasksSucceeded", 0>>
             y == <<"tasksFailed", 0>>
  <2>1. x # y /\ f[x] \in Int /\ f[y] \in Int /\ finished = {x, y}
    BY <1>1 DEF finished
  <2> HIDE DEF x, y
  <2>2. SumFunctionOnSet(f, {x, y}) = f[x] + f[y]
    BY <2>1, SumSmall
  <2> QED
    BY <2>1, <2>2 DEF x, y
<1>4. SumFunctionOnSet(f, delivered) = f[<<"deliveriesOK", 0>>] + f[<<"deliveriesFail", 0>>]
  <2> DEFINE x == <<"deliveriesOK", 0>>
             y == <<"deliveriesFail", 0>>
  <2>1. x # y /\ f[x] \in Int /\ f[y] \in Int /\ delivered = {x, y}
    BY <1>1 DEF delivered
  <2> HIDE DEF x, y
  <2>2. SumFunctionOnSet(f, {x, y}) = f[x] + f[y]
    BY <2>1, SumSmall
  <2> QED
    BY <2>1, <2>2 DEF x, y
<1>5. SumFunctionOnSet(f, {h} \X Bucket) = Inf(f, h) /\ Inf(f, h) \in Int
  <2> DEFINE C == {h} \X Bucket
  <2>1. Group(C) /\ Inf(f, h) = SumFunctionOnSet(f, C)
    BY Groups DEF Inf, Cumulative, Bucket
  <2> HIDE DEF C
  <2>2. IsFiniteSet(C) /\ \A c \in C : f[c] \in Int
    BY <1>2, <2>1
  <2>3. SumFunctionOnSet(f, C) \in Int
    BY <2>2, SumType
  <2> QED
    BY <2>1, <2>3 DEF C
<1>6. SumFunctionOnSet(f, {<<h, count>>}) = f[<<h, count>>] /\ f[<<h, count>>] \in Nat
  <2>1. Group({<<h, count>>})
    BY Groups
  <2>2. f[<<h, count>>] \in Nat
    BY <1>2, <2>1
  <2>3. f[<<h, count>>] \in Int
    BY <2>2
  <2> QED
    BY <2>2, <2>3, SumSmall
<1>7. ASSUME NEW X \in {{h} \X Bucket, {<<h, count>>}}
      PROVE  SumFunctionOnSet(f, {skipped} \cup X) = f[skipped] + SumFunctionOnSet(f, X)
  <2>1. Group(X) /\ skipped \notin X
    BY AccountGroups, SkippedApart
  <2>2. /\ IsFiniteSet(X) /\ (\A c \in X : f[c] \in Int) /\ f[skipped] \in Int
    BY <1>1, <1>2, <2>1
  <2>3. SumFunctionOnSet(f, {skipped} \cup X)
          = SumFunctionOnSet(f, {skipped}) + SumFunctionOnSet(f, X)
    BY <2>1, <2>2, SumWith
  <2>4. SumFunctionOnSet(f, {skipped}) = f[skipped]
    BY <2>2, SumSmall
  <2> QED
    BY <2>3, <2>4
<1>8. SumFunctionOnSet(f, {skipped} \cup {h} \X Bucket) = f[skipped] + Inf(f, h)
  BY <1>5, <1>7
<1>9. SumFunctionOnSet(f, {skipped} \cup {<<h, count>>}) = f[skipped] + f[<<h, count>>]
  BY <1>6, <1>7
<1> QED
  BY <1>1, <1>3, <1>4, <1>5, <1>6, <1>8, <1>9

\* Counters that are in order are so for every histogram.
LEMMA InOrder ==
  ASSUME NEW f, Ordered(f), NEW h \in Histogram
  PROVE  /\ SumFunctionOnSet(f, finished) <= SumFunctionOnSet(f, {skipped} \cup {h} \X Bucket) + 0
         /\ SumFunctionOnSet(f, finished) <= SumFunctionOnSet(f, {skipped} \cup {<<h, count>>}) + 0
         /\ SumFunctionOnSet(f, {h} \X Bucket)
              <= SumFunctionOnSet(f, {<<h, count>>}) + MaxConcurrent
         /\ SumFunctionOnSet(f, delivered)
              <= SumFunctionOnSet(f, {<<"deliveryDuration", count>>}) + MaxConcurrent
<1>1. ASSUME NEW A, NEW B, NEW k, <<A, B, k>> \in Order
      PROVE  SumFunctionOnSet(f, A) <= SumFunctionOnSet(f, B) + k
  <2>1. PICK o \in Order : o = <<A, B, k>>
    BY <1>1
  <2>2. SumFunctionOnSet(f, o[1]) <= SumFunctionOnSet(f, o[2]) + o[3]
    BY DEF Ordered
  <2>3. o[1] = A /\ o[2] = B /\ o[3] = k
    BY <2>1
  <2> QED
    BY <2>2, <2>3
<1>2. {skipped, <<h, count>>} = {skipped} \cup {<<h, count>>}
  OBVIOUS
<1>3. <<finished, {skipped} \cup {h} \X Bucket, 0>> \in Order
  BY DEF Order
<1>4. <<finished, {skipped} \cup {<<h, count>>}, 0>> \in Order
  <2>1. <<finished, {skipped, <<h, count>>}, 0>> \in Order
    BY DEF Order
  <2> QED
    BY <1>2, <2>1
<1>5. <<{h} \X Bucket, {<<h, count>>}, MaxConcurrent>> \in Order
  BY DEF Order
<1>6. <<delivered, {<<"deliveryDuration", count>>}, MaxConcurrent>> \in Order
  BY DEF Order
<1> QED
  BY <1>1, <1>3, <1>4, <1>5, <1>6

\* At first nothing is observed, finished or owed.
LEMMA ExactInit == ASSUME Init, IInv PROVE Exact
<1>1. \A w \in Worker : worker[w].pc = "idle" /\ worker[w].todo = << >>
  BY DEF Init
<1>2. ASSUME NEW w \in Worker PROVE Staged(worker[w])
  <2> DEFINE r == worker[w]
  <2>1. r \in Goroutine /\ r.pc = "idle" /\ r.todo = << >>
    BY <1>1 DEF IInv, Types
  <2> HIDE DEF r
  <2>2. PICK e \in {4, 6} : e = 6 /\ e = IF r.pc = "execute" THEN 4 ELSE 6
    BY <2>1
  <2>3. PICK n \in 0..e : n = 0 /\ n = Len(r.todo)
    BY <2>1, <2>2
  <2>4. \A i \in 1..n : FALSE
    BY <2>3
  <2>5. Staged(r)
    BY <2>1, <2>2, <2>3, <2>4, StagedBy
  <2> QED
    BY <2>5 DEF r
<1>3. /\ sem = {} /\ (\A c \in Counter : value[c] = 0) /\ IsFiniteSet(Value)
      /\ \A h \in Histogram : \A v \in Value : noted[h][v] = 0
  BY MetricsAssumption DEF Init
<1>4. ASSUME NEW C, Group(C) PROVE Total(C) = 0
  <2>1. IsFiniteSet(C) /\ \A c \in C : value[c] = 0
    BY <1>3, <1>4, GroupCounters DEF Group
  <2>2. \A c \in C : value[c] \in Int
    BY <2>1
  <2>3. SumFunctionOnSet(value, C) = 0
    BY <2>1, <2>2, SumOfUnits
  <2>4. Owed(C) = 0
    BY <1>3, SumSmall DEF Owed
  <2> QED
    BY <1>4, <2>3, <2>4, OwedType
<1>5. ASSUME NEW f, NEW S \in SUBSET Value, \A v \in S : f[v] = 0 PROVE SumFunctionOnSet(f, S) = 0
  <2>1. IsFiniteSet(S)
    BY <1>3, FS_Subset
  <2>2. \A v \in S : f[v] \in Int
    BY <1>5
  <2> QED
    BY <1>5, <2>1, <2>2, SumOfUnits
<1>6. ASSUME NEW h \in Histogram, NEW S \in SUBSET Value PROVE SumFunctionOnSet(noted[h], S) = 0
  BY <1>3, <1>5
<1>7. ASSUME NEW h \in Histogram
      PROVE  SumFunction([v \in Value |-> noted[h][v] * Max0(v)]) = 0
  <2> DEFINE m == [v \in Value |-> noted[h][v] * Max0(v)]
  <2>1. DOMAIN m = Value /\ \A v \in Value : m[v] = 0
    <3>1. \A v \in Value : Max0(v) \in Int
      BY MetricsAssumption DEF Max0
    <3> QED
      BY <1>3, <3>1
  <2> HIDE DEF m
  <2>2. SumFunctionOnSet(m, Value) = 0
    BY <1>5, <2>1
  <2>3. SumFunction(m) = 0
    BY <2>1, <2>2 DEF SumFunction
  <2> QED
    BY <2>3 DEF m
<1>8. Observed
  <2>1. ASSUME NEW h \in Histogram
        PROVE  /\ \A i \in Bucket : Total({h} \X (1..i)) = SumFunctionOnSet(noted[h], UpTo(i))
               /\ Total({<<h, sumNs>>}) = SumFunction([v \in Value |-> noted[h][v] * Max0(v)])
               /\ Total({<<h, count>>}) = SumFunctionOnSet(noted[h], Value)
    <3>1. ASSUME NEW i \in Bucket
          PROVE  Total({h} \X (1..i)) = SumFunctionOnSet(noted[h], UpTo(i))
      <4>1. Group({h} \X (1..i)) /\ UpTo(i) \in SUBSET Value
        BY Groups DEF UpTo
      <4> QED
        BY <1>4, <1>6, <4>1
    <3>2. Group({<<h, sumNs>>}) /\ Group({<<h, count>>}) /\ Value \in SUBSET Value
      BY Groups
    <3>3. Total({<<h, count>>}) = SumFunctionOnSet(noted[h], Value)
      BY <1>4, <1>6, <3>2
    <3>4. Total({<<h, sumNs>>}) = SumFunction([v \in Value |-> noted[h][v] * Max0(v)])
      BY <1>4, <1>7, <3>2
    <3> QED
      BY <3>1, <3>3, <3>4
  <2>2. Total(delivered) = SumFunctionOnSet(noted["deliveryDuration"], Value)
    <3>1. "deliveryDuration" \in Histogram /\ Value \in SUBSET Value /\ Group(delivered)
      BY Groups DEF Histogram
    <3> QED
      BY <1>4, <1>6, <3>1
  <2> QED
    BY <2>1, <2>2 DEF Observed
<1>9. Accounted
  <2> SUFFICES ASSUME NEW h \in Histogram, NEW X \in {{h} \X Bucket, {<<h, count>>}}
               PROVE  Total(finished) + Underway(h, X) <= Total({skipped}) + Total(X)
    BY DEF Accounted, Underway
  <2>1. Total(finished) = 0 /\ Total({skipped}) = 0 /\ Total(X) = 0
    BY <1>4, AccountGroups
  <2>2. Underway(h, X) = 0
    BY <1>3, SumSmall DEF Underway
  <2> QED
    BY <2>1, <2>2
<1> QED
  BY <1>2, <1>8, <1>9 DEF Exact

\* Everything observed is in the counters or still owed to them, no task is
\* finished without its observations, and what a scrape shows is in order.
THEOREM ObservedInvariance == Spec => []JInv
<1>1. Init /\ IInv => Exact /\ Scraped
  BY ExactInit DEF Init, Scraped
<1>2. IInv /\ IInv' /\ Exact /\ [Next]_vars => Exact'
  BY AddExact, RunExact, SlotExact, OtherExact DEF Next
<1>3. IInv /\ Exact => Ordered(value)
  BY ValuesOrdered
<1>4. IInv /\ IInv' /\ Ordered(value) /\ Ordered(value)' /\ Scraped /\ [Next]_vars => Scraped'
  BY ScrapedInductive
<1>5. JInv <=> IInv /\ Exact /\ Scraped
  BY DEF JInv
<1>6. Spec => []IInv
  BY Invariance
<1> QED
  BY <1>1, <1>2, <1>3, <1>4, <1>5, <1>6, PTL DEF Spec

\* Whenever no goroutine is in the middle of an observation, each bucket of the
\* histogram holds the observations up to its bound, and sum and count are theirs:
\* for any bounds, any durations and any number of goroutines.
THEOREM HistogramIsExact == Spec => []HistogramExact
<1>1. JInv => HistogramExact
  BY HistogramsExact DEF JInv
<1> QED
  BY <1>1, ObservedInvariance, PTL

\* In one scrape, however its loads fall between the additions, every task that
\* is shown as finished is shown as skipped or else in both histograms.
THEOREM FinishedIsShown == Spec => []FinishedShown
<1>1. ASSUME JInv, scrape # None, scrape.left = << >>, NEW h \in Histogram
      PROVE  LET read == scrape.read
                 ran  == read[<<"tasksSucceeded", 0>>] + read[<<"tasksFailed", 0>>]
                           - read[<<"tasksSkipped", 0>>] IN
               ran <= Inf(read, h) /\ ran <= read[<<h, count>>]
  <2> DEFINE f == scrape.read
  <2>1. f \in [Counter -> Nat] /\ Ordered(f)
    BY <1>1, ReadOrdered DEF JInv
  <2> HIDE DEF f
  <2>2. /\ SumFunctionOnSet(f, finished)
             <= SumFunctionOnSet(f, {skipped} \cup {h} \X Bucket) + 0
        /\ SumFunctionOnSet(f, finished)
             <= SumFunctionOnSet(f, {skipped} \cup {<<h, count>>}) + 0
    BY <2>1, InOrder
  <2>3. /\ SumFunctionOnSet(f, finished)
             = f[<<"tasksSucceeded", 0>>] + f[<<"tasksFailed", 0>>]
        /\ SumFunctionOnSet(f, {skipped} \cup {h} \X Bucket) = f[skipped] + Inf(f, h)
        /\ SumFunctionOnSet(f, {skipped} \cup {<<h, count>>}) = f[skipped] + f[<<h, count>>]
        /\ f[skipped] \in Nat /\ f[<<h, count>>] \in Nat /\ Inf(f, h) \in Int
    BY <2>1, ReadSums
  <2>4. f[<<"tasksSucceeded", 0>>] \in Nat /\ f[<<"tasksFailed", 0>>] \in Nat
    BY <2>1, Counters
  <2>5. PICK a \in Int, b \in Int, s \in Int, x \in Int, y \in Int :
          /\ a = f[<<"tasksSucceeded", 0>>] /\ b = f[<<"tasksFailed", 0>>] /\ s = f[skipped]
          /\ x = Inf(f, h) /\ y = f[<<h, count>>]
    BY <2>3, <2>4
  <2>6. a + b <= s + x + 0 /\ a + b <= s + y + 0
    BY <2>2, <2>3, <2>5
  <2>7. a + b - s <= x /\ a + b - s <= y
    BY <2>6
  <2> QED
    BY <2>5, <2>7 DEF f, skipped
<1>2. JInv => FinishedShown
  BY <1>1 DEF FinishedShown
<1> QED
  BY <1>2, ObservedInvariance, PTL

\* In one scrape the count of a histogram lags behind its buckets, and that of
\* the deliveries behind their total, by no more than the limit of the semaphore.
THEOREM LagIsBounded == Spec => []LagBounded
<1>1. ASSUME JInv, scrape # None, scrape.left = << >>
      PROVE  LET read == scrape.read IN
               /\ \A h \in Histogram : Inf(read, h) <= read[<<h, count>>] + MaxConcurrent
               /\ read[<<"deliveriesOK", 0>>] + read[<<"deliveriesFail", 0>>]
                    <= read[<<"deliveryDuration", count>>] + MaxConcurrent
  <2> DEFINE f == scrape.read
  <2>1. f \in [Counter -> Nat] /\ Ordered(f)
    BY <1>1, ReadOrdered DEF JInv
  <2> HIDE DEF f
  <2>2. ASSUME NEW h \in Histogram PROVE Inf(f, h) <= f[<<h, count>>] + MaxConcurrent
    <3>1. SumFunctionOnSet(f, {h} \X Bucket) <= SumFunctionOnSet(f, {<<h, count>>}) + MaxConcurrent
      BY <2>1, InOrder
    <3>2. /\ SumFunctionOnSet(f, {h} \X Bucket) = Inf(f, h)
          /\ SumFunctionOnSet(f, {<<h, count>>}) = f[<<h, count>>]
      BY <2>1, ReadSums
    <3> QED
      BY <3>1, <3>2
  <2>3. f[<<"deliveriesOK", 0>>] + f[<<"deliveriesFail", 0>>]
          <= f[<<"deliveryDuration", count>>] + MaxConcurrent
    <3>1. PICK h \in Histogram : h = "deliveryDuration"
      BY DEF Histogram
    <3>2. SumFunctionOnSet(f, delivered)
            <= SumFunctionOnSet(f, {<<"deliveryDuration", count>>}) + MaxConcurrent
      BY <2>1, <3>1, InOrder
    <3>3. /\ SumFunctionOnSet(f, delivered)
               = f[<<"deliveriesOK", 0>>] + f[<<"deliveriesFail", 0>>]
          /\ SumFunctionOnSet(f, {<<h, count>>}) = f[<<h, count>>]
      BY <2>1, ReadSums
    <3> QED
      BY <3>1, <3>2, <3>3
  <2> QED
    BY <2>2, <2>3 DEF f
<1>2. JInv => LagBounded
  BY <1>1 DEF LagBounded
<1> QED
  BY <1>2, ObservedInvariance, PTL
=============================================================================
