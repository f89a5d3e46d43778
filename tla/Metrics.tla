------------------------------ MODULE Metrics ------------------------------
(***************************************************************************)
(* The counters and histograms of internal/metrics/metrics.go, the order   *)
(* in which a delivery goroutine (internal/runner/runner.go) moves them,   *)
(* and a scrape that reads them meanwhile (Handler.Metrics, Write).        *)
(*                                                                         *)
(* Every counter is an atomic integer of its own and nothing ties two of   *)
(* them together: an observation is several additions, a scrape several    *)
(* loads, and they interleave.                                             *)
(***************************************************************************)
EXTENDS Integers, Sequences, FiniteSetsExt

CONSTANTS
  Worker,         \* delivery goroutines
  MaxConcurrent,  \* capacity of the semaphore channel
  Retries,        \* retries of a task
  Value,          \* durations and lateness, also negative
  upper,          \* the bounds of a histogram's buckets, ascending
  None,           \* no scrape
  MaxStarts,      \* bound: runs started and tasks replayed
  MaxRequests     \* bound: requests sent

ASSUME MetricsAssumption ==
  /\ MaxConcurrent \in Nat \ {0} /\ Retries \in Int
  /\ Value \subseteq Int /\ IsFiniteSet(Value)
  /\ upper \in Seq(Nat) /\ \A i, j \in 1..Len(upper) : i < j => upper[i] < upper[j]
  /\ MaxStarts \in Nat /\ MaxRequests \in Nat

Histogram == {"deliveryDuration", "lateness"}

\* The parts of a histogram, in the order in which they are rendered: the
\* buckets, the last of which is +Inf, the sum and the count.
Bucket == 1..(Len(upper) + 1)
sumNs == Len(upper) + 2
count == Len(upper) + 3

\* The atomic integers, and their order in Write.
Plain == <<"deliveriesOK", "deliveriesFail", "tasksSucceeded", "tasksFailed",
           "tasksSkipped", "tasksReplayed", "inflight">>

Counter == {<<Plain[i], 0>> : i \in 1..Len(Plain)} \cup Histogram \X (1..count)

Rendered ==
  [i \in 1..Len(Plain) |-> <<Plain[i], 0>>]
    \o [i \in 1..count |-> <<"deliveryDuration", i>>]
    \o [i \in 1..count |-> <<"lateness", i>>]

VARIABLES
  value,   \* the counters
  worker,  \* goroutine -> where it stands, its additions to come, its retries
  sem,     \* the goroutines that hold a slot
  scrape,  \* the counters a scrape has still to load, and what it has loaded
  runs,    \* runs started
  noted    \* history: how often each value was observed, by histogram

vars == <<value, worker, sem, scrape, runs, noted>>

Init ==
  /\ value = [c \in Counter |-> 0]
  /\ worker = [w \in Worker |-> [pc |-> "idle", todo |-> << >>, tries |-> 0]]
  /\ sem = {}
  /\ scrape = None
  /\ runs = 0
  /\ noted = [h \in Histogram |-> [v \in Value |-> 0]]

-----------------------------------------------------------------------------
(* Observations, as the additions they make one after the other.           *)

\* Mutant: a timer that fires early makes the lateness negative.
Signed(d) == d

\* max(d, 0), before the conversion to uint64.
Max0(d) == IF d > 0 THEN d ELSE 0

Inc(name) == << <<<<name, 0>>, 1>> >>

\* Mutant: a value on a bound falls into the next bucket.
SearchStrict(d) ==
  CHOOSE i \in Bucket : /\ i <= Len(upper) => upper[i] > d
                        /\ \A j \in 1..(i - 1) : upper[j] <= d

\* sort.SearchFloat64s: the first bound that is not below.
Search(d) ==
  CHOOSE i \in Bucket : /\ i <= Len(upper) => upper[i] >= d
                        /\ \A j \in 1..(i - 1) : upper[j] < d

observe(h, d) ==
  << <<<<h, Search(d)>>, 1>>, <<<<h, sumNs>>, Max0(d)>>, <<<<h, count>>, 1>> >>

\* Mutant: only successes are timed.
ObserveDeliveryOK(d, ok) ==
  IF ok THEN Inc("deliveriesOK") \o observe("deliveryDuration", d) ELSE Inc("deliveriesFail")

ObserveDelivery(d, ok) ==
  Inc(IF ok THEN "deliveriesOK" ELSE "deliveriesFail") \o observe("deliveryDuration", d)

ObserveTaskFinished(ok) == Inc(IF ok THEN "tasksSucceeded" ELSE "tasksFailed")

ObserveSkipped == Inc("tasksSkipped")

ObserveLateness(d) == observe("lateness", Max0(d))

InflightAdd(delta) == << <<<<"inflight", 0>>, delta>> >>

-----------------------------------------------------------------------------
(* A delivery goroutine, from its slot on.  What it does to the store lies *)
(* between these steps and is the business of Delivery.                    *)

At(w, pc) == worker[w].pc = pc /\ worker[w].todo = << >>

Goto(w, pc, todo, tries) ==
  worker' = [worker EXCEPT ![w] = [pc |-> pc, todo |-> todo, tries |-> tries]]

Note(h, d) == noted' = [noted EXCEPT ![h][d] = @ + 1]

\* One atomic Add.
Add(w) ==
  /\ worker[w].todo # << >>
  /\ LET add == Head(worker[w].todo) IN value' = [value EXCEPT ![add[1]] = @ + add[2]]
  /\ worker' = [worker EXCEPT ![w].todo = Tail(@)]
  /\ UNCHANGED <<sem, scrape, runs, noted>>

MayStart == runs + value[<<"tasksReplayed", 0>>] < MaxStarts

AcquireSlot(w) ==
  /\ MayStart
  /\ At(w, "idle")
  /\ Cardinality(sem) < MaxConcurrent
  /\ sem' = sem \cup {w}
  /\ Goto(w, "reread", InflightAdd(1), 0)
  /\ runs' = runs + 1
  /\ UNCHANGED <<value, scrape, noted>>

\* The re-read drops the run.
DropRun(w) ==
  /\ At(w, "reread")
  /\ Goto(w, "return", InflightAdd(-1), 0)
  /\ UNCHANGED <<value, sem, scrape, runs, noted>>

\* Mutant: finished is counted before skipped.
skipStaleSwapped(w) ==
  /\ At(w, "reread")
  /\ Goto(w, "return", ObserveTaskFinished(FALSE) \o ObserveSkipped \o InflightAdd(-1), 0)
  /\ UNCHANGED <<value, sem, scrape, runs, noted>>

skipStale(w) ==
  /\ At(w, "reread")
  /\ Goto(w, "return", ObserveSkipped \o ObserveTaskFinished(FALSE) \o InflightAdd(-1), 0)
  /\ UNCHANGED <<value, sem, scrape, runs, noted>>

Commit(w, late) ==
  /\ At(w, "reread")
  /\ Goto(w, "execute", ObserveLateness(late), 0)
  /\ Note("lateness", late)
  /\ UNCHANGED <<value, sem, scrape, runs>>

Requests == SumFunction(noted["deliveryDuration"])

\* One request, and what follows it up to the next one or to the return.
Execute(w, d, ok) ==
  /\ At(w, "execute")
  /\ Requests < MaxRequests
  /\ LET seen == ObserveDelivery(d, ok) IN
       \/ /\ ok \/ worker[w].tries >= Retries
          /\ Goto(w, "return", seen \o ObserveTaskFinished(ok) \o InflightAdd(-1), 0)
       \/ /\ ~ok /\ worker[w].tries < Retries
          /\ Goto(w, "execute", seen, worker[w].tries + 1)
  /\ Note("deliveryDuration", d)
  /\ UNCHANGED <<value, sem, scrape, runs>>

\* Mutant: the slot is free before the gauge goes down.
ReturnEarly(w) ==
  /\ worker[w].pc = "return" /\ worker[w].todo = InflightAdd(-1)
  /\ sem' = sem \ {w}
  /\ Goto(w, "idle", InflightAdd(-1), 0)
  /\ UNCHANGED <<value, scrape, runs, noted>>

Return(w) ==
  /\ At(w, "return")
  /\ sem' = sem \ {w}
  /\ Goto(w, "idle", << >>, 0)
  /\ UNCHANGED <<value, scrape, runs, noted>>

\* ReplayTask, after its Update.
ObserveReplay ==
  /\ MayStart
  /\ value' = [value EXCEPT ![<<"tasksReplayed", 0>>] = @ + 1]
  /\ UNCHANGED <<worker, sem, scrape, runs, noted>>

-----------------------------------------------------------------------------
(* A scrape.                                                               *)

\* Handler.Metrics, once Store.Counts has answered.
Scrape ==
  /\ scrape = None
  /\ scrape' = [left |-> Rendered, read |-> [c \in Counter |-> 0]]
  /\ UNCHANGED <<value, worker, sem, runs, noted>>

\* One atomic Load.
Load ==
  /\ scrape # None
  /\ scrape.left # << >>
  /\ LET c == Head(scrape.left) IN
       scrape' = [left |-> Tail(scrape.left), read |-> [scrape.read EXCEPT ![c] = value[c]]]
  /\ UNCHANGED <<value, worker, sem, runs, noted>>

Respond ==
  /\ scrape # None
  /\ scrape.left = << >>
  /\ scrape' = None
  /\ UNCHANGED <<value, worker, sem, runs, noted>>

Next ==
  \/ \E w \in Worker :
       \/ Add(w)
       \/ AcquireSlot(w)
       \/ DropRun(w)
       \/ skipStale(w)
       \/ \E late \in Value : Commit(w, late)
       \/ \E d \in Value, ok \in BOOLEAN : d >= 0 /\ Execute(w, d, ok)
       \/ Return(w)
  \/ ObserveReplay
  \/ Scrape
  \/ Load
  \/ Respond

Spec == Init /\ [][Next]_vars

-----------------------------------------------------------------------------
(* Properties.                                                             *)

\* The type invariant.
TypeOK ==
  /\ value \in [Counter -> Nat]
  /\ worker \in [Worker -> [pc : {"idle", "reread", "execute", "return"},
                            todo : Seq(Counter \X Int), tries : Nat]]
  /\ sem \subseteq Worker
  /\ scrape # None => scrape.left \in Seq(Counter) /\ scrape.read \in [Counter -> Nat]
  /\ runs \in 0..MaxStarts
  /\ noted \in [Histogram -> [Value -> Nat]]

\* The gauge never shows more deliveries than the semaphore admits, and shows
\* none when there is none.
GaugeInLimit == value[<<"inflight", 0>>] \in 0..Cardinality(sem) /\ Cardinality(sem) <= MaxConcurrent

\* Whether a goroutine is in the middle of an observation.
Observing(h) == \E w \in Worker : \E i \in 1..Len(worker[w].todo) : worker[w].todo[i][1][1] = h

\* What the line of a bucket shows: le is cumulative.
Cumulative(f, h, i) == SumFunctionOnSet(f, {h} \X (1..i))

Inf(f, h) == Cumulative(f, h, Len(upper) + 1)

\* The values up to a bound.
UpTo(i) == {v \in Value : i <= Len(upper) => Max0(v) <= upper[i]}

\* The bucket of a bound holds the observations up to it, the bound included,
\* and sum and count are theirs, whenever no observation is half way.
HistogramExact ==
  \A h \in Histogram : ~Observing(h) =>
    /\ \A i \in Bucket : Cumulative(value, h, i) = SumFunctionOnSet(noted[h], UpTo(i))
    /\ value[<<h, count>>] = Inf(value, h)
    /\ value[<<h, sumNs>>] = SumFunction([v \in Value |-> noted[h][v] * Max0(v)])

\* In one scrape, though it is no snapshot: every task that is shown as
\* finished is shown as skipped or else in both histograms.  It takes the order
\* of the calls in a run and the order of the lines in a scrape.
FinishedShown ==
  scrape # None /\ scrape.left = << >> =>
    LET read == scrape.read
        ran  == read[<<"tasksSucceeded", 0>>] + read[<<"tasksFailed", 0>>]
                  - read[<<"tasksSkipped", 0>>] IN
      \A h \in Histogram : ran <= Inf(read, h) /\ ran <= read[<<h, count>>]

\* In one scrape the count of a histogram lags behind its buckets, and that of
\* the deliveries behind their total, by no more than the deliveries that may
\* be under way.
LagBounded ==
  scrape # None /\ scrape.left = << >> =>
    LET read == scrape.read IN
      /\ \A h \in Histogram : Inf(read, h) <= read[<<h, count>>] + MaxConcurrent
      /\ read[<<"deliveriesOK", 0>>] + read[<<"deliveriesFail", 0>>]
           <= read[<<"deliveryDuration", count>>] + MaxConcurrent
=============================================================================
