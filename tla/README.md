# A TLA+ model of Schedy

Schedy accepts HTTP requests to be sent later, keeps them in an embedded
BadgerDB, sends each one when its time comes, retries failures, and records what
happened.  It is one Go process.  This directory models its core: the delivery
engine with everything that races it, the task store below it, the pages in
which clients and creations read it, the retry loop of one delivery, and the
metrics a scrape reads meanwhile.  TLC checks the models on small instances; TLAPS proves
all of their safety properties, and that the store implements an atomic map, for
every instance.

## 1. The system

| Component | State | Operations | Modelled in |
|---|---|---|---|
| Runner (`internal/runner/runner.go`) | `inflight` claims under `mu`, the semaphore `sem`, one goroutine per task held, the `WaitGroup` | tick, claim, wait for the timer, wait for a slot, re-read, skip, deliver, record, notify, reschedule, drain | `Delivery` |
| Retry loop (`internal/runner/attempt.go`) | `count`, `lastTime` | `next`, `delay`, `serverHint`, `shouldRetry` | `Attempt`; its count in `Delivery` |
| Task (`internal/scheduler/task.go`) | status, `execute_at`, attempt log, `finished_at`, schedule, client fields | - | `Delivery`, `TaskKeys` |
| Store (`internal/scheduler/badger_store.go`, `store.go`) | the keyspace `task:<status>:<unix second>:<id>`, TTLs | `Save`, `Update`, `Delete`, `DeleteTasks`, `RecoverRunning`, `GetTask`, `GetDueTasks`, `ListTasks`, `Counts` | `TaskKeys`, `BadgerStore`, `TaskMap`, `Paging` |
| API handlers (`internal/api/handler.go`) | a loaded copy of a task; `createMu` | create, update, replay, cancel, bulk delete, list, get | `Delivery` (the writers), `Paging` (listing, the duplicate scan) |
| Process (`cmd/schedy/main.go`) | phase | recover, start, SIGINT, drain, exit, crash | `Delivery` |
| Executor (`internal/executor`) | none | one HTTP request: deadline, outcome, `Retry-After` | `Attempt`; in `Delivery` the outcome is a choice |
| Metrics (`internal/metrics`) | counters, a gauge, histograms, each number an atomic of its own | `Observe...`, `InflightAdd`, `Write` | `Metrics` |
| Auth, CORS, probes, logging, backup | none of their own | filters, output, calls into BadgerDB | no |

How they interact.  The runner's loop reads a batch of due tasks from the store,
claims each in memory and starts a goroutine for it.  A goroutine waits for the
task's time, then for a slot, re-reads the task, marks it running, sends requests,
writes the outcome, calls the failure URL and saves the successor of a recurring
task.  Meanwhile handlers load the same task and write an edited copy back.
Nobody locks a task: the store serialises single transactions, and the
re-read before firing is the only check.  On SIGINT the context is cancelled,
waiting goroutines give up, firing ones get 30 seconds.  After a crash,
`RecoverRunning` makes every running task pending again.  A listing, and the search
for a duplicate before a creation, read the store page by page, each page in a
transaction of its own; only creations exclude one another (`createMu`).  Runs
move the metrics as they go, without a lock, and a scrape loads them one by one.

What is hard:

- the window between two store calls of a goroutine, or of a handler, in which
  somebody else writes the task (`runner.go:201-280`, `handler.go:312-337`);
- a batch, a claim and a timer that were right when they were made;
- the early returns, each of which has to give back the claim and the slot;
- a crash, or a failed write that is only logged, between any two steps;
- chains of recurring tasks, where exactly one successor has to come of each run;
- tasks that change their key when they change status or time, under snapshot
  transactions that detect conflicts only on keys that exist;
- cursors that name a row which is gone, or moved, or of another listing;
- a mutex that is unlocked by hand, and two counters that have to agree;
- durations that overflow, and a first retry that has no predecessor.

`PROJECT.json` lists these as hazards, at their lines.

## 2. The modules

### Delivery

One state for the store (`id -> task`), the batch of the current tick, the claims,
the semaphore, the goroutines with their program counters and copies, the
handlers with theirs, the process and the clock.  A store call is one atomic step;
everything that the code does between two of them is a step of its own:

| Code | Actions |
|---|---|
| `runOnce`, the tick | `GetDueTasks`, `Dispatch`, `SkipClaimed` |
| the goroutine | `TimerFires`, `Abort`, `AcquireSlot`, `DropRun`, `Commit`, `MarkRunning`, `Execute`, `Finalize`, `NotifyFailure`, `Reschedule` |
| handlers | `CreateTask`; `UpdateTask`, `ReplayTask`, `DeleteTask` (load and check) followed by `Apply` (write and answer); `DeleteTasks` |
| process | `Stop`, `Drain`, `Exit`, `Crash`, `Restart`, `Advance`, `Expire` |

Where the model differs in form:

- The client-owned fields of a task are one `content`; what the engine reads of
  it is `Retries[c]` and `Schedule[c]`.
- `finished` stands for a non-zero `finished_at`; an attempt is its outcome.
- `chain` names the first task of a recurring chain.  The code stores no such
  field, and no guard reads it.
- `arms`, `runs` and `fired` are history: how often a task was made pending by a
  client, run, and sent.
- A successor's id is drawn when the run commits, rather than when it is saved,
  so that a bounded set of ids never stops a run half way.
- A drain that gives up is a `Crash`: what is in memory is lost either way.
- `errors` counts failed store transactions.  They include BadgerDB's
  `ErrConflict`, which no caller retries.
- Time is discrete and the ticker may fire any number of times per unit.
- A timer may fire a hair early, as `metrics.go:93` allows for: by up to `TimerSkew`,
  which is 1 in `races` and 0 in the other runs.  Nothing checks the time again after
  it, so the whole run is then early.

The mutated forms next to some definitions (`claimAlways`, `Deleted`, ...) are
plausible bugs, used to show that each property can fail; nothing refers to them.

### TaskKeys, TaskMap and BadgerStore

`TaskKeys` is the keyspace: keys, their order, and each call of the store as what
it reads, returns, deletes and writes, given a snapshot.  It has no state; the two
modules that have one, `BadgerStore` and `Paging`, extend it.

`TaskMap` is what `scheduler.Store` promises: a map from ids to tasks on which a
call takes effect at one moment between its start and its answer, or fails.  That
is what `Delivery` and `Paging` assume.  `BadgerStore` is the implementation:
transactions that read the snapshot of their beginning and commit later, conflict
detection on the keys that were read, TTLs on terminal records.  `MapSpec` maps it
to `TaskMap` (the task of an id is what `GetTask` returns) and is checked as a
property.

BadgerDB itself is external.  Its part of the model (`Begin`, `Reads`, `Conflict`,
`Commit`, `ErrConflict`, `Expire`, the order of iteration) is taken from how the
store uses it: snapshot reads, optimistic conflict detection on keys read,
commit as a whole, expiry on its own.  Callers save under fresh ids and update only
tasks they have read: `saved` holds the ids that a committed `Save` has used.

The refinement needs one premise, named `MaxBlind = 0`: no two `Update`s of one
*absent* id overlap.  Without it the store is no map (run `store_phantom`), because
a key that does not exist cannot conflict.

### Paging

Reading the store in pages while it changes.  A lister takes a first page with a
filter and a limit, then the next ones by cursor, or sends its cursor with another
filter (`FirstPage`, `NextPage`, `OtherFilter`; `ListTasks` of the handler and of the
store).  A creation decodes its fire time, takes `createMu`, pages through the
pending tasks, saves or answers with what it found, and unlocks (`CreateTask`, `Lock`,
`findDuplicate`, `Save`, `Fail`).  Between any two of these steps any other caller may
write (`Write`), a record may expire, the process may restart with
`RecoverRunning`, and time passes.  `Write` does not tell its callers apart: any
known task may take any status and time, which covers the runner, the handlers and
their stale copies.  It respects two facts of theirs: ids are fresh, and a
successor carries no `Idempotency-Key`.

History variables: `standing`, the rows that have not changed since a walk began or
since `createMu` was taken, and `times`, how often a walk returned an id.

### Attempt

The retry loop of one goroutine with real durations, over the executor: how many
requests it sends, what it makes of the answers and how long it sleeps.  A `Retry`
step is a failed request, `next()` and the start of the next request.  An answer
is a status and a `Retry-After` in one of its two forms; status 0 is a transport
error or a missed deadline.  Retries and intervals may be zero, negative or huge, as the
API accepts them.  Every product that becomes a `time.Duration` wraps in a word of
`Word` bits: the milliseconds of `retry_interval` (`attempt.go:51`), `interval << count`
and the seconds of a `Retry-After`.  `timeout_ms` is validated and does not overflow.

The step that ends a run goes on until the slot is returned: through the last request
(`Succeed`) and, after a failure, the callback, which has the default timeout
(`GiveUp`).  The store's writes take no time in this model.  `rand.Int64N` panics when
its argument is not positive; that is a `status` of its own, which `TypeOK` excludes.

### Metrics

Every counter is an atomic integer of its own.  An observation is the sequence of
additions it makes (`observe`: bucket, sum, count), a run is the sequence of its
observations in the order of `runner.go`, and a scrape loads the numbers in the
order of `Write`.  `Add` and `Load` are single steps, so runs and scrapes interleave
everywhere.  What a run does to the store lies between these steps and is left to
`Delivery`; why a run is dropped, skipped or fails is a choice here.  `noted` is
history: the values that were observed.

### The proofs

`DeliveryProofs` and `ChainProofs` (about `Delivery`), `TaskKeysProofs` (lemmas on the
keyspace), `BadgerStoreProofs`, `PagingProofs`, `AttemptProofs` and `MetricsProofs` hold
theorems about the modules they are named for, and their proofs; section 4 says which.
`SumProofs` is about no part of the program: it is the theory of finite sums that
`MetricsProofs` needs.

### MCDelivery, MCBadgerStore, MCPaging, MCAttempt, MCMetrics

The constants of the runs.

## 3. The runs

Properties that hold:

| Run | Instance | Shows | States |
|---|---|---|---|
| `races` | 1 task, the goroutine that holds it, 2 handlers, 2 API writes, staleness 1, timers early by up to 1, time 2, a shutdown, a crash, a failed transaction | `TypeOK`; a run that goes on to its requests got its slot neither before the task's time, but for an early timer, nor when it was too stale (`FireWindow`); no run that nobody asked for (`BoundedRuns`); a running record has an owner (`RunningIsOwned`); stored records are consistent (`RecordConsistent`); finished records stay and are not run again (`HistoryIsFinal`); the inductive invariant (`IInv`) | 1.5 M |
| `chain` | a chain of up to five members, staleness 1, a shutdown, a crash, a failed transaction | one successor per run (`NoFork`), and none missing unless the process crashed or a write failed (`ChainContinues`) | 90 k |
| `live_pool` | 2 tasks with a retry, batches of 1, 1 slot, a crash | claims and slots are exclusive and never leak (`ClaimExclusive`, `SlotBound`); the log holds every request (`LogComplete`); every task ends (`EventuallyFinished`) | 151 k |
| `live_edits` | 1 task, 2 API writes, a shutdown, a crash | the same while it is moved, replayed and cancelled | 143 k |
| `store_atomic` | 2 ids, 2 open transactions, 4 in all, half-second clock, batches of 1 | the keyspace stays one-to-one (`Keyspace`), `Counts` and `GetDueTasks` agree with it to within a second (`CountsExact`, `DueOldest`), no live task is lost (`LiveKept`), a bulk delete misses nothing it saw (`BulkDeleteComplete`), and the store implements `TaskMap` (`MapSpec`) | 220 k |
| `paging_listing` | 3 tasks, 3 filters, pages of 1 and 2, 2 writes, expiries or restarts | a walk returns each matching task that stands still exactly once, whatever happens to the others (`WalkExact`); a cursor means that another row matches (`HasMore`) | 194 k |
| `paging_creation` | 2 creations with and without a key, up to 2 tasks to search through, pages of 1, a write, expiry or restart | no second task beside a duplicate that stands still or was just created (`CreateOnce`); every request is answered (`Answered`) | 46 k |
| `attempt_retries` | retries from -1 to 5, six intervals from -9 to 9 ms of which two overflow, two timeouts, 11 answers, word of 5 bits, cap 5 | the number of requests (`Exhausted`), the longest sleep (`SleepBounded`), how long a run keeps its slot, last request and callback included (`SlotHeld`), the spacing of requests (`StartsSpaced`) | 707 k |
| `metrics_scrape` | 2 runs in 2 slots, 3 requests, a replay, scrapes at any time | the gauge stays within the slots taken (`GaugeInLimit`); buckets, sum and count are exact when nobody is observing (`HistogramExact`); in one scrape, a finished task is also shown as skipped or delivered (`FinishedShown`), and totals differ by no more than the runs under way (`LagBounded`) | 2.4 M |

Statements of the documentation that the code does not meet, each refuted by TLC:

| Run | Statement | What happens |
|---|---|---|
| `update_lost` | "a `200` response means the update is what will be delivered" (`docs/api/update.mdx`) | A run that re-read the task just before the update writes its own copy over it, twice. |
| `crash_chain` | "An outage interrupts a chain; it does not end it" (`docs/concepts/catch-up.mdx`) | The successor is saved after the final `Update`; a crash in between leaves a finished task and no successor. |
| `store_phantom` | "findKey returns the current storage key" (`badger_store.go`) | Two overlapping updates of a task that was deleted (TLC's trace) or has expired leave it under two keys. |

Consequences of the same mechanisms, visible in the models but not given a run:

- an update applied after the run it raced restores the older attempt log;
- a crash loses every attempt of the interrupted run;
- a task cancelled during its run can be replayed while the runner still holds it;
- a bulk delete during a run is undone by the run's next `Update`;
- replaying a member of a live chain leaves the old successor pending and adds
  another, so two chains run from then on, where `docs/api/replay.mdx` says that the
  replay "re-anchors the chain";
- a run's staleness is judged once, when it gets its slot: its retries, and a first
  request delayed by the write before it, may go out later than
  `SCHEDY_MAX_STALENESS` allows, where `docs/concepts/catch-up.mdx:64` says
  "Staleness is measured against the moment the task would actually go out" (hence
  `FireWindow` is about `fireTime`);
- the first retry does not wait, not even for a `Retry-After`, and later waits
  count from the start of the previous request, where `docs/concepts/retries.mdx`
  says "the retry never fires sooner than the server asked" (`StartsSpaced` is the
  part of it that holds);
- a `Retry-After` whose seconds overflow `time.Duration` is ignored or becomes an
  arbitrary wait below the cap instead of the cap (`Asked` leaves these out);
- a fixed `retry_interval` whose milliseconds overflow `time.Duration` becomes any
  wait at all: none, or up to 292 years with the slot held (`attempt.go:51`; `Park`
  and `Fits` say what is left of `SleepBounded`, `SlotHeld` and `StartsSpaced` then);
- an `exponential` retry with interval 0 waits up to the cap;
- `GetDueTasks` leaves out the tasks of the very second of `end`, due or not, where
  `badger_store.go:174` says "due at or before end" and `store.go:60` "[start, end]"; a
  later tick picks them up (`DueOldest` claims completeness only for tasks due a second
  or more before `end`);
- `Counts` reports as overdue the tasks due later in the current second, where
  `store.go:30` and `docs/api/metrics.mdx:23` say that `execute_at` "has already
  passed" (`CountsExact` bounds the number from both sides);
- with more than `MaxPageSize` pending tasks, a duplicate that an update moves behind
  the cursor of the search is missed, and a replayed or recovered task can become
  pending beside one created with its key: an `Idempotency-Key` names at most one
  task only while its task stays put (hence `standing` in `CreateOnce`);
- the cursor of a status listing is accepted without a status filter and pages on
  through the whole keyspace, where `docs/api/list.mdx` says that mixing them returns
  a 400 (the other direction does);
- within one scrape `_count` and the `+Inf` bucket of a histogram may differ.

### Bounds

Every counter has a named bound in a guard.  `MaxTime` is 2 or 3: a task can be
early, due, and, with staleness 1, too late (at 3; at 2 when it was replayed at 0, which
is how `races` skips).  A task is held by one goroutine at a
time (`ClaimExclusive`), so `races`, with one task, has one goroutine; its races are
between that, two handlers, the tick, a shutdown and a crash.  `live_pool` and `chain`
have two goroutines, and one slot makes them queue.  `MaxTasks` limits
clients; successors take ids beyond it, and the runs with recurrence have enough
ids for every successor that can be due by `MaxTime`.  One crash, one shutdown and
one failed transaction each hit every point of a run; `races` combines them.
`chain` has an id for every successor that a crash or a failed write can cause.  In
`BadgerStore` four transactions are enough to create, race two writers and
observe; two clock readings per second separate what keys order from what values
hold.

In `Paging` three tasks are the fewest with a row before, at and after a cursor; two
writes between pages can remove the cursor's row and put another in its place.
`paging_creation` has pages of one row, so that a search of two pending tasks takes
several transactions, and two clock readings per second, so that times within a
second count as repeats; `paging_listing` does without sub-second times.
In `Attempt` five bits stand for the 64 of a `time.Duration` and 5 for the cap
of five minutes, so that five retries overflow, and so do a `retry_interval` of 9 or -9
milliseconds and a `Retry-After` of four seconds.  In `Metrics` two runs overlap in every way, and a histogram has one bound
and values on both sides of it and on it.

Deadlock is checked for `Delivery`, `paging_listing` and `Metrics`.  `BadgerStore` stops
when its transactions are used up, `paging_creation` when its ids are, and `Attempt`
when its run ends, so there it is not.

Symmetry (ids, goroutines, handlers; transactions) is used for safety only.

### Fairness

`EventuallyFinished` is checked under `FairSpec`: the ticker ticks (weak fairness of
`GetDueTasks`), the loop over the batch and every goroutine go on when they can
(the Go scheduler), a handler that has loaded a task answers, time passes, and a
supervisor restarts a process that is down.  `Drain` gets strong fairness: between
two ticks `ctx.Done` is the only ready case of the loop's `select`, over and over
again, but a tick may disable it for a while.  Nothing is assumed of clients,
failures or expiry.  Store errors are left out of the liveness runs, for the code
does not retry: a failed final `Update` leaves a task running until the next
restart, and a failed `RecoverRunning` until the one after.

`Answered` is checked under `Paging`'s `FairSpec`: a handler goes on with its search and
its `Save` (weak fairness: the Go scheduler), and `Lock` gets strong fairness, for
`sync.Mutex` hands itself to a goroutine that has waited for a millisecond.  Nothing is
assumed of `Fail`, of clients or of other writers.  The search ends because its cursor
only moves forward in a finite keyspace.

## 4. The proofs

Every theorem holds for any sets of ids, goroutines, handlers, transactions, listers and
contents, and any bounds.  The assumptions on the constants are the named `ASSUME`s of the
models, which TLC evaluates on every run: types, `None` being nothing else, and what the
code guarantees of a setting (a capacity and a batch size of at least 1, bucket bounds
that ascend, a `timeout_ms` that does not overflow, a `Retry-After` in at most one of its two forms, a finite store at the start).

All proofs have the same shape.  The property is seldom inductive; a module defines the
invariant `IInv` (`ChainInv` in `ChainProofs`) that is, one lemma per action or group of
actions shows that it is kept, split by the conjuncts the action can disturb, and
the theorem `Invariance` collects them.  The properties follow from the invariant, action
properties and the refinement from the invariant and one step.

### The delivery engine

`DeliveryProofs`, from `ConstantsAssumption` and `NoneAssumption`:

| Theorem | Statement |
|---|---|
| `TypeCorrect` | `Spec => []TypeOK` |
| `Invariance` | `Spec => []IInv` |
| `ClaimsAreExclusive` | `Spec => []ClaimExclusive` |
| `SlotsAreBounded` | `Spec => []SlotBound` |
| `FiresInWindow` | `Spec => []FireWindow` |
| `RunsAreBounded` | `Spec => []BoundedRuns` |
| `RecordsAreConsistent` | `Spec => []RecordConsistent` |
| `RunningHasOwner` | `Spec => []RunningIsOwned` |
| `HistoryStays` | `Spec => HistoryIsFinal` |

The properties are not inductive one by one, and `IInv` adds what they need:

- `Timely`: a goroutine past its timer holds a task that is due, up to `TimerSkew`, and
  one past the semaphore has a fire time not before it, up to the same, and not in
  the future.  With the re-read's comparison of
  `execute_at` this gives `FireWindow` although the record was replaced, for any skew.
- `RunsLeft`: an unfinished task that nobody is running has a run left.  This is
  the accounting behind `BoundedRuns`: a crash or an error gives a run back, an
  `Apply` arms one, a commit uses one up.
- `UnsavedUnknown` and `SuccessorReserved`: an id nothing was saved under is nowhere
  but in one goroutine's `next`.  So a successor never overwrites a task.
- `HandlerCopies` and `GoroutineCopies`: what a handler or a goroutine will write is
  consistent, and its status goes with how far it has come.  Hence
  `RecordConsistent` although stale copies are written.

`HistoryIsFinal` follows from the invariant step by step: without a committed goroutine
or a handler, only expiry and bulk deletes reach a finished record, and a commit needs a
pending one.

`ChainProofs` goes on with what holds while no client edits a task and no store
transaction fails (`Calm`; the premise is part of each property, not of the theorem):

| Theorem | Statement |
|---|---|
| `ChainInvariance` | `Spec => []ChainInv` |
| `ChainsDoNotFork` | `Spec => []NoFork` |
| `ChainsContinue` | `Spec => ChainContinues` |
| `LogsAreComplete` | `Spec => []LogComplete` |

`CalmSteps` first shows that a calm state was reached by calm steps and which these are.
`ChainInv` then says that a chain has one token: an unfinished record, or a goroutine that
has recorded its run and has a successor to save, never two of either and never both
(`OneToken`).  `Finalize` passes the token from the record to the goroutine, `Reschedule`
from the goroutine to the successor.  For that the record of a running task must still
be unfinished and of the same chain (`RunsStored`), and a new task must begin a chain
that no record and no goroutine is of (`Rooted`).  The log of a task is in the store
while nobody runs it and in the goroutine's copy otherwise (`Logs`).  `NoFork` survives
crashes; `ChainContinues` does not, which is what `crash_chain` shows.

### The store

`BadgerStoreProofs`.  `TypeCorrect` needs no hypothesis.  The other theorems assume
`MaxBlind = 0`: no `Update` of an id that has no key begins while another of that id is
open.  The run `store_phantom` shows that they fail without it.

| Theorem | Statement |
|---|---|
| `TypeCorrect` | `Spec => []TypeOK` |
| `Invariance` | `Spec => []IInv` |
| `KeyspaceKept` | `Spec => []Keyspace` |
| `CountsAreExact` | `Spec => []CountsExact` |
| `DueOldestFirst` | `Spec => []DueOldest` |
| `LiveTasksKept` | `Spec => LiveKept` |
| `BulkDeletesComplete` | `Spec => BulkDeleteComplete` |
| `ImplementsMap` | `Spec => MapSpec`: the store refines `TaskMap` |

The invariant is about open transactions.  `SeenHolds`: what one has seen, and nobody
has written since, is still so (only a finished record may have expired).  `SavesAlone`
and `IdsSaved`: until a `Save` commits, its id is nowhere else, and what is stored or
being updated has been saved.  `UpdatesAgree`: an
`Update` that found no key is the only one of its id, and two that found a key which
nobody has written since found the same one; this is where `MaxBlind = 0` enters.
`RecoverAlone`: recovery sees everything.  So a commit that does not conflict replaces
exactly the key the task has now (`Keyspace`), and is `TaskMap`'s atomic step.
`CountsAreExact` and `DueOldestFirst` compare the calls with the times of the tasks, not
with their keys, hence with a margin of the second that a key cannot tell apart
(`UnixSecond`).

`TaskKeysProofs` has the lemmas on the keyspace that this and `PagingProofs` rest on: the
order of the keys is total, a finite set of keys has a first and a last, what a call reads,
deletes and writes covers every key of the ids it touches, and what a page and a batch
hold.

### Pages and creations

`PagingProofs`, from `PagingAssumption`:

| Theorem | Statement |
|---|---|
| `Invariance` | `Spec => []IInv` |
| `TypeCorrect` | `Spec => []TypeOK` |
| `WalksExact` | `Spec => []WalkExact` |
| `CursorsHaveMore` | `Spec => HasMore` |
| `CreatesOnce` | `Spec => CreateOnce` |

A row that stands still was returned once if the cursor has passed its key and not at
all otherwise (`WalkExact`, with `WalksExpected`: such rows are in the store and match).  A
creation has found no repeat up to its cursor (`CreationsSearched`), and `LockHeld`
keeps other creations out of the rows it has passed.

### Retries

`AttemptProofs`, from `AttemptAssumption`, for every word size, cap, retry setting and
answer: `Invariance`, `TypeCorrect`, `RetriesExhausted` (`Exhausted`), `SleepsAreBounded`
(`SleepBounded`), `SlotsAreReturned` (`SlotHeld`), `RetriesAreSpaced` (`StartsSpaced`).
`IInv` adds that the last wait was counted from the start of the current request
(`LastStart`), that a request starts at most one timeout or one wait per retry after the
first (`Elapsed`), and that a slot is returned only at the end (`Released`).  The
lemmas say what the arithmetic does: powers of two, products that wrap, the interval,
`backoff`, the server's hint and the cap.  For an interval that `Fits` in a
`time.Duration`, `Park` is the cap or the interval; for one that overflows in fixed mode
it is only the largest duration.

### Metrics

`MetricsProofs`, from `MetricsAssumption` (at least one slot, bucket bounds that ascend,
finitely many durations: they are `int64`):

| Theorem | Statement |
|---|---|
| `Invariance` | `Spec => []IInv` |
| `TypeCorrect` | `Spec => []TypeOK` |
| `GaugeWithinLimit` | `Spec => []GaugeInLimit` |
| `ObservedInvariance` | `Spec => []JInv` |
| `HistogramIsExact` | `Spec => []HistogramExact` |
| `FinishedIsShown` | `Spec => []FinishedShown` |
| `LagIsBounded` | `Spec => []LagBounded` |

`IInv` says that the gauge is the number of runs between their `+1` and their `-1`
(`GaugeExact`), that these are the first and the last of the additions of a run (`Todos`),
and that they lie within its slot (`SlotsHeld`).  `TypeOK` needs it as well: the gauge is
the one counter that goes down.

`JInv` adds what ties the other counters together, although the code updates each on its
own:

- `Staged`: what a goroutine has still to add is the last part of one fixed order (outcome,
  bucket, sum, count or skipped, finished, gauge), one addition per stage.
- `Observed`: for each part of a histogram, its value plus what the goroutines owe it is
  what the observed values come to.  An observation raises the debt and the history
  together, an addition moves one unit from debt to value.  When no goroutine owes
  anything, this is `HistogramExact`.
- `Accounted`: the finished tasks, with the debts and the tasks now being executed, do not
  exceed the skipped ones and the observations.  The order of the stages turns this
  into a statement about the values alone (`ValuesOrdered`): whoever still owes an
  observation owes the finish that follows it.
- `Scraped`: the counters as the scrape has loaded them so far, completed by the present
  values of the others (`Mix`), are in order.  A load does not change the mixture.  An
  addition keeps it in order because `Write` loads the bounded counters before those that
  bound them (the finished tasks before the skipped ones and the histograms, the buckets
  before the count).  If all the bounded ones are loaded, their sum stands still and the
  other only grows; if one is not, none of those that bound it is, their sum is the
  present one, and the present values are in order.  At the end of a scrape the mixture is what it shows: `FinishedShown` and, with
  the slots bounding what can be owed, `LagBounded`.

These are statements about sums.  `SumProofs` shows that the recursion behind
`SumFunctionOnSet` has a solution, by taking the smallest set without one (the induction
theorems of the library cannot be instantiated here, but the well-foundedness of the
naturals can be cited as a set), and from it that any
element may be taken first, what a change of one value does to the sum, how the sums of
two functions compare, and that their difference is the sum of the differences.

### Only model-checked

- `EventuallyFinished` and `Answered`: liveness under fairness is outside the prover's reach.

Every other property of a run that passes is stated by a theorem.

## 5. What is not modelled, and the order of work

Not modelled, because it keeps no state of its own and decides nothing the models
tell apart: how the executor builds a request (body, headers, signature), the
captured body of an answer and the egress guard; authentication, CORS and probes;
logging, flags and route registration; the text format of the metrics; backup,
restore and value-log collection, which are calls into BadgerDB; and the checks of
a request other than its time, which reject it before anything happens.

Order of work:

1. `Delivery`, its runs and `DeliveryProofs`: the behaviour that matters most. Done.
2. `TaskMap`, `BadgerStore`: the atomic calls `Delivery` assumes. Done.
3. `Attempt`, with the executor's deadline, outcome and `Retry-After`. Done.
4. `Paging`: listings and the search for duplicates. Done.
5. `Metrics`: observations against a scrape. Done.
6. Proofs of the safety properties of all of them, and of the refinement of `TaskMap`. Done.
