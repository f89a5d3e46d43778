------------------------------ MODULE Delivery ------------------------------
(***************************************************************************)
(* The delivery engine of Schedy: the runner's tick loop and its delivery  *)
(* goroutines (internal/runner/runner.go), the API handlers that write a   *)
(* task the runner may be holding (internal/api/handler.go), the task      *)
(* store they share (internal/scheduler), and the process around them:     *)
(* crash, graceful shutdown and restart (cmd/schedy/main.go).              *)
(*                                                                         *)
(* A store call is one BadgerDB transaction and is atomic.  What is not    *)
(* atomic is what the code does between two of them: a tick reads a batch  *)
(* and claims its members later, a goroutine re-reads its task and writes  *)
(* it several steps later, a handler loads a task and writes the edited    *)
(* copy.  Each of these is split into its steps.                           *)
(*                                                                         *)
(* One unit of model time may hold any number of ticks: the ticker's phase *)
(* relative to the tasks' times is arbitrary.                              *)
(***************************************************************************)
EXTENDS Integers, Sequences, FiniteSets

CONSTANTS
  Id,             \* task ids (uuid.NewString: never reused)
  Worker,         \* delivery goroutines that may exist at once
  Client,         \* HTTP handler goroutines that may hold a loaded task
  Content,        \* client-owned fields of a task (url, payload, retries, ...)
  None,           \* "no record", "no goroutine", "no id", "no filter"
  Retries,        \* Retries[c]: the retries of content c
  Schedule,       \* Schedule[c]: its recurrence interval, 0 for a one-shot
  Interval,       \* the tick interval, which is also the look-ahead
  MaxDueBatch,    \* tasks one tick may read
  MaxConcurrent,  \* capacity of the semaphore channel
  MaxStaleness,   \* SCHEDY_MAX_STALENESS, 0 when unset
  TimerSkew,      \* how much too early a timer may fire
  Filter,         \* the filters of DELETE /tasks that are explored
  MaxTime,        \* bound: the clock stops here
  MaxTasks,       \* bound: clients create while fewer tasks were saved
  MaxOps,         \* bound: API writes other than creations
  MaxStops,       \* bound: graceful shutdowns
  MaxCrashes,     \* bound: crashes, drain timeouts included
  MaxErrors       \* bound: store transactions that fail

ASSUME ConstantsAssumption ==
  /\ None \notin Id \cup Content \cup Nat
  /\ Retries \in [Content -> Int]
  /\ Schedule \in [Content -> Nat]
  /\ Interval \in Nat /\ MaxStaleness \in Nat /\ TimerSkew \in Nat /\ MaxTime \in Nat
  /\ MaxDueBatch \in Nat \ {0}
  /\ MaxConcurrent \in Nat \ {0}
  /\ MaxTasks \in Nat /\ MaxOps \in Nat /\ MaxStops \in Nat
  /\ MaxCrashes \in Nat /\ MaxErrors \in Nat

-----------------------------------------------------------------------------
(* Tasks.                                                                  *)

Status == {"pending", "running", "succeeded", "failed", "cancelled"}

IsTerminal(s) == s \in {"succeeded", "failed", "cancelled"}

\* One entry of the attempt log; its n is its position in the log.
Outcome == {"ok", "fail", "skipped"}

\* finished: FinishedAt is set.  chain: the id of the task a recurring chain
\* began with; the code does not store it, it only names the chain.
Task == [status : Status, executeAt : Nat, content : Content,
         attempts : Seq(Outcome), finished : BOOLEAN, chain : Id]

NewTask(id, c, at) ==
  [status |-> "pending", executeAt |-> at, content |-> c,
   attempts |-> << >>, finished |-> FALSE, chain |-> id]

\* A delivery goroutine: where it stands, the task it was started for and its
\* copy of it, the fire time, the retries used, and the successor's id.
Pc == {"timer", "slot", "reread", "mark", "execute", "finalize", "notify",
       "reschedule"}

Run == [pc : Pc, id : Id, task : Task, fireTime : Nat, tries : Nat,
        next : Id \cup {None}]

\* A handler between its load and its write: the record it will write.
Call == [id : Id, task : Task]

ASSUME NoneAssumption == None \notin Task \cup Run \cup Call

VARIABLES
  store,     \* id -> task, None when absent
  batch,     \* what runOnce has read and not yet handed out: id -> task
  inflight,  \* Runner.inflight: claimed ids
  slots,     \* the goroutines that hold a token of Runner.sem
  worker,    \* goroutine -> Run, None when it does not exist
  client,    \* handler goroutine -> Call, None when it holds nothing
  phase,     \* of the process
  now,       \* the wall clock
  ops,       \* API writes so far
  stops,     \* graceful shutdowns so far
  crashes,   \* crashes so far
  errors,    \* failed store transactions so far
  arms,      \* history: times a task was made pending by create, update, replay
  runs,      \* history: runs the runner committed to (delivery or skip)
  fired      \* history: requests the receiver has been sent

vars == <<store, batch, inflight, slots, worker, client, phase, now, ops,
          stops, crashes, errors, arms, runs, fired>>

budget == <<ops, stops, crashes>>

history == <<arms, runs, fired>>

Live == {"up", "stopping", "draining"}

NoBatch == [id \in Id |-> None]

At(w, pc) == worker[w] # None /\ worker[w].pc = pc

\* uuid.NewString: an id no task has and no goroutine has drawn.
Fresh(id) ==
  /\ arms[id] = 0
  /\ \A w \in Worker : worker[w] # None => worker[w].next # id

Init ==
  /\ store = [id \in Id |-> None]
  /\ batch = NoBatch
  /\ inflight = {}
  /\ slots = {}
  /\ worker = [w \in Worker |-> None]
  /\ client = [c \in Client |-> None]
  /\ phase = "up"
  /\ now = 0
  /\ ops = 0 /\ stops = 0 /\ crashes = 0 /\ errors = 0
  /\ arms = [id \in Id |-> 0]
  /\ runs = [id \in Id |-> 0]
  /\ fired = [id \in Id |-> 0]

-----------------------------------------------------------------------------
(* The store, one transaction each.                                        *)

\* BadgerStore.Update and Save as the callers see them: the record is in the
\* store under its id whether or not it was there before.
Put(id, t) == store' = [store EXCEPT ![id] = t] /\ UNCHANGED errors

\* A transaction that fails changes nothing (disk error, badger.ErrConflict).
StoreError == errors < MaxErrors /\ errors' = errors + 1 /\ UNCHANGED store

\* The endKey of GetDueTasks has no id suffix, so the bound is strict.
Due(end) ==
  {id \in Id : store[id] # None /\ store[id].status = "pending"
                                /\ store[id].executeAt < end}

\* A batch holds the oldest due tasks; ids break ties arbitrarily.
Oldest(S, D) ==
  /\ Cardinality(S) = IF Cardinality(D) < MaxDueBatch
                        THEN Cardinality(D) ELSE MaxDueBatch
  /\ \A i \in S, j \in D \ S : store[i].executeAt <= store[j].executeAt

\* Mutant: the running tasks of a crashed process are left as they are.
RecoverNothing == store

RecoverRunning ==
  [id \in Id |-> IF store[id] # None /\ store[id].status = "running"
                   THEN [store[id] EXCEPT !.status = "pending"]
                   ELSE store[id]]

\* The filters of DeleteTasks: None matches everything.
Matches(t, f) ==
  /\ f.content = None \/ t.content = f.content
  /\ f.status = None \/ t.status = f.status
  /\ f.before = None \/ t.executeAt < f.before
  /\ f.after = None \/ t.executeAt > f.after

-----------------------------------------------------------------------------
(* The runner's loop.                                                      *)

\* runOnce reads a batch; a failed read ends the tick and changes nothing.
\* After ctx.Done the select in Start may still pick a ready tick.
GetDueTasks ==
  /\ phase \in {"up", "stopping"}
  /\ batch = NoBatch
  /\ \E S \in SUBSET Due(now + Interval) :
       /\ Oldest(S, Due(now + Interval))
       /\ batch' = [id \in Id |-> IF id \in S THEN store[id] ELSE None]
  /\ UNCHANGED <<store, inflight, slots, worker, client, phase, now, budget,
                 errors, history>>

\* Mutant: no in-memory claim.
claimAlways(id) == TRUE

claim(id) == id \notin inflight

\* The loop over the batch: claim, then start a goroutine with a copy.
Dispatch(id, w) ==
  /\ phase \in {"up", "stopping"}
  /\ batch[id] # None
  /\ claim(id)
  /\ worker[w] = None
  /\ inflight' = inflight \cup {id}
  /\ worker' = [worker EXCEPT ![w] =
                  [pc |-> "timer", id |-> id, task |-> batch[id],
                   fireTime |-> 0, tries |-> 0, next |-> None]]
  /\ batch' = [batch EXCEPT ![id] = None]
  /\ UNCHANGED <<store, slots, client, phase, now, budget, errors, history>>

SkipClaimed(id) ==
  /\ phase \in {"up", "stopping"}
  /\ batch[id] # None
  /\ ~claim(id)
  /\ batch' = [batch EXCEPT ![id] = None]
  /\ UNCHANGED <<store, inflight, slots, worker, client, phase, now, budget,
                 errors, history>>

-----------------------------------------------------------------------------
(* A delivery goroutine.                                                   *)

Goto(w, r) == worker' = [worker EXCEPT ![w] = r]

\* Mutant: the slot is not given back.
ReturnHoldingSlot(w) ==
  /\ inflight' = inflight \ {worker[w].id}
  /\ UNCHANGED slots
  /\ Goto(w, None)

\* The deferred calls: give the slot back if it is held, drop the claim, end.
Return(w) ==
  /\ inflight' = inflight \ {worker[w].id}
  /\ slots' = slots \ {w}
  /\ Goto(w, None)

\* The clock that the timer runs on and the one fireTime is read from may
\* disagree (metrics.go: "a timer firing a hair early").
TimerFires(w) ==
  /\ At(w, "timer")
  /\ worker[w].task.executeAt <= now + TimerSkew
  /\ Goto(w, [worker[w] EXCEPT !.pc = "slot"])
  /\ UNCHANGED <<store, batch, inflight, slots, client, phase, now, budget,
                 errors, history>>

\* ctx.Done in either select: not fired, so the task stays pending.
Abort(w) ==
  /\ phase \in {"stopping", "draining"}
  /\ At(w, "timer") \/ At(w, "slot")
  /\ Return(w)
  /\ UNCHANGED <<store, batch, client, phase, now, budget, errors, history>>

\* Mutant: off by one.
SlotFreeAtLimit == Cardinality(slots) <= MaxConcurrent

SlotFree == Cardinality(slots) < MaxConcurrent

AcquireSlot(w) ==
  /\ At(w, "slot")
  /\ SlotFree
  /\ slots' = slots \cup {w}
  /\ Goto(w, [worker[w] EXCEPT !.pc = "reread", !.fireTime = now])
  /\ UNCHANGED <<store, batch, inflight, client, phase, now, budget, errors,
                 history>>

\* Mutant: the re-read only notices a deletion.
Deleted(cur) == cur = None

Cancelled(cur) == cur # None => cur.status # "pending"

\* Mutant: the re-read ignores a new execute_at.
NeverRescheduled(cur, t) == FALSE

Rescheduled(cur, t) == cur.executeAt # t.executeAt

\* The pre-fire re-read drops the run: the read failed, the task is gone or
\* no longer pending, or it has another time now.
DropRun(w) ==
  /\ At(w, "reread")
  /\ LET cur == store[worker[w].id] IN
       \/ Cancelled(cur) /\ UNCHANGED <<store, errors>>
       \/ ~Cancelled(cur) /\ Rescheduled(cur, worker[w].task)
                          /\ UNCHANGED <<store, errors>>
       \/ StoreError
  /\ Return(w)
  /\ UNCHANGED <<batch, client, phase, now, budget, history>>

tooStale(fireTime, t) == MaxStaleness > 0 /\ fireTime - t.executeAt > MaxStaleness

\* Mutant: the skip is logged and the status forgotten.
SkippedPending(t) == [t EXCEPT !.attempts = Append(@, "skipped")]

\* skipStale: the reason is logged as an attempt and the task is failed.
Skipped(t) == [t EXCEPT !.status = "failed", !.finished = TRUE,
                        !.attempts = Append(@, "skipped")]

\* The re-read commits to the run, with the fresh copy.  The successor's id
\* is drawn here so that a bounded set of ids never blocks a run half way.
Commit(w) ==
  /\ At(w, "reread")
  /\ LET cur  == store[worker[w].id]
         skip == tooStale(worker[w].fireTime, cur) IN
       /\ ~Cancelled(cur)
       /\ ~Rescheduled(cur, worker[w].task)
       /\ \E next \in IF Schedule[cur.content] > 0
                        THEN {id \in Id : Fresh(id)} ELSE {None} :
            Goto(w, [worker[w] EXCEPT
                       !.pc = IF skip THEN "finalize" ELSE "mark",
                       !.task = IF skip THEN Skipped(cur) ELSE cur,
                       !.next = next])
  /\ runs' = [runs EXCEPT ![worker[w].id] = @ + 1]
  /\ UNCHANGED <<store, batch, inflight, slots, client, phase, now, budget,
                 errors, arms, fired>>

\* A failed write is logged and the task fires all the same.
MarkRunning(w) ==
  /\ At(w, "mark")
  /\ LET t == [worker[w].task EXCEPT !.status = "running"] IN
       /\ Put(worker[w].id, t) \/ StoreError
       /\ Goto(w, [worker[w] EXCEPT !.pc = "execute", !.task = t])
  /\ UNCHANGED <<batch, inflight, slots, client, phase, now, budget, history>>

\* attempt.shouldRetry; the delay between attempts is the Attempt module's.
shouldRetry(r) == r.tries < Retries[r.task.content]

Finished(t, s) == [t EXCEPT !.status = s, !.finished = TRUE]

\* Mutant: each run starts a new log.
LoggedAlone(t, o) == [t EXCEPT !.attempts = <<o>>]

Logged(t, o) == [t EXCEPT !.attempts = Append(@, o)]

\* One request and its outcome.  The log grows in the goroutine's copy only.
Execute(w) ==
  /\ At(w, "execute")
  /\ fired' = [fired EXCEPT ![worker[w].id] = @ + 1]
  /\ LET r == worker[w] IN
       \/ Goto(w, [r EXCEPT !.pc = "finalize",
                            !.task = Finished(Logged(r.task, "ok"), "succeeded")])
       \/ /\ shouldRetry(r)
          /\ Goto(w, [r EXCEPT !.tries = @ + 1, !.task = Logged(r.task, "fail")])
       \/ /\ ~shouldRetry(r)
          /\ Goto(w, [r EXCEPT !.pc = "finalize",
                               !.task = Finished(Logged(r.task, "fail"), "failed")])
  /\ UNCHANGED <<store, batch, inflight, slots, client, phase, now, budget,
                 errors, arms, runs>>

\* The final Update, of a delivery and of a skip; an error is only logged.
Finalize(w) ==
  /\ At(w, "finalize")
  /\ Put(worker[w].id, worker[w].task) \/ StoreError
  /\ Goto(w, [worker[w] EXCEPT
                !.pc = IF worker[w].task.status = "failed" THEN "notify"
                                                           ELSE "reschedule"])
  /\ UNCHANGED <<batch, inflight, slots, client, phase, now, budget, history>>

\* The failure callback: one request whose outcome nothing depends on.
NotifyFailure(w) ==
  /\ At(w, "notify")
  /\ Goto(w, [worker[w] EXCEPT !.pc = "reschedule"])
  /\ UNCHANGED <<store, batch, inflight, slots, client, phase, now, budget,
                 errors, history>>

\* Mutant: only a success goes on.
recursOnSuccess(t) == Schedule[t.content] > 0 /\ t.status = "succeeded"

recurs(t) == Schedule[t.content] > 0

\* The successor: a clone with a fresh id, no log, anchored to the fire time.
Successor(t, fireTime) ==
  [t EXCEPT !.status = "pending", !.executeAt = fireTime + Schedule[t.content],
            !.attempts = << >>, !.finished = FALSE]

Reschedule(w) ==
  /\ At(w, "reschedule")
  /\ LET r == worker[w] IN
       \/ /\ recurs(r.task)
          /\ Put(r.next, Successor(r.task, r.fireTime))
          /\ arms' = [arms EXCEPT ![r.next] = 1]
       \/ recurs(r.task) /\ StoreError /\ UNCHANGED arms
       \/ ~recurs(r.task) /\ UNCHANGED <<store, errors, arms>>
  /\ Return(w)
  /\ UNCHANGED <<batch, client, phase, now, budget, runs, fired>>

-----------------------------------------------------------------------------
(* The API handlers.  srv.Shutdown lets a handler that has started run on, *)
(* so they are not limited to phase "up".                                  *)

\* CreateTask, when findDuplicate finds nothing: Save under a fresh id.  (A
\* duplicate or a failed transaction is answered and changes nothing.)
CreateTask(id, c, at) ==
  /\ phase \in Live
  /\ Cardinality({i \in Id : arms[i] > 0}) < MaxTasks
  /\ Fresh(id)
  /\ at > now
  /\ Put(id, NewTask(id, c, at))
  /\ arms' = [arms EXCEPT ![id] = 1]
  /\ UNCHANGED <<batch, inflight, slots, worker, client, phase, now, budget,
                 runs, fired>>

\* The copies the three read-modify-write handlers will write back.
Updated(t, c, at) == [t EXCEPT !.content = c, !.executeAt = at]

\* Mutant: FinishedAt is not cleared.
ReplayedFinished(t) == [t EXCEPT !.status = "pending", !.executeAt = now]

\* Mutant: one look-ahead in the past, to be sure of the next tick.
ReplayedEarlier(t) == [t EXCEPT !.status = "pending", !.executeAt = now - Interval,
                                !.finished = FALSE]

Replayed(t) == [t EXCEPT !.status = "pending", !.executeAt = now,
                         !.finished = FALSE]

\* loadTask and the handler's status check.
Load(c, id, t) ==
  /\ phase \in Live
  /\ ops < MaxOps
  /\ client[c] = None
  /\ client' = [client EXCEPT ![c] = [id |-> id, task |-> t]]
  /\ ops' = ops + 1
  /\ UNCHANGED <<store, batch, inflight, slots, worker, phase, now, stops,
                 crashes, errors, history>>

UpdateTask(c, id, content, at) ==
  /\ at > now
  /\ store[id] # None /\ store[id].status = "pending"
  /\ Load(c, id, Updated(store[id], content, at))

ReplayTask(c, id) ==
  /\ store[id] # None /\ IsTerminal(store[id].status)
  /\ Load(c, id, Replayed(store[id]))

DeleteTask(c, id) ==
  /\ store[id] # None /\ ~IsTerminal(store[id].status)
  /\ Load(c, id, Finished(store[id], "cancelled"))

\* The handler's Store.Update and its answer, 200 or 500.
Apply(c) ==
  /\ phase \in Live
  /\ client[c] # None
  /\ \/ /\ Put(client[c].id, client[c].task)
        /\ arms' = IF client[c].task.status = "pending"
                     THEN [arms EXCEPT ![client[c].id] = @ + 1] ELSE arms
     \/ StoreError /\ UNCHANGED arms
  /\ client' = [client EXCEPT ![c] = None]
  /\ UNCHANGED <<batch, inflight, slots, worker, phase, now, budget, runs,
                 fired>>

\* Bulk delete: one transaction over every status; if it fails nothing goes.
DeleteTasks(f) ==
  /\ phase \in Live
  /\ ops < MaxOps
  /\ ops' = ops + 1
  /\ store' = [id \in Id |-> IF store[id] # None /\ Matches(store[id], f)
                               THEN None ELSE store[id]]
  /\ UNCHANGED <<batch, inflight, slots, worker, client, phase, now, stops,
                 crashes, errors, history>>

-----------------------------------------------------------------------------
(* The process, the clock and retention.                                   *)

\* SIGINT cancels ctx.
Stop ==
  /\ phase = "up"
  /\ stops < MaxStops
  /\ stops' = stops + 1
  /\ phase' = "stopping"
  /\ UNCHANGED <<store, batch, inflight, slots, worker, client, now, ops, crashes,
                 errors, history>>

\* Start sees ctx.Done between two ticks and waits for the goroutines.
Drain ==
  /\ phase = "stopping"
  /\ batch = NoBatch
  /\ phase' = "draining"
  /\ UNCHANGED <<store, batch, inflight, slots, worker, client, now, budget,
                 errors, history>>

drained == \A w \in Worker : worker[w] = None

\* main returns: the store is closed; a handler that outlived
\* srv.Shutdown's deadline ends with the process.
Exit ==
  /\ phase = "draining"
  /\ drained
  /\ phase' = "down"
  /\ client' = [c \in Client |-> None]
  /\ UNCHANGED <<store, batch, inflight, slots, worker, now, budget, errors,
                 history>>

\* The process dies; so does what it held in memory.  A drain that gives up
\* after drainTimeout and exits has the same effect.
Crash ==
  /\ phase \in Live
  /\ crashes < MaxCrashes
  /\ crashes' = crashes + 1
  /\ phase' = "crashed"
  /\ batch' = NoBatch
  /\ inflight' = {}
  /\ slots' = {}
  /\ worker' = [w \in Worker |-> None]
  /\ client' = [c \in Client |-> None]
  /\ UNCHANGED <<store, now, ops, stops, errors, history>>

\* main: RecoverRunning, whose error is only logged, then the server is up.
Restart ==
  /\ phase \in {"down", "crashed"}
  /\ phase' = "up"
  /\ \/ store' = RecoverRunning /\ UNCHANGED errors
     \/ StoreError
  /\ UNCHANGED <<batch, inflight, slots, worker, client, now, budget,
                 history>>

Advance ==
  /\ now < MaxTime
  /\ now' = now + 1
  /\ UNCHANGED <<store, batch, inflight, slots, worker, client, phase, budget,
                 errors, history>>

\* put gives a terminal record a TTL; Badger drops it some time later.
Expire(id) ==
  /\ store[id] # None /\ IsTerminal(store[id].status)
  /\ store' = [store EXCEPT ![id] = None]
  /\ UNCHANGED <<batch, inflight, slots, worker, client, phase, now, budget,
                 errors, history>>

-----------------------------------------------------------------------------

WorkerStep(w) ==
  \/ TimerFires(w)
  \/ Abort(w)
  \/ AcquireSlot(w)
  \/ DropRun(w)
  \/ Commit(w)
  \/ MarkRunning(w)
  \/ Execute(w)
  \/ Finalize(w)
  \/ NotifyFailure(w)
  \/ Reschedule(w)

RunnerStep ==
  \/ GetDueTasks
  \/ \E id \in Id : SkipClaimed(id) \/ \E w \in Worker : Dispatch(id, w)
  \/ \E w \in Worker : WorkerStep(w)

ApiStep ==
  \/ \E id \in Id, c \in Content, at \in 1..MaxTime : CreateTask(id, c, at)
  \/ \E c \in Client :
       \/ \E id \in Id :
            \/ \E content \in Content, at \in 1..MaxTime :
                 UpdateTask(c, id, content, at)
            \/ ReplayTask(c, id)
            \/ DeleteTask(c, id)
       \/ Apply(c)
  \/ \E f \in Filter : DeleteTasks(f)

ProcessStep ==
  \/ Stop
  \/ Drain
  \/ Exit
  \/ Crash
  \/ Restart
  \/ Advance
  \/ \E id \in Id : Expire(id)

Next == RunnerStep \/ ApiStep \/ ProcessStep

Spec == Init /\ [][Next]_vars
-----------------------------------------------------------------------------
(* Fairness.  The ticker ticks, a runnable goroutine runs, a handler that  *)
(* has loaded answers, time passes, and a process that is down is started  *)
(* again.  Between two ticks ctx.Done is the only ready case of Start's    *)
(* select, so a loop that keeps coming back to it stops: strong fairness.  *)
(* Nothing is assumed about clients, failures or expiry.                   *)

DispatchStep == \E id \in Id : SkipClaimed(id) \/ \E w \in Worker : Dispatch(id, w)

Fairness ==
  /\ WF_vars(GetDueTasks)
  /\ WF_vars(DispatchStep)
  /\ \A w \in Worker : WF_vars(WorkerStep(w))
  /\ \A c \in Client : WF_vars(Apply(c))
  /\ SF_vars(Drain) /\ WF_vars(Exit) /\ WF_vars(Restart)
  /\ WF_vars(Advance)

FairSpec == Spec /\ Fairness

-----------------------------------------------------------------------------
(* Properties.                                                             *)

\* A goroutine that has decided to run its task and not yet recorded how.
Committed(w) == worker[w] # None /\ worker[w].pc \in {"mark", "execute", "finalize"}

CommittedTo(id) == \E w \in Worker : Committed(w) /\ worker[w].id = id

Unfinished(id) == store[id] # None /\ store[id].status \in {"pending", "running"}

\* The type invariant.
TypeOK ==
  /\ store \in [Id -> Task \cup {None}]
  /\ batch \in [Id -> Task \cup {None}]
  /\ inflight \in SUBSET Id
  /\ slots \in SUBSET Worker
  /\ worker \in [Worker -> Run \cup {None}]
  /\ client \in [Client -> Call \cup {None}]
  /\ phase \in Live \cup {"down", "crashed"}
  /\ now \in Nat
  /\ ops \in Nat /\ stops \in Nat /\ crashes \in Nat /\ errors \in Nat
  /\ arms \in [Id -> Nat]
  /\ runs \in [Id -> Nat]
  /\ fired \in [Id -> Nat]

\* Runner.claim: no two goroutines ever hold the same task, and a claim is held
\* exactly as long as the goroutine it was made for lives, whichever of the
\* early returns ends it: a leaked claim would hide the task from every tick.
ClaimExclusive ==
  /\ \A v, w \in Worker :
       worker[v] # None /\ worker[w] # None /\ worker[v].id = worker[w].id => v = w
  /\ inflight = {id \in Id : \E w \in Worker : worker[w] # None /\ worker[w].id = id}

\* Runner.sem: at most SCHEDY_MAX_CONCURRENT_DELIVERIES goroutines are past
\* the semaphore, and exactly those hold a token: none leaks, none is shared.
SlotBound ==
  /\ slots = {w \in Worker : worker[w] # None /\ worker[w].pc \notin {"timer", "slot"}}
  /\ IsFiniteSet(slots) /\ Cardinality(slots) <= MaxConcurrent

\* No request or retry goes out before the execute_at of the record that was
\* re-read, but for the skew of the timer, and none belongs to a run that got
\* its slot after execute_at + SCHEDY_MAX_STALENESS, whatever updates raced the
\* tick that picked the task up and however long it queued.  Staleness is judged
\* once, when the slot is taken: the requests of a run, its retries above all,
\* may go out after the limit.
FireWindow ==
  \A w \in Worker :
    worker[w] # None /\ worker[w].pc \in {"mark", "execute"} =>
      LET r == worker[w] IN
        /\ r.task.executeAt <= r.fireTime + TimerSkew /\ r.fireTime <= now
        /\ MaxStaleness > 0 => r.fireTime - r.task.executeAt <= MaxStaleness

\* The runner never runs a task more often than it was armed (created, updated
\* or replayed), beyond one run for each crash and each failed store
\* transaction: no tick, stale batch or restart makes up a run of its own.
BoundedRuns == \A id \in Id : runs[id] <= arms[id] + crashes + errors

\* BoundedRuns made inductive: a task that is still to be run, and that no
\* goroutine is running, has a run left.
RunsLeft ==
  \A id \in Id : Unfinished(id) /\ ~CommittedTo(id) =>
                   runs[id] < arms[id] + crashes + errors

\* While every store transaction succeeds, a record says "running" only while
\* a goroutine is delivering it: RecoverRunning leaves none behind after a
\* crash, and a graceful shutdown waits for the goroutines that own one.
RunningIsOwned ==
  errors = 0 /\ phase # "crashed" =>
    \A id \in Id : store[id] # None /\ store[id].status = "running" =>
      \E w \in Worker : /\ worker[w] # None /\ worker[w].id = id
                        /\ worker[w].pc \in {"execute", "finalize"}

Last(s) == s[Len(s)]

\* What a record says about itself agrees: finished_at is set exactly when the
\* status is terminal, a success ends its log with a 2xx and a failure with a
\* failed or skipped attempt.
Consistent(t) ==
  /\ t.finished <=> IsTerminal(t.status)
  /\ t.status = "succeeded" => t.attempts # << >> /\ Last(t.attempts) = "ok"
  /\ t.status = "failed" => t.attempts # << >> /\ Last(t.attempts) # "ok"

\* Every record in the store is consistent, whichever stale copy of it a
\* handler or a goroutine wrote last.
RecordConsistent == \A id \in Id : store[id] # None => Consistent(store[id])

\* A finished record that no goroutine is running and no handler has loaded.
Settled(id) ==
  /\ store[id] # None /\ IsTerminal(store[id].status)
  /\ ~CommittedTo(id)
  /\ \A c \in Client : client[c] = None \/ client[c].id # id

SettledStays ==
  \A id \in Id : Settled(id) => store'[id] \in {store[id], None} /\ ~CommittedTo(id)'

\* A settled record is history: until a handler loads it, it is not run again
\* and does not change before it expires or is deleted.  A cancel therefore
\* wins against every tick that read the task before it.
HistoryIsFinal == [][SettledStays]_vars

\* Requests the log of a record accounts for.
Sent(t) == Cardinality({i \in 1..Len(t.attempts) : t.attempts[i] # "skipped"})

LogOf(id) ==
  store[id] # None /\ ~CommittedTo(id) => Sent(store[id]) = fired[id]

\* Without crashes, store errors or handlers racing the run, the attempt log
\* of a task that is not being run holds every request it caused.
LogComplete ==
  ops = 0 /\ crashes = 0 /\ errors = 0 => \A id \in Id : LogOf(id)

\* Of a recurring chain: a member that will run, or a goroutine that will
\* save one.
ChainLive(root) ==
  \/ \E id \in Id : /\ Unfinished(id) /\ store[id].chain = root
                    /\ Schedule[store[id].content] > 0
  \/ \E w \in Worker : /\ worker[w] # None /\ worker[w].next # None
                       /\ worker[w].task.chain = root

\* skipStale and reschedule: a chain nobody edits goes on through successes,
\* failures, skips and graceful shutdowns.
ChainContinues ==
  [][ops' = 0 /\ crashes' = 0 /\ errors' = 0 =>
       \A root \in Id : ChainLive(root) => ChainLive(root)']_vars

\* The goroutines that have recorded their run and will still save a successor.
Successors(root) ==
  {w \in Worker : /\ worker[w] # None /\ worker[w].pc \in {"notify", "reschedule"}
                  /\ worker[w].next # None /\ worker[w].task.chain = root}

\* A chain nobody edits never forks, also across crashes: at most one member is
\* unfinished or about to be saved.
NoFork ==
  ops = 0 /\ errors = 0 =>
    \A root \in Id :
      Cardinality({id \in Id : Unfinished(id) /\ store[id].chain = root})
        + Cardinality(Successors(root)) <= 1

\* Every task that is accepted, updated or replayed ends: delivered, failed,
\* cancelled or deleted, in spite of crashes and restarts, of a full
\* semaphore and of batches smaller than the backlog.
EventuallyFinished == \A id \in Id : Unfinished(id) ~> ~Unfinished(id)

-----------------------------------------------------------------------------
(* The inductive invariant behind the state properties above.              *)

\* What a goroutine past its timer knows of the time: its task is due but for
\* the skew, and what it fires is in the window.
Timely ==
  \A w \in Worker :
    worker[w] # None =>
      LET r == worker[w] IN
        /\ r.pc # "timer" => r.task.executeAt <= now + TimerSkew
        /\ r.pc \notin {"timer", "slot"} =>
             r.task.executeAt <= r.fireTime + TimerSkew /\ r.fireTime <= now
        /\ r.pc \in {"mark", "execute"} /\ MaxStaleness > 0 =>
             r.fireTime - r.task.executeAt <= MaxStaleness

\* An id that nothing was saved under is nowhere in the system ...
UnsavedUnknown ==
  \A id \in Id : arms[id] = 0 =>
    /\ store[id] = None /\ batch[id] = None /\ runs[id] = 0
    /\ \A c \in Client : client[c] # None => client[c].id # id
    /\ \A w \in Worker : worker[w] # None => worker[w].id # id

\* ... except that one goroutine, running a recurring task, may have drawn it
\* for the successor.
SuccessorReserved ==
  \A w \in Worker :
    worker[w] # None =>
      LET r == worker[w] IN
        /\ r.pc \in {"timer", "slot", "reread"} => r.next = None
        /\ r.pc \notin {"timer", "slot", "reread"} =>
             (r.next # None <=> Schedule[r.task.content] > 0)
        /\ r.next # None =>
             /\ arms[r.next] = 0
             /\ \A v \in Worker : worker[v] # None /\ worker[v].next = r.next => v = w

\* A handler is about to write a consistent record, armed or cancelled ...
HandlerCopies ==
  \A c \in Client : client[c] # None =>
    Consistent(client[c].task) /\ client[c].task.status \in {"pending", "cancelled"}

\* ... and a goroutine's copy says how far its run has come.
GoroutineCopies ==
  \A w \in Worker :
    worker[w] # None =>
      LET r == worker[w] IN
        /\ r.pc = "mark" => r.task.status = "pending" /\ ~r.task.finished
        /\ r.pc = "execute" => r.task.status = "running" /\ ~r.task.finished
        /\ r.pc \in {"finalize", "notify", "reschedule"} =>
             Consistent(r.task) /\ r.task.status \in {"succeeded", "failed"}

\* The inductive invariant: together these are kept by every step.
IInv ==
  /\ TypeOK
  /\ ClaimExclusive
  /\ SlotBound
  /\ Timely
  /\ UnsavedUnknown
  /\ SuccessorReserved
  /\ BoundedRuns
  /\ RunsLeft
  /\ RecordConsistent
  /\ HandlerCopies
  /\ GoroutineCopies
  /\ RunningIsOwned

-----------------------------------------------------------------------------
(* What the documentation says of races and outages that the code does not *)
(* do.  Each is checked by a run of its own that TLC refutes.              *)

Changes(id) == store[id] # None /\ store'[id] # None /\ store'[id] # store[id]

ByHandler(id) == \E c \in Client : client[c] # None /\ client[c].id = id
                                                    /\ client'[c] = None

\* docs/api/update.mdx: "a `200` response means the update is what will be
\* delivered": once applied, only another update changes what a task says.
UpdateIsDelivered ==
  [][\A id \in Id : Changes(id) /\ store'[id].content # store[id].content
       => ByHandler(id)]_vars

\* docs/concepts/catch-up.mdx: "An outage interrupts a chain; it does not end it".
OutageKeepsChain ==
  [][ops' = 0 /\ errors' = 0 =>
       \A root \in Id : ChainLive(root) => ChainLive(root)']_vars
=============================================================================
