--------------------------- MODULE DeliveryProofs ---------------------------
(***************************************************************************)
(* Proofs about Delivery, for every set of ids, goroutines and handlers,   *)
(* every schedule and retry count, and every bound.                        *)
(***************************************************************************)
EXTENDS Delivery, FiniteSetTheorems, TLAPS

-----------------------------------------------------------------------------
(* The operators that build records return records.                        *)

\* A new status leaves a task a task.
LEMMA StatusTask ==
  ASSUME NEW t \in Task, NEW s \in Status
  PROVE  [t EXCEPT !.status = s] \in Task /\ Finished(t, s) \in Task
BY DEF Task, Finished

\* So does a longer log.
LEMMA LoggedTask ==
  ASSUME NEW t \in Task, NEW o \in Outcome
  PROVE  Logged(t, o) \in Task /\ Skipped(t) \in Task
<1>1. Append(t.attempts, o) \in Seq(Outcome) /\ Append(t.attempts, "skipped") \in Seq(Outcome)
  BY DEF Task, Outcome
<1>2. Logged(t, o) \in Task
  BY <1>1 DEF Task, Logged
<1>3. Skipped(t) \in Task
  BY <1>1 DEF Task, Skipped, Status
<1> QED
  BY <1>2, <1>3

\* The successor of a recurring task is a task.
LEMMA SuccessorTask ==
  ASSUME NEW t \in Task, NEW f \in Nat
  PROVE  Successor(t, f) \in Task
<1>1. f + Schedule[t.content] \in Nat
  BY ConstantsAssumption DEF Task
<1>2. << >> \in Seq(Outcome)
  OBVIOUS
<1> QED
  BY <1>1, <1>2 DEF Task, Successor, Status

\* What UpdateTask and ReplayTask write is a task.
LEMMA EditedTask ==
  ASSUME NEW t \in Task, NEW c \in Content, NEW at \in Nat, now \in Nat
  PROVE  Updated(t, c, at) \in Task /\ Replayed(t) \in Task
BY DEF Task, Updated, Replayed, Status

-----------------------------------------------------------------------------
(* What a step does to a goroutine.                                        *)

\* The places a goroutine goes through.
Flow ==
  {<<"timer", "slot">>, <<"slot", "reread">>, <<"reread", "mark">>, <<"reread", "finalize">>,
   <<"mark", "execute">>, <<"execute", "execute">>, <<"execute", "finalize">>,
   <<"finalize", "notify">>, <<"finalize", "reschedule">>, <<"notify", "reschedule">>}

\* A goroutine that moves on from r to q is the same goroutine.
MovesOn(r, q) == q \in Run /\ q.id = r.id /\ <<r.pc, q.pc>> \in Flow

\* A goroutine's step either ends it with its deferred calls or moves it on.
LEMMA WorkerMoves ==
  ASSUME TypeOK, NEW w \in Worker, WorkerStep(w)
  PROVE  /\ worker[w] \in Run
         /\ Return(w) \/ \E q : Goto(w, q) /\ MovesOn(worker[w], q) /\ inflight' = inflight
<1> DEFINE r == worker[w]
<1>1. r \in Run
  BY DEF TypeOK, WorkerStep, TimerFires, Abort, AcquireSlot, DropRun, Commit, MarkRunning,
         Execute, Finalize, NotifyFailure, Reschedule, At
<1>2. CASE Abort(w) \/ DropRun(w) \/ Reschedule(w)
  BY <1>1, <1>2 DEF Abort, DropRun, Reschedule
<1>3. CASE TimerFires(w) \/ Finalize(w) \/ NotifyFailure(w)
  <2>1. \A pc \in Pc : /\ [r EXCEPT !.pc = pc] \in Run
                        /\ [r EXCEPT !.pc = pc].id = r.id /\ [r EXCEPT !.pc = pc].pc = pc
    BY <1>1 DEF Run
  <2>2. PICK pc \in Pc : Goto(w, [r EXCEPT !.pc = pc]) /\ <<r.pc, pc>> \in Flow
    BY <1>3 DEF TimerFires, Finalize, NotifyFailure, Pc, Flow, At
  <2>3. MovesOn(r, [r EXCEPT !.pc = pc])
    BY <2>1, <2>2 DEF MovesOn
  <2> QED
    BY <1>1, <1>3, <2>2, <2>3 DEF TimerFires, Finalize, NotifyFailure
<1>4. CASE AcquireSlot(w)
  <2> DEFINE q == [r EXCEPT !.pc = "reread", !.fireTime = now]
  <2>1. q \in Run /\ q.id = r.id /\ q.pc = "reread"
    BY <1>1 DEF TypeOK, Run, Pc
  <2> HIDE DEF q
  <2>2. MovesOn(r, q)
    BY <1>4, <2>1 DEF AcquireSlot, At, Flow, MovesOn
  <2> QED
    BY <1>1, <1>4, <2>2 DEF AcquireSlot, q
<1>5. CASE Commit(w)
  <2> DEFINE cur  == store[r.id]
             skip == tooStale(r.fireTime, cur)
             pc   == IF skip THEN "finalize" ELSE "mark"
             t    == IF skip THEN Skipped(cur) ELSE cur
             q(next) == [r EXCEPT !.pc = pc, !.task = t, !.next = next]
  <2>1. cur \in Task
    BY <1>1, <1>5 DEF TypeOK, Commit, Cancelled, Run
  <2>2. t \in Task /\ pc \in Pc /\ <<"reread", pc>> \in Flow
    BY <2>1, LoggedTask DEF Outcome, Pc, Flow
  <2>3. PICK next \in Id \cup {None} : Goto(w, q(next))
    BY <1>5 DEF Commit
  <2> HIDE DEF pc, t
  <2>4. q(next) \in Run /\ q(next).id = r.id /\ q(next).pc = pc
    BY <1>1, <2>2 DEF Run
  <2> HIDE DEF q
  <2>5. MovesOn(r, q(next))
    BY <1>5, <2>2, <2>4 DEF Commit, At, MovesOn
  <2> QED
    BY <1>1, <1>5, <2>3, <2>5 DEF Commit
<1>6. CASE MarkRunning(w)
  <2> DEFINE t == [r.task EXCEPT !.status = "running"]
             q == [r EXCEPT !.pc = "execute", !.task = t]
  <2>1. t \in Task
    BY <1>1, StatusTask DEF Run, Status
  <2> HIDE DEF t
  <2>2. q \in Run /\ q.id = r.id /\ q.pc = "execute"
    BY <1>1, <2>1 DEF Run, Pc
  <2> HIDE DEF q
  <2>3. MovesOn(r, q)
    BY <1>6, <2>2 DEF MarkRunning, At, Flow, MovesOn
  <2> QED
    BY <1>1, <1>6, <2>3 DEF MarkRunning, t, q
<1>7. CASE Execute(w)
  <2>1. /\ Logged(r.task, "fail") \in Task
        /\ Finished(Logged(r.task, "ok"), "succeeded") \in Task
        /\ Finished(Logged(r.task, "fail"), "failed") \in Task
    BY <1>1, LoggedTask, StatusTask DEF Run, Outcome, Status
  <2>2. r.pc = "execute" /\ r.tries + 1 \in Nat
    BY <1>1, <1>7 DEF Run, Execute, At
  <2>3. ASSUME NEW t \in Task
        PROVE  MovesOn(r, [r EXCEPT !.pc = "finalize", !.task = t])
    <3> DEFINE q == [r EXCEPT !.pc = "finalize", !.task = t]
    <3>1. q \in Run /\ q.id = r.id /\ q.pc = "finalize"
      BY <1>1 DEF Run, Pc
    <3> QED
      BY <2>2, <3>1 DEF MovesOn, Flow
  <2>4. ASSUME NEW t \in Task
        PROVE  MovesOn(r, [r EXCEPT !.tries = r.tries + 1, !.task = t])
    <3> DEFINE q == [r EXCEPT !.tries = r.tries + 1, !.task = t]
    <3>1. q \in Run /\ q.id = r.id /\ q.pc = r.pc
      BY <1>1, <2>2 DEF Run
    <3> QED
      BY <2>2, <3>1 DEF MovesOn, Flow
  <2>5. \/ Goto(w, [r EXCEPT !.pc = "finalize",
                            !.task = Finished(Logged(r.task, "ok"), "succeeded")])
        \/ Goto(w, [r EXCEPT !.tries = r.tries + 1, !.task = Logged(r.task, "fail")])
        \/ Goto(w, [r EXCEPT !.pc = "finalize",
                            !.task = Finished(Logged(r.task, "fail"), "failed")])
    BY <1>7 DEF Execute
  <2>6. \E q : Goto(w, q) /\ MovesOn(r, q)
    <3> HIDE DEF r
    <3> QED
      BY <2>1, <2>3, <2>4, <2>5
  <2>7. inflight' = inflight
    BY <1>7 DEF Execute
  <2> QED
    BY <1>1, <2>6, <2>7
<1> QED
  BY <1>1, <1>2, <1>3, <1>4, <1>5, <1>6, <1>7 DEF WorkerStep

-----------------------------------------------------------------------------
(* Type correctness.                                                       *)

\* Every step keeps the type invariant.
LEMMA TypeInductive == TypeOK /\ [Next]_vars => TypeOK'
<1> SUFFICES ASSUME TypeOK, [Next]_vars PROVE TypeOK'
  OBVIOUS
<1> USE ConstantsAssumption, NoneAssumption
<1>1. CASE GetDueTasks
  BY <1>1 DEF TypeOK, GetDueTasks, Due, budget, history
<1>2. ASSUME NEW id \in Id, NEW w \in Worker, Dispatch(id, w) PROVE TypeOK'
  BY <1>2 DEF TypeOK, Dispatch, Run, Pc, budget, history
<1>3. ASSUME NEW id \in Id, SkipClaimed(id) PROVE TypeOK'
  BY <1>3 DEF TypeOK, SkipClaimed, budget, history
<1>4. ASSUME NEW w \in Worker, WorkerStep(w) PROVE TypeOK'
  <2>1. worker[w] \in Run
    BY <1>4, WorkerMoves
  <2>2. worker' \in [Worker -> Run \cup {None}] /\ inflight' \in SUBSET Id
    <3>1. CASE Return(w)
      BY <3>1 DEF TypeOK, Return, Goto
    <3>2. ASSUME NEW q, Goto(w, q), MovesOn(worker[w], q), inflight' = inflight
          PROVE  worker' \in [Worker -> Run \cup {None}] /\ inflight' \in SUBSET Id
      BY <3>2 DEF TypeOK, Goto, MovesOn
    <3> QED
      BY <1>4, <3>1, <3>2, WorkerMoves
  <2>3. CASE TimerFires(w) \/ Abort(w) \/ AcquireSlot(w) \/ NotifyFailure(w)
    BY <2>2, <2>3 DEF TypeOK, TimerFires, Abort, AcquireSlot, NotifyFailure, Return, budget, history
  <2>4. CASE DropRun(w)
    BY <2>2, <2>4 DEF TypeOK, DropRun, Return, StoreError, budget, history
  <2>5. CASE Commit(w)
    BY <2>1, <2>2, <2>5 DEF TypeOK, Commit, Run, budget, history
  <2>6. CASE MarkRunning(w)
    <3>1. [worker[w].task EXCEPT !.status = "running"] \in Task
      BY <2>1, StatusTask DEF Run, Status
    <3> QED
      BY <2>1, <2>2, <2>6, <3>1 DEF TypeOK, MarkRunning, Put, StoreError, budget, history
  <2>7. CASE Execute(w)
    BY <2>1, <2>2, <2>7 DEF TypeOK, Execute, Run, budget, history
  <2>8. CASE Finalize(w)
    BY <2>1, <2>2, <2>8 DEF TypeOK, Finalize, Put, StoreError, Run, budget, history
  <2>9. CASE Reschedule(w)
    <3>1. Successor(worker[w].task, worker[w].fireTime) \in Task
      BY <2>1, SuccessorTask DEF Run
    <3> QED
      BY <2>2, <2>9, <3>1 DEF TypeOK, Reschedule, Return, Put, StoreError, budget
  <2> QED
    BY <1>4, <2>3, <2>4, <2>5, <2>6, <2>7, <2>8, <2>9 DEF WorkerStep
<1>5. ASSUME NEW id \in Id, NEW c \in Content, NEW at \in 1..MaxTime, CreateTask(id, c, at) PROVE TypeOK'
  <2>1. NewTask(id, c, at) \in Task
    BY DEF Task, NewTask, Status
  <2> QED
    BY <1>5, <2>1 DEF TypeOK, CreateTask, Put, budget, history
<1>6. ASSUME NEW c \in Client, NEW id \in Id, NEW t \in Task, Load(c, id, t) PROVE TypeOK'
  BY <1>6 DEF TypeOK, Load, Call, history
<1>7. ASSUME NEW c \in Client, NEW id \in Id, NEW content \in Content, NEW at \in 1..MaxTime,
              UpdateTask(c, id, content, at)
       PROVE TypeOK'
  <2>1. store[id] \in Task /\ now \in Nat /\ at \in Nat
    BY <1>7 DEF TypeOK, UpdateTask
  <2>2. Updated(store[id], content, at) \in Task
    BY <2>1, EditedTask
  <2> QED
    BY <1>6, <1>7, <2>2 DEF UpdateTask
<1>8. ASSUME NEW c \in Client, NEW id \in Id, ReplayTask(c, id) \/ DeleteTask(c, id)
       PROVE TypeOK'
  <2>1. store[id] \in Task
    BY <1>8 DEF TypeOK, ReplayTask, DeleteTask
  <2>2. Replayed(store[id]) \in Task
    BY <2>1, EditedTask DEF TypeOK, Task
  <2>3. Finished(store[id], "cancelled") \in Task
    BY <2>1, StatusTask DEF Status
  <2> QED
    BY <1>6, <1>8, <2>2, <2>3 DEF ReplayTask, DeleteTask
<1>9. ASSUME NEW c \in Client, Apply(c) PROVE TypeOK'
  BY <1>9 DEF TypeOK, Apply, Put, StoreError, Call, budget, history
<1>10. ASSUME NEW f \in Filter, DeleteTasks(f) PROVE TypeOK'
  BY <1>10 DEF TypeOK, DeleteTasks, budget, history
<1>11. CASE Stop
  BY <1>11 DEF TypeOK, Stop, Live, budget, history
<1>12. CASE Drain
  BY <1>12 DEF TypeOK, Drain, Live, budget, history
<1>13. CASE Exit
  BY <1>13 DEF TypeOK, Exit, budget, history
<1>14. CASE Crash
  BY <1>14 DEF TypeOK, Crash, NoBatch, budget, history
<1>15. CASE Restart
  <2>1. RecoverRunning \in [Id -> Task \cup {None}]
    BY StatusTask DEF TypeOK, RecoverRunning, Status
  <2> QED
    BY <1>15, <2>1 DEF TypeOK, Restart, StoreError, Live, budget, history
<1>16. CASE Advance
  BY <1>16 DEF TypeOK, Advance, budget, history
<1>17. ASSUME NEW id \in Id, Expire(id) PROVE TypeOK'
  BY <1>17 DEF TypeOK, Expire, budget, history
<1>18. CASE UNCHANGED vars
  BY <1>18 DEF TypeOK, vars
<1> QED
  BY <1>1, <1>2, <1>3, <1>4, <1>5, <1>7, <1>8, <1>9, <1>10, <1>11, <1>12, <1>13, <1>14,
     <1>15, <1>16, <1>17, <1>18
     DEF Next, RunnerStep, ApiStep, ProcessStep

\* Type correctness of the delivery engine.
THEOREM TypeCorrect == Spec => []TypeOK
<1>1. Init => TypeOK
  BY ConstantsAssumption DEF Init, TypeOK, NoBatch, Live
<1>2. TypeOK /\ [Next]_vars => TypeOK'
  BY TypeInductive
<1> QED
  BY <1>1, <1>2, PTL DEF Spec
-----------------------------------------------------------------------------
(* What a goroutine carries along.                                         *)

\* No record operator of a run touches execute_at or the content.
LEMMA TaskFields ==
  ASSUME NEW t \in Task
  PROVE  /\ \A s \in Status : /\ [t EXCEPT !.status = s].executeAt = t.executeAt
                               /\ [t EXCEPT !.status = s].content = t.content
                               /\ Finished(t, s).executeAt = t.executeAt
                               /\ Finished(t, s).content = t.content
         /\ \A o \in Outcome : /\ Logged(t, o).executeAt = t.executeAt
                                /\ Logged(t, o).content = t.content
         /\ Skipped(t).executeAt = t.executeAt
         /\ Skipped(t).content = t.content
BY DEF Task, Finished, Logged, Skipped

\* Waiting for the timer and for a slot only sets the fire time.
LEMMA WaitFields ==
  ASSUME TypeOK, NEW w \in Worker, TimerFires(w) \/ AcquireSlot(w)
  PROVE  /\ worker'[w].task = worker[w].task
         /\ worker'[w].next = worker[w].next
         /\ AcquireSlot(w) => worker'[w].fireTime = now /\ worker'[w].pc = "reread"
         /\ TimerFires(w) => worker'[w].pc = "slot"
<1>1. worker[w] \in Run
  BY WorkerMoves DEF WorkerStep
<1>2. CASE TimerFires(w)
  BY <1>1, <1>2 DEF TimerFires, At, AcquireSlot, Goto, Run, TypeOK
<1>3. CASE AcquireSlot(w)
  BY <1>1, <1>3 DEF TimerFires, At, AcquireSlot, Goto, Run, TypeOK
<1> QED
  BY <1>2, <1>3

\* Committing takes the stored record, skipped if it is too stale, and draws an
\* unused id for the successor exactly when the task recurs.
LEMMA CommitFields ==
  ASSUME TypeOK, NEW w \in Worker, Commit(w)
  PROVE  LET cur == store[worker[w].id] IN
         /\ cur \in Task /\ cur.status = "pending" /\ cur.executeAt = worker[w].task.executeAt
         /\ worker[w].pc = "reread"
         /\ worker'[w].fireTime = worker[w].fireTime
         /\ IF tooStale(worker[w].fireTime, cur)
              THEN worker'[w].pc = "finalize" /\ worker'[w].task = Skipped(cur)
              ELSE worker'[w].pc = "mark" /\ worker'[w].task = cur
         /\ IF Schedule[cur.content] > 0
              THEN worker'[w].next \in Id /\ Fresh(worker'[w].next)
              ELSE worker'[w].next = None
<1> DEFINE cur  == store[worker[w].id]
           skip == tooStale(worker[w].fireTime, cur)
           pc   == IF skip THEN "finalize" ELSE "mark"
           t    == IF skip THEN Skipped(cur) ELSE cur
           N    == IF Schedule[cur.content] > 0 THEN {id \in Id : Fresh(id)} ELSE {None}
<1>1. worker[w] \in Run
  BY WorkerMoves DEF WorkerStep
<1>2. /\ cur \in Task /\ cur.status = "pending" /\ cur.executeAt = worker[w].task.executeAt
      /\ worker[w].pc = "reread"
  BY <1>1 DEF Commit, At, Cancelled, Rescheduled, TypeOK, Run
<1>3. PICK next \in N : worker' = [worker EXCEPT ![w] =
                           [worker[w] EXCEPT !.pc = pc, !.task = t, !.next = next]]
  BY DEF Commit, Goto
<1> HIDE DEF pc, t, N
<1>4. worker'[w] = [worker[w] EXCEPT !.pc = pc, !.task = t, !.next = next]
  BY <1>3 DEF TypeOK
<1>5. /\ worker'[w].fireTime = worker[w].fireTime /\ worker'[w].pc = pc
      /\ worker'[w].task = t /\ worker'[w].next = next
  BY <1>1, <1>4 DEF Run
<1> QED
  BY <1>2, <1>3, <1>5 DEF pc, t, N

\* Marking the task running changes the copy's status only.
LEMMA MarkFields ==
  ASSUME TypeOK, NEW w \in Worker, MarkRunning(w)
  PROVE  /\ worker[w].pc = "mark" /\ worker'[w].pc = "execute"
         /\ worker'[w].fireTime = worker[w].fireTime
         /\ worker'[w].next = worker[w].next
         /\ worker'[w].task = [worker[w].task EXCEPT !.status = "running"]
<1> DEFINE t == [worker[w].task EXCEPT !.status = "running"]
<1>1. worker[w] \in Run
  BY WorkerMoves DEF WorkerStep
<1>2. worker'[w] = [worker[w] EXCEPT !.pc = "execute", !.task = t]
  BY DEF MarkRunning, Goto, TypeOK
<1> HIDE DEF t
<1>3. /\ worker'[w].pc = "execute" /\ worker'[w].fireTime = worker[w].fireTime
      /\ worker'[w].next = worker[w].next /\ worker'[w].task = t
  BY <1>1, <1>2 DEF Run
<1> QED
  BY <1>3 DEF t, MarkRunning, At

\* An attempt logs its outcome and either retries or finishes the copy.
LEMMA ExecuteFields ==
  ASSUME TypeOK, NEW w \in Worker, Execute(w)
  PROVE  /\ worker[w].pc = "execute"
         /\ worker'[w].fireTime = worker[w].fireTime
         /\ worker'[w].next = worker[w].next
         /\ \/ /\ worker'[w].pc = "execute"
               /\ worker'[w].task = Logged(worker[w].task, "fail")
            \/ /\ worker'[w].pc = "finalize"
               /\ worker'[w].task = Finished(Logged(worker[w].task, "ok"), "succeeded")
            \/ /\ worker'[w].pc = "finalize"
               /\ worker'[w].task = Finished(Logged(worker[w].task, "fail"), "failed")
<1> DEFINE r  == worker[w]
           t1 == Logged(r.task, "fail")
           t2 == Finished(Logged(r.task, "ok"), "succeeded")
           t3 == Finished(Logged(r.task, "fail"), "failed")
<1>1. r \in Run /\ r.pc = "execute"
  BY WorkerMoves DEF WorkerStep, Execute, At
<1>2. \/ worker'[w] = [r EXCEPT !.tries = r.tries + 1, !.task = t1]
      \/ worker'[w] = [r EXCEPT !.pc = "finalize", !.task = t2]
      \/ worker'[w] = [r EXCEPT !.pc = "finalize", !.task = t3]
  BY DEF Execute, Goto, TypeOK
<1> HIDE DEF t1, t2, t3
<1>3. CASE worker'[w] = [r EXCEPT !.tries = r.tries + 1, !.task = t1]
  BY <1>1, <1>3 DEF Run, t1
<1>4. CASE worker'[w] = [r EXCEPT !.pc = "finalize", !.task = t2]
  BY <1>1, <1>4 DEF Run, t2
<1>5. CASE worker'[w] = [r EXCEPT !.pc = "finalize", !.task = t3]
  BY <1>1, <1>5 DEF Run, t3
<1> QED
  BY <1>2, <1>3, <1>4, <1>5

\* Recording and notifying change the copy no more.
LEMMA EndFields ==
  ASSUME TypeOK, NEW w \in Worker, Finalize(w) \/ NotifyFailure(w)
  PROVE  /\ worker'[w].task = worker[w].task
         /\ worker'[w].fireTime = worker[w].fireTime
         /\ worker'[w].next = worker[w].next
         /\ worker[w].pc \in {"finalize", "notify"} /\ worker'[w].pc \in {"notify", "reschedule"}
<1>1. worker[w] \in Run
  BY WorkerMoves DEF WorkerStep
<1>2. PICK pc \in {"notify", "reschedule"} : worker'[w] = [worker[w] EXCEPT !.pc = pc]
  BY DEF Finalize, NotifyFailure, Goto, TypeOK
<1> QED
  BY <1>1, <1>2 DEF Run, Finalize, NotifyFailure, At

-----------------------------------------------------------------------------
(* The invariants of the goroutines, their claims and their slots.         *)

\* Only a dispatch, a goroutine's own step and a crash touch the goroutines,
\* the claims and the semaphore.
LEMMA Frame ==
  ASSUME TypeOK, [Next]_vars
  PROVE  \/ \E id \in Id, w \in Worker : Dispatch(id, w)
         \/ \E w \in Worker : WorkerStep(w)
         \/ Crash
         \/ UNCHANGED <<worker, inflight, slots>> /\ now' \in {now, now + 1}
BY DEF Next, RunnerStep, ApiStep, ProcessStep, GetDueTasks, SkipClaimed, CreateTask, UpdateTask,
       ReplayTask, DeleteTask, Load, Apply, DeleteTasks, Stop, Drain, Exit, Restart, Advance,
       Expire, vars

\* Runner.claim keeps its promise over every step.
LEMMA ClaimInductive ==
  ASSUME TypeOK, ClaimExclusive, [Next]_vars
  PROVE  ClaimExclusive'
<1> USE ConstantsAssumption, NoneAssumption
<1>1. ASSUME NEW id \in Id, NEW w \in Worker, Dispatch(id, w) PROVE ClaimExclusive'
  <2>1. id \notin inflight /\ worker[w] = None
    BY <1>1 DEF Dispatch, claim
  <2>2. PICK q \in Run : q.id = id /\ worker' = [worker EXCEPT ![w] = q]
    BY <1>1 DEF Dispatch, TypeOK, Run, Pc
  <2> QED
    BY <1>1, <2>1, <2>2 DEF ClaimExclusive, TypeOK, Dispatch
<1>2. ASSUME NEW w \in Worker, WorkerStep(w) PROVE ClaimExclusive'
  <2>1. CASE Return(w)
    BY <1>2, <2>1, WorkerMoves DEF ClaimExclusive, Return, Goto, TypeOK, Run
  <2>2. CASE ~Return(w)
    <3>1. PICK q : Goto(w, q) /\ MovesOn(worker[w], q) /\ inflight' = inflight
      BY <1>2, <2>2, WorkerMoves
    <3> QED
      BY <1>2, <3>1, WorkerMoves DEF ClaimExclusive, Goto, MovesOn, TypeOK
  <2> QED
    BY <2>1, <2>2
<1>3. CASE Crash
  BY <1>3 DEF ClaimExclusive, Crash
<1>4. CASE UNCHANGED <<worker, inflight, slots>>
  BY <1>4 DEF ClaimExclusive
<1> QED
  BY <1>1, <1>2, <1>3, <1>4, Frame

\* Runner.sem keeps its promise over every step.
LEMMA SlotInductive ==
  ASSUME TypeOK, SlotBound, [Next]_vars
  PROVE  SlotBound'
<1> USE ConstantsAssumption, NoneAssumption
<1>1. ASSUME NEW id \in Id, NEW w \in Worker, Dispatch(id, w) PROVE SlotBound'
  <2>1. PICK q \in Run : q.pc = "timer" /\ worker' = [worker EXCEPT ![w] = q]
    BY <1>1 DEF Dispatch, TypeOK, Run, Pc
  <2> QED
    BY <1>1, <2>1 DEF SlotBound, TypeOK, Dispatch
<1>2. ASSUME NEW w \in Worker, WorkerStep(w) PROVE SlotBound'
  <2>1. worker[w] \in Run
    BY <1>2, WorkerMoves
  <2>2. CASE Return(w)
    <3>1. IsFiniteSet(slots) /\ Cardinality(slots) \in Nat /\ Cardinality(slots) <= MaxConcurrent
      BY FS_CardinalityType DEF SlotBound
    <3>2. /\ IsFiniteSet(slots \ {w})
          /\ Cardinality(slots \ {w}) =
               IF w \in slots THEN Cardinality(slots) - 1 ELSE Cardinality(slots)
      BY <3>1, FS_RemoveElement
    <3>3. IsFiniteSet(slots') /\ Cardinality(slots') <= MaxConcurrent
      BY <2>2, <3>1, <3>2 DEF Return
    <3> QED
      BY <2>1, <2>2, <3>3 DEF SlotBound, Return, Goto, TypeOK
  <2>3. CASE AcquireSlot(w)
    <3>1. IsFiniteSet(slots) /\ Cardinality(slots) \in Nat /\ Cardinality(slots) < MaxConcurrent
      BY <2>3, FS_CardinalityType DEF SlotBound, AcquireSlot, SlotFree
    <3>2. /\ IsFiniteSet(slots \cup {w})
          /\ Cardinality(slots \cup {w}) =
               IF w \in slots THEN Cardinality(slots) ELSE Cardinality(slots) + 1
      BY <3>1, FS_AddElement
    <3>3. IsFiniteSet(slots') /\ Cardinality(slots') <= MaxConcurrent
      BY <2>3, <3>1, <3>2 DEF AcquireSlot
    <3>4. PICK q : Goto(w, q) /\ MovesOn(worker[w], q)
      BY <1>2, <2>3, WorkerMoves DEF AcquireSlot, At, Return, Goto
    <3>5. q \in Run /\ q.pc = "reread" /\ worker' = [worker EXCEPT ![w] = q]
      BY <2>3, <3>4 DEF AcquireSlot, At, Goto, MovesOn, Flow
    <3> QED
      BY <2>1, <2>3, <3>3, <3>5 DEF SlotBound, AcquireSlot, TypeOK
  <2>4. CASE ~Return(w) /\ ~AcquireSlot(w)
    <3>1. PICK q : Goto(w, q) /\ MovesOn(worker[w], q)
      BY <1>2, <2>4, WorkerMoves
    <3>2. slots' = slots /\ worker[w].pc # "slot"
      BY <1>2, <2>4 DEF WorkerStep, TimerFires, Abort, DropRun, Commit, MarkRunning,
            Execute, Finalize, NotifyFailure, Reschedule, At
    <3>3. q \in Run /\ (q.pc \in {"timer", "slot"} <=> worker[w].pc \in {"timer", "slot"})
      BY <3>1, <3>2 DEF MovesOn, Flow
    <3> QED
      BY <2>1, <3>1, <3>2, <3>3 DEF SlotBound, Goto, TypeOK
  <2> QED
    BY <2>2, <2>3, <2>4
<1>3. CASE Crash
  BY <1>3, FS_EmptySet DEF SlotBound, Crash
<1>4. CASE UNCHANGED <<worker, inflight, slots>>
  BY <1>4 DEF SlotBound
<1> QED
  BY <1>1, <1>2, <1>3, <1>4, Frame

\* A goroutine other than the one that moves stays where it is.
LEMMA OthersStay ==
  ASSUME TypeOK, NEW w \in Worker, WorkerStep(w), NEW v \in Worker, v # w
  PROVE  worker'[v] = worker[v]
BY WorkerMoves DEF Return, Goto, TypeOK

\* A goroutine that does not end moves on.
LEMMA Survivor ==
  ASSUME TypeOK, NEW w \in Worker, WorkerStep(w), worker'[w] # None
  PROVE  /\ ~Return(w)
         /\ MovesOn(worker[w], worker'[w])
         /\ worker[w] \in Run
         /\ \/ TimerFires(w) \/ AcquireSlot(w) \/ Commit(w) \/ MarkRunning(w)
            \/ Execute(w) \/ Finalize(w) \/ NotifyFailure(w)
<1>1. ~Return(w)
  BY DEF Return, Goto, TypeOK
<1>2. MovesOn(worker[w], worker'[w])
  BY <1>1, WorkerMoves DEF Goto, TypeOK
<1> QED
  BY <1>1, <1>2, WorkerMoves DEF WorkerStep, Abort, DropRun, Reschedule

\* No request before its time, but for the skew of the timer, and none in a run
\* that got its slot after the staleness limit.
LEMMA TimelyInductive ==
  ASSUME TypeOK, Timely, [Next]_vars
  PROVE  Timely'
<1> USE ConstantsAssumption, NoneAssumption
<1>1. ASSUME NEW id \in Id, NEW w \in Worker, Dispatch(id, w) PROVE Timely'
  <2>1. PICK q \in Run : q.pc = "timer" /\ worker' = [worker EXCEPT ![w] = q]
    BY <1>1 DEF Dispatch, TypeOK, Run, Pc
  <2> QED
    BY <1>1, <2>1 DEF Timely, TypeOK, Dispatch
<1>2. ASSUME NEW w \in Worker, WorkerStep(w) PROVE Timely'
  <2>1. now' = now /\ now \in Nat
    BY <1>2 DEF TypeOK, WorkerStep, TimerFires, Abort, AcquireSlot, DropRun, Commit, MarkRunning,
            Execute, Finalize, NotifyFailure, Reschedule
  <2> SUFFICES ASSUME NEW v \in Worker, worker'[v] # None
               PROVE  LET r == worker'[v] IN
                      /\ r.pc # "timer" => r.task.executeAt <= now + TimerSkew
                      /\ r.pc \notin {"timer", "slot"} =>
                           r.task.executeAt <= r.fireTime + TimerSkew /\ r.fireTime <= now
                      /\ r.pc \in {"mark", "execute"} /\ MaxStaleness > 0 =>
                           r.fireTime - r.task.executeAt <= MaxStaleness
    BY <2>1 DEF Timely
  <2>2. CASE v # w
    BY <1>2, <2>2, OthersStay DEF Timely
  <2>3. CASE v = w
    <3>1. worker[w] \in Run /\ worker[w].task \in Task /\ MovesOn(worker[w], worker'[w])
      BY <1>2, <2>3, Survivor DEF Run
    <3>2. CASE TimerFires(w) \/ AcquireSlot(w)
      <4>1. worker[w].task.executeAt <= now + TimerSkew
        BY <3>1, <3>2 DEF Timely, TimerFires, AcquireSlot, At, Run, Task
      <4>2. /\ worker'[w].task = worker[w].task /\ worker'[w].pc \in {"slot", "reread"}
            /\ worker'[w].pc = "reread" => worker'[w].fireTime = now
        BY <3>2, WaitFields
      <4>3. now <= now
        BY <2>1
      <4> QED
        BY <2>3, <4>1, <4>2, <4>3
    <3>3. CASE Commit(w)
      <4>1. /\ worker[w].task.executeAt <= now + TimerSkew
            /\ worker[w].task.executeAt <= worker[w].fireTime + TimerSkew
            /\ worker[w].fireTime <= now
        BY <3>1, <3>3, CommitFields DEF Timely
      <4> DEFINE cur == store[worker[w].id]
      <4>2. cur \in Task /\ cur.executeAt = worker[w].task.executeAt
        BY <3>3, CommitFields
      <4>3. Skipped(cur).executeAt = cur.executeAt
        BY <4>2, TaskFields
      <4>4. worker'[w].task.executeAt = worker[w].task.executeAt
        BY <3>3, <4>2, <4>3, CommitFields
      <4>5. worker'[w].pc = "mark" => ~tooStale(worker[w].fireTime, cur)
        BY <3>3, CommitFields
      <4>6. worker'[w].fireTime = worker[w].fireTime /\ worker'[w].pc \in {"mark", "finalize"}
        BY <3>3, CommitFields
      <4>7. worker[w].fireTime \in Nat /\ worker[w].task.executeAt \in Nat
        BY <3>1 DEF Run, Task
      <4> QED
        BY <2>3, <4>1, <4>2, <4>4, <4>5, <4>6, <4>7 DEF tooStale
    <3>4. CASE MarkRunning(w)
      <4>1. worker'[w].task.executeAt = worker[w].task.executeAt
        BY <3>1, <3>4, MarkFields DEF Task
      <4> QED
        BY <2>3, <3>1, <3>4, <4>1, MarkFields DEF Timely
    <3>5. CASE Execute(w)
      <4>1. worker'[w].task.executeAt = worker[w].task.executeAt
        <5> DEFINE t == worker[w].task
        <5>1. ASSUME NEW o \in Outcome, NEW st \in Status
              PROVE  /\ Logged(t, o).executeAt = t.executeAt
                     /\ Finished(Logged(t, o), st).executeAt = t.executeAt
          BY <3>1, TaskFields, LoggedTask
        <5> QED
          BY <3>5, <5>1, ExecuteFields DEF Outcome, Status
      <4> QED
        BY <2>3, <3>1, <3>5, <4>1, ExecuteFields DEF Timely
    <3>6. CASE Finalize(w) \/ NotifyFailure(w)
      BY <2>3, <3>1, <3>6, EndFields DEF Timely
    <3> QED
      BY <1>2, <2>3, <3>2, <3>3, <3>4, <3>5, <3>6, Survivor
  <2> QED
    BY <2>2, <2>3
<1>3. CASE Crash
  BY <1>3 DEF Timely, Crash
<1>4. CASE UNCHANGED <<worker, inflight, slots>> /\ now' \in {now, now + 1}
  <2>1. now \in Nat /\ now' \in Nat /\ now <= now' /\ TimerSkew \in Nat /\ worker' = worker
    BY <1>4 DEF TypeOK
  <2>2. ASSUME NEW w \in Worker, worker[w] # None
        PROVE  LET r == worker[w] IN
               /\ r.task.executeAt <= now + TimerSkew => r.task.executeAt <= now' + TimerSkew
               /\ r.fireTime <= now => r.fireTime <= now'
    <3>1. worker[w].task.executeAt \in Nat /\ worker[w].fireTime \in Nat
      BY <2>2 DEF TypeOK, Run, Task
    <3> QED
      BY <2>1, <3>1
  <2> QED
    BY <2>1, <2>2 DEF Timely
<1> QED
  BY <1>1, <1>2, <1>3, <1>4, Frame

\* The state properties about time follow.
LEMMA TimelyImpliesFireWindow == TypeOK /\ Timely => FireWindow
<1> SUFFICES ASSUME TypeOK, Timely, NEW w \in Worker, worker[w] # None,
                    worker[w].pc \in {"mark", "execute"}
             PROVE  LET r == worker[w] IN
                      /\ r.task.executeAt <= r.fireTime + TimerSkew /\ r.fireTime <= now
                      /\ MaxStaleness > 0 => r.fireTime - r.task.executeAt <= MaxStaleness
  BY DEF FireWindow
<1>1. worker[w].fireTime \in Nat /\ worker[w].task.executeAt \in Nat
  BY DEF TypeOK, Run, Task
<1> QED
  BY <1>1 DEF Timely

-----------------------------------------------------------------------------
(* Ids.                                                                    *)

\* Nothing but a save brings a new id into the system.
LEMMA UnsavedInductive ==
  ASSUME TypeOK, UnsavedUnknown, SuccessorReserved, [Next]_vars
  PROVE  UnsavedUnknown'
<1> USE ConstantsAssumption, NoneAssumption
<1>1. CASE GetDueTasks
  BY <1>1 DEF UnsavedUnknown, TypeOK, GetDueTasks, Due, history
<1>2. ASSUME NEW id \in Id, NEW w \in Worker, Dispatch(id, w) PROVE UnsavedUnknown'
  <2>1. PICK q \in Run : q.id = id /\ worker' = [worker EXCEPT ![w] = q]
    BY <1>2 DEF Dispatch, TypeOK, Run, Pc
  <2>2. arms[id] # 0
    BY <1>2 DEF Dispatch, UnsavedUnknown
  <2> QED
    BY <1>2, <2>1, <2>2 DEF UnsavedUnknown, TypeOK, Dispatch, history
<1>3. ASSUME NEW id \in Id, SkipClaimed(id) PROVE UnsavedUnknown'
  BY <1>3 DEF UnsavedUnknown, TypeOK, SkipClaimed, history
<1>4. ASSUME NEW w \in Worker, WorkerStep(w) PROVE UnsavedUnknown'
  <2>1. worker[w] \in Run /\ worker[w].id \in Id /\ worker[w] # None
    BY <1>4, WorkerMoves DEF Run
  <2>2. arms[worker[w].id] # 0
    BY <2>1 DEF UnsavedUnknown
  <2>3. \A v \in Worker : worker'[v] # None => worker[v] # None /\ worker'[v].id = worker[v].id
    BY <1>4, <2>1, OthersStay, Survivor DEF MovesOn
  <2>4. CASE TimerFires(w) \/ Abort(w) \/ AcquireSlot(w) \/ NotifyFailure(w)
    BY <2>3, <2>4 DEF UnsavedUnknown, TimerFires, Abort, AcquireSlot, NotifyFailure, history
  <2>5. CASE DropRun(w)
    BY <2>3, <2>5 DEF UnsavedUnknown, DropRun, StoreError, history
  <2>6. CASE Commit(w)
    BY <2>1, <2>2, <2>3, <2>6 DEF UnsavedUnknown, TypeOK, Commit
  <2>7. CASE MarkRunning(w)
    BY <2>1, <2>2, <2>3, <2>7 DEF UnsavedUnknown, TypeOK, MarkRunning, Put, StoreError, history
  <2>8. CASE Execute(w)
    BY <2>3, <2>8 DEF UnsavedUnknown, Execute
  <2>9. CASE Finalize(w)
    BY <2>1, <2>2, <2>3, <2>9 DEF UnsavedUnknown, TypeOK, Finalize, Put, StoreError, history
  <2>10. CASE Reschedule(w)
    <3>1. UNCHANGED <<batch, client, runs>>
      BY <2>10 DEF Reschedule
    <3>2. CASE UNCHANGED <<store, arms>>
      BY <2>3, <3>1, <3>2 DEF UnsavedUnknown
    <3>3. ASSUME NEW t, Put(worker[w].next, t), arms' = [arms EXCEPT ![worker[w].next] = 1]
          PROVE  UnsavedUnknown'
      BY <2>3, <3>1, <3>3 DEF UnsavedUnknown, TypeOK, Put
    <3> QED
      BY <2>10, <3>2, <3>3 DEF Reschedule, StoreError
  <2> QED
    BY <1>4, <2>4, <2>5, <2>6, <2>7, <2>8, <2>9, <2>10 DEF WorkerStep
<1>5. ASSUME NEW id \in Id, NEW c \in Content, NEW at \in 1..MaxTime, CreateTask(id, c, at)
      PROVE UnsavedUnknown'
  BY <1>5 DEF UnsavedUnknown, TypeOK, CreateTask, Put
<1>6. ASSUME NEW c \in Client, NEW id \in Id, NEW t, Load(c, id, t), store[id] # None
      PROVE  UnsavedUnknown'
  <2>1. arms[id] # 0
    BY <1>6 DEF UnsavedUnknown
  <2> QED
    BY <1>6, <2>1 DEF UnsavedUnknown, TypeOK, Load, history
<1>7. ASSUME NEW c \in Client, Apply(c) PROVE UnsavedUnknown'
  <2>1. client[c] \in Call /\ client[c].id \in Id /\ arms[client[c].id] # 0
    BY <1>7 DEF Apply, TypeOK, Call, UnsavedUnknown
  <2>2. \A id \in Id : arms'[id] = 0 => arms[id] = 0 /\ id # client[c].id
    BY <1>7, <2>1 DEF Apply, TypeOK
  <2>3. \A id \in Id : id # client[c].id => store'[id] = store[id]
    BY <1>7, <2>1 DEF Apply, TypeOK, Put, StoreError
  <2> QED
    BY <1>7, <2>2, <2>3 DEF UnsavedUnknown, TypeOK, Apply
<1>8. ASSUME NEW f \in Filter, DeleteTasks(f) PROVE UnsavedUnknown'
  BY <1>8 DEF UnsavedUnknown, TypeOK, DeleteTasks, history
<1>9. CASE Stop \/ Drain \/ Exit \/ Crash \/ Advance
  BY <1>9 DEF UnsavedUnknown, Stop, Drain, Exit, Crash, NoBatch, Advance, history
<1>10. CASE Restart
  BY <1>10 DEF UnsavedUnknown, Restart, RecoverRunning, StoreError, history
<1>11. ASSUME NEW id \in Id, Expire(id) PROVE UnsavedUnknown'
  BY <1>11 DEF UnsavedUnknown, TypeOK, Expire, history
<1>12. CASE UNCHANGED vars
  BY <1>12 DEF UnsavedUnknown, vars
<1> QED
  BY <1>1, <1>2, <1>3, <1>4, <1>5, <1>6, <1>7, <1>8, <1>9, <1>10, <1>11, <1>12
     DEF Next, RunnerStep, ApiStep, ProcessStep, UpdateTask, ReplayTask, DeleteTask

\* The id drawn for a successor stays reserved until the successor is saved.
LEMMA ReservedInductive ==
  ASSUME TypeOK, UnsavedUnknown, SuccessorReserved, [Next]_vars
  PROVE  SuccessorReserved'
<1> USE ConstantsAssumption, NoneAssumption
<1>1. ASSUME NEW id \in Id, NEW w \in Worker, Dispatch(id, w) PROVE SuccessorReserved'
  <2>1. PICK q \in Run : q.pc = "timer" /\ q.next = None /\ worker' = [worker EXCEPT ![w] = q]
    BY <1>1 DEF Dispatch, TypeOK, Run, Pc
  <2>2. worker[w] = None /\ arms' = arms
    BY <1>1 DEF Dispatch, history
  <2> QED
    BY <2>1, <2>2 DEF SuccessorReserved, TypeOK
<1>2. ASSUME NEW w \in Worker, WorkerStep(w), Return(w) PROVE SuccessorReserved'
  <2>1. worker[w] \in Run /\ worker' = [worker EXCEPT ![w] = None]
    BY <1>2, WorkerMoves DEF Return, Goto
  <2>2. arms' = arms \/ arms' = [arms EXCEPT ![worker[w].next] = 1]
    BY <1>2 DEF WorkerStep, TimerFires, Abort, AcquireSlot, DropRun, Commit, MarkRunning,
            Execute, Finalize, NotifyFailure, Reschedule, history
  <2>3. ASSUME NEW v \in Worker, worker'[v] # None, worker[v].next # None
        PROVE  arms'[worker[v].next] = arms[worker[v].next]
    <3>1. v # w /\ worker[v] # None /\ worker[v].next \in Id
      BY <2>1, <2>3 DEF TypeOK, Run
    <3>2. worker[v].next # worker[w].next
      BY <2>1, <2>3, <3>1 DEF SuccessorReserved
    <3> QED
      BY <2>2, <3>1, <3>2 DEF TypeOK
  <2> QED
    BY <2>1, <2>3 DEF SuccessorReserved, TypeOK
<1>3. ASSUME NEW w \in Worker, WorkerStep(w), ~Return(w) PROVE SuccessorReserved'
  <2>1. /\ worker[w] \in Run /\ worker[w].task \in Task /\ worker[w] # None
        /\ MovesOn(worker[w], worker'[w]) /\ worker'[w] # None
    <3>1. PICK q : Goto(w, q) /\ MovesOn(worker[w], q)
      BY <1>3, WorkerMoves
    <3>2. worker'[w] = q /\ q \in Run
      BY <3>1 DEF Goto, TypeOK, MovesOn
    <3>3. worker[w] \in Run /\ worker[w].task \in Task
      BY <1>3, WorkerMoves DEF Run
    <3> QED
      BY <3>1, <3>2, <3>3
  <2>2. arms' = arms
    BY <1>3 DEF WorkerStep, TimerFires, Abort, AcquireSlot, DropRun, Commit, MarkRunning,
            Execute, Finalize, NotifyFailure, Reschedule, history
  <2>3. CASE ~Commit(w)
    <3>1. worker'[w].next = worker[w].next
      BY <1>3, <2>1, <2>3, Survivor, WaitFields, MarkFields, ExecuteFields, EndFields
    <3>2. worker'[w].pc \in {"timer", "slot", "reread"} <=> worker[w].pc \in {"timer", "slot", "reread"}
      <4>1. worker[w].pc # "reread"
        BY <1>3, <2>1, <2>3, Survivor DEF TimerFires, AcquireSlot, MarkRunning, Execute,
              Finalize, NotifyFailure, At
      <4> QED
        BY <2>1, <4>1 DEF MovesOn, Flow
    <3>3. worker[w].pc \notin {"timer", "slot", "reread"} =>
            worker'[w].task.content = worker[w].task.content
      <4>1. CASE TimerFires(w) \/ AcquireSlot(w) \/ Finalize(w) \/ NotifyFailure(w)
        BY <4>1, WaitFields, EndFields
      <4>2. CASE MarkRunning(w)
        BY <2>1, <4>2, MarkFields DEF Task
      <4>3. CASE Execute(w)
        <5> DEFINE t == worker[w].task
        <5>1. ASSUME NEW o \in Outcome, NEW st \in Status
              PROVE  /\ Logged(t, o).content = t.content
                     /\ Finished(Logged(t, o), st).content = t.content
          BY <2>1, TaskFields, LoggedTask
        <5> QED
          BY <4>3, <5>1, ExecuteFields DEF Outcome, Status
      <4> QED
        BY <1>3, <2>1, <2>3, <4>1, <4>2, <4>3, Survivor
    <3>4. \A v \in Worker : v # w => worker'[v] = worker[v]
      BY <1>3, OthersStay
    <3> QED
      BY <2>1, <2>2, <3>1, <3>2, <3>3, <3>4 DEF SuccessorReserved
  <2>4. CASE Commit(w)
    <3> DEFINE cur == store[worker[w].id]
               next == worker'[w].next
    <3>1. /\ worker'[w].pc \in {"mark", "finalize"}
          /\ worker'[w].task.content = cur.content
      <4>1. Skipped(cur).content = cur.content
        BY <2>4, CommitFields, TaskFields
      <4> QED
        BY <2>4, <4>1, CommitFields
    <3>2. IF Schedule[cur.content] > 0 THEN next \in Id /\ Fresh(next) ELSE next = None
      BY <2>4, CommitFields
    <3>3. \A v \in Worker : v # w => worker'[v] = worker[v]
      BY <1>3, OthersStay
    <3>4. next # None => arms'[next] = 0 /\ \A v \in Worker : worker'[v] # None /\ worker'[v].next = next => v = w
      BY <2>2, <3>2, <3>3 DEF Fresh
    <3> HIDE DEF next
    <3>5. ASSUME NEW v \in Worker, v # w, worker[v] # None, worker[v].next # None
          PROVE  worker[v].next # worker'[w].next
      BY <3>2, <3>5 DEF Fresh, next
    <3> QED
      BY <2>1, <2>2, <3>1, <3>2, <3>3, <3>4, <3>5 DEF SuccessorReserved, next
  <2> QED
    BY <2>3, <2>4
<1>4. ASSUME NEW id \in Id, NEW c \in Content, NEW at \in 1..MaxTime, CreateTask(id, c, at)
      PROVE SuccessorReserved'
  BY <1>4 DEF SuccessorReserved, TypeOK, CreateTask, Fresh, Run
<1>5. ASSUME NEW c \in Client, Apply(c) PROVE SuccessorReserved'
  <2>1. client[c].id \in Id /\ arms[client[c].id] # 0
    BY <1>5 DEF Apply, TypeOK, Call, UnsavedUnknown
  <2>2. \A id \in Id : arms[id] = 0 => arms'[id] = 0
    BY <1>5, <2>1 DEF Apply, TypeOK
  <2>3. worker' = worker /\ \A w \in Worker : worker[w] # None => worker[w].next \in Id \cup {None}
    BY <1>5 DEF Apply, TypeOK, Run
  <2> QED
    BY <2>2, <2>3 DEF SuccessorReserved
<1>6. CASE Crash
  BY <1>6 DEF SuccessorReserved, Crash
<1>7. CASE UNCHANGED <<worker, arms>>
  BY <1>7 DEF SuccessorReserved
<1>8. \/ \E id \in Id, w \in Worker : Dispatch(id, w)
      \/ \E w \in Worker : WorkerStep(w)
      \/ \E id \in Id, c \in Content, at \in 1..MaxTime : CreateTask(id, c, at)
      \/ \E c \in Client : Apply(c)
      \/ Crash
      \/ UNCHANGED <<worker, arms>>
  BY DEF Next, RunnerStep, ApiStep, ProcessStep, GetDueTasks, SkipClaimed, UpdateTask, ReplayTask,
         DeleteTask, Load, DeleteTasks, Stop, Drain, Exit, Restart, Advance, Expire, vars, history
<1> QED
  BY <1>1, <1>2, <1>3, <1>4, <1>5, <1>6, <1>7, <1>8

-----------------------------------------------------------------------------
(* Records.                                                                *)

\* What the record operators do to a record's consistency.
LEMMA ConsistentOps ==
  ASSUME NEW t \in Task
  PROVE  /\ Consistent(Finished(t, "cancelled"))
         /\ Consistent(Finished(Logged(t, "ok"), "succeeded"))
         /\ Consistent(Finished(Logged(t, "fail"), "failed"))
         /\ Consistent(Skipped(t))
         /\ Consistent(Replayed(t))
         /\ \A f : Consistent(Successor(t, f))
         /\ Consistent(t) => \A c, at : Consistent(Updated(t, c, at))
<1>1. t.attempts \in Seq(Outcome)
  BY DEF Task
<1>2. \A o \in Outcome : Append(t.attempts, o) # << >> /\ Last(Append(t.attempts, o)) = o
  BY <1>1 DEF Last
<1>3. Consistent(Finished(t, "cancelled"))
  BY DEF Finished, Consistent, IsTerminal, Task
<1>4. \A o \in Outcome : Logged(t, o) \in Task /\ Logged(t, o).attempts = Append(t.attempts, o)
  BY LoggedTask DEF Logged, Task
<1>5. Consistent(Finished(Logged(t, "ok"), "succeeded"))
  BY <1>2, <1>4 DEF Finished, Consistent, IsTerminal, Task, Outcome
<1>6. Consistent(Finished(Logged(t, "fail"), "failed"))
  BY <1>2, <1>4 DEF Finished, Consistent, IsTerminal, Task, Outcome
<1>7. Consistent(Skipped(t))
  BY <1>2 DEF Skipped, Consistent, IsTerminal, Task, Outcome
<1>8. Consistent(Replayed(t)) /\ \A f : Consistent(Successor(t, f))
  BY DEF Replayed, Successor, Consistent, IsTerminal, Task
<1>9. Consistent(t) => \A c, at : Consistent(Updated(t, c, at))
  BY DEF Updated, Consistent, Task
<1> QED
  BY <1>3, <1>5, <1>6, <1>7, <1>8, <1>9

\* An unfinished status and no finished_at make any record consistent.
LEMMA UnfinishedConsistent ==
  ASSUME NEW t \in Task, NEW s \in {"pending", "running"}, ~t.finished
  PROVE  Consistent([t EXCEPT !.status = s]) /\ ~[t EXCEPT !.status = s].finished
         /\ [t EXCEPT !.status = s].status = s
BY DEF Consistent, IsTerminal, Task

\* A handler always holds a consistent record.
LEMMA HandlersInductive ==
  ASSUME TypeOK, RecordConsistent, HandlerCopies, [Next]_vars
  PROVE  HandlerCopies'
<1> USE ConstantsAssumption, NoneAssumption
<1>1. ASSUME NEW c \in Client, NEW id \in Id, NEW t, Load(c, id, t),
             Consistent(t), t.status \in {"pending", "cancelled"}
      PROVE  HandlerCopies'
  <2>1. client' = [client EXCEPT ![c] = [id |-> id, task |-> t]]
    BY <1>1 DEF Load
  <2> QED
    BY <1>1, <2>1 DEF HandlerCopies, TypeOK
<1>2. ASSUME NEW c \in Client, NEW id \in Id, NEW content \in Content, NEW at \in 1..MaxTime,
             UpdateTask(c, id, content, at)
      PROVE  HandlerCopies'
  <2>1. store[id] \in Task /\ Consistent(store[id]) /\ store[id].status = "pending"
    BY <1>2 DEF UpdateTask, TypeOK, RecordConsistent
  <2>2. Updated(store[id], content, at).status = "pending"
    BY <2>1 DEF Updated, Task
  <2> QED
    BY <1>1, <1>2, <2>1, <2>2, ConsistentOps DEF UpdateTask
<1>3. ASSUME NEW c \in Client, NEW id \in Id, ReplayTask(c, id) PROVE HandlerCopies'
  <2>1. store[id] \in Task
    BY <1>3 DEF ReplayTask, TypeOK
  <2>2. Replayed(store[id]).status = "pending"
    BY <2>1 DEF Replayed, Task
  <2> QED
    BY <1>1, <1>3, <2>1, <2>2, ConsistentOps DEF ReplayTask
<1>4. ASSUME NEW c \in Client, NEW id \in Id, DeleteTask(c, id) PROVE HandlerCopies'
  <2>1. store[id] \in Task
    BY <1>4 DEF DeleteTask, TypeOK
  <2>2. Finished(store[id], "cancelled").status = "cancelled"
    BY <2>1 DEF Finished, Task
  <2> QED
    BY <1>1, <1>4, <2>1, <2>2, ConsistentOps DEF DeleteTask
<1>5. ASSUME NEW c \in Client, Apply(c) PROVE HandlerCopies'
  BY <1>5 DEF HandlerCopies, TypeOK, Apply
<1>6. CASE Crash \/ Exit
  BY <1>6 DEF HandlerCopies, Crash, Exit
<1>7. CASE client' = client
  BY <1>7 DEF HandlerCopies
<1>8. \/ \E c \in Client, id \in Id : \/ ReplayTask(c, id) \/ DeleteTask(c, id)
                                    \/ \E content \in Content, at \in 1..MaxTime :
                                         UpdateTask(c, id, content, at)
      \/ \E c \in Client : Apply(c)
      \/ Crash \/ Exit
      \/ client' = client
  BY DEF Next, RunnerStep, ApiStep, ProcessStep, GetDueTasks, SkipClaimed, Dispatch, WorkerStep,
         TimerFires, Abort, AcquireSlot, DropRun, Commit, MarkRunning, Execute, Finalize,
         NotifyFailure, Reschedule, CreateTask, DeleteTasks, Stop, Drain, Restart, Advance, Expire, vars
<1> QED
  BY <1>2, <1>3, <1>4, <1>5, <1>6, <1>7, <1>8

\* A goroutine's copy follows its run.
LEMMA GoroutinesInductive ==
  ASSUME TypeOK, RecordConsistent, GoroutineCopies, [Next]_vars
  PROVE  GoroutineCopies'
<1> USE ConstantsAssumption, NoneAssumption
<1>1. ASSUME NEW id \in Id, NEW w \in Worker, Dispatch(id, w) PROVE GoroutineCopies'
  <2>1. PICK q \in Run : q.pc = "timer" /\ worker' = [worker EXCEPT ![w] = q]
    BY <1>1 DEF Dispatch, TypeOK, Run, Pc
  <2> QED
    BY <2>1 DEF GoroutineCopies, TypeOK
<1>2. ASSUME NEW w \in Worker, WorkerStep(w) PROVE GoroutineCopies'
  <2> SUFFICES ASSUME NEW v \in Worker, worker'[v] # None
               PROVE  LET r == worker'[v] IN
                      /\ r.pc = "mark" => r.task.status = "pending" /\ ~r.task.finished
                      /\ r.pc = "execute" => r.task.status = "running" /\ ~r.task.finished
                      /\ r.pc \in {"finalize", "notify", "reschedule"} =>
                           Consistent(r.task) /\ r.task.status \in {"succeeded", "failed"}
    BY DEF GoroutineCopies
  <2>1. CASE v # w
    BY <1>2, <2>1, OthersStay DEF GoroutineCopies
  <2>2. CASE v = w
    <3>1. worker[w] \in Run /\ worker[w].task \in Task
      BY <1>2, <2>2, Survivor DEF Run
    <3>2. CASE TimerFires(w) \/ AcquireSlot(w)
      BY <2>2, <3>2, WaitFields
    <3>3. CASE Commit(w)
      <4> DEFINE cur == store[worker[w].id]
      <4>1. cur \in Task /\ cur.status = "pending" /\ ~cur.finished
        <5>1. cur \in Task /\ cur.status = "pending" /\ worker[w].id \in Id
          BY <3>1, <3>3, CommitFields DEF Run
        <5>2. cur # None
          BY <5>1, NoneAssumption
        <5>3. Consistent(cur)
          BY <5>1, <5>2 DEF RecordConsistent
        <5> QED
          BY <5>1, <5>3 DEF Consistent, IsTerminal
      <4>2. Consistent(Skipped(cur)) /\ Skipped(cur).status = "failed"
        BY <4>1, ConsistentOps DEF Skipped, Task
      <4> QED
        BY <2>2, <3>3, <4>1, <4>2, CommitFields
    <3>4. CASE MarkRunning(w)
      <4>1. ~worker[w].task.finished
        BY <3>1, <3>4, MarkFields DEF GoroutineCopies
      <4> DEFINE t == [worker[w].task EXCEPT !.status = "running"]
      <4>2. t.status = "running" /\ ~t.finished
        BY <3>1, <4>1 DEF Task
      <4> QED
        BY <2>2, <3>4, <4>2, MarkFields
    <3>5. CASE Execute(w)
      <4> DEFINE t == worker[w].task
      <4>1. t.status = "running" /\ ~t.finished
        BY <3>1, <3>5, ExecuteFields DEF GoroutineCopies
      <4>2. Logged(t, "fail").status = "running" /\ ~Logged(t, "fail").finished
        BY <3>1, <4>1 DEF Logged, Task
      <4>3. /\ Finished(Logged(t, "ok"), "succeeded").status = "succeeded"
            /\ Finished(Logged(t, "fail"), "failed").status = "failed"
        BY <3>1, LoggedTask DEF Finished, Task, Outcome
      <4>4. /\ Consistent(Finished(Logged(t, "ok"), "succeeded"))
            /\ Consistent(Finished(Logged(t, "fail"), "failed"))
        BY <3>1, ConsistentOps
      <4> QED
        BY <2>2, <3>5, <4>2, <4>3, <4>4, ExecuteFields
    <3>6. CASE Finalize(w) \/ NotifyFailure(w)
      BY <2>2, <3>1, <3>6, EndFields DEF GoroutineCopies
    <3> QED
      BY <1>2, <2>2, <3>2, <3>3, <3>4, <3>5, <3>6, Survivor
  <2> QED
    BY <2>1, <2>2
<1>3. CASE Crash
  BY <1>3 DEF GoroutineCopies, Crash
<1>4. CASE UNCHANGED <<worker, inflight, slots>>
  BY <1>4 DEF GoroutineCopies
<1> QED
  BY <1>1, <1>2, <1>3, <1>4, Frame

\* The steps that write the store.
LEMMA StoreWriters ==
  ASSUME [Next]_vars
  PROVE  \/ \E w \in Worker : MarkRunning(w) \/ Finalize(w) \/ Reschedule(w)
         \/ \E id \in Id, c \in Content, at \in 1..MaxTime : CreateTask(id, c, at)
         \/ \E c \in Client : Apply(c)
         \/ \E f \in Filter : DeleteTasks(f)
         \/ \E id \in Id : Expire(id)
         \/ Restart
         \/ store' = store
BY DEF Next, RunnerStep, ApiStep, ProcessStep, GetDueTasks, SkipClaimed, Dispatch, WorkerStep,
       TimerFires, Abort, AcquireSlot, DropRun, Commit, Execute, NotifyFailure, StoreError,
       UpdateTask, ReplayTask, DeleteTask, Load, Stop, Drain, Exit, Crash, Advance, vars

\* The store only ever holds consistent records.
LEMMA RecordsInductive ==
  ASSUME TypeOK, RecordConsistent, HandlerCopies, GoroutineCopies, [Next]_vars
  PROVE  RecordConsistent'
<1> USE ConstantsAssumption, NoneAssumption
<1>1. ASSUME NEW id, NEW t, Put(id, t), Consistent(t) PROVE RecordConsistent'
  BY <1>1 DEF RecordConsistent, TypeOK, Put
<1>2. ASSUME NEW w \in Worker, MarkRunning(w) PROVE RecordConsistent'
  <2> DEFINE t == [worker[w].task EXCEPT !.status = "running"]
  <2>1. worker[w] # None /\ worker[w].task \in Task /\ ~worker[w].task.finished
    BY <1>2, MarkFields DEF MarkRunning, At, TypeOK, Run, GoroutineCopies
  <2>2. Consistent(t)
    BY <2>1, UnfinishedConsistent
  <2>3. Put(worker[w].id, t) \/ store' = store
    BY <1>2 DEF MarkRunning, StoreError
  <2> HIDE DEF t
  <2> QED
    BY <1>1, <2>2, <2>3 DEF RecordConsistent
<1>3. ASSUME NEW w \in Worker, Finalize(w) PROVE RecordConsistent'
  <2>1. Consistent(worker[w].task)
    BY <1>3 DEF Finalize, At, GoroutineCopies
  <2> QED
    BY <1>1, <1>3, <2>1 DEF Finalize, StoreError, RecordConsistent
<1>4. ASSUME NEW w \in Worker, Reschedule(w) PROVE RecordConsistent'
  <2>1. worker[w].task \in Task
    BY <1>4 DEF Reschedule, At, TypeOK, Run
  <2>2. Put(worker[w].next, Successor(worker[w].task, worker[w].fireTime)) \/ store' = store
    BY <1>4 DEF Reschedule, StoreError
  <2> QED
    BY <1>1, <2>1, <2>2, ConsistentOps DEF RecordConsistent
<1>5. ASSUME NEW id \in Id, NEW c \in Content, NEW at \in 1..MaxTime, CreateTask(id, c, at)
      PROVE RecordConsistent'
  <2>1. Consistent(NewTask(id, c, at))
    BY DEF Consistent, NewTask, IsTerminal
  <2> QED
    BY <1>1, <1>5, <2>1 DEF CreateTask
<1>6. ASSUME NEW c \in Client, Apply(c) PROVE RecordConsistent'
  <2>1. Consistent(client[c].task)
    BY <1>6 DEF Apply, HandlerCopies
  <2> QED
    BY <1>1, <1>6, <2>1 DEF Apply, StoreError, RecordConsistent
<1>7. ASSUME NEW f \in Filter, DeleteTasks(f) PROVE RecordConsistent'
  BY <1>7 DEF RecordConsistent, DeleteTasks
<1>8. ASSUME NEW id \in Id, Expire(id) PROVE RecordConsistent'
  BY <1>8 DEF RecordConsistent, TypeOK, Expire
<1>9. CASE Restart
  <2>1. ASSUME NEW id \in Id, store[id] # None, store[id].status = "running"
        PROVE  Consistent([store[id] EXCEPT !.status = "pending"])
    <3>1. store[id] \in Task /\ ~store[id].finished
      BY <2>1 DEF TypeOK, RecordConsistent, Consistent, IsTerminal
    <3> QED
      BY <3>1, UnfinishedConsistent
  <2> QED
    BY <1>9, <2>1 DEF RecordConsistent, Restart, RecoverRunning, StoreError
<1>10. CASE store' = store
  BY <1>10 DEF RecordConsistent
<1> QED
  BY <1>2, <1>3, <1>4, <1>5, <1>6, <1>7, <1>8, <1>9, <1>10, StoreWriters

-----------------------------------------------------------------------------
(* Runs.                                                                   *)

\* The runs a task may have had.
Allowed(id) == arms[id] + crashes + errors

\* A goroutine's step only affects whether its own task is committed to.
LEMMA CommittedElsewhere ==
  ASSUME TypeOK, NEW w \in Worker, WorkerStep(w), NEW id \in Id, id # worker[w].id
  PROVE  CommittedTo(id)' <=> CommittedTo(id)
<1>1. \A v \in Worker : v # w => worker'[v] = worker[v]
  BY OthersStay
<1>2. worker'[w] # None => worker'[w].id = worker[w].id
  BY Survivor DEF MovesOn
<1> QED
  BY <1>1, <1>2 DEF CommittedTo, Committed

\* What a step that changes neither runs nor lowers the allowance must show.
LEMMA RunsKept ==
  ASSUME TypeOK, TypeOK', BoundedRuns, RunsLeft, runs' = runs,
         \A id \in Id : Allowed(id)' >= Allowed(id),
         \A id \in Id : Unfinished(id)' /\ ~CommittedTo(id)' =>
                          (Unfinished(id) /\ ~CommittedTo(id)) \/ Allowed(id)' > Allowed(id)
  PROVE  BoundedRuns' /\ RunsLeft'
<1>1. \A id \in Id : runs[id] \in Nat /\ Allowed(id) \in Nat /\ Allowed(id)' \in Nat
  BY DEF TypeOK, Allowed
<1>2. \A id \in Id : runs[id] <= Allowed(id)
  BY DEF BoundedRuns, Allowed
<1>3. \A id \in Id : Unfinished(id) /\ ~CommittedTo(id) => runs[id] < Allowed(id)
  BY DEF RunsLeft, Allowed
<1>4. \A id \in Id : /\ runs'[id] <= Allowed(id)'
                     /\ Unfinished(id)' /\ ~CommittedTo(id)' => runs'[id] < Allowed(id)'
  BY <1>1, <1>2, <1>3
<1> QED
  BY <1>4 DEF BoundedRuns, RunsLeft, Allowed

\* The goroutines' steps keep the bound on runs.
LEMMA WorkerRuns ==
  ASSUME TypeOK, TypeOK', ClaimExclusive, UnsavedUnknown, SuccessorReserved, GoroutineCopies,
         BoundedRuns, RunsLeft, NEW w \in Worker, WorkerStep(w)
  PROVE  BoundedRuns' /\ RunsLeft'
<1> USE ConstantsAssumption, NoneAssumption
<1>0. PICK me \in Id : me = worker[w].id
  BY WorkerMoves DEF Run
<1>1. worker[w] \in Run /\ worker[w] # None /\ worker[w].id = me
  BY <1>0, WorkerMoves
<1>2. \A id \in Id : id # me => (CommittedTo(id)' <=> CommittedTo(id))
  BY <1>1, CommittedElsewhere
<1>3. CASE ~Commit(w)
  <2>1. runs' = runs /\ crashes' = crashes
    BY <1>3 DEF WorkerStep, TimerFires, Abort, AcquireSlot, DropRun, MarkRunning, Execute, Finalize,
          NotifyFailure, Reschedule, budget, history
  <2>2. errors' = errors \/ errors' = errors + 1
    BY DEF WorkerStep, TimerFires, Abort, AcquireSlot, DropRun, Commit, MarkRunning, Execute,
          Finalize, NotifyFailure, Reschedule, Put, StoreError
  <2>3. arms' = arms \/ (Reschedule(w) /\ arms' = [arms EXCEPT ![worker[w].next] = 1])
    BY DEF WorkerStep, TimerFires, Abort, AcquireSlot, DropRun, Commit, MarkRunning, Execute,
          Finalize, NotifyFailure, Reschedule, history
  <2>4. \A id \in Id : arms'[id] >= arms[id]
    <3>1. \A id \in Id : arms[id] \in Nat
      BY DEF TypeOK
    <3>2. worker[w].next # None => arms[worker[w].next] = 0
      BY <1>1 DEF SuccessorReserved
    <3>3. worker[w].next \in Id \cup {None}
      BY <1>1 DEF Run
    <3> QED
      BY <2>3, <3>1, <3>2, <3>3 DEF TypeOK
  <2>5. \A id \in Id : Allowed(id)' >= Allowed(id) /\ (errors' = errors + 1 => Allowed(id)' > Allowed(id))
    BY <2>1, <2>2, <2>4 DEF Allowed, TypeOK
  <2>6. \A id \in Id : id # me /\ store'[id] # store[id] => ~Unfinished(id)' \/ Allowed(id)' > Allowed(id)
    <3>1. CASE Reschedule(w)
      <4>1. ASSUME NEW id \in Id, store'[id] # store[id] PROVE id = worker[w].next /\ arms'[id] = 1
        BY <3>1, <4>1 DEF Reschedule, Put, StoreError, TypeOK
      <4>2. \A id \in Id : id = worker[w].next => arms[id] = 0
        BY <1>1 DEF SuccessorReserved
      <4> QED
        BY <2>1, <2>2, <4>1, <4>2 DEF Allowed, TypeOK
    <3>2. CASE ~Reschedule(w)
      <4>1. \A id \in Id : id # me => store'[id] = store[id]
        BY <1>1, <1>3, <3>2 DEF WorkerStep, TimerFires, Abort, AcquireSlot, DropRun, MarkRunning,
              Execute, Finalize, NotifyFailure, Put, StoreError, TypeOK
      <4> QED
        BY <4>1
    <3> QED
      BY <3>1, <3>2
  <2>7. Unfinished(me)' /\ ~CommittedTo(me)' =>
          (Unfinished(me) /\ ~CommittedTo(me)) \/ Allowed(me)' > Allowed(me)
    <3>1. CASE MarkRunning(w) \/ Execute(w)
      <4>1. worker'[w] \in Run /\ worker'[w].id = me /\ worker'[w].pc \in {"execute", "finalize"}
        <5>1. worker'[w].pc \in {"execute", "finalize"}
          BY <3>1, MarkFields, ExecuteFields
        <5>2. me \in inflight /\ inflight' = inflight
          BY <1>1, <3>1 DEF MarkRunning, Execute, ClaimExclusive
        <5>3. PICK q : Goto(w, q) /\ MovesOn(worker[w], q)
          BY <1>1, <5>2, WorkerMoves DEF Return
        <5>4. worker'[w] = q
          BY <5>3 DEF Goto, TypeOK
        <5> QED
          BY <1>1, <5>1, <5>3, <5>4 DEF MovesOn
      <4>2. CommittedTo(me)'
        BY <4>1 DEF CommittedTo, Committed
      <4> QED
        BY <4>2
    <3>2. CASE Finalize(w)
      <4>1. CASE Put(me, worker[w].task)
        <5>1. worker[w].task.status \in {"succeeded", "failed"}
          BY <1>1, <3>2 DEF Finalize, At, GoroutineCopies
        <5>2. store'[me] = worker[w].task
          BY <1>1, <4>1 DEF Put, TypeOK
        <5> QED
          BY <5>1, <5>2 DEF Unfinished
      <4>2. CASE StoreError
        BY <1>1, <2>5, <4>2 DEF StoreError
      <4> QED
        BY <1>1, <3>2, <4>1, <4>2 DEF Finalize
    <3>3. CASE TimerFires(w) \/ Abort(w) \/ AcquireSlot(w) \/ DropRun(w) \/ NotifyFailure(w) \/ Reschedule(w)
      <4>1. ~Committed(w)
        BY <3>3 DEF Committed, TimerFires, Abort, AcquireSlot, DropRun, NotifyFailure, Reschedule, At
      <4>2. ~CommittedTo(me)
        BY <1>1, <4>1 DEF CommittedTo, Committed, ClaimExclusive
      <4>3. store'[me] = store[me]
        <5>1. CASE Reschedule(w)
          <6>1. me # worker[w].next
            BY <1>1 DEF SuccessorReserved, UnsavedUnknown
          <6> QED
            BY <1>1, <5>1, <6>1 DEF Reschedule, Put, StoreError, TypeOK
        <5>2. CASE ~Reschedule(w)
          BY <3>3, <5>2 DEF TimerFires, Abort, AcquireSlot, DropRun, NotifyFailure, StoreError
        <5> QED
          BY <5>1, <5>2
      <4> QED
        BY <4>2, <4>3 DEF Unfinished
    <3> QED
      BY <1>3, <3>1, <3>2, <3>3 DEF WorkerStep
  <2>8. \A id \in Id : Unfinished(id)' /\ ~CommittedTo(id)' =>
                         (Unfinished(id) /\ ~CommittedTo(id)) \/ Allowed(id)' > Allowed(id)
    BY <1>2, <2>6, <2>7 DEF Unfinished
  <2> QED
    BY <2>1, <2>5, <2>8, RunsKept
<1>4. CASE Commit(w)
  <2>1. worker[w].pc = "reread" /\ store[me].status = "pending" /\ store[me] # None
    BY <1>1, <1>4, CommitFields
  <2>2. ~CommittedTo(me)
    BY <1>1, <2>1 DEF CommittedTo, Committed, ClaimExclusive
  <2>3. runs[me] < Allowed(me)
    BY <1>1, <2>1, <2>2 DEF RunsLeft, Unfinished, Allowed
  <2>4. runs' = [runs EXCEPT ![me] = runs[me] + 1] /\ UNCHANGED <<store, arms, crashes, errors>>
    BY <1>1, <1>4 DEF Commit, budget
  <2>5. CommittedTo(me)'
    <3>1. worker'[w].pc \in {"mark", "finalize"}
      BY <1>4, CommitFields
    <3>2. me \in inflight /\ inflight' = inflight
      BY <1>1, <1>4 DEF Commit, ClaimExclusive
    <3>3. PICK q : Goto(w, q) /\ MovesOn(worker[w], q)
      BY <1>1, <3>2, WorkerMoves DEF Return
    <3>4. worker'[w] = q
      BY <3>3 DEF Goto, TypeOK
    <3> QED
      BY <1>1, <3>1, <3>3, <3>4 DEF CommittedTo, Committed, MovesOn
  <2>6. \A id \in Id : runs'[id] = IF id = me THEN runs[id] + 1 ELSE runs[id]
    BY <1>1, <2>4 DEF TypeOK
  <2>7. \A id \in Id : Allowed(id)' = Allowed(id) /\ Allowed(id) \in Nat /\ runs[id] \in Nat
    BY <2>4 DEF Allowed, TypeOK
  <2>8. BoundedRuns'
    BY <2>3, <2>6, <2>7 DEF BoundedRuns, Allowed
  <2>9. RunsLeft'
    BY <1>2, <2>4, <2>5, <2>6 DEF RunsLeft, Unfinished
  <2> QED
    BY <2>8, <2>9
<1> QED
  BY <1>3, <1>4

\* The bound on runs is kept by every step.
LEMMA RunsInductive ==
  ASSUME TypeOK, TypeOK', ClaimExclusive, UnsavedUnknown, SuccessorReserved, HandlerCopies,
         GoroutineCopies, BoundedRuns, RunsLeft, [Next]_vars
  PROVE  BoundedRuns' /\ RunsLeft'
<1> USE ConstantsAssumption, NoneAssumption
<1>1. CASE \E w \in Worker : WorkerStep(w)
  BY <1>1, WorkerRuns
<1>2. ASSUME worker' = worker PROVE \A id \in Id : CommittedTo(id)' <=> CommittedTo(id)
  BY <1>2 DEF CommittedTo, Committed
<1>3. CASE \E id \in Id, w \in Worker : Dispatch(id, w)
  <2>1. PICK i \in Id, w \in Worker : Dispatch(i, w)
    BY <1>3
  <2>2. \A v \in Worker : v # w => worker'[v] = worker[v]
    BY <2>1 DEF Dispatch, TypeOK
  <2>3. worker[w] = None /\ worker'[w].pc = "timer"
    BY <2>1 DEF Dispatch, TypeOK
  <2>4. \A v \in Worker : Committed(v)' => worker'[v] = worker[v]
    BY <2>2, <2>3 DEF Committed
  <2>5. \A v \in Worker : Committed(v) => worker'[v] = worker[v]
    BY <2>2, <2>3 DEF Committed
  <2>6. \A id \in Id : CommittedTo(id)' <=> CommittedTo(id)
    BY <2>4, <2>5 DEF CommittedTo, Committed
  <2>7. runs' = runs /\ arms' = arms /\ crashes' = crashes /\ errors' = errors /\ store' = store
    BY <2>1 DEF Dispatch, budget, history
  <2>8. \A id \in Id : Allowed(id)' >= Allowed(id)
    BY <2>7 DEF Allowed, TypeOK
  <2> QED
    BY <2>6, <2>7, <2>8, RunsKept DEF Unfinished
<1>4. CASE Crash
  <2>1. runs' = runs /\ arms' = arms /\ crashes' = crashes + 1 /\ errors' = errors
    BY <1>4 DEF Crash, history
  <2>2. \A id \in Id : Allowed(id)' > Allowed(id) /\ Allowed(id)' >= Allowed(id)
    BY <2>1 DEF Allowed, TypeOK
  <2> QED
    BY <2>1, <2>2, RunsKept
<1>5. ASSUME NEW i \in Id, NEW c \in Content, NEW at \in 1..MaxTime, CreateTask(i, c, at)
      PROVE  BoundedRuns' /\ RunsLeft'
  <2>1. /\ runs' = runs /\ crashes' = crashes /\ errors' = errors /\ worker' = worker
        /\ arms' = [arms EXCEPT ![i] = 1] /\ arms[i] = 0
        /\ \A id \in Id : id # i => store'[id] = store[id]
    BY <1>5 DEF CreateTask, Fresh, Put, budget, TypeOK
  <2>2. \A id \in Id : Allowed(id)' >= Allowed(id) /\ (id = i => Allowed(id)' > Allowed(id))
    BY <2>1 DEF Allowed, TypeOK
  <2>3. \A id \in Id : Unfinished(id)' => Unfinished(id) \/ id = i
    BY <2>1 DEF Unfinished
  <2> QED
    BY <1>2, <2>1, <2>2, <2>3, RunsKept
<1>6. ASSUME NEW c \in Client, Apply(c) PROVE BoundedRuns' /\ RunsLeft'
  <2>1. PICK i \in Id : client[c] # None /\ client[c].id = i
    BY <1>6 DEF Apply, TypeOK, Call
  <2>2. runs' = runs /\ crashes' = crashes /\ worker' = worker
    BY <1>6 DEF Apply, budget
  <2>3. CASE StoreError /\ UNCHANGED arms
    <3>1. \A id \in Id : Allowed(id)' > Allowed(id) /\ Allowed(id)' >= Allowed(id)
      BY <2>2, <2>3 DEF StoreError, Allowed, TypeOK
    <3> QED
      BY <2>2, <3>1, RunsKept
  <2>4. CASE /\ Put(i, client[c].task)
             /\ arms' = IF client[c].task.status = "pending"
                          THEN [arms EXCEPT ![i] = @ + 1] ELSE arms
    <3>1. errors' = errors /\ \A id \in Id : id # i => store'[id] = store[id]
      BY <2>4 DEF Put, TypeOK
    <3>2. \A id \in Id : Allowed(id)' >= Allowed(id)
      BY <2>2, <2>4, <3>1 DEF Allowed, TypeOK
    <3>3. Unfinished(i)' => Allowed(i)' > Allowed(i)
      <4>1. store'[i] = client[c].task
        BY <2>4 DEF Put, TypeOK
      <4>2. client[c].task.status \in {"pending", "cancelled"}
        BY <2>1 DEF HandlerCopies
      <4>3. client[c].task.status = "pending" => arms'[i] = arms[i] + 1
        BY <2>4 DEF TypeOK
      <4> QED
        BY <2>2, <3>1, <4>1, <4>2, <4>3 DEF Unfinished, Allowed, TypeOK
    <3>4. \A id \in Id : id # i => (Unfinished(id)' <=> Unfinished(id))
      BY <3>1 DEF Unfinished
    <3> QED
      BY <1>2, <2>2, <3>2, <3>3, <3>4, RunsKept
  <2> QED
    BY <1>6, <2>1, <2>3, <2>4 DEF Apply
<1>7. CASE Restart
  <2>1. runs' = runs /\ crashes' = crashes /\ worker' = worker /\ arms' = arms
    BY <1>7 DEF Restart, budget, history
  <2>2. CASE store' = RecoverRunning /\ UNCHANGED errors
    <3>1. \A id \in Id : Unfinished(id)' => Unfinished(id)
      BY <2>2 DEF Unfinished, RecoverRunning
    <3>2. \A id \in Id : Allowed(id)' >= Allowed(id)
      BY <2>1, <2>2 DEF Allowed, TypeOK
    <3> QED
      BY <1>2, <2>1, <3>1, <3>2, RunsKept
  <2>3. CASE StoreError
    <3>1. \A id \in Id : Allowed(id)' > Allowed(id) /\ Allowed(id)' >= Allowed(id)
      BY <2>1, <2>3 DEF StoreError, Allowed, TypeOK
    <3> QED
      BY <2>1, <3>1, RunsKept
  <2> QED
    BY <1>7, <2>2, <2>3 DEF Restart
<1>8. CASE /\ UNCHANGED <<worker, runs, arms, crashes, errors>>
           /\ \A id \in Id : store'[id] \in {store[id], None}
  <2>1. \A id \in Id : Allowed(id)' >= Allowed(id)
    BY <1>8 DEF Allowed, TypeOK
  <2>2. \A id \in Id : Unfinished(id)' => Unfinished(id)
    BY <1>8 DEF Unfinished
  <2> QED
    BY <1>2, <1>8, <2>1, <2>2, RunsKept
<1>9. \/ \E w \in Worker : WorkerStep(w)
      \/ \E id \in Id, w \in Worker : Dispatch(id, w)
      \/ Crash
      \/ \E i \in Id, c \in Content, at \in 1..MaxTime : CreateTask(i, c, at)
      \/ \E c \in Client : Apply(c)
      \/ Restart
      \/ /\ UNCHANGED <<worker, runs, arms, crashes, errors>>
         /\ \A id \in Id : store'[id] \in {store[id], None}
  BY DEF Next, RunnerStep, ApiStep, ProcessStep, GetDueTasks, SkipClaimed, UpdateTask, ReplayTask,
         DeleteTask, Load, DeleteTasks, Stop, Drain, Exit, Advance, Expire, vars, budget, history,
         TypeOK
<1> QED
  BY <1>1, <1>3, <1>4, <1>5, <1>6, <1>7, <1>8, <1>9

-----------------------------------------------------------------------------
(* Ownership of running records.                                           *)

\* A goroutine that is delivering id.
Owned(id) == \E w \in Worker : /\ worker[w] # None /\ worker[w].id = id
                               /\ worker[w].pc \in {"execute", "finalize"}

IsRunning(id) == store[id] # None /\ store[id].status = "running"

\* A goroutine's step keeps its task owned for as long as the record says so.
LEMMA WorkerOwned ==
  ASSUME TypeOK, TypeOK', ClaimExclusive, GoroutineCopies, NEW w \in Worker, WorkerStep(w),
         errors' = 0, \A id \in Id : IsRunning(id) => Owned(id)
  PROVE  \A id \in Id : IsRunning(id)' => Owned(id)'
<1> USE ConstantsAssumption, NoneAssumption
<1>1. PICK me \in Id : me = worker[w].id
  BY WorkerMoves DEF Run
<1>2. worker[w] \in Run /\ worker[w] # None /\ worker[w].id = me
  BY <1>1, WorkerMoves
<1>3. ~StoreError
  BY DEF StoreError, TypeOK
<1>4. Reschedule(w) /\ store' # store => \E t : Put(worker[w].next, t) /\ t.status = "pending"
  <2> SUFFICES ASSUME Reschedule(w), store' # store
               PROVE  \E t : Put(worker[w].next, t) /\ t.status = "pending"
    OBVIOUS
  <2>1. Put(worker[w].next, Successor(worker[w].task, worker[w].fireTime))
    BY <1>3 DEF Reschedule
  <2>2. worker[w].task \in Task
    BY <1>2 DEF Run
  <2>3. Successor(worker[w].task, worker[w].fireTime).status = "pending"
    BY <2>2 DEF Successor, Task
  <2> QED
    BY <2>1, <2>3
<1>5. ASSUME NEW id \in Id, id # me, IsRunning(id)' PROVE Owned(id)'
  <2>1. IsRunning(id)
    <3>1. CASE Reschedule(w) /\ store' # store
      BY <1>5, <1>4, <3>1 DEF Put, IsRunning, TypeOK
    <3>2. CASE ~Reschedule(w)
      <4>1. store'[id] = store[id]
        BY <1>2, <1>5, <3>2 DEF WorkerStep, TimerFires, Abort, AcquireSlot, DropRun, Commit,
              MarkRunning, Execute, Finalize, NotifyFailure, Put, StoreError, TypeOK
      <4> QED
        BY <1>5, <4>1 DEF IsRunning
    <3>3. CASE store' = store
      BY <1>5, <3>3 DEF IsRunning
    <3> QED
      BY <3>1, <3>2, <3>3
  <2>2. PICK v \in Worker : /\ worker[v] # None /\ worker[v].id = id
                            /\ worker[v].pc \in {"execute", "finalize"}
    BY <2>1 DEF Owned
  <2>3. v # w
    BY <1>2, <1>5, <2>2
  <2>4. worker'[v] = worker[v]
    BY <2>3, OthersStay
  <2> QED
    BY <2>2, <2>4 DEF Owned
<1>6. ASSUME IsRunning(me)' PROVE Owned(me)'
  <2>1. CASE MarkRunning(w) \/ Execute(w)
    <3>1. worker'[w].pc \in {"execute", "finalize"}
      BY <2>1, MarkFields, ExecuteFields
    <3>2. me \in inflight /\ inflight' = inflight
      BY <1>2, <2>1 DEF MarkRunning, Execute, ClaimExclusive
    <3>3. PICK q : Goto(w, q) /\ MovesOn(worker[w], q)
      BY <1>2, <3>2, WorkerMoves DEF Return
    <3>4. worker'[w] = q
      BY <3>3 DEF Goto, TypeOK
    <3> QED
      BY <1>2, <3>1, <3>3, <3>4 DEF Owned, MovesOn
  <2>2. CASE Finalize(w)
    <3>1. worker[w].task.status \in {"succeeded", "failed"}
      BY <1>2, <2>2 DEF Finalize, At, GoroutineCopies
    <3>2. store'[me] = worker[w].task
      BY <1>2, <1>3, <2>2 DEF Finalize, Put, TypeOK
    <3> QED
      BY <1>6, <3>1, <3>2 DEF IsRunning
  <2>3. CASE TimerFires(w) \/ Abort(w) \/ AcquireSlot(w) \/ DropRun(w) \/ Commit(w)
             \/ NotifyFailure(w) \/ Reschedule(w)
    <3>1. worker[w].pc \notin {"execute", "finalize"}
      BY <2>3 DEF TimerFires, Abort, AcquireSlot, DropRun, Commit, NotifyFailure, Reschedule, At
    <3>2. ~Owned(me)
      BY <1>2, <3>1 DEF Owned, ClaimExclusive
    <3>3. ~IsRunning(me)
      BY <3>2
    <3>4. CASE Reschedule(w) /\ store' # store
      BY <1>6, <1>4, <3>3, <3>4 DEF Put, IsRunning, TypeOK
    <3>5. CASE store' = store
      BY <1>6, <3>3, <3>5 DEF IsRunning
    <3>6. ~Reschedule(w) => store' = store
      BY <2>3 DEF TimerFires, Abort, AcquireSlot, DropRun, Commit, NotifyFailure, StoreError
    <3> QED
      BY <3>4, <3>5, <3>6
  <2> QED
    BY <2>1, <2>2, <2>3 DEF WorkerStep
<1> QED
  BY <1>5, <1>6

\* A record says "running" only while a goroutine delivers it.
LEMMA OwnedInductive ==
  ASSUME TypeOK, TypeOK', ClaimExclusive, HandlerCopies, GoroutineCopies, RunningIsOwned,
         [Next]_vars
  PROVE  RunningIsOwned'
<1> USE ConstantsAssumption, NoneAssumption
<1> SUFFICES ASSUME errors' = 0, phase' # "crashed"
             PROVE  \A id \in Id : IsRunning(id)' => Owned(id)'
  BY DEF RunningIsOwned, IsRunning, Owned
<1>1. ~StoreError
  BY DEF StoreError, TypeOK
<1>2. CASE Restart
  <2>1. store' = RecoverRunning
    BY <1>1, <1>2 DEF Restart
  <2>2. \A id \in Id : ~IsRunning(id)'
    <3>1. ASSUME NEW id \in Id, store[id] # None, store[id].status = "running"
          PROVE  store'[id].status = "pending"
      BY <2>1, <3>1 DEF RecoverRunning, TypeOK, Task
    <3> QED
      BY <2>1, <3>1 DEF IsRunning, RecoverRunning
  <2> QED
    BY <2>2
<1>3. CASE ~Restart
  <2>1. errors = 0 /\ phase # "crashed" /\ ~Crash
    BY <1>1, <1>3 DEF Next, RunnerStep, ApiStep, ProcessStep, GetDueTasks, SkipClaimed, Dispatch,
          WorkerStep, TimerFires, Abort, AcquireSlot, DropRun, Commit, MarkRunning, Execute,
          Finalize, NotifyFailure, Reschedule, CreateTask, UpdateTask, ReplayTask, DeleteTask, Load,
          Apply, DeleteTasks, Put, Stop, Drain, Exit, Crash, Advance, Expire, vars
  <2>2. \A id \in Id : IsRunning(id) => Owned(id)
    BY <2>1 DEF RunningIsOwned, IsRunning, Owned
  <2>3. CASE \E w \in Worker : WorkerStep(w)
    BY <2>2, <2>3, WorkerOwned
  <2>4. CASE /\ worker' = worker
             /\ \A id \in Id : IsRunning(id)' => IsRunning(id)
    BY <2>2, <2>4 DEF Owned
  <2>5. ASSUME NEW i \in Id, NEW w \in Worker, Dispatch(i, w)
        PROVE  \A id \in Id : IsRunning(id)' => Owned(id)'
    <3>1. store' = store /\ worker[w] = None /\ \A v \in Worker : v # w => worker'[v] = worker[v]
      BY <2>5 DEF Dispatch, TypeOK
    <3> QED
      BY <2>2, <3>1 DEF Owned, IsRunning
  <2>6. ASSUME NEW i \in Id, NEW t, Put(i, t), t.status # "running"
        PROVE  \A id \in Id : IsRunning(id)' => IsRunning(id)
    BY <2>6 DEF Put, IsRunning, TypeOK
  <2>7. ASSUME NEW i \in Id, NEW c \in Content, NEW at \in 1..MaxTime, CreateTask(i, c, at)
        PROVE  \A id \in Id : IsRunning(id)' => Owned(id)'
    <3>1. NewTask(i, c, at).status # "running"
      BY DEF NewTask
    <3> QED
      BY <2>4, <2>6, <2>7, <3>1 DEF CreateTask
  <2>8. ASSUME NEW c \in Client, Apply(c)
        PROVE  \A id \in Id : IsRunning(id)' => Owned(id)'
    <3>1. client[c].task.status # "running" /\ client[c].id \in Id
      BY <2>8 DEF Apply, HandlerCopies, TypeOK, Call
    <3> QED
      BY <1>1, <2>4, <2>6, <2>8, <3>1 DEF Apply
  <2>9. CASE /\ worker' = worker
             /\ \A id \in Id : store'[id] \in {store[id], None}
    BY <2>4, <2>9 DEF IsRunning
  <2>10. \/ \E w \in Worker : WorkerStep(w)
         \/ \E id \in Id, w \in Worker : Dispatch(id, w)
         \/ \E i \in Id, c \in Content, at \in 1..MaxTime : CreateTask(i, c, at)
         \/ \E c \in Client : Apply(c)
         \/ worker' = worker /\ \A id \in Id : store'[id] \in {store[id], None}
    BY <1>3, <2>1 DEF Next, RunnerStep, ApiStep, ProcessStep, GetDueTasks, SkipClaimed, UpdateTask,
          ReplayTask, DeleteTask, Load, DeleteTasks, Stop, Drain, Exit, Advance, Expire, vars, TypeOK
  <2> QED
    BY <2>3, <2>5, <2>7, <2>8, <2>9, <2>10
<1> QED
  BY <1>2, <1>3

-----------------------------------------------------------------------------
(* The theorems.                                                           *)

\* The inductive invariant holds in every state the system can reach.
THEOREM Invariance == Spec => []IInv
<1>1. Init => IInv
  <2> SUFFICES ASSUME Init PROVE IInv
    OBVIOUS
  <2> USE ConstantsAssumption, NoneAssumption
  <2>1. TypeOK
    BY DEF Init, TypeOK, NoBatch, Live
  <2>2. ClaimExclusive
    BY DEF Init, ClaimExclusive
  <2>3. SlotBound
    <3>1. IsFiniteSet({}) /\ Cardinality({}) = 0
      BY FS_EmptySet
    <3> QED
      BY <3>1 DEF Init, SlotBound
  <2>4. BoundedRuns /\ RunsLeft
    BY DEF Init, BoundedRuns, RunsLeft, Unfinished
  <2>5. RecordConsistent /\ HandlerCopies /\ GoroutineCopies /\ RunningIsOwned
    BY DEF Init, RecordConsistent, HandlerCopies, GoroutineCopies, RunningIsOwned
  <2>6. Timely /\ UnsavedUnknown /\ SuccessorReserved
    BY DEF Init, Timely, UnsavedUnknown, SuccessorReserved, NoBatch
  <2> QED
    BY <2>1, <2>2, <2>3, <2>4, <2>5, <2>6 DEF IInv
<1>2. IInv /\ [Next]_vars => IInv'
  <2> SUFFICES ASSUME IInv, [Next]_vars PROVE IInv'
    OBVIOUS
  <2> USE DEF IInv
  <2>1. TypeOK'
    BY TypeInductive
  <2>2. ClaimExclusive' /\ SlotBound'
    BY ClaimInductive, SlotInductive
  <2>3. Timely' /\ UnsavedUnknown' /\ SuccessorReserved'
    BY TimelyInductive, UnsavedInductive, ReservedInductive
  <2>4. HandlerCopies' /\ GoroutineCopies' /\ RecordConsistent'
    BY HandlersInductive, GoroutinesInductive, RecordsInductive
  <2>5. BoundedRuns' /\ RunsLeft'
    BY <2>1, RunsInductive
  <2>6. RunningIsOwned'
    BY <2>1, OwnedInductive
  <2> QED
    BY <2>1, <2>2, <2>3, <2>4, <2>5, <2>6
<1> QED
  BY <1>1, <1>2, PTL DEF Spec

\* Runner.claim: no task is in two goroutines, and no claim leaks, for any
\* number of tasks and goroutines.
THEOREM ClaimsAreExclusive == Spec => []ClaimExclusive
BY Invariance, PTL DEF IInv

\* Runner.sem: deliveries never exceed SCHEDY_MAX_CONCURRENT_DELIVERIES and no
\* token leaks.
THEOREM SlotsAreBounded == Spec => []SlotBound
BY Invariance, PTL DEF IInv

\* No request or retry goes out before execute_at, but for the skew of the timer,
\* and none in a run that got its slot after the staleness limit.
THEOREM FiresInWindow == Spec => []FireWindow
<1>1. IInv => FireWindow
  BY TimelyImpliesFireWindow DEF IInv
<1> QED
  BY <1>1, Invariance, PTL

\* The runner runs a task no more often than it was armed, one extra run for
\* each crash and each failed store transaction aside.
THEOREM RunsAreBounded == Spec => []BoundedRuns
BY Invariance, PTL DEF IInv

\* A record's status, its finished_at and the end of its attempt log agree.
THEOREM RecordsAreConsistent == Spec => []RecordConsistent
BY Invariance, PTL DEF IInv

\* Without store errors, no record is left "running" with nobody delivering it.
THEOREM RunningHasOwner == Spec => []RunningIsOwned
BY Invariance, PTL DEF IInv

\* No step commits to a task whose record is finished.
LEMMA FinishedNotRun ==
  ASSUME TypeOK, [Next]_vars, NEW id \in Id,
         store[id] # None, IsTerminal(store[id].status), ~CommittedTo(id)
  PROVE  ~CommittedTo(id)'
<1> USE ConstantsAssumption, NoneAssumption
<1> SUFFICES ASSUME NEW v \in Worker, Committed(v)', worker'[v].id = id
             PROVE  FALSE
  BY DEF CommittedTo
<1>1. worker'[v] # None /\ worker'[v].pc \in {"mark", "execute", "finalize"}
  BY DEF Committed
<1>2. worker'[v] # worker[v]
  BY <1>1 DEF CommittedTo, Committed
<1>3. ASSUME NEW i \in Id, NEW w \in Worker, Dispatch(i, w) PROVE FALSE
  <2>1. v = w
    BY <1>2, <1>3 DEF Dispatch, TypeOK
  <2>2. worker'[w].pc = "timer"
    BY <1>3 DEF Dispatch, TypeOK
  <2> QED
    BY <1>1, <2>1, <2>2
<1>4. ASSUME NEW w \in Worker, WorkerStep(w) PROVE FALSE
  <2>1. v = w
    BY <1>2, <1>4, OthersStay
  <2>2. worker[w] \in Run /\ worker[w].id = id
    BY <1>1, <1>4, <2>1, Survivor DEF MovesOn
  <2>3. worker[w].pc \notin {"mark", "execute", "finalize"}
    BY <2>2 DEF CommittedTo, Committed
  <2>4. CASE Commit(w)
    BY <2>2, <2>4, CommitFields DEF IsTerminal
  <2>5. CASE TimerFires(w) \/ AcquireSlot(w)
    BY <1>1, <2>1, <2>5, WaitFields
  <2>6. CASE MarkRunning(w) \/ Execute(w)
    BY <2>3, <2>6 DEF MarkRunning, Execute, At
  <2>7. CASE Finalize(w) \/ NotifyFailure(w)
    BY <1>1, <2>1, <2>7, EndFields
  <2> QED
    BY <1>1, <1>4, <2>1, <2>4, <2>5, <2>6, <2>7, Survivor
<1>5. CASE Crash
  BY <1>1, <1>5 DEF Crash
<1> QED
  BY <1>2, <1>3, <1>4, <1>5, Frame

\* A record that is finished and that nobody is working on does not change and
\* is not run again: a cancel, once it is written, is never undone by a tick
\* that read the task before it.
THEOREM HistoryStays == Spec => HistoryIsFinal
<1>1. IInv /\ [Next]_vars => [SettledStays]_vars
  <2> SUFFICES ASSUME IInv, [Next]_vars, NEW id \in Id, Settled(id)
               PROVE  store'[id] \in {store[id], None}
    <3>1. ASSUME IInv, [Next]_vars, NEW id \in Id, Settled(id) PROVE ~CommittedTo(id)'
      BY <3>1, FinishedNotRun DEF IInv, Settled
    <3> QED
      BY <3>1 DEF SettledStays
  <2> USE ConstantsAssumption, NoneAssumption
  <2>1. TypeOK /\ store[id] # None /\ store[id].status # "running" /\ arms[id] # 0
    BY DEF IInv, Settled, IsTerminal, UnsavedUnknown
  <2>2. ASSUME NEW i, NEW t, Put(i, t), i # id PROVE store'[id] = store[id]
    BY <2>1, <2>2 DEF Put, TypeOK
  <2>3. ASSUME NEW w \in Worker, MarkRunning(w) \/ Finalize(w)
        PROVE  store'[id] = store[id]
    <3>1. worker[w].id # id
      BY <2>3 DEF MarkRunning, Finalize, At, Settled, CommittedTo, Committed
    <3> QED
      BY <2>2, <2>3, <3>1 DEF MarkRunning, Finalize, StoreError
  <2>4. ASSUME NEW w \in Worker, Reschedule(w) PROVE store'[id] = store[id]
    <3>1. worker[w].next # id
      BY <2>1, <2>4 DEF IInv, SuccessorReserved, Reschedule, At
    <3> QED
      BY <2>2, <2>4, <3>1 DEF Reschedule, StoreError
  <2>5. ASSUME NEW i \in Id, NEW c \in Content, NEW at \in 1..MaxTime, CreateTask(i, c, at)
        PROVE  store'[id] = store[id]
    BY <2>1, <2>2, <2>5 DEF CreateTask, Fresh
  <2>6. ASSUME NEW c \in Client, Apply(c) PROVE store'[id] = store[id]
    <3>1. client[c].id # id
      BY <2>6 DEF Apply, Settled
    <3> QED
      BY <2>2, <2>6, <3>1 DEF Apply, StoreError
  <2>7. ASSUME NEW f \in Filter, DeleteTasks(f) PROVE store'[id] \in {store[id], None}
    BY <2>7 DEF DeleteTasks
  <2>8. ASSUME NEW i \in Id, Expire(i) PROVE store'[id] \in {store[id], None}
    BY <2>1, <2>8 DEF Expire, TypeOK
  <2>9. CASE Restart
    BY <2>1, <2>9 DEF Restart, RecoverRunning, StoreError
  <2> QED
    BY <2>3, <2>4, <2>5, <2>6, <2>7, <2>8, <2>9, StoreWriters
<1> QED
  BY <1>1, Invariance, PTL DEF Spec, HistoryIsFinal
=============================================================================
