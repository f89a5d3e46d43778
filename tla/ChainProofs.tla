----------------------------- MODULE ChainProofs -----------------------------
(***************************************************************************)
(* Proofs about Delivery, continued: what holds while no client edits a    *)
(* task and no store transaction fails.  A recurring chain neither forks   *)
(* nor ends, and the attempt log holds every request.                      *)
(***************************************************************************)
EXTENDS DeliveryProofs

-----------------------------------------------------------------------------
(* The invariant.                                                          *)

\* No handler but CreateTask has written or is about to, and every
\* transaction has succeeded.
Calm == ops = 0 /\ errors = 0

\* A handler that holds a loaded task has been counted.
NoHandlers == ops = 0 => \A c \in Client : client[c] = None

\* A goroutine that has not decided to run its task, or none at all.
Waiting(w) == worker[w] = None \/ worker[w].pc \in {"timer", "slot", "reread"}

\* A goroutine that has recorded its run and will save a successor.
Heir(w) ==
  worker[w] # None /\ worker[w].pc \in {"notify", "reschedule"} /\ worker[w].next # None

\* A chain is named by a task that was saved.
Rooted ==
  Calm => /\ \A id \in Id : store[id] # None => arms[store[id].chain] # 0
          /\ \A w \in Worker : ~Waiting(w) => arms[worker[w].task.chain] # 0

\* The record of a task that is being run is unfinished, and of the same chain.
RunsStored ==
  Calm => \A w \in Worker : Committed(w) =>
            LET id == worker[w].id IN
              /\ Unfinished(id) /\ store[id].chain = worker[w].task.chain
              /\ store[id].content = worker[w].task.content

\* A chain has one unfinished member or one heir, never two of either kind,
\* never both.
OneToken ==
  Calm => /\ \A i, j \in Id :
               Unfinished(i) /\ Unfinished(j) /\ store[i].chain = store[j].chain => i = j
          /\ \A v, w \in Worker :
               Heir(v) /\ Heir(w) /\ worker[v].task.chain = worker[w].task.chain => v = w
          /\ \A i \in Id, w \in Worker :
               Unfinished(i) /\ Heir(w) => store[i].chain # worker[w].task.chain

\* The log in the store, or in the copy of the goroutine that is running the
\* task, holds every request; none was sent for an id nobody has.
Logs ==
  Calm /\ crashes = 0 =>
    /\ \A id \in Id : LogOf(id)
    /\ \A w \in Worker : Committed(w) => Sent(worker[w].task) = fired[worker[w].id]
    /\ \A id \in Id : arms[id] = 0 => fired[id] = 0

ChainInv == NoHandlers /\ Rooted /\ RunsStored /\ OneToken /\ Logs

-----------------------------------------------------------------------------
(* What the operators on records keep.                                     *)

\* Changes of status, log and time keep the chain and the content.
LEMMA ChainFields ==
  ASSUME NEW t \in Task, NEW s \in Status, NEW o \in Outcome, NEW f \in Nat
  PROVE  /\ [t EXCEPT !.status = s].chain = t.chain /\ [t EXCEPT !.status = s].content = t.content
         /\ [t EXCEPT !.status = s].status = s /\ [t EXCEPT !.status = s].attempts = t.attempts
         /\ Finished(t, s).chain = t.chain /\ Finished(t, s).content = t.content
         /\ Finished(t, s).attempts = t.attempts /\ Finished(t, s).status = s
         /\ Logged(t, o).chain = t.chain /\ Logged(t, o).content = t.content
         /\ Logged(t, o).attempts = Append(t.attempts, o)
         /\ Skipped(t).chain = t.chain /\ Skipped(t).content = t.content
         /\ Skipped(t).attempts = Append(t.attempts, "skipped")
         /\ Successor(t, f).chain = t.chain /\ Successor(t, f).content = t.content
         /\ Successor(t, f).status = "pending" /\ Successor(t, f).attempts = << >>
<1>1. /\ [t EXCEPT !.status = s].chain = t.chain /\ [t EXCEPT !.status = s].content = t.content
      /\ [t EXCEPT !.status = s].status = s /\ [t EXCEPT !.status = s].attempts = t.attempts
  BY DEF Task
<1>2. /\ Finished(t, s).chain = t.chain /\ Finished(t, s).content = t.content
      /\ Finished(t, s).attempts = t.attempts /\ Finished(t, s).status = s
  BY DEF Task, Finished
<1>3. /\ Logged(t, o).chain = t.chain /\ Logged(t, o).content = t.content
      /\ Logged(t, o).attempts = Append(t.attempts, o)
  BY DEF Task, Logged
<1>4. /\ Skipped(t).chain = t.chain /\ Skipped(t).content = t.content
      /\ Skipped(t).attempts = Append(t.attempts, "skipped")
  BY DEF Task, Skipped
<1>5. /\ Successor(t, f).chain = t.chain /\ Successor(t, f).content = t.content
      /\ Successor(t, f).status = "pending" /\ Successor(t, f).attempts = << >>
  BY DEF Task, Successor
<1> QED
  BY <1>1, <1>2, <1>3, <1>4, <1>5

\* A log accounts for one request more when one is appended, and for no more
\* when a skip is.
LEMMA SentCounts ==
  ASSUME NEW t, NEW u, t.attempts \in Seq(Outcome), NEW o \in Outcome
  PROVE  /\ Sent(t) \in Nat
         /\ u.attempts = t.attempts => Sent(u) = Sent(t)
         /\ u.attempts = << >> => Sent(u) = 0
         /\ u.attempts = Append(t.attempts, o) =>
              Sent(u) = IF o = "skipped" THEN Sent(t) ELSE Sent(t) + 1
<1> DEFINE n == Len(t.attempts)
           S == {i \in 1..n : t.attempts[i] # "skipped"}
<1>1. n \in Nat
  OBVIOUS
<1>2. IsFiniteSet(1..n) /\ S \subseteq 1..n
  BY <1>1, FS_Interval
<1>3. IsFiniteSet(S) /\ Cardinality(S) \in Nat
  BY <1>2, FS_Subset, FS_CardinalityType
<1>4. Sent(t) = Cardinality(S)
  BY DEF Sent
<1>5. ASSUME u.attempts = << >> PROVE Sent(u) = 0
  <2>1. {i \in 1..Len(u.attempts) : u.attempts[i] # "skipped"} = {}
    BY <1>5
  <2> QED
    BY <2>1, FS_EmptySet DEF Sent
<1>6. ASSUME u.attempts = Append(t.attempts, o)
      PROVE  Sent(u) = IF o = "skipped" THEN Sent(t) ELSE Sent(t) + 1
  <2> DEFINE U == {i \in 1..Len(u.attempts) : u.attempts[i] # "skipped"}
  <2>1. /\ Len(u.attempts) = n + 1 /\ u.attempts[n + 1] = o
        /\ \A i \in 1..n : u.attempts[i] = t.attempts[i]
    BY <1>6
  <2>2. U = IF o = "skipped" THEN S ELSE S \cup {n + 1}
    BY <1>1, <2>1
  <2>3. n + 1 \notin S
    BY <1>1
  <2> HIDE DEF S, U, n
  <2>4. Cardinality(S \cup {n + 1}) = Cardinality(S) + 1
    BY <1>3, <2>3, FS_AddElement
  <2>5. Sent(u) = Cardinality(U)
    BY DEF Sent, U
  <2> QED
    BY <1>4, <2>2, <2>4, <2>5
<1> QED
  BY <1>3, <1>4, <1>5, <1>6 DEF Sent

-----------------------------------------------------------------------------
(* The steps of a calm system.                                             *)

\* A step that neither starts, advances nor records a run: finished records
\* may expire, and running ones be made pending again.
Quiet ==
  /\ \A id \in Id :
       \/ store'[id] = store[id]
       \/ store[id] # None /\ IsTerminal(store[id].status) /\ store'[id] = None
       \/ /\ store[id] # None /\ store[id].status = "running"
          /\ store'[id] = [store[id] EXCEPT !.status = "pending"]
  /\ \A w \in Worker : worker'[w] = worker[w] \/ (Waiting(w) /\ Waiting(w)')
  /\ arms' = arms /\ fired' = fired /\ crashes' = crashes

\* A step after which the system is calm was taken by a calm system, and is a
\* step of the runner, a creation, or a quiet one.
LEMMA CalmSteps ==
  ASSUME IInv, NoHandlers, [Next]_vars, Calm'
  PROVE  /\ Calm /\ \A c \in Client : client'[c] = None
         /\ \/ Quiet
            \/ \E w \in Worker : \/ Commit(w) \/ MarkRunning(w) \/ Execute(w)
                                 \/ Finalize(w) \/ NotifyFailure(w) \/ Reschedule(w)
            \/ \E id \in Id, c \in Content, at \in 1..MaxTime : CreateTask(id, c, at)
            \/ Crash
<1> USE DEF IInv
<1>0. ops \in Nat /\ errors \in Nat /\ ops' = 0 /\ errors' = 0
  BY DEF TypeOK, Calm
<1>1. (errors' = errors \/ errors' = errors + 1) /\ (ops' = ops \/ ops' = ops + 1)
  BY DEF Next, RunnerStep, ApiStep, ProcessStep, GetDueTasks, SkipClaimed, Dispatch, WorkerStep,
         TimerFires, Abort, AcquireSlot, DropRun, Commit, MarkRunning, Execute, Finalize,
         NotifyFailure, Reschedule, StoreError, Put, CreateTask, UpdateTask, ReplayTask,
         DeleteTask, Load, Apply, DeleteTasks, Stop, Drain, Exit, Crash, Restart, Advance,
         Expire, budget, vars
<1>2. Calm /\ \A c \in Client : client[c] = None
  BY <1>0, <1>1 DEF Calm, NoHandlers
<1>3. ~StoreError
  BY <1>0, <1>2 DEF StoreError, Calm
<1>4. ASSUME ops' = ops + 1 PROVE FALSE
  BY <1>0, <1>4
<1>5. CASE GetDueTasks \/ Stop \/ Drain \/ Advance \/ UNCHANGED vars \/ \E id \in Id : SkipClaimed(id)
  BY <1>2, <1>5 DEF GetDueTasks, Stop, Drain, Advance, SkipClaimed, Quiet, budget, history, vars
<1>6. CASE Exit
  BY <1>2, <1>6 DEF Exit, Quiet, budget, history
<1>7. ASSUME NEW id \in Id, NEW w \in Worker, Dispatch(id, w) PROVE Quiet /\ client' = client
  <2>1. /\ worker[w] = None /\ worker'[w].pc = "timer"
        /\ \A v \in Worker : v # w => worker'[v] = worker[v]
    BY <1>7 DEF Dispatch, TypeOK
  <2> QED
    BY <1>7, <2>1 DEF Dispatch, Quiet, Waiting, budget, history
<1>8. ASSUME NEW w \in Worker, TimerFires(w) \/ AcquireSlot(w) \/ Abort(w) \/ DropRun(w)
      PROVE  Quiet /\ client' = client
  <2>1. WorkerStep(w)
    BY <1>8 DEF WorkerStep
  <2>2. \A v \in Worker : v # w => worker'[v] = worker[v]
    BY <2>1, OthersStay
  <2>3. Waiting(w)
    BY <1>8 DEF Waiting, TimerFires, AcquireSlot, Abort, DropRun, At
  <2>4. CASE TimerFires(w) \/ AcquireSlot(w)
    <3>1. Waiting(w)'
      BY <2>4, WaitFields DEF Waiting
    <3> QED
      BY <2>2, <2>3, <2>4, <3>1 DEF Quiet, TimerFires, AcquireSlot, budget, history
  <2>5. CASE Abort(w) \/ DropRun(w)
    <3>1. worker'[w] = None
      BY <2>5 DEF Abort, DropRun, Return, Goto, TypeOK
    <3>2. store' = store /\ client' = client /\ arms' = arms /\ fired' = fired /\ crashes' = crashes
      BY <1>3, <2>5 DEF Abort, DropRun, budget, history
    <3> QED
      BY <2>2, <2>3, <3>1, <3>2 DEF Quiet, Waiting
  <2> QED
    BY <1>8, <2>4, <2>5
<1>9. ASSUME NEW id \in Id, Expire(id) PROVE Quiet /\ client' = client
  <2>1. \A i \in Id : i # id => store'[i] = store[i]
    BY <1>9 DEF Expire, TypeOK
  <2>2. store'[id] = None
    BY <1>9 DEF Expire, TypeOK
  <2> QED
    BY <1>9, <2>1, <2>2 DEF Expire, Quiet, budget, history
<1>10. CASE Restart
  BY <1>2, <1>3, <1>10 DEF Restart, RecoverRunning, Quiet, budget, history
<1>11. ASSUME NEW c \in Client, Apply(c) PROVE FALSE
  BY <1>2, <1>11 DEF Apply
<1>12. ASSUME NEW f \in Filter, DeleteTasks(f) PROVE FALSE
  BY <1>4, <1>12 DEF DeleteTasks
<1>13. ASSUME NEW c \in Client, NEW id, NEW t, Load(c, id, t) PROVE FALSE
  BY <1>4, <1>13 DEF Load
<1>14. ASSUME NEW w \in Worker,
              Commit(w) \/ MarkRunning(w) \/ Execute(w) \/ Finalize(w) \/ NotifyFailure(w)
                \/ Reschedule(w)
       PROVE  client' = client
  <2>1. CASE Commit(w) \/ MarkRunning(w) \/ Execute(w)
    BY <2>1 DEF Commit, MarkRunning, Execute
  <2>2. CASE Finalize(w) \/ NotifyFailure(w) \/ Reschedule(w)
    BY <2>2 DEF Finalize, NotifyFailure, Reschedule
  <2> QED
    BY <1>14, <2>1, <2>2
<1>15. CASE Crash
  BY <1>2, <1>15 DEF Crash
<1>16. ASSUME NEW id \in Id, NEW c \in Content, NEW at \in 1..MaxTime, CreateTask(id, c, at)
       PROVE  client' = client
  BY <1>16 DEF CreateTask
<1> HIDE DEF IInv
<1> QED
  BY <1>2, <1>5, <1>6, <1>7, <1>8, <1>9, <1>10, <1>11, <1>12, <1>13, <1>14, <1>15, <1>16
     DEF Next, RunnerStep, ApiStep, ProcessStep, WorkerStep, UpdateTask, ReplayTask, DeleteTask

\* A handler that loads a task is counted, whatever else happens.
LEMMA HandlersCounted ==
  ASSUME IInv, NoHandlers, [Next]_vars
  PROVE  NoHandlers'
<1>1. ops \in Nat
  BY DEF IInv, TypeOK
<1>2. \/ ops' = ops + 1
      \/ ops' = ops /\ \A c \in Client : client'[c] = client[c] \/ client'[c] = None
  <2>1. ASSUME NEW c \in Client, Apply(c)
        PROVE  ops' = ops /\ \A d \in Client : client'[d] = client[d] \/ client'[d] = None
    BY <2>1 DEF Apply, IInv, TypeOK, budget
  <2>2. CASE Exit \/ Crash
    BY <2>2 DEF Exit, Crash, budget
  <2>3. CASE \/ \E c \in Client, id \in Id : \E t : Load(c, id, t)
             \/ \E f \in Filter : DeleteTasks(f)
    BY <2>3 DEF Load, DeleteTasks
  <2>4. CASE UNCHANGED <<ops, client>>
    BY <2>4
  <2>5. ASSUME NEW w \in Worker, WorkerStep(w) PROVE UNCHANGED <<ops, client>>
    <3>1. CASE TimerFires(w) \/ Abort(w) \/ AcquireSlot(w) \/ DropRun(w) \/ Commit(w)
      BY <3>1 DEF TimerFires, Abort, AcquireSlot, DropRun, Commit, budget
    <3>2. CASE MarkRunning(w) \/ Execute(w) \/ Finalize(w) \/ NotifyFailure(w) \/ Reschedule(w)
      BY <3>2 DEF MarkRunning, Execute, Finalize, NotifyFailure, Reschedule, budget
    <3> QED
      BY <2>5, <3>1, <3>2 DEF WorkerStep
  <2>6. CASE RunnerStep
    BY <2>4, <2>5, <2>6 DEF RunnerStep, GetDueTasks, SkipClaimed, Dispatch, budget
  <2>7. CASE ApiStep
    <3>1. ASSUME NEW id \in Id, NEW c \in Content, NEW at \in 1..MaxTime, CreateTask(id, c, at)
          PROVE  UNCHANGED <<ops, client>>
      BY <3>1 DEF CreateTask, budget
    <3> QED
      BY <2>1, <2>3, <2>4, <2>7, <3>1 DEF ApiStep, UpdateTask, ReplayTask, DeleteTask
  <2>8. CASE ProcessStep
    BY <2>2, <2>4, <2>8 DEF ProcessStep, Stop, Drain, Restart, Advance, Expire, budget
  <2> QED
    BY <2>4, <2>6, <2>7, <2>8 DEF Next, vars
<1> QED
  BY <1>1, <1>2 DEF NoHandlers

\* A goroutine's step and the other goroutines, none of which has its task.
LEMMA Others ==
  ASSUME IInv, NEW w \in Worker, WorkerStep(w)
  PROVE  /\ worker[w] \in Run /\ worker[w] # None
         /\ worker[w].id \in Id /\ worker[w].task \in Task /\ worker[w].fireTime \in Nat
         /\ worker'[w] # None => worker'[w].id = worker[w].id
         /\ \A v \in Worker \ {w} :
              /\ worker'[v] = worker[v]
              /\ Committed(v)' <=> Committed(v)
              /\ Heir(v)' <=> Heir(v)
              /\ Waiting(v)' <=> Waiting(v)
              /\ worker[v] # None => worker[v].id # worker[w].id
         /\ \A id \in Id \ {worker[w].id} : CommittedTo(id)' <=> CommittedTo(id)
         /\ CommittedTo(worker[w].id) <=> Committed(w)
         /\ \A id \in Id : id = worker[w].id => (CommittedTo(id)' <=> Committed(w)')
<1> USE DEF IInv
<1>1. worker[w] \in Run /\ worker[w] # None
  BY WorkerMoves, NoneAssumption
<1>2. worker[w].id \in Id /\ worker[w].task \in Task /\ worker[w].fireTime \in Nat
  BY <1>1 DEF Run
<1>3. worker'[w] # None => worker'[w].id = worker[w].id
  BY Survivor DEF MovesOn
<1>4. \A v \in Worker \ {w} : worker'[v] = worker[v] /\ (worker[v] # None => worker[v].id # worker[w].id)
  BY <1>1, OthersStay DEF ClaimExclusive
<1>5. \A v \in Worker \ {w} : /\ Committed(v)' <=> Committed(v)
                              /\ Heir(v)' <=> Heir(v)
                              /\ Waiting(v)' <=> Waiting(v)
  BY <1>4 DEF Committed, Heir, Waiting
<1>6. \A id \in Id \ {worker[w].id} : CommittedTo(id)' <=> CommittedTo(id)
  BY CommittedElsewhere
<1>7. CommittedTo(worker[w].id) <=> Committed(w)
  BY <1>4 DEF CommittedTo, Committed
<1>8. ASSUME NEW id \in Id, id = worker[w].id PROVE CommittedTo(id)' <=> Committed(w)'
  BY <1>3, <1>4, <1>8 DEF CommittedTo, Committed
<1> QED
  BY <1>1, <1>2, <1>3, <1>4, <1>5, <1>6, <1>7, <1>8

-----------------------------------------------------------------------------
(* The invariant is inductive.                                             *)

\* What has to hold after a step that leaves the system calm.
Kept == Rooted /\ RunsStored /\ OneToken /\ Logs

\* Quiet steps keep unfinished records unfinished, and running goroutines.
LEMMA QuietFields ==
  ASSUME TypeOK, Quiet
  PROVE  /\ \A id \in Id : store'[id] # None =>
              /\ store[id] # None /\ store'[id].chain = store[id].chain
              /\ store'[id].content = store[id].content /\ store'[id].attempts = store[id].attempts
              /\ Unfinished(id)' => Unfinished(id)
         /\ \A id \in Id : Unfinished(id) => Unfinished(id)'
         /\ \A w \in Worker : /\ Waiting(w)' <=> Waiting(w)
                              /\ ~Waiting(w) => worker'[w] = worker[w]
<1>1. \A id \in Id : store'[id] # None =>
        /\ store[id] # None /\ store'[id].chain = store[id].chain
        /\ store'[id].content = store[id].content /\ store'[id].attempts = store[id].attempts
        /\ Unfinished(id)' => Unfinished(id)
  <2> SUFFICES ASSUME NEW id \in Id, store'[id] # None
               PROVE  /\ store[id] # None /\ store'[id].chain = store[id].chain
                      /\ store'[id].content = store[id].content
                      /\ store'[id].attempts = store[id].attempts
                      /\ Unfinished(id)' => Unfinished(id)
    OBVIOUS
  <2>1. CASE store'[id] = store[id]
    BY <2>1 DEF Unfinished
  <2>2. CASE /\ store[id] # None /\ store[id].status = "running"
             /\ store'[id] = [store[id] EXCEPT !.status = "pending"]
    <3>1. store[id] \in Task
      BY <2>2 DEF TypeOK
    <3> QED
      BY <2>2, <3>1 DEF Task, Unfinished
  <2> QED
    BY <2>1, <2>2 DEF Quiet
<1>2. \A id \in Id : Unfinished(id) => Unfinished(id)'
  <2> SUFFICES ASSUME NEW id \in Id, Unfinished(id) PROVE Unfinished(id)'
    OBVIOUS
  <2>1. CASE store'[id] = store[id]
    BY <2>1 DEF Unfinished
  <2>2. CASE store'[id] = [store[id] EXCEPT !.status = "pending"]
    <3>1. store[id] \in Task
      BY DEF TypeOK, Unfinished
    <3>2. [store[id] EXCEPT !.status = "pending"] \in Task
      BY <3>1, StatusTask DEF Status
    <3> QED
      BY <2>2, <3>1, <3>2, NoneAssumption DEF Task, Unfinished
  <2> QED
    BY <2>1, <2>2 DEF Quiet, Unfinished, IsTerminal
<1>3. \A w \in Worker : /\ Waiting(w)' <=> Waiting(w)
                        /\ ~Waiting(w) => worker'[w] = worker[w]
  BY DEF Quiet, Waiting
<1> QED
  BY <1>1, <1>2, <1>3

\* Expiry, recovery, ticks and waiting goroutines.
LEMMA QuietKeeps ==
  ASSUME IInv, ChainInv, Calm, Quiet
  PROVE  Kept'
<1> USE DEF ChainInv
<1>1. \A id \in Id : store'[id] # None =>
        /\ store[id] # None /\ store'[id].chain = store[id].chain
        /\ store'[id].content = store[id].content /\ store'[id].attempts = store[id].attempts
        /\ Unfinished(id)' => Unfinished(id)
  BY QuietFields DEF IInv
<1>2. \A id \in Id : Unfinished(id) => Unfinished(id)'
  BY QuietFields DEF IInv
<1>3. \A w \in Worker : /\ Waiting(w)' <=> Waiting(w)
                        /\ ~Waiting(w) => worker'[w] = worker[w]
  BY QuietFields DEF IInv
<1>4. \A w \in Worker : /\ Committed(w) => ~Waiting(w)
                        /\ Heir(w) => ~Waiting(w)
                        /\ Committed(w)' => ~Waiting(w)'
                        /\ Heir(w)' => ~Waiting(w)'
  BY DEF Committed, Heir, Waiting
<1>5. \A w \in Worker : /\ Committed(w)' <=> Committed(w)
                        /\ Heir(w)' <=> Heir(w)
  <2> SUFFICES ASSUME NEW w \in Worker
               PROVE  (Committed(w)' <=> Committed(w)) /\ (Heir(w)' <=> Heir(w))
    OBVIOUS
  <2>1. CASE worker'[w] = worker[w]
    BY <2>1 DEF Committed, Heir
  <2> QED
    BY <1>3, <1>4, <2>1
<1>6. \A id \in Id : CommittedTo(id)' <=> CommittedTo(id)
  BY <1>3, <1>4, <1>5 DEF CommittedTo
<1>7. Rooted'
  BY <1>1, <1>3 DEF Rooted, Quiet
<1>8. RunsStored'
  <2> SUFFICES ASSUME NEW w \in Worker, Committed(w)'
               PROVE  /\ Unfinished(worker[w].id)'
                      /\ store'[worker'[w].id].chain = worker'[w].task.chain
                      /\ store'[worker'[w].id].content = worker'[w].task.content
    BY DEF RunsStored
  <2>1. Committed(w) /\ worker'[w] = worker[w] /\ worker[w].id \in Id
    BY <1>3, <1>4, <1>5 DEF Committed, IInv, TypeOK, Run
  <2> DEFINE id == worker[w].id
  <2>2. /\ Unfinished(id) /\ store[id].chain = worker[w].task.chain
        /\ store[id].content = worker[w].task.content
    BY <2>1 DEF RunsStored
  <2>3. store'[id] # None /\ store'[id].status \in {"pending", "running"}
    BY <1>2, <2>1, <2>2 DEF Unfinished
  <2> QED
    BY <1>1, <2>1, <2>2, <2>3 DEF Unfinished
<1>9. OneToken'
  <2>1. \A i \in Id : Unfinished(i)' => Unfinished(i) /\ store'[i].chain = store[i].chain
    BY <1>1 DEF Unfinished
  <2>2. \A w \in Worker : Heir(w)' => Heir(w) /\ worker'[w] = worker[w]
    BY <1>3, <1>4, <1>5
  <2> QED
    BY <2>1, <2>2 DEF OneToken
<1>10. Logs'
  <2> SUFFICES ASSUME crashes = 0
               PROVE  /\ \A id \in Id : LogOf(id)'
                      /\ \A w \in Worker : Committed(w)' => Sent(worker'[w].task) = fired'[worker'[w].id]
                      /\ \A id \in Id : arms'[id] = 0 => fired'[id] = 0
    BY DEF Logs, Quiet
  <2>1. \A id \in Id : LogOf(id)'
    BY <1>1, <1>6 DEF Logs, LogOf, Sent, Quiet
  <2>2. \A w \in Worker : Committed(w)' => Sent(worker'[w].task) = fired'[worker'[w].id]
    BY <1>3, <1>4, <1>5 DEF Logs, Quiet
  <2> QED
    BY <2>1, <2>2 DEF Logs, Quiet
<1> QED
  BY <1>7, <1>8, <1>9, <1>10 DEF Kept

\* A goroutine's step that saves no successor, and the chains and contents.
LEMMA RunKeeps ==
  ASSUME IInv, ChainInv, Calm, NEW w \in Worker, WorkerStep(w),
         NEW id \in Id, id = worker[w].id, arms' = arms,
         \A i \in Id \ {id} : store'[i] = store[i],
         store'[id] # None => store[id] # None /\ store'[id].chain = store[id].chain,
         ~Waiting(w)' => arms[worker'[w].task.chain] # 0,
         Committed(w)' => /\ Unfinished(id)' /\ store'[id].chain = worker'[w].task.chain
                          /\ store'[id].content = worker'[w].task.content
  PROVE  Rooted' /\ RunsStored'
<1> USE DEF ChainInv
<1>1. /\ worker'[w] # None => worker'[w].id = id
      /\ \A v \in Worker \ {w} :
           /\ worker'[v] = worker[v] /\ (Committed(v)' <=> Committed(v))
           /\ (Waiting(v)' <=> Waiting(v)) /\ (worker[v] # None => worker[v].id # id)
  BY Others
<1>2. Rooted'
  <2>1. \A i \in Id : store'[i] # None => arms'[store'[i].chain] # 0
    BY DEF Rooted
  <2>2. \A v \in Worker : ~Waiting(v)' => arms'[worker'[v].task.chain] # 0
    BY <1>1 DEF Rooted
  <2> QED
    BY <2>1, <2>2 DEF Rooted
<1>3. RunsStored'
  <2> SUFFICES ASSUME NEW v \in Worker, Committed(v)'
               PROVE  /\ Unfinished(worker[v].id)'
                      /\ store'[worker'[v].id].chain = worker'[v].task.chain
                      /\ store'[worker'[v].id].content = worker'[v].task.content
    BY DEF RunsStored
  <2>1. CASE v = w
    <3>1. worker'[w].id = id
      BY <1>1, <2>1 DEF Committed
    <3> QED
      BY <2>1, <3>1 DEF Unfinished
  <2>2. CASE v # w
    <3>1. Committed(v) /\ worker'[v] = worker[v] /\ worker[v].id # id /\ worker[v].id \in Id
      BY <1>1, <2>2 DEF Committed, IInv, TypeOK, Run
    <3>2. /\ Unfinished(worker[v].id) /\ store[worker[v].id].chain = worker[v].task.chain
          /\ store[worker[v].id].content = worker[v].task.content
      BY <3>1 DEF RunsStored
    <3>3. store'[worker[v].id] = store[worker[v].id]
      BY <3>1
    <3> QED
      BY <3>1, <3>2, <3>3 DEF Unfinished
  <2> QED
    BY <2>1, <2>2
<1> QED
  BY <1>2, <1>3

\* A goroutine's step that neither makes an heir nor an unfinished record.
LEMMA TokenKeeps ==
  ASSUME IInv, ChainInv, Calm, NEW w \in Worker, WorkerStep(w),
         NEW id \in Id, id = worker[w].id,
         \A i \in Id \ {id} : store'[i] = store[i],
         Unfinished(id)' => Unfinished(id) /\ store'[id].chain = store[id].chain,
         Heir(w)' => Heir(w) /\ worker'[w].task.chain = worker[w].task.chain
  PROVE  OneToken'
<1> USE DEF ChainInv
<1>1. \A v \in Worker : Heir(v)' => Heir(v) /\ worker'[v].task.chain = worker[v].task.chain
  BY Others
<1>2. \A i \in Id : Unfinished(i)' => Unfinished(i) /\ store'[i].chain = store[i].chain
  BY DEF Unfinished
<1> QED
  BY <1>1, <1>2 DEF OneToken

\* A goroutine's step and the logs: its own is right, in the copy or in the
\* store, and no other is touched.
LEMMA LogsKeep ==
  ASSUME IInv, ChainInv, Calm, NEW w \in Worker, WorkerStep(w),
         NEW id \in Id, id = worker[w].id, arms' = arms, crashes' = crashes,
         \A i \in Id \ {id} : store'[i] = store[i] /\ fired'[i] = fired[i],
         crashes = 0 /\ Committed(w)' => Sent(worker'[w].task) = fired'[id],
         crashes = 0 /\ ~Committed(w)' /\ store'[id] # None => Sent(store'[id]) = fired'[id]
  PROVE  Logs'
<1> USE DEF ChainInv
<1> SUFFICES ASSUME crashes = 0
             PROVE  /\ \A i \in Id : LogOf(i)'
                    /\ \A v \in Worker : Committed(v)' => Sent(worker'[v].task) = fired'[worker'[v].id]
                    /\ \A i \in Id : arms'[i] = 0 => fired'[i] = 0
  BY DEF Logs
<1>0. /\ \A i \in Id : LogOf(i)
      /\ \A v \in Worker : Committed(v) => Sent(worker[v].task) = fired[worker[v].id]
      /\ \A i \in Id : arms[i] = 0 => fired[i] = 0
  BY DEF Logs
<1>1. /\ worker[w] # None /\ (worker'[w] # None => worker'[w].id = id)
      /\ \A v \in Worker \ {w} :
           /\ worker'[v] = worker[v] /\ (Committed(v)' <=> Committed(v))
           /\ (worker[v] # None => worker[v].id # id)
      /\ \A i \in Id \ {id} : CommittedTo(i)' <=> CommittedTo(i)
      /\ CommittedTo(id)' <=> Committed(w)'
  BY Others
<1>2. arms[id] # 0
  BY <1>1 DEF IInv, UnsavedUnknown
<1>3. ASSUME NEW i \in Id PROVE LogOf(i)'
  <2>1. CASE i = id
    BY <1>1, <2>1 DEF LogOf
  <2>2. CASE i # id
    <3>1. store'[i] = store[i] /\ fired'[i] = fired[i] /\ (CommittedTo(i)' <=> CommittedTo(i))
      BY <1>1, <2>2
    <3> QED
      BY <1>0, <3>1 DEF LogOf
  <2> QED
    BY <2>1, <2>2
<1>4. ASSUME NEW v \in Worker, Committed(v)'
      PROVE  Sent(worker'[v].task) = fired'[worker'[v].id]
  <2>1. CASE v = w
    BY <1>1, <1>4, <2>1 DEF Committed
  <2>2. CASE v # w
    <3>1. Committed(v) /\ worker'[v] = worker[v] /\ worker[v].id # id /\ worker[v].id \in Id
      BY <1>1, <1>4, <2>2 DEF Committed, IInv, TypeOK, Run
    <3> QED
      BY <1>0, <3>1
  <2> QED
    BY <2>1, <2>2
<1>5. \A i \in Id : arms'[i] = 0 => fired'[i] = 0
  BY <1>0, <1>2
<1> QED
  BY <1>3, <1>4, <1>5

\* A goroutine that is running its task lives on.
LEMMA LivesOn ==
  ASSUME IInv, NEW w \in Worker,
         Commit(w) \/ MarkRunning(w) \/ Execute(w) \/ Finalize(w) \/ NotifyFailure(w)
  PROVE  worker'[w] \in Run /\ worker'[w] # None /\ worker'[w].id = worker[w].id
<1>1. WorkerStep(w) /\ TypeOK
  BY DEF WorkerStep, IInv
<1>2. worker[w] # None /\ worker[w].id \in Id
  BY <1>1, Others
<1>3. worker[w].id \in inflight /\ inflight' = inflight
  BY <1>2 DEF IInv, ClaimExclusive, Commit, MarkRunning, Execute, Finalize, NotifyFailure
<1>4. ~Return(w)
  BY <1>3 DEF Return
<1>5. PICK q : Goto(w, q) /\ MovesOn(worker[w], q)
  BY <1>1, <1>4, WorkerMoves
<1>6. worker'[w] = q
  BY <1>1, <1>5 DEF Goto, TypeOK
<1> QED
  BY <1>5, <1>6, NoneAssumption DEF MovesOn

\* A run begins with the record as it is stored.
LEMMA CommitKeeps ==
  ASSUME IInv, ChainInv, Calm, NEW w \in Worker, Commit(w)
  PROVE  Kept'
<1> DEFINE id == worker[w].id
           cur == store[id]
<1>0. WorkerStep(w) /\ TypeOK
  BY DEF WorkerStep, IInv
<1>1. id \in Id /\ store' = store /\ arms' = arms /\ fired' = fired /\ crashes' = crashes
  BY <1>0, Others DEF Commit, budget
<1>2. /\ cur \in Task /\ cur.status = "pending" /\ worker[w].pc = "reread"
      /\ worker'[w].pc \in {"mark", "finalize"}
      /\ worker'[w].task \in {cur, Skipped(cur)}
  BY <1>0, CommitFields
<1>3. cur.attempts \in Seq(Outcome) /\ "skipped" \in Outcome
  BY <1>2 DEF Task, Outcome
<1>4. /\ worker'[w].task.chain = cur.chain /\ worker'[w].task.content = cur.content
      /\ Sent(worker'[w].task) = Sent(cur)
  <2>1. CASE worker'[w].task = cur
    BY <2>1
  <2>2. CASE worker'[w].task = Skipped(cur)
    <3>1. /\ Skipped(cur).chain = cur.chain /\ Skipped(cur).content = cur.content
          /\ Skipped(cur).attempts = Append(cur.attempts, "skipped")
      BY <1>2 DEF Task, Skipped
    <3>2. Sent(Skipped(cur)) = Sent(cur)
      BY <1>3, <3>1, SentCounts
    <3> QED
      BY <2>2, <3>1, <3>2
  <2> QED
    BY <1>2, <2>1, <2>2
<1>5. cur # None /\ Unfinished(id)
  BY <1>2, NoneAssumption DEF Unfinished
<1>6. ~Committed(w) /\ ~Heir(w)' /\ arms[cur.chain] # 0
  BY <1>1, <1>2, <1>5 DEF Committed, Heir, ChainInv, Rooted
<1>7. crashes = 0 => Sent(cur) = fired[id]
  BY <1>0, <1>1, <1>5, <1>6, Others DEF ChainInv, Logs, LogOf
<1>8. Committed(w)'
  <2>1. worker'[w] # None
    BY LivesOn
  <2> QED
    BY <1>2, <2>1 DEF Committed
<1> HIDE DEF cur
<1>9. Rooted' /\ RunsStored'
  BY <1>0, <1>1, <1>4, <1>5, <1>6, RunKeeps DEF cur, Unfinished
<1>10. OneToken'
  BY <1>0, <1>1, <1>6, TokenKeeps DEF Unfinished
<1>11. Logs'
  BY <1>0, <1>1, <1>4, <1>7, <1>8, LogsKeep
<1> QED
  BY <1>9, <1>10, <1>11 DEF Kept

\* The record says running.
LEMMA MarkKeeps ==
  ASSUME IInv, ChainInv, Calm, Calm', NEW w \in Worker, MarkRunning(w)
  PROVE  Kept'
<1> DEFINE id == worker[w].id
           t == worker[w].task
           u == [t EXCEPT !.status = "running"]
<1>0. WorkerStep(w) /\ TypeOK
  BY DEF WorkerStep, IInv
<1>1. id \in Id /\ t \in Task /\ arms' = arms /\ fired' = fired /\ crashes' = crashes
  BY <1>0, Others DEF MarkRunning, budget, history
<1>2. worker[w].pc = "mark" /\ worker'[w].pc = "execute" /\ worker'[w].task = u
  BY <1>0, MarkFields
<1>3. /\ u \in Task /\ u.chain = t.chain /\ u.content = t.content /\ u.status = "running"
      /\ u.attempts = t.attempts /\ t.attempts \in Seq(Outcome)
  BY <1>1, StatusTask DEF Task, Status
<1>4. store' = [store EXCEPT ![id] = u]
  <2>1. ~StoreError
    BY DEF StoreError, Calm
  <2> QED
    BY <2>1 DEF MarkRunning, Put
<1>5. worker[w] # None /\ worker'[w] # None
  BY <1>0, Others, LivesOn
<1>6. Committed(w) /\ Committed(w)' /\ ~Heir(w)' /\ ~Waiting(w)
  BY <1>2, <1>5 DEF Committed, Heir, Waiting
<1>7. /\ Unfinished(id) /\ store[id].chain = t.chain /\ store[id].content = t.content
      /\ arms[t.chain] # 0
  BY <1>6 DEF ChainInv, RunsStored, Rooted
<1>8. Sent(u) = Sent(t)
  <2> HIDE DEF u, t
  <2>1. "ok" \in Outcome
    BY DEF Outcome
  <2> QED
    BY <1>3, <2>1, SentCounts
<1>9. crashes = 0 => Sent(t) = fired[id]
  BY <1>6 DEF ChainInv, Logs
<1> HIDE DEF u
<1>10. store'[id] = u /\ \A i \in Id \ {id} : store'[i] = store[i]
  BY <1>0, <1>1, <1>4 DEF TypeOK
<1>11. Unfinished(id)' /\ store[id] # None
  <2>1. u # None
    BY <1>3, NoneAssumption
  <2>2. worker'[w].id = id
    BY LivesOn
  <2> QED
    BY <1>3, <1>7, <1>10, <2>1, <2>2 DEF Unfinished
<1>12. store'[id].chain = t.chain /\ store'[id].content = t.content
  BY <1>3, <1>10
<1>13. PICK j \in Id : j = id
  BY <1>1
<1>14. Unfinished(j) /\ Unfinished(j)'
  <2>1. worker'[w].id = id
    BY LivesOn
  <2> QED
    BY <1>7, <1>11, <1>13, <2>1 DEF Unfinished
<1>15. Rooted' /\ RunsStored'
  BY <1>0, <1>1, <1>2, <1>3, <1>7, <1>10, <1>11, <1>12, <1>13, <1>14, RunKeeps
<1>16. OneToken'
  BY <1>0, <1>6, <1>7, <1>10, <1>12, <1>13, <1>14, TokenKeeps
<1>17. Logs'
  BY <1>0, <1>1, <1>2, <1>6, <1>8, <1>9, <1>10, <1>13, LogsKeep
<1> QED
  BY <1>15, <1>16, <1>17 DEF Kept

\* A request is sent, and logged in the goroutine's copy.
LEMMA ExecuteKeeps ==
  ASSUME IInv, ChainInv, Calm, NEW w \in Worker, Execute(w)
  PROVE  Kept'
<1> DEFINE t == worker[w].task
           u == worker'[w].task
<1>0. WorkerStep(w) /\ TypeOK
  BY DEF WorkerStep, IInv
<1>1. PICK id \in Id : id = worker[w].id
  BY <1>0, Others
<1>2. t \in Task /\ store' = store /\ arms' = arms /\ crashes' = crashes
  BY <1>0, Others DEF Execute, budget
<1>3. fired'[id] = fired[id] + 1 /\ \A i \in Id \ {id} : fired'[i] = fired[i]
  BY <1>0, <1>1 DEF Execute, TypeOK
<1>4. /\ worker[w].pc = "execute" /\ worker'[w].pc \in {"execute", "finalize"}
      /\ \/ u = Logged(t, "fail")
         \/ u = Finished(Logged(t, "ok"), "succeeded")
         \/ u = Finished(Logged(t, "fail"), "failed")
  BY <1>0, ExecuteFields
<1>5. worker[w] # None /\ worker'[w] # None
  BY <1>0, Others, LivesOn
<1>6. Committed(w) /\ Committed(w)' /\ ~Heir(w)' /\ ~Waiting(w)
  BY <1>4, <1>5 DEF Committed, Heir, Waiting
<1>7. /\ Unfinished(id) /\ store[id].chain = t.chain /\ store[id].content = t.content
      /\ arms[t.chain] # 0
  BY <1>1, <1>6 DEF ChainInv, RunsStored, Rooted
<1>8. \E o \in {"ok", "fail"} :
        u.chain = t.chain /\ u.content = t.content /\ u.attempts = Append(t.attempts, o)
  <2>1. ASSUME NEW o \in {"ok", "fail"}
        PROVE  /\ Logged(t, o) \in Task /\ Logged(t, o).chain = t.chain
               /\ Logged(t, o).content = t.content
               /\ Logged(t, o).attempts = Append(t.attempts, o)
    BY <1>2, LoggedTask DEF Task, Logged, Outcome
  <2>2. ASSUME NEW v \in Task, NEW s \in Status
        PROVE  /\ Finished(v, s).chain = v.chain /\ Finished(v, s).content = v.content
               /\ Finished(v, s).attempts = v.attempts
    BY DEF Task, Finished
  <2> HIDE DEF t, u
  <2> QED
    BY <1>4, <2>1, <2>2 DEF Status
<1>9. Sent(u) = Sent(t) + 1
  <2>1. t.attempts \in Seq(Outcome) /\ "ok" \in Outcome /\ "fail" \in Outcome
    BY <1>2 DEF Task, Outcome
  <2> HIDE DEF t, u
  <2> QED
    BY <1>8, <2>1, SentCounts
<1>10. crashes = 0 => Sent(t) = fired[id]
  BY <1>1, <1>6 DEF ChainInv, Logs
<1>11. Unfinished(id)' /\ store[id] # None
  BY <1>2, <1>7 DEF Unfinished
<1> HIDE DEF t, u
<1>12. Rooted' /\ RunsStored'
  BY <1>0, <1>1, <1>2, <1>7, <1>8, <1>11, RunKeeps DEF u
<1>13. OneToken'
  BY <1>0, <1>1, <1>2, <1>6, <1>7, <1>11, TokenKeeps
<1>14. Logs'
  BY <1>0, <1>1, <1>2, <1>3, <1>6, <1>9, <1>10, LogsKeep DEF u
<1> QED
  BY <1>12, <1>13, <1>14 DEF Kept

\* The callback changes nothing the invariant speaks of.
LEMMA NotifyKeeps ==
  ASSUME IInv, ChainInv, Calm, NEW w \in Worker, NotifyFailure(w)
  PROVE  Kept'
<1>0. WorkerStep(w) /\ TypeOK
  BY DEF WorkerStep, IInv
<1>1. PICK id \in Id : id = worker[w].id
  BY <1>0, Others
<1>2. store' = store /\ arms' = arms /\ fired' = fired /\ crashes' = crashes
  BY DEF NotifyFailure, budget, history
<1>3. /\ worker[w].pc = "notify" /\ worker'[w].pc \in {"notify", "reschedule"}
      /\ worker'[w].task = worker[w].task /\ worker'[w].next = worker[w].next
  BY <1>0, EndFields DEF NotifyFailure, At
<1>4. worker[w] # None /\ worker'[w] # None
  BY <1>0, Others, LivesOn
<1>5. ~Committed(w) /\ ~Committed(w)' /\ (Heir(w)' <=> Heir(w)) /\ ~Waiting(w)
  BY <1>3, <1>4 DEF Committed, Heir, Waiting
<1>6. arms[worker[w].task.chain] # 0
  BY <1>5 DEF ChainInv, Rooted
<1>7. crashes = 0 /\ store[id] # None => Sent(store[id]) = fired[id]
  BY <1>0, <1>1, <1>5, Others DEF ChainInv, Logs, LogOf
<1>8. Rooted' /\ RunsStored'
  BY <1>0, <1>1, <1>2, <1>3, <1>5, <1>6, RunKeeps
<1>9. OneToken'
  BY <1>0, <1>1, <1>2, <1>3, <1>5, TokenKeeps DEF Unfinished
<1>10. Logs'
  BY <1>0, <1>1, <1>2, <1>5, <1>7, LogsKeep
<1> QED
  BY <1>8, <1>9, <1>10 DEF Kept

\* How the run ended is recorded: the chain's token passes from the record to
\* the goroutine, if the task recurs.
LEMMA FinalizeKeeps ==
  ASSUME IInv, ChainInv, Calm, Calm', NEW w \in Worker, Finalize(w)
  PROVE  Kept'
<1> DEFINE t == worker[w].task
<1>0. WorkerStep(w) /\ TypeOK
  BY DEF WorkerStep, IInv
<1>1. PICK id \in Id : id = worker[w].id
  BY <1>0, Others
<1>2. t \in Task /\ t # None /\ arms' = arms /\ fired' = fired /\ crashes' = crashes
  BY <1>0, Others, NoneAssumption DEF Finalize, budget, history
<1>3. /\ worker[w].pc = "finalize" /\ worker'[w].pc \in {"notify", "reschedule"}
      /\ worker'[w].task = t
  BY <1>0, EndFields DEF Finalize, At
<1>4. store'[id] = t /\ \A i \in Id \ {id} : store'[i] = store[i]
  <2>1. ~StoreError
    BY DEF StoreError, Calm
  <2> QED
    BY <1>0, <1>1, <2>1 DEF Finalize, Put, TypeOK
<1>5. worker[w] # None /\ worker'[w] # None
  BY <1>0, Others, LivesOn
<1>6. Committed(w) /\ ~Committed(w)' /\ ~Waiting(w)
  BY <1>3, <1>5 DEF Committed, Waiting
<1>7. t.status \in {"succeeded", "failed"}
  BY <1>3, <1>5 DEF IInv, GoroutineCopies
<1>8. /\ Unfinished(id) /\ store[id] # None /\ store[id].chain = t.chain /\ arms[t.chain] # 0
  BY <1>1, <1>6 DEF ChainInv, RunsStored, Rooted, Unfinished
<1>9. crashes = 0 => Sent(t) = fired[id]
  BY <1>1, <1>6 DEF ChainInv, Logs
<1>10. ~Unfinished(id)'
  BY <1>4, <1>7 DEF Unfinished
<1> HIDE DEF t
<1>11. Rooted' /\ RunsStored'
  BY <1>0, <1>1, <1>2, <1>3, <1>4, <1>6, <1>8, RunKeeps
<1>12. Logs'
  BY <1>0, <1>1, <1>2, <1>4, <1>6, <1>9, LogsKeep
<1>13. OneToken'
  <2>1. \A i \in Id : Unfinished(i)' => /\ i # id /\ Unfinished(i) /\ store'[i].chain = store[i].chain
    BY <1>4, <1>10 DEF Unfinished
  <2>2. \A i \in Id : Unfinished(i)' => store'[i].chain # t.chain
    BY <1>8, <2>1 DEF ChainInv, OneToken
  <2>3. \A v \in Worker \ {w} : Heir(v)' => /\ Heir(v) /\ worker'[v] = worker[v]
                                            /\ worker[v].task.chain # t.chain
    BY <1>0, <1>8, Others DEF ChainInv, OneToken
  <2> QED
    BY <1>3, <2>1, <2>2, <2>3 DEF ChainInv, OneToken
<1> QED
  BY <1>11, <1>12, <1>13 DEF Kept

\* The successor takes the chain's token over from the goroutine.
LEMMA RescheduleKeeps ==
  ASSUME IInv, ChainInv, Calm, Calm', NEW w \in Worker, Reschedule(w)
  PROVE  Kept'
<1> DEFINE t == worker[w].task
<1>0. WorkerStep(w) /\ TypeOK
  BY DEF WorkerStep, IInv
<1>1. PICK id \in Id : id = worker[w].id
  BY <1>0, Others
<1>2. /\ t \in Task /\ worker[w].fireTime \in Nat /\ fired' = fired /\ crashes' = crashes
      /\ worker[w] # None /\ worker[w].pc = "reschedule"
  BY <1>0, Others DEF Reschedule, At, budget
<1>3. worker'[w] = None
  BY <1>0 DEF Reschedule, Return, Goto, TypeOK
<1>4. ~Committed(w) /\ ~Committed(w)' /\ Waiting(w)' /\ ~Heir(w)' /\ ~Waiting(w)
  BY <1>2, <1>3 DEF Committed, Waiting, Heir
<1>5. ~StoreError
  BY DEF StoreError, Calm
<1>6. worker[w].next # None <=> recurs(t)
  BY <1>2 DEF IInv, SuccessorReserved, recurs
<1>7. CASE ~recurs(t)
  <2>1. store' = store /\ arms' = arms
    BY <1>7 DEF Reschedule
  <2>2. crashes = 0 /\ store[id] # None => Sent(store[id]) = fired[id]
    BY <1>0, <1>1, <1>4, Others DEF ChainInv, Logs, LogOf
  <2> HIDE DEF t
  <2>3. Rooted' /\ RunsStored'
    BY <1>0, <1>1, <1>4, <2>1, RunKeeps
  <2>4. OneToken'
    BY <1>0, <1>1, <1>4, <2>1, TokenKeeps DEF Unfinished
  <2>5. Logs'
    BY <1>0, <1>1, <1>2, <1>4, <2>1, <2>2, LogsKeep
  <2> QED
    BY <2>3, <2>4, <2>5 DEF Kept
<1>8. CASE recurs(t)
  <2>1. PICK n \in Id : n = worker[w].next
    BY <1>0, <1>2, <1>6, <1>8 DEF TypeOK, Run
  <2> DEFINE s == Successor(t, worker[w].fireTime)
  <2>2. store' = [store EXCEPT ![n] = s] /\ arms' = [arms EXCEPT ![n] = 1]
    BY <1>5, <1>8, <2>1 DEF Reschedule, Put
  <2>3. /\ s.chain = t.chain /\ s.content = t.content /\ s.status = "pending" /\ s.attempts = << >>
    BY <1>2 DEF Task, Successor
  <2>4. s \in Task /\ s # None
    BY <1>2, SuccessorTask, NoneAssumption
  <2>5. Sent(s) = 0
    <3>1. t.attempts \in Seq(Outcome) /\ "ok" \in Outcome
      BY <1>2 DEF Task, Outcome
    <3> HIDE DEF t, s
    <3> QED
      BY <2>3, <3>1, SentCounts
  <2>6. arms[n] = 0 /\ n # None
    BY <1>2, <1>6, <1>8, <2>1 DEF IInv, SuccessorReserved
  <2>7. store[n] = None /\ \A v \in Worker : worker[v] # None => worker[v].id # n
    BY <2>6 DEF IInv, UnsavedUnknown
  <2>8. Heir(w) /\ arms[t.chain] # 0 /\ t.chain \in Id
    BY <1>2, <1>4, <1>6, <1>8 DEF Heir, ChainInv, Rooted, Task
  <2> HIDE DEF t, s
  <2>9. /\ store'[n] = s /\ arms'[n] = 1
        /\ \A i \in Id \ {n} : store'[i] = store[i] /\ arms'[i] = arms[i]
    BY <1>0, <2>2 DEF TypeOK
  <2>10. /\ \A v \in Worker \ {w} :
              /\ worker'[v] = worker[v] /\ (Committed(v)' <=> Committed(v))
              /\ (Waiting(v)' <=> Waiting(v)) /\ (Heir(v)' <=> Heir(v))
         /\ \A i \in Id : CommittedTo(i)' <=> CommittedTo(i)
    BY <1>0, <1>1, <1>4, Others
  <2>11. \A i \in Id : arms[i] # 0 => arms'[i] # 0
    BY <2>9
  <2>12. \A v \in Worker : ~Waiting(v) => worker[v].task.chain \in Id
    BY <1>0 DEF TypeOK, Waiting, Run, Task
  <2>13. \A i \in Id : store[i] # None => store[i].chain \in Id
    BY <1>0 DEF TypeOK, Task
  <2>14. Rooted'
    <3>1. ASSUME NEW i \in Id, store'[i] # None PROVE arms'[store'[i].chain] # 0
      <4>1. CASE i = n
        BY <2>3, <2>8, <2>9, <2>11, <4>1
      <4>2. CASE i # n
        BY <2>9, <2>11, <2>13, <3>1, <4>2 DEF ChainInv, Rooted
      <4> QED
        BY <4>1, <4>2
    <3>2. ASSUME NEW v \in Worker, ~Waiting(v)' PROVE arms'[worker'[v].task.chain] # 0
      BY <1>4, <2>10, <2>11, <2>12, <3>2 DEF ChainInv, Rooted
    <3> QED
      BY <3>1, <3>2 DEF Rooted
  <2>15. RunsStored'
    <3> SUFFICES ASSUME NEW v \in Worker, Committed(v)'
                 PROVE  /\ Unfinished(worker[v].id)'
                        /\ store'[worker'[v].id].chain = worker'[v].task.chain
                        /\ store'[worker'[v].id].content = worker'[v].task.content
      BY DEF RunsStored
    <3>1. v # w /\ Committed(v) /\ worker'[v] = worker[v]
      BY <1>4, <2>10
    <3>2. worker[v].id # n /\ worker[v].id \in Id
      BY <1>0, <2>7, <3>1 DEF Committed, TypeOK, Run
    <3>3. /\ Unfinished(worker[v].id) /\ store[worker[v].id].chain = worker[v].task.chain
          /\ store[worker[v].id].content = worker[v].task.content
      BY <3>1 DEF ChainInv, RunsStored
    <3>4. store'[worker[v].id] = store[worker[v].id]
      BY <2>9, <3>2
    <3> QED
      BY <3>1, <3>3, <3>4 DEF Unfinished
  <2>16. OneToken'
    <3>1. \A i \in Id \ {n} : Unfinished(i)' =>
            Unfinished(i) /\ store'[i].chain = store[i].chain /\ store[i].chain # t.chain
      BY <2>8, <2>9 DEF Unfinished, ChainInv, OneToken, t
    <3>2. store'[n].chain = t.chain
      BY <2>3, <2>9
    <3>3. \A v \in Worker : Heir(v)' =>
            Heir(v) /\ worker'[v] = worker[v] /\ worker[v].task.chain # t.chain
      BY <1>4, <2>8, <2>10 DEF ChainInv, OneToken, t
    <3> QED
      BY <3>1, <3>2, <3>3 DEF ChainInv, OneToken
  <2>17. Logs'
    <3> SUFFICES ASSUME crashes = 0
                 PROVE  /\ \A i \in Id : LogOf(i)'
                        /\ \A v \in Worker : Committed(v)' =>
                             Sent(worker'[v].task) = fired'[worker'[v].id]
                        /\ \A i \in Id : arms'[i] = 0 => fired'[i] = 0
      BY <1>2 DEF Logs
    <3>1. ASSUME NEW i \in Id PROVE LogOf(i)'
      <4>1. CASE i = n
        BY <1>2, <2>5, <2>6, <2>9, <4>1 DEF LogOf, ChainInv, Logs
      <4>2. CASE i # n
        <5>1. store'[i] = store[i] /\ (CommittedTo(i)' <=> CommittedTo(i))
          BY <2>9, <2>10, <4>2
        <5> QED
          BY <1>2, <5>1 DEF LogOf, ChainInv, Logs
      <4> QED
        BY <4>1, <4>2
    <3>2. \A v \in Worker : Committed(v)' => Sent(worker'[v].task) = fired'[worker'[v].id]
      BY <1>2, <1>4, <2>10 DEF ChainInv, Logs
    <3>3. \A i \in Id : arms'[i] = 0 => fired'[i] = 0
      BY <1>2, <2>9 DEF ChainInv, Logs
    <3> QED
      BY <3>1, <3>2, <3>3
  <2> QED
    BY <2>14, <2>15, <2>16, <2>17 DEF Kept
<1> QED
  BY <1>7, <1>8

\* A new task begins a chain of its own.
LEMMA CreateKeeps ==
  ASSUME IInv, ChainInv, Calm, NEW n \in Id, NEW c \in Content, NEW at \in 1..MaxTime,
         CreateTask(n, c, at)
  PROVE  Kept'
<1> DEFINE s == NewTask(n, c, at)
<1>0. TypeOK
  BY DEF IInv
<1>1. /\ store' = [store EXCEPT ![n] = s] /\ arms' = [arms EXCEPT ![n] = 1]
      /\ worker' = worker /\ fired' = fired /\ crashes' = crashes
  BY DEF CreateTask, Put, budget
<1>2. s.chain = n /\ s.status = "pending" /\ s.attempts = << >>
  BY DEF NewTask
<1>3. Sent(s) = 0
  <2>1. << >> \in Seq(Outcome) /\ "ok" \in Outcome
    BY DEF Outcome
  <2> HIDE DEF s
  <2> QED
    BY <1>2, <2>1, SentCounts
<1>4. arms[n] = 0
  BY DEF CreateTask, Fresh
<1>5. store[n] = None /\ \A v \in Worker : worker[v] # None => worker[v].id # n
  BY <1>4 DEF IInv, UnsavedUnknown
<1> HIDE DEF s
<1>6. /\ store'[n] = s /\ arms'[n] = 1
      /\ \A i \in Id \ {n} : store'[i] = store[i] /\ arms'[i] = arms[i]
  BY <1>0, <1>1 DEF TypeOK
<1>7. \A i \in Id : arms[i] # 0 => arms'[i] # 0
  BY <1>6
<1>8. /\ \A i \in Id : store[i] # None => store[i].chain \in Id /\ store[i].chain # n
      /\ \A v \in Worker : ~Waiting(v) => worker[v].task.chain \in Id /\ worker[v].task.chain # n
  <2>1. \A i \in Id : store[i] # None => store[i].chain \in Id
    BY <1>0 DEF TypeOK, Task
  <2>2. \A v \in Worker : ~Waiting(v) => worker[v].task.chain \in Id
    BY <1>0 DEF TypeOK, Waiting, Run, Task
  <2> QED
    BY <1>4, <2>1, <2>2 DEF ChainInv, Rooted
<1>9. \A v \in Worker : /\ Committed(v)' <=> Committed(v)
                        /\ Waiting(v)' <=> Waiting(v)
                        /\ Heir(v)' <=> Heir(v)
                        /\ Heir(v) => ~Waiting(v)
  BY <1>1 DEF Committed, Waiting, Heir
<1>10. \A i \in Id : CommittedTo(i)' <=> CommittedTo(i)
  BY <1>1, <1>9 DEF CommittedTo
<1>11. Rooted'
  <2>1. \A i \in Id : store'[i] # None => arms'[store'[i].chain] # 0
    BY <1>2, <1>6, <1>7, <1>8 DEF ChainInv, Rooted
  <2>2. \A v \in Worker : ~Waiting(v)' => arms'[worker'[v].task.chain] # 0
    BY <1>1, <1>7, <1>8, <1>9 DEF ChainInv, Rooted
  <2> QED
    BY <2>1, <2>2 DEF Rooted
<1>12. RunsStored'
  <2> SUFFICES ASSUME NEW v \in Worker, Committed(v)'
               PROVE  /\ Unfinished(worker[v].id)'
                      /\ store'[worker'[v].id].chain = worker'[v].task.chain
                      /\ store'[worker'[v].id].content = worker'[v].task.content
    BY DEF RunsStored
  <2>1. Committed(v) /\ worker'[v] = worker[v]
    BY <1>1, <1>9
  <2>2. worker[v].id # n /\ worker[v].id \in Id
    BY <1>0, <1>5, <2>1 DEF Committed, TypeOK, Run
  <2>3. /\ Unfinished(worker[v].id) /\ store[worker[v].id].chain = worker[v].task.chain
        /\ store[worker[v].id].content = worker[v].task.content
    BY <2>1 DEF ChainInv, RunsStored
  <2>4. store'[worker[v].id] = store[worker[v].id]
    BY <1>6, <2>2
  <2> QED
    BY <2>1, <2>3, <2>4 DEF Unfinished
<1>13. OneToken'
  <2>1. \A i \in Id \ {n} : Unfinished(i)' =>
          Unfinished(i) /\ store'[i].chain = store[i].chain /\ store[i].chain # n
    BY <1>6, <1>8 DEF Unfinished
  <2>2. store'[n].chain = n
    BY <1>2, <1>6
  <2>3. \A v \in Worker : Heir(v)' =>
          Heir(v) /\ worker'[v] = worker[v] /\ worker[v].task.chain # n
    BY <1>1, <1>8, <1>9
  <2> QED
    BY <2>1, <2>2, <2>3 DEF ChainInv, OneToken
<1>14. Logs'
  <2> SUFFICES ASSUME crashes = 0
               PROVE  /\ \A i \in Id : LogOf(i)'
                      /\ \A v \in Worker : Committed(v)' =>
                           Sent(worker'[v].task) = fired'[worker'[v].id]
                      /\ \A i \in Id : arms'[i] = 0 => fired'[i] = 0
    BY <1>1 DEF Logs
  <2>1. ASSUME NEW i \in Id PROVE LogOf(i)'
    <3>1. CASE i = n
      BY <1>1, <1>3, <1>4, <1>6, <3>1 DEF LogOf, ChainInv, Logs
    <3>2. CASE i # n
      <4>1. store'[i] = store[i] /\ (CommittedTo(i)' <=> CommittedTo(i))
        BY <1>6, <1>10, <3>2
      <4> QED
        BY <1>1, <4>1 DEF LogOf, ChainInv, Logs
    <3> QED
      BY <3>1, <3>2
  <2>2. \A v \in Worker : Committed(v)' => Sent(worker'[v].task) = fired'[worker'[v].id]
    BY <1>1, <1>9 DEF ChainInv, Logs
  <2>3. \A i \in Id : arms'[i] = 0 => fired'[i] = 0
    BY <1>1, <1>6 DEF ChainInv, Logs
  <2> QED
    BY <2>1, <2>2, <2>3
<1> QED
  BY <1>11, <1>12, <1>13, <1>14 DEF Kept

\* A crash ends the goroutines and their claims on the chains; the records stay.
LEMMA CrashKeeps ==
  ASSUME IInv, ChainInv, Calm, Crash
  PROVE  Kept'
<1>1. /\ store' = store /\ arms' = arms /\ crashes' = crashes + 1 /\ crashes \in Nat
      /\ \A w \in Worker : worker'[w] = None
  BY DEF Crash, history, IInv, TypeOK
<1>2. \A w \in Worker : ~Committed(w)' /\ Waiting(w)' /\ ~Heir(w)'
  BY <1>1 DEF Committed, Waiting, Heir
<1>3. \A i \in Id : Unfinished(i)' <=> Unfinished(i)
  BY <1>1 DEF Unfinished
<1>4. Rooted' /\ RunsStored'
  BY <1>1, <1>2 DEF ChainInv, Rooted, RunsStored
<1>5. OneToken'
  BY <1>1, <1>2, <1>3 DEF ChainInv, OneToken
<1>6. Logs'
  BY <1>1 DEF Logs
<1> QED
  BY <1>4, <1>5, <1>6 DEF Kept

\* Every step keeps the invariant.
LEMMA ChainInductive ==
  ASSUME IInv, ChainInv, [Next]_vars
  PROVE  ChainInv'
<1>1. NoHandlers'
  BY HandlersCounted DEF ChainInv
<1>2. CASE ~Calm'
  BY <1>1, <1>2 DEF ChainInv, Rooted, RunsStored, OneToken, Logs
<1>3. CASE Calm'
  <2>1. /\ Calm
        /\ \/ Quiet
           \/ \E w \in Worker : \/ Commit(w) \/ MarkRunning(w) \/ Execute(w)
                                \/ Finalize(w) \/ NotifyFailure(w) \/ Reschedule(w)
           \/ \E id \in Id, c \in Content, at \in 1..MaxTime : CreateTask(id, c, at)
           \/ Crash
    BY <1>3, CalmSteps DEF ChainInv
  <2>2. Kept'
    BY <1>3, <2>1, QuietKeeps, CommitKeeps, MarkKeeps, ExecuteKeeps, FinalizeKeeps, NotifyKeeps,
       RescheduleKeeps, CreateKeeps, CrashKeeps
  <2> QED
    BY <1>1, <2>2 DEF Kept, ChainInv
<1> QED
  BY <1>2, <1>3

-----------------------------------------------------------------------------
(* The theorems.                                                           *)

\* The invariant of calm systems holds of every reachable state.
THEOREM ChainInvariance == Spec => []ChainInv
<1>1. Init => ChainInv
  <2> SUFFICES ASSUME Init PROVE ChainInv
    OBVIOUS
  <2>1. /\ \A w \in Worker : worker[w] = None
        /\ \A c \in Client : client[c] = None
        /\ \A id \in Id : store[id] = None /\ fired[id] = 0
    BY DEF Init
  <2> QED
    BY <2>1 DEF ChainInv, NoHandlers, Rooted, RunsStored, OneToken, Logs, Waiting, Committed,
                Heir, Unfinished, LogOf
<1>2. IInv /\ ChainInv /\ [Next]_vars => ChainInv'
  BY ChainInductive
<1> QED
  BY <1>1, <1>2, Invariance, PTL DEF Spec

\* While no client edits a task and no store transaction fails, the attempt
\* log of every task that is not being run holds each request the receiver was
\* sent, retries and earlier runs included.
THEOREM LogsAreComplete == Spec => []LogComplete
<1>1. ChainInv => LogComplete
  BY DEF ChainInv, Logs, LogComplete, Calm
<1> QED
  BY <1>1, ChainInvariance, PTL

\* A set any two members of which are equal has at most one.
LEMMA AtMostOne ==
  ASSUME NEW S, \A x, y \in S : x = y
  PROVE  Cardinality(S) = (IF S = {} THEN 0 ELSE 1)
<1>1. CASE S = {}
  BY <1>1, FS_EmptySet
<1>2. CASE S # {}
  <2>1. PICK x : S = {x}
    BY <1>2
  <2> QED
    BY <1>2, <2>1, FS_Singleton
<1> QED
  BY <1>1, <1>2

\* A recurring chain nobody edits never forks, crashes and restarts included:
\* at most one member is unfinished or about to be saved.
THEOREM ChainsDoNotFork == Spec => []NoFork
<1>1. ChainInv => NoFork
  <2> SUFFICES ASSUME ChainInv, Calm, NEW root \in Id
               PROVE  Cardinality({id \in Id : Unfinished(id) /\ store[id].chain = root})
                        + Cardinality(Successors(root)) <= 1
    BY DEF NoFork, Calm
  <2> DEFINE U == {id \in Id : Unfinished(id) /\ store[id].chain = root}
             H == Successors(root)
  <2>1. \A w \in H : w \in Worker /\ Heir(w) /\ worker[w].task.chain = root
    BY DEF Successors, Heir
  <2>2. \A x, y \in U : x = y
    BY DEF ChainInv, OneToken
  <2>3. \A x, y \in H : x = y
    BY <2>1 DEF ChainInv, OneToken
  <2>4. U = {} \/ H = {}
    BY <2>1 DEF ChainInv, OneToken
  <2> HIDE DEF U, H
  <2>5. Cardinality(U) = (IF U = {} THEN 0 ELSE 1) /\ Cardinality(H) = (IF H = {} THEN 0 ELSE 1)
    BY <2>2, <2>3, AtMostOne
  <2>6. Cardinality(U) + Cardinality(H) <= 1
    BY <2>4, <2>5
  <2> QED
    BY <2>6 DEF U, H
<1> QED
  BY <1>1, ChainInvariance, PTL

\* A step of a system nobody disturbs, and a chain that has a member to run or
\* a goroutine that will save one.
LEMMA ChainStays ==
  ASSUME IInv, ChainInv, [Next]_vars, Calm', crashes' = 0, NEW root \in Id, ChainLive(root)
  PROVE  ChainLive(root)'
<1>0. TypeOK /\ Calm
  BY CalmSteps DEF IInv, ChainInv
<1> DEFINE Member(i) == /\ Unfinished(i) /\ store[i].chain = root
                        /\ Schedule[store[i].content] > 0
           Owner(w)  == worker[w] # None /\ worker[w].next # None /\ worker[w].task.chain = root
<1>1. /\ ChainLive(root)  <=> \/ \E i \in Id : Member(i)
                              \/ \E w \in Worker : Owner(w)
      /\ ChainLive(root)' <=> \/ \E i \in Id : Member(i)'
                              \/ \E w \in Worker : Owner(w)'
  BY DEF ChainLive
<1>2. \A w \in Worker : Owner(w) => ~Waiting(w)
  BY DEF IInv, SuccessorReserved, Waiting
<1>3. ASSUME NEW i \in Id, Member(i), store'[i] # None, Unfinished(i)',
             store'[i].chain = store[i].chain, store'[i].content = store[i].content
      PROVE  Member(i)'
  BY <1>3
<1>4. ASSUME NEW v \in Worker, worker'[v] # None, worker'[v].next = worker[v].next,
             worker'[v].task.chain = worker[v].task.chain, Owner(v)
      PROVE  Owner(v)'
  BY <1>4
<1> HIDE DEF Member, Owner
<1>5. ASSUME Quiet PROVE ChainLive(root)'
  <2>1. ASSUME NEW i \in Id, Member(i) PROVE Member(i)'
    <3>1. Unfinished(i)' /\ store'[i] # None
      BY <1>0, <1>5, <2>1, QuietFields DEF Member, Unfinished
    <3> QED
      BY <1>0, <1>3, <1>5, <2>1, <3>1, QuietFields
  <2>2. ASSUME NEW v \in Worker, Owner(v) PROVE Owner(v)'
    <3>1. worker'[v] = worker[v] /\ worker[v] # None
      BY <1>0, <1>2, <1>5, <2>2, QuietFields DEF Owner
    <3> QED
      BY <1>4, <2>2, <3>1
  <2> QED
    BY <1>1, <2>1, <2>2
<1>6. ASSUME NEW w \in Worker, WorkerStep(w),
             \A i \in Id : Member(i) => Member(i)' \/ Owner(w)',
             Owner(w) => Owner(w)' \/ \E i \in Id : Member(i)'
      PROVE  ChainLive(root)'
  <2>1. ASSUME NEW v \in Worker, v # w, Owner(v) PROVE Owner(v)'
    BY <1>0, <1>4, <1>6, <2>1, OthersStay DEF Owner
  <2> QED
    BY <1>1, <1>6, <2>1
<1>7. ASSUME store' = store, NEW i \in Id, Member(i) PROVE Member(i)'
  BY <1>7 DEF Member, Unfinished
<1>8. ASSUME NEW w \in Worker, Commit(w) PROVE ChainLive(root)'
  <2>1. WorkerStep(w) /\ store' = store /\ ~Owner(w)
    BY <1>2, <1>8 DEF WorkerStep, Commit, At, Waiting
  <2> QED
    BY <1>6, <1>7, <2>1
<1>9. ASSUME NEW w \in Worker, MarkRunning(w) PROVE ChainLive(root)'
  <2> DEFINE t == worker[w].task
             u == [t EXCEPT !.status = "running"]
  <2>1. WorkerStep(w)
    BY <1>9 DEF WorkerStep
  <2>2. PICK id \in Id : id = worker[w].id
    BY <2>1, Others
  <2>3. t \in Task /\ worker[w] # None /\ worker'[w] # None
    BY <1>9, <2>1, Others, LivesOn
  <2>4. u \in Task /\ u.chain = t.chain /\ u.content = t.content /\ u.status = "running"
    BY <2>3, StatusTask DEF Task, Status
  <2>5. worker'[w].task = u /\ worker'[w].next = worker[w].next
    BY <1>0, <1>9, MarkFields
  <2>6. Committed(w)
    BY <1>9, <2>3 DEF Committed, MarkRunning, At
  <2>7. store[id].chain = t.chain /\ store[id].content = t.content
    BY <1>0, <2>2, <2>6 DEF ChainInv, RunsStored
  <2>8. store'[id] = u /\ \A i \in Id \ {id} : store'[i] = store[i]
    <3>1. ~StoreError
      BY <1>0 DEF StoreError, Calm
    <3> QED
      BY <1>0, <1>9, <2>2, <3>1 DEF MarkRunning, Put, TypeOK
  <2> HIDE DEF u
  <2>9. ASSUME NEW i \in Id, Member(i) PROVE Member(i)'
    <3>1. CASE i = id
      BY <2>3, <2>4, <2>7, <2>8, <2>9, <3>1, NoneAssumption DEF Member, Unfinished
    <3>2. CASE i # id
      BY <2>8, <2>9, <3>2 DEF Member, Unfinished
    <3> QED
      BY <3>1, <3>2
  <2> QED
    BY <1>4, <1>6, <2>1, <2>3, <2>4, <2>5, <2>9
<1>10. ASSUME NEW w \in Worker, Execute(w) PROVE ChainLive(root)'
  <2> DEFINE t == worker[w].task
             u == worker'[w].task
  <2>1. WorkerStep(w) /\ store' = store
    BY <1>10 DEF WorkerStep, Execute
  <2>2. t \in Task /\ worker'[w] # None
    BY <1>10, <2>1, Others, LivesOn
  <2>3. u.chain = t.chain
    <3>1. ASSUME NEW o \in {"ok", "fail"} PROVE Logged(t, o) \in Task /\ Logged(t, o).chain = t.chain
      BY <2>2, LoggedTask DEF Task, Logged, Outcome
    <3>2. ASSUME NEW v \in Task, NEW s \in Status PROVE Finished(v, s).chain = v.chain
      BY DEF Task, Finished
    <3>3. \/ u = Logged(t, "fail")
          \/ u = Finished(Logged(t, "ok"), "succeeded")
          \/ u = Finished(Logged(t, "fail"), "failed")
      BY <1>0, <1>10, ExecuteFields
    <3> HIDE DEF t, u
    <3> QED
      BY <3>1, <3>2, <3>3 DEF Status
  <2>4. worker'[w].next = worker[w].next
    BY <1>0, <1>10, ExecuteFields
  <2> QED
    BY <1>4, <1>6, <1>7, <2>1, <2>2, <2>3, <2>4
<1>11. ASSUME NEW w \in Worker, Finalize(w) PROVE ChainLive(root)'
  <2> DEFINE t == worker[w].task
  <2>1. WorkerStep(w)
    BY <1>11 DEF WorkerStep
  <2>2. PICK id \in Id : id = worker[w].id
    BY <2>1, Others
  <2>3. worker[w] # None /\ worker[w].pc = "finalize" /\ worker'[w] # None
    BY <1>11, <2>1, Others, LivesOn DEF Finalize, At
  <2>4. worker'[w].task = t /\ worker'[w].next = worker[w].next
    BY <1>0, <1>11, EndFields
  <2>5. store[id].chain = t.chain /\ store[id].content = t.content
    BY <1>0, <2>2, <2>3 DEF ChainInv, RunsStored, Committed
  <2>6. worker[w].next # None <=> Schedule[t.content] > 0
    BY <2>3 DEF IInv, SuccessorReserved
  <2>7. \A i \in Id \ {id} : store'[i] = store[i]
    BY <1>0, <1>11, <2>2 DEF Finalize, Put, StoreError, TypeOK
  <2>8. ASSUME NEW i \in Id, Member(i) PROVE Member(i)' \/ Owner(w)'
    <3>1. CASE i = id
      BY <2>3, <2>4, <2>5, <2>6, <2>8, <3>1 DEF Member, Owner
    <3>2. CASE i # id
      BY <2>7, <2>8, <3>2 DEF Member, Unfinished
    <3> QED
      BY <3>1, <3>2
  <2> QED
    BY <1>4, <1>6, <2>1, <2>3, <2>4, <2>8
<1>12. ASSUME NEW w \in Worker, NotifyFailure(w) PROVE ChainLive(root)'
  <2>1. WorkerStep(w) /\ store' = store
    BY <1>12 DEF WorkerStep, NotifyFailure
  <2>2. worker'[w] # None /\ worker'[w].task = worker[w].task /\ worker'[w].next = worker[w].next
    BY <1>0, <1>12, EndFields, LivesOn
  <2> QED
    BY <1>4, <1>6, <1>7, <2>1, <2>2
<1>13. ASSUME NEW w \in Worker, Reschedule(w) PROVE ChainLive(root)'
  <2> DEFINE t == worker[w].task
             s == Successor(t, worker[w].fireTime)
  <2>1. WorkerStep(w)
    BY <1>13 DEF WorkerStep
  <2>2. t \in Task /\ worker[w].fireTime \in Nat /\ worker[w] # None /\ worker[w].pc = "reschedule"
    BY <1>13, <2>1, Others DEF Reschedule, At
  <2>3. worker[w].next # None <=> recurs(t)
    BY <2>2 DEF IInv, SuccessorReserved, recurs
  <2>4. CASE ~recurs(t)
    <3>1. store' = store /\ ~Owner(w)
      BY <1>13, <2>3, <2>4 DEF Reschedule, Owner
    <3> QED
      BY <1>6, <1>7, <2>1, <3>1
  <2>5. CASE recurs(t)
    <3>1. PICK n \in Id : n = worker[w].next
      BY <1>0, <2>2, <2>3, <2>5 DEF TypeOK, Run
    <3>2. store' = [store EXCEPT ![n] = s]
      <4>1. ~StoreError
        BY <1>0 DEF StoreError, Calm
      <4> QED
        BY <1>13, <2>5, <3>1, <4>1 DEF Reschedule, Put
    <3>3. s.chain = t.chain /\ s.content = t.content /\ s.status = "pending"
      BY <2>2 DEF Task, Successor
    <3>4. s \in Task /\ s # None
      BY <2>2, SuccessorTask, NoneAssumption
    <3>5. arms[n] = 0
      BY <2>2, <2>3, <2>5, <3>1 DEF IInv, SuccessorReserved
    <3>6. store[n] = None
      BY <3>5 DEF IInv, UnsavedUnknown
    <3> HIDE DEF s
    <3>7. store'[n] = s /\ \A i \in Id \ {n} : store'[i] = store[i]
      BY <1>0, <3>2 DEF TypeOK
    <3>8. ASSUME NEW i \in Id, Member(i) PROVE Member(i)'
      BY <3>6, <3>7, <3>8 DEF Member, Unfinished
    <3>9. Owner(w) => Member(n)'
      BY <2>5, <3>3, <3>4, <3>7 DEF Owner, Member, Unfinished, recurs
    <3> QED
      BY <1>6, <2>1, <3>8, <3>9
  <2> QED
    BY <2>4, <2>5
<1>14. ASSUME NEW n \in Id, NEW c \in Content, NEW at \in 1..MaxTime, CreateTask(n, c, at)
       PROVE  ChainLive(root)'
  <2>1. store[n] = None
    BY <1>14 DEF CreateTask, Fresh, IInv, UnsavedUnknown
  <2>2. worker' = worker /\ \A i \in Id \ {n} : store'[i] = store[i]
    BY <1>0, <1>14 DEF CreateTask, Put, TypeOK
  <2>3. ASSUME NEW i \in Id, Member(i) PROVE Member(i)'
    BY <2>1, <2>2, <2>3 DEF Member, Unfinished
  <2> QED
    BY <1>1, <2>2, <2>3 DEF Owner
<1>15. ~Crash
  BY <1>0 DEF Crash, TypeOK
<1> QED
  BY <1>5, <1>8, <1>9, <1>10, <1>11, <1>12, <1>13, <1>14, <1>15, CalmSteps DEF ChainInv

\* A recurring chain that nobody edits goes on: while no client edits, no
\* transaction fails and the process does not crash, a step never leaves a
\* live chain without a member to run or a goroutine that will save one,
\* whether a run succeeds, fails, is skipped or ends in a graceful shutdown.
THEOREM ChainsContinue == Spec => ChainContinues
<1>1. IInv /\ ChainInv /\ [Next]_vars =>
        [ops' = 0 /\ crashes' = 0 /\ errors' = 0 =>
           \A root \in Id : ChainLive(root) => ChainLive(root)']_vars
  BY ChainStays DEF Calm
<1> QED
  BY <1>1, Invariance, ChainInvariance, PTL DEF Spec, ChainContinues
=============================================================================
