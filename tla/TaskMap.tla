------------------------------ MODULE TaskMap ------------------------------
(***************************************************************************)
(* What scheduler.Store promises its callers (internal/scheduler/store.go): *)
(* a map from task ids to tasks.  A call that writes takes effect at one   *)
(* moment between its start and its answer, as a whole, or fails and       *)
(* changes nothing.  Delivery relies on it; BadgerStore implements it.     *)
(***************************************************************************)
CONSTANTS Id, Txn, Op, None,
          Matches(_, _),   \* does a task match a filter of DeleteTasks
          IsTerminal(_)    \* is a status final

VARIABLES
  tasks,  \* id -> task, None when absent
  call    \* calls in progress: their operation, None when there is none

vars == <<tasks, call>>

\* The store starts empty.
Init ==
  /\ tasks = [id \in Id |-> None]
  /\ call = [x \in Txn |-> None]

Put(t) == tasks' = [tasks EXCEPT ![t.id] = t]

Remove(S) == tasks' = [id \in Id |-> IF id \in S THEN None ELSE tasks[id]]

\* RecoverRunning re-queues every running task.
Recover ==
  tasks' = [id \in Id |-> IF tasks[id] # None /\ tasks[id].status = "running"
                            THEN [tasks[id] EXCEPT !.status = "pending"]
                            ELSE tasks[id]]

Start(x) ==
  /\ call[x] = None
  /\ \E o \in Op : call' = [call EXCEPT ![x] = o]
  /\ UNCHANGED tasks

\* The call takes effect.  A bulk delete removes only what matches at that
\* moment, and may miss a task that was saved after it had started.
Apply(x) ==
  /\ call[x] # None
  /\ LET o == call[x] IN
       \/ o.kind = "Save" /\ Put([o.task EXCEPT !.status = "pending"])
       \/ o.kind = "Update" /\ Put(o.task)
       \/ o.kind = "Delete" /\ Remove({o.id})
       \/ /\ o.kind = "DeleteTasks"
          /\ \E S \in SUBSET {id \in Id : tasks[id] # None /\ Matches(tasks[id], o.filter)} :
               Remove(S)
       \/ o.kind = "RecoverRunning" /\ Recover
  /\ call' = [call EXCEPT ![x] = None]

\* The call fails.
Fail(x) ==
  /\ call[x] # None
  /\ call' = [call EXCEPT ![x] = None]
  /\ UNCHANGED tasks

Crash ==
  /\ call' = [x \in Txn |-> None]
  /\ UNCHANGED tasks

\* History is forgotten, live tasks never are.
Expire(id) ==
  /\ tasks[id] # None /\ IsTerminal(tasks[id].status)
  /\ Remove({id})
  /\ UNCHANGED call

Next ==
  \/ \E x \in Txn : Start(x) \/ Apply(x) \/ Fail(x)
  \/ Crash
  \/ \E id \in Id : Expire(id)

Spec == Init /\ [][Next]_vars
=============================================================================
