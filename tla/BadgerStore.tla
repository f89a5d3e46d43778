---------------------------- MODULE BadgerStore ----------------------------
(***************************************************************************)
(* The transactions of the task store on BadgerDB                          *)
(* (internal/scheduler/badger_store.go).                                   *)
(*                                                                         *)
(* A transaction reads the snapshot taken when it begins and commits later; *)
(* others may commit in between.  BadgerDB refuses the commit (ErrConflict) *)
(* if a key the transaction has read was written meanwhile.  Keys that     *)
(* were not there to be read are not protected.                            *)
(***************************************************************************)
EXTENDS TaskKeys

CONSTANTS
  Txn,        \* transactions that may be open at once
  MaxTxns,    \* bound: transactions begun
  MaxBlind    \* bound: Updates that find no old key while another of that id is open

ASSUME BadgerAssumption == MaxTxns \in Nat /\ MaxBlind \in Nat

VARIABLES
  db,     \* key -> task, for the keys that exist
  call,   \* transaction -> its operation, None when it is not open
  snap,   \* transaction -> the snapshot it reads
  dirty,  \* transaction -> the keys committed since it began
  saved,  \* ids a caller may know: their Save is committed
  begun,  \* transactions so far
  blind   \* Updates so far that found no old key while another of that id was open

vars == <<db, call, snap, dirty, saved, begun, blind>>

Init ==
  /\ db = Empty
  /\ call = [x \in Txn |-> None]
  /\ snap = [x \in Txn |-> Empty]
  /\ dirty = [x \in Txn |-> {}]
  /\ saved = {}
  /\ begun = 0
  /\ blind = 0

-----------------------------------------------------------------------------
(* Transactions.                                                           *)

Idle == \A x \in Txn : call[x] = None

\* An open transaction of one of these kinds.
Open(x, kinds) == call[x] # None /\ call[x].kind \in kinds

Recovering == \E x \in Txn : Open(x, {"RecoverRunning"})

Begin(x, o) ==
  /\ begun < MaxTxns
  /\ call[x] = None
  /\ call' = [call EXCEPT ![x] = o]
  /\ snap' = [snap EXCEPT ![x] = db]
  /\ UNCHANGED dirty
  /\ begun' = begun + 1
  /\ UNCHANGED db

\* Its callers build pending tasks under fresh ids.
Save(x, t) ==
  /\ ~Recovering
  /\ t.status = "pending"
  /\ t.id \notin saved
  /\ \A y \in Txn : Open(y, {"Save"}) => call[y].task.id # t.id
  /\ Begin(x, [kind |-> "Save", task |-> t])
  /\ UNCHANGED <<saved, blind>>

\* The caller has read the task before: its Save is committed.
Known(id) == id \in saved

\* The task was deleted or has expired, and somebody else is writing it too.
Blind(id) ==
  /\ findKey(db, id) = None
  /\ \E x \in Txn : Open(x, {"Update"}) /\ call[x].task.id = id

Update(x, t) ==
  /\ ~Recovering
  /\ Known(t.id)
  /\ \/ ~Blind(t.id) /\ UNCHANGED blind
     \/ Blind(t.id) /\ blind < MaxBlind /\ blind' = blind + 1
  /\ Begin(x, [kind |-> "Update", task |-> t])
  /\ UNCHANGED saved

Delete(x, id) ==
  /\ ~Recovering
  /\ Begin(x, [kind |-> "Delete", id |-> id])
  /\ UNCHANGED <<saved, blind>>

DeleteTasks(x, f) ==
  /\ ~Recovering
  /\ Begin(x, [kind |-> "DeleteTasks", filter |-> f])
  /\ UNCHANGED <<saved, blind>>

\* main calls it before the runner and the server start.
RecoverRunning(x) ==
  /\ Idle
  /\ Begin(x, [kind |-> "RecoverRunning"])
  /\ UNCHANGED <<saved, blind>>

\* Mutant: no conflict detection.
NeverConflicts(x) == FALSE

\* A transaction that wrote nothing is never refused.
Conflict(x) ==
  /\ Writes(call[x], snap[x]) # {}
  /\ Reads(call[x], snap[x]) \cap dirty[x] # {}

\* What a transaction keeps is gone when it ends.
Closed(x) ==
  /\ call' = [call EXCEPT ![x] = None]
  /\ snap' = [snap EXCEPT ![x] = Empty]

Commit(x) ==
  /\ call[x] # None
  /\ ~Conflict(x)
  /\ db' = Written(db, call[x], snap[x])
  /\ Closed(x)
  /\ dirty' = [y \in Txn |-> IF y = x \/ call[y] = None THEN {}
                            ELSE dirty[y] \cup Writes(call[x], snap[x])]
  /\ saved' = IF call[x].kind = "Save" THEN saved \cup {call[x].task.id} ELSE saved
  /\ UNCHANGED <<begun, blind>>

\* badger.ErrConflict: nothing is written, and the caller gets the error.
ErrConflict(x) ==
  /\ call[x] # None
  /\ Conflict(x)
  /\ Closed(x)
  /\ dirty' = [dirty EXCEPT ![x] = {}]
  /\ UNCHANGED <<db, saved, begun, blind>>

\* The process dies: open transactions are gone, the store is as committed.
Crash ==
  /\ ~Idle
  /\ call' = [x \in Txn |-> None]
  /\ snap' = [x \in Txn |-> Empty]
  /\ dirty' = [x \in Txn |-> {}]
  /\ UNCHANGED <<db, saved, begun, blind>>

\* Such an entry ends without any transaction.
Expire(k) ==
  /\ k \in DOMAIN db /\ withTTL(db[k])
  /\ db' = [j \in DOMAIN db \ {k} |-> db[j]]
  /\ UNCHANGED <<call, snap, dirty, saved, begun, blind>>

Next ==
  \/ \E x \in Txn :
       \/ \E t \in Task : Save(x, t) \/ Update(x, t)
       \/ \E id \in Id : Delete(x, id)
       \/ \E f \in Filter : DeleteTasks(x, f)
       \/ RecoverRunning(x)
       \/ Commit(x)
       \/ ErrConflict(x)
  \/ Crash
  \/ \E k \in DOMAIN db : Expire(k)

Spec == Init /\ [][Next]_vars

-----------------------------------------------------------------------------
(* Properties.                                                             *)

\* The type invariant.
TypeOK ==
  /\ DOMAIN db \subseteq Key /\ \A k \in DOMAIN db : db[k] \in Task
  /\ call \in [Txn -> Op \cup {None}] /\ dirty \in [Txn -> SUBSET Key]
  /\ DOMAIN snap = Txn
  /\ \A x \in Txn : /\ DOMAIN snap[x] \subseteq Key
                    /\ \A k \in DOMAIN snap[x] : snap[x][k] \in Task
  /\ saved \subseteq Id
  /\ begun \in 0..MaxTxns /\ blind \in 0..MaxBlind

\* findKey "returns the current storage key": no id has two.
OneKeyPerId == \A j, k \in DOMAIN db : j.id = k.id => j = k

\* Every task is where its status and time say, and only there, whichever
\* transactions overlapped: the scans of one status partition, and the keys
\* RecoverRunning rebuilds from values, rely on it.
Keyspace == OneKeyPerId /\ \A k \in DOMAIN db : k = taskKey(db[k])

Unfinished(t) == t # None /\ ~IsTerminal(t.status)

\* Counts, which never decodes a value, agrees with what GetTask returns, except
\* that overdue may include tasks whose time is less than a second away: a key
\* holds the second only.
CountsExact ==
  LET With(s) == {id \in Id : GetTask(db, id) # None /\ GetTask(db, id).status = s}
      DueBy(t) == {id \in With("pending") : GetTask(db, id).executeAt <= t} IN
    \A now \in Tick :
      /\ Counts(db, now).byStatus = [s \in Status |-> Cardinality(With(s))]
      /\ Counts(db, now).overdue \in Cardinality(DueBy(now))..Cardinality(DueBy(now + Res - 1))

Limits == -1..(MaxDueBatch + 1)

\* A batch holds only pending tasks whose time is before end, and leaves out one
\* that is due a second or more before end only when it is full, of tasks less
\* than a second younger at most: a backlog drains oldest first, but for the
\* order within a second, and no task is starved by the limit.  (A task due in
\* the last second, end included, may be left out of a batch that is not full.)
DueOldest ==
  \A end \in Tick, limit \in Limits :
    LET batch == GetDueTasks(db, end, limit) IN
      /\ Cardinality(batch) <= MaxDueBatch
      /\ \A t \in batch : t = GetTask(db, t.id) /\ t.status = "pending" /\ t.executeAt < end
      /\ \A id \in Id :
           LET t == GetTask(db, id) IN
             t # None /\ t.status = "pending" /\ t.executeAt + Res <= end /\ t \notin batch
               => /\ Cardinality(batch) = clamp(limit)
                  /\ \A b \in batch : b.executeAt < t.executeAt + Res

Ends(x, kinds) == Open(x, kinds) /\ call'[x] = None

\* A task that is still to run leaves the store only when somebody deletes it:
\* not by expiring, and not by an update that races another transaction.
LiveKept ==
  [][\A id \in Id : Unfinished(GetTask(db, id)) /\ GetTask(db', id) = None
       => \E x \in Txn : Ends(x, {"Delete", "DeleteTasks"})]_vars

\* A bulk delete that succeeds has removed every unfinished task that matched
\* when it began, though an update may have moved one to another key meanwhile.
BulkDeleteComplete ==
  [][\A x \in Txn : Ends(x, {"DeleteTasks"}) /\ db' # db
       => \A k \in Matching(snap[x], call[x].filter) :
            Unfinished(snap[x][k]) => GetTask(db', k.id) = None]_vars

\* The store is a map from ids to tasks, as GetTask shows it, and every call
\* that writes is atomic: it implements TaskMap.
Map == INSTANCE TaskMap WITH
         tasks <- [id \in Id |-> GetTask(db, id)]

MapSpec == Map!Spec
=============================================================================
