------------------------------ MODULE TaskKeys ------------------------------
(***************************************************************************)
(* The keyspace of the task store (internal/scheduler/badger_store.go) and *)
(* what its calls read and write, given a snapshot of it.                  *)
(*                                                                         *)
(* A task lives under the key "task:<status>:<unix second>:<id>", so a     *)
(* change of status or time moves it: the old key is looked up by a scan   *)
(* over the ids, deleted, and the task is written under the new one.       *)
(***************************************************************************)
EXTENDS Integers, FiniteSets

CONSTANTS
  Id,              \* task ids: numbers, for their order in the keyspace
  Url,             \* client-owned fields of a task
  IdemKey,         \* values of the Idempotency-Key header
  None,            \* "absent"
  Res,             \* clock readings per second
  MaxTick,         \* bound: the last clock reading
  MaxDueBatch,     \* store.go's bound on a batch
  DefaultPageSize, \* store.go's page size when none is asked for
  MaxPageSize,     \* store.go's bound on a page
  Filter           \* the filters of DeleteTasks and ListTasks that are explored

ASSUME KeysAssumption ==
  /\ Id \subseteq Nat /\ None \notin Id /\ None \notin IdemKey
  /\ Res \in Nat \ {0} /\ MaxTick \in Nat /\ MaxDueBatch \in Nat \ {0}
  /\ MaxPageSize \in Nat \ {0} /\ DefaultPageSize \in 1..MaxPageSize

Tick == 0..MaxTick

\* In the order in which the keyspace sorts them.
Statuses == <<"cancelled", "failed", "pending", "running", "succeeded">>

Status == {Statuses[i] : i \in 1..5}

Rank(s) == CHOOSE i \in 1..5 : Statuses[i] = s

IsTerminal(s) == s \in {"succeeded", "failed", "cancelled"}

Task == [id : Id, status : Status, executeAt : Tick, url : Url,
         idem : IdemKey \cup {None}]

Unix(t) == t \div Res

Key == [status : Status, ts : 0..Unix(MaxTick), id : Id]

taskKey(t) == [status |-> t.status, ts |-> Unix(t.executeAt), id |-> t.id]

\* Byte order of two keys.
Before(j, k) ==
  \/ Rank(j.status) < Rank(k.status)
  \/ j.status = k.status /\ j.ts < k.ts
  \/ j.status = k.status /\ j.ts = k.ts /\ j.id < k.id

\* An operation handed to db.Update.
Op == [kind : {"Save", "Update"}, task : Task]
        \cup [kind : {"Delete"}, id : Id]
        \cup [kind : {"DeleteTasks"}, filter : Filter]
        \cup [kind : {"RecoverRunning"}]

ASSUME NoneAssumption == None \notin Task /\ None \notin Key /\ None \notin Op

Empty == [k \in {} |-> None]

-----------------------------------------------------------------------------
(* Scans of a snapshot.                                                    *)

KeysOf(snap, id) == {k \in DOMAIN snap : k.id = id}

First(K) == CHOOSE k \in K : \A j \in K : j = k \/ Before(k, j)

\* The first key that ends in the id; None if there is none.
findKey(snap, id) ==
  IF KeysOf(snap, id) = {} THEN None ELSE First(KeysOf(snap, id))

\* The keys findKey passes over, the one it returns included.
Scanned(snap, id) ==
  IF KeysOf(snap, id) = {} THEN DOMAIN snap
  ELSE {k \in DOMAIN snap : ~Before(findKey(snap, id), k)}

GetTask(snap, id) ==
  IF findKey(snap, id) = None THEN None ELSE snap[findKey(snap, id)]

clamp(limit) == IF limit <= 0 \/ limit > MaxDueBatch THEN MaxDueBatch ELSE limit

\* endKey has no id, so every key of its second sorts after it.
DueKeys(snap, end) ==
  {k \in DOMAIN snap : k.status = "pending" /\ k.ts < Unix(end)}

\* Mutant: the limit is checked after a task is added.
GetDueTasksLate(snap, end, limit) ==
  {snap[k] : k \in {j \in DueKeys(snap, end) :
                    Cardinality({i \in DueKeys(snap, end) : Before(i, j)}) <= clamp(limit)}}

GetDueTasks(snap, end, limit) ==
  {snap[k] : k \in {j \in DueKeys(snap, end) :
                    Cardinality({i \in DueKeys(snap, end) : Before(i, j)}) < clamp(limit)}}

\* Counts reads keys only.
Counts(snap, now) ==
  [byStatus |-> [s \in Status |-> Cardinality({k \in DOMAIN snap : k.status = s})],
   overdue  |-> Cardinality({k \in DOMAIN snap : k.status = "pending" /\ k.ts <= Unix(now)})]

\* A filter of DeleteTasks or ListTasks; None matches everything.
Matches(t, f) ==
  /\ f.url = None \/ t.url = f.url
  /\ f.status = None \/ t.status = f.status
  /\ f.before = None \/ t.executeAt < f.before
  /\ f.after = None \/ t.executeAt > f.after

-----------------------------------------------------------------------------
(* Pages.  A cursor is the last key of the page before; encoded and        *)
(* decoded it is the same key.                                             *)

pageSize(limit) ==
  IF limit <= 0 THEN DefaultPageSize
  ELSE IF limit > MaxPageSize THEN MaxPageSize ELSE limit

InPartition(f, k) == f.status = None \/ k.status = f.status

\* ErrInvalidCursor: the cursor is of another partition.
InvalidCursor(f, cursor) == cursor # None /\ ~InPartition(f, cursor)

\* Seek lands on the cursor or, when it is gone, on the next key.
Beyond(cursor, k) == cursor = None \/ Before(cursor, k)

\* The rows that match from the cursor on.
Remaining(snap, f, cursor) ==
  {k \in DOMAIN snap : /\ InPartition(f, k) /\ Beyond(cursor, k)
                       /\ Matches(snap[k], [f EXCEPT !.status = None])}

Last(K) == CHOOSE k \in K : \A j \in K : j = k \/ Before(j, k)

\* Mutant: a full page always has a cursor.
ListTasksFull(snap, f, cursor, limit) ==
  LET rest == Remaining(snap, f, cursor)
      page == {k \in rest : Cardinality({j \in rest : Before(j, k)}) < pageSize(limit)} IN
    [tasks |-> {snap[k] : k \in page},
     next  |-> IF Cardinality(page) < pageSize(limit) THEN None ELSE Last(page)]

\* Mutant: the cursor is the row beyond the page, which the next page skips.
ListTasksSkip(snap, f, cursor, limit) ==
  LET rest == Remaining(snap, f, cursor)
      page == {k \in rest : Cardinality({j \in rest : Before(j, k)}) < pageSize(limit)} IN
    [tasks |-> {snap[k] : k \in page},
     next  |-> IF page = rest THEN None ELSE First(rest \ page)]

\* One page, and a cursor if another row matches after it.
ListTasks(snap, f, cursor, limit) ==
  LET rest == Remaining(snap, f, cursor)
      page == {k \in rest : Cardinality({j \in rest : Before(j, k)}) < pageSize(limit)} IN
    [tasks |-> {snap[k] : k \in page},
     next  |-> IF page = rest THEN None ELSE Last(page)]

-----------------------------------------------------------------------------
(* What an operation reads and writes, given its snapshot.                 *)

Stuck(snap) == {k \in DOMAIN snap : k.status = "running"}

Matching(snap, f) == {k \in DOMAIN snap : Matches(snap[k], f)}

Reads(o, snap) ==
  CASE o.kind = "Save" -> {}
    [] o.kind = "Update" -> Scanned(snap, o.task.id)
    [] o.kind = "Delete" -> Scanned(snap, o.id)
    [] o.kind = "DeleteTasks" -> DOMAIN snap
    [] o.kind = "RecoverRunning" -> Stuck(snap)

\* Mutant: no check for nil.
DeletesUnchecked(o, snap) ==
  CASE o.kind = "Save" -> {}
    [] o.kind = "Update" -> {findKey(snap, o.task.id)}
    [] o.kind = "Delete" -> {findKey(snap, o.id)}
    [] o.kind = "DeleteTasks" -> Matching(snap, o.filter)
    [] o.kind = "RecoverRunning" -> {taskKey(snap[k]) : k \in Stuck(snap)}

\* Mutant: the old key of an update stays.
DeletesInPlace(o, snap) ==
  CASE o.kind \in {"Save", "Update"} -> {}
    [] o.kind = "Delete" -> {findKey(snap, o.id)} \ {None}
    [] o.kind = "DeleteTasks" -> Matching(snap, o.filter)
    [] o.kind = "RecoverRunning" -> {taskKey(snap[k]) : k \in Stuck(snap)}

Deletes(o, snap) ==
  CASE o.kind = "Save" -> {}
    [] o.kind = "Update" -> {findKey(snap, o.task.id)} \ {None}
    [] o.kind = "Delete" -> {findKey(snap, o.id)} \ {None}
    [] o.kind = "DeleteTasks" -> Matching(snap, o.filter)
    [] o.kind = "RecoverRunning" -> {taskKey(snap[k]) : k \in Stuck(snap)}

Puts(o, snap) ==
  CASE o.kind = "Save" -> {[o.task EXCEPT !.status = "pending"]}
    [] o.kind = "Update" -> {o.task}
    [] o.kind = "RecoverRunning" -> {[snap[k] EXCEPT !.status = "pending"] : k \in Stuck(snap)}
    [] OTHER -> {}

Writes(o, snap) == Deletes(o, snap) \cup {taskKey(t) : t \in Puts(o, snap)}

\* Mutant: an update stays under the key that was found.
WrittenInPlace(f, o, snap) ==
  LET puts == Puts(o, snap)
      Old(t) == IF KeysOf(snap, t.id) = {} THEN taskKey(t) ELSE findKey(snap, t.id)
      keys == {Old(t) : t \in puts} IN
    [k \in (DOMAIN f \ Deletes(o, snap)) \cup keys |->
       IF k \in keys THEN CHOOSE t \in puts : Old(t) = k ELSE f[k]]

\* The store after the deletions and the puts, in this order.
Written(f, o, snap) ==
  LET puts == Puts(o, snap)
      keys == {taskKey(t) : t \in puts} IN
    [k \in (DOMAIN f \ Deletes(o, snap)) \cup keys |->
       IF k \in keys THEN CHOOSE t \in puts : taskKey(t) = k ELSE f[k]]

\* Mutant: put gives every entry a TTL.
withTTLAlways(t) == TRUE

\* The entries put writes with a TTL.
withTTL(t) == IsTerminal(t.status)
=============================================================================
