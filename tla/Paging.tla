------------------------------- MODULE Paging -------------------------------
(***************************************************************************)
(* Reading the store in pages while it changes: GET /tasks walks, and the  *)
(* search for a duplicate that precedes every creation, under createMu     *)
(* (internal/api/handler.go: ListTasks, findDuplicate, CreateTask).        *)
(*                                                                         *)
(* Each page is one View transaction: it sees one state of the store.      *)
(* Between two pages anybody may write.  A write is one atomic change, as  *)
(* BadgerStore shows (MapSpec); the callers that write are not told apart. *)
(***************************************************************************)
EXTENDS TaskKeys

CONSTANTS
  Lister,      \* clients that page through GET /tasks
  Creator,     \* handler goroutines of POST /tasks
  Limits,      \* the ?limit= values, 0 when absent
  Existing,    \* tasks the store may hold at first
  Request,     \* the bodies and headers of POST /tasks that are explored
  MaxWrites,   \* bound: writes by others, restarts included
  MaxNow       \* bound: the clock stops here

ASSUME PagingAssumption ==
  /\ None \notin Creator
  /\ Limits \subseteq 0..MaxPageSize /\ Existing \subseteq Task /\ IsFiniteSet(Existing)
  /\ Request \subseteq [url : Url, key : IdemKey \cup {None},
                        execute_at : Tick \cup {None}, execute_in : Int \cup {None}]
  /\ MaxWrites \in Nat /\ MaxNow \in Tick

VARIABLES
  db,        \* key -> task, for the keys that exist
  known,     \* ids that were saved, with the key their records carry
  walk,      \* lister -> its walk, None when it has none
  create,    \* creator -> the call it is in, None when there is none
  createMu,  \* who holds Handler.createMu, None when it is free
  now,       \* the clock
  writes     \* writes by others so far

vars == <<db, known, walk, create, createMu, now, writes>>

\* A walk: its parameters, where it stands, and as history the matching rows
\* that have not changed since it began and how often each id was returned.
Walk == [filter : Filter, limit : Limits, cursor : Key \cup {None}, ended : BOOLEAN,
         standing : SUBSET Task, times : [Id -> Nat]]

\* A creation: the task it may save, where the scan stands, and as history the
\* pending tasks that have not changed since it took createMu and those that
\* other creations have added since.
Create == [pc : {"lock", "scan", "save"}, task : Task, cursor : Key \cup {None},
           standing : SUBSET Task]

-----------------------------------------------------------------------------
(* The store.                                                              *)

KeyOf(t) == [id |-> t.id, idem |-> t.idem]

\* A restarted process finds tasks in the store, none of them running.
Init ==
  /\ \E S \in SUBSET {t \in Existing : t.status # "running"} :
       /\ \A t, u \in S : t.id = u.id => t = u
       /\ db = [k \in {taskKey(t) : t \in S} |-> CHOOSE t \in S : taskKey(t) = k]
       /\ known = {KeyOf(t) : t \in S}
  /\ walk = [l \in Lister |-> None]
  /\ create = [c \in Creator |-> None]
  /\ createMu = None
  /\ now = 0
  /\ writes = 0

\* uuid.NewString.
Fresh(id) ==
  /\ \A r \in known : r.id # id
  /\ \A c \in Creator : create[c] # None => create[c].task.id # id

\* What the operation o does to the store, and to the tasks that stand still.
Commit(o) ==
  /\ db' = Written(db, o, db)
  /\ known' = known \cup {KeyOf(t) : t \in Puts(o, db)}

Standing(S) == {t \in S : taskKey(t) \in DOMAIN db' /\ db'[taskKey(t)] = t}

Settled(calls) ==
  [x \in DOMAIN calls |->
     IF calls[x] = None THEN None
     ELSE [calls[x] EXCEPT !.standing = Standing(@)]]

\* A write by the runner or by another handler.  Successors of recurring tasks
\* carry no Idempotency-Key, and nobody changes the one of a task.
Possible(o) ==
  CASE o.kind = "Save" -> Fresh(o.task.id) /\ o.task.idem = None
    [] o.kind = "Update" -> KeyOf(o.task) \in known
    [] OTHER -> TRUE

Write(o) ==
  /\ writes < MaxWrites
  /\ o.kind # "RecoverRunning"
  /\ Possible(o)
  /\ Commit(o)
  /\ db' # db
  /\ walk' = Settled(walk) /\ create' = Settled(create)
  /\ writes' = writes + 1
  /\ UNCHANGED <<createMu, now>>

\* A finished record's TTL ends.
Expire(k) ==
  /\ writes < MaxWrites
  /\ k \in DOMAIN db /\ withTTL(db[k])
  /\ db' = [j \in DOMAIN db \ {k} |-> db[j]]
  /\ walk' = Settled(walk) /\ create' = Settled(create)
  /\ writes' = writes + 1
  /\ UNCHANGED <<known, createMu, now>>

\* The process dies and comes back.  Calls are gone; a cursor is the client's.
Restart ==
  /\ writes < MaxWrites
  /\ Commit([kind |-> "RecoverRunning"])
  /\ walk' = Settled(walk)
  /\ create' = [c \in Creator |-> None]
  /\ createMu' = None
  /\ writes' = writes + 1
  /\ UNCHANGED now

Advance ==
  /\ now < MaxNow
  /\ now' = now + 1
  /\ UNCHANGED <<db, known, walk, create, createMu, writes>>

-----------------------------------------------------------------------------
(* GET /tasks.                                                             *)

\* One page from the cursor on, added to what the walk has returned.
Page(l, w) ==
  LET page == ListTasks(db, w.filter, w.cursor, w.limit) IN
    /\ walk' = [walk EXCEPT ![l] =
                  [w EXCEPT !.cursor = page.next,
                            !.ended = page.next = None,
                            !.times = [id \in Id |->
                               @[id] + Cardinality({t \in page.tasks : t.id = id})]]]
    /\ UNCHANGED <<db, known, create, createMu, now, writes>>

NewWalk(f, cursor, limit) ==
  [filter |-> f, limit |-> limit, cursor |-> cursor, ended |-> FALSE,
   standing |-> {db[k] : k \in Remaining(db, f, cursor)},
   times |-> [id \in Id |-> 0]]

FirstPage(l, f, limit) ==
  /\ walk[l] # None => walk[l].ended
  /\ Page(l, NewWalk(f, None, limit))

NextPage(l) ==
  /\ walk[l] # None /\ ~walk[l].ended
  /\ Page(l, walk[l])

\* The client sends the cursor of one listing with the filters of another.
OtherFilter(l, f) ==
  /\ walk[l] # None /\ ~walk[l].ended
  /\ f # walk[l].filter
  /\ \/ /\ InvalidCursor(f, walk[l].cursor)
        /\ walk' = [walk EXCEPT ![l] = None]
        /\ UNCHANGED <<db, known, create, createMu, now, writes>>
     \/ /\ ~InvalidCursor(f, walk[l].cursor)
        /\ Page(l, NewWalk(f, walk[l].cursor, walk[l].limit))

-----------------------------------------------------------------------------
(* POST /tasks.                                                            *)

\* decodeTaskRequest: when the task is to fire, None for a 400.
fireAt(r) ==
  CASE r.execute_at # None /\ r.execute_in # None -> None
    [] r.execute_at = None /\ r.execute_in = None -> None
    [] r.execute_at = None /\ r.execute_in # None ->
         IF r.execute_in > 0 THEN now + r.execute_in ELSE None
    [] OTHER -> IF r.execute_at > now THEN r.execute_at ELSE None

CreateTask(c, r) ==
  /\ create[c] = None
  /\ fireAt(r) \in Tick
  /\ \E id \in Id :
       /\ Fresh(id)
       /\ create' = [create EXCEPT ![c] =
            [pc |-> "lock", cursor |-> None, standing |-> {},
             task |-> [id |-> id, status |-> "pending", executeAt |-> fireAt(r),
                       url |-> r.url, idem |-> r.key]]]
  /\ UNCHANGED <<db, known, walk, createMu, now, writes>>

\* Mutant: the search and the Save are not serialized.
LockFreeAlways == TRUE

LockFree == createMu = None

Lock(c) ==
  /\ create[c] # None /\ create[c].pc = "lock"
  /\ LockFree
  /\ createMu' = c
  /\ create' = [create EXCEPT ![c].pc = "scan",
                  ![c].standing = {t \in {db[k] : k \in DOMAIN db} : t.status = "pending"}]
  /\ UNCHANGED <<db, known, walk, now, writes>>

Abs(n) == IF n < 0 THEN -n ELSE n

\* With a key, the key alone decides.
Duplicate(t, new) ==
  IF new.idem # None THEN t.idem = new.idem
  ELSE t.url = new.url /\ Abs(t.executeAt - new.executeAt) < Res

\* Unlock and answer.
Answer(c) == createMu' = None /\ create' = [create EXCEPT ![c] = None]

\* One page of findDuplicate.
findDuplicate(c) ==
  /\ create[c] # None /\ create[c].pc = "scan"
  /\ LET new  == create[c].task
         f    == [url |-> IF new.idem = None THEN new.url ELSE None,
                  status |-> "pending", before |-> None, after |-> None]
         page == ListTasks(db, f, create[c].cursor, MaxPageSize)
         dups == {t \in page.tasks : Duplicate(t, new)} IN
       \/ dups # {} /\ Answer(c)
       \/ /\ dups = {} /\ page.next # None
          /\ create' = [create EXCEPT ![c].cursor = page.next]
          /\ UNCHANGED createMu
       \/ /\ dups = {} /\ page.next = None
          /\ create' = [create EXCEPT ![c].pc = "save", ![c].cursor = None]
          /\ UNCHANGED createMu
  /\ UNCHANGED <<db, known, walk, now, writes>>

Save(c) ==
  /\ create[c] # None /\ create[c].pc = "save"
  /\ Commit([kind |-> "Save", task |-> create[c].task])
  /\ createMu' = None
  /\ create' = [d \in Creator |->
                  IF d = c \/ create[d] = None THEN None
                  ELSE IF create[d].pc = "lock" THEN create[d]
                  ELSE [create[d] EXCEPT !.standing = @ \cup {create[c].task}]]
  /\ UNCHANGED <<walk, now, writes>>

\* Mutant: the error path returns with the lock held.
FailHolding(c) ==
  /\ create[c] # None /\ create[c].pc \in {"scan", "save"}
  /\ create' = [create EXCEPT ![c] = None]
  /\ UNCHANGED <<db, known, walk, createMu, now, writes>>

\* The page or the Save fails.
Fail(c) ==
  /\ create[c] # None /\ create[c].pc \in {"scan", "save"}
  /\ Answer(c)
  /\ UNCHANGED <<db, known, walk, now, writes>>

Next ==
  \/ \E o \in Op : Write(o)
  \/ \E k \in DOMAIN db : Expire(k)
  \/ Restart
  \/ Advance
  \/ \E l \in Lister :
       \/ \E f \in Filter : OtherFilter(l, f) \/ \E limit \in Limits : FirstPage(l, f, limit)
       \/ NextPage(l)
  \/ \E c \in Creator :
       \/ \E r \in Request : CreateTask(c, r)
       \/ Lock(c)
       \/ findDuplicate(c)
       \/ Save(c)
       \/ Fail(c)

Spec == Init /\ [][Next]_vars

\* A handler goes on when it can, and sync.Mutex starves nobody who waits.
FairSpec ==
  /\ Spec
  /\ \A c \in Creator : /\ WF_vars(findDuplicate(c)) /\ WF_vars(Save(c))
                        /\ SF_vars(Lock(c))

-----------------------------------------------------------------------------
(* Properties.                                                             *)

\* The type invariant.
TypeOK ==
  /\ DOMAIN db \subseteq Key /\ \A k \in DOMAIN db : db[k] \in Task /\ taskKey(db[k]) = k
  /\ known \subseteq [id : Id, idem : IdemKey \cup {None}]
  /\ walk \in [Lister -> Walk \cup {None}] /\ create \in [Creator -> Create \cup {None}]
  /\ createMu \in Creator \cup {None}
  /\ now \in 0..MaxNow /\ writes \in 0..MaxWrites

\* A walk returns every matching task that stands still exactly once, whatever
\* is created, deleted, moved or recovered between its pages: before the
\* cursor has passed the task it was not returned, after that it was, once.
WalkExact ==
  \A l \in Lister : walk[l] # None =>
    \A t \in walk[l].standing :
      walk[l].times[t.id] =
        IF walk[l].ended \/ ~Beyond(walk[l].cursor, taskKey(t)) THEN 1 ELSE 0

\* has_more never promises a page that is empty: at the moment a cursor is
\* handed out, another row matches.
HasMore ==
  [][\A l \in Lister : walk'[l] # walk[l] /\ walk'[l] # None /\ UNCHANGED db
       => (walk'[l].cursor # None
             => Remaining(db, walk'[l].filter, walk'[l].cursor) # {})]_vars

\* A creation never adds a second task next to a repeat of the request that is
\* pending and has stood still since createMu was taken, nor next to one that
\* another creation has added since.
CreateOnce ==
  [][\A c \in Creator :
       create[c] # None /\ create[c].pc = "save" /\ create[c].task \in {db'[k] : k \in DOMAIN db'}
         => \A t \in create[c].standing : ~Duplicate(t, create[c].task)]_vars

\* Every POST /tasks is answered, found or saved or failed: no path keeps
\* createMu, and the search ends.
Answered == \A c \in Creator : create[c] # None ~> create[c] = None
=============================================================================
