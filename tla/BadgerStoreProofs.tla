------------------------- MODULE BadgerStoreProofs -------------------------
(***************************************************************************)
(* Proofs about BadgerStore, for every number of tasks and transactions.   *)
(*                                                                         *)
(* The types hold without any hypothesis.  Everything else assumes         *)
(* MaxBlind = 0: no Update that finds no old key runs beside another one   *)
(* of the same id (BadgerDB protects no key that was not there, and        *)
(* BadgerStore_phantom.cfg shows what happens then).                       *)
(***************************************************************************)
EXTENDS BadgerStore, TaskKeysProofs

-----------------------------------------------------------------------------
(* The invariant.                                                          *)

\* The types, and that a store is finite: the scans rely on it.
TInv == TypeOK /\ Typed(db) /\ \A x \in Txn : Typed(snap[x])

\* The store and the snapshots have every task in its place.
AllKept == WellKept(db) /\ \A x \in Txn : WellKept(snap[x])

\* What a transaction has seen still holds, unless the key was written since
\* or, for a finished task, has expired.
SeenHolds ==
  \A x \in Txn : call[x] # None => \A k \in DOMAIN snap[x] \ dirty[x] :
    /\ k \in DOMAIN db => db[k] = snap[x][k]
    /\ Unfinished(snap[x][k]) => k \in DOMAIN db

\* Nobody has an id that was not saved.
IdsSaved ==
  /\ \A k \in DOMAIN db : k.id \in saved
  /\ \A x \in Txn : /\ \A k \in DOMAIN snap[x] : k.id \in saved
                    /\ Open(x, {"Update"}) => call[x].task.id \in saved

\* Until a Save is committed its id is nowhere else.
SavesAlone ==
  \A x \in Txn : Open(x, {"Save"}) =>
    /\ call[x].task.id \notin saved /\ KeysOf(db, call[x].task.id) = {}
    /\ \A y \in Txn \ {x} : Open(y, {"Save", "Update"}) => call[y].task.id # call[x].task.id

\* An Update that found no key is the only one of its id, and there still is
\* none; one that found a key which nobody has written since knows every key
\* of the id, and so does any other.
UpdatesAgree ==
  \A x \in Txn : Open(x, {"Update"}) =>
    LET id == call[x].task.id IN
      /\ KeysOf(snap[x], id) = {} =>
           /\ KeysOf(db, id) = {}
           /\ \A y \in Txn \ {x} : Open(y, {"Update"}) => call[y].task.id # id
      /\ \A k \in KeysOf(snap[x], id) \ dirty[x] :
           /\ KeysOf(db, id) \subseteq {k}
           /\ \A y \in Txn : Open(y, {"Update"}) /\ call[y].task.id = id
                => \A j \in KeysOf(snap[y], id) \ dirty[y] : j = k

\* RecoverRunning runs alone: what it does not see is not there.
RecoverAlone ==
  \A x \in Txn : Open(x, {"RecoverRunning"}) =>
    /\ \A y \in Txn \ {x} : call[y] = None
    /\ DOMAIN db \subseteq DOMAIN snap[x]

IInv ==
  /\ TInv /\ AllKept /\ SeenHolds /\ IdsSaved /\ SavesAlone /\ UpdatesAgree /\ RecoverAlone

-----------------------------------------------------------------------------
(* Steps.                                                                  *)

\* What the five calls that begin a transaction have in common.
Starts(x, o) ==
  /\ o \in Op /\ Begin(x, o)
  /\ IF o.kind = "RecoverRunning" THEN Idle ELSE ~Recovering
  /\ saved' = saved
  /\ o.kind = "Save" => /\ o.task.id \notin saved
                        /\ \A y \in Txn : Open(y, {"Save"}) => call[y].task.id # o.task.id
  /\ o.kind = "Update" => /\ Known(o.task.id)
                          /\ MaxBlind = 0 => ~Blind(o.task.id)
  /\ blind' \in 0..MaxBlind

\* A transaction begins, commits, is refused or dies with the process, or a
\* record expires.
LEMMA Steps ==
  ASSUME TypeOK, Next
  PROVE  \/ \E x \in Txn : \E o : Starts(x, o)
         \/ \E x \in Txn : Commit(x) \/ ErrConflict(x)
         \/ Crash
         \/ \E k \in DOMAIN db : Expire(k)
<1>0. blind \in 0..MaxBlind /\ MaxBlind \in Nat
  BY BadgerAssumption DEF TypeOK
<1>1. ASSUME NEW x \in Txn, NEW t \in Task, Save(x, t)
      PROVE  Starts(x, [kind |-> "Save", task |-> t])
  BY <1>0, <1>1 DEF Save, Starts, Op
<1>2. ASSUME NEW x \in Txn, NEW t \in Task, Update(x, t)
      PROVE  Starts(x, [kind |-> "Update", task |-> t])
  <2>1. /\ ~Recovering /\ Known(t.id) /\ Begin(x, [kind |-> "Update", task |-> t])
        /\ UNCHANGED saved
    BY <1>2 DEF Update
  <2>2. blind' \in 0..MaxBlind /\ (MaxBlind = 0 => ~Blind(t.id))
    BY <1>0, <1>2 DEF Update
  <2> QED
    BY <2>1, <2>2 DEF Starts, Op
<1>3. ASSUME NEW x \in Txn, NEW id \in Id, Delete(x, id)
      PROVE  Starts(x, [kind |-> "Delete", id |-> id])
  BY <1>0, <1>3 DEF Delete, Starts, Op
<1>4. ASSUME NEW x \in Txn, NEW f \in Filter, DeleteTasks(x, f)
      PROVE  Starts(x, [kind |-> "DeleteTasks", filter |-> f])
  BY <1>0, <1>4 DEF DeleteTasks, Starts, Op
<1>5. ASSUME NEW x \in Txn, RecoverRunning(x)
      PROVE  Starts(x, [kind |-> "RecoverRunning"])
  BY <1>0, <1>5 DEF RecoverRunning, Starts, Op
<1> QED
  BY <1>1, <1>2, <1>3, <1>4, <1>5 DEF Next

\* The variables of a transaction that begins, and of the others.
LEMMA StartsVars ==
  ASSUME TypeOK, NEW x \in Txn, NEW o, Starts(x, o)
  PROVE  /\ o \in Op /\ o # None /\ call[x] = None /\ db' = db /\ dirty' = dirty
         /\ DOMAIN call' = Txn /\ DOMAIN snap' = Txn
         /\ call'[x] = o /\ snap'[x] = db
         /\ \A y \in Txn \ {x} : call'[y] = call[y] /\ snap'[y] = snap[y]
BY OpType DEF TypeOK, Starts, Begin

\* The same for one that ends, or for all when the process dies.
LEMMA EndsVars ==
  ASSUME TypeOK, NEW x \in Txn, Closed(x)
  PROVE  /\ DOMAIN call' = Txn /\ DOMAIN snap' = Txn
         /\ call'[x] = None /\ snap'[x] = Empty
         /\ \A y \in Txn \ {x} : call'[y] = call[y] /\ snap'[y] = snap[y]
BY DEF TypeOK, Closed

-----------------------------------------------------------------------------
(* Types.                                                                  *)

\* The empty store is typed.
LEMMA EmptyTyped == Typed(Empty)
BY EmptyKept DEF Typed, WellKept

\* The types at first.
LEMMA TInvInit == Init => TInv
<1> SUFFICES ASSUME Init PROVE TInv
  OBVIOUS
<1>1. Typed(db) /\ \A x \in Txn : Typed(snap[x])
  BY EmptyTyped DEF Init
<1>2. TypeOK
  BY <1>1, BadgerAssumption DEF Init, TypeOK, Typed
<1> QED
  BY <1>1, <1>2 DEF TInv

\* Every step keeps the types, whichever Updates overlap.
LEMMA TInvNext ==
  ASSUME TInv, [Next]_vars
  PROVE  TInv'
<1> USE DEF TInv
<1>1. ASSUME NEW x \in Txn, NEW o, Starts(x, o) PROVE TInv'
  <2>1. \A y \in Txn : Typed(snap[y])'
    BY <1>1, StartsVars
  <2>2. call' \in [Txn -> Op \cup {None}] /\ dirty' \in [Txn -> SUBSET Key]
    BY <1>1, StartsVars DEF TypeOK, Starts, Begin
  <2>3. saved' \subseteq Id
    BY <1>1 DEF TypeOK, Starts
  <2>4. begun' \in 0..MaxTxns
    BY <1>1, BadgerAssumption DEF TypeOK, Starts, Begin
  <2>5. blind' \in 0..MaxBlind /\ Typed(db)' /\ DOMAIN snap' = Txn
    BY <1>1, StartsVars DEF Starts
  <2> QED
    BY <2>1, <2>2, <2>3, <2>4, <2>5 DEF TypeOK, Typed
<1>2. ASSUME NEW x \in Txn, Commit(x) PROVE TInv'
  <2>1. call[x] \in Op
    BY <1>2 DEF Commit, TypeOK
  <2>2. Typed(db)'
    BY <1>2, <2>1, WrittenTyped DEF Commit
  <2>3. \A y \in Txn : Typed(snap[y])'
    BY <1>2, EndsVars, EmptyTyped DEF Commit
  <2>4. Writes(call[x], snap[x]) \subseteq Key
    BY <2>1, WritesType
  <2>5. dirty' \in [Txn -> SUBSET Key]
    BY <1>2, <2>4 DEF TypeOK, Commit
  <2>6. call' \in [Txn -> Op \cup {None}] /\ DOMAIN snap' = Txn
    BY <1>2, EndsVars DEF TypeOK, Commit, Closed
  <2>7. UNCHANGED <<begun, blind>>
    BY <1>2 DEF Commit
  <2>8. saved' \subseteq Id
    BY <1>2, <2>1, OpType, TaskType DEF TypeOK, Commit
  <2> QED
    BY <2>2, <2>3, <2>5, <2>6, <2>7, <2>8 DEF TypeOK, Typed
<1>3. ASSUME NEW x \in Txn, ErrConflict(x) PROVE TInv'
  <2>1. \A y \in Txn : Typed(snap[y])'
    BY <1>3, EndsVars, EmptyTyped DEF ErrConflict
  <2>2. call' \in [Txn -> Op \cup {None}] /\ DOMAIN snap' = Txn
    BY <1>3, EndsVars DEF TypeOK, ErrConflict, Closed
  <2>3. dirty' \in [Txn -> SUBSET Key]
    BY <1>3 DEF TypeOK, ErrConflict
  <2>4. UNCHANGED <<db, saved, begun, blind>>
    BY <1>3 DEF ErrConflict
  <2> QED
    BY <2>1, <2>2, <2>3, <2>4 DEF TypeOK, Typed
<1>4. ASSUME Crash PROVE TInv'
  <2>1. \A y \in Txn : Typed(snap[y])'
    BY <1>4, EmptyTyped DEF Crash
  <2>2. UNCHANGED <<db, saved, begun, blind>>
    BY <1>4 DEF Crash
  <2>3. /\ call' \in [Txn -> Op \cup {None}] /\ dirty' \in [Txn -> SUBSET Key]
        /\ DOMAIN snap' = Txn
    BY <1>4 DEF Crash
  <2> QED
    BY <2>1, <2>2, <2>3 DEF TypeOK, Typed
<1>5. ASSUME NEW k \in DOMAIN db, Expire(k) PROVE TInv'
  <2>1. IsFiniteSet(DOMAIN db \ {k})
    BY FS_RemoveElement DEF Typed
  <2>2. Typed(db)'
    BY <1>5, <2>1 DEF Expire, Typed
  <2> QED
    BY <1>5, <2>2 DEF TypeOK, Typed, Expire
<1>6. CASE UNCHANGED vars
  BY <1>6 DEF vars, TypeOK, Typed
<1> QED
  BY <1>1, <1>2, <1>3, <1>4, <1>5, <1>6, Steps

\* The types hold whatever overlaps: no call ever works on "no key", and the
\* store is finite.
THEOREM TypeCorrect == Spec => []TypeOK
<1>1. Spec => []TInv
  BY TInvInit, TInvNext, PTL DEF Spec
<1> QED
  BY <1>1, PTL DEF TInv

-----------------------------------------------------------------------------
(* The store stays well kept.                                              *)

\* A transaction that is open has an operation.
LEMMA OpenType ==
  ASSUME TypeOK, NEW x \in Txn
  PROVE  /\ call[x] # None => call[x] \in Op
         /\ \A K : Open(x, K) => call[x] \in Op
BY DEF TypeOK, Open

\* The invariant at first.
LEMMA IInvInit == Init => IInv
<1> SUFFICES ASSUME Init PROVE IInv
  OBVIOUS
<1>1. db = Empty /\ \A x \in Txn : snap[x] = Empty /\ call[x] = None
  BY DEF Init
<1>2. AllKept
  BY <1>1, EmptyKept DEF AllKept
<1>3. IdsSaved
  BY <1>1, EmptyKept DEF IdsSaved, Open
<1> QED
  BY <1>1, <1>2, <1>3, TInvInit DEF IInv, SeenHolds, SavesAlone, UpdatesAgree, RecoverAlone, Open

\* A transaction that begins disturbs nobody.
LEMMA StartsKeeps ==
  ASSUME MaxBlind = 0, IInv, NEW x \in Txn, NEW o, Starts(x, o), TInv'
  PROVE  IInv'
<1>0. TypeOK /\ WellKept(db) /\ \A y \in Txn : WellKept(snap[y])
  BY DEF IInv, TInv, AllKept
<1>1. /\ o \in Op /\ o # None /\ call[x] = None /\ db' = db /\ dirty' = dirty
      /\ call'[x] = o /\ snap'[x] = db
      /\ \A y \in Txn \ {x} : call'[y] = call[y] /\ snap'[y] = snap[y]
  BY <1>0, StartsVars
<1>2. \A y \in Txn \ {x} : \A K : Open(y, K)' <=> Open(y, K)
  BY <1>1 DEF Open
<1>3. \A K : Open(x, K)' <=> o.kind \in K
  BY <1>1 DEF Open
<1>4. /\ saved' = saved
      /\ o.kind = "Save" => /\ o.task.id \notin saved
                            /\ \A y \in Txn : Open(y, {"Save"}) => call[y].task.id # o.task.id
      /\ o.kind = "Update" => o.task.id \in saved
  BY DEF Starts, Known
<1>5. AllKept'
  BY <1>0, <1>1 DEF AllKept
<1>6. SeenHolds'
  BY <1>1 DEF IInv, SeenHolds, Unfinished
<1>7. IdsSaved'
  BY <1>1, <1>2, <1>3, <1>4 DEF IInv, IdsSaved
<1>8. o.kind = "Update" =>
        /\ \A y \in Txn \ {x} : Open(y, {"Save"}) => call[y].task.id # o.task.id
        /\ KeysOf(db, o.task.id) = {} =>
             \A y \in Txn \ {x} : Open(y, {"Update"}) => call[y].task.id # o.task.id
  <2>1. \A y \in Txn : Open(y, {"Save"}) => call[y].task.id \notin saved
    BY DEF IInv, SavesAlone
  <2> QED
    BY <1>0, <1>4, <2>1, NotFound DEF Starts, Blind
<1>9. SavesAlone'
  <2> SUFFICES ASSUME NEW y \in Txn, Open(y, {"Save"})'
               PROVE  /\ call'[y].task.id \notin saved' /\ KeysOf(db', call'[y].task.id) = {}
                      /\ \A z \in Txn \ {y} : Open(z, {"Save", "Update"})'
                           => call'[z].task.id # call'[y].task.id
    BY DEF SavesAlone
  <2>1. CASE y = x
    <3>1. o.kind = "Save" /\ o.task.id \notin saved
      BY <1>3, <1>4, <2>1
    <3>2. KeysOf(db, o.task.id) = {}
      BY <3>1 DEF IInv, IdsSaved, KeysOf
    <3>3. \A z \in Txn \ {y} : Open(z, {"Save", "Update"})' => call[z].task.id # o.task.id
      <4> TAKE z \in Txn \ {y}
      <4>1. Open(z, {"Save", "Update"})' => Open(z, {"Save"}) \/ Open(z, {"Update"})
        BY <1>2, <2>1 DEF Open
      <4> QED
        BY <1>4, <3>1, <4>1 DEF IInv, IdsSaved
    <3> QED
      BY <1>1, <1>4, <2>1, <3>1, <3>2, <3>3
  <2>2. CASE y # x
    <3>1. /\ Open(y, {"Save"}) /\ call'[y] = call[y] /\ call[y].task.id \notin saved
          /\ KeysOf(db, call[y].task.id) = {}
          /\ \A z \in Txn \ {y} : Open(z, {"Save", "Update"}) => call[z].task.id # call[y].task.id
      BY <1>1, <1>2, <2>2 DEF IInv, SavesAlone
    <3>2. Open(x, {"Save", "Update"})' => o.task.id # call[y].task.id
      BY <1>3, <1>4, <2>2, <3>1
    <3> QED
      BY <1>1, <1>2, <1>4, <3>1, <3>2
  <2> QED
    BY <2>1, <2>2
<1>10. UpdatesAgree'
  <2> SUFFICES ASSUME NEW y \in Txn, Open(y, {"Update"})'
               PROVE  LET id == call'[y].task.id IN
                      /\ KeysOf(snap'[y], id) = {} =>
                          /\ KeysOf(db', id) = {}
                          /\ \A z \in Txn \ {y} : Open(z, {"Update"})' => call'[z].task.id # id
                      /\ \A k \in KeysOf(snap'[y], id) \ dirty'[y] :
                          /\ KeysOf(db', id) \subseteq {k}
                          /\ \A z \in Txn : Open(z, {"Update"})' /\ call'[z].task.id = id
                               => \A j \in KeysOf(snap'[z], id) \ dirty'[z] : j = k
    BY DEF UpdatesAgree
  <2> DEFINE id == call'[y].task.id
  <2>0. \A k \in KeysOf(db, id) : KeysOf(db, id) \subseteq {k}
    BY <1>0 DEF KeysOf, WellKept
  <2>1. CASE y = x
    <3>1. o.kind = "Update" /\ o.task.id = id /\ snap'[y] = db
      BY <1>1, <1>3, <2>1
    <3>2. ASSUME NEW k \in KeysOf(db, id), NEW z \in Txn \ {x}, Open(z, {"Update"}),
                 call[z].task.id = id, NEW j \in KeysOf(snap[z], id) \ dirty[z]
          PROVE  j = k
      BY <3>2 DEF IInv, UpdatesAgree
    <3> QED
      BY <1>1, <1>2, <1>8, <2>0, <2>1, <3>1, <3>2
  <2>2. CASE y # x
    <3>1. Open(y, {"Update"}) /\ call'[y] = call[y] /\ snap'[y] = snap[y]
      BY <1>1, <1>2, <2>2
    <3>2. /\ KeysOf(snap[y], id) = {} =>
               /\ KeysOf(db, id) = {}
               /\ \A z \in Txn \ {y} : Open(z, {"Update"}) => call[z].task.id # id
          /\ \A k \in KeysOf(snap[y], id) \ dirty[y] :
               /\ KeysOf(db, id) \subseteq {k}
               /\ \A z \in Txn : Open(z, {"Update"}) /\ call[z].task.id = id
                    => \A j \in KeysOf(snap[z], id) \ dirty[z] : j = k
      BY <3>1 DEF IInv, UpdatesAgree
    <3>3. KeysOf(snap[y], id) = {} => ~(o.kind = "Update" /\ o.task.id = id)
      BY <1>8, <2>2, <3>1, <3>2
    <3> QED
      BY <1>1, <1>2, <1>3, <3>1, <3>2, <3>3
  <2> QED
    BY <2>1, <2>2
<1>11. RecoverAlone'
  <2>1. CASE o.kind = "RecoverRunning"
    BY <1>1, <1>2, <2>1 DEF Starts, Idle, RecoverAlone, Open
  <2>2. CASE o.kind # "RecoverRunning"
    BY <1>2, <1>3, <2>2 DEF Starts, Recovering, RecoverAlone
  <2> QED
    BY <2>1, <2>2
<1> QED
  BY <1>5, <1>6, <1>7, <1>9, <1>10, <1>11 DEF IInv

\* What a commit that is not refused has found: the keys of its Update are
\* those of the store, or there are none.
LEMMA UpdateSees ==
  ASSUME IInv, NEW x \in Txn, Open(x, {"Update"}), ~Conflict(x)
  PROVE  LET id == call[x].task.id IN
         /\ Puts(call[x], snap[x]) = {call[x].task} /\ call[x].task \in Task
         /\ Deletes(call[x], snap[x]) = KeysOf(snap[x], id)
         /\ KeysOf(snap[x], id) \cap dirty[x] = {}
         /\ KeysOf(db, id) \subseteq KeysOf(snap[x], id)
<1> DEFINE id == call[x].task.id
           o == call[x]
           s == snap[x]
<1>1. o \in Op /\ o.kind = "Update" /\ o.task \in Task /\ WellKept(s)
  BY OpenType, OpType DEF IInv, TInv, AllKept, Open
<1>2. Puts(o, s) = {o.task} /\ Deletes(o, s) = {findKey(s, id)} \ {None} /\ Reads(o, s) = Scanned(s, id)
  BY <1>1 DEF Puts, Deletes, Reads
<1>3. Scanned(s, id) \cap dirty[x] = {}
  <2>1. Writes(o, s) # {}
    BY <1>2 DEF Writes
  <2> QED
    BY <1>2, <2>1 DEF Conflict
<1>4. Deletes(o, s) = KeysOf(s, id) /\ KeysOf(s, id) \subseteq Scanned(s, id)
  <2>1. CASE KeysOf(s, id) = {}
    BY <1>1, <1>2, <2>1, NotFound
  <2>2. CASE KeysOf(s, id) # {}
    <3>1. PICK k \in DOMAIN s : k.id = id
      BY <1>1, <2>2, NotFound
    <3>2. KeysOf(s, id) = {k} /\ findKey(s, id) = k /\ k \in Key /\ k # None
      BY <1>1, <3>1, Found, KeyType
    <3>3. k \in Scanned(s, id)
      BY <2>2, <3>2, BeforeOrder DEF Scanned
    <3> QED
      BY <1>2, <3>2, <3>3
  <2> QED
    BY <2>1, <2>2
<1>5. KeysOf(db, id) \subseteq KeysOf(s, id)
  BY <1>3, <1>4 DEF IInv, UpdatesAgree
<1> QED
  BY <1>1, <1>2, <1>3, <1>4, <1>5

\* The same for RecoverRunning: the running tasks of the snapshot are those of
\* the store.
LEMMA RecoverSees ==
  ASSUME IInv, NEW x \in Txn, Open(x, {"RecoverRunning"}), ~Conflict(x)
  PROVE  /\ Puts(call[x], snap[x]) = {[snap[x][k] EXCEPT !.status = "pending"] : k \in Stuck(snap[x])}
         /\ Deletes(call[x], snap[x]) = Stuck(snap[x])
         /\ Stuck(snap[x]) = Stuck(db)
         /\ \A k \in Stuck(snap[x]) : db[k] = snap[x][k]
<1> DEFINE o == call[x]
           s == snap[x]
<1>1. o \in Op /\ o.kind = "RecoverRunning" /\ WellKept(s) /\ WellKept(db)
  BY OpenType DEF IInv, TInv, AllKept, Open
<1>2. /\ Puts(o, s) = {[s[k] EXCEPT !.status = "pending"] : k \in Stuck(s)}
      /\ Deletes(o, s) = {taskKey(s[k]) : k \in Stuck(s)}
      /\ Reads(o, s) = Stuck(s)
  BY <1>1 DEF Puts, Deletes, Reads
<1>3. Deletes(o, s) = Stuck(s)
  <2>1. \A k \in Stuck(s) : taskKey(s[k]) = k
    BY <1>1 DEF Stuck, WellKept
  <2> QED
    BY <1>2, <2>1
<1>4. Stuck(s) \cap dirty[x] = {}
  BY <1>2, <1>3 DEF Conflict, Writes
<1>5. \A k \in Stuck(s) : k \in DOMAIN db /\ db[k] = s[k]
  <2> TAKE k \in Stuck(s)
  <2>1. k \in DOMAIN s \ dirty[x] /\ k.status = "running"
    BY <1>4 DEF Stuck
  <2>2. s[k] # None /\ s[k].status = "running"
    BY <1>1, <2>1, Found
  <2>3. Unfinished(s[k])
    BY <2>2, LiveStatus DEF Unfinished
  <2> QED
    BY <2>1, <2>3 DEF IInv, SeenHolds, Open
<1>6. DOMAIN db \subseteq DOMAIN s
  BY DEF IInv, RecoverAlone
<1> QED
  BY <1>2, <1>3, <1>5, <1>6 DEF Stuck

\* A commit deletes the old keys of what it puts.
LEMMA CommitCovers ==
  ASSUME IInv, NEW x \in Txn, call[x] # None, ~Conflict(x)
  PROVE  LET puts == Puts(call[x], snap[x]) IN
         /\ puts \subseteq Task /\ IsFiniteSet(puts)
         /\ \A t, u \in puts : t.id = u.id => t = u
         /\ \A t \in puts : KeysOf(db, t.id) \subseteq Deletes(call[x], snap[x])
         /\ \A t \in puts : t.id \in saved \/ (Open(x, {"Save"}) /\ t.id = call[x].task.id)
<1> DEFINE o == call[x]
           s == snap[x]
           puts == Puts(o, s)
<1>1. o \in Op /\ WellKept(s) /\ WellKept(db) /\ Typed(s)
  BY OpenType DEF IInv, TInv, AllKept
<1>2. puts \subseteq Task /\ IsFiniteSet(puts)
  BY <1>1, WritesType
<1>3. CASE o.kind = "Save"
  <2>1. Open(x, {"Save"})
    BY <1>3 DEF Open
  <2>2. puts = {[o.task EXCEPT !.status = "pending"]} /\ o.task \in Task
    BY <1>1, <1>3, OpType DEF Puts
  <2>3. \A t \in puts : t.id = o.task.id
    <3>1. [o.task EXCEPT !.status = "pending"].id = o.task.id
      BY <2>2, WithStatus, LiveStatus
    <3> QED
      BY <2>2, <3>1
  <2>4. KeysOf(db, o.task.id) = {}
    BY <2>1 DEF IInv, SavesAlone
  <2> QED
    BY <1>2, <2>1, <2>2, <2>3, <2>4
<1>4. CASE o.kind = "Update"
  <2>1. Open(x, {"Update"})
    BY <1>4 DEF Open
  <2>2. o.task.id \in saved
    BY <2>1 DEF IInv, IdsSaved
  <2> QED
    BY <1>2, <2>1, <2>2, UpdateSees
<1>5. CASE o.kind = "RecoverRunning"
  <2>1. Open(x, {"RecoverRunning"})
    BY <1>5 DEF Open
  <2>2. /\ puts = {[s[k] EXCEPT !.status = "pending"] : k \in Stuck(s)}
        /\ Deletes(o, s) = Stuck(s) /\ Stuck(s) = Stuck(db)
    BY <2>1, RecoverSees
  <2>3. \A k \in Stuck(s) : /\ [s[k] EXCEPT !.status = "pending"].id = k.id
                            /\ k \in DOMAIN s /\ k \in DOMAIN db /\ k.id \in saved
                            /\ KeysOf(db, k.id) = {k}
    <3> TAKE k \in Stuck(s)
    <3>1. k \in DOMAIN s /\ k \in DOMAIN db
      BY <2>2 DEF Stuck
    <3>2. s[k] \in Task /\ s[k].id = k.id /\ KeysOf(db, k.id) = {k}
      BY <1>1, <3>1, Found
    <3>3. k.id \in saved
      BY <3>1 DEF IInv, IdsSaved
    <3> QED
      BY <3>1, <3>2, <3>3, WithStatus, LiveStatus
  <2>4. \A j, k \in Stuck(s) : j.id = k.id => j = k
    BY <1>1, <2>3 DEF WellKept
  <2>5. \A t \in puts : \E k \in Stuck(s) : t = [s[k] EXCEPT !.status = "pending"] /\ t.id = k.id
    BY <2>2, <2>3
  <2>6. \A t \in puts : KeysOf(db, t.id) \subseteq Deletes(o, s) /\ t.id \in saved
    BY <2>2, <2>3, <2>5
  <2>7. \A t, u \in puts : t.id = u.id => t = u
    BY <2>4, <2>5
  <2> QED
    BY <1>2, <2>6, <2>7
<1>6. CASE o.kind \in {"Delete", "DeleteTasks"}
  <2>1. puts = {}
    BY <1>6 DEF Puts
  <2> QED
    BY <1>2, <2>1
<1> QED
  BY <1>1, <1>3, <1>4, <1>5, <1>6, OpType

\* Who puts a task: its own Save or Update, or RecoverRunning.
LEMMA Putters ==
  ASSUME IInv, NEW x \in Txn, call[x] # None, NEW t \in Puts(call[x], snap[x])
  PROVE  \/ Open(x, {"Save"}) /\ t.id = call[x].task.id
         \/ Open(x, {"Update"}) /\ t.id = call[x].task.id
         \/ Open(x, {"RecoverRunning"})
<1>1. call[x] \in Op
  BY OpenType DEF IInv, TInv
<1>2. CASE call[x].kind = "Save"
  <2>1. t = [call[x].task EXCEPT !.status = "pending"] /\ call[x].task \in Task
    BY <1>1, <1>2, OpType DEF Puts
  <2> QED
    BY <1>2, <2>1, WithStatus, LiveStatus DEF Open
<1>3. CASE call[x].kind = "Update"
  BY <1>3 DEF Puts, Open
<1>4. CASE call[x].kind \notin {"Save", "Update"}
  BY <1>1, <1>4, OpType DEF Puts, Open
<1> QED
  BY <1>2, <1>3, <1>4

\* A commit keeps the invariant.
LEMMA CommitKeeps ==
  ASSUME IInv, NEW x \in Txn, Commit(x), TInv'
  PROVE  IInv'
<1> DEFINE o == call[x]
           s == snap[x]
           puts == Puts(o, s)
           dels == Deletes(o, s)
<1>0. /\ TypeOK /\ call[x] # None /\ ~Conflict(x) /\ Closed(x)
      /\ saved' = IF Open(x, {"Save"}) THEN saved \cup {o.task.id} ELSE saved
      /\ db' = Written(db, o, s) /\ WellKept(db) /\ o \in Op
  BY OpenType DEF IInv, TInv, AllKept, Commit, Open
<1>1. /\ call'[x] = None /\ snap'[x] = Empty
      /\ \A y \in Txn \ {x} : call'[y] = call[y] /\ snap'[y] = snap[y]
  BY <1>0, EndsVars
<1>2. /\ ~\E K : Open(x, K)'
      /\ \A y \in Txn \ {x} : \A K : Open(y, K)' <=> Open(y, K)
  BY <1>1 DEF Open
<1>3. \A y \in Txn \ {x} : call[y] # None => dirty'[y] = dirty[y] \cup Writes(o, s)
  BY DEF Commit
<1>4. /\ puts \subseteq Task /\ IsFiniteSet(puts)
      /\ \A t, u \in puts : t.id = u.id => t = u
      /\ \A t \in puts : KeysOf(db, t.id) \subseteq dels
      /\ \A t \in puts : t.id \in saved'
  BY <1>0, CommitCovers
<1>5. /\ WellKept(db')
      /\ \A t \in puts : GetTask(db', t.id) = t
      /\ \A id : (\A t \in puts : t.id # id) => KeysOf(db', id) = KeysOf(db, id) \ dels
  BY <1>0, <1>4, WrittenKept
<1>6. /\ DOMAIN Empty = {} /\ WellKept(Empty)
  BY EmptyKept
<1>7. AllKept'
  BY <1>1, <1>5, <1>6 DEF IInv, AllKept
<1>8. SeenHolds'
  <2> SUFFICES ASSUME NEW y \in Txn, call'[y] # None, NEW k \in DOMAIN snap'[y] \ dirty'[y]
               PROVE  /\ k \in DOMAIN db' => db'[k] = snap'[y][k]
                      /\ Unfinished(snap'[y][k]) => k \in DOMAIN db'
    BY DEF SeenHolds, Unfinished
  <2>1. y # x /\ call[y] # None /\ snap'[y] = snap[y] /\ k \notin dirty[y] /\ k \notin Writes(o, s)
    BY <1>1, <1>3
  <2>2. /\ k \in DOMAIN db => db[k] = snap[y][k]
        /\ Unfinished(snap[y][k]) => k \in DOMAIN db
    BY <2>1 DEF IInv, SeenHolds
  <2>3. /\ k \in DOMAIN db' <=> k \in DOMAIN db
        /\ k \in DOMAIN db => db'[k] = db[k]
    BY <1>0, <2>1, Elsewhere
  <2> QED
    BY <2>1, <2>2, <2>3
<1>9. IdsSaved'
  <2>1. \A k \in DOMAIN db' : k.id \in saved'
    <3> TAKE k \in DOMAIN db'
    <3>1. CASE \E t \in puts : t.id = k.id
      BY <1>4, <3>1
    <3>2. CASE \A t \in puts : t.id # k.id
      <4>1. k \in KeysOf(db', k.id)
        BY DEF KeysOf
      <4>2. k \in DOMAIN db
        BY <1>5, <3>2, <4>1 DEF KeysOf
      <4> QED
        BY <1>0, <4>2 DEF IInv, IdsSaved
    <3> QED
      BY <3>1, <3>2
  <2> QED
    BY <1>0, <1>1, <1>2, <1>6, <2>1 DEF IInv, IdsSaved
<1>10. \A t \in puts : \/ Open(x, {"Save"}) /\ t.id = o.task.id
                       \/ Open(x, {"Update"}) /\ t.id = o.task.id
                       \/ \A y \in Txn \ {x} : call[y] = None
  BY <1>0, Putters DEF IInv, RecoverAlone
<1>11. SavesAlone'
  <2> SUFFICES ASSUME NEW y \in Txn, Open(y, {"Save"})'
               PROVE  /\ call'[y].task.id \notin saved' /\ KeysOf(db', call'[y].task.id) = {}
                      /\ \A z \in Txn \ {y} : Open(z, {"Save", "Update"})'
                           => call'[z].task.id # call'[y].task.id
    BY DEF SavesAlone
  <2>1. y # x /\ Open(y, {"Save"}) /\ call'[y] = call[y] /\ call[y] # None
    BY <1>1, <1>2 DEF Open
  <2>2. /\ call[y].task.id \notin saved /\ KeysOf(db, call[y].task.id) = {}
        /\ \A z \in Txn \ {y} : Open(z, {"Save", "Update"}) => call[z].task.id # call[y].task.id
    BY <2>1 DEF IInv, SavesAlone
  <2>3. \A t \in puts : t.id # call[y].task.id
    BY <1>10, <2>1, <2>2 DEF Open
  <2>4. call[y].task.id \notin saved'
    BY <1>0, <2>1, <2>2 DEF Open
  <2> QED
    BY <1>1, <1>2, <1>5, <2>1, <2>2, <2>3, <2>4
<1>12. UpdatesAgree'
  <2> SUFFICES ASSUME NEW y \in Txn, Open(y, {"Update"})'
               PROVE  LET id == call'[y].task.id IN
                      /\ KeysOf(snap'[y], id) = {} =>
                          /\ KeysOf(db', id) = {}
                          /\ \A z \in Txn \ {y} : Open(z, {"Update"})' => call'[z].task.id # id
                      /\ \A k \in KeysOf(snap'[y], id) \ dirty'[y] :
                          /\ KeysOf(db', id) \subseteq {k}
                          /\ \A z \in Txn : Open(z, {"Update"})' /\ call'[z].task.id = id
                               => \A j \in KeysOf(snap'[z], id) \ dirty'[z] : j = k
    BY DEF UpdatesAgree
  <2> DEFINE id == call[y].task.id
  <2>1. /\ y # x /\ Open(y, {"Update"}) /\ call'[y] = call[y] /\ snap'[y] = snap[y]
        /\ call[y] # None /\ dirty'[y] = dirty[y] \cup Writes(o, s)
    BY <1>1, <1>2, <1>3 DEF Open
  <2>2. /\ KeysOf(snap[y], id) = {} =>
             /\ KeysOf(db, id) = {}
             /\ \A z \in Txn \ {y} : Open(z, {"Update"}) => call[z].task.id # id
        /\ \A k \in KeysOf(snap[y], id) \ dirty[y] :
             /\ KeysOf(db, id) \subseteq {k}
             /\ \A z \in Txn : Open(z, {"Update"}) /\ call[z].task.id = id
                  => \A j \in KeysOf(snap[z], id) \ dirty[z] : j = k
    BY <2>1 DEF IInv, UpdatesAgree
  <2>3. \A t \in puts : t.id = id => Open(x, {"Update"}) /\ o.task.id = id
    <3>1. Open(x, {"Save"}) => o.task.id # id
      BY <2>1 DEF IInv, SavesAlone, Open
    <3> QED
      BY <1>10, <2>1, <3>1
  <2>4. KeysOf(snap[y], id) = {} => KeysOf(db', id) = {}
    BY <1>5, <2>1, <2>2, <2>3
  <2>5. ASSUME NEW k \in KeysOf(snap[y], id), k \notin dirty'[y]
        PROVE  KeysOf(db', id) \subseteq {k}
    <3>1. k \notin dirty[y] /\ k \notin Writes(o, s)
      BY <2>1, <2>5
    <3>2. ASSUME Open(x, {"Update"}), o.task.id = id PROVE FALSE
      <4>1. /\ Deletes(o, s) = KeysOf(s, id) /\ KeysOf(s, id) \cap dirty[x] = {}
        BY <1>0, <3>2, UpdateSees
      <4>2. KeysOf(s, id) # {}
        BY <2>1, <3>2 DEF IInv, UpdatesAgree
      <4>3. PICK j \in KeysOf(s, id) : TRUE
        BY <4>2
      <4>4. j = k
        BY <2>2, <3>1, <3>2, <4>1, <4>3
      <4> QED
        BY <3>1, <4>1, <4>3, <4>4 DEF Writes
    <3>3. KeysOf(db', id) \subseteq KeysOf(db, id)
      BY <1>5, <2>3, <3>2
    <3> QED
      BY <2>2, <2>5, <3>1, <3>3
  <2>6. ASSUME NEW k \in KeysOf(snap[y], id), k \notin dirty'[y],
               NEW z \in Txn, Open(z, {"Update"})', call'[z].task.id = id,
               NEW j \in KeysOf(snap'[z], id) \ dirty'[z]
        PROVE  j = k
    <3>1. /\ z # x /\ Open(z, {"Update"}) /\ call'[z] = call[z] /\ snap'[z] = snap[z]
          /\ call[z] # None /\ dirty'[z] = dirty[z] \cup Writes(o, s)
      BY <1>1, <1>2, <1>3, <2>6 DEF Open
    <3> QED
      BY <2>1, <2>2, <2>6, <3>1
  <2>7. KeysOf(snap[y], id) = {} =>
          \A z \in Txn \ {y} : Open(z, {"Update"})' => call'[z].task.id # id
    BY <1>1, <1>2, <2>2
  <2> QED
    BY <2>1, <2>4, <2>5, <2>6, <2>7
<1>13. RecoverAlone'
  <2> SUFFICES ASSUME NEW y \in Txn, Open(y, {"RecoverRunning"})' PROVE FALSE
    BY DEF RecoverAlone
  <2>1. y # x /\ Open(y, {"RecoverRunning"})
    BY <1>2
  <2> QED
    BY <1>0, <2>1 DEF IInv, RecoverAlone
<1> QED
  BY <1>7, <1>8, <1>9, <1>11, <1>12, <1>13 DEF IInv

\* So does a transaction that is refused,
LEMMA RefusedKeeps ==
  ASSUME IInv, NEW x \in Txn, ErrConflict(x), TInv'
  PROVE  IInv'
<1>1. TypeOK /\ Closed(x) /\ db' = db /\ saved' = saved
  BY DEF IInv, TInv, ErrConflict
<1>2. /\ call'[x] = None /\ snap'[x] = Empty
      /\ \A y \in Txn \ {x} : call'[y] = call[y] /\ snap'[y] = snap[y] /\ dirty'[y] = dirty[y]
  BY <1>1, EndsVars DEF ErrConflict, TypeOK
<1>3. /\ ~\E K : Open(x, K)'
      /\ \A y \in Txn \ {x} : \A K : Open(y, K)' <=> Open(y, K)
  BY <1>2 DEF Open
<1>4. AllKept' /\ IdsSaved'
  BY <1>1, <1>2, <1>3, EmptyKept DEF IInv, AllKept, IdsSaved
<1>5. SeenHolds'
  BY <1>1, <1>2 DEF IInv, SeenHolds, Unfinished
<1>6. SavesAlone' /\ RecoverAlone'
  BY <1>1, <1>2, <1>3 DEF IInv, SavesAlone, RecoverAlone
<1>7. UpdatesAgree'
  BY <1>1, <1>2, <1>3 DEF IInv, UpdatesAgree
<1> QED
  BY <1>4, <1>5, <1>6, <1>7 DEF IInv

\* the death of the process,
LEMMA CrashKeeps ==
  ASSUME IInv, Crash, TInv'
  PROVE  IInv'
<1>1. /\ db' = db /\ saved' = saved
      /\ \A x \in Txn : call'[x] = None /\ snap'[x] = Empty
  BY DEF Crash
<1>2. AllKept' /\ IdsSaved'
  BY <1>1, EmptyKept DEF IInv, AllKept, IdsSaved, Open
<1> QED
  BY <1>1, <1>2 DEF IInv, SeenHolds, SavesAlone, UpdatesAgree, RecoverAlone, Open

\* and the end of a record's time.
LEMMA ExpireKeeps ==
  ASSUME IInv, NEW k \in DOMAIN db, Expire(k), TInv'
  PROVE  IInv'
<1>1. /\ db' = [j \in DOMAIN db \ {k} |-> db[j]] /\ withTTL(db[k])
      /\ UNCHANGED <<call, snap, dirty, saved>>
  BY DEF Expire
<1>2. /\ DOMAIN db' = DOMAIN db \ {k} /\ \A j \in DOMAIN db' : db'[j] = db[j]
  BY <1>1
<1>3. \A id : KeysOf(db', id) \subseteq KeysOf(db, id)
  BY <1>2 DEF KeysOf
<1>4. \A x \in Txn : \A K : Open(x, K)' <=> Open(x, K)
  BY <1>1 DEF Open
<1>5. AllKept'
  BY <1>1, RemovedKept DEF IInv, AllKept
<1>6. SeenHolds'
  <2> SUFFICES ASSUME NEW x \in Txn, call[x] # None, NEW j \in DOMAIN snap[x] \ dirty[x]
               PROVE  /\ j \in DOMAIN db' => db'[j] = snap[x][j]
                      /\ Unfinished(snap[x][j]) => j \in DOMAIN db'
    BY <1>1 DEF SeenHolds, Unfinished
  <2>1. /\ j \in DOMAIN db => db[j] = snap[x][j]
        /\ Unfinished(snap[x][j]) => j \in DOMAIN db
    BY DEF IInv, SeenHolds
  <2>2. Unfinished(snap[x][j]) => j # k
    BY <1>1, <2>1 DEF Unfinished, withTTL
  <2> QED
    BY <1>2, <2>1, <2>2
<1>7. IdsSaved' /\ RecoverAlone'
  BY <1>1, <1>2, <1>4 DEF IInv, IdsSaved, RecoverAlone
<1>8. SavesAlone'
  BY <1>1, <1>3, <1>4 DEF IInv, SavesAlone
<1>9. UpdatesAgree'
  <2> SUFFICES ASSUME NEW y \in Txn, Open(y, {"Update"})
               PROVE  LET id == call[y].task.id IN
                      /\ KeysOf(snap[y], id) = {} =>
                          /\ KeysOf(db', id) = {}
                          /\ \A z \in Txn \ {y} : Open(z, {"Update"}) => call[z].task.id # id
                      /\ \A j \in KeysOf(snap[y], id) \ dirty[y] :
                          /\ KeysOf(db', id) \subseteq {j}
                          /\ \A z \in Txn : Open(z, {"Update"}) /\ call[z].task.id = id
                               => \A i \in KeysOf(snap[z], id) \ dirty[z] : i = j
    BY <1>1, <1>4 DEF UpdatesAgree
  <2> QED
    BY <1>3 DEF IInv, UpdatesAgree
<1> QED
  BY <1>5, <1>6, <1>7, <1>8, <1>9 DEF IInv

\* The inductive invariant.
THEOREM Invariance ==
  ASSUME MaxBlind = 0
  PROVE  Spec => []IInv
<1>1. IInv /\ [Next]_vars => IInv'
  <2> SUFFICES ASSUME IInv, [Next]_vars PROVE IInv'
    OBVIOUS
  <2>1. TInv' /\ TypeOK
    BY TInvNext DEF IInv, TInv
  <2>2. CASE Next
    BY <2>1, <2>2, Steps, StartsKeeps, CommitKeeps, RefusedKeeps, CrashKeeps, ExpireKeeps
  <2>3. CASE UNCHANGED vars
    <3>1. UNCHANGED <<db, call, snap, dirty, saved>>
      BY <2>3 DEF vars
    <3>2. AllKept' /\ SeenHolds' /\ IdsSaved'
      BY <3>1 DEF IInv, AllKept, SeenHolds, IdsSaved, Open, Unfinished
    <3>3. SavesAlone' /\ RecoverAlone'
      BY <3>1 DEF IInv, SavesAlone, RecoverAlone, Open
    <3>4. UpdatesAgree'
      BY <3>1 DEF IInv, UpdatesAgree, Open
    <3> QED
      BY <2>1, <3>2, <3>3, <3>4 DEF IInv
  <2> QED
    BY <2>2, <2>3
<1> QED
  BY IInvInit, <1>1, PTL DEF Spec

-----------------------------------------------------------------------------
(* What callers rely on.                                                   *)

\* Every task is under the one key its status and time say, whichever
\* transactions overlapped.
THEOREM KeyspaceKept ==
  ASSUME MaxBlind = 0
  PROVE  Spec => []Keyspace
<1>1. IInv => Keyspace
  BY DEF IInv, AllKept, WellKept, Keyspace, OneKeyPerId
<1> QED
  BY <1>1, Invariance, PTL

\* What the seconds of two times say of the times.
LEMMA UnixSecond ==
  ASSUME NEW a \in Nat, NEW b \in Nat
  PROVE  /\ a + Res <= b => Unix(a) < Unix(b)
         /\ Unix(a) <= Unix(b) => a < b + Res
<1>1. Res \in Nat /\ Res > 0
  BY KeysAssumption
<1> DEFINE q == a \div Res
           r == b \div Res
<1>2. /\ q \in Nat /\ r \in Nat
      /\ a < (q + 1) * Res /\ b < (r + 1) * Res
      /\ q * Res <= a /\ r * Res <= b
  BY <1>1
<1>3. Unix(a) = q /\ Unix(b) = r
  BY DEF Unix
<1> HIDE DEF q, r
<1>4. (q + 1) * Res = q * Res + Res /\ (r + 1) * Res = r * Res + Res
  BY <1>1, <1>2
<1>5. ASSUME q <= r PROVE q * Res <= r * Res
  BY <1>1, <1>2, <1>5
<1>6. ASSUME r <= q PROVE r * Res <= q * Res
  BY <1>1, <1>2, <1>6
<1>7. q * Res \in Int /\ r * Res \in Int
  BY <1>1, <1>2
<1>8. ASSUME a + Res <= b PROVE q < r
  BY <1>1, <1>2, <1>4, <1>6, <1>7, <1>8
<1>9. ASSUME q <= r PROVE a < b + Res
  BY <1>1, <1>2, <1>4, <1>5, <1>7, <1>9
<1> QED
  BY <1>3, <1>8, <1>9

\* Counting keys gives the numbers of tasks, and those of the overdue ones to
\* within a second.
LEMMA CountsAgree == WellKept(db) => CountsExact
<1> SUFFICES ASSUME WellKept(db) PROVE CountsExact
  OBVIOUS
<1> DEFINE With(st) == {id \in Id : GetTask(db, id) # None /\ GetTask(db, id).status = st}
           DueBy(t) == {id \in With("pending") : GetTask(db, id).executeAt <= t}
           K(st) == {k \in DOMAIN db : k.status = st}
           D(t) == {k \in K("pending") : db[k].executeAt <= t}
<1>1. \A id \in Id : GetTask(db, id) # None =>
        \E k \in DOMAIN db : k.id = id /\ GetTask(db, id) = db[k]
  BY NotFound, Found
<1>2. ASSUME NEW k \in DOMAIN db
      PROVE  /\ k.id \in Id /\ GetTask(db, k.id) = db[k] /\ db[k] # None
             /\ db[k].status = k.status /\ Unix(db[k].executeAt) = k.ts
             /\ db[k].executeAt \in Nat
  <2>1. db[k] \in Task
    BY Found
  <2> QED
    BY <2>1, Found, KeyType, TaskType DEF Tick
<1>3. \A st : With(st) = {k.id : k \in K(st)}
  BY <1>1, <1>2
<1>4. \A st : Cardinality(K(st)) = Cardinality(With(st))
  <2> TAKE st
  <2>1. K(st) \in SUBSET DOMAIN db
    OBVIOUS
  <2> QED
    BY <1>3, <2>1, SameIds
<1>5. \A t : Cardinality(D(t)) = Cardinality(DueBy(t))
  <2> TAKE t
  <2>1. DueBy(t) = {k.id : k \in D(t)}
    BY <1>1, <1>2
  <2>2. D(t) \in SUBSET DOMAIN db
    OBVIOUS
  <2> QED
    BY <2>1, <2>2, SameIds
<1>6. ASSUME NEW now \in Tick
      PROVE  LET L == {k \in DOMAIN db : k.status = "pending" /\ k.ts <= Unix(now)} IN
             Cardinality(L) \in Cardinality(D(now))..Cardinality(D(now + Res - 1))
  <2> DEFINE L == {k \in DOMAIN db : k.status = "pending" /\ k.ts <= Unix(now)}
  <2>0. now \in Nat /\ Res \in Nat
    BY KeysAssumption DEF Tick
  <2>1. D(now) \subseteq L
    <3> SUFFICES ASSUME NEW k \in D(now) PROVE k.ts <= Unix(now)
      OBVIOUS
    <3>1. db[k].executeAt \in Nat /\ db[k].executeAt <= now /\ Unix(db[k].executeAt) = k.ts
      BY <1>2
    <3> QED
      BY <2>0, <3>1, UnixMonotonic
  <2>2. L \subseteq D(now + Res - 1)
    <3> SUFFICES ASSUME NEW k \in L PROVE db[k].executeAt <= now + Res - 1
      OBVIOUS
    <3>1. db[k].executeAt \in Nat /\ Unix(db[k].executeAt) <= Unix(now)
      BY <1>2
    <3>2. db[k].executeAt < now + Res
      BY <2>0, <3>1, UnixSecond
    <3> QED
      BY <2>0, <3>1, <3>2
  <2>3. IsFiniteSet(D(now)) /\ IsFiniteSet(L) /\ IsFiniteSet(D(now + Res - 1))
    <3>1. D(now) \subseteq DOMAIN db /\ L \subseteq DOMAIN db /\ D(now + Res - 1) \subseteq DOMAIN db
      OBVIOUS
    <3> QED
      BY <3>1, FS_Subset DEF WellKept
  <2> HIDE DEF L, D
  <2>4. Cardinality(D(now)) <= Cardinality(L) /\ Cardinality(L) <= Cardinality(D(now + Res - 1))
    BY <2>1, <2>2, <2>3, FS_Subset
  <2>5. /\ Cardinality(D(now)) \in Nat /\ Cardinality(L) \in Nat
        /\ Cardinality(D(now + Res - 1)) \in Nat
    BY <2>3, FS_CardinalityType
  <2> QED
    BY <2>4, <2>5 DEF L
<1> HIDE DEF With, DueBy, K, D
<1>7. ASSUME NEW now \in Tick
      PROVE  /\ Counts(db, now).byStatus = [st \in Status |-> Cardinality(With(st))]
             /\ Counts(db, now).overdue \in
                  Cardinality(DueBy(now))..Cardinality(DueBy(now + Res - 1))
  <2>1. \A st : Cardinality({k \in DOMAIN db : k.status = st}) = Cardinality(With(st))
    BY <1>4 DEF K
  <2> QED
    BY <1>5, <1>6, <2>1 DEF Counts
<1> QED
  BY <1>7 DEF CountsExact, With, DueBy

\* Counts, which reads keys only, agrees with what GetTask returns, exactly for
\* the statuses and to within a second for the overdue tasks.
THEOREM CountsAreExact ==
  ASSUME MaxBlind = 0
  PROVE  Spec => []CountsExact
<1>1. IInv => CountsExact
  BY CountsAgree DEF IInv, AllKept
<1> QED
  BY <1>1, Invariance, PTL

\* What a batch holds and what it leaves out.
LEMMA BatchOldest == WellKept(db) => DueOldest
<1> SUFFICES ASSUME WellKept(db), NEW end \in Tick, NEW limit \in Limits
             PROVE  LET batch == GetDueTasks(db, end, limit) IN
      /\ Cardinality(batch) <= MaxDueBatch
      /\ \A t \in batch : t = GetTask(db, t.id) /\ t.status = "pending" /\ t.executeAt < end
      /\ \A id \in Id :
           LET t == GetTask(db, id) IN
             t # None /\ t.status = "pending" /\ t.executeAt + Res <= end /\ t \notin batch
               => /\ Cardinality(batch) = clamp(limit)
                  /\ \A b \in batch : b.executeAt < t.executeAt + Res
  BY DEF DueOldest
<1> DEFINE batch == GetDueTasks(db, end, limit)
           S == DueKeys(db, end)
           n == clamp(limit)
           F == FirstRows(S, n)
<1>1. n \in Nat /\ n <= MaxDueBatch /\ MaxDueBatch \in Nat
  BY ClampType, KeysAssumption DEF Limits
<1>2. S \in SUBSET DOMAIN db /\ S \in SUBSET Key /\ IsFiniteSet(S)
  <2>1. S \in SUBSET DOMAIN db
    BY DEF DueKeys
  <2> QED
    BY <2>1, FS_Subset DEF WellKept
<1>3. \A k \in S : /\ db[k] \in Task /\ GetTask(db, k.id) = db[k] /\ db[k].id = k.id /\ k \in Key
                   /\ db[k].status = "pending" /\ k.status = "pending"
                   /\ Unix(db[k].executeAt) = k.ts /\ k.ts < Unix(end)
  BY <1>2, Found DEF DueKeys
<1>4. batch = {db[k] : k \in F}
  BY DEF GetDueTasks, FirstRows, Predecessors
<1> HIDE DEF batch, S, n, F
<1>5. /\ F \subseteq S /\ Cardinality(F) <= n /\ Cardinality(F) \in Nat
      /\ F # S => Cardinality(F) = n
      /\ \A j \in F, k \in S \ F : Before(j, k)
  BY <1>1, <1>2, FirstRowsCount, FS_CardinalityType DEF F
<1>6. Cardinality(batch) = Cardinality(F)
  <2>1. F \in SUBSET DOMAIN db
    BY <1>2, <1>5
  <2>2. \A t : t \in batch <=> \E k \in F : t = db[k]
    BY <1>4
  <2> QED
    BY <2>1, <2>2, SameValues
<1>7. Cardinality(batch) <= MaxDueBatch
  BY <1>1, <1>5, <1>6
<1>8. ASSUME NEW t \in batch
      PROVE  t = GetTask(db, t.id) /\ t.status = "pending" /\ t.executeAt < end
  <2>1. PICK k \in S : t = db[k]
    BY <1>4, <1>5
  <2>2. t \in Task /\ t = GetTask(db, t.id) /\ t.status = "pending" /\ Unix(t.executeAt) < Unix(end)
    BY <1>3, <2>1
  <2>3. t.executeAt \in Nat /\ end \in Nat
    BY <2>2, TaskType, KeysAssumption DEF Tick
  <2>4. Unix(end) \in Nat /\ Unix(t.executeAt) \in Nat
    BY <2>3, UnixMonotonic
  <2>5. end <= t.executeAt => Unix(end) <= Unix(t.executeAt)
    BY <2>3, UnixMonotonic
  <2> QED
    BY <2>2, <2>3, <2>4, <2>5
<1>9. ASSUME NEW id \in Id, GetTask(db, id) # None, GetTask(db, id).status = "pending",
             GetTask(db, id).executeAt + Res <= end, GetTask(db, id) \notin batch
      PROVE  /\ Cardinality(batch) = n
             /\ \A b \in batch : b.executeAt < GetTask(db, id).executeAt + Res
  <2>1. PICK k \in DOMAIN db : k.id = id
    BY <1>9, NotFound
  <2>2. /\ GetTask(db, id) = db[k] /\ k.status = "pending" /\ db[k].executeAt \in Nat
        /\ k.ts < Unix(end) /\ Unix(db[k].executeAt) = k.ts /\ k \in Key
    <3>1. /\ GetTask(db, id) = db[k] /\ k.status = "pending" /\ db[k] \in Task
          /\ Unix(db[k].executeAt) = k.ts /\ k \in Key
      BY <1>9, <2>1, Found
    <3>2. db[k].executeAt \in Nat /\ end \in Nat
      BY <3>1, TaskType, KeysAssumption DEF Tick
    <3>3. Unix(db[k].executeAt) < Unix(end)
      BY <1>9, <3>1, <3>2, UnixSecond
    <3> QED
      BY <3>1, <3>2, <3>3
  <2>3. k \in S \ F
    <3>1. k \in S
      BY <2>2 DEF S, DueKeys
    <3> QED
      BY <1>4, <1>9, <2>2, <3>1
  <2>4. Cardinality(batch) = n
    BY <1>5, <1>6, <2>3
  <2>5. ASSUME NEW b \in batch PROVE b.executeAt < db[k].executeAt + Res
    <3>1. PICK j \in F : b = db[j]
      BY <1>4
    <3>2. Before(j, k) /\ j \in S
      BY <1>5, <2>3, <3>1
    <3>3. /\ Unix(b.executeAt) = j.ts /\ j.status = k.status
          /\ j.ts \in Int /\ k.ts \in Int /\ Rank(k.status) \in Int
      BY <1>3, <2>2, <3>1, <3>2, KeyType, RankType
    <3>4. Unix(b.executeAt) <= Unix(db[k].executeAt)
      BY <2>2, <3>2, <3>3 DEF Before
    <3>5. b.executeAt \in Nat
      BY <1>3, <3>1, <3>2, TaskType DEF Tick
    <3> QED
      BY <2>2, <3>4, <3>5, UnixSecond
  <2> QED
    BY <2>2, <2>4, <2>5
<1> QED
  BY <1>7, <1>8, <1>9 DEF batch, n

\* The poll for due tasks returns the oldest ones, to within a second, and leaves
\* out one that is due a second or more before the end only when the batch is
\* full: no backlog starves a task.
THEOREM DueOldestFirst ==
  ASSUME MaxBlind = 0
  PROVE  Spec => []DueOldest
<1>1. IInv => DueOldest
  BY BatchOldest DEF IInv, AllKept
<1> QED
  BY <1>1, Invariance, PTL

-----------------------------------------------------------------------------
(* What a commit does to the tasks.                                        *)

\* It puts what it puts, deletes what it deletes, and leaves the rest alone.
LEMMA CommitTasks ==
  ASSUME IInv, NEW x \in Txn, Commit(x)
  PROVE  LET puts == Puts(call[x], snap[x])
             dels == Deletes(call[x], snap[x]) IN
         /\ WellKept(db) /\ WellKept(db') /\ call[x] \in Op /\ ~Conflict(x)
         /\ \A t \in puts : GetTask(db', t.id) = t /\ t \in Task
         /\ \A id : (\A t \in puts : t.id # id) =>
              /\ KeysOf(db, id) \cap dels = {} => GetTask(db', id) = GetTask(db, id)
              /\ KeysOf(db, id) \cap dels # {} => GetTask(db', id) = None
<1> DEFINE puts == Puts(call[x], snap[x])
           dels == Deletes(call[x], snap[x])
<1>1. /\ WellKept(db) /\ call[x] \in Op /\ call[x] # None /\ ~Conflict(x)
      /\ db' = Written(db, call[x], snap[x])
  BY OpenType DEF IInv, TInv, AllKept, Commit
<1>2. /\ puts \subseteq Task /\ IsFiniteSet(puts)
      /\ \A t, u \in puts : t.id = u.id => t = u
      /\ \A t \in puts : KeysOf(db, t.id) \subseteq dels
  BY <1>1, CommitCovers
<1>3. /\ WellKept(db')
      /\ \A t \in puts : GetTask(db', t.id) = t
      /\ \A id : (\A t \in puts : t.id # id) => KeysOf(db', id) = KeysOf(db, id) \ dels
      /\ \A k \in DOMAIN db \ dels : k \in DOMAIN db' /\ db'[k] = db[k]
  BY <1>1, <1>2, WrittenKept
<1>4. ASSUME NEW id, \A t \in puts : t.id # id
      PROVE  /\ KeysOf(db, id) \cap dels = {} => GetTask(db', id) = GetTask(db, id)
             /\ KeysOf(db, id) \cap dels # {} => GetTask(db', id) = None
  <2>1. KeysOf(db', id) = KeysOf(db, id) \ dels
    BY <1>3, <1>4
  <2>2. CASE KeysOf(db, id) = {}
    BY <1>1, <1>3, <2>1, <2>2, NotFound
  <2>3. CASE KeysOf(db, id) # {}
    <3>1. PICK k \in DOMAIN db : k.id = id
      BY <1>1, <2>3, NotFound
    <3>2. KeysOf(db, id) = {k} /\ GetTask(db, id) = db[k]
      BY <1>1, <3>1, Found
    <3>3. k \notin dels => k \in DOMAIN db' /\ db'[k] = db[k]
      BY <1>3
    <3>4. k \in DOMAIN db' => GetTask(db', id) = db'[k]
      BY <1>3, <3>1, Found
    <3>5. k \in dels => GetTask(db', id) = None
      BY <1>3, <2>1, <3>2, NotFound
    <3> QED
      BY <3>2, <3>3, <3>4, <3>5
  <2> QED
    BY <2>2, <2>3
<1> QED
  BY <1>1, <1>2, <1>3, <1>4

\* A Save or an Update replaces one task.
LEMMA PutTask ==
  ASSUME IInv, NEW x \in Txn, Commit(x), NEW t \in Puts(call[x], snap[x]),
         Open(x, {"Save", "Update"})
  PROVE  /\ t = IF call[x].kind = "Save" THEN [call[x].task EXCEPT !.status = "pending"]
                                         ELSE call[x].task
         /\ t \in Task /\ GetTask(db', t.id) = t
         /\ \A id : id # t.id => GetTask(db', id) = GetTask(db, id)
<1> DEFINE puts == Puts(call[x], snap[x])
           dels == Deletes(call[x], snap[x])
<1>1. call[x].kind \in {"Save", "Update"} /\ call[x] # None
  BY DEF Open
<1>2. puts = {t}
      /\ t = IF call[x].kind = "Save" THEN [call[x].task EXCEPT !.status = "pending"]
                                      ELSE call[x].task
  BY <1>1 DEF Puts
<1>3. t \in Task /\ GetTask(db', t.id) = t
  BY CommitTasks
<1>4. \A id : id # t.id => KeysOf(db, id) \cap dels = {}
  <2>1. CASE call[x].kind = "Save"
    BY <2>1 DEF Deletes
  <2>2. CASE call[x].kind = "Update"
    <3>1. Open(x, {"Update"}) /\ ~Conflict(x)
      BY <2>2, CommitTasks DEF Open
    <3>2. dels = KeysOf(snap[x], t.id)
      BY <1>2, <2>2, <3>1, UpdateSees
    <3> QED
      BY <3>2 DEF KeysOf
  <2> QED
    BY <1>1, <2>1, <2>2
<1>5. ASSUME NEW id, id # t.id PROVE GetTask(db', id) = GetTask(db, id)
  <2>1. \A u \in puts : u.id # id
    BY <1>2, <1>5
  <2> QED
    BY <1>4, <1>5, <2>1, CommitTasks
<1> QED
  BY <1>2, <1>3, <1>5

\* A Delete removes its task, or nothing if it never saw it, or if the task
\* has expired since and was put back elsewhere.
LEMMA DeleteTask ==
  ASSUME IInv, NEW x \in Txn, Commit(x), Open(x, {"Delete"})
  PROVE  /\ \A id : id # call[x].id => GetTask(db', id) = GetTask(db, id)
         /\ GetTask(db', call[x].id) \in {None, GetTask(db, call[x].id)}
<1> DEFINE puts == Puts(call[x], snap[x])
           dels == Deletes(call[x], snap[x])
<1>1. call[x].kind = "Delete"
  BY DEF Open
<1>2. puts = {} /\ dels = {findKey(snap[x], call[x].id)} \ {None}
  BY <1>1 DEF Puts, Deletes
<1>3. WellKept(snap[x])
  BY DEF IInv, AllKept
<1>4. \A k \in dels : k.id = call[x].id
  BY <1>2, <1>3, NotFound, Found
<1>5. \A id : id # call[x].id => KeysOf(db, id) \cap dels = {}
  BY <1>4 DEF KeysOf
<1>6. \A id : /\ KeysOf(db, id) \cap dels = {} => GetTask(db', id) = GetTask(db, id)
              /\ KeysOf(db, id) \cap dels # {} => GetTask(db', id) = None
  BY <1>2, CommitTasks
<1> QED
  BY <1>5, <1>6

\* A bulk delete removes only tasks that match, and every task that matched
\* when it began and is unfinished.
LEMMA BulkDelete ==
  ASSUME IInv, NEW x \in Txn, Commit(x), Open(x, {"DeleteTasks"})
  PROVE  /\ \A id : \/ GetTask(db', id) = GetTask(db, id)
                    \/ /\ GetTask(db', id) = None /\ GetTask(db, id) # None
                       /\ Matches(GetTask(db, id), call[x].filter)
         /\ \A k \in Matching(snap[x], call[x].filter) :
              Unfinished(snap[x][k]) => GetTask(db', k.id) = None
<1> DEFINE s == snap[x]
           f == call[x].filter
           puts == Puts(call[x], s)
           dels == Deletes(call[x], s)
<1>1. call[x].kind = "DeleteTasks" /\ call[x] # None
  BY DEF Open
<1>2. puts = {} /\ dels = Matching(s, f) /\ Reads(call[x], s) = DOMAIN s
  BY <1>1 DEF Puts, Deletes, Reads
<1>3. WellKept(s) /\ WellKept(db)
  BY DEF IInv, AllKept
<1>4. \A k \in dels : k \in DOMAIN s \ dirty[x] /\ Matches(s[k], f)
  <2> TAKE k \in dels
  <2>1. k \in DOMAIN s /\ Matches(s[k], f) /\ Writes(call[x], s) # {}
    BY <1>2 DEF Matching, Writes
  <2>2. DOMAIN s \cap dirty[x] = {}
    BY <1>2, <2>1, CommitTasks DEF Conflict
  <2> QED
    BY <2>1, <2>2
<1>5. \A k \in dels : /\ k \in DOMAIN db => db[k] = s[k]
                      /\ Unfinished(s[k]) => k \in DOMAIN db
  BY <1>1, <1>4 DEF IInv, SeenHolds
<1>6. \A id : /\ KeysOf(db, id) \cap dels = {} => GetTask(db', id) = GetTask(db, id)
              /\ KeysOf(db, id) \cap dels # {} => GetTask(db', id) = None
  BY <1>2, CommitTasks
<1>7. ASSUME NEW id, KeysOf(db, id) \cap dels # {}
      PROVE  GetTask(db, id) # None /\ Matches(GetTask(db, id), f)
  <2>1. PICK k \in dels : k \in DOMAIN db /\ k.id = id
    BY <1>7 DEF KeysOf
  <2>2. GetTask(db, id) = db[k] /\ db[k] # None
    BY <1>3, <2>1, Found
  <2> QED
    BY <1>4, <1>5, <2>1, <2>2
<1>8. ASSUME NEW k \in dels, Unfinished(s[k]) PROVE GetTask(db', k.id) = None
  <2>1. k \in KeysOf(db, k.id)
    BY <1>5, <1>8 DEF KeysOf
  <2> QED
    BY <1>6, <2>1
<1> QED
  BY <1>2, <1>6, <1>7, <1>8

\* RecoverRunning re-queues every running task, and leaves the others alone.
LEMMA Recovered ==
  ASSUME IInv, NEW x \in Txn, Commit(x), Open(x, {"RecoverRunning"}), NEW id
  PROVE  GetTask(db', id) =
           IF GetTask(db, id) # None /\ GetTask(db, id).status = "running"
             THEN [GetTask(db, id) EXCEPT !.status = "pending"]
             ELSE GetTask(db, id)
<1> DEFINE s == snap[x]
           puts == Puts(call[x], s)
           dels == Deletes(call[x], s)
<1>1. WellKept(db) /\ ~Conflict(x)
  BY CommitTasks
<1>2. /\ puts = {[s[k] EXCEPT !.status = "pending"] : k \in Stuck(s)}
      /\ dels = Stuck(db) /\ Stuck(s) = Stuck(db)
      /\ \A k \in Stuck(s) : db[k] = s[k]
  BY <1>1, RecoverSees
<1>3. puts = {[db[k] EXCEPT !.status = "pending"] : k \in Stuck(db)}
  BY <1>2
<1>4. \A k \in Stuck(db) : /\ k \in DOMAIN db /\ db[k] \in Task /\ db[k].id = k.id
                           /\ GetTask(db, k.id) = db[k] /\ db[k] # None /\ db[k].status = "running"
                           /\ [db[k] EXCEPT !.status = "pending"].id = k.id
  <2> TAKE k \in Stuck(db)
  <2>1. k \in DOMAIN db /\ k.status = "running"
    BY DEF Stuck
  <2>2. /\ db[k] \in Task /\ db[k].id = k.id /\ GetTask(db, k.id) = db[k] /\ db[k] # None
        /\ db[k].status = "running"
    BY <1>1, <2>1, Found
  <2> QED
    BY <2>1, <2>2, WithStatus, LiveStatus
<1>5. CASE \E k \in Stuck(db) : k.id = id
  <2>1. PICK k \in Stuck(db) : k.id = id
    BY <1>5
  <2>2. [db[k] EXCEPT !.status = "pending"] \in puts
    BY <1>3, <2>1
  <2>3. GetTask(db', id) = [db[k] EXCEPT !.status = "pending"]
    BY <1>4, <2>1, <2>2, CommitTasks
  <2> QED
    BY <1>4, <2>1, <2>3
<1>6. CASE \A k \in Stuck(db) : k.id # id
  <2>1. \A t \in puts : t.id # id
    <3> TAKE t \in puts
    <3>1. PICK k \in Stuck(db) : t = [db[k] EXCEPT !.status = "pending"]
      BY <1>3
    <3> QED
      BY <1>4, <1>6, <3>1
  <2>2. KeysOf(db, id) \cap dels = {}
    BY <1>2, <1>6 DEF KeysOf
  <2>3. GetTask(db', id) = GetTask(db, id)
    BY <2>1, <2>2, CommitTasks
  <2>4. GetTask(db, id) # None => GetTask(db, id).status # "running"
    <3> HAVE GetTask(db, id) # None
    <3>1. PICK k \in DOMAIN db : k.id = id
      BY <1>1, NotFound
    <3>2. k.status # "running"
      BY <1>6, <3>1 DEF Stuck
    <3> QED
      BY <1>1, <3>1, <3>2, Found
  <2> QED
    BY <2>3, <2>4
<1> QED
  BY <1>5, <1>6

\* What ends with a record's time.
LEMMA ExpireTask ==
  ASSUME IInv, NEW k \in DOMAIN db, Expire(k)
  PROVE  /\ k.id \in Id /\ GetTask(db, k.id) # None /\ IsTerminal(GetTask(db, k.id).status)
         /\ GetTask(db', k.id) = None
         /\ \A id : id # k.id => GetTask(db', id) = GetTask(db, id)
<1>1. /\ db' = [j \in DOMAIN db \ {k} |-> db[j]] /\ withTTL(db[k]) /\ WellKept(db)
  BY DEF Expire, IInv, AllKept
<1>2. WellKept(db')
  BY <1>1, RemovedKept
<1>3. KeysOf(db, k.id) = {k} /\ GetTask(db, k.id) = db[k] /\ db[k] # None /\ k \in Key
  BY <1>1, Found
<1>4. KeysOf(db', k.id) = {} /\ \A id : id # k.id => KeysOf(db', id) = KeysOf(db, id)
  BY <1>1, <1>3 DEF KeysOf
<1>5. ASSUME NEW id, id # k.id PROVE GetTask(db', id) = GetTask(db, id)
  <2>1. CASE KeysOf(db, id) = {}
    BY <1>1, <1>2, <1>4, <1>5, <2>1, NotFound
  <2>2. CASE KeysOf(db, id) # {}
    <3>1. PICK j \in DOMAIN db : j.id = id
      BY <1>1, <2>2, NotFound
    <3>2. j \in DOMAIN db' /\ db'[j] = db[j]
      BY <1>1, <1>5, <3>1
    <3> QED
      BY <1>1, <1>2, <3>1, <3>2, Found
  <2> QED
    BY <2>1, <2>2
<1> QED
  BY <1>1, <1>2, <1>3, <1>4, <1>5, NotFound, KeyType DEF withTTL

-----------------------------------------------------------------------------
(* Nothing is lost, and the store is a map.                                *)

\* A task that is still to run leaves the store only with a Delete or a bulk
\* delete that succeeds.
THEOREM LiveTasksKept ==
  ASSUME MaxBlind = 0
  PROVE  Spec => LiveKept
<1>1. IInv /\ [Next]_vars =>
        [\A id \in Id : Unfinished(GetTask(db, id)) /\ GetTask(db', id) = None
           => \E x \in Txn : Ends(x, {"Delete", "DeleteTasks"})]_vars
  <2> SUFFICES ASSUME IInv, Next, NEW id \in Id, Unfinished(GetTask(db, id)),
                      GetTask(db', id) = None
               PROVE  \E x \in Txn : Ends(x, {"Delete", "DeleteTasks"})
    OBVIOUS
  <2>1. TypeOK /\ GetTask(db, id) # None /\ ~IsTerminal(GetTask(db, id).status)
    BY DEF IInv, TInv, Unfinished
  <2>2. ASSUME NEW x \in Txn, Commit(x) PROVE Ends(x, {"Delete", "DeleteTasks"})
    <3>1. call[x] \in Op /\ call[x] # None /\ call'[x] = None
      BY <2>1, <2>2, OpenType, EndsVars DEF Commit
    <3>2. CASE call[x].kind \in {"Save", "Update"}
      <4>1. Open(x, {"Save", "Update"})
        BY <3>1, <3>2 DEF Open
      <4>2. PICK t : t \in Puts(call[x], snap[x])
        BY <3>2 DEF Puts
      <4>3. t # None /\ GetTask(db', t.id) = t /\ (id # t.id => GetTask(db', id) = GetTask(db, id))
        BY <2>2, <4>1, <4>2, PutTask, TaskType
      <4> QED
        BY <2>1, <4>3
    <3>3. CASE call[x].kind = "RecoverRunning"
      <4>1. Open(x, {"RecoverRunning"})
        BY <3>1, <3>3 DEF Open
      <4>2. GetTask(db, id) \in Task
        <5>1. WellKept(db)
          BY DEF IInv, AllKept
        <5> QED
          BY <2>1, <5>1, NotFound, Found
      <4>3. [GetTask(db, id) EXCEPT !.status = "pending"] # None
        BY <4>2, WithStatus, LiveStatus, TaskType
      <4> QED
        BY <2>1, <2>2, <4>1, <4>3, Recovered
    <3> QED
      BY <3>1, <3>2, <3>3, OpType DEF Ends, Open
  <2>3. ASSUME NEW x \in Txn, (\E o : Starts(x, o)) \/ ErrConflict(x) PROVE FALSE
    BY <2>1, <2>3 DEF Starts, Begin, ErrConflict
  <2>4. ASSUME Crash PROVE FALSE
    BY <2>1, <2>4 DEF Crash
  <2>5. ASSUME NEW k \in DOMAIN db, Expire(k) PROVE FALSE
    BY <2>1, <2>5, ExpireTask
  <2> QED
    BY <2>1, <2>2, <2>3, <2>4, <2>5, Steps
<1> QED
  BY <1>1, Invariance, PTL DEF Spec, LiveKept

\* A bulk delete that succeeds leaves no unfinished task that matched when it
\* began, wherever updates have moved it meanwhile.
THEOREM BulkDeletesComplete ==
  ASSUME MaxBlind = 0
  PROVE  Spec => BulkDeleteComplete
<1>1. IInv /\ [Next]_vars =>
        [\A x \in Txn : Ends(x, {"DeleteTasks"}) /\ db' # db
           => \A k \in Matching(snap[x], call[x].filter) :
                Unfinished(snap[x][k]) => GetTask(db', k.id) = None]_vars
  <2> SUFFICES ASSUME IInv, Next, NEW x \in Txn, Ends(x, {"DeleteTasks"}), db' # db,
                      NEW k \in Matching(snap[x], call[x].filter), Unfinished(snap[x][k])
               PROVE  GetTask(db', k.id) = None
    OBVIOUS
  <2>1. TypeOK /\ Open(x, {"DeleteTasks"}) /\ call[x] # None /\ call'[x] = None
    BY DEF IInv, TInv, Ends, Open
  <2>2. ASSUME NEW y \in Txn, Commit(y) PROVE y = x
    <3>1. \A z \in Txn \ {y} : call'[z] = call[z]
      BY <2>1, <2>2, EndsVars DEF Commit
    <3> QED
      BY <2>1, <3>1
  <2>3. ASSUME NEW y \in Txn, (\E o : Starts(y, o)) \/ ErrConflict(y) PROVE FALSE
    BY <2>3 DEF Starts, Begin, ErrConflict
  <2>4. ASSUME Crash PROVE FALSE
    BY <2>4 DEF Crash
  <2>5. ASSUME NEW j \in DOMAIN db, Expire(j) PROVE FALSE
    BY <2>1, <2>5 DEF Expire
  <2>6. Commit(x)
    BY <2>1, <2>2, <2>3, <2>4, <2>5, Steps
  <2> QED
    BY <2>1, <2>6, BulkDelete
<1> QED
  BY <1>1, Invariance, PTL DEF Spec, BulkDeleteComplete

\* A commit is a step of TaskMap: the call takes effect at once, or fails.
LEMMA CommitApplies ==
  ASSUME IInv, NEW x \in Txn, Commit(x)
  PROVE  Map!Apply(x) \/ Map!Fail(x)
<1> DEFINE tasks == [id \in Id |-> GetTask(db, id)]
           new == [id \in Id |-> GetTask(db', id)]
<1>1. call[x] \in Op /\ call[x] # None /\ call' = [call EXCEPT ![x] = None]
  BY OpenType DEF IInv, TInv, Commit, Closed
<1>2. CASE call[x].kind \in {"Save", "Update"}
  <2> DEFINE t == IF call[x].kind = "Save" THEN [call[x].task EXCEPT !.status = "pending"]
                                           ELSE call[x].task
  <2>1. Open(x, {"Save", "Update"}) /\ t \in Puts(call[x], snap[x])
    BY <1>1, <1>2 DEF Open, Puts
  <2>2. t \in Task /\ GetTask(db', t.id) = t /\ \A id : id # t.id => GetTask(db', id) = GetTask(db, id)
    BY <2>1, PutTask
  <2>3. new = [tasks EXCEPT ![t.id] = t]
    <3> HIDE DEF t
    <3> QED
      BY <2>2, TaskType
  <2>4. Map!Put(t)
    BY <2>3 DEF Map!Put
  <2> QED
    BY <1>1, <1>2, <2>4 DEF Map!Apply
<1>3. CASE call[x].kind = "Delete"
  <2>1. /\ \A id : id # call[x].id => GetTask(db', id) = GetTask(db, id)
        /\ GetTask(db', call[x].id) \in {None, GetTask(db, call[x].id)}
    BY <1>1, <1>3, DeleteTask DEF Open
  <2>2. CASE GetTask(db', call[x].id) = None
    <3>1. new = [id \in Id |-> IF id \in {call[x].id} THEN None ELSE tasks[id]]
      BY <2>1, <2>2
    <3>2. Map!Remove({call[x].id})
      BY <3>1 DEF Map!Remove
    <3> QED
      BY <1>1, <1>3, <3>2 DEF Map!Apply
  <2>3. CASE GetTask(db', call[x].id) = GetTask(db, call[x].id)
    <3>1. new = tasks
      BY <2>1, <2>3
    <3> QED
      BY <1>1, <3>1 DEF Map!Fail
  <2> QED
    BY <2>1, <2>2, <2>3
<1>4. CASE call[x].kind = "DeleteTasks"
  <2> DEFINE f == call[x].filter
             S == {id \in Id : GetTask(db', id) # GetTask(db, id)}
  <2>1. \A id : \/ GetTask(db', id) = GetTask(db, id)
                \/ /\ GetTask(db', id) = None /\ GetTask(db, id) # None
                   /\ Matches(GetTask(db, id), f)
    BY <1>1, <1>4, BulkDelete DEF Open
  <2>2. S \in SUBSET {id \in Id : tasks[id] # None /\ Matches(tasks[id], f)}
    BY <2>1
  <2>3. new = [id \in Id |-> IF id \in S THEN None ELSE tasks[id]]
    BY <2>1
  <2>4. Map!Remove(S)
    BY <2>3 DEF Map!Remove
  <2> HIDE DEF S
  <2> QED
    BY <1>1, <1>4, <2>2, <2>4 DEF Map!Apply
<1>5. CASE call[x].kind = "RecoverRunning"
  <2>1. Open(x, {"RecoverRunning"})
    BY <1>1, <1>5 DEF Open
  <2>2. new = [id \in Id |-> IF tasks[id] # None /\ tasks[id].status = "running"
                               THEN [tasks[id] EXCEPT !.status = "pending"]
                               ELSE tasks[id]]
    BY <2>1, Recovered
  <2>3. Map!Recover
    BY <2>2 DEF Map!Recover
  <2> QED
    BY <1>1, <1>5, <2>3 DEF Map!Apply
<1> QED
  BY <1>1, <1>2, <1>3, <1>4, <1>5, OpType

\* The store implements a map from ids to tasks on which every call is atomic,
\* though tasks move between keys and transactions overlap.
THEOREM ImplementsMap ==
  ASSUME MaxBlind = 0
  PROVE  Spec => MapSpec
<1>1. Init => Map!Init
  <2> SUFFICES ASSUME Init PROVE Map!Init
    OBVIOUS
  <2>1. \A id : GetTask(Empty, id) = None
    BY EmptyKept DEF GetTask, findKey, KeysOf
  <2> QED
    BY <2>1 DEF Init, Map!Init
<1>2. IInv /\ [Next]_vars => [Map!Next]_(Map!vars)
  <2> SUFFICES ASSUME IInv, [Next]_vars PROVE [Map!Next]_(Map!vars)
    OBVIOUS
  <2>0. TypeOK
    BY DEF IInv, TInv
  <2>1. ASSUME NEW x \in Txn, NEW o, Starts(x, o) PROVE Map!Start(x)
    BY <2>1 DEF Starts, Begin, Map!Start
  <2>2. ASSUME NEW x \in Txn, ErrConflict(x) PROVE Map!Fail(x)
    BY <2>2 DEF ErrConflict, Closed, Map!Fail
  <2>3. ASSUME Crash PROVE Map!Crash
    BY <2>3 DEF Crash, Map!Crash
  <2>4. ASSUME NEW k \in DOMAIN db, Expire(k) PROVE k.id \in Id /\ Map!Expire(k.id)
    <3>1. /\ k.id \in Id /\ GetTask(db, k.id) # None /\ IsTerminal(GetTask(db, k.id).status)
          /\ GetTask(db', k.id) = None
          /\ \A id : id # k.id => GetTask(db', id) = GetTask(db, id)
      BY <2>4, ExpireTask
    <3>2. Map!Remove({k.id})
      BY <3>1 DEF Map!Remove
    <3> QED
      BY <2>4, <3>1, <3>2 DEF Expire, Map!Expire
  <2>5. CASE UNCHANGED vars
    BY <2>5 DEF vars, Map!vars
  <2> QED
    BY <2>0, <2>1, <2>2, <2>3, <2>4, <2>5, Steps, CommitApplies DEF Map!Next
<1> QED
  BY <1>1, <1>2, Invariance, PTL DEF Spec, MapSpec, Map!Spec
=============================================================================
