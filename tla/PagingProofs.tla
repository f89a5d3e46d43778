---------------------------- MODULE PagingProofs ----------------------------
(***************************************************************************)
(* Proofs about Paging, for every number of tasks, listers, creators and   *)
(* writes between two pages.                                               *)
(***************************************************************************)
EXTENDS Paging, TaskKeysProofs

-----------------------------------------------------------------------------
(* The invariant.                                                          *)

\* The store is well kept, and holds only tasks whose ids were handed out.
StoreKnown == WellKept(db) /\ \A k \in DOMAIN db : \E r \in known : r.id = k.id

\* The id of a task that is being created is nowhere else.
IdsFresh ==
  \A c \in Creator : create[c] # None =>
    /\ \A r \in known : r.id # create[c].task.id
    /\ \A d \in Creator \ {c} : create[d] # None => create[d].task.id # create[c].task.id

\* Who searches or saves holds createMu.
LockHeld ==
  \A c \in Creator : create[c] # None /\ create[c].pc \in {"scan", "save"} => createMu = c

Stored(t) == taskKey(t) \in DOMAIN db /\ db[taskKey(t)] = t

\* The rows a walk has to return are in the store and match.
Expected(w) ==
  \A t \in w.standing : /\ Stored(t) /\ InPartition(w.filter, taskKey(t))
                        /\ Matches(t, [w.filter EXCEPT !.status = None])

\* Before the cursor has passed a row it was not returned, after that once.
Exact(w) ==
  \A t \in w.standing :
    w.times[t.id] = IF w.ended \/ ~Beyond(w.cursor, taskKey(t)) THEN 1 ELSE 0

WalksExpected == \A l \in Lister : walk[l] # None => Expected(walk[l])

\* The search has found no repeat up to its cursor, and none at all when it is
\* over.
Searched(c) ==
  CASE c.pc = "lock" -> c.cursor = None /\ c.standing = {}
    [] c.pc = "scan" ->
         \A t \in c.standing : /\ Stored(t) /\ t.status = "pending"
                               /\ ~Beyond(c.cursor, taskKey(t)) => ~Duplicate(t, c.task)
    [] c.pc = "save" ->
         \A t \in c.standing : /\ Stored(t) /\ t.status = "pending"
                               /\ ~Duplicate(t, c.task)

CreationsSearched == \A c \in Creator : create[c] # None => Searched(create[c])

IInv ==
  /\ TypeOK /\ StoreKnown /\ IdsFresh /\ LockHeld
  /\ WalksExpected /\ WalkExact /\ CreationsSearched

-----------------------------------------------------------------------------
(* The store.                                                              *)

\* What the store and the ids are after an operation that may happen.
LEMMA CommitKeeps ==
  ASSUME TypeOK, StoreKnown, NEW o \in Op, Commit(o),
         o.kind = "Save" => \A r \in known : r.id # o.task.id
  PROVE  /\ StoreKnown' /\ known' \subseteq [id : Id, idem : IdemKey \cup {None}]
         /\ DOMAIN db' \subseteq Key /\ \A k \in DOMAIN db' : db'[k] \in Task /\ taskKey(db'[k]) = k
<1> DEFINE puts == Puts(o, db)
           dels == Deletes(o, db)
<1>0. WellKept(db) /\ db' = Written(db, o, db) /\ known' = known \cup {KeyOf(t) : t \in puts}
  BY DEF StoreKnown, Commit
<1>1. o.kind = "Save" => KeysOf(db, o.task.id) = {}
  BY DEF StoreKnown, KeysOf
<1>2. /\ puts \subseteq Task /\ IsFiniteSet(puts)
      /\ \A t, u \in puts : t.id = u.id => t = u
      /\ \A t \in puts : KeysOf(db, t.id) \subseteq dels
  BY <1>0, <1>1, CurrentCovers
<1>3. /\ WellKept(db')
      /\ \A id : (\A t \in puts : t.id # id) => KeysOf(db', id) = KeysOf(db, id) \ dels
  BY <1>0, <1>2, WrittenKept
<1>4. \A t \in puts : KeyOf(t) \in [id : Id, idem : IdemKey \cup {None}] /\ KeyOf(t).id = t.id
  BY <1>2 DEF KeyOf, Task
<1>5. ASSUME NEW k \in DOMAIN db' PROVE \E r \in known' : r.id = k.id
  <2>1. CASE \E t \in puts : t.id = k.id
    BY <1>0, <1>4, <2>1
  <2>2. CASE \A t \in puts : t.id # k.id
    <3>1. k \in KeysOf(db', k.id)
      BY DEF KeysOf
    <3>2. k \in DOMAIN db
      BY <1>3, <2>2, <3>1 DEF KeysOf
    <3> QED
      BY <1>0, <3>2 DEF StoreKnown
  <2> QED
    BY <2>1, <2>2
<1>6. known' \subseteq [id : Id, idem : IdemKey \cup {None}]
  BY <1>0, <1>4 DEF TypeOK
<1> QED
  BY <1>3, <1>5, <1>6 DEF StoreKnown, WellKept

\* Walks after a change of the store: what has not stood still counts no more.
LEMMA SettledWalks ==
  ASSUME TypeOK, WalksExpected, WalkExact, walk' = Settled(walk)
  PROVE  walk' \in [Lister -> Walk \cup {None}] /\ WalksExpected' /\ WalkExact'
<1>1. \A l \in Lister :
        \/ walk[l] = None /\ walk'[l] = None
        \/ /\ walk[l] \in Walk /\ walk[l] # None
           /\ walk'[l] = [walk[l] EXCEPT !.standing = Standing(walk[l].standing)]
  BY DEF TypeOK, Settled
<1>2. ASSUME NEW w \in Walk
      PROVE  /\ [w EXCEPT !.standing = Standing(w.standing)] \in Walk
             /\ [w EXCEPT !.standing = Standing(w.standing)].standing = Standing(w.standing)
             /\ [w EXCEPT !.standing = Standing(w.standing)].filter = w.filter
             /\ [w EXCEPT !.standing = Standing(w.standing)].cursor = w.cursor
             /\ [w EXCEPT !.standing = Standing(w.standing)].ended = w.ended
             /\ [w EXCEPT !.standing = Standing(w.standing)].times = w.times
  <2>1. Standing(w.standing) \in SUBSET Task
    BY DEF Walk, Standing
  <2> QED
    BY <2>1 DEF Walk
<1>3. walk' \in [Lister -> Walk \cup {None}]
  <2>1. DOMAIN walk' = Lister /\ walk' = [l \in DOMAIN walk' |-> walk'[l]]
    BY DEF Settled, TypeOK
  <2> QED
    BY <1>1, <1>2, <2>1
<1>4. WalksExpected'
  <2> SUFFICES ASSUME NEW l \in Lister, walk'[l] # None, NEW t \in walk'[l].standing
               PROVE  /\ Stored(t)' /\ InPartition(walk'[l].filter, taskKey(t))
                      /\ Matches(t, [walk'[l].filter EXCEPT !.status = None])
    BY DEF WalksExpected, Expected
  <2>1. /\ walk[l] # None /\ walk[l] \in Walk
        /\ walk'[l].standing = Standing(walk[l].standing) /\ walk'[l].filter = walk[l].filter
    BY <1>1, <1>2
  <2>2. t \in walk[l].standing /\ Stored(t)'
    BY <2>1 DEF Standing, Stored
  <2> QED
    BY <2>1, <2>2 DEF WalksExpected, Expected
<1>5. WalkExact'
  <2> SUFFICES ASSUME NEW l \in Lister, walk'[l] # None, NEW t \in walk'[l].standing
               PROVE  walk'[l].times[t.id] =
                        IF walk'[l].ended \/ ~Beyond(walk'[l].cursor, taskKey(t)) THEN 1 ELSE 0
    BY DEF WalkExact
  <2>1. /\ walk[l] # None /\ walk[l] \in Walk
        /\ walk'[l].standing = Standing(walk[l].standing)
        /\ walk'[l].cursor = walk[l].cursor /\ walk'[l].ended = walk[l].ended
        /\ walk'[l].times = walk[l].times
    BY <1>1, <1>2
  <2>2. t \in walk[l].standing
    BY <2>1 DEF Standing
  <2> QED
    BY <2>1, <2>2 DEF WalkExact
<1> QED
  BY <1>3, <1>4, <1>5

\* The fields of a creation whose history has changed.
LEMMA CreateFields ==
  ASSUME NEW c \in Create, NEW S \in SUBSET Task
  PROVE  LET d == [c EXCEPT !.standing = S] IN
         /\ d \in Create /\ d.standing = S /\ d.pc = c.pc /\ d.task = c.task /\ d.cursor = c.cursor
BY DEF Create

\* Creations after a change of the store.
LEMMA SettledCreations ==
  ASSUME TypeOK, CreationsSearched, create' = Settled(create)
  PROVE  /\ create' \in [Creator -> Create \cup {None}] /\ CreationsSearched'
         /\ \A c \in Creator : create'[c] # None =>
              create[c] # None /\ create'[c].task = create[c].task /\ create'[c].pc = create[c].pc
<1>1. \A c \in Creator :
        \/ create[c] = None /\ create'[c] = None
        \/ /\ create[c] \in Create /\ create[c] # None
           /\ create'[c] = [create[c] EXCEPT !.standing = Standing(create[c].standing)]
  BY DEF TypeOK, Settled
<1>2. \A c \in Create : Standing(c.standing) \in SUBSET Task
  BY DEF Create, Standing
<1>3. \A c \in Creator : create[c] # None =>
        /\ create[c] \in Create /\ create'[c] \in Create
        /\ create'[c].standing = Standing(create[c].standing) /\ create'[c].pc = create[c].pc
        /\ create'[c].task = create[c].task /\ create'[c].cursor = create[c].cursor
  <2> SUFFICES ASSUME NEW c \in Creator, create[c] # None
               PROVE  /\ create[c] \in Create /\ create'[c] \in Create
                      /\ create'[c].standing = Standing(create[c].standing)
                      /\ create'[c].pc = create[c].pc
                      /\ create'[c].task = create[c].task /\ create'[c].cursor = create[c].cursor
    OBVIOUS
  <2> DEFINE S == Standing(create[c].standing)
  <2>1. create[c] \in Create /\ S \in SUBSET Task /\ create'[c] = [create[c] EXCEPT !.standing = S]
    BY <1>1, <1>2
  <2> HIDE DEF S
  <2>2. LET d == [create[c] EXCEPT !.standing = S] IN
          /\ d \in Create /\ d.standing = S /\ d.pc = create[c].pc
          /\ d.task = create[c].task /\ d.cursor = create[c].cursor
    BY <2>1, CreateFields
  <2> QED
    BY <2>1, <2>2 DEF S
<1>4. create' \in [Creator -> Create \cup {None}]
  <2>1. DOMAIN create' = Creator /\ create' = [c \in DOMAIN create' |-> create'[c]]
    BY DEF Settled, TypeOK
  <2> QED
    BY <1>1, <1>3, <2>1
<1>5. CreationsSearched'
  <2> SUFFICES ASSUME NEW c \in Creator, create'[c] # None
               PROVE  Searched(create[c])'
    BY DEF CreationsSearched
  <2>1. /\ create[c] # None /\ create[c] \in Create /\ Searched(create[c])
        /\ create'[c].standing = Standing(create[c].standing) /\ create'[c].pc = create[c].pc
        /\ create'[c].task = create[c].task /\ create'[c].cursor = create[c].cursor
    BY <1>1, <1>3 DEF CreationsSearched
  <2>2. \A t \in create'[c].standing : t \in create[c].standing /\ Stored(t)'
    BY <2>1 DEF Standing, Stored
  <2>3. create[c].pc \in {"lock", "scan", "save"}
    BY <2>1 DEF Create
  <2>4. CASE create[c].pc = "lock"
    BY <2>1, <2>2, <2>4 DEF Searched
  <2>5. CASE create[c].pc = "scan"
    BY <2>1, <2>2, <2>5 DEF Searched
  <2>6. CASE create[c].pc = "save"
    BY <2>1, <2>2, <2>6 DEF Searched
  <2> QED
    BY <2>3, <2>4, <2>5, <2>6
<1> QED
  BY <1>1, <1>3, <1>4, <1>5

-----------------------------------------------------------------------------
(* Pages.                                                                  *)

\* A page does not disturb the walk it belongs to: what it returns lies between
\* the two cursors, each row once, and what it leaves lies beyond.
LEMMA PageKeeps ==
  ASSUME IInv, NEW l \in Lister, NEW w \in Walk, Page(l, w), ~w.ended, Expected(w), Exact(w)
  PROVE  /\ walk' \in [Lister -> Walk \cup {None}] /\ WalksExpected' /\ WalkExact'
         /\ walk'[l].filter = w.filter
         /\ walk'[l].cursor # None => Remaining(db, w.filter, walk'[l].cursor) # {}
         /\ \A m \in Lister \ {l} : walk'[m] = walk[m]
<1> DEFINE p == ListTasks(db, w.filter, w.cursor, w.limit)
           rest == Remaining(db, w.filter, w.cursor)
           N(id) == Cardinality({t \in p.tasks : t.id = id})
           v == [w EXCEPT !.cursor = p.next, !.ended = p.next = None,
                          !.times = [id \in Id |-> w.times[id] + N(id)]]
<1>0. TypeOK /\ WellKept(db)
  BY DEF IInv, StoreKnown
<1>1. w.cursor \in Key \cup {None} /\ w.limit \in Int /\ w.standing \subseteq Task /\ w.times \in [Id -> Nat]
  <2>1. w.limit \in Limits /\ w.cursor \in Key \cup {None} /\ w.standing \subseteq Task
        /\ w.times \in [Id -> Nat]
    BY DEF Walk
  <2>2. 0..MaxPageSize \subseteq Int
    BY KeysAssumption
  <2> QED
    BY <2>1, <2>2, PagingAssumption
<1>2. /\ p.next \in Key \cup {None}
      /\ p.next = None => \A u : u \in p.tasks <=> \E k \in rest : u = db[k]
      /\ p.next # None =>
           /\ \A u : u \in p.tasks <=> \E k \in rest : ~Before(p.next, k) /\ u = db[k]
           /\ p.next \in rest
           /\ \E k \in rest : Before(p.next, k)
  BY <1>0, <1>1, Pages
<1>3. \A k \in rest : k \in DOMAIN db /\ Beyond(w.cursor, k)
  BY DEF Remaining
<1>4. ASSUME NEW id \in Id
      PROVE  /\ N(id) \in Nat
             /\ \A t \in p.tasks : t.id = id => N(id) = 1
             /\ (\A t \in p.tasks : t.id # id) => N(id) = 0
  <2> DEFINE T == {t \in p.tasks : t.id = id}
  <2>1. \A t, u \in T : t = u
    <3> SUFFICES ASSUME NEW t \in T, NEW u \in T PROVE t = u
      OBVIOUS
    <3>1. PICK j \in rest, k \in rest : t = db[j] /\ u = db[k]
      BY <1>2
    <3>2. j.id = id /\ k.id = id
      BY <1>0, <1>3, <3>1, Found
    <3> QED
      BY <1>0, <1>3, <3>1, <3>2 DEF WellKept
  <2>0. N(id) = Cardinality(T) /\ \A t : t \in T <=> t \in p.tasks /\ t.id = id
    OBVIOUS
  <2> HIDE DEF T, N
  <2>2. CASE T = {}
    <3>1. N(id) = 0
      BY <2>0, <2>2, FS_EmptySet
    <3> QED
      BY <2>0, <2>2, <3>1
  <2>3. CASE T # {}
    <3>1. PICK t \in T : TRUE
      BY <2>3
    <3>2. T = {t}
      BY <2>1, <3>1
    <3>3. N(id) = 1
      BY <2>0, <3>2, FS_Singleton
    <3> QED
      BY <2>0, <3>1, <3>3
  <2> QED
    BY <2>2, <2>3
<1> HIDE DEF N, p
<1>5. /\ v \in Walk /\ v.cursor = p.next /\ v.ended = (p.next = None) /\ v.filter = w.filter
      /\ v.standing = w.standing /\ \A id \in Id : v.times[id] = w.times[id] + N(id)
  <2>1. [id \in Id |-> w.times[id] + N(id)] \in [Id -> Nat]
    BY <1>1, <1>4
  <2> QED
    BY <1>2, <2>1 DEF Walk
<1>6. walk' = [walk EXCEPT ![l] = v] /\ UNCHANGED db
  BY DEF Page, p, N
<1> HIDE DEF v, rest
<1>7. /\ walk'[l] = v /\ \A m \in Lister \ {l} : walk'[m] = walk[m]
      /\ walk' \in [Lister -> Walk \cup {None}]
  BY <1>0, <1>5, <1>6 DEF TypeOK
<1>8. Expected(v)
  BY <1>5 DEF Expected
<1>9. Exact(v)
  <2> SUFFICES ASSUME NEW t \in w.standing
               PROVE  v.times[t.id] = IF p.next = None \/ ~Beyond(p.next, taskKey(t)) THEN 1 ELSE 0
    BY <1>5 DEF Exact
  <2> DEFINE k == taskKey(t)
  <2>1. /\ t \in Task /\ t.id \in Id /\ k \in Key /\ k.id = t.id
        /\ k \in DOMAIN db /\ db[k] = t
        /\ InPartition(w.filter, k) /\ Matches(t, [w.filter EXCEPT !.status = None])
    BY <1>1, TaskType DEF Expected, Stored
  <2>2. v.times[t.id] = w.times[t.id] + N(t.id) /\ w.times[t.id] \in Nat /\ N(t.id) \in Nat
    BY <1>1, <1>4, <1>5, <2>1
  <2>3. w.times[t.id] = IF Beyond(w.cursor, k) THEN 0 ELSE 1
    BY DEF Exact
  <2>4. k \in rest <=> Beyond(w.cursor, k)
    BY <2>1 DEF Remaining, rest
  <2>5. \A u \in p.tasks : u.id = t.id => u = t /\ k \in rest
    <3> SUFFICES ASSUME NEW u \in p.tasks, u.id = t.id PROVE u = t /\ k \in rest
      OBVIOUS
    <3>1. PICK j \in rest : u = db[j]
      BY <1>2
    <3>2. j.id = k.id /\ j \in DOMAIN db
      BY <1>0, <1>3, <2>1, <3>1, Found
    <3>3. j = k
      BY <1>0, <2>1, <3>2 DEF WellKept
    <3> QED
      BY <2>1, <3>1, <3>3
  <2> HIDE DEF k
  <2>6. CASE k \notin rest
    <3>1. N(t.id) = 0
      BY <1>4, <2>1, <2>5, <2>6
    <3>2. p.next # None => ~Beyond(p.next, k)
      <4> HAVE p.next # None
      <4>1. /\ p.next \in Key /\ w.cursor \in Key /\ w.cursor # None
            /\ Before(w.cursor, p.next) /\ ~Before(w.cursor, k)
        BY <1>1, <1>2, <1>3, <2>4, <2>6 DEF Beyond
      <4> QED
        BY <2>1, <4>1, BeforeOrder DEF Beyond
    <3> QED
      BY <2>2, <2>3, <2>4, <2>6, <3>1, <3>2 DEF k
  <2>7. CASE k \in rest /\ (p.next = None \/ ~Before(p.next, k))
    <3>1. t \in p.tasks
      BY <1>2, <2>1, <2>7
    <3>2. N(t.id) = 1
      BY <1>4, <2>1, <3>1
    <3> QED
      BY <2>2, <2>3, <2>4, <2>7, <3>2 DEF k, Beyond
  <2>8. CASE k \in rest /\ p.next # None /\ Before(p.next, k)
    <3>1. t \notin p.tasks
      <4> SUFFICES ASSUME t \in p.tasks PROVE FALSE
        OBVIOUS
      <4>1. PICK j \in rest : ~Before(p.next, j) /\ t = db[j]
        BY <1>2, <2>8
      <4>2. j.id = k.id /\ j \in DOMAIN db
        BY <1>0, <1>3, <2>1, <4>1, Found
      <4> QED
        BY <1>0, <2>1, <2>8, <4>1, <4>2 DEF WellKept
    <3>2. N(t.id) = 0
      BY <1>4, <2>1, <2>5, <3>1
    <3> QED
      BY <2>2, <2>3, <2>4, <2>8, <3>2 DEF k, Beyond
  <2> QED
    BY <2>6, <2>7, <2>8
<1>10. WalksExpected'
  BY <1>6, <1>7, <1>8 DEF IInv, WalksExpected, Expected, Stored
<1>11. WalkExact'
  BY <1>7, <1>9 DEF IInv, WalkExact, Exact
<1>12. v.cursor # None => Remaining(db, w.filter, v.cursor) # {}
  <2> HAVE v.cursor # None
  <2>1. PICK k \in rest : Before(p.next, k)
    BY <1>2, <1>5
  <2>2. k \in Remaining(db, w.filter, p.next)
    BY <2>1 DEF rest, Remaining, Beyond
  <2> QED
    BY <1>5, <2>2
<1> QED
  BY <1>5, <1>7, <1>10, <1>11, <1>12

-----------------------------------------------------------------------------
(* The invariant is inductive.                                             *)

\* A restarted process finds a store that is well kept.
LEMMA InitKeeps ==
  ASSUME Init
  PROVE  IInv
<1>1. PICK S \in SUBSET {t \in Existing : t.status # "running"} :
        /\ \A t, u \in S : t.id = u.id => t = u
        /\ db = [k \in {taskKey(t) : t \in S} |-> CHOOSE t \in S : taskKey(t) = k]
        /\ known = {KeyOf(t) : t \in S}
  BY DEF Init
<1> DEFINE K == {taskKey(t) : t \in S}
           f == [t \in S |-> taskKey(t)]
<1>2. S \subseteq Task /\ IsFiniteSet(S)
  BY PagingAssumption, FS_Subset
<1>3. DOMAIN db = K /\ \A k \in K : db[k] = CHOOSE t \in S : taskKey(t) = k
  BY <1>1
<1>4. \A k \in K : db[k] \in S /\ taskKey(db[k]) = k
  <2> SUFFICES ASSUME NEW k \in K PROVE db[k] \in S /\ taskKey(db[k]) = k
    OBVIOUS
  <2>1. \E t \in S : taskKey(t) = k
    OBVIOUS
  <2> QED
    BY <1>3, <2>1
<1>5. IsFiniteSet(K)
  <2>1. f \in Surjection(S, K)
    BY DEF Surjection
  <2> HIDE DEF f, K
  <2> QED
    BY <1>2, <2>1, FS_Surjection
<1>6. \A k \in K : k \in Key /\ db[k] \in Task /\ db[k].id = k.id
  BY <1>2, <1>4, TaskType
<1>7. ASSUME NEW j \in K, NEW k \in K, j.id = k.id PROVE j = k
  <2>0. \A t, u \in S : t.id = u.id => t = u
    BY <1>1
  <2> HIDE DEF K
  <2>1. db[j] \in S /\ db[k] \in S /\ db[j].id = db[k].id
    BY <1>4, <1>6, <1>7
  <2>2. db[j] = db[k]
    BY <2>0, <2>1
  <2> QED
    BY <1>4, <2>2
<1>8. \A t \in S : KeyOf(t) \in [id : Id, idem : IdemKey \cup {None}] /\ KeyOf(t).id = t.id
  BY <1>2 DEF KeyOf, Task
<1> HIDE DEF K
<1>9. WellKept(db)
  BY <1>3, <1>4, <1>5, <1>6, <1>7 DEF WellKept
<1>10. StoreKnown
  <2> SUFFICES ASSUME NEW k \in DOMAIN db PROVE \E r \in known : r.id = k.id
    BY <1>9 DEF StoreKnown
  <2>1. db[k] \in S /\ db[k].id = k.id
    BY <1>3, <1>4, <1>6
  <2>2. KeyOf(db[k]) \in known /\ KeyOf(db[k]).id = k.id
    BY <1>1, <1>8, <2>1
  <2> QED
    BY <2>2
<1>11. TypeOK
  <2>1. known \subseteq [id : Id, idem : IdemKey \cup {None}]
    BY <1>1, <1>8
  <2>2. now \in 0..MaxNow /\ writes \in 0..MaxWrites
    BY PagingAssumption, KeysAssumption DEF Init, Tick
  <2> QED
    BY <1>3, <1>4, <1>6, <2>1, <2>2 DEF TypeOK, Init
<1> QED
  BY <1>10, <1>11 DEF Init, IInv, IdsFresh, LockHeld, WalksExpected, WalkExact, CreationsSearched

\* Holding the lock and having an id to oneself survive when nobody enters a
\* call or takes the lock.
LEMMA CreatorsKept ==
  ASSUME LockHeld, IdsFresh, createMu' = createMu,
         \A c \in Creator : create'[c] # None =>
           create[c] # None /\ create'[c].task = create[c].task /\ create'[c].pc = create[c].pc,
         \A r \in known' : \/ \E q \in known : q.id = r.id
                           \/ \A c \in Creator : create[c] # None => create[c].task.id # r.id
  PROVE  LockHeld' /\ IdsFresh'
BY DEF LockHeld, IdsFresh

\* A write by the runner or by another handler.
LEMMA WriteKeeps ==
  ASSUME IInv, NEW o \in Op, Write(o)
  PROVE  IInv'
<1> USE DEF IInv
<1>1. o.kind = "Save" => Fresh(o.task.id)
  BY DEF Write, Possible
<1>2. o.kind = "Update" => KeyOf(o.task) \in known
  BY DEF Write, Possible
<1>3. Commit(o) /\ walk' = Settled(walk) /\ create' = Settled(create) /\ createMu' = createMu
  BY DEF Write
<1>4. /\ StoreKnown' /\ known' \subseteq [id : Id, idem : IdemKey \cup {None}]
      /\ DOMAIN db' \subseteq Key /\ \A k \in DOMAIN db' : db'[k] \in Task /\ taskKey(db'[k]) = k
  BY <1>1, <1>3, CommitKeeps DEF Fresh
<1>5. walk' \in [Lister -> Walk \cup {None}] /\ WalksExpected' /\ WalkExact'
  BY <1>3, SettledWalks
<1>6. /\ create' \in [Creator -> Create \cup {None}] /\ CreationsSearched'
      /\ \A c \in Creator : create'[c] # None =>
           create[c] # None /\ create'[c].task = create[c].task /\ create'[c].pc = create[c].pc
  BY <1>3, SettledCreations
<1>7. \A r \in known' : \/ \E q \in known : q.id = r.id
                        \/ \A c \in Creator : create[c] # None => create[c].task.id # r.id
  <2> SUFFICES ASSUME NEW r \in known', r \notin known
               PROVE  \/ \E q \in known : q.id = r.id
                      \/ \A c \in Creator : create[c] # None => create[c].task.id # r.id
    OBVIOUS
  <2>1. PICK t \in Puts(o, db) : r = KeyOf(t)
    BY <1>3 DEF Commit
  <2>2. r.id = t.id
    BY <2>1 DEF KeyOf
  <2>3. o.kind \in {"Save", "Update", "Delete", "DeleteTasks"}
    BY OpType DEF Write
  <2>4. CASE o.kind = "Save"
    <3>1. t = [o.task EXCEPT !.status = "pending"]
      BY <2>1, <2>4 DEF Puts
    <3>2. t.id = o.task.id
      BY <2>4, <3>1, OpType, LiveStatus, WithStatus
    <3> QED
      BY <1>1, <2>2, <2>4, <3>2 DEF Fresh
  <2>5. CASE o.kind = "Update"
    <3>1. t = o.task
      BY <2>1, <2>5 DEF Puts
    <3> QED
      BY <1>2, <2>1, <2>5, <3>1
  <2>6. CASE o.kind \in {"Delete", "DeleteTasks"}
    BY <2>1, <2>6 DEF Puts
  <2> QED
    BY <2>3, <2>4, <2>5, <2>6
<1>8. LockHeld' /\ IdsFresh'
  BY <1>3, <1>6, <1>7, CreatorsKept
<1>9. now' \in 0..MaxNow /\ writes' \in 0..MaxWrites
  BY PagingAssumption DEF Write, TypeOK
<1>10. TypeOK'
  BY <1>3, <1>4, <1>5, <1>6, <1>9 DEF TypeOK
<1> QED
  BY <1>4, <1>5, <1>6, <1>8, <1>10

\* A finished record disappears.
LEMMA ExpireKeeps ==
  ASSUME IInv, NEW k \in DOMAIN db, Expire(k)
  PROVE  IInv'
<1> USE DEF IInv
<1>1. /\ db' = [j \in DOMAIN db \ {k} |-> db[j]] /\ walk' = Settled(walk)
      /\ create' = Settled(create) /\ known' = known /\ createMu' = createMu
  BY DEF Expire
<1>2. WellKept(db')
  BY <1>1, RemovedKept DEF StoreKnown
<1>3. DOMAIN db' \subseteq DOMAIN db /\ \A j \in DOMAIN db' : db'[j] = db[j]
  BY <1>1
<1>4. StoreKnown'
  BY <1>1, <1>2, <1>3 DEF StoreKnown
<1>5. walk' \in [Lister -> Walk \cup {None}] /\ WalksExpected' /\ WalkExact'
  BY <1>1, SettledWalks
<1>6. /\ create' \in [Creator -> Create \cup {None}] /\ CreationsSearched'
      /\ \A c \in Creator : create'[c] # None =>
           create[c] # None /\ create'[c].task = create[c].task /\ create'[c].pc = create[c].pc
  BY <1>1, SettledCreations
<1>7. LockHeld' /\ IdsFresh'
  BY <1>1, <1>6, CreatorsKept
<1>8. now' \in 0..MaxNow /\ writes' \in 0..MaxWrites
  BY PagingAssumption DEF Expire, TypeOK
<1>9. TypeOK'
  BY <1>1, <1>3, <1>5, <1>6, <1>8 DEF TypeOK
<1> QED
  BY <1>4, <1>5, <1>6, <1>7, <1>9

\* The process dies: the calls are gone, the walks are the clients'.
LEMMA RestartKeeps ==
  ASSUME IInv, Restart
  PROVE  IInv'
<1> USE DEF IInv
<1> DEFINE o == [kind |-> "RecoverRunning"]
<1>1. o \in Op /\ o.kind # "Save"
  BY DEF Op
<1>2. /\ Commit(o) /\ walk' = Settled(walk) /\ create' = [c \in Creator |-> None]
      /\ createMu' = None
  BY DEF Restart
<1> HIDE DEF o
<1>3. /\ StoreKnown' /\ known' \subseteq [id : Id, idem : IdemKey \cup {None}]
      /\ DOMAIN db' \subseteq Key /\ \A k \in DOMAIN db' : db'[k] \in Task /\ taskKey(db'[k]) = k
  BY <1>1, <1>2, CommitKeeps
<1>4. walk' \in [Lister -> Walk \cup {None}] /\ WalksExpected' /\ WalkExact'
  BY <1>2, SettledWalks
<1>5. LockHeld' /\ IdsFresh' /\ CreationsSearched'
  BY <1>2 DEF LockHeld, IdsFresh, CreationsSearched
<1>6. now' \in 0..MaxNow /\ writes' \in 0..MaxWrites
  BY PagingAssumption DEF Restart, TypeOK
<1>7. TypeOK'
  BY <1>2, <1>3, <1>4, <1>6 DEF TypeOK
<1> QED
  BY <1>3, <1>4, <1>5, <1>7

\* The clock moves on.
LEMMA AdvanceKeeps ==
  ASSUME IInv, Advance
  PROVE  IInv'
<1>1. UNCHANGED <<db, known, walk, create, createMu, writes>>
  BY DEF Advance
<1>2. now' \in 0..MaxNow
  <2>1. now \in 0..MaxNow /\ MaxNow \in Nat /\ now < MaxNow /\ now' = now + 1
    BY PagingAssumption, KeysAssumption DEF Advance, IInv, TypeOK, Tick
  <2> QED
    BY <2>1
<1>3. TypeOK'
  BY <1>1, <1>2 DEF IInv, TypeOK
<1>4. StoreKnown' /\ IdsFresh' /\ LockHeld' /\ WalkExact'
  BY <1>1 DEF IInv, StoreKnown, IdsFresh, LockHeld, WalkExact
<1>5. WalksExpected' /\ CreationsSearched'
  BY <1>1 DEF IInv, WalksExpected, Expected, CreationsSearched, Searched, Stored
<1> QED
  BY <1>3, <1>4, <1>5 DEF IInv

\* What a listing leaves alone.
LEMMA ListingKeeps ==
  ASSUME IInv, UNCHANGED <<db, known, create, createMu, now, writes>>,
         walk' \in [Lister -> Walk \cup {None}], WalksExpected', WalkExact'
  PROVE  IInv'
<1>1. TypeOK'
  BY DEF IInv, TypeOK
<1>2. StoreKnown' /\ IdsFresh' /\ LockHeld'
  BY DEF IInv, StoreKnown, IdsFresh, LockHeld
<1>3. CreationsSearched'
  BY DEF IInv, CreationsSearched, Searched, Stored
<1> QED
  BY <1>1, <1>2, <1>3 DEF IInv

\* A walk that begins has returned nothing, and has the rows from its cursor on
\* before it.
LEMMA NewWalkExact ==
  ASSUME IInv, NEW f \in Filter, NEW cursor \in Key \cup {None}, NEW limit \in Limits
  PROVE  LET w == NewWalk(f, cursor, limit) IN
         w \in Walk /\ ~w.ended /\ w.filter = f /\ Expected(w) /\ Exact(w)
<1> DEFINE w == NewWalk(f, cursor, limit)
           rest == Remaining(db, f, cursor)
<1>1. /\ w.filter = f /\ w.cursor = cursor /\ w.ended = FALSE
      /\ w.standing = {db[k] : k \in rest} /\ \A id \in Id : w.times[id] = 0
  BY DEF NewWalk
<1>2. ASSUME NEW t \in w.standing
      PROVE  /\ t \in Task /\ t.id \in Id /\ Stored(t) /\ taskKey(t) \in rest
  <2>1. PICK k \in rest : t = db[k]
    BY <1>1
  <2>2. k \in DOMAIN db
    BY DEF Remaining
  <2>3. t \in Task /\ taskKey(t) = k
    BY <2>1, <2>2 DEF IInv, TypeOK
  <2> QED
    BY <2>1, <2>2, <2>3, TaskType DEF Stored
<1>3. w \in Walk
  <2>1. {db[k] : k \in rest} \subseteq Task
    BY <1>1, <1>2
  <2>2. [id \in Id |-> 0] \in [Id -> Nat]
    OBVIOUS
  <2> HIDE DEF rest
  <2>3. w = [filter |-> f, limit |-> limit, cursor |-> cursor, ended |-> FALSE,
             standing |-> {db[k] : k \in rest}, times |-> [id \in Id |-> 0]]
    BY DEF NewWalk, rest
  <2> HIDE DEF w
  <2> QED
    BY <2>1, <2>2, <2>3 DEF Walk
<1> HIDE DEF w
<1>4. Expected(w)
  <2> SUFFICES ASSUME NEW t \in w.standing
               PROVE  /\ Stored(t) /\ InPartition(f, taskKey(t))
                      /\ Matches(t, [f EXCEPT !.status = None])
    BY <1>1 DEF Expected
  <2> QED
    BY <1>2 DEF Remaining, Stored
<1>5. Exact(w)
  <2> SUFFICES ASSUME NEW t \in w.standing
               PROVE  w.times[t.id] = IF w.ended \/ ~Beyond(w.cursor, taskKey(t)) THEN 1 ELSE 0
    BY DEF Exact
  <2>1. Beyond(w.cursor, taskKey(t))
    BY <1>1, <1>2 DEF Remaining
  <2> QED
    BY <1>1, <1>2, <2>1
<1> QED
  BY <1>1, <1>3, <1>4, <1>5 DEF w

\* What the three ways to ask for a page have in common.
Listing(l) ==
  \/ NextPage(l)
  \/ \E f \in Filter : OtherFilter(l, f) \/ \E limit \in Limits : FirstPage(l, f, limit)

\* A request is answered with an error, which ends the walk, or with a page of
\* a walk that is exact, whose cursor has a row after it.
LEMMA ListingExact ==
  ASSUME IInv, NEW l \in Lister, Listing(l)
  PROVE  /\ UNCHANGED <<db, known, create, createMu, now, writes>>
         /\ walk' \in [Lister -> Walk \cup {None}] /\ WalksExpected' /\ WalkExact'
         /\ \A m \in Lister \ {l} : walk'[m] = walk[m]
         /\ walk'[l] # None /\ walk'[l].cursor # None
              => Remaining(db, walk'[l].filter, walk'[l].cursor) # {}
<1> USE DEF IInv
<1>1. ASSUME NEW w \in Walk, Page(l, w), ~w.ended, Expected(w), Exact(w)
      PROVE  /\ UNCHANGED <<db, known, create, createMu, now, writes>>
             /\ walk' \in [Lister -> Walk \cup {None}] /\ WalksExpected' /\ WalkExact'
             /\ \A m \in Lister \ {l} : walk'[m] = walk[m]
             /\ walk'[l].cursor # None => Remaining(db, walk'[l].filter, walk'[l].cursor) # {}
  <2>1. UNCHANGED <<db, known, create, createMu, now, writes>>
    BY <1>1 DEF Page
  <2> QED
    BY <1>1, <2>1, PageKeeps
<1>2. walk[l] # None =>
        /\ walk[l] \in Walk /\ walk[l].cursor \in Key \cup {None} /\ walk[l].limit \in Limits
        /\ Expected(walk[l]) /\ Exact(walk[l])
  <2>1. walk[l] # None => walk[l] \in Walk
    BY DEF TypeOK
  <2>2. walk[l] # None => Expected(walk[l]) /\ Exact(walk[l])
    BY DEF WalksExpected, WalkExact, Exact
  <2> QED
    BY <2>1, <2>2 DEF Walk
<1>3. ASSUME NEW f \in Filter, NEW cursor \in Key \cup {None}, NEW limit \in Limits,
             Page(l, NewWalk(f, cursor, limit))
      PROVE  /\ UNCHANGED <<db, known, create, createMu, now, writes>>
             /\ walk' \in [Lister -> Walk \cup {None}] /\ WalksExpected' /\ WalkExact'
             /\ \A m \in Lister \ {l} : walk'[m] = walk[m]
             /\ walk'[l].cursor # None => Remaining(db, walk'[l].filter, walk'[l].cursor) # {}
  <2> DEFINE w == NewWalk(f, cursor, limit)
  <2>1. w \in Walk /\ ~w.ended /\ Expected(w) /\ Exact(w) /\ Page(l, w)
    BY <1>3, NewWalkExact
  <2> HIDE DEF w
  <2> QED
    BY <1>1, <2>1
<1>4. CASE NextPage(l)
  BY <1>1, <1>2, <1>4 DEF NextPage
<1>5. ASSUME NEW f \in Filter, OtherFilter(l, f)
      PROVE  /\ UNCHANGED <<db, known, create, createMu, now, writes>>
             /\ walk' \in [Lister -> Walk \cup {None}] /\ WalksExpected' /\ WalkExact'
             /\ \A m \in Lister \ {l} : walk'[m] = walk[m]
             /\ walk'[l] # None /\ walk'[l].cursor # None
                  => Remaining(db, walk'[l].filter, walk'[l].cursor) # {}
  <2>1. CASE /\ walk' = [walk EXCEPT ![l] = None]
             /\ UNCHANGED <<db, known, create, createMu, now, writes>>
    <3>1. /\ walk' \in [Lister -> Walk \cup {None}] /\ walk'[l] = None
          /\ \A m \in Lister \ {l} : walk'[m] = walk[m]
      BY <2>1 DEF TypeOK
    <3>2. WalksExpected'
      BY <2>1, <3>1 DEF WalksExpected, Expected, Stored
    <3>3. WalkExact'
      BY <3>1 DEF WalkExact
    <3> QED
      BY <2>1, <3>1, <3>2, <3>3
  <2>2. CASE walk[l] # None /\ Page(l, NewWalk(f, walk[l].cursor, walk[l].limit))
    BY <1>2, <1>3, <2>2
  <2> QED
    BY <1>5, <2>1, <2>2 DEF OtherFilter
<1>6. ASSUME NEW f \in Filter, NEW limit \in Limits, FirstPage(l, f, limit)
      PROVE  /\ UNCHANGED <<db, known, create, createMu, now, writes>>
             /\ walk' \in [Lister -> Walk \cup {None}] /\ WalksExpected' /\ WalkExact'
             /\ \A m \in Lister \ {l} : walk'[m] = walk[m]
             /\ walk'[l].cursor # None => Remaining(db, walk'[l].filter, walk'[l].cursor) # {}
  BY <1>3, <1>6 DEF FirstPage
<1> QED
  BY <1>4, <1>5, <1>6 DEF Listing

\* What a creation leaves alone.
LEMMA CreationKeeps ==
  ASSUME IInv, UNCHANGED <<db, walk, now, writes>>, UNCHANGED known,
         create' \in [Creator -> Create \cup {None}], createMu' \in Creator \cup {None},
         IdsFresh', LockHeld', CreationsSearched'
  PROVE  IInv'
<1>1. TypeOK'
  BY DEF IInv, TypeOK
<1>2. StoreKnown' /\ WalkExact'
  BY DEF IInv, StoreKnown, WalkExact
<1>3. WalksExpected'
  BY DEF IInv, WalksExpected, Expected, Stored
<1> QED
  BY <1>1, <1>2, <1>3 DEF IInv

\* The creations that go on, in a store that stands still.
LEMMA CreationsGoOn ==
  ASSUME CreationsSearched, UNCHANGED db,
         \A c \in Creator : create'[c] # None =>
           create'[c] = create[c] \/ Searched(create'[c])
  PROVE  CreationsSearched'
<1> SUFFICES ASSUME NEW c \in Creator, create'[c] # None PROVE Searched(create[c])'
  BY DEF CreationsSearched
<1> DEFINE x == create'[c]
<1>1. Searched(x)
  BY DEF CreationsSearched
<1>2. \A t : Stored(t)' <=> Stored(t)
  BY DEF Stored
<1> QED
  BY <1>1, <1>2 DEF Searched

\* A creation with an id of its own is added, or one goes on.
LEMMA OneCreation ==
  ASSUME IInv, NEW c \in Creator, NEW d \in Create, UNCHANGED <<db, known>>,
         create' = [create EXCEPT ![c] = d],
         Searched(d), d.pc \in {"scan", "save"} => createMu' = c,
         \A e \in Creator \ {c} : create[e] # None /\ create[e].pc \in {"scan", "save"}
                                    => createMu' = e,
         \/ Fresh(d.task.id)
         \/ create[c] # None /\ create[c].task = d.task
  PROVE  /\ create' \in [Creator -> Create \cup {None}]
         /\ IdsFresh' /\ LockHeld' /\ CreationsSearched'
<1> USE DEF IInv
<1>1. /\ create' \in [Creator -> Create \cup {None}] /\ create'[c] = d
      /\ \A e \in Creator \ {c} : create'[e] = create[e]
  BY DEF TypeOK
<1>2. IdsFresh'
  <2>1. \A r \in known : r.id # d.task.id
    BY DEF IdsFresh, Fresh
  <2>2. \A e \in Creator \ {c} : create[e] # None => create[e].task.id # d.task.id
    BY DEF IdsFresh, Fresh
  <2> QED
    BY <1>1, <2>1, <2>2 DEF IdsFresh
<1>3. LockHeld'
  BY <1>1 DEF LockHeld
<1>4. CreationsSearched'
  BY <1>1, CreationsGoOn
<1> QED
  BY <1>1, <1>2, <1>3, <1>4

\* A call is answered and leaves the lock.
LEMMA AnswerKeeps ==
  ASSUME IInv, NEW c \in Creator, create[c] # None, create[c].pc \in {"scan", "save"},
         Answer(c), UNCHANGED <<db, known, walk, now, writes>>
  PROVE  IInv'
<1> USE DEF IInv
<1>1. /\ create' \in [Creator -> Create \cup {None}] /\ create'[c] = None /\ createMu' = None
      /\ \A e \in Creator \ {c} : create'[e] = create[e]
  BY DEF TypeOK, Answer
<1>2. IdsFresh'
  BY <1>1 DEF IdsFresh
<1>3. LockHeld'
  BY <1>1 DEF LockHeld
<1>4. CreationsSearched'
  BY <1>1, CreationsGoOn
<1> QED
  BY <1>1, <1>2, <1>3, <1>4, CreationKeeps

\* A request is decoded, and the call waits for the lock.
LEMMA CreateTaskKeeps ==
  ASSUME IInv, NEW c \in Creator, NEW r \in Request, CreateTask(c, r)
  PROVE  IInv'
<1>1. PICK id \in Id :
        /\ Fresh(id)
        /\ create' = [create EXCEPT ![c] =
             [pc |-> "lock", cursor |-> None, standing |-> {},
              task |-> [id |-> id, status |-> "pending", executeAt |-> fireAt(r),
                        url |-> r.url, idem |-> r.key]]]
  BY DEF CreateTask
<1> DEFINE t == [id |-> id, status |-> "pending", executeAt |-> fireAt(r),
                 url |-> r.url, idem |-> r.key]
           d == [pc |-> "lock", cursor |-> None, standing |-> {}, task |-> t]
<1>2. t \in Task /\ t.id = id
  <2>1. r.url \in Url /\ r.key \in IdemKey \cup {None}
    BY PagingAssumption
  <2>2. fireAt(r) \in Tick
    BY DEF CreateTask
  <2> QED
    BY <2>1, <2>2, LiveStatus DEF Task
<1> HIDE DEF t
<1>3. d \in Create /\ d.pc = "lock" /\ d.task = t /\ d.cursor = None /\ d.standing = {}
  BY <1>2 DEF Create
<1>4. create' = [create EXCEPT ![c] = d] /\ UNCHANGED <<db, known, walk, createMu, now, writes>>
  BY <1>1 DEF CreateTask, t
<1> HIDE DEF d
<1>5. Searched(d)
  BY <1>3 DEF Searched
<1>6. \A e \in Creator \ {c} : create[e] # None /\ create[e].pc \in {"scan", "save"}
                                 => createMu' = e
  BY <1>4 DEF IInv, LockHeld
<1>7. /\ create' \in [Creator -> Create \cup {None}]
      /\ IdsFresh' /\ LockHeld' /\ CreationsSearched'
  BY <1>1, <1>2, <1>3, <1>4, <1>5, <1>6, OneCreation
<1>8. createMu' \in Creator \cup {None}
  BY <1>4 DEF IInv, TypeOK
<1> QED
  BY <1>4, <1>7, <1>8, CreationKeeps

\* createMu is taken: every pending task is still to be searched.
LEMMA LockKeeps ==
  ASSUME IInv, NEW c \in Creator, Lock(c)
  PROVE  IInv'
<1> USE DEF IInv
<1> DEFINE S == {t \in {db[k] : k \in DOMAIN db} : t.status = "pending"}
           d == [create[c] EXCEPT !.pc = "scan", !.standing = S]
<1>1. create[c] \in Create /\ create[c].pc = "lock" /\ create[c] # None /\ createMu = None
  BY DEF TypeOK, Lock, LockFree
<1>2. \A t \in S : t \in Task /\ Stored(t) /\ t.status = "pending"
  BY DEF TypeOK, Stored
<1>3. S \in SUBSET Task
  BY <1>2
<1>4. create' = [create EXCEPT ![c] = d] /\ createMu' = c /\ UNCHANGED <<db, known, walk, now, writes>>
  BY DEF Lock, TypeOK
<1> HIDE DEF S
<1>5. /\ d \in Create /\ d.pc = "scan" /\ d.standing = S
      /\ d.task = create[c].task /\ d.cursor = create[c].cursor
  BY <1>1, <1>3 DEF Create
<1> HIDE DEF d
<1>6. Searched(d)
  <2>1. d.cursor = None
    BY <1>1, <1>5 DEF CreationsSearched, Searched
  <2> QED
    BY <1>2, <1>5, <2>1 DEF Searched, Beyond
<1>7. \A e \in Creator \ {c} : create[e] # None => create[e].pc \notin {"scan", "save"}
  BY <1>1, PagingAssumption DEF LockHeld
<1>8. /\ create' \in [Creator -> Create \cup {None}]
      /\ IdsFresh' /\ LockHeld' /\ CreationsSearched'
  BY <1>1, <1>4, <1>5, <1>6, <1>7, OneCreation
<1> QED
  BY <1>4, <1>8, CreationKeeps

\* A page of the search: a repeat that stands still is in it, was in an earlier
\* one, or comes in a later one.
LEMMA findDuplicateKeeps ==
  ASSUME IInv, NEW c \in Creator, findDuplicate(c)
  PROVE  IInv'
<1> USE DEF IInv
<1> DEFINE x    == create[c]
           new  == x.task
           f    == [url |-> IF new.idem = None THEN new.url ELSE None,
                    status |-> "pending", before |-> None, after |-> None]
           page == ListTasks(db, f, x.cursor, MaxPageSize)
           rest == Remaining(db, f, x.cursor)
           dups == {t \in page.tasks : Duplicate(t, new)}
<1>1. /\ x \in Create /\ x # None /\ x.pc = "scan" /\ createMu = c
      /\ x.cursor \in Key \cup {None} /\ x.standing \subseteq Task
  <2>1. x \in Create /\ x # None /\ x.pc = "scan"
    BY DEF TypeOK, findDuplicate
  <2> QED
    BY <2>1 DEF LockHeld, Create
<1>2. \A t \in x.standing : /\ Stored(t) /\ t.status = "pending"
                            /\ ~Beyond(x.cursor, taskKey(t)) => ~Duplicate(t, new)
  BY <1>1 DEF CreationsSearched, Searched
<1>3. UNCHANGED <<db, known, walk, now, writes>>
  BY DEF findDuplicate
<1>4. \/ dups # {} /\ Answer(c)
      \/ /\ dups = {} /\ page.next # None
         /\ create' = [create EXCEPT ![c].cursor = page.next]
         /\ UNCHANGED createMu
      \/ /\ dups = {} /\ page.next = None
         /\ create' = [create EXCEPT ![c].pc = "save", ![c].cursor = None]
         /\ UNCHANGED createMu
  BY DEF findDuplicate
<1>5. /\ page.next \in Key \cup {None}
      /\ page.next = None => \A u : u \in page.tasks <=> \E k \in rest : u = db[k]
      /\ page.next # None =>
           /\ \A u : u \in page.tasks <=> \E k \in rest : ~Before(page.next, k) /\ u = db[k]
           /\ page.next \in rest
           /\ \E k \in rest : Before(page.next, k)
  <2>1. MaxPageSize \in Int /\ WellKept(db)
    BY KeysAssumption DEF StoreKnown
  <2>2. x.cursor \in Key \cup {None}
    BY <1>1
  <2> HIDE DEF f, x
  <2> QED
    BY <2>1, <2>2, Pages
<1>6. ASSUME NEW t \in x.standing, Duplicate(t, new), Beyond(x.cursor, taskKey(t))
      PROVE  taskKey(t) \in rest /\ db[taskKey(t)] = t
  <2>1. taskKey(t) \in DOMAIN db /\ db[taskKey(t)] = t /\ taskKey(t).status = "pending"
    BY <1>1, <1>2, TaskType DEF Stored
  <2>2. InPartition(f, taskKey(t))
    BY <2>1 DEF InPartition
  <2>3. f.url = None \/ t.url = f.url
    BY <1>6 DEF Duplicate
  <2> DEFINE g == [f EXCEPT !.status = None]
  <2>4. g.url = f.url /\ g.status = None /\ g.before = None /\ g.after = None
    OBVIOUS
  <2> HIDE DEF f, g
  <2>5. Matches(t, g)
    BY <2>3, <2>4 DEF Matches
  <2> QED
    BY <1>6, <2>1, <2>2, <2>5 DEF Remaining, rest, g
<1>7. dups = {} => \A t \in page.tasks : ~Duplicate(t, new)
  OBVIOUS
<1> HIDE DEF page, rest, dups, f
<1>8. CASE dups # {} /\ Answer(c)
  BY <1>1, <1>3, <1>8, AnswerKeeps
<1>9. CASE /\ dups = {} /\ page.next # None
           /\ create' = [create EXCEPT ![c].cursor = page.next]
           /\ UNCHANGED createMu
  <2> DEFINE d == [x EXCEPT !.cursor = page.next]
  <2>1. create' = [create EXCEPT ![c] = d]
    BY <1>9 DEF TypeOK
  <2>2. /\ d \in Create /\ d.pc = "scan" /\ d.task = new /\ d.cursor = page.next
        /\ d.standing = x.standing
    BY <1>1, <1>5 DEF Create
  <2> HIDE DEF d
  <2>3. ASSUME NEW t \in x.standing, ~Beyond(page.next, taskKey(t)) PROVE ~Duplicate(t, new)
    <3> SUFFICES ASSUME Duplicate(t, new) PROVE FALSE
      OBVIOUS
    <3>1. taskKey(t) \in rest /\ db[taskKey(t)] = t
      BY <1>2, <1>6
    <3>2. ~Before(page.next, taskKey(t))
      BY <1>9, <2>3 DEF Beyond
    <3>3. t \in page.tasks
      BY <1>5, <1>9, <3>1, <3>2
    <3> QED
      BY <1>7, <1>9, <3>3
  <2>4. Searched(d)
    BY <1>2, <2>2, <2>3 DEF Searched
  <2>5. \A e \in Creator \ {c} : create[e] # None /\ create[e].pc \in {"scan", "save"}
                                   => createMu' = e
    BY <1>9 DEF LockHeld
  <2>6. /\ create' \in [Creator -> Create \cup {None}]
        /\ IdsFresh' /\ LockHeld' /\ CreationsSearched'
    BY <1>1, <1>3, <1>9, <2>1, <2>2, <2>4, <2>5, OneCreation
  <2>7. createMu' \in Creator \cup {None}
    BY <1>9 DEF TypeOK
  <2> QED
    BY <1>3, <2>6, <2>7, CreationKeeps
<1>10. CASE /\ dups = {} /\ page.next = None
            /\ create' = [create EXCEPT ![c].pc = "save", ![c].cursor = None]
            /\ UNCHANGED createMu
  <2> DEFINE d == [x EXCEPT !.pc = "save", !.cursor = None]
  <2>1. create' = [create EXCEPT ![c] = d]
    BY <1>10 DEF TypeOK
  <2>2. d \in Create /\ d.pc = "save" /\ d.task = new /\ d.standing = x.standing
    BY <1>1, <1>5 DEF Create
  <2> HIDE DEF d
  <2>3. ASSUME NEW t \in x.standing PROVE ~Duplicate(t, new)
    <3> SUFFICES ASSUME Duplicate(t, new) PROVE FALSE
      OBVIOUS
    <3>1. taskKey(t) \in rest /\ db[taskKey(t)] = t
      BY <1>2, <1>6
    <3>2. t \in page.tasks
      BY <1>5, <1>10, <3>1
    <3> QED
      BY <1>7, <1>10, <3>2
  <2>4. Searched(d)
    BY <1>2, <2>2, <2>3 DEF Searched
  <2>5. \A e \in Creator \ {c} : create[e] # None /\ create[e].pc \in {"scan", "save"}
                                   => createMu' = e
    BY <1>10 DEF LockHeld
  <2>6. /\ create' \in [Creator -> Create \cup {None}]
        /\ IdsFresh' /\ LockHeld' /\ CreationsSearched'
    BY <1>1, <1>3, <1>10, <2>1, <2>2, <2>4, <2>5, OneCreation
  <2>7. createMu' \in Creator \cup {None}
    BY <1>10 DEF TypeOK
  <2> QED
    BY <1>3, <2>6, <2>7, CreationKeeps
<1> QED
  BY <1>4, <1>8, <1>9, <1>10

\* The task is stored: nobody else searches, and no row moves.
LEMMA SaveKeeps ==
  ASSUME IInv, NEW c \in Creator, Save(c)
  PROVE  IInv'
<1> USE DEF IInv
<1> DEFINE t == create[c].task
           o == [kind |-> "Save", task |-> t]
           u == [t EXCEPT !.status = "pending"]
<1>1. create[c] \in Create /\ create[c] # None /\ create[c].pc = "save" /\ t \in Task /\ createMu = c
  <2>1. create[c] \in Create /\ create[c] # None /\ create[c].pc = "save"
    BY DEF TypeOK, Save
  <2> QED
    BY <2>1 DEF Create, LockHeld
<1>2. /\ Commit(o) /\ createMu' = None /\ UNCHANGED <<walk, now, writes>>
      /\ create' = [d \in Creator |->
                      IF d = c \/ create[d] = None THEN None
                      ELSE IF create[d].pc = "lock" THEN create[d]
                      ELSE [create[d] EXCEPT !.standing = @ \cup {t}]]
  BY DEF Save
<1> HIDE DEF t
<1>3. o \in Op /\ o.kind = "Save" /\ o.task = t
  BY <1>1 DEF Op
<1>4. \A r \in known : r.id # t.id
  BY <1>1 DEF IdsFresh, t
<1>5. Puts(o, db) = {u} /\ Deletes(o, db) = {} /\ u \in Task /\ u.id = t.id
  BY <1>1, <1>3, WithStatus, LiveStatus DEF Puts, Deletes
<1> HIDE DEF o, u
<1>6. /\ StoreKnown' /\ known' \subseteq [id : Id, idem : IdemKey \cup {None}]
      /\ DOMAIN db' \subseteq Key /\ \A k \in DOMAIN db' : db'[k] \in Task /\ taskKey(db'[k]) = k
  BY <1>2, <1>3, <1>4, CommitKeeps
<1>7. known' = known \cup {KeyOf(u)} /\ KeyOf(u).id = t.id
  BY <1>2, <1>5 DEF Commit, KeyOf
<1>8. \A k \in DOMAIN db : k \in DOMAIN db' /\ db'[k] = db[k]
  <2>1. WellKept(db) /\ (o.kind = "Save" => KeysOf(db, o.task.id) = {})
    BY <1>3, <1>4 DEF StoreKnown, KeysOf
  <2>2. \A k \in DOMAIN db \ Deletes(o, db) :
          k \in DOMAIN Written(db, o, db) /\ Written(db, o, db)[k] = db[k]
    BY <1>3, <2>1, CurrentCovers, WrittenKept
  <2> QED
    BY <1>2, <1>5, <2>2 DEF Commit
<1>9. \A d \in Creator \ {c} : create[d] # None => create[d].pc = "lock"
  <2> SUFFICES ASSUME NEW d \in Creator \ {c}, create[d] # None PROVE create[d].pc = "lock"
    OBVIOUS
  <2>1. create[d].pc \in {"lock", "scan", "save"}
    BY DEF TypeOK, Create
  <2> QED
    BY <1>1, <2>1 DEF LockHeld
<1>10. /\ create'[c] = None /\ \A d \in Creator \ {c} : create'[d] = create[d]
       /\ create' \in [Creator -> Create \cup {None}]
  BY <1>2, <1>9 DEF TypeOK
<1>11. IdsFresh'
  <2>1. \A d \in Creator \ {c} : create[d] # None => create[d].task.id # t.id
    BY <1>1 DEF IdsFresh, t
  <2> QED
    BY <1>7, <1>10, <2>1 DEF IdsFresh
<1>12. LockHeld'
  BY <1>9, <1>10 DEF LockHeld
<1>13. CreationsSearched'
  <2> SUFFICES ASSUME NEW d \in Creator, create'[d] # None PROVE Searched(create[d])'
    BY DEF CreationsSearched
  <2>1. create'[d] = create[d] /\ create[d].pc = "lock" /\ Searched(create[d])
    BY <1>9, <1>10 DEF CreationsSearched
  <2> QED
    BY <2>1 DEF Searched
<1>14. WalksExpected'
  <2>1. \A s : Stored(s) => Stored(s)'
    BY <1>8 DEF Stored
  <2> QED
    BY <1>2, <2>1 DEF WalksExpected, Expected
<1>15. WalkExact'
  BY <1>2 DEF WalkExact
<1>16. TypeOK'
  BY <1>2, <1>6, <1>10 DEF TypeOK
<1> QED
  BY <1>6, <1>11, <1>12, <1>13, <1>14, <1>15, <1>16

-----------------------------------------------------------------------------
(* Theorems.                                                               *)

\* Every step keeps the invariant.
LEMMA NextKeeps ==
  ASSUME IInv, [Next]_vars
  PROVE  IInv'
<1>1. CASE \E o \in Op : Write(o)
  BY <1>1, WriteKeeps
<1>2. CASE \E k \in DOMAIN db : Expire(k)
  BY <1>2, ExpireKeeps
<1>3. CASE Restart
  BY <1>3, RestartKeeps
<1>4. CASE Advance
  BY <1>4, AdvanceKeeps
<1>5. CASE \E l \in Lister : Listing(l)
  <2>1. PICK l \in Lister : Listing(l)
    BY <1>5
  <2>2. /\ UNCHANGED <<db, known, create, createMu, now, writes>>
        /\ walk' \in [Lister -> Walk \cup {None}] /\ WalksExpected' /\ WalkExact'
    BY <2>1, ListingExact
  <2> QED
    BY <2>2, ListingKeeps
<1>6. ASSUME NEW c \in Creator,
             \/ \E r \in Request : CreateTask(c, r)
             \/ Lock(c) \/ findDuplicate(c) \/ Save(c) \/ Fail(c)
      PROVE  IInv'
  <2>1. CASE \E r \in Request : CreateTask(c, r)
    BY <2>1, CreateTaskKeeps
  <2>2. CASE Lock(c)
    BY <2>2, LockKeeps
  <2>3. CASE findDuplicate(c)
    BY <2>3, findDuplicateKeeps
  <2>4. CASE Save(c)
    BY <2>4, SaveKeeps
  <2>5. CASE Fail(c)
    BY <2>5, AnswerKeeps DEF Fail
  <2> QED
    BY <1>6, <2>1, <2>2, <2>3, <2>4, <2>5
<1>7. CASE UNCHANGED vars
  <2>1. UNCHANGED <<db, known, walk, create, createMu, now, writes>>
    BY <1>7 DEF vars
  <2>2. walk' \in [Lister -> Walk \cup {None}] /\ WalksExpected' /\ WalkExact'
    BY <2>1 DEF IInv, TypeOK, WalksExpected, Expected, Stored, WalkExact
  <2> QED
    BY <2>1, <2>2, ListingKeeps
<1>8. Next => \/ \E o \in Op : Write(o)
              \/ \E k \in DOMAIN db : Expire(k)
              \/ Restart \/ Advance
              \/ \E l \in Lister : Listing(l)
              \/ \E c \in Creator :
                   \/ \E r \in Request : CreateTask(c, r)
                   \/ Lock(c) \/ findDuplicate(c) \/ Save(c) \/ Fail(c)
  BY DEF Next, Listing
<1> QED
  BY <1>1, <1>2, <1>3, <1>4, <1>5, <1>6, <1>7, <1>8

\* Walks, the search of a creation and the store stand as IInv says, whatever
\* is written between two pages.
THEOREM Invariance == Spec => []IInv
<1>1. Init => IInv
  BY InitKeeps
<1>2. IInv /\ [Next]_vars => IInv'
  BY NextKeeps
<1> QED
  BY <1>1, <1>2, PTL DEF Spec

\* The records of ListTasks, CreateTask and the store keep their types.
THEOREM TypeCorrect == Spec => []TypeOK
<1>1. IInv => TypeOK
  BY DEF IInv
<1> QED
  BY <1>1, Invariance, PTL

\* ListTasks: a client that pages through GET /tasks gets every matching task
\* that stands still exactly once, whatever happens between its pages.
THEOREM WalksExact == Spec => []WalkExact
<1>1. IInv => WalkExact
  BY DEF IInv
<1> QED
  BY <1>1, Invariance, PTL

\* CreateTask: a creation that is saved repeats no pending task that was there
\* when createMu was taken, nor one that another creation has added since.
THEOREM CreatesOnce == Spec => CreateOnce
<1>1. ASSUME IInv
      PROVE  \A c \in Creator :
               create[c] # None /\ create[c].pc = "save" /\ create[c].task \in {db'[k] : k \in DOMAIN db'}
                 => \A t \in create[c].standing : ~Duplicate(t, create[c].task)
  BY <1>1 DEF IInv, CreationsSearched, Searched
<1> QED
  BY <1>1, Invariance, PTL DEF CreateOnce

\* ListTasks: a cursor is handed out only when another row matches after it.
THEOREM CursorsHaveMore == Spec => HasMore
<1> DEFINE More ==
      \A l \in Lister : walk'[l] # walk[l] /\ walk'[l] # None /\ UNCHANGED db
        => (walk'[l].cursor # None => Remaining(db, walk'[l].filter, walk'[l].cursor) # {})
<1>1. ASSUME IInv, [Next]_vars PROVE More \/ UNCHANGED vars
  <2> SUFFICES ASSUME Next PROVE More
    BY <1>1
  <2>1. CASE walk' = walk
    BY <2>1
  <2>2. CASE db' # db
    BY <2>2
  <2>3. CASE \E l \in Lister : Listing(l)
    <3>1. PICK l \in Lister : Listing(l)
      BY <2>3
    <3>2. /\ \A m \in Lister \ {l} : walk'[m] = walk[m]
          /\ walk'[l] # None /\ walk'[l].cursor # None
               => Remaining(db, walk'[l].filter, walk'[l].cursor) # {}
      BY <1>1, <3>1, ListingExact
    <3> QED
      BY <3>2
  <2>4. CASE walk' = Settled(walk) /\ db' = db
    <3>1. ASSUME NEW l \in Lister PROVE walk'[l] = walk[l]
      <4>1. walk[l] = None \/ walk[l] \in Walk
        BY <1>1 DEF IInv, TypeOK
      <4>2. CASE walk[l] = None
        BY <1>1, <2>4, <4>2 DEF Settled, IInv, TypeOK
      <4>3. CASE walk[l] # None
        <5>1. walk'[l] = [walk[l] EXCEPT !.standing = Standing(walk[l].standing)]
          BY <1>1, <2>4, <4>3 DEF Settled, IInv, TypeOK
        <5>2. Standing(walk[l].standing) = walk[l].standing
          BY <1>1, <2>4, <4>3 DEF IInv, WalksExpected, Expected, Stored, Standing
        <5> QED
          BY <4>1, <4>3, <5>1, <5>2 DEF Walk
      <4> QED
        BY <4>2, <4>3
    <3> QED
      BY <3>1
  <2>5. \/ walk' = walk \/ db' # db \/ \E l \in Lister : Listing(l)
        \/ walk' = Settled(walk) /\ db' = db
    <3>1. ASSUME NEW k \in DOMAIN db, Expire(k) PROVE db' # db
      <4>1. k \notin DOMAIN db'
        BY <3>1 DEF Expire
      <4> QED
        BY <4>1
    <3> QED
      BY <3>1 DEF Next, Listing, Write, Restart, Advance, CreateTask, Lock, findDuplicate, Save, Fail
  <2> QED
    BY <2>1, <2>2, <2>3, <2>4, <2>5
<1> QED
  BY <1>1, Invariance, PTL DEF Spec, HasMore
=============================================================================
