--------------------------- MODULE TaskKeysProofs ---------------------------
(***************************************************************************)
(* Facts about the keyspace: keys are linearly ordered, so the rows of a   *)
(* scan have places that count them, and a scan that stops at a limit      *)
(* returns exactly the first ones.                                         *)
(***************************************************************************)
EXTENDS TaskKeys, FiniteSetTheorems, TLAPS

-----------------------------------------------------------------------------
(* The order of the keys.                                                  *)

\* Every status has its own place in the keyspace.
LEMMA RankType ==
  ASSUME NEW s \in Status
  PROVE  Rank(s) \in 1..5 /\ Statuses[Rank(s)] = s
<1>1. \E i \in 1..5 : Statuses[i] = s
  BY DEF Status
<1> QED
  BY <1>1 DEF Rank

\* The components of a key can be compared.
LEMMA KeyType ==
  ASSUME NEW k \in Key
  PROVE  /\ k.status \in Status /\ k.ts \in Int /\ k.id \in Int /\ k.id \in Id
         /\ k = [status |-> k.status, ts |-> k.ts, id |-> k.id]
         /\ k # None
<1>1. k.status \in Status /\ k.ts \in 0..Unix(MaxTick) /\ k.id \in Id
      /\ k = [status |-> k.status, ts |-> k.ts, id |-> k.id]
  BY DEF Key
<1>2. \A i \in 0..Unix(MaxTick) : i \in Int
  OBVIOUS
<1> QED
  BY <1>1, <1>2, KeysAssumption, NoneAssumption

\* Two keys with the same components are the same key.
LEMMA KeyEqual ==
  ASSUME NEW j \in Key, NEW k \in Key, j.status = k.status, j.ts = k.ts, j.id = k.id
  PROVE  j = k
BY KeyType

\* The byte order of the keys is a strict linear order.
LEMMA BeforeOrder ==
  ASSUME NEW j \in Key, NEW k \in Key, NEW l \in Key
  PROVE  /\ ~Before(j, j)
         /\ Before(j, k) /\ Before(k, l) => Before(j, l)
         /\ j = k \/ Before(j, k) \/ Before(k, j)
<1>1. /\ Rank(j.status) \in Int /\ Rank(k.status) \in Int /\ Rank(l.status) \in Int
      /\ Rank(j.status) = Rank(k.status) => j.status = k.status
  BY KeyType, RankType
<1>2. /\ j.ts \in Int /\ k.ts \in Int /\ l.ts \in Int
      /\ j.id \in Int /\ k.id \in Int /\ l.id \in Int
  BY KeyType
<1>3. ~Before(j, j)
  BY <1>1, <1>2 DEF Before
<1>4. Before(j, k) /\ Before(k, l) => Before(j, l)
  BY <1>1, <1>2 DEF Before
<1>5. j = k \/ Before(j, k) \/ Before(k, j)
  <2>1. j.status = k.status /\ j.ts = k.ts /\ j.id = k.id => j = k
    BY KeyEqual
  <2> QED
    BY <1>1, <1>2, <2>1 DEF Before
<1> QED
  BY <1>3, <1>4, <1>5

-----------------------------------------------------------------------------
(* The places of the rows of a scan.                                       *)

Predecessors(S, k) == {j \in S : Before(j, k)}

\* How many rows of S a scan passes before k.
Place(S) == [k \in S |-> Cardinality(Predecessors(S, k))]

\* The first n rows of S.
FirstRows(S, n) == {k \in S : Cardinality(Predecessors(S, k)) < n}

\* Places count from 0 without gaps and in the order of the keys.
LEMMA PlaceBijection ==
  ASSUME NEW S \in SUBSET Key, IsFiniteSet(S)
  PROVE  /\ Place(S) \in Bijection(S, 0..(Cardinality(S) - 1))
         /\ \A j, k \in S : Before(j, k) <=> Place(S)[j] < Place(S)[k]
<1> DEFINE n == Cardinality(S)
           P(k) == Predecessors(S, k)
<1>1. n \in Nat /\ IsFiniteSet(0..(n - 1)) /\ Cardinality(0..(n - 1)) = n
  <2>1. n \in Nat
    BY FS_CardinalityType
  <2> HIDE DEF n
  <2> QED
    BY <2>1, FS_Interval
<1>2. \A k \in S : IsFiniteSet(P(k)) /\ Cardinality(P(k)) \in Nat /\ k \notin P(k)
  <2> TAKE k \in S
  <2>1. P(k) \in SUBSET S /\ k \notin P(k)
    BY BeforeOrder DEF Predecessors
  <2> QED
    BY <2>1, FS_Subset, FS_CardinalityType
<1>3. \A k \in S : Cardinality(P(k)) \in 0..(n - 1)
  <2> TAKE k \in S
  <2>1. IsFiniteSet(S \ {k}) /\ Cardinality(S \ {k}) = n - 1
    BY FS_RemoveElement
  <2>2. P(k) \in SUBSET (S \ {k})
    BY <1>2 DEF Predecessors
  <2>3. Cardinality(P(k)) <= Cardinality(S \ {k})
    BY <2>1, <2>2, FS_Subset
  <2> HIDE DEF n, P
  <2> QED
    BY <1>1, <1>2, <2>1, <2>3
<1>4. \A j, k \in S : Before(j, k) => Cardinality(P(j)) < Cardinality(P(k))
  <2> SUFFICES ASSUME NEW j \in S, NEW k \in S, Before(j, k)
               PROVE  Cardinality(P(j)) < Cardinality(P(k))
    OBVIOUS
  <2>1. P(j) \cup {j} \in SUBSET P(k)
    BY BeforeOrder DEF Predecessors
  <2>2. Cardinality(P(j) \cup {j}) = Cardinality(P(j)) + 1
    BY <1>2, FS_AddElement
  <2>3. Cardinality(P(j) \cup {j}) <= Cardinality(P(k))
    BY <1>2, <2>1, FS_Subset
  <2> HIDE DEF P
  <2> QED
    BY <1>2, <2>2, <2>3
<1>5. \A j, k \in S : Before(j, k) <=> Place(S)[j] < Place(S)[k]
  <2> SUFFICES ASSUME NEW j \in S, NEW k \in S
               PROVE  Before(j, k) <=> Place(S)[j] < Place(S)[k]
    OBVIOUS
  <2>1. Place(S)[j] = Cardinality(P(j)) /\ Place(S)[k] = Cardinality(P(k))
    BY DEF Place
  <2>2. j = k \/ Before(j, k) \/ Before(k, j)
    BY BeforeOrder
  <2> HIDE DEF P
  <2> QED
    BY <1>2, <1>4, <2>1, <2>2
<1>6. Place(S) \in [S -> 0..(n - 1)]
  BY <1>3 DEF Place
<1>7. Place(S) \in Injection(S, 0..(n - 1))
  <2>1. \A j, k \in S : Place(S)[j] = Place(S)[k] => j = k
    <3> SUFFICES ASSUME NEW j \in S, NEW k \in S, Place(S)[j] = Place(S)[k] PROVE j = k
      OBVIOUS
    <3>1. Place(S)[j] \in Int /\ Place(S)[k] \in Int
      BY <1>6
    <3> QED
      BY <1>5, <3>1, BeforeOrder
  <2> QED
    BY <1>6, <2>1 DEF Injection, IsInjective
<1>8. Place(S) \in Surjection(S, 0..(n - 1))
  BY <1>1, <1>7, FS_Injection
<1> QED
  BY <1>5, <1>7, <1>8 DEF Bijection

\* A scan has a first and a last row.
LEMMA FirstLast ==
  ASSUME NEW S \in SUBSET Key, IsFiniteSet(S), S # {}
  PROVE  /\ First(S) \in S /\ \A j \in S : j = First(S) \/ Before(First(S), j)
         /\ Last(S) \in S /\ \A j \in S : j = Last(S) \/ Before(j, Last(S))
<1> DEFINE n == Cardinality(S)
<1>1. n \in Nat /\ n # 0
  BY FS_CardinalityType, FS_EmptySet
<1>2. /\ Place(S) \in [S -> 0..(n - 1)]
      /\ \A i \in 0..(n - 1) : \E k \in S : Place(S)[k] = i
      /\ \A j, k \in S : Before(j, k) <=> Place(S)[j] < Place(S)[k]
  BY PlaceBijection DEF Bijection, Surjection
<1> HIDE DEF n
<1>3. \A j, k \in S : ~Before(j, k) => j = k \/ Before(k, j)
  BY BeforeOrder
<1>4. \E k \in S : \A j \in S : j = k \/ Before(k, j)
  <2>1. PICK k \in S : Place(S)[k] = 0
    BY <1>1, <1>2
  <2>2. \A j \in S : ~Before(j, k)
    BY <1>1, <1>2, <2>1
  <2> QED
    BY <1>3, <2>2
<1>5. \E k \in S : \A j \in S : j = k \/ Before(j, k)
  <2>1. PICK k \in S : Place(S)[k] = n - 1
    BY <1>1, <1>2
  <2>2. \A j \in S : ~Before(k, j)
    BY <1>1, <1>2, <2>1
  <2> QED
    BY <1>3, <2>2
<1> QED
  BY <1>4, <1>5 DEF First, Last

\* The first n rows of a scan are n, or all there are; a row that is left out
\* comes after every one of them.
LEMMA FirstRowsCount ==
  ASSUME NEW S \in SUBSET Key, IsFiniteSet(S), NEW n \in Nat
  PROVE  /\ FirstRows(S, n) \subseteq S /\ IsFiniteSet(FirstRows(S, n))
         /\ Cardinality(FirstRows(S, n)) <= n
         /\ FirstRows(S, n) # S => Cardinality(FirstRows(S, n)) = n
         /\ \A j \in FirstRows(S, n), k \in S \ FirstRows(S, n) : Before(j, k)
<1> DEFINE m == Cardinality(S)
           F == FirstRows(S, n)
           f == [k \in F |-> Place(S)[k]]
<1>1. m \in Nat
  BY FS_CardinalityType
<1>2. /\ Place(S) \in [S -> 0..(m - 1)]
      /\ \A i \in 0..(m - 1) : \E k \in S : Place(S)[k] = i
      /\ \A j, k \in S : Place(S)[j] = Place(S)[k] => j = k
      /\ \A j, k \in S : Before(j, k) <=> Place(S)[j] < Place(S)[k]
  BY PlaceBijection DEF Bijection, Surjection, Injection, IsInjective
<1>3. F = {k \in S : Place(S)[k] < n}
  BY DEF FirstRows, Place
<1>4. F \subseteq S /\ IsFiniteSet(F)
  BY <1>3, FS_Subset
<1> HIDE DEF m, F
<1>5. f \in [F -> 0..(n - 1)] /\ f \in Injection(F, 0..(n - 1))
  BY <1>1, <1>2, <1>3 DEF Injection, IsInjective
<1>6. IsFiniteSet(0..(n - 1)) /\ Cardinality(0..(n - 1)) = n
  BY FS_Interval
<1>7. Cardinality(F) <= n
  BY <1>5, <1>6, FS_Injection
<1>8. F # S => Cardinality(F) = n
  <2> HAVE F # S
  <2>1. PICK k \in S : ~(Place(S)[k] < n)
    BY <1>3
  <2>2. n <= m - 1
    BY <1>1, <1>2, <2>1
  <2>3. \A i \in 0..(n - 1) : \E j \in F : f[j] = i
    BY <1>1, <1>2, <1>3, <2>2
  <2>4. f \in Surjection(F, 0..(n - 1))
    BY <1>5, <2>3 DEF Surjection
  <2> QED
    BY <1>5, <1>6, <2>4, FS_Injection
<1>9. \A j \in F, k \in S \ F : Before(j, k)
  BY <1>1, <1>2, <1>3
<1> QED
  BY <1>4, <1>7, <1>8, <1>9 DEF F

-----------------------------------------------------------------------------
(* Contents of the store.                                                  *)

\* A finite store that has every task under its key, and no id twice.
WellKept(f) ==
  /\ DOMAIN f \subseteq Key /\ IsFiniteSet(DOMAIN f)
  /\ \A k \in DOMAIN f : f[k] \in Task /\ k = taskKey(f[k])
  /\ \A j, k \in DOMAIN f : j.id = k.id => j = k

\* Whole seconds grow with the clock.
LEMMA UnixMonotonic ==
  ASSUME NEW a \in Nat, NEW b \in Nat, a <= b
  PROVE  Unix(a) \in Nat /\ Unix(a) <= Unix(b)
<1>1. Res \in Nat /\ Res > 0
  BY KeysAssumption
<1> DEFINE q == a \div Res
           r == b \div Res
<1>2. /\ q \in Nat /\ r \in Nat
      /\ q * Res <= a /\ b < (r + 1) * Res
  BY <1>1
<1> HIDE DEF q, r
<1>3. q * Res < (r + 1) * Res
  BY <1>1, <1>2
<1>4. q < r + 1
  <2>1. SUFFICES ASSUME q >= r + 1 PROVE FALSE
    BY <1>2
  <2>2. q * Res >= (r + 1) * Res
    BY <1>1, <1>2, <2>1
  <2> QED
    BY <1>1, <1>2, <1>3, <2>2
<1> QED
  BY <1>2, <1>4 DEF Unix, q, r

\* The fields of a task and of its key.
LEMMA TaskType ==
  ASSUME NEW t \in Task
  PROVE  /\ t.id \in Id /\ t.status \in Status /\ t.executeAt \in Tick /\ t # None
         /\ taskKey(t) \in Key
         /\ taskKey(t).id = t.id /\ taskKey(t).status = t.status
         /\ taskKey(t).ts = Unix(t.executeAt)
<1>1. t.id \in Id /\ t.status \in Status /\ t.executeAt \in Tick /\ t # None
  BY NoneAssumption DEF Task
<1>2. Unix(t.executeAt) \in 0..Unix(MaxTick)
  <2>1. t.executeAt \in Nat /\ MaxTick \in Nat /\ t.executeAt <= MaxTick
    BY <1>1, KeysAssumption DEF Tick
  <2> QED
    BY <2>1, UnixMonotonic
<1> QED
  BY <1>1, <1>2 DEF taskKey, Key

\* What findKey and GetTask return for an id that is in the store.
LEMMA Found ==
  ASSUME NEW f, WellKept(f), NEW k \in DOMAIN f
  PROVE  /\ KeysOf(f, k.id) = {k} /\ findKey(f, k.id) = k /\ GetTask(f, k.id) = f[k]
         /\ f[k] \in Task /\ f[k] # None /\ f[k].id = k.id /\ k \in Key
         /\ f[k].status = k.status /\ Unix(f[k].executeAt) = k.ts
<1>1. k \in Key /\ k # None /\ f[k] \in Task /\ k = taskKey(f[k])
  BY KeyType DEF WellKept
<1>2. KeysOf(f, k.id) = {k}
  BY DEF KeysOf, WellKept
<1>3. First({k}) = k
  BY DEF First
<1>4. findKey(f, k.id) = k
  BY <1>2, <1>3 DEF findKey
<1> QED
  BY <1>1, <1>2, <1>4, TaskType DEF GetTask

\* What they return for one that is not.
LEMMA NotFound ==
  ASSUME NEW f, WellKept(f), NEW id
  PROVE  /\ KeysOf(f, id) = {} <=> findKey(f, id) = None
         /\ KeysOf(f, id) = {} <=> GetTask(f, id) = None
         /\ KeysOf(f, id) # {} => \E k \in DOMAIN f : k.id = id
<1>1. KeysOf(f, id) = {} => findKey(f, id) = None /\ GetTask(f, id) = None
  BY DEF findKey, GetTask
<1>2. KeysOf(f, id) # {} => \E k \in DOMAIN f : k.id = id
  BY DEF KeysOf
<1>3. ASSUME NEW k \in DOMAIN f, k.id = id
      PROVE  findKey(f, id) # None /\ GetTask(f, id) # None
  BY <1>3, Found, KeyType
<1> QED
  BY <1>1, <1>2, <1>3

\* The empty store is well kept.
LEMMA EmptyKept == WellKept(Empty) /\ DOMAIN Empty = {}
BY FS_EmptySet DEF WellKept, Empty

\* A store that has lost a record is as well kept as before.
LEMMA RemovedKept ==
  ASSUME NEW f, WellKept(f), NEW k
  PROVE  WellKept([j \in DOMAIN f \ {k} |-> f[j]])
<1>1. IsFiniteSet(DOMAIN f \ {k})
  BY FS_RemoveElement DEF WellKept
<1> QED
  BY <1>1 DEF WellKept

-----------------------------------------------------------------------------
(* What operations write.                                                  *)

\* The contents a store may have, whether or not they are well kept.
Typed(f) ==
  /\ DOMAIN f \subseteq Key /\ IsFiniteSet(DOMAIN f)
  /\ \A k \in DOMAIN f : f[k] \in Task

\* The parameters of an operation.
LEMMA OpType ==
  ASSUME NEW o \in Op
  PROVE  /\ o # None
         /\ o.kind \in {"Save", "Update", "Delete", "DeleteTasks", "RecoverRunning"}
         /\ o.kind \in {"Save", "Update"} => o.task \in Task
         /\ o.kind = "Delete" => o.id \in Id
         /\ o.kind = "DeleteTasks" => o.filter \in Filter
BY NoneAssumption DEF Op

\* A change of status leaves the rest of a task as it is.
LEMMA WithStatus ==
  ASSUME NEW t \in Task, NEW st \in Status
  PROVE  /\ [t EXCEPT !.status = st] \in Task
         /\ [t EXCEPT !.status = st].id = t.id
         /\ [t EXCEPT !.status = st].status = st
BY DEF Task

\* "pending" and "running" are statuses that are not final.
LEMMA LiveStatus ==
  /\ "pending" \in Status /\ "running" \in Status
  /\ ~IsTerminal("pending") /\ ~IsTerminal("running")
<1>1. Statuses[3] = "pending" /\ Statuses[4] = "running"
  BY DEF Statuses
<1> QED
  BY <1>1 DEF Status, IsTerminal

\* An operation puts finitely many tasks and deletes keys, whatever it reads.
LEMMA WritesType ==
  ASSUME NEW o \in Op, NEW s, Typed(s)
  PROVE  /\ Puts(o, s) \subseteq Task /\ IsFiniteSet(Puts(o, s))
         /\ Deletes(o, s) \subseteq Key /\ Writes(o, s) \subseteq Key
<1>1. \A id : {findKey(s, id)} \ {None} \subseteq Key
  <2> TAKE id
  <2>1. KeysOf(s, id) \in SUBSET DOMAIN s
    BY DEF KeysOf
  <2>2. KeysOf(s, id) \in SUBSET Key /\ IsFiniteSet(KeysOf(s, id))
    BY <2>1, FS_Subset DEF Typed
  <2> QED
    BY <2>2, FirstLast DEF findKey
<1>2. Stuck(s) \subseteq DOMAIN s /\ IsFiniteSet(Stuck(s))
  <2>1. Stuck(s) \in SUBSET DOMAIN s
    BY DEF Stuck
  <2> QED
    BY <2>1, FS_Subset DEF Typed
<1>3. Deletes(o, s) \subseteq Key
  <2>1. Matching(s, o.filter) \subseteq Key
    BY DEF Matching, Typed
  <2>2. {taskKey(s[k]) : k \in Stuck(s)} \subseteq Key
    BY <1>2, TaskType DEF Typed
  <2> QED
    BY <1>1, <2>1, <2>2, OpType DEF Deletes
<1>4. Puts(o, s) \subseteq Task /\ IsFiniteSet(Puts(o, s))
  <2>1. CASE o.kind = "Save"
    <3>1. Puts(o, s) = {[o.task EXCEPT !.status = "pending"]}
      BY <2>1 DEF Puts
    <3>2. [o.task EXCEPT !.status = "pending"] \in Task
      BY <2>1, OpType, WithStatus, LiveStatus
    <3> QED
      BY <3>1, <3>2, FS_Singleton
  <2>2. CASE o.kind = "Update"
    <3>1. Puts(o, s) = {o.task}
      BY <2>2 DEF Puts
    <3> QED
      BY <2>2, <3>1, OpType, FS_Singleton
  <2>3. CASE o.kind = "RecoverRunning"
    <3> DEFINE f == [k \in Stuck(s) |-> [s[k] EXCEPT !.status = "pending"]]
               T == {[s[k] EXCEPT !.status = "pending"] : k \in Stuck(s)}
    <3>1. Puts(o, s) = T
      BY <2>3 DEF Puts
    <3>2. f \in Surjection(Stuck(s), T)
      BY DEF Surjection
    <3>3. IsFiniteSet(T)
      BY <1>2, <3>2, FS_Surjection
    <3>4. T \subseteq Task
      BY <1>2, WithStatus, LiveStatus DEF Typed
    <3> QED
      BY <3>1, <3>3, <3>4
  <2>4. CASE o.kind \in {"Delete", "DeleteTasks"}
    <3>1. Puts(o, s) = {}
      BY <2>4 DEF Puts
    <3> QED
      BY <3>1, FS_EmptySet
  <2> QED
    BY <2>1, <2>2, <2>3, <2>4, OpType
<1> QED
  BY <1>3, <1>4, TaskType DEF Writes

\* A key that an operation does not write is as it was.
LEMMA Elsewhere ==
  ASSUME NEW f, NEW o, NEW s, NEW k, k \notin Writes(o, s)
  PROVE  /\ k \in DOMAIN Written(f, o, s) <=> k \in DOMAIN f
         /\ k \in DOMAIN f => Written(f, o, s)[k] = f[k]
<1> DEFINE keys == {taskKey(t) : t \in Puts(o, s)}
<1>1. k \notin Deletes(o, s) /\ k \notin keys
  BY DEF Writes
<1>2. /\ DOMAIN Written(f, o, s) = (DOMAIN f \ Deletes(o, s)) \cup keys
      /\ \A j \in DOMAIN Written(f, o, s) : j \notin keys => Written(f, o, s)[j] = f[j]
  BY DEF Written
<1> HIDE DEF keys
<1> QED
  BY <1>1, <1>2

\* What an operation makes of a typed store is typed.
LEMMA WrittenTyped ==
  ASSUME NEW f, Typed(f), NEW o \in Op, NEW s, Typed(s)
  PROVE  Typed(Written(f, o, s))
<1> DEFINE puts == Puts(o, s)
           keys == {taskKey(t) : t \in puts}
           g == Written(f, o, s)
<1>1. /\ DOMAIN g = (DOMAIN f \ Deletes(o, s)) \cup keys
      /\ \A k \in DOMAIN g : g[k] = IF k \in keys THEN CHOOSE t \in puts : taskKey(t) = k ELSE f[k]
  BY DEF Written
<1>2. puts \subseteq Task /\ IsFiniteSet(puts)
  BY WritesType
<1> HIDE DEF puts, g
<1>3. IsFiniteSet(keys)
  <2> DEFINE h == [t \in puts |-> taskKey(t)]
  <2>1. h \in Surjection(puts, keys)
    BY DEF Surjection
  <2> QED
    BY <1>2, <2>1, FS_Surjection
<1>4. IsFiniteSet(DOMAIN g)
  <2>1. IsFiniteSet(DOMAIN f \ Deletes(o, s))
    BY FS_Difference DEF Typed
  <2>2. IsFiniteSet((DOMAIN f \ Deletes(o, s)) \cup keys)
    <3> HIDE DEF keys
    <3> QED
      BY <1>3, <2>1, FS_Union
  <2> QED
    BY <1>1, <2>2
<1>5. keys \subseteq Key
  BY <1>2, TaskType
<1>6. \A k \in DOMAIN g : g[k] \in Task
  <2> TAKE k \in DOMAIN g
  <2>1. CASE k \in keys
    <3>1. \E t \in puts : taskKey(t) = k
      BY <2>1
    <3> QED
      BY <1>1, <1>2, <2>1, <3>1
  <2>2. CASE k \notin keys
    BY <1>1, <2>2 DEF Typed
  <2> QED
    BY <2>1, <2>2
<1> QED
  BY <1>1, <1>4, <1>5, <1>6 DEF Typed, g

\* A transaction whose deletions cover the old keys of what it puts keeps the
\* store well kept, and does to the tasks what it says.
LEMMA WrittenKept ==
  ASSUME NEW f, NEW o, NEW s, WellKept(f),
         Puts(o, s) \subseteq Task, IsFiniteSet(Puts(o, s)),
         \A t, u \in Puts(o, s) : t.id = u.id => t = u,
         \A t \in Puts(o, s) : KeysOf(f, t.id) \subseteq Deletes(o, s)
  PROVE  /\ WellKept(Written(f, o, s))
         /\ \A t \in Puts(o, s) : /\ GetTask(Written(f, o, s), t.id) = t
                                  /\ taskKey(t) \in DOMAIN Written(f, o, s)
         /\ \A id : (\A t \in Puts(o, s) : t.id # id)
              => KeysOf(Written(f, o, s), id) = KeysOf(f, id) \ Deletes(o, s)
         /\ \A k \in DOMAIN f \ Deletes(o, s) :
              /\ k \in DOMAIN Written(f, o, s) /\ Written(f, o, s)[k] = f[k]
<1> DEFINE puts == Puts(o, s)
           dels == Deletes(o, s)
           g == Written(f, o, s)
           keys == {taskKey(t) : t \in puts}
<1>1. /\ DOMAIN g = (DOMAIN f \ dels) \cup keys
      /\ \A k \in DOMAIN g : g[k] = IF k \in keys THEN CHOOSE t \in puts : taskKey(t) = k ELSE f[k]
  BY DEF Written
<1>2. /\ puts \subseteq Task /\ IsFiniteSet(puts)
      /\ \A t, u \in puts : t.id = u.id => t = u
      /\ \A t \in puts : KeysOf(f, t.id) \subseteq dels
  OBVIOUS
<1> HIDE DEF puts, dels, g
<1>3. \A t \in puts : taskKey(t) \in DOMAIN g /\ g[taskKey(t)] = t
  <2> TAKE t \in puts
  <2>1. taskKey(t) \in keys
    OBVIOUS
  <2>2. g[taskKey(t)] = CHOOSE u \in puts : taskKey(u) = taskKey(t)
    BY <1>1, <2>1
  <2>3. PICK u \in puts : g[taskKey(t)] = u /\ taskKey(u) = taskKey(t)
    BY <2>2
  <2>4. u = t
    BY <1>2, <2>3, TaskType
  <2> QED
    BY <1>1, <2>1, <2>3, <2>4
<1>4. \A k \in DOMAIN f \ dels : k \notin keys
  <2> SUFFICES ASSUME NEW k \in DOMAIN f, k \notin dels, NEW t \in puts, k = taskKey(t)
               PROVE  FALSE
    OBVIOUS
  <2>1. k \in KeysOf(f, t.id)
    BY <1>2, TaskType DEF KeysOf
  <2> QED
    BY <1>2, <2>1
<1>5. \A k \in DOMAIN f \ dels : k \in DOMAIN g /\ g[k] = f[k]
  BY <1>1, <1>4
<1>6. \A k \in DOMAIN g : \/ k \in DOMAIN f \ dels
                          \/ \E t \in puts : k = taskKey(t)
  BY <1>1
<1>7. WellKept(g)
  <2>1. DOMAIN g \subseteq Key
    BY <1>2, <1>6, TaskType DEF WellKept
  <2>2. IsFiniteSet(DOMAIN g)
    <3> DEFINE h == [t \in puts |-> taskKey(t)]
    <3>1. h \in Surjection(puts, keys)
      BY DEF Surjection
    <3>2. IsFiniteSet(keys)
      BY <1>2, <3>1, FS_Surjection
    <3>3. IsFiniteSet(DOMAIN f \ dels)
      BY FS_Difference DEF WellKept
    <3>4. IsFiniteSet((DOMAIN f \ dels) \cup keys)
      <4> HIDE DEF keys
      <4> QED
        BY <3>2, <3>3, FS_Union
    <3> QED
      BY <1>1, <3>4
  <2>3. \A k \in DOMAIN g : g[k] \in Task /\ k = taskKey(g[k])
    BY <1>2, <1>3, <1>5, <1>6 DEF WellKept
  <2>4. \A j, k \in DOMAIN g : j.id = k.id => j = k
    <3> SUFFICES ASSUME NEW j \in DOMAIN g, NEW k \in DOMAIN g, j.id = k.id PROVE j = k
      OBVIOUS
    <3>1. CASE j \in DOMAIN f \ dels /\ k \in DOMAIN f \ dels
      BY <3>1 DEF WellKept
    <3>2. ASSUME NEW t \in puts, j = taskKey(t) PROVE j = k
      <4>1. t \in Task /\ t.id = k.id
        BY <1>2, <3>2, TaskType
      <4>2. CASE k \in DOMAIN f \ dels
        BY <1>2, <4>1, <4>2 DEF KeysOf
      <4>3. CASE \E u \in puts : k = taskKey(u)
        BY <1>2, <3>2, <4>1, <4>3, TaskType
      <4> QED
        BY <1>6, <4>2, <4>3
    <3>3. ASSUME NEW t \in puts, k = taskKey(t) PROVE j = k
      <4>1. t \in Task /\ t.id = j.id
        BY <1>2, <3>3, TaskType
      <4>2. CASE j \in DOMAIN f \ dels
        BY <1>2, <4>1, <4>2 DEF KeysOf
      <4>3. CASE \E u \in puts : j = taskKey(u)
        BY <1>2, <3>3, <4>1, <4>3, TaskType
      <4> QED
        BY <1>6, <4>2, <4>3
    <3> QED
      BY <1>6, <3>1, <3>2, <3>3
  <2> QED
    BY <2>1, <2>2, <2>3, <2>4 DEF WellKept
<1>8. \A t \in puts : GetTask(g, t.id) = t
  BY <1>2, <1>3, <1>7, Found, TaskType
<1>9. \A id : (\A t \in puts : t.id # id) => KeysOf(g, id) = KeysOf(f, id) \ dels
  <2> SUFFICES ASSUME NEW id, \A t \in puts : t.id # id
               PROVE  KeysOf(g, id) = KeysOf(f, id) \ dels
    OBVIOUS
  <2>1. \A t \in puts : taskKey(t).id # id
    BY <1>2, TaskType
  <2> QED
    BY <1>5, <1>6, <2>1 DEF KeysOf
<1> QED
  BY <1>3, <1>5, <1>7, <1>8, <1>9 DEF puts, dels, g

\* An operation that reads the store it writes covers what it puts; a Save
\* must bring a new id.
LEMMA CurrentCovers ==
  ASSUME NEW f, WellKept(f), NEW o \in Op, o.kind = "Save" => KeysOf(f, o.task.id) = {}
  PROVE  /\ Puts(o, f) \subseteq Task /\ IsFiniteSet(Puts(o, f))
         /\ \A t, u \in Puts(o, f) : t.id = u.id => t = u
         /\ \A t \in Puts(o, f) : KeysOf(f, t.id) \subseteq Deletes(o, f)
<1>0. Puts(o, f) \subseteq Task /\ IsFiniteSet(Puts(o, f))
  <2>1. Typed(f)
    BY DEF Typed, WellKept
  <2> QED
    BY <2>1, WritesType
<1>1. CASE o.kind = "Save"
  <2>1. Puts(o, f) = {[o.task EXCEPT !.status = "pending"]} /\ o.task \in Task
    BY <1>1, OpType DEF Puts
  <2>2. [o.task EXCEPT !.status = "pending"].id = o.task.id
    BY <2>1, WithStatus, LiveStatus
  <2> QED
    BY <1>0, <1>1, <2>1, <2>2
<1>2. CASE o.kind = "Update"
  <2>1. Puts(o, f) = {o.task} /\ Deletes(o, f) = {findKey(f, o.task.id)} \ {None}
    BY <1>2 DEF Puts, Deletes
  <2>2. \A k \in KeysOf(f, o.task.id) : k = findKey(f, o.task.id) /\ k # None
    BY Found, KeyType DEF KeysOf
  <2> QED
    BY <1>0, <2>1, <2>2
<1>3. CASE o.kind = "RecoverRunning"
  <2>1. /\ Puts(o, f) = {[f[k] EXCEPT !.status = "pending"] : k \in Stuck(f)}
        /\ Deletes(o, f) = {taskKey(f[k]) : k \in Stuck(f)}
    BY <1>3 DEF Puts, Deletes
  <2>2. \A k \in Stuck(f) : /\ k \in DOMAIN f /\ KeysOf(f, k.id) = {k} /\ taskKey(f[k]) = k
                            /\ [f[k] EXCEPT !.status = "pending"].id = k.id
    <3> TAKE k \in Stuck(f)
    <3>1. k \in DOMAIN f
      BY DEF Stuck
    <3>2. f[k] \in Task /\ f[k].id = k.id /\ KeysOf(f, k.id) = {k} /\ taskKey(f[k]) = k
      BY <3>1, Found DEF WellKept
    <3> QED
      BY <3>1, <3>2, WithStatus, LiveStatus
  <2>3. \A t \in Puts(o, f) : \E k \in Stuck(f) :
          t = [f[k] EXCEPT !.status = "pending"] /\ t.id = k.id
    <3> TAKE t \in Puts(o, f)
    <3>1. PICK k \in Stuck(f) : t = [f[k] EXCEPT !.status = "pending"]
      BY <2>1
    <3> QED
      BY <2>2, <3>1
  <2>4. \A j, k \in Stuck(f) : j.id = k.id => j = k
    BY <2>2 DEF WellKept
  <2>5. \A t, u \in Puts(o, f) : t.id = u.id => t = u
    BY <2>3, <2>4
  <2>6. \A k \in Stuck(f) : k \in Deletes(o, f)
    BY <2>1, <2>2
  <2>7. \A t \in Puts(o, f) : KeysOf(f, t.id) \subseteq Deletes(o, f)
    BY <2>2, <2>3, <2>6
  <2> QED
    BY <1>0, <2>5, <2>7
<1>4. CASE o.kind \in {"Delete", "DeleteTasks"}
  <2>1. Puts(o, f) = {}
    BY <1>4 DEF Puts
  <2> QED
    BY <1>0, <2>1
<1> QED
  BY <1>1, <1>2, <1>3, <1>4, OpType

-----------------------------------------------------------------------------
(* Reads.                                                                  *)

\* Counting keys counts tasks, by id
LEMMA SameIds ==
  ASSUME NEW f, WellKept(f), NEW K \in SUBSET DOMAIN f
  PROVE  Cardinality({k.id : k \in K}) = Cardinality(K)
<1> DEFINE g == [k \in K |-> k.id]
           T == {k.id : k \in K}
<1>1. IsFiniteSet(K)
  BY FS_Subset DEF WellKept
<1>2. g \in Surjection(K, T)
  BY DEF Surjection
<1>3. \A j, k \in K : g[j] = g[k] => j = k
  BY DEF WellKept
<1>4. g \in Injection(K, T)
  BY <1>3 DEF Injection, IsInjective
<1> QED
  BY <1>1, <1>2, <1>4, FS_Surjection

\* or by value.
LEMMA SameValues ==
  ASSUME NEW f, WellKept(f), NEW K \in SUBSET DOMAIN f,
         NEW T, \A t : t \in T <=> \E k \in K : t = f[k]
  PROVE  Cardinality(T) = Cardinality(K)
<1> DEFINE g == [k \in K |-> f[k]]
<1>1. IsFiniteSet(K)
  BY FS_Subset DEF WellKept
<1>2. g \in Surjection(K, T)
  BY DEF Surjection
<1>3. \A j, k \in K : g[j] = g[k] => j = k
  BY DEF WellKept
<1>4. g \in Injection(K, T)
  BY <1>2, <1>3 DEF Injection, IsInjective, Surjection
<1> QED
  BY <1>1, <1>2, <1>4, FS_Surjection

\* The limit of a batch.
LEMMA ClampType ==
  ASSUME NEW limit \in Int
  PROVE  clamp(limit) \in 1..MaxDueBatch
BY KeysAssumption DEF clamp

\* The size of a page.
LEMMA PageSizeType ==
  ASSUME NEW limit \in Int
  PROVE  pageSize(limit) \in Nat /\ pageSize(limit) >= 1
<1>1. MaxPageSize \in Nat /\ MaxPageSize >= 1 /\ DefaultPageSize \in Nat /\ DefaultPageSize >= 1
  BY KeysAssumption
<1> QED
  BY <1>1 DEF pageSize

\* A page is the first rows from the cursor on; its cursor is the last of them
\* if there are more, and then the others come after it.
LEMMA Pages ==
  ASSUME NEW s, WellKept(s), NEW f, NEW cursor \in Key \cup {None}, NEW limit \in Int
  PROVE  LET p    == ListTasks(s, f, cursor, limit)
             rest == Remaining(s, f, cursor) IN
         /\ p.next \in Key \cup {None}
         /\ p.next = None => \A u : u \in p.tasks <=> \E k \in rest : u = s[k]
         /\ p.next # None =>
              /\ \A u : u \in p.tasks <=> \E k \in rest : ~Before(p.next, k) /\ u = s[k]
              /\ p.next \in rest
              /\ \E k \in rest : Before(p.next, k)
<1> DEFINE p    == ListTasks(s, f, cursor, limit)
           rest == Remaining(s, f, cursor)
           n    == pageSize(limit)
           page == FirstRows(rest, n)
<1>1. n \in Nat /\ n >= 1
  BY PageSizeType
<1>2. rest \in SUBSET Key /\ IsFiniteSet(rest)
  <2>1. rest \in SUBSET DOMAIN s
    BY DEF Remaining
  <2> QED
    BY <2>1, FS_Subset DEF WellKept
<1>3. p = [tasks |-> {s[k] : k \in page}, next |-> IF page = rest THEN None ELSE Last(page)]
  BY DEF ListTasks, FirstRows, Predecessors
<1>4. /\ page \subseteq rest /\ IsFiniteSet(page)
      /\ page # rest => Cardinality(page) = n
      /\ \A j \in page, k \in rest \ page : Before(j, k)
  BY <1>1, <1>2, FirstRowsCount
<1> HIDE DEF p, rest, n, page
<1>5. CASE page = rest
  <2>1. p.next = None /\ p.tasks = {s[k] : k \in rest}
    BY <1>3, <1>5
  <2> QED
    BY <2>1 DEF p, rest
<1>6. CASE page # rest
  <2>1. page # {}
    BY <1>1, <1>4, <1>6, FS_EmptySet
  <2>2. page \in SUBSET Key
    BY <1>2, <1>4
  <2>3. Last(page) \in page /\ \A j \in page : j = Last(page) \/ Before(j, Last(page))
    BY <1>4, <2>1, <2>2, FirstLast
  <2>4. p.next = Last(page) /\ p.tasks = {s[k] : k \in page}
    BY <1>3, <1>6
  <2>5. p.next \in Key /\ p.next # None /\ p.next \in page
    BY <2>2, <2>3, <2>4, KeyType
  <2>6. \A k \in rest : k \in page <=> ~Before(p.next, k)
    <3> TAKE k \in rest
    <3>1. k \in page => ~Before(p.next, k)
      BY <2>2, <2>3, <2>4, <2>5, BeforeOrder
    <3>2. k \notin page => Before(p.next, k)
      BY <1>4, <2>5
    <3> QED
      BY <3>1, <3>2
  <2>7. \A u : u \in p.tasks <=> \E k \in rest : ~Before(p.next, k) /\ u = s[k]
    BY <1>4, <2>4, <2>6
  <2>8. \E k \in rest : Before(p.next, k)
    BY <1>4, <1>6, <2>6
  <2> QED
    BY <1>4, <2>5, <2>7, <2>8 DEF p, rest
<1> QED
  BY <1>5, <1>6
=============================================================================
