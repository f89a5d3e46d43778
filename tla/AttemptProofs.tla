--------------------------- MODULE AttemptProofs ---------------------------
(***************************************************************************)
(* Proofs about Attempt, for every retry setting, timeout and answer, every *)
(* width of a time.Duration and every cap.                                 *)
(***************************************************************************)
EXTENDS Attempt, FiniteSetTheorems, FunctionTheorems, TLAPS

-----------------------------------------------------------------------------
(* Arithmetic in two's complement.                                         *)

\* A power of two is a positive number: it counts the subsets of a set.
LEMMA PowerPositive ==
  ASSUME NEW n \in Nat
  PROVE  2^n \in Nat /\ 2^n > 0
<1>1. IsFiniteSet(1..n) /\ Cardinality(1..n) = n
  BY FS_Interval
<1>2. IsFiniteSet(SUBSET (1..n)) /\ Cardinality(SUBSET (1..n)) = 2^n
  BY <1>1, FS_SUBSET
<1>3. 2^n \in Nat
  BY <1>2, FS_CardinalityType
<1>4. 2^n # 0
  <2>1. SUBSET (1..n) # {}
    OBVIOUS
  <2> QED
    BY <1>2, <2>1, FS_EmptySet
<1> QED
  BY <1>3, <1>4

\* One bit more doubles a power of two: a set with one element more has each
\* subset with and without it.
LEMMA PowerDoubles ==
  ASSUME NEW n \in Nat
  PROVE  2^(n + 1) = 2 * 2^n
<1> DEFINE A == SUBSET (1..n)
           B == {S \cup {n + 1} : S \in A}
           f == [S \in A |-> S \cup {n + 1}]
<1>1. /\ IsFiniteSet(1..n) /\ Cardinality(1..n) = n
      /\ IsFiniteSet(1..(n + 1)) /\ Cardinality(1..(n + 1)) = n + 1
  BY FS_Interval
<1>2. /\ IsFiniteSet(A) /\ Cardinality(A) = 2^n
      /\ Cardinality(SUBSET (1..(n + 1))) = 2^(n + 1)
  BY <1>1, FS_SUBSET
<1>3. n + 1 \notin 1..n /\ 1..(n + 1) = (1..n) \cup {n + 1}
  OBVIOUS
<1>4. IsFiniteSet(B) /\ Cardinality(B) = 2^n
  <2>1. f \in [A -> B]
    OBVIOUS
  <2>2. \A S, T \in A : f[S] = f[T] => S = T
    BY <1>3
  <2>3. \A U \in B : \E S \in A : f[S] = U
    OBVIOUS
  <2>4. f \in Bijection(A, B)
    BY <2>1, <2>2, <2>3, Fun_IsBij
  <2>5. ExistsBijection(A, B)
    BY <2>4, Fun_ExistsBij
  <2> QED
    BY <1>2, <2>5, FS_Bijection
<1>5. A \cap B = {}
  BY <1>3
<1>6. SUBSET (1..(n + 1)) = A \cup B
  <2>1. ASSUME NEW T \in SUBSET (1..(n + 1)) PROVE T \in A \cup B
    <3>1. CASE n + 1 \in T
      <4>1. T \ {n + 1} \in A /\ T = (T \ {n + 1}) \cup {n + 1}
        BY <1>3, <3>1
      <4> QED
        BY <4>1
    <3>2. CASE n + 1 \notin T
      BY <1>3, <3>2
    <3> QED
      BY <3>1, <3>2
  <2>2. A \cup B \subseteq SUBSET (1..(n + 1))
    BY <1>3
  <2> QED
    BY <2>1, <2>2
<1> HIDE DEF A, B
<1>7. Cardinality(A \cup B) = Cardinality(A) + Cardinality(B) - Cardinality(A \cap B)
  BY <1>2, <1>4, FS_Union
<1>8. Cardinality(A \cap B) = 0
  BY <1>5, FS_EmptySet
<1>9. Cardinality(A \cup B) = 2^(n + 1)
  BY <1>2, <1>6
<1> DEFINE c == 2^n
<1>10. c \in Nat
  BY PowerPositive
<1>11. 2^(n + 1) = c + c - 0
  BY <1>2, <1>4, <1>7, <1>8, <1>9
<1> HIDE DEF c
<1>12. c + c - 0 = 2 * c
  BY <1>10
<1> QED
  BY <1>11, <1>12 DEF c

\* A product that wraps is at most the largest number of the word, and one that
\* fits does not wrap.
LEMMA WrapInt ==
  ASSUME NEW x \in Int
  PROVE  /\ 2^(Word - 1) \in Nat \ {0}
         /\ Wrap(x) \in Int /\ Wrap(x) <= 2^(Word - 1) - 1
         /\ -(2^(Word - 1)) <= x /\ x < 2^(Word - 1) => Wrap(x) = x
<1>1. Word \in Nat /\ Word - 1 \in Nat /\ (Word - 1) + 1 = Word
  BY AttemptAssumption
<1>2. /\ 2^Word \in Nat /\ 2^(Word - 1) \in Nat /\ 2^(Word - 1) > 0
      /\ 2^Word = 2 * 2^(Word - 1)
  BY <1>1, PowerPositive, PowerDoubles
<1> DEFINE M == 2^Word
           H == 2^(Word - 1)
           v == x % M
<1>3. M \in Nat /\ M > 0 /\ H \in Nat /\ H > 0 /\ M = 2 * H
  BY <1>2
<1>4. Wrap(x) = IF v >= H THEN v - M ELSE v
  BY DEF Wrap
<1> HIDE DEF M, H
<1>5. v \in 0..(M - 1)
  BY <1>3
<1>6. 0 <= x /\ x < H => v = x
  BY <1>3
<1>7. -H <= x /\ x < 0 => v = x + M
  BY <1>3
<1> HIDE DEF v
<1>8. Wrap(x) \in Int /\ Wrap(x) <= H - 1 /\ (-H <= x /\ x < H => Wrap(x) = x)
  BY <1>3, <1>4, <1>5, <1>6, <1>7
<1> QED
  BY <1>3, <1>8 DEF H

-----------------------------------------------------------------------------
(* What next() may want.                                                   *)

\* The settings of a run, in numbers.
LEMMA SettingsType ==
  ASSUME task \in Task
  PROVE  /\ task.retries \in Int /\ task.mode \in RetryMode
         /\ interval \in Int /\ timeout \in Nat
         /\ Park \in Nat /\ maxBackoff <= Park
         /\ task.mode = "fixed" => interval <= Park
         /\ Fits => task.retryInterval * Millisecond = interval
<1> DEFINE x == task.retryInterval * Millisecond
           y == task.timeoutMs * Millisecond
           H == 2^(Word - 1)
<1>1. /\ task.retries \in Int /\ task.retryInterval \in Int /\ task.mode \in RetryMode
      /\ task.timeoutMs \in Timeouts /\ task.timeoutMs \in Nat /\ Millisecond \in Nat
      /\ defaultTimeout \in Nat /\ maxBackoff \in Nat /\ maxBackoff < H /\ y < H
  BY AttemptAssumption DEF Task
<1>2. x \in Int /\ y \in Nat
  BY <1>1
<1>3. H \in Nat \ {0} /\ interval \in Int /\ interval <= H - 1
  BY <1>2, WrapInt DEF interval
<1>4. Fits => x = interval
  BY <1>2, WrapInt DEF Fits, interval
<1>5. timeout \in Nat
  <2>1. -H <= y
    BY <1>2, <1>3
  <2>2. Wrap(y) = y
    BY <1>1, <1>2, <2>1, WrapInt
  <2>3. timeout \in {y, defaultTimeout}
    BY <2>2 DEF timeout
  <2> QED
    BY <1>1, <1>2, <2>3
<1>6. Park = IF task.mode = "exponential" THEN maxBackoff
             ELSE IF Fits THEN Max2(x, maxBackoff) ELSE H - 1
  BY <1>1 DEF Park, RetryMode
<1> HIDE DEF x, y, H
<1>7. /\ Park \in Nat /\ maxBackoff <= Park
      /\ task.mode = "fixed" => interval <= Park
  BY <1>1, <1>2, <1>3, <1>4, <1>6 DEF Max2
<1> QED
  BY <1>1, <1>3, <1>4, <1>5, <1>7 DEF x

\* However far the shift overflows, the ceiling of the jitter is within the cap.
LEMMA BackoffBounded ==
  ASSUME task \in Task, NEW n \in Nat
  PROVE  backoff(n) \in 0..maxBackoff
<1> DEFINE b == Shift(interval, n)
<1>1. interval * 2^n \in Int
  BY SettingsType, PowerPositive
<1>2. b \in Int
  BY <1>1, WrapInt DEF Shift
<1>3. backoff(n) = IF b <= 0 \/ b > maxBackoff THEN maxBackoff ELSE b
  BY DEF backoff
<1> HIDE DEF b
<1> QED
  BY <1>2, <1>3, AttemptAssumption

\* The hint is at least what the receiver asked for and at most the cap.
LEMMA HintBounded ==
  ASSUME NEW res \in Response
  PROVE  /\ serverHint(retryAfterHint(res)) \in 0..maxBackoff
         /\ Asked(res) \in 0..serverHint(retryAfterHint(res))
<1> DEFINE r == retryAfterHint(res)
           x == res.secs * Second
           H == 2^(Word - 1)
<1>0. /\ maxBackoff \in Nat /\ maxBackoff < H /\ Second \in Nat /\ Second > 0 /\ None \notin Int
      /\ res.secs \in Int \cup {None} /\ res.date \in Int \cup {None}
      /\ res.secs = None \/ res.date = None
  BY AttemptAssumption
<1>1. H \in Nat
  <2>1. Word - 1 \in Nat
    BY AttemptAssumption
  <2> QED
    BY <2>1, PowerPositive
<1> HIDE DEF H
<1>2. CASE res.status \notin {429, 503}
  BY <1>0, <1>2 DEF retryAfterHint, serverHint, Asked
<1>3. CASE res.status \in {429, 503} /\ res.secs # None
  <2>1. res.secs \in Int /\ res.date = None /\ x \in Int
    BY <1>0, <1>3
  <2>2. /\ res.secs <= 0 => x <= 0
        /\ res.secs > 0 => x > 0
    BY <1>0, <2>1
  <2>3. r = IF res.secs <= 0 THEN 0 ELSE Wrap(x)
    BY <1>3 DEF retryAfterHint
  <2>4. Wrap(x) \in Int /\ (-H <= x /\ x < H => Wrap(x) = x)
    BY <2>1, WrapInt DEF H
  <2>5. Asked(res) = IF x < H THEN Max2(0, Min2(Max2(x, 0), maxBackoff)) ELSE 0
    BY <1>3, <2>1 DEF Asked, H
  <2> HIDE DEF x, r
  <2>6. r \in Int
    BY <2>1, <2>3, <2>4
  <2>7. CASE x >= H
    BY <1>0, <1>1, <2>1, <2>5, <2>6, <2>7 DEF serverHint, Max2, Min2, r
  <2>8. CASE x < H
    <3>1. r = Max2(x, 0)
      BY <1>1, <2>1, <2>2, <2>3, <2>4, <2>8 DEF Max2
    <3> QED
      BY <1>0, <2>1, <2>5, <2>8, <3>1 DEF serverHint, Max2, Min2, r
  <2> QED
    BY <1>1, <2>1, <2>7, <2>8
<1>4. CASE res.status \in {429, 503} /\ res.secs = None
  <2> DEFINE w == IF res.date # None THEN res.date ELSE 0
  <2>0. w \in Int
    BY <1>0
  <2>1. r = Max2(w, 0)
    BY <1>4 DEF retryAfterHint, Max2
  <2>2. Asked(res) \in {0, Max2(0, Min2(Max2(0, w), maxBackoff))}
    BY <1>4 DEF Asked, H
  <2> HIDE DEF w, r
  <2> QED
    BY <1>0, <2>0, <2>1, <2>2 DEF serverHint, Max2, Min2, r
<1> QED
  BY <1>2, <1>3, <1>4

\* A delay is no shorter than the hint and than a fixed interval, and no longer
\* than a slot may be parked; and choosing it does not panic.
LEMMA DelayBounded ==
  ASSUME task \in Task, count \in Nat,
         NEW hint \in 0..maxBackoff, NEW d \in delay(hint)
  PROVE  /\ d \in Int /\ hint <= d /\ d <= Park
         /\ task.mode = "fixed" => interval <= d
         /\ ~panics
<1>1. backoff(count) \in 0..maxBackoff /\ maxBackoff \in Nat
  BY BackoffBounded, AttemptAssumption
<1>2. ~panics
  BY <1>1 DEF panics
<1>3. CASE task.mode = "exponential"
  <2>1. PICK j \in 0..Max2(backoff(count), 0) : d = Max2(j, hint)
    BY <1>3 DEF delay, Base
  <2> QED
    BY <1>1, <1>2, <1>3, <2>1, SettingsType DEF Max2
<1>4. CASE task.mode = "fixed"
  <2>1. d = Max2(interval, hint)
    BY <1>4 DEF delay, Base
  <2> QED
    BY <1>1, <1>2, <1>4, <2>1, SettingsType DEF Max2
<1> QED
  BY <1>3, <1>4, SettingsType DEF RetryMode

-----------------------------------------------------------------------------
(* The invariant.                                                          *)

\* next() remembers the start of the request it let go, and none before the
\* first retry: this is why the first retry does not wait and later waits
\* overlap with the request.
LastStart ==
  /\ lastTime = None <=> count = 0
  /\ lastTime # None => lastTime = start

\* A request starts at most one timeout or one wait per retry after the first.
Elapsed == start <= count * Max2(timeout, Park)

\* The slot is returned when the run ends.
Released == released # None => status # "sending"

IInv ==
  /\ TypeOK /\ LastStart /\ Elapsed /\ Released
  /\ Exhausted /\ SleepBounded /\ SlotHeld /\ StartsSpaced

\* What a retry does to the times, in numbers.
LEMMA RetryTimes ==
  ASSUME IInv, NEW res \in Response, NEW duration \in 0..timeout, Retry(duration, res)
  PROVE  /\ count' = count + 1 /\ task' = task /\ status' = status /\ released' = released
         /\ lastTime' = start'
         /\ start' \in Nat /\ slept' \in 0..Park /\ asked' \in Nat
         /\ gap' = start' - start /\ gap' >= duration
         /\ start' <= start + Max2(timeout, Park)
         /\ count >= 1 => /\ gap' >= asked'
                          /\ task.mode = "fixed" => gap' >= interval
<1> DEFINE hint == serverHint(retryAfterHint(res))
<1>1. hint \in 0..maxBackoff /\ asked' \in 0..hint
  BY HintBounded DEF Retry
<1> HIDE DEF hint
<1>2. PICK d \in delay(hint) : slept' = sleep(start + duration, d)
  BY DEF Retry, hint
<1>3. /\ d \in Int /\ hint <= d /\ d <= Park
      /\ task.mode = "fixed" => interval <= d
      /\ ~panics
  BY <1>1, DelayBounded DEF IInv, TypeOK
<1>4. /\ task \in Task /\ count \in Nat /\ start \in Nat
      /\ timeout \in Nat /\ Park \in Nat /\ duration \in Nat /\ duration <= timeout
      /\ maxBackoff \in Nat /\ interval \in Int
  BY SettingsType, AttemptAssumption DEF IInv, TypeOK
<1>5. /\ count' = count + 1 /\ task' = task /\ status' = status /\ released' = released
      /\ start' = start + duration + slept'
      /\ gap' = start' - start /\ lastTime' = start'
  BY <1>3 DEF Retry
<1>6. /\ lastTime = None => count = 0
      /\ lastTime # None => lastTime = start
  BY DEF IInv, LastStart
<1>7. CASE lastTime = None
  <2>1. slept' = 0 /\ count = 0
    BY <1>2, <1>6, <1>7 DEF sleep
  <2> QED
    BY <1>1, <1>4, <1>5, <2>1 DEF Max2
<1>8. CASE lastTime # None
  <2>1. slept' = Max2(0, d - ((start + duration) - start))
    BY <1>2, <1>6, <1>8 DEF sleep
  <2> QED
    BY <1>1, <1>3, <1>4, <1>5, <2>1 DEF Max2
<1> QED
  BY <1>7, <1>8

\* The invariant holds of a new attempt.
LEMMA IInvInit == Init => IInv
<1> SUFFICES ASSUME Init PROVE IInv
  OBVIOUS
<1>1. task \in Task /\ count = 0 /\ start = 0 /\ slept = 0 /\ lastTime = None /\ released = None
  BY DEF Init
<1>2. TypeOK /\ LastStart /\ Released
  BY AttemptAssumption DEF Init, TypeOK, LastStart, Released
<1>3. Exhausted
  BY <1>1, SettingsType DEF Init, Exhausted, Max2
<1>4. SleepBounded
  BY <1>1, SettingsType DEF SleepBounded
<1>5. Elapsed
  BY <1>1, SettingsType DEF Elapsed, Max2
<1>6. SlotHeld /\ StartsSpaced
  BY <1>1 DEF SlotHeld, StartsSpaced
<1> QED
  BY <1>2, <1>3, <1>4, <1>5, <1>6 DEF IInv

\* A retry keeps it.
LEMMA RetryKeeps ==
  ASSUME IInv, NEW res \in Response, NEW duration \in 0..timeout, Retry(duration, res)
  PROVE  IInv'
<1>1. /\ task \in Task /\ count \in Nat /\ start \in Nat /\ duration \in Nat
      /\ timeout \in Nat /\ Park \in Nat /\ task.retries \in Int
  BY SettingsType DEF IInv, TypeOK
<1>2. /\ task' = task /\ count' = count + 1 /\ timeout' = timeout /\ Park' = Park
      /\ Fits' = Fits /\ lastTime' = start' /\ start' \in Nat /\ slept' \in 0..Park
  BY RetryTimes DEF timeout, Park, Fits
<1>3. count < task.retries /\ status' = "sending" /\ released' = released /\ released = None
  BY RetryTimes DEF Retry, shouldRetry, IInv, Released
<1>4. TypeOK' /\ Released'
  BY <1>1, <1>2, <1>3, RetryTimes DEF IInv, TypeOK, Released
<1>5. LastStart'
  BY <1>1, <1>2, AttemptAssumption DEF LastStart
<1>6. Exhausted'
  BY <1>1, <1>2, <1>3 DEF Exhausted, Max2
<1>7. SleepBounded'
  BY <1>1, <1>2 DEF SleepBounded
<1>8. Elapsed'
  <2> DEFINE m == Max2(timeout, Park)
  <2>1. m \in Nat /\ start <= count * m /\ start' <= start + m
    BY <1>1, RetryTimes DEF IInv, Elapsed, Max2
  <2>2. Elapsed' <=> start' <= (count + 1) * m
    BY <1>2 DEF Elapsed, Max2
  <2> HIDE DEF m
  <2>3. (count + 1) * m = count * m + m
    BY <1>1, <2>1
  <2> QED
    BY <1>1, <1>2, <2>1, <2>2, <2>3
<1>9. SlotHeld'
  BY <1>3 DEF SlotHeld
<1>10. StartsSpaced'
  <2>1. Fits => task.retryInterval * Millisecond = interval
    BY <1>1, SettingsType
  <2> QED
    BY <1>1, <1>2, <2>1, RetryTimes DEF StartsSpaced
<1> QED
  BY <1>4, <1>5, <1>6, <1>7, <1>8, <1>9, <1>10 DEF IInv

\* So does the end of a run, at which the slot is returned.
LEMMA EndKeeps ==
  ASSUME IInv, NEW res \in Response, NEW duration \in 0..timeout,
         \/ Succeed(duration, res)
         \/ \E callback \in 0..defaultTimeout : GiveUp(duration, res, callback)
  PROVE  IInv'
<1>1. /\ task \in Task /\ count \in Nat /\ start \in Nat /\ duration \in Nat /\ duration <= timeout
      /\ timeout \in Nat /\ Park \in Nat /\ task.retries \in Int /\ defaultTimeout \in Nat
  BY SettingsType, AttemptAssumption DEF IInv, TypeOK
<1>2. PICK callback \in 0..defaultTimeout :
        /\ UNCHANGED <<task, count, lastTime, start, asked, slept, gap>>
        /\ status' \in {"succeeded", "failed"}
        /\ status' = "failed" => ~(count < task.retries)
        /\ released' = start + duration + callback
        /\ status' # "failed" => callback = 0
  <2>1. CASE Succeed(duration, res)
    <3>1. 0 \in 0..defaultTimeout /\ start + duration = start + duration + 0
      BY <1>1
    <3> QED
      BY <2>1, <3>1 DEF Succeed
  <2>2. CASE \E callback \in 0..defaultTimeout : GiveUp(duration, res, callback)
    BY <2>2 DEF GiveUp, shouldRetry
  <2> QED
    BY <2>1, <2>2
<1>3. timeout' = timeout /\ Park' = Park /\ Fits' = Fits
  BY <1>2 DEF timeout, Park, Fits
<1>4. TypeOK' /\ LastStart' /\ Released'
  BY <1>1, <1>2 DEF IInv, TypeOK, LastStart, Released
<1>5. Exhausted' /\ count <= Max2(task.retries, 0)
  BY <1>1, <1>2 DEF IInv, Exhausted, Max2
<1>6. SleepBounded' /\ Elapsed' /\ StartsSpaced'
  BY <1>2, <1>3 DEF IInv, SleepBounded, Elapsed, StartsSpaced
<1>7. SlotHeld'
  <2> DEFINE m == Max2(timeout, Park)
             r == Max2(task.retries, 0)
  <2>1. m \in Nat /\ r \in Nat /\ r - count \in Nat /\ start <= count * m
    BY <1>1, <1>5 DEF IInv, Elapsed, Max2
  <2>2. SlotHeld' <=> (released' # None =>
                        released' <= r * m + timeout + (IF status' = "failed" THEN defaultTimeout ELSE 0))
    BY <1>2, <1>3 DEF SlotHeld, Max2
  <2> HIDE DEF m, r
  <2>3. (r - count) * m \in Nat
    BY <2>1
  <2>4. r * m = count * m + (r - count) * m
    BY <1>1, <2>1
  <2>5. start <= r * m
    <3>1. count * m \in Nat
      BY <1>1, <2>1
    <3> QED
      BY <1>1, <2>1, <2>3, <2>4, <3>1
  <2>6. r * m \in Nat
    BY <2>1
  <2> QED
    BY <1>1, <1>2, <2>2, <2>5, <2>6
<1> QED
  BY <1>4, <1>5, <1>6, <1>7 DEF IInv

\* The inductive invariant.
THEOREM Invariance == Spec => []IInv
<1>1. IInv /\ [Next]_vars => IInv'
  <2> SUFFICES ASSUME IInv, [Next]_vars PROVE IInv'
    OBVIOUS
  <2>1. CASE Next
    <3>1. PICK res \in Response, duration \in 0..timeout :
            \/ Succeed(duration, res) \/ Retry(duration, res)
            \/ \E callback \in 0..defaultTimeout : GiveUp(duration, res, callback)
      BY <2>1 DEF Next
    <3> QED
      BY <3>1, RetryKeeps, EndKeeps
  <2>2. CASE UNCHANGED vars
    BY <2>2 DEF vars, IInv, TypeOK, LastStart, Elapsed, Released, Exhausted, SleepBounded,
                SlotHeld, StartsSpaced, Park, Fits, timeout
  <2> QED
    BY <2>1, <2>2
<1> QED
  BY IInvInit, <1>1, PTL DEF Spec

\* The variables keep their types: no wait and no time is ever negative, and
\* rand.Int64N never panics.
THEOREM TypeCorrect == Spec => []TypeOK
BY Invariance, PTL DEF IInv

\* A run sends one request more than it has retries, and gives up only then.
THEOREM RetriesExhausted == Spec => []Exhausted
BY Invariance, PTL DEF IInv

\* next() never sleeps longer than the cap or the task's own fixed interval; a
\* fixed interval that overflows is bounded by the largest time.Duration only.
THEOREM SleepsAreBounded == Spec => []SleepBounded
BY Invariance, PTL DEF IInv

\* A run keeps its slot for at most one timeout or one wait per retry, the last
\* request and the failure callback.
THEOREM SlotsAreReturned == Spec => []SlotHeld
BY Invariance, PTL DEF IInv

\* From the second retry on, requests are as far apart as the receiver asked and
\* as a fixed retry_interval that does not overflow says.
THEOREM RetriesAreSpaced == Spec => []StartsSpaced
BY Invariance, PTL DEF IInv
=============================================================================
