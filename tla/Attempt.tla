------------------------------ MODULE Attempt ------------------------------
(***************************************************************************)
(* The retry loop of one run (internal/runner/attempt.go and the loop in   *)
(* runner.go) over the executor (internal/executor/executor.go): how many  *)
(* requests it sends, what it makes of the answers and how long it waits   *)
(* between them.  It runs in one goroutine, which holds a delivery slot.   *)
(*                                                                         *)
(* A step is one failed or successful request together with what follows   *)
(* it up to the start of the next request, or up to the return of the slot *)
(* when it was the last one.  Time is counted from the start of the first  *)
(* request; the store's writes take none.                                  *)
(***************************************************************************)
EXTENDS Integers

CONSTANTS
  Retries,     \* the retries of the tasks explored (any int: not validated)
  Intervals,   \* their retry_interval in ms (any int: not validated)
  Timeouts,    \* their timeout_ms, 0 when unset (validated)
  Response,    \* the answers that are explored
  Millisecond, \* in units of the clock
  Second,      \* in units of the clock
  defaultTimeout,
  maxBackoff,  \* the cap on a backoff and on a Retry-After
  Word,        \* bits of a time.Duration
  None         \* the zero time.Time, an absent header, a slot not returned

ASSUME AttemptAssumption ==
  /\ Retries \subseteq Int /\ Intervals \subseteq Int /\ Timeouts \subseteq Nat
  /\ Millisecond \in Nat \ {0} /\ Second \in Nat \ {0} /\ defaultTimeout \in Nat \ {0}
  /\ Response \subseteq [status : Nat, secs : Int \cup {None}, date : Int \cup {None}]
  /\ \A res \in Response : res.secs = None \/ res.date = None
  /\ maxBackoff \in Nat \ {0} /\ Word \in Nat \ {0}
  /\ maxBackoff < 2^(Word - 1)
  /\ \A t \in Timeouts : t * Millisecond < 2^(Word - 1) \* MaxTimeoutMs
  /\ None \notin Int

RetryMode == {"fixed", "exponential"}

Task == [retries : Retries, retryInterval : Intervals, mode : RetryMode,
         timeoutMs : Timeouts]

VARIABLES
  task,      \* its settings, as re-read before the run
  count,     \* retries so far
  lastTime,  \* when next() last let a request go, None before that
  start,     \* when the current request started
  status,    \* of the run
  asked,     \* history: the wait the last Retry-After asked for, capped
  slept,     \* history: how long the goroutine slept before this request
  gap,       \* history: between the starts of the previous and this request
  released   \* history: when the slot was returned

vars == <<task, count, lastTime, start, status, asked, slept, gap, released>>

Max2(a, b) == IF a > b THEN a ELSE b
Min2(a, b) == IF a < b THEN a ELSE b

Init ==
  /\ task \in Task
  /\ count = 0
  /\ lastTime = None
  /\ start = 0
  /\ status = "sending"
  /\ asked = 0 /\ slept = 0 /\ gap = 0
  /\ released = None

\* Mutant: the last retry is lost.
shouldRetryOffByOne == count + 1 < task.retries

shouldRetry == count < task.retries

\* A product in two's complement.
Wrap(x) ==
  LET v == x % 2^Word IN IF v >= 2^(Word - 1) THEN v - 2^Word ELSE v

Shift(x, n) == Wrap(x * 2^n)

\* newAttempt: the base interval, which overflows when retry_interval is large.
interval == Wrap(task.retryInterval * Millisecond)

\* Mutant: no check for overflow.
backoffUnchecked(n) == Min2(Shift(interval, n), maxBackoff)

\* The ceiling of the jitter after n retries.
backoff(n) ==
  LET b == Shift(interval, n) IN
    IF b <= 0 \/ b > maxBackoff THEN maxBackoff ELSE b

\* The deadline of one request.
timeout ==
  IF task.timeoutMs > 0 THEN Wrap(task.timeoutMs * Millisecond) ELSE defaultTimeout

\* Result.Err is nil.  Status 0 is a transport error or the deadline.
Delivered(res) == res.status \in 200..299

\* secs: the header is a number; date: a date that many units from now.
retryAfterHint(res) ==
  CASE res.status \notin {429, 503} -> 0
    [] res.status \in {429, 503} /\ res.secs # None ->
         IF res.secs <= 0 THEN 0 ELSE Wrap(res.secs * Second)
    [] OTHER -> IF res.date # None THEN Max2(res.date, 0) ELSE 0

\* Mutant: the receiver may park the slot for as long as it likes.
serverHintUncapped(d) == Max2(d, 0)

serverHint(d) == IF d <= 0 THEN 0 ELSE Min2(d, maxBackoff)

\* rand.Int64N panics unless its argument is positive.
panics == task.mode = "exponential" /\ backoff(count) + 1 <= 0

\* The delays of the strategy alone.
Base == IF task.mode = "exponential" THEN 0..Max2(backoff(count), 0) ELSE {interval}

\* Mutant: the receiver's wish replaces the strategy's delay.
delayHintFirst(hint) == IF hint > 0 THEN {hint} ELSE Base

\* The delays next() may choose, given the hint.
delay(hint) == {Max2(d, hint) : d \in Base}

\* Mutant: the wait is counted from the answer, so that waits add up.
sleepFull(t, d) == IF lastTime = None THEN 0 ELSE Max2(0, d)

\* What next() sleeps when it is called at time t and wants a delay d.
sleep(t, d) == IF lastTime = None THEN 0 ELSE Max2(0, d - (t - lastTime))

\* What a receiver asks for in a way a time.Duration can express, capped.
Asked(res) ==
  LET secs == IF res.secs # None THEN res.secs * Second ELSE 0
      date == IF res.date # None THEN res.date ELSE 0 IN
    IF res.status \in {429, 503} /\ secs < 2^(Word - 1)
      THEN Max2(0, Min2(Max2(secs, date), maxBackoff)) ELSE 0

\* A failed request, next() and the start of the next one.
Retry(duration, res) ==
  /\ status = "sending"
  /\ ~Delivered(res)
  /\ shouldRetry
  /\ asked' = Asked(res)
  /\ \E d \in delay(serverHint(retryAfterHint(res))) : slept' = sleep(start + duration, d)
  /\ start' = start + duration + slept'
  /\ gap' = start' - start
  /\ lastTime' = start'
  /\ count' = count + 1
  /\ status' = IF panics THEN "panicked" ELSE status
  /\ UNCHANGED <<task, released>>

Succeed(duration, res) ==
  /\ status = "sending"
  /\ Delivered(res)
  /\ status' = "succeeded"
  /\ released' = start + duration
  /\ UNCHANGED <<task, count, lastTime, start, asked, slept, gap>>

\* The last failure and its callback, which is an Execute without a timeout_ms.
GiveUp(duration, res, callback) ==
  /\ status = "sending"
  /\ ~Delivered(res)
  /\ ~shouldRetry
  /\ status' = "failed"
  /\ released' = start + duration + callback
  /\ UNCHANGED <<task, count, lastTime, start, asked, slept, gap>>

Next ==
  \E res \in Response, duration \in 0..timeout :
    \/ Succeed(duration, res)
    \/ Retry(duration, res)
    \/ \E callback \in 0..defaultTimeout : GiveUp(duration, res, callback)

Spec == Init /\ [][Next]_vars

-----------------------------------------------------------------------------
(* Properties.                                                             *)

\* The type invariant; in particular next() never panics.
TypeOK ==
  /\ task \in Task
  /\ count \in Nat
  /\ lastTime \in Nat \cup {None}
  /\ start \in Nat /\ asked \in Nat /\ slept \in Nat /\ gap \in Nat
  /\ status \in {"sending", "succeeded", "failed"}
  /\ released \in Nat \cup {None}

\* A run fails only after all its retries, and never makes more of them.
Exhausted ==
  /\ count <= Max2(task.retries, 0)
  /\ status = "failed" => count = Max2(task.retries, 0)

\* The retry_interval is one a time.Duration can express.
Fits ==
  /\ -(2^(Word - 1)) <= task.retryInterval * Millisecond
  /\ task.retryInterval * Millisecond < 2^(Word - 1)

\* The longest wait that the settings allow.  A fixed interval that overflows
\* may become anything up to the largest time.Duration.
Park ==
  CASE task.mode = "exponential" -> maxBackoff
    [] task.mode = "fixed" /\ Fits -> Max2(task.retryInterval * Millisecond, maxBackoff)
    [] OTHER -> 2^(Word - 1) - 1

\* next() never parks the delivery slot for longer than the cap, or than the
\* task's own fixed interval, whatever the receiver asks for and however far
\* the exponential shift, or the interval of an exponential backoff, overflows.
SleepBounded == slept <= Park

\* How long a run keeps its slot (runner.go 181 to 288), from its first request
\* through its last one and the failure callback: waits count from the previous
\* request, so waits and timeouts overlap and do not add up.
SlotHeld ==
  released # None =>
    released <= Max2(task.retries, 0) * Max2(timeout, Park) + timeout
                  + (IF status = "failed" THEN defaultTimeout ELSE 0)

\* From the second retry on, requests start at least as far apart as the
\* receiver asked for and, in fixed mode, as a retry_interval that does not
\* overflow says.
StartsSpaced ==
  count >= 2 => /\ gap >= asked
                /\ task.mode = "fixed" /\ Fits => gap >= task.retryInterval * Millisecond
=============================================================================
