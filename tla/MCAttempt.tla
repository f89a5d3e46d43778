----------------------------- MODULE MCAttempt -----------------------------
(***************************************************************************)
(* Instances of Attempt for TLC.  Durations are scaled down: five bits for *)
(* a time.Duration, so that a handful of retries overflows it, and so do a *)
(* retry_interval of nine milliseconds, which becomes negative, one of     *)
(* minus nine, which becomes the longest wait there is, and a Retry-After  *)
(* of four seconds or more.                                                *)
(***************************************************************************)
EXTENDS Attempt

AllRetries == -1..5
AllIntervals == {-9, -1, 0, 1, 3, 9}

Answer(code, secs, date) == [status |-> code, secs |-> secs, date |-> date]

\* Success, a transport error, errors that carry a Retry-After in either form
\* or none, too large or in the past, and one that does not count.
MCResponse ==
  {Answer(204, None, None), Answer(0, None, None), Answer(500, 1, None)}
    \cup {Answer(429, secs, None) : secs \in {-1, 1, 2, 4, 9}}
    \cup {Answer(503, None, date) : date \in {-1, 2, 7}}
=============================================================================
