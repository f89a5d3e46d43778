----------------------------- MODULE MCDelivery -----------------------------
(***************************************************************************)
(* Instances of Delivery for TLC.  Contents are the strings below; which   *)
(* of them a run uses is the Content of its cfg.                           *)
(***************************************************************************)
EXTENDS Delivery, TLC

\* once: no retries; retry: one; every2: recurs every two time units.
OneShot == {"once", "retry"}
OnlyOnce == {"once"}
Retried == {"retry"}
Recurring == {"every2"}

MCRetries == [c \in Content |-> IF c = "retry" THEN 1 ELSE 0]
MCSchedule == [c \in Content |-> IF c = "every2" THEN 2 ELSE 0]

AnyTask == [content |-> None, status |-> None, before |-> None, after |-> None]

\* DELETE /tasks needs at least one filter.
MCFilter == {[AnyTask EXCEPT !.content = "once"],
             [AnyTask EXCEPT !.status = "running"],
             [AnyTask EXCEPT !.before = 2],
             [AnyTask EXCEPT !.after = 1]}
NoFilter == {}

Symmetry == Permutations(Id) \cup Permutations(Worker) \cup Permutations(Client)
=============================================================================
