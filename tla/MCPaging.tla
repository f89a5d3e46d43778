------------------------------ MODULE MCPaging ------------------------------
(***************************************************************************)
(* Instances of Paging for TLC.                                            *)
(***************************************************************************)
EXTENDS Paging

ThreeIds == 1..3

All == [url |-> None, status |-> None, before |-> None, after |-> None]

\* Everything; one partition; one partition with a window.
MCFilter == {All, [All EXCEPT !.status = "pending"],
             [All EXCEPT !.status = "failed", !.after = 0]}

MCLimits == {0, 2}

\* Two kinds of rows, at any time.
Rows == {t \in Task : t.status \in {"pending", "failed"} /\ t.idem = None}

NoRequest == {}

\* A task with a key and one without, in either order, waiting or failed.
Waiting == {t \in Task : /\ t.status = "pending" \/ (t.status = "failed" /\ t.executeAt = 0)
                         /\ t.idem = IF t.id = 1 THEN "k" ELSE None
                         /\ t.id \in {1, 2}}

At(at, key) == [url |-> "u", key |-> key, execute_at |-> at, execute_in |-> None]
In(d, key) == [url |-> "u", key |-> key, execute_at |-> None, execute_in |-> d]

\* Two requests that pass, and two that do not.
MCRequest == {At(2, "k"), In(1, None), In(0, None), [At(2, "k") EXCEPT !.execute_in = 1]}

NoFilter == {}
=============================================================================
