--------------------------- MODULE MCBadgerStore ---------------------------
(***************************************************************************)
(* Instances of BadgerStore for TLC.                                       *)
(***************************************************************************)
EXTENDS BadgerStore, TLC

OneId == {1}
TwoIds == 1..2

AnyTask == [url |-> None, status |-> None, before |-> None, after |-> None]

MCFilter == {[AnyTask EXCEPT !.status = "pending"], [AnyTask EXCEPT !.after = 0]}

Symmetry == Permutations(Txn) \cup Permutations(Url)
=============================================================================
