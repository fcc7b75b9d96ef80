------------------------------ MODULE MCReport ------------------------------
(***************************************************************************)
(* Reports on up to three accounts with two keys each, for overrides that   *)
(* are absent, out of order, or repeat a contract or a slot.               *)
(***************************************************************************)
EXTENDS Report

Entry(k, v) == [key |-> k, value |-> v]

Kept(v) == [before |-> v, after |-> v]
Flipped(v) == [before |-> v, after |-> 1 - v]

\* No record, one that changes nothing, one of two changes, one of both kinds.
Storages == {<<>>, 1 :> Kept(1), (1 :> Flipped(1)) @@ (2 :> Flipped(0)),
             (1 :> Kept(0)) @@ (2 :> Flipped(1))}

MCDiffs == UNION {[seen -> Storages] : seen \in SUBSET Address}

MCOverrideLists == {
    <<>>,
    <<[address |-> 2, storage |-> <<Entry(2, 0), Entry(1, 1)>>],
      [address |-> 1, storage |-> <<Entry(1, 0), Entry(1, 1)>>],
      [address |-> 2, storage |-> <<Entry(1, 0)>>]>>}
=============================================================================
