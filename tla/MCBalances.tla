----------------------------- MODULE MCBalances -----------------------------
(***************************************************************************)
(* Three accounts, one of them empty, sharing less than Modulus, as all    *)
(* the ether there is stays below 2^256.  The two that are not empty are   *)
(* interchangeable.                                                        *)
(***************************************************************************)
EXTENDS Balances, TLC

CONSTANTS a1, a2, a3

MCChain == [a \in Addr |-> IF a = a3 THEN 0 ELSE 1]

Symmetry == Permutations({a1, a2})
=============================================================================
