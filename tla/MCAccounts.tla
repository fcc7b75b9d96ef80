----------------------------- MODULE MCAccounts -----------------------------
(***************************************************************************)
(* Accounts with a factory that has not created yet and two addresses that  *)
(* are free, which can create in their turn once they exist.               *)
(***************************************************************************)
EXTENDS Accounts, TLC

CONSTANTS factory, a1, a2

MCChainNonce == [a \in Addr |-> IF a = factory THEN 1 ELSE 0]

\* The free addresses are interchangeable.
FreeAddresses == Permutations({a1, a2})
=============================================================================
