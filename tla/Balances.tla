------------------------------ MODULE Balances ------------------------------
(***************************************************************************)
(* The balance half of CachingStateDB (internal/state/caching.go), with    *)
(* its pointers.  The cache, the records and the EVM share *uint256.Int    *)
(* cells: GetBalance hands out the cell the cache holds, SubBalance and    *)
(* AddBalance write through the cell of BalanceAfter and put that same     *)
(* cell in the cache.  So a pointer obtained before a write may read       *)
(* another amount after it.                                                *)
(*                                                                         *)
(* The EVM's side is external.  It is cut down to the operations that      *)
(* reach balances, each a short list of calls: a transfer checks, then     *)
(* subtracts, then adds; SELFDESTRUCT (EIP-6780) fetches a pointer,        *)
(* subtracts through it, then adds through it.  What is still to be called *)
(* is kept in "sub" and "add".  "ledger" is what the accounts would hold   *)
(* if every subtraction and addition moved the amount the EVM meant and a  *)
(* frame that reverts gave it back, as "journal" remembers; a transfer the *)
(* ledger does not cover would have been refused and does not move it.     *)
(*                                                                         *)
(* The balances SubBalance and AddBalance return are left out: the         *)
(* EVM's instructions do not use them.                                     *)
(***************************************************************************)
EXTENDS Integers, Sequences, FiniteSets

CONSTANTS
    Addr,       \* accounts
    Modulus,    \* 2^256 in the code
    Chain,      \* Chain[a]: balance of a at block db.blockNum
    Values,     \* amounts an EVM call may send
    MaxDepth,   \* bound on inner call frames (1024 in the EVM)
    Nil         \* a nil pointer, a cache miss, or no pending call

Amount == 0 .. Modulus - 1

\* The cells an account can be given: the node's answer, BalanceAfter, the zero
\* made for a failed request, and the EVM's copy of a call's value.  One of each
\* kind is enough: a request that succeeded is not repeated, BalanceAfter is
\* allocated once, zeros are never written to, and one call is made at a time.
Cell == [kind : {"fetched", "after", "zero", "value"}, addr : Addr]

Call == [addr : Addr, amount : Cell, due : Amount]

ASSUME BalanceAssumption ==
    /\ Modulus \in Nat \ {0}
    /\ Chain \in [Addr -> Amount]
    /\ Values \subseteq Amount
    /\ MaxDepth \in Nat
    /\ Nil \notin Cell
    /\ Nil \notin Call

\* The units of ether, one by one, when f tells how many each account has.
Units(f) == {u \in Addr \X (1 .. Modulus - 1) : u[2] <= f[u[1]]}
Total(f) == Cardinality(Units(f))

\* Addresses have 160 bits, and all the ether there is fits in one balance.
ASSUME EtherAssumption == IsFiniteSet(Addr) /\ Total(Chain) < Modulus

VARIABLES
    heap,       \* heap[c]: the amount in cell c
    cache,      \* db.cache, balance entries: a cell or Nil
    before,     \* db.diffs[a].BalanceBefore: a cell or nil
    after,      \* db.diffs[a].BalanceAfter: a cell or nil
    sub,        \* the call of SubBalance the EVM makes next, or Nil
    add,        \* the call of AddBalance the EVM makes after it, or Nil
    ledger,     \* the balances the EVM's calls should lead to
    journal,    \* the ledger as it was when each inner frame was entered
    failed,     \* accounts first written after a failed request
    heirs,      \* accounts that were named by a SELFDESTRUCT
    undone      \* accounts a revert should have restored, or paid with such a balance

dbVars == <<heap, cache, before, after>>
ledgerVars == <<ledger, journal, failed, heirs, undone>>
balanceVars == <<dbVars, sub, add, ledgerVars>>

At(kind, a) == [kind |-> kind, addr |-> a]
None == [a \in Addr |-> Nil]
Idle == sub = Nil /\ add = Nil

Init ==
    /\ heap = [c \in Cell |-> IF c.kind = "fetched" THEN Chain[c.addr] ELSE 0]
    /\ cache = None
    /\ before = None
    /\ after = None
    /\ sub = Nil
    /\ add = Nil
    /\ ledger = Chain
    /\ journal = <<>>
    /\ failed = {}
    /\ heirs = {}
    /\ undone = {}

-----------------------------------------------------------------------------
\* GetBalance.  ok tells whether the BalanceAt request, if one is made, succeeds.

GetBalance(a, ok) ==
    IF cache[a] # Nil THEN cache[a] ELSE At(IF ok THEN "fetched" ELSE "zero", a)

\* Faulty variant: the answer is not kept.
ForgetsAnswer(a, ok) == cache

\* Only a successful answer is stored.
GetBalanceCache(a, ok) ==
    [cache EXCEPT ![a] = IF @ = Nil /\ ok THEN At("fetched", a) ELSE @]

\* Faulty variant: the new balance is written into the cell it was read from.
WritesInPlace(a, ok, amount) ==
    LET current == GetBalance(a, ok)
    IN  /\ heap' = [heap EXCEPT ![current] = amount]
        /\ before' = [before EXCEPT ![a] = IF @ = Nil THEN current ELSE @]
        /\ after' = [after EXCEPT ![a] = current]
        /\ cache' = [cache EXCEPT ![a] = current]

\* Faulty variant: the cache keeps the entry it had.
ForgetsCache(a, ok, amount) ==
    LET current == GetBalance(a, ok)
    IN  /\ heap' = [heap EXCEPT ![At("after", a)] = amount]
        /\ before' = [before EXCEPT ![a] = IF @ = Nil THEN current ELSE @]
        /\ after' = [after EXCEPT ![a] = At("after", a)]
        /\ cache' = GetBalanceCache(a, ok)

\* What SubBalance and AddBalance share: the first of them keeps the pointer it
\* was given as BalanceBefore and allocates BalanceAfter, every one writes through
\* BalanceAfter and caches that pointer.
Record(a, ok, amount) ==
    LET current == GetBalance(a, ok)
    IN  /\ heap' = [heap EXCEPT ![At("after", a)] = amount]
        /\ before' = [before EXCEPT ![a] = IF @ = Nil THEN current ELSE @]
        /\ after' = [after EXCEPT ![a] = At("after", a)]
        /\ cache' = [cache EXCEPT ![a] = At("after", a)]

\* An account first written while its balance could not be fetched.
NoteFailure(a, ok) ==
    failed' = failed \cup {b \in {a} : cache[b] = Nil /\ ~ok}

\* Faulty variant: the first recorded balance is subtracted from, not the current.
SubtractsFromBefore(ok) ==
    /\ sub # Nil
    /\ LET a     == sub.addr
           found == IF before[a] = Nil THEN GetBalance(a, ok) ELSE before[a]
       IN  /\ Record(a, ok, (heap[found] - heap[sub.amount]) % Modulus)
           /\ ledger' = [ledger EXCEPT ![a] = (@ - sub.due) % Modulus]
           /\ NoteFailure(a, ok)
    /\ sub' = Nil
    /\ UNCHANGED <<add, journal, heirs, undone>>

\* Faulty variant: the operands are swapped, in integers that do not wrap.
SubtractsSwapped(ok) ==
    /\ sub # Nil
    /\ LET a == sub.addr
       IN  /\ Record(a, ok, heap[sub.amount] - heap[GetBalance(a, ok)])
           /\ ledger' = [ledger EXCEPT ![a] = (@ - sub.due) % Modulus]
           /\ NoteFailure(a, ok)
    /\ sub' = Nil
    /\ UNCHANGED <<add, journal, heirs, undone>>

SubBalance(ok) ==
    /\ sub # Nil
    /\ LET a == sub.addr
       IN  /\ Record(a, ok, (heap[GetBalance(a, ok)] - heap[sub.amount]) % Modulus)
           /\ ledger' = [ledger EXCEPT ![a] = (@ - sub.due) % Modulus]
           /\ NoteFailure(a, ok)
    /\ sub' = Nil
    /\ UNCHANGED <<add, journal, heirs, undone>>

AddBalance(ok) ==
    /\ sub = Nil
    /\ add # Nil
    /\ LET a == add.addr
       IN  /\ Record(a, ok, (heap[GetBalance(a, ok)] + heap[add.amount]) % Modulus)
           /\ ledger' = [ledger EXCEPT ![a] = (@ + add.due) % Modulus]
           /\ NoteFailure(a, ok)
    /\ add' = Nil
    /\ UNCHANGED <<sub, journal, heirs, undone>>

-----------------------------------------------------------------------------
\* The EVM's operations.

\* BALANCE and SELFBALANCE, and a transfer refused for lack of funds.
ReadBalance(a, ok) ==
    /\ Idle
    /\ cache' = GetBalanceCache(a, ok)
    /\ UNCHANGED <<heap, before, after, sub, add, ledgerVars>>

\* Every CALL transfers its value, zero included; only a value that is not zero
\* is checked against the caller's balance first.
Transfer(from, to, v, ok) ==
    /\ Idle
    /\ v # 0 => heap[GetBalance(from, ok)] >= v
    /\ cache' = IF v = 0 THEN cache ELSE GetBalanceCache(from, ok)
    /\ heap' = [heap EXCEPT ![At("value", from)] = v]
    /\ LET due == IF v <= ledger[from] THEN v ELSE 0
       IN  /\ sub' = [addr |-> from, amount |-> At("value", from), due |-> due]
           /\ add' = [addr |-> to, amount |-> At("value", from), due |-> due]
           /\ undone' = undone \cup IF due = v THEN {} ELSE {from, to}
    /\ UNCHANGED <<before, after, ledger, journal, failed, heirs>>

\* STATICCALL adds zero to the account it calls.
Touch(a) ==
    /\ Idle
    /\ add' = [addr |-> a, amount |-> At("zero", a), due |-> 0]
    /\ UNCHANGED <<dbVars, sub, ledgerVars>>

\* SELFDESTRUCT: the pointer GetBalance returns is the amount of both calls.  The
\* account runs code, so the call that entered it has added to its balance.
SelfDestruct6780(self, heir, ok) ==
    /\ Idle
    /\ after[self] # Nil
    /\ LET balance == GetBalance(self, ok)
       IN  /\ sub' = [addr |-> self, amount |-> balance, due |-> ledger[self]]
           /\ add' = [addr |-> heir, amount |-> balance, due |-> ledger[self]]
    /\ cache' = GetBalanceCache(self, ok)
    /\ heirs' = heirs \cup {heir}
    /\ UNCHANGED <<heap, before, after, ledger, journal, failed, undone>>

\* The EVM enters a frame, which takes a snapshot.
EnterCall ==
    /\ Idle
    /\ Len(journal) < MaxDepth
    /\ journal' = Append(journal, ledger)
    /\ UNCHANGED <<dbVars, sub, add, ledger, failed, heirs, undone>>

Leave == journal' = SubSeq(journal, 1, Len(journal) - 1)

ReturnCall ==
    /\ Idle
    /\ journal # <<>>
    /\ Leave
    /\ UNCHANGED <<dbVars, sub, add, ledger, failed, heirs, undone>>

\* Faulty variant: a revert drops the cache.
RevertDropsCache ==
    /\ Idle
    /\ journal # <<>>
    /\ LET saved == journal[Len(journal)]
       IN  /\ ledger' = saved
           /\ undone' = undone \cup {a \in Addr : ledger[a] # saved[a]}
    /\ Leave
    /\ cache' = None
    /\ UNCHANGED <<heap, before, after, sub, add, failed, heirs>>

\* A frame fails and its caller goes on.  RevertToSnapshot restores nothing.
RevertCall ==
    /\ Idle
    /\ journal # <<>>
    /\ LET saved == journal[Len(journal)]
       IN  /\ ledger' = saved
           /\ undone' = undone \cup {a \in Addr : ledger[a] # saved[a]}
    /\ Leave
    /\ UNCHANGED <<dbVars, sub, add, failed, heirs>>

Next ==
    \/ EnterCall
    \/ ReturnCall
    \/ RevertCall
    \/ \E a \in Addr : Touch(a)
    \/ \E ok \in BOOLEAN :
        \/ SubBalance(ok)
        \/ AddBalance(ok)
        \/ \E a \in Addr :
            \/ ReadBalance(a, ok)
            \/ \E b \in Addr :
                \/ SelfDestruct6780(a, b, ok)
                \/ \E v \in Values : Transfer(a, b, v, ok)

Spec == Init /\ [][Next]_balanceVars

-----------------------------------------------------------------------------

TypeOK ==
    /\ heap \in [Cell -> Amount]
    /\ cache \in [Addr -> Cell \cup {Nil}]
    /\ before \in [Addr -> Cell \cup {Nil}]
    /\ after \in [Addr -> Cell \cup {Nil}]
    /\ sub \in Call \cup {Nil}
    /\ add \in Call \cup {Nil}
    /\ ledger \in [Addr -> Amount]
    /\ journal \in Seq([Addr -> Amount])
    /\ failed \subseteq Addr
    /\ heirs \subseteq Addr
    /\ undone \subseteq Addr

\* The balance of an account as the simulation sees it.
View(a) == IF cache[a] = Nil THEN Chain[a] ELSE heap[cache[a]]

\* Sharing cells never reaches BalanceBefore: it reads what the chain holds, or
\* the zero of a failed request, after any number of writes (caching.go:225,242).
BeforeIntact ==
    \A a \in Addr : before[a] # Nil =>
        heap[before[a]] = IF a \in failed THEN 0 ELSE Chain[a]

\* The record and the cache agree on a written balance, whichever of the two
\* cells is read (caching.go:234,252).
AfterIsCurrent ==
    \A a \in Addr : after[a] # Nil => heap[after[a]] = View(a) /\ before[a] # Nil

\* No subtraction goes below zero, where uint256 would wrap: what SubBalance finds
\* covers what the EVM checked earlier, because the checked balance was cached and
\* a failed request cannot come between (caching.go:154,231).
NoOverdraft ==
    sub # Nil =>
        \A ok \in BOOLEAN : heap[sub.amount] <= heap[GetBalance(sub.addr, ok)]

\* Every account holds exactly what a journaled database would give it, but for the
\* heirs of a SELFDESTRUCT, those spoiled by a failed request, and those a revert
\* should have restored (caching.go:479): nested frames and shared cells do no more
\* harm than that.
BalancesExact ==
    \A a \in Addr \ (failed \cup heirs \cup undone) : View(a) = ledger[a]

\* Of these, only the reverts make an account richer than it should be.
NeverRicher == \A a \in Addr \ undone : View(a) <= ledger[a]

\* Together, these accounts never hold more ether than there was on the chain: the
\* separate calls of a transfer or a SELFDESTRUCT make none (caching.go:221,238).
NothingMinted ==
    Total([a \in Addr |-> IF a \in undone THEN 0 ELSE View(a)]) <= Total(Chain)

-----------------------------------------------------------------------------
(***************************************************************************)
(* The inductive invariant behind these properties.  Which cells the       *)
(* pointers may share is what keeps BalanceBefore out of reach of the      *)
(* writes; what a pending call's amount may be is what keeps a transfer    *)
(* covered between its check and its subtraction.                          *)
(***************************************************************************)

Pointers ==
    \A a \in Addr :
        /\ cache[a] \in IF after[a] = Nil THEN {Nil, At("fetched", a)} ELSE {At("after", a)}
        /\ after[a] \in {Nil, At("after", a)}
        /\ before[a] = Nil <=> after[a] = Nil
        /\ before[a] # Nil =>
               before[a] = At(IF a \in failed THEN "zero" ELSE "fetched", a)
        /\ a \in failed => before[a] # Nil

Cells ==
    \A a \in Addr : heap[At("fetched", a)] = Chain[a] /\ heap[At("zero", a)] = 0

\* A subtraction takes a value that was checked, or all there is.
SubCovered ==
    sub # Nil =>
        \/ /\ sub.amount.kind = "value"
           /\ heap[sub.amount] = sub.due \/ sub.addr \in undone
           /\ heap[sub.amount] # 0 =>
                  cache[sub.addr] # Nil /\ heap[sub.amount] <= heap[cache[sub.addr]]
        \/ /\ after[sub.addr] # Nil
           /\ sub.amount = cache[sub.addr]
           /\ sub.due = ledger[sub.addr]

AddDue ==
    add # Nil =>
        \/ add.amount.kind \in {"value", "zero"} /\ heap[add.amount] = add.due
        \/ add.addr \in heirs \cup undone

BalanceInv ==
    /\ TypeOK
    /\ Pointers
    /\ Cells
    /\ SubCovered
    /\ AddDue
    /\ BalancesExact

\* What the ledger holds, with what is on its way, is no more than the chain held, at
\* present and in every state a revert may come back to.
NoEtherAppears ==
    /\ Total(ledger) + (IF sub = Nil /\ add # Nil THEN add.due ELSE 0) <= Total(Chain)
    /\ \A i \in 1 .. Len(journal) : Total(journal[i]) <= Total(Chain)

\* What is added was subtracted from an account that had it.
DueCovered ==
    sub # Nil => add # Nil /\ add.due = sub.due /\ sub.due <= ledger[sub.addr]

\* An addition brings no more than is due, once the subtraction has been through the
\* cell that a SELFDESTRUCT shares.
AddBounded ==
    add # Nil =>
        IF sub # Nil /\ add.amount.kind = "after"
        THEN add.amount = sub.amount /\ sub.amount = cache[sub.addr]
        ELSE heap[add.amount] <= add.due \/ add.addr \in undone

\* With it, that no account becomes richer is inductive too.
EtherInv ==
    /\ BalanceInv
    /\ NoEtherAppears
    /\ DueCovered
    /\ AddBounded
    /\ NeverRicher

-----------------------------------------------------------------------------
\* A statement the repository makes that the code does not keep.

\* "implements the EIP-6780 selfdestruct behavior" (caching.go:398), which sends
\* the whole balance to the heir: without failed requests and reverts, all accounts hold
\* what they should.
SelfDestructPays ==
    failed = {} /\ undone = {} => \A a \in Addr : View(a) = ledger[a]
=============================================================================
