---------------------------- MODULE OverlayStore ----------------------------
(***************************************************************************)
(* What the EVM may rely on when it reads and writes contract storage      *)
(* through the caching state database: one private copy of the chain's     *)
(* storage at one block, over which the simulation's writes are laid.      *)
(* There is no cache here and no diff: only the current content, the       *)
(* value each written slot had first, and whether a slot has been          *)
(* obtained.  An RPC error shows as a zero read of a slot that has not     *)
(* been obtained yet; after that a slot never fails again.                 *)
(***************************************************************************)
CONSTANTS
    Slot,       \* storage slots, each a contract address with a key
    Word,       \* the 32-byte values a slot can hold
    ZeroWord,   \* common.Hash{}
    Absent,     \* no value
    Chain       \* Chain[s]: content of slot s at the simulated block

VARIABLES
    open,       \* overrides are still being laid down, nothing has run yet
    current,    \* current[s]: content of slot s as the simulation sees it
    first,      \* first[s]: the value reported as "before", Absent if unwritten
    obtained,   \* the slots whose value no longer depends on the RPC
    ret         \* value returned by the last operation

overlayVars == <<open, current, first, obtained, ret>>

Init ==
    /\ open = TRUE
    /\ current = Chain
    /\ first = [s \in Slot |-> Absent]
    /\ obtained = {}
    /\ ret = ZeroWord

\* Storing v keeps the value found by the slot's first write.
Store(s, v, found) ==
    /\ current' = [current EXCEPT ![s] = v]
    /\ first' = [first EXCEPT ![s] = IF @ = Absent THEN found ELSE @]
    /\ obtained' = obtained \cup {s}
    /\ ret' = found

\* An override is its own "before".  The last one, or none, ends this phase.
Override(s, v) ==
    /\ open
    /\ Store(s, v, v)
    /\ open' \in BOOLEAN

Close ==
    /\ open
    /\ open' = FALSE
    /\ UNCHANGED <<current, first, obtained, ret>>

\* A read answers with the current content, which it then holds for good ...
ReadCurrent(s) ==
    /\ ~open
    /\ ret' = current[s]
    /\ obtained' = obtained \cup {s}
    /\ UNCHANGED <<open, current, first>>

\* ... or, for a slot not obtained yet, with the zero of a failed request.
ReadFails(s) ==
    /\ ~open
    /\ s \notin obtained
    /\ ret' = ZeroWord
    /\ UNCHANGED <<open, current, first, obtained>>

\* What a write finds in the slot it replaces is what a read would answer.
Write(s, v) ==
    /\ ~open
    /\ \/ Store(s, v, current[s])
       \/ s \notin obtained /\ Store(s, v, ZeroWord)
    /\ UNCHANGED open

Next ==
    \/ Close
    \/ \E s \in Slot :
        \/ ReadCurrent(s)
        \/ ReadFails(s)
        \/ \E v \in Word : Override(s, v) \/ Write(s, v)

Spec == Init /\ [][Next]_overlayVars
=============================================================================
