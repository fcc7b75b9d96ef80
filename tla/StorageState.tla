---------------------------- MODULE StorageState ----------------------------
(***************************************************************************)
(* The storage half of CachingStateDB (internal/state/caching.go): the     *)
(* read-through cache of contract storage, the before/after record kept    *)
(* for every written slot, and the overrides written before the            *)
(* simulation starts.                                                      *)
(*                                                                         *)
(* The code keeps balances, nonces, code and storage in one sync.Map under *)
(* hashed keys.  The keys of the four kinds are hashes of preimages of     *)
(* different lengths (or, for nonces, a zero-padded address), so storage   *)
(* is a function of its own here.  StorageDiff.Preimage is left out:       *)
(* nothing reads it, the report looks preimages up in the database.        *)
(***************************************************************************)
EXTENDS Naturals, Sequences

CONSTANTS
    Slot,           \* storage slots, each a contract address with a key
    Word,           \* the 32-byte values a slot can hold
    ZeroWord,       \* common.Hash{}
    Absent,         \* a miss of the cache, or a slot without a StorageDiff
    Chain,          \* Chain[s]: content of slot s at block db.blockNum
    OverrideLists   \* the override lists a caller may pass, flattened

OverrideEntry == [slot : Slot, value : Word]
StorageDiff == [before : Word, after : Word]

ASSUME StorageAssumption ==
    /\ ZeroWord \in Word
    /\ Absent \notin Word
    /\ Absent \notin StorageDiff
    /\ Chain \in [Slot -> Word]
    /\ OverrideLists \subseteq Seq(OverrideEntry)
    /\ <<>> \in OverrideLists

VARIABLES
    cache,      \* db.cache, storage entries: [Slot -> Word or Absent]
    diffs,      \* db.diffs, storage part: [Slot -> StorageDiff or Absent]
    overrides,  \* db.Overrides
    loaded,     \* SetOverrides has been called
    applied,    \* how many entries of overrides setState has received
    ret         \* value the last GetState or SetState returned

storageVars == <<cache, diffs, overrides, loaded, applied, ret>>

Init ==
    /\ cache = [s \in Slot |-> Absent]
    /\ diffs = [s \in Slot |-> Absent]
    /\ overrides = <<>>
    /\ loaded = FALSE
    /\ applied = 0
    /\ ret = ZeroWord

Hit(s) == cache[s] # Absent
Written(s) == diffs[s] # Absent

-----------------------------------------------------------------------------
(***************************************************************************)
(* Faulty variants of the definitions that follow, used only to show that  *)
(* the properties can fail.                                                *)
(***************************************************************************)

\* A failed request answers with whatever the missing cache entry holds.
AnswersMiss(s, ok) == IF ~Hit(s) /\ ok THEN Chain[s] ELSE cache[s]

\* A failed request is cached as if it had answered zero.
CachesErrors(s, ok) ==
    [cache EXCEPT ![s] = IF Hit(s) THEN @ ELSE IF ok THEN Chain[s] ELSE ZeroWord]

\* Every write takes a new "before".
RetakesBefore(s, v, valueBefore) ==
    [diffs EXCEPT ![s] = [before |-> valueBefore, after |-> v]]

\* The first value written stays in the record.
KeepsFirstAfter(s, v, valueBefore) ==
    [diffs EXCEPT ![s] = IF Written(s) THEN @ ELSE [before |-> valueBefore, after |-> v]]

\* A read goes to the node even when the slot is cached.
IgnoresCache(s, ok) == IF ok THEN Chain[s] ELSE ZeroWord

\* A revert drops every cached slot, written or not.
RevertDropsCache ==
    /\ cache' = [s \in Slot |-> Absent]
    /\ UNCHANGED <<diffs, overrides, loaded, applied, ret>>

-----------------------------------------------------------------------------
(***************************************************************************)
(* GetState.  ok tells whether the StorageAt request, if one is made,      *)
(* succeeds.                                                               *)
(***************************************************************************)

GetStateValue(s, ok) ==
    IF Hit(s) THEN cache[s] ELSE IF ok THEN Chain[s] ELSE ZeroWord

\* Only a successful answer is stored.
GetStateCache(s, ok) ==
    [cache EXCEPT ![s] = IF ~Hit(s) /\ ok THEN Chain[s] ELSE @]

\* The record of a slot: "before" is set by the first write and kept, "after"
\* is set by every write.
RecordWrite(s, v, valueBefore) ==
    [diffs EXCEPT ![s] =
        [before |-> IF Written(s) THEN @.before ELSE valueBefore, after |-> v]]

-----------------------------------------------------------------------------

Ready == loaded /\ applied = Len(overrides)

GetState(s, ok) ==
    /\ Ready
    /\ ret' = GetStateValue(s, ok)
    /\ cache' = GetStateCache(s, ok)
    /\ UNCHANGED <<diffs, overrides, loaded, applied>>

\* Faulty variant: an override is recorded like a write.
IgnoresIsOverride(s, v, isOverride, ok) ==
    /\ diffs' = RecordWrite(s, v, GetStateValue(s, ok))
    /\ cache' = [cache EXCEPT ![s] = v]
    /\ ret' = GetStateValue(s, ok)

\* setState reads the slot first, which may call the node; the entry that read
\* may store is overwritten at the end.
setState(s, v, isOverride, ok) ==
    LET valueBefore == IF isOverride THEN v ELSE GetStateValue(s, ok)
    IN  /\ diffs' = RecordWrite(s, v, valueBefore)
        /\ cache' = [cache EXCEPT ![s] = v]
        /\ ret' = valueBefore

SetState(s, v, ok) ==
    /\ Ready
    /\ setState(s, v, FALSE, ok)
    /\ UNCHANGED <<overrides, loaded, applied>>

\* NewEVM calls this once on the new database, before any EVM instruction.  A
\* text that does not decode (the empty one too) is printed and gives no list.
SetOverrides ==
    /\ ~loaded
    /\ loaded' = TRUE
    /\ overrides' \in OverrideLists
    /\ UNCHANGED <<cache, diffs, applied, ret>>

\* One iteration of applyOverrides' loop.
ApplyOverride(ok) ==
    /\ loaded
    /\ applied < Len(overrides)
    /\ LET entry == overrides[applied + 1]
       IN  setState(entry.slot, entry.value, TRUE, ok)
    /\ applied' = applied + 1
    /\ UNCHANGED <<overrides, loaded>>

\* The journal of the state database is not implemented: a snapshot records
\* nothing and a revert restores nothing.
Snapshot == UNCHANGED storageVars

RevertToSnapshot == UNCHANGED storageVars

Next ==
    \/ SetOverrides
    \/ \E ok \in BOOLEAN :
        \/ ApplyOverride(ok)
        \/ \E s \in Slot :
            \/ GetState(s, ok)
            \/ \E v \in Word : SetState(s, v, ok)

Spec == Init /\ [][Next]_storageVars

-----------------------------------------------------------------------------

TypeOK ==
    /\ cache \in [Slot -> Word \cup {Absent}]
    /\ diffs \in [Slot -> StorageDiff \cup {Absent}]
    /\ overrides \in OverrideLists
    /\ loaded \in BOOLEAN
    /\ applied \in 0..Len(overrides)
    /\ ret \in Word

\* The cache and the records agree: a written slot is cached with the value of
\* its record's last write, and any other cached slot holds what the chain
\* holds.  In particular a failed request leaves nothing behind (GetState's
\* error return, caching.go:190).
CacheCoherent ==
    \A s \in Slot :
        cache[s] \in IF Written(s) THEN {diffs[s].after} ELSE {Absent, Chain[s]}

\* What the proofs carry along: no list is held before SetOverrides.
StorageInv ==
    /\ TypeOK
    /\ ~loaded => overrides = <<>>
    /\ CacheCoherent

\* However often a slot is written, and whatever the requests answer later, the
\* "before" of its record never changes (isSet, caching.go:269).
BeforeIsKept ==
    [][\A s \in Slot : Written(s) => Written(s)' /\ diffs'[s].before = diffs[s].before]_storageVars

\* The content of a slot as the simulation sees it.
Content(s) == IF Hit(s) THEN cache[s] ELSE Chain[s]

\* The database promises what OverlayStore promises: the cache is invisible,
\* except for reads of slots that were never fetched nor written.
Overlay == INSTANCE OverlayStore WITH
    open     <- ~Ready,
    current  <- [s \in Slot |-> Content(s)],
    first    <- [s \in Slot |-> IF Written(s) THEN diffs[s].before ELSE Absent],
    obtained <- {s \in Slot : Hit(s)},
    ret      <- ret

\* Every step of the database is a read, a write or an override of OverlayStore,
\* or leaves it unchanged: no operation forgets a write, changes a value it has
\* already given out, or fails on a slot it has already obtained.
ImplementsOverlay == Overlay!Spec
=============================================================================
