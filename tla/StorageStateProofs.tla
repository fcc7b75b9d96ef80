------------------------- MODULE StorageStateProofs -------------------------
(***************************************************************************)
(* Proofs about StorageState, for every set of slots and words, every      *)
(* content of the chain and every choice of override lists: typing, the    *)
(* agreement of cache and records, the permanence of "before", and the     *)
(* implementation of OverlayStore.                                         *)
(***************************************************************************)
EXTENDS StorageState, TLAPS

-----------------------------------------------------------------------------
\* setState leaves the three variables it assigns well typed, whichever of the
\* two callers it has and however its request ends.
LEMMA setStateTyped ==
    ASSUME TypeOK, NEW s \in Slot, NEW v \in Word,
           NEW isOverride \in BOOLEAN, NEW ok \in BOOLEAN,
           setState(s, v, isOverride, ok)
    PROVE  /\ cache' \in [Slot -> Word \cup {Absent}]
           /\ diffs' \in [Slot -> StorageDiff \cup {Absent}]
           /\ ret' \in Word
<1> DEFINE valueBefore == IF isOverride THEN v ELSE GetStateValue(s, ok)
<1>1. valueBefore \in Word
  BY StorageAssumption DEF TypeOK, GetStateValue, Hit
<1>2. Written(s) => diffs[s].before \in Word
  BY DEF TypeOK, Written, StorageDiff
<1>3. [before |-> IF Written(s) THEN diffs[s].before ELSE valueBefore, after |-> v]
        \in StorageDiff
  BY <1>1, <1>2 DEF StorageDiff
<1>4. diffs' \in [Slot -> StorageDiff \cup {Absent}]
  BY <1>3 DEF setState, RecordWrite, TypeOK
<1>5. cache' \in [Slot -> Word \cup {Absent}] /\ ret' \in Word
  BY <1>1 DEF setState, TypeOK
<1> QED
  BY <1>4, <1>5

\* An override that is still to be applied names a slot and a word.
LEMMA EntryTyped ==
    ASSUME TypeOK, applied < Len(overrides)
    PROVE  /\ overrides[applied + 1] \in OverrideEntry
           /\ applied + 1 \in 1..Len(overrides)
<1>1. overrides \in Seq(OverrideEntry)
  BY StorageAssumption DEF TypeOK
<1>2. applied + 1 \in 1..Len(overrides)
  BY <1>1 DEF TypeOK
<1> QED
  BY <1>1, <1>2

\* The invariant holds initially.
LEMMA StorageInvInit == Init => StorageInv
<1> SUFFICES ASSUME Init PROVE StorageInv
  OBVIOUS
<1>1. applied \in 0..Len(overrides)
  BY DEF Init
<1>2. TypeOK
  BY <1>1, StorageAssumption DEF Init, TypeOK
<1>3. CacheCoherent
  BY DEF Init, CacheCoherent, Written
<1> QED
  BY <1>2, <1>3 DEF Init, StorageInv

\* setState makes the cache and the record of its slot agree, and touches no
\* other slot.
LEMMA setStateCoherent ==
    ASSUME TypeOK, CacheCoherent, NEW s \in Slot, NEW v \in Word,
           NEW isOverride \in BOOLEAN, NEW ok \in BOOLEAN,
           setState(s, v, isOverride, ok)
    PROVE  CacheCoherent'
<1> SUFFICES ASSUME NEW t \in Slot
             PROVE  cache'[t] \in IF diffs'[t] # Absent THEN {diffs'[t].after}
                                  ELSE {Absent, Chain[t]}
  BY DEF CacheCoherent, Written
<1>1. CASE t = s
  <2> DEFINE valueBefore == IF isOverride THEN v ELSE GetStateValue(s, ok)
  <2>1. diffs'[s] = [before |-> IF Written(s) THEN diffs[s].before ELSE valueBefore,
                     after |-> v]
    BY DEF setState, RecordWrite, TypeOK
  <2>2. diffs'[s].after = v /\ cache'[s] = v
    BY <2>1 DEF setState, TypeOK
  <2>3. diffs'[s] # Absent
    BY setStateTyped, <2>1, StorageAssumption, <2>2
    DEF StorageDiff, TypeOK, Written, GetStateValue, Hit
  <2> QED
    BY <1>1, <2>2, <2>3
<1>2. CASE t # s
  <2>1. cache'[t] = cache[t] /\ diffs'[t] = diffs[t]
    BY <1>2 DEF setState, RecordWrite, TypeOK
  <2> QED
    BY <2>1 DEF CacheCoherent, Written
<1> QED
  BY <1>1, <1>2

\* Every step keeps the invariant.
LEMMA StorageInvStep == StorageInv /\ [Next]_storageVars => StorageInv'
<1> SUFFICES ASSUME StorageInv, [Next]_storageVars
             PROVE  StorageInv'
  OBVIOUS
<1> USE DEF StorageInv
<1>1. CASE SetOverrides
  <2>1. overrides = <<>> /\ applied = 0
    BY <1>1 DEF SetOverrides, TypeOK
  <2>2. overrides' \in Seq(OverrideEntry)
    BY <1>1, StorageAssumption DEF SetOverrides
  <2>3. applied' \in 0..Len(overrides')
    BY <1>1, <2>1, <2>2 DEF SetOverrides
  <2>4. TypeOK'
    BY <1>1, <2>3 DEF SetOverrides, TypeOK
  <2>5. CacheCoherent'
    BY <1>1 DEF SetOverrides, CacheCoherent, Written
  <2> QED
    BY <1>1, <2>4, <2>5 DEF SetOverrides
<1>2. ASSUME NEW ok \in BOOLEAN, ApplyOverride(ok)
      PROVE  StorageInv'
  <2> DEFINE entry == overrides[applied + 1]
  <2>1. entry.slot \in Slot /\ entry.value \in Word
        /\ applied + 1 \in 0..Len(overrides)
    BY <1>2, EntryTyped DEF ApplyOverride, OverrideEntry
  <2>2. setState(entry.slot, entry.value, TRUE, ok)
    BY <1>2 DEF ApplyOverride
  <2>3. TypeOK'
    BY <1>2, <2>1, <2>2, setStateTyped DEF ApplyOverride, TypeOK
  <2>4. CacheCoherent'
    BY <2>1, <2>2, setStateCoherent
  <2> QED
    BY <1>2, <2>3, <2>4 DEF ApplyOverride
<1>3. ASSUME NEW ok \in BOOLEAN, NEW s \in Slot, GetState(s, ok)
      PROVE  StorageInv'
  <2>1. TypeOK'
    BY <1>3, StorageAssumption
    DEF GetState, GetStateValue, GetStateCache, Hit, TypeOK
  <2>2. CacheCoherent'
    <3> SUFFICES ASSUME NEW t \in Slot
                 PROVE  cache'[t] \in IF diffs[t] # Absent THEN {diffs[t].after}
                                      ELSE {Absent, Chain[t]}
      BY <1>3 DEF GetState, CacheCoherent, Written
    <3>1. cache[t] \in IF diffs[t] # Absent THEN {diffs[t].after}
                       ELSE {Absent, Chain[t]}
      BY DEF CacheCoherent, Written
    <3>2. diffs[t] # Absent => Hit(t)
      BY <3>1, StorageAssumption DEF TypeOK, StorageDiff, Hit
    <3>3. cache'[t] = IF t = s /\ ~Hit(t) /\ ok THEN Chain[t] ELSE cache[t]
      BY <1>3 DEF GetState, GetStateCache, TypeOK
    <3> QED
      BY <3>1, <3>2, <3>3
  <2> QED
    BY <1>3, <2>1, <2>2 DEF GetState
<1>4. ASSUME NEW ok \in BOOLEAN, NEW s \in Slot, NEW v \in Word, SetState(s, v, ok)
      PROVE  StorageInv'
  <2>1. setState(s, v, FALSE, ok)
    BY <1>4 DEF SetState
  <2>2. TypeOK'
    BY <1>4, <2>1, setStateTyped DEF SetState, TypeOK
  <2>3. CacheCoherent'
    BY <2>1, setStateCoherent
  <2> QED
    BY <1>4, <2>2, <2>3 DEF SetState
<1>5. CASE UNCHANGED storageVars
  BY <1>5 DEF storageVars, TypeOK, CacheCoherent, Written
<1> QED
  BY <1>1, <1>2, <1>3, <1>4, <1>5 DEF Next

THEOREM StorageInvariant == Spec => []StorageInv
  BY StorageInvInit, StorageInvStep, PTL DEF Spec

\* Every variable of the storage cache keeps its type: a failed request never
\* puts a missing entry in the hands of the EVM.
THEOREM StorageTyping == Spec => []TypeOK
<1>1. StorageInv => TypeOK
  BY DEF StorageInv
<1> QED
  BY <1>1, StorageInvariant, PTL

\* The cache and the written records always agree (GetState, setState).
THEOREM StorageCoherence == Spec => []CacheCoherent
<1>1. StorageInv => CacheCoherent
  BY DEF StorageInv
<1> QED
  BY <1>1, StorageInvariant, PTL

-----------------------------------------------------------------------------
\* A step leaves the "before" of a slot that has a record as it is.
LEMMA BeforeStep ==
    ASSUME StorageInv, [Next]_storageVars, NEW t \in Slot, Written(t)
    PROVE  Written(t)' /\ diffs'[t].before = diffs[t].before
<1> SUFFICES diffs'[t] # Absent /\ diffs'[t].before = diffs[t].before
  BY DEF Written
<1>1. ASSUME NEW s \in Slot, NEW v \in Word,
             NEW isOverride \in BOOLEAN, NEW ok \in BOOLEAN,
             setState(s, v, isOverride, ok)
      PROVE  diffs'[t] # Absent /\ diffs'[t].before = diffs[t].before
  <2> DEFINE valueBefore == IF isOverride THEN v ELSE GetStateValue(s, ok)
  <2>1. diffs' = RecordWrite(s, v, valueBefore)
    BY <1>1 DEF setState
  <2>2. CASE t = s
    <3>1. diffs'[t] = [before |-> diffs[t].before, after |-> v]
      BY <2>1, <2>2 DEF RecordWrite, StorageInv, TypeOK
    <3>2. diffs[t].before \in Word
      BY DEF StorageInv, TypeOK, Written, StorageDiff
    <3> QED
      BY <3>1, <3>2, StorageAssumption DEF StorageDiff
  <2>3. CASE t # s
    BY <2>1, <2>3 DEF RecordWrite, StorageInv, TypeOK, Written
  <2> QED
    BY <2>2, <2>3
<1>2. ASSUME NEW ok \in BOOLEAN, ApplyOverride(ok)
      PROVE  diffs'[t] # Absent /\ diffs'[t].before = diffs[t].before
  <2>1. overrides[applied + 1] \in OverrideEntry
    BY <1>2, EntryTyped DEF ApplyOverride, StorageInv
  <2>2. setState(overrides[applied + 1].slot, overrides[applied + 1].value, TRUE, ok)
    BY <1>2 DEF ApplyOverride
  <2> QED
    BY <1>1, <2>1, <2>2 DEF OverrideEntry
<1>3. ASSUME NEW ok \in BOOLEAN, NEW s \in Slot, NEW v \in Word, SetState(s, v, ok)
      PROVE  diffs'[t] # Absent /\ diffs'[t].before = diffs[t].before
  BY <1>1, <1>3 DEF SetState
<1>4. CASE UNCHANGED diffs
  BY <1>4 DEF Written
<1> QED
  BY <1>2, <1>3, <1>4 DEF Next, SetOverrides, GetState, storageVars

\* "Before" is written once: no step of the database, a write or not, changes
\* the "before" of a slot that has a record (isSet in setState).
THEOREM BeforeKept == Spec => BeforeIsKept
<1>1. StorageInv /\ [Next]_storageVars =>
        [\A s \in Slot : Written(s) =>
            Written(s)' /\ diffs'[s].before = diffs[s].before]_storageVars
  BY BeforeStep
<1> QED
  BY <1>1, StorageInvariant, PTL DEF Spec, BeforeIsKept

-----------------------------------------------------------------------------
(***************************************************************************)
(* The implementation of OverlayStore.  Each step is mapped to a step of   *)
(* the store through the mapping of StorageState's INSTANCE.               *)
(***************************************************************************)

\* A store into the database is a store of the mapped state.
LEMMA StoreMapped ==
    ASSUME StorageInv, NEW s \in Slot, NEW v \in Word,
           NEW isOverride \in BOOLEAN, NEW ok \in BOOLEAN,
           setState(s, v, isOverride, ok),
           NEW found, found = IF isOverride THEN v ELSE GetStateValue(s, ok)
    PROVE  Overlay!Store(s, v, found)
<1>1. found \in Word
  BY StorageAssumption DEF StorageInv, TypeOK, GetStateValue, Hit
<1>2. v # Absent /\ found # Absent
  BY <1>1, StorageAssumption
<1>3. cache' = [cache EXCEPT ![s] = v] /\ ret' = found
  BY DEF setState
<1>4. diffs' = [diffs EXCEPT ![s] =
                 [before |-> IF Written(s) THEN @.before ELSE found, after |-> v]]
  BY DEF setState, RecordWrite
<1>5. \A t \in Slot : Content(t)' = IF t = s THEN v ELSE Content(t)
  BY <1>2, <1>3 DEF Content, Hit, StorageInv, TypeOK
<1>6. {t \in Slot : Hit(t)}' = {t \in Slot : Hit(t)} \cup {s}
  BY <1>2, <1>3 DEF Hit, StorageInv, TypeOK
<1>7. Written(s)' /\ \A t \in Slot \ {s} : diffs'[t] = diffs[t]
  <2>1. diffs' \in [Slot -> StorageDiff \cup {Absent}]
    BY setStateTyped DEF StorageInv
  <2>2. diffs'[s].after = v /\ \A t \in Slot \ {s} : diffs'[t] = diffs[t]
    BY <1>4 DEF StorageInv, TypeOK
  <2>3. diffs'[s] = [before |-> IF Written(s) THEN diffs[s].before ELSE found, after |-> v]
    BY <1>4 DEF StorageInv, TypeOK
  <2>4. Written(s) => diffs[s].before \in Word
    BY DEF StorageInv, TypeOK, Written, StorageDiff
  <2>5. diffs'[s] \in StorageDiff
    BY <1>1, <2>3, <2>4 DEF StorageDiff
  <2> QED
    BY <2>2, <2>5, StorageAssumption DEF Written
<1>8. diffs'[s].before = IF Written(s) THEN diffs[s].before ELSE found
  BY <1>4 DEF StorageInv, TypeOK
<1>9. Written(s) => diffs[s].before # Absent
  BY StorageAssumption DEF StorageInv, TypeOK, Written, StorageDiff
<1> DEFINE First(t) == IF Written(t) THEN diffs[t].before ELSE Absent
<1>10. \A t \in Slot : First(t)' =
         IF t = s /\ First(s) = Absent THEN found ELSE First(t)
  BY <1>7, <1>8, <1>9 DEF Written
<1>11. [t \in Slot |-> First(t)]' = [[t \in Slot |-> First(t)] EXCEPT ![s] =
         IF @ = Absent THEN found ELSE @]
  BY <1>10
<1>12. [t \in Slot |-> Content(t)]' = [[t \in Slot |-> Content(t)] EXCEPT ![s] = v]
  BY <1>5
<1> QED
  BY <1>3, <1>6, <1>11, <1>12 DEF Overlay!Store

\* Initial states map to initial states.
LEMMA OverlayInit == Init => Overlay!Init
  BY StorageAssumption DEF Init, Overlay!Init, Ready, Content, Hit, Written

\* Every step maps to a step of the store or to a stutter.
LEMMA OverlayStep ==
    ASSUME StorageInv, StorageInv', [Next]_storageVars
    PROVE  [Overlay!Next]_Overlay!overlayVars
<1>1. CASE SetOverrides
  <2>1. ~Ready
    BY <1>1 DEF SetOverrides, Ready
  <2>2. UNCHANGED <<cache, diffs, ret>>
    BY <1>1 DEF SetOverrides
  <2>3. CASE Ready'
    <3>1. Overlay!Close
      BY <2>1, <2>2, <2>3 DEF Overlay!Close, Content, Hit, Written
    <3> QED
      BY <3>1 DEF Overlay!Next
  <2>4. CASE ~Ready'
    BY <2>1, <2>2, <2>4 DEF Overlay!overlayVars, Content, Hit, Written
  <2> QED
    BY <2>3, <2>4
<1>2. ASSUME NEW ok \in BOOLEAN, ApplyOverride(ok)
      PROVE  Overlay!Next
  <2>1. PICK entry : /\ entry = overrides[applied + 1]
                     /\ entry.slot \in Slot /\ entry.value \in Word
    BY <1>2, EntryTyped DEF ApplyOverride, OverrideEntry, StorageInv
  <2>2. setState(entry.slot, entry.value, TRUE, ok)
    BY <1>2, <2>1 DEF ApplyOverride
  <2>3. Overlay!Store(entry.slot, entry.value, entry.value)
    BY <2>1, <2>2, StoreMapped
  <2>4. ~Ready /\ (~Ready)' \in BOOLEAN
    <3>1. overrides \in Seq(OverrideEntry)
      BY StorageAssumption DEF StorageInv, TypeOK
    <3> QED
      BY <1>2, <3>1 DEF ApplyOverride, Ready, StorageInv, TypeOK
  <2>5. Overlay!Override(entry.slot, entry.value)
    BY <2>3, <2>4 DEF Overlay!Override
  <2> QED
    BY <2>1, <2>5 DEF Overlay!Next
<1>3. ASSUME NEW ok \in BOOLEAN, NEW s \in Slot, GetState(s, ok)
      PROVE  Overlay!Next
  <2>1. Ready /\ Ready' /\ UNCHANGED diffs
    BY <1>3 DEF GetState, Ready
  <2>2. CASE Hit(s) \/ ok
    <3>1. ret' = Content(s)
      BY <1>3, <2>2 DEF GetState, GetStateValue, Content
    <3>2. cache' = [cache EXCEPT ![s] = IF Hit(s) THEN @ ELSE Chain[s]]
      BY <1>3, <2>2 DEF GetState, GetStateCache
    <3>3. \A t \in Slot : Content(t)' = Content(t)
      BY <3>2 DEF Content, Hit, StorageInv, TypeOK
    <3>4. {t \in Slot : Hit(t)}' = {t \in Slot : Hit(t)} \cup {s}
      <4>1. \A t \in Slot : Hit(t)' <=> Hit(t) \/ t = s
        <5>1. Chain[s] # Absent /\ cache \in [Slot -> Word \cup {Absent}]
          BY StorageAssumption DEF StorageInv, TypeOK
        <5>2. \A t \in Slot : cache'[t] = IF t = s /\ ~Hit(s) THEN Chain[s] ELSE cache[t]
          BY <3>2, <5>1
        <5>3. \A t \in Slot : Hit(t)' <=> cache'[t] # Absent
          BY DEF Hit
        <5> QED
          BY <5>1, <5>2, <5>3 DEF Hit
      <4> QED
        BY <4>1
    <3>5. Overlay!ReadCurrent(s)
      BY <2>1, <3>1, <3>3, <3>4 DEF Overlay!ReadCurrent, Written
    <3> QED
      BY <3>5 DEF Overlay!Next
  <2>3. CASE ~Hit(s) /\ ~ok
    <3>1. ret' = ZeroWord /\ cache' = cache
      BY <1>3, <2>3 DEF GetState, GetStateValue, GetStateCache, StorageInv, TypeOK
    <3>2. Overlay!ReadFails(s)
      BY <2>1, <2>3, <3>1 DEF Overlay!ReadFails, Content, Hit, Written
    <3> QED
      BY <3>2 DEF Overlay!Next
  <2> QED
    BY <2>2, <2>3
<1>4. ASSUME NEW ok \in BOOLEAN, NEW s \in Slot, NEW v \in Word, SetState(s, v, ok)
      PROVE  Overlay!Next
  <2>1. PICK found : found = GetStateValue(s, ok)
    OBVIOUS
  <2>2. setState(s, v, FALSE, ok)
    BY <1>4 DEF SetState
  <2>3. Overlay!Store(s, v, found)
    BY <2>1, <2>2, StoreMapped
  <2>4. Ready /\ Ready'
    BY <1>4 DEF SetState, Ready
  <2>5. \/ found = [t \in Slot |-> Content(t)][s]
        \/ found = ZeroWord /\ s \notin {t \in Slot : Hit(t)}
    BY <2>1 DEF GetStateValue, Content
  <2>6. Overlay!Write(s, v)
    BY <2>3, <2>4, <2>5 DEF Overlay!Write, Overlay!Store
  <2> QED
    BY <2>6 DEF Overlay!Next
<1>5. CASE UNCHANGED storageVars
  BY <1>5 DEF storageVars, Overlay!overlayVars, Ready, Content, Hit, Written
<1> QED
  BY <1>1, <1>2, <1>3, <1>4, <1>5 DEF Next

\* The storage cache implements the plain store: caching, lazy fetching and
\* failed requests are invisible beyond what OverlayStore allows.
THEOREM StorageImplementsOverlay == Spec => ImplementsOverlay
<1>1. StorageInv /\ StorageInv' /\ [Next]_storageVars
        => [Overlay!Next]_Overlay!overlayVars
  BY OverlayStep
<1> QED
  BY <1>1, OverlayInit, StorageInvariant, PTL DEF Spec, ImplementsOverlay, Overlay!Spec
=============================================================================
