-------------------------- MODULE SimulationProofs --------------------------
(***************************************************************************)
(* Proofs about Simulation: for every set of slots and words, every chain, *)
(* every set of override lists and every bound on the call depth, the      *)
(* simulated program reads what it should but for failed requests, and the *)
(* report is exact outside the three kinds of slots that the properties    *)
(* name.                                                                   *)
(***************************************************************************)
EXTENDS Simulation, StorageStateProofs

\* Dropping the last copy of the journal leaves a shorter journal.
LEMMA FrontTyped ==
    ASSUME NEW S, NEW seq \in Seq(S), Len(seq) > 1
    PROVE  /\ Front(seq) \in Seq(S)
           /\ Len(Front(seq)) = Len(seq) - 1
           /\ seq[Len(seq)] \in S
  BY DEF Front

\* A step of the simulation is a step of the database or leaves it unchanged.
LEMMA SimStepIsStorageStep ==
    ASSUME [SimNext]_simVars
    PROVE  [Next]_storageVars
  BY DEF SimNext, Next, LoadOverrides, LoadOne, BeginCall, SLoad, SStore, EnterCall,
         ReturnCall, RevertCall, Finish, Snapshot, RevertToSnapshot, simVars

\* What a written or unwritten slot's content is.
LEMMA ContentOf ==
    ASSUME StorageInv, NEW s \in Slot
    PROVE  /\ Written(s) => Hit(s) /\ Content(s) = diffs[s].after
           /\ ~Written(s) => Content(s) = Chain[s]
<1>1. Written(s) => diffs[s].after # Absent
  BY StorageAssumption DEF StorageInv, TypeOK, Written, StorageDiff
<1>2. cache[s] \in IF Written(s) THEN {diffs[s].after} ELSE {Absent, Chain[s]}
  BY DEF StorageInv, CacheCoherent
<1> QED
  BY <1>1, <1>2 DEF Content, Hit

\* The effect of setState on the facts the invariant is made of: the slot's
\* content becomes v, its "before" is set if it had none, no other slot changes.
LEMMA setStateEffect ==
    ASSUME StorageInv, NEW s \in Slot, NEW v \in Word,
           NEW isOverride \in BOOLEAN, NEW ok \in BOOLEAN,
           setState(s, v, isOverride, ok)
    PROVE  /\ Written(s)' /\ Content(s)' = v
           /\ Written(s) => diffs'[s].before = diffs[s].before
           /\ ~Written(s) /\ isOverride => diffs'[s].before = v
           /\ ~Written(s) /\ ~isOverride => diffs'[s].before = GetStateValue(s, ok)
           /\ Hit(s)'
           /\ \A t \in Slot \ {s} : /\ diffs'[t] = diffs[t]
                                    /\ Written(t)' <=> Written(t)
                                    /\ Content(t)' = Content(t)
                                    /\ Hit(t)' <=> Hit(t)
<1> DEFINE found == IF isOverride THEN v ELSE GetStateValue(s, ok)
<1>1. diffs'[s] = [before |-> IF Written(s) THEN diffs[s].before ELSE found, after |-> v]
  BY DEF setState, RecordWrite, StorageInv, TypeOK
<1>2. diffs'[s] # Absent
  <2>1. found \in Word
    BY StorageAssumption DEF StorageInv, TypeOK, GetStateValue, Hit
  <2>2. Written(s) => diffs[s].before \in Word
    BY DEF StorageInv, TypeOK, Written, StorageDiff
  <2> QED
    BY <1>1, <2>1, <2>2, StorageAssumption DEF StorageDiff
<1>3. cache' = [cache EXCEPT ![s] = v] /\ v # Absent
  BY StorageAssumption DEF setState
<1>4. Content(s)' = v
  BY <1>3 DEF Content, Hit, StorageInv, TypeOK
<1>6. Hit(s)'
  BY <1>3 DEF Hit, StorageInv, TypeOK
<1>5. \A t \in Slot \ {s} : diffs'[t] = diffs[t] /\ cache'[t] = cache[t]
  BY <1>3 DEF setState, RecordWrite, StorageInv, TypeOK
<1> QED
  BY <1>1, <1>2, <1>4, <1>5, <1>6 DEF Written, Content, Hit

-----------------------------------------------------------------------------
\* The invariant holds initially.
LEMMA SimInvInit == SimInit => SimInv
<1> SUFFICES ASSUME SimInit PROVE SimInv
  OBVIOUS
<1>1. StorageInv
  BY StorageInvInit DEF SimInit
<1>2. SimTypeOK
  BY <1>1, StorageAssumption, DepthAssumption
  DEF SimInit, SimTypeOK, StorageInv, Storage
<1>3. \A s \in Slot : ~Written(s) /\ Content(s) = Chain[s]
  BY DEF SimInit, Init, Written, Content, Hit
<1> QED
  BY <1>1, <1>2, <1>3
  DEF SimInit, Init, SimInv, Untouched, LoadingIsClean, BeforeFromOverrides,
      UnwrittenIsChain, BeforeIsStart, TornBefore, OverrideIsBefore, ContentIsReal

\* Loading the list keeps it: nothing is written yet.
LEMMA LoadOverridesKeeps ==
    ASSUME SimInv, StorageInv', LoadOverrides
    PROVE  SimInv'
<1>1. /\ UNCHANGED <<cache, diffs, applied, ret>> /\ UNCHANGED evmVars
      /\ ~loaded /\ loaded'
  BY DEF LoadOverrides, SetOverrides
<1>2. \A s \in Slot : ~Written(s)
  BY <1>1 DEF SimInv, Untouched
<1>3. \A s \in Slot : Content(s)' = Content(s) /\ ~Written(s)' /\ (Hit(s)' <=> Hit(s))
  BY <1>1, <1>2 DEF Content, Hit, Written
<1>4. SimTypeOK'
  BY <1>1 DEF SimInv, SimTypeOK, StorageInv, evmVars
<1>5. status = "loading" /\ torn = {} /\ undone = {}
  BY <1>1 DEF SimInv, LoadingIsClean, Ready
<1>6. LoadingIsClean' /\ TornBefore'
  BY <1>1, <1>5 DEF evmVars, LoadingIsClean, TornBefore
<1>7. ContentIsReal' /\ UnwrittenIsChain'
  <2>1. settled \subseteq Slot
    BY DEF SimInv, SimTypeOK
  <2> QED
    BY <1>1, <1>2, <1>3, <2>1 DEF SimInv, evmVars, ContentIsReal, UnwrittenIsChain
<1>9. OverrideIsBefore'
  <2>1. applied = 0
    BY <1>1 DEF SimInv, StorageInv, TypeOK
  <2> QED
    BY <1>1, <2>1 DEF OverrideIsBefore
<1>8. Untouched' /\ BeforeFromOverrides' /\ BeforeIsStart'
  BY <1>1, <1>3 DEF Untouched, BeforeFromOverrides, BeforeIsStart
<1> QED
  BY <1>4, <1>6, <1>7, <1>8, <1>9 DEF SimInv

\* Applying an override moves both the content and the start of its slot.
LEMMA LoadOneKeeps ==
    ASSUME SimInv, StorageInv', NEW ok \in BOOLEAN, LoadOne(ok)
    PROVE  SimInv'
<1>1. PICK entry : /\ entry = overrides[applied + 1]
                   /\ entry.slot \in Slot /\ entry.value \in Word
                   /\ applied + 1 \in 1..Len(overrides)
  BY EntryTyped DEF LoadOne, ApplyOverride, OverrideEntry, SimInv, StorageInv
<1>2. /\ setState(entry.slot, entry.value, TRUE, ok)
      /\ applied' = applied + 1 /\ UNCHANGED <<overrides, loaded>> /\ loaded
      /\ applied < Len(overrides)
      /\ real' = [real EXCEPT ![entry.slot] = entry.value]
      /\ start' = [start EXCEPT ![entry.slot] = entry.value]
      /\ settled' = settled \cup {entry.slot}
      /\ UNCHANGED <<status, journal, torn, undone>>
  BY <1>1 DEF LoadOne, ApplyOverride
<1>3. status = "loading" /\ torn = {} /\ undone = {}
  <2>1. ~Ready
    BY <1>2 DEF Ready
  <2> QED
    BY <2>1 DEF SimInv, LoadingIsClean
<1>4. /\ Written(entry.slot)' /\ Content(entry.slot)' = entry.value
      /\ diffs'[entry.slot].before =
            IF Written(entry.slot) THEN diffs[entry.slot].before ELSE entry.value
      /\ Hit(entry.slot)'
      /\ \A t \in Slot \ {entry.slot} : /\ diffs'[t] = diffs[t]
                                        /\ Written(t)' <=> Written(t)
                                        /\ Content(t)' = Content(t)
                                        /\ Hit(t)' <=> Hit(t)
  BY <1>1, <1>2, setStateEffect DEF SimInv
<1>5. applied \in Nat
  BY DEF SimInv, StorageInv, TypeOK
<1>6. SimTypeOK'
  BY <1>1, <1>2 DEF SimInv, SimTypeOK, StorageInv, Storage
<1>7. BeforeFromOverrides'
  <2> SUFFICES ASSUME NEW t \in Slot, Written(t)'
               PROVE  \E i \in 1..(applied + 1) :
                        overrides[i].slot = t /\ overrides[i].value = diffs'[t].before
    BY <1>2 DEF BeforeFromOverrides
  <2>1. CASE t = entry.slot /\ ~Written(t)
    BY <1>1, <1>4, <1>5, <2>1
  <2>2. CASE Written(t)
    <3>1. diffs'[t].before = diffs[t].before
      BY <1>4, <2>2
    <3>2. \E i \in 1..applied :
            overrides[i].slot = t /\ overrides[i].value = diffs[t].before
      BY <1>3, <2>2 DEF SimInv, BeforeFromOverrides
    <3> QED
      BY <1>5, <3>1, <3>2
  <2> QED
    BY <1>4, <2>1, <2>2
<1>8. BeforeIsStart'
  <2> SUFFICES ASSUME NEW t \in Slot, t \notin Conflicting, Written(t)'
               PROVE  diffs'[t].before = start'[t]
    BY <1>2 DEF BeforeIsStart, Conflicting
  <2>1. CASE t # entry.slot
    BY <1>2, <1>3, <1>4, <2>1 DEF SimInv, SimTypeOK, Storage, BeforeIsStart
  <2>2. CASE t = entry.slot
    <3>1. start'[t] = entry.value
      BY <1>2, <2>2 DEF SimInv, SimTypeOK, Storage
    <3>2. CASE ~Written(t)
      BY <1>4, <2>2, <3>1, <3>2
    <3>3. CASE Written(t)
      <4>1. PICK i \in 1..applied :
              overrides[i].slot = t /\ overrides[i].value = diffs[t].before
        BY <1>3, <3>3 DEF SimInv, BeforeFromOverrides
      <4>2. i \in 1..Len(overrides)
        BY <1>1, <1>5, <4>1
      <4>3. diffs[t].before = entry.value
        BY <1>1, <2>2, <4>1, <4>2 DEF Conflicting
      <4> QED
        BY <1>4, <2>2, <3>1, <3>3, <4>3
    <3> QED
      BY <3>2, <3>3
  <2> QED
    BY <2>1, <2>2
<1>9. ContentIsReal' /\ UnwrittenIsChain'
  BY <1>1, <1>2, <1>3, <1>4
  DEF SimInv, SimTypeOK, Storage, ContentIsReal, UnwrittenIsChain
<1>10. OverrideIsBefore'
  <2>1. \A i \in 1..(applied + 1) : overrides[i].slot \in Slot
    <3>1. \A i \in 1..Len(overrides) : overrides[i] \in OverrideEntry
      BY StorageAssumption DEF SimInv, StorageInv, TypeOK
    <3> QED
      BY <1>2, <1>5, <3>1 DEF OverrideEntry
  <2> SUFFICES ASSUME NEW i \in 1..(applied + 1), NEW t \in Slot,
                      t = overrides[i].slot,
                      \A j \in 1..i - 1 : overrides[j].slot # t
               PROVE  Written(t)' /\ diffs'[t].before = overrides[i].value
    BY <1>2, <2>1 DEF OverrideIsBefore, Written
  <2>2. CASE i = applied + 1
    <3>1. t = entry.slot /\ overrides[i].value = entry.value
      BY <1>1, <2>2
    <3>2. ~Written(t)
      <4>1. \A j \in 1..applied : overrides[j].slot # t
        BY <1>5, <2>2
      <4> QED
        BY <1>3, <4>1 DEF SimInv, BeforeFromOverrides
    <3> QED
      BY <1>4, <3>1, <3>2
  <2>3. CASE i # applied + 1
    <3>1. i \in 1..applied
      BY <1>5, <2>3
    <3>2. Written(t) /\ diffs[t].before = overrides[i].value
      BY <3>1 DEF SimInv, OverrideIsBefore
    <3> QED
      BY <1>4, <3>2
  <2> QED
    BY <2>2, <2>3
<1> QED
  BY <1>2, <1>3, <1>6, <1>7, <1>8, <1>9, <1>10
  DEF SimInv, Untouched, LoadingIsClean, TornBefore

\* A step that leaves the database and the two storages alone, and at most
\* ends the loading phase, keeps it.
LEMMA FrameKeeps ==
    ASSUME SimInv, StorageInv', SimTypeOK',
           UNCHANGED <<storageVars, real, start, torn, undone, settled>>,
           status' # "loading", Ready
    PROVE  SimInv'
<1>1. /\ \A s \in Slot : Content(s)' = Content(s) /\ (Written(s)' <=> Written(s))
      /\ \A s \in settled : Hit(s)' <=> Hit(s)
  BY DEF storageVars, Content, Hit, Written
<1>2. diffs' = diffs /\ loaded' = loaded /\ Ready' /\ Conflicting' = Conflicting
  BY DEF storageVars, Ready, Conflicting
<1>3. Untouched' /\ LoadingIsClean' /\ BeforeFromOverrides'
  BY <1>1, <1>2 DEF SimInv, Untouched, LoadingIsClean, BeforeFromOverrides
<1>4. UnwrittenIsChain' /\ ContentIsReal'
  BY <1>1 DEF SimInv, UnwrittenIsChain, ContentIsReal
<1>5. BeforeIsStart' /\ TornBefore'
  <2>1. torn \subseteq Slot
    BY DEF SimInv, SimTypeOK
  <2> QED
    BY <1>1, <1>2, <2>1 DEF SimInv, BeforeIsStart, TornBefore
<1>6. OverrideIsBefore'
  BY DEF SimInv, OverrideIsBefore, storageVars, Written
<1> QED
  BY <1>3, <1>4, <1>5, <1>6 DEF SimInv

\* A read may fill the cache, which no part of the invariant sees.
LEMMA SLoadKeeps ==
    ASSUME SimInv, StorageInv', NEW s \in Slot, NEW ok \in BOOLEAN, SLoad(s, ok)
    PROVE  SimInv'
<1>1. /\ UNCHANGED <<diffs, overrides, loaded, applied>>
      /\ UNCHANGED <<status, real, start, journal, torn, undone>>
      /\ cache' = GetStateCache(s, ok) /\ Ready
      /\ settled' = settled \cup {t \in {s} : ok}
  BY DEF SLoad, GetState
<1>2. /\ \A t \in Slot : Content(t)' = Content(t) /\ (Written(t)' <=> Written(t))
      /\ \A t \in Slot : Hit(t) => Hit(t)'
      /\ ok => Hit(s)'
  <2>1. cache \in [Slot -> Word \cup {Absent}] /\ Chain[s] \in Word /\ Absent \notin Word
    BY StorageAssumption DEF SimInv, StorageInv, TypeOK
  <2>2. \A t \in Slot : cache'[t] = IF t = s /\ ~Hit(s) /\ ok THEN Chain[s] ELSE cache[t]
    BY <1>1, <2>1 DEF GetStateCache
  <2>3. \A t \in Slot : Written(t)' <=> Written(t)
    BY <1>1 DEF Written
  <2>4. \A t \in Slot : Hit(t)' <=> cache'[t] # Absent
    BY DEF Hit
  <2>5. \A t \in Slot : Content(t)' = IF cache'[t] # Absent THEN cache'[t] ELSE Chain[t]
    BY DEF Content, Hit
  <2> QED
    BY <2>1, <2>2, <2>3, <2>4, <2>5 DEF Content, Hit
<1>3. Ready' /\ Conflicting' = Conflicting
  BY <1>1 DEF Ready, Conflicting
<1>4. SimTypeOK'
  BY <1>1 DEF SimInv, SimTypeOK, StorageInv
<1>5. status = "running" /\ status' = status /\ torn' = torn
  BY <1>1 DEF SLoad
<1>6. Untouched' /\ LoadingIsClean' /\ BeforeFromOverrides'
  BY <1>1, <1>2, <1>3, <1>5
  DEF SimInv, Untouched, LoadingIsClean, BeforeFromOverrides
<1>7. UnwrittenIsChain' /\ ContentIsReal'
  <2>1. settled \subseteq Slot
    BY DEF SimInv, SimTypeOK
  <2> QED
    BY <1>1, <1>2, <2>1 DEF SimInv, UnwrittenIsChain, ContentIsReal
<1>8. BeforeIsStart' /\ TornBefore'
  <2>1. diffs' = diffs /\ start' = start /\ torn \subseteq Slot
    BY <1>1 DEF SimInv, SimTypeOK
  <2> QED
    BY <1>2, <1>3, <1>5, <2>1 DEF SimInv, BeforeIsStart, TornBefore
<1>9. OverrideIsBefore'
  BY <1>1 DEF SimInv, OverrideIsBefore, Written
<1> QED
  BY <1>4, <1>6, <1>7, <1>8, <1>9 DEF SimInv

\* A write sets content and real to the same word; a first write takes its
\* "before" from the chain or spoils the slot.
LEMMA SStoreKeeps ==
    ASSUME SimInv, StorageInv', NEW s \in Slot, NEW v \in Word, NEW ok \in BOOLEAN,
           SStore(s, v, ok)
    PROVE  SimInv'
<1>1. /\ setState(s, v, FALSE, ok) /\ Ready
      /\ UNCHANGED <<overrides, loaded, applied>>
      /\ status = "running"
      /\ real' = [real EXCEPT ![s] = v]
      /\ torn' = torn \cup {t \in {s} : ~Written(t) /\ ~Hit(t) /\ ~ok}
      /\ undone' = undone \ {s}
      /\ settled' = settled \cup {s}
      /\ UNCHANGED <<status, start, journal>>
  BY DEF SStore, SetState
<1>2. /\ Written(s)' /\ Content(s)' = v
      /\ diffs'[s].before = IF Written(s) THEN diffs[s].before ELSE GetStateValue(s, ok)
      /\ Hit(s)'
      /\ \A t \in Slot \ {s} : /\ diffs'[t] = diffs[t]
                               /\ Written(t)' <=> Written(t)
                               /\ Content(t)' = Content(t)
                               /\ Hit(t)' <=> Hit(t)
  BY <1>1, setStateEffect DEF SimInv
<1>3. ~Written(s) /\ s \notin torn' => GetStateValue(s, ok) = start[s]
  <2> SUFFICES ASSUME ~Written(s), s \notin torn'
               PROVE  GetStateValue(s, ok) = start[s]
    OBVIOUS
  <2>1. Hit(s) \/ ok
    BY <1>1
  <2>2. GetStateValue(s, ok) = Content(s)
    BY <2>1 DEF GetStateValue, Content
  <2> QED
    BY <2>2, ContentOf DEF SimInv, UnwrittenIsChain
<1>4. ~Written(s) /\ s \in torn' => GetStateValue(s, ok) = ZeroWord
  BY <1>1 DEF GetStateValue, SimInv, TornBefore
<1>5. SimTypeOK'
  BY <1>1 DEF SimInv, SimTypeOK, StorageInv, Storage
<1>6. Conflicting' = Conflicting /\ Ready'
  BY <1>1 DEF Conflicting, Ready
<1>7. BeforeIsStart'
  <2> SUFFICES ASSUME NEW t \in Slot, t \notin torn', t \notin Conflicting, Written(t)'
               PROVE  diffs'[t].before = start[t]
    BY <1>1, <1>6 DEF BeforeIsStart
  <2>1. Written(t) => diffs[t].before = start[t]
    BY <1>1 DEF SimInv, BeforeIsStart
  <2> QED
    BY <1>2, <1>3, <2>1
<1>8. TornBefore'
  <2> SUFFICES ASSUME NEW t \in torn'
               PROVE  Written(t)' /\ diffs'[t].before = ZeroWord
    BY DEF TornBefore
  <2>1. t \in torn => Written(t) /\ diffs[t].before = ZeroWord
    BY DEF SimInv, TornBefore
  <2>2. t \in Slot /\ (t \in torn \/ (t = s /\ ~Written(s)))
    BY <1>1 DEF SimInv, SimTypeOK
  <2> QED
    BY <1>2, <1>4, <2>1, <2>2
<1>9. ContentIsReal'
  BY <1>1, <1>2 DEF SimInv, SimTypeOK, Storage, ContentIsReal
<1>10. UnwrittenIsChain'
  BY <1>1, <1>2 DEF SimInv, UnwrittenIsChain
<1>11. OverrideIsBefore'
  <2>1. \A i \in 1..applied : overrides[i].slot \in Slot
    <3>1. \A i \in 1..Len(overrides) : overrides[i] \in OverrideEntry
      BY StorageAssumption DEF SimInv, StorageInv, TypeOK
    <3>2. applied \in 0..Len(overrides)
      BY DEF SimInv, StorageInv, TypeOK
    <3> QED
      BY <3>1, <3>2 DEF OverrideEntry
  <2> SUFFICES ASSUME NEW i \in 1..applied, NEW t \in Slot,
                      t = overrides[i].slot,
                      \A j \in 1..i - 1 : overrides[j].slot # t
               PROVE  Written(t)' /\ diffs'[t].before = overrides[i].value
    BY <1>1, <2>1 DEF OverrideIsBefore, Written
  <2>2. Written(t) /\ diffs[t].before = overrides[i].value
    BY DEF SimInv, OverrideIsBefore
  <2> QED
    BY <1>2, <2>2
<1> QED
  BY <1>1, <1>5, <1>6, <1>7, <1>8, <1>9, <1>10, <1>11
  DEF SimInv, Untouched, LoadingIsClean, BeforeFromOverrides, Ready

\* A revert sets real back and marks every slot where that makes a difference.
LEMMA RevertCallKeeps ==
    ASSUME SimInv, StorageInv', RevertCall
    PROVE  SimInv'
<1> DEFINE saved == journal[Len(journal)]
<1>1. /\ UNCHANGED storageVars /\ status = "running"
      /\ real' = saved
      /\ undone' = undone \cup {s \in Slot : real[s] # saved[s]}
      /\ journal' = Front(journal)
      /\ UNCHANGED <<status, start, torn, settled>>
      /\ Len(journal) > 1
  BY DEF RevertCall, RevertToSnapshot
<1>2. /\ Front(journal) \in Seq(Storage)
      /\ Len(Front(journal)) = Len(journal) - 1
      /\ saved \in Storage
  BY <1>1, FrontTyped DEF SimInv, SimTypeOK
<1>3. SimTypeOK'
  BY <1>1, <1>2, DepthAssumption DEF SimInv, SimTypeOK, StorageInv
<1>4. /\ \A s \in Slot : Content(s)' = Content(s) /\ (Written(s)' <=> Written(s))
      /\ \A s \in settled : Hit(s)' <=> Hit(s)
  BY <1>1 DEF storageVars, Content, Hit, Written
<1>5. diffs' = diffs /\ loaded' = loaded /\ Ready' = Ready /\ Conflicting' = Conflicting
  BY <1>1 DEF storageVars, Ready, Conflicting
<1>6. ContentIsReal'
  BY <1>1, <1>4 DEF SimInv, ContentIsReal
<1>7. Untouched' /\ LoadingIsClean' /\ BeforeFromOverrides' /\ UnwrittenIsChain'
  BY <1>1, <1>4, <1>5
  DEF SimInv, Untouched, LoadingIsClean, BeforeFromOverrides, UnwrittenIsChain
<1>8. BeforeIsStart' /\ TornBefore'
  <2>1. torn \subseteq Slot /\ start' = start /\ torn' = torn
    BY <1>1 DEF SimInv, SimTypeOK
  <2> QED
    BY <1>4, <1>5, <2>1 DEF SimInv, BeforeIsStart, TornBefore
<1>9. OverrideIsBefore'
  BY <1>1 DEF SimInv, OverrideIsBefore, storageVars, Written
<1> QED
  BY <1>3, <1>6, <1>7, <1>8, <1>9 DEF SimInv

-----------------------------------------------------------------------------
\* Every step of the simulation keeps the invariant.
LEMMA SimInvStep == SimInv /\ [SimNext]_simVars => SimInv'
<1> SUFFICES ASSUME SimInv, [SimNext]_simVars
             PROVE  SimInv'
  OBVIOUS
<1>1. StorageInv'
  BY SimStepIsStorageStep, StorageInvStep DEF SimInv
<1>2. CASE LoadOverrides
  BY <1>1, <1>2, LoadOverridesKeeps
<1>3. ASSUME NEW ok \in BOOLEAN, LoadOne(ok)
      PROVE  SimInv'
  BY <1>1, <1>3, LoadOneKeeps
<1>4. CASE BeginCall
  <2>1. SimTypeOK'
    BY <1>1, <1>4, DepthAssumption
    DEF BeginCall, Snapshot, SimInv, SimTypeOK, StorageInv
  <2> QED
    BY <1>1, <1>4, <2>1, FrameKeeps DEF BeginCall, Snapshot
<1>5. CASE EnterCall
  <2>1. SimTypeOK'
    BY <1>1, <1>5, DepthAssumption DEF EnterCall, SimInv, SimTypeOK, StorageInv
  <2>2. Ready
    BY <1>5 DEF EnterCall, SimInv, LoadingIsClean
  <2> QED
    BY <1>1, <1>5, <2>1, <2>2, FrameKeeps DEF EnterCall, Snapshot
<1>6. CASE ReturnCall
  <2>1. Front(journal) \in Seq(Storage) /\ Len(Front(journal)) = Len(journal) - 1
    BY <1>6, FrontTyped DEF ReturnCall, SimInv, SimTypeOK
  <2>2. SimTypeOK'
    BY <1>1, <1>6, <2>1, DepthAssumption DEF ReturnCall, SimInv, SimTypeOK, StorageInv
  <2>3. Ready
    BY <1>6 DEF ReturnCall, SimInv, LoadingIsClean
  <2> QED
    BY <1>1, <1>6, <2>2, <2>3, FrameKeeps DEF ReturnCall
<1>7. CASE RevertCall
  BY <1>1, <1>7, RevertCallKeeps
<1>8. CASE Finish
  <2>1. UNCHANGED storageVars /\ status' \in {"failed", "reported"} /\ journal' = <<>>
    BY <1>8 DEF Finish, RevertToSnapshot
  <2>2. SimTypeOK'
    BY <1>1, <1>8, <2>1, DepthAssumption DEF Finish, SimInv, SimTypeOK, StorageInv
  <2>3. Ready
    BY <1>8 DEF Finish, SimInv, LoadingIsClean
  <2> QED
    BY <1>1, <1>8, <2>1, <2>2, <2>3, FrameKeeps DEF Finish
<1>9. ASSUME NEW ok \in BOOLEAN, NEW s \in Slot, SLoad(s, ok)
      PROVE  SimInv'
  BY <1>1, <1>9, SLoadKeeps
<1>10. ASSUME NEW ok \in BOOLEAN, NEW s \in Slot, NEW v \in Word, SStore(s, v, ok)
       PROVE  SimInv'
  BY <1>1, <1>10, SStoreKeeps
<1>11. CASE UNCHANGED simVars
  BY <1>1, <1>11
  DEF simVars, storageVars, evmVars, SimInv, SimTypeOK, StorageInv, Untouched,
      LoadingIsClean, BeforeFromOverrides, UnwrittenIsChain, BeforeIsStart,
      TornBefore, OverrideIsBefore, ContentIsReal, Ready, Content, Hit, Written, Conflicting
<1> QED
  BY <1>2, <1>3, <1>4, <1>5, <1>6, <1>7, <1>8, <1>9, <1>10, <1>11 DEF SimNext

THEOREM SimInvariant == SimSpec => []SimInv
  BY SimInvInit, SimInvStep, PTL DEF SimSpec

\* The EVM's storage reads and writes are a use of the database as specified:
\* all that is proved of StorageState holds of a simulation.
THEOREM SimulationUsesStorage == SimSpec => Spec
<1>1. SimInit => Init
  BY DEF SimInit
<1>2. [SimNext]_simVars => [Next]_storageVars
  BY SimStepIsStorageStep
<1> QED
  BY <1>1, <1>2, PTL DEF SimSpec, Spec

\* A read of the program under simulation answers what a journaled database would, for
\* every slot whose last change was not reverted, or zero if its request failed and the
\* slot was neither written nor fetched before (caching.go:180).
THEOREM ReadsAreAlwaysRight == SimSpec => ReadsAreRight
<1> DEFINE Right(s, ok) == \/ ret' = real[s]
                           \/ ~ok /\ s \notin settled /\ ret' = ZeroWord
<1>1. ASSUME SimInv, NEW s \in Slot \ undone, NEW ok \in BOOLEAN, SLoad(s, ok)
      PROVE  Right(s, ok)
  <2>1. ret' = GetStateValue(s, ok) /\ Content(s) = real[s] /\ (s \in settled => Hit(s))
    BY <1>1 DEF SLoad, GetState, SimInv, ContentIsReal
  <2> QED
    BY <2>1 DEF GetStateValue, Content
<1>2. SimInv /\ [SimNext]_simVars =>
          [\A s \in Slot \ undone, ok \in BOOLEAN : SLoad(s, ok) => Right(s, ok)]_simVars
  BY <1>1
<1> QED
  BY <1>2, SimInvariant, PTL DEF SimSpec, ReadsAreRight

\* The "before" of an overridden slot is the first value the list gives it, whatever
\* follows (caching.go:265).
THEOREM OverrideStaysBefore == SimSpec => []OverrideIsBefore
<1>1. SimInv => OverrideIsBefore
  BY DEF SimInv
<1> QED
  BY <1>1, SimInvariant, PTL

\* The report is exact outside reverted, unfetched and doubly overridden slots
\* (GetStateDiffs with the filter of convertDiffsToJSON).
THEOREM ReportIsExact == SimSpec => []ReportExact
<1>1. SimInv => ReportExact
  <2> SUFFICES ASSUME SimInv,
                      NEW s \in Slot, s \notin undone, s \notin torn, s \notin Conflicting
               PROVE  /\ Reported(s) <=> real[s] # start[s]
                      /\ Reported(s) => diffs[s] = [before |-> start[s], after |-> real[s]]
    BY DEF ReportExact
  <2>1. Content(s) = real[s]
    BY DEF SimInv, ContentIsReal
  <2>2. CASE Written(s)
    <3>1. diffs[s].before = start[s] /\ diffs[s].after = real[s]
      BY <2>1, <2>2, ContentOf DEF SimInv, BeforeIsStart
    <3>2. diffs[s] \in StorageDiff
      BY <2>2 DEF SimInv, StorageInv, TypeOK, Written
    <3>3. diffs[s] = [before |-> start[s], after |-> real[s]]
      BY <3>1, <3>2 DEF StorageDiff
    <3> QED
      BY <2>2, <3>1, <3>3 DEF Reported
  <2>3. CASE ~Written(s)
    <3>1. real[s] = start[s]
      BY <2>1, <2>3, ContentOf DEF SimInv, UnwrittenIsChain
    <3> QED
      BY <2>3, <3>1 DEF Reported
  <2> QED
    BY <2>2, <2>3
<1> QED
  BY <1>1, SimInvariant, PTL

\* A failed request spoils nothing but the "before" of its slot's record.
THEOREM TornSlotsAreZero == SimSpec => []TornIsZero
<1>1. SimInv => TornIsZero
  <2> SUFFICES ASSUME SimInv, NEW s \in torn
               PROVE  /\ Written(s) /\ diffs[s].before = ZeroWord
                      /\ s \notin undone => diffs[s].after = real[s]
    BY DEF TornIsZero
  <2>1. s \in Slot /\ Written(s) /\ diffs[s].before = ZeroWord
    BY DEF SimInv, SimTypeOK, TornBefore
  <2>2. s \notin undone => Content(s) = real[s]
    BY <2>1 DEF SimInv, ContentIsReal
  <2> QED
    BY <2>1, <2>2, ContentOf DEF SimInv
<1> QED
  BY <1>1, SimInvariant, PTL
=============================================================================
