-------------------------- MODULE SlotLookupProofs --------------------------
(***************************************************************************)
(* Proofs about SlotLookup, for every number of slots, every nesting of    *)
(* mappings, every set of contracts and every document: typing, that a     *)
(* document is loaded as a whole or not at all, and that a lookup answers  *)
(* with the innermost description.                                         *)
(***************************************************************************)
EXTENDS SlotLookup, TLAPS

-----------------------------------------------------------------------------
\* The phases of loading do not overlap, nor do the words of a document.
LEMMA EntryFacts ==
    /\ "null" \notin Layout /\ "no contract" \notin Layout
    /\ "malformed" \notin Layout /\ "unknown layout" \notin Layout
BY LookupAssumption

\* Slots are the numbers up to a number.
LEMMA SlotFacts == MaxSlot \in Nat /\ \A s : s \in Slot <=> s \in Nat /\ s <= MaxSlot
<1>1. MaxSlot \in Nat
  BY LookupAssumption
<1> QED
  BY <1>1 DEF Slot

\* A slot that is above all others of a set is its maximum.
LEMMA MaxIs ==
    ASSUME NEW S, S \subseteq Slot, NEW m \in S, \A o \in S : o <= m
    PROVE  Max(S) = m
<1>1. \A x \in S : x \in Nat
  BY SlotFacts
<1>2. \A o \in S : m >= o
  BY <1>1
<1>3. \A x \in S : (\A o \in S : x >= o) => x = m
  BY <1>1, <1>2
<1>4. Max(S) \in S /\ \A o \in S : Max(S) >= o
  BY <1>2 DEF Max
<1> QED
  BY <1>3, <1>4

\* A mapping that a slot leads to is a slot, below it.
LEMMA LeadsFacts ==
    ASSUME TypeOK, HashedBefore, NEW s \in Slot, Leads(s)
    PROVE  mapping[s] \in Slot /\ mapping[s] < s
BY DEF TypeOK, HashedBefore, Leads

\* A slot belongs to itself, and to whatever the mapping it leads to belongs to.
LEMMA OwnersUnfold ==
    ASSUME TypeOK, HashedBefore, NEW s \in Slot
    PROVE  /\ s \in Owners(s)
           /\ Leads(s) => Owners(s) = {s} \cup Owners(mapping[s])
           /\ ~Leads(s) => Owners(s) = {s}
<1>1. s \in Owners(s)
  BY DEF Owners
<1>2. ASSUME ~Leads(s) PROVE Owners(s) = {s}
  <2>1. \A o \in Owners(s) : o \in {s}
    <3> SUFFICES ASSUME NEW o \in Owners(s) PROVE o \in {s}
      OBVIOUS
    <3>1. {s} \in SUBSET Slot /\ s \in {s}
      OBVIOUS
    <3>2. \A t \in {s} : Leads(t) => mapping[t] \in {s}
      BY <1>2
    <3> QED
      BY <3>1, <3>2 DEF Owners
  <2> QED
    BY <1>1, <2>1
<1>3. ASSUME Leads(s) PROVE Owners(s) = {s} \cup Owners(mapping[s])
  <2>1. PICK m \in Slot : m = mapping[s]
    BY <1>3, LeadsFacts
  <2>2. \A o \in Owners(m) : o \in Owners(s)
    BY <1>3, <2>1 DEF Owners
  <2>3. m \in Owners(m) /\ Owners(m) \subseteq Slot
    BY DEF Owners
  <2>4. ASSUME NEW t \in Owners(m), Leads(t) PROVE mapping[t] \in Owners(m)
    <3>1. t \in Slot /\ mapping[t] \in Slot
      BY <2>3, <2>4, LeadsFacts
    <3> QED
      BY <2>4, <3>1 DEF Owners
  <2>5. \A o \in Owners(s) : o \in {s} \cup Owners(m)
    <3> SUFFICES ASSUME NEW o \in Owners(s) PROVE o \in {s} \cup Owners(m)
      OBVIOUS
    <3>1. PICK T \in SUBSET Slot : T = {s} \cup Owners(m)
      BY <2>3
    <3>2. s \in T /\ \A t \in T : Leads(t) => mapping[t] \in T
      BY <2>1, <2>3, <2>4, <3>1
    <3>3. o \in T
      BY <3>2 DEF Owners
    <3> QED
      BY <3>1, <3>3
  <2> QED
    BY <1>1, <2>1, <2>2, <2>5
<1> QED
  BY <1>1, <1>2, <1>3

\* What a slot belongs to is at or below it.
LEMMA OwnersBelow ==
    ASSUME TypeOK, HashedBefore, NEW s \in Slot, NEW o \in Owners(s)
    PROVE  o \in Slot /\ o <= s
<1>1. PICK T \in SUBSET Slot : T = {t \in Slot : t <= s}
  OBVIOUS
<1>2. s \in T
  BY <1>1, SlotFacts
<1>3. ASSUME NEW t \in T, Leads(t) PROVE mapping[t] \in T
  <2>1. t \in Slot /\ t <= s
    BY <1>1
  <2>2. mapping[t] \in Slot /\ mapping[t] < t
    BY <1>3, <2>1, LeadsFacts
  <2> QED
    BY <1>1, <2>1, <2>2, SlotFacts
<1>4. o \in Slot /\ o \in T
  BY <1>2, <1>3 DEF Owners
<1> QED
  BY <1>1, <1>4

-----------------------------------------------------------------------------
\* What is known initially.
LEMMA LookupInit == Init => LookupInv
<1> SUFFICES ASSUME Init PROVE LookupInv
  OBVIOUS
<1>1. 0 \in Slot
  BY SlotFacts
<1>2. DOMAIN contracts = {}
  BY DEF Init
<1>3. mapping \in [Slot -> Slot \cup {NoMapping}]
  BY DEF Init
<1>4. TypeOK
  BY <1>1, <1>2, <1>3 DEF Init, TypeOK
<1>5. HashedBefore
  BY DEF Init, HashedBefore
<1> QED
  BY <1>2, <1>4, <1>5 DEF Init, LookupInv, LoadedIsDocumented, WholeDocument, StillAhead, NearestDescription

\* Recording a preimage while the EVM runs: nothing was asked yet.
LEMMA AddPreimageInv == ASSUME LookupInv, NEW s \in Slot, AddPreimage(s) PROVE LookupInv'
<1> USE DEF AddPreimage, LookupInv, world
<1>1. TypeOK'
  BY DEF TypeOK
<1>2. HashedBefore'
  BY DEF HashedBefore
<1>3. LoadedIsDocumented'
  BY DEF LoadedIsDocumented, Listed, Wrong, Documented
<1>4. WholeDocument' /\ StillAhead' /\ NearestDescription'
  BY DEF WholeDocument, StillAhead, NearestDescription
<1> QED
  BY <1>1, <1>2, <1>3, <1>4

\* The report begins.
LEMMA NewFileGeneratorInv == ASSUME LookupInv, NewFileGenerator PROVE LookupInv'
<1> USE DEF NewFileGenerator, LookupInv, world
<1>1. TypeOK'
  BY DEF TypeOK
<1>2. HashedBefore'
  BY DEF HashedBefore
<1>3. LoadedIsDocumented'
  BY DEF LoadedIsDocumented, Listed, Wrong, Documented
<1>4. WholeDocument' /\ StillAhead' /\ NearestDescription'
  BY DEF WholeDocument, StillAhead, NearestDescription
<1> QED
  BY <1>1, <1>2, <1>3, <1>4

\* A document without contracts has no wrong entry.
LEMMA UnmarshalNothingInv == ASSUME LookupInv, UnmarshalNothing PROVE LookupInv'
<1> USE DEF UnmarshalNothing, LookupInv, world
<1>1. TypeOK'
  BY DEF TypeOK
<1>2. HashedBefore'
  BY DEF HashedBefore
<1>3. LoadedIsDocumented'
  BY DEF LoadedIsDocumented, Listed, Wrong, Documented
<1>4. Wrong = {} /\ DOMAIN contracts = {}
  BY DEF Wrong, Listed, LoadedIsDocumented
<1>5. WholeDocument'
  BY <1>4 DEF WholeDocument, Wrong, Listed
<1>6. StillAhead' /\ NearestDescription'
  BY DEF StillAhead, NearestDescription
<1> QED
  BY <1>1, <1>2, <1>3, <1>5, <1>6

\* What loading a contract leaves behind, whatever its slots are.
LEMMA LoadFacts ==
    ASSUME NEW c, NEW slots, Load(c, slots)
    PROVE  /\ DOMAIN contracts' = DOMAIN contracts \cup {c}
           /\ contracts'[c] = slots
           /\ \A d \in DOMAIN contracts : d # c => contracts'[d] = contracts[d]
           /\ phase' \in {"ready", "loading"}
           /\ phase' = "ready" <=> DOMAIN contracts' = Listed
BY DEF Load

\* Loading a contract that is described or null.
LEMMA GoodEntryInv ==
    ASSUME LookupInv, NEW c \in Contract, c \in Listed \ Wrong, phase = "loading",
           Load(c, Documented(c)), UNCHANGED <<world, preimages, asked, slot, answer>>
    PROVE  LookupInv'
<1> USE DEF LookupInv, world
<1>1. DOMAIN contracts' = DOMAIN contracts \cup {c}
      /\ contracts'[c] = Documented(c)
      /\ (\A d \in DOMAIN contracts : d # c => contracts'[d] = contracts[d])
      /\ phase' \in {"ready", "loading"}
      /\ (phase' = "ready" <=> DOMAIN contracts' = Listed)
  BY LoadFacts
<1>2. Documented(c) \subseteq Slot
  BY DEF TypeOK, Documented
<1>3. \A d \in DOMAIN contracts' : contracts'[d] \subseteq Slot
  BY <1>1, <1>2 DEF TypeOK
<1>4. TypeOK'
  BY <1>1, <1>3 DEF TypeOK
<1>5. HashedBefore'
  BY DEF HashedBefore
<1>6. Listed' = Listed /\ Wrong' = Wrong /\ \A d : Documented(d)' = Documented(d)
  BY DEF Listed, Wrong, Documented
<1>7. \A d \in DOMAIN contracts' : d \in Listed \ Wrong /\ contracts'[d] = Documented(d)
  BY <1>1 DEF LoadedIsDocumented
<1>8. LoadedIsDocumented'
  BY <1>6, <1>7 DEF LoadedIsDocumented
<1>9. DOMAIN contracts' = Listed => Wrong = {}
  <2> SUFFICES ASSUME DOMAIN contracts' = Listed, NEW d \in Wrong PROVE FALSE
    OBVIOUS
  <2>1. d \in Listed
    BY DEF Wrong, Listed
  <2> QED
    BY <1>7, <2>1
<1>10. WholeDocument'
  BY <1>1, <1>6, <1>9 DEF WholeDocument
<1>11. StillAhead' /\ NearestDescription'
  BY <1>1 DEF StillAhead, NearestDescription
<1> QED
  BY <1>4, <1>5, <1>8, <1>10, <1>11

\* One entry of the document is loaded, or ends the loading.
LEMMA UnmarshalContractInv ==
    ASSUME LookupInv, NEW c \in Contract, UnmarshalContract(c) PROVE LookupInv'
<1>1. /\ phase = "loading" /\ c \in Listed \ DOMAIN contracts
      /\ UNCHANGED <<world, preimages, asked, slot, answer>>
      /\ document[c] \in Entry
  BY DEF UnmarshalContract, LookupInv, TypeOK
<1>2. CASE document[c] \in Layout
  <2>1. Load(c, layouts[document[c]])
    BY <1>2, EntryFacts DEF UnmarshalContract
  <2>2. Documented(c) = layouts[document[c]] /\ c \in Listed \ Wrong
    BY <1>1, <1>2, EntryFacts DEF Documented, Wrong
  <2> QED
    BY <1>1, <2>1, <2>2, GoodEntryInv
<1>3. CASE document[c] = "null"
  <2>1. Load(c, {})
    BY <1>3, EntryFacts DEF UnmarshalContract
  <2>2. Documented(c) = {} /\ c \in Listed \ Wrong
    BY <1>1, <1>3, EntryFacts DEF Documented, Wrong
  <2> QED
    BY <1>1, <2>1, <2>2, GoodEntryInv
<1>4. CASE document[c] \notin Layout /\ document[c] # "null"
  <2> USE DEF LookupInv, world
  <2>1. phase' = "failed" /\ contracts' = contracts
    BY <1>4 DEF UnmarshalContract
  <2>2. c \in Wrong
    BY <1>1, <1>4 DEF Entry, Listed, Wrong
  <2>3. TypeOK' /\ HashedBefore'
    BY <1>1, <2>1 DEF TypeOK, HashedBefore
  <2>4. LoadedIsDocumented'
    BY <1>1, <2>1 DEF LoadedIsDocumented, Listed, Wrong, Documented
  <2>5. WholeDocument' /\ StillAhead' /\ NearestDescription'
    BY <1>1, <2>1, <2>2 DEF WholeDocument, StillAhead, NearestDescription, Wrong
  <2> QED
    BY <2>3, <2>4, <2>5
<1> QED
  BY <1>2, <1>3, <1>4

\* Once the document is loaded, what is configured is what it describes.
LEMMA ConfiguredIsDocumented ==
    ASSUME LookupInv, phase \in {"ready", "walking"}, NEW c \in Contract
    PROVE  Configured(c) = Documented(c) /\ Documented(c) \subseteq Slot
<1>1. DOMAIN contracts = Listed
  BY DEF LookupInv, WholeDocument
<1>2. c \notin Listed => Documented(c) = {}
  BY EntryFacts DEF Listed, Documented
<1>3. Documented(c) \subseteq Slot
  BY DEF LookupInv, TypeOK, Documented
<1> QED
  BY <1>1, <1>2, <1>3 DEF LookupInv, LoadedIsDocumented, Configured

\* What the lookup leaves alone while it goes on.
LEMMA WorldKept ==
    ASSUME LookupInv, UNCHANGED <<world, preimages, contracts>>
    PROVE  /\ HashedBefore' /\ LoadedIsDocumented'
           /\ Wrong' = Wrong /\ Listed' = Listed
           /\ \A c : Documented(c)' = Documented(c)
           /\ \A s : Owners(s)' = Owners(s)
<1> USE DEF LookupInv, world
<1>1. HashedBefore' /\ LoadedIsDocumented'
  BY DEF HashedBefore, LoadedIsDocumented, Listed, Wrong, Documented
<1>2. Wrong' = Wrong /\ Listed' = Listed /\ \A c : Documented(c)' = Documented(c)
  BY DEF Wrong, Listed, Documented
<1>3. \A s : Owners(s)' = Owners(s)
  BY DEF Owners, Leads
<1> QED
  BY <1>1, <1>2, <1>3

\* The first lookup.
LEMMA GetSlotInv ==
    ASSUME LookupInv, NEW c \in Contract, NEW s \in Slot, GetSlot(c, s) PROVE LookupInv'
<1>1. /\ phase = "ready" /\ asked' = <<c, s>> /\ slot' = s
      /\ UNCHANGED <<world, preimages, contracts>>
  BY DEF GetSlot
<1>2. asked'[1] = c /\ asked'[2] = s /\ asked' # <<>> /\ asked' \in Contract \X Slot
  BY <1>1
<1>3. /\ HashedBefore' /\ LoadedIsDocumented'
      /\ Wrong' = Wrong /\ Listed' = Listed
      /\ (\A d : Documented(d)' = Documented(d))
      /\ \A o : Owners(o)' = Owners(o)
  BY <1>1, WorldKept
<1>4. Configured(c) = Documented(c)
  BY <1>1, ConfiguredIsDocumented
<1>5. s \in Owners(s) /\ Owners(s) \subseteq Slot /\ \A o \in Owners(s) : o <= s
  BY OwnersUnfold, OwnersBelow DEF LookupInv, Owners
<1>6. CASE s \in Documented(c)
  <2>1. phase' = "found" /\ answer' = s
    BY <1>4, <1>6 DEF GetSlot, Return
  <2>2. PICK F \in SUBSET Slot : F = Documented(c) \cap Owners(s)
    BY <1>5
  <2>3. s \in F /\ Max(F) = s
    BY <1>5, <1>6, <2>2, MaxIs
  <2>4. TypeOK'
    BY <1>1, <1>2, <2>1 DEF LookupInv, TypeOK, world
  <2>5. WholeDocument'
    BY <1>1, <1>3, <2>1 DEF LookupInv, WholeDocument, world
  <2>6. StillAhead'
    BY <1>2, <2>1 DEF StillAhead
  <2>7. Documented(asked[1])' \cap Owners(asked[2])' = F
    BY <1>2, <1>3, <2>2
  <2>8. NearestDescription'
    BY <2>1, <2>3, <2>7 DEF NearestDescription
  <2> QED
    BY <1>3, <2>4, <2>5, <2>6, <2>8 DEF LookupInv
<1>7. CASE s \notin Documented(c)
  <2>1. phase' = "walking" /\ answer' = answer
    BY <1>4, <1>7 DEF GetSlot
  <2>2. TypeOK'
    BY <1>1, <1>2, <2>1 DEF LookupInv, TypeOK, world
  <2>3. WholeDocument'
    BY <1>1, <1>3, <2>1 DEF LookupInv, WholeDocument, world
  <2>4. Documented(asked[1])' = Documented(c) /\ Owners(asked[2])' = Owners(s)
        /\ Owners(slot)' = Owners(s)
    BY <1>1, <1>2, <1>3
  <2>5. StillAhead'
    BY <1>1, <1>2, <1>5, <1>7, <2>1, <2>4 DEF StillAhead
  <2>6. NearestDescription'
    BY <2>1 DEF NearestDescription
  <2> QED
    BY <1>3, <2>2, <2>3, <2>5, <2>6 DEF LookupInv
<1> QED
  BY <1>6, <1>7

\* One step from a slot to its mapping passes no described slot.
LEMMA WalkInv == ASSUME LookupInv, Walk PROVE LookupInv'
<1>1. phase = "walking" /\ UNCHANGED <<world, preimages, contracts, asked>>
  BY DEF Walk
<1>2. PICK c \in Contract, s \in Slot : asked = <<c, s>> /\ asked[1] = c /\ asked[2] = s
  BY <1>1 DEF LookupInv, TypeOK, StillAhead
<1>3. PICK F \in SUBSET Slot : F = Documented(c) \cap Owners(s)
  BY DEF Owners
<1>4. slot \in Slot /\ slot \in Owners(s) /\ F \subseteq Owners(slot) \ {slot}
  BY <1>1, <1>2, <1>3 DEF LookupInv, TypeOK, StillAhead
<1>5. Described = Documented(c)
  BY <1>1, <1>2, ConfiguredIsDocumented DEF Described
<1>6. /\ HashedBefore' /\ LoadedIsDocumented'
      /\ Wrong' = Wrong /\ Listed' = Listed
      /\ (\A d : Documented(d)' = Documented(d))
      /\ \A o : Owners(o)' = Owners(o)
  BY <1>1, WorldKept
<1>7. Documented(asked[1])' \cap Owners(asked[2])' = F /\ asked' # <<>>
  BY <1>1, <1>2, <1>3, <1>6
<1>8. CASE ~Leads(slot)
  <2>1. phase' = "found" /\ answer' = Default /\ slot' = slot
    BY <1>8 DEF Walk, Return
  <2>2. F = {}
    BY <1>4, <1>8, OwnersUnfold DEF LookupInv
  <2>3. TypeOK'
    BY <1>1, <2>1 DEF LookupInv, TypeOK, world
  <2>4. WholeDocument' /\ StillAhead'
    BY <1>1, <1>6, <1>7, <2>1 DEF LookupInv, WholeDocument, world, StillAhead
  <2>5. NearestDescription'
    BY <1>7, <2>1, <2>2 DEF NearestDescription
  <2> QED
    BY <1>6, <2>3, <2>4, <2>5 DEF LookupInv
<1>9. CASE Leads(slot)
  <2>1. PICK m \in Slot : m = mapping[slot]
    BY <1>4, <1>9, LeadsFacts DEF LookupInv
  <2>2. slot' = m
    BY <1>9, <2>1 DEF Walk
  <2>3. Owners(slot) = {slot} \cup Owners(m)
    BY <1>4, <1>9, <2>1, OwnersUnfold DEF LookupInv
  <2>4. F \subseteq Owners(m)
    BY <1>4, <2>3
  <2>5. m \in Owners(s)
    BY <1>4, <1>9, <2>1 DEF Owners
  <2>6. CASE m \in Documented(c)
    <3>1. phase' = "found" /\ answer' = m
      BY <1>5, <1>9, <2>2, <2>6 DEF Walk, Return
    <3>2. m \in F
      BY <1>3, <2>5, <2>6
    <3>3. \A o \in F : o <= m
      BY <2>4, OwnersBelow DEF LookupInv
    <3>4. Max(F) = m
      BY <3>2, <3>3, MaxIs
    <3>5. TypeOK'
      BY <1>1, <2>2, <3>1 DEF LookupInv, TypeOK, world
    <3>6. WholeDocument' /\ StillAhead'
      BY <1>1, <1>6, <1>7, <3>1 DEF LookupInv, WholeDocument, world, StillAhead
    <3>7. NearestDescription'
      BY <1>7, <3>1, <3>2, <3>4 DEF NearestDescription
    <3> QED
      BY <1>6, <3>5, <3>6, <3>7 DEF LookupInv
  <2>7. CASE m \notin Documented(c)
    <3>1. phase' = "walking" /\ answer' = answer
      BY <1>1, <1>5, <1>9, <2>2, <2>7 DEF Walk
    <3>2. TypeOK'
      BY <1>1, <2>2, <3>1 DEF LookupInv, TypeOK, world
    <3>3. WholeDocument'
      BY <1>1, <1>6, <3>1 DEF LookupInv, WholeDocument, world
    <3>4. F \subseteq Owners(m) \ {m}
      BY <1>3, <2>4, <2>7
    <3>5. Owners(slot)' = Owners(m) /\ Owners(asked[2])' = Owners(s)
      BY <1>1, <1>2, <1>6, <2>2
    <3>6. StillAhead'
      BY <1>7, <2>2, <2>5, <3>1, <3>4, <3>5 DEF StillAhead
    <3>7. NearestDescription'
      BY <3>1 DEF NearestDescription
    <3> QED
      BY <1>6, <3>2, <3>3, <3>6, <3>7 DEF LookupInv
  <2> QED
    BY <2>6, <2>7
<1> QED
  BY <1>8, <1>9

\* A step that changes nothing.
LEMMA LookupStutter == ASSUME LookupInv, UNCHANGED lookupVars PROVE LookupInv'
<1> USE DEF LookupInv, lookupVars, world
<1>1. UNCHANGED <<world, preimages, contracts>>
  OBVIOUS
<1>2. /\ HashedBefore' /\ LoadedIsDocumented'
      /\ Wrong' = Wrong /\ Listed' = Listed
      /\ (\A d : Documented(d)' = Documented(d))
      /\ \A o : Owners(o)' = Owners(o)
  BY <1>1, WorldKept
<1>3. TypeOK'
  BY DEF TypeOK
<1>4. WholeDocument'
  BY <1>2 DEF WholeDocument
<1>5. StillAhead' /\ NearestDescription'
  BY <1>2 DEF StillAhead, NearestDescription
<1> QED
  BY <1>2, <1>3, <1>4, <1>5

-----------------------------------------------------------------------------
\* The invariant of the loading and the lookup: while the loop walks, every described
\* slot that the asked one belongs to is still ahead of it.
THEOREM LookupInvariant == Spec => []LookupInv
<1>1. Init => LookupInv
  BY LookupInit
<1>2. LookupInv /\ [Next]_lookupVars => LookupInv'
  <2> SUFFICES ASSUME LookupInv, [Next]_lookupVars PROVE LookupInv'
    OBVIOUS
  <2>1. CASE UNCHANGED lookupVars
    BY <2>1, LookupStutter
  <2>2. CASE NewFileGenerator
    BY <2>2, NewFileGeneratorInv
  <2>3. CASE UnmarshalNothing
    BY <2>3, UnmarshalNothingInv
  <2>4. CASE Walk
    BY <2>4, WalkInv
  <2>5. ASSUME NEW c \in Contract, UnmarshalContract(c) PROVE LookupInv'
    BY <2>5, UnmarshalContractInv
  <2>6. ASSUME NEW s \in Slot, AddPreimage(s) PROVE LookupInv'
    BY <2>6, AddPreimageInv
  <2>7. ASSUME NEW s \in Slot, NEW c \in Contract, GetSlot(c, s) PROVE LookupInv'
    BY <2>7, GetSlotInv
  <2> QED
    BY <2>1, <2>2, <2>3, <2>4, <2>5, <2>6, <2>7 DEF Next
<1> QED
  BY <1>1, <1>2, PTL DEF Spec

\* Slots, layouts and documents stay what they are; the program asks for a contract's
\* slot and is answered with a slot or the default (template.go:254).
THEOREM LookupTyping == Spec => []TypeOK
<1>1. LookupInv => TypeOK
  BY DEF LookupInv
<1> QED
  BY <1>1, LookupInvariant, PTL

\* A document that cannot be read, or has a wrong entry, ends the program in whatever
\* order it is gone through, and any other is loaded as a whole (template.go:81,88).
THEOREM DocumentLoadedWhole == Spec => []WholeDocument
<1>1. LookupInv => WholeDocument
  BY DEF LookupInv
<1> QED
  BY <1>1, LookupInvariant, PTL

\* The description is the innermost one at any depth of nesting (template.go:254).
THEOREM DescriptionIsNearest == Spec => []NearestDescription
<1>1. LookupInv => NearestDescription
  BY DEF LookupInv
<1> QED
  BY <1>1, LookupInvariant, PTL

\* Every iteration of the loop that has no bound of its own ends it or goes on with a
\* smaller slot, one computed before: what its termination rests on (template.go:261).
THEOREM WalkDescends ==
    Spec => [][phase = "walking" => phase' = "found" \/ (slot' \in Slot /\ slot' < slot)]_lookupVars
<1>1. ASSUME LookupInv, [Next]_lookupVars
      PROVE  [phase = "walking" => phase' = "found" \/ (slot' \in Slot /\ slot' < slot)]_lookupVars
  <2>1. CASE Walk
    <3>1. ASSUME Leads(slot) PROVE mapping[slot] \in Slot /\ mapping[slot] < slot
      BY <1>1, <3>1, LeadsFacts DEF LookupInv, TypeOK
    <3> QED
      BY <2>1, <3>1 DEF Walk, Return
  <2>2. CASE ~Walk
    BY <1>1, <2>2 DEF Next, NewFileGenerator, UnmarshalNothing, UnmarshalContract, GetSlot, AddPreimage
  <2> QED
    BY <2>1, <2>2
<1> QED
  BY <1>1, LookupInvariant, PTL DEF Spec
=============================================================================
