----------------------------- MODULE SlotLookup -----------------------------
(***************************************************************************)
(* How the report finds the description of a storage slot                  *)
(* (FileGenerator.getSlot).  The slots of mappings are hashes: the slot of *)
(* m[k] is keccak256(k, slot of m).  While the EVM runs it hands every     *)
(* hashed text to the database (AddPreimage); afterwards getSlot goes from *)
(* a slot to the second half of its 64-byte preimage, and on, until it     *)
(* meets a slot that the contract's configuration describes.  That comes   *)
(* from a YAML document embedded in the program, which is loaded between   *)
(* the two, in the order of Go's maps, and not at all if it is not the     *)
(* YAML that is expected or one entry of it, of whatever contract or       *)
(* chain, is wrong.                                                        *)
(*                                                                         *)
(* Keys of mappings and texts of descriptions are left out: a description  *)
(* is the slot it belongs to.  Slots are numbered so that a slot's number  *)
(* is above that of its mapping: a hash is computed after what is hashed.  *)
(***************************************************************************)
EXTENDS Naturals, FiniteSetsExt

CONSTANTS
    MaxSlot,    \* slots are numbered 0 .. MaxSlot
    NoMapping,  \* for a slot that is no hash, or the hash of some other text
    Default,    \* DEFAULT_SLOT
    Contract,   \* contracts, each a chain with an address
    Layout      \* the names of the storage layouts that the document describes

Slot == 0 .. MaxSlot

ASSUME LookupAssumption ==
    /\ MaxSlot \in Nat
    /\ NoMapping \notin Slot
    /\ Default \notin Slot
    /\ Layout \cap {"no contract", "null", "unknown layout", "malformed"} = {}

\* What the document says of a contract's slots: nothing of the contract, null, a
\* reference to a layout, to one it does not describe, or something else.
Entry == Layout \cup {"no contract", "null", "unknown layout", "malformed"}

VARIABLES
    mapping,    \* mapping[s]: the mapping that slot s is an entry of
    layouts,    \* the slots that each storage layout describes
    document,   \* the document's entries
    readable,   \* the document is YAML of the expected structure
    preimages,  \* db.preimages: the slots whose preimage was recorded
    phase,      \* "running" the EVM, "loading", "ready", "walking", "found" or "failed"
    contracts,  \* c.Contracts: the slots described, of the contracts loaded so far
    asked,      \* the contract and the slot the report asks for
    slot,       \* getSlot's variable
    answer      \* the description getSlot returned

world == <<mapping, layouts, document, readable>>
lookupVars == <<world, preimages, phase, contracts, asked, slot, answer>>

Listed == {c \in Contract : document[c] # "no contract"}

\* Any nesting of mappings and any document.
Init ==
    /\ mapping \in {m \in [Slot -> Slot \cup {NoMapping}] :
           \A s \in Slot : m[s] # NoMapping => m[s] < s}
    /\ layouts \in [Layout -> SUBSET Slot]
    /\ document \in [Contract -> Entry]
    /\ readable \in BOOLEAN
    /\ preimages = {}
    /\ phase = "running"
    /\ contracts = <<>>
    /\ asked = <<>>
    /\ slot = 0
    /\ answer = Default

-----------------------------------------------------------------------------
\* The EVM computes the hash s.
AddPreimage(s) ==
    /\ phase = "running"
    /\ preimages' = preimages \cup {s}
    /\ UNCHANGED <<world, phase, contracts, asked, slot, answer>>

\* The simulation has succeeded: the document is parsed, then gone through.
NewFileGenerator ==
    /\ phase = "running"
    /\ phase' = IF readable THEN "loading" ELSE "failed"
    /\ UNCHANGED <<world, preimages, contracts, asked, slot, answer>>

Load(c, slots) ==
    /\ contracts' = [d \in DOMAIN contracts \cup {c} |-> IF d = c THEN slots ELSE contracts[d]]
    /\ phase' = IF DOMAIN contracts' = Listed THEN "ready" ELSE "loading"

\* Faulty variant: an entry that cannot be resolved describes nothing.
ToleratesEntry(c) ==
    /\ phase = "loading"
    /\ c \in Listed \ DOMAIN contracts
    /\ Load(c, IF document[c] \in Layout THEN layouts[document[c]] ELSE {})
    /\ UNCHANGED <<world, preimages, asked, slot, answer>>

\* One iteration of UnmarshalYAML's inner loop.
UnmarshalContract(c) ==
    /\ phase = "loading"
    /\ c \in Listed \ DOMAIN contracts
    /\ CASE document[c] \in Layout -> Load(c, layouts[document[c]])
         [] document[c] = "null"   -> Load(c, {})
         [] OTHER                  -> phase' = "failed" /\ UNCHANGED contracts
    /\ UNCHANGED <<world, preimages, asked, slot, answer>>

\* A document without contracts has nothing to go through.
UnmarshalNothing ==
    /\ phase = "loading"
    /\ Listed = {}
    /\ phase' = "ready"
    /\ UNCHANGED <<world, preimages, contracts, asked, slot, answer>>

\* getContractCfg; DEFAULT_CONTRACT describes no slot.
Configured(c) == IF c \in DOMAIN contracts THEN contracts[c] ELSE {}

Return(description) == phase' = "found" /\ answer' = description

\* getSlot begins by looking for the slot itself.
GetSlot(c, s) ==
    /\ phase = "ready"
    /\ asked' = <<c, s>>
    /\ slot' = s
    /\ IF s \in Configured(c) THEN Return(s) ELSE phase' = "walking" /\ UNCHANGED answer
    /\ UNCHANGED <<world, preimages, contracts>>

\* A recorded preimage of 64 bytes leads to the mapping.
Leads(s) == s \in preimages /\ mapping[s] # NoMapping

\* The slots described for the contract in question.
Described == Configured(asked[1])

\* Faulty variant: the loop keeps the slot it began with.
ForgetsParent ==
    /\ phase = "walking"
    /\ \/ ~Leads(slot) /\ Return(Default)
       \/ Leads(slot) /\ mapping[slot] \in Described /\ Return(mapping[slot])
       \/ Leads(slot) /\ mapping[slot] \notin Described /\ UNCHANGED <<phase, answer>>
    /\ UNCHANGED <<world, preimages, contracts, asked, slot>>

\* Faulty variant: a mapping in a mapping is not followed.
OneLevel ==
    /\ phase = "walking"
    /\ Return(IF Leads(slot) /\ mapping[slot] \in Described THEN mapping[slot] ELSE Default)
    /\ UNCHANGED <<world, preimages, contracts, asked, slot>>

\* Faulty variant: a text is followed whatever its length.
FollowsAnyText ==
    /\ phase = "walking"
    /\ slot' = mapping[slot]
    /\ IF slot' \in Described THEN Return(slot') ELSE
       IF slot \in preimages THEN UNCHANGED <<phase, answer>> ELSE Return(Default)
    /\ UNCHANGED <<world, preimages, contracts, asked>>

\* One iteration of getSlot's loop.  HexToHash keeps the last 32 of the 64 bytes it is
\* given in later iterations, which is the slot of the mapping.
Walk ==
    /\ phase = "walking"
    /\ \/ ~Leads(slot) /\ Return(Default) /\ UNCHANGED slot
       \/ /\ Leads(slot)
          /\ slot' = mapping[slot]
          /\ IF slot' \in Described THEN Return(slot') ELSE UNCHANGED <<phase, answer>>
    /\ UNCHANGED <<world, preimages, contracts, asked>>

Next ==
    \/ NewFileGenerator
    \/ UnmarshalNothing
    \/ Walk
    \/ \E c \in Contract : UnmarshalContract(c)
    \/ \E s \in Slot : AddPreimage(s) \/ \E c \in Contract : GetSlot(c, s)

\* The loop runs on one thread and waits for nothing.
Spec == Init /\ [][Next]_lookupVars /\ WF_lookupVars(Walk)

-----------------------------------------------------------------------------

TypeOK ==
    /\ mapping \in [Slot -> Slot \cup {NoMapping}]
    /\ layouts \in [Layout -> SUBSET Slot]
    /\ document \in [Contract -> Entry]
    /\ readable \in BOOLEAN
    /\ preimages \subseteq Slot
    /\ phase \in {"running", "loading", "ready", "walking", "found", "failed"}
    /\ DOMAIN contracts \subseteq Contract
    /\ \A c \in DOMAIN contracts : contracts[c] \subseteq Slot
    /\ asked \in {<<>>} \cup Contract \X Slot
    /\ slot \in Slot
    /\ answer \in Slot \cup {Default}

\* The slots a slot belongs to, itself first, as far as preimages were recorded: what
\* is in every set that contains the slot and the mapping of each entry in it.
Owners(s) ==
    LET closed(T) == \A t \in T : Leads(t) => mapping[t] \in T
    IN  {o \in Slot : \A T \in SUBSET Slot : s \in T /\ closed(T) => o \in T}

\* The slots that the document describes of a contract.
Documented(c) == IF document[c] \in Layout THEN layouts[document[c]] ELSE {}

\* The description is that of the innermost slot that the asked one belongs to and
\* the contract's layout in the document describes, however deep the mappings are
\* nested, and the default exactly when there is none that the recorded preimages
\* lead to (template.go:254).
NearestDescription ==
    phase = "found" =>
        LET found == Documented(asked[1]) \cap Owners(asked[2])
        IN  answer = IF found = {} THEN Default ELSE Max(found)

Wrong == {c \in Contract : document[c] \in {"unknown layout", "malformed"}}

\* Whatever the order, the document is loaded as a whole or not at all: a program goes
\* on exactly when the document is readable (template.go:81) and no entry is wrong, of
\* any contract and any chain (template.go:88).
WholeDocument ==
    /\ phase \in {"loading", "ready", "walking", "found"} => readable
    /\ phase \in {"ready", "walking", "found"} => Wrong = {} /\ DOMAIN contracts = Listed
    /\ phase = "failed" => ~readable \/ Wrong # {}

\* What is loaded is what the document says of contracts it has no wrong entry for.
LoadedIsDocumented ==
    \A c \in DOMAIN contracts :
        c \in Listed \ Wrong /\ contracts[c] = Documented(c)

\* Every described slot that the asked one belongs to is one that the loop has yet to
\* come to.
StillAhead ==
    /\ phase \in {"walking", "found"} => asked # <<>>
    /\ phase = "walking" =>
           /\ slot \in Owners(asked[2])
           /\ Documented(asked[1]) \cap Owners(asked[2]) \subseteq Owners(slot) \ {slot}

\* A hash is computed after what is hashed.
HashedBefore == \A s \in Slot : mapping[s] # NoMapping => mapping[s] < s

\* The inductive invariant behind the two properties above.
LookupInv ==
    /\ TypeOK
    /\ HashedBefore
    /\ LoadedIsDocumented
    /\ WholeDocument
    /\ StillAhead
    /\ NearestDescription

\* The loop has no bound of its own (template.go:261); it ends all the same.
LookupEnds == phase = "walking" ~> phase = "found"
=============================================================================
