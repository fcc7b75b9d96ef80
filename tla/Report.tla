------------------------------- MODULE Report -------------------------------
(***************************************************************************)
(* The report (internal/template/template.go): the state database's        *)
(* overrides and records, kept in a Go map of maps, become two sorted      *)
(* lists.  Signers compare reports made on different machines, so a report *)
(* must not depend on the order in which Go walks a map.                   *)
(*                                                                         *)
(* Addresses and keys are numbered in the order of their text, which is    *)
(* what the code compares.  Descriptions are the subject of SlotLookup and *)
(* are left out here.  A sort is not stable: entries with equal texts may  *)
(* come in any order.                                                      *)
(***************************************************************************)
EXTENDS Naturals, FiniteSets, SequencesExt

CONSTANTS
    Address,       \* accounts
    Key,           \* storage keys
    Value,         \* contents of slots
    Named,         \* the accounts in contracts.yaml, for this chain
    OverrideLists, \* the lists of overrides a caller may have given
    Diffs,         \* the contents db.diffs may have after a simulation
    DefaultName,   \* the name in DEFAULT_CONTRACT
    NoName         \* the name of a contract that was never filled in

StorageDiff == [before : Value, after : Value]
StateDiff == UNION {[keys -> StorageDiff] : keys \in SUBSET Key}
Override == [address : Address, storage : Seq([key : Key, value : Value])]
Change == [key : Key, before : Value, after : Value]
StateChange == [name : Named \cup {DefaultName}, address : Address, changes : Seq(Change)]
StateOverride == [name : Named \cup {DefaultName}, address : Address,
                  overrides : Seq([key : Key, value : Value])]

ASSUME ReportAssumption ==
    /\ Address \subseteq Nat
    /\ Key \subseteq Nat
    /\ Named \subseteq Address
    /\ OverrideLists \subseteq Seq(Override)
    /\ \A d \in Diffs :
           /\ DOMAIN d \subseteq Address /\ IsFiniteSet(DOMAIN d)
           /\ \A a \in DOMAIN d : d[a] \in StateDiff /\ IsFiniteSet(DOMAIN d[a])
    /\ {DefaultName, NoName} \cap Address = {}
    /\ DefaultName # NoName

VARIABLES
    diffs,          \* db.diffs, of every account only its StorageDiffs
    given,          \* the overrides in the order in which they were given
    stage,          \* "collect", "overrides", "changes" or "end"
    list,           \* the slice diffs: accounts whose records are to be converted
    overrides,      \* the slice overrides, of which the converted ones are dropped
    stateOverrides, \* the result of convertOverridesToJSON
    stateChanges    \* the result of convertDiffsToJSON

reportVars == <<diffs, given, stage, list, overrides, stateOverrides, stateChanges>>

\* What a simulation can leave behind: accounts with records of storage, and others
\* of which only a balance or a nonce was recorded.
Init ==
    /\ diffs \in Diffs
    /\ given \in OverrideLists
    /\ stage = "collect"
    /\ list = <<>>
    /\ overrides = given
    /\ stateOverrides = <<>>
    /\ stateChanges = <<>>

-----------------------------------------------------------------------------
Orders(s) == {[i \in DOMAIN s |-> s[p[i]]] : p \in Bijection(DOMAIN s, DOMAIN s)}

\* sort.Slice by the text of one field.
Sorts(s, field) == {t \in Orders(s) : IsSorted(t, LAMBDA x, y : x[field] <= y[field])}

\* The elements of a set of numbers, in their order.
Ascending(S) ==
    CHOOSE t \in SetToSeqs(S) : \A i, j \in DOMAIN t : i < j => t[i] < t[j]

\* Faulty variant: a contract that is not configured gets the zero value.
MissesDefault(a) == IF a \in Named THEN a ELSE NoName

GetContractCfg(a) == IF a \in Named THEN a ELSE DefaultName

\* GetStateDiffs walks the map of accounts in any order.
GetStateDiffs ==
    /\ stage = "collect"
    /\ list' \in SetToSeqs({[address |-> a] : a \in DOMAIN diffs})
    /\ stage' = "overrides"
    /\ overrides' \in Sorts(overrides, "address")
    /\ UNCHANGED <<diffs, given, stateOverrides, stateChanges>>

\* Faulty variant: two overrides of one contract become one entry.
MergesOverrides ==
    /\ stage = "overrides"
    /\ overrides # <<>>
    /\ \E storage \in Sorts(Head(overrides).storage, "key") :
           LET a == Head(overrides).address
           IN  stateOverrides' =
                   SelectSeq(stateOverrides, LAMBDA o : o.address # a) \o
                   <<[name |-> GetContractCfg(a), address |-> a, overrides |-> storage]>>
    /\ overrides' = Tail(overrides)
    /\ UNCHANGED <<diffs, given, stage, list, stateChanges>>

\* One iteration of convertOverridesToJSON.
ConvertOverride ==
    /\ stage = "overrides"
    /\ overrides # <<>>
    /\ \E storage \in Sorts(Head(overrides).storage, "key") :
           LET a == Head(overrides).address
           IN  stateOverrides' = Append(stateOverrides,
                   [name |-> GetContractCfg(a), address |-> a, overrides |-> storage])
    /\ overrides' = Tail(overrides)
    /\ UNCHANGED <<diffs, given, stage, list, stateChanges>>

\* Faulty variant: the accounts stay in the order of the map.
LeavesMapOrder ==
    /\ stage = "overrides"
    /\ overrides = <<>>
    /\ stage' = "changes"
    /\ UNCHANGED <<diffs, given, list, overrides, stateOverrides, stateChanges>>

\* convertDiffsToJSON begins with a sort.
SortDiffs ==
    /\ stage = "overrides"
    /\ overrides = <<>>
    /\ list' \in Sorts(list, "address")
    /\ stage' = "changes"
    /\ UNCHANGED <<diffs, given, overrides, stateOverrides, stateChanges>>

Recorded(a, k) == [key |-> k, before |-> diffs[a][k].before, after |-> diffs[a][k].after]

\* The records of an account, in the order in which Go walks the map of them.
StorageDiffs(a) == SetToSeqs({Recorded(a, k) : k \in DOMAIN diffs[a]})

\* What is left of a list of records without those that change nothing.
ActualChanges(s) ==
    LET kept == Ascending({i \in DOMAIN s : s[i].before # s[i].after})
    IN  [n \in DOMAIN kept |-> s[kept[n]]]

\* One iteration of convertDiffsToJSON: no entry for an account without a change.
ConvertDiff ==
    /\ stage = "changes"
    /\ list # <<>>
    /\ LET a == Head(list).address
       IN  \E walked \in StorageDiffs(a) : \E sorted \in Sorts(walked, "key") :
               LET changes == ActualChanges(sorted)
               IN  stateChanges' =
                       IF changes = <<>> THEN stateChanges
                       ELSE Append(stateChanges,
                                [name |-> GetContractCfg(a), address |-> a, changes |-> changes])
    /\ list' = Tail(list)
    /\ UNCHANGED <<diffs, given, stage, overrides, stateOverrides>>

Build ==
    /\ stage = "changes"
    /\ list = <<>>
    /\ stage' = "end"
    /\ UNCHANGED <<diffs, given, list, overrides, stateOverrides, stateChanges>>

Next ==
    \/ GetStateDiffs
    \/ ConvertOverride
    \/ SortDiffs
    \/ ConvertDiff
    \/ Build

Spec == Init /\ [][Next]_reportVars

-----------------------------------------------------------------------------

TypeOK ==
    /\ diffs \in Diffs
    /\ given \in OverrideLists
    /\ stage \in {"collect", "overrides", "changes", "end"}
    /\ list \in Seq([address : DOMAIN diffs])
    /\ overrides \in Seq(Override)
    /\ stateOverrides \in Seq(StateOverride)
    /\ stateChanges \in Seq(StateChange)

Changed(a) == {k \in DOMAIN diffs[a] : diffs[a][k].before # diffs[a][k].after}

\* What the report should say of an account, read off the set of its changed slots.
ExpectedEntry(a) ==
    LET keys == Ascending(Changed(a))
    IN  [name |-> GetContractCfg(a), address |-> a,
         changes |-> [i \in DOMAIN keys |-> Recorded(a, keys[i])]]

Expected ==
    LET accounts == Ascending({a \in DOMAIN diffs : Changed(a) # {}})
    IN  [i \in DOMAIN accounts |-> ExpectedEntry(accounts[i])]

\* The same records give the same report, in whatever order Go walks its maps: every
\* changed slot once, in order, and no account without a change (template.go:192).
ReportDetermined == stage = "end" => stateChanges = Expected

\* The overrides shown are those that were given, entry by entry, also when a
\* contract or a slot occurs more than once (template.go:155).
OverridesShown ==
    stage = "end" =>
        /\ IsSorted(stateOverrides, LAMBDA x, y : x.address <= y.address)
        /\ \E order \in Orders(given) :
               /\ Len(order) = Len(stateOverrides)
               /\ \A i \in DOMAIN order :
                      /\ stateOverrides[i].address = order[i].address
                      /\ stateOverrides[i].overrides \in Sorts(order[i].storage, "key")

\* The accounts still to be converted, and those that already were and have changes.
Pending == {list[i].address : i \in DOMAIN list}
Done == {a \in DOMAIN diffs \ Pending : Changed(a) # {}}

\* Part of the list is converted: the entries are as they should be, one for every
\* account that is done, and all come before the accounts that are not.
ChangesSoFar ==
    /\ stage \in {"collect", "overrides"} => stateChanges = <<>>
    /\ stage = "overrides" => list \in SetToSeqs({[address |-> a] : a \in DOMAIN diffs})
    /\ stage \in {"changes", "end"} =>
           /\ \A i, j \in DOMAIN list : i < j => list[i].address < list[j].address
           /\ \A i, j \in DOMAIN stateChanges :
                  i < j => stateChanges[i].address < stateChanges[j].address
           /\ {stateChanges[i].address : i \in DOMAIN stateChanges} = Done
           /\ \A i \in DOMAIN stateChanges :
                  stateChanges[i] = ExpectedEntry(stateChanges[i].address)
           /\ \A a \in DOMAIN diffs \ Pending, b \in Pending : a < b
    /\ stage = "end" => list = <<>>

\* Of one sorted arrangement of the given overrides, the first are shown and the others
\* still to come.
OverridesSoFar ==
    /\ stage = "collect" => overrides = given /\ stateOverrides = <<>>
    /\ stage # "collect" =>
           \E order \in Sorts(given, "address") :
               /\ Len(order) = Len(stateOverrides) + Len(overrides)
               /\ \A i \in DOMAIN stateOverrides :
                      /\ stateOverrides[i].address = order[i].address
                      /\ stateOverrides[i].overrides \in Sorts(order[i].storage, "key")
               /\ \A i \in DOMAIN overrides : overrides[i] = order[Len(stateOverrides) + i]
    /\ stage \in {"changes", "end"} => overrides = <<>>

\* The inductive invariant behind the two properties above.
ReportInv == TypeOK /\ ChangesSoFar /\ OverridesSoFar
=============================================================================
