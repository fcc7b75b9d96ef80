----------------------------- MODULE Simulation -----------------------------
(***************************************************************************)
(* One simulated transaction: the override phase, the call frames the EVM  *)
(* opens, returns from and reverts, and the storage changes reported when  *)
(* the outermost call succeeds (transaction.SimulateTransaction, then the  *)
(* filter of template.convertDiffsToJSON).                                 *)
(*                                                                         *)
(* The EVM is go-ethereum's and external.  What it expects of a state      *)
(* database is kept beside the code's state: "real" is the storage a       *)
(* journaled database would hold, "journal" the copies that its snapshots  *)
(* stand for.  The program running in the EVM is arbitrary: any legal      *)
(* sequence of reads, writes, calls, returns and reverts.                  *)
(***************************************************************************)
EXTENDS StorageState

CONSTANT MaxDepth   \* bound on nested call frames (1024 in the EVM)

ASSUME DepthAssumption == MaxDepth \in Nat \ {0}

VARIABLES
    status,     \* "loading", "running", "reported" or "failed"
    real,       \* storage as a journaled database would hold it
    start,      \* storage when the outermost call begins
    journal,    \* real as it was when each open frame was entered
    torn,       \* slots whose first write could not fetch what it replaced
    undone,     \* slots whose last change the EVM has reverted
    settled     \* slots that were written, or read with a request that succeeded

evmVars == <<status, real, start, journal, torn, undone, settled>>
simVars == <<storageVars, evmVars>>

Storage == [Slot -> Word]
Front(seq) == SubSeq(seq, 1, Len(seq) - 1)

SimInit ==
    /\ Init
    /\ status = "loading"
    /\ real = Chain
    /\ start = Chain
    /\ journal = <<>>
    /\ torn = {}
    /\ undone = {}
    /\ settled = {}

-----------------------------------------------------------------------------
\* Evaluation of the state-overrides text, by NewEVM.

LoadOverrides ==
    /\ SetOverrides
    /\ UNCHANGED evmVars

LoadOne(ok) ==
    /\ ApplyOverride(ok)
    /\ LET entry == overrides[applied + 1]
       IN  /\ real' = [real EXCEPT ![entry.slot] = entry.value]
           /\ start' = [start EXCEPT ![entry.slot] = entry.value]
           /\ settled' = settled \cup {entry.slot}
    /\ UNCHANGED <<status, journal, torn, undone>>

-----------------------------------------------------------------------------
\* The EVM.

\* evm.Call of the transaction's recipient.
BeginCall ==
    /\ status = "loading"
    /\ Ready
    /\ Snapshot
    /\ status' = "running"
    /\ journal' = <<real>>
    /\ UNCHANGED <<real, start, torn, undone, settled>>

SLoad(s, ok) ==
    /\ status = "running"
    /\ GetState(s, ok)
    /\ settled' = settled \cup {t \in {s} : ok}
    /\ UNCHANGED <<status, real, start, journal, torn, undone>>

SStore(s, v, ok) ==
    /\ status = "running"
    /\ SetState(s, v, ok)
    /\ real' = [real EXCEPT ![s] = v]
    /\ torn' = torn \cup {t \in {s} : ~Written(t) /\ ~Hit(t) /\ ~ok}
    /\ undone' = undone \ {s}
    /\ settled' = settled \cup {s}
    /\ UNCHANGED <<status, start, journal>>

EnterCall ==
    /\ status = "running"
    /\ Len(journal) < MaxDepth
    /\ Snapshot
    /\ journal' = Append(journal, real)
    /\ UNCHANGED <<status, real, start, torn, undone, settled>>

ReturnCall ==
    /\ status = "running"
    /\ Len(journal) > 1
    /\ journal' = Front(journal)
    /\ UNCHANGED <<storageVars, status, real, start, torn, undone, settled>>

\* An inner frame fails and its caller goes on: REVERT, an exception, or a call
\* of Multicall3.aggregate3 that is allowed to fail.
RevertCall ==
    /\ status = "running"
    /\ Len(journal) > 1
    /\ RevertToSnapshot
    /\ LET saved == journal[Len(journal)]
       IN  /\ real' = saved
           /\ undone' = undone \cup {s \in Slot : real[s] # saved[s]}
    /\ journal' = Front(journal)
    /\ UNCHANGED <<status, start, torn, settled>>

\* SimulateTransaction: a failed outermost call is an error and reports nothing,
\* a successful one hands the diffs to the report.
Finish ==
    /\ status = "running"
    /\ Len(journal) = 1
    /\ \/ status' = "failed" /\ RevertToSnapshot
       \/ status' = "reported" /\ UNCHANGED storageVars
    /\ journal' = <<>>
    /\ UNCHANGED <<real, start, torn, undone, settled>>

SimNext ==
    \/ LoadOverrides
    \/ BeginCall
    \/ EnterCall
    \/ ReturnCall
    \/ RevertCall
    \/ Finish
    \/ \E ok \in BOOLEAN :
        \/ LoadOne(ok)
        \/ \E s \in Slot :
            \/ SLoad(s, ok)
            \/ \E v \in Word : SStore(s, v, ok)

SimSpec == SimInit /\ [][SimNext]_simVars

-----------------------------------------------------------------------------
\* convertDiffsToJSON reports a slot when its record's two values differ.
Reported(s) == Written(s) /\ diffs[s].before # diffs[s].after

\* The slots given two different values by the override list.
Conflicting ==
    {s \in Slot : \E i, j \in 1..Len(overrides) :
        /\ overrides[i].slot = s /\ overrides[j].slot = s
        /\ overrides[i].value # overrides[j].value}

SimTypeOK ==
    /\ TypeOK
    /\ status \in {"loading", "running", "reported", "failed"}
    /\ real \in Storage
    /\ start \in Storage
    /\ journal \in Seq(Storage)
    /\ Len(journal) <= MaxDepth
    /\ torn \subseteq Slot
    /\ undone \subseteq Slot
    /\ settled \subseteq Slot

\* A read answers what a journaled database would, of every slot whose last change
\* was not reverted, in every frame and whatever was overridden: or it answers zero,
\* because its own request failed (caching.go:190), but that only as long as the slot
\* was never written and no request for it has succeeded.
ReadsAreRight ==
    [][\A s \in Slot \ undone, ok \in BOOLEAN :
           SLoad(s, ok) => \/ ret' = real[s]
                           \/ ~ok /\ s \notin settled /\ ret' = ZeroWord]_simVars

\* The report is exact wherever it can be: leaving out slots whose change was
\* reverted, whose old value could not be fetched, or which the caller overrode
\* with two values, a slot is reported if and only if the call changed it, with
\* its content before the call (the override, if there was one) and after.
ReportExact ==
    \A s \in Slot \ (undone \cup torn \cup Conflicting) :
        /\ Reported(s) <=> real[s] # start[s]
        /\ Reported(s) => diffs[s] = [before |-> start[s], after |-> real[s]]

\* A request that failed spoils only the "before" of a record, and only by
\* making it zero: a spoiled slot still carries its final value.
TornIsZero ==
    \A s \in torn :
        /\ Written(s)
        /\ diffs[s].before = ZeroWord
        /\ s \notin undone => diffs[s].after = real[s]

\* The "before" of an overridden slot is the first value that the list gives it and
\* stays so: later values of the list, writes, reverts and failed requests change only
\* its "after" (caching.go:265).
OverrideIsBefore ==
    \A i \in 1..applied :
        LET s == overrides[i].slot
        IN  (\A j \in 1..i - 1 : overrides[j].slot # s) =>
                Written(s) /\ diffs[s].before = overrides[i].value

-----------------------------------------------------------------------------
(***************************************************************************)
(* The inductive invariant behind these properties.  A "before" is the *)
(* content the call started with because the slot was either never written *)
(* by then, so that its content was the chain's, or written by overrides   *)
(* only, each of which is its own "before".                                *)
(***************************************************************************)

Untouched == ~loaded => \A s \in Slot : ~Written(s)

LoadingIsClean ==
    IF status = "loading" THEN torn = {} /\ undone = {} ELSE Ready

\* While overrides are laid down every "before" is one of the values applied.
BeforeFromOverrides ==
    status = "loading" =>
        \A s \in Slot : Written(s) =>
            \E i \in 1..applied :
                overrides[i].slot = s /\ overrides[i].value = diffs[s].before

UnwrittenIsChain == \A s \in Slot : ~Written(s) => start[s] = Chain[s]

BeforeIsStart ==
    \A s \in Slot \ (torn \cup Conflicting) : Written(s) => diffs[s].before = start[s]

TornBefore == \A s \in torn : Written(s) /\ diffs[s].before = ZeroWord

\* The database holds what a journaled one would, cached or on the chain, and has
\* cached every slot that was settled.
ContentIsReal ==
    /\ \A s \in Slot \ undone : Content(s) = real[s]
    /\ \A s \in settled : Hit(s)

SimInv ==
    /\ StorageInv
    /\ SimTypeOK
    /\ Untouched
    /\ LoadingIsClean
    /\ BeforeFromOverrides
    /\ UnwrittenIsChain
    /\ BeforeIsStart
    /\ TornBefore
    /\ OverrideIsBefore
    /\ ContentIsReal

-----------------------------------------------------------------------------
\* A statement the repository makes that the code does not keep.

\* "methods that we don't need to implement for simulation" (caching.go:421,
\* which the snapshot methods fall under): without them the report is still
\* right, so a slot the call left as it was is not reported.
RevertsLeaveNoTrace ==
    status = "reported" =>
        \A s \in Slot \ (torn \cup Conflicting) : Reported(s) => real[s] # start[s]
=============================================================================
