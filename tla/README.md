# A verification of state-diff

`state-diff` takes a transaction, simulates it on the state of the latest block
of a node, and reports which storage slots it changes, so that the signers of a
multisig can compare the changes with what they expect. This directory holds
TLA+ models of the parts of it that carry state, the TLC configurations that
check them on small instances, and proofs of their main properties.

File and line numbers refer to the repository's `src/`.

## The system

The program is sequential: one goroutine, no locks. What makes it hard is not
concurrency but a long protocol between a foreign interpreter (go-ethereum's
EVM) and a state database that implements only part of what the EVM expects,
over a remote node that may fail on any request.

| component | state | operations | hard behaviour |
| --- | --- | --- | --- |
| state database, storage (`internal/state/caching.go`) | `cache`, `diffs`, `Overrides` | `GetState`, `SetState`, `setState`, `SetOverrides`, `applyOverrides`, `Snapshot`, `RevertToSnapshot`, `GetStateDiffs` | two copies of every written slot, requests that fail at any read, overrides before the run, reverted frames |
| state database, balances | `cache`, `diffs[a].BalanceBefore/After`, as pointers | `GetBalance`, `SubBalance`, `AddBalance` | cells shared between cache, records and EVM; check and subtraction are separate calls |
| state database, nonces and code | `cache`, `diffs[a].Nonce*` | `GetNonce`, `SetNonce`, `GetCode`, `SetCode` (stub) | failed requests, contracts created during the run |
| state database, preimages | `preimages` | `AddPreimage`, `GetPreimage` | read after the run by the slot lookup |
| state database, stubs | none | access list, refunds, transient storage, logs, account creation | the EVM acts on the constants they return |
| EVM set-up (`internal/evm/evm.go`) | the block the run is pinned to | `NewEVM` | overrides are applied before anything runs; the block is pinned by number |
| chain context (`internal/chain/chain.go`) | none | `GetHeader` | ignores the hash it is asked for, while the node's chain may be reorganised |
| simulation (`internal/transaction/transaction.go`) | none of its own | `CreateTransaction`, `SimulateTransaction`, `GetTargetedSafe` | success with reverted inner frames |
| report (`internal/template`) | the contract configuration | `convertDiffsToJSON`, `convertOverridesToJSON`, `getSlot`, `UnmarshalYAML` | which records are changes; Go's map orders; a walk over preimages with no bound |
| script input (`internal/command/command.go`) | none | `readInput`, `run`, `parseInput` | text found between markers that may be missing, repeated or out of order; decoding that depends on the parity of a text |
| program (`main.go`) | flags, stdout, exit status | `main`, `parseSigningData` | stdout is the JSON the caller parses |
| Multicall3 bindings, Makefile, run.sh | none | generated code and shell commands | not modelled |

How they interact: `main` asks `command` (or its flags) for the transaction,
`NewEVM` creates the database and applies the overrides, `SimulateTransaction`
gives control to the EVM, whose instructions call the database; the database
calls the node on every miss. When the outermost call succeeds, the report walks
the database's records and looks slots up in the configuration and the
preimages.

What makes each component correct:

* storage: the EVM sees one private copy of the chain's storage at one block,
  overlaid with its own writes; a record's `before` is the content the slot had
  before the transaction; failed requests spoil nothing they need not spoil;
* balances: no ether appears, no subtraction wraps, sharing cells never changes a
  recorded amount;
* simulation and report: a slot is reported if and only if the transaction
  changed it, with the content before and after;
* chain: everything the simulation sees comes from one block, and every question
  has one answer, also while the node's chain moves;
* slot lookup: it ends, finds the first configured slot on the preimage walk, and
  the configuration is loaded as a whole or not at all;
* script input, program: what is signed and simulated is what the script printed;
  the exit status tells whether there is a report; stdout is nothing but it.

## Modules

| module | what it is |
| --- | --- |
| `OverlayStore` | abstract: a private copy of the chain's storage with a `first` value per written slot; no cache, no records |
| `StorageState` | the storage half of `CachingStateDB`; implements `OverlayStore` |
| `Simulation` | a whole simulated transaction over `StorageState`: overrides, call frames, reverts, the report's filter |
| `Balances` | the balance half of `CachingStateDB` with its heap cells, driven by the EVM's transfers, touches and SELFDESTRUCT in frames that may revert |
| `Accounts` | nonces and code, driven by CREATE, CREATE2, calls and reverts |
| `PinnedChain` | the requests of one simulation and `BLOCKHASH`'s walk, on a chain that grows and is reorganised meanwhile |
| `SlotLookup` | preimages recorded by the EVM, the loading of the contract configuration, and `getSlot`'s walk |
| `Report` | `GetStateDiffs`, `convertOverridesToJSON` and `convertDiffsToJSON` over Go's unordered maps |
| `ScriptInput` | `parseInput`'s scans as operators over texts of tokens |
| `Program` | `main` from flags to exit, with what the functions it calls write and how they end; extends `ScriptInput` |
| `MCSimulation`, `MCBalances`, `MCAccounts`, `MCReport`, `MCProgram` | instances for TLC; `SlotLookup` and `PinnedChain` need none |
| `StorageStateProofs`, `SimulationProofs`, `BalancesProofs`, `AccountsProofs`, `PinnedChainProofs`, `SlotLookupProofs`, `ReportProofs`, `ProgramProofs` | the theorems about the module in the name; `ScriptInput`'s are in `ProgramProofs` |

`Simulation` extends `StorageState`, so its actions call the database's
operators (`SLoad` is `GetState`, `SStore` is `SetState`, `BeginCall` and
`EnterCall` take a `Snapshot`, `RevertCall` is `RevertToSnapshot`).

### StorageState

`cache[s]` and `diffs[s]` are the entries of `db.cache` and
`db.diffs[addr].StorageDiffs[key]` for the slot `s` = (address, key); `Absent` is
a miss, and a record with `isSet` is one that is not `Absent`. The other kinds of
entries of the `sync.Map` are kept apart: their keys are hashes of other
preimages. `GetState`, `setState` and `SetState` are the functions of the same
name; every request to the node succeeds or fails by choice (`ok`).
`SetOverrides` and one `ApplyOverride` per entry are `SetOverrides` and the loop
of `applyOverrides`; text that does not decode leaves an empty list. A request
made for an override's old value has no effect that lasts, because the write
that follows replaces the cache entry, as in the code.

### Simulation

The EVM is external. The program it runs is arbitrary: any sequence of reads,
writes, calls, returns and reverts up to `MaxDepth` nested frames, then success
or failure of the outermost call. Beside the code's state the model keeps what
the EVM expects of a database: `real` is the storage a journaled database would
hold, `journal` the copies taken by its snapshots, `start` the storage when the
call begins. `torn` and `undone` collect the slots on which the code and `real`
may part: the first write could not fetch the old value; the last change was
reverted. `settled` are the slots that were written or overridden, or fetched with
success: `ReadsAreRight` is about what a read returns, and allows the zero of a
failed request only for a slot that is not one of them. `Reported` is the filter of `convertDiffsToJSON`.

### Balances

Go's `*uint256.Int` values are cells of `heap`; `cache`, `before` and `after`
hold cells. `SubBalance` and `AddBalance` write through the cell of
`BalanceAfter` and put the same cell in the cache, as the code does. One EVM
operation is several calls: a transfer checks with `GetBalance`, then subtracts,
then adds, and a request may fail at each; SELFDESTRUCT holds the pointer
`GetBalance` gave it over both calls.

`ledger` is what the accounts should hold: it moves the amount an operation means
(`due`), and a frame that reverts takes it back to its copy in `journal`. The code
takes nothing back, so on the accounts of such a revert the two may part; `undone`
collects them, and the accounts paid from a balance that the ledger does not
cover, which a journaled database would have refused to move.

### Accounts

`nonceCache` and `nonceDiffs` are the nonce entries of `db.cache` and the nonce
fields of `db.diffs`, `codeCache` the accounts whose code is cached. Contract
creation is the EVM's, but it is what makes these methods a protocol: it asks
for the creator's nonce twice and stores it a third time, then looks for code
and a nonce at the new address, then sets that nonce; a request may fail at any
of these, init code may create in turn, and calls and creations may revert. Each
is an action, named by the stage of the innermost frame. `real`, `deployed` and
the copies in the frames are what a journaled database would hold; `used`
collects the nonces from which addresses were made; `failed` and `undone` are
the accounts for which nothing exact can be promised.

### PinnedChain

The node is an actor: `Grow` adds a block to its chain, `Reorganise` replaces the
blocks from some height on. A block is the sequence of branches that leads to it,
so that it is its own hash and its parent is its front. `NewEVM` asks for the
latest header, after which the database asks for everything at that *number*
(`Read`, one action for `GetState`, `GetBalance`, `GetNonce` and `GetCode`, which
look in the cache, ask, and keep an answer in the same way). `BlockHash` and `Walk`
are go-ethereum's `GetHashFn`, which keeps the hashes it has met and goes back
header by header, by the number in each; `GetHeader` is what the code gives it.
`told` is what the simulated program was answered, `intact` the height up to which
the chain of the pinned block was never replaced.

### SlotLookup

`mapping[s]` is the second half of the preimage of `s`, when that is 64 bytes:
the slot of the mapping that `s` is an entry of. Any nesting is an initial state,
provided a hash is computed after what is hashed; any set of preimages may be
recorded. The configuration is any document: each contract of each chain is
missing, has null slots, refers to a layout that is or is not described, or has
slots of another type; or the whole is not readable as YAML. After the simulation
`NewFileGenerator` reads it and, if it can be read, begins to load it;
`UnmarshalContract` is one iteration of `UnmarshalYAML`'s inner loop, in any order,
as Go's maps have none. `GetSlot` is the first lookup and `Walk` one iteration of
its loop.

### Report

One action per loop iteration of the two conversions, after `GetStateDiffs` has
put the accounts in any order; the records of an account are walked in any order
as well. `Sorts` is `sort.Slice`: any sorted arrangement, for it is not stable.
The two output formats hold the same lists and are not told apart.

### ScriptInput and Program

A text is a sequence of tokens: the markers, blanks, numbers and other words. What
`parseInput` tells apart is kept: `Signed` cuts between the markers as it does,
with each of them missing or not, `TenderlyLink` and `ExtraData` find the link and
the raw input. `FromHex` is go-ethereum's: it takes the number a text begins with,
but puts a zero before a text of odd length, which shifts every byte by half
(`shifted`); so a token knows whether its length is odd.

`stage` is the call `main` makes next. Each function it calls is an action with
all the ways it can end: go on, exit with status 1, panic, or return from
`main`; `out` holds what it writes on standard output. `hashes`, `tx` and `sender`
are what the program ends up reporting on, `link` what the script's link has.
Other texts are reduced to what decides a branch. `misread` remembers a failed
storage request, which prints a line on standard output: `FetchStorage` stands for
any number of such requests, which both `NewEVM` (for every slot that is overridden)
and `SimulateTransaction` make. Failed requests of the other kinds are silent.

## What the runs show

| run | instance | checks | result |
| --- | --- | --- | --- |
| `simulation` | 2 slots, 3 words, 4 override lists, 3 frames | `TypeOK`, `CacheCoherent`, `BeforeIsKept`, `ImplementsOverlay`, `ReadsAreRight`, `OverrideIsBefore`, `ReportExact`, `TornIsZero` | hold |
| `balances` | 3 accounts, 2 units of ether, amounts below 3, an inner frame | `TypeOK`, `BeforeIntact`, `AfterIsCurrent`, `NoOverdraft`, `BalancesExact`, `NeverRicher`, `NothingMinted` | hold |
| `accounts` | a contract and two free addresses, nonces up to 3, 2 frames | `TypeOK`, `NoncesCoherent`, `NoncesExact`, `AddressesFresh`, `NoncesNeverFall` | hold |
| `chain` | 2 branches, 3 blocks above the first, one thing to read | `TypeOK`, `OfPinnedBlock`, `OneAnswer`, `WalkEnds` | hold |
| `slot_lookup` | 4 slots, 2 contracts, a layout | `TypeOK`, `NearestDescription`, `WholeDocument`, `LookupEnds` | hold |
| `report` | 3 accounts, 4 sets of records, 2 override lists | `TypeOK`, `ReportDetermined`, `OverridesShown` | hold |
| `program` | every command line and link, 105 script outputs | `TypeOK`, `StatusTellsTruth`, `OneReport`, `CleanIfWellFed`, `HashesAsPrinted`, `TransactionAsPrinted`, `OverridesAsGiven` | hold |
| `reverted_writes` | as `simulation` | `RevertsLeaveNoTrace` | violated |
| `selfdestruct` | as `balances` | `SelfDestructPays` | violated |
| `created_code` | as `accounts` | `CreatedCodeIsThere` | violated |
| `stdout_report` | as `program` | `StdoutIsReport` | violated |
| `raw_input` | as `program` | `RawInputEndsAtBlank` | violated |

The bounds. Slots do not interact except through frames, so two show
every combination of read, written and untouched; one slot is zero on the chain
and the other is not, so the zero of a failed request can hide and can be
mistaken for content. Three words give a slot an old value, a new one and a
third to come back from. Three frames nest a revert inside a frame that is
itself reverted or returned. The override lists hold a repeated slot, a value
the chain has already and a value it has not. Three accounts let a payer, a payee and an
heir differ or coincide, and one of them has nothing to pay with; all the ether
stays below `Modulus`, as it does below 2^256; one inner frame after another lets a
transfer, a SELFDESTRUCT or a failed request come before, inside and after a
revert; the two accounts that are not empty are symmetric. In `accounts` two frames
nest a creation in a creation or in a call that reverts, two free addresses collide
or not, and three increments of a nonce let it be read, written and read again; the
free addresses are symmetric. Three blocks above the first let a walk of two steps
be cut in the middle by a reorganisation, above, at or below the step, and let the
chain become shorter than the pinned block; answers do not interact, so one thing
to read is enough. Four slots hold a mapping of mappings of mappings; of two
contracts one can be wrong and the other asked for. Three accounts and two keys are
the fewest whose order can go wrong at both ends and in the middle. The scripts of
`MCProgram` combine links, insertions and markings that are as they should be,
missing, out of order, or followed by what they should not be.
The depth of frames, the nonces of `Accounts` and the height of the chain are
capped by guards (`MaxDepth`, `MaxNonce`, `MaxHeight`), nothing else is.
The state spaces are finite and explored completely.

Deadlock is not checked in `simulation`, `slot_lookup`, `report`, `program` and
their violations, which end when there is an answer or an exit, nor in
`accounts`, where a creation may reach the bound on nonces.

Fairness. `SlotLookup` assumes weak fairness of `Walk`: the loop runs on the one
goroutine of the program and waits for nothing, so as long as the process runs its
next iteration happens. `LookupEnds` then holds because a hash is computed after
what is hashed. `PinnedChain` assumes weak fairness of its `Walk`, one step of which
contains a request: that every request is answered or fails is an assumption about
the node, as the code sets no timeout; which of the two happens is open, and the
node's own actions have no fairness. `WalkEnds` then holds because `GetHeader` asks
once and by number. All other properties are about safety and need no fairness.

### What the violated properties mean

* `RevertsLeaveNoTrace`: an inner call that is allowed to fail (as in
  `aggregate3`) writes a slot and reverts. The write stays in the cache, where
  the rest of the transaction reads it, and in the records, where the report
  finds it. `caching.go:421` lists the snapshot methods among those "we don't
  need to implement for simulation".
* `SelfDestructPays`: a contract that runs has been added to (its call transfers
  zero at least), so its balance is the shared cell. SELFDESTRUCT fetches the
  pointer, `SubBalance` zeroes the cell, `AddBalance` adds the zero. The ether is
  lost for the rest of the simulation, against `caching.go:398`.
* `CreatedCodeIsThere`: `SetCode` keeps nothing, so a call of a contract that the
  transaction itself has created finds no code, succeeds and does nothing.
  `caching.go:421` counts `SetCode` among the methods a simulation does not need.
* `StdoutIsReport`: without overrides `main` hands `SetOverrides` the empty text,
  which is not JSON; the error goes to standard output, in front of the report,
  against `main.go:114`. `CleanIfWellFed` shows that this and failed storage
  requests are the only sources of such text with extracted data.
* `RawInputEndsAtBlank`: a space after the raw input stays in the query, against the
  comment at `command.go:94`. It makes the text odd, and `FromHex` shifts every byte
  of the call data by half: another call is simulated and reported.
  `TransactionAsPrinted` shows that a line that ends where the number does is taken
  as it is.

Some properties that hold say less than one may expect: the code does something
wrong, and they say how far it reaches.

* `OfPinnedBlock` promises the pinned block's state only while that block is part of
  the node's chain: the database asks by number, and after a reorganisation one
  simulation mixes two blocks (`OneAnswer` is all that is left then).
* `HashesAsPrinted` promises the hashes the script marks; it does not say that
  everything accepted was marked, for without a suffix, or with a word beside the
  hashes, `FromHex` may find 66 bytes that are shifted.
* `TornIsZero` is about slots whose old value could not be fetched: their `before`
  is zero, which may hide a change from the report; their `after` is right.
* `OverrideIsBefore`: of a slot that is overridden twice the first value is the
  `before`, so that a second, different one is reported like a change of the
  transaction. `ReportExact` leaves these slots out (`Conflicting`).
* `BeforeIntact` and `NeverRicher`: a balance that could not be fetched before a first
  write is recorded as zero for good; the account may be too poor to pay, but nobody
  gains.
* `NoOverdraft` and `NothingMinted`: what a reverted frame has moved stays moved, so the
  accounts in `undone` are wrong; even then nothing wraps, and other accounts never
  hold more together than the chain did.
* `OverridesAsGiven`: overrides that do not decode are dropped and the report is made
  all the same; the line on standard output that says so always comes before it.
* `StatusTellsTruth`: a report whose file cannot be written leaves status zero; the
  last line on standard output is the only sign.

## What is proved

Every invariant and every action property that a run checks is also a theorem, as is
the refinement of `OverlayStore`: what TLC shows of an instance holds for every set
of slots, words, accounts, scripts, documents and records, every content of the
chain, and every bound on depth, nonces, heights and slots. Each component has one
inductive invariant, proved action by action, from which the others follow.

* `StorageInvariant`: `CacheCoherent` with typing is inductive. From it
  `StorageTyping`, `StorageCoherence`, `BeforeKept` (an action property) and
  `StorageImplementsOverlay`: each action of the database is a read, a failed
  read, a write, an override or the closing of the override phase of
  `OverlayStore`, or leaves it unchanged.
* `SimulationUsesStorage`: a simulation is a behaviour of `StorageState`, so all
  of the above holds in it.
* `SimInvariant`, from which `ReadsAreAlwaysRight` (an action property),
  `OverrideStaysBefore`, `ReportIsExact` and `TornSlotsAreZero` follow. That reads are
  right rests on `ContentIsReal`: outside `undone` the database holds what a journaled
  one would, and every slot in `settled` is cached. `ReportExact` is not inductive:
  that `before` is the content at the start of the call rests on why it was
  recorded. `SimInv` carries that reason: while overrides are laid down every
  `before` is one of the values applied so far (`BeforeFromOverrides`), so that
  without conflicting overrides it is the last one, which is what the call starts
  with; a slot that was never written starts with the chain's content
  (`UnwrittenIsChain`); afterwards `BeforeIsStart` is kept because only a first
  write sets a `before`, and then the slot still has the chain's content.
* `BalanceInvariant`, from which `BalanceTyping`, `BeforeStaysIntact`,
  `RecordAgreesWithCache`, `NeverOverdrawn` and `BalancesStayExact` follow. The
  strengthening says which cells a pointer may be (`Pointers`), that fetched and
  zero cells are never written (`Cells`), that a pending subtraction takes a
  value that was checked and cached or the whole balance (`SubCovered`), and that
  a pending addition carries what is due unless it pays an heir or an account in
  `undone` (`AddDue`).
* `EtherInvariant`, from which `NobodyGetsRicher` and `NoEtherIsMinted` follow.
  That nobody gets richer fails if an addition wraps, so the invariant has to say
  that ledger and pending payment together never exceed what the chain holds
  (`NoEtherAppears`), which is less than 2^256, and that what is added is no more
  than what was subtracted (`DueCovered`, `AddBounded`). There is no sum: `Total`
  is the number of units of ether, and a payment moves units from one account to
  another, whose number the theorems on finite sets give.
* `AccountInvariant`, from which `AccountTyping`, `NoncesStayCoherent`,
  `NoncesStayExact`, `AddressesStayFresh` and `NoncesNeverGoBack` (an action
  property) follow. A creation is several calls with requests that may fail in
  between; the strengthening says that what the innermost creation has in hand is
  still what the database would answer (`CountInHand`, `RecordInHand`,
  `NewInHand`), and that no other frame has anything in hand (in `TypeOK`).
* `ChainInvariant`, from which `ChainTyping`, `AnswersOfPinnedBlock` and
  `OneAnswerOnly` follow. What the program was told is what it keeps
  (`ToldIsKept`), what it keeps is of the pinned block below the lowest fork
  (`AnswersKept`, `HashesKept`), and the node still has that part (`IntactHolds`).
* `LookupInvariant`, from which `LookupTyping`, `DocumentLoadedWhole` and
  `DescriptionIsNearest` follow. The loop has passed nothing that is described:
  every described slot that the asked one belongs to is still ahead (`StillAhead`).
  `Owners` is the least set closed under `Leads`, not a recursion, so that one
  step of the walk unfolds it once (`OwnersUnfold`).
* `ReportInvariant`, from which `ReportTyping`, `ReportIsDetermined` and
  `OverridesAreShown` follow. What is converted so far is one exact entry for each
  account that has come up, in ascending order, and the accounts still to come are
  greater (`ChangesSoFar`); the overrides shown are the first of one sorted
  arrangement of those given (`OverridesSoFar`). The lemmas show that a finite set
  of numbers ascends in one way only, whatever the order in which a map gives it.
* `ProgramInvariant`, from which `ProgramTyping`, `StatusAlwaysTellsTruth`,
  `ReportGoesOnce`, `CleanWhenWellFed`, `HashesFound`, `TransactionFound` and
  `OverridesApplied` follow. It says where the parameters, the transaction and the
  sender come from at each stage (`QuerySource`, `TxSource`), and what has become of
  the overrides and been printed of them (`SimulatedFirst`, `SilentIfWellFed`). Lemmas on the scans of `ScriptInput` show
  what the first occurrence of a token is and what stands between two of them.
* `WalkDescends`, in `SlotLookupProofs` and `PinnedChainProofs`: every iteration of
  the two loops without a bound ends the loop or lowers a natural number. That is
  what `LookupEnds` and `WalkEnds` rest on, without fairness.

The assumptions are those named in the modules: `StorageAssumption`,
`DepthAssumption`, `BalanceAssumption`, `EtherAssumption`, `AccountAssumption`,
`ChainAssumption`, `LookupAssumption`, `ReportAssumption`, `InputAssumption`. They
type the constants and keep the sentinels apart from the data. Two say more:
`EtherAssumption`, that there are finitely many accounts and that all their ether
fits in one balance, as it does with 160-bit addresses and 2^256; and
`ReportAssumption`, that records are finite and that addresses and keys are numbers:
their places in the order of their texts, which is how the code compares them.

Where a proof needs induction it takes the least counterexample of a set of numbers
(`LeastNumber`, from the well-foundedness of the naturals), as the induction theorems
take an operator for a parameter.

Only model-checked: `LookupEnds` and `WalkEnds`, which are liveness under fairness,
and the violated properties, which are counterexamples.

## What is not modelled, and the plan

* Gas. The EVM computes it from answers of which several are constants here (all
  addresses and slots warm, no refunds, committed state zero); the models let any
  frame fail or succeed, which covers every outcome but says nothing of which.
* Transient storage and logs: the methods keep no state and answer constants, so a
  model would only restate them.
* The choice of a chain configuration in `NewEVM`, but for the chain that has none.
* The bytes of keys, values and descriptions, decoded values, and the wording of
  messages. `SlotLookup` takes a description for the slot it belongs to.
* YAML and JSON decoding: a text decodes or does not.
* `bindings/Multicall3.go`, which is generated and used for its ABI text only, the
  `Makefile` and `run.sh`.

No more of the code keeps state that a property could be about, and no invariant of
a run is left without a theorem. What the plan has left, most important first:

1. An abstract specification of the simulation's view of the chain, a block that
   never changes and answers or does not, which `PinnedChain` implements as long as
   no reorganisation reaches the pinned block.
2. An abstract specification of the report, one step from records to lists, which
   `Report` implements.
3. Theorems that say where the violated properties do hold: `RevertsLeaveNoTrace`
   without reverts, `StdoutIsReport` with overrides given, `RawInputEndsAtBlank`
   when no blank but a newline follows.
