------------------------------ MODULE Accounts ------------------------------
(***************************************************************************)
(* The nonces and the code of CachingStateDB (internal/state/caching.go),  *)
(* driven by the one thing that changes them in a simulation: contract     *)
(* creation.  The EVM is external; its creation is cut at every call of    *)
(* the database, since each may go to the node and fail:                   *)
(*                                                                         *)
(*   CREATE    GetNonce of the creator, for the new address                *)
(*   "count"   GetNonce of the creator, to be incremented                  *)
(*   "record"  SetNonce of the creator                                     *)
(*   "code"    GetCodeHash of the new address                              *)
(*   "nonce"   GetNonce of the new address; code or a nonce is a collision *)
(*   "new"     Snapshot, SetNonce(1) of the new address                    *)
(*   "init"    the init code runs, and may call and create                 *)
(*                                                                         *)
(* CREATE2 takes its address from a salt and starts at "count".  Calls are *)
(* frames of stage "call".  "real" and "deployed" are what a journaled     *)
(* database would hold; a frame keeps the copies its snapshot stands for.  *)
(***************************************************************************)
EXTENDS Naturals, Sequences

CONSTANTS
    Addr,       \* accounts
    MaxNonce,   \* bound on nonces (2^64 - 1 in the EVM)
    MaxDepth,   \* bound on nested frames (1024 in the EVM)
    ChainNonce, \* ChainNonce[a]: nonce of a at block db.blockNum
    Contracts,  \* the accounts with code at block db.blockNum
    Nil         \* a cache miss, or a nonce that was not written

Nonce == 0 .. MaxNonce
NonceDiff == [before : Nonce, after : Nonce]
Stage == {"count", "record", "code", "nonce", "new", "init", "call"}
RunningStage == {"init", "call"}

\* A contract has nonce one at least (EIP-161).
ASSUME AccountAssumption ==
    /\ MaxNonce \in Nat
    /\ MaxDepth \in Nat
    /\ ChainNonce \in [Addr -> Nonce]
    /\ Contracts \subseteq {a \in Addr : ChainNonce[a] > 0}
    /\ Nil \notin Nonce
    /\ Nil \notin NonceDiff

VARIABLES
    nonceCache,  \* db.cache, nonce entries: a nonce or Nil
    nonceDiffs,  \* db.diffs[a].Nonce*: a record once NonceSeen, or Nil
    codeCache,   \* db.cache, code entries: the accounts whose code is cached
    frames,      \* the creations and calls in progress, innermost last
    real,        \* the nonces a journaled database would hold
    deployed,    \* the accounts that got code, as a journaled database has it
    used,        \* used[c]: the nonces from which c's new addresses were made
    failed,      \* accounts for which a request for the nonce has failed
    undone       \* accounts whose last change of nonce the EVM has reverted

nonceVars == <<nonceCache, nonceDiffs>>
realVars == <<real, deployed, undone>>
accountVars == <<nonceVars, codeCache, frames, realVars, used, failed>>

Init ==
    /\ nonceCache = [a \in Addr |-> Nil]
    /\ nonceDiffs = [a \in Addr |-> Nil]
    /\ codeCache = {}
    /\ frames = <<>>
    /\ real = ChainNonce
    /\ deployed = {}
    /\ used = [a \in Addr |-> {}]
    /\ failed = {}
    /\ undone = {}

-----------------------------------------------------------------------------
\* The database.  ok tells whether the request, if one is made, succeeds.

\* Faulty variant: what was written is not looked up.
IgnoresCache(a, ok) == IF ok THEN ChainNonce[a] ELSE 0

GetNonce(a, ok) ==
    IF nonceCache[a] # Nil THEN nonceCache[a] ELSE IF ok THEN ChainNonce[a] ELSE 0

\* Faulty variant: the zero of a failed request is cached.
CachesFailure(a, ok) ==
    [nonceCache EXCEPT ![a] = IF @ = Nil THEN IF ok THEN ChainNonce[a] ELSE 0 ELSE @]

\* Only a successful answer is stored.
GetNonceCache(a, ok) ==
    [nonceCache EXCEPT ![a] = IF @ = Nil /\ ok THEN ChainNonce[a] ELSE @]

NoteFailure(a, ok) ==
    failed' = failed \cup {b \in {a} : nonceCache[b] = Nil /\ ~ok}

\* Faulty variant: the cache is left to the read of the old nonce.
ForgetsCache(a, nonce, ok) ==
    /\ nonceDiffs' = [nonceDiffs EXCEPT ![a] =
           [before |-> IF @ = Nil THEN GetNonce(a, ok) ELSE @.before, after |-> nonce]]
    /\ nonceCache' = GetNonceCache(a, ok)
    /\ NoteFailure(a, ok)

\* Faulty variant: every write takes a new "before".
RetakesBefore(a, nonce, ok) ==
    /\ nonceDiffs' = [nonceDiffs EXCEPT ![a] = [before |-> GetNonce(a, ok), after |-> nonce]]
    /\ nonceCache' = [nonceCache EXCEPT ![a] = nonce]
    /\ NoteFailure(a, ok)

\* Faulty variant: the nonce is incremented once more on its way to the cache.
CountsTwice(a, nonce, ok) ==
    /\ nonceDiffs' = [nonceDiffs EXCEPT ![a] =
           [before |-> IF @ = Nil THEN GetNonce(a, ok) ELSE @.before, after |-> nonce]]
    /\ nonceCache' = [nonceCache EXCEPT ![a] = nonce + 1]
    /\ NoteFailure(a, ok)

SetNonce(a, nonce, ok) ==
    /\ nonceDiffs' = [nonceDiffs EXCEPT ![a] =
           [before |-> IF @ = Nil THEN GetNonce(a, ok) ELSE @.before, after |-> nonce]]
    /\ nonceCache' = [nonceCache EXCEPT ![a] = nonce]
    /\ NoteFailure(a, ok)

\* GetCode, GetCodeHash and GetCodeSize: whether they find code.  A failed request
\* finds none and is not cached, an empty answer is.
GetCode(a, ok) == a \in Contracts /\ (a \in codeCache \/ ok)

GetCodeCache(a, ok) == codeCache \cup {b \in {a} : ok}

\* SetCode, CreateAccount and CreateContract keep nothing.
SetCode == UNCHANGED codeCache

-----------------------------------------------------------------------------
\* Creation, by the EVM.

Top == frames[Len(frames)]
Outer == SubSeq(frames, 1, Len(frames) - 1)
In(stage) == frames # <<>> /\ Top.stage = stage
Running == frames = <<>> \/ In("init") \/ In("call")

\* Code runs for a contract whose code was fetched and for one being created; a
\* contract created before has none in the database.
Runs(c) ==
    \/ c \in Contracts \cap codeCache
    \/ \E i \in 1..Len(frames) : frames[i].stage = "init" /\ frames[i].address = c

\* The innermost creation goes on to its next stage, with n in hand.
Goto(stage, n) == frames' = Append(Outer, [Top EXCEPT !.stage = stage, !.nonce = n])

Frame(stage, c, a, n) ==
    [stage |-> stage, creator |-> c, address |-> a, from |-> n, nonce |-> 0,
     taken |-> FALSE, saved |-> real, code |-> deployed]

Create(c, a, ok) ==
    /\ Running /\ Runs(c) /\ Len(frames) < MaxDepth
    /\ nonceCache' = GetNonceCache(c, ok)
    /\ NoteFailure(c, ok)
    /\ frames' = Append(frames, Frame("count", c, a, GetNonce(c, ok)))
    /\ UNCHANGED <<nonceDiffs, codeCache, realVars, used>>

Create2(c, a) ==
    /\ Running /\ Runs(c) /\ Len(frames) < MaxDepth
    /\ frames' = Append(frames, Frame("count", c, a, Nil))
    /\ UNCHANGED <<nonceVars, codeCache, realVars, used, failed>>

CountNonce(ok) ==
    /\ In("count")
    /\ GetNonce(Top.creator, ok) < MaxNonce
    /\ real[Top.creator] < MaxNonce
    /\ nonceCache' = GetNonceCache(Top.creator, ok)
    /\ NoteFailure(Top.creator, ok)
    /\ Goto("record", GetNonce(Top.creator, ok))
    /\ UNCHANGED <<nonceDiffs, codeCache, realVars, used>>

RecordNonce(ok) ==
    /\ In("record")
    /\ LET c == Top.creator
       IN  /\ SetNonce(c, Top.nonce + 1, ok)
           /\ real' = [real EXCEPT ![c] = @ + 1]
           /\ used' = [used EXCEPT ![c] = @ \cup ({Top.from} \ {Nil})]
    /\ Goto("code", 0)
    /\ UNCHANGED <<codeCache, deployed, undone>>

CheckCode(ok) ==
    /\ In("code")
    /\ codeCache' = GetCodeCache(Top.address, ok)
    /\ frames' = Append(Outer,
           [Top EXCEPT !.stage = "nonce", !.taken = GetCode(Top.address, ok)])
    /\ UNCHANGED <<nonceVars, realVars, used, failed>>

\* Code or a nonce at the new address fails the creation.
CheckNonce(ok) ==
    /\ In("nonce")
    /\ nonceCache' = GetNonceCache(Top.address, ok)
    /\ NoteFailure(Top.address, ok)
    /\ IF Top.taken \/ GetNonce(Top.address, ok) # 0 THEN frames' = Outer ELSE Goto("new", 0)
    /\ UNCHANGED <<nonceDiffs, codeCache, realVars, used>>

NewContract(ok) ==
    /\ In("new")
    /\ LET a == Top.address
       IN  /\ SetNonce(a, 1, ok)
           /\ real' = [real EXCEPT ![a] = 1]
           /\ undone' = undone \ {a}
    /\ frames' = Append(Outer,
           [Top EXCEPT !.stage = "init", !.saved = real, !.code = deployed])
    /\ UNCHANGED <<codeCache, deployed, used>>

EndCreation ==
    /\ In("init")
    /\ SetCode
    /\ deployed' = deployed \cup {Top.address}
    /\ frames' = Outer
    /\ UNCHANGED <<nonceVars, real, used, failed, undone>>

EnterCall ==
    /\ Running /\ Len(frames) < MaxDepth
    /\ frames' = Append(frames, Frame("call", Nil, Nil, Nil))
    /\ UNCHANGED <<nonceVars, codeCache, realVars, used, failed>>

ReturnCall ==
    /\ In("call")
    /\ frames' = Outer
    /\ UNCHANGED <<nonceVars, codeCache, realVars, used, failed>>

\* Init code or a call fails: RevertToSnapshot, which restores nothing here.
RevertFrame ==
    /\ In("init") \/ In("call")
    /\ real' = Top.saved
    /\ deployed' = Top.code
    /\ undone' = undone \cup {a \in Addr : real[a] # Top.saved[a]}
    /\ frames' = Outer
    /\ UNCHANGED <<nonceVars, codeCache, used, failed>>

\* A call of an account, or EXTCODESIZE.
ReadCode(a, ok) ==
    /\ Running
    /\ codeCache' = GetCodeCache(a, ok)
    /\ UNCHANGED <<nonceVars, frames, realVars, used, failed>>

Next ==
    \/ EndCreation
    \/ EnterCall
    \/ ReturnCall
    \/ RevertFrame
    \/ \E c, a \in Addr : Create2(c, a)
    \/ \E ok \in BOOLEAN :
        \/ CountNonce(ok)
        \/ RecordNonce(ok)
        \/ CheckCode(ok)
        \/ CheckNonce(ok)
        \/ NewContract(ok)
        \/ \E a \in Addr :
            \/ ReadCode(a, ok)
            \/ \E c \in Addr : Create(c, a, ok)

Spec == Init /\ [][Next]_accountVars

-----------------------------------------------------------------------------

\* The nonce of an account as the simulation sees it.
View(a) == IF nonceCache[a] = Nil THEN ChainNonce[a] ELSE nonceCache[a]

\* A creation has a creator and a new address.
Frames ==
    {f \in [stage : Stage, creator : Addr \cup {Nil}, address : Addr \cup {Nil},
            from : Nonce \cup {Nil}, nonce : Nonce, taken : BOOLEAN,
            saved : [Addr -> Nonce], code : SUBSET Addr] :
        f.stage # "call" => f.creator \in Addr /\ f.address \in Addr}

\* Only the innermost frame is at a call of the database.
TypeOK ==
    /\ nonceCache \in [Addr -> Nonce \cup {Nil}]
    /\ nonceDiffs \in [Addr -> NonceDiff \cup {Nil}]
    /\ codeCache \subseteq Addr
    /\ frames \in Seq(Frames)
    /\ \A i \in 1..Len(frames) - 1 : frames[i].stage \in RunningStage
    /\ real \in [Addr -> Nonce]
    /\ deployed \subseteq Addr
    /\ used \in [Addr -> SUBSET Nonce]
    /\ failed \subseteq Addr
    /\ undone \subseteq Addr

\* The record and the cache of a nonce agree: a written nonce is cached as the
\* record has it, any other cached nonce is the chain's (caching.go:292,296).
NoncesCoherent ==
    \A a \in Addr :
        nonceCache[a] \in
            IF nonceDiffs[a] = Nil THEN {Nil, ChainNonce[a]} ELSE {nonceDiffs[a].after}

\* For every account no request failed for and no revert undid, the simulation
\* sees the nonce it should and the record starts from the chain's: the separate
\* calls of a creation, nested creations and collisions do not disturb it.
NoncesExact ==
    \A a \in Addr \ (failed \cup undone) :
        /\ View(a) = real[a]
        /\ nonceDiffs[a] # Nil => nonceDiffs[a].before = ChainNonce[a]

\* No account makes two addresses from one nonce, whatever requests fail and
\* whatever is reverted: the nonces used are behind the one that is cached.
AddressesFresh ==
    \A c \in Addr : \A n \in used[c] : nonceCache[c] # Nil /\ n < nonceCache[c]

\* No call of the database makes a nonce that was read or written smaller, not even
\* after failed requests or a revert; one that was neither can only be lowered by a
\* failed request, which a creation takes for zero (caching.go:211).
NoncesNeverFall ==
    [][\A a \in Addr :
           nonceCache[a] # Nil \/ a \notin failed' => View(a) <= View(a)']_accountVars

-----------------------------------------------------------------------------
(***************************************************************************)
(* The inductive invariant behind these properties: what the innermost     *)
(* creation has in hand between two calls of the database is still what    *)
(* the database would answer.                                              *)
(***************************************************************************)

\* The nonce of the new address is not ahead of the one to be incremented.
CountInHand ==
    In("count") /\ Top.from # Nil => \A ok \in BOOLEAN : Top.from <= GetNonce(Top.creator, ok)

\* The nonce to be incremented is the cached one, and the right one unless a request
\* for it has failed.
RecordInHand ==
    In("record") =>
        /\ Top.nonce < MaxNonce
        /\ real[Top.creator] < MaxNonce
        /\ nonceCache[Top.creator] # Nil => Top.nonce = nonceCache[Top.creator]
        /\ Top.creator \notin failed => Top.nonce = View(Top.creator)
        /\ Top.from # Nil => Top.from <= Top.nonce

\* A new address has made none and, as far as requests succeeded, has no nonce yet; there
\* is room for one.
NewInHand ==
    /\ In("code") \/ In("nonce") \/ In("new") => MaxNonce > 0
    /\ In("new") =>
           /\ used[Top.address] = {}
           /\ nonceCache[Top.address] # Nil \/ Top.address \notin failed => View(Top.address) = 0

\* A record starts from the chain's nonce, a revert notwithstanding.
BeforeIsChain ==
    \A a \in Addr \ failed : nonceDiffs[a] # Nil => nonceDiffs[a].before = ChainNonce[a]

AccountInv ==
    /\ TypeOK
    /\ NoncesCoherent
    /\ NoncesExact
    /\ AddressesFresh
    /\ BeforeIsChain
    /\ CountInHand
    /\ RecordInHand
    /\ NewInHand

-----------------------------------------------------------------------------
\* A statement the repository makes that the code does not keep.

\* "methods that we don't need to implement for simulation" (caching.go:421, SetCode
\* among them): without it, a contract that was created is still there to be called.
CreatedCodeIsThere == \A a \in deployed : GetCode(a, TRUE)
=============================================================================
