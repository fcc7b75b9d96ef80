---------------------------- MODULE PinnedChain ----------------------------
(***************************************************************************)
(* What a simulation sees of a chain that moves while it runs.  NewEVM     *)
(* asks for the latest header once; from then on the state database asks   *)
(* for everything at the number of that block, and BLOCKHASH walks back    *)
(* from it by header.  Numbers are not hashes: after a reorganisation the  *)
(* block of a number is another one.                                       *)
(*                                                                         *)
(* A block is the sequence of the branches its ancestors and it lie on, so *)
(* that its parent is its front and a block's hash is the block; the first *)
(* block is the empty sequence and a chain is its last block.  An answer   *)
(* about an account is the block whose state it comes from.  BLOCKHASH is  *)
(* go-ethereum's core.GetHashFn and external.                              *)
(***************************************************************************)
EXTENDS Naturals, SequencesExt

CONSTANTS
    Branch,     \* what tells two blocks with the same parent apart
    MaxHeight,  \* bound on the number of the last block
    Item,       \* what can be read of a state: slots, balances, nonces, code
    None        \* nothing: no header, no cached answer, a failed request

Block == UNION {[1..n -> Branch] : n \in 0..MaxHeight}

ASSUME ChainAssumption ==
    /\ MaxHeight \in Nat \ {0}
    /\ None \notin Block \cup Nat
    /\ Item \cap Nat = {}

VARIABLES
    canon,      \* the chain as the node has it
    header,     \* the header NewEVM was given, or None
    cache,      \* db.cache: the answers that are kept
    hashes,     \* the hashes GetHashFn keeps: of the parent, of its parent, ...
    asked,      \* the height BLOCKHASH is looking for, or None
    known,      \* lastKnownNumber of that search: the height of the last hash kept
    told,       \* the questions and answers the simulated program has had
    intact      \* the height up to which the pinned block's chain was never replaced

chainVars == <<canon, header, cache, hashes, asked, known, told, intact>>

Init ==
    /\ canon = <<>>
    /\ header = None
    /\ cache = [i \in Item |-> None]
    /\ hashes = <<>>
    /\ asked = None
    /\ known = 0
    /\ told = {}
    /\ intact = 0

-----------------------------------------------------------------------------
\* The node.

Grow(b) ==
    /\ Len(canon) < MaxHeight
    /\ canon' = Append(canon, b)
    /\ UNCHANGED <<header, cache, hashes, asked, known, told, intact>>

\* The blocks from height h on make way for another one.
Reorganise(h, b) ==
    /\ canon[h] # b
    /\ canon' = Append(SubSeq(canon, 1, h - 1), b)
    /\ intact' = Min({intact, h - 1})
    /\ UNCHANGED <<header, cache, hashes, asked, known, told>>

\* The header, or the state, of a number.  ok tells whether the request succeeds.
At(number, ok) ==
    IF ok /\ number <= Len(canon) THEN SubSeq(canon, 1, number) ELSE None

-----------------------------------------------------------------------------
\* The program.

NewEVM ==
    /\ header = None
    /\ header' = canon
    /\ intact' = Len(canon)
    /\ UNCHANGED <<canon, cache, hashes, asked, known, told>>

Idle == header # None /\ asked = None

Tell(question, answer) == told' = told \cup {<<question, answer>>}

\* Faulty variant: the latest state is asked for.
ReadsLatest(i, ok) ==
    /\ Idle
    /\ LET answer == IF cache[i] # None THEN cache[i] ELSE At(Len(canon), ok)
       IN  cache' = [cache EXCEPT ![i] = answer] /\ Tell(i, answer)
    /\ UNCHANGED <<canon, header, hashes, asked, known, intact>>

\* Faulty variant: an answer is not kept.
ForgetsAnswer(i, ok) ==
    /\ Idle
    /\ Tell(i, At(Len(header), ok))
    /\ UNCHANGED <<canon, header, cache, hashes, asked, known, intact>>

\* GetState, GetBalance, GetNonce and GetCode: an answer that is not cached is
\* asked for at db.blockNum, and kept unless the request fails.
Read(i, ok) ==
    /\ Idle
    /\ LET answer == IF cache[i] # None THEN cache[i] ELSE At(Len(header), ok)
       IN  cache' = [cache EXCEPT ![i] = answer] /\ Tell(i, answer)
    /\ UNCHANGED <<canon, header, hashes, asked, known, intact>>

\* Faulty variants: the header of the next number; requests are repeated until one
\* of them gets a header.
GetsNextHeader(hash, number, ok, answer) == answer = At(number + 1, ok)
AsksAgain(hash, number, ok, answer) == answer = At(number, ok) /\ answer # None

\* What chainContext.GetHeader answers; it does not look at the hash.
GetHeader(hash, number, ok, answer) == answer = At(number, ok)

\* BLOCKHASH of an ancestor's number: known, or to be walked to.
BlockHash(n) ==
    /\ Idle
    /\ n < Len(header)
    /\ hashes' = IF hashes = <<>> THEN <<Front(header)>> ELSE hashes
    /\ IF Len(header) - n <= Len(hashes')
       THEN Tell(n, hashes'[Len(header) - n]) /\ UNCHANGED <<asked, known>>
       ELSE asked' = n /\ known' = Len(header) - Len(hashes') /\ UNCHANGED told
    /\ UNCHANGED <<canon, header, cache, intact>>

Answer(hash) == Tell(asked, hash) /\ asked' = None /\ known' = 0

\* One iteration of the walk from the last known hash to the one before.  How far it
\* has come is what the header says, not what was asked for.
Walk(ok) ==
    /\ asked # None
    /\ \E next \in Block \cup {None} :
        /\ GetHeader(Last(hashes), known, ok, next)
        /\ IF next = None
           THEN Answer(None) /\ UNCHANGED hashes
           ELSE /\ hashes' = Append(hashes, Front(next))
                /\ IF Len(next) - 1 = asked
                   THEN Answer(Front(next))
                   ELSE known' = Len(next) - 1 /\ UNCHANGED <<asked, told>>
    /\ UNCHANGED <<canon, header, cache, intact>>

Next ==
    \/ NewEVM
    \/ \E b \in Branch : Grow(b)
    \/ \E b \in Branch : \E h \in 1..Len(canon) : Reorganise(h, b)
    \/ \E n \in 0..MaxHeight : BlockHash(n)
    \/ \E ok \in BOOLEAN :
        \/ Walk(ok)
        \/ \E i \in Item : Read(i, ok)

\* Every request is answered or fails: there is no timeout in the code, so this is
\* an assumption about the node.  The loop itself waits for nothing else.
Spec == Init /\ [][Next]_chainVars /\ WF_chainVars(\E ok \in BOOLEAN : Walk(ok))

-----------------------------------------------------------------------------

\* The hash kept at k is that of a block k below the pinned one, the last one's where
\* a search has come to.
TypeOK ==
    /\ canon \in Block
    /\ header \in Block \cup {None}
    /\ cache \in [Item -> Block \cup {None}]
    /\ hashes \in Seq(Block)
    /\ \A k \in 1..Len(hashes) : Len(hashes[k]) = Len(header) - k
    /\ asked \in 0..MaxHeight \cup {None}
    /\ known = IF asked = None THEN 0 ELSE Len(header) - Len(hashes)
    /\ told \subseteq (Item \cup 0..MaxHeight) \X (Block \cup {None})
    /\ intact \in 0..MaxHeight

\* A chain that grows does no harm, and of one that is reorganised the part below
\* the fork does none: the answers are those of the pinned block's own state and
\* ancestors (evm.go:46, chain.go:32).  Its parent is right in any case.
OfPinnedBlock ==
    \A t \in told : t[2] # None =>
        IF t[1] \in Item
        THEN intact = Len(header) => t[2] = header
        ELSE t[1] <= intact \/ t[1] = Len(header) - 1 => t[2] = SubSeq(header, 1, t[1])

\* The program is never given two answers to one question, however the chain is
\* reorganised in between, save for nothing when a request fails (caching.go:195).
OneAnswer ==
    \A s, t \in told : s[1] = t[1] /\ s[2] # None /\ t[2] # None => s[2] = t[2]

\* BLOCKHASH's loop has no bound of its own and goes by the numbers in the headers it
\* is given; it ends while the chain moves, because GetHeader asks once, for a number,
\* and returns that header or nothing (chain.go:33).
WalkEnds == asked # None ~> asked = None

-----------------------------------------------------------------------------
(***************************************************************************)
(* The inductive invariant behind these properties: what the program was   *)
(* told is what it keeps, and what it keeps is of the pinned block where   *)
(* the chain was not replaced.                                             *)
(***************************************************************************)

\* Nothing is asked for before there is a block to pin.
PinnedFirst ==
    header = None =>
        /\ \A i \in Item : cache[i] = None
        /\ hashes = <<>> /\ asked = None /\ told = {} /\ intact = 0

\* The node still has the pinned block's chain up to the height intact.
IntactHolds ==
    header # None =>
        /\ intact <= Len(header) /\ intact <= Len(canon)
        /\ SubSeq(canon, 1, intact) = SubSeq(header, 1, intact)

AnswersKept ==
    \A i \in Item : cache[i] # None /\ intact = Len(header) => cache[i] = header

\* The search has not come to the height it looks for, nor has an earlier one.
HashesKept ==
    /\ asked # None => hashes # <<>> /\ asked < known
    /\ \A k \in 1..Len(hashes) :
           k = 1 \/ Len(header) - k <= intact => hashes[k] = SubSeq(header, 1, Len(header) - k)

ToldIsKept ==
    \A t \in told : t[2] # None =>
        IF t[1] \in Item THEN t[2] = cache[t[1]]
        ELSE Len(header) - t[1] \in 1..Len(hashes) /\ t[2] = hashes[Len(header) - t[1]]

ChainInv ==
    /\ TypeOK
    /\ PinnedFirst
    /\ IntactHolds
    /\ AnswersKept
    /\ HashesKept
    /\ ToldIsKept
=============================================================================
