--------------------------- MODULE AccountsProofs ---------------------------
(***************************************************************************)
(* Proofs about Accounts, for every set of accounts, every content of the  *)
(* chain and every depth of nested calls and creations: typing, the        *)
(* agreement of records and cache, the exactness of the nonces that no     *)
(* failed request and no revert reached, and that no nonce makes two       *)
(* addresses.                                                              *)
(***************************************************************************)
EXTENDS Accounts, TLAPS

-----------------------------------------------------------------------------
\* Nil is no nonce and no record, and zero is a nonce.
LEMMA NonceFacts ==
    /\ Nil \notin Nonce /\ Nil \notin NonceDiff
    /\ 0 \in Nonce
    /\ \A n \in Nonce : n \in Nat /\ n # Nil /\ (n < MaxNonce => n + 1 \in Nonce)
    /\ \A a \in Addr : ChainNonce[a] \in Nonce
BY AccountAssumption DEF Nonce

\* The first elements of a sequence.
LEMMA PrefixFacts ==
    ASSUME NEW S, NEW s \in Seq(S), NEW n \in Nat, n <= Len(s)
    PROVE  /\ SubSeq(s, 1, n) \in Seq(S)
           /\ Len(SubSeq(s, 1, n)) = n
           /\ \A i \in 1..n : SubSeq(s, 1, n)[i] = s[i]
<1>1. SubSeq(s, 1, n) \in Seq(S)
  OBVIOUS
<1>2. Len(SubSeq(s, 1, n)) = n
  OBVIOUS
<1>3. \A i \in 1..n : SubSeq(s, 1, n)[i] = s[i]
  OBVIOUS
<1> QED
  BY <1>1, <1>2, <1>3

\* The frames below the innermost one.
LEMMA OuterFacts ==
    ASSUME TypeOK, frames # <<>>
    PROVE  /\ Len(frames) \in Nat \ {0}
           /\ Top \in Frames
           /\ Outer \in Seq(Frames)
           /\ Len(Outer) = Len(frames) - 1
           /\ \A i \in 1..Len(Outer) : Outer[i] = frames[i] /\ frames[i].stage \in RunningStage
<1>1. frames \in Seq(Frames) /\ Len(frames) \in Nat \ {0}
  BY DEF TypeOK
<1>2. Top \in Frames
  BY <1>1 DEF Top
<1>3. Outer \in Seq(Frames) /\ Len(Outer) = Len(frames) - 1
      /\ \A i \in 1..Len(Outer) : Outer[i] = frames[i]
  <2>1. PICK n \in Nat : n = Len(frames) - 1
    BY <1>1
  <2>2. Outer = SubSeq(frames, 1, n)
    BY <2>1 DEF Outer
  <2>3. n <= Len(frames)
    BY <1>1, <2>1
  <2> QED
    BY <1>1, <2>1, <2>2, <2>3, PrefixFacts
<1> QED
  BY <1>1, <1>2, <1>3 DEF TypeOK

\* The part of TypeOK that is about frames, and the part that is not.
FramesOK ==
    /\ frames \in Seq(Frames)
    /\ \A i \in 1..Len(frames) - 1 : frames[i].stage \in RunningStage

\* What is in hand of the innermost frame.
InHand == CountInHand /\ RecordInHand /\ NewInHand

\* The innermost frame ends: the one below it runs.
LEMMA Popped ==
    ASSUME TypeOK, frames # <<>>, frames' = Outer
    PROVE  FramesOK' /\ InHand'
<1>1. FramesOK'
  BY OuterFacts DEF FramesOK
<1>2. \A stage \in Stage \ RunningStage : ~In(stage)'
  <2> SUFFICES ASSUME NEW stage \in Stage \ RunningStage, In(stage)' PROVE FALSE
    OBVIOUS
  <2>1. Len(frames') \in 1..Len(Outer)
    BY <1>1, OuterFacts DEF In, FramesOK
  <2> QED
    BY <2>1, OuterFacts DEF In, Top
<1>3. {"count", "record", "code", "nonce", "new"} \subseteq Stage \ RunningStage
  BY DEF Stage, RunningStage
<1> QED
  BY <1>1, <1>2, <1>3 DEF InHand, CountInHand, RecordInHand, NewInHand

\* A frame is added to frames of which the innermost runs.
LEMMA Pushed ==
    ASSUME TypeOK, Running, NEW f \in Frames, frames' = Append(frames, f)
    PROVE  FramesOK' /\ frames' # <<>> /\ Top' = f
<1>1. frames \in Seq(Frames) /\ Len(frames) \in Nat
  BY DEF TypeOK
<1>2. /\ frames' \in Seq(Frames) /\ Len(frames') = Len(frames) + 1
      /\ frames'[Len(frames')] = f
      /\ \A i \in 1..Len(frames) : frames'[i] = frames[i]
  BY <1>1
<1>3. \A i \in 1..Len(frames) : frames[i].stage \in RunningStage
  BY <1>1 DEF Running, In, Top, TypeOK, RunningStage
<1> QED
  BY <1>1, <1>2, <1>3 DEF FramesOK, Top

\* The innermost frame is replaced.
LEMMA Replaced ==
    ASSUME TypeOK, frames # <<>>, NEW f \in Frames, frames' = Append(Outer, f)
    PROVE  FramesOK' /\ frames' # <<>> /\ Top' = f
<1>1. Outer \in Seq(Frames) /\ Len(Outer) \in Nat
  BY OuterFacts
<1>2. /\ frames' \in Seq(Frames) /\ Len(frames') = Len(Outer) + 1
      /\ frames'[Len(frames')] = f
      /\ \A i \in 1..Len(Outer) : frames'[i] = Outer[i]
  BY <1>1
<1> QED
  BY <1>1, <1>2, OuterFacts DEF FramesOK, Top

-----------------------------------------------------------------------------
\* The part of the invariant that is about nonces, the frames apart.
NoncesOK ==
    /\ nonceCache \in [Addr -> Nonce \cup {Nil}]
    /\ nonceDiffs \in [Addr -> NonceDiff \cup {Nil}]
    /\ failed \subseteq Addr
    /\ NoncesCoherent
    /\ BeforeIsChain

\* The variables the database does not write.
RealOK ==
    /\ codeCache \subseteq Addr
    /\ real \in [Addr -> Nonce]
    /\ deployed \subseteq Addr
    /\ undone \subseteq Addr
    /\ used \in [Addr -> SUBSET Nonce]

\* The parts make the invariant.
LEMMA Parts ==
    AccountInv <=> NoncesOK /\ RealOK /\ FramesOK /\ InHand /\ NoncesExact /\ AddressesFresh
BY DEF AccountInv, NoncesOK, RealOK, FramesOK, InHand, TypeOK

\* And they make it in the next state.
LEMMA PartsNext ==
    ASSUME NoncesOK', RealOK', FramesOK', InHand', NoncesExact', AddressesFresh'
    PROVE  AccountInv'
BY DEF AccountInv, NoncesOK, RealOK, FramesOK, InHand, TypeOK

\* What GetNonce answers.
LEMMA GetNonceFacts ==
    ASSUME NoncesOK, NEW a \in Addr, NEW ok \in BOOLEAN
    PROVE  /\ GetNonce(a, ok) \in Nonce
           /\ View(a) \in Nonce
           /\ nonceCache[a] # Nil => GetNonce(a, ok) = nonceCache[a]
           /\ nonceCache[a] # Nil \/ ok => GetNonce(a, ok) = View(a)
           /\ nonceCache[a] = Nil => nonceDiffs[a] = Nil
<1>1. nonceCache[a] # Nil => nonceCache[a] \in Nonce
  BY DEF NoncesOK
<1>2. nonceDiffs[a] # Nil => nonceDiffs[a].after \in Nonce
  BY DEF NoncesOK, NonceDiff
<1>3. nonceCache[a] = Nil => nonceDiffs[a] = Nil
  BY <1>2, NonceFacts DEF NoncesOK, NoncesCoherent
<1> QED
  BY <1>1, <1>3, NonceFacts DEF GetNonce, View

\* A read of a nonce changes nothing that the simulation sees, and what it answers is
\* what the database goes on answering, unless the request failed.
LEMMA ReadNonce ==
    ASSUME NoncesOK, RealOK, NoncesExact, AddressesFresh, NEW a \in Addr, NEW ok \in BOOLEAN,
           nonceCache' = GetNonceCache(a, ok), NoteFailure(a, ok),
           UNCHANGED <<nonceDiffs, realVars, used>>
    PROVE  /\ NoncesOK' /\ NoncesExact' /\ AddressesFresh'
           /\ \A b \in Addr : View(b)' = View(b)
           /\ nonceCache'[a] # Nil => GetNonce(a, ok) = nonceCache'[a]
           /\ a \notin failed' => GetNonce(a, ok) = View(a)
<1>1. /\ nonceCache' = [nonceCache EXCEPT ![a] = IF @ = Nil /\ ok THEN ChainNonce[a] ELSE @]
      /\ failed' = failed \cup {b \in {a} : nonceCache[b] = Nil /\ ~ok}
      /\ UNCHANGED <<nonceDiffs, real, undone, used>>
  BY DEF GetNonceCache, NoteFailure, realVars
<1>2. \A b \in Addr :
          \/ nonceCache'[b] = nonceCache[b]
          \/ nonceCache[b] = Nil /\ nonceCache'[b] = ChainNonce[b]
  BY <1>1 DEF NoncesOK
<1>3. \A b \in Addr : View(b)' = View(b)
  BY <1>2, NonceFacts DEF View
<1>4. nonceCache' \in [Addr -> Nonce \cup {Nil}] /\ failed' \subseteq Addr /\ failed \subseteq failed'
  BY <1>1, NonceFacts DEF NoncesOK
<1>5. NoncesCoherent'
  <2> SUFFICES ASSUME NEW b \in Addr
               PROVE  nonceCache'[b] \in IF nonceDiffs[b] = Nil THEN {Nil, ChainNonce[b]}
                                                             ELSE {nonceDiffs[b].after}
    BY <1>1 DEF NoncesCoherent
  <2>1. nonceCache[b] = Nil => nonceDiffs[b] = Nil
    BY GetNonceFacts
  <2> QED
    BY <1>2, <2>1 DEF NoncesOK, NoncesCoherent
<1>6. BeforeIsChain'
  BY <1>1, <1>4 DEF NoncesOK, BeforeIsChain
<1>7. NoncesExact'
  BY <1>1, <1>3, <1>4 DEF NoncesExact
<1>8. AddressesFresh'
  BY <1>1, <1>2 DEF AddressesFresh
<1>9. nonceCache'[a] # Nil => GetNonce(a, ok) = nonceCache'[a]
  BY <1>1 DEF GetNonce, NoncesOK
<1>10. a \notin failed' => GetNonce(a, ok) = View(a)
  BY <1>1, GetNonceFacts
<1> QED
  BY <1>1, <1>3, <1>4, <1>5, <1>6, <1>7, <1>8, <1>9, <1>10 DEF NoncesOK

\* A written nonce is cached and recorded, in front of what the account had before.
LEMMA WriteNonce ==
    ASSUME NoncesOK, NEW a \in Addr, NEW n \in Nonce, NEW ok \in BOOLEAN, SetNonce(a, n, ok)
    PROVE  /\ NoncesOK'
           /\ nonceCache'[a] = n /\ View(a)' = n
           /\ failed \subseteq failed'
           /\ \A b \in Addr \ {a} :
                  nonceCache'[b] = nonceCache[b] /\ View(b)' = View(b)
<1> DEFINE before == IF nonceDiffs[a] = Nil THEN GetNonce(a, ok) ELSE nonceDiffs[a].before
<1>1. /\ nonceDiffs' = [nonceDiffs EXCEPT ![a] = [before |-> before, after |-> n]]
      /\ nonceCache' = [nonceCache EXCEPT ![a] = n]
      /\ failed' = failed \cup {b \in {a} : nonceCache[b] = Nil /\ ~ok}
  BY DEF SetNonce, NoteFailure, NoncesOK
<1>2. before \in Nonce
  BY GetNonceFacts DEF NoncesOK, NonceDiff
<1>3. [before |-> before, after |-> n] \in NonceDiff
  BY <1>2 DEF NonceDiff
<1>4. [before |-> before, after |-> n] # Nil
  BY <1>3, NonceFacts
<1>5. a \notin failed' => before = ChainNonce[a]
  <2> SUFFICES ASSUME a \notin failed' PROVE before = ChainNonce[a]
    OBVIOUS
  <2>1. a \notin failed /\ (nonceCache[a] # Nil \/ ok)
    BY <1>1
  <2>2. CASE nonceDiffs[a] = Nil
    BY <2>1, <2>2 DEF GetNonce, NoncesOK, NoncesCoherent
  <2>3. CASE nonceDiffs[a] # Nil
    BY <2>1, <2>3 DEF NoncesOK, BeforeIsChain
  <2> QED
    BY <2>2, <2>3
<1> HIDE DEF before
<1>6. /\ nonceCache' \in [Addr -> Nonce \cup {Nil}]
      /\ nonceDiffs' \in [Addr -> NonceDiff \cup {Nil}]
      /\ failed' \subseteq Addr /\ failed \subseteq failed'
  BY <1>1, <1>3 DEF NoncesOK
<1>7. nonceCache'[a] = n /\ nonceDiffs'[a] = [before |-> before, after |-> n]
      /\ \A b \in Addr \ {a} : nonceCache'[b] = nonceCache[b] /\ nonceDiffs'[b] = nonceDiffs[b]
  BY <1>1 DEF NoncesOK
<1>8. NoncesCoherent'
  BY <1>4, <1>7 DEF NoncesOK, NoncesCoherent
<1>9. BeforeIsChain'
  BY <1>5, <1>6, <1>7 DEF NoncesOK, BeforeIsChain
<1>10. View(a)' = n /\ \A b \in Addr \ {a} : View(b)' = View(b)
  BY <1>7, NonceFacts DEF View
<1> QED
  BY <1>6, <1>7, <1>8, <1>9, <1>10 DEF NoncesOK

\* A creation has a creator and a new address.
LEMMA InCreation ==
    ASSUME TypeOK, NEW stage \in Stage \ {"call"}, In(stage)
    PROVE  /\ frames # <<>>
           /\ Top \in Frames
           /\ Top.creator \in Addr
           /\ Top.address \in Addr
           /\ Top.from \in Nonce \cup {Nil}
           /\ Top.nonce \in Nonce
<1>1. frames # <<>> /\ Top.stage = stage
  BY DEF In
<1>2. Top \in Frames
  BY <1>1, OuterFacts
<1> QED
  BY <1>1, <1>2 DEF Frames

\* The innermost creation goes on to another stage.
LEMMA Moved ==
    ASSUME TypeOK, frames # <<>>, Top.creator \in Addr, Top.address \in Addr,
           NEW stage \in Stage, NEW n \in Nonce, Goto(stage, n)
    PROVE  /\ FramesOK' /\ frames' # <<>>
           /\ Top'.stage = stage
           /\ Top'.nonce = n
           /\ Top'.creator = Top.creator
           /\ Top'.address = Top.address
           /\ Top'.from = Top.from
<1> DEFINE f == [Top EXCEPT !.stage = stage, !.nonce = n]
<1>1. Top \in Frames
  BY OuterFacts
<1>2. /\ f \in Frames /\ f.stage = stage /\ f.nonce = n
      /\ f.creator = Top.creator /\ f.address = Top.address /\ f.from = Top.from
  BY <1>1 DEF Frames
<1>3. frames' = Append(Outer, f)
  BY DEF Goto
<1> HIDE DEF f
<1>4. FramesOK' /\ frames' # <<>> /\ Top' = f
  BY <1>2, <1>3, Replaced
<1> QED
  BY <1>2, <1>4

\* Steps that write no nonce keep what is known of the nonces.
LEMMA Unwritten ==
    ASSUME NoncesOK, RealOK, NoncesExact, AddressesFresh,
           UNCHANGED <<nonceVars, realVars, used, failed>>, codeCache' \subseteq Addr
    PROVE  NoncesOK' /\ RealOK' /\ NoncesExact' /\ AddressesFresh'
BY DEF NoncesOK, NoncesCoherent, BeforeIsChain, RealOK, NoncesExact, AddressesFresh, View,
       nonceVars, realVars

-----------------------------------------------------------------------------
\* One lemma for each action.

LEMMA InitInv == Init => AccountInv
<1> SUFFICES ASSUME Init PROVE AccountInv
  OBVIOUS
<1>1. NoncesOK /\ NoncesExact /\ AddressesFresh
  BY DEF Init, NoncesOK, NoncesCoherent, BeforeIsChain, NoncesExact, AddressesFresh, View
<1>2. RealOK
  BY AccountAssumption DEF Init, RealOK
<1>3. FramesOK /\ InHand
  BY DEF Init, FramesOK, InHand, CountInHand, RecordInHand, NewInHand, In
<1> QED
  BY <1>1, <1>2, <1>3, Parts

\* A new frame is one.
LEMMA FrameFacts ==
    ASSUME RealOK, NEW c \in Addr, NEW a \in Addr, NEW n \in Nonce \cup {Nil}
    PROVE  /\ Frame("count", c, a, n) \in Frames
           /\ Frame("count", c, a, n).stage = "count"
           /\ Frame("count", c, a, n).creator = c
           /\ Frame("count", c, a, n).from = n
           /\ Frame("call", Nil, Nil, Nil) \in Frames
           /\ Frame("call", Nil, Nil, Nil).stage = "call"
BY NonceFacts DEF Frame, Frames, Stage, RealOK

LEMMA CreateInv ==
    ASSUME AccountInv, NEW c \in Addr, NEW a \in Addr, NEW ok \in BOOLEAN, Create(c, a, ok)
    PROVE  AccountInv'
<1> DEFINE n == GetNonce(c, ok)
           f == Frame("count", c, a, n)
<1>1. NoncesOK /\ RealOK /\ NoncesExact /\ AddressesFresh /\ TypeOK
  BY Parts DEF AccountInv
<1>2. /\ Running /\ frames' = Append(frames, f)
      /\ nonceCache' = GetNonceCache(c, ok) /\ NoteFailure(c, ok)
      /\ UNCHANGED <<nonceDiffs, codeCache, realVars, used>>
  BY DEF Create
<1>3. n \in Nonce /\ n # Nil
  BY <1>1, GetNonceFacts, NonceFacts
<1>4. f \in Frames /\ f.stage = "count" /\ f.creator = c /\ f.from = n
  BY <1>1, <1>3, FrameFacts
<1>5. NoncesOK' /\ NoncesExact' /\ AddressesFresh' /\ (nonceCache'[c] # Nil => n = nonceCache'[c])
      /\ (c \notin failed' => n = View(c)) /\ View(c)' = View(c)
  BY <1>1, <1>2, ReadNonce
<1>6. FramesOK' /\ frames' # <<>> /\ Top' = f
  <2> HIDE DEF f
  <2> QED
    BY <1>1, <1>2, <1>4, Pushed
<1>7. \A ok2 \in BOOLEAN : n <= GetNonce(c, ok2)'
  <2>1. nonceCache'[c] = Nil => n = 0
    BY <1>1, <1>2, NonceFacts DEF GetNonce, GetNonceCache, NoncesOK
  <2> HIDE DEF n
  <2>3. n \in Nat /\ n <= n /\ 0 <= 0 /\ ChainNonce[c] \in Nat
    BY <1>3, NonceFacts
  <2>4. \A ok2 \in BOOLEAN : nonceCache'[c] # Nil => n <= GetNonce(c, ok2)'
    BY <1>5, <2>3 DEF GetNonce
  <2>5. \A ok2 \in BOOLEAN : nonceCache'[c] = Nil => n <= GetNonce(c, ok2)'
    BY <2>1, <2>3 DEF GetNonce
  <2> QED
    BY <2>4, <2>5
<1>8. InHand'
  <2> HIDE DEF f, n
  <2> QED
    BY <1>4, <1>6, <1>7 DEF InHand, CountInHand, RecordInHand, NewInHand, In
<1>9. RealOK'
  BY <1>1, <1>2 DEF RealOK, realVars
<1> QED
  BY <1>5, <1>6, <1>8, <1>9, PartsNext

LEMMA Create2Inv ==
    ASSUME AccountInv, NEW c \in Addr, NEW a \in Addr, Create2(c, a)
    PROVE  AccountInv'
<1> DEFINE f == Frame("count", c, a, Nil)
<1>1. NoncesOK /\ RealOK /\ NoncesExact /\ AddressesFresh /\ TypeOK
  BY Parts DEF AccountInv
<1>2. /\ Running /\ frames' = Append(frames, f)
      /\ UNCHANGED <<nonceVars, codeCache, realVars, used, failed>>
  BY DEF Create2
<1>3. f \in Frames /\ f.stage = "count" /\ f.from = Nil
  BY <1>1, FrameFacts
<1> HIDE DEF f
<1>4. FramesOK' /\ frames' # <<>> /\ Top' = f
  BY <1>1, <1>2, <1>3, Pushed
<1>5. InHand'
  BY <1>3, <1>4 DEF InHand, CountInHand, RecordInHand, NewInHand, In
<1>6. codeCache' \subseteq Addr
  BY <1>1, <1>2 DEF RealOK
<1> QED
  BY <1>1, <1>2, <1>4, <1>5, <1>6, Unwritten, PartsNext

LEMMA CountNonceInv ==
    ASSUME AccountInv, NEW ok \in BOOLEAN, CountNonce(ok)
    PROVE  AccountInv'
<1>1. NoncesOK /\ RealOK /\ NoncesExact /\ AddressesFresh /\ TypeOK /\ CountInHand
  BY Parts DEF AccountInv
<1>2. In("count")
  BY DEF CountNonce
<1>3. frames # <<>> /\ Top.creator \in Addr /\ Top.address \in Addr
  BY <1>1, <1>2, InCreation DEF Stage
<1>4. PICK c \in Addr : c = Top.creator
  BY <1>3
<1>5. PICK n \in Nonce : n = GetNonce(c, ok)
  BY <1>1, GetNonceFacts
<1>6. /\ n < MaxNonce /\ real[c] < MaxNonce
      /\ nonceCache' = GetNonceCache(c, ok) /\ NoteFailure(c, ok)
      /\ Goto("record", n)
      /\ UNCHANGED <<nonceDiffs, codeCache, realVars, used>>
  BY <1>4, <1>5 DEF CountNonce
<1>7. NoncesOK' /\ NoncesExact' /\ AddressesFresh' /\ (nonceCache'[c] # Nil => n = nonceCache'[c])
      /\ (c \notin failed' => n = View(c)) /\ View(c)' = View(c)
  BY <1>1, <1>5, <1>6, ReadNonce
<1>8. Top.from # Nil => Top.from <= n
  BY <1>1, <1>2, <1>4, <1>5 DEF CountInHand
<1>9. /\ FramesOK' /\ frames' # <<>> /\ Top'.stage = "record" /\ Top'.nonce = n
      /\ Top'.creator = c /\ Top'.from = Top.from
  BY <1>1, <1>3, <1>4, <1>6, Moved DEF Stage
<1>10. RecordInHand'
  <2>1. real'[c] < MaxNonce
    BY <1>6 DEF realVars
  <2>2. c \notin failed' => n = View(c)'
    BY <1>7
  <2>3. View(Top.creator)' = View(c)'
    BY <1>9 DEF View
  <2> QED
    BY <1>6, <1>7, <1>8, <1>9, <2>1, <2>2, <2>3 DEF RecordInHand
<1>11. InHand'
  BY <1>9, <1>10 DEF InHand, CountInHand, NewInHand, In
<1>12. RealOK'
  BY <1>1, <1>6 DEF RealOK, realVars
<1> QED
  BY <1>7, <1>9, <1>11, <1>12, PartsNext

LEMMA RecordNonceInv ==
    ASSUME AccountInv, NEW ok \in BOOLEAN, RecordNonce(ok)
    PROVE  AccountInv'
<1>1. NoncesOK /\ RealOK /\ NoncesExact /\ AddressesFresh /\ TypeOK /\ RecordInHand
  BY Parts DEF AccountInv
<1>2. In("record")
  BY DEF RecordNonce
<1>3. /\ frames # <<>> /\ Top.creator \in Addr /\ Top.address \in Addr
      /\ Top.from \in Nonce \cup {Nil} /\ Top.nonce \in Nonce
  BY <1>1, <1>2, InCreation DEF Stage
<1>4. PICK c \in Addr, n \in Nonce, m \in Nonce \cup {Nil} :
          c = Top.creator /\ n = Top.nonce /\ m = Top.from
  BY <1>3
<1>5. /\ SetNonce(c, n + 1, ok)
      /\ real' = [real EXCEPT ![c] = @ + 1]
      /\ used' = [used EXCEPT ![c] = @ \cup ({m} \ {Nil})]
      /\ Goto("code", 0)
      /\ UNCHANGED <<codeCache, deployed, undone>>
  BY <1>4 DEF RecordNonce
<1>6. /\ n < MaxNonce /\ real[c] < MaxNonce
      /\ nonceCache[c] # Nil => n = nonceCache[c]
      /\ c \notin failed => n = View(c)
      /\ m # Nil => m <= n
  BY <1>1, <1>2, <1>4 DEF RecordInHand
<1>7. n + 1 \in Nonce /\ n \in Nat /\ real[c] + 1 \in Nonce
  BY <1>1, <1>6, NonceFacts DEF RealOK
<1>8. /\ NoncesOK'
      /\ nonceCache'[c] = n + 1 /\ View(c)' = n + 1
      /\ failed \subseteq failed'
      /\ \A b \in Addr \ {c} : nonceCache'[b] = nonceCache[b] /\ View(b)' = View(b)
  BY <1>1, <1>5, <1>7, WriteNonce
<1>9. NoncesExact'
  <2> SUFFICES ASSUME NEW b \in Addr, b \notin failed', b \notin undone'
               PROVE  /\ View(b)' = real'[b]
                      /\ nonceDiffs'[b] # Nil => nonceDiffs'[b].before = ChainNonce[b]
    BY DEF NoncesExact
  <2>1. nonceDiffs'[b] # Nil => nonceDiffs'[b].before = ChainNonce[b]
    BY <1>8 DEF NoncesOK, BeforeIsChain
  <2>2. b \notin failed /\ b \notin undone /\ View(b) = real[b]
    BY <1>1, <1>5, <1>8 DEF NoncesExact
  <2>3. CASE b = c
    BY <1>1, <1>5, <1>6, <1>8, <2>1, <2>2, <2>3 DEF RealOK
  <2>4. CASE b # c
    BY <1>1, <1>5, <1>8, <2>1, <2>2, <2>4 DEF RealOK
  <2> QED
    BY <2>1, <2>3, <2>4
<1>10. AddressesFresh'
  <2> SUFFICES ASSUME NEW b \in Addr, NEW k \in used'[b]
               PROVE  nonceCache'[b] # Nil /\ k < nonceCache'[b]
    BY DEF AddressesFresh
  <2>1. CASE b # c
    BY <1>1, <1>5, <1>8, <2>1 DEF RealOK, AddressesFresh
  <2>2. CASE b = c
    <3>1. k \in used[c] \/ (k = m /\ m # Nil)
      BY <1>1, <1>5, <2>2 DEF RealOK
    <3>2. k \in Nat /\ k <= n
      <4>1. CASE k \in used[c]
        <5>1. k \in Nonce
          BY <1>1, <4>1 DEF RealOK
        <5>2. k < n
          BY <1>1, <1>6, <4>1 DEF AddressesFresh
        <5> QED
          BY <1>7, <5>1, <5>2, NonceFacts
      <4>2. CASE k = m /\ m # Nil
        BY <1>6, <4>2, NonceFacts
      <4> QED
        BY <3>1, <4>1, <4>2
    <3> QED
      BY <1>7, <1>8, <2>2, <3>2, NonceFacts
  <2> QED
    BY <2>1, <2>2
<1>11. FramesOK' /\ frames' # <<>> /\ Top'.stage = "code"
  BY <1>1, <1>3, <1>5, NonceFacts, Moved DEF Stage
<1>12. InHand'
  <2>1. MaxNonce > 0
    BY <1>6, <1>7, AccountAssumption
  <2> QED
    BY <1>11, <2>1 DEF InHand, CountInHand, RecordInHand, NewInHand, In
<1>13. RealOK'
  BY <1>1, <1>4, <1>5, <1>7 DEF RealOK
<1> QED
  BY <1>8, <1>9, <1>10, <1>11, <1>12, <1>13, PartsNext

LEMMA CheckCodeInv ==
    ASSUME AccountInv, NEW ok \in BOOLEAN, CheckCode(ok)
    PROVE  AccountInv'
<1> DEFINE f == [Top EXCEPT !.stage = "nonce", !.taken = GetCode(Top.address, ok)]
<1>1. NoncesOK /\ RealOK /\ NoncesExact /\ AddressesFresh /\ TypeOK /\ NewInHand
  BY Parts DEF AccountInv
<1>2. /\ In("code")
      /\ codeCache' = GetCodeCache(Top.address, ok)
      /\ frames' = Append(Outer, f)
      /\ UNCHANGED <<nonceVars, realVars, used, failed>>
  BY DEF CheckCode
<1>3. frames # <<>> /\ Top \in Frames /\ Top.address \in Addr /\ Top.creator \in Addr
  BY <1>1, <1>2, InCreation DEF Stage
<1>4. f \in Frames /\ f.stage = "nonce"
  BY <1>3 DEF Frames, Stage, GetCode
<1>5. codeCache' \subseteq Addr
  BY <1>1, <1>2, <1>3 DEF GetCodeCache, RealOK
<1> HIDE DEF f
<1>6. FramesOK' /\ frames' # <<>> /\ Top' = f
  BY <1>1, <1>2, <1>3, <1>4, Replaced
<1>7. InHand'
  BY <1>1, <1>2, <1>4, <1>6 DEF InHand, CountInHand, RecordInHand, NewInHand, In
<1> QED
  BY <1>1, <1>2, <1>5, <1>6, <1>7, Unwritten, PartsNext

LEMMA CheckNonceInv ==
    ASSUME AccountInv, NEW ok \in BOOLEAN, CheckNonce(ok)
    PROVE  AccountInv'
<1>1. NoncesOK /\ RealOK /\ NoncesExact /\ AddressesFresh /\ TypeOK /\ NewInHand
  BY Parts DEF AccountInv
<1>2. In("nonce")
  BY DEF CheckNonce
<1>3. frames # <<>> /\ Top.creator \in Addr /\ Top.address \in Addr
  BY <1>1, <1>2, InCreation DEF Stage
<1>4. PICK a \in Addr : a = Top.address
  BY <1>3
<1>5. /\ nonceCache' = GetNonceCache(a, ok) /\ NoteFailure(a, ok)
      /\ UNCHANGED <<nonceDiffs, codeCache, realVars, used>>
      /\ frames' = Outer \/ (GetNonce(a, ok) = 0 /\ Goto("new", 0))
  BY <1>4 DEF CheckNonce
<1>6. /\ NoncesOK' /\ NoncesExact' /\ AddressesFresh' /\ View(a)' = View(a)
      /\ nonceCache'[a] # Nil => GetNonce(a, ok) = nonceCache'[a]
      /\ a \notin failed' => GetNonce(a, ok) = View(a)
  BY <1>1, <1>5, ReadNonce
<1>7. RealOK'
  BY <1>1, <1>5 DEF RealOK, realVars
<1>8. CASE frames' = Outer
  BY <1>1, <1>3, <1>6, <1>7, <1>8, Popped, PartsNext
<1>9. CASE GetNonce(a, ok) = 0 /\ Goto("new", 0)
  <2>1. FramesOK' /\ frames' # <<>> /\ Top'.stage = "new" /\ Top'.address = a
    BY <1>1, <1>3, <1>4, <1>9, NonceFacts, Moved DEF Stage
  <2>2. used[a] = {}
    <3> SUFFICES ASSUME NEW k \in used[a] PROVE FALSE
      OBVIOUS
    <3>1. k \in Nat
      BY <1>1, NonceFacts DEF RealOK
    <3>2. k < 0
      BY <1>1, <1>9 DEF AddressesFresh, GetNonce
    <3> QED
      BY <3>1, <3>2
  <2>3. nonceCache'[a] # Nil \/ a \notin failed' => View(a)' = 0
    BY <1>6, <1>9 DEF View
  <2>4. NewInHand'
    <3>1. used'[a] = {} /\ MaxNonce > 0
      BY <1>1, <1>2, <1>5, <2>2 DEF NewInHand
    <3>2. View(Top.address)' = View(a)'
      BY <2>1 DEF View
    <3> QED
      BY <2>1, <2>3, <3>1, <3>2 DEF NewInHand
  <2>5. InHand'
    BY <2>1, <2>4 DEF InHand, CountInHand, RecordInHand, In
  <2> QED
    BY <1>6, <1>7, <2>1, <2>5, PartsNext
<1> QED
  BY <1>5, <1>8, <1>9

LEMMA NewContractInv ==
    ASSUME AccountInv, NEW ok \in BOOLEAN, NewContract(ok)
    PROVE  AccountInv'
<1> DEFINE f == [Top EXCEPT !.stage = "init", !.saved = real, !.code = deployed]
<1>1. NoncesOK /\ RealOK /\ NoncesExact /\ AddressesFresh /\ TypeOK /\ NewInHand
  BY Parts DEF AccountInv
<1>2. In("new")
  BY DEF NewContract
<1>3. frames # <<>> /\ Top \in Frames /\ Top.creator \in Addr /\ Top.address \in Addr
  BY <1>1, <1>2, InCreation DEF Stage
<1>4. PICK a \in Addr : a = Top.address
  BY <1>3
<1>5. /\ SetNonce(a, 1, ok)
      /\ real' = [real EXCEPT ![a] = 1]
      /\ undone' = undone \ {a}
      /\ frames' = Append(Outer, f)
      /\ UNCHANGED <<codeCache, deployed, used>>
  BY <1>4 DEF NewContract
<1>6. used[a] = {} /\ 1 \in Nonce
  BY <1>1, <1>2, <1>4, AccountAssumption DEF NewInHand, Nonce
<1>7. f \in Frames /\ f.stage = "init"
  BY <1>1, <1>3 DEF Frames, Stage, RealOK
<1> HIDE DEF f
<1>8. FramesOK' /\ frames' # <<>> /\ Top' = f
  BY <1>1, <1>3, <1>5, <1>7, Replaced
<1>9. InHand'
  BY <1>7, <1>8 DEF InHand, CountInHand, RecordInHand, NewInHand, In
<1>10. /\ NoncesOK'
       /\ nonceCache'[a] = 1 /\ View(a)' = 1
       /\ failed \subseteq failed'
       /\ \A b \in Addr \ {a} : nonceCache'[b] = nonceCache[b] /\ View(b)' = View(b)
  BY <1>1, <1>5, <1>6, WriteNonce
<1>11. NoncesExact'
  <2> SUFFICES ASSUME NEW b \in Addr, b \notin failed', b \notin undone'
               PROVE  /\ View(b)' = real'[b]
                      /\ nonceDiffs'[b] # Nil => nonceDiffs'[b].before = ChainNonce[b]
    BY DEF NoncesExact
  <2>1. nonceDiffs'[b] # Nil => nonceDiffs'[b].before = ChainNonce[b]
    BY <1>10 DEF NoncesOK, BeforeIsChain
  <2>2. CASE b = a
    BY <1>1, <1>5, <1>10, <2>1, <2>2 DEF RealOK
  <2>3. CASE b # a
    <3>1. View(b) = real[b]
      BY <1>1, <1>5, <1>10, <2>3 DEF NoncesExact
    <3> QED
      BY <1>1, <1>5, <1>10, <2>1, <2>3, <3>1 DEF RealOK
  <2> QED
    BY <2>2, <2>3
<1>12. AddressesFresh'
  BY <1>1, <1>5, <1>6, <1>10 DEF AddressesFresh
<1>13. RealOK'
  BY <1>1, <1>5, <1>6 DEF RealOK
<1> QED
  BY <1>8, <1>9, <1>10, <1>11, <1>12, <1>13, PartsNext

LEMMA EndCreationInv ==
    ASSUME AccountInv, EndCreation
    PROVE  AccountInv'
<1>1. NoncesOK /\ RealOK /\ NoncesExact /\ AddressesFresh /\ TypeOK
  BY Parts DEF AccountInv
<1>2. /\ In("init") /\ frames' = Outer
      /\ deployed' = deployed \cup {Top.address}
      /\ UNCHANGED <<nonceVars, codeCache, real, used, failed, undone>>
  BY DEF EndCreation, SetCode
<1>3. frames # <<>> /\ Top.address \in Addr
  BY <1>1, <1>2, InCreation DEF Stage
<1>4. FramesOK' /\ InHand'
  BY <1>1, <1>2, <1>3, Popped
<1>5. NoncesOK' /\ RealOK' /\ NoncesExact' /\ AddressesFresh'
  BY <1>1, <1>2, <1>3 DEF NoncesOK, NoncesCoherent, BeforeIsChain, RealOK, NoncesExact,
                          AddressesFresh, View, nonceVars
<1> QED
  BY <1>4, <1>5, PartsNext

LEMMA EnterCallInv ==
    ASSUME AccountInv, EnterCall
    PROVE  AccountInv'
<1> DEFINE f == Frame("call", Nil, Nil, Nil)
<1>1. NoncesOK /\ RealOK /\ NoncesExact /\ AddressesFresh /\ TypeOK
  BY Parts DEF AccountInv
<1>2. /\ Running /\ frames' = Append(frames, f)
      /\ UNCHANGED <<nonceVars, codeCache, realVars, used, failed>>
  BY DEF EnterCall
<1>3. f \in Frames /\ f.stage = "call"
  BY <1>1, NonceFacts DEF Frame, Frames, Stage, RealOK
<1>4. codeCache' \subseteq Addr
  BY <1>1, <1>2 DEF RealOK
<1> HIDE DEF f
<1>5. FramesOK' /\ frames' # <<>> /\ Top' = f
  BY <1>1, <1>2, <1>3, Pushed
<1>6. InHand'
  BY <1>3, <1>5 DEF InHand, CountInHand, RecordInHand, NewInHand, In
<1> QED
  BY <1>1, <1>2, <1>4, <1>5, <1>6, Unwritten, PartsNext

LEMMA ReturnCallInv ==
    ASSUME AccountInv, ReturnCall
    PROVE  AccountInv'
<1>1. NoncesOK /\ RealOK /\ NoncesExact /\ AddressesFresh /\ TypeOK
  BY Parts DEF AccountInv
<1>2. /\ In("call") /\ frames' = Outer
      /\ UNCHANGED <<nonceVars, codeCache, realVars, used, failed>>
  BY DEF ReturnCall
<1>3. FramesOK' /\ InHand'
  BY <1>1, <1>2, Popped DEF In
<1>4. codeCache' \subseteq Addr
  BY <1>1, <1>2 DEF RealOK
<1> QED
  BY <1>1, <1>2, <1>3, <1>4, Unwritten, PartsNext

LEMMA RevertFrameInv ==
    ASSUME AccountInv, RevertFrame
    PROVE  AccountInv'
<1>1. NoncesOK /\ RealOK /\ NoncesExact /\ AddressesFresh /\ TypeOK
  BY Parts DEF AccountInv
<1>2. /\ frames # <<>> /\ frames' = Outer
      /\ real' = Top.saved /\ deployed' = Top.code
      /\ undone' = undone \cup {a \in Addr : real[a] # Top.saved[a]}
      /\ UNCHANGED <<nonceVars, codeCache, used, failed>>
  BY DEF RevertFrame, In
<1>3. real' \in [Addr -> Nonce] /\ deployed' \subseteq Addr
  BY <1>1, <1>2, OuterFacts DEF Frames
<1>4. FramesOK' /\ InHand'
  BY <1>1, <1>2, Popped
<1>5. NoncesOK' /\ RealOK' /\ AddressesFresh'
  BY <1>1, <1>2, <1>3 DEF NoncesOK, NoncesCoherent, BeforeIsChain, RealOK, AddressesFresh,
                          nonceVars
<1>6. NoncesExact'
  <2>1. \A a \in Addr \ undone' : a \notin undone /\ real'[a] = real[a]
    BY <1>2
  <2> QED
    BY <1>1, <1>2, <2>1 DEF NoncesExact, View, nonceVars
<1> QED
  BY <1>4, <1>5, <1>6, PartsNext

LEMMA ReadCodeInv ==
    ASSUME AccountInv, NEW a \in Addr, NEW ok \in BOOLEAN, ReadCode(a, ok)
    PROVE  AccountInv'
<1>1. NoncesOK /\ RealOK /\ NoncesExact /\ AddressesFresh
  BY Parts
<1>2. codeCache' = GetCodeCache(a, ok) /\ UNCHANGED <<nonceVars, frames, realVars, used, failed>>
  BY DEF ReadCode
<1>3. codeCache' \subseteq Addr
  BY <1>1, <1>2 DEF RealOK, GetCodeCache
<1>4. NoncesOK' /\ RealOK' /\ NoncesExact' /\ AddressesFresh'
  BY <1>1, <1>2, <1>3, Unwritten
<1>5. FramesOK' /\ InHand'
  BY <1>2, Parts DEF FramesOK, InHand, CountInHand, RecordInHand, NewInHand, In, Top,
                     GetNonce, View, nonceVars, realVars
<1> QED
  BY <1>4, <1>5, PartsNext

LEMMA StutterInv ==
    ASSUME AccountInv, UNCHANGED accountVars
    PROVE  AccountInv'
BY DEF AccountInv, TypeOK, NoncesCoherent, NoncesExact, AddressesFresh, BeforeIsChain,
       CountInHand, RecordInHand, NewInHand, In, Top, GetNonce, View,
       accountVars, nonceVars, realVars

-----------------------------------------------------------------------------
\* What a creation has in hand between two calls of the database stays what the
\* database would answer, and with it everything below.
THEOREM AccountInvariant == Spec => []AccountInv
<1>1. AccountInv /\ [Next]_accountVars => AccountInv'
  <2> SUFFICES ASSUME AccountInv, [Next]_accountVars PROVE AccountInv'
    OBVIOUS
  <2>1. CASE EndCreation
    BY <2>1, EndCreationInv
  <2>2. CASE EnterCall
    BY <2>2, EnterCallInv
  <2>3. CASE ReturnCall
    BY <2>3, ReturnCallInv
  <2>4. CASE RevertFrame
    BY <2>4, RevertFrameInv
  <2>5. CASE \E c, a \in Addr : Create2(c, a)
    BY <2>5, Create2Inv
  <2>6. ASSUME NEW ok \in BOOLEAN, CountNonce(ok) PROVE AccountInv'
    BY <2>6, CountNonceInv
  <2>7. ASSUME NEW ok \in BOOLEAN, RecordNonce(ok) PROVE AccountInv'
    BY <2>7, RecordNonceInv
  <2>8. ASSUME NEW ok \in BOOLEAN, CheckCode(ok) PROVE AccountInv'
    BY <2>8, CheckCodeInv
  <2>9. ASSUME NEW ok \in BOOLEAN, CheckNonce(ok) PROVE AccountInv'
    BY <2>9, CheckNonceInv
  <2>10. ASSUME NEW ok \in BOOLEAN, NewContract(ok) PROVE AccountInv'
    BY <2>10, NewContractInv
  <2>11. ASSUME NEW ok \in BOOLEAN, NEW a \in Addr, ReadCode(a, ok) PROVE AccountInv'
    BY <2>11, ReadCodeInv
  <2>12. ASSUME NEW ok \in BOOLEAN, NEW a \in Addr, NEW c \in Addr, Create(c, a, ok)
         PROVE AccountInv'
    BY <2>12, CreateInv
  <2>13. CASE UNCHANGED accountVars
    BY <2>13, StutterInv
  <2> QED
    BY <2>1, <2>2, <2>3, <2>4, <2>5, <2>6, <2>7, <2>8, <2>9, <2>10, <2>11, <2>12, <2>13 DEF Next
<1> QED
  BY <1>1, InitInv, PTL DEF Spec

\* Every variable keeps its type, and only the innermost frame is at a call of the
\* database.
THEOREM AccountTyping == Spec => []TypeOK
<1>1. AccountInv => TypeOK
  BY DEF AccountInv
<1> QED
  BY <1>1, AccountInvariant, PTL

\* A written nonce is cached as its record has it, any other cached nonce is the
\* chain's (caching.go:292,296).
THEOREM NoncesStayCoherent == Spec => []NoncesCoherent
<1>1. AccountInv => NoncesCoherent
  BY DEF AccountInv
<1> QED
  BY <1>1, AccountInvariant, PTL

\* Where no request failed and no revert undid the last change, the simulation sees the
\* nonce a journaled database would hold, and the record starts from the chain's.
THEOREM NoncesStayExact == Spec => []NoncesExact
<1>1. AccountInv => NoncesExact
  BY DEF AccountInv
<1> QED
  BY <1>1, AccountInvariant, PTL

\* No account makes two addresses from one nonce, whatever requests fail and whatever
\* is reverted.
THEOREM AddressesStayFresh == Spec => []AddressesFresh
<1>1. AccountInv => AddressesFresh
  BY DEF AccountInv
<1> QED
  BY <1>1, AccountInvariant, PTL

-----------------------------------------------------------------------------
\* What a step of the database writes is what was in hand, or one more.
LEMMA NeverFallsStep ==
    ASSUME AccountInv, [Next]_accountVars, NEW a \in Addr, nonceCache[a] # Nil \/ a \notin failed'
    PROVE  View(a) <= View(a)'
<1>1. NoncesOK /\ RealOK /\ NoncesExact /\ AddressesFresh /\ TypeOK /\ RecordInHand /\ NewInHand
  BY Parts DEF AccountInv
<1>2. View(a) \in Nat
  BY <1>1, GetNonceFacts, NonceFacts
<1>3. CASE View(a)' = View(a)
  BY <1>2, <1>3
<1>4. CASE UNCHANGED nonceCache
  BY <1>3, <1>4 DEF View
<1>5. ASSUME NEW b \in Addr, NEW ok \in BOOLEAN,
             nonceCache' = GetNonceCache(b, ok), NoteFailure(b, ok),
             UNCHANGED <<nonceDiffs, realVars, used>>
      PROVE  View(a) <= View(a)'
  BY <1>1, <1>3, <1>5, ReadNonce
<1>6. ASSUME NEW ok \in BOOLEAN, RecordNonce(ok)
      PROVE  View(a) <= View(a)'
  <2>1. In("record")
    BY <1>6 DEF RecordNonce
  <2>2. PICK c \in Addr, n \in Nonce : c = Top.creator /\ n = Top.nonce
    BY <1>1, <2>1, InCreation DEF Stage
  <2>3. SetNonce(c, n + 1, ok)
    BY <1>6, <2>2 DEF RecordNonce
  <2>4. /\ n + 1 \in Nonce
        /\ nonceCache[c] # Nil => n = nonceCache[c]
        /\ c \notin failed => n = View(c)
    BY <1>1, <2>1, <2>2, NonceFacts DEF RecordInHand
  <2>5. /\ View(c)' = n + 1 /\ failed \subseteq failed'
        /\ \A b \in Addr \ {c} : View(b)' = View(b)
    BY <1>1, <2>3, <2>4, WriteNonce
  <2>6. CASE a = c
    <3>1. View(a) = n
      BY <2>4, <2>5, <2>6 DEF View
    <3> QED
      BY <1>2, <2>5, <2>6, <3>1
  <2>7. CASE a # c
    BY <1>3, <2>5, <2>7
  <2> QED
    BY <2>6, <2>7
<1>7. ASSUME NEW ok \in BOOLEAN, NewContract(ok)
      PROVE  View(a) <= View(a)'
  <2>1. In("new")
    BY <1>7 DEF NewContract
  <2>2. PICK c \in Addr : c = Top.address
    BY <1>1, <2>1, InCreation DEF Stage
  <2>3. SetNonce(c, 1, ok)
    BY <1>7, <2>2 DEF NewContract
  <2>4. /\ 1 \in Nonce
        /\ nonceCache[c] # Nil \/ c \notin failed => View(c) = 0
    BY <1>1, <2>1, <2>2, AccountAssumption DEF NewInHand, Nonce
  <2>5. /\ View(c)' = 1 /\ failed \subseteq failed'
        /\ \A b \in Addr \ {c} : View(b)' = View(b)
    BY <1>1, <2>3, <2>4, WriteNonce
  <2>6. CASE a = c
    BY <2>4, <2>5, <2>6
  <2>7. CASE a # c
    BY <1>3, <2>5, <2>7
  <2> QED
    BY <2>6, <2>7
<1>8. ASSUME NEW ok \in BOOLEAN, CountNonce(ok)
      PROVE  View(a) <= View(a)'
  <2>1. PICK c \in Addr : c = Top.creator
    BY <1>1, <1>8, InCreation DEF CountNonce, Stage
  <2> QED
    BY <1>5, <1>8, <2>1 DEF CountNonce
<1>9. ASSUME NEW ok \in BOOLEAN, CheckNonce(ok)
      PROVE  View(a) <= View(a)'
  <2>1. PICK c \in Addr : c = Top.address
    BY <1>1, <1>9, InCreation DEF CheckNonce, Stage
  <2> QED
    BY <1>5, <1>9, <2>1 DEF CheckNonce
<1>10. ASSUME NEW ok \in BOOLEAN, NEW b \in Addr, NEW c \in Addr, Create(c, b, ok)
       PROVE  View(a) <= View(a)'
  BY <1>5, <1>10 DEF Create
<1>11. ASSUME NEW ok \in BOOLEAN, CheckCode(ok) PROVE View(a) <= View(a)'
  BY <1>4, <1>11 DEF CheckCode, nonceVars
<1>12. ASSUME NEW ok \in BOOLEAN, NEW b \in Addr, ReadCode(b, ok) PROVE View(a) <= View(a)'
  BY <1>4, <1>12 DEF ReadCode, nonceVars
<1>13. ASSUME NEW b \in Addr, NEW c \in Addr, Create2(c, b) PROVE View(a) <= View(a)'
  BY <1>4, <1>13 DEF Create2, nonceVars
<1>14. CASE EndCreation \/ EnterCall \/ ReturnCall \/ RevertFrame
  BY <1>4, <1>14 DEF EndCreation, EnterCall, ReturnCall, RevertFrame, nonceVars
<1>15. CASE UNCHANGED accountVars
  BY <1>4, <1>15 DEF accountVars, nonceVars
<1> QED
  BY <1>6, <1>7, <1>8, <1>9, <1>10, <1>11, <1>12, <1>13, <1>14, <1>15 DEF Next

\* A nonce once read or written is never lowered, and any other only by a failed
\* request (caching.go:211).
THEOREM NoncesNeverGoBack == Spec => NoncesNeverFall
<1>1. AccountInv /\ [Next]_accountVars =>
        [\A a \in Addr :
             nonceCache[a] # Nil \/ a \notin failed' => View(a) <= View(a)']_accountVars
  BY NeverFallsStep
<1> QED
  BY <1>1, AccountInvariant, PTL DEF Spec, NoncesNeverFall
=============================================================================
