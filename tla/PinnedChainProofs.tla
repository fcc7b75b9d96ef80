------------------------- MODULE PinnedChainProofs -------------------------
(***************************************************************************)
(* Proofs about PinnedChain, for every set of branches, every height and   *)
(* every set of things to read: typing, that the answers are those of the  *)
(* pinned block where the chain was not replaced, and that no question has *)
(* two answers.                                                            *)
(***************************************************************************)
EXTENDS PinnedChain, TLAPS

-----------------------------------------------------------------------------
\* A block is a sequence of branches that is not too long.
LEMMA BlockFacts ==
    \A b : b \in Block <=> b \in Seq(Branch) /\ Len(b) <= MaxHeight
<1>1. ASSUME NEW b \in Block PROVE b \in Seq(Branch) /\ Len(b) <= MaxHeight
  <2>1. PICK n \in 0..MaxHeight : b \in [1..n -> Branch]
    BY DEF Block
  <2> QED
    BY <2>1, ChainAssumption
<1>2. ASSUME NEW b \in Seq(Branch), Len(b) <= MaxHeight PROVE b \in Block
  <2>1. PICK n \in Nat : n = Len(b)
    OBVIOUS
  <2>2. b \in [1..n -> Branch] /\ n \in 0..MaxHeight
    BY <1>2, <2>1, ChainAssumption
  <2> QED
    BY <2>2 DEF Block
<1> QED
  BY <1>1, <1>2

\* None is no block and no height.
LEMMA NoneFacts == None \notin Block /\ None \notin Nat
BY ChainAssumption

\* The first elements of a sequence.
LEMMA PrefixFacts ==
    ASSUME NEW S, NEW s \in Seq(S), NEW n \in Nat, n <= Len(s)
    PROVE  /\ SubSeq(s, 1, n) \in Seq(S)
           /\ Len(SubSeq(s, 1, n)) = n
           /\ \A i \in 1..n : SubSeq(s, 1, n)[i] = s[i]
           /\ SubSeq(s, 1, n) = [i \in 1..n |-> s[i]]
<1>1. SubSeq(s, 1, n) \in Seq(S)
  OBVIOUS
<1>2. Len(SubSeq(s, 1, n)) = n
  OBVIOUS
<1>3. \A i \in 1..n : SubSeq(s, 1, n)[i] = s[i]
  OBVIOUS
<1>4. SubSeq(s, 1, n) = [i \in 1..n |-> s[i]]
  BY <1>1, <1>2, <1>3
<1> QED
  BY <1>1, <1>2, <1>3, <1>4

\* The first elements of the first elements.
LEMMA PrefixOfPrefix ==
    ASSUME NEW S, NEW s \in Seq(S), NEW n \in Nat, n <= Len(s), NEW m \in Nat, m <= n
    PROVE  SubSeq(SubSeq(s, 1, n), 1, m) = SubSeq(s, 1, m)
<1>1. SubSeq(s, 1, n) \in Seq(S) /\ Len(SubSeq(s, 1, n)) = n
      /\ \A i \in 1..n : SubSeq(s, 1, n)[i] = s[i]
  BY PrefixFacts
<1>2. SubSeq(s, 1, m) = [i \in 1..m |-> s[i]]
  BY PrefixFacts
<1>3. SubSeq(SubSeq(s, 1, n), 1, m) = [i \in 1..m |-> SubSeq(s, 1, n)[i]]
  BY <1>1, PrefixFacts
<1> QED
  BY <1>1, <1>2, <1>3

\* All elements of a sequence.
LEMMA WholePrefix == ASSUME NEW S, NEW s \in Seq(S) PROVE SubSeq(s, 1, Len(s)) = s
OBVIOUS

\* Sequences with a common beginning have what comes before its end in common.
LEMMA CommonPrefix ==
    ASSUME NEW S, NEW s \in Seq(S), NEW t \in Seq(S), NEW n \in Nat, n <= Len(s), n <= Len(t),
           SubSeq(s, 1, n) = SubSeq(t, 1, n), NEW m \in Nat, m <= n
    PROVE  SubSeq(s, 1, m) = SubSeq(t, 1, m)
BY PrefixOfPrefix

\* The parent of a block.
LEMMA FrontFacts ==
    ASSUME NEW b \in Block, NEW n \in Nat, Len(b) = n + 1
    PROVE  Front(b) \in Block /\ Len(Front(b)) = n /\ Front(b) = SubSeq(b, 1, n)
<1>1. b \in Seq(Branch) /\ Len(b) <= MaxHeight
  BY BlockFacts
<1>2. Front(b) = SubSeq(b, 1, n)
  BY <1>1 DEF Front
<1>3. SubSeq(b, 1, n) \in Seq(Branch) /\ Len(SubSeq(b, 1, n)) = n
  BY <1>1, PrefixFacts
<1>4. n <= MaxHeight
  BY <1>1, ChainAssumption
<1>5. SubSeq(b, 1, n) \in Block
  BY <1>3, <1>4, BlockFacts
<1> QED
  BY <1>2, <1>3, <1>5

\* What the node answers.
LEMMA AtFacts ==
    ASSUME TypeOK, NEW n \in Nat, NEW ok \in BOOLEAN
    PROVE  /\ At(n, ok) \in Block \cup {None}
           /\ At(n, ok) # None =>
                  n <= Len(canon) /\ At(n, ok) = SubSeq(canon, 1, n) /\ Len(At(n, ok)) = n
<1>1. canon \in Seq(Branch) /\ Len(canon) <= MaxHeight
  BY BlockFacts DEF TypeOK
<1>2. n <= Len(canon) => SubSeq(canon, 1, n) \in Block /\ Len(SubSeq(canon, 1, n)) = n
  <2> SUFFICES ASSUME n <= Len(canon)
               PROVE  SubSeq(canon, 1, n) \in Block /\ Len(SubSeq(canon, 1, n)) = n
    OBVIOUS
  <2>1. SubSeq(canon, 1, n) \in Seq(Branch) /\ Len(SubSeq(canon, 1, n)) = n
    BY <1>1, PrefixFacts
  <2>2. n <= MaxHeight
    BY <1>1, ChainAssumption
  <2> QED
    BY <2>1, <2>2, BlockFacts
<1> QED
  BY <1>2, NoneFacts DEF At

\* The pinned block, when there is one.
LEMMA HeaderFacts ==
    ASSUME TypeOK, header # None
    PROVE  /\ header \in Block /\ header \in Seq(Branch)
           /\ Len(header) \in Nat /\ Len(header) <= MaxHeight
           /\ SubSeq(header, 1, Len(header)) = header
<1>1. header \in Block
  BY DEF TypeOK
<1>2. header \in Seq(Branch) /\ Len(header) <= MaxHeight
  BY <1>1, BlockFacts
<1> QED
  BY <1>1, <1>2, WholePrefix

LEMMA MinOfTwo ==
    ASSUME NEW a \in Nat, NEW b \in Nat
    PROVE  Min({a, b}) \in Nat /\ Min({a, b}) \in {a, b} /\ Min({a, b}) <= a /\ Min({a, b}) <= b
<1>1. \E x \in {a, b} : \A y \in {a, b} : x <= y
  OBVIOUS
<1> QED
  BY <1>1 DEF Min

-----------------------------------------------------------------------------
\* One lemma for each action.

LEMMA InitInv == Init => ChainInv
<1> SUFFICES ASSUME Init PROVE ChainInv
  OBVIOUS
<1>1. <<>> \in Block
  <2>1. <<>> \in Seq(Branch) /\ Len(<<>>) <= MaxHeight
    BY ChainAssumption
  <2> QED
    BY <2>1, BlockFacts
<1>2. TypeOK
  BY <1>1, ChainAssumption DEF Init, TypeOK
<1> QED
  BY <1>2, ChainAssumption DEF Init, ChainInv, PinnedFirst, IntactHolds, AnswersKept, HashesKept,
                               ToldIsKept

LEMMA GrowInv ==
    ASSUME ChainInv, NEW b \in Branch, Grow(b)
    PROVE  ChainInv'
<1>1. /\ Len(canon) < MaxHeight /\ canon' = Append(canon, b)
      /\ UNCHANGED <<header, cache, hashes, asked, known, told, intact>>
  BY DEF Grow
<1>2. TypeOK /\ PinnedFirst /\ IntactHolds /\ AnswersKept /\ HashesKept /\ ToldIsKept
  BY DEF ChainInv
<1>3. canon \in Seq(Branch)
  BY <1>2, BlockFacts DEF TypeOK
<1>4. canon' \in Seq(Branch) /\ Len(canon') = Len(canon) + 1
      /\ \A i \in 1..Len(canon) : canon'[i] = canon[i]
  BY <1>1, <1>3
<1>5. canon' \in Block
  <2>1. Len(canon') <= MaxHeight
    BY <1>1, <1>3, <1>4, ChainAssumption
  <2> QED
    BY <1>4, <2>1, BlockFacts
<1>6. TypeOK'
  BY <1>1, <1>2, <1>5 DEF TypeOK
<1>7. IntactHolds'
  <2> SUFFICES ASSUME header # None
               PROVE  /\ intact <= Len(header) /\ intact <= Len(canon')
                      /\ SubSeq(canon', 1, intact) = SubSeq(header, 1, intact)
    BY <1>1 DEF IntactHolds
  <2>1. intact \in Nat /\ intact <= Len(header) /\ intact <= Len(canon)
        /\ SubSeq(canon, 1, intact) = SubSeq(header, 1, intact)
    BY <1>2, ChainAssumption DEF IntactHolds, TypeOK
  <2>2. intact <= Len(canon')
    BY <1>3, <1>4, <2>1
  <2>3. SubSeq(canon', 1, intact) = [i \in 1..intact |-> canon'[i]]
    BY <1>4, <2>1, <2>2, PrefixFacts
  <2>4. SubSeq(canon, 1, intact) = [i \in 1..intact |-> canon[i]]
    BY <1>3, <2>1, PrefixFacts
  <2>5. \A i \in 1..intact : canon'[i] = canon[i]
    BY <1>3, <1>4, <2>1
  <2> QED
    BY <2>1, <2>2, <2>3, <2>4, <2>5
<1> QED
  BY <1>1, <1>2, <1>6, <1>7 DEF ChainInv, PinnedFirst, AnswersKept, HashesKept, ToldIsKept

LEMMA ReorganiseInv ==
    ASSUME ChainInv, NEW b \in Branch, NEW h \in 1..Len(canon), Reorganise(h, b)
    PROVE  ChainInv'
<1>1. TypeOK /\ PinnedFirst /\ IntactHolds /\ AnswersKept /\ HashesKept /\ ToldIsKept
  BY DEF ChainInv
<1>2. canon \in Seq(Branch) /\ Len(canon) \in Nat /\ Len(canon) <= MaxHeight
  BY <1>1, BlockFacts DEF TypeOK
<1>3. PICK n \in Nat : n = h - 1 /\ n < Len(canon)
  BY <1>2
<1>4. /\ canon' = Append(SubSeq(canon, 1, n), b)
      /\ intact' = Min({intact, n})
      /\ UNCHANGED <<header, cache, hashes, asked, known, told>>
  BY <1>3 DEF Reorganise
<1>5. SubSeq(canon, 1, n) \in Seq(Branch) /\ Len(SubSeq(canon, 1, n)) = n
      /\ \A i \in 1..n : SubSeq(canon, 1, n)[i] = canon[i]
  BY <1>2, <1>3, PrefixFacts
<1>6. canon' \in Seq(Branch) /\ Len(canon') = n + 1 /\ \A i \in 1..n : canon'[i] = canon[i]
  BY <1>4, <1>5
<1>7. canon' \in Block
  <2>1. Len(canon') <= MaxHeight
    BY <1>2, <1>3, <1>6, ChainAssumption
  <2> QED
    BY <1>6, <2>1, BlockFacts
<1>8. intact \in 0..MaxHeight
  BY <1>1 DEF TypeOK
<1>9. PICK m \in Nat : m = intact' /\ m <= intact /\ m <= n /\ m \in {intact, n}
  <2>1. intact \in Nat
    BY <1>8, ChainAssumption
  <2>2. Min({intact, n}) \in Nat /\ Min({intact, n}) \in {intact, n}
        /\ Min({intact, n}) <= intact /\ Min({intact, n}) <= n
    BY <2>1, MinOfTwo
  <2> QED
    BY <1>4, <2>2
<1>10. intact' \in 0..MaxHeight
  BY <1>8, <1>9, ChainAssumption
<1>11. TypeOK'
  BY <1>1, <1>4, <1>7, <1>10 DEF TypeOK
<1>12. PinnedFirst'
  BY <1>1, <1>3, <1>4, <1>9 DEF PinnedFirst
<1>13. IntactHolds'
  <2> SUFFICES ASSUME header # None
               PROVE  /\ m <= Len(header) /\ m <= Len(canon')
                      /\ SubSeq(canon', 1, m) = SubSeq(header, 1, m)
    BY <1>4, <1>9 DEF IntactHolds
  <2>1. /\ intact <= Len(header) /\ intact <= Len(canon)
        /\ SubSeq(canon, 1, intact) = SubSeq(header, 1, intact)
    BY <1>1 DEF IntactHolds
  <2>2. header \in Seq(Branch) /\ Len(header) \in Nat /\ intact \in Nat
    BY <1>1, <1>8, HeaderFacts
  <2>3. m <= Len(header) /\ m <= Len(canon') /\ m <= Len(canon)
    BY <1>2, <1>3, <1>6, <1>9, <2>1, <2>2
  <2>4. SubSeq(canon, 1, m) = SubSeq(header, 1, m)
    BY <1>2, <1>9, <2>1, <2>2, CommonPrefix
  <2>5. SubSeq(canon', 1, m) = [i \in 1..m |-> canon'[i]]
    BY <1>6, <2>3, PrefixFacts
  <2>6. SubSeq(canon, 1, m) = [i \in 1..m |-> canon[i]]
    BY <1>2, <2>3, PrefixFacts
  <2>7. \A i \in 1..m : canon'[i] = canon[i]
    BY <1>6, <1>9
  <2> QED
    BY <2>3, <2>4, <2>5, <2>6, <2>7
<1>14. AnswersKept'
  <2> SUFFICES ASSUME NEW i \in Item, cache[i] # None, m = Len(header)
               PROVE  cache[i] = header
    BY <1>4, <1>9 DEF AnswersKept
  <2>1. header # None
    BY <1>1 DEF PinnedFirst
  <2>2. intact = Len(header)
    BY <1>1, <1>8, <1>9, <2>1, HeaderFacts DEF IntactHolds
  <2> QED
    BY <1>1, <2>2 DEF AnswersKept
<1>15. HashesKept'
  <2> SUFFICES ASSUME NEW k \in 1..Len(hashes), k = 1 \/ Len(header) - k <= m
               PROVE  hashes[k] = SubSeq(header, 1, Len(header) - k)
    BY <1>1, <1>4, <1>9 DEF HashesKept
  <2>1. header # None
    BY <1>1 DEF PinnedFirst
  <2>2. k \in Nat
    BY <1>1 DEF TypeOK
  <2>3. k = 1 \/ Len(header) - k <= intact
    BY <1>1, <1>8, <1>9, <2>1, <2>2, HeaderFacts
  <2> QED
    BY <1>1, <2>3 DEF HashesKept
<1>16. ToldIsKept'
  BY <1>1, <1>4 DEF ToldIsKept
<1> QED
  BY <1>11, <1>12, <1>13, <1>14, <1>15, <1>16 DEF ChainInv

LEMMA NewEVMInv ==
    ASSUME ChainInv, NewEVM
    PROVE  ChainInv'
<1>1. TypeOK /\ PinnedFirst /\ ToldIsKept
  BY DEF ChainInv
<1>2. /\ header = None /\ header' = canon /\ intact' = Len(canon)
      /\ UNCHANGED <<canon, cache, hashes, asked, known, told>>
  BY DEF NewEVM
<1>3. /\ \A i \in Item : cache[i] = None
      /\ hashes = <<>> /\ asked = None /\ told = {}
  BY <1>1, <1>2 DEF PinnedFirst
<1>4. canon \in Block /\ canon \in Seq(Branch) /\ Len(canon) \in 0..MaxHeight
  <2>1. canon \in Seq(Branch) /\ Len(canon) <= MaxHeight
    BY <1>1, BlockFacts DEF TypeOK
  <2> QED
    BY <1>1, <2>1, ChainAssumption DEF TypeOK
<1>5. TypeOK'
  BY <1>1, <1>2, <1>3, <1>4 DEF TypeOK
<1>6. header' # None
  BY <1>2, <1>4, NoneFacts
<1>7. IntactHolds' /\ PinnedFirst'
  BY <1>2, <1>4, <1>6, ChainAssumption DEF IntactHolds, PinnedFirst
<1>8. AnswersKept' /\ HashesKept' /\ ToldIsKept'
  BY <1>2, <1>3 DEF AnswersKept, HashesKept, ToldIsKept
<1> QED
  BY <1>5, <1>7, <1>8 DEF ChainInv

LEMMA ReadInv ==
    ASSUME ChainInv, NEW i \in Item, NEW ok \in BOOLEAN, Read(i, ok)
    PROVE  ChainInv'
<1>1. TypeOK /\ PinnedFirst /\ IntactHolds /\ AnswersKept /\ HashesKept /\ ToldIsKept
  BY DEF ChainInv
<1>2. header # None /\ asked = None
  BY DEF Read, Idle
<1>3. header \in Block /\ Len(header) \in Nat /\ SubSeq(header, 1, Len(header)) = header
  BY <1>1, <1>2, HeaderFacts
<1>4. At(Len(header), ok) \in Block \cup {None}
  BY <1>1, <1>3, AtFacts
<1>5. PICK answer \in Block \cup {None} :
          /\ answer = IF cache[i] # None THEN cache[i] ELSE At(Len(header), ok)
          /\ cache' = [cache EXCEPT ![i] = answer]
          /\ told' = told \cup {<<i, answer>>}
          /\ UNCHANGED <<canon, header, hashes, asked, known, intact>>
  BY <1>1, <1>4 DEF Read, Tell, TypeOK
<1>6. cache'[i] = answer /\ \A j \in Item \ {i} : cache'[j] = cache[j]
  BY <1>1, <1>5 DEF TypeOK
<1>7. TypeOK'
  BY <1>1, <1>5 DEF TypeOK
<1>8. PinnedFirst' /\ IntactHolds' /\ HashesKept'
  BY <1>1, <1>2, <1>5 DEF PinnedFirst, IntactHolds, HashesKept
<1>9. answer # None /\ intact = Len(header) => answer = header
  <2> SUFFICES ASSUME answer # None, intact = Len(header) PROVE answer = header
    OBVIOUS
  <2>1. CASE cache[i] # None
    BY <1>1, <1>5, <2>1 DEF AnswersKept
  <2>2. CASE cache[i] = None
    <3>1. answer = SubSeq(canon, 1, Len(header))
      BY <1>1, <1>3, <1>5, <2>2, AtFacts
    <3> QED
      BY <1>1, <1>2, <1>3, <3>1 DEF IntactHolds
  <2> QED
    BY <2>1, <2>2
<1>10. AnswersKept'
  BY <1>1, <1>5, <1>6, <1>9 DEF AnswersKept
<1>11. ToldIsKept'
  <2> SUFFICES ASSUME NEW t \in told', t[2] # None
               PROVE  IF t[1] \in Item THEN t[2] = cache'[t[1]]
                      ELSE /\ Len(header) - t[1] \in 1..Len(hashes)
                           /\ t[2] = hashes[Len(header) - t[1]]
    BY <1>5 DEF ToldIsKept
  <2>1. CASE t = <<i, answer>>
    BY <1>6, <2>1
  <2>2. CASE t \in told
    <3>1. t[1] = i => answer = t[2]
      BY <1>1, <1>5, <2>2 DEF ToldIsKept
    <3> QED
      BY <1>1, <1>6, <2>2, <3>1 DEF ToldIsKept
  <2> QED
    BY <1>5, <2>1, <2>2
<1> QED
  BY <1>7, <1>8, <1>10, <1>11 DEF ChainInv

LEMMA BlockHashInv ==
    ASSUME ChainInv, NEW n \in 0..MaxHeight, BlockHash(n)
    PROVE  ChainInv'
<1>1. TypeOK /\ PinnedFirst /\ IntactHolds /\ AnswersKept /\ HashesKept /\ ToldIsKept
  BY DEF ChainInv
<1>2. /\ header # None /\ asked = None /\ n < Len(header)
      /\ hashes' = IF hashes = <<>> THEN <<Front(header)>> ELSE hashes
      /\ \/ /\ Len(header) - n <= Len(hashes')
            /\ told' = told \cup {<<n, hashes'[Len(header) - n]>>}
            /\ UNCHANGED <<asked, known>>
         \/ /\ ~(Len(header) - n <= Len(hashes'))
            /\ asked' = n /\ known' = Len(header) - Len(hashes')
            /\ UNCHANGED told
      /\ UNCHANGED <<canon, header, cache, intact>>
  BY DEF BlockHash, Idle, Tell
<1>3. header \in Block /\ Len(header) \in Nat /\ Len(header) <= MaxHeight /\ n \in Nat
  BY <1>1, <1>2, HeaderFacts, ChainAssumption
<1>4. PICK p \in Nat : Len(header) = p + 1 /\ p = Len(header) - 1
  <2>1. Len(header) - 1 \in Nat /\ Len(header) = (Len(header) - 1) + 1
    BY <1>2, <1>3
  <2> QED
    BY <2>1
<1>5. Front(header) \in Block /\ Len(Front(header)) = p /\ Front(header) = SubSeq(header, 1, p)
  BY <1>3, <1>4, FrontFacts
<1>6. /\ hashes' \in Seq(Block) /\ hashes' # <<>>
      /\ \A k \in 1..Len(hashes') : Len(hashes'[k]) = Len(header) - k
      /\ \A k \in 1..Len(hashes') : k = 1 \/ Len(header) - k <= intact =>
             hashes'[k] = SubSeq(header, 1, Len(header) - k)
  <2>1. CASE hashes = <<>>
    <3>1. hashes' = <<Front(header)>>
      BY <1>2, <2>1
    <3>2. hashes' \in Seq(Block) /\ hashes' # <<>> /\ Len(hashes') = 1 /\ hashes'[1] = Front(header)
      BY <1>5, <3>1
    <3> QED
      BY <1>4, <1>5, <3>2
  <2>2. CASE hashes # <<>>
    BY <1>1, <1>2, <2>2 DEF TypeOK, HashesKept
  <2> QED
    BY <2>1, <2>2
<1>7. \A t \in told : t[2] # None =>
          IF t[1] \in Item THEN t[2] = cache'[t[1]]
          ELSE Len(header') - t[1] \in 1..Len(hashes') /\ t[2] = hashes'[Len(header') - t[1]]
  <2>1. CASE hashes = <<>>
    BY <1>1, <1>2, <2>1 DEF ToldIsKept
  <2>2. CASE hashes # <<>>
    BY <1>1, <1>2, <2>2 DEF ToldIsKept
  <2> QED
    BY <2>1, <2>2
<1>8. PinnedFirst' /\ IntactHolds' /\ AnswersKept'
  BY <1>1, <1>2 DEF PinnedFirst, IntactHolds, AnswersKept
<1>9. Len(hashes') \in Nat
  BY <1>6
<1>10. CASE /\ Len(header) - n <= Len(hashes')
            /\ told' = told \cup {<<n, hashes'[Len(header) - n]>>}
            /\ UNCHANGED <<asked, known>>
  <2>1. Len(header) - n \in 1..Len(hashes')
    BY <1>2, <1>3, <1>9, <1>10
  <2>2. hashes'[Len(header) - n] \in Block
    BY <1>6, <2>1
  <2>3. TypeOK'
    BY <1>1, <1>2, <1>6, <1>10, <2>2 DEF TypeOK
  <2>4. HashesKept'
    BY <1>2, <1>6, <1>10 DEF HashesKept
  <2>5. n \notin Item
    BY <1>3, ChainAssumption
  <2>6. ToldIsKept'
    BY <1>2, <1>7, <1>10, <2>1, <2>5 DEF ToldIsKept
  <2> QED
    BY <1>8, <2>3, <2>4, <2>6 DEF ChainInv
<1>11. CASE /\ ~(Len(header) - n <= Len(hashes'))
            /\ asked' = n /\ known' = Len(header) - Len(hashes')
            /\ UNCHANGED told
  <2>1. asked' # None
    BY <1>3, <1>11, NoneFacts
  <2>2. asked' < known'
    BY <1>3, <1>9, <1>11
  <2>3. TypeOK'
    BY <1>1, <1>2, <1>6, <1>11, <2>1 DEF TypeOK
  <2>4. HashesKept'
    BY <1>2, <1>6, <2>2 DEF HashesKept
  <2>5. ToldIsKept'
    BY <1>7, <1>11 DEF ToldIsKept
  <2> QED
    BY <1>8, <2>3, <2>4, <2>5 DEF ChainInv
<1> QED
  BY <1>2, <1>10, <1>11

LEMMA WalkInv ==
    ASSUME ChainInv, NEW ok \in BOOLEAN, Walk(ok)
    PROVE  ChainInv'
<1>1. TypeOK /\ PinnedFirst /\ IntactHolds /\ AnswersKept /\ HashesKept /\ ToldIsKept
  BY DEF ChainInv
<1>2. PICK next \in Block \cup {None} :
          /\ next = At(known, ok)
          /\ \/ /\ next = None
                /\ told' = told \cup {<<asked, None>>}
                /\ asked' = None /\ known' = 0
                /\ UNCHANGED hashes
             \/ /\ next # None
                /\ hashes' = Append(hashes, Front(next))
                /\ \/ /\ Len(next) - 1 = asked
                      /\ told' = told \cup {<<asked, Front(next)>>}
                      /\ asked' = None /\ known' = 0
                   \/ /\ Len(next) - 1 # asked
                      /\ known' = Len(next) - 1 /\ UNCHANGED <<asked, told>>
  BY DEF Walk, GetHeader, Answer, Tell
<1>3. asked # None /\ UNCHANGED <<canon, header, cache, intact>>
  BY DEF Walk
<1>4. header # None /\ asked \in Nat /\ asked \in 0..MaxHeight /\ asked \notin Item
  BY <1>1, <1>3, ChainAssumption DEF PinnedFirst, TypeOK
<1>5. /\ Len(header) \in Nat /\ header \in Seq(Branch) /\ canon \in Seq(Branch)
      /\ Len(hashes) \in Nat \ {0} /\ hashes \in Seq(Block)
  BY <1>1, <1>3, <1>4, HeaderFacts, BlockFacts DEF TypeOK, HashesKept
<1>6. known = Len(header) - Len(hashes) /\ asked < known
  BY <1>1, <1>3 DEF TypeOK, HashesKept
<1>7. PICK m \in Nat : known = m + 1 /\ asked <= m
  <2>1. known - 1 \in Nat /\ known = (known - 1) + 1 /\ asked <= known - 1
    BY <1>4, <1>5, <1>6
  <2> QED
    BY <2>1
<1>8. PinnedFirst' /\ IntactHolds' /\ AnswersKept'
  BY <1>1, <1>3, <1>4 DEF PinnedFirst, IntactHolds, AnswersKept
<1>9. CASE /\ next = None
           /\ told' = told \cup {<<asked, None>>}
           /\ asked' = None /\ known' = 0
           /\ UNCHANGED hashes
  <2>1. TypeOK'
    BY <1>1, <1>3, <1>4, <1>9 DEF TypeOK
  <2>2. HashesKept' /\ ToldIsKept'
    BY <1>1, <1>3, <1>9 DEF HashesKept, ToldIsKept
  <2> QED
    BY <1>8, <2>1, <2>2 DEF ChainInv
<1>10. CASE next # None /\ hashes' = Append(hashes, Front(next))
  <2>1. /\ known <= Len(canon) /\ next = SubSeq(canon, 1, known) /\ Len(next) = known
        /\ next \in Block /\ known \in Nat
    BY <1>1, <1>2, <1>7, <1>10, AtFacts
  <2>2. Front(next) \in Block /\ Len(Front(next)) = m /\ Front(next) = SubSeq(next, 1, m)
    BY <1>7, <2>1, FrontFacts
  <2>3. Front(next) = SubSeq(canon, 1, m)
    BY <1>5, <1>7, <2>1, <2>2, PrefixOfPrefix
  <2>4. m <= intact => Front(next) = SubSeq(header, 1, m)
    <3>1. /\ intact \in Nat /\ intact <= Len(header) /\ intact <= Len(canon)
          /\ SubSeq(canon, 1, intact) = SubSeq(header, 1, intact)
      BY <1>1, <1>4, ChainAssumption DEF IntactHolds, TypeOK
    <3> QED
      BY <1>5, <2>3, <3>1, CommonPrefix
  <2>5. /\ hashes' \in Seq(Block) /\ Len(hashes') = Len(hashes) + 1 /\ hashes' # <<>>
        /\ hashes'[Len(hashes) + 1] = Front(next)
        /\ \A k \in 1..Len(hashes) : hashes'[k] = hashes[k]
    BY <1>5, <1>10, <2>2
  <2>6. Len(header) - (Len(hashes) + 1) = m
    BY <1>5, <1>6, <1>7
  <2>7. \A k \in 1..Len(hashes') : Len(hashes'[k]) = Len(header) - k
    <3> SUFFICES ASSUME NEW k \in 1..Len(hashes') PROVE Len(hashes'[k]) = Len(header) - k
      OBVIOUS
    <3>1. CASE k \in 1..Len(hashes)
      BY <1>1, <2>5, <3>1 DEF TypeOK
    <3>2. CASE k = Len(hashes) + 1
      BY <2>2, <2>5, <2>6, <3>2
    <3> QED
      BY <1>5, <2>5, <3>1, <3>2
  <2>8. \A k \in 1..Len(hashes') : k = 1 \/ Len(header) - k <= intact =>
            hashes'[k] = SubSeq(header, 1, Len(header) - k)
    <3> SUFFICES ASSUME NEW k \in 1..Len(hashes'), k = 1 \/ Len(header) - k <= intact
                 PROVE  hashes'[k] = SubSeq(header, 1, Len(header) - k)
      OBVIOUS
    <3>1. CASE k \in 1..Len(hashes)
      BY <1>1, <2>5, <3>1 DEF HashesKept
    <3>2. CASE k = Len(hashes) + 1
      <4>1. Len(header) - k = m /\ k # 1
        BY <1>5, <2>6, <3>2
      <4> QED
        BY <2>4, <2>5, <3>2, <4>1
    <3> QED
      BY <1>5, <2>5, <3>1, <3>2
  <2>9. \A t \in told : t[2] # None =>
            IF t[1] \in Item THEN t[2] = cache'[t[1]]
            ELSE Len(header') - t[1] \in 1..Len(hashes') /\ t[2] = hashes'[Len(header') - t[1]]
    BY <1>1, <1>3, <1>5, <2>5 DEF ToldIsKept
  <2>10. CASE /\ Len(next) - 1 = asked
              /\ told' = told \cup {<<asked, Front(next)>>}
              /\ asked' = None /\ known' = 0
    <3>1. asked = m
      BY <1>7, <2>1, <2>10
    <3>2. TypeOK'
      <4>1. told' \subseteq (Item \cup 0..MaxHeight) \X (Block \cup {None})
        <5>1. <<asked, Front(next)>> \in (Item \cup 0..MaxHeight) \X (Block \cup {None})
          BY <1>4, <2>2
        <5>2. told \subseteq (Item \cup 0..MaxHeight) \X (Block \cup {None})
          BY <1>1 DEF TypeOK
        <5> QED
          BY <2>10, <5>1, <5>2
      <4>2. asked' = None /\ known' = 0 /\ header' = header
        BY <1>3, <2>10
      <4> QED
        BY <1>1, <1>3, <2>5, <2>7, <4>1, <4>2 DEF TypeOK
    <3>3. HashesKept'
      BY <1>3, <2>8, <2>10 DEF HashesKept
    <3>4. Len(header) - asked = Len(hashes) + 1 /\ Len(hashes) + 1 \in 1..Len(hashes')
      BY <1>5, <2>5, <2>6, <3>1
    <3>5. ToldIsKept'
      BY <1>3, <1>4, <2>5, <2>9, <2>10, <3>4 DEF ToldIsKept
    <3> QED
      BY <1>8, <3>2, <3>3, <3>5 DEF ChainInv
  <2>11. CASE /\ Len(next) - 1 # asked
              /\ known' = Len(next) - 1 /\ UNCHANGED <<asked, told>>
    <3>1. known' = m /\ asked < m
      BY <1>4, <1>7, <2>1, <2>11
    <3>2. TypeOK'
      BY <1>1, <1>3, <1>4, <2>5, <2>6, <2>7, <2>11, <3>1 DEF TypeOK
    <3>3. HashesKept'
      BY <1>3, <2>5, <2>8, <2>11, <3>1 DEF HashesKept
    <3>4. ToldIsKept'
      BY <2>9, <2>11 DEF ToldIsKept
    <3> QED
      BY <1>8, <3>2, <3>3, <3>4 DEF ChainInv
  <2> QED
    BY <1>2, <1>10, <2>10, <2>11
<1> QED
  BY <1>2, <1>9, <1>10

LEMMA StutterInv ==
    ASSUME ChainInv, UNCHANGED chainVars
    PROVE  ChainInv'
BY DEF ChainInv, TypeOK, PinnedFirst, IntactHolds, AnswersKept, HashesKept, ToldIsKept, chainVars

-----------------------------------------------------------------------------
\* What the program was told is what it keeps, and what it keeps is of the pinned block
\* where the chain was not replaced.
THEOREM ChainInvariant == Spec => []ChainInv
<1>1. ChainInv /\ [Next]_chainVars => ChainInv'
  <2> SUFFICES ASSUME ChainInv, [Next]_chainVars PROVE ChainInv'
    OBVIOUS
  <2>1. CASE NewEVM
    BY <2>1, NewEVMInv
  <2>2. ASSUME NEW b \in Branch, Grow(b) PROVE ChainInv'
    BY <2>2, GrowInv
  <2>3. ASSUME NEW b \in Branch, NEW h \in 1..Len(canon), Reorganise(h, b) PROVE ChainInv'
    BY <2>3, ReorganiseInv
  <2>4. ASSUME NEW n \in 0..MaxHeight, BlockHash(n) PROVE ChainInv'
    BY <2>4, BlockHashInv
  <2>5. ASSUME NEW ok \in BOOLEAN, Walk(ok) PROVE ChainInv'
    BY <2>5, WalkInv
  <2>6. ASSUME NEW ok \in BOOLEAN, NEW i \in Item, Read(i, ok) PROVE ChainInv'
    BY <2>6, ReadInv
  <2>7. CASE UNCHANGED chainVars
    BY <2>7, StutterInv
  <2> QED
    BY <2>1, <2>2, <2>3, <2>4, <2>5, <2>6, <2>7 DEF Next
<1> QED
  BY <1>1, InitInv, PTL DEF Spec

\* Every variable keeps its type; the hash kept at k is that of a block k below the
\* pinned one.
THEOREM ChainTyping == Spec => []TypeOK
<1>1. ChainInv => TypeOK
  BY DEF ChainInv
<1> QED
  BY <1>1, ChainInvariant, PTL

\* However the chain grows and is reorganised, answers are those of the pinned block's
\* own state and ancestors, up to the lowest fork (evm.go:46, chain.go:32).
THEOREM AnswersOfPinnedBlock == Spec => []OfPinnedBlock
<1>1. ChainInv => OfPinnedBlock
  <2> SUFFICES ASSUME ChainInv, NEW t \in told, t[2] # None
               PROVE  IF t[1] \in Item
                      THEN intact = Len(header) => t[2] = header
                      ELSE t[1] <= intact \/ t[1] = Len(header) - 1 =>
                               t[2] = SubSeq(header, 1, t[1])
    BY DEF OfPinnedBlock
  <2>1. TypeOK /\ PinnedFirst /\ AnswersKept /\ HashesKept /\ ToldIsKept
    BY DEF ChainInv
  <2>2. header # None
    BY <2>1 DEF PinnedFirst
  <2>3. CASE t[1] \in Item
    BY <2>1, <2>3 DEF AnswersKept, ToldIsKept
  <2>4. CASE t[1] \notin Item
    <3>1. PICK n \in Nat : n = t[1]
      BY <2>1, <2>4, ChainAssumption DEF TypeOK
    <3>2. PICK k \in 1..Len(hashes) : k = Len(header) - n /\ t[2] = hashes[k]
      BY <2>1, <2>4, <3>1 DEF ToldIsKept
    <3>3. Len(header) - k = n
      BY <2>1, <2>2, <3>1, <3>2, HeaderFacts
    <3>4. n = Len(header) - 1 => k = 1
      BY <2>1, <2>2, <3>1, <3>2, HeaderFacts
    <3>5. n <= intact \/ n = Len(header) - 1 => t[2] = SubSeq(header, 1, n)
      BY <2>1, <3>2, <3>3, <3>4 DEF HashesKept
    <3> QED
      BY <2>4, <3>1, <3>5
  <2> QED
    BY <2>3, <2>4
<1> QED
  BY <1>1, ChainInvariant, PTL

\* No question is ever given two answers, however the chain is reorganised in between,
\* save for nothing when a request fails (caching.go:195).
THEOREM OneAnswerOnly == Spec => []OneAnswer
<1>1. ChainInv => OneAnswer
  BY DEF ChainInv, ToldIsKept, OneAnswer
<1> QED
  BY <1>1, ChainInvariant, PTL

\* BLOCKHASH's loop has no bound of its own: while it goes on, every iteration comes to a
\* smaller number, which stays above the one it looks for, whatever the node did in
\* between (chain.go:33).
THEOREM WalkDescends ==
    Spec => [][asked # None /\ UNCHANGED canon =>
                   asked' = None \/ (asked' = asked /\ known' < known /\ asked < known')]_chainVars
<1>1. ASSUME ChainInv, ChainInv', [Next]_chainVars
      PROVE  [asked # None /\ UNCHANGED canon =>
                   asked' = None \/ (asked' = asked /\ known' < known /\ asked < known')]_chainVars
  <2> SUFFICES ASSUME asked # None, UNCHANGED canon, asked' # None, ~UNCHANGED chainVars
               PROVE  asked' = asked /\ known' < known /\ asked < known'
    BY <1>1
  <2>1. asked' < known'
    BY <1>1 DEF ChainInv, HashesKept
  <2>2. PICK ok \in BOOLEAN : Walk(ok)
    <3>1. ASSUME NEW b \in Branch, Grow(b) PROVE FALSE
      <4>1. canon \in Seq(Branch)
        BY <1>1, BlockFacts DEF ChainInv, TypeOK
      <4>2. Len(Append(canon, b)) = Len(canon) + 1 /\ Len(canon) \in Nat
        BY <4>1
      <4> QED
        BY <3>1, <4>2 DEF Grow
    <3>2. ASSUME NEW b \in Branch, NEW h \in 1..Len(canon), Reorganise(h, b) PROVE FALSE
      <4>1. canon \in Seq(Branch) /\ Len(canon) \in Nat
        BY <1>1, BlockFacts DEF ChainInv, TypeOK
      <4>2. PICK m \in Nat : h = m + 1 /\ m <= Len(canon)
        BY <4>1
      <4>3. SubSeq(canon, 1, m) \in Seq(Branch) /\ Len(SubSeq(canon, 1, m)) = m
        BY <4>1, <4>2, PrefixFacts
      <4>4. Append(SubSeq(canon, 1, m), b)[h] = b
        BY <4>2, <4>3
      <4>5. canon' = Append(SubSeq(canon, 1, m), b) /\ canon[h] # b
        BY <3>2, <4>1, <4>2 DEF Reorganise
      <4> QED
        BY <4>4, <4>5
    <3> QED
      BY <1>1, <3>1, <3>2 DEF Next, NewEVM, BlockHash, Read, Idle, ChainInv, PinnedFirst
  <2>3. asked' = asked /\ header' = header
    BY <2>2 DEF Walk, Answer
  <2>4. /\ hashes \in Seq(Block) /\ header # None /\ Len(header) \in Nat
        /\ known = Len(header) - Len(hashes)
    BY <1>1, HeaderFacts DEF ChainInv, TypeOK, PinnedFirst
  <2>5. known' = Len(header) - Len(hashes')
    BY <1>1, <2>3 DEF ChainInv, TypeOK
  <2>6. PICK next \in Block : hashes' = Append(hashes, Front(next))
    BY <2>2 DEF Walk, Answer
  <2>7. Len(hashes') = Len(hashes) + 1 /\ Len(hashes) \in Nat
    BY <2>4, <2>6
  <2> QED
    BY <2>1, <2>3, <2>4, <2>5, <2>7
<1> QED
  BY <1>1, ChainInvariant, PTL DEF Spec
=============================================================================
