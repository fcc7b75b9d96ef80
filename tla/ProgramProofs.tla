--------------------------- MODULE ProgramProofs ---------------------------
(***************************************************************************)
(* Proofs about Program, for every set of scripts and links: what the      *)
(* scans of ScriptInput find in a text of any length, and that the exit    *)
(* status, the report and standard output agree.                           *)
(***************************************************************************)
EXTENDS Program, SequenceTheorems, FiniteSetTheorems, WellFoundedInduction, TLAPS

-----------------------------------------------------------------------------
\* Numbers.

\* Every set of numbers has a least one.
LEMMA LeastNumber ==
    ASSUME NEW S \in SUBSET Nat, S # {}
    PROVE  \E m \in S : \A n \in S : m <= n
<1> DEFINE R == {p \in Nat \X Nat : p[1] < p[2]}
<1>1. IsWellFoundedOn(R, Nat)
  BY NatLessThanWellFounded DEF OpToRel
<1>2. \E m \in S : \A n \in S : <<n, m>> \notin R
  <2> HIDE DEF R
  <2> QED
    BY <1>1, WFMin
<1>3. PICK m \in S : \A n \in S : <<n, m>> \notin R
  BY <1>2
<1>4. \A n \in S : n \in Nat /\ m \in Nat /\ ~(n < m)
  BY <1>3
<1>5. \A n \in S : m <= n
  BY <1>4
<1> QED
  BY <1>5

\* What Min returns.
LEMMA MinFacts ==
    ASSUME NEW S \in SUBSET Nat, S # {}
    PROVE  Min(S) \in S /\ \A n \in S : Min(S) <= n
BY LeastNumber DEF Min

-----------------------------------------------------------------------------
\* Texts.

\* A part of a text.
LEMMA PartFacts ==
    ASSUME NEW S, NEW t \in Seq(S), NEW m \in Nat \ {0}, NEW n \in Nat, n <= Len(t)
    PROVE  /\ SubSeq(t, m, n) \in Seq(S)
           /\ Len(SubSeq(t, m, n)) = IF m <= n THEN n - m + 1 ELSE 0
           /\ \A i \in 1..n - m + 1 : SubSeq(t, m, n)[i] = t[m + i - 1]
<1>1. \A i \in m..n : t[i] \in S
  OBVIOUS
<1> QED
  BY <1>1, SubSeqProperties

\* IndexOf finds the first of the tokens, if there is one.
LEMMA IndexFacts ==
    ASSUME NEW S, NEW t \in Seq(S), NEW T
    PROVE  /\ IndexOf(t, T) \in 0..Len(t)
           /\ IndexOf(t, T) # 0 => t[IndexOf(t, T)] \in T
           /\ \A k \in 1..Len(t) : t[k] \in T => IndexOf(t, T) # 0 /\ IndexOf(t, T) <= k
<1> DEFINE I == {i \in 1..Len(t) : t[i] \in T}
<1>1. IndexOf(t, T) = IF I # {} THEN Min(I) ELSE 0
  BY DEF IndexOf, SelectInSeq
<1>2. ASSUME I # {} PROVE Min(I) \in I /\ \A k \in I : Min(I) <= k
  <2>1. I \in SUBSET Nat
    OBVIOUS
  <2> HIDE DEF I
  <2> QED
    BY <1>2, <2>1, MinFacts
<1>3. Len(t) \in Nat
  OBVIOUS
<1>4. CASE I = {}
  BY <1>1, <1>3, <1>4
<1>5. CASE I # {}
  <2>1. IndexOf(t, T) \in I /\ \A k \in I : IndexOf(t, T) <= k
    BY <1>1, <1>2, <1>5
  <2> QED
    BY <1>3, <2>1
<1> QED
  BY <1>4, <1>5

\* The first position whose token is among those looked for is the one found.
LEMMA IndexIs ==
    ASSUME NEW S, NEW t \in Seq(S), NEW T, NEW i \in 1..Len(t), t[i] \in T,
           \A k \in 1..i - 1 : t[k] \notin T
    PROVE  IndexOf(t, T) = i
<1>1. /\ IndexOf(t, T) \in 0..Len(t) /\ IndexOf(t, T) # 0
      /\ t[IndexOf(t, T)] \in T /\ IndexOf(t, T) <= i
  BY IndexFacts
<1> QED
  BY <1>1

LEMMA AfterFacts ==
    ASSUME NEW S, NEW t \in Seq(S), NEW x
    PROVE  /\ After(t, x) \in Seq(S)
           /\ Len(After(t, x)) = Len(t) - IndexOf(t, {x})
           /\ \A k \in 1..Len(After(t, x)) : After(t, x)[k] = t[IndexOf(t, {x}) + k]
<1>1. PICK i \in 0..Len(t) : i = IndexOf(t, {x})
  BY IndexFacts
<1>2. After(t, x) = SubSeq(t, i + 1, Len(t))
  BY <1>1 DEF After
<1>3. /\ After(t, x) \in Seq(S)
      /\ Len(After(t, x)) = IF i + 1 <= Len(t) THEN Len(t) - (i + 1) + 1 ELSE 0
      /\ \A k \in 1..Len(t) - (i + 1) + 1 : After(t, x)[k] = t[i + 1 + k - 1]
  BY <1>2, PartFacts
<1>4. Len(After(t, x)) = Len(t) - i
  BY <1>3
<1>5. \A k \in 1..Len(t) - i : After(t, x)[k] = t[i + k]
  <2> SUFFICES ASSUME NEW k \in 1..Len(t) - i PROVE After(t, x)[k] = t[i + k]
    OBVIOUS
  <2>1. i + 1 + k - 1 = i + k /\ k \in 1..Len(t) - (i + 1) + 1
    OBVIOUS
  <2> QED
    BY <1>3, <2>1
<1> QED
  BY <1>1, <1>3, <1>4, <1>5

LEMMA FromFacts ==
    ASSUME NEW S, NEW t \in Seq(S), NEW T
    PROVE  /\ From(t, T) \in Seq(S)
           /\ IndexOf(t, T) # 0 =>
                  /\ Len(From(t, T)) = Len(t) - IndexOf(t, T) + 1
                  /\ \A k \in 1..Len(From(t, T)) : From(t, T)[k] = t[IndexOf(t, T) + k - 1]
<1>1. PICK i \in 0..Len(t) : i = IndexOf(t, T)
  BY IndexFacts
<1>2. CASE i = 0
  BY <1>1, <1>2 DEF From
<1>3. CASE i # 0
  <2>1. From(t, T) = SubSeq(t, i, Len(t))
    BY <1>1, <1>3 DEF From
  <2>2. /\ From(t, T) \in Seq(S)
        /\ Len(From(t, T)) = IF i <= Len(t) THEN Len(t) - i + 1 ELSE 0
        /\ \A k \in 1..Len(t) - i + 1 : From(t, T)[k] = t[i + k - 1]
    BY <1>3, <2>1, PartFacts
  <2> QED
    BY <1>1, <1>3, <2>2
<1> QED
  BY <1>2, <1>3

LEMMA UpToFacts ==
    ASSUME NEW S, NEW t \in Seq(S), NEW T
    PROVE  /\ UpTo(t, T) \in Seq(S)
           /\ Len(UpTo(t, T)) = IF IndexOf(t, T) = 0 THEN Len(t) ELSE IndexOf(t, T) - 1
           /\ \A k \in 1..Len(UpTo(t, T)) : UpTo(t, T)[k] = t[k]
<1>1. PICK i \in 0..Len(t) : i = IndexOf(t, T)
  BY IndexFacts
<1>2. CASE i = 0
  BY <1>1, <1>2 DEF UpTo
<1>3. CASE i # 0
  <2>1. PICK n \in Nat : n = i - 1 /\ n <= Len(t)
    BY <1>3
  <2>2. UpTo(t, T) = SubSeq(t, 1, n)
    BY <1>1, <1>3, <2>1 DEF UpTo
  <2>3. /\ UpTo(t, T) \in Seq(S) /\ Len(UpTo(t, T)) = n
        /\ \A k \in 1..n : UpTo(t, T)[k] = t[k]
    BY <2>1, <2>2
  <2> QED
    BY <1>1, <1>3, <2>1, <2>3
<1> QED
  BY <1>2, <1>3

\* A text of one token.
LEMMA OneToken ==
    ASSUME NEW S, NEW t \in Seq(S), Len(t) = 1
    PROVE  t = <<t[1]>>
<1>1. Len(<<t[1]>>) = 1 /\ <<t[1]>>[1] = t[1] /\ t[1] \in S
  OBVIOUS
<1>2. <<t[1]>> \in Seq(S)
  BY <1>1
<1> QED
  BY <1>1, <1>2, SeqEqual

\* The bytes of a number that nothing follows.
LEMMA FromHexFacts ==
    ASSUME NEW n \in Number
    PROVE  FromHex(<<n>>) = [of |-> n, shifted |-> FALSE]
<1>1. Tail(<<n>>) = <<>>
  OBVIOUS
<1>2. {i \in DOMAIN <<>> : <<>>[i] \in OddToken} = {}
  OBVIOUS
<1>3. ~IsOdd(<<>>)
  <2>1. Cardinality({}) = 0
    BY FS_EmptySet
  <2>2. ~(0 % 2 = 1)
    OBVIOUS
  <2> QED
    BY <1>2, <2>1, <2>2 DEF IsOdd
<1>4. IsOdd(<<>>) = FALSE
  BY <1>3 DEF IsOdd
<1> QED
  BY <1>1, <1>4 DEF FromHex

\* Whatever the text, FromHex makes bytes of it.
LEMMA FromHexType == \A t : FromHex(t) \in Bytes
BY DEF FromHex, NoBytes, Bytes, IsOdd

\* The values appended to a link are texts.
LEMMA ExtraDataType ==
    ASSUME NEW t \in Seq(Token)
    PROVE  ExtraData(t) \in Seq(Seq(Token))
<1>1. UpTo(From(From(t, {"insert"}), Number), {"newline"}) \in Seq(Token)
  BY FromFacts, UpToFacts
<1> QED
  BY <1>1 DEF ExtraData

\* Hashes that are marked as they should be are the data to sign.
LEMMA MarkedFacts ==
    ASSUME text \in Seq(Token), Marked
    PROVE  Signed(text) = [of |-> "hashes", shifted |-> FALSE]
<1> DEFINE rest == After(text, "prefix")
<1>1. rest \in Seq(Token)
  BY AfterFacts
<1>2. PICK i \in 1..Len(rest), j \in 1..Len(rest) :
          /\ i < j /\ rest[i] = "hashes" /\ rest[j] = "suffix"
          /\ \A k \in 1..j - 1 : k = i \/ rest[k] \in Blank
  BY DEF Marked
<1> HIDE DEF rest
<1> DEFINE u == UpTo(rest, {"suffix"})
<1>3. IndexOf(rest, {"suffix"}) = j
  <2>1. \A k \in 1..j - 1 : rest[k] \notin {"suffix"}
    BY <1>2 DEF Blank
  <2> QED
    BY <1>1, <1>2, <2>1, IndexIs
<1>4. u \in Seq(Token) /\ Len(u) = j - 1 /\ \A k \in 1..j - 1 : u[k] = rest[k]
  BY <1>1, <1>3, UpToFacts
<1> HIDE DEF u
<1>5. {k \in DOMAIN u : u[k] \notin Blank} = {i}
  <2>1. DOMAIN u = 1..j - 1
    BY <1>4
  <2>2. i \in 1..j - 1 /\ "hashes" \notin Blank
    BY <1>2 DEF Blank
  <2> QED
    BY <1>2, <1>4, <2>1, <2>2
<1>6. Min({i}) = i /\ Max({i}) = i
  <2>1. i <= i /\ i >= i
    BY <1>1
  <2> QED
    BY <2>1 DEF Min, Max
<1>7. TrimSpace(u) = SubSeq(u, i, i)
  BY <1>5, <1>6 DEF TrimSpace
<1>8. SubSeq(u, i, i) = <<"hashes">>
  <2>1. i \in Nat \ {0} /\ i <= Len(u) /\ i - i + 1 = 1 /\ i + 1 - 1 = i /\ i <= i
    BY <1>1, <1>2, <1>4
  <2>2. /\ SubSeq(u, i, i) \in Seq(Token) /\ Len(SubSeq(u, i, i)) = 1
        /\ SubSeq(u, i, i)[1] = u[i]
    BY <1>4, <2>1, PartFacts
  <2>3. u[i] = "hashes"
    BY <1>2, <1>4, <2>1
  <2> QED
    BY <2>2, <2>3, OneToken
<1>9. Signed(text) = FromHex(TrimSpace(u))
  BY DEF Signed, rest, u
<1> QED
  BY <1>7, <1>8, <1>9, FromHexFacts DEF Number

\* A number that is announced, and ends with its line, is the value appended.
LEMMA AnnouncedFacts ==
    ASSUME text \in Seq(Token), NEW n \in Number, Announced(n, {"newline"})
    PROVE  ExtraData(text) = <<<<n>>>>
<1> DEFINE rest == After(text, "insert")
           line == From(text, {"insert"})
<1>1. PICK p \in 1..Len(text) : p = IndexOf(text, {"insert"}) /\ text[p] = "insert"
  BY IndexFacts DEF Announced
<1>2. /\ rest \in Seq(Token) /\ Len(rest) = Len(text) - p
      /\ \A k \in 1..Len(rest) : rest[k] = text[p + k]
  <2>1. /\ rest \in Seq(Token) /\ Len(rest) = Len(text) - IndexOf(text, {"insert"})
        /\ \A k \in 1..Len(rest) : rest[k] = text[IndexOf(text, {"insert"}) + k]
    BY AfterFacts
  <2> HIDE DEF rest
  <2> QED
    BY <1>1, <2>1
<1>3. /\ line \in Seq(Token) /\ Len(line) = Len(text) - p + 1
      /\ \A k \in 1..Len(line) : line[k] = text[p + k - 1]
  BY <1>1, FromFacts
<1>4. PICK i \in 1..Len(rest) :
          /\ i = IndexOf(rest, Token \ Blank)
          /\ rest[i] = n
          /\ i < Len(rest) => rest[i + 1] = "newline"
  BY <1>2, IndexFacts DEF Announced
<1>5. \A k \in 1..i - 1 : rest[k] \in Blank
  BY <1>2, <1>4, IndexFacts
<1> HIDE DEF rest, line
<1>6. /\ Len(line) = Len(rest) + 1 /\ line[1] = "insert"
      /\ \A k \in 1..Len(rest) : line[k + 1] = rest[k]
  <2>1. Len(line) = Len(rest) + 1 /\ p + 1 - 1 = p /\ 1 \in 1..Len(line)
    BY <1>1, <1>2, <1>3
  <2>2. line[1] = "insert"
    BY <1>1, <1>3, <2>1
  <2>3. ASSUME NEW k \in 1..Len(rest) PROVE line[k + 1] = rest[k]
    <3>1. k + 1 \in 1..Len(line) /\ p + (k + 1) - 1 = p + k
      BY <1>1, <1>2, <2>1
    <3> QED
      BY <1>2, <1>3, <3>1
  <2> QED
    BY <2>1, <2>2, <2>3
<1>7. IndexOf(line, Number) = i + 1
  <2>1. i + 1 \in 1..Len(line) /\ line[i + 1] \in Number
    BY <1>2, <1>4, <1>6
  <2>2. \A k \in 1..(i + 1) - 1 : line[k] \notin Number
    <3> SUFFICES ASSUME NEW k \in 1..i PROVE line[k] \notin Number
      BY <1>2
    <3>1. CASE k = 1
      BY <1>6, <3>1 DEF Number
    <3>2. CASE k # 1
      <4>1. k - 1 \in 1..i - 1 /\ k - 1 \in 1..Len(rest) /\ (k - 1) + 1 = k
        BY <1>2, <3>2
      <4> QED
        BY <1>5, <1>6, <4>1 DEF Blank, Number
    <3> QED
      BY <3>1, <3>2
  <2> QED
    BY <1>3, <2>1, <2>2, IndexIs
<1> DEFINE w == From(line, Number)
<1>8. /\ w \in Seq(Token) /\ Len(w) = Len(rest) - i + 1
      /\ \A k \in 1..Len(w) : w[k] = line[(i + 1) + k - 1]
  <2>1. i + 1 # 0 /\ Len(line) - (i + 1) + 1 = Len(rest) - i + 1
    BY <1>2, <1>6
  <2>2. /\ w \in Seq(Token) /\ Len(w) = Len(line) - IndexOf(line, Number) + 1
        /\ \A k \in 1..Len(w) : w[k] = line[IndexOf(line, Number) + k - 1]
    <3>1. IndexOf(line, Number) # 0
      BY <1>7, <2>1
    <3> QED
      BY <1>3, <3>1, FromFacts
  <2> HIDE DEF w
  <2> QED
    BY <1>7, <2>1, <2>2
<1> HIDE DEF w
<1>9. /\ w[1] = n /\ 1 \in 1..Len(w)
      /\ Len(w) > 1 => 2 \in 1..Len(w) /\ w[2] = "newline"
  <2>1. 1 \in 1..Len(w) /\ (i + 1) + 1 - 1 = i + 1 /\ (i + 1) + 2 - 1 = (i + 1) + 1
    BY <1>2, <1>8
  <2>2. Len(w) > 1 => i < Len(rest) /\ 2 \in 1..Len(w) /\ i + 1 \in 1..Len(rest)
    BY <1>2, <1>8
  <2> QED
    BY <1>4, <1>6, <1>8, <2>1, <2>2
<1>10. UpTo(w, {"newline"}) = <<n>>
  <2>1. n # "newline"
    BY DEF Number
  <2>2. Len(UpTo(w, {"newline"})) = 1
    <3>1. CASE Len(w) = 1
      <4>1. IndexOf(w, {"newline"}) = 0
        BY <1>8, <1>9, <2>1, <3>1, IndexFacts
      <4> QED
        BY <1>8, <3>1, <4>1, UpToFacts
    <3>2. CASE Len(w) > 1
      <4>1. \A k \in 1..2 - 1 : w[k] \notin {"newline"}
        BY <1>9, <2>1
      <4>2. 2 \in 1..Len(w) /\ w[2] \in {"newline"}
        BY <1>9, <3>2
      <4>3. IndexOf(w, {"newline"}) = 2
        BY <1>8, <4>1, <4>2, IndexIs
      <4>4. Len(UpTo(w, {"newline"})) =
                IF IndexOf(w, {"newline"}) = 0 THEN Len(w) ELSE IndexOf(w, {"newline"}) - 1
        BY <1>8, UpToFacts
      <4> QED
        BY <4>3, <4>4
    <3> QED
      BY <1>8, <1>9, <3>1, <3>2
  <2>3. UpTo(w, {"newline"}) \in Seq(Token) /\ UpTo(w, {"newline"})[1] = n
    BY <1>8, <1>9, <2>2, UpToFacts
  <2> QED
    BY <2>2, <2>3
<1> QED
  BY <1>1, <1>10 DEF ExtraData, w, line

-----------------------------------------------------------------------------
\* Output.

Written == {"text", "report"}

LEMMA SayFacts ==
    ASSUME out \in Seq(Written), NEW what \in Written, out' = Append(out, what)
    PROVE  /\ out' \in Seq(Written)
           /\ Len(out') = Len(out) + 1
           /\ out'[Len(out')] = what
           /\ \A i \in 1..Len(out) : out'[i] = out[i]
OBVIOUS

\* What was written first stays first.
LEMMA FirstKept ==
    ASSUME out \in Seq(Written), Say("text") \/ Say("report") \/ Quiet
    PROVE  out # <<>> => out' # <<>> /\ out'[1] = out[1]
<1>1. CASE Quiet
  BY <1>1 DEF Quiet
<1>2. ASSUME NEW what \in Written, Say(what), out # <<>>
      PROVE  out' # <<>> /\ out'[1] = out[1]
  <2>1. Len(out') = Len(out) + 1 /\ \A i \in 1..Len(out) : out'[i] = out[i]
    BY <1>2, SayFacts DEF Say
  <2>2. 1 \in 1..Len(out) /\ Len(out) + 1 # 0 /\ Len(<<>>) = 0
    BY <1>2
  <2> QED
    BY <2>1, <2>2
<1> QED
  BY <1>1, <1>2 DEF Written

\* A step that ends well or badly, with no report, leaves nothing delivered.
Ends == stage' = "end" /\ exit' \in {"error", "panic"}
GoesOn == stage' # "end" /\ exit' = "none"

LEMMA Undelivered ==
    ASSUME ProgInv, stage # "end", Say("text") \/ Quiet, UNCHANGED file, Ends \/ GoesOn
    PROVE  /\ out' \in Seq(Written)
           /\ ~Delivered'
           /\ StatusTellsTruth' /\ OneReport' /\ CleanIfWellFed' /\ NotYet'
           /\ exit' \in {"none", "ok", "error", "panic"}
           /\ file' \in {"none", "report"}
<1>1. out \in Seq(Written) /\ ~Printed /\ file # "report" /\ file \in {"none", "report"}
  BY DEF ProgInv, TypeOK, NotYet, Delivered, Written
<1>2. out' \in Seq(Written) /\ ~Printed'
  <2>1. CASE Quiet
    BY <1>1, <2>1 DEF Quiet, Printed
  <2>2. CASE Say("text")
    <3>1. /\ out' \in Seq(Written) /\ Len(out') = Len(out) + 1
          /\ out'[Len(out')] = "text" /\ \A i \in 1..Len(out) : out'[i] = out[i]
      BY <1>1, <2>2, SayFacts DEF Say, Written
    <3>2. \A i \in 1..Len(out') : i \in 1..Len(out) \/ i = Len(out')
      BY <1>1, <3>1
    <3> QED
      BY <1>1, <3>1, <3>2 DEF Printed
  <2> QED
    BY <2>1, <2>2
<1>3. ~Delivered'
  BY <1>1, <1>2 DEF Delivered
<1>4. \A i \in 1..Len(out') : out'[i] # "report"
  BY <1>2 DEF Printed
<1> QED
  BY <1>1, <1>2, <1>3, <1>4 DEF StatusTellsTruth, OneReport, CleanIfWellFed, NotYet, Ends, GoesOn

\* The parameters a link or the flags may have.
LEMMA QueryFacts ==
    /\ NoQuery \in Query
    /\ \A f \in Flags : f.input \in Seq(Seq(Token))
    /\ \A q \in Query : q.input \in Seq(Seq(Token))
<1>1. Inputs \subseteq Seq(Seq(Token))
  <2>1. <<>> \in Seq(Seq(Token))
    OBVIOUS
  <2>2. ASSUME NEW i \in RawInput PROVE <<i>> \in Seq(Seq(Token))
    <3>1. i \in Seq(Token)
      BY InputAssumption
    <3> QED
      BY <3>1
  <2> QED
    BY <2>1, <2>2 DEF Inputs
<1>2. NoQuery \in Query
  BY DEF NoQuery, Query, Inputs, Contract, OverridesText
<1> QED
  BY <1>1, <1>2 DEF Flags, Query

\* The text is one.
LEMMA TextType == TypeOK => text \in Seq(Token)
<1>1. <<>> \in Seq(Token) /\ Script \subseteq Seq(Token)
  BY InputAssumption
<1> QED
  BY <1>1 DEF TypeOK

-----------------------------------------------------------------------------
\* One lemma for each action.

LEMMA InitInv == Init => ProgInv
<1> SUFFICES ASSUME Init PROVE ProgInv
  OBVIOUS
<1>1. flags \in Flags /\ text = <<>> /\ out = <<>> /\ file = "none" /\ stage = "connect"
  BY DEF Init
<1>2. ~Delivered
  BY <1>1 DEF Delivered, Printed
<1>3. ~Marked
  <2>1. <<>> \in Seq(Token) /\ 0..Len(<<>>) = {0}
    OBVIOUS
  <2> QED
    BY <1>1, <2>1, IndexFacts DEF Marked
<1>4. TypeOK
  <2>1. query \in [from : BOOLEAN, contract : Contract, overrides : OverridesText,
                   input : Seq(Seq(Token))]
    BY DEF Init, NoQuery, Contract, OverridesText
  <2>2. tx \in [to : Contract, data : Bytes] /\ hashes \in Bytes
    BY DEF Init, NoBytes, Bytes, Contract
  <2>3. out \in Seq({"text", "report"}) /\ text \in Script \cup {<<>>} /\ link \in Query
    BY <1>1, QueryFacts DEF Init
  <2>4. simulated \in BOOLEAN /\ misread \in BOOLEAN
    BY DEF Init
  <2> QED
    BY <1>1, <2>1, <2>2, <2>3, <2>4 DEF Init, TypeOK
<1> QED
  BY <1>1, <1>2, <1>3, <1>4 DEF Init, ProgInv, StatusTellsTruth, OneReport, CleanIfWellFed,
                                HashesAsPrinted, NotYet, TextRead, QuerySource, TxSource,
                                SimulatedFirst, SilentIfWellFed, At, Printed

LEMMA ConnectInv ==
    ASSUME ProgInv, Connect
    PROVE  ProgInv'
<1>1. /\ stage = "connect" /\ UNCHANGED <<inputVars, txVars, file>>
      /\ \/ Quiet /\ stage' = "extract" /\ exit' = "none"
         \/ Say("text") /\ stage' = "end" /\ exit' = "error"
  BY DEF Connect, Continue, Complain, Exit
<1>2. /\ out' \in Seq(Written) /\ ~Delivered' /\ exit' \in {"none", "ok", "error", "panic"}
      /\ StatusTellsTruth' /\ OneReport' /\ CleanIfWellFed' /\ NotYet'
      /\ file' \in {"none", "report"}
  BY <1>1, Undelivered DEF Ends, GoesOn
<1>3. TypeOK'
  BY <1>1, <1>2 DEF ProgInv, TypeOK, Written, inputVars, txVars
<1>4. HashesAsPrinted' /\ TextRead' /\ QuerySource' /\ TxSource' /\ SimulatedFirst'
  BY <1>1, <1>2 DEF ProgInv, HashesAsPrinted, Marked, TextRead, QuerySource, TxSource,
                    SimulatedFirst, At, inputVars, txVars
<1>5. SilentIfWellFed'
  BY <1>1 DEF ProgInv, SilentIfWellFed, Quiet, inputVars, txVars
<1> QED
  BY <1>2, <1>3, <1>4, <1>5 DEF ProgInv

LEMMA UseExtractedInv ==
    ASSUME ProgInv, UseExtracted
    PROVE  ProgInv'
<1>1. /\ stage = "extract" /\ flags.extracted
      /\ UNCHANGED <<flags, text, link, txVars, file>>
      /\ \/ /\ flags.signing = "good" /\ flags.sender
            /\ hashes' = [of |-> "hashes", shifted |-> FALSE]
            /\ query' = FlagsQuery
            /\ Quiet /\ stage' = "transaction" /\ exit' = "none"
         \/ /\ Say("text") /\ stage' = "end" /\ exit' = "error"
            /\ UNCHANGED <<hashes, query>>
  BY DEF UseExtracted, Continue, Complain, Exit
<1>2. /\ out' \in Seq(Written) /\ ~Delivered' /\ exit' \in {"none", "ok", "error", "panic"}
      /\ StatusTellsTruth' /\ OneReport' /\ CleanIfWellFed' /\ NotYet'
      /\ file' \in {"none", "report"}
  BY <1>1, Undelivered DEF Ends, GoesOn
<1>3. hashes' \in Bytes
  <2>1. [of |-> "hashes", shifted |-> FALSE] \in Bytes
    BY DEF Bytes, Number
  <2> QED
    BY <1>1, <2>1 DEF ProgInv, TypeOK
<1>4. query' \in [from : BOOLEAN, contract : Contract, overrides : OverridesText,
                 input : Seq(Seq(Token))]
  <2>1. FlagsQuery \in [from : BOOLEAN, contract : Contract, overrides : OverridesText,
                       input : Seq(Seq(Token))]
    BY QueryFacts DEF ProgInv, TypeOK, FlagsQuery, Flags
  <2> QED
    BY <1>1, <2>1 DEF ProgInv, TypeOK
<1>5. TypeOK'
  BY <1>1, <1>2, <1>3, <1>4 DEF ProgInv, TypeOK, Written, txVars
<1>6. FlagsQuery' = FlagsQuery
  BY <1>1 DEF FlagsQuery
<1>7. HashesAsPrinted' /\ TextRead' /\ QuerySource' /\ TxSource' /\ SimulatedFirst'
  BY <1>1, <1>2, <1>6 DEF ProgInv, HashesAsPrinted, Marked, TextRead, QuerySource, TxSource,
                          SimulatedFirst, At, txVars
<1>8. SilentIfWellFed'
  BY <1>1 DEF ProgInv, SilentIfWellFed, Quiet, txVars
<1> QED
  BY <1>2, <1>5, <1>7, <1>8 DEF ProgInv

LEMMA ReadInputInv ==
    ASSUME ProgInv, ReadInput
    PROVE  ProgInv'
<1>1. /\ stage = "extract" /\ ~flags.extracted /\ (Say("text") \/ Quiet)
      /\ UNCHANGED <<flags, hashes, query, txVars, file>>
      /\ \/ stage' = "end" /\ exit' = "error" /\ UNCHANGED <<text, link>>
         \/ text' \in Script /\ link' \in Query /\ stage' = "parse" /\ exit' = "none"
  BY QueryFacts DEF ReadInput, Continue, Exit
<1>2. /\ out' \in Seq(Written) /\ ~Delivered' /\ exit' \in {"none", "ok", "error", "panic"}
      /\ StatusTellsTruth' /\ OneReport' /\ CleanIfWellFed' /\ NotYet'
      /\ file' \in {"none", "report"}
  BY <1>1, Undelivered DEF Ends, GoesOn
<1>3. TypeOK'
  BY <1>1, <1>2 DEF ProgInv, TypeOK, Written, txVars
<1>4. HashesAsPrinted' /\ TextRead' /\ QuerySource' /\ TxSource' /\ SimulatedFirst'
  BY <1>1, <1>2 DEF ProgInv, HashesAsPrinted, Marked, TextRead, QuerySource, TxSource,
                    SimulatedFirst, At, txVars
<1>5. SilentIfWellFed'
  BY <1>1 DEF SilentIfWellFed
<1> QED
  BY <1>2, <1>3, <1>4, <1>5 DEF ProgInv

LEMMA ParseInputInv ==
    ASSUME ProgInv, ParseInput
    PROVE  ProgInv'
<1>1. /\ stage = "parse" /\ Say("text")
      /\ UNCHANGED <<flags, text, link, query, txVars, file>>
      /\ \/ hashes' = Signed(text) /\ stage' = "link" /\ exit' = "none"
         \/ /\ Signed(text).of # "hashes"
            /\ stage' = "end" /\ exit' = "error" /\ UNCHANGED hashes
  BY DEF ParseInput, Continue, Exit
<1>2. /\ out' \in Seq(Written) /\ ~Delivered' /\ exit' \in {"none", "ok", "error", "panic"}
      /\ StatusTellsTruth' /\ OneReport' /\ CleanIfWellFed' /\ NotYet'
      /\ file' \in {"none", "report"}
  BY <1>1, Undelivered DEF Ends, GoesOn
<1>3. hashes' \in Bytes
  BY <1>1, FromHexType DEF ProgInv, TypeOK, Signed
<1>4. TypeOK'
  BY <1>1, <1>2, <1>3 DEF ProgInv, TypeOK, Written, txVars
<1>5. HashesAsPrinted'
  <2>1. Marked' => Marked
    BY <1>1 DEF Marked
  <2>2. Marked => Signed(text) = [of |-> "hashes", shifted |-> FALSE]
    BY TextType, MarkedFacts DEF ProgInv
  <2> QED
    BY <1>1, <2>1, <2>2 DEF HashesAsPrinted
<1>6. TextRead' /\ QuerySource' /\ TxSource' /\ SimulatedFirst'
  BY <1>1, <1>2 DEF ProgInv, TextRead, QuerySource, TxSource, SimulatedFirst, At, txVars
<1>7. SilentIfWellFed'
  BY <1>1 DEF ProgInv, TextRead, At, SilentIfWellFed
<1> QED
  BY <1>2, <1>4, <1>5, <1>6, <1>7 DEF ProgInv

LEMMA ParseLinkInv ==
    ASSUME ProgInv, ParseLink
    PROVE  ProgInv'
<1> DEFINE joined == [link EXCEPT !.input = @ \o ExtraData(text)]
<1>1. /\ stage = "link" /\ Quiet
      /\ UNCHANGED <<flags, text, link, hashes, txVars, file>>
      /\ \/ stage' = "end" /\ exit' = "error" /\ UNCHANGED query
         \/ query' = joined /\ stage' = "transaction" /\ exit' = "none"
         \/ query' = NoQuery /\ stage' = "transaction" /\ exit' = "none"
  BY DEF ParseLink, Continue, Fatal, Exit
<1>2. ~flags.extracted
  BY <1>1 DEF ProgInv, TextRead, At
<1>3. /\ out' \in Seq(Written) /\ ~Delivered' /\ exit' \in {"none", "ok", "error", "panic"}
      /\ StatusTellsTruth' /\ OneReport' /\ CleanIfWellFed' /\ NotYet'
      /\ file' \in {"none", "report"}
  BY <1>1, Undelivered DEF Ends, GoesOn
<1>4. joined \in [from : BOOLEAN, contract : Contract, overrides : OverridesText,
                  input : Seq(Seq(Token))]
  <2>1. link \in Query /\ link.input \in Seq(Seq(Token)) /\ ExtraData(text) \in Seq(Seq(Token))
    BY QueryFacts, TextType, ExtraDataType DEF ProgInv, TypeOK
  <2>2. link.input \o ExtraData(text) \in Seq(Seq(Token))
    BY <2>1
  <2> QED
    BY <2>1, <2>2 DEF Query
<1>5. NoQuery \in [from : BOOLEAN, contract : Contract, overrides : OverridesText,
                   input : Seq(Seq(Token))]
  BY DEF NoQuery, Contract, OverridesText
<1>6. joined' = joined
  BY <1>1
<1> HIDE DEF joined
<1>7. TypeOK'
  BY <1>1, <1>3, <1>4, <1>5 DEF ProgInv, TypeOK, Written, txVars
<1>8. QuerySource'
  <2>1. query' = NoQuery \/ query' = joined' \/ stage' = "end"
    BY <1>1, <1>6
  <2> QED
    BY <1>1, <1>2, <1>3, <2>1 DEF QuerySource, At, joined
<1>9. HashesAsPrinted' /\ TextRead' /\ TxSource' /\ SimulatedFirst'
  BY <1>1, <1>3 DEF ProgInv, HashesAsPrinted, Marked, TextRead, TxSource, SimulatedFirst, At,
                    txVars
<1>10. SilentIfWellFed'
  BY <1>1, <1>2 DEF SilentIfWellFed
<1> QED
  BY <1>3, <1>7, <1>8, <1>9, <1>10 DEF ProgInv

LEMMA CreateTransactionInv ==
    ASSUME ProgInv, CreateTransaction
    PROVE  ProgInv'
<1>1. /\ stage = "transaction" /\ Quiet
      /\ UNCHANGED <<inputVars, sender, applied, simulated, misread, file>>
      /\ \/ stage' = "end" /\ exit' = "panic" /\ UNCHANGED tx
         \/ /\ query.contract # "absent" /\ query.input # <<>>
            /\ tx' = [to |-> query.contract, data |-> FromHex(query.input[1])]
            /\ stage' = "evm" /\ exit' = "none"
  BY DEF CreateTransaction, Continue, Panic, Exit
<1>2. /\ out' \in Seq(Written) /\ ~Delivered' /\ exit' \in {"none", "ok", "error", "panic"}
      /\ StatusTellsTruth' /\ OneReport' /\ CleanIfWellFed' /\ NotYet'
      /\ file' \in {"none", "report"}
  BY <1>1, Undelivered DEF Ends, GoesOn
<1>3. tx' \in [to : Contract, data : Bytes]
  <2>1. query.contract \in Contract /\ FromHex(query.input[1]) \in Bytes
    BY FromHexType DEF ProgInv, TypeOK
  <2> QED
    BY <1>1, <2>1 DEF ProgInv, TypeOK
<1>4. TypeOK'
  BY <1>1, <1>2, <1>3 DEF ProgInv, TypeOK, Written, inputVars
<1>5. FlagsQuery' = FlagsQuery
  BY <1>1 DEF FlagsQuery, inputVars
<1>6. HashesAsPrinted' /\ TextRead' /\ QuerySource' /\ SimulatedFirst'
  BY <1>1, <1>2, <1>5 DEF ProgInv, HashesAsPrinted, Marked, TextRead, QuerySource,
                          SimulatedFirst, At, inputVars
<1>7. TxSource'
  BY <1>1, <1>2 DEF TxSource, At, inputVars
<1>8. SilentIfWellFed'
  BY <1>1 DEF ProgInv, SilentIfWellFed, Quiet, inputVars
<1> QED
  BY <1>2, <1>4, <1>6, <1>7, <1>8 DEF ProgInv

LEMMA NewEVMInv ==
    ASSUME ProgInv, NewEVM
    PROVE  ProgInv'
<1>1. /\ stage = "evm" /\ (Say("text") \/ Quiet)
      /\ UNCHANGED <<inputVars, tx, sender, simulated, file>>
      /\ \/ stage' = "end" /\ exit' = "error" /\ UNCHANGED <<applied, misread>>
         \/ /\ Overrides = "list" /\ applied' = "list"
            /\ (UNCHANGED misread /\ Quiet) \/ misread' = TRUE
            /\ stage' = "simulate" /\ exit' = "none"
         \/ /\ Overrides # "list" /\ UNCHANGED <<applied, misread>> /\ Say("text")
            /\ stage' = "simulate" /\ exit' = "none"
  BY DEF NewEVM, FetchStorage, Continue, Complain, Fatal, Exit
<1>2. /\ out' \in Seq(Written) /\ ~Delivered' /\ exit' \in {"none", "ok", "error", "panic"}
      /\ StatusTellsTruth' /\ OneReport' /\ CleanIfWellFed' /\ NotYet'
      /\ file' \in {"none", "report"}
  BY <1>1, Undelivered DEF Ends, GoesOn
<1>3. TypeOK'
  <2>1. applied' \in {"none", "list"} /\ misread' \in BOOLEAN
    BY <1>1 DEF ProgInv, TypeOK
  <2> QED
    BY <1>1, <1>2, <2>1 DEF ProgInv, TypeOK, Written, inputVars
<1>4. FlagsQuery' = FlagsQuery /\ Overrides' = Overrides
  BY <1>1 DEF FlagsQuery, Overrides, inputVars
<1>5. HashesAsPrinted' /\ TextRead' /\ QuerySource' /\ TxSource'
  BY <1>1, <1>2, <1>4 DEF ProgInv, HashesAsPrinted, Marked, TextRead, QuerySource, TxSource,
                          At, inputVars
<1>6. SimulatedFirst'
  <2>1. applied = "none"
    BY <1>1 DEF ProgInv, SimulatedFirst, At
  <2>2. Say("text") => out' # <<>> /\ out'[1] \in Written /\ (out = <<>> => out'[1] = "text")
    <3>1. Say("text") => /\ out' \in Seq(Written) /\ Len(out') = Len(out) + 1
                         /\ out'[Len(out')] = "text"
      BY SayFacts DEF ProgInv, TypeOK, Say, Written
    <3>2. Len(out) \in Nat /\ (out = <<>> => Len(out) = 0) /\ Len(<<>>) = 0
      BY DEF ProgInv, TypeOK
    <3> QED
      BY <3>1, <3>2
  <2>3. Say("text") => out'[1] = "text"
    <3>1. out # <<>> /\ Say("text") => out'[1] = out[1]
      BY FirstKept DEF ProgInv, TypeOK, Written
    <3>2. out # <<>> => out[1] = "text"
      <4>1. ~Printed
        BY <1>1 DEF ProgInv, NotYet, Delivered
      <4>2. out # <<>> => 1 \in 1..Len(out) /\ out[1] \in {"text", "report"}
        BY DEF ProgInv, TypeOK
      <4> QED
        BY <4>1, <4>2 DEF Printed
    <3> QED
      BY <2>2, <3>1, <3>2
  <2> QED
    BY <1>1, <1>2, <1>4, <2>1, <2>2, <2>3 DEF SimulatedFirst, At
<1>7. flags.extracted /\ flags.overrides = "list" => Overrides = "list"
  BY <1>1 DEF ProgInv, QuerySource, At, FlagsQuery, Overrides
<1>8. SilentIfWellFed'
  <2> SUFFICES ASSUME flags.extracted, flags.overrides = "list", ~misread', stage' # "end"
               PROVE  out' = <<>>
    BY <1>1 DEF SilentIfWellFed, inputVars
  <2>1. UNCHANGED misread /\ Quiet
    BY <1>1, <1>7
  <2> QED
    BY <1>1, <2>1 DEF ProgInv, SilentIfWellFed, Quiet
<1> QED
  BY <1>2, <1>3, <1>5, <1>6, <1>8 DEF ProgInv

LEMMA SimulateTransactionInv ==
    ASSUME ProgInv, SimulateTransaction
    PROVE  ProgInv'
<1>1. /\ stage = "simulate" /\ (Say("text") \/ Quiet)
      /\ UNCHANGED <<inputVars, tx, applied, file>>
      /\ sender' = Sender /\ (UNCHANGED misread \/ misread' = TRUE)
      /\ \/ stage' = "end" /\ exit' = "error" /\ UNCHANGED simulated
         \/ /\ simulated' = TRUE
            /\ (UNCHANGED misread /\ Quiet) \/ misread' = TRUE
            /\ stage' = "safe" /\ exit' = "none"
  BY DEF SimulateTransaction, FetchStorage, Continue, Complain, Exit
<1>2. /\ out' \in Seq(Written) /\ ~Delivered' /\ exit' \in {"none", "ok", "error", "panic"}
      /\ StatusTellsTruth' /\ OneReport' /\ CleanIfWellFed' /\ NotYet'
      /\ file' \in {"none", "report"}
  BY <1>1, Undelivered DEF Ends, GoesOn
<1>3. TypeOK'
  <2>1. sender' \in {"link", "flag", "zero"}
    BY <1>1 DEF Sender
  <2>2. simulated' \in BOOLEAN /\ misread' \in BOOLEAN
    BY <1>1 DEF ProgInv, TypeOK
  <2> QED
    BY <1>1, <1>2, <2>1, <2>2 DEF ProgInv, TypeOK, Written, inputVars
<1>4. FlagsQuery' = FlagsQuery /\ Sender' = Sender /\ Overrides' = Overrides
  BY <1>1 DEF FlagsQuery, Sender, Overrides, inputVars
<1>5. HashesAsPrinted' /\ TextRead' /\ QuerySource' /\ TxSource'
  BY <1>1, <1>2, <1>4 DEF ProgInv, HashesAsPrinted, Marked, TextRead, QuerySource, TxSource,
                          At, inputVars
<1>6. SimulatedFirst'
  <2>1. out # <<>> => out' # <<>> /\ out'[1] = out[1]
    BY <1>1, FirstKept DEF ProgInv, TypeOK, Written
  <2> QED
    BY <1>1, <1>2, <1>4, <2>1 DEF ProgInv, SimulatedFirst, At
<1>7. SilentIfWellFed'
  <2> SUFFICES ASSUME flags.extracted, flags.overrides = "list", ~misread', stage' # "end"
               PROVE  out' = <<>>
    BY <1>1 DEF SilentIfWellFed, inputVars
  <2>1. UNCHANGED misread /\ Quiet
    BY <1>1
  <2> QED
    BY <1>1, <2>1 DEF ProgInv, SilentIfWellFed, Quiet
<1> QED
  BY <1>2, <1>3, <1>5, <1>6, <1>7 DEF ProgInv

LEMMA GetTargetedSafeInv ==
    ASSUME ProgInv, GetTargetedSafe
    PROVE  ProgInv'
<1>1. /\ stage = "safe" /\ (Say("text") \/ Quiet)
      /\ UNCHANGED <<inputVars, txVars, file>>
      /\ \/ stage' = "end" /\ exit' \in {"error", "panic"}
         \/ Quiet /\ stage' = "output" /\ exit' = "none"
  BY DEF GetTargetedSafe, Continue, Complain, Panic, Exit
<1>2. /\ out' \in Seq(Written) /\ ~Delivered' /\ exit' \in {"none", "ok", "error", "panic"}
      /\ StatusTellsTruth' /\ OneReport' /\ CleanIfWellFed' /\ NotYet'
      /\ file' \in {"none", "report"}
  BY <1>1, Undelivered DEF Ends, GoesOn
<1>3. TypeOK'
  BY <1>1, <1>2 DEF ProgInv, TypeOK, Written, inputVars, txVars
<1>4. FlagsQuery' = FlagsQuery /\ Sender' = Sender /\ Overrides' = Overrides
  BY <1>1 DEF FlagsQuery, Sender, Overrides, inputVars
<1>5. HashesAsPrinted' /\ TextRead' /\ QuerySource' /\ TxSource'
  BY <1>1, <1>2, <1>4 DEF ProgInv, HashesAsPrinted, Marked, TextRead, QuerySource, TxSource,
                          At, inputVars, txVars
<1>6. SimulatedFirst'
  <2>1. out # <<>> => out' # <<>> /\ out'[1] = out[1]
    BY <1>1, FirstKept DEF ProgInv, TypeOK, Written
  <2> QED
    BY <1>1, <1>2, <1>4, <2>1 DEF ProgInv, SimulatedFirst, At, txVars
<1>7. SilentIfWellFed'
  BY <1>1 DEF ProgInv, SilentIfWellFed, Quiet, inputVars, txVars
<1> QED
  BY <1>2, <1>3, <1>5, <1>6, <1>7 DEF ProgInv

LEMMA OutputInv ==
    ASSUME ProgInv, Output
    PROVE  ProgInv'
<1>1. stage = "output" /\ UNCHANGED <<inputVars, txVars>> /\ stage' = "end"
  BY DEF Output, Complain, Exit
<1>2. FlagsQuery' = FlagsQuery /\ Sender' = Sender /\ Overrides' = Overrides
  BY <1>1 DEF FlagsQuery, Sender, Overrides, inputVars
<1>3. HashesAsPrinted' /\ TextRead' /\ QuerySource' /\ TxSource' /\ SimulatedFirst'
  <2>1. Say("text") \/ Say("report") \/ Quiet
    BY DEF Output, Complain
  <2>2. out # <<>> => out' # <<>> /\ out'[1] = out[1]
    BY <2>1, FirstKept DEF ProgInv, TypeOK, Written
  <2>3. SimulatedFirst'
    BY <1>1, <1>2, <2>2 DEF ProgInv, SimulatedFirst, At, txVars
  <2> QED
    BY <1>1, <1>2, <2>3 DEF ProgInv, HashesAsPrinted, Marked, TextRead, QuerySource, TxSource,
                            At, inputVars, txVars
<1>4. SilentIfWellFed' /\ NotYet'
  BY <1>1 DEF SilentIfWellFed, NotYet
<1>5. /\ out \in Seq(Written) /\ simulated /\ file = "none" /\ flags.outFile \in BOOLEAN
      /\ \A k \in 1..Len(out) : out[k] # "report"
  BY <1>1 DEF ProgInv, TypeOK, Written, SimulatedFirst, NotYet, Delivered, Printed, At, Flags
<1>6. SUFFICES /\ out' \in Seq(Written) /\ file' \in {"none", "report"}
               /\ exit' \in {"none", "ok", "error", "panic"}
               /\ StatusTellsTruth' /\ OneReport' /\ CleanIfWellFed'
  <2>1. ASSUME out' \in Seq(Written), file' \in {"none", "report"},
               exit' \in {"none", "ok", "error", "panic"}
        PROVE  TypeOK'
    BY <1>1, <2>1 DEF ProgInv, TypeOK, Written, inputVars, txVars
  <2> QED
    BY <1>3, <1>4, <2>1 DEF ProgInv
<1>7. CASE Complain /\ UNCHANGED file
  BY <1>1, <1>7, Undelivered DEF Complain, Exit, Ends, GoesOn
<1>8. CASE flags.outFile /\ file' = "report" /\ Quiet /\ Exit("ok")
  <2>1. ~Printed'
    BY <1>5, <1>8 DEF Printed, Quiet
  <2>2. OneReport' /\ CleanIfWellFed'
    BY <1>1, <1>5, <1>8, <2>1 DEF OneReport, CleanIfWellFed, Quiet, inputVars
  <2>3. StatusTellsTruth'
    BY <1>1, <1>5, <1>8 DEF StatusTellsTruth, Delivered, Exit, txVars
  <2> QED
    BY <1>5, <1>8, <2>2, <2>3 DEF Quiet, Exit
<1>9. CASE flags.outFile /\ Say("text") /\ Exit("ok") /\ UNCHANGED file
  <2>1. /\ out' \in Seq(Written) /\ out' # <<>> /\ out'[Len(out')] = "text"
        /\ \A k \in 1..Len(out') : out'[k] # "report"
    <3>1. /\ out' \in Seq(Written) /\ Len(out') = Len(out) + 1
          /\ out'[Len(out')] = "text" /\ \A k \in 1..Len(out) : out'[k] = out[k]
      BY <1>5, <1>9, SayFacts DEF Say, Written
    <3>2. \A k \in 1..Len(out') : k \in 1..Len(out) \/ k = Len(out')
      BY <1>5, <3>1
    <3>3. out' # <<>>
      BY <1>5, <3>1
    <3> QED
      BY <1>5, <3>1, <3>2, <3>3
  <2>2. OneReport' /\ CleanIfWellFed' /\ StatusTellsTruth'
    BY <1>1, <1>5, <1>9, <2>1 DEF OneReport, CleanIfWellFed, StatusTellsTruth, Delivered, Printed,
                                  Exit, inputVars
  <2> QED
    BY <1>5, <1>9, <2>1, <2>2 DEF Exit
<1>10. CASE ~flags.outFile /\ Say("report") /\ Exit("ok") /\ UNCHANGED file
  <2>1. /\ out' \in Seq(Written) /\ Len(out') = Len(out) + 1
        /\ out'[Len(out')] = "report" /\ \A k \in 1..Len(out) : out'[k] = out[k]
    BY <1>5, <1>10, SayFacts DEF Say, Written
  <2>2. Len(out') \in 1..Len(out') /\ \A k \in 1..Len(out') : k \in 1..Len(out) \/ k = Len(out')
    BY <1>5, <2>1
  <2>3. OneReport'
    BY <1>1, <1>5, <1>10, <2>1, <2>2 DEF OneReport, Printed, inputVars
  <2>4. StatusTellsTruth'
    BY <1>1, <1>5, <1>10, <2>1, <2>2 DEF StatusTellsTruth, Delivered, Printed, Exit, txVars
  <2>5. CleanIfWellFed'
    <3>1. flags.extracted /\ flags.overrides = "list" /\ ~misread => out = <<>>
      BY <1>1 DEF ProgInv, SilentIfWellFed
    <3>2. out = <<>> => out' = <<"report">>
      BY <1>10 DEF Say
    <3> QED
      BY <1>1, <3>1, <3>2 DEF CleanIfWellFed, inputVars, txVars
  <2> QED
    BY <1>5, <1>10, <2>1, <2>3, <2>4, <2>5 DEF Exit
<1> QED
  BY <1>7, <1>8, <1>9, <1>10 DEF Output

LEMMA StutterInv ==
    ASSUME ProgInv, UNCHANGED progVars
    PROVE  ProgInv'
BY DEF ProgInv, TypeOK, StatusTellsTruth, OneReport, CleanIfWellFed, HashesAsPrinted, Marked, NotYet,
       TextRead, QuerySource, FlagsQuery, TxSource, Sender, Overrides, SimulatedFirst,
       SilentIfWellFed, At,
       Delivered, Printed, progVars, inputVars, txVars

-----------------------------------------------------------------------------
\* What is known at each stage, and of a report that was delivered.
THEOREM ProgramInvariant == Spec => []ProgInv
<1>1. ProgInv /\ [Next]_progVars => ProgInv'
  <2> SUFFICES ASSUME ProgInv, [Next]_progVars PROVE ProgInv'
    OBVIOUS
  <2>1. CASE Connect
    BY <2>1, ConnectInv
  <2>2. CASE UseExtracted
    BY <2>2, UseExtractedInv
  <2>3. CASE ReadInput
    BY <2>3, ReadInputInv
  <2>4. CASE ParseInput
    BY <2>4, ParseInputInv
  <2>5. CASE ParseLink
    BY <2>5, ParseLinkInv
  <2>6. CASE CreateTransaction
    BY <2>6, CreateTransactionInv
  <2>7. CASE NewEVM
    BY <2>7, NewEVMInv
  <2>8. CASE SimulateTransaction
    BY <2>8, SimulateTransactionInv
  <2>9. CASE GetTargetedSafe
    BY <2>9, GetTargetedSafeInv
  <2>10. CASE Output
    BY <2>10, OutputInv
  <2>11. CASE UNCHANGED progVars
    BY <2>11, StutterInv
  <2> QED
    BY <2>1, <2>2, <2>3, <2>4, <2>5, <2>6, <2>7, <2>8, <2>9, <2>10, <2>11 DEF Next
<1> QED
  BY <1>1, InitInv, PTL DEF Spec

\* Every variable keeps its type: whatever a script prints, what is cut from it are bytes.
THEOREM ProgramTyping == Spec => []TypeOK
<1>1. ProgInv => TypeOK
  BY DEF ProgInv
<1> QED
  BY <1>1, ProgramInvariant, PTL

\* A report was delivered only by a program that simulated the transaction and ended
\* well, and a program that ended well delivered one, unless its file failed (main.go:202).
THEOREM StatusAlwaysTellsTruth == Spec => []StatusTellsTruth
<1>1. ProgInv => StatusTellsTruth
  BY DEF ProgInv
<1> QED
  BY <1>1, ProgramInvariant, PTL

\* The report goes to one place, where the caller asked for it, and nothing is written
\* after it (main.go:198,221).
THEOREM ReportGoesOnce == Spec => []OneReport
<1>1. ProgInv => OneReport
  BY DEF ProgInv
<1> QED
  BY <1>1, ProgramInvariant, PTL

\* Extracted data, overrides that decode and no failed request: standard output is the
\* report and nothing else.
THEOREM CleanWhenWellFed == Spec => []CleanIfWellFed
<1>1. ProgInv => CleanIfWellFed
  BY DEF ProgInv
<1> QED
  BY <1>1, ProgramInvariant, PTL

\* The parameters of a script's transaction are its link's, with what it announces.
LEMMA LinkQuery ==
    ASSUME ProgInv, Delivered, ~flags.extracted
    PROVE  /\ query.contract = link.contract /\ query.from = link.from
           /\ query.overrides = link.overrides
           /\ query.input = link.input \o ExtraData(text)
<1>1. query.contract # "absent"
  BY DEF ProgInv, TxSource
<1>2. query = [link EXCEPT !.input = link.input \o ExtraData(text)]
  BY <1>1 DEF ProgInv, QuerySource, NoQuery
<1>3. link \in Query
  BY DEF ProgInv, TypeOK
<1> QED
  BY <1>2, <1>3 DEF Query

\* Hashes that a script of any length marks as it should are the ones reported
\* (command.go:63).
THEOREM HashesFound == Spec => []HashesAsPrinted
<1>1. ProgInv => HashesAsPrinted
  BY DEF ProgInv
<1> QED
  BY <1>1, ProgramInvariant, PTL

\* What is reported is the transaction of the flags, or that of the link, with the link's
\* own call data or else the number the script announces, sent from the link's address
\* or else -sender (command.go:85, main.go:156).
THEOREM TransactionFound == Spec => []TransactionAsPrinted
<1>1. ProgInv => TransactionAsPrinted
  <2> SUFFICES ASSUME ProgInv, Delivered
               PROVE  IF flags.extracted
                      THEN /\ tx.to = flags.contract
                           /\ sender = "flag"
                           /\ flags.input # <<>> /\ tx.data = FromHex(flags.input[1])
                      ELSE /\ tx.to = link.contract
                           /\ sender = IF link.from THEN "link"
                                       ELSE IF flags.sender THEN "flag" ELSE "zero"
                           /\ link.input # <<>> => tx.data = FromHex(link.input[1])
                           /\ \A n \in Number :
                                  link.input = <<>> /\ Announced(n, {"newline"}) => Calls(n)
    BY DEF TransactionAsPrinted
  <2>1. /\ query.contract # "absent" /\ query.input # <<>>
        /\ tx.to = query.contract /\ tx.data = FromHex(query.input[1])
        /\ sender = Sender
    BY DEF ProgInv, TxSource
  <2>2. CASE flags.extracted
    <3>1. flags.sender /\ query = FlagsQuery
      BY <2>2 DEF ProgInv, QuerySource
    <3> QED
      BY <2>1, <2>2, <3>1 DEF FlagsQuery, Sender
  <2>3. CASE ~flags.extracted
    <3>1. link \in Query /\ text \in Seq(Token) /\ link.input \in Seq(Seq(Token))
      BY TextType, QueryFacts DEF ProgInv, TypeOK
    <3>2. /\ query.contract = link.contract /\ query.from = link.from
          /\ query.input = link.input \o ExtraData(text)
      BY <2>3, LinkQuery
    <3>3. sender = IF link.from THEN "link" ELSE IF flags.sender THEN "flag" ELSE "zero"
      BY <2>1, <2>3, <3>2 DEF Sender
    <3>4. link.input # <<>> => tx.data = FromHex(link.input[1])
      <4>1. ExtraData(text) \in Seq(Seq(Token))
        BY <3>1, ExtraDataType
      <4>2. link.input # <<>> => (link.input \o ExtraData(text))[1] = link.input[1]
        BY <3>1, <4>1
      <4> QED
        BY <2>1, <3>2, <4>2
    <3>5. ASSUME NEW n \in Number, link.input = <<>>, Announced(n, {"newline"})
          PROVE  Calls(n)
      <4>1. ExtraData(text) = <<<<n>>>>
        BY <3>1, <3>5, AnnouncedFacts
      <4>2. query.input = <<<<n>>>>
        BY <3>2, <3>5, <4>1
      <4> QED
        BY <2>1, <4>2, FromHexFacts DEF Calls
    <3> QED
      BY <2>1, <2>3, <3>2, <3>3, <3>4, <3>5
  <2> QED
    BY <2>2, <2>3
<1> QED
  BY <1>1, ProgramInvariant, PTL

\* The overrides applied are the ones given, and a report made without any is preceded
\* by a word about it (caching.go:85).
THEOREM OverridesApplied == Spec => []OverridesAsGiven
<1>1. ProgInv => OverridesAsGiven
  <2> SUFFICES ASSUME ProgInv, Delivered
               PROVE  IF Given = "list" THEN applied = "list"
                      ELSE applied = "none" /\ out # <<>> /\ out[1] = "text"
    BY DEF OverridesAsGiven
  <2>1. IF Overrides = "list" THEN applied = "list"
        ELSE applied = "none" /\ out # <<>> /\ out[1] = "text"
    BY DEF ProgInv, SimulatedFirst
  <2>2. Overrides = "list" <=> Given = "list"
    <3>1. CASE flags.extracted
      <4>1. query = FlagsQuery
        BY <3>1 DEF ProgInv, QuerySource
      <4> QED
        BY <3>1, <4>1 DEF FlagsQuery, Overrides, Given
    <3>2. CASE ~flags.extracted
      <4>1. query.overrides = link.overrides
        BY <3>2, LinkQuery
      <4> QED
        BY <3>2, <4>1 DEF Overrides, Given
    <3> QED
      BY <3>1, <3>2
  <2> QED
    BY <2>1, <2>2
<1> QED
  BY <1>1, ProgramInvariant, PTL
=============================================================================
