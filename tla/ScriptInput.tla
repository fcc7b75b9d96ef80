---------------------------- MODULE ScriptInput ----------------------------
(***************************************************************************)
(* How parseInput (internal/command/command.go) finds its three results in *)
(* the output of the signing script: the hashes to sign, the link, and the *)
(* raw input that is appended to the link.  Nothing is kept between the    *)
(* scans, so they are operators here, which Program calls.                 *)
(*                                                                         *)
(* A text is a sequence of tokens.  What the scans tell apart is kept: the *)
(* markers, blanks, numbers, and, because common.FromHex decodes a text of *)
(* odd length as if a zero came before it, whether a token's length is     *)
(* odd.  Other words are "odd" or "even" and do not begin with hex digits, *)
(* a number is followed by a blank or by nothing, and a link, which has    *)
(* numbers in it, does not come after the sentence that announces one.     *)
(***************************************************************************)
EXTENDS Naturals, Sequences, SequencesExt

\* Numbers: "0x" and 132 digits, a 32-byte hash, and calls of Multicall3: aggregate3
\* of some calls, and any other.
Number == {"hashes", "digest", "aggregate3", "aggregate"}
Blank == {"space", "newline"}

\* "prefix" and "suffix" are the markers; an empty flag makes one that no text has.
\* "insert" is the sentence that announces the raw input, 57 letters long, and "link"
\* is tenderly's address and a query.
Token == Number \cup Blank \cup {"prefix", "suffix", "insert", "link", "odd", "even"}

OddToken == Blank \cup {"insert", "odd"}

\* What common.FromHex makes of a text: the number it begins with, whose bytes are
\* shifted by half a byte if the text is odd, or no bytes at all.
Bytes == [of : Number \cup {"nothing"}, shifted : BOOLEAN]
NoBytes == [of |-> "nothing", shifted |-> FALSE]

IndexOf(t, tokens) == SelectInSeq(t, LAMBDA x : x \in tokens)

\* The text after the first of a token, from it on, and before it; the whole text if
\* there is none.
After(t, token) == SubSeq(t, IndexOf(t, {token}) + 1, Len(t))
From(t, tokens) == IF IndexOf(t, tokens) = 0 THEN t ELSE SubSeq(t, IndexOf(t, tokens), Len(t))
UpTo(t, tokens) == IF IndexOf(t, tokens) = 0 THEN t ELSE SubSeq(t, 1, IndexOf(t, tokens) - 1)

TrimSpace(t) ==
    LET kept == {i \in DOMAIN t : t[i] \notin Blank}
    IN  IF kept = {} THEN <<>> ELSE SubSeq(t, Min(kept), Max(kept))

IsOdd(t) == Cardinality({i \in DOMAIN t : t[i] \in OddToken}) % 2 = 1

FromHex(t) ==
    IF t # <<>> /\ t[1] \in Number
    THEN [of |-> t[1], shifted |-> IsOdd(Tail(t))]
    ELSE NoBytes

-----------------------------------------------------------------------------
\* Faulty variant: the suffix is looked for before the prefix is cut off.
CutsSuffixFirst(t) == FromHex(TrimSpace(After(UpTo(t, {"suffix"}), "prefix")))

\* The data to be signed, between the markers.
Signed(t) == FromHex(TrimSpace(UpTo(After(t, "prefix"), {"suffix"})))

\* The link; without one, the first word of the text.
TenderlyLink(t) == TrimSpace(UpTo(From(t, {"link"}), Blank))

\* Faulty variant: the number is looked for in the whole text.
FirstNumber(t) ==
    IF IndexOf(t, {"insert"}) = 0 THEN <<>>
    ELSE << UpTo(From(t, Number), {"newline"}) >>

\* The values appended for rawFunctionInput: none, or the rest of the line on which
\* the first number after the sentence begins.
ExtraData(t) ==
    IF IndexOf(t, {"insert"}) = 0 THEN <<>>
    ELSE << UpTo(From(From(t, {"insert"}), Number), {"newline"}) >>
=============================================================================
