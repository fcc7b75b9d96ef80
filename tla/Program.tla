------------------------------ MODULE Program ------------------------------
(***************************************************************************)
(* The command line program: main.go from its flags to its exit, with the  *)
(* functions it calls reduced to how they can end and what they write.     *)
(* The caller reads three things: standard output, which is meant to be    *)
(* the JSON report, the output file, and the exit status.                  *)
(*                                                                         *)
(* The transaction comes either from flags (-use-extracted) or from the    *)
(* output of a script, whose scan is in ScriptInput.  Other texts are      *)
(* reduced to what decides a branch; writes to standard output are "text"  *)
(* or "report", one entry for all that an action writes; writes to         *)
(* standard error are left out.                                            *)
(***************************************************************************)
EXTENDS ScriptInput

CONSTANTS
    Script,     \* the texts a script may print
    RawInput    \* the texts -raw-input, or a link, may give for rawFunctionInput

ASSUME InputAssumption == Script \subseteq Seq(Token) /\ RawInput \subseteq Seq(Token)

Contract == {"absent", "safe", "multicall"}
OverridesText == {"absent", "bad", "list"}   \* "bad" does not decode

\* The parameters of a link.  Those of m in main may have a second rawFunctionInput.
Inputs == {<<>>} \cup {<<i>> : i \in RawInput}
Query == [from : BOOLEAN, contract : Contract, overrides : OverridesText, input : Inputs]
NoQuery == [from |-> FALSE, contract |-> "absent", overrides |-> "absent", input |-> <<>>]

\* -signing-data, by what parseSigningData makes of it: an error, or 66 bytes.
SigningData == {"absent", "bad", "good"}

Flags == [rpc : BOOLEAN, extracted : BOOLEAN, signing : SigningData, sender : BOOLEAN,
          contract : Contract, input : Inputs, overrides : OverridesText, format : BOOLEAN, outFile : BOOLEAN]

\* Flags that main does not look at without -use-extracted.
Unread(f) == f.signing = "absent" /\ f.contract = "absent" /\ f.input = <<>>

VARIABLES
    flags,      \* the command line; format tells whether it is one of the two known
    stage,      \* the call main makes next, or "end"
    text,       \* the output of the script
    link,       \* the parameters of the link in it
    hashes,     \* domainHash and messageHash, cut from these bytes
    query,      \* m
    tx,         \* recipient and call data of the transaction
    sender,     \* whose address it is sent from: "link", "flag" or "zero"
    applied,    \* the overrides the state database has decoded and applied
    simulated,  \* SimulateTransaction has succeeded
    misread,    \* a storage request has failed
    out,        \* what was written to standard output
    file,       \* what the output file holds
    exit        \* exit status: "none" yet, "ok", "error" (1) or "panic" (2)

inputVars == <<flags, text, link, hashes, query>>
txVars == <<tx, sender, applied, simulated, misread>>
progVars == <<inputVars, stage, txVars, out, file, exit>>

Init ==
    /\ flags \in {f \in Flags : f.extracted \/ Unread(f)}
    /\ stage = "connect"
    /\ text = <<>>
    /\ link = NoQuery
    /\ hashes = NoBytes
    /\ query = NoQuery
    /\ tx = [to |-> "absent", data |-> NoBytes]
    /\ sender = "zero"
    /\ applied = "none"
    /\ simulated = FALSE
    /\ misread = FALSE
    /\ out = <<>>
    /\ file = "none"
    /\ exit = "none"

-----------------------------------------------------------------------------
Continue(next) == stage' = next /\ exit' = "none"
Exit(status) == stage' = "end" /\ exit' = status
Say(what) == out' = Append(out, what)
Quiet == UNCHANGED out

\* os.Exit(1) after a message on standard output; log.Fatal, which writes to
\* standard error; and a panic, which does too.
Complain == Say("text") /\ Exit("error")
Fatal == Quiet /\ Exit("error")
Panic == Quiet /\ Exit("panic")

\* Flags, ethclient.Dial and ChainID.
Connect ==
    /\ stage = "connect"
    /\ \/ flags.rpc /\ Quiet /\ Continue("extract")
       \/ Complain
    /\ UNCHANGED <<inputVars, txVars, file>>

FlagsQuery ==
    [from |-> TRUE, contract |-> flags.contract, overrides |-> flags.overrides, input |-> flags.input]

\* Faulty variant: what was extracted is printed on standard output.
PrintsExtracted ==
    /\ stage = "extract"
    /\ flags.extracted /\ flags.signing = "good" /\ flags.sender
    /\ hashes' = [of |-> "hashes", shifted |-> FALSE]
    /\ query' = FlagsQuery
    /\ Say("text") /\ Continue("transaction")
    /\ UNCHANGED <<flags, text, link, txVars, file>>

\* The flags of -use-extracted become the parameters.
UseExtracted ==
    /\ stage = "extract"
    /\ flags.extracted
    /\ IF flags.signing = "good" /\ flags.sender
       THEN /\ hashes' = [of |-> "hashes", shifted |-> FALSE]
            /\ query' = FlagsQuery
            /\ Quiet /\ Continue("transaction")
       ELSE Complain /\ UNCHANGED <<hashes, query>>
    /\ UNCHANGED <<flags, text, link, txVars, file>>

\* readInput: standard input is read silently, a script is announced and its output
\* copied to standard output, also when it fails.
ReadInput ==
    /\ stage = "extract"
    /\ ~flags.extracted
    /\ Say("text") \/ Quiet
    /\ \/ Exit("error") /\ UNCHANGED <<text, link>>
       \/ /\ text' \in Script
          /\ link' \in IF IndexOf(text', {"link"}) = 0 THEN {NoQuery} ELSE Query
          /\ Continue("parse")
    /\ UNCHANGED <<flags, hashes, query, txVars, file>>

\* parseInput prints an empty line before it looks at what it has found.
ParseInput ==
    /\ stage = "parse"
    /\ Say("text")
    /\ LET bytes == Signed(text)
       IN  IF bytes.of = "hashes" THEN hashes' = bytes /\ Continue("link")
                                  ELSE Exit("error") /\ UNCHANGED hashes
    /\ UNCHANGED <<flags, text, link, query, txVars, file>>

\* A word that is no link has no query.  A link may have parts that do not decode.
ParseLink ==
    /\ stage = "link"
    /\ \/ Fatal /\ UNCHANGED query
       \/ /\ query' = IF TenderlyLink(text) = <<"link">>
                      THEN [link EXCEPT !.input = @ \o ExtraData(text)]
                      ELSE NoQuery
          /\ Quiet /\ Continue("transaction")
    /\ UNCHANGED <<flags, text, link, hashes, txVars, file>>

\* CreateTransaction takes the first value of two lists that may be empty.
CreateTransaction ==
    /\ stage = "transaction"
    /\ IF query.contract = "absent" \/ query.input = <<>>
       THEN Panic /\ UNCHANGED tx
       ELSE /\ tx' = [to |-> query.contract, data |-> FromHex(query.input[1])]
            /\ Quiet /\ Continue("evm")
    /\ UNCHANGED <<inputVars, sender, applied, simulated, misread, file>>

\* The overrides main passes on; the empty text does not decode either.
Overrides ==
    IF query.overrides # "absent" THEN query.overrides
    ELSE IF flags.overrides # "absent" THEN flags.overrides
    ELSE "bad"

\* Requests for storage, any of which may fail.  Each failure is noted on standard
\* output.
FetchStorage ==
    \/ UNCHANGED misread /\ Quiet
    \/ misread' = TRUE /\ Say("text")

\* Faulty variant: text that does not decode counts as applied.
AppliesText ==
    /\ stage = "evm"
    /\ \/ Fatal /\ UNCHANGED <<applied, misread>>
       \/ applied' = Overrides /\ FetchStorage /\ Continue("simulate")
    /\ UNCHANGED <<inputVars, tx, sender, simulated, file>>

\* Faulty variant: text that does not decode is dropped without a word.
DropsSilently ==
    /\ stage = "evm"
    /\ \/ Fatal /\ UNCHANGED <<applied, misread>>
       \/ /\ applied' = IF Overrides = "list" THEN "list" ELSE "none"
          /\ IF Overrides = "list" THEN FetchStorage ELSE UNCHANGED misread /\ Quiet
          /\ Continue("simulate")
    /\ UNCHANGED <<inputVars, tx, sender, simulated, file>>

\* NewEVM: the latest header, the chain's configuration, then SetOverrides, which
\* reports text that does not decode on standard output and goes on; what does decode
\* is applied slot by slot, each of them fetched first.
NewEVM ==
    /\ stage = "evm"
    /\ \/ (Fatal \/ Complain) /\ UNCHANGED <<applied, misread>>
       \/ /\ Overrides = "list"
          /\ applied' = "list"
          /\ FetchStorage /\ Continue("simulate")
       \/ /\ Overrides # "list"
          /\ Say("text") /\ Continue("simulate")
          /\ UNCHANGED <<applied, misread>>
    /\ UNCHANGED <<inputVars, tx, sender, simulated, file>>

\* The sender main chooses; with -use-extracted there is a -sender.
Sender ==
    IF ~flags.extracted /\ query.from THEN "link"
    ELSE IF flags.sender THEN "flag"
    ELSE "zero"

\* Faulty variant: a failed simulation is noted and the program goes on.
GoesOnAfterFailure ==
    /\ stage = "simulate"
    /\ sender' = Sender
    /\ \/ FetchStorage /\ simulated' = TRUE
       \/ Say("text") /\ UNCHANGED <<simulated, misread>>
    /\ Continue("safe")
    /\ UNCHANGED <<inputVars, tx, applied, file>>

\* SimulateTransaction: every failed storage request is noted on standard output,
\* a reverted or failed transaction ends the program.
SimulateTransaction ==
    /\ stage = "simulate"
    /\ sender' = Sender
    /\ \/ FetchStorage /\ simulated' = TRUE /\ Continue("safe")
       \/ Complain /\ misread' \in {misread, TRUE} /\ UNCHANGED simulated
    /\ UNCHANGED <<inputVars, tx, applied, file>>

\* GetTargetedSafe: the safe is the recipient, or the target of the first call that
\* aggregate3 is given.  Data without a selector is cut all the same.
GetTargetedSafe ==
    /\ stage = "safe"
    /\ \/ tx.to # "multicall" /\ Quiet /\ Continue("output")
       \/ /\ tx.to = "multicall"
          /\ CASE tx.data = NoBytes -> Panic
               [] tx.data = [of |-> "aggregate3", shifted |-> FALSE] -> Quiet /\ Continue("output")
               [] OTHER -> Complain
    /\ UNCHANGED <<inputVars, txVars, file>>

\* Faulty variant: a report that goes to the file is printed as well.
AlsoPrints ==
    /\ stage = "output"
    /\ \/ Complain /\ UNCHANGED file
       \/ /\ flags.format
          /\ file' = IF flags.outFile THEN "report" ELSE file
          /\ Say("report") /\ Exit("ok")
    /\ UNCHANGED <<inputVars, txVars>>

\* The file generator and the report.  A file that cannot be written ends main by
\* a plain return.
Output ==
    /\ stage = "output"
    /\ \/ Complain /\ UNCHANGED file
       \/ /\ flags.format /\ flags.outFile
          /\ \/ file' = "report" /\ Quiet /\ Exit("ok")
             \/ Say("text") /\ Exit("ok") /\ UNCHANGED file
       \/ /\ flags.format /\ ~flags.outFile
          /\ Say("report") /\ Exit("ok") /\ UNCHANGED file
    /\ UNCHANGED <<inputVars, txVars>>

Next ==
    \/ Connect
    \/ UseExtracted
    \/ ReadInput
    \/ ParseInput
    \/ ParseLink
    \/ CreateTransaction
    \/ NewEVM
    \/ SimulateTransaction
    \/ GetTargetedSafe
    \/ Output

Spec == Init /\ [][Next]_progVars

-----------------------------------------------------------------------------

TypeOK ==
    /\ flags \in Flags
    /\ text \in Script \cup {<<>>}
    /\ link \in Query
    /\ hashes \in Bytes
    /\ query \in [from : BOOLEAN, contract : Contract, overrides : OverridesText,
                  input : Seq(Seq(Token))]
    /\ tx \in [to : Contract, data : Bytes]
    /\ sender \in {"link", "flag", "zero"}
    /\ stage \in {"connect", "extract", "parse", "link", "transaction", "evm",
                  "simulate", "safe", "output", "end"}
    /\ applied \in {"none", "list"}
    /\ simulated \in BOOLEAN
    /\ misread \in BOOLEAN
    /\ out \in Seq({"text", "report"})
    /\ file \in {"none", "report"}
    /\ exit \in {"none", "ok", "error", "panic"}

Printed == \E i \in 1..Len(out) : out[i] = "report"
Delivered == Printed \/ file = "report"

\* The exit status tells whether there is a report: one was delivered only by a
\* program that simulated the transaction and ended well, and a program that ended
\* well delivered one, or could not write its file (main.go:202) and says so in the
\* last thing it prints: without reading that, nobody can tell.
StatusTellsTruth ==
    stage = "end" =>
        /\ Delivered => exit = "ok" /\ simulated
        /\ exit = "ok" /\ ~Delivered =>
               flags.outFile /\ out # <<>> /\ out[Len(out)] = "text"

\* The report goes to one place, where the caller asked for it, and nothing is
\* written after it (main.go:198,221).
OneReport ==
    /\ file = "report" => flags.outFile /\ ~Printed
    /\ Printed => ~flags.outFile
    /\ \A i \in 1..Len(out) : out[i] = "report" => i = Len(out)

\* A caller that gives the extracted data and overrides that decode, and meets no
\* failed request, finds nothing but the report on standard output.
CleanIfWellFed ==
    flags.extracted /\ flags.overrides = "list" /\ ~misread /\ Printed => out = <<"report">>

\* The script prints the data to sign between its markers, with blanks around it.
Marked ==
    /\ IndexOf(text, {"prefix"}) # 0
    /\ LET rest == After(text, "prefix")
       IN  \E i, j \in 1..Len(rest) :
               /\ i < j /\ rest[i] = "hashes" /\ rest[j] = "suffix"
               /\ \A k \in 1..j - 1 : k = i \/ rest[k] \in Blank

\* Hashes that the script marks as it should are the ones reported, whatever else it
\* prints before and after.  Not all that is accepted is: without the suffix, or with
\* a word beside the hashes, FromHex may still find 66 bytes, half a byte off
\* (command.go:63).
HashesAsPrinted ==
    stage # "parse" /\ Marked => hashes = [of |-> "hashes", shifted |-> FALSE]

\* The script prints a number right after the sentence, and then one of ends.
Announced(number, ends) ==
    /\ IndexOf(text, {"insert"}) # 0
    /\ LET rest == After(text, "insert")
           i == IndexOf(rest, Token \ Blank)
       IN  i # 0 /\ rest[i] = number /\ (i < Len(rest) => rest[i + 1] \in ends)

Calls(number) == tx.data = [of |-> number, shifted |-> FALSE]

\* What is reported is the transaction that the script prints or the flags give: its
\* recipient, its sender, which is -sender if the link has none (main.go:156), and its
\* call data.  Those of a script are the link's own, even if it also announces a
\* number; without them they are that number, whatever others are printed, as long as
\* the line ends where the number does (command.go:85).
TransactionAsPrinted ==
    Delivered =>
        IF flags.extracted
        THEN /\ tx.to = flags.contract
             /\ sender = "flag"
             /\ flags.input # <<>> /\ tx.data = FromHex(flags.input[1])
        ELSE /\ tx.to = link.contract
             /\ sender = IF link.from THEN "link" ELSE IF flags.sender THEN "flag" ELSE "zero"
             /\ link.input # <<>> => tx.data = FromHex(link.input[1])
             /\ \A n \in Number :
                    link.input = <<>> /\ Announced(n, {"newline"}) => Calls(n)

\* The overrides the caller means: the link's, or those of the flags if it has none.
Given ==
    IF ~flags.extracted /\ link.overrides # "absent" THEN link.overrides ELSE flags.overrides

\* A report is made with the overrides that were given.  If none were, or their text
\* does not decode, it is made without, and standard output has said so by then: a
\* caller who keeps it apart from the report can tell (caching.go:85).
OverridesAsGiven ==
    Delivered =>
        IF Given = "list" THEN applied = "list"
        ELSE applied = "none" /\ out # <<>> /\ out[1] = "text"

-----------------------------------------------------------------------------
(***************************************************************************)
(* The inductive invariant behind these properties: what is known at each  *)
(* stage, and of a report that was delivered.                              *)
(***************************************************************************)

At(stages) == stage \in stages

\* Nothing is printed of a report, and there is no exit status, before the end.
NotYet == stage # "end" => exit = "none" /\ ~Delivered

\* Standard input, or the script, is read only for its own sake, and once.
TextRead ==
    /\ flags.extracted \/ At({"connect", "extract"}) => text = <<>>
    /\ At({"parse", "link"}) => ~flags.extracted

\* Where the parameters of the transaction come from.
QuerySource ==
    At({"transaction", "evm", "simulate", "safe", "output"}) \/ Delivered =>
        IF flags.extracted
        THEN flags.sender /\ query = FlagsQuery
        ELSE query = NoQuery \/ query = [link EXCEPT !.input = @ \o ExtraData(text)]

\* The transaction is that of the parameters, and is sent from the right address.
TxSource ==
    /\ At({"evm", "simulate", "safe", "output"}) \/ Delivered =>
           /\ query.contract # "absent" /\ query.input # <<>>
           /\ tx = [to |-> query.contract, data |-> FromHex(query.input[1])]
    /\ At({"safe", "output"}) \/ Delivered => sender = Sender

\* Output comes after a simulation, of what NewEVM has made of the overrides.
SimulatedFirst ==
    /\ At({"connect", "extract", "parse", "link", "transaction", "evm"}) => applied = "none"
    /\ At({"simulate", "safe", "output"}) \/ Delivered =>
           IF Overrides = "list" THEN applied = "list"
           ELSE applied = "none" /\ out # <<>> /\ out[1] = "text"
    /\ At({"safe", "output"}) => simulated

\* Extracted data and overrides that decode are worked on silently.
SilentIfWellFed ==
    flags.extracted /\ flags.overrides = "list" /\ ~misread /\ stage # "end" => out = <<>>

ProgInv ==
    /\ TypeOK
    /\ StatusTellsTruth /\ OneReport /\ CleanIfWellFed /\ HashesAsPrinted
    /\ NotYet
    /\ TextRead
    /\ QuerySource
    /\ TxSource
    /\ SimulatedFirst
    /\ SilentIfWellFed

-----------------------------------------------------------------------------
\* Statements the repository makes that the code does not keep.

\* "Print debug info to stderr to keep stdout clean for JSON" (main.go:114): with
\* extracted data, whose overrides are optional, standard output is the report.
StdoutIsReport ==
    flags.extracted /\ flags.overrides # "bad" /\ ~misread /\ Printed => out = <<"report">>

\* "Find end of extra data - should be a space or newline" (command.go:94): a number
\* that ends at a blank is the call data.
RawInputEndsAtBlank ==
    Delivered /\ ~flags.extracted /\ link.input = <<>> =>
        \A n \in Number : Announced(n, Blank) => Calls(n)
=============================================================================
