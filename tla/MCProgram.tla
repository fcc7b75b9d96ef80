----------------------------- MODULE MCProgram -----------------------------
(***************************************************************************)
(* Program with the texts a signing script may print: a part with the      *)
(* link, one with the raw input and one with the hashes, any of which may  *)
(* be missing or not quite as it should be.                                *)
(***************************************************************************)
EXTENDS Program

MCRawInput == { <<"aggregate3">>, <<"odd">> }

Links ==
    { <<>>,
      <<"odd", "newline", "link", "newline">>,
      <<"digest", "newline", "link", "space", "odd", "newline">> }

\* In the last two a space follows the number, and there is no number.
Insertions ==
    { <<>>,
      <<"insert", "newline", "space", "aggregate3", "newline">>,
      <<"insert", "newline", "space", "aggregate", "newline">>,
      <<"insert", "newline", "space", "aggregate3", "space", "newline">>,
      <<"insert", "newline", "odd", "newline">> }

Marking == <<"prefix", "newline", "hashes", "newline", "suffix">>

\* A suffix before the prefix, a word inside, no suffix before other words, no markers.
Markings ==
    { Marking,
      <<"suffix", "newline", "prefix", "hashes", "suffix", "newline">>,
      <<"prefix", "newline", "hashes", "space", "even", "suffix">>,
      <<"prefix", "newline", "hashes", "newline", "even", "newline">>,
      <<"prefix", "newline", "hashes", "newline", "odd", "newline">>,
      <<"hashes", "newline">> }

MCScript ==
    {l \o i \o m : l \in Links, i \in Insertions, m \in Markings}
        \cup {Marking \o <<"newline">> \o l \o i : l \in Links, i \in Insertions}
=============================================================================
