---------------------------- MODULE MCSimulation ----------------------------
(***************************************************************************)
(* Simulation with two slots, one zero and one not on the chain, and       *)
(* frames nested up to MaxDepth.                                           *)
(***************************************************************************)
EXTENDS Simulation

CONSTANTS s1, s2, w0, w1, w2

MCChain == [s \in Slot |-> IF s = s1 THEN w0 ELSE w1]

Entry(s, v) == [slot |-> s, value |-> v]

\* No override, one that changes a slot, one that repeats the chain's value, and
\* the same slot twice.
MCOverrideLists ==
    { <<>>,
      <<Entry(s2, w2)>>,
      <<Entry(s2, w1), Entry(s1, w1)>>,
      <<Entry(s1, w1), Entry(s1, w2)>> }
=============================================================================
