---------------------------- MODULE MC_BitPacker ----------------------------
(***************************************************************************)
(* Instances of the 16-bit data path for TLC. Every operation of the data *)
(* path moves bits or fills with zeros, so a property that compares bit   *)
(* positions holds for all words once it holds for the zero word and for *)
(* every word with a single bit set: those are the sample values process  *)
(* writes in the full run.                                                 *)
(***************************************************************************)
EXTENDS BitPacker

OneHot(k) == [i \in Bits |-> IF i = k THEN 1 ELSE 0]

MC_SingleBitWords == {Zero} \cup {OneHot(k) : k \in Bits}

MC_FewWords == {Zero, OneHot(0)}
=============================================================================
