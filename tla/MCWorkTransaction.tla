------------------------- MODULE MCWorkTransaction -------------------------
(***************************************************************************)
(* A small ledger shared by four identities of generation 1, whose probe   *)
(* paths collide and wrap round the table, and one of generation 2, which  *)
(* resets it.                                                              *)
(***************************************************************************)
EXTENDS WorkTransaction, TLC

CONSTANTS a, b, c, d, e

MCGeneration == [i \in Identities |-> IF i = e THEN 2 ELSE 1]
MCStart == [i \in Identities |-> IF i \in {a, b} THEN Capacity - 1 ELSE 0]
MCSymmetry == Permutations({a, b}) \cup Permutations({c, d})
=============================================================================
