----------------------------- MODULE MCPosStock -----------------------------
(***************************************************************************)
(* Small instances of PosStock.                                            *)
(***************************************************************************)
EXTENDS PosStock, TLC

\* Requests and products are interchangeable.
Symmetry == Permutations(Calls) \cup Permutations(Products)
=============================================================================
