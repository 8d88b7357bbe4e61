--------------------------- MODULE MCPurchaseOrder ---------------------------
(***************************************************************************)
(* Small instances of PurchaseOrder.                                       *)
(***************************************************************************)
EXTENDS PurchaseOrder, TLC

\* Requests and ticks are interchangeable; orders are not permuted, idle call
\* records name one of them.
Symmetry == Permutations(Calls) \cup Permutations(Ticks)
=============================================================================
