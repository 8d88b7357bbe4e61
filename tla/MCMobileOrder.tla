--------------------------- MODULE MCMobileOrder ---------------------------
(***************************************************************************)
(* Small instances of MobileOrder.                                         *)
(***************************************************************************)
EXTENDS MobileOrder, TLC

\* Requests and products are interchangeable; orders are not permuted, the
\* initial call records name one of them.
Symmetry == Permutations(Calls) \cup Permutations(Products)
=============================================================================
