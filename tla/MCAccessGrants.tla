--------------------------- MODULE MCAccessGrants ---------------------------
(***************************************************************************)
(* Small instances of AccessGrants.                                        *)
(***************************************************************************)
EXTENDS AccessGrants, TLC

\* Users, rows and handlers are interchangeable.
Symmetry == Permutations(Users) \cup Permutations(Requests)
              \cup Permutations(Grants) \cup Permutations(Calls)
=============================================================================
