---------------------------- MODULE MCTillCatalog ----------------------------
(***************************************************************************)
(* Small instances of two components: products in quantities at the tills  *)
(* (PosStock) and the catalogue of a supplier (CatalogVersions).  "part"   *)
(* says which one runs, the variables of the other keep their values: the  *)
(* components do not meet here.                                            *)
(***************************************************************************)
EXTENDS PosStock, TLC

CONSTANTS Articles, Imports, Inactive, MaxServed, MaxErrors,  \* of CatalogVersions
          Withdrawn  \* what every file lists as not active when TLC runs

ASSUME CatalogAssumption == None \notin Imports /\ MaxServed \in Nat /\ MaxErrors \in Nat
ASSUME InactiveAssumption == Inactive \in [Imports -> SUBSET Articles]

EveryFile == [i \in Imports |-> Withdrawn]

VARIABLES part, g_import, g_version, g_link, g_call, g_served, g_stops, g_astray, g_mixed,
          g_touched, g_back
g_vars == <<g_import, g_version, g_link, g_call, g_served, g_stops, g_astray, g_mixed,
            g_touched, g_back>>
allVars == <<part, vars, g_vars>>

G == INSTANCE CatalogVersions WITH
       Products <- Articles, MaxStops <- MaxErrors,
       import <- g_import, version <- g_version, link <- g_link, call <- g_call,
       served <- g_served, stops <- g_stops, astray <- g_astray, mixed <- g_mixed,
       touched <- g_touched, back <- g_back

InitParts ==
  /\ part \in {"till", "catalogue"}
  /\ Init /\ (part # "till" => stock = [p \in Products |-> [depot |-> 0, shelf |-> 0]])
  /\ \/ part = "catalogue" /\ G!Init
     \/ part = "till" /\ g_import = 0 /\ g_version = 0 /\ g_link = 0 /\ g_call = 0
          /\ g_served = 0 /\ g_stops = 0 /\ g_astray = 0 /\ g_mixed = 0 /\ g_touched = 0
          /\ g_back = 0
NextParts ==
  /\ UNCHANGED part
  /\ \/ part = "till" /\ Next /\ UNCHANGED g_vars
     \/ part = "catalogue" /\ G!Next /\ UNCHANGED vars
SpecParts == InitParts /\ [][NextParts]_allVars

\* Requests, products and imports are interchangeable; the articles are not, one of them
\* is not active in the files.
Symmetry == Permutations(Calls) \cup Permutations(Products) \cup Permutations(Imports)

-----------------------------------------------------------------------------
\* One version of the catalogue is active and its links are in effect, and an import
\* leads to one version, however commits, activations and decisions interleave.
CatalogueInEffect ==
  part = "catalogue" =>
    G!TypeOK /\ G!OneVersionActive /\ G!CommittedOnce /\ G!ActiveInEffect
=============================================================================
