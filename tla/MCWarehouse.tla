---------------------------- MODULE MCWarehouse ----------------------------
(***************************************************************************)
(* Small instances of five components: mobile orders (MobileOrder), the    *)
(* movements of a product with batches (StockMovements), requests to fill  *)
(* the shelf (TransferRequests) and to buy (PurchaseSuggestions), and the  *)
(* locations of the depot (WarehouseLocations). "part" says which one      *)
(* runs, the variables of the others keep their values: the components do  *)
(* not meet here.  Where a component has a module of proofs, it is that    *)
(* module which is instantiated, so that its lemmas can be cited.          *)
(***************************************************************************)
EXTENDS MobileOrder, FiniteSets, TLC

CONSTANTS None,
          Batches, Expired, MaxOpening, MaxMoved, MaxWrites,  \* of StockMovements
          Requests, Depot, MaxStops,        \* of TransferRequests; stops of all
          Suggestions, MaxAsked, MaxFails,  \* of PurchaseSuggestions
          Locations, Articles, MaxPallet    \* of WarehouseLocations

ASSUME WarehouseAssumption ==
  /\ Batches \subseteq Nat /\ Expired \subseteq Batches
  /\ None \notin Batches \cup Requests \cup Suggestions \cup Articles \cup Locations
  /\ MaxOpening \in Nat /\ MaxMoved \in Nat /\ MaxWrites \in Nat /\ Depot \in Nat /\ MaxStops \in Nat
  /\ MaxAsked \in Nat /\ MaxFails \in Nat /\ MaxPallet \in Nat
  /\ IsFiniteSet(Calls) /\ IsFiniteSet(Batches) /\ IsFiniteSet(Locations)
  /\ None \notin [{"depo", "reyon"} -> Nat]

VARIABLES part,
          s_stock, s_batch, s_log, s_call, s_clock, s_served, s_stops, s_opening, s_missed, s_drift,
          t_request, t_depot, t_shelf, t_call, t_served, t_stops, t_moved, t_raced, t_torn,
          p_row, p_orders, p_call, p_count, p_fails, p_stale, p_crowded,
          l_place, l_depot, l_recorded, l_call, l_served, l_stops, l_elsewhere, l_strayed
s_vars == <<s_stock, s_batch, s_log, s_call, s_clock, s_served, s_stops, s_opening, s_missed,
            s_drift>>
t_vars == <<t_request, t_depot, t_shelf, t_call, t_served, t_stops, t_moved, t_raced, t_torn>>
p_vars == <<p_row, p_orders, p_call, p_count, p_fails, p_stale, p_crowded>>
l_vars == <<l_place, l_depot, l_recorded, l_call, l_served, l_stops, l_elsewhere, l_strayed>>
allVars == <<part, vars, s_vars, t_vars, p_vars, l_vars>>

S == INSTANCE StockMovements_proofs WITH
       MaxQty <- MaxMoved, stock <- s_stock, batch <- s_batch, log <- s_log, call <- s_call,
       clock <- s_clock, served <- s_served, stops <- s_stops, opening <- s_opening,
       missed <- s_missed, drift <- s_drift
T == INSTANCE TransferRequests WITH
       request <- t_request, depot <- t_depot, shelf <- t_shelf, call <- t_call,
       served <- t_served, stops <- t_stops, moved <- t_moved, raced <- t_raced, torn <- t_torn
P == INSTANCE PurchaseSuggestions WITH
       MaxCalls <- MaxAsked, row <- p_row, orders <- p_orders, call <- p_call,
       count <- p_count, fails <- p_fails, stale <- p_stale, crowded <- p_crowded
L == INSTANCE WarehouseLocations WITH
       Products <- Articles, MaxQty <- MaxPallet, MaxServed <- MaxWrites,
       place <- l_place, depot <- l_depot, recorded <- l_recorded, call <- l_call,
       served <- l_served, stops <- l_stops, elsewhere <- l_elsewhere, strayed <- l_strayed

InitParts ==
  /\ part \in {"orders", "movements", "transfers", "suggestions", "locations"}
  /\ Init /\ (part # "orders" => cart = EmptyCart)
  /\ \/ part = "movements" /\ S!Init
     \/ part # "movements" /\ s_stock = 0 /\ s_batch = 0 /\ s_log = 0 /\ s_call = 0
          /\ s_clock = 0 /\ s_served = 0 /\ s_stops = 0 /\ s_opening = 0 /\ s_missed = 0
          /\ s_drift = 0
  /\ \/ part = "transfers" /\ T!Init
     \/ part # "transfers" /\ t_request = 0 /\ t_depot = 0 /\ t_shelf = 0 /\ t_call = 0
          /\ t_served = 0 /\ t_stops = 0 /\ t_moved = 0 /\ t_raced = 0 /\ t_torn = 0
  /\ \/ part = "suggestions" /\ P!Init
     \/ part # "suggestions" /\ p_row = 0 /\ p_orders = 0 /\ p_call = 0 /\ p_count = 0
          /\ p_fails = 0 /\ p_stale = 0 /\ p_crowded = 0
  /\ \/ part = "locations" /\ L!Init
     \/ part # "locations" /\ l_place = 0 /\ l_depot = 0 /\ l_recorded = 0 /\ l_call = 0
          /\ l_served = 0 /\ l_stops = 0 /\ l_elsewhere = 0 /\ l_strayed = 0

\* Bound: no request comes once a handler has been overtaken by the write of another
\* (the till counts only from its reading of the row). What the overtaken one does next is
\* a race, of which the properties do not speak.
Orderly == S!Free({"raced"}) /\ \A c \in Calls : s_call[c].old => S!At(c, "till")
NextParts ==
  /\ UNCHANGED part
  /\ \/ part = "orders" /\ Next /\ UNCHANGED <<s_vars, t_vars, p_vars, l_vars>>
     \/ part = "movements" /\ S!Next /\ (Orderly \/ UNCHANGED s_served)
          /\ UNCHANGED <<vars, t_vars, p_vars, l_vars>>
     \/ part = "transfers" /\ T!Next /\ UNCHANGED <<vars, s_vars, p_vars, l_vars>>
     \/ part = "suggestions" /\ P!Next /\ UNCHANGED <<vars, s_vars, t_vars, l_vars>>
     \/ part = "locations" /\ L!Next /\ UNCHANGED <<vars, s_vars, t_vars, p_vars>>
SpecParts == InitParts /\ [][NextParts]_allVars

\* Requests to fill the shelf, suggestions, and locations and products of the depot may
\* share their model values.
Symmetry == Permutations(Calls) \cup Permutations(Products)
              \cup Permutations(Requests) \cup Permutations(Suggestions)
              \cup Permutations(Locations) \cup Permutations(Articles)

-----------------------------------------------------------------------------
\* The types of mobile orders and carts, of the stock row, its batches and movements, of
\* transfer requests, suggestions and locations.
WarehouseTypes ==
  /\ TypeOK
  /\ part = "movements" => S!TypeOK
  /\ part = "transfers" => T!TypeOK
  /\ part = "suggestions" => P!TypeOK
  /\ part = "locations" => L!TypeOK

\* Batches never claim more than the stock row holds: goods in and out, transfers,
\* disposals, edits and cancellations write both.
BatchesWithinRow == part = "movements" => S!BatchesWithinRow

\* The movements explain the stock row: it is the opening quantity and their sum,
\* and a movement is cancelled by one other at most, and marked if it is.
MovementsAddUp ==
  part = "movements" => S!LogExplainsRow /\ S!CancelledOnceUnlessRaced

\* Cancelling takes back what the movement did, if the batches made up the row.
CancelRestoresCovered == [][part = "movements" => S!RestoringCovered]_allVars

\* A completed transfer request has moved its stock, and moved it once.
TransfersMatch ==
  part = "transfers" => T!CompletedMeansMoved /\ T!MovedOnceUnlessRaced

\* Closed transfer requests stay closed, whatever an open page asks of them.
TransfersStayClosed == [][part = "transfers" => T!StaysClosed]_allVars

\* A suggestion leads to one order, which it names, and a product has one active
\* suggestion.
SuggestionsMatchOrders ==
  part = "suggestions" => P!OrderedOnceUnlessRaced /\ P!OneActiveUnlessRaced

\* A suggestion that is ordered, rejected or expired does not open again.
SuggestionsStayDecided == [][part = "suggestions" => P!DecidedStays]_allVars

\* The locations of the depot add up to the depot quantity of each product, up to
\* handlers between the two writes and the listed ways in which the code parts them.
DepotMatchesLocations == part = "locations" => L!DepotMatchesLocations
=============================================================================
