------------------------- MODULE WarehouseLocations -------------------------
(***************************************************************************)
(* The locations of the depot, each for one pallet, and what movements do  *)
(* to them: goods received or brought back, taken out, counted; locations  *)
(* cleared and marked by hand.  A movement reads a location, writes it     *)
(* whole, then reads and writes the stock of the product, then records     *)
(* itself.                                                                 *)
(* Source: backend/src/services/warehouseService.js.                       *)
(***************************************************************************)
EXTENDS Integers, FiniteSets, Functions

CONSTANTS Locations, Products, Calls,
          None,       \* no product, no location
          MaxQty,     \* bound: the quantity of a movement
          MaxServed,  \* bound: handlers that start, and changes of the stock elsewhere
          MaxStops    \* bound: handlers that an error or a restart ends

-----------------------------------------------------------------------------
\* A location: whether a pallet is counted there, of which product, how much.
Location == [pallet : BOOLEAN, product : Products \cup {None}, qty : 0..MaxQty]
Free == [pallet |-> FALSE, product |-> None, qty |-> 0]

\* A handler: the location it read and the row it is going to write, the change of
\* the stock of its product (None for clearing and marking) and the stock it read.
Call == [pc : {"idle", "put", "read", "write", "record"}, at : Locations \cup {None},
         seen : Location, next : Location, product : Products \cup {None},
         delta : Int, had : Nat]
Idle == [pc |-> "idle", at |-> None, seen |-> Free, next |-> Free, product |-> None,
         delta |-> 0, had |-> 0]

VARIABLES
  place,      \* warehouse_locations
  depot,      \* the depot quantity of each stock row
  recorded,   \* number of warehouse_movements rows
  call,       \* the handlers that are running
  served, stops,  \* bounds
  elsewhere,  \* history: what other services added to the depot of a product
  strayed     \* history: products of which locations and stock may differ

vars == <<place, depot, recorded, call, served, stops, elsewhere, strayed>>

Init ==
  /\ place = [l \in Locations |-> Free]
  /\ depot = [p \in Products |-> 0] /\ elsewhere = [p \in Products |-> 0]
  /\ call = [c \in Calls |-> Idle]
  /\ recorded = 0 /\ served = 0 /\ stops = 0 /\ strayed = {}

-----------------------------------------------------------------------------
At(c, pc) == call[c].pc = pc
Done(c) == call' = [call EXCEPT ![c] = Idle]
Most(a, b) == IF a > b THEN a ELSE b

\* MAL_KABUL and DEPOYA_IADE put a pallet on a location that has none.
CanReceive(row) == ~row.pallet
Received(p, q) == [pallet |-> TRUE, product |-> p, qty |-> q]

\* REYONA_TRANSFER, TRANSFER_CIKISI and FIRE_ZAYI: the pallet counts as gone, what is
\* left of it stays on the location.
CanTake(row, p) == row.product = p
TakenWhole(row, q) == Free
Taken(row, q) ==
  LET rest == Most(0, row.qty - q)
  IN  [pallet |-> FALSE, product |-> IF rest = 0 THEN None ELSE row.product, qty |-> rest]

\* SAYIM_DUZELTMESI: the stock changes by what the count differs.
Counted(p, q) == [pallet |-> TRUE, product |-> p, qty |-> q]
Difference(row, q) == q - row.qty

\* The products of two rows.
Of(row) == {row.product} \ {None}

-----------------------------------------------------------------------------
\* createMovement has read the location and checked it; odd are the products whose
\* locations and stock this movement will set apart.
Move(c, l, p, next, delta, odd) ==
  /\ At(c, "idle") /\ served < MaxServed
  /\ call' = [call EXCEPT ![c] = [pc |-> "put", at |-> l, seen |-> place[l], next |-> next,
                                  product |-> p, delta |-> delta, had |-> 0]]
  /\ served' = served + 1 /\ strayed' = strayed \cup odd
  /\ UNCHANGED <<place, depot, recorded, stops, elsewhere>>

\* What was left of another pallet is written over.
Receive(c, l, p, q) ==
  /\ CanReceive(place[l])
  /\ Move(c, l, p, Received(p, q), q, IF place[l].pallet THEN {} ELSE Of(place[l]))

\* More can be taken from the stock than the location has.
Take(c, l, p, q) ==
  /\ CanTake(place[l], p)
  /\ Move(c, l, p, Taken(place[l], q), -q, IF q > place[l].qty THEN {p} ELSE {})

\* The difference to the count of another product is given to the counted one.
Count(c, l, p, q) ==
  Move(c, l, p, Counted(p, q), Difference(place[l], q),
       IF Of(place[l]) \subseteq {p} THEN {} ELSE Of(place[l]) \cup {p})

\* updateLocation: clear empties a location whatever the stock says; reserve, block and
\* their opposites write the row as it was read.
UpdateLocation(c, l, next) ==
  /\ At(c, "idle") /\ served < MaxServed /\ next \in {Free, place[l]}
  /\ call' = [call EXCEPT ![c] = [Idle EXCEPT !.pc = "put", !.at = l, !.seen = place[l],
                                              !.next = next]]
  /\ served' = served + 1
  /\ strayed' = strayed \cup IF next = Free THEN Of(place[l]) ELSE {}
  /\ UNCHANGED <<place, depot, recorded, stops, elsewhere>>

\* The row is written whole, also over what another wrote since.  A count that
\* differs by nothing leaves the stock row alone.
PutLocation(c) ==
  LET k == call[c]
      k2 == [k EXCEPT !.pc = IF k.delta = 0 THEN "record" ELSE "read"] IN
  /\ At(c, "put")
  /\ place' = [place EXCEPT ![k.at] = k.next]
  /\ call' = [call EXCEPT ![c] = IF k.product = None THEN Idle ELSE k2]
  /\ strayed' = strayed \cup IF place[k.at] = k.seen THEN {}
                             ELSE Of(place[k.at]) \cup Of(k.seen) \cup Of(k.next)
  /\ UNCHANGED <<depot, recorded, served, stops, elsewhere>>

\* updateWarehouseStock
ReadStock(c) ==
  /\ At(c, "read")
  /\ call' = [call EXCEPT ![c].pc = "write", ![c].had = depot[call[c].product]]
  /\ UNCHANGED <<place, depot, recorded, served, stops, elsewhere, strayed>>
WriteStock(c) ==
  LET k == call[c] IN
  /\ At(c, "write")
  /\ depot' = [depot EXCEPT ![k.product] = Most(0, k.had + k.delta)]
  /\ call' = [call EXCEPT ![c].pc = "record"]
  /\ strayed' = strayed \cup IF depot[k.product] = k.had /\ k.had + k.delta >= 0 THEN {}
                             ELSE {k.product}
  /\ UNCHANGED <<place, recorded, served, stops, elsewhere>>
RecordMovement(c) ==
  /\ At(c, "record") /\ recorded' = recorded + 1 /\ Done(c)
  /\ UNCHANGED <<place, depot, served, stops, elsewhere, strayed>>

\* The other writers of the depot quantity, movements and transfers of stockService,
\* do not know the locations.
ChangeElsewhere(p, d) ==
  /\ served < MaxServed /\ depot[p] + d >= 0
  /\ depot' = [depot EXCEPT ![p] = @ + d] /\ elsewhere' = [elsewhere EXCEPT ![p] = @ + d]
  /\ served' = served + 1
  /\ UNCHANGED <<place, recorded, call, stops, strayed>>

\* A database call fails or the process restarts.
Stop(c) ==
  LET k == call[c] IN
  /\ ~At(c, "idle") /\ stops < MaxStops
  /\ Done(c) /\ stops' = stops + 1
  /\ strayed' = strayed \cup IF k.pc \in {"read", "write"} THEN {k.product} ELSE {}
  /\ UNCHANGED <<place, depot, recorded, served, elsewhere>>

Next ==
  \/ \E c \in Calls :
       \/ \E l \in Locations, p \in Products, q \in 1..MaxQty :
            Receive(c, l, p, q) \/ Take(c, l, p, q) \/ Count(c, l, p, q)
       \/ \E l \in Locations : \E next \in {Free, place[l]} : UpdateLocation(c, l, next)
       \/ PutLocation(c) \/ ReadStock(c) \/ WriteStock(c) \/ RecordMovement(c) \/ Stop(c)
  \/ \E p \in Products, d \in {-1, 1} : ChangeElsewhere(p, d)

Spec == Init /\ [][Next]_vars

-----------------------------------------------------------------------------
\* The types of the locations, the stock and the handlers; a location names a product
\* exactly if it holds some, and no pallet is counted where there is none.
TypeOK ==
  /\ place \in [Locations -> Location]
  /\ depot \in [Products -> Nat] /\ elsewhere \in [Products -> Int]
  /\ recorded \in Nat /\ call \in [Calls -> Call]
  /\ served \in 0..MaxServed /\ stops \in 0..MaxStops /\ strayed \subseteq Products
  /\ \A l \in Locations : /\ place[l].product = None <=> place[l].qty = 0
                          /\ place[l].pallet => place[l].qty > 0

\* createMovement keeps the locations and the depot quantity of a product in step, up
\* to handlers between the two and to what other services did to the depot.  They differ
\* only where the code lets them: the rest of a pallet written over, more taken than was
\* there, another product counted, a location cleared, two writers at one row, a handler
\* stopped between the two.
Stored(p) == SumFunction([l \in {m \in Locations : place[m].product = p} |-> place[l].qty])
Moving(p) == {c \in Calls : call[c].pc \in {"read", "write"} /\ call[c].product = p}
Pending(p) == SumFunction([c \in Moving(p) |-> call[c].delta])
DepotMatchesLocations ==
  \A p \in Products \ strayed : depot[p] + Pending(p) = Stored(p) + elsewhere[p]
=============================================================================
