--------------------------- MODULE PurchaseOrder ---------------------------
(***************************************************************************)
(* The life of purchase orders: PATCH /orders/:id/status requests, queued  *)
(* per order by an in-memory lock, and the lifecycle scheduler, which does *)
(* not take that lock. Both write back a whole order they read earlier.    *)
(* Goods receipt books the stock line by line, each line with several      *)
(* database calls that no transaction joins; the order is stored last.     *)
(* Source: backend/src/services/procurementService.js,                     *)
(*         backend/src/domain/purchaseOrderLifecycle.js.                   *)
(***************************************************************************)
EXTENDS Naturals, FiniteSets, Sequences

CONSTANTS Orders, Calls, Ticks,  \* orders, request slots, scheduler ticks
          NLines,                \* number of lines of an order
          MaxCalls,              \* bound: requests in a behaviour
          MaxFailures,           \* bound: failing database calls
          CanCrash               \* whether the process may stop

ASSUME PurchaseOrderAssumption ==
  /\ Orders # {} /\ IsFiniteSet(Calls) /\ CanCrash \in BOOLEAN
  /\ NLines \in Nat \ {0} /\ MaxCalls \in Nat /\ MaxFailures \in Nat

Lines == 1..NLines

-----------------------------------------------------------------------------
\* purchaseOrderLifecycle.js: the statuses and the contract between them.
AutoSequence == <<"approved", "supplier_notified", "preparing",
                  "ready_to_ship", "in_transit", "delivered">>
Automatic == {"approved", "supplier_notified", "preparing",
         "ready_to_ship", "in_transit", "delivered"}
Statuses == Automatic \cup {"draft", "submitted_for_approval", "goods_receipt_pending",
                       "goods_receipt_completed", "stock_entry_pending",
                       "completed", "archived", "cancelled"}

Contract == {
  <<"draft", "submitted_for_approval">>,  <<"submitted_for_approval", "approved">>,
  <<"approved", "supplier_notified">>,    <<"supplier_notified", "preparing">>,
  <<"preparing", "ready_to_ship">>,       <<"ready_to_ship", "in_transit">>,
  <<"in_transit", "delivered">>,          <<"delivered", "goods_receipt_pending">>,
  <<"goods_receipt_pending", "goods_receipt_completed">>,
  <<"goods_receipt_completed", "stock_entry_pending">>,
  <<"goods_receipt_completed", "completed">>,
  <<"stock_entry_pending", "completed">>,
  <<"completed", "archived">>,            <<"cancelled", "archived">>}
  \cup {<<s, "cancelled">> : s \in (Automatic \ {"delivered"}) \cup
          {"draft", "submitted_for_approval", "goods_receipt_pending", "stock_entry_pending"}}

CanTransition(from, to) == from = to \/ <<from, to>> \in Contract

\* getAutoStatusRank, counted from 1.
Rank(s) == IF s \in Automatic THEN CHOOSE i \in 1..6 : AutoSequence[i] = s ELSE 0

\* An order: received is goodsReceiptCompleted(At), booked stands for
\* stockBookedAt and stockEntryCompleted(At), mode for stockEntryMode.
Row == [status : Statuses, received : BOOLEAN, booked : BOOLEAN,
        mode : {"none", "auto", "manual"}]
Fresh(s) == [status |-> s, received |-> FALSE, booked |-> FALSE, mode |-> "none"]

\* applyOrderStatusTransition of an allowed transition, with syncOrderFlowFlags.
Transition(r, next) ==
  IF r.status = next THEN r
  ELSE [status   |-> next,
        received |-> r.received \/ next \in {"goods_receipt_completed",
                                             "stock_entry_pending", "completed"},
        booked   |-> next = "completed" \/ (r.booked /\ next # "stock_entry_pending"),
        mode     |-> IF next = "stock_entry_pending" THEN "manual" ELSE r.mode]

-----------------------------------------------------------------------------
\* A status request: the wanted status, stockEntryMode and the archive flag.
\* Statuses of the automatic stretch other than "approved" are refused at once.
Requests ==
  [want : Statuses \ (Automatic \ {"approved"}), manual : {FALSE}, archive : {TRUE}]
  \cup {[want |-> "goods_receipt_completed", manual |-> TRUE, archive |-> TRUE],
        [want |-> "completed", manual |-> FALSE, archive |-> FALSE]}

\* isManualStockEntryPendingOrder
ManualPending(r) ==
  /\ r.status # "archived"
  /\ \/ r.status = "stock_entry_pending"
     \/ r.received /\ r.mode = "manual" /\ ~r.booked

\* Whether a request for a goods receipt is refused (409 or 400).
ReceiptRefused(r) ==
  \/ r.received
  \/ r.status \in {"goods_receipt_completed", "stock_entry_pending", "completed", "archived"}
  \/ ~CanTransition(r.status, "goods_receipt_completed")

BooksOnReceiptOnly(r, rq) == rq.want = "goods_receipt_completed" /\ ~rq.manual
\* Whether the request books stock before the order is stored.
Books(r, rq) ==
  \/ rq.want = "goods_receipt_completed" /\ ~rq.manual
  \/ rq.want = "completed" /\ ManualPending(r) /\ ~r.booked

\* Refused before anything happens. A "completed" request that books is
\* checked against the contract only after the booking.
RefusedEarly(r, rq) ==
  CASE rq.want = "goods_receipt_completed" -> ReceiptRefused(r)
    [] OTHER -> ~CanTransition(r.status, rq.want) /\ ~Books(r, rq)

RefusedLate(r, rq) == ~CanTransition(r.status, rq.want)

\* completeGoodsReceiptFlow, and the automatic stock entry that follows it.
ReceivedManually(r) ==
  Transition(Transition(r, "goods_receipt_completed"), "stock_entry_pending")
ReceivedAutomaticallyAsClosed(r) ==
  [status |-> "closed", received |-> TRUE, booked |-> TRUE, mode |-> "auto"]
ReceivedAutomatically(r) ==
  Transition(Transition([status   |-> "goods_receipt_completed", received |-> TRUE,
                         booked   |-> TRUE, mode |-> "auto"], "completed"), "archived")

\* finalizeManualStockEntryFlow
Finalized(r, archive) ==
  LET done == Transition([r EXCEPT !.booked = TRUE, !.mode = "manual"], "completed")
  IN IF archive THEN Transition(done, "archived") ELSE done

\* The order that updateOrderStatus stores.
Stored(r, rq) ==
  CASE rq.want = "goods_receipt_completed" /\ rq.manual -> ReceivedManually(r)
    [] rq.want = "goods_receipt_completed" /\ ~rq.manual -> ReceivedAutomatically(r)
    [] rq.want = "completed" -> Finalized(r, rq.archive)
    [] OTHER -> Transition(r, rq.want)

-----------------------------------------------------------------------------
VARIABLES
  row,       \* the purchase_orders rows
  roll,      \* order -> the deterministic roll cancels it while preparing
  due,       \* order -> how many planned times of its timeline have passed
  queue,     \* order -> calls in withOrderUpdateLock; the head is inside
  call,      \* the requests
  scan,      \* the scheduler ticks
  warehouse, \* order -> lines with a MAL_KABUL warehouse movement
  moved,     \* order -> lines with a product_purchase stock movement
  applied,   \* order -> line -> how often its quantity was added to the stock
  torn,      \* order -> line -> attempts that broke off after such an addition
  served, failures                      \* bounds

bounds == <<served, failures>>
stock == <<warehouse, moved, applied, torn>>
vars == <<row, roll, due, queue, call, scan, stock, bounds>>

NoRequest == [want |-> "draft", manual |-> FALSE, archive |-> TRUE]
Pc == {"idle", "queued", "find", "receive", "receiveLog", "check", "apply", "log", "store"}

\* A request: its order, the order row it read, the line it is at, whether
\* the stock movement adds the quantity itself (applyStockDelta), and the
\* lines whose addition a later attempt would not find in the warehouse.
Call == [pc : Pc, o : Orders, rq : Requests, row : Row, line : Lines,
         delta : BOOLEAN, fresh : SUBSET Lines]
Idle == [pc |-> "idle", o |-> CHOOSE o \in Orders : TRUE, rq |-> NoRequest,
         row |-> Fresh("draft"), line |-> 1, delta |-> FALSE, fresh |-> {}]

\* A tick: the orders still to be progressed, as getAll returned them.
Scan == [todo : SUBSET Orders, seen : [Orders -> Row]]
NoScan == [todo |-> {}, seen |-> [o \in Orders |-> Fresh("draft")]]

\* The timeline of an order, from its approval on. "cancelled" is the moment
\* at which the roll cancels an order that is being prepared.
Timeline == <<"approved", "supplier_notified", "preparing", "cancelled",
              "ready_to_ship", "in_transit", "delivered">>

Init ==
  /\ row \in [Orders -> {Fresh("draft"), Fresh("submitted_for_approval")}]
  /\ roll \in [Orders -> BOOLEAN]
  /\ due = [o \in Orders |-> 1]
  /\ queue = [o \in Orders |-> <<>>]
  /\ call = [c \in Calls |-> Idle]
  /\ scan = [t \in Ticks |-> NoScan]
  /\ warehouse = [o \in Orders |-> {}]
  /\ moved = [o \in Orders |-> {}]
  /\ applied = [o \in Orders |-> [l \in Lines |-> 0]]
  /\ torn = [o \in Orders |-> [l \in Lines |-> 0]]
  /\ served = 0 /\ failures = 0

-----------------------------------------------------------------------------
\* The scheduler. getOrderCurrentStatus: where the timeline says o is.
Planned(o) ==
  IF Timeline[due[o]] = "cancelled" /\ ~roll[o] THEN "preparing" ELSE Timeline[due[o]]

ProgressStopsAtDelivered(r, target) ==
  CASE target = "cancelled" /\ Rank(r.status) < Rank("ready_to_ship") -> Transition(r, "cancelled")
    [] Rank(target) > Rank(r.status) -> Transition(r, target)
    [] OTHER -> r
\* applyOrderAutoProgression: all steps up to target in one write; a delivered
\* order goes on to await its goods receipt.
Progress(r, target) ==
  CASE target = "cancelled" /\ Rank(r.status) < Rank("ready_to_ship") -> Transition(r, "cancelled")
    [] Rank(target) > Rank(r.status) ->
         Transition(r, IF target = "delivered" THEN "goods_receipt_pending" ELSE target)
    [] OTHER -> r

\* The next planned time of an approved order passes.
Tick(o) ==
  /\ due[o] < Len(Timeline)
  /\ row[o].status \notin {"draft", "submitted_for_approval"}
  /\ due' = [due EXCEPT ![o] = @ + 1]
  /\ UNCHANGED <<row, roll, queue, call, scan, stock, bounds>>

MayStartAlways == TRUE
\* The `running` flag of the job: no tick starts while another one runs.
MayStart == \A t \in Ticks : scan[t].todo = {}

\* progressDuePurchaseOrders: getAll ...
ScanStart(t) ==
  LET candidates == {o \in Orders : row[o].status \in Automatic} IN
  /\ scan[t].todo = {} /\ MayStart
  /\ candidates # {}
  /\ scan' = [scan EXCEPT ![t] = [todo |-> candidates, seen |-> row]]
  /\ UNCHANGED <<row, roll, due, queue, call, stock, bounds>>

\* ... then one candidate after the other, from what getAll returned, unlocked.
ScanOrder(t, o) ==
  LET next == Progress(scan[t].seen[o], Planned(o))
      todo == scan[t].todo \ {o} IN
  /\ o \in scan[t].todo
  /\ row' = IF next = scan[t].seen[o] THEN row ELSE [row EXCEPT ![o] = next]
  /\ scan' = [scan EXCEPT ![t] = IF todo = {} THEN NoScan ELSE [@ EXCEPT !.todo = todo]]
  /\ UNCHANGED <<roll, due, queue, call, stock, bounds>>

\* A database error ends the whole tick.
ScanFail(t) ==
  /\ scan[t].todo # {}
  /\ failures < MaxFailures
  /\ failures' = failures + 1
  /\ scan' = [scan EXCEPT ![t] = NoScan]
  /\ UNCHANGED <<row, roll, due, queue, call, stock, served>>

-----------------------------------------------------------------------------
\* updateOrderStatus queues up for the order ...
Request(c, o, rq) ==
  /\ call[c].pc = "idle" /\ served < MaxCalls
  /\ served' = served + 1
  /\ call' = [call EXCEPT ![c] = [Idle EXCEPT !.pc = "queued", !.o = o, !.rq = rq]]
  /\ queue' = [queue EXCEPT ![o] = Append(@, c)]
  /\ UNCHANGED <<row, roll, due, scan, stock, failures>>

HoldsAlways(c) == TRUE
\* ... and goes on when the calls before it have released the lock.
Holds(c) == queue[call[c].o] # <<>> /\ Head(queue[call[c].o]) = c

Released(c) == [queue EXCEPT ![call[c].o] = Tail(@)]

GiveUpHolding(c) ==
  /\ call' = [call EXCEPT ![c] = Idle]
  /\ UNCHANGED <<queue, torn>>
\* The request ends and releases the lock. What it added to the stock
\* without a warehouse movement to show for it is counted in torn.
GiveUp(c) ==
  LET o == call[c].o IN
  /\ call' = [call EXCEPT ![c] = Idle]
  /\ queue' = Released(c)
  /\ torn' = [torn EXCEPT ![o] = [l \in Lines |-> @[l] + IF l \in call[c].fresh THEN 1 ELSE 0]]

At(c, pc) == call[c].pc = pc /\ Holds(c)
Goto(c, pc) == call' = [call EXCEPT ![c].pc = pc]

\* Read the order; refuse, start booking, or store the changed order.
Start(c) ==
  LET r == row[call[c].o] IN
  /\ At(c, "queued")
  /\ \/ RefusedEarly(r, call[c].rq) /\ GiveUp(c)
     \/ /\ ~RefusedEarly(r, call[c].rq)
        /\ call' = [call EXCEPT ![c].row = r,
                                ![c].pc = IF Books(r, call[c].rq) THEN "find" ELSE "store"]
        /\ UNCHANGED <<queue, torn>>
  /\ UNCHANGED <<row, roll, due, scan, warehouse, moved, applied, bounds>>

\* bookPurchaseOrderStockEntry, line by line. Was the line received before?
Find(c) ==
  LET k == call[c] IN
  /\ At(c, "find")
  /\ \/ k.line \in warehouse[k.o]
        /\ call' = [call EXCEPT ![c].pc = "check", ![c].delta = FALSE]
     \/ k.line \notin warehouse[k.o]
        /\ Goto(c, "receive")
  /\ UNCHANGED <<row, roll, due, queue, scan, stock, bounds>>

Add(c) ==
  LET k == call[c] IN applied' = [applied EXCEPT ![k.o][k.line] = @ + 1]

\* warehouseService.createMovement: fill a location and the stock ...
Receive(c) ==
  /\ At(c, "receive")
  /\ Add(c)
  /\ call' = [call EXCEPT ![c].pc = "receiveLog", ![c].fresh = @ \cup {call[c].line}]
  /\ UNCHANGED <<row, roll, due, queue, scan, warehouse, moved, torn, bounds>>

\* ... record the movement.
ReceiveLog(c) ==
  LET k == call[c] IN
  /\ At(c, "receiveLog")
  /\ warehouse' = [warehouse EXCEPT ![k.o] = @ \cup {k.line}]
  /\ call' = [call EXCEPT ![c].pc = "check", ![c].delta = FALSE, ![c].fresh = @ \ {k.line}]
  /\ UNCHANGED <<row, roll, due, queue, scan, moved, applied, torn, bounds>>

\* No free location, or an error: the stock movement shall add the quantity.
ReceiveRefused(c) ==
  /\ At(c, "receive")
  /\ call' = [call EXCEPT ![c].pc = "check", ![c].delta = TRUE]
  /\ UNCHANGED <<row, roll, due, queue, scan, stock, bounds>>

ReceiveFail(c) ==
  LET k == call[c] IN
  /\ At(c, "receiveLog")
  /\ failures < MaxFailures /\ failures' = failures + 1
  /\ torn' = [torn EXCEPT ![k.o][k.line] = @ + 1]
  /\ call' = [call EXCEPT ![c].pc = "check", ![c].delta = TRUE, ![c].fresh = @ \ {k.line}]
  /\ UNCHANGED <<row, roll, due, queue, scan, warehouse, moved, applied, served>>

\* The line after this one, or the end of the booking.
Advance(c) ==
  LET k == call[c] IN
  \/ /\ k.line < NLines
     /\ call' = [call EXCEPT ![c].pc = "find", ![c].line = k.line + 1]
     /\ UNCHANGED <<queue, torn>>
  \/ /\ k.line = NLines /\ ~RefusedLate(k.row, k.rq)
     /\ Goto(c, "store")
     /\ UNCHANGED <<queue, torn>>
  \/ /\ k.line = NLines /\ RefusedLate(k.row, k.rq)
     /\ GiveUp(c)

\* findExistingPurchaseStockMovement
AlreadyMoved(c) == call[c].line \in moved[call[c].o]

\* createStockInMovement: a movement that exists ends the line, ...
Check(c) ==
  /\ At(c, "check")
  /\ \/ AlreadyMoved(c) /\ Advance(c)
     \/ ~AlreadyMoved(c) /\ Goto(c, IF call[c].delta THEN "apply" ELSE "log")
        /\ UNCHANGED <<queue, torn>>
  /\ UNCHANGED <<row, roll, due, scan, warehouse, moved, applied, bounds>>

\* ... otherwise add the quantity, if the warehouse did not, ...
Apply(c) ==
  /\ At(c, "apply")
  /\ Add(c)
  /\ call' = [call EXCEPT ![c].pc = "log", ![c].fresh = @ \cup {call[c].line}]
  /\ UNCHANGED <<row, roll, due, queue, scan, warehouse, moved, torn, bounds>>

\* ... and record the stock movement.
Log(c) ==
  LET k == call[c] IN
  /\ At(c, "log")
  /\ moved' = [moved EXCEPT ![k.o] = @ \cup {k.line}]
  /\ Advance(c)
  /\ UNCHANGED <<row, roll, due, scan, warehouse, applied, bounds>>

\* Store the order built from the row read at the start, release the lock.
Store(c) ==
  LET k == call[c] IN
  /\ At(c, "store")
  /\ row' = [row EXCEPT ![k.o] = Stored(k.row, k.rq)]
  /\ call' = [call EXCEPT ![c] = Idle]
  /\ queue' = Released(c)
  /\ UNCHANGED <<roll, due, scan, stock, bounds>>

\* An error outside the warehouse call ends the request.
Abort(c) ==
  /\ \E pc \in {"queued", "find", "check", "apply", "log", "store"} : At(c, pc)
  /\ failures < MaxFailures /\ failures' = failures + 1
  /\ GiveUp(c)
  /\ UNCHANGED <<row, roll, due, scan, warehouse, moved, applied, served>>

\* The process stops: lock, requests and ticks live in memory only.
Crash ==
  /\ CanCrash
  /\ \/ \E c \in Calls : call[c].pc # "idle"
     \/ \E t \in Ticks : scan[t].todo # {}
  /\ queue' = [o \in Orders |-> <<>>]
  /\ call' = [c \in Calls |-> Idle]
  /\ scan' = [t \in Ticks |-> NoScan]
  /\ torn' = [o \in Orders |-> [l \in Lines |->
                torn[o][l] + Cardinality({c \in Calls : call[c].o = o /\ l \in call[c].fresh})]]
  /\ UNCHANGED <<row, roll, due, warehouse, moved, applied, bounds>>

-----------------------------------------------------------------------------
Update(c) ==
  \/ Start(c) \/ Find(c) \/ Receive(c) \/ ReceiveLog(c) \/ ReceiveRefused(c)
  \/ Check(c) \/ Apply(c) \/ Log(c) \/ Store(c)

Next ==
  \/ \E c \in Calls : Update(c) \/ ReceiveFail(c) \/ Abort(c)
  \/ \E c \in Calls, o \in Orders, rq \in Requests : Request(c, o, rq)
  \/ \E t \in Ticks : ScanStart(t) \/ ScanFail(t)
  \/ \E t \in Ticks, o \in Orders : ScanOrder(t, o)
  \/ \E o \in Orders : Tick(o)
  \/ Crash

Spec == Init /\ [][Next]_vars

\* Database calls return, setInterval keeps starting ticks, and planned times
\* pass. Requests, errors and restarts are never forced.
FairSpec ==
  /\ Spec
  /\ \A c \in Calls : WF_vars(Update(c))
  /\ WF_vars(\E t \in Ticks : ScanStart(t))
  /\ \A t \in Ticks : WF_vars(\E o \in Orders : ScanOrder(t, o))
  /\ \A o \in Orders : WF_vars(Tick(o))

-----------------------------------------------------------------------------
\* The types of the orders, the lock, the requests, the ticks and the books.
TypeOK ==
  /\ row \in [Orders -> Row]
  /\ roll \in [Orders -> BOOLEAN]
  /\ due \in [Orders -> 1..Len(Timeline)]
  /\ queue \in [Orders -> Seq(Calls)]
  /\ call \in [Calls -> Call]
  /\ scan \in [Ticks -> Scan]
  /\ warehouse \in [Orders -> SUBSET Lines]
  /\ moved \in [Orders -> SUBSET Lines]
  /\ applied \in [Orders -> [Lines -> Nat]]
  /\ torn \in [Orders -> [Lines -> Nat]]
  /\ served \in Nat /\ failures \in Nat

\* A line is added to the stock once, however many receipts, completions and
\* retries are requested at the same time; one more addition takes an attempt
\* that broke off between the addition and the record a retry looks for.
StockAppliedOnce == \A o \in Orders, l \in Lines : applied[o][l] <= 1 + torn[o][l]

\* An order that says its stock entry is complete has every line in stock and
\* a stock movement for it, although the order is stored last and the entry
\* may have been started in one mode and finished in the other.
BookedMeansStocked ==
  \A o \in Orders : row[o].booked =>
    \A l \in Lines : l \in moved[o] /\ applied[o][l] > 0

\* The stored orders implement the promise of StockEntry: no request and no
\* tick takes an order back behind its goods receipt or its stock entry.
PhaseOf(r) ==
  CASE r.booked -> "entered"
    [] ~r.booked /\ r.status \in {"cancelled", "archived"} ->
         IF r.received THEN "returned" ELSE "closed"
    [] OTHER -> IF r.received THEN "received" ELSE "open"

Promise == INSTANCE StockEntry WITH phase <- [o \in Orders |-> PhaseOf(row[o])],
                                    stocked <- moved
ImplementsStockEntry == Promise!SESpec

\* An approved order does not stay in the automatic stretch: it is cancelled
\* or waits for its goods receipt in the end.
LeavesAutomaticStretch ==
  \A o \in Orders : row[o].status \in Automatic ~> row[o].status \notin Automatic

\* Every request that waits for the lock is served, also after requests that
\* were refused or failed.
LockIsReleased == \A c \in Calls : call[c].pc = "queued" ~> call[c].pc # "queued"

\* PURCHASE_ORDER_STATUS_CONTRACT: after "cancelled" only "archived" follows.
CancelledIsFinal ==
  [][\A o \in Orders : row[o].status = "cancelled" =>
       row'[o].status \in {"cancelled", "archived"}]_vars
=============================================================================
