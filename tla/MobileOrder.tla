---------------------------- MODULE MobileOrder ----------------------------
(***************************************************************************)
(* The mobile order hand-off of one customer: a cart is turned into an     *)
(* order with a short-lived code, the customer shows the code at the till, *)
(* a cashier pulls the order into the POS cart, and the sale completes it. *)
(* Source: backend/src/services/mobileOrderService.js.                     *)
(*                                                                         *)
(* Every `await` is a point where another request may run, so a handler is *)
(* a sequence of steps; what it read earlier is kept in its call record.   *)
(* Repository.updateById reads a row and writes the whole row back without *)
(* a transaction, so a cart clean-up is two steps as well.                 *)
(***************************************************************************)
EXTENDS Naturals, FiniteSets

CONSTANTS Orders,       \* ids of the mobile orders the customer may create
          Calls,        \* slots for HTTP requests in flight
          Products,
          MaxQty,       \* bound: largest quantity of a product in the cart
          MaxEdits,     \* bound: cart edits by the customer
          MaxCalls,     \* bound: requests served in a behaviour
          MaxFailures,  \* bound: failed database writes of the cart clean-up
          CanCrash      \* whether the process may stop between two steps

ASSUME MobileOrderAssumption ==
  /\ Orders # {} /\ CanCrash \in BOOLEAN
  /\ MaxQty \in Nat /\ MaxEdits \in Nat /\ MaxCalls \in Nat /\ MaxFailures \in Nat

\* MOBILE_ORDER_STATUS; "none" is an order that does not exist yet.
Status == {"none", "pending_cashier", "pulled_to_pos", "customer_confirmed_handoff",
           "completed", "cancelled", "expired"}

CleanupAttempts == 3    \* retryCartCleanup(customerId, items, attempts = 3)

Cart == [Products -> 0..MaxQty]
EmptyCart == [p \in Products |-> 0]

\* A mobile_orders row: its status column and the payload fields that steer
\* the handlers (cartCleanupCompleted, cartCleanupPending, customerOrderId).
Row == [status : Status, cleaned : BOOLEAN, pending : BOOLEAN, history : BOOLEAN]
NoRow == [status |-> "none", cleaned |-> FALSE, pending |-> FALSE, history |-> FALSE]

Pc == {"idle", "insert", "expire", "setStatus", "begin", "commit", "pull",
       "mark", "readCart", "writeCart", "finish", "closeHistory", "writeCustomer"}

\* A request: where it is, its order, the row and the cart it has read.
Call == [pc : Pc, o : Orders, row : Row, cart : Cart, attempt : 1..CleanupAttempts]

\* A free slot; its order is of no meaning.
Idle == [pc |-> "idle", o |-> CHOOSE o \in Orders : TRUE, row |-> NoRow,
         cart |-> EmptyCart, attempt |-> 1]

VARIABLES
  order,     \* the mobile_orders rows
  items,     \* their mobile_order_items, written once by createFromCustomerCart
  timedOut,  \* order -> expiresAt has passed
  locked,    \* orders whose row a transaction holds FOR UPDATE
  cart,      \* customer.activeCart
  history,   \* order -> status of its customer_orders row
  call,      \* the requests in flight
  edits, served, failures,              \* bounds
  handoffCleans, saleCleans, marks, taken  \* history variables, see below

\* handoffCleans[o]  how often a hand-off has taken o's items out of the cart
\* saleCleans[o]     how often the clean-up of a sale has
\* marks[o]          how often a sale has marked o completed and uncleaned
\* taken[o]          the quantities removed from the cart on behalf of o
ghosts == <<handoffCleans, saleCleans, marks, taken>>
bounds == <<edits, served, failures>>
vars == <<order, items, timedOut, locked, cart, history, call, bounds, ghosts>>

HistoryStatus == {"none", "kasaya_aktarildi", "tamamlandi"}

\* subtractCompletedCartItems: line by line, never below zero.
Subtract(c, it) == [p \in Products |-> IF c[p] > it[p] THEN c[p] - it[p] ELSE 0]

\* What Subtract removes, added to the account of the order.
Account(o, c) ==
  taken' = [taken EXCEPT ![o] = [p \in Products |-> @[p] + (c[p] - Subtract(c, items[o])[p])]]

Init ==
  /\ order = [o \in Orders |-> NoRow]
  /\ items = [o \in Orders |-> EmptyCart]
  /\ timedOut = [o \in Orders |-> FALSE]
  /\ locked = {}
  /\ cart \in Cart
  /\ history = [o \in Orders |-> "none"]
  /\ call = [c \in Calls |-> Idle]
  /\ edits = 0 /\ served = 0 /\ failures = 0
  /\ handoffCleans = [o \in Orders |-> 0]
  /\ saleCleans = [o \in Orders |-> 0]
  /\ marks = [o \in Orders |-> 0]
  /\ taken = [o \in Orders |-> EmptyCart]

-----------------------------------------------------------------------------
\* A request arrives for order o, reads its row, and goes on at pc.
Accept(c, o, pc, seenCart) ==
  /\ call[c].pc = "idle"
  /\ served < MaxCalls
  /\ served' = served + 1
  /\ call' = [call EXCEPT ![c] = [pc |-> pc, o |-> o, row |-> order[o],
                                  cart |-> seenCart, attempt |-> 1]]
  /\ UNCHANGED <<edits, failures>>

Done(c) == call' = [call EXCEPT ![c] = Idle]

\* One step of the request; it leaves the bounds alone.
Goto(c, pc) == call' = [call EXCEPT ![c].pc = pc]

Exists(o) == order[o].status # "none"
Timed(o, exempt) == timedOut[o] /\ order[o].status \notin exempt

\* createFromCustomerCart reads the cart and takes all of it or the selected
\* products; an empty selection or missing stock is refused (no step).
CreateRead(c, o) ==
  \E selected \in SUBSET Products :
    LET picked == [p \in Products |-> IF p \in selected THEN cart[p] ELSE 0] IN
    /\ order[o].status = "none"
    /\ \A d \in Calls : ~(call[d].pc = "insert" /\ call[d].o = o)
    /\ picked # EmptyCart
    /\ Accept(c, o, "insert", picked)
    /\ UNCHANGED <<order, items, timedOut, locked, cart, history, ghosts>>

\* ... and, after the stock and code look-ups, inserts the order.
CreateInsert(c) ==
  LET o == call[c].o IN
  /\ call[c].pc = "insert"
  /\ order' = [order EXCEPT ![o] = [NoRow EXCEPT !.status = "pending_cashier"]]
  /\ items' = [items EXCEPT ![o] = call[c].cart]
  /\ Done(c)
  /\ UNCHANGED <<timedOut, locked, cart, history, bounds, ghosts>>

\* The 30 minutes of expiresAt pass.
Timeout(o) ==
  /\ Exists(o) /\ ~timedOut[o]
  /\ timedOut' = [timedOut EXCEPT ![o] = TRUE]
  /\ UNCHANGED <<order, items, locked, cart, history, call, bounds, ghosts>>

\* The update that a late hand-off, look-up or pull makes before it fails.
Expire(c) ==
  LET o == call[c].o IN
  /\ call[c].pc = "expire" /\ o \notin locked
  /\ order' = [order EXCEPT ![o].status = "expired"]
  /\ Done(c)
  /\ UNCHANGED <<items, timedOut, locked, cart, history, bounds, ghosts>>

-----------------------------------------------------------------------------
\* confirmCustomerHandoff: read the order ...
HandoffRead(c, o) ==
  /\ Exists(o)
  /\ Accept(c, o, IF Timed(o, {"pulled_to_pos", "completed"}) THEN "expire" ELSE "setStatus",
            EmptyCart)
  /\ UNCHANGED <<order, items, timedOut, locked, cart, history, ghosts>>

HandoffNextReopens(seen) ==
  IF seen = "pulled_to_pos" THEN seen ELSE "customer_confirmed_handoff"
HandoffNext(seen) ==
  IF seen \in {"completed", "pulled_to_pos"} THEN seen ELSE "customer_confirmed_handoff"

\* ... write the status chosen from what was read ...
HandoffStatus(c) ==
  LET o == call[c].o IN
  /\ call[c].pc = "setStatus" /\ o \notin locked
  /\ order' = [order EXCEPT ![o].status = HandoffNext(call[c].row.status)]
  /\ Goto(c, "begin")
  /\ UNCHANGED <<items, timedOut, locked, cart, history, bounds, ghosts>>

StalePayload(c) == call[c].row
\* The payload the transaction works with: read under the row lock.
LockedPayload(c) == order[call[c].o]

\* ... lock the row (SELECT ... FOR UPDATE), read its payload and the cart ...
HandoffBegin(c) ==
  LET o == call[c].o IN
  /\ call[c].pc = "begin" /\ o \notin locked
  /\ locked' = locked \cup {o}
  /\ call' = [call EXCEPT ![c].pc = "commit", ![c].row = LockedPayload(c),
                            ![c].cart = cart]
  /\ UNCHANGED <<order, items, timedOut, cart, history, bounds, ghosts>>

\* ... and commit the customer order, the cart (unless the locked payload says
\* it was cleaned) and the payload together. The customer row is not locked.
HandoffCommit(c) ==
  LET o == call[c].o
      seen == call[c].row IN
  /\ call[c].pc = "commit"
  /\ history' = [history EXCEPT ![o] = "kasaya_aktarildi"]
  /\ \/ /\ ~seen.cleaned
        /\ cart' = Subtract(call[c].cart, items[o])
        /\ handoffCleans' = [handoffCleans EXCEPT ![o] = @ + 1]
        /\ Account(o, call[c].cart)
     \/ /\ seen.cleaned
        /\ UNCHANGED <<cart, handoffCleans, taken>>
  /\ order' = [order EXCEPT ![o].cleaned = TRUE, ![o].pending = FALSE, ![o].history = TRUE]
  /\ locked' = locked \ {o}
  /\ Done(c)
  /\ UNCHANGED <<items, timedOut, bounds, saleCleans, marks>>

-----------------------------------------------------------------------------
\* lookupForPos changes nothing unless the code has run out.
LookupRead(c, o) ==
  /\ Exists(o) /\ Timed(o, {"completed"})
  /\ Accept(c, o, "expire", EmptyCart)
  /\ UNCHANGED <<order, items, timedOut, locked, cart, history, ghosts>>

\* pullToPos: read the order; expired, completed, cancelled and pulled orders
\* are refused. The stock checks that follow may refuse it too (PullReject).
PullRead(c, o) ==
  /\ Exists(o)
  /\ \/ timedOut[o] /\ Accept(c, o, "expire", EmptyCart)
     \/ /\ ~timedOut[o]
        /\ order[o].status \notin {"completed", "cancelled", "pulled_to_pos"}
        /\ Accept(c, o, "pull", EmptyCart)
  /\ UNCHANGED <<order, items, timedOut, locked, cart, history, ghosts>>

PullReject(c) ==
  /\ call[c].pc = "pull"
  /\ Done(c)
  /\ UNCHANGED <<order, items, timedOut, locked, cart, history, bounds, ghosts>>

PullWrite(c) ==
  LET o == call[c].o IN
  /\ call[c].pc = "pull" /\ o \notin locked
  /\ order' = [order EXCEPT ![o].status = "pulled_to_pos"]
  /\ Done(c)
  /\ UNCHANGED <<items, timedOut, locked, cart, history, bounds, ghosts>>

-----------------------------------------------------------------------------
\* completeFromPos, called by completeSale after the sale is stored and by
\* POST /mobile-orders/:id/complete. A completed and cleaned order is left alone.
CompleteRead(c, o) ==
  /\ Exists(o)
  /\ ~(order[o].status = "completed" /\ order[o].cleaned)
  /\ Accept(c, o, "mark", EmptyCart)
  /\ UNCHANGED <<order, items, timedOut, locked, cart, history, ghosts>>

MarkedNaming(row) == [status |-> "completed", cleaned |-> FALSE, pending |-> TRUE, history |-> TRUE]
\* The payload written is the one that was read, with the two flags reset.
Marked(row) ==
  [status |-> "completed", cleaned |-> FALSE, pending |-> TRUE, history |-> row.history]

CompleteMark(c) ==
  LET o == call[c].o IN
  /\ call[c].pc = "mark" /\ o \notin locked
  /\ order' = [order EXCEPT ![o] = Marked(call[c].row)]
  /\ marks' = [marks EXCEPT ![o] = @ + 1]
  /\ Goto(c, "readCart")
  /\ UNCHANGED <<items, timedOut, locked, cart, history, bounds, handoffCleans, saleCleans, taken>>

\* removeCompletedItemsFromCart: read the customer, write the customer.
CleanRead(c) ==
  /\ call[c].pc = "readCart"
  /\ call' = [call EXCEPT ![c].pc = "writeCart", ![c].cart = cart]
  /\ UNCHANGED <<order, items, timedOut, locked, cart, history, bounds, ghosts>>

CleanWrite(c) ==
  LET o == call[c].o IN
  /\ call[c].pc = "writeCart"
  /\ cart' = Subtract(call[c].cart, items[o])
  /\ saleCleans' = [saleCleans EXCEPT ![o] = @ + 1]
  /\ Account(o, call[c].cart)
  /\ Goto(c, "finish")
  /\ UNCHANGED <<order, items, timedOut, locked, history, bounds, handoffCleans, marks>>

NextAttempt(k) ==
  [pc |-> "readCart", o |-> k.o, row |-> k.row, cart |-> k.cart, attempt |-> k.attempt + 1]
AfterLastFailureFinish == "finish"
AfterLastFailure == "closeHistory"

\* retryCartCleanup: a failed write is retried, the last failure leaves the
\* order marked as pending.
CleanFail(c) ==
  /\ call[c].pc = "writeCart"
  /\ failures < MaxFailures
  /\ failures' = failures + 1
  /\ \/ /\ call[c].attempt < CleanupAttempts
        /\ call' = [call EXCEPT ![c] = NextAttempt(@)]
     \/ /\ call[c].attempt = CleanupAttempts
        /\ Goto(c, AfterLastFailure)
  /\ UNCHANGED <<order, items, timedOut, locked, cart, history, edits, served, ghosts>>

FinishedPending(row, seen) ==
  [status |-> row.status, cleaned |-> TRUE, pending |-> row.pending, history |-> seen.history]
\* The second payload write: again built from what this call knows.
Finished(row, seen) ==
  [status |-> row.status, cleaned |-> TRUE, pending |-> FALSE, history |-> seen.history]

CompleteFinish(c) ==
  LET o == call[c].o IN
  /\ call[c].pc = "finish" /\ o \notin locked
  /\ order' = [order EXCEPT ![o] = Finished(@, call[c].row)]
  /\ Goto(c, "closeHistory")
  /\ UNCHANGED <<items, timedOut, locked, cart, history, bounds, ghosts>>

\* The customer order is closed only if the payload read at the start named it.
CompleteHistory(c) ==
  LET o == call[c].o IN
  /\ call[c].pc = "closeHistory"
  /\ history' = IF call[c].row.history THEN [history EXCEPT ![o] = "tamamlandi"] ELSE history
  /\ Done(c)
  /\ UNCHANGED <<order, items, timedOut, locked, cart, bounds, ghosts>>

-----------------------------------------------------------------------------
\* customerService.updateCart replaces the cart by the one the client sent.
EditCart(new) ==
  /\ edits < MaxEdits
  /\ edits' = edits + 1
  /\ cart' = new
  /\ UNCHANGED <<order, items, timedOut, locked, history, call, served, failures, ghosts>>

\* Any other customerRepo.updateById (status, gift cards, discounts) reads the
\* customer and writes the whole row back, cart included.
CustomerRead(c) ==
  /\ call[c].pc = "idle" /\ served < MaxCalls
  /\ served' = served + 1
  /\ call' = [call EXCEPT ![c] = [Idle EXCEPT !.pc = "writeCustomer", !.cart = cart]]
  /\ UNCHANGED <<order, items, timedOut, locked, cart, history, edits, failures, ghosts>>

CustomerWrite(c) ==
  /\ call[c].pc = "writeCustomer"
  /\ cart' = call[c].cart
  /\ Done(c)
  /\ UNCHANGED <<order, items, timedOut, locked, history, bounds, ghosts>>

\* The process stops: requests in flight vanish, open transactions roll back.
Crash ==
  /\ CanCrash
  /\ \E c \in Calls : call[c].pc # "idle"
  /\ call' = [c \in Calls |-> Idle]
  /\ locked' = {}
  /\ UNCHANGED <<order, items, timedOut, cart, history, bounds, ghosts>>

-----------------------------------------------------------------------------
Handle(c) ==
  \/ CreateInsert(c) \/ Expire(c)
  \/ HandoffStatus(c) \/ HandoffBegin(c) \/ HandoffCommit(c)
  \/ PullReject(c) \/ PullWrite(c)
  \/ CompleteMark(c) \/ CleanRead(c) \/ CleanWrite(c) \/ CleanFail(c)
  \/ CompleteFinish(c) \/ CompleteHistory(c) \/ CustomerWrite(c)

Request(c, o) ==
  \/ CreateRead(c, o) \/ HandoffRead(c, o) \/ LookupRead(c, o)
  \/ PullRead(c, o) \/ CompleteRead(c, o)

Next ==
  \/ \E c \in Calls : Handle(c) \/ CustomerRead(c)
  \/ \E c \in Calls, o \in Orders : Request(c, o)
  \/ \E o \in Orders : Timeout(o)
  \/ \E new \in Cart : EditCart(new)
  \/ Crash

Spec == Init /\ [][Next]_vars

\* Every awaited database call returns: a request in flight keeps going. New
\* requests, customer edits, time-outs and write failures are never forced.
GoOn(c) ==
  \/ CreateInsert(c) \/ Expire(c) \/ HandoffStatus(c) \/ HandoffBegin(c) \/ HandoffCommit(c)
  \/ PullWrite(c) \/ CompleteMark(c) \/ CleanRead(c) \/ CleanWrite(c)
  \/ CompleteFinish(c) \/ CompleteHistory(c) \/ CustomerWrite(c)
FairSpec == Spec /\ \A c \in Calls : WF_vars(GoOn(c))

-----------------------------------------------------------------------------
\* The types of the rows, the cart and the requests in flight.
TypeOK ==
  /\ order \in [Orders -> Row]
  /\ items \in [Orders -> Cart]
  /\ timedOut \in [Orders -> BOOLEAN]
  /\ locked \subseteq Orders
  /\ cart \in Cart
  /\ history \in [Orders -> HistoryStatus]
  /\ call \in [Calls -> Call]
  /\ edits \in Nat /\ served \in Nat /\ failures \in Nat
  /\ handoffCleans \in [Orders -> Nat]
  /\ saleCleans \in [Orders -> Nat]
  /\ marks \in [Orders -> Nat]
  /\ taken \in [Orders -> [Products -> Nat]]

\* A customer who confirms the hand-off twice, or two devices that confirm it
\* at once, have the cart cleaned once; only a sale that resets the flag in
\* between lets a hand-off clean again (confirmCustomerHandoff decides on the
\* payload it reads under the row lock).
HandoffCleansOnce == \A o \in Orders : handoffCleans[o] <= 1 + marks[o]

\* cartCleanupCompleted is never claimed for an order whose items nobody took
\* out of the cart (by a hand-off or by a sale), whatever the interleaving of
\* sales, hand-offs, failed writes and crashes.
CleanedMeansTaken ==
  \A o \in Orders : order[o].cleaned => handoffCleans[o] > 0 \/ saleCleans[o] > 0

\* payload.customerOrderId never points to a customer order that does not
\* exist, although sales write the payload back from what they read earlier.
HistoryNotDangling == \A o \in Orders : order[o].history => history[o] # "none"

\* The request c, which works on order o, takes this step.
Acts(c, o) ==
  /\ call[c].pc # "idle" /\ call[c].o = o /\ call'[c] # call[c]
  /\ \A d \in Calls \ {c} : call'[d] = call[d]

\* The request that takes a completed order out of that status read the order before
\* the sale completed it, or is a late one that finds the code timed out and marks
\* the order expired (a late pull has no exemption for completed orders); a
\* hand-off or a pull that finds the order completed leaves it so.
ReopenedOnlyByStaleCall ==
  [][\A o \in Orders :
       order[o].status = "completed" /\ order'[o].status # "completed" =>
         \E c \in Calls : Acts(c, o) /\
           \/ call[c].row.status # "completed"
           \/ call[c].pc = "expire" /\ timedOut[o] /\ order'[o].status = "expired"]_vars

\* A sale's cartCleanupPending mark does not stay: without write failures and
\* restarts the clean-up ends and the mark is removed.
PendingResolved == \A o \in Orders : order[o].pending ~> ~order[o].pending

\* "completed mobile order leaves unrelated and later-added cart items intact"
\* (backend/test/mobileOrderCartLifecycle.test.js): on behalf of an order no
\* more leaves the cart than was ordered.
LaterItemsIntact ==
  \A o \in Orders, p \in Products : taken[o][p] <= items[o][p]
=============================================================================
