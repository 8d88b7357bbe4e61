------------------------ MODULE PurchaseSuggestions ------------------------
(***************************************************************************)
(* Purchase suggestions of one product and the orders made from them:      *)
(* generating, editing, rejecting and approving suggestions, and ordering  *)
(* from the order screen with a suggestion attached.  Rows are written     *)
(* whole from an earlier reading; only approving reads again in its        *)
(* transaction (read committed).  Which status a generated suggestion      *)
(* gets depends on sales and stock and is left open.                       *)
(* Source: backend/src/services/procurementService.js (PostgreSQL store),  *)
(*         backend/src/domain/purchaseSuggestionPolicy.js.                 *)
(***************************************************************************)
EXTENDS Integers, Sequences

CONSTANTS Suggestions,  \* rows that may be created
          Calls, None,
          MaxCalls,     \* bound: requests
          MaxFails      \* bound: requests that fail between two steps

-----------------------------------------------------------------------------
\* decidePurchaseSuggestion
Decisions == {"pending", "skipped", "manual_evaluation"}
ActiveStatuses == {"pending", "manual_evaluation", "skipped"}
Closed == {"converted", "rejected", "expired"}
\* status and linkedOrderId (an order number, 0: none)
Row == [status : {"absent"} \cup ActiveStatuses \cup Closed, order : Nat]
NoRow == [status |-> "absent", order |-> 0]

\* A request: the rows it read, the row it works on, the order number it drew, the
\* duplicates it has still to expire; rows that changed since it read them.
Call == [pc : {"idle", "generate", "expire", "update", "reject", "approve", "number",
               "create", "compose"},
         on : Suggestions \cup {None}, read : [Suggestions -> Row], number : Nat,
         left : SUBSET Suggestions, old : SUBSET Suggestions]
Idle == [pc |-> "idle", on |-> None, read |-> [s \in Suggestions |-> NoRow], number |-> 0,
         left |-> {}, old |-> {}]

VARIABLES
  row,
  orders,   \* the orders by number: the suggestion each was made from
  call,
  count,    \* bound: requests so far
  fails,    \* bound: failures so far
  stale,    \* history: rows written from an outdated reading
  crowded   \* history: two generations ran at once

vars == <<row, orders, call, count, fails, stale, crowded>>

\* A product for which nothing was suggested, or with a suggestion to decide on.
Init ==
  /\ row \in {[s \in Suggestions |-> NoRow]} \cup
             {[[s \in Suggestions |-> NoRow] EXCEPT ![t].status = "pending"] : t \in Suggestions}
  /\ orders = <<>> /\ call = [c \in Calls |-> Idle]
  /\ count = 0 /\ fails = 0 /\ stale = {} /\ crowded = FALSE

Begin(c, pc, s) ==
  /\ call[c].pc = "idle" /\ count < MaxCalls
  /\ count' = count + 1
  /\ call' = [call EXCEPT ![c] = [Idle EXCEPT !.pc = pc, !.on = s, !.read = row]]
  /\ UNCHANGED <<row, orders, fails, stale>>
\* Row s is written; c goes on as k, its reading outdated or not.
Write(c, s, r, k) ==
  /\ row' = [row EXCEPT ![s] = r]
  /\ call' = [d \in Calls |->
       IF d = c THEN k
       ELSE IF call[d].pc = "idle" \/ r = row[s] THEN call[d]
       ELSE [call[d] EXCEPT !.old = @ \cup {s}]]
  /\ stale' = IF s \in call[c].old THEN stale \cup {s} ELSE stale

-----------------------------------------------------------------------------
\* generateSuggestions reads all suggestions at its start ...
Generate(c) ==
  /\ Begin(c, "generate", None)
  /\ crowded' = (crowded \/ \E d \in Calls : call[d].pc \in {"generate", "expire"})
\* ... and persistGeneratedSuggestion writes over one of the active ones it read or
\* creates one,
CurrentPending(read) == {s \in Suggestions : read[s].status = "pending"}
Current(read) == {s \in Suggestions : read[s].status \in ActiveStatuses}
Persist(c) ==
  LET k == call[c]
      duplicates(s) == Current(k.read) \ {s}
      next(s) == IF duplicates(s) = {} THEN Idle
                 ELSE [k EXCEPT !.pc = "expire", !.left = duplicates(s)]
  IN
  /\ k.pc = "generate"
  /\ \E status \in Decisions :
       \/ \E s \in Current(k.read) : Write(c, s, [k.read[s] EXCEPT !.status = status], next(s))
       \/ /\ Current(k.read) = {}
          /\ \E s \in Suggestions :
               /\ row[s].status = "absent"
               /\ Write(c, s, [status |-> status, order |-> 0], Idle)
  /\ UNCHANGED <<orders, count, fails, crowded>>
\* then expires the others, one by one.
AsExpired(r) == [r EXCEPT !.status = "expired"]
ExpireDuplicate(c) ==
  LET k == call[c] IN
  /\ k.pc = "expire"
  /\ \E s \in k.left :
       Write(c, s, AsExpired(k.read[s]),
             IF k.left = {s} THEN Idle ELSE [k EXCEPT !.left = @ \ {s}])
  /\ UNCHANGED <<orders, count, fails, crowded>>

-----------------------------------------------------------------------------
MayDecideRejected(s) == row[s].status \in {"pending", "rejected"}
MayDecide(s) == row[s].status = "pending"
\* updateSuggestion: supplier, quantity and price; the row is written whole.
Update(c, s) == MayDecide(s) /\ Begin(c, "update", s) /\ UNCHANGED crowded
WriteUpdate(c) ==
  LET k == call[c] IN
  /\ k.pc = "update"
  /\ Write(c, k.on, k.read[k.on], Idle)
  /\ UNCHANGED <<orders, count, fails, crowded>>

\* rejectSuggestion
Reject(c, s) == MayDecide(s) /\ Begin(c, "reject", s) /\ UNCHANGED crowded
WriteReject(c) ==
  LET k == call[c] IN
  /\ k.pc = "reject"
  /\ Write(c, k.on, [k.read[k.on] EXCEPT !.status = "rejected"], Idle)
  /\ UNCHANGED <<orders, count, fails, crowded>>

-----------------------------------------------------------------------------
\* approveSuggestionPostgres: checks, reads the row again in the transaction,
Approve(c, s) == MayDecide(s) /\ Begin(c, "approve", s) /\ UNCHANGED crowded
Recheck(c) ==
  LET k == call[c] IN
  /\ k.pc = "approve"
  /\ call' = [call EXCEPT ![c] =
       IF MayDecide(k.on) THEN [k EXCEPT !.pc = "number", !.read = row, !.old = {}] ELSE Idle]
  /\ UNCHANGED <<row, orders, count, fails, stale, crowded>>
\* createOrderFromSupplierProductPostgres with a suggestion: checks it only once.
Compose(c, s) == MayDecide(s) /\ Begin(c, "number", s) /\ UNCHANGED crowded

\* buildOrderNumber: one more than the highest number there is.
DrawNumber(c) ==
  /\ call[c].pc = "number"
  /\ call' = [call EXCEPT ![c].pc = "create", ![c].number = Len(orders) + 1]
  /\ UNCHANGED <<row, orders, count, fails, stale, crowded>>
\* Order, item and suggestion are committed together. A number that is taken by
\* then violates the unique index and nothing is stored.
ConvertedLater(r, n) == [r EXCEPT !.order = n]
Converted(r, n) == [status |-> "converted", order |-> n]
CreateOrder(c) ==
  LET k == call[c] IN
  /\ k.pc = "create"
  /\ \/ /\ k.number = Len(orders) + 1
        /\ orders' = Append(orders, k.on)
        /\ Write(c, k.on, Converted(k.read[k.on], k.number), Idle)
     \/ /\ k.number <= Len(orders)
        /\ call' = [call EXCEPT ![c] = Idle]
        /\ UNCHANGED <<row, orders, stale>>
  /\ UNCHANGED <<count, fails, crowded>>

\* An error, or a restart as one request sees it.
Fail(c) ==
  /\ call[c].pc # "idle" /\ fails < MaxFails
  /\ fails' = fails + 1
  /\ call' = [call EXCEPT ![c] = Idle]
  /\ UNCHANGED <<row, orders, count, stale, crowded>>

Next ==
  \E c \in Calls :
    \/ Generate(c) \/ Persist(c) \/ ExpireDuplicate(c)
    \/ \E s \in Suggestions : Update(c, s) \/ Reject(c, s) \/ Approve(c, s) \/ Compose(c, s)
    \/ WriteUpdate(c) \/ WriteReject(c)
    \/ Recheck(c) \/ DrawNumber(c) \/ CreateOrder(c) \/ Fail(c)

Spec == Init /\ [][Next]_vars

-----------------------------------------------------------------------------
\* The types of the rows, the orders and the requests.
TypeOK ==
  /\ row \in [Suggestions -> Row] /\ orders \in Seq(Suggestions)
  /\ call \in [Calls -> Call] /\ count \in Nat /\ fails \in Nat
  /\ stale \subseteq Suggestions /\ crowded \in BOOLEAN

OrdersOf(s) == {n \in DOMAIN orders : orders[n] = s}
\* A suggestion leads to one order at most, which it names, unless its row was
\* written from an outdated reading.
OrderedOnceUnlessRaced ==
  \A s \in Suggestions \ stale :
    OrdersOf(s) = IF row[s].status = "converted" THEN {row[s].order} ELSE {}

\* At most one suggestion of the product is active, unless two generations
\* overlapped or a row was written from an outdated reading.
OneActiveUnlessRaced ==
  ~crowded /\ stale = {} =>
    \A s, t \in Suggestions : {row[s].status, row[t].status} \subseteq ActiveStatuses => s = t

\* What is decided stays decided, unless the row is written from an outdated reading.
DecidedStays ==
  \A s \in Suggestions :
    row[s].status \in Closed /\ s \notin stale' => row'[s] = row[s]
DecidedStaysUnlessRaced == [][DecidedStays]_vars
=============================================================================
