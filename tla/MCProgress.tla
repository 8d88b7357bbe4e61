---------------------------- MODULE MCProgress ----------------------------
(***************************************************************************)
(* What must eventually happen, on small instances of five components:     *)
(* mobile orders, access grants, shelf labels, temporary prices and daily  *)
(* closings.  "part" says which one runs, the variables of the others keep *)
(* their values: the components do not meet here.                          *)
(***************************************************************************)
EXTENDS Naturals

\* Orders, grants, events of the price log and days are numbered from 1.

CONSTANTS Calls, None,
          Orders, Products,                        \* of MobileOrder
          Users, Requests, Grants,                 \* of AccessGrants
          LabelCalls, Labelled, NoHash, MaxEvents, \* of EslLabels
          Prices, MaxLog,                          \* of TemporaryPrices
          Window, MaxDay                           \* of DailyClosing

VARIABLES part,
          order, items, timedOut, locked, cart, history, call, edits, served, failures,
          handoffCleans, saleCleans, marks, taken,
          a_request, a_grant, a_enabled, a_clock, a_call, a_served, a_toggles, a_stops,
          a_granted, a_lost, a_raced,
          e_row, e_price, e_call, e_bridge, e_label, e_events, e_asks, e_drawn, e_stale, e_local,
          v_price, v_log, v_call, v_running, v_fails, v_from, v_mixed, v_revived,
          d_today, d_open, d_sold, d_closing, d_due, d_running, d_call, d_events, d_fails,
          d_raced, d_looked, d_mishap, d_lost
o_vars == <<order, items, timedOut, locked, cart, history, call, edits, served, failures,
            handoffCleans, saleCleans, marks, taken>>
a_vars == <<a_request, a_grant, a_enabled, a_clock, a_call, a_served, a_toggles, a_stops,
            a_granted, a_lost, a_raced>>
e_vars == <<e_row, e_price, e_call, e_bridge, e_label, e_events, e_asks, e_drawn, e_stale, e_local>>
v_vars == <<v_price, v_log, v_call, v_running, v_fails, v_from, v_mixed, v_revived>>
d_vars == <<d_today, d_open, d_sold, d_closing, d_due, d_running, d_call, d_events, d_fails,
            d_raced, d_looked, d_mishap, d_lost>>
allVars == <<part, o_vars, a_vars, e_vars, v_vars, d_vars>>

\* No write failures and no restart: a process that is gone resumes no clean-up.
O == INSTANCE MobileOrder WITH
       MaxQty <- 1, MaxEdits <- 0, MaxCalls <- 4, MaxFailures <- 0, CanCrash <- FALSE
\* Enabled users only: the scan of a disabled user's grant fails for ever.
A == INSTANCE AccessGrants WITH
       MaxTime <- 2, MaxDuration <- 1, MaxCalls <- 3, MaxToggles <- 0, MaxStops <- 1,
       request <- a_request, grant <- a_grant, enabled <- a_enabled, clock <- a_clock,
       call <- a_call, served <- a_served, toggles <- a_toggles, stops <- a_stops,
       granted <- a_granted, lost <- a_lost, raced <- a_raced
\* Handlers of the label one at a time.
E == INSTANCE EslLabels WITH
       Calls <- LabelCalls, Products <- Labelled, LocalStaff <- TRUE, MaxStale <- 0,
       row <- e_row, price <- e_price, call <- e_call,
       bridge <- e_bridge, label <- e_label, events <- e_events, asks <- e_asks,
       drawn <- e_drawn, stale <- e_stale, local <- e_local
V == INSTANCE TemporaryPrices WITH
       MaxFails <- 1, price <- v_price, log <- v_log, call <- v_call, running <- v_running,
       fails <- v_fails, from <- v_from, mixed <- v_mixed, revived <- v_revived
D == INSTANCE DailyClosing WITH
       MaxSales <- 0, MaxEvents <- 1, MaxFails <- 1,
       today <- d_today, open <- d_open, sold <- d_sold, closing <- d_closing, due <- d_due,
       running <- d_running, call <- d_call, events <- d_events, fails <- d_fails,
       raced <- d_raced, looked <- d_looked, mishap <- d_mishap, lost <- d_lost

Init ==
  /\ part \in {"orders", "grants", "label", "price", "closing"}
  /\ \/ part = "orders" /\ O!Init
     \/ part # "orders" /\ order = 0 /\ items = 0 /\ timedOut = 0 /\ locked = 0 /\ cart = 0
          /\ history = 0 /\ call = 0 /\ edits = 0 /\ served = 0 /\ failures = 0
          /\ handoffCleans = 0 /\ saleCleans = 0 /\ marks = 0 /\ taken = 0
  /\ \/ part = "grants" /\ A!Init
     \/ part # "grants" /\ a_request = 0 /\ a_grant = 0 /\ a_enabled = 0 /\ a_clock = 0
          /\ a_call = 0 /\ a_served = 0 /\ a_toggles = 0 /\ a_stops = 0
          /\ a_granted = 0 /\ a_lost = 0 /\ a_raced = 0
  /\ \/ part = "label" /\ E!Init
     \/ part # "label" /\ e_row = 0 /\ e_price = 0 /\ e_call = 0 /\ e_bridge = 0 /\ e_label = 0
          /\ e_events = 0 /\ e_asks = 0 /\ e_drawn = 0 /\ e_stale = 0 /\ e_local = 0
  /\ \/ part = "price" /\ V!Init
     \/ part # "price" /\ v_price = 0 /\ v_log = 0 /\ v_call = 0 /\ v_running = 0
          /\ v_fails = 0 /\ v_from = 0 /\ v_mixed = 0 /\ v_revived = 0
  /\ \/ part = "closing" /\ D!Init
     \/ part # "closing" /\ d_today = 0 /\ d_open = 0 /\ d_sold = 0
          /\ d_closing = 0 /\ d_due = 0 /\ d_running = 0 /\ d_call = 0 /\ d_events = 0
          /\ d_fails = 0 /\ d_raced = 0 /\ d_looked = 0 /\ d_mishap = 0 /\ d_lost = 0
Only(name) ==
  /\ part = name /\ UNCHANGED part
  /\ name = "orders" \/ UNCHANGED o_vars
  /\ name = "grants" \/ UNCHANGED a_vars
  /\ name = "label" \/ UNCHANGED e_vars
  /\ name = "price" \/ UNCHANGED v_vars
  /\ name = "closing" \/ UNCHANGED d_vars
Next ==
  \/ Only("orders") /\ O!Next
  \/ Only("grants") /\ A!Next
  \/ Only("label") /\ E!Next
  \/ Only("price") /\ V!Next
  \/ Only("closing") /\ D!Next

\* Fairness as in the FairSpec of each component: as only one runs, a condition of
\* several is one of each.
Handle(c) ==
  \/ Only("orders") /\ O!GoOn(c)
  \/ Only("grants") /\ A!Handle(c)
  \/ Only("label") /\ c \in LabelCalls /\ E!Handle(c)
  \/ Only("price") /\ V!Finish(c)
  \/ Only("closing") /\ D!Handle(c)
Timer ==
  \/ Only("grants") /\ \E c \in Calls : A!ScanBegin(c)
  \/ Only("label") /\ E!ReadAssignment
  \/ Only("closing") /\ D!Fires
Ask ==
  \/ Only("label") /\ \E c \in LabelCalls : E!BridgeAsks(c)
  \/ Only("price") /\ \E c \in Calls : V!ReadExpire(c)
FairSpec ==
  /\ Init /\ [][Next]_allVars
  /\ \A c \in Calls : WF_allVars(Handle(c))
  /\ WF_allVars(Timer) /\ WF_allVars(Only("label") /\ E!Refused)
  /\ SF_allVars(Ask) /\ SF_allVars(Only("label") /\ \E c \in LabelCalls : E!LabelAsks(c))

-----------------------------------------------------------------------------
\* What waits for a job or a retry: the clean-up of the customer's cart after a sale,
\* a grant that is over, a temporary price whose time is over, a day without closing.
Waits(i) ==
  \/ part = "orders" /\ i \in Orders /\ order[i].pending
  \/ part = "grants" /\ i \in Grants /\ A!Overdue(i)
  \/ part = "price" /\ V!Overdue(i)
  \/ part = "closing" /\ i < MaxDay /\ D!Missing(i)
\* None of it waits for ever.
NothingWaits == \A i \in 1..3 : Waits(i) ~> ~Waits(i)

\* The shelf ends up with the assignment and the price of production.
LabelFollows == <>[](part = "label" => E!Followed)
=============================================================================
