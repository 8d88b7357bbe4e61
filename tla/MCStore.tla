------------------------------ MODULE MCStore ------------------------------
(***************************************************************************)
(* Small instances of four components of a store: documents of two lines   *)
(* at the tills (PosStock), one shelf label (EslLabels), one price         *)
(* (TemporaryPrices) and the closings of its days (DailyClosing).  "part"  *)
(* says which one runs, the variables of the others keep their values: the *)
(* components do not meet here.  The price is taken from the module of its *)
(* proofs, so that Store_proofs can cite them.                             *)
(***************************************************************************)
EXTENDS PosStock, TLC

CONSTANTS Labelled, NoHash, LocalStaff, MaxEvents, MaxStale,  \* of EslLabels
          Prices, MaxLog, MaxFails,                           \* of TemporaryPrices
          Window, MaxDay, MaxSales                            \* of DailyClosing

ASSUME StoreAssumption ==
  /\ None \notin Labelled \cup Calls /\ LocalStaff \in BOOLEAN
  /\ MaxEvents \in Nat /\ MaxStale \in Nat
  /\ Prices \subseteq Nat /\ Prices # {} /\ MaxLog \in Nat /\ MaxFails \in Nat
  /\ Window \in Nat \ {0} /\ MaxDay \in Nat \ {0} /\ MaxSales \in Nat

VARIABLES part,
          e_row, e_price, e_call, e_bridge, e_label, e_events, e_asks, e_drawn, e_stale, e_local,
          v_price, v_log, v_call, v_running, v_fails, v_from, v_mixed, v_revived,
          d_today, d_open, d_sold, d_closing, d_due, d_running, d_call, d_events, d_fails,
          d_raced, d_looked, d_mishap, d_lost
e_vars == <<e_row, e_price, e_call, e_bridge, e_label, e_events, e_asks, e_drawn, e_stale, e_local>>
v_vars == <<v_price, v_log, v_call, v_running, v_fails, v_from, v_mixed, v_revived>>
d_vars == <<d_today, d_open, d_sold, d_closing, d_due, d_running, d_call, d_events, d_fails,
            d_raced, d_looked, d_mishap, d_lost>>
allVars == <<part, vars, e_vars, v_vars, d_vars>>

E == INSTANCE EslLabels WITH
       Products <- Labelled, row <- e_row, price <- e_price, call <- e_call,
       bridge <- e_bridge, label <- e_label, events <- e_events, asks <- e_asks,
       drawn <- e_drawn, stale <- e_stale, local <- e_local
V == INSTANCE TemporaryPrices_proofs WITH
       price <- v_price, log <- v_log, call <- v_call, running <- v_running,
       fails <- v_fails, from <- v_from, mixed <- v_mixed, revived <- v_revived
D == INSTANCE DailyClosing WITH
       today <- d_today, open <- d_open, sold <- d_sold, closing <- d_closing, due <- d_due,
       running <- d_running, call <- d_call, events <- d_events, fails <- d_fails,
       raced <- d_raced, looked <- d_looked, mishap <- d_mishap, lost <- d_lost

\* NoHash stands for the hash that a label does not have yet.
ASSUME LabelAssumption == NoHash \notin E!Hash

InitParts ==
  /\ part \in {"till", "label", "price", "closing"}
  /\ Init /\ (part # "till" => stock = [p \in Products |-> [depot |-> 0, shelf |-> 0]])
  /\ \/ part = "label" /\ E!Init
     \/ part # "label" /\ e_row = 0 /\ e_price = 0 /\ e_call = 0 /\ e_bridge = 0 /\ e_label = 0
          /\ e_events = 0 /\ e_asks = 0 /\ e_drawn = 0 /\ e_stale = 0 /\ e_local = 0
  /\ \/ part = "price" /\ V!Init
     \/ part # "price" /\ v_price = 0 /\ v_log = 0 /\ v_call = 0 /\ v_running = 0
          /\ v_fails = 0 /\ v_from = 0 /\ v_mixed = 0 /\ v_revived = 0
  /\ \/ part = "closing" /\ D!Init
     \/ part # "closing" /\ d_today = 0 /\ d_open = 0 /\ d_sold = 0 /\ d_closing = 0
          /\ d_due = 0 /\ d_running = 0 /\ d_call = 0 /\ d_events = 0 /\ d_fails = 0
          /\ d_raced = 0 /\ d_looked = 0 /\ d_mishap = 0 /\ d_lost = 0
NextParts ==
  /\ UNCHANGED part
  /\ \/ part = "till" /\ Next /\ UNCHANGED <<e_vars, v_vars, d_vars>>
     \/ part = "label" /\ E!Next /\ UNCHANGED <<vars, v_vars, d_vars>>
     \/ part = "price" /\ V!Next /\ UNCHANGED <<vars, e_vars, d_vars>>
     \/ part = "closing" /\ D!Next /\ UNCHANGED <<vars, e_vars, v_vars>>
SpecParts == InitParts /\ [][NextParts]_allVars

Symmetry == Permutations(Calls) \cup Permutations(Products) \cup Permutations(Labelled)

-----------------------------------------------------------------------------
\* The types of the till's world, of the label's, of the price, its log and its handlers,
\* and of the closings.
StoreTypes ==
  /\ TypeOK
  /\ part = "label" => E!TypeOK
  /\ part = "price" => V!TypeOK
  /\ part = "closing" => D!TypeOK

\* A label that the list of the store shows as up to date has drawn its assignment.
ConfirmedMeansDrawn == part = "label" => E!ConfirmedMeansDrawn

\* What the bridge takes for done is what the store answers.
KnownMeansInstalledUnlessRaced == part = "label" => E!KnownMeansInstalledUnlessRaced

\* Heartbeats, polls and confirmations, which write the whole row, do not change
\* the assignment.
AssignmentChangedOnPurpose == [][part = "label" => E!ChangedOnPurpose]_allVars

\* Each price event starts where the last one ended, and the last one tells the price.
PriceFollowsLog == part = "price" => V!PriceFollowsLog

\* A temporary price in force has an action that will take it back.
TemporaryPriceEnds == part = "price" => V!TemporaryPriceEnds

\* A temporary price that has ended does not end again some other way.
EndsOnce == [][part = "price" => V!StaysEnded]_allVars

\* Closings of a day never lose sales, and runs take in late ones.
ClosingsOrderly == [][part = "closing" => D!OrderlyStep]_allVars
=============================================================================
