----------------------------- MODULE StockEntry -----------------------------
(***************************************************************************)
(* What the goods receipt of a purchase order promises, whatever requests, *)
(* scheduler ticks, errors and restarts carry it out: the receipt happens  *)
(* once, every line is in stock before the entry is declared complete, and *)
(* nothing is stocked after that or for an order closed before receipt.    *)
(*                                                                         *)
(*   open -----> received -----> entered        closed  = ended unreceived *)
(*    | ^  \_____________________/^             returned = ended received  *)
(*    v |           |                                                      *)
(*   closed      returned                                                  *)
(***************************************************************************)
CONSTANTS Orders, Lines
VARIABLES phase, stocked

Phases == {"open", "received", "entered", "closed", "returned"}

SEInit ==
  /\ phase = [o \in Orders |-> "open"]
  /\ stocked = [o \in Orders |-> {}]

\* A stock movement is recorded for a line. (An order sent back after receipt
\* can still be stocked: the code books the lines before it asks the contract.)
Stock(o, l) ==
  /\ phase[o] \in {"open", "received", "returned"}
  /\ l \notin stocked[o]
  /\ stocked' = [stocked EXCEPT ![o] = @ \cup {l}]
  /\ UNCHANGED phase

Move(o, from, to) ==
  /\ phase[o] \in from
  /\ phase' = [phase EXCEPT ![o] = to]
  /\ UNCHANGED stocked

Receive(o) == Move(o, {"open"}, "received")
Enter(o) == stocked[o] = Lines /\ Move(o, {"open", "received"}, "entered")
Close(o) == Move(o, {"open"}, "closed")
Return(o) == Move(o, {"received"}, "returned")

\* Whoever read the order before it was cancelled, the scheduler above all,
\* may write back what it read.
Revive(o) == Move(o, {"closed"}, "open")

SENext ==
  \E o \in Orders :
    \/ Receive(o) \/ Enter(o) \/ Close(o) \/ Return(o) \/ Revive(o)
    \/ \E l \in Lines : Stock(o, l)

SESpec == SEInit /\ [][SENext]_<<phase, stocked>>
=============================================================================
