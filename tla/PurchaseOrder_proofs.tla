------------------------ MODULE PurchaseOrder_proofs ------------------------
(***************************************************************************)
(* Proofs about PurchaseOrder, for any set of orders, lines, requests and  *)
(* ticks and any bounds: the types, that a line is added to the stock once *)
(* unless an attempt broke off, that an order whose entry is complete has  *)
(* its lines in stock, and that the orders implement StockEntry.           *)
(***************************************************************************)
EXTENDS PurchaseOrder, FiniteSetTheorems, TLAPS

-----------------------------------------------------------------------------
(* The orders that exist.                                                  *)

\* The scheduler never stores "delivered": it goes on to the goods receipt.
Stretch == {"approved", "supplier_notified", "preparing", "ready_to_ship", "in_transit"}
Closed == {"cancelled", "archived"}

Unreceived(r) ==
  /\ ~r.received /\ ~r.booked
  /\ r.status \in Stretch \cup Closed
       \cup {"draft", "submitted_for_approval", "goods_receipt_pending"}

\* The combinations of status and flags that requests and ticks store.
Shape(r) ==
  \/ Unreceived(r)
  \/ r.received /\ ~r.booked /\ r.status \in {"stock_entry_pending"} \cup Closed
  \/ r.received /\ r.booked /\ r.status \in {"completed", "archived"}

\* What a request can make of an order that a tick may still write over.
Loosable(r) == Unreceived(r) /\ r.status \in Stretch \cup Closed

\* The statuses that the contract lets follow an order that has a shape.
LEMMA ContractOf ==
  ASSUME NEW r \in Row, Shape(r), NEW t \in Statuses, CanTransition(r.status, t), t # r.status
  PROVE  \/ t = "cancelled" /\ r.status \in Stretch \cup
              {"draft", "submitted_for_approval", "goods_receipt_pending", "stock_entry_pending"}
         \/ r.status = "draft" /\ t = "submitted_for_approval"
         \/ r.status = "submitted_for_approval" /\ t = "approved"
         \/ r.status \in Stretch /\ t \in Automatic \ {"approved"}
         \/ r.status = "goods_receipt_pending" /\ t = "goods_receipt_completed"
         \/ r.status = "stock_entry_pending" /\ t = "completed"
         \/ r.status \in {"completed", "cancelled"} /\ t = "archived"
<1>1. <<r.status, t>> \in Contract  BY DEF CanTransition
<1>2. CASE t = "cancelled" /\ r.status \in (Automatic \ {"delivered"}) \cup
          {"draft", "submitted_for_approval", "goods_receipt_pending", "stock_entry_pending"}
  BY <1>2 DEF Automatic, Stretch
<1>3. CASE ~(t = "cancelled" /\ r.status \in (Automatic \ {"delivered"}) \cup
          {"draft", "submitted_for_approval", "goods_receipt_pending", "stock_entry_pending"})
  BY <1>1, <1>3 DEF Contract, Shape, Unreceived, Stretch, Closed, Automatic
<1>4. QED  BY <1>2, <1>3

\* A transition of a row gives a row.
LEMMA TransitionType ==
  ASSUME NEW r \in Row, NEW t \in Statuses  PROVE Transition(r, t) \in Row
<1> DEFINE received == r.received \/ t \in {"goods_receipt_completed",
                                           "stock_entry_pending", "completed"}
           booked   == t = "completed" \/ (r.booked /\ t # "stock_entry_pending")
           mode     == IF t = "stock_entry_pending" THEN "manual" ELSE r.mode
<1>1. received \in BOOLEAN /\ booked \in BOOLEAN  OBVIOUS
<1>2. mode \in {"none", "auto", "manual"}  BY DEF Row
<1>3. Transition(r, t) = IF r.status = t THEN r
        ELSE [status |-> t, received |-> received, booked |-> booked, mode |-> mode]
  BY DEF Transition
<1> HIDE DEF received, booked, mode
<1>4. QED  BY <1>1, <1>2, <1>3 DEF Row

\* A request of the API: automatic statuses other than "approved" are refused.
LEMMA RequestFacts ==
  ASSUME NEW rq \in Requests
  PROVE  /\ rq.want \in Statuses /\ rq.manual \in BOOLEAN /\ rq.archive \in BOOLEAN
         /\ rq.want \in Automatic => rq.want = "approved"
         /\ rq.manual => rq.want = "goods_receipt_completed"
<1>1. CASE rq \in [want : Statuses \ (Automatic \ {"approved"}),
                  manual : {FALSE}, archive : {TRUE}]
  <2>1. rq.want \in Statuses /\ rq.want \notin Automatic \ {"approved"}  BY <1>1
  <2>2. rq.manual = FALSE /\ rq.archive = TRUE  BY <1>1
  <2>3. rq.manual \in BOOLEAN /\ rq.archive \in BOOLEAN  BY <2>2
  <2>4. ~rq.manual  BY <2>2
  <2>5. rq.want \in Automatic => rq.want = "approved"  BY <2>1
  <2>6. QED  BY <2>1, <2>3, <2>4, <2>5
<1>2. CASE \/ rq = [want |-> "goods_receipt_completed", manual |-> TRUE, archive |-> TRUE]
           \/ rq = [want |-> "completed", manual |-> FALSE, archive |-> FALSE]
  <2>1. rq.want \in {"goods_receipt_completed", "completed"}  BY <1>2
  <2>2. rq.manual \in BOOLEAN /\ rq.archive \in BOOLEAN
    <3>1. \/ rq.manual = TRUE /\ rq.archive = TRUE
          \/ rq.manual = FALSE /\ rq.archive = FALSE
      BY <1>2
    <3>2. QED  BY <3>1
  <2>3. rq.manual => rq.want = "goods_receipt_completed"
    <3>1. CASE rq = [want |-> "completed", manual |-> FALSE, archive |-> FALSE]
      <4>1. rq.manual = FALSE  BY <3>1
      <4>2. QED  BY <4>1
    <3>2. QED  BY <3>1, <1>2
  <2>4. QED  BY <2>1, <2>2, <2>3 DEF Statuses, Automatic
<1>3. QED  BY <1>1, <1>2 DEF Requests

\* A request that books finds the order before its receipt, in the manual
\* entry, or cancelled in it; in the last case it will be refused.
LEMMA BooksShape ==
  ASSUME NEW r \in Row, Shape(r), NEW rq \in Requests, ~RefusedEarly(r, rq), Books(r, rq)
  PROVE  /\ ~r.booked
         /\ r.status \in {"goods_receipt_pending", "stock_entry_pending", "cancelled"}
         /\ r.status = "cancelled" => RefusedLate(r, rq) /\ r.received
<1>1. CASE rq.want = "goods_receipt_completed"
  <2>1. ~r.received /\ CanTransition(r.status, "goods_receipt_completed")
        /\ r.status # "goods_receipt_completed"
    BY <1>1 DEF RefusedEarly, ReceiptRefused
  <2>2. r.status = "goods_receipt_pending"
    BY <2>1, ContractOf DEF Statuses, Automatic
  <2>3. QED  BY <2>1, <2>2 DEF Shape, Unreceived
<1>2. CASE rq.want # "goods_receipt_completed"
  <2>1. rq.want = "completed" /\ ManualPending(r) /\ ~r.booked
    BY <1>2 DEF Books
  <2>2. r.received /\ r.status \in {"stock_entry_pending", "cancelled"}
    BY <2>1 DEF ManualPending, Shape, Unreceived, Stretch, Closed
  <2>3. r.status = "cancelled" => ~CanTransition(r.status, "completed")
    BY <2>1, <2>2, ContractOf DEF Statuses, Automatic, Stretch
  <2>4. QED  BY <2>1, <2>2, <2>3 DEF RefusedLate
<1>3. QED  BY <1>1, <1>2

\* What a transition does to the status and the flags.
LEMMA TransitionFields ==
  ASSUME NEW r \in Row, NEW t \in Statuses
  PROVE  /\ Transition(r, t) \in Row
         /\ Transition(r, t).status = t
         /\ r.status = t => Transition(r, t) = r
         /\ t \notin {"goods_receipt_completed", "stock_entry_pending", "completed"} =>
              /\ Transition(r, t).received = r.received
              /\ Transition(r, t).booked = r.booked
         /\ t = "stock_entry_pending" /\ r.status # t =>
              /\ Transition(r, t).received = TRUE
              /\ Transition(r, t).booked = FALSE
         /\ t = "goods_receipt_completed" /\ r.status # t =>
              /\ Transition(r, t).received = TRUE
              /\ Transition(r, t).booked = r.booked
         /\ t = "completed" /\ r.status # t =>
              /\ Transition(r, t).received = TRUE
              /\ Transition(r, t).booked = TRUE
<1>1. Transition(r, t) \in Row  BY TransitionType
<1>2. CASE r.status = t
  BY <1>1, <1>2 DEF Transition
<1>3. CASE r.status # t
  <2>1. /\ Transition(r, t).status = t
        /\ Transition(r, t).received = (r.received \/ t \in {"goods_receipt_completed",
                                          "stock_entry_pending", "completed"})
        /\ Transition(r, t).booked = (t = "completed" \/ (r.booked /\ t # "stock_entry_pending"))
    BY <1>3 DEF Transition
  <2>2. r.received \in BOOLEAN /\ r.booked \in BOOLEAN  BY DEF Row
  <2>3. QED  BY <1>1, <1>3, <2>1, <2>2
<1>4. QED  BY <1>2, <1>3

\* The phase of an order by its status and flags.
LEMMA PhaseFacts ==
  ASSUME NEW r \in Row
  PROVE  /\ PhaseOf(r) = "entered" <=> r.booked
         /\ PhaseOf(r) = "closed" <=> ~r.booked /\ ~r.received /\ r.status \in Closed
         /\ PhaseOf(r) = "returned" <=> ~r.booked /\ r.received /\ r.status \in Closed
         /\ PhaseOf(r) = "open" <=> ~r.booked /\ ~r.received /\ r.status \notin Closed
         /\ PhaseOf(r) = "received" <=> ~r.booked /\ r.received /\ r.status \notin Closed
<1>1. CASE r.booked
  <2>1. PhaseOf(r) = "entered"  BY <1>1 DEF PhaseOf
  <2>2. QED  BY <1>1, <2>1
<1>2. CASE ~r.booked /\ r.status \in Closed
  <2>1. PhaseOf(r) = IF r.received THEN "returned" ELSE "closed"
    BY <1>2 DEF PhaseOf, Closed
  <2>2. QED  BY <1>2, <2>1
<1>3. CASE ~r.booked /\ r.status \notin Closed
  <2>1. PhaseOf(r) = IF r.received THEN "received" ELSE "open"
    BY <1>3 DEF PhaseOf, Closed
  <2>2. QED  BY <1>3, <2>1
<1>4. QED  BY <1>1, <1>2, <1>3

\* What an accepted request stores has a shape; a booked order stays booked,
\* and an order becomes booked only by a request that books.
LEMMA StoredShape ==
  ASSUME NEW r \in Row, Shape(r), NEW rq \in Requests, ~RefusedEarly(r, rq),
         Books(r, rq) => ~RefusedLate(r, rq)
  PROVE  /\ Stored(r, rq) \in Row /\ Shape(Stored(r, rq))
         /\ Books(r, rq) => Stored(r, rq).booked
         /\ ~Books(r, rq) => Stored(r, rq).booked = r.booked
         /\ r.received => Stored(r, rq).received
         /\ Loosable(r) => ~Books(r, rq) /\ Loosable(Stored(r, rq))
         /\ PhaseOf(r) = "closed" => PhaseOf(Stored(r, rq)) = "closed"
         /\ PhaseOf(r) = "returned" => PhaseOf(Stored(r, rq)) = "returned"
         /\ PhaseOf(r) = "open" => PhaseOf(Stored(r, rq)) # "returned"
<1> DEFINE s == Stored(r, rq)
<1>0. /\ rq.want \in Statuses /\ r.status \in Statuses
      /\ r.received \in BOOLEAN /\ r.booked \in BOOLEAN
      /\ "goods_receipt_completed" \in Statuses /\ "stock_entry_pending" \in Statuses
      /\ "completed" \in Statuses /\ "archived" \in Statuses
      /\ rq.archive \in BOOLEAN
  BY RequestFacts DEF Row, Statuses
<1>p. /\ PhaseOf(r) = "closed" <=> ~r.booked /\ ~r.received /\ r.status \in Closed
      /\ PhaseOf(r) = "returned" <=> ~r.booked /\ r.received /\ r.status \in Closed
      /\ PhaseOf(r) = "open" <=> ~r.booked /\ ~r.received /\ r.status \notin Closed
  BY PhaseFacts
<1>q. s \in Row => /\ PhaseOf(s) = "closed" <=> ~s.booked /\ ~s.received /\ s.status \in Closed
                   /\ PhaseOf(s) = "returned" <=> ~s.booked /\ s.received /\ s.status \in Closed
  BY PhaseFacts
<1> HIDE DEF s
<1>1. CASE rq.want = "goods_receipt_completed"
  <2>1. ~r.received /\ CanTransition(r.status, "goods_receipt_completed")
        /\ r.status # "goods_receipt_completed"
    BY <1>1 DEF RefusedEarly, ReceiptRefused
  <2>2. r.status = "goods_receipt_pending" /\ ~r.booked
    BY <1>0, <2>1, ContractOf DEF Automatic, Shape, Unreceived
  <2>3. CASE rq.manual
    <3> DEFINE m == Transition(r, "goods_receipt_completed")
    <3>1. s = Transition(m, "stock_entry_pending")
      BY <1>1, <2>3 DEF s, Stored, ReceivedManually
    <3>2. m \in Row /\ m.status = "goods_receipt_completed"
      BY <1>0, TransitionFields
    <3> HIDE DEF m
    <3>3. s \in Row /\ s.status = "stock_entry_pending" /\ s.received = TRUE /\ s.booked = FALSE
      BY <1>0, <3>1, <3>2, TransitionFields
    <3>4. ~Books(r, rq)  BY <1>1, <2>3 DEF Books
    <3>5. ~Loosable(r)  BY <2>2 DEF Loosable, Stretch, Closed
    <3>6. Shape(s)  BY <3>3 DEF Shape
    <3>7. PhaseOf(r) \notin {"closed", "returned"}  BY <2>2, <1>p DEF Closed
    <3>8. s.booked = r.booked  BY <1>0, <2>2, <3>3
    <3>9. PhaseOf(s) # "returned"  BY <3>3, <1>q DEF Closed
    <3>10. QED  BY <3>3, <3>4, <3>5, <3>6, <3>7, <3>8, <3>9 DEF s
  <2>4. CASE ~rq.manual
    <3> DEFINE a == [status |-> "goods_receipt_completed", received |-> TRUE,
                     booked |-> TRUE, mode |-> "auto"]
               b == Transition(a, "completed")
    <3>1. s = Transition(b, "archived")
      BY <1>1, <2>4 DEF s, Stored, ReceivedAutomatically
    <3>2. a \in Row /\ a.status = "goods_receipt_completed"
      BY <1>0 DEF Row
    <3> HIDE DEF a
    <3>3. b \in Row /\ b.status = "completed" /\ b.received = TRUE /\ b.booked = TRUE
      BY <1>0, <3>2, TransitionFields, ZenonT(30)
    <3> HIDE DEF b
    <3>4. s \in Row /\ s.status = "archived" /\ s.received = TRUE /\ s.booked = TRUE
      BY <1>0, <3>1, <3>3, TransitionFields
    <3>5. Books(r, rq)  BY <1>1, <2>4 DEF Books
    <3>6. ~Loosable(r)  BY <2>2 DEF Loosable, Stretch, Closed
    <3>7. Shape(s)  BY <3>4 DEF Shape
    <3>8. PhaseOf(r) \notin {"closed", "returned"}  BY <2>2, <1>p DEF Closed
    <3>9. PhaseOf(s) # "returned"  BY <3>4, <1>q
    <3>10. QED  BY <3>4, <3>5, <3>6, <3>7, <3>8, <3>9 DEF s
  <2>5. QED  BY <2>3, <2>4
<1>2. CASE rq.want = "completed"
  <2>1. r.received /\ r.status \in {"stock_entry_pending", "completed"}
    <3>1. CASE Books(r, rq)
      <4>1. r.status \in {"stock_entry_pending", "goods_receipt_pending"}
        BY <3>1, BooksShape
      <4>2. ManualPending(r)  BY <1>2, <3>1 DEF Books
      <4>3. Unreceived(r) => ~r.received /\ r.status # "stock_entry_pending"
        BY DEF Unreceived, Stretch, Closed
      <4>4. ~Unreceived(r) => r.received /\ r.status # "goods_receipt_pending"
        BY DEF Shape, Closed
      <4>5. QED  BY <4>1, <4>2, <4>3, <4>4 DEF ManualPending
    <3>2. CASE ~Books(r, rq)
      <4>1. CanTransition(r.status, "completed")  BY <1>2, <3>2 DEF RefusedEarly
      <4>2. r.status \in {"stock_entry_pending", "completed"}
        BY <1>0, <4>1, ContractOf DEF Automatic
      <4>3. QED  BY <4>2 DEF Shape, Unreceived, Stretch, Closed
    <3>3. QED  BY <3>1, <3>2
  <2>2. Books(r, rq) <=> r.status = "stock_entry_pending"
    BY <1>2, <2>1 DEF Books, ManualPending, Shape, Unreceived, Stretch, Closed
  <2>3. r.booked <=> r.status = "completed"
    BY <2>1 DEF Shape, Unreceived, Stretch, Closed
  <2> DEFINE e == [r EXCEPT !.booked = TRUE, !.mode = "manual"]
             d == Transition(e, "completed")
  <2>4. s = IF rq.archive THEN Transition(d, "archived") ELSE d
    BY <1>2 DEF s, Stored, Finalized
  <2>5. e \in Row /\ e.status = r.status /\ e.received = r.received /\ e.booked = TRUE
    BY DEF Row
  <2> HIDE DEF e
  <2>6. d \in Row /\ d.status = "completed" /\ d.received = TRUE /\ d.booked = TRUE
    BY <1>0, <2>1, <2>5, TransitionFields
  <2> HIDE DEF d
  <2>7. s \in Row /\ s.status \in {"completed", "archived"} /\ s.received = TRUE /\ s.booked = TRUE
    BY <1>0, <2>4, <2>6, TransitionFields
  <2>8. QED  BY <2>1, <2>2, <2>3, <2>7, <1>p, <1>q DEF s, Shape, Loosable, Unreceived, Stretch, Closed
<1>3. CASE rq.want \notin {"goods_receipt_completed", "completed"}
  <2>1. ~Books(r, rq)  BY <1>3 DEF Books
  <2>2. CanTransition(r.status, rq.want)  BY <1>3, <2>1 DEF RefusedEarly
  <2>3. s = Transition(r, rq.want)  BY <1>3 DEF s, Stored
  <2>4. CASE rq.want = r.status
    <3>1. s = r  BY <1>0, <2>3, <2>4, TransitionFields
    <3>2. QED  BY <2>1, <3>1, <1>p, <1>q DEF s
  <2>5. CASE rq.want # r.status
    <3>1. \/ rq.want = "cancelled" /\ r.status \in Stretch \cup
               {"draft", "submitted_for_approval", "goods_receipt_pending", "stock_entry_pending"}
          \/ r.status = "draft" /\ rq.want = "submitted_for_approval"
          \/ r.status = "submitted_for_approval" /\ rq.want = "approved"
          \/ r.status \in {"completed", "cancelled"} /\ rq.want = "archived"
      BY <1>0, <1>3, <2>2, <2>5, ContractOf, RequestFacts
    <3>2. s \in Row /\ s.status = rq.want
          /\ s.received = r.received /\ s.booked = r.booked
      BY <1>0, <2>3, <3>1, TransitionFields
    <3>3. QED  BY <2>1, <3>1, <3>2, <1>p, <1>q DEF s, Shape, Loosable, Unreceived, Stretch, Closed
  <2>6. QED  BY <2>4, <2>5
<1>4. QED  BY <1>1, <1>2, <1>3

\* A tick leaves an unreceived order unreceived.
LEMMA ProgressShape ==
  ASSUME TypeOK, NEW o \in Orders, NEW r \in Row, Unreceived(r)
  PROVE  Progress(r, Planned(o)) \in Row /\ Unreceived(Progress(r, Planned(o)))
<1>1. due[o] \in 1..7
  BY DEF TypeOK, Timeline
<1>2. Planned(o) \in Automatic \cup {"cancelled"}
  BY <1>1 DEF Planned, Timeline, Automatic
<1> DEFINE t == IF Planned(o) = "delivered" THEN "goods_receipt_pending" ELSE Planned(o)
<1>3. t \in Stretch \cup {"cancelled", "goods_receipt_pending"}
  BY <1>2 DEF Automatic, Stretch
<1>4. Progress(r, Planned(o)) \in {r, Transition(r, t)}
  BY DEF Progress
<1> HIDE DEF t
<1>5. t \in Statuses  BY <1>3 DEF Statuses, Automatic, Stretch
<1>6. Transition(r, t) \in Row /\ Transition(r, t).status = t
      /\ Transition(r, t).received = r.received /\ Transition(r, t).booked = r.booked
  BY <1>3, <1>5, TransitionFields DEF Stretch
<1>7. QED  BY <1>3, <1>4, <1>6 DEF Unreceived, Closed

-----------------------------------------------------------------------------
(* Types and the lock.                                                     *)

Booking == {"find", "receive", "receiveLog", "check", "apply", "log"}
Inside(k) == k.pc \in Booking \cup {"store"}

\* A request that works on an order is the first in its queue.
Lock == \A c \in Calls : Inside(call[c]) => Holds(c)

\* A request goes on with the row it read, or gives up.
GoesOn(c) ==
  /\ call[c].pc \in Booking /\ queue' = queue
  /\ \/ call'[c].pc \in Booking
     \/ call'[c].pc = "store" /\ ~RefusedLate(call[c].row, call[c].rq)
  /\ call'[c].o = call[c].o /\ call'[c].row = call[c].row /\ call'[c].rq = call[c].rq
Works(c) ==
  /\ UNCHANGED <<row, roll, due, scan>>
  /\ Holds(c)
  /\ \A d \in Calls \ {c} : call'[d] = call[d]
  /\ \/ GoesOn(c)
     \/ call'[c] = Idle /\ queue' = Released(c)

\* An idle request and a tick without an order are well formed.
LEMMA IdleType == Idle \in Call /\ NoScan \in Scan
<1>1. NoRequest \in Requests
  BY DEF NoRequest, Requests, Statuses, Automatic
<1>2. (CHOOSE o \in Orders : TRUE) \in Orders
  BY PurchaseOrderAssumption
<1>3. Fresh("draft") \in Row  BY DEF Fresh, Row, Statuses
<1>4. 1 \in Lines  BY PurchaseOrderAssumption DEF Lines
<1>5. Idle \in Call  BY <1>1, <1>2, <1>3, <1>4 DEF Idle, Call, Pc
<1>6. NoScan \in Scan  BY <1>3 DEF NoScan, Scan
<1>7. QED  BY <1>5, <1>6

\* The queue of an order whose first request leaves.
LEMMA ReleasedType ==
  ASSUME TypeOK, NEW c \in Calls, Holds(c)
  PROVE  /\ Released(c) \in [Orders -> Seq(Calls)]
         /\ \A o \in Orders \ {call[c].o} : Released(c)[o] = queue[o]
<1>1. call[c].o \in Orders /\ queue[call[c].o] \in Seq(Calls)
  BY DEF TypeOK, Call
<1>2. Tail(queue[call[c].o]) \in Seq(Calls)
  BY <1>1 DEF Holds
<1>3. QED  BY <1>1, <1>2 DEF TypeOK, Released

\* A request that gives up becomes idle and leaves the lock.
LEMMA GiveUpType ==
  ASSUME TypeOK, NEW c \in Calls, Holds(c), GiveUp(c)
  PROVE  /\ call' \in [Calls -> Call]
         /\ queue' \in [Orders -> Seq(Calls)]
         /\ torn' \in [Orders -> [Lines -> Nat]]
         /\ \A d \in Calls \ {c} : call'[d] = call[d]
         /\ call'[c] = Idle /\ queue' = Released(c)
<1>1. call' \in [Calls -> Call] /\ call'[c] = Idle /\ \A d \in Calls \ {c} : call'[d] = call[d]
  BY IdleType DEF TypeOK, GiveUp
<1>2. queue' = Released(c) /\ queue' \in [Orders -> Seq(Calls)]
  BY ReleasedType DEF GiveUp
<1> DEFINE o == call[c].o
           f == [l \in Lines |-> torn[o][l] + IF l \in call[c].fresh THEN 1 ELSE 0]
<1>3. o \in Orders  BY DEF TypeOK, Call
<1>4. f \in [Lines -> Nat]  BY <1>3 DEF TypeOK
<1>5. torn' = [torn EXCEPT ![o] = f]  BY DEF GiveUp
<1>6. torn' \in [Orders -> [Lines -> Nat]]  BY <1>3, <1>4, <1>5 DEF TypeOK
<1>7. QED  BY <1>1, <1>2, <1>6

\* A request that goes to another stage, with another line.
LEMMA GoesOnType ==
  ASSUME TypeOK, NEW c \in Calls, call[c].pc \in Booking, NEW k \in Call,
         k.pc \in Booking \/ (k.pc = "store" /\ ~RefusedLate(call[c].row, call[c].rq)),
         k.o = call[c].o, k.row = call[c].row, k.rq = call[c].rq,
         call' = [call EXCEPT ![c] = k], queue' = queue
  PROVE  call' \in [Calls -> Call] /\ GoesOn(c) /\ \A d \in Calls \ {c} : call'[d] = call[d]
BY DEF TypeOK, GoesOn

\* A booking request goes on, or is done and leaves the lock.
LEMMA AdvanceType ==
  ASSUME TypeOK, NEW c \in Calls, call[c].pc \in Booking, Holds(c), Advance(c)
  PROVE  /\ call' \in [Calls -> Call]
         /\ queue' \in [Orders -> Seq(Calls)]
         /\ torn' \in [Orders -> [Lines -> Nat]]
         /\ \A d \in Calls \ {c} : call'[d] = call[d]
         /\ GoesOn(c) \/ (call'[c] = Idle /\ queue' = Released(c))
<1>0. call[c] \in Call  BY DEF TypeOK
<1>1. CASE call[c].line < NLines /\ call' = [call EXCEPT ![c].pc = "find", ![c].line = call[c].line + 1]
           /\ UNCHANGED <<queue, torn>>
  <2> DEFINE k == [call[c] EXCEPT !.pc = "find", !.line = call[c].line + 1]
  <2>1. call' = [call EXCEPT ![c] = k]  BY <1>1 DEF TypeOK
  <2>2. k.line \in Lines  BY <1>0, <1>1, PurchaseOrderAssumption DEF Call, Lines
  <2>3. k \in Call /\ k.pc \in Booking  BY <1>0, <2>2 DEF Call, Pc, Booking
  <2>4. k.o = call[c].o /\ k.row = call[c].row /\ k.rq = call[c].rq  BY <1>0 DEF Call
  <2> HIDE DEF k
  <2>5. QED  BY <1>1, <2>1, <2>3, <2>4, GoesOnType DEF TypeOK
<1>2. CASE /\ Goto(c, "store") /\ UNCHANGED <<queue, torn>>
           /\ ~RefusedLate(call[c].row, call[c].rq)
  <2> DEFINE k == [call[c] EXCEPT !.pc = "store"]
  <2>1. call' = [call EXCEPT ![c] = k]  BY <1>2 DEF TypeOK, Goto
  <2>2. k \in Call /\ k.pc = "store" /\ k.o = call[c].o /\ k.row = call[c].row /\ k.rq = call[c].rq
    BY <1>0 DEF Call, Pc
  <2> HIDE DEF k
  <2>3. QED  BY <1>2, <2>1, <2>2, GoesOnType DEF TypeOK
<1>3. CASE GiveUp(c)  BY <1>3, GiveUpType
<1>4. QED  BY <1>1, <1>2, <1>3 DEF Advance

\* The steps of a request between its start and its end.
Working(c) ==
  \/ Find(c) \/ Receive(c) \/ ReceiveLog(c) \/ ReceiveRefused(c) \/ ReceiveFail(c)
  \/ Check(c) \/ Apply(c) \/ Log(c) \/ Abort(c)

\* A request at another stage.
AtStage(k, pc, delta, fresh) == [k EXCEPT !.pc = pc, !.delta = delta, !.fresh = fresh]

\* The steps of a request that works on its order keep the types, and Works says
\* what they do to the request and the lock.
LEMMA WorkingStep ==
  ASSUME TypeOK, NEW c \in Calls, Working(c)
  PROVE  TypeOK' /\ Works(c)
<1>0. /\ call[c] \in Call /\ call[c].o \in Orders /\ call[c].line \in Lines
      /\ call[c].fresh \in SUBSET Lines
      /\ row \in [Orders -> Row] /\ roll \in [Orders -> BOOLEAN]
      /\ due \in [Orders -> 1..Len(Timeline)] /\ queue \in [Orders -> Seq(Calls)]
      /\ scan \in [Ticks -> Scan]
      /\ warehouse \in [Orders -> SUBSET Lines] /\ moved \in [Orders -> SUBSET Lines]
      /\ applied \in [Orders -> [Lines -> Nat]] /\ torn \in [Orders -> [Lines -> Nat]]
      /\ served \in Nat /\ failures \in Nat
  BY DEF AtStage, TypeOK, Call
<1>a. ASSUME NEW pc \in Booking, NEW delta \in BOOLEAN, NEW fresh \in SUBSET Lines,
             call[c].pc \in Booking, queue' = queue,
             call' = [call EXCEPT ![c] = AtStage(call[c], pc, delta, fresh)]
      PROVE  /\ call' \in [Calls -> Call] /\ GoesOn(c)
             /\ \A d \in Calls \ {c} : call'[d] = call[d]
  <2> DEFINE k == AtStage(call[c], pc, delta, fresh)
  <2>1. k \in Call  BY <1>0, <1>a DEF AtStage, Call, Pc, Booking
  <2>2. k.o = call[c].o /\ k.row = call[c].row /\ k.rq = call[c].rq /\ k.pc = pc
    BY <1>0 DEF AtStage, Call
  <2>3. k.pc \in Booking  BY <2>2, <1>a
  <2>4. call' = [call EXCEPT ![c] = k]  BY <1>a
  <2> HIDE DEF k
  <2>5. QED  BY <1>a, <2>1, <2>2, <2>3, <2>4, GoesOnType
<1>b. call[c].delta \in BOOLEAN  BY <1>0 DEF Call
<1>add. ASSUME Add(c) PROVE applied' \in [Orders -> [Lines -> Nat]]
  <2> DEFINE f == [applied[call[c].o] EXCEPT ![call[c].line] = @ + 1]
  <2>1. f \in [Lines -> Nat]  BY <1>0
  <2>2. applied' = [applied EXCEPT ![call[c].o] = f]  BY <1>add DEF Add
  <2> HIDE DEF f
  <2>3. QED  BY <1>0, <2>1, <2>2
<1>1. CASE Find(c)
  <2>1. call[c].pc \in Booking /\ Holds(c) /\ queue' = queue
    BY <1>1 DEF Find, At, Booking
  <2>2. CASE call' = [call EXCEPT ![c].pc = "check", ![c].delta = FALSE]
    <3>1. call' = [call EXCEPT ![c] = AtStage(call[c], "check", FALSE, call[c].fresh)]
      BY <1>0, <2>2 DEF AtStage, TypeOK, Call
    <3>2. call' \in [Calls -> Call] /\ GoesOn(c) /\ \A d \in Calls \ {c} : call'[d] = call[d]
      BY <1>0, <1>a, <2>1, <3>1 DEF Booking
    <3>3. QED  BY <1>0, <1>1, <2>1, <3>2 DEF Find, TypeOK, Works, stock, bounds
  <2>3. CASE Goto(c, "receive")
    <3>1. call' = [call EXCEPT ![c] = AtStage(call[c], "receive", call[c].delta, call[c].fresh)]
      BY <1>0, <2>3 DEF AtStage, TypeOK, Call, Goto
    <3>2. call' \in [Calls -> Call] /\ GoesOn(c) /\ \A d \in Calls \ {c} : call'[d] = call[d]
      BY <1>0, <1>a, <1>b, <2>1, <3>1 DEF Booking
    <3>3. QED  BY <1>0, <1>1, <2>1, <3>2 DEF Find, TypeOK, Works, stock, bounds
  <2>4. QED  BY <1>1, <2>2, <2>3 DEF Find
<1>2. CASE Receive(c)
  <2>1. call[c].pc \in Booking /\ Holds(c) /\ queue' = queue /\ Add(c)
    BY <1>2 DEF Receive, At, Booking
  <2> DEFINE fresh == call[c].fresh \cup {call[c].line}
  <2>2. /\ call' = [call EXCEPT ![c] = AtStage(call[c], "receiveLog", call[c].delta, fresh)]
        /\ fresh \in SUBSET Lines
    BY <1>0, <1>2 DEF AtStage, TypeOK, Call, Receive
  <2> HIDE DEF fresh
  <2>3. call' \in [Calls -> Call] /\ GoesOn(c) /\ \A d \in Calls \ {c} : call'[d] = call[d]
    BY <1>0, <1>a, <1>b, <2>1, <2>2 DEF Booking
  <2>4. QED  BY <1>0, <1>2, <1>add, <2>1, <2>3 DEF Receive, TypeOK, Works, bounds
<1>3. CASE ReceiveLog(c)
  <2>1. call[c].pc \in Booking /\ Holds(c) /\ queue' = queue
    BY <1>3 DEF ReceiveLog, At, Booking
  <2> DEFINE fresh == call[c].fresh \ {call[c].line}
  <2>2. /\ call' = [call EXCEPT ![c] = AtStage(call[c], "check", FALSE, fresh)]
        /\ fresh \in SUBSET Lines
    BY <1>0, <1>3 DEF AtStage, TypeOK, Call, ReceiveLog
  <2> HIDE DEF fresh
  <2>3. call' \in [Calls -> Call] /\ GoesOn(c) /\ \A d \in Calls \ {c} : call'[d] = call[d]
    BY <1>0, <1>a, <2>1, <2>2 DEF Booking
  <2>4. warehouse' \in [Orders -> SUBSET Lines]  BY <1>0, <1>3 DEF ReceiveLog
  <2>5. QED  BY <1>0, <1>3, <2>1, <2>3, <2>4 DEF ReceiveLog, TypeOK, Works, bounds
<1>4. CASE ReceiveRefused(c)
  <2>1. call[c].pc \in Booking /\ Holds(c) /\ queue' = queue
    BY <1>4 DEF ReceiveRefused, At, Booking
  <2>2. call' = [call EXCEPT ![c] = AtStage(call[c], "check", TRUE, call[c].fresh)]
    BY <1>0, <1>4 DEF AtStage, TypeOK, Call, ReceiveRefused
  <2>3. call' \in [Calls -> Call] /\ GoesOn(c) /\ \A d \in Calls \ {c} : call'[d] = call[d]
    BY <1>0, <1>a, <2>1, <2>2 DEF Booking
  <2>4. QED  BY <1>0, <1>4, <2>1, <2>3 DEF ReceiveRefused, TypeOK, Works, stock, bounds
<1>5. CASE ReceiveFail(c)
  <2>1. call[c].pc \in Booking /\ Holds(c) /\ queue' = queue
    BY <1>5 DEF ReceiveFail, At, Booking
  <2> DEFINE fresh == call[c].fresh \ {call[c].line}
  <2>2. /\ call' = [call EXCEPT ![c] = AtStage(call[c], "check", TRUE, fresh)]
        /\ fresh \in SUBSET Lines
    BY <1>0, <1>5 DEF AtStage, TypeOK, Call, ReceiveFail
  <2> HIDE DEF fresh
  <2>3. call' \in [Calls -> Call] /\ GoesOn(c) /\ \A d \in Calls \ {c} : call'[d] = call[d]
    BY <1>0, <1>a, <2>1, <2>2 DEF Booking
  <2> DEFINE f == [torn[call[c].o] EXCEPT ![call[c].line] = @ + 1]
  <2>4. f \in [Lines -> Nat] /\ torn' = [torn EXCEPT ![call[c].o] = f]
    <3>1. torn' = [torn EXCEPT ![call[c].o][call[c].line] = @ + 1]  BY <1>5 DEF ReceiveFail
    <3>2. call[c].o \in Orders /\ call[c].line \in Lines  BY <1>0 DEF Call
    <3>3. torn[call[c].o] \in [Lines -> Nat]  BY <1>0, <3>2
    <3>4. f \in [Lines -> Nat]  BY <3>2, <3>3
    <3>5. QED  BY <3>1, <3>4
  <2> HIDE DEF f
  <2>5. torn' \in [Orders -> [Lines -> Nat]]  BY <1>0, <2>4
  <2>a. /\ UNCHANGED <<row, roll, due, queue, scan, warehouse, moved, applied, served>>
        /\ failures' \in Nat
    BY <1>0, <1>5 DEF ReceiveFail
  <2>6. QED  BY <1>0, <2>1, <2>3, <2>5, <2>a DEF TypeOK, Works
<1>6. CASE Check(c)
  <2>1. call[c].pc \in Booking /\ Holds(c)
    BY <1>6 DEF Check, At, Booking
  <2>2. CASE Advance(c)
    BY <1>0, <1>6, <2>1, <2>2, AdvanceType DEF Check, TypeOK, Works, bounds
  <2>3. CASE Goto(c, IF call[c].delta THEN "apply" ELSE "log") /\ UNCHANGED <<queue, torn>>
    <3> DEFINE stage == IF call[c].delta THEN "apply" ELSE "log"
    <3>1. call' = [call EXCEPT ![c] = AtStage(call[c], stage, call[c].delta, call[c].fresh)]
      BY <1>0, <2>3 DEF AtStage, TypeOK, Call, Goto
    <3>2. stage \in Booking  BY DEF Booking
    <3> HIDE DEF stage
    <3>3. call' \in [Calls -> Call] /\ GoesOn(c) /\ \A d \in Calls \ {c} : call'[d] = call[d]
      BY <1>0, <1>a, <1>b, <2>1, <2>3, <3>1, <3>2
    <3>4. QED  BY <1>0, <1>6, <2>1, <2>3, <3>3 DEF Check, TypeOK, Works, bounds
  <2>4. QED  BY <1>6, <2>2, <2>3 DEF Check
<1>7. CASE Apply(c)
  <2>1. call[c].pc \in Booking /\ Holds(c) /\ queue' = queue /\ Add(c)
    BY <1>7 DEF Apply, At, Booking
  <2> DEFINE fresh == call[c].fresh \cup {call[c].line}
  <2>2. /\ call' = [call EXCEPT ![c] = AtStage(call[c], "log", call[c].delta, fresh)]
        /\ fresh \in SUBSET Lines
    BY <1>0, <1>7 DEF AtStage, TypeOK, Call, Apply
  <2> HIDE DEF fresh
  <2>3. call' \in [Calls -> Call] /\ GoesOn(c) /\ \A d \in Calls \ {c} : call'[d] = call[d]
    BY <1>0, <1>a, <1>b, <2>1, <2>2 DEF Booking
  <2>4. QED  BY <1>0, <1>7, <1>add, <2>1, <2>3 DEF Apply, TypeOK, Works, bounds
<1>8. CASE Log(c)
  <2>1. call[c].pc \in Booking /\ Holds(c) /\ Advance(c)
    BY <1>8 DEF Log, At, Booking
  <2>2. moved' \in [Orders -> SUBSET Lines]  BY <1>0, <1>8 DEF Log
  <2>3. QED  BY <1>0, <1>8, <2>1, <2>2, AdvanceType DEF Log, TypeOK, Works, bounds
<1>9. CASE Abort(c)
  <2>1. Holds(c) /\ GiveUp(c)  BY <1>9 DEF Abort, At
  <2>2. QED  BY <1>0, <1>9, <2>1, GiveUpType DEF Abort, TypeOK, Works
<1>10. QED  BY <1>1, <1>2, <1>3, <1>4, <1>5, <1>6, <1>7, <1>8, <1>9 DEF Working

\* The row that a request stores is a row.
LEMMA StoredType ==
  ASSUME NEW r \in Row, NEW rq \in Requests  PROVE Stored(r, rq) \in Row
<1>1. /\ rq.want \in Statuses /\ "goods_receipt_completed" \in Statuses
      /\ "stock_entry_pending" \in Statuses /\ "completed" \in Statuses /\ "archived" \in Statuses
  BY RequestFacts DEF Statuses
<1>2. ReceivedManually(r) \in Row
  BY <1>1, TransitionType DEF ReceivedManually
<1>3. ReceivedAutomatically(r) \in Row
  <2> DEFINE a == [status |-> "goods_receipt_completed", received |-> TRUE,
                   booked |-> TRUE, mode |-> "auto"]
  <2>1. a \in Row  BY <1>1 DEF Row
  <2>2. ReceivedAutomatically(r) = Transition(Transition(a, "completed"), "archived")
    BY DEF ReceivedAutomatically
  <2> HIDE DEF a
  <2>3. QED  BY <1>1, <2>1, <2>2, TransitionType
<1>4. Finalized(r, rq.archive) \in Row
  <2> DEFINE e == [r EXCEPT !.booked = TRUE, !.mode = "manual"]
  <2>1. e \in Row  BY DEF Row
  <2>2. Finalized(r, rq.archive) \in
          {Transition(e, "completed"), Transition(Transition(e, "completed"), "archived")}
    BY DEF Finalized
  <2> HIDE DEF e
  <2>3. QED  BY <1>1, <2>1, <2>2, TransitionType
<1>5. Transition(r, rq.want) \in Row  BY <1>1, TransitionType
<1>6. QED  BY <1>2, <1>3, <1>4, <1>5 DEF Stored

\* The row that the scheduler makes of a row is a row.
LEMMA ProgressType ==
  ASSUME TypeOK, NEW o \in Orders, NEW r \in Row  PROVE Progress(r, Planned(o)) \in Row
<1>1. due[o] \in 1..7
  BY DEF TypeOK, Timeline
<1>2. Planned(o) \in Automatic \cup {"cancelled"}
  BY <1>1 DEF Planned, Timeline, Automatic
<1> DEFINE t == IF Planned(o) = "delivered" THEN "goods_receipt_pending" ELSE Planned(o)
<1>3. t \in Statuses  BY <1>2 DEF Automatic, Statuses
<1>4. Progress(r, Planned(o)) \in {r, Transition(r, t)}  BY DEF Progress
<1> HIDE DEF t
<1>5. QED  BY <1>3, <1>4, TransitionType

\* Every step keeps the types.
LEMMA TypeStep == TypeOK /\ [Next]_vars => TypeOK'
<1> SUFFICES ASSUME TypeOK, [Next]_vars PROVE TypeOK'  OBVIOUS
<1>0. /\ call \in [Calls -> Call]
      /\ row \in [Orders -> Row] /\ roll \in [Orders -> BOOLEAN]
      /\ due \in [Orders -> 1..Len(Timeline)] /\ queue \in [Orders -> Seq(Calls)]
      /\ scan \in [Ticks -> Scan]
      /\ warehouse \in [Orders -> SUBSET Lines] /\ moved \in [Orders -> SUBSET Lines]
      /\ applied \in [Orders -> [Lines -> Nat]] /\ torn \in [Orders -> [Lines -> Nat]]
      /\ served \in Nat /\ failures \in Nat
  BY DEF TypeOK
<1>1. ASSUME NEW c \in Calls, Working(c) PROVE TypeOK'
  BY <1>1, WorkingStep
<1>2. ASSUME NEW c \in Calls, Start(c) PROVE TypeOK'
  <2>1. Holds(c)  BY <1>2 DEF Start, At
  <2>2. CASE GiveUp(c)  BY <1>0, <1>2, <2>1, <2>2, GiveUpType DEF Start, TypeOK, bounds
  <2>3. CASE /\ call' = [call EXCEPT ![c].row = row[call[c].o],
                           ![c].pc = IF Books(row[call[c].o], call[c].rq) THEN "find" ELSE "store"]
             /\ UNCHANGED <<queue, torn>>
    <3> DEFINE r == row[call[c].o]
    <3>1. r \in Row /\ call[c] \in Call  BY <1>0 DEF Call
    <3> DEFINE pc == IF Books(row[call[c].o], call[c].rq) THEN "find" ELSE "store"
               k == [call[c] EXCEPT !.row = r, !.pc = pc]
    <3>2. call' = [call EXCEPT ![c] = k]  BY <1>0, <2>3
    <3>3. pc \in Pc  BY DEF Pc
    <3> HIDE DEF pc, r
    <3>4. k \in Call  BY <3>1, <3>3 DEF Call
    <3> HIDE DEF k
    <3>5. call' \in [Calls -> Call]  BY <1>0, <3>2, <3>4
    <3>6. QED  BY <1>0, <1>2, <2>3, <3>5 DEF Start, TypeOK, bounds
  <2>4. QED  BY <1>2, <2>2, <2>3 DEF Start
<1>3. ASSUME NEW c \in Calls, Store(c) PROVE TypeOK'
  <2>1. Stored(call[c].row, call[c].rq) \in Row /\ call[c].o \in Orders
    BY <1>0, StoredType DEF Call
  <2>2. row' \in [Orders -> Row]  BY <1>0, <1>3, <2>1 DEF Store
  <2>3. queue' \in [Orders -> Seq(Calls)]  BY <1>3, ReleasedType DEF Store, At
  <2>4. call' \in [Calls -> Call]  BY <1>0, <1>3, IdleType DEF Store
  <2>5. QED  BY <1>0, <1>3, <2>2, <2>3, <2>4 DEF Store, TypeOK, stock, bounds
<1>4. ASSUME NEW c \in Calls, NEW o \in Orders, NEW rq \in Requests, Request(c, o, rq) PROVE TypeOK'
  <2> DEFINE k == [Idle EXCEPT !.pc = "queued", !.o = o, !.rq = rq]
  <2>1. k \in Call  BY IdleType DEF Call, Pc
  <2>2. call' = [call EXCEPT ![c] = k]  BY <1>4 DEF Request
  <2> HIDE DEF k
  <2>3. Append(queue[o], c) \in Seq(Calls)  BY <1>0
  <2>4. queue' \in [Orders -> Seq(Calls)]  BY <1>0, <1>4, <2>3 DEF Request
  <2>5. QED  BY <1>0, <1>4, <2>1, <2>2, <2>4 DEF Request, TypeOK, stock
<1>5. ASSUME NEW t \in Ticks, ScanStart(t) PROVE TypeOK'
  <2>1. [todo |-> {o \in Orders : row[o].status \in Automatic}, seen |-> row] \in Scan
    BY <1>0 DEF Scan
  <2>2. scan' \in [Ticks -> Scan]  BY <1>0, <1>5, <2>1 DEF ScanStart
  <2>3. QED  BY <1>0, <1>5, <2>2 DEF ScanStart, TypeOK, stock, bounds
<1>6. ASSUME NEW t \in Ticks, ScanFail(t) PROVE TypeOK'
  BY <1>0, <1>6, IdleType DEF ScanFail, TypeOK, stock
<1>7. ASSUME NEW t \in Ticks, NEW o \in Orders, ScanOrder(t, o) PROVE TypeOK'
  <2> DEFINE todo == scan[t].todo \ {o}
             s == IF todo = {} THEN NoScan ELSE [scan[t] EXCEPT !.todo = todo]
  <2>1. scan[t] \in Scan /\ scan[t].seen[o] \in Row  BY <1>0 DEF Scan
  <2>2. s \in Scan  BY <2>1, IdleType DEF Scan
  <2>3. scan' = [scan EXCEPT ![t] = s]  BY <1>0, <1>7 DEF ScanOrder
  <2> HIDE DEF s
  <2>4. Progress(scan[t].seen[o], Planned(o)) \in Row  BY <2>1, ProgressType
  <2>5. row' \in [Orders -> Row]  BY <1>0, <1>7, <2>4 DEF ScanOrder
  <2>6. scan' \in [Ticks -> Scan]  BY <1>0, <2>2, <2>3
  <2>7. UNCHANGED <<roll, due, queue, call, stock, bounds>>  BY <1>7 DEF ScanOrder
  <2>8. QED  BY <1>0, <2>5, <2>6, <2>7 DEF TypeOK, stock, bounds
<1>8. ASSUME NEW o \in Orders, Tick(o) PROVE TypeOK'
  <2>1. Len(Timeline) \in Nat  BY DEF Timeline
  <2>2. due[o] + 1 \in 1..Len(Timeline)  BY <1>0, <1>8, <2>1 DEF Tick
  <2>3. due' \in [Orders -> 1..Len(Timeline)]  BY <1>0, <1>8, <2>2 DEF Tick
  <2>4. QED  BY <1>0, <1>8, <2>3 DEF Tick, TypeOK, stock, bounds
<1>9. CASE Crash
  <2>1. queue' \in [Orders -> Seq(Calls)]  BY <1>9 DEF Crash
  <2>2. call' \in [Calls -> Call] /\ scan' \in [Ticks -> Scan]  BY <1>9, IdleType DEF Crash
  <2> DEFINE broken(o, l) == {c \in Calls : call[c].o = o /\ l \in call[c].fresh}
  <2>3. \A o \in Orders, l \in Lines : Cardinality(broken(o, l)) \in Nat
    BY PurchaseOrderAssumption, FS_Subset, FS_CardinalityType
  <2>4. torn' = [o \in Orders |-> [l \in Lines |-> torn[o][l] + Cardinality(broken(o, l))]]
    BY <1>9 DEF Crash
  <2> HIDE DEF broken
  <2>5. torn' \in [Orders -> [Lines -> Nat]]  BY <1>0, <2>3, <2>4
  <2>6. QED  BY <1>0, <1>9, <2>1, <2>2, <2>5 DEF Crash, TypeOK, bounds
<1>10. CASE UNCHANGED vars
  BY <1>0, <1>10 DEF vars, stock, bounds, TypeOK
<1>11. QED
  BY <1>1, <1>2, <1>3, <1>4, <1>5, <1>6, <1>7, <1>8, <1>9, <1>10 DEF Next, Update, Working

\* Types: every behaviour of the orders keeps the types of TypeOK.
THEOREM TypeCorrect == Spec => []TypeOK
<1>1. Init => TypeOK
  <2> SUFFICES ASSUME Init PROVE TypeOK  OBVIOUS
  <2>1. row \in [Orders -> Row]
    <3>1. Fresh("draft") \in Row /\ Fresh("submitted_for_approval") \in Row
      BY DEF Fresh, Row, Statuses
    <3>2. QED  BY <3>1 DEF Init
  <2>2. call \in [Calls -> Call] /\ scan \in [Ticks -> Scan]  BY IdleType DEF Init
  <2>3. QED  BY <2>1, <2>2 DEF Init, TypeOK, Timeline
<1>2. QED  BY <1>1, TypeStep, PTL DEF Spec

-----------------------------------------------------------------------------
(* The orders: every stored row has a shape although ticks write without   *)
(* the lock, because what they can write over is unreceived.               *)

RowShape == \A o \in Orders : Shape(row[o])

\* What a request has read is the row, or a row that a tick has written over.
HasRead(k, r) ==
  /\ Shape(k.row) /\ ~RefusedEarly(k.row, k.rq)
  /\ k.pc \in Booking => Books(k.row, k.rq)
  /\ k.pc = "store" /\ Books(k.row, k.rq) => ~RefusedLate(k.row, k.rq)
  /\ k.row = r \/ (Loosable(k.row) /\ Unreceived(r))
Reads == \A c \in Calls : Inside(call[c]) => HasRead(call[c], row[call[c].o])

\* The orders that a tick has still to progress, and that it is the only one.
Scans ==
  /\ \A t \in Ticks, o \in Orders : o \in scan[t].todo =>
       Loosable(row[o]) /\ Unreceived(scan[t].seen[o])
  /\ \A t, u \in Ticks : scan[t].todo # {} /\ scan[u].todo # {} => t = u

OrderInv == TypeOK /\ Lock /\ RowShape /\ Reads /\ Scans

\* Requests inside the locked part of one order are one request.
LEMMA Alone ==
  ASSUME Lock, NEW c \in Calls, NEW d \in Calls, Holds(c), Inside(call[d]),
         call[c].o = call[d].o
  PROVE  c = d
BY DEF Lock, Holds

\* The lock has one holder after a step of the holder that keeps or leaves it.
LEMMA LockStep ==
  ASSUME TypeOK, Lock, NEW c \in Calls, Holds(c),
         \A d \in Calls \ {c} : call'[d] = call[d],
         \/ queue' = queue /\ call'[c].o = call[c].o
         \/ queue' = Released(c) /\ ~Inside(call'[c])
  PROVE  Lock'
<1> SUFFICES ASSUME NEW d \in Calls, Inside(call'[d]) PROVE Holds(d)'
  BY DEF Lock, Inside, Booking
<1>1. CASE d = c
  <2>1. queue' = queue /\ call'[c].o = call[c].o  BY <1>1
  <2>2. QED  BY <1>1, <2>1 DEF Holds
<1>2. CASE d # c
  <2>1. call'[d] = call[d] /\ Inside(call[d]) /\ Holds(d)  BY <1>2 DEF Lock
  <2>2. call[d].o # call[c].o  BY <1>2, <2>1, Alone
  <2>3. call[d].o \in Orders  BY DEF TypeOK, Call
  <2>4. queue'[call[d].o] = queue[call[d].o]  BY <2>2, <2>3, ReleasedType
  <2>5. QED  BY <2>1, <2>4 DEF Holds
<1>3. QED  BY <1>1, <1>2

\* An idle request is not in the critical section.
LEMMA IdleOutside == ~Inside(Idle) /\ Idle.fresh = {}
BY DEF Inside, Booking, Idle

\* A request that goes on or gives up.
LEMMA OrderWorks ==
  ASSUME OrderInv, NEW c \in Calls, Works(c)  PROVE (Lock /\ RowShape /\ Reads /\ Scans)'
<1>1. Lock'
  <2>1. TypeOK /\ Lock /\ Holds(c) /\ \A d \in Calls \ {c} : call'[d] = call[d]
    BY DEF OrderInv, Works
  <2>2. \/ queue' = queue /\ call'[c].o = call[c].o
        \/ queue' = Released(c) /\ ~Inside(call'[c])
    BY IdleOutside DEF Works, GoesOn
  <2>3. QED  BY <2>1, <2>2, LockStep
<1>2. RowShape' /\ Scans'
  BY DEF Works, OrderInv, RowShape, Scans
<1>3. ASSUME NEW d \in Calls, Inside(call'[d]) PROVE HasRead(call'[d], row'[call'[d].o])
  <2>1. CASE d # c
    BY <1>3, <2>1 DEF Works, OrderInv, Reads
  <2>2. CASE d = c
    <3>1. GoesOn(c)  BY <1>3, <2>2, IdleOutside DEF Works
    <3>2. HasRead(call[c], row[call[c].o]) /\ Books(call[c].row, call[c].rq)
      BY <3>1 DEF GoesOn, OrderInv, Reads, Inside, HasRead
    <3>3. row' = row /\ call'[c].o = call[c].o
          /\ call'[c].row = call[c].row /\ call'[c].rq = call[c].rq
      BY <3>1 DEF GoesOn, Works
    <3>4. call'[c].pc = "store" => ~RefusedLate(call[c].row, call[c].rq)
      BY <3>1 DEF GoesOn, Booking
    <3>5. QED  BY <2>2, <3>2, <3>3, <3>4 DEF HasRead
  <2>3. QED  BY <2>1, <2>2
<1>4. Reads'  BY <1>3 DEF Reads, Inside, HasRead, Shape, Unreceived, Loosable, RefusedEarly,
                 RefusedLate, Books
<1>5. QED  BY <1>1, <1>2, <1>4

\* A request reads its order and is refused, books, or goes on to store.
LEMMA OrderStart ==
  ASSUME OrderInv, NEW c \in Calls, Start(c)  PROVE (Lock /\ RowShape /\ Reads /\ Scans)'
<1>0. /\ TypeOK /\ Lock /\ RowShape /\ Reads /\ Scans
      /\ call \in [Calls -> Call] /\ call[c].o \in Orders
  BY DEF OrderInv, TypeOK, Call
<1>1. Holds(c) /\ row' = row /\ scan' = scan  BY DEF Start, At
<1>2. RowShape' /\ Scans'  BY <1>0, <1>1 DEF RowShape, Scans
<1>3. CASE GiveUp(c)
  <2>1. Works(c)
    BY <1>0, <1>1, <1>3, GiveUpType DEF Start, Works
  <2>2. QED  BY <2>1, OrderWorks
<1>4. CASE /\ ~RefusedEarly(row[call[c].o], call[c].rq)
           /\ call' = [call EXCEPT ![c].row = row[call[c].o],
                         ![c].pc = IF Books(row[call[c].o], call[c].rq) THEN "find" ELSE "store"]
           /\ UNCHANGED <<queue, torn>>
  <2> DEFINE r == row[call[c].o]
  <2>1. /\ call'[c].o = call[c].o /\ call'[c].rq = call[c].rq /\ call'[c].row = r
        /\ Books(r, call[c].rq) => call'[c].pc = "find"
        /\ ~Books(r, call[c].rq) => call'[c].pc = "store"
        /\ \A d \in Calls \ {c} : call'[d] = call[d]
    BY <1>0, <1>4 DEF Call
  <2>2. Lock'  BY <1>0, <1>1, <1>4, <2>1, LockStep
  <2>3. Shape(r) /\ ~RefusedEarly(r, call[c].rq)  BY <1>0, <1>4 DEF RowShape
  <2>4. HasRead(call'[c], row'[call'[c].o])
    BY <1>1, <2>1, <2>3 DEF HasRead, Booking
  <2>5. \A d \in Calls \ {c} : Inside(call'[d]) => HasRead(call'[d], row'[call'[d].o])
    BY <1>0, <1>1, <2>1 DEF Reads
  <2> HIDE DEF r
  <2>6. Reads'  BY <2>4, <2>5 DEF Reads, Inside, HasRead, Shape, Unreceived, Loosable,
                     RefusedEarly, RefusedLate, Books
  <2>7. QED  BY <1>2, <2>2, <2>6
<1>5. QED  BY <1>3, <1>4 DEF Start

\* What a request stores.
LEMMA StoreFacts ==
  ASSUME OrderInv, NEW c \in Calls, Store(c)
  PROVE  LET k == call[c]
             s == Stored(k.row, k.rq)
         IN  /\ k.o \in Orders /\ k.row \in Row /\ k.rq \in Requests
             /\ Inside(k) /\ HasRead(k, row[k.o])
             /\ row' = [row EXCEPT ![k.o] = s]
             /\ s \in Row /\ Shape(s)
             /\ Books(k.row, k.rq) => s.booked
             /\ ~Books(k.row, k.rq) => s.booked = k.row.booked
             /\ Loosable(k.row) => ~Books(k.row, k.rq) /\ Loosable(s)
             /\ \A t \in Ticks : k.o \in scan[t].todo => Loosable(s)
<1> DEFINE k == call[c]
           s == Stored(k.row, k.rq)
<1>1. k \in Call /\ k.pc = "store" /\ Inside(k) /\ row' = [row EXCEPT ![k.o] = s]
  BY DEF OrderInv, TypeOK, Store, At, Inside
<1>2. HasRead(k, row[k.o])  BY <1>1 DEF OrderInv, Reads
<1>3. k.o \in Orders /\ k.row \in Row /\ k.rq \in Requests  BY <1>1 DEF Call
<1>4. Shape(k.row) /\ ~RefusedEarly(k.row, k.rq) /\ (Books(k.row, k.rq) => ~RefusedLate(k.row, k.rq))
  BY <1>1, <1>2 DEF HasRead
<1>5. /\ s \in Row /\ Shape(s)
      /\ Books(k.row, k.rq) => s.booked
      /\ ~Books(k.row, k.rq) => s.booked = k.row.booked
      /\ Loosable(k.row) => ~Books(k.row, k.rq) /\ Loosable(s)
  BY <1>3, <1>4, StoredShape
<1>6. ASSUME NEW t \in Ticks, k.o \in scan[t].todo PROVE Loosable(s)
  <2>1. Loosable(row[k.o])  BY <1>3, <1>6 DEF OrderInv, Scans
  <2>2. Loosable(k.row)  BY <1>2, <2>1 DEF HasRead
  <2>3. QED  BY <1>5, <2>2
<1>7. QED  BY <1>1, <1>2, <1>3, <1>5, <1>6

\* Storing an order keeps the facts about lock, rows, readings and scans.
LEMMA OrderStore ==
  ASSUME OrderInv, NEW c \in Calls, Store(c)  PROVE (Lock /\ RowShape /\ Reads /\ Scans)'
<1> DEFINE k == call[c]
           s == Stored(k.row, k.rq)
<1>0. /\ TypeOK /\ Lock /\ RowShape /\ Reads /\ Scans
      /\ call \in [Calls -> Call] /\ row \in [Orders -> Row]
  BY DEF OrderInv, TypeOK
<1>1. /\ k.o \in Orders /\ Inside(k) /\ row' = [row EXCEPT ![k.o] = s] /\ Shape(s)
      /\ \A t \in Ticks : k.o \in scan[t].todo => Loosable(s)
  BY StoreFacts
<1>2. /\ Holds(c) /\ scan' = scan /\ call'[c] = Idle /\ queue' = Released(c)
      /\ \A d \in Calls \ {c} : call'[d] = call[d]
  BY <1>0 DEF Store, At
<1>3. Lock'  BY <1>0, <1>2, IdleOutside, LockStep
<1> HIDE DEF s
<1>4. RowShape'  BY <1>0, <1>1 DEF RowShape
<1>5. Scans'  BY <1>0, <1>1, <1>2 DEF Scans
<1>6. ASSUME NEW d \in Calls, Inside(call'[d]) PROVE HasRead(call'[d], row'[call'[d].o])
  <2>1. d # c  BY <1>2, <1>6, IdleOutside
  <2>2. call'[d] = call[d] /\ Inside(call[d])  BY <1>2, <1>6, <2>1
  <2>3. call[d].o # k.o  BY <1>0, <1>2, <2>1, <2>2, Alone
  <2>4. row'[call[d].o] = row[call[d].o]  BY <1>0, <1>1, <2>3 DEF Call
  <2>5. QED  BY <1>0, <2>2, <2>4 DEF Reads
<1>7. Reads'  BY <1>6 DEF Reads, Inside, HasRead, Shape, Unreceived, Loosable, RefusedEarly,
                 RefusedLate, Books
<1>8. QED  BY <1>3, <1>4, <1>5, <1>7

\* What a tick stores.
LEMMA ScanFacts ==
  ASSUME OrderInv, NEW t \in Ticks, NEW o \in Orders, ScanOrder(t, o)
  PROVE  /\ Loosable(row[o])
         /\ row'[o] \in Row /\ (row'[o] = row[o] \/ Unreceived(row'[o]))
         /\ \A p \in Orders \ {o} : row'[p] = row[p]
<1> DEFINE next == Progress(scan[t].seen[o], Planned(o))
<1>1. Loosable(row[o]) /\ Unreceived(scan[t].seen[o])
  BY DEF ScanOrder, OrderInv, Scans
<1>2. scan[t].seen[o] \in Row  BY DEF OrderInv, TypeOK, Scan
<1>3. next \in Row /\ Unreceived(next)  BY <1>1, <1>2, ProgressShape DEF OrderInv
<1>4. row' \in {row, [row EXCEPT ![o] = next]}  BY DEF ScanOrder
<1> HIDE DEF next
<1>5. QED  BY <1>1, <1>3, <1>4 DEF OrderInv, TypeOK

\* So does the scheduler when it looks at an order.
LEMMA OrderScan ==
  ASSUME OrderInv, NEW t \in Ticks, NEW o \in Orders, ScanOrder(t, o)
  PROVE  (Lock /\ RowShape /\ Reads /\ Scans)'
<1>0. /\ TypeOK /\ Lock /\ RowShape /\ Reads /\ Scans
      /\ call \in [Calls -> Call] /\ row \in [Orders -> Row] /\ scan \in [Ticks -> Scan]
  BY DEF OrderInv, TypeOK
<1>1. call' = call /\ queue' = queue  BY DEF ScanOrder
<1>2. /\ Loosable(row[o]) /\ row'[o] \in Row /\ (row'[o] = row[o] \/ Unreceived(row'[o]))
      /\ \A p \in Orders \ {o} : row'[p] = row[p]
  BY ScanFacts
<1>3. Lock'  BY <1>0, <1>1 DEF Lock, Inside, Booking, Holds
<1>4. RowShape'  BY <1>0, <1>2 DEF RowShape, Shape
<1>5. ASSUME NEW d \in Calls, Inside(call'[d]) PROVE HasRead(call'[d], row'[call'[d].o])
  <2>1. HasRead(call[d], row[call[d].o]) /\ call[d].o \in Orders
    BY <1>0, <1>1, <1>5 DEF Reads, Call
  <2>2. CASE call[d].o # o  BY <1>1, <1>2, <2>1, <2>2
  <2>3. CASE call[d].o = o
    <3>1. Loosable(call[d].row)  BY <1>2, <2>1, <2>3 DEF HasRead
    <3>2. Unreceived(row'[o])  BY <1>2 DEF Loosable
    <3>3. QED  BY <1>1, <2>1, <2>3, <3>1, <3>2 DEF HasRead
  <2>4. QED  BY <2>2, <2>3
<1>6. Reads'  BY <1>5 DEF Reads, Inside, HasRead, Shape, Unreceived, Loosable, RefusedEarly,
                 RefusedLate, Books
<1>7. /\ t \in DOMAIN scan /\ o \in scan[t].todo
      /\ scan'[t].todo = scan[t].todo \ {o}
      /\ scan'[t].todo # {} => scan'[t].seen = scan[t].seen
      /\ \A u \in Ticks \ {t} : scan'[u] = scan[u]
  BY <1>0 DEF ScanOrder, NoScan, Scan
<1>8. \A u \in Ticks \ {t} : scan[u].todo = {}  BY <1>0, <1>7 DEF Scans
<1>9. Scans'  BY <1>0, <1>2, <1>7, <1>8 DEF Scans
<1>10. QED  BY <1>3, <1>4, <1>6, <1>9

\* Every step keeps the invariant of the orders.
LEMMA OrderStep == OrderInv /\ [Next]_vars => OrderInv'
<1> SUFFICES ASSUME OrderInv, [Next]_vars PROVE OrderInv'  OBVIOUS
<1>0. /\ TypeOK /\ Lock /\ RowShape /\ Reads /\ Scans
      /\ call \in [Calls -> Call] /\ row \in [Orders -> Row] /\ scan \in [Ticks -> Scan]
      /\ queue \in [Orders -> Seq(Calls)]
  BY DEF OrderInv, TypeOK
<1>t. TypeOK'  BY <1>0, TypeStep
<1> SUFFICES (Lock /\ RowShape /\ Reads /\ Scans)'  BY <1>t DEF OrderInv
<1>1. ASSUME NEW c \in Calls, Working(c) PROVE (Lock /\ RowShape /\ Reads /\ Scans)'
  BY <1>0, <1>1, WorkingStep, OrderWorks
<1>2. ASSUME NEW c \in Calls, Start(c) PROVE (Lock /\ RowShape /\ Reads /\ Scans)'
  BY <1>2, OrderStart
<1>3. ASSUME NEW c \in Calls, Store(c) PROVE (Lock /\ RowShape /\ Reads /\ Scans)'
  BY <1>3, OrderStore
<1>same. ASSUME row' = row, call' = call, queue' = queue PROVE (Lock /\ RowShape /\ Reads)'
  BY <1>0, <1>same DEF Lock, RowShape, Reads, Inside, Booking, Holds, HasRead, Shape, Unreceived,
       Loosable, RefusedEarly, RefusedLate, Books
<1>4. ASSUME NEW c \in Calls, NEW o \in Orders, NEW rq \in Requests, Request(c, o, rq)
      PROVE (Lock /\ RowShape /\ Reads /\ Scans)'
  <2>1. row' = row /\ scan' = scan  BY <1>4 DEF Request, stock
  <2>2. RowShape' /\ Scans'  BY <1>0, <2>1 DEF RowShape, Scans
  <2>3. \A d \in Calls : Inside(call'[d]) => d # c /\ call'[d] = call[d] /\ Inside(call[d])
    BY <1>0, <1>4 DEF Request, Inside, Booking, Idle
  <2>4. ASSUME NEW d \in Calls, Inside(call'[d]) PROVE Holds(d)'
    <3>1. call'[d] = call[d] /\ Holds(d) /\ call[d].o \in Orders
      BY <1>0, <2>3, <2>4 DEF Lock, Call
    <3>2. queue[call[d].o] \in Seq(Calls) /\ queue[call[d].o] # <<>>
      BY <1>0, <3>1 DEF Holds
    <3>3. queue'[call[d].o] \in {queue[call[d].o], Append(queue[call[d].o], c)}
      BY <1>0, <1>4, <3>1 DEF Request
    <3>4. queue'[call[d].o] # <<>> /\ Head(queue'[call[d].o]) = Head(queue[call[d].o])
      BY <3>2, <3>3
    <3>5. QED  BY <3>1, <3>4 DEF Holds
  <2>5. Lock'  BY <2>4 DEF Lock, Inside, Booking
  <2>6. Reads'  BY <1>0, <2>1, <2>3 DEF Reads, Inside, HasRead, Shape, Unreceived, Loosable,
                     RefusedEarly, RefusedLate, Books
  <2>7. QED  BY <2>2, <2>5, <2>6
<1>5. ASSUME NEW t \in Ticks, ScanStart(t) PROVE (Lock /\ RowShape /\ Reads /\ Scans)'
  <2>1. row' = row /\ call' = call /\ queue' = queue  BY <1>5 DEF ScanStart
  <2>2. \A u \in Ticks : scan[u].todo = {}  BY <1>5 DEF ScanStart, MayStart
  <2>3. /\ scan'[t].todo = {o \in Orders : row[o].status \in Automatic} /\ scan'[t].seen = row
        /\ \A u \in Ticks \ {t} : scan'[u] = scan[u]
    BY <1>0, <1>5 DEF ScanStart
  <2>4. \A o \in Orders : row[o].status \in Automatic => Loosable(row[o]) /\ Unreceived(row[o])
    BY <1>0 DEF RowShape, Shape, Loosable, Unreceived, Automatic, Stretch, Closed
  <2>5. Scans'  BY <2>1, <2>2, <2>3, <2>4 DEF Scans
  <2>6. QED  BY <1>same, <2>1, <2>5
<1>6. ASSUME NEW t \in Ticks, ScanFail(t) PROVE (Lock /\ RowShape /\ Reads /\ Scans)'
  <2>1. row' = row /\ call' = call /\ queue' = queue  BY <1>6 DEF ScanFail
  <2>2. scan'[t].todo = {} /\ \A u \in Ticks \ {t} : scan'[u] = scan[u]
    BY <1>0, <1>6 DEF ScanFail, NoScan
  <2>3. Scans'  BY <1>0, <2>1, <2>2 DEF Scans
  <2>4. QED  BY <1>same, <2>1, <2>3
<1>7. ASSUME NEW t \in Ticks, NEW o \in Orders, ScanOrder(t, o)
      PROVE (Lock /\ RowShape /\ Reads /\ Scans)'
  BY <1>7, OrderScan
<1>8. ASSUME NEW o \in Orders, Tick(o) PROVE (Lock /\ RowShape /\ Reads /\ Scans)'
  <2>1. row' = row /\ call' = call /\ queue' = queue /\ scan' = scan  BY <1>8 DEF Tick
  <2>2. Scans'  BY <1>0, <2>1 DEF Scans
  <2>3. QED  BY <1>same, <2>1, <2>2
<1>9. CASE Crash
  <2>1. row' = row /\ \A c \in Calls : ~Inside(call'[c])
    BY <1>9, IdleOutside DEF Crash
  <2>2. \A t \in Ticks : scan'[t].todo = {}  BY <1>9 DEF Crash, NoScan
  <2>3. Lock' /\ Reads'  BY <2>1 DEF Lock, Reads, Inside, Booking
  <2>4. RowShape' /\ Scans'  BY <1>0, <2>1, <2>2 DEF RowShape, Scans
  <2>5. QED  BY <2>3, <2>4
<1>10. CASE UNCHANGED vars
  <2>1. row' = row /\ call' = call /\ queue' = queue /\ scan' = scan  BY <1>10 DEF vars
  <2>2. Scans'  BY <1>0, <2>1 DEF Scans
  <2>3. QED  BY <1>same, <2>1, <2>2
<1>11. QED
  BY <1>1, <1>2, <1>3, <1>4, <1>5, <1>6, <1>7, <1>8, <1>9, <1>10 DEF Next, Update, Working

-----------------------------------------------------------------------------
(* The stock: what a booking has added and recorded, line by line.         *)

\* A line was added by a request that has not recorded it in the warehouse.
Held(o, l) == \E c \in Calls : call[c].o = o /\ l \in call[c].fresh

\* What a request at each stage has done to the lines of its order.
LinesFit(k, w, m) ==
  /\ ~Inside(k) \/ (k.pc = "store" /\ ~Books(k.row, k.rq)) => k.fresh = {}
  /\ ~Inside(k) => k.line = 1
  /\ \A l \in k.fresh : l <= k.line
  /\ k.pc \in Booking => \A l \in Lines : l < k.line => l \in m
  /\ k.pc = "store" /\ Books(k.row, k.rq) => Lines \subseteq m
  /\ k.pc \in {"find", "receive", "check", "apply"} => k.line \notin k.fresh
  /\ k.pc \in {"receive", "receiveLog", "apply"} => k.line \notin w
  /\ k.pc = "receiveLog" => k.line \in k.fresh
  /\ k.pc = "check" => (k.delta <=> k.line \notin w)
  /\ k.pc = "log" => k.line \in w \cup k.fresh
BookingFits == \A c \in Calls : LinesFit(call[c], warehouse[call[c].o], moved[call[c].o])

\* How often a line was added: not beyond the attempts that broke off, unless
\* a record or a request at work shows it.
StockAt(o, l) ==
  /\ applied[o][l] <= 1 + torn[o][l]
  /\ l \notin warehouse[o] /\ ~row[o].booked /\ ~Held(o, l) => applied[o][l] <= torn[o][l]
  /\ l \in warehouse[o] \cup moved[o] \/ Held(o, l) => applied[o][l] > 0
  /\ row[o].booked => l \in moved[o]
StockFits == \A o \in Orders, l \in Lines : StockAt(o, l)

IInv == OrderInv /\ BookingFits /\ StockFits

\* A request that books finds an order that is not booked, whatever ticks do.
LEMMA BookingUnbooked ==
  ASSUME OrderInv, NEW c \in Calls, call[c].pc \in Booking
  PROVE  ~row[call[c].o].booked
<1>1. HasRead(call[c], row[call[c].o])  BY DEF OrderInv, Reads, Inside
<1>2. call[c].row \in Row /\ call[c].rq \in Requests  BY DEF OrderInv, TypeOK, Call
<1>3. ~call[c].row.booked /\ (Loosable(call[c].row) => Unreceived(call[c].row))
  BY <1>1, <1>2, BooksShape DEF HasRead, Loosable
<1>4. CASE call[c].row = row[call[c].o]  BY <1>3, <1>4
<1>5. CASE Unreceived(row[call[c].o])  BY <1>5 DEF Unreceived
<1>6. QED  BY <1>1, <1>4, <1>5 DEF HasRead

\* The lines that the only request at work on an order holds.
LEMMA HeldAlone ==
  ASSUME OrderInv, BookingFits, NEW c \in Calls, Holds(c)
  PROVE  /\ \A l : Held(call[c].o, l) <=> l \in call[c].fresh
         /\ \A d \in Calls \ {c} : call[d].o = call[c].o => call[d].fresh = {} /\ ~Inside(call[d])
<1>1. ASSUME NEW d \in Calls \ {c}, call[d].o = call[c].o
      PROVE  call[d].fresh = {} /\ ~Inside(call[d])
  <2>1. ~Inside(call[d])  BY <1>1, Alone DEF OrderInv
  <2>2. QED  BY <2>1 DEF BookingFits, LinesFit
<1>2. QED  BY <1>1 DEF Held

\* The effect of a step of c on the lines that requests hold.
LEMMA HeldStep ==
  ASSUME OrderInv, BookingFits, NEW c \in Calls, NEW o \in Orders, o = call[c].o, Holds(c),
         \A d \in Calls \ {c} : call'[d] = call[d],
         call'[c].o = o \/ call'[c].fresh = {}
  PROVE  /\ \A l : Held(o, l)' <=> l \in call'[c].fresh
         /\ \A p \in Orders \ {o}, l \in Lines : Held(p, l)' <=> Held(p, l)
<1>1. \A d \in Calls \ {c} : call[d].o = o => call[d].fresh = {}
  BY HeldAlone
<1>2. \A l : Held(o, l)' <=> l \in call'[c].fresh
  BY <1>1 DEF Held
<1>3. ASSUME NEW p \in Orders \ {o}, NEW l \in Lines PROVE Held(p, l)' <=> Held(p, l)
  <2>1. ~(call'[c].o = p /\ l \in call'[c].fresh) /\ call[c].o # p  OBVIOUS
  <2>2. QED  BY <2>1 DEF Held
<1>4. QED  BY <1>2, <1>3

\* The other requests are not disturbed by what a request does to its order.
LEMMA OthersFit ==
  ASSUME OrderInv, BookingFits, NEW c \in Calls, Holds(c),
         \A d \in Calls \ {c} : call'[d] = call[d],
         \A p \in Orders \ {call[c].o} : warehouse'[p] = warehouse[p] /\ moved'[p] = moved[p],
         LinesFit(call'[c], warehouse'[call'[c].o], moved'[call'[c].o])
  PROVE  BookingFits'
<1> SUFFICES ASSUME NEW d \in Calls PROVE LinesFit(call'[d], warehouse'[call'[d].o], moved'[call'[d].o])
  BY DEF BookingFits, LinesFit, Inside, Booking, Books, ManualPending
<1>1. CASE d = c  BY <1>1
<1>2. CASE d # c /\ call[d].o = call[c].o
  <2>1. ~Inside(call[d]) /\ call[d].fresh = {} /\ call'[d] = call[d]  BY <1>2, HeldAlone
  <2>2. call[d].line = 1  BY <2>1 DEF BookingFits, LinesFit
  <2>3. QED  BY <2>1, <2>2 DEF LinesFit, Inside, Booking
<1>3. CASE d # c /\ call[d].o # call[c].o
  <2>1. call[d].o \in Orders /\ call'[d] = call[d]  BY <1>3 DEF OrderInv, TypeOK, Call
  <2>2. QED  BY <1>3, <2>1 DEF BookingFits
<1>4. QED  BY <1>1, <1>2, <1>3

\* An idle request says nothing about lines.
LEMMA IdleFits == \A w, m : LinesFit(Idle, w, m)
BY IdleOutside DEF LinesFit, Idle, Booking

\* The stock of the orders and lines that a request at work does not touch.
LEMMA OtherStock ==
  ASSUME OrderInv, BookingFits, StockFits, NEW c \in Calls, NEW o \in Orders, o = call[c].o,
         Holds(c), row' = row,
         \A d \in Calls \ {c} : call'[d] = call[d],
         call'[c].o = o \/ call'[c].fresh = {},
         \A p \in Orders \ {o} :
           /\ warehouse'[p] = warehouse[p] /\ moved'[p] = moved[p]
           /\ applied'[p] = applied[p] /\ torn'[p] = torn[p],
         \A l \in Lines : StockAt(o, l)'
  PROVE  StockFits'
<1> SUFFICES ASSUME NEW p \in Orders, NEW l \in Lines PROVE StockAt(p, l)'
  BY DEF StockFits
<1>1. CASE p = o  BY <1>1
<1>2. CASE p # o
  <2>1. Held(p, l)' <=> Held(p, l)  BY <1>2, HeldStep
  <2>2. QED  BY <1>2, <2>1 DEF StockFits, StockAt
<1>3. QED  BY <1>1, <1>2

\* A request that gives up: what it holds is counted as torn.
LEMMA GiveUpStock ==
  ASSUME OrderInv, BookingFits, StockFits, NEW c \in Calls, NEW o \in Orders, o = call[c].o,
         Holds(c), GiveUp(c), row' = row, warehouse' = warehouse, applied' = applied,
         \/ moved' = moved
         \/ /\ moved' = [moved EXCEPT ![o] = @ \cup {call[c].line}]
            /\ call[c].line \in warehouse[o] \cup call[c].fresh
  PROVE  BookingFits' /\ StockFits'
<1>0. /\ TypeOK
      /\ applied \in [Orders -> [Lines -> Nat]] /\ torn \in [Orders -> [Lines -> Nat]]
      /\ moved \in [Orders -> SUBSET Lines]
  BY DEF OrderInv, TypeOK, Call
<1>1. call'[c] = Idle /\ \A d \in Calls \ {c} : call'[d] = call[d]
  BY <1>0, GiveUpType
<1>2. /\ \A l \in Lines : torn'[o][l] = torn[o][l] + IF l \in call[c].fresh THEN 1 ELSE 0
      /\ \A p \in Orders \ {o} : torn'[p] = torn[p]
  BY <1>0 DEF GiveUp
<1>3. \A p \in Orders \ {o} : moved'[p] = moved[p]  BY <1>0
<1>4. BookingFits'  BY <1>0, <1>1, <1>3, IdleFits, OthersFit
<1>5. call'[c].fresh = {}  BY <1>1, IdleOutside
<1>6. \A l \in Lines : (Held(o, l)' <=> FALSE) /\ (Held(o, l) <=> l \in call[c].fresh)
  BY <1>1, <1>5, HeldStep, HeldAlone
<1>7. ASSUME NEW l \in Lines PROVE StockAt(o, l)'
  <2>1. StockAt(o, l)  BY <1>0 DEF StockFits
  <2>2. l \in moved'[o] => l \in moved[o] \/ l \in warehouse[o] \cup call[c].fresh
    BY <1>0
  <2>3. l \in moved[o] => l \in moved'[o]  BY <1>0
  <2>4. applied[o][l] \in Nat /\ torn[o][l] \in Nat  BY <1>0
  <2>5. CASE l \in call[c].fresh
    <3>1. torn'[o][l] = torn[o][l] + 1  BY <1>2, <2>5
    <3>2. QED  BY <1>6, <2>1, <2>2, <2>3, <2>4, <2>5, <3>1 DEF StockAt
  <2>6. CASE l \notin call[c].fresh
    <3>1. torn'[o][l] = torn[o][l]  BY <1>2, <2>4, <2>6
    <3>2. QED  BY <1>6, <2>1, <2>2, <2>3, <2>4, <2>6, <3>1 DEF StockAt
  <2>7. QED  BY <2>5, <2>6
<1>8. StockFits'  BY <1>0, <1>1, <1>2, <1>3, <1>5, <1>7, OtherStock
<1>9. QED  BY <1>4, <1>8

\* A request that goes on without adding a quantity.
LEMMA QuietStock ==
  ASSUME OrderInv, BookingFits, StockFits, NEW c \in Calls, NEW o \in Orders, o = call[c].o,
         Holds(c), \A d \in Calls \ {c} : call'[d] = call[d],
         call'[c].o = o, call'[c].fresh = call[c].fresh,
         row' = row, warehouse' = warehouse, applied' = applied, torn' = torn,
         \/ moved' = moved
         \/ /\ moved' = [moved EXCEPT ![o] = @ \cup {call[c].line}]
            /\ call[c].line \in warehouse[o] \cup call[c].fresh
  PROVE  StockFits'
<1>0. moved \in [Orders -> SUBSET Lines]  BY DEF OrderInv, TypeOK
<1>1. \A l \in Lines : (Held(o, l)' <=> l \in call[c].fresh) /\ (Held(o, l) <=> l \in call[c].fresh)
  BY HeldStep, HeldAlone
<1>2. ASSUME NEW l \in Lines PROVE StockAt(o, l)'
  <2>1. StockAt(o, l)  BY DEF StockFits
  <2>2. l \in moved'[o] => l \in moved[o] \/ l \in warehouse[o] \cup call[c].fresh
    BY <1>0
  <2>3. l \in moved[o] => l \in moved'[o]  BY <1>0
  <2>4. QED  BY <1>1, <2>1, <2>2, <2>3 DEF StockAt
<1>3. \A p \in Orders \ {o} : moved'[p] = moved[p]  BY <1>0
<1>4. QED  BY <1>2, <1>3, OtherStock

\* A quantity added by a request that holds the line from now on.
LEMMA AddStock ==
  ASSUME OrderInv, BookingFits, StockFits, NEW c \in Calls, NEW o \in Orders, o = call[c].o,
         Holds(c), call[c].pc \in Booking, \A d \in Calls \ {c} : call'[d] = call[d],
         call'[c].o = o, call'[c].fresh = call[c].fresh \cup {call[c].line},
         call[c].line \notin call[c].fresh, call[c].line \notin warehouse[o], Add(c),
         row' = row, warehouse' = warehouse, moved' = moved, torn' = torn
  PROVE  StockFits'
<1>0. /\ applied \in [Orders -> [Lines -> Nat]] /\ torn \in [Orders -> [Lines -> Nat]]
      /\ call[c].line \in Lines
  BY DEF OrderInv, TypeOK, Call
<1>1. \A l \in Lines : (Held(o, l)' <=> l \in call'[c].fresh) /\ (Held(o, l) <=> l \in call[c].fresh)
  BY HeldStep, HeldAlone
<1>2. /\ applied'[o][call[c].line] = applied[o][call[c].line] + 1
      /\ \A l \in Lines \ {call[c].line} : applied'[o][l] = applied[o][l]
      /\ \A p \in Orders \ {o} : applied'[p] = applied[p]
  BY <1>0 DEF Add
<1>3. ~row[o].booked  BY BookingUnbooked
<1>4. ASSUME NEW l \in Lines PROVE StockAt(o, l)'
  <2>1. StockAt(o, l) /\ applied[o][l] \in Nat /\ torn[o][l] \in Nat
    BY <1>0 DEF StockFits
  <2>2. CASE l = call[c].line
    <3>1. applied[o][l] <= torn[o][l]  BY <1>1, <1>3, <2>1, <2>2 DEF StockAt
    <3>2. applied'[o][l] = applied[o][l] + 1 /\ Held(o, l)'  BY <1>1, <1>2, <2>2
    <3>3. QED  BY <1>3, <2>1, <3>1, <3>2 DEF StockAt
  <2>3. CASE l # call[c].line
    <3>1. applied'[o][l] = applied[o][l] /\ (Held(o, l)' <=> Held(o, l))
      BY <1>1, <1>2, <2>3
    <3>2. QED  BY <2>1, <3>1 DEF StockAt
  <2>4. QED  BY <2>2, <2>3
<1>5. QED  BY <1>2, <1>4, OtherStock

\* The line that a request holds is recorded in the warehouse, or is torn.
LEMMA ReleaseStock ==
  ASSUME OrderInv, BookingFits, StockFits, NEW c \in Calls, NEW o \in Orders, o = call[c].o,
         Holds(c), call[c].pc \in Booking, \A d \in Calls \ {c} : call'[d] = call[d],
         call'[c].o = o, call'[c].fresh = call[c].fresh \ {call[c].line},
         call[c].line \in call[c].fresh,
         row' = row, applied' = applied, moved' = moved,
         \/ warehouse' = [warehouse EXCEPT ![o] = @ \cup {call[c].line}] /\ torn' = torn
         \/ warehouse' = warehouse /\ torn' = [torn EXCEPT ![o][call[c].line] = @ + 1]
  PROVE  StockFits'
<1>0. /\ applied \in [Orders -> [Lines -> Nat]] /\ torn \in [Orders -> [Lines -> Nat]]
      /\ call[c].line \in Lines /\ warehouse \in [Orders -> SUBSET Lines]
  BY DEF OrderInv, TypeOK, Call
<1>1. \A l \in Lines : (Held(o, l)' <=> l \in call'[c].fresh) /\ (Held(o, l) <=> l \in call[c].fresh)
  BY HeldStep, HeldAlone
<1>2. /\ \A l \in Lines \ {call[c].line} :
           torn'[o][l] = torn[o][l] /\ (l \in warehouse'[o] <=> l \in warehouse[o])
      /\ \/ call[c].line \in warehouse'[o] /\ torn'[o][call[c].line] = torn[o][call[c].line]
         \/ torn'[o][call[c].line] = torn[o][call[c].line] + 1
      /\ \A p \in Orders \ {o} : torn'[p] = torn[p] /\ warehouse'[p] = warehouse[p]
  BY <1>0
<1>3. ASSUME NEW l \in Lines PROVE StockAt(o, l)'
  <2>1. StockAt(o, l) /\ applied[o][l] \in Nat /\ torn[o][l] \in Nat
    BY <1>0 DEF StockFits
  <2>2. CASE l = call[c].line
    <3>1. Held(o, l)  BY <1>1, <2>2
    <3>2. applied[o][l] > 0 /\ applied[o][l] <= 1 + torn[o][l]  BY <2>1, <3>1 DEF StockAt
    <3>3. \/ l \in warehouse'[o] /\ torn'[o][l] = torn[o][l]
          \/ torn'[o][l] = torn[o][l] + 1
      BY <1>2, <2>2
    <3>4. QED  BY <2>1, <3>2, <3>3 DEF StockAt
  <2>3. CASE l # call[c].line
    <3>1. Held(o, l)' <=> Held(o, l)  BY <1>1, <2>3
    <3>2. QED  BY <1>2, <2>1, <2>3, <3>1 DEF StockAt
  <2>4. QED  BY <2>2, <2>3
<1>4. QED  BY <1>2, <1>3, OtherStock

\* The end of a line: the request goes to the next one, to store, or gives up.
LEMMA AdvanceFits ==
  ASSUME OrderInv, BookingFits, StockFits, NEW c \in Calls, NEW o \in Orders, o = call[c].o,
         Holds(c), call[c].pc \in Booking, Advance(c), call[c].line \in moved'[o],
         row' = row, warehouse' = warehouse, applied' = applied,
         \/ moved' = moved
         \/ /\ moved' = [moved EXCEPT ![o] = @ \cup {call[c].line}]
            /\ call[c].line \in warehouse[o] \cup call[c].fresh
  PROVE  BookingFits' /\ StockFits'
<1>0. /\ call \in [Calls -> Call] /\ call[c] \in Call /\ call[c].line \in Lines
      /\ call[c].fresh \in SUBSET Lines /\ moved \in [Orders -> SUBSET Lines]
      /\ NLines \in Nat
  BY PurchaseOrderAssumption DEF OrderInv, TypeOK, Call
<1>1. LinesFit(call[c], warehouse[o], moved[o]) /\ Books(call[c].row, call[c].rq)
  BY DEF BookingFits, OrderInv, Reads, HasRead, Inside
<1>2. /\ \A p \in Orders \ {o} : moved'[p] = moved[p]
      /\ \A l \in moved[o] : l \in moved'[o]
  BY <1>0
<1>3. CASE GiveUp(c)  BY <1>3, GiveUpStock
<1>4. CASE /\ call[c].line < NLines
           /\ call' = [call EXCEPT ![c].pc = "find", ![c].line = call[c].line + 1]
           /\ UNCHANGED <<queue, torn>>
  <2>1. /\ \A d \in Calls \ {c} : call'[d] = call[d]
        /\ call'[c].pc = "find" /\ call'[c].line = call[c].line + 1
        /\ call'[c].o = o /\ call'[c].fresh = call[c].fresh
        /\ call'[c].row = call[c].row /\ call'[c].rq = call[c].rq
    BY <1>0, <1>4 DEF Call
  <2>2. /\ \A l \in call[c].fresh : l <= call[c].line
        /\ \A l \in Lines : l < call[c].line => l \in moved[o]
    BY <1>1 DEF LinesFit
  <2>3. /\ \A l \in call'[c].fresh : l <= call'[c].line /\ l # call'[c].line
        /\ \A l \in Lines : l < call'[c].line => l \in moved'[o]
    BY <1>0, <1>2, <2>1, <2>2 DEF Lines
  <2>4. LinesFit(call'[c], warehouse'[call'[c].o], moved'[call'[c].o])
    BY <2>1, <2>3 DEF LinesFit, Inside, Booking
  <2>5. BookingFits'  BY <1>2, <2>1, <2>4, OthersFit
  <2>6. StockFits'  BY <1>4, <2>1, QuietStock
  <2>7. QED  BY <2>5, <2>6
<1>5. CASE call[c].line = NLines /\ Goto(c, "store") /\ UNCHANGED <<queue, torn>>
  <2>1. /\ \A d \in Calls \ {c} : call'[d] = call[d]
        /\ call'[c].pc = "store" /\ call'[c].line = call[c].line
        /\ call'[c].o = o /\ call'[c].fresh = call[c].fresh
        /\ call'[c].row = call[c].row /\ call'[c].rq = call[c].rq
    BY <1>0, <1>5 DEF Call, Goto
  <2>2. /\ \A l \in call[c].fresh : l <= call[c].line
        /\ \A l \in Lines : l < call[c].line => l \in moved[o]
    BY <1>1 DEF LinesFit
  <2>3. Lines \subseteq moved'[o]  BY <1>0, <1>2, <1>5, <2>2 DEF Lines
  <2>4. LinesFit(call'[c], warehouse'[call'[c].o], moved'[call'[c].o])
    BY <1>1, <2>1, <2>2, <2>3 DEF LinesFit, Inside, Booking
  <2>5. BookingFits'  BY <1>2, <2>1, <2>4, OthersFit
  <2>6. StockFits'  BY <1>5, <2>1, QuietStock
  <2>7. QED  BY <2>5, <2>6
<1>6. QED  BY <1>3, <1>4, <1>5 DEF Advance

\* The steps of a working request keep what is booked and stocked in line with it.
LEMMA WorkingFits ==
  ASSUME IInv, NEW c \in Calls, Working(c)  PROVE BookingFits' /\ StockFits'
<1> DEFINE k == call[c]
<1>0. /\ OrderInv /\ BookingFits /\ StockFits /\ TypeOK
      /\ call \in [Calls -> Call] /\ k \in Call /\ k.line \in Lines
      /\ warehouse \in [Orders -> SUBSET Lines] /\ moved \in [Orders -> SUBSET Lines]
  BY DEF IInv, OrderInv, TypeOK, Call
<1>a. PICK o \in Orders : o = k.o  BY <1>0 DEF Call
<1>b. LinesFit(k, warehouse[o], moved[o])  BY <1>0, <1>a DEF BookingFits
<1>c. Holds(c) /\ row' = row
  BY <1>0, WorkingStep DEF Works
<1>1. CASE Find(c)
  <2>1. /\ \A d \in Calls \ {c} : call'[d] = call[d]
        /\ call'[c].line = k.line /\ call'[c].o = o /\ call'[c].fresh = k.fresh
        /\ call'[c].row = k.row /\ call'[c].rq = k.rq /\ k.pc = "find"
        /\ \/ k.line \in warehouse[o] /\ call'[c].pc = "check" /\ call'[c].delta = FALSE
           \/ k.line \notin warehouse[o] /\ call'[c].pc = "receive"
    BY <1>0, <1>1, <1>a DEF Find, At, Call, Goto
  <2>2. warehouse' = warehouse /\ moved' = moved /\ applied' = applied /\ torn' = torn
    BY <1>1 DEF Find, stock
  <2>3. LinesFit(call'[c], warehouse'[call'[c].o], moved'[call'[c].o])
    BY <1>b, <2>1, <2>2 DEF LinesFit, Inside, Booking
  <2>4. QED  BY <1>0, <1>a, <1>c, <2>1, <2>2, <2>3, OthersFit, QuietStock
<1>2. CASE Receive(c)
  <2>1. /\ \A d \in Calls \ {c} : call'[d] = call[d]
        /\ call'[c].line = k.line /\ call'[c].o = o /\ call'[c].fresh = k.fresh \cup {k.line}
        /\ call'[c].row = k.row /\ call'[c].rq = k.rq /\ k.pc = "receive"
        /\ call'[c].pc = "receiveLog"
    BY <1>0, <1>2, <1>a DEF Receive, At, Call
  <2>2. warehouse' = warehouse /\ moved' = moved /\ torn' = torn /\ Add(c)
    BY <1>2 DEF Receive
  <2>3. k.line \notin k.fresh /\ k.line \notin warehouse[o]
    BY <1>b, <2>1 DEF LinesFit
  <2>4. LinesFit(call'[c], warehouse'[call'[c].o], moved'[call'[c].o])
    BY <1>0, <1>b, <2>1, <2>2 DEF LinesFit, Inside, Booking, Lines
  <2>5. BookingFits'  BY <1>0, <1>a, <1>c, <2>1, <2>2, <2>4, OthersFit
  <2>6. StockFits'  BY <1>0, <1>a, <1>c, <2>1, <2>2, <2>3, AddStock DEF Booking
  <2>7. QED  BY <2>5, <2>6
<1>3. CASE ReceiveLog(c)
  <2>1. /\ \A d \in Calls \ {c} : call'[d] = call[d]
        /\ call'[c].line = k.line /\ call'[c].o = o /\ call'[c].fresh = k.fresh \ {k.line}
        /\ call'[c].row = k.row /\ call'[c].rq = k.rq /\ k.pc = "receiveLog"
        /\ call'[c].pc = "check" /\ call'[c].delta = FALSE
    BY <1>0, <1>3, <1>a DEF ReceiveLog, At, Call
  <2>2. /\ warehouse' = [warehouse EXCEPT ![o] = @ \cup {k.line}]
        /\ moved' = moved /\ applied' = applied /\ torn' = torn
    BY <1>3, <1>a DEF ReceiveLog
  <2>3. k.line \in k.fresh  BY <1>b, <2>1 DEF LinesFit
  <2>4. k.line \in warehouse'[o] /\ \A p \in Orders \ {o} : warehouse'[p] = warehouse[p]
    BY <1>0, <2>2
  <2>5. LinesFit(call'[c], warehouse'[call'[c].o], moved'[call'[c].o])
    BY <1>b, <2>1, <2>2, <2>4 DEF LinesFit, Inside, Booking
  <2>6. BookingFits'  BY <1>0, <1>a, <1>c, <2>1, <2>2, <2>4, <2>5, OthersFit
  <2>7. StockFits'  BY <1>0, <1>a, <1>c, <2>1, <2>2, <2>3, ReleaseStock DEF Booking
  <2>8. QED  BY <2>6, <2>7
<1>4. CASE ReceiveRefused(c)
  <2>1. /\ \A d \in Calls \ {c} : call'[d] = call[d]
        /\ call'[c].line = k.line /\ call'[c].o = o /\ call'[c].fresh = k.fresh
        /\ call'[c].row = k.row /\ call'[c].rq = k.rq /\ k.pc = "receive"
        /\ call'[c].pc = "check" /\ call'[c].delta = TRUE
    BY <1>0, <1>4, <1>a DEF ReceiveRefused, At, Call
  <2>2. warehouse' = warehouse /\ moved' = moved /\ applied' = applied /\ torn' = torn
    BY <1>4 DEF ReceiveRefused, stock
  <2>3. LinesFit(call'[c], warehouse'[call'[c].o], moved'[call'[c].o])
    BY <1>b, <2>1, <2>2 DEF LinesFit, Inside, Booking
  <2>4. QED  BY <1>0, <1>a, <1>c, <2>1, <2>2, <2>3, OthersFit, QuietStock
<1>5. CASE ReceiveFail(c)
  <2>1. /\ \A d \in Calls \ {c} : call'[d] = call[d]
        /\ call'[c].line = k.line /\ call'[c].o = o /\ call'[c].fresh = k.fresh \ {k.line}
        /\ call'[c].row = k.row /\ call'[c].rq = k.rq /\ k.pc = "receiveLog"
        /\ call'[c].pc = "check" /\ call'[c].delta = TRUE
    BY <1>0, <1>5, <1>a DEF ReceiveFail, At, Call
  <2>2. /\ torn' = [torn EXCEPT ![o][k.line] = @ + 1]
        /\ warehouse' = warehouse /\ moved' = moved /\ applied' = applied
    BY <1>5, <1>a DEF ReceiveFail
  <2>3. k.line \in k.fresh /\ k.line \notin warehouse[o]  BY <1>b, <2>1 DEF LinesFit
  <2>4. LinesFit(call'[c], warehouse'[call'[c].o], moved'[call'[c].o])
    BY <1>b, <2>1, <2>2, <2>3 DEF LinesFit, Inside, Booking
  <2>5. BookingFits'  BY <1>0, <1>a, <1>c, <2>1, <2>2, <2>4, OthersFit
  <2>6. StockFits'  BY <1>0, <1>a, <1>c, <2>1, <2>2, <2>3, ReleaseStock DEF Booking
  <2>7. QED  BY <2>5, <2>6
<1>6. CASE Check(c)
  <2>1. k.pc = "check" /\ warehouse' = warehouse /\ moved' = moved /\ applied' = applied
    BY <1>6 DEF Check, At
  <2>2. CASE AlreadyMoved(c) /\ Advance(c)
    BY <1>0, <1>a, <1>c, <2>1, <2>2, AdvanceFits DEF AlreadyMoved, Booking
  <2>3. CASE Goto(c, IF k.delta THEN "apply" ELSE "log") /\ UNCHANGED <<queue, torn>>
    <3>1. /\ \A d \in Calls \ {c} : call'[d] = call[d]
          /\ call'[c].line = k.line /\ call'[c].o = o /\ call'[c].fresh = k.fresh
          /\ call'[c].row = k.row /\ call'[c].rq = k.rq
          /\ call'[c].pc = IF k.delta THEN "apply" ELSE "log"
      BY <1>0, <2>3, <1>a DEF Call, Goto
    <3>2. LinesFit(call'[c], warehouse'[call'[c].o], moved'[call'[c].o])
      <4>1. CASE k.delta
        BY <1>b, <2>1, <3>1, <4>1 DEF LinesFit, Inside, Booking
      <4>2. CASE ~k.delta
        BY <1>b, <2>1, <3>1, <4>2 DEF LinesFit, Inside, Booking
      <4>3. QED  BY <4>1, <4>2
    <3>3. QED  BY <1>0, <1>a, <1>c, <2>1, <2>3, <3>1, <3>2, OthersFit, QuietStock
  <2>4. QED  BY <1>6, <2>2, <2>3 DEF Check
<1>7. CASE Apply(c)
  <2>1. /\ \A d \in Calls \ {c} : call'[d] = call[d]
        /\ call'[c].line = k.line /\ call'[c].o = o /\ call'[c].fresh = k.fresh \cup {k.line}
        /\ call'[c].row = k.row /\ call'[c].rq = k.rq /\ k.pc = "apply" /\ call'[c].pc = "log"
    BY <1>0, <1>7, <1>a DEF Apply, At, Call
  <2>2. warehouse' = warehouse /\ moved' = moved /\ torn' = torn /\ Add(c)
    BY <1>7 DEF Apply
  <2>3. k.line \notin k.fresh /\ k.line \notin warehouse[o]
    BY <1>b, <2>1 DEF LinesFit
  <2>4. LinesFit(call'[c], warehouse'[call'[c].o], moved'[call'[c].o])
    BY <1>0, <1>b, <2>1, <2>2 DEF LinesFit, Inside, Booking, Lines
  <2>5. BookingFits'  BY <1>0, <1>a, <1>c, <2>1, <2>2, <2>4, OthersFit
  <2>6. StockFits'  BY <1>0, <1>a, <1>c, <2>1, <2>2, <2>3, AddStock DEF Booking
  <2>7. QED  BY <2>5, <2>6
<1>8. CASE Log(c)
  <2>1. /\ k.pc = "log" /\ Advance(c) /\ warehouse' = warehouse /\ applied' = applied
        /\ moved' = [moved EXCEPT ![o] = @ \cup {k.line}]
    BY <1>8, <1>a DEF Log, At
  <2>2. k.line \in warehouse[o] \cup k.fresh  BY <1>b, <2>1 DEF LinesFit
  <2>3. k.line \in moved'[o]  BY <1>0, <2>1
  <2>4. QED  BY <1>0, <1>a, <1>c, <2>1, <2>2, <2>3, AdvanceFits DEF Booking
<1>9. CASE Abort(c)
  BY <1>0, <1>9, <1>a, <1>c, GiveUpStock DEF Abort
<1>10. QED  BY <1>1, <1>2, <1>3, <1>4, <1>5, <1>6, <1>7, <1>8, <1>9 DEF Working

\* A request reads its order and is refused, books, or goes on to store.
LEMMA StartFits ==
  ASSUME IInv, NEW c \in Calls, Start(c)  PROVE BookingFits' /\ StockFits'
<1>0. /\ OrderInv /\ BookingFits /\ StockFits /\ TypeOK
      /\ call \in [Calls -> Call] /\ call[c] \in Call
  BY DEF IInv, OrderInv, TypeOK, Call
<1>a. PICK o \in Orders : o = call[c].o  BY <1>0 DEF Call
<1>1. /\ Holds(c) /\ row' = row /\ warehouse' = warehouse /\ moved' = moved /\ applied' = applied
      /\ call[c].pc = "queued"
  BY DEF Start, At
<1>2. CASE GiveUp(c)
  <2>1. Holds(c) /\ row' = row /\ warehouse' = warehouse /\ moved' = moved /\ applied' = applied
    BY <1>1
  <2>2. QED  BY <1>0, <1>2, <1>a, <2>1, GiveUpStock
<1>3. CASE /\ call' = [call EXCEPT ![c].row = row[call[c].o],
                         ![c].pc = IF Books(row[call[c].o], call[c].rq) THEN "find" ELSE "store"]
           /\ UNCHANGED <<queue, torn>>
  <2>1. /\ \A d \in Calls \ {c} : call'[d] = call[d]
        /\ call'[c].line = call[c].line /\ call'[c].o = o /\ call'[c].fresh = call[c].fresh
        /\ call'[c].row = row[o] /\ call'[c].rq = call[c].rq
        /\ Books(row[o], call[c].rq) => call'[c].pc = "find"
        /\ ~Books(row[o], call[c].rq) => call'[c].pc = "store"
    BY <1>0, <1>3, <1>a DEF Call
  <2>2. call[c].fresh = {} /\ call[c].line = 1
    BY <1>0, <1>1 DEF BookingFits, LinesFit, Inside, Booking
  <2>3. \A l \in Lines : ~(l < 1)  BY DEF Lines
  <2>4. LinesFit(call'[c], warehouse'[call'[c].o], moved'[call'[c].o])
    BY <2>1, <2>2, <2>3 DEF LinesFit, Inside, Booking
  <2>5. QED  BY <1>0, <1>1, <1>3, <1>a, <2>1, <2>4, OthersFit, QuietStock
<1>4. QED  BY <1>2, <1>3 DEF Start

\* The order is stored: what its request held is in a booked order.
LEMMA StoreFits ==
  ASSUME IInv, NEW c \in Calls, Store(c)  PROVE BookingFits' /\ StockFits'
<1>0. /\ OrderInv /\ BookingFits /\ StockFits /\ TypeOK
      /\ call \in [Calls -> Call] /\ call[c] \in Call /\ row \in [Orders -> Row]
  BY DEF IInv, OrderInv, TypeOK, Call
<1>a. PICK o \in Orders : o = call[c].o  BY <1>0 DEF Call
<1> DEFINE k == call[c]
           s == Stored(k.row, k.rq)
<1>1. /\ Holds(c) /\ warehouse' = warehouse /\ moved' = moved /\ applied' = applied /\ torn' = torn
      /\ k.pc = "store" /\ call'[c] = Idle /\ \A d \in Calls \ {c} : call'[d] = call[d]
  BY <1>0 DEF Store, At, stock
<1>2. /\ row' = [row EXCEPT ![o] = s] /\ HasRead(k, row[o]) /\ s \in Row /\ k.row \in Row
      /\ Books(k.row, k.rq) => s.booked
      /\ ~Books(k.row, k.rq) => s.booked = k.row.booked
  BY <1>0, <1>a, StoreFacts
<1> HIDE DEF s
<1>3. BookingFits'  BY <1>0, <1>1, IdleFits, OthersFit
<1>4. /\ \A l : Held(o, l)' <=> FALSE
      /\ \A p \in Orders \ {o}, l \in Lines : Held(p, l)' <=> Held(p, l)
      /\ \A l : Held(o, l) <=> l \in k.fresh
  <2>1. call'[c].fresh = {}  BY <1>1, IdleOutside
  <2>2. /\ \A l : Held(o, l)' <=> l \in call'[c].fresh
        /\ \A p \in Orders \ {o}, l \in Lines : Held(p, l)' <=> Held(p, l)
    BY <1>0, <1>1, <1>a, <2>1, HeldStep
  <2>3. \A l : Held(call[c].o, l) <=> l \in k.fresh  BY <1>0, <1>1, HeldAlone
  <2>4. QED  BY <1>a, <2>1, <2>2, <2>3
<1>5. k.row.booked <=> row[o].booked
  <2>1. Loosable(k.row) => ~k.row.booked  BY DEF Loosable, Unreceived
  <2>2. QED  BY <1>2, <2>1 DEF HasRead, Unreceived
<1>6. ASSUME NEW p \in Orders, NEW l \in Lines PROVE StockAt(p, l)'
  <2>1. StockAt(p, l)  BY <1>0 DEF StockFits
  <2>2. CASE p # o
    <3>1. row'[p] = row[p]  BY <1>0, <1>2, <2>2
    <3>2. QED  BY <1>1, <1>4, <2>1, <2>2, <3>1 DEF StockAt
  <2>3. CASE p = o
    <3>1. row'[o] = s  BY <1>0, <1>2
    <3>2. LinesFit(k, warehouse[o], moved[o])  BY <1>0, <1>a DEF BookingFits
    <3>3. CASE Books(k.row, k.rq)
      <4>1. s.booked /\ l \in moved[o]  BY <1>1, <1>2, <3>2, <3>3 DEF LinesFit
      <4>2. QED  BY <1>1, <1>4, <2>1, <2>3, <3>1, <4>1 DEF StockAt
    <3>4. CASE ~Books(k.row, k.rq)
      <4>1. s.booked <=> row[o].booked  BY <1>2, <1>5, <3>4
      <4>2. ~Held(o, l)  BY <1>1, <1>4, <3>2, <3>4 DEF LinesFit
      <4>3. QED  BY <1>1, <1>4, <2>1, <2>3, <3>1, <4>1, <4>2 DEF StockAt
    <3>5. QED  BY <3>3, <3>4
  <2>4. QED  BY <2>2, <2>3
<1>7. QED  BY <1>3, <1>6 DEF StockFits

\* The process stops: what requests held is torn.
LEMMA CrashFits ==
  ASSUME IInv, Crash  PROVE BookingFits' /\ StockFits'
<1>0. /\ StockFits /\ call \in [Calls -> Call] /\ row' = row
      /\ warehouse' = warehouse /\ moved' = moved /\ applied' = applied
      /\ applied \in [Orders -> [Lines -> Nat]] /\ torn \in [Orders -> [Lines -> Nat]]
      /\ \A c \in Calls : call'[c] = Idle
  BY DEF IInv, OrderInv, TypeOK, Crash
<1>1. BookingFits'
  <2>1. \A c \in Calls : LinesFit(call'[c], warehouse'[call'[c].o], moved'[call'[c].o])
    BY <1>0, IdleFits
  <2>2. QED  BY <2>1 DEF BookingFits, LinesFit, Inside, Booking, Books, ManualPending
<1>2. \A o, l : ~Held(o, l)'  BY <1>0, IdleOutside DEF Held
<1>3. ASSUME NEW o \in Orders, NEW l \in Lines PROVE StockAt(o, l)'
  <2> DEFINE broken == {c \in Calls : call[c].o = o /\ l \in call[c].fresh}
  <2>1. IsFiniteSet(broken) /\ Cardinality(broken) \in Nat
    BY PurchaseOrderAssumption, FS_Subset, FS_CardinalityType
  <2>2. Held(o, l) => Cardinality(broken) # 0
    <3>1. Held(o, l) => broken # {}  BY DEF Held
    <3>2. QED  BY <2>1, <3>1, FS_EmptySet
  <2>3. torn'[o][l] = torn[o][l] + Cardinality(broken)  BY DEF Crash
  <2> HIDE DEF broken
  <2>4. StockAt(o, l) /\ applied[o][l] \in Nat /\ torn[o][l] \in Nat
    BY <1>0 DEF StockFits
  <2> DEFINE n == Cardinality(broken)
  <2>5. n \in Nat /\ torn'[o][l] = torn[o][l] + n /\ (Held(o, l) => n # 0)
    BY <2>1, <2>2, <2>3
  <2> HIDE DEF n
  <2>6. torn[o][l] <= torn'[o][l] /\ (Held(o, l) => 1 + torn[o][l] <= torn'[o][l])
        /\ torn'[o][l] \in Nat
    BY <2>4, <2>5
  <2>7. applied'[o][l] <= torn'[o][l] \/ row[o].booked \/ l \in warehouse[o]
    BY <1>0, <2>4, <2>6 DEF StockAt
  <2>8. applied'[o][l] <= 1 + torn'[o][l]
    BY <1>0, <2>4, <2>6 DEF StockAt
  <2>9. QED  BY <1>0, <1>2, <2>4, <2>7, <2>8 DEF StockAt
<1>4. QED  BY <1>1, <1>3 DEF StockFits

\* Every step keeps the invariant.
LEMMA IInvStep == IInv /\ [Next]_vars => IInv'
<1> SUFFICES ASSUME IInv, [Next]_vars PROVE IInv'  OBVIOUS
<1>0. /\ OrderInv /\ BookingFits /\ StockFits /\ TypeOK
      /\ call \in [Calls -> Call] /\ row \in [Orders -> Row]
  BY DEF IInv, OrderInv, TypeOK
<1>o. OrderInv'  BY <1>0, OrderStep
<1> SUFFICES BookingFits' /\ StockFits'  BY <1>o DEF IInv
<1>1. ASSUME NEW c \in Calls, Working(c) PROVE BookingFits' /\ StockFits'
  BY <1>1, WorkingFits
<1>2. ASSUME NEW c \in Calls, Start(c) PROVE BookingFits' /\ StockFits'
  BY <1>2, StartFits
<1>3. ASSUME NEW c \in Calls, Store(c) PROVE BookingFits' /\ StockFits'
  BY <1>3, StoreFits
<1>4. ASSUME NEW c \in Calls, NEW o \in Orders, NEW rq \in Requests, Request(c, o, rq)
      PROVE BookingFits' /\ StockFits'
  <2>1. /\ \A d \in Calls \ {c} : call'[d] = call[d]
        /\ call'[c].fresh = {} /\ call'[c].line = 1 /\ call'[c].pc = "queued"
        /\ call[c].pc = "idle"
    BY <1>0, <1>4 DEF Request, Idle
  <2>2. row' = row /\ warehouse' = warehouse /\ moved' = moved /\ applied' = applied /\ torn' = torn
    BY <1>4 DEF Request, stock
  <2>3. call[c].fresh = {}  BY <1>0, <2>1 DEF BookingFits, LinesFit, Inside, Booking
  <2>4. \A d \in Calls : LinesFit(call'[d], warehouse'[call'[d].o], moved'[call'[d].o])
    BY <1>0, <2>1, <2>2 DEF BookingFits, LinesFit, Inside, Booking
  <2>5. BookingFits'  BY <2>4 DEF BookingFits, LinesFit, Inside, Booking, Books, ManualPending
  <2>6. \A p, l : Held(p, l)' <=> Held(p, l)  BY <2>1, <2>3 DEF Held
  <2>7. StockFits'  BY <1>0, <2>2, <2>6 DEF StockFits, StockAt
  <2>8. QED  BY <2>5, <2>7
<1>same. ASSUME call' = call, warehouse' = warehouse, moved' = moved, applied' = applied,
                torn' = torn, \A o \in Orders : row'[o].booked <=> row[o].booked
         PROVE  BookingFits' /\ StockFits'
  <2>1. BookingFits'
    BY <1>0, <1>same DEF BookingFits, LinesFit, Inside, Booking, Books, ManualPending
  <2>2. \A p, l : Held(p, l)' <=> Held(p, l)  BY <1>same DEF Held
  <2>3. StockFits'  BY <1>0, <1>same, <2>2 DEF StockFits, StockAt
  <2>4. QED  BY <2>1, <2>3
<1>5. ASSUME NEW t \in Ticks, ScanStart(t) \/ ScanFail(t) PROVE BookingFits' /\ StockFits'
  <2>1. row' = row /\ call' = call /\ warehouse' = warehouse /\ moved' = moved
        /\ applied' = applied /\ torn' = torn
    BY <1>5 DEF ScanStart, ScanFail, stock
  <2>2. QED  BY <1>same, <2>1
<1>6. ASSUME NEW t \in Ticks, NEW o \in Orders, ScanOrder(t, o) PROVE BookingFits' /\ StockFits'
  <2>1. call' = call /\ warehouse' = warehouse /\ moved' = moved
        /\ applied' = applied /\ torn' = torn
    BY <1>6 DEF ScanOrder, stock
  <2>2. \A p \in Orders : row'[p].booked <=> row[p].booked
    BY <1>0, <1>6, ScanFacts DEF Loosable, Unreceived
  <2>3. QED  BY <1>same, <2>1, <2>2
<1>7. ASSUME NEW o \in Orders, Tick(o) PROVE BookingFits' /\ StockFits'
  <2>1. row' = row /\ call' = call /\ warehouse' = warehouse /\ moved' = moved
        /\ applied' = applied /\ torn' = torn
    BY <1>7 DEF Tick, stock
  <2>2. QED  BY <1>same, <2>1
<1>8. CASE Crash  BY <1>8, CrashFits
<1>9. CASE UNCHANGED vars
  <2>1. row' = row /\ call' = call /\ warehouse' = warehouse /\ moved' = moved
        /\ applied' = applied /\ torn' = torn
    BY <1>9 DEF vars, stock
  <2>2. QED  BY <1>same, <2>1
<1>10. QED
  BY <1>1, <1>2, <1>3, <1>4, <1>5, <1>6, <1>7, <1>8, <1>9 DEF Next, Update, Working

\* Init establishes the invariant.
LEMMA IInvInit == Init => IInv
<1> SUFFICES ASSUME Init PROVE IInv  OBVIOUS
<1>1. TypeOK
  <2>1. row \in [Orders -> Row]
    <3>1. Fresh("draft") \in Row /\ Fresh("submitted_for_approval") \in Row
      BY DEF Fresh, Row, Statuses
    <3>2. QED  BY <3>1 DEF Init
  <2>2. call \in [Calls -> Call] /\ scan \in [Ticks -> Scan]  BY IdleType DEF Init
  <2>3. QED  BY <2>1, <2>2 DEF Init, TypeOK, Timeline
<1>2. /\ \A c \in Calls : call[c] = Idle
      /\ \A t \in Ticks : scan[t].todo = {}
      /\ \A o \in Orders : ~row[o].booked /\ ~row[o].received
           /\ row[o].status \in {"draft", "submitted_for_approval"}
  BY DEF Init, NoScan, Fresh
<1>3. Lock /\ Reads /\ Scans /\ RowShape
  BY <1>2, IdleOutside DEF Lock, Reads, Scans, RowShape, Shape, Unreceived
<1>4. BookingFits  BY <1>2, IdleFits DEF BookingFits
<1>5. StockFits
  BY <1>2, IdleOutside DEF Init, StockFits, StockAt, Held
<1>6. QED  BY <1>1, <1>3, <1>4, <1>5 DEF IInv, OrderInv

\* It holds in every reachable state.
LEMMA IInvHolds == Spec => []IInv
BY IInvInit, IInvStep, PTL DEF Spec

\* Stock: a line of an order is added to the stock once, plus once per attempt
\* that broke off between the addition and its record.
THEOREM StockSafe == Spec => []StockAppliedOnce
<1>1. IInv => StockAppliedOnce  BY DEF IInv, StockFits, StockAt, StockAppliedOnce
<1>2. QED  BY <1>1, IInvHolds, PTL

\* Stock entry: an order that says its stock entry is complete has every line
\* in stock, with a stock movement.
THEOREM BookedSafe == Spec => []BookedMeansStocked
<1>1. IInv => BookedMeansStocked
  BY DEF IInv, StockFits, StockAt, BookedMeansStocked
<1>2. QED  BY <1>1, IInvHolds, PTL

-----------------------------------------------------------------------------
(* The orders implement StockEntry.                                        *)

Phase == [o \in Orders |-> PhaseOf(row[o])]

\* A step that changes one order changes one phase.
LEMMA PhaseChange ==
  ASSUME TypeOK, NEW o \in Orders, row' \in [Orders -> Row],
         \A p \in Orders \ {o} : row'[p] = row[p]
  PROVE  Phase' = [Phase EXCEPT ![o] = PhaseOf(row'[o])]
<1>1. Phase' = [p \in Orders |-> PhaseOf(row'[p])]  BY DEF Phase, PhaseOf
<1>2. \A p \in Orders \ {o} : PhaseOf(row'[p]) = PhaseOf(row[p])  OBVIOUS
<1>3. QED  BY <1>1, <1>2, Zenon DEF Phase

\* A booking stocks an order that is not entered and not closed.
LEMMA BookingPhase ==
  ASSUME OrderInv, NEW c \in Calls, call[c].pc \in Booking
  PROVE  PhaseOf(row[call[c].o]) \in {"open", "received", "returned"}
<1> DEFINE k == call[c]
<1>1. /\ HasRead(k, row[k.o]) /\ Books(k.row, k.rq) /\ Shape(k.row)
      /\ k.row \in Row /\ k.rq \in Requests /\ ~RefusedEarly(k.row, k.rq)
  BY DEF OrderInv, TypeOK, Call, Reads, Inside, HasRead
<1>2. /\ ~k.row.booked
      /\ k.row.status \in {"goods_receipt_pending", "stock_entry_pending", "cancelled"}
      /\ k.row.status = "cancelled" => k.row.received
  BY <1>1, BooksShape
<1>3. ~Loosable(k.row)  BY <1>2 DEF Loosable, Unreceived, Stretch, Closed
<1>4. k.row = row[k.o]  BY <1>1, <1>3 DEF HasRead
<1>5. ~k.row.received => k.row.status \notin Closed  BY <1>2 DEF Closed
<1>6. PhaseOf(k.row) \in {"open", "received", "returned"}
  BY <1>1, <1>2, <1>5, PhaseFacts DEF Row
<1>7. QED  BY <1>4, <1>6

\* A stock movement is a step of the promise, or one that was made before.
LEMMA LogImplements ==
  ASSUME IInv, NEW c \in Calls, Log(c)
  PROVE  \/ \E o \in Orders, l \in Lines : Promise!Stock(o, l)
         \/ row' = row /\ moved' = moved
<1>1. /\ OrderInv /\ call[c].o \in Orders /\ call[c].line \in Lines
      /\ moved \in [Orders -> SUBSET Lines] /\ call[c].pc \in Booking
  BY DEF IInv, OrderInv, TypeOK, Call, Log, At, Booking
<1>2. row' = row /\ moved' = [moved EXCEPT ![call[c].o] = @ \cup {call[c].line}]
  BY DEF Log
<1>3. CASE call[c].line \in moved[call[c].o]
  <2>1. moved[call[c].o] \cup {call[c].line} = moved[call[c].o]  BY <1>3
  <2>2. moved' = moved  BY <1>1, <1>2, <2>1
  <2>3. QED  BY <1>2, <2>2
<1>4. CASE call[c].line \notin moved[call[c].o]
  <2>1. PhaseOf(row[call[c].o]) \in {"open", "received", "returned"}
    BY <1>1, BookingPhase
  <2>2. Promise!Stock(call[c].o, call[c].line)
    BY <1>1, <1>2, <1>4, <2>1 DEF Promise!Stock, PhaseOf
  <2>3. QED  BY <1>1, <2>2
<1>5. QED  BY <1>3, <1>4

\* Storing an order is a receipt, an entry, a closing, a return, a revival or
\* none of them; an order is entered when all its lines are stocked.
LEMMA StoreImplements ==
  ASSUME IInv, NEW c \in Calls, Store(c)
  PROVE  Promise!SENext \/ (Phase' = Phase /\ moved' = moved)
<1> DEFINE k == call[c]
           s == Stored(k.row, k.rq)
<1>a. PICK o \in Orders : o = k.o  BY DEF IInv, OrderInv, TypeOK, Call
<1>0. /\ OrderInv /\ TypeOK /\ BookingFits /\ row \in [Orders -> Row]
      /\ moved \in [Orders -> SUBSET Lines] /\ moved' = moved /\ k.pc = "store"
  BY DEF IInv, OrderInv, TypeOK, Store, At, stock
<1>1. /\ HasRead(k, row[o]) /\ row' = [row EXCEPT ![o] = s]
      /\ k.row \in Row /\ k.rq \in Requests /\ s \in Row
      /\ Books(k.row, k.rq) => s.booked
      /\ ~Books(k.row, k.rq) => s.booked = k.row.booked
      /\ Loosable(k.row) => ~Books(k.row, k.rq) /\ Loosable(s)
  BY <1>0, <1>a, StoreFacts
<1>2. /\ Shape(k.row) /\ ~RefusedEarly(k.row, k.rq)
      /\ Books(k.row, k.rq) => ~RefusedLate(k.row, k.rq)
  BY <1>0, <1>1 DEF HasRead
<1>3. /\ k.row.received => s.received
      /\ PhaseOf(k.row) = "closed" => PhaseOf(s) = "closed"
      /\ PhaseOf(k.row) = "returned" => PhaseOf(s) = "returned"
      /\ PhaseOf(k.row) = "open" => PhaseOf(s) # "returned"
  BY <1>1, <1>2, StoredShape
<1> HIDE DEF s
<1>4. Phase' = [Phase EXCEPT ![o] = PhaseOf(s)] /\ Phase[o] = PhaseOf(row[o])
  <2>1. row' \in [Orders -> Row] /\ row'[o] = s /\ \A p \in Orders \ {o} : row'[p] = row[p]
    BY <1>0, <1>1
  <2>2. QED  BY <1>0, <2>1, PhaseChange DEF Phase
<1>5. row[o] \in Row  BY <1>0
<1>6. SUFFICES \/ PhaseOf(s) = PhaseOf(row[o])
               \/ PhaseOf(row[o]) = "open" /\ PhaseOf(s) \in {"received", "closed"}
               \/ PhaseOf(row[o]) \in {"open", "received"} /\ PhaseOf(s) = "entered"
                  /\ moved[o] = Lines
               \/ PhaseOf(row[o]) = "received" /\ PhaseOf(s) = "returned"
               \/ PhaseOf(row[o]) = "closed" /\ PhaseOf(s) = "open"
  <2>1. CASE PhaseOf(s) = PhaseOf(row[o])
    <3>1. Phase' = Phase  BY <1>4, <2>1 DEF Phase
    <3>2. QED  BY <1>0, <3>1
  <2>2. CASE PhaseOf(row[o]) = "open" /\ PhaseOf(s) = "received"
    <3>1. Promise!Receive(o)
      BY <1>0, <1>4, <2>2 DEF Promise!Receive, Promise!Move, Phase
    <3>2. QED  BY <3>1 DEF Promise!SENext
  <2>3. CASE PhaseOf(row[o]) = "open" /\ PhaseOf(s) = "closed"
    <3>1. Promise!Close(o)
      BY <1>0, <1>4, <2>3 DEF Promise!Close, Promise!Move, Phase
    <3>2. QED  BY <3>1 DEF Promise!SENext
  <2>4. CASE PhaseOf(row[o]) \in {"open", "received"} /\ PhaseOf(s) = "entered" /\ moved[o] = Lines
    <3>1. Promise!Enter(o)
      BY <1>0, <1>4, <2>4 DEF Promise!Enter, Promise!Move, Phase
    <3>2. QED  BY <3>1 DEF Promise!SENext
  <2>5. CASE PhaseOf(row[o]) = "received" /\ PhaseOf(s) = "returned"
    <3>1. Promise!Return(o)
      BY <1>0, <1>4, <2>5 DEF Promise!Return, Promise!Move, Phase
    <3>2. QED  BY <3>1 DEF Promise!SENext
  <2>6. CASE PhaseOf(row[o]) = "closed" /\ PhaseOf(s) = "open"
    <3>1. Promise!Revive(o)
      BY <1>0, <1>4, <2>6 DEF Promise!Revive, Promise!Move, Phase
    <3>2. QED  BY <3>1 DEF Promise!SENext
  <2>7. QED  BY <1>6, <2>1, <2>2, <2>3, <2>4, <2>5, <2>6
<1>7. CASE Loosable(k.row)
  <2>1. Loosable(s) /\ Unreceived(row[o])
    BY <1>1, <1>7 DEF HasRead, Loosable
  <2>2. PhaseOf(s) \in {"open", "closed"} /\ PhaseOf(row[o]) \in {"open", "closed"}
    BY <1>1, <1>5, <2>1, PhaseFacts DEF Loosable, Unreceived
  <2>3. QED  BY <2>2
<1>8. CASE k.row = row[o]
  <2>1. CASE Books(k.row, k.rq)
    <3>1. LinesFit(k, warehouse[o], moved[o])  BY <1>0, <1>a DEF BookingFits
    <3>2. moved[o] = Lines  BY <1>0, <2>1, <3>1 DEF LinesFit
    <3>3. PhaseOf(s) = "entered"  BY <1>1, <2>1, PhaseFacts
    <3>4. ~k.row.booked /\ k.row.status \in {"goods_receipt_pending", "stock_entry_pending"}
      BY <1>1, <1>2, <2>1, BooksShape
    <3>5. PhaseOf(k.row) \in {"open", "received"}
      BY <1>1, <3>4, PhaseFacts DEF Closed, Row
    <3>6. QED  BY <1>8, <3>2, <3>3, <3>5
  <2>2. CASE ~Books(k.row, k.rq)
    <3>1. PhaseOf(s) = "entered" <=> PhaseOf(k.row) = "entered"
      BY <1>1, <2>2, PhaseFacts
    <3>2. PhaseOf(k.row) = "received" => PhaseOf(s) \in {"entered", "received", "returned"}
      BY <1>1, <1>3, PhaseFacts DEF Row
    <3>3. /\ PhaseOf(s) \in {"entered", "closed", "returned", "open", "received"}
          /\ PhaseOf(k.row) \in {"entered", "closed", "returned", "open", "received"}
      BY <1>1, PhaseFacts DEF Row
    <3>4. QED  BY <1>3, <1>8, <3>1, <3>2, <3>3
  <2>3. QED  BY <2>1, <2>2
<1>9. QED  BY <1>1, <1>7, <1>8 DEF HasRead

\* A tick closes an order, revives a closed one or leaves its phase.
LEMMA ScanImplements ==
  ASSUME IInv, NEW t \in Ticks, NEW o \in Orders, ScanOrder(t, o)
  PROVE  Promise!SENext \/ (Phase' = Phase /\ moved' = moved)
<1>0. /\ OrderInv /\ TypeOK /\ TypeOK' /\ row \in [Orders -> Row] /\ row' \in [Orders -> Row]
      /\ moved' = moved
  <2>1. [Next]_vars  BY DEF Next
  <2>2. TypeOK /\ TypeOK'  BY <2>1, TypeStep DEF IInv, OrderInv
  <2>3. QED  BY <2>2 DEF IInv, OrderInv, TypeOK, ScanOrder, stock
<1>1. /\ Loosable(row[o]) /\ (row'[o] = row[o] \/ Unreceived(row'[o]))
      /\ \A p \in Orders \ {o} : row'[p] = row[p]
  BY <1>0, ScanFacts
<1>2. Phase' = [Phase EXCEPT ![o] = PhaseOf(row'[o])] /\ Phase[o] = PhaseOf(row[o])
  BY <1>0, <1>1, PhaseChange DEF Phase
<1>3. PhaseOf(row[o]) \in {"open", "closed"} /\ PhaseOf(row'[o]) \in {"open", "closed"}
  <2>1. Unreceived(row[o]) /\ Unreceived(row'[o])  BY <1>1 DEF Loosable
  <2>2. row[o] \in Row /\ row'[o] \in Row  BY <1>0
  <2>3. QED  BY <2>1, <2>2, PhaseFacts DEF Unreceived
<1>4. CASE PhaseOf(row'[o]) = PhaseOf(row[o])
  <2>1. Phase' = Phase  BY <1>2, <1>4 DEF Phase
  <2>2. QED  BY <1>0, <2>1
<1>5. CASE PhaseOf(row[o]) = "open" /\ PhaseOf(row'[o]) = "closed"
  <2>1. Promise!Close(o)  BY <1>0, <1>2, <1>5 DEF Promise!Close, Promise!Move, Phase
  <2>2. QED  BY <2>1 DEF Promise!SENext
<1>6. CASE PhaseOf(row[o]) = "closed" /\ PhaseOf(row'[o]) = "open"
  <2>1. Promise!Revive(o)  BY <1>0, <1>2, <1>6 DEF Promise!Revive, Promise!Move, Phase
  <2>2. QED  BY <2>1 DEF Promise!SENext
<1>7. QED  BY <1>3, <1>4, <1>5, <1>6

\* A step is a step of StockEntry or leaves its variables alone.
LEMMA StepImplements ==
  ASSUME IInv, [Next]_vars
  PROVE  Promise!SENext \/ (Phase' = Phase /\ moved' = moved)
<1>same. ASSUME row' = row, moved' = moved PROVE Phase' = Phase /\ moved' = moved
  BY <1>same DEF Phase, PhaseOf
<1>1. ASSUME NEW c \in Calls, Log(c) PROVE Promise!SENext \/ (Phase' = Phase /\ moved' = moved)
  BY <1>1, <1>same, LogImplements DEF Promise!SENext
<1>2. ASSUME NEW c \in Calls, Store(c) PROVE Promise!SENext \/ (Phase' = Phase /\ moved' = moved)
  BY <1>2, StoreImplements
<1>3. ASSUME NEW t \in Ticks, NEW o \in Orders, ScanOrder(t, o)
      PROVE Promise!SENext \/ (Phase' = Phase /\ moved' = moved)
  BY <1>3, ScanImplements
<1>4. ASSUME NEW c \in Calls, \/ Start(c) \/ Find(c) \/ Receive(c) \/ ReceiveLog(c)
                              \/ ReceiveRefused(c) \/ ReceiveFail(c) \/ Check(c) \/ Apply(c) \/ Abort(c)
      PROVE row' = row /\ moved' = moved
  BY <1>4 DEF Start, Find, Receive, ReceiveLog, ReceiveRefused, ReceiveFail, Check, Apply, Abort, stock
<1>5. ASSUME NEW c \in Calls, NEW o \in Orders, NEW rq \in Requests, Request(c, o, rq)
      PROVE row' = row /\ moved' = moved
  BY <1>5 DEF Request, stock
<1>6. ASSUME NEW t \in Ticks, ScanStart(t) \/ ScanFail(t) PROVE row' = row /\ moved' = moved
  BY <1>6 DEF ScanStart, ScanFail, stock
<1>7. ASSUME NEW o \in Orders, Tick(o) PROVE row' = row /\ moved' = moved
  BY <1>7 DEF Tick, stock
<1>8. Crash => row' = row /\ moved' = moved  BY DEF Crash
<1>9. UNCHANGED vars => row' = row /\ moved' = moved  BY DEF vars, stock
<1>10. QED
  BY <1>same, <1>1, <1>2, <1>3, <1>4, <1>5, <1>6, <1>7, <1>8, <1>9 DEF Next, Update

\* Refinement: whatever requests, ticks, errors and restarts do, the stored
\* orders and their stock movements are a behaviour of StockEntry.
THEOREM Implements == Spec => ImplementsStockEntry
<1>1. Init => Promise!SEInit
  <2> SUFFICES ASSUME Init PROVE Promise!SEInit  OBVIOUS
  <2>1. IInv  BY IInvInit
  <2>2. \A o \in Orders : PhaseOf(row[o]) = "open"
    <3>1. \A o \in Orders : row[o] \in Row /\ ~row[o].booked /\ ~row[o].received
            /\ row[o].status \notin Closed
      BY <2>1 DEF IInv, OrderInv, TypeOK, Init, Fresh, Closed
    <3>2. QED  BY <3>1, PhaseFacts
  <2>3. QED  BY <2>2 DEF Init, Promise!SEInit
<1>2. IInv /\ [Next]_vars => [Promise!SENext]_<<[o \in Orders |-> PhaseOf(row[o])], moved>>
  BY StepImplements DEF Phase
<1>3. QED  BY <1>1, <1>2, IInvHolds, PTL DEF Spec, ImplementsStockEntry, Promise!SESpec
=============================================================================
