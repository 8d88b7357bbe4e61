-------------------------- MODULE Warehouse_proofs --------------------------
(***************************************************************************)
(* Proofs about the parts of MCWarehouse, for any constants: what the runs *)
(* check of each part, as theorems of the composition.  Mobile orders,     *)
(* transfer requests, locations and purchase suggestions are proved here,  *)
(* movements in StockMovements_proofs, whose lemmas are cited as S!...     *)
(***************************************************************************)
EXTENDS MCWarehouse, Sequences, Sums_proofs

-----------------------------------------------------------------------------
(***************************************************************************)
(* Mobile orders, for every number of orders, products and requests in     *)
(* flight. First the types, then the inductive invariant.                  *)
(***************************************************************************)

\* An idle request is a request.
LEMMA IdleType == Idle \in Call
<1>1. (CHOOSE o \in Orders : TRUE) \in Orders
  BY MobileOrderAssumption
<1> QED
  BY <1>1, MobileOrderAssumption
  DEF Idle, Call, Pc, Row, Status, NoRow, Cart, EmptyCart, CleanupAttempts

\* What a cart clean-up leaves is a cart, and it is never more than before.
LEMMA SubtractType ==
  ASSUME NEW c \in Cart, NEW it \in Cart
  PROVE  /\ Subtract(c, it) \in Cart
         /\ \A p \in Products : Subtract(c, it)[p] <= c[p]
BY MobileOrderAssumption DEF Subtract, Cart

\* The account of an order grows by a natural number.
LEMMA AccountType ==
  ASSUME TypeOK, NEW o \in Orders, NEW c \in Cart, Account(o, c)
  PROVE  taken' \in [Orders -> [Products -> Nat]]
<1> DEFINE more == [p \in Products |-> taken[o][p] + (c[p] - Subtract(c, items[o])[p])]
<1>1. items[o] \in Cart
  BY DEF TypeOK
<1>2. \A p \in Products : c[p] - Subtract(c, items[o])[p] \in Nat
  BY <1>1, SubtractType, MobileOrderAssumption DEF Cart
<1>3. more \in [Products -> Nat]
  BY <1>2 DEF TypeOK
<1>4. taken' = [taken EXCEPT ![o] = more]
  BY DEF Account
<1> QED
  BY <1>3, <1>4 DEF TypeOK

\* A request that is accepted keeps the types.
LEMMA AcceptType ==
  ASSUME TypeOK, NEW c \in Calls, NEW o \in Orders, NEW pc \in Pc, NEW k \in Cart,
         Accept(c, o, pc, k)
  PROVE  /\ call' \in [Calls -> Call]
         /\ served' \in Nat /\ edits' = edits /\ failures' = failures
BY DEF TypeOK, Accept, Call, CleanupAttempts

\* The empty cart is a cart.
LEMMA EmptyCartType == EmptyCart \in Cart
BY MobileOrderAssumption DEF EmptyCart, Cart

-----------------------------------------------------------------------------
\* Init establishes the types.
LEMMA InitTypeOK == Init => TypeOK
BY IdleType, EmptyCartType
DEF Init, TypeOK, Row, NoRow, Status, HistoryStatus, EmptyCart

\* The arrival of a request keeps them,
LEMMA RequestTypeOK ==
  ASSUME TypeOK, NEW c \in Calls, NEW o \in Orders, Request(c, o)
  PROVE  TypeOK'
<1> USE EmptyCartType
<1>1. CASE CreateRead(c, o)
  <2> PICK selected \in SUBSET Products :
        LET picked == [p \in Products |-> IF p \in selected THEN cart[p] ELSE 0]
        IN  Accept(c, o, "insert", picked)
    BY <1>1 DEF CreateRead
  <2> DEFINE picked == [p \in Products |-> IF p \in selected THEN cart[p] ELSE 0]
  <2>1. picked \in Cart
    BY MobileOrderAssumption DEF TypeOK, Cart
  <2>2. "insert" \in Pc
    BY DEF Pc
  <2> HIDE DEF picked
  <2> QED
    BY <1>1, <2>1, <2>2, AcceptType DEF CreateRead, TypeOK, ghosts, picked
<1>2. CASE HandoffRead(c, o)
  BY <1>2, AcceptType DEF HandoffRead, TypeOK, Pc, ghosts
<1>3. CASE LookupRead(c, o)
  BY <1>3, AcceptType DEF LookupRead, TypeOK, Pc, ghosts
<1>4. CASE PullRead(c, o)
  BY <1>4, AcceptType DEF PullRead, TypeOK, Pc, ghosts
<1>5. CASE CompleteRead(c, o)
  BY <1>5, AcceptType DEF CompleteRead, TypeOK, Pc, ghosts
<1> QED
  BY <1>1, <1>2, <1>3, <1>4, <1>5 DEF Request

\* ... and so does each of its steps.
LEMMA HandleTypeOK ==
  ASSUME TypeOK, NEW c \in Calls, Handle(c)
  PROVE  TypeOK'
<1> DEFINE o == call[c].o
<1>o. /\ o \in Orders /\ call[c] \in Call /\ call[c].row \in Row /\ call[c].cart \in Cart
      /\ order[o] \in Row /\ items[o] \in Cart
  BY DEF TypeOK, Call
<1> USE IdleType
<1>1. CASE CreateInsert(c)
  BY <1>1, <1>o DEF CreateInsert, TypeOK, Done, bounds, ghosts, Row, NoRow, Status
<1>2. CASE Expire(c)
  BY <1>2, <1>o DEF Expire, TypeOK, Done, bounds, ghosts, Row, Status
<1>3. CASE HandoffStatus(c)
  BY <1>3, <1>o DEF HandoffStatus, HandoffNext, TypeOK, Goto, bounds, ghosts, Row, Status, Call, Pc
<1>4. CASE HandoffBegin(c)
  BY <1>4, <1>o DEF HandoffBegin, LockedPayload, TypeOK, bounds, ghosts, Call, Pc
<1>5. CASE HandoffCommit(c)
  <2>1. order' \in [Orders -> Row] /\ history' \in [Orders -> HistoryStatus]
        /\ locked' \subseteq Orders /\ call' \in [Calls -> Call]
    BY <1>5, <1>o DEF HandoffCommit, TypeOK, Done, Row, HistoryStatus
  <2>2. cart' \in Cart /\ taken' \in [Orders -> [Products -> Nat]]
        /\ handoffCleans' \in [Orders -> Nat]
    <3>1. CASE call[c].row.cleaned
      BY <1>5, <1>o, <3>1 DEF HandoffCommit, TypeOK
    <3>2. CASE ~call[c].row.cleaned
      <4>1. /\ cart' = Subtract(call[c].cart, items[o])
            /\ handoffCleans' = [handoffCleans EXCEPT ![o] = @ + 1]
            /\ Account(o, call[c].cart)
        BY <1>5, <3>2 DEF HandoffCommit
      <4>2. cart' \in Cart
        BY <4>1, <1>o, SubtractType
      <4>3. taken' \in [Orders -> [Products -> Nat]]
        BY <4>1, <1>o, AccountType
      <4>4. handoffCleans' \in [Orders -> Nat]
        BY <4>1, <1>o DEF TypeOK
      <4> QED
        BY <4>2, <4>3, <4>4
    <3> QED
      BY <3>1, <3>2
  <2> QED
    BY <1>5, <2>1, <2>2 DEF HandoffCommit, TypeOK, bounds
<1>6. CASE PullReject(c)
  BY <1>6, <1>o DEF PullReject, TypeOK, Done, bounds, ghosts
<1>7. CASE PullWrite(c)
  BY <1>7, <1>o DEF PullWrite, TypeOK, Done, bounds, ghosts, Row, Status
<1>8. CASE CompleteMark(c)
  <2>1. Marked(call[c].row) \in Row
    BY <1>o DEF Marked, Row, Status
  <2>2. order' \in [Orders -> Row] /\ marks' \in [Orders -> Nat]
    BY <1>8, <1>o, <2>1 DEF CompleteMark, TypeOK
  <2>3. call' \in [Calls -> Call]
    BY <1>8, <1>o DEF CompleteMark, TypeOK, Goto, Call, Pc
  <2> QED
    BY <1>8, <2>2, <2>3 DEF CompleteMark, TypeOK, bounds
<1>9. CASE CleanRead(c)
  BY <1>9, <1>o DEF CleanRead, TypeOK, bounds, ghosts, Call, Pc
<1>10. CASE CleanWrite(c)
  <2>1. cart' \in Cart /\ taken' \in [Orders -> [Products -> Nat]]
    BY <1>10, <1>o, SubtractType, AccountType DEF CleanWrite
  <2>2. saleCleans' \in [Orders -> Nat]
    BY <1>10, <1>o DEF CleanWrite, TypeOK
  <2>3. call' \in [Calls -> Call]
    BY <1>10, <1>o DEF CleanWrite, TypeOK, Goto, Call, Pc
  <2> QED
    BY <1>10, <1>o, <2>1, <2>2, <2>3 DEF CleanWrite, TypeOK, bounds
<1>11. CASE CleanFail(c)
  <2>1. call' \in [Calls -> Call]
    <3>1. CASE call[c].attempt < CleanupAttempts
                 /\ call' = [call EXCEPT ![c] = NextAttempt(@)]
      <4>1. NextAttempt(call[c]) \in Call
        BY <3>1, <1>o DEF NextAttempt, Call, Pc, CleanupAttempts
      <4> QED
        BY <3>1, <4>1 DEF TypeOK
    <3>2. CASE Goto(c, AfterLastFailure)
      BY <3>2, <1>o DEF Goto, AfterLastFailure, TypeOK, Call, Pc
    <3> QED
      BY <1>11, <3>1, <3>2 DEF CleanFail
  <2> QED
    BY <1>11, <2>1 DEF CleanFail, TypeOK, ghosts
<1>12. CASE CompleteFinish(c)
  BY <1>12, <1>o DEF CompleteFinish, Finished, TypeOK, Goto, bounds, ghosts, Row, Call, Pc
<1>13. CASE CompleteHistory(c)
  BY <1>13, <1>o DEF CompleteHistory, TypeOK, Done, bounds, ghosts, HistoryStatus
<1>14. CASE CustomerWrite(c)
  BY <1>14, <1>o DEF CustomerWrite, TypeOK, Done, bounds, ghosts
<1> QED
  BY <1>1, <1>2, <1>3, <1>4, <1>5, <1>6, <1>7, <1>8, <1>9, <1>10, <1>11, <1>12, <1>13, <1>14
  DEF Handle

\* The types are inductive.
LEMMA NextTypeOK == TypeOK /\ [Next]_vars => TypeOK'
<1> SUFFICES ASSUME TypeOK, [Next]_vars PROVE TypeOK'
  OBVIOUS
<1>1. CASE \E c \in Calls : Handle(c)
  BY <1>1, HandleTypeOK
<1>2. ASSUME NEW c \in Calls, CustomerRead(c) PROVE TypeOK'
  <2>1. [Idle EXCEPT !.pc = "writeCustomer", !.cart = cart] \in Call
    BY IdleType DEF Call, TypeOK, Pc, Idle
  <2> QED
    BY <1>2, <2>1 DEF CustomerRead, TypeOK, ghosts
<1>3. CASE \E c \in Calls, o \in Orders : Request(c, o)
  BY <1>3, RequestTypeOK
<1>4. CASE \E o \in Orders : Timeout(o)
  BY <1>4 DEF Timeout, TypeOK, bounds, ghosts
<1>5. CASE \E new \in Cart : EditCart(new)
  BY <1>5 DEF EditCart, TypeOK, ghosts
<1>6. CASE Crash
  BY <1>6, IdleType DEF Crash, TypeOK, bounds, ghosts
<1>7. CASE UNCHANGED vars
  BY <1>7 DEF TypeOK, vars, bounds, ghosts
<1> QED
  BY <1>1, <1>2, <1>3, <1>4, <1>5, <1>6, <1>7 DEF Next

\* The rows, the cart and the requests in flight keep their types.
THEOREM TypeCorrect == Spec => []TypeOK
BY InitTypeOK, NextTypeOK, PTL DEF Spec

-----------------------------------------------------------------------------
(***************************************************************************)
(* The inductive invariant. The clean-up properties depend on the row lock *)
(* (a hand-off commits with the payload the row still has), on what the    *)
(* calls in flight have read, and on a count that is sharper than          *)
(* HandoffCleansOnce while the flag is down.                               *)
(***************************************************************************)
Blank(o) == order[o].status = "none" => ~order[o].cleaned /\ ~order[o].history

\* What a call in flight may rely on, step by step.
CallInv(c) ==
  LET o == call[c].o IN
  /\ call[c].pc = "insert" => order[o].status = "none"
  /\ call[c].pc \notin {"idle", "insert", "writeCustomer"} => order[o].status # "none"
  /\ call[c].pc = "expire" => timedOut[o]
  /\ call[c].pc = "commit" => o \in locked /\ call[c].row = order[o]
  /\ call[c].pc = "finish" => saleCleans[o] > 0
  /\ call[c].pc = "pull" => call[c].row.status # "completed"
  /\ call[c].row.history => history[o] # "none"

\* An order is inserted once, and its row is locked by one transaction.
Exclusive ==
  \A c, d \in Calls :
    c # d /\ call[c].o = call[d].o =>
      /\ ~(call[c].pc = "insert" /\ call[d].pc = "insert")
      /\ ~(call[c].pc = "commit" /\ call[d].pc = "commit")

CountInv(o) == /\ handoffCleans[o] <= 1 + marks[o]
               /\ ~order[o].cleaned => handoffCleans[o] <= marks[o]

IInv ==
  /\ TypeOK
  /\ \A o \in Orders : Blank(o) /\ CountInv(o)
  /\ \A c \in Calls : CallInv(c)
  /\ Exclusive
  /\ CleanedMeansTaken
  /\ HistoryNotDangling

\* The types the invariant's proof uses, without the rest of TypeOK.
LEMMA CallTypes ==
  ASSUME TypeOK
  PROVE  /\ order \in [Orders -> Row] /\ history \in [Orders -> HistoryStatus]
         /\ timedOut \in [Orders -> BOOLEAN] /\ call \in [Calls -> Call]
         /\ handoffCleans \in [Orders -> Nat] /\ saleCleans \in [Orders -> Nat]
         /\ marks \in [Orders -> Nat]
         /\ \A c \in Calls : call[c].o \in Orders /\ call[c].row \in Row
BY DEF TypeOK, Call

\* The steps of a request keep the invariant,
LEMMA HandleIInv ==
  ASSUME IInv, TypeOK', NEW c \in Calls, Handle(c)
  PROVE  IInv'
<1> DEFINE o == call[c].o
<1>t. /\ order \in [Orders -> Row] /\ history \in [Orders -> HistoryStatus]
      /\ timedOut \in [Orders -> BOOLEAN] /\ call \in [Calls -> Call]
      /\ handoffCleans \in [Orders -> Nat] /\ saleCleans \in [Orders -> Nat]
      /\ marks \in [Orders -> Nat]
      /\ \A d \in Calls : call[d].o \in Orders /\ call[d].row \in Row
  BY CallTypes DEF IInv
<1> USE <1>t DEF IInv, Row
<1>1. CASE CreateInsert(c)
  <2>1. \A q \in Orders : Blank(q)' /\ CountInv(q)'
    BY <1>1 DEF CreateInsert, Done, NoRow, bounds, ghosts, Blank, CountInv, CallInv
  <2>2. \A d \in Calls : CallInv(d)'
    BY <1>1 DEF CreateInsert, Done, NoRow, bounds, ghosts, CallInv, Exclusive, Idle, NoRow
  <2>3. Exclusive'
    BY <1>1 DEF CreateInsert, Done, NoRow, bounds, ghosts, CallInv, Exclusive, Idle
  <2>4. CleanedMeansTaken' /\ HistoryNotDangling'
    BY <1>1 DEF CreateInsert, Done, NoRow, bounds, ghosts, CallInv, CleanedMeansTaken, HistoryNotDangling
  <2> QED
    BY <2>1, <2>2, <2>3, <2>4
<1>2. CASE Expire(c)
  <2>1. \A q \in Orders : Blank(q)' /\ CountInv(q)'
    BY <1>2 DEF Expire, Done, bounds, ghosts, Blank, CountInv, CallInv
  <2>2. \A d \in Calls : CallInv(d)'
    BY <1>2 DEF Expire, Done, bounds, ghosts, CallInv, Exclusive, Idle, NoRow
  <2>3. Exclusive'
    BY <1>2 DEF Expire, Done, bounds, ghosts, CallInv, Exclusive, Idle
  <2>4. CleanedMeansTaken' /\ HistoryNotDangling'
    BY <1>2 DEF Expire, Done, bounds, ghosts, CallInv, CleanedMeansTaken, HistoryNotDangling
  <2> QED
    BY <2>1, <2>2, <2>3, <2>4
<1>3. CASE HandoffStatus(c)
  <2>1. \A q \in Orders : Blank(q)' /\ CountInv(q)'
    BY <1>3 DEF HandoffStatus, Goto, HandoffNext, bounds, ghosts, Blank, CountInv, CallInv
  <2>2. \A d \in Calls : CallInv(d)'
    <3>1. CallInv(c)'
      BY <1>3 DEF HandoffStatus, Goto, HandoffNext, bounds, ghosts, CallInv
    <3>2. ASSUME NEW d \in Calls, d # c PROVE CallInv(d)'
      <4>1. call'[d] = call[d]
        BY <1>3, <3>2 DEF HandoffStatus, Goto, HandoffNext, bounds, ghosts
      <4>2. /\ \A q \in Orders \ {o} : order'[q] = order[q]
            /\ order'[o].status # "none" /\ order[o].status # "none" /\ o \notin locked
        BY <1>3 DEF HandoffStatus, HandoffNext, CallInv
      <4>3. UNCHANGED <<timedOut, locked, history, saleCleans>>
        BY <1>3 DEF HandoffStatus, ghosts
      <4> QED
        BY <4>1, <4>2, <4>3 DEF CallInv
    <3> QED
      BY <3>1, <3>2
  <2>3. Exclusive'
    BY <1>3 DEF HandoffStatus, Goto, HandoffNext, bounds, ghosts, CallInv, Exclusive
  <2>4. CleanedMeansTaken' /\ HistoryNotDangling'
    BY <1>3 DEF HandoffStatus, Goto, HandoffNext, bounds, ghosts, CallInv, CleanedMeansTaken, HistoryNotDangling
  <2> QED
    BY <2>1, <2>2, <2>3, <2>4
<1>4. CASE HandoffBegin(c)
  <2>1. \A q \in Orders : Blank(q)' /\ CountInv(q)'
    BY <1>4 DEF HandoffBegin, LockedPayload, bounds, ghosts, Blank, CountInv, CallInv
  <2>2. \A d \in Calls : CallInv(d)'
    <3>1. CallInv(c)'
      <4>1. /\ call'[c].pc = "commit" /\ call'[c].o = o /\ call'[c].row = order[o]
            /\ o \in locked' /\ order' = order /\ history' = history
        BY <1>4 DEF HandoffBegin, LockedPayload
      <4>2. order[o].status # "none"
        BY <1>4, SMTT(20) DEF HandoffBegin, CallInv
      <4>3. order[o].history => history[o] # "none"
        BY DEF HistoryNotDangling
      <4> QED
        BY <4>1, <4>2, <4>3 DEF CallInv
    <3>2. ASSUME NEW d \in Calls, d # c PROVE CallInv(d)'
      <4>1. call'[d] = call[d]
        BY <1>4, <3>2 DEF HandoffBegin, LockedPayload, bounds, ghosts
      <4> QED
        BY <1>4, <3>2, <4>1 DEF HandoffBegin, LockedPayload, bounds, ghosts, CallInv, Exclusive
    <3> QED
      BY <3>1, <3>2
  <2>3. Exclusive'
    BY <1>4 DEF HandoffBegin, LockedPayload, bounds, ghosts, CallInv, Exclusive
  <2>4. CleanedMeansTaken' /\ HistoryNotDangling'
    BY <1>4 DEF HandoffBegin, LockedPayload, bounds, ghosts, CallInv, CleanedMeansTaken, HistoryNotDangling
  <2> QED
    BY <2>1, <2>2, <2>3, <2>4
<1>5. CASE HandoffCommit(c)
  <2>o. PICK x \in Orders : x = o
    OBVIOUS
  <2>a. /\ call' = [call EXCEPT ![c] = Idle] /\ locked' = locked \ {x}
        /\ order' = [order EXCEPT ![x].cleaned = TRUE, ![x].pending = FALSE, ![x].history = TRUE]
        /\ history' = [history EXCEPT ![x] = "kasaya_aktarildi"]
        /\ UNCHANGED <<timedOut, saleCleans, marks>>
        /\ \/ ~call[c].row.cleaned /\ handoffCleans' = [handoffCleans EXCEPT ![x] = @ + 1]
           \/ call[c].row.cleaned /\ handoffCleans' = handoffCleans
    BY <1>5, <2>o DEF HandoffCommit, Done, bounds
  <2>b. /\ order'[x].status = order[x].status /\ order'[x].cleaned /\ history'[x] # "none"
        /\ \A y \in Orders \ {x} : /\ order'[y] = order[y] /\ history'[y] = history[y]
                                   /\ handoffCleans'[y] = handoffCleans[y]
    BY <2>a
  <2>c. order[x].status # "none" /\ call[c].row = order[x]
    BY <1>5, <2>o DEF HandoffCommit, CallInv
  <2>1. \A q \in Orders : Blank(q)' /\ CountInv(q)'
    <3>1. Blank(x)'
      BY <2>b, <2>c DEF Blank
    <3>2. CountInv(x)'
      <4>1. CountInv(x)
        OBVIOUS
      <4> QED
        BY <2>a, <2>b, <2>c, <4>1 DEF CountInv
    <3>3. ASSUME NEW q \in Orders, q # x PROVE Blank(q)' /\ CountInv(q)'
      <4>1. order'[q] = order[q] /\ handoffCleans'[q] = handoffCleans[q]
        BY <2>b, <3>3
      <4> QED
        BY <2>a, <4>1 DEF Blank, CountInv
    <3> QED
      BY <3>1, <3>2, <3>3
  <2>2. \A d \in Calls : CallInv(d)'
    <3>1. CallInv(c)'
      <4>1. call'[c] = Idle
        BY <2>a
      <4> QED
        BY <4>1 DEF CallInv, Idle, NoRow
    <3>2. ASSUME NEW d \in Calls, d # c PROVE CallInv(d)'
      <4>1. call'[d] = call[d] /\ CallInv(d)
        BY <2>a, <3>2
      <4>2. call[d].pc = "commit" => call[d].o # x
        BY <1>5, <2>o, <3>2 DEF HandoffCommit, Exclusive
      <4>3. \A y \in Orders : order'[y].status = order[y].status
        BY <2>b
      <4> QED
        BY <2>a, <2>b, <4>1, <4>2, <4>3 DEF CallInv
    <3> QED
      BY <3>1, <3>2
  <2>3. Exclusive'
    BY <1>5 DEF HandoffCommit, Done, bounds, ghosts, CallInv, Exclusive, Idle
  <2>4. CleanedMeansTaken' /\ HistoryNotDangling'
    <3>1. CleanedMeansTaken'
      <4>1. \A y \in Orders : order'[y].status = order[y].status
        BY <2>b
      <4> QED
        BY <2>a, <2>b, <2>c, <4>1 DEF CleanedMeansTaken
    <3>2. HistoryNotDangling'
      BY <2>b DEF HistoryNotDangling
    <3> QED
      BY <3>1, <3>2
  <2> QED
    BY <2>1, <2>2, <2>3, <2>4
<1>6. CASE PullReject(c)
  <2>1. \A q \in Orders : Blank(q)' /\ CountInv(q)'
    BY <1>6 DEF PullReject, Done, bounds, ghosts, Blank, CountInv, CallInv
  <2>2. \A d \in Calls : CallInv(d)'
    BY <1>6 DEF PullReject, Done, bounds, ghosts, CallInv, Exclusive, Idle, NoRow
  <2>3. Exclusive'
    BY <1>6 DEF PullReject, Done, bounds, ghosts, CallInv, Exclusive, Idle
  <2>4. CleanedMeansTaken' /\ HistoryNotDangling'
    BY <1>6 DEF PullReject, Done, bounds, ghosts, CallInv, CleanedMeansTaken, HistoryNotDangling
  <2> QED
    BY <2>1, <2>2, <2>3, <2>4
<1>7. CASE PullWrite(c)
  <2>1. \A q \in Orders : Blank(q)' /\ CountInv(q)'
    BY <1>7 DEF PullWrite, Done, bounds, ghosts, Blank, CountInv, CallInv
  <2>2. \A d \in Calls : CallInv(d)'
    BY <1>7 DEF PullWrite, Done, bounds, ghosts, CallInv, Exclusive, Idle, NoRow
  <2>3. Exclusive'
    BY <1>7 DEF PullWrite, Done, bounds, ghosts, CallInv, Exclusive, Idle
  <2>4. CleanedMeansTaken' /\ HistoryNotDangling'
    BY <1>7 DEF PullWrite, Done, bounds, ghosts, CallInv, CleanedMeansTaken, HistoryNotDangling
  <2> QED
    BY <2>1, <2>2, <2>3, <2>4
<1>8. CASE CompleteMark(c)
  <2>1. \A q \in Orders : Blank(q)' /\ CountInv(q)'
    BY <1>8 DEF CompleteMark, Goto, Marked, bounds, ghosts, Blank, CountInv, CallInv
  <2>2. \A d \in Calls : CallInv(d)'
    BY <1>8 DEF CompleteMark, Goto, Marked, bounds, ghosts, CallInv, Exclusive
  <2>3. Exclusive'
    BY <1>8 DEF CompleteMark, Goto, Marked, bounds, ghosts, CallInv, Exclusive
  <2>4. CleanedMeansTaken' /\ HistoryNotDangling'
    BY <1>8 DEF CompleteMark, Goto, Marked, bounds, ghosts, CallInv, CleanedMeansTaken, HistoryNotDangling
  <2> QED
    BY <2>1, <2>2, <2>3, <2>4
<1>9. CASE CleanRead(c)
  <2>1. \A q \in Orders : Blank(q)' /\ CountInv(q)'
    BY <1>9 DEF CleanRead, bounds, ghosts, Blank, CountInv, CallInv
  <2>2. \A d \in Calls : CallInv(d)'
    BY <1>9 DEF CleanRead, bounds, ghosts, CallInv, Exclusive
  <2>3. Exclusive'
    BY <1>9 DEF CleanRead, bounds, ghosts, CallInv, Exclusive
  <2>4. CleanedMeansTaken' /\ HistoryNotDangling'
    BY <1>9 DEF CleanRead, bounds, ghosts, CallInv, CleanedMeansTaken, HistoryNotDangling
  <2> QED
    BY <2>1, <2>2, <2>3, <2>4
<1>10. CASE CleanWrite(c)
  <2>0. /\ saleCleans'[o] > 0 /\ \A q \in Orders : saleCleans[q] > 0 => saleCleans'[q] > 0
        /\ UNCHANGED <<order, timedOut, locked, history, handoffCleans>>
    <3>1. saleCleans' = [saleCleans EXCEPT ![o] = @ + 1]
          /\ UNCHANGED <<order, timedOut, locked, history, handoffCleans>>
      BY <1>10 DEF CleanWrite
    <3> QED
      BY <1>t, <3>1
  <2>1. \A q \in Orders : Blank(q)' /\ CountInv(q)'
    BY <1>10 DEF CleanWrite, Goto, bounds, ghosts, Blank, CountInv, CallInv
  <2>2. \A d \in Calls : CallInv(d)'
    <3>1. CallInv(c)'
      <4>1. call'[c].pc = "finish" /\ call'[c].o = o /\ call'[c].row = call[c].row
        BY <1>10 DEF CleanWrite, Goto
      <4> QED
        BY <1>10, <2>0, <4>1 DEF CleanWrite, CallInv
    <3>2. ASSUME NEW d \in Calls, d # c PROVE CallInv(d)'
      <4>1. call'[d] = call[d]
        BY <1>10, <3>2 DEF CleanWrite, Goto
      <4> QED
        BY <2>0, <4>1 DEF CallInv
    <3> QED
      BY <3>1, <3>2
  <2>3. Exclusive'
    BY <1>10 DEF CleanWrite, Goto, bounds, ghosts, CallInv, Exclusive
  <2>4. CleanedMeansTaken' /\ HistoryNotDangling'
    BY <2>0 DEF CleanedMeansTaken, HistoryNotDangling
  <2> QED
    BY <2>1, <2>2, <2>3, <2>4
<1>11. CASE CleanFail(c)
  <2>0. /\ call'[c].pc \in {"readCart", "closeHistory"}
        /\ call'[c].o = o /\ call'[c].row = call[c].row
        /\ \A d \in Calls : d # c => call'[d] = call[d]
        /\ UNCHANGED <<order, timedOut, locked, history, ghosts>>
    <3>1. CASE call' = [call EXCEPT ![c] = NextAttempt(@)]
      BY <1>11, <3>1 DEF CleanFail, NextAttempt
    <3>2. CASE Goto(c, AfterLastFailure)
      BY <1>11, <3>2 DEF CleanFail, Goto, AfterLastFailure
    <3> QED
      BY <1>11, <3>1, <3>2 DEF CleanFail
  <2>1. \A q \in Orders : Blank(q)' /\ CountInv(q)'
    BY <1>11 DEF CleanFail, Goto, NextAttempt, AfterLastFailure, bounds, ghosts, Blank, CountInv, CallInv
  <2>2. \A d \in Calls : CallInv(d)'
    <3>1. CallInv(c)'
      BY <1>11, <2>0 DEF CleanFail, CallInv
    <3>2. ASSUME NEW d \in Calls, d # c PROVE CallInv(d)'
      BY <2>0, <3>2 DEF CallInv, ghosts
    <3> QED
      BY <3>1, <3>2
  <2>3. Exclusive'
    <3>1. \A d \in Calls : call'[d].o = call[d].o
                           /\ (call'[d].pc \in {"insert", "commit"} => call'[d].pc = call[d].pc)
      BY <2>0
    <3>2. Exclusive
      OBVIOUS
    <3> QED
      BY <3>1, <3>2 DEF Exclusive
  <2>4. CleanedMeansTaken' /\ HistoryNotDangling'
    BY <1>11 DEF CleanFail, Goto, NextAttempt, AfterLastFailure, bounds, ghosts, CallInv, CleanedMeansTaken, HistoryNotDangling
  <2> QED
    BY <2>1, <2>2, <2>3, <2>4
<1>12. CASE CompleteFinish(c)
  <2>1. \A q \in Orders : Blank(q)' /\ CountInv(q)'
    BY <1>12 DEF CompleteFinish, Goto, Finished, bounds, ghosts, Blank, CountInv, CallInv
  <2>2. \A d \in Calls : CallInv(d)'
    BY <1>12 DEF CompleteFinish, Goto, Finished, bounds, ghosts, CallInv, Exclusive
  <2>3. Exclusive'
    BY <1>12 DEF CompleteFinish, Goto, Finished, bounds, ghosts, CallInv, Exclusive
  <2>4. CleanedMeansTaken' /\ HistoryNotDangling'
    BY <1>12 DEF CompleteFinish, Goto, Finished, bounds, ghosts, CallInv, CleanedMeansTaken, HistoryNotDangling
  <2> QED
    BY <2>1, <2>2, <2>3, <2>4
<1>13. CASE CompleteHistory(c)
  <2>1. \A q \in Orders : Blank(q)' /\ CountInv(q)'
    BY <1>13 DEF CompleteHistory, Done, bounds, ghosts, Blank, CountInv, CallInv
  <2>2. \A d \in Calls : CallInv(d)'
    BY <1>13 DEF CompleteHistory, Done, bounds, ghosts, CallInv, Exclusive, Idle, NoRow
  <2>3. Exclusive'
    BY <1>13 DEF CompleteHistory, Done, bounds, ghosts, CallInv, Exclusive, Idle
  <2>4. CleanedMeansTaken' /\ HistoryNotDangling'
    BY <1>13 DEF CompleteHistory, Done, bounds, ghosts, CallInv, CleanedMeansTaken, HistoryNotDangling
  <2> QED
    BY <2>1, <2>2, <2>3, <2>4
<1>14. CASE CustomerWrite(c)
  <2>1. \A q \in Orders : Blank(q)' /\ CountInv(q)'
    BY <1>14 DEF CustomerWrite, Done, bounds, ghosts, Blank, CountInv, CallInv
  <2>2. \A d \in Calls : CallInv(d)'
    BY <1>14 DEF CustomerWrite, Done, bounds, ghosts, CallInv, Exclusive, Idle, NoRow
  <2>3. Exclusive'
    BY <1>14 DEF CustomerWrite, Done, bounds, ghosts, CallInv, Exclusive, Idle
  <2>4. CleanedMeansTaken' /\ HistoryNotDangling'
    BY <1>14 DEF CustomerWrite, Done, bounds, ghosts, CallInv, CleanedMeansTaken, HistoryNotDangling
  <2> QED
    BY <2>1, <2>2, <2>3, <2>4
<1> QED
  BY <1>1, <1>2, <1>3, <1>4, <1>5, <1>6, <1>7, <1>8, <1>9, <1>10, <1>11, <1>12, <1>13, <1>14 DEF Handle

-----------------------------------------------------------------------------
\* ... and so does its arrival.
LEMMA RequestIInv ==
  ASSUME IInv, TypeOK', NEW c \in Calls, NEW o \in Orders, Request(c, o)
  PROVE  IInv'
<1> USE DEF IInv, TypeOK, Call, Row
<1>0. EmptyCart \in Cart /\ \A s \in SUBSET Products :
        [p \in Products |-> IF p \in s THEN cart[p] ELSE 0] \in Cart
  BY EmptyCartType, MobileOrderAssumption DEF Cart
<1>1. PICK pc \in {"insert", "expire", "setStatus", "pull", "mark"}, k \in Cart :
        /\ Accept(c, o, pc, k)
        /\ pc = "insert" => /\ order[o].status = "none"
                            /\ \A d \in Calls : ~(call[d].pc = "insert" /\ call[d].o = o)
        /\ pc # "insert" => order[o].status # "none"
        /\ pc = "expire" => timedOut[o]
        /\ pc = "pull" => order[o].status # "completed"
  <2>1. CASE CreateRead(c, o)
    BY <1>0, <2>1 DEF CreateRead
  <2>2. CASE HandoffRead(c, o)
    BY <1>0, <2>2 DEF HandoffRead, Exists, Timed
  <2>3. CASE LookupRead(c, o)
    BY <1>0, <2>3 DEF LookupRead, Exists, Timed
  <2>4. CASE PullRead(c, o)
    BY <1>0, <2>4 DEF PullRead, Exists
  <2>5. CASE CompleteRead(c, o)
    BY <1>0, <2>5 DEF CompleteRead, Exists
  <2> QED
    BY <2>1, <2>2, <2>3, <2>4, <2>5 DEF Request
<1>2. UNCHANGED <<order, items, timedOut, locked, cart, history, ghosts>>
  BY DEF Request, CreateRead, HandoffRead, LookupRead, PullRead, CompleteRead
<1>3. /\ call'[c].pc = pc /\ call'[c].o = o /\ call'[c].row = order[o]
      /\ \A d \in Calls : d # c => call'[d] = call[d]
  BY <1>1 DEF Accept
<1>4. \A q \in Orders : Blank(q)' /\ CountInv(q)'
  BY <1>2 DEF ghosts, Blank, CountInv
<1>5. \A d \in Calls : CallInv(d)'
  <2>1. CallInv(c)'
    BY <1>1, <1>2, <1>3 DEF CallInv, HistoryNotDangling
  <2>2. ASSUME NEW d \in Calls, d # c PROVE CallInv(d)'
    BY <1>2, <1>3, <2>2 DEF CallInv, ghosts
  <2> QED
    BY <2>1, <2>2
<1>6. Exclusive'
  <2> SUFFICES ASSUME NEW a \in Calls, NEW b \in Calls, a # b, call'[a].o = call'[b].o
               PROVE  /\ ~(call'[a].pc = "insert" /\ call'[b].pc = "insert")
                      /\ ~(call'[a].pc = "commit" /\ call'[b].pc = "commit")
    BY DEF Exclusive
  <2>1. CASE a # c /\ b # c
    BY <1>3, <2>1 DEF Exclusive
  <2>2. CASE a = c \/ b = c
    BY <1>1, <1>3, <2>2
  <2> QED
    BY <2>1, <2>2
<1>7. CleanedMeansTaken' /\ HistoryNotDangling'
  BY <1>2 DEF CleanedMeansTaken, HistoryNotDangling, ghosts
<1> QED
  BY <1>4, <1>5, <1>6, <1>7

\* Init establishes it.
LEMMA InitIInv == Init => IInv
<1> SUFFICES ASSUME Init PROVE IInv
  OBVIOUS
<1>1. \A c \in Calls : CallInv(c)
  BY DEF Init, Idle, NoRow, CallInv
<1> QED
  BY <1>1, InitTypeOK
  DEF Init, IInv, Blank, CountInv, Exclusive, Idle, NoRow, CleanedMeansTaken, HistoryNotDangling

\* A step that changes neither orders nor history, and calls only by ending
\* them or by starting a write of the customer row.
LEMMA QuietIInv ==
  ASSUME IInv, TypeOK', order' = order, history' = history,
         handoffCleans' = handoffCleans, saleCleans' = saleCleans, marks' = marks,
         \A o \in Orders : timedOut[o] => timedOut'[o],
         \A c \in Calls : \/ call'[c] = call[c] /\ locked' = locked
                          \/ call'[c].pc \in {"idle", "writeCustomer"} /\ ~call'[c].row.history
  PROVE  IInv'
<1>1. \A c \in Calls : CallInv(c)'
  BY DEF IInv, TypeOK, Call, CallInv
<1>2. Exclusive'
  BY DEF IInv, Exclusive
<1> QED
  BY <1>1, <1>2
  DEF IInv, Blank, CountInv, CleanedMeansTaken, HistoryNotDangling

\* The invariant is inductive.
LEMMA NextIInv == IInv /\ [Next]_vars => IInv'
<1> SUFFICES ASSUME IInv, [Next]_vars PROVE IInv'
  OBVIOUS
<1>0. TypeOK'
  BY NextTypeOK DEF IInv
<1>1. ASSUME NEW c \in Calls, Handle(c) PROVE IInv'
  BY <1>0, <1>1, HandleIInv
<1>2. ASSUME NEW c \in Calls, CustomerRead(c) PROVE IInv'
  BY <1>0, <1>2, QuietIInv DEF CustomerRead, Accept, IInv, TypeOK, Idle, NoRow, ghosts
<1>3. ASSUME NEW c \in Calls, NEW o \in Orders, Request(c, o) PROVE IInv'
  BY <1>0, <1>3, RequestIInv
<1>4. ASSUME NEW o \in Orders, Timeout(o) PROVE IInv'
  BY <1>0, <1>4, QuietIInv DEF Timeout, IInv, TypeOK, ghosts
<1>5. ASSUME NEW new \in Cart, EditCart(new) PROVE IInv'
  BY <1>0, <1>5, QuietIInv DEF EditCart, ghosts
<1>6. CASE Crash
  BY <1>0, <1>6, QuietIInv DEF Crash, Idle, NoRow, ghosts
<1>7. CASE UNCHANGED vars
  BY <1>0, <1>7, QuietIInv DEF vars, ghosts
<1> QED
  BY <1>1, <1>2, <1>3, <1>4, <1>5, <1>6, <1>7 DEF Next

\* The invariant holds, and with it the three clean-up properties: no
\* interleaving of hand-offs cleans the cart twice without a sale in between,
\* the cleaned flag is never claimed without a clean-up, and the customer
\* order a payload names exists.
THEOREM CleanupSafe == Spec => [](HandoffCleansOnce /\ CleanedMeansTaken /\ HistoryNotDangling)
<1>1. IInv => HandoffCleansOnce /\ CleanedMeansTaken /\ HistoryNotDangling
  BY DEF IInv, CountInv, HandoffCleansOnce
<1> QED
  BY <1>1, InitIInv, NextIInv, PTL DEF Spec

\* The order claims a clean-up of the cart only when one took the items.
THEOREM CleanedSafe == Spec => []CleanedMeansTaken
<1> QED
  BY CleanupSafe, PTL

\* The customer order that a payload names was created.
THEOREM HistorySafe == Spec => []HistoryNotDangling
<1> QED
  BY CleanupSafe, PTL

-----------------------------------------------------------------------------
\* A step that takes an order out of "completed" is a late expiry or the write
\* of a call that read the order earlier.
Reopened(o) == order[o].status = "completed" /\ order'[o].status # "completed"
Excused(c, o) ==
  \/ call[c].row.status # "completed"
  \/ call[c].pc = "expire" /\ timedOut[o] /\ order'[o].status = "expired"
LEMMA StepReopens ==
  IInv /\ [Next]_vars =>
    \A o \in Orders : Reopened(o) => \E c \in Calls : Acts(c, o) /\ Excused(c, o)
<1> SUFFICES ASSUME IInv, [Next]_vars, NEW o \in Orders, Reopened(o)
             PROVE  \E c \in Calls : Acts(c, o) /\ Excused(c, o)
  OBVIOUS
<1>0. order[o].status = "completed" /\ order'[o].status # "completed"
  BY DEF Reopened
<1>1. PICK c \in Calls : Handle(c) /\ ~(UNCHANGED order)
  BY <1>0 DEF Next, Request, CreateRead, HandoffRead, LookupRead, PullRead, CompleteRead,
              CustomerRead, Timeout, EditCart, Crash, vars
<1>2. order \in [Orders -> Row] /\ CallInv(c) /\ call \in [Calls -> Call]
  BY CallTypes DEF IInv, TypeOK
<1>3. /\ \A pc : call' = [call EXCEPT ![c].pc = pc] /\ pc # call[c].pc =>
           call'[c].pc # call[c].pc /\ \A d \in Calls \ {c} : call'[d] = call[d]
      /\ Done(c) /\ call[c].pc # "idle" =>
           call'[c].pc # call[c].pc /\ \A d \in Calls \ {c} : call'[d] = call[d]
  BY <1>2 DEF Done, Idle, Call
<1>4. ASSUME call[c].pc # "idle", call[c].o = o,
             Done(c) \/ (\E pc : pc # call[c].pc /\ call' = [call EXCEPT ![c].pc = pc])
      PROVE  Acts(c, o)
  BY <1>3, <1>4 DEF Acts
<1>5. CASE CreateInsert(c)
  BY <1>0, <1>2, <1>5 DEF CreateInsert, CallInv, Row
<1>6. CASE Expire(c)
  <2>1. call[c].o = o /\ order'[o].status = "expired"
    BY <1>0, <1>2, <1>6 DEF Expire, Row
  <2> QED
    BY <1>2, <1>4, <1>6, <2>1 DEF Expire, CallInv, Excused
<1>7. CASE HandoffStatus(c)
  <2>1. call[c].o = o /\ call[c].row.status # "completed"
    BY <1>0, <1>2, <1>7 DEF HandoffStatus, HandoffNext, Row
  <2> QED
    BY <1>4, <1>7, <2>1 DEF HandoffStatus, Goto, Excused
<1>8. CASE HandoffCommit(c)
  BY <1>0, <1>2, <1>8 DEF HandoffCommit, Row
<1>9. CASE PullWrite(c)
  <2>1. call[c].o = o /\ call[c].row.status # "completed"
    BY <1>0, <1>2, <1>9 DEF PullWrite, CallInv, Row
  <2> QED
    BY <1>4, <1>9, <2>1 DEF PullWrite, Excused
<1>10. CASE CompleteMark(c)
  BY <1>0, <1>2, <1>10 DEF CompleteMark, Marked, Row
<1>11. CASE CompleteFinish(c)
  BY <1>0, <1>2, <1>11 DEF CompleteFinish, Finished, Row
<1> QED
  BY <1>1, <1>5, <1>6, <1>7, <1>8, <1>9, <1>10, <1>11
  DEF Handle, HandoffBegin, PullReject, CleanRead, CleanWrite, CleanFail, CompleteHistory, CustomerWrite

\* The request that takes an order out of "completed" had read it before the sale
\* completed it, or marks an order expired whose code has timed out.
THEOREM ReopenSafe == Spec => ReopenedOnlyByStaleCall
<1>1. IInv /\ [Next]_vars =>
        [\A o \in Orders :
           order[o].status = "completed" /\ order'[o].status # "completed" =>
             \E c \in Calls : Acts(c, o) /\
               \/ call[c].row.status # "completed"
               \/ call[c].pc = "expire" /\ timedOut[o] /\ order'[o].status = "expired"]_vars
  BY StepReopens DEF Reopened, Excused
<1> QED
  BY <1>1, InitIInv, NextIInv, PTL DEF Spec, ReopenedOnlyByStaleCall

-----------------------------------------------------------------------------
(***************************************************************************)
(* Transfer requests, for any set of requests, any number of handlers and  *)
(* any bounds: the types, that a completed request has moved its stock,    *)
(* that it moves it once, and that closed requests stay closed.            *)
(***************************************************************************)

\* What a handler becomes when it is done with a request is a handler.
LEMMA OnwardType ==
  ASSUME NEW k \in T!Call
  PROVE  /\ T!Onward(k) \in T!Call
         /\ T!Onward(k).pc \in {"idle", "item"}
         /\ T!Onward(k).todo \subseteq k.todo
         /\ T!Onward(k).pc = "item" => T!Onward(k).seen = k.seen /\ T!Onward(k).target = k.target
         /\ T!Onward(k).pc = "idle" => T!Onward(k) = T!Idle
<1>1. T!Idle \in T!Call /\ T!Idle.pc = "idle" /\ T!Idle.todo = {}
  BY DEF T!Idle, T!Call, T!NoRequest, T!Request, T!Status
<1>2. CASE k.bulk /\ k.todo \ {k.at} # {}
  <2> DEFINE rest == k.todo \ {k.at}
  <2>1. T!Onward(k) = [k EXCEPT !.pc = "item", !.todo = rest, !.at = None]
    BY <1>2 DEF T!Onward
  <2>2. rest \subseteq k.todo /\ rest \in SUBSET Requests
    BY DEF T!Call
  <2> HIDE DEF rest
  <2>3. [k EXCEPT !.pc = "item", !.todo = rest, !.at = None] \in T!Call
    BY <2>2 DEF T!Call
  <2>4. QED  BY <2>1, <2>2, <2>3 DEF T!Call
<1>3. CASE ~(k.bulk /\ k.todo \ {k.at} # {})
  <2>1. T!Onward(k) = T!Idle  BY <1>3 DEF T!Onward
  <2>2. QED  BY <2>1, <1>1
<1>4. QED  BY <1>2, <1>3

\* An idle handler is a handler.
LEMMA TransferIdleType == T!Idle \in T!Call
BY DEF T!Idle, T!Call, T!NoRequest, T!Request, T!Status

\* A handler that moves or writes is at a request.
AtRequest == \A c \in Calls : t_call[c].pc \in {"move", "put"} => t_call[c].at \in Requests

\* A handler at work after its next change.
LEMMA PutType ==
  ASSUME T!TypeOK, NEW c \in Calls, NEW k \in T!Call,
         k.pc \in {"move", "put"} => k.at \in Requests,
         AtRequest, t_call' = [t_call EXCEPT ![c] = k]
  PROVE  t_call' \in [Calls -> T!Call] /\ AtRequest'
BY DEF T!TypeOK, AtRequest

\* Every step keeps the types.
LEMMA TransferTypeStep == T!TypeOK /\ AtRequest /\ [T!Next]_(T!vars) => T!TypeOK' /\ AtRequest'
<1> SUFFICES ASSUME T!TypeOK, AtRequest, [T!Next]_(T!vars) PROVE T!TypeOK' /\ AtRequest'  OBVIOUS
<1>0. /\ t_request \in [Requests -> T!Request] /\ t_depot \in Nat /\ t_shelf \in Nat
      /\ t_call \in [Calls -> T!Call]
      /\ t_served \in Nat /\ t_stops \in Nat
      /\ t_moved \in [Requests -> Nat] /\ t_raced \subseteq Requests /\ t_torn \subseteq Requests
  BY DEF T!TypeOK
<1>1. ASSUME NEW r \in Requests, T!CreateTransferRequest(r) PROVE T!TypeOK' /\ AtRequest'
  <2>1. t_request' \in [Requests -> T!Request]
    BY <1>0, <1>1 DEF T!CreateTransferRequest, T!Request, T!Status
  <2>2. QED  BY <1>0, <1>1, <2>1 DEF T!CreateTransferRequest, T!TypeOK, AtRequest
<1>2. ASSUME NEW c \in Calls, NEW r \in Requests,
             NEW target \in T!Status, T!UpdateStatus(c, r, target)
      PROVE T!TypeOK' /\ AtRequest'
  <2> DEFINE k == [T!Idle EXCEPT !.pc = T!AfterCheck(target), !.target = target, !.at = r,
                               !.seen = t_request]
  <2>1. k \in T!Call /\ k.at \in Requests
    BY <1>0 DEF T!Idle, T!Call, T!AfterCheck
  <2>2. T!Accept(c, k)  BY <1>2 DEF T!UpdateStatus
  <2> HIDE DEF k
  <2>3. t_call' \in [Calls -> T!Call] /\ AtRequest'
    BY <2>1, <2>2, PutType DEF T!Accept
  <2>4. QED  BY <1>0, <2>2, <2>3 DEF T!Accept, T!TypeOK
<1>3. ASSUME NEW c \in Calls, NEW rs \in SUBSET Requests, NEW target \in T!Status,
             T!BulkUpdate(c, rs, target)
      PROVE T!TypeOK' /\ AtRequest'
  <2> DEFINE todo == {r \in rs :
                       target = "completed" \/ T!CanTransition(t_request[r].status, target)}
             k == [T!Idle EXCEPT !.pc = "item", !.bulk = TRUE, !.target = target,
                               !.seen = t_request, !.todo = todo]
  <2>1. todo \in SUBSET Requests  OBVIOUS
  <2>2. T!Accept(c, k)  BY <1>3 DEF T!BulkUpdate
  <2> HIDE DEF todo
  <2>3. k \in T!Call /\ k.pc = "item"
    BY <1>0, <2>1 DEF T!Idle, T!Call
  <2> HIDE DEF k
  <2>4. t_call' \in [Calls -> T!Call] /\ AtRequest'
    BY <2>2, <2>3, PutType DEF T!Accept
  <2>5. QED  BY <1>0, <2>2, <2>4 DEF T!Accept, T!TypeOK
<1>4. ASSUME NEW c \in Calls, NEW r \in Requests, T!BulkItem(c, r) PROVE T!TypeOK' /\ AtRequest'
  <2> DEFINE k == t_call[c]
             started == [k.seen[r] EXCEPT !.status = "started"]
             turn == [k EXCEPT !.at = r]
             put == [turn EXCEPT !.pc = "put"]
             move == [turn EXCEPT !.pc = "move"]
             first == [turn EXCEPT !.pc = "move", !.seen[r] = started]
  <2>1. k \in T!Call  BY <1>0
  <2>2. k.seen[r] \in T!Request  BY <2>1 DEF T!Call
  <2>3. started \in T!Request  BY <2>2 DEF T!Request, T!Status
  <2>4. turn \in T!Call  BY <2>1 DEF T!Call
  <2>5. put \in T!Call /\ put.at = r /\ move \in T!Call /\ move.at = r
    BY <2>1 DEF T!Call
  <2>6. first \in T!Call /\ first.at = r
    BY <2>1, <2>3 DEF T!Call
  <2>7. T!Onward(turn) \in T!Call /\ T!Onward(turn).pc \in {"idle", "item"}
    BY <2>4, OnwardType
  <2>8. \/ t_call' = [t_call EXCEPT ![c] = put]
        \/ t_call' = [t_call EXCEPT ![c] = move]
        \/ t_call' = [t_call EXCEPT ![c] = first]
        \/ t_call' = [t_call EXCEPT ![c] = T!Onward(turn)]
    BY <1>4 DEF T!BulkItem
  <2>9. t_request' \in [Requests -> T!Request] /\ t_raced' \subseteq Requests
    BY <1>0, <1>4, <2>3 DEF T!BulkItem
  <2> HIDE DEF put, move, first, turn
  <2>10. t_call' \in [Calls -> T!Call] /\ AtRequest'
    BY <2>5, <2>6, <2>7, <2>8, PutType
  <2>11. QED  BY <1>0, <1>4, <2>9, <2>10 DEF T!BulkItem, T!TypeOK
<1>5. ASSUME NEW c \in Calls, T!TransferStock(c) PROVE T!TypeOK' /\ AtRequest'
  <2> DEFINE put == [t_call[c] EXCEPT !.pc = "put"]
  <2>1. t_call[c].at \in Requests  BY <1>5 DEF T!TransferStock, T!At, AtRequest
  <2>2. T!Onward(t_call[c]) \in T!Call /\ T!Onward(t_call[c]).pc \in {"idle", "item"}
    BY <1>0, OnwardType
  <2>3. put \in T!Call /\ put.at \in Requests  BY <1>0, <2>1 DEF T!Call
  <2>4. t_call' = [t_call EXCEPT ![c] = put] \/ t_call' = [t_call EXCEPT ![c] = T!Onward(t_call[c])]
    BY <1>5 DEF T!TransferStock
  <2> HIDE DEF put
  <2>5. t_call' \in [Calls -> T!Call] /\ AtRequest'
    BY <2>2, <2>3, <2>4, PutType
  <2>6. t_depot' \in Nat /\ t_shelf' \in Nat
        /\ t_moved' \in [Requests -> Nat] /\ t_raced' \subseteq Requests
    BY <1>0, <1>5, <2>1 DEF T!TransferStock, T!Enough
  <2>7. QED  BY <1>0, <1>5, <2>5, <2>6 DEF T!TransferStock, T!TypeOK
<1>6. ASSUME NEW c \in Calls, T!PutRequest(c) PROVE T!TypeOK' /\ AtRequest'
  <2> DEFINE k == t_call[c]
             r == [status |-> k.target, done |-> k.target = "completed" \/ k.seen[k.at].done]
  <2>1. k.at \in Requests /\ k \in T!Call  BY <1>0, <1>6 DEF T!PutRequest, T!At, AtRequest
  <2>2. k.seen[k.at].done \in BOOLEAN /\ k.target \in T!Status  BY <2>1 DEF T!Call, T!Request
  <2>3. r \in T!Request  BY <2>2 DEF T!Request
  <2>4. T!Onward(k) \in T!Call /\ T!Onward(k).pc \in {"idle", "item"}
    BY <2>1, OnwardType
  <2>5. t_call' = [t_call EXCEPT ![c] = T!Onward(k)] /\ t_request' = [t_request EXCEPT ![k.at] = r]
    BY <1>6 DEF T!PutRequest
  <2>6. t_call' \in [Calls -> T!Call] /\ AtRequest'
    BY <2>4, <2>5, PutType
  <2> HIDE DEF r
  <2>7. t_request' \in [Requests -> T!Request]  BY <1>0, <2>3, <2>5
  <2>8. QED  BY <1>0, <1>6, <2>1, <2>6, <2>7 DEF T!PutRequest, T!TypeOK
<1>7. ASSUME NEW c \in Calls, T!Stop(c) PROVE T!TypeOK' /\ AtRequest'
  <2>1. T!Idle \in T!Call /\ T!Idle.pc = "idle"  BY TransferIdleType DEF T!Idle
  <2>2. t_call' \in [Calls -> T!Call] /\ AtRequest'
    BY <1>7, <2>1, PutType DEF T!Stop
  <2>3. t_torn' \subseteq Requests
    BY <1>0, <1>7 DEF T!Stop, T!At, AtRequest
  <2>4. QED  BY <1>0, <1>7, <2>2, <2>3 DEF T!Stop, T!TypeOK
<1>8. CASE UNCHANGED T!vars
  BY <1>8 DEF T!vars, T!TypeOK, AtRequest
<1>9. QED
  BY <1>1, <1>2, <1>3, <1>4, <1>5, <1>6, <1>7, <1>8 DEF T!Next

-----------------------------------------------------------------------------
(* Safety.  What a handler has read and checked still tells where it is.    *)

Closing == {"completed", "archived"}

\* What the reading, the check and the transfer of a handler have settled.
CallFits(k, mv) ==
  /\ \A r \in Requests : k.seen[r].status \in Closing => mv[r] >= 1
  /\ k.pc = "move" => k.target = "completed" /\ k.seen[k.at].status = "started"
  /\ k.pc = "put" =>
       /\ k.target = "completed" => mv[k.at] >= 1 /\ k.seen[k.at].status = "started"
       /\ k.target # "completed" => T!CanTransition(k.seen[k.at].status, k.target)
  /\ k.pc = "item" /\ k.target # "completed" =>
       \A r \in k.todo : T!CanTransition(k.seen[r].status, k.target)
  /\ k.pc = "put" /\ k.bulk /\ k.target # "completed" =>
       \A r \in k.todo : T!CanTransition(k.seen[r].status, k.target)

\* A row names a transfer only if it is completed.
DoneMeansClosing ==
  \A r \in Requests \ (t_raced \cup t_torn) : t_request[r].done => t_request[r].status \in Closing

TransferIInv ==
  /\ T!TypeOK /\ AtRequest
  /\ \A c \in Calls : CallFits(t_call[c], t_moved)
  /\ T!CompletedMeansMoved
  /\ DoneMeansClosing
  /\ T!MovedOnceUnlessRaced

\* The transitions from and to closed requests.
LEMMA TransferTransitions ==
  /\ \A from \in T!Status \cup {"none"} : T!CanTransition(from, "completed") => from = "started"
  /\ \A from \in T!Status \cup {"none"} : T!CanTransition(from, "archived") => from = "completed"
  /\ \A to \in T!Status : T!CanTransition("completed", to) => to = "archived"
  /\ \A from \in {"rejected", "cancelled", "failed", "archived", "none"}, to \in T!Status :
       ~T!CanTransition(from, to)
BY DEF T!CanTransition, T!Allowed, T!Status

\* A handler that is done with a request fits as before.
LEMMA OnwardFits ==
  ASSUME NEW k \in T!Call, NEW mv \in [Requests -> Nat],
         CallFits(k, mv), k.pc \in {"item", "move", "put"}
  PROVE  CallFits(T!Onward(k), mv)
<1>1. CASE k.bulk /\ k.todo \ {k.at} # {}
  <2> DEFINE rest == k.todo \ {k.at}
             o == [k EXCEPT !.pc = "item", !.todo = rest, !.at = None]
  <2>1. T!Onward(k) = o  BY <1>1 DEF T!Onward
  <2>2. o.pc = "item" /\ o.todo = rest /\ o.seen = k.seen /\ o.target = k.target
    BY DEF T!Call
  <2>3. k.target # "completed" => \A r \in k.todo : T!CanTransition(k.seen[r].status, k.target)
    BY <1>1 DEF CallFits
  <2>4. rest \subseteq k.todo  OBVIOUS
  <2> HIDE DEF o, rest
  <2>5. CallFits(o, mv)
    BY <2>2, <2>3, <2>4 DEF CallFits
  <2>6. QED  BY <2>1, <2>5
<1>2. CASE ~(k.bulk /\ k.todo \ {k.at} # {})
  <2>1. T!Onward(k) = T!Idle  BY <1>2 DEF T!Onward
  <2>2. CallFits(T!Idle, mv)  BY DEF CallFits, T!Idle, T!NoRequest, Closing
  <2>3. QED  BY <2>1, <2>2
<1>3. QED  BY <1>1, <1>2

\* More transfers disturb no handler.
LEMMA FitsGrow ==
  ASSUME NEW k \in T!Call, NEW mv \in [Requests -> Nat], NEW r0 \in Requests, CallFits(k, mv),
         k.pc \in {"move", "put"} => k.at \in Requests
  PROVE  CallFits(k, [mv EXCEPT ![r0] = @ + 1])
BY DEF CallFits

\* Every step keeps the invariant.
LEMMA TransferInvStep == TransferIInv /\ [T!Next]_(T!vars) => TransferIInv'
<1> SUFFICES ASSUME TransferIInv, [T!Next]_(T!vars) PROVE TransferIInv'  OBVIOUS
<1>0. /\ t_request \in [Requests -> T!Request] /\ t_call \in [Calls -> T!Call]
      /\ t_moved \in [Requests -> Nat] /\ t_raced \subseteq Requests /\ t_torn \subseteq Requests
      /\ \A c \in Calls : t_call[c].pc \in {"move", "put"} => t_call[c].at \in Requests
      /\ \A c \in Calls : CallFits(t_call[c], t_moved)
      /\ \A r \in Requests : t_request[r].status \in Closing => t_moved[r] >= 1
  BY DEF TransferIInv, T!TypeOK, AtRequest, T!CompletedMeansMoved, Closing
<1>T. T!TypeOK' /\ AtRequest'
  BY TransferTypeStep DEF TransferIInv
<1>00. DoneMeansClosing /\ T!MovedOnceUnlessRaced  BY DEF TransferIInv
\* Where only handlers change, what is to be shown of them.
<1>Q. ASSUME UNCHANGED <<t_request, t_moved, t_raced, t_torn>>,
             \A c \in Calls : CallFits(t_call'[c], t_moved),
             \A r \in Requests \ (t_raced \cup t_torn) : T!Completing(r) \subseteq T!Completing(r)'
      PROVE TransferIInv'
  <2>1. T!CompletedMeansMoved' /\ DoneMeansClosing'
        /\ (\A c \in Calls : CallFits(t_call[c], t_moved))'
    BY <1>0, <1>00, <1>Q DEF T!CompletedMeansMoved, DoneMeansClosing, Closing
  <2>2. T!MovedOnceUnlessRaced'
    <3> SUFFICES ASSUME NEW r \in Requests \ (t_raced \cup t_torn)
                 PROVE  t_moved[r] = 0
                        \/ (t_moved[r] = 1 /\ (t_request[r].done \/ T!Completing(r)' # {}))
      BY <1>Q DEF T!MovedOnceUnlessRaced
    <3>1. QED  BY <1>00, <1>Q DEF T!MovedOnceUnlessRaced
  <2>3. QED  BY <1>T, <2>1, <2>2 DEF TransferIInv
<1>1. ASSUME NEW r \in Requests, T!CreateTransferRequest(r) PROVE TransferIInv'
  <2>1. t_request' = [t_request EXCEPT ![r].status = "pending"] /\ t_request[r].status = "none"
    BY <1>1 DEF T!CreateTransferRequest
  <2>2. UNCHANGED <<t_call, t_moved, t_raced, t_torn>>
    BY <1>1 DEF T!CreateTransferRequest
  <2>3. \A x \in Requests : t_request'[x].status # "pending" => t_request'[x] = t_request[x]
    BY <1>0, <2>1 DEF T!Request
  <2>4. \A x \in Requests : t_request'[x].done = t_request[x].done
    BY <1>0, <2>1 DEF T!Request
  <2>5. T!CompletedMeansMoved'
    BY <1>0, <2>2, <2>3 DEF T!CompletedMeansMoved, Closing
  <2>6. DoneMeansClosing'
    BY <1>0, <1>00, <2>1, <2>2, <2>4 DEF DoneMeansClosing, Closing, T!Request
  <2>7. T!MovedOnceUnlessRaced'
    BY <1>00, <2>2, <2>4 DEF T!MovedOnceUnlessRaced, T!Completing, T!At
  <2>8. QED  BY <1>T, <1>0, <2>2, <2>5, <2>6, <2>7 DEF TransferIInv
<1>2. ASSUME NEW c \in Calls, NEW r \in Requests,
             NEW target \in T!Status, T!UpdateStatus(c, r, target)
      PROVE TransferIInv'
  <2> DEFINE k == [T!Idle EXCEPT !.pc = T!AfterCheck(target), !.target = target, !.at = r,
                               !.seen = t_request]
  <2>1. /\ k.pc = T!AfterCheck(target) /\ k.target = target /\ k.at = r /\ k.seen = t_request
        /\ k.bulk = FALSE
    BY DEF T!Idle
  <2>2. T!CanTransition(t_request[r].status, target) /\ t_call[c].pc = "idle" /\ T!Accept(c, k)
    BY <1>2 DEF T!UpdateStatus, T!At
  <2>3. target = "completed" => t_request[r].status = "started"
    BY <1>0, <2>2, TransferTransitions DEF T!Request
  <2> HIDE DEF k
  <2>4. CallFits(k, t_moved)
    BY <1>0, <2>1, <2>2, <2>3 DEF CallFits, T!AfterCheck
  <2>5. UNCHANGED <<t_request, t_moved, t_raced, t_torn>> /\ t_call' = [t_call EXCEPT ![c] = k]
    BY <2>2 DEF T!Accept
  <2>6. \A x \in Requests : T!Completing(x) \subseteq T!Completing(x)'
    BY <1>0, <2>2, <2>5 DEF T!Completing, T!At
  <2>7. \A d \in Calls : CallFits(t_call'[d], t_moved)
    BY <1>0, <2>4, <2>5
  <2>8. QED  BY <1>Q, <2>5, <2>6, <2>7
<1>3. ASSUME NEW c \in Calls, NEW rs \in SUBSET Requests, NEW target \in T!Status,
             T!BulkUpdate(c, rs, target)
      PROVE TransferIInv'
  <2> DEFINE todo == {r \in rs :
                       target = "completed" \/ T!CanTransition(t_request[r].status, target)}
             k == [T!Idle EXCEPT !.pc = "item", !.bulk = TRUE, !.target = target,
                               !.seen = t_request, !.todo = todo]
  <2>1. T!Accept(c, k) /\ t_call[c].pc = "idle"  BY <1>3 DEF T!BulkUpdate, T!At
  <2>2. target # "completed" => \A r \in todo : T!CanTransition(t_request[r].status, target)
    OBVIOUS
  <2> HIDE DEF todo
  <2>3. k.pc = "item" /\ k.target = target /\ k.todo = todo /\ k.seen = t_request
    BY DEF T!Idle
  <2> HIDE DEF k
  <2>4. CallFits(k, t_moved)
    BY <1>0, <2>2, <2>3 DEF CallFits
  <2>5. UNCHANGED <<t_request, t_moved, t_raced, t_torn>> /\ t_call' = [t_call EXCEPT ![c] = k]
    BY <2>1 DEF T!Accept
  <2>6. \A x \in Requests : T!Completing(x) \subseteq T!Completing(x)'
    BY <1>0, <2>1, <2>5 DEF T!Completing, T!At
  <2>7. \A d \in Calls : CallFits(t_call'[d], t_moved)
    BY <1>0, <2>4, <2>5
  <2>8. QED  BY <1>Q, <2>5, <2>6, <2>7
<1>4. ASSUME NEW c \in Calls, NEW r \in Requests, T!BulkItem(c, r) PROVE TransferIInv'
  <2> DEFINE k == t_call[c]
             started == [k.seen[r] EXCEPT !.status = "started"]
             turn == [k EXCEPT !.at = r]
             put == [turn EXCEPT !.pc = "put"]
             move == [turn EXCEPT !.pc = "move"]
             first == [turn EXCEPT !.pc = "move", !.seen[r] = started]
  <2>1. k \in T!Call /\ k.pc = "item" /\ r \in k.todo /\ CallFits(k, t_moved)
        /\ k.seen[r] \in T!Request
    BY <1>0, <1>4 DEF T!BulkItem, T!At, T!Call
  <2>2. turn \in T!Call /\ turn.pc = "item" /\ turn.at = r /\ turn.seen = k.seen
          /\ turn.target = k.target /\ turn.todo = k.todo
    BY <2>1 DEF T!Call
  <2>3. UNCHANGED <<t_moved, t_torn>>
    BY <1>4 DEF T!BulkItem
  <2>4. \A x \in Requests, K \in T!Call :
          t_call' = [t_call EXCEPT ![c] = K] => T!Completing(x) \subseteq T!Completing(x)'
    BY <1>0, <2>1 DEF T!Completing, T!At
  <2>5. CASE k.target # "completed"
    <3>1. t_call' = [t_call EXCEPT ![c] = put] /\ UNCHANGED <<t_request, t_raced>>
      BY <1>4, <2>5 DEF T!BulkItem
    <3>2. put \in T!Call /\ put.pc = "put" /\ put.at = r
          /\ put.seen = k.seen /\ put.target = k.target
            /\ put.todo = k.todo
      BY <2>1 DEF T!Call
    <3> HIDE DEF put
    <3>3. CallFits(put, t_moved)
      BY <2>1, <2>5, <3>2 DEF CallFits
    <3>4. QED  BY <1>0, <1>Q, <2>3, <2>4, <3>1, <3>2, <3>3
  <2>6. CASE k.target = "completed" /\ k.seen[r].status = "approved"
    <3>1. /\ t_request' = [t_request EXCEPT ![r] = started]
          /\ t_raced' = t_raced \cup {x \in {r} : T!Overwrites(c, r)}
          /\ t_call' = [t_call EXCEPT ![c] = first]
      BY <1>4, <2>6 DEF T!BulkItem
    <3>2. started.status = "started" /\ started.done = k.seen[r].done
      BY <2>1 DEF T!Request
    <3>3. first \in T!Call /\ first.pc = "move" /\ first.at = r /\ first.target = "completed"
            /\ first.seen = [k.seen EXCEPT ![r] = started]
      BY <2>1, <2>6 DEF T!Call, T!Request, T!Status
    <3> HIDE DEF first, started
    <3>4. \A x \in Requests : x # r => t_request'[x] = t_request[x]
      BY <1>0, <3>1
    <3>5. t_request'[r] = started  BY <1>0, <3>1
    <3>6. r \notin t_raced' => t_request[r] = k.seen[r]
      BY <3>1 DEF T!Overwrites
    <3>7. CallFits(first, t_moved)
      BY <1>0, <2>1, <3>2, <3>3 DEF CallFits, Closing, T!Call
    <3>8. T!CompletedMeansMoved'
      BY <1>0, <2>3, <3>2, <3>4, <3>5 DEF T!CompletedMeansMoved, Closing
    <3>9. r \notin t_raced' \cup t_torn => ~started.done /\ t_request[r].done = started.done
      BY <1>00, <2>6, <3>1, <3>2, <3>6 DEF DoneMeansClosing, Closing
    <3>10. DoneMeansClosing'
      BY <1>00, <2>3, <3>1, <3>4, <3>5, <3>9 DEF DoneMeansClosing
    <3>11. T!MovedOnceUnlessRaced'
      <4>1. \A x \in Requests : T!Completing(x) \subseteq T!Completing(x)'
        BY <2>4, <3>1, <3>3
      <4> SUFFICES ASSUME NEW x \in Requests \ (t_raced' \cup t_torn)
                   PROVE  t_moved[x] = 0
                          \/ (t_moved[x] = 1 /\ (t_request'[x].done \/ T!Completing(x)' # {}))
        BY <2>3 DEF T!MovedOnceUnlessRaced
      <4>2. t_request'[x].done = t_request[x].done
        BY <3>4, <3>5, <3>9
      <4>3. x \in Requests \ (t_raced \cup t_torn)  BY <3>1
      <4>4. QED  BY <1>00, <4>1, <4>2, <4>3 DEF T!MovedOnceUnlessRaced
    <3>12. (\A d \in Calls : CallFits(t_call[d], t_moved))'
      BY <1>0, <2>3, <3>1, <3>7
    <3>13. QED  BY <1>T, <3>8, <3>10, <3>11, <3>12 DEF TransferIInv
  <2>7. CASE k.target = "completed" /\ k.seen[r].status # "approved"
    <3>1. UNCHANGED <<t_request, t_raced>>
      BY <1>4, <2>7 DEF T!BulkItem
    <3>2. CASE T!CanTransition(k.seen[r].status, "completed")
               /\ t_call' = [t_call EXCEPT ![c] = move]
      <4>1. move \in T!Call /\ move.pc = "move" /\ move.at = r /\ move.seen = k.seen
              /\ move.target = "completed"
        BY <2>1, <2>7 DEF T!Call
      <4>2. k.seen[r].status = "started"
        BY <2>1, <3>2, TransferTransitions DEF T!Request
      <4> HIDE DEF move
      <4>3. CallFits(move, t_moved)
        BY <2>1, <4>1, <4>2 DEF CallFits
      <4>4. QED  BY <1>0, <1>Q, <2>3, <2>4, <3>1, <3>2, <4>1, <4>3
    <3>3. CASE t_call' = [t_call EXCEPT ![c] = T!Onward(turn)]
      <4> HIDE DEF turn
      <4>1. CallFits(turn, t_moved)
        BY <2>1, <2>2 DEF CallFits
      <4>2. CallFits(T!Onward(turn), t_moved) /\ T!Onward(turn) \in T!Call
        BY <1>0, <2>2, <4>1, OnwardFits, OnwardType
      <4>3. QED  BY <1>0, <1>Q, <2>3, <2>4, <3>1, <3>3, <4>2
    <3>4. QED  BY <1>4, <2>7, <3>2, <3>3 DEF T!BulkItem
  <2>8. QED  BY <2>5, <2>6, <2>7
<1>5. ASSUME NEW c \in Calls, T!TransferStock(c) PROVE TransferIInv'
  <2> DEFINE k == t_call[c]
             put == [k EXCEPT !.pc = "put"]
  <2>1. k \in T!Call /\ k.pc = "move" /\ k.at \in Requests /\ CallFits(k, t_moved)
    BY <1>0, <1>5 DEF T!TransferStock, T!At
  <2>2. k.target = "completed" /\ k.seen[k.at].status = "started"
    BY <2>1 DEF CallFits
  <2>3. UNCHANGED <<t_request, t_torn>>
    BY <1>5 DEF T!TransferStock
  <2>4. CASE T!Enough(t_depot)
    <3>1. /\ t_moved' = [t_moved EXCEPT ![k.at] = @ + 1]
          /\ t_raced' = t_raced \cup {x \in {k.at} : T!Overwrites(c, x) \/ T!Completing(x) # {}}
          /\ t_call' = [t_call EXCEPT ![c] = put]
      BY <1>5, <2>4 DEF T!TransferStock
    <3>2. put.pc = "put" /\ put.at = k.at /\ put.seen = k.seen /\ put.target = "completed"
      BY <2>1, <2>2 DEF T!Call
    <3> HIDE DEF put
    <3>3. \A x \in Requests : x # k.at => t_moved'[x] = t_moved[x]
      BY <1>0, <3>1
    <3>4. t_moved'[k.at] = t_moved[k.at] + 1 /\ t_moved[k.at] \in Nat
      BY <1>0, <2>1, <3>1
    <3>5. CallFits(put, t_moved')
      BY <1>0, <2>1, <2>2, <3>2, <3>3, <3>4 DEF CallFits, Closing
    <3>6. \A d \in Calls : CallFits(t_call[d], t_moved')
      BY <1>0, <2>1, <3>1, FitsGrow
    <3>7. (\A d \in Calls : CallFits(t_call[d], t_moved))'
      BY <1>0, <3>1, <3>5, <3>6
    <3>8. T!CompletedMeansMoved'
      BY <1>0, <2>3, <3>3, <3>4 DEF T!CompletedMeansMoved, Closing
    <3>9. DoneMeansClosing'
      BY <1>00, <2>3, <3>1 DEF DoneMeansClosing
    <3>10. T!MovedOnceUnlessRaced'
      <4> SUFFICES ASSUME NEW x \in Requests \ (t_raced' \cup t_torn)
                   PROVE  t_moved'[x] = 0
                          \/ (t_moved'[x] = 1 /\ (t_request[x].done \/ T!Completing(x)' # {}))
        BY <2>3 DEF T!MovedOnceUnlessRaced
      <4>0. x \in Requests \ (t_raced \cup t_torn)  BY <3>1
      <4>1. CASE x # k.at
        <5>1. T!Completing(x) \subseteq T!Completing(x)'
          BY <1>0, <2>1, <3>1 DEF T!Completing, T!At
        <5>2. QED  BY <1>00, <3>3, <4>0, <4>1, <5>1 DEF T!MovedOnceUnlessRaced
      <4>2. CASE x = k.at
        <5>1. t_request[x] = k.seen[x] /\ T!Completing(x) = {}
          BY <3>1, <4>2 DEF T!Overwrites
        <5>2. ~t_request[x].done
          BY <1>00, <2>2, <4>0, <4>2, <5>1 DEF DoneMeansClosing, Closing
        <5>3. t_moved[x] = 0
          BY <1>00, <4>0, <5>1, <5>2 DEF T!MovedOnceUnlessRaced
        <5>4. c \in T!Completing(x)'
          BY <1>0, <3>1, <3>2, <4>2 DEF T!Completing, T!At
        <5>5. QED  BY <3>4, <4>2, <5>3, <5>4
      <4>3. QED  BY <4>1, <4>2
    <3>11. QED  BY <1>T, <3>7, <3>8, <3>9, <3>10 DEF TransferIInv
  <2>5. CASE ~T!Enough(t_depot)
    <3>1. UNCHANGED <<t_moved, t_raced>> /\ t_call' = [t_call EXCEPT ![c] = T!Onward(k)]
      BY <1>5, <2>5 DEF T!TransferStock
    <3>2. CallFits(T!Onward(k), t_moved) /\ T!Onward(k) \in T!Call
      BY <1>0, <2>1, OnwardFits, OnwardType
    <3>3. \A x \in Requests : T!Completing(x) \subseteq T!Completing(x)'
      BY <1>0, <2>1, <3>1 DEF T!Completing, T!At
    <3>4. QED  BY <1>0, <1>Q, <2>3, <3>1, <3>2, <3>3
  <2>6. QED  BY <2>4, <2>5
<1>6. ASSUME NEW c \in Calls, T!PutRequest(c) PROVE TransferIInv'
  <2> DEFINE k == t_call[c]
             row == [status |-> k.target, done |-> k.target = "completed" \/ k.seen[k.at].done]
  <2>1. k \in T!Call /\ k.pc = "put" /\ k.at \in Requests /\ CallFits(k, t_moved)
    BY <1>0, <1>6 DEF T!PutRequest, T!At
  <2>2. /\ t_request' = [t_request EXCEPT ![k.at] = row]
        /\ t_raced' = t_raced \cup {x \in {k.at} : T!Overwrites(c, k.at)}
        /\ t_call' = [t_call EXCEPT ![c] = T!Onward(k)]
        /\ UNCHANGED <<t_moved, t_torn>>
    BY <1>6 DEF T!PutRequest
  <2>3. k.seen[k.at] \in T!Request /\ k.target \in T!Status  BY <2>1 DEF T!Call
  <2>4. row.status = k.target /\ (row.done <=> (k.target = "completed" \/ k.seen[k.at].done))
    BY <2>3 DEF T!Request
  <2>5. k.target = "completed" => t_moved[k.at] >= 1
    BY <2>1 DEF CallFits
  <2>6. k.target # "completed" => T!CanTransition(k.seen[k.at].status, k.target)
    BY <2>1 DEF CallFits
  <2>7. k.target = "archived" => k.seen[k.at].status = "completed"
    BY <2>3, <2>6, TransferTransitions DEF T!Request
  <2>8. k.target \in Closing => t_moved[k.at] >= 1
    BY <2>1, <2>5, <2>7 DEF CallFits, Closing
  <2>9. \A x \in Requests : x # k.at => t_request'[x] = t_request[x]
    BY <1>0, <2>2
  <2>10. t_request'[k.at] = row  BY <1>0, <2>1, <2>2
  <2>11. k.at \notin t_raced' => t_request[k.at] = k.seen[k.at]
    BY <2>2 DEF T!Overwrites
  <2> HIDE DEF row
  <2>12. CallFits(T!Onward(k), t_moved) /\ T!Onward(k).pc \in {"idle", "item"}
    BY <1>0, <2>1, OnwardFits, OnwardType
  <2>13. (\A d \in Calls : CallFits(t_call[d], t_moved))'
    BY <1>0, <2>2, <2>12
  <2>14. T!CompletedMeansMoved'
    BY <1>0, <2>2, <2>4, <2>8, <2>9, <2>10 DEF T!CompletedMeansMoved, Closing
  <2>15. k.at \notin t_raced' \cup t_torn /\ k.seen[k.at].done /\ k.target # "completed"
           => k.target = "archived"
    <3> SUFFICES ASSUME k.at \notin t_raced' \cup t_torn, k.seen[k.at].done, k.target # "completed"
                 PROVE  k.target = "archived"
      OBVIOUS
    <3>1. k.seen[k.at].status \in Closing
      BY <1>00, <2>1, <2>2, <2>11 DEF DoneMeansClosing
    <3>2. k.seen[k.at].status # "archived"
      BY <2>3, <2>6, TransferTransitions
    <3>3. QED  BY <2>3, <2>6, <3>1, <3>2, TransferTransitions DEF Closing
  <2>16. DoneMeansClosing'
    <3> SUFFICES ASSUME NEW x \in Requests \ (t_raced' \cup t_torn), t_request'[x].done
                 PROVE  t_request'[x].status \in Closing
      BY <2>2 DEF DoneMeansClosing
    <3>1. CASE x # k.at
      BY <1>00, <2>2, <2>9, <3>1 DEF DoneMeansClosing
    <3>2. CASE x = k.at
      BY <2>4, <2>10, <2>15, <3>2 DEF Closing
    <3>3. QED  BY <3>1, <3>2
  <2>17. T!MovedOnceUnlessRaced'
    <3> SUFFICES ASSUME NEW x \in Requests \ (t_raced' \cup t_torn)
                 PROVE  t_moved[x] = 0
                        \/ (t_moved[x] = 1 /\ (t_request'[x].done \/ T!Completing(x)' # {}))
      BY <2>2 DEF T!MovedOnceUnlessRaced
    <3>0. x \in Requests \ (t_raced \cup t_torn)  BY <2>2
    <3>1. CASE x # k.at
      <4>1. T!Completing(x) \subseteq T!Completing(x)'
        BY <1>0, <2>1, <2>2, <3>1 DEF T!Completing, T!At
      <4>2. QED  BY <1>00, <2>9, <3>0, <3>1, <4>1 DEF T!MovedOnceUnlessRaced
    <3>2. CASE x = k.at /\ k.target = "completed"
      <4>1. row.done  BY <2>4, <3>2
      <4>2. QED  BY <1>00, <2>10, <3>0, <3>2, <4>1 DEF T!MovedOnceUnlessRaced
    <3>3. CASE x = k.at /\ k.target # "completed"
      <4>1. T!Completing(x) \subseteq T!Completing(x)'
        BY <1>0, <2>2, <3>3 DEF T!Completing, T!At
      <4>2. t_request[x].done => row.done
        BY <2>4, <2>11, <3>3
      <4>3. QED  BY <1>00, <2>10, <3>0, <3>3, <4>1, <4>2 DEF T!MovedOnceUnlessRaced
    <3>4. QED  BY <3>1, <3>2, <3>3
  <2>18. QED  BY <1>T, <2>13, <2>14, <2>16, <2>17 DEF TransferIInv
<1>7. ASSUME NEW c \in Calls, T!Stop(c) PROVE TransferIInv'
  <2>1. /\ UNCHANGED <<t_request, t_moved, t_raced>> /\ t_call' = [t_call EXCEPT ![c] = T!Idle]
        /\ t_torn' = t_torn \cup {r \in {t_call[c].at} : T!At(c, "put")
                                         /\ t_call[c].target = "completed"}
    BY <1>7 DEF T!Stop
  <2>2. CallFits(T!Idle, t_moved)
    BY DEF CallFits, T!Idle, T!NoRequest, Closing
  <2>3. (\A d \in Calls : CallFits(t_call[d], t_moved))'
    BY <1>0, <2>1, <2>2
  <2>4. T!CompletedMeansMoved' /\ DoneMeansClosing'
    BY <1>0, <1>00, <2>1 DEF T!CompletedMeansMoved, DoneMeansClosing, Closing
  <2>5. T!MovedOnceUnlessRaced'
    <3> SUFFICES ASSUME NEW x \in Requests \ (t_raced \cup t_torn')
                 PROVE  t_moved[x] = 0
                        \/ (t_moved[x] = 1 /\ (t_request[x].done \/ T!Completing(x)' # {}))
      BY <2>1 DEF T!MovedOnceUnlessRaced
    <3>1. x \in Requests \ (t_raced \cup t_torn)  BY <2>1
    <3>2. ~(T!At(c, "put") /\ t_call[c].target = "completed" /\ t_call[c].at = x)
      BY <2>1
    <3>3. T!Completing(x) \subseteq T!Completing(x)'
      BY <1>0, <2>1, <3>2 DEF T!Completing, T!At
    <3>4. QED  BY <1>00, <3>1, <3>3 DEF T!MovedOnceUnlessRaced
  <2>6. QED  BY <1>T, <2>3, <2>4, <2>5 DEF TransferIInv
<1>8. CASE UNCHANGED T!vars
  <2>1. \A x \in Requests : T!Completing(x)' = T!Completing(x)
    BY <1>8 DEF T!vars, T!Completing, T!At
  <2>2. UNCHANGED <<t_request, t_moved, t_raced, t_torn, t_call>>  BY <1>8 DEF T!vars
  <2>3. QED  BY <1>0, <1>Q, <2>1, <2>2
<1>9. QED
  BY <1>1, <1>2, <1>3, <1>4, <1>5, <1>6, <1>7, <1>8 DEF T!Next

\* Initially nothing is requested, moved or read.
LEMMA TransferInitInv == Depot \in Nat /\ T!Init => TransferIInv
<1> SUFFICES ASSUME Depot \in Nat, T!Init PROVE TransferIInv  OBVIOUS
<1>1. T!TypeOK /\ AtRequest
  <2>1. t_call \in [Calls -> T!Call] /\ \A c \in Calls : t_call[c].pc = "idle"
    BY TransferIdleType DEF T!Init, T!Idle
  <2>2. T!NoRequest \in T!Request  BY DEF T!NoRequest, T!Request
  <2>3. QED  BY <2>1, <2>2 DEF T!Init, T!TypeOK, AtRequest
<1>2. \A c \in Calls : CallFits(t_call[c], t_moved)
  BY DEF T!Init, CallFits, T!Idle, T!NoRequest, Closing
<1>3. T!CompletedMeansMoved /\ DoneMeansClosing /\ T!MovedOnceUnlessRaced
  BY DEF T!Init, T!NoRequest, T!CompletedMeansMoved, DoneMeansClosing, T!MovedOnceUnlessRaced
<1>4. QED  BY <1>1, <1>2, <1>3 DEF TransferIInv

\* The types of the table, the stock and the handlers hold for any set of requests
\* and any bounds; a transfer never takes what the depot does not have.
THEOREM TransferTypeCorrect == ASSUME Depot \in Nat PROVE T!Spec => []T!TypeOK
<1>1. TransferIInv => T!TypeOK  BY DEF TransferIInv
<1>2. T!Init => TransferIInv  BY TransferInitInv
<1>3. QED  BY <1>1, <1>2, TransferInvStep, PTL DEF T!Spec

\* updateTransferRequestStatus and bulkUpdateTransferRequests: a request shown as
\* completed has moved its stock, and moves it once and says so, unless two handlers
\* met on the row or one stopped between transfer and row.
THEOREM TransfersSafe ==
  ASSUME Depot \in Nat PROVE T!Spec => [](T!CompletedMeansMoved /\ T!MovedOnceUnlessRaced)
<1>1. TransferIInv => T!CompletedMeansMoved /\ T!MovedOnceUnlessRaced
  BY Zenon DEF TransferIInv
<1>2. T!Init => TransferIInv  BY TransferInitInv
<1>3. QED  BY <1>1, <1>2, TransferInvStep, PTL DEF T!Spec

\* Two writers of rows: what they write was checked against the row they replace.
LEMMA TransferClosedStep == TransferIInv /\ [T!Next]_(T!vars) => T!StaysClosed \/ UNCHANGED T!vars
<1> SUFFICES ASSUME TransferIInv, T!Next PROVE T!StaysClosed
  BY DEF T!vars
<1>0. /\ t_request \in [Requests -> T!Request] /\ t_call \in [Calls -> T!Call]
      /\ \A c \in Calls : t_call[c].pc \in {"move", "put"} => t_call[c].at \in Requests
      /\ \A c \in Calls : CallFits(t_call[c], t_moved)
  BY DEF TransferIInv, T!TypeOK, AtRequest
<1>1. ASSUME NEW r \in Requests, T!CreateTransferRequest(r) PROVE T!StaysClosed
  BY <1>0, <1>1 DEF T!CreateTransferRequest, T!StaysClosed, T!Request
<1>2. CASE UNCHANGED t_request
  BY <1>2 DEF T!StaysClosed
<1>3. ASSUME NEW c \in Calls, NEW r \in Requests, T!BulkItem(c, r), t_request' # t_request
      PROVE T!StaysClosed
  <2> DEFINE started == [t_call[c].seen[r] EXCEPT !.status = "started"]
  <2>1. /\ t_request' = [t_request EXCEPT ![r] = started] /\ t_call[c].seen[r].status = "approved"
        /\ r \notin t_raced' => t_request[r] = t_call[c].seen[r]
    BY <1>3 DEF T!BulkItem, T!Overwrites
  <2> HIDE DEF started
  <2>2. QED  BY <1>0, <2>1 DEF T!StaysClosed
<1>4. ASSUME NEW c \in Calls, T!PutRequest(c) PROVE T!StaysClosed
  <2> DEFINE k == t_call[c]
             row == [status |-> k.target, done |-> k.target = "completed" \/ k.seen[k.at].done]
  <2>1. k \in T!Call /\ k.pc = "put" /\ k.at \in Requests /\ CallFits(k, t_moved)
    BY <1>0, <1>4 DEF T!PutRequest, T!At
  <2>2. t_request' = [t_request EXCEPT ![k.at] = row]
        /\ (k.at \notin t_raced' => t_request[k.at] = k.seen[k.at])
    BY <1>4 DEF T!PutRequest, T!Overwrites
  <2>3. \/ k.target = "completed" /\ k.seen[k.at].status = "started"
        \/ T!CanTransition(k.seen[k.at].status, k.target)
    BY <2>1 DEF CallFits
  <2>4. k.target \in T!Status /\ row.status = k.target  BY <2>1 DEF T!Call
  <2>5. k.seen[k.at].status \notin {"rejected", "cancelled", "failed", "archived"}
    BY <2>3, <2>4, TransferTransitions
  <2>6. k.seen[k.at].status = "completed" => row.status = "archived"
    BY <2>3, <2>4, TransferTransitions
  <2> HIDE DEF row
  <2>7. QED  BY <1>0, <2>1, <2>2, <2>5, <2>6 DEF T!StaysClosed
<1>5. QED
  BY <1>1, <1>2, <1>3, <1>4
     DEF T!Next, T!UpdateStatus, T!BulkUpdate, T!Accept, T!TransferStock, T!Stop

\* A rejected, cancelled, failed or archived request stays so and a completed one is
\* only archived, except by a handler that read the row before.
THEOREM TransferClosedSafe == ASSUME Depot \in Nat PROVE T!Spec => T!ClosedStaysClosed
<1>1. TransferIInv /\ [T!Next]_(T!vars) => [T!StaysClosed]_(T!vars)
  BY TransferClosedStep
<1>2. T!Init => TransferIInv  BY TransferInitInv
<1>3. QED  BY <1>1, <1>2, TransferInvStep, PTL DEF T!Spec, T!ClosedStaysClosed

-----------------------------------------------------------------------------
(***************************************************************************)
(* The locations of the depot, for any set of locations and products: they *)
(* add up to the depot quantity. A handler carries what it does to the     *)
(* locations until it has done it to the stock, so the invariant relates   *)
(* the row it is going to write to the row it read.                        *)
(***************************************************************************)

\* What the constants are.
LGiven ==
  /\ IsFiniteSet(Locations) /\ IsFiniteSet(Calls)
  /\ None \notin Articles \cup Locations
  /\ MaxPallet \in Nat /\ MaxWrites \in Nat /\ MaxStops \in Nat

\* What a row holds of a product, and whether it names one exactly if it holds some.
Holds(row, p) == IF row.product = p THEN row.qty ELSE 0
Proper(row) == (row.product = None <=> row.qty = 0) /\ (row.pallet => row.qty > 0)

\* What a handler is going to do to the locations it will do to the stock, for the
\* products that are not set apart.
LFits(k, odd) ==
  /\ Proper(k.next)
  /\ k.pc = "put" =>
       /\ k.at \in Locations
       /\ \A p \in Articles \ odd :
            Holds(k.next, p) = Holds(k.seen, p) + IF k.product = p THEN k.delta ELSE 0
  /\ k.pc \in {"read", "write"} => k.product \in Articles

LInv == L!TypeOK /\ (\A c \in Calls : LFits(l_call[c], l_strayed)) /\ L!DepotMatchesLocations

\* Sums in the instance are sums.
LEMMA LSum == \A f : L!SumFunction(f) = SumFunction(f)
BY SumIsFold DEF L!SumFunction, L!SumFunctionOnSet, L!FoldFunctionOnSet, L!MapThenFoldSet, Fold,
                 Folded, After, First

\* What is on one location changes what is stored by what it held and holds.
LEMMA StoredChanges ==
  ASSUME LGiven, l_place \in [Locations -> L!Location], NEW x \in Locations, NEW row \in L!Location,
         l_place' = [l_place EXCEPT ![x] = row], NEW p \in Articles
  PROVE  L!Stored(p)' = L!Stored(p) - Holds(l_place[x], p) + Holds(row, p)
<1> PICK D : D = {m \in Locations : l_place[m].product = p}
  OBVIOUS
<1> PICK E : E = {m \in Locations : l_place'[m].product = p}
  OBVIOUS
<1> PICK f : f = [l \in D |-> l_place[l].qty]
  OBVIOUS
<1> PICK g : g = [l \in E |-> l_place'[l].qty]
  OBVIOUS
<1>1. L!Stored(p) = SumFunction(f) /\ L!Stored(p)' = SumFunction(g)
  BY LSum DEF L!Stored
<1>2. l_place' \in [Locations -> L!Location]
  OBVIOUS
<1>3. \A l \in Locations : l_place[l].qty \in Int /\ l_place'[l].qty \in Int
  BY <1>2 DEF L!Location, LGiven
<1>4. f \in [D -> Int] /\ g \in [E -> Int]
  BY <1>3
<1>5. IsFiniteSet(D) /\ IsFiniteSet(E)
  BY FS_Subset DEF LGiven
<1>6. D \ {x} = E \ {x} /\ \A y \in D \ {x} : f[y] = g[y]
  OBVIOUS
<1>7. SumFunction(g) - (IF x \in E THEN g[x] ELSE 0)
        = SumFunction(f) - (IF x \in D THEN f[x] ELSE 0)
  BY <1>4, <1>5, <1>6, SumChanges
<1>8. (IF x \in E THEN g[x] ELSE 0) = Holds(row, p)
  BY DEF Holds
<1>9. (IF x \in D THEN f[x] ELSE 0) = Holds(l_place[x], p)
  BY DEF Holds
<1>10. SumFunction(f) \in Int /\ SumFunction(g) \in Int
  BY <1>4, <1>5, SumType
<1>11. Holds(row, p) \in Int /\ Holds(l_place[x], p) \in Int
  BY <1>3 DEF Holds, L!Location, LGiven
<1> QED
  BY <1>1, <1>7, <1>8, <1>9, <1>10, <1>11

\* What a handler has yet to write.
Owes(k, p) == IF k.pc \in {"read", "write"} /\ k.product = p THEN k.delta ELSE 0

\* One handler's step changes what is pending by what it owed and owes.
LEMMA PendingChanges ==
  ASSUME LGiven, l_call \in [Calls -> L!Call], NEW c \in Calls, NEW k \in L!Call,
         l_call' = [l_call EXCEPT ![c] = k], NEW p \in Articles
  PROVE  L!Pending(p)' = L!Pending(p) - Owes(l_call[c], p) + Owes(k, p)
<1> PICK D : D = L!Moving(p)
  OBVIOUS
<1> PICK E : E = L!Moving(p)'
  OBVIOUS
<1> PICK f : f = [d \in D |-> l_call[d].delta]
  OBVIOUS
<1> PICK g : g = [d \in E |-> l_call'[d].delta]
  OBVIOUS
<1>1. L!Pending(p) = SumFunction(f) /\ L!Pending(p)' = SumFunction(g)
  BY LSum DEF L!Pending
<1>2. \A d \in Calls : l_call[d].delta \in Int /\ l_call'[d].delta \in Int
  BY DEF L!Call
<1>3. D \subseteq Calls /\ E \subseteq Calls
  BY DEF L!Moving
<1>4. f \in [D -> Int] /\ g \in [E -> Int]
  BY <1>2, <1>3
<1>5. IsFiniteSet(D) /\ IsFiniteSet(E)
  BY <1>3, FS_Subset DEF LGiven
<1>6. D \ {c} = E \ {c} /\ \A y \in D \ {c} : f[y] = g[y]
  BY DEF L!Moving
<1>7. SumFunction(g) - (IF c \in E THEN g[c] ELSE 0)
        = SumFunction(f) - (IF c \in D THEN f[c] ELSE 0)
  BY <1>4, <1>5, <1>6, SumChanges
<1>8. (IF c \in E THEN g[c] ELSE 0) = Owes(k, p)
  BY DEF Owes, L!Moving
<1>9. (IF c \in D THEN f[c] ELSE 0) = Owes(l_call[c], p)
  BY DEF Owes, L!Moving
<1>10. SumFunction(f) \in Int /\ SumFunction(g) \in Int
  BY <1>4, <1>5, SumType
<1>11. Owes(k, p) \in Int /\ Owes(l_call[c], p) \in Int
  BY DEF Owes, L!Call
<1> QED
  BY <1>1, <1>7, <1>8, <1>9, <1>10, <1>11

\* What is stored and what is pending are integers.
LEMMA LSums ==
  ASSUME LGiven, L!TypeOK, NEW p \in Articles
  PROVE  L!Stored(p) \in Int /\ L!Pending(p) \in Int
<1> PICK D : D = {m \in Locations : l_place[m].product = p}
  OBVIOUS
<1> PICK f : f = [l \in D |-> l_place[l].qty]
  OBVIOUS
<1> PICK E : E = L!Moving(p)
  OBVIOUS
<1> PICK g : g = [c \in E |-> l_call[c].delta]
  OBVIOUS
<1>1. f \in [D -> Int] /\ IsFiniteSet(D)
  BY FS_Subset DEF L!TypeOK, L!Location, LGiven
<1>2. g \in [E -> Int] /\ IsFiniteSet(E)
  BY FS_Subset DEF L!TypeOK, L!Call, LGiven, L!Moving
<1> QED
  BY <1>1, <1>2, SumType, LSum DEF L!Stored, L!Pending

\* The same for all products.
LEMMA LSumsAll ==
  LGiven /\ L!TypeOK => \A p \in Articles : L!Stored(p) \in Int /\ L!Pending(p) \in Int
BY LSums

\* And after a step.
LEMMA LSumsNext ==
  (LGiven /\ L!TypeOK => \A p \in Articles : L!Stored(p) \in Int /\ L!Pending(p) \in Int)'
BY LSumsAll, PTL

\* What fits still fits when more products are set apart.
LEMMA LFitsStill ==
  ASSUME NEW k, NEW odd, NEW more, odd \subseteq more, LFits(k, odd)
  PROVE  LFits(k, more)
BY DEF LFits

\* A step of one handler keeps the balance of a product if it does to the depot, and what
\* is still owed to it, what it does to the locations.
LEMMA LHandlerStep ==
  ASSUME LGiven, LInv, L!TypeOK', l_strayed \subseteq l_strayed',
         NEW c \in Calls, NEW k \in L!Call, l_call' = [l_call EXCEPT ![c] = k], LFits(k,
         l_strayed'),
         \A p \in Articles \ l_strayed' :
           (l_depot'[p] - l_depot[p]) + (Owes(k, p) - Owes(l_call[c], p))
             = (L!Stored(p)' - L!Stored(p)) + (l_elsewhere'[p] - l_elsewhere[p])
  PROVE  LInv'
<1>1. \A d \in Calls : LFits(l_call'[d], l_strayed')
  <2> SUFFICES ASSUME NEW d \in Calls PROVE LFits(l_call'[d], l_strayed')
    OBVIOUS
  <2>1. CASE d = c
    BY <2>1 DEF LInv, L!TypeOK
  <2>2. CASE d # c
    BY <2>2, LFitsStill DEF LInv, L!TypeOK
  <2> QED
    BY <2>1, <2>2
<1>2. L!DepotMatchesLocations'
  <2> SUFFICES ASSUME NEW p \in Articles, p \notin l_strayed'
               PROVE  l_depot'[p] + L!Pending(p)' = L!Stored(p)' + l_elsewhere'[p]
    BY DEF L!DepotMatchesLocations
  <2>1. L!Pending(p)' = L!Pending(p) - Owes(l_call[c], p) + Owes(k, p)
    BY PendingChanges DEF LInv, L!TypeOK
  <2>2. l_depot[p] + L!Pending(p) = L!Stored(p) + l_elsewhere[p]
    BY DEF LInv, L!DepotMatchesLocations
  <2>3. /\ l_depot[p] \in Int /\ l_depot'[p] \in Int
        /\ l_elsewhere[p] \in Int /\ l_elsewhere'[p] \in Int
    BY DEF LInv, L!TypeOK
  <2>4. L!Stored(p) \in Int /\ L!Pending(p) \in Int
    BY LSums DEF LInv
  <2>5. L!Stored(p)' \in Int /\ L!Pending(p)' \in Int
    BY LSumsNext DEF LGiven
  <2>6. Owes(k, p) \in Int /\ Owes(l_call[c], p) \in Int
    BY DEF Owes, L!Call, LInv, L!TypeOK
  <2> QED
    BY <2>1, <2>2, <2>3, <2>4, <2>5, <2>6
<1> QED
  BY <1>1, <1>2 DEF LInv

-----------------------------------------------------------------------------

\* The empty location and the idle handler.
LEMMA FreeType == LGiven => L!Free \in L!Location /\ Proper(L!Free) /\ L!Idle \in L!Call
BY DEF LGiven, L!Free, L!Location, Proper, L!Idle, L!Call

\* A handler that starts with a row that is right for it.
LEMMA LStartStep ==
  ASSUME LGiven, LInv, NEW c \in Calls, NEW k \in L!Call, k.pc = "put", k.at \in Locations,
         Proper(k.next), NEW odd, odd \subseteq Articles,
         L!At(c, "idle"), l_served < MaxWrites, l_call' = [l_call EXCEPT ![c] = k],
         l_served' = l_served + 1, l_strayed' = l_strayed \cup odd,
         UNCHANGED <<l_place, l_depot, l_recorded, l_stops, l_elsewhere>>,
         \A x \in Articles \ odd :
           Holds(k.next, x) = Holds(k.seen, x) + IF k.product = x THEN k.delta ELSE 0
  PROVE  LInv'
<1>2. L!TypeOK'
  BY DEF LInv, L!TypeOK, LGiven
<1>3. LFits(k, l_strayed')
  BY DEF LFits
<1>4. \A x \in Articles : Owes(k, x) = 0 /\ Owes(l_call[c], x) = 0
  BY DEF Owes, L!At
<1>5. \A x \in Articles : L!Stored(x)' = L!Stored(x) /\ L!Stored(x) \in Int
  BY LSums DEF LInv, L!Stored
<1>6. l_depot \in [Articles -> Nat] /\ l_elsewhere \in [Articles -> Int]
  BY DEF LInv, L!TypeOK
<1>7. \A x \in Articles \ l_strayed' :
        (l_depot'[x] - l_depot[x]) + (Owes(k, x) - Owes(l_call[c], x))
          = (L!Stored(x)' - L!Stored(x)) + (l_elsewhere'[x] - l_elsewhere[x])
  BY <1>4, <1>5, <1>6
<1> QED
  BY <1>2, <1>3, <1>7, LHandlerStep

\* A movement that starts.
LEMMA LMoveStep ==
  ASSUME LGiven, LInv, NEW c \in Calls, NEW l \in Locations, NEW p \in Articles,
         NEW next \in L!Location, Proper(next), NEW delta \in Int, NEW odd, odd \subseteq Articles,
         L!Move(c, l, p, next, delta, odd),
         \A x \in Articles \ odd :
           Holds(next, x) = Holds(l_place[l], x) + IF p = x THEN delta ELSE 0
  PROVE  LInv'
<1> PICK k : k = [pc |-> "put", at |-> l, seen |-> l_place[l], next |-> next,
                  product |-> p, delta |-> delta, had |-> 0]
  OBVIOUS
<1>1. k \in L!Call
  BY DEF L!Call, LInv, L!TypeOK
<1> QED
  BY <1>1, LStartStep DEF L!Move

\* A row that is stored.
LEMMA RowStored ==
  ASSUME LGiven, L!TypeOK, NEW l \in Locations
  PROVE  l_place[l] \in L!Location /\ Proper(l_place[l]) /\ l_place[l].qty \in 0..MaxPallet
BY DEF L!TypeOK, Proper, L!Location

\* Receiving keeps the invariant.
LEMMA LReceiveStep ==
  ASSUME LGiven, LInv, NEW c \in Calls, NEW l \in Locations, NEW p \in Articles,
         NEW q \in 1..MaxPallet, L!Receive(c, l, p, q)
  PROVE  LInv'
<1> PICK odd : odd = IF l_place[l].pallet THEN {} ELSE L!Of(l_place[l])
  OBVIOUS
<1>1. l_place[l] \in L!Location /\ Proper(l_place[l]) /\ odd = L!Of(l_place[l])
  BY RowStored DEF LInv, L!Receive, L!CanReceive
<1>2. odd \subseteq Articles
  BY <1>1 DEF L!Of, L!Location
<1>3. L!Received(p, q) \in L!Location /\ Proper(L!Received(p, q))
  BY DEF LGiven, L!Received, L!Location, Proper
<1>4. \A x \in Articles \ odd :
        Holds(L!Received(p, q), x) = Holds(l_place[l], x) + IF p = x THEN q ELSE 0
  BY <1>1 DEF LGiven, L!Received, Holds, L!Of
<1> QED
  BY <1>2, <1>3, <1>4, LMoveStep DEF L!Receive

\* Taking keeps the invariant.
LEMMA LTakeStep ==
  ASSUME LGiven, LInv, NEW c \in Calls, NEW l \in Locations, NEW p \in Articles,
         NEW q \in 1..MaxPallet, L!Take(c, l, p, q)
  PROVE  LInv'
<1> PICK odd : odd = IF q > l_place[l].qty THEN {p} ELSE {}
  OBVIOUS
<1>1. /\ l_place[l] \in L!Location /\ Proper(l_place[l]) /\ l_place[l].qty \in 0..MaxPallet
      /\ l_place[l].product = p
  BY RowStored DEF LInv, L!Take, L!CanTake
<1>2. odd \subseteq Articles /\ -q \in Int
  OBVIOUS
<1>3. L!Taken(l_place[l], q) \in L!Location /\ Proper(L!Taken(l_place[l], q))
  BY <1>1 DEF LGiven, L!Taken, L!Most, L!Location, Proper
<1>4. \A x \in Articles \ odd :
        Holds(L!Taken(l_place[l], q), x) = Holds(l_place[l], x) + IF p = x THEN -q ELSE 0
  <2> SUFFICES ASSUME NEW x \in Articles \ odd
               PROVE  Holds(L!Taken(l_place[l], q), x)
                        = Holds(l_place[l], x) + IF p = x THEN -q ELSE 0
    OBVIOUS
  <2>1. CASE x = p
    BY <1>1, <2>1 DEF LGiven, L!Taken, L!Most, Holds
  <2>2. CASE x # p
    BY <1>1, <2>2 DEF LGiven, L!Taken, L!Most, Holds
  <2> QED
    BY <2>1, <2>2
<1> QED
  BY <1>2, <1>3, <1>4, LMoveStep DEF L!Take

\* Counting keeps the invariant.
LEMMA LCountStep ==
  ASSUME LGiven, LInv, NEW c \in Calls, NEW l \in Locations, NEW p \in Articles,
         NEW q \in 1..MaxPallet, L!Count(c, l, p, q)
  PROVE  LInv'
<1> PICK odd : odd = IF L!Of(l_place[l]) \subseteq {p} THEN {} ELSE L!Of(l_place[l]) \cup {p}
  OBVIOUS
<1>1. l_place[l] \in L!Location /\ Proper(l_place[l]) /\ l_place[l].qty \in 0..MaxPallet
  BY RowStored DEF LInv
<1>2. odd \subseteq Articles /\ L!Difference(l_place[l], q) \in Int
  BY <1>1 DEF L!Of, L!Location, L!Difference
<1>3. L!Counted(p, q) \in L!Location /\ Proper(L!Counted(p, q))
  BY DEF LGiven, L!Counted, L!Location, Proper
<1>4. \A x \in Articles \ odd :
        Holds(L!Counted(p, q), x)
          = Holds(l_place[l], x) + IF p = x THEN L!Difference(l_place[l], q) ELSE 0
  BY <1>1 DEF LGiven, L!Counted, L!Difference, Holds, L!Of, Proper, L!Location
<1> QED
  BY <1>2, <1>3, <1>4, LMoveStep DEF L!Count

\* Clearing and marking keep the invariant.
LEMMA LUpdateStep ==
  ASSUME LGiven, LInv, NEW c \in Calls, NEW l \in Locations, NEW next,
         L!UpdateLocation(c, l, next)
  PROVE  LInv'
<1> PICK odd : odd = IF next = L!Free THEN L!Of(l_place[l]) ELSE {}
  OBVIOUS
<1>1. l_place[l] \in L!Location /\ Proper(l_place[l])
  BY RowStored DEF LInv
<1>2. odd \subseteq Articles
  BY <1>1 DEF L!Of, L!Location
<1>3. next \in L!Location /\ Proper(next)
  BY <1>1, FreeType DEF L!UpdateLocation
<1> PICK k : k = [L!Idle EXCEPT !.pc = "put", !.at = l, !.seen = l_place[l], !.next = next]
  OBVIOUS
<1>4. /\ k.pc = "put" /\ k.at = l /\ k.seen = l_place[l] /\ k.next = next
      /\ k.product = None /\ k.delta = 0 /\ k \in L!Call
  BY <1>1, <1>3, FreeType DEF L!Idle, L!Call
<1>5. \A x \in Articles \ odd :
        Holds(k.next, x) = Holds(k.seen, x) + IF k.product = x THEN k.delta ELSE 0
  BY <1>1, <1>4 DEF L!UpdateLocation, L!Free, Holds, L!Of, L!Location, LGiven
<1>6. L!At(c, "idle") /\ l_served < MaxWrites /\ l_call' = [l_call EXCEPT ![c] = k]
  BY DEF L!UpdateLocation
<1>7. /\ l_served' = l_served + 1 /\ l_strayed' = l_strayed \cup odd
      /\ UNCHANGED <<l_place, l_depot, l_recorded, l_stops, l_elsewhere>>
  BY DEF L!UpdateLocation
<1> QED
  BY <1>2, <1>3, <1>4, <1>5, <1>6, <1>7, LStartStep

-----------------------------------------------------------------------------

\* Writing the location, from a reading that holds or not.
LEMMA LPutStep == ASSUME LGiven, LInv, NEW c \in Calls, L!PutLocation(c) PROVE LInv'
<1> PICK k : k = l_call[c]
  OBVIOUS
<1> PICK m : m = IF k.product = None THEN L!Idle
                 ELSE [k EXCEPT !.pc = IF k.delta = 0 THEN "record" ELSE "read"]
  OBVIOUS
<1>1. k \in L!Call /\ k.pc = "put" /\ LFits(k, l_strayed) /\ k.at \in Locations
  BY DEF LInv, L!TypeOK, L!PutLocation, L!At, LFits
<1>2. /\ l_place' = [l_place EXCEPT ![k.at] = k.next] /\ l_call' = [l_call EXCEPT ![c] = m]
      /\ UNCHANGED <<l_depot, l_recorded, l_served, l_stops, l_elsewhere>>
  BY DEF L!PutLocation
<1>3. l_strayed' = l_strayed \cup IF l_place[k.at] = k.seen THEN {}
                              ELSE L!Of(l_place[k.at]) \cup L!Of(k.seen) \cup L!Of(k.next)
  BY DEF L!PutLocation
<1>4. m \in L!Call /\ m.pc \in {"idle", "record", "read"} /\ Proper(m.next)
      /\ (k.product # None => m.product = k.product /\ m.delta = k.delta)
      /\ (m.pc = "read" => k.product # None)
      /\ (k.product # None => (m.pc = "read" <=> k.delta # 0))
  BY <1>1, FreeType DEF L!Call, LFits, L!Idle
<1>5. k.next \in L!Location /\ k.seen \in L!Location /\ Proper(k.next)
      /\ l_place[k.at] \in L!Location
  BY <1>1 DEF L!Call, LFits, LInv, L!TypeOK
<1>6. l_strayed' \subseteq Articles /\ l_strayed \subseteq l_strayed'
  BY <1>3, <1>5 DEF LInv, L!TypeOK, L!Of, L!Location
<1>7. L!TypeOK'
  <2>1. l_place' \in [Locations -> L!Location] /\ l_call' \in [Calls -> L!Call]
    BY <1>1, <1>2, <1>4, <1>5 DEF LInv, L!TypeOK
  <2>2. \A l \in Locations : Proper(l_place'[l])
    BY <1>1, <1>2, <1>5 DEF LInv, L!TypeOK, Proper
  <2> QED
    BY <1>2, <1>6, <2>1, <2>2 DEF LInv, L!TypeOK, Proper
<1>8. LFits(m, l_strayed')
  BY <1>1, <1>4 DEF LFits, L!Call
<1>9. ASSUME NEW x \in Articles, x \notin l_strayed'
      PROVE  /\ Holds(k.next, x) \in Int /\ Holds(l_place[k.at], x) \in Int
             /\ Holds(k.next, x) = Holds(l_place[k.at], x) + IF k.product = x THEN k.delta ELSE 0
  <2>1. Holds(k.next, x) \in Int /\ Holds(l_place[k.at], x) \in Int
    BY <1>5 DEF Holds, L!Location, LGiven
  <2>2. Holds(k.next, x) = Holds(k.seen, x) + IF k.product = x THEN k.delta ELSE 0
    BY <1>1, <1>6, <1>9 DEF LFits
  <2>3. CASE l_place[k.at] = k.seen
    BY <2>1, <2>2, <2>3
  <2>4. CASE l_place[k.at] # k.seen
    <3>1. Holds(k.next, x) = 0 /\ Holds(k.seen, x) = 0 /\ Holds(l_place[k.at], x) = 0
      BY <1>3, <1>9, <2>4 DEF Holds, L!Of, LGiven
    <3> QED
      BY <2>1, <2>2, <3>1
  <2> QED
    BY <2>3, <2>4
<1>10. ASSUME NEW x \in Articles, x \notin l_strayed'
       PROVE  (l_depot'[x] - l_depot[x]) + (Owes(m, x) - Owes(k, x))
                = (L!Stored(x)' - L!Stored(x)) + (l_elsewhere'[x] - l_elsewhere[x])
  <2>1. L!Stored(x)' = L!Stored(x) - Holds(l_place[k.at], x) + Holds(k.next, x)
        /\ L!Stored(x) \in Int
    BY <1>1, <1>2, <1>5, StoredChanges, LSums DEF LInv, L!TypeOK
  <2>2. Owes(k, x) = 0 /\ Owes(m, x) = IF k.product = x THEN k.delta ELSE 0
    BY <1>1, <1>4 DEF Owes, L!Call, LGiven
  <2>3. l_depot'[x] = l_depot[x] /\ l_elsewhere'[x] = l_elsewhere[x]
        /\ l_depot[x] \in Int /\ l_elsewhere[x] \in Int
    BY <1>2 DEF LInv, L!TypeOK
  <2>4. k.delta \in Int
    BY <1>1 DEF L!Call
  <2> QED
    BY <1>9, <1>10, <2>1, <2>2, <2>3, <2>4
<1> QED
  BY <1>2, <1>4, <1>6, <1>7, <1>8, <1>10, LHandlerStep

\* A handler reads the stock, or is done.
LEMMA LQuietStep ==
  ASSUME LGiven, LInv, NEW c \in Calls, NEW k \in L!Call, l_call' = [l_call EXCEPT ![c] = k],
         UNCHANGED <<l_place, l_depot, l_served, l_elsewhere>>, l_recorded' \in Nat,
         l_stops' \in 0..MaxStops, l_strayed \subseteq l_strayed', l_strayed' \subseteq Articles,
         LFits(k, l_strayed'),
         \A x \in Articles \ l_strayed' : Owes(k, x) = Owes(l_call[c], x)
  PROVE  LInv'
<1>1. L!TypeOK'
  BY DEF LInv, L!TypeOK
<1>2. \A x \in Articles : L!Stored(x)' = L!Stored(x) /\ L!Stored(x) \in Int
  BY LSums DEF LInv, L!Stored
<1>3. \A x \in Articles : /\ l_depot'[x] = l_depot[x] /\ l_elsewhere'[x] = l_elsewhere[x]
                          /\ l_depot[x] \in Int /\ l_elsewhere[x] \in Int
  BY DEF LInv, L!TypeOK
<1>4. \A x \in Articles : Owes(l_call[c], x) \in Int
  BY DEF Owes, L!Call, LInv, L!TypeOK
<1>5. \A x \in Articles \ l_strayed' :
        (l_depot'[x] - l_depot[x]) + (Owes(k, x) - Owes(l_call[c], x))
          = (L!Stored(x)' - L!Stored(x)) + (l_elsewhere'[x] - l_elsewhere[x])
  BY <1>2, <1>3, <1>4
<1> QED
  BY <1>1, <1>5, LHandlerStep

\* Reading the stock.
LEMMA LReadStep == ASSUME LGiven, LInv, NEW c \in Calls, L!ReadStock(c) PROVE LInv'
<1> PICK k : k = [l_call[c] EXCEPT !.pc = "write", !.had = l_depot[l_call[c].product]]
  OBVIOUS
<1>1. /\ l_call[c] \in L!Call /\ l_call[c].pc = "read" /\ l_call[c].product \in Articles
      /\ LFits(l_call[c], l_strayed)
  BY DEF LInv, L!TypeOK, L!ReadStock, L!At, LFits
<1>2. /\ k \in L!Call /\ k.pc = "write" /\ k.product = l_call[c].product /\ k.next = l_call[c].next
      /\ k.delta = l_call[c].delta
  BY <1>1 DEF LInv, L!TypeOK, L!Call
<1>3. l_call' = [l_call EXCEPT ![c] = k]
  BY DEF L!ReadStock
<1>4. LFits(k, l_strayed) /\ \A x \in Articles : Owes(k, x) = Owes(l_call[c], x)
  BY <1>1, <1>2 DEF LFits, Owes
<1>5. /\ l_strayed \subseteq l_strayed' /\ l_strayed' \subseteq Articles /\ l_recorded' \in Nat
      /\ l_stops' \in 0..MaxStops
      /\ UNCHANGED <<l_place, l_depot, l_served, l_elsewhere, l_strayed>>
  BY DEF L!ReadStock, LInv, L!TypeOK
<1>6. LFits(k, l_strayed') /\ \A x \in Articles \ l_strayed' : Owes(k, x) = Owes(l_call[c], x)
  BY <1>4, <1>5
<1> QED
  BY <1>2, <1>3, <1>5, <1>6, LQuietStep

\* Recording the movement.
LEMMA LRecordStep == ASSUME LGiven, LInv, NEW c \in Calls, L!RecordMovement(c) PROVE LInv'
<1>1. LFits(L!Idle, l_strayed) /\ \A x \in Articles : Owes(L!Idle, x) = Owes(l_call[c], x)
  BY FreeType DEF LFits, Owes, L!Idle, L!RecordMovement, L!At
<1>2. /\ l_strayed \subseteq l_strayed' /\ l_strayed' \subseteq Articles /\ l_recorded' \in Nat
      /\ l_stops' \in 0..MaxStops
      /\ UNCHANGED <<l_place, l_depot, l_served, l_elsewhere, l_strayed>>
  BY DEF L!RecordMovement, LInv, L!TypeOK
<1>3. l_call' = [l_call EXCEPT ![c] = L!Idle] /\ L!Idle \in L!Call
  BY FreeType DEF L!RecordMovement, L!Done
<1>4. LFits(L!Idle, l_strayed')
      /\ \A x \in Articles \ l_strayed' : Owes(L!Idle, x) = Owes(l_call[c], x)
  BY <1>1, <1>2
<1> QED
  BY <1>2, <1>3, <1>4, LQuietStep

\* A handler that stops.
LEMMA LStopStep == ASSUME LGiven, LInv, NEW c \in Calls, L!Stop(c) PROVE LInv'
<1> PICK odd : odd = IF l_call[c].pc \in {"read", "write"} THEN {l_call[c].product} ELSE {}
  OBVIOUS
<1>1. /\ odd \subseteq l_strayed' /\ l_strayed \subseteq l_strayed' /\ l_strayed' \subseteq Articles
  BY DEF L!Stop, LInv, L!TypeOK, LFits
<1>2. \A x \in Articles \ l_strayed' : Owes(L!Idle, x) = Owes(l_call[c], x)
  BY <1>1 DEF Owes, L!Idle
<1>3. LFits(L!Idle, l_strayed')
  BY FreeType DEF LFits, L!Idle
<1>4. l_stops' \in 0..MaxStops
  BY DEF L!Stop, LInv, L!TypeOK, LGiven
<1> QED
  BY <1>1, <1>2, <1>3, <1>4, FreeType, LQuietStep DEF L!Stop, L!Done, LInv, L!TypeOK

\* Writing the stock, from a reading that holds or not.
LEMMA LWriteStep == ASSUME LGiven, LInv, NEW c \in Calls, L!WriteStock(c) PROVE LInv'
<1> PICK k : k = l_call[c]
  OBVIOUS
<1> PICK m : m = [k EXCEPT !.pc = "record"]
  OBVIOUS
<1>1. k \in L!Call /\ k.pc = "write" /\ LFits(k, l_strayed) /\ k.product \in Articles
      /\ k.delta \in Int /\ k.had \in Nat
  BY DEF LInv, L!TypeOK, L!WriteStock, L!At, LFits, L!Call
<1>2. /\ l_depot' = [l_depot EXCEPT ![k.product] = L!Most(0, k.had + k.delta)]
      /\ l_call' = [l_call EXCEPT ![c] = m]
      /\ l_strayed' = l_strayed \cup IF l_depot[k.product] = k.had /\ k.had + k.delta >= 0 THEN {}
                                 ELSE {k.product}
      /\ UNCHANGED <<l_place, l_recorded, l_served, l_stops, l_elsewhere>>
  BY DEF L!WriteStock
<1>3. m \in L!Call /\ m.pc = "record" /\ LFits(m, l_strayed')
  BY <1>1 DEF L!Call, LFits
<1>4. L!Most(0, k.had + k.delta) \in Nat
  BY <1>1 DEF L!Most
<1>5. L!TypeOK'
  BY <1>1, <1>2, <1>3, <1>4 DEF LInv, L!TypeOK
<1>6. ASSUME NEW x \in Articles, x \notin l_strayed'
      PROVE  (l_depot'[x] - l_depot[x]) + (Owes(m, x) - Owes(k, x))
               = (L!Stored(x)' - L!Stored(x)) + (l_elsewhere'[x] - l_elsewhere[x])
  <2>1. L!Stored(x)' = L!Stored(x) /\ L!Stored(x) \in Int
    BY <1>2, LSums DEF LInv, L!Stored
  <2>2. Owes(m, x) = 0
    BY <1>3 DEF Owes
  <2>3. /\ l_elsewhere'[x] = l_elsewhere[x] /\ l_elsewhere[x] \in Int
        /\ l_depot \in [Articles -> Nat] /\ l_depot[x] \in Int
    BY <1>2 DEF LInv, L!TypeOK
  <2>4. CASE x = k.product
    <3>1. l_depot[x] = k.had /\ k.had + k.delta >= 0
      BY <1>2, <1>6, <2>4
    <3>2. l_depot'[x] = k.had + k.delta
      BY <1>1, <1>2, <2>3, <2>4, <3>1 DEF L!Most
    <3>3. Owes(k, x) = k.delta
      BY <1>1, <2>4 DEF Owes
    <3> QED
      BY <1>1, <2>1, <2>2, <2>3, <3>1, <3>2, <3>3
  <2>5. CASE x # k.product
    <3>1. l_depot'[x] = l_depot[x] /\ Owes(k, x) = 0
      BY <1>2, <2>3, <2>5 DEF Owes
    <3> QED
      BY <2>1, <2>2, <2>3, <3>1
  <2> QED
    BY <2>4, <2>5
<1>7. l_strayed \subseteq l_strayed'
  BY <1>2
<1>8. \A x \in Articles \ l_strayed' :
        (l_depot'[x] - l_depot[x]) + (Owes(m, x) - Owes(l_call[c], x))
          = (L!Stored(x)' - L!Stored(x)) + (l_elsewhere'[x] - l_elsewhere[x])
  BY <1>6
<1>9. m \in L!Call /\ LFits(m, l_strayed') /\ l_call' = [l_call EXCEPT ![c] = m]
  BY <1>2, <1>3
<1> QED
  BY <1>5, <1>7, <1>8, <1>9, LHandlerStep

\* What other services do to the depot.
LEMMA LElsewhereStep ==
  ASSUME LGiven, LInv, NEW p \in Articles, NEW d \in {-1, 1}, L!ChangeElsewhere(p, d)
  PROVE  LInv'
<1>1. l_depot \in [Articles -> Nat] /\ l_elsewhere \in [Articles -> Int]
  BY DEF LInv, L!TypeOK
<1>2. /\ l_depot' = [l_depot EXCEPT ![p] = @ + d]
         /\ l_elsewhere' = [l_elsewhere EXCEPT ![p] = @ + d]
      /\ l_depot[p] + d >= 0 /\ UNCHANGED <<l_place, l_call, l_strayed>> /\ d \in Int
  BY DEF L!ChangeElsewhere
<1>3. L!TypeOK'
  BY <1>1, <1>2 DEF L!ChangeElsewhere, LInv, L!TypeOK, LGiven
<1>4. L!DepotMatchesLocations'
  <2> SUFFICES ASSUME NEW x \in Articles, x \notin l_strayed'
               PROVE  l_depot'[x] + L!Pending(x)' = L!Stored(x)' + l_elsewhere'[x]
    BY DEF L!DepotMatchesLocations
  <2>1. L!Stored(x)' = L!Stored(x) /\ L!Pending(x)' = L!Pending(x)
    BY <1>2 DEF L!Stored, L!Pending, L!Moving
  <2>2. L!Stored(x) \in Int /\ L!Pending(x) \in Int
    BY LSums DEF LInv
  <2>3. l_depot[x] + L!Pending(x) = L!Stored(x) + l_elsewhere[x]
    BY <1>2 DEF LInv, L!DepotMatchesLocations
  <2>4. \E e \in Int : l_depot'[x] = l_depot[x] + e /\ l_elsewhere'[x] = l_elsewhere[x] + e
    <3>1. CASE x = p
      BY <1>1, <1>2, <3>1
    <3>2. CASE x # p
      BY <1>1, <1>2, <3>2
    <3> QED
      BY <3>1, <3>2
  <2>5. l_depot[x] \in Int /\ l_elsewhere[x] \in Int
    BY <1>1
  <2> QED
    BY <2>1, <2>2, <2>3, <2>4, <2>5
<1> QED
  BY <1>2, <1>3, <1>4 DEF LInv

-----------------------------------------------------------------------------

\* Initially nothing is stored, pending or changed elsewhere.
LEMMA LInitInv == ASSUME LGiven, L!Init PROVE LInv
<1>1. \A c \in Calls : l_call[c] = L!Idle /\ LFits(l_call[c], l_strayed)
  BY FreeType DEF L!Init, L!Idle, LFits
<1>2. L!TypeOK
  BY FreeType DEF L!Init, L!TypeOK, L!Free, LGiven
<1>3. L!DepotMatchesLocations
  <2> SUFFICES ASSUME NEW p \in Articles PROVE L!Stored(p) = 0 /\ L!Pending(p) = 0
    BY DEF L!Init, L!DepotMatchesLocations
  <2>1. {m \in Locations : l_place[m].product = p} = {} /\ L!Moving(p) = {}
    BY <1>1 DEF L!Init, L!Free, LGiven, L!Moving, L!Idle
  <2>2. SumFunction([l \in {} |-> l_place[l].qty]) = 0
    <3>1. IsFiniteSet({})
      BY FS_EmptySet
    <3>2. DOMAIN [l \in {} |-> l_place[l].qty] = {}
      OBVIOUS
    <3> QED
      BY <3>1, <3>2, SumZero
  <2>3. SumFunction([c \in {} |-> l_call[c].delta]) = 0
    <3>1. IsFiniteSet({})
      BY FS_EmptySet
    <3>2. DOMAIN [c \in {} |-> l_call[c].delta] = {}
      OBVIOUS
    <3> QED
      BY <3>1, <3>2, SumZero
  <2> QED
    BY <2>1, <2>2, <2>3, LSum DEF L!Stored, L!Pending
<1> QED
  BY <1>1, <1>2, <1>3 DEF LInv

\* Every step keeps the invariant.
LEMMA LInvStep == ASSUME LGiven, LInv, [L!Next]_(L!vars) PROVE LInv'
<1>1. ASSUME NEW c \in Calls, NEW l \in Locations, NEW p \in Articles, NEW q \in 1..MaxPallet,
             L!Receive(c, l, p, q) \/ L!Take(c, l, p, q) \/ L!Count(c, l, p, q)
      PROVE  LInv'
  BY <1>1, LReceiveStep, LTakeStep, LCountStep
<1>2. ASSUME NEW c \in Calls, NEW l \in Locations, NEW next, L!UpdateLocation(c, l, next)
      PROVE  LInv'
  BY <1>2, LUpdateStep
<1>3. ASSUME NEW c \in Calls,
             \/ L!PutLocation(c) \/ L!ReadStock(c) \/ L!WriteStock(c)
             \/ L!RecordMovement(c) \/ L!Stop(c)
      PROVE  LInv'
  BY <1>3, LPutStep, LReadStep, LWriteStep, LRecordStep, LStopStep
<1>4. ASSUME NEW p \in Articles, NEW d \in {-1, 1}, L!ChangeElsewhere(p, d)
      PROVE  LInv'
  BY <1>4, LElsewhereStep
<1>5. CASE UNCHANGED L!vars
  BY <1>5 DEF L!vars, LInv, L!TypeOK, L!DepotMatchesLocations, L!Stored, L!Pending, L!Moving
<1> QED
  BY <1>1, <1>2, <1>3, <1>4, <1>5 DEF L!Next

-----------------------------------------------------------------------------
(***************************************************************************)
(* Purchase suggestions, for every number of them and of requests: what a  *)
(* request read and is not outdated is still so, and no more than one      *)
(* suggestion is active.  Then what a step does, and that it keeps this.   *)
(***************************************************************************)

POnRow == {"update", "reject", "approve", "number", "create"}
\* A request works on a row that it read as pending, or expires ones it read as active.
PFits(k) ==
  /\ k.pc \in POnRow => k.on \in Suggestions /\ k.read[k.on].status = "pending"
  /\ k.pc = "expire" => k.left \subseteq P!Current(k.read)
\* What it read of the rows it may write, and is not outdated, is what they are.
PFreshOn(k, s) == k.pc # "idle" /\ s \notin k.old /\ (k.pc = "expire" => s \in k.left)
PFresh(k) == \A s \in Suggestions : PFreshOn(k, s) => k.read[s] = p_row[s]
PIsActive(s) == p_row[s].status \in P!ActiveStatuses
PGenerating(k) == k.pc \in {"generate", "expire"}
\* A generation knows of every active suggestion, as there is no other that adds one.
PSingle ==
  ~p_crowded /\ p_stale = {} =>
    /\ \A s, t \in Suggestions : PIsActive(s) /\ PIsActive(t) => s = t
    /\ \A c, d \in Calls : PGenerating(p_call[c]) /\ PGenerating(p_call[d]) => c = d
    /\ \A c \in Calls, s \in Suggestions :
         p_call[c].pc = "generate" /\ PIsActive(s) => s \in P!Current(p_call[c].read)
PReadings == P!TypeOK /\ \A c \in Calls : PFits(p_call[c]) /\ PFresh(p_call[c])
PInv == PReadings /\ P!OrderedOnceUnlessRaced /\ PSingle

\* A request that begins, or reads again.
PReads(k) == k.read = p_row /\ k.old = {} /\ PFits(k) /\ k.pc # "expire"
\* A request that goes on with what it has.
PStays(k, l) ==
  /\ l.read = k.read /\ l.old = k.old /\ l.on = k.on /\ l.left = k.left
  /\ l.pc = k.pc \/ (k.pc = "number" /\ l.pc = "create")
\* No row is written.
PQuiet ==
  /\ UNCHANGED <<p_row, p_orders, p_stale>>
  /\ p_crowded => p_crowded'
  /\ \A d \in Calls : \/ PStays(p_call[d], p_call'[d]) \/ p_call'[d].pc = "idle"
                      \/ /\ PReads(p_call'[d]) /\ ~PGenerating(p_call'[d])
                      \/ /\ PReads(p_call'[d]) /\ p_call'[d].pc = "generate"
                         /\ \A e \in Calls \ {d} : p_call'[e] = p_call[e]
                         /\ (\E e \in Calls : PGenerating(p_call[e])) => p_crowded'

\* Row s is written by c.
PWrites(c, s) ==
  /\ \A t \in Suggestions \ {s} : p_row'[t] = p_row[t]
  /\ p_stale \subseteq p_stale' /\ (s \notin p_stale' => s \notin p_call[c].old)
  /\ p_call[c].pc # "idle" /\ p_crowded' = p_crowded
  /\ \/ p_call'[c].pc = "idle"
     \/ /\ p_call'[c].pc = "expire" /\ PGenerating(p_call[c])
        /\ p_call'[c].read = p_call[c].read /\ p_call'[c].old = p_call[c].old
        /\ p_call'[c].left \subseteq P!Current(p_call[c].read) \ {s}
        /\ p_call[c].pc = "expire" => p_call'[c].left \subseteq p_call[c].left
  /\ \A d \in Calls \ {c} :
       /\ p_call'[d].pc = p_call[d].pc /\ p_call'[d].on = p_call[d].on
       /\ p_call'[d].read = p_call[d].read /\ p_call'[d].left = p_call[d].left
       /\ p_call[d].old \subseteq p_call'[d].old
       /\ p_call[d].pc # "idle" /\ s \notin p_call'[d].old => p_row'[s] = p_row[s]
\* A row that c read as active, with a status it may have next, ...
PRestates(c, s) ==
  /\ PFreshOn(p_call[c], s) \/ s \in p_call[c].old
  /\ s \in P!Current(p_call[c].read) /\ p_orders' = p_orders /\ p_row'[s].status # "converted"
  /\ p_row'[s].status \in P!ActiveStatuses =>
       PGenerating(p_call[c]) \/ p_row'[s] = p_call[c].read[s]
\* ... a new row, ...
PCreates(c, s) ==
  /\ p_call[c].pc = "generate" /\ P!Current(p_call[c].read) = {} /\ p_call'[c].pc = "idle"
  /\ p_row[s].status = "absent" /\ p_orders' = p_orders /\ p_row'[s].status # "converted"
\* ... or a row and its order.
POrdersWith(c, s) ==
  /\ PFreshOn(p_call[c], s) \/ s \in p_call[c].old
  /\ s \in P!Current(p_call[c].read) /\ p_orders' = Append(p_orders, s)
  /\ p_row'[s] = P!Converted(p_call[c].read[s], Len(p_orders) + 1)
PRowWritten(c, s) == PWrites(c, s) /\ (PRestates(c, s) \/ PCreates(c, s) \/ POrdersWith(c, s))

\* An idle request has its types.
LEMMA PIdleType == P!Idle \in P!Call /\ P!Idle.pc = "idle" /\ PFits(P!Idle)
BY DEF P!Idle, P!Call, P!Row, P!NoRow, P!ActiveStatuses, P!Closed, PFits, POnRow

\* What the types say of one request and one row.
LEMMA PParts ==
  ASSUME PReadings, NEW c \in Calls, NEW s \in Suggestions
  PROVE  /\ p_call[c] \in P!Call /\ p_call[c].read \in [Suggestions -> P!Row]
         /\ p_call[c].read[s] \in P!Row /\ p_call[c].number \in Nat
         /\ p_call[c].left \subseteq Suggestions /\ p_call[c].old \subseteq Suggestions
         /\ p_call[c].on \in Suggestions \cup {None}
         /\ p_row[s] \in P!Row /\ PFits(p_call[c]) /\ PFresh(p_call[c])
<1>1. p_call[c] \in P!Call /\ p_row \in [Suggestions -> P!Row]  BY DEF PReadings, P!TypeOK
<1>2. p_call[c].read \in [Suggestions -> P!Row]  BY <1>1 DEF P!Call
<1>3. QED  BY <1>1, <1>2 DEF P!Call, PReadings

\* A write keeps the types, and outdates what the others have read of the row.
LEMMA PWriting ==
  ASSUME PReadings, NEW c \in Calls, NEW s \in Suggestions, NEW r \in P!Row, NEW k \in P!Call,
         P!Write(c, s, r, k), p_call[c].pc # "idle", p_crowded' = p_crowded,
         \/ k.pc = "idle"
         \/ /\ k.pc = "expire" /\ PGenerating(p_call[c])
            /\ k.read = p_call[c].read /\ k.old = p_call[c].old
            /\ k.left \subseteq P!Current(p_call[c].read) \ {s}
            /\ p_call[c].pc = "expire" => k.left \subseteq p_call[c].left
  PROVE  /\ p_row' \in [Suggestions -> P!Row] /\ p_call' \in [Calls -> P!Call]
         /\ p_stale' \subseteq Suggestions
         /\ PWrites(c, s) /\ p_row'[s] = r /\ p_call'[c] = k
<1>1. /\ p_row \in [Suggestions -> P!Row] /\ p_call \in [Calls -> P!Call]
      /\ p_stale \subseteq Suggestions
  BY DEF PReadings, P!TypeOK
<1>2. /\ p_row' \in [Suggestions -> P!Row] /\ p_row'[s] = r
      /\ \A t \in Suggestions \ {s} : p_row'[t] = p_row[t]
  BY <1>1 DEF P!Write
<1>3. p_stale' \subseteq Suggestions /\ p_stale \subseteq p_stale'
      /\ (s \notin p_stale' => s \notin p_call[c].old)
  BY <1>1 DEF P!Write
<1>4. p_call'[c] = k  BY DEF P!Write
<1>5. ASSUME NEW d \in Calls \ {c}
      PROVE  /\ p_call'[d] \in P!Call
             /\ p_call'[d].pc = p_call[d].pc /\ p_call'[d].on = p_call[d].on
             /\ p_call'[d].read = p_call[d].read /\ p_call'[d].left = p_call[d].left
             /\ p_call[d].old \subseteq p_call'[d].old
             /\ p_call[d].pc # "idle" /\ s \notin p_call'[d].old => p_row'[s] = p_row[s]
  <2>1. p_call[d] \in P!Call  BY <1>1
  <2>2. CASE p_call[d].pc = "idle" \/ r = p_row[s]
    <3>1. p_call'[d] = p_call[d]  BY <2>2 DEF P!Write
    <3>2. QED  BY <1>2, <2>1, <2>2, <3>1
  <2>3. CASE ~(p_call[d].pc = "idle" \/ r = p_row[s])
    <3>1. p_call'[d] = [p_call[d] EXCEPT !.old = @ \cup {s}]  BY <2>3 DEF P!Write
    <3>2. QED  BY <2>1, <3>1 DEF P!Call
  <2>4. QED  BY <2>2, <2>3
<1>6. p_call' \in [Calls -> P!Call]
  <2>1. \A d \in Calls : p_call'[d] \in P!Call  BY <1>4, <1>5
  <2>2. p_call' = [d \in Calls |-> p_call'[d]]  BY DEF P!Write
  <2>3. QED  BY <2>1, <2>2
<1>7. PWrites(c, s)  BY <1>2, <1>3, <1>4, <1>5 DEF PWrites
<1>8. QED  BY <1>2, <1>3, <1>4, <1>6, <1>7

\* A request that begins has read every row.
LEMMA PBeginning ==
  ASSUME PReadings, NEW c \in Calls, NEW s \in Suggestions \cup {None},
         NEW pc \in {"generate", "update", "reject", "approve", "number"},
         P!Begin(c, pc, s), pc # "generate" => s \in Suggestions /\ p_row[s].status = "pending"
  PROVE  /\ p_call' \in [Calls -> P!Call] /\ p_count' \in Nat
         /\ UNCHANGED <<p_row, p_orders, p_stale, p_fails>>
         /\ PReads(p_call'[c]) /\ p_call'[c].pc = pc /\ p_call[c].pc = "idle"
         /\ \A d \in Calls \ {c} : p_call'[d] = p_call[d]
<1> DEFINE k == [P!Idle EXCEPT !.pc = pc, !.on = s, !.read = p_row]
<1>1. p_row \in [Suggestions -> P!Row] /\ p_call \in [Calls -> P!Call] /\ p_count \in Nat
  BY DEF PReadings, P!TypeOK
<1>2. /\ k \in P!Call /\ k.pc = pc /\ k.on = s /\ k.read = p_row /\ k.old = {}
  BY <1>1 DEF P!Idle, P!Call
<1>3. p_call' = [p_call EXCEPT ![c] = k] /\ p_call[c].pc = "idle" /\ p_count' = p_count + 1
      /\ UNCHANGED <<p_row, p_orders, p_stale, p_fails>>
  BY DEF P!Begin
<1> HIDE DEF k
<1>4. PReads(k)  BY <1>2 DEF PReads, PFits, POnRow
<1>5. QED  BY <1>1, <1>2, <1>3, <1>4

\* Every step keeps the types, and is quiet or writes one row.
LEMMA PEffects ==
  ASSUME PReadings, [P!Next]_(P!vars)
  PROVE  P!TypeOK' /\ (PQuiet \/ \E c \in Calls, s \in Suggestions : PRowWritten(c, s))
<1>0. /\ p_row \in [Suggestions -> P!Row] /\ p_orders \in Seq(Suggestions)
      /\ p_call \in [Calls -> P!Call] /\ p_count \in Nat /\ p_fails \in Nat
      /\ p_stale \subseteq Suggestions /\ p_crowded \in BOOLEAN
  BY DEF PReadings, P!TypeOK
<1>i. P!Idle \in P!Call /\ P!Idle.pc = "idle"  BY PIdleType
\* A request that decides on one suggestion.
<1>a. ASSUME NEW c \in Calls, NEW s \in Suggestions,
             NEW pc \in {"update", "reject", "approve", "number"},
             P!MayDecide(s), P!Begin(c, pc, s), UNCHANGED p_crowded
      PROVE  P!TypeOK' /\ PQuiet
  <2>1. /\ p_call' \in [Calls -> P!Call] /\ p_count' \in Nat
        /\ UNCHANGED <<p_row, p_orders, p_stale, p_fails>>
        /\ PReads(p_call'[c]) /\ p_call'[c].pc = pc
        /\ \A d \in Calls \ {c} : p_call'[d] = p_call[d]
    BY <1>a, PBeginning DEF P!MayDecide
  <2>2. P!TypeOK'  BY <1>0, <1>a, <2>1 DEF P!TypeOK
  <2>3. PQuiet  BY <1>a, <2>1 DEF PQuiet, PStays, PGenerating
  <2>4. QED  BY <2>2, <2>3
\* A request that ends, without a write.
<1>e. ASSUME NEW c \in Calls, p_call' = [p_call EXCEPT ![c] = P!Idle],
             UNCHANGED <<p_row, p_orders, p_count, p_stale, p_crowded>>, p_fails' \in Nat
      PROVE  P!TypeOK' /\ PQuiet
  <2>1. P!TypeOK'  BY <1>0, <1>e, <1>i DEF P!TypeOK
  <2>2. PQuiet  BY <1>0, <1>e, <1>i DEF PQuiet, PStays
  <2>3. QED  BY <2>1, <2>2
\* A request that writes a row without an order.
<1>w. ASSUME NEW c \in Calls, NEW s \in Suggestions, NEW r \in P!Row, NEW k \in P!Call,
             P!Write(c, s, r, k), p_call[c].pc # "idle",
             UNCHANGED <<p_orders, p_count, p_fails, p_crowded>>,
             \/ k.pc = "idle"
             \/ /\ k.pc = "expire" /\ PGenerating(p_call[c])
                /\ k.read = p_call[c].read /\ k.old = p_call[c].old
                /\ k.left \subseteq P!Current(p_call[c].read) \ {s}
                /\ p_call[c].pc = "expire" => k.left \subseteq p_call[c].left
      PROVE  P!TypeOK' /\ PWrites(c, s) /\ p_row'[s] = r /\ p_call'[c] = k
  <2>1. /\ p_row' \in [Suggestions -> P!Row] /\ p_call' \in [Calls -> P!Call]
        /\ p_stale' \subseteq Suggestions
        /\ PWrites(c, s) /\ p_row'[s] = r /\ p_call'[c] = k
    BY <1>w, PWriting
  <2>2. P!TypeOK'  BY <1>0, <1>w, <2>1 DEF P!TypeOK
  <2>3. QED  BY <2>1, <2>2
<1>1. ASSUME NEW c \in Calls, P!Generate(c) PROVE P!TypeOK' /\ PQuiet
  <2>1. P!Begin(c, "generate", None)  BY <1>1 DEF P!Generate
  <2>2. /\ p_call' \in [Calls -> P!Call] /\ p_count' \in Nat
        /\ UNCHANGED <<p_row, p_orders, p_stale, p_fails>>
        /\ PReads(p_call'[c]) /\ p_call'[c].pc = "generate" /\ p_call[c].pc = "idle"
        /\ \A d \in Calls \ {c} : p_call'[d] = p_call[d]
    BY <2>1, PBeginning
  <2>3. /\ p_crowded => p_crowded'
        /\ (\E d \in Calls : PGenerating(p_call[d])) => p_crowded'
        /\ p_crowded' \in BOOLEAN
    BY <1>1, Zenon DEF P!Generate, PGenerating
  <2>4. P!TypeOK'  BY <1>0, <2>2, <2>3 DEF P!TypeOK
  <2>5. \A d \in Calls \ {c} : PStays(p_call[d], p_call'[d])  BY <2>2 DEF PStays
  <2>6. PQuiet  BY <2>2, <2>3, <2>5, SMTT(30) DEF PQuiet
  <2>7. QED  BY <2>4, <2>6
<1>2. ASSUME NEW c \in Calls, P!Persist(c)
      PROVE  P!TypeOK' /\ \E s \in Suggestions : PRowWritten(c, s)
  <2> DEFINE rows == P!Current(p_call[c].read)
             n(s) == IF rows \ {s} = {} THEN P!Idle
                     ELSE [p_call[c] EXCEPT !.pc = "expire", !.left = rows \ {s}]
  <2>1. /\ p_call[c].pc = "generate" /\ UNCHANGED <<p_orders, p_count, p_fails, p_crowded>>
        /\ \E status \in P!Decisions :
             \/ \E s \in rows : P!Write(c, s, [p_call[c].read[s] EXCEPT !.status = status], n(s))
             \/ /\ rows = {}
                /\ \E s \in Suggestions :
                     /\ p_row[s].status = "absent"
                     /\ P!Write(c, s, [status |-> status, order |-> 0], P!Idle)
    BY <1>2, ZenonT(30) DEF P!Persist
  <2>2. PICK status \in P!Decisions :
             \/ \E s \in rows : P!Write(c, s, [p_call[c].read[s] EXCEPT !.status = status], n(s))
             \/ /\ rows = {}
                /\ \E s \in Suggestions :
                     /\ p_row[s].status = "absent"
                     /\ P!Write(c, s, [status |-> status, order |-> 0], P!Idle)
    BY <2>1
  <2>3. status \in P!ActiveStatuses /\ status # "converted"  BY DEF P!Decisions, P!ActiveStatuses
  <2>4. ASSUME NEW s \in rows, P!Write(c, s, [p_call[c].read[s] EXCEPT !.status = status], n(s))
        PROVE  P!TypeOK' /\ PRowWritten(c, s)
    <3> DEFINE r == [p_call[c].read[s] EXCEPT !.status = status]
               k == n(s)
    <3>1. s \in Suggestions  BY DEF P!Current
    <3>2. p_call[c] \in P!Call /\ p_call[c].read[s] \in P!Row /\ rows \subseteq Suggestions
      BY <3>1, PParts DEF P!Current
    <3>3. r \in P!Row /\ r.status = status  BY <2>3, <3>2 DEF P!Row
    <3>4. /\ k \in P!Call
          /\ \/ k.pc = "idle"
             \/ /\ k.pc = "expire" /\ k.read = p_call[c].read /\ k.old = p_call[c].old
                /\ k.left \subseteq rows \ {s}
      <4>1. CASE rows \ {s} = {}  BY <1>i, <4>1
      <4>2. CASE rows \ {s} # {}  BY <3>2, <4>2 DEF P!Call
      <4>3. QED  BY <4>1, <4>2
    <3>5. PGenerating(p_call[c]) /\ p_call[c].pc # "expire" /\ p_call[c].pc # "idle"
      BY <2>1 DEF PGenerating
    <3>6. P!Write(c, s, r, k)  BY <2>4
    <3> HIDE DEF r, n
    <3>7. P!TypeOK' /\ PWrites(c, s) /\ p_row'[s] = r
      BY <1>w, <2>1, <3>1, <3>3, <3>4, <3>5, <3>6
    <3>8. PRestates(c, s)
      BY <2>1, <2>3, <3>3, <3>5, <3>7 DEF PRestates, PFreshOn
    <3>9. QED  BY <3>7, <3>8 DEF PRowWritten
  <2>5. ASSUME rows = {}, NEW s \in Suggestions, p_row[s].status = "absent",
               P!Write(c, s, [status |-> status, order |-> 0], P!Idle)
        PROVE  P!TypeOK' /\ PRowWritten(c, s)
    <3>1. [status |-> status, order |-> 0] \in P!Row  BY <2>3 DEF P!Row
    <3>2. /\ P!TypeOK' /\ PWrites(c, s) /\ p_row'[s] = [status |-> status, order |-> 0]
          /\ p_call'[c] = P!Idle
      BY <1>i, <1>w, <2>1, <2>5, <3>1
    <3>3. p_row'[s].status # "converted"  BY <2>3, <3>2
    <3>4. PCreates(c, s)  BY <1>i, <2>1, <2>5, <3>2, <3>3 DEF PCreates
    <3>5. QED  BY <3>2, <3>4 DEF PRowWritten
  <2>6. QED
    <3>1. CASE \E s \in rows : P!Write(c, s, [p_call[c].read[s] EXCEPT !.status = status], n(s))
      <4>1. PICK s \in rows : P!Write(c, s, [p_call[c].read[s] EXCEPT !.status = status], n(s))
        BY <3>1
      <4>2. s \in Suggestions  BY DEF P!Current
      <4>3. QED  BY <2>4, <4>1, <4>2
    <3>2. CASE rows = {} /\ \E s \in Suggestions :
                 /\ p_row[s].status = "absent"
                 /\ P!Write(c, s, [status |-> status, order |-> 0], P!Idle)
      BY <2>5, <3>2, SMTT(30)
    <3>3. QED  BY <2>2, <3>1, <3>2
<1>3. ASSUME NEW c \in Calls, P!ExpireDuplicate(c)
      PROVE  P!TypeOK' /\ \E s \in Suggestions : PRowWritten(c, s)
  <2> DEFINE k(s) == IF p_call[c].left = {s} THEN P!Idle ELSE [p_call[c] EXCEPT !.left = @ \ {s}]
  <2>1. /\ p_call[c].pc = "expire" /\ UNCHANGED <<p_orders, p_count, p_fails, p_crowded>>
        /\ \E s \in p_call[c].left : P!Write(c, s, P!AsExpired(p_call[c].read[s]), k(s))
    BY <1>3 DEF P!ExpireDuplicate
  <2>2. PICK s \in p_call[c].left : P!Write(c, s, P!AsExpired(p_call[c].read[s]), k(s))
    BY <2>1
  <2>3. s \in Suggestions /\ p_call[c] \in P!Call
    <3>1. p_call[c] \in P!Call  BY <1>0
    <3>2. QED  BY <2>2, <3>1 DEF P!Call
  <2>4. s \in P!Current(p_call[c].read) /\ p_call[c].read[s] \in P!Row
        /\ p_call[c].left \subseteq P!Current(p_call[c].read)
    BY <2>1, <2>2, <2>3, PParts DEF PFits
  <2> DEFINE r == P!AsExpired(p_call[c].read[s])
             l == k(s)
  <2>5. r \in P!Row /\ r.status = "expired"  BY <2>4 DEF P!AsExpired, P!Row, P!Closed
  <2>6. /\ l \in P!Call
        /\ \/ l.pc = "idle"
           \/ /\ l.pc = "expire" /\ l.read = p_call[c].read /\ l.old = p_call[c].old
              /\ l.left = p_call[c].left \ {s}
    <3>1. CASE p_call[c].left = {s}  BY <1>i, <3>1
    <3>2. CASE p_call[c].left # {s}  BY <2>1, <2>3, <3>2 DEF P!Call
    <3>3. QED  BY <3>1, <3>2
  <2>7. P!Write(c, s, r, l)  BY <2>2
  <2> HIDE DEF r, k
  <2>8. P!TypeOK' /\ PWrites(c, s) /\ p_row'[s] = r
    BY <1>w, <2>1, <2>3, <2>4, <2>5, <2>6, <2>7 DEF PGenerating
  <2>9. PRestates(c, s)
    BY <2>1, <2>2, <2>4, <2>5, <2>8 DEF PRestates, PFreshOn, P!ActiveStatuses
  <2>10. QED  BY <2>3, <2>8, <2>9 DEF PRowWritten
<1>4. ASSUME NEW c \in Calls, NEW s \in Suggestions,
             P!Update(c, s) \/ P!Reject(c, s) \/ P!Approve(c, s) \/ P!Compose(c, s)
      PROVE  P!TypeOK' /\ PQuiet
  BY <1>4, <1>a DEF P!Update, P!Reject, P!Approve, P!Compose
\* The row that an update, a rejection or an order is about.
<1>o. ASSUME NEW c \in Calls, p_call[c].pc \in POnRow
      PROVE  /\ p_call[c].on \in Suggestions /\ p_call[c].read[p_call[c].on] \in P!Row
             /\ p_call[c].read[p_call[c].on].status = "pending"
             /\ p_call[c].on \in P!Current(p_call[c].read)
             /\ PFreshOn(p_call[c], p_call[c].on) \/ p_call[c].on \in p_call[c].old
  <2>1. /\ p_call[c].on \in Suggestions /\ p_call[c].read[p_call[c].on].status = "pending"
    BY <1>o DEF PReadings, PFits
  <2>2. p_call[c].read[p_call[c].on] \in P!Row  BY <2>1, PParts
  <2>3. p_call[c].on \in P!Current(p_call[c].read)  BY <2>1 DEF P!Current, P!ActiveStatuses
  <2>4. PFreshOn(p_call[c], p_call[c].on) \/ p_call[c].on \in p_call[c].old
    BY <1>o DEF PFreshOn, POnRow
  <2>5. QED  BY <2>1, <2>2, <2>3, <2>4
<1>5. ASSUME NEW c \in Calls, P!WriteUpdate(c)
      PROVE  P!TypeOK' /\ \E s \in Suggestions : PRowWritten(c, s)
  <2> DEFINE s == p_call[c].on
             r == p_call[c].read[s]
  <2>1. /\ p_call[c].pc = "update" /\ P!Write(c, s, r, P!Idle)
        /\ UNCHANGED <<p_orders, p_count, p_fails, p_crowded>>
    BY <1>5 DEF P!WriteUpdate
  <2>2. /\ s \in Suggestions /\ r \in P!Row /\ r.status = "pending"
        /\ s \in P!Current(p_call[c].read) /\ (PFreshOn(p_call[c], s) \/ s \in p_call[c].old)
    BY <1>o, <2>1 DEF POnRow
  <2> HIDE DEF s
  <2>3. P!TypeOK' /\ PWrites(c, s) /\ p_row'[s] = r  BY <1>i, <1>w, <2>1, <2>2
  <2>4. PRestates(c, s)  BY <2>1, <2>2, <2>3 DEF PRestates
  <2>5. QED  BY <2>2, <2>3, <2>4 DEF PRowWritten
<1>6. ASSUME NEW c \in Calls, P!WriteReject(c)
      PROVE  P!TypeOK' /\ \E s \in Suggestions : PRowWritten(c, s)
  <2> DEFINE s == p_call[c].on
             r == [p_call[c].read[s] EXCEPT !.status = "rejected"]
  <2>1. /\ p_call[c].pc = "reject" /\ P!Write(c, s, r, P!Idle)
        /\ UNCHANGED <<p_orders, p_count, p_fails, p_crowded>>
    BY <1>6 DEF P!WriteReject
  <2>2. /\ s \in Suggestions /\ p_call[c].read[s] \in P!Row
        /\ s \in P!Current(p_call[c].read) /\ (PFreshOn(p_call[c], s) \/ s \in p_call[c].old)
    BY <1>o, <2>1 DEF POnRow
  <2>3. r \in P!Row /\ r.status = "rejected"  BY <2>2 DEF P!Row, P!Closed
  <2> HIDE DEF s, r
  <2>4. P!TypeOK' /\ PWrites(c, s) /\ p_row'[s] = r  BY <1>i, <1>w, <2>1, <2>2, <2>3
  <2>5. PRestates(c, s)  BY <2>1, <2>2, <2>3, <2>4 DEF PRestates, P!ActiveStatuses
  <2>6. QED  BY <2>2, <2>4, <2>5 DEF PRowWritten
<1>7. ASSUME NEW c \in Calls, P!Recheck(c) PROVE P!TypeOK' /\ PQuiet
  <2> DEFINE k == [p_call[c] EXCEPT !.pc = "number", !.read = p_row, !.old = {}]
  <2>1. /\ p_call[c].pc = "approve"
        /\ UNCHANGED <<p_row, p_orders, p_count, p_fails, p_stale, p_crowded>>
        /\ p_call' = [p_call EXCEPT ![c] = IF P!MayDecide(p_call[c].on) THEN k ELSE P!Idle]
    BY <1>7 DEF P!Recheck
  <2>2. CASE ~P!MayDecide(p_call[c].on)
    BY <1>0, <1>e, <2>1, <2>2
  <2>3. CASE P!MayDecide(p_call[c].on)
    <3>1. p_call[c] \in P!Call /\ p_call[c].on \in Suggestions  BY <1>0, <1>o, <2>1 DEF POnRow
    <3>2. k \in P!Call /\ k.pc = "number" /\ k.read = p_row /\ k.old = {} /\ k.on = p_call[c].on
      BY <1>0, <3>1 DEF P!Call
    <3>3. p_call' = [p_call EXCEPT ![c] = k]  BY <2>1, <2>3
    <3> HIDE DEF k
    <3>4. PReads(k)  BY <2>3, <3>1, <3>2 DEF PReads, PFits, P!MayDecide
    <3>5. P!TypeOK'  BY <1>0, <2>1, <3>2, <3>3 DEF P!TypeOK
    <3>6. p_call'[c] = k /\ \A d \in Calls \ {c} : p_call'[d] = p_call[d]  BY <1>0, <3>3
    <3>7. PQuiet  BY <2>1, <3>2, <3>4, <3>6 DEF PQuiet, PStays, PGenerating
    <3>8. QED  BY <3>5, <3>7
  <2>4. QED  BY <2>2, <2>3
<1>8. ASSUME NEW c \in Calls, P!DrawNumber(c) PROVE P!TypeOK' /\ PQuiet
  <2> DEFINE k == [p_call[c] EXCEPT !.pc = "create", !.number = Len(p_orders) + 1]
  <2>1. p_call[c] \in P!Call /\ Len(p_orders) + 1 \in Nat  BY <1>0
  <2>2. k \in P!Call /\ k.pc = "create" /\ k.read = p_call[c].read /\ k.old = p_call[c].old
        /\ k.on = p_call[c].on /\ k.left = p_call[c].left
    BY <2>1 DEF P!Call
  <2>3. /\ p_call[c].pc = "number"
        /\ UNCHANGED <<p_row, p_orders, p_count, p_fails, p_stale, p_crowded>>
        /\ p_call' = [p_call EXCEPT ![c].pc = "create", ![c].number = Len(p_orders) + 1]
    BY <1>8 DEF P!DrawNumber
  <2>4. p_call' = [p_call EXCEPT ![c] = k]  BY <1>0, <2>1, <2>3 DEF P!Call
  <2> HIDE DEF k
  <2>5. P!TypeOK'  BY <1>0, <2>2, <2>3, <2>4 DEF P!TypeOK
  <2>6. p_call'[c] = k /\ \A d \in Calls \ {c} : p_call'[d] = p_call[d]  BY <1>0, <2>4
  <2>7. PQuiet  BY <2>2, <2>3, <2>6 DEF PQuiet, PStays
  <2>8. QED  BY <2>5, <2>7
<1>9. ASSUME NEW c \in Calls, P!CreateOrder(c)
      PROVE  P!TypeOK' /\ (PQuiet \/ \E s \in Suggestions : PRowWritten(c, s))
  <2> DEFINE s == p_call[c].on
             n == Len(p_orders) + 1
             r == P!Converted(p_call[c].read[s], n)
  <2>1. p_call[c].pc = "create" /\ UNCHANGED <<p_count, p_fails, p_crowded>>
    BY <1>9 DEF P!CreateOrder
  <2>2. CASE p_call' = [p_call EXCEPT ![c] = P!Idle] /\ UNCHANGED <<p_row, p_orders, p_stale>>
    BY <1>0, <1>e, <2>1, <2>2
  <2>3. CASE p_orders' = Append(p_orders, s) /\ P!Write(c, s, r, P!Idle)
    <3>1. /\ s \in Suggestions /\ s \in P!Current(p_call[c].read)
          /\ (PFreshOn(p_call[c], s) \/ s \in p_call[c].old)
      BY <1>o, <2>1 DEF POnRow
    <3>2. r \in P!Row  BY <1>0 DEF P!Converted, P!Row, P!Closed
    <3> HIDE DEF s, r
    <3>3. /\ p_row' \in [Suggestions -> P!Row] /\ p_call' \in [Calls -> P!Call]
          /\ p_stale' \subseteq Suggestions /\ PWrites(c, s) /\ p_row'[s] = r
      BY <1>i, <2>1, <2>3, <3>1, <3>2, PWriting
    <3>4. p_orders' \in Seq(Suggestions)  BY <1>0, <2>3, <3>1
    <3>5. P!TypeOK'  BY <1>0, <2>1, <3>3, <3>4 DEF P!TypeOK
    <3>6. POrdersWith(c, s)  BY <2>3, <3>1, <3>3 DEF POrdersWith, r
    <3>7. QED  BY <3>1, <3>3, <3>5, <3>6 DEF PRowWritten
  <2>4. QED  BY <1>9, <2>2, <2>3 DEF P!CreateOrder
<1>10. ASSUME NEW c \in Calls, P!Fail(c) PROVE P!TypeOK' /\ PQuiet
  <2>1. p_fails' \in Nat  BY <1>0, <1>10 DEF P!Fail
  <2>2. QED  BY <1>10, <1>e, <2>1 DEF P!Fail
<1>11. CASE UNCHANGED P!vars
  <2>1. P!TypeOK'  BY <1>0, <1>11 DEF P!vars, P!TypeOK
  <2>2. PQuiet  BY <1>11 DEF P!vars, PQuiet, PStays
  <2>3. QED  BY <2>1, <2>2
<1>12. QED
  BY <1>1, <1>2, <1>3, <1>4, <1>5, <1>6, <1>7, <1>8, <1>9, <1>10, <1>11 DEF P!Next

(* The invariant is inductive.                                             *)

\* Every step keeps readings that are not outdated true.
LEMMA PReadingsStep ==
  ASSUME PReadings, P!TypeOK', PQuiet \/ \E c \in Calls, s \in Suggestions : PRowWritten(c, s)
  PROVE  PReadings'
<1>1. CASE PQuiet
  <2> SUFFICES ASSUME NEW d \in Calls PROVE PFits(p_call'[d]) /\ PFresh(p_call[d])'
    BY DEF PReadings, PFits, P!Current
  <2>1. p_row' = p_row  BY <1>1 DEF PQuiet
  <2>2. PFits(p_call[d]) /\ PFresh(p_call[d])  BY DEF PReadings
  <2>3. CASE PStays(p_call[d], p_call'[d])
    BY <2>1, <2>2, <2>3 DEF PStays, PFits, PFresh, PFreshOn, POnRow
  <2>4. CASE p_call'[d].pc = "idle"
    BY <2>4 DEF PFits, PFresh, PFreshOn, POnRow
  <2>5. CASE PReads(p_call'[d])
    BY <2>1, <2>5 DEF PReads, PFresh
  <2>6. QED  BY <1>1, <2>3, <2>4, <2>5 DEF PQuiet
<1>2. ASSUME NEW c \in Calls, NEW s \in Suggestions, PRowWritten(c, s) PROVE PReadings'
  <2> SUFFICES ASSUME NEW d \in Calls PROVE PFits(p_call'[d]) /\ PFresh(p_call[d])'
    BY DEF PReadings, PFits, P!Current
  <2>1. PWrites(c, s) /\ \A t \in Suggestions \ {s} : p_row'[t] = p_row[t]
    BY <1>2 DEF PRowWritten, PWrites
  <2>2. PFits(p_call[d]) /\ PFresh(p_call[d])  BY DEF PReadings
  <2>3. CASE d = c /\ p_call'[c].pc = "idle"
    BY <2>3 DEF PFits, PFresh, PFreshOn, POnRow
  <2>4. CASE /\ d = c /\ p_call'[c].pc = "expire" /\ PGenerating(p_call[c])
             /\ p_call'[c].read = p_call[c].read /\ p_call'[c].old = p_call[c].old
             /\ p_call'[c].left \subseteq P!Current(p_call[c].read) \ {s}
             /\ p_call[c].pc = "expire" => p_call'[c].left \subseteq p_call[c].left
    <3>1. PFits(p_call'[d])  BY <2>4 DEF PFits, POnRow
    <3>2. ASSUME NEW t \in Suggestions, PFreshOn(p_call'[d], t)
          PROVE  p_call'[d].read[t] = p_row'[t]
      <4>1. t # s /\ PFreshOn(p_call[d], t)
        BY <2>4, <3>2 DEF PFreshOn, PGenerating
      <4>2. QED  BY <2>1, <2>2, <2>4, <4>1 DEF PFresh
    <3>3. QED  BY <3>1, <3>2 DEF PFresh, PFreshOn
  <2>5. CASE d # c
    <3>1. /\ p_call'[d].pc = p_call[d].pc /\ p_call'[d].on = p_call[d].on
          /\ p_call'[d].read = p_call[d].read /\ p_call'[d].left = p_call[d].left
          /\ p_call[d].old \subseteq p_call'[d].old
          /\ p_call[d].pc # "idle" /\ s \notin p_call'[d].old => p_row'[s] = p_row[s]
      BY <2>1, <2>5 DEF PWrites
    <3>2. PFits(p_call'[d])  BY <2>2, <3>1 DEF PFits
    <3>3. ASSUME NEW t \in Suggestions, PFreshOn(p_call'[d], t)
          PROVE  p_call'[d].read[t] = p_row'[t]
      <4>1. PFreshOn(p_call[d], t)  BY <3>1, <3>3 DEF PFreshOn
      <4>2. p_row'[t] = p_row[t]  BY <2>1, <3>1, <3>3 DEF PFreshOn
      <4>3. QED  BY <2>2, <3>1, <4>1, <4>2 DEF PFresh
    <3>4. QED  BY <3>2, <3>3 DEF PFresh, PFreshOn
  <2>6. QED  BY <2>1, <2>3, <2>4, <2>5 DEF PWrites
<1>3. QED  BY <1>1, <1>2

\* The row that is written, unless from an outdated reading, was open and is as it was read.
LEMMA PWrittenWasOpen ==
  ASSUME PReadings, NEW c \in Calls, NEW s \in Suggestions, PRowWritten(c, s), s \notin p_stale'
  PROVE  /\ p_row[s].status \notin P!Closed
         /\ PCreates(c, s) \/ (s \in P!Current(p_call[c].read) /\ p_call[c].read[s] = p_row[s])
<1>1. s \notin p_call[c].old  BY DEF PRowWritten, PWrites
<1>2. PFresh(p_call[c])  BY DEF PReadings
<1>3. CASE PCreates(c, s)  BY <1>3 DEF PCreates, P!Closed
<1>4. CASE PRestates(c, s) \/ POrdersWith(c, s)
  <2>1. PFreshOn(p_call[c], s) /\ s \in P!Current(p_call[c].read)
    BY <1>1, <1>4 DEF PRestates, POrdersWith
  <2>2. p_call[c].read[s] = p_row[s]  BY <1>2, <2>1 DEF PFresh
  <2>3. p_row[s].status \in P!ActiveStatuses  BY <2>1, <2>2 DEF P!Current
  <2>4. QED  BY <2>1, <2>2, <2>3 DEF P!ActiveStatuses, P!Closed
<1>5. QED  BY <1>3, <1>4 DEF PRowWritten

\* Every step keeps suggestions and orders in agreement.
LEMMA POrderedStep ==
  ASSUME PReadings, PReadings', P!OrderedOnceUnlessRaced,
         PQuiet \/ \E c \in Calls, s \in Suggestions : PRowWritten(c, s)
  PROVE  P!OrderedOnceUnlessRaced'
<1>0. p_orders \in Seq(Suggestions) /\ DOMAIN p_orders = 1..Len(p_orders) /\ Len(p_orders) \in Nat
  BY DEF PReadings, P!TypeOK
<1>1. CASE PQuiet  BY <1>1 DEF PQuiet, P!OrderedOnceUnlessRaced, P!OrdersOf
<1>2. ASSUME NEW c \in Calls, NEW s \in Suggestions, PRowWritten(c, s)
      PROVE  P!OrderedOnceUnlessRaced'
  <2> SUFFICES ASSUME NEW t \in Suggestions \ p_stale'
               PROVE  P!OrdersOf(t)' =
                        IF p_row'[t].status = "converted" THEN {p_row'[t].order} ELSE {}
    BY DEF P!OrderedOnceUnlessRaced
  <2>1. t \notin p_stale /\ (t # s => p_row'[t] = p_row[t])  BY <1>2 DEF PRowWritten, PWrites
  <2>2. P!OrdersOf(t) = IF p_row[t].status = "converted" THEN {p_row[t].order} ELSE {}
    BY <2>1 DEF P!OrderedOnceUnlessRaced
  <2>3. CASE p_orders' = p_orders
    <3>1. P!OrdersOf(t)' = P!OrdersOf(t)  BY <2>3 DEF P!OrdersOf
    <3>2. CASE t # s  BY <2>1, <2>2, <3>1, <3>2
    <3>3. CASE t = s
      <4>1. P!OrdersOf(t) = {}
        BY <1>2, <2>2, <3>3, PWrittenWasOpen DEF P!Closed
      <4>2. p_row'[s].status # "converted"
        <5>1. Len(Append(p_orders, s)) = Len(p_orders) + 1 /\ Len(p_orders) \in Nat  BY <1>0
        <5>2. \A n \in Nat : n # n + 1  OBVIOUS
        <5>3. p_orders # Append(p_orders, s)  BY <5>1, <5>2
        <5>4. QED  BY <1>2, <2>3, <5>3 DEF PRowWritten, PRestates, PCreates, POrdersWith
      <4>3. QED  BY <3>1, <3>3, <4>1, <4>2
    <3>4. QED  BY <3>2, <3>3
  <2>4. CASE POrdersWith(c, s)
    <3>1. p_orders' = Append(p_orders, s) /\ p_row'[s].status = "converted"
          /\ p_row'[s].order = Len(p_orders) + 1
      BY <2>4 DEF POrdersWith, P!Converted
    <3>2. /\ DOMAIN p_orders' = 1..Len(p_orders) + 1 /\ p_orders'[Len(p_orders) + 1] = s
          /\ \A j \in 1..Len(p_orders) : p_orders'[j] = p_orders[j]
      BY <1>0, <3>1
    <3>3. CASE t # s
      <4>1. P!OrdersOf(t)' = P!OrdersOf(t)  BY <1>0, <3>2, <3>3 DEF P!OrdersOf
      <4>2. QED  BY <2>1, <2>2, <3>3, <4>1
    <3>4. CASE t = s
      <4>1. P!OrdersOf(s) = {}  BY <1>2, <2>2, <3>4, PWrittenWasOpen DEF P!Closed
      <4>2. P!OrdersOf(s)' = {Len(p_orders) + 1}  BY <1>0, <3>2, <4>1 DEF P!OrdersOf
      <4>3. QED  BY <3>1, <3>4, <4>2
    <3>5. QED  BY <3>3, <3>4
  <2>5. QED  BY <1>2, <2>3, <2>4 DEF PRowWritten, PRestates, PCreates
<1>3. QED  BY <1>1, <1>2

\* Every step leaves one suggestion active at most, known to a generation.
LEMMA PSingleStep ==
  ASSUME PReadings, PReadings', PSingle,
         PQuiet \/ \E c \in Calls, s \in Suggestions : PRowWritten(c, s)
  PROVE  PSingle'
<1> SUFFICES ASSUME ~p_crowded', p_stale' = {}
             PROVE  /\ \A s, t \in Suggestions : PIsActive(s)' /\ PIsActive(t)' => s = t
                    /\ \A c, d \in Calls :
                         PGenerating(p_call'[c]) /\ PGenerating(p_call'[d]) => c = d
                    /\ \A c \in Calls, s \in Suggestions :
                         p_call'[c].pc = "generate" /\ PIsActive(s)'
                           => s \in P!Current(p_call'[c].read)
  BY DEF PSingle, PGenerating, P!Current, P!ActiveStatuses
<1>1. CASE PQuiet
  <2>1. ~p_crowded /\ p_stale = {} /\ p_row' = p_row  BY <1>1 DEF PQuiet
  <2>2. \A s, t \in Suggestions : PIsActive(s)' /\ PIsActive(t)' => s = t
    BY <2>1 DEF PSingle, PIsActive
  <2>3. ASSUME NEW d \in Calls, PGenerating(p_call'[d])
        PROVE  \/ PGenerating(p_call[d]) /\ PStays(p_call[d], p_call'[d])
               \/ /\ p_call'[d].read = p_row
                  /\ \A e \in Calls \ {d} : p_call'[e] = p_call[e] /\ ~PGenerating(p_call[e])
    BY <1>1, <2>3 DEF PQuiet, PStays, PReads, PGenerating
  <2>4. ASSUME NEW c \in Calls, NEW d \in Calls, PGenerating(p_call'[c]), PGenerating(p_call'[d])
        PROVE  c = d
    <3>1. PGenerating(p_call[c]) /\ PGenerating(p_call[d]) => c = d  BY <2>1 DEF PSingle
    <3>2. QED  BY <2>3, <2>4, <3>1
  <2>5. ASSUME NEW c \in Calls, NEW s \in Suggestions, p_call'[c].pc = "generate", PIsActive(s)'
        PROVE  s \in P!Current(p_call'[c].read)
    <3>1. PIsActive(s)  BY <2>1, <2>5 DEF PIsActive
    <3>2. CASE p_call'[c].read = p_row  BY <3>1, <3>2 DEF P!Current, PIsActive
    <3>3. CASE PStays(p_call[c], p_call'[c])
      BY <2>1, <2>5, <3>1, <3>3 DEF PStays, PSingle
    <3>4. QED  BY <2>3, <2>5, <3>2, <3>3 DEF PGenerating
  <2>6. QED  BY <2>2, <2>4, <2>5
<1>2. ASSUME NEW c \in Calls, NEW s \in Suggestions, PRowWritten(c, s)
      PROVE  /\ \A u, t \in Suggestions : PIsActive(u)' /\ PIsActive(t)' => u = t
             /\ \A e, d \in Calls : PGenerating(p_call'[e]) /\ PGenerating(p_call'[d]) => e = d
             /\ \A d \in Calls, t \in Suggestions :
                  p_call'[d].pc = "generate" /\ PIsActive(t)' => t \in P!Current(p_call'[d].read)
  <2>1. /\ ~p_crowded /\ p_stale = {} /\ s \notin p_stale'
        /\ \A t \in Suggestions \ {s} : p_row'[t] = p_row[t]
    BY <1>2 DEF PRowWritten, PWrites
  <2>2. /\ \A u, t \in Suggestions : PIsActive(u) /\ PIsActive(t) => u = t
        /\ \A e, d \in Calls : PGenerating(p_call[e]) /\ PGenerating(p_call[d]) => e = d
        /\ \A d \in Calls, t \in Suggestions :
             p_call[d].pc = "generate" /\ PIsActive(t) => t \in P!Current(p_call[d].read)
    BY <2>1 DEF PSingle
  <2>3. PCreates(c, s) \/ (s \in P!Current(p_call[c].read) /\ p_call[c].read[s] = p_row[s])
    BY <1>2, <2>1, PWrittenWasOpen
  <2>4. \A d \in Calls : /\ PGenerating(p_call'[d]) => PGenerating(p_call[d])
                         /\ p_call'[d].pc = "generate" =>
                              d # c /\ p_call[d].pc = "generate" /\ p_call'[d].read = p_call[d].read
    BY <1>2 DEF PRowWritten, PWrites, PGenerating
  <2>5. CASE PCreates(c, s)
    <3>1. \A t \in Suggestions : ~PIsActive(t)  BY <2>2, <2>5 DEF PCreates
    <3>2. \A t \in Suggestions : PIsActive(t)' => t = s
      BY <2>1, <3>1 DEF PIsActive
    <3>3. \A d \in Calls : p_call'[d].pc # "generate"
      BY <2>2, <2>4, <2>5 DEF PCreates, PGenerating
    <3>4. QED  BY <2>2, <2>4, <3>2, <3>3
  <2>6. CASE s \in P!Current(p_call[c].read) /\ p_call[c].read[s] = p_row[s]
    <3>1. PIsActive(s)  BY <2>6 DEF PIsActive, P!Current
    <3>2. \A t \in Suggestions : PIsActive(t)' => PIsActive(t)
      BY <2>1, <3>1 DEF PIsActive
    <3>3. QED  BY <2>2, <2>4, <3>2
  <2>7. QED  BY <2>3, <2>5, <2>6
<1>3. QED  BY <1>1, <1>2

\* Init establishes the invariant.
LEMMA PInitially == P!Init => PInv
<1> SUFFICES ASSUME P!Init PROVE PInv  OBVIOUS
<1>1. P!Idle \in P!Call /\ P!Idle.pc = "idle" /\ \A c \in Calls : p_call[c] = P!Idle
  BY PIdleType DEF P!Init
<1>2. P!NoRow \in P!Row /\ P!NoRow.status = "absent"
  BY DEF P!NoRow, P!Row
<1>3. /\ p_row \in [Suggestions -> P!Row]
      /\ \A s \in Suggestions : p_row[s].status \in {"absent", "pending"}
      /\ \A s, t \in Suggestions :
           p_row[s].status = "pending" /\ p_row[t].status = "pending" => s = t
  <2>1. CASE p_row = [s \in Suggestions |-> P!NoRow]
    BY <1>2, <2>1
  <2>2. ASSUME NEW t \in Suggestions,
               p_row = [[s \in Suggestions |-> P!NoRow] EXCEPT ![t].status = "pending"]
        PROVE  /\ p_row \in [Suggestions -> P!Row]
               /\ \A s \in Suggestions : p_row[s].status \in {"absent", "pending"}
               /\ \A s, u \in Suggestions :
                    p_row[s].status = "pending" /\ p_row[u].status = "pending" => s = u
    <3> DEFINE p == [P!NoRow EXCEPT !.status = "pending"]
    <3>1. p \in P!Row /\ p.status = "pending"  BY DEF P!NoRow, P!Row, P!ActiveStatuses
    <3>2. p_row = [s \in Suggestions |-> IF s = t THEN p ELSE P!NoRow]  BY <2>2
    <3> HIDE DEF p
    <3>3. QED  BY <1>2, <3>1, <3>2
  <2>3. QED  BY <2>1, <2>2 DEF P!Init
<1>4. PReadings
  <2>1. p_call \in [Calls -> P!Call]  BY <1>1 DEF P!Init
  <2>2. p_orders \in Seq(Suggestions) /\ p_count \in Nat /\ p_fails \in Nat
        /\ p_stale \subseteq Suggestions
    BY DEF P!Init
  <2>3. p_crowded \in BOOLEAN  BY DEF P!Init
  <2>4. P!TypeOK  BY <1>3, <2>1, <2>2, <2>3 DEF P!TypeOK
  <2>5. \A c \in Calls : PFits(p_call[c]) /\ PFresh(p_call[c])
    BY <1>1 DEF PFits, PFresh, PFreshOn, POnRow
  <2>6. QED  BY <2>4, <2>5 DEF PReadings
<1>5. P!OrderedOnceUnlessRaced
  <2>1. \A s \in Suggestions : P!OrdersOf(s) = {} /\ p_row[s].status # "converted"
    BY <1>3 DEF P!Init, P!OrdersOf
  <2>2. QED  BY <2>1 DEF P!OrderedOnceUnlessRaced
<1>6. PSingle
  BY <1>1, <1>3 DEF PSingle, PIsActive, P!ActiveStatuses, PGenerating
<1>7. QED  BY <1>4, <1>5, <1>6 DEF PInv

\* The invariant is inductive.
LEMMA PInvariance == PInv /\ [P!Next]_(P!vars) => PInv'
<1> SUFFICES ASSUME PInv, [P!Next]_(P!vars) PROVE PInv'  OBVIOUS
<1>1. P!TypeOK' /\ (PQuiet \/ \E c \in Calls, s \in Suggestions : PRowWritten(c, s))
  BY PEffects DEF PInv
<1>2. PReadings'  BY <1>1, PReadingsStep DEF PInv
<1>3. P!OrderedOnceUnlessRaced'  BY <1>1, <1>2, POrderedStep DEF PInv
<1>4. PSingle'  BY <1>1, <1>2, PSingleStep DEF PInv
<1>5. QED  BY <1>2, <1>3, <1>4 DEF PInv

\* It holds in every reachable state.
LEMMA PAlways == P!Spec => []PInv
BY PInitially, PInvariance, PTL DEF P!Spec

\* The types of the rows, the orders and the requests.
THEOREM SuggestionsTypeCorrect == P!Spec => []P!TypeOK
<1>1. PInv => P!TypeOK  BY DEF PInv, PReadings
<1>2. QED  BY <1>1, PAlways, PTL

\* A suggestion leads to one order at most, the one that it names, however many
\* requests approve it, order with it, edit it or generate suggestions, unless its row
\* was written from an outdated reading.
THEOREM SuggestionsOrderedOnce == P!Spec => []P!OrderedOnceUnlessRaced
<1>1. PInv => P!OrderedOnceUnlessRaced  BY DEF PInv
<1>2. QED  BY <1>1, PAlways, PTL

\* The invariant says that one suggestion is active.
LEMMA PSingleIsOne == PInv => P!OneActiveUnlessRaced
BY DEF P!OneActiveUnlessRaced, PInv, PSingle, PIsActive

\* At most one suggestion is active, unless two generations overlapped or a row was
\* written from an outdated reading.
THEOREM OneSuggestionActive == P!Spec => []P!OneActiveUnlessRaced
BY PSingleIsOne, PAlways, PTL

\* No step writes a row that is decided, but from an outdated reading.
LEMMA PDecidedStep == PInv /\ [P!Next]_(P!vars) => P!DecidedStays
<1> SUFFICES ASSUME PInv, [P!Next]_(P!vars), NEW s \in Suggestions,
                    p_row[s].status \in P!Closed, s \notin p_stale'
             PROVE  p_row'[s] = p_row[s]
  BY DEF P!DecidedStays
<1>1. PReadings  BY DEF PInv
<1>2. PQuiet \/ \E c \in Calls, t \in Suggestions : PRowWritten(c, t)
  BY <1>1, PEffects
<1>3. CASE PQuiet  BY <1>3 DEF PQuiet
<1>4. ASSUME NEW c \in Calls, NEW t \in Suggestions, PRowWritten(c, t)
      PROVE  p_row'[s] = p_row[s]
  <2>1. t # s  BY <1>1, <1>4, PWrittenWasOpen
  <2>2. QED  BY <1>4, <2>1 DEF PRowWritten, PWrites
<1>5. QED  BY <1>2, <1>3, <1>4

\* A suggestion that was ordered, rejected or expired stays as it is, unless its row is
\* written from an outdated reading.
THEOREM SuggestionDecisionsStay == P!Spec => P!DecidedStaysUnlessRaced
<1>1. PInv /\ [P!Next]_(P!vars) => [P!DecidedStays]_(P!vars)  BY PDecidedStep
<1>2. QED  BY <1>1, PAlways, PTL DEF P!Spec, P!DecidedStaysUnlessRaced

-----------------------------------------------------------------------------
(***************************************************************************)
(* The composition: each part keeps its own invariant while it runs, and   *)
(* nothing else writes its variables.                                      *)
(***************************************************************************)

PartsInv ==
  /\ IInv
  /\ part = "movements" => S!IInv
  /\ part = "transfers" => TransferIInv
  /\ part = "suggestions" => PInv
  /\ part = "locations" => LInv

\* The constants are what the proofs about movements ask for.
LEMMA MovementsGiven == S!Given
BY WarehouseAssumption DEF S!Given, S!Row, S!Loc, S!IsFiniteSet, IsFiniteSet

\* And what the proofs about locations ask for.
LEMMA LocationsGiven == LGiven
BY WarehouseAssumption DEF LGiven

\* Initially each part is in one of its own initial states.
LEMMA InitPartsInv == InitParts => PartsInv
<1> SUFFICES ASSUME InitParts PROVE PartsInv
  OBVIOUS
<1>1. IInv
  BY InitIInv DEF InitParts
<1>2. part = "movements" => S!IInv
  BY MovementsGiven, S!InitInv DEF InitParts
<1>3. part = "transfers" => TransferIInv
  BY TransferInitInv, WarehouseAssumption DEF InitParts
<1>4. part = "suggestions" => PInv
  BY PInitially DEF InitParts
<1>5. part = "locations" => LInv
  BY LocationsGiven, LInitInv DEF InitParts
<1> QED
  BY <1>1, <1>2, <1>3, <1>4, <1>5 DEF PartsInv

\* A step of the composition is a step of each part, or leaves it alone.
LEMMA PartStep ==
  ASSUME [NextParts]_allVars
  PROVE  /\ part' = part
         /\ [Next]_vars
         /\ part = "movements" => [S!Next]_(S!vars)
         /\ part = "transfers" => [T!Next]_(T!vars)
         /\ part = "suggestions" => [P!Next]_(P!vars)
         /\ part = "locations" => [L!Next]_(L!vars)
<1>1. CASE UNCHANGED allVars
  <2>1. UNCHANGED <<part, vars, s_vars, t_vars, p_vars, l_vars>>
    BY <1>1 DEF allVars
  <2> QED
    BY <2>1 DEF s_vars, t_vars, p_vars, l_vars, S!vars, T!vars, P!vars, L!vars
<1>2. CASE NextParts
  <2>1. part' = part
    BY <1>2 DEF NextParts
  <2>2. [Next]_vars
    BY <1>2 DEF NextParts
  <2>3. part = "movements" => S!Next
    BY <1>2 DEF NextParts
  <2>4. part = "transfers" => T!Next
    BY <1>2 DEF NextParts
  <2>5. part = "suggestions" => P!Next
    BY <1>2 DEF NextParts
  <2>6. part = "locations" => L!Next
    BY <1>2 DEF NextParts
  <2> QED
    BY <2>1, <2>2, <2>3, <2>4, <2>5, <2>6
<1> QED
  BY <1>1, <1>2

\* The invariant is inductive.
LEMMA NextPartsInv == PartsInv /\ [NextParts]_allVars => PartsInv'
<1> SUFFICES ASSUME PartsInv, [NextParts]_allVars PROVE PartsInv'
  OBVIOUS
<1>1. IInv'
  BY PartStep, NextIInv DEF PartsInv
<1>2. (part = "movements" => S!IInv)'
  <2> SUFFICES ASSUME part' = "movements" PROVE S!IInv'
    OBVIOUS
  <2>1. S!IInv /\ [S!Next]_(S!vars)
    BY PartStep DEF PartsInv
  <2> QED
    BY <2>1, MovementsGiven, S!InvStep
<1>3. (part = "transfers" => TransferIInv)'
  BY PartStep, TransferInvStep DEF PartsInv
<1>4. (part = "suggestions" => PInv)'
  BY PartStep, PInvariance DEF PartsInv
<1>5. (part = "locations" => LInv)'
  BY LocationsGiven, PartStep, LInvStep DEF PartsInv
<1> QED
  BY <1>1, <1>2, <1>3, <1>4, <1>5 DEF PartsInv

\* It holds in every reachable state.
LEMMA PartsHold == SpecParts => []PartsInv
BY InitPartsInv, NextPartsInv, PTL DEF SpecParts

\* The types of mobile orders and carts, of the stock row, its batches and movements, of
\* transfer requests, suggestions and locations, for any constants.
THEOREM WarehouseIsTyped == SpecParts => []WarehouseTypes
<1>1. PartsInv => WarehouseTypes
  BY DEF PartsInv, WarehouseTypes, IInv, S!IInv, S!Types, TransferIInv, PInv, PReadings, LInv
<1> QED
  BY <1>1, PartsHold, PTL

\* createMovement, updateLocation: for any number of locations, products and handlers, the
\* locations of a product add up to its depot quantity, but for handlers between the two
\* writes and the products that the code lets differ.
THEOREM DepotIsInItsLocations == SpecParts => []DepotMatchesLocations
<1>1. PartsInv => DepotMatchesLocations
  BY DEF PartsInv, DepotMatchesLocations, LInv
<1> QED
  BY <1>1, PartsHold, PTL

\* The movements of a product: for every number of handlers and batches, the batches
\* never claim more than the stock row holds, unless an edit or a race says so.
THEOREM BatchesStayWithinRow == SpecParts => []BatchesWithinRow
<1>1. PartsInv => BatchesWithinRow
  BY DEF PartsInv, BatchesWithinRow, S!IInv
<1> QED
  BY <1>1, PartsHold, PTL

\* The stock row is its opening quantity and the sum of its movements, and a movement is
\* cancelled by one other at most, for every number of handlers, batches and movements,
\* but for the races and edits that the model records.
THEOREM MovementsExplainTheRow == SpecParts => []MovementsAddUp
<1>1. PartsInv => MovementsAddUp
  BY DEF PartsInv, MovementsAddUp, S!IInv
<1> QED
  BY <1>1, PartsHold, PTL

\* cancelStockMovement: what was covered by batches is taken back from where it went.
THEOREM CancelTakesBackCovered == SpecParts => CancelRestoresCovered
<1>1. PartsInv /\ [NextParts]_allVars => [part = "movements" => S!RestoringCovered]_allVars
  <2> SUFFICES ASSUME PartsInv, [NextParts]_allVars, part = "movements"
               PROVE  S!RestoringCovered
    OBVIOUS
  <2>1. S!IInv /\ [S!Next]_(S!vars)
    BY PartStep DEF PartsInv
  <2> QED
    BY <2>1, MovementsGiven, S!RestoreStep
<1> QED
  BY <1>1, PartsHold, PTL DEF SpecParts, CancelRestoresCovered

\* updateTransferRequestStatus and bulkUpdateTransferRequests: a request shown as
\* completed has moved its stock, and moved it once, for any set of requests.
THEOREM CompletedTransfersMatch == SpecParts => []TransfersMatch
<1>1. PartsInv => TransfersMatch
  BY DEF PartsInv, TransfersMatch, TransferIInv
<1> QED
  BY <1>1, PartsHold, PTL

\* A closed transfer request stays closed, unless its row is written from an outdated
\* reading.
THEOREM ClosedTransfersStay == SpecParts => TransfersStayClosed
<1>1. PartsInv /\ [NextParts]_allVars => [part = "transfers" => T!StaysClosed]_allVars
  <2> SUFFICES ASSUME PartsInv, NextParts, part = "transfers" PROVE T!StaysClosed
    BY DEF allVars
  <2>1. TransferIInv
    BY DEF PartsInv
  <2>2. T!Next
    BY DEF NextParts
  <2> QED
    BY <2>1, <2>2, TransferClosedStep DEF TransferIInv, T!StaysClosed, T!vars
<1> QED
  BY <1>1, PartsHold, PTL DEF SpecParts, TransfersStayClosed

\* A suggestion leads to one order, which it names, and a product has one active
\* suggestion, for any number of suggestions and requests.
THEOREM SuggestionsAreOrderedOnce == SpecParts => []SuggestionsMatchOrders
<1>1. PartsInv => SuggestionsMatchOrders
  <2> SUFFICES ASSUME PartsInv, part = "suggestions"
               PROVE  P!OrderedOnceUnlessRaced /\ P!OneActiveUnlessRaced
    BY DEF SuggestionsMatchOrders
  <2>1. PInv
    BY DEF PartsInv
  <2>2. P!OneActiveUnlessRaced
    BY <2>1, PSingleIsOne
  <2> QED
    BY <2>1, <2>2 DEF PInv
<1> QED
  BY <1>1, PartsHold, PTL

\* A suggestion that is ordered, rejected or expired does not open again, unless its row
\* is written from an outdated reading.
THEOREM DecidedSuggestionsStay == SpecParts => SuggestionsStayDecided
<1>1. PartsInv /\ [NextParts]_allVars => [part = "suggestions" => P!DecidedStays]_allVars
  <2> SUFFICES ASSUME PartsInv, [NextParts]_allVars, part = "suggestions"
               PROVE  P!DecidedStays
    OBVIOUS
  <2>1. PInv /\ [P!Next]_(P!vars)
    BY PartStep DEF PartsInv
  <2> QED
    BY <2>1, PDecidedStep
<1> QED
  BY <1>1, PartsHold, PTL DEF SpecParts, SuggestionsStayDecided
=============================================================================
