---------------------------- MODULE Store_proofs ----------------------------
(***************************************************************************)
(* Proofs about the parts of MCStore, for any constants.  The tills are    *)
(* proved here: types, documents and their movements, then stock, the gift *)
(* card and returns; then the shelf label and the closings of the days.    *)
(* The price is proved in TemporaryPrices_proofs, whose lemmas are cited   *)
(* as V!...                                                                *)
(***************************************************************************)
EXTENDS MCStore, Sums_proofs, Sequences

-----------------------------------------------------------------------------
(***************************************************************************)
(* The tills, for every set of products, every number of requests in       *)
(* flight and every bound. First the types, then that stored documents are *)
(* booked.                                                                 *)
(***************************************************************************)
\* The types of used and stock depend on what a request carries at a stage: a
\* use of the card within the limit, a product in hand, a kind that moves stock,
\* the sale that a return marks.
StageFits(k) ==
  /\ k.used <= UsageLimit
  /\ k.kind = "settings" => k.pc = "writeCard"
  /\ k.pc \in {"write", "log"} => k.p \in Products
  /\ k.pc \in {"store", "items"} => k.kind \in {"sale", "return"}
  /\ k.pc \in {"mark", "markWrite", "markDelete", "markItems"} => k.of \in Refs
StagesFit == \A c \in Calls : StageFits(call[c])
TypeInv == TypeOK /\ StagesFit

\* An idle request is well formed.
LEMMA IdleType ==
  /\ Idle \in Call /\ NoDoc \in Doc /\ NoLines \in Lines
  /\ StageFits(Idle)
<1>1. NoLines \in Lines
  BY PosStockAssumption DEF NoLines, Lines
<1>2. 0 \in 0..MaxCalls
  BY PosStockAssumption
<1> QED
  BY <1>1, <1>2, PosStockAssumption DEF Idle, Call, NoDoc, Doc, Pc, Kind, StockRow, StageFits

\* A request gets a new number or one that was drawn before.
LEMMA AcceptNumber ==
  ASSUME TypeInv, NEW c \in Calls, NEW k \in Call, Accept(c, k)
  PROVE  \E ref \in Refs :
           call' = [call EXCEPT ![c] = [k EXCEPT !.ref = ref, !.todo = Of(k.lines)]]
<1>1. PICK ref \in Numbers(k.kind) :
        call' = [call EXCEPT ![c] = [k EXCEPT !.ref = ref, !.todo = Of(k.lines)]]
  BY DEF Accept
<1>2. served + 1 \in Refs
  BY PosStockAssumption DEF Accept, TypeInv, TypeOK, Refs
<1> QED
  BY <1>1, <1>2 DEF Numbers

\* A request that is accepted keeps the types.
LEMMA AcceptType ==
  ASSUME TypeInv, NEW c \in Calls, NEW k \in Call, StageFits(k), Accept(c, k)
  PROVE  /\ call' \in [Calls -> Call] /\ StagesFit'
         /\ served' \in 0..MaxCalls /\ stops' \in Nat
<1>1. PICK ref \in Refs :
        call' = [call EXCEPT ![c] = [k EXCEPT !.ref = ref, !.todo = Of(k.lines)]]
  BY AcceptNumber
<1> DEFINE n == [k EXCEPT !.ref = ref, !.todo = Of(k.lines)]
<1>2. n \in Call /\ StageFits(n)
  <2>1. ref \in 0..MaxCalls /\ Of(k.lines) \in SUBSET Products
    BY PosStockAssumption DEF Refs, Of
  <2> QED
    BY <2>1 DEF Call, StageFits
<1>3. call' = [call EXCEPT ![c] = n]
  BY <1>1
<1>4. served' \in 0..MaxCalls /\ stops' = stops
  <2>1. served' = served + 1 /\ served < MaxCalls /\ stops' = stops
    BY DEF Accept
  <2> QED
    BY <2>1, PosStockAssumption DEF TypeInv, TypeOK
<1> HIDE DEF n
<1> QED
  BY <1>2, <1>3, <1>4 DEF TypeInv, TypeOK, StagesFit

\* The row that is written is a stock row.
LEMMA RowType ==
  ASSUME NEW kind \in Kind \ {"settings"}, NEW row \in StockRow, NEW q \in Nat
  PROVE  AfterLine(kind, row, q) \in StockRow
<1>1. /\ row.depot \in Nat /\ row.shelf \in Nat
      /\ Less(row.depot, q) \in Nat /\ Less(row.shelf, q) \in Nat
  BY DEF StockRow, Less
<1> QED
  BY <1>1 DEF AfterLine, Kind, StockRow

-----------------------------------------------------------------------------
\* Init establishes the types.
LEMMA InitTypeInv == Init => TypeInv
<1> SUFFICES ASSUME Init PROVE TypeInv
  OBVIOUS
<1>1. stock \in [Products -> StockRow] /\ start \in [Products -> Nat]
  BY PosStockAssumption DEF Init, StockRow
<1>2. back \in [Refs -> [Products -> Nat]] /\ lost \in [Refs -> [Products -> Nat]]
  <2>1. NoLines \in [Products -> Nat]
    BY DEF NoLines
  <2> QED
    BY <2>1 DEF Init
<1>3. strayed \subseteq Products /\ raced \subseteq Refs /\ partial \subseteq Refs
  BY DEF Init
<1> QED
  BY <1>1, <1>2, <1>3, IdleType, PosStockAssumption DEF Init, TypeInv, TypeOK, StagesFit

\* The arrival of a request keeps them,
LEMMA RequestTypeInv ==
  ASSUME TypeInv, NEW c \in Calls,
         \/ \E lines \in Lines, card \in BOOLEAN : SaleRequest(c, lines, card)
         \/ \E lines \in Lines, of \in 0..MaxCalls : ReturnRequest(c, lines, of)
         \/ \E kind \in Kind, p \in Products, q \in 1..MaxQty : TransferRequest(c, kind, p, q)
         \/ SettingsRequest(c)
  PROVE  TypeInv'
<1> USE IdleType
<1>1. ASSUME NEW lines \in Lines, NEW card \in BOOLEAN, SaleRequest(c, lines, card)
      PROVE  TypeInv'
  <2> DEFINE k == [Idle EXCEPT !.pc = "check", !.lines = lines, !.card = card]
  <2>1. k \in Call /\ StageFits(k) /\ Accept(c, k)
    BY <1>1 DEF SaleRequest, Call, Pc, Idle, StageFits
  <2> HIDE DEF k
  <2> QED
    BY <1>1, <2>1, AcceptType DEF SaleRequest, TypeInv, TypeOK, ghosts
<1>2. ASSUME NEW lines \in Lines, NEW of \in 0..MaxCalls, ReturnRequest(c, lines, of)
      PROVE  TypeInv'
  <2>1. PICK cov \in {"none", "partial", "full"} :
          Accept(c, [Idle EXCEPT !.pc = "read", !.kind = "return", !.lines = lines,
                                 !.of = of, !.coverage = cov])
    BY <1>2 DEF ReturnRequest
  <2> DEFINE k == [Idle EXCEPT !.pc = "read", !.kind = "return", !.lines = lines,
                               !.of = of, !.coverage = cov]
  <2>2. k \in Call /\ StageFits(k) /\ Accept(c, k)
    BY <2>1 DEF Call, Pc, Kind, Idle, StageFits
  <2>3. raced' \subseteq Refs /\ partial' \subseteq Refs
    BY <1>2 DEF ReturnRequest, TypeInv, TypeOK
  <2> HIDE DEF k
  <2> QED
    BY <1>2, <2>2, <2>3, AcceptType DEF ReturnRequest, TypeInv, TypeOK
<1>3. ASSUME NEW kind \in Kind, NEW p \in Products, NEW q \in 1..MaxQty,
             TransferRequest(c, kind, p, q)
      PROVE  TypeInv'
  <2> DEFINE k == [Idle EXCEPT !.pc = "write", !.kind = kind, !.p = p, !.seen = stock[p],
                               !.lines = [NoLines EXCEPT ![p] = q]]
  <2>1. [NoLines EXCEPT ![p] = q] \in Lines /\ stock[p] \in StockRow
    BY <1>3, PosStockAssumption DEF Lines, TypeInv, TypeOK
  <2>2. k \in Call /\ StageFits(k) /\ Accept(c, k)
    BY <1>3, <2>1 DEF TransferRequest, Call, Pc, Idle, StageFits
  <2> HIDE DEF k
  <2> QED
    BY <1>3, <2>2, AcceptType DEF TransferRequest, TypeInv, TypeOK, ghosts
<1>4. ASSUME SettingsRequest(c) PROVE TypeInv'
  <2> DEFINE k == [Idle EXCEPT !.pc = "writeCard", !.kind = "settings", !.used = used]
  <2>1. k \in Call /\ StageFits(k) /\ Accept(c, k)
    <3>1. used \in Nat /\ used <= UsageLimit
      BY PosStockAssumption DEF TypeInv, TypeOK
    <3> QED
      BY <1>4, <3>1 DEF SettingsRequest, Call, Pc, Kind, Idle, StageFits
  <2> HIDE DEF k
  <2> QED
    BY <1>4, <2>1, AcceptType DEF SettingsRequest, TypeInv, TypeOK, ghosts
<1> QED
  BY <1>1, <1>2, <1>3, <1>4

\* What a return has put back without an item row is a number of pieces.
LEMMA UnrecordedType ==
  ASSUME NEW k \in Call, NEW p \in Products
  PROVE  Unrecorded(k, p) \in Nat /\ Unrecorded(Idle, p) = 0
<1>1. k.lines[p] \in Nat
  BY DEF Call, Lines
<1>2. Idle.pc = "idle"
  BY DEF Idle
<1> QED
  BY <1>1, <1>2 DEF Unrecorded

\* A request that ends before its time leaves numbers behind.
LEMMA BrokenType ==
  ASSUME TypeInv, NEW c \in Calls, Broken(c)
  PROVE  call' = [call EXCEPT ![c] = Idle] /\ lost' \in [Refs -> [Products -> Nat]]
<1>1. call[c] \in Call /\ lost \in [Refs -> [Products -> Nat]]
  BY DEF TypeInv, TypeOK
<1>2. \A s \in Refs, p \in Products : lost[s][p] + Unrecorded(call[c], p) \in Nat
  BY <1>1, UnrecordedType
<1>3. lost' = [s \in Refs |-> IF s = call[c].of
                               THEN [p \in Products |-> lost[s][p] + Unrecorded(call[c], p)]
                               ELSE lost[s]]
  BY DEF Broken
<1>4. lost' \in [Refs -> [Products -> Nat]]
  BY <1>1, <1>2, <1>3
<1> QED
  BY <1>4 DEF Broken, Done

\* ... and so does each of its steps.
LEMMA StepTypeInv ==
  ASSUME TypeInv, NEW c \in Calls,
         \/ \E p \in Products :
              CheckLine(c, p) \/ ReadStock(c, p) \/ StoreItem(c, p) \/ MarkItem(c, p)
         \/ CheckCard(c) \/ WriteStock(c) \/ LogStock(c) \/ StoreDoc(c)
         \/ MarkRead(c) \/ MarkWrite(c) \/ MarkDelete(c)
         \/ ReadCard(c) \/ WriteCard(c) \/ Stop(c)
  PROVE  TypeInv'
<1> DEFINE k == call[c]
<1>k. /\ k \in Call /\ StageFits(k) /\ k.lines \in Lines /\ k.seen \in StockRow
      /\ call \in [Calls -> Call] /\ used \in Nat /\ used <= UsageLimit
  BY PosStockAssumption DEF TypeInv, TypeOK, StagesFit, Call
<1> USE IdleType
\* A step that replaces the request by one that fits keeps the invariant.
<1>0. ASSUME NEW n \in Call, StageFits(n), call' = [call EXCEPT ![c] = n]
      PROVE  call' \in [Calls -> Call] /\ StagesFit'
  BY <1>0, <1>k DEF StagesFit, TypeInv
<1>1. ASSUME NEW p \in Products, CheckLine(c, p) PROVE TypeInv'
  <2> DEFINE n1 == [k EXCEPT !.todo = k.todo \ {p}]
             n2 == [k EXCEPT !.todo = Of(k.lines), !.pc = IF k.card THEN "card" ELSE "read"]
  <2>c. k.pc = "check"
    BY <1>1 DEF CheckLine, At
  <2>1. /\ n1 \in Call /\ StageFits(n1) /\ n2 \in Call /\ StageFits(n2)
    <3>1. n1 \in Call /\ n2 \in Call
      BY <1>k DEF Call, Pc, Of
    <3>2. StageFits(n1)
      BY <1>k, <2>c DEF Call, StageFits
    <3>3. StageFits(n2)
      BY <1>k, <2>c DEF Call, StageFits
    <3> QED
      BY <3>1, <3>2, <3>3
  <2>2. \/ call' = [call EXCEPT ![c] = Idle] \/ call' = [call EXCEPT ![c] = n1]
        \/ call' = [call EXCEPT ![c] = n2]
    BY <1>1 DEF CheckLine, Done
  <2> HIDE DEF n1, n2
  <2>3. call' \in [Calls -> Call] /\ StagesFit'
    BY <2>1, <2>2, <1>0
  <2> QED
    BY <1>1, <2>3 DEF CheckLine, TypeInv, TypeOK, bounds, ghosts
<1>2. ASSUME NEW p \in Products, ReadStock(c, p) PROVE TypeInv'
  <2> DEFINE n == [k EXCEPT !.pc = "write", !.p = p, !.seen = stock[p]]
  <2>1. n \in Call /\ StageFits(n) /\ call' = [call EXCEPT ![c] = n]
    BY <1>2, <1>k DEF ReadStock, At, Call, Pc, StageFits, TypeInv, TypeOK
  <2> HIDE DEF n
  <2>2. call' \in [Calls -> Call] /\ StagesFit'
    BY <2>1, <1>0
  <2> QED
    BY <1>2, <2>2 DEF ReadStock, TypeInv, TypeOK, bounds, ghosts
<1>3. CASE CheckCard(c)
  <2> DEFINE n == [k EXCEPT !.pc = "read"]
  <2>1. n \in Call /\ StageFits(n)
    BY <1>3, <1>k DEF CheckCard, At, Call, Pc, StageFits
  <2>2. call' = [call EXCEPT ![c] = Idle] \/ call' = [call EXCEPT ![c] = n]
    BY <1>3 DEF CheckCard, Goto, Done
  <2> HIDE DEF n
  <2>3. call' \in [Calls -> Call] /\ StagesFit'
    BY <2>1, <2>2, <1>0
  <2> QED
    BY <1>3, <2>3 DEF CheckCard, TypeInv, TypeOK, bounds, ghosts
<1>4. CASE WriteStock(c)
  <2> DEFINE n == [k EXCEPT !.pc = "log"]
             row == AfterLine(k.kind, k.seen, k.lines[k.p])
  <2>1. n \in Call /\ StageFits(n) /\ call' = [call EXCEPT ![c] = n]
    BY <1>4, <1>k DEF WriteStock, Goto, At, Call, Pc, StageFits
  <2>2. row \in StockRow
    <3>1. k.p \in Products /\ k.kind \in Kind \ {"settings"} /\ k.lines[k.p] \in Nat
      BY <1>4, <1>k DEF WriteStock, At, StageFits, Call, Lines
    <3> QED
      BY <3>1, <1>k, RowType
  <2>3. stock' \in [Products -> StockRow] /\ strayed' \subseteq Products
    BY <1>4, <1>k, <2>2 DEF WriteStock, At, StageFits, TypeInv, TypeOK
  <2> HIDE DEF n, row
  <2>4. call' \in [Calls -> Call] /\ StagesFit'
    BY <2>1, <1>0
  <2>5. back' \in [Refs -> [Products -> Nat]]
    <3>1. k.p \in Products /\ k.lines[k.p] \in Nat
      BY <1>4, <1>k DEF WriteStock, At, StageFits, Call, Lines
    <3>2. back \in [Refs -> [Products -> Nat]]
      BY DEF TypeInv, TypeOK
    <3>3. \A s \in Refs : [back[s] EXCEPT ![k.p] = @ + k.lines[k.p]] \in [Products -> Nat]
      BY <3>1, <3>2
    <3>4. back' = [s \in Refs |-> IF s = k.of THEN [back[s] EXCEPT ![k.p] = @ + k.lines[k.p]]
                                               ELSE back[s]]
      BY <1>4 DEF WriteStock
    <3> HIDE DEF k
    <3> QED
      BY <3>2, <3>3, <3>4
  <2> QED
    BY <1>4, <2>3, <2>4, <2>5 DEF WriteStock, TypeInv, TypeOK, bounds
<1>5. CASE LogStock(c)
  <2> DEFINE n1 == [k EXCEPT !.pc = "read", !.todo = LinesLeft(k)]
             n2 == [k EXCEPT !.pc = "store"]
  <2>1. k.p \in Products /\ k.kind # "settings" /\ k.lines[k.p] \in Nat
    BY <1>5, <1>k DEF LogStock, At, StageFits, Call, Lines
  <2>2. /\ n1 \in Call /\ StageFits(n1) /\ n2 \in Call
        /\ k.kind \in {"sale", "return"} => StageFits(n2)
    <3>1. n1 \in Call /\ n2 \in Call
      BY <1>k DEF Call, Pc, LinesLeft
    <3>2. StageFits(n1)
      BY <1>k, <2>1 DEF Call, StageFits
    <3>3. k.kind \in {"sale", "return"} => StageFits(n2)
      BY <1>k, <2>1 DEF Call, StageFits
    <3> QED
      BY <3>1, <3>2, <3>3
  <2>3. \/ call' = [call EXCEPT ![c] = Idle] \/ call' = [call EXCEPT ![c] = n1]
        \/ k.kind \in {"sale", "return"} /\ call' = [call EXCEPT ![c] = n2]
    BY <1>5 DEF LogStock, Goto, Done, AfterLastLog
  <2>4. Delta(k) \in Int
    BY <2>1 DEF Delta
  <2> HIDE DEF n1, n2
  <2>5. call' \in [Calls -> Call] /\ StagesFit'
    BY <2>2, <2>3, <1>0
  <2>6. booked' \in [Refs -> SUBSET Products]
    BY <1>5, <2>1 DEF LogStock, TypeInv, TypeOK
  <2>7. net' \in [Products -> Int]
    BY <1>5, <2>1, <2>4 DEF LogStock, TypeInv, TypeOK
  <2> QED
    BY <1>5, <2>5, <2>6, <2>7 DEF LogStock, TypeInv, TypeOK, bounds
\* Documents stay documents when one row is replaced.
<1>d. ASSUME NEW r, NEW row \in Doc, doc' = [doc EXCEPT ![r] = row]
      PROVE  doc' \in [Refs -> Doc]
  BY <1>d DEF TypeInv, TypeOK
<1>r. \A r \in Refs : doc[r] \in Doc
  BY DEF TypeInv, TypeOK
<1>6. CASE StoreDoc(c)
  <2> DEFINE n == [k EXCEPT !.pc = "items", !.todo = Of(k.lines)]
             row == [kind |-> k.kind, lines |-> k.lines, items |-> {}, card |-> k.card,
                     of |-> k.of, coverage |-> "none"]
  <2>1. k.kind \in {"sale", "return"}
    BY <1>6, <1>k DEF StoreDoc, At, StageFits
  <2>2. n \in Call /\ StageFits(n) /\ row \in Doc
    <3>1. Of(k.lines) \in SUBSET Products
      BY DEF Of
    <3>2. n \in Call
      BY <1>k, <3>1 DEF Call, Pc
    <3>3. StageFits(n)
      BY <1>k, <2>1 DEF Call, StageFits
    <3>4. row \in Doc
      BY <1>k, <2>1 DEF Call, Doc
    <3> QED
      BY <3>2, <3>3, <3>4
  <2>3. \/ UNCHANGED doc /\ call' = [call EXCEPT ![c] = Idle]
        \/ doc' = [doc EXCEPT ![k.ref] = row] /\ call' = [call EXCEPT ![c] = n]
    BY <1>6, BrokenType DEF StoreDoc
  <2>5. lost' \in [Refs -> [Products -> Nat]]
    BY <1>6, BrokenType DEF StoreDoc, TypeInv, TypeOK
  <2> HIDE DEF n, row
  <2>4. call' \in [Calls -> Call] /\ StagesFit' /\ doc' \in [Refs -> Doc]
    BY <2>2, <2>3, <1>0, <1>d DEF TypeInv, TypeOK
  <2> QED
    BY <1>6, <2>4, <2>5 DEF StoreDoc, TypeInv, TypeOK, bounds
<1>7. ASSUME NEW p \in Products, StoreItem(c, p) PROVE TypeInv'
  <2> DEFINE n1 == [k EXCEPT !.todo = k.todo \ {p}]
             n2 == [k EXCEPT !.pc = "readCard"]
             n3 == [k EXCEPT !.pc = "mark"]
  <2>1. k.pc = "items" /\ k.kind # "settings"
    BY <1>7, <1>k DEF StoreItem, At, StageFits
  <2>2. /\ n1 \in Call /\ StageFits(n1) /\ n2 \in Call /\ StageFits(n2)
        /\ n3 \in Call /\ (k.of # 0 => StageFits(n3))
    BY <1>k, <2>1, PosStockAssumption DEF Call, Pc, StageFits, Refs
  <2>3. \/ call' = [call EXCEPT ![c] = Idle] \/ call' = [call EXCEPT ![c] = n1]
        \/ call' = [call EXCEPT ![c] = n2]
        \/ k.of # 0 /\ call' = [call EXCEPT ![c] = n3]
    <3>1. \/ call' = [call EXCEPT ![c] = n1] \/ Goto(c, "readCard")
          \/ (k.of # 0 /\ Goto(c, "mark")) \/ Done(c)
      BY <1>7 DEF StoreItem
    <3>2. Goto(c, "readCard") => call' = [call EXCEPT ![c] = n2]
      BY DEF Goto
    <3>3. Goto(c, "mark") => call' = [call EXCEPT ![c] = n3]
      BY DEF Goto
    <3> QED
      BY <3>1, <3>2, <3>3 DEF Done
  <2> HIDE DEF n1, n2, n3
  <2>4. call' \in [Calls -> Call] /\ StagesFit'
    BY <2>2, <2>3, <1>0
  <2>5. doc' \in [Refs -> Doc]
    <3> DEFINE row == [doc[k.ref] EXCEPT !.items = @ \cup {p}]
    <3>1. doc' = [doc EXCEPT ![k.ref] = row] /\ (k.ref \in Refs => row \in Doc)
      BY <1>7, <1>r DEF StoreItem, Doc
    <3> HIDE DEF row
    <3> QED
      BY <3>1 DEF TypeInv, TypeOK
  <2> QED
    BY <1>7, <2>4, <2>5 DEF StoreItem, TypeInv, TypeOK, bounds, ghosts
<1>11. CASE MarkRead(c)
  <2> DEFINE n == [k EXCEPT !.pc = "markWrite", !.todo = doc[k.of].items]
  <2>1. k.pc = "mark" /\ k.of \in Refs /\ doc[k.of].items \subseteq Products
    BY <1>11, <1>k, <1>r DEF MarkRead, At, StageFits, Doc
  <2>2. n \in Call /\ StageFits(n) /\ call' = [call EXCEPT ![c] = n]
    BY <1>11, <1>k, <2>1 DEF MarkRead, Call, Pc, StageFits
  <2> HIDE DEF n
  <2>3. call' \in [Calls -> Call] /\ StagesFit'
    BY <2>2, <1>0
  <2> QED
    BY <1>11, <2>3 DEF MarkRead, TypeInv, TypeOK, bounds, ghosts
<1>12. CASE MarkWrite(c)
  <2> DEFINE n == [k EXCEPT !.pc = "markDelete"]
             row == [doc[k.of] EXCEPT !.coverage = k.coverage]
  <2>1. k.pc = "markWrite" /\ k.of \in Refs
    BY <1>12, <1>k DEF MarkWrite, At, StageFits
  <2>2. n \in Call /\ StageFits(n) /\ call' = [call EXCEPT ![c] = n]
    BY <1>12, <1>k, <2>1 DEF MarkWrite, Goto, Call, Pc, StageFits
  <2>3. row \in Doc /\ doc' = [doc EXCEPT ![k.of] = row]
    BY <1>12, <1>k, <1>r, <2>1 DEF MarkWrite, Call, Doc
  <2> HIDE DEF n, row
  <2>4. call' \in [Calls -> Call] /\ StagesFit' /\ doc' \in [Refs -> Doc]
    BY <2>2, <2>3, <1>0, <1>d
  <2> QED
    BY <1>12, <2>4 DEF MarkWrite, TypeInv, TypeOK, bounds, ghosts
<1>13. CASE MarkDelete(c)
  <2> DEFINE n == [k EXCEPT !.pc = "markItems"]
             row == [doc[k.of] EXCEPT !.items = {}]
  <2>1. k.pc = "markDelete" /\ k.of \in Refs
    BY <1>13, <1>k DEF MarkDelete, At, StageFits
  <2>2. /\ n \in Call /\ StageFits(n)
        /\ call' = [call EXCEPT ![c] = n] \/ call' = [call EXCEPT ![c] = Idle]
    BY <1>13, <1>k, <2>1 DEF MarkDelete, Goto, Done, Call, Pc, StageFits
  <2>3. row \in Doc /\ doc' = [doc EXCEPT ![k.of] = row]
    BY <1>13, <1>r, <2>1 DEF MarkDelete, Doc
  <2> HIDE DEF n, row
  <2>4. call' \in [Calls -> Call] /\ StagesFit' /\ doc' \in [Refs -> Doc]
    BY <2>2, <2>3, <1>0, <1>d
  <2> QED
    BY <1>13, <2>4 DEF MarkDelete, TypeInv, TypeOK, bounds, ghosts
<1>14. ASSUME NEW p \in Products, MarkItem(c, p) PROVE TypeInv'
  <2> DEFINE n == [k EXCEPT !.todo = @ \ {p}]
             row == [doc[k.of] EXCEPT !.items = @ \cup {p}]
  <2>1. k.pc = "markItems" /\ k.of \in Refs
    BY <1>14, <1>k DEF MarkItem, At, StageFits
  <2>2. /\ n \in Call /\ StageFits(n)
        /\ call' = [call EXCEPT ![c] = n] \/ call' = [call EXCEPT ![c] = Idle]
    BY <1>14, <1>k, <2>1 DEF MarkItem, Done, Call, StageFits
  <2>3. row \in Doc /\ doc' = [doc EXCEPT ![k.of] = row]
    <3>1. doc[k.of] \in Doc /\ doc[k.of].items \cup {p} \subseteq Products
      BY <1>r, <2>1 DEF Doc
    <3>2. doc' = [doc EXCEPT ![k.of].items = @ \cup {p}]
      BY <1>14 DEF MarkItem
    <3> QED
      BY <1>r, <2>1, <3>1, <3>2 DEF Doc
  <2> HIDE DEF n, row
  <2>4. call' \in [Calls -> Call] /\ StagesFit' /\ doc' \in [Refs -> Doc]
    BY <2>2, <2>3, <1>0, <1>d
  <2> QED
    BY <1>14, <2>4 DEF MarkItem, TypeInv, TypeOK, bounds, ghosts
<1>8. CASE ReadCard(c)
  <2> DEFINE n == [k EXCEPT !.pc = "writeCard", !.used = used]
  <2>0. used \in Nat /\ used <= UsageLimit /\ call' = [call EXCEPT ![c] = n] /\ k.pc = "readCard"
    BY <1>8, <1>k DEF ReadCard, At, TypeInv, TypeOK
  <2>1. n \in Call /\ StageFits(n) /\ call' = [call EXCEPT ![c] = n]
    BY <2>0, <1>k DEF Call, Pc, StageFits
  <2> HIDE DEF n
  <2>2. call' \in [Calls -> Call] /\ StagesFit'
    BY <2>1, <1>0
  <2> QED
    BY <1>8, <2>2 DEF ReadCard, TypeInv, TypeOK, bounds, ghosts
<1>9. CASE WriteCard(c)
  <2>1. k.used \in Nat /\ k.used <= UsageLimit
    BY <1>k DEF Call, StageFits
  <2>2. Counted(k) \in 0..UsageLimit
    BY <2>1, PosStockAssumption DEF Counted
  <2>3. call' \in [Calls -> Call] /\ StagesFit'
    BY <1>9, <1>0 DEF WriteCard, Done
  <2> QED
    BY <1>9, <2>2, <2>3 DEF WriteCard, TypeInv, TypeOK, bounds, ghosts
<1>10. CASE Stop(c)
  <2>0. call' = [call EXCEPT ![c] = Idle] /\ lost' \in [Refs -> [Products -> Nat]]
    BY <1>10, BrokenType DEF Stop
  <2>1. call' \in [Calls -> Call] /\ StagesFit'
    BY <2>0, <1>0
  <2>2. stops' \in Nat /\ strayed' \subseteq Products
    BY <1>10 DEF Stop, TypeInv, TypeOK
  <2> QED
    BY <1>10, <2>0, <2>1, <2>2 DEF Stop, TypeInv, TypeOK
<1> QED
  BY <1>1, <1>2, <1>3, <1>4, <1>5, <1>6, <1>7, <1>8, <1>9, <1>10, <1>11, <1>12, <1>13, <1>14

\* The types are inductive.
LEMMA NextTypeInv == TypeInv /\ [Next]_vars => TypeInv'
<1> SUFFICES ASSUME TypeInv, [Next]_vars PROVE TypeInv'
  OBVIOUS
<1>1. CASE Next
  BY <1>1, RequestTypeInv, StepTypeInv DEF Next
<1>2. CASE UNCHANGED vars
  BY <1>2 DEF vars, bounds, ghosts, TypeInv, TypeOK, StagesFit
<1> QED
  BY <1>1, <1>2

\* Types hold in every reachable state, with any number of tills.
THEOREM TypeCorrect == Spec => []TypeOK
<1>1. TypeInv => TypeOK
  BY DEF TypeInv
<1> QED
  BY <1>1, InitTypeInv, NextTypeInv, PTL DEF Spec

-----------------------------------------------------------------------------
(***************************************************************************)
(* Stored documents are booked. While a request works on its lines, those  *)
(* it has done have a movement under its reference; movements are never    *)
(* taken back, and only a request that has done all lines stores a         *)
(* document.                                                               *)
(***************************************************************************)
Progress(k, bk) ==
  k.pc # "idle" =>
    /\ k.ref \in Refs
    /\ k.pc = "card" => k.todo = Of(k.lines)
    /\ k.pc \in {"read", "write", "log"} => Of(k.lines) \ k.todo \subseteq bk[k.ref]
    /\ k.pc = "store" => Of(k.lines) \subseteq bk[k.ref]

Booking == \A c \in Calls : Progress(call[c], booked)

IInv == TypeInv /\ Booking /\ DocumentsBooked

\* No document is stored at first.
LEMMA InitIInv == Init => IInv
<1> SUFFICES ASSUME Init PROVE IInv
  OBVIOUS
<1>1. TypeInv
  BY InitTypeInv
<1>2. \A c \in Calls : call[c].pc = "idle"
  BY DEF Init, Idle
<1>3. \A r \in Refs : doc[r].kind = "none"
  BY DEF Init, NoDoc
<1> QED
  BY <1>1, <1>2, <1>3 DEF IInv, Booking, Progress, DocumentsBooked

\* A step of one request that takes no movement back disturbs no other.
LEMMA OwnStep ==
  ASSUME IInv, TypeInv', NEW c \in Calls, NEW n \in Call,
         call' = [call EXCEPT ![c] = n], Progress(n, booked'),
         \A r \in Refs : booked[r] \subseteq booked'[r],
         \A r \in Refs : doc'[r].kind # "none" => Of(doc'[r].lines) \subseteq booked'[r]
  PROVE  IInv'
<1>1. \A d \in Calls : call'[d] = IF d = c THEN n ELSE call[d]
  BY DEF IInv, TypeInv, TypeOK
<1>2. Booking'
  <2> SUFFICES ASSUME NEW d \in Calls PROVE Progress(call'[d], booked')
    BY DEF Booking
  <2>1. CASE d = c
    BY <2>1, <1>1
  <2>2. CASE d # c
    BY <2>2, <1>1 DEF IInv, Booking, Progress
  <2> QED
    BY <2>1, <2>2
<1> QED
  BY <1>2 DEF IInv, DocumentsBooked

\* Steps that leave movements and documents alone, or change a document in
\* another field than kind and lines.
LEMMA QuietStep ==
  ASSUME IInv, TypeInv', NEW c \in Calls, NEW n \in Call,
         call' = [call EXCEPT ![c] = n], Progress(n, booked), booked' = booked,
         \A r \in Refs : doc'[r].kind = doc[r].kind /\ doc'[r].lines = doc[r].lines
  PROVE  IInv'
<1>1. Progress(n, booked')
  OBVIOUS
<1>2. \A r \in Refs : doc'[r].kind # "none" => Of(doc'[r].lines) \subseteq booked'[r]
  BY DEF IInv, DocumentsBooked
<1> QED
  BY <1>1, <1>2, OwnStep

\* A request that arrives has all its lines to do.
LEMMA AcceptIInv ==
  ASSUME IInv, TypeInv', NEW c \in Calls, NEW k \in Call, Accept(c, k),
         k.pc \in {"check", "read", "write", "writeCard"}, UNCHANGED <<booked, doc>>
  PROVE  IInv'
<1>1. PICK ref \in Refs :
        call' = [call EXCEPT ![c] = [k EXCEPT !.ref = ref, !.todo = Of(k.lines)]]
  BY AcceptNumber DEF IInv
<1> DEFINE n == [k EXCEPT !.ref = ref, !.todo = Of(k.lines)]
<1>2. n \in Call /\ Progress(n, booked)
  <2>1. ref \in 0..MaxCalls /\ Of(k.lines) \in SUBSET Products
    BY PosStockAssumption DEF Refs, Of
  <2> QED
    BY <2>1 DEF Call, Progress
<1>3. call' = [call EXCEPT ![c] = n] /\ booked' = booked
  BY <1>1
<1> HIDE DEF n
<1> QED
  BY <1>2, <1>3, QuietStep

\* The arrival of a request keeps stored documents booked,
LEMMA RequestIInv ==
  ASSUME IInv, TypeInv', NEW c \in Calls,
         \/ \E lines \in Lines, card \in BOOLEAN : SaleRequest(c, lines, card)
         \/ \E lines \in Lines, of \in 0..MaxCalls : ReturnRequest(c, lines, of)
         \/ \E kind \in Kind, p \in Products, q \in 1..MaxQty : TransferRequest(c, kind, p, q)
         \/ SettingsRequest(c)
  PROVE  IInv'
<1> USE IdleType
<1>1. ASSUME NEW lines \in Lines, NEW card \in BOOLEAN, SaleRequest(c, lines, card)
      PROVE  IInv'
  <2> DEFINE k == [Idle EXCEPT !.pc = "check", !.lines = lines, !.card = card]
  <2>1. k \in Call /\ k.pc = "check" /\ Accept(c, k)
    BY <1>1 DEF SaleRequest, Call, Pc, Idle
  <2>2. UNCHANGED <<booked, doc>>
    BY <1>1 DEF SaleRequest
  <2> HIDE DEF k
  <2> QED
    BY <2>1, <2>2, AcceptIInv
<1>2. ASSUME NEW lines \in Lines, NEW of \in 0..MaxCalls, ReturnRequest(c, lines, of)
      PROVE  IInv'
  <2>1. PICK cov \in {"none", "partial", "full"} :
          Accept(c, [Idle EXCEPT !.pc = "read", !.kind = "return", !.lines = lines,
                                 !.of = of, !.coverage = cov])
    BY <1>2 DEF ReturnRequest
  <2> DEFINE k == [Idle EXCEPT !.pc = "read", !.kind = "return", !.lines = lines,
                               !.of = of, !.coverage = cov]
  <2>2. k \in Call /\ k.pc = "read" /\ Accept(c, k)
    BY <2>1 DEF Call, Pc, Kind, Idle
  <2>3. UNCHANGED <<booked, doc>>
    BY <1>2 DEF ReturnRequest
  <2> HIDE DEF k
  <2> QED
    BY <2>2, <2>3, AcceptIInv
<1>3. ASSUME NEW kind \in Kind, NEW p \in Products, NEW q \in 1..MaxQty,
             TransferRequest(c, kind, p, q)
      PROVE  IInv'
  <2> DEFINE k == [Idle EXCEPT !.pc = "write", !.kind = kind, !.p = p, !.seen = stock[p],
                               !.lines = [NoLines EXCEPT ![p] = q]]
  <2>1. [NoLines EXCEPT ![p] = q] \in Lines /\ stock[p] \in StockRow
    BY <1>3, PosStockAssumption DEF Lines, IInv, TypeInv, TypeOK
  <2>2. k \in Call /\ k.pc = "write" /\ Accept(c, k)
    BY <1>3, <2>1 DEF TransferRequest, Call, Pc, Idle
  <2>3. UNCHANGED <<booked, doc>>
    BY <1>3 DEF TransferRequest
  <2> HIDE DEF k
  <2> QED
    BY <2>2, <2>3, AcceptIInv
<1>4. ASSUME SettingsRequest(c) PROVE IInv'
  <2> DEFINE k == [Idle EXCEPT !.pc = "writeCard", !.kind = "settings", !.used = used]
  <2>1. used \in Nat
    BY PosStockAssumption DEF IInv, TypeInv, TypeOK
  <2>2. k \in Call /\ k.pc = "writeCard" /\ Accept(c, k)
    BY <1>4, <2>1 DEF SettingsRequest, Call, Pc, Kind, Idle
  <2>3. UNCHANGED <<booked, doc>>
    BY <1>4 DEF SettingsRequest
  <2> HIDE DEF k
  <2> QED
    BY <2>2, <2>3, AcceptIInv
<1> QED
  BY <1>1, <1>2, <1>3, <1>4

\* ... and so does each of its steps.
LEMMA StepIInv ==
  ASSUME IInv, TypeInv', NEW c \in Calls,
         \/ \E p \in Products :
              CheckLine(c, p) \/ ReadStock(c, p) \/ StoreItem(c, p) \/ MarkItem(c, p)
         \/ CheckCard(c) \/ WriteStock(c) \/ LogStock(c) \/ StoreDoc(c)
         \/ MarkRead(c) \/ MarkWrite(c) \/ MarkDelete(c)
         \/ ReadCard(c) \/ WriteCard(c) \/ Stop(c)
  PROVE  IInv'
<1> DEFINE k == call[c]
<1>k. /\ k \in Call /\ Progress(k, booked) /\ call \in [Calls -> Call]
      /\ doc \in [Refs -> Doc] /\ booked \in [Refs -> SUBSET Products]
      /\ \A r \in Refs : doc[r].kind # "none" => Of(doc[r].lines) \subseteq booked[r]
  BY DEF IInv, TypeInv, TypeOK, Booking, DocumentsBooked
<1> USE IdleType
<1>i. Progress(Idle, booked)
  BY DEF Idle, Progress
\* Most steps leave documents and movements alone.
<1>0. ASSUME NEW n \in Call, call' = [call EXCEPT ![c] = n], UNCHANGED <<booked, doc>>,
             Progress(n, booked)
      PROVE  IInv'
  BY <1>0, QuietStep
<1>1. ASSUME NEW p \in Products, CheckLine(c, p) PROVE IInv'
  <2> DEFINE n1 == [k EXCEPT !.todo = k.todo \ {p}]
             n2 == [k EXCEPT !.todo = Of(k.lines), !.pc = IF k.card THEN "card" ELSE "read"]
  <2>1. n1 \in Call /\ Progress(n1, booked) /\ n2 \in Call /\ Progress(n2, booked)
    BY <1>1, <1>k DEF CheckLine, At, Progress, Call, Pc, Of
  <2>2. \/ call' = [call EXCEPT ![c] = Idle] \/ call' = [call EXCEPT ![c] = n1]
        \/ call' = [call EXCEPT ![c] = n2]
    BY <1>1 DEF CheckLine, Done
  <2>3. UNCHANGED <<booked, doc>>
    BY <1>1 DEF CheckLine
  <2> HIDE DEF n1, n2
  <2> QED
    BY <2>1, <2>2, <2>3, <1>0, <1>i
<1>2. ASSUME NEW p \in Products, ReadStock(c, p) PROVE IInv'
  <2> DEFINE n == [k EXCEPT !.pc = "write", !.p = p, !.seen = stock[p]]
  <2>0. stock[p] \in StockRow
    BY DEF IInv, TypeInv, TypeOK
  <2>1. n \in Call /\ call' = [call EXCEPT ![c] = n] /\ UNCHANGED <<booked, doc>>
    BY <1>2, <1>k, <2>0 DEF ReadStock, Call, Pc
  <2>2. Progress(n, booked)
    BY <1>2, <1>k DEF ReadStock, At, Progress, Call
  <2> HIDE DEF n
  <2> QED
    BY <2>1, <2>2, <1>0
<1>3. CASE CheckCard(c)
  <2> DEFINE n == [k EXCEPT !.pc = "read"]
  <2>1. n \in Call /\ Progress(n, booked)
    BY <1>3, <1>k DEF CheckCard, At, Progress, Call, Pc
  <2>2. call' = [call EXCEPT ![c] = Idle] \/ call' = [call EXCEPT ![c] = n]
    BY <1>3 DEF CheckCard, Goto, Done
  <2>3. UNCHANGED <<booked, doc>>
    BY <1>3 DEF CheckCard
  <2> HIDE DEF n
  <2> QED
    BY <2>1, <2>2, <2>3, <1>0, <1>i
<1>4. CASE WriteStock(c)
  <2> DEFINE n == [k EXCEPT !.pc = "log"]
  <2>1. n \in Call /\ call' = [call EXCEPT ![c] = n] /\ UNCHANGED <<booked, doc>>
    BY <1>4, <1>k DEF WriteStock, Goto, Call, Pc
  <2>2. Progress(n, booked)
    BY <1>4, <1>k DEF WriteStock, At, Progress, Call
  <2> HIDE DEF n
  <2> QED
    BY <2>1, <2>2, <1>0
<1>5. CASE LogStock(c)
  <2> DEFINE n1 == [k EXCEPT !.pc = "read", !.todo = LinesLeft(k)]
             n2 == [k EXCEPT !.pc = "store"]
  <2>1. n1 \in Call /\ n2 \in Call
    BY <1>5, <1>k DEF Call, Pc, LinesLeft
  <2>2. k.ref \in Refs /\ Of(k.lines) \ k.todo \subseteq booked[k.ref]
    BY <1>5, <1>k DEF LogStock, At, Progress
  <2>3. booked' = [booked EXCEPT ![k.ref] = @ \cup {k.p}] /\ doc' = doc
    BY <1>5 DEF LogStock
  <2>4. Of(k.lines) \ LinesLeft(k) \subseteq booked'[k.ref]
    BY <2>2, <2>3, <1>k DEF LinesLeft
  <2>5. Progress(n1, booked') /\ (LinesLeft(k) = {} => Progress(n2, booked'))
    BY <2>2, <2>4, <1>k DEF Progress, Call
  <2>6. \/ call' = [call EXCEPT ![c] = Idle]
        \/ call' = [call EXCEPT ![c] = n1]
        \/ LinesLeft(k) = {} /\ call' = [call EXCEPT ![c] = n2]
    BY <1>5 DEF LogStock, Goto, Done, AfterLastLog
  <2>7. \A r \in Refs : booked[r] \subseteq booked'[r]
    BY <2>3, <1>k
  <2>8. \A r \in Refs : doc'[r].kind # "none" => Of(doc'[r].lines) \subseteq booked'[r]
    BY <2>3, <2>7, <1>k
  <2>9. Progress(Idle, booked')
    BY DEF Idle, Progress
  <2> HIDE DEF n1, n2
  <2> QED
    BY <2>1, <2>5, <2>6, <2>7, <2>8, <2>9, OwnStep
\* Only here a document gets its kind and its lines.
<1>6. CASE StoreDoc(c)
  <2> DEFINE n == [k EXCEPT !.pc = "items", !.todo = Of(k.lines)]
             row == [kind |-> k.kind, lines |-> k.lines, items |-> {}, card |-> k.card,
                     of |-> k.of, coverage |-> "none"]
  <2>1. k.ref \in Refs /\ Of(k.lines) \subseteq booked[k.ref] /\ row.lines = k.lines
    BY <1>6, <1>k DEF StoreDoc, At, Progress
  <2>2. n \in Call /\ Progress(n, booked)
    BY <2>1, <1>k DEF Progress, Call, Pc, Of
  <2>3. /\ booked' = booked
        /\ \/ UNCHANGED doc /\ call' = [call EXCEPT ![c] = Idle]
           \/ doc' = [doc EXCEPT ![k.ref] = row] /\ call' = [call EXCEPT ![c] = n]
    BY <1>6 DEF StoreDoc, Broken, Done
  <2> HIDE DEF n, row
  <2>4. \A r \in Refs : doc'[r].kind # "none" => Of(doc'[r].lines) \subseteq booked'[r]
    BY <2>1, <2>3, <1>k
  <2> QED
    BY <2>2, <2>3, <2>4, <1>i, OwnStep
<1>7. ASSUME NEW p \in Products, StoreItem(c, p) PROVE IInv'
  <2> DEFINE n1 == [k EXCEPT !.todo = k.todo \ {p}]
             n2 == [k EXCEPT !.pc = "readCard"]
             n3 == [k EXCEPT !.pc = "mark"]
  <2>1. /\ n1 \in Call /\ Progress(n1, booked) /\ n2 \in Call /\ Progress(n2, booked)
        /\ n3 \in Call /\ Progress(n3, booked)
    BY <1>7, <1>k DEF StoreItem, At, Progress, Call, Pc
  <2>2. \/ call' = [call EXCEPT ![c] = Idle] \/ call' = [call EXCEPT ![c] = n1]
        \/ call' = [call EXCEPT ![c] = n2] \/ call' = [call EXCEPT ![c] = n3]
    BY <1>7 DEF StoreItem, Goto, Done
  <2>3. /\ booked' = booked
        /\ \A r \in Refs : doc'[r].kind = doc[r].kind /\ doc'[r].lines = doc[r].lines
    BY <1>7, <1>k DEF StoreItem, Doc
  <2> HIDE DEF n1, n2, n3
  <2> QED
    BY <2>1, <2>2, <2>3, <1>i, QuietStep
<1>8. CASE MarkRead(c)
  <2> DEFINE n == [k EXCEPT !.pc = "markWrite", !.todo = doc[k.of].items]
  <2>1. call' = [call EXCEPT ![c] = n] /\ UNCHANGED <<booked, doc>>
    BY <1>8 DEF MarkRead
  <2>2. n \in Call
    <3>1. call'[c] = n /\ call'[c] \in Call
      BY <2>1, <1>k DEF TypeInv, TypeOK
    <3> QED
      BY <3>1
  <2>3. Progress(n, booked)
    BY <1>8, <1>k DEF MarkRead, At, Progress, Call
  <2> HIDE DEF n
  <2> QED
    BY <2>1, <2>2, <2>3, <1>0
<1>9. CASE MarkWrite(c)
  <2> DEFINE n == [k EXCEPT !.pc = "markDelete"]
  <2>1. n \in Call /\ Progress(n, booked) /\ call' = [call EXCEPT ![c] = n]
    BY <1>9, <1>k DEF MarkWrite, Goto, At, Progress, Call, Pc
  <2>2. /\ booked' = booked
        /\ \A r \in Refs : doc'[r].kind = doc[r].kind /\ doc'[r].lines = doc[r].lines
    BY <1>9, <1>k DEF MarkWrite, Doc
  <2> HIDE DEF n
  <2> QED
    BY <2>1, <2>2, QuietStep
<1>10. CASE MarkDelete(c)
  <2> DEFINE n == [k EXCEPT !.pc = "markItems"]
  <2>1. /\ n \in Call /\ Progress(n, booked)
        /\ call' = [call EXCEPT ![c] = n] \/ call' = [call EXCEPT ![c] = Idle]
    BY <1>10, <1>k DEF MarkDelete, Goto, Done, At, Progress, Call, Pc
  <2>2. /\ booked' = booked
        /\ \A r \in Refs : doc'[r].kind = doc[r].kind /\ doc'[r].lines = doc[r].lines
    BY <1>10, <1>k DEF MarkDelete, Doc
  <2> HIDE DEF n
  <2> QED
    BY <2>1, <2>2, <1>i, QuietStep
<1>11. ASSUME NEW p \in Products, MarkItem(c, p) PROVE IInv'
  <2> DEFINE n == [k EXCEPT !.todo = @ \ {p}]
  <2>1. /\ n \in Call /\ Progress(n, booked)
        /\ call' = [call EXCEPT ![c] = n] \/ call' = [call EXCEPT ![c] = Idle]
    BY <1>11, <1>k DEF MarkItem, Done, At, Progress, Call
  <2>2. /\ booked' = booked
        /\ \A r \in Refs : doc'[r].kind = doc[r].kind /\ doc'[r].lines = doc[r].lines
    BY <1>11, <1>k DEF MarkItem, Doc
  <2> HIDE DEF n
  <2> QED
    BY <2>1, <2>2, <1>i, QuietStep
<1>12. CASE ReadCard(c)
  <2> DEFINE n == [k EXCEPT !.pc = "writeCard", !.used = used]
  <2>1. used \in Nat
    BY PosStockAssumption DEF IInv, TypeInv, TypeOK
  <2>2. n \in Call /\ call' = [call EXCEPT ![c] = n] /\ UNCHANGED <<booked, doc>>
    BY <1>12, <1>k, <2>1 DEF ReadCard, Call, Pc
  <2>3. Progress(n, booked)
    BY <1>12, <1>k DEF ReadCard, At, Progress, Call
  <2> HIDE DEF n
  <2> QED
    BY <2>2, <2>3, <1>0
<1>13. CASE WriteCard(c) \/ Stop(c)
  <2>1. UNCHANGED <<booked, doc>> /\ call' = [call EXCEPT ![c] = Idle]
    BY <1>13 DEF WriteCard, Stop, Broken, Done
  <2> QED
    BY <2>1, <1>0, <1>i
<1> QED
  BY <1>1, <1>2, <1>3, <1>4, <1>5, <1>6, <1>7, <1>8, <1>9, <1>10, <1>11, <1>12, <1>13

\* That documents are booked is inductive.
LEMMA NextIInv == IInv /\ [Next]_vars => IInv'
<1> SUFFICES ASSUME IInv, [Next]_vars PROVE IInv'
  OBVIOUS
<1>1. TypeInv'
  BY NextTypeInv DEF IInv
<1>2. CASE Next
  BY <1>1, <1>2, RequestIInv, StepIInv DEF Next
<1>3. CASE UNCHANGED vars
  BY <1>1, <1>3 DEF vars, IInv, Booking, DocumentsBooked
<1> QED
  BY <1>2, <1>3

\* Every stored sale and return has the stock movements of all its lines, also
\* when requests interleave, stop half-way or draw the same number.
THEOREM DocumentsAreBooked == Spec => []DocumentsBooked
<1>1. IInv => DocumentsBooked
  BY DEF IInv
<1> QED
  BY <1>1, InitIInv, NextIInv, PTL DEF Spec

-----------------------------------------------------------------------------
(***************************************************************************)
(* What the steps do, each to one request: the invariants below are proved *)
(* from this list.                                                         *)
(***************************************************************************)

Marking == {"mark", "markWrite", "markDelete", "markItems"}
Transfers == {"toShelf", "toDepot"}

\* Which kind of request is where, and what a transfer that is about to write has checked.
Shape(k) ==
  k.pc # "idle" =>
    /\ k.ref \in Refs
    /\ k.of # 0 => k.kind = "return"
    /\ k.card => k.kind = "sale"
    /\ k.pc \in {"check", "card"} => k.kind = "sale"
    /\ k.pc \in {"read", "store", "items"} => k.kind \in {"sale", "return"}
    /\ k.pc \in {"write", "log"} => k.kind \in {"sale", "return"} \cup Transfers
    /\ k.pc \in {"write", "log"} => k.p \in Products
    /\ k.pc \in {"write", "log"} /\ k.kind \in Transfers => k.todo \subseteq {k.p}
    /\ k.pc \in Marking => k.of \in Refs
    /\ k.pc = "readCard" => k.card
    /\ k.pc = "writeCard" /\ k.kind # "settings" => k.card
    /\ k.pc = "write" /\ k.kind = "toShelf" => k.lines[k.p] <= k.seen.depot
    /\ k.pc = "write" /\ k.kind = "toDepot" => k.lines[k.p] <= k.seen.shelf
Shapes == \A c \in Calls : Shape(call[c])

\* The request after a step is the same one.
Same(k, n) ==
  /\ n.kind = k.kind /\ n.ref = k.ref /\ n.lines = k.lines /\ n.card = k.card
  /\ n.of = k.of /\ n.coverage = k.coverage

\* A return with a receipt arrives: the sale has room for it, what it will mark is right
\* for what it has read, and it is not alone or reads too little only if that is noted.
Granted(s, k) ==
  /\ s \in Refs /\ doc[s].kind = "sale" /\ WithinSale(s, k.lines)
  /\ k.coverage = "full" => Full(s, [p \in Products |-> Returned(s)[p] + k.lines[p]])
  /\ s \in raced' \/ \A d \in Calls : call[d].pc = "idle" \/ call[d].kind # "return"
                                            \/ call[d].of # s
  /\ s \in partial' \/ doc[s].items = Of(doc[s].lines)

Arrives(k, n) ==
  /\ k.pc = "idle" /\ n.ref \in Refs
  /\ UNCHANGED <<stock, doc, used, net, strayed>> /\ raced \subseteq raced'
  /\ \/ n.kind = "sale" /\ n.pc = "check" /\ n.of = 0
     \/ n.kind = "return" /\ n.pc = "read" /\ ~n.card /\ (n.of # 0 => Granted(n.of, n))
     \/ /\ n.kind \in Transfers /\ n.pc = "write" /\ n.of = 0 /\ ~n.card
        /\ n.p \in Products /\ n.todo \subseteq {n.p} /\ n.seen = stock[n.p]
        /\ n.kind = "toShelf" => n.lines[n.p] <= n.seen.depot
        /\ n.kind = "toDepot" => n.lines[n.p] <= n.seen.shelf
     \/ n.kind = "settings" /\ n.pc = "writeCard" /\ n.of = 0 /\ ~n.card /\ n.used = used

Moves(k, n) ==
  /\ Same(k, n) /\ UNCHANGED <<stock, doc, used, net, strayed, raced>>
  /\ \/ k.pc = "check" /\ (n.pc \in {"check", "read"} \/ (n.pc = "card" /\ k.card))
     \/ k.pc = "card" /\ n.pc = "read"
     \/ k.pc = "read" /\ n.pc = "write" /\ n.p \in Products /\ n.seen = stock[n.p]
     \/ k.pc = "mark" /\ n.pc = "markWrite"
     \/ k.pc = "readCard" /\ n.pc = "writeCard" /\ n.used = used

Ends(k, n) ==
  /\ k.pc # "idle" /\ n.pc = "idle" /\ UNCHANGED <<stock, doc, used, net, raced>>
  /\ strayed \subseteq strayed' /\ (k.pc = "log" => k.p \in strayed')

Writes(k, n) ==
  /\ k.pc = "write" /\ n.pc = "log" /\ Same(k, n) /\ n.p = k.p /\ n.todo = k.todo
  /\ stock' = [stock EXCEPT ![k.p] = AfterLine(k.kind, k.seen, k.lines[k.p])]
  /\ strayed \subseteq strayed'
  /\ k.p \notin strayed' => stock[k.p] = k.seen /\ ~(k.kind = "sale" /\ k.lines[k.p] > k.seen.shelf)
  /\ UNCHANGED <<doc, used, net, raced>>

Logs(k, n) ==
  /\ k.pc = "log" /\ net' = [net EXCEPT ![k.p] = @ + Delta(k)]
  /\ n.pc = "idle" \/ (Same(k, n) /\ n.pc \in {"read", "store"} /\ k.kind \in {"sale", "return"})
  /\ UNCHANGED <<stock, doc, used, strayed, raced>>

Stores(k, n) ==
  /\ k.pc = "store" /\ n.pc = "items" /\ Same(k, n) /\ n.todo = Of(k.lines)
  /\ doc[k.ref].kind = "none"
  /\ doc' = [doc EXCEPT ![k.ref] = [kind |-> k.kind, lines |-> k.lines, items |-> {},
                                    card |-> k.card, of |-> k.of, coverage |-> "none"]]
  /\ UNCHANGED <<stock, used, net, strayed, raced>>

Adds(k, n, p) ==
  /\ k.pc = "items" /\ p \in k.todo
  /\ doc' = [doc EXCEPT ![k.ref].items = @ \cup {p}]
  /\ \/ n.pc = "idle" /\ ~k.card
     \/ Same(k, n) /\ n.pc = "items" /\ n.todo = k.todo \ {p}
     \/ Same(k, n) /\ n.pc = "readCard" /\ k.card
     \/ Same(k, n) /\ n.pc = "mark" /\ k.todo = {p} /\ k.of # 0
  /\ UNCHANGED <<stock, used, net, strayed, raced>>

Marks(k, n) ==
  /\ k.pc \in Marking /\ k.of \in Refs
  /\ n.pc = "idle" \/ (Same(k, n) /\ n.pc \in Marking)
  /\ \E row \in Doc :
       /\ row.kind = doc[k.of].kind /\ row.lines = doc[k.of].lines
       /\ row.card = doc[k.of].card /\ row.of = doc[k.of].of
       /\ row.coverage = doc[k.of].coverage \/ (k.pc = "markWrite" /\ row.coverage = k.coverage)
       /\ doc' = [doc EXCEPT ![k.of] = row]
  /\ UNCHANGED <<stock, used, net, strayed, raced>>

Counts(k, n) ==
  /\ k.pc = "writeCard" /\ n.pc = "idle" /\ used' = Counted(k)
  /\ UNCHANGED <<stock, doc, net, strayed, raced>>

Turn(k, n) ==
  \/ Arrives(k, n) \/ Moves(k, n) \/ Ends(k, n) \/ Writes(k, n) \/ Logs(k, n) \/ Stores(k, n)
  \/ (\E p \in Products : Adds(k, n, p)) \/ Marks(k, n) \/ Counts(k, n)

\* A step is the turn of one request.
OneTurn ==
  /\ UNCHANGED start /\ partial \subseteq partial'
  /\ \E c \in Calls : /\ \A d \in Calls \ {c} : call'[d] = call[d]
                      /\ Turn(call[c], call'[c])

\* What a request that arrives is.
LEMMA ArrivalIs ==
  ASSUME TypeInv, NEW c \in Calls, NEW k \in Call, Accept(c, k)
  PROVE  \E ref \in Refs :
           /\ call'[c] = [k EXCEPT !.ref = ref, !.todo = Of(k.lines)]
           /\ \A d \in Calls \ {c} : call'[d] = call[d]
<1>1. PICK ref \in Refs :
        call' = [call EXCEPT ![c] = [k EXCEPT !.ref = ref, !.todo = Of(k.lines)]]
  BY AcceptNumber
<1>2. call \in [Calls -> Call]
  BY DEF TypeInv, TypeOK
<1> QED
  BY <1>1, <1>2

\* The arrival of a request is in the list,
LEMMA RequestTurn ==
  ASSUME TypeInv, NEW c \in Calls,
         \/ \E lines \in Lines, card \in BOOLEAN : SaleRequest(c, lines, card)
         \/ \E lines \in Lines, of \in 0..MaxCalls : ReturnRequest(c, lines, of)
         \/ \E kind \in Kind, p \in Products, q \in 1..MaxQty : TransferRequest(c, kind, p, q)
         \/ SettingsRequest(c)
  PROVE  (\A d \in Calls \ {c} : call'[d] = call[d]) /\ Arrives(call[c], call'[c])
<1> DEFINE n == call'[c]
<1>0. call[c] \in Call
  BY DEF TypeInv, TypeOK
<1>1. ASSUME NEW lines \in Lines, NEW card \in BOOLEAN, SaleRequest(c, lines, card)
      PROVE  (\A d \in Calls \ {c} : call'[d] = call[d]) /\ Arrives(call[c], n)
  <2> PICK k : k = [Idle EXCEPT !.pc = "check", !.lines = lines, !.card = card]
    OBVIOUS
  <2>1. k \in Call /\ k.pc = "check" /\ k.kind = "sale" /\ k.of = 0
    BY IdleType DEF Call, Pc, Idle
  <2>2. Accept(c, k) /\ At(c, "idle") /\ UNCHANGED <<stock, doc, used, ghosts>>
    BY <1>1 DEF SaleRequest
  <2>3. PICK ref \in Refs : /\ n = [k EXCEPT !.ref = ref, !.todo = Of(k.lines)]
                            /\ \A d \in Calls \ {c} : call'[d] = call[d]
    BY <2>1, <2>2, ArrivalIs
  <2>4. n.pc = "check" /\ n.kind = "sale" /\ n.of = 0 /\ n.ref \in Refs
    BY <2>1, <2>3 DEF Call
  <2> HIDE DEF n
  <2> QED
    BY <2>2, <2>3, <2>4 DEF Arrives, At, ghosts
<1>2. ASSUME NEW lines \in Lines, NEW of \in 0..MaxCalls, ReturnRequest(c, lines, of)
      PROVE  (\A d \in Calls \ {c} : call'[d] = call[d]) /\ Arrives(call[c], n)
  <2> PICK after : after = [p \in Products |-> Returned(of)[p] + lines[p]]
    OBVIOUS
  <2> PICK cov : cov = IF of = 0 THEN "none" ELSE IF Full(of, after) THEN "full" ELSE "partial"
    OBVIOUS
  <2> PICK k : k = [Idle EXCEPT !.pc = "read", !.kind = "return", !.lines = lines,
                                !.of = of, !.coverage = cov]
    OBVIOUS
  <2>1. /\ k \in Call /\ k.pc = "read" /\ k.kind = "return" /\ k.of = of /\ k.lines = lines
        /\ k.coverage = cov /\ ~k.card
    BY IdleType DEF Call, Pc, Kind, Idle
  <2>2. Accept(c, k) /\ At(c, "idle") /\ UNCHANGED <<stock, doc, used, net, strayed>>
    BY <1>2 DEF ReturnRequest
  <2>3. PICK ref \in Refs : /\ n = [k EXCEPT !.ref = ref, !.todo = Of(k.lines)]
                            /\ \A d \in Calls \ {c} : call'[d] = call[d]
    BY <2>1, <2>2, ArrivalIs
  <2>4. /\ n.pc = "read" /\ n.kind = "return" /\ n.of = of /\ n.ref \in Refs /\ ~n.card
        /\ n.lines = lines /\ n.coverage = cov
    <3>1. /\ n.pc = k.pc /\ n.kind = k.kind /\ n.of = k.of /\ n.ref = ref
          /\ n.lines = k.lines /\ n.coverage = k.coverage /\ n.card = k.card
      <4> HIDE DEF n
      <4> QED
        BY <2>1, <2>3 DEF Call
    <3> HIDE DEF n
    <3> QED
      BY <2>1, <3>1
  <2> HIDE DEF n
  <2>5. /\ raced' = raced \cup {s \in {of} \cap Refs :
              \E d \in Calls : ~At(d, "idle") /\ call[d].kind = "return" /\ call[d].of = s}
        /\ partial' = partial \cup {s \in {of} \cap Refs : doc[s].items # Of(doc[s].lines)}
    BY <1>2 DEF ReturnRequest
  <2>6. of # 0 => Granted(of, n)
    <3> SUFFICES ASSUME of # 0 PROVE Granted(of, n)
      OBVIOUS
    <3>1. of \in Refs
      BY PosStockAssumption DEF Refs
    <3>2. doc[of].kind = "sale" /\ WithinSale(of, lines)
      BY <1>2 DEF ReturnRequest
    <3>3. cov = "full" => Full(of, after)
      OBVIOUS
    <3>4. of \in raced' \/ \A d \in Calls : call[d].pc = "idle" \/ call[d].kind # "return"
                                                  \/ call[d].of # of
      BY <2>5, <3>1 DEF At
    <3>5. of \in partial' \/ doc[of].items = Of(doc[of].lines)
      BY <2>5, <3>1
    <3> QED
      BY <2>4, <3>1, <3>2, <3>3, <3>4, <3>5 DEF Granted
  <2>7. raced \subseteq raced'
    BY <2>5
  <2> QED
    BY <2>2, <2>3, <2>4, <2>6, <2>7 DEF Arrives, At
<1>3. ASSUME NEW kind \in Kind, NEW p \in Products, NEW q \in 1..MaxQty,
             TransferRequest(c, kind, p, q)
      PROVE  (\A d \in Calls \ {c} : call'[d] = call[d]) /\ Arrives(call[c], n)
  <2> PICK lines : lines = [NoLines EXCEPT ![p] = q]
    OBVIOUS
  <2> PICK k : k = [Idle EXCEPT !.pc = "write", !.kind = kind, !.p = p, !.seen = stock[p],
                                !.lines = lines]
    OBVIOUS
  <2>1. lines \in Lines /\ lines[p] = q /\ Of(lines) \subseteq {p} /\ stock[p] \in StockRow
    BY PosStockAssumption DEF Lines, NoLines, Of, TypeInv, TypeOK
  <2>2. /\ k \in Call /\ k.pc = "write" /\ k.kind = kind /\ k.of = 0 /\ k.lines = lines
        /\ k.p = p /\ k.seen = stock[p] /\ ~k.card
    BY <2>1, IdleType DEF Call, Pc, Idle
  <2>3. /\ Accept(c, k) /\ At(c, "idle") /\ UNCHANGED <<stock, doc, used, ghosts>>
        /\ kind \in Transfers /\ q <= IF kind = "toShelf" THEN stock[p].depot ELSE stock[p].shelf
    BY <1>3 DEF TransferRequest, Transfers
  <2>a. k \in Call /\ Accept(c, k)
    BY <2>2, <2>3
  <2>4. PICK ref \in Refs : /\ n = [k EXCEPT !.ref = ref, !.todo = Of(k.lines)]
                            /\ \A d \in Calls \ {c} : call'[d] = call[d]
    BY <2>a, ArrivalIs
  <2>5. /\ n.pc = "write" /\ n.kind = kind /\ n.of = 0 /\ n.ref \in Refs /\ ~n.card
        /\ n.lines = lines /\ n.p = p /\ n.seen = stock[p] /\ n.todo = Of(lines)
    BY <2>2, <2>4 DEF Call
  <2> HIDE DEF n
  <2> QED
    BY <2>1, <2>3, <2>4, <2>5 DEF Arrives, At, ghosts, Transfers
<1>4. ASSUME SettingsRequest(c)
      PROVE  (\A d \in Calls \ {c} : call'[d] = call[d]) /\ Arrives(call[c], n)
  <2> PICK k : k = [Idle EXCEPT !.pc = "writeCard", !.kind = "settings", !.used = used]
    OBVIOUS
  <2>1. used \in Nat
    BY PosStockAssumption DEF TypeInv, TypeOK
  <2>2. k \in Call /\ k.pc = "writeCard" /\ k.kind = "settings" /\ k.of = 0 /\ ~k.card /\ k.used = used
    BY <2>1, IdleType DEF Call, Pc, Kind, Idle
  <2>3. Accept(c, k) /\ At(c, "idle") /\ UNCHANGED <<stock, doc, used, ghosts>>
    BY <1>4 DEF SettingsRequest
  <2>4. PICK ref \in Refs : /\ n = [k EXCEPT !.ref = ref, !.todo = Of(k.lines)]
                            /\ \A d \in Calls \ {c} : call'[d] = call[d]
    BY <2>2, <2>3, ArrivalIs
  <2>5. /\ n.pc = "writeCard" /\ n.kind = "settings" /\ n.of = 0 /\ n.ref \in Refs /\ ~n.card
        /\ n.used = used
    BY <2>2, <2>4 DEF Call
  <2> HIDE DEF n
  <2> QED
    BY <2>3, <2>4, <2>5 DEF Arrives, At, ghosts
<1> QED
  BY <1>1, <1>2, <1>3, <1>4


\* ... each of its steps is,
LEMMA StepTurn ==
  ASSUME TypeInv, Shapes, NEW c \in Calls,
         \/ \E p \in Products :
              CheckLine(c, p) \/ ReadStock(c, p) \/ StoreItem(c, p) \/ MarkItem(c, p)
         \/ CheckCard(c) \/ WriteStock(c) \/ LogStock(c) \/ StoreDoc(c)
         \/ MarkRead(c) \/ MarkWrite(c) \/ MarkDelete(c)
         \/ ReadCard(c) \/ WriteCard(c) \/ Stop(c)
  PROVE  (\A d \in Calls \ {c} : call'[d] = call[d]) /\ Turn(call[c], call'[c])
<1> PICK k : k = call[c]
  OBVIOUS
<1> PICK n : n = call'[c]
  OBVIOUS
<1>k. /\ k \in Call /\ Shape(k) /\ call \in [Calls -> Call] /\ StageFits(k)
      /\ doc \in [Refs -> Doc]
  BY DEF TypeInv, TypeOK, Shapes, StagesFit
\* A step sets one request, most often to Idle or to another stage.
<1>g. ASSUME NEW m, call' = [call EXCEPT ![c] = m]
      PROVE  n = m /\ \A d \in Calls \ {c} : call'[d] = call[d]
  BY <1>g, <1>k
<1>d. Done(c) => n.pc = "idle" /\ \A d \in Calls \ {c} : call'[d] = call[d]
  <2>1. Idle.pc = "idle"
    BY DEF Idle
  <2> QED
    BY <2>1, <1>g DEF Done
<1>o. ASSUME NEW pc, Goto(c, pc)
      PROVE  /\ n.pc = pc /\ Same(k, n) /\ n.p = k.p /\ n.todo = k.todo
             /\ \A d \in Calls \ {c} : call'[d] = call[d]
  <2> PICK m : m = [k EXCEPT !.pc = pc]
    OBVIOUS
  <2>1. call' = [call EXCEPT ![c] = m]
    BY <1>o DEF Goto
  <2>2. m.pc = pc /\ Same(k, m) /\ m.p = k.p /\ m.todo = k.todo
    BY <1>k DEF Call, Same
  <2> QED
    BY <2>1, <2>2, <1>g
<1> DEFINE Result == (\A d \in Calls \ {c} : call'[d] = call[d]) /\ Turn(k, n)
<1>1. ASSUME NEW p \in Products, CheckLine(c, p) PROVE Result
  <2>0. k.pc = "check" /\ UNCHANGED <<stock, doc, used, net, strayed, raced>>
    BY <1>1 DEF CheckLine, At, ghosts
  <2>1. CASE Done(c)
    BY <2>0, <2>1, <1>d DEF Turn, Ends
  <2>2. CASE call' = [call EXCEPT ![c].todo = call[c].todo \ {p}]
    <3> PICK m : m = [k EXCEPT !.todo = k.todo \ {p}]
      OBVIOUS
    <3>1. call' = [call EXCEPT ![c] = m] /\ m.pc = k.pc /\ Same(k, m)
      BY <2>2, <1>k DEF Call, Same
    <3>2. n = m /\ \A d \in Calls \ {c} : call'[d] = call[d]
      BY <3>1, <1>g
    <3> QED
      BY <2>0, <3>1, <3>2 DEF Turn, Moves
  <2>3. CASE call' = [call EXCEPT ![c].todo = Of(call[c].lines),
                                  ![c].pc = IF call[c].card THEN "card" ELSE "read"]
    <3> PICK m : m = [k EXCEPT !.todo = Of(k.lines), !.pc = IF k.card THEN "card" ELSE "read"]
      OBVIOUS
    <3>1. call' = [call EXCEPT ![c] = m]
      BY <2>3
    <3>2. m.pc = (IF k.card THEN "card" ELSE "read") /\ Same(k, m)
      BY <1>k DEF Call, Same
    <3>3. n = m /\ \A d \in Calls \ {c} : call'[d] = call[d]
      BY <3>1, <1>g
    <3> QED
      BY <2>0, <3>2, <3>3 DEF Turn, Moves
  <2> QED
    BY <1>1, <2>1, <2>2, <2>3 DEF CheckLine
<1>2. ASSUME NEW p \in Products, ReadStock(c, p) PROVE Result
  <2>0. k.pc = "read" /\ UNCHANGED <<stock, doc, used, net, strayed, raced>>
    BY <1>2 DEF ReadStock, At, ghosts
  <2> PICK m : m = [k EXCEPT !.pc = "write", !.p = p, !.seen = stock[p]]
    OBVIOUS
  <2>1. call' = [call EXCEPT ![c] = m]
    BY <1>2 DEF ReadStock
  <2>2. m.pc = "write" /\ m.p = p /\ m.seen = stock[p] /\ Same(k, m)
    BY <1>k DEF Call, Same
  <2>3. n = m /\ \A d \in Calls \ {c} : call'[d] = call[d]
    BY <2>1, <1>g
  <2> QED
    BY <2>0, <2>2, <2>3 DEF Turn, Moves
<1>3. ASSUME CheckCard(c) PROVE Result
  <2>0. k.pc = "card" /\ UNCHANGED <<stock, doc, used, net, strayed, raced>>
    BY <1>3 DEF CheckCard, At, ghosts
  <2>1. CASE Done(c)
    BY <2>0, <2>1, <1>d DEF Turn, Ends
  <2>2. CASE Goto(c, "read")
    BY <2>0, <2>2, <1>o DEF Turn, Moves
  <2> QED
    BY <1>3, <2>1, <2>2 DEF CheckCard
<1>4. ASSUME WriteStock(c) PROVE Result
  <2>0. k.pc = "write" /\ Goto(c, "log") /\ UNCHANGED <<doc, used, net, raced>>
    BY <1>4 DEF WriteStock, At
  <2>1. stock' = [stock EXCEPT ![k.p] = AfterLine(k.kind, k.seen, k.lines[k.p])]
    BY <1>4 DEF WriteStock
  <2>2. strayed' = strayed \cup {p \in {k.p} : Strays(c)}
    BY <1>4 DEF WriteStock
  <2>3. k.p \notin strayed' =>
          stock[k.p] = k.seen /\ ~(k.kind = "sale" /\ k.lines[k.p] > k.seen.shelf)
    BY <2>2 DEF Strays
  <2>4. strayed \subseteq strayed'
    BY <2>2
  <2>5. Writes(k, n)
    BY <2>0, <2>1, <2>3, <2>4, <1>o DEF Writes
  <2> QED
    BY <2>0, <2>5, <1>o DEF Turn
<1>5. ASSUME LogStock(c) PROVE Result
  <2>0. /\ k.pc = "log" /\ UNCHANGED <<stock, doc, used, strayed, raced>>
        /\ net' = [net EXCEPT ![k.p] = @ + Delta(k)]
    BY <1>5 DEF LogStock, At
  <2>1. CASE Done(c)
    BY <2>0, <2>1, <1>d DEF Turn, Logs
  <2>2. CASE AfterLastLog(k) # "idle" /\ Goto(c, AfterLastLog(k))
    <3>1. Goto(c, "store") /\ k.kind \in {"sale", "return"}
      BY <2>2 DEF AfterLastLog
    <3> QED
      BY <2>0, <3>1, <1>o DEF Turn, Logs
  <2>3. CASE /\ LinesLeft(k) # {}
             /\ call' = [call EXCEPT ![c].pc = "read", ![c].todo = LinesLeft(k)]
    <3> PICK m : m = [k EXCEPT !.pc = "read", !.todo = LinesLeft(k)]
      OBVIOUS
    <3>1. call' = [call EXCEPT ![c] = m]
      BY <2>3
    <3>2. m.pc = "read" /\ Same(k, m)
      BY <1>k DEF Call, Same
    <3>3. n = m /\ \A d \in Calls \ {c} : call'[d] = call[d]
      BY <3>1, <1>g
    <3>4. k.kind \in {"sale", "return"}
      BY <2>0, <2>3, <1>k DEF Shape, LinesLeft
    <3> QED
      BY <2>0, <3>2, <3>3, <3>4 DEF Turn, Logs
  <2> QED
    BY <1>5, <2>1, <2>2, <2>3 DEF LogStock
<1>6. ASSUME StoreDoc(c) PROVE Result
  <2>0. k.pc = "store" /\ UNCHANGED <<stock, used, net, strayed, raced>>
    BY <1>6 DEF StoreDoc, At
  <2>1. CASE Done(c) /\ UNCHANGED doc
    BY <2>0, <2>1, <1>d DEF Turn, Ends
  <2>2. CASE
        /\ doc[k.ref].kind = "none"
        /\ doc' = [doc EXCEPT ![k.ref] = [kind |-> k.kind, lines |-> k.lines, items |-> {},
                                          card |-> k.card, of |-> k.of, coverage |-> "none"]]
        /\ call' = [call EXCEPT ![c].pc = "items", ![c].todo = Of(k.lines)]
    <3> PICK m : m = [k EXCEPT !.pc = "items", !.todo = Of(k.lines)]
      OBVIOUS
    <3>1. call' = [call EXCEPT ![c] = m]
      BY <2>2
    <3>2. m.pc = "items" /\ Same(k, m) /\ m.todo = Of(k.lines)
      BY <1>k DEF Call, Same
    <3>3. n = m /\ \A d \in Calls \ {c} : call'[d] = call[d]
      BY <3>1, <1>g
    <3>4. Stores(k, n)
      BY <2>0, <2>2, <3>2, <3>3 DEF Stores
    <3> QED
      BY <3>3, <3>4 DEF Turn
  <2> QED
    BY <1>6, <2>1, <2>2 DEF StoreDoc, Broken
<1>7. ASSUME NEW p \in Products, StoreItem(c, p) PROVE Result
  <2>0. /\ k.pc = "items" /\ p \in k.todo /\ UNCHANGED <<stock, used, net, strayed, raced>>
        /\ doc' = [doc EXCEPT ![k.ref].items = @ \cup {p}]
    BY <1>7 DEF StoreItem, At, ghosts
  <2>1. CASE Done(c) /\ ~k.card
    <3>1. Adds(k, n, p)
      BY <2>0, <2>1, <1>d DEF Adds
    <3> QED
      BY <2>1, <3>1, <1>d DEF Turn
  <2>2. CASE call' = [call EXCEPT ![c].todo = k.todo \ {p}]
    <3> PICK m : m = [k EXCEPT !.todo = k.todo \ {p}]
      OBVIOUS
    <3>1. call' = [call EXCEPT ![c] = m]
      BY <2>2
    <3>2. m.pc = "items" /\ Same(k, m) /\ m.todo = k.todo \ {p}
      BY <2>0, <1>k DEF Call, Same
    <3>3. n = m /\ \A d \in Calls \ {c} : call'[d] = call[d]
      BY <3>1, <1>g
    <3>4. Adds(k, n, p)
      BY <2>0, <3>2, <3>3 DEF Adds
    <3> QED
      BY <3>3, <3>4 DEF Turn
  <2>3. CASE k.card /\ Goto(c, "readCard")
    <3>1. Adds(k, n, p)
      BY <2>0, <2>3, <1>o DEF Adds
    <3> QED
      BY <2>3, <3>1, <1>o DEF Turn
  <2>4. CASE k.todo \ {p} = {} /\ k.of # 0 /\ Goto(c, "mark")
    <3>1. Adds(k, n, p)
      BY <2>0, <2>4, <1>o DEF Adds
    <3> QED
      BY <2>4, <3>1, <1>o DEF Turn
  <2> QED
    BY <1>7, <2>1, <2>2, <2>3, <2>4 DEF StoreItem
<1>r. k.pc \in Marking => k.of \in Refs /\ doc[k.of] \in Doc
  BY <1>k DEF StageFits, Marking
<1>8. ASSUME MarkRead(c) PROVE Result
  <2>0. k.pc = "mark" /\ UNCHANGED <<stock, doc, used, net, strayed, raced>>
    BY <1>8 DEF MarkRead, At, ghosts
  <2> PICK m : m = [k EXCEPT !.pc = "markWrite", !.todo = doc[k.of].items]
    OBVIOUS
  <2>1. call' = [call EXCEPT ![c] = m]
    BY <1>8 DEF MarkRead
  <2>2. m.pc = "markWrite" /\ Same(k, m)
    BY <1>k DEF Call, Same
  <2>3. n = m /\ \A d \in Calls \ {c} : call'[d] = call[d]
    BY <2>1, <1>g
  <2> QED
    BY <2>0, <2>2, <2>3 DEF Turn, Moves
<1>9. ASSUME MarkWrite(c) PROVE Result
  <2>0. /\ k.pc = "markWrite" /\ Goto(c, "markDelete")
        /\ UNCHANGED <<stock, used, net, strayed, raced>>
    BY <1>9 DEF MarkWrite, At, ghosts
  <2> PICK row : row = [doc[k.of] EXCEPT !.coverage = k.coverage]
    OBVIOUS
  <2>1. doc' = [doc EXCEPT ![k.of] = row]
    BY <1>9 DEF MarkWrite
  <2>2. k.pc \in Marking
    BY <2>0 DEF Marking
  <2>3. /\ row \in Doc /\ row.kind = doc[k.of].kind /\ row.lines = doc[k.of].lines
        /\ row.card = doc[k.of].card /\ row.of = doc[k.of].of /\ row.coverage = k.coverage
    BY <2>2, <1>r, <1>k DEF Doc, Call
  <2>4. Same(k, n) /\ n.pc \in Marking /\ \A d \in Calls \ {c} : call'[d] = call[d]
    BY <2>0, <1>o DEF Marking
  <2>6. Marks(k, n)
    BY <2>0, <2>1, <2>2, <2>3, <2>4, <1>r DEF Marks
  <2> QED
    BY <2>4, <2>6 DEF Turn
<1>10. ASSUME MarkDelete(c) PROVE Result
  <2>0. k.pc = "markDelete" /\ UNCHANGED <<stock, used, net, strayed, raced>>
    BY <1>10 DEF MarkDelete, At, ghosts
  <2> PICK row : row = [doc[k.of] EXCEPT !.items = {}]
    OBVIOUS
  <2>1. doc' = [doc EXCEPT ![k.of] = row]
    BY <1>10 DEF MarkDelete
  <2>2. k.pc \in Marking
    BY <2>0 DEF Marking
  <2>3. /\ row \in Doc /\ row.kind = doc[k.of].kind /\ row.lines = doc[k.of].lines
        /\ row.card = doc[k.of].card /\ row.of = doc[k.of].of
        /\ row.coverage = doc[k.of].coverage
    BY <2>2, <1>r DEF Doc
  <2>4. /\ n.pc = "idle" \/ (Same(k, n) /\ n.pc \in Marking)
        /\ \A d \in Calls \ {c} : call'[d] = call[d]
    BY <1>10, <1>o, <1>d DEF MarkDelete, Marking
  <2>6. Marks(k, n)
    BY <2>0, <2>1, <2>2, <2>3, <2>4, <1>r DEF Marks
  <2> QED
    BY <2>4, <2>6 DEF Turn
<1>11. ASSUME NEW p \in Products, MarkItem(c, p) PROVE Result
  <2>0. k.pc = "markItems" /\ UNCHANGED <<stock, used, net, strayed, raced>>
    BY <1>11 DEF MarkItem, At, ghosts
  <2> PICK row : row = [doc[k.of] EXCEPT !.items = @ \cup {p}]
    OBVIOUS
  <2>1. doc' = [doc EXCEPT ![k.of] = row]
    BY <1>11 DEF MarkItem
  <2>2. k.pc \in Marking
    BY <2>0 DEF Marking
  <2>3. /\ row \in Doc /\ row.kind = doc[k.of].kind /\ row.lines = doc[k.of].lines
        /\ row.card = doc[k.of].card /\ row.of = doc[k.of].of
        /\ row.coverage = doc[k.of].coverage
    BY <2>2, <1>r DEF Doc
  <2>4. /\ n.pc = "idle" \/ (Same(k, n) /\ n.pc \in Marking)
        /\ \A d \in Calls \ {c} : call'[d] = call[d]
    <3>1. CASE Done(c)
      BY <3>1, <1>d
    <3>2. CASE call' = [call EXCEPT ![c].todo = @ \ {p}]
      <4> PICK m : m = [k EXCEPT !.todo = @ \ {p}]
        OBVIOUS
      <4>1. call' = [call EXCEPT ![c] = m]
        BY <3>2
      <4>2. m.pc = "markItems" /\ Same(k, m)
        BY <2>0, <1>k DEF Call, Same
      <4> QED
        BY <4>1, <4>2, <1>g DEF Marking
    <3> QED
      BY <1>11, <3>1, <3>2 DEF MarkItem
  <2>6. Marks(k, n)
    BY <2>0, <2>1, <2>2, <2>3, <2>4, <1>r DEF Marks
  <2> QED
    BY <2>4, <2>6 DEF Turn
<1>12. ASSUME ReadCard(c) PROVE Result
  <2>0. k.pc = "readCard" /\ UNCHANGED <<stock, doc, used, net, strayed, raced>>
    BY <1>12 DEF ReadCard, At, ghosts
  <2> PICK m : m = [k EXCEPT !.pc = "writeCard", !.used = used]
    OBVIOUS
  <2>1. call' = [call EXCEPT ![c] = m]
    BY <1>12 DEF ReadCard
  <2>2. m.pc = "writeCard" /\ m.used = used /\ Same(k, m)
    BY <1>k DEF Call, Same
  <2>3. n = m /\ \A d \in Calls \ {c} : call'[d] = call[d]
    BY <2>1, <1>g
  <2> QED
    BY <2>0, <2>2, <2>3 DEF Turn, Moves
<1>13. ASSUME WriteCard(c) PROVE Result
  <2>1. Counts(k, n)
    BY <1>13, <1>d DEF WriteCard, Counts, At, ghosts
  <2> QED
    BY <1>13, <2>1, <1>d DEF WriteCard, Turn
<1>14. ASSUME Stop(c) PROVE Result
  <2>1. k.pc # "idle" /\ Done(c) /\ UNCHANGED <<stock, doc, used, net, raced>>
    BY <1>14 DEF Stop, Broken, At
  <2>2. strayed \subseteq strayed' /\ (k.pc = "log" => k.p \in strayed')
    BY <1>14, <1>k DEF Stop, At, StageFits
  <2>3. Ends(k, n)
    BY <2>1, <2>2, <1>d DEF Ends
  <2> QED
    BY <2>1, <2>3, <1>d DEF Turn
<1> HIDE DEF Result
<1>q. Result
  <2>1. ASSUME NEW p \in Products,
               CheckLine(c, p) \/ ReadStock(c, p) \/ StoreItem(c, p) \/ MarkItem(c, p)
        PROVE  Result
    BY <2>1, <1>1, <1>2, <1>7, <1>11
  <2> QED
    BY <2>1, <1>3, <1>4, <1>5, <1>6, <1>8, <1>9, <1>10, <1>12, <1>13, <1>14
<1> QED
  BY <1>q DEF Result

\* ... and so every step is one of the list, taken by one request.
LEMMA NextTurn ==
  ASSUME TypeInv, Shapes, [Next]_vars
  PROVE  UNCHANGED vars \/ OneTurn
<1> DEFINE Request(c) ==
             \/ \E lines \in Lines, card \in BOOLEAN : SaleRequest(c, lines, card)
             \/ \E lines \in Lines, of \in 0..MaxCalls : ReturnRequest(c, lines, of)
             \/ \E kind \in Kind, p \in Products, q \in 1..MaxQty : TransferRequest(c, kind, p, q)
             \/ SettingsRequest(c)
           Step(c) ==
             \/ \E p \in Products :
                  CheckLine(c, p) \/ ReadStock(c, p) \/ StoreItem(c, p) \/ MarkItem(c, p)
             \/ CheckCard(c) \/ WriteStock(c) \/ LogStock(c) \/ StoreDoc(c)
             \/ MarkRead(c) \/ MarkWrite(c) \/ MarkDelete(c)
             \/ ReadCard(c) \/ WriteCard(c) \/ Stop(c)
<1>1. ASSUME NEW c \in Calls, Request(c) PROVE OneTurn
  <2>1. UNCHANGED start /\ partial \subseteq partial'
    <3>1. (\E lines \in Lines, of \in 0..MaxCalls : ReturnRequest(c, lines, of))
             => UNCHANGED start /\ partial \subseteq partial'
      BY DEF ReturnRequest
    <3> QED
      BY <1>1, <3>1 DEF SaleRequest, TransferRequest, SettingsRequest, ghosts
  <2> QED
    BY <1>1, <2>1, RequestTurn DEF OneTurn, Turn
<1>2. ASSUME NEW c \in Calls, Step(c) PROVE OneTurn
  <2>1. UNCHANGED start /\ partial \subseteq partial'
    BY <1>2 DEF CheckLine, ReadStock, StoreItem, MarkItem, CheckCard, WriteStock, LogStock,
                StoreDoc, MarkRead, MarkWrite, MarkDelete, ReadCard, WriteCard, Stop, ghosts
  <2> QED
    BY <1>2, <2>1, StepTurn DEF OneTurn
<1>3. Next => \E c \in Calls : Request(c) \/ Step(c)
  BY DEF Next
<1> HIDE DEF Request, Step
<1> QED
  BY <1>1, <1>2, <1>3

\* The steps of the list keep the shape of the request,
LEMMA ShapeKept ==
  ASSUME NEW k \in Call, NEW n \in Call, Shape(k), Turn(k, n)
  PROVE  Shape(n)
<1> USE DEF Shape
<1>1. CASE Arrives(k, n)
  BY <1>1 DEF Arrives, Marking, Transfers
<1>2. CASE Moves(k, n)
  BY <1>2 DEF Moves, Same, Marking, Transfers
<1>3. CASE Ends(k, n)
  BY <1>3 DEF Ends
<1>4. CASE Writes(k, n)
  BY <1>4 DEF Writes, Same, Marking, Transfers
<1>5. CASE Logs(k, n)
  BY <1>5 DEF Logs, Same, Marking, Transfers
<1>6. CASE Stores(k, n)
  BY <1>6 DEF Stores, Same, Marking
<1>7. ASSUME NEW p \in Products, Adds(k, n, p) PROVE Shape(n)
  <2>1. k.of # 0 => k.of \in Refs
    BY PosStockAssumption DEF Call, Refs
  <2> QED
    BY <1>7, <2>1 DEF Adds, Same, Marking
<1>8. CASE Marks(k, n)
  BY <1>8 DEF Marks, Same, Marking
<1>9. CASE Counts(k, n)
  BY <1>9 DEF Counts
<1> QED
  BY <1>1, <1>2, <1>3, <1>4, <1>5, <1>6, <1>7, <1>8, <1>9 DEF Turn

\* ... and of all requests.
LEMMA ShapesKept ==
  ASSUME TypeInv, TypeInv', Shapes, OneTurn
  PROVE  Shapes'
<1>1. PICK c \in Calls : (\A d \in Calls \ {c} : call'[d] = call[d]) /\ Turn(call[c], call'[c])
  BY DEF OneTurn
<1>2. call[c] \in Call /\ call'[c] \in Call /\ Shape(call[c])
  BY DEF TypeInv, TypeOK, Shapes
<1>3. Shape(call'[c])
  BY <1>1, <1>2, ShapeKept
<1>4. \A d \in Calls : Shape(call'[d])
  BY <1>1, <1>3 DEF Shapes
<1> QED
  BY <1>4 DEF Shapes

-----------------------------------------------------------------------------
(***************************************************************************)
(* Stock and movements.                                                    *)
(***************************************************************************)
\* A line that is not over-drawn moves what its movement says.
LEMMA RowTotal ==
  ASSUME NEW k \in Call, k.kind # "settings", k.p \in Products,
         k.kind = "sale" => k.lines[k.p] <= k.seen.shelf,
         k.kind = "toShelf" => k.lines[k.p] <= k.seen.depot,
         k.kind = "toDepot" => k.lines[k.p] <= k.seen.shelf,
         NEW row, row = AfterLine(k.kind, k.seen, k.lines[k.p])
  PROVE  /\ row.depot + row.shelf = k.seen.depot + k.seen.shelf + Delta(k)
         /\ Delta(k) \in Int
<1> PICK q : q = k.lines[k.p]
  OBVIOUS
<1> PICK seen : seen = k.seen
  OBVIOUS
<1>1. q \in Nat /\ seen \in StockRow /\ seen.depot \in Nat /\ seen.shelf \in Nat
  BY DEF Call, Lines, StockRow
<1>2. \A a \in Nat : q <= a => Less(a, q) = a - q
  BY <1>1 DEF Less
<1>3. CASE k.kind = "sale"
  <2>1. row = [seen EXCEPT !.shelf = Less(@, q)] /\ Delta(k) = 0 - q
    BY <1>3 DEF AfterLine, Delta
  <2>2. row.depot = seen.depot /\ row.shelf = Less(seen.shelf, q)
    BY <2>1, <1>1 DEF StockRow
  <2> QED
    BY <1>1, <1>2, <1>3, <2>1, <2>2
<1>4. CASE k.kind = "return"
  <2>1. row = [seen EXCEPT !.shelf = @ + q] /\ Delta(k) = q
    BY <1>4 DEF AfterLine, Delta
  <2>2. row.depot = seen.depot /\ row.shelf = seen.shelf + q
    BY <2>1, <1>1 DEF StockRow
  <2> QED
    BY <1>1, <2>1, <2>2
<1>5. CASE k.kind = "toShelf"
  <2>1. row.depot = Less(seen.depot, q) /\ row.shelf = seen.shelf + q /\ Delta(k) = 0
    BY <1>5 DEF AfterLine, Delta
  <2> QED
    BY <1>1, <1>2, <1>5, <2>1
<1>6. CASE k.kind = "toDepot"
  <2>1. row.depot = seen.depot + q /\ row.shelf = Less(seen.shelf, q) /\ Delta(k) = 0
    BY <1>6 DEF AfterLine, Delta
  <2> QED
    BY <1>1, <1>2, <1>6, <2>1
<1> QED
  BY <1>3, <1>4, <1>5, <1>6 DEF Call, Kind

\* What a request does to the stock of a product is a number.
LEMMA DeltaType ==
  ASSUME NEW k \in Call, k.p \in Products
  PROVE  Delta(k) \in Int
<1>1. k.lines[k.p] \in Nat
  BY DEF Call, Lines
<1> QED
  BY <1>1 DEF Delta

\* The lines in hand of the other requests are the same.
LEMMA HandStep ==
  ASSUME TypeInv, TypeInv', NEW c \in Calls, \A d \in Calls \ {c} : call'[d] = call[d],
         Shape(call[c]), Shape(call'[c]), NEW p \in Products
  PROVE  /\ SumFunction([d \in InHand(p) |-> Delta(call[d])]) \in Int
         /\ SumFunction([d \in InHand(p)' |-> Delta(call'[d])]) \in Int
         /\ SumFunction([d \in InHand(p)' |-> Delta(call'[d])])
              - (IF call'[c].pc = "log" /\ call'[c].p = p THEN Delta(call'[c]) ELSE 0)
            = SumFunction([d \in InHand(p) |-> Delta(call[d])])
              - (IF call[c].pc = "log" /\ call[c].p = p THEN Delta(call[c]) ELSE 0)
<1>n. PICK now : now = InHand(p)
  OBVIOUS
<1>t. PICK then : then = InHand(p)'
  OBVIOUS
<1>f. PICK f : f = [d \in now |-> Delta(call[d])]
  OBVIOUS
<1>g. PICK g : g = [d \in then |-> Delta(call'[d])]
  OBVIOUS
<1>1. /\ \A d \in Calls : d \in now <=> call[d].pc = "log" /\ call[d].p = p
      /\ \A d \in Calls : d \in then <=> call'[d].pc = "log" /\ call'[d].p = p
      /\ now \subseteq Calls /\ then \subseteq Calls
  BY <1>n, <1>t DEF InHand, At
<1>2. IsFiniteSet(now) /\ IsFiniteSet(then)
  BY <1>1, PosStockAssumption, FS_Subset
<1>3. \A d \in Calls : call[d] \in Call /\ call'[d] \in Call
  BY DEF TypeInv, TypeOK
<1>4. f \in [now -> Int] /\ g \in [then -> Int]
  <2>1. \A d \in now : Delta(call[d]) \in Int
    BY <1>1, <1>3, DeltaType
  <2>2. \A d \in then : Delta(call'[d]) \in Int
    BY <1>1, <1>3, DeltaType
  <2> QED
    BY <2>1, <2>2, <1>f, <1>g
<1>5. now \ {c} = then \ {c} /\ \A d \in now \ {c} : f[d] = g[d]
  BY <1>1, <1>f, <1>g
<1>6. SumFunction(g) - (IF c \in then THEN g[c] ELSE 0)
        = SumFunction(f) - (IF c \in now THEN f[c] ELSE 0)
  BY <1>2, <1>4, <1>5, SumChanges
<1>7. SumFunction(f) \in Int /\ SumFunction(g) \in Int
  BY <1>2, <1>4, SumType
<1>8. /\ (IF c \in then THEN g[c] ELSE 0)
           = (IF call'[c].pc = "log" /\ call'[c].p = p THEN Delta(call'[c]) ELSE 0)
      /\ (IF c \in now THEN f[c] ELSE 0)
           = (IF call[c].pc = "log" /\ call[c].p = p THEN Delta(call[c]) ELSE 0)
  BY <1>1, <1>f, <1>g
<1> QED
  BY <1>n, <1>t, <1>f, <1>g, <1>6, <1>7, <1>8

\* The steps of the list keep the books balanced.
LEMMA BalanceStep ==
  ASSUME TypeInv, TypeInv', Shapes, Shapes', OneTurn, BooksBalance
  PROVE  BooksBalance'
<1>c. PICK c \in Calls : (\A d \in Calls \ {c} : call'[d] = call[d]) /\ Turn(call[c], call'[c])
  BY DEF OneTurn
<1>k. PICK k : k = call[c]
  OBVIOUS
<1>n. PICK n : n = call'[c]
  OBVIOUS
<1>1. k \in Call /\ n \in Call /\ Shape(k) /\ Shape(n) /\ Turn(k, n)
  BY <1>c, <1>k, <1>n DEF TypeInv, TypeOK, Shapes
<1>2. /\ stock \in [Products -> StockRow] /\ stock' \in [Products -> StockRow]
      /\ start \in [Products -> Nat] /\ net \in [Products -> Int] /\ net' \in [Products -> Int]
  BY DEF TypeInv, TypeOK
<1> SUFFICES ASSUME NEW p \in Products, p \notin strayed'
    PROVE  stock'[p].depot + stock'[p].shelf =
             start'[p] + net'[p] + SumFunction([d \in InHand(p)' |-> Delta(call'[d])])
  BY DEF BooksBalance
<1>a. PICK a : a = SumFunction([d \in InHand(p) |-> Delta(call[d])])
  OBVIOUS
<1>b. PICK b : b = SumFunction([d \in InHand(p)' |-> Delta(call'[d])])
  OBVIOUS
<1>3. /\ a \in Int /\ b \in Int
      /\ b - (IF n.pc = "log" /\ n.p = p THEN Delta(n) ELSE 0)
           = a - (IF k.pc = "log" /\ k.p = p THEN Delta(k) ELSE 0)
  BY <1>c, <1>k, <1>n, <1>1, <1>a, <1>b, HandStep
<1>4. strayed \subseteq strayed'
  BY <1>1 DEF Turn, Arrives, Moves, Ends, Writes, Logs, Stores, Adds, Marks, Counts
<1>5. stock[p].depot + stock[p].shelf = start[p] + net[p] + a
  BY <1>4, <1>a DEF BooksBalance
<1>6. start' = start
  BY DEF OneTurn
<1>7. stock[p].depot \in Nat /\ stock[p].shelf \in Nat /\ start[p] \in Nat /\ net[p] \in Int
  BY <1>2 DEF StockRow
<1> SUFFICES stock'[p].depot + stock'[p].shelf = start[p] + net'[p] + b
  BY <1>6, <1>b
<1>8. CASE Writes(k, n)
  <2>1. k.pc = "write" /\ n.pc = "log" /\ n.p = k.p /\ net' = net
        /\ stock' = [stock EXCEPT ![k.p] = AfterLine(k.kind, k.seen, k.lines[k.p])]
    BY <1>8 DEF Writes
  <2>2. k.p \in Products /\ k.kind # "settings"
    BY <1>1, <2>1 DEF Shape, Transfers
  <2>3. CASE k.p # p
    BY <2>1, <2>3, <1>2, <1>3, <1>5
  <2>4. CASE k.p = p
    <3>1. stock[p] = k.seen /\ ~(k.kind = "sale" /\ k.lines[p] > k.seen.shelf)
      BY <1>8, <2>4 DEF Writes
    <3>2. k.lines[p] \in Nat /\ k.seen.shelf \in Nat
      BY <1>1, <2>4 DEF Call, Lines, StockRow
    <3>3. /\ k.kind = "sale" => k.lines[p] <= k.seen.shelf
          /\ k.kind = "toShelf" => k.lines[p] <= k.seen.depot
          /\ k.kind = "toDepot" => k.lines[p] <= k.seen.shelf
      BY <1>1, <2>1, <2>4, <3>1, <3>2 DEF Shape
    <3>4. PICK row : row = AfterLine(k.kind, k.seen, k.lines[p])
      OBVIOUS
    <3>5. row.depot + row.shelf = k.seen.depot + k.seen.shelf + Delta(k) /\ Delta(k) \in Int
      BY <1>1, <2>2, <2>4, <3>3, <3>4, RowTotal
    <3>6. stock'[p] = row
      BY <2>1, <2>4, <3>4, <1>2
    <3>7. Delta(n) = Delta(k)
      BY <1>8 DEF Writes, Same, Delta
    <3>8. b = a + Delta(k)
      BY <1>3, <2>1, <2>4, <3>5, <3>7
    <3> QED
      BY <1>3, <1>5, <1>7, <2>1, <3>1, <3>5, <3>6, <3>8
  <2> QED
    BY <2>3, <2>4
<1>9. CASE Logs(k, n)
  <2>1. /\ k.pc = "log" /\ n.pc # "log" /\ stock' = stock
        /\ net' = [net EXCEPT ![k.p] = @ + Delta(k)]
    BY <1>9 DEF Logs
  <2>2. k.p \in Products
    BY <1>1, <2>1 DEF Shape
  <2>3. CASE k.p # p
    BY <2>1, <2>3, <1>2, <1>3, <1>5
  <2>4. CASE k.p = p
    <3>1. Delta(k) \in Int
      BY <1>1, <2>2, DeltaType
    <3>2. net'[p] = net[p] + Delta(k) /\ b = a - Delta(k)
      BY <1>2, <1>3, <2>1, <2>4, <3>1
    <3> QED
      BY <1>3, <1>5, <1>7, <2>1, <3>1, <3>2
  <2> QED
    BY <2>3, <2>4
<1>10. CASE Ends(k, n)
  <2>1. UNCHANGED <<stock, net>> /\ n.pc = "idle" /\ ~(k.pc = "log" /\ k.p = p)
    BY <1>10 DEF Ends
  <2> QED
    BY <1>3, <1>5, <2>1
<1>11. CASE Arrives(k, n) \/ Moves(k, n) \/ Stores(k, n) \/ (\E q \in Products : Adds(k, n, q))
            \/ Marks(k, n) \/ Counts(k, n)
  <2>1. UNCHANGED <<stock, net>> /\ k.pc # "log" /\ n.pc # "log"
    BY <1>11 DEF Arrives, Moves, Stores, Adds, Marks, Counts, Marking
  <2> QED
    BY <1>3, <1>5, <2>1
<1> QED
  BY <1>1, <1>8, <1>9, <1>10, <1>11 DEF Turn

-----------------------------------------------------------------------------
(***************************************************************************)
(* Documents and the requests that store them.                             *)
(***************************************************************************)
\* From its storing on, a request has a document of its own, and a return one of a sale.
HasDoc(k) ==
  \/ k.pc \in {"items", "readCard"} \cup Marking
  \/ k.pc = "writeCard" /\ k.kind # "settings"
OwnDoc(k, row) ==
  HasDoc(k) => row.kind = k.kind /\ row.lines = k.lines /\ row.card = k.card /\ row.of = k.of
OfSale(k) == k.pc # "idle" /\ k.of # 0 => doc[k.of].kind = "sale"

Owners ==
  /\ \A c \in Calls : OwnDoc(call[c], doc[call[c].ref])
  /\ \A c, d \in Calls : HasDoc(call[c]) /\ HasDoc(call[d]) /\ c # d => call[c].ref # call[d].ref
  /\ \A c \in Calls : OfSale(call[c])
  /\ \A r \in Refs : doc[r].of # 0 => doc[r].kind = "return" /\ doc[doc[r].of].kind = "sale"

SameRow(r) ==
  /\ doc'[r].kind = doc[r].kind /\ doc'[r].lines = doc[r].lines
  /\ doc'[r].card = doc[r].card /\ doc'[r].of = doc[r].of

\* Only a request that stores its document changes what a document says.
LEMMA DocsKept ==
  ASSUME TypeInv, NEW k \in Call, NEW n, Turn(k, n), Shape(k), NEW r \in Refs
  PROVE  SameRow(r) \/ (Stores(k, n) /\ r = k.ref)
<1>1. doc \in [Refs -> Doc] /\ \A s \in Refs : doc[s] \in Doc
  BY DEF TypeInv, TypeOK
<1>2. CASE doc' = doc
  BY <1>2 DEF SameRow
<1>3. CASE Stores(k, n)
  BY <1>1, <1>3 DEF Stores, SameRow
<1>4. ASSUME NEW p \in Products, Adds(k, n, p) PROVE SameRow(r)
  <2>1. doc' = [doc EXCEPT ![k.ref].items = @ \cup {p}]
    BY <1>4 DEF Adds
  <2> QED
    BY <1>1, <2>1 DEF SameRow, Doc
<1>5. CASE Marks(k, n)
  <2>1. PICK row \in Doc :
          /\ row.kind = doc[k.of].kind /\ row.lines = doc[k.of].lines
          /\ row.card = doc[k.of].card /\ row.of = doc[k.of].of
          /\ doc' = [doc EXCEPT ![k.of] = row]
    BY <1>5 DEF Marks
  <2> QED
    BY <1>1, <2>1 DEF SameRow
<1> QED
  BY <1>2, <1>3, <1>4, <1>5 DEF Turn, Arrives, Moves, Ends, Writes, Logs, Counts

\* A request that has a document had it before, or stores it.
LEMMA DocsHeld ==
  ASSUME NEW k \in Call, NEW n, Turn(k, n), Shape(k), HasDoc(n)
  PROVE  Same(k, n) /\ k.pc # "idle" /\ (HasDoc(k) \/ Stores(k, n))
<1> USE DEF HasDoc
<1>1. CASE Arrives(k, n)
  BY <1>1 DEF Arrives, Marking, Transfers
<1>2. CASE Moves(k, n)
  <2>1. k.pc = "readCard" => k.kind = "sale"
    BY DEF Shape
  <2> QED
    BY <1>2, <2>1 DEF Moves, Marking, Same
<1>3. CASE Ends(k, n)
  BY <1>3 DEF Ends, Marking
<1>4. CASE Writes(k, n)
  BY <1>4 DEF Writes, Marking
<1>5. CASE Logs(k, n)
  BY <1>5 DEF Logs, Marking
<1>6. CASE Stores(k, n)
  BY <1>6 DEF Stores
<1>7. ASSUME NEW p \in Products, Adds(k, n, p)
      PROVE  Same(k, n) /\ k.pc # "idle" /\ (HasDoc(k) \/ Stores(k, n))
  BY <1>7 DEF Adds, Marking
<1>8. CASE Marks(k, n)
  BY <1>8 DEF Marks, Marking
<1>9. CASE Counts(k, n)
  BY <1>9 DEF Counts, Marking
<1> QED
  BY <1>1, <1>2, <1>3, <1>4, <1>5, <1>6, <1>7, <1>8, <1>9 DEF Turn

\* A request that works is the one that arrived.
LEMMA SameRequest ==
  ASSUME NEW k \in Call, NEW n, Turn(k, n), n.pc # "idle"
  PROVE  Arrives(k, n) \/ (Same(k, n) /\ k.pc # "idle")
BY DEF Turn, Moves, Ends, Writes, Logs, Stores, Adds, Marks, Counts, Marking

\* They keep each stored document with the one request that works on it.
LEMMA OwnersStep ==
  ASSUME TypeInv, TypeInv', Shapes, OneTurn, Owners
  PROVE  Owners'
<1>c. PICK c \in Calls : (\A d \in Calls \ {c} : call'[d] = call[d]) /\ Turn(call[c], call'[c])
  BY DEF OneTurn
<1>k. PICK k : k = call[c]
  OBVIOUS
<1>n. PICK n : n = call'[c]
  OBVIOUS
<1>1. k \in Call /\ n \in Call /\ Shape(k) /\ Turn(k, n)
  BY <1>c, <1>k, <1>n DEF TypeInv, TypeOK, Shapes
<1>2. \A r \in Refs : SameRow(r) \/ (Stores(k, n) /\ r = k.ref)
  BY <1>1, DocsKept
<1>3. \A d \in Calls : call[d] \in Call /\ Shape(call[d])
  BY DEF TypeInv, TypeOK, Shapes
<1>o. /\ \A d \in Calls : OwnDoc(call[d], doc[call[d].ref])
      /\ \A d \in Calls : OfSale(call[d])
      /\ \A r \in Refs : doc[r].of # 0 => doc[r].kind = "return" /\ doc[doc[r].of].kind = "sale"
      /\ \A d, e \in Calls : HasDoc(call[d]) /\ HasDoc(call[e]) /\ d # e => call[d].ref # call[e].ref
  BY DEF Owners
<1>t. /\ \A r \in Refs : doc[r] \in Doc /\ doc'[r] \in Doc
      /\ doc \in [Refs -> Doc]
  BY DEF TypeInv, TypeOK
<1>4. \A r \in Refs : doc[r].kind # "none" => SameRow(r)
  BY <1>2 DEF Stores
<1>5. \A d \in Calls : HasDoc(call[d]) => /\ call[d].pc # "idle" /\ call[d].ref \in Refs
                                          /\ doc[call[d].ref].kind # "none"
  <2> SUFFICES ASSUME NEW d \in Calls, HasDoc(call[d])
               PROVE  /\ call[d].pc # "idle" /\ call[d].ref \in Refs
                      /\ doc[call[d].ref].kind # "none"
    OBVIOUS
  <2>1. call[d].pc # "idle"
    BY DEF HasDoc, Marking
  <2>2. doc[call[d].ref].kind = call[d].kind
    BY <1>o DEF OwnDoc
  <2> QED
    BY <2>1, <2>2, <1>3 DEF Shape, Call, Kind
<1>6. HasDoc(n) => /\ n.ref \in Refs /\ n.ref = k.ref
                   /\ HasDoc(k) \/ doc[k.ref].kind = "none"
  BY <1>1, DocsHeld DEF Same, Shape, Stores
<1>7. \A d \in Calls : OwnDoc(call'[d], doc'[call'[d].ref])
  <2>1. ASSUME NEW d \in Calls \ {c} PROVE OwnDoc(call[d], doc'[call[d].ref])
    BY <1>4, <1>5, <1>o DEF OwnDoc, SameRow
  <2>2. OwnDoc(n, doc'[n.ref])
    <3> SUFFICES ASSUME HasDoc(n)
                 PROVE  /\ doc'[n.ref].kind = n.kind /\ doc'[n.ref].lines = n.lines
                        /\ doc'[n.ref].card = n.card /\ doc'[n.ref].of = n.of
      BY DEF OwnDoc
    <3>1. Same(k, n) /\ (HasDoc(k) \/ Stores(k, n))
      BY <1>1, DocsHeld
    <3>2. CASE HasDoc(k)
      <4>1. SameRow(k.ref)
        BY <3>2, <1>k, <1>4, <1>5
      <4> QED
        BY <3>1, <3>2, <4>1, <1>k, <1>o DEF OwnDoc, SameRow, Same
    <3>3. CASE Stores(k, n)
      BY <3>1, <3>3, <1>6, <1>t DEF Stores, Same
    <3> QED
      BY <3>1, <3>2, <3>3
  <2> QED
    BY <2>1, <2>2, <1>c, <1>n
<1>8. \A d, e \in Calls : HasDoc(call'[d]) /\ HasDoc(call'[e]) /\ d # e
                            => call'[d].ref # call'[e].ref
  <2>1. \A d \in Calls \ {c} : HasDoc(call[d]) /\ HasDoc(n) => call[d].ref # n.ref
    BY <1>k, <1>o, <1>5, <1>6
  <2> QED
    BY <2>1, <1>c, <1>n, <1>o
<1>9. (\A d \in Calls : OfSale(call[d]))'
  <2>1. ASSUME NEW m \in Call, m.pc # "idle", m.of # 0, doc[m.of].kind = "sale"
        PROVE  doc'[m.of].kind = "sale"
    <3>1. m.of \in Refs
      BY <2>1, PosStockAssumption DEF Call, Refs
    <3> QED
      BY <3>1, <2>1, <1>4 DEF SameRow
  <2>2. n.pc # "idle" /\ n.of # 0 => doc[n.of].kind = "sale"
    <3> SUFFICES ASSUME n.pc # "idle", n.of # 0 PROVE doc[n.of].kind = "sale"
      OBVIOUS
    <3>1. CASE Arrives(k, n)
      BY <3>1 DEF Arrives, Granted
    <3>2. CASE Same(k, n) /\ k.pc # "idle"
      BY <3>2, <1>k, <1>o DEF Same, OfSale
    <3> QED
      BY <3>1, <3>2, <1>1, SameRequest
  <2>3. ASSUME NEW d \in Calls, call'[d].pc # "idle", call'[d].of # 0
        PROVE  doc'[call'[d].of].kind = "sale"
    <3>1. CASE d = c
      BY <3>1, <2>1, <2>2, <2>3, <1>n, <1>1
    <3>2. CASE d # c
      BY <3>2, <2>1, <2>3, <1>c, <1>3, <1>o DEF OfSale
    <3> QED
      BY <3>1, <3>2
  <2> QED
    BY <2>3 DEF OfSale
<1>10. \A r \in Refs : doc'[r].of # 0 => doc'[r].kind = "return" /\ doc'[doc'[r].of].kind = "sale"
  <2> SUFFICES ASSUME NEW r \in Refs, doc'[r].of # 0
               PROVE  doc'[r].kind = "return" /\ doc'[doc'[r].of].kind = "sale"
    OBVIOUS
  <2>1. doc'[r].of \in Refs
    BY <1>t, PosStockAssumption DEF Doc, Refs
  <2>2. doc[doc'[r].of].kind = "sale" /\ doc'[r].kind = "return"
    <3>1. CASE SameRow(r)
      BY <3>1, <1>o DEF SameRow
    <3>2. CASE Stores(k, n) /\ r = k.ref
      <4>1. doc'[r].of = k.of /\ doc'[r].kind = k.kind /\ k.pc # "idle"
        BY <3>2, <1>t DEF Stores
      <4> QED
        BY <4>1, <1>k, <1>1, <1>o DEF OfSale, Shape
    <3> QED
      BY <3>1, <3>2, <1>2
  <2> QED
    BY <2>1, <2>2, <1>4 DEF SameRow
<1> QED
  BY <1>7, <1>8, <1>9, <1>10 DEF Owners

-----------------------------------------------------------------------------
(***************************************************************************)
(* The gift card.                                                          *)
(***************************************************************************)
\* Card sales that are stored and no longer in progress: their use has been counted or
\* never will be.
Settled ==
  {r \in Refs : /\ doc[r].kind = "sale" /\ doc[r].card
                /\ \A c \in Calls : HasDoc(call[c]) => call[c].ref # r}

\* Each use that is counted, or will be by a request that has read the card, is of
\* another one of them.
UsesSettled ==
  /\ used <= Cardinality(Settled)
  /\ \A c \in Calls : call[c].pc = "writeCard" => call[c].used <= Cardinality(Settled)

\* There are finitely many numbers.
LEMMA RefsFinite == IsFiniteSet(Refs)
<1>1. 1 \in Int /\ MaxCalls \in Int
  BY PosStockAssumption
<1> QED
  BY <1>1, FS_Interval DEF Refs

\* They keep the uses of the gift card within its settled sales.
LEMMA SettledStep ==
  ASSUME TypeInv, TypeInv', Shapes, OneTurn, Owners, UsesSettled
  PROVE  UsesSettled'
<1>c. PICK c \in Calls : (\A d \in Calls \ {c} : call'[d] = call[d]) /\ Turn(call[c], call'[c])
  BY DEF OneTurn
<1>k. PICK k : k = call[c]
  OBVIOUS
<1>n. PICK n : n = call'[c]
  OBVIOUS
<1>1. k \in Call /\ n \in Call /\ Shape(k) /\ Turn(k, n)
  BY <1>c, <1>k, <1>n DEF TypeInv, TypeOK, Shapes
<1>2. \A r \in Refs : SameRow(r) \/ (Stores(k, n) /\ r = k.ref)
  BY <1>1, DocsKept
<1>a. PICK now : now = Settled
  OBVIOUS
<1>b. PICK then : then = Settled'
  OBVIOUS
<1>3. now \subseteq Refs /\ then \subseteq Refs
  BY <1>a, <1>b DEF Settled
<1>4. IsFiniteSet(then) /\ IsFiniteSet(now)
  BY <1>3, FS_Subset, RefsFinite
<1>h. HasDoc(n) => Same(k, n) /\ (HasDoc(k) \/ Stores(k, n))
  BY <1>1, DocsHeld
<1>5. now \subseteq then
  <2> SUFFICES ASSUME NEW r \in Refs, doc[r].kind = "sale", doc[r].card,
                      \A d \in Calls : HasDoc(call[d]) => call[d].ref # r
               PROVE  /\ doc'[r].kind = "sale" /\ doc'[r].card
                      /\ \A d \in Calls : HasDoc(call'[d]) => call'[d].ref # r
    BY <1>a, <1>b DEF Settled
  <2>1. Stores(k, n) => r # k.ref
    BY DEF Stores
  <2>2. SameRow(r)
    BY <2>1, <1>2
  <2>3. HasDoc(n) => n.ref # r
    BY <2>1, <1>h, <1>k DEF Same
  <2> QED
    BY <2>2, <2>3, <1>c, <1>n DEF SameRow
<1>6. /\ Cardinality(now) \in Nat /\ Cardinality(then) \in Nat
      /\ Cardinality(now) <= Cardinality(then)
  BY <1>4, <1>5, FS_Subset, FS_CardinalityType
<1>7. /\ used \in Nat /\ used' \in Nat /\ UsageLimit \in Nat
      /\ \A d \in Calls : call[d].used \in Nat /\ call'[d].used \in Nat
  BY PosStockAssumption DEF TypeInv, TypeOK, Call
<1>8. used <= Cardinality(now) /\ (k.pc = "writeCard" => k.used <= Cardinality(now))
  BY <1>a, <1>k DEF UsesSettled
\* The use that is counted is of a sale of its own.
<1>9. k.pc = "writeCard" /\ k.kind # "settings" /\ n.pc = "idle" /\ doc' = doc
        => Cardinality(now) + 1 <= Cardinality(then)
  <2> SUFFICES ASSUME k.pc = "writeCard", k.kind # "settings", n.pc = "idle", doc' = doc
               PROVE  Cardinality(now) + 1 <= Cardinality(then)
    OBVIOUS
  <2>1. HasDoc(k) /\ ~HasDoc(n)
    BY DEF HasDoc, Marking
  <2>2. k.card /\ k.kind = "sale" /\ k.ref \in Refs
    BY <1>1 DEF Shape
  <2>3. doc[k.ref].kind = "sale" /\ doc[k.ref].card
    BY <2>1, <2>2, <1>k DEF Owners, OwnDoc
  <2>4. \A d \in Calls \ {c} : HasDoc(call[d]) => call[d].ref # k.ref
    BY <2>1, <1>k DEF Owners
  <2>5. k.ref \in then
    BY <2>1, <2>2, <2>3, <2>4, <1>b, <1>c, <1>n DEF Settled
  <2>6. k.ref \notin now
    BY <2>1, <1>a, <1>k DEF Settled
  <2>7. now \cup {k.ref} \subseteq then
    BY <2>5, <1>5
  <2>8. Cardinality(now \cup {k.ref}) = Cardinality(now) + 1 /\ IsFiniteSet(now \cup {k.ref})
    BY <2>6, <1>4, FS_AddElement
  <2>9. Cardinality(now \cup {k.ref}) <= Cardinality(then)
    BY <2>7, <1>4, FS_Subset
  <2> QED
    BY <2>8, <2>9
<1>10. used' <= Cardinality(then)
  <2>1. CASE Counts(k, n)
    <3>1. k.pc = "writeCard" /\ n.pc = "idle" /\ doc' = doc /\ used' = Counted(k)
      BY <2>1 DEF Counts
    <3>2. k.used \in Nat
      BY <1>7, <1>k
    <3>3. CASE k.kind = "settings"
      BY <3>1, <3>2, <3>3, <1>6, <1>8 DEF Counted
    <3>4. CASE k.kind # "settings"
      <4>1. used' <= k.used + 1
        BY <3>1, <3>2, <3>4, <1>7 DEF Counted
      <4> QED
        BY <4>1, <3>1, <3>2, <3>4, <1>6, <1>7, <1>8, <1>9
    <3> QED
      BY <3>3, <3>4
  <2>2. CASE used' = used
    BY <2>2, <1>6, <1>7, <1>8
  <2> QED
    BY <2>1, <2>2, <1>1 DEF Turn, Arrives, Moves, Ends, Writes, Logs, Stores, Adds, Marks
<1>11. n.pc = "writeCard" => n.used <= Cardinality(then)
  <2> SUFFICES ASSUME n.pc = "writeCard" PROVE n.used <= Cardinality(then)
    OBVIOUS
  <2>1. n.used = used
    BY <1>1 DEF Turn, Arrives, Moves, Ends, Writes, Logs, Stores, Adds, Marks, Counts, Marking
  <2> QED
    BY <2>1, <1>6, <1>7, <1>8
<1>12. \A d \in Calls \ {c} : call'[d].pc = "writeCard" => call'[d].used <= Cardinality(then)
  <2> SUFFICES ASSUME NEW d \in Calls \ {c}, call[d].pc = "writeCard"
               PROVE  call[d].used <= Cardinality(then)
    BY <1>c
  <2>1. call[d].used <= Cardinality(now)
    BY <1>a DEF UsesSettled
  <2> QED
    BY <2>1, <1>6, <1>7
<1> QED
  BY <1>b, <1>n, <1>10, <1>11, <1>12 DEF UsesSettled

\* So the uses are sales with the card.
LEMMA SettledUses == TypeInv /\ UsesSettled => UsesAreSales
<1> SUFFICES ASSUME TypeInv, UsesSettled PROVE UsesAreSales
  OBVIOUS
<1>a. PICK now : now = Settled
  OBVIOUS
<1>b. PICK all : all = {r \in Refs : doc[r].kind = "sale" /\ doc[r].card}
  OBVIOUS
<1>1. now \subseteq all /\ all \subseteq Refs
  BY <1>a, <1>b DEF Settled
<1>2. IsFiniteSet(all) /\ IsFiniteSet(now)
  BY <1>1, FS_Subset, RefsFinite
<1>3. /\ Cardinality(now) \in Nat /\ Cardinality(all) \in Nat
      /\ Cardinality(now) <= Cardinality(all)
  BY <1>1, <1>2, FS_Subset, FS_CardinalityType
<1>4. used \in Nat /\ used <= Cardinality(now)
  BY <1>a, PosStockAssumption DEF UsesSettled, TypeInv, TypeOK
<1> QED
  BY <1>b, <1>3, <1>4 DEF UsesAreSales

-----------------------------------------------------------------------------
(***************************************************************************)
(* Returns.                                                                *)
(***************************************************************************)
\* What a document counts for among the returns of a sale.
Part(row, s, p) ==
  IF row.kind = "return" /\ row.of = s /\ p \in row.items THEN row.lines[p] ELSE 0

\* What the item row of q adds for p.
Added(k, p, q) == IF p = q THEN k.lines[p] ELSE 0

\* One document changes: the sum of the returns of a sale changes by it.
LEMMA RowChange ==
  ASSUME TypeInv, TypeInv', NEW s \in Refs, NEW p \in Products, NEW x \in Refs,
         \A r \in Refs \ {x} : doc'[r] = doc[r]
  PROVE  /\ Returned(s)[p] \in Int /\ Returned(s)'[p] \in Int
         /\ Part(doc[x], s, p) \in Nat /\ Part(doc'[x], s, p) \in Nat
         /\ Returned(s)'[p] - Part(doc'[x], s, p) = Returned(s)[p] - Part(doc[x], s, p)
<1>a. PICK now : now = Returns(s)
  OBVIOUS
<1>b. PICK then : then = Returns(s)'
  OBVIOUS
<1>f. PICK f : f = [r \in now |-> IF p \in doc[r].items THEN doc[r].lines[p] ELSE 0]
  OBVIOUS
<1>g. PICK g : g = [r \in then |-> IF p \in doc'[r].items THEN doc'[r].lines[p] ELSE 0]
  OBVIOUS
<1>1. /\ \A r \in Refs : r \in now <=> doc[r].kind = "return" /\ doc[r].of = s
      /\ \A r \in Refs : r \in then <=> doc'[r].kind = "return" /\ doc'[r].of = s
      /\ now \subseteq Refs /\ then \subseteq Refs
  BY <1>a, <1>b DEF Returns
<1>2. IsFiniteSet(now) /\ IsFiniteSet(then)
  BY <1>1, RefsFinite, FS_Subset
<1>3. \A r \in Refs : doc[r].lines[p] \in Nat /\ doc'[r].lines[p] \in Nat
  BY DEF TypeInv, TypeOK, Doc, Lines
<1>4. f \in [now -> Int] /\ g \in [then -> Int]
  BY <1>1, <1>3, <1>f, <1>g
<1>5. now \ {x} = then \ {x} /\ \A r \in now \ {x} : f[r] = g[r]
  BY <1>1, <1>f, <1>g
<1>6. SumFunction(g) - (IF x \in then THEN g[x] ELSE 0)
        = SumFunction(f) - (IF x \in now THEN f[x] ELSE 0)
  BY <1>2, <1>4, <1>5, SumChanges
<1>7. SumFunction(f) \in Int /\ SumFunction(g) \in Int
  BY <1>2, <1>4, SumType
<1>8. /\ (IF x \in now THEN f[x] ELSE 0) = Part(doc[x], s, p)
      /\ (IF x \in then THEN g[x] ELSE 0) = Part(doc'[x], s, p)
  BY <1>1, <1>f, <1>g DEF Part
<1>9. Part(doc[x], s, p) \in Nat /\ Part(doc'[x], s, p) \in Nat
  BY <1>3 DEF Part
<1>10. Returned(s)[p] = SumFunction(f)
  <2>1. f = [r \in Returns(s) |-> Read(r)[p]]
    BY <1>a, <1>f DEF Read
  <2> QED
    BY <2>1 DEF Returned
<1>11. Returned(s)'[p] = SumFunction(g)
  <2>1. g = [r \in Returns(s)' |-> Read(r)'[p]]
    BY <1>b, <1>g DEF Read
  <2> QED
    BY <2>1 DEF Returned
<1> QED
  BY <1>6, <1>7, <1>8, <1>9, <1>10, <1>11

\* Only the item rows of a return of the sale add to it.
LEMMA ReturnedStep ==
  ASSUME TypeInv, TypeInv', Owners, NEW c \in Calls, NEW k, k = call[c], NEW n,
         Turn(k, n), Shape(k), NEW s \in Refs, NEW p \in Products
  PROVE  /\ Returned(s)[p] \in Int /\ Returned(s)'[p] \in Int
         /\ (~ \E q \in Products : Adds(k, n, q) /\ k.of = s) => Returned(s)'[p] = Returned(s)[p]
         /\ \A q \in Products : Adds(k, n, q) /\ k.of = s /\ q \notin doc[k.ref].items
              => Returned(s)'[p] = Returned(s)[p] + Added(k, p, q)
<1>1. doc \in [Refs -> Doc] /\ k \in Call
  BY DEF TypeInv, TypeOK
<1>2. OwnDoc(k, doc[k.ref]) /\ OfSale(k)
  BY DEF Owners
<1>0. ASSUME NEW x \in Refs, \A r \in Refs \ {x} : doc'[r] = doc[r]
      PROVE  /\ Returned(s)[p] \in Int /\ Returned(s)'[p] \in Int
             /\ Part(doc[x], s, p) \in Nat /\ Part(doc'[x], s, p) \in Nat
             /\ Returned(s)'[p] - Part(doc'[x], s, p) = Returned(s)[p] - Part(doc[x], s, p)
  BY <1>0, RowChange
<1>3. CASE doc' = doc
  <2>1. Returned(s)' = Returned(s)
    BY <1>3 DEF Returned, Returns, Read
  <2>2. Returned(s)[p] \in Int
    BY <1>0, <1>3
  <2>3. ASSUME NEW q \in Products, Adds(k, n, q) PROVE q \in doc[k.ref].items
    <3>1. doc' = [doc EXCEPT ![k.ref].items = @ \cup {q}] /\ k.ref \in Refs
      BY <2>3 DEF Adds, Shape
    <3>2. doc'[k.ref].items = doc[k.ref].items \cup {q}
      BY <3>1, <1>1 DEF Doc
    <3> QED
      BY <3>2, <1>3
  <2> QED
    BY <2>1, <2>2, <2>3
<1>4. CASE Stores(k, n)
  <2>1. /\ k.pc = "store" /\ k.ref \in Refs /\ doc[k.ref].kind = "none"
        /\ doc'[k.ref].items = {} /\ \A r \in Refs \ {k.ref} : doc'[r] = doc[r]
    BY <1>1, <1>4 DEF Stores, Shape
  <2>2. Part(doc[k.ref], s, p) = 0 /\ Part(doc'[k.ref], s, p) = 0
    BY <2>1 DEF Part
  <2>3. /\ Returned(s)[p] \in Int /\ Returned(s)'[p] \in Int
        /\ Returned(s)'[p] - 0 = Returned(s)[p] - 0
    BY <2>1, <2>2, <1>0
  <2>4. \A q \in Products : ~Adds(k, n, q)
    BY <2>1 DEF Adds
  <2> QED
    BY <2>3, <2>4
<1>5. ASSUME NEW q \in Products, Adds(k, n, q)
      PROVE  /\ Returned(s)[p] \in Int /\ Returned(s)'[p] \in Int
             /\ k.of # s => Returned(s)'[p] = Returned(s)[p]
             /\ k.of = s /\ q \notin doc[k.ref].items
                  => Returned(s)'[p] = Returned(s)[p] + Added(k, p, q)
  <2>1. k.pc = "items" /\ k.ref \in Refs /\ doc' = [doc EXCEPT ![k.ref].items = @ \cup {q}]
    BY <1>5 DEF Adds, Shape
  <2>2. /\ doc'[k.ref].items = doc[k.ref].items \cup {q} /\ SameRow(k.ref)
        /\ \A r \in Refs \ {k.ref} : doc'[r] = doc[r]
    BY <1>1, <2>1 DEF Doc, SameRow
  <2>3. /\ Returned(s)[p] \in Int /\ Returned(s)'[p] \in Int
        /\ Part(doc[k.ref], s, p) \in Nat /\ Part(doc'[k.ref], s, p) \in Nat
        /\ Returned(s)'[p] - Part(doc'[k.ref], s, p) = Returned(s)[p] - Part(doc[k.ref], s, p)
    BY <2>1, <2>2, <1>0
  <2>4. doc[k.ref].of = k.of /\ doc[k.ref].kind = k.kind /\ doc[k.ref].lines = k.lines
    BY <1>2, <2>1 DEF OwnDoc, HasDoc
  <2>5. CASE k.of # s
    <3>1. Part(doc[k.ref], s, p) = 0 /\ Part(doc'[k.ref], s, p) = 0
      BY <2>2, <2>4, <2>5 DEF Part, SameRow
    <3> QED
      BY <2>3, <2>5, <3>1
  <2>6. CASE k.of = s /\ q \notin doc[k.ref].items
    <3>1. k.kind = "return"
      BY <2>1, <2>6 DEF Shape, Refs
    <3>2. Part(doc'[k.ref], s, p) = Part(doc[k.ref], s, p) + Added(k, p, q)
      <4>1. k.lines[p] \in Nat
        BY <1>1 DEF Call, Lines
      <4>2. Part(doc[k.ref], s, p) = IF p \in doc[k.ref].items THEN k.lines[p] ELSE 0
        BY <2>4, <2>6, <3>1 DEF Part
      <4>3. Part(doc'[k.ref], s, p) = IF p \in doc[k.ref].items \cup {q} THEN k.lines[p] ELSE 0
        BY <2>2, <2>4, <2>6, <3>1 DEF Part, SameRow
      <4> QED
        BY <2>6, <4>1, <4>2, <4>3 DEF Added
    <3>3. Added(k, p, q) \in Int
      BY <1>1 DEF Call, Lines, Added
    <3> QED
      BY <2>3, <2>6, <3>2, <3>3
  <2> QED
    BY <2>3, <2>5, <2>6
<1>6. CASE Marks(k, n)
  <2>1. PICK row \in Doc : row.kind = doc[k.of].kind /\ doc' = [doc EXCEPT ![k.of] = row]
    BY <1>6 DEF Marks
  <2>2. k.of \in Refs /\ doc[k.of].kind = "sale" /\ \A q \in Products : ~Adds(k, n, q)
    BY <1>2, <1>6 DEF Marks, Marking, OfSale, Adds, Refs
  <2>3. doc'[k.of].kind = "sale" /\ \A r \in Refs \ {k.of} : doc'[r] = doc[r]
    BY <1>1, <2>1, <2>2
  <2>4. Part(doc[k.of], s, p) = 0 /\ Part(doc'[k.of], s, p) = 0
    BY <2>2, <2>3 DEF Part
  <2>5. /\ Returned(s)[p] \in Int /\ Returned(s)'[p] \in Int
        /\ Returned(s)'[p] - 0 = Returned(s)[p] - 0
    BY <2>2, <2>3, <2>4, <1>0
  <2> QED
    BY <2>2, <2>5
<1>7. CASE \E q \in Products : Adds(k, n, q)
  <2>1. PICK q \in Products : Adds(k, n, q)
    BY <1>7
  <2>2. Returned(s)[p] \in Int /\ Returned(s)'[p] \in Int
    BY <2>1, <1>5
  <2> QED
    BY <2>2, <1>5, <1>7
<1> QED
  BY <1>3, <1>4, <1>6, <1>7 DEF Turn, Arrives, Moves, Ends, Writes, Logs, Counts

\* What a return in progress will still add to the item rows of its product.
Yet(k, p) ==
  IF k.pc \in {"read", "write", "log", "store"} \/ (k.pc = "items" /\ p \in k.todo)
  THEN k.lines[p] ELSE 0
Returning(k, s) == k.pc # "idle" /\ k.kind = "return" /\ k.of = s

ItemsOpen ==
  \A c \in Calls : call[c].pc = "items" /\ call[c].kind = "return"
                     => call[c].todo \cap doc[call[c].ref].items = {}

\* A sale whose returns come one at a time has room for the one in progress.
Fits(s) ==
  /\ \A p \in Products : Returned(s)[p] <= doc[s].lines[p]
  /\ \A c, d \in Calls : Returning(call[c], s) /\ Returning(call[d], s) => c = d
  /\ \A c \in Calls : Returning(call[c], s) =>
       \A p \in Products : Returned(s)[p] + Yet(call[c], p) <= doc[s].lines[p]
ReturnsFit == \A s \in Refs \ raced : doc[s].kind = "sale" => Fits(s)

\* The coverage that a return will write, or has written, is right in the end.
Covers(s) ==
  /\ doc[s].coverage = "full" => Sum(Returned(s)) >= Sum(doc[s].lines)
  /\ \A c \in Calls : Returning(call[c], s) /\ call[c].coverage = "full" =>
       Sum([p \in Products |-> Returned(s)[p] + Yet(call[c], p)]) >= Sum(doc[s].lines)
MarksCover == \A s \in Refs \ (raced \cup partial) : Covers(s)

\* Nothing changes the document of another return in progress.
LEMMA OtherRow ==
  ASSUME TypeInv, Shapes, Owners, NEW c \in Calls, NEW n, Turn(call[c], n),
         NEW d \in Calls \ {c}, HasDoc(call[d]), call[d].kind = "return"
  PROVE  doc'[call[d].ref] = doc[call[d].ref]
<1>k. PICK k : k = call[c]
  OBVIOUS
<1>r. PICK r : r = call[d].ref
  OBVIOUS
<1>1. doc \in [Refs -> Doc] /\ k \in Call /\ Shape(k) /\ Turn(k, n) /\ Shape(call[d])
  BY <1>k DEF TypeInv, TypeOK, Shapes
<1>2. OwnDoc(call[d], doc[r]) /\ OfSale(k) /\ (HasDoc(k) => k.ref # r)
  BY <1>k, <1>r DEF Owners
<1>3. doc[r].kind = "return"
  BY <1>2 DEF OwnDoc
<1>4. CASE doc' = doc
  BY <1>4, <1>r
<1>5. CASE Stores(k, n)
  BY <1>1, <1>3, <1>5, <1>r DEF Stores
<1>6. CASE \E q \in Products : Adds(k, n, q)
  <2>1. PICK q \in Products : Adds(k, n, q)
    BY <1>6
  <2>2. HasDoc(k) /\ doc' = [doc EXCEPT ![k.ref].items = @ \cup {q}]
    BY <2>1 DEF Adds, HasDoc
  <2> QED
    BY <2>2, <1>1, <1>2, <1>r
<1>7. CASE Marks(k, n)
  <2>1. k.of \in Refs /\ doc[k.of].kind = "sale"
    BY <1>2, <1>7 DEF Marks, Marking, OfSale, Refs
  <2>2. \E row : doc' = [doc EXCEPT ![k.of] = row]
    BY <1>7 DEF Marks
  <2> QED
    BY <2>1, <2>2, <1>1, <1>3, <1>r
<1> QED
  BY <1>1, <1>4, <1>5, <1>6, <1>7 DEF Turn, Arrives, Moves, Ends, Writes, Logs, Counts

\* The steps of the list keep the items that a return has yet to store out of its document.
LEMMA ItemsOpenStep ==
  ASSUME TypeInv, TypeInv', Shapes, OneTurn, Owners, ItemsOpen
  PROVE  ItemsOpen'
<1>c. PICK c \in Calls : (\A d \in Calls \ {c} : call'[d] = call[d]) /\ Turn(call[c], call'[c])
  BY DEF OneTurn
<1>k. PICK k : k = call[c]
  OBVIOUS
<1>n. PICK n : n = call'[c]
  OBVIOUS
<1>1. doc \in [Refs -> Doc] /\ k \in Call /\ Shape(k) /\ Turn(k, n)
  BY <1>c, <1>k, <1>n DEF TypeInv, TypeOK, Shapes
<1>2. ASSUME NEW d \in Calls \ {c}, call[d].pc = "items", call[d].kind = "return"
      PROVE  call[d].todo \cap doc'[call[d].ref].items = {}
  <2>1. HasDoc(call[d])
    BY <1>2 DEF HasDoc
  <2>2. doc'[call[d].ref] = doc[call[d].ref]
    BY <2>1, <1>2, <1>c, OtherRow
  <2> QED
    BY <2>2, <1>2 DEF ItemsOpen
<1>3. ASSUME n.pc = "items", n.kind = "return" PROVE n.todo \cap doc'[n.ref].items = {}
  <2>1. CASE Stores(k, n)
    <3>1. doc'[k.ref].items = {} /\ n.ref = k.ref
      BY <2>1, <1>1 DEF Stores, Same, Shape
    <3> QED
      BY <3>1
  <2>2. CASE \E q \in Products : Adds(k, n, q)
    <3>1. PICK q \in Products : Adds(k, n, q)
      BY <2>2
    <3>2. /\ k.pc = "items" /\ Same(k, n) /\ n.todo = k.todo \ {q}
          /\ doc' = [doc EXCEPT ![k.ref].items = @ \cup {q}]
      BY <3>1, <1>3 DEF Adds
    <3>3. k.ref \in Refs /\ n.ref = k.ref /\ k.kind = "return"
      BY <3>2, <1>1, <1>3 DEF Shape, Same
    <3>4. doc'[n.ref].items = doc[k.ref].items \cup {q}
      BY <3>2, <3>3, <1>1 DEF Doc
    <3>5. k.todo \cap doc[k.ref].items = {}
      BY <3>2, <3>3, <1>k DEF ItemsOpen
    <3> QED
      BY <3>2, <3>4, <3>5
  <2> QED
    BY <1>1, <1>3, <2>1, <2>2
    DEF Turn, Arrives, Moves, Ends, Writes, Logs, Marks, Counts, Transfers, Marking
<1> QED
  BY <1>2, <1>3, <1>c, <1>n DEF ItemsOpen

\* A return that goes on has as much still to add as its step did not add.
LEMMA YetStep ==
  ASSUME NEW k \in Call, NEW n \in Call, Turn(k, n), Shape(k), k.pc # "idle",
         k.kind = "return", n.pc # "idle", NEW p \in Products
  PROVE  /\ (~ \E q \in Products : Adds(k, n, q)) => Yet(n, p) = Yet(k, p)
         /\ \A q \in Products : Adds(k, n, q)
              => Yet(n, p) + Added(k, p, q) = Yet(k, p)
<1>1. k.lines[p] \in Nat
  BY DEF Call, Lines
<1>2. Same(k, n) /\ n.lines = k.lines /\ n.kind = k.kind
  BY SameRequest DEF Same, Arrives
<1>3. CASE Moves(k, n)
  <2>1. (k.pc = "read" /\ n.pc = "write") \/ (k.pc = "mark" /\ n.pc = "markWrite")
    BY <1>3 DEF Moves, Shape
  <2> QED
    BY <2>1, <1>2 DEF Yet, Adds
<1>4. CASE Writes(k, n) \/ Logs(k, n)
  BY <1>2, <1>4 DEF Writes, Logs, Yet, Adds
<1>5. CASE Stores(k, n)
  <2>1. k.pc = "store" /\ n.pc = "items" /\ n.todo = Of(k.lines)
    BY <1>5 DEF Stores
  <2>2. p \notin n.todo => k.lines[p] = 0
    BY <2>1, <1>1 DEF Of
  <2> QED
    BY <2>1, <2>2, <1>1, <1>2 DEF Yet, Adds
<1>6. CASE Marks(k, n)
  <2>1. k.pc \in Marking /\ n.pc \in Marking
    BY <1>6 DEF Marks
  <2> QED
    BY <2>1 DEF Yet, Adds, Marking
<1>7. ASSUME NEW q \in Products, Adds(k, n, q)
      PROVE  Yet(n, p) + Added(k, p, q) = Yet(k, p)
  <2>1. k.pc = "items" /\ q \in k.todo
    BY <1>7 DEF Adds
  <2>2. Yet(k, p) = IF p \in k.todo THEN k.lines[p] ELSE 0
    BY <2>1 DEF Yet
  <2>3. CASE n.pc = "items"
    <3>1. n.todo = k.todo \ {q}
      BY <1>7, <2>3 DEF Adds
    <3>2. Yet(n, p) = IF p \in k.todo \ {q} THEN k.lines[p] ELSE 0
      BY <3>1, <2>3, <1>2 DEF Yet
    <3> QED
      BY <3>2, <2>1, <2>2, <1>1 DEF Added
  <2>4. CASE n.pc = "mark"
    <3>1. k.todo = {q}
      BY <1>7, <2>4 DEF Adds
    <3>2. Yet(n, p) = 0
      BY <2>4 DEF Yet
    <3> QED
      BY <3>1, <3>2, <2>2, <1>1 DEF Added
  <2> QED
    BY <1>7, <2>1, <2>3, <2>4 DEF Adds, Shape
<1> QED
  BY <1>2, <1>3, <1>4, <1>5, <1>6, <1>7 DEF Turn, Arrives, Ends, Counts, Shape

\* How the returns of a sale grow in a step.
LEMMA ReturnedGrows ==
  ASSUME TypeInv, TypeInv', Shapes, Owners, ItemsOpen, NEW c \in Calls, NEW k, k = call[c],
         NEW n, n = call'[c], Turn(k, n), NEW s \in Refs, NEW p \in Products
  PROVE  /\ Returned(s)[p] \in Int /\ Returned(s)'[p] \in Int
         /\ Yet(k, p) \in Nat /\ Yet(n, p) \in Nat
         /\ ~Returning(k, s) => Returned(s)'[p] = Returned(s)[p]
         /\ Returned(s)[p] <= Returned(s)'[p]
         /\ Returning(k, s) => Returned(s)'[p] <= Returned(s)[p] + Yet(k, p)
         /\ Returning(k, s) /\ n.pc # "idle"
              => Returned(s)'[p] + Yet(n, p) = Returned(s)[p] + Yet(k, p)
<1>1. k \in Call /\ n \in Call /\ Shape(k)
  BY DEF TypeInv, TypeOK, Shapes
<1>2. k.lines[p] \in Nat /\ n.lines[p] \in Nat
  BY <1>1 DEF Call, Lines
<1>3. Yet(k, p) \in Nat /\ Yet(n, p) \in Nat
  BY <1>2 DEF Yet
<1>4. /\ Returned(s)[p] \in Int /\ Returned(s)'[p] \in Int
      /\ (~ \E q \in Products : Adds(k, n, q) /\ k.of = s) => Returned(s)'[p] = Returned(s)[p]
      /\ \A q \in Products : Adds(k, n, q) /\ k.of = s /\ q \notin doc[k.ref].items
           => Returned(s)'[p] = Returned(s)[p] + Added(k, p, q)
  <2>1. Returned(s)[p] \in Int /\ Returned(s)'[p] \in Int
    BY <1>1, ReturnedStep
  <2>2. (~ \E q \in Products : Adds(k, n, q) /\ k.of = s) => Returned(s)'[p] = Returned(s)[p]
    BY <1>1, ReturnedStep
  <2>3. \A q \in Products : Adds(k, n, q) /\ k.of = s /\ q \notin doc[k.ref].items
           => Returned(s)'[p] = Returned(s)[p] + Added(k, p, q)
    BY <1>1, ReturnedStep, Zenon
  <2> QED
    BY <2>1, <2>2, <2>3
<1>5. CASE Returning(k, s)
  <2>0. k.pc # "idle" /\ k.kind = "return" /\ k.of = s
    BY <1>5 DEF Returning
  <2>1. ASSUME NEW q \in Products, Adds(k, n, q)
        PROVE  /\ Returned(s)'[p] = Returned(s)[p] + Added(k, p, q)
               /\ Added(k, p, q) <= Yet(k, p)
    <3>1. k.pc = "items" /\ q \in k.todo
      BY <2>1 DEF Adds
    <3>2. q \notin doc[k.ref].items
      BY <3>1, <2>0 DEF ItemsOpen
    <3>3. Added(k, p, q) <= Yet(k, p)
      BY <3>1, <1>2, <1>3 DEF Yet, Added
    <3> QED
      BY <2>0, <2>1, <3>2, <3>3, <1>4
  <2>2. n.pc # "idle" =>
          /\ (~ \E q \in Products : Adds(k, n, q)) => Yet(n, p) = Yet(k, p)
          /\ \A q \in Products : Adds(k, n, q)
               => Yet(n, p) + Added(k, p, q) = Yet(k, p)
    BY <2>0, <1>1, YetStep
  <2>3. CASE \E q \in Products : Adds(k, n, q)
    <3>1. PICK q \in Products : Adds(k, n, q)
      BY <2>3
    <3>2. PICK x \in Nat : x = Added(k, p, q)
      BY <1>2 DEF Added
    <3>3. Returned(s)'[p] = Returned(s)[p] + x /\ x <= Yet(k, p)
      BY <3>1, <3>2, <2>1
    <3>4. n.pc # "idle" => Yet(n, p) + x = Yet(k, p)
      BY <3>1, <3>2, <2>2
    <3> QED
      BY <3>3, <3>4, <1>3, <1>4, <1>5
  <2>4. CASE ~ \E q \in Products : Adds(k, n, q)
    <3>1. Returned(s)'[p] = Returned(s)[p]
      BY <2>4, <1>4
    <3>2. n.pc # "idle" => Yet(n, p) = Yet(k, p)
      BY <2>4, <2>2
    <3> QED
      BY <3>1, <3>2, <1>3, <1>4, <1>5
  <2> QED
    BY <2>3, <2>4
<1>6. CASE ~Returning(k, s)
  <2>1. ASSUME NEW q \in Products, Adds(k, n, q), k.of = s PROVE FALSE
    <3>1. k.kind = "return" /\ k.pc # "idle"
      BY <2>1, <1>1 DEF Shape, Adds, Refs
    <3> QED
      BY <3>1, <2>1, <1>6 DEF Returning
  <2>2. Returned(s)'[p] = Returned(s)[p]
    BY <2>1, <1>4
  <2> QED
    BY <2>2, <1>3, <1>4, <1>6
<1> QED
  BY <1>5, <1>6

\* What is not a stored sale has no returns.
LEMMA NoReturns ==
  ASSUME TypeInv, Owners, NEW s \in Refs, doc[s].kind # "sale"
  PROVE  /\ \A p \in Products : Returned(s)[p] = 0
         /\ \A c \in Calls : ~Returning(call[c], s)
<1>1. Returns(s) = {}
  BY DEF Owners, Returns, Refs
<1>2. ASSUME NEW p \in Products PROVE Returned(s)[p] = 0
  <2>1. PICK f : f = [r \in Returns(s) |-> Read(r)[p]]
    OBVIOUS
  <2>2. DOMAIN f = {}
    BY <2>1, <1>1
  <2>3. IsFiniteSet({}) /\ \A r \in {} : f[r] = 0
    BY FS_EmptySet
  <2>4. SumFunction(f) = 0
    BY <2>2, <2>3, SumZero
  <2> QED
    BY <2>1, <2>4 DEF Returned
<1>3. ASSUME NEW c \in Calls PROVE ~Returning(call[c], s)
  BY DEF Returning, Owners, OfSale, Refs
<1> QED
  BY <1>2, <1>3

\* A sale that is stored just now has none either.
LEMMA NewSale ==
  ASSUME TypeInv, TypeInv', Shapes, Owners, ItemsOpen,
         NEW c \in Calls, \A d \in Calls \ {c} : call'[d] = call[d],
         Turn(call[c], call'[c]), NEW s \in Refs, ~SameRow(s)
  PROVE  /\ \A p \in Products : Returned(s)'[p] = 0
         /\ \A d \in Calls : ~Returning(call'[d], s)
         /\ doc'[s].coverage = "none"
<1>k. PICK k : k = call[c]
  OBVIOUS
<1>n. PICK n : n = call'[c]
  OBVIOUS
<1>1. k \in Call /\ n \in Call /\ Shape(k) /\ Turn(k, n) /\ doc \in [Refs -> Doc]
  BY <1>k, <1>n DEF TypeInv, TypeOK, Shapes
<1>2. Stores(k, n) /\ s = k.ref
  BY <1>1, DocsKept
<1>3. doc[s].kind # "sale" /\ doc'[s].coverage = "none"
  BY <1>1, <1>2 DEF Stores
<1>4. /\ \A p \in Products : Returned(s)[p] = 0
      /\ \A d \in Calls : ~Returning(call[d], s)
  BY <1>3, NoReturns
<1>5. ASSUME NEW p \in Products PROVE Returned(s)'[p] = 0
  <2>1. Returned(s)'[p] = Returned(s)[p]
    BY <1>k, <1>n, <1>1, <1>4, ReturnedGrows
  <2> QED
    BY <2>1, <1>4
<1>6. ~Returning(n, s)
  BY <1>2, <1>4, <1>k DEF Returning, Stores, Same
<1> QED
  BY <1>3, <1>4, <1>5, <1>6, <1>n

\* A return of a sale that is not raced arrives when no other is in progress, and finds
\* room in what it reads of the sale, which is no more than the sale.
LEMMA GrantedAlone ==
  ASSUME TypeInv, NEW k, NEW n \in Call, Arrives(k, n), NEW s \in Refs \ raced',
         Returning(n, s)
  PROVE  /\ \A d \in Calls : ~Returning(call[d], s)
         /\ \A p \in Products : Yet(n, p) = n.lines[p]
         /\ \A p \in Of(n.lines) : \E q \in Nat :
              q <= doc[s].lines[p] /\ n.lines[p] + Returned(s)[p] <= q
         /\ UNCHANGED doc
<1>1. n.kind = "return" /\ n.of = s /\ s # 0
  BY DEF Returning, Refs
<1>2. n.pc = "read" /\ Granted(s, n) /\ UNCHANGED doc
  BY <1>1 DEF Arrives, Transfers
<1>3. doc[s] \in Doc /\ \A d \in Calls : ~Returning(call[d], s)
  BY <1>2 DEF Granted, Returning, TypeInv, TypeOK
<1>4. ASSUME NEW p \in Products PROVE Yet(n, p) = n.lines[p]
  BY <1>2 DEF Yet
<1>5. ASSUME NEW p \in Of(n.lines)
      PROVE  \E q \in Nat : q <= doc[s].lines[p] /\ n.lines[p] + Returned(s)[p] <= q
  <2>1. p \in Products /\ n.lines[p] + Returned(s)[p] <= Read(s)[p]
    BY <1>2 DEF Granted, WithinSale, Of
  <2>2. doc[s].lines[p] \in Nat
    BY <2>1, <1>3 DEF Doc, Lines
  <2>3. Read(s)[p] = (IF p \in doc[s].items THEN doc[s].lines[p] ELSE 0)
    BY <2>1 DEF Read
  <2>4. Read(s)[p] \in Nat /\ Read(s)[p] <= doc[s].lines[p]
    BY <2>2, <2>3
  <2> QED
    BY <2>1, <2>4
<1> QED
  BY <1>2, <1>3, <1>4, <1>5

\* One that reads all items of the sale writes a coverage that is right for the sale.
LEMMA GrantedCovers ==
  ASSUME TypeInv, NEW k, NEW n \in Call, Arrives(k, n), NEW s \in Refs \ partial',
         Returning(n, s), n.coverage = "full"
  PROVE  Sum([p \in Products |-> Returned(s)[p] + n.lines[p]]) >= Sum(doc[s].lines)
<1>1. n.kind = "return" /\ n.of = s /\ s # 0
  BY DEF Returning, Refs
<1>2. Granted(s, n)
  BY <1>1 DEF Arrives, Transfers
<1>3. doc[s].items = Of(doc[s].lines) /\ doc[s] \in Doc
  BY <1>2 DEF Granted, TypeInv, TypeOK
<1>4. ASSUME NEW p \in Products PROVE Read(s)[p] = doc[s].lines[p]
  <2>1. p \notin doc[s].items => doc[s].lines[p] = 0
    BY <1>3 DEF Of, Doc, Lines
  <2> QED
    BY <2>1 DEF Read
<1>5. Read(s) = doc[s].lines
  <2>1. doc[s].lines \in [Products -> 0..MaxQty] /\ Read(s) = [p \in Products |-> Read(s)[p]]
    BY <1>3 DEF Doc, Lines, Read
  <2>2. doc[s].lines = [p \in Products |-> doc[s].lines[p]]
    BY <2>1
  <2> QED
    BY <2>1, <2>2, <1>4
<1> QED
  BY <1>2, <1>5 DEF Granted, Full

\* They keep the returned quantities within the sales.
LEMMA ReturnsFitStep ==
  ASSUME TypeInv, TypeInv', Shapes, Owners, ItemsOpen, OneTurn, ReturnsFit
  PROVE  ReturnsFit'
<1>c. PICK c \in Calls : (\A d \in Calls \ {c} : call'[d] = call[d]) /\ Turn(call[c], call'[c])
  BY DEF OneTurn
<1>k. PICK k : k = call[c]
  OBVIOUS
<1>n. PICK n : n = call'[c]
  OBVIOUS
<1>1. k \in Call /\ n \in Call /\ Shape(k) /\ Turn(k, n) /\ raced \subseteq raced'
  <2>1. k \in Call /\ n \in Call /\ Shape(k) /\ Turn(k, n)
    BY <1>c, <1>k, <1>n DEF TypeInv, TypeOK, Shapes
  <2>2. raced \subseteq raced'
    BY <2>1 DEF Turn, Arrives, Moves, Ends, Writes, Logs, Stores, Adds, Marks, Counts
  <2> QED
    BY <2>1, <2>2
<1> SUFFICES ASSUME NEW s \in Refs, s \notin raced', doc'[s].kind = "sale"
             PROVE  Fits(s)'
  BY DEF ReturnsFit
<1>2. /\ \A p \in Products : doc[s].lines[p] \in Nat /\ doc'[s].lines[p] \in Nat
      /\ \A p \in Products : n.lines[p] \in Nat
  BY <1>1 DEF TypeInv, TypeOK, Doc, Call, Lines
<1>3. CASE ~SameRow(s)
  <2>1. /\ \A p \in Products : Returned(s)'[p] = 0
        /\ \A d \in Calls : ~Returning(call'[d], s)
    BY <1>3, <1>c, NewSale
  <2> QED
    BY <2>1, <1>2 DEF Fits
<1>4. CASE SameRow(s)
  <2>1. /\ doc[s].kind = "sale" /\ s \notin raced /\ doc'[s].lines = doc[s].lines
    BY <1>1, <1>4 DEF SameRow
  <2>2. /\ \A p \in Products : Returned(s)[p] <= doc[s].lines[p]
        /\ \A d, e \in Calls : Returning(call[d], s) /\ Returning(call[e], s) => d = e
        /\ \A d \in Calls : Returning(call[d], s) =>
             \A p \in Products : Returned(s)[p] + Yet(call[d], p) <= doc[s].lines[p]
    BY <2>1 DEF ReturnsFit, Fits
  <2>3. ASSUME NEW p \in Products
        PROVE  /\ Returned(s)[p] \in Int /\ Returned(s)'[p] \in Int
               /\ Yet(k, p) \in Nat /\ Yet(n, p) \in Nat
               /\ ~Returning(k, s) => Returned(s)'[p] = Returned(s)[p]
               /\ Returned(s)[p] <= Returned(s)'[p]
               /\ Returning(k, s) => Returned(s)'[p] <= Returned(s)[p] + Yet(k, p)
               /\ Returning(k, s) /\ n.pc # "idle"
                    => Returned(s)'[p] + Yet(n, p) = Returned(s)[p] + Yet(k, p)
    BY <1>k, <1>n, <1>1, ReturnedGrows
  <2>4. Returning(n, s) => Arrives(k, n) \/ Returning(k, s)
    BY <1>1, SameRequest DEF Returning, Same
  <2>5. Arrives(k, n) => ~Returning(k, s)
    BY DEF Arrives, Returning
  <2>6. \A p \in Products : Returned(s)'[p] <= doc[s].lines[p]
    <3> SUFFICES ASSUME NEW p \in Products PROVE Returned(s)'[p] <= doc[s].lines[p]
      OBVIOUS
    <3>1. CASE Returning(k, s)
      <4>1. Returned(s)[p] + Yet(k, p) <= doc[s].lines[p]
        BY <3>1, <2>2, <1>k
      <4> QED
        BY <3>1, <4>1, <2>3, <1>2
    <3>2. CASE ~Returning(k, s)
      BY <3>2, <2>2, <2>3
    <3> QED
      BY <3>1, <3>2
  <2>7. \A d \in Calls \ {c} : Returning(call[d], s) => ~Returning(n, s)
    <3>1. CASE Arrives(k, n)
      BY <3>1, <1>1, GrantedAlone
    <3>2. CASE ~Arrives(k, n)
      BY <3>2, <2>2, <2>4, <1>k
    <3> QED
      BY <3>1, <3>2
  <2>8. \A d, e \in Calls : Returning(call'[d], s) /\ Returning(call'[e], s) => d = e
    BY <2>2, <2>7, <1>c, <1>n
  <2>9. ASSUME NEW d \in Calls \ {c}, Returning(call[d], s), NEW p \in Products
        PROVE  Returned(s)'[p] + Yet(call[d], p) <= doc[s].lines[p]
    <3>1. ~Returning(k, s)
      BY <2>2, <2>9, <1>k
    <3>2. Returned(s)[p] + Yet(call[d], p) <= doc[s].lines[p]
      BY <2>2, <2>9
    <3> QED
      BY <3>1, <3>2, <2>3
  <2>10. ASSUME Returning(n, s), NEW p \in Products
         PROVE  Returned(s)'[p] + Yet(n, p) <= doc[s].lines[p]
    <3>1. CASE Arrives(k, n)
      <4>1. /\ Yet(n, p) = n.lines[p]
            /\ p \in Of(n.lines) => n.lines[p] + Returned(s)[p] <= doc[s].lines[p]
        <5>1. Yet(n, p) = n.lines[p]
          BY <3>1, <2>10, <1>1, GrantedAlone
        <5>2. p \in Of(n.lines) => \E q \in Nat :
                q <= doc[s].lines[p] /\ n.lines[p] + Returned(s)[p] <= q
          BY <3>1, <2>10, <1>1, GrantedAlone
        <5> QED
          BY <5>1, <5>2, <2>3, <1>2
      <4>2. p \notin Of(n.lines) => n.lines[p] = 0
        BY <1>2 DEF Of
      <4>3. Returned(s)'[p] = Returned(s)[p]
        BY <3>1, <2>3, <2>5
      <4>4. Returned(s)[p] <= doc[s].lines[p]
        BY <2>2
      <4> QED
        BY <4>1, <4>2, <4>3, <4>4, <2>3, <1>2
    <3>2. CASE ~Arrives(k, n)
      <4>1. Returning(k, s) /\ n.pc # "idle"
        BY <3>2, <2>4, <2>10 DEF Returning
      <4>2. Returned(s)[p] + Yet(k, p) <= doc[s].lines[p]
        BY <4>1, <2>2, <1>k
      <4> QED
        BY <4>1, <4>2, <2>3
    <3> QED
      BY <3>1, <3>2
  <2>11. \A d \in Calls : Returning(call'[d], s) =>
           \A p \in Products : Returned(s)'[p] + Yet(call'[d], p) <= doc'[s].lines[p]
    <3> SUFFICES ASSUME NEW d \in Calls, Returning(call'[d], s), NEW p \in Products
                 PROVE  Returned(s)'[p] + Yet(call'[d], p) <= doc[s].lines[p]
      BY <2>1
    <3>1. CASE d = c
      BY <3>1, <2>10, <1>n
    <3>2. CASE d # c
      BY <3>2, <2>9, <1>c
    <3> QED
      BY <3>1, <3>2
  <2> QED
    BY <2>1, <2>6, <2>8, <2>11 DEF Fits
<1> QED
  BY <1>3, <1>4

\* A return writes the coverage that it carries, and only then.
LEMMA CoverageStep ==
  ASSUME TypeInv, NEW k \in Call, NEW n, Turn(k, n), Shape(k), NEW s \in Refs, SameRow(s)
  PROVE  \/ doc'[s].coverage = doc[s].coverage
         \/ Marks(k, n) /\ k.of = s /\ k.pc = "markWrite" /\ doc'[s].coverage = k.coverage
<1>1. doc \in [Refs -> Doc]
  BY DEF TypeInv, TypeOK
<1>2. CASE doc' = doc
  BY <1>2
<1>3. CASE Stores(k, n)
  <2>1. k.ref # s
    BY <1>1, <1>3 DEF Stores, SameRow, Shape
  <2> QED
    BY <2>1, <1>1, <1>3 DEF Stores
<1>4. ASSUME NEW p \in Products, Adds(k, n, p) PROVE doc'[s].coverage = doc[s].coverage
  BY <1>1, <1>4 DEF Adds, Doc
<1>5. CASE Marks(k, n)
  <2>1. PICK row \in Doc :
          /\ row.coverage = doc[k.of].coverage \/ (k.pc = "markWrite" /\ row.coverage = k.coverage)
          /\ doc' = [doc EXCEPT ![k.of] = row]
    BY <1>5 DEF Marks
  <2> QED
    BY <2>1, <1>1, <1>5
<1> QED
  BY <1>2, <1>3, <1>4, <1>5 DEF Turn, Arrives, Moves, Ends, Writes, Logs, Counts

\* The lines of a document, and numbers per product, have a sum.
LEMMA LinesSum ==
  ASSUME NEW f \in [Products -> Int], NEW g \in [Products -> Int],
         \A p \in Products : f[p] <= g[p], NEW b \in Int, Sum(f) >= b
  PROVE  Sum(g) >= b
<1>1. SumFunction(f) <= SumFunction(g) /\ SumFunction(f) \in Int /\ SumFunction(g) \in Int
  BY SumMonotone, SumType, PosStockAssumption
<1> QED
  BY <1>1 DEF Sum

\* They keep the marks on sales in line with the returns.
LEMMA MarksCoverStep ==
  ASSUME TypeInv, TypeInv', Shapes, Owners, ItemsOpen, OneTurn, MarksCover
  PROVE  MarksCover'
<1>c. PICK c \in Calls : (\A d \in Calls \ {c} : call'[d] = call[d]) /\ Turn(call[c], call'[c])
  BY DEF OneTurn
<1>k. PICK k : k = call[c]
  OBVIOUS
<1>n. PICK n : n = call'[c]
  OBVIOUS
<1>1. /\ k \in Call /\ n \in Call /\ Shape(k) /\ Turn(k, n)
      /\ raced \subseteq raced' /\ partial \subseteq partial'
  <2>1. k \in Call /\ n \in Call /\ Shape(k) /\ Turn(k, n)
    BY <1>c, <1>k, <1>n DEF TypeInv, TypeOK, Shapes
  <2>2. raced \subseteq raced'
    BY <2>1 DEF Turn, Arrives, Moves, Ends, Writes, Logs, Stores, Adds, Marks, Counts
  <2> QED
    BY <2>1, <2>2 DEF OneTurn
<1> SUFFICES ASSUME NEW s \in Refs, s \notin raced', s \notin partial' PROVE Covers(s)'
  BY DEF MarksCover
<1>2. CASE ~SameRow(s)
  <2>1. (\A d \in Calls : ~Returning(call'[d], s)) /\ doc'[s].coverage = "none"
    BY <1>2, <1>c, NewSale
  <2> QED
    BY <2>1 DEF Covers
<1>3. CASE SameRow(s)
  <2>1. s \notin raced /\ s \notin partial /\ doc'[s].lines = doc[s].lines
    BY <1>1, <1>3 DEF SameRow
  <2>2. ASSUME NEW p \in Products
        PROVE  /\ Returned(s)[p] \in Int /\ Returned(s)'[p] \in Int
               /\ Yet(k, p) \in Nat /\ Yet(n, p) \in Nat
               /\ ~Returning(k, s) => Returned(s)'[p] = Returned(s)[p]
               /\ Returned(s)[p] <= Returned(s)'[p]
               /\ Returning(k, s) /\ n.pc # "idle"
                    => Returned(s)'[p] + Yet(n, p) = Returned(s)[p] + Yet(k, p)
    BY <1>k, <1>n, <1>1, ReturnedGrows
  <2>3. PICK total : total = Sum(doc[s].lines)
    OBVIOUS
  <2>4. total \in Int
    <3>1. doc[s].lines \in [Products -> 0..MaxQty]
      BY DEF TypeInv, TypeOK, Doc, Lines
    <3>2. doc[s].lines \in [Products -> Int]
      BY <3>1
    <3> QED
      BY <2>3, <3>2, SumType, PosStockAssumption DEF Sum
  <2>5. /\ doc[s].coverage = "full" => Sum(Returned(s)) >= total
        /\ \A d \in Calls : Returning(call[d], s) /\ call[d].coverage = "full" =>
             Sum([p \in Products |-> Returned(s)[p] + Yet(call[d], p)]) >= total
    BY <2>1, <2>3 DEF MarksCover, Covers
  <2>a. PICK f \in [Products -> Int] : f = Returned(s)
    <3>1. Returned(s) = [p \in Products |-> Returned(s)[p]]
      BY DEF Returned
    <3> QED
      BY <3>1, <2>2
  <2>b. PICK g \in [Products -> Int] : g = Returned(s)'
    <3>1. Returned(s)' = [p \in Products |-> Returned(s)'[p]]
      BY DEF Returned
    <3> QED
      BY <3>1, <2>2
  <2>y. \A d \in Calls, p \in Products : Yet(call[d], p) \in Nat
    BY DEF TypeInv, TypeOK, Call, Lines, Yet
  <2>6. doc'[s].coverage = "full" => Sum(g) >= total
    <3> SUFFICES ASSUME doc'[s].coverage = "full" PROVE Sum(g) >= total
      OBVIOUS
    <3>1. CASE doc[s].coverage = "full"
      <4>1. Sum(f) >= total /\ \A p \in Products : f[p] <= g[p]
        BY <3>1, <2>2, <2>5, <2>a, <2>b
      <4> QED
        BY <4>1, <2>4, LinesSum
    <3>2. CASE Marks(k, n) /\ k.of = s /\ k.pc = "markWrite" /\ doc'[s].coverage = k.coverage
      <4>1. Returning(k, s) /\ k.coverage = "full"
        BY <3>2, <1>1 DEF Returning, Shape, Refs
      <4>2. PICK h : h = [p \in Products |-> Returned(s)[p] + Yet(k, p)]
        OBVIOUS
      <4>3. Sum(h) >= total
        BY <4>1, <4>2, <2>5, <1>k
      <4>4. \A p \in Products : Yet(k, p) = 0
        BY <3>2 DEF Yet
      <4>5. h \in [Products -> Int] /\ \A p \in Products : h[p] <= g[p]
        BY <4>2, <4>4, <2>2, <2>a, <2>b
      <4> QED
        BY <4>3, <4>5, <2>4, LinesSum
    <3> QED
      BY <3>1, <3>2, <1>1, <1>3, CoverageStep
  <2>7. ASSUME NEW d \in Calls \ {c}, Returning(call[d], s), call[d].coverage = "full"
        PROVE  Sum([p \in Products |-> Returned(s)'[p] + Yet(call[d], p)]) >= total
    <3>1. PICK h : h = [p \in Products |-> Returned(s)[p] + Yet(call[d], p)]
      OBVIOUS
    <3>2. PICK i : i = [p \in Products |-> Returned(s)'[p] + Yet(call[d], p)]
      OBVIOUS
    <3>3. Sum(h) >= total
      BY <2>5, <2>7, <3>1
    <3>4. /\ h \in [Products -> Int] /\ i \in [Products -> Int]
          /\ \A p \in Products : h[p] <= i[p]
      BY <2>2, <2>y, <3>1, <3>2
    <3> QED
      BY <2>4, <3>2, <3>3, <3>4, LinesSum
  <2>8. ASSUME Returning(n, s), n.coverage = "full"
        PROVE  Sum([p \in Products |-> Returned(s)'[p] + Yet(n, p)]) >= total
    <3>1. CASE Arrives(k, n)
      <4>1. /\ \A p \in Products : Yet(n, p) = n.lines[p]
            /\ Sum([p \in Products |-> Returned(s)[p] + n.lines[p]]) >= total
        <5>1. \A p \in Products : Yet(n, p) = n.lines[p]
          BY <3>1, <2>8, <1>1, GrantedAlone
        <5>2. Sum([p \in Products |-> Returned(s)[p] + n.lines[p]]) >= total
          BY <3>1, <2>3, <2>8, <1>1, GrantedCovers
        <5> QED
          BY <5>1, <5>2
      <4>2. \A p \in Products : Returned(s)'[p] = Returned(s)[p]
        BY <3>1, <2>2 DEF Arrives, Returning
      <4>3. [p \in Products |-> Returned(s)'[p] + Yet(n, p)]
              = [p \in Products |-> Returned(s)[p] + n.lines[p]]
        BY <4>1, <4>2
      <4> QED
        BY <4>1, <4>3
    <3>2. CASE ~Arrives(k, n)
      <4>1. Returning(k, s) /\ n.pc # "idle" /\ k.coverage = "full"
        BY <3>2, <2>8, <1>1, SameRequest DEF Returning, Same
      <4>2. Sum([p \in Products |-> Returned(s)[p] + Yet(k, p)]) >= total
        BY <4>1, <2>5, <1>k
      <4>3. [p \in Products |-> Returned(s)'[p] + Yet(n, p)]
              = [p \in Products |-> Returned(s)[p] + Yet(k, p)]
        BY <4>1, <2>2
      <4> QED
        BY <4>2, <4>3
    <3> QED
      BY <3>1, <3>2
  <2>9. ASSUME NEW d \in Calls, Returning(call'[d], s), call'[d].coverage = "full"
        PROVE  Sum([p \in Products |-> Returned(s)'[p] + Yet(call'[d], p)]) >= total
    <3>1. CASE d = c
      BY <3>1, <2>8, <2>9, <1>n
    <3>2. CASE d # c
      BY <3>2, <2>7, <2>9, <1>c
    <3> QED
      BY <3>1, <3>2
  <2>10. total = Sum(doc'[s].lines)
    BY <2>1, <2>3
  <2> QED
    BY <2>6, <2>9, <2>10, <2>b DEF Covers
<1> QED
  BY <1>2, <1>3

-----------------------------------------------------------------------------
(***************************************************************************)
(* What the returns put back. Whatever a return has put into the stock is  *)
(* in an item row, or lost, or still in the hands of the return.           *)
(***************************************************************************)
\* What a request has put back on account of the sale and not yet an item row for.
Held(k, s, p) == IF k.of = s THEN Unrecorded(k, p) ELSE 0
OpenGoods(s, p) == SumFunction([c \in Calls |-> Held(call[c], s, p)])

\* A return books a line that it still has to do.
Carried(k) == k.of # 0 /\ k.pc \in {"write", "log"} => k.p \in k.todo

Accounted ==
  /\ \A c \in Calls : Carried(call[c])
  /\ \A s \in Refs, p \in Products : back[s][p] = Returned(s)[p] + lost[s][p] + OpenGoods(s, p)

\* What a step of a request, which was k and becomes n, does to the goods put back: they
\* are the same as before, or the item row of q is stored.
Keeps(k, n) ==
  /\ Carried(n)
  /\ \A s \in Refs, p \in Products :
       \/ /\ back'[s][p] + lost[s][p] + Held(k, s, p) = back[s][p] + lost'[s][p] + Held(n, s, p)
          /\ ~ \E q \in Products : Adds(k, n, q) /\ k.of = s
       \/ \E q \in Products :
            /\ Adds(k, n, q) /\ k.of = s /\ q \notin doc[k.ref].items
            /\ back' = back /\ lost' = lost
            /\ Held(k, s, p) = Held(n, s, p) + Added(k, p, q)

\* A step that stores no item row of a return.
LEMMA KeepsQuietly ==
  ASSUME NEW k \in Call, NEW n \in Call, Carried(n), k.pc # "items" \/ k.of = 0,
         back' = back, lost' = lost, \A s \in Refs, p \in Products : Held(n, s, p) = Held(k, s, p)
  PROVE  Keeps(k, n)
<1>1. ASSUME NEW s \in Refs, NEW q \in Products, Adds(k, n, q), k.of = s PROVE FALSE
  BY <1>1 DEF Adds, Refs
<1> QED
  BY <1>1 DEF Keeps

\* A request without a receipt, or idle, holds nothing.
LEMMA HoldsNothing ==
  ASSUME NEW k, k.of = 0 \/ k.pc \notin {"read", "write", "log", "store", "items"}
  PROVE  \A s \in Refs, p \in Products : Held(k, s, p) = 0
BY DEF Held, Unrecorded, Refs

\* The arrival of a request puts nothing back,
LEMMA RequestKeeps ==
  ASSUME TypeInv, NEW c \in Calls, NEW k, k = call[c], NEW n, n = call'[c], n \in Call,
         Arrives(k, n), back' = back, lost' = lost, n.kind = "return" => n.todo = Of(n.lines)
  PROVE  Keeps(k, n)
<1>1. k \in Call /\ k.pc = "idle"
  BY DEF TypeInv, TypeOK, Arrives
<1>2. \A s \in Refs, p \in Products : Held(k, s, p) = 0
  BY <1>1, HoldsNothing
<1>3. Carried(n)
  BY DEF Arrives, Carried, Transfers
<1>4. CASE n.kind = "return" /\ n.pc = "read"
  <2>1. ASSUME NEW p \in Products PROVE Unrecorded(n, p) = 0
    <3>1. n.lines[p] \in Nat
      BY DEF Call, Lines
    <3>2. p \notin n.todo => n.lines[p] = 0
      BY <1>4, <3>1 DEF Of
    <3> QED
      BY <1>4, <3>2 DEF Unrecorded
  <2>2. \A s \in Refs, p \in Products : Held(n, s, p) = 0
    BY <2>1 DEF Held
  <2> QED
    BY <1>1, <1>2, <1>3, <2>2, KeepsQuietly
<1>5. CASE n.of = 0
  <2>1. \A s \in Refs, p \in Products : Held(n, s, p) = 0
    BY <1>5, HoldsNothing
  <2> QED
    BY <1>1, <1>2, <1>3, <2>1, KeepsQuietly
<1> QED
  BY <1>4, <1>5 DEF Arrives

\* ... and so with the requests themselves.
LEMMA RequestHeld ==
  ASSUME TypeInv, TypeInv', NEW c \in Calls,
         \/ \E lines \in Lines, card \in BOOLEAN : SaleRequest(c, lines, card)
         \/ \E lines \in Lines, of \in 0..MaxCalls : ReturnRequest(c, lines, of)
         \/ \E kind \in Kind, p \in Products, q \in 1..MaxQty : TransferRequest(c, kind, p, q)
         \/ SettingsRequest(c)
  PROVE  Keeps(call[c], call'[c])
<1> PICK n : n = call'[c]
  OBVIOUS
<1>0. n \in Call /\ Arrives(call[c], n)
  BY RequestTurn DEF TypeInv, TypeOK
<1>1. back' = back /\ lost' = lost
  <2>1. (\E lines \in Lines, of \in 0..MaxCalls : ReturnRequest(c, lines, of))
           => back' = back /\ lost' = lost
    BY DEF ReturnRequest
  <2> QED
    BY <2>1 DEF SaleRequest, TransferRequest, SettingsRequest, ghosts
<1>2. PICK k \in Call : Accept(c, k)
  <2>1. call'[c] \in Call
    BY DEF TypeInv, TypeOK
  <2> USE IdleType
  <2>2. ASSUME NEW lines \in Lines, NEW card \in BOOLEAN, SaleRequest(c, lines, card)
        PROVE  \E k \in Call : Accept(c, k)
    <3>1. [Idle EXCEPT !.pc = "check", !.lines = lines, !.card = card] \in Call
      BY DEF Call, Pc, Idle
    <3> QED
      BY <2>2, <3>1 DEF SaleRequest
  <2>3. ASSUME NEW lines \in Lines, NEW of \in 0..MaxCalls, ReturnRequest(c, lines, of)
        PROVE  \E k \in Call : Accept(c, k)
    <3>1. PICK cov \in {"none", "partial", "full"} :
            Accept(c, [Idle EXCEPT !.pc = "read", !.kind = "return", !.lines = lines,
                                   !.of = of, !.coverage = cov])
      BY <2>3 DEF ReturnRequest
    <3>2. [Idle EXCEPT !.pc = "read", !.kind = "return", !.lines = lines,
                       !.of = of, !.coverage = cov] \in Call
      BY DEF Call, Pc, Kind, Idle
    <3> QED
      BY <3>1, <3>2
  <2>4. ASSUME NEW kind \in Kind, NEW p \in Products, NEW q \in 1..MaxQty,
               TransferRequest(c, kind, p, q)
        PROVE  \E k \in Call : Accept(c, k)
    <3>1. [NoLines EXCEPT ![p] = q] \in Lines /\ stock[p] \in StockRow
      BY <2>4, PosStockAssumption DEF Lines, TypeInv, TypeOK
    <3>2. [Idle EXCEPT !.pc = "write", !.kind = kind, !.p = p, !.seen = stock[p],
                       !.lines = [NoLines EXCEPT ![p] = q]] \in Call
      BY <3>1 DEF Call, Pc, Idle
    <3> QED
      BY <2>4, <3>2 DEF TransferRequest
  <2>5. ASSUME SettingsRequest(c) PROVE \E k \in Call : Accept(c, k)
    <3>1. used \in Nat
      BY PosStockAssumption DEF TypeInv, TypeOK
    <3>2. [Idle EXCEPT !.pc = "writeCard", !.kind = "settings", !.used = used] \in Call
      BY <3>1 DEF Call, Pc, Kind, Idle
    <3> QED
      BY <2>5, <3>2 DEF SettingsRequest
  <2> QED
    BY <2>2, <2>3, <2>4, <2>5
<1>3. n.todo = Of(n.lines)
  <2>0. k \in Call /\ Accept(c, k)
    BY <1>2
  <2>1. PICK ref \in Refs : /\ call'[c] = [k EXCEPT !.ref = ref, !.todo = Of(k.lines)]
                            /\ \A d \in Calls \ {c} : call'[d] = call[d]
    BY <2>0, ArrivalIs
  <2>2. n = [k EXCEPT !.ref = ref, !.todo = Of(k.lines)]
    BY <2>1
  <2> QED
    BY <2>2 DEF Call
<1> QED
  BY <1>0, <1>1, <1>3, RequestKeeps

\* A request that ends before its time loses what it held.
LEMMA BrokenKeeps ==
  ASSUME TypeInv, Shapes, Owners, ItemsOpen, NEW c \in Calls, NEW k, k = call[c],
         NEW n, n = call'[c], Broken(c), back' = back, doc' = doc
  PROVE  Keeps(k, n)
<1>1. k \in Call /\ Shape(k) /\ call \in [Calls -> Call] /\ doc \in [Refs -> Doc]
      /\ back \in [Refs -> [Products -> Nat]] /\ lost \in [Refs -> [Products -> Nat]]
  BY DEF TypeInv, TypeOK, Shapes
<1>a. n = Idle
  BY <1>1, BrokenType
<1>2. n = Idle /\ n.of = 0
  BY <1>a DEF Idle
<1>3. Carried(n) /\ \A s \in Refs, p \in Products : Held(n, s, p) = 0
  BY <1>2, HoldsNothing DEF Carried
<1>4. ASSUME NEW s \in Refs, NEW q \in Products, Adds(k, n, q), k.of = s PROVE FALSE
  <2>1. k.pc = "items" /\ q \in k.todo /\ doc' = [doc EXCEPT ![k.ref].items = @ \cup {q}]
    BY <1>4 DEF Adds
  <2>2. k.kind = "return" /\ k.ref \in Refs
    BY <1>1, <1>4, <2>1 DEF Shape, Refs
  <2>3. q \in doc[k.ref].items
    BY <1>1, <2>1, <2>2 DEF Doc
  <2> QED
    BY <2>1, <2>2, <2>3 DEF ItemsOpen
<1>5. ASSUME NEW s \in Refs, NEW p \in Products
      PROVE  back'[s][p] + lost[s][p] + Held(k, s, p) = back[s][p] + lost'[s][p] + Held(n, s, p)
  <2>1. lost'[s] = IF s = k.of THEN [q \in Products |-> lost[s][q] + Unrecorded(k, q)]
                               ELSE lost[s]
    BY DEF Broken
  <2>2. lost'[s][p] = lost[s][p] + Held(k, s, p)
    BY <1>1, <2>1 DEF Held
  <2>3. Held(k, s, p) \in Nat /\ lost[s][p] \in Nat /\ back[s][p] \in Nat
    BY <1>1, UnrecordedType DEF Held
  <2> QED
    BY <1>3, <2>2, <2>3
<1> QED
  BY <1>3, <1>4, <1>5 DEF Keeps

\* A line of a return: put back, booked, and then the next.
LEMMA LineKeeps ==
  ASSUME TypeInv, TypeInv', Shapes, NEW c \in Calls, Carried(call[c]),
         (\E p \in Products : ReadStock(c, p)) \/ WriteStock(c) \/ LogStock(c)
  PROVE  Keeps(call[c], call'[c])
<1> PICK k : k = call[c]
  OBVIOUS
<1> PICK n : n = call'[c]
  OBVIOUS
<1>1. k \in Call /\ n \in Call /\ Shape(k) /\ call \in [Calls -> Call] /\ StageFits(k) /\ Carried(k)
  BY DEF TypeInv, TypeOK, Shapes, StagesFit
<1>2. \A p \in Products : k.lines[p] \in Nat
  BY <1>1 DEF Call, Lines
<1>3. ASSUME NEW m, call' = [call EXCEPT ![c] = m] PROVE n = m
  BY <1>1, <1>3
<1>4. ASSUME NEW p \in Products, ReadStock(c, p) PROVE Keeps(k, n)
  <2> PICK m : m = [k EXCEPT !.pc = "write", !.p = p, !.seen = stock[p]]
    OBVIOUS
  <2>0. call' = [call EXCEPT ![c] = m]
    BY <1>4 DEF ReadStock
  <2>1. n = m
    BY <2>0, <1>3
  <2>2. /\ n.pc = "write" /\ n.p = p /\ n.todo = k.todo /\ n.lines = k.lines /\ n.of = k.of
        /\ k.pc = "read" /\ p \in k.todo
    BY <1>1, <1>4, <2>1 DEF ReadStock, At, Call
  <2>3. \A s \in Refs, q \in Products : Held(n, s, q) = Held(k, s, q)
    BY <2>2 DEF Held, Unrecorded
  <2>4. back' = back /\ lost' = lost
    BY <1>4 DEF ReadStock, ghosts
  <2> QED
    BY <1>1, <2>2, <2>3, <2>4, KeepsQuietly DEF Carried
<1>5. ASSUME WriteStock(c) PROVE Keeps(k, n)
  <2> PICK m : m = [k EXCEPT !.pc = "log"]
    OBVIOUS
  <2>1. n = m
    BY <1>3, <1>5 DEF WriteStock, Goto
  <2>2. /\ n.pc = "log" /\ n.p = k.p /\ n.todo = k.todo /\ n.lines = k.lines /\ n.of = k.of
        /\ k.pc = "write" /\ k.p \in Products
    BY <1>1, <1>5, <2>1 DEF WriteStock, At, Call, StageFits
  <2>3. /\ lost' = lost
        /\ \A s \in Refs : back'[s] = IF s = k.of THEN [back[s] EXCEPT ![k.p] = @ + k.lines[k.p]]
                                                  ELSE back[s]
    BY <1>5 DEF WriteStock
  <2>4. ASSUME NEW s \in Refs, NEW p \in Products
        PROVE  back'[s][p] + lost[s][p] + Held(k, s, p) = back[s][p] + lost'[s][p] + Held(n, s, p)
    <3>1. back[s] \in [Products -> Nat] /\ back[s][p] \in Nat /\ lost[s][p] \in Nat
      BY DEF TypeInv, TypeOK
    <3>2. CASE s = k.of
      <4>1. k.p \in k.todo
        BY <1>1, <2>2, <3>2 DEF Carried, Refs
      <4>2. back'[s][p] = IF p = k.p THEN back[s][p] + k.lines[p] ELSE back[s][p]
        <5>1. back'[s] = [back[s] EXCEPT ![k.p] = @ + k.lines[k.p]]
          BY <2>3, <3>2
        <5> QED
          BY <5>1, <2>2, <3>1
      <4>3. Held(k, s, p) = IF p \in k.todo THEN 0 ELSE k.lines[p]
        BY <2>2, <3>2 DEF Held, Unrecorded
      <4>4. Held(n, s, p) = IF p \in k.todo \ {k.p} THEN 0 ELSE k.lines[p]
        BY <2>2, <3>2 DEF Held, Unrecorded
      <4> QED
        BY <4>1, <4>2, <4>3, <4>4, <3>1, <2>3, <1>2
    <3>3. CASE s # k.of
      <4>1. Held(k, s, p) = 0 /\ Held(n, s, p) = 0 /\ back'[s][p] = back[s][p]
        BY <2>2, <2>3, <3>3 DEF Held
      <4> QED
        BY <4>1, <3>1, <2>3
    <3> QED
      BY <3>2, <3>3
  <2>5. \A q \in Products : ~Adds(k, n, q)
    BY <2>2 DEF Adds
  <2> QED
    BY <1>1, <2>2, <2>4, <2>5 DEF Keeps, Carried
<1>6. ASSUME LogStock(c) PROVE Keeps(k, n)
  <2>1. k.pc = "log" /\ back' = back /\ lost' = lost
    BY <1>6 DEF LogStock, At
  <2>2. CASE Done(c) /\ AfterLastLog(k) = "idle"
    <3>1. n = Idle /\ n.of = 0
      BY <1>3, <2>2 DEF Done, Idle
    <3>2. k.of = 0
      BY <1>1, <2>1, <2>2 DEF Shape, AfterLastLog
    <3>3. \A s \in Refs, p \in Products : Held(n, s, p) = Held(k, s, p)
      BY <3>1, <3>2, HoldsNothing
    <3> QED
      BY <1>1, <2>1, <3>1, <3>3, KeepsQuietly DEF Carried
  <2>3. CASE LinesLeft(k) = {} /\ Goto(c, "store")
    <3> PICK m : m = [k EXCEPT !.pc = "store"]
      OBVIOUS
    <3>1. n = m
      BY <1>3, <2>3 DEF Goto
    <3>2. n.pc = "store" /\ n.lines = k.lines /\ n.of = k.of
      BY <1>1, <3>1 DEF Call
    <3>3. \A s \in Refs, p \in Products : Held(n, s, p) = Held(k, s, p)
      BY <2>1, <2>3, <3>2 DEF Held, Unrecorded, LinesLeft
    <3> QED
      BY <1>1, <2>1, <3>2, <3>3, KeepsQuietly DEF Carried
  <2>4. CASE call' = [call EXCEPT ![c].pc = "read", ![c].todo = LinesLeft(k)]
    <3> PICK m : m = [k EXCEPT !.pc = "read", !.todo = LinesLeft(k)]
      OBVIOUS
    <3>0. call' = [call EXCEPT ![c] = m]
      BY <2>4
    <3>1. n = m
      BY <3>0, <1>3
    <3>2. n.pc = "read" /\ n.lines = k.lines /\ n.of = k.of /\ n.todo = LinesLeft(k)
      BY <1>1, <3>1 DEF Call
    <3>3. \A s \in Refs, p \in Products : Held(n, s, p) = Held(k, s, p)
      BY <2>1, <3>2 DEF Held, Unrecorded, LinesLeft
    <3> QED
      BY <1>1, <2>1, <3>2, <3>3, KeepsQuietly DEF Carried
  <2> QED
    BY <1>6, <2>2, <2>3, <2>4 DEF LogStock, AfterLastLog
<1> QED
  BY <1>4, <1>5, <1>6

\* The document of a return and its item rows.
LEMMA DocKeeps ==
  ASSUME TypeInv, TypeInv', Shapes, Owners, ItemsOpen, NEW c \in Calls,
         StoreDoc(c) \/ (\E p \in Products : StoreItem(c, p)), Turn(call[c], call'[c])
  PROVE  Keeps(call[c], call'[c])
<1> PICK k : k = call[c]
  OBVIOUS
<1> PICK n : n = call'[c]
  OBVIOUS
<1>1. k \in Call /\ n \in Call /\ Shape(k) /\ call \in [Calls -> Call] /\ doc \in [Refs -> Doc]
  BY DEF TypeInv, TypeOK, Shapes
<1>2. \A p \in Products : k.lines[p] \in Nat
  BY <1>1 DEF Call, Lines
<1>3. ASSUME NEW m, call' = [call EXCEPT ![c] = m] PROVE n = m
  BY <1>1, <1>3
<1>4. ASSUME StoreDoc(c) PROVE Keeps(k, n)
  <2>1. CASE Broken(c) /\ UNCHANGED doc
    <3>1. back' = back
      BY <1>4 DEF StoreDoc
    <3> QED
      BY <2>1, <3>1, BrokenKeeps
  <2>2. CASE call' = [call EXCEPT ![c].pc = "items", ![c].todo = Of(k.lines)] /\ UNCHANGED lost
    <3> PICK m : m = [k EXCEPT !.pc = "items", !.todo = Of(k.lines)]
      OBVIOUS
    <3>0. call' = [call EXCEPT ![c] = m]
      BY <2>2
    <3>1. n = m
      BY <3>0, <1>3
    <3>2. /\ n.pc = "items" /\ n.lines = k.lines /\ n.of = k.of /\ n.todo = Of(k.lines)
          /\ k.pc = "store" /\ back' = back /\ lost' = lost
      BY <1>1, <1>4, <2>2, <3>1 DEF Call, StoreDoc, At
    <3>3. \A p \in Products : p \notin Of(k.lines) => k.lines[p] = 0
      BY <1>2 DEF Of
    <3>4. \A s \in Refs, p \in Products : Held(n, s, p) = Held(k, s, p)
      BY <3>2, <3>3 DEF Held, Unrecorded
    <3> QED
      BY <1>1, <3>2, <3>4, KeepsQuietly DEF Carried
  <2> QED
    BY <1>4, <2>1, <2>2 DEF StoreDoc
<1>5. ASSUME NEW q \in Products, StoreItem(c, q) PROVE Keeps(k, n)
  <2>1. /\ k.pc = "items" /\ q \in k.todo /\ back' = back /\ lost' = lost
        /\ doc' = [doc EXCEPT ![k.ref].items = @ \cup {q}]
    BY <1>5 DEF StoreItem, At, ghosts
  <2>a. n = Idle => n.pc = "idle" /\ n.of = 0
    BY DEF Idle
  <2>2. /\ k.todo \ {q} # {} => n.pc = "items" /\ n.lines = k.lines /\ n.of = k.of
                                /\ n.todo = k.todo \ {q}
        /\ k.todo \ {q} = {} => n.pc \in {"idle", "readCard", "mark"}
    <3>1. ASSUME k.todo \ {q} # {}
          PROVE  n.pc = "items" /\ n.lines = k.lines /\ n.of = k.of /\ n.todo = k.todo \ {q}
      <4> PICK m : m = [k EXCEPT !.todo = k.todo \ {q}]
        OBVIOUS
      <4>1. call' = [call EXCEPT ![c] = m]
        BY <1>5, <3>1 DEF StoreItem
      <4>2. n = m
        BY <4>1, <1>3
      <4> QED
        BY <4>2, <2>1, <1>1 DEF Call
    <3>2. ASSUME k.todo \ {q} = {} PROVE n.pc \in {"idle", "readCard", "mark"}
      <4>1. Done(c) \/ Goto(c, "readCard") \/ Goto(c, "mark")
        BY <1>5, <3>2 DEF StoreItem
      <4>2. Done(c) => n.pc = "idle"
        BY <1>3, <2>a DEF Done
      <4>3. ASSUME NEW pc, Goto(c, pc) PROVE n.pc = pc
        <5> PICK m : m = [k EXCEPT !.pc = pc]
          OBVIOUS
        <5>1. n = m
          BY <1>3, <4>3 DEF Goto
        <5> QED
          BY <5>1, <1>1 DEF Call
      <4> QED
        BY <4>1, <4>2, <4>3
    <3> QED
      BY <3>1, <3>2
  <2>3. Carried(n)
    BY <2>2 DEF Carried
  <2>4. CASE k.of = 0
    <3>1. n.of = 0 \/ n.pc \notin {"read", "write", "log", "store", "items"}
      BY <2>2, <2>4
    <3>2. \A s \in Refs, p \in Products : Held(n, s, p) = Held(k, s, p)
      <4>1. \A s \in Refs, p \in Products : Held(n, s, p) = 0
        BY <3>1, HoldsNothing
      <4>2. \A s \in Refs, p \in Products : Held(k, s, p) = 0
        BY <2>4, HoldsNothing
      <4> QED
        BY <4>1, <4>2
    <3> QED
      BY <1>1, <2>1, <2>3, <2>4, <3>2, KeepsQuietly
  <2>5. CASE k.of # 0
    <3>1. k.kind = "return" /\ k.ref \in Refs
      BY <1>1, <2>1, <2>5 DEF Shape
    <3>2. q \notin doc[k.ref].items /\ q \in doc'[k.ref].items
          /\ doc'[k.ref].items = doc[k.ref].items \cup {q}
      BY <1>1, <2>1, <3>1 DEF ItemsOpen, Doc
    <3>3. Adds(k, n, q)
      <4>1. PICK r \in Products : Adds(k, n, r)
        BY <2>1, <3>2 DEF Turn, Arrives, Moves, Ends, Writes, Logs, Stores, Marks, Marking, Counts
      <4>2. r \in k.todo /\ doc' = [doc EXCEPT ![k.ref].items = @ \cup {r}]
        BY <4>1 DEF Adds
      <4>3. doc'[k.ref].items = doc[k.ref].items \cup {r}
        BY <4>2, <3>1, <1>1 DEF Doc
      <4> QED
        BY <4>1, <4>3, <3>2
    <3>4. ASSUME NEW p \in Products
          PROVE  Unrecorded(k, p) = (IF n.pc = "items" THEN Unrecorded(n, p) ELSE 0) + Added(k, p, q)
      <4>1. Unrecorded(k, p) = IF p \in k.todo THEN k.lines[p] ELSE 0
        BY <2>1 DEF Unrecorded
      <4>2. CASE k.todo \ {q} # {}
        <5>1. n.pc = "items" /\ Unrecorded(n, p) = IF p \in k.todo \ {q} THEN k.lines[p] ELSE 0
          BY <2>2, <4>2 DEF Unrecorded
        <5> QED
          BY <4>1, <5>1, <2>1, <1>2 DEF Added
      <4>3. CASE k.todo \ {q} = {}
        <5>1. n.pc # "items"
          BY <2>2, <4>3
        <5> QED
          BY <4>1, <4>3, <5>1, <2>1, <1>2 DEF Added
      <4> QED
        BY <4>2, <4>3
    <3>5. ASSUME NEW p \in Products PROVE Held(k, k.of, p) = Held(n, k.of, p) + Added(k, p, q)
      <4>1. Held(k, k.of, p) = Unrecorded(k, p)
        BY DEF Held
      <4>2. Held(n, k.of, p) = IF n.pc = "items" THEN Unrecorded(n, p) ELSE 0
        BY <2>2 DEF Held, Unrecorded
      <4> QED
        BY <4>1, <4>2, <3>4
    <3>6. ASSUME NEW s \in Refs, s # k.of, NEW p \in Products
          PROVE  back'[s][p] + lost[s][p] + Held(k, s, p) = back[s][p] + lost'[s][p] + Held(n, s, p)
      <4>1. Held(k, s, p) = 0
        BY <3>6 DEF Held
      <4>2. Held(n, s, p) = 0
        BY <3>6, <2>2 DEF Held, Unrecorded
      <4> QED
        BY <4>1, <4>2, <2>1
    <3>7. ASSUME NEW s \in Refs, NEW p \in Products, s = k.of
          PROVE  \E r \in Products :
                   /\ Adds(k, n, r) /\ k.of = s /\ r \notin doc[k.ref].items
                   /\ back' = back /\ lost' = lost
                   /\ Held(k, s, p) = Held(n, s, p) + Added(k, p, r)
      BY <3>2, <3>3, <3>5, <3>7, <2>1
    <3>8. \A s \in Refs, p \in Products :
            \/ /\ back'[s][p] + lost[s][p] + Held(k, s, p) = back[s][p] + lost'[s][p] + Held(n, s, p)
               /\ ~ \E r \in Products : Adds(k, n, r) /\ k.of = s
            \/ \E r \in Products :
                 /\ Adds(k, n, r) /\ k.of = s /\ r \notin doc[k.ref].items
                 /\ back' = back /\ lost' = lost
                 /\ Held(k, s, p) = Held(n, s, p) + Added(k, p, r)
      BY <3>6, <3>7, Zenon
    <3> QED
      BY <2>3, <3>8 DEF Keeps
  <2> QED
    BY <2>4, <2>5
<1> QED
  BY <1>4, <1>5

\* ... and so does every other step.
LEMMA StepKeeps ==
  ASSUME TypeInv, TypeInv', Shapes, Owners, ItemsOpen, NEW c \in Calls, Carried(call[c]),
         \/ \E p \in Products :
              CheckLine(c, p) \/ ReadStock(c, p) \/ StoreItem(c, p) \/ MarkItem(c, p)
         \/ CheckCard(c) \/ WriteStock(c) \/ LogStock(c) \/ StoreDoc(c)
         \/ MarkRead(c) \/ MarkWrite(c) \/ MarkDelete(c)
         \/ ReadCard(c) \/ WriteCard(c) \/ Stop(c)
  PROVE  Keeps(call[c], call'[c])
<1> PICK k : k = call[c]
  OBVIOUS
<1> PICK n : n = call'[c]
  OBVIOUS
<1>1. k \in Call /\ n \in Call /\ Shape(k)
  BY DEF TypeInv, TypeOK, Shapes
<1>2. Turn(k, n)
  BY StepTurn
<1>3. CASE (\E p \in Products : ReadStock(c, p)) \/ WriteStock(c) \/ LogStock(c)
  BY <1>3, LineKeeps
<1>4. CASE StoreDoc(c) \/ \E p \in Products : StoreItem(c, p)
  BY <1>2, <1>4, DocKeeps
<1>5. CASE Stop(c)
  BY <1>5, BrokenKeeps DEF Stop
<1>6. CASE \/ (\E p \in Products : CheckLine(c, p) \/ MarkItem(c, p)) \/ CheckCard(c)
           \/ MarkRead(c) \/ MarkWrite(c) \/ MarkDelete(c) \/ ReadCard(c) \/ WriteCard(c)
  <2>1. /\ k.pc \in {"check", "card", "readCard", "writeCard"} \cup Marking
        /\ back' = back /\ lost' = lost
    BY <1>6 DEF CheckLine, MarkItem, CheckCard, MarkRead, MarkWrite, MarkDelete, ReadCard,
                WriteCard, At, ghosts, Marking
  <2>2. n.pc \in {"idle", "check", "card", "read", "writeCard"} \cup Marking
        /\ (n.pc = "read" => n.of = k.of /\ k.of = 0)
    <3>1. n.pc \in {"idle", "check", "card", "read", "writeCard"} \cup Marking
      BY <1>2, <2>1
      DEF Turn, Arrives, Moves, Ends, Writes, Logs, Stores, Adds, Marks, Marking, Counts
    <3>2. ASSUME n.pc = "read" PROVE n.of = k.of /\ k.of = 0
      <4>1. Moves(k, n)
        BY <1>2, <2>1, <3>2
        DEF Turn, Arrives, Ends, Writes, Logs, Stores, Adds, Marks, Marking, Counts
      <4>2. k.pc \in {"check", "card"} /\ n.of = k.of
        BY <2>1, <3>2, <4>1 DEF Moves, Same, Marking
      <4> QED
        BY <4>2, <1>1 DEF Shape
    <3> QED
      BY <3>1, <3>2, Zenon
  <2>3. \A s \in Refs, p \in Products : Held(n, s, p) = 0
    BY <2>2, HoldsNothing DEF Marking
  <2>4. \A s \in Refs, p \in Products : Held(k, s, p) = 0
    BY <2>1, HoldsNothing DEF Marking
  <2>5. Carried(n)
    BY <2>2 DEF Carried, Marking
  <2>6. k.pc # "items" /\ back' = back /\ lost' = lost
    BY <2>1 DEF Marking
  <2>7. \A s \in Refs, p \in Products : Held(n, s, p) = Held(k, s, p)
    BY <2>3, <2>4
  <2> QED
    BY <1>1, <2>5, <2>6, <2>7, KeepsQuietly
<1> QED
  BY <1>3, <1>4, <1>5, <1>6

\* Every step keeps the account of what was put back.
LEMMA AccountedStep ==
  ASSUME TypeInv, TypeInv', Shapes, Owners, ItemsOpen, Accounted, Next
  PROVE  Accounted'
<1>1. PICK c \in Calls : /\ \A d \in Calls \ {c} : call'[d] = call[d]
                         /\ Turn(call[c], call'[c]) /\ Keeps(call[c], call'[c])
  <2> DEFINE Request(c) ==
             \/ \E lines \in Lines, card \in BOOLEAN : SaleRequest(c, lines, card)
             \/ \E lines \in Lines, of \in 0..MaxCalls : ReturnRequest(c, lines, of)
             \/ \E kind \in Kind, p \in Products, q \in 1..MaxQty : TransferRequest(c, kind, p, q)
             \/ SettingsRequest(c)
           Step(c) ==
             \/ \E p \in Products :
                  CheckLine(c, p) \/ ReadStock(c, p) \/ StoreItem(c, p) \/ MarkItem(c, p)
             \/ CheckCard(c) \/ WriteStock(c) \/ LogStock(c) \/ StoreDoc(c)
             \/ MarkRead(c) \/ MarkWrite(c) \/ MarkDelete(c)
             \/ ReadCard(c) \/ WriteCard(c) \/ Stop(c)
           Taken(c) == /\ \A d \in Calls \ {c} : call'[d] = call[d]
                       /\ Turn(call[c], call'[c]) /\ Keeps(call[c], call'[c])
  <2>1. ASSUME NEW c \in Calls, Request(c) PROVE Taken(c)
    <3>1. (\A d \in Calls \ {c} : call'[d] = call[d]) /\ Arrives(call[c], call'[c])
      BY <2>1, RequestTurn
    <3>2. Keeps(call[c], call'[c])
      BY <2>1, RequestHeld
    <3> QED
      BY <3>1, <3>2 DEF Turn
  <2>2. ASSUME NEW c \in Calls, Step(c) PROVE Taken(c)
    <3>1. (\A d \in Calls \ {c} : call'[d] = call[d]) /\ Turn(call[c], call'[c])
      BY <2>2, StepTurn
    <3>2. Carried(call[c])
      BY DEF Accounted
    <3>3. Keeps(call[c], call'[c])
      BY <2>2, <3>2, StepKeeps
    <3> QED
      BY <3>1, <3>3
  <2>3. \E c \in Calls : Request(c) \/ Step(c)
    BY DEF Next
  <2> HIDE DEF Request, Step
  <2> QED
    BY <2>1, <2>2, <2>3
<1>k. PICK k : k = call[c]
  OBVIOUS
<1>n. PICK n : n = call'[c]
  OBVIOUS
<1>2. k \in Call /\ n \in Call /\ Shape(k) /\ Turn(k, n) /\ Keeps(k, n)
  BY <1>1, <1>k, <1>n DEF TypeInv, TypeOK, Shapes
<1>3. \A d \in Calls : Carried(call'[d])
  BY <1>1, <1>2, <1>n DEF Keeps, Accounted
<1>4. ASSUME NEW s \in Refs, NEW p \in Products
      PROVE  back'[s][p] = Returned(s)'[p] + lost'[s][p] + OpenGoods(s, p)'
  <2>f. PICK f : f = [d \in Calls |-> Held(call[d], s, p)]
    OBVIOUS
  <2>g. PICK g : g = [d \in Calls |-> Held(call'[d], s, p)]
    OBVIOUS
  <2>1. \A d \in Calls : Held(call[d], s, p) \in Nat /\ Held(call'[d], s, p) \in Nat
    <3>1. \A d \in Calls : call[d] \in Call /\ call'[d] \in Call
      BY DEF TypeInv, TypeOK
    <3> QED
      BY <3>1, UnrecordedType DEF Held
  <2>2. f \in [Calls -> Int] /\ g \in [Calls -> Int] /\ \A d \in Calls \ {c} : f[d] = g[d]
    BY <2>1, <2>f, <2>g, <1>1
  <2>3. SumFunction(g) = SumFunction(f) - f[c] + g[c]
    BY <2>2, SumUpdate, PosStockAssumption
  <2>4. SumFunction(f) \in Int /\ f[c] = Held(k, s, p) /\ g[c] = Held(n, s, p)
    BY <2>2, <2>f, <2>g, <1>k, <1>n, SumType, PosStockAssumption
  <2>5. OpenGoods(s, p) = SumFunction(f) /\ OpenGoods(s, p)' = SumFunction(g)
    BY <2>f, <2>g DEF OpenGoods
  <2>6. back[s][p] = Returned(s)[p] + lost[s][p] + SumFunction(f)
    BY <2>5 DEF Accounted
  <2>7. /\ back[s][p] \in Nat /\ lost[s][p] \in Nat
        /\ back'[s][p] \in Nat /\ lost'[s][p] \in Nat
    BY DEF TypeInv, TypeOK
  <2>8. Returned(s)[p] \in Int /\ Returned(s)'[p] \in Int
    BY <1>k, <1>2, ReturnedStep
  <2>9. CASE /\ back'[s][p] + lost[s][p] + Held(k, s, p) = back[s][p] + lost'[s][p] + Held(n, s, p)
             /\ ~ \E q \in Products : Adds(k, n, q) /\ k.of = s
    <3>1. Returned(s)'[p] = Returned(s)[p]
      BY <2>9, <1>k, <1>2, ReturnedStep
    <3>2. Held(k, s, p) \in Nat /\ Held(n, s, p) \in Nat
      BY <2>1, <1>k, <1>n
    <3> QED
      BY <2>3, <2>4, <2>5, <2>6, <2>7, <2>8, <2>9, <3>1, <3>2
  <2>10. ASSUME NEW q \in Products, Adds(k, n, q), k.of = s, q \notin doc[k.ref].items,
                back' = back, lost' = lost, Held(k, s, p) = Held(n, s, p) + Added(k, p, q)
         PROVE  back'[s][p] = Returned(s)'[p] + lost'[s][p] + OpenGoods(s, p)'
    <3>1. \A r \in Products : Adds(k, n, r) /\ k.of = s /\ r \notin doc[k.ref].items
             => Returned(s)'[p] = Returned(s)[p] + Added(k, p, r)
      BY <1>k, <1>2, ReturnedStep, ZenonT(40)
    <3>2. Returned(s)'[p] = Returned(s)[p] + Added(k, p, q)
      BY <2>10, <3>1
    <3>3. Held(k, s, p) \in Nat /\ Held(n, s, p) \in Nat /\ Added(k, p, q) \in Nat
      BY <2>1, <1>2, <1>k, <1>n DEF Added, Call, Lines
    <3> QED
      BY <2>3, <2>4, <2>5, <2>6, <2>7, <2>8, <2>10, <3>2, <3>3
  <2> QED
    BY <1>2, <2>9, <2>10 DEF Keeps
<1> QED
  BY <1>3, <1>4 DEF Accounted

\* What was returned of a product is a number.
LEMMA ReturnedType ==
  ASSUME TypeInv, NEW s \in Refs, NEW p \in Products
  PROVE  Returned(s)[p] \in Int
<1>f. PICK f : f = [r \in Returns(s) |-> Read(r)[p]]
  OBVIOUS
<1>1. Returns(s) \subseteq Refs
  BY DEF Returns
<1>2. IsFiniteSet(Returns(s))
  BY <1>1, RefsFinite, FS_Subset
<1>3. \A r \in Refs : Read(r)[p] \in Int
  BY DEF TypeInv, TypeOK, Doc, Lines, Read
<1>4. f \in [Returns(s) -> Int]
  BY <1>1, <1>3, <1>f
<1>5. SumFunction(f) \in Int
  BY <1>2, <1>4, SumType
<1> QED
  BY <1>5, <1>f DEF Returned

\* What a return holds is part of what it has yet to store.
LEMMA HeldIsYet ==
  ASSUME NEW k \in Call, NEW s \in Refs, NEW p \in Products, Shape(k)
  PROVE  /\ Held(k, s, p) \in Nat
         /\ ~Returning(k, s) => Held(k, s, p) = 0
         /\ Held(k, s, p) <= Yet(k, p)
<1>1. k.lines[p] \in Nat
  BY DEF Call, Lines
<1>2. Unrecorded(k, p) \in Nat /\ Unrecorded(k, p) <= Yet(k, p) /\ Yet(k, p) \in Nat
  BY <1>1 DEF Unrecorded, Yet
<1>3. k.of = s /\ ~Returning(k, s) => Unrecorded(k, p) = 0
  BY DEF Returning, Unrecorded, Shape, Refs
<1> QED
  BY <1>2, <1>3 DEF Held

\* With one return at a time nothing beyond the sale is put back, except what was lost.
LEMMA BackWithinSale ==
  ASSUME TypeInv, Shapes, Owners, ReturnsFit, Accounted
  PROVE  ReturnsWithinSaleUnlessRaced
<1> SUFFICES ASSUME NEW s \in Refs, s \notin raced, doc[s].kind = "sale", NEW p \in Products
             PROVE  back[s][p] <= doc[s].lines[p] + lost[s][p]
  BY DEF ReturnsWithinSaleUnlessRaced
<1>f. PICK f : f = [c \in Calls |-> Held(call[c], s, p)]
  OBVIOUS
<1>1. /\ Returned(s)[p] <= doc[s].lines[p]
      /\ \A c, d \in Calls : Returning(call[c], s) /\ Returning(call[d], s) => c = d
      /\ \A c \in Calls : Returning(call[c], s) =>
           Returned(s)[p] + Yet(call[c], p) <= doc[s].lines[p]
  BY DEF ReturnsFit, Fits
<1>2. \A c \in Calls : call[c] \in Call /\ Shape(call[c])
  BY DEF TypeInv, TypeOK, Shapes
<1>3. \A c \in Calls : /\ Held(call[c], s, p) \in Nat
                       /\ ~Returning(call[c], s) => Held(call[c], s, p) = 0
                       /\ Held(call[c], s, p) <= Yet(call[c], p)
  BY <1>2, HeldIsYet
<1>4. f \in [Calls -> Int] /\ DOMAIN f = Calls
  BY <1>3, <1>f
<1>5. back[s][p] = Returned(s)[p] + lost[s][p] + SumFunction(f)
  BY <1>f DEF Accounted, OpenGoods
<1>6. back[s][p] \in Nat /\ lost[s][p] \in Nat /\ doc[s].lines[p] \in Nat
  BY DEF TypeInv, TypeOK, Doc, Lines
<1>7. Returned(s)[p] \in Int
  BY ReturnedType
<1>8. CASE \E c \in Calls : Returning(call[c], s)
  <2>1. PICK c \in Calls : Returning(call[c], s)
    BY <1>8
  <2>z. PICK z : z = [d \in Calls |-> 0]
    OBVIOUS
  <2>2. z \in [Calls -> Int] /\ SumFunction(z) = 0
    BY <2>z, SumZero, PosStockAssumption
  <2>3. \A d \in Calls \ {c} : z[d] = f[d]
    BY <2>1, <2>z, <1>1, <1>3, <1>f
  <2>4. SumFunction(f) = SumFunction(z) - z[c] + f[c]
    BY <2>2, <2>3, <1>4, SumUpdate, PosStockAssumption
  <2>5. SumFunction(f) = Held(call[c], s, p)
    BY <2>2, <2>4, <2>z, <1>3, <1>f
  <2>6. Yet(call[c], p) \in Nat
    BY <1>2 DEF Call, Lines, Yet
  <2> QED
    BY <2>1, <2>5, <2>6, <1>1, <1>3, <1>5, <1>6, <1>7
<1>9. CASE \A c \in Calls : ~Returning(call[c], s)
  <2>1. \A c \in Calls : f[c] = 0
    BY <1>3, <1>9, <1>f
  <2>2. SumFunction(f) = 0
    BY <2>1, <1>4, SumZero, PosStockAssumption
  <2> QED
    BY <2>2, <1>1, <1>5, <1>6, <1>7
<1> QED
  BY <1>8, <1>9

-----------------------------------------------------------------------------
(***************************************************************************)
(* All of it is inductive.                                                 *)
(***************************************************************************)
TillInv ==
  /\ TypeInv /\ Shapes /\ BooksBalance /\ Owners /\ UsesSettled
  /\ ItemsOpen /\ ReturnsFit /\ MarksCover /\ Accounted

\* In the beginning there are no documents, and stock is what it is.
LEMMA InitTillInv == Init => TillInv
<1> SUFFICES ASSUME Init PROVE TillInv
  OBVIOUS
<1>1. TypeInv
  BY InitTypeInv
<1>2. \A c \in Calls : call[c].pc = "idle"
  BY DEF Init, Idle
<1>3. \A r \in Refs : doc[r].kind = "none" /\ doc[r].of = 0 /\ doc[r].coverage = "none"
  BY DEF Init, NoDoc
<1>4. \A c \in Calls : ~HasDoc(call[c]) /\ \A s \in Refs : ~Returning(call[c], s)
  BY <1>2 DEF HasDoc, Marking, Returning
<1>5. Shapes
  BY <1>2 DEF Shapes, Shape
<1>6. BooksBalance
  <2> SUFFICES ASSUME NEW p \in Products
               PROVE  stock[p].depot + stock[p].shelf =
                        start[p] + net[p] + SumFunction([c \in InHand(p) |-> Delta(call[c])])
    BY DEF BooksBalance
  <2>f. PICK f : f = [c \in InHand(p) |-> Delta(call[c])]
    OBVIOUS
  <2>1. DOMAIN f = {} /\ \A x \in {} : f[x] = 0
    BY <2>f, <1>2 DEF InHand, At
  <2>2. SumFunction(f) = 0
    BY <2>1, FS_EmptySet, SumZero
  <2>3. start[p] = stock[p].depot + stock[p].shelf /\ net[p] = 0 /\ start[p] \in Nat
    BY <1>1 DEF Init, TypeInv, TypeOK
  <2> QED
    BY <2>f, <2>2, <2>3
<1>7. Owners
  BY <1>2, <1>3, <1>4 DEF Owners, OwnDoc, OfSale
<1>8. UsesSettled
  <2>1. Settled \subseteq Refs
    BY DEF Settled
  <2>2. Cardinality(Settled) \in Nat
    BY <2>1, RefsFinite, FS_Subset, FS_CardinalityType
  <2>3. used = 0
    BY DEF Init
  <2> QED
    BY <2>2, <2>3, <1>2 DEF UsesSettled
<1>9. ItemsOpen /\ ReturnsFit /\ MarksCover
  BY <1>2, <1>3, <1>4 DEF ItemsOpen, ReturnsFit, MarksCover, Covers
<1>10. Accounted
  <2>1. \A c \in Calls : Carried(call[c])
    BY <1>2 DEF Carried
  <2>2. ASSUME NEW s \in Refs, NEW p \in Products
        PROVE  back[s][p] = Returned(s)[p] + lost[s][p] + OpenGoods(s, p)
    <3>f. PICK f : f = [c \in Calls |-> Held(call[c], s, p)]
      OBVIOUS
    <3>1. \A c \in Calls : f[c] = 0
      BY <3>f, <1>2, HoldsNothing
    <3>2. OpenGoods(s, p) = 0
      BY <3>f, <3>1, SumZero, PosStockAssumption DEF OpenGoods
    <3>3. Returned(s)[p] = 0
      BY <1>1, <1>3, <1>7, NoReturns
    <3>4. back[s][p] = 0 /\ lost[s][p] = 0
      BY DEF Init, NoLines
    <3> QED
      BY <3>2, <3>3, <3>4
  <2> QED
    BY <2>1, <2>2 DEF Accounted
<1> QED
  BY <1>1, <1>5, <1>6, <1>7, <1>8, <1>9, <1>10 DEF TillInv

\* All of it is inductive.
LEMMA NextTillInv == TillInv /\ [Next]_vars => TillInv'
<1> SUFFICES ASSUME TillInv, [Next]_vars PROVE TillInv'
  OBVIOUS
<1>0. /\ TypeInv /\ Shapes /\ BooksBalance /\ Owners /\ UsesSettled
      /\ ItemsOpen /\ ReturnsFit /\ MarksCover /\ Accounted
  BY DEF TillInv
<1>1. TypeInv'
  BY <1>0, NextTypeInv
<1>2. CASE OneTurn /\ Next
  <2>1. Shapes'
    BY <1>0, <1>1, <1>2, ShapesKept
  <2>2. BooksBalance'
    BY <1>0, <1>1, <1>2, <2>1, BalanceStep
  <2>3. Owners'
    BY <1>0, <1>1, <1>2, OwnersStep
  <2>4. UsesSettled'
    BY <1>0, <1>1, <1>2, SettledStep
  <2>5. ItemsOpen'
    BY <1>0, <1>1, <1>2, ItemsOpenStep
  <2>6. ReturnsFit'
    BY <1>0, <1>1, <1>2, ReturnsFitStep
  <2>7. MarksCover'
    BY <1>0, <1>1, <1>2, MarksCoverStep
  <2>8. Accounted'
    BY <1>0, <1>1, <1>2, AccountedStep
  <2> QED
    BY <1>1, <2>1, <2>2, <2>3, <2>4, <2>5, <2>6, <2>7, <2>8 DEF TillInv
<1>3. CASE UNCHANGED vars
  <2> USE <1>3 DEF vars, bounds, ghosts
  <2>1. Shapes' /\ Owners' /\ ItemsOpen'
    BY <1>0 DEF Shapes, Owners, OfSale, ItemsOpen
  <2>2. BooksBalance'
    BY <1>0 DEF BooksBalance, InHand, At
  <2>3. UsesSettled'
    BY <1>0 DEF UsesSettled, Settled
  <2>4. \A s : Returned(s)' = Returned(s)
    BY DEF Returned, Returns, Read
  <2>5. ReturnsFit'
    BY <1>0, <2>4 DEF ReturnsFit, Fits
  <2>6. MarksCover'
    BY <1>0, <2>4 DEF MarksCover, Covers
  <2>7. Accounted'
    <3>1. \A s \in Refs, p \in Products : OpenGoods(s, p)' = OpenGoods(s, p)
      BY DEF OpenGoods
    <3> QED
      BY <1>0, <2>4, <3>1 DEF Accounted
  <2> QED
    BY <1>1, <2>1, <2>2, <2>3, <2>5, <2>6, <2>7 DEF TillInv
<1> QED
  BY <1>0, <1>2, <1>3, NextTurn

\* Depot and shelf of a product differ from its movements only by what requests are
\* booking at this moment, unless two worked on its row at once, a sale over-drew it or a
\* request stopped between row and movement.
THEOREM StockIsBooked == Spec => []BooksBalance
<1>1. TillInv => BooksBalance
  BY DEF TillInv
<1> QED
  BY <1>1, InitTillInv, NextTillInv, PTL DEF Spec

\* The uses of the gift card are at most the stored card sales, although the settings
\* document is written whole by other requests.
THEOREM UsesAreOfSales == Spec => []UsesAreSales
<1>1. TillInv => UsesAreSales
  BY SettledUses DEF TillInv
<1> QED
  BY <1>1, InitTillInv, NextTillInv, PTL DEF Spec

\* The goods that the returns of a sale put back into the stock stay within the sale, line
\* by line and at every moment, except for what returns that broke off left without an
\* item row, unless two returns of the sale ran at once.
THEOREM ReturnsStayWithinSale == Spec => []ReturnsWithinSaleUnlessRaced
<1>1. TillInv => ReturnsWithinSaleUnlessRaced
  BY BackWithinSale DEF TillInv
<1> QED
  BY <1>1, InitTillInv, NextTillInv, PTL DEF Spec

\* A sale that is marked fully returned is, unless its returns raced or one of them read
\* the sale while its item rows were incomplete.
THEOREM MarkedFullIsReturned == Spec => []FullMeansReturned
<1>1. TillInv => FullMeansReturned
  BY DEF TillInv, MarksCover, Covers, FullMeansReturned
<1> QED
  BY <1>1, InitTillInv, NextTillInv, PTL DEF Spec

-----------------------------------------------------------------------------
(***************************************************************************)
(* One shelf label, for any products, any number of handlers and any       *)
(* bounds.                                                                 *)
(***************************************************************************)
\* The bridge sends a hash.
SendsHash == e_bridge.pc = "send" => e_bridge.want # NoHash
LabelTypes == E!TypeOK /\ SendsHash

\* Which pictures are called drawn: what rows and requests say is rendered, and what the
\* label remembers.
Drawn == e_drawn \cup {NoHash}
DrawnFits ==
  /\ \A s \in E!Sides : e_row[s].rendered \in Drawn
  /\ \A c \in Calls : e_call[c].next.rendered \in Drawn
  /\ e_label.last \in Drawn

\* A handler whose reading is not outdated writes the row as it is, but for its purpose.
Reader(k) == k.kind \in {"touch", "look", "poll", "confirm"}
WriterFits(k) ==
  /\ k.kind \in {"sync", "look", "poll", "confirm"} => k.side = "store"
  /\ k.pc = "reread" => k.kind = "sync"
  /\ k.pc = "write" /\ ~k.old =>
       /\ ~e_row[k.side].deleted
       /\ Reader(k) => k.next = [e_row[k.side] EXCEPT !.rendered = k.next.rendered]
WritersFit == \A c \in Calls : WriterFits(e_call[c])

\* Hashes of production come in an order: by request, then by price.
Before(g, h) ==
  \/ g.asked < h.asked
  \/ g.asked = h.asked /\ g.product = h.product /\ g.price <= h.price
Current == E!HashOf(e_row["production"])
Old(h) == h \in E!Hash /\ Before(h, Current) /\ (h.product = None => h.price = 0)
Calm == (\A s \in E!Sides : e_stale[s] = 0) /\ ~e_local /\ ~e_row["production"].deleted

\* While nobody raced: the next request is later than all in the row; what the store has
\* installed, what handlers are going to install and what the bridge holds come in order.
RequestsInOrder ==
  /\ e_row["production"].asked \in 1..Len(e_asks)
  /\ \A c \in Calls :
       LET k == e_call[c] IN
       k.pc = "write" /\ k.kind = "ask" /\ k.side = "production" /\ ~k.old /\ ~k.next.deleted =>
         k.next.asked \in e_row["production"].asked + 1..Len(e_asks)
AfterInstalled(h) == e_row["store"].synced # NoHash => Before(e_row["store"].synced, h)
Syncs(k) == k.pc = "write" /\ k.kind = "sync" /\ ~k.old
Installs(r) ==
  /\ ~r.deleted
  /\ r.synced = NoHash => r.asked = 0
  /\ r.synced # NoHash => /\ Old(r.synced) /\ r.product = r.synced.product
                          /\ r.asked = r.synced.asked /\ r.asked <= r.syncedAt
InstalledInOrder ==
  /\ Installs(e_row["store"])
  /\ \A c \in Calls : LET k == e_call[c] IN
       /\ k.pc # "idle" /\ k.want # NoHash => Old(k.want)
       /\ Syncs(k) => /\ k.next.synced = k.want /\ k.want # NoHash
                      /\ Installs(k.next) /\ AfterInstalled(k.want)
BridgeInOrder ==
  /\ e_bridge.want # NoHash => Old(e_bridge.want)
  /\ e_bridge.pc = "send" =>
       /\ AfterInstalled(e_bridge.want)
       /\ \A c \in Calls : Syncs(e_call[c]) => Before(e_call[c].want, e_bridge.want)
  /\ e_bridge.known # NoHash =>
       /\ Old(e_bridge.known)
       /\ e_bridge.known = Current => E!Answer(e_row["store"]) = e_bridge.known
InOrderWhileCalm == Calm => RequestsInOrder /\ InstalledInOrder /\ BridgeInOrder
LabelInv == LabelTypes /\ DrawnFits /\ WritersFit /\ InOrderWhileCalm

-----------------------------------------------------------------------------
\* The hashes of a row are hashes.
LEMMA HashTypes ==
  ASSUME E!TypeOK
  PROVE  /\ \A r \in E!Row : /\ E!HashOf(r) \in E!Hash /\ E!OldPrice(r) \in E!Hash
                             /\ E!Answer(r) \in E!Hash \cup {NoHash}
         /\ E!NewRow \in E!Row /\ E!Idle \in E!Call
<1>1. ASSUME NEW r \in E!Row
      PROVE  /\ E!HashOf(r) \in E!Hash /\ E!OldPrice(r) \in E!Hash
             /\ E!Answer(r) \in E!Hash \cup {NoHash}
  BY DEF E!TypeOK, E!Row, E!Hash, E!HashOf, E!OldPrice, E!Answer
<1>2. E!NewRow \in E!Row
  BY DEF E!NewRow, E!Row
<1>3. E!Idle \in E!Call
  BY <1>2 DEF E!Idle, E!Call, E!Sides
<1> QED
  BY <1>1, <1>2, <1>3

\* An assignment is put into a row.
LEMMA AskedType ==
  ASSUME NEW r \in E!Row, NEW p \in Labelled \cup {None}, NEW t \in Nat, NEW h \in E!Hash
  PROVE  /\ E!Asked(r, p, t, h) \in E!Row
         /\ E!Asked(r, p, t, h).product = p /\ E!Asked(r, p, t, h).asked = t
         /\ E!Asked(r, p, t, h).rendered = r.rendered
         /\ E!Asked(r, p, t, h).deleted = r.deleted
         /\ E!Asked(r, p, t, h).syncedAt = r.syncedAt
BY DEF E!Asked, E!Row

\* A handler that is accepted has read the row of its backend.
LEMMA AcceptIs ==
  ASSUME E!TypeOK, NEW c \in Calls, NEW side \in E!Sides, NEW next \in E!Row,
         NEW kind \in {"ask", "touch", "sync", "look", "poll", "confirm"},
         NEW want \in E!Hash \cup {NoHash}, E!Accept(c, side, kind, next, want)
  PROVE  /\ ~e_row[side].deleted /\ e_call[c].pc = "idle"
         /\ \E k \in E!Call :
              /\ e_call' = [e_call EXCEPT ![c] = k]
              /\ k.pc = "write" /\ k.side = side /\ k.kind = kind /\ k.next = next
              /\ k.want = want /\ ~k.old
<1> DEFINE k == [E!Idle EXCEPT !.pc = "write", !.side = side, !.kind = kind,
                               !.next = next, !.want = want]
<1>1. /\ k \in E!Call /\ k.pc = "write" /\ k.side = side /\ k.kind = kind
      /\ k.next = next /\ k.want = want /\ k.old = E!Idle.old
  BY HashTypes DEF E!Call
<1>2. ~E!Idle.old
  BY DEF E!Idle
<1>3. e_call' = [e_call EXCEPT ![c] = k] /\ ~e_row[side].deleted /\ e_call[c].pc = "idle"
  BY DEF E!Accept
<1> QED
  BY <1>1, <1>2, <1>3

\* What the bridge and the label make of an answer is well typed.
LEMMA AfterTypes ==
  ASSUME E!TypeOK, NEW c \in Calls
  PROVE  E!BridgeAfter(c) \in E!Bridge /\ E!LabelAfter(c) \in E!Label
<1>1. /\ e_call[c] \in E!Call /\ e_bridge \in E!Bridge /\ e_label \in E!Label
      /\ e_call[c].next \in E!Row
  BY DEF E!TypeOK, E!Call
<1>2. E!Answer(e_call[c].next) \in E!Hash \cup {NoHash}
  BY <1>1, HashTypes
<1>3. E!BridgeAfter(c) \in E!Bridge
  BY <1>1 DEF E!BridgeAfter, E!Bridge, E!Call
<1>4. E!LabelAfter(c) \in E!Label
  BY <1>1, <1>2 DEF E!LabelAfter, E!Label
<1> QED
  BY <1>3, <1>4

\* A handler's write leaves rows and handlers well typed.
LEMMA WriteTypes ==
  ASSUME E!TypeOK, NEW c \in Calls, E!Write(c)
  PROVE  E!TypeOK'
<1>0. /\ e_call \in [Calls -> E!Call] /\ e_row \in [E!Sides -> E!Row]
      /\ e_stale \in [E!Sides -> Nat] /\ e_call[c].side \in E!Sides /\ e_call[c].next \in E!Row
  BY DEF E!TypeOK, E!Call
<1>1. e_row' \in [E!Sides -> E!Row] /\ e_stale' \in [E!Sides -> Nat] /\ e_local' \in BOOLEAN
  BY <1>0 DEF E!Write, E!TypeOK
<1>2. e_call' \in [Calls -> E!Call]
  <2>1. ASSUME NEW d \in Calls PROVE e_call'[d] \in E!Call
    <3>1. CASE d = c
      <4>1. [e_call[c] EXCEPT !.pc = "reread", !.next = E!NewRow, !.old = FALSE] \in E!Call
        BY <1>0, HashTypes DEF E!Call
      <4> QED
        BY <3>1, <4>1, HashTypes DEF E!Write
    <3>2. CASE d # c
      <4>1. [e_call[d] EXCEPT !.old = TRUE] \in E!Call
        BY <1>0 DEF E!Call
      <4> QED
        BY <1>0, <3>2, <4>1 DEF E!Write
    <3> QED
      BY <3>1, <3>2
  <2> QED
    BY <2>1 DEF E!Write
<1>3. e_bridge' \in E!Bridge /\ e_label' \in E!Label
  BY AfterTypes DEF E!Write
<1>4. e_drawn' \subseteq E!Hash
  BY <1>3 DEF E!Write, E!TypeOK, E!Label
<1> QED
  BY <1>1, <1>2, <1>3, <1>4 DEF E!Write, E!TypeOK

\* Requests of the staff and other writers of the row.
LEMMA RequestTypes ==
  ASSUME E!TypeOK, NEW c \in Calls, NEW s \in E!Sides,
         \/ \E p \in Labelled \cup {None} : E!SendToDevice(c, s, p)
         \/ E!DeleteDevice(c, s) \/ E!Touch(c, s)
  PROVE  E!TypeOK'
<1>0. /\ e_call \in [Calls -> E!Call] /\ e_row[s] \in E!Row /\ e_events' \in Nat
      /\ e_asks \in Seq(Labelled \cup {None}) /\ Len(e_asks) + 1 \in Nat
      /\ NoHash \in E!Hash \cup {NoHash} /\ e_price \in [Labelled -> Nat]
  <2>1. e_events' = e_events + 1
    BY DEF E!SendToDevice, E!DeleteDevice, E!Touch, E!Event
  <2> QED
    BY <2>1 DEF E!TypeOK
<1>1. ASSUME NEW p \in Labelled \cup {None}, E!SendToDevice(c, s, p) PROVE E!TypeOK'
  <2> DEFINE h == [product |-> p, asked |-> Len(e_asks) + 1,
                   price |-> IF s = "store" \/ p = None THEN 0 ELSE e_price[p]]
             n == E!Asked(e_row[s], p, Len(e_asks) + 1, h)
  <2>1. h \in E!Hash
    BY <1>0 DEF E!Hash
  <2> HIDE DEF h
  <2>2. n \in E!Row
    BY <1>0, <2>1, AskedType
  <2>3. E!Accept(c, s, "ask", n, NoHash)
    BY <1>1 DEF E!SendToDevice, h
  <2> HIDE DEF n
  <2>4. e_call' \in [Calls -> E!Call]
    BY <1>0, <2>2, <2>3, AcceptIs
  <2> QED
    BY <1>0, <1>1, <2>4 DEF E!SendToDevice, E!TypeOK
<1>2. CASE E!DeleteDevice(c, s)
  <2> DEFINE n == [e_row[s] EXCEPT !.deleted = TRUE, !.product = None]
  <2>1. n \in E!Row
    BY <1>0 DEF E!Row
  <2>2. E!Accept(c, s, "ask", n, NoHash)
    BY <1>2 DEF E!DeleteDevice
  <2> HIDE DEF n
  <2>3. e_call' \in [Calls -> E!Call]
    BY <1>0, <2>1, <2>2, AcceptIs
  <2> QED
    BY <1>0, <1>2, <2>3 DEF E!DeleteDevice, E!TypeOK
<1>3. CASE E!Touch(c, s)
  <2>1. E!Accept(c, s, "touch", e_row[s], NoHash)
    BY <1>3 DEF E!Touch
  <2>2. e_call' \in [Calls -> E!Call]
    BY <1>0, <2>1, AcceptIs
  <2> QED
    BY <1>0, <1>3, <2>2 DEF E!Touch, E!TypeOK
<1> QED
  BY <1>1, <1>2, <1>3

\* What the bridge installs is a row.
LEMMA InstalledType ==
  ASSUME E!TypeOK, NEW r \in E!Row, NEW h \in E!Hash
  PROVE  /\ E!Installed(r, h) \in E!Row
         /\ E!Installed(r, h).product = h.product /\ E!Installed(r, h).asked = h.asked
         /\ E!Installed(r, h).synced = h /\ E!Installed(r, h).syncedAt = Len(e_asks)
         /\ E!Installed(r, h).rendered = r.rendered /\ E!Installed(r, h).deleted = r.deleted
<1>1. Len(e_asks) \in Nat
  BY DEF E!TypeOK
<1> QED
  BY <1>1 DEF E!Installed, E!Asked, E!Row, E!Hash

\* The bridge and the label ask the store, or handlers go on.
LEMMA AskTypes ==
  ASSUME LabelTypes, NEW c \in Calls,
         E!SendSync(c) \/ E!Check(c) \/ E!Poll(c) \/ E!Confirm(c) \/ E!Reread(c)
  PROVE  E!TypeOK'
<1>0. /\ e_call \in [Calls -> E!Call] /\ e_row["store"] \in E!Row
      /\ e_bridge \in E!Bridge /\ e_label \in E!Label /\ NoHash \in E!Hash \cup {NoHash}
      /\ "store" \in E!Sides /\ E!TypeOK /\ c \in Calls \cup {None}
  BY DEF LabelTypes, E!TypeOK, E!Sides
<1>1. CASE E!SendSync(c)
  <2>1. e_bridge.want \in E!Hash
    BY <1>0, <1>1 DEF LabelTypes, SendsHash, E!SendSync, E!Bridge
  <2>2. E!Installed(e_row["store"], e_bridge.want) \in E!Row
    BY <1>0, <2>1, InstalledType
  <2>3. \E kind \in {"sync", "look"}, n \in E!Row :
          E!Accept(c, "store", kind, n, e_bridge.want)
    <3>1. CASE e_row["store"].synced = e_bridge.want /\ ~E!Realign(e_row["store"], e_bridge.want)
      <4>1. E!Accept(c, "store", "look", e_row["store"], e_bridge.want)
        BY <1>1, <3>1 DEF E!SendSync
      <4> QED
        BY <1>0, <4>1
    <3>2. CASE ~(e_row["store"].synced = e_bridge.want
                   /\ ~E!Realign(e_row["store"], e_bridge.want))
      <4>1. E!Accept(c, "store", "sync", E!Installed(e_row["store"], e_bridge.want), e_bridge.want)
        BY <1>1, <3>2 DEF E!SendSync
      <4> QED
        BY <2>2, <4>1
    <3> QED
      BY <3>1, <3>2
  <2>4. e_call' \in [Calls -> E!Call]
    BY <1>0, <2>1, <2>3, AcceptIs
  <2>5. e_bridge' \in E!Bridge
    BY <1>0, <1>1 DEF E!SendSync, E!Bridge
  <2> QED
    BY <1>0, <1>1, <2>4, <2>5 DEF E!SendSync, E!TypeOK
<1>2. CASE E!Check(c)
  <2>1. e_bridge.want \in E!Hash \cup {NoHash}
    BY <1>0 DEF E!Bridge
  <2>2. E!Accept(c, "store", "look", e_row["store"], e_bridge.want)
    BY <1>2 DEF E!Check
  <2>3. e_call' \in [Calls -> E!Call]
    BY <1>0, <2>1, <2>2, AcceptIs
  <2>4. e_bridge' \in E!Bridge
    BY <1>0, <1>2 DEF E!Check, E!Bridge
  <2> QED
    BY <1>0, <1>2, <2>3, <2>4 DEF E!Check, E!TypeOK
<1>3. CASE E!Poll(c)
  <2>1. E!Accept(c, "store", "poll", e_row["store"], NoHash)
    BY <1>3 DEF E!Poll
  <2>2. e_call' \in [Calls -> E!Call]
    BY <1>0, <2>1, AcceptIs
  <2>3. e_label' \in E!Label
    BY <1>0, <1>3 DEF E!Poll, E!Label
  <2> QED
    BY <1>0, <1>3, <2>2, <2>3 DEF E!Poll, E!TypeOK
<1>4. CASE E!Confirm(c)
  <2> DEFINE n == [e_row["store"] EXCEPT !.rendered = e_label.last]
  <2>1. n \in E!Row
    BY <1>0 DEF E!Row, E!Label
  <2>2. E!Accept(c, "store", "confirm", n, NoHash)
    BY <1>4 DEF E!Confirm, E!Rendered
  <2> HIDE DEF n
  <2>3. e_call' \in [Calls -> E!Call]
    BY <1>0, <2>1, <2>2, AcceptIs
  <2>4. e_label' \in E!Label
    BY <1>0, <1>4 DEF E!Confirm, E!Label
  <2> QED
    BY <1>0, <1>4, <2>3, <2>4 DEF E!Confirm, E!TypeOK
<1>5. CASE E!Reread(c)
  <2> DEFINE k == [e_call[c] EXCEPT !.pc = "write", !.kind = "look",
                                    !.next = e_row["store"], !.old = FALSE]
  <2>1. k \in E!Call
    BY <1>0 DEF E!Call
  <2>2. e_call' \in [Calls -> E!Call]
    <3>1. CASE e_row["store"].deleted
      BY <1>0, <1>5, <3>1, HashTypes DEF E!Reread
    <3>2. CASE ~e_row["store"].deleted
      <4>1. e_call' = [e_call EXCEPT ![c] = k]
        BY <1>0, <1>5, <3>2 DEF E!Reread
      <4> QED
        BY <1>0, <2>1, <4>1
    <3> QED
      BY <3>1, <3>2
  <2> QED
    BY <1>0, <1>5, <2>2 DEF E!Reread, E!TypeOK
<1> QED
  BY <1>1, <1>2, <1>3, <1>4, <1>5

\* What a step does to the bridge: nothing; it forgets or waits; it reads production's
\* assignment; or an answer of the store shows what it wants to see.
Forgets ==
  /\ e_bridge'.pc # "send" /\ e_bridge'.want \in {e_bridge.want, NoHash}
  /\ e_bridge'.known \in {e_bridge.known, NoHash}
Learns(c) ==
  /\ E!Write(c) /\ e_call[c].kind = "look" /\ E!Answer(e_call[c].next) = e_call[c].want
  /\ e_bridge'.pc # "send" /\ e_bridge'.want = NoHash /\ e_bridge'.known = e_call[c].want

\* An answer lets the bridge go on.
LEMMA WriteBridge ==
  ASSUME E!TypeOK, NEW c \in Calls, E!Write(c)
  PROVE  UNCHANGED e_bridge \/ Forgets \/ Learns(c)
<1>0. e_bridge \in E!Bridge
  BY DEF E!TypeOK
<1>1. e_bridge' = E!BridgeAfter(c)
  BY DEF E!Write
<1>2. CASE e_bridge.on # c \/ e_call[c].kind # "look"
  BY <1>1, <1>2 DEF E!BridgeAfter
<1>3. CASE ~(e_bridge.on # c \/ e_call[c].kind # "look")
           /\ E!Answer(e_call[c].next) # e_call[c].want
  BY <1>0, <1>1, <1>3 DEF E!BridgeAfter, E!Matches, Forgets, E!Bridge
<1>4. CASE ~(e_bridge.on # c \/ e_call[c].kind # "look")
           /\ E!Answer(e_call[c].next) = e_call[c].want /\ e_bridge.want = NoHash
  BY <1>0, <1>1, <1>4 DEF E!BridgeAfter, E!Matches, Learns, E!Bridge
<1>5. CASE ~(e_bridge.on # c \/ e_call[c].kind # "look")
           /\ E!Answer(e_call[c].next) = e_call[c].want /\ e_bridge.want # NoHash
  BY <1>0, <1>1, <1>5 DEF E!BridgeAfter, E!Matches, Forgets, E!Bridge
<1> QED
  BY <1>2, <1>3, <1>4, <1>5

\* All steps.
LEMMA BridgeTurn ==
  ASSUME E!TypeOK, [E!Next]_(E!vars)
  PROVE  \/ UNCHANGED e_bridge \/ Forgets \/ E!ReadAssignment
         \/ \E c \in Calls : Learns(c)
<1>0. e_bridge \in E!Bridge
  BY DEF E!TypeOK
<1>1. ASSUME NEW c \in Calls, NEW s \in E!Sides,
             \/ \E p \in Labelled \cup {None} : E!SendToDevice(c, s, p)
             \/ E!DeleteDevice(c, s) \/ E!Touch(c, s)
      PROVE  UNCHANGED e_bridge
  BY <1>1 DEF E!SendToDevice, E!DeleteDevice, E!Touch
<1>2. ASSUME NEW c \in Calls, E!BridgeAsks(c) PROVE Forgets
  BY <1>0, <1>2 DEF E!BridgeAsks, E!SendSync, E!Check, Forgets, E!Bridge
<1>3. ASSUME NEW c \in Calls, E!LabelAsks(c) \/ E!Reread(c) PROVE UNCHANGED e_bridge
  BY <1>3 DEF E!LabelAsks, E!Poll, E!Confirm, E!Reread
<1>4. ASSUME NEW c \in Calls, E!Write(c) PROVE UNCHANGED e_bridge \/ Forgets \/ Learns(c)
  BY <1>4, WriteBridge
<1>5. ASSUME NEW p \in Labelled, E!ChangePrice(p) PROVE UNCHANGED e_bridge
  BY <1>5 DEF E!ChangePrice
<1>6. CASE E!Lose \/ E!Refused
  BY <1>0, <1>6 DEF E!Lose, E!Refused, Forgets, E!Bridge
<1>7. CASE E!Restart
  BY <1>7 DEF E!Restart, Forgets
<1>8. CASE UNCHANGED E!vars
  BY <1>8 DEF E!vars
<1> QED
  BY <1>1, <1>2, <1>3, <1>4, <1>5, <1>6, <1>7, <1>8 DEF E!Next, E!Handle

\* All steps of the label's world.
LEMMA LabelTypesStep == LabelTypes /\ [E!Next]_(E!vars) => LabelTypes'
<1> SUFFICES ASSUME LabelTypes, [E!Next]_(E!vars) PROVE LabelTypes'
  OBVIOUS
<1>0. /\ E!TypeOK /\ e_bridge \in E!Bridge /\ e_label \in E!Label
      /\ e_row \in [E!Sides -> E!Row] /\ "production" \in E!Sides /\ e_price \in [Labelled -> Nat]
  BY DEF LabelTypes, E!TypeOK, E!Sides
<1>1. E!TypeOK'
  <2>1. ASSUME NEW c \in Calls, NEW s \in E!Sides,
               \/ \E p \in Labelled \cup {None} : E!SendToDevice(c, s, p)
               \/ E!DeleteDevice(c, s) \/ E!Touch(c, s)
        PROVE  E!TypeOK'
    BY <1>0, <2>1, RequestTypes
  <2>2. ASSUME NEW c \in Calls, E!BridgeAsks(c) \/ E!LabelAsks(c) \/ E!Handle(c)
        PROVE  E!TypeOK'
    BY <1>0, <2>2, AskTypes, WriteTypes DEF E!BridgeAsks, E!LabelAsks, E!Handle
  <2>3. ASSUME NEW p \in Labelled, E!ChangePrice(p) PROVE E!TypeOK'
    <3>1. e_price' \in [Labelled -> Nat] /\ e_events' \in Nat
      BY <1>0, <2>3 DEF E!ChangePrice, E!Event, E!TypeOK
    <3> QED
      BY <1>0, <2>3, <3>1 DEF E!ChangePrice, E!TypeOK
  <2>4. CASE E!ReadAssignment
    <3>1. E!HashOf(e_row["production"]) \in E!Hash
      BY <1>0, HashTypes
    <3>2. e_bridge' \in E!Bridge
      BY <1>0, <2>4, <3>1 DEF E!ReadAssignment, E!Bridge
    <3> QED
      BY <1>0, <2>4, <3>2 DEF E!ReadAssignment, E!TypeOK
  <2>5. CASE E!Lose
    <3>1. e_bridge' \in E!Bridge /\ e_label' \in E!Label
      BY <1>0, <2>5 DEF E!Lose, E!Bridge, E!Label
    <3>2. e_events' \in Nat
      BY <1>0, <2>5 DEF E!Lose, E!Event, E!TypeOK
    <3> QED
      BY <1>0, <2>5, <3>1, <3>2 DEF E!Lose, E!TypeOK
  <2>6. CASE E!Restart
    <3> DEFINE n == [pc |-> "idle", want |-> NoHash, on |-> None, known |-> NoHash]
    <3>a. n \in E!Bridge
      BY DEF E!Bridge
    <3>b. [e_label EXCEPT !.pc = "idle", !.on = None, !.last = NoHash] \in E!Label
      BY <1>0 DEF E!Label
    <3>1. e_bridge' \in E!Bridge /\ e_label' \in E!Label
      BY <1>0, <2>6, <3>a, <3>b DEF E!Restart
    <3>2. e_events' \in Nat
      BY <1>0, <2>6 DEF E!Restart, E!Event, E!TypeOK
    <3> QED
      BY <1>0, <2>6, <3>1, <3>2 DEF E!Restart, E!TypeOK
  <2>7. CASE E!Refused
    <3>1. e_bridge' \in E!Bridge /\ e_label' \in E!Label
      BY <1>0, <2>7 DEF E!Refused, E!Bridge, E!Label
    <3> QED
      BY <1>0, <2>7, <3>1 DEF E!Refused, E!TypeOK
  <2>8. CASE UNCHANGED E!vars
    BY <1>0, <2>8 DEF E!vars, E!TypeOK
  <2> QED
    BY <2>1, <2>2, <2>3, <2>4, <2>5, <2>6, <2>7, <2>8 DEF E!Next
<1>2. SendsHash'
  <2>1. E!HashOf(e_row["production"]) \in E!Hash
    BY <1>0, HashTypes
  <2>2. \/ e_bridge'.pc # "send" \/ UNCHANGED e_bridge
        \/ e_bridge'.want = E!HashOf(e_row["production"])
    <3>1. E!ReadAssignment => e_bridge'.want = E!HashOf(e_row["production"])
      BY <1>0 DEF E!ReadAssignment, E!Bridge
    <3> QED
      BY <1>0, <3>1, BridgeTurn DEF Forgets, Learns
  <2> QED
    BY <2>1, <2>2, LabelAssumption DEF LabelTypes, SendsHash
<1> QED
  BY <1>1, <1>2 DEF LabelTypes

\* What a handler that was accepted is going to write.
WritesHash(k) ==
  \/ /\ k.kind = "ask" /\ k.want = NoHash /\ k.next.rendered = e_row[k.side].rendered
     /\ k.side = "production" => k.next.deleted \/ k.next.asked = Len(e_asks) + 1
  \/ k.kind = "touch" /\ k.next = e_row[k.side] /\ k.want = NoHash
  \/ k.kind = "poll" /\ k.side = "store" /\ k.next = e_row["store"] /\ k.want = NoHash
  \/ /\ k.kind = "confirm" /\ k.side = "store" /\ k.want = NoHash
     /\ k.next = [e_row["store"] EXCEPT !.rendered = e_label.last]
  \/ /\ k.kind = "look" /\ k.side = "store" /\ k.next = e_row["store"]
     /\ \/ k.want = e_bridge.want
        \/ \E c \in Calls : e_call[c].pc = "reread" /\ k.want = e_call[c].want
  \/ /\ k.kind = "sync" /\ k.side = "store" /\ k.want = e_bridge.want /\ e_bridge.pc = "send"
     /\ k.next = E!Installed(e_row["store"], k.want)
Accepted(k) == k.pc = "write" /\ ~k.old /\ ~e_row[k.side].deleted /\ WritesHash(k)
\* A handler begins, or ends without writing.
Begins(c, k) ==
  /\ e_call[c].pc \in {"idle", "reread"} /\ e_call' = [e_call EXCEPT ![c] = k]
  /\ k = E!Idle \/ Accepted(k)
  /\ k.kind = "ask" /\ k.pc = "write" => Len(e_asks') = Len(e_asks) + 1

\* A step that writes no row begins at most one handler.
LEMMA CallTurn ==
  ASSUME LabelTypes, WritersFit, [E!Next]_(E!vars)
  PROVE  \/ \E c \in Calls : E!Write(c)
         \/ /\ UNCHANGED <<e_row, e_stale, e_local, e_drawn>>
            /\ Len(e_asks') >= Len(e_asks)
            /\ \A p \in Labelled : e_price'[p] >= e_price[p]
            /\ UNCHANGED e_call \/ \E c \in Calls, k \in E!Call : Begins(c, k)
<1> DEFINE Quiet == /\ UNCHANGED <<e_row, e_stale, e_local, e_drawn>>
                    /\ Len(e_asks') >= Len(e_asks)
                    /\ \A p \in Labelled : e_price'[p] >= e_price[p]
                    /\ UNCHANGED e_call \/ \E c \in Calls, k \in E!Call : Begins(c, k)
<1>0. /\ E!TypeOK /\ e_bridge \in E!Bridge /\ e_label \in E!Label /\ Len(e_asks) \in Nat
      /\ e_row \in [E!Sides -> E!Row] /\ "store" \in E!Sides /\ "production" \in E!Sides
      /\ e_row["store"] \in E!Row /\ NoHash \in E!Hash \cup {NoHash}
      /\ e_price \in [Labelled -> Nat] /\ e_call \in [Calls -> E!Call]
  BY DEF LabelTypes, E!TypeOK, E!Sides
<1>1. ASSUME NEW c \in Calls, NEW s \in E!Sides, NEW p \in Labelled \cup {None},
             E!SendToDevice(c, s, p)
      PROVE  Quiet
  <2> DEFINE h == [product |-> p, asked |-> Len(e_asks) + 1,
                   price |-> IF s = "store" \/ p = None THEN 0 ELSE e_price[p]]
             n == E!Asked(e_row[s], p, Len(e_asks) + 1, h)
  <2>1. h \in E!Hash
    BY <1>0 DEF E!Hash
  <2> HIDE DEF h
  <2>2. n \in E!Row /\ n.asked = Len(e_asks) + 1 /\ n.rendered = e_row[s].rendered
    <3>1. PICK r \in E!Row, t \in Nat : r = e_row[s] /\ t = Len(e_asks) + 1
      BY <1>0
    <3>2. /\ E!Asked(r, p, t, h) \in E!Row /\ E!Asked(r, p, t, h).asked = t
          /\ E!Asked(r, p, t, h).rendered = r.rendered
      BY <2>1, AskedType
    <3> QED
      BY <3>1, <3>2
  <2>3. E!Accept(c, s, "ask", n, NoHash)
    BY <1>1 DEF E!SendToDevice, h
  <2>4. Len(e_asks') = Len(e_asks) + 1
    BY <1>0, <1>1 DEF E!SendToDevice, E!TypeOK
  <2> HIDE DEF n
  <2>5. \E k \in E!Call : Begins(c, k)
    BY <1>0, <2>2, <2>3, <2>4, AcceptIs DEF Begins, Accepted, WritesHash
  <2> QED
    BY <1>0, <1>1, <2>4, <2>5 DEF E!SendToDevice
<1>2. ASSUME NEW c \in Calls, NEW s \in E!Sides, E!DeleteDevice(c, s) PROVE Quiet
  <2> DEFINE n == [e_row[s] EXCEPT !.deleted = TRUE, !.product = None]
  <2>1. n \in E!Row /\ n.deleted /\ n.rendered = e_row[s].rendered
    BY <1>0 DEF E!Row
  <2>2. E!Accept(c, s, "ask", n, NoHash)
    BY <1>2 DEF E!DeleteDevice
  <2>3. Len(e_asks') = Len(e_asks) + 1
    BY <1>0, <1>2 DEF E!DeleteDevice, E!TypeOK
  <2> HIDE DEF n
  <2>4. \E k \in E!Call : Begins(c, k)
    BY <1>0, <2>1, <2>2, <2>3, AcceptIs DEF Begins, Accepted, WritesHash
  <2> QED
    BY <1>0, <1>2, <2>3, <2>4 DEF E!DeleteDevice
<1>3. ASSUME NEW c \in Calls, NEW s \in E!Sides, E!Touch(c, s) PROVE Quiet
  <2>1. E!Accept(c, s, "touch", e_row[s], NoHash)
    BY <1>3 DEF E!Touch
  <2>2. \E k \in E!Call : Begins(c, k)
    BY <1>0, <2>1, AcceptIs DEF Begins, Accepted, WritesHash
  <2> QED
    BY <1>0, <1>3, <2>2 DEF E!Touch
<1>4. ASSUME NEW c \in Calls, E!SendSync(c) PROVE Quiet
  <2>1. e_bridge.want \in E!Hash /\ e_bridge.pc = "send"
    BY <1>0, <1>4 DEF LabelTypes, SendsHash, E!SendSync, E!Bridge
  <2>2. E!Installed(e_row["store"], e_bridge.want) \in E!Row
    BY <1>0, <2>1, InstalledType
  <2>3. \/ E!Accept(c, "store", "look", e_row["store"], e_bridge.want)
        \/ E!Accept(c, "store", "sync", E!Installed(e_row["store"], e_bridge.want), e_bridge.want)
    BY <1>4 DEF E!SendSync
  <2>4. \E k \in E!Call : Begins(c, k)
    <3>1. CASE E!Accept(c, "store", "look", e_row["store"], e_bridge.want)
      BY <1>0, <2>1, <3>1, AcceptIs DEF Begins, Accepted, WritesHash
    <3>2. CASE E!Accept(c, "store", "sync", E!Installed(e_row["store"], e_bridge.want),
                        e_bridge.want)
      BY <1>0, <2>1, <2>2, <3>2, AcceptIs DEF Begins, Accepted, WritesHash
    <3> QED
      BY <2>3, <3>1, <3>2
  <2> QED
    BY <1>0, <1>4, <2>4 DEF E!SendSync
<1>5. ASSUME NEW c \in Calls, E!Check(c) PROVE Quiet
  <2>1. e_bridge.want \in E!Hash \cup {NoHash}
    BY <1>0 DEF E!Bridge
  <2>2. E!Accept(c, "store", "look", e_row["store"], e_bridge.want)
    BY <1>5 DEF E!Check
  <2>3. \E k \in E!Call : Begins(c, k)
    BY <1>0, <2>1, <2>2, AcceptIs DEF Begins, Accepted, WritesHash
  <2> QED
    BY <1>0, <1>5, <2>3 DEF E!Check
<1>6. ASSUME NEW c \in Calls, E!Poll(c) PROVE Quiet
  <2>1. E!Accept(c, "store", "poll", e_row["store"], NoHash)
    BY <1>6 DEF E!Poll
  <2>2. \E k \in E!Call : Begins(c, k)
    BY <1>0, <2>1, AcceptIs DEF Begins, Accepted, WritesHash
  <2> QED
    BY <1>0, <1>6, <2>2 DEF E!Poll
<1>7. ASSUME NEW c \in Calls, E!Confirm(c) PROVE Quiet
  <2> DEFINE n == [e_row["store"] EXCEPT !.rendered = e_label.last]
  <2>1. n \in E!Row
    BY <1>0 DEF E!Row, E!Label
  <2>2. E!Accept(c, "store", "confirm", n, NoHash)
    BY <1>7 DEF E!Confirm, E!Rendered
  <2>3. PICK m \in E!Row : m = [e_row["store"] EXCEPT !.rendered = e_label.last]
    BY <2>1
  <2>4. E!Accept(c, "store", "confirm", m, NoHash)
    BY <2>2, <2>3
  <2>5. \E k \in E!Call : Begins(c, k)
    BY <1>0, <2>3, <2>4, AcceptIs DEF Begins, Accepted, WritesHash
  <2> QED
    BY <1>0, <1>7, <2>5 DEF E!Confirm
<1>8. ASSUME NEW c \in Calls, E!Reread(c) PROVE Quiet
  <2> DEFINE k == [e_call[c] EXCEPT !.pc = "write", !.kind = "look",
                                    !.next = e_row["store"], !.old = FALSE]
  <2>0. e_call[c].kind = "sync" /\ e_call[c].side = "store" /\ e_call[c].pc = "reread"
        /\ e_call[c] \in E!Call
    BY <1>0, <1>8 DEF E!Reread, WritersFit, WriterFits
  <2>1. \E j \in E!Call : Begins(c, j)
    <3>1. CASE e_row["store"].deleted
      <4>1. e_call' = [e_call EXCEPT ![c] = E!Idle]
        BY <1>8, <3>1 DEF E!Reread
      <4>2. E!Idle.pc # "write"
        BY DEF E!Idle
      <4> QED
        <5>1. Begins(c, E!Idle)
          BY <2>0, <4>1, <4>2 DEF Begins
        <5>2. E!Idle \in E!Call
          BY <1>0, HashTypes
        <5> QED
          BY <5>1, <5>2
    <3>2. CASE ~e_row["store"].deleted
      <4>1. e_call' = [e_call EXCEPT ![c] = k]
        BY <1>0, <1>8, <3>2 DEF E!Reread
      <4>2. k \in E!Call /\ k.pc = "write" /\ k.kind = "look" /\ k.side = "store" /\ ~k.old
            /\ k.next = e_row["store"] /\ k.want = e_call[c].want
        BY <1>0, <2>0 DEF E!Call
      <4>3. Accepted(k)
        BY <2>0, <3>2, <4>2 DEF Accepted, WritesHash
      <4> QED
        BY <2>0, <4>1, <4>2, <4>3 DEF Begins
    <3> QED
      BY <3>1, <3>2
  <2> QED
    BY <1>0, <1>8, <2>1 DEF E!Reread
<1>9. ASSUME NEW p \in Labelled, E!ChangePrice(p) PROVE Quiet
  BY <1>0, <1>9 DEF E!ChangePrice
<1>10. CASE E!ReadAssignment \/ E!Lose \/ E!Restart \/ E!Refused \/ UNCHANGED E!vars
  BY <1>0, <1>10 DEF E!ReadAssignment, E!Lose, E!Restart, E!Refused, E!vars
<1> QED
  BY <1>1, <1>2, <1>3, <1>4, <1>5, <1>6, <1>7, <1>8, <1>9, <1>10
  DEF E!Next, E!Handle, E!BridgeAsks, E!LabelAsks

-----------------------------------------------------------------------------
\* Another handler in the middle of things when c writes: it reads an outdated row if it
\* is of the same backend and the write changes anything.
SameBut(k, m) ==
  /\ m.pc = k.pc /\ m.kind = k.kind /\ m.side = k.side /\ m.next = k.next /\ m.want = k.want
  /\ k.old => m.old

\* What the write of a row does.
LEMMA WriteIs ==
  ASSUME E!TypeOK, NEW c \in Calls, E!Write(c), NEW k \in E!Call, k = e_call[c]
  PROVE  /\ e_row' = [e_row EXCEPT ![k.side] = k.next] /\ k.pc = "write"
         /\ k.side \in E!Sides /\ k.next \in E!Row
         /\ IF k.old THEN e_stale'[k.side] # 0 ELSE e_stale' = e_stale
         /\ e_stale' \in [E!Sides -> Nat]
         /\ \A s \in E!Sides : e_stale[s] # 0 => e_stale'[s] # 0
         /\ (e_local' <=> e_local \/ (k.kind = "ask" /\ k.side = "store"))
         /\ UNCHANGED <<e_price, e_events, e_asks>>
         /\ e_label' = E!LabelAfter(c) /\ e_drawn \subseteq e_drawn'
         /\ e_label'.shown \in e_drawn' \cup {NoHash}
         /\ \/ k.kind # "sync" /\ e_call'[c] = E!Idle
            \/ /\ k.kind = "sync" /\ e_call'[c].pc = "reread" /\ e_call'[c].kind = "sync"
               /\ e_call'[c].side = k.side /\ e_call'[c].want = k.want
               /\ e_call'[c].next = E!NewRow
         /\ \A d \in Calls \ {c} :
              /\ SameBut(e_call[d], e_call'[d])
              /\ e_call[d].pc = "write" /\ e_call[d].side = k.side /\ k.next # e_row[k.side]
                   => e_call'[d].old
<1>1. e_call \in [Calls -> E!Call] /\ k.side \in E!Sides /\ k.next \in E!Row
      /\ e_stale \in [E!Sides -> Nat]
  BY DEF E!TypeOK, E!Call
<1>2. /\ e_row' = [e_row EXCEPT ![k.side] = k.next] /\ k.pc = "write"
      /\ e_stale' = IF k.old THEN [e_stale EXCEPT ![k.side] = @ + 1] ELSE e_stale
      /\ (e_local' <=> e_local \/ (k.kind = "ask" /\ k.side = "store"))
      /\ UNCHANGED <<e_price, e_events, e_asks>>
      /\ e_label' = E!LabelAfter(c)
      /\ e_drawn' = IF e_label'.shown = NoHash THEN e_drawn ELSE e_drawn \cup {e_label'.shown}
  BY DEF E!Write
<1>3. /\ e_stale' \in [E!Sides -> Nat]
      /\ IF k.old THEN e_stale'[k.side] # 0 ELSE e_stale' = e_stale
      /\ \A s \in E!Sides : e_stale[s] # 0 => e_stale'[s] # 0
  BY <1>1, <1>2
<1>4. \/ k.kind # "sync" /\ e_call'[c] = E!Idle
      \/ /\ k.kind = "sync" /\ e_call'[c].pc = "reread" /\ e_call'[c].kind = "sync"
         /\ e_call'[c].side = k.side /\ e_call'[c].want = k.want
         /\ e_call'[c].next = E!NewRow
  <2>1. k.kind # "sync" => e_call'[c] = E!Idle
    BY DEF E!Write
  <2>2. k.kind = "sync" => e_call'[c] = [k EXCEPT !.pc = "reread", !.next = E!NewRow, !.old = FALSE]
    BY DEF E!Write
  <2> QED
    BY <2>1, <2>2 DEF E!Call
<1>5. ASSUME NEW d \in Calls \ {c}
      PROVE  /\ SameBut(e_call[d], e_call'[d])
             /\ e_call[d].pc = "write" /\ e_call[d].side = k.side /\ k.next # e_row[k.side]
                  => e_call'[d].old
  <2>1. e_call'[d] = IF e_call[d].pc = "write" /\ e_call[d].side = k.side /\ k.next # e_row[k.side]
                     THEN [e_call[d] EXCEPT !.old = TRUE] ELSE e_call[d]
    BY DEF E!Write
  <2>2. e_call[d] \in E!Call
    BY <1>1
  <2> QED
    BY <2>1, <2>2 DEF SameBut, E!Call
<1> QED
  BY <1>1, <1>2, <1>3, <1>4, <1>5

\* What is called rendered has been drawn.
LEMMA DrawnStep ==
  ASSUME LabelTypes, LabelTypes', WritersFit, DrawnFits, [E!Next]_(E!vars)
  PROVE  DrawnFits'
<1>0. /\ E!TypeOK /\ E!TypeOK' /\ e_call \in [Calls -> E!Call] /\ e_row \in [E!Sides -> E!Row]
      /\ e_label \in E!Label /\ E!NewRow.rendered = NoHash /\ E!Idle.next = E!NewRow
  BY DEF LabelTypes, E!TypeOK, E!NewRow, E!Idle
<1>1. ASSUME NEW c \in Calls, E!Write(c) PROVE DrawnFits'
  <2>0. PICK k \in E!Call : k = e_call[c]
    BY <1>0
  <2>1. e_drawn \subseteq e_drawn' /\ e_row' = [e_row EXCEPT ![k.side] = k.next]
        /\ k.side \in E!Sides /\ k.next \in E!Row
    BY <1>0, <1>1, <2>0, WriteIs
  <2>2. \A s \in E!Sides : e_row'[s].rendered \in Drawn'
    BY <1>0, <2>0, <2>1 DEF DrawnFits, Drawn
  <2>3. ASSUME NEW d \in Calls PROVE e_call'[d].next.rendered \in Drawn'
    <3>1. e_call'[d].next = E!NewRow \/ e_call'[d].next = e_call[d].next
      <4>1. CASE d = c
        BY <1>0, <1>1, <2>0, <4>1, WriteIs
      <4>2. CASE d # c
        <5>1. SameBut(e_call[d], e_call'[d])
          BY <1>0, <1>1, <2>0, <4>2, WriteIs
        <5> QED
          BY <5>1 DEF SameBut
      <4> QED
        BY <4>1, <4>2
    <3> QED
      BY <1>0, <2>1, <3>1 DEF DrawnFits, Drawn
  <2>4. e_label'.last \in Drawn'
    <3>1. e_label' = E!LabelAfter(c) /\ e_label'.shown \in Drawn'
      BY <1>0, <1>1, <2>0, WriteIs DEF Drawn
    <3>2. E!LabelAfter(c).last = e_label.last \/ E!LabelAfter(c).last = E!LabelAfter(c).shown
      BY <1>0 DEF E!LabelAfter, E!Label
    <3> QED
      BY <2>1, <3>1, <3>2 DEF DrawnFits, Drawn
  <2> QED
    BY <2>2, <2>3, <2>4 DEF DrawnFits
<1>2. CASE \A c \in Calls : ~E!Write(c)
  <2>1. UNCHANGED <<e_row, e_drawn>>
    BY <1>2, CallTurn
  <2>2. e_label'.last \in Drawn
    <3>1. e_label'.last \in {e_label.last, NoHash}
      BY <1>0, <1>2 DEF E!Next, E!Handle, E!BridgeAsks, E!LabelAsks, E!Label, E!SendToDevice,
         E!DeleteDevice, E!Touch, E!SendSync, E!Check, E!Poll, E!Confirm, E!Reread,
         E!ChangePrice, E!ReadAssignment, E!Lose, E!Restart, E!Refused, E!vars
    <3> QED
      BY <3>1 DEF DrawnFits, Drawn
  <2>3. ASSUME NEW c \in Calls, NEW k \in E!Call, Begins(c, k) PROVE k.next.rendered \in Drawn
    <3>1. k.side \in E!Sides /\ "store" \in E!Sides
      BY DEF E!Call, E!Sides
    <3>2. k = E!Idle => k.next.rendered = NoHash
      BY <1>0
    <3>3. CASE Accepted(k)
      <4>1. \/ k.next.rendered = e_row[k.side].rendered
            \/ k.next = [e_row["store"] EXCEPT !.rendered = e_label.last]
            \/ \E h \in E!Hash : k.next = E!Installed(e_row["store"], h)
        <5>1. e_bridge.pc = "send" => e_bridge.want \in E!Hash
          BY <1>0 DEF LabelTypes, SendsHash, E!TypeOK, E!Bridge
        <5> QED
          BY <3>3, <5>1 DEF Accepted, WritesHash
      <4>2. e_row["store"] \in E!Row
        BY <1>0, <3>1
      <4>3. [e_row["store"] EXCEPT !.rendered = e_label.last].rendered = e_label.last
        BY <4>2 DEF E!Row
      <4>4. \A h \in E!Hash : E!Installed(e_row["store"], h).rendered = e_row["store"].rendered
        BY <1>0, <4>2, InstalledType
      <4> QED
        BY <3>1, <4>1, <4>3, <4>4 DEF DrawnFits
    <3> QED
      BY <2>3, <3>2, <3>3 DEF Begins, Drawn
  <2>4. \A d \in Calls : e_call'[d].next.rendered \in Drawn
    <3>1. CASE UNCHANGED e_call
      BY <3>1 DEF DrawnFits
    <3>2. ASSUME NEW c \in Calls, NEW k \in E!Call, Begins(c, k)
          PROVE  \A d \in Calls : e_call'[d].next.rendered \in Drawn
      BY <1>0, <2>3, <3>2 DEF Begins, DrawnFits
    <3> QED
      BY <1>2, <3>1, <3>2, CallTurn
  <2> QED
    BY <2>1, <2>2, <2>4 DEF DrawnFits, Drawn
<1> QED
  BY <1>1, <1>2

\* Readings that are not outdated stay what they are.
LEMMA WritersStep ==
  ASSUME LabelTypes, WritersFit, [E!Next]_(E!vars)
  PROVE  WritersFit'
<1>0. /\ E!TypeOK /\ e_call \in [Calls -> E!Call] /\ e_row \in [E!Sides -> E!Row]
  BY DEF LabelTypes, E!TypeOK
<1>1. ASSUME NEW c \in Calls, E!Write(c), NEW d \in Calls PROVE WriterFits(e_call[d])'
  <2>0. PICK k \in E!Call : k = e_call[c]
    BY <1>0
  <2>1. e_row' = [e_row EXCEPT ![k.side] = k.next] /\ k.side \in E!Sides /\ k.next \in E!Row
    BY <1>0, <1>1, <2>0, WriteIs
  <2>2. CASE d = c
    <3>1. \/ e_call'[c] = E!Idle
          \/ k.kind = "sync" /\ e_call'[c].pc = "reread" /\ e_call'[c].kind = "sync"
             /\ e_call'[c].side = k.side
      BY <1>0, <1>1, <2>0, WriteIs
    <3>2. k.kind = "sync" => k.side = "store"
      BY <2>0 DEF WritersFit, WriterFits
    <3> QED
      BY <2>2, <3>1, <3>2 DEF WriterFits, E!Idle
  <2>3. CASE d # c
    <3>1. SameBut(e_call[d], e_call'[d])
          /\ (e_call[d].pc = "write" /\ e_call[d].side = k.side /\ k.next # e_row[k.side]
                => e_call'[d].old)
      BY <1>0, <1>1, <2>0, <2>3, WriteIs
    <3>2. WriterFits(e_call[d])
      BY DEF WritersFit
    <3>3. e_call'[d].pc = "write" /\ ~e_call'[d].old =>
            /\ e_row'[e_call[d].side] = e_row[e_call[d].side] /\ ~e_call[d].old
      BY <1>0, <2>1, <3>1 DEF SameBut, E!Call
    <3> QED
      BY <3>1, <3>2, <3>3 DEF WriterFits, SameBut, Reader
  <2> QED
    BY <2>2, <2>3
<1>2. CASE \A c \in Calls : ~E!Write(c)
  <2>1. e_row' = e_row
    BY <1>2, CallTurn
  <2>2. CASE UNCHANGED e_call
    BY <2>1, <2>2 DEF WritersFit, WriterFits, Reader
  <2>3. ASSUME NEW c \in Calls, NEW k \in E!Call, Begins(c, k) PROVE WritersFit'
    <3>1. WriterFits(k)
      <4>1. CASE k = E!Idle
        BY <4>1 DEF WriterFits, E!Idle
      <4>2. CASE Accepted(k)
        <5>1. PICK r \in E!Row : r = e_row[k.side]
          BY <1>0 DEF E!Call
        <5>2. r = [r EXCEPT !.rendered = r.rendered]
              /\ \A x : [r EXCEPT !.rendered = x].rendered = x
          BY DEF E!Row
        <5>3. Reader(k) => k.next = r \/ k.next = [r EXCEPT !.rendered = e_label.last]
          BY <4>2, <5>1 DEF Accepted, WritesHash, Reader
        <5>4. Reader(k) => k.next = [r EXCEPT !.rendered = k.next.rendered]
          BY <5>2, <5>3
        <5> QED
          BY <4>2, <5>1, <5>4 DEF Accepted, WritesHash, WriterFits
      <4> QED
        BY <2>3, <4>1, <4>2 DEF Begins
    <3>2. WriterFits(k)'
      BY <2>1, <3>1 DEF WriterFits, Reader
    <3> QED
      BY <1>0, <2>1, <2>3, <3>2 DEF Begins, WritersFit, WriterFits, Reader
  <2> QED
    BY <1>2, <2>2, <2>3, CallTurn
<1> QED
  BY <1>1, <1>2 DEF WritersFit

\* An assignment changes by a request or the bridge only.
LEMMA ChangedStep == LabelTypes /\ WritersFit /\ [E!Next]_(E!vars) => E!ChangedOnPurpose
<1> SUFFICES ASSUME LabelTypes, WritersFit, [E!Next]_(E!vars), NEW s \in E!Sides,
                    e_stale'[s] = 0, E!Assignment(e_row'[s]) # E!Assignment(e_row[s])
             PROVE  /\ \E c \in Calls : \/ E!Running(c, "ask")
                                        \/ s = "store" /\ E!Running(c, "sync")
                    /\ ~e_row[s].deleted
  BY DEF E!ChangedOnPurpose
<1>0. E!TypeOK /\ e_row \in [E!Sides -> E!Row] /\ e_call \in [Calls -> E!Call]
  BY DEF LabelTypes, E!TypeOK
<1>1. PICK c \in Calls : E!Write(c)
  BY CallTurn
<1>2. PICK k \in E!Call : k = e_call[c]
  BY <1>0
<1>3. e_row' = [e_row EXCEPT ![k.side] = k.next] /\ k.pc = "write"
      /\ (k.old => e_stale'[k.side] # 0)
  BY <1>0, <1>1, <1>2, WriteIs
<1>4. k.side = s /\ ~k.old
  BY <1>0, <1>3
<1>5. WriterFits(k)
  BY <1>2 DEF WritersFit
<1>6. ~Reader(k)
  <2>1. ASSUME Reader(k) PROVE FALSE
    <3>1. PICK r \in E!Row : r = e_row[s]
      BY <1>0
    <3>2. k.next = [r EXCEPT !.rendered = k.next.rendered]
      BY <1>3, <1>4, <1>5, <2>1, <3>1 DEF WriterFits
    <3>3. E!Assignment(k.next) = E!Assignment(r)
      BY <3>2 DEF E!Assignment, E!Row
    <3> QED
      BY <1>0, <1>3, <1>4, <3>1, <3>3
  <2> QED
    BY <2>1
<1>7. k.kind = "ask" \/ k.kind = "sync"
  BY <1>6 DEF Reader, E!Call
<1> QED
  BY <1>2, <1>3, <1>4, <1>5, <1>7 DEF E!Running, WriterFits

\* A label that the list shows as up to date has drawn its assignment.
LEMMA PendingTells == DrawnFits => E!ConfirmedMeansDrawn
<1>1. "store" \in E!Sides
  BY DEF E!Sides
<1> QED
  BY <1>1 DEF DrawnFits, Drawn, E!ConfirmedMeansDrawn, E!Pending

-----------------------------------------------------------------------------
\* The order of hashes is one.
LEMMA BeforeOrder ==
  ASSUME NEW f \in E!Hash, NEW g \in E!Hash, NEW h \in E!Hash
  PROVE  /\ Before(f, f)
         /\ Before(f, g) /\ Before(g, h) => Before(f, h)
         /\ Before(f, g) /\ Before(g, f) => f = g
BY DEF Before, E!Hash

\* Production's current hash goes forward while nobody races.
LEMMA CurrentGrows ==
  ASSUME LabelInv, E!TypeOK', Calm', [E!Next]_(E!vars)
  PROVE  /\ Calm /\ Current \in E!Hash /\ Current' \in E!Hash
         /\ Before(Current, Current')
<1>0. /\ E!TypeOK /\ LabelTypes /\ WritersFit /\ "production" \in E!Sides
      /\ e_row \in [E!Sides -> E!Row] /\ e_call \in [Calls -> E!Call]
      /\ e_price \in [Labelled -> Nat] /\ e_stale \in [E!Sides -> Nat]
      /\ e_row["production"] \in E!Row
  BY DEF LabelInv, LabelTypes, E!TypeOK, E!Sides
<1>1. Current \in E!Hash
  BY <1>0, HashTypes DEF Current
<1>2. Current' \in E!Hash
  <2>1. e_row'["production"] \in E!Row /\ e_price' \in [Labelled -> Nat]
    BY <1>0 DEF E!TypeOK
  <2> QED
    BY <2>1 DEF Current, E!HashOf, E!Hash, E!Row
<1>3. ASSUME NEW c \in Calls, E!Write(c) PROVE Calm /\ Before(Current, Current')
  <2>0. PICK k \in E!Call : k = e_call[c]
    BY <1>0
  <2>1. /\ e_row' = [e_row EXCEPT ![k.side] = k.next] /\ k.pc = "write" /\ k.side \in E!Sides
        /\ ~k.old /\ e_stale' = e_stale /\ (e_local' <=> e_local \/ (k.kind = "ask" /\ k.side = "store"))
        /\ e_price' = e_price /\ k.next \in E!Row
    BY <1>0, <1>3, <2>0, WriteIs DEF Calm
  <2>2. WriterFits(k)
    BY <1>0, <2>0 DEF WritersFit
  <2>3. Calm
    BY <1>0, <2>1, <2>2 DEF Calm, WriterFits
  <2>4. CASE k.side # "production"
    <3>1. e_row'["production"] = e_row["production"]
      BY <1>0, <2>1, <2>4
    <3> QED
      BY <1>1, <2>1, <2>3, <3>1, BeforeOrder DEF Current, E!HashOf
  <2>5. CASE k.side = "production" /\ Reader(k)
    <3>1. k.next.product = e_row["production"].product
          /\ k.next.asked = e_row["production"].asked
      BY <1>0, <2>1, <2>2, <2>5 DEF WriterFits, E!Row
    <3>2. Current' = Current
      BY <1>0, <2>1, <2>5, <3>1 DEF Current, E!HashOf
    <3> QED
      BY <1>1, <2>3, <3>2, BeforeOrder
  <2>6. CASE k.side = "production" /\ ~Reader(k)
    <3>1. k.kind = "ask" /\ ~k.next.deleted
      BY <1>0, <2>1, <2>2, <2>6 DEF Reader, WriterFits, E!Call, Calm
    <3>2. k.next.asked > e_row["production"].asked
      BY <1>0, <2>0, <2>1, <2>3, <2>6, <3>1 DEF LabelInv, InOrderWhileCalm, RequestsInOrder, E!Row
    <3>3. Current.asked = e_row["production"].asked /\ Current'.asked = k.next.asked
      BY <1>0, <2>1, <2>6 DEF Current, E!HashOf
    <3> QED
      BY <2>3, <3>2, <3>3 DEF Before
  <2> QED
    BY <2>4, <2>5, <2>6
<1>4. CASE \A c \in Calls : ~E!Write(c)
  <2>1. UNCHANGED <<e_row, e_stale, e_local>> /\ \A p \in Labelled : e_price'[p] >= e_price[p]
    BY <1>0, <1>4, CallTurn
  <2>2. Before(Current, Current')
    BY <1>0, <2>1 DEF Before, Current, E!HashOf, E!Row
  <2>3. Calm
    BY <2>1 DEF Calm
  <2> QED
    BY <1>1, <1>2, <2>2, <2>3
<1> QED
  BY <1>1, <1>2, <1>3, <1>4

\* What the store answers when it has something installed.
LEMMA AnswerIs ==
  ASSUME NEW r \in E!Row, Installs(r)
  PROVE  /\ r.synced # NoHash => E!Answer(r) = r.synced
         /\ r.synced = NoHash => E!Answer(r).asked = 0
<1>1. r.synced # NoHash => r.synced \in E!Hash
  BY DEF E!Row
<1>2. CASE r.synced # NoHash /\ r.product # None
  BY <1>2 DEF Installs, E!Answer, E!BridgeLabelCurrent
<1>3. CASE r.synced # NoHash /\ r.product = None
  <2>1. r.synced.product = None /\ r.synced.asked = r.asked /\ r.synced.price = 0
    BY <1>3 DEF Installs, Old
  <2>2. E!Answer(r) = [product |-> None, asked |-> r.asked, price |-> 0]
    BY <1>3 DEF E!Answer, E!BridgeLabelCurrent, E!OldPrice
  <2> QED
    BY <1>1, <1>3, <2>1, <2>2 DEF E!Hash
<1>4. CASE r.synced = NoHash
  BY <1>4 DEF Installs, E!Answer, E!BridgeLabelCurrent, E!OldPrice
<1> QED
  BY <1>2, <1>3, <1>4

\* What was sent before stays so.
LEMMA OldKept ==
  ASSUME Current \in E!Hash, Current' \in E!Hash, Before(Current, Current'), NEW h, Old(h)
  PROVE  Old(h)'
<1>1. Before(h, Current')
  BY BeforeOrder DEF Old
<1> QED
  BY <1>1 DEF Old, Before

\* And what is installed.
LEMMA InstallsKept ==
  ASSUME Current \in E!Hash, Current' \in E!Hash, Before(Current, Current'),
         NEW r \in E!Row, Installs(r)
  PROVE  Installs(r)'
BY OldKept DEF Installs

\* A known hash that is current again has been current all the time.
LEMMA KnownStays ==
  ASSUME Current \in E!Hash, Current' \in E!Hash, Before(Current, Current'),
         NEW h, Old(h), h = Current'
  PROVE  h = Current
BY BeforeOrder DEF Old

\* Requests in production come in order.
LEMMA RequestsStep ==
  ASSUME LabelInv, E!TypeOK', Calm, Calm', [E!Next]_(E!vars)
  PROVE  RequestsInOrder'
<1>0. /\ E!TypeOK /\ LabelTypes /\ WritersFit /\ "production" \in E!Sides /\ RequestsInOrder
      /\ e_row \in [E!Sides -> E!Row] /\ e_call \in [Calls -> E!Call]
      /\ e_row["production"] \in E!Row /\ Len(e_asks) \in Nat /\ Len(e_asks') \in Nat
  BY DEF LabelInv, LabelTypes, E!TypeOK, E!Sides, InOrderWhileCalm
<1>a. /\ e_row["production"].asked \in 1..Len(e_asks)
      /\ \A c \in Calls :
           e_call[c].pc = "write" /\ e_call[c].kind = "ask" /\ e_call[c].side = "production"
             /\ ~e_call[c].old /\ ~e_call[c].next.deleted =>
               e_call[c].next.asked \in e_row["production"].asked + 1..Len(e_asks)
  BY <1>0 DEF RequestsInOrder
<1>1. ASSUME NEW c \in Calls, E!Write(c) PROVE RequestsInOrder'
  <2>0. PICK k \in E!Call : k = e_call[c]
    BY <1>0
  <2>1. /\ e_row' = [e_row EXCEPT ![k.side] = k.next] /\ k.pc = "write" /\ k.side \in E!Sides
        /\ ~k.old /\ e_asks' = e_asks /\ k.next \in E!Row
    BY <1>0, <1>1, <2>0, WriteIs DEF Calm
  <2>2. WriterFits(k)
    BY <1>0, <2>0 DEF WritersFit
  <2>3. e_row'["production"].asked \in e_row["production"].asked..Len(e_asks)
    <3>1. CASE k.side = "production" /\ Reader(k)
      BY <1>0, <1>a, <2>1, <2>2, <3>1 DEF WriterFits, E!Row
    <3>2. CASE k.side = "production" /\ ~Reader(k)
      <4>1. k.kind = "ask" /\ ~k.next.deleted
        BY <1>0, <2>1, <2>2, <3>2 DEF Reader, WriterFits, E!Call, Calm
      <4> QED
        BY <1>0, <1>a, <2>0, <2>1, <3>2, <4>1 DEF E!Row
    <3>3. CASE k.side # "production"
      BY <1>0, <1>a, <2>1, <3>3 DEF E!Row
    <3> QED
      BY <3>1, <3>2, <3>3
  <2>4. ASSUME NEW d \in Calls, e_call'[d].pc = "write", e_call'[d].kind = "ask",
               e_call'[d].side = "production", ~e_call'[d].old, ~e_call'[d].next.deleted
        PROVE  e_call'[d].next.asked \in e_row'["production"].asked + 1..Len(e_asks')
    <3>1. d # c
      BY <1>0, <1>1, <2>0, <2>4, WriteIs DEF E!Idle
    <3>2. SameBut(e_call[d], e_call'[d])
          /\ (e_call[d].pc = "write" /\ e_call[d].side = k.side /\ k.next # e_row[k.side]
                => e_call'[d].old)
      BY <1>0, <1>1, <2>0, <3>1, WriteIs
    <3>3. e_row'["production"] = e_row["production"]
      BY <1>0, <2>1, <2>4, <3>2 DEF SameBut
    <3>4. /\ e_call[d].pc = "write" /\ e_call[d].kind = "ask" /\ e_call[d].side = "production"
          /\ ~e_call[d].old /\ ~e_call[d].next.deleted /\ e_call'[d].next = e_call[d].next
      BY <2>4, <3>2 DEF SameBut
    <3> QED
      BY <1>a, <2>1, <3>3, <3>4
  <2> QED
    BY <1>0, <1>a, <2>1, <2>3, <2>4 DEF RequestsInOrder
<1>2. CASE \A c \in Calls : ~E!Write(c)
  <2>1. e_row' = e_row /\ Len(e_asks') >= Len(e_asks)
    BY <1>0, <1>2, CallTurn
  <2>2. CASE UNCHANGED e_call
    BY <1>0, <1>a, <2>1, <2>2 DEF RequestsInOrder
  <2>3. ASSUME NEW c \in Calls, NEW k \in E!Call, Begins(c, k) PROVE RequestsInOrder'
    <3>1. k.pc = "write" /\ k.kind = "ask" /\ k.side = "production" /\ ~k.next.deleted =>
            k.next.asked \in e_row["production"].asked + 1..Len(e_asks')
      <4>1. E!Idle.pc # "write"
        BY DEF E!Idle
      <4> QED
        BY <1>0, <1>a, <2>3, <4>1 DEF Begins, Accepted, WritesHash
    <3>2. ASSUME NEW d \in Calls, e_call'[d].pc = "write", e_call'[d].kind = "ask",
                 e_call'[d].side = "production", ~e_call'[d].old, ~e_call'[d].next.deleted
          PROVE  e_call'[d].next.asked \in e_row'["production"].asked + 1..Len(e_asks')
      <4>1. CASE d = c
        BY <1>0, <2>1, <2>3, <3>1, <3>2, <4>1 DEF Begins
      <4>2. CASE d # c
        BY <1>0, <1>a, <2>1, <2>3, <3>2, <4>2 DEF Begins
      <4> QED
        BY <4>1, <4>2
    <3> QED
      BY <1>0, <1>a, <2>1, <3>2 DEF RequestsInOrder
  <2> QED
    BY <1>0, <1>2, <2>2, <2>3, CallTurn
<1> QED
  BY <1>1, <1>2

\* What happens to the store's row while nobody races: a writer leaves the assignment as
\* it is, or the bridge's comes in its place.
LEMMA StoreRow ==
  ASSUME LabelInv, E!TypeOK', Calm, Calm', NEW c \in Calls, E!Write(c),
         NEW k \in E!Call, k = e_call[c]
  PROVE  \/ /\ e_row'["store"].product = e_row["store"].product
            /\ e_row'["store"].asked = e_row["store"].asked
            /\ e_row'["store"].synced = e_row["store"].synced
            /\ e_row'["store"].syncedAt = e_row["store"].syncedAt
            /\ e_row'["store"].deleted = e_row["store"].deleted
         \/ k.side = "store" /\ Syncs(k) /\ e_row'["store"] = k.next
<1>0. /\ E!TypeOK /\ WritersFit /\ "store" \in E!Sides /\ e_row \in [E!Sides -> E!Row]
      /\ e_row["store"] \in E!Row
  BY DEF LabelInv, LabelTypes, E!TypeOK, E!Sides
<1>1. /\ e_row' = [e_row EXCEPT ![k.side] = k.next] /\ k.pc = "write" /\ k.side \in E!Sides
      /\ ~k.old /\ k.next \in E!Row /\ ~(k.kind = "ask" /\ k.side = "store")
  BY <1>0, WriteIs DEF Calm
<1>2. WriterFits(k)
  BY <1>0 DEF WritersFit
<1>3. CASE k.side # "store"
  BY <1>0, <1>1, <1>3
<1>4. CASE k.side = "store" /\ Reader(k)
  BY <1>0, <1>1, <1>2, <1>4 DEF WriterFits, E!Row
<1>5. CASE k.side = "store" /\ ~Reader(k)
  BY <1>0, <1>1, <1>5 DEF Reader, Syncs, E!Call
<1> QED
  BY <1>3, <1>4, <1>5

\* The store installs in order.
LEMMA InstalledStep ==
  ASSUME LabelInv, E!TypeOK', Calm, Calm', [E!Next]_(E!vars),
         Current \in E!Hash, Current' \in E!Hash, Before(Current, Current')
  PROVE  InstalledInOrder'
<1>0. /\ E!TypeOK /\ LabelTypes /\ WritersFit /\ "store" \in E!Sides
      /\ e_row \in [E!Sides -> E!Row] /\ e_call \in [Calls -> E!Call]
      /\ e_row["store"] \in E!Row /\ e_row'["store"] \in E!Row /\ e_bridge \in E!Bridge
      /\ RequestsInOrder /\ InstalledInOrder /\ BridgeInOrder /\ Len(e_asks) \in Nat
  BY DEF LabelInv, LabelTypes, E!TypeOK, E!Sides, InOrderWhileCalm
<1>a. /\ Installs(e_row["store"])
      /\ \A d \in Calls :
           /\ e_call[d].pc # "idle" /\ e_call[d].want # NoHash => Old(e_call[d].want)
           /\ Syncs(e_call[d]) => /\ e_call[d].next.synced = e_call[d].want
                                  /\ e_call[d].want # NoHash
                                  /\ Installs(e_call[d].next) /\ AfterInstalled(e_call[d].want)
  BY <1>0 DEF InstalledInOrder
<1>b. \A d \in Calls : e_call[d].next \in E!Row /\ (e_call[d].want # NoHash => e_call[d].want \in E!Hash)
  BY <1>0 DEF E!Call
<1>1. ASSUME NEW c \in Calls, E!Write(c) PROVE InstalledInOrder'
  <2>0. PICK k \in E!Call : k = e_call[c]
    BY <1>0
  <2>1. /\ e_row' = [e_row EXCEPT ![k.side] = k.next] /\ k.pc = "write" /\ k.side \in E!Sides
        /\ ~k.old
    BY <1>0, <1>1, <2>0, WriteIs DEF Calm
  <2>2. Installs(e_row["store"])'
    <3>1. CASE k.side = "store" /\ Syncs(k) /\ e_row'["store"] = k.next
      <4>1. Installs(k.next) /\ k.next \in E!Row
        BY <1>a, <1>b, <2>0, <3>1
      <4>2. Installs(k.next)'
        BY <4>1, InstallsKept
      <4> QED
        BY <3>1, <4>2
    <3>2. CASE /\ e_row'["store"].product = e_row["store"].product
               /\ e_row'["store"].asked = e_row["store"].asked
               /\ e_row'["store"].synced = e_row["store"].synced
               /\ e_row'["store"].syncedAt = e_row["store"].syncedAt
               /\ e_row'["store"].deleted = e_row["store"].deleted
      <4>1. PICK r \in E!Row : r = e_row["store"]
        BY <1>0
      <4>2. Installs(r)'
        BY <1>a, <4>1, InstallsKept
      <4> QED
        BY <3>2, <4>1, <4>2 DEF Installs
    <3> QED
      BY <1>1, <2>0, <3>1, <3>2, StoreRow
  <2>3. ASSUME NEW d \in Calls, e_call'[d].pc # "idle", e_call'[d].want # NoHash
        PROVE  Old(e_call[d].want)'
    <3>1. e_call'[d].want = e_call[d].want /\ e_call[d].pc # "idle"
      <4>1. CASE d = c
        BY <1>0, <1>1, <2>0, <2>1, <2>3, <4>1, WriteIs DEF E!Idle
      <4>2. CASE d # c
        <5>1. SameBut(e_call[d], e_call'[d])
          BY <1>0, <1>1, <2>0, <4>2, WriteIs
        <5> QED
          BY <2>3, <5>1 DEF SameBut
      <4> QED
        BY <4>1, <4>2
    <3>2. PICK h : h = e_call[d].want
      OBVIOUS
    <3>3. Old(h)
      BY <1>a, <2>3, <3>1, <3>2
    <3>4. Old(h)'
      BY <3>3, OldKept
    <3> QED
      BY <3>1, <3>2, <3>4
  <2>4. ASSUME NEW d \in Calls, Syncs(e_call[d])'
        PROVE  /\ e_call'[d].next.synced = e_call'[d].want /\ e_call'[d].want # NoHash
               /\ Installs(e_call[d].next)' /\ AfterInstalled(e_call[d].want)'
    <3>1. d # c
      BY <1>0, <1>1, <2>0, <2>4, WriteIs DEF E!Idle, Syncs
    <3>2. SameBut(e_call[d], e_call'[d])
          /\ (e_call[d].pc = "write" /\ e_call[d].side = k.side /\ k.next # e_row[k.side]
                => e_call'[d].old)
      BY <1>0, <1>1, <2>0, <3>1, WriteIs
    <3>3. PICK m \in E!Call : m = e_call[d]
      BY <1>0
    <3>4. Syncs(m) /\ e_call'[d].next = m.next /\ e_call'[d].want = m.want /\ m.side = "store"
      BY <1>0, <2>4, <3>2, <3>3 DEF SameBut, Syncs, WritersFit, WriterFits
    <3>5. /\ m.next.synced = m.want /\ m.want # NoHash /\ Installs(m.next) /\ AfterInstalled(m.want)
          /\ m.next \in E!Row
      BY <1>a, <1>b, <3>3, <3>4
    <3>6. e_row'["store"] = e_row["store"]
      BY <1>0, <2>1, <2>4, <3>2, <3>3, <3>4 DEF Syncs
    <3>7. Installs(m.next)' /\ AfterInstalled(m.want)'
      BY <3>5, <3>6, InstallsKept DEF AfterInstalled
    <3> QED
      BY <3>4, <3>5, <3>7
  <2> QED
    BY <2>2, <2>3, <2>4 DEF InstalledInOrder
<1>2. CASE \A c \in Calls : ~E!Write(c)
  <2>1. e_row' = e_row
    BY <1>0, <1>2, CallTurn
  <2>2. PICK r \in E!Row : r = e_row["store"]
    BY <1>0
  <2>3. Installs(e_row["store"])'
    <3>1. Installs(r)'
      BY <1>a, <2>2, InstallsKept
    <3> QED
      BY <2>1, <2>2, <3>1
  <2>4. ASSUME NEW d \in Calls, NEW k \in E!Call, k = e_call[d]
        PROVE  /\ k.pc # "idle" /\ k.want # NoHash => Old(k.want)'
               /\ Syncs(k) => /\ k.next.synced = k.want /\ k.want # NoHash
                              /\ Installs(k.next)' /\ AfterInstalled(k.want)'
    <3>1. k.pc # "idle" /\ k.want # NoHash => Old(k.want)
      BY <1>a, <2>4
    <3>2. Syncs(k) => /\ k.next.synced = k.want /\ k.want # NoHash /\ k.next \in E!Row
                      /\ Installs(k.next) /\ AfterInstalled(k.want)
      BY <1>a, <1>b, <2>4
    <3> QED
      BY <2>1, <3>1, <3>2, OldKept, InstallsKept DEF AfterInstalled
  <2>5. ASSUME NEW c \in Calls, NEW k \in E!Call, Begins(c, k)
        PROVE  /\ k.pc # "idle" /\ k.want # NoHash => Old(k.want)'
               /\ Syncs(k) => /\ k.next.synced = k.want /\ k.want # NoHash
                              /\ Installs(k.next)' /\ AfterInstalled(k.want)'
    <3>1. CASE k = E!Idle
      BY <3>1 DEF E!Idle, Syncs
    <3>2. CASE Accepted(k)
      <4>1. ASSUME k.want # NoHash PROVE Old(k.want)
        BY <1>0, <1>a, <3>2, <4>1 DEF Accepted, WritesHash, BridgeInOrder
      <4>2. ASSUME Syncs(k)
            PROVE  /\ k.next.synced = k.want /\ k.want # NoHash /\ Installs(k.next)
                   /\ AfterInstalled(k.want) /\ k.next \in E!Row
        <5>1. /\ k.want = e_bridge.want /\ e_bridge.pc = "send" /\ k.want # NoHash
              /\ k.next = E!Installed(e_row["store"], k.want)
          BY <1>0, <3>2, <4>2 DEF Accepted, WritesHash, Syncs, LabelTypes, SendsHash
        <5>2. k.want \in E!Hash /\ Old(k.want) /\ AfterInstalled(k.want)
          BY <1>0, <5>1 DEF BridgeInOrder, Old
        <5>3. PICK h \in E!Hash : h = k.want
          BY <5>2
        <5>4. /\ k.next \in E!Row /\ k.next.product = h.product /\ k.next.asked = h.asked
              /\ k.next.synced = h /\ k.next.syncedAt = Len(e_asks)
              /\ k.next.deleted = e_row["store"].deleted
          <6>1. PICK q \in E!Row : q = e_row["store"]
            BY <1>0
          <6>2. k.next = E!Installed(q, h)
            BY <5>1, <5>3, <6>1
          <6>3. /\ E!Installed(q, h) \in E!Row
                /\ E!Installed(q, h).product = h.product /\ E!Installed(q, h).asked = h.asked
                /\ E!Installed(q, h).synced = h /\ E!Installed(q, h).syncedAt = Len(e_asks)
                /\ E!Installed(q, h).deleted = q.deleted
            BY <1>0, InstalledType
          <6> QED
            BY <6>1, <6>2, <6>3
        <5>5. h.asked <= Len(e_asks)
          <6>1. e_row["production"].asked \in 1..Len(e_asks)
            BY <1>0 DEF RequestsInOrder
          <6>2. Current.asked = e_row["production"].asked
            BY DEF Current, E!HashOf
          <6> QED
            BY <1>0, <5>2, <5>3, <6>1, <6>2 DEF Old, Before, E!Hash
        <5> QED
          BY <1>a, <5>1, <5>2, <5>3, <5>4, <5>5 DEF Installs
      <4> QED
        BY <2>1, <4>1, <4>2, OldKept, InstallsKept DEF AfterInstalled
    <3> QED
      BY <2>5, <3>1, <3>2 DEF Begins
  <2>6. ASSUME NEW d \in Calls
        PROVE  /\ e_call'[d].pc # "idle" /\ e_call'[d].want # NoHash => Old(e_call[d].want)'
               /\ Syncs(e_call[d])' => /\ e_call'[d].next.synced = e_call'[d].want
                                       /\ e_call'[d].want # NoHash
                                       /\ Installs(e_call[d].next)' /\ AfterInstalled(e_call[d].want)'
    <3>1. PICK k \in E!Call :
            /\ k = e_call'[d]
            /\ k.pc # "idle" /\ k.want # NoHash => Old(k.want)'
            /\ Syncs(k) => /\ k.next.synced = k.want /\ k.want # NoHash
                           /\ Installs(k.next)' /\ AfterInstalled(k.want)'
      <4>1. CASE UNCHANGED e_call
        BY <1>0, <2>4, <4>1
      <4>2. ASSUME NEW c \in Calls, NEW k \in E!Call, Begins(c, k)
            PROVE  \E m \in E!Call :
                     /\ m = e_call'[d]
                     /\ m.pc # "idle" /\ m.want # NoHash => Old(m.want)'
                     /\ Syncs(m) => /\ m.next.synced = m.want /\ m.want # NoHash
                                    /\ Installs(m.next)' /\ AfterInstalled(m.want)'
        <5>1. e_call' = [e_call EXCEPT ![c] = k]
          BY <4>2 DEF Begins
        <5>2. CASE d = c
          BY <1>0, <2>5, <4>2, <5>1, <5>2
        <5>3. CASE d # c
          <6>1. e_call'[d] = e_call[d] /\ e_call[d] \in E!Call
            BY <1>0, <5>1, <5>3
          <6> QED
            BY <2>4, <6>1
        <5> QED
          BY <5>2, <5>3
      <4> QED
        BY <1>0, <1>2, <4>1, <4>2, CallTurn
    <3> QED
      BY <3>1 DEF Syncs
  <2> QED
    BY <2>3, <2>6 DEF InstalledInOrder
<1> QED
  BY <1>1, <1>2

\* What the bridge takes for done stays what the store answers.
LEMMA KnownStep ==
  ASSUME LabelInv, E!TypeOK', Calm, Calm', [E!Next]_(E!vars),
         Current \in E!Hash, Current' \in E!Hash, Before(Current, Current'),
         e_bridge.known # NoHash, e_bridge.known = Current'
  PROVE  E!Answer(e_row'["store"]) = e_bridge.known
<1>0. /\ E!TypeOK /\ LabelTypes /\ WritersFit /\ "store" \in E!Sides
      /\ e_row \in [E!Sides -> E!Row] /\ e_call \in [Calls -> E!Call]
      /\ e_row["store"] \in E!Row /\ e_row'["store"] \in E!Row
      /\ RequestsInOrder /\ InstalledInOrder /\ BridgeInOrder
  BY DEF LabelInv, LabelTypes, E!TypeOK, E!Sides, InOrderWhileCalm
<1>1. e_bridge.known = Current /\ E!Answer(e_row["store"]) = Current
  <2>1. PICK h : h = e_bridge.known /\ Old(h)
    BY <1>0 DEF BridgeInOrder
  <2> QED
    BY <1>0, <2>1, KnownStays DEF BridgeInOrder
<1>2. ASSUME NEW c \in Calls, E!Write(c) PROVE E!Answer(e_row'["store"]) = Current
  <2>0. PICK k \in E!Call : k = e_call[c]
    BY <1>0
  <2>1. CASE /\ e_row'["store"].product = e_row["store"].product
             /\ e_row'["store"].asked = e_row["store"].asked
             /\ e_row'["store"].synced = e_row["store"].synced
             /\ e_row'["store"].syncedAt = e_row["store"].syncedAt
             /\ e_row'["store"].deleted = e_row["store"].deleted
    BY <1>1, <2>1 DEF E!Answer, E!BridgeLabelCurrent, E!OldPrice
  <2>2. CASE k.side = "store" /\ Syncs(k) /\ e_row'["store"] = k.next
    <3>1. /\ Installs(e_row["store"]) /\ Installs(k.next) /\ k.next.synced = k.want
          /\ k.want # NoHash /\ AfterInstalled(k.want) /\ Old(k.want)
      BY <1>0, <2>0, <2>2 DEF InstalledInOrder, Syncs
    <3>2. e_row["store"].synced = Current
      <4>1. Current.asked > 0
        BY <1>0 DEF RequestsInOrder, Current, E!HashOf, E!Row
      <4> QED
        BY <1>0, <1>1, <3>1, <4>1, AnswerIs
    <3>3. k.want = Current
      <4>1. Current # NoHash
        BY LabelAssumption
      <4>2. k.want \in E!Hash /\ Before(Current, k.want) /\ Before(k.want, Current)
        BY <3>1, <3>2, <4>1 DEF AfterInstalled, Old
      <4> QED
        BY <4>2, BeforeOrder
    <3> QED
      BY <2>2, <3>1, <3>3, AnswerIs DEF E!Call
  <2> QED
    BY <1>2, <2>0, <2>1, <2>2, StoreRow
<1>3. CASE \A c \in Calls : ~E!Write(c)
  <2>1. e_row' = e_row
    BY <1>0, <1>3, CallTurn
  <2> QED
    BY <1>1, <2>1
<1> QED
  BY <1>1, <1>2, <1>3

\* The bridge follows in order.
LEMMA BridgeStep ==
  ASSUME LabelInv, E!TypeOK', Calm, Calm', [E!Next]_(E!vars),
         Current \in E!Hash, Current' \in E!Hash, Before(Current, Current')
  PROVE  BridgeInOrder'
<1>0. /\ E!TypeOK /\ LabelTypes /\ WritersFit /\ "store" \in E!Sides
      /\ e_row \in [E!Sides -> E!Row] /\ e_call \in [Calls -> E!Call]
      /\ e_row["store"] \in E!Row /\ e_row'["store"] \in E!Row /\ e_bridge \in E!Bridge
      /\ RequestsInOrder /\ InstalledInOrder /\ BridgeInOrder
  BY DEF LabelInv, LabelTypes, E!TypeOK, E!Sides, InOrderWhileCalm
<1>a. /\ e_bridge.want # NoHash => Old(e_bridge.want)
      /\ e_bridge.pc = "send" =>
           /\ AfterInstalled(e_bridge.want)
           /\ \A d \in Calls : Syncs(e_call[d]) => Before(e_call[d].want, e_bridge.want)
      /\ e_bridge.known # NoHash => Old(e_bridge.known)
  BY <1>0 DEF BridgeInOrder
<1>b. /\ Installs(e_row["store"])
      /\ \A d \in Calls :
           /\ e_call[d].pc # "idle" /\ e_call[d].want # NoHash => Old(e_call[d].want)
           /\ Syncs(e_call[d]) => e_call[d].want # NoHash
  BY <1>0 DEF InstalledInOrder
<1>1. e_bridge'.known = e_bridge.known /\ e_bridge.known # NoHash =>
        /\ Old(e_bridge.known)'
        /\ e_bridge'.known = Current' => E!Answer(e_row'["store"]) = e_bridge'.known
  <2>1. PICK h : h = e_bridge.known
    OBVIOUS
  <2>2. h # NoHash => Old(h)'
    BY <1>a, <2>1, OldKept
  <2>3. h # NoHash /\ h = Current' => E!Answer(e_row'["store"]) = h
    BY <2>1, KnownStep
  <2> QED
    BY <2>1, <2>2, <2>3
<1>2. e_bridge'.want = e_bridge.want /\ e_bridge.want # NoHash => Old(e_bridge.want)'
  <2>1. PICK h : h = e_bridge.want
    OBVIOUS
  <2>2. h # NoHash => Old(h)'
    BY <1>a, <2>1, OldKept
  <2> QED
    BY <2>1, <2>2
<1>3. CASE Forgets
  BY <1>1, <1>2, <1>3 DEF Forgets, BridgeInOrder
<1>4. ASSUME NEW c \in Calls, Learns(c) PROVE BridgeInOrder'
  <2>0. PICK k \in E!Call : k = e_call[c]
    BY <1>0
  <2>1. /\ e_row' = [e_row EXCEPT ![k.side] = k.next] /\ k.pc = "write" /\ ~k.old
        /\ k.next \in E!Row
    BY <1>0, <1>4, <2>0, WriteIs DEF Calm, Learns
  <2>2. /\ k.kind = "look" /\ E!Answer(k.next) = k.want /\ e_bridge'.pc # "send"
        /\ e_bridge'.want = NoHash /\ e_bridge'.known = k.want /\ k.side = "store"
    BY <1>0, <1>4, <2>0 DEF Learns, WritersFit, WriterFits
  <2>3. e_row'["store"] = k.next
    BY <1>0, <2>1, <2>2
  <2>4. k.want # NoHash => Old(k.want)'
    BY <1>b, <2>0, <2>1, OldKept
  <2> QED
    BY <2>2, <2>3, <2>4 DEF BridgeInOrder
<1>5. CASE E!ReadAssignment
  <2>1. /\ UNCHANGED <<e_row, e_call, e_price>> /\ e_bridge'.pc = "send"
        /\ e_bridge'.want = Current /\ e_bridge'.known = e_bridge.known
    BY <1>0, <1>5 DEF E!ReadAssignment, E!Bridge, Current
  <2>2. Current' = Current
    BY <2>1 DEF Current, E!HashOf
  <2>3. Old(Current)
    BY BeforeOrder DEF Old, Current, E!HashOf
  <2>4. AfterInstalled(Current) /\ \A d \in Calls : Syncs(e_call[d]) => Before(e_call[d].want, Current)
    BY <1>b DEF AfterInstalled, Installs, Old, Syncs
  <2>5. Old(e_bridge.want)'
    BY <2>1, <2>2, <2>3 DEF Old
  <2>6. AfterInstalled(e_bridge.want)'
    BY <2>1, <2>4 DEF AfterInstalled
  <2>7. \A d \in Calls : Syncs(e_call[d])' => Before(e_call'[d].want, e_bridge'.want)
    BY <2>1, <2>4 DEF Syncs
  <2> QED
    BY <1>1, <2>1, <2>5, <2>6, <2>7 DEF BridgeInOrder
<1>6. CASE UNCHANGED e_bridge
  <2>1. ASSUME e_bridge.pc = "send"
        PROVE  /\ AfterInstalled(e_bridge.want)'
               /\ \A d \in Calls : Syncs(e_call[d])' => Before(e_call'[d].want, e_bridge'.want)
    <3>0. /\ AfterInstalled(e_bridge.want) /\ Old(e_bridge.want)
          /\ \A d \in Calls : Syncs(e_call[d]) => Before(e_call[d].want, e_bridge.want)
      BY <1>0, <1>a, <2>1 DEF LabelTypes, SendsHash
    <3>1. ASSUME NEW c \in Calls, E!Write(c)
          PROVE  /\ AfterInstalled(e_bridge.want)'
                 /\ \A d \in Calls : Syncs(e_call[d])' => Before(e_call'[d].want, e_bridge'.want)
      <4>0. PICK k \in E!Call : k = e_call[c]
        BY <1>0
      <4>1. AfterInstalled(e_bridge.want)'
        <5>1. CASE e_row'["store"].synced = e_row["store"].synced
          BY <1>6, <3>0, <5>1 DEF AfterInstalled
        <5>2. CASE k.side = "store" /\ Syncs(k) /\ e_row'["store"] = k.next
          <6>1. k.next.synced = k.want /\ Before(k.want, e_bridge.want)
            BY <1>0, <3>0, <4>0, <5>2 DEF InstalledInOrder
          <6> QED
            BY <1>6, <5>2, <6>1 DEF AfterInstalled
        <5> QED
          BY <3>1, <4>0, <5>1, <5>2, StoreRow
      <4>2. ASSUME NEW d \in Calls, Syncs(e_call[d])'
            PROVE  Before(e_call'[d].want, e_bridge'.want)
        <5>1. d # c
          BY <1>0, <3>1, <4>0, <4>2, WriteIs DEF E!Idle, Syncs
        <5>2. SameBut(e_call[d], e_call'[d])
          BY <1>0, <3>1, <4>0, <5>1, WriteIs
        <5> QED
          BY <1>6, <3>0, <4>2, <5>2 DEF SameBut, Syncs
      <4> QED
        BY <4>1, <4>2
    <3>2. CASE \A c \in Calls : ~E!Write(c)
      <4>1. e_row' = e_row
        BY <1>0, <3>2, CallTurn
      <4>2. CASE UNCHANGED e_call
        BY <1>6, <3>0, <4>1, <4>2 DEF AfterInstalled, Syncs
      <4>3. ASSUME NEW c \in Calls, NEW k \in E!Call, Begins(c, k), NEW d \in Calls,
                   Syncs(e_call[d])'
            PROVE  Before(e_call'[d].want, e_bridge'.want)
        <5>1. e_call' = [e_call EXCEPT ![c] = k] /\ (k = E!Idle \/ Accepted(k))
          BY <4>3 DEF Begins
        <5>2. CASE d = c
          <6>1. Syncs(k) /\ e_call'[d].want = k.want
            BY <1>0, <4>3, <5>1, <5>2 DEF Syncs
          <6>2. k.want = e_bridge.want
            BY <5>1, <6>1 DEF Accepted, WritesHash, Syncs, E!Idle
          <6> QED
            BY <1>6, <3>0, <6>1, <6>2 DEF Before, Old, E!Hash
        <5>3. CASE d # c
          <6>1. e_call'[d] = e_call[d]
            BY <1>0, <5>1, <5>3
          <6> QED
            BY <1>6, <3>0, <4>3, <6>1 DEF Syncs
        <5> QED
          BY <5>2, <5>3
      <4>4. AfterInstalled(e_bridge.want)'
        BY <1>6, <3>0, <4>1 DEF AfterInstalled
      <4> QED
        BY <1>0, <3>2, <4>2, <4>3, <4>4, CallTurn
    <3> QED
      BY <3>1, <3>2
  <2> QED
    BY <1>1, <1>2, <1>6, <2>1 DEF BridgeInOrder
<1> QED
  BY <1>0, <1>3, <1>4, <1>5, <1>6, BridgeTurn

\* The facts about the label's world are kept by every step.
LEMMA NextLabel == LabelInv /\ [E!Next]_(E!vars) => LabelInv'
<1> SUFFICES ASSUME LabelInv, [E!Next]_(E!vars) PROVE LabelInv'
  OBVIOUS
<1>1. LabelTypes' /\ E!TypeOK'
  BY LabelTypesStep DEF LabelInv, LabelTypes
<1>2. DrawnFits' /\ WritersFit'
  BY <1>1, DrawnStep, WritersStep DEF LabelInv
<1>3. InOrderWhileCalm'
  <2>1. SUFFICES ASSUME Calm' PROVE RequestsInOrder' /\ InstalledInOrder' /\ BridgeInOrder'
    BY DEF InOrderWhileCalm
  <2>2. Calm /\ Current \in E!Hash /\ Current' \in E!Hash /\ Before(Current, Current')
    BY <1>1, <2>1, CurrentGrows
  <2> QED
    BY <1>1, <2>1, <2>2, RequestsStep, InstalledStep, BridgeStep
<1> QED
  BY <1>1, <1>2, <1>3 DEF LabelInv

\* A product has been asked for; nothing is installed or known.
LEMMA InitLabel == E!Init => LabelInv
<1> SUFFICES ASSUME E!Init PROVE LabelInv
  OBVIOUS
<1>1. PICK p \in Labelled :
        /\ e_asks = <<p>>
        /\ e_row = [s \in E!Sides |->
             IF s = "store" THEN E!NewRow
             ELSE E!Asked(E!NewRow, p, 1, [product |-> p, asked |-> 1, price |-> 0])]
  BY DEF E!Init
<1>2. PICK r \in E!Row : /\ r = E!Asked(E!NewRow, p, 1, [product |-> p, asked |-> 1, price |-> 0])
                         /\ r.product = p /\ r.asked = 1 /\ r.rendered = NoHash /\ ~r.deleted
  <2> DEFINE h == [product |-> p, asked |-> 1, price |-> 0]
  <2>1. h \in E!Hash
    BY DEF E!Hash
  <2>2. E!NewRow \in E!Row /\ E!NewRow.rendered = NoHash /\ ~E!NewRow.deleted
    BY DEF E!NewRow, E!Row
  <2> HIDE DEF h
  <2>3. /\ E!Asked(E!NewRow, p, 1, h) \in E!Row
        /\ E!Asked(E!NewRow, p, 1, h).product = p /\ E!Asked(E!NewRow, p, 1, h).asked = 1
        /\ E!Asked(E!NewRow, p, 1, h).rendered = NoHash /\ ~E!Asked(E!NewRow, p, 1, h).deleted
    BY <2>1, <2>2, AskedType
  <2> QED
    BY <2>3 DEF h
<1>3. /\ e_price = [q \in Labelled |-> 0] /\ e_call = [c \in Calls |-> E!Idle]
      /\ e_bridge = [pc |-> "idle", want |-> NoHash, on |-> None, known |-> NoHash]
      /\ e_label = [pc |-> "idle", on |-> None, last |-> NoHash, shown |-> NoHash]
      /\ e_events = 0 /\ e_drawn = {} /\ e_stale = [s \in E!Sides |-> 0] /\ e_local = FALSE
  BY DEF E!Init
<1>4. /\ e_row \in [E!Sides -> E!Row] /\ e_row["store"] = E!NewRow /\ e_row["production"] = r
      /\ E!NewRow \in E!Row /\ E!Idle \in E!Call
  <2>1. E!NewRow \in E!Row
    BY DEF E!NewRow, E!Row
  <2>2. E!Idle \in E!Call
    BY <2>1 DEF E!Idle, E!Call, E!Sides
  <2> QED
    BY <1>1, <1>2, <2>1, <2>2 DEF E!Sides
<1>5. E!TypeOK
  <2>1. e_bridge \in E!Bridge /\ e_label \in E!Label
    BY <1>3 DEF E!Bridge, E!Label
  <2>2. e_asks \in Seq(Labelled \cup {None})
    <3>1. p \in Labelled \cup {None}
      OBVIOUS
    <3>2. <<p>> \in Seq(Labelled \cup {None})
      BY <3>1
    <3> QED
      BY <1>1, <3>2
  <2>3. e_events \in Nat /\ e_local \in BOOLEAN
    BY <1>3
  <2> QED
    BY <1>3, <1>4, <2>1, <2>2, <2>3 DEF E!TypeOK
<1>6. LabelTypes
  BY <1>3, <1>5 DEF LabelTypes, SendsHash
<1>7. DrawnFits
  BY <1>2, <1>3, <1>4 DEF DrawnFits, Drawn, E!Sides, E!NewRow, E!Idle
<1>8. WritersFit
  BY <1>3 DEF WritersFit, WriterFits, E!Idle
<1>9. RequestsInOrder /\ InstalledInOrder /\ BridgeInOrder
  <2>1. RequestsInOrder
    BY <1>1, <1>2, <1>3, <1>4 DEF RequestsInOrder, E!Idle
  <2>2. InstalledInOrder
    BY <1>3, <1>4 DEF InstalledInOrder, Installs, Syncs, E!Idle, E!NewRow
  <2>3. BridgeInOrder
    BY <1>3 DEF BridgeInOrder
  <2> QED
    BY <2>1, <2>2, <2>3
<1> QED
  BY <1>6, <1>7, <1>8, <1>9 DEF LabelInv, InOrderWhileCalm

\* The bridge's knowledge is right unless somebody raced.
LEMMA KnownTells == LabelInv => E!KnownMeansInstalledUnlessRaced
BY DEF LabelInv, InOrderWhileCalm, BridgeInOrder, Calm, Current, E!KnownMeansInstalledUnlessRaced,
   E!KnownMeansInstalled, E!InStore

-----------------------------------------------------------------------------
(***************************************************************************)
(* The closings of the days, for any number of days and of handlers and    *)
(* any window.                                                             *)
(***************************************************************************)
\* A run that closes the days of the window goes through them in order; each day that it
\* has passed counts the sales that were stored when the run began, unless it was raced.
InOrder(k) == \A i \in 1..Len(k.days) - 1 : k.days[i + 1] = k.days[i] + 1
Passed(k, d) == d < k.days[1] /\ d > k.days[Len(k.days)] - Window
Behind(k) ==
  \A d \in D!Days \ d_raced : Passed(k, d) => d_closing[d] >= k.floor[d]

\* What a run has read is at least what it found closed and what was stored at its start,
\* and no more than what is stored.
HasRead(k) ==
  /\ k.before <= k.seen /\ k.floor[k.days[1]] <= k.seen /\ k.seen <= d_sold[k.days[1]]
RunFits(k) ==
  /\ \A d \in D!Days : k.floor[d] <= d_sold[d]
  /\ k.pc = "previous" => ~k.recent
  /\ k.pc \in {"read", "save"} => k.days # <<>>
  /\ k.pc = "save" => HasRead(k)
  /\ k.pc \in {"read", "save"} /\ k.recent => InOrder(k) /\ Behind(k)
ClosingInv ==
  /\ D!TypeOK
  /\ \A d \in D!Days : d_closing[d] <= d_sold[d]
  /\ \A c \in Calls : RunFits(d_call[c])

\* An idle handler is no run.
LEMMA IdleRun ==
  /\ D!Idle \in D!Call /\ D!Idle.pc = "idle" /\ ~D!Idle.recent /\ D!Idle.floor = [d \in D!Days |-> 0]
  /\ D!TypeOK => RunFits(D!Idle)
<1>1. D!Idle \in D!Call
  BY DEF D!Idle, D!Call, D!NoTotal, D!Days
<1>2. D!TypeOK => RunFits(D!Idle)
  BY DEF D!TypeOK, D!Idle, RunFits
<1>3. D!Idle.pc = "idle" /\ ~D!Idle.recent /\ D!Idle.floor = [d \in D!Days |-> 0]
  BY DEF D!Idle
<1> QED
  BY <1>1, <1>2, <1>3

\* The days of the window are days, in order, up to yesterday.
LEMMA RecentDays ==
  ASSUME NEW t \in D!Days
  PROVE  /\ D!Recent(t) \in Seq(D!Days)
         /\ D!Recent(t) # <<>> =>
              /\ \A i \in 1..Len(D!Recent(t)) - 1 : D!Recent(t)[i + 1] = D!Recent(t)[i] + 1
              /\ \A d \in D!Days :
                   ~(d < D!Recent(t)[1] /\ d > D!Recent(t)[Len(D!Recent(t))] - Window)
<1> DEFINE n == IF t - 1 < Window THEN t - 1 ELSE Window
<1>1. n \in Nat /\ n <= t - 1 /\ (n = t - 1 \/ n = Window)
  BY StoreAssumption DEF D!Days
<1>2. D!Recent(t) = [i \in 1..n |-> t - n + i - 1]
  BY DEF D!Recent
<1> HIDE DEF n
<1>3. \A i \in 1..n : t - n + i - 1 \in D!Days
  BY <1>1, StoreAssumption DEF D!Days
<1>4. D!Recent(t) \in Seq(D!Days)
  BY <1>1, <1>2, <1>3
<1>5. Len(D!Recent(t)) = n
  BY <1>1, <1>2, <1>4
<1>6. D!Recent(t) # <<>> => n > 0
  BY <1>1, <1>4, <1>5
<1>7. \A i \in 1..n : D!Recent(t)[i] = t - n + i - 1
  BY <1>2
<1> QED
  BY <1>1, <1>4, <1>5, <1>6, <1>7, StoreAssumption DEF D!Days

\* The days after the first.
LEMMA TailIs ==
  ASSUME NEW S, NEW s \in Seq(S), s # <<>>
  PROVE  /\ Len(Tail(s)) = Len(s) - 1 /\ Len(s) \in Nat \ {0}
         /\ \A i \in 1..Len(Tail(s)) : Tail(s)[i] = s[i + 1]
OBVIOUS

\* What follows when the days are closed is well typed.
LEMMA OnwardType ==
  ASSUME NEW k \in D!Call
  PROVE  D!Onward(k) \in D!Call
BY IdleRun DEF D!Onward, D!Call

\* The server starts with a backfill that has read nothing and the timer's set-up.
LEMMA StartedType ==
  ASSUME d_sold \in [D!Days -> Nat], NEW c \in Calls, NEW d \in Calls
  PROVE  D!Started(c, d) \in [Calls -> D!Call]
<1>1. ASSUME NEW x \in Calls PROVE D!Started(c, d)[x] \in D!Call
  <2> DEFINE k == D!Started(c, d)[x]
  <2>1. \/ k = [D!Idle EXCEPT !.pc = "recent", !.kind = "backfill", !.floor = d_sold]
        \/ k = [D!Idle EXCEPT !.pc = "schedule"]
        \/ k = D!Idle
    BY DEF D!Started
  <2> HIDE DEF k
  <2> QED
    BY <2>1, IdleRun DEF D!Call, k
<1> QED
  BY <1>1 DEF D!Started

\* None of them has days to close yet.
LEMMA StartedRuns ==
  ASSUME D!TypeOK, NEW c \in Calls, NEW d \in Calls, c # d, NEW x \in Calls
  PROVE  RunFits(D!Started(c, d)[x])
<1> DEFINE k == D!Started(c, d)[x]
<1>1. \/ k = [D!Idle EXCEPT !.pc = "recent", !.kind = "backfill", !.floor = d_sold]
      \/ k = [D!Idle EXCEPT !.pc = "schedule"]
      \/ k = D!Idle
  BY DEF D!Started
<1>2. d_sold \in [D!Days -> Nat]
  BY DEF D!TypeOK
<1> HIDE DEF k
<1>3. k.pc \notin {"read", "save", "previous"}
      /\ (k.floor = d_sold \/ k.floor = [e \in D!Days |-> 0])
  BY <1>1, IdleRun DEF D!Call
<1>4. RunFits(k)
  BY <1>2, <1>3 DEF RunFits
<1> QED
  BY <1>4 DEF k

\* Nothing is closed before the first start.
LEMMA InitClosing == D!Init => ClosingInv
<1> SUFFICES ASSUME D!Init PROVE ClosingInv
  OBVIOUS
<1>1. /\ d_sold = [d \in D!Days |-> 0] /\ d_open = [d \in D!Days |-> 0]
      /\ d_closing = [d \in D!Days |-> D!NoTotal]
      /\ d_today = 1 /\ d_due = 0 /\ d_running = FALSE /\ d_events = 0 /\ d_fails = 0
      /\ d_raced = {} /\ d_looked = 0 /\ d_mishap = 0 /\ d_lost = FALSE
  BY DEF D!Init
<1>2. PICK c \in Calls, d \in Calls : c # d /\ d_call = D!Started(c, d)
  BY DEF D!Init
<1>3. 1 \in D!Days /\ MaxDay \in Nat
  BY StoreAssumption DEF D!Days
<1>4. d_call \in [Calls -> D!Call]
  BY <1>1, <1>2, StartedType
<1>5. D!TypeOK
  <2>1. /\ d_open \in [D!Days -> Nat] /\ d_sold \in [D!Days -> Nat]
        /\ d_closing \in [D!Days -> Nat \cup {D!NoTotal}]
    BY <1>1
  <2>2. d_today \in D!Days /\ d_due \in 0..MaxDay + 1 /\ d_looked \in 0..MaxDay
        /\ d_events \in Nat /\ d_fails \in Nat /\ d_mishap \in Nat
    BY <1>1, <1>3
  <2>3. d_running \in BOOLEAN /\ d_lost \in BOOLEAN /\ d_raced \subseteq D!Days
    BY <1>1
  <2> QED
    BY <1>4, <2>1, <2>2, <2>3 DEF D!TypeOK
<1> QED
  BY <1>1, <1>2, <1>5, StartedRuns DEF ClosingInv, D!NoTotal

\* A run keeps its facts while sales are added and no day that is not raced loses any.
LEMMA RunKept ==
  ASSUME ClosingInv, D!TypeOK', NEW k \in D!Call, RunFits(k),
         \A d \in D!Days : d_sold[d] <= d_sold'[d],
         d_raced \subseteq d_raced',
         \A d \in D!Days \ d_raced' : d_closing[d] = D!NoTotal \/ d_closing[d] <= d_closing'[d]
  PROVE  RunFits(k)'
<1>1. /\ d_sold \in [D!Days -> Nat] /\ d_sold' \in [D!Days -> Nat]
      /\ d_closing \in [D!Days -> Nat \cup {-1}] /\ d_closing' \in [D!Days -> Nat \cup {-1}]
  BY DEF ClosingInv, D!TypeOK, D!NoTotal
<1>2. /\ k.floor \in [D!Days -> Nat] /\ k.seen \in Nat /\ k.days \in Seq(D!Days)
      /\ k.before \in Nat \cup {-1}
  BY DEF D!Call, D!NoTotal
<1>3. k.days # <<>> => k.days[1] \in D!Days
  BY <1>2
<1>4. \A d \in D!Days : k.floor[d] <= d_sold'[d]
  BY <1>1, <1>2 DEF RunFits
<1>5. k.pc = "save" => HasRead(k)'
  BY <1>1, <1>2, <1>3 DEF RunFits, HasRead
<1>6. k.pc \in {"read", "save"} /\ k.recent => Behind(k)'
  <2>1. SUFFICES ASSUME Behind(k), NEW d \in D!Days \ d_raced', Passed(k, d)
                 PROVE  d_closing'[d] >= k.floor[d]
    BY DEF RunFits, Behind, Passed
  <2>2. d_closing[d] >= k.floor[d]
    BY <2>1 DEF Behind
  <2>3. d_closing[d] # -1
    BY <1>1, <1>2, <2>2
  <2> QED
    BY <1>1, <1>2, <2>2, <2>3 DEF D!NoTotal
<1> QED
  BY <1>4, <1>5, <1>6 DEF RunFits, InOrder

\* Every step leaves days, sales, closings and runs well typed.
LEMMA RunStepType ==
  ASSUME ClosingInv, NEW c \in Calls, D!Handle(c) \/ D!Fail(c)
  PROVE  D!TypeOK'
<1>0. /\ d_today \in 1..MaxDay /\ MaxDay \in Nat /\ d_call[c] \in D!Call
      /\ d_call \in [Calls -> D!Call] /\ D!TypeOK
  BY StoreAssumption DEF ClosingInv, D!TypeOK, D!Days
<1>d. d_call[c].pc \in {"read", "save"} =>
        /\ d_call[c].days[1] \in D!Days /\ Head(d_call[c].days) = d_call[c].days[1]
        /\ Tail(d_call[c].days) \in Seq(D!Days)
  <2>1. d_call[c].days \in Seq(D!Days)
    BY <1>0 DEF D!Call
  <2>2. d_call[c].pc \in {"read", "save"} => d_call[c].days # <<>>
    BY DEF ClosingInv, RunFits
  <2> QED
    BY <2>1, <2>2
<1>1. CASE D!LookPrevious(c)
  <2> DEFINE k == [d_call[c] EXCEPT !.days = IF d_today = 1 THEN <<>> ELSE <<d_today - 1>>]
  <2>1. k \in D!Call
    <3>1. d_today # 1 => d_today - 1 \in D!Days
      BY <1>0 DEF D!Days
    <3>2. (IF d_today = 1 THEN <<>> ELSE <<d_today - 1>>) \in Seq(D!Days)
      BY <3>1
    <3> QED
      BY <1>0, <3>2 DEF D!Call
  <2>2. d_call' = [d_call EXCEPT ![c] = D!Onward(k)] /\ d_running' = D!FlagAfter(k)
        /\ UNCHANGED <<d_today, d_open, d_sold, d_closing, d_due, d_events, d_fails, D!ghosts>>
    BY <1>1 DEF D!LookPrevious, D!Continue
  <2> HIDE DEF k
  <2> QED
    BY <1>0, <2>1, <2>2, OnwardType DEF D!TypeOK, D!FlagAfter, D!ghosts
<1>2. CASE D!LookRecent(c)
  <2> DEFINE k == [d_call[c] EXCEPT !.days = D!Recent(d_today), !.recent = TRUE]
  <2>1. k \in D!Call
    BY <1>0, RecentDays DEF D!Call, D!TypeOK
  <2>2. d_call' = [d_call EXCEPT ![c] = D!Onward(k)] /\ d_running' = D!FlagAfter(k)
        /\ d_looked' = d_today
        /\ UNCHANGED <<d_today, d_open, d_sold, d_closing, d_due, d_events, d_fails,
                       d_raced, d_mishap, d_lost>>
    BY <1>2 DEF D!LookRecent, D!Continue
  <2> HIDE DEF k
  <2> QED
    BY <1>0, <2>1, <2>2, OnwardType DEF D!TypeOK, D!FlagAfter
<1>3. CASE D!ReadSales(c)
  <2> DEFINE d == d_call[c].days[1]
             k == [d_call[c] EXCEPT !.pc = "save", !.seen = d_sold[d], !.before = d_closing[d]]
  <2>1. k \in D!Call
    BY <1>0, <1>3, <1>d DEF D!ReadSales, D!TypeOK, D!Call
  <2>2. d_call' = [d_call EXCEPT ![c] = k]
    BY <1>0, <1>3, <1>d DEF D!ReadSales
  <2>3. UNCHANGED <<d_today, d_open, d_sold, d_closing, d_due, d_running, d_events, d_fails>>
        /\ UNCHANGED D!ghosts
    BY <1>3 DEF D!ReadSales
  <2> HIDE DEF k
  <2> QED
    BY <1>0, <2>1, <2>2, <2>3 DEF D!TypeOK, D!ghosts
<1>4. CASE D!SaveClosing(c)
  <2> DEFINE d == d_call[c].days[1]
             k == [d_call[c] EXCEPT !.days = Tail(@)]
  <2>1. k \in D!Call
    BY <1>0, <1>4, <1>d DEF D!SaveClosing, D!Call
  <2>2. d_call' = [d_call EXCEPT ![c] = D!Onward(k)] /\ d_running' = D!FlagAfter(k)
        /\ d_closing' = [d_closing EXCEPT ![d] = d_call[c].seen]
        /\ d_raced' = d_raced \cup {x \in {d} : d_closing[x] # d_call[c].before}
        /\ UNCHANGED <<d_today, d_open, d_sold, d_due, d_events, d_fails, d_looked,
                       d_mishap, d_lost>>
    BY <1>4, <1>d DEF D!SaveClosing, D!Continue, D!Stored
  <2>3. d \in D!Days /\ d_call[c].seen \in Nat
    BY <1>0, <1>4, <1>d DEF D!SaveClosing, D!Call
  <2> HIDE DEF k, d
  <2> QED
    BY <1>0, <2>1, <2>2, <2>3, OnwardType DEF D!TypeOK, D!FlagAfter
<1>5. CASE D!Schedule(c)
  BY <1>0, <1>5, IdleRun DEF D!Schedule, D!TypeOK, D!NextMidnight
<1>6. CASE D!Fail(c)
  <2>1. D!AfterError(d_call[c]) \in D!Call
    BY IdleRun DEF D!AfterError, D!Call
  <2> QED
    BY <1>0, <1>6, <2>1 DEF D!Fail, D!TypeOK
<1> QED
  BY <1>1, <1>2, <1>3, <1>4, <1>5, <1>6 DEF D!Handle

\* What a run that is about to write knows of the day.
LEMMA AtSave ==
  ASSUME ClosingInv, NEW c \in Calls, d_call[c].pc \in {"read", "save"}
  PROVE  LET k == d_call[c] IN
         /\ k \in D!Call /\ RunFits(k) /\ k.days \in Seq(D!Days) /\ k.days # <<>>
         /\ k.days[1] \in D!Days /\ Head(k.days) = k.days[1] /\ Tail(k.days) \in Seq(D!Days)
<1>1. d_call[c] \in D!Call /\ RunFits(d_call[c])
  BY DEF ClosingInv, D!TypeOK
<1>2. d_call[c].days \in Seq(D!Days) /\ d_call[c].days # <<>>
  BY <1>1 DEF D!Call, RunFits
<1> QED
  BY <1>1, <1>2

\* A closing that is written counts no fewer sales than the one before, unless it raced.
LEMMA SaveGrows ==
  ASSUME ClosingInv, NEW c \in Calls, D!SaveClosing(c)
  PROVE  /\ d_closing' = [d_closing EXCEPT ![d_call[c].days[1]] = d_call[c].seen]
         /\ d_raced \subseteq d_raced' /\ d_sold' = d_sold
         /\ \A d \in D!Days : d_closing'[d] <= d_sold'[d]
         /\ \A d \in D!Days \ d_raced' : d_closing[d] <= d_closing'[d]
<1>1. PICK e \in D!Days : e = d_call[c].days[1]
  BY AtSave DEF D!SaveClosing
<1>2. d_closing' = [d_closing EXCEPT ![e] = d_call[c].seen] /\ d_sold' = d_sold
      /\ d_raced' = d_raced \cup {x \in {e} : d_closing[x] # d_call[c].before}
  BY <1>1, AtSave DEF D!SaveClosing, D!Stored
<1>3. d_call[c].before <= d_call[c].seen /\ d_call[c].seen <= d_sold[e]
  BY <1>1, AtSave DEF D!SaveClosing, RunFits, HasRead
<1>4. d_closing \in [D!Days -> Nat \cup {-1}] /\ \A d \in D!Days : d_closing[d] <= d_sold[d]
  BY DEF ClosingInv, D!TypeOK, D!NoTotal
<1> QED
  BY <1>1, <1>2, <1>3, <1>4

\* What follows when the days are closed fits.
LEMMA OnwardFits ==
  ASSUME D!TypeOK, NEW k \in D!Call, \A d \in D!Days : k.floor[d] <= d_sold[d],
         k.recent /\ k.days # <<>> => InOrder(k) /\ Behind(k)
  PROVE  RunFits(D!Onward(k))
<1>1. CASE k.days # <<>>
  <2>1. D!Onward(k) = [k EXCEPT !.pc = "read"]
    BY <1>1 DEF D!Onward
  <2> QED
    BY <1>1, <2>1 DEF RunFits, InOrder, Behind, Passed, D!Call
<1>2. CASE k.days = <<>> /\ (k.kind # "job" \/ k.recent)
  <2>1. D!Onward(k) = D!Idle \/ D!Onward(k) = [D!Idle EXCEPT !.pc = "schedule"]
    BY <1>2 DEF D!Onward
  <2> QED
    BY <2>1, IdleRun DEF RunFits, D!Call
<1>3. CASE k.days = <<>> /\ k.kind = "job" /\ ~k.recent
  <2>1. D!Onward(k) = [k EXCEPT !.pc = "recent"]
    BY <1>3 DEF D!Onward
  <2> QED
    BY <2>1 DEF RunFits, D!Call
<1> QED
  BY <1>1, <1>2, <1>3

\* Runs of which only one moves on, or none.
LEMMA RunsKept ==
  ASSUME ClosingInv, D!TypeOK', NEW c \in Calls,
         \A x \in Calls \ {c} : d_call'[x] = d_call[x], RunFits(d_call[c])',
         d_sold' = d_sold, d_raced \subseteq d_raced',
         \A d \in D!Days : d_closing'[d] <= d_sold'[d],
         \A d \in D!Days \ d_raced' : d_closing[d] <= d_closing'[d]
  PROVE  ClosingInv'
<1>1. \A d \in D!Days : d_sold[d] <= d_sold'[d]
  BY DEF ClosingInv, D!TypeOK
<1>2. ASSUME NEW x \in Calls \ {c} PROVE RunFits(d_call[x])'
  <2>1. PICK k \in D!Call : k = d_call[x]
    BY DEF ClosingInv, D!TypeOK
  <2>2. RunFits(k)
    BY <2>1 DEF ClosingInv
  <2>3. RunFits(k)'
    BY <1>1, <2>2, RunKept
  <2> QED
    BY <2>1, <2>3
<1> QED
  BY <1>2 DEF ClosingInv

\* A step that neither stores a sale nor closes a day.
LEMMA QuietRun ==
  ASSUME ClosingInv, D!TypeOK', NEW c \in Calls, NEW k \in D!Call, RunFits(k),
         d_call' = [d_call EXCEPT ![c] = k], UNCHANGED <<d_sold, d_closing, d_raced>>
  PROVE  ClosingInv'
<1>1. d_call'[c] = k /\ \A x \in Calls \ {c} : d_call'[x] = d_call[x]
  BY DEF ClosingInv, D!TypeOK
<1>2. d_sold \in [D!Days -> Nat] /\ d_closing \in [D!Days -> Nat \cup {-1}]
      /\ \A d \in D!Days : d_closing[d] <= d_sold[d]
  BY DEF ClosingInv, D!TypeOK, D!NoTotal
<1>3. RunFits(k)'
  BY <1>2, RunKept
<1>4. RunFits(d_call[c])'
  BY <1>1, <1>3
<1> QED
  BY <1>1, <1>2, <1>4, RunsKept

\* Steps of the handlers: they look for days, read and write them, or fail.
LEMMA RunStep ==
  ASSUME ClosingInv, NEW c \in Calls, D!Handle(c) \/ D!Fail(c)
  PROVE  ClosingInv'
<1>t. D!TypeOK'
  BY RunStepType
<1>0. /\ d_call \in [Calls -> D!Call] /\ d_today \in D!Days /\ d_sold \in [D!Days -> Nat]
      /\ D!TypeOK /\ RunFits(d_call[c]) /\ d_call[c] \in D!Call
      /\ \A d \in D!Days : d_closing[d] <= d_sold[d]
      /\ \A d \in D!Days : d_closing[d] \in Nat \cup {-1}
  BY DEF ClosingInv, D!TypeOK, D!NoTotal
<1>f. \A d \in D!Days : d_call[c].floor[d] <= d_sold[d]
  BY <1>0 DEF RunFits
<1>1. CASE D!LookPrevious(c)
  <2>1. PICK k \in D!Call :
          /\ k = [d_call[c] EXCEPT !.days = IF d_today = 1 THEN <<>> ELSE <<d_today - 1>>]
          /\ d_call' = [d_call EXCEPT ![c] = D!Onward(k)]
    <3>1. d_today # 1 => d_today - 1 \in D!Days
      BY <1>0, StoreAssumption DEF D!Days
    <3>2. (IF d_today = 1 THEN <<>> ELSE <<d_today - 1>>) \in Seq(D!Days)
      BY <3>1
    <3> QED
      BY <1>0, <1>1, <3>2 DEF D!LookPrevious, D!Continue, D!Call
  <2>2. UNCHANGED <<d_sold, d_closing, d_raced>>
    BY <1>1 DEF D!LookPrevious, D!ghosts
  <2>3. RunFits(D!Onward(k))
    <3>1. k.recent = d_call[c].recent /\ k.floor = d_call[c].floor
      BY <1>0, <2>1 DEF D!Call
    <3>2. k.recent => FALSE
      BY <1>0, <1>1, <3>1 DEF D!LookPrevious, RunFits
    <3> QED
      BY <1>0, <1>f, <3>1, <3>2, OnwardFits
  <2> QED
    BY <1>t, <2>1, <2>2, <2>3, OnwardType, QuietRun
<1>2. CASE D!LookRecent(c)
  <2>1. PICK k \in D!Call :
          /\ k = [d_call[c] EXCEPT !.days = D!Recent(d_today), !.recent = TRUE]
          /\ d_call' = [d_call EXCEPT ![c] = D!Onward(k)]
    BY <1>0, <1>2, RecentDays DEF D!LookRecent, D!Continue, D!Call
  <2>2. UNCHANGED <<d_sold, d_closing, d_raced>>
    BY <1>2 DEF D!LookRecent
  <2>3. k.days = D!Recent(d_today) /\ k.floor = d_call[c].floor
    BY <1>0, <2>1 DEF D!Call
  <2>4. k.days # <<>> => InOrder(k) /\ Behind(k)
    BY <1>0, <2>3, RecentDays DEF InOrder, Behind, Passed
  <2>5. RunFits(D!Onward(k))
    BY <1>0, <1>f, <2>3, <2>4, OnwardFits
  <2> QED
    BY <1>t, <2>1, <2>2, <2>5, OnwardType, QuietRun
<1>3. CASE D!ReadSales(c)
  <2>1. PICK e \in D!Days : e = d_call[c].days[1]
    BY <1>3, AtSave DEF D!ReadSales
  <2>2. PICK k \in D!Call :
          /\ k = [d_call[c] EXCEPT !.pc = "save", !.seen = d_sold[e], !.before = d_closing[e]]
          /\ d_call' = [d_call EXCEPT ![c] = k]
    <3> DEFINE n == [d_call[c] EXCEPT !.pc = "save", !.seen = d_sold[e], !.before = d_closing[e]]
    <3>1. Head(d_call[c].days) = e
      BY <1>3, <2>1, AtSave DEF D!ReadSales
    <3>2. d_call' = [d_call EXCEPT ![c] = n]
      BY <1>0, <1>3, <3>1 DEF D!ReadSales
    <3>3. n \in D!Call
      BY <1>0 DEF D!Call, D!NoTotal
    <3> QED
      BY <3>2, <3>3
  <2>3. UNCHANGED <<d_sold, d_closing, d_raced>>
    BY <1>3 DEF D!ReadSales, D!ghosts
  <2>4. RunFits(k)
    <3>1. /\ k.pc = "save" /\ k.seen = d_sold[e] /\ k.before = d_closing[e]
          /\ k.days = d_call[c].days /\ k.recent = d_call[c].recent
          /\ k.floor = d_call[c].floor
      BY <1>0, <2>2 DEF D!Call
    <3>2. d_call[c].pc = "read"
      BY <1>3 DEF D!ReadSales
    <3>3. HasRead(k)
      BY <1>0, <1>f, <2>1, <3>1 DEF HasRead
    <3>4. k.recent => InOrder(k) /\ Behind(k)
      BY <1>0, <3>1, <3>2 DEF RunFits, InOrder, Behind, Passed
    <3> QED
      BY <1>0, <1>f, <3>1, <3>2, <3>3, <3>4 DEF RunFits
  <2> QED
    BY <1>t, <2>2, <2>3, <2>4, QuietRun
<1>4. CASE D!SaveClosing(c)
  <2>1. PICK e \in D!Days : e = d_call[c].days[1]
    BY <1>4, AtSave DEF D!SaveClosing
  <2>2. d_call[c].pc = "save" /\ d_call[c].days \in Seq(D!Days) /\ d_call[c].days # <<>>
        /\ HasRead(d_call[c]) /\ Tail(d_call[c].days) \in Seq(D!Days)
        /\ (d_call[c].recent => InOrder(d_call[c]) /\ Behind(d_call[c]))
    BY <1>4, AtSave DEF D!SaveClosing, RunFits
  <2>3. PICK k \in D!Call :
          /\ k = [d_call[c] EXCEPT !.days = Tail(d_call[c].days)]
          /\ d_call' = [d_call EXCEPT ![c] = D!Onward(k)]
    BY <1>0, <1>4, <2>2 DEF D!SaveClosing, D!Continue, D!Call
  <2>4. k.days = Tail(d_call[c].days) /\ k.recent = d_call[c].recent
        /\ k.floor = d_call[c].floor
    BY <1>0, <2>3 DEF D!Call
  <2>5. /\ d_closing' = [d_closing EXCEPT ![e] = d_call[c].seen]
        /\ d_raced \subseteq d_raced' /\ d_sold' = d_sold
        /\ \A d \in D!Days : d_closing'[d] <= d_sold'[d]
        /\ \A d \in D!Days \ d_raced' : d_closing[d] <= d_closing'[d]
    BY <1>4, <2>1, SaveGrows
  <2>6. k.recent /\ k.days # <<>> => InOrder(k) /\ Behind(k)'
    <3> SUFFICES ASSUME k.recent, k.days # <<>> PROVE InOrder(k) /\ Behind(k)'
      OBVIOUS
    <3>1. InOrder(d_call[c]) /\ Behind(d_call[c])
      BY <2>2, <2>4
    <3>2. /\ Len(k.days) = Len(d_call[c].days) - 1 /\ Len(k.days) \in Nat \ {0}
          /\ \A i \in 1..Len(k.days) : k.days[i] = d_call[c].days[i + 1]
      BY <2>2, <2>4, TailIs
    <3>3. InOrder(k)
      <4> SUFFICES ASSUME NEW i \in 1..Len(k.days) - 1 PROVE k.days[i + 1] = k.days[i] + 1
        BY DEF InOrder
      <4>1. k.days[i + 1] = d_call[c].days[(i + 1) + 1] /\ k.days[i] = d_call[c].days[i + 1]
            /\ i + 1 \in 1..Len(d_call[c].days) - 1
        <5> DEFINE n == Len(k.days)
                   m == Len(d_call[c].days)
        <5>1. n = m - 1 /\ n \in Nat \ {0} /\ i \in 1..n - 1
          BY <3>2
        <5> HIDE DEF n, m
        <5>2. i \in 1..n /\ i + 1 \in 1..n /\ i + 1 \in 1..m - 1
          BY <5>1
        <5> QED
          BY <3>2, <5>2 DEF n, m
      <4> QED
        BY <3>1, <4>1 DEF InOrder
    <3>4. k.days[1] = e + 1 /\ k.days[Len(k.days)] = d_call[c].days[Len(d_call[c].days)]
      BY <2>1, <3>1, <3>2 DEF InOrder
    <3>5. ASSUME NEW d \in D!Days \ d_raced', Passed(k, d)
          PROVE  d_closing'[d] >= k.floor[d]
      <4>1. CASE d = e
        <5>1. d_call[c].seen >= k.floor[e]
          BY <1>0, <2>1, <2>2, <2>4 DEF HasRead, D!Call
        <5>2. d_closing'[e] = d_call[c].seen
          BY <1>0, <2>5 DEF D!TypeOK
        <5> QED
          BY <4>1, <5>1, <5>2
      <4>2. CASE d # e
        <5>1. Passed(d_call[c], d)
          BY <2>1, <3>4, <3>5, <4>2 DEF Passed, D!Days
        <5>2. d_closing[d] >= d_call[c].floor[d]
          BY <2>5, <3>1, <5>1 DEF Behind
        <5> QED
          BY <2>4, <2>5, <4>2, <5>2
      <4> QED
        BY <4>1, <4>2
    <3> QED
      BY <3>3, <3>5 DEF Behind, Passed
  <2>7. RunFits(D!Onward(k))'
    <3>1. \A d \in D!Days : k.floor[d] <= d_sold'[d]
      BY <1>f, <2>4, <2>5
    <3>2. CASE k.days # <<>>
      <4>1. D!Onward(k) = [k EXCEPT !.pc = "read"]
        BY <3>2 DEF D!Onward
      <4> QED
        BY <2>6, <3>1, <3>2, <4>1 DEF RunFits, InOrder, Behind, Passed, D!Call
    <3>3. CASE k.days = <<>> /\ (k.kind # "job" \/ k.recent)
      <4>1. D!Onward(k) = D!Idle \/ D!Onward(k) = [D!Idle EXCEPT !.pc = "schedule"]
        BY <3>3 DEF D!Onward
      <4> QED
        BY <1>0, <2>5, <4>1, IdleRun DEF RunFits, D!Call
    <3>4. CASE k.days = <<>> /\ k.kind = "job" /\ ~k.recent
      <4>1. D!Onward(k) = [k EXCEPT !.pc = "recent"]
        BY <3>4 DEF D!Onward
      <4> QED
        BY <3>1, <4>1 DEF RunFits, D!Call
    <3> QED
      BY <3>2, <3>3, <3>4
  <2> QED
    BY <1>0, <1>t, <2>3, <2>5, <2>7, OnwardType, RunsKept
<1>5. CASE D!Schedule(c)
  <2>1. d_call' = [d_call EXCEPT ![c] = D!Idle] /\ UNCHANGED <<d_sold, d_closing, d_raced>>
    BY <1>5 DEF D!Schedule
  <2> QED
    BY <1>0, <1>t, <2>1, IdleRun, QuietRun
<1>6. CASE D!Fail(c)
  <2>1. d_call' = [d_call EXCEPT ![c] = D!AfterError(d_call[c])]
        /\ UNCHANGED <<d_sold, d_closing, d_raced>>
    BY <1>6 DEF D!Fail
  <2>2. D!AfterError(d_call[c]) \in D!Call /\ RunFits(D!AfterError(d_call[c]))
    BY <1>0, IdleRun DEF D!AfterError, D!Call, RunFits
  <2> QED
    BY <1>t, <2>1, <2>2, QuietRun
<1> QED
  BY <1>1, <1>2, <1>3, <1>4, <1>5, <1>6 DEF D!Handle

\* A new run takes down what is stored by now.
LEMMA BeginRun ==
  ASSUME ClosingInv, NEW c \in Calls, NEW k \in D!Call, D!Begin(c, k),
         k.pc \in {"previous", "read"}, k.pc = "read" => k.days # <<>>, ~k.recent,
         D!TypeOK', UNCHANGED <<d_sold, d_closing, d_raced>>
  PROVE  ClosingInv'
<1> DEFINE n == [k EXCEPT !.floor = d_sold]
<1>1. d_sold \in [D!Days -> Nat]
  BY DEF ClosingInv, D!TypeOK
<1>2. n \in D!Call /\ n.floor = d_sold /\ n.pc = k.pc /\ n.recent = k.recent /\ n.days = k.days
  BY <1>1 DEF D!Call
<1>3. d_call' = [d_call EXCEPT ![c] = n]
  BY DEF D!Begin
<1> HIDE DEF n
<1>4. RunFits(n)
  BY <1>1, <1>2 DEF RunFits
<1> QED
  BY <1>2, <1>3, <1>4, QuietRun

\* Starts of runs, by the timer and by hand.
LEMMA StartRun ==
  ASSUME ClosingInv, NEW c \in Calls,
         D!TimerFires(c) \/ D!TimerEarly(c) \/ \E d \in D!Days : D!CloseByHand(c, d)
  PROVE  ClosingInv'
<1>0. /\ d_call \in [Calls -> D!Call] /\ d_sold \in [D!Days -> Nat] /\ D!TypeOK
      /\ MaxEvents \in Nat /\ MaxDay \in Nat
  BY StoreAssumption DEF ClosingInv, D!TypeOK
<1>1. ASSUME D!RunJob(c), d_events' \in Nat PROVE ClosingInv'
  <2> DEFINE k == [D!Idle EXCEPT !.pc = "previous", !.kind = "job"]
  <2>1. k \in D!Call /\ k.pc = "previous" /\ ~k.recent
    BY IdleRun DEF D!Call, D!Idle
  <2> HIDE DEF k
  <2>2. d_due' = 0 /\ UNCHANGED <<d_today, d_open, d_sold, d_closing, d_fails, D!ghosts>>
    BY <1>1 DEF D!RunJob
  <2>3. CASE UNCHANGED <<d_running, d_call>>
    <3>1. D!TypeOK'
      BY <1>0, <1>1, <2>2, <2>3 DEF D!TypeOK, D!ghosts
    <3>2. \A x \in Calls : RunFits(d_call[x])'
      BY <2>2, <2>3 DEF ClosingInv, RunFits, HasRead, InOrder, Behind, Passed, D!ghosts
    <3> QED
      BY <2>2, <3>1, <3>2 DEF ClosingInv
  <2>4. CASE d_running' = TRUE /\ D!Begin(c, k)
    <3>1. [k EXCEPT !.floor = d_sold] \in D!Call
      BY <1>0, <2>1 DEF D!Call
    <3>2. D!TypeOK'
      BY <1>0, <1>1, <2>2, <2>4, <3>1 DEF D!TypeOK, D!ghosts, D!Begin
    <3> QED
      BY <2>1, <2>2, <2>4, <3>2, BeginRun DEF D!ghosts
  <2> QED
    BY <1>1, <2>3, <2>4 DEF D!RunJob, k
<1>2. CASE D!TimerFires(c)
  BY <1>0, <1>1, <1>2 DEF D!TimerFires, D!TypeOK
<1>3. CASE D!TimerEarly(c)
  BY <1>0, <1>1, <1>3 DEF D!TimerEarly, D!TypeOK, D!Event
<1>4. ASSUME NEW d \in D!Days, D!CloseByHand(c, d) PROVE ClosingInv'
  <2> DEFINE k == [D!Idle EXCEPT !.pc = "read", !.kind = "hand", !.days = <<d>>]
  <2>1. k \in D!Call /\ k.pc = "read" /\ ~k.recent /\ k.days # <<>>
    <3>1. <<d>> \in Seq(D!Days) /\ <<d>> # <<>>
      OBVIOUS
    <3> QED
      BY <3>1, IdleRun DEF D!Call
  <2> HIDE DEF k
  <2>2. D!Begin(c, k) /\ d_events' = d_events + 1
        /\ UNCHANGED <<d_today, d_open, d_sold, d_closing, d_due, d_running, d_fails, D!ghosts>>
    BY <1>4 DEF D!CloseByHand, D!Event, k
  <2>3. [k EXCEPT !.floor = d_sold] \in D!Call
    BY <1>0, <2>1 DEF D!Call
  <2>4. D!TypeOK'
    BY <1>0, <2>2, <2>3 DEF D!TypeOK, D!ghosts, D!Begin
  <2> QED
    BY <2>1, <2>2, <2>4, BeginRun DEF D!ghosts
<1> QED
  BY <1>2, <1>3, <1>4

\* The facts about runs are kept by every step.
LEMMA NextClosing == ClosingInv /\ [D!Next]_(D!vars) => ClosingInv'
<1> SUFFICES ASSUME ClosingInv, [D!Next]_(D!vars) PROVE ClosingInv'
  OBVIOUS
<1>0. /\ d_call \in [Calls -> D!Call] /\ d_sold \in [D!Days -> Nat] /\ D!TypeOK
      /\ d_open \in [D!Days -> Nat] /\ d_closing \in [D!Days -> Nat \cup {-1}]
      /\ \A d \in D!Days : d_closing[d] <= d_sold[d]
      /\ MaxEvents \in Nat /\ MaxDay \in Nat /\ d_today \in 1..MaxDay
  BY StoreAssumption DEF ClosingInv, D!TypeOK, D!NoTotal, D!Days
<1>s. ASSUME D!TypeOK', d_call' = d_call, UNCHANGED <<d_sold, d_closing, d_raced>>
      PROVE  ClosingInv'
  <2>1. \A x \in Calls : RunFits(d_call[x])'
    BY <1>s DEF ClosingInv, RunFits, HasRead, InOrder, Behind, Passed
  <2> QED
    BY <1>s, <2>1 DEF ClosingInv
<1>1. CASE D!BeginSale
  <2>1. d_open' = [d_open EXCEPT ![d_today] = @ + 1] /\ d_call' = d_call
        /\ UNCHANGED <<d_today, d_sold, d_closing, d_due, d_running, d_events, d_fails>>
        /\ UNCHANGED <<d_raced, d_looked, d_mishap, d_lost>>
    BY <1>1 DEF D!BeginSale, D!ghosts
  <2>2. D!TypeOK'
    BY <1>0, <2>1 DEF D!TypeOK, D!Days
  <2> QED
    BY <1>s, <2>1, <2>2
<1>2. ASSUME NEW e \in D!Days, D!StoreSale(e) PROVE ClosingInv'
  <2>1. /\ d_open[e] > 0 /\ d_open' = [d_open EXCEPT ![e] = @ - 1] /\ d_call' = d_call
        /\ d_sold' = [d_sold EXCEPT ![e] = @ + 1]
        /\ UNCHANGED <<d_today, d_closing, d_due, d_running, d_events, d_fails>>
        /\ UNCHANGED <<d_raced, d_looked, d_mishap, d_lost>>
    BY <1>2 DEF D!StoreSale, D!ghosts
  <2>2. D!TypeOK'
    BY <1>0, <2>1 DEF D!TypeOK
  <2>3. \A d \in D!Days : d_sold[d] <= d_sold'[d] /\ d_closing'[d] <= d_sold'[d]
    BY <1>0, <2>1
  <2>4. ASSUME NEW x \in Calls PROVE RunFits(d_call[x])'
    <3>1. PICK k \in D!Call : k = d_call[x]
      BY <1>0
    <3>2. RunFits(k)
      BY <3>1 DEF ClosingInv
    <3>3. RunFits(k)'
      BY <1>0, <2>1, <2>2, <2>3, <3>2, RunKept
    <3> QED
      BY <2>1, <3>1, <3>3
  <2> QED
    BY <2>2, <2>3, <2>4 DEF ClosingInv
<1>3. CASE D!Midnight
  <2>1. d_today' = d_today + 1 /\ d_today < MaxDay /\ d_call' = d_call
        /\ UNCHANGED <<d_open, d_sold, d_closing, d_due, d_running, d_events, d_fails>>
        /\ UNCHANGED <<d_raced, d_looked, d_mishap, d_lost>>
    BY <1>3 DEF D!Midnight, D!ghosts
  <2>2. D!TypeOK'
    BY <1>0, <2>1 DEF D!TypeOK, D!Days
  <2> QED
    BY <1>s, <2>1, <2>2
<1>4. ASSUME NEW c \in Calls,
             D!TimerFires(c) \/ D!TimerEarly(c) \/ \E d \in D!Days : D!CloseByHand(c, d)
      PROVE  ClosingInv'
  BY <1>4, StartRun
<1>5. CASE D!Restart
  <2>1. PICK c \in Calls, d \in Calls : c # d /\ d_call' = D!Started(c, d)
    BY <1>5 DEF D!Restart
  <2>2. /\ d_open' = [x \in D!Days |-> 0] /\ d_due' = 0 /\ d_running' = FALSE
        /\ d_looked' = 0 /\ d_lost' = FALSE /\ d_events' = d_events + 1
        /\ UNCHANGED <<d_today, d_sold, d_closing, d_fails, d_raced, d_mishap>>
    BY <1>5 DEF D!Restart, D!Event
  <2>3. ASSUME NEW x \in Calls PROVE RunFits(d_call'[x])
    BY <1>0, <2>1, StartedRuns
  <2>4. d_call' \in [Calls -> D!Call]
    BY <1>0, <2>1, StartedType
  <2>5. D!TypeOK'
    <3>1. d_open' \in [D!Days -> Nat] /\ d_due' \in 0..MaxDay + 1 /\ d_looked' \in 0..MaxDay
          /\ d_events' \in Nat
      BY <1>0, <2>2 DEF D!TypeOK
    <3> QED
      BY <1>0, <2>2, <2>4, <3>1 DEF D!TypeOK
  <2>6. \A x \in Calls : RunFits(d_call[x])'
    BY <2>2, <2>3 DEF RunFits, HasRead, InOrder, Behind, Passed
  <2> QED
    BY <1>0, <2>2, <2>5, <2>6 DEF ClosingInv
<1>6. ASSUME NEW c \in Calls, D!Handle(c) \/ D!Fail(c) PROVE ClosingInv'
  BY <1>6, RunStep
<1>7. CASE UNCHANGED D!vars
  <2>1. D!TypeOK' /\ d_call' = d_call /\ UNCHANGED <<d_sold, d_closing, d_raced>>
    BY <1>0, <1>7 DEF D!TypeOK, D!vars
  <2> QED
    BY <1>s, <2>1
<1> QED
  BY <1>1, <1>2, <1>3, <1>4, <1>5, <1>6, <1>7 DEF D!Next, D!Fires

\* A step in the closings keeps the order.
LEMMA ClosingsStep == ClosingInv /\ [D!Next]_(D!vars) => D!OrderlyStep
<1> SUFFICES ASSUME ClosingInv, [D!Next]_(D!vars) PROVE D!OrderlyStep
  OBVIOUS
<1>0. /\ d_call \in [Calls -> D!Call] /\ D!TypeOK
      /\ d_closing \in [D!Days -> Nat \cup {-1}]
  BY DEF ClosingInv, D!TypeOK, D!NoTotal
<1>1. ASSUME NEW c \in Calls, D!SaveClosing(c) PROVE D!OrderlyStep
  <2>1. PICK e \in D!Days : e = d_call[c].days[1] /\ e = Head(d_call[c].days)
    BY <1>1, AtSave DEF D!SaveClosing
  <2>2. PICK k \in D!Call : k = d_call[c] /\ RunFits(k) /\ k.pc = "save" /\ k.days \in Seq(D!Days)
    BY <1>1, AtSave DEF D!SaveClosing
  <2>3. /\ d_closing' = [d_closing EXCEPT ![e] = k.seen]
        /\ \A d \in D!Days \ d_raced' : d_closing[d] <= d_closing'[d]
    BY <1>1, <2>1, <2>2, SaveGrows
  <2>4. ASSUME NEW d \in D!Days \ d_raced', NEW x \in Calls, D!Ends(x),
               d < Head(d_call[x].days) + 1, d > Head(d_call[x].days) - Window
        PROVE  d_closing'[d] >= d_call[x].floor[d]
    <3>1. x = c
      <4>1. SUFFICES ASSUME x # c PROVE FALSE
        OBVIOUS
      <4>2. d_call'[x] = d_call[x]
        BY <1>1, <4>1 DEF D!SaveClosing, D!Continue
      <4> QED
        BY <2>4, <4>2 DEF D!Ends
    <3>2. k.recent /\ Len(k.days) = 1
      BY <2>2, <2>4, <3>1 DEF D!Ends
    <3>3. HasRead(k) /\ Behind(k)
      BY <2>2, <3>2 DEF RunFits
    <3>4. CASE d = e
      BY <1>0, <2>1, <2>2, <2>3, <3>1, <3>3, <3>4 DEF HasRead
    <3>5. CASE d # e
      <4>1. Passed(k, d)
        BY <2>1, <2>2, <2>4, <3>1, <3>2, <3>5 DEF Passed, D!Days
      <4>2. d \notin d_raced
        BY <1>1, <2>4, SaveGrows
      <4>3. d_closing[d] >= k.floor[d]
        BY <3>3, <4>1, <4>2 DEF Behind
      <4> QED
        BY <1>0, <2>2, <2>3, <3>1, <3>5, <4>3
    <3> QED
      BY <3>4, <3>5
  <2>5. \A d \in D!Days \ d_raced' : d_closing'[d] >= d_closing[d]
    BY <1>0, <2>2, <2>3 DEF D!Call
  <2> QED
    BY <2>4, <2>5 DEF D!OrderlyStep
<1>2. CASE \A c \in Calls : ~D!SaveClosing(c)
  <2>1. d_closing' = d_closing
    BY <1>2 DEF D!Next, D!vars, D!BeginSale, D!StoreSale, D!Midnight, D!Fires, D!TimerFires,
       D!TimerEarly, D!RunJob, D!Restart, D!CloseByHand, D!Handle, D!LookPrevious,
       D!LookRecent, D!ReadSales, D!Schedule, D!Fail
  <2>2. ASSUME NEW x \in Calls PROVE ~D!Ends(x)
    <3> SUFFICES ASSUME D!Ends(x) PROVE FALSE
      OBVIOUS
    <3>0. d_call[x].pc = "save" /\ d_call'[x].pc # "save" /\ d_events' = d_events
          /\ d_fails' = d_fails /\ d_events \in Nat /\ d_fails \in Nat
      BY <1>0 DEF D!Ends, D!TypeOK
    <3>1. ASSUME NEW c \in Calls, D!Handle(c) PROVE FALSE
      <4>1. d_call[c].pc # "save" /\ \A y \in Calls \ {c} : d_call'[y] = d_call[y]
        BY <1>0, <1>2, <3>1 DEF D!Handle, D!LookPrevious, D!LookRecent, D!ReadSales,
           D!Schedule, D!Continue
      <4> QED
        BY <3>0, <4>1
    <3>2. ASSUME NEW c \in Calls, NEW k, D!Begin(c, k) PROVE FALSE
      <4>1. d_call[c].pc = "idle" /\ \A y \in Calls \ {c} : d_call'[y] = d_call[y]
        BY <1>0, <3>2 DEF D!Begin
      <4> QED
        BY <3>0, <4>1
    <3>3. d_call' # d_call /\ d_fails' # d_fails + 1 /\ d_events' # d_events + 1
      BY <3>0
    <3>4. ~D!BeginSale /\ ~D!Midnight /\ ~D!Restart /\ ~UNCHANGED D!vars
          /\ \A d \in D!Days : ~D!StoreSale(d)
      BY <3>3 DEF D!BeginSale, D!Midnight, D!Restart, D!Event, D!StoreSale, D!vars
    <3>5. \A c \in Calls : ~D!RunJob(c)
      BY <3>2, <3>3 DEF D!RunJob
    <3>6. \A c \in Calls : /\ ~D!TimerFires(c) /\ ~D!TimerEarly(c) /\ ~D!Fail(c)
                           /\ \A d \in D!Days : ~D!CloseByHand(c, d)
      BY <3>3, <3>5 DEF D!TimerFires, D!TimerEarly, D!Fail, D!CloseByHand, D!Event
    <3> QED
      BY <3>1, <3>4, <3>6 DEF D!Next, D!Fires
  <2> QED
    BY <1>0, <2>1, <2>2 DEF D!OrderlyStep
<1> QED
  BY <1>1, <1>2

-----------------------------------------------------------------------------
(***************************************************************************)
(* The composition.                                                        *)
(***************************************************************************)
PartsInv ==
  /\ TillInv
  /\ part = "label" => LabelInv
  /\ part = "price" => V!IInv
  /\ part = "closing" => ClosingInv

\* Initially each part is in one of its own initial states.
LEMMA InitPartsInv == InitParts => PartsInv
<1> SUFFICES ASSUME InitParts PROVE PartsInv
  OBVIOUS
<1>1. TillInv
  BY InitTillInv DEF InitParts
<1>2. part = "label" => LabelInv
  BY InitLabel DEF InitParts
<1>3. part = "price" => V!IInv
  BY V!Initially DEF InitParts
<1>4. part = "closing" => ClosingInv
  BY InitClosing DEF InitParts
<1> QED
  BY <1>1, <1>2, <1>3, <1>4 DEF PartsInv

\* A step of the composition is a step of each part, or leaves it alone.
LEMMA PartStep ==
  ASSUME [NextParts]_allVars
  PROVE  /\ part' = part
         /\ [Next]_vars
         /\ part = "label" => [E!Next]_(E!vars)
         /\ part = "price" => [V!Next]_(V!vars)
         /\ part = "closing" => [D!Next]_(D!vars)
<1>1. CASE UNCHANGED allVars
  <2>1. UNCHANGED <<part, vars, e_vars, v_vars, d_vars>>
    BY <1>1 DEF allVars
  <2>2. UNCHANGED E!vars
    BY <2>1 DEF e_vars, E!vars
  <2>3. UNCHANGED V!vars
    BY <2>1 DEF v_vars, V!vars
  <2>4. UNCHANGED D!vars
    BY <2>1 DEF d_vars, D!vars
  <2> QED
    BY <2>1, <2>2, <2>3, <2>4
<1>2. CASE NextParts
  <2>1. part' = part
    BY <1>2 DEF NextParts
  <2>2. [Next]_vars
    BY <1>2 DEF NextParts
  <2>3. part = "label" => E!Next
    BY <1>2 DEF NextParts
  <2>4. part = "price" => V!Next
    BY <1>2 DEF NextParts
  <2>5. part = "closing" => D!Next
    BY <1>2 DEF NextParts
  <2> QED
    BY <2>1, <2>2, <2>3, <2>4, <2>5
<1> QED
  BY <1>1, <1>2

\* The invariant is inductive.
LEMMA NextPartsInv == PartsInv /\ [NextParts]_allVars => PartsInv'
<1> SUFFICES ASSUME PartsInv, [NextParts]_allVars PROVE PartsInv'
  OBVIOUS
<1>1. TillInv'
  BY PartStep, NextTillInv DEF PartsInv
<1>2. (part = "label" => LabelInv)'
  BY PartStep, NextLabel DEF PartsInv
<1>3. (part = "price" => V!IInv)'
  BY PartStep, V!Invariance DEF PartsInv
<1>4. (part = "closing" => ClosingInv)'
  BY PartStep, NextClosing DEF PartsInv
<1> QED
  BY <1>1, <1>2, <1>3, <1>4 DEF PartsInv

\* It holds in every reachable state.
LEMMA PartsHold == SpecParts => []PartsInv
BY InitPartsInv, NextPartsInv, PTL DEF SpecParts

\* The types of all four parts, for any numbers of requests, handlers, prices and days.
THEOREM StoreIsTyped == SpecParts => []StoreTypes
<1>1. PartsInv => StoreTypes
  <2> SUFFICES ASSUME PartsInv PROVE StoreTypes
    OBVIOUS
  <2>1. TypeOK
    BY DEF PartsInv, TillInv, TypeInv
  <2>2. part = "label" => E!TypeOK
    BY DEF PartsInv, LabelInv, LabelTypes
  <2>3. part = "price" => V!TypeOK
    BY DEF PartsInv, V!IInv, V!Types
  <2>4. part = "closing" => D!TypeOK
    BY DEF PartsInv, ClosingInv
  <2> QED
    BY <2>1, <2>2, <2>3, <2>4 DEF StoreTypes
<1> QED
  BY <1>1, PartsHold, PTL

\* A label that the list of the store shows as up to date has drawn its assignment, for
\* any number of requests that write the row from a reading of their own.
THEOREM ConfirmedIsDrawn == SpecParts => []ConfirmedMeansDrawn
<1>1. PartsInv => ConfirmedMeansDrawn
  BY PendingTells DEF PartsInv, ConfirmedMeansDrawn, LabelInv
<1> QED
  BY <1>1, PartsHold, PTL

\* What the bridge takes for done is what the store answers, as long as no request writes
\* a row from an outdated reading and the staff of the store assign nothing themselves.
THEOREM KnownIsInstalled == SpecParts => []KnownMeansInstalledUnlessRaced
<1>1. PartsInv => KnownMeansInstalledUnlessRaced
  <2> SUFFICES ASSUME PartsInv, part = "label" PROVE E!KnownMeansInstalledUnlessRaced
    BY DEF KnownMeansInstalledUnlessRaced
  <2>1. LabelInv
    BY DEF PartsInv
  <2> QED
    BY <2>1, KnownTells
<1> QED
  BY <1>1, PartsHold, PTL

\* Heartbeats, polls and confirmations leave the assignment that they read, unless the
\* row was written in between.
THEOREM AssignmentsChangeOnPurpose == SpecParts => AssignmentChangedOnPurpose
<1>1. PartsInv /\ [NextParts]_allVars => [part = "label" => E!ChangedOnPurpose]_allVars
  <2> SUFFICES ASSUME PartsInv, [NextParts]_allVars, part = "label"
               PROVE  E!ChangedOnPurpose
    OBVIOUS
  <2>1. LabelInv /\ [E!Next]_(E!vars)
    BY PartStep DEF PartsInv
  <2> QED
    BY <2>1, ChangedStep DEF LabelInv
<1> QED
  BY <1>1, PartsHold, PTL DEF SpecParts, AssignmentChangedOnPurpose

\* A closing is never replaced by one that counts fewer sales, and a run that ends takes
\* in the late sales of every day of the window, unless two closings of the day met.
THEOREM ClosingsAreOrderly == SpecParts => ClosingsOrderly
<1>1. PartsInv /\ [NextParts]_allVars => [part = "closing" => D!OrderlyStep]_allVars
  <2> SUFFICES ASSUME PartsInv, [NextParts]_allVars, part = "closing"
               PROVE  D!OrderlyStep
    OBVIOUS
  <2>1. ClosingInv /\ [D!Next]_(D!vars)
    BY PartStep DEF PartsInv
  <2> QED
    BY <2>1, ClosingsStep
<1> QED
  BY <1>1, PartsHold, PTL DEF SpecParts, ClosingsOrderly

\* For any number of handlers, prices and events: as long as no handler writes from an
\* outdated reading, the log is a chain that ends at the price in force.
THEOREM PriceIsInTheLog == SpecParts => []PriceFollowsLog
<1>1. PartsInv => PriceFollowsLog
  BY V!ChainTells DEF PartsInv, PriceFollowsLog
<1> QED
  BY <1>1, PartsHold, PTL

\* A temporary price in force has an action that will take it back.
THEOREM TemporaryPricesEnd == SpecParts => []TemporaryPriceEnds
<1>1. PartsInv => TemporaryPriceEnds
  BY DEF PartsInv, TemporaryPriceEnds, V!IInv, V!Lasts, V!TemporaryPriceEnds
<1> QED
  BY <1>1, PartsHold, PTL

\* expireDueActions and rollbackPriceChange: a temporary price that has ended does not
\* end again in another way.
THEOREM TemporaryPricesEndOnce == SpecParts => EndsOnce
<1>1. PartsInv /\ [NextParts]_allVars => [part = "price" => V!StaysEnded]_allVars
  <2> SUFFICES ASSUME PartsInv, [NextParts]_allVars, part = "price"
               PROVE  V!StaysEnded
    OBVIOUS
  <2>1. V!IInv /\ [V!Next]_(V!vars)
    BY PartStep DEF PartsInv
  <2> QED
    BY <2>1, V!EndedStep
<1> QED
  BY <1>1, PartsHold, PTL DEF SpecParts, EndsOnce
=============================================================================
