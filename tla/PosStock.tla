------------------------------ MODULE PosStock ------------------------------
(***************************************************************************)
(* Sales, returns and shelf transfers at the tills of one store. They all  *)
(* check first, then read a stock row, write it back, record a movement,   *)
(* line by line, and store their own document last, its item rows one by   *)
(* one. No transaction joins these steps, so the desks of a store          *)
(* interleave between any two.                                             *)
(* Source: backend/src/services/posService.js (completeSale, processReturn)*)
(*         backend/src/services/stockService.js (transferStock),           *)
(*         backend/src/repositories/postgresRepository.js (sales).         *)
(***************************************************************************)
EXTENDS Integers, FiniteSets, Functions

CONSTANTS Products, Calls,
          None,        \* no product in hand
          MaxQty,      \* bound: largest quantity of a line
          MaxShelf,    \* bound: initial quantity on a shelf
          MaxDepot,    \* bound: initial quantity in the depot
          UsageLimit,  \* uses of the gift card
          Operations,  \* bound: the kinds of request that arrive
          MaxCalls,    \* bound: requests in a behaviour
          MaxStops     \* bound: requests that an error or a restart ends

ASSUME PosStockAssumption ==
  /\ IsFiniteSet(Products) /\ IsFiniteSet(Calls) /\ None \notin Products
  /\ MaxQty \in Nat \ {0} /\ MaxShelf \in Nat /\ MaxDepot \in Nat
  /\ UsageLimit \in Nat \ {0} /\ MaxCalls \in Nat /\ MaxStops \in Nat

-----------------------------------------------------------------------------
\* Reference numbers; 0 is a missing reference. See Numbers.
Refs == 1..MaxCalls

\* The lines of a document. The till merges the lines of a product.
Lines == [Products -> 0..MaxQty]
NoLines == [p \in Products |-> 0]
Of(lines) == {p \in Products : lines[p] > 0}

StockRow == [depot : Nat, shelf : Nat]

\* A row of the sales table, a sale or a return; items are the lines that have
\* a sale_items row, which are those a reader gets; returnStatus is coverage.
Doc == [kind : {"none", "sale", "return"}, lines : Lines, items : SUBSET Products,
        card : BOOLEAN, of : 0..MaxCalls, coverage : {"none", "partial", "full"}]
NoDoc == [kind |-> "none", lines |-> NoLines, items |-> {}, card |-> FALSE, of |-> 0,
          coverage |-> "none"]

Pc == {"idle", "check", "card", "read", "write", "log", "store", "items", "readCard",
       "writeCard", "mark", "markWrite", "markDelete", "markItems"}
Kind == {"sale", "return", "toShelf", "toDepot", "settings"}

\* A request: its document, the lines still to do and the one in hand, and
\* the stock row, the use of the card and the coverage it has read.
Call == [pc : Pc, kind : Kind, ref : 0..MaxCalls, lines : Lines, todo : SUBSET Products,
         p : Products \cup {None}, card : BOOLEAN, of : 0..MaxCalls, seen : StockRow,
         used : Nat, coverage : {"none", "partial", "full"}]
Idle == [pc |-> "idle", kind |-> "sale", ref |-> 0, lines |-> NoLines, todo |-> {},
         p |-> None, card |-> FALSE, of |-> 0,
         seen |-> [depot |-> 0, shelf |-> 0], used |-> 0, coverage |-> "none"]

VARIABLES
  stock,    \* the stocks rows
  doc,      \* the sales rows: sales and returns
  booked,   \* reference -> products with a stock movement under it
  used,     \* usedCount of the gift card in the settings document
  call,     \* the requests
  served, stops,         \* bounds
  start, net, strayed, raced, partial, back, lost  \* history variables, see below

\* start    what the stock was in the beginning, depot and shelf together
\* net      the sum of the stock movements of a product
\* strayed  products whose stock was written over or over-drawn, see Strays
\* raced    sales of which two returns were in progress at the same time
\* partial  sales whose item rows were incomplete when a return read them
\* back     sale -> what its returns have put back into the stock rows
\* lost     sale -> the part of it that returns which ended too early left without
\*          an item row, so that no later return knows of it
bounds == <<served, stops>>
ghosts == <<start, net, strayed, raced, partial, back, lost>>
vars == <<stock, doc, booked, used, call, bounds, ghosts>>

Init ==
  /\ stock \in [Products -> [depot : 0..MaxDepot, shelf : 0..MaxShelf]]
  /\ doc = [r \in Refs |-> NoDoc]
  /\ booked = [r \in Refs |-> {}]
  /\ used = 0
  /\ call = [c \in Calls |-> Idle]
  /\ served = 0 /\ stops = 0
  /\ start = [p \in Products |-> stock[p].depot + stock[p].shelf]
  /\ net = [p \in Products |-> 0]
  /\ strayed = {} /\ raced = {} /\ partial = {}
  /\ back = [r \in Refs |-> NoLines] /\ lost = [r \in Refs |-> NoLines]

Sum(lines) == SumFunction(lines)
Read(r) == [p \in Products |-> IF p \in doc[r].items THEN doc[r].lines[p] ELSE 0]
Returns(s) == {r \in Refs : doc[r].kind = "return" /\ doc[r].of = s}
Returned(s) == [p \in Products |-> SumFunction([r \in Returns(s) |-> Read(r)[p]])]

-----------------------------------------------------------------------------
At(c, pc) == call[c].pc = pc
Goto(c, pc) == call' = [call EXCEPT ![c].pc = pc]
Done(c) == call' = [call EXCEPT ![c] = Idle]

\* SAT-date-nnn, IAD-date-nnn: three random digits, so a number may be that of
\* another sale (or return) of the day.
Numbers(kind) ==
  {served + 1} \cup {r \in Refs : \/ doc[r].kind = kind
                                \/ \E d \in Calls : kind \in {"sale", "return"} /\
                                     ~At(d, "idle") /\ call[d].kind = kind /\ call[d].ref = r}

\* A request arrives; todo are the lines that its first stage handles.
Accept(c, k) ==
  /\ served < MaxCalls
  /\ served' = served + 1
  /\ \E ref \in Numbers(k.kind) :
       call' = [call EXCEPT ![c] = [k EXCEPT !.ref = ref, !.todo = Of(k.lines)]]
  /\ UNCHANGED stops

\* completeSale. Desk, payment and price look-ups change nothing.
SaleRequest(c, lines, card) ==
  /\ At(c, "idle") /\ Of(lines) # {} /\ (IF card THEN "cardSale" ELSE "sale") \in Operations
  /\ Accept(c, [Idle EXCEPT !.pc = "check", !.lines = lines, !.card = card])
  /\ UNCHANGED <<stock, doc, booked, used, ghosts>>

OnShelf(c, p) == call[c].lines[p] <= stock[p].shelf

\* Line by line, is there enough on the shelf?
CheckLine(c, p) ==
  LET rest == call[c].todo \ {p} IN
  /\ At(c, "check") /\ p \in call[c].todo
  /\ \/ ~OnShelf(c, p) /\ Done(c)
     \/ /\ OnShelf(c, p) /\ rest # {}
        /\ call' = [call EXCEPT ![c].todo = rest]
     \/ /\ OnShelf(c, p) /\ rest = {}
        /\ call' = [call EXCEPT ![c].todo = Of(call[c].lines),
                                ![c].pc = IF call[c].card THEN "card" ELSE "read"]
  /\ UNCHANGED <<stock, doc, booked, used, bounds, ghosts>>

\* Has the gift card a use left?
CheckCard(c) ==
  /\ At(c, "card")
  /\ IF used < UsageLimit THEN Goto(c, "read") ELSE Done(c)
  /\ UNCHANGED <<stock, doc, booked, used, bounds, ghosts>>

-----------------------------------------------------------------------------
FullOnSomeLine(s, returned) == \E p \in Products : returned[p] >= Read(s)[p]
\* The returned lines add up to the sale, as far as its item rows show it.
Full(s, returned) == Sum(Read(s)) > 0 /\ Sum(returned) >= Sum(Read(s))
\* What was returned of the products that are read from the sale adds up to it.
Exhausted(s) ==
  Full(s, [p \in Products |-> IF p \in doc[s].items THEN Returned(s)[p] ELSE 0])

WithinSaleWhileLeft(s, lines) == \A p \in Of(lines) : Returned(s)[p] < Read(s)[p]
\* The lines do not exceed what the returns stored so far leave of the sale.
WithinSale(s, lines) ==
  \A p \in Of(lines) : lines[p] + Returned(s)[p] <= Read(s)[p]

\* processReturn: with a receipt (of # 0) it reads the sales and refuses what
\* exceeds the sale; the coverage follows from the same reading.
ReturnRequest(c, lines, of) ==
  LET after == [p \in Products |-> Returned(of)[p] + lines[p]] IN
  /\ At(c, "idle") /\ Of(lines) # {} /\ "return" \in Operations
  /\ of # 0 => doc[of].kind = "sale" /\ ~Exhausted(of) /\ WithinSale(of, lines)
  /\ Accept(c, [Idle EXCEPT !.pc = "read", !.kind = "return", !.lines = lines, !.of = of,
                            !.coverage = IF of = 0 THEN "none"
                                         ELSE IF Full(of, after) THEN "full" ELSE "partial"])
  /\ raced' = raced \cup {s \in {of} \cap Refs :
                 \E d \in Calls : ~At(d, "idle") /\ call[d].kind = "return" /\ call[d].of = s}
  /\ partial' = partial \cup {s \in {of} \cap Refs : doc[s].items # Of(doc[s].lines)}
  /\ UNCHANGED <<stock, doc, booked, used, start, net, strayed, back, lost>>

\* transferStock reads the row once and refuses more than there is.
TransferRequest(c, kind, p, q) ==
  LET from == IF kind = "toShelf" THEN stock[p].depot ELSE stock[p].shelf IN
  /\ At(c, "idle") /\ kind \in {"toShelf", "toDepot"} \cap Operations /\ q <= from
  /\ Accept(c, [Idle EXCEPT !.pc = "write", !.kind = kind, !.p = p, !.seen = stock[p],
                            !.lines = [NoLines EXCEPT ![p] = q]])
  /\ UNCHANGED <<stock, doc, booked, used, ghosts>>

-----------------------------------------------------------------------------
\* The stock of a line: read the row, ...
ReadStock(c, p) ==
  /\ At(c, "read") /\ p \in call[c].todo
  /\ call' = [call EXCEPT ![c].pc = "write", ![c].p = p, ![c].seen = stock[p]]
  /\ UNCHANGED <<stock, doc, booked, used, bounds, ghosts>>

\* Never below zero: normalizeQty of stockRepository.js.
Less(a, b) == IF a > b THEN a - b ELSE 0

AfterLineKeepsSource(kind, row, q) ==
  CASE kind = "sale"    -> [row EXCEPT !.shelf = Less(@, q)]
    [] kind = "return"  -> [row EXCEPT !.shelf = @ + q]
    [] kind = "toShelf" -> [row EXCEPT !.shelf = @ + q]
    [] kind = "toDepot" -> [row EXCEPT !.shelf = Less(@, q), !.depot = @ + q]
\* The row that is written.
AfterLine(kind, row, q) ==
  CASE kind = "sale"    -> [row EXCEPT !.shelf = Less(@, q)]
    [] kind = "return"  -> [row EXCEPT !.shelf = @ + q]
    [] kind = "toShelf" -> [depot |-> Less(row.depot, q), shelf |-> row.shelf + q]
    [] kind = "toDepot" -> [depot |-> row.depot + q, shelf |-> Less(row.shelf, q)]

\* The row changed after it was read, or holds less than is sold.
Strays(c) ==
  LET k == call[c] IN
  stock[k.p] # k.seen \/ (k.kind = "sale" /\ k.lines[k.p] > k.seen.shelf)

\* ... write all of it back, ...
WriteStock(c) ==
  LET k == call[c] IN
  /\ At(c, "write")
  /\ stock' = [stock EXCEPT ![k.p] = AfterLine(k.kind, k.seen, k.lines[k.p])]
  /\ strayed' = strayed \cup {p \in {k.p} : Strays(c)}
  /\ back' = [s \in Refs |-> IF s = k.of THEN [back[s] EXCEPT ![k.p] = @ + k.lines[k.p]]
                                          ELSE back[s]]
  /\ Goto(c, "log")
  /\ UNCHANGED <<doc, booked, used, bounds, start, net, raced, partial, lost>>

\* What a line adds to depot and shelf together.
Delta(k) ==
  CASE k.kind = "sale" -> 0 - k.lines[k.p] [] k.kind = "return" -> k.lines[k.p] [] OTHER -> 0

NoLinesLeft(k) == {}
LinesLeft(k) == k.todo \ {k.p}

AfterLastLogCard(k) ==
  IF k.card THEN "readCard" ELSE IF k.kind \in {"sale", "return"} THEN "store" ELSE "idle"
AfterLastLog(k) == IF k.kind \in {"sale", "return"} THEN "store" ELSE "idle"

\* ... record the movement, and take up the next line.
LogStock(c) ==
  LET k == call[c]
      rest == LinesLeft(k) IN
  /\ At(c, "log")
  /\ booked' = [booked EXCEPT ![k.ref] = @ \cup {k.p}]
  /\ net' = [net EXCEPT ![k.p] = @ + Delta(k)]
  /\ \/ rest # {} /\ call' = [call EXCEPT ![c].pc = "read", ![c].todo = rest]
     \/ rest = {} /\ AfterLastLog(k) # "idle" /\ Goto(c, AfterLastLog(k))
     \/ rest = {} /\ AfterLastLog(k) = "idle" /\ Done(c)
  /\ UNCHANGED <<stock, doc, used, bounds, start, strayed, raced, partial, back, lost>>

-----------------------------------------------------------------------------
\* What a return has put back of a product and not yet stored an item row for.
Unrecorded(k, p) ==
  CASE k.pc \in {"read", "write"} -> IF p \in k.todo THEN 0 ELSE k.lines[p]
    [] k.pc = "log"               -> IF p \in k.todo \ {k.p} THEN 0 ELSE k.lines[p]
    [] k.pc = "store"             -> k.lines[p]
    [] k.pc = "items"             -> IF p \in k.todo THEN k.lines[p] ELSE 0
    [] OTHER                      -> 0
\* A request ends before its time.
Broken(c) ==
  /\ lost' = [s \in Refs |-> IF s = call[c].of
                              THEN [p \in Products |-> lost[s][p] + Unrecorded(call[c], p)]
                              ELSE lost[s]]
  /\ Done(c)

\* The sale or the return is stored after all of its lines; the unique index
\* refuses a reference number that is taken.
StoreDoc(c) ==
  LET k == call[c]
      free == doc[k.ref].kind = "none" IN
  /\ At(c, "store")
  /\ \/ ~free /\ Broken(c) /\ UNCHANGED doc
     \/ /\ free
        /\ doc' = [doc EXCEPT ![k.ref] = [kind |-> k.kind, lines |-> k.lines, items |-> {},
                                          card |-> k.card, of |-> k.of, coverage |-> "none"]]
        /\ call' = [call EXCEPT ![c].pc = "items", ![c].todo = Of(k.lines)]
        /\ UNCHANGED lost
  /\ UNCHANGED <<stock, booked, used, bounds, start, net, strayed, raced, partial, back>>

\* syncNestedRows: the item rows, one by one.
StoreItem(c, p) ==
  LET k == call[c]
      rest == k.todo \ {p} IN
  /\ At(c, "items") /\ p \in k.todo
  /\ doc' = [doc EXCEPT ![k.ref].items = @ \cup {p}]
  /\ \/ rest # {} /\ call' = [call EXCEPT ![c].todo = rest]
     \/ rest = {} /\ k.card /\ Goto(c, "readCard")
     \/ rest = {} /\ k.of # 0 /\ Goto(c, "mark")
     \/ rest = {} /\ ~k.card /\ k.of = 0 /\ Done(c)
  /\ UNCHANGED <<stock, booked, used, bounds, ghosts>>

\* The original sale is marked: read it with its items, ...
MarkRead(c) ==
  /\ At(c, "mark")
  /\ call' = [call EXCEPT ![c].pc = "markWrite", ![c].todo = doc[call[c].of].items]
  /\ UNCHANGED <<stock, doc, booked, used, bounds, ghosts>>

\* ... write the coverage computed when the return arrived, ...
MarkWrite(c) ==
  /\ At(c, "markWrite")
  /\ doc' = [doc EXCEPT ![call[c].of].coverage = call[c].coverage]
  /\ Goto(c, "markDelete")
  /\ UNCHANGED <<stock, booked, used, bounds, ghosts>>

\* ... delete the item rows ...
MarkDelete(c) ==
  /\ At(c, "markDelete")
  /\ doc' = [doc EXCEPT ![call[c].of].items = {}]
  /\ \/ call[c].todo # {} /\ Goto(c, "markItems")
     \/ call[c].todo = {} /\ Done(c)
  /\ UNCHANGED <<stock, booked, used, bounds, ghosts>>

\* ... and insert those read before, unless a row with its key is there.
MarkItem(c, p) ==
  LET k == call[c]
      there == p \in doc[k.of].items IN
  /\ At(c, "markItems") /\ p \in k.todo
  /\ doc' = [doc EXCEPT ![k.of].items = @ \cup {p}]
  /\ \/ (there \/ k.todo = {p}) /\ Done(c)
     \/ ~there /\ k.todo # {p} /\ call' = [call EXCEPT ![c].todo = @ \ {p}]
  /\ UNCHANGED <<stock, booked, used, bounds, ghosts>>

\* The use of the card: read the settings document, ...
ReadCard(c) ==
  /\ At(c, "readCard")
  /\ call' = [call EXCEPT ![c].pc = "writeCard", ![c].used = used]
  /\ UNCHANGED <<stock, doc, booked, used, bounds, ghosts>>

Counted(k) ==
  CASE k.kind = "settings" -> k.used
    [] k.kind # "settings" -> IF k.used + 1 > UsageLimit THEN UsageLimit ELSE k.used + 1

\* ... write it back whole.
WriteCard(c) ==
  /\ At(c, "writeCard")
  /\ used' = Counted(call[c])
  /\ Done(c)
  /\ UNCHANGED <<stock, doc, booked, bounds, ghosts>>

\* Every other change of the settings (logs, desks, labels, campaigns) reads
\* and writes the same document.
SettingsRequest(c) ==
  /\ At(c, "idle") /\ "settings" \in Operations
  /\ Accept(c, [Idle EXCEPT !.pc = "writeCard", !.kind = "settings", !.used = used])
  /\ UNCHANGED <<stock, doc, booked, used, ghosts>>

\* An error or a restart ends a request between two steps.
Stop(c) ==
  /\ ~At(c, "idle") /\ stops < MaxStops
  /\ stops' = stops + 1
  /\ strayed' = strayed \cup {p \in Products : At(c, "log") /\ call[c].p = p}
  /\ Broken(c)
  /\ UNCHANGED <<stock, doc, booked, used, served, start, net, raced, partial, back>>

-----------------------------------------------------------------------------
Next ==
  \E c \in Calls :
    \/ \E lines \in Lines, card \in BOOLEAN : SaleRequest(c, lines, card)
    \/ \E lines \in Lines, of \in 0..MaxCalls : ReturnRequest(c, lines, of)
    \/ \E kind \in Kind, p \in Products, q \in 1..MaxQty : TransferRequest(c, kind, p, q)
    \/ SettingsRequest(c)
    \/ \E p \in Products :
         CheckLine(c, p) \/ ReadStock(c, p) \/ StoreItem(c, p) \/ MarkItem(c, p)
    \/ CheckCard(c) \/ WriteStock(c) \/ LogStock(c) \/ StoreDoc(c)
    \/ MarkRead(c) \/ MarkWrite(c) \/ MarkDelete(c)
    \/ ReadCard(c) \/ WriteCard(c) \/ Stop(c)

Spec == Init /\ [][Next]_vars

-----------------------------------------------------------------------------
\* The types of the stock, the documents, the movements and the requests.
TypeOK ==
  /\ stock \in [Products -> StockRow]
  /\ doc \in [Refs -> Doc]
  /\ booked \in [Refs -> SUBSET Products]
  /\ used \in 0..UsageLimit
  /\ call \in [Calls -> Call]
  /\ served \in 0..MaxCalls /\ stops \in Nat
  /\ start \in [Products -> Nat] /\ net \in [Products -> Int]
  /\ strayed \subseteq Products /\ raced \subseteq Refs /\ partial \subseteq Refs
  /\ back \in [Refs -> [Products -> Nat]] /\ lost \in [Refs -> [Products -> Nat]]

\* A stored sale or return has a stock movement for each of its lines, also
\* when requests stop half-way or draw the same number: it is stored last.
DocumentsBooked ==
  \A r \in Refs : doc[r].kind # "none" => Of(doc[r].lines) \subseteq booked[r]

\* A sale marked fully returned is: the returns stored for it add up to the
\* sale, unless two returns of it ran at once or read a part of its items.
FullMeansReturned ==
  \A s \in Refs \ (raced \cup partial) : doc[s].coverage = "full" => Sum(Returned(s)) >= Sum(doc[s].lines)

\* Stock and movements tell the same story: depot and shelf differ from the
\* movements of the product only by lines being booked at this moment, unless
\* two requests worked on the row at once, a sale took more than the shelf
\* held, or a request stopped between the row and its movement.
InHand(p) == {c \in Calls : At(c, "log") /\ call[c].p = p}
BooksBalance ==
  \A p \in Products \ strayed :
    stock[p].depot + stock[p].shelf =
      start[p] + net[p] + SumFunction([c \in InHand(p) |-> Delta(call[c])])

\* The goods that the returns of a sale put back into stock exceed the sale by no
\* more than what returns which stopped, or whose number was taken, had put back
\* without an item row (those can be made again), unless two of its returns ran at
\* the same time; reading a sale whose item rows are being replaced only refuses more.
ReturnsWithinSaleUnlessRaced ==
  \A s \in Refs \ raced : doc[s].kind = "sale" =>
    \A p \in Products : back[s][p] <= doc[s].lines[p] + lost[s][p]

\* A use of the gift card is never counted without a stored sale.
UsesAreSales == used <= Cardinality({r \in Refs : doc[r].kind = "sale" /\ doc[r].card})

\* "Kasa satis ve iade islemlerinin gerceklestirildigi, anlik stok dusumu": what
\* left the stock is on a sale, what came back on a return.
Total(kind, p) ==
  SumFunction([r \in {d \in Refs : doc[d].kind = kind} |-> doc[r].lines[p]])
StockFollowsDocuments ==
  (\A c \in Calls : At(c, "idle")) =>
    \A p \in Products :
      stock[p].depot + stock[p].shelf = start[p] - Total("sale", p) + Total("return", p)
=============================================================================
