--------------------------- MODULE StockMovements ---------------------------
(***************************************************************************)
(* Goods in and out, adjustments, shelf transfers, cancellation, write-off *)
(* and batch edits of one product: a stock row with a quantity per         *)
(* location, rows of batches, and the log of movements.  A handler reads,  *)
(* writes the row, deletes and re-creates the batches one by one, and      *)
(* logs; it may stop between any two of these.                             *)
(* Source: backend/src/services/stockService.js,                           *)
(*         repositories/stockRepository.js and postgresRepository.js.      *)
(***************************************************************************)
EXTENDS Integers, Sequences, FiniteSets, Functions

CONSTANTS Calls,
          Batches,    \* numbers of batches, in the order of their expiry
          Expired,    \* those whose expiry date has passed
          None,       \* no batch, or no record of the batches
          MaxOpening, \* bound: the quantity the product is created with
          MaxQty,     \* bound: the quantity of a movement
          MaxWrites,  \* bound: requests, sales and disposals
          MaxStops    \* bound: handlers that stop half-way

-----------------------------------------------------------------------------
Loc == {"depo", "reyon"}
Row == [Loc -> Nat]
Empty == [l \in Loc |-> 0]
\* The rows of batches by their id, None where there is no row.
Books == [Batches -> Row \cup {None}]
NoBooks == [x \in Batches |-> None]

\* A movement: its effect per location, createdAt, previousBatches if it keeps them,
\* whether these made up the whole row, the movement it cancels. History: what was
\* missed when it was written.
Entry == [eff : [Loc -> Int], at : Nat, prev : Books \cup {None}, covered : BOOLEAN,
          cancelled : BOOLEAN, of : Nat, missed : [Loc -> Int]]
NoEntry == [eff |-> Empty, at |-> 0, prev |-> None, covered |-> FALSE, cancelled |-> FALSE,
            of |-> 0, missed |-> Empty]

\* A handler: the row and the batches it writes (its own only if tracked, else those it
\* fetched), those it has yet to create, what it logs, and whether another wrote since
\* it read or wrote.
Call == [pc : {"idle", "till", "fetch", "write", "delete", "create", "log", "mark"},
         edit : BOOLEAN, tracked : BOOLEAN, old : BOOLEAN, next : Row, nextB : Books,
         todo : SUBSET Batches, entry : Entry]
Idle == [pc |-> "idle", edit |-> FALSE, tracked |-> FALSE, old |-> FALSE, next |-> Empty,
         nextB |-> NoBooks, todo |-> {}, entry |-> NoEntry]

VARIABLES
  stock,    \* the quantities of the stock row
  batch,    \* its rows in stock_batches
  log,      \* stock_movements, in the order they were created
  call,     \* the handlers that are running
  clock,    \* the time of the last movement, counted
  served,   \* bound: requests so far
  stops,    \* bound: handlers that stopped so far
  opening,  \* history: the row the product was created with
  missed,   \* history: what handlers that stopped wrote to the row and never logged
  drift     \* history: what happened that loosens the books

\* raced      a row was written from an old reading, or changed before that was logged
\* loose      the row of a product with batches changed without them (the till, a stop)
\* kept       batches were to be emptied and stayed
\* uncovered  the row was set to the sum of batches that did not make it up
\* edited     a batch edit changed the row
\* backdated  a movement was restored past one written after it, but dated before
\* unmarked   a cancellation stopped before it marked the movement
vars == <<stock, batch, log, call, clock, served, stops, opening, missed, drift>>

Init ==
  /\ opening \in {[depo |-> q, reyon |-> 0] : q \in 0..MaxOpening}
  /\ stock = opening /\ batch = NoBooks /\ log = <<>>
  /\ call = [c \in Calls |-> Idle]
  /\ clock = 0 /\ served = 0 /\ stops = 0
  /\ missed = Empty /\ drift = {}

-----------------------------------------------------------------------------
At(c, pc) == call[c].pc = pc
Within(c, pcs) == call[c].pc \in pcs
Done(c) == call' = [call EXCEPT ![c] = Idle]
Rows(b) == {x \in Batches : b[x] # None}
Tracked == Rows(batch) # {}
Held(b, l) == [x \in Batches |-> IF b[x] = None THEN 0 ELSE b[x][l]]
Total(b) == [l \in Loc |-> SumFunction(Held(b, l))]
Covered == Total(batch) = stock
Add(row, l, q) == [row EXCEPT ![l] = @ + q]
Effect(l, q) == Add(Empty, l, q)
Least(a, b) == IF a < b THEN a ELSE b
Most(a, b) == IF a > b THEN a ELSE b

\* upsertBatchQuantity
Put(b, x, l, q) == [b EXCEPT ![x] = Add(IF @ = None THEN Empty ELSE @, l, q)]

\* consumeBatchQuantity: the preferred batch first, then those that expire first.
Sooner(x, y, preferred) == x # y /\ (x = preferred \/ (y # preferred /\ x < y))
TakenUnclamped(b, x, l, q, preferred) == q
Taken(b, x, l, q, preferred) ==
  Least(b[x][l],
        Most(0, q - SumFunction(Restrict(Held(b, l), {y \in Batches : Sooner(y, x, preferred)}))))
ConsumeNothing(b, l, q, preferred) == b
Consume(b, l, q, preferred) ==
  [x \in Batches |-> IF b[x] = None THEN None
                     ELSE Add(b[x], l, 0 - Taken(b, x, l, q, preferred))]
Suffices(b, l, q) == Total(b)[l] >= q

\* Another handler has written the row and not yet all batches.
Midway(c) == \E d \in Calls \ {c} : Within(d, {"delete", "create"})

Room == served < MaxWrites /\ served' = served + 1
Ready(c) == At(c, "idle") /\ Room
\* Every handler reads the row and its batches first.
Accept(c, tracked, next, nextB, entry) ==
  /\ call' = [call EXCEPT ![c] =
       [Idle EXCEPT !.pc = IF tracked THEN "write" ELSE "fetch", !.tracked = tracked,
                    !.old = Midway(c), !.next = next, !.nextB = nextB,
                    !.entry = [entry EXCEPT !.covered = Covered]]]
  /\ UNCHANGED <<stock, batch, log, stops, opening, missed>>

Movement(eff) == [NoEntry EXCEPT !.eff = eff, !.prev = batch]

\* A row that is named, or a new one: its id is no other's.
Unused(x) == \A d \in Calls : call[d].nextB[x] = None
Named(x, y) ==
  y \in Batches /\ IF x \in Rows(batch) THEN y = x ELSE y \notin Rows(batch) /\ Unused(y)

\* createMovement('IN'). A receipt (always with a batch, and of a number that no
\* movement names) does what other goods in with a batch may do.
GoodsIn(c, l, q, x) ==
  /\ Ready(c)
  /\ \/ /\ Tracked \/ x # None
        /\ \E y \in Batches :
             /\ Named(x, y)
             /\ Accept(c, TRUE, Add(stock, l, q), Put(batch, y, l, q), Movement(Effect(l, q)))
     \/ /\ ~Tracked /\ x = None
        /\ Accept(c, FALSE, Add(stock, l, q), batch, Movement(Effect(l, q)))
  /\ UNCHANGED <<clock, drift>>

\* createMovement('OUT'): the row must hold the quantity, and so must the batches.
GoodsOut(c, l, q, x) ==
  /\ Ready(c) /\ stock[l] >= q
  /\ Tracked => Suffices(batch, l, q)
  /\ Accept(c, Tracked, Add(stock, l, 0 - q), Consume(batch, l, q, x),
            Movement(Effect(l, 0 - q)))
  /\ UNCHANGED <<clock, drift>>

\* createMovement('ADJUSTMENT'): the location is set to a quantity.
Adjust(c, l, target, x) ==
  LET delta == target - stock[l]
      write(tracked, nextB) == Accept(c, tracked, Add(stock, l, delta), nextB,
                                      Movement(Effect(l, delta)))
  IN
  /\ Ready(c) /\ delta # 0
  /\ \/ ~Tracked /\ (x = None \/ delta < 0) /\ write(x # None, batch)
     \/ /\ delta > 0 /\ (Tracked \/ x # None)
        /\ \E y \in Batches : Named(x, y) /\ write(TRUE, Put(batch, y, l, delta))
     \/ /\ delta < 0 /\ Tracked /\ Suffices(batch, l, 0 - delta)
        /\ write(TRUE, Consume(batch, l, 0 - delta, x))
  /\ UNCHANGED <<clock, drift>>

\* transferStock: what is taken from the batches at one place is put to the other.
TransferStock(c, from, to, q, x) ==
  LET moved == [y \in Batches |-> IF batch[y] = None THEN None ELSE
                  Add(Consume(batch, from, q, x)[y], to, Taken(batch, y, from, q, x))]
  IN
  /\ Ready(c) /\ from # to /\ stock[from] >= q
  /\ Tracked => Suffices(batch, from, q)
  /\ Accept(c, Tracked, Add(Add(stock, from, 0 - q), to, q), moved,
            Movement(Add(Effect(to, q), from, 0 - q)))
  /\ UNCHANGED <<clock, drift>>

\* upsertBatch: a batch is set by hand, the row becomes the sum; nothing is logged.
UpsertBatch(c, x, row) ==
  LET b == [batch EXCEPT ![x] = row] IN
  /\ Ready(c) /\ Named(x, x)
  /\ call' = [call EXCEPT ![c] = [Idle EXCEPT !.pc = "write", !.edit = TRUE, !.tracked = TRUE,
                                              !.old = Midway(c), !.next = Total(b), !.nextB = b]]
  /\ UNCHANGED <<stock, batch, log, clock, stops, opening, missed, drift>>

\* A sale or return of the till (module PosStock): it is dated when it begins, and the
\* row is read when its line is reached.
Till(c, q) ==
  /\ Ready(c) /\ stock["reyon"] + q >= 0
  /\ clock' = clock + 1
  /\ call' = [call EXCEPT ![c] =
       [Idle EXCEPT !.pc = "till",
                    !.entry = [NoEntry EXCEPT !.eff = Effect("reyon", q), !.at = clock + 1]]]
  /\ UNCHANGED <<stock, batch, log, stops, opening, missed, drift>>

-----------------------------------------------------------------------------
Repeat(eff) == eff
Reverse(eff) == [l \in Loc |-> 0 - eff[l]]
Shift(row, eff) == [l \in Loc |-> row[l] + eff[l]]

IsAny(m) == TRUE
IsLatest(m) == \A i \in DOMAIN log : log[i].at > log[m].at => log[i].cancelled

\* cancelMovement: only the latest movement that is not cancelled, once, and no
\* cancellation. With previousBatches, the batches and their sum are restored;
\* without, the effect is taken back.
CancelMovement(c, m) ==
  LET k == log[m]
      entry == [NoEntry EXCEPT !.eff = Reverse(k.eff), !.at = clock + 1, !.of = m]
      busy == {d \in Calls \ {c} :
                 Within(d, {"delete", "create", "log", "mark"}) \/ call[d].entry.of = m}
  IN
  /\ Ready(c) /\ ~k.cancelled /\ k.of = 0 /\ IsLatest(m)
  /\ \/ k.prev # None /\ Accept(c, TRUE, Total(k.prev), k.prev, entry)
     \/ /\ k.prev = None /\ \A l \in Loc : Shift(stock, Reverse(k.eff))[l] >= 0
        /\ Accept(c, FALSE, Shift(stock, Reverse(k.eff)), batch, entry)
  /\ clock' = clock + 1
  /\ drift' = drift \cup {x \in {"raced"} : busy # {}}

-----------------------------------------------------------------------------
\* The till's line: a row that holds less by now is set to zero.
TillRow(c) ==
  LET q == call[c].entry.eff["reyon"] IN
  /\ At(c, "till")
  /\ call' = [call EXCEPT ![c] =
       [@ EXCEPT !.pc = "fetch", !.old = FALSE,
                 !.next = [stock EXCEPT !["reyon"] = Most(0, @ + q)]]]
  /\ drift' = drift \cup {x \in {"raced"} : stock["reyon"] + q < 0}
  /\ UNCHANGED <<stock, batch, log, clock, served, stops, opening, missed>>

\* upsert without batches of its own reads them again, and writes those.
Fetch(c) ==
  /\ At(c, "fetch")
  /\ call' = [call EXCEPT ![c].pc = "write", ![c].nextB = batch, ![c].old = @ \/ Midway(c)]
  /\ UNCHANGED <<stock, batch, log, clock, served, stops, opening, missed, drift>>

\* What the handlers under way have read or written is not what is stored.
Outdated == [d \in Calls |-> IF At(d, "idle") THEN Idle ELSE [call[d] EXCEPT !.old = TRUE]]

\* The batches are written: what is logged is dated now, unless it already was.
Dated(e) == [e EXCEPT !.at = IF @ = 0 THEN clock + 1 ELSE @]
Written(k) ==
  IF k.edit THEN Idle
  ELSE [Idle EXCEPT !.pc = "log", !.old = k.old, !.entry = Dated(k.entry)]
Ticks(k) == ~k.edit /\ k.entry.at = 0

\* stock.update writes the row; with no batches to write, that is all.
Restores(k) == k.entry.of # 0 /\ log[k.entry.of].prev # None
Backdated(m) ==
  \E i \in DOMAIN log : i > m /\ ~log[i].cancelled /\ log[i].at <= log[m].at
WriteRow(c) ==
  LET k == call[c]
      w == [Idle EXCEPT !.pc = "delete", !.edit = k.edit, !.nextB = k.nextB,
                        !.entry = [k.entry EXCEPT !.missed = missed']]
      bare == Rows(k.nextB) = {}
  IN
  /\ At(c, "write")
  /\ stock' = k.next
  /\ missed' = IF Restores(k) THEN log[k.entry.of].missed ELSE missed
  /\ call' = [Outdated EXCEPT ![c] = IF bare THEN Written(w) ELSE w]
  /\ clock' = IF bare /\ Ticks(k) THEN clock + 1 ELSE clock
  /\ drift' = drift \cup {x \in {"raced"} : k.old}
                    \cup {x \in {"loose"} : ~k.tracked /\ (Tracked \/ ~bare)}
                    \cup {x \in {"kept"} : k.tracked /\ bare /\ Tracked}
                    \cup {x \in {"uncovered"} : Restores(k) /\ ~log[k.entry.of].covered}
                    \cup {x \in {"backdated"} : Restores(k) /\ Backdated(k.entry.of)}
                    \cup {x \in {"edited"} : k.edit /\ k.next # stock}
  /\ UNCHANGED <<batch, log, served, stops, opening>>

\* syncStockBatches: all batches are deleted, and those given created one by one.
DeleteBatches(c) ==
  /\ At(c, "delete")
  /\ batch' = NoBooks
  /\ call' = [call EXCEPT ![c].pc = "create", ![c].todo = Rows(call[c].nextB)]
  /\ UNCHANGED <<stock, log, clock, served, stops, opening, missed, drift>>
CreateBatch(c) ==
  LET k == call[c] IN
  /\ At(c, "create")
  /\ \E x \in k.todo :
       /\ batch[x] = None
       /\ batch' = [batch EXCEPT ![x] = k.nextB[x]]
       /\ call' = [call EXCEPT ![c] = IF k.todo = {x} THEN Written(k)
                                      ELSE [k EXCEPT !.todo = @ \ {x}]]
       /\ clock' = IF k.todo = {x} /\ Ticks(k) THEN clock + 1 ELSE clock
  /\ UNCHANGED <<stock, log, served, stops, opening, missed, drift>>

LogMovement(c) ==
  LET k == call[c] IN
  /\ At(c, "log")
  /\ log' = Append(log, k.entry)
  /\ \/ k.entry.of = 0 /\ Done(c)
     \/ k.entry.of # 0 /\ call' = [call EXCEPT ![c].pc = "mark"]
  /\ drift' = drift \cup {x \in {"raced"} : k.old}
  /\ UNCHANGED <<stock, batch, clock, served, stops, opening, missed>>

\* The cancelled movement is marked last.
MarkedNewest(l, m) == [l EXCEPT ![Len(l)].cancelled = TRUE]
Marked(l, m) == [l EXCEPT ![m].cancelled = TRUE]
MarkCancelled(c) ==
  /\ At(c, "mark")
  /\ log' = Marked(log, call[c].entry.of)
  /\ Done(c)
  /\ UNCHANGED <<stock, batch, clock, served, stops, opening, missed, drift>>

\* A handler stops half-way, by a crash or an error; always, at a batch of its own that
\* another has created meanwhile.
Collides(c) == At(c, "create") /\ \A x \in call[c].todo : batch[x] # None
Pending(c) == Within(c, {"delete", "create", "log"}) /\ ~call[c].edit
Stop(c) ==
  LET k == call[c] IN
  /\ ~At(c, "idle") /\ Done(c)
  /\ \/ stops < MaxStops /\ stops' = stops + 1
     \/ Collides(c) /\ UNCHANGED stops
  /\ missed' = IF Pending(c) THEN Shift(missed, k.entry.eff) ELSE missed
  /\ drift' = drift \cup {x \in {"raced"} : Pending(c) /\ k.old}
                    \cup {x \in {"loose"} : At(c, "delete")}
                    \cup {x \in {"unmarked"} : At(c, "mark")}
  /\ UNCHANGED <<stock, batch, log, clock, served, opening>>

-----------------------------------------------------------------------------
\* disposeExpiredBatches, one transaction per batch: it is emptied, the row becomes
\* the sum of the others, and a movement per location is logged.
WrittenOff(l, x, to, at) ==
  IF batch[x][l] = 0 THEN to ELSE
    Append(to, [NoEntry EXCEPT !.eff = Effect(l, 0 - batch[x][l]), !.at = at])
DisposeBatch(x) ==
  LET b == [batch EXCEPT ![x] = Empty] IN
  /\ Room /\ x \in Expired \cap Rows(batch) /\ batch[x] # Empty
  /\ batch' = b /\ stock' = Total(b)
  /\ log' = WrittenOff("reyon", x, WrittenOff("depo", x, log, clock + 1), clock + 2)
  /\ clock' = clock + 2
  /\ drift' = drift \cup {y \in {"uncovered"} : ~Covered}
                    \cup {y \in {"raced"} : \E d \in Calls : Within(d, {"delete", "create"})}
  /\ call' = Outdated
  /\ UNCHANGED <<stops, opening, missed>>

Handle(c) ==
  \/ TillRow(c) \/ Fetch(c) \/ WriteRow(c) \/ DeleteBatches(c) \/ CreateBatch(c)
  \/ LogMovement(c) \/ MarkCancelled(c) \/ Stop(c)

Next ==
  \/ \E c \in Calls :
       \/ \E l \in Loc, q \in 1..MaxQty, x \in Batches \cup {None} :
            \/ GoodsIn(c, l, q, x)
            \/ GoodsOut(c, l, q, x)
            \/ \E to \in Loc : TransferStock(c, l, to, q, x)
       \/ \E l \in Loc, q \in 0..MaxQty, x \in Batches \cup {None} : Adjust(c, l, q, x)
       \/ \E x \in Batches, row \in [Loc -> 0..MaxQty] : UpsertBatch(c, x, row)
       \/ \E q \in {-1, 1} : Till(c, q)
       \/ \E m \in DOMAIN log : CancelMovement(c, m)
       \/ Handle(c)
  \/ \E x \in Batches : DisposeBatch(x)

Spec == Init /\ [][Next]_vars

-----------------------------------------------------------------------------
\* The types of the row, the batches, the log and the handlers.
TypeOK ==
  /\ stock \in Row /\ batch \in Books /\ opening \in Row /\ missed \in [Loc -> Int]
  /\ log \in Seq(Entry) /\ call \in [Calls -> Call]
  /\ clock \in Nat /\ served \in Nat /\ stops \in Nat
  /\ drift \subseteq {"raced", "loose", "kept", "uncovered", "edited", "backdated", "unmarked"}

Free(flags) == drift \cap flags = {}

\* The batches never claim more than the row holds, but while a handler has written
\* the row and not yet deleted them: unless the till (or a cancellation of its
\* movements) wrote the row alone, a handler stopped right there, the batches of a
\* cancelled first receipt were kept, or a handler met another.
BatchesWithinRow ==
  Free({"raced", "loose", "kept"}) /\ (\A c \in Calls : ~At(c, "delete")) =>
    \A l \in Loc : Total(batch)[l] <= stock[l]

Unlogged == {c \in Calls : Pending(c)}
\* The row is what the movements say, and the handlers that have yet to log theirs, or
\* stopped before: opening quantity and all effects, as long as rows are only restored
\* from batches that made them up, and past no movement with an earlier date.
LogExplainsRow ==
  Free({"raced", "uncovered", "edited", "backdated"}) =>
    \A l \in Loc :
      stock[l] = opening[l] + SumFunction([i \in DOMAIN log |-> log[i].eff[l]])
                            + SumFunction([c \in Unlogged |-> call[c].entry.eff[l]])
                            + missed[l]

\* A movement is cancelled by one other at most, and marked if it is, but for a
\* cancellation that stopped in between.
CancelledOnceUnlessRaced ==
  Free({"raced"}) => \A i, j \in DOMAIN log :
    log[i].of # 0 =>
      /\ log[j].of = log[i].of => i = j
      /\ \/ log[log[i].of].cancelled \/ ~Free({"unmarked"})
         \/ \E c \in Calls : At(c, "mark") /\ call[c].entry.of = log[i].of

Restoring(c, m) == At(c, "write") /\ Within(c, {"delete", "log"})' /\ call[c].entry.of = m
\* What was written since the movement and never logged goes with it.
TakesBack(c, m) ==
  \A l \in Loc : stock'[l] = stock[l] - log[m].eff[l] - (missed[l] - missed'[l])
\* "stok geri alinacak": cancelling takes back what the movement did, and what handlers
\* that stopped had written since, if the batches made up the row at the time.
RestoringCovered ==
  \A c \in Calls, m \in DOMAIN log :
    Restoring(c, m) /\ log[m].covered /\ Free({"raced", "edited", "backdated"})' => TakesBack(c, m)
CancelRestoresCovered == [][RestoringCovered]_vars

\* ... and for every product, as the page says.
CancelRestores ==
  [][\A c \in Calls, m \in DOMAIN log :
       Restoring(c, m) /\ Free({"raced", "edited", "backdated"})' => TakesBack(c, m)]_vars
=============================================================================
