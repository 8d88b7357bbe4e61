------------------------ MODULE TemporaryPrices_proofs ------------------------
(***************************************************************************)
(* Proofs about TemporaryPrices, for any set of prices, any number of      *)
(* handlers and any bounds: the types, that the log tells the price, that  *)
(* a temporary price in force has an action that will end it, and that it  *)
(* ends once.                                                              *)
(***************************************************************************)
EXTENDS TemporaryPrices, TLAPS

-----------------------------------------------------------------------------
(* The log.                                                                *)

\* A log that differs from the present one in what happens to events afterwards.
Like(L) ==
  /\ L \in Seq(Event) /\ Len(L) = Len(log)
  /\ \A j \in 1..Len(log) : /\ L[j].kind = log[j].kind /\ L[j].prev = log[j].prev
                            /\ L[j].new = log[j].new /\ L[j].before = log[j].before

\* Appending to such a log.
LEMMA Grows ==
  ASSUME TypeOK, NEW L, Like(L), NEW e \in Event
  PROVE  /\ Append(L, e) \in Seq(Event)
         /\ Len(Append(L, e)) = Len(log) + 1
         /\ Append(L, e)[Len(log) + 1] = e
         /\ \A j \in 1..Len(log) : Append(L, e)[j] = L[j]
         /\ DOMAIN log = 1..Len(log) /\ Len(log) \in Nat
BY DEF TypeOK, Like

\* The log is like itself.
LEMMA LikeItself == TypeOK => Like(log)
BY DEF TypeOK, Like

\* Replacing an event by one that differs in its status, end or attempts.
LEMMA LikeOne ==
  ASSUME TypeOK, NEW i \in 1..Len(log), NEW e \in Event,
         e.kind = log[i].kind, e.prev = log[i].prev, e.new = log[i].new,
         e.before = log[i].before
  PROVE  /\ Like([log EXCEPT ![i] = e])
         /\ \A j \in 1..Len(log) : [log EXCEPT ![i] = e][j] = IF j = i THEN e ELSE log[j]
<1>1. log \in Seq(Event)  BY DEF TypeOK
<1>2. [log EXCEPT ![i] = e] \in Seq(Event) /\ Len([log EXCEPT ![i] = e]) = Len(log)
  BY <1>1
<1>3. \A j \in 1..Len(log) : [log EXCEPT ![i] = e][j] = IF j = i THEN e ELSE log[j]
  BY <1>1
<1>4. QED  BY <1>2, <1>3 DEF Like

\* Events: numbers point back, and only a temporary price has an action.
EventFits(e, j) == e.before < j /\ (e.status # "none" => e.kind = "temporary")
\* Handlers: the event in hand exists.
CallFits(k, L) ==
  /\ k.pc = "expire" => k.on \in 1..Len(L) /\ L[k.on].kind = "temporary"
  /\ k.pc = "rollback" => k.on \in 1..Len(L) /\ L[k.on].kind \in {"change", "temporary"}
  /\ k.pc = "log" => k.on <= Len(L)
Types ==
  /\ TypeOK
  /\ \A j \in 1..Len(log) : EventFits(log[j], j)
  /\ \A c \in Calls : CallFits(call[c], log)
  /\ from <= Len(log)

\* What every step does to the log: events are added at its end, if at all.
LogGrows ==
  /\ log' \in Seq(Event) /\ Len(log') \in Nat /\ Len(log') >= Len(log)
  /\ \A j \in 1..Len(log) : /\ log'[j].kind = log[j].kind /\ log'[j].prev = log[j].prev
                            /\ log'[j].new = log[j].new /\ log'[j].before = log[j].before

\* An idle handler has its types.
LEMMA IdleType == TypeOK => Idle \in Call /\ Idle.pc = "idle" /\ ~Idle.old
BY DEF TypeOK, Idle, Call

\* The other handlers keep what they work on.
LEMMA CallsKept ==
  ASSUME Types, LogGrows, NEW c \in Calls, NEW k \in Call, CallFits(k, log'),
         call' = [call EXCEPT ![c] = k] \/ Wrote(c, k)
  PROVE  /\ call' \in [Calls -> Call]
         /\ \A d \in Calls : CallFits(call'[d], log')
<1>1. call \in [Calls -> Call] /\ Len(log) \in Nat  BY DEF Types, TypeOK
<1>2. \A d \in Calls : CallFits(call[d], log')
  <2> TAKE d \in Calls
  <2>1. CallFits(call[d], log) /\ call[d].on \in Nat  BY <1>1 DEF Types, Call
  <2>2. QED  BY <1>1, <2>1 DEF CallFits, LogGrows
<1>3. CASE call' = [call EXCEPT ![c] = k]
  BY <1>1, <1>2, <1>3
<1>4. CASE Wrote(c, k)
  <2>1. call' = [d \in Calls |-> IF d = c THEN k
                                 ELSE IF call[d].pc = "idle" THEN call[d]
                                 ELSE [call[d] EXCEPT !.old = TRUE]]
    BY <1>4 DEF Wrote
  <2>2. \A d \in Calls : /\ [call[d] EXCEPT !.old = TRUE] \in Call
                         /\ CallFits([call[d] EXCEPT !.old = TRUE], log')
    BY <1>1, <1>2 DEF Call, CallFits
  <2>3. QED  BY <1>1, <1>2, <2>1, <2>2
<1>5. QED  BY <1>3, <1>4

\* Steps that leave the log alone.
LEMMA LogSame == ASSUME Types, UNCHANGED log PROVE LogGrows
BY DEF Types, TypeOK, LogGrows

\* Steps that add an event.
LEMMA LogAppended ==
  ASSUME Types, NEW L, Like(L), NEW e \in Event, log' = Append(L, e),
         e.status # "none" => e.kind = "temporary", e.before <= Len(log),
         \A j \in 1..Len(log) : EventFits(L[j], j)
  PROVE  /\ LogGrows /\ Len(log') = Len(log) + 1
         /\ \A j \in 1..Len(log') : EventFits(log'[j], j)
<1>1. TypeOK  BY DEF Types
<1>2. /\ log' \in Seq(Event) /\ Len(log') = Len(log) + 1 /\ log'[Len(log) + 1] = e
      /\ \A j \in 1..Len(log) : log'[j] = L[j]
      /\ Len(log) \in Nat
  BY <1>1, Grows
<1>3. LogGrows  BY <1>2 DEF LogGrows, Like
<1>4. EventFits(log'[Len(log) + 1], Len(log) + 1)
  BY <1>2 DEF EventFits, Event
<1>5. \A j \in 1..Len(log') : j \in 1..Len(log) \/ j = Len(log) + 1
  BY <1>2
<1>6. QED  BY <1>2, <1>3, <1>4, <1>5

\* A handler that begins.
LEMMA Beginning ==
  ASSUME Types, NEW c \in Calls, NEW new \in Prices, NEW on \in Nat,
         NEW pc \in {"change", "edit", "apply", "rollback"}, Begin(c, pc, new, on),
         pc = "rollback" => on \in 1..Len(log) /\ log[on].kind \in {"change", "temporary"},
         UNCHANGED <<price, log, running, fails, from, mixed, revived>>
  PROVE  Types' /\ LogGrows
<1> DEFINE k == [Idle EXCEPT !.pc = pc, !.seen = price, !.new = new, !.on = on]
<1>1. LogGrows  BY LogSame
<1>2. k \in Call /\ k.pc = pc /\ k.on = on
  BY IdleType DEF Types, TypeOK, Call
<1>3. CallFits(k, log')  BY <1>2 DEF CallFits
<1>4. call' = [call EXCEPT ![c] = k]  BY DEF Begin
<1> HIDE DEF k
<1>5. call' \in [Calls -> Call] /\ \A d \in Calls : CallFits(call'[d], log')
  BY <1>1, <1>2, <1>3, <1>4, CallsKept
<1>6. QED  BY <1>1, <1>5 DEF Types, TypeOK

\* A handler that only changes what it is.
LEMMA Ending ==
  ASSUME Types, NEW c \in Calls, call' = [call EXCEPT ![c] = Idle], UNCHANGED <<price, log, from>>,
         running' \in BOOLEAN, fails' \in Nat, mixed' \in BOOLEAN, revived' \in BOOLEAN
  PROVE  Types' /\ LogGrows
<1>1. LogGrows  BY LogSame
<1>2. Idle \in Call /\ Idle.pc = "idle"  BY IdleType DEF Types
<1>3. CallFits(Idle, log')  BY <1>2 DEF CallFits
<1>4. call' \in [Calls -> Call] /\ \A d \in Calls : CallFits(call'[d], log')
  BY <1>1, <1>2, <1>3, CallsKept
<1>5. QED  BY <1>1, <1>4 DEF Types, TypeOK

\* A handler that adds an event, to a log that is like the present one, and is done.
LEMMA Adding ==
  ASSUME Types, NEW c \in Calls, Wrote(c, Idle), NEW L, Like(L), NEW e \in Event,
         log' = Append(L, e), e.status # "none" => e.kind = "temporary",
         e.before <= Len(log), \A j \in 1..Len(log) : EventFits(L[j], j),
         price' \in Prices, from' \in Nat, from' <= Len(log) + 1,
         running' \in BOOLEAN, fails' \in Nat, revived' \in BOOLEAN
  PROVE  Types' /\ LogGrows
<1>1. /\ LogGrows /\ Len(log') = Len(log) + 1
      /\ \A j \in 1..Len(log') : EventFits(log'[j], j)
  BY LogAppended
<1>2. Idle \in Call /\ Idle.pc = "idle"  BY IdleType DEF Types
<1>3. CallFits(Idle, log')  BY <1>2 DEF CallFits
<1>4. call' \in [Calls -> Call] /\ \A d \in Calls : CallFits(call'[d], log')
  BY <1>1, <1>2, <1>3, CallsKept
<1>5. mixed' \in BOOLEAN
  BY DEF Wrote, Types, TypeOK, Call
<1>6. QED  BY <1>1, <1>4, <1>5 DEF Types, TypeOK, LogGrows

\* What a new event is.
LEMMA NewEvents ==
  ASSUME NEW kind \in {"change", "edit", "temporary", "revert", "rollback"},
         NEW p \in Prices, NEW n \in Prices, NEW b \in Nat
  PROVE  LET e == NewEvent(kind, p, n, b) IN
         /\ e \in Event /\ e.kind = kind /\ e.prev = p /\ e.new = n /\ e.before = b
         /\ e.status # "none" => e.kind = "temporary"
         /\ kind = "temporary" => e.status = "active"
BY DEF NewEvent, Event

\* A handler that adds a new event and is done.
LEMMA AddingEvent ==
  ASSUME Types, NEW c \in Calls, Wrote(c, Idle), NEW L, Like(L),
         \A j \in 1..Len(log) : EventFits(L[j], j),
         NEW kind \in {"change", "edit", "temporary", "revert", "rollback"},
         NEW p \in Prices, NEW n \in Prices, NEW b \in Nat, b <= Len(log),
         log' = Append(L, NewEvent(kind, p, n, b)),
         price' \in Prices, from' \in Nat, from' <= Len(log) + 1,
         running' \in BOOLEAN, fails' \in Nat, revived' \in BOOLEAN
  PROVE  Types' /\ LogGrows
<1>a. PICK e : e = NewEvent(kind, p, n, b)  OBVIOUS
<1>1. e \in Event /\ e.before = b /\ (e.status # "none" => e.kind = "temporary")
  BY <1>a, NewEvents
<1>2. log' = Append(L, e)  BY <1>a
<1>3. QED  BY <1>1, <1>2, Adding

\* A log in which one event has another status and all else that matters is the same.
Restated(L, i, status) ==
  /\ Like(L)
  /\ \A j \in 1..Len(log) : /\ EventFits(L[j], j)
                            /\ L[j].status = IF j = i THEN status ELSE log[j].status

\* An event whose action is closed, is marked by a rollback, or is over.
LEMMA Closed ==
  ASSUME Types, NEW i \in 1..Len(log), NEW status \in {"none", "active", "expired", "reverted"},
         status # "none" => log[i].kind = "temporary"
  PROVE  /\ Restated([log EXCEPT ![i].status = status], i, status)
         /\ Restated([log EXCEPT ![i].back = TRUE, ![i].status = status], i, status)
         /\ Restated([log EXCEPT ![i].over = TRUE], i, log[i].status)
<1>1. TypeOK /\ log[i] \in Event /\ log \in Seq(Event) /\ EventFits(log[i], i)
  BY DEF Types, TypeOK
<1>2. ASSUME NEW e \in Event, e.kind = log[i].kind, e.prev = log[i].prev, e.new = log[i].new,
             e.before = log[i].before, e.status \in {status, log[i].status}
      PROVE  Restated([log EXCEPT ![i] = e], i, e.status)
  <2>1. EventFits(e, i)  BY <1>1, <1>2 DEF EventFits
  <2>2. /\ Like([log EXCEPT ![i] = e])
        /\ \A j \in 1..Len(log) : [log EXCEPT ![i] = e][j] = IF j = i THEN e ELSE log[j]
    BY <1>1, <1>2, LikeOne
  <2>3. QED  BY <2>1, <2>2 DEF Types, Restated
<1> DEFINE a == [log[i] EXCEPT !.status = status]
           b == [log[i] EXCEPT !.back = TRUE, !.status = status]
           o == [log[i] EXCEPT !.over = TRUE]
<1>3. /\ a \in Event /\ a.kind = log[i].kind /\ a.prev = log[i].prev /\ a.new = log[i].new
      /\ a.before = log[i].before /\ a.status = status
  BY <1>1 DEF Event
<1>4. /\ b \in Event /\ b.kind = log[i].kind /\ b.prev = log[i].prev /\ b.new = log[i].new
      /\ b.before = log[i].before /\ b.status = status
  BY <1>1 DEF Event
<1>5. /\ o \in Event /\ o.kind = log[i].kind /\ o.prev = log[i].prev /\ o.new = log[i].new
      /\ o.before = log[i].before /\ o.status = log[i].status
  BY <1>1 DEF Event
<1>6. /\ [log EXCEPT ![i].status = status] = [log EXCEPT ![i] = a]
      /\ [log EXCEPT ![i].back = TRUE, ![i].status = status] = [log EXCEPT ![i] = b]
      /\ [log EXCEPT ![i].over = TRUE] = [log EXCEPT ![i] = o]
  BY <1>1 DEF Event
<1> HIDE DEF a, b, o
<1>7. Restated([log EXCEPT ![i] = a], i, status)  BY <1>2, <1>3
<1>8. Restated([log EXCEPT ![i] = b], i, status)  BY <1>2, <1>4
<1>9. Restated([log EXCEPT ![i] = o], i, log[i].status)  BY <1>2, <1>5
<1>10. QED  BY <1>6, <1>7, <1>8, <1>9

\* Steps that restate an event.
LEMMA LogRestated ==
  ASSUME Types, NEW i, NEW status, Restated(log', i, status)
  PROVE  /\ LogGrows /\ Len(log') = Len(log)
         /\ \A j \in 1..Len(log') : EventFits(log'[j], j)
BY DEF Types, TypeOK, Restated, Like, LogGrows

\* What the types say of one event and of one handler.
LEMMA EventParts ==
  ASSUME Types, NEW i \in 1..Len(log)
  PROVE  /\ log[i] \in Event /\ log[i].prev \in Prices /\ log[i].new \in Prices
         /\ log[i].before \in Nat /\ log[i].before < i
         /\ log[i].status \in {"none", "active", "expired", "reverted"}
         /\ log[i].status # "none" => log[i].kind = "temporary"
<1>1. log \in Seq(Event) /\ EventFits(log[i], i)  BY DEF Types, TypeOK
<1>2. log[i] \in Event  BY <1>1
<1>3. QED  BY <1>1, <1>2 DEF Event, EventFits

\* The same of a handler.
LEMMA CallParts ==
  ASSUME Types, NEW c \in Calls
  PROVE  /\ call[c] \in Call /\ call[c].seen \in Prices /\ call[c].new \in Prices
         /\ call[c].on \in Nat /\ call[c].old \in BOOLEAN /\ CallFits(call[c], log)
<1>1. call \in [Calls -> Call] /\ CallFits(call[c], log)  BY DEF Types, TypeOK
<1>2. call[c] \in Call  BY <1>1
<1>3. QED  BY <1>1, <1>2 DEF Call

\* An edit that goes on to log its event.
LEMMA GoesToLog ==
  ASSUME NEW k \in Call, NEW n \in Nat
  PROVE  LET l == [k EXCEPT !.pc = "log", !.on = n] IN
         l \in Call /\ l.pc = "log" /\ l.on = n /\ l.new = k.new /\ l.seen = k.seen
         /\ l.old = k.old
BY DEF Call

\* Every step keeps the types, and the log only grows.
LEMMA TypesStep == Types /\ [Next]_vars => Types' /\ LogGrows
<1> SUFFICES ASSUME Types, [Next]_vars PROVE Types' /\ LogGrows  OBVIOUS
<1>0. /\ TypeOK /\ price \in Prices /\ log \in Seq(Event) /\ call \in [Calls -> Call]
      /\ Len(log) \in Nat /\ from \in Nat /\ from <= Len(log) /\ DOMAIN log = 1..Len(log)
      /\ running \in BOOLEAN /\ fails \in Nat /\ mixed \in BOOLEAN /\ revived \in BOOLEAN
  BY DEF Types, TypeOK
<1>i. Idle \in Call /\ Idle.pc = "idle"  BY <1>0, IdleType
<1>l. Like(log) /\ \A j \in 1..Len(log) : EventFits(log[j], j)
  BY <1>0, LikeItself DEF Types
<1>1. ASSUME NEW c \in Calls, NEW p \in Prices, ReadChange(c, p) PROVE Types' /\ LogGrows
  BY <1>1, Beginning DEF ReadChange
<1>2. ASSUME NEW c \in Calls, NEW p \in Prices, ReadEdit(c, p) PROVE Types' /\ LogGrows
  BY <1>2, Beginning DEF ReadEdit
<1>3. ASSUME NEW c \in Calls, NEW p \in Prices, ReadApply(c, p) PROVE Types' /\ LogGrows
  BY <1>3, Beginning DEF ReadApply
<1>4. ASSUME NEW c \in Calls, NEW i \in DOMAIN log, ReadRollback(c, i)
      PROVE  Types' /\ LogGrows
  BY <1>0, <1>4, Beginning DEF ReadRollback
<1>5. ASSUME NEW c \in Calls, ReadExpire(c) PROVE Types' /\ LogGrows
  <2>1. PICK i \in 1..Len(log) :
          /\ Due(i)
          /\ call' = [call EXCEPT ![c] = [Idle EXCEPT !.pc = "expire", !.seen = price, !.on = i]]
    BY <1>0, <1>5 DEF ReadExpire
  <2> DEFINE k == [Idle EXCEPT !.pc = "expire", !.seen = price, !.on = i]
  <2>2. LogGrows  BY <1>5, LogSame DEF ReadExpire
  <2>3. k \in Call /\ k.pc = "expire" /\ k.on = i
    BY <1>0, <1>i, <2>1, i \in Nat DEF Call
  <2>4. log[i].kind = "temporary"  BY <1>l, <2>1 DEF Due, Active, EventFits
  <2>5. CallFits(k, log')  BY <1>5, <2>3, <2>4 DEF CallFits, ReadExpire
  <2> HIDE DEF k
  <2>6. call' \in [Calls -> Call] /\ \A d \in Calls : CallFits(call'[d], log')
    <3>1. call' = [call EXCEPT ![c] = k]  BY <2>1 DEF k
    <3>2. QED  BY <2>2, <2>3, <2>5, <3>1, CallsKept
  <2>7. QED  BY <1>0, <1>5, <2>2, <2>6 DEF ReadExpire, Types, TypeOK
<1>6. ASSUME NEW c \in Calls, WriteChange(c) PROVE Types' /\ LogGrows
  <2>1. call[c].seen \in Prices /\ call[c].new \in Prices  BY CallParts
  <2>2. /\ log' = Append(log, NewEvent("change", call[c].seen, call[c].new, from))
        /\ Wrote(c, Idle)
    BY <1>6 DEF WriteChange
  <2>3. price' \in Prices /\ from' \in Nat /\ from' <= Len(log) + 1
    BY <1>0, <1>6, <2>1 DEF WriteChange
  <2>4. running' \in BOOLEAN /\ fails' \in Nat /\ revived' \in BOOLEAN
    BY <1>0, <1>6 DEF WriteChange
  <2>5. from \in Nat /\ from <= Len(log)  BY <1>0
  <2>6. QED  BY <1>l, <2>1, <2>2, <2>3, <2>4, <2>5, AddingEvent
<1>7. ASSUME NEW c \in Calls, WriteEdit(c) PROVE Types' /\ LogGrows
  <2> DEFINE k == [call[c] EXCEPT !.pc = "log", !.on = from]
             n == IF call[c].new = call[c].seen THEN Idle ELSE k
  <2>1. LogGrows  BY <1>7, LogSame DEF WriteEdit
  <2>2. k \in Call /\ k.pc = "log" /\ k.on = from /\ call[c].new \in Prices
    <3>1. call[c] \in Call /\ call[c].new \in Prices  BY CallParts
    <3>2. from \in Nat  BY <1>0
    <3>3. QED  BY <3>1, <3>2, GoesToLog
  <2>3. n \in Call /\ CallFits(n, log')
    BY <1>0, <1>7, <1>i, <2>2 DEF CallFits, WriteEdit
  <2>4. Wrote(c, n)  BY <1>7 DEF WriteEdit
  <2> HIDE DEF n
  <2>5. call' \in [Calls -> Call] /\ \A d \in Calls : CallFits(call'[d], log')
    BY <2>1, <2>3, <2>4, CallsKept
  <2>6. mixed' \in BOOLEAN  BY <1>0, <2>4 DEF Wrote, Call
  <2>7. price' \in Prices /\ from' \in 0..Len(log)  BY <1>0, <1>7, <2>2 DEF WriteEdit
  <2>8. QED
    BY <1>0, <1>7, <2>1, <2>5, <2>6, <2>7 DEF WriteEdit, Types, TypeOK
<1>8. ASSUME NEW c \in Calls, LogEdit(c) PROVE Types' /\ LogGrows
  <2>1. call[c].seen \in Prices /\ call[c].new \in Prices /\ call[c].on \in Nat
    BY CallParts
  <2>2. call[c].on <= Len(log)  BY <1>8 DEF LogEdit, Types, CallFits
  <2>3. /\ log' = Append(log, NewEvent("edit", call[c].seen, call[c].new, call[c].on))
        /\ Wrote(c, Idle)
    BY <1>8 DEF LogEdit
  <2>4. price' \in Prices /\ from' \in Nat /\ from' <= Len(log) + 1
    BY <1>0, <1>8 DEF LogEdit
  <2>5. running' \in BOOLEAN /\ fails' \in Nat /\ revived' \in BOOLEAN
    BY <1>0, <1>8 DEF LogEdit
  <2>6. QED  BY <1>l, <2>1, <2>2, <2>3, <2>4, <2>5, AddingEvent
<1>9. ASSUME NEW c \in Calls, WriteApply(c) PROVE Types' /\ LogGrows
  <2>1. call[c].seen \in Prices /\ call[c].new \in Prices  BY CallParts
  <2>2. /\ log' = Append(log, NewEvent("temporary", call[c].seen, call[c].new, from))
        /\ Wrote(c, Idle)
    BY <1>9 DEF WriteApply
  <2>3. price' \in Prices /\ from' \in Nat /\ from' <= Len(log) + 1
    BY <1>0, <1>9, <2>1 DEF WriteApply
  <2>4. running' \in BOOLEAN /\ fails' \in Nat /\ revived' \in BOOLEAN
    BY <1>0, <1>9 DEF WriteApply
  <2>5. from \in Nat /\ from <= Len(log)  BY <1>0
  <2>6. QED  BY <1>l, <2>1, <2>2, <2>3, <2>4, <2>5, AddingEvent
<1>10. ASSUME NEW c \in Calls, RefuseApply(c) PROVE Types' /\ LogGrows
  BY <1>0, <1>10, Ending DEF RefuseApply
<1>11. ASSUME NEW c \in Calls, WriteExpire(c) PROVE Types' /\ LogGrows
  <2> DEFINE i == call[c].on
             L == [log EXCEPT ![i].status = "expired"]
  <2>1. i \in 1..Len(log) /\ log[i].kind = "temporary"
    BY <1>11 DEF WriteExpire, Types, CallFits
  <2>2. Restated(L, i, "expired")  BY <2>1, Closed
  <2>3. log[i].new \in Prices /\ log[i].prev \in Prices /\ log[i].before \in Nat
        /\ log[i].before < i
    BY <2>1, EventParts
  <2>5. /\ Wrote(c, Idle) /\ running' = FALSE /\ UNCHANGED <<fails, revived>>
        /\ \/ /\ price' = log[i].prev /\ from' = log[i].before
              /\ log' = Append(L, NewEvent("revert", log[i].new, log[i].prev, from))
           \/ log' = L /\ UNCHANGED <<price, from>>
    BY <1>11 DEF WriteExpire
  <2> HIDE DEF L, i
  <2>6. CASE /\ price' = log[i].prev /\ from' = log[i].before
             /\ log' = Append(L, NewEvent("revert", log[i].new, log[i].prev, from))
    <3>1. Like(L) /\ \A j \in 1..Len(log) : EventFits(L[j], j)  BY <2>2 DEF Restated
    <3>2. price' \in Prices /\ from' \in Nat /\ from' <= Len(log) + 1
      BY <1>0, <2>1, <2>3, <2>6
    <3>3. running' \in BOOLEAN /\ fails' \in Nat /\ revived' \in BOOLEAN
      BY <1>0, <2>5
    <3>4. from \in Nat /\ from <= Len(log)  BY <1>0
    <3>5. QED  BY <2>3, <2>5, <2>6, <3>1, <3>2, <3>3, <3>4, AddingEvent
  <2>7. CASE log' = L /\ UNCHANGED <<price, from>>
    <3>1. /\ LogGrows /\ Len(log') = Len(log)
          /\ \A j \in 1..Len(log') : EventFits(log'[j], j)
      BY <2>2, <2>7, LogRestated
    <3>2. CallFits(Idle, log')  BY <1>i DEF CallFits
    <3>3. call' \in [Calls -> Call] /\ \A d \in Calls : CallFits(call'[d], log')
      BY <1>i, <2>5, <3>1, <3>2, CallsKept
    <3>4. mixed' \in BOOLEAN  BY <1>0, <2>5 DEF Wrote, Call
    <3>5. QED  BY <1>0, <2>5, <2>7, <3>1, <3>3, <3>4 DEF Types, TypeOK, LogGrows
  <2>8. QED  BY <2>5, <2>6, <2>7
<1>12. ASSUME NEW c \in Calls, WriteRollback(c) PROVE Types' /\ LogGrows
  <2> DEFINE i == call[c].on
             status == AfterRollback(log[i].status)
             L == [log EXCEPT ![i].back = TRUE, ![i].status = status]
  <2>1. i \in 1..Len(log)  BY <1>12 DEF WriteRollback, Types, CallFits
  <2>2. /\ log[i].new \in Prices /\ log[i].prev \in Prices /\ log[i].before \in Nat
        /\ log[i].before < i /\ log[i] \in Event
    BY <2>1, EventParts
  <2>3. status \in {"none", "active", "expired", "reverted"}
        /\ (status # "none" => log[i].kind = "temporary")
    BY <1>l, <2>1, <2>2 DEF Event, EventFits, AfterRollback
  <2>4. Restated(L, i, status)  BY <2>1, <2>3, Closed
  <2>6. /\ UNCHANGED <<running, fails>>
        /\ \/ /\ price' = log[i].prev /\ log' = Append(L, RollbackEvent(i))
              /\ from' = log[i].before /\ Wrote(c, Idle)
              /\ revived' = (revived \/ (log[i].before # 0
                                           /\ log[log[i].before].status # "active"))
           \/ /\ call' = [call EXCEPT ![c] = Idle]
              /\ UNCHANGED <<price, log, from, mixed, revived>>
    BY <1>12 DEF WriteRollback
  <2> HIDE DEF L, status, i
  <2>7. CASE /\ price' = log[i].prev /\ log' = Append(L, RollbackEvent(i))
             /\ from' = log[i].before /\ Wrote(c, Idle)
             /\ revived' = (revived \/ (log[i].before # 0
                                          /\ log[log[i].before].status # "active"))
    <3>1. Like(L) /\ \A j \in 1..Len(log) : EventFits(L[j], j)  BY <2>4 DEF Restated
    <3>2. revived' \in BOOLEAN  BY <1>0, <2>7
    <3>3. running' \in BOOLEAN /\ fails' \in Nat  BY <1>0, <2>6
    <3>4. price' \in Prices /\ from' \in Nat /\ from' <= Len(log) + 1
      BY <1>0, <2>1, <2>2, <2>7
    <3>5. log' = Append(L, NewEvent("rollback", log[i].new, log[i].prev, from))
      BY <2>7 DEF RollbackEvent
    <3>6. from \in Nat /\ from <= Len(log)  BY <1>0
    <3>7. QED  BY <2>2, <2>7, <3>1, <3>2, <3>3, <3>4, <3>5, <3>6, AddingEvent
  <2>8. CASE /\ call' = [call EXCEPT ![c] = Idle]
             /\ UNCHANGED <<price, log, from, mixed, revived>>
    BY <1>0, <2>6, <2>8, Ending
  <2>9. QED  BY <2>6, <2>7, <2>8
<1>13. ASSUME NEW c \in Calls, Fail(c) PROVE Types' /\ LogGrows
  <2>1. fails' \in Nat  BY <1>0, <1>13 DEF Fail
  <2>2. running' \in BOOLEAN
    <3>1. running' = FALSE \/ running' = running  BY <1>13 DEF Fail, FlagAfter
    <3>2. QED  BY <1>0, <3>1
  <2>3. mixed' \in BOOLEAN
    <3>1. mixed' = TRUE \/ mixed' = mixed  BY <1>0, <1>13, Zenon DEF Fail
    <3>2. QED  BY <1>0, <3>1
  <2>4. QED  BY <1>0, <1>13, <2>1, <2>2, <2>3, Ending DEF Fail
<1>14. ASSUME NEW i \in DOMAIN log, TimePasses(i) PROVE Types' /\ LogGrows
  <2>1. i \in 1..Len(log) /\ log[i].status \in {"none", "active", "expired", "reverted"}
        /\ (log[i].status # "none" => log[i].kind = "temporary")
    BY <1>0, EventParts
  <2>2. Restated(log', i, log[i].status)  BY <1>0, <1>14, <2>1, Closed, Zenon DEF TimePasses
  <2>3. /\ LogGrows /\ Len(log') = Len(log)
        /\ \A j \in 1..Len(log') : EventFits(log'[j], j)
    BY <2>2, LogRestated
  <2>4. \A d \in Calls : CallFits(call'[d], log')
    <3> TAKE d \in Calls
    <3>1. CallFits(call[d], log) /\ call'[d] = call[d] /\ call[d].on \in Nat
      BY <1>0, <1>14 DEF Types, TimePasses, Call
    <3>2. QED  BY <2>3, <3>1 DEF CallFits, LogGrows
  <2>5. QED  BY <1>0, <1>14, <2>3, <2>4 DEF TimePasses, Types, TypeOK, LogGrows
<1>15. CASE UNCHANGED vars
  <2>1. LogGrows  BY <1>15, LogSame DEF vars
  <2>2. QED  BY <1>15, <2>1 DEF Types, TypeOK, EventFits, CallFits, vars
<1>16. QED
  BY <1>1, <1>2, <1>3, <1>4, <1>5, <1>6, <1>7, <1>8, <1>9, <1>10, <1>11, <1>12, <1>13, <1>14,
     <1>15 DEF Next, Finish

-----------------------------------------------------------------------------
(* What a step does to price, log, handlers and history.  Quiet steps keep *)
(* the price; the others are writes by one handler, after which what the   *)
(* rest has read is outdated.                                              *)

StatusKept(j) == log'[j].status = log[j].status
SameLength == Len(log') = Len(log)

Quiet ==
  /\ UNCHANGED <<price, from, revived>> /\ SameLength
  /\ \A j \in 1..Len(log) : StatusKept(j)
  /\ mixed => mixed'
  /\ \A d \in Calls :
       \/ call'[d] = call[d]
       \/ call'[d].pc = "idle" /\ (call[d].pc = "log" => mixed')
       \/ /\ call[d].pc = "idle" /\ call'[d].pc \notin {"idle", "log"}
          /\ call'[d].seen = price
          /\ call'[d].pc = "expire" => Active(call'[d].on)

Writes(c) ==
  /\ mixed \/ call[c].old => mixed'
  /\ revived => revived'
  /\ call[c].pc # "idle" /\ call'[c].pc \in {"idle", "log"}
  /\ \A d \in Calls \ {c} : call'[d].pc = call[d].pc /\ (call[d].pc # "idle" => call'[d].old)

\* The log has one more event.
Added(kind, prev, new) ==
  LET n == Len(log) + 1 IN
  /\ Len(log') = n /\ log'[n].kind = kind /\ log'[n].prev = prev /\ log'[n].new = new

\* A change of the price or a temporary price.
Sets(c) ==
  LET n == Len(log) + 1 IN
  /\ call[c].pc \in {"change", "apply"} /\ call'[c].pc = "idle"
  /\ log'[n].before = from /\ price' = call[c].new
  /\ \A j \in 1..Len(log) : StatusKept(j)
  /\ \/ Added("change", call[c].seen, call[c].new) /\ from' = 0
     \/ /\ Added("temporary", call[c].seen, call[c].new) /\ from' = n
        /\ log'[n].status = "active" /\ \A j \in 1..Len(log) : ~Active(j)

\* An edit of the product.
Edits(c) ==
  /\ call[c].pc = "edit" /\ SameLength
  /\ price' = call[c].new
  /\ from' = IF call[c].new = price THEN from ELSE 0
  /\ \A j \in 1..Len(log) : StatusKept(j)
  /\ \/ call[c].new = call[c].seen /\ call'[c].pc = "idle"
     \/ /\ call'[c].pc = "log" /\ call'[c].seen = call[c].seen /\ call'[c].new = call[c].new

\* Its event.
Logs(c) ==
  /\ call[c].pc = "log" /\ call'[c].pc = "idle"
  /\ Added("edit", call[c].seen, call[c].new)
  /\ \A j \in 1..Len(log) : StatusKept(j)
  /\ UNCHANGED <<price, from>>

\* A price taken back, by the job or by a rollback.
Backs(c, i) ==
  /\ call[c].on = i /\ i \in 1..Len(log) /\ call'[c].pc = "idle"
  /\ log[i].kind \in {"change", "temporary"} /\ call[c].seen = log[i].new
  /\ price' = log[i].prev /\ from' = log[i].before
  /\ Added("revert", log[i].new, log[i].prev) \/ Added("rollback", log[i].new, log[i].prev)
  /\ \A j \in 1..Len(log) : j # i => StatusKept(j)
  /\ \/ call[c].pc = "expire" /\ log[i].kind = "temporary"
     \/ /\ call[c].pc = "rollback" /\ (Active(i) \/ StatusKept(i))
        /\ log[i].before # 0 /\ ~Active(log[i].before) => revived'

\* An action closed by the job with another price in force.
Closes(c, i) ==
  /\ call[c].on = i /\ i \in 1..Len(log)
  /\ call[c].pc = "expire" /\ call'[c].pc = "idle"
  /\ call[c].seen # log[i].new
  /\ SameLength /\ UNCHANGED <<price, from>>
  /\ \A j \in 1..Len(log) : j # i => StatusKept(j)

Write(c) ==
  /\ Writes(c)
  /\ Sets(c) \/ Edits(c) \/ Logs(c) \/ \E i \in Nat : Backs(c, i) \/ Closes(c, i)

\* A handler that writes outdates what the others have read.
LEMMA Outdates ==
  ASSUME Types, NEW c \in Calls, NEW k \in Call, Wrote(c, k), k.pc \in {"idle", "log"},
         call[c].pc # "idle", revived => revived'
  PROVE  Writes(c) /\ call'[c] = k
<1>1. call \in [Calls -> Call]  BY DEF Types, TypeOK
<1>2. call'[c] = k  BY DEF Wrote
<1>3. mixed \/ call[c].old => mixed'  BY Zenon DEF Wrote
<1>4. ASSUME NEW d \in Calls \ {c}
      PROVE  call'[d].pc = call[d].pc /\ (call[d].pc # "idle" => call'[d].old)
  <2>1. CASE call[d].pc = "idle"
    <3>1. call'[d] = call[d]  BY <2>1 DEF Wrote
    <3>2. QED  BY <2>1, <3>1
  <2>2. CASE call[d].pc # "idle"
    <3>1. call'[d] = [call[d] EXCEPT !.old = TRUE]  BY <2>2 DEF Wrote
    <3>2. call[d] \in Call  BY <1>1
    <3>3. QED  BY <3>1, <3>2 DEF Call
  <2>3. QED  BY <2>1, <2>2
<1>5. QED  BY <1>2, <1>3, <1>4 DEF Writes

\* What a log holds after an event is appended to one like it.
LEMMA Appended ==
  ASSUME Types, NEW L, Like(L), NEW kind \in {"change", "edit", "temporary", "revert", "rollback"},
         NEW prev \in Prices, NEW new \in Prices, NEW b \in Nat,
         log' = Append(L, NewEvent(kind, prev, new, b))
  PROVE  /\ Added(kind, prev, new)
         /\ log'[Len(log) + 1].before = b
         /\ kind = "temporary" => log'[Len(log) + 1].status = "active"
         /\ \A j \in 1..Len(log) : log'[j] = L[j]
<1> DEFINE e == NewEvent(kind, prev, new, b)
<1>1. /\ e \in Event /\ e.kind = kind /\ e.prev = prev /\ e.new = new /\ e.before = b
      /\ kind = "temporary" => e.status = "active"
  BY NewEvents
<1>2. TypeOK /\ log' = Append(L, e)  BY DEF Types
<1> HIDE DEF e
<1>3. /\ Len(log') = Len(log) + 1 /\ log'[Len(log) + 1] = e
      /\ \A j \in 1..Len(log) : log'[j] = L[j]
  BY <1>1, <1>2, Grows
<1>4. QED  BY <1>1, <1>3 DEF Added

\* Every step is quiet or a write.
LEMMA Effects ==
  ASSUME Types, Types', [Next]_vars
  PROVE  Quiet \/ \E c \in Calls : Write(c)
<1>0. /\ TypeOK /\ call \in [Calls -> Call] /\ log \in Seq(Event) /\ Len(log) \in Nat
      /\ from \in Nat /\ DOMAIN log = 1..Len(log)
  BY DEF Types, TypeOK
<1>i. Idle \in Call /\ Idle.pc = "idle"  BY <1>0, IdleType
<1>l. Like(log)  BY <1>0, LikeItself
<1>b. ASSUME NEW c \in Calls, NEW pc \in {"change", "edit", "apply", "rollback"},
             NEW p \in Prices, NEW i \in Nat, Begin(c, pc, p, i),
             UNCHANGED <<price, log, running, fails, from, mixed, revived>>
      PROVE  Quiet
  <2> DEFINE k == [Idle EXCEPT !.pc = pc, !.seen = price, !.new = p, !.on = i]
  <2>1. k.pc = pc /\ k.seen = price  BY <1>i DEF Call
  <2>2. call' = [call EXCEPT ![c] = k] /\ call[c].pc = "idle"  BY <1>b DEF Begin
  <2> HIDE DEF k
  <2>3. QED  BY <1>0, <1>b, <2>1, <2>2 DEF Quiet, StatusKept, SameLength
<1>e. ASSUME NEW c \in Calls, call' = [call EXCEPT ![c] = Idle],
             UNCHANGED <<price, log, from, revived>>, mixed \/ call[c].pc = "log" => mixed'
      PROVE  Quiet
  BY <1>0, <1>i, <1>e DEF Quiet, StatusKept, SameLength
<1>1. ASSUME NEW c \in Calls, NEW p \in Prices, ReadChange(c, p) PROVE Quiet
  BY <1>1, <1>b DEF ReadChange
<1>2. ASSUME NEW c \in Calls, NEW p \in Prices, ReadEdit(c, p) PROVE Quiet
  BY <1>2, <1>b DEF ReadEdit
<1>3. ASSUME NEW c \in Calls, NEW p \in Prices, ReadApply(c, p) PROVE Quiet
  BY <1>3, <1>b DEF ReadApply
<1>4. ASSUME NEW c \in Calls, NEW i \in DOMAIN log, ReadRollback(c, i) PROVE Quiet
  <2>1. PICK p \in Prices : Begin(c, "rollback", p, i)
    BY <1>0, <1>4 DEF ReadRollback, TypeOK
  <2>2. QED  BY <1>0, <1>4, <1>b, <2>1, i \in Nat DEF ReadRollback
<1>5. ASSUME NEW c \in Calls, ReadExpire(c) PROVE Quiet
  <2>1. PICK i \in 1..Len(log) :
          /\ Due(i) /\ call[c].pc = "idle"
          /\ call' = [call EXCEPT ![c] = [Idle EXCEPT !.pc = "expire", !.seen = price, !.on = i]]
    BY <1>0, <1>5 DEF ReadExpire
  <2> DEFINE k == [Idle EXCEPT !.pc = "expire", !.seen = price, !.on = i]
  <2>2. k.pc = "expire" /\ k.seen = price /\ k.on = i  BY <1>i DEF Call
  <2>3. call' = [call EXCEPT ![c] = k] /\ Active(i)  BY <2>1 DEF Due
  <2> HIDE DEF k
  <2>4. QED  BY <1>0, <1>5, <2>1, <2>2, <2>3 DEF Quiet, StatusKept, SameLength, ReadExpire
<1>6. ASSUME NEW c \in Calls, WriteChange(c) PROVE Write(c)
  <2>1. Writes(c) /\ call'[c] = Idle
    BY <1>6, <1>i, Outdates DEF WriteChange
  <2>2. /\ Added("change", call[c].seen, call[c].new) /\ log'[Len(log) + 1].before = from
        /\ \A j \in 1..Len(log) : log'[j] = log[j]
    BY <1>0, <1>6, <1>l, CallParts, Appended DEF WriteChange
  <2>3. QED  BY <1>6, <1>i, <2>1, <2>2 DEF Write, Sets, StatusKept, WriteChange
<1>7. ASSUME NEW c \in Calls, WriteEdit(c) PROVE Write(c)
  <2> DEFINE k == [call[c] EXCEPT !.pc = "log", !.on = from]
             n == IF call[c].new = call[c].seen THEN Idle ELSE k
  <2>1. k \in Call /\ k.pc = "log" /\ k.seen = call[c].seen /\ k.new = call[c].new
    <3>1. call[c] \in Call  BY CallParts
    <3>2. QED  BY <1>0, <3>1, GoesToLog
  <2>2. Wrote(c, n) /\ call[c].pc = "edit" /\ UNCHANGED <<log, revived>>
    BY <1>7 DEF WriteEdit
  <2> HIDE DEF k
  <2>3. n \in Call /\ n.pc \in {"idle", "log"}  BY <1>i, <2>1
  <2> HIDE DEF n
  <2>4. Writes(c) /\ call'[c] = n  BY <2>2, <2>3, Outdates
  <2>5. Edits(c)
    BY <1>7, <1>i, <2>1, <2>2, <2>4 DEF Edits, WriteEdit, SameLength, StatusKept, n
  <2>6. QED  BY <2>4, <2>5 DEF Write
<1>8. ASSUME NEW c \in Calls, LogEdit(c) PROVE Write(c)
  <2>1. Writes(c) /\ call'[c] = Idle
    BY <1>8, <1>i, Outdates DEF LogEdit
  <2>2. /\ Added("edit", call[c].seen, call[c].new)
        /\ \A j \in 1..Len(log) : log'[j] = log[j]
    BY <1>8, <1>l, CallParts, Appended DEF LogEdit
  <2>3. QED  BY <1>8, <1>i, <2>1, <2>2 DEF Write, Logs, StatusKept, LogEdit
<1>9. ASSUME NEW c \in Calls, WriteApply(c) PROVE Write(c)
  <2>1. Writes(c) /\ call'[c] = Idle
    BY <1>9, <1>i, Outdates DEF WriteApply
  <2>2. /\ Added("temporary", call[c].seen, call[c].new) /\ log'[Len(log) + 1].before = from
        /\ log'[Len(log) + 1].status = "active"
        /\ \A j \in 1..Len(log) : log'[j] = log[j]
    BY <1>0, <1>9, <1>l, CallParts, Appended DEF WriteApply
  <2>3. QED  BY <1>0, <1>9, <1>i, <2>1, <2>2 DEF Write, Sets, StatusKept, WriteApply
<1>10. ASSUME NEW c \in Calls, RefuseApply(c) PROVE Quiet
  BY <1>10, <1>e DEF RefuseApply
<1>11. ASSUME NEW c \in Calls, WriteExpire(c) PROVE Write(c)
  <2> DEFINE i == call[c].on
             L == [log EXCEPT ![i].status = "expired"]
  <2>1. call[c].pc = "expire" /\ i \in 1..Len(log) /\ log[i].kind = "temporary"
    BY <1>11 DEF WriteExpire, Types, CallFits
  <2>2. Writes(c) /\ call'[c] = Idle
    BY <1>11, <1>i, <2>1, Outdates DEF WriteExpire
  <2>3. Like(L) /\ Len(L) = Len(log) /\ \A j \in 1..Len(log) : j # i => L[j].status = log[j].status
    <3>1. Restated(L, i, "expired")  BY <2>1, Closed
    <3>2. QED  BY <3>1 DEF Restated, Like
  <2>4. log[i].new \in Prices /\ log[i].prev \in Prices  BY <2>1, EventParts
  <2>5. CASE StillApplied(i, call[c].seen)
    <3>1. /\ log' = Append(L, NewEvent("revert", log[i].new, log[i].prev, from))
          /\ price' = log[i].prev /\ from' = log[i].before
      BY <1>11, <2>5 DEF WriteExpire
    <3> HIDE DEF L
    <3>2. /\ Added("revert", log[i].new, log[i].prev)
          /\ \A j \in 1..Len(log) : log'[j] = L[j]
      <4>1. from \in Nat /\ Like(L)  BY <1>0, <2>3
      <4>2. QED  BY <2>4, <3>1, <4>1, Appended, ZenonT(60)
    <3>3. \A j \in 1..Len(log) : j # i => StatusKept(j)  BY <2>3, <3>2 DEF StatusKept
    <3>4. call[c].seen = log[i].new /\ call'[c].pc = "idle"
      BY <1>i, <2>2, <2>5 DEF StillApplied
    <3>5. Backs(c, i)  BY <2>1, <3>1, <3>2, <3>3, <3>4 DEF Backs
    <3>6. QED  BY <2>1, <2>2, <3>5, i \in Nat DEF Write
  <2>6. CASE ~StillApplied(i, call[c].seen)
    <3>1. log' = L /\ UNCHANGED <<price, from>>
      BY <1>11, <2>6 DEF WriteExpire
    <3> HIDE DEF L
    <3>2. SameLength /\ \A j \in 1..Len(log) : j # i => StatusKept(j)
      BY <2>3, <3>1 DEF SameLength, StatusKept
    <3>3. call[c].seen # log[i].new /\ call'[c].pc = "idle"
      BY <1>i, <2>2, <2>6 DEF StillApplied
    <3>4. Closes(c, i)  BY <2>1, <3>1, <3>2, <3>3 DEF Closes
    <3>5. QED  BY <2>1, <2>2, <3>4, i \in Nat DEF Write
  <2>7. QED  BY <2>5, <2>6
<1>12. ASSUME NEW c \in Calls, WriteRollback(c) PROVE Quiet \/ Write(c)
  <2> DEFINE i == call[c].on
             status == AfterRollback(log[i].status)
             L == [log EXCEPT ![i].back = TRUE, ![i].status = status]
  <2>1. call[c].pc = "rollback" /\ i \in 1..Len(log) /\ log[i].kind \in {"change", "temporary"}
    BY <1>12 DEF WriteRollback, Types, CallFits
  <2>2. CASE StillApplied(i, call[c].seen)
    <3>1. /\ log' = Append(L, RollbackEvent(i)) /\ Wrote(c, Idle)
          /\ price' = log[i].prev /\ from' = log[i].before
          /\ revived' = (revived \/ (log[i].before # 0 /\ log[log[i].before].status # "active"))
      BY <1>12, <2>2, ZenonT(30) DEF WriteRollback
    <3>2. /\ revived => revived'
          /\ log[i].before # 0 /\ ~Active(log[i].before) => revived'
      BY <3>1, Zenon DEF Active
    <3>3. Writes(c) /\ call'[c] = Idle  BY <1>i, <2>1, <3>1, <3>2, Outdates, Zenon
    <3>4. /\ status \in {"none", "active", "expired", "reverted"}
          /\ status # "none" => log[i].kind = "temporary"
          /\ Active(i) \/ status = log[i].status
      BY <2>1, EventParts DEF AfterRollback, Active
    <3> HIDE DEF status
    <3>5. /\ Like(L) /\ L[i].status = status
          /\ \A j \in 1..Len(log) : j # i => L[j].status = log[j].status
      <4>1. Restated(L, i, status)  BY <2>1, <3>4, Closed
      <4>2. QED  BY <2>1, <4>1 DEF Restated
    <3>6. log[i].new \in Prices /\ log[i].prev \in Prices  BY <2>1, EventParts
    <3> HIDE DEF L
    <3>7. /\ Added("rollback", log[i].new, log[i].prev)
          /\ \A j \in 1..Len(log) : log'[j] = L[j]
      <4>1. from \in Nat /\ Like(L)  BY <1>0, <3>5
      <4>2. log' = Append(L, NewEvent("rollback", log[i].new, log[i].prev, from))
        BY <3>1 DEF RollbackEvent
      <4>3. QED  BY <3>6, <4>1, <4>2, Appended, ZenonT(60)
    <3>8. Active(i) \/ StatusKept(i)  BY <2>1, <3>4, <3>5, <3>7 DEF StatusKept
    <3>9. \A j \in 1..Len(log) : j # i => StatusKept(j)  BY <3>5, <3>7 DEF StatusKept
    <3>10. call[c].seen = log[i].new /\ call'[c].pc = "idle"
      BY <1>i, <2>2, <3>3 DEF StillApplied
    <3>11. Backs(c, i)
      BY <2>1, <3>1, <3>2, <3>7, <3>8, <3>9, <3>10, Zenon DEF Backs
    <3>12. QED  BY <2>1, <3>3, <3>11, i \in Nat DEF Write
  <2>3. CASE ~StillApplied(i, call[c].seen)
    <3>1. /\ call' = [call EXCEPT ![c] = Idle]
          /\ UNCHANGED <<price, log, from, mixed, revived>>
      BY <1>12, <2>3 DEF WriteRollback
    <3>2. QED  BY <1>e, <2>1, <3>1
  <2>4. QED  BY <2>2, <2>3
<1>13. ASSUME NEW c \in Calls, Fail(c) PROVE Quiet
  <2>1. mixed \/ call[c].pc = "log" => mixed'  BY <1>13, Zenon DEF Fail
  <2>2. QED  BY <1>13, <1>e, <2>1 DEF Fail
<1>14. ASSUME NEW i \in DOMAIN log, TimePasses(i) PROVE Quiet
  <2>1. i \in 1..Len(log) /\ log' = [log EXCEPT ![i].over = TRUE]
    BY <1>0, <1>14 DEF TimePasses
  <2>2. Len(log') = Len(log) /\ \A j \in 1..Len(log) : log'[j].status = log[j].status
    <3>1. /\ log[i].status \in {"none", "active", "expired", "reverted"}
          /\ log[i].status # "none" => log[i].kind = "temporary"
      BY <2>1, EventParts
    <3>2. Restated(log', i, log[i].status)  BY <2>1, <3>1, Closed
    <3>3. QED  BY <3>2 DEF Restated, Like
  <2>3. QED  BY <1>14, <2>2 DEF TimePasses, Quiet, StatusKept, SameLength
<1>15. CASE UNCHANGED vars
  BY <1>15 DEF vars, Quiet, StatusKept, SameLength
<1>16. QED
  BY <1>1, <1>2, <1>3, <1>4, <1>5, <1>6, <1>7, <1>8, <1>9, <1>10, <1>11, <1>12, <1>13, <1>14,
     <1>15 DEF Next, Finish

-----------------------------------------------------------------------------
(* The inductive invariant.                                                *)

\* A reading that is not outdated is the price in force, an action found due still runs.
Current(k) == k.pc \notin {"idle", "log"} /\ ~k.old
ReadsHold ==
  \A c \in Calls : Current(call[c]) =>
    call[c].seen = price /\ (call[c].pc = "expire" => Active(call[c].on))
\* An edit whose event another handler has overtaken.
Broken == \E c \in Calls : call[c].pc = "log" /\ call[c].old
\* The log is a chain; an edit being logged is the link that is missing at its end.
Chain == \A i \in 1..Len(log) - 1 : log[i + 1].prev = log[i].new
Link(k) == k.new = price /\ (Len(log) > 0 => log[Len(log)].new = k.seen)
Linked ==
  ~mixed /\ ~Broken =>
    /\ Chain
    /\ ~Logging /\ Len(log) > 0 => price = log[Len(log)].new
    /\ \A c \in Calls : call[c].pc = "log" => Link(call[c])
\* Taking a price back gives the temporary price before it its value again.
Restores ==
  ~mixed =>
    /\ from # 0 => price = log[from].new
    /\ \A i \in 1..Len(log) : log[i].kind \in {"change", "temporary"} /\ log[i].before # 0 =>
         log[i].prev = log[log[i].before].new
\* No temporary price is set on top of another.
Lasts ==
  ~mixed /\ ~revived =>
    /\ from # 0 => Active(from)
    /\ \A i \in 1..Len(log) : log[i].kind = "temporary" => log[i].before = 0
IInv == Types /\ ReadsHold /\ Linked /\ Restores /\ Lasts

\* Init establishes the invariant.
LEMMA Initially == Init => IInv
<1> SUFFICES ASSUME Init PROVE IInv  OBVIOUS
<1>1. price \in Prices /\ log = <<>> /\ Len(log) = 0 /\ from = 0  BY DEF Init
<1>2. Idle \in Call /\ Idle.pc = "idle"
  BY <1>1 DEF Idle, Call
<1>3. \A c \in Calls : call[c] = Idle  BY DEF Init
<1>4. Types
  <2>1. call \in [Calls -> Call]  BY <1>2, <1>3 DEF Init
  <2>2. TypeOK
    <3>1. log \in Seq(Event)  BY <1>1
    <3>2. fails \in Nat /\ from \in Nat  BY <1>1 DEF Init
    <3>3. running \in BOOLEAN /\ mixed \in BOOLEAN /\ revived \in BOOLEAN  BY DEF Init
    <3>4. QED  BY <1>1, <2>1, <3>1, <3>2, <3>3 DEF TypeOK
  <2>3. \A c \in Calls : CallFits(call[c], log)  BY <1>2, <1>3 DEF CallFits
  <2>4. QED  BY <1>1, <2>2, <2>3 DEF Types
<1>5. QED
  BY <1>1, <1>2, <1>3, <1>4
  DEF IInv, ReadsHold, Current, Linked, Chain, Link, Restores, Lasts

\* Whose readings survive a write.
LEMMA Survivors ==
  ASSUME Types, NEW c \in Calls, Writes(c), NEW d \in Calls, Current(call'[d])
  PROVE  FALSE
<1>1. CASE d = c  BY <1>1 DEF Writes, Current
<1>2. CASE d # c
  <2>1. call'[d].pc = call[d].pc /\ (call[d].pc # "idle" => call'[d].old)
    BY <1>2 DEF Writes
  <2>2. QED  BY <2>1 DEF Current
<1>3. QED  BY <1>1, <1>2

\* Every step keeps current readings true.
LEMMA ReadsStep ==
  ASSUME Types, Types', ReadsHold, Quiet \/ \E c \in Calls : Write(c)
  PROVE  ReadsHold'
<1>1. ASSUME Quiet, NEW d \in Calls, Current(call'[d])
      PROVE  call'[d].seen = price' /\ (call'[d].pc = "expire" => Active(call[d].on)')
  <2>1. price' = price /\ \A j \in 1..Len(log) : log'[j].status = log[j].status
    BY <1>1 DEF Quiet, StatusKept
  <2>2. call'[d].seen = price /\ (call'[d].pc = "expire" => Active(call'[d].on))
    BY <1>1 DEF Quiet, Current, ReadsHold
  <2>3. call'[d].pc = "expire" => call'[d].on \in 1..Len(log)
    <3>1. CallFits(call'[d], log') /\ Len(log') = Len(log)
      BY <1>1 DEF Types, Quiet, SameLength
    <3>2. QED  BY <3>1 DEF CallFits
  <2>4. QED  BY <2>1, <2>2, <2>3 DEF Active
<1>2. ASSUME NEW c \in Calls, Write(c) PROVE ReadsHold'
  BY <1>2, Survivors DEF Write, ReadsHold, Current
<1>3. QED  BY <1>1, <1>2 DEF ReadsHold, Current

\* Under a write that leaves mixed down: the writer's reading holds, and no
\* other handler was about to log.
LEMMA Alone ==
  ASSUME Types, Types', ReadsHold, NEW c \in Calls, Writes(c), ~mixed'
  PROVE  /\ ~mixed /\ ~call[c].old
         /\ call[c].pc # "log" => call[c].seen = price
         /\ call[c].pc = "expire" => Active(call[c].on)
         /\ ~Broken' => ~Broken /\ \A d \in Calls : d # c => call[d].pc # "log" /\ call'[d].pc # "log"
<1>1. ~mixed /\ ~call[c].old  BY DEF Writes
<1>2. /\ call[c].pc # "log" => call[c].seen = price
      /\ call[c].pc = "expire" => Active(call[c].on)
  BY <1>1 DEF Writes, ReadsHold, Current
<1>3. ASSUME ~Broken', NEW d \in Calls, d # c PROVE call[d].pc # "log" /\ call'[d].pc # "log"
  <2>1. call'[d].pc = call[d].pc /\ (call[d].pc # "idle" => call'[d].old)
    BY <1>3 DEF Writes
  <2>2. QED  BY <1>3, <2>1 DEF Broken
<1>4. ~Broken' => ~Broken  BY <1>1, <1>3 DEF Broken
<1>5. QED  BY <1>1, <1>2, <1>3, <1>4

\* Every step keeps the log a chain.
LEMMA LinkedStep ==
  ASSUME Types, Types', LogGrows, ReadsHold, Linked, Quiet \/ \E c \in Calls : Write(c)
  PROVE  Linked'
<1> SUFFICES ASSUME ~mixed', ~Broken'
             PROVE  /\ Chain'
                    /\ ~Logging' /\ Len(log') > 0 => price' = log'[Len(log')].new
                    /\ \A d \in Calls : call'[d].pc = "log" => Link(call[d])'
  BY DEF Linked
<1>0. /\ Len(log) \in Nat
      /\ \A j \in 1..Len(log) : log'[j].prev = log[j].prev /\ log'[j].new = log[j].new
  BY DEF Types, TypeOK, LogGrows
<1>1. CASE Quiet
  <2>1. ~mixed /\ price' = price /\ Len(log') = Len(log)  BY <1>1 DEF Quiet, SameLength
  <2>2. ASSUME NEW d \in Calls
        PROVE  \/ call'[d].pc = "log" /\ call'[d] = call[d]
               \/ call'[d].pc # "log" /\ call[d].pc # "log"
    BY <1>1 DEF Quiet
  <2>3. ~Broken /\ (~Logging' => ~Logging)  BY <2>2 DEF Broken, Logging
  <2>4. Chain /\ Chain'  BY <1>0, <2>1, <2>3 DEF Linked, Chain
  <2>5. ~Logging' /\ Len(log') > 0 => price' = log'[Len(log')].new
    BY <1>0, <2>1, <2>3 DEF Linked
  <2>6. \A d \in Calls : call'[d].pc = "log" => Link(call[d])'
    BY <1>0, <2>1, <2>2, <2>3 DEF Linked, Link
  <2>7. QED  BY <2>4, <2>5, <2>6
<1>2. ASSUME NEW c \in Calls, Write(c)
      PROVE  /\ Chain'
             /\ ~Logging' /\ Len(log') > 0 => price' = log'[Len(log')].new
             /\ \A d \in Calls : call'[d].pc = "log" => Link(call[d])'
  <2>1. /\ ~mixed /\ ~Broken
        /\ call[c].pc # "log" => call[c].seen = price
        /\ \A d \in Calls : d # c => call[d].pc # "log" /\ call'[d].pc # "log"
    BY <1>2, Alone DEF Write
  <2>2. /\ Chain
        /\ call[c].pc # "log" /\ Len(log) > 0 => price = log[Len(log)].new
        /\ call[c].pc = "log" => Link(call[c])
    BY <2>1 DEF Linked, Logging
  \* The event that is added links the price before to the price after.
  <2>a. ASSUME NEW kind, NEW prev, NEW new, Added(kind, prev, new),
               Len(log) > 0 => log[Len(log)].new = prev, price' = new, call'[c].pc = "idle"
        PROVE  /\ Chain'
               /\ ~Logging' /\ Len(log') > 0 => price' = log'[Len(log')].new
               /\ \A d \in Calls : call'[d].pc = "log" => Link(call[d])'
    <3>1. \A d \in Calls : call'[d].pc # "log"  BY <2>1, <2>a
    <3>2. price' = log'[Len(log')].new  BY <2>a DEF Added
    <3>3. ASSUME NEW i \in 1..Len(log') - 1 PROVE log'[i + 1].prev = log'[i].new
      <4>1. CASE i < Len(log)
        BY <1>0, <2>2, <2>a, <4>1 DEF Added, Chain
      <4>2. CASE i = Len(log)
        BY <1>0, <2>a, <4>2 DEF Added
      <4>3. i < Len(log) \/ i = Len(log)  BY <1>0, <2>a DEF Added
      <4>4. QED  BY <4>1, <4>2, <4>3
    <3>4. QED  BY <3>1, <3>2, <3>3 DEF Chain
  <2>3. CASE Sets(c)
    BY <2>1, <2>2, <2>3, <2>a DEF Sets
  <2>4. CASE Edits(c)
    <3>1. Len(log') = Len(log) /\ price' = call[c].new /\ call[c].pc = "edit"
      BY <2>4 DEF Edits, SameLength
    <3>2. Chain'  BY <1>0, <2>2, <3>1 DEF Chain
    <3>3. Len(log) > 0 => log'[Len(log)].new = call[c].seen
      BY <1>0, <2>1, <2>2, <3>1
    <3>4. CASE call[c].new = call[c].seen /\ call'[c].pc = "idle"
      BY <2>1, <3>1, <3>2, <3>3, <3>4
    <3>5. CASE call'[c].pc = "log" /\ call'[c].seen = call[c].seen /\ call'[c].new = call[c].new
      <4>1. Logging' /\ Link(call[c])'  BY <3>1, <3>3, <3>5 DEF Logging, Link
      <4>2. QED  BY <2>1, <3>2, <4>1
    <3>6. QED  BY <2>4, <3>4, <3>5 DEF Edits
  <2>5. CASE Logs(c)
    BY <2>2, <2>5, <2>a DEF Logs, Link
  <2>6. ASSUME NEW i \in Nat, Backs(c, i)
        PROVE  /\ Chain'
               /\ ~Logging' /\ Len(log') > 0 => price' = log'[Len(log')].new
               /\ \A d \in Calls : call'[d].pc = "log" => Link(call[d])'
    <3>1. price = log[i].new /\ call[c].pc # "log"  BY <2>1, <2>6 DEF Backs
    <3>2. QED  BY <2>2, <2>6, <2>a, <3>1 DEF Backs
  <2>7. ASSUME NEW i \in Nat, Closes(c, i)
        PROVE  /\ Chain'
               /\ ~Logging' /\ Len(log') > 0 => price' = log'[Len(log')].new
               /\ \A d \in Calls : call'[d].pc = "log" => Link(call[d])'
    <3>1. Len(log') = Len(log) /\ price' = price /\ call[c].pc = "expire" /\ call'[c].pc = "idle"
      BY <2>7 DEF Closes, SameLength
    <3>2. QED  BY <1>0, <2>1, <2>2, <3>1 DEF Chain
  <2>8. QED  BY <1>2, <2>3, <2>4, <2>5, <2>6, <2>7 DEF Write
<1>3. QED  BY <1>1, <1>2

\* Every step keeps the events that are taken back fitting.
LEMMA RestoresStep ==
  ASSUME Types, Types', LogGrows, ReadsHold, Restores, Quiet \/ \E c \in Calls : Write(c)
  PROVE  Restores'
<1> DEFINE Events(n) ==
      \A i \in 1..n : log'[i].kind \in {"change", "temporary"} /\ log'[i].before # 0 =>
                        log'[i].prev = log'[log'[i].before].new
<1> SUFFICES ASSUME ~mixed'
             PROVE  (from' # 0 => price' = log'[from'].new) /\ Events(Len(log'))
  BY DEF Restores
<1>0. /\ Len(log) \in Nat /\ from \in Nat /\ from <= Len(log)
      /\ \A j \in 1..Len(log) : /\ log'[j].prev = log[j].prev /\ log'[j].new = log[j].new
                                /\ log'[j].kind = log[j].kind /\ log'[j].before = log[j].before
  BY DEF Types, TypeOK, LogGrows
\* The events there were restore what they restored.
<1>1. ~mixed => Events(Len(log))
  <2> SUFFICES ASSUME ~mixed, NEW i \in 1..Len(log), log'[i].kind \in {"change", "temporary"},
                      log'[i].before # 0
               PROVE  log'[i].prev = log'[log'[i].before].new
    OBVIOUS
  <2>1. log[i].before \in 1..Len(log)  BY <1>0, EventParts
  <2>2. log[i].prev = log[log[i].before].new  BY <1>0 DEF Restores
  <2>3. QED  BY <1>0, <2>1, <2>2
<1>2. ~mixed /\ from # 0 => price = log[from].new /\ from \in 1..Len(log)
  BY <1>0 DEF Restores
<1> HIDE DEF Events
<1>3. CASE Quiet
  BY <1>0, <1>1, <1>2, <1>3 DEF Quiet, SameLength
<1>4. ASSUME NEW c \in Calls, Write(c)
      PROVE  (from' # 0 => price' = log'[from'].new) /\ Events(Len(log'))
  <2>1. ~mixed /\ (call[c].pc # "log" => call[c].seen = price)
    BY <1>4, Alone DEF Write
  <2>2. ASSUME NEW kind, NEW prev, NEW new, Added(kind, prev, new),
               kind \in {"change", "temporary"} =>
                 log'[Len(log) + 1].before = from /\ prev = price
        PROVE  Events(Len(log'))
    <3>1. Len(log') = Len(log) + 1 /\ log'[Len(log) + 1].kind = kind
          /\ log'[Len(log) + 1].prev = prev
      BY <2>2 DEF Added
    <3>2. ASSUME NEW i \in 1..Len(log'), log'[i].kind \in {"change", "temporary"},
                 log'[i].before # 0
          PROVE  log'[i].prev = log'[log'[i].before].new
      <4>1. CASE i = Len(log) + 1
        <5>1. log'[i].before = from /\ log'[i].prev = price  BY <2>2, <3>1, <3>2, <4>1
        <5>2. QED  BY <1>0, <1>2, <2>1, <3>2, <5>1
      <4>2. CASE i # Len(log) + 1
        <5>1. i \in 1..Len(log)  BY <1>0, <3>1, <4>2
        <5>2. QED  BY <1>1, <2>1, <3>2, <5>1 DEF Events
      <4>3. QED  BY <4>1, <4>2
    <3>3. QED  BY <3>2 DEF Events
  <2>3. CASE Sets(c)
    <3>1. call[c].seen = price /\ log'[Len(log) + 1].before = from  BY <2>1, <2>3 DEF Sets
    <3>2. Events(Len(log'))  BY <2>2, <2>3, <3>1 DEF Sets
    <3>3. from' # 0 => price' = log'[from'].new  BY <2>3 DEF Sets, Added
    <3>4. QED  BY <3>2, <3>3
  <2>4. CASE Edits(c)
    <3>1. Len(log') = Len(log) /\ price' = call[c].new
          /\ from' = IF call[c].new = price THEN from ELSE 0
      BY <2>4 DEF Edits, SameLength
    <3>2. QED  BY <1>0, <1>1, <1>2, <2>1, <3>1
  <2>5. CASE Logs(c)
    <3>1. Events(Len(log'))  BY <2>2, <2>5 DEF Logs
    <3>2. QED  BY <1>0, <1>2, <2>1, <2>5, <3>1 DEF Logs
  <2>6. ASSUME NEW i \in Nat, Backs(c, i)
        PROVE  (from' # 0 => price' = log'[from'].new) /\ Events(Len(log'))
    <3>1. Events(Len(log'))  BY <2>2, <2>6 DEF Backs
    <3>2. i \in 1..Len(log) /\ log[i].kind \in {"change", "temporary"}
          /\ price' = log[i].prev /\ from' = log[i].before
      BY <2>6 DEF Backs
    <3>3. from' # 0 => from' \in 1..Len(log)  BY <1>0, <3>2, EventParts
    <3>4. from' # 0 => log[i].prev = log[from'].new  BY <2>1, <3>2 DEF Restores
    <3>5. QED  BY <1>0, <3>1, <3>2, <3>3, <3>4
  <2>7. ASSUME NEW i \in Nat, Closes(c, i)
        PROVE  (from' # 0 => price' = log'[from'].new) /\ Events(Len(log'))
    <3>1. Len(log') = Len(log) /\ price' = price /\ from' = from
      BY <2>7 DEF Closes, SameLength
    <3>2. QED  BY <1>0, <1>1, <1>2, <2>1, <3>1
  <2>8. QED  BY <1>4, <2>3, <2>4, <2>5, <2>6, <2>7 DEF Write
<1>5. QED  BY <1>3, <1>4

\* Every step leaves a temporary price in force its running action.
LEMMA LastsStep ==
  ASSUME Types, Types', LogGrows, ReadsHold, Restores, Lasts, Quiet \/ \E c \in Calls : Write(c)
  PROVE  Lasts'
<1> DEFINE OnNone(n) == \A i \in 1..n : log'[i].kind = "temporary" => log'[i].before = 0
<1> SUFFICES ASSUME ~mixed', ~revived'
             PROVE  (from' # 0 => log'[from'].status = "active") /\ OnNone(Len(log'))
  BY DEF Lasts, Active
<1>0. /\ Len(log) \in Nat /\ from \in Nat /\ from <= Len(log)
      /\ \A j \in 1..Len(log) : log'[j].kind = log[j].kind /\ log'[j].before = log[j].before
  BY DEF Types, TypeOK, LogGrows
<1>1. ~mixed /\ ~revived =>
        /\ OnNone(Len(log))
        /\ from # 0 => log[from].status = "active" /\ from \in 1..Len(log)
  BY <1>0 DEF Lasts, Active
<1> HIDE DEF OnNone
<1>2. CASE Quiet
  BY <1>0, <1>1, <1>2 DEF Quiet, SameLength, StatusKept
<1>3. ASSUME NEW c \in Calls, Write(c)
      PROVE  (from' # 0 => log'[from'].status = "active") /\ OnNone(Len(log'))
  <2>1. /\ ~mixed /\ ~revived
        /\ call[c].pc # "log" => call[c].seen = price
    BY <1>3, Alone DEF Write, Writes
  <2>2. ASSUME NEW kind, NEW prev, NEW new, Added(kind, prev, new),
               kind = "temporary" => log'[Len(log) + 1].before = 0
        PROVE  OnNone(Len(log'))
    BY <1>0, <1>1, <2>1, <2>2 DEF OnNone, Added
  <2>3. CASE Sets(c)
    <3>1. CASE Added("change", call[c].seen, call[c].new) /\ from' = 0
      BY <2>2, <3>1
    <3>2. CASE /\ Added("temporary", call[c].seen, call[c].new) /\ from' = Len(log) + 1
               /\ log'[Len(log) + 1].status = "active" /\ \A j \in 1..Len(log) : ~Active(j)
      <4>1. from = 0  BY <1>1, <2>1, <3>2 DEF Active
      <4>2. log'[Len(log) + 1].before = 0  BY <2>3, <4>1 DEF Sets
      <4>3. QED  BY <2>2, <3>2, <4>2
    <3>3. QED  BY <2>3, <3>1, <3>2 DEF Sets
  <2>4. CASE Edits(c)
    BY <1>1, <2>1, <2>4 DEF Edits, SameLength, StatusKept
  <2>5. CASE Logs(c)
    <3>1. OnNone(Len(log'))  BY <2>2, <2>5 DEF Logs
    <3>2. QED  BY <1>1, <2>1, <2>5, <3>1 DEF Logs, StatusKept
  <2>6. ASSUME NEW i \in Nat, Backs(c, i)
        PROVE  (from' # 0 => log'[from'].status = "active") /\ OnNone(Len(log'))
    <3>1. OnNone(Len(log'))  BY <2>2, <2>6 DEF Backs
    <3>2. i \in 1..Len(log) /\ from' = log[i].before /\ log[i].before \in Nat /\ log[i].before < i
      <4>1. i \in 1..Len(log) /\ from' = log[i].before  BY <2>6 DEF Backs
      <4>2. QED  BY <4>1, EventParts
    <3>3. CASE log[i].before = 0
      BY <3>1, <3>2, <3>3
    <3>4. CASE log[i].before # 0
      <4>1. log[i].kind # "temporary"  BY <1>0, <1>1, <2>1, <3>2, <3>4 DEF OnNone
      <4>2. Active(log[i].before)  BY <2>6, <3>4, <4>1 DEF Backs
      <4>3. log'[log[i].before].status = log[log[i].before].status
        BY <1>0, <2>6, <3>2, <3>4 DEF Backs, StatusKept
      <4>4. QED  BY <3>1, <3>2, <4>2, <4>3 DEF Active
    <3>5. QED  BY <3>3, <3>4
  <2>7. ASSUME NEW i \in Nat, Closes(c, i)
        PROVE  (from' # 0 => log'[from'].status = "active") /\ OnNone(Len(log'))
    <3>1. /\ Len(log') = Len(log) /\ from' = from /\ call[c].pc = "expire"
          /\ call[c].seen # log[i].new
          /\ \A j \in 1..Len(log) : j # i => log'[j].status = log[j].status
      BY <2>7 DEF Closes, SameLength, StatusKept
    <3>2. from # 0 => from # i  BY <2>1, <3>1 DEF Restores
    <3>3. QED  BY <1>0, <1>1, <2>1, <3>1, <3>2
  <2>8. QED  BY <1>3, <2>3, <2>4, <2>5, <2>6, <2>7 DEF Write
<1>4. QED  BY <1>2, <1>3

\* The invariant is inductive.
LEMMA Invariance == IInv /\ [Next]_vars => IInv'
<1> SUFFICES ASSUME IInv, [Next]_vars PROVE IInv'  OBVIOUS
<1>1. Types' /\ LogGrows  BY TypesStep DEF IInv
<1>2. Quiet \/ \E c \in Calls : Write(c)  BY <1>1, Effects DEF IInv
<1>3. ReadsHold'  BY <1>1, <1>2, ReadsStep DEF IInv
<1>4. Linked'  BY <1>1, <1>2, LinkedStep DEF IInv
<1>5. Restores'  BY <1>1, <1>2, RestoresStep DEF IInv
<1>6. Lasts'  BY <1>1, <1>2, LastsStep DEF IInv
<1>7. QED  BY <1>1, <1>3, <1>4, <1>5, <1>6 DEF IInv

\* It holds in every reachable state.
LEMMA Always == Spec => []IInv
BY Initially, Invariance, PTL DEF Spec

-----------------------------------------------------------------------------
\* The types of the log, its actions and the handlers.
THEOREM TypesHold == Spec => []TypeOK
<1>1. IInv => TypeOK  BY DEF IInv, Types
<1>2. QED  BY <1>1, Always, PTL

\* A chain that ends at the price in force tells it.
LEMMA ChainTells == IInv => PriceFollowsLog
<1>1. IInv => Len(log) \in Nat /\ (log # <<>> => Len(log) > 0)
  BY DEF IInv, Types, TypeOK
<1>2. ~Logging => ~Broken  BY DEF Logging, Broken
<1>3. QED  BY <1>1, <1>2 DEF IInv, Linked, Chain, PriceFollowsLog

\* However many handlers change, edit and take back the price, as long as none writes
\* from an outdated reading the log is a chain that ends at the price in force.
THEOREM LogTellsThePrice == Spec => []PriceFollowsLog
BY ChainTells, Always, PTL

\* A temporary price in force has an action that still runs, as long as no handler
\* writes from an outdated reading and no rollback brings an ended one back.
THEOREM TemporaryPricesHaveAnEnd == Spec => []TemporaryPriceEnds
<1>1. IInv => TemporaryPriceEnds  BY DEF IInv, Lasts, TemporaryPriceEnds
<1>2. QED  BY <1>1, Always, PTL

\* No step ends an action that is over, but from an outdated reading.
LEMMA EndedStep == IInv /\ [Next]_vars => StaysEnded
<1> SUFFICES ASSUME IInv, [Next]_vars, NEW i \in DOMAIN log, ~mixed',
                    log[i].status \in {"expired", "reverted"}
             PROVE  log'[i].status = log[i].status
  BY DEF StaysEnded
<1>1. Types' /\ LogGrows  BY TypesStep DEF IInv
<1>2. Quiet \/ \E c \in Calls : Write(c)  BY <1>1, Effects DEF IInv
<1>3. i \in 1..Len(log)  BY DEF IInv, Types, TypeOK
<1>4. CASE Quiet  BY <1>3, <1>4 DEF Quiet, StatusKept
<1>5. ASSUME NEW c \in Calls, Write(c) PROVE log'[i].status = log[i].status
  <2>1. call[c].pc = "expire" => call[c].on # i
    BY <1>1, <1>5, Alone DEF IInv, Write, Active
  <2>2. CASE Sets(c) \/ Edits(c) \/ Logs(c)
    BY <1>3, <2>2 DEF Sets, Edits, Logs, StatusKept
  <2>3. ASSUME NEW j \in Nat, Backs(c, j) PROVE log'[i].status = log[i].status
    BY <1>3, <2>1, <2>3 DEF Backs, StatusKept, Active
  <2>4. ASSUME NEW j \in Nat, Closes(c, j) PROVE log'[i].status = log[i].status
    BY <1>3, <2>1, <2>4 DEF Closes, StatusKept
  <2>5. QED  BY <1>5, <2>2, <2>3, <2>4 DEF Write
<1>6. QED  BY <1>2, <1>4, <1>5

\* An action that is over is not ended a second time in another way, as long as no
\* handler writes from an outdated reading.
THEOREM ActionsEndOnce == Spec => EndsOnce
<1>1. IInv /\ [Next]_vars => [StaysEnded]_vars  BY EndedStep
<1>2. QED  BY <1>1, Always, PTL DEF Spec, EndsOnce
=============================================================================
