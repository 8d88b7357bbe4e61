--------------------------- MODULE TemporaryPrices ---------------------------
(***************************************************************************)
(* The sale price of a product, the log of its price events and temporary  *)
(* prices, which a job takes back when their time is over.  Every handler  *)
(* reads price, log and actions first and writes in a transaction that     *)
(* does not read them again.  Products are independent: one is modelled.   *)
(* Source: backend/src/services/analysis/pricingAnalysisService.js,        *)
(*         backend/src/services/productService.js (update),                *)
(*         backend/src/jobs/temporaryPriceActionJob.js.                    *)
(***************************************************************************)
EXTENDS Integers, Sequences, FiniteSets

CONSTANTS Calls,    \* handlers at a time, the job's scan among them
          Prices,
          MaxLog,   \* bound: events in the log when a request of the staff starts
          MaxFails  \* bound: failing handlers

-----------------------------------------------------------------------------
\* A price event; one of kind "temporary" carries its action: status, end of time.
\* "before" is history: the temporary price that was in force before (0: none).
Event == [kind : {"change", "edit", "temporary", "revert", "rollback"},
          prev : Prices, new : Prices, back : BOOLEAN,
          status : {"none", "active", "expired", "reverted"}, over : BOOLEAN,
          before : Nat]
NewEvent(kind, prev, new, before) ==
  [kind |-> kind, prev |-> prev, new |-> new, back |-> FALSE,
   status |-> IF kind = "temporary" THEN "active" ELSE "none", over |-> FALSE,
   before |-> before]

\* A handler: the price it read, the price it is going to set or the event it works on,
\* and whether another one wrote since it read.
Call == [pc : {"idle", "change", "edit", "log", "apply", "expire", "rollback"},
         seen : Prices, new : Prices, on : Nat, old : BOOLEAN]

VARIABLES
  price, log, call,
  running,  \* the job's flag
  fails,    \* bound: failing handlers
  from,     \* history: the temporary price in force, as its event (0: none)
  mixed,    \* history: written from an outdated reading or an edit not logged
  revived   \* history: a rollback restored a temporary price after its end

vars == <<price, log, call, running, fails, from, mixed, revived>>

Idle == [pc |-> "idle", seen |-> CHOOSE p \in Prices : TRUE,
         new |-> CHOOSE p \in Prices : TRUE, on |-> 0, old |-> FALSE]

Init ==
  /\ price \in Prices /\ log = <<>> /\ call = [c \in Calls |-> Idle]
  /\ running = FALSE /\ fails = 0
  /\ from = 0 /\ mixed = FALSE /\ revived = FALSE

Begin(c, pc, new, on) ==
  /\ call[c].pc = "idle" /\ Len(log) < MaxLog
  /\ call' = [call EXCEPT ![c] = [Idle EXCEPT !.pc = pc, !.seen = price, !.new = new, !.on = on]]
\* c writes and goes on as k; the readings of the others are outdated.
Wrote(c, k) ==
  /\ call' = [d \in Calls |-> IF d = c THEN k
                              ELSE IF call[d].pc = "idle" THEN call[d]
                              ELSE [call[d] EXCEPT !.old = TRUE]]
  /\ mixed' = (mixed \/ call[c].old)

-----------------------------------------------------------------------------
\* applyBulkPriceUpdatePostgres and approveSellPriceRecommendation
ReadChange(c, p) ==
  /\ Begin(c, "change", p, 0)
  /\ UNCHANGED <<price, log, running, fails, from, mixed, revived>>
WriteChange(c) ==
  /\ call[c].pc = "change"
  /\ price' = call[c].new
  /\ log' = Append(log, NewEvent("change", call[c].seen, call[c].new, from))
  /\ from' = 0
  /\ Wrote(c, Idle)
  /\ UNCHANGED <<running, fails, revived>>

\* productService.update: the whole product row, the event in a write of its own.
ReadEdit(c, p) ==
  /\ Begin(c, "edit", p, 0)
  /\ UNCHANGED <<price, log, running, fails, from, mixed, revived>>
WriteEdit(c) ==
  LET k == call[c] IN
  /\ k.pc = "edit"
  /\ price' = k.new
  /\ from' = IF k.new = price THEN from ELSE 0
  /\ Wrote(c, IF k.new = k.seen THEN Idle ELSE [k EXCEPT !.pc = "log", !.on = from])
  /\ UNCHANGED <<log, running, fails, revived>>
LogEdit(c) ==
  LET k == call[c] IN
  /\ k.pc = "log"
  /\ log' = Append(log, NewEvent("edit", k.seen, k.new, k.on))
  /\ Wrote(c, Idle)
  /\ UNCHANGED <<price, running, fails, from, revived>>

-----------------------------------------------------------------------------
Active(i) == log[i].status = "active"

\* applyTemporaryPriceActionPostgres: the transaction looks for an active action,
\* an index keeps there being one.
ReadApply(c, p) ==
  /\ p # price
  /\ Begin(c, "apply", p, 0)
  /\ UNCHANGED <<price, log, running, fails, from, mixed, revived>>
WriteApply(c) ==
  LET k == call[c] IN
  /\ k.pc = "apply"
  /\ \A i \in DOMAIN log : ~Active(i)
  /\ price' = k.new
  /\ log' = Append(log, NewEvent("temporary", k.seen, k.new, from))
  /\ from' = Len(log) + 1
  /\ Wrote(c, Idle)
  /\ UNCHANGED <<running, fails, revived>>
RefuseApply(c) ==
  /\ call[c].pc = "apply" /\ \E i \in DOMAIN log : Active(i)
  /\ call' = [call EXCEPT ![c] = Idle]
  /\ UNCHANGED <<price, log, running, fails, from, mixed, revived>>

\* endAt of an action is reached.
TimePasses(i) ==
  /\ Active(i) /\ ~log[i].over
  /\ log' = [log EXCEPT ![i].over = TRUE]
  /\ UNCHANGED <<price, call, running, fails, from, mixed, revived>>

\* runTemporaryPriceActionTick and expireTemporaryPriceActionsPostgres
Due(i) == Active(i) /\ log[i].over
ReadExpire(c) ==
  /\ ~running
  /\ \E i \in DOMAIN log :
       /\ Due(i)
       /\ call[c].pc = "idle"
       /\ call' = [call EXCEPT ![c] = [Idle EXCEPT !.pc = "expire", !.seen = price, !.on = i]]
  /\ running' = TRUE
  /\ UNCHANGED <<price, log, fails, from, mixed, revived>>

StillAppliedToOld(i, seen) == seen = log[i].prev
StillApplied(i, seen) == seen = log[i].new
WriteExpire(c) ==
  LET i == call[c].on
      ended == [log EXCEPT ![i].status = "expired"]
  IN
  /\ call[c].pc = "expire"
  /\ IF StillApplied(i, call[c].seen)
     THEN /\ price' = log[i].prev
          /\ log' = Append(ended, NewEvent("revert", log[i].new, log[i].prev, from))
          /\ from' = log[i].before
     ELSE log' = ended /\ UNCHANGED <<price, from>>
  /\ running' = FALSE
  /\ Wrote(c, Idle)
  /\ UNCHANGED <<fails, revived>>

-----------------------------------------------------------------------------
\* rollbackPriceActionPostgres of a change or a temporary price. With another price
\* in force it only marks the attempt, which may be repeated.
ReadRollback(c, i) ==
  /\ log[i].kind \in {"change", "temporary"} /\ ~log[i].back
  /\ Begin(c, "rollback", price, i)
  /\ UNCHANGED <<price, log, running, fails, from, mixed, revived>>

RollbackEventSwapped(i) == NewEvent("rollback", log[i].prev, log[i].new, from)
RollbackEvent(i) == NewEvent("rollback", log[i].new, log[i].prev, from)
AfterRollbackAlways(status) == IF status = "none" THEN status ELSE "reverted"
AfterRollback(status) == IF status = "active" THEN "reverted" ELSE status
WriteRollback(c) ==
  LET i == call[c].on
      undone == [log EXCEPT ![i].back = TRUE, ![i].status = AfterRollback(@)]
      earlier == log[i].before
  IN
  /\ call[c].pc = "rollback"
  /\ IF StillApplied(i, call[c].seen)
     THEN /\ price' = log[i].prev
          /\ log' = Append(undone, RollbackEvent(i))
          /\ from' = earlier
          /\ revived' = (revived \/ (earlier # 0 /\ log[earlier].status # "active"))
          /\ Wrote(c, Idle)
     ELSE /\ call' = [call EXCEPT ![c] = Idle]
          /\ UNCHANGED <<price, log, from, mixed, revived>>
  /\ UNCHANGED <<running, fails>>

\* An error, or a restart seen by one handler. A transaction leaves nothing behind,
\* an edit leaves its price without an event; the job lowers its flag.
FlagAfterKept(flag, pc) == flag
FlagAfter(flag, pc) == IF pc = "expire" THEN FALSE ELSE flag
Fail(c) ==
  /\ call[c].pc # "idle" /\ fails < MaxFails
  /\ fails' = fails + 1
  /\ call' = [call EXCEPT ![c] = Idle]
  /\ running' = FlagAfter(running, call[c].pc)
  /\ mixed' = (mixed \/ call[c].pc = "log")
  /\ UNCHANGED <<price, log, from, revived>>

Finish(c) ==
  \/ WriteChange(c) \/ WriteEdit(c) \/ LogEdit(c) \/ WriteApply(c) \/ RefuseApply(c)
  \/ WriteExpire(c) \/ WriteRollback(c)
Next ==
  \/ \E c \in Calls :
       \/ \E p \in Prices : ReadChange(c, p) \/ ReadEdit(c, p) \/ ReadApply(c, p)
       \/ \E i \in DOMAIN log : ReadRollback(c, i)
       \/ ReadExpire(c) \/ Finish(c) \/ Fail(c)
  \/ \E i \in DOMAIN log : TimePasses(i)

Spec == Init /\ [][Next]_vars
\* Handlers run on; the timer starts the job again and again, whatever the requests
\* do (strong fairness: in the model they compete for the same Calls).
FairSpec ==
  Spec /\ SF_vars(\E c \in Calls : ReadExpire(c)) /\ \A c \in Calls : WF_vars(Finish(c))

-----------------------------------------------------------------------------
\* The types of the log, its actions and the handlers.
TypeOK ==
  /\ price \in Prices /\ log \in Seq(Event) /\ call \in [Calls -> Call]
  /\ running \in BOOLEAN /\ fails \in Nat /\ from \in Nat
  /\ mixed \in BOOLEAN /\ revived \in BOOLEAN

Logging == \E c \in Calls : call[c].pc = "log"
\* The log tells the price: each event starts where the last one ended, and the last
\* one tells the price in force, as long as no two handlers overlapped.
PriceFollowsLog ==
  ~mixed /\ ~Logging =>
    /\ log # <<>> => price = log[Len(log)].new
    /\ \A i \in 1..Len(log) - 1 : log[i + 1].prev = log[i].new

\* A temporary price in force has an action that still runs and will take it back,
\* unless handlers overlapped or a rollback of a later change brought it back.
TemporaryPriceEnds ==
  ~mixed /\ ~revived => (from # 0 => Active(from))

\* An action that has ended is not ended again some other way, unless handlers
\* overlapped: the job, a rollback and repeated rollbacks meet on it.
StaysEnded ==
  \A i \in DOMAIN log :
    ~mixed' /\ log[i].status \in {"expired", "reverted"} => log'[i].status = log[i].status
EndsOnce == [][StaysEnded]_vars

Overdue(i) == i \in DOMAIN log /\ Due(i)
\* The job takes back or closes every temporary price whose time is over.
OverdueEnds == \A i \in 1..MaxLog + 1 : Overdue(i) ~> ~Overdue(i)
=============================================================================
