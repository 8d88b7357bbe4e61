---------------------------- MODULE DailyClosing ----------------------------
(***************************************************************************)
(* The official closing of each business day: a job that a timer starts at *)
(* midnight, a backfill when the server starts, and closings by hand.  All *)
(* read the sales of a day, by the time at which they began, and store the *)
(* result later; only the job is kept from running twice.                  *)
(* Source: backend/src/jobs/dailyClosingJob.js,                            *)
(*         backend/src/services/dailyClosingService.js.                    *)
(***************************************************************************)
EXTENDS Integers, Sequences, FiniteSets

CONSTANTS Calls,
          Window,     \* the days that are closed again, 7 in the code
          MaxDay,     \* bound: the last day
          MaxSales,   \* bound: sales of a day
          MaxEvents,  \* bound: closings by hand, early timers and restarts
          MaxFails    \* bound: errors

-----------------------------------------------------------------------------
Days == 1..MaxDay
NoTotal == -1

\* One that closes days: the days it has yet to close, in order, the sales of the
\* first that it read, its closing at that time, and the sales stored when it began.
Call == [pc : {"idle", "previous", "recent", "read", "save", "schedule"},
         kind : {"job", "backfill", "timer", "hand"}, recent : BOOLEAN,
         days : Seq(Days), seen : Nat, before : Nat \cup {NoTotal}, floor : [Days -> Nat]]
Idle == [pc |-> "idle", kind |-> "timer", recent |-> FALSE, days |-> <<>>, seen |-> 0,
         before |-> NoTotal, floor |-> [d \in Days |-> 0]]

VARIABLES
  today,
  open, sold,  \* day -> sales under way, sales stored
  closing,     \* day -> the sales in daily_store_closings, NoTotal without a row
  due,         \* the day for which the timer is set, 0 if it is not
  running,     \* the job's flag
  call,
  events, fails,  \* bounds
  raced,       \* history: days closed from a reading older than another closing
  looked,      \* history: the day it was when the last run since the start looked
  mishap,      \* history: the day of the last error, or timer that skips a day
  lost         \* history: setting the timer failed, and no restart since

vars == <<today, open, sold, closing, due, running, call, events, fails,
          raced, looked, mishap, lost>>
ghosts == <<raced, looked, mishap, lost>>

\* startDailyClosingJob: a backfill and the timer, at once.
Started(c, d) ==
  [x \in Calls |-> CASE x = c -> [Idle EXCEPT !.pc = "recent", !.kind = "backfill", !.floor = sold]
                     [] x = d -> [Idle EXCEPT !.pc = "schedule"]
                     [] OTHER -> Idle]

Init ==
  /\ today = 1 /\ open = [d \in Days |-> 0] /\ sold = open
  /\ closing = [d \in Days |-> NoTotal]
  /\ due = 0 /\ running = FALSE
  /\ \E c, d \in Calls : c # d /\ call = Started(c, d)
  /\ events = 0 /\ fails = 0
  /\ raced = {} /\ looked = 0 /\ mishap = 0 /\ lost = FALSE

-----------------------------------------------------------------------------
\* A sale has the time at which it began and is stored later, if at all (PosStock).
BeginSale ==
  /\ open[today] + sold[today] < MaxSales
  /\ open' = [open EXCEPT ![today] = @ + 1]
  /\ UNCHANGED <<today, sold, closing, due, running, call, events, fails, ghosts>>
StoreSale(d) ==
  /\ open[d] > 0
  /\ open' = [open EXCEPT ![d] = @ - 1]
  /\ sold' = [sold EXCEPT ![d] = @ + 1]
  /\ UNCHANGED <<today, closing, due, running, call, events, fails, ghosts>>
Midnight ==
  /\ today < MaxDay
  /\ today' = today + 1
  /\ UNCHANGED <<open, sold, closing, due, running, call, events, fails, ghosts>>

Event == events < MaxEvents /\ events' = events + 1
Begin(c, k) == call[c].pc = "idle" /\ call' = [call EXCEPT ![c] = [k EXCEPT !.floor = sold]]

\* runDailyClosingJob; while a run goes on another is refused and sets no timer.
RunJob(c) ==
  /\ due' = 0
  /\ \/ running /\ UNCHANGED <<running, call>>
     \/ /\ ~running /\ running' = TRUE
        /\ Begin(c, [Idle EXCEPT !.pc = "previous", !.kind = "job"])
  /\ UNCHANGED <<today, open, sold, closing, fails, ghosts>>
TimerFires(c) == due # 0 /\ today >= due /\ RunJob(c) /\ UNCHANGED events
\* A little early, as the clock is set right, or an hour on a day of 25.
TimerEarly(c) == today = due - 1 /\ Event /\ RunJob(c)

\* runDayEnd of the report controller: a given day, today too, or the previous one.
CloseByHand(c, d) ==
  /\ d <= today /\ Event
  /\ Begin(c, [Idle EXCEPT !.pc = "read", !.kind = "hand", !.days = <<d>>])
  /\ UNCHANGED <<today, open, sold, closing, due, running, fails, ghosts>>

-----------------------------------------------------------------------------
\* What follows when the days are closed. The flag falls before the timer is set.
Onward(k) ==
  IF k.days # <<>> THEN [k EXCEPT !.pc = "read"]
  ELSE IF k.kind # "job" THEN Idle
  ELSE IF k.recent THEN [Idle EXCEPT !.pc = "schedule"]
  ELSE [k EXCEPT !.pc = "recent"]
FlagAfter(k) == running /\ ~(k.kind = "job" /\ Onward(k).pc = "schedule")
Continue(c, k) == call' = [call EXCEPT ![c] = Onward(k)] /\ running' = FlagAfter(k)

\* closePreviousBusinessDate
LookPrevious(c) ==
  /\ call[c].pc = "previous"
  /\ Continue(c, [call[c] EXCEPT !.days = IF today = 1 THEN <<>> ELSE <<today - 1>>])
  /\ UNCHANGED <<today, open, sold, closing, due, events, fails, ghosts>>
\* ensureRecentClosings, oldest day first; days before the first are of no interest.
Recent(t) == LET n == IF t - 1 < Window THEN t - 1 ELSE Window IN [i \in 1..n |-> t - n + i - 1]
LookRecent(c) ==
  /\ call[c].pc = "recent"
  /\ Continue(c, [call[c] EXCEPT !.days = Recent(today), !.recent = TRUE])
  /\ looked' = today
  /\ UNCHANGED <<today, open, sold, closing, due, events, fails, raced, mishap, lost>>

\* closeBusinessDate: reads the sales of the day, ...
ReadSales(c) ==
  /\ call[c].pc = "read"
  /\ LET d == Head(call[c].days) IN
     call' = [call EXCEPT ![c].pc = "save", ![c].seen = sold[d], ![c].before = closing[d]]
  /\ UNCHANGED <<today, open, sold, closing, due, running, events, fails, ghosts>>
\* ... and writes the one row of the day.
StoredOnce(old, seen) == IF old = NoTotal THEN seen ELSE old
Stored(old, seen) == seen
SaveClosing(c) ==
  LET k == call[c]
      d == Head(k.days)
  IN
  /\ k.pc = "save"
  /\ closing' = [closing EXCEPT ![d] = Stored(@, k.seen)]
  /\ raced' = raced \cup {x \in {d} : closing[x] # k.before}
  /\ Continue(c, [k EXCEPT !.days = Tail(@)])
  /\ UNCHANGED <<today, open, sold, due, events, fails, looked, mishap, lost>>

\* scheduleNextRun: the next midnight as seen from now. If midnight passed since the
\* last look, the day that ended waits for a day, unless the backfill has yet to look.
NextMidnightOf(t) == t + 2
NextMidnight(t) == t + 1
Schedule(c) ==
  /\ call[c].pc = "schedule"
  /\ due' = NextMidnight(today)
  /\ call' = [call EXCEPT ![c] = Idle]
  /\ mishap' = IF looked = today \/ \E b \in Calls : call[b].pc = "recent" THEN mishap
               ELSE today
  /\ UNCHANGED <<today, open, sold, closing, running, events, fails, raced, looked, lost>>

\* An error: the job still sets its timer, all others end.
AfterErrorIdle(k) == Idle
AfterError(k) == IF k.kind = "job" THEN [Idle EXCEPT !.pc = "schedule"] ELSE Idle
Fail(c) ==
  LET k == call[c] IN
  /\ k.pc # "idle" /\ fails < MaxFails
  /\ fails' = fails + 1
  /\ call' = [call EXCEPT ![c] = AfterError(k)]
  /\ running' = (running /\ k.kind # "job")
  /\ mishap' = today
  /\ lost' = (lost \/ k.pc = "schedule")
  /\ looked' = IF k.kind = "job" THEN today ELSE looked
  /\ UNCHANGED <<today, open, sold, closing, due, events, raced>>

\* The server restarts; sales and closings under way are gone.
Restart ==
  /\ Event
  /\ \E c, d \in Calls : c # d /\ call' = Started(c, d)
  /\ open' = [d \in Days |-> 0]
  /\ due' = 0 /\ running' = FALSE /\ looked' = 0 /\ lost' = FALSE
  /\ UNCHANGED <<today, sold, closing, fails, raced, mishap>>

Handle(c) == LookPrevious(c) \/ LookRecent(c) \/ ReadSales(c) \/ SaveClosing(c) \/ Schedule(c)
Fires == \E c \in Calls : TimerFires(c)

Next ==
  \/ BeginSale \/ (\E d \in Days : StoreSale(d)) \/ Midnight \/ Fires \/ Restart
  \/ \E c \in Calls :
       \/ TimerEarly(c) \/ Handle(c) \/ Fail(c)
       \/ \E d \in Days : CloseByHand(c, d)

Spec == Init /\ [][Next]_vars

\* Timers fire and handlers get their answers; days need not pass.
FairSpec == Spec /\ WF_vars(Fires) /\ \A c \in Calls : WF_vars(Handle(c))

-----------------------------------------------------------------------------
\* The types of the days, the sales, the closings and those that close.
TypeOK ==
  /\ today \in Days /\ open \in [Days -> Nat] /\ sold \in [Days -> Nat]
  /\ closing \in [Days -> Nat \cup {NoTotal}] /\ due \in 0..MaxDay + 1 /\ running \in BOOLEAN
  /\ call \in [Calls -> Call] /\ events \in Nat /\ fails \in Nat
  /\ raced \subseteq Days /\ looked \in 0..MaxDay /\ mishap \in Nat /\ lost \in BOOLEAN

\* A later closing of a day never counts fewer sales than an earlier one, and a run
\* leaves no sale out that was stored when it began, late sales of earlier days
\* among them; unless two closings of the day met.
Ends(c) ==
  /\ call[c].pc = "save" /\ call[c].recent /\ Len(call[c].days) = 1
  /\ call'[c].pc \in {"idle", "schedule"} /\ fails' = fails /\ events' = events
OrderlyStep ==
  \A d \in Days \ raced' :
    /\ closing[d] # NoTotal => closing'[d] >= closing[d]
    /\ \A c \in Calls : Ends(c) /\ d < Head(call[c].days) + 1 /\ d > Head(call[c].days) - Window
         => closing'[d] >= call[c].floor[d]
ClosingsOrderly == [][OrderlyStep]_vars

Closed(d) == closing[d] # NoTotal
\* Every day is closed once it is over, if the server is there within the window:
\* over restarts, early timers and errors, which delay it to the next day at most
\* unless the timer could not be set.
Overdue(d) == d < today /\ d >= today - Window
Missing(d) == Overdue(d) /\ ~Closed(d) /\ mishap < today /\ ~lost
EveryDayCloses == \A d \in Days : Missing(d) ~> ~Missing(d)
=============================================================================
