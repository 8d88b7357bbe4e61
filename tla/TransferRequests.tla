-------------------------- MODULE TransferRequests --------------------------
(***************************************************************************)
(* Requests to move a product from the depot to the shelf, each for one    *)
(* piece: created, decided, started, completed with the stock transfer and *)
(* archived, one by one or in bulk.  A handler reads the request rows and  *)
(* writes whole rows back later.  Stock transfers are single steps here;   *)
(* their own races are in PosStock and StockMovements.                     *)
(* Source: backend/src/services/sectionService.js.                        *)
(***************************************************************************)
EXTENDS Integers, FiniteSets

CONSTANTS Requests, Calls,
          None,       \* no request
          Depot,      \* the stock in the depot at first
          MaxCalls,   \* bound: handlers that start
          MaxStops    \* bound: handlers that an error or a restart ends

-----------------------------------------------------------------------------
\* Bekliyor, Onaylandi, Gerceklestiriliyor, Tamamlandi, Hatali Islem, Reddedildi,
\* Iptal Edildi, Arsiv.
Status == {"pending", "approved", "started", "completed", "failed", "rejected",
           "cancelled", "archived"}
\* A row: its status and whether it names a stock transfer.
Request == [status : Status \cup {"none"}, done : BOOLEAN]
NoRequest == [status |-> "none", done |-> FALSE]

\* canTransitionTransferStatus
AllowedWithRestart ==
  ({"pending"} \X {"approved", "rejected", "cancelled"})
    \cup ({"approved"} \X {"pending", "started", "rejected", "cancelled"})
    \cup ({"started", "completed"} \X {"approved", "completed", "failed", "cancelled"})
Allowed ==
  ({"pending"} \X {"approved", "rejected", "cancelled"})
    \cup ({"approved"} \X {"pending", "started", "rejected", "cancelled"})
    \cup ({"started"} \X {"approved", "completed", "failed", "cancelled"})
    \cup {<<"completed", "archived">>}
AnyTransition(from, to) == from # to
CanTransition(from, to) == <<from, to>> \in Allowed

\* A handler: the status it sets, the rows it read, the requests it has yet to
\* serve and the one it is serving.
Call == [pc : {"idle", "item", "move", "put"}, bulk : BOOLEAN, target : Status,
         seen : [Requests -> Request], todo : SUBSET Requests, at : Requests \cup {None}]
Idle == [pc |-> "idle", bulk |-> FALSE, target |-> "pending",
         seen |-> [r \in Requests |-> NoRequest], todo |-> {}, at |-> None]

VARIABLES
  request,       \* the table
  depot, shelf,  \* the stock of the product
  call,          \* the handlers that are running
  served, stops, \* bounds
  moved,         \* history: the transfers made for a request
  raced,         \* history: requests written or moved from a reading that no longer held
  torn           \* history: requests whose handler stopped after the transfer

vars == <<request, depot, shelf, call, served, stops, moved, raced, torn>>

Init ==
  /\ request = [r \in Requests |-> NoRequest]
  /\ depot = Depot /\ shelf = 0
  /\ call = [c \in Calls |-> Idle]
  /\ served = 0 /\ stops = 0
  /\ moved = [r \in Requests |-> 0] /\ raced = {} /\ torn = {}

-----------------------------------------------------------------------------
At(c, pc) == call[c].pc = pc
Accept(c, k) ==
  /\ served < MaxCalls
  /\ served' = served + 1
  /\ call' = [call EXCEPT ![c] = k]
  /\ UNCHANGED <<request, depot, shelf, stops, moved, raced, torn>>

\* createTransferRequest: no more than the depot holds, whatever else is open.
CreateTransferRequest(r) ==
  /\ request[r].status = "none" /\ depot >= 1
  /\ request' = [request EXCEPT ![r].status = "pending"]
  /\ UNCHANGED <<depot, shelf, call, served, stops, moved, raced, torn>>

AfterCheckPut(target) == "put"
AfterCheck(target) == IF target = "completed" THEN "move" ELSE "put"

\* updateTransferRequestStatus: read, check the transition.
UpdateStatus(c, r, target) ==
  /\ At(c, "idle") /\ CanTransition(request[r].status, target)
  /\ Accept(c, [Idle EXCEPT !.pc = AfterCheck(target), !.target = target, !.at = r,
                            !.seen = request])

\* bulkUpdateTransferRequests reads all requests once. Rows that may not change
\* are dropped, except for completion, where each is looked at when its turn comes.
BulkUpdate(c, rs, target) ==
  LET todo == {r \in rs : target = "completed" \/ CanTransition(request[r].status, target)} IN
  /\ At(c, "idle") /\ todo # {} /\ \A r \in rs : request[r].status # "none"
  /\ Accept(c, [Idle EXCEPT !.pc = "item", !.bulk = TRUE, !.target = target,
                            !.seen = request, !.todo = todo])

\* After a request: the next one of the bulk.
Onward(k) ==
  LET rest == k.todo \ {k.at} IN
  IF k.bulk /\ rest # {} THEN [k EXCEPT !.pc = "item", !.todo = rest, !.at = None] ELSE Idle
Overwrites(c, r) == request[r] # call[c].seen[r]

\* What completion does with the status it read: approved rows are started first.
BulkItem(c, r) ==
  LET k == call[c]
      started == [k.seen[r] EXCEPT !.status = "started"]
      turn == [k EXCEPT !.at = r]
  IN
  /\ At(c, "item") /\ r \in k.todo
  /\ \/ /\ k.target # "completed"
        /\ call' = [call EXCEPT ![c] = [turn EXCEPT !.pc = "put"]]
        /\ UNCHANGED <<request, raced>>
     \/ /\ k.target = "completed" /\ k.seen[r].status = "approved"
        /\ request' = [request EXCEPT ![r] = started]
        /\ raced' = raced \cup {x \in {r} : Overwrites(c, r)}
        /\ call' = [call EXCEPT ![c] = [turn EXCEPT !.pc = "move", !.seen[r] = started]]
     \/ /\ k.target = "completed" /\ k.seen[r].status # "approved"
        /\ \/ /\ CanTransition(k.seen[r].status, "completed")
              /\ call' = [call EXCEPT ![c] = [turn EXCEPT !.pc = "move"]]
           \/ /\ ~CanTransition(k.seen[r].status, "completed")
              /\ call' = [call EXCEPT ![c] = Onward(turn)]
        /\ UNCHANGED <<request, raced>>
  /\ UNCHANGED <<depot, shelf, served, stops, moved, torn>>

\* Handlers that have moved the stock and not yet written the row.
Completing(r) == {c \in Calls : At(c, "put") /\ call[c].at = r /\ call[c].target = "completed"}

EnoughAlways(d) == TRUE
Enough(d) == d >= 1

\* transferStock: one piece, refused if the depot has none.
TransferStock(c) ==
  LET k == call[c] IN
  /\ At(c, "move")
  /\ \/ /\ Enough(depot)
        /\ depot' = depot - 1 /\ shelf' = shelf + 1
        /\ moved' = [moved EXCEPT ![k.at] = @ + 1]
        /\ raced' = raced \cup {x \in {k.at} : Overwrites(c, x) \/ Completing(x) # {}}
        /\ call' = [call EXCEPT ![c].pc = "put"]
     \/ /\ ~Enough(depot)
        /\ call' = [call EXCEPT ![c] = Onward(k)]
        /\ UNCHANGED <<depot, shelf, moved, raced>>
  /\ UNCHANGED <<request, served, stops, torn>>

\* The whole row that was read, with the new status.
PutRequest(c) ==
  LET k == call[c] IN
  /\ At(c, "put")
  /\ request' = [request EXCEPT ![k.at] =
       [status |-> k.target, done |-> k.target = "completed" \/ k.seen[k.at].done]]
  /\ raced' = raced \cup {x \in {k.at} : Overwrites(c, k.at)}
  /\ call' = [call EXCEPT ![c] = Onward(k)]
  /\ UNCHANGED <<depot, shelf, served, stops, moved, torn>>

\* An error or a restart ends a handler between two steps.
Stop(c) ==
  LET k == call[c] IN
  /\ ~At(c, "idle") /\ stops < MaxStops
  /\ stops' = stops + 1
  /\ torn' = torn \cup {r \in {k.at} : At(c, "put") /\ k.target = "completed"}
  /\ call' = [call EXCEPT ![c] = Idle]
  /\ UNCHANGED <<request, depot, shelf, served, moved, raced>>

Next ==
  \/ \E r \in Requests : CreateTransferRequest(r)
  \/ \E c \in Calls :
       \/ \E r \in Requests, target \in Status : UpdateStatus(c, r, target)
       \/ \E rs \in SUBSET Requests, target \in Status : BulkUpdate(c, rs, target)
       \/ \E r \in Requests : BulkItem(c, r)
       \/ TransferStock(c) \/ PutRequest(c) \/ Stop(c)

Spec == Init /\ [][Next]_vars

-----------------------------------------------------------------------------
\* The types of the table, the stock, the handlers and the history.
TypeOK ==
  /\ request \in [Requests -> Request] /\ depot \in Nat /\ shelf \in Nat
  /\ call \in [Calls -> Call]
  /\ served \in Nat /\ stops \in Nat
  /\ moved \in [Requests -> Nat] /\ raced \subseteq Requests /\ torn \subseteq Requests

\* A request that is shown as completed has moved its stock, under any race and
\* any stop, although the transfer and the row are separate writes.
CompletedMeansMoved ==
  \A r \in Requests : request[r].status \in {"completed", "archived"} => moved[r] >= 1

\* The stock of a request moves once and the row says so, unless two handlers met
\* on the row or one stopped between transfer and row.
MovedOnceUnlessRaced ==
  \A r \in Requests \ (raced \cup torn) :
    \/ moved[r] = 0
    \/ moved[r] = 1 /\ (request[r].done \/ Completing(r) # {})

\* Rejected, cancelled, failed and archived requests stay so, completed ones are
\* only archived, except by a handler that read the row before.
StaysClosed ==
  \A r \in Requests \ raced' :
    /\ request[r].status \in {"rejected", "cancelled", "failed", "archived"} =>
         request'[r] = request[r]
    /\ request[r].status = "completed" => request'[r].status \in {"completed", "archived"}
ClosedStaysClosed == [][StaysClosed]_vars
=============================================================================
