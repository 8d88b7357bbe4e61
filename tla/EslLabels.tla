----------------------------- MODULE EslLabels -----------------------------
(***************************************************************************)
(* One electronic shelf label between two backends.  The production        *)
(* backend and the one in the store each keep a row for the device; staff  *)
(* assign products at either; the bridge agent copies the assignment of    *)
(* production to the store; the label polls the store, draws and confirms. *)
(* A handler reads the row and later writes the whole row back.            *)
(* Source: backend/src/services/eslService.js,                             *)
(*         backend/scripts/bridge/eslBridgeAgent.js,                       *)
(*         backend/ESL_firmware/esl_label_firmware/esl_label_firmware.ino. *)
(***************************************************************************)
EXTENDS Integers, Sequences, FiniteSets

CONSTANTS Products, Calls,
          None,        \* no product, no call
          NoHash,      \* no assignment hash
          LocalStaff,  \* whether products are assigned in the store, too
          MaxEvents,   \* bound: requests of the staff, price changes, other writers of
                       \* the row, lost answers and restarts
          MaxStale     \* bound: rows written from an old reading

-----------------------------------------------------------------------------
Sides == {"production", "store"}
\* An assignment hash stands for what is hashed: product (None clears the label),
\* time of the request, price. Times are numbers of requests; 0 is never.
Hash == [product : Products \cup {None}, asked : Nat, price : Nat]
\* A device row: assignedProductId, assignmentRequestedAt, pendingAssignmentHash,
\* bridgeAssignmentHash with its label, bridgeAssignmentSyncedAt, renderedAssignmentHash.
Row == [product : Products \cup {None}, asked : Nat, pending : Hash \cup {NoHash},
        synced : Hash \cup {NoHash}, syncedAt : Nat, rendered : Hash \cup {NoHash},
        deleted : BOOLEAN]
NewRow == [product |-> None, asked |-> 0, pending |-> NoHash, synced |-> NoHash,
           syncedAt |-> 0, rendered |-> NoHash, deleted |-> FALSE]

\* A handler: the row it is going to write, and whether another wrote since it read.
Call == [pc : {"idle", "write", "reread"}, side : Sides,
         kind : {"ask", "touch", "sync", "look", "poll", "confirm"},
         next : Row, want : Hash \cup {NoHash}, old : BOOLEAN]
Idle == [pc |-> "idle", side |-> "store", kind |-> "touch", next |-> NewRow,
         want |-> NoHash, old |-> FALSE]

\* The bridge: the state it read, the call it waits for, the hash it takes for done.
Bridge == [pc : {"idle", "send", "wait", "check"}, want : Hash \cup {NoHash},
           on : Calls \cup {None}, known : Hash \cup {NoHash}]
\* The label: the last answer it has drawn since start-up, and its picture.
Label == [pc : {"idle", "wait", "confirm"}, on : Calls \cup {None},
          last : Hash \cup {NoHash}, shown : Hash \cup {NoHash}]

VARIABLES
  row,      \* the device row of each backend
  price,    \* prices in production; the store's own catalogue keeps the old ones
  call, bridge, label,
  events,   \* bound: events so far
  asks,     \* history: the products asked for, in order
  drawn,    \* history: hashes the label has drawn
  stale,    \* history: rows written from an old reading, at each backend
  local     \* history: whether the store's own staff changed the assignment

vars == <<row, price, call, bridge, label, events, asks, drawn, stale, local>>

HashOf(r) == [product |-> r.product, asked |-> r.asked,
              price |-> IF r.product = None THEN 0 ELSE price[r.product]]
OldPrice(r) == [product |-> r.product, asked |-> r.asked, price |-> 0]
Asked(r, p, time, h) == [r EXCEPT !.product = p, !.asked = time, !.pending = h]

\* A product has been asked for once; the store does not know of it yet.
Init ==
  /\ price = [p \in Products |-> 0]
  /\ \E p \in Products :
       /\ asks = <<p>>
       /\ row = [s \in Sides |->
            IF s = "store" THEN NewRow
            ELSE Asked(NewRow, p, 1, [product |-> p, asked |-> 1, price |-> 0])]
  /\ call = [c \in Calls |-> Idle]
  /\ bridge = [pc |-> "idle", want |-> NoHash, on |-> None, known |-> NoHash]
  /\ label = [pc |-> "idle", on |-> None, last |-> NoHash, shown |-> NoHash]
  /\ events = 0 /\ drawn = {} /\ stale = [s \in Sides |-> 0] /\ local = FALSE

-----------------------------------------------------------------------------
Event == events < MaxEvents /\ events' = events + 1
Running(c, kind) ==
  call[c].pc # "idle" /\ call[c].kind = kind
AcceptDeleted(c, side, kind, next, want) ==
  /\ call[c].pc = "idle"
  /\ call' = [call EXCEPT ![c] = [Idle EXCEPT !.pc = "write", !.side = side, !.kind = kind,
                                              !.next = next, !.want = want]]
\* A handler has read the row and knows what to write.
Accept(c, side, kind, next, want) ==
  /\ call[c].pc = "idle" /\ ~row[side].deleted
  /\ call' = [call EXCEPT ![c] = [Idle EXCEPT !.pc = "write", !.side = side, !.kind = kind,
                                              !.next = next, !.want = want]]

\* sendToDevice and clearLabel (no product): the hash is over the current price.
SendToDevice(c, side, p) ==
  LET time == Len(asks) + 1
      h == [product |-> p, asked |-> time,
            price |-> IF side = "store" \/ p = None THEN 0 ELSE price[p]]
  IN
  /\ Event /\ (side = "store" => LocalStaff)
  /\ asks' = Append(asks, p)
  /\ Accept(c, side, "ask", Asked(row[side], p, time, h), NoHash)
  /\ UNCHANGED <<row, price, bridge, label, drawn, stale, local>>

DeleteDevice(c, side) ==
  /\ Event /\ (side = "store" => LocalStaff)
  /\ asks' = Append(asks, None)
  /\ Accept(c, side, "ask", [row[side] EXCEPT !.deleted = TRUE, !.product = None], NoHash)
  /\ UNCHANGED <<row, price, bridge, label, drawn, stale, local>>

\* updateHeartbeat, updateBattery, updateDevice, syncCampaignLabels: other fields
\* of the row, which is written whole all the same.
Touch(c, side) ==
  /\ Event
  /\ Accept(c, side, "touch", row[side], NoHash)
  /\ UNCHANGED <<row, price, bridge, label, asks, drawn, stale, local>>

ChangePrice(p) ==
  /\ Event
  /\ price' = [price EXCEPT ![p] = @ + 1]
  /\ UNCHANGED <<row, call, bridge, label, asks, drawn, stale, local>>

-----------------------------------------------------------------------------
\* shouldUseBridgeAssignedLabel
BridgeLabelCurrent(r) ==
  /\ r.synced # NoHash
  /\ r.product # None /\ r.synced.product = r.product
  /\ r.asked <= r.syncedAt
\* getCurrentLabel: the label of the bridge or one from the store's own catalogue.
Answer(r) == IF BridgeLabelCurrent(r) THEN r.synced ELSE OldPrice(r)
\* verifyCurrentLabelSync, verifyLocalCurrentLabel
Matches(answer, want) == answer = want

\* syncLabelOnce of the bridge: reads the assignment, sends it unless it is known.
ReadAssignmentRemembers ==
  /\ bridge.pc = "idle" /\ ~row["production"].deleted
  /\ HashOf(row["production"]) # bridge.known
  /\ bridge' = [bridge EXCEPT !.pc = "send", !.want = HashOf(row["production"]),
                             !.known = HashOf(row["production"])]
  /\ UNCHANGED <<row, price, call, label, events, asks, drawn, stale, local>>
ReadAssignment ==
  /\ bridge.pc = "idle" /\ ~row["production"].deleted
  /\ HashOf(row["production"]) # bridge.known
  /\ bridge' = [bridge EXCEPT !.pc = "send", !.want = HashOf(row["production"])]
  /\ UNCHANGED <<row, price, call, label, events, asks, drawn, stale, local>>

\* bridgeLabelSync: whatever the store's row says, the bridge's assignment replaces it.
Installed(r, h) ==
  [Asked(r, h.product, h.asked, h) EXCEPT !.synced = h, !.syncedAt = Len(asks)]
Realign(r, h) == r.product # h.product
SendSync(c) ==
  LET r == row["store"]
      h == bridge.want
      unchanged == r.synced = h /\ ~Realign(r, h)
  IN
  /\ bridge.pc = "send"
  /\ Accept(c, "store", IF unchanged THEN "look" ELSE "sync",
            IF unchanged THEN r ELSE Installed(r, h), h)
  /\ bridge' = [bridge EXCEPT !.pc = "wait", !.on = c]
  /\ UNCHANGED <<row, price, label, events, asks, drawn, stale, local>>

\* After its write, bridgeLabelSync calls getCurrentLabel, which reads again.
Reread(c) ==
  /\ call[c].pc = "reread"
  /\ \/ /\ row["store"].deleted
        /\ call' = [call EXCEPT ![c] = Idle]
     \/ /\ ~row["store"].deleted
        /\ call' = [call EXCEPT ![c].pc = "write", ![c].kind = "look",
                                ![c].next = row["store"], ![c].old = FALSE]
  /\ UNCHANGED <<row, price, bridge, label, events, asks, drawn, stale, local>>

\* readLocalCurrentLabel: the bridge looks for itself.
Check(c) ==
  /\ bridge.pc = "check"
  /\ Accept(c, "store", "look", row["store"], bridge.want)
  /\ bridge' = [bridge EXCEPT !.pc = "wait", !.on = c, !.want = NoHash]
  /\ UNCHANGED <<row, price, label, events, asks, drawn, stale, local>>

\* The first answer must match before the second look, the second before the hash
\* is taken for done.
BridgeAfter(c) ==
  LET k == call[c]
      ok == Matches(Answer(k.next), k.want)
      idle == [bridge EXCEPT !.pc = "idle", !.on = None, !.want = NoHash]
  IN
  IF bridge.on # c \/ k.kind # "look" THEN bridge
  ELSE IF ~ok THEN idle
  ELSE IF bridge.want = NoHash THEN [idle EXCEPT !.known = k.want]
  ELSE [bridge EXCEPT !.pc = "check", !.on = None]

-----------------------------------------------------------------------------
\* The label polls current-label of the store.
Poll(c) ==
  /\ label.pc = "idle"
  /\ Accept(c, "store", "poll", row["store"], NoHash)
  /\ label' = [label EXCEPT !.pc = "wait", !.on = c]
  /\ UNCHANGED <<row, price, bridge, events, asks, drawn, stale, local>>

\* loop: a new hash is drawn at once.
LabelAfter(c) ==
  LET h == Answer(call[c].next) IN
  IF label.on # c \/ call[c].kind # "poll" THEN label
  ELSE IF h = label.last THEN [label EXCEPT !.pc = "idle", !.on = None]
  ELSE [pc |-> "confirm", on |-> None, last |-> h, shown |-> h]

\* sendRenderConfirm and confirmRender. The result is ignored, nothing is repeated.
RenderedPending(r, h) == r.pending
Rendered(r, h) == h
Confirm(c) ==
  /\ label.pc = "confirm"
  /\ Accept(c, "store", "confirm",
            [row["store"] EXCEPT !.rendered = Rendered(row["store"], label.last)], NoHash)
  /\ label' = [label EXCEPT !.pc = "idle"]
  /\ UNCHANGED <<row, price, bridge, events, asks, drawn, stale, local>>

-----------------------------------------------------------------------------
\* The whole row is written; a reading by another handler is outdated by it if it
\* changes the row. Afterwards the answer, if somebody waits for it.
Write(c) ==
  LET k == call[c] IN
  /\ k.pc = "write"
  /\ row' = [row EXCEPT ![k.side] = k.next]
  /\ (k.old => stale["production"] + stale["store"] < MaxStale)
  /\ stale' = IF k.old THEN [stale EXCEPT ![k.side] = @ + 1] ELSE stale
  /\ local' = (local \/ (k.kind = "ask" /\ k.side = "store"))
  /\ call' = [d \in Calls |->
       IF d = c THEN IF k.kind = "sync" THEN [k EXCEPT !.pc = "reread", !.next = NewRow, !.old = FALSE] ELSE Idle
       ELSE IF call[d].pc = "write" /\ call[d].side = k.side /\ k.next # row[k.side]
            THEN [call[d] EXCEPT !.old = TRUE] ELSE call[d]]
  /\ bridge' = BridgeAfter(c)
  /\ label' = LabelAfter(c)
  /\ drawn' = IF label'.shown = NoHash THEN drawn ELSE drawn \cup {label'.shown}
  /\ UNCHANGED <<price, events, asks>>

\* A request or its answer is lost or takes longer than the client waits; the
\* handler, if there is one, goes on.
Lose ==
  /\ Event
  /\ \/ /\ bridge.pc # "idle"
        /\ bridge' = [bridge EXCEPT !.pc = "idle", !.on = None, !.want = NoHash]
        /\ UNCHANGED label
     \/ /\ label.pc # "idle"
        /\ label' = [label EXCEPT !.pc = "idle", !.on = None]
        /\ UNCHANGED bridge
  /\ UNCHANGED <<row, price, call, asks, drawn, stale, local>>

\* The bridge and the label keep what they know in memory only.
Restart ==
  /\ Event
  /\ \/ /\ bridge' = [pc |-> "idle", want |-> NoHash, on |-> None, known |-> NoHash]
        /\ UNCHANGED label
     \/ /\ label' = [label EXCEPT !.pc = "idle", !.on = None, !.last = NoHash]
        /\ UNCHANGED bridge
  /\ UNCHANGED <<row, price, call, asks, drawn, stale, local>>

\* The store answers 404 for a deleted device.
Refused ==
  /\ row["store"].deleted
  /\ \/ /\ bridge.pc \in {"send", "check"}
        /\ bridge' = [bridge EXCEPT !.pc = "idle", !.want = NoHash]
        /\ UNCHANGED label
     \/ /\ label.pc = "confirm"
        /\ label' = [label EXCEPT !.pc = "idle"]
        /\ UNCHANGED bridge
  /\ UNCHANGED <<row, price, call, events, asks, drawn, stale, local>>

Handle(c) == Write(c) \/ Reread(c)
BridgeAsks(c) == SendSync(c) \/ Check(c)
LabelAsks(c) == Poll(c) \/ Confirm(c)

Next ==
  \/ \E c \in Calls :
       \/ \E s \in Sides :
            \/ \E p \in Products \cup {None} : SendToDevice(c, s, p)
            \/ DeleteDevice(c, s)
            \/ Touch(c, s)
       \/ BridgeAsks(c) \/ LabelAsks(c) \/ Handle(c)
  \/ \E p \in Products : ChangePrice(p)
  \/ ReadAssignment \/ Lose \/ Restart \/ Refused

Spec == Init /\ [][Next]_vars

\* Handlers run on, bridge and label repeat their rounds by a timer. A round finds
\* the backend free again and again (strong fairness).
FairSpec ==
  /\ Spec /\ WF_vars(ReadAssignment) /\ WF_vars(Refused)
  /\ \A c \in Calls :
       /\ WF_vars(Handle(c))
       /\ SF_vars(BridgeAsks(c)) /\ SF_vars(LabelAsks(c))

-----------------------------------------------------------------------------
\* The types of the rows, the handlers, the bridge and the label.
TypeOK ==
  /\ row \in [Sides -> Row] /\ price \in [Products -> Nat]
  /\ call \in [Calls -> Call] /\ bridge \in Bridge /\ label \in Label
  /\ events \in Nat /\ asks \in Seq(Products \cup {None})
  /\ drawn \subseteq Hash /\ stale \in [Sides -> Nat] /\ local \in BOOLEAN

\* isPending of the device list
Pending(r) ==
  r.product # None /\ (r.synced = NoHash \/ r.synced.product # r.product
                         \/ r.pending # r.synced \/ r.pending # r.rendered)
\* A device that the list of the store shows as up to date has drawn its assignment.
ConfirmedMeansDrawn ==
  row["store"].product # None /\ ~Pending(row["store"]) => row["store"].pending \in drawn

InStore(h) == Answer(row["store"]) = h
\* What the bridge takes for done and still holds is what the store answers.
KnownMeansInstalled ==
  bridge.known # NoHash /\ ~row["production"].deleted
    /\ bridge.known = HashOf(row["production"]) /\ bridge.pc = "idle" => InStore(bridge.known)
\* ... unless two handlers met there or the staff of the store interfered.
KnownMeansInstalledUnlessRaced ==
  (\A s \in Sides : stale[s] = 0) /\ ~local => KnownMeansInstalled

Assignment(r) == <<r.product, r.asked, r.deleted>>
\* An assignment is changed, and a deleted device comes back, only by a request or
\* the bridge: never by a heartbeat, a poll or a confirmation that read the row last.
ChangedOnPurpose ==
  \A s \in Sides :
    stale'[s] = 0 /\ Assignment(row'[s]) # Assignment(row[s]) =>
      /\ \E c \in Calls : Running(c, "ask") \/ (s = "store" /\ Running(c, "sync"))
      /\ ~row[s].deleted
AssignmentChangedOnPurpose == [][ChangedOnPurpose]_vars

\* With no two handlers at once, the shelf ends up with the assignment and the
\* price of production, over lost answers and restarts.
Followed ==
  row["production"].deleted \/ row["store"].deleted \/ local
    \/ label.shown = HashOf(row["production"])
LabelFollows == <>[]Followed
=============================================================================
