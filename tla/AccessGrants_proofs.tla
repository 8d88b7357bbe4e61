------------------------- MODULE AccessGrants_proofs -------------------------
(***************************************************************************)
(* Proofs about AccessGrants, for any users, requests and grants, any      *)
(* number of handlers and scans and any bounds: the types, that requests   *)
(* and grants agree, that a decision is taken once, that a revocation      *)
(* holds and that access ends only on purpose.                             *)
(***************************************************************************)
EXTENDS AccessGrants, Sums_proofs

-----------------------------------------------------------------------------
(* Types.                                                                  *)

\* Rows that exist belong to a user.
Owned(rows) == \A x \in DOMAIN rows : rows[x].status # "none" => rows[x].user \in Users

\* A handler that serves a request (rq: the table of requests).
Serves(k) == k.pc \in {"decide", "grants"} \/ (k.pc = "put" /\ k.kind # "revoke")

\* What a handler knows at each of its steps.
Fits(k, rq) ==
  /\ k.pc = "insert" => k.user \in Users
  /\ Serves(k) => /\ k.r \in Requests /\ k.user \in Users
                  /\ rq[k.r].status # "none" /\ rq[k.r].user = k.user
  /\ k.pc = "decide" => k.was = "pending" /\ k.kind \in {"approve", "reject", "extend"}
  /\ k.pc = "grants" => k.kind \in {"approve", "extend"}
  /\ k.pc = "put" => /\ k.user \in Users /\ k.kind \in {"approve", "extend", "revoke"}
                     /\ k.g = None => k.kind = "approve"
                     /\ k.g # None => k.seen[k.g].status = "active"
  /\ \A g \in Grants : k.seen[g].status # "none" => k.seen[g].user \in Users
  /\ k.pc = "scan" => \A g \in k.due : k.seen[g].status = "active"
  /\ k.pc \in {"insert", "users", "scan"} => k.kind # "approve"

TypeInv ==
  /\ TypeOK /\ Owned(request) /\ Owned(grant)
  /\ \A c \in Calls : Fits(call[c], request)

\* Requests keep their user and do not vanish.
Stable(old, new) ==
  \A r \in Requests : old[r].status # "none" => new[r].status # "none" /\ new[r].user = old[r].user

\* Points in time: moments and ends of grants, the later one of two.
LEMMA TimeFacts ==
  /\ MaxTime \in Nat /\ MaxDuration \in Nat /\ 0 \in Time
  /\ \A t \in 0..MaxTime, d \in 0..MaxDuration : t + d \in Time
  /\ \A a, b \in Time : Longer(a, b) \in Time /\ Longer(a, b) >= a
BY AccessGrantsAssumption DEF Time, Longer

\* An idle handler has the type of a handler and fits any table.
LEMMA IdleFits ==
  /\ Idle \in Call /\ NoRows \in [Grants -> Grant]
  /\ \A rq \in [Requests -> Request] : Fits(Idle, rq)
<1>1. NoGrant \in Grant  BY TimeFacts DEF NoGrant, Grant
<1>2. NoRows \in [Grants -> Grant]  BY <1>1 DEF NoRows
<1>3. Idle \in Call  BY <1>2, TimeFacts DEF Idle, Call, Pc, Kind, Status
<1>4. \A rq \in [Requests -> Request] : Fits(Idle, rq)
  BY DEF Fits, Serves, Idle, NoRows, NoGrant
<1>5. QED  BY <1>2, <1>3, <1>4

\* One handler changes, the table of requests is stable.
LEMMA CallStep ==
  ASSUME TypeInv, NEW c \in Calls, NEW k \in Call, call' = [call EXCEPT ![c] = k],
         Fits(k, request'), Stable(request, request')
  PROVE  call' \in [Calls -> Call] /\ \A d \in Calls : Fits(call'[d], request')
<1>1. call \in [Calls -> Call]  BY DEF TypeInv, TypeOK
<1>2. \A d \in Calls : Fits(call[d], request) => Fits(call[d], request')
  BY DEF Fits, Stable
<1>3. QED  BY <1>1, <1>2 DEF TypeInv

\* A new handler has read the tables as they are.
LEMMA AcceptStep ==
  ASSUME TypeInv, NEW c \in Calls, NEW k \in Call, Accept(c, k), Fits(k, request)
  PROVE  TypeInv'
<1>1. Stable(request, request')  BY DEF Accept, Stable
<1>2. call' \in [Calls -> Call] /\ \A d \in Calls : Fits(call'[d], request')
  BY <1>1, CallStep DEF Accept
<1>3. QED  BY <1>2 DEF Accept, TypeInv, TypeOK, Owned, ghosts

\* Setting some fields of a handler sets the handler to the changed record.
LEMMA PutIs ==
  ASSUME call \in [Calls -> Call], NEW c \in Calls, NEW g, NEW exp, NEW rows
  PROVE  [call EXCEPT ![c].pc = "put", ![c].g = g, ![c].exp = exp, ![c].seen = rows]
           = [call EXCEPT ![c] = [call[c] EXCEPT !.pc = "put", !.g = g, !.exp = exp, !.seen = rows]]
OBVIOUS

\* An approval goes on with a running grant of the user, or with none.
LEMMA ApproveReads ==
  ASSUME TypeInv, NEW c \in Calls, ReadGrantsApprove(c)
  PROVE  LET k == call[c]
             rows(g) == IF g = None THEN NoRows ELSE [NoRows EXCEPT ![g] = grant[g]]
             put(g, exp) == [k EXCEPT !.pc = "put", !.g = g, !.exp = exp, !.seen = rows(g)]
         IN  \/ \E g \in Running(k.user) :
                  call' = [call EXCEPT ![c] = put(g, Longer(grant[g].exp, clock + k.dur))]
             \/ call' = [call EXCEPT ![c] = put(None, clock + k.dur)]
<1> DEFINE k == call[c]
           rows(g) == IF g = None THEN NoRows ELSE [NoRows EXCEPT ![g] = grant[g]]
           raw(g, exp) == [call EXCEPT ![c].pc = "put", ![c].g = g, ![c].exp = exp,
                                       ![c].seen = rows(g)]
           put(g, exp) == [k EXCEPT !.pc = "put", !.g = g, !.exp = exp, !.seen = rows(g)]
<1>1. \/ \E g \in Running(k.user) : call' = raw(g, Longer(grant[g].exp, clock + k.dur))
      \/ call' = raw(None, clock + k.dur)
  BY Zenon DEF ReadGrantsApprove
<1>2. ASSUME NEW g, NEW exp PROVE raw(g, exp) = [call EXCEPT ![c] = put(g, exp)]
  <2>1. PICK r : r = rows(g)
    OBVIOUS
  <2>2. call \in [Calls -> Call]
    BY DEF TypeInv, TypeOK
  <2> HIDE DEF rows
  <2> QED
    BY <2>1, <2>2, PutIs
<1> HIDE DEF raw, put
<1>3. \/ \E g \in Running(k.user) :
           call' = [call EXCEPT ![c] = put(g, Longer(grant[g].exp, clock + k.dur))]
      \/ call' = [call EXCEPT ![c] = put(None, clock + k.dur)]
  BY <1>1, <1>2, Zenon
<1> QED
  BY <1>3 DEF put

\* Every step keeps the types.
LEMMA TypeStep == TypeInv /\ [Next]_vars => TypeInv' /\ Stable(request, request')
<1> SUFFICES ASSUME TypeInv, [Next]_vars PROVE TypeInv' /\ Stable(request, request')  OBVIOUS
<1>0. /\ request \in [Requests -> Request] /\ grant \in [Grants -> Grant]
      /\ enabled \in [Users -> BOOLEAN] /\ clock \in 0..MaxTime
      /\ call \in [Calls -> Call]
      /\ served \in Nat /\ toggles \in Nat /\ stops \in Nat
      /\ granted \subseteq Requests /\ lost \subseteq Requests /\ raced \subseteq Users
      /\ \A r \in Requests : request[r].status # "none" => request[r].user \in Users
      /\ \A g \in Grants : grant[g].status # "none" => grant[g].user \in Users
      /\ \A c \in Calls : Fits(call[c], request)
  BY DEF TypeInv, TypeOK, Owned
<1>S. UNCHANGED request => Stable(request, request')
  BY DEF Stable
<1>N. None \notin Users \cup Requests \cup Grants
  BY AccessGrantsAssumption
\* Handlers that only change themselves.
<1>Q. ASSUME NEW c \in Calls, NEW k \in Call, call' = [call EXCEPT ![c] = k], Fits(k, request),
             UNCHANGED <<request, grant, enabled, clock, bounds, ghosts>>
      PROVE TypeInv' /\ Stable(request, request')
  <2>1. call' \in [Calls -> Call] /\ \A d \in Calls : Fits(call'[d], request')
    BY <1>Q, <1>S, CallStep
  <2>2. QED  BY <1>0, <1>Q, <1>S, <2>1 DEF TypeInv, TypeOK, Owned, bounds, ghosts
<1>1. ASSUME NEW c \in Calls, NEW u \in Users, CreateRequest(c, u)
      PROVE TypeInv' /\ Stable(request, request')
  <2> DEFINE k == [Idle EXCEPT !.pc = "insert", !.kind = "create", !.user = u]
  <2>1. k \in Call  BY IdleFits DEF Call, Pc, Kind
  <2>2. k.pc = "insert" /\ k.kind = "create" /\ k.user = u /\ k.seen = NoRows  BY DEF Idle
  <2>3. Accept(c, k)  BY <1>1 DEF CreateRequest
  <2> HIDE DEF k
  <2>4. Fits(k, request)  BY <2>2 DEF Fits, Serves, NoRows, NoGrant
  <2>5. QED  BY <1>S, <2>1, <2>3, <2>4, AcceptStep DEF Accept
<1>2. ASSUME NEW c \in Calls, NEW kind \in Kind, NEW r \in Requests, NEW d \in 1..MaxDuration,
             Review(c, kind, r, d)
      PROVE TypeInv' /\ Stable(request, request')
  <2> DEFINE k == [Idle EXCEPT !.pc = "decide", !.kind = kind, !.r = r, !.dur = d,
                               !.user = request[r].user, !.was = request[r].status]
  <2>1. request[r].status = "pending" /\ kind \in {"approve", "reject"} /\ Accept(c, k)
    BY <1>2 DEF Review, MayDecide
  <2>2. request[r].user \in Users /\ request[r].status \in Status /\ d \in 0..MaxDuration
    BY <1>0, <2>1, TimeFacts DEF Request
  <2>3. k \in Call  BY <2>1, <2>2, IdleFits DEF Call, Pc, Kind
  <2>4. k.pc = "decide" /\ k.kind = kind /\ k.r = r /\ k.user = request[r].user
          /\ k.was = "pending" /\ k.seen = NoRows
    BY <2>1 DEF Idle
  <2> HIDE DEF k
  <2>5. Fits(k, request)  BY <2>1, <2>2, <2>4 DEF Fits, Serves, NoRows, NoGrant
  <2>6. QED  BY <1>S, <2>1, <2>3, <2>5, AcceptStep DEF Accept
<1>3. ASSUME NEW c \in Calls, NEW r \in Requests, NEW d \in 1..MaxDuration, ExtendRequest(c, r, d)
      PROVE TypeInv' /\ Stable(request, request')
  <2> DEFINE k == [Idle EXCEPT !.kind = "extend", !.r = r, !.dur = d,
                     !.user = request[r].user, !.was = request[r].status,
                     !.pc = IF request[r].status = "pending" THEN "decide" ELSE "grants"]
  <2>1. request[r].status \in {"pending", "approved"} /\ Accept(c, k)
    BY <1>3 DEF ExtendRequest
  <2>2. request[r].user \in Users /\ request[r].status \in Status /\ d \in 0..MaxDuration
    BY <1>0, <2>1, TimeFacts DEF Request
  <2>3. k \in Call  BY <2>1, <2>2, IdleFits DEF Call, Pc, Kind
  <2>4. /\ k.pc = IF request[r].status = "pending" THEN "decide" ELSE "grants"
        /\ k.kind = "extend" /\ k.r = r /\ k.user = request[r].user
        /\ k.was = request[r].status /\ k.seen = NoRows
    BY <2>1 DEF Idle
  <2> HIDE DEF k
  <2>5. Fits(k, request)  BY <2>1, <2>2, <2>4 DEF Fits, Serves, NoRows, NoGrant
  <2>6. QED  BY <1>S, <2>1, <2>3, <2>5, AcceptStep DEF Accept
<1>4. ASSUME NEW c \in Calls, NEW g \in Grants, RevokeGrant(c, g)
      PROVE TypeInv' /\ Stable(request, request')
  <2> DEFINE rows == [NoRows EXCEPT ![g] = grant[g]]
             k == [Idle EXCEPT !.pc = "put", !.kind = "revoke", !.g = g,
                               !.user = grant[g].user, !.seen = rows]
  <2>1. grant[g].status = "active" /\ Accept(c, k)
    BY <1>4 DEF RevokeGrant
  <2>2. grant[g].user \in Users  BY <1>0, <2>1
  <2>3. /\ rows \in [Grants -> Grant] /\ rows[g].status = "active"
        /\ \A x \in Grants : rows[x].status # "none" => rows[x].user \in Users
    BY <1>0, <2>1, IdleFits DEF NoRows, NoGrant
  <2> HIDE DEF rows
  <2>4. k \in Call  BY <2>2, <2>3, IdleFits DEF Call, Pc, Kind
  <2>5. k.pc = "put" /\ k.kind = "revoke" /\ k.g = g /\ k.user = grant[g].user /\ k.seen = rows
    BY DEF Idle
  <2> HIDE DEF k
  <2>6. Fits(k, request)  BY <1>N, <2>2, <2>3, <2>5 DEF Fits, Serves
  <2>7. QED  BY <1>S, <2>1, <2>4, <2>6, AcceptStep DEF Accept
<1>5. ASSUME NEW c \in Calls, ScanBegin(c) PROVE TypeInv' /\ Stable(request, request')
  <2> DEFINE k == [Idle EXCEPT !.pc = "users", !.seen = grant]
  <2>1. k \in Call  BY <1>0, IdleFits DEF Call, Pc
  <2>2. k.pc = "users" /\ k.seen = grant /\ k.kind = "scan"  BY DEF Idle
  <2>3. call' = [call EXCEPT ![c] = k] /\ UNCHANGED <<request, grant, enabled, clock, bounds, ghosts>>
    BY <1>5 DEF ScanBegin
  <2> HIDE DEF k
  <2>4. Fits(k, request)  BY <1>0, <2>2 DEF Fits, Serves
  <2>5. QED  BY <1>Q, <2>1, <2>3, <2>4
<1>6. ASSUME NEW c \in Calls, NEW r \in Requests, InsertRequest(c, r)
      PROVE TypeInv' /\ Stable(request, request')
  <2>1. call[c].user \in Users  BY <1>0, <1>6 DEF InsertRequest, At, Fits
  <2>2. request' = [request EXCEPT ![r] = [status |-> "pending", user |-> call[c].user]]
          /\ request[r].status = "none" /\ call' = [call EXCEPT ![c] = Idle]
    BY <1>6 DEF InsertRequest, Done
  <2>3. /\ request' \in [Requests -> Request] /\ Stable(request, request')
        /\ \A x \in Requests : request'[x].status # "none" => request'[x].user \in Users
    BY <1>0, <2>1, <2>2 DEF Request, Status, Stable
  <2>4. call' \in [Calls -> Call] /\ \A d \in Calls : Fits(call'[d], request')
    BY <2>2, <2>3, IdleFits, CallStep
  <2>5. raced' \subseteq Users  BY <1>0, <1>6, <2>1 DEF InsertRequest, Race
  <2>6. QED  BY <1>0, <1>6, <2>3, <2>4, <2>5 DEF InsertRequest, TypeInv, TypeOK, Owned, bounds
<1>7. ASSUME NEW c \in Calls, Decide(c) PROVE TypeInv' /\ Stable(request, request')
  <2> DEFINE k == call[c]
             next == [k EXCEPT !.pc = AfterDecision(k.kind)]
  <2>1. k \in Call /\ k.pc = "decide" /\ k.r \in Requests /\ k.user \in Users /\ Fits(k, request)
          /\ k.kind \in {"approve", "reject", "extend"}
    BY <1>0, <1>7 DEF Decide, At, Fits, Serves
  <2>2. request' = [request EXCEPT ![k.r].status = Decision(k.kind)]
    BY <1>7 DEF Decide
  <2>3. Decision(k.kind) \in {"approved", "rejected", "pending"}
    BY DEF Decision
  <2>4. /\ request' \in [Requests -> Request] /\ Stable(request, request')
        /\ \A x \in Requests : request'[x].status # "none" => request'[x].user \in Users
    BY <1>0, <2>1, <2>2, <2>3 DEF Request, Status, Stable, Fits, Serves
  <2>5. CASE call' = [call EXCEPT ![c] = Idle]
    <3>1. call' \in [Calls -> Call] /\ \A d \in Calls : Fits(call'[d], request')
      BY <2>4, <2>5, IdleFits, CallStep
    <3>2. raced' \subseteq Users  BY <1>0, <1>7, <2>1 DEF Decide, Race
    <3>3. QED  BY <1>0, <1>7, <2>4, <3>1, <3>2 DEF Decide, TypeInv, TypeOK, Owned, bounds
  <2>6. CASE AfterDecision(k.kind) # "idle" /\ call' = [call EXCEPT ![c] = next]
    <3>1. k.kind = "approve" /\ AfterDecision(k.kind) = "grants"
      BY <2>6 DEF AfterDecision
    <3>2. next \in Call /\ next.pc = "grants" /\ next.kind = "approve" /\ next.r = k.r
            /\ next.user = k.user /\ next.seen = k.seen
      BY <2>1, <3>1 DEF Call, Pc
    <3> HIDE DEF next
    <3>3. Fits(next, request')
      BY <2>1, <2>4, <3>2 DEF Fits, Serves, Stable
    <3>4. call' \in [Calls -> Call] /\ \A d \in Calls : Fits(call'[d], request')
      BY <2>4, <2>6, <3>2, <3>3, CallStep
    <3>5. raced' \subseteq Users  BY <1>0, <1>7, <2>1 DEF Decide, Race
    <3>6. QED  BY <1>0, <1>7, <2>4, <3>4, <3>5 DEF Decide, TypeInv, TypeOK, Owned, bounds
  <2>7. QED  BY <1>7, <2>5, <2>6 DEF Decide, Done
<1>8. ASSUME NEW c \in Calls, ReadGrantsApprove(c) PROVE TypeInv' /\ Stable(request, request')
  <2> DEFINE k == call[c]
             rows(g) == IF g = None THEN NoRows ELSE [NoRows EXCEPT ![g] = grant[g]]
             put(g, exp) == [k EXCEPT !.pc = "put", !.g = g, !.exp = exp, !.seen = rows(g)]
  <2>1. k \in Call /\ k.pc = "grants" /\ k.kind = "approve" /\ Fits(k, request)
    BY <1>0, <1>8 DEF ReadGrantsApprove, At
  <2>2. ASSUME NEW g \in Grants \cup {None}, NEW exp \in Time, call' = [call EXCEPT ![c] = put(g, exp)],
               g # None => grant[g].status = "active"
        PROVE  TypeInv' /\ Stable(request, request')
    <3>1. /\ rows(g) \in [Grants -> Grant]
          /\ \A x \in Grants : rows(g)[x].status # "none" => rows(g)[x].user \in Users
          /\ g # None => rows(g)[g].status = "active"
      BY <1>0, <2>2, IdleFits DEF NoRows, NoGrant
    <3> HIDE DEF rows
    <3>2. put(g, exp) \in Call  BY <2>1, <3>1 DEF Call, Pc
    <3>3. /\ put(g, exp).pc = "put" /\ put(g, exp).kind = "approve" /\ put(g, exp).g = g
          /\ put(g, exp).r = k.r /\ put(g, exp).user = k.user /\ put(g, exp).seen = rows(g)
      BY <2>1 DEF Call
    <3> HIDE DEF put
    <3>4. Fits(put(g, exp), request)
      BY <2>1, <3>1, <3>3 DEF Fits, Serves
    <3>5. QED  BY <1>8, <1>Q, <2>2, <3>2, <3>4 DEF ReadGrantsApprove
  <2>3. clock + k.dur \in Time  BY <1>0, <2>1, TimeFacts DEF Call
  <2>4. ASSUME NEW g \in Running(k.user),
               call' = [call EXCEPT ![c] = put(g, Longer(grant[g].exp, clock + k.dur))]
        PROVE  TypeInv' /\ Stable(request, request')
    <3>1. g \in Grants /\ grant[g].status = "active"  BY DEF Running
    <3>2. Longer(grant[g].exp, clock + k.dur) \in Time
      BY <1>0, <2>3, <3>1, TimeFacts DEF Grant
    <3>3. QED  BY <2>2, <2>4, <3>1, <3>2
  <2>5. CASE call' = [call EXCEPT ![c] = put(None, clock + k.dur)]
    BY <2>2, <2>3, <2>5
  <2>6. QED
    <3> HIDE DEF put
    <3>1. \/ \E g \in Running(k.user) :
               call' = [call EXCEPT ![c] = put(g, Longer(grant[g].exp, clock + k.dur))]
          \/ call' = [call EXCEPT ![c] = put(None, clock + k.dur)]
      BY <1>0, <1>8, ApproveReads DEF put
    <3>2. QED  BY <2>4, <2>5, <3>1
<1>9. ASSUME NEW c \in Calls, ReadGrantsExtend(c) PROVE TypeInv' /\ Stable(request, request')
  <2> DEFINE k == call[c]
             rows(g) == [NoRows EXCEPT ![g] = grant[g]]
             put(g) == [k EXCEPT !.pc = "put", !.g = g, !.exp = clock + k.dur, !.seen = rows(g)]
  <2>1. k \in Call /\ k.pc = "grants" /\ k.kind = "extend" /\ Fits(k, request)
    BY <1>0, <1>9 DEF ReadGrantsExtend, At
  <2>2. CASE Done(c)
    BY <1>0, <1>9, <1>Q, <2>2, IdleFits DEF Done, ReadGrantsExtend
  <2>3. ASSUME NEW g \in Grants, MayExtend(grant[g]), call' = [call EXCEPT ![c] = put(g)]
        PROVE TypeInv' /\ Stable(request, request')
    <3>1. clock + k.dur \in Time  BY <1>0, <2>1, TimeFacts DEF Call
    <3>2. /\ rows(g) \in [Grants -> Grant] /\ rows(g)[g].status = "active"
          /\ \A x \in Grants : rows(g)[x].status # "none" => rows(g)[x].user \in Users
      BY <1>0, <2>3, IdleFits DEF NoRows, NoGrant, MayExtend
    <3> HIDE DEF rows
    <3>3. put(g) \in Call  BY <2>1, <3>1, <3>2 DEF Call, Pc
    <3>4. /\ put(g).pc = "put" /\ put(g).kind = "extend" /\ put(g).g = g
          /\ put(g).r = k.r /\ put(g).user = k.user /\ put(g).seen = rows(g)
      BY <2>1 DEF Call
    <3> HIDE DEF put
    <3>5. Fits(put(g), request)
      BY <1>N, <2>1, <3>2, <3>4 DEF Fits, Serves
    <3>6. QED  BY <1>9, <1>Q, <2>3, <3>3, <3>5 DEF ReadGrantsExtend
  <2>4. QED  BY <1>9, <2>2, <2>3 DEF ReadGrantsExtend
<1>10. ASSUME NEW c \in Calls, NEW g \in Grants, InsertGrant(c, g)
       PROVE TypeInv' /\ Stable(request, request')
  <2> DEFINE k == call[c]
             row == [status |-> "active", user |-> k.user, of |-> k.r, exp |-> k.exp]
  <2>1. k \in Call /\ k.r \in Requests /\ k.user \in Users
    BY <1>0, <1>10 DEF InsertGrant, At, Fits, Serves
  <2>2. row \in Grant  BY <2>1 DEF Call, Grant
  <2>3. grant' = [grant EXCEPT ![g] = row] /\ UNCHANGED request /\ call' = [call EXCEPT ![c] = Idle]
    BY <1>10 DEF InsertGrant, Done
  <2>4. grant' \in [Grants -> Grant] /\ \A x \in Grants : grant'[x].status # "none" => grant'[x].user \in Users
    BY <1>0, <2>1, <2>2, <2>3
  <2>5. call' \in [Calls -> Call] /\ \A d \in Calls : Fits(call'[d], request')
    BY <1>0, <1>S, <2>3, IdleFits, CallStep
  <2>6. raced' \subseteq Users /\ granted' \subseteq Requests
    BY <1>0, <1>10, <2>1 DEF InsertGrant, Race
  <2>7. QED  BY <1>0, <1>10, <1>S, <2>3, <2>4, <2>5, <2>6 DEF InsertGrant, TypeInv, TypeOK, Owned, bounds
<1>11. ASSUME NEW c \in Calls, UpdateGrant(c) PROVE TypeInv' /\ Stable(request, request')
  <2> DEFINE k == call[c]
  <2>1. k \in Call /\ k.pc = "put" /\ k.g \in Grants /\ k.user \in Users /\ Fits(k, request)
    BY <1>0, <1>11 DEF UpdateGrant, At, Fits, Call
  <2>2. k.seen[k.g] \in Grant /\ k.exp \in Time  BY <2>1 DEF Call
  <2>3. Written(k) \in Grant /\ (Written(k).status # "none" => Written(k).user \in Users)
    <3>1. CASE k.kind = "revoke"
      <4>1. Written(k) = [k.seen[k.g] EXCEPT !.status = "revoked"]  BY <3>1 DEF Written
      <4>2. k.seen[k.g].status = "active" /\ k.seen[k.g].user \in Users  BY <1>N, <2>1 DEF Fits
      <4>3. QED  BY <2>2, <4>1, <4>2 DEF Grant
    <3>2. CASE k.kind # "revoke"
      <4>1. Written(k) = [k.seen[k.g] EXCEPT !.exp = k.exp]  BY <3>2 DEF Written
      <4>2. k.seen[k.g].status = "active" /\ k.seen[k.g].user \in Users  BY <1>N, <2>1 DEF Fits
      <4>3. QED  BY <2>2, <4>1, <4>2 DEF Grant
    <3>3. QED  BY <3>1, <3>2
  <2>4. grant' = [grant EXCEPT ![k.g] = Written(k)] /\ UNCHANGED request /\ call' = [call EXCEPT ![c] = Idle]
    BY <1>11 DEF UpdateGrant, Done
  <2>5. grant' \in [Grants -> Grant] /\ \A x \in Grants : grant'[x].status # "none" => grant'[x].user \in Users
    BY <1>0, <2>1, <2>3, <2>4
  <2>6. call' \in [Calls -> Call] /\ \A d \in Calls : Fits(call'[d], request')
    BY <1>0, <1>S, <2>4, IdleFits, CallStep
  <2>7. raced' \subseteq Users /\ granted' \subseteq Requests
    BY <1>0, <1>11, <2>1 DEF UpdateGrant, Race, Fits, Serves
  <2>8. QED  BY <1>0, <1>11, <1>S, <2>4, <2>5, <2>6, <2>7 DEF UpdateGrant, TypeInv, TypeOK, Owned, bounds
<1>12. ASSUME NEW c \in Calls, ScanUsers(c) PROVE TypeInv' /\ Stable(request, request')
  <2> DEFINE k == call[c]
             over == {g \in Grants : Over(k.seen[g])}
             disabled == {g \in Grants : OfDisabled(k.seen[g])} \ over
             next == [k EXCEPT !.pc = "scan", !.due = over \cup disabled, !.disabled = disabled]
  <2>1. k \in Call /\ k.pc = "users" /\ Fits(k, request)
    BY <1>0, <1>12 DEF ScanUsers, At
  <2>2. CASE Done(c)
    BY <1>0, <1>12, <1>Q, <2>2, IdleFits DEF Done, ScanUsers
  <2>3. CASE call' = [call EXCEPT ![c] = next]
    <3>1. over \cup disabled \in SUBSET Grants /\ disabled \in SUBSET Grants
            /\ \A g \in over \cup disabled : k.seen[g].status = "active"
      BY DEF Over, OfDisabled
    <3> HIDE DEF over, disabled
    <3>2. next \in Call /\ next.pc = "scan" /\ next.due = over \cup disabled /\ next.seen = k.seen
            /\ next.kind = k.kind
      BY <2>1, <3>1 DEF Call, Pc
    <3> HIDE DEF next
    <3>3. Fits(next, request)  BY <2>1, <3>1, <3>2 DEF Fits, Serves
    <3>4. QED  BY <1>12, <1>Q, <2>3, <3>2, <3>3 DEF ScanUsers
  <2>4. QED  BY <1>12, <2>2, <2>3 DEF ScanUsers
<1>13. ASSUME NEW c \in Calls, NEW g \in Grants, ScanExpire(c, g)
       PROVE TypeInv' /\ Stable(request, request')
  <2> DEFINE k == call[c]
             next == [k EXCEPT !.due = k.due \ {g}]
  <2>1. k \in Call /\ k.pc = "scan" /\ g \in k.due /\ Fits(k, request)
    BY <1>0, <1>13 DEF ScanExpire, At
  <2>2. k.seen[g] \in Grant /\ k.seen[g].user \in Users  BY <2>1 DEF Call, Fits
  <2>3. grant' = [grant EXCEPT ![g] = [k.seen[g] EXCEPT !.status = "expired"]] /\ UNCHANGED request
    BY <1>13 DEF ScanExpire
  <2>4. grant' \in [Grants -> Grant] /\ \A x \in Grants : grant'[x].status # "none" => grant'[x].user \in Users
    BY <1>0, <2>2, <2>3 DEF Grant
  <2>5. next \in Call /\ Fits(next, request)
    <3>1. next \in Call /\ next.pc = "scan" /\ next.due = k.due \ {g} /\ next.seen = k.seen
            /\ next.kind = k.kind
      BY <2>1 DEF Call
    <3> HIDE DEF next
    <3>2. QED  BY <2>1, <3>1 DEF Fits, Serves
  <2>6. call' = [call EXCEPT ![c] = Idle] \/ call' = [call EXCEPT ![c] = next]
    BY <1>0, <1>13 DEF ScanExpire, Done
  <2> HIDE DEF next
  <2>7. call' \in [Calls -> Call] /\ \A d \in Calls : Fits(call'[d], request')
    BY <1>0, <1>S, <2>3, <2>5, <2>6, IdleFits, CallStep
  <2>8. raced' \subseteq Users  BY <1>0, <1>13, <2>2 DEF ScanExpire, Race
  <2>9. QED  BY <1>0, <1>13, <1>S, <2>3, <2>4, <2>7, <2>8 DEF ScanExpire, TypeInv, TypeOK, Owned, bounds
<1>14. ASSUME NEW c \in Calls, NEW g \in Grants, ScanRevoke(c, g)
       PROVE TypeInv' /\ Stable(request, request')
  BY <1>0, <1>14, <1>Q, IdleFits DEF ScanRevoke, Done
<1>15. ASSUME NEW u \in Users, Toggle(u) PROVE TypeInv' /\ Stable(request, request')
  BY <1>0, <1>15, <1>S DEF Toggle, TypeInv, TypeOK, Owned, ghosts
<1>16. ASSUME NEW c \in Calls, Stop(c) PROVE TypeInv' /\ Stable(request, request')
  <2>1. call' = [call EXCEPT ![c] = Idle] /\ UNCHANGED request  BY <1>16 DEF Stop, Done
  <2>2. call' \in [Calls -> Call] /\ \A d \in Calls : Fits(call'[d], request')
    BY <1>0, <1>S, <2>1, IdleFits, CallStep
  <2>3. lost' \subseteq Requests
    <3>1. ~At(c, "idle") /\ call[c].kind = "approve" /\ call[c].pc # "decide" => call[c].r \in Requests
      BY <1>0 DEF At, Fits, Serves, Call, Pc
    <3>2. QED  BY <1>0, <1>16, <3>1 DEF Stop
  <2>4. stops' \in Nat  BY <1>0, <1>16 DEF Stop
  <2>5. QED
    BY <1>0, <1>16, <1>S, <2>1, <2>2, <2>3, <2>4 DEF Stop, TypeInv, TypeOK, Owned
<1>17. CASE Tick
  <2>1. clock' \in 0..MaxTime  BY <1>0, <1>17, TimeFacts DEF Tick
  <2>2. QED  BY <1>0, <1>17, <1>S, <2>1 DEF Tick, TypeInv, TypeOK, Owned, bounds, ghosts
<1>18. CASE UNCHANGED vars
  BY <1>18, <1>S DEF vars, TypeInv, TypeOK, Owned, bounds, ghosts
<1>19. QED
  BY <1>1, <1>2, <1>3, <1>4, <1>5, <1>6, <1>7, <1>8, <1>9, <1>10, <1>11, <1>12, <1>13, <1>14,
     <1>15, <1>16, <1>17, <1>18 DEF Next, Handle

\* Init establishes the types.
LEMMA TypeInit == Init => TypeInv
<1> SUFFICES ASSUME Init PROVE TypeInv  OBVIOUS
<1>1. NoRequest \in Request  BY DEF NoRequest, Request, Status
<1>2. 0 \in 0..MaxTime  BY TimeFacts
<1>3. request \in [Requests -> Request] /\ grant \in [Grants -> Grant]
      /\ call \in [Calls -> Call] /\ \A c \in Calls : Fits(call[c], request)
  BY <1>1, IdleFits DEF Init
<1>4. Owned(request) /\ Owned(grant)  BY DEF Init, Owned, NoRequest, NoRows, NoGrant
<1>5. QED  BY <1>2, <1>3, <1>4 DEF Init, TypeInv, TypeOK

\* The tables, the handlers and the history keep their types, for any number of
\* handlers that read, wait and write whole rows back.
THEOREM TypeCorrect == Spec => []TypeOK
<1>1. Init => TypeInv  BY TypeInit
<1>2. TypeInv /\ [Next]_vars => TypeInv'  BY TypeStep
<1>3. TypeInv => TypeOK  BY DEF TypeInv
<1>4. QED  BY <1>1, <1>2, <1>3, PTL DEF Spec

-----------------------------------------------------------------------------
(* A decision is taken once.                                               *)

\* Two steps write requests.
LEMMA RequestsKept ==
  [Next]_vars => \/ UNCHANGED request
                 \/ \E c \in Calls : Decide(c) \/ \E r \in Requests : InsertRequest(c, r)
<1> SUFFICES ASSUME Next PROVE \/ UNCHANGED request
                               \/ \E c \in Calls : Decide(c) \/ \E r \in Requests : InsertRequest(c, r)
  BY DEF vars
<1>1. \A c \in Calls : \A k : Accept(c, k) => UNCHANGED request  BY DEF Accept
<1>2. ASSUME NEW c \in Calls, NEW u \in Users, CreateRequest(c, u) PROVE UNCHANGED request
  BY <1>1, <1>2 DEF CreateRequest
<1>3. ASSUME NEW c \in Calls, NEW kind \in Kind, NEW r \in Requests, NEW d \in 1..MaxDuration,
             Review(c, kind, r, d)
      PROVE UNCHANGED request
  BY <1>1, <1>3 DEF Review
<1>4. ASSUME NEW c \in Calls, NEW r \in Requests, NEW d \in 1..MaxDuration, ExtendRequest(c, r, d)
      PROVE UNCHANGED request
  BY <1>1, <1>4 DEF ExtendRequest
<1>5. ASSUME NEW c \in Calls, NEW g \in Grants, RevokeGrant(c, g) PROVE UNCHANGED request
  BY <1>1, <1>5 DEF RevokeGrant
<1>6. ASSUME NEW c \in Calls, ScanBegin(c) \/ Stop(c) PROVE UNCHANGED request
  BY <1>6, Zenon DEF ScanBegin, Stop
<1>7. ASSUME NEW c \in Calls,
             ReadGrantsApprove(c) \/ ReadGrantsExtend(c) \/ UpdateGrant(c) \/ ScanUsers(c)
      PROVE UNCHANGED request
  BY <1>7 DEF ReadGrantsApprove, ReadGrantsExtend, UpdateGrant, ScanUsers
<1>8. ASSUME NEW c \in Calls, NEW g \in Grants, InsertGrant(c, g) \/ ScanExpire(c, g) \/ ScanRevoke(c, g)
      PROVE UNCHANGED request
  BY <1>8 DEF InsertGrant, ScanExpire, ScanRevoke
<1>9. ASSUME NEW u \in Users, Toggle(u) PROVE UNCHANGED request
  BY <1>9 DEF Toggle
<1>10. Tick => UNCHANGED request  BY DEF Tick
<1>11. QED
  BY <1>2, <1>3, <1>4, <1>5, <1>6, <1>7, <1>8, <1>9, <1>10 DEF Next, Handle

\* A request that is decided stays as it is, whatever handlers are under way,
\* unless one of them wrote a row of this user that it had read before: then
\* the user is among the exceptions.
THEOREM DecidedOnce == Spec => DecidedOnceUnlessRaced
<1> DEFINE Kept == \A r \in Requests : request[r].status \in {"approved", "rejected"} =>
                     request'[r].status = request[r].status \/ request[r].user \in raced'
<1>1. TypeInv /\ [Next]_vars => Kept
  <2> SUFFICES ASSUME TypeInv, [Next]_vars, NEW r \in Requests,
                      request[r].status \in {"approved", "rejected"}
               PROVE  request'[r].status = request[r].status \/ request[r].user \in raced'
    OBVIOUS
  <2>1. request \in [Requests -> Request] /\ \A c \in Calls : Fits(call[c], request)
    BY DEF TypeInv, TypeOK
  <2>2. CASE UNCHANGED request  BY <2>2
  <2>3. ASSUME NEW c \in Calls, NEW s \in Requests, InsertRequest(c, s)
        PROVE  request'[r].status = request[r].status
    BY <2>1, <2>3 DEF InsertRequest
  <2>4. ASSUME NEW c \in Calls, Decide(c)
        PROVE  request'[r].status = request[r].status \/ request[r].user \in raced'
    <3>1. CASE call[c].r # r  BY <2>1, <2>4, <3>1 DEF Decide
    <3>2. CASE call[c].r = r
      <4>1. call[c].was = "pending" /\ call[c].user = request[r].user
        BY <2>1, <2>4, <3>2 DEF Decide, At, Fits, Serves
      <4>2. call[c].user \in raced'  BY <2>4, <3>2, <4>1 DEF Decide, Race
      <4>3. QED  BY <4>1, <4>2
    <3>3. QED  BY <3>1, <3>2
  <2>5. QED  BY <2>2, <2>3, <2>4, RequestsKept
<1>2. Init => TypeInv  BY TypeInit
<1>3. TypeInv /\ [Next]_vars => TypeInv'  BY TypeStep
<1>4. QED  BY <1>1, <1>2, <1>3, PTL DEF Spec, DecidedOnceUnlessRaced

-----------------------------------------------------------------------------
(* Requests and grants agree.                                              *)

\* A handler whose approval of request r is stored and whose grant is not yet.
Storing(k, r) == k.pc \in {"grants", "put"} /\ k.kind = "approve" /\ k.r = r

\* A stored approval stands, or the user is an exception.
StoringApproved ==
  \A c \in Calls, r \in Requests :
    Storing(call[c], r) => request[r].status = "approved" \/ request[r].user \in raced

GrantedExist == \A r \in granted : request[r].status # "none"

\* GrantsFollowDecisions, where only an approval that is already stored excuses
\* a missing grant: one that has yet to be stored may still stop without trace.
Agree ==
  \A r \in Requests : request[r].user \notin raced =>
    /\ request[r].status = "approved" =>
         r \in granted \cup lost \/ \E c \in Calls : Storing(call[c], r)
    /\ request[r].status \in {"pending", "rejected"} => r \notin granted
    /\ request[r].status = "pending" =>
         \A s \in Requests : request[s].user = request[r].user /\ request[s].status = "pending" => s = r

GrantInv == TypeInv /\ StoringApproved /\ GrantedExist /\ Agree

\* Handlers change, none of them begins or ends to store an approval.
LEMMA QuietStep ==
  ASSUME GrantInv, UNCHANGED <<request, granted, lost>>, raced \subseteq raced',
         \A c \in Calls, r \in Requests : Storing(call'[c], r) <=> Storing(call[c], r)
  PROVE  StoringApproved' /\ GrantedExist' /\ Agree'
<1>1. StoringApproved'  BY DEF GrantInv, StoringApproved
<1>2. GrantedExist'  BY DEF GrantInv, GrantedExist
<1>3. Agree'  BY DEF GrantInv, Agree
<1>4. QED  BY <1>1, <1>2, <1>3

\* The same, when one handler becomes k.
LEMMA QuietCall ==
  ASSUME GrantInv, UNCHANGED <<request, granted, lost>>, raced \subseteq raced',
         NEW c \in Calls, NEW k, call' = [call EXCEPT ![c] = k],
         \A r \in Requests : Storing(k, r) <=> Storing(call[c], r)
  PROVE  StoringApproved' /\ GrantedExist' /\ Agree'
<1>1. call \in [Calls -> Call]  BY DEF GrantInv, TypeInv, TypeOK
<1>2. \A d \in Calls, r \in Requests : Storing(call'[d], r) <=> Storing(call[d], r)
  BY <1>1
<1>3. QED  BY <1>2, QuietStep

\* An approval that was stored gets its grant or stops: handler c is done with r.
LEMMA StoredStep ==
  ASSUME GrantInv, NEW c \in Calls, NEW r \in Requests, Storing(call[c], r),
         UNCHANGED request, call' = [call EXCEPT ![c] = Idle], raced \subseteq raced',
         \/ granted' = granted \cup {r} /\ lost' = lost
         \/ granted' = granted /\ lost' = lost \cup {r}
  PROVE  StoringApproved' /\ GrantedExist' /\ Agree'
<1>1. call \in [Calls -> Call] /\ Fits(call[c], request)
  BY DEF GrantInv, TypeInv, TypeOK
<1>2. ~Storing(Idle, r) /\ \A s \in Requests : ~Storing(Idle, s)
  BY DEF Storing, Idle
<1>3. \A d \in Calls, s \in Requests : Storing(call'[d], s) => Storing(call[d], s)
  BY <1>1, <1>2
<1>4. \A d \in Calls, s \in Requests : Storing(call[d], s) /\ s # r => Storing(call'[d], s)
  BY <1>1 DEF Storing
<1>5. StoringApproved'  BY <1>3 DEF GrantInv, StoringApproved
<1>6. request[r].status # "none"  BY <1>1 DEF Fits, Serves, Storing
<1>7. GrantedExist'  BY <1>6 DEF GrantInv, GrantedExist
<1>8. request[r].status = "approved" \/ request[r].user \in raced'
  BY DEF GrantInv, StoringApproved
<1>9. Agree'
  <2> SUFFICES ASSUME NEW s \in Requests, request[s].user \notin raced'
               PROVE /\ request[s].status = "approved" =>
                          s \in granted' \cup lost' \/ \E d \in Calls : Storing(call'[d], s)
                     /\ request[s].status \in {"pending", "rejected"} => s \notin granted'
                     /\ request[s].status = "pending" =>
                          \A x \in Requests : request[x].user = request[s].user
                                                /\ request[x].status = "pending" => x = s
    BY DEF Agree
  <2>1. CASE s = r  BY <1>8, <2>1
  <2>2. CASE s # r
    <3>1. s \in granted' <=> s \in granted  BY <2>2
    <3>2. s \in lost' <=> s \in lost  BY <2>2
    <3>3. QED  BY <1>4, <2>2, <3>1, <3>2 DEF GrantInv, Agree
  <2>3. QED  BY <2>1, <2>2
<1>10. QED  BY <1>5, <1>7, <1>9

\* A decision is written.
LEMMA DecideStep ==
  ASSUME GrantInv, NEW c \in Calls, Decide(c)
  PROVE  StoringApproved' /\ GrantedExist' /\ Agree'
<1> DEFINE k == call[c]
<1>1. /\ call \in [Calls -> Call] /\ request \in [Requests -> Request]
      /\ Fits(k, request) /\ k.pc = "decide" /\ k.r \in Requests /\ k.user = request[k.r].user
      /\ k.was = "pending" /\ k.kind \in {"approve", "reject", "extend"}
  BY DEF GrantInv, TypeInv, TypeOK, Decide, At, Fits, Serves
<1>2. /\ request' = [request EXCEPT ![k.r].status = Decision(k.kind)]
      /\ UNCHANGED <<granted, lost>> /\ raced' = raced \cup {v \in {k.user} : request[k.r].status # k.was}
      /\ Decision(k.kind) \in {"approved", "rejected", "pending"}
      /\ Decision(k.kind) = "approved" <=> k.kind = "approve"
  BY DEF Decide, Race, Decision
<1>3. /\ request'[k.r].status = Decision(k.kind)
      /\ \A s \in Requests : request'[s].user = request[s].user
      /\ \A s \in Requests : s # k.r => request'[s] = request[s]
      /\ raced \subseteq raced'
  BY <1>1, <1>2 DEF Request
<1>4. request[k.r].status = "pending" \/ request[k.r].user \in raced'
  BY <1>1, <1>2
<1>5. /\ \A d \in Calls : d # c => call'[d] = call[d]
      /\ \A s \in Requests : Storing(call'[c], s) <=> s = k.r /\ k.kind = "approve"
      /\ \A s \in Requests : ~Storing(call[c], s)
  <2>1. call' = [call EXCEPT ![c] = Idle]
          \/ (k.kind = "approve" /\ call' = [call EXCEPT ![c].pc = "grants"])
    BY DEF Decide, Done, AfterDecision
  <2>2. k.kind = "approve" => call' = [call EXCEPT ![c].pc = "grants"]
    BY DEF Decide, Done, AfterDecision
  <2>3. \A s \in Requests : ~Storing(Idle, s)  BY DEF Storing, Idle
  <2>4. CASE k.kind = "approve"
    <3>1. call'[c] = [k EXCEPT !.pc = "grants"]  BY <1>1, <2>2, <2>4
    <3>2. call'[c].pc = "grants" /\ call'[c].kind = "approve" /\ call'[c].r = k.r
      BY <1>1, <2>4, <3>1 DEF Call
    <3>3. QED  BY <1>1, <2>2, <2>4, <3>2 DEF Storing
  <2>5. CASE k.kind # "approve"
    BY <1>1, <2>1, <2>3, <2>5 DEF Storing
  <2>6. QED  BY <2>4, <2>5
<1>6. StoringApproved'
  <2> SUFFICES ASSUME NEW d \in Calls, NEW s \in Requests, Storing(call'[d], s)
               PROVE  request'[s].status = "approved" \/ request'[s].user \in raced'
    BY DEF StoringApproved
  <2>1. CASE d = c  BY <1>2, <1>3, <1>5, <2>1
  <2>2. CASE d # c
    <3>1. request[s].status = "approved" \/ request[s].user \in raced
      BY <1>5, <2>2 DEF GrantInv, StoringApproved
    <3>2. QED  BY <1>3, <1>4, <3>1
  <2>3. QED  BY <2>1, <2>2
<1>7. GrantedExist'  BY <1>2, <1>3 DEF GrantInv, GrantedExist
<1>8. Agree'
  <2> SUFFICES ASSUME NEW s \in Requests, request'[s].user \notin raced'
               PROVE /\ request'[s].status = "approved" =>
                          s \in granted' \cup lost' \/ \E d \in Calls : Storing(call'[d], s)
                     /\ request'[s].status \in {"pending", "rejected"} => s \notin granted'
                     /\ request'[s].status = "pending" =>
                          \A x \in Requests : request'[x].user = request'[s].user
                                                /\ request'[x].status = "pending" => x = s
    BY DEF Agree
  <2>1. request[s].user \notin raced /\ request'[s].user = request[s].user  BY <1>3
  <2>2. request'[s].status = "approved" =>
          s \in granted' \cup lost' \/ \E d \in Calls : Storing(call'[d], s)
    <3>1. CASE s = k.r  BY <1>2, <1>3, <1>5, <3>1
    <3>2. CASE s # k.r
      BY <1>2, <1>3, <1>5, <2>1, <3>2 DEF GrantInv, Agree
    <3>3. QED  BY <3>1, <3>2
  <2>3. request'[s].status \in {"pending", "rejected"} => s \notin granted'
    <3>1. CASE s = k.r
      <4>1. request[s].status = "pending"  BY <1>3, <1>4, <3>1
      <4>2. QED  BY <1>2, <2>1, <4>1 DEF GrantInv, Agree
    <3>2. CASE s # k.r  BY <1>2, <1>3, <2>1, <3>2 DEF GrantInv, Agree
    <3>3. QED  BY <3>1, <3>2
  <2>4. ASSUME request'[s].status = "pending", NEW x \in Requests,
               request'[x].user = request'[s].user, request'[x].status = "pending"
        PROVE  x = s
    <3>1. request[s].status = "pending"
      BY <1>3, <1>4, <2>4
    <3>2. request[x].status = "pending" /\ request[x].user = request[s].user
      BY <1>3, <1>4, <2>4
    <3>3. QED  BY <2>1, <3>1, <3>2 DEF GrantInv, Agree
  <2>5. QED  BY <2>2, <2>3, <2>4
<1>9. QED  BY <1>6, <1>7, <1>8

\* A request is stored.
LEMMA InsertStep ==
  ASSUME GrantInv, NEW c \in Calls, NEW r \in Requests, InsertRequest(c, r)
  PROVE  StoringApproved' /\ GrantedExist' /\ Agree'
<1> DEFINE u == call[c].user
<1>1. /\ call \in [Calls -> Call] /\ request \in [Requests -> Request]
      /\ \A d \in Calls : Fits(call[d], request)
      /\ call[c].pc = "insert" /\ request[r].status = "none"
  BY DEF GrantInv, TypeInv, TypeOK, InsertRequest, At
<1>2. /\ request' = [request EXCEPT ![r] = [status |-> "pending", user |-> u]]
      /\ call' = [call EXCEPT ![c] = Idle] /\ UNCHANGED <<granted, lost>>
      /\ raced' = raced \cup {v \in {u} : Pending(u) # {}}
  BY DEF InsertRequest, Race, Done
<1>3. /\ request'[r].status = "pending" /\ request'[r].user = u
      /\ \A s \in Requests : s # r => request'[s] = request[s]
      /\ raced \subseteq raced'
  BY <1>1, <1>2
<1>4. /\ \A d \in Calls, s \in Requests : Storing(call'[d], s) <=> Storing(call[d], s)
      /\ \A d \in Calls : ~Storing(call[d], r)
  BY <1>1, <1>2 DEF Storing, Idle, Fits, Serves
<1>5. StoringApproved'
  BY <1>3, <1>4 DEF GrantInv, StoringApproved
<1>6. GrantedExist'  BY <1>1, <1>2, <1>3 DEF GrantInv, GrantedExist
<1>7. r \notin granted  BY <1>1 DEF GrantInv, GrantedExist
<1>8. u \notin raced' => \A x \in Requests : request[x].user = u => request[x].status # "pending"
  BY <1>2 DEF Pending
<1>9. Agree'
  <2> SUFFICES ASSUME NEW s \in Requests, request'[s].user \notin raced'
               PROVE /\ request'[s].status = "approved" =>
                          s \in granted' \cup lost' \/ \E d \in Calls : Storing(call'[d], s)
                     /\ request'[s].status \in {"pending", "rejected"} => s \notin granted'
                     /\ request'[s].status = "pending" =>
                          \A x \in Requests : request'[x].user = request'[s].user
                                                /\ request'[x].status = "pending" => x = s
    BY DEF Agree
  <2>1. CASE s = r
    BY <1>2, <1>3, <1>7, <1>8, <2>1
  <2>2. CASE s # r
    <3>1. request'[s] = request[s] /\ request[s].user \notin raced  BY <1>3, <2>2
    <3>2. request[s].status = "pending" => request[s].user # u  BY <1>3, <1>8, <3>1
    <3>3. QED  BY <1>2, <1>3, <1>4, <3>1, <3>2 DEF GrantInv, Agree
  <2>3. QED  BY <2>1, <2>2
<1>10. QED  BY <1>5, <1>6, <1>9

\* A handler that was idle starts; it stores no approval yet.
LEMMA StartStep ==
  ASSUME GrantInv, NEW c \in Calls, NEW k, Accept(c, k), \A r \in Requests : ~Storing(k, r)
  PROVE  StoringApproved' /\ GrantedExist' /\ Agree'
<1>1. \A r \in Requests : ~Storing(call[c], r)  BY DEF Accept, At, Storing
<1>2. call' = [call EXCEPT ![c] = k] /\ UNCHANGED <<request, granted, lost, raced>>
  BY DEF Accept, ghosts
<1>3. QED  BY <1>1, <1>2, QuietCall

\* A handler that knows which grant it writes goes on.
LEMMA PutStep ==
  ASSUME GrantInv, UNCHANGED <<request, granted, lost, raced>>,
         NEW c \in Calls, NEW g, NEW exp, NEW rows, call[c].pc = "grants",
         call' = [call EXCEPT ![c].pc = "put", ![c].g = g, ![c].exp = exp, ![c].seen = rows]
  PROVE  StoringApproved' /\ GrantedExist' /\ Agree'
<1> DEFINE k == [call[c] EXCEPT !.pc = "put", !.g = g, !.exp = exp, !.seen = rows]
<1>1. call \in [Calls -> Call]  BY DEF GrantInv, TypeInv, TypeOK
<1>2. k.pc = "put" /\ k.kind = call[c].kind /\ k.r = call[c].r  BY <1>1 DEF Call
<1>3. call' = [call EXCEPT ![c] = k]  BY <1>1
<1> HIDE DEF k
<1>4. \A r \in Requests : Storing(k, r) <=> Storing(call[c], r)  BY <1>2 DEF Storing
<1>5. QED  BY <1>3, <1>4, QuietCall

\* Every step keeps requests and grants in agreement.
LEMMA AgreeStep == GrantInv /\ [Next]_vars => StoringApproved' /\ GrantedExist' /\ Agree'
<1> SUFFICES ASSUME GrantInv, [Next]_vars PROVE StoringApproved' /\ GrantedExist' /\ Agree'  OBVIOUS
<1> DEFINE Goal == StoringApproved' /\ GrantedExist' /\ Agree'
<1>0. call \in [Calls -> Call] /\ \A c \in Calls : Fits(call[c], request)
  BY DEF GrantInv, TypeInv, TypeOK
<1>I. \A r \in Requests : ~Storing(Idle, r)  BY DEF Storing, Idle
<1>1. ASSUME NEW c \in Calls, NEW u \in Users, CreateRequest(c, u) PROVE Goal
  <2> DEFINE k == [Idle EXCEPT !.pc = "insert", !.kind = "create", !.user = u]
  <2>1. k.pc = "insert" /\ Accept(c, k)  BY <1>1 DEF CreateRequest, Idle
  <2> HIDE DEF k
  <2>2. QED  BY <2>1, StartStep DEF Storing
<1>2. ASSUME NEW c \in Calls, NEW kind \in Kind, NEW r \in Requests, NEW d \in 1..MaxDuration,
             Review(c, kind, r, d)
      PROVE Goal
  <2> DEFINE k == [Idle EXCEPT !.pc = "decide", !.kind = kind, !.r = r, !.dur = d,
                               !.user = request[r].user, !.was = request[r].status]
  <2>1. k.pc = "decide" /\ Accept(c, k)  BY <1>2 DEF Review, Idle
  <2> HIDE DEF k
  <2>2. QED  BY <2>1, StartStep DEF Storing
<1>3. ASSUME NEW c \in Calls, NEW r \in Requests, NEW d \in 1..MaxDuration, ExtendRequest(c, r, d)
      PROVE Goal
  <2> DEFINE k == [Idle EXCEPT !.kind = "extend", !.r = r, !.dur = d,
                     !.user = request[r].user, !.was = request[r].status,
                     !.pc = IF request[r].status = "pending" THEN "decide" ELSE "grants"]
  <2>1. k.kind = "extend" /\ Accept(c, k)  BY <1>3 DEF ExtendRequest, Idle
  <2> HIDE DEF k
  <2>2. QED  BY <2>1, StartStep DEF Storing
<1>4. ASSUME NEW c \in Calls, NEW g \in Grants, RevokeGrant(c, g) PROVE Goal
  <2> DEFINE k == [Idle EXCEPT !.pc = "put", !.kind = "revoke", !.g = g,
                     !.user = grant[g].user, !.seen = [NoRows EXCEPT ![g] = grant[g]]]
  <2>1. k.kind = "revoke" /\ Accept(c, k)  BY <1>4 DEF RevokeGrant, Idle
  <2> HIDE DEF k
  <2>2. QED  BY <2>1, StartStep DEF Storing
<1>5. ASSUME NEW c \in Calls, ScanBegin(c) PROVE Goal
  <2> DEFINE k == [Idle EXCEPT !.pc = "users", !.seen = grant]
  <2>1. k.pc = "users"  BY DEF Idle
  <2>2. call' = [call EXCEPT ![c] = k] /\ UNCHANGED <<request, granted, lost, raced>>
          /\ call[c].pc = "idle"
    BY <1>5 DEF ScanBegin, ghosts, At
  <2> HIDE DEF k
  <2>3. \A r \in Requests : Storing(k, r) <=> Storing(call[c], r)  BY <2>1, <2>2 DEF Storing
  <2>4. QED  BY <2>2, <2>3, QuietCall
<1>6. ASSUME NEW c \in Calls, NEW r \in Requests, InsertRequest(c, r) PROVE Goal
  BY <1>6, InsertStep
<1>7. ASSUME NEW c \in Calls, Decide(c) PROVE Goal
  BY <1>7, DecideStep
<1>8. ASSUME NEW c \in Calls, ReadGrantsApprove(c) PROVE Goal
  <2> DEFINE rows(g) == IF g = None THEN NoRows ELSE [NoRows EXCEPT ![g] = grant[g]]
             put(g, exp) == call' = [call EXCEPT ![c].pc = "put", ![c].g = g, ![c].exp = exp,
                                                 ![c].seen = rows(g)]
  <2>1. UNCHANGED <<request, granted, lost, raced>> /\ call[c].pc = "grants"
    BY <1>8 DEF ReadGrantsApprove, ghosts, At
  <2>2. ASSUME NEW g, NEW exp, put(g, exp) PROVE Goal
    BY <2>1, <2>2, PutStep
  <2>3. \/ \E g \in Running(call[c].user) : put(g, Longer(grant[g].exp, clock + call[c].dur))
        \/ put(None, clock + call[c].dur)
    BY <1>8 DEF ReadGrantsApprove
  <2> HIDE DEF put, Goal
  <2>4. QED  BY <2>2, <2>3
<1>9. ASSUME NEW c \in Calls, ReadGrantsExtend(c) PROVE Goal
  <2>1. /\ UNCHANGED <<request, granted, lost, raced>> /\ call[c].pc = "grants" /\ call[c].kind = "extend"
        /\ \/ call' = [call EXCEPT ![c] = Idle]
           \/ \E g \in Grants :
                call' = [call EXCEPT ![c].pc = "put", ![c].g = g, ![c].exp = clock + call[c].dur,
                                     ![c].seen = [NoRows EXCEPT ![g] = grant[g]]]
    BY <1>9 DEF ReadGrantsExtend, ghosts, Done, At
  <2>2. \A r \in Requests : ~Storing(call[c], r)  BY <2>1 DEF Storing
  <2>3. CASE call' = [call EXCEPT ![c] = Idle]  BY <1>I, <2>1, <2>2, <2>3, QuietCall
  <2>4. ASSUME NEW g \in Grants,
               call' = [call EXCEPT ![c].pc = "put", ![c].g = g, ![c].exp = clock + call[c].dur,
                                    ![c].seen = [NoRows EXCEPT ![g] = grant[g]]]
        PROVE Goal
    BY <2>1, <2>4, PutStep
  <2>5. QED  BY <2>1, <2>3, <2>4
<1>10. ASSUME NEW c \in Calls, NEW g \in Grants, InsertGrant(c, g) PROVE Goal
  <2>1. call[c].pc = "put" /\ call[c].kind = "approve" /\ call[c].r \in Requests
    BY <1>0, <1>10 DEF InsertGrant, At, Fits, Serves
  <2>2. Storing(call[c], call[c].r)  BY <2>1 DEF Storing
  <2>3. /\ UNCHANGED <<request, lost>> /\ call' = [call EXCEPT ![c] = Idle]
        /\ granted' = granted \cup {call[c].r} /\ raced \subseteq raced'
    BY <1>10 DEF InsertGrant, Done, Race
  <2>4. QED  BY <2>1, <2>2, <2>3, StoredStep
<1>11. ASSUME NEW c \in Calls, UpdateGrant(c) PROVE Goal
  <2>1. /\ call[c].pc = "put" /\ UNCHANGED <<request, lost>> /\ call' = [call EXCEPT ![c] = Idle]
        /\ raced \subseteq raced' /\ granted' = granted \cup {r \in {call[c].r} : call[c].kind = "approve"}
    BY <1>11 DEF UpdateGrant, Done, Race, At
  <2>2. CASE call[c].kind = "approve"
    <3>1. call[c].r \in Requests  BY <1>0, <2>1, <2>2 DEF Fits, Serves
    <3>2. Storing(call[c], call[c].r) /\ granted' = granted \cup {call[c].r}
      BY <2>1, <2>2 DEF Storing
    <3>3. QED  BY <2>1, <3>1, <3>2, StoredStep
  <2>3. CASE call[c].kind # "approve"
    <3>1. \A r \in Requests : ~Storing(call[c], r)  BY <2>3 DEF Storing
    <3>2. granted' = granted  BY <2>1, <2>3
    <3>3. QED  BY <1>I, <2>1, <3>1, <3>2, QuietCall
  <2>4. QED  BY <2>2, <2>3
<1>12. ASSUME NEW c \in Calls, ScanUsers(c) PROVE Goal
  <2>1. /\ UNCHANGED <<request, granted, lost, raced>> /\ call[c].pc = "users"
        /\ \/ call' = [call EXCEPT ![c] = Idle]
           \/ \E due, disabled :
                call' = [call EXCEPT ![c].pc = "scan", ![c].due = due, ![c].disabled = disabled]
    BY <1>12 DEF ScanUsers, ghosts, Done, At
  <2>2. \A r \in Requests : ~Storing(call[c], r)  BY <2>1 DEF Storing
  <2>3. CASE call' = [call EXCEPT ![c] = Idle]  BY <1>I, <2>1, <2>2, <2>3, QuietCall
  <2>4. ASSUME NEW due, NEW disabled,
               call' = [call EXCEPT ![c].pc = "scan", ![c].due = due, ![c].disabled = disabled]
        PROVE Goal
    <3> DEFINE k == [call[c] EXCEPT !.pc = "scan", !.due = due, !.disabled = disabled]
    <3>1. k.pc = "scan"  BY <1>0 DEF Call
    <3>2. call' = [call EXCEPT ![c] = k]  BY <1>0, <2>4
    <3> HIDE DEF k
    <3>3. \A r \in Requests : ~Storing(k, r)  BY <3>1 DEF Storing
    <3>4. QED  BY <2>1, <2>2, <3>2, <3>3, QuietCall
  <2>5. QED  BY <2>1, <2>3, <2>4
<1>13. ASSUME NEW c \in Calls, NEW g \in Grants, ScanExpire(c, g) PROVE Goal
  <2> DEFINE k == [call[c] EXCEPT !.due = @ \ {g}]
  <2>1. /\ UNCHANGED <<request, granted, lost>> /\ raced \subseteq raced' /\ call[c].pc = "scan"
        /\ call' = [call EXCEPT ![c] = Idle] \/ call' = [call EXCEPT ![c].due = @ \ {g}]
    BY <1>13 DEF ScanExpire, Race, Done, At
  <2>2. \A r \in Requests : ~Storing(call[c], r)  BY <2>1 DEF Storing
  <2>3. k.pc = "scan"  BY <1>0, <2>1 DEF Call
  <2>4. call' = [call EXCEPT ![c] = Idle] \/ call' = [call EXCEPT ![c] = k]  BY <1>0, <2>1
  <2> HIDE DEF k
  <2>5. \A r \in Requests : ~Storing(k, r)  BY <2>3 DEF Storing
  <2>6. QED  BY <1>I, <2>1, <2>2, <2>4, <2>5, QuietCall
<1>14. ASSUME NEW c \in Calls, NEW g \in Grants, ScanRevoke(c, g) PROVE Goal
  <2>1. /\ UNCHANGED <<request, granted, lost, raced>> /\ call[c].pc = "scan"
        /\ call' = [call EXCEPT ![c] = Idle]
    BY <1>14 DEF ScanRevoke, ghosts, Done, At
  <2>2. \A r \in Requests : ~Storing(call[c], r)  BY <2>1 DEF Storing
  <2>3. QED  BY <1>I, <2>1, <2>2, QuietCall
<1>15. ASSUME NEW u \in Users, Toggle(u) PROVE Goal
  BY <1>15, QuietStep DEF Toggle, ghosts
<1>16. ASSUME NEW c \in Calls, Stop(c) PROVE Goal
  <2>1. /\ UNCHANGED <<request, granted, raced>> /\ call' = [call EXCEPT ![c] = Idle]
        /\ lost' = lost \cup {r \in {call[c].r} : call[c].kind = "approve" /\ call[c].pc # "decide"}
        /\ call[c].pc # "idle"
    BY <1>16 DEF Stop, Done, At
  <2>2. CASE call[c].kind = "approve" /\ call[c].pc # "decide"
    <3>1. call[c].pc \in {"grants", "put"}  BY <1>0, <2>1, <2>2 DEF Call, Pc, Fits
    <3>2. call[c].r \in Requests  BY <1>0, <2>2, <3>1 DEF Fits, Serves
    <3>3. Storing(call[c], call[c].r) /\ lost' = lost \cup {call[c].r}
      BY <2>1, <2>2, <3>1 DEF Storing
    <3>4. QED  BY <2>1, <3>2, <3>3, StoredStep
  <2>3. CASE ~(call[c].kind = "approve" /\ call[c].pc # "decide")
    <3>1. \A r \in Requests : ~Storing(call[c], r)  BY <2>3 DEF Storing
    <3>2. lost' = lost  BY <2>1, <2>3
    <3>3. QED  BY <1>I, <2>1, <3>1, <3>2, QuietCall
  <2>4. QED  BY <2>2, <2>3
<1>17. CASE Tick
  BY <1>17, QuietStep DEF Tick, ghosts
<1>18. CASE UNCHANGED vars
  BY <1>18, QuietStep DEF vars, ghosts
<1>19. QED
  BY <1>1, <1>2, <1>3, <1>4, <1>5, <1>6, <1>7, <1>8, <1>9, <1>10, <1>11, <1>12, <1>13, <1>14,
     <1>15, <1>16, <1>17, <1>18 DEF Next, Handle

\* Requests and grants agree in every reachable state: an approved request has
\* its grant, is about to get it or was stopped on the way; a request without
\* approval has none; and of two requests of one user one at most is pending.
THEOREM GrantsFollow == Spec => []GrantsFollowDecisions
<1>1. Init => GrantInv
  <2> SUFFICES ASSUME Init PROVE GrantInv  OBVIOUS
  <2>1. TypeInv  BY TypeInit
  <2>2. \A c \in Calls, r \in Requests : ~Storing(call[c], r)
    BY DEF Init, Idle, Storing
  <2>3. \A r \in Requests : request[r].status = "none"  BY DEF Init, NoRequest
  <2>4. QED
    BY <2>1, <2>2, <2>3 DEF Init, GrantInv, StoringApproved, GrantedExist, Agree
<1>2. GrantInv /\ [Next]_vars => GrantInv'
  BY TypeStep, AgreeStep DEF GrantInv
<1>3. GrantInv => GrantsFollowDecisions
  <2> SUFFICES ASSUME GrantInv, NEW r \in Requests, request[r].user \notin raced
               PROVE /\ request[r].status = "approved" => r \in granted \cup lost \/ Deciding(r) # {}
                     /\ request[r].status \in {"pending", "rejected"} => r \notin granted
                     /\ request[r].status = "pending" => Pending(request[r].user) = {r}
    BY DEF GrantsFollowDecisions
  <2>1. \A c \in Calls : Storing(call[c], r) => c \in Deciding(r)
    BY DEF Storing, Deciding, At
  <2>2. request[r].status = "pending" => Pending(request[r].user) = {r}
    BY DEF GrantInv, Agree, Pending
  <2>3. QED  BY <2>1, <2>2 DEF GrantInv, Agree
<1>4. QED  BY <1>1, <1>2, <1>3, PTL DEF Spec

-----------------------------------------------------------------------------
(* Access ends on purpose, and what was revoked stays revoked.             *)

\* A set of times has a latest one.
LEMMA MaxIs ==
  ASSUME NEW S, S \subseteq Time, S # {}
  PROVE  Max(S) \in S /\ \A y \in S : y <= Max(S)
<1> DEFINE T == {n \in Nat : \A y \in S : y <= n}
<1>1. Time \subseteq Nat /\ \A y \in Time : y <= MaxTime + MaxDuration
  BY AccessGrantsAssumption DEF Time
<1>2. MaxTime + MaxDuration \in T
  BY <1>1, AccessGrantsAssumption
<1>3. PICK n \in T : \A m \in T : ~(m < n)
  BY <1>2, LeastNumber
<1>4. n \in S
  <2> SUFFICES ASSUME n \notin S PROVE FALSE
    OBVIOUS
  <2>1. \A y \in S : y < n /\ y \in Nat
    BY <1>1, <1>3
  <2>2. n - 1 \in Nat /\ n - 1 < n
    BY <1>3, <2>1
  <2>3. n - 1 \in T
    BY <2>1, <2>2
  <2> QED
    BY <1>3, <2>2, <2>3
<1>5. \E x \in S : \A y \in S : x >= y
  BY <1>1, <1>3, <1>4
<1>6. Max(S) \in S /\ \A y \in S : Max(S) >= y
  BY <1>5 DEF Max
<1> QED
  BY <1>1, <1>6

\* The latest time of some grants, in one table and in another: if every grant in time
\* of the one has its like in the other, the other's latest is no earlier.
EndsOf(rows, G) == {0} \cup {rows[g].exp : g \in G}

\* The latest end grows with the set of grants and with their ends.
LEMMA LatestGrows ==
  ASSUME NEW old \in [Grants -> Grant], NEW new \in [Grants -> Grant],
         NEW G \in SUBSET Grants, NEW H \in SUBSET Grants,
         \A g \in G : g \in H /\ new[g].exp >= old[g].exp
  PROVE  Max(EndsOf(new, H)) >= Max(EndsOf(old, G))
<1>1. /\ EndsOf(old, G) \subseteq Time /\ EndsOf(new, H) \subseteq Time
      /\ EndsOf(old, G) # {} /\ EndsOf(new, H) # {}
  BY TimeFacts DEF EndsOf, Grant
<1>2. Max(EndsOf(old, G)) \in EndsOf(old, G)
  BY <1>1, MaxIs
<1>3. \A y \in EndsOf(new, H) : y <= Max(EndsOf(new, H))
  BY <1>1, MaxIs
<1>4. \A t \in Time : t \in Int
  BY AccessGrantsAssumption DEF Time
<1>5. Max(EndsOf(new, H)) \in Time /\ Max(EndsOf(old, G)) \in Time
  BY <1>1, MaxIs
<1>6. CASE Max(EndsOf(old, G)) = 0
  <2>1. 0 \in EndsOf(new, H)
    BY DEF EndsOf
  <2> QED
    BY <1>3, <1>4, <1>5, <1>6, <2>1
<1>7. CASE Max(EndsOf(old, G)) # 0
  <2>1. PICK g \in G : Max(EndsOf(old, G)) = old[g].exp
    BY <1>2, <1>7 DEF EndsOf
  <2>2. new[g].exp \in EndsOf(new, H) /\ new[g].exp >= old[g].exp
    BY <2>1 DEF EndsOf
  <2>3. new[g].exp \in Time
    BY <1>1, <2>2
  <2> QED
    BY <1>3, <1>4, <1>5, <2>1, <2>2, <2>3
<1> QED
  BY <1>6, <1>7

\* A grant belongs to the user of the request that it was stored for.
GrantsOfAskers ==
  \A g \in Grants : grant[g].status # "none" =>
    /\ grant[g].of \in Requests /\ request[grant[g].of].status # "none"
    /\ request[grant[g].of].user = grant[g].user

\* The rows a handler has read may have changed, but not whose they are; an approval
\* prolongs what it found, and the job ends what was over at time t.
Knows(k, rows, t) ==
  /\ \A g \in Grants : k.seen[g].status # "none" =>
       /\ rows[g].status # "none"
       /\ rows[g].user = k.seen[g].user /\ rows[g].of = k.seen[g].of
  /\ k.pc = "put" /\ k.g # None =>
       /\ k.seen[k.g].user = k.user
       /\ k.kind = "approve" => k.exp >= k.seen[k.g].exp
  /\ k.pc = "scan" => \A g \in k.due \ k.disabled : k.seen[g].exp <= t

OwnInv ==
  /\ TypeInv /\ GrantsOfAskers
  /\ \A c \in Calls : Knows(call[c], grant, clock)

\* Rows that exist keep their user and their request.
SameOwners(old, new) ==
  \A g \in Grants : old[g].status # "none" =>
    new[g].status # "none" /\ new[g].user = old[g].user /\ new[g].of = old[g].of

\* The invariant holds after a step if grants keep their owners, those of new grants
\* are right, and the one handler that changes knows what it must.
LEMMA OwnKept ==
  ASSUME OwnInv, Stable(request, request'), SameOwners(grant, grant'), clock' >= clock,
         clock \in Int, clock' \in Int, Time \subseteq Int,
         \A g \in Grants : grant[g].status = "none" /\ grant'[g].status # "none" =>
           /\ grant'[g].of \in Requests /\ request'[grant'[g].of].status # "none"
           /\ request'[grant'[g].of].user = grant'[g].user,
         NEW c \in Calls, NEW k, call' = [call EXCEPT ![c] = k], Knows(k, grant', clock')
  PROVE  GrantsOfAskers' /\ \A d \in Calls : Knows(call'[d], grant', clock')
<1>1. call \in [Calls -> Call]
  BY DEF OwnInv, TypeInv, TypeOK
<1>2. GrantsOfAskers'
  BY DEF OwnInv, GrantsOfAskers, SameOwners, Stable
<1>3. ASSUME NEW d \in Calls PROVE Knows(call[d], grant', clock')
  <2>1. Knows(call[d], grant, clock) /\ call[d] \in Call
    BY <1>1 DEF OwnInv
  <2>2. \A g \in Grants : call[d].seen[g].status # "none" =>
          /\ grant'[g].status # "none"
          /\ grant'[g].user = call[d].seen[g].user /\ grant'[g].of = call[d].seen[g].of
    BY <2>1 DEF Knows, SameOwners
  <2>3. call[d].pc = "scan" =>
          \A g \in call[d].due \ call[d].disabled : call[d].seen[g].exp <= clock'
    <3>1. \A g \in call[d].due : call[d].seen[g].exp \in Int
      BY <2>1 DEF Call, Grant
    <3> QED
      BY <2>1, <3>1 DEF Knows
  <2> QED
    BY <2>1, <2>2, <2>3 DEF Knows
<1>4. \A d \in Calls : call'[d] = IF d = c THEN k ELSE call[d]
  BY <1>1
<1> QED
  BY <1>2, <1>3, <1>4

\* A handler that begins or ends has read nothing.
LEMMA IdleKnows == \A rows, t : Knows(Idle, rows, t)
BY DEF Knows, Idle, NoRows, NoGrant

\* The same, when only the handler changes.
LEMMA OwnQuiet ==
  ASSUME OwnInv, UNCHANGED <<request, grant, clock>>,
         NEW c \in Calls, NEW k, call' = [call EXCEPT ![c] = k], Knows(k, grant, clock)
  PROVE  GrantsOfAskers' /\ \A d \in Calls : Knows(call'[d], grant', clock')
<1>1. clock \in Int /\ Time \subseteq Int
  BY AccessGrantsAssumption DEF OwnInv, TypeInv, TypeOK, Time
<1>2. Stable(request, request') /\ SameOwners(grant, grant') /\ clock' >= clock
  BY <1>1 DEF Stable, SameOwners
<1>3. Knows(k, grant', clock')
  OBVIOUS
<1> QED
  BY <1>1, <1>2, <1>3, OwnKept

\* What every handler knows stays true in every step.
LEMMA OwnStep == OwnInv /\ [Next]_vars => OwnInv'
<1> SUFFICES ASSUME OwnInv, [Next]_vars
             PROVE  GrantsOfAskers' /\ \A d \in Calls : Knows(call'[d], grant', clock')
  BY TypeStep DEF OwnInv
<1>0. /\ request \in [Requests -> Request] /\ grant \in [Grants -> Grant]
      /\ clock \in 0..MaxTime /\ call \in [Calls -> Call]
      /\ \A c \in Calls : Fits(call[c], request) /\ Knows(call[c], grant, clock)
      /\ TypeInv /\ Stable(request, request')
  BY TypeStep DEF OwnInv, TypeInv, TypeOK
<1>N. None \notin Users \cup Requests \cup Grants
  BY AccessGrantsAssumption
<1>T. clock \in Int /\ Time \subseteq Int
  BY <1>0, AccessGrantsAssumption DEF Time
<1>I. ASSUME NEW c \in Calls, Done(c), UNCHANGED <<request, grant, clock>>
      PROVE  GrantsOfAskers' /\ \A d \in Calls : Knows(call'[d], grant', clock')
  BY <1>I, OwnQuiet, IdleKnows DEF Done
<1>1. ASSUME NEW c \in Calls, NEW u \in Users, CreateRequest(c, u)
      PROVE  GrantsOfAskers' /\ \A d \in Calls : Knows(call'[d], grant', clock')
  <2> DEFINE k == [Idle EXCEPT !.pc = "insert", !.kind = "create", !.user = u]
  <2>1. Accept(c, k)
    BY <1>1 DEF CreateRequest
  <2>2. k.pc = "insert" /\ k.seen = NoRows
    BY DEF Idle
  <2> HIDE DEF k
  <2>3. Knows(k, grant, clock)
    BY <2>2 DEF Knows, NoRows, NoGrant
  <2> QED
    BY <2>1, <2>3, OwnQuiet DEF Accept
<1>2. ASSUME NEW c \in Calls, NEW kind \in Kind, NEW r \in Requests, NEW d \in 1..MaxDuration,
             Review(c, kind, r, d)
      PROVE  GrantsOfAskers' /\ \A x \in Calls : Knows(call'[x], grant', clock')
  <2> DEFINE k == [Idle EXCEPT !.pc = "decide", !.kind = kind, !.r = r, !.dur = d,
                               !.user = request[r].user, !.was = request[r].status]
  <2>1. Accept(c, k)
    BY <1>2 DEF Review
  <2>2. k.pc = "decide" /\ k.seen = NoRows
    BY DEF Idle
  <2> HIDE DEF k
  <2>3. Knows(k, grant, clock)
    BY <2>2 DEF Knows, NoRows, NoGrant
  <2> QED
    BY <2>1, <2>3, OwnQuiet DEF Accept
<1>3. ASSUME NEW c \in Calls, NEW r \in Requests, NEW d \in 1..MaxDuration, ExtendRequest(c, r, d)
      PROVE  GrantsOfAskers' /\ \A x \in Calls : Knows(call'[x], grant', clock')
  <2> DEFINE k == [Idle EXCEPT !.kind = "extend", !.r = r, !.dur = d,
                     !.user = request[r].user, !.was = request[r].status,
                     !.pc = IF request[r].status = "pending" THEN "decide" ELSE "grants"]
  <2>1. Accept(c, k)
    BY <1>3 DEF ExtendRequest
  <2>2. k.pc \in {"decide", "grants"} /\ k.seen = NoRows
    BY DEF Idle
  <2> HIDE DEF k
  <2>3. Knows(k, grant, clock)
    BY <2>2 DEF Knows, NoRows, NoGrant
  <2> QED
    BY <2>1, <2>3, OwnQuiet DEF Accept
<1>4. ASSUME NEW c \in Calls, NEW g \in Grants, RevokeGrant(c, g)
      PROVE  GrantsOfAskers' /\ \A x \in Calls : Knows(call'[x], grant', clock')
  <2> DEFINE rows == [NoRows EXCEPT ![g] = grant[g]]
             k == [Idle EXCEPT !.pc = "put", !.kind = "revoke", !.g = g,
                               !.user = grant[g].user, !.seen = rows]
  <2>1. Accept(c, k)
    BY <1>4 DEF RevokeGrant
  <2>2. \A x \in Grants : rows[x] = IF x = g THEN grant[g] ELSE NoGrant
    BY DEF NoRows
  <2> HIDE DEF rows
  <2>3. k.pc = "put" /\ k.kind = "revoke" /\ k.g = g /\ k.user = grant[g].user /\ k.seen = rows
    BY DEF Idle
  <2> HIDE DEF k
  <2>4. Knows(k, grant, clock)
    BY <2>2, <2>3 DEF Knows, NoGrant
  <2> QED
    BY <2>1, <2>4, OwnQuiet DEF Accept
<1>5. ASSUME NEW c \in Calls, ScanBegin(c)
      PROVE  GrantsOfAskers' /\ \A x \in Calls : Knows(call'[x], grant', clock')
  <2> DEFINE k == [Idle EXCEPT !.pc = "users", !.seen = grant]
  <2>1. call' = [call EXCEPT ![c] = k] /\ UNCHANGED <<request, grant, clock>>
    BY <1>5 DEF ScanBegin
  <2>2. k.pc = "users" /\ k.seen = grant
    BY DEF Idle
  <2> HIDE DEF k
  <2>3. Knows(k, grant, clock)
    BY <2>2 DEF Knows
  <2> QED
    BY <2>1, <2>3, OwnQuiet
<1>6. ASSUME NEW c \in Calls, NEW r \in Requests, InsertRequest(c, r)
      PROVE  GrantsOfAskers' /\ \A x \in Calls : Knows(call'[x], grant', clock')
  <2>1. call' = [call EXCEPT ![c] = Idle] /\ UNCHANGED <<grant, clock>>
    BY <1>6 DEF InsertRequest, Done
  <2>2. SameOwners(grant, grant') /\ clock' >= clock
    BY <1>T, <2>1 DEF SameOwners
  <2> QED
    BY <1>0, <1>T, <2>1, <2>2, IdleKnows, OwnKept
<1>7. ASSUME NEW c \in Calls, Decide(c)
      PROVE  GrantsOfAskers' /\ \A x \in Calls : Knows(call'[x], grant', clock')
  <2> DEFINE next == [call[c] EXCEPT !.pc = AfterDecision(call[c].kind)]
  <2>1. UNCHANGED <<grant, clock>> /\ \/ call' = [call EXCEPT ![c] = Idle]
                                      \/ call' = [call EXCEPT ![c] = next]
    BY <1>0, <1>7 DEF Decide, Done
  <2>2. SameOwners(grant, grant') /\ clock' >= clock
    BY <1>T, <2>1 DEF SameOwners
  <2>3. next.pc \in {"idle", "grants"} /\ next.seen = call[c].seen
    BY <1>0 DEF AfterDecision, Call
  <2> HIDE DEF next
  <2>4. Knows(next, grant', clock')
    BY <1>0, <2>1, <2>3 DEF Knows
  <2> QED
    BY <1>0, <1>T, <2>1, <2>2, <2>4, IdleKnows, OwnKept
<1>8. ASSUME NEW c \in Calls, ReadGrantsApprove(c)
      PROVE  GrantsOfAskers' /\ \A x \in Calls : Knows(call'[x], grant', clock')
  <2> DEFINE k == call[c]
             rows(g) == IF g = None THEN NoRows ELSE [NoRows EXCEPT ![g] = grant[g]]
             put(g, exp) == [k EXCEPT !.pc = "put", !.g = g, !.exp = exp, !.seen = rows(g)]
  <2>1. k \in Call /\ UNCHANGED <<request, grant, clock>>
    BY <1>0, <1>8 DEF ReadGrantsApprove
  <2>2. ASSUME NEW g \in Grants \cup {None}, NEW exp, call' = [call EXCEPT ![c] = put(g, exp)],
               g # None => grant[g].user = k.user /\ exp >= grant[g].exp
        PROVE  GrantsOfAskers' /\ \A x \in Calls : Knows(call'[x], grant', clock')
    <3>1. \A x \in Grants : rows(g)[x] = IF x = g THEN grant[g] ELSE NoGrant
      BY <1>N, <2>2 DEF NoRows
    <3> HIDE DEF rows
    <3>2. /\ put(g, exp).pc = "put" /\ put(g, exp).g = g /\ put(g, exp).exp = exp
          /\ put(g, exp).user = k.user /\ put(g, exp).seen = rows(g)
      BY <2>1 DEF Call
    <3> HIDE DEF put
    <3>3. Knows(put(g, exp), grant, clock)
      BY <2>2, <3>1, <3>2 DEF Knows, NoGrant
    <3> QED
      BY <2>1, <2>2, <3>3, OwnQuiet
  <2>3. ASSUME NEW g \in Running(k.user),
               call' = [call EXCEPT ![c] = put(g, Longer(grant[g].exp, clock + k.dur))]
        PROVE  GrantsOfAskers' /\ \A x \in Calls : Knows(call'[x], grant', clock')
    <3>1. g \in Grants /\ grant[g].user = k.user /\ grant[g].exp \in Time
      BY <1>0 DEF Running, Grant
    <3>2. clock + k.dur \in Time
      BY <1>0, <2>1, TimeFacts DEF Call
    <3>3. Longer(grant[g].exp, clock + k.dur) >= grant[g].exp
      BY <3>1, <3>2, TimeFacts
    <3> QED
      BY <2>2, <2>3, <3>1, <3>3
  <2>4. CASE call' = [call EXCEPT ![c] = put(None, clock + k.dur)]
    BY <2>2, <2>4
  <2> QED
    <3> HIDE DEF put
    <3>1. \/ \E g \in Running(k.user) :
               call' = [call EXCEPT ![c] = put(g, Longer(grant[g].exp, clock + k.dur))]
          \/ call' = [call EXCEPT ![c] = put(None, clock + k.dur)]
      BY <1>0, <1>8, ApproveReads DEF put
    <3> QED
      BY <2>3, <2>4, <3>1
<1>9. ASSUME NEW c \in Calls, ReadGrantsExtend(c)
      PROVE  GrantsOfAskers' /\ \A x \in Calls : Knows(call'[x], grant', clock')
  <2> DEFINE k == call[c]
             rows(g) == [NoRows EXCEPT ![g] = grant[g]]
             put(g) == [k EXCEPT !.pc = "put", !.g = g, !.exp = clock + k.dur, !.seen = rows(g)]
  <2>1. k \in Call /\ k.pc = "grants" /\ k.kind = "extend" /\ Fits(k, request)
          /\ UNCHANGED <<request, grant, clock>>
    BY <1>0, <1>9 DEF ReadGrantsExtend, At
  <2>2. CASE Done(c)
    BY <1>I, <2>1, <2>2
  <2>3. ASSUME NEW g \in Grants, grant[g].of = k.r, MayExtend(grant[g]),
               call' = [call EXCEPT ![c] = put(g)]
        PROVE  GrantsOfAskers' /\ \A x \in Calls : Knows(call'[x], grant', clock')
    <3>1. grant[g].user = k.user
      BY <2>1, <2>3 DEF MayExtend, OwnInv, GrantsOfAskers, Fits, Serves
    <3>2. \A x \in Grants : rows(g)[x] = IF x = g THEN grant[g] ELSE NoGrant
      BY DEF NoRows
    <3> HIDE DEF rows
    <3>3. /\ put(g).pc = "put" /\ put(g).kind = "extend" /\ put(g).g = g
          /\ put(g).user = k.user /\ put(g).seen = rows(g)
      BY <2>1 DEF Call
    <3> HIDE DEF put
    <3>4. Knows(put(g), grant, clock)
      BY <3>1, <3>2, <3>3 DEF Knows, NoGrant
    <3> QED
      BY <2>1, <2>3, <3>4, OwnQuiet
  <2> QED
    BY <1>9, <2>2, <2>3 DEF ReadGrantsExtend
<1>10. ASSUME NEW c \in Calls, NEW g \in Grants, InsertGrant(c, g)
       PROVE  GrantsOfAskers' /\ \A x \in Calls : Knows(call'[x], grant', clock')
  <2> DEFINE k == call[c]
             row == [status |-> "active", user |-> k.user, of |-> k.r, exp |-> k.exp]
  <2>1. k.r \in Requests /\ request[k.r].status # "none" /\ request[k.r].user = k.user
    BY <1>0, <1>10 DEF InsertGrant, At, Fits, Serves
  <2>2. grant' = [grant EXCEPT ![g] = row] /\ grant[g].status = "none" /\ UNCHANGED <<request, clock>>
          /\ call' = [call EXCEPT ![c] = Idle]
    BY <1>10 DEF InsertGrant, Done
  <2>3. \A x \in Grants : grant'[x] = IF x = g THEN row ELSE grant[x]
    BY <1>0, <2>2
  <2>4. SameOwners(grant, grant') /\ clock' >= clock
    BY <1>T, <2>2, <2>3 DEF SameOwners
  <2>5. \A x \in Grants : grant[x].status = "none" /\ grant'[x].status # "none" =>
          /\ grant'[x].of \in Requests /\ request'[grant'[x].of].status # "none"
          /\ request'[grant'[x].of].user = grant'[x].user
    BY <2>1, <2>2, <2>3
  <2> QED
    BY <1>0, <1>T, <2>2, <2>4, <2>5, IdleKnows, OwnKept
<1>11. ASSUME NEW c \in Calls, UpdateGrant(c)
       PROVE  GrantsOfAskers' /\ \A x \in Calls : Knows(call'[x], grant', clock')
  <2> DEFINE k == call[c]
  <2>1. k \in Call /\ k.pc = "put" /\ k.g \in Grants /\ k.seen[k.g].status = "active"
    BY <1>0, <1>11 DEF UpdateGrant, At, Fits, Call
  <2>2. k.seen[k.g] \in Grant
    BY <2>1 DEF Call
  <2>3. Written(k).status # "none" /\ Written(k).user = k.seen[k.g].user
          /\ Written(k).of = k.seen[k.g].of
    BY <2>1, <2>2 DEF Written, Grant
  <2>4. grant[k.g].status # "none" /\ grant[k.g].user = k.seen[k.g].user
          /\ grant[k.g].of = k.seen[k.g].of
    BY <1>0, <2>1 DEF Knows
  <2>5. grant' = [grant EXCEPT ![k.g] = Written(k)] /\ UNCHANGED <<request, clock>>
          /\ call' = [call EXCEPT ![c] = Idle]
    BY <1>11 DEF UpdateGrant, Done
  <2>6. \A x \in Grants : grant'[x] = IF x = k.g THEN Written(k) ELSE grant[x]
    BY <1>0, <2>5
  <2>7. SameOwners(grant, grant') /\ clock' >= clock
    BY <1>T, <2>3, <2>4, <2>5, <2>6 DEF SameOwners
  <2>8. \A x \in Grants : ~(grant[x].status = "none" /\ grant'[x].status # "none")
    BY <2>4, <2>6
  <2> QED
    BY <1>0, <1>T, <2>5, <2>7, <2>8, IdleKnows, OwnKept
<1>12. ASSUME NEW c \in Calls, ScanUsers(c)
       PROVE  GrantsOfAskers' /\ \A x \in Calls : Knows(call'[x], grant', clock')
  <2> DEFINE k == call[c]
             over == {g \in Grants : Over(k.seen[g])}
             disabled == {g \in Grants : OfDisabled(k.seen[g])} \ over
             next == [k EXCEPT !.pc = "scan", !.due = over \cup disabled, !.disabled = disabled]
  <2>1. k \in Call /\ UNCHANGED <<request, grant, clock>>
    BY <1>0, <1>12 DEF ScanUsers
  <2>2. CASE Done(c)
    BY <1>I, <2>1, <2>2
  <2>3. CASE call' = [call EXCEPT ![c] = next]
    <3>1. \A g \in (over \cup disabled) \ disabled : k.seen[g].exp <= clock
      BY DEF Over
    <3> HIDE DEF over, disabled
    <3>2. next.pc = "scan" /\ next.due = over \cup disabled /\ next.disabled = disabled
            /\ next.seen = k.seen
      BY <2>1 DEF Call
    <3> HIDE DEF next
    <3>3. Knows(next, grant, clock)
      BY <1>0, <3>1, <3>2 DEF Knows
    <3> QED
      BY <2>1, <2>3, <3>3, OwnQuiet
  <2> QED
    BY <1>12, <2>2, <2>3 DEF ScanUsers
<1>13. ASSUME NEW c \in Calls, NEW g \in Grants, ScanExpire(c, g)
       PROVE  GrantsOfAskers' /\ \A x \in Calls : Knows(call'[x], grant', clock')
  <2> DEFINE k == call[c]
             next == [k EXCEPT !.due = k.due \ {g}]
  <2>1. k \in Call /\ k.pc = "scan" /\ g \in k.due /\ k.seen[g].status = "active"
          /\ k.seen[g] \in Grant
    BY <1>0, <1>13 DEF ScanExpire, At, Fits, Call
  <2>2. grant[g].status # "none" /\ grant[g].user = k.seen[g].user /\ grant[g].of = k.seen[g].of
    BY <1>0, <2>1 DEF Knows
  <2>3. grant' = [grant EXCEPT ![g] = [k.seen[g] EXCEPT !.status = "expired"]]
          /\ UNCHANGED <<request, clock>>
    BY <1>13 DEF ScanExpire
  <2>4. \A x \in Grants : grant'[x] = IF x = g THEN [k.seen[g] EXCEPT !.status = "expired"]
                                      ELSE grant[x]
    BY <1>0, <2>3
  <2>5. LET w == [k.seen[g] EXCEPT !.status = "expired"] IN
        w.status = "expired" /\ w.user = k.seen[g].user /\ w.of = k.seen[g].of
    BY <2>1 DEF Grant
  <2>6. SameOwners(grant, grant') /\ clock' >= clock
    BY <1>T, <2>2, <2>3, <2>4, <2>5 DEF SameOwners
  <2>7. \A x \in Grants : ~(grant[x].status = "none" /\ grant'[x].status # "none")
    BY <2>2, <2>4
  <2>8. call' = [call EXCEPT ![c] = Idle] \/ call' = [call EXCEPT ![c] = next]
    BY <1>0, <1>13 DEF ScanExpire, Done
  <2>9. next.pc = "scan" /\ next.due = k.due \ {g} /\ next.disabled = k.disabled
          /\ next.seen = k.seen
    BY <2>1 DEF Call
  <2> HIDE DEF next
  <2>10. Knows(next, grant', clock')
    <3>1. \A x \in Grants : k.seen[x].status # "none" =>
            /\ grant'[x].status # "none"
            /\ grant'[x].user = k.seen[x].user /\ grant'[x].of = k.seen[x].of
      BY <1>0, <2>6 DEF Knows, SameOwners
    <3>2. \A x \in k.due \ k.disabled : k.seen[x].exp <= clock'
      BY <1>0, <2>1, <2>3 DEF Knows
    <3> QED
      BY <2>9, <3>1, <3>2 DEF Knows
  <2> QED
    BY <1>0, <1>T, <2>3, <2>6, <2>7, <2>8, <2>10, IdleKnows, OwnKept
<1>14. ASSUME NEW c \in Calls, NEW g \in Grants, ScanRevoke(c, g)
       PROVE  GrantsOfAskers' /\ \A x \in Calls : Knows(call'[x], grant', clock')
  BY <1>14, <1>I DEF ScanRevoke
<1>15. ASSUME NEW u \in Users, Toggle(u)
       PROVE  GrantsOfAskers' /\ \A x \in Calls : Knows(call'[x], grant', clock')
  BY <1>15 DEF Toggle, OwnInv, GrantsOfAskers
<1>16. ASSUME NEW c \in Calls, Stop(c)
       PROVE  GrantsOfAskers' /\ \A x \in Calls : Knows(call'[x], grant', clock')
  BY <1>16, <1>I DEF Stop
<1>17. ASSUME Tick PROVE GrantsOfAskers' /\ \A x \in Calls : Knows(call'[x], grant', clock')
  <2>1. UNCHANGED <<request, grant, call>> /\ clock' = clock + 1
    BY <1>17 DEF Tick
  <2>2. GrantsOfAskers'
    BY <2>1 DEF OwnInv, GrantsOfAskers
  <2>3. ASSUME NEW x \in Calls PROVE Knows(call[x], grant, clock')
    <3>1. \A g \in call[x].due : call[x].seen[g].exp \in Int
      <4>1. call[x] \in Call
        BY <1>0
      <4>2. call[x].due \subseteq Grants /\ call[x].seen \in [Grants -> Grant]
        BY <4>1 DEF Call
      <4>3. \A row \in Grant : row.exp \in Int
        BY <1>T DEF Grant
      <4> QED
        BY <4>2, <4>3
    <3>2. \A t \in Int : t <= clock => t <= clock'
      BY <1>T, <2>1
    <3> QED
      BY <1>0, <3>1, <3>2 DEF Knows
  <2> QED
    BY <2>1, <2>2, <2>3
<1>18. ASSUME UNCHANGED vars
       PROVE  GrantsOfAskers' /\ \A x \in Calls : Knows(call'[x], grant', clock')
  BY <1>18 DEF vars, OwnInv, GrantsOfAskers
<1> QED
  BY <1>1, <1>2, <1>3, <1>4, <1>5, <1>6, <1>7, <1>8, <1>9, <1>10, <1>11, <1>12, <1>13, <1>14,
     <1>15, <1>16, <1>17, <1>18 DEF Next, Handle

\* Three steps write grants.
LEMMA GrantsKept ==
  [Next]_vars => \/ UNCHANGED grant
                 \/ \E c \in Calls : \/ UpdateGrant(c)
                                     \/ \E g \in Grants : InsertGrant(c, g) \/ ScanExpire(c, g)
<1> SUFFICES ASSUME Next, ~ UNCHANGED grant
             PROVE  \E c \in Calls : \/ UpdateGrant(c)
                                     \/ \E g \in Grants : InsertGrant(c, g) \/ ScanExpire(c, g)
  BY DEF vars
<1>1. \A c \in Calls : \A k : ~ Accept(c, k)
  BY DEF Accept
<1>2. \A c \in Calls, u \in Users : ~ CreateRequest(c, u)
  BY <1>1 DEF CreateRequest
<1>3. \A c \in Calls, kind \in Kind, r \in Requests, d \in 1..MaxDuration : ~ Review(c, kind, r, d)
  BY <1>1 DEF Review
<1>4. \A c \in Calls, r \in Requests, d \in 1..MaxDuration : ~ ExtendRequest(c, r, d)
  BY <1>1 DEF ExtendRequest
<1>5. \A c \in Calls, g \in Grants : ~ RevokeGrant(c, g)
  BY <1>1 DEF RevokeGrant
<1>6. \A c \in Calls : ~ ScanBegin(c) /\ ~ Stop(c)
  BY Zenon DEF ScanBegin, Stop
<1>7. \A c \in Calls : /\ ~ ReadGrantsApprove(c) /\ ~ ReadGrantsExtend(c)
                       /\ ~ ScanUsers(c) /\ ~ Decide(c)
  BY DEF ReadGrantsApprove, ReadGrantsExtend, ScanUsers, Decide
<1>8. \A c \in Calls : /\ \A g \in Grants : ~ ScanRevoke(c, g)
                       /\ \A r \in Requests : ~ InsertRequest(c, r)
  BY DEF ScanRevoke, InsertRequest
<1>9. \A u \in Users : ~ Toggle(u)
  BY DEF Toggle
<1>10. ~ Tick
  BY DEF Tick
<1> QED
  BY <1>2, <1>3, <1>4, <1>5, <1>6, <1>7, <1>8, <1>9, <1>10 DEF Next, Handle

\* Of a user who is no exception, a step writes at most a grant that the handler knows as
\* it is: a new one, one it prolongs or revokes, or one that is over.
OneWritten(u) ==
  \E g \in Grants :
    /\ \A x \in Grants \ {g} : grant'[x] = grant[x]
    /\ \/ grant[g].status = "none" /\ grant'[g].status = "active"
       \/ grant[g].status = "active" /\ grant'[g] = [grant[g] EXCEPT !.status = "expired"]
            /\ grant[g].exp <= clock
       \/ grant[g].status = "active" /\ grant'[g].status = "active"
            /\ grant'[g].user = u /\ grant'[g].exp >= grant[g].exp
       \/ /\ grant[g].status = "active"
          /\ \E c \in Calls :
               At(c, "put") /\ call[c].kind \in {"revoke", "extend"} /\ ~At(c, "put")'

\* Unless a row of the user is written from an outdated reading, a step leaves the
\* grants of the user alone or is the write of one request, as OneWritten tells.
LEMMA WrittenKnown ==
  ASSUME OwnInv, [Next]_vars, NEW u \in Users, u \notin raced'
  PROVE  \/ \A g \in Grants : \/ grant'[g] = grant[g]
                              \/ grant[g].user # u /\ grant'[g].user # u
         \/ OneWritten(u)
<1>0. /\ grant \in [Grants -> Grant] /\ call \in [Calls -> Call]
      /\ \A c \in Calls : Fits(call[c], request) /\ Knows(call[c], grant, clock)
  BY DEF OwnInv, TypeInv, TypeOK
<1>N. None \notin Users \cup Requests \cup Grants
  BY AccessGrantsAssumption
<1>1. CASE UNCHANGED grant
  BY <1>1
<1>2. ASSUME NEW c \in Calls, NEW g \in Grants, InsertGrant(c, g) PROVE OneWritten(u)
  <2>1. /\ grant[g].status = "none" /\ grant'[g].status = "active"
        /\ \A x \in Grants \ {g} : grant'[x] = grant[x]
    BY <1>0, <1>2 DEF InsertGrant
  <2> QED
    BY <2>1 DEF OneWritten
<1>3. ASSUME NEW c \in Calls, UpdateGrant(c)
      PROVE  \/ \A g \in Grants : grant'[g] = grant[g] \/ (grant[g].user # u /\ grant'[g].user # u)
             \/ OneWritten(u)
  <2> DEFINE k == call[c]
             g == call[c].g
  <2>1. /\ k \in Call /\ k.pc = "put" /\ g \in Grants /\ k.seen[g].status = "active"
        /\ k.seen[g] \in Grant /\ k.seen[g].user = k.user /\ grant[g].user = k.user
        /\ k.kind \in {"approve", "extend", "revoke"}
        /\ k.kind = "approve" => k.exp >= k.seen[g].exp
    BY <1>0, <1>3 DEF UpdateGrant, At, Fits, Call, Knows
  <2>2. grant' = [grant EXCEPT ![g] = Written(k)] /\ call' = [call EXCEPT ![c] = Idle]
    BY <1>3 DEF UpdateGrant, Done
  <2>3. grant'[g] = Written(k) /\ \A x \in Grants \ {g} : grant'[x] = grant[x]
    BY <1>0, <2>1, <2>2
  <2>4. Written(k).user = k.user
    BY <2>1 DEF Written, Grant
  <2>5. CASE k.user # u
    BY <2>1, <2>3, <2>4, <2>5
  <2>6. CASE k.user = u
    <3>1. grant[g] = k.seen[g]
      BY <1>3, <2>6 DEF UpdateGrant, Race
    <3>2. CASE k.kind = "approve"
      <4>1. Written(k) = [k.seen[g] EXCEPT !.exp = k.exp]
        BY <3>2 DEF Written
      <4>2. Written(k).status = "active" /\ Written(k).exp = k.exp
        BY <2>1, <4>1 DEF Grant
      <4> QED
        BY <2>1, <2>3, <2>4, <2>6, <3>1, <3>2, <4>2 DEF OneWritten
    <3>3. CASE k.kind \in {"extend", "revoke"}
      <4>1. At(c, "put") /\ ~At(c, "put")'
        BY <1>0, <2>1, <2>2 DEF At, Idle
      <4> QED
        BY <2>1, <2>3, <3>1, <3>3, <4>1 DEF OneWritten
    <3> QED
      BY <2>1, <3>2, <3>3
  <2> QED
    BY <2>5, <2>6
<1>4. ASSUME NEW c \in Calls, NEW g \in Grants, ScanExpire(c, g)
      PROVE  \/ \A x \in Grants : grant'[x] = grant[x] \/ (grant[x].user # u /\ grant'[x].user # u)
             \/ OneWritten(u)
  <2> DEFINE k == call[c]
  <2>1. /\ k \in Call /\ k.pc = "scan" /\ g \in k.due \ k.disabled /\ k.seen[g].status = "active"
        /\ k.seen[g] \in Grant /\ grant[g].user = k.seen[g].user /\ k.seen[g].exp <= clock
    BY <1>0, <1>4 DEF ScanExpire, At, Fits, Call, Knows
  <2>2. /\ grant'[g] = [k.seen[g] EXCEPT !.status = "expired"]
        /\ \A x \in Grants \ {g} : grant'[x] = grant[x]
    BY <1>0, <1>4 DEF ScanExpire
  <2>3. grant'[g].user = k.seen[g].user
    BY <2>1, <2>2 DEF Grant
  <2>4. CASE grant[g].user # u
    BY <2>1, <2>2, <2>3, <2>4
  <2>5. CASE grant[g].user = u
    <3>1. grant[g] = k.seen[g]
      BY <1>4, <2>1, <2>5 DEF ScanExpire, Race
    <3> QED
      BY <2>1, <2>2, <3>1 DEF OneWritten
  <2> QED
    BY <2>4, <2>5
<1> QED
  BY <1>1, <1>2, <1>3, <1>4, GrantsKept

\* What was revoked stays revoked for as long as the grant would have run, whatever
\* prolongations, approvals and scans are under way, unless one of them writes a row of
\* the user that it had read before somebody else changed it.
THEOREM RevocationsHold == Spec => RevocationHolds
<1> DEFINE Held == \A u \in Users \ raced' :
                     Latest(OfUser(u, "revoked"))' >= Latest(OfUser(u, "revoked"))
<1>1. OwnInv /\ [Next]_vars => Held
  <2> SUFFICES ASSUME OwnInv, [Next]_vars, NEW u \in Users \ raced'
               PROVE  Latest(OfUser(u, "revoked"))' >= Latest(OfUser(u, "revoked"))
    OBVIOUS
  <2>1. grant \in [Grants -> Grant] /\ grant' \in [Grants -> Grant]
    BY TypeStep DEF OwnInv, TypeInv, TypeOK
  <2>2. PICK G \in SUBSET Grants :
          G = {g \in Grants : grant[g].user = u /\ grant[g].status = "revoked"}
    OBVIOUS
  <2>3. PICK H \in SUBSET Grants :
          H = {g \in Grants : grant'[g].user = u /\ grant'[g].status = "revoked"}
    OBVIOUS
  <2>4. Latest(OfUser(u, "revoked")) = Max(EndsOf(grant, G))
    BY <2>2 DEF Latest, OfUser, EndsOf
  <2>5. Latest(OfUser(u, "revoked"))' = Max(EndsOf(grant', H))
    BY <2>3 DEF Latest, OfUser, EndsOf
  <2>6. ASSUME NEW g \in G PROVE g \in H /\ grant'[g] = grant[g]
    <3>1. g \in Grants /\ grant[g].user = u /\ grant[g].status = "revoked"
      BY <2>2
    <3>2. grant'[g] = grant[g]
      BY <3>1, WrittenKnown DEF OneWritten
    <3> QED
      BY <2>3, <3>1, <3>2
  <2>7. \A g \in G : g \in H /\ grant'[g].exp >= grant[g].exp
    <3>1. \A t \in Time : t \in Int /\ t >= t
      BY AccessGrantsAssumption DEF Time
    <3>2. \A g \in G : grant[g].exp \in Time
      BY <2>1 DEF Grant
    <3> QED
      BY <2>6, <3>1, <3>2
  <2>8. Max(EndsOf(grant', H)) >= Max(EndsOf(grant, G))
    BY <2>1, <2>7, LatestGrows
  <2> QED
    BY <2>4, <2>5, <2>8
<1>2. Init => OwnInv
  <2>1. Init => GrantsOfAskers /\ \A c \in Calls : Knows(call[c], grant, clock)
    BY IdleKnows DEF Init, GrantsOfAskers, NoRows, NoGrant
  <2> QED
    BY <2>1, TypeInit DEF OwnInv
<1>3. OwnInv /\ [Next]_vars => OwnInv'
  BY OwnStep
<1> HIDE DEF Held
<1>4. Spec => [][Held]_vars
  BY <1>1, <1>2, <1>3, PTL DEF Spec
<1> QED
  BY <1>4 DEF Held, RevocationHolds

\* Access that runs is cut short by the clock, by a revocation or by an administrator's new
\* duration; an approval prolongs it at most, the job ends only what is over.  The user
\* whose rows were written from an outdated reading is excepted.
THEOREM EndsOnPurpose == Spec => AccessEndsOnPurpose
<1> DEFINE Meant == \A u \in Users \ raced' : Latest(Running(u))' < Latest(Running(u)) =>
       \/ clock' # clock
       \/ \E c \in Calls : At(c, "put") /\ call[c].kind \in {"revoke", "extend"} /\ ~At(c, "put")'
<1>1. OwnInv /\ [Next]_vars => Meant
  <2> SUFFICES ASSUME OwnInv, [Next]_vars, NEW u \in Users \ raced', clock' = clock,
                      ~ \E c \in Calls : /\ At(c, "put") /\ call[c].kind \in {"revoke", "extend"}
                                         /\ ~At(c, "put")'
               PROVE  ~ (Latest(Running(u))' < Latest(Running(u)))
    OBVIOUS
  <2>1. /\ grant \in [Grants -> Grant] /\ grant' \in [Grants -> Grant]
        /\ clock \in Int /\ Time \subseteq Int /\ \A g \in Grants : grant[g].exp \in Time
    BY TypeStep, AccessGrantsAssumption DEF OwnInv, TypeInv, TypeOK, Grant, Time
  <2>2. PICK G \in SUBSET Grants :
          G = {g \in Grants : /\ grant[g].user = u /\ grant[g].status = "active"
                              /\ grant[g].exp > clock}
    OBVIOUS
  <2>3. PICK H \in SUBSET Grants :
          H = {g \in Grants : /\ grant'[g].user = u /\ grant'[g].status = "active"
                              /\ grant'[g].exp > clock'}
    OBVIOUS
  <2>4. Latest(Running(u)) = Max(EndsOf(grant, G))
    BY <2>2 DEF Latest, Running, EndsOf
  <2>5. Latest(Running(u))' = Max(EndsOf(grant', H))
    BY <2>3 DEF Latest, Running, EndsOf
  <2>6. ASSUME NEW g \in G PROVE g \in H /\ grant'[g].exp >= grant[g].exp
    <3>1. g \in Grants /\ grant[g].user = u /\ grant[g].status = "active" /\ grant[g].exp > clock
      BY <2>2
    <3>2. \/ grant'[g] = grant[g]
          \/ /\ grant'[g].status = "active" /\ grant'[g].user = u
             /\ grant'[g].exp >= grant[g].exp
      <4>1. CASE \A x \in Grants : \/ grant'[x] = grant[x]
                                   \/ grant[x].user # u /\ grant'[x].user # u
        BY <3>1, <4>1
      <4>2. CASE OneWritten(u)
        <5>1. PICK x \in Grants :
                /\ \A y \in Grants \ {x} : grant'[y] = grant[y]
                /\ \/ grant[x].status # "active"
                   \/ grant[x].exp <= clock
                   \/ /\ grant'[x].status = "active" /\ grant'[x].user = u
                      /\ grant'[x].exp >= grant[x].exp
          BY <4>2 DEF OneWritten
        <5>2. grant[g].exp \in Int /\ clock \in Int /\ grant[g].exp > clock
          BY <2>1, <3>1
        <5>3. ~ (grant[g].exp <= clock)
          BY <5>2
        <5> QED
          BY <3>1, <5>1, <5>3
      <4> QED
        BY <4>1, <4>2, WrittenKnown
    <3>3. grant'[g].exp \in Int /\ grant[g].exp \in Int
      BY <2>1, <3>1 DEF Grant
    <3> QED
      BY <2>1, <2>3, <3>1, <3>2, <3>3
  <2>7. Max(EndsOf(grant', H)) >= Max(EndsOf(grant, G))
    BY <2>1, <2>6, LatestGrows
  <2>8. Max(EndsOf(grant', H)) \in Int /\ Max(EndsOf(grant, G)) \in Int
    <3>1. /\ EndsOf(grant, G) \subseteq Time /\ EndsOf(grant', H) \subseteq Time
          /\ EndsOf(grant, G) # {} /\ EndsOf(grant', H) # {}
      BY <2>1, TimeFacts DEF EndsOf, Grant
    <3> QED
      BY <2>1, <3>1, MaxIs
  <2> QED
    BY <2>4, <2>5, <2>7, <2>8
<1>2. Init => OwnInv
  <2>1. Init => GrantsOfAskers /\ \A c \in Calls : Knows(call[c], grant, clock)
    BY IdleKnows DEF Init, GrantsOfAskers, NoRows, NoGrant
  <2> QED
    BY <2>1, TypeInit DEF OwnInv
<1>3. OwnInv /\ [Next]_vars => OwnInv'
  BY OwnStep
<1> HIDE DEF Meant
<1>4. Spec => [][Meant]_vars
  BY <1>1, <1>2, <1>3, PTL DEF Spec
<1> QED
  BY <1>4 DEF Meant, AccessEndsOnPurpose
=============================================================================
