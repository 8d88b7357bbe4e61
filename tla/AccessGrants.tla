---------------------------- MODULE AccessGrants ----------------------------
(***************************************************************************)
(* Temporary permissions: an employee asks for one, an administrator       *)
(* approves, rejects, prolongs or revokes, and a job marks what is over.   *)
(* Each handler reads a row, decides, and writes the whole row back later. *)
(* One permission of one store is modelled, which no role holds by itself. *)
(* Source: backend/src/services/accessRequestService.js, grantService.js,  *)
(*         permissionService.js, jobs/grantExpiryJob.js.                   *)
(***************************************************************************)
EXTENDS Integers, FiniteSets, FiniteSetsExt

CONSTANTS Users, Requests, Grants, Calls,
          None,         \* no request, grant or user
          MaxTime,      \* bound: the clock
          MaxDuration,  \* bound: the longest duration that is approved
          MaxCalls,     \* bound: handlers that start, scans not counted
          MaxToggles,   \* bound: users disabled or enabled
          MaxStops      \* bound: handlers that an error or a restart ends

ASSUME AccessGrantsAssumption ==
  /\ None \notin Users \cup Requests \cup Grants
  /\ IsFiniteSet(Users) /\ IsFiniteSet(Requests) /\ IsFiniteSet(Grants)
  /\ MaxTime \in Nat /\ MaxDuration \in Nat \ {0}
  /\ MaxCalls \in Nat /\ MaxToggles \in Nat /\ MaxStops \in Nat

-----------------------------------------------------------------------------
Time == 0..(MaxTime + MaxDuration)

\* Rows of access_requests and of temporary_permission_grants.
Status == {"none", "pending", "approved", "rejected"}
Request == [status : Status, user : Users \cup {None}]
Grant == [status : {"none", "active", "expired", "revoked"}, user : Users \cup {None},
          of : Requests \cup {None}, exp : Time]
NoRequest == [status |-> "none", user |-> None]
NoGrant == [status |-> "none", user |-> None, of |-> None, exp |-> 0]

\* A handler: the request (read with status was) and the grant it is about, the
\* rows of grants read, the exp it will write; what the job has yet to do (due).
Kind == {"create", "approve", "reject", "extend", "revoke", "scan"}
Pc == {"idle", "insert", "decide", "grants", "put", "users", "scan"}
Call == [pc : Pc, kind : Kind, r : Requests \cup {None}, was : Status, g : Grants \cup {None},
         user : Users \cup {None}, dur : 0..MaxDuration, exp : Time,
         seen : [Grants -> Grant], due : SUBSET Grants, disabled : SUBSET Grants]
NoRows == [g \in Grants |-> NoGrant]
Idle == [pc |-> "idle", kind |-> "scan", r |-> None, was |-> "none", g |-> None, user |-> None,
         dur |-> 0, exp |-> 0, seen |-> NoRows, due |-> {}, disabled |-> {}]

VARIABLES
  request, grant,          \* the two tables
  enabled,                 \* users.isActive
  clock,
  call,                    \* the handlers and scans that are running
  served, toggles, stops,  \* bounds
  granted, lost, raced     \* history variables

\* granted  requests whose approval stored a grant
\* lost     requests whose approval stopped before that
\* raced    users one of whose rows was written from a reading that no longer held
bounds == <<served, toggles, stops>>
ghosts == <<granted, lost, raced>>
vars == <<request, grant, enabled, clock, call, bounds, ghosts>>

Init ==
  /\ request = [r \in Requests |-> NoRequest]
  /\ grant = NoRows
  /\ enabled = [u \in Users |-> TRUE]
  /\ clock = 0
  /\ call = [c \in Calls |-> Idle]
  /\ served = 0 /\ toggles = 0 /\ stops = 0
  /\ granted = {} /\ lost = {} /\ raced = {}

-----------------------------------------------------------------------------
At(c, pc) == call[c].pc = pc
Done(c) == call' = [call EXCEPT ![c] = Idle]
Accept(c, k) ==
  /\ At(c, "idle") /\ served < MaxCalls
  /\ served' = served + 1
  /\ call' = [call EXCEPT ![c] = k]
  /\ UNCHANGED <<request, grant, enabled, clock, toggles, stops, ghosts>>
Race(u, conflict) == raced' = raced \cup {v \in {u} : conflict}

Pending(u) == {r \in Requests : request[r].user = u /\ request[r].status = "pending"}
\* Grants of a user that give access now, as createGrant looks for them.
Running(u) == {g \in Grants : /\ grant[g].user = u /\ grant[g].status = "active"
                              /\ grant[g].exp > clock}

\* Bounds: there are rows left for what is under way.
RoomForRequest ==
  Cardinality({c \in Calls : At(c, "insert")})
    < Cardinality({r \in Requests : request[r].status = "none"})
RoomForGrant ==
  Cardinality({c \in Calls : ~At(c, "idle") /\ call[c].kind = "approve"})
    < Cardinality({g \in Grants : grant[g].status = "none"})

\* createRequest: is there a pending request of the user? ...
MayAsk(u) == Pending(u) = {}
CreateRequest(c, u) ==
  /\ MayAsk(u) /\ RoomForRequest
  /\ Accept(c, [Idle EXCEPT !.pc = "insert", !.kind = "create", !.user = u])

\* ... then insert the new one.
InsertRequest(c, r) ==
  LET u == call[c].user IN
  /\ At(c, "insert") /\ request[r].status = "none"
  /\ request' = [request EXCEPT ![r] = [status |-> "pending", user |-> u]]
  /\ Race(u, Pending(u) # {})
  /\ Done(c)
  /\ UNCHANGED <<grant, enabled, clock, bounds, granted, lost>>

-----------------------------------------------------------------------------
MayDecideApproved(status) == status \in {"pending", "approved"}
MayDecide(status) == status = "pending"

\* approveRequest and rejectRequest read the request, which must be pending.
Review(c, kind, r, dur) ==
  /\ kind \in {"approve", "reject"} /\ MayDecide(request[r].status)
  /\ kind = "approve" => RoomForGrant
  /\ Accept(c, [Idle EXCEPT !.pc = "decide", !.kind = kind, !.r = r, !.dur = dur,
                            !.user = request[r].user, !.was = request[r].status])

\* extendRequestDuration serves pending and approved requests.
ExtendRequest(c, r, dur) ==
  /\ request[r].status \in {"pending", "approved"}
  /\ Accept(c, [Idle EXCEPT !.kind = "extend", !.r = r, !.dur = dur,
                            !.user = request[r].user, !.was = request[r].status,
                            !.pc = IF request[r].status = "pending" THEN "decide" ELSE "grants"])

\* revokeGrant reads the grant, which must be active.
RevokeGrant(c, g) ==
  /\ grant[g].status = "active"
  /\ Accept(c, [Idle EXCEPT !.pc = "put", !.kind = "revoke", !.g = g,
                            !.user = grant[g].user, !.seen = [NoRows EXCEPT ![g] = grant[g]]])

\* The status in the row that is written back.
Decision(kind) ==
  CASE kind = "approve" -> "approved" [] kind = "reject" -> "rejected" [] OTHER -> "pending"

AfterDecisionDone(kind) == "idle"
AfterDecision(kind) == IF kind = "approve" THEN "grants" ELSE "idle"

\* The whole request row is written, whatever it has become meanwhile.
Decide(c) ==
  LET k == call[c] IN
  /\ At(c, "decide")
  /\ request' = [request EXCEPT ![k.r].status = Decision(k.kind)]
  /\ Race(k.user, request[k.r].status # k.was)
  /\ \/ AfterDecision(k.kind) = "idle" /\ Done(c)
     \/ /\ AfterDecision(k.kind) # "idle"
        /\ call' = [call EXCEPT ![c].pc = AfterDecision(k.kind)]
  /\ UNCHANGED <<grant, enabled, clock, bounds, granted, lost>>

-----------------------------------------------------------------------------
Later(a, b) == b
Longer(a, b) == IF a > b THEN a ELSE b

\* createGrant prolongs a running grant of the user, or else inserts one.
ReadGrantsApprove(c) ==
  LET k == call[c]
      put(g, exp) == call' = [call EXCEPT ![c].pc = "put", ![c].g = g, ![c].exp = exp,
                        ![c].seen = IF g = None THEN NoRows ELSE [NoRows EXCEPT ![g] = grant[g]]]
  IN
  /\ At(c, "grants") /\ k.kind = "approve"
  /\ \/ \E g \in Running(k.user) : put(g, Longer(grant[g].exp, clock + k.dur))
     \/ Running(k.user) = {} /\ put(None, clock + k.dur)
  /\ UNCHANGED <<request, grant, enabled, clock, bounds, ghosts>>

MayExtendAny(row) == TRUE
MayExtend(row) == row.status = "active"

\* extendRequestDuration takes a grant stored for this request (the latest; any
\* here) if it is active, expired in time or not.
ReadGrantsExtend(c) ==
  LET k == call[c]
      mine == {g \in Grants : grant[g].of = k.r} IN
  /\ At(c, "grants") /\ k.kind = "extend"
  /\ \/ \E g \in mine :
          /\ MayExtend(grant[g])
          /\ call' = [call EXCEPT ![c].pc = "put", ![c].g = g, ![c].exp = clock + k.dur,
                                  ![c].seen = [NoRows EXCEPT ![g] = grant[g]]]
     \/ (mine = {} \/ \E g \in mine : ~MayExtend(grant[g])) /\ Done(c)
  /\ UNCHANGED <<request, grant, enabled, clock, bounds, ghosts>>

\* A new grant.
InsertGrant(c, g) ==
  LET k == call[c] IN
  /\ At(c, "put") /\ k.g = None /\ grant[g].status = "none"
  /\ grant' = [grant EXCEPT ![g] = [status |-> "active", user |-> k.user, of |-> k.r,
                                    exp |-> k.exp]]
  /\ granted' = granted \cup {k.r}
  /\ Race(k.user, Running(k.user) # {})
  /\ Done(c)
  /\ UNCHANGED <<request, enabled, clock, bounds, lost>>

WrittenOnTop(k) ==
  IF k.kind = "revoke" THEN [k.seen[k.g] EXCEPT !.status = "revoked"]
  ELSE [k.seen[k.g] EXCEPT !.exp = @ + k.dur]
\* The whole row of a grant, prolonged or revoked.
Written(k) ==
  IF k.kind = "revoke" THEN [k.seen[k.g] EXCEPT !.status = "revoked"]
  ELSE [k.seen[k.g] EXCEPT !.exp = k.exp]
UpdateGrant(c) ==
  LET k == call[c] IN
  /\ At(c, "put") /\ k.g # None
  /\ grant' = [grant EXCEPT ![k.g] = Written(k)]
  /\ granted' = granted \cup {r \in {k.r} : k.kind = "approve"}
  /\ Race(k.user, grant[k.g] # k.seen[k.g])
  /\ Done(c)
  /\ UNCHANGED <<request, enabled, clock, bounds, lost>>

-----------------------------------------------------------------------------
\* expireTemporaryGrants, every minute even if the last run has not ended:
\* read the grants, ...
ScanBegin(c) ==
  /\ At(c, "idle")
  /\ call' = [call EXCEPT ![c] = [Idle EXCEPT !.pc = "users", !.seen = grant]]
  /\ UNCHANGED <<request, grant, enabled, clock, bounds, ghosts>>

OverStrictly(row) == row.status = "active" /\ row.exp < clock
Over(row) == row.status = "active" /\ row.exp <= clock
OfDisabled(row) == row.status = "active" /\ row.user # None /\ ~enabled[row.user]

\* ... read the users and the clock, ...
ScanUsers(c) ==
  LET over == {g \in Grants : Over(call[c].seen[g])}
      disabled == {g \in Grants : OfDisabled(call[c].seen[g])} \ over IN
  /\ At(c, "users")
  /\ \/ over \cup disabled = {} /\ Done(c)
     \/ /\ over \cup disabled # {}
        /\ call' = [call EXCEPT ![c].pc = "scan", ![c].due = over \cup disabled,
                                ![c].disabled = disabled]
  /\ UNCHANGED <<request, grant, enabled, clock, bounds, ghosts>>

\* ... and write the rows that are over, one after the other.
ScanExpire(c, g) ==
  LET k == call[c] IN
  /\ At(c, "scan") /\ g \in k.due \ k.disabled
  /\ grant' = [grant EXCEPT ![g] = [k.seen[g] EXCEPT !.status = "expired"]]
  /\ Race(k.seen[g].user, grant[g] # k.seen[g])
  /\ \/ k.due = {g} /\ Done(c)
     \/ k.due # {g} /\ call' = [call EXCEPT ![c].due = @ \ {g}]
  /\ UNCHANGED <<request, enabled, clock, bounds, granted, lost>>

\* The row of a disabled user gets revokedBy 'system', which is no user: the
\* foreign key refuses the write and the error ends the scan.
ScanRevoke(c, g) ==
  /\ At(c, "scan") /\ g \in call[c].due \cap call[c].disabled
  /\ Done(c)
  /\ UNCHANGED <<request, grant, enabled, clock, bounds, ghosts>>

-----------------------------------------------------------------------------
\* An administrator disables or enables a user.
Toggle(u) ==
  /\ toggles < MaxToggles
  /\ toggles' = toggles + 1
  /\ enabled' = [enabled EXCEPT ![u] = ~@]
  /\ UNCHANGED <<request, grant, clock, call, served, stops, ghosts>>

\* An error or a restart ends a handler between two steps.
Stop(c) ==
  LET k == call[c] IN
  /\ ~At(c, "idle") /\ stops < MaxStops
  /\ stops' = stops + 1
  /\ lost' = lost \cup {r \in {k.r} : k.kind = "approve" /\ k.pc # "decide"}
  /\ Done(c)
  /\ UNCHANGED <<request, grant, enabled, clock, served, toggles, granted, raced>>

Tick ==
  /\ clock < MaxTime
  /\ clock' = clock + 1
  /\ UNCHANGED <<request, grant, enabled, call, bounds, ghosts>>

Handle(c) ==
  \/ \E r \in Requests : InsertRequest(c, r)
  \/ Decide(c) \/ ReadGrantsApprove(c) \/ ReadGrantsExtend(c) \/ UpdateGrant(c)
  \/ \E g \in Grants : InsertGrant(c, g) \/ ScanExpire(c, g) \/ ScanRevoke(c, g)
  \/ ScanUsers(c)

Next ==
  \/ \E c \in Calls :
       \/ \E u \in Users : CreateRequest(c, u)
       \/ \E kind \in Kind, r \in Requests, d \in 1..MaxDuration : Review(c, kind, r, d)
       \/ \E r \in Requests, d \in 1..MaxDuration : ExtendRequest(c, r, d)
       \/ \E g \in Grants : RevokeGrant(c, g)
       \/ ScanBegin(c) \/ Handle(c) \/ Stop(c)
  \/ \E u \in Users : Toggle(u)
  \/ Tick

Spec == Init /\ [][Next]_vars

\* setInterval fires for ever, and a started handler gets its answers.
FairSpec ==
  Spec /\ WF_vars(\E c \in Calls : ScanBegin(c)) /\ \A c \in Calls : WF_vars(Handle(c))

-----------------------------------------------------------------------------
\* The types of the tables, the handlers and the history.
TypeOK ==
  /\ request \in [Requests -> Request] /\ grant \in [Grants -> Grant]
  /\ enabled \in [Users -> BOOLEAN] /\ clock \in 0..MaxTime
  /\ call \in [Calls -> Call]
  /\ served \in Nat /\ toggles \in Nat /\ stops \in Nat
  /\ granted \subseteq Requests /\ lost \subseteq Requests /\ raced \subseteq Users

Deciding(r) == {c \in Calls : ~At(c, "idle") /\ call[c].kind = "approve" /\ call[c].r = r}

\* Two tables agree: an approved request has stored a grant, unless its
\* approval is under way or stopped; a rejected or pending one has not; and
\* a user waits for one request at most. Only a user whose rows were written
\* from an outdated reading is excepted.
GrantsFollowDecisions ==
  \A r \in Requests : request[r].user \notin raced =>
    /\ request[r].status = "approved" => r \in granted \cup lost \/ Deciding(r) # {}
    /\ request[r].status \in {"pending", "rejected"} => r \notin granted
    /\ request[r].status = "pending" => Pending(request[r].user) = {r}

\* A decision is taken once: an approved request is not rejected or pending
\* again, except by a handler that read it before the decision.
DecidedOnceUnlessRaced ==
  [][\A r \in Requests : request[r].status \in {"approved", "rejected"} =>
       request'[r].status = request[r].status \/ request[r].user \in raced']_vars

Latest(G) == Max({0} \cup {grant[g].exp : g \in G})
OfUser(u, status) == {g \in Grants : grant[g].user = u /\ grant[g].status = status}

\* What was revoked stays revoked as long as the grant would have run: no
\* prolongation, approval or scan shortens that, except from an old reading.
RevocationHolds ==
  [][\A u \in Users \ raced' : Latest(OfUser(u, "revoked"))' >= Latest(OfUser(u, "revoked"))]_vars

\* Running access is cut short by time, by a revocation or by an administrator's
\* new duration, never by an approval or the job, except from an old reading.
AccessEndsOnPurpose ==
  [][\A u \in Users \ raced' : Latest(Running(u))' < Latest(Running(u)) =>
       \/ clock' # clock
       \/ \E c \in Calls : At(c, "put") /\ call[c].kind \in {"revoke", "extend"} /\ ~At(c, "put")']_vars

\* A grant that is over does not stay active: the job marks it.
Overdue(g) == grant[g].status = "active" /\ grant[g].exp <= clock
ExpiredIsMarked == \A g \in Grants : Overdue(g) ~> ~Overdue(g)

\* "grant_revoked_disabled_user": a scan that ends by itself has closed every
\* grant that it found over or of a disabled user.
ScanClosesWhatIsDue ==
  [][\A c \in Calls : At(c, "scan") /\ At(c, "idle")' /\ stops' = stops =>
       \A g \in call[c].due : grant'[g].status # "active"]_vars
=============================================================================
