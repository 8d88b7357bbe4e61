-------------------------- MODULE CatalogVersions --------------------------
(***************************************************************************)
(* The catalogue of a supplier: imports are previewed, edited, decided on  *)
(* row by row and committed.  A commit writes the links to the supplier's  *)
(* products and stores a version of the catalogue in place of the active   *)
(* one; an earlier version can be activated again.  Each is a sequence of  *)
(* whole-row writes of what was read at the start.                         *)
(* Source: backend/src/services/catalogImportService.js.                   *)
(***************************************************************************)
EXTENDS Naturals, Sequences

CONSTANTS Products, Imports, Calls,
          Inactive,   \* per import, the products that its file lists as not active
          None,       \* no import
          MaxServed,  \* bound: handlers that start, and links edited by hand
          MaxStops    \* bound: handlers that an error or a restart ends

-----------------------------------------------------------------------------
\* An import: the products of the rows that a commit applies, and the decision on its
\* row about a product that is new.
Import == [status : {"none", "staging", "committed"}, lines : SUBSET Products,
           queue : {"pending", "matched", "rejected"}]
Blank == [status |-> "none", lines |-> {}, queue |-> "pending"]

\* A link to a product at the supplier; its price is that of the import, None if it was
\* set by hand.  A version names the links it consists of.
Link == [product : Products, of : Imports \cup {None}, active : BOOLEAN]
Version == [of : Imports, active : BOOLEAN, snap : SUBSET Nat]

\* A handler: the import row, versions and links it has read, the latter two with its own
\* writes; the links or versions still to be written, and those it has applied.
Idle == [op |-> "none", pc |-> "idle", of |-> None, row |-> Blank, seen |-> <<>>, had |-> <<>>,
         todo |-> {}, snap |-> {}, version |-> 0]

VARIABLES
  import, version, link,  \* catalog_imports, supplier_catalog_versions, supplier_products
  call,                   \* the handlers that are running
  served, stops,          \* bounds
  astray,   \* history: a handler wrote versions over another's, or ended half-way
  mixed,    \* history: imports whose row two handlers wrote, or whose commit did not end
  touched,  \* history: links written by hand, by a decision or over another's write
  back      \* history: versions that have been activated again

rows == <<import, version, link>>
vars == <<rows, call, served, stops, astray, mixed, touched, back>>

Init ==
  /\ import = [i \in Imports |-> Blank] /\ version = <<>> /\ link = <<>>
  /\ call = [c \in Calls |-> Idle] /\ served = 0 /\ stops = 0
  /\ astray = FALSE /\ mixed = {} /\ touched = {} /\ back = {}

-----------------------------------------------------------------------------
At(c, op, pc) == call[c].op = op /\ call[c].pc = pc
Goto(c, k) == call' = [call EXCEPT ![c] = k]
Free(c) == call[c].op = "none" /\ served < MaxServed /\ served' = served + 1
LinksOf(ls, p) == {n \in DOMAIN ls : ls[n].product = p}
Actives(vs) == {n \in DOMAIN vs : vs[n].active}
Put(s, n, x) == IF n > Len(s) THEN Append(s, x) ELSE [s EXCEPT ![n] = x]

\* The links of a product that changed behind the back of a handler.
Disturbed(k, p) ==
  IF /\ LinksOf(k.had, p) = LinksOf(link, p)
     /\ \A n \in LinksOf(link, p) : link[n] = k.had[n]
  THEN {} ELSE LinksOf(link, p) \cup LinksOf(k.had, p)

-----------------------------------------------------------------------------
\* previewImport
PreviewImport(i, ps) ==
  /\ import[i].status = "none"
  /\ import' = [import EXCEPT ![i] = [Blank EXCEPT !.status = "staging", !.lines = ps]]
  /\ UNCHANGED <<version, link, call, served, stops, astray, mixed, touched, back>>

\* commitImport refuses what has been committed, then reads links and versions.
MayCommit(row) == row.status = "staging"
CommitImport(c, i) ==
  /\ Free(c) /\ MayCommit(import[i])
  /\ Goto(c, [Idle EXCEPT !.op = "commit", !.pc = "read", !.of = i, !.row = import[i],
                          !.todo = import[i].lines])
  /\ mixed' = mixed \cup IF \E d \in Calls : call[d].op = "commit" /\ call[d].of = i
                         THEN {i} ELSE {}
  /\ UNCHANGED <<rows, stops, astray, touched, back>>
ReadCatalog(c) ==
  LET k == call[c] IN
  /\ At(c, "commit", "read")
  /\ Goto(c, [k EXCEPT !.pc = "apply", !.seen = version, !.had = link])
  /\ UNCHANGED <<rows, served, stops, astray, mixed, touched, back>>

\* A row of the import updates the link of its product, or creates one; a row that the
\* file lists as not active switches it off (createOrUpdateSupplierProductPayload).
LinkBy(i, p) == [product |-> p, of |-> i, active |-> p \notin Inactive[i]]
LinkFor(k, p) ==
  IF LinksOf(k.had, p) = {} THEN {Len(link) + 1} ELSE LinksOf(k.had, p)
ApplyLine(c, p, n) ==
  LET k == call[c]
      new == LinkBy(k.of, p)
      had2 == [m \in DOMAIN Put(link, n, new) |->
                 IF m = n THEN new ELSE IF m \in DOMAIN k.had THEN k.had[m] ELSE link[m]] IN
  /\ At(c, "commit", "apply") /\ p \in k.todo /\ n \in LinkFor(k, p)
  /\ link' = Put(link, n, new)
  /\ Goto(c, [k EXCEPT !.todo = @ \ {p}, !.snap = @ \cup {n}, !.had = had2])
  /\ touched' = (touched \ {n}) \cup Disturbed(k, p)
                  \cup IF Disturbed(k, p) = {} THEN {} ELSE {n}
  /\ UNCHANGED <<import, version, served, stops, astray, mixed, back>>

\* The versions that were active are archived, one by one.
ArchiveVersion(c, n) ==
  LET k == call[c]
      old == [k.seen[n] EXCEPT !.active = FALSE] IN
  /\ At(c, "commit", "apply") /\ k.todo = {} /\ n \in Actives(k.seen)
  /\ version' = [version EXCEPT ![n] = old]
  /\ Goto(c, [k EXCEPT !.seen[n] = old])
  /\ astray' = (astray \/ k.seen # version)
  /\ UNCHANGED <<import, link, served, stops, mixed, touched, back>>
ReadyToCreate(k) == k.todo = {} /\ Actives(k.seen) = {}
CreateVersion(c) ==
  LET k == call[c] IN
  /\ At(c, "commit", "apply") /\ ReadyToCreate(k)
  /\ version' = Append(version, [of |-> k.of, active |-> TRUE, snap |-> k.snap])
  /\ Goto(c, [Idle EXCEPT !.op = "commit", !.pc = "finish", !.of = k.of, !.row = k.row])
  /\ astray' = (astray \/ k.seen # version)
  /\ touched' = touched \cup {n \in k.snap : link[n] # k.had[n]}
  /\ UNCHANGED <<import, link, served, stops, mixed, back>>
FinalizeImport(c) ==
  LET k == call[c] IN
  /\ At(c, "commit", "finish")
  /\ import' = [import EXCEPT ![k.of] = [k.row EXCEPT !.status = "committed"]]
  /\ Goto(c, Idle)
  /\ mixed' = mixed \cup IF import[k.of] = k.row THEN {} ELSE {k.of}
  /\ UNCHANGED <<version, link, served, stops, astray, touched, back>>

-----------------------------------------------------------------------------
\* activateVersion writes every version of the supplier, then every link: active are
\* those of the version.  Prices stay what they are.
ActivateVersion(c, n) ==
  /\ Free(c) /\ n \in DOMAIN version
  /\ Goto(c, [Idle EXCEPT !.op = "activate", !.pc = "versions", !.version = n,
                          !.seen = version, !.had = link, !.todo = DOMAIN version])
  /\ UNCHANGED <<rows, stops, astray, mixed, touched, back>>
SwitchVersion(c, n) ==
  LET k == call[c]
      new == [k.seen[n] EXCEPT !.active = (n = k.version)] IN
  /\ At(c, "activate", "versions") /\ n \in k.todo
  /\ version' = [version EXCEPT ![n] = new]
  /\ Goto(c, IF k.todo = {n} THEN [k EXCEPT !.pc = "links", !.seen[n] = new, !.todo = DOMAIN link
                                                                         \cap DOMAIN k.had]
             ELSE [k EXCEPT !.seen[n] = new, !.todo = @ \ {n}])
  /\ astray' = (astray \/ k.seen # version)
  /\ back' = back \cup {k.version}
  /\ UNCHANGED <<import, link, served, stops, mixed, touched>>
SwitchedOn(k, n) == [k.had[n] EXCEPT !.active = @ \/ n \in version[k.version].snap]
Switched(k, n) == [k.had[n] EXCEPT !.active = n \in version[k.version].snap]
SwitchLink(c, n) ==
  LET k == call[c] IN
  /\ At(c, "activate", "links") /\ n \in k.todo
  /\ link' = [link EXCEPT ![n] = Switched(k, n)]
  /\ Goto(c, [k EXCEPT !.todo = @ \ {n}, !.had[n] = Switched(k, n)])
  /\ touched' = touched \cup IF link[n] = k.had[n] /\ version = k.seen THEN {} ELSE {n}
  /\ UNCHANGED <<import, version, served, stops, astray, mixed, back>>
\* An activation that nobody disturbed puts the versions right again.
Activated(c) ==
  LET k == call[c] IN
  /\ At(c, "activate", "links") /\ k.todo = {}
  /\ Goto(c, Idle) /\ astray' = (astray /\ ~(k.seen = version /\ k.had = link))
  /\ UNCHANGED <<rows, served, stops, mixed, touched, back>>

-----------------------------------------------------------------------------
\* updateImportRow, of an import that is not committed, changes what will be applied.
UpdateImportRow(c, i, ps) ==
  /\ Free(c) /\ MayCommit(import[i])
  /\ Goto(c, [Idle EXCEPT !.op = "edit", !.pc = "put", !.of = i, !.row = import[i],
                          !.todo = ps])
  /\ UNCHANGED <<rows, stops, astray, mixed, touched, back>>
PutRow(c) ==
  LET k == call[c] IN
  /\ At(c, "edit", "put")
  /\ import' = [import EXCEPT ![k.of] = [k.row EXCEPT !.lines = k.todo]]
  /\ Goto(c, Idle)
  /\ mixed' = mixed \cup IF import[k.of] = k.row THEN {} ELSE {k.of}
  /\ UNCHANGED <<version, link, served, stops, astray, touched, back>>

\* rejectApprovalQueueRow and undoApprovalQueueDecision decide on the row, in any status
\* of the import; matchApprovalQueueRow first links the product that was chosen.
Decidable(q, new) ==
  \/ new \in {"matched", "rejected"} /\ q = "pending"
  \/ new = "pending" /\ q = "rejected"
Decide(c, i, new) ==
  /\ Free(c) /\ import[i].status # "none" /\ Decidable(import[i].queue, new)
  /\ Goto(c, [Idle EXCEPT !.op = "decide", !.pc = IF new = "matched" THEN "link" ELSE "put",
                          !.of = i, !.row = [import[i] EXCEPT !.queue = new],
                          !.had = IF new = "matched" THEN link ELSE <<>>])
  /\ UNCHANGED <<rows, stops, astray, mixed, touched, back>>
MatchLink(c, p, n) ==
  LET k == call[c] IN
  /\ At(c, "decide", "link") /\ n \in LinkFor(k, p)
  /\ link' = Put(link, n, LinkBy(k.of, p))
  /\ Goto(c, [k EXCEPT !.pc = "put", !.had = <<>>])
  /\ touched' = touched \cup {n} \cup LinksOf(link, p)
  /\ UNCHANGED <<import, version, served, stops, astray, mixed, back>>

\* persistApprovalImportRow writes the import, then the versions made of it, each whole.
PutDecision(c) ==
  LET k == call[c] IN
  /\ At(c, "decide", "put")
  /\ import' = [import EXCEPT ![k.of] = k.row]
  /\ Goto(c, [Idle EXCEPT !.op = "decide", !.pc = "versions", !.of = k.of])
  /\ mixed' = mixed \cup IF [import[k.of] EXCEPT !.queue = k.row.queue] = k.row THEN {}
                    ELSE {k.of}
  /\ UNCHANGED <<version, link, served, stops, astray, touched, back>>
ReadVersions(c) ==
  LET k == call[c]
      ns == {n \in DOMAIN version : version[n].of = k.of} IN
  /\ At(c, "decide", "versions")
  /\ Goto(c, IF ns = {} THEN Idle ELSE [k EXCEPT !.pc = "rewrite", !.seen = version, !.todo = ns])
  /\ UNCHANGED <<rows, served, stops, astray, mixed, touched, back>>
RewriteVersion(c, n) ==
  LET k == call[c] IN
  /\ At(c, "decide", "rewrite") /\ n \in k.todo
  /\ version' = [version EXCEPT ![n] = k.seen[n]]
  /\ Goto(c, IF k.todo = {n} THEN Idle ELSE [k EXCEPT !.todo = @ \ {n}])
  /\ astray' = (astray \/ k.seen[n] # version[n])
  /\ UNCHANGED <<import, link, served, stops, mixed, touched, back>>

\* The other writers of links, in procurementService.
EditLink(n, a) ==
  /\ served < MaxServed /\ served' = served + 1 /\ n \in DOMAIN link
  /\ link' = [link EXCEPT ![n].of = None, ![n].active = a]
  /\ touched' = touched \cup {n}
  /\ UNCHANGED <<import, version, call, stops, astray, mixed, back>>

\* A database call fails or the process restarts.
Stop(c) ==
  LET k == call[c] IN
  /\ k.op # "none" /\ stops < MaxStops /\ stops' = stops + 1
  /\ Goto(c, Idle)
  /\ astray' = (astray \/ k.op = "activate" \/ (k.op = "commit" /\ k.pc = "apply"))
  /\ mixed' = mixed \cup IF k.op = "commit" /\ k.pc = "finish" THEN {k.of} ELSE {}
  /\ UNCHANGED <<rows, served, touched, back>>

Next ==
  \/ \E i \in Imports, ps \in SUBSET Products \ {{}} : PreviewImport(i, ps)
  \/ \E c \in Calls :
       \/ \E i \in Imports :
            \/ CommitImport(c, i)
            \/ \E ps \in SUBSET Products : UpdateImportRow(c, i, ps)
            \/ \E new \in {"pending", "matched", "rejected"} : Decide(c, i, new)
       \/ \E p \in Products, n \in 1..(Len(link) + 1) : ApplyLine(c, p, n) \/ MatchLink(c, p, n)
       \/ \E n \in DOMAIN version : \/ ArchiveVersion(c, n) \/ ActivateVersion(c, n)
                                    \/ SwitchVersion(c, n) \/ RewriteVersion(c, n)
       \/ \E n \in DOMAIN link : SwitchLink(c, n)
       \/ ReadCatalog(c) \/ CreateVersion(c) \/ FinalizeImport(c) \/ Activated(c)
       \/ PutRow(c) \/ PutDecision(c) \/ ReadVersions(c) \/ Stop(c)
  \/ \E n \in DOMAIN link, a \in BOOLEAN : EditLink(n, a)

Spec == Init /\ [][Next]_vars

-----------------------------------------------------------------------------
\* The types of imports, versions, links and handlers; versions name links that exist.
TypeOK ==
  /\ import \in [Imports -> Import]
  /\ version \in Seq(Version) /\ link \in Seq(Link)
  /\ \A n \in DOMAIN version : version[n].snap \subseteq DOMAIN link
  /\ \A c \in Calls : /\ call[c].op \in {"none", "commit", "activate", "edit", "decide"}
                      /\ call[c].of \in Imports \cup {None} /\ call[c].row \in Import
  /\ served \in 0..MaxServed /\ stops \in 0..MaxStops
  /\ astray \in BOOLEAN /\ mixed \subseteq Imports

\* Nobody is half-way through the versions and links.
Settled == \A c \in Calls : call[c].op # "activate" /\ ~At(c, "commit", "apply")

\* commitImport and activateVersion leave one version active, unless two handlers wrote
\* versions at once or one ended half-way; an undisturbed activation repairs that.
OneVersionActive ==
  ~astray /\ Settled /\ version # <<>> => \E n \in DOMAIN version : Actives(version) = {n}

\* A committed import has its version, and only one, unless two handlers wrote its row or
\* the commit stopped before it could mark the import.
CommittedOnce ==
  \A i \in Imports :
    LET of == {n \in DOMAIN version : version[n].of = i} IN
    /\ import[i].status = "committed" => of # {}
    /\ i \notin mixed => \A m, n \in of : m = n

\* The links of the version that is active since its commit have its prices, and the
\* products can be ordered that its file lists as active.  If it was activated again, the
\* products that can be ordered are those of its links, also what its file had inactive.
ActiveInEffect ==
  ~astray /\ Settled =>
    \A v \in Actives(version), n \in DOMAIN link \ touched :
      IF v \in back THEN link[n].active <=> n \in version[v].snap
      ELSE n \in version[v].snap => link[n] = LinkBy(version[v].of, link[n].product)
=============================================================================
