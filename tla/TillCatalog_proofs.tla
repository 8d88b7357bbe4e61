-------------------------- MODULE TillCatalog_proofs --------------------------
(***************************************************************************)
(* Proofs about the catalogue of MCTillCatalog, for any products, imports  *)
(* and handlers and any bounds: types, that an import leads to one version *)
(* and that one version is active and its links in effect.                 *)
(***************************************************************************)
EXTENDS MCTillCatalog, Sequences, TLAPS

-----------------------------------------------------------------------------
\* The types, those of handlers among them.
Pcs == {"idle", "read", "apply", "finish", "versions", "links", "put", "link", "rewrite"}
CatalogCall ==
  [op : {"none", "commit", "activate", "edit", "decide"}, pc : Pcs, of : Imports \cup {None},
   row : G!Import, seen : Seq(G!Version), had : Seq(G!Link), todo : SUBSET (Articles \cup Nat),
   snap : SUBSET Nat, version : Nat]
CatalogTypes ==
  /\ G!TypeOK /\ g_call \in [Calls -> CatalogCall]
  /\ g_touched \in SUBSET Nat /\ g_back \in SUBSET (DOMAIN g_version)

VersionsOf(i) == {n \in DOMAIN g_version : g_version[n].of = i}

\* What a handler has read: of a version only "active" changes, of a link not its product.
KnowsVersions(k) ==
  /\ DOMAIN k.seen \subseteq DOMAIN g_version
  /\ \A n \in DOMAIN k.seen : k.seen[n].of = g_version[n].of /\ k.seen[n].snap = g_version[n].snap
KnowsLinks(k) ==
  /\ DOMAIN k.had \subseteq DOMAIN g_link
  /\ \A n \in DOMAIN k.had : k.had[n].product = g_link[n].product

\* What a handler knows and has done at each of its steps.
CommitFits(k) ==
  k.op = "commit" =>
    /\ k.pc \in {"read", "apply", "finish"} /\ k.of \in Imports /\ k.row.status = "staging"
    /\ k.pc \in {"read", "apply"} => k.todo \subseteq Articles
    /\ k.pc = "read" => k.snap = {}
    /\ \A n \in k.snap :
         /\ n \in DOMAIN k.had /\ k.had[n] = G!LinkBy(k.of, k.had[n].product)
         /\ k.had[n].product \notin k.todo
    /\ k.pc = "finish" => VersionsOf(k.of) # {}
ActivateFits(k) ==
  k.op = "activate" =>
    /\ k.pc \in {"versions", "links"} /\ k.version \in DOMAIN k.seen
    /\ \A n \in DOMAIN k.seen : k.seen[n].snap \subseteq DOMAIN k.had
    /\ k.pc = "versions" =>
         /\ k.todo \subseteq DOMAIN k.seen
         /\ \A n \in DOMAIN k.seen \ k.todo : k.seen[n].active <=> n = k.version
    /\ k.pc = "links" =>
         /\ k.todo \subseteq DOMAIN k.had /\ k.version \in g_back
         /\ \A n \in DOMAIN k.seen : k.seen[n].active <=> n = k.version
         /\ \A n \in DOMAIN k.had \ k.todo : k.had[n].active <=> n \in k.seen[k.version].snap
EditFits(k) ==
  k.op = "edit" =>
    k.pc = "put" /\ k.of \in Imports /\ k.row.status = "staging" /\ k.todo \subseteq Articles
DecideFits(k) ==
  k.op = "decide" =>
    /\ k.pc \in {"link", "put", "versions", "rewrite"} /\ k.of \in Imports
    /\ k.pc \in {"link", "put"} => k.row.status # "none"
    /\ k.pc \in {"link", "put"} /\ k.row.status = "committed" => VersionsOf(k.of) # {}
    /\ k.pc = "rewrite" => k.todo \subseteq DOMAIN k.seen
HandlerFits(k) ==
  /\ k.op = "none" <=> k.pc = "idle"
  /\ KnowsVersions(k) /\ KnowsLinks(k)
  /\ CommitFits(k) /\ ActivateFits(k) /\ EditFits(k) /\ DecideFits(k)
HandlersFit == \A c \in Calls : HandlerFits(g_call[c])

\* An import that was not mixed up is committed by one handler, into one version.
Commits(k, i) == k.op = "commit" /\ k.of = i
Unseen(i) == VersionsOf(i) = {} /\ \A c \in Calls : g_call[c].of # i
OnceWritten(i) ==
  /\ \A c, d \in Calls : Commits(g_call[c], i) /\ Commits(g_call[d], i) => c = d
  /\ \A c \in Calls : Commits(g_call[c], i) /\ g_call[c].pc \in {"read", "apply"} => VersionsOf(i) = {}
  /\ \A m, n \in VersionsOf(i) : m = n
  /\ VersionsOf(i) # {} => \/ g_import[i].status = "committed"
                           \/ \E c \in Calls : Commits(g_call[c], i) /\ g_call[c].pc = "finish"
ImportFits(i) ==
  /\ g_import[i].status = "none" => Unseen(i)
  /\ g_import[i].status = "committed" => VersionsOf(i) # {}
  /\ i \notin g_mixed => OnceWritten(i)
ImportsFit == \A i \in Imports : ImportFits(i)

\* While nobody is half-way through the versions, one is active.
Applies(k) == k.op = "commit" /\ k.pc = "apply"
Switches(k) == k.op = "activate" /\ k.pc = "versions"
Steady == ~g_astray /\ \A c \in Calls : ~Applies(g_call[c]) /\ ~Switches(g_call[c])
OneActive == Steady /\ g_version # <<>> => \E n \in DOMAIN g_version : G!Actives(g_version) = {n}

\* A link in no version is not active, except by a commit that is about to store one.
Orphan(n) == \A v \in DOMAIN g_version : n \notin g_version[v].snap
OrphansOff ==
  ~g_astray => \A n \in DOMAIN g_link \ g_touched :
    Orphan(n) /\ g_link[n].active => \E c \in Calls : Applies(g_call[c]) /\ n \in g_call[c].snap

\* The links of the active version are in effect, or about to be.
InEffect(v, n) ==
  IF v \in g_back THEN g_link[n].active <=> n \in g_version[v].snap
  ELSE n \in g_version[v].snap => g_link[n] = G!LinkBy(g_version[v].of, g_link[n].product)
WillSwitch(k, n) == k.op = "activate" /\ k.pc = "links" /\ k.seen = g_version /\ n \in k.todo
LinksInEffect ==
  Steady => \A v \in G!Actives(g_version), n \in DOMAIN g_link \ g_touched :
    InEffect(v, n) \/ \E c \in Calls : WillSwitch(g_call[c], n)

CatalogInv ==
  /\ CatalogTypes /\ HandlersFit /\ ImportsFit
  /\ OneActive /\ OrphansOff /\ LinksInEffect

-----------------------------------------------------------------------------
\* An idle handler.
LEMMA IdleHandler ==
  /\ G!Idle \in CatalogCall /\ HandlerFits(G!Idle)
  /\ G!Idle.op = "none" /\ G!Idle.of = None /\ G!Idle.pc = "idle"
  /\ G!Idle.todo = {} /\ G!Idle.snap = {} /\ G!Idle.seen = <<>> /\ G!Idle.had = <<>>
<1>1. G!Blank \in G!Import
  BY DEF G!Blank, G!Import
<1>2. G!Idle \in CatalogCall
  BY <1>1 DEF G!Idle, CatalogCall, Pcs
<1>3. /\ G!Idle.op = "none" /\ G!Idle.of = None /\ G!Idle.pc = "idle"
      /\ G!Idle.todo = {} /\ G!Idle.snap = {} /\ G!Idle.seen = <<>> /\ G!Idle.had = <<>>
  BY DEF G!Idle
<1>4. KnowsVersions(G!Idle) /\ KnowsLinks(G!Idle)
  BY <1>3 DEF KnowsVersions, KnowsLinks
<1> QED
  BY <1>2, <1>3, <1>4 DEF HandlerFits, CommitFits, ActivateFits, EditFits, DecideFits

\* What holds of the tables.
LEMMA TablesAre ==
  ASSUME CatalogTypes
  PROVE  /\ g_import \in [Imports -> G!Import] /\ g_version \in Seq(G!Version) /\ g_link \in Seq(G!Link)
         /\ DOMAIN g_version \in SUBSET Nat /\ DOMAIN g_link \in SUBSET Nat
         /\ \A n \in DOMAIN g_version : /\ g_version[n] \in G!Version /\ g_version[n].of \in Imports
                                        /\ g_version[n].snap \subseteq DOMAIN g_link
         /\ \A n \in DOMAIN g_link : g_link[n] \in G!Link /\ g_link[n].product \in Articles
         /\ g_call \in [Calls -> CatalogCall]
         /\ g_served \in Nat /\ g_stops \in Nat /\ g_astray \in BOOLEAN
         /\ g_mixed \in SUBSET Imports /\ g_touched \in SUBSET Nat
<1>1. /\ g_import \in [Imports -> G!Import] /\ g_version \in Seq(G!Version) /\ g_link \in Seq(G!Link)
      /\ g_call \in [Calls -> CatalogCall] /\ g_astray \in BOOLEAN
      /\ g_mixed \in SUBSET Imports /\ g_touched \in SUBSET Nat
      /\ g_served \in Nat /\ g_stops \in Nat
      /\ \A n \in DOMAIN g_version : g_version[n].snap \subseteq DOMAIN g_link
  BY CatalogAssumption DEF CatalogTypes, G!TypeOK
<1>2. DOMAIN g_version = 1..Len(g_version) /\ DOMAIN g_link = 1..Len(g_link)
  BY <1>1
<1>3. \A n \in DOMAIN g_version : g_version[n] \in G!Version
  BY <1>1, <1>2
<1>4. \A n \in DOMAIN g_link : g_link[n] \in G!Link
  BY <1>1, <1>2
<1> QED
  BY <1>1, <1>2, <1>3, <1>4 DEF G!Version, G!Link

\* What is known of rows stays true: versions and links are never removed.
Grow ==
  /\ DOMAIN g_version \subseteq DOMAIN g_version'
  /\ \A n \in DOMAIN g_version : /\ g_version'[n].of = g_version[n].of
                                 /\ g_version'[n].snap = g_version[n].snap
  /\ DOMAIN g_link \subseteq DOMAIN g_link'
  /\ \A n \in DOMAIN g_link : g_link'[n].product = g_link[n].product
  /\ g_back \subseteq g_back'

LEMMA StillFits ==
  ASSUME Grow, NEW k \in CatalogCall, HandlerFits(k)
  PROVE  HandlerFits(k)'
<1>1. \A i : VersionsOf(i) \subseteq VersionsOf(i)'
  BY DEF Grow, VersionsOf
<1>2. KnowsVersions(k)' /\ KnowsLinks(k)'
  <2>1. KnowsVersions(k)'
    BY DEF Grow, HandlerFits, KnowsVersions
  <2>2. KnowsLinks(k)'
    BY DEF Grow, HandlerFits, KnowsLinks
  <2> QED
    BY <2>1, <2>2
<1>3. CommitFits(k)'
  BY <1>1 DEF HandlerFits, CommitFits
<1>4. ActivateFits(k)'
  BY DEF HandlerFits, ActivateFits, Grow
<1>5. EditFits(k)'
  BY DEF HandlerFits, EditFits
<1>6. DecideFits(k)'
  BY <1>1 DEF HandlerFits, DecideFits
<1> QED
  BY <1>2, <1>3, <1>4, <1>5, <1>6 DEF HandlerFits

\* A step of one handler.
Moves(c, m) == g_call' = [g_call EXCEPT ![c] = m]

LEMMA HandlersKept ==
  ASSUME CatalogTypes, HandlersFit, Grow, NEW c \in Calls, NEW m \in CatalogCall, Moves(c, m),
         HandlerFits(m)'
  PROVE  HandlersFit' /\ g_call' \in [Calls -> CatalogCall]
<1>1. g_call \in [Calls -> CatalogCall]
  BY TablesAre
<1>2. ASSUME NEW d \in Calls PROVE HandlerFits(g_call[d])'
  <2>1. CASE d = c
    <3>1. g_call'[d] = m
      BY <1>1, <2>1 DEF Moves
    <3> QED
      BY <3>1 DEF HandlerFits, KnowsVersions, KnowsLinks, CommitFits, ActivateFits, EditFits,
                  DecideFits
  <2>2. CASE d # c
    <3>1. PICK k \in CatalogCall : k = g_call[d]
      BY <1>1
    <3>2. g_call'[d] = k
      BY <1>1, <2>2, <3>1 DEF Moves
    <3>3. HandlerFits(k)'
      BY <3>1, StillFits DEF HandlersFit
    <3> QED
      BY <3>2, <3>3 DEF HandlerFits, KnowsVersions, KnowsLinks, CommitFits, ActivateFits, EditFits,
                        DecideFits
  <2> QED
    BY <2>1, <2>2
<1> QED
  BY <1>1, <1>2 DEF HandlersFit, Moves


\* What a step of one handler leaves.
LEMMA MovesAre ==
  ASSUME g_call \in [Calls -> CatalogCall], NEW c \in Calls, NEW m, Moves(c, m)
  PROVE  g_call'[c] = m /\ \A d \in Calls \ {c} : g_call'[d] = g_call[d]
BY DEF Moves

\* The types of the next state, one by one.
LEMMA TypesNext ==
  ASSUME g_import' \in [Imports -> G!Import], g_version' \in Seq(G!Version),
         g_link' \in Seq(G!Link),
         \A n \in DOMAIN g_version' : g_version'[n].snap \subseteq DOMAIN g_link',
         g_call' \in [Calls -> CatalogCall], g_served' \in 0..MaxServed,
         g_stops' \in 0..MaxErrors, g_astray' \in BOOLEAN, g_mixed' \in SUBSET Imports,
         g_touched' \in SUBSET Nat, g_back' \in SUBSET (DOMAIN g_version')
  PROVE  CatalogTypes'
<1>1. \A c \in Calls : /\ g_call'[c].op \in {"none", "commit", "activate", "edit", "decide"}
                       /\ g_call'[c].of \in Imports \cup {None} /\ g_call'[c].row \in G!Import
  BY DEF CatalogCall
<1>2. G!TypeOK'
  BY <1>1 DEF G!TypeOK
<1> QED
  BY <1>2 DEF CatalogTypes

\* The handlers that stand in the way of a settled catalogue remain, as far as it is
\* not astray, and so do the links that an activation will switch.
Goes(k, m) ==
  /\ Applies(k) => Applies(m) /\ k.snap \subseteq m.snap
  /\ Switches(k) => Switches(m)
  /\ k.op = "activate" /\ k.pc = "links" /\ k.todo # {} =>
       m.op = "activate" /\ m.pc = "links" /\ m.seen = k.seen /\ k.todo \subseteq m.todo

\* What is said of versions and links holds on while versions, and links that nobody
\* touched, stay.
LEMMA RowsStay ==
  ASSUME OneActive, OrphansOff, LinksInEffect, g_version' = g_version, g_back' = g_back,
         \A n \in DOMAIN g_link' \ g_touched' :
           n \in DOMAIN g_link \ g_touched /\ g_link'[n] = g_link[n],
         g_astray' \/ (~g_astray /\ \A d \in Calls : Goes(g_call[d], g_call'[d]))
  PROVE  OneActive' /\ OrphansOff' /\ LinksInEffect'
<1>1. CASE g_astray'
  BY <1>1 DEF OneActive, OrphansOff, LinksInEffect, Steady
<1>2. CASE ~g_astray'
  <2>1. ~g_astray /\ \A d \in Calls : Goes(g_call[d], g_call'[d])
    BY <1>2
  <2>2. Steady' => Steady
    BY <2>1 DEF Steady, Goes
  <2>3. OneActive'
    BY <2>2 DEF OneActive, G!Actives
  <2>4. OrphansOff'
    <3>1. SUFFICES ASSUME NEW n \in DOMAIN g_link' \ g_touched', Orphan(n)', g_link'[n].active
                   PROVE  \E c \in Calls : Applies(g_call'[c]) /\ n \in g_call'[c].snap
      BY DEF OrphansOff, Applies
    <3>2. n \in DOMAIN g_link \ g_touched /\ g_link[n].active /\ Orphan(n)
      BY <3>1 DEF Orphan
    <3>3. PICK c \in Calls : Applies(g_call[c]) /\ n \in g_call[c].snap
      BY <2>1, <3>2 DEF OrphansOff
    <3> QED
      BY <2>1, <3>3 DEF Goes
  <2>5. LinksInEffect'
    <3>1. SUFFICES ASSUME Steady', NEW v \in G!Actives(g_version), NEW n \in DOMAIN g_link' \ g_touched',
                          ~InEffect(v, n)'
                   PROVE  \E c \in Calls : WillSwitch(g_call[c], n)'
      BY DEF LinksInEffect, G!Actives
    <3>2. n \in DOMAIN g_link \ g_touched /\ ~InEffect(v, n)
      BY <3>1 DEF InEffect
    <3>3. PICK c \in Calls : WillSwitch(g_call[c], n)
      BY <2>2, <3>1, <3>2 DEF LinksInEffect
    <3>4. WillSwitch(g_call[c], n)'
      BY <2>1, <3>3 DEF WillSwitch, Goes
    <3> QED
      BY <3>4
  <2> QED
    BY <2>3, <2>4, <2>5
<1> QED
  BY <1>1, <1>2

\* What is said of imports holds on while imports and their versions stay.
Continues(k, m) ==
  /\ m.of = k.of \/ m.of = None \/ g_import[m.of].status # "none"
  /\ m.op = "commit" =>
       k.op = "commit" /\ m.of = k.of /\ (m.pc \in {"read", "apply"} => k.pc \in {"read", "apply"})
  /\ k.op = "commit" /\ k.pc = "finish" =>
       (m.op = "commit" /\ m.pc = "finish" /\ m.of = k.of) \/ k.of \in g_mixed'

LEMMA ImportsKept ==
  ASSUME ImportsFit, g_import' = g_import, \A i \in Imports : VersionsOf(i)' = VersionsOf(i),
         g_mixed \subseteq g_mixed', \A d \in Calls : Continues(g_call[d], g_call'[d])
  PROVE  ImportsFit'
<1>1. SUFFICES ASSUME NEW i \in Imports PROVE ImportFits(i)'
  BY DEF ImportsFit
<1>2. ImportFits(i) /\ VersionsOf(i)' = VersionsOf(i) /\ i # None
  BY CatalogAssumption DEF ImportsFit
<1>3. g_import[i].status = "none" => Unseen(i)'
  BY <1>2 DEF ImportFits, Unseen, Continues
<1>4. ASSUME i \notin g_mixed' PROVE OnceWritten(i)'
  <2>1. OnceWritten(i) /\ i \notin g_mixed
    BY <1>2, <1>4 DEF ImportFits
  <2>2. \A d \in Calls : Commits(g_call'[d], i) => Commits(g_call[d], i)
    BY DEF Commits, Continues
  <2>3. \A c, d \in Calls : Commits(g_call'[c], i) /\ Commits(g_call'[d], i) => c = d
    BY <2>1, <2>2 DEF OnceWritten
  <2>4. \A c \in Calls : Commits(g_call'[c], i) /\ g_call'[c].pc \in {"read", "apply"}
                           => VersionsOf(i)' = {}
    BY <1>2, <2>1, <2>2 DEF OnceWritten, Commits, Continues
  <2>5. VersionsOf(i)' # {} =>
          \/ g_import'[i].status = "committed"
          \/ \E c \in Calls : Commits(g_call'[c], i) /\ g_call'[c].pc = "finish"
    BY <1>2, <1>4, <2>1 DEF OnceWritten, Commits, Continues
  <2>6. \A m, n \in VersionsOf(i)' : m = n
    BY <1>2, <2>1 DEF OnceWritten
  <2> QED
    BY <2>3, <2>4, <2>5, <2>6 DEF OnceWritten, Commits
<1> QED
  BY <1>2, <1>3, <1>4 DEF ImportFits

\* A step that writes neither versions nor links.
LEMMA CatalogStays ==
  ASSUME CatalogInv, NEW c \in Calls, NEW m \in CatalogCall, Moves(c, m), HandlerFits(m),
         g_import' \in [Imports -> G!Import],
         UNCHANGED <<g_version, g_link, g_touched, g_back>>,
         g_served' \in 0..MaxServed, g_stops' \in 0..MaxErrors,
         g_mixed' \in SUBSET Imports, g_astray' \in BOOLEAN
  PROVE  /\ CatalogTypes' /\ HandlersFit' /\ \A i \in Imports : VersionsOf(i)' = VersionsOf(i)
         /\ g_call'[c] = m /\ \A d \in Calls \ {c} : g_call'[d] = g_call[d]
         /\ g_astray' \/ (~g_astray /\ Goes(g_call[c], m)) => OneActive' /\ OrphansOff' /\ LinksInEffect'
<1>1. CatalogTypes /\ HandlersFit /\ OneActive /\ OrphansOff /\ LinksInEffect
  BY DEF CatalogInv
<1>2. Grow
  BY DEF Grow
<1>3. HandlersFit' /\ g_call' \in [Calls -> CatalogCall]
  BY <1>1, <1>2, StillFits, HandlersKept
<1>4. CatalogTypes'
  <2>1. /\ g_version \in Seq(G!Version) /\ g_link \in Seq(G!Link)
        /\ \A n \in DOMAIN g_version : g_version[n].snap \subseteq DOMAIN g_link
        /\ g_touched \in SUBSET Nat /\ g_back \in SUBSET (DOMAIN g_version)
    BY <1>1 DEF CatalogTypes, G!TypeOK
  <2> QED
    BY <1>3, <2>1, TypesNext
<1>5. g_call'[c] = m /\ \A d \in Calls \ {c} : g_call'[d] = g_call[d]
  BY <1>1, TablesAre, MovesAre
<1>6. ASSUME g_astray' \/ (~g_astray /\ Goes(g_call[c], m))
      PROVE  OneActive' /\ OrphansOff' /\ LinksInEffect'
  <2>1. g_astray' \/ (~g_astray /\ \A d \in Calls : Goes(g_call[d], g_call'[d]))
    BY <1>5, <1>6 DEF Goes
  <2> QED
    BY <1>1, <2>1, RowsStay
<1>7. \A i \in Imports : VersionsOf(i)' = VersionsOf(i)
  BY DEF VersionsOf
<1> QED
  BY <1>3, <1>4, <1>5, <1>6, <1>7

\* A step that writes no row.
LEMMA Quiet ==
  ASSUME CatalogInv, NEW c \in Calls, NEW m \in CatalogCall, Moves(c, m), HandlerFits(m),
         UNCHANGED <<g_import, g_version, g_link, g_touched, g_back>>,
         g_served' \in 0..MaxServed, g_stops' \in 0..MaxErrors,
         g_mixed' \in SUBSET Imports, g_astray' \in BOOLEAN
  PROVE  /\ CatalogTypes' /\ HandlersFit'
         /\ g_astray' \/ (~g_astray /\ Goes(g_call[c], m)) => OneActive' /\ OrphansOff' /\ LinksInEffect'
         /\ g_mixed \subseteq g_mixed' /\ Continues(g_call[c], m) => ImportsFit'
<1>1. CatalogTypes /\ ImportsFit
  BY DEF CatalogInv
<1>2. g_import' \in [Imports -> G!Import]
  BY <1>1, TablesAre
<1>3. /\ CatalogTypes' /\ HandlersFit' /\ \A i \in Imports : VersionsOf(i)' = VersionsOf(i)
      /\ g_call'[c] = m /\ \A d \in Calls \ {c} : g_call'[d] = g_call[d]
      /\ g_astray' \/ (~g_astray /\ Goes(g_call[c], m)) => OneActive' /\ OrphansOff' /\ LinksInEffect'
  BY <1>2, CatalogStays
<1>4. ASSUME g_mixed \subseteq g_mixed', Continues(g_call[c], m)
      PROVE  ImportsFit'
  <2>1. \A d \in Calls : Continues(g_call[d], g_call'[d])
    BY <1>3, <1>4 DEF Continues
  <2> QED
    BY <1>1, <1>3, <1>4, <2>1, ImportsKept
<1> QED
  BY <1>3, <1>4

-----------------------------------------------------------------------------
\* The steps that write no row.
LEMMA CommitImportKeeps ==
  ASSUME CatalogInv, NEW c \in Calls, NEW i \in Imports, G!CommitImport(c, i)
  PROVE  CatalogInv'
<1>1. CatalogTypes /\ HandlersFit /\ ImportsFit
  BY DEF CatalogInv
<1> DEFINE M == [G!Idle EXCEPT !.op = "commit", !.pc = "read", !.of = i, !.row = g_import[i],
                               !.todo = g_import[i].lines]
<1>2. PICK m : m = M
  OBVIOUS
<1>3. /\ g_call[c].op = "none" /\ g_import[i].status = "staging" /\ Moves(c, m)
      /\ UNCHANGED <<g_import, g_version, g_link, g_stops, g_astray, g_touched, g_back>>
      /\ g_served < MaxServed /\ g_served' = g_served + 1
      /\ g_mixed' = g_mixed \cup IF \E d \in Calls : g_call[d].op = "commit" /\ g_call[d].of = i
                                 THEN {i} ELSE {}
  BY <1>2 DEF G!CommitImport, G!Free, G!MayCommit, G!Goto, G!rows, Moves
<1>4. /\ g_import[i] \in G!Import /\ g_import[i].lines \subseteq Articles
      /\ g_astray \in BOOLEAN /\ g_mixed \subseteq Imports /\ g_served \in Nat
      /\ g_stops \in 0..MaxErrors /\ g_call[c] \in CatalogCall /\ HandlerFits(g_call[c])
  BY <1>1, TablesAre DEF G!Import, HandlersFit, CatalogTypes, G!TypeOK
<1>5. /\ m.op = "commit" /\ m.pc = "read" /\ m.of = i /\ m.row = g_import[i] /\ m.snap = {}
      /\ m.todo = g_import[i].lines /\ m.seen = <<>> /\ m.had = <<>>
  BY <1>2 DEF G!Idle
<1>6. m \in CatalogCall
  BY <1>2, <1>4, IdleHandler DEF CatalogCall, Pcs
<1>7. HandlerFits(m)
  BY <1>3, <1>4, <1>5 DEF HandlerFits, KnowsVersions, KnowsLinks, CommitFits, ActivateFits,
                          EditFits, DecideFits
<1>8. /\ g_served' \in 0..MaxServed /\ g_stops' \in 0..MaxErrors
      /\ g_mixed' \in SUBSET Imports /\ g_mixed \subseteq g_mixed' /\ g_astray' \in BOOLEAN
  BY <1>3, <1>4, CatalogAssumption
<1>9. g_astray' \/ (~g_astray /\ Goes(g_call[c], m))
  BY <1>3, <1>4 DEF Goes, Applies, Switches
<1>10. CatalogTypes' /\ HandlersFit' /\ OneActive' /\ OrphansOff' /\ LinksInEffect'
  BY <1>3, <1>6, <1>7, <1>8, <1>9, Quiet
<1>11. ImportsFit'
  <2>1. SUFFICES ASSUME NEW j \in Imports PROVE ImportFits(j)'
    BY DEF ImportsFit
  <2>2. ImportFits(j) /\ VersionsOf(j)' = VersionsOf(j)
    BY <1>1, <1>3 DEF ImportsFit, VersionsOf
  <2>3. g_call'[c] = m /\ \A d \in Calls \ {c} : g_call'[d] = g_call[d]
    BY <1>1, <1>3, TablesAre, MovesAre
  <2>4. g_import[j].status = "none" => Unseen(j)'
    BY <1>3, <1>5, <2>2, <2>3 DEF ImportFits, Unseen
  <2>5. ASSUME j \notin g_mixed' PROVE OnceWritten(j)'
    <3>1. OnceWritten(j) /\ j \notin g_mixed
      BY <1>3, <2>2, <2>5 DEF ImportFits
    <3>2. CASE j # i
      BY <1>3, <1>4, <1>5, <2>2, <2>3, <3>1, <3>2 DEF OnceWritten, Commits
    <3>3. CASE j = i
      <4>1. \A d \in Calls : ~Commits(g_call[d], i)
        BY <1>3, <2>5, <3>3 DEF Commits
      <4>2. VersionsOf(i) = {}
        BY <1>3, <3>1, <3>3, <4>1 DEF OnceWritten
      <4> QED
        BY <2>2, <2>3, <3>3, <4>1, <4>2 DEF OnceWritten, Commits
    <3> QED
      BY <3>2, <3>3
  <2> QED
    BY <1>3, <2>2, <2>4, <2>5 DEF ImportFits
<1> QED
  BY <1>10, <1>11 DEF CatalogInv

LEMMA ReadCatalogKeeps ==
  ASSUME CatalogInv, NEW c \in Calls, G!ReadCatalog(c)
  PROVE  CatalogInv'
<1>1. CatalogTypes /\ HandlersFit /\ ImportsFit
  BY DEF CatalogInv
<1>2. PICK k : k = g_call[c]
  OBVIOUS
<1>3. PICK m : m = [k EXCEPT !.pc = "apply", !.seen = g_version, !.had = g_link]
  OBVIOUS
<1>4. /\ k.op = "commit" /\ k.pc = "read" /\ Moves(c, m)
      /\ UNCHANGED <<g_import, g_version, g_link, g_served, g_stops, g_astray, g_mixed, g_touched, g_back>>
  BY <1>2, <1>3 DEF G!ReadCatalog, G!At, G!Goto, G!rows, Moves
<1>5. /\ k \in CatalogCall /\ HandlerFits(k) /\ g_version \in Seq(G!Version) /\ g_link \in Seq(G!Link)
      /\ g_astray \in BOOLEAN /\ g_mixed \subseteq Imports /\ g_served \in 0..MaxServed
      /\ g_stops \in 0..MaxErrors
  BY <1>1, <1>2, TablesAre DEF HandlersFit, CatalogTypes, G!TypeOK
<1>6. m \in CatalogCall
  BY <1>3, <1>5 DEF CatalogCall, Pcs
<1>7. /\ m.op = "commit" /\ m.pc = "apply" /\ m.of = k.of /\ m.row = k.row /\ m.snap = k.snap
      /\ m.todo = k.todo /\ m.seen = g_version /\ m.had = g_link
  BY <1>3, <1>4, <1>5 DEF CatalogCall
<1>8. HandlerFits(m)
  BY <1>4, <1>5, <1>7 DEF HandlerFits, KnowsVersions, KnowsLinks, CommitFits, ActivateFits,
                          EditFits, DecideFits
<1>9. g_astray' \/ (~g_astray /\ Goes(k, m))
  BY <1>4, <1>5 DEF Goes, Applies, Switches
<1>10. Continues(k, m) /\ g_mixed \subseteq g_mixed'
  BY <1>4, <1>7 DEF Continues
<1> QED
  BY <1>2, <1>4, <1>5, <1>6, <1>8, <1>9, <1>10, Quiet DEF CatalogInv

LEMMA ActivateVersionKeeps ==
  ASSUME CatalogInv, NEW c \in Calls, NEW n \in DOMAIN g_version, G!ActivateVersion(c, n)
  PROVE  CatalogInv'
<1>1. CatalogTypes /\ HandlersFit /\ ImportsFit
  BY DEF CatalogInv
<1>2. PICK k : k = g_call[c]
  OBVIOUS
<1>3. PICK m : m = [G!Idle EXCEPT !.op = "activate", !.pc = "versions", !.version = n,
                                  !.seen = g_version, !.had = g_link, !.todo = DOMAIN g_version]
  OBVIOUS
<1>4. /\ k.op = "none" /\ Moves(c, m) /\ g_served < MaxServed /\ g_served' = g_served + 1
      /\ UNCHANGED <<g_import, g_version, g_link, g_stops, g_astray, g_mixed, g_touched, g_back>>
  BY <1>2, <1>3 DEF G!ActivateVersion, G!Free, G!Goto, G!rows, Moves
<1>5. /\ k \in CatalogCall /\ HandlerFits(k) /\ g_version \in Seq(G!Version) /\ g_link \in Seq(G!Link)
      /\ DOMAIN g_version \in SUBSET Nat
      /\ \A v \in DOMAIN g_version : g_version[v].snap \subseteq DOMAIN g_link
      /\ g_astray \in BOOLEAN /\ g_mixed \subseteq Imports /\ g_served \in Nat
      /\ g_stops \in 0..MaxErrors
  BY <1>1, <1>2, TablesAre DEF HandlersFit, CatalogTypes, G!TypeOK
<1>6. m \in CatalogCall
  BY <1>3, <1>5, IdleHandler DEF CatalogCall, Pcs
<1>7. /\ m.op = "activate" /\ m.pc = "versions" /\ m.of = None /\ m.version = n
      /\ m.todo = DOMAIN g_version /\ m.seen = g_version /\ m.had = g_link
  BY <1>3 DEF G!Idle
<1>8. HandlerFits(m)
  BY <1>5, <1>7 DEF HandlerFits, KnowsVersions, KnowsLinks, CommitFits, ActivateFits,
                          EditFits, DecideFits
<1>9. g_astray' \/ (~g_astray /\ Goes(k, m))
  BY <1>4, <1>5 DEF Goes, Applies, Switches
<1>10. Continues(k, m) /\ g_mixed \subseteq g_mixed'
  BY <1>4, <1>7 DEF Continues
<1>11. g_served' \in 0..MaxServed
  BY <1>4, <1>5, CatalogAssumption
<1> QED
  BY <1>2, <1>4, <1>5, <1>6, <1>8, <1>9, <1>10, <1>11, Quiet DEF CatalogInv

LEMMA UpdateImportRowKeeps ==
  ASSUME CatalogInv, NEW c \in Calls, NEW i \in Imports, NEW ps \in SUBSET Articles,
         G!UpdateImportRow(c, i, ps)
  PROVE  CatalogInv'
<1>1. CatalogTypes /\ HandlersFit /\ ImportsFit
  BY DEF CatalogInv
<1>2. PICK k : k = g_call[c]
  OBVIOUS
<1>3. PICK m : m = [G!Idle EXCEPT !.op = "edit", !.pc = "put", !.of = i, !.row = g_import[i],
                                  !.todo = ps]
  OBVIOUS
<1>4. /\ k.op = "none" /\ Moves(c, m) /\ g_served < MaxServed /\ g_served' = g_served + 1
      /\ g_import[i].status = "staging"
      /\ UNCHANGED <<g_import, g_version, g_link, g_stops, g_astray, g_mixed, g_touched, g_back>>
  BY <1>2, <1>3 DEF G!UpdateImportRow, G!Free, G!MayCommit, G!Goto, G!rows, Moves
<1>5. /\ k \in CatalogCall /\ HandlerFits(k) /\ g_import[i] \in G!Import
      /\ g_astray \in BOOLEAN /\ g_mixed \subseteq Imports /\ g_served \in Nat
      /\ g_stops \in 0..MaxErrors
  BY <1>1, <1>2, TablesAre DEF HandlersFit, CatalogTypes, G!TypeOK
<1>6. m \in CatalogCall
  BY <1>3, <1>5, IdleHandler DEF CatalogCall, Pcs
<1>7. /\ m.op = "edit" /\ m.pc = "put" /\ m.of = i /\ m.row = g_import[i]
      /\ m.todo = ps /\ m.seen = <<>> /\ m.had = <<>>
  BY <1>3 DEF G!Idle
<1>8. HandlerFits(m)
  BY <1>4, <1>5, <1>7 DEF HandlerFits, KnowsVersions, KnowsLinks, CommitFits, ActivateFits,
                          EditFits, DecideFits
<1>9. g_astray' \/ (~g_astray /\ Goes(k, m))
  BY <1>4, <1>5 DEF Goes, Applies, Switches
<1>10. Continues(k, m) /\ g_mixed \subseteq g_mixed'
  BY <1>4, <1>7 DEF Continues
<1>11. g_served' \in 0..MaxServed
  BY <1>4, <1>5, CatalogAssumption
<1> QED
  BY <1>2, <1>4, <1>5, <1>6, <1>8, <1>9, <1>10, <1>11, Quiet DEF CatalogInv

LEMMA DecideKeeps ==
  ASSUME CatalogInv, NEW c \in Calls, NEW i \in Imports,
         NEW new \in {"pending", "matched", "rejected"}, G!Decide(c, i, new)
  PROVE  CatalogInv'
<1>1. CatalogTypes /\ HandlersFit /\ ImportsFit
  BY DEF CatalogInv
<1>2. PICK k : k = g_call[c]
  OBVIOUS
<1>3. PICK r : r = [g_import[i] EXCEPT !.queue = new]
  OBVIOUS
<1>4. PICK had : had = IF new = "matched" THEN g_link ELSE <<>>
  OBVIOUS
<1>5. PICK m : m = [G!Idle EXCEPT !.op = "decide", !.pc = IF new = "matched" THEN "link" ELSE "put",
                                  !.of = i, !.row = r, !.had = had]
  OBVIOUS
<1>6. /\ k.op = "none" /\ Moves(c, m) /\ g_served < MaxServed /\ g_served' = g_served + 1
      /\ g_import[i].status # "none"
      /\ UNCHANGED <<g_import, g_version, g_link, g_stops, g_astray, g_mixed, g_touched, g_back>>
  BY <1>2, <1>3, <1>4, <1>5 DEF G!Decide, G!Free, G!Goto, G!rows, Moves
<1>7. /\ k \in CatalogCall /\ HandlerFits(k) /\ g_import[i] \in G!Import /\ g_link \in Seq(G!Link)
      /\ g_astray \in BOOLEAN /\ g_mixed \subseteq Imports /\ g_served \in Nat
      /\ g_stops \in 0..MaxErrors /\ ImportFits(i)
  BY <1>1, <1>2, TablesAre DEF HandlersFit, CatalogTypes, G!TypeOK, ImportsFit
<1>8. r \in G!Import /\ r.status = g_import[i].status /\ had \in Seq(G!Link)
  BY <1>3, <1>4, <1>7 DEF G!Import
<1>9. m \in CatalogCall
  BY <1>5, <1>7, <1>8, IdleHandler DEF CatalogCall, Pcs
<1>10. /\ m.op = "decide" /\ m.pc \in {"link", "put"} /\ m.of = i /\ m.row = r
       /\ m.seen = <<>> /\ m.had = had
  BY <1>5 DEF G!Idle
<1>11. HandlerFits(m)
  <2>1. KnowsLinks(m) /\ KnowsVersions(m)
    BY <1>4, <1>10 DEF KnowsVersions, KnowsLinks
  <2>2. DecideFits(m)
    BY <1>6, <1>7, <1>8, <1>10 DEF DecideFits, ImportFits
  <2> QED
    BY <1>10, <2>1, <2>2 DEF HandlerFits, CommitFits, ActivateFits, EditFits
<1>12. g_astray' \/ (~g_astray /\ Goes(k, m))
  BY <1>6, <1>7 DEF Goes, Applies, Switches
<1>13. Continues(k, m) /\ g_mixed \subseteq g_mixed'
  BY <1>6, <1>10 DEF Continues
<1>14. g_served' \in 0..MaxServed
  BY <1>6, <1>7, CatalogAssumption
<1> QED
  BY <1>2, <1>6, <1>7, <1>9, <1>11, <1>12, <1>13, <1>14, Quiet DEF CatalogInv

LEMMA ReadVersionsKeeps ==
  ASSUME CatalogInv, NEW c \in Calls, G!ReadVersions(c)
  PROVE  CatalogInv'
<1>1. CatalogTypes /\ HandlersFit /\ ImportsFit
  BY DEF CatalogInv
<1>2. PICK k : k = g_call[c]
  OBVIOUS
<1>3. PICK m : m = IF VersionsOf(k.of) = {} THEN G!Idle
                   ELSE [k EXCEPT !.pc = "rewrite", !.seen = g_version, !.todo = VersionsOf(k.of)]
  OBVIOUS
<1>4. /\ k.op = "decide" /\ k.pc = "versions" /\ Moves(c, m)
      /\ UNCHANGED <<g_import, g_version, g_link, g_served, g_stops, g_astray, g_mixed, g_touched, g_back>>
  BY <1>2, <1>3 DEF G!ReadVersions, G!At, G!Goto, G!rows, Moves, VersionsOf
<1>5. /\ k \in CatalogCall /\ HandlerFits(k) /\ g_version \in Seq(G!Version)
      /\ DOMAIN g_version \in SUBSET Nat
      /\ g_astray \in BOOLEAN /\ g_mixed \in SUBSET Imports /\ g_served \in 0..MaxServed
      /\ g_stops \in 0..MaxErrors
  BY <1>1, <1>2, TablesAre DEF HandlersFit, CatalogTypes, G!TypeOK
<1>6. m \in CatalogCall /\ HandlerFits(m) /\ ~Applies(k) /\ ~Switches(k) /\ Continues(k, m)
  <2>1. ~Applies(k) /\ ~Switches(k)
    BY <1>4 DEF Applies, Switches
  <2>2. CASE VersionsOf(k.of) = {}
    BY <1>3, <1>4, <2>1, <2>2, IdleHandler DEF Continues
  <2>3. CASE VersionsOf(k.of) # {}
    <3>1. VersionsOf(k.of) \in SUBSET Nat
      BY <1>5 DEF VersionsOf
    <3>2. m = [k EXCEPT !.pc = "rewrite", !.seen = g_version, !.todo = VersionsOf(k.of)]
      BY <1>3, <2>3
    <3>3. m \in CatalogCall
      BY <1>5, <3>1, <3>2 DEF CatalogCall, Pcs
    <3>4. /\ m.op = "decide" /\ m.pc = "rewrite" /\ m.of = k.of /\ m.seen = g_version
          /\ m.had = k.had /\ m.todo = VersionsOf(k.of)
      BY <1>4, <1>5, <3>2 DEF CatalogCall
    <3>5. HandlerFits(m)
      BY <1>4, <1>5, <3>4 DEF HandlerFits, KnowsVersions, KnowsLinks, CommitFits, ActivateFits,
                              EditFits, DecideFits, VersionsOf
    <3> QED
      BY <1>4, <2>1, <3>3, <3>4, <3>5 DEF Continues
  <2> QED
    BY <2>2, <2>3
<1>7. g_astray' \/ (~g_astray /\ Goes(k, m))
  BY <1>4, <1>5, <1>6 DEF Goes
<1> QED
  BY <1>2, <1>4, <1>5, <1>6, <1>7, Quiet DEF CatalogInv

LEMMA StopKeeps ==
  ASSUME CatalogInv, NEW c \in Calls, G!Stop(c)
  PROVE  CatalogInv'
<1>1. CatalogTypes /\ HandlersFit /\ ImportsFit
  BY DEF CatalogInv
<1>2. PICK k : k = g_call[c]
  OBVIOUS
<1>3. PICK m : m = G!Idle
  OBVIOUS
<1>4. /\ k.op # "none" /\ g_stops < MaxErrors /\ g_stops' = g_stops + 1 /\ Moves(c, m)
      /\ g_astray' = (g_astray \/ k.op = "activate" \/ (k.op = "commit" /\ k.pc = "apply"))
      /\ g_mixed' = g_mixed \cup IF k.op = "commit" /\ k.pc = "finish" THEN {k.of} ELSE {}
      /\ UNCHANGED <<g_import, g_version, g_link, g_served, g_touched, g_back>>
  BY <1>2, <1>3 DEF G!Stop, G!Goto, G!rows, Moves
<1>5. /\ k \in CatalogCall /\ HandlerFits(k)
      /\ g_astray \in BOOLEAN /\ g_mixed \in SUBSET Imports /\ g_served \in 0..MaxServed
      /\ g_stops \in 0..MaxErrors
  BY <1>1, <1>2, TablesAre DEF HandlersFit, CatalogTypes, G!TypeOK
<1>6. m \in CatalogCall /\ HandlerFits(m) /\ m.op = "none" /\ m.of = None
  BY <1>3, IdleHandler
<1>7. k.op = "commit" /\ k.pc = "finish" => k.of \in Imports
  BY <1>5 DEF HandlerFits, CommitFits
<1>8. g_mixed' \in SUBSET Imports /\ g_mixed \subseteq g_mixed'
  BY <1>4, <1>5, <1>7
<1>9. Continues(k, m)
  BY <1>4, <1>6 DEF Continues
<1>10. g_stops' \in 0..MaxErrors
  BY <1>4, <1>5, CatalogAssumption
<1>11. g_astray' \in BOOLEAN
  BY <1>4, <1>5
<1>12. g_astray' \/ (~g_astray /\ Goes(k, m))
  BY <1>4, <1>5 DEF Goes, Applies, Switches
<1> QED
  BY <1>2, <1>4, <1>5, <1>6, <1>8, <1>9, <1>10, <1>11, <1>12, Quiet DEF CatalogInv

\* An activation that nobody disturbed leaves its version the active one, its links in
\* effect and no others.
LEMMA ActivatedKeeps ==
  ASSUME CatalogInv, NEW c \in Calls, G!Activated(c)
  PROVE  CatalogInv'
<1>1. CatalogTypes /\ HandlersFit /\ ImportsFit
  BY DEF CatalogInv
<1>2. PICK k : k = g_call[c]
  OBVIOUS
<1>3. PICK m : m = G!Idle
  OBVIOUS
<1>4. /\ k.op = "activate" /\ k.pc = "links" /\ k.todo = {} /\ Moves(c, m)
      /\ g_astray' = (g_astray /\ ~(k.seen = g_version /\ k.had = g_link))
      /\ UNCHANGED <<g_import, g_version, g_link, g_served, g_stops, g_mixed, g_touched, g_back>>
  BY <1>2, <1>3 DEF G!Activated, G!At, G!Goto, G!rows, Moves
<1>5. /\ k \in CatalogCall /\ HandlerFits(k)
      /\ g_astray \in BOOLEAN /\ g_mixed \in SUBSET Imports /\ g_served \in 0..MaxServed
      /\ g_stops \in 0..MaxErrors
  BY <1>1, <1>2, TablesAre DEF HandlersFit, CatalogTypes, G!TypeOK
<1>6. m \in CatalogCall /\ HandlerFits(m) /\ m.op = "none" /\ m.of = None
  BY <1>3, IdleHandler
<1>7. Continues(k, m)
  BY <1>4, <1>6 DEF Continues
<1>8. g_astray' \in BOOLEAN
  BY <1>4, <1>5
<1>9. CatalogTypes' /\ HandlersFit' /\ ImportsFit'
  BY <1>2, <1>4, <1>5, <1>6, <1>7, <1>8, Quiet
<1>10. OneActive' /\ OrphansOff' /\ LinksInEffect'
  <2>1. CASE g_astray' = g_astray
    <3>1. g_astray' \/ (~g_astray /\ Goes(k, m))
      BY <1>4, <1>5, <2>1 DEF Goes, Applies, Switches
    <3> QED
      BY <1>2, <1>4, <1>5, <1>6, <1>8, <3>1, Quiet
  <2>2. CASE k.seen = g_version /\ k.had = g_link
    <3>1. PICK v : v = k.version
      OBVIOUS
    <3>2. /\ v \in DOMAIN g_version /\ v \in g_back
          /\ \A n \in DOMAIN g_version : g_version[n].active <=> n = v
          /\ \A n \in DOMAIN g_link : g_link[n].active <=> n \in g_version[v].snap
      BY <1>4, <1>5, <2>2, <3>1 DEF HandlerFits, ActivateFits
    <3>3. G!Actives(g_version) = {v}
      BY <3>2 DEF G!Actives
    <3>4. OneActive'
      BY <1>4, <3>2, <3>3 DEF OneActive, G!Actives
    <3>5. OrphansOff'
      BY <1>4, <3>2 DEF OrphansOff, Orphan
    <3>6. LinksInEffect'
      <4>1. SUFFICES ASSUME NEW w \in G!Actives(g_version'), NEW n \in DOMAIN g_link'
                     PROVE  InEffect(w, n)'
        BY DEF LinksInEffect
      <4>2. w = v /\ n \in DOMAIN g_link
        BY <1>4, <3>3, <4>1
      <4> QED
        BY <1>4, <3>2, <4>2 DEF InEffect
    <3> QED
      BY <3>4, <3>5, <3>6
  <2> QED
    BY <1>4, <1>5, <2>1, <2>2
<1> QED
  BY <1>9, <1>10 DEF CatalogInv

-----------------------------------------------------------------------------
\* The steps that write the row of an import.
LEMMA PreviewImportKeeps ==
  ASSUME CatalogInv, NEW i \in Imports, NEW ps \in SUBSET Articles, G!PreviewImport(i, ps)
  PROVE  CatalogInv'
<1>1. /\ CatalogTypes /\ HandlersFit /\ ImportsFit /\ OneActive /\ OrphansOff /\ LinksInEffect
  BY DEF CatalogInv
<1>2. PICK r : r = [G!Blank EXCEPT !.status = "staging", !.lines = ps]
  OBVIOUS
<1>3. /\ g_import[i].status = "none" /\ g_import' = [g_import EXCEPT ![i] = r]
      /\ UNCHANGED <<g_version, g_link, g_call, g_served, g_stops, g_astray, g_mixed, g_touched, g_back>>
  BY <1>2 DEF G!PreviewImport
<1>4. r \in G!Import /\ r.status = "staging"
  BY <1>2 DEF G!Blank, G!Import
<1>5. /\ g_import \in [Imports -> G!Import] /\ g_version \in Seq(G!Version) /\ g_link \in Seq(G!Link)
      /\ \A n \in DOMAIN g_version : g_version[n].snap \subseteq DOMAIN g_link
      /\ g_call \in [Calls -> CatalogCall] /\ g_served \in 0..MaxServed /\ g_stops \in 0..MaxErrors
      /\ g_astray \in BOOLEAN /\ g_mixed \in SUBSET Imports
      /\ g_touched \in SUBSET Nat /\ g_back \in SUBSET (DOMAIN g_version)
  BY <1>1, TablesAre DEF CatalogTypes, G!TypeOK
<1>6. CatalogTypes'
  <2>1. g_import' \in [Imports -> G!Import]
    BY <1>3, <1>4, <1>5
  <2> QED
    BY <1>3, <1>5, <2>1, TypesNext
<1>7. Grow
  BY <1>3 DEF Grow
<1>8. HandlersFit'
  <2>1. SUFFICES ASSUME NEW d \in Calls PROVE HandlerFits(g_call[d])'
    BY <1>3 DEF HandlersFit
  <2>2. PICK k \in CatalogCall : k = g_call[d]
    BY <1>5
  <2>3. HandlerFits(k)'
    BY <1>1, <1>7, <2>2, StillFits DEF HandlersFit
  <2> QED
    BY <1>3, <2>2, <2>3 DEF HandlerFits, KnowsVersions, KnowsLinks, CommitFits, ActivateFits,
                            EditFits, DecideFits
<1>9. OneActive' /\ OrphansOff' /\ LinksInEffect'
  <2>1. CASE g_astray
    BY <1>3, <2>1 DEF OneActive, OrphansOff, LinksInEffect, Steady
  <2>2. CASE ~g_astray
    <3>1. \A d \in Calls : Goes(g_call[d], g_call'[d])
      BY <1>3 DEF Goes
    <3> QED
      BY <1>1, <1>3, <2>2, <3>1, RowsStay
  <2> QED
    BY <2>1, <2>2
<1>10. ImportsFit'
  <2>1. SUFFICES ASSUME NEW j \in Imports PROVE ImportFits(j)'
    BY DEF ImportsFit
  <2>2. ImportFits(j) /\ VersionsOf(j)' = VersionsOf(j)
    BY <1>1, <1>3 DEF ImportsFit, VersionsOf
  <2>3. CASE j # i
    <3>1. g_import'[j] = g_import[j]
      BY <1>3, <1>5, <2>3
    <3> QED
      BY <1>3, <2>2, <3>1 DEF ImportFits, Unseen, OnceWritten
  <2>4. CASE j = i
    <3>1. g_import'[i].status = "staging" /\ Unseen(i)
      BY <1>3, <1>4, <1>5, <2>2, <2>4 DEF ImportFits
    <3>2. OnceWritten(i)'
      BY <1>3, <2>2, <2>4, <3>1 DEF OnceWritten, Unseen, Commits
    <3> QED
      BY <2>4, <3>1, <3>2 DEF ImportFits
  <2> QED
    BY <2>3, <2>4
<1> QED
  BY <1>6, <1>8, <1>9, <1>10 DEF CatalogInv

LEMMA FinalizeImportKeeps ==
  ASSUME CatalogInv, NEW c \in Calls, G!FinalizeImport(c)
  PROVE  CatalogInv'
<1>1. CatalogTypes /\ HandlersFit /\ ImportsFit
  BY DEF CatalogInv
<1>2. PICK k : k = g_call[c]
  OBVIOUS
<1>3. PICK m : m = G!Idle
  OBVIOUS
<1>4. PICK i : i = k.of
  OBVIOUS
<1>5. PICK r : r = [k.row EXCEPT !.status = "committed"]
  OBVIOUS
<1>6. /\ k.op = "commit" /\ k.pc = "finish" /\ Moves(c, m)
      /\ g_import' = [g_import EXCEPT ![i] = r]
      /\ g_mixed' = g_mixed \cup IF g_import[i] = k.row THEN {} ELSE {i}
      /\ UNCHANGED <<g_version, g_link, g_served, g_stops, g_astray, g_touched, g_back>>
  BY <1>2, <1>3, <1>4, <1>5 DEF G!FinalizeImport, G!At, G!Goto, Moves
<1>7. /\ k \in CatalogCall /\ HandlerFits(k) /\ k.row \in G!Import
      /\ g_import \in [Imports -> G!Import]
      /\ g_astray \in BOOLEAN /\ g_mixed \in SUBSET Imports /\ g_served \in 0..MaxServed
      /\ g_stops \in 0..MaxErrors
  BY <1>1, <1>2, TablesAre DEF HandlersFit, CatalogTypes, G!TypeOK, CatalogCall
<1>8. i \in Imports /\ VersionsOf(i) # {}
  BY <1>4, <1>6, <1>7 DEF HandlerFits, CommitFits
<1>9. m \in CatalogCall /\ HandlerFits(m) /\ m.op = "none" /\ m.of = None
  BY <1>3, IdleHandler
<1>10. r \in G!Import /\ r.status = "committed"
  BY <1>5, <1>7 DEF G!Import
<1>11. /\ g_import' \in [Imports -> G!Import] /\ g_import'[i] = r
       /\ \A j \in Imports \ {i} : g_import'[j] = g_import[j]
  BY <1>6, <1>7, <1>8, <1>10
<1>12. g_mixed' \in SUBSET Imports /\ g_mixed \subseteq g_mixed'
  BY <1>6, <1>7, <1>8
<1>13. g_astray' \/ (~g_astray /\ Goes(k, m))
  BY <1>6, <1>7 DEF Goes, Applies, Switches
<1>14. /\ CatalogTypes' /\ HandlersFit' /\ OneActive' /\ OrphansOff' /\ LinksInEffect'
       /\ \A j \in Imports : VersionsOf(j)' = VersionsOf(j)
       /\ g_call'[c] = m /\ \A d \in Calls \ {c} : g_call'[d] = g_call[d]
  BY <1>2, <1>6, <1>7, <1>9, <1>11, <1>12, <1>13, CatalogStays
<1>15. ImportsFit'
  <2>1. SUFFICES ASSUME NEW j \in Imports PROVE ImportFits(j)'
    BY DEF ImportsFit
  <2>2. ImportFits(j) /\ VersionsOf(j)' = VersionsOf(j) /\ j # None
    BY <1>1, <1>14, CatalogAssumption DEF ImportsFit
  <2>3. \A d \in Calls : Commits(g_call'[d], j) => Commits(g_call[d], j) /\ g_call'[d] = g_call[d]
    BY <1>9, <1>14 DEF Commits
  <2>4. CASE j # i
    <3>1. g_import'[j] = g_import[j]
      BY <1>11, <2>4
    <3>2. g_import'[j].status = "none" => Unseen(j)'
      BY <1>9, <1>14, <2>2, <3>1 DEF ImportFits, Unseen
    <3>3. ASSUME j \notin g_mixed' PROVE OnceWritten(j)'
      <4>1. OnceWritten(j)
        BY <1>12, <2>2, <3>3 DEF ImportFits
      <4>2. \A d \in Calls : Commits(g_call[d], j) => g_call'[d] = g_call[d]
        BY <1>2, <1>4, <1>14, <2>4 DEF Commits
      <4> QED
        BY <2>2, <2>3, <3>1, <4>1, <4>2 DEF OnceWritten, Commits
    <3> QED
      BY <2>2, <3>1, <3>2, <3>3 DEF ImportFits
  <2>5. CASE j = i
    <3>1. ASSUME i \notin g_mixed' PROVE OnceWritten(i)'
      <4>1. OnceWritten(i)
        BY <1>12, <2>2, <2>5, <3>1 DEF ImportFits
      <4>2. Commits(g_call[c], i)
        BY <1>2, <1>4, <1>6 DEF Commits
      <4>3. \A d \in Calls : ~Commits(g_call'[d], i)
        BY <1>9, <1>14, <2>3, <2>5, <4>1, <4>2 DEF OnceWritten, Commits
      <4> QED
        BY <1>10, <1>11, <2>2, <2>5, <4>1, <4>3 DEF OnceWritten, Commits
    <3> QED
      BY <1>8, <1>10, <1>11, <2>2, <2>5, <3>1 DEF ImportFits
  <2> QED
    BY <2>4, <2>5
<1> QED
  BY <1>14, <1>15 DEF CatalogInv

Puts(i, r) == g_import' = [g_import EXCEPT ![i] = r]

\* A handler that is no commit writes the row of an import as it read it, or mixes it up.
LEMMA RowKept ==
  ASSUME CatalogInv, NEW c \in Calls, NEW m \in CatalogCall, Moves(c, m), HandlerFits(m),
         NEW i \in Imports, NEW r \in G!Import, Puts(i, r),
         g_call[c].op # "commit", ~Switches(g_call[c]), g_call[c].op # "activate",
         m.op # "commit", m.of \in {i, None}, r.status # "none",
         r.status = "committed" => VersionsOf(i) # {},
         g_mixed' \in SUBSET Imports, g_mixed \subseteq g_mixed',
         i \notin g_mixed' => g_import[i].status = r.status,
         UNCHANGED <<g_version, g_link, g_served, g_stops, g_astray, g_touched, g_back>>
  PROVE  CatalogInv'
<1>1. CatalogTypes /\ HandlersFit /\ ImportsFit
  BY DEF CatalogInv
<1>2. /\ g_import \in [Imports -> G!Import]
      /\ g_astray \in BOOLEAN /\ g_served \in 0..MaxServed /\ g_stops \in 0..MaxErrors
  BY <1>1, TablesAre DEF CatalogTypes, G!TypeOK
<1>3. /\ g_import' \in [Imports -> G!Import] /\ g_import'[i] = r
      /\ \A j \in Imports \ {i} : g_import'[j] = g_import[j]
  BY <1>2 DEF Puts
<1>4. g_astray' \/ (~g_astray /\ Goes(g_call[c], m))
  BY <1>2 DEF Goes, Applies
<1>5. /\ CatalogTypes' /\ HandlersFit' /\ OneActive' /\ OrphansOff' /\ LinksInEffect'
      /\ \A j \in Imports : VersionsOf(j)' = VersionsOf(j)
      /\ g_call'[c] = m /\ \A d \in Calls \ {c} : g_call'[d] = g_call[d]
  BY <1>2, <1>3, <1>4, CatalogStays
<1>6. ASSUME NEW j \in Imports PROVE ImportFits(j)'
  <2>1. ImportFits(j) /\ VersionsOf(j)' = VersionsOf(j) /\ j # None
    BY <1>1, <1>5, CatalogAssumption DEF ImportsFit
  <2>2. \A d \in Calls : Commits(g_call'[d], j) <=> Commits(g_call[d], j)
    BY <1>5 DEF Commits
  <2>3. \A d \in Calls : Commits(g_call[d], j) => g_call'[d] = g_call[d]
    BY <1>5 DEF Commits
  <2>4. ASSUME j \notin g_mixed', OnceWritten(j), g_import'[j].status = g_import[j].status
        PROVE  OnceWritten(j)'
    BY <2>1, <2>2, <2>3, <2>4 DEF OnceWritten, Commits
  <2>5. CASE j # i
    <3>1. g_import'[j] = g_import[j]
      BY <1>3, <2>5
    <3>2. g_import'[j].status = "none" => Unseen(j)'
      BY <1>5, <2>1, <2>5, <3>1 DEF ImportFits, Unseen
    <3> QED
      BY <2>1, <2>4, <3>1, <3>2 DEF ImportFits
  <2>6. CASE j = i
    BY <1>3, <2>1, <2>4, <2>6 DEF ImportFits
  <2> QED
    BY <2>5, <2>6
<1>7. ImportsFit'
  BY <1>6 DEF ImportsFit
<1> QED
  BY <1>5, <1>7 DEF CatalogInv

LEMMA PutRowKeeps ==
  ASSUME CatalogInv, NEW c \in Calls, G!PutRow(c)
  PROVE  CatalogInv'
<1>1. CatalogTypes /\ HandlersFit
  BY DEF CatalogInv
<1>2. PICK k : k = g_call[c]
  OBVIOUS
<1>3. PICK m : m = G!Idle
  OBVIOUS
<1>4. PICK r : r = [k.row EXCEPT !.lines = k.todo]
  OBVIOUS
<1>5. /\ k.op = "edit" /\ k.pc = "put" /\ Moves(c, m)
      /\ Puts(k.of, r)
      /\ g_mixed' = g_mixed \cup IF g_import[k.of] = k.row THEN {} ELSE {k.of}
      /\ UNCHANGED <<g_version, g_link, g_served, g_stops, g_astray, g_touched, g_back>>
  BY <1>2, <1>3, <1>4 DEF G!PutRow, Puts, G!At, G!Goto, Moves
<1>6. /\ k.row \in G!Import /\ g_mixed \in SUBSET Imports
      /\ k.of \in Imports /\ k.row.status = "staging" /\ k.todo \subseteq Articles
  BY <1>1, <1>2, <1>5, TablesAre DEF HandlersFit, HandlerFits, EditFits, CatalogCall
<1>7. m \in CatalogCall /\ HandlerFits(m) /\ m.op = "none" /\ m.of = None
  BY <1>3, IdleHandler
<1>8. r \in G!Import /\ r.status = "staging"
  BY <1>4, <1>6 DEF G!Import
<1>9. /\ g_mixed' \in SUBSET Imports /\ g_mixed \subseteq g_mixed'
      /\ k.of \notin g_mixed' => g_import[k.of].status = r.status
  BY <1>5, <1>6, <1>8
<1> QED
  BY <1>2, <1>5, <1>6, <1>7, <1>8, <1>9, RowKept DEF Switches

LEMMA PutDecisionKeeps ==
  ASSUME CatalogInv, NEW c \in Calls, G!PutDecision(c)
  PROVE  CatalogInv'
<1>1. CatalogTypes /\ HandlersFit
  BY DEF CatalogInv
<1>2. PICK k : k = g_call[c]
  OBVIOUS
<1>3. PICK m : m = [G!Idle EXCEPT !.op = "decide", !.pc = "versions", !.of = k.of]
  OBVIOUS
<1>4. /\ k.op = "decide" /\ k.pc = "put" /\ Moves(c, m)
      /\ Puts(k.of, k.row)
      /\ g_mixed' = g_mixed \cup IF [g_import[k.of] EXCEPT !.queue = k.row.queue] = k.row THEN {}
                                 ELSE {k.of}
      /\ UNCHANGED <<g_version, g_link, g_served, g_stops, g_astray, g_touched, g_back>>
  BY <1>2, <1>3 DEF G!PutDecision, Puts, G!At, G!Goto, Moves
<1>5. /\ k.row \in G!Import /\ g_import \in [Imports -> G!Import] /\ g_mixed \in SUBSET Imports
      /\ k.of \in Imports /\ k.row.status # "none"
      /\ k.row.status = "committed" => VersionsOf(k.of) # {}
  BY <1>1, <1>2, <1>4, TablesAre DEF HandlersFit, HandlerFits, DecideFits, CatalogCall
<1>6. /\ m.op = "decide" /\ m.pc = "versions" /\ m.of = k.of /\ m.seen = <<>> /\ m.had = <<>>
      /\ m.todo = {} /\ m.snap = {} /\ m.row = G!Blank
  BY <1>3 DEF G!Idle
<1>7. m \in CatalogCall
  BY <1>3, <1>5, IdleHandler DEF CatalogCall, Pcs
<1>8. HandlerFits(m)
  BY <1>5, <1>6 DEF HandlerFits, KnowsVersions, KnowsLinks, CommitFits, ActivateFits, EditFits,
                    DecideFits
<1>9. g_mixed' \in SUBSET Imports /\ g_mixed \subseteq g_mixed'
  BY <1>4, <1>5
<1>10. k.of \notin g_mixed' => g_import[k.of].status = k.row.status
  <2>1. g_import[k.of] \in G!Import
    BY <1>5
  <2>2. [g_import[k.of] EXCEPT !.queue = k.row.queue].status = g_import[k.of].status
    BY <2>1 DEF G!Import
  <2>3. k.of \notin g_mixed' => [g_import[k.of] EXCEPT !.queue = k.row.queue] = k.row
    BY <1>4
  <2> QED
    BY <2>2, <2>3
<1>11. PICK i, r : i = k.of /\ r = k.row
  OBVIOUS
<1>12. /\ i \in Imports /\ r \in G!Import /\ r.status # "none"
       /\ Puts(i, r)
       /\ r.status = "committed" => VersionsOf(i) # {}
       /\ i \notin g_mixed' => g_import[i].status = r.status
  BY <1>4, <1>5, <1>10, <1>11
<1>13. /\ g_call[c].op # "commit" /\ ~Switches(g_call[c]) /\ g_call[c].op # "activate"
       /\ m.op # "commit" /\ m.of \in {i, None}
  BY <1>2, <1>4, <1>6, <1>11 DEF Switches
<1>14. Moves(c, m) /\ UNCHANGED <<g_version, g_link, g_served, g_stops, g_astray, g_touched, g_back>>
  BY <1>4
<1> QED
  BY <1>7, <1>8, <1>9, <1>12, <1>13, <1>14, RowKept

-----------------------------------------------------------------------------
\* The steps that write links.

\* A link for a product is one that has been read, or a new one at the end.
LEMMA LinkForIs ==
  ASSUME CatalogTypes, NEW k \in CatalogCall, KnowsLinks(k), NEW p \in Articles, NEW n,
         n \in G!LinkFor(k, p)
  PROVE  /\ n \in 1..Len(g_link) + 1
         /\ n \in DOMAIN g_link => n \in DOMAIN k.had /\ g_link[n].product = p /\ k.had[n].product = p
<1>1. g_link \in Seq(G!Link)
  BY TablesAre
<1>2. DOMAIN g_link = 1..Len(g_link) /\ Len(g_link) \in Nat
  BY <1>1
<1>3. CASE n \in G!LinksOf(k.had, p)
  <2>1. n \in DOMAIN k.had /\ k.had[n].product = p
    BY <1>3 DEF G!LinksOf
  <2>2. n \in DOMAIN g_link /\ g_link[n].product = p
    BY <2>1 DEF KnowsLinks
  <2> QED
    BY <1>2, <2>1, <2>2
<1>4. CASE n = Len(g_link) + 1
  BY <1>2, <1>4
<1> QED
  BY <1>3, <1>4 DEF G!LinkFor

\* A function on the first positions is a sequence.
LEMMA SequenceOf ==
  ASSUME NEW S, NEW l \in Nat, NEW f \in [1..l -> S]
  PROVE  f \in Seq(S)
OBVIOUS

\* Replacing an element of a sequence, or adding one at its end.
LEMMA PutIs ==
  \A s, n, x : /\ n > Len(s) => G!Put(s, n, x) = Append(s, x)
               /\ ~(n > Len(s)) => G!Put(s, n, x) = [s EXCEPT ![n] = x]
BY DEF G!Put

\* A link that is written keeps its product.
LEMMA LinkPut ==
  ASSUME CatalogTypes, NEW n \in 1..Len(g_link) + 1, NEW x \in G!Link,
         n \in DOMAIN g_link => g_link[n].product = x.product,
         g_link' = G!Put(g_link, n, x), g_version' = g_version, g_back' = g_back
  PROVE  /\ Grow /\ g_link' \in Seq(G!Link) /\ n \in Nat
         /\ DOMAIN g_link' = DOMAIN g_link \cup {n} /\ g_link'[n] = x
         /\ \A s \in DOMAIN g_link \ {n} : g_link'[s] = g_link[s]
         /\ \A v \in DOMAIN g_version : g_version[v].snap \subseteq DOMAIN g_link'
<1>1. g_link \in Seq(G!Link) /\ \A v \in DOMAIN g_version : g_version[v].snap \subseteq DOMAIN g_link
  BY TablesAre
<1>2. /\ g_link' \in Seq(G!Link) /\ DOMAIN g_link' = DOMAIN g_link \cup {n} /\ g_link'[n] = x
      /\ \A s \in DOMAIN g_link \ {n} : g_link'[s] = g_link[s]
  <2>1. DOMAIN g_link = 1..Len(g_link) /\ Len(g_link) \in Nat
    BY <1>1
  <2>2. CASE n = Len(g_link) + 1
    <3>1. n > Len(g_link)
      BY <2>1, <2>2
    <3>4. G!Put(g_link, n, x) = Append(g_link, x)
      BY <3>1, PutIs
    <3>2. /\ Append(g_link, x) \in Seq(G!Link)
          /\ DOMAIN Append(g_link, x) = 1..Len(g_link) + 1
          /\ Append(g_link, x)[Len(g_link) + 1] = x
          /\ \A s \in 1..Len(g_link) : Append(g_link, x)[s] = g_link[s]
      BY <1>1
    <3>3. 1..Len(g_link) + 1 = DOMAIN g_link \cup {n}
      BY <2>1, <2>2
    <3> QED
      BY <2>1, <2>2, <3>2, <3>3, <3>4
  <2>3. CASE n \in 1..Len(g_link)
    <3>1. ~(n > Len(g_link))
      BY <2>1, <2>3
    <3>2. G!Put(g_link, n, x) = [g_link EXCEPT ![n] = x]
      BY <3>1, PutIs
    <3> QED
      BY <1>1, <2>1, <2>3, <3>2
  <2> QED
    BY <2>1, <2>2, <2>3
<1>3. n \in Nat
  BY <1>1
<1>4. Grow
  BY <1>2 DEF Grow
<1> QED
  BY <1>1, <1>2, <1>3, <1>4

LEMMA ApplyLineKeeps ==
  ASSUME CatalogInv, NEW c \in Calls, NEW p \in Articles, NEW n, G!ApplyLine(c, p, n)
  PROVE  CatalogInv'
<1>1. CatalogTypes /\ HandlersFit /\ ImportsFit /\ OrphansOff
  BY DEF CatalogInv
<1>2. PICK k : k = g_call[c]
  OBVIOUS
<1>3. PICK x : x = G!LinkBy(k.of, p)
  OBVIOUS
<1>4. PICK had : had = [s \in DOMAIN G!Put(g_link, n, x) |->
                          IF s = n THEN x ELSE IF s \in DOMAIN k.had THEN k.had[s] ELSE g_link[s]]
  OBVIOUS
<1>5. PICK m : m = [k EXCEPT !.todo = k.todo \ {p}, !.snap = k.snap \cup {n}, !.had = had]
  OBVIOUS
<1>6. PICK D : D = G!Disturbed(k, p)
  OBVIOUS
<1>7. /\ k.op = "commit" /\ k.pc = "apply" /\ p \in k.todo /\ n \in G!LinkFor(k, p)
      /\ g_link' = G!Put(g_link, n, x) /\ Moves(c, m)
      /\ g_touched' = (g_touched \ {n}) \cup D \cup IF D = {} THEN {} ELSE {n}
      /\ UNCHANGED <<g_import, g_version, g_served, g_stops, g_astray, g_mixed, g_back>>
  BY <1>2, <1>3, <1>4, <1>5, <1>6 DEF G!ApplyLine, G!At, G!Goto, Moves
<1>8. /\ k \in CatalogCall /\ HandlerFits(k) /\ g_link \in Seq(G!Link) /\ DOMAIN g_link \in SUBSET Nat
      /\ g_import \in [Imports -> G!Import] /\ g_version \in Seq(G!Version)
      /\ g_astray \in BOOLEAN /\ g_mixed \in SUBSET Imports /\ g_served \in 0..MaxServed
      /\ g_stops \in 0..MaxErrors /\ g_touched \in SUBSET Nat
      /\ g_back \in SUBSET (DOMAIN g_version) /\ g_call \in [Calls -> CatalogCall]
  BY <1>1, <1>2, TablesAre DEF HandlersFit, CatalogTypes, G!TypeOK
<1>9. /\ k.of \in Imports /\ k.row.status = "staging" /\ k.todo \subseteq Articles
      /\ \A s \in k.snap : s \in DOMAIN k.had /\ k.had[s] = G!LinkBy(k.of, k.had[s].product)
                           /\ k.had[s].product \notin k.todo
      /\ KnowsLinks(k) /\ KnowsVersions(k)
  BY <1>7, <1>8 DEF HandlerFits, CommitFits
<1>10. /\ n \in 1..Len(g_link) + 1
       /\ n \in DOMAIN g_link => n \in DOMAIN k.had /\ g_link[n].product = p /\ k.had[n].product = p
  BY <1>1, <1>7, <1>8, <1>9, LinkForIs
<1>11. x \in G!Link /\ x.product = p /\ x = G!LinkBy(k.of, x.product)
  BY <1>3, <1>9 DEF G!Link, G!LinkBy
<1>12. /\ Grow /\ g_link' \in Seq(G!Link) /\ n \in Nat
       /\ DOMAIN g_link' = DOMAIN g_link \cup {n} /\ g_link'[n] = x
       /\ \A s \in DOMAIN g_link \ {n} : g_link'[s] = g_link[s]
       /\ \A v \in DOMAIN g_version : g_version[v].snap \subseteq DOMAIN g_link'
  BY <1>1, <1>7, <1>10, <1>11, LinkPut
<1>13. /\ DOMAIN had = DOMAIN g_link' /\ had[n] = x
       /\ \A s \in DOMAIN k.had \ {n} : had[s] = k.had[s]
       /\ \A s \in DOMAIN g_link \ (DOMAIN k.had \cup {n}) : had[s] = g_link[s]
  BY <1>4, <1>7, <1>9, <1>12 DEF KnowsLinks
<1>14. had \in Seq(G!Link)
  <2>1. \A s \in DOMAIN g_link : g_link[s] \in G!Link
    BY <1>1, TablesAre
  <2>2. \A s \in DOMAIN k.had : k.had[s] \in G!Link
    <3>1. k.had \in Seq(G!Link)
      BY <1>8 DEF CatalogCall
    <3> QED
      BY <3>1
  <2>3. \A s \in DOMAIN g_link' : had[s] \in G!Link
    BY <1>11, <1>12, <1>13, <2>1, <2>2
  <2>4. DOMAIN g_link' = 1..Len(g_link') /\ Len(g_link') \in Nat
    BY <1>12
  <2>5. had \in [1..Len(g_link') -> G!Link]
    BY <1>4, <1>7, <1>13, <2>3, <2>4
  <2> QED
    BY <2>4, <2>5, SequenceOf
<1>15. /\ m.op = "commit" /\ m.pc = "apply" /\ m.of = k.of /\ m.row = k.row /\ m.seen = k.seen
       /\ m.todo = k.todo \ {p} /\ m.snap = k.snap \cup {n} /\ m.had = had
  BY <1>5, <1>7, <1>8 DEF CatalogCall
<1>16. m \in CatalogCall
  <2>1. k.todo \ {p} \in SUBSET (Articles \cup Nat) /\ k.snap \cup {n} \in SUBSET Nat
    BY <1>8, <1>12 DEF CatalogCall
  <2> QED
    BY <1>5, <1>8, <1>14, <2>1 DEF CatalogCall
<1>17. HandlerFits(m)'
  <2>1. KnowsVersions(m)'
    BY <1>7, <1>9, <1>15 DEF KnowsVersions
  <2>2. KnowsLinks(m)'
    <3>1. \A s \in DOMAIN had : had[s].product = g_link'[s].product
      BY <1>9, <1>11, <1>12, <1>13 DEF KnowsLinks
    <3> QED
      BY <1>13, <1>15, <3>1 DEF KnowsLinks
  <2>3. CommitFits(m)'
    <3>1. ASSUME NEW s \in k.snap \cup {n}
          PROVE  s \in DOMAIN had /\ had[s] = G!LinkBy(k.of, had[s].product)
                 /\ had[s].product \notin k.todo \ {p}
      <4>1. CASE s = n
        BY <1>11, <1>12, <1>13, <4>1
      <4>2. CASE s # n
        BY <1>9, <1>12, <1>13, <4>2 DEF KnowsLinks
      <4> QED
        BY <4>1, <4>2
    <3> QED
      BY <1>9, <1>15, <3>1 DEF CommitFits
  <2> QED
    BY <1>15, <2>1, <2>2, <2>3 DEF HandlerFits, ActivateFits, EditFits, DecideFits
<1>18. HandlersFit' /\ g_call' \in [Calls -> CatalogCall]
  BY <1>1, <1>7, <1>12, <1>16, <1>17, HandlersKept
<1>19. g_call'[c] = m /\ \A d \in Calls \ {c} : g_call'[d] = g_call[d]
  BY <1>7, <1>8, MovesAre
<1>20. CatalogTypes'
  <2>1. G!LinksOf(g_link, p) \subseteq Nat /\ G!LinksOf(k.had, p) \subseteq Nat
    BY <1>8, <1>9 DEF G!LinksOf, KnowsLinks
  <2>2. D \subseteq Nat
    BY <1>6, <2>1 DEF G!Disturbed
  <2>3. g_touched' \in SUBSET Nat
    BY <1>7, <1>8, <1>12, <2>2
  <2> QED
    BY <1>7, <1>8, <1>12, <1>18, <2>3, TypesNext
<1>21. ImportsFit'
  <2>1. \A d \in Calls : Continues(g_call[d], g_call'[d])
    BY <1>2, <1>7, <1>15, <1>19 DEF Continues
  <2>2. \A i \in Imports : VersionsOf(i)' = VersionsOf(i)
    BY <1>7 DEF VersionsOf
  <2> QED
    BY <1>1, <1>7, <2>1, <2>2, ImportsKept
<1>22. ~Steady'
  BY <1>15, <1>19 DEF Steady, Applies
<1>23. OrphansOff'
  <2>1. SUFFICES ASSUME ~g_astray, NEW s \in DOMAIN g_link' \ g_touched', Orphan(s)', g_link'[s].active
                 PROVE  \E d \in Calls : Applies(g_call'[d]) /\ s \in g_call'[d].snap
    BY <1>7 DEF OrphansOff, Applies
  <2>2. CASE s = n
    BY <1>15, <1>19, <2>2 DEF Applies
  <2>3. CASE s # n
    <3>1. s \in DOMAIN g_link \ g_touched /\ g_link[s].active /\ Orphan(s)
      BY <1>7, <1>12, <2>1, <2>3 DEF Orphan
    <3>2. PICK d \in Calls : Applies(g_call[d]) /\ s \in g_call[d].snap
      BY <1>1, <2>1, <3>1 DEF OrphansOff
    <3> QED
      BY <1>2, <1>15, <1>19, <3>2 DEF Applies
  <2> QED
    BY <2>2, <2>3
<1> QED
  BY <1>18, <1>20, <1>21, <1>22, <1>23 DEF CatalogInv, OneActive, LinksInEffect

LEMMA MatchLinkKeeps ==
  ASSUME CatalogInv, NEW c \in Calls, NEW p \in Articles, NEW n, G!MatchLink(c, p, n)
  PROVE  CatalogInv'
<1>1. /\ CatalogTypes /\ HandlersFit /\ ImportsFit /\ OneActive /\ OrphansOff /\ LinksInEffect
  BY DEF CatalogInv
<1>2. PICK k : k = g_call[c]
  OBVIOUS
<1>3. PICK x : x = G!LinkBy(k.of, p)
  OBVIOUS
<1>4. PICK m : m = [k EXCEPT !.pc = "put", !.had = <<>>]
  OBVIOUS
<1>5. /\ k.op = "decide" /\ k.pc = "link" /\ n \in G!LinkFor(k, p)
      /\ g_link' = G!Put(g_link, n, x) /\ Moves(c, m)
      /\ g_touched' = g_touched \cup {n} \cup G!LinksOf(g_link, p)
      /\ UNCHANGED <<g_import, g_version, g_served, g_stops, g_astray, g_mixed, g_back>>
  BY <1>2, <1>3, <1>4 DEF G!MatchLink, G!At, G!Goto, Moves
<1>6. /\ k \in CatalogCall /\ HandlerFits(k) /\ DOMAIN g_link \in SUBSET Nat
      /\ g_import \in [Imports -> G!Import] /\ g_version \in Seq(G!Version)
      /\ g_astray \in BOOLEAN /\ g_mixed \in SUBSET Imports /\ g_served \in 0..MaxServed
      /\ g_stops \in 0..MaxErrors /\ g_touched \in SUBSET Nat
      /\ g_back \in SUBSET (DOMAIN g_version) /\ g_call \in [Calls -> CatalogCall]
  BY <1>1, <1>2, TablesAre DEF HandlersFit, CatalogTypes, G!TypeOK
<1>7. k.of \in Imports /\ KnowsLinks(k) /\ KnowsVersions(k) /\ DecideFits(k)
  BY <1>5, <1>6 DEF HandlerFits, DecideFits
<1>8. /\ n \in 1..Len(g_link) + 1
      /\ n \in DOMAIN g_link => g_link[n].product = p
  BY <1>1, <1>5, <1>6, <1>7, LinkForIs
<1>9. x \in G!Link /\ x.product = p
  BY <1>3, <1>7 DEF G!Link, G!LinkBy
<1>10. /\ Grow /\ g_link' \in Seq(G!Link) /\ n \in Nat
       /\ DOMAIN g_link' = DOMAIN g_link \cup {n} /\ g_link'[n] = x
       /\ \A s \in DOMAIN g_link \ {n} : g_link'[s] = g_link[s]
       /\ \A v \in DOMAIN g_version : g_version[v].snap \subseteq DOMAIN g_link'
  BY <1>1, <1>5, <1>8, <1>9, LinkPut
<1>11. /\ m.op = "decide" /\ m.pc = "put" /\ m.of = k.of /\ m.row = k.row /\ m.seen = k.seen
       /\ m.had = <<>>
  BY <1>4, <1>5, <1>6 DEF CatalogCall
<1>12. m \in CatalogCall
  <2>1. <<>> \in Seq(G!Link)
    OBVIOUS
  <2> QED
    BY <1>4, <1>6, <2>1 DEF CatalogCall, Pcs
<1>13. HandlerFits(m)'
  <2>1. KnowsVersions(m)' /\ KnowsLinks(m)'
    BY <1>5, <1>7, <1>11 DEF KnowsVersions, KnowsLinks
  <2>2. DecideFits(m)'
    BY <1>5, <1>7, <1>11 DEF DecideFits, VersionsOf
  <2> QED
    BY <1>11, <2>1, <2>2 DEF HandlerFits, CommitFits, ActivateFits, EditFits
<1>14. HandlersFit' /\ g_call' \in [Calls -> CatalogCall]
  BY <1>1, <1>5, <1>10, <1>12, <1>13, HandlersKept
<1>15. g_call'[c] = m /\ \A d \in Calls \ {c} : g_call'[d] = g_call[d]
  BY <1>5, <1>6, MovesAre
<1>16. CatalogTypes'
  <2>1. G!LinksOf(g_link, p) \subseteq Nat
    BY <1>6 DEF G!LinksOf
  <2>2. g_touched' \in SUBSET Nat
    BY <1>5, <1>6, <1>10, <2>1
  <2> QED
    BY <1>5, <1>6, <1>10, <1>14, <2>2, TypesNext
<1>17. ImportsFit'
  <2>1. \A d \in Calls : Continues(g_call[d], g_call'[d])
    BY <1>2, <1>5, <1>11, <1>15 DEF Continues
  <2>2. \A i \in Imports : VersionsOf(i)' = VersionsOf(i)
    BY <1>5 DEF VersionsOf
  <2> QED
    BY <1>1, <1>5, <2>1, <2>2, ImportsKept
<1>18. OneActive' /\ OrphansOff' /\ LinksInEffect'
  <2>1. \A s \in DOMAIN g_link' \ g_touched' : s \in DOMAIN g_link \ g_touched /\ g_link'[s] = g_link[s]
    BY <1>5, <1>10
  <2>2. \A d \in Calls : Goes(g_call[d], g_call'[d])
    BY <1>2, <1>5, <1>15 DEF Goes, Applies, Switches
  <2>3. g_astray' \/ (~g_astray /\ \A d \in Calls : Goes(g_call[d], g_call'[d]))
    BY <1>5, <1>6, <2>2, Zenon
  <2> QED
    BY <1>1, <1>5, <2>1, <2>3, RowsStay
<1> QED
  BY <1>14, <1>16, <1>17, <1>18 DEF CatalogInv

LEMMA EditLinkKeeps ==
  ASSUME CatalogInv, NEW n \in DOMAIN g_link, NEW a \in BOOLEAN, G!EditLink(n, a)
  PROVE  CatalogInv'
<1>1. /\ CatalogTypes /\ HandlersFit /\ ImportsFit /\ OneActive /\ OrphansOff /\ LinksInEffect
  BY DEF CatalogInv
<1>2. /\ g_link' = [g_link EXCEPT ![n].of = None, ![n].active = a]
      /\ g_touched' = g_touched \cup {n}
      /\ g_served < MaxServed /\ g_served' = g_served + 1
      /\ UNCHANGED <<g_import, g_version, g_call, g_stops, g_astray, g_mixed, g_back>>
  BY DEF G!EditLink
<1>3. /\ DOMAIN g_link \in SUBSET Nat /\ g_link \in Seq(G!Link) /\ g_link[n] \in G!Link
      /\ g_import \in [Imports -> G!Import] /\ g_version \in Seq(G!Version)
      /\ \A v \in DOMAIN g_version : g_version[v].snap \subseteq DOMAIN g_link
      /\ g_astray \in BOOLEAN /\ g_mixed \in SUBSET Imports /\ g_served \in Nat
      /\ g_stops \in 0..MaxErrors /\ g_touched \in SUBSET Nat
      /\ g_back \in SUBSET (DOMAIN g_version) /\ g_call \in [Calls -> CatalogCall]
  BY <1>1, TablesAre DEF CatalogTypes, G!TypeOK
<1>4. PICK x : x = [g_link[n] EXCEPT !.of = None, !.active = a]
  OBVIOUS
<1>5. x \in G!Link /\ x.product = g_link[n].product
  BY <1>3, <1>4 DEF G!Link
<1>6. g_link' = [g_link EXCEPT ![n] = x]
  BY <1>2, <1>3, <1>4
<1>7. /\ g_link' \in Seq(G!Link) /\ DOMAIN g_link' = DOMAIN g_link /\ g_link'[n] = x
      /\ \A s \in DOMAIN g_link \ {n} : g_link'[s] = g_link[s]
  BY <1>3, <1>5, <1>6
<1>8. Grow
  BY <1>2, <1>5, <1>7 DEF Grow
<1>9. HandlersFit'
  <2>1. SUFFICES ASSUME NEW d \in Calls PROVE HandlerFits(g_call[d])'
    BY <1>2 DEF HandlersFit
  <2>2. PICK k \in CatalogCall : k = g_call[d]
    BY <1>3
  <2>3. HandlerFits(k)'
    BY <1>1, <1>8, <2>2, StillFits DEF HandlersFit
  <2> QED
    BY <1>2, <2>2, <2>3 DEF HandlerFits, KnowsVersions, KnowsLinks, CommitFits, ActivateFits,
                            EditFits, DecideFits
<1>10. CatalogTypes'
  <2>1. g_served' \in 0..MaxServed
    BY <1>2, <1>3, CatalogAssumption
  <2>2. g_touched' \in SUBSET Nat
    BY <1>2, <1>3
  <2> QED
    BY <1>2, <1>3, <1>7, <2>1, <2>2, TypesNext
<1>11. ImportsFit'
  <2>1. \A d \in Calls : Continues(g_call[d], g_call'[d])
    BY <1>2 DEF Continues
  <2>2. \A i \in Imports : VersionsOf(i)' = VersionsOf(i)
    BY <1>2 DEF VersionsOf
  <2> QED
    BY <1>1, <1>2, <2>1, <2>2, ImportsKept
<1>12. OneActive' /\ OrphansOff' /\ LinksInEffect'
  <2>1. \A s \in DOMAIN g_link' \ g_touched' : s \in DOMAIN g_link \ g_touched /\ g_link'[s] = g_link[s]
    BY <1>2, <1>7
  <2>2. \A d \in Calls : Goes(g_call[d], g_call'[d])
    BY <1>2 DEF Goes
  <2>3. g_astray' \/ (~g_astray /\ \A d \in Calls : Goes(g_call[d], g_call'[d]))
    BY <1>2, <1>3, <2>2, Zenon
  <2> QED
    BY <1>1, <1>2, <2>1, <2>3, RowsStay
<1> QED
  BY <1>9, <1>10, <1>11, <1>12 DEF CatalogInv

LEMMA SwitchLinkKeeps ==
  ASSUME CatalogInv, NEW c \in Calls, NEW n \in DOMAIN g_link, G!SwitchLink(c, n)
  PROVE  CatalogInv'
<1>1. /\ CatalogTypes /\ HandlersFit /\ ImportsFit /\ OneActive /\ OrphansOff /\ LinksInEffect
  BY DEF CatalogInv
<1>2. PICK k : k = g_call[c]
  OBVIOUS
<1>3. PICK v : v = k.version
  OBVIOUS
<1>4. PICK x : x = [k.had[n] EXCEPT !.active = n \in g_version[v].snap]
  OBVIOUS
<1>5. PICK m : m = [k EXCEPT !.todo = k.todo \ {n}, !.had = [k.had EXCEPT ![n] = x]]
  OBVIOUS
<1>6. /\ k.op = "activate" /\ k.pc = "links" /\ n \in k.todo
      /\ g_link' = [g_link EXCEPT ![n] = x] /\ Moves(c, m)
      /\ g_touched' = g_touched \cup IF g_link[n] = k.had[n] /\ g_version = k.seen THEN {} ELSE {n}
      /\ UNCHANGED <<g_import, g_version, g_served, g_stops, g_astray, g_mixed, g_back>>
  BY <1>2, <1>3, <1>4, <1>5 DEF G!SwitchLink, G!Switched, G!At, G!Goto, Moves
<1>7. /\ k \in CatalogCall /\ HandlerFits(k) /\ DOMAIN g_link \in SUBSET Nat /\ g_link \in Seq(G!Link)
      /\ g_import \in [Imports -> G!Import] /\ g_version \in Seq(G!Version)
      /\ \A w \in DOMAIN g_version : g_version[w].snap \subseteq DOMAIN g_link
      /\ g_astray \in BOOLEAN /\ g_mixed \in SUBSET Imports /\ g_served \in 0..MaxServed
      /\ g_stops \in 0..MaxErrors /\ g_touched \in SUBSET Nat
      /\ g_back \in SUBSET (DOMAIN g_version) /\ g_call \in [Calls -> CatalogCall]
  BY <1>1, <1>2, TablesAre DEF HandlersFit, CatalogTypes, G!TypeOK
<1>8. /\ KnowsLinks(k) /\ KnowsVersions(k) /\ v \in DOMAIN k.seen
      /\ \A s \in DOMAIN k.seen : k.seen[s].snap \subseteq DOMAIN k.had
      /\ k.todo \subseteq DOMAIN k.had /\ v \in g_back
      /\ \A s \in DOMAIN k.seen : k.seen[s].active <=> s = v
      /\ \A s \in DOMAIN k.had \ k.todo : k.had[s].active <=> s \in k.seen[v].snap
  BY <1>3, <1>6, <1>7 DEF HandlerFits, ActivateFits
<1>9. v \in DOMAIN g_version /\ k.seen[v].snap = g_version[v].snap
  BY <1>8 DEF KnowsVersions
<1>10. k.had \in Seq(G!Link) /\ k.had[n] \in G!Link /\ n \in DOMAIN k.had
  <2>1. k.had \in Seq(G!Link) /\ n \in DOMAIN k.had
    BY <1>6, <1>7, <1>8 DEF CatalogCall
  <2> QED
    BY <2>1
<1>11. /\ x \in G!Link /\ x.product = k.had[n].product /\ x.of = k.had[n].of
       /\ x.active <=> n \in g_version[v].snap
  <2>1. PICK b \in BOOLEAN : b <=> n \in g_version[v].snap
    OBVIOUS
  <2>2. x = [k.had[n] EXCEPT !.active = b]
    BY <1>4, <2>1
  <2> QED
    BY <1>10, <2>1, <2>2 DEF G!Link
<1>12. k.had[n].product = g_link[n].product
  BY <1>8, <1>10 DEF KnowsLinks
<1>13. /\ g_link' \in Seq(G!Link) /\ DOMAIN g_link' = DOMAIN g_link /\ g_link'[n] = x
       /\ \A s \in DOMAIN g_link \ {n} : g_link'[s] = g_link[s]
  BY <1>6, <1>7, <1>11
<1>14. PICK had : had = [k.had EXCEPT ![n] = x]
  OBVIOUS
<1>15. /\ had \in Seq(G!Link) /\ DOMAIN had = DOMAIN k.had /\ had[n] = x
       /\ \A s \in DOMAIN k.had \ {n} : had[s] = k.had[s]
  BY <1>10, <1>11, <1>14
<1>16. Grow
  BY <1>6, <1>11, <1>12, <1>13 DEF Grow
<1>17. /\ m.op = "activate" /\ m.pc = "links" /\ m.of = k.of /\ m.row = k.row /\ m.seen = k.seen
       /\ m.had = had /\ m.todo = k.todo \ {n} /\ m.version = v
  BY <1>3, <1>5, <1>6, <1>7, <1>14 DEF CatalogCall
<1>18. m \in CatalogCall
  <2>1. k.todo \ {n} \in SUBSET (Articles \cup Nat)
    BY <1>7 DEF CatalogCall
  <2> QED
    BY <1>5, <1>7, <1>14, <1>15, <2>1 DEF CatalogCall
<1>19. HandlerFits(m)'
  <2>1. KnowsVersions(m)'
    BY <1>6, <1>8, <1>17 DEF KnowsVersions
  <2>2. KnowsLinks(m)'
    <3>1. \A s \in DOMAIN had : had[s].product = g_link'[s].product
      BY <1>8, <1>11, <1>12, <1>13, <1>15 DEF KnowsLinks
    <3> QED
      BY <1>8, <1>13, <1>15, <1>17, <3>1 DEF KnowsLinks
  <2>3. ActivateFits(m)'
    <3>1. \A s \in DOMAIN had \ (k.todo \ {n}) : had[s].active <=> s \in k.seen[v].snap
      BY <1>8, <1>9, <1>11, <1>15
    <3> QED
      BY <1>6, <1>8, <1>15, <1>17, <3>1 DEF ActivateFits
  <2> QED
    BY <1>17, <2>1, <2>2, <2>3 DEF HandlerFits, CommitFits, DecideFits, EditFits
<1>20. HandlersFit' /\ g_call' \in [Calls -> CatalogCall]
  BY <1>1, <1>6, <1>16, <1>18, <1>19, HandlersKept
<1>21. g_call'[c] = m /\ \A d \in Calls \ {c} : g_call'[d] = g_call[d]
  BY <1>6, <1>7, MovesAre
<1>22. CatalogTypes'
  <2>1. g_touched' \in SUBSET Nat
    BY <1>6, <1>7
  <2> QED
    BY <1>6, <1>7, <1>13, <1>20, <2>1, TypesNext
<1>23. ImportsFit'
  <2>1. \A d \in Calls : Continues(g_call[d], g_call'[d])
    BY <1>2, <1>6, <1>17, <1>21 DEF Continues
  <2>2. \A i \in Imports : VersionsOf(i)' = VersionsOf(i)
    BY <1>6 DEF VersionsOf
  <2> QED
    BY <1>1, <1>6, <2>1, <2>2, ImportsKept
<1>24. \A d \in Calls : /\ Applies(g_call'[d]) <=> Applies(g_call[d])
                        /\ Applies(g_call[d]) => g_call'[d] = g_call[d]
                        /\ Switches(g_call'[d]) <=> Switches(g_call[d])
  BY <1>2, <1>6, <1>17, <1>21 DEF Applies, Switches
<1>25. Steady' <=> Steady
  BY <1>6, <1>24 DEF Steady, Applies, Switches
<1>26. OneActive'
  BY <1>1, <1>6, <1>25 DEF OneActive, G!Actives
<1>27. OrphansOff'
  <2>1. SUFFICES ASSUME ~g_astray, NEW s \in DOMAIN g_link' \ g_touched', Orphan(s)', g_link'[s].active
                 PROVE  \E d \in Calls : Applies(g_call'[d]) /\ s \in g_call'[d].snap
    BY <1>6 DEF OrphansOff, Applies
  <2>2. Orphan(s)
    BY <1>6, <2>1 DEF Orphan
  <2>3. s # n
    BY <1>9, <1>11, <1>13, <2>1, <2>2 DEF Orphan
  <2>4. s \in DOMAIN g_link \ g_touched /\ g_link[s].active
    BY <1>6, <1>13, <2>1, <2>3
  <2>5. PICK d \in Calls : Applies(g_call[d]) /\ s \in g_call[d].snap
    BY <1>1, <2>1, <2>2, <2>4 DEF OrphansOff
  <2> QED
    BY <1>24, <2>5
<1>28. LinksInEffect'
  <2>1. SUFFICES ASSUME Steady', NEW w \in G!Actives(g_version), NEW s \in DOMAIN g_link' \ g_touched',
                        ~InEffect(w, s)'
                 PROVE  \E d \in Calls : WillSwitch(g_call[d], s)'
    BY <1>6 DEF LinksInEffect, G!Actives
  <2>2. s \in DOMAIN g_link \ g_touched
    BY <1>6, <1>13, <2>1
  <2>3. s # n
    <3>1. SUFFICES ASSUME s = n PROVE FALSE
      OBVIOUS
    <3>2. g_version = k.seen
      BY <1>6, <2>1, <3>1
    <3>3. w = v
      BY <1>8, <2>1, <3>2 DEF G!Actives
    <3> QED
      BY <1>6, <1>8, <1>11, <1>13, <2>1, <3>1, <3>3 DEF InEffect
  <2>4. g_link'[s] = g_link[s] /\ ~InEffect(w, s)
    BY <1>6, <1>13, <2>1, <2>2, <2>3 DEF InEffect
  <2>5. PICK d \in Calls : WillSwitch(g_call[d], s)
    BY <1>1, <1>25, <2>1, <2>2, <2>4 DEF LinksInEffect
  <2>6. WillSwitch(g_call[d], s)'
    BY <1>2, <1>6, <1>17, <1>21, <2>3, <2>5 DEF WillSwitch
  <2> QED
    BY <2>6
<1> QED
  BY <1>20, <1>22, <1>23, <1>26, <1>27, <1>28 DEF CatalogInv

-----------------------------------------------------------------------------
\* The steps that write versions.

\* A version that is written, with another "active", leaves what is known of it.
LEMMA VersionPut ==
  ASSUME CatalogTypes, NEW n \in DOMAIN g_version, NEW x \in G!Version,
         x.of = g_version[n].of, x.snap = g_version[n].snap,
         g_version' = [g_version EXCEPT ![n] = x], g_link' = g_link, g_back \subseteq g_back'
  PROVE  /\ Grow /\ g_version' \in Seq(G!Version)
         /\ DOMAIN g_version' = DOMAIN g_version /\ g_version'[n] = x
         /\ \A v \in DOMAIN g_version \ {n} : g_version'[v] = g_version[v]
         /\ \A v \in DOMAIN g_version' : /\ g_version'[v].snap = g_version[v].snap
                                         /\ g_version'[v].snap \subseteq DOMAIN g_link'
         /\ \A i \in Imports : VersionsOf(i)' = VersionsOf(i)
<1>1. g_version \in Seq(G!Version) /\ \A v \in DOMAIN g_version : g_version[v].snap \subseteq DOMAIN g_link
  BY TablesAre
<1>2. /\ g_version' \in Seq(G!Version) /\ DOMAIN g_version' = DOMAIN g_version /\ g_version'[n] = x
      /\ \A v \in DOMAIN g_version \ {n} : g_version'[v] = g_version[v]
  BY <1>1
<1>3. Grow
  BY <1>2 DEF Grow
<1>4. \A v \in DOMAIN g_version' : g_version'[v].snap = g_version[v].snap /\ g_version'[v].of = g_version[v].of
  BY <1>2
<1>5. \A i \in Imports : VersionsOf(i)' = VersionsOf(i)
  BY <1>2, <1>4 DEF VersionsOf
<1> QED
  BY <1>1, <1>2, <1>3, <1>4, <1>5

\* What a handler has read of a version has its type.
LEMMA SeenIs ==
  ASSUME NEW k \in CatalogCall, KnowsVersions(k), NEW n \in DOMAIN k.seen
  PROVE  /\ k.seen \in Seq(G!Version) /\ k.seen[n] \in G!Version /\ n \in DOMAIN g_version
         /\ k.seen[n].of = g_version[n].of /\ k.seen[n].snap = g_version[n].snap
<1>1. k.seen \in Seq(G!Version)
  BY DEF CatalogCall
<1>2. k.seen[n] \in G!Version
  BY <1>1
<1> QED
  BY <1>1, <1>2 DEF KnowsVersions

LEMMA ArchiveVersionKeeps ==
  ASSUME CatalogInv, NEW c \in Calls, NEW n, G!ArchiveVersion(c, n)
  PROVE  CatalogInv'
<1>1. CatalogTypes /\ HandlersFit /\ ImportsFit /\ OrphansOff
  BY DEF CatalogInv
<1>2. PICK k : k = g_call[c]
  OBVIOUS
<1>3. PICK x : x = [k.seen[n] EXCEPT !.active = FALSE]
  OBVIOUS
<1>4. PICK seen : seen = [k.seen EXCEPT ![n] = x]
  OBVIOUS
<1>5. PICK m : m = [k EXCEPT !.seen = seen]
  OBVIOUS
<1>6. /\ k.op = "commit" /\ k.pc = "apply" /\ n \in DOMAIN k.seen
      /\ g_version' = [g_version EXCEPT ![n] = x] /\ Moves(c, m)
      /\ g_astray' = (g_astray \/ k.seen # g_version)
      /\ UNCHANGED <<g_import, g_link, g_served, g_stops, g_mixed, g_touched, g_back>>
  BY <1>2, <1>3, <1>4, <1>5 DEF G!ArchiveVersion, G!Actives, G!At, G!Goto, Moves
<1>7. /\ k \in CatalogCall /\ HandlerFits(k) /\ g_link \in Seq(G!Link)
      /\ g_import \in [Imports -> G!Import]
      /\ g_astray \in BOOLEAN /\ g_mixed \in SUBSET Imports /\ g_served \in 0..MaxServed
      /\ g_stops \in 0..MaxErrors /\ g_touched \in SUBSET Nat
      /\ g_back \in SUBSET (DOMAIN g_version) /\ g_call \in [Calls -> CatalogCall]
  BY <1>1, <1>2, TablesAre DEF HandlersFit, CatalogTypes, G!TypeOK
<1>8. KnowsVersions(k) /\ KnowsLinks(k) /\ CommitFits(k)
  BY <1>7 DEF HandlerFits
<1>9. /\ k.seen \in Seq(G!Version) /\ k.seen[n] \in G!Version /\ n \in DOMAIN g_version
      /\ k.seen[n].of = g_version[n].of /\ k.seen[n].snap = g_version[n].snap
  BY <1>6, <1>7, <1>8, SeenIs
<1>10. x \in G!Version /\ x.of = g_version[n].of /\ x.snap = g_version[n].snap
  BY <1>3, <1>9 DEF G!Version
<1>11. /\ Grow /\ g_version' \in Seq(G!Version)
       /\ DOMAIN g_version' = DOMAIN g_version /\ g_version'[n] = x
       /\ \A v \in DOMAIN g_version \ {n} : g_version'[v] = g_version[v]
       /\ \A v \in DOMAIN g_version' : /\ g_version'[v].snap = g_version[v].snap
                                       /\ g_version'[v].snap \subseteq DOMAIN g_link'
       /\ \A i \in Imports : VersionsOf(i)' = VersionsOf(i)
  BY <1>1, <1>6, <1>9, <1>10, VersionPut
<1>12. /\ seen \in Seq(G!Version) /\ DOMAIN seen = DOMAIN k.seen /\ seen[n] = x
       /\ \A v \in DOMAIN k.seen \ {n} : seen[v] = k.seen[v]
  BY <1>4, <1>6, <1>9, <1>10
<1>13. /\ m.op = "commit" /\ m.pc = "apply" /\ m.of = k.of /\ m.row = k.row /\ m.seen = seen
       /\ m.had = k.had /\ m.todo = k.todo /\ m.snap = k.snap
  BY <1>5, <1>6, <1>7 DEF CatalogCall
<1>14. m \in CatalogCall
  BY <1>5, <1>7, <1>12 DEF CatalogCall
<1>15. HandlerFits(m)'
  <2>1. KnowsVersions(m)'
    BY <1>8, <1>11, <1>12, <1>13 DEF KnowsVersions, Grow
  <2>2. KnowsLinks(m)'
    BY <1>6, <1>8, <1>13 DEF KnowsLinks
  <2>3. CommitFits(m)'
    BY <1>6, <1>8, <1>13 DEF CommitFits
  <2> QED
    BY <1>13, <2>1, <2>2, <2>3 DEF HandlerFits, ActivateFits, EditFits, DecideFits
<1>16. HandlersFit' /\ g_call' \in [Calls -> CatalogCall]
  BY <1>1, <1>6, <1>11, <1>14, <1>15, HandlersKept
<1>17. g_call'[c] = m /\ \A d \in Calls \ {c} : g_call'[d] = g_call[d]
  BY <1>6, <1>7, MovesAre
<1>18. CatalogTypes'
  <2>1. g_astray' \in BOOLEAN
    BY <1>6, <1>7
  <2> QED
    BY <1>6, <1>7, <1>11, <1>16, <2>1, TypesNext
<1>19. ImportsFit'
  <2>1. \A d \in Calls : Continues(g_call[d], g_call'[d])
    BY <1>2, <1>6, <1>13, <1>17 DEF Continues
  <2> QED
    BY <1>1, <1>6, <1>11, <2>1, ImportsKept
<1>20. ~Steady'
  BY <1>13, <1>17 DEF Steady, Applies
<1>21. OrphansOff'
  <2>1. SUFFICES ASSUME ~g_astray', NEW s \in DOMAIN g_link \ g_touched, Orphan(s)', g_link[s].active
                 PROVE  \E d \in Calls : Applies(g_call'[d]) /\ s \in g_call'[d].snap
    BY <1>6 DEF OrphansOff, Applies
  <2>2. Orphan(s) /\ ~g_astray
    BY <1>6, <1>7, <1>11, <2>1 DEF Orphan
  <2>3. PICK d \in Calls : Applies(g_call[d]) /\ s \in g_call[d].snap
    BY <1>1, <2>1, <2>2 DEF OrphansOff
  <2> QED
    BY <1>2, <1>13, <1>17, <2>3 DEF Applies
<1> QED
  BY <1>16, <1>18, <1>19, <1>20, <1>21 DEF CatalogInv, OneActive, LinksInEffect

LEMMA RewriteVersionKeeps ==
  ASSUME CatalogInv, NEW c \in Calls, NEW n, G!RewriteVersion(c, n)
  PROVE  CatalogInv'
<1>1. /\ CatalogTypes /\ HandlersFit /\ ImportsFit /\ OneActive /\ OrphansOff /\ LinksInEffect
  BY DEF CatalogInv
<1>2. PICK k : k = g_call[c]
  OBVIOUS
<1>3. PICK x : x = k.seen[n]
  OBVIOUS
<1>4. PICK m : m = IF k.todo = {n} THEN G!Idle ELSE [k EXCEPT !.todo = k.todo \ {n}]
  OBVIOUS
<1>5. /\ k.op = "decide" /\ k.pc = "rewrite" /\ n \in k.todo
      /\ g_version' = [g_version EXCEPT ![n] = x] /\ Moves(c, m)
      /\ g_astray' = (g_astray \/ x # g_version[n])
      /\ UNCHANGED <<g_import, g_link, g_served, g_stops, g_mixed, g_touched, g_back>>
  BY <1>2, <1>3, <1>4 DEF G!RewriteVersion, G!At, G!Goto, Moves
<1>6. /\ k \in CatalogCall /\ HandlerFits(k) /\ g_link \in Seq(G!Link)
      /\ g_import \in [Imports -> G!Import]
      /\ g_astray \in BOOLEAN /\ g_mixed \in SUBSET Imports /\ g_served \in 0..MaxServed
      /\ g_stops \in 0..MaxErrors /\ g_touched \in SUBSET Nat
      /\ g_back \in SUBSET (DOMAIN g_version) /\ g_call \in [Calls -> CatalogCall]
  BY <1>1, <1>2, TablesAre DEF HandlersFit, CatalogTypes, G!TypeOK
<1>7. /\ KnowsVersions(k) /\ KnowsLinks(k) /\ k.of \in Imports /\ k.todo \subseteq DOMAIN k.seen
  BY <1>5, <1>6 DEF HandlerFits, DecideFits
<1>8. x \in G!Version /\ n \in DOMAIN g_version /\ x.of = g_version[n].of /\ x.snap = g_version[n].snap
  BY <1>3, <1>5, <1>6, <1>7, SeenIs
<1>9. /\ Grow /\ g_version' \in Seq(G!Version)
      /\ DOMAIN g_version' = DOMAIN g_version /\ g_version'[n] = x
      /\ \A v \in DOMAIN g_version \ {n} : g_version'[v] = g_version[v]
      /\ \A v \in DOMAIN g_version' : g_version'[v].snap \subseteq DOMAIN g_link'
      /\ \A i \in Imports : VersionsOf(i)' = VersionsOf(i)
  BY <1>1, <1>5, <1>8, VersionPut
<1>10. m \in CatalogCall /\ HandlerFits(m)' /\ Continues(k, m)
  <2>1. CASE k.todo = {n}
    <3>1. m = G!Idle
      BY <1>4, <2>1
    <3>2. HandlerFits(m)'
      BY <1>9, <3>1, IdleHandler, StillFits
    <3> QED
      BY <1>5, <3>1, <3>2, IdleHandler DEF Continues
  <2>2. CASE k.todo # {n}
    <3>1. m = [k EXCEPT !.todo = k.todo \ {n}]
      BY <1>4, <2>2
    <3>2. k.todo \ {n} \in SUBSET (Articles \cup Nat)
      BY <1>6 DEF CatalogCall
    <3>3. m \in CatalogCall
      BY <1>6, <3>1, <3>2 DEF CatalogCall
    <3>4. /\ m.op = "decide" /\ m.pc = "rewrite" /\ m.of = k.of /\ m.seen = k.seen
          /\ m.had = k.had /\ m.todo = k.todo \ {n}
      BY <1>5, <1>6, <3>1 DEF CatalogCall
    <3>5. HandlerFits(m)
      <4>1. KnowsVersions(m) /\ KnowsLinks(m)
        BY <1>7, <3>4 DEF KnowsVersions, KnowsLinks
      <4> QED
        BY <1>7, <3>4, <4>1 DEF HandlerFits, CommitFits, ActivateFits, EditFits, DecideFits
    <3>6. HandlerFits(m)'
      BY <1>9, <3>3, <3>5, StillFits
    <3> QED
      BY <1>5, <3>3, <3>4, <3>6 DEF Continues
  <2> QED
    BY <2>1, <2>2
<1>11. HandlersFit' /\ g_call' \in [Calls -> CatalogCall]
  BY <1>1, <1>5, <1>9, <1>10, HandlersKept
<1>12. g_call'[c] = m /\ \A d \in Calls \ {c} : g_call'[d] = g_call[d]
  BY <1>5, <1>6, MovesAre
<1>13. g_astray' \in BOOLEAN
  BY <1>5, <1>6
<1>14. CatalogTypes'
  BY <1>5, <1>6, <1>9, <1>11, <1>13, TypesNext
<1>15. ImportsFit'
  <2>1. \A d \in Calls : Continues(g_call[d], g_call'[d])
    BY <1>2, <1>10, <1>12 DEF Continues
  <2> QED
    BY <1>1, <1>5, <1>9, <2>1, ImportsKept
<1>16. OneActive' /\ OrphansOff' /\ LinksInEffect'
  <2>1. CASE g_astray'
    BY <2>1 DEF OneActive, OrphansOff, LinksInEffect, Steady
  <2>2. CASE ~g_astray'
    <3>1. ~g_astray /\ x = g_version[n]
      BY <1>5, <1>6, <2>2
    <3>2. g_version' = g_version
      <4>1. g_version \in Seq(G!Version)
        BY <1>1, TablesAre
      <4> QED
        BY <1>5, <1>8, <3>1, <4>1
    <3>3. \A d \in Calls : Goes(g_call[d], g_call'[d])
      BY <1>2, <1>5, <1>12 DEF Goes, Applies, Switches
    <3> QED
      BY <1>1, <1>5, <3>1, <3>2, <3>3, RowsStay
  <2> QED
    BY <2>1, <2>2
<1> QED
  BY <1>11, <1>14, <1>15, <1>16 DEF CatalogInv

\* A commit that finds the versions as it left them stores the only active one, and the
\* links it lists are those it wrote.
LEMMA CreateVersionKeeps ==
  ASSUME CatalogInv, NEW c \in Calls, G!CreateVersion(c)
  PROVE  CatalogInv'
<1>1. /\ CatalogTypes /\ HandlersFit /\ ImportsFit /\ OneActive /\ OrphansOff /\ LinksInEffect
  BY DEF CatalogInv
<1>2. PICK k : k = g_call[c]
  OBVIOUS
<1>3. PICK x : x = [of |-> k.of, active |-> TRUE, snap |-> k.snap]
  OBVIOUS
<1>4. PICK m : m = [G!Idle EXCEPT !.op = "commit", !.pc = "finish", !.of = k.of, !.row = k.row]
  OBVIOUS
<1>5. /\ k.op = "commit" /\ k.pc = "apply" /\ G!Actives(k.seen) = {}
      /\ g_version' = Append(g_version, x) /\ Moves(c, m)
      /\ g_astray' = (g_astray \/ k.seen # g_version)
      /\ g_touched' = g_touched \cup {n \in k.snap : g_link[n] # k.had[n]}
      /\ UNCHANGED <<g_import, g_link, g_served, g_stops, g_mixed, g_back>>
  BY <1>2, <1>3, <1>4 DEF G!CreateVersion, G!ReadyToCreate, G!At, G!Goto, Moves
<1>6. /\ k \in CatalogCall /\ HandlerFits(k) /\ g_link \in Seq(G!Link) /\ g_version \in Seq(G!Version)
      /\ \A n \in DOMAIN g_version : g_version[n].snap \subseteq DOMAIN g_link
      /\ g_import \in [Imports -> G!Import]
      /\ g_astray \in BOOLEAN /\ g_mixed \in SUBSET Imports /\ g_served \in 0..MaxServed
      /\ g_stops \in 0..MaxErrors /\ g_touched \in SUBSET Nat
      /\ g_back \in SUBSET (DOMAIN g_version) /\ g_call \in [Calls -> CatalogCall]
  BY <1>1, <1>2, TablesAre DEF HandlersFit, CatalogTypes, G!TypeOK
<1>7. /\ KnowsVersions(k) /\ KnowsLinks(k) /\ k.of \in Imports /\ k.row.status = "staging"
      /\ \A s \in k.snap : s \in DOMAIN k.had /\ k.had[s] = G!LinkBy(k.of, k.had[s].product)
      /\ k.row \in G!Import /\ k.snap \in SUBSET Nat
  BY <1>5, <1>6 DEF HandlerFits, CommitFits, CatalogCall
<1>8. k.snap \subseteq DOMAIN g_link
  BY <1>7 DEF KnowsLinks
<1>9. x \in G!Version /\ x.of = k.of /\ x.active /\ x.snap = k.snap
  BY <1>3, <1>7 DEF G!Version
<1>10. PICK N : N = Len(g_version) + 1
  OBVIOUS
<1>11. N \notin DOMAIN g_version /\ N \in Nat
  BY <1>6, <1>10
<1>12. /\ g_version' \in Seq(G!Version) /\ DOMAIN g_version' = DOMAIN g_version \cup {N}
       /\ g_version'[N] = x /\ \A v \in DOMAIN g_version : g_version'[v] = g_version[v]
  <2>1. PICK vs : vs = Append(g_version, x)
    OBVIOUS
  <2>2. /\ DOMAIN g_version = 1..Len(g_version) /\ Len(g_version) \in Nat
        /\ vs \in Seq(G!Version) /\ DOMAIN vs = 1..N /\ vs[N] = x
        /\ \A v \in 1..Len(g_version) : vs[v] = g_version[v]
    BY <1>6, <1>9, <1>10, <2>1
  <2>3. 1..N = DOMAIN g_version \cup {N}
    BY <1>10, <2>2
  <2>4. g_version' = vs
    BY <1>5, <2>1
  <2> QED
    BY <2>2, <2>3, <2>4
<1>13. Grow
  BY <1>5, <1>12 DEF Grow
<1>14. \A i \in Imports : VersionsOf(i)' = VersionsOf(i) \cup IF i = k.of THEN {N} ELSE {}
  BY <1>9, <1>11, <1>12 DEF VersionsOf
<1>15. /\ m.op = "commit" /\ m.pc = "finish" /\ m.of = k.of /\ m.row = k.row /\ m.seen = <<>>
       /\ m.had = <<>> /\ m.snap = {}
  BY <1>4 DEF G!Idle
<1>16. m \in CatalogCall
  BY <1>4, <1>7, IdleHandler DEF CatalogCall, Pcs
<1>17. HandlerFits(m)'
  <2>1. KnowsVersions(m)' /\ KnowsLinks(m)'
    BY <1>15 DEF KnowsVersions, KnowsLinks
  <2>2. CommitFits(m)'
    BY <1>7, <1>14, <1>15 DEF CommitFits
  <2> QED
    BY <1>15, <2>1, <2>2 DEF HandlerFits, ActivateFits, EditFits, DecideFits
<1>18. HandlersFit' /\ g_call' \in [Calls -> CatalogCall]
  BY <1>1, <1>5, <1>13, <1>16, <1>17, HandlersKept
<1>19. g_call'[c] = m /\ \A d \in Calls \ {c} : g_call'[d] = g_call[d]
  BY <1>5, <1>6, MovesAre
<1>20. CatalogTypes'
  <2>1. g_astray' \in BOOLEAN
    BY <1>5, <1>6
  <2>2. \A v \in DOMAIN g_version' : g_version'[v].snap \subseteq DOMAIN g_link'
    BY <1>5, <1>6, <1>8, <1>9, <1>12
  <2>3. g_touched' \in SUBSET Nat /\ g_back' \in SUBSET (DOMAIN g_version')
    BY <1>5, <1>6, <1>7, <1>12
  <2> QED
    BY <1>5, <1>6, <1>12, <1>18, <2>1, <2>2, <2>3, TypesNext
<1>21. ImportsFit'
  <2>1. SUFFICES ASSUME NEW i \in Imports PROVE ImportFits(i)'
    BY DEF ImportsFit
  <2>2. ImportFits(i) /\ g_import'[i] = g_import[i]
    BY <1>1, <1>5 DEF ImportsFit
  <2>3. \A d \in Calls : /\ g_call'[d].of = g_call[d].of
                         /\ Commits(g_call'[d], i) <=> Commits(g_call[d], i)
                         /\ g_call'[d].pc \in {"read", "apply"} => d # c /\ g_call'[d] = g_call[d]
                         /\ Commits(g_call[d], i) /\ g_call[d].pc = "finish" => g_call'[d] = g_call[d]
    BY <1>2, <1>5, <1>15, <1>19 DEF Commits
  <2>4. CASE i # k.of
    <3>1. VersionsOf(i)' = VersionsOf(i)
      BY <1>14, <2>4
    <3>2. g_import'[i].status = "none" => Unseen(i)'
      BY <2>2, <2>3, <3>1 DEF ImportFits, Unseen
    <3>3. i \notin g_mixed' => OnceWritten(i)'
      BY <1>5, <2>2, <2>3, <3>1 DEF ImportFits, OnceWritten, Commits
    <3> QED
      BY <2>2, <3>1, <3>2, <3>3 DEF ImportFits
  <2>5. CASE i = k.of
    <3>1. VersionsOf(i)' = VersionsOf(i) \cup {N}
      BY <1>14, <2>5
    <3>2. g_import'[i].status # "none"
      BY <1>2, <2>2, <2>5 DEF ImportFits, Unseen
    <3>3. ASSUME i \notin g_mixed' PROVE OnceWritten(i)'
      <4>1. OnceWritten(i)
        BY <1>5, <2>2, <3>3 DEF ImportFits
      <4>2. Commits(g_call[c], i) /\ g_call[c].pc = "apply"
        BY <1>2, <1>5, <2>5 DEF Commits
      <4>3. VersionsOf(i) = {} /\ \A d \in Calls : Commits(g_call[d], i) => d = c
        BY <4>1, <4>2 DEF OnceWritten
      <4>4. \A d \in Calls : Commits(g_call'[d], i) => d = c
        BY <2>3, <4>3
      <4>5. Commits(g_call'[c], i) /\ g_call'[c].pc = "finish"
        BY <1>15, <1>19, <2>5 DEF Commits
      <4>6. \A v, w \in VersionsOf(i)' : v = w
        BY <3>1, <4>3
      <4> QED
        BY <4>4, <4>5, <4>6 DEF OnceWritten, Commits
    <3> QED
      BY <3>1, <3>2, <3>3 DEF ImportFits
  <2> QED
    BY <2>4, <2>5
<1>22. OneActive' /\ OrphansOff' /\ LinksInEffect'
  <2>1. CASE g_astray'
    BY <2>1 DEF OneActive, OrphansOff, LinksInEffect, Steady
  <2>2. CASE ~g_astray'
    <3>1. ~g_astray /\ k.seen = g_version
      BY <1>5, <1>6, <2>2
    <3>2. G!Actives(g_version) = {}
      BY <1>5, <3>1
    <3>3. \A v \in DOMAIN g_version : ~g_version[v].active
      BY <3>2 DEF G!Actives
    <3>4. G!Actives(g_version') = {N}
      BY <1>9, <1>11, <1>12, <3>3 DEF G!Actives
    <3>5. OneActive'
      <4>1. N \in DOMAIN g_version' /\ G!Actives(g_version)' = {N}
        BY <1>12, <3>4 DEF G!Actives
      <4> QED
        BY <4>1 DEF OneActive
    <3>6. OrphansOff'
      <4>1. SUFFICES ASSUME NEW s \in DOMAIN g_link \ g_touched', Orphan(s)', g_link[s].active
                     PROVE  \E d \in Calls : Applies(g_call'[d]) /\ s \in g_call'[d].snap
        BY <1>5 DEF OrphansOff, Applies
      <4>2. Orphan(s) /\ s \notin k.snap
        BY <1>9, <1>12, <4>1 DEF Orphan
      <4>3. s \notin g_touched
        BY <1>5, <4>1
      <4>4. PICK d \in Calls : Applies(g_call[d]) /\ s \in g_call[d].snap
        BY <1>1, <3>1, <4>1, <4>2, <4>3 DEF OrphansOff
      <4>5. g_call'[d] = g_call[d]
        BY <1>2, <1>19, <4>2, <4>4
      <4> QED
        BY <4>4, <4>5
    <3>7. LinksInEffect'
      <4>1. SUFFICES ASSUME NEW v \in G!Actives(g_version'), NEW s \in DOMAIN g_link \ g_touched'
                     PROVE  InEffect(v, s)'
        BY <1>5 DEF LinksInEffect, G!Actives
      <4>2. v = N /\ v \notin g_back'
        BY <1>5, <1>6, <1>11, <3>4, <4>1
      <4>3. s \in k.snap => g_link[s] = k.had[s]
        BY <1>5, <4>1
      <4>4. s \in k.snap => g_link'[s] = G!LinkBy(k.of, g_link'[s].product)
        BY <1>5, <1>7, <4>3
      <4> QED
        BY <1>9, <1>12, <4>2, <4>4 DEF InEffect
    <3> QED
      BY <3>5, <3>6, <3>7
  <2> QED
    BY <2>1, <2>2
<1> QED
  BY <1>18, <1>20, <1>21, <1>22 DEF CatalogInv

\* An activation that has switched the last version leaves that version the only active
\* one; its links, and those of other versions, it will switch, and a link it has not
\* read is in no version.
LEMMA SwitchVersionKeeps ==
  ASSUME CatalogInv, NEW c \in Calls, NEW n, G!SwitchVersion(c, n)
  PROVE  CatalogInv'
<1>1. /\ CatalogTypes /\ HandlersFit /\ ImportsFit /\ OneActive /\ OrphansOff /\ LinksInEffect
  BY DEF CatalogInv
<1>2. PICK k : k = g_call[c]
  OBVIOUS
<1>3. PICK b : b \in BOOLEAN /\ (b <=> n = k.version)
  BY n = k.version \/ n # k.version
<1>4. PICK x : x = [k.seen[n] EXCEPT !.active = b]
  OBVIOUS
<1>5. PICK seen : seen = [k.seen EXCEPT ![n] = x]
  OBVIOUS
<1>6. PICK m : m = IF k.todo = {n}
                   THEN [k EXCEPT !.pc = "links", !.seen = seen, !.todo = DOMAIN g_link \cap DOMAIN k.had]
                   ELSE [k EXCEPT !.seen = seen, !.todo = k.todo \ {n}]
  OBVIOUS
<1>7. /\ k.op = "activate" /\ k.pc = "versions" /\ n \in k.todo
      /\ g_version' = [g_version EXCEPT ![n] = x] /\ Moves(c, m)
      /\ g_astray' = (g_astray \/ k.seen # g_version)
      /\ g_back' = g_back \cup {k.version}
      /\ UNCHANGED <<g_import, g_link, g_served, g_stops, g_mixed, g_touched>>
  <2>1. (n = k.version) = b
    BY <1>3
  <2>2. x = [k.seen[n] EXCEPT !.active = (n = k.version)]
    BY <1>4, <2>1
  <2> QED
    BY <1>2, <1>5, <1>6, <2>2 DEF G!SwitchVersion, G!At, G!Goto, Moves
<1>8. /\ k \in CatalogCall /\ HandlerFits(k) /\ g_link \in Seq(G!Link) /\ g_version \in Seq(G!Version)
      /\ DOMAIN g_link \in SUBSET Nat
      /\ g_import \in [Imports -> G!Import]
      /\ g_astray \in BOOLEAN /\ g_mixed \in SUBSET Imports /\ g_served \in 0..MaxServed
      /\ g_stops \in 0..MaxErrors /\ g_touched \in SUBSET Nat
      /\ g_back \in SUBSET (DOMAIN g_version) /\ g_call \in [Calls -> CatalogCall]
  BY <1>1, <1>2, TablesAre DEF HandlersFit, CatalogTypes, G!TypeOK
<1>9. /\ KnowsVersions(k) /\ KnowsLinks(k) /\ k.version \in DOMAIN k.seen
      /\ \A v \in DOMAIN k.seen : k.seen[v].snap \subseteq DOMAIN k.had
      /\ k.todo \subseteq DOMAIN k.seen
      /\ \A v \in DOMAIN k.seen \ k.todo : k.seen[v].active <=> v = k.version
  BY <1>7, <1>8 DEF HandlerFits, ActivateFits
<1>10. /\ k.seen \in Seq(G!Version) /\ k.seen[n] \in G!Version /\ n \in DOMAIN g_version
       /\ k.seen[n].of = g_version[n].of /\ k.seen[n].snap = g_version[n].snap
       /\ n \in DOMAIN k.seen
  BY <1>7, <1>8, <1>9, SeenIs
<1>11. /\ x \in G!Version /\ x.of = g_version[n].of /\ x.snap = g_version[n].snap
       /\ x.active <=> n = k.version
  BY <1>3, <1>4, <1>10 DEF G!Version
<1>12. g_link' = g_link /\ g_back \subseteq g_back'
  BY <1>7
<1>13. /\ Grow /\ g_version' \in Seq(G!Version)
       /\ DOMAIN g_version' = DOMAIN g_version /\ g_version'[n] = x
       /\ \A v \in DOMAIN g_version \ {n} : g_version'[v] = g_version[v]
       /\ \A v \in DOMAIN g_version' : /\ g_version'[v].snap = g_version[v].snap
                                       /\ g_version'[v].snap \subseteq DOMAIN g_link'
       /\ \A i \in Imports : VersionsOf(i)' = VersionsOf(i)
  BY <1>1, <1>7, <1>10, <1>11, <1>12, VersionPut
<1>14. /\ seen \in Seq(G!Version) /\ DOMAIN seen = DOMAIN k.seen /\ seen[n] = x
       /\ \A v \in DOMAIN k.seen \ {n} : seen[v] = k.seen[v]
  BY <1>5, <1>10, <1>11
<1>15. /\ m.op = "activate" /\ m.of = k.of /\ m.row = k.row /\ m.seen = seen
       /\ m.had = k.had /\ m.version = k.version
       /\ k.todo = {n} => m.pc = "links" /\ m.todo = DOMAIN k.had
       /\ k.todo # {n} => m.pc = "versions" /\ m.todo = k.todo \ {n}
  <2>1. DOMAIN g_link \cap DOMAIN k.had = DOMAIN k.had
    BY <1>9 DEF KnowsLinks
  <2> QED
    BY <1>6, <1>7, <1>8, <2>1 DEF CatalogCall
<1>16. m \in CatalogCall
  <2>1. k.todo \ {n} \in SUBSET (Articles \cup Nat)
    BY <1>8 DEF CatalogCall
  <2>2. DOMAIN g_link \cap DOMAIN k.had \in SUBSET (Articles \cup Nat)
    BY <1>8
  <2>3. CASE k.todo = {n}
    BY <1>6, <1>8, <1>14, <2>2, <2>3 DEF CatalogCall, Pcs
  <2>4. CASE k.todo # {n}
    BY <1>6, <1>8, <1>14, <2>1, <2>4 DEF CatalogCall, Pcs
  <2> QED
    BY <2>3, <2>4
<1>17. \A v \in DOMAIN seen : /\ seen[v].snap = k.seen[v].snap
                              /\ v \notin k.todo \ {n} => (seen[v].active <=> v = k.version)
  BY <1>9, <1>10, <1>11, <1>14
<1>18. HandlerFits(m)'
  <2>1. KnowsVersions(m)'
    <3>1. \A v \in DOMAIN seen : seen[v].of = g_version'[v].of /\ seen[v].snap = g_version'[v].snap
      BY <1>9, <1>13, <1>14 DEF KnowsVersions, Grow
    <3> QED
      BY <1>9, <1>13, <1>14, <1>15, <3>1 DEF KnowsVersions
  <2>2. KnowsLinks(m)'
    BY <1>7, <1>9, <1>15 DEF KnowsLinks
  <2>3. ActivateFits(m)'
    <3>1. /\ m.version \in DOMAIN m.seen /\ m.version \in g_back'
          /\ \A v \in DOMAIN m.seen : m.seen[v].snap \subseteq DOMAIN m.had
      BY <1>7, <1>9, <1>14, <1>15, <1>17
    <3>2. CASE k.todo = {n}
      BY <1>14, <1>15, <1>17, <3>1, <3>2 DEF ActivateFits
    <3>3. CASE k.todo # {n}
      BY <1>9, <1>14, <1>15, <1>17, <3>1, <3>3 DEF ActivateFits
    <3> QED
      BY <3>2, <3>3
  <2>4. m.pc # "idle"
    BY <1>15
  <2> QED
    BY <1>15, <2>1, <2>2, <2>3, <2>4 DEF HandlerFits, CommitFits, EditFits, DecideFits
<1>19. HandlersFit' /\ g_call' \in [Calls -> CatalogCall]
  BY <1>1, <1>7, <1>13, <1>16, <1>18, HandlersKept
<1>20. g_call'[c] = m /\ \A d \in Calls \ {c} : g_call'[d] = g_call[d]
  BY <1>7, <1>8, MovesAre
<1>21. CatalogTypes'
  <2>1. g_astray' \in BOOLEAN
    BY <1>7, <1>8
  <2>2. g_back' \in SUBSET (DOMAIN g_version')
    BY <1>7, <1>8, <1>9, <1>13 DEF KnowsVersions
  <2> QED
    BY <1>7, <1>8, <1>13, <1>19, <2>1, <2>2, TypesNext
<1>22. ImportsFit'
  <2>1. \A d \in Calls : Continues(g_call[d], g_call'[d])
    BY <1>2, <1>7, <1>15, <1>20 DEF Continues
  <2> QED
    BY <1>1, <1>7, <1>13, <2>1, ImportsKept
<1>23. OrphansOff'
  <2>1. SUFFICES ASSUME ~g_astray', NEW s \in DOMAIN g_link \ g_touched, Orphan(s)', g_link[s].active
                 PROVE  \E d \in Calls : Applies(g_call'[d]) /\ s \in g_call'[d].snap
    BY <1>7 DEF OrphansOff, Applies
  <2>2. Orphan(s) /\ ~g_astray
    BY <1>7, <1>8, <1>13, <2>1 DEF Orphan
  <2>3. PICK d \in Calls : Applies(g_call[d]) /\ s \in g_call[d].snap
    BY <1>1, <2>1, <2>2 DEF OrphansOff
  <2> QED
    BY <1>2, <1>7, <1>20, <2>3 DEF Applies
<1>24. OneActive' /\ LinksInEffect'
  <2>1. CASE ~Steady'
    BY <2>1 DEF OneActive, LinksInEffect
  <2>2. CASE Steady'
    <3>1. ~g_astray' /\ \A d \in Calls : ~Applies(g_call'[d]) /\ ~Switches(g_call'[d])
      BY <2>2 DEF Steady, Applies, Switches
    <3>2. k.todo = {n}
      BY <1>15, <1>20, <3>1 DEF Switches
    <3>3. k.seen = g_version /\ ~g_astray
      BY <1>7, <1>8, <3>1
    <3>4. PICK v : v = k.version
      OBVIOUS
    <3>5. g_version' = seen
      BY <1>5, <1>7, <3>3
    <3>6. G!Actives(g_version') = {v} /\ v \in DOMAIN g_version'
      BY <1>9, <1>14, <1>17, <3>2, <3>4, <3>5 DEF G!Actives
    <3>7. OneActive'
      <4>1. G!Actives(g_version)' = {v}
        BY <3>6 DEF G!Actives
      <4> QED
        BY <3>6, <4>1 DEF OneActive
    <3>8. LinksInEffect'
      <4>1. SUFFICES ASSUME NEW w \in G!Actives(g_version'), NEW s \in DOMAIN g_link \ g_touched
                     PROVE  InEffect(w, s)' \/ \E d \in Calls : WillSwitch(g_call[d], s)'
        BY <1>7 DEF LinksInEffect, G!Actives
      <4>2. w = v
        BY <3>6, <4>1
      <4>3. CASE s \in DOMAIN k.had
        <5>1. WillSwitch(g_call[c], s)'
          BY <1>15, <1>20, <3>2, <3>5, <4>3 DEF WillSwitch
        <5> QED
          BY <5>1
      <4>4. CASE s \notin DOMAIN k.had
        <5>1. Orphan(s)'
          BY <1>9, <1>13, <3>3, <4>4 DEF Orphan
        <5>2. ~g_link'[s].active
          BY <1>23, <1>7, <3>1, <4>1, <5>1 DEF OrphansOff, Applies
        <5>3. s \notin g_version'[v].snap
          BY <3>6, <5>1 DEF Orphan
        <5> QED
          BY <4>2, <5>2, <5>3 DEF InEffect
      <4> QED
        BY <4>3, <4>4
    <3> QED
      BY <3>7, <3>8
  <2> QED
    BY <2>1, <2>2
<1> QED
  BY <1>19, <1>21, <1>22, <1>23, <1>24 DEF CatalogInv

-----------------------------------------------------------------------------
\* Every step of the catalogue keeps the invariant.
LEMMA CatalogNext ==
  ASSUME CatalogInv, G!Next
  PROVE  CatalogInv'
<1>1. CASE \E i \in Imports, ps \in SUBSET Articles \ {{}} : G!PreviewImport(i, ps)
  BY <1>1, PreviewImportKeeps
<1>2. CASE \E n \in DOMAIN g_link, a \in BOOLEAN : G!EditLink(n, a)
  BY <1>2, EditLinkKeeps
<1>3. ASSUME NEW c \in Calls, NEW i \in Imports,
             \/ G!CommitImport(c, i)
             \/ \E ps \in SUBSET Articles : G!UpdateImportRow(c, i, ps)
             \/ \E new \in {"pending", "matched", "rejected"} : G!Decide(c, i, new)
      PROVE  CatalogInv'
  BY <1>3, CommitImportKeeps, UpdateImportRowKeeps, DecideKeeps
<1>4. ASSUME NEW c \in Calls, NEW p \in Articles, NEW n, G!ApplyLine(c, p, n) \/ G!MatchLink(c, p, n)
      PROVE  CatalogInv'
  BY <1>4, ApplyLineKeeps, MatchLinkKeeps
<1>5. ASSUME NEW c \in Calls, NEW n \in DOMAIN g_version,
             \/ G!ArchiveVersion(c, n) \/ G!ActivateVersion(c, n)
             \/ G!SwitchVersion(c, n) \/ G!RewriteVersion(c, n)
      PROVE  CatalogInv'
  BY <1>5, ArchiveVersionKeeps, ActivateVersionKeeps, SwitchVersionKeeps, RewriteVersionKeeps
<1>6. ASSUME NEW c \in Calls,
             \/ \E n \in DOMAIN g_link : G!SwitchLink(c, n)
             \/ G!ReadCatalog(c) \/ G!CreateVersion(c) \/ G!FinalizeImport(c) \/ G!Activated(c)
      PROVE  CatalogInv'
  BY <1>6, SwitchLinkKeeps, ReadCatalogKeeps, CreateVersionKeeps, FinalizeImportKeeps, ActivatedKeeps
<1>7. ASSUME NEW c \in Calls,
             G!PutRow(c) \/ G!PutDecision(c) \/ G!ReadVersions(c) \/ G!Stop(c)
      PROVE  CatalogInv'
  BY <1>7, PutRowKeeps, PutDecisionKeeps, ReadVersionsKeeps, StopKeeps
<1> QED
  BY <1>1, <1>2, <1>3, <1>4, <1>5, <1>6, <1>7, Zenon DEF G!Next

LEMMA CatalogInit ==
  ASSUME G!Init
  PROVE  CatalogInv
<1>1. /\ g_import = [i \in Imports |-> G!Blank] /\ g_version = <<>> /\ g_link = <<>>
      /\ g_call = [c \in Calls |-> G!Idle] /\ g_served = 0 /\ g_stops = 0
      /\ g_astray = FALSE /\ g_mixed = {} /\ g_touched = {} /\ g_back = {}
  BY DEF G!Init
<1>2. G!Blank \in G!Import /\ G!Blank.status = "none"
  BY DEF G!Blank, G!Import
<1>3. CatalogTypes
  <2>1. g_version \in Seq(G!Version) /\ g_link \in Seq(G!Link) /\ DOMAIN g_version = {}
    BY <1>1
  <2>2. g_import \in [Imports -> G!Import] /\ g_call \in [Calls -> CatalogCall]
    BY <1>1, <1>2, IdleHandler
  <2>3. \A c \in Calls : /\ g_call[c].op \in {"none", "commit", "activate", "edit", "decide"}
                         /\ g_call[c].of \in Imports \cup {None} /\ g_call[c].row \in G!Import
    BY <2>2 DEF CatalogCall
  <2>4. g_served \in 0..MaxServed /\ g_stops \in 0..MaxErrors
    BY <1>1, CatalogAssumption
  <2> QED
    BY <1>1, <2>1, <2>2, <2>3, <2>4 DEF CatalogTypes, G!TypeOK
<1>4. HandlersFit
  BY <1>1, IdleHandler DEF HandlersFit
<1>5. ImportsFit
  <2>1. SUFFICES ASSUME NEW i \in Imports PROVE ImportFits(i)
    BY DEF ImportsFit
  <2>2. VersionsOf(i) = {} /\ i # None
    BY <1>1, CatalogAssumption DEF VersionsOf
  <2>3. \A c \in Calls : g_call[c].of # i /\ ~Commits(g_call[c], i)
    BY <1>1, <2>2, IdleHandler DEF Commits
  <2>4. Unseen(i) /\ OnceWritten(i)
    BY <2>2, <2>3 DEF Unseen, OnceWritten
  <2> QED
    BY <1>1, <1>2, <2>4 DEF ImportFits
<1>6. OneActive /\ OrphansOff /\ LinksInEffect
  BY <1>1 DEF OneActive, OrphansOff, LinksInEffect
<1> QED
  BY <1>3, <1>4, <1>5, <1>6 DEF CatalogInv

\* The invariant says that the catalogue is in effect.
LEMMA CatalogInvIsEnough ==
  ASSUME CatalogInv
  PROVE  G!TypeOK /\ G!OneVersionActive /\ G!CommittedOnce /\ G!ActiveInEffect
<1>1. /\ CatalogTypes /\ ImportsFit /\ OneActive /\ LinksInEffect
  BY DEF CatalogInv
<1>2. ~g_astray /\ G!Settled => Steady
  BY DEF G!Settled, G!At, Steady, Applies, Switches
<1>3. G!OneVersionActive
  BY <1>1, <1>2 DEF G!OneVersionActive, OneActive
<1>4. G!CommittedOnce
  BY <1>1 DEF G!CommittedOnce, VersionsOf, ImportsFit, ImportFits, OnceWritten
<1>5. G!ActiveInEffect
  <2>1. SUFFICES ASSUME ~g_astray, G!Settled, NEW v \in G!Actives(g_version),
                        NEW n \in DOMAIN g_link \ g_touched
                 PROVE  InEffect(v, n)
    BY DEF G!ActiveInEffect, InEffect
  <2>2. \A c \in Calls : ~WillSwitch(g_call[c], n)
    BY <2>1 DEF G!Settled, WillSwitch
  <2> QED
    BY <1>1, <1>2, <2>1, <2>2 DEF LinksInEffect
<1> QED
  BY <1>1, <1>3, <1>4, <1>5 DEF CatalogTypes

\* One version of the catalogue is active and its links are in effect, and an import
\* leads to one version, however commits, activations, decisions and edits interleave.
THEOREM CatalogueStaysInEffect == SpecParts => []CatalogueInEffect
<1> DEFINE Kept == part = "catalogue" => CatalogInv
<1>1. InitParts => Kept
  BY CatalogInit DEF InitParts
<1>2. Kept /\ [NextParts]_allVars => Kept'
  <2>1. SUFFICES ASSUME Kept, [NextParts]_allVars, part' = "catalogue" PROVE CatalogInv'
    OBVIOUS
  <2>2. CASE NextParts
    <3>1. part = "catalogue" /\ G!Next
      BY <2>1, <2>2 DEF NextParts
    <3> QED
      BY <2>1, <3>1, CatalogNext
  <2>3. CASE UNCHANGED allVars
    <3>1. part = "catalogue" /\ CatalogInv /\ UNCHANGED g_vars
      BY <2>1, <2>3 DEF allVars
    <3>2. /\ CatalogTypes /\ HandlersFit /\ ImportsFit /\ OneActive /\ OrphansOff /\ LinksInEffect
      BY <3>1 DEF CatalogInv
    <3>3. CatalogTypes'
      BY <3>1, <3>2 DEF g_vars, CatalogTypes, G!TypeOK
    <3>4. HandlersFit'
      BY <3>1, <3>2 DEF g_vars, HandlersFit, HandlerFits, KnowsVersions, KnowsLinks, CommitFits,
                        ActivateFits, EditFits, DecideFits, VersionsOf
    <3>5. ImportsFit'
      BY <3>1, <3>2 DEF g_vars, ImportsFit, ImportFits, Unseen, OnceWritten, VersionsOf
    <3>6. OneActive'
      BY <3>1, <3>2 DEF g_vars, OneActive, Steady, G!Actives
    <3>7. OrphansOff'
      BY <3>1, <3>2 DEF g_vars, OrphansOff, Orphan
    <3>8. LinksInEffect'
      BY <3>1, <3>2 DEF g_vars, LinksInEffect, Steady, G!Actives, InEffect, WillSwitch
    <3> QED
      BY <3>3, <3>4, <3>5, <3>6, <3>7, <3>8 DEF CatalogInv
  <2> QED
    BY <2>1, <2>2, <2>3
<1>3. Kept => CatalogueInEffect
  BY CatalogInvIsEnough DEF CatalogueInEffect
<1> QED
  BY <1>1, <1>2, <1>3, PTL DEF SpecParts
=============================================================================
