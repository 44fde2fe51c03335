------------------------- MODULE ConfigApply_proofs -------------------------
(***************************************************************************)
(* What `uptop apply' leaves behind: for any files, any databases, names   *)
(* that occur twice and references that dangle included, any number of     *)
(* runs and any write that fails.                                          *)
(***************************************************************************)
EXTENDS ConfigApply, NaturalsInduction, WellFoundedInduction, TLAPS

-----------------------------------------------------------------------------
\* A run with a snapshot, which is that of tables the store has made.
Fields == {"phase", "file", "dry", "prune", "changes", "exported", "sound", "fresh",
           "alerts", "sites", "alertMap", "groupMap", "placeholder", "todo"}
Shaped(r) ==
  /\ r = [x \in Fields |-> r[x]]
  /\ \E m \in Nat : DOMAIN r.alerts \subseteq 1..m /\ DOMAIN r.sites \subseteq 1..m
  /\ r.dry \in BOOLEAN /\ r.prune \in BOOLEAN

\* What is left to do is part of the work, or the second half of a deletion.
Drop(id) == <<AlertPrune, id, 1>>
TodoOk(r) ==
  \A x \in r.todo :
    \/ x \in Work(r.file, r.prune, r)
    \/ r.prune /\ \E id \in Unlisted(r.alerts, NamesOf(r.file.alerts)) : x = Drop(id)

AlertItem(i) == <<AlertStage, i, 0>>
SameRow(t, u, n) ==
  /\ LastNamed(t, n) = LastNamed(u, n)
  /\ LastNamed(u, n) # 0 => t[LastNamed(u, n)] = u[LastNamed(u, n)]

\* The alerts in a real run: as the file lists them, old the snapshot's table, t
\* the database's, todo and map the run's.  What is to be done is as in the
\* snapshot, what is done is as in the file, and the map is that of the table
\* (of a run that is to prune, for the names of the file).
AlertsPending(al, old, todo, t) ==
  \A i \in DOMAIN al : AlertItem(i) \in todo => SameRow(t, old, al[i].name)
AlertsDone(al, todo, t) ==
  \A i \in DOMAIN al : AlertItem(i) \notin todo =>
    LET id == LastNamed(t, al[i].name) IN id # 0 /\ t[id].body = al[i].body
MapTrue(al, prune, map, t) ==
  /\ NamesOf(t) \subseteq DOMAIN map
  /\ \A n \in DOMAIN map : n \in NamesOf(al) \/ ~prune
       => map[n] # 0 /\ map[n] = LastNamed(t, n)
AlertsLeft(al, todo, t) ==
  \A id : <<AlertPrune, id, 0>> \in todo \/ Drop(id) \in todo
    => id \in Unlisted(t, NamesOf(al))
AlertsGone(al, prune, todo, t) ==
  prune => \A id \in Unlisted(t, NamesOf(al)) :
             <<AlertPrune, id, 0>> \in todo \/ Drop(id) \in todo
AlertsInv(al, prune, old, todo, map, t) ==
  /\ AlertsPending(al, old, todo, t) /\ AlertsDone(al, todo, t)
  /\ MapTrue(al, prune, map, t)
  /\ AlertsLeft(al, todo, t) /\ AlertsGone(al, prune, todo, t)

\* The monitors likewise; gmap is the run's map of groups.
SitesPending(f, old, todo, t) ==
  \A p \in Places(f) : ItemOf(f, p) \in todo => SameRow(t, old, At(f, p).name)
ParentOf(f, p, t) == IF p[2] = 0 THEN 0 ELSE LastNamed(t, At(f, <<p[1], 0>>).name)
Says(m, row, parent) ==
  /\ row.kind = m.kind /\ Normal(row.body) = Normal(m.body)
  /\ row.dns = m.dns /\ row.paused = m.paused /\ row.parent = parent
AlertOf(map, m) == IF m.alert = NoName THEN 0 ELSE map[m.alert]
Agrees(m, map, safe, row, parent) ==
  /\ Says(m, row, parent)
  /\ m.alert # NoName => m.alert \in DOMAIN map
  /\ safe => row.alert = AlertOf(map, m)
SitesDone(f, safe, todo, map, t) ==
  \A p \in Places(f) : ItemOf(f, p) \notin todo =>
    /\ LastNamed(t, At(f, p).name) # 0
    /\ Agrees(At(f, p), map, safe, t[LastNamed(t, At(f, p).name)], ParentOf(f, p, t))
    /\ p[2] # 0 => ItemOf(f, <<p[1], 0>>) \notin todo
GroupsDone(f, todo, gmap, t) ==
  \A p \in Places(f) :
    (StageOf(f, p) = GroupStage /\ ItemOf(f, p) \notin todo) =>
      LET n == At(f, p).name IN n \in DOMAIN gmap /\ gmap[n] = LastNamed(t, n)
SitesLeft(f, todo, t) ==
  \A id : <<SitePrune, id, 0>> \in todo => id \in Unlisted(t, collectMonitorNames(f))
SitesGone(f, prune, todo, t) ==
  prune => \A id \in Unlisted(t, collectMonitorNames(f)) : <<SitePrune, id, 0>> \in todo
Safe(f, prune) == Closed(f) \/ ~prune
SitesInv(f, prune, old, todo, map, gmap, t) ==
  /\ SitesPending(f, old, todo, t) /\ SitesDone(f, Safe(f, prune), todo, map, t)
  /\ GroupsDone(f, todo, gmap, t)
  /\ SitesLeft(f, todo, t) /\ SitesGone(f, prune, todo, t)

RealInv(r, d) ==
  /\ TodoOk(r)
  /\ AlertsInv(r.file.alerts, r.prune, r.alerts, r.todo, r.alertMap, d.alerts)
  /\ SitesInv(r.file, r.prune, r.sites, r.todo, r.alertMap, r.groupMap, d.sites)

\* What holds of every run that has not ended early: in a dry one deletions
\* have one half.
Underway == run.phase \in {"working", "done"}
RunInv ==
  /\ run.phase \in {"idle", "working", "done", "failed", "broken"}
  /\ run.phase = "done" => run.todo = {}
  /\ Underway => Shaped(run) /\ Validate(run.file)
  /\ Underway /\ run.dry => run.todo \subseteq Work(run.file, run.prune, run)
  /\ Underway /\ ~run.dry => RealInv(run, db)

UniqueKept ==
  (\A d \in Databases : Unique(d.sites) /\ Unique(d.alerts))
    => Unique(db.sites) /\ Unique(db.alerts)

RowShape(row) ==
  row = [name |-> row.name, kind |-> row.kind, body |-> row.body, dns |-> row.dns,
         alert |-> row.alert, parent |-> row.parent, paused |-> row.paused,
         token |-> row.token]

\* A run whose request is in force already: it finds nothing to do.
Fixed(f, prune, al, ss) ==
  /\ \A i \in DOMAIN f.alerts :
       LET id == LastNamed(al, f.alerts[i].name)
       IN  id # 0 /\ al[id].body = f.alerts[i].body
  /\ \A p \in Places(f) :
       LET m  == At(f, p)
           id == LastNamed(ss, m.name)
       IN  /\ id # 0 /\ Says(m, ss[id], ParentOf(f, p, ss))
           /\ m.alert # NoName => LastNamed(al, m.alert) # 0
           /\ ss[id].alert = IF m.alert = NoName THEN 0 ELSE LastNamed(al, m.alert)
  /\ prune => /\ Unlisted(ss, collectMonitorNames(f)) = {}
              /\ Unlisted(al, NamesOf(f.alerts)) = {}
Quiet(r) ==
  /\ \A i \in DOMAIN r.sites : RowShape(r.sites[i])
  /\ r.phase \in {"working", "done"} /\ r.changes = {}
  /\ Fixed(r.file, r.prune, r.alerts, r.sites)
  /\ r.todo \subseteq Work(r.file, r.prune, r)
  /\ r.alertMap = [n \in NamesOf(r.alerts) |-> LastNamed(r.alerts, n)]
  /\ GroupsDone(r.file, r.todo, r.groupMap, r.sites)
FixedInv ==
  (/\ prev.phase = "done" /\ ~prev.dry /\ SameRequest
   /\ Safe(run.file, run.prune) /\ run.phase # "idle") => Quiet(run)
-----------------------------------------------------------------------------
(* What a run answers, told from the file and the snapshot (A its alerts, S *)
(* its sites) alone.                                                       *)

\* Does a row that holds ref point to the row that is called n?
Points(ref, n, t) == n \in NamesOf(t) /\ ref = LastNamed(t, n)

Differs(f, A, S, p) ==
  LET m   == At(f, p)
      row == S[LastNamed(S, m.name)]
  IN  ~ /\ row.kind = m.kind /\ Normal(row.body) = Normal(m.body)
        /\ row.dns = m.dns /\ row.paused = m.paused
        /\ IF m.alert = NoName THEN row.alert = 0 ELSE Points(row.alert, m.alert, A)
        /\ IF p[2] = 0 THEN row.parent = 0
                       ELSE Points(row.parent, At(f, <<p[1], 0>>).name, S)

AlertGives(a, A) ==
  IF LastNamed(A, a.name) = 0 THEN {Note("create", "alert", a.name)}
  ELSE IF A[LastNamed(A, a.name)].body # a.body THEN {Note("update", "alert", a.name)}
  ELSE {}
SiteGives(f, A, S, p) ==
  IF LastNamed(S, At(f, p).name) = 0 THEN {Note("create", "monitor", At(f, p).name)}
  ELSE IF Differs(f, A, S, p) THEN {Note("update", "monitor", At(f, p).name)} ELSE {}
Gives(f, A, S, x) ==
  IF x[1] = AlertStage THEN AlertGives(f.alerts[x[2]], A)
  ELSE IF x[1] = SitePrune THEN {Note("delete", "monitor", S[x[2]].name)}
  ELSE IF x[1] = AlertPrune THEN {Note("delete", "alert", A[x[2]].name)}
  ELSE SiteGives(f, A, S, <<x[2], x[3]>>)

StuckItems(f, A) ==
  {ItemOf(f, p) : p \in {o \in Places(f) :
     At(f, o).alert \notin NamesOf(A) \cup NamesOf(f.alerts) \cup {NoName}}}

\* W is the work of the run and todo what is left of it.
Progress(f, A, S, W, todo, changes) ==
  /\ changes = UNION {Gives(f, A, S, x) : x \in W \ todo}
  /\ \A x \in W \ todo : x \notin StuckItems(f, A)
  /\ \A x \in W \ todo, y \in W \cap todo : Before(x, y)

\* The map leads to the snapshot's alerts, and where it leads to an alert of the
\* run's own, no row of the snapshot points.
MapPlan(al, A, S, todo, map) ==
  /\ NamesOf(A) \subseteq DOMAIN map /\ DOMAIN map \subseteq NamesOf(A) \cup NamesOf(al)
  /\ \A i \in DOMAIN al : AlertItem(i) \notin todo => al[i].name \in DOMAIN map
  /\ \A n \in DOMAIN map :
       IF n \in NamesOf(A) THEN map[n] = LastNamed(A, n)
                           ELSE \A j \in DOMAIN S : S[j].alert # map[n]
GroupPlan(f, S, todo, gmap) ==
  \A p \in Places(f) :
    (StageOf(f, p) = GroupStage /\ ItemOf(f, p) \notin todo) =>
      LET n == At(f, p).name IN
      /\ n \in DOMAIN gmap
      /\ IF n \in NamesOf(S) THEN gmap[n] = LastNamed(S, n)
                             ELSE \A j \in DOMAIN S : S[j].parent # gmap[n]

\* The ids the run gives out, as long as it may, are not those the snapshot's
\* rows refer to.
Early(todo) == \E x \in todo : x[1] \in {1, 2, 3, 4}
IdPlan(dry, S, todo, ph, la, ls) ==
  /\ ph \in Int /\ ph < 0
  /\ \A i \in DOMAIN S : S[i].alert \in Nat /\ S[i].parent \in Nat
  /\ ~dry /\ Early(todo) => \A i \in DOMAIN S : S[i].alert <= la /\ S[i].parent <= ls

Planned(r, d) ==
  /\ \A i \in DOMAIN r.sites : RowShape(r.sites[i])
  /\ Progress(r.file, r.alerts, r.sites, Work(r.file, r.prune, r), r.todo, r.changes)
  /\ MapPlan(r.file.alerts, r.alerts, r.sites, r.todo, r.alertMap)
  /\ GroupPlan(r.file, r.sites, r.todo, r.groupMap)
  /\ IdPlan(r.dry, r.sites, r.todo, r.placeholder, d.lastAlert, d.lastSite)

\* The end of a run: r has the snapshot.
Stopped(f, A, todo, phase) ==
  \/ phase = "done" /\ todo = {}
  \/ /\ phase = "failed"
     /\ \E x \in todo \cap StuckItems(f, A) : \A y \in todo \ {x} : Before(x, y)
Answer(f, prune, r, phase, changes) ==
  \/ ~Validate(f) /\ phase = "failed" /\ changes = {}
  \/ /\ Validate(f)
     /\ \E todo : /\ Progress(f, r.alerts, r.sites, Work(f, prune, r), todo, changes)
                  /\ Stopped(f, r.alerts, todo, phase)

\* A dry run leaves the database as it was, so the real one takes the same
\* snapshot.
DryInv ==
  /\ run.phase # "idle" => Shaped(run) /\ FileMade(run.file)
  /\ Underway /\ run.fresh => Planned(run, db)
  /\ run.phase \in {"done", "failed"} /\ run.fresh
       => Answer(run.file, run.prune, run, run.phase, run.changes)
  /\ run.dry /\ run.phase \in {"working", "done", "failed"}
       => /\ run.alerts = db.alerts /\ run.sites = db.sites
          /\ run.fresh = IdsUnused(db)
  /\ (/\ prev.phase \in {"done", "failed"} /\ prev.dry /\ SameRequest /\ run.fresh
      /\ run.phase # "idle")
       => Answer(run.file, run.prune, run, prev.phase, prev.changes)

RoundInv == run.exported /\ run.sound /\ run.phase # "idle" => Quiet(run)
-----------------------------------------------------------------------------
(* The newest row with a name.                                             *)

\* A table whose ids are bounded, as a sequence's are.
Bounded(t) == \E m \in Nat : DOMAIN t \subseteq 1..m

LEMMA Largest ==
  ASSUME NEW m \in Nat, NEW S \in SUBSET (1..m), S # {}
  PROVE  \E x \in S : \A y \in S : y <= x
<1>. DEFINE T == {m - x : x \in S}
<1>1. T \subseteq Nat /\ T # {}
  <2>1. \A x \in S : x \in 1..m /\ m - x \in Nat
    OBVIOUS
  <2>. QED BY <2>1
<1>2. PICK z \in T : \A y \in T : <<y, z>> \notin OpToRel(<, Nat)
  BY <1>1, NatLessThanWellFounded, WFMin
<1>3. PICK x \in S : z = m - x
  BY <1>2
<1>4. ASSUME NEW y \in S PROVE y <= x
  <2>1. m - y \in T /\ ~ (m - y < m - x)
    BY <1>2, <1>3, <1>1 DEF OpToRel
  <2>. QED BY <2>1
<1>. QED BY <1>4

LEMMA Newest ==
  ASSUME NEW t, Bounded(t), NEW n
  PROVE  /\ n \notin NamesOf(t) => LastNamed(t, n) = 0
         /\ n \in NamesOf(t) => /\ LastNamed(t, n) \in DOMAIN t
                                /\ t[LastNamed(t, n)].name = n
                                /\ \A i \in DOMAIN t : t[i].name = n => i <= LastNamed(t, n)
         /\ LastNamed(t, n) = 0 \/ LastNamed(t, n) \in Nat \ {0}
<1>. DEFINE ids == {i \in DOMAIN t : t[i].name = n}
<1>1. PICK m \in Nat : DOMAIN t \subseteq 1..m
  BY DEF Bounded
<1>2. CASE ids = {}
  <2>1. n \notin NamesOf(t)
    BY <1>2 DEF NamesOf
  <2>2. LastNamed(t, n) = 0
    BY <1>2 DEF LastNamed
  <2>. QED BY <2>1, <2>2
<1>3. CASE ids # {}
  <2>1. \E x \in ids : \A y \in ids : y <= x
    BY <1>1, <1>3, Largest
  <2>2. LastNamed(t, n) = CHOOSE i \in ids : \A j \in ids : j <= i
    BY <1>3 DEF LastNamed
  <2>3. LastNamed(t, n) \in ids /\ \A j \in ids : j <= LastNamed(t, n)
    BY <2>1, <2>2
  <2>4. n \in NamesOf(t)
    BY <1>3 DEF NamesOf
  <2>. HIDE DEF ids
  <2>5. /\ LastNamed(t, n) \in DOMAIN t /\ t[LastNamed(t, n)].name = n
        /\ \A i \in DOMAIN t : t[i].name = n => i <= LastNamed(t, n)
    BY <2>3 DEF ids
  <2>. QED BY <2>4, <2>5, <1>1
<1>. QED BY <1>2, <1>3

\* It is known by being named so and newest.
LEMMA LastIs ==
  ASSUME NEW t, Bounded(t), NEW id \in DOMAIN t, NEW n, t[id].name = n,
         \A i \in DOMAIN t : t[i].name = n => i <= id
  PROVE  LastNamed(t, n) = id
<1>1. n \in NamesOf(t)
  BY DEF NamesOf
<1>2. /\ LastNamed(t, n) \in DOMAIN t /\ t[LastNamed(t, n)].name = n
      /\ id <= LastNamed(t, n)
  BY <1>1, Newest
<1>3. LastNamed(t, n) <= id
  BY <1>2
<1>. QED BY <1>2, <1>3 DEF Bounded

\* It depends on the ids of the rows with the name only.
LEMMA LastSame ==
  ASSUME NEW t, NEW u, NEW n,
         {i \in DOMAIN t : t[i].name = n} = {i \in DOMAIN u : u[i].name = n}
  PROVE  LastNamed(t, n) = LastNamed(u, n)
<1>. DEFINE S == {i \in DOMAIN t : t[i].name = n}
            NewestOf(I) == IF I = {} THEN 0 ELSE CHOOSE i \in I : \A j \in I : j <= i
<1>1. LastNamed(t, n) = NewestOf(S)
  BY DEF LastNamed
<1>2. LastNamed(u, n) = NewestOf({i \in DOMAIN u : u[i].name = n})
  BY DEF LastNamed
<1>. HIDE DEF NewestOf
<1>. QED BY <1>1, <1>2

\* A table to which a newest row is added ...
LEMMA LastAdded ==
  ASSUME NEW t, NEW k \in Nat \ {0}, \A i \in DOMAIN t : i \in 1..k /\ i # k, NEW row,
         NEW u, DOMAIN u = DOMAIN t \cup {k}, u[k] = row, \A i \in DOMAIN t : u[i] = t[i]
  PROVE  /\ LastNamed(u, row.name) = k
         /\ \A n : n # row.name => LastNamed(u, n) = LastNamed(t, n)
<1>1. DOMAIN u \subseteq 1..k /\ k \in DOMAIN u /\ k \notin DOMAIN t
  OBVIOUS
<1>2. Bounded(u)
  BY <1>1 DEF Bounded
<1>3. LastNamed(u, row.name) = k
  <2>1. \A i \in DOMAIN u : i <= k
    BY <1>1
  <2>. QED BY <1>1, <1>2, <2>1, LastIs
<1>4. ASSUME NEW n, n # row.name
      PROVE  LastNamed(u, n) = LastNamed(t, n)
  BY <1>1, <1>4, LastSame
<1>. QED BY <1>3, <1>4

\* ... or whose rows keep their names.
LEMMA LastKept ==
  ASSUME NEW t, NEW u, DOMAIN t = DOMAIN u, \A i \in DOMAIN t : t[i].name = u[i].name
  PROVE  \A n : LastNamed(t, n) = LastNamed(u, n)
BY LastSame
-----------------------------------------------------------------------------
(* What the store's methods do to tables they have made.                   *)

\* Rows that differ in their token at most.
Alike(a, b) ==
  /\ a.name = b.name /\ a.kind = b.kind /\ a.body = b.body /\ a.dns = b.dns
  /\ a.alert = b.alert /\ a.parent = b.parent /\ a.paused = b.paused

SitesMade(t, m) ==
  /\ m \in Nat /\ DOMAIN t \subseteq 1..m
  /\ t = [i \in DOMAIN t |-> t[i]] /\ \A i \in DOMAIN t : RowShape(t[i])
AlertsMade(t, m) ==
  /\ m \in Nat /\ DOMAIN t \subseteq 1..m
  /\ t = [i \in DOMAIN t |-> t[i]]
  /\ \A i \in DOMAIN t : t[i] = [name |-> t[i].name, body |-> t[i].body]

LEMMA MadeParts ==
  ASSUME NEW d
  PROVE  TablesMade(d) <=> /\ IsDb(d)
                           /\ SitesMade(d.sites, d.lastSite)
                           /\ AlertsMade(d.alerts, d.lastAlert)
<1>1. ASSUME TablesMade(d)
      PROVE  SitesMade(d.sites, d.lastSite) /\ AlertsMade(d.alerts, d.lastAlert)
  <2>1. \A i \in DOMAIN d.sites : RowShape(d.sites[i])
    BY <1>1 DEF TablesMade, RowShape
  <2>2. \A i \in DOMAIN d.alerts :
          d.alerts[i] = [name |-> d.alerts[i].name, body |-> d.alerts[i].body]
    BY <1>1 DEF TablesMade
  <2>3. d.sites = [i \in DOMAIN d.sites |-> d.sites[i]]
    BY <1>1 DEF TablesMade
  <2>4. d.alerts = [i \in DOMAIN d.alerts |-> d.alerts[i]]
    BY <1>1 DEF TablesMade
  <2>. QED BY <2>1, <2>2, <2>3, <2>4, <1>1 DEF TablesMade, SitesMade, AlertsMade
<1>2. ASSUME IsDb(d), SitesMade(d.sites, d.lastSite), AlertsMade(d.alerts, d.lastAlert)
      PROVE  TablesMade(d)
  BY <1>2 DEF TablesMade, SitesMade, AlertsMade, RowShape
<1>. QED BY <1>1, <1>2 DEF TablesMade

\* The token is all that is changed in a row on its way.
LEMMA TokenedRow ==
  ASSUME NEW d, NEW row, RowShape(row), NEW k
  PROVE  LET new == Tokened(d, [row EXCEPT !.token = k]).row
         IN  RowShape(new) /\ Alike(new, row)
BY DEF Tokened, RowShape, Alike

LEMMA WithMade ==
  ASSUME NEW t, NEW m, SitesMade(t, m), NEW row, RowShape(row)
  PROVE  SitesMade(With(t, m + 1, row), m + 1)
BY DEF SitesMade, With

LEMMA AddSiteDone ==
  ASSUME NEW d, TablesMade(d), NEW row, RowShape(row)
  PROVE  LET e == AddSite(d, row)
         IN  /\ TablesMade(e) /\ e.alerts = d.alerts /\ e.lastAlert = d.lastAlert
             /\ e.lastSite = d.lastSite + 1
             /\ \E new : /\ Alike(new, row)
                         /\ e.sites = With(d.sites, d.lastSite + 1, new)
<1>. DEFINE e   == AddSite(d, row)
            tok == Tokened(d, [row EXCEPT !.token = 0])
            new == With(d.sites, d.lastSite + 1, tok.row)
            next == d.lastSite + 1
<1>2. RowShape(tok.row) /\ Alike(tok.row, row)
  BY TokenedRow
<1>a. e = [d EXCEPT !.sites = new, !.lastSite = next, !.tokens = tok.tokens]
  BY DEF AddSite
<1>. HIDE DEF e, tok, new, next
<1>b. IsDb(e) /\ e.alerts = d.alerts /\ e.lastAlert = d.lastAlert
      /\ e.lastSite = next /\ e.sites = new
  BY <1>a DEF TablesMade, IsDb
<1>1. /\ IsDb(e) /\ e.alerts = d.alerts /\ e.lastAlert = d.lastAlert
      /\ e.lastSite = d.lastSite + 1
      /\ e.sites = With(d.sites, d.lastSite + 1, tok.row)
  BY <1>b DEF new, next
<1>3. SitesMade(e.sites, e.lastSite) /\ AlertsMade(e.alerts, e.lastAlert)
  BY <1>1, <1>2, MadeParts, WithMade
<1>. QED BY <1>1, <1>2, <1>3, MadeParts DEF e

LEMMA UpdateSiteDone ==
  ASSUME NEW d, TablesMade(d), NEW row, RowShape(row), NEW id \in DOMAIN d.sites
  PROVE  LET e == UpdateSite(d, id, row)
         IN  /\ TablesMade(e) /\ e.alerts = d.alerts /\ e.lastAlert = d.lastAlert
             /\ e.lastSite = d.lastSite
             /\ \E new : /\ Alike(new, row)
                         /\ e.sites = [d.sites EXCEPT ![id] = new]
<1>. DEFINE e   == UpdateSite(d, id, row)
            tok == Tokened(d, [row EXCEPT !.token = d.sites[id].token])
<1>1. /\ IsDb(e) /\ e.alerts = d.alerts /\ e.lastAlert = d.lastAlert
      /\ e.lastSite = d.lastSite
      /\ e.sites = [d.sites EXCEPT ![id] = tok.row]
  BY DEF UpdateSite, WriteRow, ReadForUpdate, StoredToken, TablesMade, IsDb
<1>2. RowShape(tok.row) /\ Alike(tok.row, row)
  BY TokenedRow
<1>. HIDE DEF e, tok
<1>3. SitesMade(e.sites, e.lastSite)
  BY <1>1, <1>2, MadeParts DEF SitesMade
<1>4. AlertsMade(e.alerts, e.lastAlert)
  BY <1>1, MadeParts
<1>. QED BY <1>1, <1>2, <1>3, <1>4, MadeParts DEF e

LEMMA DeleteSiteDone ==
  ASSUME NEW d, TablesMade(d), NEW id
  PROVE  LET e == DeleteSite(d, id)
         IN  /\ TablesMade(e) /\ e.alerts = d.alerts /\ e.lastAlert = d.lastAlert
             /\ e.sites = Without(d.sites, id)
<1>. DEFINE e    == DeleteSite(d, id)
            rest == Without(d.sites, id)
            last == IF rest = <<>> THEN 0 ELSE d.lastSite
<1>2. SitesMade(rest, d.lastSite)
  BY MadeParts DEF SitesMade, Without
<1>. HIDE DEF rest
<1>a. e = [d EXCEPT !.sites = rest, !.windows = @ \ {id}, !.history = @ \ {id},
                    !.lastSite = last]
  BY DEF DeleteSite, rest
<1>b. SitesMade(rest, last)
  <2>1. rest = <<>> => DOMAIN rest = {}
    OBVIOUS
  <2>. QED BY <2>1, <1>2 DEF SitesMade
<1>. HIDE DEF e, last
<1>1. /\ IsDb(e) /\ e.alerts = d.alerts /\ e.lastAlert = d.lastAlert
      /\ e.lastSite = last /\ e.sites = rest
  BY <1>a DEF TablesMade, IsDb
<1>3. SitesMade(e.sites, e.lastSite) /\ AlertsMade(e.alerts, e.lastAlert)
  BY <1>1, <1>b, MadeParts
<1>. QED BY <1>1, <1>3, MadeParts DEF e, rest

LEMMA AddAlertDone ==
  ASSUME NEW d, TablesMade(d), NEW n, NEW b
  PROVE  LET e == AddAlert(d, [name |-> n, body |-> b])
         IN  /\ TablesMade(e) /\ e.sites = d.sites /\ e.lastSite = d.lastSite
             /\ e.lastAlert = d.lastAlert + 1
             /\ e.alerts = With(d.alerts, d.lastAlert + 1, [name |-> n, body |-> b])
<1>. DEFINE e == AddAlert(d, [name |-> n, body |-> b])
            row == [name |-> n, body |-> b]
            new == With(d.alerts, d.lastAlert + 1, row)
            next == d.lastAlert + 1
<1>a. e = [d EXCEPT !.alerts = new, !.lastAlert = next]
  BY DEF AddAlert
<1>b. AlertsMade(new, next)
  <2>1. AlertsMade(d.alerts, d.lastAlert)
    BY MadeParts
  <2>2. row = [name |-> row.name, body |-> row.body]
    OBVIOUS
  <2>. HIDE DEF row
  <2>3. /\ DOMAIN new = DOMAIN d.alerts \cup {next} /\ new = [i \in DOMAIN new |-> new[i]]
        /\ \A i \in DOMAIN new : new[i] = IF i = next THEN row ELSE d.alerts[i]
    BY DEF With
  <2>. HIDE DEF new
  <2>4. \A i \in DOMAIN new : new[i] = [name |-> new[i].name, body |-> new[i].body]
    BY <2>1, <2>2, <2>3 DEF AlertsMade
  <2>. QED BY <2>1, <2>3, <2>4 DEF AlertsMade
<1>. HIDE DEF e, new, next, row
<1>c. /\ IsDb(e) /\ e.sites = d.sites /\ e.lastSite = d.lastSite
      /\ e.lastAlert = next /\ e.alerts = new
  BY <1>a DEF TablesMade, IsDb
<1>1. /\ IsDb(e) /\ e.sites = d.sites /\ e.lastSite = d.lastSite
      /\ e.lastAlert = d.lastAlert + 1
      /\ e.alerts = With(d.alerts, d.lastAlert + 1, [name |-> n, body |-> b])
  BY <1>c DEF next, new, row
<1>2. AlertsMade(e.alerts, e.lastAlert)
  BY <1>b, <1>c
<1>3. SitesMade(e.sites, e.lastSite)
  BY <1>1, MadeParts
<1>. QED BY <1>1, <1>2, <1>3, MadeParts DEF e

LEMMA UpdateAlertDone ==
  ASSUME NEW d, TablesMade(d), NEW n, NEW b, NEW id \in DOMAIN d.alerts
  PROVE  LET e == UpdateAlert(d, id, [name |-> n, body |-> b])
         IN  /\ TablesMade(e) /\ e.sites = d.sites /\ e.lastSite = d.lastSite
             /\ e.lastAlert = d.lastAlert
             /\ e.alerts = [d.alerts EXCEPT ![id] = [name |-> n, body |-> b]]
<1>. DEFINE e == UpdateAlert(d, id, [name |-> n, body |-> b])
<1>1. /\ IsDb(e) /\ e.sites = d.sites /\ e.lastSite = d.lastSite
      /\ e.lastAlert = d.lastAlert
      /\ e.alerts = [d.alerts EXCEPT ![id] = [name |-> n, body |-> b]]
  BY DEF UpdateAlert, TablesMade, IsDb
<1>. HIDE DEF e
<1>2. AlertsMade(e.alerts, e.lastAlert)
  <2>. DEFINE row == [name |-> n, body |-> b]
              new == [d.alerts EXCEPT ![id] = row]
  <2>1. AlertsMade(d.alerts, d.lastAlert)
    BY MadeParts
  <2>2. row = [name |-> row.name, body |-> row.body]
    OBVIOUS
  <2>. HIDE DEF row
  <2>3. /\ DOMAIN new = DOMAIN d.alerts /\ new = [i \in DOMAIN new |-> new[i]]
        /\ \A i \in DOMAIN new : new[i] = IF i = id THEN row ELSE d.alerts[i]
    OBVIOUS
  <2>. HIDE DEF new
  <2>4. \A i \in DOMAIN new : new[i] = [name |-> new[i].name, body |-> new[i].body]
    BY <2>1, <2>2, <2>3 DEF AlertsMade
  <2>5. AlertsMade(new, d.lastAlert)
    BY <2>1, <2>3, <2>4 DEF AlertsMade
  <2>. QED BY <1>1, <2>5 DEF new, row
<1>3. SitesMade(e.sites, e.lastSite)
  BY <1>1, MadeParts
<1>. QED BY <1>1, <1>2, <1>3, MadeParts DEF e

LEMMA ReleaseAlertDone ==
  ASSUME NEW d, TablesMade(d), NEW id
  PROVE  LET e == ReleaseAlert(d, id)
         IN  /\ TablesMade(e) /\ e.alerts = d.alerts /\ e.lastAlert = d.lastAlert
             /\ e.lastSite = d.lastSite
             /\ DOMAIN e.sites = DOMAIN d.sites
             /\ \A i \in DOMAIN d.sites :
                  e.sites[i] = IF d.sites[i].alert = id
                               THEN [d.sites[i] EXCEPT !.alert = 0] ELSE d.sites[i]
<1>. DEFINE e == ReleaseAlert(d, id)
            new(i) == IF d.sites[i].alert = id
                      THEN [d.sites[i] EXCEPT !.alert = 0] ELSE d.sites[i]
<1>1. /\ IsDb(e) /\ e.alerts = d.alerts /\ e.lastAlert = d.lastAlert
      /\ e.lastSite = d.lastSite
      /\ e.sites = [i \in DOMAIN d.sites |-> new(i)]
  <2>. DEFINE ss == [i \in DOMAIN d.sites |-> new(i)]
  <2>1. IsDb(d)
    BY DEF TablesMade
  <2>2. e = [d EXCEPT !.sites = ss]
    BY <2>1 DEF ReleaseAlert, IsDb
  <2>. HIDE DEF e, ss
  <2>3. /\ IsDb(e) /\ e.alerts = d.alerts /\ e.lastAlert = d.lastAlert
        /\ e.lastSite = d.lastSite /\ e.sites = ss
    BY ONLY <2>1, <2>2 DEF IsDb
  <2>. QED BY ONLY <2>3 DEF ss
<1>2. \A i \in DOMAIN d.sites : RowShape(new(i))
  BY MadeParts DEF SitesMade, RowShape
<1>. HIDE DEF e, new
<1>3. SitesMade(e.sites, e.lastSite)
  BY <1>1, <1>2, MadeParts DEF SitesMade
<1>4. AlertsMade(e.alerts, e.lastAlert)
  BY <1>1, MadeParts
<1>. QED BY <1>1, <1>3, <1>4, MadeParts DEF e, new

LEMMA DropAlertDone ==
  ASSUME NEW d, TablesMade(d), NEW id
  PROVE  LET e == DropAlert(d, id)
         IN  /\ TablesMade(e) /\ e.sites = d.sites /\ e.lastSite = d.lastSite
             /\ e.alerts = Without(d.alerts, id)
<1>. DEFINE e    == DropAlert(d, id)
            rest == Without(d.alerts, id)
            last == IF rest = <<>> THEN 0 ELSE d.lastAlert
<1>2. AlertsMade(rest, d.lastAlert)
  <2>1. AlertsMade(d.alerts, d.lastAlert)
    BY MadeParts
  <2>2. DOMAIN rest = DOMAIN d.alerts \ {id} /\ rest = [i \in DOMAIN rest |-> rest[i]]
        /\ \A i \in DOMAIN rest : rest[i] = d.alerts[i]
    BY DEF Without
  <2>. HIDE DEF rest
  <2>3. \A i \in DOMAIN rest : rest[i] = [name |-> rest[i].name, body |-> rest[i].body]
    BY <2>1, <2>2 DEF AlertsMade
  <2>. QED BY <2>1, <2>2, <2>3 DEF AlertsMade
<1>. HIDE DEF rest
<1>a. e = [d EXCEPT !.alerts = rest, !.lastAlert = last]
  BY DEF DropAlert, rest
<1>b. AlertsMade(rest, last)
  <2>1. rest = <<>> => DOMAIN rest = {}
    OBVIOUS
  <2>. QED BY <2>1, <1>2 DEF AlertsMade
<1>. HIDE DEF e, last
<1>1. /\ IsDb(e) /\ e.sites = d.sites /\ e.lastSite = d.lastSite
      /\ e.lastAlert = last /\ e.alerts = rest
  BY <1>a DEF TablesMade, IsDb
<1>3. AlertsMade(e.alerts, e.lastAlert)
  BY <1>1, <1>b
<1>4. SitesMade(e.sites, e.lastSite)
  BY <1>1, MadeParts
<1>. QED BY <1>1, <1>3, <1>4, MadeParts DEF e, rest
-----------------------------------------------------------------------------
(* What an item does to the run.                                           *)

Kept(r, q) ==
  /\ Shaped(q) /\ q.phase = r.phase /\ q.file = r.file /\ q.dry = r.dry
  /\ q.prune = r.prune /\ q.exported = r.exported /\ q.sound = r.sound
  /\ q.fresh = r.fresh /\ q.alerts = r.alerts /\ q.sites = r.sites

LEMMA OnwardRun ==
  ASSUME NEW r, Shaped(r), NEW x, NEW c, NEW q, q = Onward(r, x, c)
  PROVE  /\ Kept(r, q) /\ q.todo = r.todo \ {x} /\ q.changes = r.changes \cup c
         /\ q.alertMap = r.alertMap /\ q.groupMap = r.groupMap
         /\ q.placeholder = r.placeholder /\ (c = {} => q.changes = r.changes)
<1>1. r.changes \cup {} = r.changes
  OBVIOUS
<1>. QED BY <1>1 DEF Shaped, Onward, Kept, Fields

LEMMA RunTodo ==
  ASSUME NEW r, Shaped(r), NEW S, NEW q, q = [r EXCEPT !.todo = S]
  PROVE  /\ Kept(r, q) /\ q.todo = S /\ q.changes = r.changes
         /\ q.alertMap = r.alertMap /\ q.groupMap = r.groupMap
         /\ q.placeholder = r.placeholder
BY DEF Shaped, Kept, Fields

LEMMA KeptTwice ==
  ASSUME NEW a, NEW b, NEW c, Kept(a, b), Kept(b, c)
  PROVE  Kept(a, c)
BY DEF Kept

LEMMA AlertRun ==
  ASSUME NEW r, Shaped(r), NEW d, NEW i, NEW x, x = AlertItem(i),
         NEW a, a = r.file.alerts[i], NEW old, old = LastNamed(r.alerts, a.name),
         NEW row, row = [name |-> a.name, body |-> a.body],
         NEW q, q = ApplyAlert(r, d, x).run, NEW e, e = ApplyAlert(r, d, x).db
  PROVE  /\ Kept(r, q) /\ q.todo = r.todo \ {x} /\ q.groupMap = r.groupMap
         /\ old = 0 =>
              /\ q.alertMap = With(r.alertMap, a.name,
                                IF r.dry THEN r.placeholder ELSE d.lastAlert + 1)
              /\ q.placeholder = IF r.dry THEN r.placeholder - 1 ELSE r.placeholder
              /\ q.changes = r.changes \cup {Note("create", "alert", a.name)}
              /\ e = IF r.dry THEN d ELSE AddAlert(d, row)
         /\ old # 0 =>
              /\ q.alertMap = r.alertMap /\ q.placeholder = r.placeholder
              /\ r.alerts[old].body # a.body =>
                   /\ q.changes = r.changes \cup {Note("update", "alert", a.name)}
                   /\ e = IF r.dry THEN d ELSE UpdateAlert(d, old, row)
              /\ r.alerts[old].body = a.body => q.changes = r.changes /\ e = d
<1>. DEFINE new == IF r.dry THEN r.placeholder ELSE d.lastAlert + 1
            ph  == IF r.dry THEN r.placeholder - 1 ELSE r.placeholder
            created == Onward(r, x, {Note("create", "alert", a.name)})
            am  == With(r.alertMap, a.name, new)
<1>1. x[2] = i /\ row.body = a.body /\ (diffAlert(r.alerts[old], row) <=> r.alerts[old].body # a.body)
  BY DEF AlertItem, diffAlert
<1>2. /\ Kept(r, created) /\ created.todo = r.todo \ {x} /\ created.groupMap = r.groupMap
      /\ created.changes = r.changes \cup {Note("create", "alert", a.name)}
      /\ created.alertMap = r.alertMap /\ created.placeholder = r.placeholder
  BY OnwardRun
<1>3. CASE old = 0
  <2>1. /\ q = [created EXCEPT !.alertMap = With(@, a.name, new),
                                   !.placeholder = IF r.dry THEN @ - 1 ELSE @]
        /\ e = IF r.dry THEN d ELSE AddAlert(d, row)
    BY <1>1, <1>3 DEF ApplyAlert
  <2>. HIDE DEF created, new
  <2>2. q = [created EXCEPT !.alertMap = am, !.placeholder = ph]
    BY <2>1, <1>2 DEF Kept, Shaped, Fields
  <2>. HIDE DEF am, ph
  <2>3. /\ Kept(created, q) /\ q.todo = created.todo
        /\ q.changes = created.changes
        /\ q.alertMap = am /\ q.groupMap = created.groupMap
        /\ q.placeholder = ph
    <3>1. Shaped(created)
      BY <1>2 DEF Kept
    <3>. QED BY <3>1, <2>2 DEF Shaped, Kept, Fields
  <2>. QED BY <1>2, <1>3, <2>1, <2>3, KeptTwice DEF am, ph, new
<1>4. CASE old # 0 /\ r.alerts[old].body # a.body
  <2>1. /\ q = Onward(r, x, {Note("update", "alert", a.name)})
        /\ e = IF r.dry THEN d ELSE UpdateAlert(d, old, row)
    BY <1>1, <1>4 DEF ApplyAlert
  <2>2. /\ Kept(r, q) /\ q.todo = r.todo \ {x} /\ q.groupMap = r.groupMap
        /\ q.changes = r.changes \cup {Note("update", "alert", a.name)}
        /\ q.alertMap = r.alertMap /\ q.placeholder = r.placeholder
    BY ONLY Shaped(r), <2>1, OnwardRun
  <2>. QED BY <2>1, <2>2, <1>4
<1>5. CASE old # 0 /\ r.alerts[old].body = a.body
  <2>1. q = Onward(r, x, {}) /\ e = d
    BY <1>1, <1>5 DEF ApplyAlert
  <2>2. /\ Kept(r, q) /\ q.todo = r.todo \ {x} /\ q.groupMap = r.groupMap
        /\ q.changes = r.changes
        /\ q.alertMap = r.alertMap /\ q.placeholder = r.placeholder
    BY ONLY Shaped(r), <2>1, OnwardRun
  <2>. QED BY <2>1, <2>2, <1>5
<1>. QED BY <1>3, <1>4, <1>5

\* A monitor: `old' is its row's id in the snapshot.
LEMMA SiteRun ==
  ASSUME NEW r, Shaped(r), NEW d, NEW x, NEW m, m = Monitor(r, x),
         NEW row, row = Wanted(r, x), NEW old, old = LastNamed(r.sites, m.name),
         NEW new, new = IF r.dry THEN r.placeholder ELSE d.lastSite + 1,
         NEW q, q = applyMonitor(r, d, x).run, NEW e, e = applyMonitor(r, d, x).db
  PROVE  /\ Kept(r, q) /\ q.todo = r.todo \ {x} /\ q.alertMap = r.alertMap
         /\ q.groupMap = IF x[1] = GroupStage
                         THEN With(r.groupMap, m.name, IF old = 0 THEN new ELSE old)
                         ELSE r.groupMap
         /\ q.placeholder = IF x[1] = GroupStage /\ r.dry /\ old = 0
                            THEN r.placeholder - 1 ELSE r.placeholder
         /\ old = 0 =>
              /\ q.changes = r.changes \cup {Note("create", "monitor", m.name)}
              /\ e = IF r.dry THEN d ELSE AddSite(d, row)
         /\ old # 0 /\ diffSite(r.sites[old], row) =>
              /\ q.changes = r.changes \cup {Note("update", "monitor", m.name)}
              /\ e = IF r.dry THEN d ELSE UpdateSite(d, old, row)
         /\ old # 0 /\ ~diffSite(r.sites[old], row) => q.changes = r.changes /\ e = d
<1>. DEFINE id  == IF old = 0 THEN new ELSE old
            change == IF old = 0 THEN {Note("create", "monitor", m.name)}
                      ELSE IF diffSite(r.sites[old], row)
                      THEN {Note("update", "monitor", m.name)} ELSE {}
            on  == Onward(r, x, change)
            gm  == IF x[1] = GroupStage THEN With(r.groupMap, m.name, id) ELSE r.groupMap
            ph  == IF x[1] = GroupStage /\ r.dry /\ old = 0
                   THEN r.placeholder - 1 ELSE r.placeholder
<1>1. /\ Kept(r, on) /\ on.todo = r.todo \ {x} /\ on.changes = r.changes \cup change
      /\ on.alertMap = r.alertMap /\ on.groupMap = r.groupMap
      /\ on.placeholder = r.placeholder /\ (change = {} => on.changes = r.changes)
  <2>. HIDE DEF change
  <2>. QED BY OnwardRun
<1>2. /\ q = [on EXCEPT
           !.groupMap = IF x[1] = GroupStage THEN With(@, m.name, id) ELSE @,
           !.placeholder = IF x[1] = GroupStage /\ r.dry /\ old = 0 THEN @ - 1 ELSE @]
      /\ e = IF r.dry \/ change = {} THEN d
                ELSE IF old = 0 THEN AddSite(d, row) ELSE UpdateSite(d, old, row)
  BY DEF applyMonitor
<1>. HIDE DEF on, id
<1>3. q = [on EXCEPT !.groupMap = gm, !.placeholder = ph]
  <2>. HIDE DEF change
  <2>. QED BY <1>1, <1>2 DEF Kept, Shaped, Fields
<1>4. Shaped(on)
  BY <1>1 DEF Kept
<1>5. /\ Kept(on, q) /\ q.todo = on.todo /\ q.changes = on.changes
      /\ q.alertMap = on.alertMap /\ q.groupMap = gm /\ q.placeholder = ph
  <2>. HIDE DEF gm, ph, change
  <2>. QED BY <1>3, <1>4 DEF Shaped, Kept, Fields
<1>6. Kept(r, q)
  BY <1>1, <1>5, KeptTwice
<1>7. (change = {}) <=> (old # 0 /\ ~diffSite(r.sites[old], row))
  OBVIOUS
<1>8. q.groupMap = gm /\ gm = IF x[1] = GroupStage
                                 THEN With(r.groupMap, m.name, IF old = 0 THEN new ELSE old)
                                 ELSE r.groupMap
  BY <1>5 DEF id
<1>. HIDE DEF gm
<1>9. CASE old = 0
  <2>1. change = {Note("create", "monitor", m.name)}
    BY <1>9
  <2>. HIDE DEF change
  <2>. QED BY <1>1, <1>2, <1>5, <1>6, <1>7, <1>8, <1>9, <2>1
<1>10. CASE old # 0 /\ diffSite(r.sites[old], row)
  <2>1. change = {Note("update", "monitor", m.name)}
    BY <1>10
  <2>. HIDE DEF change
  <2>. QED BY <1>1, <1>2, <1>5, <1>6, <1>7, <1>8, <1>10, <2>1
<1>11. CASE old # 0 /\ ~diffSite(r.sites[old], row)
  <2>. HIDE DEF change
  <2>. QED BY <1>1, <1>2, <1>5, <1>6, <1>7, <1>8, <1>11
<1>. QED BY <1>9, <1>10, <1>11

LEMMA PruneSiteRun ==
  ASSUME NEW r, Shaped(r), NEW d, NEW x,
         NEW q, q = pruneSite(r, d, x).run, NEW e, e = pruneSite(r, d, x).db
  PROVE  /\ Kept(r, q) /\ q.todo = r.todo \ {x} /\ q.alertMap = r.alertMap
         /\ q.groupMap = r.groupMap /\ q.placeholder = r.placeholder
         /\ q.changes = r.changes \cup
              {Note("delete", "monitor", r.sites[x[2]].name)}
         /\ e = IF r.dry THEN d ELSE DeleteSite(d, x[2])
<1>1. /\ q = Onward(r, x, {Note("delete", "monitor", r.sites[x[2]].name)})
      /\ e = IF r.dry THEN d ELSE DeleteSite(d, x[2])
  BY DEF pruneSite
<1>. QED BY <1>1, OnwardRun

LEMMA PruneAlertRun ==
  ASSUME NEW r, Shaped(r), NEW d, NEW x,
         NEW q, q = pruneAlert(r, d, x).run, NEW e, e = pruneAlert(r, d, x).db
  PROVE  /\ Kept(r, q) /\ q.alertMap = r.alertMap
         /\ q.groupMap = r.groupMap /\ q.placeholder = r.placeholder
         /\ q.changes = r.changes \cup
              {Note("delete", "alert", r.alerts[x[2]].name)}
         /\ r.dry => q.todo = r.todo \ {x} /\ e = d
         /\ ~r.dry => /\ q.todo = (r.todo \ {x}) \cup {Drop(x[2])}
                      /\ e = ReleaseAlert(d, x[2])
<1>. DEFINE on == Onward(r, x, {Note("delete", "alert", r.alerts[x[2]].name)})
            td == (r.todo \ {x}) \cup {Drop(x[2])}
<1>1. /\ Kept(r, on) /\ on.todo = r.todo \ {x} /\ on.alertMap = r.alertMap
      /\ on.groupMap = r.groupMap /\ on.placeholder = r.placeholder
      /\ on.changes = r.changes \cup {Note("delete", "alert", r.alerts[x[2]].name)}
  BY OnwardRun
<1>2. CASE r.dry
  <2>1. q = on /\ e = d
    BY <1>2 DEF pruneAlert
  <2>. QED BY <1>1, <1>2, <2>1
<1>3. CASE ~r.dry
  <2>1. /\ q = [on EXCEPT !.todo = @ \cup {<<AlertPrune, x[2], 1>>}]
        /\ e = ReleaseAlert(d, x[2])
    BY <1>3 DEF pruneAlert
  <2>. HIDE DEF on
  <2>2. q = [on EXCEPT !.todo = td] /\ Shaped(on)
    BY <1>1, <2>1 DEF Kept, Shaped, Fields, Drop
  <2>. HIDE DEF td
  <2>3. /\ Kept(on, q) /\ q.todo = td /\ q.changes = on.changes
        /\ q.alertMap = on.alertMap /\ q.groupMap = on.groupMap
        /\ q.placeholder = on.placeholder
    BY <2>2 DEF Shaped, Kept, Fields
  <2>4. Kept(r, q)
    BY <1>1, <2>3, KeptTwice
  <2>. QED BY <1>1, <1>3, <2>1, <2>3, <2>4 DEF td
<1>. QED BY <1>2, <1>3

LEMMA DropRun ==
  ASSUME NEW r, Shaped(r), NEW d, NEW x,
         NEW q, q = dropAlert(r, d, x).run, NEW e, e = dropAlert(r, d, x).db
  PROVE  /\ Kept(r, q) /\ q.todo = r.todo \ {x} /\ q.alertMap = r.alertMap
         /\ q.groupMap = r.groupMap /\ q.placeholder = r.placeholder
         /\ q.changes = r.changes /\ e = DropAlert(d, x[2])
<1>1. q = Onward(r, x, {}) /\ e = DropAlert(d, x[2])
  BY DEF dropAlert
<1>. QED BY <1>1, OnwardRun
-----------------------------------------------------------------------------
(* What can be to do, and in which order.                                  *)

LEMMA PlaceShape ==
  ASSUME NEW f, NEW p \in Places(f)
  PROVE  /\ p = <<p[1], p[2]>>
         /\ p[1] \in DOMAIN f.monitors /\ <<p[1], 0>> \in Places(f)
         /\ p[2] # 0 => p[2] \in DOMAIN f.monitors[p[1]].monitors
BY DEF Places

LEMMA ItemKinds ==
  ASSUME NEW r, TodoOk(r), NEW x \in r.todo
  PROVE  \/ \E i \in DOMAIN r.file.alerts : x = AlertItem(i)
         \/ \E p \in Places(r.file) : x = ItemOf(r.file, p)
         \/ r.prune /\ \E id \in Unlisted(r.sites, collectMonitorNames(r.file)) :
                         x = <<SitePrune, id, 0>>
         \/ r.prune /\ \E id \in Unlisted(r.alerts, NamesOf(r.file.alerts)) :
                         x = <<AlertPrune, id, 0>>
         \/ r.prune /\ \E id \in Unlisted(r.alerts, NamesOf(r.file.alerts)) : x = Drop(id)
BY DEF TodoOk, Work, AlertItem

LEMMA ItemParts ==
  ASSUME NEW f, NEW p \in Places(f)
  PROVE  /\ p = <<p[1], p[2]>>
         /\ ItemOf(f, p) = <<StageOf(f, p), p[1], p[2]>>
         /\ ItemOf(f, p)[1] = StageOf(f, p) /\ ItemOf(f, p)[2] = p[1]
         /\ ItemOf(f, p)[3] = p[2] /\ <<ItemOf(f, p)[2], ItemOf(f, p)[3]>> = p
<1>1. p = <<p[1], p[2]>>
  BY PlaceShape
<1>. QED BY <1>1 DEF ItemOf

LEMMA StageIs ==
  ASSUME NEW f, NEW p \in Places(f)
  PROVE  /\ StageOf(f, p) \in {GroupStage, ChildStage, OtherStage}
         /\ StageOf(f, p) \in {2, 3, 4}
         /\ StageOf(f, p) = ChildStage <=> p[2] # 0
         /\ StageOf(f, p) = GroupStage <=> p[2] = 0 /\ At(f, p).kind = "group"
BY DEF StageOf, GroupStage, ChildStage, OtherStage

LEMMA MonitorIs ==
  ASSUME NEW r, NEW p \in Places(r.file)
  PROVE  Monitor(r, ItemOf(r.file, p)) = At(r.file, p)
BY ItemParts DEF Monitor

\* Items of different kinds or places differ.
LEMMA ItemsDiffer ==
  ASSUME NEW f, NEW p \in Places(f)
  PROVE  /\ \A q \in Places(f) : ItemOf(f, q) = ItemOf(f, p) => q = p
         /\ \A i : ItemOf(f, p) # AlertItem(i)
         /\ \A i : ItemOf(f, p) # <<SitePrune, i, 0>>
         /\ \A i : ItemOf(f, p) # <<AlertPrune, i, 0>>
         /\ \A i : ItemOf(f, p) # Drop(i)
<1>1. ASSUME NEW q \in Places(f), ItemOf(f, q) = ItemOf(f, p) PROVE q = p
  BY <1>1, ItemParts
<1>2. ItemOf(f, p)[1] \in {2, 3, 4}
  BY StageIs, ItemParts
<1>3. \A i : /\ AlertItem(i)[1] = 1 /\ <<SitePrune, i, 0>>[1] = 5
             /\ <<AlertPrune, i, 0>>[1] = 6 /\ Drop(i)[1] = 6
  BY DEF AlertItem, Drop, AlertStage, SitePrune, AlertPrune
<1>. QED BY <1>1, <1>2, <1>3

LEMMA OthersDiffer ==
  ASSUME NEW i, NEW j
  PROVE  /\ AlertItem(i) = AlertItem(j) => i = j
         /\ <<SitePrune, i, 0>> = <<SitePrune, j, 0>> => i = j
         /\ <<AlertPrune, i, 0>> = <<AlertPrune, j, 0>> => i = j
         /\ Drop(i) = Drop(j) => i = j
         /\ AlertItem(i) \notin {<<SitePrune, j, 0>>, <<AlertPrune, j, 0>>, Drop(j)}
         /\ <<SitePrune, i, 0>> \notin {<<AlertPrune, j, 0>>, Drop(j)}
         /\ <<AlertPrune, i, 0>> # Drop(j)
BY DEF AlertItem, Drop, AlertStage, SitePrune, AlertPrune

LEMMA Outcomes ==
  ASSUME NEW r, NEW d
  PROVE  /\ \A i : Outcome(r, d, AlertItem(i)) = ApplyAlert(r, d, AlertItem(i))
         /\ \A p \in Places(r.file) :
              Outcome(r, d, ItemOf(r.file, p)) = applyMonitor(r, d, ItemOf(r.file, p))
         /\ \A i : Outcome(r, d, <<SitePrune, i, 0>>) = pruneSite(r, d, <<SitePrune, i, 0>>)
         /\ \A i : Outcome(r, d, <<AlertPrune, i, 0>>) = pruneAlert(r, d, <<AlertPrune, i, 0>>)
         /\ \A i : Outcome(r, d, Drop(i)) = dropAlert(r, d, Drop(i))
<1>. USE DEF AlertStage, GroupStage, ChildStage, OtherStage, SitePrune, AlertPrune
<1>1. ASSUME NEW i PROVE Outcome(r, d, AlertItem(i)) = ApplyAlert(r, d, AlertItem(i))
  BY DEF Outcome, AlertItem
<1>2. ASSUME NEW p \in Places(r.file)
      PROVE  Outcome(r, d, ItemOf(r.file, p)) = applyMonitor(r, d, ItemOf(r.file, p))
  <2>. DEFINE x == ItemOf(r.file, p)
  <2>1. /\ x[1] \in {GroupStage, ChildStage, OtherStage} /\ x[1] # AlertStage
        /\ x[1] # SitePrune /\ x[1] # AlertPrune
    BY ItemParts, StageIs
  <2>. HIDE DEF x, AlertStage, GroupStage, ChildStage, OtherStage, SitePrune, AlertPrune
  <2>2. Outcome(r, d, x) = applyMonitor(r, d, x)
    BY <2>1 DEF Outcome
  <2>. QED BY <2>2 DEF x
<1>3. ASSUME NEW i
      PROVE  Outcome(r, d, <<SitePrune, i, 0>>) = pruneSite(r, d, <<SitePrune, i, 0>>)
  BY DEF Outcome
<1>4. ASSUME NEW i
      PROVE  Outcome(r, d, <<AlertPrune, i, 0>>) = pruneAlert(r, d, <<AlertPrune, i, 0>>)
  BY DEF Outcome
<1>5. ASSUME NEW i PROVE Outcome(r, d, Drop(i)) = dropAlert(r, d, Drop(i))
  BY DEF Outcome, Drop
<1>. QED BY <1>1, <1>2, <1>3, <1>4, <1>5

\* The first item's stage is the earliest there is.
LEMMA FirstStage ==
  ASSUME NEW r, NEW x, First(r, x), NEW y \in r.todo, NEW a \in Nat, NEW b \in Nat,
         x[1] = a, y[1] = b
  PROVE  a <= b
BY DEF First, Before
-----------------------------------------------------------------------------
(* A real run: what one item leaves as it was.                             *)

\* What a table with one row more, one other row or one row less has kept.
LEMMA TableAdded ==
  ASSUME NEW t, NEW k \in Nat \ {0}, \A i \in DOMAIN t : i \in 1..k /\ i # k,
         NEW row, LastNamed(t, row.name) = 0,
         NEW u, DOMAIN u = DOMAIN t \cup {k}, u[k] = row, \A i \in DOMAIN t : u[i] = t[i]
  PROVE  /\ LastNamed(u, row.name) = k
         /\ \A n : n # row.name => SameRow(u, t, n)
         /\ \A i \in DOMAIN u \ DOMAIN t : u[i].name = row.name
         /\ Unique(t) => Unique(u)
<1>1. /\ LastNamed(u, row.name) = k
      /\ \A n : n # row.name => LastNamed(u, n) = LastNamed(t, n)
  BY LastAdded
<1>2. Bounded(t)
  BY DEF Bounded
<1>3. \A n : LastNamed(t, n) # 0 => LastNamed(t, n) \in DOMAIN t
  BY <1>2, Newest
<1>4. \A i \in DOMAIN t : t[i].name # row.name
  BY <1>2, Newest DEF NamesOf
<1>. QED BY <1>1, <1>3, <1>4 DEF SameRow, Unique

LEMMA TableReplaced ==
  ASSUME NEW t, Bounded(t), NEW row, NEW k, k = LastNamed(t, row.name), k # 0,
         NEW u, DOMAIN u = DOMAIN t, u[k] = row, \A i \in DOMAIN t : i # k => u[i] = t[i]
  PROVE  /\ LastNamed(u, row.name) = k
         /\ \A n : n # row.name => SameRow(u, t, n)
         /\ \A i \in DOMAIN t : u[i].name = t[i].name
         /\ Unique(t) => Unique(u)
<1>1. k \in DOMAIN t /\ t[k].name = row.name
  BY Newest
<1>2. \A i \in DOMAIN t : u[i].name = t[i].name
  BY <1>1
<1>3. \A n : LastNamed(u, n) = LastNamed(t, n)
  BY <1>2, LastKept
<1>4. \A n : LastNamed(t, n) # 0 => t[LastNamed(t, n)].name = n /\ LastNamed(t, n) \in DOMAIN t
  BY Newest
<1>5. \A n : n # row.name => SameRow(u, t, n)
  BY <1>1, <1>3, <1>4 DEF SameRow
<1>6. Unique(t) => Unique(u)
  BY <1>2 DEF Unique
<1>. QED BY <1>2, <1>3, <1>5, <1>6

LEMMA TableLess ==
  ASSUME NEW t, Bounded(t), NEW k \in DOMAIN t,
         NEW u, DOMAIN u = DOMAIN t \ {k}, \A i \in DOMAIN u : u[i] = t[i]
  PROVE  /\ \A n : n # t[k].name => SameRow(u, t, n)
         /\ Unique(t) => Unique(u)
<1>1. ASSUME NEW n, n # t[k].name
      PROVE  LastNamed(u, n) = LastNamed(t, n)
  BY <1>1, LastSame
<1>2. \A n : LastNamed(t, n) # 0 => t[LastNamed(t, n)].name = n /\ LastNamed(t, n) \in DOMAIN t
  BY Newest
<1>. QED BY <1>1, <1>2 DEF SameRow, Unique

\* The same items of one half are to do.
SameAlerts(todo, rest) ==
  /\ \A i : AlertItem(i) \in rest <=> AlertItem(i) \in todo
  /\ \A id : /\ <<AlertPrune, id, 0>> \in rest <=> <<AlertPrune, id, 0>> \in todo
             /\ Drop(id) \in rest <=> Drop(id) \in todo
SameSites(f, todo, rest) ==
  /\ \A p \in Places(f) : ItemOf(f, p) \in rest <=> ItemOf(f, p) \in todo
  /\ \A id : <<SitePrune, id, 0>> \in rest <=> <<SitePrune, id, 0>> \in todo

LEMMA AlertsAlone ==
  ASSUME NEW al, NEW prune, NEW old, NEW todo, NEW map, NEW t,
         AlertsInv(al, prune, old, todo, map, t), NEW rest, SameAlerts(todo, rest)
  PROVE  AlertsInv(al, prune, old, rest, map, t)
BY DEF SameAlerts, AlertsInv, AlertsPending, AlertsDone, AlertsLeft, AlertsGone

LEMMA SitesAlone ==
  ASSUME NEW f, NEW prune, NEW old, NEW todo, NEW map, NEW gmap, NEW t,
         SitesInv(f, prune, old, todo, map, gmap, t), NEW rest, SameSites(f, todo, rest),
         NEW more, \A n \in DOMAIN map : n \in DOMAIN more /\ more[n] = map[n]
  PROVE  SitesInv(f, prune, old, rest, more, gmap, t)
<1>. USE DEF SameSites
<1>1. SitesDone(f, Safe(f, prune), rest, more, t)
  <2>. SUFFICES ASSUME NEW p \in Places(f), ItemOf(f, p) \notin rest
                PROVE  /\ LastNamed(t, At(f, p).name) # 0
                       /\ Agrees(At(f, p), more, Safe(f, prune),
                                 t[LastNamed(t, At(f, p).name)], ParentOf(f, p, t))
                       /\ p[2] # 0 => ItemOf(f, <<p[1], 0>>) \notin rest
    BY DEF SitesDone
  <2>1. /\ LastNamed(t, At(f, p).name) # 0
        /\ Agrees(At(f, p), map, Safe(f, prune),
                  t[LastNamed(t, At(f, p).name)], ParentOf(f, p, t))
        /\ p[2] # 0 => ItemOf(f, <<p[1], 0>>) \notin todo
    BY DEF SitesInv, SitesDone
  <2>2. \A m, row, parent : Agrees(m, map, Safe(f, prune), row, parent)
                              => Agrees(m, more, Safe(f, prune), row, parent)
    BY DEF Agrees, AlertOf
  <2>. QED BY <2>1, <2>2, PlaceShape
<1>. QED BY <1>1 DEF SitesInv, SitesPending, GroupsDone, SitesLeft, SitesGone

LEMMA WorkKept ==
  ASSUME NEW r, NEW q, Kept(r, q)
  PROVE  Work(q.file, q.prune, q) = Work(r.file, r.prune, r)
BY DEF Kept, Work

LEMMA TodoLess ==
  ASSUME NEW r, TodoOk(r), NEW q, Kept(r, q), q.todo \subseteq r.todo
  PROVE  TodoOk(q)
BY WorkKept DEF TodoOk, Kept
-----------------------------------------------------------------------------
(* A real run: the items of the alerts.                                    *)

\* Alert i is now in the table u, under its name and with the id k.
LEMMA AlertsStep ==
  ASSUME NEW al, Unique(al), NEW prune, NEW old, NEW todo, NEW map, NEW t, Bounded(t),
         AlertsInv(al, prune, old, todo, map, t),
         NEW i \in DOMAIN al, NEW n, n = al[i].name,
         NEW rest, rest = todo \ {AlertItem(i)},
         NEW k, k # 0, NEW u, LastNamed(u, n) = k, u[k].body = al[i].body,
         \A l : l # n => SameRow(u, t, l),
         \A j \in DOMAIN t : j \in DOMAIN u /\ u[j].name = t[j].name,
         \A j \in DOMAIN u \ DOMAIN t : u[j].name = n,
         NEW more,
         \/ LastNamed(t, n) = 0 /\ more = With(map, n, k)
         \/ LastNamed(t, n) = k /\ more = map
  PROVE  /\ AlertsInv(al, prune, old, rest, more, u)
         /\ \A l \in DOMAIN map : l \in DOMAIN more /\ more[l] = map[l]
<1>1. \A j \in DOMAIN al : j # i => al[j].name # n
  BY DEF Unique
<1>2. /\ \A j : AlertItem(j) \in rest <=> AlertItem(j) \in todo /\ j # i
      /\ \A id : /\ <<AlertPrune, id, 0>> \in rest <=> <<AlertPrune, id, 0>> \in todo
                 /\ Drop(id) \in rest <=> Drop(id) \in todo
  BY OthersDiffer
<1>3. n \in NamesOf(al)
  BY DEF NamesOf
<1>4. AlertsPending(al, old, rest, u)
  BY <1>1, <1>2 DEF AlertsInv, AlertsPending, SameRow
<1>5. AlertsDone(al, rest, u)
  <2>. SUFFICES ASSUME NEW j \in DOMAIN al, AlertItem(j) \notin rest
                PROVE  /\ LastNamed(u, al[j].name) # 0
                       /\ u[LastNamed(u, al[j].name)].body = al[j].body
    BY DEF AlertsDone
  <2>1. CASE j # i
    <3>1. AlertItem(j) \notin todo /\ al[j].name # n
      BY <1>1, <1>2, <2>1
    <3>. DEFINE l == al[j].name
    <3>2. LastNamed(t, l) # 0 /\ t[LastNamed(t, l)].body = al[j].body /\ SameRow(u, t, l)
      BY <3>1 DEF AlertsInv, AlertsDone
    <3>. QED BY <3>2 DEF SameRow
  <2>. QED BY <2>1
<1>6. NamesOf(u) \subseteq NamesOf(t) \cup {n}
  BY DEF NamesOf
<1>7. MapTrue(al, prune, map, t)
  BY DEF AlertsInv
<1>8. /\ MapTrue(al, prune, more, u)
      /\ \A l \in DOMAIN map : l \in DOMAIN more /\ more[l] = map[l]
  <2>1. CASE LastNamed(t, n) = 0 /\ more = With(map, n, k)
    <3>1. n \notin DOMAIN map
      BY <1>3, <1>7, <2>1 DEF MapTrue
    <3>2. /\ DOMAIN more = DOMAIN map \cup {n} /\ more[n] = k
          /\ \A l \in DOMAIN map : more[l] = map[l]
      BY <2>1, <3>1 DEF With
    <3>3. MapTrue(al, prune, more, u)
      BY <1>6, <1>7, <3>1, <3>2 DEF MapTrue, SameRow
    <3>. QED BY <3>2, <3>3
  <2>2. CASE LastNamed(t, n) = k /\ more = map
    <3>1. n \in NamesOf(t)
      BY <2>2, Newest
    <3>2. MapTrue(al, prune, more, u)
      BY <1>6, <1>7, <2>2, <3>1 DEF MapTrue, SameRow
    <3>. QED BY <2>2, <3>2
  <2>. QED BY <2>1, <2>2
<1>9. Unlisted(u, NamesOf(al)) = Unlisted(t, NamesOf(al))
  BY <1>3 DEF Unlisted
<1>10. AlertsLeft(al, rest, u)
  BY <1>2, <1>9 DEF AlertsInv, AlertsLeft
<1>11. AlertsGone(al, prune, rest, u)
  BY <1>2, <1>9 DEF AlertsInv, AlertsGone
<1>. QED BY <1>4, <1>5, <1>8, <1>10, <1>11 DEF AlertsInv

\* What a step of a real run keeps.
Goes(r, d, q, e) ==
  /\ Kept(r, q) /\ TablesMade(e) /\ RealInv(q, e)
  /\ Unique(d.sites) => Unique(e.sites)
  /\ Unique(d.alerts) => Unique(e.alerts)

LEMMA AlertDone ==
  ASSUME NEW r, Shaped(r), ~r.dry, Unique(r.file.alerts), NEW d, TablesMade(d),
         RealInv(r, d), NEW al, al = r.file.alerts, NEW i \in DOMAIN al,
         NEW x, x = AlertItem(i), x \in r.todo,
         NEW q, q = ApplyAlert(r, d, x).run, NEW e, e = ApplyAlert(r, d, x).db
  PROVE  Goes(r, d, q, e)
<1>. DEFINE a   == al[i]
            old == LastNamed(r.alerts, a.name)
            row == [name |-> a.name, body |-> a.body]
            t   == d.alerts
            u   == e.alerts
            k   == IF old = 0 THEN d.lastAlert + 1 ELSE old
<1>0. row.name = a.name /\ row.body = a.body
  OBVIOUS
<1>1. /\ Kept(r, q) /\ q.todo = r.todo \ {x} /\ q.groupMap = r.groupMap
      /\ old = 0 => /\ q.alertMap = With(r.alertMap, a.name, d.lastAlert + 1)
                    /\ e = AddAlert(d, row)
      /\ old # 0 => /\ q.alertMap = r.alertMap
                    /\ r.alerts[old].body # a.body => e = UpdateAlert(d, old, row)
                    /\ r.alerts[old].body = a.body => e = d
  BY AlertRun
<1>2. AlertsInv(al, r.prune, r.alerts, r.todo, r.alertMap, t)
  BY DEF RealInv
<1>3. /\ Bounded(t) /\ d.lastAlert + 1 \in Nat \ {0}
      /\ \A j \in DOMAIN t : j \in 1..(d.lastAlert + 1) /\ j # d.lastAlert + 1
  BY DEF Bounded, TablesMade
<1>4. LastNamed(t, a.name) = old /\ (old # 0 => t[old] = r.alerts[old])
  BY <1>2 DEF AlertsInv, AlertsPending, SameRow
<1>5. old # 0 => old \in DOMAIN t /\ t[old].name = a.name
  BY <1>3, <1>4, Newest
\* The table of alerts after the step.
<1>6. /\ TablesMade(e) /\ e.sites = d.sites
      /\ LastNamed(u, a.name) = k /\ k # 0 /\ u[k].body = a.body
      /\ \A l : l # a.name => SameRow(u, t, l)
      /\ \A j \in DOMAIN t : j \in DOMAIN u /\ u[j].name = t[j].name
      /\ \A j \in DOMAIN u \ DOMAIN t : u[j].name = a.name
      /\ Unique(t) => Unique(u)
  <2>1. CASE old = 0
    <3>. DEFINE m == d.lastAlert + 1
    <3>1. TablesMade(e) /\ e.sites = d.sites /\ u = With(t, m, row)
      <4>1. e = AddAlert(d, [name |-> a.name, body |-> a.body])
        BY <1>1, <2>1
      <4>. HIDE DEF a
      <4>. QED BY ONLY <4>1, TablesMade(d), AddAlertDone
    <3>2. DOMAIN u = DOMAIN t \cup {m} /\ u[m] = row /\ \A j \in DOMAIN t : u[j] = t[j]
      BY <1>3, <3>1 DEF With
    <3>. HIDE DEF u, t, row, m
    <3>3. LastNamed(t, row.name) = 0
      BY <1>0, <1>4, <2>1
    <3>4. m \in Nat \ {0} /\ \A j \in DOMAIN t : j \in 1..m /\ j # m
      BY <1>3 DEF m
    <3>5. /\ LastNamed(u, row.name) = m
          /\ \A n : n # row.name => SameRow(u, t, n)
          /\ \A j \in DOMAIN u \ DOMAIN t : u[j].name = row.name
          /\ Unique(t) => Unique(u)
      BY <3>2, <3>3, <3>4, TableAdded
    <3>6. k = m /\ m # 0
      BY <2>1, <3>4 DEF m
    <3>. QED BY <1>0, <3>1, <3>2, <3>5, <3>6
  <2>2. CASE old # 0 /\ r.alerts[old].body # a.body
    <3>1. TablesMade(e) /\ e.sites = d.sites /\ u = [t EXCEPT ![old] = row]
      <4>1. e = UpdateAlert(d, old, [name |-> a.name, body |-> a.body])
        BY <1>1, <2>2
      <4>2. old \in DOMAIN d.alerts
        BY <1>5, <2>2
      <4>. HIDE DEF a, old
      <4>. QED BY ONLY <4>1, <4>2, TablesMade(d), UpdateAlertDone
    <3>2. DOMAIN u = DOMAIN t /\ u[old] = row /\ \A j \in DOMAIN t : j # old => u[j] = t[j]
      BY <1>5, <2>2, <3>1
    <3>. HIDE DEF u, t, row, old
    <3>3. /\ LastNamed(u, row.name) = old
          /\ \A n : n # row.name => SameRow(u, t, n)
          /\ \A j \in DOMAIN t : u[j].name = t[j].name
          /\ Unique(t) => Unique(u)
      BY <1>0, <1>3, <1>4, <2>2, <3>2, TableReplaced
    <3>. QED BY <1>0, <2>2, <3>1, <3>2, <3>3
  <2>3. CASE old # 0 /\ r.alerts[old].body = a.body
    <3>1. e = d
      BY <1>1, <2>3
    <3>. QED BY <1>4, <2>3, <3>1 DEF SameRow
  <2>. QED BY <2>1, <2>2, <2>3
<1>7. \/ LastNamed(t, a.name) = 0 /\ q.alertMap = With(r.alertMap, a.name, k)
      \/ LastNamed(t, a.name) = k /\ q.alertMap = r.alertMap
  BY <1>1, <1>4
<1>8. q.todo = r.todo \ {AlertItem(i)}
  BY <1>1
<1>. HIDE DEF u, t, k, old, row
<1>9. /\ AlertsInv(al, r.prune, r.alerts, q.todo, q.alertMap, u)
      /\ \A l \in DOMAIN r.alertMap : l \in DOMAIN q.alertMap /\ q.alertMap[l] = r.alertMap[l]
  <2>. DEFINE todo == r.todo
              rest == q.todo
              map  == r.alertMap
              more == q.alertMap
              n    == a.name
              body == a.body
              snap == r.alerts
              prune == r.prune
  <2>0. Unique(al)
    OBVIOUS
  <2>1. AlertsInv(al, prune, snap, todo, map, t) /\ rest = todo \ {AlertItem(i)}
    BY <1>2, <1>8
  <2>2. /\ LastNamed(u, n) = k /\ k # 0 /\ u[k].body = body
        /\ \A l : l # n => SameRow(u, t, l)
        /\ \A j \in DOMAIN t : j \in DOMAIN u /\ u[j].name = t[j].name
        /\ \A j \in DOMAIN u \ DOMAIN t : u[j].name = n
    BY <1>6
  <2>3. \/ LastNamed(t, n) = 0 /\ more = With(map, n, k)
        \/ LastNamed(t, n) = k /\ more = map
    BY <1>7
  <2>4. n = al[i].name /\ body = al[i].body
    OBVIOUS
  <2>. HIDE DEF todo, rest, map, more, n, body, snap, prune
  <2>5. /\ AlertsInv(al, prune, snap, rest, more, u)
        /\ \A l \in DOMAIN map : l \in DOMAIN more /\ more[l] = map[l]
    BY ONLY i \in DOMAIN al, <1>3, <2>0, <2>1, <2>2, <2>3, <2>4, AlertsStep
  <2>. QED BY <2>5 DEF todo, rest, map, more, n, snap, prune
<1>10. SameSites(r.file, r.todo, q.todo)
  BY <1>8, ItemsDiffer, OthersDiffer DEF SameSites
<1>11. SitesInv(r.file, r.prune, r.sites, r.todo, r.alertMap, r.groupMap, d.sites)
  BY DEF RealInv
<1>12. SitesInv(r.file, r.prune, r.sites, q.todo, q.alertMap, q.groupMap, e.sites)
  BY <1>1, <1>6, <1>9, <1>10, <1>11, SitesAlone
<1>13. TodoOk(q)
  BY <1>1, TodoLess DEF RealInv
<1>14. RealInv(q, e)
  BY <1>1, <1>9, <1>12, <1>13 DEF RealInv, Kept, u
<1>. QED BY <1>1, <1>6, <1>14 DEF Goes, u, t
-----------------------------------------------------------------------------
(* A real run: the items of the monitors.                                  *)

\* What is known of a file that has been validated.
Sane(f) ==
  /\ Unique(f.alerts)
  /\ \A p, q \in Places(f) : At(f, p).name = At(f, q).name => p = q
  /\ \A p \in Places(f) : p[2] # 0 => At(f, <<p[1], 0>>).kind = "group"

LEMMA ValidIsSane ==
  ASSUME NEW f, Validate(f)
  PROVE  Sane(f)
<1>1. ASSUME NEW p \in Places(f), p[2] # 0
      PROVE  At(f, <<p[1], 0>>).kind = "group"
  <2>. DEFINE g == <<p[1], 0>>
  <2>1. g \in Places(f) /\ p[2] \in DOMAIN f.monitors[p[1]].monitors
    BY <1>1, PlaceShape
  <2>2. At(f, g) = f.monitors[p[1]]
    BY DEF At
  <2>3. validateMonitor(At(f, g), g[2] # 0)
    BY <2>1 DEF Validate
  <2>4. At(f, g).monitors # <<>>
    BY <2>1, <2>2
  <2>. QED BY <2>3, <2>4 DEF validateMonitor
<1>. QED BY <1>1 DEF Validate, Sane

\* The group of a child is another place, of the group stage.
LEMMA GroupPlace ==
  ASSUME NEW f, Sane(f), NEW p \in Places(f), p[2] # 0
  PROVE  /\ <<p[1], 0>> \in Places(f) /\ <<p[1], 0>> # p
         /\ StageOf(f, <<p[1], 0>>) = GroupStage
         /\ At(f, <<p[1], 0>>).name # At(f, p).name
<1>. DEFINE g == <<p[1], 0>>
<1>1. g \in Places(f) /\ g[2] = 0 /\ g # p
  BY PlaceShape
<1>2. StageOf(f, g) = GroupStage
  BY <1>1 DEF Sane, StageOf
<1>. QED BY <1>1, <1>2 DEF Sane

\* The monitor at p is now in the table u, under its name and with the id k.
LEMMA SitesStep ==
  ASSUME NEW f, Sane(f), NEW prune, NEW old, NEW todo, NEW map, NEW gmap,
         NEW t, SitesInv(f, prune, old, todo, map, gmap, t),
         NEW p \in Places(f), ItemOf(f, p) \in todo, NEW n, n = At(f, p).name,
         p[2] # 0 => ItemOf(f, <<p[1], 0>>) \notin todo,
         NEW rest, rest = todo \ {ItemOf(f, p)},
         NEW k, k # 0, NEW u, LastNamed(u, n) = k,
         Agrees(At(f, p), map, Safe(f, prune), u[k], ParentOf(f, p, t)),
         \A l : l # n => SameRow(u, t, l),
         \A j \in DOMAIN t : j \in DOMAIN u /\ u[j].name = t[j].name,
         \A j \in DOMAIN u \ DOMAIN t : u[j].name = n,
         NEW gs, StageOf(f, p) = GroupStage => gs = With(gmap, n, k),
         StageOf(f, p) # GroupStage => gs = gmap
  PROVE  SitesInv(f, prune, old, rest, map, gs, u)
<1>1. \A q \in Places(f) : /\ q # p => At(f, q).name # n
                           /\ ItemOf(f, q) \in rest <=> ItemOf(f, q) \in todo /\ q # p
  BY ItemsDiffer DEF Sane
<1>2. \A id : <<SitePrune, id, 0>> \in rest <=> <<SitePrune, id, 0>> \in todo
  BY ItemsDiffer
<1>3. SitesPending(f, old, rest, u)
  BY <1>1 DEF SitesInv, SitesPending, SameRow
<1>4. SitesDone(f, Safe(f, prune), rest, map, u)
  <2>. SUFFICES ASSUME NEW q \in Places(f), ItemOf(f, q) \notin rest
                PROVE  /\ LastNamed(u, At(f, q).name) # 0
                       /\ Agrees(At(f, q), map, Safe(f, prune),
                                 u[LastNamed(u, At(f, q).name)], ParentOf(f, q, u))
                       /\ q[2] # 0 => ItemOf(f, <<q[1], 0>>) \notin rest
    BY DEF SitesDone
  <2>1. CASE q = p
    <3>1. ParentOf(f, p, u) = ParentOf(f, p, t)
      BY GroupPlace DEF ParentOf, SameRow
    <3>. QED BY <2>1, <3>1
  <2>2. CASE q # p
    <3>. DEFINE l == At(f, q).name
    <3>1. ItemOf(f, q) \notin todo /\ l # n
      BY <1>1, <2>2
    <3>2. /\ LastNamed(t, l) # 0
          /\ Agrees(At(f, q), map, Safe(f, prune), t[LastNamed(t, l)], ParentOf(f, q, t))
          /\ q[2] # 0 => ItemOf(f, <<q[1], 0>>) \notin todo
      BY <3>1 DEF SitesInv, SitesDone
    <3>3. LastNamed(u, l) = LastNamed(t, l) /\ u[LastNamed(u, l)] = t[LastNamed(t, l)]
      BY <3>1, <3>2 DEF SameRow
    <3>4. ParentOf(f, q, u) = ParentOf(f, q, t)
      <4>1. CASE q[2] # 0
        <5>1. <<q[1], 0>> \in Places(f) /\ <<q[1], 0>> # p
          BY <3>2, <4>1, GroupPlace
        <5>2. At(f, <<q[1], 0>>).name # n
          BY <1>1, <5>1
        <5>. QED BY <5>2 DEF ParentOf, SameRow
      <4>2. CASE q[2] = 0
        BY <4>2 DEF ParentOf
      <4>. QED BY <4>1, <4>2
    <3>. QED BY <3>2, <3>3, <3>4
  <2>. QED BY <2>1, <2>2
<1>5. GroupsDone(f, rest, gs, u)
  <2>. SUFFICES ASSUME NEW q \in Places(f), StageOf(f, q) = GroupStage, ItemOf(f, q) \notin rest
                PROVE  /\ At(f, q).name \in DOMAIN gs
                       /\ gs[At(f, q).name] = LastNamed(u, At(f, q).name)
    BY DEF GroupsDone
  <2>1. CASE q = p
    BY <2>1 DEF With
  <2>2. CASE q # p
    <3>. DEFINE l == At(f, q).name
    <3>1. ItemOf(f, q) \notin todo /\ l # n
      BY <1>1, <2>2
    <3>2. l \in DOMAIN gmap /\ gmap[l] = LastNamed(t, l)
      BY <3>1 DEF SitesInv, GroupsDone
    <3>3. LastNamed(u, l) = LastNamed(t, l)
      BY <3>1 DEF SameRow
    <3>4. l \in DOMAIN gs /\ gs[l] = gmap[l]
      BY <3>1, <3>2 DEF With
    <3>. QED BY <3>2, <3>3, <3>4
  <2>. QED BY <2>1, <2>2
<1>6. n \in collectMonitorNames(f)
  BY DEF collectMonitorNames
<1>7. Unlisted(u, collectMonitorNames(f)) = Unlisted(t, collectMonitorNames(f))
  BY <1>6 DEF Unlisted
<1>8. SitesLeft(f, rest, u)
  BY <1>2, <1>7 DEF SitesInv, SitesLeft
<1>9. SitesGone(f, prune, rest, u)
  BY <1>2, <1>7 DEF SitesInv, SitesGone
<1>. QED BY <1>3, <1>4, <1>5, <1>8, <1>9 DEF SitesInv
\* When a child is next, its group has been done.
LEMMA GroupFirst ==
  ASSUME NEW r, NEW f, f = r.file, Sane(f), NEW p \in Places(f), p[2] # 0,
         First(r, ItemOf(f, p))
  PROVE  ItemOf(f, <<p[1], 0>>) \notin r.todo
<1>. DEFINE g == <<p[1], 0>>
            x == ItemOf(f, p)
            y == ItemOf(f, g)
<1>1. g \in Places(f) /\ StageOf(f, g) = GroupStage /\ StageOf(f, p) = ChildStage
  BY GroupPlace, StageIs
<1>2. x[1] = 3 /\ y[1] = 2
  BY <1>1, ItemParts DEF GroupStage, ChildStage
<1>. HIDE DEF x, y
<1>3. x # y /\ ~Before(x, y)
  BY <1>2 DEF Before
<1>. QED BY <1>3 DEF First, x, y

LEMMA NormalTwice == \A body : Normal(Normal(body)) = Normal(body)
BY DEF Normal

LEMMA DiffersNot ==
  ASSUME NEW row, RowShape(row), NEW w
  PROVE  diffSite(row, w) <=> ~ (/\ row.kind = w.kind /\ Normal(row.body) = w.body
                                 /\ row.dns = w.dns /\ row.alert = w.alert
                                 /\ row.parent = w.parent /\ row.paused = w.paused)
<1>. DEFINE z == normalizeSite(row)
<1>1. /\ z["kind"] = row.kind /\ z["body"] = Normal(row.body) /\ z["dns"] = row.dns
      /\ z["alert"] = row.alert /\ z["parent"] = row.parent /\ z["paused"] = row.paused
  BY DEF normalizeSite, RowShape
<1>2. diffSite(row, w) <=> \E field \in {"kind", "body", "dns", "alert", "parent", "paused"} :
                             z[field] # w[field]
  BY DEF diffSite
<1>. HIDE DEF z
<1>3. diffSite(row, w) <=> \/ z["kind"] # w["kind"] \/ z["body"] # w["body"]
                           \/ z["dns"] # w["dns"] \/ z["alert"] # w["alert"]
                           \/ z["parent"] # w["parent"] \/ z["paused"] # w["paused"]
  BY <1>2
<1>. QED BY <1>1, <1>3

LEMMA WantedRow ==
  ASSUME NEW r, NEW f, f = r.file, NEW p \in Places(f), NEW x, x = ItemOf(f, p),
         NEW row, row = Wanted(r, x), NEW m, m = At(f, p)
  PROVE  /\ RowShape(row) /\ row.name = m.name /\ row.kind = m.kind
         /\ row.body = Normal(m.body) /\ row.dns = m.dns /\ row.paused = m.paused
         /\ row.alert = AlertOf(r.alertMap, m)
         /\ row.parent = IF p[2] # 0 THEN r.groupMap[At(f, <<p[1], 0>>).name] ELSE 0
<1>1. Monitor(r, x) = m /\ (x[1] = ChildStage <=> p[2] # 0) /\ x[2] = p[1]
  BY MonitorIs, ItemParts, StageIs
<1>. DEFINE parent == IF p[2] # 0 THEN r.groupMap[At(f, <<p[1], 0>>).name] ELSE 0
            alert == AlertOf(r.alertMap, m)
<1>2. resolveAlertID(r, m) = alert
  BY DEF resolveAlertID, AlertOf
<1>3. Wanted(r, x) = monitorToSite(m, alert, parent)
  BY <1>1, <1>2 DEF Wanted
<1>. HIDE DEF parent, alert
<1>4. row = [name |-> m.name, kind |-> m.kind, body |-> Normal(m.body), dns |-> m.dns,
             alert |-> alert, parent |-> parent, paused |-> m.paused, token |-> 0]
  BY <1>3 DEF monitorToSite
<1>5. /\ RowShape(row) /\ row.name = m.name /\ row.kind = m.kind
      /\ row.body = Normal(m.body) /\ row.dns = m.dns /\ row.paused = m.paused
      /\ row.alert = alert /\ row.parent = parent
  BY ONLY <1>4 DEF RowShape
<1>. QED BY <1>5 DEF alert, parent
LEMMA StuckNot ==
  ASSUME NEW r, NEW f, f = r.file, NEW p \in Places(f), NEW x, x = ItemOf(f, p),
         NEW m, m = At(f, p)
  PROVE  Stuck(r, x) <=> (m.alert # NoName /\ m.alert \notin DOMAIN r.alertMap)
<1>1. Monitor(r, x) = m /\ x[1] \in {GroupStage, ChildStage, OtherStage}
  BY MonitorIs, ItemParts, StageIs
<1>. QED BY <1>1 DEF Stuck, Unresolved

LEMMA SiteDone ==
  ASSUME NEW r, Shaped(r), ~r.dry, NEW f, f = r.file, Sane(f), NEW d, TablesMade(d),
         RealInv(r, d), NEW p \in Places(f), NEW x, x = ItemOf(f, p),
         First(r, x), ~Stuck(r, x),
         NEW q, q = applyMonitor(r, d, x).run, NEW e, e = applyMonitor(r, d, x).db
  PROVE  Goes(r, d, q, e)
<1>. DEFINE m    == At(f, p)
            n    == m.name
            row  == Wanted(r, x)
            old  == LastNamed(r.sites, n)
            t    == d.sites
            u    == e.sites
            k    == IF old = 0 THEN d.lastSite + 1 ELSE old
            todo == r.todo
            rest == q.todo
            map  == r.alertMap
            gmap == r.groupMap
            gs   == q.groupMap
            snap == r.sites
            prune == r.prune
<1>1. /\ Kept(r, q) /\ rest = todo \ {x} /\ q.alertMap = map
      /\ gs = IF x[1] = GroupStage THEN With(gmap, n, k) ELSE gmap
      /\ old = 0 => e = AddSite(d, row)
      /\ old # 0 /\ diffSite(r.sites[old], row) => e = UpdateSite(d, old, row)
      /\ old # 0 /\ ~diffSite(r.sites[old], row) => e = d
  <2>. DEFINE new == IF r.dry THEN r.placeholder ELSE d.lastSite + 1
  <2>1. Monitor(r, x) = m /\ new = d.lastSite + 1
    BY MonitorIs
  <2>2. /\ row = Wanted(r, x) /\ old = LastNamed(r.sites, n) /\ n = m.name
        /\ new = IF r.dry THEN r.placeholder ELSE d.lastSite + 1
    OBVIOUS
  <2>. HIDE DEF m, row, new, old, n
  <2>3. /\ Kept(r, q) /\ q.todo = r.todo \ {x} /\ q.alertMap = r.alertMap
        /\ q.groupMap = IF x[1] = GroupStage
                        THEN With(r.groupMap, n, IF old = 0 THEN new ELSE old)
                        ELSE r.groupMap
        /\ old = 0 => e = IF r.dry THEN d ELSE AddSite(d, row)
        /\ old # 0 /\ diffSite(r.sites[old], row)
             => e = IF r.dry THEN d ELSE UpdateSite(d, old, row)
        /\ old # 0 /\ ~diffSite(r.sites[old], row) => e = d
    BY ONLY Shaped(r), q = applyMonitor(r, d, x).run, e = applyMonitor(r, d, x).db,
            <2>1, <2>2, SiteRun
  <2>. QED BY <2>1, <2>3
<1>2. SitesInv(f, prune, snap, todo, map, gmap, t)
  BY DEF RealInv
<1>3. /\ Bounded(t) /\ SitesMade(t, d.lastSite) /\ d.lastSite + 1 \in Nat \ {0}
      /\ \A j \in DOMAIN t : j \in 1..(d.lastSite + 1) /\ j # d.lastSite + 1
  BY MadeParts DEF Bounded, SitesMade
<1>4. x \in todo /\ (p[2] # 0 => ItemOf(f, <<p[1], 0>>) \notin todo)
  BY GroupFirst DEF First
<1>5. LastNamed(t, n) = old /\ (old # 0 => t[old] = snap[old])
  BY <1>2, <1>4 DEF SitesInv, SitesPending, SameRow
<1>6. old # 0 => old \in DOMAIN t /\ t[old].name = n
  BY <1>3, <1>5, Newest
\* The row the file asks for, and what it says of the group.
<1>7. /\ RowShape(row) /\ row.name = n /\ row.kind = m.kind
      /\ row.body = Normal(m.body) /\ row.dns = m.dns /\ row.paused = m.paused
      /\ row.alert = AlertOf(map, m) /\ row.parent = ParentOf(f, p, t)
      /\ m.alert # NoName => m.alert \in DOMAIN map
  <2>. DEFINE l == At(f, <<p[1], 0>>).name
  <2>1. /\ RowShape(row) /\ row.name = n /\ row.kind = m.kind
        /\ row.body = Normal(m.body) /\ row.dns = m.dns /\ row.paused = m.paused
        /\ row.alert = AlertOf(map, m)
        /\ row.parent = IF p[2] # 0 THEN gmap[l] ELSE 0
    BY WantedRow
  <2>2. p[2] # 0 => gmap[l] = LastNamed(t, l)
    BY <1>2, <1>4, GroupPlace DEF SitesInv, GroupsDone
  <2>3. row.parent = ParentOf(f, p, t)
    BY <2>1, <2>2 DEF ParentOf
  <2>4. m.alert # NoName => m.alert \in DOMAIN map
    BY StuckNot
  <2>. HIDE DEF row, m, t
  <2>. QED BY <2>1, <2>3, <2>4
<1>8. \A new : Alike(new, row) => /\ new.name = n
                                  /\ Agrees(m, map, Safe(f, prune), new, ParentOf(f, p, t))
  <2>. HIDE DEF row, m, t, map, prune
  <2>. QED BY <1>7, NormalTwice DEF Alike, Agrees, Says, n
\* The table of monitors after the step.
<1>9. /\ TablesMade(e) /\ e.alerts = d.alerts
      /\ LastNamed(u, n) = k /\ k # 0
      /\ Agrees(m, map, Safe(f, prune), u[k], ParentOf(f, p, t))
      /\ \A l : l # n => SameRow(u, t, l)
      /\ \A j \in DOMAIN t : j \in DOMAIN u /\ u[j].name = t[j].name
      /\ \A j \in DOMAIN u \ DOMAIN t : u[j].name = n
      /\ Unique(t) => Unique(u)
  <2>1. CASE old = 0
    <3>. DEFINE id == d.lastSite + 1
    <3>1. PICK new : /\ TablesMade(e) /\ e.alerts = d.alerts
                     /\ Alike(new, row) /\ u = With(t, id, new)
      BY <1>1, <1>7, <2>1, AddSiteDone
    <3>2. DOMAIN u = DOMAIN t \cup {id} /\ u[id] = new /\ \A j \in DOMAIN t : u[j] = t[j]
      BY <1>3, <3>1 DEF With
    <3>3. new.name = n /\ Agrees(m, map, Safe(f, prune), new, ParentOf(f, p, t))
      BY <1>8, <3>1
    <3>4. id \in Nat \ {0} /\ \A j \in DOMAIN t : j \in 1..id /\ j # id
      BY <1>3
    <3>5. k = id /\ k # 0
      BY <2>1, <3>4
    <3>6. LastNamed(t, n) = 0
      BY <1>5, <2>1
    <3>7. TablesMade(e) /\ e.alerts = d.alerts
      BY <3>1
    <3>. HIDE DEF u, t, k, row, n, m, id, map, prune
    <3>8. /\ LastNamed(u, n) = id
          /\ \A l : l # n => SameRow(u, t, l)
          /\ \A j \in DOMAIN u \ DOMAIN t : u[j].name = n
          /\ Unique(t) => Unique(u)
      BY ONLY <3>2, <3>3, <3>4, <3>6, TableAdded
    <3>. QED BY ONLY <3>2, <3>3, <3>5, <3>7, <3>8
  <2>2. CASE old # 0 /\ diffSite(r.sites[old], row)
    <3>1. PICK new : /\ TablesMade(e) /\ e.alerts = d.alerts
                     /\ Alike(new, row) /\ u = [t EXCEPT ![old] = new]
      BY <1>1, <1>6, <1>7, <2>2, UpdateSiteDone
    <3>2. DOMAIN u = DOMAIN t /\ u[old] = new /\ \A j \in DOMAIN t : j # old => u[j] = t[j]
      BY <1>6, <2>2, <3>1
    <3>3. new.name = n /\ Agrees(m, map, Safe(f, prune), new, ParentOf(f, p, t))
      BY <1>8, <3>1
    <3>4. old # 0 /\ LastNamed(t, n) = old /\ Bounded(t) /\ k = old
      BY <1>3, <1>5, <2>2
    <3>5. TablesMade(e) /\ e.alerts = d.alerts
      BY <3>1
    <3>. HIDE DEF u, t, k, row, n, m, old, map, prune
    <3>6. /\ LastNamed(u, n) = old
          /\ \A l : l # n => SameRow(u, t, l)
          /\ \A j \in DOMAIN t : u[j].name = t[j].name
          /\ Unique(t) => Unique(u)
      BY ONLY <3>2, <3>3, <3>4, TableReplaced
    <3>. QED BY ONLY <3>2, <3>3, <3>4, <3>5, <3>6
  <2>3. CASE old # 0 /\ ~diffSite(r.sites[old], row)
    <3>1. e = d
      BY <1>1, <2>3
    <3>2. RowShape(t[old]) /\ t[old] = snap[old]
      BY <1>3, <1>5, <1>6, <2>3 DEF SitesMade
    <3>3. /\ t[old].kind = row.kind /\ Normal(t[old].body) = row.body
          /\ t[old].dns = row.dns /\ t[old].alert = row.alert
          /\ t[old].parent = row.parent /\ t[old].paused = row.paused
      <4>. HIDE DEF t, old, row
      <4>. QED BY <2>3, <3>2, DiffersNot
    <3>4. Agrees(m, map, Safe(f, prune), t[old], ParentOf(f, p, t))
      <4>. HIDE DEF t, old, row, m, map, prune
      <4>. QED BY <1>7, <3>3 DEF Agrees, Says
    <3>. QED BY <1>5, <2>3, <3>1, <3>4 DEF SameRow
  <2>. QED BY <2>1, <2>2, <2>3
<1>10. x[1] = GroupStage <=> StageOf(f, p) = GroupStage
  BY ItemParts
<1>11. AlertsInv(r.file.alerts, prune, r.alerts, todo, map, d.alerts)
  BY DEF RealInv
<1>12. SameAlerts(todo, rest)
  BY <1>1, ItemsDiffer DEF SameAlerts
<1>13. x = ItemOf(f, p) /\ n = At(f, p).name /\ rest = todo \ {x}
  BY <1>1
<1>. HIDE DEF u, t, k, old, row, todo, rest, map, gmap, gs, snap, prune, n
<1>14. SitesInv(f, prune, snap, rest, map, gs, u)
  <2>1. StageOf(f, p) = GroupStage => gs = With(gmap, n, k)
    BY <1>1, <1>10
  <2>2. StageOf(f, p) # GroupStage => gs = gmap
    BY <1>1, <1>10
  <2>3. Agrees(At(f, p), map, Safe(f, prune), u[k], ParentOf(f, p, t))
    BY <1>9
  <2>4. ItemOf(f, p) \in todo /\ rest = todo \ {ItemOf(f, p)}
    BY <1>4, <1>13
  <2>. QED BY ONLY Sane(f), p \in Places(f), <1>2, <1>4, <1>9, <1>13, <2>1, <2>2,
                   <2>3, <2>4, SitesStep
<1>15. AlertsInv(r.file.alerts, prune, r.alerts, rest, map, d.alerts)
  BY <1>11, <1>12, AlertsAlone
<1>16. TodoOk(q)
  BY <1>1, TodoLess DEF RealInv, todo, rest
<1>17. RealInv(q, e)
  BY <1>1, <1>9, <1>14, <1>15, <1>16 DEF RealInv, Kept, u, rest, map, gs, snap, prune
<1>. QED BY <1>1, <1>9, <1>17 DEF Goes, u, t
-----------------------------------------------------------------------------
(* A real run: the items of --prune.                                       *)

LEMMA SitesPruned ==
  ASSUME NEW f, NEW prune, NEW old, NEW todo, NEW map, NEW gmap, NEW t, Bounded(t),
         SitesInv(f, prune, old, todo, map, gmap, t),
         NEW id, <<SitePrune, id, 0>> \in todo,
         NEW rest, rest = todo \ {<<SitePrune, id, 0>>},
         NEW u, DOMAIN u = DOMAIN t \ {id}, \A j \in DOMAIN u : u[j] = t[j]
  PROVE  SitesInv(f, prune, old, rest, map, gmap, u)
<1>. DEFINE names == collectMonitorNames(f)
<1>1. id \in DOMAIN t /\ t[id].name \notin names
  BY DEF SitesInv, SitesLeft, Unlisted
<1>2. \A l \in names : SameRow(u, t, l)
  BY <1>1, TableLess
<1>3. /\ \A p \in Places(f) : ItemOf(f, p) \in rest <=> ItemOf(f, p) \in todo
      /\ \A j : <<SitePrune, j, 0>> \in rest <=> <<SitePrune, j, 0>> \in todo /\ j # id
  BY ItemsDiffer, OthersDiffer
<1>4. \A p \in Places(f) : SameRow(u, t, At(f, p).name) /\ ParentOf(f, p, u) = ParentOf(f, p, t)
  <2>1. \A p \in Places(f) : At(f, p).name \in names
    BY DEF collectMonitorNames
  <2>2. \A p \in Places(f) : At(f, <<p[1], 0>>).name \in names
    BY <2>1, PlaceShape
  <2>. QED BY <1>2, <2>1, <2>2 DEF ParentOf, SameRow
<1>5. SitesPending(f, old, rest, u)
  BY <1>3, <1>4 DEF SitesInv, SitesPending, SameRow
<1>6. SitesDone(f, Safe(f, prune), rest, map, u)
  <2>. SUFFICES ASSUME NEW p \in Places(f), ItemOf(f, p) \notin rest
                PROVE  /\ LastNamed(u, At(f, p).name) # 0
                       /\ Agrees(At(f, p), map, Safe(f, prune),
                                 u[LastNamed(u, At(f, p).name)], ParentOf(f, p, u))
                       /\ p[2] # 0 => ItemOf(f, <<p[1], 0>>) \notin rest
    BY DEF SitesDone
  <2>. DEFINE l == At(f, p).name
  <2>1. /\ LastNamed(t, l) # 0
        /\ Agrees(At(f, p), map, Safe(f, prune), t[LastNamed(t, l)], ParentOf(f, p, t))
        /\ p[2] # 0 => ItemOf(f, <<p[1], 0>>) \notin todo
    BY <1>3 DEF SitesInv, SitesDone
  <2>2. LastNamed(u, l) = LastNamed(t, l) /\ u[LastNamed(u, l)] = t[LastNamed(t, l)]
    BY <1>4, <2>1 DEF SameRow
  <2>. QED BY <1>4, <2>1, <2>2
<1>7. GroupsDone(f, rest, gmap, u)
  BY <1>3, <1>4 DEF SitesInv, GroupsDone, SameRow
<1>8. Unlisted(u, names) = Unlisted(t, names) \ {id}
  BY DEF Unlisted
<1>9. SitesLeft(f, rest, u)
  BY <1>3, <1>8 DEF SitesInv, SitesLeft
<1>10. SitesGone(f, prune, rest, u)
  BY <1>3, <1>8 DEF SitesInv, SitesGone
<1>. QED BY <1>5, <1>6, <1>7, <1>9, <1>10 DEF SitesInv

LEMMA SitePruned ==
  ASSUME NEW r, Shaped(r), ~r.dry, NEW d, TablesMade(d), RealInv(r, d),
         NEW id, NEW x, x = <<SitePrune, id, 0>>, x \in r.todo,
         NEW q, q = pruneSite(r, d, x).run, NEW e, e = pruneSite(r, d, x).db
  PROVE  Goes(r, d, q, e)
<1>1. /\ Kept(r, q) /\ q.todo = r.todo \ {x} /\ q.alertMap = r.alertMap
      /\ q.groupMap = r.groupMap /\ e = DeleteSite(d, id)
  <2>1. x[2] = id
    OBVIOUS
  <2>. QED BY <2>1, PruneSiteRun
<1>. DEFINE t == d.sites
            u == e.sites
<1>2. TablesMade(e) /\ e.alerts = d.alerts /\ u = Without(t, id)
  BY <1>1, DeleteSiteDone
<1>3. DOMAIN u = DOMAIN t \ {id} /\ \A j \in DOMAIN u : u[j] = t[j]
  BY <1>2 DEF Without
<1>4. Bounded(t)
  BY DEF Bounded, TablesMade
<1>5. SitesInv(r.file, r.prune, r.sites, r.todo, r.alertMap, r.groupMap, t)
  BY DEF RealInv
<1>. DEFINE f == r.file
            prune == r.prune
            snap == r.sites
            todo == r.todo
            map  == r.alertMap
            gmap == r.groupMap
            rest == q.todo
<1>6. SitesInv(f, prune, snap, rest, map, gmap, u) /\ (Unique(t) => Unique(u))
  <2>1. <<SitePrune, id, 0>> \in todo /\ rest = todo \ {<<SitePrune, id, 0>>}
    BY <1>1
  <2>. HIDE DEF t, u, f, prune, snap, todo, map, gmap, rest
  <2>2. SitesInv(f, prune, snap, todo, map, gmap, t)
    BY <1>5 DEF f, prune, snap, todo, map, gmap
  <2>3. SitesInv(f, prune, snap, rest, map, gmap, u)
    BY ONLY <1>3, <1>4, <2>1, <2>2, SitesPruned
  <2>4. id \in DOMAIN t
    BY ONLY <2>1, <2>2 DEF SitesInv, SitesLeft, Unlisted
  <2>. QED BY ONLY <1>3, <1>4, <2>3, <2>4, TableLess
<1>7. AlertsInv(r.file.alerts, prune, r.alerts, todo, map, d.alerts)
  BY DEF RealInv
<1>8. SameAlerts(todo, rest)
  BY <1>1, OthersDiffer DEF SameAlerts
<1>. HIDE DEF u, t, prune, snap, todo, map, gmap, rest
<1>9. AlertsInv(r.file.alerts, prune, r.alerts, rest, map, d.alerts)
  BY <1>7, <1>8, AlertsAlone
<1>10. TodoOk(q)
  BY <1>1, TodoLess DEF RealInv
<1>11. RealInv(q, e)
  BY <1>1, <1>2, <1>6, <1>9, <1>10 DEF RealInv, Kept, u, rest, map, gmap, snap, prune
<1>. QED BY <1>1, <1>2, <1>6, <1>11 DEF Goes, u, t
Released(u, t, id) ==
  /\ DOMAIN u = DOMAIN t
  /\ \A j \in DOMAIN t :
       /\ u[j].name = t[j].name /\ u[j].kind = t[j].kind /\ u[j].body = t[j].body
       /\ u[j].dns = t[j].dns /\ u[j].parent = t[j].parent /\ u[j].paused = t[j].paused
       /\ u[j].alert = IF t[j].alert = id THEN 0 ELSE t[j].alert

\* The references to alert id are gone; all the monitors have been done.
LEMMA SitesReleased ==
  ASSUME NEW f, NEW old, NEW todo, NEW map, NEW gmap, NEW t,
         SitesInv(f, TRUE, old, todo, map, gmap, t), Bounded(t),
         \A p \in Places(f) : ItemOf(f, p) \notin todo,
         NEW id, \A n \in DOMAIN map : n \in NamesOf(f.alerts) => map[n] # id,
         NEW rest, SameSites(f, todo, rest),
         NEW u, Released(u, t, id)
  PROVE  SitesInv(f, TRUE, old, rest, map, gmap, u)
<1>1. \A n : LastNamed(u, n) = LastNamed(t, n)
  BY LastKept DEF Released
<1>2. \A p \in Places(f) : ItemOf(f, p) \notin rest
  BY DEF SameSites
<1>3. SitesDone(f, Safe(f, TRUE), rest, map, u)
  <2>. SUFFICES ASSUME NEW p \in Places(f)
                PROVE  /\ LastNamed(u, At(f, p).name) # 0
                       /\ Agrees(At(f, p), map, Safe(f, TRUE),
                                 u[LastNamed(u, At(f, p).name)], ParentOf(f, p, u))
                       /\ p[2] # 0 => ItemOf(f, <<p[1], 0>>) \notin rest
    BY DEF SitesDone
  <2>. DEFINE m  == At(f, p)
              k  == LastNamed(t, m.name)
              pa == ParentOf(f, p, t)
              safe == Safe(f, TRUE)
  <2>1. k # 0 /\ Agrees(m, map, safe, t[k], pa)
    BY DEF SitesInv, SitesDone
  <2>2. k \in DOMAIN t
    BY <2>1, Newest
  <2>3. ParentOf(f, p, u) = pa
    BY <1>1 DEF ParentOf
  <2>4. safe => m.alert \in NamesOf(f.alerts) \cup {NoName}
    BY DEF Safe, Closed
  <2>5. p[2] # 0 => ItemOf(f, <<p[1], 0>>) \notin rest
    BY <1>2, PlaceShape
  <2>6. Agrees(m, map, safe, u[k], pa)
    <3>. HIDE DEF m, k, pa, safe
    <3>1. Says(m, u[k], pa) /\ (m.alert # NoName => m.alert \in DOMAIN map)
      BY <2>1, <2>2 DEF Agrees, Says, Released
    <3>2. ASSUME safe PROVE u[k].alert = AlertOf(map, m)
      <4>1. t[k].alert = AlertOf(map, m)
        BY <2>1, <3>2 DEF Agrees
      <4>2. CASE m.alert = NoName
        BY <2>2, <4>1, <4>2 DEF AlertOf, Released
      <4>3. CASE m.alert # NoName
        <5>1. AlertOf(map, m) = map[m.alert] /\ map[m.alert] # id
          BY <2>4, <3>1, <3>2, <4>3 DEF AlertOf
        <5>. QED BY <2>2, <4>1, <5>1 DEF Released
      <4>. QED BY <4>2, <4>3
    <3>. QED BY <3>1, <3>2 DEF Agrees
  <2>. QED BY <1>1, <2>1, <2>3, <2>5, <2>6
<1>4. GroupsDone(f, rest, gmap, u)
  BY <1>1, <1>2 DEF SitesInv, GroupsDone, SameSites
<1>5. Unlisted(u, collectMonitorNames(f)) = Unlisted(t, collectMonitorNames(f))
  BY DEF Unlisted, Released
<1>6. SitesPending(f, old, rest, u)
  BY <1>2 DEF SitesPending
<1>7. SitesLeft(f, rest, u)
  BY <1>5 DEF SitesInv, SitesLeft, SameSites
<1>8. SitesGone(f, TRUE, rest, u)
  BY <1>5 DEF SitesInv, SitesGone, SameSites
<1>. QED BY <1>3, <1>4, <1>6, <1>7, <1>8 DEF SitesInv

\* Alert id is half deleted ...
LEMMA AlertsMarked ==
  ASSUME NEW al, NEW prune, NEW old, NEW todo, NEW map, NEW t,
         AlertsInv(al, prune, old, todo, map, t),
         NEW id, <<AlertPrune, id, 0>> \in todo,
         NEW rest, rest = (todo \ {<<AlertPrune, id, 0>>}) \cup {Drop(id)}
  PROVE  AlertsInv(al, prune, old, rest, map, t)
<1>1. /\ \A i : AlertItem(i) \in rest <=> AlertItem(i) \in todo
      /\ \A j : <<AlertPrune, j, 0>> \in rest <=> <<AlertPrune, j, 0>> \in todo /\ j # id
      /\ \A j : Drop(j) \in rest <=> Drop(j) \in todo \/ j = id
  BY OthersDiffer
<1>. QED BY <1>1 DEF AlertsInv, AlertsPending, AlertsDone, AlertsLeft, AlertsGone

\* ... and gone.
LEMMA AlertsDropped ==
  ASSUME NEW al, NEW old, NEW todo, NEW map, NEW t, Bounded(t),
         AlertsInv(al, TRUE, old, todo, map, t),
         NEW id, Drop(id) \in todo, <<AlertPrune, id, 0>> \notin todo,
         NEW rest, rest = todo \ {Drop(id)},
         NEW u, DOMAIN u = DOMAIN t \ {id}, \A j \in DOMAIN u : u[j] = t[j]
  PROVE  AlertsInv(al, TRUE, old, rest, map, u)
<1>1. /\ \A i : AlertItem(i) \in rest <=> AlertItem(i) \in todo
      /\ \A j : <<AlertPrune, j, 0>> \in rest <=> <<AlertPrune, j, 0>> \in todo
      /\ \A j : Drop(j) \in rest <=> Drop(j) \in todo /\ j # id
  BY OthersDiffer
<1>2. id \in DOMAIN t /\ t[id].name \notin NamesOf(al)
  BY DEF AlertsInv, AlertsLeft, Unlisted
<1>3. \A l \in NamesOf(al) : SameRow(u, t, l)
  BY <1>2, TableLess
<1>4. \A i \in DOMAIN al : al[i].name \in NamesOf(al)
  BY DEF NamesOf
<1>5. AlertsPending(al, old, rest, u)
  BY <1>1, <1>3, <1>4 DEF AlertsInv, AlertsPending, SameRow
<1>6. AlertsDone(al, rest, u)
  <2>. SUFFICES ASSUME NEW i \in DOMAIN al, AlertItem(i) \notin rest
                PROVE  /\ LastNamed(u, al[i].name) # 0
                       /\ u[LastNamed(u, al[i].name)].body = al[i].body
    BY DEF AlertsDone
  <2>. DEFINE l == al[i].name
  <2>1. LastNamed(t, l) # 0 /\ t[LastNamed(t, l)].body = al[i].body /\ SameRow(u, t, l)
    BY <1>1, <1>3, <1>4 DEF AlertsInv, AlertsDone
  <2>. QED BY <2>1 DEF SameRow
<1>7. MapTrue(al, TRUE, map, u)
  <2>1. NamesOf(u) \subseteq NamesOf(t)
    BY DEF NamesOf
  <2>. QED BY <1>3, <2>1 DEF AlertsInv, MapTrue, SameRow
<1>8. Unlisted(u, NamesOf(al)) = Unlisted(t, NamesOf(al)) \ {id}
  BY DEF Unlisted
<1>9. AlertsLeft(al, rest, u)
  BY <1>1, <1>8 DEF AlertsInv, AlertsLeft
<1>10. AlertsGone(al, TRUE, rest, u)
  BY <1>1, <1>8 DEF AlertsInv, AlertsGone
<1>. QED BY <1>5, <1>6, <1>7, <1>9, <1>10 DEF AlertsInv

LEMMA AlertReleased ==
  ASSUME NEW r, Shaped(r), ~r.dry, r.prune, NEW d, TablesMade(d), RealInv(r, d),
         NEW id, id \in Unlisted(r.alerts, NamesOf(r.file.alerts)),
         NEW x, x = <<AlertPrune, id, 0>>, First(r, x),
         NEW q, q = pruneAlert(r, d, x).run, NEW e, e = pruneAlert(r, d, x).db
  PROVE  Goes(r, d, q, e)
<1>. DEFINE t == d.sites
            u == e.sites
            f == r.file
            al == r.file.alerts
            snap == r.sites
            olds == r.alerts
            todo == r.todo
            map  == r.alertMap
            gmap == r.groupMap
            rest == q.todo
<1>0. x \in todo /\ r.prune = TRUE /\ al = f.alerts
  BY DEF First, Shaped
<1>1. /\ Kept(r, q) /\ q.todo = (r.todo \ {x}) \cup {Drop(id)} /\ q.alertMap = r.alertMap
      /\ q.groupMap = r.groupMap /\ e = ReleaseAlert(d, id)
  <2>1. x[2] = id
    OBVIOUS
  <2>2. /\ Kept(r, q) /\ q.alertMap = r.alertMap /\ q.groupMap = r.groupMap
        /\ q.todo = (r.todo \ {x}) \cup {Drop(x[2])} /\ e = ReleaseAlert(d, x[2])
    BY ONLY Shaped(r), ~r.dry, q = pruneAlert(r, d, x).run, e = pruneAlert(r, d, x).db, PruneAlertRun
  <2>. QED BY <2>1, <2>2
<1>2. /\ TablesMade(e) /\ e.alerts = d.alerts /\ DOMAIN u = DOMAIN t
      /\ \A j \in DOMAIN t : u[j] = IF t[j].alert = id
                                    THEN [t[j] EXCEPT !.alert = 0] ELSE t[j]
  BY <1>1, ReleaseAlertDone
<1>3. Bounded(t) /\ SitesMade(t, d.lastSite)
  BY MadeParts DEF Bounded, SitesMade
<1>4. /\ SitesInv(f, TRUE, snap, todo, map, gmap, t)
      /\ AlertsInv(al, TRUE, olds, todo, map, d.alerts)
  BY <1>0 DEF RealInv
<1>5. \A p \in Places(f) : ItemOf(f, p) \notin todo
  <2>. SUFFICES ASSUME NEW p \in Places(f), ItemOf(f, p) \in todo PROVE FALSE
    OBVIOUS
  <2>. DEFINE y == ItemOf(f, p)
  <2>1. y[1] \in {2, 3, 4} /\ x[1] = 6
    BY ItemParts, StageIs DEF AlertPrune
  <2>. HIDE DEF y
  <2>2. y \in r.todo
    BY DEF y
  <2>. QED BY ONLY <2>1, <2>2, First(r, x) DEF First, Before
<1>6. id \in DOMAIN d.alerts /\ d.alerts[id].name \notin NamesOf(al)
  BY <1>0, <1>4 DEF AlertsInv, AlertsLeft, Unlisted
<1>7. \A n \in DOMAIN map : n \in NamesOf(al) => map[n] # id
  <2>1. Bounded(d.alerts)
    BY DEF Bounded, TablesMade
  <2>. SUFFICES ASSUME NEW n \in DOMAIN map, n \in NamesOf(al), map[n] = id PROVE FALSE
    OBVIOUS
  <2>2. id # 0 /\ id = LastNamed(d.alerts, n)
    BY <1>4 DEF AlertsInv, MapTrue
  <2>3. d.alerts[id].name = n
    BY <2>1, <2>2, Newest
  <2>. QED BY <1>6, <2>3
<1>8. Released(u, t, id)
  <2>. HIDE DEF t, u
  <2>. QED BY <1>2, <1>3 DEF SitesMade, RowShape, Released
<1>9. SameSites(f, todo, rest)
  BY <1>1, ItemsDiffer, OthersDiffer DEF SameSites
<1>10. rest = (todo \ {<<AlertPrune, id, 0>>}) \cup {Drop(id)} /\ <<AlertPrune, id, 0>> \in todo
  BY <1>0, <1>1
<1>11. TodoOk(q)
  <2>1. Work(q.file, q.prune, q) = Work(r.file, r.prune, r)
    BY <1>1, WorkKept
  <2>2. TodoOk(r) /\ q.prune = r.prune /\ q.file = r.file /\ q.alerts = r.alerts
    BY <1>1 DEF RealInv, Kept
  <2>3. \A y \in q.todo : y \in r.todo \/ y = Drop(id)
    BY <1>1
  <2>4. id \in Unlisted(r.alerts, NamesOf(r.file.alerts))
    OBVIOUS
  <2>. QED BY ONLY <1>0, <2>1, <2>2, <2>3, <2>4 DEF TodoOk
<1>. HIDE DEF u, t, f, al, snap, olds, todo, map, gmap, rest
<1>12. SitesInv(f, TRUE, snap, rest, map, gmap, u)
  <2>1. \A n \in DOMAIN map : n \in NamesOf(f.alerts) => map[n] # id
    BY <1>0, <1>7
  <2>2. Bounded(t) /\ SitesInv(f, TRUE, snap, todo, map, gmap, t)
    BY <1>3, <1>4
  <2>. QED BY ONLY <1>5, <1>8, <1>9, <2>1, <2>2, SitesReleased
<1>13. AlertsInv(al, TRUE, olds, rest, map, d.alerts)
  BY ONLY <1>4, <1>10, AlertsMarked
<1>14. RealInv(q, e)
  BY <1>0, <1>1, <1>2, <1>11, <1>12, <1>13
     DEF RealInv, Kept, u, rest, map, gmap, snap, olds, f, al
<1>15. Unique(t) => Unique(u)
  BY <1>8 DEF Unique, Released
<1>. QED BY <1>1, <1>2, <1>14, <1>15 DEF Goes, u, t

LEMMA AlertDropped ==
  ASSUME NEW r, Shaped(r), ~r.dry, r.prune, NEW d, TablesMade(d), RealInv(r, d),
         NEW id, id \in Unlisted(r.alerts, NamesOf(r.file.alerts)),
         NEW x, x = Drop(id), First(r, x),
         NEW q, q = dropAlert(r, d, x).run, NEW e, e = dropAlert(r, d, x).db
  PROVE  Goes(r, d, q, e)
<1>. DEFINE t == d.alerts
            u == e.alerts
            al == r.file.alerts
            snap == r.sites
            olds == r.alerts
            todo == r.todo
            map  == r.alertMap
            gmap == r.groupMap
            rest == q.todo
<1>0. x \in todo /\ r.prune = TRUE
  BY DEF First, Shaped
<1>1. /\ Kept(r, q) /\ q.todo = r.todo \ {x} /\ q.alertMap = r.alertMap
      /\ q.groupMap = r.groupMap /\ e = DropAlert(d, id)
  <2>1. x[2] = id
    BY DEF Drop
  <2>. QED BY <2>1, DropRun
<1>2. TablesMade(e) /\ e.sites = d.sites /\ u = Without(t, id)
  BY <1>1, DropAlertDone
<1>3. DOMAIN u = DOMAIN t \ {id} /\ \A j \in DOMAIN u : u[j] = t[j]
  BY <1>2 DEF Without
<1>4. Bounded(t)
  BY DEF Bounded, TablesMade
<1>5. /\ SitesInv(r.file, TRUE, snap, todo, map, gmap, d.sites)
      /\ AlertsInv(al, TRUE, olds, todo, map, t)
  BY <1>0 DEF RealInv
<1>6. <<AlertPrune, id, 0>> \notin todo
  <2>1. id \in Nat
    BY DEF Unlisted, Shaped
  <2>. DEFINE y == <<AlertPrune, id, 0>>
  <2>2. y # x /\ ~Before(x, y)
    BY <2>1 DEF Before, Drop, AlertPrune
  <2>. QED BY <2>2 DEF First
<1>7. SameSites(r.file, todo, rest)
  BY <1>1, ItemsDiffer, OthersDiffer DEF SameSites
<1>8. Drop(id) \in todo /\ rest = todo \ {Drop(id)}
  BY <1>0, <1>1
<1>9. TodoOk(q)
  BY <1>1, TodoLess DEF RealInv
<1>10. id \in DOMAIN t
  BY <1>5, <1>8 DEF AlertsInv, AlertsLeft, Unlisted
<1>. HIDE DEF u, t, al, snap, olds, todo, map, gmap, rest
<1>11. AlertsInv(al, TRUE, olds, rest, map, u)
  BY ONLY <1>3, <1>4, <1>5, <1>6, <1>8, AlertsDropped
<1>12. SitesInv(r.file, TRUE, snap, rest, map, gmap, d.sites)
  BY <1>5, <1>7, SitesAlone
<1>13. RealInv(q, e)
  BY <1>0, <1>1, <1>2, <1>9, <1>11, <1>12
     DEF RealInv, Kept, u, rest, map, gmap, snap, olds, al
<1>14. Unique(t) => Unique(u)
  BY ONLY <1>3, <1>4, <1>10, TableLess
<1>. QED BY <1>1, <1>2, <1>13, <1>14 DEF Goes, u, t
-----------------------------------------------------------------------------
(* Every run: it begins as it should, and every item keeps it so.          *)

LEMMA OutcomeDone ==
  ASSUME NEW r, Shaped(r), ~r.dry, NEW f, f = r.file, Sane(f), NEW d, TablesMade(d),
         RealInv(r, d), NEW x, First(r, x), ~Stuck(r, x),
         NEW q, q = Outcome(r, d, x).run, NEW e, e = Outcome(r, d, x).db
  PROVE  Goes(r, d, q, e)
<1>1. x \in r.todo /\ TodoOk(r) /\ Unique(r.file.alerts)
  BY DEF First, RealInv, Sane
<1>2. CASE \E i \in DOMAIN r.file.alerts : x = AlertItem(i)
  <2>1. PICK i \in DOMAIN r.file.alerts : x = AlertItem(i)
    BY <1>2
  <2>2. q = ApplyAlert(r, d, x).run /\ e = ApplyAlert(r, d, x).db
    BY <2>1, Outcomes
  <2>. QED BY ONLY Shaped(r), ~r.dry, TablesMade(d), RealInv(r, d), <1>1, <2>1, <2>2, AlertDone
<1>3. CASE \E p \in Places(f) : x = ItemOf(f, p)
  <2>1. PICK p \in Places(f) : x = ItemOf(f, p)
    BY <1>3
  <2>2. q = applyMonitor(r, d, x).run /\ e = applyMonitor(r, d, x).db
    BY <2>1, Outcomes
  <2>. QED BY ONLY Shaped(r), ~r.dry, f = r.file, Sane(f), TablesMade(d), RealInv(r, d),
                   First(r, x), ~Stuck(r, x), <2>1, <2>2, SiteDone
<1>4. CASE \E id : x = <<SitePrune, id, 0>>
  <2>1. PICK id : x = <<SitePrune, id, 0>>
    BY <1>4
  <2>2. q = pruneSite(r, d, x).run /\ e = pruneSite(r, d, x).db
    BY <2>1, Outcomes
  <2>. QED BY ONLY Shaped(r), ~r.dry, TablesMade(d), RealInv(r, d), <1>1, <2>1, <2>2,
                   SitePruned
<1>5. CASE r.prune /\ \E id \in Unlisted(r.alerts, NamesOf(r.file.alerts)) :
                        x = <<AlertPrune, id, 0>>
  <2>1. PICK id \in Unlisted(r.alerts, NamesOf(r.file.alerts)) : x = <<AlertPrune, id, 0>>
    BY <1>5
  <2>2. q = pruneAlert(r, d, x).run /\ e = pruneAlert(r, d, x).db
    BY <2>1, Outcomes
  <2>. QED BY ONLY Shaped(r), ~r.dry, TablesMade(d), RealInv(r, d), First(r, x), <1>5,
                   <2>1, <2>2, AlertReleased
<1>6. CASE r.prune /\ \E id \in Unlisted(r.alerts, NamesOf(r.file.alerts)) : x = Drop(id)
  <2>1. PICK id \in Unlisted(r.alerts, NamesOf(r.file.alerts)) : x = Drop(id)
    BY <1>6
  <2>2. q = dropAlert(r, d, x).run /\ e = dropAlert(r, d, x).db
    BY <2>1, Outcomes
  <2>. QED BY ONLY Shaped(r), ~r.dry, TablesMade(d), RealInv(r, d), First(r, x), <1>6,
                   <2>1, <2>2, AlertDropped
<1>. QED BY <1>1, <1>2, <1>3, <1>4, <1>5, <1>6, ItemKinds

LEMMA WorkKinds ==
  ASSUME NEW f, NEW prune, NEW d, NEW x \in Work(f, prune, d)
  PROVE  \/ \E i \in DOMAIN f.alerts : x = AlertItem(i)
         \/ \E p \in Places(f) : x = ItemOf(f, p)
         \/ prune /\ \E id \in Unlisted(d.sites, collectMonitorNames(f)) :
                       x = <<SitePrune, id, 0>>
         \/ prune /\ \E id \in Unlisted(d.alerts, NamesOf(f.alerts)) :
                       x = <<AlertPrune, id, 0>>
BY DEF Work, AlertItem

LEMMA DryOutcome ==
  ASSUME NEW r, Shaped(r), r.dry, NEW d, NEW x, x \in Work(r.file, r.prune, r),
         NEW q, q = Outcome(r, d, x).run, NEW e, e = Outcome(r, d, x).db
  PROVE  Kept(r, q) /\ q.todo = r.todo \ {x} /\ e = d
<1>1. CASE \E i \in DOMAIN r.file.alerts : x = AlertItem(i)
  <2>1. PICK i \in DOMAIN r.file.alerts : x = AlertItem(i)
    BY <1>1
  <2>2. q = ApplyAlert(r, d, x).run /\ e = ApplyAlert(r, d, x).db
    BY <2>1, Outcomes
  <2>. DEFINE a == r.file.alerts[i]
              old == LastNamed(r.alerts, a.name)
              row == [name |-> a.name, body |-> a.body]
  <2>3. /\ Kept(r, q) /\ q.todo = r.todo \ {x}
        /\ old = 0 => e = IF r.dry THEN d ELSE AddAlert(d, row)
        /\ old # 0 => /\ r.alerts[old].body # a.body
                           => e = IF r.dry THEN d ELSE UpdateAlert(d, old, row)
                      /\ r.alerts[old].body = a.body => e = d
    BY ONLY Shaped(r), <2>1, <2>2, AlertRun
  <2>. HIDE DEF a, old, row
  <2>. QED BY ONLY r.dry, <2>3
<1>2. CASE \E p \in Places(r.file) : x = ItemOf(r.file, p)
  <2>1. q = applyMonitor(r, d, x).run /\ e = applyMonitor(r, d, x).db
    BY <1>2, Outcomes
  <2>. QED BY ONLY Shaped(r), r.dry, <2>1, SiteRun
<1>3. CASE \E id : x = <<SitePrune, id, 0>>
  <2>1. q = pruneSite(r, d, x).run /\ e = pruneSite(r, d, x).db
    BY <1>3, Outcomes
  <2>. QED BY ONLY Shaped(r), r.dry, <2>1, PruneSiteRun
<1>4. CASE \E id : x = <<AlertPrune, id, 0>>
  <2>1. q = pruneAlert(r, d, x).run /\ e = pruneAlert(r, d, x).db
    BY <1>4, Outcomes
  <2>. QED BY ONLY Shaped(r), r.dry, <2>1, PruneAlertRun
<1>. QED BY <1>1, <1>2, <1>3, <1>4, WorkKinds

\* What a run begins with.
Fresh(r, d) ==
  /\ r.alerts = d.alerts /\ r.sites = d.sites
  /\ r.alertMap = [n \in NamesOf(d.alerts) |-> LastNamed(d.alerts, n)]
  /\ r.todo = Work(r.file, r.prune, d)

LEMMA FreshReal ==
  ASSUME NEW r, NEW d, TablesMade(d), Fresh(r, d)
  PROVE  RealInv(r, d)
<1>. DEFINE f == r.file
            prune == r.prune
            todo == Work(f, prune, d)
            al == f.alerts
            map == [n \in NamesOf(d.alerts) |-> LastNamed(d.alerts, n)]
<1>0. Work(r.file, r.prune, r) = todo /\ r.todo = todo /\ r.alertMap = map
  BY DEF Fresh, Work
<1>1. TodoOk(r)
  BY <1>0 DEF TodoOk
<1>2. /\ \A i \in DOMAIN al : AlertItem(i) \in todo
      /\ \A p \in Places(f) : ItemOf(f, p) \in todo
      /\ \A id : <<SitePrune, id, 0>> \in todo
                   <=> prune /\ id \in Unlisted(d.sites, collectMonitorNames(f))
      /\ \A id : <<AlertPrune, id, 0>> \in todo
                   <=> prune /\ id \in Unlisted(d.alerts, NamesOf(al))
      /\ \A id : Drop(id) \notin todo
  <2>1. \A i \in DOMAIN al : AlertItem(i) \in todo
    BY DEF Work, AlertItem
  <2>2. \A p \in Places(f) : ItemOf(f, p) \in todo
    BY DEF Work
  <2>3. prune => \A id \in Unlisted(d.sites, collectMonitorNames(f)) :
                   <<SitePrune, id, 0>> \in todo
    BY DEF Work
  <2>4. prune => \A id \in Unlisted(d.alerts, NamesOf(al)) : <<AlertPrune, id, 0>> \in todo
    BY DEF Work
  <2>5. \A x \in todo :
          \/ \E i \in DOMAIN al : x = AlertItem(i)
          \/ \E p \in Places(f) : x = ItemOf(f, p)
          \/ prune /\ \E id \in Unlisted(d.sites, collectMonitorNames(f)) :
                        x = <<SitePrune, id, 0>>
          \/ prune /\ \E id \in Unlisted(d.alerts, NamesOf(al)) : x = <<AlertPrune, id, 0>>
    BY WorkKinds
  <2>. HIDE DEF todo, al, f, prune
  <2>6. ASSUME NEW id, <<SitePrune, id, 0>> \in todo
        PROVE  prune /\ id \in Unlisted(d.sites, collectMonitorNames(f))
    BY <2>5, <2>6, ItemsDiffer, OthersDiffer
  <2>7. ASSUME NEW id, <<AlertPrune, id, 0>> \in todo
        PROVE  prune /\ id \in Unlisted(d.alerts, NamesOf(al))
    BY <2>5, <2>7, ItemsDiffer, OthersDiffer
  <2>8. ASSUME NEW id, Drop(id) \in todo PROVE FALSE
    BY <2>5, <2>8, ItemsDiffer, OthersDiffer
  <2>. QED BY <2>1, <2>2, <2>3, <2>4, <2>6, <2>7, <2>8
<1>. HIDE DEF todo, f, prune, al, map
<1>3. AlertsInv(al, prune, d.alerts, todo, map, d.alerts)
  <2>1. Bounded(d.alerts)
    BY DEF Bounded, TablesMade
  <2>2. MapTrue(al, prune, map, d.alerts)
    <3>. DEFINE t == d.alerts
    <3>1. \A n \in NamesOf(t) : LastNamed(t, n) # 0
      <4>1. \A n \in NamesOf(t) : LastNamed(t, n) \in DOMAIN t
        BY <2>1, Newest
      <4>. QED BY <2>1, <4>1 DEF Bounded
    <3>. QED BY <3>1 DEF MapTrue, map
  <2>. QED BY <1>2, <2>2 DEF AlertsInv, AlertsPending, AlertsDone, AlertsLeft, AlertsGone, SameRow
<1>4. SitesInv(f, prune, d.sites, todo, map, r.groupMap, d.sites)
  BY <1>2 DEF SitesInv, SitesPending, SitesDone, GroupsDone, SitesLeft, SitesGone, SameRow
<1>. QED BY <1>0, <1>1, <1>3, <1>4 DEF RealInv, Fresh, f, prune, al
-----------------------------------------------------------------------------
(* A run that has nothing to change: no item does.                         *)

LEMMA QuietRest ==
  ASSUME NEW r, Shaped(r), Quiet(r), NEW x, NEW q, Kept(r, q), q.todo = r.todo \ {x},
         q.changes = r.changes, q.alertMap = r.alertMap,
         GroupsDone(r.file, q.todo, q.groupMap, r.sites)
  PROVE  Quiet(q)
<1>1. q.todo \subseteq Work(q.file, q.prune, q)
  BY WorkKept DEF Quiet
<1>. QED BY <1>1 DEF Quiet, Kept

Still(r, d, x, q, e) ==
  Quiet(q) /\ Kept(r, q) /\ q.todo = r.todo \ {x} /\ e = d /\ ~Stuck(r, x)

LEMMA QuietAlert ==
  ASSUME NEW r, Shaped(r), Quiet(r), NEW d, NEW i \in DOMAIN r.file.alerts,
         NEW x, x = AlertItem(i),
         NEW q, q = ApplyAlert(r, d, x).run, NEW e, e = ApplyAlert(r, d, x).db
  PROVE  Still(r, d, x, q, e)
<1>. DEFINE a == r.file.alerts[i]
            old == LastNamed(r.alerts, a.name)
            row == [name |-> a.name, body |-> a.body]
<1>1. old # 0 /\ r.alerts[old].body = a.body
  BY DEF Quiet, Fixed
<1>2. /\ Kept(r, q) /\ q.todo = r.todo \ {x} /\ q.groupMap = r.groupMap
      /\ old # 0 => /\ q.alertMap = r.alertMap
                    /\ r.alerts[old].body = a.body => q.changes = r.changes /\ e = d
  <2>1. x = AlertItem(i) /\ q = ApplyAlert(r, d, x).run /\ e = ApplyAlert(r, d, x).db
    OBVIOUS
  <2>2. /\ Kept(r, q) /\ q.todo = r.todo \ {x} /\ q.groupMap = r.groupMap
        /\ old = 0 => /\ q.alertMap = With(r.alertMap, a.name,
                                         IF r.dry THEN r.placeholder ELSE d.lastAlert + 1)
                      /\ e = IF r.dry THEN d ELSE AddAlert(d, row)
        /\ old # 0 => /\ q.alertMap = r.alertMap
                      /\ r.alerts[old].body = a.body => q.changes = r.changes /\ e = d
    BY ONLY Shaped(r), <2>1, AlertRun
  <2>. HIDE DEF a, old, row
  <2>. QED BY ONLY <1>1, <2>2
<1>3. GroupsDone(r.file, q.todo, q.groupMap, r.sites)
  <2>1. \A p \in Places(r.file) : ItemOf(r.file, p) \in q.todo <=> ItemOf(r.file, p) \in r.todo
    BY <1>2, ItemsDiffer
  <2>2. GroupsDone(r.file, r.todo, r.groupMap, r.sites)
    BY DEF Quiet
  <2>. QED BY ONLY <1>2, <2>1, <2>2 DEF GroupsDone
<1>. HIDE DEF a, old, row
<1>4. Quiet(q)
  BY ONLY Shaped(r), Quiet(r), <1>1, <1>2, <1>3, QuietRest
<1>5. x[1] = 1
  BY DEF AlertItem, AlertStage
<1>6. ~Stuck(r, x)
  BY ONLY <1>5 DEF Stuck, GroupStage, ChildStage, OtherStage
<1>. QED BY <1>1, <1>2, <1>4, <1>6 DEF Still

LEMMA QuietSite ==
  ASSUME NEW r, Shaped(r), Quiet(r), NEW f, f = r.file, Sane(f), NEW d,
         NEW p \in Places(f), NEW x, x = ItemOf(f, p), First(r, x),
         NEW q, q = applyMonitor(r, d, x).run, NEW e, e = applyMonitor(r, d, x).db
  PROVE  Still(r, d, x, q, e)
<1>. DEFINE m    == At(f, p)
            n    == m.name
            row  == Wanted(r, x)
            t    == r.sites
            old  == LastNamed(t, n)
            new  == IF r.dry THEN r.placeholder ELSE d.lastSite + 1
            gmap == r.groupMap
            map  == r.alertMap
            parent == ParentOf(f, p, t)
<1>1. Bounded(t) /\ Bounded(r.alerts)
  BY DEF Bounded, Shaped
<1>2. /\ old # 0 /\ Says(m, t[old], parent)
      /\ m.alert # NoName => LastNamed(r.alerts, m.alert) # 0
      /\ t[old].alert = IF m.alert = NoName THEN 0 ELSE LastNamed(r.alerts, m.alert)
  BY DEF Quiet, Fixed
<1>3. /\ m.alert # NoName => m.alert \in DOMAIN map
      /\ t[old].alert = AlertOf(map, m)
  <2>1. m.alert # NoName => m.alert \in NamesOf(r.alerts)
    BY <1>1, <1>2, Newest
  <2>2. map = [l \in NamesOf(r.alerts) |-> LastNamed(r.alerts, l)]
    BY DEF Quiet
  <2>. HIDE DEF map, m, t, old
  <2>. QED BY ONLY <1>2, <2>1, <2>2 DEF AlertOf
<1>4. ~Stuck(r, x)
  BY <1>3, StuckNot
<1>5. x \in r.todo /\ (p[2] # 0 => ItemOf(f, <<p[1], 0>>) \notin r.todo)
  BY GroupFirst DEF First
<1>6. GroupsDone(f, r.todo, gmap, t)
  BY DEF Quiet
<1>7. /\ row.name = n /\ row.kind = m.kind
      /\ row.body = Normal(m.body) /\ row.dns = m.dns /\ row.paused = m.paused
      /\ row.alert = AlertOf(map, m) /\ row.parent = parent
  <2>. DEFINE l == At(f, <<p[1], 0>>).name
  <2>1. /\ row.name = n /\ row.kind = m.kind
        /\ row.body = Normal(m.body) /\ row.dns = m.dns /\ row.paused = m.paused
        /\ row.alert = AlertOf(map, m)
        /\ row.parent = IF p[2] # 0 THEN gmap[l] ELSE 0
    BY WantedRow
  <2>2. p[2] # 0 => gmap[l] = LastNamed(t, l)
    BY <1>5, <1>6, GroupPlace DEF GroupsDone
  <2>3. row.parent = parent
    BY <2>1, <2>2 DEF ParentOf
  <2>. HIDE DEF row, m, t, parent
  <2>. QED BY <2>1, <2>3
<1>8. ~diffSite(t[old], row)
  <2>1. RowShape(t[old])
    BY <1>1, <1>2, Newest DEF Quiet
  <2>. HIDE DEF t, old, row, m, map, parent
  <2>2. /\ t[old].kind = row.kind /\ Normal(t[old].body) = row.body
        /\ t[old].dns = row.dns /\ t[old].alert = row.alert
        /\ t[old].parent = row.parent /\ t[old].paused = row.paused
    BY ONLY <1>2, <1>3, <1>7 DEF Says
  <2>. QED BY ONLY <2>1, <2>2, DiffersNot
<1>9. /\ Monitor(r, x) = m /\ row = Wanted(r, x) /\ old = LastNamed(r.sites, n) /\ n = m.name
      /\ new = IF r.dry THEN r.placeholder ELSE d.lastSite + 1
      /\ t[old] = r.sites[old]
  BY MonitorIs
<1>10. x[1] = GroupStage <=> StageOf(f, p) = GroupStage
  BY ItemParts
<1>. HIDE DEF m, row, new, old, n, t
<1>11. /\ Kept(r, q) /\ q.todo = r.todo \ {x} /\ q.alertMap = r.alertMap
       /\ q.groupMap = IF x[1] = GroupStage
                       THEN With(r.groupMap, n, IF old = 0 THEN new ELSE old)
                       ELSE r.groupMap
       /\ old # 0 /\ ~diffSite(r.sites[old], row) => q.changes = r.changes /\ e = d
  BY ONLY Shaped(r), q = applyMonitor(r, d, x).run, e = applyMonitor(r, d, x).db,
          <1>9, SiteRun
<1>12. q.changes = r.changes /\ e = d
  BY <1>2, <1>8, <1>9, <1>11
<1>13. GroupsDone(f, q.todo, q.groupMap, t)
  <2>. DEFINE gs == q.groupMap
  <2>1. \A o \in Places(f) : o # p => /\ At(f, o).name # n
                                      /\ ItemOf(f, o) \in q.todo <=> ItemOf(f, o) \in r.todo
    BY <1>9, <1>11, ItemsDiffer DEF Sane, m
  <2>2. gs = IF StageOf(f, p) = GroupStage THEN With(gmap, n, old) ELSE gmap
    BY <1>2, <1>10, <1>11
  <2>3. n = At(f, p).name /\ old = LastNamed(t, n)
    BY <1>9 DEF n, m, t
  <2>. HIDE DEF gs, gmap
  <2>. SUFFICES ASSUME NEW o \in Places(f), StageOf(f, o) = GroupStage, ItemOf(f, o) \notin q.todo
                PROVE  /\ At(f, o).name \in DOMAIN gs
                       /\ gs[At(f, o).name] = LastNamed(t, At(f, o).name)
    BY DEF GroupsDone, gs
  <2>4. CASE o = p
    BY ONLY <2>2, <2>3, <2>4, StageOf(f, o) = GroupStage DEF With
  <2>5. CASE o # p
    <3>. DEFINE l == At(f, o).name
    <3>1. l # n /\ ItemOf(f, o) \notin r.todo
      BY <2>1, <2>5
    <3>2. l \in DOMAIN gmap /\ gmap[l] = LastNamed(t, l)
      BY <1>6, <3>1 DEF GroupsDone
    <3>3. l \in DOMAIN gs /\ gs[l] = gmap[l]
      BY ONLY <2>2, <3>1, <3>2 DEF With
    <3>. QED BY <3>2, <3>3
  <2>. QED BY <2>4, <2>5
<1>14. Quiet(q)
  <2>1. GroupsDone(r.file, q.todo, q.groupMap, r.sites)
    BY <1>13 DEF t
  <2>. QED BY ONLY Shaped(r), Quiet(r), <1>11, <1>12, <2>1, QuietRest
<1>. QED BY <1>4, <1>11, <1>12, <1>14 DEF Still

LEMMA QuietDone ==
  ASSUME NEW r, Shaped(r), Quiet(r), NEW f, f = r.file, Sane(f), NEW d, NEW x, First(r, x),
         NEW q, q = Outcome(r, d, x).run, NEW e, e = Outcome(r, d, x).db
  PROVE  Still(r, d, x, q, e)
<1>1. x \in Work(f, r.prune, r)
  BY DEF First, Quiet
<1>2. CASE \E i \in DOMAIN f.alerts : x = AlertItem(i)
  <2>1. PICK i \in DOMAIN r.file.alerts : x = AlertItem(i)
    BY <1>2
  <2>2. q = ApplyAlert(r, d, x).run /\ e = ApplyAlert(r, d, x).db
    BY <2>1, Outcomes
  <2>. QED BY ONLY Shaped(r), Quiet(r), <2>1, <2>2, QuietAlert
<1>3. CASE \E p \in Places(f) : x = ItemOf(f, p)
  <2>1. PICK p \in Places(f) : x = ItemOf(f, p)
    BY <1>3
  <2>2. q = applyMonitor(r, d, x).run /\ e = applyMonitor(r, d, x).db
    BY <2>1, Outcomes
  <2>. QED BY ONLY Shaped(r), Quiet(r), f = r.file, Sane(f), First(r, x), <2>1, <2>2,
                   QuietSite
<1>. QED BY <1>1, <1>2, <1>3, WorkKinds DEF Quiet, Fixed
-----------------------------------------------------------------------------
(* When nothing is left to do, the request is in force.                    *)

LEMMA InForce ==
  ASSUME NEW f, NEW prune, NEW old, NEW pre, NEW todo, todo = {}, NEW map, NEW gmap,
         NEW al, Bounded(al), NEW ss, Safe(f, prune),
         AlertsInv(f.alerts, prune, pre, todo, map, al),
         SitesInv(f, prune, old, todo, map, gmap, ss)
  PROVE  Fixed(f, prune, al, ss)
<1>1. \A i \in DOMAIN f.alerts :
        LET id == LastNamed(al, f.alerts[i].name)
        IN  id # 0 /\ al[id].body = f.alerts[i].body
  BY DEF AlertsInv, AlertsDone
<1>2. ASSUME NEW p \in Places(f)
      PROVE  LET m  == At(f, p)
                 id == LastNamed(ss, m.name)
             IN  /\ id # 0 /\ Says(m, ss[id], ParentOf(f, p, ss))
                 /\ m.alert # NoName => LastNamed(al, m.alert) # 0
                 /\ ss[id].alert = IF m.alert = NoName THEN 0 ELSE LastNamed(al, m.alert)
  <2>. DEFINE m  == At(f, p)
              id == LastNamed(ss, m.name)
  <2>1. id # 0 /\ Agrees(m, map, Safe(f, prune), ss[id], ParentOf(f, p, ss))
    BY DEF SitesInv, SitesDone
  <2>2. m.alert # NoName =>
          m.alert \in DOMAIN map /\ (m.alert \in NamesOf(f.alerts) \/ ~prune)
    BY <2>1 DEF Agrees, Safe, Closed
  <2>3. m.alert # NoName => map[m.alert] # 0 /\ map[m.alert] = LastNamed(al, m.alert)
    BY <2>2 DEF AlertsInv, MapTrue
  <2>. HIDE DEF m, id
  <2>4. /\ id # 0 /\ Says(m, ss[id], ParentOf(f, p, ss))
        /\ m.alert # NoName => LastNamed(al, m.alert) # 0
        /\ ss[id].alert = IF m.alert = NoName THEN 0 ELSE LastNamed(al, m.alert)
    BY <2>1, <2>3 DEF Agrees, AlertOf
  <2>. QED BY <2>4 DEF m, id
<1>3. prune => /\ Unlisted(ss, collectMonitorNames(f)) = {}
               /\ Unlisted(al, NamesOf(f.alerts)) = {}
  BY DEF SitesInv, SitesGone, AlertsInv, AlertsGone
<1>. QED BY <1>1, <1>2, <1>3 DEF Fixed

LEMMA NamedRows ==
  ASSUME NEW t, Bounded(t), NEW names, Unlisted(t, names) = {},
         \A n \in names : LastNamed(t, n) # 0
  PROVE  NamesOf(t) = names
<1>1. \A n \in names : n \in NamesOf(t)
  BY Newest
<1>2. \A n \in NamesOf(t) : n \in names
  BY DEF NamesOf, Unlisted
<1>. QED BY <1>1, <1>2

LEMMA FixedMatches ==
  ASSUME NEW f, NEW prune \in BOOLEAN, NEW d, Bounded(d.alerts), Bounded(d.sites),
         Fixed(f, prune, d.alerts, d.sites)
  PROVE  Matches(d, f, prune)
<1>. DEFINE al == d.alerts
            ss == d.sites
            alertId(n) == IF n = NoName THEN 0 ELSE LastNamed(d.alerts, n)
            parentId(p) == IF p[2] = 0 THEN 0 ELSE LastNamed(d.sites, At(f, <<p[1], 0>>).name)
            says(row, p) ==
              /\ row.kind = At(f, p).kind /\ Normal(row.body) = Normal(At(f, p).body)
              /\ row.dns = At(f, p).dns /\ row.paused = At(f, p).paused
              /\ row.alert = alertId(At(f, p).alert) /\ row.parent = parentId(p)
<1>1. \A i \in DOMAIN f.alerts :
        \E id \in {LastNamed(d.alerts, f.alerts[i].name)} \ {0} :
          d.alerts[id].body = f.alerts[i].body
  BY DEF Fixed
<1>2. ASSUME NEW p \in Places(f)
      PROVE  \E id \in {LastNamed(d.sites, At(f, p).name)} \ {0} : says(d.sites[id], p)
  <2>. DEFINE k == LastNamed(d.sites, At(f, p).name)
  <2>1. /\ k # 0 /\ Says(At(f, p), d.sites[k], ParentOf(f, p, d.sites))
        /\ d.sites[k].alert = alertId(At(f, p).alert)
    BY DEF Fixed
  <2>2. says(d.sites[k], p)
    BY <2>1 DEF Says, ParentOf
  <2>. QED BY <2>1, <2>2
<1>3. prune => /\ NamesOf(d.sites) = collectMonitorNames(f)
               /\ NamesOf(d.alerts) = NamesOf(f.alerts)
  <2>1. \A n \in collectMonitorNames(f) : LastNamed(ss, n) # 0
    BY DEF Fixed, collectMonitorNames
  <2>2. \A n \in NamesOf(f.alerts) : LastNamed(al, n) # 0
    BY DEF Fixed, NamesOf
  <2>3. prune => /\ Unlisted(ss, collectMonitorNames(f)) = {}
                 /\ Unlisted(al, NamesOf(f.alerts)) = {}
    BY DEF Fixed
  <2>. HIDE DEF ss, al
  <2>4. Bounded(ss) /\ Bounded(al)
    BY DEF ss, al
  <2>5. prune => NamesOf(ss) = collectMonitorNames(f) /\ NamesOf(al) = NamesOf(f.alerts)
    BY <2>1, <2>2, <2>3, <2>4, NamedRows
  <2>. QED BY <2>5 DEF ss, al
<1>. QED BY <1>1, <1>2, <1>3 DEF Matches
-----------------------------------------------------------------------------
(* The beginning of a run.                                                 *)

LEMMA Begun ==
  ASSUME TablesMade(db), NEW f, NEW exported, NEW dry \in BOOLEAN, NEW prune \in BOOLEAN,
         Begin(f, exported, dry, prune)
  PROVE  /\ db' = db /\ run.phase # "working"
         /\ prev' = [x \in DOMAIN Idle |-> run[x]]
         /\ run'.phase = IF Validate(f) THEN "working" ELSE "failed"
         /\ run'.file = f /\ run'.dry = dry /\ run'.prune = prune /\ run'.changes = {}
         /\ run'.exported = exported /\ run'.sound = WellFormed(db)
         /\ run'.fresh = IdsUnused(db) /\ run'.placeholder = -1 /\ run'.groupMap = <<>>
         /\ Shaped(run') /\ Fresh(run', db)
<1>1. /\ db' = db /\ run.phase # "working"
      /\ prev' = [x \in DOMAIN Idle |-> run[x]]
  BY DEF Begin
<1>. DEFINE al == db.alerts
            ss == db.sites
            ph == IF Validate(f) THEN "working" ELSE "failed"
            sd == WellFormed(db)
            fr == IdsUnused(db)
            map == [n \in NamesOf(db.alerts) |-> LastNamed(db.alerts, n)]
            w  == Work(f, prune, db)
            low == -1
<1>2. run' = [phase |-> ph, file |-> f, dry |-> dry, prune |-> prune, changes |-> {},
              exported |-> exported, sound |-> sd, fresh |-> fr,
              alerts |-> al, sites |-> ss, alertMap |-> map,
              groupMap |-> <<>>, placeholder |-> low, todo |-> w]
  BY DEF Begin
<1>3. \E m \in Nat : DOMAIN al \subseteq 1..m /\ DOMAIN ss \subseteq 1..m
  <2>. DEFINE ls == db.lastSite
              la == db.lastAlert
  <2>1. ls \in Nat /\ la \in Nat /\ DOMAIN ss \subseteq 1..ls /\ DOMAIN al \subseteq 1..la
    BY DEF TablesMade
  <2>. HIDE DEF ls, la, al, ss
  <2>2. CASE ls <= la
    <3>1. 1..ls \subseteq 1..la
      BY <2>1, <2>2
    <3>. QED BY <2>1, <3>1
  <2>3. CASE la <= ls
    <3>1. 1..la \subseteq 1..ls
      BY <2>1, <2>3
    <3>. QED BY <2>1, <3>1
  <2>. QED BY <2>1, <2>2, <2>3
<1>. HIDE DEF al, ss, ph, sd, fr, map, w, low
<1>4. /\ run'.phase = ph
      /\ run'.file = f /\ run'.dry = dry /\ run'.prune = prune /\ run'.changes = {}
      /\ run'.alerts = al /\ run'.sites = ss /\ run'.alertMap = map /\ run'.todo = w
      /\ run'.exported = exported /\ run'.sound = sd /\ run'.fresh = fr
      /\ run'.placeholder = low /\ run'.groupMap = <<>>
  BY ONLY <1>2
<1>5. run' = [x \in Fields |-> run'[x]]
  BY <1>2 DEF Fields
<1>6. Shaped(run')
  BY <1>3, <1>4, <1>5 DEF Shaped
<1>7. Fresh(run', db)
  BY <1>4 DEF Fresh, al, ss, map, w
<1>. QED BY <1>1, <1>4, <1>6, <1>7 DEF ph, sd, fr, low

LEMMA FreshQuiet ==
  ASSUME NEW r, NEW d, TablesMade(d), Fresh(r, d), r.phase = "working", r.changes = {},
         Fixed(r.file, r.prune, d.alerts, d.sites)
  PROVE  Quiet(r)
<1>1. Work(r.file, r.prune, r) = r.todo
  BY DEF Fresh, Work
<1>2. \A p \in Places(r.file) : ItemOf(r.file, p) \in r.todo
  BY DEF Fresh, Work
<1>3. \A i \in DOMAIN r.sites : RowShape(r.sites[i])
  <2>. DEFINE t == d.sites
  <2>1. t = [i \in DOMAIN t |->
               [name |-> t[i].name, kind |-> t[i].kind, body |-> t[i].body,
                dns |-> t[i].dns, alert |-> t[i].alert,
                parent |-> t[i].parent, paused |-> t[i].paused, token |-> t[i].token]]
    BY DEF TablesMade
  <2>2. r.sites = t
    BY DEF Fresh
  <2>. HIDE DEF t
  <2>3. \A i \in DOMAIN t : RowShape(t[i])
    BY ONLY <2>1 DEF RowShape
  <2>. QED BY <2>2, <2>3
<1>4. GroupsDone(r.file, r.todo, r.groupMap, r.sites)
  BY <1>2 DEF GroupsDone
<1>5. /\ r.todo \subseteq Work(r.file, r.prune, r)
      /\ r.alertMap = [n \in NamesOf(r.alerts) |-> LastNamed(r.alerts, n)]
      /\ Fixed(r.file, r.prune, r.alerts, r.sites)
  BY <1>1 DEF Fresh
<1>. QED BY <1>3, <1>4, <1>5 DEF Quiet
-----------------------------------------------------------------------------
(* What was exported is in force.                                          *)

\* A monitor of an exported file and the row it is made from.
OfRow(m, row, al) ==
  /\ m.name = row.name /\ m.kind = row.kind /\ m.dns = row.dns /\ m.paused = row.paused
  /\ m.body = IF row.body = "default" THEN "unset" ELSE row.body
  /\ m.alert = IF row.alert \in DOMAIN al THEN al[row.alert].name ELSE NoName

LEMMA Exported ==
  ASSUME NEW d, NEW id, NEW kids, NEW m, m = siteToMonitor(d, id, kids)
  PROVE  OfRow(m, d.sites[id], d.alerts) /\ m.monitors = kids
<1>. DEFINE row == d.sites[id]
            al == d.alerts
            name == IF row.alert \in DOMAIN al THEN al[row.alert].name ELSE NoName
            body == IF row.body = "default" THEN "unset" ELSE row.body
<1>1. m = [name |-> row.name, kind |-> row.kind, dns |-> row.dns, paused |-> row.paused,
           body |-> body, alert |-> name, monitors |-> kids]
  BY DEF siteToMonitor
<1>. HIDE DEF name, body, row
<1>2. /\ m.name = row.name /\ m.kind = row.kind /\ m.dns = row.dns /\ m.paused = row.paused
      /\ m.body = body /\ m.alert = name /\ m.monitors = kids
  BY ONLY <1>1
<1>. QED BY <1>2 DEF OfRow, name, body, row

RowOf(p) == IF p[2] = 0 THEN p[1] ELSE p[2]
IsGroup(t, i) == t[i].kind = "group"
Inside(t, i) == ~IsGroup(t, i) /\ t[i].parent > 0

\* Every row has its place in the file and every place its row.
LEMMA ExportPlaces ==
  ASSUME NEW d, NEW t, t = d.sites, NEW f, f = ExportFile(d)
  PROVE  /\ f.alerts = d.alerts
         /\ DOMAIN f.monitors = {i \in DOMAIN t : ~Inside(t, i)}
         /\ \A i \in DOMAIN f.monitors :
              /\ OfRow(f.monitors[i], t[i], d.alerts)
              /\ ~IsGroup(t, i) => f.monitors[i].monitors = <<>>
              /\ IsGroup(t, i) =>
                   LET kids == {j \in DOMAIN t : Inside(t, j) /\ t[j].parent = i}
                   IN  /\ DOMAIN f.monitors[i].monitors = kids
                       /\ \A j \in kids : /\ OfRow(f.monitors[i].monitors[j], t[j], d.alerts)
                                          /\ f.monitors[i].monitors[j].monitors = <<>>
<1>. DEFINE kids(g) == {j \in DOMAIN t : Inside(t, j) /\ t[j].parent = g}
            children(i) == IF IsGroup(t, i) THEN [j \in kids(i) |-> siteToMonitor(d, j, <<>>)]
                                            ELSE <<>>
            ms == [i \in {j \in DOMAIN t : ~Inside(t, j)} |-> siteToMonitor(d, i, children(i))]
<1>1. f = [alerts |-> d.alerts, monitors |-> ms]
  BY DEF ExportFile, IsGroup, Inside
<1>2. f.alerts = d.alerts /\ f.monitors = ms
  BY ONLY <1>1
<1>3. ASSUME NEW i \in DOMAIN t, ~Inside(t, i)
      PROVE  /\ OfRow(ms[i], t[i], d.alerts)
             /\ ms[i].monitors = children(i)
  <2>1. ms[i] = siteToMonitor(d, i, children(i))
    BY <1>3
  <2>. HIDE DEF ms, children
  <2>. QED BY <2>1, Exported
<1>4. ASSUME NEW i, IsGroup(t, i)
      PROVE  /\ DOMAIN children(i) = kids(i)
             /\ \A j \in kids(i) : /\ OfRow(children(i)[j], t[j], d.alerts)
                                   /\ children(i)[j].monitors = <<>>
  <2>1. \A j \in kids(i) : children(i)[j] = siteToMonitor(d, j, <<>>)
    BY <1>4
  <2>2. DOMAIN children(i) = kids(i)
    BY <1>4
  <2>. HIDE DEF children, kids
  <2>. QED BY <2>1, <2>2, Exported
<1>5. \A i : ~IsGroup(t, i) => children(i) = <<>>
  OBVIOUS
<1>6. DOMAIN ms = {j \in DOMAIN t : ~Inside(t, j)}
  OBVIOUS
<1>. HIDE DEF ms, children, kids
<1>7. ASSUME NEW i \in DOMAIN ms
      PROVE  /\ OfRow(ms[i], t[i], d.alerts)
             /\ ~IsGroup(t, i) => ms[i].monitors = <<>>
             /\ IsGroup(t, i) =>
                  /\ DOMAIN ms[i].monitors = kids(i)
                  /\ \A j \in kids(i) : /\ OfRow(ms[i].monitors[j], t[j], d.alerts)
                                        /\ ms[i].monitors[j].monitors = <<>>
  <2>1. OfRow(ms[i], t[i], d.alerts) /\ ms[i].monitors = children(i)
    BY <1>3, <1>6
  <2>. QED BY <1>4, <1>5, <2>1
<1>. QED BY <1>2, <1>6, <1>7 DEF kids

LEMMA ExportRows ==
  ASSUME NEW d, TablesMade(d), WellFormed(d), NEW t, t = d.sites, NEW f, f = ExportFile(d)
  PROVE  /\ \A p \in Places(f) :
              /\ RowOf(p) \in DOMAIN t /\ OfRow(At(f, p), t[RowOf(p)], d.alerts)
              /\ p[2] = 0 => t[p[1]].parent = 0
              /\ p[2] # 0 => /\ t[p[2]].parent = p[1] /\ p[1] \in DOMAIN t /\ p[1] # 0
                             /\ ~IsGroup(t, p[2]) /\ At(f, <<p[1], 0>>).name = t[p[1]].name
              /\ ~IsGroup(t, RowOf(p)) => At(f, p).monitors = <<>>
         /\ \A p, q \in Places(f) : RowOf(p) = RowOf(q) => p = q
         /\ \A id \in DOMAIN t : \E p \in Places(f) : RowOf(p) = id
<1>1. PICK m \in Nat : DOMAIN t \subseteq 1..m
  BY DEF TablesMade
<1>2. \A i \in DOMAIN t : i \in Nat \ {0}
  BY <1>1
<1>3. \A i \in DOMAIN t : t[i].parent # 0 => /\ ~IsGroup(t, i) /\ t[i].parent \in DOMAIN t
                                             /\ IsGroup(t, t[i].parent)
  BY DEF WellFormed, IsGroup
<1>4. \A i \in DOMAIN t : Inside(t, i) <=> t[i].parent # 0
  BY <1>2, <1>3 DEF Inside
<1>. DEFINE ms == f.monitors
            kids(i) == {j \in DOMAIN t : Inside(t, j) /\ t[j].parent = i}
<1>5. /\ DOMAIN ms = {i \in DOMAIN t : ~Inside(t, i)}
      /\ \A i \in DOMAIN ms :
           /\ OfRow(ms[i], t[i], d.alerts)
           /\ ~IsGroup(t, i) => ms[i].monitors = <<>>
           /\ IsGroup(t, i) => /\ DOMAIN ms[i].monitors = kids(i)
                               /\ \A j \in kids(i) :
                                    /\ OfRow(ms[i].monitors[j], t[j], d.alerts)
                                    /\ ms[i].monitors[j].monitors = <<>>
  BY ExportPlaces
<1>6. ASSUME NEW p \in Places(f)
      PROVE  /\ RowOf(p) \in DOMAIN t /\ OfRow(At(f, p), t[RowOf(p)], d.alerts)
             /\ p[2] = 0 => t[p[1]].parent = 0
             /\ p[2] # 0 => /\ t[p[2]].parent = p[1] /\ p[1] \in DOMAIN t /\ p[1] # 0
                            /\ ~IsGroup(t, p[2]) /\ At(f, <<p[1], 0>>).name = t[p[1]].name
             /\ ~IsGroup(t, RowOf(p)) => At(f, p).monitors = <<>>
  <2>1. /\ p[1] \in DOMAIN ms /\ (p[2] # 0 => p[2] \in DOMAIN ms[p[1]].monitors)
        /\ At(f, p) = IF p[2] = 0 THEN ms[p[1]] ELSE ms[p[1]].monitors[p[2]]
        /\ At(f, <<p[1], 0>>) = ms[p[1]]
    BY PlaceShape DEF At
  <2>. HIDE DEF ms
  <2>2. CASE p[2] = 0
    BY <1>4, <1>5, <2>1, <2>2 DEF RowOf
  <2>3. CASE p[2] # 0
    <3>1. IsGroup(t, p[1])
      <4>. SUFFICES ASSUME ~IsGroup(t, p[1]) PROVE FALSE
        OBVIOUS
      <4>1. ms[p[1]].monitors = <<>> /\ p[2] \in DOMAIN ms[p[1]].monitors
        BY <1>5, <2>1, <2>3
      <4>. QED BY <4>1
    <3>2. p[2] \in kids(p[1]) /\ OfRow(ms[p[1]].monitors[p[2]], t[p[2]], d.alerts)
          /\ ms[p[1]].monitors[p[2]].monitors = <<>>
      BY <1>5, <2>1, <2>3, <3>1
    <3>3. p[1] \in DOMAIN t /\ p[1] # 0 /\ ms[p[1]].name = t[p[1]].name
      BY <1>2, <1>5, <2>1 DEF OfRow
    <3>. QED BY <2>1, <2>3, <3>2, <3>3 DEF RowOf, Inside
  <2>. QED BY <2>2, <2>3
<1>7. ASSUME NEW p \in Places(f), NEW q \in Places(f), RowOf(p) = RowOf(q)
      PROVE  p = q
  <2>1. p = <<p[1], p[2]>> /\ q = <<q[1], q[2]>>
    BY PlaceShape
  <2>2. /\ p[2] = 0 <=> t[RowOf(p)].parent = 0
        /\ q[2] = 0 <=> t[RowOf(q)].parent = 0
    BY <1>6 DEF RowOf
  <2>3. p[1] = q[1] /\ p[2] = q[2]
    BY <1>6, <1>7, <2>2 DEF RowOf
  <2>. QED BY <2>1, <2>3
<1>8. ASSUME NEW id \in DOMAIN t
      PROVE  \E p \in Places(f) : RowOf(p) = id
  <2>1. CASE ~Inside(t, id)
    <3>1. <<id, 0>> \in Places(f)
      BY <1>5, <2>1 DEF Places
    <3>. QED BY <3>1 DEF RowOf
  <2>2. CASE Inside(t, id)
    <3>. DEFINE g == t[id].parent
    <3>1. g \in DOMAIN t /\ IsGroup(t, g) /\ id \in kids(g) /\ id # 0
      BY <1>2, <1>3, <1>4, <2>2
    <3>2. g \in DOMAIN ms /\ id \in DOMAIN ms[g].monitors
      BY <1>5, <3>1 DEF Inside
    <3>3. <<g, id>> \in Places(f)
      BY <3>2 DEF Places
    <3>. QED BY <3>1, <3>3 DEF RowOf
  <2>. QED BY <2>1, <2>2
<1>. QED BY <1>6, <1>7, <1>8

LEMMA UniqueLast ==
  ASSUME NEW t, Bounded(t), Unique(t), NEW id \in DOMAIN t, NEW n, n = t[id].name
  PROVE  LastNamed(t, n) = id /\ id # 0
<1>1. \A i \in DOMAIN t : t[i].name = n => i <= id
  BY DEF Unique, Bounded
<1>2. LastNamed(t, n) = id
  BY <1>1, LastIs
<1>. QED BY <1>2 DEF Bounded

LEMMA ExportMade ==
  ASSUME NEW d, TablesMade(d), NEW f, f = ExportFile(d)
  PROVE  FileMade(f)
<1>. DEFINE t == d.sites
            al == d.alerts
<1>1. Bounded(t) /\ Bounded(al)
  BY DEF Bounded, TablesMade
<1>2. f.alerts = al
  BY ExportPlaces
<1>3. \A i \in DOMAIN t : i \in Nat \ {0}
  BY <1>1 DEF Bounded
<1>4. \A i \in DOMAIN al : i \in Nat \ {0}
  BY <1>1 DEF Bounded
<1>5. /\ DOMAIN f.monitors \subseteq DOMAIN t
      /\ \A i \in DOMAIN f.monitors : DOMAIN f.monitors[i].monitors \subseteq DOMAIN t
  <2>. DEFINE ms == f.monitors
  <2>1. /\ DOMAIN ms = {i \in DOMAIN t : ~Inside(t, i)}
        /\ \A i \in DOMAIN ms :
             /\ ~IsGroup(t, i) => ms[i].monitors = <<>>
             /\ IsGroup(t, i) => DOMAIN ms[i].monitors
                                    = {j \in DOMAIN t : Inside(t, j) /\ t[j].parent = i}
    BY ExportPlaces
  <2>. HIDE DEF ms
  <2>2. ASSUME NEW i \in DOMAIN ms PROVE DOMAIN ms[i].monitors \subseteq DOMAIN t
    <3>1. CASE IsGroup(t, i)
      BY <2>1, <3>1
    <3>2. CASE ~IsGroup(t, i)
      <4>1. ms[i].monitors = <<>>
        BY <2>1, <3>2
      <4>2. DOMAIN (<<>>) = {}
        OBVIOUS
      <4>. QED BY <4>1, <4>2
    <3>. QED BY <3>1, <3>2
  <2>. QED BY <2>1, <2>2 DEF ms
<1>. QED BY <1>2, <1>3, <1>4, <1>5 DEF FileMade

LEMMA ExportInForce ==
  ASSUME NEW d, TablesMade(d), WellFormed(d), NEW f, f = ExportFile(d)
  PROVE  /\ Validate(f)
         /\ \A prune : Fixed(f, prune, d.alerts, d.sites)
<1>. DEFINE t == d.sites
            al == d.alerts
<1>1. Bounded(t) /\ Bounded(al) /\ Unique(t) /\ Unique(al)
  BY DEF Bounded, TablesMade, WellFormed
<1>2. f.alerts = al
  BY ExportPlaces
<1>3. /\ \A p \in Places(f) :
           /\ RowOf(p) \in DOMAIN t /\ OfRow(At(f, p), t[RowOf(p)], al)
           /\ p[2] = 0 => t[p[1]].parent = 0
           /\ p[2] # 0 => /\ t[p[2]].parent = p[1] /\ p[1] \in DOMAIN t /\ p[1] # 0
                          /\ ~IsGroup(t, p[2]) /\ At(f, <<p[1], 0>>).name = t[p[1]].name
           /\ ~IsGroup(t, RowOf(p)) => At(f, p).monitors = <<>>
      /\ \A p, q \in Places(f) : RowOf(p) = RowOf(q) => p = q
      /\ \A id \in DOMAIN t : \E p \in Places(f) : RowOf(p) = id
  BY ExportRows
<1>4. /\ \A i \in DOMAIN al : al[i].name # NoName /\ al[i].body # "missing"
      /\ \A i \in DOMAIN t : /\ t[i].name # NoName /\ t[i].kind \in Kinds
                             /\ t[i].body # "missing"
                             /\ t[i].alert \in DOMAIN al \cup {0}
  BY DEF WellFormed
<1>. HIDE DEF t, al
<1>6. Validate(f)
  <2>1. ASSUME NEW p \in Places(f), NEW q \in Places(f), At(f, p).name = At(f, q).name
        PROVE  p = q
    <3>1. /\ RowOf(p) \in DOMAIN t /\ RowOf(q) \in DOMAIN t
          /\ t[RowOf(p)].name = t[RowOf(q)].name
      BY <1>3, <2>1 DEF OfRow
    <3>2. RowOf(p) = RowOf(q)
      BY ONLY <1>1, <3>1 DEF Unique
    <3>. QED BY <1>3, <3>2
  <2>2. ASSUME NEW p \in Places(f) PROVE validateMonitor(At(f, p), p[2] # 0)
    <3>. DEFINE m == At(f, p)
                row == t[RowOf(p)]
    <3>1. /\ OfRow(m, row, al) /\ row.name # NoName /\ row.kind \in Kinds
          /\ row.body # "missing" /\ (row.kind # "group" => m.monitors = <<>>)
          /\ row.kind = "group" => p[2] = 0
      BY <1>3, <1>4 DEF IsGroup, RowOf
    <3>. HIDE DEF m, row
    <3>2. /\ m.name # NoName /\ m.kind \in Kinds /\ m.body # "missing"
          /\ m.kind = "group" => p[2] = 0
          /\ m.kind # "group" => m.monitors = <<>>
      BY <3>1 DEF OfRow
    <3>. QED BY <3>2 DEF validateMonitor, m
  <2>. QED BY <1>1, <1>2, <1>4, <2>1, <2>2 DEF Validate
<1>7. ASSUME NEW p \in Places(f)
      PROVE  LET m  == At(f, p)
                 id == LastNamed(t, m.name)
             IN  /\ id # 0 /\ Says(m, t[id], ParentOf(f, p, t))
                 /\ m.alert # NoName => LastNamed(al, m.alert) # 0
                 /\ t[id].alert = IF m.alert = NoName THEN 0 ELSE LastNamed(al, m.alert)
  <2>. DEFINE m  == At(f, p)
              id == RowOf(p)
              row == t[id]
              parent == ParentOf(f, p, t)
  <2>1. id \in DOMAIN t /\ OfRow(m, row, al)
    BY <1>3
  <2>2. LastNamed(t, m.name) = id /\ id # 0
    BY <1>1, <2>1, UniqueLast DEF OfRow
  <2>3. row.parent = parent
    <3>1. CASE p[2] = 0
      BY <1>3, <3>1 DEF ParentOf, RowOf
    <3>2. CASE p[2] # 0
      <4>1. /\ row.parent = p[1] /\ p[1] \in DOMAIN t
            /\ At(f, <<p[1], 0>>).name = t[p[1]].name
        BY <1>3, <3>2 DEF RowOf
      <4>2. LastNamed(t, t[p[1]].name) = p[1]
        BY <1>1, <4>1, UniqueLast
      <4>. QED BY <3>2, <4>1, <4>2 DEF ParentOf
    <3>. QED BY <3>1, <3>2
  <2>4. row.alert \in DOMAIN al => /\ LastNamed(al, al[row.alert].name) = row.alert
                                   /\ row.alert # 0 /\ al[row.alert].name # NoName
    BY <1>1, <1>4, UniqueLast
  <2>5. row.alert \in DOMAIN al \cup {0}
    BY <1>4, <2>1
  <2>. HIDE DEF m, id, row, parent
  <2>6. Says(m, row, parent)
    BY <2>1, <2>3 DEF OfRow, Says, Normal
  <2>7. /\ m.alert # NoName => LastNamed(al, m.alert) # 0
        /\ row.alert = IF m.alert = NoName THEN 0 ELSE LastNamed(al, m.alert)
    BY <2>1, <2>4, <2>5 DEF OfRow
  <2>8. /\ LastNamed(t, m.name) # 0 /\ t[LastNamed(t, m.name)] = row
    BY <2>2 DEF row
  <2>9. /\ LastNamed(t, m.name) # 0 /\ Says(m, t[LastNamed(t, m.name)], parent)
        /\ m.alert # NoName => LastNamed(al, m.alert) # 0
        /\ t[LastNamed(t, m.name)].alert
             = IF m.alert = NoName THEN 0 ELSE LastNamed(al, m.alert)
    BY <2>6, <2>7, <2>8
  <2>. QED BY <2>9 DEF m, parent
<1>8. \A i \in DOMAIN f.alerts :
        LET id == LastNamed(al, f.alerts[i].name) IN id # 0 /\ al[id].body = f.alerts[i].body
  BY <1>1, <1>2, UniqueLast
<1>9. Unlisted(t, collectMonitorNames(f)) = {} /\ Unlisted(al, NamesOf(f.alerts)) = {}
  <2>1. \A id \in DOMAIN t : t[id].name \in collectMonitorNames(f)
    <3>. TAKE id \in DOMAIN t
    <3>1. PICK p \in Places(f) : RowOf(p) = id
      BY <1>3
    <3>2. At(f, p).name = t[id].name
      BY <1>3, <3>1 DEF OfRow
    <3>. QED BY <3>2 DEF collectMonitorNames
  <2>. QED BY <1>2, <2>1 DEF Unlisted, NamesOf
<1>10. \A prune : Fixed(f, prune, al, t)
  BY <1>7, <1>8, <1>9 DEF Fixed
<1>. QED BY <1>6, <1>10 DEF t, al
-----------------------------------------------------------------------------
(* The answer of a run: it is told from the file and the snapshot.         *)

LEMMA WorkInts ==
  ASSUME NEW f, FileMade(f), NEW prune, NEW r, Bounded(r.alerts), Bounded(r.sites),
         NEW x \in Work(f, prune, r)
  PROVE  x[1] \in Int /\ x[2] \in Int /\ x[3] \in Int
<1>1. CASE \E i \in DOMAIN f.alerts : x = AlertItem(i)
  BY <1>1 DEF AlertItem, AlertStage, FileMade
<1>2. CASE \E p \in Places(f) : x = ItemOf(f, p)
  <2>1. PICK p \in Places(f) : x = ItemOf(f, p)
    BY <1>2
  <2>2. x[1] \in {2, 3, 4} /\ x[2] = p[1] /\ x[3] = p[2]
    BY <2>1, ItemParts, StageIs
  <2>. DEFINE ms == f.monitors
  <2>3. p[1] \in DOMAIN ms /\ (p[2] # 0 => p[2] \in DOMAIN ms[p[1]].monitors)
    BY PlaceShape
  <2>4. DOMAIN ms \subseteq Nat \ {0} /\ \A i \in DOMAIN ms : DOMAIN ms[i].monitors \subseteq Nat \ {0}
    BY DEF FileMade
  <2>. HIDE DEF ms
  <2>. QED BY <2>2, <2>3, <2>4
<1>3. CASE \E id \in DOMAIN r.sites : x = <<SitePrune, id, 0>>
  BY <1>3 DEF SitePrune, Bounded
<1>4. CASE \E id \in DOMAIN r.alerts : x = <<AlertPrune, id, 0>>
  BY <1>4 DEF AlertPrune, Bounded
<1>. QED BY <1>1, <1>2, <1>3, <1>4, WorkKinds DEF Unlisted

LEMMA BeforeOnce ==
  ASSUME NEW x, NEW y, x[1] \in Int, x[2] \in Int, x[3] \in Int,
         y[1] \in Int, y[2] \in Int, y[3] \in Int, Before(x, y), Before(y, x)
  PROVE  FALSE
BY DEF Before

\* Two runs of the same file on the same snapshot answer the same.
LEMMA AnswerOnce ==
  ASSUME NEW f, FileMade(f), NEW prune, NEW r, Bounded(r.alerts), Bounded(r.sites),
         NEW ph1, NEW ch1, Answer(f, prune, r, ph1, ch1),
         NEW ph2, NEW ch2, Answer(f, prune, r, ph2, ch2)
  PROVE  ph1 = ph2 /\ ch1 = ch2
<1>1. CASE ~Validate(f)
  BY <1>1 DEF Answer
<1>2. CASE Validate(f)
  <2>. DEFINE A == r.alerts
              S == r.sites
              W == Work(f, prune, r)
              T == StuckItems(f, A)
  <2>1. PICK t1 : Progress(f, A, S, W, t1, ch1) /\ Stopped(f, A, t1, ph1)
    BY <1>2 DEF Answer
  <2>2. PICK t2 : Progress(f, A, S, W, t2, ch2) /\ Stopped(f, A, t2, ph2)
    BY <1>2 DEF Answer
  <2>3. T \subseteq W
    BY DEF StuckItems, Work
  <2>4. \A x \in W : x[1] \in Int /\ x[2] \in Int /\ x[3] \in Int
    BY WorkInts
  <2>5. \A x, y \in W : ~(Before(x, y) /\ Before(y, x))
    BY <2>4, BeforeOnce
  <2>. HIDE DEF W, T
  <2>6. /\ \A x \in W \ t1 : x \notin T
        /\ \A x \in W \ t1, y \in W \cap t1 : Before(x, y)
        /\ \A x \in W \ t2 : x \notin T
        /\ \A x \in W \ t2, y \in W \cap t2 : Before(x, y)
    BY <2>1, <2>2 DEF Progress, T
  <2>7. /\ \/ ph1 = "done" /\ t1 = {}
           \/ ph1 = "failed" /\ \E x \in t1 \cap T : \A y \in t1 \ {x} : Before(x, y)
        /\ \/ ph2 = "done" /\ t2 = {}
           \/ ph2 = "failed" /\ \E x \in t2 \cap T : \A y \in t2 \ {x} : Before(x, y)
    BY <2>1, <2>2 DEF Stopped, T
  <2>8. ph1 = ph2 /\ W \ t1 = W \ t2
    <3>1. CASE ph1 = "done" /\ ph2 = "done"
      BY <2>7, <3>1
    <3>2. CASE ph1 = "failed" /\ ph2 = "failed"
      <4>1. PICK x \in t1 \cap T : \A y \in t1 \ {x} : Before(x, y)
        BY <2>7, <3>2
      <4>2. PICK z \in t2 \cap T : \A y \in t2 \ {z} : Before(z, y)
        BY <2>7, <3>2
      <4>3. x \in W /\ z \in W /\ x \in t2 /\ z \in t1
        BY <2>3, <2>6, <4>1, <4>2
      <4>4. x = z
        BY <2>5, <4>1, <4>2, <4>3
      <4>5. ASSUME NEW y \in W PROVE y \in t1 <=> y \in t2
        BY <2>5, <2>6, <4>1, <4>2, <4>3, <4>4
      <4>. QED BY <3>2, <4>5
    <3>3. CASE ph1 # ph2
      BY <2>3, <2>6, <2>7, <3>3
    <3>. QED BY <2>7, <3>1, <3>2, <3>3
  <2>9. ch1 = ch2
    <3>1. /\ ch1 = UNION {Gives(f, A, S, x) : x \in W \ t1}
          /\ ch2 = UNION {Gives(f, A, S, x) : x \in W \ t2}
      BY <2>1, <2>2 DEF Progress
    <3>. QED BY <2>8, <3>1
  <2>. QED BY <2>8, <2>9
<1>. QED BY <1>1, <1>2

LEMMA Advance ==
  ASSUME NEW f, NEW A, NEW S, NEW W, NEW todo, NEW changes,
         Progress(f, A, S, W, todo, changes),
         NEW x \in W, x \in todo, \A y \in todo \ {x} : Before(x, y), x \notin StuckItems(f, A),
         NEW rest, W \cap rest = (W \cap todo) \ {x},
         NEW more, more = changes \cup Gives(f, A, S, x)
  PROVE  Progress(f, A, S, W, rest, more)
<1>. DEFINE G(y) == Gives(f, A, S, y)
            T == StuckItems(f, A)
<1>1. /\ changes = UNION {G(y) : y \in W \ todo}
      /\ \A y \in W \ todo : y \notin T
      /\ \A y \in W \ todo, z \in W \cap todo : Before(y, z)
  BY DEF Progress
<1>2. W \ rest = (W \ todo) \cup {x}
  OBVIOUS
<1>. HIDE DEF G, T
<1>3. more = UNION {G(y) : y \in W \ rest}
  <2>1. more = changes \cup G(x)
    BY DEF G
  <2>. QED BY <1>1, <1>2, <2>1
<1>4. \A y \in W \ rest : y \notin T
  BY <1>1, <1>2 DEF T
<1>5. \A y \in W \ rest, z \in W \cap rest : Before(y, z)
  BY <1>1, <1>2
<1>. QED BY <1>3, <1>4, <1>5 DEF Progress, G, T

\* The second half of a deletion is not in the work.
LEMMA AdvanceNot ==
  ASSUME NEW f, NEW A, NEW S, NEW W, NEW todo, NEW changes,
         Progress(f, A, S, W, todo, changes),
         NEW rest, W \cap rest = W \cap todo
  PROVE  Progress(f, A, S, W, rest, changes)
<1>1. W \ rest = W \ todo
  OBVIOUS
<1>. QED BY <1>1 DEF Progress

\* Is the monitor at p as its row already?
LEMMA DiffersSame ==
  ASSUME NEW f, NEW A, NEW S, NEW p \in Places(f), NEW m, m = At(f, p),
         NEW old, old = LastNamed(S, m.name), NEW row, row = S[old], RowShape(row),
         NEW w,
         w.kind = m.kind, w.body = Normal(m.body), w.dns = m.dns, w.paused = m.paused,
         (w.alert = row.alert)
           <=> IF m.alert = NoName THEN row.alert = 0 ELSE Points(row.alert, m.alert, A),
         (w.parent = row.parent)
           <=> IF p[2] = 0 THEN row.parent = 0
                           ELSE Points(row.parent, At(f, <<p[1], 0>>).name, S)
  PROVE  diffSite(row, w) <=> Differs(f, A, S, p)
<1>1. diffSite(row, w) <=> ~ (/\ row.kind = w.kind /\ Normal(row.body) = w.body
                              /\ row.dns = w.dns /\ row.alert = w.alert
                              /\ row.parent = w.parent /\ row.paused = w.paused)
  BY DiffersNot
<1>. QED BY <1>1 DEF Differs
-----------------------------------------------------------------------------
(* Each item adds to the answer what the file and the snapshot say.        *)

LEMMA SequencesGrow ==
  ASSUME NEW d, TablesMade(d), NEW row, NEW id
  PROVE  /\ AddAlert(d, row).lastAlert = d.lastAlert + 1
         /\ AddAlert(d, row).lastSite = d.lastSite
         /\ UpdateAlert(d, id, row).lastAlert = d.lastAlert
         /\ UpdateAlert(d, id, row).lastSite = d.lastSite
         /\ AddSite(d, row).lastAlert = d.lastAlert
         /\ AddSite(d, row).lastSite = d.lastSite + 1
         /\ UpdateSite(d, id, row).lastAlert = d.lastAlert
         /\ UpdateSite(d, id, row).lastSite = d.lastSite
<1>1. /\ AddAlert(d, row).lastAlert = d.lastAlert + 1
      /\ AddAlert(d, row).lastSite = d.lastSite
  BY DEF AddAlert, TablesMade, IsDb
<1>2. /\ UpdateAlert(d, id, row).lastAlert = d.lastAlert
      /\ UpdateAlert(d, id, row).lastSite = d.lastSite
  BY DEF UpdateAlert, TablesMade, IsDb
<1>3. /\ AddSite(d, row).lastAlert = d.lastAlert
      /\ AddSite(d, row).lastSite = d.lastSite + 1
  <2>. DEFINE tok == Tokened(d, [row EXCEPT !.token = 0])
              new == With(d.sites, d.lastSite + 1, tok.row)
              n   == tok.tokens
  <2>1. AddSite(d, row) = [d EXCEPT !.sites = new, !.lastSite = d.lastSite + 1, !.tokens = n]
    BY DEF AddSite, TablesMade, IsDb
  <2>. HIDE DEF new, n
  <2>. QED BY <2>1 DEF TablesMade, IsDb
<1>4. /\ UpdateSite(d, id, row).lastAlert = d.lastAlert
      /\ UpdateSite(d, id, row).lastSite = d.lastSite
  BY DEF UpdateSite, WriteRow, TablesMade, IsDb
<1>. QED BY <1>1, <1>2, <1>3, <1>4

LEMMA IdsKept ==
  ASSUME NEW dry, NEW S, NEW todo, NEW ph, NEW la \in Nat, NEW ls \in Nat,
         IdPlan(dry, S, todo, ph, la, ls),
         NEW rest, Early(rest) => Early(todo), NEW ph2, ph2 = ph \/ ph2 = ph - 1,
         NEW la2, NEW ls2,
         ~dry /\ Early(rest) => /\ la2 = la \/ la2 = la + 1
                                /\ ls2 = ls \/ ls2 = ls + 1
  PROVE  IdPlan(dry, S, rest, ph2, la2, ls2)
<1>1. /\ ph \in Int /\ ph < 0
      /\ \A i \in DOMAIN S : S[i].alert \in Nat /\ S[i].parent \in Nat
      /\ ~dry /\ Early(todo) => \A i \in DOMAIN S : S[i].alert <= la /\ S[i].parent <= ls
  BY DEF IdPlan
<1>2. ph2 \in Int /\ ph2 < 0
  BY <1>1
<1>3. ASSUME ~dry, Early(rest), NEW i \in DOMAIN S
      PROVE  S[i].alert <= la2 /\ S[i].parent <= ls2
  <2>. DEFINE a == S[i].alert
              b == S[i].parent
  <2>1. a \in Nat /\ b \in Nat /\ a <= la /\ b <= ls
    BY <1>1, <1>3
  <2>2. (la2 = la \/ la2 = la + 1) /\ (ls2 = ls \/ ls2 = ls + 1)
    BY <1>3
  <2>. HIDE DEF a, b
  <2>3. a <= la2 /\ b <= ls2
    BY ONLY <2>1, <2>2, la \in Nat, ls \in Nat
  <2>. QED BY <2>3 DEF a, b
<1>. QED BY <1>1, <1>2, <1>3 DEF IdPlan

\* No row refers to an id the run gives out.
LEMMA IdsNew ==
  ASSUME NEW dry, NEW S, NEW todo, NEW ph, NEW la \in Nat, NEW ls \in Nat,
         IdPlan(dry, S, todo, ph, la, ls), Early(todo), NEW i \in DOMAIN S
  PROVE  /\ S[i].alert # IF dry THEN ph ELSE la + 1
         /\ S[i].parent # IF dry THEN ph ELSE ls + 1
<1>. DEFINE a == S[i].alert
            b == S[i].parent
<1>1. /\ a \in Nat /\ b \in Nat /\ ph \in Int /\ ph < 0
      /\ ~dry => a <= la /\ b <= ls
  BY DEF IdPlan
<1>. HIDE DEF a, b
<1>2. /\ a # IF dry THEN ph ELSE la + 1
      /\ b # IF dry THEN ph ELSE ls + 1
  BY ONLY <1>1, la \in Nat, ls \in Nat
<1>. QED BY <1>2 DEF a, b

LEMMA MapAlert ==
  ASSUME NEW al, NEW A, Bounded(A), NEW S, NEW todo, NEW map,
         MapPlan(al, A, S, todo, map), NEW i \in DOMAIN al, NEW n, n = al[i].name,
         NEW rest, \A j : AlertItem(j) \in rest <=> AlertItem(j) \in todo /\ j # i,
         NEW new, \A j \in DOMAIN S : S[j].alert # new,
         NEW u, u = IF LastNamed(A, n) = 0 THEN With(map, n, new) ELSE map
  PROVE  MapPlan(al, A, S, rest, u)
<1>1. /\ n \in NamesOf(A) <=> LastNamed(A, n) # 0
      /\ n \in NamesOf(al)
  <2>1. n \in NamesOf(A) => LastNamed(A, n) \in DOMAIN A
    BY Newest
  <2>. QED BY <2>1, Newest DEF Bounded, NamesOf
<1>2. CASE LastNamed(A, n) = 0
  <2>1. /\ DOMAIN u = DOMAIN map \cup {n} /\ u[n] = new
        /\ \A l \in DOMAIN map : l # n => u[l] = map[l]
    BY <1>2 DEF With
  <2>. QED BY <1>1, <1>2, <2>1 DEF MapPlan
<1>3. CASE LastNamed(A, n) # 0
  BY <1>1, <1>3 DEF MapPlan
<1>. QED BY <1>2, <1>3

\* No row refers to parent id; the map of groups once p has been met.
NoneUnder(S, id) == \A j \in DOMAIN S : S[j].parent # id
Grouped(f, p, gmap, n, id) == IF StageOf(f, p) = GroupStage THEN With(gmap, n, id) ELSE gmap

LEMMA GroupMade ==
  ASSUME NEW f, Sane(f), NEW S, Bounded(S), NEW todo, NEW gmap,
         GroupPlan(f, S, todo, gmap), NEW p \in Places(f), NEW n, n = At(f, p).name,
         NEW old, old = LastNamed(S, n), NEW rest, rest = todo \ {ItemOf(f, p)},
         NEW new, NoneUnder(S, new),
         NEW u, u = Grouped(f, p, gmap, n, IF old = 0 THEN new ELSE old)
  PROVE  GroupPlan(f, S, rest, u)
<1>1. n \in NamesOf(S) <=> old # 0
  <2>1. n \in NamesOf(S) => LastNamed(S, n) \in DOMAIN S
    BY Newest
  <2>. QED BY <2>1, Newest DEF Bounded
<1>2. \A o \in Places(f) : o # p => /\ At(f, o).name # n
                                    /\ ItemOf(f, o) \in rest <=> ItemOf(f, o) \in todo
  BY ItemsDiffer DEF Sane
<1>. SUFFICES ASSUME NEW o \in Places(f), StageOf(f, o) = GroupStage,
                     ItemOf(f, o) \notin rest, NEW l, l = At(f, o).name
              PROVE  /\ l \in DOMAIN u
                     /\ IF l \in NamesOf(S) THEN u[l] = LastNamed(S, l)
                                            ELSE \A j \in DOMAIN S : S[j].parent # u[l]
  BY DEF GroupPlan
<1>3. CASE o = p
  <2>1. l = n /\ l \in DOMAIN u /\ u[l] = IF old = 0 THEN new ELSE old
    BY <1>3 DEF With, Grouped
  <2>. QED BY <1>1, <2>1 DEF NoneUnder
<1>4. CASE o # p
  <2>1. /\ l # n /\ l \in DOMAIN gmap
        /\ IF l \in NamesOf(S) THEN gmap[l] = LastNamed(S, l)
                               ELSE \A j \in DOMAIN S : S[j].parent # gmap[l]
    BY <1>2, <1>4 DEF GroupPlan
  <2>2. l \in DOMAIN u /\ u[l] = gmap[l]
    BY ONLY <2>1, u = Grouped(f, p, gmap, n, IF old = 0 THEN new ELSE old) DEF With, Grouped
  <2>. QED BY <2>1, <2>2
<1>. QED BY <1>3, <1>4

LEMMA PlannedRest ==
  ASSUME NEW r, NEW q, Kept(r, q), NEW d, NEW e, Planned(r, d),
         Progress(r.file, r.alerts, r.sites, Work(r.file, r.prune, r), q.todo, q.changes),
         MapPlan(r.file.alerts, r.alerts, r.sites, q.todo, q.alertMap),
         GroupPlan(r.file, r.sites, q.todo, q.groupMap),
         IdPlan(r.dry, r.sites, q.todo, q.placeholder, e.lastAlert, e.lastSite)
  PROVE  Planned(q, e)
<1>1. Work(q.file, q.prune, q) = Work(r.file, r.prune, r)
  BY DEF Kept, Work
<1>2. /\ q.file = r.file /\ q.alerts = r.alerts /\ q.sites = r.sites /\ q.dry = r.dry
  BY DEF Kept
<1>3. \A i \in DOMAIN r.sites : RowShape(r.sites[i])
  BY DEF Planned
<1>. QED BY ONLY <1>1, <1>2, <1>3,
     Progress(r.file, r.alerts, r.sites, Work(r.file, r.prune, r), q.todo, q.changes),
     MapPlan(r.file.alerts, r.alerts, r.sites, q.todo, q.alertMap),
     GroupPlan(r.file, r.sites, q.todo, q.groupMap),
     IdPlan(r.dry, r.sites, q.todo, q.placeholder, e.lastAlert, e.lastSite) DEF Planned

\* Monitors are met when all alerts have been done.
LEMMA StuckThen ==
  ASSUME NEW r, NEW f, f = r.file, NEW d, Planned(r, d), NEW p \in Places(f),
         First(r, ItemOf(f, p))
  PROVE  Stuck(r, ItemOf(f, p)) <=> ItemOf(f, p) \in StuckItems(f, r.alerts)
<1>. DEFINE x == ItemOf(f, p)
            m == At(f, p)
            al == f.alerts
            A == r.alerts
            map == r.alertMap
            todo == r.todo
<1>1. Stuck(r, x) <=> (m.alert # NoName /\ m.alert \notin DOMAIN map)
  BY StuckNot
<1>2. x \in StuckItems(f, A) <=> m.alert \notin NamesOf(A) \cup NamesOf(al) \cup {NoName}
  BY ItemsDiffer DEF StuckItems
<1>3. /\ NamesOf(A) \subseteq DOMAIN map /\ DOMAIN map \subseteq NamesOf(A) \cup NamesOf(al)
      /\ \A i \in DOMAIN al : AlertItem(i) \notin todo => al[i].name \in DOMAIN map
  BY DEF Planned, MapPlan
<1>4. ASSUME NEW i \in DOMAIN al PROVE AlertItem(i) \notin todo
  <2>1. x[1] \in {2, 3, 4}
    BY ItemParts, StageIs
  <2>2. AlertItem(i)[1] = 1
    BY DEF AlertItem, AlertStage
  <2>. DEFINE y == AlertItem(i)
  <2>. HIDE DEF x, y
  <2>3. y # x /\ ~Before(x, y)
    BY <2>1, <2>2 DEF Before, y
  <2>. QED BY <2>3 DEF First, x, y
<1>5. NamesOf(al) \subseteq DOMAIN map
  BY <1>3, <1>4 DEF NamesOf
<1>. QED BY <1>1, <1>2, <1>3, <1>5
LEMMA PlannedAlert ==
  ASSUME NEW r, Shaped(r), NEW d, TablesMade(d), Planned(r, d),
         NEW i \in DOMAIN r.file.alerts, NEW x, x = AlertItem(i), First(r, x),
         NEW q, q = ApplyAlert(r, d, x).run, NEW e, e = ApplyAlert(r, d, x).db
  PROVE  Planned(q, e)
<1>. DEFINE f == r.file
            al == r.file.alerts
            A == r.alerts
            S == r.sites
            W == Work(r.file, r.prune, r)
            todo == r.todo
            map == r.alertMap
            la == d.lastAlert
            ls == d.lastSite
            ph == r.placeholder
            dry == r.dry
            a == al[i]
            old == LastNamed(A, a.name)
            row == [name |-> a.name, body |-> a.body]
            new == IF dry THEN ph ELSE la + 1
<1>1. /\ Kept(r, q) /\ q.todo = todo \ {x} /\ q.groupMap = r.groupMap
      /\ old = 0 => /\ q.alertMap = With(map, a.name, new)
                    /\ q.placeholder = IF dry THEN ph - 1 ELSE ph
                    /\ q.changes = r.changes \cup {Note("create", "alert", a.name)}
                    /\ e = IF dry THEN d ELSE AddAlert(d, row)
      /\ old # 0 => /\ q.alertMap = map /\ q.placeholder = ph
                    /\ A[old].body # a.body =>
                         /\ q.changes = r.changes \cup {Note("update", "alert", a.name)}
                         /\ e = IF dry THEN d ELSE UpdateAlert(d, old, row)
                    /\ A[old].body = a.body => q.changes = r.changes /\ e = d
  BY ONLY Shaped(r), x = AlertItem(i), q = ApplyAlert(r, d, x).run,
          e = ApplyAlert(r, d, x).db, AlertRun
<1>2. /\ Progress(f, A, S, W, todo, r.changes) /\ MapPlan(al, A, S, todo, map)
      /\ GroupPlan(f, S, todo, r.groupMap) /\ IdPlan(dry, S, todo, ph, la, ls)
  BY DEF Planned
<1>3. /\ x \in todo /\ (\A y \in todo \ {x} : Before(x, y)) /\ x \in W
  BY DEF First, Work, AlertItem
<1>4. la \in Nat /\ ls \in Nat /\ Bounded(A)
  BY DEF TablesMade, Shaped, Bounded
<1>5. x[1] = AlertStage /\ x[2] = i
  BY DEF AlertItem
<1>6. Early(todo) /\ (Early(q.todo) => Early(todo))
  BY <1>1, <1>3, <1>5 DEF Early, AlertStage
<1>7. q.changes = r.changes \cup Gives(f, A, S, x)
  <2>1. Gives(f, A, S, x) = AlertGives(a, A)
    BY <1>5 DEF Gives
  <2>2. q.changes = r.changes \cup AlertGives(a, A)
    <3>. HIDE DEF A, a, old
    <3>1. r.changes \cup {} = r.changes
      OBVIOUS
    <3>2. q.changes = r.changes \cup (IF old = 0 THEN {Note("create", "alert", a.name)}
                       ELSE IF A[old].body # a.body THEN {Note("update", "alert", a.name)}
                       ELSE {})
      BY <1>1, <3>1
    <3>. QED BY ONLY <3>2 DEF AlertGives, old
  <2>. QED BY <2>1, <2>2
<1>8. Progress(f, A, S, W, q.todo, q.changes)
  <2>1. x \notin StuckItems(f, A)
    BY ItemsDiffer DEF StuckItems
  <2>2. W \cap q.todo = (W \cap todo) \ {x}
    BY <1>1
  <2>. HIDE DEF W, todo, f, A, S
  <2>. QED BY <1>2, <1>3, <1>7, <2>1, <2>2, Advance
<1>9. MapPlan(al, A, S, q.todo, q.alertMap)
  <2>1. \A j \in DOMAIN S : S[j].alert # new
    <3>. HIDE DEF S, todo, dry, ph, la, ls
    <3>. QED BY <1>2, <1>4, <1>6, IdsNew
  <2>2. \A j : AlertItem(j) \in q.todo <=> AlertItem(j) \in todo /\ j # i
    BY <1>1 DEF AlertItem
  <2>3. q.alertMap = IF LastNamed(A, a.name) = 0 THEN With(map, a.name, new) ELSE map
    BY <1>1
  <2>. HIDE DEF al, A, S, todo, map, new
  <2>4. i \in DOMAIN al
    BY DEF al
  <2>. QED BY <1>2, <1>4, <2>1, <2>2, <2>3, <2>4, MapAlert
<1>10. GroupPlan(f, S, q.todo, q.groupMap)
  <2>1. \A p \in Places(f) : ItemOf(f, p) \in q.todo <=> ItemOf(f, p) \in todo
    <3>1. q.todo = todo \ {AlertItem(i)}
      BY <1>1
    <3>. HIDE DEF f, todo
    <3>. QED BY ONLY <3>1, ItemsDiffer
  <2>. QED BY <1>1, <1>2, <2>1 DEF GroupPlan
<1>11. IdPlan(dry, S, q.todo, q.placeholder, e.lastAlert, e.lastSite)
  <2>1. q.placeholder = ph \/ q.placeholder = ph - 1
    BY <1>1
  <2>2. /\ e.lastAlert = la \/ e.lastAlert = la + 1
        /\ e.lastSite = ls \/ e.lastSite = ls + 1
    <3>1. e = d \/ e = AddAlert(d, row) \/ e = UpdateAlert(d, old, row)
      BY <1>1
    <3>. HIDE DEF row, old
    <3>. QED BY <3>1, SequencesGrow
  <2>. HIDE DEF dry, S, todo, ph, la, ls
  <2>. QED BY <1>2, <1>4, <1>6, <2>1, <2>2, IdsKept
<1>. QED BY <1>1, <1>8, <1>9, <1>10, <1>11, PlannedRest

LEMMA PlannedSite ==
  ASSUME NEW r, Shaped(r), NEW f, f = r.file, Sane(f), NEW d, TablesMade(d), Planned(r, d),
         NEW p \in Places(f), NEW x, x = ItemOf(f, p), First(r, x), ~Stuck(r, x),
         NEW q, q = applyMonitor(r, d, x).run, NEW e, e = applyMonitor(r, d, x).db
  PROVE  Planned(q, e)
<1>. DEFINE A == r.alerts
            S == r.sites
            W == Work(f, r.prune, r)
            todo == r.todo
            map == r.alertMap
            gmap == r.groupMap
            la == d.lastAlert
            ls == d.lastSite
            ph == r.placeholder
            dry == r.dry
            m == At(f, p)
            n == m.name
            old == LastNamed(S, n)
            row == Wanted(r, x)
            new == IF dry THEN ph ELSE ls + 1
<1>1. /\ Monitor(r, x) = m /\ row = Wanted(r, x) /\ old = LastNamed(r.sites, n) /\ n = m.name
      /\ new = IF r.dry THEN r.placeholder ELSE d.lastSite + 1
  BY MonitorIs
<1>2. /\ Kept(r, q) /\ q.todo = r.todo \ {x} /\ q.alertMap = r.alertMap
      /\ q.groupMap = IF x[1] = GroupStage
                      THEN With(r.groupMap, n, IF old = 0 THEN new ELSE old)
                      ELSE r.groupMap
      /\ q.placeholder = IF x[1] = GroupStage /\ r.dry /\ old = 0
                         THEN r.placeholder - 1 ELSE r.placeholder
      /\ old = 0 => /\ q.changes = r.changes \cup {Note("create", "monitor", n)}
                    /\ e = IF r.dry THEN d ELSE AddSite(d, row)
      /\ old # 0 /\ diffSite(r.sites[old], row) =>
           /\ q.changes = r.changes \cup {Note("update", "monitor", n)}
           /\ e = IF r.dry THEN d ELSE UpdateSite(d, old, row)
      /\ old # 0 /\ ~diffSite(r.sites[old], row) => q.changes = r.changes /\ e = d
  <2>. HIDE DEF m, n, old, row, new
  <2>. QED BY ONLY Shaped(r), q = applyMonitor(r, d, x).run, e = applyMonitor(r, d, x).db,
                   <1>1, SiteRun
<1>3. /\ Progress(f, A, S, W, todo, r.changes) /\ MapPlan(f.alerts, A, S, todo, map)
      /\ GroupPlan(f, S, todo, gmap) /\ IdPlan(dry, S, todo, ph, la, ls)
      /\ \A i \in DOMAIN S : RowShape(S[i])
  BY DEF Planned
<1>4. /\ x \in todo /\ (\A y \in todo \ {x} : Before(x, y)) /\ x \in W
      /\ x[1] = StageOf(f, p) /\ x[1] \in {2, 3, 4} /\ <<x[2], x[3]>> = p
      /\ p[2] # 0 => ItemOf(f, <<p[1], 0>>) \notin todo
  BY ItemParts, StageIs, GroupFirst DEF First, Work
<1>5. la \in Nat /\ ls \in Nat /\ Bounded(A) /\ Bounded(S)
  BY DEF TablesMade, Shaped, Bounded
<1>6. Early(todo) /\ (Early(q.todo) => Early(todo))
  BY <1>2, <1>4 DEF Early
<1>7. x \notin StuckItems(f, A) /\ (m.alert # NoName => m.alert \in DOMAIN map)
  BY StuckThen, StuckNot
<1>8. old # 0 => (diffSite(S[old], row) <=> Differs(f, A, S, p))
  <2>. SUFFICES ASSUME old # 0 PROVE diffSite(S[old], row) <=> Differs(f, A, S, p)
    OBVIOUS
  <2>. DEFINE cur == S[old]
              l == At(f, <<p[1], 0>>).name
  <2>1. old \in DOMAIN S /\ RowShape(cur)
    BY <1>3, <1>5, Newest
  <2>2. /\ row.kind = m.kind /\ row.body = Normal(m.body) /\ row.dns = m.dns
        /\ row.paused = m.paused /\ row.alert = AlertOf(map, m)
        /\ row.parent = IF p[2] # 0 THEN gmap[l] ELSE 0
    BY WantedRow
  <2>3. (row.alert = cur.alert)
           <=> IF m.alert = NoName THEN cur.alert = 0 ELSE Points(cur.alert, m.alert, A)
    <3>. DEFINE k == m.alert
                ref == cur.alert
    <3>1. k # NoName => /\ k \in DOMAIN map
                        /\ k \in NamesOf(A) => map[k] = LastNamed(A, k)
                        /\ k \notin NamesOf(A) => ref # map[k]
      BY <1>3, <1>7, <2>1 DEF MapPlan
    <3>2. row.alert = IF k = NoName THEN 0 ELSE map[k]
      BY <2>2 DEF AlertOf
    <3>. HIDE DEF k, ref, row, map, A
    <3>3. (row.alert = ref) <=> IF k = NoName THEN ref = 0 ELSE Points(ref, k, A)
      BY <3>1, <3>2 DEF Points
    <3>. QED BY <3>3 DEF k, ref
  <2>4. (row.parent = cur.parent)
           <=> IF p[2] = 0 THEN cur.parent = 0 ELSE Points(cur.parent, l, S)
    <3>. DEFINE ref == cur.parent
    <3>1. p[2] # 0 => /\ l \in NamesOf(S) => gmap[l] = LastNamed(S, l)
                      /\ l \notin NamesOf(S) => ref # gmap[l]
      BY <1>3, <1>4, <2>1, GroupPlace DEF GroupPlan
    <3>2. row.parent = IF p[2] # 0 THEN gmap[l] ELSE 0
      BY <2>2
    <3>. HIDE DEF l, ref, row, gmap, S
    <3>3. (row.parent = ref) <=> IF p[2] = 0 THEN ref = 0 ELSE Points(ref, l, S)
      BY <3>1, <3>2 DEF Points
    <3>. QED BY <3>3 DEF ref
  <2>5. /\ p \in Places(f) /\ m = At(f, p) /\ old = LastNamed(S, m.name) /\ cur = S[old]
        /\ l = At(f, <<p[1], 0>>).name
    OBVIOUS
  <2>. HIDE DEF m, old, cur, row, S, A, l
  <2>6. diffSite(cur, row) <=> Differs(f, A, S, p)
    BY ONLY <2>1, <2>2, <2>3, <2>4, <2>5, DiffersSame
  <2>. QED BY <2>5, <2>6
<1>9. q.changes = r.changes \cup Gives(f, A, S, x)
  <2>1. Gives(f, A, S, x) = SiteGives(f, A, S, p)
    BY <1>4 DEF Gives, AlertStage, SitePrune, AlertPrune
  <2>2. q.changes = r.changes \cup SiteGives(f, A, S, p)
    <3>1. r.changes \cup {} = r.changes
      OBVIOUS
    <3>2. old # 0 => (diffSite(r.sites[old], row) <=> Differs(f, A, S, p))
      BY <1>8
    <3>3. n = At(f, p).name /\ old = LastNamed(S, At(f, p).name)
      OBVIOUS
    <3>. HIDE DEF S, A, old, row, n
    <3>4. q.changes = r.changes \cup (IF old = 0 THEN {Note("create", "monitor", n)}
                       ELSE IF Differs(f, A, S, p) THEN {Note("update", "monitor", n)}
                       ELSE {})
      BY <1>2, <3>1, <3>2
    <3>. QED BY ONLY <3>3, <3>4 DEF SiteGives
  <2>. QED BY <2>1, <2>2
<1>10. Progress(f, A, S, W, q.todo, q.changes)
  <2>1. W \cap q.todo = (W \cap todo) \ {x}
    BY <1>2
  <2>. HIDE DEF W, todo, A, S
  <2>. QED BY <1>3, <1>4, <1>7, <1>9, <2>1, Advance
<1>11. MapPlan(f.alerts, A, S, q.todo, q.alertMap)
  <2>1. \A i : AlertItem(i) \in q.todo <=> AlertItem(i) \in todo
    BY <1>2, ItemsDiffer
  <2>. QED BY <1>2, <1>3, <2>1 DEF MapPlan
<1>12. GroupPlan(f, S, q.todo, q.groupMap)
  <2>1. \A j \in DOMAIN S : S[j].parent # new
    <3>. HIDE DEF S, todo, dry, ph, la, ls
    <3>. QED BY <1>3, <1>5, <1>6, IdsNew
  <2>2. /\ q.todo = todo \ {ItemOf(f, p)} /\ n = At(f, p).name /\ old = LastNamed(S, n)
        /\ q.groupMap = IF StageOf(f, p) = GroupStage
                        THEN With(gmap, n, IF old = 0 THEN new ELSE old) ELSE gmap
    BY <1>2, <1>4
  <2>. HIDE DEF S, todo, gmap, n, old, new
  <2>3. /\ Sane(f) /\ Bounded(S) /\ GroupPlan(f, S, todo, gmap) /\ p \in Places(f)
        /\ \A j \in DOMAIN S : S[j].parent # new
    BY <1>3, <1>5, <2>1
  <2>. DEFINE rest == q.todo
              u    == q.groupMap
  <2>. HIDE DEF rest, u
  <2>4. GroupPlan(f, S, rest, u)
    <3>1. /\ rest = todo \ {ItemOf(f, p)} /\ n = At(f, p).name /\ old = LastNamed(S, n)
          /\ u = Grouped(f, p, gmap, n, IF old = 0 THEN new ELSE old)
      BY <2>2 DEF rest, u, Grouped
    <3>2. NoneUnder(S, new)
      BY <2>3 DEF NoneUnder
    <3>. QED BY ONLY <2>3, <3>1, <3>2, GroupMade
  <2>. QED BY <2>4 DEF rest, u
<1>13. IdPlan(dry, S, q.todo, q.placeholder, e.lastAlert, e.lastSite)
  <2>1. q.placeholder = ph \/ q.placeholder = ph - 1
    BY <1>2
  <2>2. /\ e.lastAlert = la \/ e.lastAlert = la + 1
        /\ e.lastSite = ls \/ e.lastSite = ls + 1
    <3>1. e = d \/ e = AddSite(d, row) \/ e = UpdateSite(d, old, row)
      BY <1>2
    <3>. HIDE DEF row, old
    <3>. QED BY <3>1, SequencesGrow
  <2>. HIDE DEF dry, S, todo, ph, la, ls
  <2>. QED BY <1>3, <1>5, <1>6, <2>1, <2>2, IdsKept
<1>14. W = Work(r.file, r.prune, r)
  OBVIOUS
<1>. HIDE DEF W
<1>. QED BY <1>2, <1>10, <1>11, <1>12, <1>13, <1>14, PlannedRest

\* Pruning comes last: the maps and the ids are not needed any more.
LEMMA PlannedPrune ==
  ASSUME NEW r, NEW d, Planned(r, d), TodoOk(r),
         NEW x, x \in Work(r.file, r.prune, r), First(r, x), x[1] \in {5, 6},
         NEW q, Kept(r, q), q.alertMap = r.alertMap, q.groupMap = r.groupMap,
         q.placeholder = r.placeholder,
         q.changes = r.changes \cup Gives(r.file, r.alerts, r.sites, x),
         q.todo = r.todo \ {x} \/ \E id : q.todo = (r.todo \ {x}) \cup {Drop(id)},
         NEW e
  PROVE  Planned(q, e)
<1>. DEFINE f == r.file
            W == Work(f, r.prune, r)
            todo == r.todo
            rest == q.todo
            A == r.alerts
            S == r.sites
<1>1. /\ Progress(f, A, S, W, todo, r.changes) /\ MapPlan(f.alerts, A, S, todo, r.alertMap)
      /\ GroupPlan(f, S, todo, r.groupMap)
      /\ IdPlan(r.dry, S, todo, r.placeholder, d.lastAlert, d.lastSite)
  BY DEF Planned
<1>2. \A id : Drop(id) \notin W
  <2>. SUFFICES ASSUME NEW id, Drop(id) \in W PROVE FALSE
    OBVIOUS
  <2>1. \/ \E i \in DOMAIN f.alerts : Drop(id) = AlertItem(i)
        \/ \E p \in Places(f) : Drop(id) = ItemOf(f, p)
        \/ \E j : Drop(id) = <<SitePrune, j, 0>>
        \/ \E j : Drop(id) = <<AlertPrune, j, 0>>
    BY WorkKinds
  <2>. QED BY <2>1, ItemsDiffer, OthersDiffer
<1>3. W \cap rest = (W \cap todo) \ {x}
  <2>. HIDE DEF W
  <2>. QED BY <1>2
<1>4. /\ \A i : AlertItem(i) \in rest <=> AlertItem(i) \in todo
      /\ \A p \in Places(f) : ItemOf(f, p) \in rest <=> ItemOf(f, p) \in todo
      /\ x \notin StuckItems(f, A)
  <2>1. /\ \A i : AlertItem(i)[1] = 1 /\ \A id : Drop(id)[1] = 6
        /\ \A p \in Places(f) : ItemOf(f, p)[1] \in {2, 3, 4}
    BY ItemParts, StageIs DEF AlertItem, Drop, AlertStage, AlertPrune
  <2>2. /\ \A i : AlertItem(i) # x /\ \A id : AlertItem(i) # Drop(id)
        /\ \A p \in Places(f) : ItemOf(f, p) # x /\ \A id : ItemOf(f, p) # Drop(id)
    BY <2>1
  <2>. HIDE DEF f
  <2>. QED BY <2>2 DEF StuckItems
<1>5. ~Early(rest)
  <2>1. \A id : Drop(id)[1] = 6
    BY DEF Drop, AlertPrune
  <2>2. \A y \in todo \ {x} : Before(x, y) /\ y[1] \in {1, 2, 3, 4, 5, 6}
    <3>1. \A y \in todo : y[1] \in {1, 2, 3, 4, 5, 6}
      <4>. TAKE y \in todo
      <4>1. CASE \E i \in DOMAIN f.alerts : y = AlertItem(i)
        BY <4>1 DEF AlertItem, AlertStage
      <4>2. CASE \E p \in Places(f) : y = ItemOf(f, p)
        BY <4>2, ItemParts, StageIs
      <4>3. CASE \E id : y = <<SitePrune, id, 0>>
        BY <4>3 DEF SitePrune
      <4>4. CASE \E id : y = <<AlertPrune, id, 0>> \/ y = Drop(id)
        BY <4>4 DEF AlertPrune, Drop
      <4>. QED BY <4>1, <4>2, <4>3, <4>4, ItemKinds
    <3>. QED BY <3>1 DEF First
  <2>3. \A y \in todo \ {x} : y[1] \notin {1, 2, 3, 4}
    <3>. TAKE y \in todo \ {x}
    <3>1. Before(x, y) /\ y[1] \in {1, 2, 3, 4, 5, 6}
      BY <2>2
    <3>. QED BY ONLY <3>1, x[1] \in {5, 6} DEF Before
  <2>. QED BY <2>1, <2>3 DEF Early
<1>6. Progress(f, A, S, W, rest, q.changes)
  <2>1. x \in W /\ x \in todo /\ \A y \in todo \ {x} : Before(x, y)
    BY DEF First
  <2>. HIDE DEF W, todo, rest, f, A, S
  <2>2. q.changes = r.changes \cup Gives(f, A, S, x)
    BY DEF f, A, S
  <2>. QED BY <1>1, <1>3, <1>4, <2>1, <2>2, Advance
<1>7. MapPlan(f.alerts, A, S, rest, q.alertMap) /\ GroupPlan(f, S, rest, q.groupMap)
  BY <1>1, <1>4 DEF MapPlan, GroupPlan
<1>8. IdPlan(r.dry, S, rest, q.placeholder, e.lastAlert, e.lastSite)
  BY <1>1, <1>5 DEF IdPlan
<1>. QED BY <1>6, <1>7, <1>8, PlannedRest

LEMMA PlannedDrop ==
  ASSUME NEW r, NEW d, Planned(r, d), NEW id, NEW x, x = Drop(id),
         First(r, x), NEW q, Kept(r, q), q.alertMap = r.alertMap, q.groupMap = r.groupMap,
         q.placeholder = r.placeholder, q.changes = r.changes, q.todo = r.todo \ {x},
         TodoOk(r), NEW e
  PROVE  Planned(q, e)
<1>. DEFINE f == r.file
            W == Work(f, r.prune, r)
            todo == r.todo
            rest == q.todo
            A == r.alerts
            S == r.sites
<1>1. /\ Progress(f, A, S, W, todo, r.changes) /\ MapPlan(f.alerts, A, S, todo, r.alertMap)
      /\ GroupPlan(f, S, todo, r.groupMap)
      /\ IdPlan(r.dry, S, todo, r.placeholder, d.lastAlert, d.lastSite)
  BY DEF Planned
<1>2. x \notin W
  <2>. SUFFICES ASSUME x \in W PROVE FALSE
    OBVIOUS
  <2>1. \/ \E i \in DOMAIN f.alerts : x = AlertItem(i)
        \/ \E p \in Places(f) : x = ItemOf(f, p)
        \/ \E j : x = <<SitePrune, j, 0>>
        \/ \E j : x = <<AlertPrune, j, 0>>
    BY WorkKinds
  <2>. QED BY <2>1, ItemsDiffer, OthersDiffer
<1>3. W \cap rest = W \cap todo
  <2>. HIDE DEF W
  <2>. QED BY <1>2
<1>4. /\ \A i : AlertItem(i) \in rest <=> AlertItem(i) \in todo
      /\ \A p \in Places(f) : ItemOf(f, p) \in rest <=> ItemOf(f, p) \in todo
  BY ItemsDiffer, OthersDiffer
<1>5. ~Early(rest)
  <2>1. x[1] = 6
    BY DEF Drop, AlertPrune
  <2>2. \A y \in todo \ {x} : Before(x, y) /\ y[1] \in {1, 2, 3, 4, 5, 6}
    <3>1. \A y \in todo : y[1] \in {1, 2, 3, 4, 5, 6}
      <4>. TAKE y \in todo
      <4>1. CASE \E i \in DOMAIN f.alerts : y = AlertItem(i)
        BY <4>1 DEF AlertItem, AlertStage
      <4>2. CASE \E p \in Places(f) : y = ItemOf(f, p)
        BY <4>2, ItemParts, StageIs
      <4>3. CASE \E j : y = <<SitePrune, j, 0>>
        BY <4>3 DEF SitePrune
      <4>4. CASE \E j : y = <<AlertPrune, j, 0>> \/ y = Drop(j)
        BY <4>4 DEF AlertPrune, Drop
      <4>. QED BY <4>1, <4>2, <4>3, <4>4, ItemKinds
    <3>. QED BY <3>1 DEF First
  <2>3. \A y \in todo \ {x} : y[1] \notin {1, 2, 3, 4}
    <3>. TAKE y \in todo \ {x}
    <3>1. Before(x, y) /\ y[1] \in {1, 2, 3, 4, 5, 6}
      BY <2>2
    <3>. QED BY ONLY <3>1, <2>1 DEF Before
  <2>. QED BY <2>3 DEF Early
<1>6. Progress(f, A, S, W, rest, q.changes)
  <2>. HIDE DEF W, todo, rest, f, A, S
  <2>. QED BY <1>1, <1>3, AdvanceNot
<1>7. MapPlan(f.alerts, A, S, rest, q.alertMap) /\ GroupPlan(f, S, rest, q.groupMap)
  BY <1>1, <1>4 DEF MapPlan, GroupPlan
<1>8. IdPlan(r.dry, S, rest, q.placeholder, e.lastAlert, e.lastSite)
  BY <1>1, <1>5 DEF IdPlan
<1>. QED BY <1>6, <1>7, <1>8, PlannedRest

LEMMA PlannedItem ==
  ASSUME NEW r, Shaped(r), NEW f, f = r.file, Sane(f), NEW d, TablesMade(d), Planned(r, d),
         TodoOk(r), NEW x, First(r, x), ~Stuck(r, x),
         NEW q, q = Outcome(r, d, x).run, NEW e, e = Outcome(r, d, x).db
  PROVE  Planned(q, e)
<1>1. x \in r.todo
  BY DEF First
<1>2. CASE \E i \in DOMAIN r.file.alerts : x = AlertItem(i)
  <2>1. PICK i \in DOMAIN r.file.alerts : x = AlertItem(i)
    BY <1>2
  <2>2. q = ApplyAlert(r, d, x).run /\ e = ApplyAlert(r, d, x).db
    BY <2>1, Outcomes
  <2>. QED BY ONLY Shaped(r), TablesMade(d), Planned(r, d), First(r, x), <2>1, <2>2,
                   PlannedAlert
<1>3. CASE \E p \in Places(f) : x = ItemOf(f, p)
  <2>1. PICK p \in Places(f) : x = ItemOf(f, p)
    BY <1>3
  <2>2. q = applyMonitor(r, d, x).run /\ e = applyMonitor(r, d, x).db
    BY <2>1, Outcomes
  <2>. QED BY ONLY Shaped(r), f = r.file, Sane(f), TablesMade(d), Planned(r, d),
                   First(r, x), ~Stuck(r, x), <2>1, <2>2, PlannedSite
<1>4. CASE r.prune /\ \E id \in Unlisted(r.sites, collectMonitorNames(f)) :
                        x = <<SitePrune, id, 0>>
  <2>1. PICK id \in Unlisted(r.sites, collectMonitorNames(f)) : x = <<SitePrune, id, 0>>
    BY <1>4
  <2>2. x \in Work(r.file, r.prune, r)
    BY <1>4, <2>1 DEF Work
  <2>3. x[1] = 5 /\ Gives(r.file, r.alerts, r.sites, x)
                      = {Note("delete", "monitor", r.sites[x[2]].name)}
    BY <2>1 DEF Gives, AlertStage, SitePrune
  <2>4. q = pruneSite(r, d, x).run /\ e = pruneSite(r, d, x).db
    BY <2>1, Outcomes
  <2>5. /\ Kept(r, q) /\ q.todo = r.todo \ {x} /\ q.alertMap = r.alertMap
        /\ q.groupMap = r.groupMap /\ q.placeholder = r.placeholder
        /\ q.changes = r.changes \cup {Note("delete", "monitor", r.sites[x[2]].name)}
    BY ONLY Shaped(r), <2>4, PruneSiteRun
  <2>. QED BY ONLY Planned(r, d), TodoOk(r), First(r, x), <2>2, <2>3, <2>5, PlannedPrune
<1>5. CASE r.prune /\ \E id \in Unlisted(r.alerts, NamesOf(r.file.alerts)) :
                        x = <<AlertPrune, id, 0>>
  <2>1. PICK id \in Unlisted(r.alerts, NamesOf(r.file.alerts)) : x = <<AlertPrune, id, 0>>
    BY <1>5
  <2>2. x \in Work(r.file, r.prune, r)
    BY <1>5, <2>1 DEF Work
  <2>3. x[1] = 6 /\ Gives(r.file, r.alerts, r.sites, x)
                      = {Note("delete", "alert", r.alerts[x[2]].name)}
    BY <2>1 DEF Gives, AlertStage, SitePrune, AlertPrune
  <2>4. q = pruneAlert(r, d, x).run /\ e = pruneAlert(r, d, x).db
    BY <2>1, Outcomes
  <2>5. /\ Kept(r, q) /\ q.alertMap = r.alertMap
        /\ q.groupMap = r.groupMap /\ q.placeholder = r.placeholder
        /\ q.changes = r.changes \cup {Note("delete", "alert", r.alerts[x[2]].name)}
        /\ r.dry => q.todo = r.todo \ {x}
        /\ ~r.dry => q.todo = (r.todo \ {x}) \cup {Drop(x[2])}
    BY ONLY Shaped(r), <2>4, PruneAlertRun
  <2>6. q.todo = r.todo \ {x} \/ \E j : q.todo = (r.todo \ {x}) \cup {Drop(j)}
    BY ONLY <2>5
  <2>. QED BY ONLY Planned(r, d), TodoOk(r), First(r, x), <2>2, <2>3, <2>5, <2>6, PlannedPrune
<1>6. CASE \E id : x = Drop(id)
  <2>1. PICK id : x = Drop(id)
    BY <1>6
  <2>2. q = dropAlert(r, d, x).run /\ e = dropAlert(r, d, x).db
    BY <2>1, Outcomes
  <2>3. /\ Kept(r, q) /\ q.todo = r.todo \ {x} /\ q.alertMap = r.alertMap
        /\ q.groupMap = r.groupMap /\ q.placeholder = r.placeholder
        /\ q.changes = r.changes
    BY ONLY Shaped(r), <2>2, DropRun
  <2>. QED BY ONLY Planned(r, d), TodoOk(r), First(r, x), <2>1, <2>3, PlannedDrop
<1>. QED BY <1>1, <1>2, <1>3, <1>4, <1>5, <1>6, ItemKinds
-----------------------------------------------------------------------------
(* The invariant.                                                          *)

CoreInv == TablesMade(db) /\ RunInv /\ UniqueKept /\ FixedInv

LEMMA CoreInit == ASSUME ConfigAssumption, Init PROVE CoreInv
<1>1. TablesMade(db) /\ UniqueKept
  BY DEF Init, ConfigAssumption, UniqueKept
<1>2. RunInv /\ FixedInv
  BY DEF Init, RunInv, Underway, FixedInv, Idle
<1>. QED BY <1>1, <1>2 DEF CoreInv

LEMMA InForceAtEnd ==
  ASSUME CoreInv, run.phase = "done", ~run.dry, Safe(run.file, run.prune)
  PROVE  Fixed(run.file, run.prune, db.alerts, db.sites)
<1>1. run.todo = {} /\ RealInv(run, db) /\ TablesMade(db)
  BY DEF CoreInv, RunInv, Underway
<1>2. Bounded(db.alerts)
  BY <1>1 DEF TablesMade, Bounded
<1>. DEFINE f == run.file
            prune == run.prune
            pre == run.alerts
            old == run.sites
            todo == run.todo
            map == run.alertMap
            gmap == run.groupMap
            al == db.alerts
            ss == db.sites
<1>3. /\ todo = {} /\ Bounded(al) /\ Safe(f, prune)
      /\ AlertsInv(f.alerts, prune, pre, todo, map, al)
      /\ SitesInv(f, prune, old, todo, map, gmap, ss)
  BY <1>1, <1>2 DEF RealInv
<1>. HIDE DEF f, prune, pre, old, todo, map, gmap, al, ss
<1>4. Fixed(f, prune, al, ss)
  BY ONLY <1>3, InForce
<1>. QED BY <1>4 DEF f, prune, al, ss

LEMMA CoreBegin ==
  ASSUME CoreInv, NEW f, NEW exported, NEW dry \in BOOLEAN, NEW prune \in BOOLEAN,
         Begin(f, exported, dry, prune)
  PROVE  CoreInv'
<1>1. /\ db' = db /\ run.phase # "working"
      /\ prev' = [x \in DOMAIN Idle |-> run[x]]
      /\ run'.phase = IF Validate(f) THEN "working" ELSE "failed"
      /\ run'.file = f /\ run'.dry = dry /\ run'.prune = prune /\ run'.changes = {}
      /\ Shaped(run') /\ Fresh(run', db)
  BY Begun DEF CoreInv
<1>2. TablesMade(db) /\ TablesMade(db') /\ UniqueKept'
  BY <1>1 DEF CoreInv, UniqueKept
<1>3. RunInv'
  <2>1. RealInv(run', db')
    <3>. DEFINE r == run'
    <3>1. Fresh(r, db)
      BY <1>1
    <3>. HIDE DEF r
    <3>2. RealInv(r, db)
      BY ONLY <1>2, <3>1, FreshReal
    <3>. QED BY <1>1, <3>2 DEF r
  <2>2. run'.todo = Work(run'.file, run'.prune, run')
    BY <1>1 DEF Fresh, Work
  <2>. QED BY <1>1, <2>1, <2>2 DEF RunInv, Underway
<1>4. FixedInv'
  <2>. SUFFICES ASSUME prev'.phase = "done", ~prev'.dry, SameRequest',
                       Safe(run'.file, run'.prune)
                PROVE  Quiet(run')
    BY DEF FixedInv
  <2>1. /\ prev'.phase = run.phase /\ prev'.dry = run.dry
        /\ prev'.file = run.file /\ prev'.prune = run.prune
    BY <1>1 DEF Idle
  <2>2. /\ run.phase = "done" /\ ~run.dry /\ run.file = f /\ run.prune = prune
        /\ Safe(run.file, run.prune)
    BY <1>1, <2>1 DEF SameRequest
  <2>3. Fixed(run.file, run.prune, db.alerts, db.sites) /\ Validate(run.file)
    BY <2>2, InForceAtEnd DEF CoreInv, RunInv, Underway
  <2>4. Fixed(f, prune, db.alerts, db.sites) /\ Validate(f)
    BY <2>2, <2>3
  <2>. DEFINE r == run'
  <2>5. /\ Fresh(r, db) /\ r.phase = "working" /\ r.changes = {}
        /\ Fixed(r.file, r.prune, db.alerts, db.sites)
    BY <1>1, <2>4
  <2>. HIDE DEF r
  <2>6. Quiet(r)
    BY ONLY <1>2, <2>5, FreshQuiet
  <2>. QED BY <2>6 DEF r
<1>. QED BY <1>2, <1>3, <1>4 DEF CoreInv

LEMMA CoreItem ==
  ASSUME CoreInv, NEW x, Item(x)
  PROVE  CoreInv'
<1>. DEFINE r == run
            d == db
            q == run'
            e == db'
<1>1. /\ r.phase = "working" /\ First(r, x) /\ ~Stuck(r, x)
      /\ q = Outcome(r, d, x).run /\ e = Outcome(r, d, x).db /\ prev' = prev
  BY DEF Item
<1>2. /\ TablesMade(d) /\ Shaped(r) /\ Validate(r.file)
      /\ r.dry => r.todo \subseteq Work(r.file, r.prune, r)
      /\ ~r.dry => RealInv(r, d)
      /\ (\A b \in Databases : Unique(b.sites) /\ Unique(b.alerts))
           => Unique(d.sites) /\ Unique(d.alerts)
      /\ (/\ prev.phase = "done" /\ ~prev.dry /\ r.file = prev.file /\ r.prune = prev.prune
          /\ Safe(r.file, r.prune) /\ r.phase # "idle") => Quiet(r)
  BY <1>1 DEF CoreInv, RunInv, Underway, UniqueKept, FixedInv, SameRequest
<1>. HIDE DEF r, d, q, e
<1>. DEFINE f == r.file
<1>3. f = r.file /\ Sane(f)
  BY <1>2, ValidIsSane
<1>. HIDE DEF f
<1>4. /\ Kept(r, q) /\ TablesMade(e)
      /\ q.dry => q.todo \subseteq Work(q.file, q.prune, q)
      /\ ~q.dry => RealInv(q, e)
      /\ (Unique(d.sites) => Unique(e.sites)) /\ (Unique(d.alerts) => Unique(e.alerts))
  <2>1. CASE r.dry
    <3>1. x \in Work(r.file, r.prune, r)
      BY <1>1, <1>2, <2>1 DEF First
    <3>2. Kept(r, q) /\ q.todo = r.todo \ {x} /\ e = d
      BY ONLY <1>1, <1>2, <2>1, <3>1, DryOutcome
    <3>3. Work(q.file, q.prune, q) = Work(r.file, r.prune, r)
      BY <3>2 DEF Kept, Work
    <3>4. q.dry
      BY <2>1, <3>2 DEF Kept
    <3>. QED BY <1>2, <2>1, <3>2, <3>3, <3>4
  <2>2. CASE ~r.dry
    <3>1. Goes(r, d, q, e)
      BY ONLY <1>1, <1>2, <1>3, <2>2, OutcomeDone
    <3>. QED BY <2>2, <3>1 DEF Goes, Kept
  <2>. QED BY <2>1, <2>2
<1>5. Quiet(r) => Quiet(q)
  <2>1. Quiet(r) => Still(r, d, x, q, e)
    BY ONLY <1>1, <1>2, <1>3, QuietDone
  <2>. QED BY <2>1 DEF Still
<1>6. /\ q.phase = "working" /\ q.file = r.file /\ q.prune = r.prune /\ q.dry = r.dry
      /\ Shaped(q)
  BY <1>1, <1>4 DEF Kept
<1>7. RunInv'
  <2>1. Validate(q.file)
    BY <1>2, <1>6
  <2>. QED BY <1>4, <1>6, <2>1 DEF RunInv, Underway, q, e
<1>8. FixedInv'
  <2>. SUFFICES ASSUME prev.phase = "done", ~prev.dry, q.file = prev.file,
                       q.prune = prev.prune, Safe(q.file, q.prune)
                PROVE  Quiet(q)
    BY <1>1 DEF FixedInv, SameRequest, q
  <2>1. Quiet(r)
    BY <1>1, <1>2, <1>6
  <2>. QED BY <1>5, <2>1
<1>9. UniqueKept'
  BY <1>2, <1>4 DEF UniqueKept, e
<1>. QED BY <1>4, <1>7, <1>8, <1>9 DEF CoreInv, e

\* The run ends before its time: never one that has nothing to change.
LEMMA NotQuiet ==
  ASSUME CoreInv, NEW x, run.phase = "working", First(run, x),
         Stuck(run, x) \/ Outcome(run, db, x).db # db
  PROVE  ~Quiet(run)
<1>. DEFINE r == run
            d == db
            q == Outcome(r, d, x).run
            e == Outcome(r, d, x).db
<1>1. /\ Shaped(r) /\ Validate(r.file) /\ First(r, x) /\ (Stuck(r, x) \/ e # d)
  BY DEF CoreInv, RunInv, Underway
<1>. HIDE DEF r, d
<1>2. \A f : f = r.file => Sane(f)
  BY <1>1, ValidIsSane
<1>3. Quiet(r) => Still(r, d, x, q, e)
  BY ONLY <1>1, <1>2, QuietDone
<1>4. ~Quiet(r)
  BY <1>1, <1>3 DEF Still
<1>. QED BY <1>4 DEF r

LEMMA CoreBreaks ==
  ASSUME CoreInv, NEW x, AlertNotFound(x) \/ WriteFails(x)
  PROVE  CoreInv'
<1>1. /\ run.phase = "working" /\ First(run, x)
      /\ Stuck(run, x) \/ Outcome(run, db, x).db # db
      /\ db' = db /\ prev' = prev
  BY DEF AlertNotFound, WriteFails
<1>2. /\ Shaped(run) /\ ~Quiet(run)
  BY <1>1, NotQuiet DEF CoreInv, RunInv, Underway
<1>3. PICK ph \in {"failed", "broken"} : run' = [run EXCEPT !.phase = ph]
  BY DEF AlertNotFound, WriteFails
<1>4. run'.phase = ph /\ run'.file = run.file /\ run'.prune = run.prune
  BY <1>2, <1>3 DEF Shaped, Fields
<1>5. RunInv'
  BY <1>4 DEF RunInv, Underway
<1>6. FixedInv'
  BY <1>1, <1>2, <1>4 DEF FixedInv, CoreInv, SameRequest
<1>. QED BY <1>1, <1>5, <1>6 DEF CoreInv, UniqueKept

LEMMA CoreFinish ==
  ASSUME CoreInv, Finish
  PROVE  CoreInv'
<1>. DEFINE r == run
            d == db
            q == run'
<1>1. /\ r.phase = "working" /\ r.todo = {} /\ q = [r EXCEPT !.phase = "done"]
      /\ db' = db /\ prev' = prev
  BY DEF Finish
<1>2. /\ Shaped(r) /\ Validate(r.file) /\ (~r.dry => RealInv(r, d))
  BY <1>1 DEF CoreInv, RunInv, Underway
<1>. HIDE DEF r, q, d
<1>3. /\ Shaped(q) /\ q.phase = "done" /\ q.file = r.file /\ q.dry = r.dry
      /\ q.prune = r.prune /\ q.alerts = r.alerts /\ q.sites = r.sites
      /\ q.todo = r.todo /\ q.changes = r.changes
      /\ q.alertMap = r.alertMap /\ q.groupMap = r.groupMap
  BY <1>1, <1>2 DEF Shaped, Fields
<1>4. ~q.dry => RealInv(q, d)
  <2>1. TodoOk(q)
    BY <1>1, <1>3 DEF TodoOk
  <2>. QED BY <1>2, <1>3, <2>1 DEF RealInv
<1>5. Quiet(r) => Quiet(q)
  <2>1. q.todo \subseteq Work(q.file, q.prune, q)
    BY <1>1, <1>3
  <2>. QED BY <1>3, <2>1 DEF Quiet
<1>6. RunInv'
  <2>1. q.todo = {} /\ Validate(q.file)
    BY <1>1, <1>2, <1>3
  <2>. QED BY <1>1, <1>3, <1>4, <2>1 DEF RunInv, Underway, q, d
<1>7. FixedInv'
  BY <1>1, <1>3, <1>5 DEF FixedInv, CoreInv, SameRequest, q, r
<1>. QED BY <1>1, <1>6, <1>7 DEF CoreInv, UniqueKept

LEMMA CoreSafe == ASSUME CoreInv PROVE AppliedMatches /\ IdempotentClosed
<1>1. AppliedMatches
  <2>. SUFFICES ASSUME run.phase = "done", ~run.dry, Closed(run.file) \/ ~run.prune
                PROVE  Matches(db, run.file, run.prune) /\ NoDuplicates
    BY DEF AppliedMatches
  <2>1. Fixed(run.file, run.prune, db.alerts, db.sites)
    BY InForceAtEnd DEF Safe
  <2>2. Bounded(db.alerts) /\ Bounded(db.sites) /\ run.prune \in BOOLEAN
    BY DEF CoreInv, TablesMade, Bounded, RunInv, Underway, Shaped
  <2>3. Matches(db, run.file, run.prune)
    BY <2>1, <2>2, FixedMatches
  <2>. QED BY <2>3 DEF NoDuplicates, CoreInv, UniqueKept
<1>2. IdempotentClosed
  <2>. SUFFICES ASSUME Safe(run.file, run.prune), prev.phase = "done", ~prev.dry,
                       SameRequest, run.phase \in {"done", "failed"}
                PROVE  run.phase = "done" /\ run.changes = {}
    BY DEF IdempotentClosed, Idempotent, Answered, Safe
  <2>1. Quiet(run)
    BY DEF CoreInv, FixedInv
  <2>. QED BY <2>1 DEF Quiet
<1>. QED BY <1>1, <1>2
-----------------------------------------------------------------------------
(* What was exported, and what a dry run says.                             *)

LEMMA FreshPlanned ==
  ASSUME NEW r, NEW d, TablesMade(d), IdsUnused(d), Fresh(r, d), r.changes = {},
         r.placeholder = -1, r.groupMap = <<>>
  PROVE  Planned(r, d)
<1>. DEFINE f == r.file
            A == r.alerts
            S == r.sites
            W == Work(f, r.prune, r)
            todo == r.todo
            la == d.lastAlert
            ls == d.lastSite
<1>1. W = todo /\ A = d.alerts /\ S = d.sites
  BY DEF Fresh, Work
<1>2. \A i \in DOMAIN S : RowShape(S[i])
  <2>. DEFINE t == d.sites
  <2>1. t = [i \in DOMAIN t |->
               [name |-> t[i].name, kind |-> t[i].kind, body |-> t[i].body,
                dns |-> t[i].dns, alert |-> t[i].alert,
                parent |-> t[i].parent, paused |-> t[i].paused, token |-> t[i].token]]
    BY DEF TablesMade
  <2>. HIDE DEF t
  <2>2. \A i \in DOMAIN t : RowShape(t[i])
    BY ONLY <2>1 DEF RowShape
  <2>. QED BY <1>1, <2>2 DEF t
<1>3. Progress(f, A, S, W, todo, r.changes)
  <2>1. W \ todo = {}
    BY <1>1
  <2>. HIDE DEF W, todo
  <2>2. r.changes = UNION {Gives(f, A, S, x) : x \in W \ todo}
    BY <2>1
  <2>. QED BY <2>1, <2>2 DEF Progress
<1>4. MapPlan(f.alerts, A, S, todo, r.alertMap)
  <2>1. r.alertMap = [n \in NamesOf(A) |-> LastNamed(A, n)]
    BY DEF Fresh
  <2>2. \A i \in DOMAIN f.alerts : AlertItem(i) \in todo
    BY <1>1 DEF Work, AlertItem
  <2>. HIDE DEF A, S, todo
  <2>. QED BY <2>1, <2>2 DEF MapPlan
<1>5. GroupPlan(f, S, todo, r.groupMap)
  <2>1. \A p \in Places(f) : ItemOf(f, p) \in todo
    BY <1>1 DEF Work
  <2>. QED BY <2>1 DEF GroupPlan
<1>6. IdPlan(r.dry, S, todo, r.placeholder, la, ls)
  <2>1. la \in Nat /\ ls \in Nat
    BY DEF TablesMade
  <2>2. \A i \in DOMAIN S : S[i].alert \in 0..la /\ S[i].parent \in 0..ls
    BY <1>1 DEF IdsUnused
  <2>. HIDE DEF S, la, ls, todo
  <2>3. \A i \in DOMAIN S : /\ S[i].alert \in Nat /\ S[i].alert <= la
                            /\ S[i].parent \in Nat /\ S[i].parent <= ls
    <3>. TAKE i \in DOMAIN S
    <3>. DEFINE a == S[i].alert
                b == S[i].parent
    <3>1. a \in 0..la /\ b \in 0..ls
      BY <2>2
    <3>. HIDE DEF a, b
    <3>2. a \in Nat /\ a <= la /\ b \in Nat /\ b <= ls
      BY ONLY <2>1, <3>1
    <3>. QED BY <3>2 DEF a, b
  <2>. QED BY <2>3 DEF IdPlan
<1>. QED BY <1>2, <1>3, <1>4, <1>5, <1>6 DEF Planned

LEMMA SameAnswer ==
  ASSUME NEW f, NEW prune, NEW r, NEW q, q.alerts = r.alerts, q.sites = r.sites,
         NEW ph, NEW ch
  PROVE  Answer(f, prune, q, ph, ch) <=> Answer(f, prune, r, ph, ch)
<1>1. Work(f, prune, q) = Work(f, prune, r)
  BY DEF Work
<1>. QED BY <1>1 DEF Answer

\* The answer of a run that has been planned and ends.
LEMMA PlannedAnswer ==
  ASSUME NEW r, NEW d, Planned(r, d), Validate(r.file), NEW ph,
         Stopped(r.file, r.alerts, r.todo, ph)
  PROVE  Answer(r.file, r.prune, r, ph, r.changes)
BY DEF Planned, Answer

LEMMA BrokenOff ==
  ASSUME NEW r, NEW f, f = r.file, TodoOk(r), NEW d, Planned(r, d),
         NEW x, First(r, x), Stuck(r, x)
  PROVE  Stopped(f, r.alerts, r.todo, "failed")
<1>1. x \in r.todo /\ \A y \in r.todo \ {x} : Before(x, y)
  BY DEF First
<1>2. x[1] \in {2, 3, 4}
  BY DEF Stuck, GroupStage, ChildStage, OtherStage
<1>3. \E p \in Places(f) : x = ItemOf(f, p)
  <2>1. /\ \A i : AlertItem(i)[1] = 1
        /\ \A id : <<SitePrune, id, 0>>[1] = 5 /\ <<AlertPrune, id, 0>>[1] = 6
        /\ \A id : Drop(id)[1] = 6
    BY DEF AlertItem, AlertStage, SitePrune, AlertPrune, Drop
  <2>. QED BY <1>1, <1>2, <2>1, ItemKinds
<1>4. PICK p \in Places(f) : x = ItemOf(f, p)
  BY <1>3
<1>5. x \in StuckItems(f, r.alerts)
  BY <1>4, StuckThen
<1>. QED BY <1>1, <1>5 DEF Stopped

LEMMA TodoKnown ==
  ASSUME CoreInv, run.phase = "working"
  PROVE  TodoOk(run)
<1>1. /\ run.dry => run.todo \subseteq Work(run.file, run.prune, run)
      /\ ~run.dry => RealInv(run, db)
  BY DEF CoreInv, RunInv, Underway
<1>. QED BY <1>1 DEF TodoOk, RealInv

LEMMA QuietItem ==
  ASSUME CoreInv, NEW x, Item(x)
  PROVE  /\ Kept(run, run') /\ (Quiet(run) => Quiet(run')) /\ (run.dry => db' = db)
         /\ prev' = prev
<1>. DEFINE r == run
            d == db
            q == run'
            e == db'
<1>1. /\ r.phase = "working" /\ First(r, x) /\ ~Stuck(r, x)
      /\ q = Outcome(r, d, x).run /\ e = Outcome(r, d, x).db /\ prev' = prev
  BY DEF Item
<1>2. /\ TablesMade(d) /\ Shaped(r) /\ Validate(r.file)
      /\ r.dry => r.todo \subseteq Work(r.file, r.prune, r)
      /\ ~r.dry => RealInv(r, d)
  BY <1>1 DEF CoreInv, RunInv, Underway
<1>. HIDE DEF r, d, q, e
<1>. DEFINE f == r.file
<1>3. f = r.file /\ Sane(f)
  BY <1>2, ValidIsSane
<1>. HIDE DEF f
<1>4. Kept(r, q) /\ (r.dry => e = d)
  <2>1. CASE r.dry
    <3>1. x \in Work(r.file, r.prune, r)
      BY <1>1, <1>2, <2>1 DEF First
    <3>. QED BY ONLY <1>1, <1>2, <2>1, <3>1, DryOutcome
  <2>2. CASE ~r.dry
    <3>1. Goes(r, d, q, e)
      BY ONLY <1>1, <1>2, <1>3, <2>2, OutcomeDone
    <3>. QED BY <2>2, <3>1 DEF Goes
  <2>. QED BY <2>1, <2>2
<1>5. Quiet(r) => Quiet(q)
  <2>1. Quiet(r) => Still(r, d, x, q, e)
    BY ONLY <1>1, <1>2, <1>3, QuietDone
  <2>. QED BY <2>1 DEF Still
<1>. QED BY <1>1, <1>4, <1>5 DEF r, d, q, e
-----------------------------------------------------------------------------
(* The whole invariant.                                                    *)

ApplyInv == CoreInv /\ RoundInv /\ DryInv

\* What the commands begin with: a file as written, or the one exported.
Offered(f, exported) == FileMade(f) /\ (exported => f = ExportFile(db))

LEMMA ApplyInit == ASSUME ConfigAssumption, Init PROVE ApplyInv
<1>1. CoreInv
  BY CoreInit
<1>2. run.phase = "idle" /\ prev.phase = "idle" /\ ~run.dry
  BY DEF Init, Idle
<1>3. RoundInv /\ DryInv
  BY <1>2 DEF RoundInv, DryInv, Underway
<1>. QED BY <1>1, <1>3 DEF ApplyInv

LEMMA ApplyBegin ==
  ASSUME ApplyInv, NEW f, NEW exported \in BOOLEAN, Offered(f, exported),
         NEW dry \in BOOLEAN, NEW prune \in BOOLEAN, Begin(f, exported, dry, prune)
  PROVE  ApplyInv'
<1>1. /\ db' = db /\ run.phase # "working"
      /\ prev' = [x \in DOMAIN Idle |-> run[x]]
      /\ run'.phase = IF Validate(f) THEN "working" ELSE "failed"
      /\ run'.file = f /\ run'.dry = dry /\ run'.prune = prune /\ run'.changes = {}
      /\ run'.exported = exported /\ run'.sound = WellFormed(db)
      /\ run'.fresh = IdsUnused(db) /\ run'.placeholder = -1 /\ run'.groupMap = <<>>
      /\ Shaped(run') /\ Fresh(run', db) /\ TablesMade(db)
  BY Begun DEF ApplyInv, CoreInv
<1>2. CoreInv'
  BY CoreBegin DEF ApplyInv
<1>. DEFINE r == run'
            d == db
<1>3. RoundInv'
  <2>. SUFFICES ASSUME exported, WellFormed(d) PROVE Quiet(r)
    BY <1>1 DEF RoundInv
  <2>1. f = ExportFile(d)
    BY DEF Offered
  <2>2. Validate(f) /\ Fixed(f, prune, d.alerts, d.sites)
    BY <1>1, <2>1, ExportInForce
  <2>3. /\ TablesMade(d) /\ Fresh(r, d) /\ r.phase = "working" /\ r.changes = {}
        /\ Fixed(r.file, r.prune, d.alerts, d.sites)
    BY <1>1, <2>2
  <2>. HIDE DEF r, d
  <2>. QED BY ONLY <2>3, FreshQuiet
<1>4. IdsUnused(d) => Planned(r, d)
  <2>1. /\ TablesMade(d) /\ Fresh(r, d) /\ r.changes = {}
        /\ r.placeholder = -1 /\ r.groupMap = <<>>
    BY <1>1
  <2>. HIDE DEF r, d
  <2>. QED BY ONLY <2>1, FreshPlanned
<1>5. r.phase \in {"done", "failed"} => Answer(f, prune, r, r.phase, r.changes)
  BY <1>1 DEF Answer
<1>6. ASSUME prev'.phase \in {"done", "failed"}, prev'.dry, SameRequest', IdsUnused(d)
      PROVE  Answer(f, prune, r, prev'.phase, prev'.changes)
  <2>1. /\ prev'.phase = run.phase /\ prev'.dry = run.dry /\ prev'.changes = run.changes
        /\ prev'.file = run.file /\ prev'.prune = run.prune
    BY <1>1 DEF Idle
  <2>2. /\ run.phase \in {"done", "failed"} /\ run.dry /\ run.file = f /\ run.prune = prune
    BY <1>1, <1>6, <2>1 DEF SameRequest
  <2>3. run.alerts = d.alerts /\ run.sites = d.sites /\ (run.fresh = IdsUnused(d))
    BY <2>2 DEF ApplyInv, DryInv
  <2>4. Answer(run.file, run.prune, run, run.phase, run.changes)
    BY <1>6, <2>2, <2>3 DEF ApplyInv, DryInv
  <2>5. r.alerts = run.alerts /\ r.sites = run.sites
    BY <1>1, <2>3 DEF Fresh
  <2>6. Answer(f, prune, run, prev'.phase, prev'.changes)
    BY <2>1, <2>2, <2>4
  <2>. HIDE DEF r, d
  <2>. QED BY ONLY <2>5, <2>6, SameAnswer
<1>7. r.alerts = d.alerts /\ r.sites = d.sites
  BY <1>1 DEF Fresh
<1>8. FileMade(f)
  BY DEF Offered
<1>9. DryInv'
  BY <1>1, <1>4, <1>5, <1>6, <1>7, <1>8 DEF DryInv, Underway
<1>. QED BY <1>2, <1>3, <1>9 DEF ApplyInv

LEMMA ApplyItem ==
  ASSUME ApplyInv, NEW x, Item(x)
  PROVE  ApplyInv'
<1>. DEFINE r == run
            d == db
            q == run'
            e == db'
<1>1. /\ r.phase = "working" /\ First(r, x) /\ ~Stuck(r, x)
      /\ q = Outcome(r, d, x).run /\ e = Outcome(r, d, x).db /\ prev' = prev
  BY DEF Item
<1>2. /\ TablesMade(d) /\ Shaped(r) /\ Validate(r.file) /\ CoreInv /\ TodoOk(r)
  BY <1>1, TodoKnown DEF ApplyInv, CoreInv, RunInv, Underway
<1>3. CoreInv'
  BY CoreItem DEF ApplyInv
<1>4. Kept(r, q) /\ (Quiet(r) => Quiet(q)) /\ (r.dry => e = d)
  BY <1>2, QuietItem
<1>5. /\ r.exported /\ r.sound => Quiet(r)
      /\ FileMade(r.file) /\ (r.fresh => Planned(r, d))
      /\ r.dry => /\ r.alerts = d.alerts /\ r.sites = d.sites
                  /\ r.fresh = IdsUnused(d)
      /\ (/\ prev.phase \in {"done", "failed"} /\ prev.dry /\ r.file = prev.file
          /\ r.prune = prev.prune /\ r.fresh)
           => Answer(r.file, r.prune, r, prev.phase, prev.changes)
  BY <1>1 DEF ApplyInv, RoundInv, DryInv, Underway, SameRequest
<1>. HIDE DEF r, d, q, e
<1>6. /\ q.phase = "working" /\ q.file = r.file /\ q.prune = r.prune /\ q.dry = r.dry
      /\ q.exported = r.exported /\ q.sound = r.sound /\ q.fresh = r.fresh
      /\ q.alerts = r.alerts /\ q.sites = r.sites /\ Shaped(q)
  BY ONLY <1>1, <1>4 DEF Kept
<1>7. RoundInv'
  <2>1. q.exported /\ q.sound => Quiet(q)
    BY ONLY <1>4, <1>5, <1>6
  <2>. QED BY <2>1 DEF RoundInv, q
<1>8. q.fresh => Planned(q, e)
  <2>1. \A f : f = r.file => Sane(f)
    BY <1>2, ValidIsSane
  <2>2. r.fresh => Planned(q, e)
    BY ONLY <1>1, <1>2, <1>5, <2>1, PlannedItem
  <2>. QED BY <1>6, <2>2
<1>9. q.dry => q.alerts = e.alerts /\ q.sites = e.sites /\ q.fresh = IdsUnused(e)
  BY ONLY <1>4, <1>5, <1>6
<1>10. (/\ prev.phase \in {"done", "failed"} /\ prev.dry /\ q.file = prev.file
        /\ q.prune = prev.prune /\ q.fresh)
         => Answer(q.file, q.prune, q, prev.phase, prev.changes)
  BY ONLY <1>5, <1>6, SameAnswer
<1>11. DryInv'
  <2>1. FileMade(q.file)
    BY <1>5, <1>6
  <2>. QED BY ONLY <1>1, <1>6, <1>8, <1>9, <1>10, <2>1
       DEF DryInv, Underway, SameRequest, q, e
<1>. QED BY <1>3, <1>7, <1>11 DEF ApplyInv

LEMMA ApplyBreaks ==
  ASSUME ApplyInv, NEW x, AlertNotFound(x) \/ WriteFails(x)
  PROVE  ApplyInv'
<1>. DEFINE r == run
            d == db
            q == run'
<1>1. /\ r.phase = "working" /\ First(r, x)
      /\ Stuck(r, x) \/ Outcome(r, d, x).db # d
      /\ db' = d /\ prev' = prev
  BY DEF AlertNotFound, WriteFails
<1>2. /\ TablesMade(d) /\ Shaped(r) /\ Validate(r.file) /\ CoreInv /\ TodoOk(r)
      /\ ~Quiet(r)
  BY <1>1, TodoKnown, NotQuiet DEF ApplyInv, CoreInv, RunInv, Underway
<1>3. \/ Stuck(r, x) /\ q = [r EXCEPT !.phase = "failed"]
      \/ q = [r EXCEPT !.phase = "broken"]
  BY DEF AlertNotFound, WriteFails
<1>4. CoreInv'
  BY CoreBreaks DEF ApplyInv
<1>5. /\ r.exported /\ r.sound => Quiet(r)
      /\ FileMade(r.file) /\ (r.fresh => Planned(r, d))
      /\ r.dry => /\ r.alerts = d.alerts /\ r.sites = d.sites
                  /\ r.fresh = IdsUnused(d)
      /\ (/\ prev.phase \in {"done", "failed"} /\ prev.dry /\ r.file = prev.file
          /\ r.prune = prev.prune /\ r.fresh)
           => Answer(r.file, r.prune, r, prev.phase, prev.changes)
  BY <1>1 DEF ApplyInv, RoundInv, DryInv, Underway, SameRequest
<1>. HIDE DEF r, d, q
<1>6. /\ Shaped(q) /\ q.file = r.file /\ q.dry = r.dry
      /\ q.prune = r.prune /\ q.alerts = r.alerts /\ q.sites = r.sites
      /\ q.changes = r.changes /\ q.fresh = r.fresh
      /\ q.exported = r.exported /\ q.sound = r.sound
      /\ (q.phase = "failed" /\ Stuck(r, x)) \/ q.phase = "broken"
  BY ONLY <1>2, <1>3 DEF Shaped, Fields
<1>7. RoundInv'
  <2>1. ~(q.exported /\ q.sound)
    BY ONLY <1>2, <1>5, <1>6
  <2>. QED BY <2>1 DEF RoundInv, q
<1>8. q.phase = "failed" /\ q.fresh => Answer(q.file, q.prune, q, "failed", q.changes)
  <2>. SUFFICES ASSUME q.phase = "failed", q.fresh
                PROVE  Answer(q.file, q.prune, q, "failed", q.changes)
    OBVIOUS
  <2>1. Planned(r, d) /\ Stuck(r, x)
    BY <1>5, <1>6
  <2>2. Stopped(r.file, r.alerts, r.todo, "failed")
    BY ONLY <1>1, <1>2, <2>1, BrokenOff
  <2>3. Answer(r.file, r.prune, r, "failed", r.changes)
    BY ONLY <1>2, <2>1, <2>2, PlannedAnswer
  <2>. QED BY ONLY <1>6, <2>3, SameAnswer
<1>9. (/\ prev.phase \in {"done", "failed"} /\ prev.dry /\ q.file = prev.file
       /\ q.prune = prev.prune /\ q.fresh)
        => Answer(q.file, q.prune, q, prev.phase, prev.changes)
  BY ONLY <1>5, <1>6, SameAnswer
<1>10. DryInv'
  <2>1. /\ FileMade(q.file) /\ q.phase \in {"failed", "broken"}
        /\ q.dry => q.alerts = d.alerts /\ q.sites = d.sites /\ q.fresh = IdsUnused(d)
    BY <1>5, <1>6
  <2>. QED BY ONLY <1>1, <1>6, <1>8, <1>9, <2>1 DEF DryInv, Underway, SameRequest, q
<1>. QED BY <1>4, <1>7, <1>10 DEF ApplyInv

LEMMA ApplyFinish ==
  ASSUME ApplyInv, Finish
  PROVE  ApplyInv'
<1>. DEFINE r == run
            d == db
            q == run'
<1>1. /\ r.phase = "working" /\ r.todo = {} /\ q = [r EXCEPT !.phase = "done"]
      /\ db' = d /\ prev' = prev
  BY DEF Finish
<1>2. /\ Shaped(r) /\ Validate(r.file)
  BY <1>1 DEF ApplyInv, CoreInv, RunInv, Underway
<1>3. CoreInv'
  BY CoreFinish DEF ApplyInv
<1>4. /\ r.exported /\ r.sound => Quiet(r)
      /\ FileMade(r.file) /\ (r.fresh => Planned(r, d))
      /\ r.dry => /\ r.alerts = d.alerts /\ r.sites = d.sites
                  /\ r.fresh = IdsUnused(d)
      /\ (/\ prev.phase \in {"done", "failed"} /\ prev.dry /\ r.file = prev.file
          /\ r.prune = prev.prune /\ r.fresh)
           => Answer(r.file, r.prune, r, prev.phase, prev.changes)
  BY <1>1 DEF ApplyInv, RoundInv, DryInv, Underway, SameRequest
<1>. HIDE DEF r, d, q
<1>5. /\ Shaped(q) /\ q.phase = "done" /\ q.file = r.file /\ q.dry = r.dry
      /\ q.prune = r.prune /\ q.alerts = r.alerts /\ q.sites = r.sites
      /\ q.todo = r.todo /\ q.changes = r.changes /\ q.fresh = r.fresh
      /\ q.exported = r.exported /\ q.sound = r.sound /\ q.placeholder = r.placeholder
      /\ q.alertMap = r.alertMap /\ q.groupMap = r.groupMap
  BY <1>1, <1>2 DEF Shaped, Fields
<1>6. RoundInv'
  <2>1. Quiet(r) => Quiet(q)
    <3>1. q.todo \subseteq Work(q.file, q.prune, q)
      BY <1>1, <1>5
    <3>. QED BY <1>5, <3>1 DEF Quiet
  <2>2. q.exported /\ q.sound => Quiet(q)
    BY ONLY <1>4, <1>5, <2>1
  <2>. QED BY <2>2 DEF RoundInv, q
<1>7. Planned(r, d) => Planned(q, d)
  <2>1. Work(q.file, q.prune, q) = Work(r.file, r.prune, r)
    BY <1>5 DEF Work
  <2>. QED BY ONLY <1>5, <2>1 DEF Planned
<1>8. q.fresh => Answer(q.file, q.prune, q, "done", q.changes)
  <2>. SUFFICES ASSUME q.fresh PROVE Answer(q.file, q.prune, q, "done", q.changes)
    OBVIOUS
  <2>1. Planned(q, d) /\ Validate(q.file)
    BY <1>2, <1>4, <1>5, <1>7
  <2>2. Stopped(q.file, q.alerts, q.todo, "done")
    BY <1>1, <1>5 DEF Stopped
  <2>. QED BY ONLY <2>1, <2>2, PlannedAnswer
<1>9. (/\ prev.phase \in {"done", "failed"} /\ prev.dry /\ q.file = prev.file
       /\ q.prune = prev.prune /\ q.fresh)
        => Answer(q.file, q.prune, q, prev.phase, prev.changes)
  BY ONLY <1>4, <1>5, SameAnswer
<1>10. DryInv'
  <2>1. /\ FileMade(q.file) /\ (q.fresh => Planned(q, d))
        /\ q.dry => q.alerts = d.alerts /\ q.sites = d.sites /\ q.fresh = IdsUnused(d)
    BY <1>4, <1>5, <1>7
  <2>. QED BY ONLY <1>1, <1>5, <1>8, <1>9, <2>1 DEF DryInv, Underway, SameRequest, q
<1>. QED BY <1>3, <1>6, <1>10 DEF ApplyInv

LEMMA ApplySteps ==
  ASSUME ConfigAssumption, ApplyInv, [Next]_configVars
  PROVE  ApplyInv'
<1>1. CASE \E f \in Files, dry, prune \in BOOLEAN : Begin(f, FALSE, dry, prune)
  <2>1. \A f \in Files : Offered(f, FALSE)
    BY DEF ConfigAssumption, Offered
  <2>. QED BY <1>1, <2>1, ApplyBegin
<1>2. CASE \E prune \in BOOLEAN : Begin(ExportFile(db), TRUE, FALSE, prune)
  <2>1. Offered(ExportFile(db), TRUE)
    BY ExportMade DEF Offered, ApplyInv, CoreInv
  <2>. QED BY <1>2, <2>1, ApplyBegin
<1>3. CASE \E x \in run.todo : Item(x) \/ AlertNotFound(x) \/ WriteFails(x)
  BY <1>3, ApplyItem, ApplyBreaks
<1>4. CASE Finish
  BY <1>4, ApplyFinish
<1>5. CASE UNCHANGED configVars
  BY <1>5 DEF ApplyInv, CoreInv, RoundInv, DryInv, configVars, RunInv, Underway,
     UniqueKept, FixedInv, SameRequest
<1>. QED BY <1>1, <1>2, <1>3, <1>4, <1>5 DEF Next

\* What the invariant says of reports of success, of reruns, of dry runs and of
\* what was exported.
LEMMA ApplySafe ==
  ASSUME ApplyInv
  PROVE  AppliedMatches /\ IdempotentClosed /\ DryRunTruth /\ RoundTrip
<1>1. AppliedMatches /\ IdempotentClosed
  BY CoreSafe DEF ApplyInv
<1>2. DryRunTruth
  <2>. SUFFICES ASSUME prev.phase \in {"done", "failed"}, prev.dry, SameRequest,
                       run.phase \in {"done", "failed"}, run.fresh
                PROVE  run.phase = prev.phase /\ run.changes = prev.changes
    BY DEF DryRunTruth, Answered
  <2>. DEFINE f  == run.file
              pr == run.prune
              ph1 == run.phase
              ph2 == prev.phase
              ch1 == run.changes
              ch2 == prev.changes
  <2>1. /\ Shaped(run) /\ FileMade(f)
        /\ Answer(f, pr, run, ph1, ch1) /\ Answer(f, pr, run, ph2, ch2)
    BY DEF ApplyInv, DryInv
  <2>2. Bounded(run.alerts) /\ Bounded(run.sites)
    BY <2>1 DEF Bounded, Shaped
  <2>. HIDE DEF f, pr, ph1, ph2, ch1, ch2
  <2>3. ph1 = ph2 /\ ch1 = ch2
    BY ONLY <2>1, <2>2, AnswerOnce
  <2>. QED BY <2>3 DEF ph1, ph2, ch1, ch2
<1>3. RoundTrip
  BY DEF RoundTrip, Answered, ApplyInv, RoundInv, Quiet
<1>. QED BY <1>1, <1>2, <1>3
=============================================================================
