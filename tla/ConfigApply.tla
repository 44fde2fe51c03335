---------------------------- MODULE ConfigApply ----------------------------
(***************************************************************************)
(* Declarative configuration: `uptop apply' brings the database to what a  *)
(* YAML file says, `uptop export' writes the database as such a file.      *)
(*                                                                         *)
(* Apply reads the alerts and the sites once, then goes through the file   *)
(* and through that snapshot, one store write at a time and without a      *)
(* transaction: alerts, groups, the children of groups, the other          *)
(* monitors, and with --prune the sites and the alerts the file does not   *)
(* name.  Any write may fail, which ends the run with the earlier writes   *)
(* kept.  A dry run takes the same path with placeholder ids.              *)
(*                                                                         *)
(* In a file a monitor is [name, kind, body, dns, paused, alert, monitors];*)
(* alerts are referred to by name, and `monitors' are a group's children.  *)
(* A body is "unset" or "default" (the same once normalised: method GET,   *)
(* codes 200-299, threshold 7), "custom", or "missing" a required field.   *)
(***************************************************************************)
EXTENDS Store, Integers

CONSTANTS
  Files,      \* the files that may be applied
  Databases,  \* the databases the first run may find
  MaxRuns,    \* bound: runs of the command
  MaxFaults   \* bound: store writes that fail

\* A database has the store's tables, with ids its sequences have given out.
TablesMade(d) ==
  /\ IsDb(d)
  /\ d.lastSite \in Nat /\ DOMAIN d.sites \subseteq 1..d.lastSite
  /\ d.lastAlert \in Nat /\ DOMAIN d.alerts \subseteq 1..d.lastAlert
  /\ d.sites = [i \in DOMAIN d.sites |->
       [name |-> d.sites[i].name, kind |-> d.sites[i].kind, body |-> d.sites[i].body,
        dns |-> d.sites[i].dns, alert |-> d.sites[i].alert,
        parent |-> d.sites[i].parent, paused |-> d.sites[i].paused,
        token |-> d.sites[i].token]]
  /\ d.alerts = [i \in DOMAIN d.alerts |->
       [name |-> d.alerts[i].name, body |-> d.alerts[i].body]]

\* The lists of a file are counted from 1.
FileMade(f) ==
  /\ DOMAIN f.alerts \subseteq Nat \ {0} /\ DOMAIN f.monitors \subseteq Nat \ {0}
  /\ \A i \in DOMAIN f.monitors : DOMAIN f.monitors[i].monitors \subseteq Nat \ {0}

ConfigAssumption ==
  /\ MaxRuns \in Nat /\ MaxFaults \in Nat
  /\ \A f \in Files : FileMade(f)
  /\ \A d \in Databases : TablesMade(d)

VARIABLES
  db,      \* the database
  run,     \* the run under way, or the last one
  prev,    \* what the run before it was asked and what it answered
  runs, faults

configVars == <<db, run, prev, runs, faults>>

NoName == ""
Kinds  == {"http", "push", "ping", "port", "dns", "group"}

Unique(table) == \A i, j \in DOMAIN table : table[i].name = table[j].name => i = j
NamesOf(rows) == {rows[i].name : i \in DOMAIN rows}

-----------------------------------------------------------------------------
\* Validation.
\* The places of a file: monitor i, and with j > 0 the j-th child of group i.
Places(f) ==
  {<<i, 0>> : i \in DOMAIN f.monitors} \cup
  UNION {{<<i, j>> : j \in DOMAIN f.monitors[i].monitors} : i \in DOMAIN f.monitors}
At(f, p) == IF p[2] = 0 THEN f.monitors[p[1]] ELSE f.monitors[p[1]].monitors[p[2]]

validateMonitor(m, nested) ==
  /\ m.name # NoName
  /\ m.kind \in Kinds
  /\ m.body # "missing"
  /\ m.kind = "group" => ~nested
  /\ m.kind # "group" => m.monitors = <<>>

Validate(f) ==
  /\ Unique(f.alerts)
  /\ \A i \in DOMAIN f.alerts :
       f.alerts[i].name # NoName /\ f.alerts[i].body # "missing"
  /\ \A p, q \in Places(f) : At(f, p).name = At(f, q).name => p = q
  /\ \A p \in Places(f) : validateMonitor(At(f, p), p[2] # 0)

-----------------------------------------------------------------------------
\* From a file entry to a row, and when a row differs from it.
Normal(body) == IF body = "unset" THEN "default" ELSE body

DropsDefault(m, alertId, parentId) ==                            \* mutant
  [name |-> m.name, kind |-> m.kind, dns |-> m.dns,
   body |-> IF m.body = "default" THEN "unset" ELSE Normal(m.body),
   alert |-> alertId, parent |-> parentId, paused |-> m.paused, token |-> 0]

monitorToSite(m, alertId, parentId) ==
  [name |-> m.name, kind |-> m.kind, body |-> Normal(m.body), dns |-> m.dns,
   alert |-> alertId, parent |-> parentId, paused |-> m.paused, token |-> 0]

normalizeSite(row) == [row EXCEPT !.body = Normal(@)]

ForgetsParent(row, wanted) ==                                    \* mutant
  \E field \in {"kind", "body", "dns", "alert", "paused"} :
    normalizeSite(row)[field] # wanted[field]

diffSite(row, wanted) ==
  \E field \in {"kind", "body", "dns", "alert", "parent", "paused"} :
    normalizeSite(row)[field] # wanted[field]

diffAlert(row, wanted) == row.body # wanted.body

collectMonitorNames(f) == {At(f, p).name : p \in Places(f)}

-----------------------------------------------------------------------------
\* Export: an alert or a group that is gone is left out, and with a group all
\* the children that point to it.
WithoutDns(d, id, kids) ==                                       \* mutant
  LET row == d.sites[id] IN
  [name |-> row.name, kind |-> row.kind, dns |-> "", paused |-> row.paused,
   body  |-> IF row.body = "default" THEN "unset" ELSE row.body,
   alert |-> IF row.alert \in DOMAIN d.alerts THEN d.alerts[row.alert].name
                                              ELSE NoName,
   monitors |-> kids]

siteToMonitor(d, id, kids) ==
  LET row == d.sites[id] IN
  [name |-> row.name, kind |-> row.kind, dns |-> row.dns, paused |-> row.paused,
   body  |-> IF row.body = "default" THEN "unset" ELSE row.body,
   alert |-> IF row.alert \in DOMAIN d.alerts THEN d.alerts[row.alert].name
                                              ELSE NoName,
   monitors |-> kids]

\* The lists are indexed by the ids of the rows, in whose order Export writes
\* them: the groups, each with its children, and the monitors outside.
ExportFile(d) ==
  LET group(i)  == d.sites[i].kind = "group"
      inside(i) == ~group(i) /\ d.sites[i].parent > 0
      kids(g)   == {i \in DOMAIN d.sites : inside(i) /\ d.sites[i].parent = g}
      children(i) == IF group(i) THEN [j \in kids(i) |-> siteToMonitor(d, j, <<>>)]
                                 ELSE <<>>
  IN  [alerts   |-> d.alerts,
       monitors |-> [i \in {j \in DOMAIN d.sites : ~inside(j)} |->
                       siteToMonitor(d, i, children(i))]]

-----------------------------------------------------------------------------
\* The work of a run: <<stage, i, j>> is place <<i, j>> of the file, its alert i
\* or the row i of the snapshot, in the order of Apply's loops.
AlertStage == 1
GroupStage == 2
ChildStage == 3
OtherStage == 4
SitePrune  == 5
AlertPrune == 6

StageOf(f, p) ==
  IF p[2] # 0 THEN ChildStage
  ELSE IF At(f, p).kind = "group" THEN GroupStage ELSE OtherStage
ItemOf(f, p) == <<StageOf(f, p), p[1], p[2]>>

Unlisted(table, names) == {i \in DOMAIN table : table[i].name \notin names}

Work(f, prune, d) ==
  {<<AlertStage, i, 0>> : i \in DOMAIN f.alerts} \cup {ItemOf(f, p) : p \in Places(f)}
  \cup IF ~prune THEN {}
       ELSE {<<SitePrune, i, 0>> : i \in Unlisted(d.sites, collectMonitorNames(f))}
            \cup {<<AlertPrune, i, 0>> : i \in Unlisted(d.alerts, NamesOf(f.alerts))}

Before(x, y) ==
  \/ x[1] < y[1]
  \/ x[1] = y[1] /\ x[2] < y[2]
  \/ x[1] = y[1] /\ x[2] = y[2] /\ x[3] < y[3]
First(r, x) == x \in r.todo /\ \A y \in r.todo \ {x} : Before(x, y)

Idle == [phase |-> "idle", file |-> [alerts |-> <<>>, monitors |-> <<>>],
         dry |-> FALSE, prune |-> FALSE, exported |-> FALSE, sound |-> FALSE,
         fresh |-> FALSE, changes |-> {}]

Init ==
  /\ db \in Databases
  /\ run = Idle
  /\ prev = Idle
  /\ runs = 0
  /\ faults = 0

\* runApply: an invalid file changes nothing; otherwise the snapshot is taken.
\* `sound' remembers whether an exported file describes the whole database,
\* `fresh' whether no row refers to an id that is still to be given out.
WellFormed(d) ==
  /\ Unique(d.sites) /\ Unique(d.alerts)
  /\ \A i \in DOMAIN d.alerts : d.alerts[i].name # NoName /\ d.alerts[i].body # "missing"
  /\ \A i \in DOMAIN d.sites :
       LET row == d.sites[i] IN
       /\ row.name # NoName /\ row.kind \in Kinds /\ row.body # "missing"
       /\ row.alert \in DOMAIN d.alerts \cup {0}
       /\ row.parent # 0 => /\ row.kind # "group"
                            /\ row.parent \in DOMAIN d.sites
                            /\ d.sites[row.parent].kind = "group"
IdsUnused(d) ==
  \A i \in DOMAIN d.sites : /\ d.sites[i].alert \in 0..d.lastAlert
                            /\ d.sites[i].parent \in 0..d.lastSite

Begin(f, exported, dry, prune) ==
  /\ run.phase # "working"
  /\ runs < MaxRuns
  /\ runs' = runs + 1
  /\ prev' = [x \in DOMAIN Idle |-> run[x]]
  /\ run' = [phase |-> IF Validate(f) THEN "working" ELSE "failed",
             file |-> f, dry |-> dry, prune |-> prune, changes |-> {},
             exported |-> exported, sound |-> WellFormed(db), fresh |-> IdsUnused(db),
             alerts |-> db.alerts, sites |-> db.sites,
             alertMap |-> [n \in NamesOf(db.alerts) |-> LastNamed(db.alerts, n)],
             groupMap |-> <<>>, placeholder |-> -1,
             todo |-> Work(f, prune, db)]
  /\ UNCHANGED <<db, faults>>

\* One item of the work done: the run goes on with what is left.
Note(action, kind, name) == [action |-> action, kind |-> kind, name |-> name]
Onward(r, x, change) == [r EXCEPT !.todo = @ \ {x}, !.changes = @ \cup change]

\* What an item of the work does to the run and, in a real run, to the
\* database.
ApplyAlert(r, d, x) ==
  LET a   == r.file.alerts[x[2]]
      old == LastNamed(r.alerts, a.name)
      new == IF r.dry THEN r.placeholder ELSE d.lastAlert + 1
      row == [name |-> a.name, body |-> a.body]
  IN  IF old = 0
      THEN [run |-> [Onward(r, x, {Note("create", "alert", a.name)}) EXCEPT
                       !.alertMap = With(@, a.name, new),
                       !.placeholder = IF r.dry THEN @ - 1 ELSE @],
            db  |-> IF r.dry THEN d ELSE AddAlert(d, row)]
      ELSE IF diffAlert(r.alerts[old], row)
      THEN [run |-> Onward(r, x, {Note("update", "alert", a.name)}),
            db  |-> IF r.dry THEN d ELSE UpdateAlert(d, old, row)]
      ELSE [run |-> Onward(r, x, {}), db |-> d]

Monitor(r, x) == At(r.file, <<x[2], x[3]>>)

WantsRealId(r, m) ==                                             \* mutant
  m.alert # NoName /\ m.alert \notin {n \in DOMAIN r.alertMap : r.alertMap[n] > 0}
Unresolved(r, m) == m.alert # NoName /\ m.alert \notin DOMAIN r.alertMap
resolveAlertID(r, m) == IF m.alert = NoName THEN 0 ELSE r.alertMap[m.alert]

\* The row a monitor of the file asks for.
Wanted(r, x) ==
  monitorToSite(Monitor(r, x), resolveAlertID(r, Monitor(r, x)),
    IF x[1] = ChildStage THEN r.groupMap[At(r.file, <<x[2], 0>>).name] ELSE 0)

\* applyMonitor, and the loop over the groups, which also notes the id.
applyMonitor(r, d, x) ==
  LET m    == Monitor(r, x)
      row  == Wanted(r, x)
      old  == LastNamed(r.sites, m.name)
      new  == IF r.dry THEN r.placeholder ELSE d.lastSite + 1
      id   == IF old = 0 THEN new ELSE old
      change == IF old = 0 THEN {Note("create", "monitor", m.name)}
                ELSE IF diffSite(r.sites[old], row)
                THEN {Note("update", "monitor", m.name)} ELSE {}
      isGroup == x[1] = GroupStage
  IN  [run |-> [Onward(r, x, change) EXCEPT
                  !.groupMap = IF isGroup THEN With(@, m.name, id) ELSE @,
                  !.placeholder = IF isGroup /\ r.dry /\ old = 0 THEN @ - 1 ELSE @],
       db  |-> IF r.dry \/ change = {} THEN d
               ELSE IF old = 0 THEN AddSite(d, row) ELSE UpdateSite(d, old, row)]

pruneSite(r, d, x) ==
  [run |-> Onward(r, x, {Note("delete", "monitor", r.sites[x[2]].name)}),
   db  |-> IF r.dry THEN d ELSE DeleteSite(d, x[2])]

\* DeleteAlert's first statement leaves its second, <<AlertPrune, id, 1>>, to be
\* done.
pruneAlert(r, d, x) ==
  LET next == Onward(r, x, {Note("delete", "alert", r.alerts[x[2]].name)})
  IN  IF r.dry THEN [run |-> next, db |-> d]
      ELSE [run |-> [next EXCEPT !.todo = @ \cup {<<AlertPrune, x[2], 1>>}],
            db  |-> ReleaseAlert(d, x[2])]
dropAlert(r, d, x) == [run |-> Onward(r, x, {}), db |-> DropAlert(d, x[2])]

Outcome(r, d, x) ==
  CASE x[1] = AlertStage -> ApplyAlert(r, d, x)
    [] x[1] \in {GroupStage, ChildStage, OtherStage} -> applyMonitor(r, d, x)
    [] x[1] = SitePrune  -> pruneSite(r, d, x)
    [] x[1] = AlertPrune /\ x[3] = 0 -> pruneAlert(r, d, x)
    [] x[1] = AlertPrune /\ x[3] = 1 -> dropAlert(r, d, x)

Stuck(r, x) ==
  x[1] \in {GroupStage, ChildStage, OtherStage} /\ Unresolved(r, Monitor(r, x))

Item(x) ==
  /\ run.phase = "working" /\ First(run, x) /\ ~Stuck(run, x)
  /\ run' = Outcome(run, db, x).run
  /\ db' = Outcome(run, db, x).db
  /\ UNCHANGED <<prev, runs, faults>>

\* A reference to an alert nobody knows ends the run where it is met.
AlertNotFound(x) ==
  /\ run.phase = "working" /\ First(run, x) /\ Stuck(run, x)
  /\ run' = [run EXCEPT !.phase = "failed"]
  /\ UNCHANGED <<db, prev, runs, faults>>

\* The store refuses the write of this item.
WriteFails(x) ==
  /\ run.phase = "working" /\ First(run, x) /\ ~Stuck(run, x)
  /\ Outcome(run, db, x).db # db
  /\ faults < MaxFaults
  /\ faults' = faults + 1
  /\ run' = [run EXCEPT !.phase = "broken"]
  /\ UNCHANGED <<db, prev, runs>>

Finish ==
  /\ run.phase = "working" /\ run.todo = {}
  /\ run' = [run EXCEPT !.phase = "done"]
  /\ UNCHANGED <<db, prev, runs, faults>>

Next ==
  \/ \E f \in Files, dry, prune \in BOOLEAN : Begin(f, FALSE, dry, prune)
  \/ \E prune \in BOOLEAN : Begin(ExportFile(db), TRUE, FALSE, prune)
  \/ run.phase = "working" /\ \E x \in run.todo :
       Item(x) \/ AlertNotFound(x) \/ WriteFails(x)
  \/ Finish

Spec == Init /\ [][Next]_configVars

-----------------------------------------------------------------------------
\* Does the file list every alert it refers to?
Closed(f) == \A p \in Places(f) : At(f, p).alert \in NamesOf(f.alerts) \cup {NoName}

\* The database says what the file says.
Matches(d, f, prune) ==
  LET alertId(n) == IF n = NoName THEN 0 ELSE LastNamed(d.alerts, n)
      parentId(p) == IF p[2] = 0 THEN 0 ELSE LastNamed(d.sites, At(f, <<p[1], 0>>).name)
      says(row, p) ==
        /\ row.kind = At(f, p).kind /\ Normal(row.body) = Normal(At(f, p).body)
        /\ row.dns = At(f, p).dns /\ row.paused = At(f, p).paused
        /\ row.alert = alertId(At(f, p).alert) /\ row.parent = parentId(p)
  IN  /\ \A i \in DOMAIN f.alerts :
           \E id \in {LastNamed(d.alerts, f.alerts[i].name)} \ {0} :
             d.alerts[id].body = f.alerts[i].body
      /\ \A p \in Places(f) :
           \E id \in {LastNamed(d.sites, At(f, p).name)} \ {0} : says(d.sites[id], p)
      /\ prune => /\ NamesOf(d.sites) = collectMonitorNames(f)
                  /\ NamesOf(d.alerts) = NamesOf(f.alerts)

\* A rerun after a break-off does not create anything a second time: if they
\* were so in the database found, names are unique in both tables.
NoDuplicates ==
  (\A d \in Databases : Unique(d.sites) /\ Unique(d.alerts))
    => Unique(db.sites) /\ Unique(db.alerts)

\* A run that reports success has made the database what the file says,
\* whatever an earlier run that broke off left behind (docs: fix the problem
\* and run it again), and has made nothing twice.
AppliedMatches ==
  (/\ run.phase = "done" /\ ~run.dry
   /\ Closed(run.file) \/ ~run.prune)
     => Matches(db, run.file, run.prune) /\ NoDuplicates

SameRequest == run.file = prev.file /\ run.prune = prev.prune
Answered    == run.phase \in {"done", "failed"}

\* docs/config-as-code.md: apply twice with the same file and the second run
\* changes nothing.
Idempotent ==
  (/\ prev.phase = "done" /\ ~prev.dry /\ SameRequest /\ Answered)
     => run.phase = "done" /\ run.changes = {}

\* The same for the files that list every alert they refer to, or without
\* --prune.
IdempotentClosed ==
  Closed(run.file) \/ ~run.prune => Idempotent

\* A dry run tells what the real run after it does: same outcome, same
\* changes, although it works with placeholder ids; provided no row refers to
\* an id that is given out only now.
DryRunTruth ==
  (/\ prev.phase \in {"done", "failed"} /\ prev.dry /\ ~run.dry
   /\ SameRequest /\ Answered /\ run.fresh)
     => run.phase = prev.phase /\ run.changes = prev.changes

\* Applying what was just exported changes nothing, provided names are unique
\* and no site points to an alert or a group that is gone.
RoundTrip ==
  (Answered /\ run.exported /\ run.sound)
     => run.phase = "done" /\ run.changes = {}
=============================================================================
