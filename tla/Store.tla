------------------------------- MODULE Store -------------------------------
(***************************************************************************)
(* The part of the SQL store that configuration lives in, as operators on  *)
(* a database value: every operator is one method of SQLStore and returns  *)
(* the database after it.  Tables are functions from row ids; a SELECT     *)
(* without ORDER BY walks them in id order, as SQLite's rowid tables do.   *)
(*                                                                         *)
(* A site row keeps the fields the components tell apart; `body' stands    *)
(* for the rest of the check's settings.  Ids come from AUTOINCREMENT      *)
(* sequences (lastSite, lastAlert), which the SQLite dialect starts over   *)
(* when a table becomes empty.  Push tokens are numbers, 0 for none.       *)
(***************************************************************************)
EXTENDS Naturals, Sequences, SequencesExt, FiniteSets

EmptyDb ==
  [alerts   |-> <<>>,   \* alert id -> [name, body]
   sites    |-> <<>>,   \* site id  -> row
   windows  |-> {},     \* sites with a maintenance window of their own
   history  |-> {},     \* sites with rows in check_history or state_changes
   lastSite |-> 0, lastAlert |-> 0,
   tokens   |-> 0]      \* push tokens generated so far

IsDb(db) ==
  db = [alerts |-> db.alerts, sites |-> db.sites, windows |-> db.windows,
        history |-> db.history, lastSite |-> db.lastSite,
        lastAlert |-> db.lastAlert, tokens |-> db.tokens]

Without(table, id) == [i \in DOMAIN table \ {id} |-> table[i]]
With(table, id, row) ==
  [i \in DOMAIN table \cup {id} |-> IF i = id THEN row ELSE table[i]]

\* The newest row with a name: map[name] = row in a loop over the rows.
LastNamed(table, name) ==
  LET ids == {i \in DOMAIN table : table[i].name = name}
  IN  IF ids = {} THEN 0 ELSE CHOOSE i \in ids : \A j \in ids : j <= i

-----------------------------------------------------------------------------
\* A push row gets a token when it is written without one.
Tokened(db, row) ==
  LET fresh == row.kind = "push" /\ row.token = 0
  IN  [row    |-> IF fresh THEN [row EXCEPT !.token = db.tokens + 1] ELSE row,
       tokens |-> IF fresh THEN db.tokens + 1 ELSE db.tokens]

\* AddSite and AddSiteReturningID ignore any token the caller has.
AddSite(db, site) ==
  LET id == db.lastSite + 1
      t  == Tokened(db, [site EXCEPT !.token = 0])
  IN  [db EXCEPT !.sites = With(@, id, t.row), !.lastSite = id,
                 !.tokens = t.tokens]

StoredToken(db, id) == IF id \in DOMAIN db.sites THEN db.sites[id].token ELSE 0

TrustsCaller(db, id, site) == Tokened(db, site)                  \* mutant

\* UpdateSite is two statements without a transaction.  The first one reads
\* the stored token, which survives whatever the caller has; where there is
\* none, or no row, a token is generated if the row is to be a push row.
ReadForUpdate(db, id, site) ==
  Tokened(db, [site EXCEPT !.token = StoredToken(db, id)])

\* The second one replaces the whole row, the token included.  An id that is
\* not there is not an error and changes nothing.
WriteRow(db, id, row) ==
  IF id \in DOMAIN db.sites THEN [db EXCEPT !.sites[id] = row] ELSE db

\* The two together, for a caller nobody interferes with.
UpdateSite(db, id, site) ==
  LET t == ReadForUpdate(db, id, site)
  IN  WriteRow([db EXCEPT !.tokens = t.tokens], id, t.row)

UpdateSitePaused(db, id, p) ==
  IF id \in DOMAIN db.sites THEN [db EXCEPT !.sites[id].paused = p] ELSE db

\* One transaction; the sequence restarts if it emptied the table.  The
\* children of a deleted group keep its id as parent.
DeleteSite(db, id) ==
  LET rest == Without(db.sites, id)
  IN  [db EXCEPT !.sites = rest,
                 !.windows = @ \ {id}, !.history = @ \ {id},
                 !.lastSite = IF rest = <<>> THEN 0 ELSE @]

AddAlert(db, alert) ==
  LET id == db.lastAlert + 1
  IN  [db EXCEPT !.alerts = With(@, id, alert), !.lastAlert = id]

UpdateAlert(db, id, alert) ==
  IF id \in DOMAIN db.alerts THEN [db EXCEPT !.alerts[id] = alert] ELSE db

\* DeleteAlert is two statements without a transaction.
ReleaseAlert(db, id) ==
  [db EXCEPT !.sites = [i \in DOMAIN @ |->
     IF @[i].alert = id THEN [@[i] EXCEPT !.alert = 0] ELSE @[i]]]
DropAlert(db, id) ==
  LET rest == Without(db.alerts, id)
  IN  [db EXCEPT !.alerts = rest,
                 !.lastAlert = IF rest = <<>> THEN 0 ELSE @]

-----------------------------------------------------------------------------
\* Backup and restore.  A restore wipes the histories, keeps the ids, and the
\* sequences continue after the largest one.
ExportData(db) == [alerts |-> db.alerts, sites |-> db.sites, windows |-> db.windows]

LargestId(table) ==
  IF DOMAIN table = {} THEN 0
  ELSE CHOOSE i \in DOMAIN table : \A j \in DOMAIN table : j <= i

ImportData(db, backup) ==
  [db EXCEPT !.alerts = backup.alerts, !.sites = backup.sites,
             !.windows = backup.windows, !.history = {},
             !.lastSite = LargestId(backup.sites),
             !.lastAlert = LargestId(backup.alerts)]
=============================================================================
