------------------------------ MODULE SitePoll ------------------------------
(***************************************************************************)
(* How an edit reaches the engine.  The site rows in the database are the  *)
(* truth; the engine keeps a live copy of each, a goroutine per live site  *)
(* and an index from push tokens to sites.  A poll loop reads all rows and *)
(* then, one lock at a time, adds, updates and finally removes live sites. *)
(* A console changes the live copy at once and sends the same change to    *)
(* the database as a Cmd, which runs in a goroutine of its own: Cmds reach *)
(* the database in any order and may fail, and an update reads the row's   *)
(* token in one statement and writes the row in another.  `uptop apply',   *)
(* the HTTP import and other consoles change rows behind the engine's      *)
(* back, an update of theirs in the same two statements.                   *)
(***************************************************************************)
EXTENDS Store

CONSTANTS
  Bodies,     \* check settings an edit may choose
  SiteTypes,  \* and the types of monitor
  FirstRows,  \* the database the engine starts on
  MaxEdits    \* bound: edits, by the console and behind its back

\* (The provers do not know that these literals are strings.)
Text == STRING \cup {"", "new", "push"}
Row == [name : Text, kind : Text, body : Text, dns : Text,
        alert : Nat, parent : Nat, paused : BOOLEAN, token : Nat]

\* The database at the start is one the store can have written: a token
\* belongs to one row and was generated, ids are below the sequence.
PollAssumption ==
  /\ MaxEdits \in Nat /\ Bodies \subseteq Text /\ SiteTypes \subseteq Text
  /\ IsDb(FirstRows)
  /\ FirstRows.lastSite \in Nat /\ FirstRows.tokens \in Nat
  /\ FirstRows.sites \in [DOMAIN FirstRows.sites -> Row]
  /\ LET ids == DOMAIN FirstRows.sites
         token(i) == FirstRows.sites[i].token
     IN  /\ ids \subseteq 1..FirstRows.lastSite
         /\ ids # {} => \E i \in ids : \A j \in ids : j <= i
         /\ \A i \in ids : token(i) <= FirstRows.tokens
         /\ \A i, j \in ids : token(i) = token(j) => i = j \/ token(i) = 0

VARIABLES
  db,        \* the database
  live,      \* liveState: site id -> its configuration
  index,     \* tokenIndex: push token -> site id
  routines,  \* site id -> monitorRoutines running for it
  poll,      \* the poll loop: what it read and has still to apply
  form,      \* the open edit form: the site and the copy it was filled with
  cmds,      \* writes on their way to the database
  edits      \* edits so far

pollVars == <<db, live, index, routines, poll, form, cmds, edits>>

Resting == [pc |-> "resting", rows |-> <<>>, todo |-> {}]
NoForm  == [id |-> 0]
\* What is written of a row by a pause that finds no site, and by a delete.
Unpaused == [name |-> "", kind |-> "", body |-> "", dns |-> "",
             alert |-> 0, parent |-> 0, paused |-> FALSE, token |-> 0]

Init ==
  /\ db = FirstRows
  /\ live = <<>>
  /\ index = <<>>
  /\ routines = [i \in 1..(FirstRows.lastSite + MaxEdits) |-> 0]
  /\ poll = Resting
  /\ form = NoForm
  /\ cmds = {}
  /\ edits = 0

-----------------------------------------------------------------------------
\* The live map and the token index, as the engine's methods change them.
removeFromTokenIndex(ix, id) ==
  LET tokens == {t \in DOMAIN ix : ix[t] = id}
  IN  IF tokens = {} THEN ix ELSE Without(ix, CHOOSE t \in tokens : TRUE)

addToTokenIndex(ix, id, site) ==
  IF site.kind = "push" /\ site.token # 0 THEN With(ix, site.token, id) ELSE ix

UpdateSiteConfig(id, cfg) ==
  IF id \in DOMAIN live
  THEN /\ live' = With(live, id, cfg)
       /\ index' = addToTokenIndex(removeFromTokenIndex(index, id), id, cfg)
  ELSE UNCHANGED <<live, index>>

KeepsToken(id) == live' = Without(live, id) /\ UNCHANGED index   \* mutant
RemoveSite(id) ==
  /\ live' = Without(live, id)
  /\ index' = removeFromTokenIndex(index, id)

-----------------------------------------------------------------------------
\* The poll loop.
\* GetSites; an error is retried after the interval.
PollRead ==
  /\ poll.pc = "resting"
  /\ poll' = [pc |-> "applying", rows |-> db.sites, todo |-> DOMAIN db.sites]
  /\ UNCHANGED <<db, live, index, routines, form, cmds, edits>>

NewRowsOnly ==                                                   \* mutant
  \E id \in poll.todo :
  /\ \A i \in poll.todo : id <= i
  /\ poll' = [poll EXCEPT !.todo = @ \ {id}]
  /\ IF id \notin DOMAIN live
     THEN /\ live' = With(live, id, poll.rows[id])
          /\ index' = addToTokenIndex(index, id, poll.rows[id])
          /\ routines' = [routines EXCEPT ![id] = @ + 1]
     ELSE UNCHANGED <<live, index, routines>>
  /\ UNCHANGED <<db, form, cmds, edits>>

\* The rows in id order.  A row without a live site starts one, with a
\* goroutine; a row that differs from its live copy replaces the copy, the
\* console's latest edit included.
PollApply ==
  \E id \in poll.todo :
  /\ \A i \in poll.todo : id <= i
  /\ poll' = [poll EXCEPT !.todo = @ \ {id}]
  /\ IF id \notin DOMAIN live
     THEN /\ live' = With(live, id, poll.rows[id])
          /\ index' = addToTokenIndex(index, id, poll.rows[id])
          /\ routines' = [routines EXCEPT ![id] = @ + 1]
     ELSE /\ IF live[id] # poll.rows[id] THEN UpdateSiteConfig(id, poll.rows[id])
                                         ELSE UNCHANGED <<live, index>>
          /\ UNCHANGED routines
  /\ UNCHANGED <<db, form, cmds, edits>>

\* Live sites that were not among the rows go, one RemoveSite after another.
PollSweep ==
  LET gone == DOMAIN live \ DOMAIN poll.rows IN
  /\ poll.pc = "applying" /\ poll.todo = {}
  /\ IF gone = {}
     THEN poll' = Resting /\ UNCHANGED <<live, index>>
     ELSE \E id \in gone : RemoveSite(id) /\ UNCHANGED poll
  /\ UNCHANGED <<db, routines, form, cmds, edits>>

\* monitorRoutine returns when it wakes up and its site is not there.
RoutineReturns(id) ==
  /\ routines[id] > 0
  /\ id \notin DOMAIN live
  /\ routines' = [routines EXCEPT ![id] = @ - 1]
  /\ UNCHANGED <<db, live, index, poll, form, cmds, edits>>

-----------------------------------------------------------------------------
\* The console.
Edit == edits < MaxEdits /\ edits' = edits + 1
Send(op, id, row) ==
  cmds' = cmds \cup {[n |-> edits', op |-> op, id |-> id, row |-> row, seen |-> 0]}

\* Sites the poll loop has just taken away, which the console's list or a
\* dialog of it may still name: their goroutines have not noticed either.
Vanished == {id \in DOMAIN routines : routines[id] > 0} \ DOMAIN live

\* The form is filled from the live copy; it has no field for the token, the
\* DNS settings and the pause.
OpenForm(id) ==
  /\ form = NoForm /\ edits < MaxEdits
  /\ form' = [id |-> id, row |-> [live[id] EXCEPT !.token = 0, !.dns = "",
                                                  !.paused = FALSE]]
  /\ UNCHANGED <<db, live, index, routines, poll, cmds, edits>>

SubmitEdit(body, kind) ==
  /\ form # NoForm
  /\ Edit
  /\ LET cfg == [form.row EXCEPT !.body = body, !.kind = kind]
     IN  /\ UpdateSiteConfig(form.id, cfg)
         /\ Send("update", form.id, cfg)
  /\ form' = NoForm
  /\ UNCHANGED <<db, routines, poll>>

SubmitNew(row) ==
  /\ Edit
  /\ Send("add", 0, row)
  /\ UNCHANGED <<db, live, index, routines, poll, form>>

\* p: the live copy is toggled, and the value it got is written.
TogglePause(id) ==
  /\ Edit
  /\ live' = [live EXCEPT ![id].paused = ~@]
  /\ Send("pause", id, live'[id])
  /\ UNCHANGED <<db, index, routines, poll, form>>

\* For a site that has gone, ToggleSitePause answers false, and that is
\* written to the row, if there still is one.
PauseVanished(id) ==
  /\ Edit
  /\ Send("pause", id, Unpaused)
  /\ UNCHANGED <<db, live, index, routines, poll, form>>

ConfirmDelete(id) ==
  /\ Edit
  /\ RemoveSite(id)
  /\ Send("delete", id, Unpaused)
  /\ UNCHANGED <<db, routines, poll, form>>

\* An update reads the stored token and goes on with it.
CmdReads(c) ==
  LET t == ReadForUpdate(db, c.id, c.row) IN
  /\ c.op = "update"
  /\ db' = [db EXCEPT !.tokens = t.tokens]
  /\ cmds' = (cmds \ {c}) \cup {[c EXCEPT !.op = "write", !.row = t.row,
                                          !.seen = StoredToken(db, c.id)]}
  /\ UNCHANGED <<live, index, routines, poll, form, edits>>

\* A write reaches the database, or is refused.
Written(c) ==
  CASE c.op = "write"  -> WriteRow(db, c.id, c.row)
    [] c.op = "add"    -> AddSite(db, c.row)
    [] c.op = "pause"  -> UpdateSitePaused(db, c.id, c.row.paused)
    [] c.op = "delete" -> DeleteSite(db, c.id)

CmdRuns(c) ==
  /\ c.op # "update"
  /\ cmds' = cmds \ {c}
  /\ db' = Written(c)
  /\ UNCHANGED <<live, index, routines, poll, form, edits>>
CmdFails(c) ==
  /\ cmds' = cmds \ {c}
  /\ UNCHANGED <<db, live, index, routines, poll, form, edits>>

\* Someone else: a row read and an update of it sent, a row deleted, or a
\* backup restored.
OutsideUpdate(id, body, kind) ==
  /\ Edit
  /\ Send("update", id, [db.sites[id] EXCEPT !.body = body, !.kind = kind])
  /\ UNCHANGED <<db, live, index, routines, poll, form>>
OutsideDelete(id) ==
  /\ Edit
  /\ db' = DeleteSite(db, id)
  /\ UNCHANGED <<live, index, routines, poll, form, cmds>>
Restore(backup) ==
  /\ Edit
  /\ db' = ImportData(db, backup)
  /\ UNCHANGED <<live, index, routines, poll, form, cmds>>

-----------------------------------------------------------------------------
PollLoop == PollRead \/ PollApply \/ PollSweep
Cmds     == \E c \in cmds : CmdReads(c) \/ CmdRuns(c) \/ CmdFails(c)
Console  ==
  \/ \E id \in DOMAIN live : OpenForm(id) \/ TogglePause(id) \/ ConfirmDelete(id)
  \/ \E id \in Vanished : PauseVanished(id) \/ ConfirmDelete(id)
  \/ \E body \in Bodies, kind \in SiteTypes : SubmitEdit(body, kind)
  \/ \E body \in Bodies :
       SubmitNew([name |-> "new", kind |-> "push", body |-> body, dns |-> "",
                  alert |-> 0, parent |-> 0, paused |-> FALSE, token |-> 0])
Outside  ==
  \/ \E id \in DOMAIN db.sites, body \in Bodies, kind \in SiteTypes :
       OutsideUpdate(id, body, kind)
  \/ \E id \in DOMAIN db.sites : OutsideDelete(id)
  \/ Restore(ExportData(FirstRows))

Next == PollLoop \/ Cmds \/ Console \/ Outside
        \/ \E id \in DOMAIN routines : RoutineReturns(id)

\* The poll loop runs on a timer and a Cmd is a goroutine: neither waits for
\* the user.
Spec == Init /\ [][Next]_pollVars /\ WF_pollVars(PollLoop) /\ WF_pollVars(Cmds)

-----------------------------------------------------------------------------
\* Every live site is checked: there is a goroutine for it, although the one
\* of an earlier life may be about to return.
RoutineAlive == \A id \in DOMAIN live : routines[id] > 0

\* Once the edits are over and their writes done or refused, the engine ends
\* up with exactly the rows of the database, whatever the console showed in
\* the meantime (update.go: the poll loop converges to the DB state), and
\* checks every one of them.
Settles == <>[](live = db.sites /\ RoutineAlive)

\* A heartbeat finds the push monitor it belongs to and no other: the index
\* is what the live sites say, through edits, removals and restores.
TokenIndexExact ==
  index = [t \in {live[i].token : i \in {j \in DOMAIN live : live[j].kind = "push"
                                                        /\ live[j].token # 0}}
             |-> CHOOSE i \in DOMAIN live : live[i].kind = "push" /\ live[i].token = t]

\* An update that finds another token than the one it has read: in between,
\* an overlapping update gave the row its first one, a backup was restored, or
\* the row was deleted and its id given to another.
Overtaken(c) ==
  c.op = "write" /\ c.id \in DOMAIN db.sites /\ db.sites[c.id].token # c.seen

\* The push URL handed out for a monitor works as long as the monitor exists:
\* no edit, of whatever field, type included, and from however old a form,
\* changes the token of a row.  A restored backup brings its own tokens, and an
\* update that was overtaken between its two statements writes a token over
\* the one it did not see; that of its own row, and no other's.
TokensKept ==
  \/ Restore(ExportData(FirstRows))
  \/ \A id \in DOMAIN db.sites \cap DOMAIN db'.sites :
       \/ db.sites[id].token \in {0, db'.sites[id].token}
       \/ \E c \in cmds : c.id = id /\ Overtaken(c) /\ CmdRuns(c)
TokenStable == [][TokensKept]_pollVars
=============================================================================
