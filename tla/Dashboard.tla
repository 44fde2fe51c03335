----------------------------- MODULE Dashboard -----------------------------
(***************************************************************************)
(* One console: the message loop of the terminal UI.  Update is called     *)
(* with one message at a time (a key, a click, a tick, the reply of a Cmd) *)
(* and returns the new model and the Cmds to run; Cmds run beside the loop *)
(* and their replies come in any order.                                    *)
(*                                                                         *)
(* `ui' is the Model: the list of monitors with its cursor, the detail     *)
(* panel with its modes, the settings and maintenance lists, the forms.    *)
(* Colours, widths and the scrolling of text are left out.  Equal Cmds     *)
(* under way at the same time are one: their replies do the same.          *)
(***************************************************************************)
EXTENDS Integers, Sequences, FiniteSets, Functions

CONSTANTS
  Sites, Group, Parent,  \* ids, the groups among them, [Sites -> id or 0]
  Rank,       \* [columns but the status -> [Sites -> Nat]]: their order
  Matching,   \* the sites the filter text matches
  Heights,    \* terminal heights, less the fixed chrome
  Periods,    \* of the SLA report
  Begins,     \* [scenes -> SUBSET Sites]: the sites there at first
  MaxCmds,    \* bound: [scenes -> Cmds under way when a key is pressed]
  Early,      \* bound: the scenes whose user starts before the second reload
  MaxChanges  \* bound: changes of the engine's sites and of the tables

Scenes == {"list", "detail", "reports", "settings", "windows"}

ASSUME DashboardAssumption ==
  /\ IsFiniteSet(Sites) /\ Sites \subseteq Nat \ {0}
  /\ \A c \in Scenes : Begins[c] \subseteq Sites
  /\ Heights \subseteq Int

VARIABLES
  scene,    \* which keys this user uses: see Next
  engine,   \* [live, broken]: the engine's sites
  db,       \* the tables: [version, alerts, users, windows]
  ui,       \* the Model
  cmds,     \* Cmds under way
  changes,
  away      \* the user has stopped

dashVars == <<scene, engine, db, ui, cmds, changes, away>>

Strip == 1   \* logsStripHeight
Larger(a, b) == IF a > b THEN a ELSE b

\* recalcLayout
Rows(u) == Larger(1, u.height - (IF u.filterMode \/ u.filtered THEN 1 ELSE 0)
                              - (IF u.bottom # "none" THEN Strip ELSE 0))
recalcLayout(u) == [u EXCEPT !.maxRows = Rows(u)]

-----------------------------------------------------------------------------
\* The list.
OnRow(u) == u.cursor < Len(u.list)
Row(u)   == u.list[u.cursor + 1]

\* Groups, each followed by its children, then the sites outside groups; each
\* of these lists in the order of the column, ids between equals.
Top(s) == IF s \in Group \/ Parent[s] = 0 THEN s ELSE Parent[s]
Outside(s) == s \notin Group /\ Parent[s] = 0

InOrder(e, u, a, b) ==
  LET key(s) == IF u.column = "status" THEN (IF s \in e.broken THEN 0 ELSE 1)
                                       ELSE Rank[u.column][s]
      asc    == key(a) < key(b) \/ (key(a) = key(b) /\ a < b)
  IN  IF u.sortAsc THEN ~asc ELSE asc

Before(e, u, a, b) ==
  CASE Outside(a) # Outside(b) -> Outside(b)
    [] Top(a) # Top(b)       -> InOrder(e, u, Top(a), Top(b))
    [] OTHER                   -> b # Top(b) /\ (a = Top(a) \/ InOrder(e, u, a, b))

\* sortSitesForDisplay and filterSites: the children of a collapsed group are
\* not listed, nor those of a group that is gone.
Listed(e, u) ==
  {s \in e.live : /\ Top(s) = s \/ Top(s) \in (e.live \cap Group) \ u.collapsed
                  /\ u.filtered => s \in Matching}
sortSitesForDisplay(e, u) ==
  LET S == Listed(e, u)
  IN  [i \in 1..Cardinality(S) |->
         CHOOSE s \in S : Cardinality({t \in S \ {s} : Before(e, u, t, s)}) = i - 1]

Unclamped(u) == [u EXCEPT !.offset = IF u.cursor < @ THEN u.cursor ELSE @]  \* mutant
clampCursor(u) ==
  LET c == IF u.list # <<>> /\ u.cursor >= Len(u.list) THEN Len(u.list) - 1
                                                       ELSE u.cursor
  IN  [u EXCEPT !.cursor = c, !.offset = IF c < @ THEN c ELSE @]

KeepPlace(u, list) == [u EXCEPT !.list = list, !.reset = FALSE]      \* mutant

\* The cursor follows the selected monitor through sorting and filtering.
Follow(u, list) ==
  [u EXCEPT
    !.list = list, !.reset = FALSE,
    !.cursor = IF u.selected \in Range(list)
               THEN (CHOOSE i \in DOMAIN list : list[i] = u.selected) - 1 ELSE @]

\* (One value each: the sets spare TLC working them out at every use.)
refreshLive(u, e) ==
  LET lists == {sortSitesForDisplay(e, u)}
  IN  CHOOSE r \in {clampCursor(v) : v \in {Follow(u, list) : list \in lists}} : TRUE

syncSelectedID(u) == IF OnRow(u) THEN [u EXCEPT !.selected = Row(u)] ELSE u

\* Moving the cursor and, with it, the part of the list on the screen.
UpTo(u, c)   == syncSelectedID([u EXCEPT !.cursor = c, !.offset = IF c < @ THEN c ELSE @])
DownOne(u)   == syncSelectedID([u EXCEPT !.cursor = @ + 1,
                  !.offset = IF u.cursor + 1 >= @ + u.maxRows THEN @ + 1 ELSE @])
DownTo(u, c) == syncSelectedID([u EXCEPT !.cursor = c,
                  !.offset = IF c >= @ + u.maxRows THEN c - u.maxRows + 1 ELSE @])

-----------------------------------------------------------------------------
\* Cmds.
Load      == [k |-> "load", init |-> FALSE, newest |-> TRUE, read |-> FALSE]
Detail(s) == [k |-> "detail", site |-> s]
Write(op, id) == [k |-> "write", op |-> op, id |-> id]

\* loadTabDataCmd bumps tabSeq and stamps the load with it: from then on only
\* that load is the newest.  Init calls it on a copy of the Model, which loses
\* the bump: its load has the number 1, as the first load of Update has.
\* ui.tabSeq is 0, 1, or 2 for every later number.
Older(c) == [c EXCEPT !.newest = FALSE]
WithLoad(seq, cs) ==
  {IF seq = 0 THEN c ELSE Older(c) : c \in {x \in cs : x.k = "load"}}
  \cup {x \in cs : x.k # "load"} \cup {Load}
loadTabDataCmd(u, cs) ==
  /\ ui' = [u EXCEPT !.tabSeq = IF @ = 0 THEN 1 ELSE 2]
  /\ cmds' = WithLoad(u.tabSeq, cs)

DetailVisible(u) == u.detailOpen \/ u.state = "detail"
NeverRefreshed(u) == {}                                          \* mutant
detailRefreshCmd(u) == IF DetailVisible(u) /\ OnRow(u) THEN {Detail(Row(u))} ELSE {}

\* Moving in the list with the panel open shows the next monitor's detail.
Showing(u) == [u EXCEPT !.mode = "default"]
ShowRow(u) == IF u.detailOpen /\ OnRow(u)
              THEN [u |-> Showing(u), c |-> {Detail(Row(u))}]
              ELSE [u |-> u, c |-> {}]

InitialModel(admin, h, bottom) ==
  [state |-> "dashboard", back |-> "dashboard", form |-> "", focus |-> "monitors",
   list |-> <<>>, cursor |-> 0, selected |-> 0, offset |-> 0, height |-> h, maxRows |-> 5,
   column |-> "status", sortAsc |-> FALSE, collapsed |-> {},
   filterMode |-> FALSE, filtered |-> FALSE, pendingG |-> FALSE,
   bottom |-> bottom, detailOpen |-> scene = "reports", mode |-> "default",
   detailOf |-> 0, history |-> 0, historyOf |-> 0,
   sla |-> <<0, 0>>, slaOf |-> <<0, 0>>, maint |-> 0,
   section |-> "alerts", setCursor |-> 0, setOffset |-> 0,
   editID |-> 0, doomed |-> [kind |-> "", id |-> 0], admin |-> admin, reset |-> FALSE,
   tabSeq |-> 0,
   tables |-> [version |-> 0, alerts |-> {}, users |-> {}, windows |-> {}]]

Init ==
  LET first == [live |-> Begins[scene], broken |-> {}] IN
  /\ scene \in Scenes
  /\ engine = first
  /\ db = [version |-> 0, alerts |-> {1}, users |-> {1}, windows |-> {1}]
  /\ \E admin \in BOOLEAN, h \in Heights, bottom \in {"none", "logs", "maint"} :
       /\ scene # "settings" => admin
       /\ scene # "windows" => bottom = "none"
       /\ ui = InitialModel(admin, h, bottom)
  /\ cmds = {[Load EXCEPT !.init = TRUE]}
  /\ changes = 0
  /\ away = FALSE

\* What a message does: the model, and Cmds on top of those under way.
Becomes(u, c) == ui' = u /\ cmds' = cmds \cup c
World == <<scene, engine, db, changes, away>>

-----------------------------------------------------------------------------
\* Messages that are not the user's.
\* handleTick: at the first tick and every few ticks the tables and the open
\* detail are reloaded; the store answers before the next time, a slow answer
\* to Init's load excepted.
handleTick ==
  /\ \E u \in {refreshLive(ui, engine)} :
     \/ Becomes(u, {}) /\ u # ui
     \/ /\ \A c \in cmds : c.k = "load" => c.init
        /\ loadTabDataCmd(u, cmds \cup detailRefreshCmd(u))
  /\ UNCHANGED World

\* The Cmd of a load reads the tables, or fails to.
LoadReads(c) ==
  /\ c.k = "load" /\ ~c.read
  /\ cmds' = (cmds \ {c}) \cup {[k |-> "load", init |-> c.init, newest |-> c.newest,
                                read |-> TRUE, ok |-> TRUE, got |-> db]}
  /\ UNCHANGED <<ui, World>>
LoadFails(c) ==
  /\ c.k = "load" /\ ~c.read /\ changes < MaxChanges
  /\ changes' = changes + 1
  /\ cmds' = (cmds \ {c}) \cup {[k |-> "load", init |-> c.init, newest |-> c.newest,
                                read |-> TRUE, ok |-> FALSE]}
  /\ UNCHANGED <<ui, scene, engine, db, away>>

TakesAny(c) == c.ok                                              \* mutant
Takes(c) == c.newest /\ ui.tabSeq > 0 /\ c.ok

\* handleTabData: replies whose number is not tabSeq are dropped, an error
\* keeps what was there.  Only an admin's console loads the users.
handleTabData(c) ==
  /\ c.k = "load" /\ c.read
  /\ cmds' = cmds \ {c}
  /\ ui' = IF Takes(c)
           THEN clampCursor([ui EXCEPT !.tables =
                  [c.got EXCEPT !.users = IF ui.admin THEN @ ELSE {}]])
           ELSE ui
  /\ UNCHANGED World

DetailArrives(c) ==
  /\ c.k = "detail"
  /\ cmds' = cmds \ {c}
  /\ ui' = IF DetailVisible(ui) /\ OnRow(ui) /\ Row(ui) # c.site THEN ui
           ELSE [ui EXCEPT !.detailOf = c.site]
  /\ UNCHANGED World
\* The engine answers a read that failed with no rows: the panel stays empty
\* then (-site here), and nothing asks again.
HistoryArrives(c) ==
  /\ c.k = "history"
  /\ cmds' = cmds \ {c}
  /\ \E rows \in {c.site, -c.site} :
       ui' = IF c.site = ui.history THEN [ui EXCEPT !.historyOf = rows] ELSE ui
  /\ UNCHANGED World

TakesSLA(c) == c.of = ui.sla

\* handleSLAData: for the monitor and period selected now, or dropped.
handleSLAData(c) ==
  /\ c.k = "sla"
  /\ cmds' = cmds \ {c}
  /\ \E rows \in {c.of, <<-c.of[1], c.of[2]>>} :
       ui' = IF TakesSLA(c) THEN [ui EXCEPT !.slaOf = rows] ELSE ui
  /\ UNCHANGED World

\* A write reaches the store, or is refused; its reply reloads everything.
Written(c) ==
  LET next == [db EXCEPT !.version = @ + 1] IN
  CASE c.op = "deleteAlert" -> [next EXCEPT !.alerts = @ \ {c.id}]
    [] c.op = "deleteUser"  -> [next EXCEPT !.users = @ \ {c.id}]
    [] c.op \in {"deleteMaint", "endMaint"} -> [next EXCEPT !.windows = @ \ {c.id}]
    [] c.op = "saveAlert"   -> [next EXCEPT !.alerts = @ \cup {1}]
    [] c.op = "saveUser"    -> [next EXCEPT !.users = @ \cup {1}]
    [] c.op = "saveMaint"   -> [next EXCEPT !.windows = @ \cup {2}]
    [] OTHER                -> db       \* sites and preferences

WriteRuns(c) ==
  /\ c.k = "write"
  /\ cmds' = (cmds \ {c}) \cup {[k |-> "done"]}
  /\ db' \in {Written(c), db}
  /\ UNCHANGED <<ui, scene, engine, changes, away>>
writeDone(c) ==
  /\ c.k = "done"
  /\ loadTabDataCmd(refreshLive(ui, engine), cmds \ {c})
  /\ UNCHANGED World

-----------------------------------------------------------------------------
\* The user.
Key(s)     == /\ ~away /\ ui.state = s /\ Cardinality(cmds) < MaxCmds[scene]
              /\ ui.tabSeq = 2 \/ scene \in Early
DashKey    == Key("dashboard") /\ ~ui.filterMode
Plain      == [ui EXCEPT !.pendingG = FALSE]
On(panel)  == ui.focus = panel
Changes    == changes < MaxChanges /\ changes' = changes + 1
Still      == UNCHANGED World

\* gg, G, ctrl+u, ctrl+d: jumpToTop, jumpToBottom, halfPageUp, halfPageDown.
Half == Larger(1, ui.maxRows \div 2)
Windows == Cardinality(ui.tables.windows)   \* activeMaintWindows

Jumped(u, list, maint) ==
  CASE On("maint")    -> [u |-> [u EXCEPT !.maint = maint], c |-> {}]
    [] On("monitors") -> ShowRow(list)
    [] OTHER          -> [u |-> u, c |-> {}]     \* scrolls text

Jump(u, list, maint) == LET r == Jumped(u, list, maint) IN Becomes(r.u, r.c) /\ Still

G1 == DashKey /\ ~ui.pendingG /\ Becomes([ui EXCEPT !.pendingG = TRUE], {}) /\ Still
jumpToTop ==
  /\ DashKey /\ ui.pendingG
  /\ Jump(Plain, syncSelectedID([Plain EXCEPT !.cursor = 0, !.offset = 0]), 0)
jumpToBottom ==
  /\ DashKey
  /\ Jump(Plain, IF ui.list = <<>> THEN Plain ELSE DownTo(Plain, Len(ui.list) - 1),
          IF Windows = 0 THEN ui.maint ELSE Windows - 1)
halfPageUp ==
  /\ DashKey
  /\ Jump(Plain, UpTo(Plain, Larger(0, ui.cursor - Half)), Larger(0, ui.maint - Half))
Adrift == 2  \* bound: how far the cursor runs on where there is no window
halfPageDown ==
  LET last == Len(ui.list) - 1
      c    == ui.cursor + Half
      w    == ui.maint + Half
  IN
  /\ DashKey /\ ui.maint < Adrift
  /\ Jump(Plain, DownTo(Plain, Larger(0, IF c > last THEN last ELSE c)),
          IF Windows > 0 /\ w >= Windows THEN Windows - 1 ELSE w)

\* up and down, and the wheel, which keeps the panel's mode.
scrollMaintCursor(u, to) ==
  [u EXCEPT !.maint = IF Windows = 0 THEN @
                      ELSE IF to < 0 THEN 0 ELSE IF to >= Windows THEN Windows - 1 ELSE to]

\* Of the detail panel they scroll the text, and move in the list when it has
\* been closed with the focus on it.
OnList == On("monitors") \/ (On("detail") /\ ~ui.detailOpen)
Up ==
  /\ DashKey
  /\ CASE On("maint")    -> Becomes(scrollMaintCursor(Plain, ui.maint - 1), {})
       [] OnList /\ ui.cursor > 0 ->
            LET r == ShowRow(UpTo(Plain, ui.cursor - 1)) IN Becomes(r.u, r.c)
       [] OTHER          -> Becomes(Plain, {})
  /\ Still
Down ==
  /\ DashKey
  /\ CASE On("maint")    -> Becomes(scrollMaintCursor(Plain, ui.maint + 1), {})
       [] OnList /\ ui.cursor < Len(ui.list) - 1 ->
            LET r == ShowRow(DownOne(Plain)) IN Becomes(r.u, r.c)
       [] OTHER          -> Becomes(Plain, {})
  /\ Still
Wheel(dir) ==
  LET u == IF dir = "up"
           THEN IF ui.cursor > 0 THEN UpTo(ui, ui.cursor - 1) ELSE syncSelectedID(ui)
           ELSE IF ui.cursor < Len(ui.list) - 1 THEN DownOne(ui) ELSE syncSelectedID(ui)
  IN  /\ Key("dashboard") /\ ~On("logs") /\ ~(On("detail") /\ ui.detailOpen)
      /\ Becomes(u, IF u.detailOpen THEN detailRefreshCmd(u) ELSE {})
      /\ Still

\* A click on a row, or on one of the four lines above the rows, which picks
\* a row that is scrolled away; on another panel; on a window.
ClickRow(i) ==
  /\ Key("dashboard") /\ i < Len(ui.list)
  /\ i \in (ui.offset - 4)..(ui.offset + ui.maxRows)
  /\ LET u == syncSelectedID([ui EXCEPT !.focus = "monitors", !.cursor = i])
     IN  Becomes(u, IF u.detailOpen THEN {Detail(Row(u))} ELSE {})
  /\ Still
ClickPanel(panel) ==
  /\ Key("dashboard")
  /\ panel = "detail" => ui.detailOpen
  /\ panel = "logs" => ui.bottom = "logs"
  /\ Becomes([ui EXCEPT !.focus = panel], {})
  /\ Still
ClickWindow(i) ==
  /\ Key("dashboard") /\ ui.bottom = "maint" /\ i < Windows
  /\ Becomes([ui EXCEPT !.focus = "maint", !.maint = i], {})
  /\ Still

\* > < r and clicks on the column heads.
Sort(column, asc) ==
  /\ DashKey
  /\ column # ui.column => ~asc
  /\ Becomes(refreshLive([Plain EXCEPT !.column = column, !.sortAsc = asc], engine), {})
  /\ Still

\* / and the keys of the filter.
Home(u) == [u EXCEPT !.cursor = 0, !.offset = 0]
FilterStart == /\ DashKey /\ Becomes(recalcLayout([Plain EXCEPT !.filterMode = TRUE]), {})
               /\ Still
FilterType(on) ==  \* a character, or backspace
  /\ Key("dashboard") /\ ui.filterMode /\ ui.filtered # on
  /\ Becomes(refreshLive(Home([ui EXCEPT !.filtered = on]), engine), {})
  /\ Still
FilterEnter ==
  /\ Key("dashboard") /\ ui.filterMode
  /\ Becomes(recalcLayout([ui EXCEPT !.filterMode = FALSE]), {})
  /\ Still
FilterEsc ==
  /\ Key("dashboard") /\ ui.filterMode
  /\ Becomes(refreshLive(recalcLayout(
       Home([ui EXCEPT !.filterMode = FALSE, !.filtered = FALSE])), engine), {})
  /\ Still

handleResize(h) ==
  /\ ~away
  /\ Becomes(recalcLayout([ui EXCEPT !.height = h]), {})
  /\ Still

\* m and l: the panel at the bottom, and the preference.
Bottom(panel) ==
  LET open == ui.bottom # panel IN
  /\ DashKey
  /\ Becomes(recalcLayout([Plain EXCEPT !.bottom = IF open THEN panel ELSE "none",
                                        !.focus = IF open THEN panel ELSE "monitors"]),
             {Write("bottom_panel", 0)})
  /\ Still

\* space on a group, p on any row.
Collapse ==
  /\ DashKey /\ ui.list # <<>> /\ Row(ui) \in Group
  /\ LET g == Row(ui)
         u == [Plain EXCEPT !.collapsed = IF g \in @ THEN @ \ {g} ELSE @ \cup {g}]
     IN  Becomes(refreshLive(u, engine), {Write("collapsed_groups", 0)})
  /\ Still
Pause ==
  /\ DashKey /\ ui.list # <<>>
  /\ Becomes(refreshLive(Plain, engine), {Write("pause", Row(ui))})
  /\ Still
Theme == DashKey /\ Becomes(Plain, {Write("theme", 0)}) /\ Still

\* enter on a row: the panel beside the list, or on a narrow terminal the
\* panel alone.
EnterRow(narrow) ==
  /\ DashKey /\ ui.focus \in {"monitors", "detail"} /\ ui.list # <<>>
  /\ IF narrow THEN Becomes([Showing(Plain) EXCEPT !.state = "detail"], {Detail(Row(ui))})
     ELSE LET u == [Showing(Plain) EXCEPT !.detailOpen = ~@]
          IN  Becomes(recalcLayout(u), {Write("detail_open", 0)} \cup
                (IF u.detailOpen THEN {Detail(Row(u))} ELSE {}))
  /\ Still
\* esc: first the focus, then the mode, then the panel.
Esc ==
  /\ DashKey
  /\ IF ~On("monitors") THEN Becomes([Plain EXCEPT !.focus = "monitors"], {})
     ELSE IF ui.detailOpen /\ ui.mode # "default" THEN Becomes(Showing(Plain), {})
     ELSE IF ui.detailOpen THEN Becomes(recalcLayout([Plain EXCEPT !.detailOpen = FALSE]),
                                        {Write("detail_open", 0)})
     ELSE Becomes(Plain, {})
  /\ Still

\* h, s and 1-4, beside the list and on the full screen.
InDetail == (DashKey /\ ui.detailOpen) \/ Key("detail")
History ==
  /\ InDetail /\ OnRow(ui)
  /\ Becomes([Plain EXCEPT !.history = Row(ui), !.historyOf = 0, !.mode = "history"],
             {[k |-> "history", site |-> Row(ui)]})
  /\ Still
Sla(site, period) ==
  /\ Becomes([Plain EXCEPT !.sla = <<site, period>>, !.mode = "sla"],
             {[k |-> "sla", of |-> <<site, period>>]})
  /\ Still
SlaOpen      == InDetail /\ OnRow(ui) /\ Sla(Row(ui), CHOOSE p \in Periods : TRUE)
SlaPeriod(p) == InDetail /\ ui.mode = "sla" /\ Sla(ui.sla[1], p)
DetailEsc    == /\ Key("detail")
                /\ Becomes([Plain EXCEPT !.state = "dashboard", !.focus = "monitors"], {})
                /\ Still

\* enter on the log panel, and back.
LogsOpen == DashKey /\ On("logs") /\ Becomes([Plain EXCEPT !.state = "logs"], {}) /\ Still
LogsEsc  == /\ Key("logs")
            /\ Becomes([Plain EXCEPT !.state = "dashboard", !.focus = "monitors"], {})
            /\ Still

-----------------------------------------------------------------------------
\* Forms, and the question before a deletion.
Opened(u, form, id) == [u EXCEPT !.state = "form", !.form = form, !.editID = id]
Home2(u) == IF u.back = "settings" THEN "settings" ELSE "dashboard"
Back(u) == [u EXCEPT !.state = Home2(u), !.back = "dashboard", !.form = ""]

NewItem  == DashKey /\ ~On("maint") /\ Becomes(Opened(Plain, "site", 0), {}) /\ Still
EditItem == /\ DashKey \/ Key("detail")
            /\ ui.list # <<>> /\ Becomes(Opened(Plain, "site", Row(ui)), {}) /\ Still
NewMaint == DashKey /\ On("maint") /\ Becomes(Opened(Plain, "maint", 0), {}) /\ Still

FormEsc == Key("form") /\ Becomes(Back(ui), {}) /\ Still

\* submitForm: the site and maintenance forms lead to the dashboard, with
\* returnState as it was, those of alerts and users where they came from.
FormDone ==
  LET u  == IF ui.form \in {"alert", "user"} THEN Back(ui)
            ELSE [ui EXCEPT !.state = "dashboard", !.form = ""]
      op == [site |-> "saveSite", alert |-> "saveAlert",
             user |-> "saveUser", maint |-> "saveMaint"][ui.form]
  IN  /\ Key("form") /\ Changes
      /\ Becomes(refreshLive(u, engine), {Write(op, ui.editID)})
      /\ UNCHANGED <<scene, engine, db, away>>

Ask(u, kind, id) == [u EXCEPT !.state = "confirm", !.doomed = [kind |-> kind, id |-> id]]
DeleteItem == /\ DashKey /\ ~On("maint") /\ ui.list # <<>>
              /\ Becomes(Ask(Plain, "site", Row(ui)), {}) /\ Still

\* A deleted site leaves the engine at once, everything else with the write.
Confirm ==
  LET e  == IF ui.doomed.kind = "site" THEN [engine EXCEPT !.live = @ \ {ui.doomed.id}]
            ELSE engine
      op == [site |-> "deleteSite", maint |-> "deleteMaint",
             alert |-> "deleteAlert", user |-> "deleteUser"][ui.doomed.kind]
  IN  /\ Key("confirm") /\ Changes
      /\ engine' = e
      /\ Becomes(Back(refreshLive(clampCursor(ui), e)), {Write(op, ui.doomed.id)})
      /\ UNCHANGED <<scene, db, away>>
Decline == Key("confirm") /\ Becomes(Back(ui), {}) /\ Still

-----------------------------------------------------------------------------
\* The maintenance panel; its windows are counted, the cursor picks one.
Picked(w) == ui.maint < Windows /\ w \in ui.tables.windows
MaintEnter(w) == DashKey /\ On("maint") /\ Picked(w)
                 /\ Becomes([Plain EXCEPT !.state = "window", !.editID = w], {}) /\ Still
EndWindow(w) ==
  /\ \/ DashKey /\ On("maint") /\ Picked(w)
     \/ Key("window") /\ w = ui.editID /\ w \in ui.tables.windows
  /\ Changes
  /\ Becomes(refreshLive([ui EXCEPT !.state = "dashboard", !.focus = "maint",
                                    !.pendingG = IF On("maint") THEN FALSE ELSE @], engine),
             {Write("endMaint", w)})
  /\ UNCHANGED <<scene, engine, db, away>>
DeleteWindow(w) ==
  /\ \/ DashKey /\ On("maint") /\ Picked(w)
     \/ Key("window") /\ w = ui.editID /\ w \in ui.tables.windows
  /\ Becomes(Ask(ui, "maint", w), {}) /\ Still
WindowEsc == /\ Key("window")
             /\ Becomes([ui EXCEPT !.state = "dashboard", !.focus = "maint"], {}) /\ Still

-----------------------------------------------------------------------------
\* The settings: alerts, nodes and, for an admin, users.
SettingsKey == Key("settings")
Items == CASE ui.section = "alerts" -> ui.tables.alerts
           [] ui.section = "users"  -> ui.tables.users
           [] OTHER                 -> {}
LastItem == Cardinality(Items) - 1       \* settingsListLen() - 1
SetTo(c) == Becomes([Plain EXCEPT !.setCursor = c,
              !.setOffset = IF c < @ THEN c ELSE IF c >= @ + ui.maxRows
                            THEN c - ui.maxRows + 1 ELSE @], {}) /\ Still

OpenSettings ==
  /\ DashKey
  /\ Becomes([Plain EXCEPT !.setCursor = 0, !.setOffset = 0, !.state = "settings"], {})
  /\ Still
SettingsEsc == SettingsKey /\ Becomes([Plain EXCEPT !.state = "dashboard"], {}) /\ Still
\* switchSettingsSection also puts the dashboard's cursor back to the top.
Section(s) ==
  /\ SettingsKey /\ s # ui.section /\ (s = "users" => ui.admin)
  /\ Becomes([Home(Plain) EXCEPT !.section = s, !.setCursor = 0, !.setOffset = 0,
                                 !.reset = TRUE], {})
  /\ Still
SettingsTop  == SettingsKey /\ ui.pendingG /\ Becomes([Plain EXCEPT !.setCursor = 0,
                                                              !.setOffset = 0], {}) /\ Still
SettingsG    == SettingsKey /\ ~ui.pendingG /\ Becomes([ui EXCEPT !.pendingG = TRUE], {}) /\ Still
SettingsEnd  == SettingsKey /\ LastItem >= 0 /\ SetTo(LastItem)
SettingsUp   == SettingsKey /\ ui.setCursor > 0 /\ SetTo(ui.setCursor - 1)
SettingsDown == SettingsKey /\ ui.setCursor < LastItem /\ SetTo(ui.setCursor + 1)
SettingsPageUp == SettingsKey /\ SetTo(Larger(0, ui.setCursor - Half))
\* On an empty list the cursor goes to -1.
SettingsPageDown ==
  LET c == ui.setCursor + Half IN
  /\ SettingsKey
  /\ LET to == IF c > LastItem THEN LastItem ELSE c
     IN  Becomes([Plain EXCEPT !.setCursor = to,
                    !.setOffset = IF to >= @ + ui.maxRows THEN to - ui.maxRows + 1 ELSE @], {})
  /\ Still

FormOf == [alerts |-> "alert", nodes |-> "none", users |-> "user"][ui.section]
MayEdit == ui.section = "alerts" \/ (ui.section = "users" /\ ui.admin)
FromSettings == [Plain EXCEPT !.back = "settings"]
\* n, e and d remember where to return to even when nothing opens.
SettingsNew ==
  /\ SettingsKey
  /\ Becomes(IF MayEdit THEN Opened(FromSettings, FormOf, 0) ELSE [FromSettings EXCEPT !.editID = 0], {})
  /\ Still
\* e, d and t index a list that is not empty: with the cursor at -1 the
\* program ends there, and the model leaves the key out.
Indexed == ui.setCursor >= 0 \/ Items = {}
SettingsOn(id, u) ==
  /\ SettingsKey /\ Indexed
  /\ Becomes(IF MayEdit /\ ui.setCursor <= LastItem /\ id \in Items THEN u ELSE FromSettings, {})
  /\ Still
SettingsEdit(id)   == SettingsOn(id, Opened(FromSettings, FormOf, id))
SettingsDelete(id) == SettingsOn(id, Ask(FromSettings, FormOf, id))
SettingsInfo ==
  /\ SettingsKey /\ ui.section = "alerts" /\ ui.setCursor \in 0..LastItem
  /\ Becomes([FromSettings EXCEPT !.state = "alert"], {}) /\ Still
AlertEsc == Key("alert") /\ Becomes([ui EXCEPT !.state = Home2(ui)], {}) /\ Still
TestAlert == SettingsKey /\ Indexed /\ ui.section = "alerts" /\ Becomes(Plain, {}) /\ Still

-----------------------------------------------------------------------------
\* The engine's sites and the tables change behind this console.
EngineChanges ==
  /\ Changes
  /\ \E s \in Sites :
       engine' \in {[engine EXCEPT !.live = IF s \in @ THEN @ \ {s} ELSE @ \cup {s}],
                    [engine EXCEPT !.broken = IF s \in @ THEN @ \ {s} ELSE @ \cup {s}]}
  /\ UNCHANGED <<scene, db, ui, cmds, away>>
TablesChange ==
  /\ Changes
  /\ \E gone \in SUBSET {1} :
       db' = [db EXCEPT !.version = @ + 1, !.alerts = {1} \ gone, !.windows = {1, 2} \ gone]
  /\ UNCHANGED <<scene, engine, ui, cmds, away>>
UserLeaves == ~away /\ scene # "list" /\ away' = TRUE /\ UNCHANGED <<scene, engine, db, ui, cmds, changes>>

ListKeys ==
  \/ G1 \/ jumpToTop \/ jumpToBottom \/ halfPageUp \/ halfPageDown \/ Up \/ Down
  \/ \E d \in {"up", "down"} : Wheel(d)
  \/ \E i \in 0..Cardinality(Sites) : ClickRow(i)
  \/ \E c \in {"status"} \cup DOMAIN Rank, asc \in BOOLEAN : Sort(c, asc)
  \/ FilterStart \/ FilterEnter \/ FilterEsc \/ \E on \in BOOLEAN : FilterType(on)
  \/ \E h \in Heights : handleResize(h)
  \/ Collapse \/ Pause \/ DeleteItem \/ Confirm \/ Decline
DetailKeys ==
  \/ \E i \in 0..Cardinality(Sites) : ClickRow(i)
  \/ ClickPanel("detail") \/ \E narrow \in BOOLEAN : EnterRow(narrow)
  \/ Up \/ Down \/ Esc \/ DetailEsc
ReportKeys ==
  \/ Up \/ Down \/ History \/ SlaOpen \/ \E p \in Periods : SlaPeriod(p)
SettingsKeys ==
  \/ OpenSettings \/ SettingsEsc \/ \E s \in {"alerts", "nodes", "users"} : Section(s)
  \/ SettingsTop \/ SettingsG \/ SettingsEnd \/ SettingsUp \/ SettingsDown
  \/ SettingsPageUp \/ SettingsPageDown \/ SettingsNew \/ SettingsInfo \/ AlertEsc
  \/ TestAlert \/ \E id \in Items \cup {0} : SettingsEdit(id) \/ SettingsDelete(id)
  \/ NewItem \/ EditItem \/ FormEsc \/ FormDone \/ Confirm \/ Decline
WindowKeys ==
  \/ \E p \in {"logs", "maint"} : Bottom(p)
  \/ Up \/ Down \/ halfPageDown \/ ClickPanel("logs") \/ \E i \in 0..1 : ClickWindow(i)
  \/ LogsOpen \/ LogsEsc \/ Theme \/ Esc
  \/ \E w \in {1, 2} : MaintEnter(w) \/ EndWindow(w) \/ DeleteWindow(w)
  \/ WindowEsc \/ NewMaint \/ FormEsc \/ FormDone \/ Confirm \/ Decline

Replies(k) ==
  \E c \in {x \in cmds : x.k = k} :
    \/ LoadReads(c) \/ handleTabData(c) \/ DetailArrives(c) \/ HistoryArrives(c)
    \/ handleSLAData(c) \/ WriteRuns(c) \/ writeDone(c)
CmdKinds == {"load", "detail", "history", "sla", "write", "done"}

\* Each user works with one part of the screen.
Next ==
  \/ scene = "list"     /\ (ListKeys     \/ EngineChanges)
  \/ scene = "detail"   /\ (DetailKeys   \/ EngineChanges)
  \/ scene = "reports"  /\ ReportKeys
  \/ scene = "settings" /\ (SettingsKeys \/ TablesChange)
  \/ scene = "windows"  /\ (WindowKeys   \/ TablesChange)
  \/ UserLeaves
  \/ handleTick
  \/ \E k \in CmdKinds : Replies(k)
  \/ \E c \in cmds : LoadFails(c)

\* Ticks keep coming and every Cmd ends.
Spec == Init /\ [][Next]_dashVars /\ WF_dashVars(handleTick)
        /\ \A k \in CmdKinds : WF_dashVars(Replies(k))

-----------------------------------------------------------------------------
\* Enter, space, p, e and d index the list behind a test of its length only:
\* whatever removals, filters, collapsed groups and clicks did to the list and
\* the cursor, there is such a row.
CursorInRange == ui.list # <<>> => ui.cursor \in 0..(Len(ui.list) - 1)

\* A key acts on the monitor the user selected, wherever sorting, filtering,
\* collapsing, changes of status or removals have moved it, as long as it is
\* listed; the one exception is the moment after a look at another section of
\* the settings, which puts the cursor back to the top.
OnSelection ==
  (ui.selected \in Range(ui.list) /\ ~ui.reset) => OnRow(ui) /\ Row(ui) = ui.selected

\* The tables on the screen never go back to an older state of the database,
\* in whatever order the loads that overlap read and reply; but for the time
\* from the first tick to the next reload, when the replies of Init's load and
\* of the tick's have the same number and the one that comes last is taken.
TablesNeverGoBack ==
  [][ui'.tables.version >= ui.tables.version \/ ui.tabSeq = 1]_dashVars

\* When the user and the world have stopped, every panel that is open shows
\* what its title says: the tables of the database, the detail of the monitor
\* under the cursor, the history and the report of the monitor and period
\* that were asked for last, or nothing when that read failed.
Settled ==
  /\ ui.tables.version = db.version
  /\ DetailVisible(ui) /\ OnRow(ui) => ui.detailOf = Row(ui)
  /\ DetailVisible(ui) /\ ui.mode = "history" => ui.historyOf \in {ui.history, -ui.history}
  /\ DetailVisible(ui) /\ ui.mode = "sla" =>
       ui.slaOf \in {ui.sla, <<-ui.sla[1], ui.sla[2]>>}
PanelsSettle == <>[](away => Settled)
=============================================================================
