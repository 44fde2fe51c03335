------------------------------ MODULE Windows ------------------------------
(***************************************************************************)
(* Maintenance windows and the places that ask whether a monitor is under  *)
(* one.  A window covers one monitor, a group and its children, or all;    *)
(* it is of type maintenance or incident, and runs to an end or until it   *)
(* is ended.  Consoles add, end and delete windows from the list they      *)
(* loaded last, each write a Cmd of its own; the engine prunes old ones.   *)
(*                                                                         *)
(* The engine decides alerts with a cache it refreshes every poll round,   *)
(* the dashboard shows a set it builds from its list every tick, and the   *)
(* status page asks the store at every request.                            *)
(***************************************************************************)
EXTENDS Naturals, FiniteSets

CONSTANTS
  Monitors,   \* ids, from 1
  Parent,     \* [Monitors -> Monitors \cup {0}]
  Durations,  \* what the form offers; 0 is "until ended"
  Limit,      \* windows the dashboard loads (100)
  Retention,  \* maintRetention
  MaxTime,    \* bound: the clock
  MaxEdits    \* bound: windows added, ended, deleted

WindowsAssumption ==
  /\ Monitors \subseteq Nat \ {0} /\ Parent \in [Monitors -> Monitors \cup {0}]
  /\ Durations \subseteq Nat /\ Limit \in Nat \ {0}
  /\ Retention \in Nat /\ MaxTime \in Nat /\ MaxEdits \in Nat

VARIABLES
  clock,
  windows,   \* id -> [monitor, type, start, end, born] with end 0 for none; n tells
             \* windows apart whose ids are equal, until is the end asked for, saw
             \* and warned are the windows the check saw, none if it failed, and
             \* what it said
  lastId,    \* the id sequence, started over when the table is empty
  cmds,      \* console writes on their way
  cache,     \* maintCache
  loaded,    \* the console's maintenanceWindows
  maintSet,  \* the console's maintSet
  declared,  \* monitors some maintenance window was ever for
  edits

windowsVars == <<clock, windows, lastId, cmds, cache, loaded, maintSet, declared, edits>>

All == 0   \* monitor_id of a window for all monitors

Init ==
  /\ clock = 1
  /\ windows = <<>>
  /\ lastId = 0
  /\ cmds = {}
  /\ cache = {}
  /\ loaded = <<>>
  /\ maintSet = {}
  /\ declared = {}
  /\ edits = 0

-----------------------------------------------------------------------------
\* Which monitors a window covers, and when: as the engine, the store and the
\* status page see it, the end excluded.
CoveredAlone(w) == {m \in Monitors : w.monitor \in {All, m}}     \* mutant
Covered(w) == {m \in Monitors : w.monitor \in {All, m} \cup ({Parent[m]} \ {0})}

Open(w) == w.start <= clock /\ (w.end = 0 \/ w.end > clock)

\* GetActiveMaintenanceWindows
Active == {id \in DOMAIN windows : Open(windows[id])}

\* IsMonitorInMaintenance; handleStatusJSON works it out from the active
\* windows in the same way.
IsMonitorInMaintenance(m) ==
  \E id \in Active :
    /\ windows[id].type = "maintenance"
    /\ \/ windows[id].monitor \in {All, m}
       \/ Parent[m] > 0 /\ windows[id].monitor = Parent[m]

\* GetOverlappingMaintenanceWindows for a window about to be added: in time
\* with it, and for everything, the same monitor or the monitor's group.
InTime(w, start, end) ==
  /\ w.end = 0 \/ w.end > start
  /\ end # 0 => w.start < end

OverlappingExact(row) ==                                         \* mutant
  {id \in DOMAIN windows :
     InTime(windows[id], row.start, row.end) /\ windows[id].monitor = row.monitor}

Overlapping(row) ==
  {id \in DOMAIN windows :
     /\ InTime(windows[id], row.start, row.end)
     /\ \/ row.monitor = All
        \/ windows[id].monitor \in {All, row.monitor}
        \/ Parent[row.monitor] > 0 /\ windows[id].monitor = Parent[row.monitor]}

-----------------------------------------------------------------------------
\* The console's actions; the window ended or deleted is one of its list.
Edit == edits < MaxEdits /\ edits' = edits + 1
Send(c) == cmds' = cmds \cup {c}

\* submitMaintForm: an incident has no end.
Submit(monitor, type, duration) ==
  /\ Edit
  /\ Send([do |-> "check", n |-> edits',
           row |-> [monitor |-> monitor, type |-> type, start |-> clock,
                    end |-> IF type = "incident" \/ duration = 0 THEN 0
                            ELSE clock + duration]])
  /\ UNCHANGED <<clock, windows, lastId, cache, loaded, maintSet, declared>>

\* x, on a window the console holds for active.
EndWindow(id) ==
  /\ Open(loaded[id])
  /\ Edit
  /\ Send([do |-> "end", id |-> id])
  /\ UNCHANGED <<clock, windows, lastId, cache, loaded, maintSet, declared>>

\* d, then y
DeleteWindow(id) ==
  /\ Edit
  /\ Send([do |-> "delete", id |-> id])
  /\ UNCHANGED <<clock, windows, lastId, cache, loaded, maintSet, declared>>

\* The Cmds.  Adding first looks for windows to warn of, without a
\* transaction around the two.  Errors of the query and of the warning's write
\* are dropped: the window is added without a word, whatever it overlaps.
Answered(c, saw, warned) ==
  cmds' = (cmds \ {c}) \cup
    {[do |-> "add", row |-> c.row, n |-> c.n, saw |-> saw, warned |-> warned]}

CheckOverlap(c) ==
  /\ c.do = "check"
  /\ \/ Answered(c, {<<windows[id].n, windows[id].end>> : id \in DOMAIN windows},
                  Overlapping(c.row) # {})
     \/ Answered(c, {}, FALSE)
  /\ UNCHANGED <<clock, windows, lastId, cache, loaded, maintSet, declared, edits>>

AddMaintenanceWindow(c) ==
  LET w == [monitor |-> c.row.monitor, type |-> c.row.type, start |-> c.row.start,
            end |-> c.row.end, born |-> clock, n |-> c.n, until |-> c.row.end,
            saw |-> c.saw, warned |-> c.warned]
      id == lastId + 1
  IN
  /\ c.do = "add"
  /\ cmds' = cmds \ {c}
  /\ windows' = [i \in DOMAIN windows \cup {id} |-> IF i = id THEN w ELSE windows[i]]
  /\ lastId' = id
  /\ declared' = declared \cup (IF w.type = "maintenance" THEN Covered(w) ELSE {})
  /\ UNCHANGED <<clock, cache, loaded, maintSet, edits>>

\* An id that is gone is not an error, one given out anew is the new window.
EndMaintenanceWindow(c) ==
  /\ c.do = "end"
  /\ cmds' = cmds \ {c}
  /\ windows' = [i \in DOMAIN windows |->
                   IF i = c.id THEN [windows[i] EXCEPT !.end = clock] ELSE windows[i]]
  /\ UNCHANGED <<clock, lastId, cache, loaded, maintSet, declared, edits>>

DeleteMaintenanceWindow(c) ==
  LET rest == [i \in DOMAIN windows \ {c.id} |-> windows[i]] IN
  /\ c.do = "delete"
  /\ cmds' = cmds \ {c}
  /\ windows' = rest
  /\ lastId' = IF rest = <<>> THEN 0 ELSE lastId
  /\ UNCHANGED <<clock, cache, loaded, maintSet, declared, edits>>

-----------------------------------------------------------------------------
\* PruneExpiredMaintenanceWindows, from the engine's pruner.
Expired == {id \in DOMAIN windows :
              windows[id].end # 0 /\ windows[id].end + Retention < clock}

Prune ==
  /\ Expired # {}
  /\ windows' = [i \in DOMAIN windows \ Expired |-> windows[i]]
  /\ UNCHANGED <<clock, lastId, cmds, cache, loaded, maintSet, declared, edits>>

\* refreshMaintenanceCache: windows of every type count.
refreshMaintenanceCache ==
  /\ cache' = UNION {Covered(windows[id]) : id \in Active}
  /\ UNCHANGED <<clock, windows, lastId, cmds, loaded, maintSet, declared, edits>>

\* buildMaintSet: of the list, by the console's clock, the end included.
buildMaintSet(list) ==
  UNION {Covered(list[id]) : id \in
    {i \in DOMAIN list : /\ list[i].type = "maintenance"
                         /\ list[i].start <= clock
                         /\ list[i].end = 0 \/ list[i].end >= clock}}

\* handleTabData with the newest windows; equally old ones in any choice.
GetAllMaintenanceWindows ==
  {ids \in SUBSET DOMAIN windows :
     /\ Cardinality(ids) = IF Cardinality(DOMAIN windows) < Limit
                           THEN Cardinality(DOMAIN windows) ELSE Limit
     /\ \A i \in ids, j \in DOMAIN windows \ ids : windows[i].born >= windows[j].born}

Load ==
  /\ \E ids \in GetAllMaintenanceWindows :
       /\ loaded' = [i \in ids |-> windows[i]]
       /\ maintSet' = buildMaintSet(loaded')
  /\ UNCHANGED <<clock, windows, lastId, cmds, cache, declared, edits>>

\* refreshLive
refreshLive ==
  /\ maintSet' = buildMaintSet(loaded)
  /\ UNCHANGED <<clock, windows, lastId, cmds, cache, loaded, declared, edits>>

Tick ==
  /\ clock < MaxTime
  /\ clock' = clock + 1
  /\ UNCHANGED <<windows, lastId, cmds, cache, loaded, maintSet, declared, edits>>

\* A write is refused.
CmdFails(c) ==
  /\ c.do # "check"
  /\ cmds' = cmds \ {c}
  /\ UNCHANGED <<clock, windows, lastId, cache, loaded, maintSet, declared, edits>>

Cmds == \E c \in cmds : \/ CheckOverlap(c) \/ AddMaintenanceWindow(c)
                        \/ EndMaintenanceWindow(c) \/ DeleteMaintenanceWindow(c)
                        \/ CmdFails(c)

Next ==
  \/ \E m \in Monitors \cup {All}, d \in Durations : Submit(m, "maintenance", d)
  \/ \E m \in Monitors \cup {All} : Submit(m, "incident", 0)
  \/ \E id \in DOMAIN loaded : EndWindow(id) \/ DeleteWindow(id)
  \/ Cmds
  \/ Prune
  \/ refreshMaintenanceCache
  \/ Load
  \/ refreshLive
  \/ Tick

\* The poll round and the dashboard's reload are on timers, a Cmd is a
\* goroutine.
Fairness == /\ WF_windowsVars(Cmds)
            /\ WF_windowsVars(refreshMaintenanceCache) /\ WF_windowsVars(Load)

Spec == Init /\ [][Next]_windowsVars /\ Fairness

-----------------------------------------------------------------------------
\* When the edits are over, the engine, the dashboard and the status page come
\* to agree on the monitors in maintenance: an ended, deleted or pruned window
\* is forgotten everywhere, a group's reaches its children everywhere.  The
\* exceptions are the ones the code has: an active incident, which the engine
\* counts, more windows than the dashboard loads, and the moment of an end.
ViewsConverge ==
  <>[]((/\ \A id \in Active : windows[id].type = "maintenance"
        /\ Cardinality(DOMAIN windows) <= Limit
        /\ \A id \in DOMAIN windows : windows[id].end # clock)
       => /\ cache = {m \in Monitors : IsMonitorInMaintenance(m)}
          /\ maintSet = cache)

\* Whoever adds a window that covers a monitor at a time another window covers
\* it too is warned, whatever the scopes of the two, unless the other came or
\* got its end between the check and the insert or later, or is for a child of
\* the new one's group, or the check or its warning failed, which is silent.
OverlapWarned ==
  \A new, old \in DOMAIN windows :
    LET a == windows[new]
        b == windows[old]
    IN  (/\ <<b.n, b.end>> \in a.saw
         /\ Covered(a) \cap Covered(b) # {}
         /\ a.until = 0 \/ b.start < a.until
         /\ b.end = 0 \/ a.start < b.end
         /\ b.monitor # All => Parent[b.monitor] # a.monitor \/ a.monitor = All)
          => a.warned

\* tab_maint.go offers "Incident (informational)", and a test says that
\* incident windows do not mark monitors as in maintenance: the engine holds
\* back alerts only for monitors that a maintenance window was ever for.
IncidentsInform == cache \subseteq declared
=============================================================================
