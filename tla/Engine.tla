------------------------------- MODULE Engine -------------------------------
(***************************************************************************)
(* internal/monitor.Engine: the live state of the monitors and the         *)
(* goroutines that read and write it.                                      *)
(*                                                                         *)
(* Two kinds of goroutine act.  A routine is a monitorRoutine, started by  *)
(* the poll loop for one monitor; it checks that monitor again and again.  *)
(* A handler is an HTTP handler goroutine: a heartbeat on /api/push or a   *)
(* probe node's report.  Both work in phases, and the engine lock is held  *)
(* within a phase only: copy the entry, wait for the network or the clock, *)
(* pass handleStatusChange's gate, fold the result into the CURRENT entry  *)
(* (applyState), then record, log and alert with the lock released.  pc[a] *)
(* names the phase goroutine a is about to execute:                        *)
(*                                                                         *)
(*   "probe"   RunCheck on the wire           "gate"  IsActive, inMaint    *)
(*   "push"    heartbeat deadline             "fold"  applyState           *)
(*   "group"   scan of a group's children     "emit"  record, log, alert   *)
(*   "rollup"  applyState of a group          "beat"  applyState of a      *)
(*   "idle"    between checks or requests             heartbeat            *)
(*                                                                         *)
(* Other actors are the environment: the poll loop and the TUI add, edit,  *)
(* pause and remove monitors, the cluster switches the engine on and off,  *)
(* and the clock ticks.  Time is a logical clock that ends at MaxTime.     *)
(***************************************************************************)
EXTENDS MonitorState, FiniteSets

CONSTANTS
  Routines,      \* monitorRoutine goroutines that may exist
  Handlers,      \* HTTP handler goroutines that may run at a time
  Configs,       \* configurations each monitor may be given
  Probed,        \* monitors that probe nodes report on
  Windows,       \* sets of active maintenance windows, by what each covers
  Everything,    \* a window on every monitor (MonitorID 0)
  Results,       \* what RunCheck may return: [verdict, cert]
  SeedHistory,   \* last check per monitor that InitHistory may have loaded
  MinPushGrace,  \* least grace after a push deadline
  MaxTime,       \* bound: the clock stops here
  RetryCap       \* above every MaxRetries; bounds the history variable streak

ASSUME EngineAssumption ==
  /\ Routines \cap Handlers = {}
  /\ Configs \in [Sites -> SUBSET Config]
  /\ Probed \subseteq Sites
  /\ Everything \notin Sites \cup {NoSite}
  /\ Windows \subseteq SUBSET (Sites \cup {Everything})
  /\ Results \subseteq [verdict: {"UP", "DOWN", "SSL EXP"}, cert: Cert]
  /\ SeedHistory \subseteq {"none", "up", "down"}
  /\ MinPushGrace \in Nat /\ MaxTime \in Nat /\ RetryCap \in Nat \ {0}
  /\ \A s \in Sites : \A c \in Configs[s] : c.maxRetries < RetryCap

VARIABLES
  active,      \* isActive
  now,         \* the clock, from 1 (0 is Never)
  present,     \* the keys of liveState
  live,        \* the entries of liveState
  tokenIndex,  \* monitors that a push token leads to
  hist,        \* the newest entry of histories[s].Statuses
  maint,       \* the true entries of maintCache
  owner,       \* the monitor a routine serves; NoSite when it does not run
  pc,          \* the phase of each goroutine
  job,         \* what it carries from phase to phase
  effect,      \* what it must still record, log and alert
  streak,      \* history: failures folded in a row since the last success
  lastPage,    \* history: the last alert decided, in the order of folds, or
               \* "seeded" if the monitor began in the outage of its history
  logged,      \* history: the newest state-change row, in the order queued
  drained      \* history: folds of each goroutine since the last step-down

siteVars  == <<present, live, tokenIndex>>
actorVars == <<owner, pc, job, effect>>
ghosts    == <<streak, lastPage, logged, drained>>
vars      == <<active, now, siteVars, hist, maint, actorVars, ghosts>>

Actors == Routines \cup Handlers
Phases == {"idle", "probe", "push", "group", "rollup", "gate", "fold", "beat",
           "emit"}

\* The phases that end in applyState without asking IsActive again.
Cleared == {"group", "rollup", "fold", "beat"}

\* A job: the monitor, what its copied entry said, and the result so far.
Job == [site: Sites \cup {NoSite}, seen: Status, interval: Nat,
        result: Result, inMaint: BOOLEAN]
NoJob == [site |-> NoSite, seen |-> "PENDING", interval |-> 0,
          result |-> [verdict |-> "PENDING", at |-> Never, cert |-> "none"],
          inMaint |-> FALSE]

Effect == [row: BOOLEAN, to: Status, page: Pages, warn: BOOLEAN, up: BOOLEAN]
NoEffect == [row |-> FALSE, to |-> "PENDING", page |-> "none",
             warn |-> FALSE, up |-> FALSE]

Blank == NewSite([typ |-> "http", maxRetries |-> 0, interval |-> 0,
                  paused |-> TRUE, token |-> FALSE, parent |-> NoSite],
                 "PENDING")

TypeOK ==
  /\ active \in BOOLEAN
  /\ now \in Nat \ {0}
  /\ present \in SUBSET Sites
  /\ live \in [Sites -> Site]
  /\ \A s \in Sites : /\ live[s].cfg.maxRetries < RetryCap
                       /\ live[s].fails <= RetryCap
  /\ tokenIndex \in SUBSET Sites
  /\ hist \in [Sites -> {"none", "up", "down"}]
  /\ maint \in SUBSET Sites
  /\ owner \in [Routines -> Sites \cup {NoSite}]
  /\ pc \in [Actors -> Phases]
  /\ job \in [Actors -> Job]
  /\ effect \in [Actors -> Effect]
  /\ streak \in [Sites -> 0..RetryCap]
  /\ lastPage \in [Sites -> Pages \cup {"seeded"}]
  /\ logged \in [Sites -> Status \cup {"none"}]
  /\ drained \in [Actors -> 0..2]

\* newEngine, then InitHistory: active, no monitor yet, history from the database.
Init ==
  /\ active = TRUE
  /\ now = 1
  /\ present = {}
  /\ live = [s \in Sites |-> Blank]
  /\ tokenIndex = {}
  /\ hist \in [Sites -> SeedHistory]
  /\ maint = {}
  /\ owner = [r \in Routines |-> NoSite]
  /\ pc = [a \in Actors |-> "idle"]
  /\ job = [a \in Actors |-> NoJob]
  /\ effect = [a \in Actors |-> NoEffect]
  /\ streak = [s \in Sites |-> 0]
  /\ lastPage = [s \in Sites |-> "none"]
  /\ logged = [s \in Sites |-> "none"]
  /\ drained = [a \in Actors |-> 0]

-----------------------------------------------------------------------------
(* The clock, the cluster, the poll loop and the TUI.                      *)

Tick == /\ now < MaxTime
        /\ now' = now + 1
        /\ UNCHANGED <<active, siteVars, hist, maint, actorVars, ghosts>>

SetActive(b) ==
  /\ active # b
  /\ active' = b
  /\ drained' = [a \in Actors |-> 0]
  /\ UNCHANGED <<now, siteVars, hist, maint, actorVars, streak, lastPage,
                 logged>>

HasToken(c) == c.typ = "push" /\ c.token

Indexed(s, c) == IF HasToken(c) THEN tokenIndex \cup {s}
                                ELSE tokenIndex \ {s}

\* A restart shows the last recorded check until the first new one.
SeedStatus(s) == CASE hist[s] = "up" -> "UP"
                   [] hist[s] = "down" -> "DOWN"
                   [] OTHER -> "PENDING"

\* The poll loop meets a row it does not know and starts its routine.
AddSite(s, c, r) ==
  /\ s \notin present
  /\ owner[r] = NoSite
  /\ present' = present \cup {s}
  /\ live' = [live EXCEPT ![s] = NewSite(c, SeedStatus(s))]
  /\ tokenIndex' = IF HasToken(c) THEN tokenIndex \cup {s} ELSE tokenIndex
  /\ owner' = [owner EXCEPT ![r] = s]
  /\ lastPage' = [lastPage EXCEPT ![s] =
                    IF SeedStatus(s) = "DOWN" THEN "seeded" ELSE "none"]
  /\ logged' = [logged EXCEPT ![s] = "none"]
  /\ UNCHANGED <<active, now, hist, maint, pc, job, effect, streak, drained>>

KeepOldToken(s, c) ==                                            \* mutant
  /\ s \in present
  /\ live' = [live EXCEPT ![s].cfg = c]
  /\ tokenIndex' = IF HasToken(c) THEN tokenIndex \cup {s} ELSE tokenIndex
  /\ UNCHANGED <<active, now, present, hist, maint, actorVars, ghosts>>
UpdateSiteConfig(s, c) ==
  /\ s \in present
  /\ live' = [live EXCEPT ![s].cfg = c]
  /\ tokenIndex' = Indexed(s, c)
  /\ UNCHANGED <<active, now, present, hist, maint, actorVars, ghosts>>

ToggleSitePause(s) ==
  /\ s \in present
  /\ live' = [live EXCEPT ![s].cfg.paused = ~@]
  /\ UNCHANGED <<active, now, present, tokenIndex, hist, maint, actorVars,
                 ghosts>>

RemoveSite(s) ==
  /\ present' = present \ {s}
  /\ live' = [live EXCEPT ![s] = Blank]
  /\ tokenIndex' = tokenIndex \ {s}
  /\ hist' = [hist EXCEPT ![s] = "none"]
  /\ streak' = [streak EXCEPT ![s] = 0]
  /\ logged' = [logged EXCEPT ![s] = "none"]
  /\ UNCHANGED <<active, now, maint, actorVars, lastPage, drained>>

\* A window covers its monitor, or the children of its group, or everything.
Covered(w) == {s \in present : \/ Everything \in w
                               \/ s \in w
                               \/ live[s].cfg.parent \in w}

RefreshMaintenance(w) ==
  /\ maint' = Covered(w)
  /\ UNCHANGED <<active, now, siteVars, hist, actorVars, ghosts>>

-----------------------------------------------------------------------------
(* checkByID: a routine copies its monitor's entry and checks it.          *)

\* What the check reads of the copied entry; only checkPush looks at it again.
Copy(s) ==
  IF live[s].cfg.typ = "push"
  THEN [site |-> s, seen |-> live[s].status, interval |-> live[s].cfg.interval,
        result |-> [verdict |-> "PENDING", at |-> live[s].lastCheck,
                    cert |-> live[s].cert],
        inMaint |-> FALSE]
  ELSE [NoJob EXCEPT !.site = s]

CheckPhase(typ) == CASE typ = "push" -> "push"
                     [] typ = "group" -> "group"
                     [] OTHER -> "probe"

CheckStart(r) ==
  LET s == owner[r] IN
  /\ s \in present
  /\ pc[r] = "idle"
  /\ active
  /\ ~live[s].cfg.paused
  /\ pc' = [pc EXCEPT ![r] = CheckPhase(live[s].cfg.typ)]
  /\ job' = [job EXCEPT ![r] = Copy(s)]
  /\ UNCHANGED <<active, now, siteVars, hist, maint, owner, effect, ghosts>>

\* monitorRoutine wakes up and its monitor is gone.
RoutineExit(r) ==
  /\ owner[r] \in Sites \ present
  /\ pc[r] = "idle"
  /\ active
  /\ owner' = [owner EXCEPT ![r] = NoSite]
  /\ UNCHANGED <<active, now, siteVars, hist, maint, pc, job, effect, ghosts>>

Done(a) == /\ pc' = [pc EXCEPT ![a] = "idle"]
           /\ job' = [job EXCEPT ![a] = NoJob]

Advance(a, phase, res) ==
  /\ pc' = [pc EXCEPT ![a] = phase]
  /\ job' = [job EXCEPT ![a].result = res]

\* RunCheck returns; the result is dated now.
ProbeReturns(r, out) ==
  /\ pc[r] = "probe"
  /\ Advance(r, "gate",
             [verdict |-> out.verdict, at |-> now, cert |-> out.cert])
  /\ UNCHANGED <<active, now, siteVars, hist, maint, owner, effect, ghosts>>

\* checkPush: how late the heartbeat is, by the copied entry and the clock.
Overdue(j, k) == j.result.at = Never \/ now > j.result.at + k

Grace(k) == IF k \div 2 < MinPushGrace THEN MinPushGrace ELSE k \div 2

PushVerdict(j) ==
  LET grace == Grace(j.interval)
  IN  IF Overdue(j, j.interval + grace) THEN "DOWN"
      ELSE IF Overdue(j, j.interval + grace \div 2) THEN "STALE"
      ELSE IF Overdue(j, j.interval) THEN "LATE"
      ELSE "UP"

\* On time, waiting for the first heartbeat, or known already.
OnlyFromUp(j, v) == j.seen # "UP" \/ v = "UP"                    \* mutant
NothingToDo(j, v) == j.seen = "PENDING" \/ v = "UP" \/ v = j.seen

CheckPush(r) ==
  LET j == job[r]  v == PushVerdict(j) IN
  /\ pc[r] = "push"
  /\ IF NothingToDo(j, v)
     THEN Done(r)
     ELSE Advance(r, "gate", [j.result EXCEPT !.verdict = v])
  /\ UNCHANGED <<active, now, siteVars, hist, maint, owner, effect, ghosts>>

-----------------------------------------------------------------------------
(* handleStatusChange: gate, fold, emit.                                   *)

NoGate(a) == /\ pc[a] = "gate"                                   \* mutant
             /\ pc' = [pc EXCEPT ![a] = "fold"]
             /\ job' = [job EXCEPT ![a].inMaint = (job[a].site \in maint)]
             /\ UNCHANGED <<active, now, siteVars, hist, maint, owner, effect,
                            ghosts>>
Gate(a) ==
  /\ pc[a] = "gate"
  /\ IF active
     THEN /\ pc' = [pc EXCEPT ![a] = "fold"]
          /\ job' = [job EXCEPT ![a].inMaint = (job[a].site \in maint)]
     ELSE Done(a)
  /\ UNCHANGED <<active, now, siteVars, hist, maint, owner, effect, ghosts>>

\* History variables of a fold that takes s from its entry to e.
Counts(a, s, failed, page) ==
  /\ streak' = [streak EXCEPT ![s] =
                  IF ~failed THEN 0 ELSE IF @ < RetryCap THEN @ + 1 ELSE @]
  /\ lastPage' = [lastPage EXCEPT ![s] = IF page = "none" THEN @ ELSE page]
  /\ drained' = [drained EXCEPT ![a] = IF active \/ @ = 2 THEN @ ELSE @ + 1]
  /\ UNCHANGED logged

Fold(a) ==
  LET s == job[a].site  r == job[a].result
      e == FoldCheck(live[s], r)
      page == PageFor(live[s].status, e.status, job[a].inMaint)
  IN
  /\ pc[a] = "fold"
  /\ IF s \notin present \/ IsStale(live[s], r)
     THEN Done(a) /\ UNCHANGED <<live, effect, ghosts>>
     ELSE /\ live' = [live EXCEPT ![s] = e]
          /\ pc' = [pc EXCEPT ![a] = "emit"]
          /\ effect' = [effect EXCEPT ![a] =
               [row |-> LogsChange(live[s].status, e.status),
                to |-> e.status,
                page |-> page,
                warn |-> WarnsNow(live[s], r) /\ ~job[a].inMaint,
                up |-> r.verdict = "UP"]]
          /\ job' = [job EXCEPT ![a] = [NoJob EXCEPT !.site = s]]
          /\ Counts(a, s, r.verdict # "UP", page)
  /\ UNCHANGED <<active, now, present, tokenIndex, hist, maint, owner>>

\* After the lock: history, then the state-change row, then alerts.  None
\* of the three asks whether the monitor is still there.
Emit(a) ==
  LET s == job[a].site  e == effect[a] IN
  /\ pc[a] = "emit"
  /\ hist' = [hist EXCEPT ![s] = IF e.up THEN "up" ELSE "down"]
  /\ logged' = [logged EXCEPT ![s] = IF e.row THEN e.to ELSE @]
  /\ Done(a)
  /\ effect' = [effect EXCEPT ![a] = NoEffect]
  /\ UNCHANGED <<active, now, siteVars, maint, owner, streak, lastPage,
                 drained>>

-----------------------------------------------------------------------------
(* checkGroup: a group is as bad as its worst child.                       *)

Watched(g) == {s \in present : live[s].cfg.parent = g /\ live[s].cfg.typ # "group"}

Heard(g) == {s \in Watched(g) : ~live[s].cfg.paused /\ s \notin maint}

Worst(g) ==
  LET heard == {live[s].status : s \in Heard(g)}
  IN  IF Watched(g) = {} THEN "PENDING"
      ELSE IF \E st \in heard : IsBroken(st) THEN "DOWN"
      ELSE IF "STALE" \in heard THEN "STALE"
      ELSE IF "LATE" \in heard THEN "LATE"
      ELSE IF "PENDING" \in heard THEN "PENDING"
      ELSE "UP"

FreezeWhenPaused(r) ==                                           \* mutant
  /\ pc[r] = "group"
  /\ IF Heard(job[r].site) = {} /\ Watched(job[r].site) # {} THEN Done(r)
     ELSE Advance(r, "rollup",
                  [job[r].result EXCEPT !.verdict = Worst(job[r].site)])
  /\ UNCHANGED <<active, now, siteVars, hist, maint, owner, effect, ghosts>>
RollUp(r) ==
  /\ pc[r] = "group"
  /\ Advance(r, "rollup", [job[r].result EXCEPT !.verdict = Worst(job[r].site)])
  /\ UNCHANGED <<active, now, siteVars, hist, maint, owner, effect, ghosts>>

\* Unlike Fold, this goes on to record and log when the group is gone.
GroupApply(r) ==
  LET s == job[r].site  st == job[r].result.verdict IN
  /\ pc[r] = "rollup"
  /\ live' = IF s \in present THEN [live EXCEPT ![s].status = st] ELSE live
  /\ pc' = [pc EXCEPT ![r] = "emit"]
  /\ job' = [job EXCEPT ![r] = [NoJob EXCEPT !.site = s]]
  /\ effect' = [effect EXCEPT ![r] =
       [row |-> s \notin present \/ LogsChange(live[s].status, st),
        to |-> st, page |-> "none", warn |-> FALSE, up |-> ~IsBroken(st)]]
  /\ drained' = [drained EXCEPT ![r] = IF active \/ @ = 2 THEN @ ELSE @ + 1]
  /\ UNCHANGED <<active, now, present, tokenIndex, hist, maint, owner, streak,
                 lastPage, logged>>

-----------------------------------------------------------------------------
(* RecordHeartbeat and IngestProbeResult, in a handler goroutine.          *)

BeatStart(h, s) ==
  /\ pc[h] = "idle"
  /\ active
  /\ s \in tokenIndex
  /\ pc' = [pc EXCEPT ![h] = "beat"]
  /\ job' = [job EXCEPT ![h] = [NoJob EXCEPT !.site = s]]
  /\ UNCHANGED <<active, now, siteVars, hist, maint, owner, effect, ghosts>>

\* A recovery from DOWN is alerted at once, in maintenance or not.
BeatAlways(st) == IF st # "UP" THEN "RECOVERY" ELSE "none"       \* mutant
BeatPage(st) == IF st = "DOWN" THEN "RECOVERY" ELSE "none"

BeatApply(h) ==
  LET s == job[h].site IN
  /\ pc[h] = "beat"
  /\ IF s \notin present
     THEN Done(h) /\ UNCHANGED <<live, effect, ghosts>>
     ELSE /\ live' = [live EXCEPT ![s] = FoldBeat(@, now)]
          /\ pc' = [pc EXCEPT ![h] = "emit"]
          /\ effect' = [effect EXCEPT ![h] =
               [row |-> LogsChange(live[s].status, "UP"), to |-> "UP",
                page |-> BeatPage(live[s].status), warn |-> FALSE,
                up |-> TRUE]]
          /\ Counts(h, s, FALSE, BeatPage(live[s].status))
          /\ UNCHANGED job
  /\ UNCHANGED <<active, now, present, tokenIndex, hist, maint, owner>>

\* The aggregate of the reports so far goes through handleStatusChange.
ProbeReport(h, s, up) ==
  /\ pc[h] = "idle"
  /\ s \in Probed \cap present
  /\ pc' = [pc EXCEPT ![h] = "gate"]
  /\ job' = [job EXCEPT ![h] =
               [NoJob EXCEPT !.site = s,
                             !.result = [verdict |-> IF up THEN "UP" ELSE "DOWN",
                                         at |-> now, cert |-> live[s].cert]]]
  /\ UNCHANGED <<active, now, siteVars, hist, maint, owner, effect, ghosts>>

-----------------------------------------------------------------------------
Step(a) == Gate(a) \/ Fold(a) \/ Emit(a)

RoutineStep(r) ==
  \/ CheckStart(r)
  \/ RoutineExit(r)
  \/ \E out \in Results : ProbeReturns(r, out)
  \/ CheckPush(r)
  \/ RollUp(r)
  \/ GroupApply(r)
  \/ Step(r)

HandlerStep(h) == BeatApply(h) \/ Step(h)

Next ==
  \/ Tick
  \/ \E b \in BOOLEAN : SetActive(b)
  \/ \E s \in Sites : \E c \in Configs[s] :
       UpdateSiteConfig(s, c) \/ \E r \in Routines : AddSite(s, c, r)
  \/ \E s \in Sites : ToggleSitePause(s) \/ RemoveSite(s)
  \/ \E w \in Windows : RefreshMaintenance(w)
  \/ \E r \in Routines : RoutineStep(r)
  \/ \E h \in Handlers : HandlerStep(h)
  \/ \E h \in Handlers, s \in Sites : BeatStart(h, s)
  \/ \E h \in Handlers, s \in Sites, up \in BOOLEAN : ProbeReport(h, s, up)

Spec == Init /\ [][Next]_vars

\* Goroutines are scheduled and time passes; users, nodes and the cluster
\* need never act again.
Fairness == /\ WF_vars(Tick)
            /\ \A r \in Routines : WF_vars(RoutineStep(r))
            /\ \A h \in Handlers : WF_vars(HandlerStep(h))

FairSpec == Spec /\ Fairness

=============================================================================
