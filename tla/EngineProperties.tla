-------------------------- MODULE EngineProperties --------------------------
(***************************************************************************)
(* What the engine must guarantee.  Engine's header names the phases the   *)
(* formulas speak of.                                                      *)
(***************************************************************************)
EXTENDS Engine

\* A goroutine folds a check result or a heartbeat in this step.
Folds(a) == pc[a] \in {"fold", "beat"} /\ pc'[a] = "emit"

(***************************************************************************)
(* Every heartbeat token leads to a live push monitor that owns it, and    *)
(* every such monitor can be reached by its token, whatever adds, edits    *)
(* and removals went before (addToTokenIndex, removeFromTokenIndex).       *)
(***************************************************************************)
TokenIndexExact == tokenIndex = {s \in present : HasToken(live[s].cfg)}

(***************************************************************************)
(* handleStatusChange: MaxRetries means what it says.  A DOWN alert is     *)
(* decided only when more than MaxRetries failures, by the configuration   *)
(* in force at that moment, were folded since the last success, though     *)
(* edits, pauses, several goroutines and dropped results come in between.  *)
(***************************************************************************)
FailuresHonest == \A s \in Sites : live[s].fails <= streak[s]

RetriesExhausted ==
  [][\A a \in Actors : LET s == job[a].site IN
       Folds(a) /\ effect'[a].page = "DOWN"
         => streak'[s] > live'[s].cfg.maxRetries]_vars

(***************************************************************************)
(* After SetActive(false) no new result is let in: each goroutine applies  *)
(* at most the one it had already carried past its IsActive test.          *)
(***************************************************************************)
StepDownDrains == \A a \in Actors : drained[a] <= 1

(***************************************************************************)
(* handleStatusChange against RecordHeartbeat: a push monitor is folded to *)
(* LATE, STALE or DOWN only if the newest heartbeat applied so far is      *)
(* overdue by the interval the verdict was reached with.  The verdict      *)
(* comes from a copy, so the heartbeat may be newer than the copy.  (A     *)
(* monitor that is edited into a push monitor while it is being checked    *)
(* may still meet the result of that check.)                               *)
(***************************************************************************)
Only(s, typ) == \A c \in Configs[s] : c.typ = typ

HeartbeatHonoured ==
  [][\A r \in Routines : LET s == job[r].site IN
       (Folds(r) /\ job[r].result.verdict # "UP" /\ Only(s, "push"))
         => \/ live[s].lastCheck = Never
            \/ now > live[s].lastCheck + job[r].interval]_vars

(***************************************************************************)
(* The last alert decided tells the truth about every monitor the engine   *)
(* checks itself and no maintenance window is ever for: it is DOWN exactly *)
(* while the monitor is broken, or none was due because the monitor began  *)
(* in the outage its history ended with.                                   *)
(***************************************************************************)
Uncovered(s) == \A w \in Windows : /\ Everything \notin w /\ s \notin w
                                    /\ \A c \in Configs[s] : c.parent \notin w

PagedIffBroken ==
  \A s \in present : Only(s, "http") /\ Uncovered(s) =>
    (lastPage[s] \in {"DOWN", "seeded"} <=> IsBroken(live[s].status))

(***************************************************************************)
(* The state-change log that SLA reports are computed from: while no       *)
(* goroutine is working on a monitor served by one routine alone, with no  *)
(* reports of probe nodes and no heartbeats, the newest row queued ends in *)
(* the status the monitor has.  (A group may fall back to PENDING and out  *)
(* of it again; the way out is not logged.)                                *)
(***************************************************************************)
Serves(r, s) == \A q \in Routines : owner[q] = s <=> q = r

Quiet(s) == /\ \E r \in Routines : Serves(r, s)
            /\ \A a \in Actors : job[a].site # s

Unpushed(s) == \A c \in Configs[s] : ~HasToken(c)

LogFollowsStatus ==
  \A s \in present \ Probed :
    Quiet(s) /\ Unpushed(s) => logged[s] \in {"none", "PENDING", live[s].status}

(***************************************************************************)
(* The engine implements the abstract pager.  An outage is a broken status *)
(* of a live monitor; an alert is due from the fold that decides it until  *)
(* the same goroutine has sent it, with the engine lock released.          *)
(***************************************************************************)
Outages == {s \in present : IsBroken(live[s].status)}

Due == [a \in Actors |->
          [site |-> IF effect[a].page = "none" THEN NoSite ELSE job[a].site,
           kind |-> effect[a].page]]

P == INSTANCE Pager WITH Senders <- Actors, Nobody <- NoSite,
                         down <- Outages, due <- Due

ImplementsPager == P!Spec

(***************************************************************************)
(* The dead man's switch.  A push monitor that stays enabled on an active  *)
(* engine, and silent past its grace period, ends up DOWN (through LATE    *)
(* and STALE and its retries) unless it never reported at all.             *)
(***************************************************************************)
Enabled(s) == active /\ s \in present /\ ~live[s].cfg.paused

Silent(s) == LET k == live[s].cfg.interval IN
  live[s].cfg.typ = "push" /\ now > live[s].lastCheck + k + Grace(k)

DeadManSwitch ==
  \A s \in Sites :
    <>[](Enabled(s) /\ Silent(s)) => <>[](live[s].status \in {"DOWN", "PENDING"})

(***************************************************************************)
(* checkGroup: once its children settle, a group that is checked shows the *)
(* status they add up to, and keeps it.                                    *)
(***************************************************************************)
GroupConverges ==
  \A s \in Sites, st \in Status :
    <>[](Enabled(s) /\ live[s].cfg.typ = "group" /\ Worst(s) = st)
      => <>[](live[s].status = st)

(***************************************************************************)
(* alerts_test.go, TestHandleStatusChange_RecoverySuppressedMaintenance:   *)
(* "expected no alert during maintenance recovery".                        *)
(***************************************************************************)
NoRecoveryAlertInMaintenance ==
  [][\A a \in Actors :
       Folds(a) /\ effect'[a].page = "RECOVERY"
         => IF pc[a] = "fold" THEN ~job[a].inMaint
                              ELSE job[a].site \notin maint]_vars

=============================================================================
