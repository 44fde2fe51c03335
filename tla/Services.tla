------------------------------ MODULE Services ------------------------------
(***************************************************************************)
(* The services around the engine, in one specification.  They share no    *)
(* state in the model, so one behaviour exercises one of them: `part' says *)
(* which, and the variables of the others keep an initial value.           *)
(***************************************************************************)
EXTENDS Naturals, Sequences

CONSTANTS
  \* Each is described in the module of its service.
  Files, Databases, MaxRuns, ConfigFaults,                          \* ConfigApply
  Bodies, SiteTypes, FirstRows, PollEdits,                          \* SitePoll
  Probes, ProbedSites, Deployments, Regions, StaleAfter,            \* Probes
  MaxFlips, ProbeFaults,
  Clients, Burst, Cost, Cutoff, MaxVisitors, LimitTime,             \* RateLimiter
  UserKeys, EnvKeys, Attempts, UserChanges,                         \* KeyCache
  Ranges, DayLength,  ReportTime, StatusChanges,                    \* History
  Monitors, Parent, Durations, Limit, Retention,                    \* Windows
  WindowTime, WindowEdits

VARIABLES
  part,
  cDb, cRun, cPrev, cRuns, cFaults,
  sDb, sLive, sIndex, sRoutines, sPoll, sForm, sCmds, sEdits,
  pStrategy, pRegion, pSees, pLive, pIdle, pNodes, pProbe, pInbox, pResults,
  pVerdict, pBlind, pFlips, pFaults,
  rClock, rVisitors, rFrom, rSpent, rEvicted,
  kUsers, kCache, kFresh, kAttempt, kPending, kRevoked, kOverlaps, kChanges,
  hNow, hStatus, hPast, hChanges, hUnsaved, hRequest, hReport,
  wClock, wWindows, wLastId, wCmds, wCache, wLoaded, wMaintSet, wDeclared, wEdits

-----------------------------------------------------------------------------
Config == INSTANCE ConfigApply WITH MaxFaults <- ConfigFaults,
  db <- cDb, run <- cRun, prev <- cPrev, runs <- cRuns, faults <- cFaults
Poll == INSTANCE SitePoll WITH MaxEdits <- PollEdits,
  db <- sDb, live <- sLive, index <- sIndex, routines <- sRoutines, poll <- sPoll,
  form <- sForm, cmds <- sCmds, edits <- sEdits
Probe == INSTANCE Probes WITH Sites <- ProbedSites, MaxFaults <- ProbeFaults,
  strategy <- pStrategy, region <- pRegion, sees <- pSees, live <- pLive, idle <- pIdle, nodes <- pNodes,
  probe <- pProbe, inbox <- pInbox, results <- pResults, verdict <- pVerdict,
  blind <- pBlind, flips <- pFlips, faults <- pFaults
Limiter == INSTANCE RateLimiter WITH MaxTime <- LimitTime,
  clock <- rClock, visitors <- rVisitors, from <- rFrom, spent <- rSpent,
  evicted <- rEvicted
Login == INSTANCE KeyCache WITH Keys <- UserKeys, MaxChanges <- UserChanges,
  users <- kUsers, cache <- kCache, fresh <- kFresh, attempt <- kAttempt,
  pending <- kPending, revoked <- kRevoked, overlaps <- kOverlaps, changes <- kChanges
Sla == INSTANCE History WITH
  Windows <- Ranges, MaxTime <- ReportTime, MaxChanges <- StatusChanges,
  now <- hNow, status <- hStatus, past <- hPast, changes <- hChanges,
  unsaved <- hUnsaved, request <- hRequest, report <- hReport
Maint == INSTANCE Windows WITH MaxTime <- WindowTime, MaxEdits <- WindowEdits,
  clock <- wClock, windows <- wWindows, lastId <- wLastId, cmds <- wCmds,
  cache <- wCache, loaded <- wLoaded, maintSet <- wMaintSet, declared <- wDeclared,
  edits <- wEdits

ASSUME ServicesAssumption ==
  /\ Config!ConfigAssumption /\ Poll!PollAssumption /\ Probe!ProbesAssumption
  /\ Limiter!LimiterAssumption /\ Login!KeyCacheAssumption
  /\ Sla!HistoryAssumption /\ Maint!WindowsAssumption

-----------------------------------------------------------------------------
cVars == <<cDb, cRun, cPrev, cRuns, cFaults>>
sVars == <<sDb, sLive, sIndex, sRoutines, sPoll, sForm, sCmds, sEdits>>
pVars == <<pStrategy, pRegion, pSees, pLive, pIdle, pNodes, pProbe, pInbox,
           pResults, pVerdict, pBlind, pFlips, pFaults>>
rVars == <<rClock, rVisitors, rFrom, rSpent, rEvicted>>
kVars == <<kUsers, kCache, kFresh, kAttempt,
           kPending, kRevoked, kOverlaps, kChanges>>
hVars == <<hNow, hStatus, hPast, hChanges, hUnsaved, hRequest, hReport>>
wVars == <<wClock, wWindows, wLastId, wCmds, wCache,
           wLoaded, wMaintSet, wDeclared, wEdits>>
vars == <<part, cVars, sVars, pVars, rVars, kVars, hVars, wVars>>

Init ==
  /\ part \in {"config", "poll", "probes", "limiter", "login", "sla", "maint"}
  /\ Config!Init /\ (part = "config" \/ cDb = CHOOSE d \in Databases : TRUE)
  /\ Poll!Init
  /\ Probe!Init /\ (\/ part = "probes"
                    \/ pStrategy = "any-down" /\ pRegion = CHOOSE d \in Deployments : TRUE)
  /\ Limiter!Init /\ (part = "limiter" \/ rFrom = 0)
  /\ Login!Init /\ (part = "login" \/ kUsers = {})
  /\ Sla!Init /\ (part = "sla" \/ hStatus = "UP")
  /\ Maint!Init

ConfigSteps == part = "config" /\ UNCHANGED <<part, sVars, pVars, rVars, kVars, hVars, wVars>>
PollSteps   == part = "poll" /\ UNCHANGED <<part, cVars, pVars, rVars, kVars, hVars, wVars>>
ProbeSteps  == part = "probes" /\ UNCHANGED <<part, cVars, sVars, rVars, kVars, hVars, wVars>>
LimitSteps  == part = "limiter" /\ UNCHANGED <<part, cVars, sVars, pVars, kVars, hVars, wVars>>
LoginSteps  == part = "login" /\ UNCHANGED <<part, cVars, sVars, pVars, rVars, hVars, wVars>>
SlaSteps    == part = "sla" /\ UNCHANGED <<part, cVars, sVars, pVars, rVars, kVars, wVars>>
MaintSteps  == part = "maint" /\ UNCHANGED <<part, cVars, sVars, pVars, rVars, kVars, hVars>>

Next ==
  \/ ConfigSteps /\ Config!Next
  \/ PollSteps   /\ Poll!Next
  \/ ProbeSteps  /\ Probe!Next
  \/ LimitSteps  /\ Limiter!Next
  \/ LoginSteps  /\ Login!Next
  \/ SlaSteps    /\ Sla!Next
  \/ MaintSteps  /\ Maint!Next

\* Each component's own fairness, for the behaviours that are its own.
Fairness ==
  /\ WF_sVars(PollSteps /\ Poll!PollLoop)
  /\ WF_sVars(PollSteps /\ Poll!Cmds)
  /\ \A p \in Probes : WF_pVars(ProbeSteps /\ Probe!ProbeStep(p))
  /\ WF_pVars(ProbeSteps /\ \E h \in pInbox : Probe!Handle(h))
  /\ WF_pVars(ProbeSteps /\ Probe!Tick)
  /\ WF_wVars(MaintSteps /\ Maint!Cmds)
  /\ WF_wVars(MaintSteps /\ Maint!refreshMaintenanceCache)
  /\ WF_wVars(MaintSteps /\ Maint!Load)

Spec == Init /\ [][Next]_vars /\ Fairness
-----------------------------------------------------------------------------
\* The components' properties, each of which says in its module what it is
\* about.  A run that reports success made the database what the file says.
AppliedMatches == part = "config" => Config!AppliedMatches
\* Applying the same file again changes nothing ...
Idempotent == part = "config" => Config!Idempotent
\* ... for files that list every alert they refer to, or without --prune.
IdempotentClosed == part = "config" => Config!IdempotentClosed
\* A dry run announces what the real run does.
DryRunTruth == part = "config" => Config!DryRunTruth
\* Applying what was exported changes nothing.
RoundTrip == part = "config" => Config!RoundTrip

\* The engine ends up with the rows of the database.
Settles == part = "poll" => Poll!Settles
\* The token index is what the live sites say.
TokenIndexExact == part = "poll" => Poll!TokenIndexExact
\* No edit changes the push token of a monitor.
TokenStable == [][Poll!TokensKept]_sVars

\* The verdict becomes what the strategy says of the running probes.
Converges == part = "probes" => Probe!Converges
\* Results count only for sites of the probe's region.
RegionRespected == Probe!RegionRespected

\* In any window a client gets at most a full bucket and the inflow.
LimitHolds == Limiter!LimitHolds

\* A removed key is not accepted any more.
RemovalTakesEffect == Login!RemovalTakesEffect

\* The report's downtime is the real one.
SlaTruth == part = "sla" => Sla!SlaTruth
\* The figures of a report fit together.
OutagesAddUp == Sla!OutagesAddUp

\* Engine, dashboard and status page come to agree on maintenance.
ViewsConverge == part = "maint" => Maint!ViewsConverge
\* Adding a window that overlaps another one warns.
OverlapWarned == part = "maint" => Maint!OverlapWarned
\* Incidents hold no alert back.
IncidentsInform == Maint!IncidentsInform
=============================================================================
