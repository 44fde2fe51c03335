---------------------------- MODULE Engine_proofs ----------------------------
(***************************************************************************)
(* The type invariant and the safety properties of the engine, proved for  *)
(* every set of monitors, goroutines, configurations and windows.          *)
(*                                                                         *)
(* The sections build on each other: the pure operators; the type          *)
(* invariant; what a step does to an entry (FoldFacts, BeatFacts,          *)
(* GroupFacts, Bystander, StepCases), used by everything after it; tokens, *)
(* retries, stepping down, the pager; then what goroutines carry between   *)
(* the phases of their work (JobsInv), from which follow heartbeats,       *)
(* alerts and the state-change log.                                        *)
(***************************************************************************)
EXTENDS EngineProperties, TLAPS

-----------------------------------------------------------------------------
(* The pure operators.                                                     *)

LEMMA ConfigType == \A s \in Sites : Configs[s] \subseteq Config
  BY EngineAssumption

\* The bounds the configurations respect.
LEMMA RetryBound == /\ RetryCap \in Nat \ {0}
                    /\ \A s \in Sites : \A c \in Configs[s] :
                         c.maxRetries < RetryCap
  BY EngineAssumption

\* A monitor that is added is a well-formed entry.
LEMMA NewSiteType ==
  ASSUME NEW c \in Config, NEW st \in Status
  PROVE  /\ NewSite(c, st) \in Site
         /\ NewSite(c, st).cfg = c
         /\ NewSite(c, st).status = st
         /\ NewSite(c, st).fails = 0
  BY DEF NewSite, Site, Never, Cert

\* Folding a check keeps an entry well formed and its configuration as it
\* is; FailureCount stays at most one above MaxRetries or falls.
LEMMA FoldCheckType ==
  ASSUME NEW s \in Site, NEW r \in Result
  PROVE  /\ FoldCheck(s, r) \in Site
         /\ FoldCheck(s, r).cfg = s.cfg
         /\ r.verdict = "UP" => /\ FoldCheck(s, r).fails = 0
                                /\ FoldCheck(s, r).status = "UP"
         /\ r.verdict # "UP" =>
              /\ FoldCheck(s, r).fails <= s.fails + 1
              /\ FoldCheck(s, r).fails <= s.cfg.maxRetries + 1
              /\ FoldCheck(s, r).status # s.status =>
                   FoldCheck(s, r).fails = s.cfg.maxRetries + 1
  <1> DEFINE tried == IF s.fails <= s.cfg.maxRetries THEN s.fails + 1
                                                     ELSE s.fails
  <1>1. s.fails \in Nat /\ s.cfg.maxRetries \in Nat
    BY DEF Site, Config
  <1>2. r.verdict \in Status /\ r.at \in Nat /\ r.cert \in Cert
    BY DEF Result
  <1>3. WarnedAfter(s, r) \in BOOLEAN
    BY DEF WarnedAfter, WarnsNow
  <1>4. /\ Passed(s) \in Site /\ Passed(s).cfg = s.cfg
        /\ Passed(s).fails = 0 /\ Passed(s).status = "UP"
    BY DEF Passed, Site, Status
  <1>5. /\ Failed(s, r.verdict) \in Site /\ Failed(s, r.verdict).cfg = s.cfg
        /\ Failed(s, r.verdict).fails <= s.fails + 1
        /\ Failed(s, r.verdict).fails <= s.cfg.maxRetries + 1
        /\ Failed(s, r.verdict).status # s.status =>
             Failed(s, r.verdict).fails = s.cfg.maxRetries + 1
    <2> DEFINE broke == [s EXCEPT !.status = r.verdict,
                                  !.fails = s.cfg.maxRetries + 1]
               retry == [s EXCEPT !.fails = tried]
    <2>1. tried \in Nat /\ tried <= s.fails + 1
      BY <1>1
    <2>2. CASE tried > s.cfg.maxRetries
      <3>1. Failed(s, r.verdict) = broke
        BY <2>2 DEF Failed
      <3>2. /\ broke \in Site /\ broke.cfg = s.cfg
            /\ broke.fails = s.cfg.maxRetries + 1
        <4>1. s.cfg.maxRetries + 1 \in Nat
          BY <1>1
        <4> DEFINE n == s.cfg.maxRetries + 1
        <4> HIDE DEF n
        <4>2. ASSUME n \in Nat
              PROVE  LET e == [s EXCEPT !.status = r.verdict, !.fails = n]
                     IN  e \in Site /\ e.cfg = s.cfg /\ e.fails = n
          BY <1>2, <4>2 DEF Site
        <4>3. QED BY <4>1, <4>2 DEF n
      <3>3. s.cfg.maxRetries + 1 <= s.fails + 1
        BY <1>1, <2>2
      <3> HIDE DEF broke
      <3>4. QED BY <1>1, <3>1, <3>2, <3>3
    <2>3. CASE ~(tried > s.cfg.maxRetries)
      <3>1. Failed(s, r.verdict) = retry
        BY <2>3 DEF Failed
      <3>2. /\ retry \in Site /\ retry.cfg = s.cfg
            /\ retry.fails = tried /\ retry.status = s.status
        BY <1>1, <2>1 DEF Site
      <3>3. tried <= s.cfg.maxRetries + 1
        BY <1>1, <2>1, <2>3
      <3> HIDE DEF retry
      <3>4. QED BY <2>1, <3>1, <3>2, <3>3
    <2>4. QED BY <2>2, <2>3
  <1>6. ASSUME NEW e \in Site
        PROVE  LET f == [e EXCEPT !.lastCheck = r.at, !.cert = r.cert,
                                  !.warned = WarnedAfter(s, r)]
               IN  f \in Site /\ f.cfg = e.cfg /\ f.fails = e.fails
                   /\ f.status = e.status
    BY <1>2, <1>3 DEF Site
  <1>7. CASE r.verdict = "UP"
    BY <1>4, <1>6, <1>7 DEF FoldCheck
  <1>8. CASE r.verdict # "UP"
    BY <1>5, <1>6, <1>8 DEF FoldCheck
  <1>9. QED BY <1>7, <1>8

\* A heartbeat leaves a well-formed entry that is UP with no failures.
LEMMA FoldBeatType ==
  ASSUME NEW s \in Site, NEW t \in Nat
  PROVE  /\ FoldBeat(s, t) \in Site /\ FoldBeat(s, t).cfg = s.cfg
         /\ FoldBeat(s, t).fails = 0 /\ FoldBeat(s, t).status = "UP"
  BY DEF FoldBeat, Site, Status

LEMMA PageForType ==
  ASSUME NEW p, NEW n, NEW m \in BOOLEAN PROVE PageFor(p, n, m) \in Pages
  BY DEF PageFor, Pages

LEMMA BeatPageType == \A st : BeatPage(st) \in Pages
  BY DEF BeatPage, Pages

LEMMA WorstType == \A g : Worst(g) \in Status
  BY DEF Worst, Status

LEMMA SeedStatusType == \A s : SeedStatus(s) \in Status
  BY DEF SeedStatus, Status

LEMMA PushVerdictType == \A j : PushVerdict(j) \in Status
  BY DEF PushVerdict, Status

LEMMA NoJobType == NoJob \in Job
  BY DEF NoJob, Job, Result, Status, Cert, Never

LEMMA NoEffectType == NoEffect \in Effect
  BY DEF NoEffect, Effect, Status, Pages

LEMMA BlankType == /\ Blank \in Site
                   /\ Blank.cfg.maxRetries < RetryCap
                   /\ Blank.fails = 0
  <1> DEFINE c == [typ |-> "http", maxRetries |-> 0, interval |-> 0,
                   paused |-> TRUE, token |-> FALSE, parent |-> NoSite]
  <1>1. c \in Config /\ c.maxRetries = 0
    BY DEF Config
  <1>2. "PENDING" \in Status
    BY DEF Status
  <1>3. Blank = NewSite(c, "PENDING")
    BY DEF Blank
  <1> HIDE DEF c
  <1>4. /\ NewSite(c, "PENDING") \in Site
        /\ NewSite(c, "PENDING").cfg = c
        /\ NewSite(c, "PENDING").fails = 0
    BY <1>1, <1>2, NewSiteType
  <1>5. 0 < RetryCap
    BY RetryBound
  <1>6. QED BY <1>1, <1>3, <1>4, <1>5

-----------------------------------------------------------------------------
(* The type invariant.                                                     *)

\* The parts of TypeOK that the phases of a goroutine change together.
ActorsOK == /\ pc \in [Actors -> Phases]
            /\ job \in [Actors -> Job]
            /\ effect \in [Actors -> Effect]

LiveOK == /\ live \in [Sites -> Site]
          /\ \A s \in Sites : /\ live[s].cfg.maxRetries < RetryCap
                              /\ live[s].fails <= RetryCap

LEMMA JobUpdate ==
  ASSUME ActorsOK, NEW a \in Actors, NEW ph \in Phases, NEW j \in Job,
         pc' = [pc EXCEPT ![a] = ph], job' = [job EXCEPT ![a] = j],
         effect' \in [Actors -> Effect]
  PROVE  ActorsOK'
  BY DEF ActorsOK

LEMMA DoneType ==
  ASSUME ActorsOK, NEW a \in Actors, Done(a), effect' \in [Actors -> Effect]
  PROVE  ActorsOK'
  BY NoJobType DEF ActorsOK, Done, Phases

LEMMA AdvanceType ==
  ASSUME ActorsOK, NEW a \in Actors, NEW ph \in Phases, NEW res \in Result,
         Advance(a, ph, res), UNCHANGED effect
  PROVE  ActorsOK'
  <1>1. [job[a] EXCEPT !.result = res] \in Job
    BY DEF ActorsOK, Job
  <1>2. job' = [job EXCEPT ![a] = [job[a] EXCEPT !.result = res]]
    BY DEF Advance
  <1>3. QED BY <1>1, <1>2, JobUpdate DEF Advance, ActorsOK

\* ToggleSitePause on a configuration.
LEMMA PauseType ==
  ASSUME NEW c \in Config
  PROVE  /\ [c EXCEPT !.paused = ~@] \in Config
         /\ [c EXCEPT !.paused = ~@].maxRetries = c.maxRetries
  <1> DEFINE p == ~c.paused
  <1>1. p \in BOOLEAN
    OBVIOUS
  <1> HIDE DEF p
  <1>2. /\ [c EXCEPT !.paused = p] \in Config
        /\ [c EXCEPT !.paused = p].maxRetries = c.maxRetries
    BY <1>1 DEF Config
  <1>3. QED BY <1>2 DEF p

LEMMA JobFor ==
  ASSUME NEW s \in Sites \cup {NoSite}
  PROVE  [NoJob EXCEPT !.site = s] \in Job
  BY NoJobType DEF Job

\* Replacing one entry.
LEMMA LiveUpdate ==
  ASSUME LiveOK, NEW s \in Sites, NEW e \in Site,
         e.cfg.maxRetries < RetryCap, e.fails <= RetryCap,
         live' = [live EXCEPT ![s] = e]
  PROVE  LiveOK'
  BY DEF LiveOK

LEMMA CopyType ==
  ASSUME LiveOK, NEW s \in Sites
  PROVE  Copy(s) \in Job
  <1>1. CASE live[s].cfg.typ = "push"
    <2>1. /\ live[s] \in Site /\ live[s].cfg \in Config
      BY DEF LiveOK, Site
    <2>2. /\ live[s].status \in Status /\ live[s].cfg.interval \in Nat
          /\ live[s].lastCheck \in Nat /\ live[s].cert \in Cert
      BY <2>1 DEF Site, Config
    <2>3. "PENDING" \in Status
      BY DEF Status
    <2>4. QED BY <1>1, <2>2, <2>3 DEF Copy, Job, Result
  <1>2. CASE live[s].cfg.typ # "push"
    BY <1>2, JobFor DEF Copy
  <1>3. QED BY <1>1, <1>2

LEMMA CountsType ==
  ASSUME NEW a \in Actors, NEW s \in Sites, NEW failed \in BOOLEAN,
         NEW page \in Pages, Counts(a, s, failed, page),
         streak \in [Sites -> 0..RetryCap],
         lastPage \in [Sites -> Pages \cup {"seeded"}],
         drained \in [Actors -> 0..2]
  PROVE  /\ streak' \in [Sites -> 0..RetryCap]
         /\ lastPage' \in [Sites -> Pages \cup {"seeded"}]
         /\ drained' \in [Actors -> 0..2]
  <1>1. RetryCap \in Nat \ {0}
    BY RetryBound
  <1>2. (IF ~failed THEN 0 ELSE IF streak[s] < RetryCap THEN streak[s] + 1
                                ELSE streak[s]) \in 0..RetryCap
    BY <1>1
  <1>3. (IF page = "none" THEN lastPage[s] ELSE page)
          \in Pages \cup {"seeded"}
    OBVIOUS
  <1>4. (IF active \/ drained[a] = 2 THEN drained[a] ELSE drained[a] + 1)
          \in 0..2
    OBVIOUS
  <1>5. QED BY <1>2, <1>3, <1>4 DEF Counts

LEMMA TypeInit == Init => TypeOK
  <1> SUFFICES ASSUME Init PROVE TypeOK
    OBVIOUS
  <1>1. live \in [Sites -> Site]
    BY BlankType DEF Init
  <1>2. \A s \in Sites : /\ live[s].cfg.maxRetries < RetryCap
                         /\ live[s].fails <= RetryCap
    <2> SUFFICES ASSUME NEW s \in Sites
                 PROVE  /\ live[s].cfg.maxRetries < RetryCap
                        /\ live[s].fails <= RetryCap
      OBVIOUS
    <2>1. live[s] = Blank
      BY DEF Init
    <2>2. 0 <= RetryCap
      BY RetryBound
    <2>3. QED BY <2>1, <2>2, BlankType
  <1>3. ActorsOK
    BY NoJobType, NoEffectType DEF Init, ActorsOK, Phases
  <1>4. hist \in [Sites -> {"none", "up", "down"}]
    BY EngineAssumption DEF Init
  <1>5. streak \in [Sites -> 0..RetryCap]
    BY RetryBound DEF Init
  <1>6. QED BY <1>1, <1>2, <1>3, <1>4, <1>5
            DEF Init, TypeOK, ActorsOK, Pages

LEMMA FoldStepType ==
  ASSUME TypeOK, NEW a \in Actors, Fold(a)
  PROVE  TypeOK'
  <1> USE DEF TypeOK
  <1> DEFINE s == job[a].site
             r == job[a].result
             e == FoldCheck(live[s], r)
             page == PageFor(live[s].status, e.status, job[a].inMaint)
             row == LogsChange(live[s].status, e.status)
             warn == WarnsNow(live[s], r) /\ ~job[a].inMaint
             up == r.verdict = "UP"
             failed == r.verdict # "UP"
             eff == [row |-> row, to |-> e.status, page |-> page,
                     warn |-> warn, up |-> up]
  <1>0. ActorsOK /\ LiveOK
    BY DEF ActorsOK, LiveOK
  <1>1. CASE s \notin present \/ IsStale(live[s], r)
    <2>1. ActorsOK'
      BY <1>0, <1>1, DoneType DEF Fold
    <2>2. QED BY <1>1, <2>1 DEF Fold, ActorsOK, ghosts
  <1>2. CASE ~(s \notin present \/ IsStale(live[s], r))
    <2>1. /\ live' = [live EXCEPT ![s] = e]
          /\ pc' = [pc EXCEPT ![a] = "emit"]
          /\ effect' = [effect EXCEPT ![a] = eff]
          /\ job' = [job EXCEPT ![a] = [NoJob EXCEPT !.site = s]]
          /\ Counts(a, s, failed, page)
      BY <1>2 DEF Fold
    <2>2. s \in Sites /\ r \in Result /\ live[s] \in Site
      BY <1>2 DEF Job
    <2>3. /\ e \in Site /\ e.cfg = live[s].cfg
          /\ e.fails <= live[s].cfg.maxRetries + 1
      <3> HIDE DEF s, r, TypeOK
      <3>1. live[s].cfg.maxRetries \in Nat
        BY <2>2 DEF Site, Config
      <3>2. /\ e \in Site /\ e.cfg = live[s].cfg
            /\ e.fails = 0 \/ e.fails <= live[s].cfg.maxRetries + 1
        BY <2>2, FoldCheckType
      <3>3. QED BY <3>1, <3>2
    <2>4. e.fails <= RetryCap /\ e.cfg.maxRetries < RetryCap
      BY <2>2, <2>3, RetryBound DEF Site, Config
    <2>5. e.status \in Status
      BY <2>3 DEF Site
    <2>6. page \in Pages
      BY PageForType DEF Job
    <2>7. row \in BOOLEAN
      BY DEF LogsChange
    <2>8. warn \in BOOLEAN /\ up \in BOOLEAN /\ failed \in BOOLEAN
      <3> HIDE DEF s, r, TypeOK
      <3>1. warn \in BOOLEAN
        OBVIOUS
      <3>2. up \in BOOLEAN
        OBVIOUS
      <3>3. failed \in BOOLEAN
        OBVIOUS
      <3>4. QED BY <3>1, <3>2, <3>3
    <2> HIDE DEF page, row, warn, up, failed, e
    <2>9. eff \in Effect
      BY <2>5, <2>6, <2>7, <2>8 DEF Effect
    <2> HIDE DEF eff, s
    <2>10. LiveOK'
      BY <1>0, <2>1, <2>2, <2>3, <2>4, LiveUpdate
    <2>11. ActorsOK'
      <3>1. "emit" \in Phases /\ effect' \in [Actors -> Effect]
        BY <2>1, <2>9 DEF Phases
      <3>2. QED BY <1>0, <2>1, <2>2, <3>1, JobFor, JobUpdate
    <2>12. /\ streak' \in [Sites -> 0..RetryCap]
           /\ lastPage' \in [Sites -> Pages \cup {"seeded"}]
           /\ drained' \in [Actors -> 0..2]
      BY <2>1, <2>2, <2>6, <2>8, CountsType
    <2>13. UNCHANGED logged
      BY <2>1 DEF Counts
    <2>14. QED BY <2>10, <2>11, <2>12, <2>13 DEF Fold, ActorsOK, LiveOK
  <1>3. QED BY <1>1, <1>2

LEMMA GroupStepType ==
  ASSUME TypeOK, NEW r \in Routines, GroupApply(r)
  PROVE  TypeOK'
  <1> USE DEF TypeOK
  <1> DEFINE s == job[r].site
             st == job[r].result.verdict
             row == s \notin present \/ LogsChange(live[s].status, st)
             up == ~IsBroken(st)
             eff == [row |-> row, to |-> st, page |-> "none",
                     warn |-> FALSE, up |-> up]
             e == [live[s] EXCEPT !.status = st]
  <1>0. ActorsOK /\ LiveOK /\ r \in Actors
    BY DEF ActorsOK, LiveOK, Actors
  <1>1. s \in Sites \cup {NoSite} /\ st \in Status
    BY <1>0 DEF Job, Result
  <1>2. row \in BOOLEAN /\ up \in BOOLEAN /\ "none" \in Pages
    <2> HIDE DEF s, st, TypeOK
    <2>1. row \in BOOLEAN
      OBVIOUS
    <2>2. up \in BOOLEAN
      BY DEF IsBroken
    <2>3. QED BY <2>1, <2>2 DEF Pages
  <1> HIDE DEF row, up
  <1>3. eff \in Effect
    BY <1>1, <1>2 DEF Effect
  <1>4. effect' = [effect EXCEPT ![r] = eff]
    BY DEF GroupApply, row, up
  <1> HIDE DEF eff
  <1>5. "emit" \in Phases /\ effect' \in [Actors -> Effect]
    BY <1>0, <1>3, <1>4 DEF Phases
  <1>6. ActorsOK'
    BY <1>0, <1>1, <1>3, <1>4, <1>5, JobFor, JobUpdate DEF GroupApply
  <1>7. LiveOK'
    <2>1. CASE s \in present
      <3>1. s \in Sites /\ live[s] \in Site
        BY <2>1
      <3>2. e \in Site /\ e.cfg = live[s].cfg /\ e.fails = live[s].fails
        BY <1>1, <3>1 DEF Site
      <3>3. live' = [live EXCEPT ![s] = e]
        BY <2>1 DEF GroupApply
      <3> HIDE DEF e
      <3>4. e.cfg.maxRetries < RetryCap /\ e.fails <= RetryCap
        BY <3>1, <3>2
      <3>5. QED BY <1>0, <3>1, <3>2, <3>3, <3>4, LiveUpdate
    <2>2. CASE s \notin present
      BY <1>0, <2>2 DEF GroupApply, LiveOK
    <2>3. QED BY <2>1, <2>2
  <1>8. drained' \in [Actors -> 0..2]
    BY <1>0 DEF GroupApply
  <1>9. QED BY <1>6, <1>7, <1>8 DEF GroupApply, ActorsOK, LiveOK

LEMMA BeatStepType ==
  ASSUME TypeOK, NEW h \in Handlers, BeatApply(h)
  PROVE  TypeOK'
  <1> USE DEF TypeOK
  <1> DEFINE s == job[h].site
             e == FoldBeat(live[s], now)
             page == BeatPage(live[s].status)
             row == LogsChange(live[s].status, "UP")
             eff == [row |-> row, to |-> "UP", page |-> page,
                     warn |-> FALSE, up |-> TRUE]
  <1>0. ActorsOK /\ LiveOK /\ h \in Actors
    BY DEF ActorsOK, LiveOK, Actors
  <1>1. CASE s \notin present
    <2>1. ActorsOK'
      BY <1>0, <1>1, DoneType DEF BeatApply
    <2>2. QED BY <1>1, <2>1 DEF BeatApply, ActorsOK, ghosts
  <1>2. CASE s \in present
    <2>1. /\ live' = [live EXCEPT ![s] = e]
          /\ pc' = [pc EXCEPT ![h] = "emit"]
          /\ effect' = [effect EXCEPT ![h] = eff]
          /\ Counts(h, s, FALSE, page)
          /\ UNCHANGED job
      BY <1>2 DEF BeatApply
    <2>2. s \in Sites /\ live[s] \in Site
      BY <1>2
    <2>3. e \in Site /\ e.cfg = live[s].cfg /\ e.fails = 0
      BY <2>2, FoldBeatType
    <2>4. row \in BOOLEAN /\ page \in Pages /\ "UP" \in Status
      BY BeatPageType DEF LogsChange, Status
    <2> HIDE DEF row, page, e
    <2>5. eff \in Effect
      BY <2>4 DEF Effect
    <2> HIDE DEF eff
    <2>6. e.cfg.maxRetries < RetryCap /\ e.fails <= RetryCap
      BY <2>2, <2>3, RetryBound
    <2>7. LiveOK'
      BY <1>0, <2>1, <2>2, <2>3, <2>6, LiveUpdate
    <2>8. ActorsOK'
      BY <1>0, <2>1, <2>5 DEF ActorsOK, Phases
    <2>9. /\ streak' \in [Sites -> 0..RetryCap]
          /\ lastPage' \in [Sites -> Pages \cup {"seeded"}]
          /\ drained' \in [Actors -> 0..2]
          /\ UNCHANGED logged
      BY <1>0, <2>1, <2>2, <2>4, CountsType DEF Counts
    <2>10. QED BY <2>7, <2>8, <2>9 DEF BeatApply, ActorsOK, LiveOK
  <1>3. QED BY <1>1, <1>2

\* One step per action.
LEMMA TypeStep ==
  ASSUME TypeOK, [Next]_vars
  PROVE  TypeOK'
  <1> USE DEF TypeOK
  <1>0. ActorsOK /\ LiveOK
    BY DEF ActorsOK, LiveOK
  <1>1. CASE Tick
    BY <1>1 DEF Tick, siteVars, actorVars, ghosts
  <1>2. ASSUME NEW b \in BOOLEAN, SetActive(b) PROVE TypeOK'
    BY <1>2 DEF SetActive, siteVars, actorVars
  <1>3. ASSUME NEW s \in Sites, NEW c \in Configs[s], UpdateSiteConfig(s, c)
        PROVE  TypeOK'
    <2>1. c \in Config /\ c.maxRetries < RetryCap
      BY ConfigType, RetryBound
    <2>2. live' = [live EXCEPT ![s] = [live[s] EXCEPT !.cfg = c]]
      BY <1>3 DEF UpdateSiteConfig
    <2>3. LET e == [live[s] EXCEPT !.cfg = c]
          IN  e \in Site /\ e.cfg = c /\ e.fails = live[s].fails
      BY <1>0, <2>1 DEF LiveOK, Site
    <2>4. LiveOK'
      BY <1>0, <2>1, <2>2, <2>3, LiveUpdate DEF LiveOK
    <2>5. tokenIndex' \in SUBSET Sites
      BY <1>3 DEF UpdateSiteConfig, Indexed
    <2>6. QED BY <1>3, <2>4, <2>5 DEF UpdateSiteConfig, LiveOK, actorVars, ghosts
  <1>4. ASSUME NEW s \in Sites, NEW c \in Configs[s], NEW r \in Routines,
               AddSite(s, c, r)
        PROVE  TypeOK'
    <2>1. c \in Config /\ c.maxRetries < RetryCap
      BY ConfigType, RetryBound
    <2>2. /\ NewSite(c, SeedStatus(s)) \in Site
          /\ NewSite(c, SeedStatus(s)).cfg = c
          /\ NewSite(c, SeedStatus(s)).fails = 0
      BY <2>1, NewSiteType, SeedStatusType
    <2>3. 0 <= RetryCap
      BY RetryBound
    <2>4. LiveOK'
      BY <1>0, <1>4, <2>1, <2>2, <2>3, LiveUpdate DEF AddSite
    <2>5. tokenIndex' \in SUBSET Sites
      BY <1>4 DEF AddSite
    <2>6. lastPage' \in [Sites -> Pages \cup {"seeded"}]
      BY <1>4 DEF AddSite, Pages
    <2>7. QED BY <1>4, <2>4, <2>5, <2>6 DEF AddSite, LiveOK
  <1>5. ASSUME NEW s \in Sites, ToggleSitePause(s) PROVE TypeOK'
    <2> DEFINE c == [live[s].cfg EXCEPT !.paused = ~@]
               e == [live[s] EXCEPT !.cfg = c]
    <2>1. live' = [live EXCEPT ![s] = e]
      BY <1>5 DEF ToggleSitePause
    <2>a. live[s].cfg \in Config
      BY DEF Site
    <2>2. c \in Config /\ c.maxRetries = live[s].cfg.maxRetries
      BY <2>a, PauseType
    <2> HIDE DEF c
    <2>3. e \in Site /\ e.cfg = c /\ e.fails = live[s].fails
      BY <2>2 DEF Site
    <2>4. LiveOK'
      BY <1>0, <2>1, <2>2, <2>3, LiveUpdate DEF LiveOK
    <2>5. QED BY <1>5, <2>4 DEF ToggleSitePause, LiveOK, actorVars, ghosts
  <1>6. ASSUME NEW s \in Sites, RemoveSite(s) PROVE TypeOK'
    <2>1. 0 <= RetryCap /\ RetryCap \in Nat
      BY RetryBound
    <2>2. LiveOK'
      BY <1>0, <1>6, <2>1, BlankType, LiveUpdate DEF RemoveSite
    <2>3. streak' \in [Sites -> 0..RetryCap]
      BY <1>6, <2>1 DEF RemoveSite
    <2>4. QED BY <1>6, <2>2, <2>3 DEF RemoveSite, LiveOK, actorVars
  <1>7. ASSUME NEW w \in Windows, RefreshMaintenance(w) PROVE TypeOK'
    BY <1>7 DEF RefreshMaintenance, Covered, siteVars, actorVars, ghosts
  <1>8. ASSUME NEW r \in Routines, CheckStart(r) PROVE TypeOK'
    <2>1. owner[r] \in Sites
      BY <1>8 DEF CheckStart
    <2>2. CheckPhase(live[owner[r]].cfg.typ) \in Phases
      BY DEF CheckPhase, Phases
    <2>3. ActorsOK'
      BY <1>0, <1>8, <2>1, <2>2, CopyType, JobUpdate DEF CheckStart, Actors
    <2>4. QED BY <1>8, <2>3 DEF CheckStart, ActorsOK, siteVars, ghosts
  <1>9. ASSUME NEW r \in Routines, RoutineExit(r) PROVE TypeOK'
    BY <1>9 DEF RoutineExit, siteVars, ghosts
  <1>10. ASSUME NEW r \in Routines, NEW out \in Results, ProbeReturns(r, out)
         PROVE  TypeOK'
    <2> DEFINE res == [verdict |-> out.verdict, at |-> now, cert |-> out.cert]
    <2>1. out \in [verdict: {"UP", "DOWN", "SSL EXP"}, cert: Cert]
      BY EngineAssumption
    <2>2. res \in Result
      BY <2>1 DEF Result, Status
    <2>3. "gate" \in Phases
      BY DEF Phases
    <2>4. ActorsOK'
      BY <1>0, <1>10, <2>2, <2>3, AdvanceType DEF ProbeReturns, Actors
    <2>5. QED BY <1>10, <2>4 DEF ProbeReturns, ActorsOK, siteVars, ghosts
  <1>11. ASSUME NEW r \in Routines, CheckPush(r) PROVE TypeOK'
    <2> DEFINE res == [job[r].result EXCEPT !.verdict = PushVerdict(job[r])]
    <2>1. res \in Result
      BY PushVerdictType DEF Actors, Job, Result
    <2>2. "gate" \in Phases
      BY DEF Phases
    <2>3. ActorsOK'
      BY <1>0, <1>11, <2>1, <2>2, AdvanceType, DoneType DEF CheckPush, Actors
    <2>4. QED BY <1>11, <2>3 DEF CheckPush, ActorsOK, siteVars, ghosts
  <1>12. ASSUME NEW r \in Routines, RollUp(r) PROVE TypeOK'
    <2> DEFINE res == [job[r].result EXCEPT !.verdict = Worst(job[r].site)]
    <2>1. res \in Result
      BY WorstType DEF Actors, Job, Result
    <2>2. "rollup" \in Phases
      BY DEF Phases
    <2>3. ActorsOK'
      BY <1>0, <1>12, <2>1, <2>2, AdvanceType DEF RollUp, Actors
    <2>4. QED BY <1>12, <2>3 DEF RollUp, ActorsOK, siteVars, ghosts
  <1>13. ASSUME NEW a \in Actors, Gate(a) PROVE TypeOK'
    <2> DEFINE m == job[a].site \in maint
               j == [job[a] EXCEPT !.inMaint = m]
    <2>1. m \in BOOLEAN
      OBVIOUS
    <2> HIDE DEF m
    <2>2. j \in Job
      BY <2>1 DEF Job
    <2>3. active => job' = [job EXCEPT ![a] = j]
      BY <1>13 DEF Gate, m
    <2> HIDE DEF j
    <2>4. "fold" \in Phases
      BY DEF Phases
    <2>5. ActorsOK'
      BY <1>0, <1>13, <2>2, <2>3, <2>4, JobUpdate, DoneType DEF Gate
    <2>6. QED BY <1>13, <2>5 DEF Gate, ActorsOK, siteVars, ghosts
  <1>14. ASSUME NEW a \in Actors, Fold(a) PROVE TypeOK'
    BY <1>14, FoldStepType
  <1>15. ASSUME NEW a \in Actors, Emit(a) PROVE TypeOK'
    <2>1. effect' \in [Actors -> Effect]
      BY <1>15, NoEffectType DEF Emit
    <2>2. ActorsOK'
      BY <1>0, <1>15, <2>1, DoneType DEF Emit
    <2>3. hist' \in [Sites -> {"none", "up", "down"}]
      BY <1>15 DEF Emit
    <2>4. effect[a].to \in Status
      BY DEF Effect
    <2>5. logged' \in [Sites -> Status \cup {"none"}]
      BY <1>15, <2>4 DEF Emit
    <2>6. QED BY <1>15, <2>2, <2>3, <2>5 DEF Emit, ActorsOK, siteVars
  <1>16. ASSUME NEW r \in Routines, GroupApply(r) PROVE TypeOK'
    BY <1>16, GroupStepType
  <1>17. ASSUME NEW h \in Handlers, NEW s \in Sites, BeatStart(h, s)
         PROVE  TypeOK'
    <2>1. "beat" \in Phases
      BY DEF Phases
    <2>2. ActorsOK'
      BY <1>0, <1>17, <2>1, JobFor, JobUpdate DEF BeatStart, Actors
    <2>3. QED BY <1>17, <2>2 DEF BeatStart, ActorsOK, siteVars, ghosts
  <1>18. ASSUME NEW h \in Handlers, BeatApply(h) PROVE TypeOK'
    BY <1>18, BeatStepType
  <1>19. ASSUME NEW h \in Handlers, NEW s \in Sites, NEW up \in BOOLEAN,
                ProbeReport(h, s, up)
         PROVE  TypeOK'
    <2> DEFINE v == IF up THEN "UP" ELSE "DOWN"
               res == [verdict |-> v, at |-> now, cert |-> live[s].cert]
               j == [NoJob EXCEPT !.site = s, !.result = res]
    <2>1. v \in Status
      BY DEF Status
    <2>2. job' = [job EXCEPT ![h] = j]
      BY <1>19 DEF ProbeReport
    <2> HIDE DEF v
    <2>3. res \in Result
      BY <2>1 DEF Result, Site
    <2> HIDE DEF res
    <2>4. j \in Job
      BY <2>3, NoJobType DEF Job
    <2> HIDE DEF j
    <2>5. "gate" \in Phases
      BY DEF Phases
    <2>6. ActorsOK'
      BY <1>0, <1>19, <2>2, <2>4, <2>5, JobUpdate DEF ProbeReport, Actors
    <2>7. QED BY <1>19, <2>6 DEF ProbeReport, ActorsOK, siteVars, ghosts
  <1>20. CASE UNCHANGED vars
    BY <1>20 DEF vars, siteVars, actorVars, ghosts
  <1>21. ASSUME NEW a \in Actors, Step(a) PROVE TypeOK'
    BY <1>13, <1>14, <1>15, <1>21 DEF Step
  <1>22. ASSUME NEW r \in Routines, RoutineStep(r) PROVE TypeOK'
    BY <1>8, <1>9, <1>10, <1>11, <1>12, <1>16, <1>21, <1>22
       DEF RoutineStep, Actors
  <1>23. ASSUME NEW h \in Handlers, HandlerStep(h) PROVE TypeOK'
    BY <1>18, <1>21, <1>23 DEF HandlerStep, Actors
  <1> HIDE DEF TypeOK
  <1>24. QED
    BY <1>1, <1>2, <1>3, <1>4, <1>5, <1>6, <1>7, <1>17, <1>19, <1>20, <1>22,
       <1>23 DEF Next

\* Every state the engine reaches is well formed, for every number of
\* monitors and goroutines; FailureCount in particular stays within bounds.
THEOREM TypeCorrect == Spec => []TypeOK
  <1>1. Init => TypeOK
    BY TypeInit
  <1>2. TypeOK /\ [Next]_vars => TypeOK'
    BY TypeStep
  <1>3. QED BY <1>1, <1>2, PTL DEF Spec

-----------------------------------------------------------------------------
(* What a step does.                                                       *)

\* A check result that is neither stale nor of a removed monitor.
LEMMA FoldFacts ==
  ASSUME TypeOK, NEW a \in Actors, Fold(a), job[a].site \in present,
         ~IsStale(live[job[a].site], job[a].result)
  PROVE  LET s == job[a].site  r == job[a].result
             e == FoldCheck(live[s], r)
             page == PageFor(live[s].status, e.status, job[a].inMaint)
         IN  /\ s \in Sites /\ r \in Result /\ live[s] \in Site
             /\ live' = [live EXCEPT ![s] = e]
             /\ pc' = [pc EXCEPT ![a] = "emit"]
             /\ effect'[a].page = page
             /\ Counts(a, s, r.verdict # "UP", page)
  <1>1. job[a].site \in Sites /\ job[a].result \in Result
    BY DEF TypeOK, Job
  <1>2. live[job[a].site] \in Site /\ effect \in [Actors -> Effect]
    BY <1>1 DEF TypeOK
  <1>3. QED BY <1>1, <1>2 DEF Fold

\* A result that is dropped changes nothing but the goroutine's phase.
LEMMA FoldDropped ==
  ASSUME NEW a \in Actors, Fold(a),
         ~(job[a].site \in present
             /\ ~IsStale(live[job[a].site], job[a].result))
  PROVE  /\ pc' = [pc EXCEPT ![a] = "idle"]
         /\ UNCHANGED <<live, effect, streak, lastPage, logged, drained>>
  BY DEF Fold, Done, ghosts

\* A heartbeat of a monitor that is still there.
LEMMA BeatFacts ==
  ASSUME TypeOK, NEW h \in Handlers, BeatApply(h), job[h].site \in present
  PROVE  LET s == job[h].site
             e == FoldBeat(live[s], now)
             page == BeatPage(live[s].status)
         IN  /\ s \in Sites /\ live[s] \in Site
             /\ live' = [live EXCEPT ![s] = e]
             /\ e \in Site /\ e.cfg = live[s].cfg
             /\ e.fails = 0 /\ e.status = "UP"
             /\ pc' = [pc EXCEPT ![h] = "emit"]
             /\ effect'[h].page = page
             /\ Counts(h, s, FALSE, page)
  <1>1. /\ job[h].site \in Sites /\ now \in Nat
        /\ effect \in [Actors -> Effect] /\ h \in Actors
    BY DEF TypeOK, Actors
  <1>2. live[job[h].site] \in Site
    BY <1>1 DEF TypeOK
  <1> DEFINE e == FoldBeat(live[job[h].site], now)
  <1>3. /\ e \in Site /\ e.cfg = live[job[h].site].cfg
        /\ e.fails = 0 /\ e.status = "UP"
    BY <1>1, <1>2, FoldBeatType
  <1>4. /\ live' = [live EXCEPT ![job[h].site] = e]
        /\ pc' = [pc EXCEPT ![h] = "emit"]
        /\ Counts(h, job[h].site, FALSE, BeatPage(live[job[h].site].status))
    BY <1>1 DEF BeatApply
  <1>5. effect'[h].page = BeatPage(live[job[h].site].status)
    <2> DEFINE eff == [row |-> LogsChange(live[job[h].site].status, "UP"),
                       to |-> "UP", page |-> BeatPage(live[job[h].site].status),
                       warn |-> FALSE, up |-> TRUE]
    <2>1. effect' = [effect EXCEPT ![h] = eff]
      BY DEF BeatApply
    <2>2. eff.page = BeatPage(live[job[h].site].status)
      OBVIOUS
    <2> HIDE DEF eff
    <2>3. QED BY <1>1, <2>1, <2>2
  <1> HIDE DEF e
  <1>6. QED BY <1>1, <1>2, <1>3, <1>4, <1>5 DEF e

LEMMA BeatDropped ==
  ASSUME NEW h \in Handlers, BeatApply(h), job[h].site \notin present
  PROVE  /\ pc' = [pc EXCEPT ![h] = "idle"]
         /\ UNCHANGED <<live, effect, streak, lastPage, logged, drained>>
  BY DEF BeatApply, Done, ghosts

\* Roll-ups write the status of one entry and nothing else in it.
LEMMA GroupFacts ==
  ASSUME TypeOK, NEW r \in Routines, GroupApply(r)
  PROVE  \A s \in Sites :
           /\ live'[s] \in Site
           /\ live'[s].cfg = live[s].cfg
           /\ live'[s].fails = live[s].fails
  <1> SUFFICES ASSUME NEW s \in Sites
               PROVE  /\ live'[s] \in Site
                      /\ live'[s].cfg = live[s].cfg
                      /\ live'[s].fails = live[s].fails
    OBVIOUS
  <1> DEFINE g == job[r].site
             st == job[r].result.verdict
  <1>1. live[s] \in Site /\ st \in Status /\ live \in [Sites -> Site]
    BY DEF TypeOK, Job, Result, Actors
  <1>2. live' = live \/ live' = [live EXCEPT ![g].status = st]
    BY DEF GroupApply
  <1> HIDE DEF g, st
  <1>3. LET e == [live[s] EXCEPT !.status = st]
        IN  e \in Site /\ e.cfg = live[s].cfg /\ e.fails = live[s].fails
    BY <1>1 DEF Site
  <1>4. live'[s] = live[s] \/ live'[s] = [live[s] EXCEPT !.status = st]
    BY <1>1, <1>2
  <1>5. QED BY <1>1, <1>3, <1>4

\* The actions that leave the entries, their keys and the alerts alone.
Bystander ==
  \/ Tick
  \/ \E b \in BOOLEAN : SetActive(b)
  \/ \E w \in Windows : RefreshMaintenance(w)
  \/ \E r \in Routines :
       \/ CheckStart(r) \/ RoutineExit(r) \/ CheckPush(r) \/ RollUp(r)
       \/ \E out \in Results : ProbeReturns(r, out)
  \/ \E a \in Actors : Gate(a) \/ Emit(a)
  \/ \E h \in Handlers, s \in Sites :
       BeatStart(h, s) \/ \E up \in BOOLEAN : ProbeReport(h, s, up)
  \/ UNCHANGED vars

LEMMA BystanderFacts ==
  Bystander => UNCHANGED <<siteVars, streak, lastPage>>
  BY DEF Bystander, Tick, SetActive, RefreshMaintenance, CheckStart,
         RoutineExit, CheckPush, RollUp, ProbeReturns, Gate, Emit, BeatStart,
         ProbeReport, vars, siteVars, ghosts

\* Every step is one of these.
LEMMA StepCases ==
  ASSUME [Next]_vars
  PROVE  \/ Bystander
         \/ \E s \in Sites : \E c \in Configs[s] : UpdateSiteConfig(s, c)
         \/ \E s \in Sites : \E c \in Configs[s], r \in Routines :
              AddSite(s, c, r)
         \/ \E s \in Sites : ToggleSitePause(s)
         \/ \E s \in Sites : RemoveSite(s)
         \/ \E a \in Actors : Fold(a)
         \/ \E r \in Routines : GroupApply(r)
         \/ \E h \in Handlers : BeatApply(h)
  BY DEF Next, Bystander, RoutineStep, HandlerStep, Step, Actors

-----------------------------------------------------------------------------
(* The push tokens.                                                        *)

\* Neither the keys nor the configurations change.
LEMMA TokensKept ==
  ASSUME TokenIndexExact, UNCHANGED <<present, tokenIndex>>,
         \A s \in present : HasToken(live'[s].cfg) = HasToken(live[s].cfg)
  PROVE  TokenIndexExact'
  BY DEF TokenIndexExact

LEMMA TokenStep ==
  ASSUME TypeOK, TokenIndexExact, [Next]_vars
  PROVE  TokenIndexExact'
  <1>0. present \subseteq Sites /\ live \in [Sites -> Site]
    BY DEF TypeOK
  <1>1. CASE Bystander
    BY <1>1, BystanderFacts DEF TokenIndexExact, siteVars
  <1>2. ASSUME NEW s \in Sites, NEW c \in Configs[s], UpdateSiteConfig(s, c)
        PROVE  TokenIndexExact'
    <2>1. \A t \in present :
            live'[t].cfg = IF t = s THEN c ELSE live[t].cfg
      <3>1. live' = [live EXCEPT ![s] = [live[s] EXCEPT !.cfg = c]]
        BY <1>2 DEF UpdateSiteConfig
      <3>2. [live[s] EXCEPT !.cfg = c].cfg = c
        BY <1>0 DEF Site
      <3>3. QED BY <1>0, <3>1, <3>2
    <2>2. QED BY <1>2, <2>1 DEF UpdateSiteConfig, Indexed, TokenIndexExact
  <1>3. ASSUME NEW s \in Sites, NEW c \in Configs[s], NEW r \in Routines,
               AddSite(s, c, r)
        PROVE  TokenIndexExact'
    <2>1. NewSite(c, SeedStatus(s)).cfg = c
      BY DEF NewSite
    <2>2. \A t \in present \cup {s} :
            live'[t].cfg = IF t = s THEN c ELSE live[t].cfg
      BY <1>0, <1>3, <2>1 DEF AddSite
    <2>3. s \notin tokenIndex
      BY <1>3 DEF AddSite, TokenIndexExact
    <2>4. QED BY <1>3, <2>2, <2>3 DEF AddSite, TokenIndexExact
  <1>4. ASSUME NEW s \in Sites, ToggleSitePause(s) PROVE TokenIndexExact'
    <2> DEFINE c == [live[s].cfg EXCEPT !.paused = ~@]
    <2>1. live' = [live EXCEPT ![s] = [live[s] EXCEPT !.cfg = c]]
      BY <1>4 DEF ToggleSitePause
    <2>2. live[s] \in Site /\ live[s].cfg \in Config
      BY <1>0 DEF Site
    <2>3. HasToken(c) = HasToken(live[s].cfg)
      BY <2>2 DEF HasToken, Config
    <2> HIDE DEF c
    <2>4. [live[s] EXCEPT !.cfg = c].cfg = c
      BY <2>2 DEF Site
    <2>5. \A t \in present : HasToken(live'[t].cfg) = HasToken(live[t].cfg)
      BY <1>0, <2>1, <2>3, <2>4
    <2>6. QED BY <1>4, <2>5, TokensKept DEF ToggleSitePause
  <1>5. ASSUME NEW s \in Sites, RemoveSite(s) PROVE TokenIndexExact'
    BY <1>0, <1>5 DEF RemoveSite, TokenIndexExact
  <1>6. ASSUME NEW a \in Actors, Fold(a) PROVE TokenIndexExact'
    <2>1. UNCHANGED <<present, tokenIndex>>
      BY <1>6 DEF Fold
    <2>2. \A t \in present : live'[t].cfg = live[t].cfg
      BY <1>0, <1>6, FoldFacts, FoldDropped, FoldCheckType
    <2>3. QED BY <2>1, <2>2, TokensKept
  <1>7. ASSUME NEW r \in Routines, GroupApply(r) PROVE TokenIndexExact'
    <2>1. UNCHANGED <<present, tokenIndex>>
      BY <1>7 DEF GroupApply
    <2>2. QED BY <1>0, <1>7, <2>1, GroupFacts, TokensKept
  <1>8. ASSUME NEW h \in Handlers, BeatApply(h) PROVE TokenIndexExact'
    <2>1. UNCHANGED <<present, tokenIndex>>
      BY <1>8 DEF BeatApply
    <2>2. \A t \in present : live'[t].cfg = live[t].cfg
      BY <1>0, <1>8, BeatFacts, BeatDropped
    <2>3. QED BY <2>1, <2>2, TokensKept
  <1>9. QED BY <1>1, <1>2, <1>3, <1>4, <1>5, <1>6, <1>7, <1>8, StepCases

\* However monitors are added, edited, paused and removed while heartbeats
\* arrive, the token index leads to exactly the live push monitors that own
\* a token (addToTokenIndex, removeFromTokenIndex).
THEOREM TokensExact == Spec => []TokenIndexExact
  <1>1. Init => TokenIndexExact
    BY DEF Init, TokenIndexExact
  <1>2. TypeOK /\ TokenIndexExact /\ [Next]_vars => TokenIndexExact'
    BY TokenStep
  <1>3. QED BY <1>1, <1>2, TypeCorrect, PTL DEF Spec

-----------------------------------------------------------------------------
(* The retry counter.                                                      *)

LEMMA HonestStep ==
  ASSUME TypeOK, FailuresHonest, [Next]_vars
  PROVE  FailuresHonest'
  <1>0. /\ live \in [Sites -> Site] /\ streak \in [Sites -> 0..RetryCap]
        /\ \A s \in Sites : live[s].cfg.maxRetries < RetryCap
    BY DEF TypeOK
  <1>1. CASE Bystander
    BY <1>1, BystanderFacts DEF FailuresHonest, siteVars
  <1>2. ASSUME NEW s \in Sites, NEW c \in Configs[s], UpdateSiteConfig(s, c)
        PROVE  FailuresHonest'
    <2>1. live' = [live EXCEPT ![s] = [live[s] EXCEPT !.cfg = c]]
      BY <1>2 DEF UpdateSiteConfig
    <2>2. [live[s] EXCEPT !.cfg = c].fails = live[s].fails
      BY <1>0 DEF Site
    <2>3. QED BY <1>0, <1>2, <2>1, <2>2
              DEF UpdateSiteConfig, FailuresHonest, ghosts
  <1>3. ASSUME NEW s \in Sites, NEW c \in Configs[s], NEW r \in Routines,
               AddSite(s, c, r)
        PROVE  FailuresHonest'
    <2>1. NewSite(c, SeedStatus(s)).fails = 0
      BY DEF NewSite
    <2>2. QED BY <1>0, <1>3, <2>1 DEF AddSite, FailuresHonest
  <1>4. ASSUME NEW s \in Sites, ToggleSitePause(s) PROVE FailuresHonest'
    <2> DEFINE c == [live[s].cfg EXCEPT !.paused = ~@]
    <2>1. live' = [live EXCEPT ![s] = [live[s] EXCEPT !.cfg = c]]
      BY <1>4 DEF ToggleSitePause
    <2> HIDE DEF c
    <2>2. [live[s] EXCEPT !.cfg = c].fails = live[s].fails
      BY <1>0 DEF Site
    <2>3. QED BY <1>0, <1>4, <2>1, <2>2
              DEF ToggleSitePause, FailuresHonest, ghosts
  <1>5. ASSUME NEW s \in Sites, RemoveSite(s) PROVE FailuresHonest'
    <2>1. Blank.fails = 0
      BY BlankType
    <2>2. QED BY <1>0, <1>5, <2>1 DEF RemoveSite, FailuresHonest
  <1>6. ASSUME NEW a \in Actors, Fold(a) PROVE FailuresHonest'
    <2> DEFINE s == job[a].site
               r == job[a].result
               e == FoldCheck(live[s], r)
    <2>1. CASE s \in present /\ ~IsStale(live[s], r)
      <3>1. /\ s \in Sites /\ r \in Result /\ live[s] \in Site
            /\ live' = [live EXCEPT ![s] = e]
            /\ streak' = [streak EXCEPT ![s] =
                            IF ~(r.verdict # "UP") THEN 0
                            ELSE IF streak[s] < RetryCap THEN streak[s] + 1
                            ELSE streak[s]]
        BY <1>6, <2>1, FoldFacts DEF Counts
      <3>2. /\ e \in Site
            /\ r.verdict = "UP" => e.fails = 0
            /\ r.verdict # "UP" => /\ e.fails <= live[s].fails + 1
                                   /\ e.fails <= live[s].cfg.maxRetries + 1
        BY <3>1, FoldCheckType
      <3> HIDE DEF s, r, e
      <3>3. /\ e.fails \in Nat /\ live[s].fails \in Nat
            /\ live[s].cfg.maxRetries \in Nat
        BY <3>1, <3>2 DEF Site, Config
      <3>4. e.fails <= streak'[s]
        <4>1. streak[s] \in 0..RetryCap /\ live[s].fails <= streak[s]
          BY <1>0, <3>1 DEF FailuresHonest
        <4>2. live[s].cfg.maxRetries + 1 <= RetryCap
          BY <1>0, <3>1, <3>3, RetryBound
        <4>3. QED BY <1>0, <3>1, <3>2, <3>3, <4>1, <4>2, RetryBound
      <3>5. QED BY <1>0, <3>1, <3>4 DEF FailuresHonest
    <2>2. CASE ~(s \in present /\ ~IsStale(live[s], r))
      BY <1>6, <2>2, FoldDropped DEF FailuresHonest
    <2>3. QED BY <2>1, <2>2
  <1>7. ASSUME NEW r \in Routines, GroupApply(r) PROVE FailuresHonest'
    <2>1. UNCHANGED streak
      BY <1>7 DEF GroupApply
    <2>2. QED BY <1>7, <2>1, GroupFacts DEF FailuresHonest
  <1>8. ASSUME NEW h \in Handlers, BeatApply(h) PROVE FailuresHonest'
    <2>1. CASE job[h].site \in present
      <3>1. streak' = [streak EXCEPT ![job[h].site] = 0]
        BY <1>8, <2>1, BeatFacts DEF Counts
      <3> DEFINE e == FoldBeat(live[job[h].site], now)
      <3>2. live' = [live EXCEPT ![job[h].site] = e] /\ e.fails = 0
        BY <1>8, <2>1, BeatFacts
      <3> HIDE DEF e
      <3>3. QED BY <1>0, <2>1, <3>1, <3>2 DEF FailuresHonest
    <2>2. CASE job[h].site \notin present
      BY <1>8, <2>2, BeatDropped DEF FailuresHonest
    <2>3. QED BY <2>1, <2>2
  <1>9. QED BY <1>1, <1>2, <1>3, <1>4, <1>5, <1>6, <1>7, <1>8, StepCases

\* FailureCount never claims more failures than were folded in a row.
THEOREM CountsHonest == Spec => []FailuresHonest
  <1>1. Init => FailuresHonest
    <2>1. Blank.fails = 0
      BY BlankType
    <2>2. ASSUME Init, NEW s \in Sites PROVE live[s].fails <= streak[s]
      <3>1. live[s].fails = 0 /\ streak[s] = 0
        BY <2>1, <2>2 DEF Init
      <3>2. QED BY <3>1
    <2>3. QED BY <2>2 DEF FailuresHonest
  <1>2. TypeOK /\ FailuresHonest /\ [Next]_vars => FailuresHonest'
    BY HonestStep
  <1>3. QED BY <1>1, <1>2, TypeCorrect, PTL DEF Spec

\* A fold is a step of handleStatusChange or of RecordHeartbeat.
LEMMA FoldsByActor ==
  ASSUME TypeOK, [Next]_vars, NEW a \in Actors, Folds(a)
  PROVE  Fold(a) \/ (a \in Handlers /\ BeatApply(a))
  <1>0. pc \in [Actors -> Phases] /\ pc[a] \in {"fold", "beat"} /\ pc'[a] = "emit"
    BY DEF TypeOK, Folds
  <1>1. CASE Bystander
    BY <1>0, <1>1
       DEF Bystander, Tick, SetActive, RefreshMaintenance, CheckStart,
           RoutineExit, CheckPush, RollUp, ProbeReturns, Gate, Emit, BeatStart,
           ProbeReport, vars, actorVars, Done, Advance, CheckPhase, Actors
  <1>2. ASSUME NEW s \in Sites, NEW c \in Configs[s], UpdateSiteConfig(s, c)
        PROVE  FALSE
    BY <1>0, <1>2 DEF UpdateSiteConfig, actorVars
  <1>3. ASSUME NEW s \in Sites, NEW c \in Configs[s], NEW r \in Routines,
               AddSite(s, c, r)
        PROVE  FALSE
    BY <1>0, <1>3 DEF AddSite
  <1>4. ASSUME NEW s \in Sites, ToggleSitePause(s) PROVE FALSE
    BY <1>0, <1>4 DEF ToggleSitePause, actorVars
  <1>5. ASSUME NEW s \in Sites, RemoveSite(s) PROVE FALSE
    BY <1>0, <1>5 DEF RemoveSite, actorVars
  <1>6. ASSUME NEW b \in Actors, Fold(b) PROVE Fold(a)
    BY <1>0, <1>6 DEF Fold, Done
  <1>7. ASSUME NEW r \in Routines, GroupApply(r) PROVE FALSE
    BY <1>0, <1>7 DEF GroupApply
  <1>8. ASSUME NEW h \in Handlers, BeatApply(h)
        PROVE  a \in Handlers /\ BeatApply(a)
    BY <1>0, <1>8 DEF BeatApply, Done
  <1>9. QED BY <1>1, <1>2, <1>3, <1>4, <1>5, <1>6, <1>7, <1>8, StepCases

LEMMA RetriesStep ==
  ASSUME TypeOK, FailuresHonest', [Next]_vars, NEW a \in Actors, Folds(a),
         effect'[a].page = "DOWN"
  PROVE  streak'[job[a].site] > live'[job[a].site].cfg.maxRetries
  <1> DEFINE s == job[a].site
             r == job[a].result
             e == FoldCheck(live[s], r)
  <1>0. Folds(a) /\ pc \in [Actors -> Phases]
    BY DEF TypeOK
  <1>1. CASE Fold(a)
    <2>1. s \in present /\ ~IsStale(live[s], r)
      BY <1>0, <1>1, FoldDropped DEF Folds
    <2>2. /\ s \in Sites /\ r \in Result /\ live[s] \in Site
          /\ live' = [live EXCEPT ![s] = e]
          /\ effect'[a].page = PageFor(live[s].status, e.status, job[a].inMaint)
      BY <1>1, <2>1, FoldFacts
    <2>3. ~IsBroken(live[s].status) /\ IsBroken(e.status)
      BY <2>2 DEF PageFor
    <2>4. r.verdict # "UP" /\ e.status # live[s].status
      BY <2>2, <2>3, FoldCheckType DEF IsBroken
    <2>5. /\ e.fails = live[s].cfg.maxRetries + 1
          /\ e.cfg = live[s].cfg
          /\ live[s].cfg.maxRetries \in Nat
      BY <2>2, <2>4, FoldCheckType DEF Site, Config
    <2>6. live'[s] = e
      BY <2>2 DEF TypeOK
    <2> HIDE DEF e, s, r
    <2>7. e.fails <= streak'[s]
      BY <2>2, <2>6 DEF FailuresHonest
    <2>8. TypeOK'
      BY TypeStep
    <2>9. streak'[s] \in Nat
      BY <2>2, <2>8, RetryBound DEF TypeOK
    <2>10. QED BY <2>5, <2>6, <2>7, <2>9 DEF s
  <1>2. CASE a \in Handlers /\ BeatApply(a)
    <2>1. job[a].site \in present
      BY <1>0, <1>2, BeatDropped DEF Folds
    <2>2. effect'[a].page = BeatPage(live[job[a].site].status)
      BY <1>2, <2>1, BeatFacts
    <2>3. QED BY <2>2 DEF BeatPage
  <1>3. QED BY <1>0, <1>1, <1>2, FoldsByActor

\* A DOWN alert is never decided before more than MaxRetries failures in a
\* row were folded, by the configuration in force at that moment.
THEOREM RetriesRespected == Spec => RetriesExhausted
  <1>1. TypeOK /\ FailuresHonest' /\ [Next]_vars
          => [\A a \in Actors : LET s == job[a].site IN
                Folds(a) /\ effect'[a].page = "DOWN"
                  => streak'[s] > live'[s].cfg.maxRetries]_vars
    BY RetriesStep
  <1>2. QED BY <1>1, TypeCorrect, CountsHonest, PTL DEF Spec, RetriesExhausted

-----------------------------------------------------------------------------
(* Stepping down.                                                          *)

\* StepDownDrains made inductive: a goroutine past its IsActive test has
\* folded nothing since the last step-down, and an active engine has nothing
\* to drain.
DrainOK(a) == /\ drained[a] <= 1
              /\ active => drained[a] = 0
              /\ pc[a] \in Cleared => drained[a] = 0

DrainInv == \A a \in Actors : DrainOK(a)

\* A goroutine that is where it was, on an engine that is what it was.
LEMMA DrainKept ==
  ASSUME NEW a \in Actors, DrainOK(a), active' = active,
         pc'[a] = pc[a] \/ pc'[a] \notin Cleared \/ active \/ pc[a] \in Cleared,
         drained'[a] = drained[a]
  PROVE  DrainOK(a)'
  BY DEF DrainOK

\* A goroutine that has just folded.
LEMMA DrainFolded ==
  ASSUME NEW a \in Actors, DrainOK(a), active' = active, pc[a] \in Cleared,
         pc'[a] = "emit",
         drained'[a] = IF active \/ drained[a] = 2 THEN drained[a]
                                                   ELSE drained[a] + 1
  PROVE  DrainOK(a)'
  BY DEF DrainOK, Cleared

LEMMA DrainStep ==
  ASSUME TypeOK, DrainInv, [Next]_vars, NEW a \in Actors
  PROVE  DrainOK(a)'
  <1>0. /\ DrainOK(a) /\ drained \in [Actors -> 0..2]
        /\ pc \in [Actors -> Phases]
    BY DEF TypeOK, DrainInv
  <1>1. CASE Bystander
    <2>1. ASSUME NEW b \in BOOLEAN, SetActive(b) PROVE DrainOK(a)'
      BY <1>0, <2>1 DEF SetActive, DrainOK
    <2>2. ASSUME Tick \/ (\E w \in Windows : RefreshMaintenance(w))
                   \/ UNCHANGED vars
          PROVE  DrainOK(a)'
      <3>1. UNCHANGED <<active, pc, drained>>
        BY <2>2 DEF Tick, RefreshMaintenance, actorVars, ghosts, vars
      <3>2. QED BY <1>0, <3>1, DrainKept
    <2>3. ASSUME NEW r \in Routines,
                 \/ CheckStart(r) \/ RoutineExit(r) \/ CheckPush(r) \/ RollUp(r)
                 \/ \E out \in Results : ProbeReturns(r, out)
          PROVE  DrainOK(a)'
      <3>1. /\ UNCHANGED <<active, drained>>
            /\ pc'[a] = pc[a] \/ pc'[a] \notin Cleared \/ active
                 \/ pc[a] \in Cleared
        BY <1>0, <2>3 DEF CheckStart, RoutineExit, CheckPush, RollUp,
                          ProbeReturns, Done, Advance, Cleared, ghosts
      <3>2. QED BY <1>0, <3>1, DrainKept
    <2>4. ASSUME NEW b \in Actors, Gate(b) \/ Emit(b) PROVE DrainOK(a)'
      <3>1. /\ UNCHANGED <<active, drained>>
            /\ pc'[a] = pc[a] \/ pc'[a] \notin Cleared \/ active
        BY <1>0, <2>4 DEF Gate, Emit, Done, Cleared, ghosts
      <3>2. QED BY <1>0, <3>1, DrainKept
    <2>5. ASSUME NEW h \in Handlers, NEW s \in Sites,
                 BeatStart(h, s) \/ \E up \in BOOLEAN : ProbeReport(h, s, up)
          PROVE  DrainOK(a)'
      <3>1. /\ UNCHANGED <<active, drained>>
            /\ pc'[a] = pc[a] \/ pc'[a] \notin Cleared \/ active
        BY <1>0, <2>5 DEF BeatStart, ProbeReport, Cleared, ghosts
      <3>2. QED BY <1>0, <3>1, DrainKept
    <2>6. QED BY <1>1, <2>1, <2>2, <2>3, <2>4, <2>5 DEF Bystander
  <1>2. ASSUME NEW s \in Sites,
               \/ \E c \in Configs[s] : UpdateSiteConfig(s, c)
               \/ \E c \in Configs[s], r \in Routines : AddSite(s, c, r)
               \/ ToggleSitePause(s)
               \/ RemoveSite(s)
        PROVE  DrainOK(a)'
    <2>1. UNCHANGED <<active, pc, drained>>
      BY <1>2 DEF UpdateSiteConfig, AddSite, ToggleSitePause, RemoveSite,
                  actorVars, ghosts
    <2>2. QED BY <1>0, <2>1, DrainKept
  <1>3. ASSUME NEW b \in Actors, Fold(b) PROVE DrainOK(a)'
    <2>1. active' = active /\ pc[b] \in Cleared
      BY <1>3 DEF Fold, Cleared
    <2>2. CASE job[b].site \in present
                 /\ ~IsStale(live[job[b].site], job[b].result)
      <3>1. /\ pc' = [pc EXCEPT ![b] = "emit"]
            /\ drained' = [drained EXCEPT ![b] =
                 IF active \/ @ = 2 THEN @ ELSE @ + 1]
        BY <1>3, <2>2, FoldFacts DEF Counts
      <3>2. QED BY <1>0, <2>1, <3>1, DrainKept, DrainFolded
    <2>3. CASE ~(job[b].site \in present
                   /\ ~IsStale(live[job[b].site], job[b].result))
      <3>1. pc' = [pc EXCEPT ![b] = "idle"] /\ UNCHANGED drained
        BY <1>3, <2>3, FoldDropped
      <3>2. QED BY <1>0, <2>1, <3>1, DrainKept DEF Cleared
    <2>4. QED BY <2>2, <2>3
  <1>4. ASSUME NEW r \in Routines, GroupApply(r) PROVE DrainOK(a)'
    <2>1. /\ active' = active /\ pc[r] \in Cleared
          /\ pc' = [pc EXCEPT ![r] = "emit"]
          /\ drained' = [drained EXCEPT ![r] =
               IF active \/ @ = 2 THEN @ ELSE @ + 1]
      BY <1>4 DEF GroupApply, Cleared
    <2>2. QED BY <1>0, <2>1, DrainKept, DrainFolded
  <1>5. ASSUME NEW h \in Handlers, BeatApply(h) PROVE DrainOK(a)'
    <2>1. active' = active /\ pc[h] \in Cleared /\ h \in Actors
      BY <1>5 DEF BeatApply, Cleared, Actors
    <2>2. CASE job[h].site \in present
      <3>1. /\ pc' = [pc EXCEPT ![h] = "emit"]
            /\ drained' = [drained EXCEPT ![h] =
                 IF active \/ @ = 2 THEN @ ELSE @ + 1]
        BY <1>5, <2>2, BeatFacts DEF Counts
      <3>2. QED BY <1>0, <2>1, <3>1, DrainKept, DrainFolded
    <2>3. CASE job[h].site \notin present
      <3>1. pc' = [pc EXCEPT ![h] = "idle"] /\ UNCHANGED drained
        BY <1>5, <2>3, BeatDropped
      <3>2. QED BY <1>0, <2>1, <3>1, DrainKept DEF Cleared
    <2>4. QED BY <2>2, <2>3
  <1>6. QED BY <1>1, <1>2, <1>3, <1>4, <1>5, StepCases

\* After SetActive(false) every goroutine folds at most the one result it
\* had carried past its IsActive test.
THEOREM StepDownSafe == Spec => []StepDownDrains
  <1>1. Init => DrainInv
    BY DEF Init, DrainInv, DrainOK, Cleared
  <1>2. TypeOK /\ DrainInv /\ [Next]_vars => DrainInv'
    BY DrainStep DEF DrainInv
  <1>3. DrainInv => StepDownDrains
    BY DEF DrainInv, DrainOK, StepDownDrains
  <1>4. QED BY <1>1, <1>2, <1>3, TypeCorrect, PTL DEF Spec

-----------------------------------------------------------------------------
(* The refinement of Pager.                                                *)

\* A goroutine owes an alert only from its fold until it has sent it.
OwesAlert(a) == effect[a].page # "none"

AlertsInv == \A a \in Actors : OwesAlert(a) => pc[a] = "emit"

\* Nobody decides or sends: what is owed stays owed.
LEMMA AlertsKept ==
  ASSUME AlertsInv, UNCHANGED effect,
         \A a \in Actors : pc[a] = "emit" => pc'[a] = "emit"
                                             /\ job'[a].site = job[a].site
  PROVE  AlertsInv' /\ UNCHANGED Due
  BY DEF AlertsInv, OwesAlert, Due

\* One goroutine moves from e to f; the others keep what they have.
LEMMA AlertsMoved ==
  ASSUME AlertsInv, NEW a \in Actors, OwesAlert(a)' => pc'[a] = "emit",
         \A b \in Actors \ {a} : /\ pc'[b] = pc[b]
                                 /\ job'[b] = job[b]
                                 /\ effect'[b] = effect[b]
  PROVE  /\ AlertsInv'
         /\ Due' = [Due EXCEPT ![a] =
              [site |-> IF effect'[a].page = "none" THEN NoSite
                                                    ELSE job'[a].site,
               kind |-> effect'[a].page]]
  BY DEF AlertsInv, OwesAlert, Due

\* The steps that touch neither entries nor alerts.
LEMMA QuietStep ==
  ASSUME TypeOK, AlertsInv, Bystander, \A a \in Actors : ~Emit(a)
  PROVE  AlertsInv' /\ UNCHANGED Due
  <1>0. pc \in [Actors -> Phases] /\ job \in [Actors -> Job]
    BY DEF TypeOK
  <1>1. ASSUME Tick \/ (\E b \in BOOLEAN : SetActive(b))
                 \/ (\E w \in Windows : RefreshMaintenance(w))
                 \/ UNCHANGED vars
        PROVE  UNCHANGED actorVars
    BY <1>1 DEF Tick, SetActive, RefreshMaintenance, vars, actorVars
  <1>2. ASSUME NEW r \in Routines,
               \/ CheckStart(r) \/ RoutineExit(r) \/ CheckPush(r) \/ RollUp(r)
               \/ \E out \in Results : ProbeReturns(r, out)
        PROVE  /\ UNCHANGED effect
               /\ \A a \in Actors : pc[a] = "emit" => pc'[a] = "emit"
                                                      /\ job'[a] = job[a]
    BY <1>0, <1>2 DEF CheckStart, RoutineExit, CheckPush, RollUp, ProbeReturns,
                      Done, Advance
  <1>3. ASSUME NEW b \in Actors, Gate(b)
        PROVE  /\ UNCHANGED effect
               /\ \A a \in Actors : pc[a] = "emit" => pc'[a] = "emit"
                                                      /\ job'[a] = job[a]
    BY <1>0, <1>3 DEF Gate, Done
  <1>4. ASSUME NEW h \in Handlers, NEW s \in Sites,
               BeatStart(h, s) \/ \E up \in BOOLEAN : ProbeReport(h, s, up)
        PROVE  /\ UNCHANGED effect
               /\ \A a \in Actors : pc[a] = "emit" => pc'[a] = "emit"
                                                      /\ job'[a] = job[a]
    BY <1>0, <1>4 DEF BeatStart, ProbeReport
  <1>5. /\ UNCHANGED effect
        /\ \A a \in Actors : pc[a] = "emit" => pc'[a] = "emit"
                                               /\ job'[a].site = job[a].site
    BY <1>1, <1>2, <1>3, <1>4 DEF Bystander, actorVars
  <1>6. QED BY <1>5, AlertsKept

\* The alert is sent, if there is one.
LEMMA SendStep ==
  ASSUME TypeOK, AlertsInv, NEW a \in Actors, Emit(a)
  PROVE  AlertsInv' /\ (P!Send(a) \/ UNCHANGED Due)
  <1>0. /\ pc \in [Actors -> Phases] /\ job \in [Actors -> Job]
        /\ effect \in [Actors -> Effect]
    BY DEF TypeOK
  <1>1. /\ effect' = [effect EXCEPT ![a] = NoEffect]
        /\ pc' = [pc EXCEPT ![a] = "idle"]
        /\ job' = [job EXCEPT ![a] = NoJob]
        /\ UNCHANGED <<live, present>>
    BY DEF Emit, Done, siteVars
  <1>2. effect'[a].page = "none"
    BY <1>0, <1>1 DEF NoEffect
  <1>3. AlertsInv' /\ Due' = [Due EXCEPT ![a] = P!NoAlert]
    BY <1>0, <1>1, <1>2, AlertsMoved DEF OwesAlert, P!NoAlert
  <1>4. UNCHANGED Outages
    BY <1>1 DEF Outages
  <1>5. CASE Due[a] = P!NoAlert
    <2>1. Due' = Due
      BY <1>3, <1>5 DEF Due
    <2>2. QED BY <1>3, <2>1
  <1>6. CASE Due[a] # P!NoAlert
    <2>1. P!Send(a)
      BY <1>3, <1>4, <1>6 DEF P!Send
    <2>2. QED BY <1>3, <2>1
  <1>7. QED BY <1>5, <1>6

\* One monitor's status moves; goroutine a owes an alert on an edge only.
LEMMA StatusMove ==
  ASSUME TypeOK, AlertsInv, NEW s \in present, UNCHANGED present,
         \A t \in present \ {s} : live'[t].status = live[t].status,
         NEW a \in Actors, pc[a] # "emit", pc' = [pc EXCEPT ![a] = "emit"],
         \A b \in Actors \ {a} : job'[b] = job[b] /\ effect'[b] = effect[b],
         job'[a].site = s,
         effect'[a].page \in Pages,
         effect'[a].page = "DOWN" => /\ ~IsBroken(live[s].status)
                                     /\ IsBroken(live'[s].status),
         effect'[a].page = "RECOVERY" => /\ IsBroken(live[s].status)
                                         /\ ~IsBroken(live'[s].status)
  PROVE  AlertsInv' /\ [P!Next]_(P!vars)
  <1> DEFINE page == effect'[a].page
  <1>0. /\ s \in Sites /\ pc \in [Actors -> Phases]
        /\ page \in {"none", "DOWN", "RECOVERY"}
    BY DEF TypeOK, Pages
  <1>1. effect[a].page = "none"
    BY DEF AlertsInv, OwesAlert
  <1>2. Due[a] = P!NoAlert
    BY <1>1 DEF Due, P!NoAlert
  <1>3. /\ AlertsInv'
        /\ Due' = [Due EXCEPT ![a] =
             [site |-> IF page = "none" THEN NoSite ELSE s, kind |-> page]]
    BY <1>0, AlertsMoved
  <1> HIDE DEF page
  <1>4. page = "none" => UNCHANGED Due
    BY <1>2, <1>3 DEF Due, P!NoAlert
  <1>5. page # "none" => Due' = [Due EXCEPT ![a] = [site |-> s, kind |-> page]]
    BY <1>3
  <1>6. CASE ~IsBroken(live[s].status) /\ IsBroken(live'[s].status)
    <2>1. s \notin Outages /\ Outages' = Outages \cup {s}
      BY <1>6 DEF Outages
    <2>2. P!Decide(s, "DOWN")
      BY <1>0, <1>2, <1>4, <1>5, <1>6 DEF P!Decide, page
    <2>3. QED BY <1>0, <1>3, <2>1, <2>2 DEF P!Open, P!Next
  <1>7. CASE IsBroken(live[s].status) /\ ~IsBroken(live'[s].status)
    <2>1. s \in Outages /\ Outages' = Outages \ {s}
      BY <1>7 DEF Outages
    <2>2. P!Decide(s, "RECOVERY")
      BY <1>0, <1>2, <1>4, <1>5, <1>7 DEF P!Decide, page
    <2>3. QED BY <1>0, <1>3, <2>1, <2>2 DEF P!Close, P!Next
  <1>8. CASE IsBroken(live[s].status) <=> IsBroken(live'[s].status)
    <2>1. Outages' = Outages
      BY <1>8 DEF Outages
    <2>2. page = "none"
      BY <1>0, <1>8 DEF page
    <2>3. QED BY <1>3, <1>4, <2>1, <2>2 DEF P!vars
  <1>9. QED BY <1>6, <1>7, <1>8

\* A goroutine drops its result.
LEMMA DropStep ==
  ASSUME TypeOK, AlertsInv, NEW a \in Actors, pc[a] # "emit",
         pc' = [pc EXCEPT ![a] = "idle"], job' = [job EXCEPT ![a] = NoJob],
         UNCHANGED <<effect, live, present>>
  PROVE  AlertsInv' /\ UNCHANGED P!vars
  <1>0. pc \in [Actors -> Phases] /\ job \in [Actors -> Job]
    BY DEF TypeOK
  <1>1. \A b \in Actors : pc[b] = "emit" => pc'[b] = "emit"
                                            /\ job'[b].site = job[b].site
    BY <1>0
  <1>2. QED BY <1>1, AlertsKept DEF Outages, P!vars

\* Adds, edits and removals.
LEMMA EditStep ==
  ASSUME TypeOK, AlertsInv, NEW s \in Sites,
         \/ \E c \in Configs[s] : UpdateSiteConfig(s, c)
         \/ \E c \in Configs[s], r \in Routines : AddSite(s, c, r)
         \/ ToggleSitePause(s)
         \/ RemoveSite(s)
  PROVE  AlertsInv' /\ [P!Next]_(P!vars)
  <1>0. /\ live \in [Sites -> Site] /\ present \subseteq Sites
    BY DEF TypeOK
  <1>1. UNCHANGED <<pc, job, effect>>
    BY DEF UpdateSiteConfig, AddSite, ToggleSitePause, RemoveSite, actorVars
  <1>2. AlertsInv' /\ UNCHANGED Due
    BY <1>1, AlertsKept
  <1>3. ASSUME NEW c \in Configs[s], UpdateSiteConfig(s, c)
        PROVE  UNCHANGED Outages
    <2>1. live' = [live EXCEPT ![s] = [live[s] EXCEPT !.cfg = c]]
      BY <1>3 DEF UpdateSiteConfig
    <2>2. [live[s] EXCEPT !.cfg = c].status = live[s].status
      BY <1>0 DEF Site
    <2>3. QED BY <1>0, <1>3, <2>1, <2>2 DEF UpdateSiteConfig, Outages
  <1>4. ASSUME ToggleSitePause(s) PROVE UNCHANGED Outages
    <2> DEFINE c == [live[s].cfg EXCEPT !.paused = ~@]
    <2>1. live' = [live EXCEPT ![s] = [live[s] EXCEPT !.cfg = c]]
      BY <1>4 DEF ToggleSitePause
    <2> HIDE DEF c
    <2>2. [live[s] EXCEPT !.cfg = c].status = live[s].status
      BY <1>0 DEF Site
    <2>3. QED BY <1>0, <1>4, <2>1, <2>2 DEF ToggleSitePause, Outages
  <1>5. ASSUME NEW c \in Configs[s], NEW r \in Routines, AddSite(s, c, r)
        PROVE  s \notin Outages /\ Outages' \in {Outages, Outages \cup {s}}
    <2>1. /\ s \notin present /\ present' = present \cup {s}
          /\ live' = [live EXCEPT ![s] = NewSite(c, SeedStatus(s))]
      BY <1>5 DEF AddSite
    <2>2. QED BY <1>0, <2>1 DEF Outages
  <1>6. ASSUME RemoveSite(s) PROVE Outages' = Outages \ {s}
    BY <1>0, <1>6 DEF RemoveSite, Outages
  <1>7. \/ Outages' = Outages
        \/ s \notin Outages /\ Outages' = Outages \cup {s}
        \/ s \in Outages /\ Outages' = Outages \ {s}
    BY <1>3, <1>4, <1>5, <1>6
  <1>8. QED BY <1>2, <1>7 DEF P!Open, P!Close, P!Decide, P!Next, P!vars

\* Folds of check results.
LEMMA FoldStep ==
  ASSUME TypeOK, AlertsInv, NEW a \in Actors, Fold(a)
  PROVE  AlertsInv' /\ [P!Next]_(P!vars)
  <1> DEFINE s == job[a].site
             r == job[a].result
             e == FoldCheck(live[s], r)
             page == PageFor(live[s].status, e.status, job[a].inMaint)
  <1>0. /\ live \in [Sites -> Site] /\ present \subseteq Sites
        /\ pc[a] # "emit" /\ UNCHANGED present
        /\ job \in [Actors -> Job] /\ effect \in [Actors -> Effect]
    BY DEF Fold, TypeOK
  <1>1. CASE s \in present /\ ~IsStale(live[s], r)
    <2>1. /\ live' = [live EXCEPT ![s] = e] /\ effect'[a].page = page
          /\ pc' = [pc EXCEPT ![a] = "emit"]
      BY <1>1, FoldFacts
    <2>2. /\ page \in Pages
          /\ page = "DOWN" => ~IsBroken(live[s].status) /\ IsBroken(e.status)
          /\ page = "RECOVERY" => IsBroken(live[s].status) /\ ~IsBroken(e.status)
      BY DEF PageFor, Pages, IsBroken
    <2>3. /\ \A b \in Actors \ {a} : job'[b] = job[b] /\ effect'[b] = effect[b]
          /\ job'[a].site = s
      BY <1>0, <1>1 DEF Fold, NoJob
    <2> HIDE DEF e, page
    <2>4. live'[s] = e /\ \A t \in present \ {s} : live'[t].status = live[t].status
      BY <1>0, <1>1, <2>1
    <2> HIDE DEF s, r
    <2>5. QED BY <1>0, <1>1, <2>1, <2>2, <2>3, <2>4, StatusMove
  <1>2. CASE ~(s \in present /\ ~IsStale(live[s], r))
    <2>1. /\ pc' = [pc EXCEPT ![a] = "idle"] /\ job' = [job EXCEPT ![a] = NoJob]
          /\ UNCHANGED <<effect, live>>
      BY <1>2 DEF Fold, Done
    <2>2. QED BY <1>0, <2>1, DropStep
  <1>3. QED BY <1>1, <1>2

\* Roll-ups of groups: never an alert.
LEMMA RollUpStep ==
  ASSUME TypeOK, AlertsInv, NEW r \in Routines, GroupApply(r)
  PROVE  AlertsInv' /\ [P!Next]_(P!vars)
  <1> DEFINE s == job[r].site
  <1>0. /\ live \in [Sites -> Site] /\ present \subseteq Sites
        /\ r \in Actors /\ pc[r] # "emit" /\ UNCHANGED present
        /\ pc' = [pc EXCEPT ![r] = "emit"]
        /\ job \in [Actors -> Job] /\ effect \in [Actors -> Effect]
        /\ pc \in [Actors -> Phases]
    BY DEF GroupApply, TypeOK, Actors
  <1>1. /\ \A b \in Actors \ {r} : job'[b] = job[b] /\ effect'[b] = effect[b]
        /\ job'[r].site = s
    BY <1>0 DEF GroupApply, NoJob
  <1>2. effect'[r].page = "none"
    BY <1>0 DEF GroupApply
  <1>3. CASE s \in present
    <2>1. \A t \in present \ {s} : live'[t].status = live[t].status
      BY <1>0 DEF GroupApply
    <2>2. "none" \in Pages
      BY DEF Pages
    <2> HIDE DEF s
    <2>3. QED BY <1>0, <1>1, <1>2, <1>3, <2>1, <2>2, StatusMove
  <1>4. CASE s \notin present
    <2>1. UNCHANGED Outages
      BY <1>0, <1>4 DEF GroupApply, Outages
    <2>2. effect[r].page = "none"
      BY <1>0 DEF AlertsInv, OwesAlert
    <2>3. \A a \in Actors \ {r} : pc'[a] = pc[a]
      BY <1>0
    <2>4. /\ AlertsInv'
          /\ Due' = [Due EXCEPT ![r] = [site |-> NoSite, kind |-> "none"]]
      BY <1>0, <1>1, <1>2, <2>3, AlertsMoved DEF OwesAlert
    <2>5. UNCHANGED Due
      BY <2>2, <2>4 DEF Due
    <2>6. QED BY <2>1, <2>4, <2>5 DEF P!vars
  <1>5. QED BY <1>3, <1>4

\* Heartbeats.
LEMMA BeatStep ==
  ASSUME TypeOK, AlertsInv, NEW h \in Handlers, BeatApply(h)
  PROVE  AlertsInv' /\ [P!Next]_(P!vars)
  <1> DEFINE s == job[h].site
             e == FoldBeat(live[s], now)
             page == BeatPage(live[s].status)
  <1>0. /\ live \in [Sites -> Site] /\ present \subseteq Sites
        /\ h \in Actors /\ pc[h] # "emit" /\ UNCHANGED present
        /\ job \in [Actors -> Job] /\ effect \in [Actors -> Effect]
    BY DEF BeatApply, TypeOK, Actors
  <1>1. CASE s \in present
    <2>1. /\ live' = [live EXCEPT ![s] = e] /\ e.status = "UP"
          /\ effect'[h].page = page
          /\ pc' = [pc EXCEPT ![h] = "emit"]
      BY <1>1, BeatFacts
    <2>2. /\ page \in Pages /\ page # "DOWN"
          /\ page = "RECOVERY" => IsBroken(live[s].status) /\ ~IsBroken(e.status)
      BY <2>1 DEF BeatPage, Pages, IsBroken
    <2>3. /\ \A b \in Actors \ {h} : job'[b] = job[b] /\ effect'[b] = effect[b]
          /\ job'[h].site = s
      BY <1>0, <1>1 DEF BeatApply
    <2> HIDE DEF e, page
    <2>4. live'[s] = e /\ \A t \in present \ {s} : live'[t].status = live[t].status
      BY <1>0, <1>1, <2>1
    <2> HIDE DEF s
    <2>5. QED BY <1>0, <1>1, <2>1, <2>2, <2>3, <2>4, StatusMove
  <1>2. CASE s \notin present
    <2>1. /\ pc' = [pc EXCEPT ![h] = "idle"] /\ job' = [job EXCEPT ![h] = NoJob]
          /\ UNCHANGED <<effect, live>>
      BY <1>2 DEF BeatApply, Done
    <2>2. QED BY <1>0, <2>1, DropStep
  <1>3. QED BY <1>1, <1>2

LEMMA PagerStep ==
  ASSUME TypeOK, AlertsInv, [Next]_vars
  PROVE  AlertsInv' /\ [P!Next]_(P!vars)
  <1>1. CASE Bystander /\ \A a \in Actors : ~Emit(a)
    <2>1. UNCHANGED Outages
      BY <1>1, BystanderFacts DEF Outages, siteVars
    <2>2. QED BY <1>1, <2>1, QuietStep DEF P!vars
  <1>2. ASSUME NEW a \in Actors, Emit(a) PROVE AlertsInv' /\ [P!Next]_(P!vars)
    <2>1. UNCHANGED Outages
      BY <1>2 DEF Emit, Outages, siteVars
    <2>2. QED BY <1>2, <2>1, SendStep DEF P!Next, P!vars
  <1>3. QED BY <1>1, <1>2, EditStep, FoldStep, RollUpStep, BeatStep, StepCases

\* Alerts become due on the edges of outages only, at most one per edge and
\* of the right kind, and each is sent once: every behaviour of the engine is
\* one of Pager.
THEOREM PagerImplemented == Spec => ImplementsPager
  <1>1. Init => P!Init /\ AlertsInv
    BY DEF Init, P!Init, P!NoAlert, NoEffect, Outages, Due, AlertsInv, OwesAlert
  <1>2. TypeOK /\ AlertsInv /\ [Next]_vars => AlertsInv' /\ [P!Next]_(P!vars)
    BY PagerStep
  <1>3. QED BY <1>1, <1>2, TypeCorrect, PTL DEF Spec, ImplementsPager, P!Spec

-----------------------------------------------------------------------------
(* What goroutines carry.                                                  *)

\* Edits and pauses leave a monitor with the type, the token and the parent
\* of one of its configurations.
Like(c, s) == \E d \in Configs[s] : /\ c.typ = d.typ /\ c.token = d.token
                                    /\ c.parent = d.parent

ConfigKept == \A s \in present : Like(live[s].cfg, s)

\* What a step may do to the configuration of a monitor.
ConfigMoved(s) ==
  \/ s \in present /\ live'[s].cfg = live[s].cfg
  \/ live'[s].cfg \in Configs[s]
  \/ s \in present /\ live'[s].cfg = [live[s].cfg EXCEPT !.paused = ~@]

LEMMA ConfigMoves ==
  ASSUME TypeOK, [Next]_vars, NEW s \in present' PROVE ConfigMoved(s)
  <1>0. present \subseteq Sites /\ live \in [Sites -> Site]
    BY DEF TypeOK
  <1> USE DEF ConfigMoved
  <1>1. CASE Bystander
    BY <1>1, BystanderFacts DEF siteVars
  <1>2. ASSUME NEW t \in Sites, NEW c \in Configs[t], UpdateSiteConfig(t, c)
        PROVE  ConfigMoved(s)
    <2>1. /\ live' = [live EXCEPT ![t] = [live[t] EXCEPT !.cfg = c]]
          /\ present' = present
      BY <1>2 DEF UpdateSiteConfig
    <2>2. [live[t] EXCEPT !.cfg = c].cfg = c
      BY <1>0 DEF Site
    <2>3. QED BY <1>0, <2>1, <2>2
  <1>3. ASSUME NEW t \in Sites, NEW c \in Configs[t], NEW r \in Routines,
               AddSite(t, c, r)
        PROVE  ConfigMoved(s)
    <2>1. NewSite(c, SeedStatus(t)).cfg = c
      BY DEF NewSite
    <2>2. QED BY <1>0, <1>3, <2>1 DEF AddSite
  <1>4. ASSUME NEW t \in Sites, ToggleSitePause(t) PROVE ConfigMoved(s)
    <2> DEFINE c == [live[t].cfg EXCEPT !.paused = ~@]
    <2>1. /\ live' = [live EXCEPT ![t] = [live[t] EXCEPT !.cfg = c]]
          /\ present' = present
      BY <1>4 DEF ToggleSitePause
    <2> HIDE DEF c
    <2>2. [live[t] EXCEPT !.cfg = c].cfg = c
      BY <1>0 DEF Site
    <2>3. live'[s].cfg = IF s = t THEN c ELSE live[s].cfg
      BY <1>0, <2>1, <2>2
    <2>4. QED BY <2>1, <2>3 DEF c
  <1>5. ASSUME NEW t \in Sites, RemoveSite(t) PROVE ConfigMoved(s)
    BY <1>0, <1>5 DEF RemoveSite
  <1>6. ASSUME NEW a \in Actors, Fold(a) PROVE ConfigMoved(s)
    BY <1>0, <1>6, FoldFacts, FoldDropped, FoldCheckType DEF Fold
  <1>7. ASSUME NEW r \in Routines, GroupApply(r) PROVE ConfigMoved(s)
    BY <1>0, <1>7, GroupFacts DEF GroupApply
  <1>8. ASSUME NEW h \in Handlers, BeatApply(h) PROVE ConfigMoved(s)
    BY <1>0, <1>8, BeatFacts, BeatDropped DEF BeatApply
  <1> HIDE DEF ConfigMoved
  <1>9. QED BY <1>1, <1>2, <1>3, <1>4, <1>5, <1>6, <1>7, <1>8, StepCases

LEMMA ConfigStep ==
  ASSUME TypeOK, ConfigKept, [Next]_vars
  PROVE  ConfigKept'
  <1> SUFFICES ASSUME NEW s \in present' PROVE Like(live'[s].cfg, s)
    BY DEF ConfigKept
  <1>1. CASE s \in present /\ live'[s].cfg = live[s].cfg
    BY <1>1 DEF ConfigKept
  <1>2. CASE live'[s].cfg \in Configs[s]
    BY <1>2 DEF Like
  <1>3. CASE s \in present /\ live'[s].cfg = [live[s].cfg EXCEPT !.paused = ~@]
    <2> DEFINE p == ~live[s].cfg.paused
    <2>1. live[s].cfg \in Config /\ Like(live[s].cfg, s)
      BY <1>3 DEF TypeOK, Site, ConfigKept
    <2>2. live'[s].cfg = [live[s].cfg EXCEPT !.paused = p]
      BY <1>3
    <2> HIDE DEF p
    <2>3. QED BY <2>1, <2>2 DEF Like, Config
  <1>4. QED BY <1>1, <1>2, <1>3, ConfigMoves DEF ConfigMoved

\* Whatever edits and pauses race, a live monitor keeps the type, the token
\* and the parent of a configuration it was given.
THEOREM ConfigsKept == Spec => []ConfigKept
  <1>1. Init => ConfigKept
    BY DEF Init, ConfigKept
  <1>2. TypeOK /\ ConfigKept /\ [Next]_vars => ConfigKept'
    BY ConfigStep
  <1>3. QED BY <1>1, <1>2, TypeCorrect, PTL DEF Spec

\* No window is ever active on a monitor that none covers.
MaintInv == \A s \in maint : ~Uncovered(s)

LEMMA CoveredFacts ==
  ASSUME TypeOK, ConfigKept, NEW w \in Windows, NEW s \in Covered(w)
  PROVE  ~Uncovered(s)
  <1>1. s \in present /\ (Everything \in w \/ s \in w
                            \/ live[s].cfg.parent \in w)
    BY DEF Covered
  <1>2. PICK d \in Configs[s] : live[s].cfg.parent = d.parent
    BY <1>1 DEF ConfigKept, Like
  <1>3. QED BY <1>1, <1>2 DEF Uncovered

LEMMA MaintMoves ==
  ASSUME [Next]_vars
  PROVE  UNCHANGED maint \/ \E w \in Windows : maint' = Covered(w)
  BY DEF Next, RoutineStep, HandlerStep, Step, Tick, SetActive,
         UpdateSiteConfig, AddSite, ToggleSitePause, RemoveSite,
         RefreshMaintenance, CheckStart, RoutineExit, ProbeReturns, CheckPush,
         RollUp, GroupApply, Gate, Fold, Emit, BeatStart, BeatApply,
         ProbeReport, vars

LEMMA MaintStep ==
  ASSUME TypeOK, ConfigKept, MaintInv, [Next]_vars
  PROVE  MaintInv'
  BY MaintMoves, CoveredFacts DEF MaintInv, Uncovered

-----------------------------------------------------------------------------
(* Where a job comes from.                                                 *)

May(s, typ) == \E c \in Configs[s] : c.typ = typ

Tokened(s) == \E c \in Configs[s] : HasToken(c)

\* A verdict comes from a probe node, from a check, or from a heartbeat that
\* was overdue by the copied entry.
Origin(a) == LET j == job[a]  v == j.result.verdict IN
  \/ a \in Handlers /\ j.site \in Probed /\ v \in {"UP", "DOWN"}
  \/ a \in Routines /\ May(j.site, "http") /\ v \in {"UP", "DOWN", "SSL EXP"}
  \/ a \in Routines /\ May(j.site, "push") /\ Overdue(j, j.interval)

\* A goroutine at work serves its own monitor, in a phase that monitor has.
JobOK(a) == LET s == job[a].site IN
  pc[a] # "idle" =>
    /\ s \in Sites
    /\ a \in Routines => owner[a] = s
    /\ a \in Handlers => s \in Probed \/ Tokened(s)
    /\ pc[a] = "probe" => a \in Routines /\ May(s, "http")
    /\ pc[a] = "push" => a \in Routines /\ May(s, "push")
    /\ pc[a] \in {"group", "rollup"} => a \in Routines /\ May(s, "group")
    /\ pc[a] = "beat" => Tokened(s)
    /\ pc[a] \in {"gate", "fold"} => Origin(a)
    /\ pc[a] = "fold" /\ Uncovered(s) => ~job[a].inMaint

JobsInv == \A a \in Actors : JobOK(a)

\* A goroutine that does not move.
LEMMA JobKept ==
  ASSUME TypeOK, NEW a \in Actors, JobOK(a), pc'[a] = pc[a], job'[a] = job[a],
         a \in Routines /\ pc[a] # "idle" => owner'[a] = owner[a],
         now' = now \/ now' = now + 1
  PROVE  JobOK(a)'
  <1>0. now \in Nat /\ job[a].result.at \in Nat /\ job[a].interval \in Nat
    BY DEF TypeOK, Job, Result
  <1>1. ASSUME Overdue(job[a], job[a].interval)
        PROVE  Overdue(job[a], job[a].interval)'
    BY <1>0, <1>1 DEF Overdue
  <1>2. Origin(a) => Origin(a)'
    BY <1>1 DEF Origin, May
  <1>3. QED BY <1>2 DEF JobOK, May, Tokened, Uncovered

\* A goroutine that stops.
LEMMA JobDone == ASSUME NEW a \in Actors, pc'[a] = "idle" PROVE JobOK(a)'
  BY DEF JobOK

\* A goroutine that has folded, with the rest to do.
LEMMA JobFolded ==
  ASSUME NEW a \in Actors, JobOK(a), pc[a] # "idle", pc'[a] = "emit",
         job'[a].site = job[a].site, UNCHANGED owner
  PROVE  JobOK(a)'
  BY DEF JobOK, Tokened

\* The other goroutines.
Others(a) == /\ UNCHANGED <<owner, now>>
             /\ \A b \in Actors \ {a} : pc'[b] = pc[b] /\ job'[b] = job[b]

LEMMA OthersKept ==
  ASSUME TypeOK, JobsInv, NEW a \in Actors, Others(a), JobOK(a)'
  PROVE  JobsInv'
  <1> SUFFICES ASSUME NEW b \in Actors, b # a PROVE JobOK(b)'
    BY DEF JobsInv
  <1>1. QED BY JobKept DEF JobsInv, Others

LEMMA CheckJob ==
  ASSUME TypeOK, ConfigKept, NEW r \in Routines, CheckStart(r)
  PROVE  JobOK(r)'
  <1> DEFINE s == owner[r]
             typ == live[s].cfg.typ
  <1>0. /\ r \in Actors /\ r \notin Handlers /\ s \in Sites
        /\ pc \in [Actors -> Phases] /\ job \in [Actors -> Job]
    BY EngineAssumption DEF TypeOK, Actors, CheckStart
  <1>1. /\ pc'[r] = CheckPhase(typ) /\ job'[r] = Copy(s) /\ owner' = owner
    BY <1>0 DEF CheckStart
  <1>2. Copy(s).site = s
    BY DEF Copy, NoJob
  <1>3. May(s, typ) /\ typ \in {"http", "push", "group"}
    BY <1>0 DEF CheckStart, ConfigKept, Like, May, TypeOK, Site, Config
  <1>4. /\ pc'[r] \in {"probe", "push", "group"}
        /\ pc'[r] = "probe" => typ = "http"
        /\ pc'[r] = "push" => typ = "push"
        /\ pc'[r] = "group" => typ = "group"
    BY <1>1, <1>3 DEF CheckPhase
  <1> HIDE DEF s, typ
  <1>5. job'[r].site = s /\ owner'[r] = s
    BY <1>1, <1>2 DEF s
  <1>6. QED BY <1>0, <1>3, <1>4, <1>5 DEF JobOK, May

LEMMA ProbeJob ==
  ASSUME TypeOK, NEW r \in Routines, JobOK(r),
         NEW out \in Results, ProbeReturns(r, out)
  PROVE  JobOK(r)'
  <1> DEFINE res == [verdict |-> out.verdict, at |-> now, cert |-> out.cert]
             s == job[r].site
  <1>0. /\ r \in Actors /\ r \notin Handlers
        /\ pc \in [Actors -> Phases] /\ job \in [Actors -> Job]
        /\ out.verdict \in {"UP", "DOWN", "SSL EXP"}
    BY EngineAssumption DEF TypeOK, Actors
  <1>1. /\ pc[r] = "probe" /\ pc'[r] = "gate" /\ owner' = owner
        /\ job' = [job EXCEPT ![r].result = res]
    BY <1>0 DEF ProbeReturns, Advance
  <1>2. res.verdict \in {"UP", "DOWN", "SSL EXP"}
    BY <1>0
  <1> HIDE DEF res
  <1>3. job'[r].site = s /\ job'[r].result = res
    BY <1>0, <1>1 DEF Job
  <1>4. May(s, "http") /\ owner[r] = s /\ s \in Sites
    BY <1>1 DEF JobOK
  <1> HIDE DEF s
  <1>5. Origin(r)'
    BY <1>2, <1>3, <1>4 DEF Origin, May
  <1>6. QED BY <1>0, <1>1, <1>3, <1>4, <1>5 DEF JobOK

\* A late heartbeat is overdue whatever the grace.
LEMMA OverdueByMore ==
  ASSUME now \in Nat, NEW j \in Job, NEW m \in Nat, NEW k \in Nat,
         Overdue(j, k + m)
  PROVE  Overdue(j, k)
  BY DEF Overdue, Job, Result

LEMMA GraceType == \A k \in Nat : Grace(k) \in Nat /\ Grace(k) \div 2 \in Nat
  <1>1. MinPushGrace \in Nat
    BY EngineAssumption
  <1>2. \A k \in Nat : k \div 2 \in Nat
    BY SMT
  <1>3. \A k \in Nat : Grace(k) \in Nat
    BY <1>1, <1>2 DEF Grace
  <1>4. QED BY <1>2, <1>3
LEMMA LateVerdict ==
  ASSUME now \in Nat, NEW j \in Job, PushVerdict(j) # "UP"
  PROVE  Overdue(j, j.interval)
  <1>1. j.interval \in Nat
    BY DEF Job
  <1>2. Grace(j.interval) \in Nat /\ Grace(j.interval) \div 2 \in Nat
    BY <1>1, GraceType
  <1>3. \/ Overdue(j, j.interval + Grace(j.interval))
        \/ Overdue(j, j.interval + Grace(j.interval) \div 2)
        \/ Overdue(j, j.interval)
    BY DEF PushVerdict
  <1>4. QED BY <1>1, <1>2, <1>3, OverdueByMore

LEMMA PushJob ==
  ASSUME TypeOK, NEW r \in Routines, JobOK(r), CheckPush(r)
  PROVE  JobOK(r)'
  <1> DEFINE j == job[r]
             v == PushVerdict(j)
             res == [j.result EXCEPT !.verdict = v]
             s == job[r].site
  <1>0. /\ r \in Actors /\ r \notin Handlers /\ now \in Nat
        /\ pc \in [Actors -> Phases] /\ job \in [Actors -> Job] /\ j \in Job
    BY EngineAssumption DEF TypeOK, Actors
  <1>1. CASE NothingToDo(j, v)
    <2>1. pc'[r] = "idle"
      BY <1>0, <1>1 DEF CheckPush, Done
    <2>2. QED BY <1>0, <2>1, JobDone
  <1>2. CASE ~NothingToDo(j, v)
    <2>1. /\ pc[r] = "push" /\ pc'[r] = "gate" /\ UNCHANGED <<owner, now>>
          /\ job' = [job EXCEPT ![r].result = res]
      BY <1>0, <1>2 DEF CheckPush, Advance
    <2>2. v # "UP"
      BY <1>2 DEF NothingToDo
    <2>3. Overdue(j, j.interval)
      BY <1>0, <2>2, LateVerdict
    <2>4. res.at = j.result.at
      BY <1>0 DEF Job, Result
    <2> HIDE DEF res
    <2>5. /\ job'[r].site = s /\ job'[r].result = res
          /\ job'[r].interval = j.interval
      BY <1>0, <2>1 DEF Job
    <2>6. May(s, "push") /\ owner[r] = s /\ s \in Sites
      BY <2>1 DEF JobOK
    <2>7. Overdue(job[r], job[r].interval)'
      BY <2>1, <2>3, <2>4, <2>5 DEF Overdue
    <2> HIDE DEF s
    <2>8. Origin(r)'
      BY <2>5, <2>6, <2>7 DEF Origin, May
    <2>9. QED BY <1>0, <2>1, <2>5, <2>6, <2>8 DEF JobOK
  <1>3. QED BY <1>1, <1>2

LEMMA RollUpJob ==
  ASSUME TypeOK, NEW r \in Routines, JobOK(r), RollUp(r)
  PROVE  JobOK(r)'
  <1>0. /\ r \in Actors /\ r \notin Handlers
        /\ pc \in [Actors -> Phases] /\ job \in [Actors -> Job]
    BY EngineAssumption DEF TypeOK, Actors
  <1>1. /\ pc[r] = "group" /\ pc'[r] = "rollup" /\ owner' = owner
        /\ job'[r].site = job[r].site
    BY <1>0 DEF RollUp, Advance, Job
  <1>2. QED BY <1>0, <1>1 DEF JobOK, May

LEMMA GateJob ==
  ASSUME TypeOK, MaintInv, NEW a \in Actors, JobOK(a), Gate(a)
  PROVE  JobOK(a)'
  <1>0. pc \in [Actors -> Phases] /\ job \in [Actors -> Job]
    BY DEF TypeOK
  <1>1. CASE active
    <2> DEFINE m == job[a].site \in maint
               s == job[a].site
    <2>1. /\ pc[a] = "gate" /\ pc'[a] = "fold" /\ UNCHANGED <<owner, now>>
          /\ job' = [job EXCEPT ![a].inMaint = m]
      BY <1>0, <1>1 DEF Gate
    <2>2. Uncovered(s) => ~m
      BY DEF MaintInv
    <2> HIDE DEF m
    <2>3. /\ job'[a].site = s /\ job'[a].result = job[a].result
          /\ job'[a].interval = job[a].interval /\ job'[a].inMaint = m
      BY <1>0, <2>1 DEF Job
    <2>4. Origin(a)
      BY <2>1 DEF JobOK
    <2>5. Origin(a)'
      BY <2>1, <2>3, <2>4 DEF Origin, Overdue, May
    <2>6. QED BY <2>1, <2>2, <2>3, <2>5 DEF JobOK, Uncovered, Tokened
  <1>2. CASE ~active
    BY <1>0, <1>2, JobDone DEF Gate, Done
  <1>3. QED BY <1>1, <1>2

LEMMA BeatJob ==
  ASSUME TypeOK, ConfigKept, TokenIndexExact, NEW h \in Handlers,
         NEW s \in Sites, BeatStart(h, s)
  PROVE  JobOK(h)'
  <1>0. /\ h \in Actors /\ h \notin Routines
        /\ pc \in [Actors -> Phases] /\ job \in [Actors -> Job]
    BY EngineAssumption DEF TypeOK, Actors
  <1>1. pc'[h] = "beat" /\ job'[h].site = s
    BY <1>0 DEF BeatStart, NoJob
  <1>2. Tokened(s)
    BY DEF BeatStart, TokenIndexExact, ConfigKept, Like, HasToken, Tokened
  <1>3. QED BY <1>0, <1>1, <1>2 DEF JobOK, Tokened

LEMMA ReportJob ==
  ASSUME TypeOK, NEW h \in Handlers, NEW s \in Sites, NEW up \in BOOLEAN,
         ProbeReport(h, s, up)
  PROVE  JobOK(h)'
  <1> DEFINE v == IF up THEN "UP" ELSE "DOWN"
             res == [verdict |-> v, at |-> now, cert |-> live[s].cert]
  <1>0. /\ h \in Actors /\ h \notin Routines /\ s \in Probed
        /\ pc \in [Actors -> Phases] /\ job \in [Actors -> Job]
    BY EngineAssumption DEF TypeOK, Actors, ProbeReport
  <1>1. res.verdict \in {"UP", "DOWN"}
    OBVIOUS
  <1>2. pc' = [pc EXCEPT ![h] = "gate"]
        /\ job' = [job EXCEPT ![h] = [NoJob EXCEPT !.site = s, !.result = res]]
    BY DEF ProbeReport
  <1> HIDE DEF res
  <1>3. pc'[h] = "gate" /\ job'[h].site = s /\ job'[h].result = res
    BY <1>0, <1>2 DEF NoJob
  <1>4. Origin(h)'
    BY <1>0, <1>1, <1>3 DEF Origin
  <1>5. QED BY <1>0, <1>3, <1>4 DEF JobOK

\* Folds, roll-ups, heartbeats and what follows them.
LEMMA AppliedJob ==
  ASSUME TypeOK, NEW a \in Actors, JobOK(a),
         \/ Fold(a) \/ Emit(a)
         \/ a \in Routines /\ GroupApply(a)
         \/ a \in Handlers /\ BeatApply(a)
  PROVE  JobOK(a)'
  <1>0. pc \in [Actors -> Phases] /\ job \in [Actors -> Job]
    BY DEF TypeOK
  <1>1. \A s : [NoJob EXCEPT !.site = s].site = s
    BY DEF NoJob
  <1>2. CASE Fold(a)
    BY <1>0, <1>1, <1>2, JobDone, JobFolded DEF Fold, Done
  <1>3. CASE Emit(a)
    BY <1>0, <1>3, JobDone DEF Emit, Done
  <1>4. CASE a \in Routines /\ GroupApply(a)
    BY <1>0, <1>1, <1>4, JobFolded DEF GroupApply
  <1>5. CASE a \in Handlers /\ BeatApply(a)
    BY <1>0, <1>5, JobDone, JobFolded DEF BeatApply, Done
  <1>6. QED BY <1>2, <1>3, <1>4, <1>5

\* Every step of a goroutine leaves the others alone.
LEMMA OneActor ==
  ASSUME TypeOK, NEW a \in Actors,
         \/ Gate(a) \/ Fold(a) \/ Emit(a)
         \/ a \in Routines /\ (\/ CheckStart(a) \/ CheckPush(a) \/ RollUp(a)
                               \/ GroupApply(a)
                               \/ \E out \in Results : ProbeReturns(a, out))
         \/ a \in Handlers /\ (\/ BeatApply(a)
                               \/ \E s \in Sites : BeatStart(a, s)
                               \/ \E s \in Sites, up \in BOOLEAN :
                                    ProbeReport(a, s, up))
  PROVE  Others(a)
  <1>0. pc \in [Actors -> Phases] /\ job \in [Actors -> Job]
    BY DEF TypeOK
  <1>1. CASE Gate(a) \/ Fold(a) \/ Emit(a)
    BY <1>0, <1>1 DEF Gate, Fold, Emit, Done, Others
  <1>2. CASE CheckStart(a) \/ CheckPush(a) \/ RollUp(a) \/ GroupApply(a)
    BY <1>0, <1>2 DEF CheckStart, CheckPush, RollUp, GroupApply, Done, Advance,
                      Others
  <1>3. ASSUME NEW out \in Results, ProbeReturns(a, out) PROVE Others(a)
    BY <1>0, <1>3 DEF ProbeReturns, Advance, Others
  <1>4. CASE BeatApply(a)
    BY <1>0, <1>4 DEF BeatApply, Done, Others
  <1>5. ASSUME NEW s \in Sites,
               BeatStart(a, s) \/ \E up \in BOOLEAN : ProbeReport(a, s, up)
        PROVE  Others(a)
    BY <1>0, <1>5 DEF BeatStart, ProbeReport, Others
  <1>6. QED BY <1>1, <1>2, <1>3, <1>4, <1>5

\* Nobody's job moves.
LEMMA JobsKept ==
  ASSUME TypeOK, JobsInv, UNCHANGED <<pc, job>>,
         \A r \in Routines : pc[r] # "idle" => owner'[r] = owner[r],
         now' = now \/ now' = now + 1
  PROVE  JobsInv'
  BY JobKept DEF JobsInv

LEMMA JobsStep ==
  ASSUME TypeOK, ConfigKept, TokenIndexExact, MaintInv, JobsInv, [Next]_vars
  PROVE  JobsInv'
  <1>0. \A a \in Actors : JobOK(a)
    BY DEF JobsInv
  <1>1. CASE Tick
    BY <1>1, JobsKept DEF Tick, actorVars
  <1>2. ASSUME NEW b \in BOOLEAN, SetActive(b) PROVE JobsInv'
    BY <1>2, JobsKept DEF SetActive, actorVars
  <1>3. ASSUME NEW s \in Sites,
               \/ \E c \in Configs[s] : UpdateSiteConfig(s, c)
               \/ ToggleSitePause(s)
               \/ RemoveSite(s)
        PROVE  JobsInv'
    BY <1>3, JobsKept DEF UpdateSiteConfig, ToggleSitePause, RemoveSite, actorVars
  <1>4. ASSUME NEW s \in Sites, NEW c \in Configs[s], NEW r \in Routines,
               AddSite(s, c, r)
        PROVE  JobsInv'
    <2>1. owner[r] = NoSite /\ owner' = [owner EXCEPT ![r] = s]
          /\ UNCHANGED <<now, pc, job>>
      BY <1>4 DEF AddSite
    <2>2. r \in Actors /\ owner \in [Routines -> Sites \cup {NoSite}]
      BY DEF TypeOK, Actors
    <2>3. pc[r] = "idle"
      BY <1>0, <2>1, <2>2, NoSiteAssumption DEF JobOK
    <2>4. \A q \in Routines : pc[q] # "idle" => owner'[q] = owner[q]
      BY <2>1, <2>2, <2>3
    <2>5. QED BY <2>1, <2>4, JobsKept
  <1>5. ASSUME NEW w \in Windows, RefreshMaintenance(w) PROVE JobsInv'
    BY <1>5, JobsKept DEF RefreshMaintenance, actorVars
  <1>6. ASSUME NEW r \in Routines, RoutineExit(r) PROVE JobsInv'
    <2>1. /\ pc[r] = "idle" /\ owner' = [owner EXCEPT ![r] = NoSite]
          /\ UNCHANGED <<now, pc, job>>
      BY <1>6 DEF RoutineExit
    <2>2. owner \in [Routines -> Sites \cup {NoSite}]
      BY DEF TypeOK
    <2>3. \A q \in Routines : pc[q] # "idle" => owner'[q] = owner[q]
      BY <2>1, <2>2
    <2>4. QED BY <2>1, <2>3, JobsKept
  <1>7. ASSUME NEW r \in Routines,
               \/ CheckStart(r) \/ CheckPush(r) \/ RollUp(r) \/ GroupApply(r)
               \/ \E out \in Results : ProbeReturns(r, out)
        PROVE  JobsInv'
    <2>1. r \in Actors
      BY DEF Actors
    <2>2. JobOK(r)'
      BY <1>0, <1>7, <2>1, CheckJob, PushJob, RollUpJob, AppliedJob, ProbeJob
    <2>3. QED BY <1>7, <2>1, <2>2, OneActor, OthersKept
  <1>8. ASSUME NEW a \in Actors, Step(a) PROVE JobsInv'
    <2>1. JobOK(a)'
      BY <1>0, <1>8, GateJob, AppliedJob DEF Step
    <2>2. QED BY <1>8, <2>1, OneActor, OthersKept DEF Step
  <1>9. ASSUME NEW h \in Handlers,
               \/ BeatApply(h)
               \/ \E s \in Sites : BeatStart(h, s)
               \/ \E s \in Sites, up \in BOOLEAN : ProbeReport(h, s, up)
        PROVE  JobsInv'
    <2>1. h \in Actors
      BY DEF Actors
    <2>2. JobOK(h)'
      BY <1>0, <1>9, <2>1, AppliedJob, BeatJob, ReportJob
    <2>3. QED BY <1>9, <2>1, <2>2, OneActor, OthersKept
  <1>10. CASE UNCHANGED vars
    BY <1>10, JobsKept DEF vars, actorVars
  <1>11. ASSUME NEW r \in Routines, RoutineStep(r) PROVE JobsInv'
    BY <1>6, <1>7, <1>8, <1>11 DEF RoutineStep, Actors
  <1>12. ASSUME NEW h \in Handlers, HandlerStep(h) PROVE JobsInv'
    BY <1>8, <1>9, <1>12 DEF HandlerStep, Actors
  <1>13. QED BY <1>1, <1>2, <1>3, <1>4, <1>5, <1>9, <1>10, <1>11, <1>12 DEF Next

\* However the goroutines interleave with edits, removals and maintenance,
\* each works on a monitor it may work on, in a phase that monitor has, and
\* with a verdict that was really reached about it.
THEOREM JobsSound == Spec => [](MaintInv /\ JobsInv)
  <1>1. Init => MaintInv /\ JobsInv
    BY DEF Init, MaintInv, JobsInv, JobOK
  <1>2. /\ TypeOK /\ ConfigKept /\ TokenIndexExact /\ MaintInv /\ JobsInv
        /\ [Next]_vars
        => MaintInv' /\ JobsInv'
    BY MaintStep, JobsStep
  <1>3. QED BY <1>1, <1>2, TypeCorrect, ConfigsKept, TokensExact, PTL DEF Spec

-----------------------------------------------------------------------------
(* The dead man's switch never fires early.                                *)

LEMMA HonouredStep ==
  ASSUME TypeOK, JobsInv, [Next]_vars, NEW r \in Routines, Folds(r),
         job[r].result.verdict # "UP", Only(job[r].site, "push")
  PROVE  \/ live[job[r].site].lastCheck = Never
         \/ now > live[job[r].site].lastCheck + job[r].interval
  <1> DEFINE s == job[r].site
             at == job[r].result.at
  <1>0. /\ r \in Actors /\ r \notin Handlers /\ pc \in [Actors -> Phases]
        /\ now \in Nat /\ at \in Nat /\ job[r].interval \in Nat
    BY EngineAssumption DEF TypeOK, Actors, Job, Result
  <1>1. Fold(r)
    BY <1>0, FoldsByActor
  <1>2. s \in present /\ ~IsStale(live[s], job[r].result)
    BY <1>0, <1>1, FoldDropped DEF Folds
  <1>3. live[s].lastCheck \in Nat /\ ~(live[s].lastCheck > at)
    BY <1>2 DEF TypeOK, Site, IsStale
  <1>4. at = Never \/ now > at + job[r].interval
    BY <1>0, <1>1 DEF JobsInv, JobOK, Fold, Origin, Overdue, Only, May
  <1> HIDE DEF at, s
  <1>5. live[s].lastCheck = Never \/ now > live[s].lastCheck + job[r].interval
    BY <1>0, <1>3, <1>4 DEF Never
  <1>6. QED BY <1>5 DEF s

\* A push monitor is never folded to LATE, STALE or DOWN while its newest
\* heartbeat, which may be newer than the copy the verdict comes from, is
\* within the interval.
THEOREM HeartbeatsHonoured == Spec => HeartbeatHonoured
  <1>1. TypeOK /\ JobsInv /\ [Next]_vars
          => [\A r \in Routines : LET s == job[r].site IN
                (Folds(r) /\ job[r].result.verdict # "UP" /\ Only(s, "push"))
                  => \/ live[s].lastCheck = Never
                     \/ now > live[s].lastCheck + job[r].interval]_vars
    BY HonouredStep
  <1>2. QED BY <1>1, TypeCorrect, JobsSound, PTL DEF Spec, HeartbeatHonoured

-----------------------------------------------------------------------------
(* Alerts tell the truth.                                                  *)

\* A monitor the engine checks itself, that no window is for.
Plain(s) == Only(s, "http") /\ Uncovered(s)

PagedOK(s) ==
  lastPage[s] \in {"DOWN", "seeded"} <=> IsBroken(live[s].status)

LEMMA PagedFacts == PagedIffBroken <=> \A s \in present : Plain(s) => PagedOK(s)
  BY DEF PagedIffBroken, Plain, PagedOK

\* The monitor's status and its last alert are what they were.
LEMMA PagedKept ==
  ASSUME NEW s, PagedOK(s), live'[s].status = live[s].status,
         lastPage'[s] = lastPage[s]
  PROVE  PagedOK(s)'
  BY DEF PagedOK

\* The status a folded check leaves.
LEMMA FoldCheckStatus ==
  ASSUME NEW e \in Site, NEW r \in Result
  PROVE  /\ r.verdict = "UP" => FoldCheck(e, r).status = "UP"
         /\ r.verdict # "UP" => FoldCheck(e, r).status \in {e.status, r.verdict}
  <1>1. ASSUME NEW f \in Site
        PROVE  [f EXCEPT !.lastCheck = r.at, !.cert = r.cert,
                         !.warned = WarnedAfter(e, r)].status = f.status
    BY DEF Site
  <1>2. CASE r.verdict = "UP"
    BY <1>2, FoldCheckType
  <1>3. CASE r.verdict # "UP"
    <2> DEFINE f == Failed(e, r.verdict)
    <2>1. e \in Site /\ r.verdict \in Status /\ e.fails \in Nat
          /\ e.cfg.maxRetries \in Nat
      BY DEF Site, Config, Result
    <2>2. f \in Site /\ f.status \in {e.status, r.verdict}
      <3>1. ASSUME NEW n \in Nat
            PROVE  /\ LET g == [e EXCEPT !.status = r.verdict, !.fails = n]
                      IN  g \in Site /\ g.status = r.verdict
                   /\ LET g == [e EXCEPT !.fails = n]
                      IN  g \in Site /\ g.status = e.status
        BY <2>1 DEF Site
      <3>2. e.cfg.maxRetries + 1 \in Nat /\ e.fails + 1 \in Nat
        BY <2>1
      <3>3. QED BY <2>1, <3>1, <3>2 DEF Failed
    <2>3. FoldCheck(e, r) = [f EXCEPT !.lastCheck = r.at, !.cert = r.cert,
                                      !.warned = WarnedAfter(e, r)]
      BY <1>3 DEF FoldCheck
    <2> HIDE DEF f
    <2>4. QED BY <1>1, <1>3, <2>2, <2>3
  <1>4. QED BY <1>2, <1>3

\* One fold, outside maintenance, of a verdict a check can reach.
LEMMA PagedByFold ==
  ASSUME NEW prev \in Status, NEW next, NEW v \in {"UP", "DOWN", "SSL EXP"},
         v = "UP" => next = "UP", v # "UP" => next \in {prev, v}
  PROVE  LET page == PageFor(prev, next, FALSE)
         IN  /\ page = "none" => (IsBroken(prev) <=> IsBroken(next))
             /\ page = "DOWN" => IsBroken(next)
             /\ page = "RECOVERY" => ~IsBroken(next)
             /\ page \in Pages
  BY DEF PageFor, IsBroken, Pages

LEMMA PagedFold ==
  ASSUME TypeOK, JobsInv, NEW a \in Actors, Fold(a), NEW s \in present,
         Plain(s), PagedOK(s)
  PROVE  PagedOK(s)'
  <1> DEFINE t == job[a].site
             r == job[a].result
             e == FoldCheck(live[t], r)
             page == PageFor(live[t].status, e.status, job[a].inMaint)
  <1>0. live \in [Sites -> Site] /\ lastPage \in [Sites -> Pages \cup {"seeded"}]
        /\ s \in Sites
    BY DEF TypeOK
  <1>1. CASE t \in present /\ ~IsStale(live[t], r)
    <2>1. /\ t \in Sites /\ r \in Result /\ live[t] \in Site
          /\ live' = [live EXCEPT ![t] = e]
          /\ lastPage' = [lastPage EXCEPT ![t] =
               IF page = "none" THEN @ ELSE page]
      BY <1>1, FoldFacts DEF Counts
    <2>2. CASE t # s
      BY <1>0, <2>1, <2>2, PagedKept
    <2>3. CASE t = s
      <3>1. r.verdict \in {"UP", "DOWN", "SSL EXP"} /\ job[a].inMaint = FALSE
        <4>1. Origin(a) /\ ~job[a].inMaint /\ Only(t, "http")
          BY <2>3 DEF JobsInv, JobOK, Fold, Plain
        <4>2. job[a].inMaint \in BOOLEAN
          BY DEF TypeOK, Job
        <4>3. QED BY <4>1, <4>2 DEF Origin, Only, May
      <3>2. /\ r.verdict = "UP" => e.status = "UP"
            /\ r.verdict # "UP" => e.status \in {live[t].status, r.verdict}
        BY <2>1, FoldCheckStatus
      <3>3. live[t].status \in Status /\ page = PageFor(live[t].status, e.status, FALSE)
        BY <2>1, <3>1 DEF Site
      <3>4. /\ page = "none" => (IsBroken(live[t].status) <=> IsBroken(e.status))
            /\ page = "DOWN" => IsBroken(e.status)
            /\ page = "RECOVERY" => ~IsBroken(e.status)
            /\ page \in Pages
        BY <3>1, <3>2, <3>3, PagedByFold
      <3> HIDE DEF e, page, r, t
      <3>5. live'[s] = e /\ lastPage'[s] = IF page = "none" THEN lastPage[s] ELSE page
        BY <1>0, <2>1, <2>3
      <3>6. QED BY <2>3, <3>4, <3>5 DEF PagedOK, Pages
    <2>4. QED BY <2>2, <2>3
  <1>2. CASE ~(t \in present /\ ~IsStale(live[t], r))
    BY <1>2, FoldDropped, PagedKept
  <1>3. QED BY <1>1, <1>2

LEMMA PagedStep ==
  ASSUME TypeOK, JobsInv, PagedIffBroken, [Next]_vars
  PROVE  PagedIffBroken'
  <1> SUFFICES ASSUME NEW s \in present', Plain(s) PROVE PagedOK(s)'
    BY DEF PagedIffBroken, Plain, PagedOK, Uncovered, Only
  <1>0. /\ live \in [Sites -> Site] /\ present \subseteq Sites
        /\ lastPage \in [Sites -> Pages \cup {"seeded"}]
        /\ s \in present => PagedOK(s)
    BY PagedFacts DEF TypeOK
  <1>1. CASE Bystander
    BY <1>0, <1>1, BystanderFacts, PagedKept DEF siteVars
  <1>2. ASSUME NEW t \in Sites, NEW c \in Configs[t], UpdateSiteConfig(t, c)
        PROVE  PagedOK(s)'
    <2>1. /\ live' = [live EXCEPT ![t] = [live[t] EXCEPT !.cfg = c]]
          /\ UNCHANGED <<present, lastPage>>
      BY <1>2 DEF UpdateSiteConfig, ghosts
    <2>2. [live[t] EXCEPT !.cfg = c].status = live[t].status
      BY <1>0 DEF Site
    <2>3. QED BY <1>0, <2>1, <2>2, PagedKept
  <1>3. ASSUME NEW t \in Sites, NEW c \in Configs[t], NEW r \in Routines,
               AddSite(t, c, r)
        PROVE  PagedOK(s)'
    <2>1. CASE s = t
      <3>1. /\ live'[s].status = SeedStatus(s)
            /\ lastPage'[s] = IF SeedStatus(s) = "DOWN" THEN "seeded" ELSE "none"
        BY <1>0, <1>3, <2>1 DEF AddSite, NewSite
      <3>2. QED BY <3>1 DEF PagedOK, SeedStatus, IsBroken
    <2>2. CASE s # t
      BY <1>0, <1>3, <2>2, PagedKept DEF AddSite
    <2>3. QED BY <2>1, <2>2
  <1>4. ASSUME NEW t \in Sites, ToggleSitePause(t) PROVE PagedOK(s)'
    <2> DEFINE c == [live[t].cfg EXCEPT !.paused = ~@]
    <2>1. /\ live' = [live EXCEPT ![t] = [live[t] EXCEPT !.cfg = c]]
          /\ UNCHANGED <<present, lastPage>>
      BY <1>4 DEF ToggleSitePause, ghosts
    <2> HIDE DEF c
    <2>2. [live[t] EXCEPT !.cfg = c].status = live[t].status
      BY <1>0 DEF Site
    <2>3. QED BY <1>0, <2>1, <2>2, PagedKept
  <1>5. ASSUME NEW t \in Sites, RemoveSite(t) PROVE PagedOK(s)'
    BY <1>0, <1>5, PagedKept DEF RemoveSite
  <1>6. ASSUME NEW a \in Actors, Fold(a) PROVE PagedOK(s)'
    BY <1>0, <1>6, PagedFold DEF Fold
  <1>7. ASSUME NEW r \in Routines, GroupApply(r) PROVE PagedOK(s)'
    <2>1. job[r].site # s
      BY <1>7 DEF GroupApply, JobsInv, JobOK, Actors, May, Plain, Only
    <2>2. live'[s] = live[s] /\ UNCHANGED <<present, lastPage>>
      BY <1>0, <1>7, <2>1 DEF GroupApply
    <2>3. QED BY <1>0, <2>2, PagedKept
  <1>8. ASSUME NEW h \in Handlers, BeatApply(h) PROVE PagedOK(s)'
    <2>1. job[h].site # s
      BY <1>8 DEF BeatApply, JobsInv, JobOK, Actors, Tokened, HasToken, Plain,
                  Only
    <2>2. live'[s] = live[s] /\ lastPage'[s] = lastPage[s] /\ present' = present
      BY <1>0, <1>8, <2>1 DEF BeatApply, Counts, ghosts
    <2>3. QED BY <1>0, <2>2, PagedKept
  <1>9. QED BY <1>1, <1>2, <1>3, <1>4, <1>5, <1>6, <1>7, <1>8, StepCases

\* The last alert decided about a monitor the engine checks itself, that no
\* window is for, is DOWN exactly while the monitor is broken (or it began in
\* the outage of its history), whatever is edited, removed, added again or
\* reported by probe nodes meanwhile.
THEOREM AlertsTruthful == Spec => []PagedIffBroken
  <1>1. Init => PagedIffBroken
    BY DEF Init, PagedIffBroken
  <1>2. TypeOK /\ JobsInv /\ PagedIffBroken /\ [Next]_vars => PagedIffBroken'
    BY PagedStep
  <1>3. QED BY <1>1, <1>2, TypeCorrect, JobsSound, PTL DEF Spec

-----------------------------------------------------------------------------
(* The log follows the status.                                             *)

\* While a monitor's only goroutine still has to log, the row it will queue
\* is the monitor's status; otherwise the newest row queued is.
LogOK(s, r) ==
  s \in present \ Probed /\ Unpushed(s) /\ Serves(r, s) =>
    IF pc[r] = "emit" /\ effect[r].row
    THEN effect[r].to = live[s].status
    ELSE logged[s] \in {"none", "PENDING", live[s].status}

LogInv == \A s \in Sites, r \in Routines : LogOK(s, r)

\* Neither the monitor nor what its goroutine still has to log changes.
LEMMA LogKept ==
  ASSUME NEW s, NEW r, LogOK(s, r), s \in present,
         live'[s].status = live[s].status, logged'[s] = logged[s],
         pc'[r] = "emit" <=> pc[r] = "emit", effect'[r] = effect[r],
         Serves(r, s)' => Serves(r, s)
  PROVE  LogOK(s, r)'
  BY DEF LogOK, Unpushed

\* Nobody else works on a monitor served by one routine alone.
LEMMA WorksAlone ==
  ASSUME JobsInv, NEW s \in Sites \ Probed, Unpushed(s), NEW r \in Routines,
         Serves(r, s), NEW a \in Actors, pc[a] # "idle"
  PROVE  job[a].site = s <=> a = r
  <1>1. JobOK(a)
    BY DEF JobsInv
  <1>2. CASE a \in Routines
    BY <1>1, <1>2 DEF JobOK, Serves
  <1>3. CASE a \in Handlers
    BY <1>1, <1>3, EngineAssumption DEF JobOK, Unpushed, Tokened
  <1>4. QED BY <1>2, <1>3 DEF Actors

\* The routine of s moves its status from prev to next.
LEMMA LogMoved ==
  ASSUME NEW s \in present \ Probed, NEW r \in Routines, LogOK(s, r),
         Unpushed(s), Serves(r, s), pc[r] # "emit", pc'[r] = "emit",
         effect'[r].row = LogsChange(live[s].status, live'[s].status),
         effect'[r].to = live'[s].status, UNCHANGED logged
  PROVE  LogOK(s, r)'
  BY DEF LogOK, LogsChange

LEMMA LogFold ==
  ASSUME TypeOK, JobsInv, NEW s \in present \ Probed, Unpushed(s),
         NEW r \in Routines, Serves(r, s), LogOK(s, r),
         NEW a \in Actors, Fold(a)
  PROVE  LogOK(s, r)'
  <1> DEFINE t == job[a].site
             res == job[a].result
             e == FoldCheck(live[t], res)
  <1>0. /\ live \in [Sites -> Site] /\ s \in Sites /\ r \in Actors
        /\ pc \in [Actors -> Phases] /\ effect \in [Actors -> Effect]
        /\ pc[a] = "fold" /\ owner' = owner
    BY DEF TypeOK, Actors, Fold
  <1>1. Serves(r, s)' => Serves(r, s)
    BY <1>0 DEF Serves
  <1>2. t = s <=> a = r
    BY <1>0, WorksAlone
  <1>3. CASE t \in present /\ ~IsStale(live[t], res)
    <2>1. /\ t \in Sites /\ live' = [live EXCEPT ![t] = e]
          /\ pc' = [pc EXCEPT ![a] = "emit"] /\ UNCHANGED logged
      BY <1>3, FoldFacts DEF Counts
    <2>2. CASE t = s
      <3> DEFINE row == LogsChange(live[t].status, e.status)
                 eff == [row |-> row, to |-> e.status,
                         page |-> PageFor(live[t].status, e.status,
                                          job[a].inMaint),
                         warn |-> WarnsNow(live[t], res) /\ ~job[a].inMaint,
                         up |-> res.verdict = "UP"]
      <3>1. effect' = [effect EXCEPT ![a] = eff]
        BY <1>3 DEF Fold
      <3>2. eff.row = row /\ eff.to = e.status
        OBVIOUS
      <3> HIDE DEF eff, e, t
      <3>3. effect'[r].row = row /\ effect'[r].to = e.status
        BY <1>0, <1>2, <2>2, <3>1, <3>2
      <3>4. live'[s] = e
        BY <1>0, <2>1, <2>2
      <3>5. QED BY <1>0, <1>2, <2>1, <2>2, <3>3, <3>4, LogMoved
    <2>3. CASE t # s
      <3>1. effect'[r] = effect[r] /\ pc'[r] = pc[r]
        BY <1>0, <1>2, <1>3, <2>3 DEF Fold
      <3>2. live'[s] = live[s]
        BY <1>0, <2>1, <2>3
      <3>3. QED BY <1>1, <2>1, <3>1, <3>2, LogKept
    <2>4. QED BY <2>2, <2>3
  <1>4. CASE ~(t \in present /\ ~IsStale(live[t], res))
    <2>1. pc' = [pc EXCEPT ![a] = "idle"] /\ UNCHANGED <<live, effect, logged>>
      BY <1>4, FoldDropped
    <2>2. pc'[r] = "emit" <=> pc[r] = "emit"
      BY <1>0, <2>1
    <2>3. QED BY <1>1, <2>1, <2>2, LogKept
  <1>5. QED BY <1>3, <1>4

LEMMA LogRollUp ==
  ASSUME TypeOK, JobsInv, NEW s \in present \ Probed, Unpushed(s),
         NEW r \in Routines, Serves(r, s), LogOK(s, r),
         NEW a \in Routines, GroupApply(a)
  PROVE  LogOK(s, r)'
  <1> DEFINE t == job[a].site
             st == job[a].result.verdict
  <1>0. /\ live \in [Sites -> Site] /\ s \in Sites /\ r \in Actors
        /\ a \in Actors /\ pc[a] = "rollup"
        /\ pc' = [pc EXCEPT ![a] = "emit"]
        /\ pc \in [Actors -> Phases] /\ effect \in [Actors -> Effect]
        /\ UNCHANGED <<owner, logged>>
    BY DEF TypeOK, Actors, GroupApply
  <1>1. Serves(r, s)' => Serves(r, s)
    BY <1>0 DEF Serves
  <1>2. t = s <=> a = r
    BY <1>0, WorksAlone
  <1>3. CASE t = s
    <2>1. live' = [live EXCEPT ![s] = [live[s] EXCEPT !.status = st]]
      BY <1>3 DEF GroupApply
    <2>2. live'[s].status = st
      BY <1>0, <2>1 DEF Site
    <2>3. effect'[r].row = LogsChange(live[s].status, st) /\ effect'[r].to = st
      BY <1>0, <1>2, <1>3 DEF GroupApply, LogsChange
    <2> HIDE DEF t, st
    <2>4. QED BY <1>0, <1>2, <1>3, <2>2, <2>3, LogMoved
  <1>4. CASE t # s
    <2>1. effect'[r] = effect[r] /\ pc'[r] = pc[r] /\ live'[s] = live[s]
      BY <1>0, <1>2, <1>4 DEF GroupApply
    <2>2. QED BY <1>0, <1>1, <2>1, LogKept
  <1>5. QED BY <1>3, <1>4

LEMMA LogEmit ==
  ASSUME TypeOK, JobsInv, NEW s \in present \ Probed, Unpushed(s),
         NEW r \in Routines, Serves(r, s), LogOK(s, r),
         NEW a \in Actors, Emit(a)
  PROVE  LogOK(s, r)'
  <1>0. /\ s \in Sites /\ r \in Actors /\ pc \in [Actors -> Phases]
        /\ effect \in [Actors -> Effect]
        /\ logged \in [Sites -> Status \cup {"none"}]
        /\ pc[a] = "emit" /\ UNCHANGED <<owner, live, present>>
        /\ pc' = [pc EXCEPT ![a] = "idle"]
        /\ effect' = [effect EXCEPT ![a] = NoEffect]
    BY DEF TypeOK, Actors, Emit, Done, siteVars
  <1>1. Serves(r, s)' => Serves(r, s)
    BY <1>0 DEF Serves
  <1>2. job[a].site = s <=> a = r
    BY <1>0, WorksAlone
  <1>3. CASE a = r
    <2>1. logged'[s] = IF effect[r].row THEN effect[r].to ELSE logged[s]
      BY <1>0, <1>2, <1>3 DEF Emit
    <2>2. pc'[r] = "idle"
      BY <1>0, <1>3
    <2>3. QED BY <1>0, <1>3, <2>1, <2>2 DEF LogOK
  <1>4. CASE a # r
    <2>1. /\ logged'[s] = logged[s] /\ pc'[r] = pc[r]
          /\ effect'[r] = effect[r]
      BY <1>0, <1>2, <1>4 DEF Emit
    <2>2. QED BY <1>0, <1>1, <2>1, LogKept
  <1>5. QED BY <1>3, <1>4

LEMMA LogBeat ==
  ASSUME TypeOK, JobsInv, NEW s \in present \ Probed, Unpushed(s),
         NEW r \in Routines, LogOK(s, r), NEW h \in Handlers, BeatApply(h)
  PROVE  LogOK(s, r)'
  <1>0. /\ live \in [Sites -> Site] /\ s \in Sites /\ r \in Actors
        /\ h \in Actors /\ pc[h] = "beat" /\ owner' = owner
        /\ pc \in [Actors -> Phases] /\ effect \in [Actors -> Effect]
    BY DEF TypeOK, Actors, BeatApply
  <1>a. h # r
    BY EngineAssumption
  <1>1. Serves(r, s)' => Serves(r, s)
    BY <1>0 DEF Serves
  <1>2. job[h].site # s
    BY <1>0 DEF JobsInv, JobOK, Unpushed, Tokened
  <1>3. /\ live'[s] = live[s] /\ effect'[r] = effect[r] /\ pc'[r] = pc[r]
        /\ logged' = logged
    BY <1>0, <1>a, <1>2 DEF BeatApply, Done, Counts, ghosts
  <1>4. QED BY <1>1, <1>3, LogKept

\* A monitor whose status and log stay, whatever the edit.
LEMMA LogEdit ==
  ASSUME TypeOK, JobsInv, NEW s \in Sites, NEW r \in Routines, LogOK(s, r),
         s \in present' \ Probed, Unpushed(s), Serves(r, s)',
         NEW t \in Sites,
         \/ \E c \in Configs[t] : UpdateSiteConfig(t, c)
         \/ \E c \in Configs[t], q \in Routines : AddSite(t, c, q)
         \/ ToggleSitePause(t)
         \/ RemoveSite(t)
  PROVE  LogOK(s, r)'
  <1>0. /\ live \in [Sites -> Site] /\ r \in Actors
        /\ owner \in [Routines -> Sites \cup {NoSite}]
        /\ logged \in [Sites -> Status \cup {"none"}]
        /\ UNCHANGED <<pc, effect>>
    BY DEF TypeOK, Actors, UpdateSiteConfig, AddSite, ToggleSitePause,
           RemoveSite, actorVars
  <1>1. ASSUME NEW c \in Configs[t], UpdateSiteConfig(t, c)
        PROVE  LogOK(s, r)'
    <2>1. /\ live' = [live EXCEPT ![t] = [live[t] EXCEPT !.cfg = c]]
          /\ UNCHANGED <<present, logged, owner>>
      BY <1>1 DEF UpdateSiteConfig, ghosts, actorVars
    <2>2. [live[t] EXCEPT !.cfg = c].status = live[t].status
      BY <1>0 DEF Site
    <2>3. live'[s].status = live[s].status /\ s \in present
      BY <1>0, <2>1, <2>2
    <2>4. QED BY <1>0, <2>1, <2>3, LogKept DEF Serves
  <1>2. ASSUME ToggleSitePause(t) PROVE LogOK(s, r)'
    <2> DEFINE c == [live[t].cfg EXCEPT !.paused = ~@]
    <2>1. /\ live' = [live EXCEPT ![t] = [live[t] EXCEPT !.cfg = c]]
          /\ UNCHANGED <<present, logged, owner>>
      BY <1>2 DEF ToggleSitePause, ghosts, actorVars
    <2> HIDE DEF c
    <2>2. [live[t] EXCEPT !.cfg = c].status = live[t].status
      BY <1>0 DEF Site
    <2>3. live'[s].status = live[s].status /\ s \in present
      BY <1>0, <2>1, <2>2
    <2>4. QED BY <1>0, <2>1, <2>3, LogKept DEF Serves
  <1>3. ASSUME NEW c \in Configs[t], NEW q \in Routines, AddSite(t, c, q)
        PROVE  LogOK(s, r)'
    <2>1. /\ owner[q] = NoSite /\ owner' = [owner EXCEPT ![q] = t]
          /\ present' = present \cup {t}
          /\ live' = [live EXCEPT ![t] = NewSite(c, SeedStatus(t))]
          /\ logged' = [logged EXCEPT ![t] = "none"]
      BY <1>3 DEF AddSite
    <2>2. CASE t = s
      <3>1. q = r /\ logged'[s] = "none"
        BY <1>0, <2>1, <2>2 DEF Serves
      <3>2. pc[r] = "idle"
        BY <1>0, <2>1, <3>1, NoSiteAssumption DEF JobsInv, JobOK
      <3>3. QED BY <1>0, <3>1, <3>2 DEF LogOK
    <2>3. CASE t # s
      <3>1. Serves(r, s)
        BY <1>0, <2>1, <2>3, NoSiteAssumption DEF Serves
      <3>2. s \in present /\ live'[s] = live[s] /\ logged'[s] = logged[s]
        BY <1>0, <2>1, <2>3
      <3>3. QED BY <1>0, <3>1, <3>2, LogKept
    <2>4. QED BY <2>2, <2>3
  <1>4. ASSUME RemoveSite(t) PROVE LogOK(s, r)'
    <2>1. s # t /\ s \in present /\ owner' = owner
      BY <1>4 DEF RemoveSite, actorVars
    <2>2. live'[s] = live[s] /\ logged'[s] = logged[s]
      BY <1>0, <1>4, <2>1 DEF RemoveSite
    <2>3. QED BY <1>0, <2>1, <2>2, LogKept DEF Serves
  <1>5. QED BY <1>1, <1>2, <1>3, <1>4

\* A step that neither edits, folds nor logs.
LEMMA LogBystander ==
  ASSUME TypeOK, NEW s \in present, NEW r \in Routines, LogOK(s, r),
         Bystander, \A a \in Actors : ~Emit(a)
  PROVE  LogOK(s, r)'
  <1>0. /\ r \in Actors /\ pc \in [Actors -> Phases]
        /\ owner \in [Routines -> Sites \cup {NoSite}]
        /\ NoSite \notin Sites /\ present \subseteq Sites
        /\ UNCHANGED <<present, live>>
    BY BystanderFacts, NoSiteAssumption DEF TypeOK, Actors, siteVars
  <1> DEFINE Kept == /\ pc'[r] = "emit" <=> pc[r] = "emit"
                     /\ UNCHANGED <<effect, logged>>
                     /\ Serves(r, s)' => Serves(r, s)
  <1>1. ASSUME \/ Tick \/ (\E b \in BOOLEAN : SetActive(b))
               \/ (\E w \in Windows : RefreshMaintenance(w))
               \/ UNCHANGED vars
        PROVE  Kept
    BY <1>1 DEF Tick, SetActive, RefreshMaintenance, vars, actorVars, ghosts,
                Serves
  <1>2. ASSUME NEW q \in Routines,
               \/ CheckStart(q) \/ CheckPush(q) \/ RollUp(q)
               \/ \E out \in Results : ProbeReturns(q, out)
        PROVE  Kept
    BY <1>0, <1>2 DEF CheckStart, CheckPush, RollUp, ProbeReturns, CheckPhase,
                      Done, Advance, ghosts, Serves
  <1>3. ASSUME NEW q \in Routines, RoutineExit(q) PROVE Kept
    BY <1>0, <1>3 DEF RoutineExit, ghosts, Serves
  <1>4. ASSUME NEW a \in Actors, Gate(a) PROVE Kept
    BY <1>0, <1>4 DEF Gate, Done, ghosts, Serves
  <1>5. ASSUME NEW h \in Handlers, NEW t \in Sites,
               BeatStart(h, t) \/ \E up \in BOOLEAN : ProbeReport(h, t, up)
        PROVE  Kept
    BY <1>0, <1>5 DEF BeatStart, ProbeReport, ghosts, Serves
  <1>6. Kept
    BY <1>1, <1>2, <1>3, <1>4, <1>5 DEF Bystander
  <1>7. QED BY <1>0, <1>6, LogKept

LEMMA LogStep ==
  ASSUME TypeOK, JobsInv, LogInv, [Next]_vars
  PROVE  LogInv'
  <1> SUFFICES ASSUME NEW s \in Sites, NEW r \in Routines,
                      s \in present' \ Probed, Unpushed(s), Serves(r, s)'
               PROVE  LogOK(s, r)'
    BY DEF LogInv, LogOK, Unpushed
  <1>0. LogOK(s, r)
    BY DEF LogInv
  <1>1. CASE Bystander /\ \A a \in Actors : ~Emit(a)
    BY <1>0, <1>1, BystanderFacts, LogBystander DEF siteVars
  <1>2. ASSUME NEW a \in Actors, Emit(a) PROVE LogOK(s, r)'
    <2>1. s \in present /\ Serves(r, s)
      BY <1>2 DEF Emit, siteVars, Serves
    <2>2. QED BY <1>0, <1>2, <2>1, LogEmit
  <1>3. ASSUME NEW t \in Sites,
               \/ \E c \in Configs[t] : UpdateSiteConfig(t, c)
               \/ \E c \in Configs[t], q \in Routines : AddSite(t, c, q)
               \/ ToggleSitePause(t)
               \/ RemoveSite(t)
        PROVE  LogOK(s, r)'
    BY <1>0, <1>3, LogEdit
  <1>4. ASSUME NEW a \in Actors, Fold(a) PROVE LogOK(s, r)'
    <2>1. s \in present /\ Serves(r, s)
      BY <1>4 DEF Fold, Serves
    <2>2. QED BY <1>0, <1>4, <2>1, LogFold
  <1>5. ASSUME NEW a \in Routines, GroupApply(a) PROVE LogOK(s, r)'
    <2>1. s \in present /\ Serves(r, s)
      BY <1>5 DEF GroupApply, Serves
    <2>2. QED BY <1>0, <1>5, <2>1, LogRollUp
  <1>6. ASSUME NEW h \in Handlers, BeatApply(h) PROVE LogOK(s, r)'
    <2>1. s \in present
      BY <1>6 DEF BeatApply
    <2>2. QED BY <1>0, <1>6, <2>1, LogBeat
  <1>7. QED BY <1>1, <1>2, <1>3, <1>4, <1>5, <1>6, StepCases

LEMMA LogFollows ==
  ASSUME TypeOK, JobsInv, LogInv PROVE LogFollowsStatus
  <1> SUFFICES ASSUME NEW s \in present \ Probed, Unpushed(s), Quiet(s)
               PROVE  logged[s] \in {"none", "PENDING", live[s].status}
    BY DEF LogFollowsStatus
  <1>1. PICK r \in Routines : Serves(r, s)
    BY DEF Quiet
  <1>2. s \in Sites /\ r \in Actors /\ owner[r] = s /\ job[r].site # s
    BY <1>1 DEF TypeOK, Quiet, Serves, Actors
  <1>3. pc[r] = "idle"
    BY <1>2 DEF JobsInv, JobOK
  <1>4. QED BY <1>1, <1>2, <1>3 DEF LogInv, LogOK

\* When nobody is working on a monitor served by one routine alone, without
\* reports or heartbeats, the newest row of its state-change log ends in the
\* status it has, or the monitor has never left PENDING in the log.
THEOREM LogTruthful == Spec => []LogFollowsStatus
  <1>1. Init => LogInv
    BY DEF Init, LogInv, LogOK
  <1>2. TypeOK /\ JobsInv /\ LogInv /\ [Next]_vars => LogInv'
    BY LogStep
  <1>3. TypeOK /\ JobsInv /\ LogInv => LogFollowsStatus
    BY LogFollows
  <1>4. QED BY <1>1, <1>2, <1>3, TypeCorrect, JobsSound, PTL DEF Spec

=============================================================================
