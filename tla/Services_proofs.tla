--------------------------- MODULE Services_proofs ---------------------------
(***************************************************************************)
(* What the services promise, for any values of their constants and in the *)
(* specification of all of them.  `uptop apply', the poll loop and the     *)
(* report are proved in modules of their own; the login, the probes, the   *)
(* limiter and the maintenance windows here.                               *)
(***************************************************************************)
EXTENDS Services, TLAPS

PollP == INSTANCE SitePoll_proofs WITH MaxEdits <- PollEdits,
  db <- sDb, live <- sLive, index <- sIndex, routines <- sRoutines, poll <- sPoll,
  form <- sForm, cmds <- sCmds, edits <- sEdits
SlaP == INSTANCE History_proofs WITH
  Windows <- Ranges, MaxTime <- ReportTime, MaxChanges <- StatusChanges,
  now <- hNow, status <- hStatus, past <- hPast, changes <- hChanges,
  unsaved <- hUnsaved, request <- hRequest, report <- hReport
ConfP == INSTANCE ConfigApply_proofs WITH MaxFaults <- ConfigFaults,
  db <- cDb, run <- cRun, prev <- cPrev, runs <- cRuns, faults <- cFaults

-----------------------------------------------------------------------------
(* A step of the whole is a step of a service, or leaves it alone.         *)

LEMMA Steps ==
  ASSUME [Next]_vars
  PROVE  /\ [Config!Next]_cVars /\ [Poll!Next]_sVars /\ [Probe!Next]_pVars
         /\ [Limiter!Next]_rVars /\ [Login!Next]_kVars /\ [Sla!Next]_hVars
         /\ [Maint!Next]_wVars
  <1>1. CASE UNCHANGED vars
    BY <1>1 DEF vars
  <1>2. CASE Next
    BY <1>2 DEF Next, ConfigSteps, PollSteps, ProbeSteps, LimitSteps, LoginSteps,
       SlaSteps, MaintSteps
  <1>3. QED BY <1>1, <1>2

LEMMA Starts ==
  Init => /\ Config!Init /\ Poll!Init /\ Probe!Init /\ Limiter!Init /\ Login!Init /\ Sla!Init
          /\ Maint!Init
  BY DEF Init

LEMMA SpecSafety == Spec => Init /\ [][Next]_vars
  BY PTL DEF Spec

-----------------------------------------------------------------------------
(* The login: a removed key stays out, for any keys, attempts and number of *)
(* changes.                                                                *)

AttemptsTyped ==
  kAttempt \in [Attempts -> [pc : {"idle", "read", "fill", "match"},
                            key : UserKeys \cup {Login!NoKey}, list : SUBSET UserKeys]]

\* What a refresh holds is in the table, or was noted as read too early when
\* it left the table; so is what the cache holds of the removed keys.
CacheInv ==
  /\ kUsers \subseteq UserKeys
  /\ AttemptsTyped
  /\ kRevoked \cap kUsers = {}
  /\ kCache \cap kRevoked \subseteq kOverlaps
  /\ \A a \in Attempts :
       kAttempt[a].pc = "fill" => kAttempt[a].list \subseteq kUsers \cup kOverlaps

\* At the start nothing is cached, read or removed.
LEMMA LoginInit ==
  ASSUME Login!KeyCacheAssumption, Login!Init
  PROVE  CacheInv
BY DEF Login!Init, CacheInv, AttemptsTyped, Login!Idle

\* Steps of an attempt.
LEMMA AttemptKeeps ==
  ASSUME CacheInv, NEW a \in Attempts,
         \/ \E k \in UserKeys : Login!Ask(a, k)
         \/ Login!Read(a) \/ Login!ReadFails(a) \/ Login!Fill(a) \/ Login!Match(a)
  PROVE  CacheInv'
<1>. USE DEF CacheInv, AttemptsTyped
<1>1. CASE \E k \in UserKeys : Login!Ask(a, k)
  BY <1>1 DEF Login!Ask
<1>2. CASE Login!Read(a)
  BY <1>2 DEF Login!Read
<1>3. CASE Login!ReadFails(a)
  BY <1>3 DEF Login!ReadFails
<1>4. CASE Login!Fill(a)
  \* The cache becomes the list: its removed keys are not in the table.
  BY <1>4 DEF Login!Fill
<1>5. CASE Login!Match(a)
  BY <1>5 DEF Login!Match, Login!Idle
<1>. QED BY <1>1, <1>2, <1>3, <1>4, <1>5

\* A change of the table notes the keys it takes from under a refresh.
LEMMA ChangeKeeps ==
  ASSUME CacheInv, NEW to \in SUBSET UserKeys, Login!ChangeUsers(to)
  PROVE  CacheInv'
<1>1. \A a \in Attempts :
        kAttempt[a].pc = "fill" => kAttempt[a].list \subseteq to \cup kOverlaps'
  <2>. SUFFICES ASSUME NEW a \in Attempts, kAttempt[a].pc = "fill",
                       NEW k \in kAttempt[a].list \ to
                PROVE  k \in kOverlaps'
    OBVIOUS
  <2>. QED BY DEF Login!ChangeUsers
<1>2. /\ kUsers' = to /\ kAttempt' = kAttempt /\ kCache' = kCache
      /\ kRevoked' = kRevoked \ to /\ kOverlaps \subseteq kOverlaps'
  BY DEF Login!ChangeUsers
<1>. QED BY <1>1, <1>2 DEF CacheInv, AttemptsTyped

LEMMA InvalidateKeeps ==
  ASSUME CacheInv, Login!Invalidate
  PROVE  CacheInv'
BY DEF Login!Invalidate, CacheInv, AttemptsTyped

LEMMA LoginRestartKeeps ==
  ASSUME Login!KeyCacheAssumption, CacheInv, Login!Restart
  PROVE  CacheInv'
BY DEF Login!Restart, CacheInv, AttemptsTyped, Login!Idle, Login!KeyCacheAssumption

\* The invariant is inductive.
LEMMA LoginStep ==
  ASSUME Login!KeyCacheAssumption, CacheInv, [Login!Next]_kVars
  PROVE  CacheInv'
<1>1. CASE \E a \in Attempts : \/ \E k \in UserKeys : Login!Ask(a, k)
                              \/ Login!Read(a) \/ Login!ReadFails(a)
                                 \/ Login!Fill(a) \/ Login!Match(a)
  BY <1>1, AttemptKeeps
<1>2. CASE \E to \in SUBSET UserKeys : Login!ChangeUsers(to)
  BY <1>2, ChangeKeeps
<1>3. CASE \/ \E k \in UserKeys : Login!AddUser(k) \/ Login!DeleteUser(k)
           \/ \E j, k \in UserKeys : Login!UpdateUser(j, k)
           \/ \E ks \in SUBSET UserKeys : Login!ImportData(ks)
           \/ Login!ChangeFails
  <2>1. \E to \in SUBSET UserKeys : Login!ChangeUsers(to)
    BY <1>3 DEF Login!AddUser, Login!DeleteUser, Login!UpdateUser, Login!ImportData,
       Login!ChangeFails, CacheInv
  <2>. QED BY <2>1, <1>2
<1>4. CASE Login!TtlPasses
  BY <1>4 DEF Login!TtlPasses, CacheInv, AttemptsTyped
<1>5. CASE UNCHANGED kVars
  BY <1>5 DEF kVars, CacheInv, AttemptsTyped
<1>. QED BY <1>1, <1>3, <1>4, <1>5, InvalidateKeeps, LoginRestartKeeps DEF Login!Next

\* main.go, keyCache.Invalidate: a key whose removal is complete is accepted by
\* no attempt, except one that a refresh had read before and put back after it.
THEOREM RemovalProved == Spec => []RemovalTakesEffect
  <1>1. Init => CacheInv
    BY Starts, LoginInit, ServicesAssumption
  <1>2. CacheInv /\ [Next]_vars => CacheInv'
    BY Steps, LoginStep, ServicesAssumption
  <1>3. CacheInv => RemovalTakesEffect
    BY DEF CacheInv, RemovalTakesEffect, Login!RemovalTakesEffect, Login!Accepts
  <1>4. QED BY <1>1, <1>2, <1>3, SpecSafety, PTL

-----------------------------------------------------------------------------
(* Regions are respected: for any probes, sites and regions, and whatever   *)
(* is lost, delayed, removed or restarted.                                 *)

\* May the probe's results for this site count?
Allowed(p, s) == Probe!Covers(p, s) \/ p \in pBlind

IsHandler(h) == DOMAIN h = {"from", "todo", "pc", "site", "up"}

HandlerAllowed(h) ==
  /\ \A s \in DOMAIN h.todo : Allowed(h.from, s)
  /\ h.pc \in {"record", "apply"} => Allowed(h.from, h.site)

\* From the assignment to the result, a site stays with a probe it is allowed.
RegionInv ==
  /\ pProbe = [p \in Probes |-> pProbe[p]]
  /\ \A p \in Probes : pProbe[p].pc = "report"
       => \A s \in DOMAIN pProbe[p].checked : Allowed(p, s)
  /\ \A h \in pInbox : IsHandler(h) /\ HandlerAllowed(h)
  /\ \A k \in DOMAIN pResults : Allowed(k[2], k[1])

LEMMA ProbeInit == Probe!Init => RegionInv
BY DEF Probe!Init, RegionInv, Probe!At

-----------------------------------------------------------------------------
\* The probe's own steps.
LEMMA AskKeeps ==
  ASSUME RegionInv, NEW p \in Probes, Probe!Ask(p) \/ Probe!AskUnknown(p)
  PROVE  RegionInv'
<1>1. /\ pInbox' = pInbox /\ pResults' = pResults /\ pBlind \subseteq pBlind'
      /\ pProbe' = [pProbe EXCEPT ![p] = pProbe'[p]] /\ pRegion' = pRegion
  BY DEF Probe!Ask, Probe!AskUnknown, RegionInv
<1>2. \A s \in DOMAIN pProbe'[p].checked : Probe!Covers(p, s) \/ p \in pBlind'
  <2>1. CASE Probe!Ask(p)
    <3>1. /\ DOMAIN pProbe'[p].checked = Probe!Assigned(p, p \in pNodes)
          /\ p \notin pNodes => p \in pBlind'
      BY <2>1 DEF Probe!Ask, RegionInv
    <3>. QED BY <3>1 DEF Probe!Assigned, Probe!Covers
  <2>2. CASE Probe!AskUnknown(p)
    BY <2>2 DEF Probe!AskUnknown
  <2>. QED BY <2>1, <2>2
<1>. QED BY <1>1, <1>2 DEF RegionInv, HandlerAllowed, Allowed, Probe!Covers

LEMMA ReportKeeps ==
  ASSUME RegionInv, NEW p \in Probes, Probe!Report(p)
  PROVE  RegionInv'
<1>. DEFINE h == [from |-> p, todo |-> pProbe[p].checked, pc |-> "next",
                  site |-> "", up |-> FALSE]
<1>1. /\ pProbe[p].pc = "report" /\ pInbox' \subseteq pInbox \cup {h}
      /\ pResults' = pResults
      /\ pBlind' = pBlind /\ pProbe' = [pProbe EXCEPT ![p] = Probe!At("sleep")]
      /\ pRegion' = pRegion
  BY DEF Probe!Report, Probe!Unfinished
<1>2. IsHandler(h) /\ HandlerAllowed(h)
  BY <1>1 DEF RegionInv, IsHandler, HandlerAllowed
<1>. HIDE DEF h
<1>3. \A g \in pInbox' : IsHandler(g) /\ HandlerAllowed(g)
  BY <1>1, <1>2 DEF RegionInv
<1>. QED BY <1>1, <1>3 DEF RegionInv, HandlerAllowed, Allowed, Probe!Covers, Probe!At

LEMMA OtherProbeKeeps ==
  ASSUME RegionInv, NEW p \in Probes,
         \/ Probe!Register(p) \/ Probe!RegisterFails(p) \/ Probe!RoundLost(p)
         \/ Probe!Crash(p) \/ Probe!Restart(p)
  PROVE  RegionInv'
<1>1. /\ pInbox' = pInbox /\ pResults' = pResults /\ pBlind' = pBlind
      /\ pRegion' = pRegion
      /\ \E pc \in {"ask", "sleep", "gone", "register"} :
           pProbe' = [pProbe EXCEPT ![p] = Probe!At(pc)]
  BY DEF Probe!Register, Probe!RegisterFails, Probe!RoundLost, Probe!Crash, Probe!Restart
<1>. QED BY <1>1 DEF RegionInv, HandlerAllowed, Allowed, Probe!Covers, Probe!At

-----------------------------------------------------------------------------
\* A handler's steps: it is replaced by one for which the same holds.
LEMMA LookKeeps ==
  ASSUME RegionInv, NEW h \in pInbox, NEW s \in DOMAIN h.todo, Probe!Look(h, s)
  PROVE  RegionInv'
<1>. DEFINE rest == [t \in DOMAIN h.todo \ {s} |-> h.todo[t]]
            g == [h EXCEPT !.todo = rest, !.pc = IF s \in pLive THEN "record" ELSE "next",
                           !.site = s, !.up = h.todo[s]]
<1>1. IsHandler(h) /\ HandlerAllowed(h)
  BY DEF RegionInv
<1>2. /\ pInbox' \subseteq pInbox \cup {g}
      /\ pResults' = pResults /\ pBlind' = pBlind /\ pProbe' = pProbe /\ pRegion' = pRegion
  BY DEF Probe!Look, Probe!Unfinished
<1>3. DOMAIN rest = DOMAIN h.todo \ {s}
  OBVIOUS
<1>. HIDE DEF rest
<1>4. IsHandler(g) /\ g.from = h.from /\ g.todo = rest /\ g.site = s
  BY <1>1 DEF IsHandler
<1>. HIDE DEF g
<1>5. HandlerAllowed(g)
  BY <1>1, <1>3, <1>4 DEF HandlerAllowed
<1>. QED BY <1>2, <1>4, <1>5 DEF RegionInv, HandlerAllowed, Allowed, Probe!Covers

LEMMA RecordKeeps ==
  ASSUME RegionInv, NEW h \in pInbox, Probe!Record(h)
  PROVE  RegionInv'
<1>1. IsHandler(h) /\ HandlerAllowed(h) /\ h.pc = "record"
  BY DEF RegionInv, Probe!Record
<1>2. PICK rs : pInbox' = (pInbox \ {h}) \cup
                   {[h EXCEPT !.pc = "apply", !.up = Probe!AggregateStatus(rs, pStrategy)]}
  BY DEF Probe!Record
<1>3. /\ pBlind' = pBlind /\ pProbe' = pProbe /\ pRegion' = pRegion
      /\ DOMAIN pResults' \subseteq DOMAIN pResults \cup {<<h.site, h.from>>}
  BY DEF Probe!Record, Probe!Fresh
<1>. DEFINE g == [h EXCEPT !.pc = "apply", !.up = Probe!AggregateStatus(rs, pStrategy)]
<1>4. pInbox' = (pInbox \ {h}) \cup {g}
  BY <1>2
<1>5. IsHandler(g) /\ g.from = h.from /\ g.todo = h.todo /\ g.site = h.site
  BY <1>1 DEF IsHandler
<1>. HIDE DEF g
<1>6. HandlerAllowed(g)
  BY <1>1, <1>5 DEF HandlerAllowed
<1>. QED BY <1>1, <1>3, <1>4, <1>5, <1>6
       DEF RegionInv, HandlerAllowed, Allowed, Probe!Covers

LEMMA ApplyKeeps ==
  ASSUME RegionInv, NEW h \in pInbox, Probe!Apply(h)
  PROVE  RegionInv'
<1>. DEFINE g == [h EXCEPT !.pc = "next", !.site = "", !.up = FALSE]
<1>1. IsHandler(h) /\ HandlerAllowed(h)
  BY DEF RegionInv
<1>2. /\ pInbox' \subseteq pInbox \cup {g}
      /\ pResults' = pResults /\ pBlind' = pBlind /\ pProbe' = pProbe /\ pRegion' = pRegion
  BY DEF Probe!Apply, Probe!Unfinished
<1>3. IsHandler(g) /\ g.from = h.from /\ g.todo = h.todo /\ g.pc = "next"
  BY <1>1 DEF IsHandler
<1>. HIDE DEF g
<1>4. HandlerAllowed(g)
  BY <1>1, <1>3 DEF HandlerAllowed
<1>. QED BY <1>2, <1>3, <1>4 DEF RegionInv, HandlerAllowed, Allowed, Probe!Covers

-----------------------------------------------------------------------------
\* Sites come and go, the world changes, time passes.
LEMMA WorldKeeps ==
  ASSUME RegionInv,
         \/ \E s \in ProbedSites : Probe!RemoveSite(s) \/ Probe!SiteBack(s) \/ Probe!Toggle(s)
         \/ \E p \in Probes, s \in ProbedSites : Probe!Flip(p, s)
         \/ UNCHANGED pVars
  PROVE  RegionInv'
<1>1. /\ pInbox' = pInbox /\ pBlind' = pBlind /\ pProbe' = pProbe /\ pRegion' = pRegion
      /\ DOMAIN pResults' \subseteq DOMAIN pResults
  BY DEF Probe!RemoveSite, Probe!SiteBack, Probe!Toggle, Probe!Flip, pVars
<1>. QED BY <1>1 DEF RegionInv, HandlerAllowed, Allowed, Probe!Covers

LEMMA TickKeeps ==
  ASSUME RegionInv, Probe!Tick
  PROVE  RegionInv'
<1>1. /\ pInbox' = pInbox /\ pBlind' = pBlind /\ DOMAIN pResults' = DOMAIN pResults
      /\ pRegion' = pRegion
      /\ pProbe' = [p \in Probes |-> IF pProbe[p].pc = "sleep" THEN Probe!At("ask")
                                    ELSE pProbe[p]]
  BY DEF Probe!Tick
<1>. QED BY <1>1 DEF RegionInv, HandlerAllowed, Allowed, Probe!Covers, Probe!At

LEMMA ProbesStep ==
  ASSUME RegionInv, [Probe!Next]_pVars
  PROVE  RegionInv'
<1>1. CASE \E p \in Probes : Probe!ProbeStep(p) \/ Probe!RegisterFails(p) \/ Probe!AskUnknown(p)
                              \/ Probe!RoundLost(p) \/ Probe!Crash(p) \/ Probe!Restart(p)
  BY <1>1, AskKeeps, ReportKeeps, OtherProbeKeeps DEF Probe!ProbeStep
<1>2. CASE \E h \in pInbox : Probe!Handle(h)
  BY <1>2, LookKeeps, RecordKeeps, ApplyKeeps DEF Probe!Handle
<1>. QED BY <1>1, <1>2, WorldKeeps, TickKeeps DEF Probe!Next

\* server.go, handleProbeAssignments: a probe that has a region is given the
\* monitors of that region, so no result from elsewhere counts, unless the
\* leader did not know the region; one without is given, and counts for, all.
THEOREM RegionProved == Spec => []RegionRespected
  <1>1. Init => RegionInv
    BY Starts, ProbeInit
  <1>2. RegionInv /\ [Next]_vars => RegionInv'
    BY Steps, ProbesStep
  <1>3. RegionInv => RegionRespected
    BY DEF RegionInv, RegionRespected, Probe!RegionRespected, Allowed
  <1>4. QED BY <1>1, <1>2, <1>3, SpecSafety, PTL

-----------------------------------------------------------------------------
(* The limiter: the limit holds, for any clients, burst, cost, cutoff and  *)
(* bound on the number of buckets.                                         *)

\* What a client has spent in the window, together with what its bucket still
\* holds, has flowed in since the window began, or was in the bucket then.  A
\* client without a bucket has had the time to fill one.
Accounted(c) ==
  IF c \in DOMAIN rVisitors
  THEN IF rVisitors[c].seen < rFrom
       THEN rSpent[c] = 0
       ELSE rSpent[c] + rVisitors[c].tokens + rFrom <= Burst + rVisitors[c].seen
  ELSE rSpent[c] = 0 \/ rSpent[c] + rFrom <= rClock

LimitInv ==
  /\ Limiter!TypeOK
  /\ Limiter!Watched => \A c \in Clients \ rEvicted : Accounted(c)
  /\ ~Limiter!Watched => \A c \in Clients : rSpent[c] = 0

-----------------------------------------------------------------------------
\* Types.
LEMMA LimiterInit ==
  ASSUME Limiter!LimiterAssumption, Limiter!Init
  PROVE  Limiter!TypeOK
BY DEF Limiter!Init, Limiter!TypeOK, Limiter!LimiterAssumption

\* Taking buckets out keeps the map well formed and the others as they are.
Buckets == [tokens : 0..Burst, seen : 0..rClock]

LEMMA DropTyped ==
  ASSUME Limiter!TypeOK, NEW gone
  PROVE  /\ DOMAIN Limiter!Drop(rVisitors, gone) = DOMAIN rVisitors \ gone
         /\ Limiter!Drop(rVisitors, gone) \in [DOMAIN rVisitors \ gone -> Buckets]
         /\ \A x \in DOMAIN rVisitors \ gone : Limiter!Drop(rVisitors, gone)[x] = rVisitors[x]
BY DEF Limiter!Drop, Limiter!TypeOK, Buckets

\* A bucket never holds more than Burst, nor less than what was left in it.
LEMMA RefilledTyped ==
  ASSUME Limiter!LimiterAssumption, Limiter!TypeOK, NEW c \in DOMAIN rVisitors
  PROVE  /\ rVisitors[c].tokens \in 0..Burst
         /\ rVisitors[c].seen \in 0..rClock
         /\ rClock \in Nat /\ Burst \in Nat
         /\ Limiter!Refilled(c) \in 0..Burst
         /\ Limiter!Refilled(c) <= rVisitors[c].tokens + (rClock - rVisitors[c].seen)
<1>1. rVisitors[c] \in [tokens : 0..Burst, seen : 0..rClock]
  BY DEF Limiter!TypeOK
<1>2. /\ rVisitors[c].tokens \in 0..Burst /\ rVisitors[c].seen \in 0..rClock
      /\ rClock \in Nat /\ Burst \in Nat
  BY <1>1 DEF Limiter!TypeOK, Limiter!LimiterAssumption
<1>. QED BY <1>2 DEF Limiter!Refilled

\* What is paid.
LEMMA Paid ==
  ASSUME Limiter!LimiterAssumption, Limiter!TypeOK, NEW c \in Clients, Limiter!Pay(c)
  PROVE  /\ rSpent' \in [Clients -> Nat]
         /\ \A x \in Clients \ {c} : rSpent'[x] = rSpent[x]
         /\ c \in rEvicted \/ ~Limiter!Watched => rSpent'[c] = rSpent[c]
         /\ rSpent'[c] <= rSpent[c] + Cost
BY DEF Limiter!Pay, Limiter!TypeOK, Limiter!LimiterAssumption

-----------------------------------------------------------------------------
\* Requests.
LEMMA VisitorKeeps ==
  ASSUME Limiter!LimiterAssumption, LimitInv, NEW c \in Clients, Limiter!AllowVisitor(c)
  PROVE  LimitInv'
<1>. DEFINE b == Limiter!Bucket(Limiter!Refilled(c) - Cost)
<1>1. /\ Limiter!TypeOK /\ c \in DOMAIN rVisitors /\ Limiter!Refilled(c) >= Cost
      /\ rVisitors' = Limiter!Put(rVisitors, c, b) /\ Limiter!Pay(c)
      /\ rClock' = rClock /\ rFrom' = rFrom /\ rEvicted' = rEvicted
  BY DEF LimitInv, Limiter!AllowVisitor
<1>2. /\ Burst \in Nat /\ Cost \in Nat /\ rClock \in Nat /\ rFrom \in Nat /\ Cost <= Burst
      /\ Limiter!Refilled(c) - Cost \in 0..Burst
  BY <1>1, RefilledTyped DEF Limiter!LimiterAssumption, Limiter!TypeOK
<1>3. b \in Buckets /\ b.tokens = Limiter!Refilled(c) - Cost /\ b.seen = rClock
  BY <1>2 DEF Buckets, Limiter!Bucket
<1>4. /\ DOMAIN rVisitors' = DOMAIN rVisitors
      /\ rVisitors' \in [DOMAIN rVisitors -> Buckets]
      /\ rVisitors'[c] = b
      /\ \A x \in DOMAIN rVisitors \ {c} : rVisitors'[x] = rVisitors[x]
  <2>1. DOMAIN rVisitors \in SUBSET Clients /\ rVisitors \in [DOMAIN rVisitors -> Buckets]
    BY <1>1 DEF Limiter!TypeOK, Buckets
  <2>2. DOMAIN rVisitors \cup {c} = DOMAIN rVisitors
    BY <1>1
  <2>. HIDE DEF b
  <2>3. /\ DOMAIN Limiter!Put(rVisitors, c, b) = DOMAIN rVisitors \cup {c}
        /\ Limiter!Put(rVisitors, c, b) \in [DOMAIN rVisitors \cup {c} -> Buckets]
        /\ Limiter!Put(rVisitors, c, b)[c] = b
        /\ \A x \in DOMAIN rVisitors \ {c} : Limiter!Put(rVisitors, c, b)[x] = rVisitors[x]
    BY <1>3, <2>1 DEF Limiter!Put
  <2>. QED BY <1>1, <2>2, <2>3
<1>5. Limiter!TypeOK'
  BY <1>1, <1>4, Paid DEF Limiter!TypeOK, Buckets
<1>6. ASSUME Limiter!Watched, NEW x \in Clients \ rEvicted
      PROVE  Accounted(x)'
  <2>0. Accounted(x) /\ rSpent[x] \in Nat /\ rSpent'[x] \in Nat
    BY <1>1, <1>5, <1>6 DEF LimitInv, Limiter!TypeOK
  <2>1. CASE x # c
    BY <1>1, <1>4, <2>0, <2>1, Paid DEF Accounted
  <2>2. CASE x = c
    <3>1. rSpent'[c] <= rSpent[c] + Cost
      BY <1>1, Paid
    <3>2. rSpent[c] + Limiter!Refilled(c) + rFrom <= Burst + rClock
      BY <1>1, <1>2, <1>6, <2>0, <2>2, RefilledTyped DEF Accounted, Limiter!Watched
    <3>3. rSpent'[c] + b.tokens + rFrom <= Burst + rClock
      BY <1>2, <1>3, <2>0, <2>2, <3>1, <3>2, RefilledTyped, <1>1
    <3>4. ~(rClock < rFrom)
      BY <1>2, <1>6 DEF Limiter!Watched
    <3>. HIDE DEF b
    <3>. QED BY <1>1, <1>3, <1>4, <2>2, <3>3, <3>4 DEF Accounted
  <2>. QED BY <2>1, <2>2
<1>7. ~Limiter!Watched => \A x \in Clients : rSpent'[x] = 0
  BY <1>1, Paid DEF LimitInv
<1>. QED BY <1>1, <1>5, <1>6, <1>7 DEF LimitInv, Limiter!Watched

LEMMA RefuseKeeps ==
  ASSUME Limiter!LimiterAssumption, LimitInv, NEW c \in Clients, Limiter!Refuse(c)
  PROVE  LimitInv'
<1>. DEFINE b == Limiter!Bucket(Limiter!Refilled(c))
<1>1. /\ Limiter!TypeOK /\ c \in DOMAIN rVisitors /\ rVisitors' = Limiter!Put(rVisitors, c, b)
      /\ rClock' = rClock /\ rFrom' = rFrom /\ rEvicted' = rEvicted /\ rSpent' = rSpent
  BY DEF LimitInv, Limiter!Refuse
<1>2. /\ Burst \in Nat /\ rClock \in Nat /\ rFrom \in Nat /\ Limiter!Refilled(c) \in 0..Burst
  BY <1>1, RefilledTyped DEF Limiter!LimiterAssumption, Limiter!TypeOK
<1>3. b \in Buckets /\ b.tokens = Limiter!Refilled(c) /\ b.seen = rClock
  BY <1>2 DEF Buckets, Limiter!Bucket
<1>4. /\ DOMAIN rVisitors' = DOMAIN rVisitors
      /\ rVisitors' \in [DOMAIN rVisitors -> Buckets]
      /\ rVisitors'[c] = b
      /\ \A x \in DOMAIN rVisitors \ {c} : rVisitors'[x] = rVisitors[x]
  <2>1. DOMAIN rVisitors \in SUBSET Clients /\ rVisitors \in [DOMAIN rVisitors -> Buckets]
    BY <1>1 DEF Limiter!TypeOK, Buckets
  <2>2. DOMAIN rVisitors \cup {c} = DOMAIN rVisitors
    BY <1>1
  <2>. HIDE DEF b
  <2>3. /\ DOMAIN Limiter!Put(rVisitors, c, b) = DOMAIN rVisitors \cup {c}
        /\ Limiter!Put(rVisitors, c, b) \in [DOMAIN rVisitors \cup {c} -> Buckets]
        /\ Limiter!Put(rVisitors, c, b)[c] = b
        /\ \A x \in DOMAIN rVisitors \ {c} : Limiter!Put(rVisitors, c, b)[x] = rVisitors[x]
    BY <1>3, <2>1 DEF Limiter!Put
  <2>. QED BY <1>1, <2>2, <2>3
<1>5. Limiter!TypeOK'
  BY <1>1, <1>4 DEF Limiter!TypeOK, Buckets
<1>6. ASSUME Limiter!Watched, NEW x \in Clients \ rEvicted
      PROVE  Accounted(x)'
  <2>0. Accounted(x) /\ rSpent[x] \in Nat
    BY <1>1, <1>6 DEF LimitInv, Limiter!TypeOK
  <2>1. CASE x # c
    BY <1>1, <1>4, <2>0, <2>1 DEF Accounted
  <2>2. CASE x = c
    <3>2. rSpent[c] + b.tokens + rFrom <= Burst + rClock
      BY <1>1, <1>2, <1>3, <1>6, <2>0, <2>2, RefilledTyped DEF Accounted, Limiter!Watched
    <3>4. ~(rClock < rFrom)
      BY <1>2, <1>6 DEF Limiter!Watched
    <3>. HIDE DEF b
    <3>. QED BY <1>1, <1>3, <1>4, <2>2, <3>2, <3>4 DEF Accounted
  <2>. QED BY <2>1, <2>2
<1>. QED BY <1>1, <1>5, <1>6 DEF LimitInv, Limiter!Watched

\* A newcomer's full bucket: it is new, or has been idle for longer than the
\* cutoff and would be full by now.  The one evicted for it is not counted.
LEMMA NewcomerKeeps ==
  ASSUME Limiter!LimiterAssumption, LimitInv, NEW c \in Clients, Limiter!AllowNewcomer(c)
  PROVE  LimitInv'
<1>. DEFINE b == Limiter!Bucket(Burst - Cost)
<1>1. PICK gone \in SUBSET DOMAIN rVisitors :
        /\ rVisitors' = Limiter!Put(Limiter!Drop(rVisitors, gone), c, b)
        /\ rEvicted \subseteq rEvicted' /\ rEvicted' \subseteq Clients
        /\ Limiter!Watched => gone \subseteq rEvicted'
  <2>1. CASE Limiter!Cardinality(DOMAIN rVisitors) >= MaxVisitors
    BY <2>1 DEF Limiter!AllowNewcomer, LimitInv, Limiter!TypeOK
  <2>2. CASE ~(Limiter!Cardinality(DOMAIN rVisitors) >= MaxVisitors)
    <3>1. rVisitors' = Limiter!Put(rVisitors, c, b) /\ rEvicted' = rEvicted
      BY <2>2 DEF Limiter!AllowNewcomer
    <3>2. rVisitors = Limiter!Drop(rVisitors, {})
      BY DEF Limiter!Drop, LimitInv, Limiter!TypeOK
    <3>. QED BY <3>1, <3>2 DEF LimitInv, Limiter!TypeOK
  <2>. QED BY <2>1, <2>2
<1>2. /\ Limiter!TypeOK /\ c \notin DOMAIN rVisitors /\ Limiter!Pay(c)
      /\ rClock' = rClock /\ rFrom' = rFrom
  BY DEF LimitInv, Limiter!AllowNewcomer
<1>3. /\ Burst \in Nat /\ Cost \in Nat /\ rClock \in Nat /\ rFrom \in Nat
      /\ Burst - Cost \in 0..Burst
  BY <1>2 DEF Limiter!LimiterAssumption, Limiter!TypeOK
<1>4. b \in Buckets /\ b.tokens = Burst - Cost /\ b.seen = rClock
  BY <1>3 DEF Buckets, Limiter!Bucket
<1>5. /\ DOMAIN rVisitors' = (DOMAIN rVisitors \ gone) \cup {c}
      /\ rVisitors' \in [(DOMAIN rVisitors \ gone) \cup {c} -> Buckets]
      /\ rVisitors'[c] = b
      /\ \A x \in DOMAIN rVisitors \ gone : rVisitors'[x] = rVisitors[x]
  <2>1. DOMAIN rVisitors \ gone \in SUBSET Clients
    BY <1>2 DEF Limiter!TypeOK
  <2>. DEFINE vs == Limiter!Drop(rVisitors, gone)
  <2>2. /\ vs \in [DOMAIN rVisitors \ gone -> Buckets]
        /\ \A x \in DOMAIN rVisitors \ gone : vs[x] = rVisitors[x]
    BY <1>2, DropTyped
  <2>3. rVisitors' = Limiter!Put(vs, c, b)
    BY <1>1
  <2>. HIDE DEF b, vs
  <2>4. /\ DOMAIN Limiter!Put(vs, c, b) = (DOMAIN rVisitors \ gone) \cup {c}
        /\ Limiter!Put(vs, c, b) \in [(DOMAIN rVisitors \ gone) \cup {c} -> Buckets]
        /\ Limiter!Put(vs, c, b)[c] = b
        /\ \A x \in (DOMAIN rVisitors \ gone) \ {c} : Limiter!Put(vs, c, b)[x] = vs[x]
    BY <1>4, <2>1, <2>2 DEF Limiter!Put
  <2>. QED BY <1>2, <2>2, <2>3, <2>4
<1>6. Limiter!TypeOK'
  BY <1>1, <1>2, <1>5, Paid DEF Limiter!TypeOK, Buckets
<1>7. ASSUME Limiter!Watched, NEW x \in Clients \ rEvicted'
      PROVE  Accounted(x)'
  <2>0. Accounted(x) /\ x \notin gone /\ rSpent[x] \in Nat /\ rSpent'[x] \in Nat
    BY <1>1, <1>2, <1>6, <1>7 DEF LimitInv, Limiter!TypeOK
  <2>1. CASE x # c
    BY <1>2, <1>5, <2>0, <2>1, Paid DEF Accounted
  <2>2. CASE x = c
    <3>1. rSpent'[c] <= rSpent[c] + Cost
      BY <1>2, Paid
    <3>2. rSpent[c] + rFrom <= rClock
      BY <1>2, <1>3, <1>7, <2>0, <2>2 DEF Accounted, Limiter!Watched
    <3>3. rSpent'[c] + b.tokens + rFrom <= Burst + rClock
      BY <1>3, <1>4, <2>0, <2>2, <3>1, <3>2
    <3>4. ~(rClock < rFrom)
      BY <1>3, <1>7 DEF Limiter!Watched
    <3>. HIDE DEF b
    <3>. QED BY <1>2, <1>4, <1>5, <2>2, <3>3, <3>4 DEF Accounted
  <2>. QED BY <2>1, <2>2
<1>8. ~Limiter!Watched => \A x \in Clients : rSpent'[x] = 0
  BY <1>2, Paid DEF LimitInv
<1>. QED BY <1>2, <1>6, <1>7, <1>8 DEF LimitInv, Limiter!Watched

-----------------------------------------------------------------------------
\* The sweep takes buckets that are full again: the cutoff is no shorter than
\* the time a bucket needs to fill.
LEMMA CleanupKeeps ==
  ASSUME Limiter!LimiterAssumption, LimitInv, Limiter!Cleanup
  PROVE  LimitInv'
<1>. DEFINE gone == {c \in DOMAIN rVisitors : rVisitors[c].seen + Cutoff < rClock}
<1>1. /\ Limiter!TypeOK /\ rVisitors' = Limiter!Drop(rVisitors, gone)
      /\ rClock' = rClock /\ rFrom' = rFrom /\ rSpent' = rSpent /\ rEvicted' = rEvicted
  BY DEF LimitInv, Limiter!Cleanup
<1>2. /\ DOMAIN rVisitors' = DOMAIN rVisitors \ gone
      /\ rVisitors' \in [DOMAIN rVisitors \ gone -> Buckets]
      /\ \A x \in DOMAIN rVisitors \ gone : rVisitors'[x] = rVisitors[x]
  <2>. HIDE DEF gone
  <2>. QED BY <1>1, DropTyped
<1>3. Limiter!TypeOK'
  BY <1>1, <1>2 DEF Limiter!TypeOK, Buckets
<1>4. ASSUME Limiter!Watched, NEW x \in Clients \ rEvicted
      PROVE  Accounted(x)'
  <2>0. Accounted(x) /\ rSpent[x] \in Nat
    BY <1>1, <1>4 DEF LimitInv, Limiter!TypeOK
  <2>1. CASE x \in gone
    <3>1. /\ rVisitors[x].seen + Cutoff < rClock /\ rVisitors[x].seen \in Nat
          /\ rVisitors[x].tokens \in Nat /\ x \in DOMAIN rVisitors
      BY <1>1, <2>1, RefilledTyped
    <3>2. /\ Burst \in Nat /\ Cutoff \in Nat /\ rClock \in Nat /\ rFrom \in Nat /\ Burst <= Cutoff
      BY <1>1 DEF Limiter!LimiterAssumption, Limiter!TypeOK
    <3>3. rSpent[x] = 0 \/ rSpent[x] + rFrom <= rClock
      BY <2>0, <3>1, <3>2 DEF Accounted
    <3>. QED BY <1>1, <1>2, <2>1, <3>3 DEF Accounted
  <2>2. CASE x \notin gone
    <3>. HIDE DEF gone
    <3>. QED BY <1>1, <1>2, <2>0, <2>2 DEF Accounted
  <2>. QED BY <2>1, <2>2
<1>. QED BY <1>1, <1>3, <1>4 DEF LimitInv, Limiter!Watched

\* Time passes; the window may begin.
LEMMA LimiterTickKeeps ==
  ASSUME Limiter!LimiterAssumption, LimitInv, Limiter!Tick
  PROVE  LimitInv'
<1>1. /\ Limiter!TypeOK /\ rClock \in Nat /\ rFrom \in Nat
      /\ rClock < LimitTime /\ LimitTime \in Nat
      /\ rClock' = rClock + 1 /\ rVisitors' = rVisitors
      /\ rFrom' = rFrom /\ rSpent' = rSpent /\ rEvicted' = rEvicted
  BY DEF LimitInv, Limiter!Tick, Limiter!TypeOK, Limiter!LimiterAssumption
<1>2. \A c \in DOMAIN rVisitors : rVisitors[c].seen \in 0..rClock
  BY <1>1, RefilledTyped
<1>3. Limiter!TypeOK'
  <2>1. \A c \in DOMAIN rVisitors : rVisitors[c] \in [tokens : 0..Burst, seen : 0..rClock']
    BY <1>1 DEF Limiter!TypeOK
  <2>2. rVisitors = [c \in DOMAIN rVisitors |-> rVisitors[c]]
    BY <1>1 DEF Limiter!TypeOK
  <2>. QED BY <1>1, <2>1, <2>2 DEF Limiter!TypeOK
<1>4. ASSUME Limiter!Watched', NEW x \in Clients \ rEvicted
      PROVE  Accounted(x)'
  <2>1. CASE Limiter!Watched
    <3>1. Accounted(x) /\ rSpent[x] \in Nat
      BY <1>1, <1>4, <2>1 DEF LimitInv, Limiter!TypeOK
    <3>. QED BY <1>1, <3>1 DEF Accounted
  <2>2. CASE ~Limiter!Watched
    BY <1>1, <1>2, <2>2 DEF LimitInv, Accounted, Limiter!Watched
  <2>. QED BY <2>1, <2>2
<1>5. ~Limiter!Watched' => ~Limiter!Watched
  BY <1>1 DEF Limiter!Watched
<1>. QED BY <1>1, <1>3, <1>4, <1>5 DEF LimitInv

-----------------------------------------------------------------------------
\* The invariant is inductive.
LEMMA LimiterStep ==
  ASSUME Limiter!LimiterAssumption, LimitInv, [Limiter!Next]_rVars
  PROVE  LimitInv'
<1>1. CASE UNCHANGED rVars
  BY <1>1 DEF rVars, LimitInv, Limiter!TypeOK, Limiter!Watched, Accounted
<1>2. CASE \E c \in Clients : Limiter!Allow(c)
  BY <1>2, NewcomerKeeps, VisitorKeeps, RefuseKeeps DEF Limiter!Allow
<1>. QED BY <1>1, <1>2, CleanupKeeps, LimiterTickKeeps DEF Limiter!Next

\* What the invariant says of spending.
LEMMA InvLimits ==
  ASSUME Limiter!LimiterAssumption, LimitInv
  PROVE  Limiter!LimitHolds
<1>. SUFFICES ASSUME NEW c \in Clients \ rEvicted, Limiter!Watched
              PROVE  rSpent[c] <= Burst + (rClock - rFrom)
  BY DEF Limiter!LimitHolds
<1>1. /\ Accounted(c) /\ rSpent[c] \in Nat /\ Burst \in Nat
      /\ rClock \in Nat /\ rFrom \in Nat /\ rFrom <= rClock
  BY DEF LimitInv, Limiter!TypeOK, Limiter!LimiterAssumption, Limiter!Watched
<1>2. CASE c \in DOMAIN rVisitors
  <2>1. /\ rVisitors[c].seen \in 0..rClock /\ rVisitors[c].tokens \in 0..Burst
    BY <1>2, RefilledTyped DEF LimitInv
  <2>. QED BY <1>1, <1>2, <2>1 DEF Accounted
<1>3. CASE c \notin DOMAIN rVisitors
  BY <1>1, <1>3 DEF Accounted
<1>. QED BY <1>2, <1>3

\* ratelimit.go, RateLimiter.Allow: in any window of time a client that keeps
\* its bucket is allowed a full bucket and the inflow, however often the sweep
\* drops the bucket in between.
THEOREM LimitProved == Spec => []LimitHolds
  <1>1. Init => LimitInv
    BY Starts, LimiterInit, ServicesAssumption DEF Limiter!Init, LimitInv, Accounted
  <1>2. LimitInv /\ [Next]_vars => LimitInv'
    BY Steps, LimiterStep, ServicesAssumption
  <1>3. LimitInv => LimitHolds
    BY InvLimits, ServicesAssumption DEF LimitHolds
  <1>4. QED BY <1>1, <1>2, <1>3, SpecSafety, PTL

-----------------------------------------------------------------------------
(* The windows: whoever adds one is warned of those the check could have  *)
(* found, for every set of monitors, every length, every limit and every   *)
(* number of edits.                                                        *)
(*                                                                         *)
(* The check's answer is about rows it read, and is attached to a window   *)
(* that comes into being later.  Two things keep it true: monitor and      *)
(* start of a window never change, and no window ever takes the number of  *)
(* another one, although ids are given out again when the table is empty.  *)

\* What the console asks for.
Row == [monitor : Monitors \cup {Maint!All}, type : {"maintenance", "incident"},
        start : Nat, end : Nat]

Pairs == Nat \X Nat

CmdType ==
       [do : {"check"}, n : Nat, row : Row]
  \cup [do : {"add"}, n : Nat, row : Row, saw : SUBSET Pairs, warned : BOOLEAN]
  \cup [do : {"end", "delete"}, id : Nat]

Window == [monitor : Monitors \cup {Maint!All}, type : {"maintenance", "incident"},
           start : Nat, end : Nat, born : Nat, n : Nat, until : Nat,
           saw : SUBSET Pairs, warned : BOOLEAN]

Types ==
  /\ wClock \in Nat
  /\ wEdits \in Nat
  /\ wLastId \in Nat
  /\ wCmds \subseteq CmdType
  /\ DOMAIN wWindows \subseteq Nat
  /\ wWindows = [i \in DOMAIN wWindows |-> wWindows[i]]
  /\ \A i \in DOMAIN wWindows : wWindows[i] \in Window
  /\ DOMAIN wLoaded \subseteq Nat

\* The windows on their way.
Coming == {c \in wCmds : c.do \in {"check", "add"}}

\* No number is used twice: of a window and of one on its way, of two on their
\* way, of two windows; and no check has seen the number of one on its way.
Numbers ==
  /\ \A c \in Coming : c.n <= wEdits
  /\ \A i \in DOMAIN wWindows : wWindows[i].n <= wEdits
  /\ \A c, d \in Coming : c.n = d.n => c = d
  /\ \A i, j \in DOMAIN wWindows : wWindows[i].n = wWindows[j].n => i = j
  /\ \A c \in Coming, i \in DOMAIN wWindows : wWindows[i].n # c.n

Known(saw) ==
  /\ \A p \in saw : p[1] <= wEdits
  /\ \A p \in saw, c \in Coming : p[1] # c.n

Seen ==
  /\ \A c \in wCmds : c.do = "add" => Known(c.saw)
  /\ \A i \in DOMAIN wWindows : Known(wWindows[i].saw)

\* The query, of a window that ends at end.
Clash(monitor, start, until, w, end) ==
  /\ end = 0 \/ end > start
  /\ until # 0 => w.start < until
  /\ \/ monitor = Maint!All
     \/ w.monitor \in {Maint!All, monitor}
     \/ Parent[monitor] > 0 /\ w.monitor = Parent[monitor]

\* A check that said nothing found nothing it could have warned of.
Answer(monitor, start, until, saw, warned) ==
  \A p \in saw, i \in DOMAIN wWindows :
    wWindows[i].n = p[1] /\ Clash(monitor, start, until, wWindows[i], p[2]) => warned

Answers ==
  /\ \A c \in wCmds :
       c.do = "add" => Answer(c.row.monitor, c.row.start, c.row.end, c.saw, c.warned)
  /\ \A i \in DOMAIN wWindows :
       Answer(wWindows[i].monitor, wWindows[i].start, wWindows[i].until,
              wWindows[i].saw, wWindows[i].warned)

WindowsInv == Types /\ Numbers /\ Seen /\ Answers

-----------------------------------------------------------------------------
\* Two windows that cover a common monitor are within the query's reach of one
\* another, but for a child of the new one's group.
LEMMA Scopes ==
  ASSUME Maint!WindowsAssumption, NEW a \in Window, NEW b \in Window,
         Maint!Covered(a) \cap Maint!Covered(b) # {},
         b.monitor # Maint!All => Parent[b.monitor] # a.monitor \/ a.monitor = Maint!All
  PROVE  \/ a.monitor = Maint!All
         \/ b.monitor \in {Maint!All, a.monitor}
         \/ Parent[a.monitor] > 0 /\ b.monitor = Parent[a.monitor]
<1>1. PICK m \in Monitors : /\ a.monitor \in {Maint!All, m} \cup ({Parent[m]} \ {0})
                            /\ b.monitor \in {Maint!All, m} \cup ({Parent[m]} \ {0})
  BY DEF Maint!Covered
<1>2. a.monitor \in Monitors \cup {Maint!All} /\ b.monitor \in Monitors \cup {Maint!All}
  BY DEF Window
<1>3. m \in Nat /\ m # 0 /\ Parent[m] \in Nat
  <2>1. Parent[m] \in Monitors \cup {0} /\ m \in Monitors
    BY <1>1 DEF Maint!WindowsAssumption
  <2>2. \A x \in Monitors : x \in Nat /\ x # 0
    BY DEF Maint!WindowsAssumption
  <2>3. \A x \in Monitors \cup {0} : x \in Nat
    BY <2>2
  <2> DEFINE q == Parent[m]
  <2>4. q \in Monitors \cup {0}
    BY <2>1
  <2> HIDE DEF q
  <2>5. q \in Nat
    BY <2>3, <2>4
  <2> QED BY <2>1, <2>2, <2>5 DEF q
<1>4. CASE a.monitor = m
  BY <1>1, <1>3, <1>4 DEF Maint!All
<1>5. CASE a.monitor = Parent[m] /\ Parent[m] # 0
  BY <1>1, <1>3, <1>5 DEF Maint!All
<1> QED BY <1>1, <1>4, <1>5 DEF Maint!All

\* The answers are what the property asks for.
LEMMA Warned ==
  ASSUME Maint!WindowsAssumption, WindowsInv
  PROVE  Maint!OverlapWarned
<1> SUFFICES ASSUME NEW new \in DOMAIN wWindows, NEW old \in DOMAIN wWindows,
                    <<wWindows[old].n, wWindows[old].end>> \in wWindows[new].saw,
                    Maint!Covered(wWindows[new]) \cap Maint!Covered(wWindows[old]) # {},
                    wWindows[new].until = 0 \/ wWindows[old].start < wWindows[new].until,
                    wWindows[old].end = 0 \/ wWindows[new].start < wWindows[old].end,
                    wWindows[old].monitor # Maint!All =>
                      Parent[wWindows[old].monitor] # wWindows[new].monitor
                        \/ wWindows[new].monitor = Maint!All
             PROVE  wWindows[new].warned
  BY DEF Maint!OverlapWarned
<1> DEFINE a == wWindows[new]
           b == wWindows[old]
           p == <<b.n, b.end>>
<1>1. a \in Window /\ b \in Window
  BY DEF WindowsInv, Types
<1>2. \/ a.monitor = Maint!All
      \/ b.monitor \in {Maint!All, a.monitor}
      \/ Parent[a.monitor] > 0 /\ b.monitor = Parent[a.monitor]
  BY <1>1, Scopes
<1>3. b.end = 0 \/ b.end > a.start
  BY <1>1 DEF Window
<1>4. Clash(a.monitor, a.start, a.until, b, p[2])
  BY <1>2, <1>3 DEF Clash
<1>5. Answer(a.monitor, a.start, a.until, a.saw, a.warned)
  BY DEF WindowsInv, Answers
<1>6. p \in a.saw /\ b.n = p[1]
  OBVIOUS
<1> QED BY <1>4, <1>5, <1>6 DEF Answer

LEMMA MaintInit == Maint!Init => WindowsInv
  BY DEF Maint!Init, WindowsInv, Types, Numbers, Seen, Answers, Coming, Known, Answer

-----------------------------------------------------------------------------
\* Steps that leave the table and the commands alone.
LEMMA Still ==
  ASSUME WindowsInv, UNCHANGED <<wWindows, wCmds, wEdits, wLastId>>,
         wClock' \in Nat, DOMAIN wLoaded' \subseteq Nat
  PROVE  WindowsInv'
<1>1. Types'
  BY DEF WindowsInv, Types
<1>2. Numbers' /\ Seen' /\ Answers'
  BY DEF WindowsInv, Numbers, Seen, Answers, Coming, Known, Answer
<1> QED BY <1>1, <1>2 DEF WindowsInv

\* Steps that take commands away and windows out, or change the ends of some.
LEMMA Fewer ==
  ASSUME WindowsInv, UNCHANGED <<wClock, wEdits, wLoaded>>, wLastId' \in Nat,
         wCmds' \subseteq wCmds,
         DOMAIN wWindows' \subseteq DOMAIN wWindows,
         wWindows' = [i \in DOMAIN wWindows' |-> wWindows'[i]],
         \A i \in DOMAIN wWindows' :
           \E e \in Nat : wWindows'[i] = [wWindows[i] EXCEPT !.end = e]
  PROVE  WindowsInv'
<1>0. \A i \in DOMAIN wWindows' :
        /\ wWindows'[i] \in Window
        /\ wWindows'[i].n = wWindows[i].n
        /\ wWindows'[i].monitor = wWindows[i].monitor
        /\ wWindows'[i].start = wWindows[i].start
        /\ wWindows'[i].until = wWindows[i].until
        /\ wWindows'[i].saw = wWindows[i].saw
        /\ wWindows'[i].warned = wWindows[i].warned
  BY DEF WindowsInv, Types, Window
<1>1. Types'
  BY <1>0 DEF WindowsInv, Types
<1>2. Coming' \subseteq Coming
  BY DEF Coming
<1>3. Numbers'
  BY <1>0, <1>2 DEF WindowsInv, Numbers
<1>4. ASSUME NEW saw, Known(saw) PROVE Known(saw)'
  BY <1>2, <1>4 DEF Known
<1>5. Seen'
  BY <1>0, <1>4 DEF WindowsInv, Seen
<1>6. ASSUME NEW monitor, NEW start, NEW until, NEW saw, NEW warned,
             Answer(monitor, start, until, saw, warned)
      PROVE  Answer(monitor, start, until, saw, warned)'
  BY <1>0, <1>6 DEF Answer, Clash
<1>7. \A c \in wCmds' :
        c.do = "add" => Answer(c.row.monitor, c.row.start, c.row.end, c.saw, c.warned)'
  BY <1>6 DEF WindowsInv, Answers
<1>8. ASSUME NEW i \in DOMAIN wWindows'
      PROVE  Answer(wWindows[i].monitor, wWindows[i].start, wWindows[i].until,
                    wWindows[i].saw, wWindows[i].warned)'
  <2>1. Answer(wWindows[i].monitor, wWindows[i].start, wWindows[i].until,
               wWindows[i].saw, wWindows[i].warned)
    BY DEF WindowsInv, Answers
  <2> DEFINE w == wWindows[i]
             x == wWindows'[i]
  <2>2. /\ x.n = w.n /\ x.monitor = w.monitor /\ x.start = w.start
        /\ x.until = w.until /\ x.saw = w.saw /\ x.warned = w.warned
    BY <1>0
  <2> QED BY <2>1, <2>2, <1>0 DEF Answer, Clash
<1>9. Answers'
  BY <1>7, <1>8 DEF Answers
<1> QED BY <1>1, <1>3, <1>5, <1>9 DEF WindowsInv

\* A new window's number is one nobody has had.
LEMMA SubmitInv ==
  ASSUME Maint!WindowsAssumption, WindowsInv, NEW m \in Monitors \cup {Maint!All},
         NEW type \in {"maintenance", "incident"}, NEW d \in Nat, Maint!Submit(m, type, d)
  PROVE  WindowsInv'
<1> DEFINE row == [monitor |-> m, type |-> type, start |-> wClock,
                   end |-> IF type = "incident" \/ d = 0 THEN 0 ELSE wClock + d]
           new == [do |-> "check", n |-> wEdits', row |-> row]
<1>1. /\ wEdits' = wEdits + 1 /\ wCmds' = wCmds \cup {new}
      /\ UNCHANGED <<wClock, wWindows, wLastId, wLoaded>>
  BY DEF Maint!Submit, Maint!Edit, Maint!Send
<1>2. row \in Row /\ wEdits' \in Nat /\ wEdits' > wEdits
  BY <1>1 DEF WindowsInv, Types, Row
<1>3. new \in CmdType /\ new.n = wEdits' /\ new.do = "check"
  BY <1>2 DEF CmdType
<1>4. Types'
  <2> HIDE DEF new
  <2> QED BY <1>1, <1>2, <1>3 DEF WindowsInv, Types
<1>5. Coming' = Coming \cup {new}
  BY <1>1, <1>3 DEF Coming
<1> HIDE DEF new
<1>6. /\ \A c \in Coming : c.n <= wEdits /\ c.n \in Nat
      /\ \A i \in DOMAIN wWindows : wWindows[i].n <= wEdits /\ wWindows[i].n \in Nat
      /\ wEdits \in Nat
  BY DEF WindowsInv, Types, Numbers, Coming, CmdType, Window
<1>7. Numbers'
  <2>1. \A c \in Coming' : c.n <= wEdits'
    BY <1>1, <1>3, <1>5, <1>6
  <2>2. \A i \in DOMAIN wWindows' : wWindows'[i].n <= wEdits'
    BY <1>1, <1>6
  <2>3. \A c, d2 \in Coming' : c.n = d2.n => c = d2
    BY <1>1, <1>3, <1>5, <1>6 DEF WindowsInv, Numbers
  <2>4. \A c \in Coming', i \in DOMAIN wWindows' : wWindows'[i].n # c.n
    BY <1>1, <1>3, <1>5, <1>6 DEF WindowsInv, Numbers
  <2> QED BY <1>1, <2>1, <2>2, <2>3, <2>4 DEF Numbers, WindowsInv
<1>8. ASSUME NEW saw \in SUBSET Pairs, Known(saw) PROVE Known(saw)'
  <2>1. \A p \in saw : p[1] \in Nat
    BY DEF Pairs
  <2> QED BY <1>1, <1>3, <1>5, <1>6, <1>8, <2>1 DEF Known
<1>9. Seen'
  <2>1. \A c \in wCmds : c.do = "add" => c.saw \in SUBSET Pairs
    BY DEF WindowsInv, Types, CmdType
  <2>2. \A i \in DOMAIN wWindows : wWindows[i].saw \in SUBSET Pairs
    BY DEF WindowsInv, Types, Window
  <2> QED BY <1>1, <1>3, <1>8, <2>1, <2>2 DEF WindowsInv, Seen
<1>10. Answers'
  BY <1>1, <1>3 DEF WindowsInv, Answers, Answer
<1> QED BY <1>4, <1>7, <1>9, <1>10 DEF WindowsInv

\* An end or a delete adds a command that brings no window.
LEMMA AskInv ==
  ASSUME WindowsInv, NEW id \in DOMAIN wLoaded, Maint!EndWindow(id) \/ Maint!DeleteWindow(id)
  PROVE  WindowsInv'
<1>1. PICK do \in {"end", "delete"} : wCmds' = wCmds \cup {[do |-> do, id |-> id]}
  BY DEF Maint!EndWindow, Maint!DeleteWindow, Maint!Send
<1> DEFINE new == [do |-> do, id |-> id]
<1>2. wEdits' = wEdits + 1 /\ UNCHANGED <<wClock, wWindows, wLastId, wLoaded>>
  BY DEF Maint!EndWindow, Maint!DeleteWindow, Maint!Edit
<1>3. new \in CmdType /\ new.do \notin {"check", "add"}
  BY <1>1 DEF CmdType, WindowsInv, Types
<1> HIDE DEF new
<1>4. Types'
  BY <1>1, <1>2, <1>3 DEF WindowsInv, Types, new
<1>5. Coming' = Coming
  BY <1>1, <1>3 DEF Coming, new
<1>6. /\ \A c \in Coming : c.n \in Nat
      /\ \A i \in DOMAIN wWindows : wWindows[i].n \in Nat
      /\ wEdits \in Nat
  BY DEF WindowsInv, Types, Numbers, Coming, CmdType, Window
<1>7. Numbers'
  BY <1>2, <1>5, <1>6 DEF WindowsInv, Numbers
<1>8. ASSUME NEW saw \in SUBSET Pairs, Known(saw) PROVE Known(saw)'
  <2>1. \A p \in saw : p[1] \in Nat
    BY DEF Pairs
  <2> QED BY <1>2, <1>5, <1>6, <1>8, <2>1 DEF Known
<1>9. Seen'
  <2>1. \A c \in wCmds : c.do = "add" => c.saw \in SUBSET Pairs
    BY DEF WindowsInv, Types, CmdType
  <2>2. \A i \in DOMAIN wWindows : wWindows[i].saw \in SUBSET Pairs
    BY DEF WindowsInv, Types, Window
  <2> QED BY <1>1, <1>2, <1>3, <1>8, <2>1, <2>2 DEF WindowsInv, Seen, new
<1>10. Answers'
  BY <1>1, <1>2, <1>3 DEF WindowsInv, Answers, Answer, new
<1> QED BY <1>4, <1>7, <1>9, <1>10 DEF WindowsInv

-----------------------------------------------------------------------------
\* An answer that is right takes the place of the check.
LEMMA AnsweredInv ==
  ASSUME WindowsInv, NEW c \in wCmds, c.do = "check",
         NEW saw \in SUBSET Pairs, NEW warned \in BOOLEAN, Known(saw),
         Answer(c.row.monitor, c.row.start, c.row.end, saw, warned),
         Maint!Answered(c, saw, warned),
         UNCHANGED <<wClock, wEdits, wWindows, wLastId, wLoaded>>
  PROVE  WindowsInv'
<1> DEFINE new == [do |-> "add", row |-> c.row, n |-> c.n, saw |-> saw,
                   warned |-> warned]
<1>1. wCmds' = (wCmds \ {c}) \cup {new}
  BY DEF Maint!Answered
<1>2. c.n \in Nat /\ c.row \in Row
  BY DEF WindowsInv, Types, CmdType
<1>4. /\ new \in CmdType /\ new.do = "add" /\ new.n = c.n /\ new.saw = saw
      /\ new.warned = warned /\ new.row = c.row
  BY <1>2 DEF CmdType
<1> HIDE DEF new
<1>5. Coming' = (Coming \ {c}) \cup {new} /\ c \in Coming
  BY <1>1, <1>4 DEF Coming
<1>6. Types'
  BY <1>1, <1>4 DEF WindowsInv, Types
<1>7. Numbers'
  BY <1>1, <1>4, <1>5 DEF WindowsInv, Numbers
<1>8. ASSUME NEW t, Known(t) PROVE Known(t)'
  BY <1>1, <1>4, <1>5, <1>8 DEF Known
<1>9. Known(saw)'
  BY <1>8
<1>10. Seen'
  BY <1>1, <1>4, <1>8, <1>9 DEF WindowsInv, Seen
<1>11. Answers'
  BY <1>1, <1>4 DEF WindowsInv, Answers, Answer
<1> QED BY <1>6, <1>7, <1>10, <1>11 DEF WindowsInv

\* The check's answer is right when it is given, and so is none.
LEMMA CheckInv ==
  ASSUME WindowsInv, NEW c \in wCmds, Maint!CheckOverlap(c)
  PROVE  WindowsInv'
<1> DEFINE saw == {<<wWindows[id].n, wWindows[id].end>> : id \in DOMAIN wWindows}
           warned == Maint!Overlapping(c.row) # {}
<1>1. c.do = "check" /\ UNCHANGED <<wClock, wEdits, wWindows, wLastId, wLoaded>>
  BY DEF Maint!CheckOverlap
<1>2. CASE Maint!Answered(c, {}, FALSE)
  <2>1. Known({}) /\ Answer(c.row.monitor, c.row.start, c.row.end, {}, FALSE)
    BY DEF Known, Answer
  <2> QED BY <1>1, <1>2, <2>1, AnsweredInv
<1>3. CASE Maint!Answered(c, saw, warned)
  <2>1. saw \in SUBSET Pairs
    BY DEF WindowsInv, Types, Window, Pairs
  <2>2. Known(saw)
    BY DEF WindowsInv, Numbers, Known
  <2>3. Answer(c.row.monitor, c.row.start, c.row.end, saw, warned)
    <3> SUFFICES ASSUME NEW p \in saw, NEW i \in DOMAIN wWindows, wWindows[i].n = p[1],
                        Clash(c.row.monitor, c.row.start, c.row.end, wWindows[i], p[2])
                 PROVE  i \in Maint!Overlapping(c.row)
      BY DEF Answer
    <3>1. PICK j \in DOMAIN wWindows : p = <<wWindows[j].n, wWindows[j].end>>
      OBVIOUS
    <3>2. i = j
      BY <3>1 DEF WindowsInv, Numbers
    <3>3. p[2] = wWindows[i].end
      BY <3>1, <3>2
    <3> QED BY <3>3 DEF Clash, Maint!Overlapping, Maint!InTime
  <2>4. warned \in BOOLEAN
    OBVIOUS
  <2> HIDE DEF saw, warned
  <2> QED BY <1>1, <1>3, <2>1, <2>2, <2>3, <2>4, AnsweredInv
<1> QED BY <1>2, <1>3 DEF Maint!CheckOverlap

LEMMA RefusedInv ==
  ASSUME WindowsInv, NEW c \in wCmds, Maint!CmdFails(c)
  PROVE  WindowsInv'
<1>1. /\ wCmds' \subseteq wCmds
      /\ UNCHANGED <<wClock, wEdits, wWindows, wLastId, wLoaded>>
  BY DEF Maint!CmdFails
<1>2. wLastId' \in Nat /\ wWindows' = [i \in DOMAIN wWindows' |-> wWindows'[i]]
  BY <1>1 DEF WindowsInv, Types
<1>3. \A i \in DOMAIN wWindows' :
        \E e \in Nat : wWindows'[i] = [wWindows[i] EXCEPT !.end = e]
  <2> SUFFICES ASSUME NEW i \in DOMAIN wWindows
               PROVE  \E e \in Nat : wWindows[i] = [wWindows[i] EXCEPT !.end = e]
    BY <1>1
  <2>1. wWindows[i] \in Window
    BY DEF WindowsInv, Types
  <2>2. wWindows[i].end \in Nat /\ wWindows[i] = [wWindows[i] EXCEPT !.end = wWindows[i].end]
    BY <2>1 DEF Window
  <2> QED BY <2>2
<1> QED BY <1>1, <1>2, <1>3, Fewer

\* The window comes with its answer; its number has been seen by no check.
LEMMA AddInv ==
  ASSUME Maint!WindowsAssumption, WindowsInv, NEW c \in wCmds, Maint!AddMaintenanceWindow(c)
  PROVE  WindowsInv'
<1> DEFINE w == [monitor |-> c.row.monitor, type |-> c.row.type, start |-> c.row.start,
                 end |-> c.row.end, born |-> wClock, n |-> c.n, until |-> c.row.end,
                 saw |-> c.saw, warned |-> c.warned]
           id == wLastId + 1
<1>1. /\ c.do = "add" /\ wCmds' = wCmds \ {c}
      /\ wWindows' = [i \in DOMAIN wWindows \cup {id} |-> IF i = id THEN w ELSE wWindows[i]]
      /\ wLastId' = id /\ UNCHANGED <<wClock, wEdits, wLoaded>>
  BY DEF Maint!AddMaintenanceWindow
<1>2. /\ c.n \in Nat /\ c.row \in Row /\ c.saw \in SUBSET Pairs /\ c.warned \in BOOLEAN
      /\ id \in Nat /\ wClock \in Nat
  BY <1>1 DEF WindowsInv, Types, CmdType
<1>3. /\ w \in Window /\ w.n = c.n /\ w.saw = c.saw /\ w.warned = c.warned
      /\ w.monitor = c.row.monitor /\ w.start = c.row.start /\ w.until = c.row.end
  BY <1>2 DEF Window, Row
<1> HIDE DEF w, id
<1>4. /\ DOMAIN wWindows' = DOMAIN wWindows \cup {id}
      /\ \A i \in DOMAIN wWindows' :
           wWindows'[i] = w \/ (i \in DOMAIN wWindows /\ wWindows'[i] = wWindows[i])
      /\ \A i \in DOMAIN wWindows' : wWindows'[i] = w => i = id \/ wWindows[i] = w
      /\ wWindows'[id] = w
      /\ \A i \in DOMAIN wWindows : i # id => wWindows'[i] = wWindows[i]
  BY <1>1
<1>5. Types'
  BY <1>1, <1>2, <1>3, <1>4 DEF WindowsInv, Types
<1>6. Coming' = Coming \ {c} /\ c \in Coming
  BY <1>1 DEF Coming
<1>7. Numbers'
  <2>1. \A d \in Coming' : d.n <= wEdits'
    BY <1>1, <1>6 DEF WindowsInv, Numbers
  <2>2. \A i \in DOMAIN wWindows' : wWindows'[i].n <= wEdits'
    BY <1>1, <1>3, <1>4, <1>6 DEF WindowsInv, Numbers
  <2>3. \A d, e \in Coming' : d.n = e.n => d = e
    BY <1>6 DEF WindowsInv, Numbers
  <2>4. \A i, j \in DOMAIN wWindows' : wWindows'[i].n = wWindows'[j].n => i = j
    BY <1>3, <1>4, <1>6 DEF WindowsInv, Numbers
  <2>5. \A d \in Coming', i \in DOMAIN wWindows' : wWindows'[i].n # d.n
    BY <1>3, <1>4, <1>6 DEF WindowsInv, Numbers
  <2> QED BY <2>1, <2>2, <2>3, <2>4, <2>5 DEF Numbers
<1>8. ASSUME NEW s, Known(s) PROVE Known(s)'
  BY <1>1, <1>6, <1>8 DEF Known
<1>9. Seen'
  <2>1. \A d \in wCmds' : d.do = "add" => Known(d.saw)'
    BY <1>1, <1>6 DEF WindowsInv, Seen, Known
  <2>2. ASSUME NEW i \in DOMAIN wWindows'
        PROVE  Known(wWindows[i].saw)'
    <3>1. CASE wWindows'[i] = w
      BY <3>1, <1>1, <1>3, <1>6 DEF WindowsInv, Seen, Known
    <3>2. CASE i \in DOMAIN wWindows /\ wWindows'[i] = wWindows[i]
      BY <3>2, <1>1, <1>6 DEF WindowsInv, Seen, Known
    <3> QED BY <1>4, <3>1, <3>2
  <2> QED BY <2>1, <2>2 DEF Seen
<1>10. Answers'
  <2>1. ASSUME NEW monitor, NEW start, NEW until, NEW saw, NEW warned,
               Answer(monitor, start, until, saw, warned), \A p \in saw : p[1] # c.n
        PROVE  Answer(monitor, start, until, saw, warned)'
    BY <1>3, <1>4, <2>1 DEF Answer, Clash
  <2>2. \A d \in wCmds :
          d.do = "add" =>
            /\ \A p \in d.saw : p[1] # c.n
            /\ Answer(d.row.monitor, d.row.start, d.row.end, d.saw, d.warned)
    BY <1>6 DEF WindowsInv, Answers, Seen, Known
  <2>3. \A i \in DOMAIN wWindows :
          /\ \A p \in wWindows[i].saw : p[1] # c.n
          /\ Answer(wWindows[i].monitor, wWindows[i].start, wWindows[i].until,
                    wWindows[i].saw, wWindows[i].warned)
    BY <1>6 DEF WindowsInv, Answers, Seen, Known
  <2>4. \A d \in wCmds' :
          d.do = "add" =>
            Answer(d.row.monitor, d.row.start, d.row.end, d.saw, d.warned)'
    BY <1>1, <2>1, <2>2
  <2>5. ASSUME NEW i \in DOMAIN wWindows'
        PROVE  Answer(wWindows[i].monitor, wWindows[i].start, wWindows[i].until,
                      wWindows[i].saw, wWindows[i].warned)'
    <3>1. CASE wWindows'[i] = w
      BY <3>1, <1>1, <1>3, <1>4, <2>2 DEF Answer, Clash
    <3>2. CASE i \in DOMAIN wWindows /\ wWindows'[i] = wWindows[i]
      BY <3>2, <1>3, <1>4, <2>3 DEF Answer, Clash
    <3> QED BY <1>4, <3>1, <3>2
  <2> QED BY <2>4, <2>5 DEF Answers
<1> QED BY <1>5, <1>7, <1>9, <1>10 DEF WindowsInv

-----------------------------------------------------------------------------
\* Ending, deleting and pruning: an end is not what the check read any more,
\* and what the check read is what counts.
LEMMA EndInv ==
  ASSUME WindowsInv, NEW c \in wCmds, Maint!EndMaintenanceWindow(c)
  PROVE  WindowsInv'
<1>1. /\ wCmds' = wCmds \ {c} /\ UNCHANGED <<wClock, wEdits, wLoaded, wLastId>>
      /\ wWindows' = [i \in DOMAIN wWindows |->
           IF i = c.id THEN [wWindows[i] EXCEPT !.end = wClock] ELSE wWindows[i]]
  BY DEF Maint!EndMaintenanceWindow
<1>2. \A i \in DOMAIN wWindows : wWindows[i] = [wWindows[i] EXCEPT !.end = wWindows[i].end]
                                /\ wWindows[i].end \in Nat
  BY DEF WindowsInv, Types, Window
<1>3. wClock \in Nat /\ wLastId \in Nat
  BY DEF WindowsInv, Types
<1>4. \A i \in DOMAIN wWindows' :
        \E e \in Nat : wWindows'[i] = [wWindows[i] EXCEPT !.end = e]
  BY <1>1, <1>2, <1>3
<1>5. DOMAIN wWindows' = DOMAIN wWindows /\ wWindows' = [i \in DOMAIN wWindows' |-> wWindows'[i]]
  BY <1>1
<1> QED BY <1>1, <1>3, <1>4, <1>5, Fewer

LEMMA RemoveInv ==
  ASSUME WindowsInv, NEW S \in SUBSET DOMAIN wWindows, wCmds' \subseteq wCmds,
         wWindows' = [i \in S |-> wWindows[i]], wLastId' \in Nat,
         UNCHANGED <<wClock, wEdits, wLoaded>>
  PROVE  WindowsInv'
<1>1. DOMAIN wWindows' = S /\ wWindows' = [i \in DOMAIN wWindows' |-> wWindows'[i]]
  OBVIOUS
<1>2. \A i \in DOMAIN wWindows : wWindows[i] = [wWindows[i] EXCEPT !.end = wWindows[i].end]
                                /\ wWindows[i].end \in Nat
  BY DEF WindowsInv, Types, Window
<1>3. \A i \in DOMAIN wWindows' :
        \E e \in Nat : wWindows'[i] = [wWindows[i] EXCEPT !.end = e]
  BY <1>1, <1>2
<1> QED BY <1>1, <1>3, Fewer

LEMMA DeleteInv ==
  ASSUME WindowsInv, NEW c \in wCmds, Maint!DeleteMaintenanceWindow(c)
  PROVE  WindowsInv'
<1>1. wLastId' \in Nat
  BY DEF Maint!DeleteMaintenanceWindow, WindowsInv, Types
<1>2. /\ wCmds' \subseteq wCmds /\ UNCHANGED <<wClock, wEdits, wLoaded>>
      /\ wWindows' = [i \in DOMAIN wWindows \ {c.id} |-> wWindows[i]]
  BY DEF Maint!DeleteMaintenanceWindow
<1> QED BY <1>1, <1>2, RemoveInv

LEMMA PruneInv ==
  ASSUME WindowsInv, Maint!Prune
  PROVE  WindowsInv'
<1>1. wLastId' \in Nat
  BY DEF Maint!Prune, WindowsInv, Types
<1>2. /\ wCmds' \subseteq wCmds /\ UNCHANGED <<wClock, wEdits, wLoaded>>
      /\ wWindows' = [i \in DOMAIN wWindows \ Maint!Expired |-> wWindows[i]]
  BY DEF Maint!Prune
<1> QED BY <1>1, <1>2, RemoveInv

-----------------------------------------------------------------------------
LEMMA MaintStep ==
  ASSUME Maint!WindowsAssumption, WindowsInv, [Maint!Next]_wVars
  PROVE  WindowsInv'
<1>1. ASSUME NEW m \in Monitors \cup {Maint!All}, NEW d \in Durations,
             Maint!Submit(m, "maintenance", d)
      PROVE  WindowsInv'
  <2>1. d \in Nat
    BY DEF Maint!WindowsAssumption
  <2> QED BY <1>1, <2>1, SubmitInv
<1>2. ASSUME NEW m \in Monitors \cup {Maint!All}, Maint!Submit(m, "incident", 0)
      PROVE  WindowsInv'
  BY <1>2, SubmitInv
<1>3. ASSUME NEW id \in DOMAIN wLoaded, Maint!EndWindow(id) \/ Maint!DeleteWindow(id)
      PROVE  WindowsInv'
  BY <1>3, AskInv
<1>4. CASE Maint!Cmds
  BY <1>4, CheckInv, AddInv, EndInv, DeleteInv, RefusedInv DEF Maint!Cmds
<1>5. CASE Maint!Prune
  BY <1>5, PruneInv
<1>6. CASE Maint!refreshMaintenanceCache \/ Maint!refreshLive \/ UNCHANGED wVars
  <2>1. /\ UNCHANGED <<wWindows, wCmds, wEdits, wLastId, wClock, wLoaded>>
    BY <1>6 DEF Maint!refreshMaintenanceCache, Maint!refreshLive, wVars
  <2> QED BY <2>1, Still DEF WindowsInv, Types
<1>7. CASE Maint!Load
  <2>1. UNCHANGED <<wWindows, wCmds, wEdits, wLastId, wClock>>
    BY <1>7 DEF Maint!Load
  <2>2. DOMAIN wLoaded' \subseteq DOMAIN wWindows
    BY <1>7 DEF Maint!Load, Maint!GetAllMaintenanceWindows
  <2> QED BY <2>1, <2>2, Still DEF WindowsInv, Types
<1>8. CASE Maint!Tick
  <2>1. UNCHANGED <<wWindows, wCmds, wEdits, wLastId, wLoaded>> /\ wClock' = wClock + 1
    BY <1>8 DEF Maint!Tick
  <2> QED BY <2>1, Still DEF WindowsInv, Types
<1> QED BY <1>1, <1>2, <1>3, <1>4, <1>5, <1>6, <1>7, <1>8 DEF Maint!Next

\* tab_maint.go, submitMaintForm, and GetOverlappingMaintenanceWindows: a window
\* that reaches a monitor another one covers is not added without a warning,
\* unless the other came after the check or the check failed.
THEOREM OverlapProved == Spec => []OverlapWarned
  <1>1. Init => WindowsInv
    BY Starts, MaintInit
  <1>2. WindowsInv /\ [Next]_vars => WindowsInv'
    BY Steps, MaintStep, ServicesAssumption
  <1>3. WindowsInv => OverlapWarned
    BY Warned, ServicesAssumption DEF OverlapWarned
  <1>4. QED BY <1>1, <1>2, <1>3, SpecSafety, PTL

-----------------------------------------------------------------------------
(* The poll loop, the report and `uptop apply': what their modules prove.  *)

LEMMA PollSame ==
  /\ Poll!PollAssumption => PollP!PollAssumption
  /\ Poll!Init => PollP!Init
  /\ [Poll!Next]_sVars => [PollP!Next]_PollP!pollVars
  /\ PollP!TokenIndexExact => Poll!TokenIndexExact
  /\ PollP!TokensKept => Poll!TokensKept
  <1>1. Poll!PollAssumption => PollP!PollAssumption
    BY DEF Poll!PollAssumption, PollP!PollAssumption, Poll!Text, PollP!Text, Poll!Row,
      PollP!Row, Poll!IsDb, PollP!IsDb
  <1>2. Poll!Init => PollP!Init
    BY DEF Poll!Init, PollP!Init, Poll!Resting, PollP!Resting, Poll!NoForm, PollP!NoForm
  <1>3. Poll!Next <=> PollP!Next
    BY DEF Poll!Resting, PollP!Resting, Poll!NoForm, PollP!NoForm, Poll!removeFromTokenIndex,
      PollP!removeFromTokenIndex, Poll!addToTokenIndex, PollP!addToTokenIndex,
      Poll!UpdateSiteConfig, PollP!UpdateSiteConfig, Poll!RemoveSite,
      PollP!RemoveSite, Poll!PollRead, PollP!PollRead, Poll!PollApply,
      PollP!PollApply, Poll!PollSweep, PollP!PollSweep, Poll!RoutineReturns,
      PollP!RoutineReturns, Poll!Edit, PollP!Edit, Poll!Send, PollP!Send,
      Poll!OpenForm, PollP!OpenForm, Poll!SubmitEdit, PollP!SubmitEdit,
      Poll!SubmitNew, PollP!SubmitNew, Poll!TogglePause, PollP!TogglePause,
      Poll!ConfirmDelete, PollP!ConfirmDelete, Poll!Written, PollP!Written,
      Poll!CmdRuns, PollP!CmdRuns, Poll!CmdFails, PollP!CmdFails,
      Poll!OutsideUpdate, PollP!OutsideUpdate, Poll!OutsideDelete,
      PollP!OutsideDelete, Poll!Restore, PollP!Restore, Poll!PollLoop,
      PollP!PollLoop, Poll!Cmds, PollP!Cmds, Poll!Console, PollP!Console,
      Poll!Outside, PollP!Outside, Poll!CmdReads, PollP!CmdReads,
      Poll!PauseVanished, PollP!PauseVanished, Poll!Unpaused, PollP!Unpaused,
      Poll!Vanished, PollP!Vanished, Poll!StoredToken, PollP!StoredToken,
      Poll!ReadForUpdate, PollP!ReadForUpdate, Poll!WriteRow, PollP!WriteRow,
      Poll!Next, PollP!Next, Poll!EmptyDb,
      PollP!EmptyDb, Poll!Without, PollP!Without,
      Poll!With, PollP!With, Poll!LastNamed, PollP!LastNamed, Poll!Tokened,
      PollP!Tokened, Poll!AddSite, PollP!AddSite,
      Poll!UpdateSitePaused, PollP!UpdateSitePaused, Poll!DeleteSite,
      PollP!DeleteSite, Poll!AddAlert, PollP!AddAlert, Poll!UpdateAlert,
      PollP!UpdateAlert, Poll!ReleaseAlert, PollP!ReleaseAlert, Poll!DropAlert,
      PollP!DropAlert, Poll!ExportData, PollP!ExportData, Poll!LargestId,
      PollP!LargestId, Poll!ImportData, PollP!ImportData
  <1>4. UNCHANGED sVars <=> UNCHANGED PollP!pollVars
    BY DEF sVars, PollP!pollVars
  <1>5. PollP!TokenIndexExact => Poll!TokenIndexExact
    BY DEF PollP!TokenIndexExact, Poll!TokenIndexExact
  <1>6. PollP!TokensKept => Poll!TokensKept
    BY DEF Poll!TokensKept, PollP!TokensKept, Poll!Restore, PollP!Restore, Poll!ExportData,
      PollP!ExportData, Poll!ImportData, PollP!ImportData, Poll!Edit, PollP!Edit,
      Poll!LargestId, PollP!LargestId, Poll!Overtaken, PollP!Overtaken, Poll!CmdRuns,
      PollP!CmdRuns, Poll!Written, PollP!Written, Poll!WriteRow, PollP!WriteRow,
      Poll!AddSite, PollP!AddSite, Poll!UpdateSitePaused, PollP!UpdateSitePaused,
      Poll!DeleteSite, PollP!DeleteSite, Poll!Tokened, PollP!Tokened, Poll!With,
      PollP!With, Poll!Without, PollP!Without
  <1>7. QED BY <1>1, <1>2, <1>3, <1>4, <1>5, <1>6

LEMMA PollInit == Init => PollP!PollInv
  BY Starts, PollSame, PollP!InitInv, ServicesAssumption

LEMMA PollStep ==
  ASSUME PollP!PollInv, [Next]_vars
  PROVE  PollP!PollInv' /\ (Poll!TokensKept \/ UNCHANGED sVars)
  <1>1. PollP!PollAssumption /\ [PollP!Next]_PollP!pollVars
    BY Steps, PollSame, ServicesAssumption
  <1>2. PollP!PollInv' /\ (PollP!TokensKept \/ UNCHANGED PollP!pollVars)
    BY <1>1, PollP!StepInv
  <1>3. UNCHANGED PollP!pollVars => UNCHANGED sVars
    BY DEF sVars, PollP!pollVars
  <1>4. QED BY <1>2, <1>3, PollSame

\* A heartbeat's token leads to the push monitor it was handed out for and to
\* no other, however edits, removals, restores and reused ids interleave with
\* the poll loop (addToTokenIndex, removeFromTokenIndex).
THEOREM IndexProved == Spec => []TokenIndexExact
  <1>1. PollP!PollInv => TokenIndexExact
    BY PollSame, PollP!IndexFromInv DEF TokenIndexExact
  <1>2. PollP!PollInv /\ [Next]_vars => PollP!PollInv'
    BY PollStep
  <1>3. QED BY PollInit, <1>1, <1>2, SpecSafety, PTL

\* No step changes a row's push token but a restore and the second statement
\* of an update that was overtaken (UpdateSite keeps the token it has read).
THEOREM TokenProved == Spec => TokenStable
  <1>1. PollP!PollInv /\ [Next]_vars => PollP!PollInv' /\ [Poll!TokensKept]_sVars
    BY PollStep
  <1>2. QED BY PollInit, <1>1, SpecSafety, PTL DEF TokenStable

LEMMA SlaSame ==
  /\ Sla!HistoryAssumption => SlaP!HistoryAssumption
  /\ Sla!Init => SlaP!Init
  /\ [Sla!Next]_hVars => [SlaP!Next]_SlaP!historyVars
  /\ SlaP!SlaTruth => Sla!SlaTruth
  /\ SlaP!OutagesAddUp => Sla!OutagesAddUp
  <1>1. Sla!HistoryAssumption => SlaP!HistoryAssumption
    BY DEF Sla!HistoryAssumption, SlaP!HistoryAssumption
  <1>2. Sla!None = SlaP!None /\ \A x : Sla!Broken(x) <=> SlaP!Broken(x)
    BY DEF Sla!None, SlaP!None, Sla!Broken, SlaP!Broken
  <1>3. Sla!Init => SlaP!Init
    BY <1>2 DEF Sla!Init, SlaP!Init
  <1>4. /\ \A from, down : Sla!WalkStart(from, down) = SlaP!WalkStart(from, down)
        /\ \A w, at : Sla!Close(w, at) = SlaP!Close(w, at)
        /\ \A rows, at : Sla!inferStatusAt(rows, at) = SlaP!inferStatusAt(rows, at)
        /\ \A rows, start, period : Sla!Walk(rows, start, period)
                                       = SlaP!Walk(rows, start, period)
    <2>1. \A from, down : Sla!WalkStart(from, down) = SlaP!WalkStart(from, down)
      BY DEF Sla!WalkStart, SlaP!WalkStart
    <2>2. \A w, at : Sla!Close(w, at) = SlaP!Close(w, at)
      BY DEF Sla!Close, SlaP!Close, Sla!Advance, SlaP!Advance, Sla!End, SlaP!End
    <2>3. \A rows, at : Sla!inferStatusAt(rows, at) = SlaP!inferStatusAt(rows, at)
      BY DEF Sla!inferStatusAt, SlaP!inferStatusAt, Sla!Min, SlaP!Min
    <2>4. \A rows, start, period : Sla!Walk(rows, start, period)
                                     = SlaP!Walk(rows, start, period)
      BY DEF Sla!Walk, SlaP!Walk, Sla!Pass, SlaP!Pass, Sla!Advance, SlaP!Advance,
         Sla!End, SlaP!End, Sla!Broken, SlaP!Broken
    <2>5. QED BY <2>1, <2>2, <2>3, <2>4
  <1>5. /\ Sla!DaysBack = SlaP!DaysBack
        /\ \A i : Sla!DayStart(i) = SlaP!DayStart(i) /\ Sla!DayEnd(i) = SlaP!DayEnd(i)
    BY DEF Sla!DaysBack, SlaP!DaysBack, Sla!DayStart, SlaP!DayStart, Sla!DayEnd, SlaP!DayEnd
  <1>6. \A rows : Sla!ComputeDailyBreakdown(rows) = SlaP!ComputeDailyBreakdown(rows)
    <2>1. \A rows, from, to : Sla!computeSLAForWindow(rows, from, to)
                                 = SlaP!computeSLAForWindow(rows, from, to)
      BY <1>2, <1>4 DEF Sla!computeSLAForWindow, SlaP!computeSLAForWindow
    <2>2. QED BY <1>5, <2>1 DEF Sla!ComputeDailyBreakdown, SlaP!ComputeDailyBreakdown
  <1>7. \A t : Sla!GetStateChangesSince(t) = SlaP!GetStateChangesSince(t)
    BY DEF Sla!GetStateChangesSince, SlaP!GetStateChangesSince, Sla!Bijection,
       SlaP!Bijection, Sla!Injection, SlaP!Injection, Sla!Surjection, SlaP!Surjection,
       Sla!IsInjective, SlaP!IsInjective, Sla!Cardinality, SlaP!Cardinality
  <1>8. \A rows, w : Sla!ComputeSLA(rows, hStatus, w) = SlaP!ComputeSLA(rows, hStatus, w)
    BY <1>2, <1>4 DEF Sla!ComputeSLA, SlaP!ComputeSLA
  <1>9. Sla!handleSLAData <=> SlaP!handleSLAData
    BY <1>2, <1>8, <1>6 DEF Sla!handleSLAData, SlaP!handleSLAData, Sla!IsInjective,
       SlaP!IsInjective
  <1>10. Sla!Next <=> SlaP!Next
    BY <1>2, <1>7, <1>9 DEF Sla!Next, SlaP!Next, Sla!ChangeStatus, SlaP!ChangeStatus,
       Sla!Save, SlaP!Save, Sla!Tick, SlaP!Tick, Sla!Load, SlaP!Load, Sla!Leave, SlaP!Leave
  <1>11. UNCHANGED hVars <=> UNCHANGED SlaP!historyVars
    BY DEF hVars, SlaP!historyVars
  <1>12. SlaP!SlaTruth => Sla!SlaTruth
    <2>1. /\ \A a, b : Sla!TrueDown(a, b) = SlaP!TrueDown(a, b)
          /\ \A t : Sla!DownBefore(t) <=> SlaP!DownBefore(t)
      BY DEF Sla!TrueDown, SlaP!TrueDown, Sla!DownBefore, SlaP!DownBefore,
         Sla!Cardinality, SlaP!Cardinality
    <2>2. Sla!Shown <=> SlaP!Shown
      BY <1>2 DEF Sla!Shown, SlaP!Shown
    <2>3. QED BY <1>5, <2>1, <2>2 DEF Sla!SlaTruth, SlaP!SlaTruth
  <1>13. SlaP!OutagesAddUp => Sla!OutagesAddUp
    BY <1>2 DEF Sla!OutagesAddUp, SlaP!OutagesAddUp
  <1>14. QED BY <1>1, <1>3, <1>10, <1>11, <1>12, <1>13

\* sla.go, ComputeSLA: from the changes in the table, whatever their number
\* and the window's length, the report's downtime is the real one, and so is
\* that of each of its days.
THEOREM SlaProved == Spec => []SlaTruth
  <1>1. Init => SlaP!HistoryInv
    BY Starts, SlaSame, SlaP!InitOk
  <1>2. SlaP!HistoryInv /\ [Next]_vars => SlaP!HistoryInv'
    BY Steps, SlaSame, SlaP!StepInv, ServicesAssumption
  <1>3. SlaP!HistoryInv => SlaTruth
    BY SlaSame, SlaP!Right DEF SlaTruth
  <1>4. QED BY <1>1, <1>2, <1>3, SpecSafety, PTL

\* sla.go, ComputeSLA: the uptime and the downtime of a report make its
\* window, and its outages its downtime, whatever rows it was given.
THEOREM FiguresProved == Spec => []OutagesAddUp
  <1>1. Init => SlaP!HistoryInv
    BY Starts, SlaSame, SlaP!InitOk
  <1>2. SlaP!HistoryInv /\ [Next]_vars => SlaP!HistoryInv'
    BY Steps, SlaSame, SlaP!StepInv, ServicesAssumption
  <1>3. SlaP!HistoryInv => OutagesAddUp
    BY SlaSame, SlaP!Right DEF OutagesAddUp
  <1>4. QED BY <1>1, <1>2, <1>3, SpecSafety, PTL

LEMMA ConfigSame ==
  /\ Config!ConfigAssumption => ConfP!ConfigAssumption
  /\ Config!Init => ConfP!Init
  /\ [Config!Next]_cVars => [ConfP!Next]_ConfP!configVars
  /\ ConfP!AppliedMatches => Config!AppliedMatches
  /\ ConfP!IdempotentClosed => Config!IdempotentClosed
  /\ ConfP!DryRunTruth => Config!DryRunTruth
  /\ ConfP!RoundTrip => Config!RoundTrip
  <1>1. Config!ConfigAssumption => ConfP!ConfigAssumption
    BY DEF Config!ConfigAssumption, ConfP!ConfigAssumption, Config!FileMade,
       ConfP!FileMade, Config!TablesMade, ConfP!TablesMade, Config!IsDb, ConfP!IsDb
  <1>2. Config!Init => ConfP!Init
    BY DEF Config!Init, ConfP!Init, Config!Idle, ConfP!Idle
  <1>3. /\ \A f : Config!Places(f) = ConfP!Places(f)
        /\ \A f, p : Config!At(f, p) = ConfP!At(f, p)
        /\ \A rows : Config!NamesOf(rows) = ConfP!NamesOf(rows)
        /\ \A table : Config!Unique(table) <=> ConfP!Unique(table)
        /\ \A table, n : Config!LastNamed(table, n) = ConfP!LastNamed(table, n)
        /\ Config!NoName = ConfP!NoName
    BY DEF Config!Places, ConfP!Places, Config!At, ConfP!At, Config!NamesOf,
       ConfP!NamesOf, Config!Unique, ConfP!Unique, Config!LastNamed,
       ConfP!LastNamed, Config!NoName, ConfP!NoName
  <1>4. /\ \A f : Config!Validate(f) <=> ConfP!Validate(f)
        /\ \A d : Config!WellFormed(d) <=> ConfP!WellFormed(d)
        /\ \A d : Config!IdsUnused(d) <=> ConfP!IdsUnused(d)
        /\ \A d : Config!ExportFile(d) = ConfP!ExportFile(d)
    BY <1>3 DEF Config!Validate, ConfP!Validate, Config!validateMonitor,
       ConfP!validateMonitor, Config!Kinds, ConfP!Kinds, Config!WellFormed,
       ConfP!WellFormed, Config!IdsUnused, ConfP!IdsUnused, Config!ExportFile,
       ConfP!ExportFile, Config!siteToMonitor, ConfP!siteToMonitor, Config!NoName,
       ConfP!NoName
  <1>5. \A f, prune, d : Config!Work(f, prune, d) = ConfP!Work(f, prune, d)
    BY <1>3 DEF Config!Work, ConfP!Work, Config!ItemOf, ConfP!ItemOf, Config!StageOf,
       ConfP!StageOf, Config!collectMonitorNames, ConfP!collectMonitorNames,
       Config!Unlisted, ConfP!Unlisted, Config!AlertStage, ConfP!AlertStage,
       Config!GroupStage, ConfP!GroupStage, Config!ChildStage, ConfP!ChildStage,
       Config!OtherStage, ConfP!OtherStage, Config!SitePrune, ConfP!SitePrune,
       Config!AlertPrune, ConfP!AlertPrune
  <1>6. \A f, exported, dry, prune :
          Config!Begin(f, exported, dry, prune) <=> ConfP!Begin(f, exported, dry, prune)
    BY DEF Config!Begin, ConfP!Begin, Config!Idle, ConfP!Idle, Config!NamesOf,
       ConfP!NamesOf, Config!LastNamed, ConfP!LastNamed, Config!Validate,
       ConfP!Validate, Config!validateMonitor, ConfP!validateMonitor, Config!Kinds,
       ConfP!Kinds, Config!NoName, ConfP!NoName, Config!Unique, ConfP!Unique,
       Config!Places, ConfP!Places, Config!At, ConfP!At, Config!WellFormed,
       ConfP!WellFormed, Config!IdsUnused, ConfP!IdsUnused, Config!Work,
       ConfP!Work, Config!ItemOf, ConfP!ItemOf, Config!StageOf, ConfP!StageOf,
       Config!collectMonitorNames, ConfP!collectMonitorNames, Config!Unlisted,
       ConfP!Unlisted, Config!AlertStage, ConfP!AlertStage, Config!GroupStage,
       ConfP!GroupStage, Config!ChildStage, ConfP!ChildStage, Config!OtherStage,
       ConfP!OtherStage, Config!SitePrune, ConfP!SitePrune, Config!AlertPrune,
       ConfP!AlertPrune
  <1>7. /\ \A d, row : Config!AddAlert(d, row) = ConfP!AddAlert(d, row)
        /\ \A d, id, row : Config!UpdateAlert(d, id, row) = ConfP!UpdateAlert(d, id, row)
        /\ \A d, row : Config!AddSite(d, row) = ConfP!AddSite(d, row)
        /\ \A d, id, row : Config!UpdateSite(d, id, row) = ConfP!UpdateSite(d, id, row)
        /\ \A d, id : Config!DeleteSite(d, id) = ConfP!DeleteSite(d, id)
        /\ \A d, id : Config!ReleaseAlert(d, id) = ConfP!ReleaseAlert(d, id)
        /\ \A d, id : Config!DropAlert(d, id) = ConfP!DropAlert(d, id)
        /\ \A f, k, v : Config!With(f, k, v) = ConfP!With(f, k, v)
    BY DEF Config!AddAlert, ConfP!AddAlert, Config!UpdateAlert, ConfP!UpdateAlert,
       Config!AddSite, ConfP!AddSite, Config!UpdateSite, ConfP!UpdateSite,
       Config!DeleteSite, ConfP!DeleteSite, Config!ReleaseAlert,
       ConfP!ReleaseAlert, Config!DropAlert, ConfP!DropAlert, Config!With,
       ConfP!With, Config!Without, ConfP!Without, Config!Tokened, ConfP!Tokened,
       Config!ReadForUpdate, ConfP!ReadForUpdate, Config!StoredToken,
       ConfP!StoredToken, Config!WriteRow, ConfP!WriteRow
  <1>8. /\ \A r, x, c : Config!Onward(r, x, c) = ConfP!Onward(r, x, c)
        /\ \A a, k, n : Config!Note(a, k, n) = ConfP!Note(a, k, n)
        /\ \A row, w : Config!diffSite(row, w) <=> ConfP!diffSite(row, w)
        /\ \A row, w : Config!diffAlert(row, w) <=> ConfP!diffAlert(row, w)
        /\ \A r, x : Config!Wanted(r, x) = ConfP!Wanted(r, x)
        /\ \A r, x : Config!Monitor(r, x) = ConfP!Monitor(r, x)
    <2>1. /\ \A r, x, c : Config!Onward(r, x, c) = ConfP!Onward(r, x, c)
          /\ \A a, k, n : Config!Note(a, k, n) = ConfP!Note(a, k, n)
      BY DEF Config!Onward, ConfP!Onward, Config!Note, ConfP!Note
    <2>2. \A row, w : Config!diffSite(row, w) <=> ConfP!diffSite(row, w)
      BY DEF Config!diffSite, ConfP!diffSite, Config!normalizeSite, ConfP!normalizeSite,
         Config!Normal, ConfP!Normal
    <2>3. \A row, w : Config!diffAlert(row, w) <=> ConfP!diffAlert(row, w)
      BY DEF Config!diffAlert, ConfP!diffAlert
    <2>4. \A r, x : Config!Monitor(r, x) = ConfP!Monitor(r, x)
      BY DEF Config!Monitor, ConfP!Monitor, Config!At, ConfP!At
    <2>5. \A r, x : Config!Wanted(r, x) = ConfP!Wanted(r, x)
      BY DEF Config!Wanted, ConfP!Wanted, Config!Monitor, ConfP!Monitor, Config!At,
         ConfP!At, Config!monitorToSite, ConfP!monitorToSite, Config!Normal, ConfP!Normal,
         Config!resolveAlertID, ConfP!resolveAlertID, Config!ChildStage,
         ConfP!ChildStage, Config!NoName, ConfP!NoName
    <2>6. QED BY <2>1, <2>2, <2>3, <2>4, <2>5
  <1>9. /\ \A r, d, x : Config!ApplyAlert(r, d, x) = ConfP!ApplyAlert(r, d, x)
        /\ \A r, d, x : Config!applyMonitor(r, d, x) = ConfP!applyMonitor(r, d, x)
        /\ \A r, d, x : Config!pruneSite(r, d, x) = ConfP!pruneSite(r, d, x)
        /\ \A r, d, x : Config!pruneAlert(r, d, x) = ConfP!pruneAlert(r, d, x)
        /\ \A r, d, x : Config!dropAlert(r, d, x) = ConfP!dropAlert(r, d, x)
    <2>1. \A r, d, x : Config!ApplyAlert(r, d, x) = ConfP!ApplyAlert(r, d, x)
      BY DEF Config!ApplyAlert, ConfP!ApplyAlert, Config!LastNamed, ConfP!LastNamed,
         Config!Onward, ConfP!Onward, Config!Note, ConfP!Note, Config!With,
         ConfP!With, Config!diffAlert, ConfP!diffAlert, Config!AddAlert,
         ConfP!AddAlert, Config!UpdateAlert, ConfP!UpdateAlert
    <2>2. ASSUME NEW r, NEW d, NEW x
          PROVE  Config!applyMonitor(r, d, x) = ConfP!applyMonitor(r, d, x)
      <3> DEFINE m       == Config!Monitor(r, x)
                 mP      == ConfP!Monitor(r, x)
                 row     == Config!Wanted(r, x)
                 rowP    == ConfP!Wanted(r, x)
                 old     == Config!LastNamed(r.sites, m.name)
                 oldP    == ConfP!LastNamed(r.sites, mP.name)
                 id      == IF old = 0 THEN IF r.dry THEN r.placeholder ELSE d.lastSite + 1
                            ELSE old
                 idP     == IF oldP = 0 THEN IF r.dry THEN r.placeholder ELSE d.lastSite + 1
                            ELSE oldP
                 change  == IF old = 0 THEN {Config!Note("create", "monitor", m.name)}
                            ELSE IF Config!diffSite(r.sites[old], row)
                            THEN {Config!Note("update", "monitor", m.name)} ELSE {}
                 changeP == IF oldP = 0 THEN {ConfP!Note("create", "monitor", mP.name)}
                            ELSE IF ConfP!diffSite(r.sites[oldP], rowP)
                            THEN {ConfP!Note("update", "monitor", mP.name)} ELSE {}
                 on      == Config!Onward(r, x, change)
                 onP     == ConfP!Onward(r, x, changeP)
                 F(b, o, g, c, ins, upd) ==
                   [run |-> [b EXCEPT
                       !.groupMap = IF x[1] = 2 THEN g ELSE @,
                       !.placeholder = IF x[1] = 2 /\ r.dry /\ o = 0 THEN @ - 1 ELSE @],
                    db  |-> IF r.dry \/ c = {} THEN d ELSE IF o = 0 THEN ins ELSE upd]
      <3>1. Config!applyMonitor(r, d, x) =
              F(on, old, Config!With(on.groupMap, m.name, id), change,
                Config!AddSite(d, row), Config!UpdateSite(d, old, row))
        BY DEF Config!applyMonitor, Config!GroupStage
      <3>2. ConfP!applyMonitor(r, d, x) =
              F(onP, oldP, ConfP!With(onP.groupMap, mP.name, idP), changeP,
                ConfP!AddSite(d, rowP), ConfP!UpdateSite(d, oldP, rowP))
        BY DEF ConfP!applyMonitor, ConfP!GroupStage
      <3> HIDE DEF F, m, mP, row, rowP
      <3>3. m = mP /\ row = rowP
        BY <1>8 DEF m, mP, row, rowP
      <3>4. old = oldP
        BY <3>3, <1>3
      <3> HIDE DEF old, oldP
      <3>5. id = idP
        BY <3>4
      <3>6. /\ Config!Note("create", "monitor", m.name) = ConfP!Note("create", "monitor", mP.name)
            /\ Config!Note("update", "monitor", m.name) = ConfP!Note("update", "monitor", mP.name)
            /\ Config!diffSite(r.sites[old], row) <=> ConfP!diffSite(r.sites[oldP], rowP)
        BY <3>3, <3>4, <1>8
      <3>7. change = changeP
        BY <3>4, <3>6
      <3> HIDE DEF id, idP, change, changeP
      <3>8. on = onP
        BY <3>7, <1>8
      <3> HIDE DEF on, onP
      <3>9. /\ Config!With(on.groupMap, m.name, id) = ConfP!With(onP.groupMap, mP.name, idP)
            /\ Config!AddSite(d, row) = ConfP!AddSite(d, rowP)
            /\ Config!UpdateSite(d, old, row) = ConfP!UpdateSite(d, oldP, rowP)
        BY <3>3, <3>4, <3>5, <3>8, <1>7
      <3>10. QED BY <3>1, <3>2, <3>4, <3>7, <3>8, <3>9
    <2>3. /\ \A r, d, x : Config!pruneSite(r, d, x) = ConfP!pruneSite(r, d, x)
          /\ \A r, d, x : Config!dropAlert(r, d, x) = ConfP!dropAlert(r, d, x)
      BY <1>7, <1>8 DEF Config!pruneSite, ConfP!pruneSite, Config!dropAlert,
         ConfP!dropAlert
    <2>4. ASSUME NEW r, NEW d, NEW x
          PROVE  Config!pruneAlert(r, d, x) = ConfP!pruneAlert(r, d, x)
      <3> DEFINE note  == {Config!Note("delete", "alert", r.alerts[x[2]].name)}
                 noteP == {ConfP!Note("delete", "alert", r.alerts[x[2]].name)}
                 next  == Config!Onward(r, x, note)
                 nextP == ConfP!Onward(r, x, noteP)
                 F(n, released) ==
                   IF r.dry THEN [run |-> n, db |-> d]
                   ELSE [run |-> [n EXCEPT !.todo = @ \cup {<<6, x[2], 1>>}],
                         db  |-> released]
      <3>1. Config!pruneAlert(r, d, x) = F(next, Config!ReleaseAlert(d, x[2]))
        BY DEF Config!pruneAlert, Config!AlertPrune
      <3>2. ConfP!pruneAlert(r, d, x) = F(nextP, ConfP!ReleaseAlert(d, x[2]))
        BY DEF ConfP!pruneAlert, ConfP!AlertPrune
      <3> HIDE DEF F, next, nextP
      <3>3. note = noteP
        BY <1>8
      <3> HIDE DEF note, noteP
      <3>4. next = nextP
        BY <3>3, <1>8 DEF next, nextP
      <3>5. Config!ReleaseAlert(d, x[2]) = ConfP!ReleaseAlert(d, x[2])
        BY <1>7
      <3>6. QED BY <3>1, <3>2, <3>4, <3>5
    <2>5. QED BY <2>1, <2>2, <2>3, <2>4
  <1>10. \A r, d, x : Config!Outcome(r, d, x) = ConfP!Outcome(r, d, x)
    BY <1>9 DEF Config!Outcome, ConfP!Outcome, Config!AlertStage, ConfP!AlertStage,
       Config!GroupStage, ConfP!GroupStage, Config!ChildStage, ConfP!ChildStage,
       Config!OtherStage, ConfP!OtherStage, Config!SitePrune, ConfP!SitePrune,
       Config!AlertPrune, ConfP!AlertPrune
  <1>11. /\ \A r, x : Config!Stuck(r, x) <=> ConfP!Stuck(r, x)
         /\ \A r, x : Config!First(r, x) <=> ConfP!First(r, x)
    BY <1>3, <1>8 DEF Config!Stuck, ConfP!Stuck, Config!Unresolved, ConfP!Unresolved,
       Config!NoName, ConfP!NoName, Config!First, ConfP!First, Config!Before,
       ConfP!Before, Config!GroupStage, ConfP!GroupStage, Config!ChildStage,
       ConfP!ChildStage, Config!OtherStage, ConfP!OtherStage
  <1>12. Config!Next <=> ConfP!Next
    BY <1>4, <1>6, <1>10, <1>11 DEF Config!Next, ConfP!Next, Config!Item, ConfP!Item, Config!AlertNotFound,
       ConfP!AlertNotFound, Config!WriteFails, ConfP!WriteFails, Config!Finish,
       ConfP!Finish
  <1>13. UNCHANGED cVars <=> UNCHANGED ConfP!configVars
    BY DEF cVars, ConfP!configVars
  <1>14. \A f : Config!Closed(f) <=> ConfP!Closed(f)
    BY <1>3 DEF Config!Closed, ConfP!Closed
  <1>15. /\ \A d, f, prune : Config!Matches(d, f, prune) <=> ConfP!Matches(d, f, prune)
         /\ Config!NoDuplicates <=> ConfP!NoDuplicates
    BY <1>3 DEF Config!Matches, ConfP!Matches, Config!Normal, ConfP!Normal,
       Config!collectMonitorNames, ConfP!collectMonitorNames, Config!NoDuplicates,
       ConfP!NoDuplicates
  <1>16. ConfP!AppliedMatches => Config!AppliedMatches
    BY <1>14, <1>15 DEF Config!AppliedMatches, ConfP!AppliedMatches
  <1>17. /\ ConfP!IdempotentClosed => Config!IdempotentClosed
         /\ ConfP!DryRunTruth => Config!DryRunTruth
         /\ ConfP!RoundTrip => Config!RoundTrip
    BY <1>14 DEF Config!IdempotentClosed, ConfP!IdempotentClosed, Config!Idempotent,
       ConfP!Idempotent, Config!SameRequest, ConfP!SameRequest, Config!Answered,
       ConfP!Answered, Config!DryRunTruth, ConfP!DryRunTruth, Config!RoundTrip,
       ConfP!RoundTrip
  <1>18. QED BY <1>1, <1>2, <1>12, <1>13, <1>16, <1>17

LEMMA ConfigInit == Init => ConfP!ApplyInv
  BY Starts, ConfigSame, ConfP!ApplyInit, ServicesAssumption

LEMMA ConfigStep == ConfP!ApplyInv /\ [Next]_vars => ConfP!ApplyInv'
  BY Steps, ConfigSame, ConfP!ApplySteps, ServicesAssumption

\* apply.go, Apply: a run that reports success has made the database what the
\* file says, whatever it found there and whatever an earlier run that broke off
\* left behind, and nothing twice; with --prune, for a file that lists the alerts
\* it refers to.
THEOREM MatchesProved == Spec => []AppliedMatches
  <1>1. ConfP!ApplyInv => AppliedMatches
    BY ConfigSame, ConfP!ApplySafe DEF AppliedMatches
  <1>2. QED BY ConfigInit, ConfigStep, <1>1, SpecSafety, PTL

\* docs/config-as-code.md: apply the same file again, and it finds nothing to
\* change and nothing to complain of, whatever the ids are by then.
THEOREM RerunProved == Spec => []IdempotentClosed
  <1>1. ConfP!ApplyInv => IdempotentClosed
    BY ConfigSame, ConfP!ApplySafe DEF IdempotentClosed
  <1>2. QED BY ConfigInit, ConfigStep, <1>1, SpecSafety, PTL

\* apply.go, ApplyOptions.DryRun: what a dry run announces is what the real run
\* does, the step at which it fails included, although the one works with
\* placeholder ids and the other with those the database gives out.
THEOREM DryRunProved == Spec => []DryRunTruth
  <1>1. ConfP!ApplyInv => DryRunTruth
    BY ConfigSame, ConfP!ApplySafe DEF DryRunTruth
  <1>2. QED BY ConfigInit, ConfigStep, <1>1, SpecSafety, PTL

\* export.go, Export: what it writes is valid and applying it changes nothing,
\* for any database whose names are unique and whose references lead to rows.
THEOREM RoundTripProved == Spec => []RoundTrip
  <1>1. ConfP!ApplyInv => RoundTrip
    BY ConfigSame, ConfP!ApplySafe DEF RoundTrip
  <1>2. QED BY ConfigInit, ConfigStep, <1>1, SpecSafety, PTL
=============================================================================
