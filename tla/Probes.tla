------------------------------- MODULE Probes -------------------------------
(***************************************************************************)
(* Remote probes and the leader that aggregates their reports.  A probe    *)
(* registers once, then in a loop asks for its assignments, checks them    *)
(* and posts the results.  The leader keeps the newest result of every     *)
(* probe per site, forgets the ones older than staleAfter when it handles  *)
(* a report, and hands the aggregate to the status machine.                *)
(*                                                                         *)
(* A Tick is one probe interval.  A request may be lost; a reply may come  *)
(* after the client gave up, so the handler of an old report can still run *)
(* beside that of a newer one.  Faults of every kind share one budget.     *)
(***************************************************************************)
EXTENDS Naturals, FiniteSets

CONSTANTS
  Probes, Sites,
  Deployments, \* sets of probes: [Probes -> region], "" for none
  Regions,     \* [Sites -> set of regions], {} for everywhere
  StaleAfter,  \* in probe intervals
  MaxFlips,    \* bound: times the world changes
  MaxFaults    \* bound: crashes, lost messages, delays, failed lookups

ProbesAssumption ==
  /\ StaleAfter \in Nat \ {0} /\ MaxFlips \in Nat /\ MaxFaults \in Nat
  /\ Deployments \subseteq [Probes -> STRING] /\ DOMAIN Regions = Sites

VARIABLES
  strategy,  \* aggStrategy
  region,    \* NodeRegion of each probe, one of Deployments
  sees,      \* [Probes -> sites that answer this probe]
  live,      \* sites the engine has
  idle,      \* the ones that are paused, push monitors or groups
  nodes,     \* registered probes
  probe,     \* [Probes -> what it does and the results it holds]
  inbox,     \* reports the leader is handling
  results,   \* probeResults: (site, probe) -> [up, age]
  verdict,   \* [Sites -> the aggregate last handed over], "none" at first
  blind,     \* probes that were ever given assignments without a region
  flips, faults

probeVars == <<strategy, region, sees, live, idle, nodes, probe, inbox, results, verdict,
               blind, flips, faults>>

Strategies == {"any-down", "majority-down", "all-down"}
At(pc)   == [pc |-> pc, checked |-> <<>>]
Running(p) == probe[p].pc # "gone"
Matches(r, s) == Regions[s] = {} \/ r = "" \/ r \in Regions[s]
Covers(p, s) == Matches(region[p], s)

Init ==
  /\ strategy \in Strategies
  /\ region \in Deployments
  /\ sees = [p \in Probes |-> Sites]
  /\ live = Sites
  /\ idle = {}
  /\ nodes = {}
  /\ probe = [p \in Probes |-> At("register")]
  /\ inbox = {}
  /\ results = <<>>
  /\ verdict = [s \in Sites |-> "none"]
  /\ blind = {}
  /\ flips = 0
  /\ faults = 0

Fault == faults < MaxFaults /\ faults' = faults + 1

-----------------------------------------------------------------------------
\* The probe.
\* probeRegister: one attempt, whatever comes of it.
Register(p) ==
  /\ probe[p].pc = "register"
  /\ nodes' = nodes \cup {p}
  /\ probe' = [probe EXCEPT ![p] = At("ask")]
  /\ UNCHANGED <<strategy, region, sees, live, idle, inbox, results, verdict,
                 blind, flips, faults>>

RegisterFails(p) ==
  /\ probe[p].pc = "register"
  /\ Fault
  /\ probe' = [probe EXCEPT ![p] = At("ask")]
  /\ UNCHANGED <<strategy, region, sees, live, idle, nodes, inbox, results,
                 verdict, blind, flips>>

\* handleProbeAssignments: a probe without a region, or whose region the
\* leader does not know, is given every site that probes check.
AssignsAll(p, known) == live \ idle                              \* mutant
WantsRegion(p, known) ==                                         \* mutant
  {s \in live \ idle : Regions[s] = {} \/ (known /\ region[p] \in Regions[s])}
Assigned(p, known) ==
  {s \in live \ idle : Matches(IF known THEN region[p] ELSE "", s)}

Ask(p) ==
  LET known == p \in nodes IN
  /\ probe[p].pc = "ask"
  /\ probe' = [probe EXCEPT ![p] =
       [pc |-> "report",
        checked |-> [s \in Assigned(p, known) |-> s \in sees[p]]]]
  /\ blind' = IF known THEN blind ELSE blind \cup {p}
  /\ UNCHANGED <<strategy, region, sees, live, idle, nodes, inbox, results,
                 verdict, flips, faults>>

\* The leader's lookup of the node fails, which reads as an unknown region.
AskUnknown(p) ==
  /\ probe[p].pc = "ask" /\ p \in nodes
  /\ Fault
  /\ probe' = [probe EXCEPT ![p] =
       [pc |-> "report",
        checked |-> [s \in Assigned(p, FALSE) |-> s \in sees[p]]]]
  /\ blind' = blind \cup {p}
  /\ UNCHANGED <<strategy, region, sees, live, idle, nodes, inbox, results,
                 verdict, flips>>

\* The assignments do not arrive, or the report is lost: the probe sleeps and
\* starts over with the next interval.
RoundLost(p) ==
  /\ probe[p].pc \in {"ask", "report"}
  /\ Fault
  /\ probe' = [probe EXCEPT ![p] = At("sleep")]
  /\ UNCHANGED <<strategy, region, sees, live, idle, nodes, inbox, results,
                 verdict, blind, flips>>

\* A handler returns after the last result.
Unfinished(h) == IF h.pc = "next" /\ DOMAIN h.todo = {} THEN {} ELSE {h}

Report(p) ==
  /\ probe[p].pc = "report"
  /\ inbox' = inbox \cup Unfinished([from |-> p, todo |-> probe[p].checked,
                                     pc |-> "next", site |-> "", up |-> FALSE])
  /\ probe' = [probe EXCEPT ![p] = At("sleep")]
  /\ UNCHANGED <<strategy, region, sees, live, idle, nodes, results, verdict,
                 blind, flips, faults>>

Crash(p) ==
  /\ Running(p)
  /\ Fault
  /\ probe' = [probe EXCEPT ![p] = At("gone")]
  /\ UNCHANGED <<strategy, region, sees, live, idle, nodes, inbox, results,
                 verdict, blind, flips>>

Restart(p) ==
  /\ ~Running(p)
  /\ probe' = [probe EXCEPT ![p] = At("register")]
  /\ UNCHANGED <<strategy, region, sees, live, idle, nodes, inbox, results,
                 verdict, blind, flips, faults>>

-----------------------------------------------------------------------------
\* The leader.
Keys(s) == {k \in DOMAIN results : k[1] = s}

\* AggregateStatus over the results of one site.
AggregateStatus(rs, strat) ==
  LET up == Cardinality({k \in DOMAIN rs : rs[k].up})
      n  == Cardinality(DOMAIN rs)
  IN  CASE n = 0                     -> TRUE
        [] strat = "majority-down"   -> up > n \div 2
        [] strat = "all-down"        -> up > 0
        [] OTHER                     -> up = n

\* IngestProbeResult for the next result of a report: is the site there?
Look(h, s) ==
  /\ h \in inbox /\ h.pc = "next" /\ s \in DOMAIN h.todo
  /\ inbox' = (inbox \ {h}) \cup Unfinished(
       [h EXCEPT !.todo = [t \in DOMAIN @ \ {s} |-> @[t]],
                 !.pc = IF s \in live THEN "record" ELSE "next",
                 !.site = s, !.up = h.todo[s]])
  /\ UNCHANGED <<strategy, region, sees, live, idle, nodes, probe, results,
                 verdict, blind, flips, faults>>

\* Under probeResultsMu: the new result in, the stale ones of the site out,
\* and the aggregate of the rest.
Fresh(rs, s) == [k \in {k \in DOMAIN rs : k[1] = s => rs[k].age <= StaleAfter} |-> rs[k]]

Record(h) ==
  LET s   == h.site
      all == [k \in DOMAIN results \cup {<<s, h.from>>} |->
                IF k = <<s, h.from>> THEN [up |-> h.up, age |-> 0] ELSE results[k]]
      kept == Fresh(all, s)
      own  == [k \in {k \in DOMAIN kept : k[1] = s} |-> kept[k]]
  IN
  /\ h \in inbox /\ h.pc = "record"
  /\ results' = kept
  /\ inbox' = (inbox \ {h}) \cup
       {[h EXCEPT !.pc = "apply", !.up = AggregateStatus(own, strategy)]}
  /\ UNCHANGED <<strategy, region, sees, live, idle, nodes, probe, verdict,
                 blind, flips, faults>>

\* handleStatusChange, after the lock is released; a removed site is ignored.
Apply(h) ==
  /\ h \in inbox /\ h.pc = "apply"
  /\ verdict' = IF h.site \in live THEN [verdict EXCEPT ![h.site] =
                                           IF h.up THEN "up" ELSE "down"]
                                   ELSE verdict
  /\ inbox' = (inbox \ {h}) \cup
       Unfinished([h EXCEPT !.pc = "next", !.site = "", !.up = FALSE])
  /\ UNCHANGED <<strategy, region, sees, live, idle, nodes, probe, results,
                 blind, flips, faults>>

\* RemoveSite, and the site coming back (a failed delete, or its id reused).
RemoveSite(s) ==
  /\ s \in live /\ flips < MaxFlips
  /\ flips' = flips + 1
  /\ live' = live \ {s}
  /\ results' = [k \in DOMAIN results \ Keys(s) |-> results[k]]
  /\ UNCHANGED <<strategy, region, sees, idle, nodes, probe, inbox, verdict,
                 blind, faults>>

SiteBack(s) ==
  /\ s \notin live
  /\ live' = live \cup {s}
  /\ verdict' = [verdict EXCEPT ![s] = "none"]
  /\ UNCHANGED <<strategy, region, sees, idle, nodes, probe, inbox, results,
                 blind, flips, faults>>

\* A site is paused or resumed, or an edit changes its type.
Toggle(s) ==
  /\ s \in live /\ flips < MaxFlips
  /\ flips' = flips + 1
  /\ idle' = IF s \in idle THEN idle \ {s} ELSE idle \cup {s}
  /\ UNCHANGED <<strategy, region, sees, live, nodes, probe, inbox, results,
                 verdict, blind, faults>>

-----------------------------------------------------------------------------
\* The world.
Flip(p, s) ==
  /\ flips < MaxFlips
  /\ flips' = flips + 1
  /\ sees' = [sees EXCEPT ![p] = IF s \in @ THEN @ \ {s} ELSE @ \cup {s}]
  /\ UNCHANGED <<strategy, region, live, idle, nodes, probe, inbox, results,
                 verdict, blind, faults>>

\* An interval passes.  Rounds are shorter than the interval and handlers
\* than a round, unless a fault delays them.
Prompt == inbox = {} /\ \A p \in Probes : probe[p].pc \in {"sleep", "gone"}

Tick ==
  /\ IF Prompt THEN UNCHANGED faults ELSE Fault
  /\ results' = [k \in DOMAIN results |->
       [results[k] EXCEPT !.age = IF @ > StaleAfter THEN @ ELSE @ + 1]]
  /\ probe' = [p \in Probes |->
                 IF probe[p].pc = "sleep" THEN At("ask") ELSE probe[p]]
  /\ UNCHANGED <<strategy, region, sees, live, idle, nodes, inbox, verdict,
                 blind, flips>>

ProbeStep(p) == Register(p) \/ Ask(p) \/ Report(p)
Handle(h)    == Record(h) \/ Apply(h) \/ \E s \in DOMAIN h.todo : Look(h, s)

Next ==
  \/ \E p \in Probes : ProbeStep(p)
  \/ \E p \in Probes : RegisterFails(p) \/ AskUnknown(p) \/ RoundLost(p)
                       \/ Crash(p) \/ Restart(p)
  \/ \E h \in inbox : Handle(h)
  \/ \E s \in Sites : RemoveSite(s) \/ SiteBack(s) \/ Toggle(s)
  \/ \E p \in Probes, s \in Sites : Flip(p, s)
  \/ Tick

\* A running probe keeps going, the HTTP server handles what it was sent, and
\* time passes.
Fairness ==
  /\ \A p \in Probes : WF_probeVars(ProbeStep(p))
  /\ WF_probeVars(\E h \in inbox : Handle(h))
  /\ WF_probeVars(Tick)

Spec == Init /\ [][Next]_probeVars /\ Fairness

-----------------------------------------------------------------------------
\* The sites a running probe reports on in the long run.
Reports(p, s) == Running(p) /\ (p \in nodes => Covers(p, s))

\* What the strategies promise, said with quantifiers: any-down is up when no
\* probe sees it down, all-down when some probe sees it up, majority-down when
\* more see it up than down, so that a tie is down.
Meaning(ups, downs, strat) ==
  CASE strat = "any-down"      -> downs = {}
    [] strat = "all-down"      -> ups # {} \/ downs = {}
    [] strat = "majority-down" -> Cardinality(ups) > Cardinality(downs) \/ ups \cup downs = {}

\* When the world and the network have calmed down, the verdict on a site that
\* some running probe reports on becomes, and stays, what the strategy says of
\* the running probes: dead probes, results for another life of the site and
\* handlers that overtook each other are forgotten in the end.
Converges ==
  <>[](\A s \in live \ idle :
         LET on == {p \in Probes : Reports(p, s)} IN
         on # {} => verdict[s] = IF Meaning({p \in on : s \in sees[p]},
                                            {p \in on : s \notin sees[p]}, strategy)
                                 THEN "up" ELSE "down")

\* No result of a probe that has a region counts for a site outside it, unless
\* the leader did not know the region when it assigned the site.
RegionRespected ==
  \A k \in DOMAIN results : Covers(k[2], k[1]) \/ k[2] \in blind
=============================================================================
