------------------------------ MODULE Failover ------------------------------
(***************************************************************************)
(* A leader and its follower (internal/cluster).  The leader's engine is   *)
(* active as long as its process runs.  The follower polls the leader's    *)
(* /api/health: after Threshold failures in a row it switches its own      *)
(* engine on, at the first healthy answer it switches it off again.        *)
(*                                                                         *)
(* The follower's process passes through these phases:                     *)
(*   "off"   not running              "ask"     the request is under way   *)
(*   "boot"  eng.Start has run,       "decide"  the answer is there        *)
(*           cluster.Start has not                                         *)
(*   "sleep" waiting for the next poll                                     *)
(* An answer tells how things were when the leader gave it; they may have  *)
(* changed by the time the follower decides.                               *)
(***************************************************************************)
EXTENDS Naturals, Sequences

CONSTANTS Threshold,   \* leaderFailureThreshold
          FailureCap,  \* bound: failures are counted up to here
          Partitions   \* may the network between the two fail?

ASSUME FailoverAssumption ==
  /\ Threshold \in Nat \ {0}
  /\ FailureCap \in Nat /\ FailureCap >= Threshold
  /\ Partitions \in BOOLEAN

VARIABLES leader,    \* is the leader's process running?
          link,      \* do requests reach the leader and come back in time?
          phase,     \* the follower's process
          active,    \* isActive of the follower's engine
          failures,  \* failed polls in a row
          healthy,   \* the answer to the last poll
          recent,    \* history: the answers the last decisions were made on
          checks     \* is a routine of the follower's engine in a check?

vars == <<leader, link, phase, active, failures, healthy, recent, checks>>

Phases == {"off", "boot", "sleep", "ask", "decide"}

TypeOK == /\ leader \in BOOLEAN /\ link \in BOOLEAN
          /\ phase \in Phases
          /\ active \in BOOLEAN
          /\ failures \in 0..FailureCap
          /\ healthy \in BOOLEAN
          /\ recent \in Seq(BOOLEAN) /\ Len(recent) <= Threshold
          /\ checks \in BOOLEAN

Serving == leader /\ link

Init == /\ leader \in BOOLEAN /\ link = TRUE
        /\ phase = "off"
        /\ active = FALSE
        /\ failures = 0
        /\ healthy = FALSE
        /\ recent = <<>>
        /\ checks = FALSE

-----------------------------------------------------------------------------
LeaderCrashOrRestart ==
  /\ leader' = ~leader
  /\ UNCHANGED <<link, phase, active, failures, healthy, recent, checks>>

Network ==
  /\ Partitions
  /\ link' = ~link
  /\ UNCHANGED <<leader, phase, active, failures, healthy, recent, checks>>

\* runServe up to eng.Start: newEngine is active whatever the mode.
Boot ==
  /\ phase = "off"
  /\ phase' = "boot"
  /\ active' = TRUE
  /\ UNCHANGED <<leader, link, failures, healthy, recent, checks>>

\* cluster.Start in follower mode.
Start ==
  /\ phase = "boot"
  /\ phase' = "sleep"
  /\ active' = FALSE
  /\ failures' = 0
  /\ recent' = <<>>
  /\ UNCHANGED <<leader, link, healthy, checks>>

Crash ==
  /\ phase # "off"
  /\ phase' = "off"
  /\ active' = FALSE
  /\ checks' = FALSE
  /\ UNCHANGED <<leader, link, failures, healthy, recent>>

-----------------------------------------------------------------------------
(* runFollowerLoop.                                                        *)

Ask == /\ phase = "sleep"
       /\ phase' = "ask"
       /\ UNCHANGED <<leader, link, active, failures, healthy, recent, checks>>

\* 200 within followerTimeout, or anything else.
Answer == /\ phase = "ask"
          /\ phase' = "decide"
          /\ healthy' = Serving
          /\ UNCHANGED <<leader, link, active, failures, recent, checks>>

Remember(answer) ==
  recent' = Append(IF Len(recent) < Threshold THEN recent ELSE Tail(recent),
                   answer)

NeverReset == IF ~healthy /\ failures < FailureCap THEN failures + 1    \* mutant
                                                   ELSE failures
SkipErrors == IF healthy THEN 0 ELSE failures                    \* mutant
CountEverything == IF failures = 0 /\ healthy THEN 0 ELSE failures + 1 \* mutant
Counted == IF healthy THEN 0
           ELSE IF failures < FailureCap THEN failures + 1 ELSE failures

NeverYield(n) == active \/ n >= Threshold                        \* mutant
Switched(n) == ~healthy /\ (active \/ n >= Threshold)

Decide ==
  /\ phase = "decide"
  /\ phase' = "sleep"
  /\ Remember(healthy)
  /\ failures' = Counted
  /\ active' = Switched(failures')
  /\ UNCHANGED <<leader, link, healthy, checks>>

\* A routine of the follower's engine finds it active and checks a monitor.
CheckBegins ==
  /\ phase # "off" /\ active /\ ~checks
  /\ checks' = TRUE
  /\ UNCHANGED <<leader, link, phase, active, failures, healthy, recent>>

CheckEnds ==
  /\ checks
  /\ checks' = FALSE
  /\ UNCHANGED <<leader, link, phase, active, failures, healthy, recent>>

-----------------------------------------------------------------------------
FollowerStep == Start \/ Ask \/ Answer \/ Decide

Next == LeaderCrashOrRestart \/ Network \/ Boot \/ Crash \/ FollowerStep
          \/ CheckBegins \/ CheckEnds

Spec == Init /\ [][Next]_vars

\* The follower's main goroutine and its loop are scheduled, and its timer
\* and the timeout of its requests expire.
FairSpec == Spec /\ WF_vars(FollowerStep)

-----------------------------------------------------------------------------
(***************************************************************************)
(* docs/clustering.md: the follower promotes itself "after 3 consecutive   *)
(* failures", never on fewer, on failures of an earlier outage or of an    *)
(* earlier life of its process.                                            *)
(***************************************************************************)
ThreeStrikes ==
  [][(phase = "decide" /\ ~active /\ active')
       => recent' = [i \in 1..Threshold |-> FALSE]]_vars

(***************************************************************************)
(* "This window lasts until the partition heals, at which point the        *)
(* follower detects the leader and steps down": both are never active for  *)
(* ever once the leader can be reached.                                    *)
(***************************************************************************)
SplitBrainEnds == (active /\ Serving) ~> (~active \/ ~Serving)

(***************************************************************************)
(* A leader that is gone for good is replaced, if the follower lives on.   *)
(***************************************************************************)
TakesOver ==
  (phase = "sleep" /\ ~Serving) ~> (active \/ Serving \/ phase = "off")

(***************************************************************************)
(* docs/clustering.md, "Follower vs probe": a follower runs checks "only   *)
(* when leader is down"; at the least it begins none before it has polled  *)
(* the leader, while the leader is there.                                  *)
(***************************************************************************)
ChecksOnlyWhenLeaderDown ==
  [][(~checks /\ checks' /\ recent = <<>>) => ~Serving]_vars

=============================================================================
