-------------------------- MODULE Failover_proofs --------------------------
(***************************************************************************)
(* A follower takes over only after Threshold failures in a row, for any   *)
(* threshold and any order of crashes, partitions and answers.             *)
(***************************************************************************)
EXTENDS Failover, SequenceTheorems, TLAPS

Polling == {"sleep", "ask", "decide"}

\* The answers the loop remembers: FALSE wherever `failures' counts one.
Recent == recent \in Seq(BOOLEAN) /\ Len(recent) <= Threshold

Trailing(s, n) ==
  /\ Len(s) >= n \/ Len(s) = Threshold
  /\ \A i \in 1..Len(s) : i + n > Len(s) => s[i] = FALSE

StrikesInv ==
  /\ healthy \in BOOLEAN
  /\ failures \in 0..FailureCap
  /\ Recent
  /\ phase \in Polling => (active \/ failures < Threshold) /\ Trailing(recent, failures)

-----------------------------------------------------------------------------
\* What Remember makes of the answers: as long as the threshold at most, the
\* newest answer last, before it the ones that were last before.
LEMMA Remembered ==
  ASSUME Recent, NEW a \in BOOLEAN, Remember(a)
  PROVE  /\ Recent'
         /\ Len(recent') \in Nat \ {0} /\ Len(recent) \in Nat
         /\ recent'[Len(recent')] = a
         /\ \A i \in 1..(Len(recent') - 1) :
              /\ i + (Len(recent) - (Len(recent') - 1)) \in 1..Len(recent)
              /\ recent'[i] = recent[i + (Len(recent) - (Len(recent') - 1))]
         /\ IF Len(recent) < Threshold THEN Len(recent') = Len(recent) + 1
                                       ELSE Len(recent) = Threshold /\ Len(recent') = Threshold
<1>1. Threshold \in Nat \ {0} /\ recent \in Seq(BOOLEAN) /\ Len(recent) \in Nat
  BY FailoverAssumption DEF Recent
<1>2. CASE Len(recent) < Threshold
  <2>1. recent' = Append(recent, a)
    BY <1>2 DEF Remember
  <2>2. /\ recent' \in Seq(BOOLEAN) /\ Len(recent') = Len(recent) + 1
        /\ recent'[Len(recent) + 1] = a
        /\ \A i \in 1..Len(recent) : recent'[i] = recent[i]
    BY <1>1, <2>1
  <2>3. \A i \in 1..(Len(recent') - 1) : i + (Len(recent) - (Len(recent') - 1)) = i
    BY <1>1, <2>2
  <2>. QED BY <1>1, <1>2, <2>2, <2>3 DEF Recent
<1>3. CASE ~(Len(recent) < Threshold)
  <2>. DEFINE t == Tail(recent)
  <2>0. recent' = Append(t, a) /\ Len(recent) = Threshold
    BY <1>1, <1>3 DEF Remember, Recent
  <2>1. /\ t \in Seq(BOOLEAN) /\ Len(t) = Threshold - 1 /\ Len(t) \in Nat
        /\ \A i \in 1..Len(t) : t[i] = recent[i + 1]
    BY <1>1, <2>0
  <2>. HIDE DEF t
  <2>2. /\ recent' \in Seq(BOOLEAN) /\ Len(recent') = Len(t) + 1
        /\ recent'[Len(t) + 1] = a
        /\ \A i \in 1..Len(t) : recent'[i] = t[i]
    BY <2>0, <2>1
  <2>3. \A i \in 1..(Len(recent') - 1) : i + (Len(recent) - (Len(recent') - 1)) = i + 1
    BY <1>1, <2>0, <2>1, <2>2
  <2>. QED BY <1>1, <1>3, <2>0, <2>1, <2>2, <2>3 DEF Recent
<1>. QED BY <1>2, <1>3

\* One more failure adds to the trailing ones.
LEMMA Lengthened ==
  ASSUME Recent, NEW n \in Nat, NEW k \in Nat, Trailing(recent, n), Remember(FALSE),
         k = n + 1 \/ (k = n /\ n >= Threshold)
  PROVE  Trailing(recent', k)
<1>1. Threshold \in Nat \ {0}
  BY FailoverAssumption
<1>2. Len(recent') >= k \/ Len(recent') = Threshold
  <2>1. /\ Len(recent) \in Nat /\ Len(recent') \in Nat
        /\ \/ Len(recent) < Threshold /\ Len(recent') = Len(recent) + 1
           \/ Len(recent') = Threshold
    BY Remembered
  <2>2. Len(recent) >= n \/ Len(recent) = Threshold
    BY DEF Trailing
  <2>. QED BY <1>1, <2>1, <2>2
<1>3. ASSUME NEW i \in 1..Len(recent'), i + k > Len(recent')
      PROVE  recent'[i] = FALSE
  <2>1. CASE i = Len(recent')
    BY <2>1, Remembered
  <2>2. CASE i # Len(recent')
    <3>. DEFINE j == i + (Len(recent) - (Len(recent') - 1))
    <3>0. i \in 1..(Len(recent') - 1)
      BY <2>2, Remembered
    <3>1. j \in 1..Len(recent) /\ recent'[i] = recent[j]
      BY <3>0, Remembered
    <3>2. j + n > Len(recent)
      BY <1>1, <1>3, Remembered DEF Trailing
    <3>. HIDE DEF j
    <3>. QED BY <3>1, <3>2 DEF Trailing
  <2>. QED BY <2>1, <2>2
<1>. QED BY <1>2, <1>3 DEF Trailing

-----------------------------------------------------------------------------
\* The answer decides: what becomes of the count, and what it takes to
\* switch the engine on.
LEMMA DecideInv ==
  ASSUME StrikesInv, Decide
  PROVE  /\ StrikesInv'
         /\ ~active /\ active' => recent' = [i \in 1..Threshold |-> FALSE]
<1>1. /\ Threshold \in Nat \ {0} /\ FailureCap \in Nat /\ FailureCap >= Threshold
      /\ healthy \in BOOLEAN /\ healthy' = healthy /\ Recent /\ Remember(healthy)
      /\ failures \in 0..FailureCap /\ Trailing(recent, failures)
      /\ phase' = "sleep"
      /\ active \/ failures < Threshold
  BY FailoverAssumption DEF StrikesInv, Decide, Polling
<1>2. CASE healthy
  <2>1. failures' = 0 /\ ~active'
    BY <1>2 DEF Decide, Counted, Switched
  <2>2. Recent' /\ Len(recent') \in Nat
    BY <1>1, Remembered
  <2>3. Trailing(recent', 0)
    BY <2>2 DEF Trailing
  <2>. QED BY <1>1, <2>1, <2>2, <2>3 DEF StrikesInv
<1>3. CASE ~healthy
  <2>0. Remember(FALSE)
    BY <1>1, <1>3
  <2>1. /\ failures' \in 0..FailureCap
        /\ failures' = failures + 1 \/ (failures' = failures /\ failures >= Threshold)
    BY <1>1, <1>3 DEF Decide, Counted
  <2>2. Recent' /\ Trailing(recent', failures')
    <3>1. Recent'
      BY <1>1, Remembered
    <3>2. /\ failures \in Nat /\ failures' \in Nat
          /\ failures' = failures + 1 \/ (failures' = failures /\ failures >= Threshold)
      BY <1>1, <2>1
    <3>3. Recent /\ Trailing(recent, failures)
      BY <1>1
    <3>4. Trailing(recent', failures')
      BY <2>0, <3>2, <3>3, Lengthened
    <3>. QED BY <3>1, <3>4
  <2>3. active' <=> (active \/ failures' >= Threshold)
    BY <1>3 DEF Decide, Switched
  <2>4. active' \/ failures' < Threshold
    BY <1>1, <2>1, <2>3
  <2>5. ASSUME ~active, active' PROVE recent' = [i \in 1..Threshold |-> FALSE]
    <3>1. failures' = Threshold
      BY <1>1, <2>1, <2>3, <2>5
    <3>2. Len(recent') = Threshold
      BY <1>1, <2>2, <3>1 DEF Trailing, Recent
    <3>3. \A i \in 1..Threshold : recent'[i] = FALSE
      BY <1>1, <2>2, <3>1, <3>2 DEF Trailing
    <3>4. recent' = [i \in 1..Threshold |-> recent'[i]]
      BY <2>2, <3>2 DEF Recent
    <3>. QED BY <3>3, <3>4
  <2>. QED BY <1>1, <2>1, <2>2, <2>4, <2>5 DEF StrikesInv
<1>. QED BY <1>1, <1>2, <1>3

LEMMA InitInv == Init => StrikesInv
<1>. SUFFICES ASSUME Init PROVE StrikesInv
  OBVIOUS
<1>1. recent = <<>> /\ failures = 0 /\ phase = "off" /\ healthy = FALSE
  BY DEF Init
<1>2. Recent /\ failures \in 0..FailureCap
  BY <1>1, FailoverAssumption DEF Recent
<1>. QED BY <1>1, <1>2 DEF StrikesInv, Polling

\* The other steps: a start begins a new count, the rest leave it alone.
LEMMA OtherInv ==
  ASSUME StrikesInv,
         \/ LeaderCrashOrRestart \/ Network \/ Boot \/ Crash \/ Start \/ Ask \/ Answer
         \/ CheckBegins \/ CheckEnds \/ UNCHANGED vars
  PROVE  StrikesInv'
<1>1. CASE Start
  <2>1. /\ healthy' = healthy /\ failures' = 0 /\ recent' = <<>> /\ Len(recent') = 0
    BY <1>1 DEF Start
  <2>2. Recent' /\ failures' \in 0..FailureCap /\ failures' < Threshold
    BY <2>1, FailoverAssumption DEF Recent
  <2>3. Trailing(recent', failures')
    BY <2>1 DEF Trailing
  <2>. QED BY <2>1, <2>2, <2>3 DEF StrikesInv
<1>2. CASE Boot \/ Crash
  BY <1>2 DEF Boot, Crash, StrikesInv, Recent, Polling
<1>3. CASE Ask
  BY <1>3 DEF Ask, StrikesInv, Recent, Polling, Trailing
<1>4. CASE Answer
  <2>1. healthy' \in BOOLEAN
    BY <1>4 DEF Answer, Serving
  <2>. QED BY <1>4, <2>1 DEF Answer, StrikesInv, Recent, Polling, Trailing
<1>5. CASE \/ LeaderCrashOrRestart \/ Network \/ CheckBegins \/ CheckEnds \/ UNCHANGED vars
  <2>1. /\ healthy' = healthy /\ failures' = failures /\ recent' = recent
        /\ phase' = phase /\ active' = active
    BY <1>5 DEF LeaderCrashOrRestart, Network, CheckBegins, CheckEnds, vars
  <2>. QED BY <2>1 DEF StrikesInv, Recent, Trailing
<1>. QED BY <1>1, <1>2, <1>3, <1>4, <1>5

LEMMA StepInv ==
  ASSUME StrikesInv, [Next]_vars
  PROVE  StrikesInv'
BY DecideInv, OtherInv DEF Next, FollowerStep

\* cluster.go, runFollowerLoop: the follower switches its engine on only after
\* Threshold failed polls in a row, all of this outage and of this life.
THEOREM StrikesProved == Spec => ThreeStrikes
<1>1. ASSUME StrikesInv, [Next]_vars, phase = "decide", ~active, active'
      PROVE  recent' = [i \in 1..Threshold |-> FALSE]
  <2>1. Decide \/ Boot
    BY <1>1 DEF Next, FollowerStep, LeaderCrashOrRestart, Network, Crash, Start, Ask,
                Answer, CheckBegins, CheckEnds, vars
  <2>2. ~Boot
    BY <1>1 DEF Boot
  <2>. QED BY <1>1, <2>1, <2>2, DecideInv
<1>2. StrikesInv /\ [Next]_vars
        => [(phase = "decide" /\ ~active /\ active')
              => recent' = [i \in 1..Threshold |-> FALSE]]_vars
  BY <1>1
<1>. QED BY <1>2, InitInv, StepInv, PTL DEF Spec, ThreeStrikes

-----------------------------------------------------------------------------
\* Every state is well formed; the count of failed polls stays bounded and the
\* history holds no more answers than a decision looks at.
THEOREM TypeProved == Spec => []TypeOK
<1>1. Init => TypeOK
  BY InitInv DEF Init, StrikesInv, Recent, TypeOK, Phases
<1>2. TypeOK /\ StrikesInv /\ [Next]_vars => TypeOK'
  <2>. SUFFICES ASSUME TypeOK, StrikesInv, [Next]_vars PROVE TypeOK'
    OBVIOUS
  <2>1. /\ healthy' \in BOOLEAN /\ failures' \in 0..FailureCap
        /\ recent' \in Seq(BOOLEAN) /\ Len(recent') <= Threshold
    BY StepInv DEF StrikesInv, Recent
  <2>2. phase' \in Phases
    BY DEF TypeOK, Phases, Next, FollowerStep, LeaderCrashOrRestart, Network, Boot,
           Crash, Start, Ask, Answer, Decide, CheckBegins, CheckEnds, vars
  <2>3. leader' \in BOOLEAN /\ link' \in BOOLEAN /\ checks' \in BOOLEAN
    BY DEF TypeOK, Next, FollowerStep, LeaderCrashOrRestart, Network, Boot, Crash,
           Start, Ask, Answer, Decide, CheckBegins, CheckEnds, vars
  <2>4. active' \in BOOLEAN
    <3>1. CASE Decide
      BY <3>1 DEF Decide, Switched
    <3>2. CASE ~Decide
      BY <3>2 DEF TypeOK, Next, FollowerStep, LeaderCrashOrRestart, Network, Boot,
                  Crash, Start, Ask, Answer, CheckBegins, CheckEnds, vars
    <3>. QED BY <3>1, <3>2
  <2>. QED BY <2>1, <2>2, <2>3, <2>4 DEF TypeOK
<1>. QED BY <1>1, <1>2, InitInv, StepInv, PTL DEF Spec
=============================================================================
