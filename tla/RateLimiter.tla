---------------------------- MODULE RateLimiter ----------------------------
(***************************************************************************)
(* The token buckets in front of the HTTP API.  A bucket holds at most     *)
(* Burst and refills with time; a request takes Cost out of it or is       *)
(* refused.  Tokens are counted in units of time: NewRateLimiter's rate is *)
(* then 1, Burst the time an empty bucket needs to fill (a minute) and     *)
(* Cost a minute divided by the requests per minute.                       *)
(*                                                                         *)
(* The map of buckets is bounded: a newcomer evicts the visitor seen least *)
(* recently, and a ticker drops the buckets idle for longer than Cutoff.   *)
(***************************************************************************)
EXTENDS Naturals, FiniteSets

CONSTANTS
  Clients,      \* keys: client addresses
  Burst, Cost,
  Cutoff,       \* visitorIdleCutoff
  MaxVisitors,
  MaxTime       \* bound: the clock

LimiterAssumption ==
  /\ Burst \in Nat /\ Cost \in Nat \ {0} /\ Cost <= Burst
  /\ Cutoff \in Nat /\ Burst <= Cutoff
  /\ MaxVisitors \in Nat \ {0}
  /\ MaxTime \in Nat

VARIABLES
  clock,
  visitors,  \* [keys -> [tokens, seen]]
  from,      \* the window an observer watches begins here
  spent,     \* what each client's requests have cost there, until evicted
  evicted    \* clients that lost their bucket to a newcomer in the window

limiterVars == <<clock, visitors, from, spent, evicted>>

TypeOK ==
  /\ clock \in 0..MaxTime
  /\ DOMAIN visitors \subseteq Clients
  /\ visitors \in [DOMAIN visitors -> [tokens : 0..Burst, seen : 0..clock]]
  /\ from \in 0..MaxTime
  /\ spent \in [Clients -> Nat]
  /\ evicted \subseteq Clients

Init ==
  /\ clock = 0
  /\ visitors = [c \in {} |-> {}]
  /\ from \in 0..MaxTime
  /\ spent = [c \in Clients |-> 0]
  /\ evicted = {}

-----------------------------------------------------------------------------
Bucket(t) == [tokens |-> t, seen |-> clock]
Put(vs, c, b) == [x \in DOMAIN vs \cup {c} |-> IF x = c THEN b ELSE vs[x]]
Drop(vs, gone) == [x \in DOMAIN vs \ gone |-> vs[x]]

\* evictOldest: Go's map order decides between visitors seen at once.
Oldest(c) == /\ c \in DOMAIN visitors
             /\ \A x \in DOMAIN visitors : visitors[c].seen <= visitors[x].seen

Watched == from <= clock
Pay(c)  == spent' = IF Watched /\ c \notin evicted
                   THEN [spent EXCEPT ![c] = @ + Cost] ELSE spent

\* The first request of a client, or the first since its bucket was dropped.
AllowNewcomer(c) ==
  /\ c \notin DOMAIN visitors
  /\ IF Cardinality(DOMAIN visitors) >= MaxVisitors
     THEN \E old \in DOMAIN visitors :
            /\ Oldest(old)
            /\ visitors' = Put(Drop(visitors, {old}), c, Bucket(Burst - Cost))
            /\ evicted' = IF Watched THEN evicted \cup {old} ELSE evicted
     ELSE /\ visitors' = Put(visitors, c, Bucket(Burst - Cost))
          /\ UNCHANGED evicted
  /\ Pay(c)
  /\ UNCHANGED <<clock, from>>

Overflowing(c) == visitors[c].tokens + (clock - visitors[c].seen)  \* mutant

\* What a visitor's bucket holds now.
Refilled(c) ==
  LET t == visitors[c].tokens + (clock - visitors[c].seen)
  IN  IF t > Burst THEN Burst ELSE t

AllowVisitor(c) ==
  /\ c \in DOMAIN visitors
  /\ Refilled(c) >= Cost
  /\ visitors' = Put(visitors, c, Bucket(Refilled(c) - Cost))
  /\ Pay(c)
  /\ UNCHANGED <<clock, from, evicted>>

\* A refusal costs nothing but counts as being seen.
Refuse(c) ==
  /\ c \in DOMAIN visitors
  /\ Refilled(c) < Cost
  /\ visitors' = Put(visitors, c, Bucket(Refilled(c)))
  /\ UNCHANGED <<clock, from, spent, evicted>>

Allow(c) == AllowNewcomer(c) \/ AllowVisitor(c) \/ Refuse(c)

Cleanup ==
  /\ visitors' = Drop(visitors, {c \in DOMAIN visitors : visitors[c].seen + Cutoff < clock})
  /\ UNCHANGED <<clock, from, spent, evicted>>

Tick ==
  /\ clock < MaxTime
  /\ clock' = clock + 1
  /\ UNCHANGED <<visitors, from, spent, evicted>>

Next == (\E c \in Clients : Allow(c)) \/ Cleanup \/ Tick

Spec == Init /\ [][Next]_limiterVars

-----------------------------------------------------------------------------
\* In any window of time a client gets no more than a full bucket and what
\* flows in meanwhile, unless its bucket was evicted: however often the
\* cleanup drops the bucket and a new, full one is made, because the cutoff
\* is longer than a bucket needs to fill.
LimitHolds == \A c \in Clients \ evicted :
                Watched => spent[c] <= Burst + (clock - from)
=============================================================================
