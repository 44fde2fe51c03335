------------------------------ MODULE KeyCache ------------------------------
(***************************************************************************)
(* The SSH login: connection attempts ask a cache of public keys, which    *)
(* re-reads the user table when it is older than its TTL.  The store the   *)
(* consoles write users through clears the cache after every change.       *)
(*                                                                         *)
(* refresh reads the table without the cache's lock and takes it only to   *)
(* put the result in, so the table may change, and the cache be cleared,   *)
(* in between.                                                             *)
(***************************************************************************)
EXTENDS FiniteSets, Naturals

CONSTANTS
  Keys,
  EnvKeys,     \* keys seeded from the environment at every start
  Attempts,    \* connection attempts that run at the same time
  MaxChanges   \* bound: changes of the user table, and restarts

KeyCacheAssumption == EnvKeys \subseteq Keys /\ MaxChanges \in Nat

VARIABLES
  users,     \* keys in the user table
  cache,     \* keyCache.keys
  fresh,     \* keyCache.updated is within the TTL
  attempt,   \* [Attempts -> what it does, for which key, with which list]
  pending,   \* changes written whose Invalidate has not run
  revoked,   \* keys whose removal is complete, Invalidate included
  overlaps,  \* keys read by a refresh that was under way when they went
  changes

keyVars == <<users, cache, fresh, attempt, pending, revoked, overlaps, changes>>

Idle(k) == [pc |-> "idle", key |-> k, list |-> {}]
NoKey == "none"

Init ==
  /\ users \in SUBSET Keys
  /\ cache = {}
  /\ fresh = FALSE
  /\ attempt = [a \in Attempts |-> Idle(NoKey)]
  /\ pending = 0
  /\ revoked = {}
  /\ overlaps = {}
  /\ changes = 0

-----------------------------------------------------------------------------
\* IsAllowed: a stale cache is refreshed first.
Ask(a, k) ==
  /\ attempt[a].pc = "idle"
  /\ attempt' = [attempt EXCEPT ![a] =
       [pc |-> IF fresh THEN "match" ELSE "read", key |-> k, list |-> {}]]
  /\ UNCHANGED <<users, cache, fresh, pending, revoked, overlaps, changes>>

\* refresh: GetAllUsers, outside the lock; an error keeps the old key set.
Read(a) ==
  /\ attempt[a].pc = "read"
  /\ attempt' = [attempt EXCEPT ![a].pc = "fill", ![a].list = users]
  /\ UNCHANGED <<users, cache, fresh, pending, revoked, overlaps, changes>>

ReadFails(a) ==
  /\ attempt[a].pc = "read"
  /\ attempt' = [attempt EXCEPT ![a].pc = "match"]
  /\ UNCHANGED <<users, cache, fresh, pending, revoked, overlaps, changes>>

Fill(a) ==
  /\ attempt[a].pc = "fill"
  /\ cache' = attempt[a].list
  /\ fresh' = TRUE
  /\ attempt' = [attempt EXCEPT ![a].pc = "match", ![a].list = {}]
  /\ UNCHANGED <<users, pending, revoked, overlaps, changes>>

Accepts(a) == attempt[a].pc = "match" /\ attempt[a].key \in cache

Match(a) ==
  /\ attempt[a].pc = "match"
  /\ attempt' = [attempt EXCEPT ![a] = Idle(NoKey)]
  /\ UNCHANGED <<users, cache, fresh, pending, revoked, overlaps, changes>>

TtlPasses ==
  /\ fresh
  /\ fresh' = FALSE
  /\ UNCHANGED <<users, cache, attempt, pending, revoked, overlaps, changes>>

-----------------------------------------------------------------------------
\* AddUser, UpdateUser, DeleteUser, ImportData: the table, then Invalidate.
ChangeUsers(to) ==
  /\ changes < MaxChanges
  /\ changes' = changes + 1
  /\ users' = to
  /\ pending' = pending + 1
  /\ revoked' = revoked \ to
  /\ overlaps' = overlaps \cup
       UNION {attempt[a].list \ to : a \in {x \in Attempts : attempt[x].pc = "fill"}}
  /\ UNCHANGED <<cache, fresh, attempt>>

\* A refused change invalidates too.
ChangeFails == ChangeUsers(users)

AddUser(k)      == k \notin users /\ ChangeUsers(users \cup {k})
UpdateUser(j,k) == j \in users /\ k \notin users /\ ChangeUsers((users \ {j}) \cup {k})
DeleteUser(k)   == k \in users /\ ChangeUsers(users \ {k})
ImportData(ks)  == ChangeUsers(ks)

\* The timestamp alone would keep the keys when the next read fails.
ExpireOnly ==                                                    \* mutant
  /\ pending > 0
  /\ pending' = pending - 1
  /\ fresh' = FALSE
  /\ revoked' = IF pending' = 0 THEN Keys \ users ELSE revoked
  /\ UNCHANGED <<users, cache, attempt, overlaps, changes>>

Invalidate ==
  /\ pending > 0
  /\ pending' = pending - 1
  /\ cache' = {}
  /\ fresh' = FALSE
  /\ revoked' = IF pending' = 0 THEN Keys \ users ELSE revoked
  /\ UNCHANGED <<users, attempt, overlaps, changes>>

\* A new process starts with an empty cache and puts the environment's keys
\* (back) into the table: seedKeysFromEnv.
Restart ==
  /\ changes < MaxChanges
  /\ changes' = changes + 1
  /\ users' = users \cup EnvKeys
  /\ cache' = {}
  /\ fresh' = FALSE
  /\ attempt' = [a \in Attempts |-> Idle(NoKey)]
  /\ pending' = 0
  /\ revoked' = revoked \ EnvKeys
  /\ overlaps' = {}

Next ==
  \/ \E a \in Attempts, k \in Keys : Ask(a, k)
  \/ \E a \in Attempts : Read(a) \/ ReadFails(a) \/ Fill(a) \/ Match(a)
  \/ TtlPasses
  \/ \E k \in Keys : AddUser(k) \/ DeleteUser(k)
  \/ \E j, k \in Keys : UpdateUser(j, k)
  \/ \E ks \in SUBSET Keys : ImportData(ks)
  \/ ChangeFails
  \/ Invalidate
  \/ Restart

Spec == Init /\ [][Next]_keyVars

-----------------------------------------------------------------------------
\* main.go: a removal takes effect on the next attempt instead of after the
\* TTL, and fails closed when the table cannot be read.  So it does, except
\* for a key that a refresh had already read when the key was removed and
\* puts back after the cache was cleared.
RemovalTakesEffect ==
  \A a \in Attempts : Accepts(a) /\ attempt[a].key \in revoked
                        => attempt[a].key \in overlaps
=============================================================================
