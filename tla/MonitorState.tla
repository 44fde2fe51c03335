---------------------------- MODULE MonitorState ----------------------------
(***************************************************************************)
(* The live entry of one monitor (models.Site) and the pure part of the    *)
(* code that folds results into it: the mutators that handleStatusChange   *)
(* and RecordHeartbeat pass to applyState, and the decisions they take     *)
(* from the status before and after.  Nothing here is concurrent; Engine   *)
(* applies these operators under the engine lock, from several goroutines. *)
(*                                                                         *)
(* Data is kept to what the control flow tells apart.  A certificate is    *)
(* "none" (no TLS, or CheckSSL off), "ok" (expires after the threshold) or *)
(* "soon" (within it).  Every check the engine runs itself (http, ping,    *)
(* port, dns) is "http"; names, URLs, latencies and error texts are left   *)
(* out.                                                                    *)
(***************************************************************************)
EXTENDS Naturals

CONSTANTS Sites,    \* monitor ids
          NoSite    \* "no monitor": ParentID 0, a goroutine that serves none

ASSUME NoSiteAssumption == NoSite \notin Sites

Status == {"UP", "DOWN", "PENDING", "LATE", "STALE", "SSL EXP"}

\* Status.IsBroken: the statuses that make an outage.
IsBroken(st) == st \in {"DOWN", "SSL EXP"}

Cert == {"none", "ok", "soon"}

\* The zero time.Time: LastCheck of a monitor nothing has been heard from.
Never == 0

\* The fields of SiteConfig that steer the engine.
Config == [typ: {"http", "push", "group"}, maxRetries: Nat, interval: Nat,
           paused: BOOLEAN, token: BOOLEAN, parent: Sites \cup {NoSite}]

Site == [cfg: Config, status: Status, fails: Nat, lastCheck: Nat,
         cert: Cert, warned: BOOLEAN]

\* What a check hands to handleStatusChange besides the monitor's id.
Result == [verdict: Status, at: Nat, cert: Cert]

\* A monitor as the poll loop first puts it in liveState.
NewSite(c, st) == [cfg |-> c, status |-> st, fails |-> 0,
                   lastCheck |-> Never, cert |-> "none", warned |-> FALSE]

-----------------------------------------------------------------------------
(* handleStatusChange's mutator.                                           *)

\* A non-UP result measured before the last thing heard is dropped.
NeverStale(s, r) == FALSE                                        \* mutant
IsStale(s, r) == r.verdict # "UP" /\ s.lastCheck > r.at

Passed(s) == [s EXCEPT !.status = "UP", !.fails = 0]

\* A failure is a retry until more than MaxRetries failed in a row.
FailedAtOnce(s, st) == [s EXCEPT !.status = st,                  \* mutant
                                 !.fails = s.cfg.maxRetries + 1]
FailedUncapped(s, st) == [s EXCEPT !.fails = @ + 1,              \* mutant
                            !.status = IF s.fails >= s.cfg.maxRetries
                                       THEN st ELSE @]
Failed(s, st) ==
  LET tried == IF s.fails <= s.cfg.maxRetries THEN s.fails + 1 ELSE s.fails
  IN  IF tried > s.cfg.maxRetries
      THEN [s EXCEPT !.status = st, !.fails = s.cfg.maxRetries + 1]
      ELSE [s EXCEPT !.fails = tried]

\* The certificate warning: once, until the certificate is renewed.
WarnsNow(s, r) == /\ s.cfg.typ = "http" /\ r.cert = "soon"
                  /\ ~s.warned /\ r.verdict # "SSL EXP"

WarnedAfter(s, r) ==
  (s.warned \/ WarnsNow(s, r)) /\ ~(s.cfg.typ = "http" /\ r.cert = "ok")

FoldCheck(s, r) ==
  LET judged == IF r.verdict = "UP" THEN Passed(s) ELSE Failed(s, r.verdict)
  IN  [judged EXCEPT !.lastCheck = r.at, !.cert = r.cert,
                     !.warned = WarnedAfter(s, r)]

\* RecordHeartbeat's mutator; t is the time the heartbeat was applied.
FoldBeat(s, t) == [s EXCEPT !.status = "UP", !.fails = 0, !.lastCheck = t]

-----------------------------------------------------------------------------
(* What follows from the status before (prev) and after (next).            *)

Pages == {"none", "DOWN", "RECOVERY"}

\* The alert handleStatusChange decides on, unless in maintenance.
PageEachFailure(prev, next, inMaint) ==                          \* mutant
  IF ~inMaint /\ IsBroken(next) THEN "DOWN"
  ELSE IF ~inMaint /\ IsBroken(prev) /\ next = "UP" THEN "RECOVERY"
  ELSE "none"
PageSkipsExpired(prev, next, inMaint) ==                         \* mutant
  IF ~inMaint /\ ~IsBroken(prev) /\ IsBroken(next) THEN "DOWN"
  ELSE IF ~inMaint /\ prev = "DOWN" /\ next = "UP" THEN "RECOVERY"
  ELSE "none"
PageFor(prev, next, inMaint) ==
  CASE inMaint -> "none"
    [] ~inMaint /\ ~IsBroken(prev) /\ IsBroken(next) -> "DOWN"
    [] ~inMaint /\ IsBroken(prev) /\ next = "UP" -> "RECOVERY"
    [] OTHER -> "none"

\* Leaving PENDING is not a state change worth a row.
LogOnlyOutages(prev, next) == next # prev /\ IsBroken(next)      \* mutant
LogsChange(prev, next) == next # prev /\ prev # "PENDING"

=============================================================================
