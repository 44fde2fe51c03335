------------------------------ MODULE History ------------------------------
(***************************************************************************)
(* One monitor's state changes and what is computed from them: the SLA     *)
(* report with its daily breakdown.                                        *)
(*                                                                         *)
(* A change of status goes to the state_changes table through the engine's *)
(* write queue.  A console asks for a report in two steps: a Cmd reads the *)
(* changes since the window began, newest first, and the reply is worked   *)
(* out later against the status and the time of that moment.  The table    *)
(* keeps seconds; the order of two changes with the same time is open.     *)
(*                                                                         *)
(* Time is counted in ticks, a status lasts for whole ticks, and a day has *)
(* DayLength of them.  `past' is what really happened.                     *)
(***************************************************************************)
EXTENDS Integers, Sequences, FiniteSetsExt, Functions

CONSTANTS
  Windows,    \* the lengths of the report windows
  DayLength,
  MaxTime,    \* bound: the clock
  MaxChanges  \* bound: changes of status

HistoryAssumption ==
  /\ Windows \subseteq Nat \ {0} /\ DayLength \in Nat \ {0}
  /\ MaxTime \in Nat /\ MaxChanges \in Nat

VARIABLES
  now,
  status,   \* the live status: "UP" or "DOWN", for not broken and broken
  past,     \* [ticks that are over -> was the monitor broken?]
  changes,  \* state_changes, oldest first
  unsaved,  \* changes still in the write queue
  request,  \* the report asked for, with the rows it was given
  report    \* the report on the screen

historyVars == <<now, status, past, changes, unsaved, request, report>>

None   == [w |-> 0]
Broken(s) == s = "DOWN"

Init ==
  /\ now = 0
  /\ status \in {"UP", "DOWN"}
  /\ past = <<>>
  /\ changes = <<>>
  /\ unsaved = <<>>
  /\ request = None
  /\ report = None

-----------------------------------------------------------------------------
ChangeStatus(to) ==
  /\ to # status
  /\ Len(unsaved) + Len(changes) < MaxChanges
  /\ status' = to
  /\ unsaved' = Append(unsaved, to)
  /\ UNCHANGED <<now, past, changes, request, report>>

\* SaveStateChange: the database puts the time in.
Save ==
  /\ unsaved # <<>>
  /\ changes' = Append(changes, [at |-> now, to |-> Head(unsaved)])
  /\ unsaved' = Tail(unsaved)
  /\ UNCHANGED <<now, status, past, request, report>>

\* The queue is empty long before a tick is over.
Tick ==
  /\ now < MaxTime
  /\ unsaved = <<>>
  /\ now' = now + 1
  /\ past' = [t \in 0..now |-> IF t = now THEN Broken(status) ELSE past[t]]
  /\ UNCHANGED <<status, changes, unsaved, request, report>>

-----------------------------------------------------------------------------
\* GetStateChangesSince: ORDER BY changed_at DESC, without a second key.
GetStateChangesSince(since) ==
  LET ids == {i \in DOMAIN changes : changes[i].at >= since}
      n   == Cardinality(ids)
      Desc(q) == \A j, k \in 1..n : j < k => changes[q[j]].at >= changes[q[k]].at
  IN  {[k \in 1..n |-> changes[q[k]]] : q \in {p \in Bijection(1..n, ids) : Desc(p)}}

\* The walk over the changes both computations make: the time up and down
\* between them, and of the outages that ended their number and total length.
WalkStart(from, down) ==
  [cursor |-> from, down |-> down, upTime |-> 0, downTime |-> 0,
   count |-> IF down THEN 1 ELSE 0, outageStart |-> from, ended |-> 0, total |-> 0]

Advance(w, at) ==
  [w EXCEPT !.cursor = at,
            !.upTime   = IF w.down THEN @ ELSE @ + (at - w.cursor),
            !.downTime = IF w.down THEN @ + (at - w.cursor) ELSE @]

End(w, at) ==
  [w EXCEPT !.ended = @ + 1, !.total = @ + (at - w.outageStart)]

Pass(w, c) ==
  LET new == Broken(c.to)
      on  == [Advance(IF w.down /\ ~new THEN End(w, c.at) ELSE w, c.at) EXCEPT !.down = new]
  IN  IF ~w.down /\ new THEN [on EXCEPT !.count = @ + 1, !.outageStart = c.at] ELSE on

ForgetsOngoing(w, at) == Advance(w, at)                          \* mutant
Close(w, at) == Advance(IF w.down THEN End(w, at) ELSE w, at)

\* Oldest first, the changes outside the period skipped.
Walk(desc, start, period) ==
  LET n == Len(desc)
      walk[k \in 0..n] ==
        IF k = 0 THEN start
        ELSE IF desc[n + 1 - k].at \in period THEN Pass(walk[k - 1], desc[n + 1 - k])
        ELSE walk[k - 1]
  IN  walk[n]

\* The status the computations assume at a moment: what the newest of the
\* given changes up to then says, else UP.
OldestUpTo(desc, at) ==                                          \* mutant
  LET upto == {k \in DOMAIN desc : desc[k].at <= at}
  IN  IF upto = {} THEN "UP" ELSE desc[Max(upto)].to
inferStatusAt(desc, at) ==
  LET upto == {k \in DOMAIN desc : desc[k].at <= at}
  IN  IF upto = {} THEN "UP" ELSE desc[Min(upto)].to

ComputeSLA(desc, current, w) ==
  LET start == now - w
  IN  IF desc = <<>>
      THEN [Close(WalkStart(start, Broken(current)), now) EXCEPT
              !.count = 0, !.ended = 0, !.total = 0]
      ELSE Close(Walk(desc, WalkStart(start, Broken(inferStatusAt(desc, start))),
                      start..now), now)

\* Day i counts back from today, which ends now.
DayStart(i) == (now \div DayLength - i) * DayLength
DayEnd(i)   == IF i = 0 THEN now ELSE DayStart(i) + DayLength
DaysBack    == 0..(now \div DayLength)

computeSLAForWindow(desc, from, to) ==
  Close(Walk(desc, WalkStart(from, Broken(inferStatusAt(desc, from))), from..(to - 1)),
        to).downTime

ComputeDailyBreakdown(desc) ==
  [i \in DaysBack |-> computeSLAForWindow(desc, DayStart(i), DayEnd(i))]

\* loadSLACmd: the rows are read now ...
Load(w) ==
  /\ w <= now
  /\ request = None
  /\ \E rows \in GetStateChangesSince(now - w) :
       request' = [w |-> w, rows |-> rows, since |-> now - w,
                   known |-> Len(changes), settled |-> unsaved = <<>>]
  /\ UNCHANGED <<now, status, past, changes, unsaved, report>>

\* handleSLAData: ... and worked out later.  `clean' is an observer's note:
\* no change was in the queue or came since, and none shared its time.
handleSLAData ==
  /\ request # None
  /\ LET sla == ComputeSLA(request.rows, status, request.w)
     IN  report' =
       [w |-> request.w, at |-> now, since |-> request.since,
        upTime |-> sla.upTime, downTime |-> sla.downTime,
        count |-> sla.count, ended |-> sla.ended, total |-> sla.total,
        days |-> ComputeDailyBreakdown(request.rows),
        quiet |-> request.rows = <<>>,
        clean |-> /\ request.settled /\ unsaved = <<>>
                  /\ request.known = Len(changes)
                  /\ IsInjective([i \in DOMAIN changes |-> changes[i].at])]
  /\ request' = None
  /\ UNCHANGED <<now, status, past, changes, unsaved>>

\* The user leaves the report.
Leave ==
  /\ report # None
  /\ report' = None
  /\ UNCHANGED <<now, status, past, changes, unsaved, request>>

Next ==
  \/ \E to \in {"UP", "DOWN"} : ChangeStatus(to)
  \/ Save
  \/ Tick
  \/ \E w \in Windows : Load(w)
  \/ handleSLAData
  \/ Leave

Spec == Init /\ [][Next]_historyVars

-----------------------------------------------------------------------------
\* How long the monitor was really down.
TrueDown(from, to) == Cardinality({t \in from..(to - 1) : past[t]})
\* Was it down when the period the changes were read for began?
DownBefore(t) == t < now /\ past[t] /\ \A i \in DOMAIN changes : changes[i].at # t

Shown == report # None /\ report.at = now

\* The report, and every day of it that lies in the window, gives the real
\* downtime, provided the monitor was not already down when the window began
\* (for the report also: or nothing happened in it).
SlaTruth ==
  (Shown /\ report.clean) =>
    /\ (~DownBefore(report.since) \/ report.quiet)
         => report.downTime = TrueDown(now - report.w, now)
    /\ ~DownBefore(report.since)
         => \A i \in DaysBack : DayStart(i) >= report.since
              => report.days[i] = TrueDown(DayStart(i), DayEnd(i))

\* The figures of a report fit together: up and down make the window, the
\* outages add up to the downtime and their number is the number of outages,
\* whatever order equal times came in; only a window without a change counts
\* no outage at all.
OutagesAddUp ==
  report # None =>
    /\ report.upTime + report.downTime = report.w
    /\ ~report.quiet => /\ report.total = report.downTime
                        /\ report.count = report.ended
=============================================================================
