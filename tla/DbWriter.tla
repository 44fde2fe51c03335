------------------------------ MODULE DbWriter ------------------------------
(***************************************************************************)
(* The engine's deferred persistence: a buffered channel of writes, the    *)
(* single dbWriter goroutine that executes them, and Stop.                 *)
(*                                                                         *)
(* Checkers are the goroutines that Stop waits for (checkerWG: the poll    *)
(* loop, the monitor routines, the maintenance pruner).  Outsiders enqueue *)
(* too but nobody waits for them: HTTP handlers and alert goroutines.  A   *)
(* write is a number, its place in the order of enqueueWrite calls.        *)
(*                                                                         *)
(* Go's select picks any ready case, so a cancelled writer may still serve *)
(* the queue, with a context that the database refuses.                    *)
(***************************************************************************)
EXTENDS Naturals, Sequences

CONSTANTS
  Checkers, Outsiders,  \* goroutines that enqueue writes
  QueueCap,             \* dbWriteBuffer
  MaxWrites,            \* bound: writes ever enqueued
  Faulty                \* may the database refuse a write of its own accord?

ASSUME DbWriterAssumption ==
  /\ Checkers \cap Outsiders = {}
  /\ QueueCap \in Nat \ {0}
  /\ MaxWrites \in Nat
  /\ Faulty \in BOOLEAN

VARIABLES
  cancelled,  \* the engine's context
  running,    \* the checkers that have not returned
  queue,      \* dbWrites
  issued,     \* writes enqueued or dropped so far
  author,     \* who issued each
  dropped,    \* writes that met a full queue
  writer,     \* dbWriter: "serving", "draining" or "gone"
  stop,       \* Stop: what it is about to do, or "done"
  hand,       \* the write the writer or Stop executes; 0 for none
  saved,      \* writes in the database, in the order they got there
  failed      \* writes the database refused

vars == <<cancelled, running, queue, issued, author, dropped, writer, stop,
          hand, saved, failed>>

Writes  == 1..MaxWrites
Drains  == {"writer", "stop"}
Elements(q) == {q[i] : i \in DOMAIN q}

TypeOK ==
  /\ cancelled \in BOOLEAN
  /\ running \subseteq Checkers
  /\ queue \in Seq(Writes) /\ Len(queue) <= QueueCap
  /\ issued \in 0..MaxWrites
  /\ author \in [1..issued -> Checkers \cup Outsiders]
  /\ dropped \subseteq 1..issued
  /\ writer \in {"serving", "draining", "gone"}
  /\ stop \in {"idle", "checkers", "writer", "draining", "done"}
  /\ hand \in [Drains -> 0..issued]
  /\ saved \in Seq(Writes)
  /\ failed \subseteq 1..issued

Init ==
  /\ cancelled = FALSE
  /\ running = Checkers
  /\ queue = <<>>
  /\ issued = 0
  /\ author = [w \in {} |-> {}]
  /\ dropped = {}
  /\ writer = "serving"
  /\ stop = "idle"
  /\ hand = [d \in Drains |-> 0]
  /\ saved = <<>>
  /\ failed = {}

-----------------------------------------------------------------------------
\* enqueueWrite never blocks: a full queue drops the write.
BlindEnqueue(p) ==                                               \* mutant
  /\ p \in running \cup Outsiders
  /\ issued < MaxWrites
  /\ issued' = issued + 1
  /\ author' = [w \in 1..issued' |-> IF w = issued' THEN p ELSE author[w]]
  /\ queue' = Append(queue, issued')
  /\ UNCHANGED <<cancelled, running, dropped, writer, stop, hand, saved, failed>>
EnqueueWrite(p) ==
  /\ p \in running \cup Outsiders
  /\ issued < MaxWrites
  /\ issued' = issued + 1
  /\ author' = [w \in 1..issued' |-> IF w = issued' THEN p ELSE author[w]]
  /\ IF Len(queue) < QueueCap
     THEN queue' = Append(queue, issued') /\ UNCHANGED dropped
     ELSE dropped' = dropped \cup {issued'} /\ UNCHANGED queue
  /\ UNCHANGED <<cancelled, running, writer, stop, hand, saved, failed>>

\* A checker notices the cancellation once its last check is folded.
CheckerReturns(p) ==
  /\ p \in running
  /\ cancelled
  /\ running' = running \ {p}
  /\ UNCHANGED <<cancelled, queue, issued, author, dropped, writer, stop, hand,
                 saved, failed>>

-----------------------------------------------------------------------------
\* Who takes writes out of the queue at the moment.
Receives(d) == IF d = "writer" THEN writer \in {"serving", "draining"}
                               ELSE stop = "draining"

Receive(d) ==
  /\ Receives(d)
  /\ hand[d] = 0
  /\ queue # <<>>
  /\ hand' = [hand EXCEPT ![d] = Head(queue)]
  /\ queue' = Tail(queue)
  /\ UNCHANGED <<cancelled, running, issued, author, dropped, writer, stop,
                 saved, failed>>

\* exec: with the engine's context while serving, with a fresh one in a drain.
MayRefuse(d) == Faulty \/ (d = "writer" /\ writer = "serving" /\ cancelled)

Exec(d) ==
  /\ hand[d] # 0
  /\ \/ saved' = Append(saved, hand[d]) /\ UNCHANGED failed
     \/ MayRefuse(d) /\ failed' = failed \cup {hand[d]} /\ UNCHANGED saved
  /\ hand' = [hand EXCEPT ![d] = 0]
  /\ UNCHANGED <<cancelled, running, queue, issued, author, dropped, writer,
                 stop>>

\* The writer's select picks ctx.Done(); then drainWrites.
IgnoreCancel == writer = "serving" /\ FALSE /\ UNCHANGED vars       \* mutant
WriterSeesCancel ==
  /\ writer = "serving"
  /\ hand["writer"] = 0
  /\ cancelled
  /\ writer' = "draining"
  /\ UNCHANGED <<cancelled, running, queue, issued, author, dropped, stop, hand,
                 saved, failed>>

WriterReturns ==
  /\ writer = "draining"
  /\ hand["writer"] = 0
  /\ queue = <<>>
  /\ writer' = "gone"
  /\ UNCHANGED <<cancelled, running, queue, issued, author, dropped, stop, hand,
                 saved, failed>>

-----------------------------------------------------------------------------
(* Stop, and the cancel in runServe that may precede it.                   *)

Cancel ==
  /\ ~cancelled
  /\ cancelled' = TRUE
  /\ stop' \in {stop, "checkers"}
  /\ UNCHANGED <<running, queue, issued, author, dropped, writer, hand, saved,
                 failed>>

StopAfterCancel ==
  /\ cancelled /\ stop = "idle"
  /\ stop' = "checkers"
  /\ UNCHANGED <<cancelled, running, queue, issued, author, dropped, writer,
                 hand, saved, failed>>

SkipCheckers ==                                                  \* mutant
  /\ stop = "checkers"
  /\ stop' = "writer"
  /\ UNCHANGED <<cancelled, running, queue, issued, author, dropped, writer,
                 hand, saved, failed>>
AwaitCheckers ==
  /\ stop = "checkers"
  /\ running = {}
  /\ stop' = "writer"
  /\ UNCHANGED <<cancelled, running, queue, issued, author, dropped, writer,
                 hand, saved, failed>>

SkipWriter ==                                                    \* mutant
  /\ stop = "writer"
  /\ stop' = "draining"
  /\ UNCHANGED <<cancelled, running, queue, issued, author, dropped, writer,
                 hand, saved, failed>>
AwaitWriter ==
  /\ stop = "writer"
  /\ writer = "gone"
  /\ stop' = "draining"
  /\ UNCHANGED <<cancelled, running, queue, issued, author, dropped, writer,
                 hand, saved, failed>>

StopReturns ==
  /\ stop = "draining"
  /\ hand["stop"] = 0
  /\ queue = <<>>
  /\ stop' = "done"
  /\ UNCHANGED <<cancelled, running, queue, issued, author, dropped, writer,
                 hand, saved, failed>>

-----------------------------------------------------------------------------
WriterStep == Receive("writer") \/ Exec("writer") \/ WriterSeesCancel
                \/ WriterReturns

StopStep == StopAfterCancel \/ AwaitCheckers \/ AwaitWriter \/ Receive("stop")
              \/ Exec("stop") \/ StopReturns

Next ==
  \/ \E p \in Checkers \cup Outsiders : EnqueueWrite(p)
  \/ \E p \in Checkers : CheckerReturns(p)
  \/ Cancel
  \/ WriterStep
  \/ StopStep

Spec == Init /\ [][Next]_vars

\* Goroutines are scheduled.  Only the shutdown is nobody's duty.
Fairness ==
  /\ \A p \in Checkers : WF_vars(CheckerReturns(p))
  /\ WF_vars(WriterStep)
  /\ WF_vars(StopStep)

FairSpec == Spec /\ Fairness

-----------------------------------------------------------------------------
(***************************************************************************)
(* One goroutine at a time owns all writes: they reach the database in the *)
(* order they were enqueued, also across the handover from dbWriter to     *)
(* Stop, whatever is dropped or refused in between.                        *)
(***************************************************************************)
SavedInOrder ==
  \A i \in DOMAIN saved : \A j \in 1..(i - 1) : saved[j] < saved[i]

(***************************************************************************)
(* Stop returns only when every write of a checker has met its fate: none  *)
(* is left in the queue or in a goroutine's hand.  What may be left comes  *)
(* from goroutines nobody waits for.                                       *)
(***************************************************************************)
Pending == Elements(queue) \cup ({hand[d] : d \in Drains} \ {0})

StopLeavesNothing ==
  stop = "done" => \A w \in Pending : author[w] \in Outsiders

(***************************************************************************)
(* Stop's comment: "Call it before closing the store so no write races a   *)
(* closed DB".  No write is executed after Stop returned.                  *)
(***************************************************************************)
NoWriteAfterStop ==
  [][stop = "done" => UNCHANGED <<saved, failed>>]_vars

(***************************************************************************)
(* Shutdown ends: once the engine is cancelled Stop returns, no goroutine  *)
(* waits for another for ever.                                             *)
(***************************************************************************)
StopEnds == cancelled ~> stop = "done"

(***************************************************************************)
(* TestDBWriter_DrainsOnStop: writes are "fully drained when the engine    *)
(* stops - no fire-and-forget, no lost writes".  On a database that serves *)
(* every valid write, all that was not dropped at a full queue is saved.   *)
(***************************************************************************)
NoLostWrites == stop = "done" => failed = {}

=============================================================================
