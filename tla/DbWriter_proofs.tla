-------------------------- MODULE DbWriter_proofs --------------------------
(***************************************************************************)
(* Writes are saved in the order they were enqueued, and Stop leaves none  *)
(* of a checker's behind: for any goroutines and any size of the queue.    *)
(***************************************************************************)
EXTENDS DbWriter, SequenceTheorems, TLAPS

\* The parts of TypeOK the order of writes rests on.
WritesTyped ==
  /\ issued \in Nat
  /\ queue \in Seq(Nat)
  /\ saved \in Seq(Nat)
  /\ hand \in [Drains -> Nat]

\* Saved before in hand before queued before not yet issued.
Ordered ==
  /\ \A i \in 1..Len(queue) : queue[i] # 0 /\ queue[i] <= issued
  /\ \A i, j \in 1..Len(queue) : i < j => queue[i] < queue[j]
  /\ \A i \in 1..Len(saved) : saved[i] <= issued
  /\ \A i, j \in 1..Len(saved) : i < j => saved[i] < saved[j]
  /\ \A i \in 1..Len(saved), j \in 1..Len(queue) : saved[i] < queue[j]
  /\ \A d \in Drains : hand[d] <= issued
  /\ \A d \in Drains, j \in 1..Len(queue) : hand[d] # 0 => hand[d] < queue[j]
  /\ \A d \in Drains, i \in 1..Len(saved) : hand[d] # 0 => saved[i] < hand[d]

\* The handover: one drain at a time, after the checkers have returned.
HandedOver ==
  /\ running \subseteq Checkers
  /\ writer \in {"serving", "draining", "gone"}
  /\ stop \in {"idle", "checkers", "writer", "draining", "done"}
  /\ stop = "idle" \/ cancelled
  /\ writer = "gone" => hand["writer"] = 0
  /\ stop # "draining" => hand["stop"] = 0
  /\ stop \in {"draining", "done"} => writer = "gone"
  /\ stop \in {"writer", "draining", "done"} => running = {}

\* What is queued after Stop has returned comes from an outsider.
LeftByOutsiders ==
  stop = "done" => \A i \in 1..Len(queue) : author[queue[i]] \in Outsiders

Authored == author \in [1..issued -> Checkers \cup Outsiders]

WriterInv == WritesTyped /\ Ordered /\ HandedOver /\ Authored /\ LeftByOutsiders

-----------------------------------------------------------------------------
LEMMA InitInv == Init => WriterInv
<1>. SUFFICES ASSUME Init PROVE WriterInv
  OBVIOUS
<1>1. /\ issued = 0 /\ queue = <<>> /\ saved = <<>> /\ Len(queue) = 0 /\ Len(saved) = 0
      /\ hand = [d \in Drains |-> 0]
  BY DEF Init
<1>2. WritesTyped
  BY <1>1 DEF WritesTyped
<1>3. Ordered
  BY <1>1 DEF Ordered
<1>4. HandedOver
  BY DEF Init, HandedOver, Drains
<1>5. Authored /\ LeftByOutsiders
  BY <1>1 DEF Init, Authored, LeftByOutsiders
<1>. QED BY <1>2, <1>3, <1>4, <1>5 DEF WriterInv

\* A write joins the queue above all others, or meets a full one.
LEMMA EnqueueInv ==
  ASSUME WriterInv, NEW p \in Checkers \cup Outsiders, EnqueueWrite(p)
  PROVE  WriterInv'
<1>1. /\ issued \in Nat /\ queue \in Seq(Nat) /\ saved \in Seq(Nat) /\ hand \in [Drains -> Nat]
      /\ issued' = issued + 1 /\ saved' = saved /\ hand' = hand
      /\ queue' = Append(queue, issued + 1) \/ queue' = queue
      /\ writer' = writer /\ stop' = stop /\ running' = running /\ cancelled' = cancelled
      /\ p \in running \cup Outsiders
      /\ author' = [w \in 1..(issued + 1) |-> IF w = issued + 1 THEN p ELSE author[w]]
  BY DEF WriterInv, WritesTyped, EnqueueWrite
<1>2. WritesTyped'
  <2>1. issued + 1 \in Nat /\ Append(queue, issued + 1) \in Seq(Nat)
    BY <1>1
  <2>. QED BY <1>1, <2>1 DEF WritesTyped
<1>3. Ordered'
  <2>1. CASE queue' = queue
    BY <1>1, <2>1 DEF WriterInv, Ordered
  <2>2. CASE queue' = Append(queue, issued + 1)
    <3>1. /\ Len(queue') = Len(queue) + 1 /\ Len(queue) \in Nat
          /\ \A i \in 1..Len(queue) : queue'[i] = queue[i] /\ queue[i] \in Nat
          /\ queue'[Len(queue) + 1] = issued + 1
      BY <1>1, <2>2
    <3>2. /\ \A i \in 1..Len(saved) : saved[i] \in Nat
          /\ \A e \in Drains : hand[e] \in Nat
      BY <1>1
    <3>3. \A i \in 1..Len(queue') : i \in 1..Len(queue) \/ i = Len(queue) + 1
      BY <3>1
    <3>4. /\ \A i \in 1..Len(queue) : queue'[i] <= issued
          /\ \A i \in 1..Len(saved) : saved[i] <= issued
          /\ \A e \in Drains : hand[e] <= issued
      BY <3>1 DEF WriterInv, Ordered
    <3>5. \A j \in 1..Len(queue') :
            /\ queue'[j] # 0 /\ queue'[j] <= issued + 1
            /\ \A i \in 1..Len(queue') : i < j => queue'[i] < queue'[j]
            /\ \A i \in 1..Len(saved) : saved[i] < queue'[j]
            /\ \A e \in Drains : hand[e] # 0 => hand[e] < queue'[j]
      <4>. SUFFICES ASSUME NEW j \in 1..Len(queue')
                    PROVE  /\ queue'[j] # 0 /\ queue'[j] <= issued + 1
                           /\ \A i \in 1..Len(queue') : i < j => queue'[i] < queue'[j]
                           /\ \A i \in 1..Len(saved) : saved[i] < queue'[j]
                           /\ \A e \in Drains : hand[e] # 0 => hand[e] < queue'[j]
        OBVIOUS
      <4>1. CASE j \in 1..Len(queue)
        <5>1. \A i \in 1..Len(queue') : i < j => i \in 1..Len(queue)
          BY <3>1, <4>1
        <5>2. queue'[j] = queue[j] /\ queue[j] \in Nat
          BY <3>1, <4>1
        <5>3. queue[j] # 0 /\ queue[j] <= issued
          BY <4>1 DEF WriterInv, Ordered
        <5>4. \A i \in 1..Len(queue) : i < j => queue[i] < queue[j]
          BY <4>1 DEF WriterInv, Ordered
        <5>5. /\ \A i \in 1..Len(saved) : saved[i] < queue[j]
              /\ \A e \in Drains : hand[e] # 0 => hand[e] < queue[j]
          BY <4>1 DEF WriterInv, Ordered
        <5>6. \A i \in 1..Len(queue') : i < j => queue'[i] < queue'[j]
          BY <3>1, <5>1, <5>2, <5>4
        <5>7. queue'[j] # 0 /\ queue'[j] <= issued + 1
          BY <1>1, <5>2, <5>3
        <5>. QED BY <5>2, <5>5, <5>6, <5>7
      <4>2. CASE j = Len(queue) + 1
        <5>1. \A i \in 1..Len(queue') : i < j => i \in 1..Len(queue)
          BY <3>1, <4>2
        <5>2. queue'[j] = issued + 1
          BY <3>1, <4>2
        <5>3. \A i \in 1..Len(queue') : i < j => queue'[i] < issued + 1
          BY <1>1, <3>1, <3>4, <5>1
        <5>4. /\ \A i \in 1..Len(saved) : saved[i] < issued + 1
              /\ \A e \in Drains : hand[e] < issued + 1
          BY <1>1, <3>2, <3>4
        <5>5. issued + 1 # 0 /\ issued + 1 <= issued + 1
          BY <1>1
        <5>. QED BY <5>2, <5>3, <5>4, <5>5
      <4>. QED BY <3>3, <4>1, <4>2
    <3>7. /\ \A i \in 1..Len(saved) : saved[i] <= issued + 1
          /\ \A e \in Drains : hand[e] <= issued + 1
      BY <1>1, <3>2, <3>4
    <3>. QED BY <1>1, <3>5, <3>7 DEF WriterInv, Ordered
  <2>. QED BY <1>1, <2>1, <2>2
<1>4. HandedOver'
  BY <1>1 DEF WriterInv, HandedOver
<1>5. Authored'
  BY <1>1 DEF WriterInv, Authored
<1>6. LeftByOutsiders'
  <2>. SUFFICES ASSUME stop = "done", NEW i \in 1..Len(queue')
                PROVE  author'[queue'[i]] \in Outsiders
    BY <1>1 DEF LeftByOutsiders
  <2>1. p \in Outsiders
    BY <1>1 DEF WriterInv, HandedOver
  <2>2. CASE i \in 1..Len(queue) /\ queue'[i] = queue[i]
    <3>1. queue[i] \in 1..issued
      BY <1>1, <2>2 DEF WriterInv, Ordered
    <3>. QED BY <1>1, <2>2, <3>1 DEF WriterInv, LeftByOutsiders
  <2>3. CASE queue'[i] = issued + 1
    BY <1>1, <2>1, <2>3
  <2>4. \/ i \in 1..Len(queue) /\ queue'[i] = queue[i]
        \/ queue'[i] = issued + 1
    <3>1. CASE queue' = queue
      BY <3>1
    <3>2. CASE queue' = Append(queue, issued + 1)
      BY <1>1, <3>2
    <3>. QED BY <1>1, <3>1, <3>2
  <2>. QED BY <2>2, <2>3, <2>4
<1>. QED BY <1>2, <1>3, <1>4, <1>5, <1>6 DEF WriterInv

\* The head of the queue is taken by the one drain there is.
LEMMA ReceiveInv ==
  ASSUME WriterInv, NEW d \in Drains, Receive(d)
  PROVE  WriterInv'
<1>1. /\ issued \in Nat /\ queue \in Seq(Nat) /\ saved \in Seq(Nat) /\ hand \in [Drains -> Nat]
      /\ queue # <<>> /\ queue' = Tail(queue) /\ hand' = [hand EXCEPT ![d] = Head(queue)]
      /\ Receives(d) /\ hand[d] = 0
      /\ issued' = issued /\ saved' = saved /\ author' = author
      /\ writer' = writer /\ stop' = stop /\ running' = running /\ cancelled' = cancelled
  BY DEF WriterInv, WritesTyped, Receive
<1>2. /\ Len(queue) \in Nat \ {0} /\ Len(queue') = Len(queue) - 1
      /\ Head(queue) = queue[1]
      /\ \A i \in 1..Len(queue') : queue'[i] = queue[i + 1]
      /\ \A i \in 1..Len(queue) : queue[i] \in Nat
      /\ \A i \in 1..Len(saved) : saved[i] \in Nat
  BY <1>1
<1>3. WritesTyped'
  BY <1>1, <1>2 DEF WritesTyped
<1>4. \A e \in Drains \ {d} : hand[e] = 0
  BY <1>1 DEF WriterInv, HandedOver, Receives, Drains
<1>5. /\ hand'[d] = queue[1] /\ \A e \in Drains \ {d} : hand'[e] = 0
  BY <1>1, <1>2, <1>4
<1>6. Ordered'
  <2>. USE DEF WriterInv, Ordered
  <2>1. /\ \A i \in 1..Len(queue') : queue'[i] # 0 /\ queue'[i] <= issued
        /\ \A i, j \in 1..Len(queue') : i < j => queue'[i] < queue'[j]
        /\ \A i \in 1..Len(saved), j \in 1..Len(queue') : saved[i] < queue'[j]
    BY <1>1, <1>2
  <2>2. /\ queue[1] <= issued /\ \A j \in 1..Len(queue') : queue[1] < queue'[j]
        /\ \A i \in 1..Len(saved) : saved[i] < queue[1]
    BY <1>1, <1>2
  <2>. QED BY <1>1, <1>5, <2>1, <2>2
<1>7. HandedOver'
  BY <1>1 DEF WriterInv, HandedOver, Receives, Drains
<1>8. Authored' /\ LeftByOutsiders'
  BY <1>1 DEF WriterInv, Authored, LeftByOutsiders, HandedOver, Receives, Drains
<1>. QED BY <1>3, <1>6, <1>7, <1>8 DEF WriterInv

\* A write is saved after all saved before it, or refused.
LEMMA ExecInv ==
  ASSUME WriterInv, NEW d \in Drains, Exec(d)
  PROVE  WriterInv'
<1>1. /\ issued \in Nat /\ queue \in Seq(Nat) /\ saved \in Seq(Nat) /\ hand \in [Drains -> Nat]
      /\ hand[d] # 0 /\ hand' = [hand EXCEPT ![d] = 0]
      /\ saved' = Append(saved, hand[d]) \/ saved' = saved
      /\ issued' = issued /\ queue' = queue /\ author' = author
      /\ writer' = writer /\ stop' = stop /\ running' = running /\ cancelled' = cancelled
  BY DEF WriterInv, WritesTyped, Exec
<1>2. WritesTyped'
  <2>1. hand[d] \in Nat /\ Append(saved, hand[d]) \in Seq(Nat)
    BY <1>1
  <2>2. hand' \in [Drains -> Nat]
    BY <1>1
  <2>. QED BY <1>1, <2>1, <2>2 DEF WritesTyped
<1>3. \A e \in Drains \ {d} : hand[e] = 0
  BY <1>1 DEF WriterInv, HandedOver, Drains
<1>4. \A e \in Drains : hand'[e] = 0
  BY <1>1, <1>3
<1>5. Ordered'
  <2>1. CASE saved' = saved
    BY <1>1, <1>4, <2>1 DEF WriterInv, Ordered
  <2>2. CASE saved' = Append(saved, hand[d])
    <3>1. /\ Len(saved') = Len(saved) + 1 /\ Len(saved) \in Nat
          /\ \A i \in 1..Len(saved) : saved'[i] = saved[i] /\ saved[i] \in Nat
          /\ saved'[Len(saved) + 1] = hand[d] /\ hand[d] \in Nat
      BY <1>1, <2>2
    <3>2. /\ hand[d] <= issued
          /\ \A j \in 1..Len(queue) : hand[d] < queue[j]
          /\ \A i \in 1..Len(saved) : saved[i] < hand[d]
      BY <1>1 DEF WriterInv, Ordered
    <3>3. \A i \in 1..Len(saved') : i \in 1..Len(saved) \/ i = Len(saved) + 1
      BY <3>1
    <3>4. \A i, j \in 1..Len(saved') : i < j => saved'[i] < saved'[j]
      BY <3>1, <3>2, <3>3 DEF WriterInv, Ordered
    <3>5. /\ \A i \in 1..Len(saved') : saved'[i] <= issued
          /\ \A i \in 1..Len(saved'), j \in 1..Len(queue) : saved'[i] < queue[j]
      BY <3>1, <3>2, <3>3 DEF WriterInv, Ordered
    <3>. QED BY <1>1, <1>4, <3>4, <3>5 DEF WriterInv, Ordered
  <2>. QED BY <1>1, <2>1, <2>2
<1>6. HandedOver'
  BY <1>1, <1>4 DEF WriterInv, HandedOver, Drains
<1>7. Authored' /\ LeftByOutsiders'
  BY <1>1 DEF WriterInv, Authored, LeftByOutsiders
<1>. QED BY <1>2, <1>5, <1>6, <1>7 DEF WriterInv

\* The steps that only move the shutdown on.
LEMMA ShutdownInv ==
  ASSUME WriterInv,
         \/ \E p \in Checkers : CheckerReturns(p)
         \/ WriterSeesCancel \/ WriterReturns
         \/ Cancel \/ StopAfterCancel \/ AwaitCheckers \/ AwaitWriter \/ StopReturns
  PROVE  WriterInv'
<1>1. /\ issued' = issued /\ queue' = queue /\ saved' = saved /\ hand' = hand
      /\ author' = author
  BY DEF CheckerReturns, WriterSeesCancel, WriterReturns, Cancel, StopAfterCancel,
         AwaitCheckers, AwaitWriter, StopReturns
<1>2. WritesTyped' /\ Ordered' /\ Authored'
  BY <1>1 DEF WriterInv, WritesTyped, Ordered, Authored
<1>3. HandedOver'
  <2>. USE <1>1 DEF WriterInv, HandedOver
  <2>1. ASSUME NEW p \in Checkers, CheckerReturns(p) PROVE HandedOver'
    BY <2>1 DEF CheckerReturns
  <2>2. CASE WriterSeesCancel \/ WriterReturns
    BY <2>2 DEF WriterSeesCancel, WriterReturns
  <2>3. CASE Cancel
    BY <2>3 DEF Cancel
  <2>4. CASE StopAfterCancel \/ AwaitCheckers \/ AwaitWriter
    BY <2>4 DEF StopAfterCancel, AwaitCheckers, AwaitWriter
  <2>5. CASE StopReturns
    BY <2>5 DEF StopReturns
  <2>. QED BY <2>1, <2>2, <2>3, <2>4, <2>5
<1>4. stop' = "done" => stop = "done" \/ queue = <<>>
  BY DEF CheckerReturns, WriterSeesCancel, WriterReturns, Cancel,
         StopAfterCancel, AwaitCheckers, AwaitWriter, StopReturns
<1>5. LeftByOutsiders'
  BY <1>1, <1>4 DEF WriterInv, LeftByOutsiders
<1>. QED BY <1>2, <1>3, <1>5 DEF WriterInv

\* The invariant is inductive.
LEMMA StepInv ==
  ASSUME WriterInv, [Next]_vars
  PROVE  WriterInv'
<1>1. CASE UNCHANGED vars
  BY <1>1 DEF vars, WriterInv, WritesTyped, Ordered, HandedOver, Authored, LeftByOutsiders
<1>2. CASE Next
  BY <1>2, EnqueueInv, ReceiveInv, ExecInv, ShutdownInv
     DEF Next, WriterStep, StopStep, Drains
<1>. QED BY <1>1, <1>2

LEMMA InvHolds == Spec => []WriterInv
BY InitInv, StepInv, PTL DEF Spec

-----------------------------------------------------------------------------
(* The type invariant: the order of the writes bounds what is in hand.     *)

LEMMA EnqueueType ==
  ASSUME TypeOK, WriterInv, NEW p \in Checkers \cup Outsiders, EnqueueWrite(p)
  PROVE  TypeOK'
<1>. USE DEF TypeOK
<1>1. /\ issued' = issued + 1 /\ issued' \in 0..MaxWrites /\ issued' \in Writes
      /\ MaxWrites \in Nat /\ QueueCap \in Nat
      /\ 1..issued \subseteq 1..issued' /\ 0..issued \subseteq 0..issued'
      /\ issued' \in 1..issued'
  BY DbWriterAssumption DEF EnqueueWrite, Writes
<1>2. author' \in [1..issued' -> Checkers \cup Outsiders]
  BY EnqueueInv DEF WriterInv, Authored
<1>3. queue' \in Seq(Writes) /\ Len(queue') <= QueueCap
  <2>1. CASE Len(queue) < QueueCap
    <3>1. queue' = Append(queue, issued')
      BY <2>1 DEF EnqueueWrite
    <3>2. queue' \in Seq(Writes) /\ Len(queue') = Len(queue) + 1
      BY <1>1, <3>1
    <3>. QED BY <1>1, <2>1, <3>2
  <2>2. CASE ~(Len(queue) < QueueCap)
    BY <2>2 DEF EnqueueWrite
  <2>. QED BY <2>1, <2>2
<1>4. dropped' \subseteq 1..issued'
  BY <1>1 DEF EnqueueWrite
<1>. QED BY <1>1, <1>2, <1>3, <1>4 DEF EnqueueWrite

LEMMA ReceiveType ==
  ASSUME TypeOK, WriterInv, NEW d \in Drains, Receive(d)
  PROVE  TypeOK'
<1>. USE DEF TypeOK
<1>1. /\ queue \in Seq(Writes) /\ queue # <<>> /\ Len(queue) \in Nat \ {0}
      /\ queue' = Tail(queue) /\ hand' = [hand EXCEPT ![d] = Head(queue)]
      /\ QueueCap \in Nat /\ issued \in Nat
  BY DbWriterAssumption DEF Receive
<1>2. queue' \in Seq(Writes) /\ Len(queue') <= QueueCap
  BY <1>1
<1>3. Head(queue) \in 0..issued
  <2>1. Head(queue) = queue[1] /\ 1 \in 1..Len(queue) /\ queue[1] \in Writes
    BY <1>1
  <2>2. queue[1] <= issued
    BY <2>1 DEF WriterInv, Ordered
  <2>. QED BY <1>1, <2>1, <2>2 DEF Writes
<1>4. hand' \in [Drains -> 0..issued]
  BY <1>1, <1>3
<1>. QED BY <1>2, <1>4 DEF Receive

LEMMA ExecType ==
  ASSUME TypeOK, NEW d \in Drains, Exec(d)
  PROVE  TypeOK'
<1>. USE DEF TypeOK
<1>1. hand[d] \in 1..issued /\ hand[d] \in Writes
  <2>1. MaxWrites \in Nat /\ issued \in 0..MaxWrites /\ hand[d] \in 0..issued
        /\ hand[d] # 0
    BY DbWriterAssumption DEF Exec
  <2>. QED BY <2>1 DEF Writes
<1>2. hand' \in [Drains -> 0..issued]
  BY <1>1 DEF Exec
<1>3. saved' \in Seq(Writes)
  <2>1. saved \in Seq(Writes) /\ saved' \in {saved, Append(saved, hand[d])}
    BY DEF Exec
  <2>. HIDE DEF TypeOK
  <2>. QED BY <1>1, <2>1
<1>4. failed' \subseteq 1..issued
  BY <1>1 DEF Exec
<1>. QED BY <1>2, <1>3, <1>4 DEF Exec

\* The writer's state stays well formed: in particular the queue never
\* outgrows its capacity, and nothing is executed that was not enqueued.
THEOREM TypeProved == Spec => []TypeOK
<1>1. Init => TypeOK
  <2>. SUFFICES ASSUME Init PROVE TypeOK
    OBVIOUS
  <2>1. author \in [1..issued -> Checkers \cup Outsiders]
    BY InitInv DEF WriterInv, Authored
  <2>2. /\ queue = <<>> /\ saved = <<>> /\ issued = 0 /\ hand = [d \in Drains |-> 0]
        /\ MaxWrites \in Nat /\ QueueCap \in Nat
    BY DbWriterAssumption DEF Init
  <2>3. /\ queue \in Seq(Writes) /\ Len(queue) <= QueueCap /\ saved \in Seq(Writes)
        /\ issued \in 0..MaxWrites /\ hand \in [Drains -> 0..issued]
    BY <2>2
  <2>. QED BY <2>1, <2>3 DEF Init, TypeOK
<1>2. TypeOK /\ WriterInv /\ [Next]_vars => TypeOK'
  <2>. SUFFICES ASSUME TypeOK, WriterInv, [Next]_vars PROVE TypeOK'
    OBVIOUS
  <2>1. CASE \/ \E p \in Checkers : CheckerReturns(p)
             \/ WriterSeesCancel \/ WriterReturns \/ Cancel \/ StopAfterCancel
             \/ AwaitCheckers \/ AwaitWriter \/ StopReturns \/ UNCHANGED vars
    BY <2>1 DEF TypeOK, CheckerReturns, WriterSeesCancel, WriterReturns, Cancel,
                StopAfterCancel, AwaitCheckers, AwaitWriter, StopReturns, vars
  <2>2. CASE \E p \in Checkers \cup Outsiders : EnqueueWrite(p)
    BY <2>2, EnqueueType
  <2>3. CASE \E d \in Drains : Receive(d) \/ Exec(d)
    BY <2>3, ReceiveType, ExecType
  <2>. QED BY <2>1, <2>2, <2>3 DEF Next, WriterStep, StopStep, Drains
<1>. QED BY <1>1, <1>2, InvHolds, PTL DEF Spec

-----------------------------------------------------------------------------
\* dbwriter.go, dbWriter and drainWrites: writes reach the database in the
\* order of the enqueueWrite calls, whatever is dropped or refused in between.
THEOREM OrderProved == Spec => []SavedInOrder
<1>1. WriterInv => SavedInOrder
  <2>. SUFFICES ASSUME WriterInv, NEW i \in DOMAIN saved, NEW j \in 1..(i - 1)
                PROVE  saved[j] < saved[i]
    BY DEF SavedInOrder
  <2>1. DOMAIN saved = 1..Len(saved) /\ Len(saved) \in Nat
    BY DEF WriterInv, WritesTyped
  <2>. QED BY <2>1 DEF WriterInv, Ordered
<1>. QED BY <1>1, InvHolds, PTL

\* monitor.go, Stop: when it returns no write of a checker is left in the
\* queue or in anyone's hand.
THEOREM StopProved == Spec => []StopLeavesNothing
<1>1. WriterInv => StopLeavesNothing
  <2>. SUFFICES ASSUME WriterInv, stop = "done", NEW w \in Pending
                PROVE  author[w] \in Outsiders
    BY DEF StopLeavesNothing
  <2>1. DOMAIN queue = 1..Len(queue)
    BY DEF WriterInv, WritesTyped
  <2>2. \A d \in Drains : hand[d] = 0
    BY DEF WriterInv, HandedOver, Drains
  <2>. QED BY <2>1, <2>2 DEF Pending, Elements, WriterInv, LeftByOutsiders
<1>. QED BY <1>1, InvHolds, PTL

\* monitor.go, Stop: once it has returned no write is executed, so none races
\* the store that is closed next.
THEOREM ClosedProved == Spec => NoWriteAfterStop
<1>1. ASSUME WriterInv, [Next]_vars, stop = "done"
      PROVE  UNCHANGED <<saved, failed>>
  <2>1. \A d \in Drains : hand[d] = 0
    BY <1>1 DEF WriterInv, HandedOver, Drains
  <2>2. ~Exec("writer") /\ ~Exec("stop")
    BY <2>1 DEF Exec, Drains
  <2>. QED BY <1>1, <2>2
           DEF Next, vars, WriterStep, StopStep, EnqueueWrite, CheckerReturns, Cancel,
               Receive, WriterSeesCancel, WriterReturns, StopAfterCancel, AwaitCheckers,
               AwaitWriter, StopReturns
<1>2. WriterInv /\ [Next]_vars => [stop = "done" => UNCHANGED <<saved, failed>>]_vars
  BY <1>1
<1>. QED BY <1>2, InvHolds, PTL DEF Spec, NoWriteAfterStop
=============================================================================
