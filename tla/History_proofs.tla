--------------------------- MODULE History_proofs ---------------------------
(***************************************************************************)
(* The report is right, for any windows, days, bounds and rows.  The walk  *)
(* is a recursive function over the rows, so what it computes is shown turn *)
(* by turn: at each turn its figures fit together, and its downtime is the *)
(* real one up to its cursor.  That the rows tell what happened is the     *)
(* invariant of the table.                                                 *)
(***************************************************************************)
EXTENDS History, FiniteSetTheorems, WellFoundedInduction, TLAPS

Statuses == {"UP", "DOWN"}
Rows == [at : Int, to : Statuses]
Walks ==
  [cursor : Int, down : BOOLEAN, upTime : Int, downTime : Int, count : Int,
   outageStart : Int, ended : Int, total : Int]

-----------------------------------------------------------------------------
\* Loops.  A set of numbers has a least one, so a set that holds 0 and goes
\* on from each turn to the next holds every turn.
LEMMA Least ==
  ASSUME NEW T \in SUBSET Nat, T # {}
  PROVE  \E x \in T : \A y \in T : x <= y
<1>. DEFINE R == OpToRel(<, Nat)
<1>1. IsWellFoundedOn(R, Nat)
  BY NatLessThanWellFounded
<1>2. \A x \in T, y \in T : y < x => <<y, x>> \in R
  BY DEF OpToRel
<1>. HIDE DEF R
<1>3. PICK x \in T : \A y \in T : ~ (<<y, x>> \in R)
  BY <1>1, WFMin
<1>4. ASSUME NEW y \in T PROVE x <= y
  <2>1. ~ (y < x) /\ x \in Nat /\ y \in Nat
    BY <1>2, <1>3
  <2>. QED BY <2>1
<1>. QED BY <1>3, <1>4

LEMMA Induction ==
  ASSUME NEW n \in Nat, NEW T, 0 \in T,
         \A k \in 1..n : k - 1 \in T => k \in T
  PROVE  0..n \subseteq T
<1>. SUFFICES ASSUME 0..n \ T # {} PROVE FALSE
  OBVIOUS
<1>. DEFINE U == 0..n \ T
<1>1. PICK x \in U : \A y \in U : x <= y
  <2>1. U \in SUBSET Nat /\ U # {}
    OBVIOUS
  <2>. HIDE DEF U
  <2>. QED BY <2>1, Least
<1>2. x # 0 /\ x - 1 \in 0..n /\ x \in 1..n
  OBVIOUS
<1>3. x - 1 \in T
  BY <1>1, <1>2
<1>. QED BY <1>2, <1>3

\* The fields of a walk after each of its updates.
LEMMA AdvanceFields ==
  ASSUME NEW w \in Walks, NEW at \in Int
  PROVE  LET a == Advance(w, at)
             gap == at - w.cursor
         IN  /\ a \in Walks
             /\ a.cursor = at /\ a.down = w.down
             /\ a.upTime = w.upTime + (IF w.down THEN 0 ELSE gap)
             /\ a.downTime = w.downTime + (IF w.down THEN gap ELSE 0)
             /\ a.count = w.count /\ a.outageStart = w.outageStart
             /\ a.ended = w.ended /\ a.total = w.total
<1>. DEFINE w1 == [w EXCEPT !.cursor = at]
            w2 == [w1 EXCEPT !.upTime = IF w.down THEN w.upTime ELSE w.upTime + (at - w.cursor)]
            w3 == [w2 EXCEPT !.downTime = IF w.down THEN w.downTime + (at - w.cursor) ELSE w.downTime]
<1>1. Advance(w, at) = w3
  BY DEF Advance
<1>2. /\ w1 \in Walks /\ w1.cursor = at
      /\ w1.down = w.down /\ w1.upTime = w.upTime /\ w1.downTime = w.downTime
      /\ w1.count = w.count /\ w1.outageStart = w.outageStart /\ w1.ended = w.ended
      /\ w1.total = w.total
  BY DEF Walks
<1>. HIDE DEF w1
<1>3. /\ w2 \in Walks /\ w2.upTime = IF w.down THEN w.upTime ELSE w.upTime + (at - w.cursor)
      /\ w2.cursor = w1.cursor /\ w2.down = w1.down /\ w2.downTime = w1.downTime
      /\ w2.count = w1.count /\ w2.outageStart = w1.outageStart /\ w2.ended = w1.ended
      /\ w2.total = w1.total
  BY <1>2 DEF Walks
<1>. HIDE DEF w2
<1>4. /\ w3 \in Walks /\ w3.downTime = IF w.down THEN w.downTime + (at - w.cursor) ELSE w.downTime
      /\ w3.cursor = w2.cursor /\ w3.down = w2.down /\ w3.upTime = w2.upTime
      /\ w3.count = w2.count /\ w3.outageStart = w2.outageStart /\ w3.ended = w2.ended
      /\ w3.total = w2.total
  BY <1>2, <1>3 DEF Walks
<1>. HIDE DEF w3
<1>. QED BY <1>1, <1>2, <1>3, <1>4 DEF Walks

LEMMA EndFields ==
  ASSUME NEW w \in Walks, NEW at \in Int
  PROVE  LET e == End(w, at)
         IN  /\ e \in Walks
             /\ e.cursor = w.cursor /\ e.down = w.down
             /\ e.upTime = w.upTime /\ e.downTime = w.downTime
             /\ e.count = w.count /\ e.outageStart = w.outageStart
             /\ e.ended = w.ended + 1 /\ e.total = w.total + (at - w.outageStart)
<1>. DEFINE w1 == [w EXCEPT !.ended = w.ended + 1]
            w2 == [w1 EXCEPT !.total = w.total + (at - w.outageStart)]
<1>1. End(w, at) = w2
  BY DEF End
<1>2. /\ w1 \in Walks /\ w1.ended = w.ended + 1
      /\ w1.cursor = w.cursor /\ w1.down = w.down /\ w1.upTime = w.upTime
      /\ w1.downTime = w.downTime /\ w1.count = w.count /\ w1.outageStart = w.outageStart
      /\ w1.total = w.total
  BY DEF Walks
<1>. HIDE DEF w1
<1>3. /\ w2 \in Walks /\ w2.total = w.total + (at - w.outageStart)
      /\ w2.cursor = w1.cursor /\ w2.down = w1.down /\ w2.upTime = w1.upTime
      /\ w2.downTime = w1.downTime /\ w2.count = w1.count /\ w2.outageStart = w1.outageStart
      /\ w2.ended = w1.ended
  BY <1>2 DEF Walks
<1>. HIDE DEF w2
<1>. QED BY <1>1, <1>2, <1>3 DEF Walks

\* What one turn of the walk makes of its state.
LEMMA PassFields ==
  ASSUME NEW w \in Walks, NEW c \in Rows
  PROVE  LET p == Pass(w, c)
             new == c.to = "DOWN"
             gap == c.at - w.cursor
         IN  /\ p \in Walks
             /\ p.cursor = c.at /\ p.down = new
             /\ p.upTime = w.upTime + (IF w.down THEN 0 ELSE gap)
             /\ p.downTime = w.downTime + (IF w.down THEN gap ELSE 0)
             /\ p.count = w.count + (IF ~w.down /\ new THEN 1 ELSE 0)
             /\ p.outageStart = IF ~w.down /\ new THEN c.at ELSE w.outageStart
             /\ p.ended = w.ended + (IF w.down /\ ~new THEN 1 ELSE 0)
             /\ p.total = w.total + (IF w.down /\ ~new THEN c.at - w.outageStart ELSE 0)
<1>. DEFINE new == c.to = "DOWN"
            v == IF w.down /\ ~new THEN End(w, c.at) ELSE w
            a == Advance(v, c.at)
            on == [a EXCEPT !.down = new]
<1>1. Pass(w, c) = IF ~w.down /\ new
                   THEN [on EXCEPT !.count = @ + 1, !.outageStart = c.at] ELSE on
  BY DEF Pass, Broken
<1>2. c.at \in Int /\ new \in BOOLEAN /\ w.down \in BOOLEAN
  BY DEF Rows, Walks
<1>3. /\ v \in Walks /\ v.cursor = w.cursor /\ v.down = w.down
      /\ v.upTime = w.upTime /\ v.downTime = w.downTime
      /\ v.count = w.count /\ v.outageStart = w.outageStart
      /\ v.ended = w.ended + (IF w.down /\ ~new THEN 1 ELSE 0)
      /\ v.total = w.total + (IF w.down /\ ~new THEN c.at - w.outageStart ELSE 0)
  <2>. HIDE DEF new
  <2>1. CASE w.down /\ ~new
    BY <1>2, <2>1, EndFields
  <2>2. CASE ~(w.down /\ ~new)
    BY <2>2 DEF Walks
  <2>. QED BY <2>1, <2>2
<1>. HIDE DEF v
<1>4. /\ a \in Walks /\ a.cursor = c.at /\ a.down = v.down
      /\ a.upTime = v.upTime + (IF v.down THEN 0 ELSE c.at - v.cursor)
      /\ a.downTime = v.downTime + (IF v.down THEN c.at - v.cursor ELSE 0)
      /\ a.count = v.count /\ a.outageStart = v.outageStart
      /\ a.ended = v.ended /\ a.total = v.total
  BY <1>2, <1>3, AdvanceFields
<1>. HIDE DEF a, new
<1>5. /\ on \in Walks /\ on.cursor = a.cursor /\ on.down = new
      /\ on.upTime = a.upTime /\ on.downTime = a.downTime
      /\ on.count = a.count /\ on.outageStart = a.outageStart
      /\ on.ended = a.ended /\ on.total = a.total
  BY <1>2, <1>4 DEF Walks
<1>. HIDE DEF on
<1>6. CASE ~w.down /\ new
  <2>. DEFINE p == [on EXCEPT !.count = @ + 1, !.outageStart = c.at]
  <2>1. /\ p \in Walks /\ p.cursor = on.cursor /\ p.down = on.down
        /\ p.upTime = on.upTime /\ p.downTime = on.downTime
        /\ p.count = on.count + 1 /\ p.outageStart = c.at
        /\ p.ended = on.ended /\ p.total = on.total
    <3>. DEFINE q == [on EXCEPT !.count = on.count + 1]
    <3>1. p = [q EXCEPT !.outageStart = c.at]
      OBVIOUS
    <3>2. /\ q \in Walks /\ q.cursor = on.cursor /\ q.down = on.down
          /\ q.upTime = on.upTime /\ q.downTime = on.downTime
          /\ q.count = on.count + 1 /\ q.ended = on.ended /\ q.total = on.total
      BY <1>5 DEF Walks
    <3>. HIDE DEF p, q
    <3>. QED BY <1>2, <3>1, <3>2 DEF Walks
  <2>2. Pass(w, c) = p
    BY <1>1, <1>6
  <2>. HIDE DEF p
  <2>3. on.count + 1 = w.count + 1
    BY <1>3, <1>4, <1>5
  <2>. QED BY <1>3, <1>4, <1>5, <1>6, <2>1, <2>2, <2>3 DEF new
<1>7. CASE ~(~w.down /\ new)
  <2>1. Pass(w, c) = on
    BY <1>1, <1>7
  <2>2. w.count = w.count + 0
    BY DEF Walks
  <2>. QED BY <1>3, <1>4, <1>5, <1>7, <2>1, <2>2 DEF new
<1>. QED BY <1>6, <1>7

\* What the end of the walk makes of it.
LEMMA CloseFields ==
  ASSUME NEW w \in Walks, NEW at \in Int
  PROVE  LET p == Close(w, at)
             gap == at - w.cursor
         IN  /\ p.upTime = w.upTime + (IF w.down THEN 0 ELSE gap)
             /\ p.downTime = w.downTime + (IF w.down THEN gap ELSE 0)
             /\ p.count = w.count
             /\ p.ended = w.ended + (IF w.down THEN 1 ELSE 0)
             /\ p.total = w.total + (IF w.down THEN at - w.outageStart ELSE 0)
<1>1. CASE w.down
  <2>. DEFINE e == End(w, at)
  <2>1. Close(w, at) = Advance(e, at)
    BY <1>1 DEF Close
  <2>2. /\ e \in Walks /\ e.cursor = w.cursor /\ e.down = w.down
        /\ e.upTime = w.upTime /\ e.downTime = w.downTime /\ e.count = w.count
        /\ e.ended = w.ended + 1 /\ e.total = w.total + (at - w.outageStart)
    BY EndFields
  <2>. HIDE DEF e
  <2>. DEFINE a == Advance(e, at)
  <2>3. /\ a.upTime = e.upTime + (IF e.down THEN 0 ELSE at - e.cursor)
        /\ a.downTime = e.downTime + (IF e.down THEN at - e.cursor ELSE 0)
        /\ a.count = e.count /\ a.ended = e.ended /\ a.total = e.total
    BY <2>2, AdvanceFields
  <2>. HIDE DEF a
  <2>4. /\ a.upTime = w.upTime + (IF w.down THEN 0 ELSE at - w.cursor)
        /\ a.downTime = w.downTime + (IF w.down THEN at - w.cursor ELSE 0)
        /\ a.count = w.count /\ a.ended = w.ended + (IF w.down THEN 1 ELSE 0)
        /\ a.total = w.total + (IF w.down THEN at - w.outageStart ELSE 0)
    BY <1>1, <2>2, <2>3
  <2>. QED BY <2>1, <2>4 DEF a
<1>2. CASE ~w.down
  <2>1. w.ended = w.ended + 0 /\ w.total = w.total + 0
    BY DEF Walks
  <2>2. Close(w, at) = Advance(w, at)
    BY <1>2 DEF Close
  <2>. QED BY <1>2, <2>1, <2>2, AdvanceFields
<1>. QED BY <1>1, <1>2

\* A walk begins as one.
LEMMA StartFields ==
  ASSUME NEW from \in Int, NEW down \in BOOLEAN
  PROVE  WalkStart(from, down) \in Walks
BY DEF WalkStart, Walks

\* The walk is a loop with a turn for each row.
Walked(desc, start, period, f) ==
  /\ f[0] = start
  /\ \A k \in 1..Len(desc) :
       /\ f[k - 1] \in Walks /\ f[k] \in Walks
       /\ desc[Len(desc) + 1 - k] \in Rows
       /\ f[k] = LET c == desc[Len(desc) + 1 - k]
                 IN  IF c.at \in period THEN Pass(f[k - 1], c) ELSE f[k - 1]
  /\ f[Len(desc)] \in Walks
  /\ Walk(desc, start, period) = f[Len(desc)]

\* The recursive function exists: there is one up to every turn.
LEMMA WalkTurns ==
  ASSUME NEW n \in Nat, NEW desc \in [1..n -> Rows], NEW start \in Walks, NEW period
  PROVE  \E f : Walked(desc, start, period, f)
<1>1. desc \in Seq(Rows) /\ Len(desc) = n
  OBVIOUS
<1>. DEFINE Turn(k, w) ==
         IF desc[n + 1 - k].at \in period THEN Pass(w, desc[n + 1 - k]) ELSE w
       Upto(m, f) == f[0] = start /\ \A k \in 1..m : f[k] = Turn(k, f[k - 1])
       Is(f) == f = [k \in 0..n |-> IF k = 0 THEN start ELSE Turn(k, f[k - 1])]
       T == {m \in 0..n : \E f \in [0..m -> Walks] : Upto(m, f)}
<1>2. ASSUME NEW k \in 1..n, NEW w \in Walks PROVE Turn(k, w) \in Walks
  <2>1. desc[n + 1 - k] \in Rows
    OBVIOUS
  <2>. QED BY <2>1, PassFields
<1>. HIDE DEF Turn
<1>3. 0 \in T
  <2>. DEFINE g == [k \in 0..0 |-> start]
  <2>1. g \in [0..0 -> Walks] /\ Upto(0, g)
    OBVIOUS
  <2>. HIDE DEF g, Upto
  <2>. QED BY <2>1
<1>4. ASSUME NEW m \in 1..n, m - 1 \in T PROVE m \in T
  <2>1. PICK f \in [0..(m - 1) -> Walks] : Upto(m - 1, f)
    BY <1>4
  <2>. DEFINE g == [k \in 0..m |-> IF k = m THEN Turn(m, f[m - 1]) ELSE f[k]]
  <2>2. g \in [0..m -> Walks]
    BY <1>2
  <2>3. ASSUME NEW k \in 1..m PROVE g[k] = Turn(k, g[k - 1])
    BY <2>1
  <2>4. Upto(m, g)
    BY <2>1, <2>3
  <2>. HIDE DEF g, Upto
  <2>. QED BY <2>2, <2>4
<1>5. n \in T
  <2>. HIDE DEF T
  <2>1. 0..n \subseteq T
    BY <1>3, <1>4, Induction
  <2>. QED BY <2>1
<1>6. PICK f \in [0..n -> Walks] : Upto(n, f)
  BY <1>5
<1>7. Is(f)
  <2>1. ASSUME NEW k \in 0..n PROVE f[k] = IF k = 0 THEN start ELSE Turn(k, f[k - 1])
    BY <1>6
  <2>2. f = [k \in 0..n |-> f[k]]
    BY <1>6
  <2>. QED BY <2>1, <2>2
<1>. DEFINE h == CHOOSE g : Is(g)
<1>8. Is(h)
  <2>. HIDE DEF Is
  <2>. QED BY <1>7
<1>9. Walk(desc, start, period) = h[n]
  BY <1>1 DEF Walk, Turn
<1>10. ASSUME NEW k \in 1..n PROVE h[k] = Turn(k, h[k - 1])
  <2>1. k \in 0..n /\ k # 0
    OBVIOUS
  <2>. HIDE DEF h
  <2>. QED BY <1>8, <2>1
<1>11. h[0] = start
  <2>. HIDE DEF h
  <2>. QED BY <1>8
<1>12. 0..n \subseteq {k \in 0..n : h[k] \in Walks}
  <2>. HIDE DEF h
  <2>. DEFINE U == {k \in 0..n : h[k] \in Walks}
  <2>1. 0 \in U
    BY <1>11
  <2>2. ASSUME NEW k \in 1..n, k - 1 \in U PROVE k \in U
    BY <1>2, <1>10, <2>2
  <2>3. 0..n \subseteq U
    <3>. HIDE DEF U
    <3>. QED BY <2>1, <2>2, Induction
  <2>. QED BY <2>3
<1>. HIDE DEF h
<1>13. ASSUME NEW k \in 1..n
       PROVE  /\ h[k - 1] \in Walks /\ h[k] \in Walks /\ desc[n + 1 - k] \in Rows
              /\ h[k] = IF desc[n + 1 - k].at \in period
                        THEN Pass(h[k - 1], desc[n + 1 - k]) ELSE h[k - 1]
  <2>1. k \in 0..n /\ k - 1 \in 0..n /\ n + 1 - k \in 1..n
    OBVIOUS
  <2>. QED BY <1>10, <1>12, <2>1 DEF Turn
<1>14. h[n] \in Walks
  BY <1>12
<1>. QED BY <1>1, <1>9, <1>11, <1>13, <1>14 DEF Walked

-----------------------------------------------------------------------------
\* How a walk's figures fit together.
Figures(w, from) ==
  /\ w.upTime + w.downTime = w.cursor - from
  /\ w.count = w.ended + (IF w.down THEN 1 ELSE 0)
  /\ w.downTime = w.total + (IF w.down THEN w.cursor - w.outageStart ELSE 0)

\* A turn keeps them fitting ...
LEMMA PassAddsUp ==
  ASSUME NEW w \in Walks, NEW c \in Rows, NEW from \in Int, Figures(w, from)
  PROVE  Figures(Pass(w, c), from)
<1>. DEFINE p == Pass(w, c)
            new == c.to = "DOWN"
<1>1. /\ w.cursor \in Int /\ w.upTime \in Int /\ w.downTime \in Int /\ w.count \in Int
      /\ w.outageStart \in Int /\ w.ended \in Int /\ w.total \in Int /\ c.at \in Int
      /\ w.down \in BOOLEAN
  BY DEF Walks, Rows
<1>2. /\ p.cursor = c.at /\ p.down = new
      /\ p.upTime = w.upTime + (IF w.down THEN 0 ELSE c.at - w.cursor)
      /\ p.downTime = w.downTime + (IF w.down THEN c.at - w.cursor ELSE 0)
      /\ p.count = w.count + (IF ~w.down /\ new THEN 1 ELSE 0)
      /\ p.outageStart = IF ~w.down /\ new THEN c.at ELSE w.outageStart
      /\ p.ended = w.ended + (IF w.down /\ ~new THEN 1 ELSE 0)
      /\ p.total = w.total + (IF w.down /\ ~new THEN c.at - w.outageStart ELSE 0)
  BY PassFields
<1>0. new \in BOOLEAN
  OBVIOUS
<1>. HIDE DEF p, new
<1>3. Figures(p, from)
  <2>1. CASE w.down /\ new
    <3>1. /\ p.down /\ p.upTime = w.upTime /\ p.downTime = w.downTime + (c.at - w.cursor)
          /\ p.count = w.count /\ p.outageStart = w.outageStart
          /\ p.ended = w.ended /\ p.total = w.total
      BY <1>1, <1>2, <2>1
    <3>2. p.upTime \in Int /\ p.downTime \in Int
      BY <1>1, <3>1
    <3>3. p.upTime + p.downTime = (w.upTime + w.downTime) + (c.at - w.cursor)
      BY <1>1, <3>1, <3>2
    <3>4. p.upTime + p.downTime = p.cursor - from
      BY <1>1, <1>2, <3>3 DEF Figures
    <3>. QED BY <1>1, <1>2, <2>1, <3>1, <3>4 DEF Figures
  <2>2. CASE w.down /\ ~new
    <3>1. /\ ~p.down /\ p.upTime = w.upTime /\ p.downTime = w.downTime + (c.at - w.cursor)
          /\ p.count = w.count /\ p.outageStart = w.outageStart
          /\ p.ended = w.ended + 1 /\ p.total = w.total + (c.at - w.outageStart)
      BY <1>1, <1>2, <2>2
    <3>2. p.upTime \in Int /\ p.downTime \in Int
      BY <1>1, <3>1
    <3>3. p.upTime + p.downTime = (w.upTime + w.downTime) + (c.at - w.cursor)
      BY <1>1, <3>1, <3>2
    <3>4. p.upTime + p.downTime = p.cursor - from
      BY <1>1, <1>2, <3>3 DEF Figures
    <3>. QED BY <1>1, <1>2, <2>2, <3>1, <3>4 DEF Figures
  <2>3. CASE ~w.down /\ new
    <3>1. /\ p.down /\ p.upTime = w.upTime + (c.at - w.cursor) /\ p.downTime = w.downTime
          /\ p.count = w.count + 1 /\ p.outageStart = c.at
          /\ p.ended = w.ended /\ p.total = w.total
      BY <1>1, <1>2, <2>3
    <3>2. p.upTime \in Int /\ p.downTime \in Int
      BY <1>1, <3>1
    <3>3. p.upTime + p.downTime = (w.upTime + w.downTime) + (c.at - w.cursor)
      BY <1>1, <3>1, <3>2
    <3>4. p.upTime + p.downTime = p.cursor - from
      BY <1>1, <1>2, <3>3 DEF Figures
    <3>. QED BY <1>1, <1>2, <2>3, <3>1, <3>4 DEF Figures
  <2>4. CASE ~w.down /\ ~new
    <3>1. /\ ~p.down /\ p.upTime = w.upTime + (c.at - w.cursor) /\ p.downTime = w.downTime
          /\ p.count = w.count /\ p.outageStart = w.outageStart
          /\ p.ended = w.ended /\ p.total = w.total
      BY <1>1, <1>2, <2>4
    <3>2. p.upTime \in Int /\ p.downTime \in Int
      BY <1>1, <3>1
    <3>3. p.upTime + p.downTime = (w.upTime + w.downTime) + (c.at - w.cursor)
      BY <1>1, <3>1, <3>2
    <3>4. p.upTime + p.downTime = p.cursor - from
      BY <1>1, <1>2, <3>3 DEF Figures
    <3>. QED BY <1>1, <1>2, <2>4, <3>1, <3>4 DEF Figures
  <2>. QED BY <2>1, <2>2, <2>3, <2>4
<1>. QED BY <1>3 DEF p

\* ... and so at the end.
LEMMA WalkAddsUp ==
  ASSUME NEW n \in Nat, NEW desc \in [1..n -> Rows], NEW from \in Int,
         NEW down \in BOOLEAN, NEW period
  PROVE  LET w == Walk(desc, WalkStart(from, down), period)
         IN  w \in Walks /\ Figures(w, from)
<1>. DEFINE start == WalkStart(from, down)
<1>1. start \in Walks /\ Figures(start, from)
  BY StartFields DEF WalkStart, Figures
<1>2. Len(desc) = n
  OBVIOUS
<1>. HIDE DEF start
<1>3. PICK f : Walked(desc, start, period, f)
  BY <1>1, WalkTurns
<1>. DEFINE T == {k \in 0..n : Figures(f[k], from)}
<1>4. 0 \in T
  BY <1>1, <1>3 DEF Walked
<1>5. ASSUME NEW k \in 1..n, k - 1 \in T PROVE k \in T
  <2>. DEFINE c == desc[n + 1 - k]
  <2>1. /\ f[k - 1] \in Walks /\ c \in Rows /\ Figures(f[k - 1], from)
        /\ f[k] = IF c.at \in period THEN Pass(f[k - 1], c) ELSE f[k - 1]
    BY <1>2, <1>3, <1>5 DEF Walked
  <2>. HIDE DEF c
  <2>2. Figures(f[k], from)
    BY <2>1, PassAddsUp
  <2>. QED BY <2>2
<1>6. n \in T
  <2>. HIDE DEF T
  <2>1. 0..n \subseteq T
    BY <1>4, <1>5, Induction
  <2>. QED BY <2>1
<1>7. Walk(desc, start, period) = f[n] /\ f[n] \in Walks
  BY <1>2, <1>3 DEF Walked
<1>. QED BY <1>6, <1>7 DEF start

\* A report of rows that came in any order.
LEMMA ReportAddsUp ==
  ASSUME NEW n \in Nat, NEW desc \in [1..n -> Rows], NEW w \in Int, now \in Int,
         status \in Statuses
  PROVE  LET sla == ComputeSLA(desc, status, w)
         IN  /\ sla.upTime + sla.downTime = w
             /\ desc # <<>> => sla.total = sla.downTime /\ sla.count = sla.ended
<1>. DEFINE start == now - w
            sla == ComputeSLA(desc, status, w)
<1>1. start \in Int /\ now \in Int
  OBVIOUS
<1>2. ASSUME NEW v \in Walks, Figures(v, start)
      PROVE  LET c == Close(v, now)
             IN  /\ c.upTime + c.downTime = w /\ c.total = c.downTime /\ c.count = c.ended
  <2>. DEFINE c == Close(v, now)
  <2>1. /\ v.cursor \in Int /\ v.upTime \in Int /\ v.downTime \in Int /\ v.count \in Int
        /\ v.outageStart \in Int /\ v.ended \in Int /\ v.total \in Int /\ v.down \in BOOLEAN
    BY DEF Walks
  <2>2. /\ c.upTime = v.upTime + (IF v.down THEN 0 ELSE now - v.cursor)
        /\ c.downTime = v.downTime + (IF v.down THEN now - v.cursor ELSE 0)
        /\ c.count = v.count
        /\ c.ended = v.ended + (IF v.down THEN 1 ELSE 0)
        /\ c.total = v.total + (IF v.down THEN now - v.outageStart ELSE 0)
    BY CloseFields
  <2>. HIDE DEF c
  <2>3. CASE v.down
    <3>1. /\ c.upTime = v.upTime /\ c.downTime = v.downTime + (now - v.cursor)
          /\ c.count = v.count /\ c.ended = v.ended + 1
          /\ c.total = v.total + (now - v.outageStart)
      BY <2>1, <2>2, <2>3
    <3>2. /\ v.upTime + v.downTime = v.cursor - start /\ v.count = v.ended + 1
          /\ v.downTime = v.total + (v.cursor - v.outageStart)
      BY <1>2, <2>3 DEF Figures
    <3>. HIDE DEF start
    <3>3. c.upTime + c.downTime = now - start
      <4>1. c.upTime \in Int /\ c.downTime \in Int
        BY <1>1, <2>1, <3>1
      <4>2. c.upTime + c.downTime = (v.upTime + v.downTime) + (now - v.cursor)
        BY <1>1, <2>1, <3>1, <4>1
      <4>. QED BY <1>1, <2>1, <3>2, <4>2
    <3>4. c.total = c.downTime /\ c.count = c.ended
      BY <1>1, <2>1, <3>1, <3>2
    <3>. QED BY <3>3, <3>4 DEF start, c
  <2>4. CASE ~v.down
    <3>1. /\ c.upTime = v.upTime + (now - v.cursor) /\ c.downTime = v.downTime
          /\ c.count = v.count /\ c.ended = v.ended /\ c.total = v.total
      BY <2>1, <2>2, <2>4
    <3>2. /\ v.upTime + v.downTime = v.cursor - start /\ v.count = v.ended
          /\ v.downTime = v.total
      BY <1>2, <2>1, <2>4 DEF Figures
    <3>. HIDE DEF start
    <3>3. c.upTime + c.downTime = now - start
      <4>1. c.upTime \in Int /\ c.downTime \in Int
        BY <1>1, <2>1, <3>1
      <4>2. c.upTime + c.downTime = (v.upTime + v.downTime) + (now - v.cursor)
        BY <1>1, <2>1, <3>1, <4>1
      <4>. QED BY <1>1, <2>1, <3>2, <4>2
    <3>4. c.total = c.downTime /\ c.count = c.ended
      BY <1>1, <2>1, <3>1, <3>2
    <3>. QED BY <3>3, <3>4 DEF start, c
  <2>. QED BY <2>3, <2>4 DEF c
<1>3. CASE desc = <<>>
  <2>. DEFINE v == WalkStart(start, Broken(status))
              c == Close(v, now)
  <2>1. v \in Walks /\ Figures(v, start)
    <3>1. Broken(status) \in BOOLEAN
      BY DEF Broken
    <3>. QED BY <1>1, <3>1, StartFields DEF WalkStart, Figures
  <2>2. c.upTime + c.downTime = w
    BY <1>2, <2>1
  <2>3. sla.upTime = c.upTime /\ sla.downTime = c.downTime
    BY <1>3 DEF ComputeSLA
  <2>. QED BY <1>3, <2>2, <2>3
<1>4. CASE desc # <<>>
  <2>. DEFINE down == Broken(inferStatusAt(desc, start))
              v == Walk(desc, WalkStart(start, down), start..now)
  <2>1. v \in Walks /\ Figures(v, start)
    <3>1. down \in BOOLEAN
      BY DEF Broken
    <3>. HIDE DEF down
    <3>. QED BY <1>1, <3>1, WalkAddsUp
  <2>2. sla = Close(v, now)
    BY <1>4 DEF ComputeSLA
  <2>. HIDE DEF v, sla
  <2>. QED BY <1>2, <1>4, <2>1, <2>2 DEF sla
<1>. QED BY <1>3, <1>4

-----------------------------------------------------------------------------
\* Counting ticks: over adjoining periods, and where the monitor stayed as it was.
LEMMA CountAdds ==
  ASSUME NEW a \in Int, NEW b \in Int, NEW c \in Int, a <= b, b <= c
  PROVE  /\ TrueDown(a, c) = TrueDown(a, b) + TrueDown(b, c)
         /\ TrueDown(a, b) \in Nat /\ TrueDown(b, c) \in Nat
<1>. DEFINE L == {t \in a..(b - 1) : past[t]}
            R == {t \in b..(c - 1) : past[t]}
<1>1. IsFiniteSet(L) /\ IsFiniteSet(R)
  <2>1. IsFiniteSet(a..(b - 1)) /\ IsFiniteSet(b..(c - 1))
    BY FS_Interval
  <2>2. L \subseteq a..(b - 1) /\ R \subseteq b..(c - 1)
    OBVIOUS
  <2>. HIDE DEF L, R
  <2>. QED BY <2>1, <2>2, FS_Subset
<1>2. {t \in a..(c - 1) : past[t]} = L \cup R /\ L \cap R = {}
  OBVIOUS
<1>0. /\ TrueDown(a, c) = Cardinality({t \in a..(c - 1) : past[t]})
      /\ TrueDown(a, b) = Cardinality(L) /\ TrueDown(b, c) = Cardinality(R)
  BY DEF TrueDown
<1>. HIDE DEF L, R
<1>3. Cardinality(L \cup R) = Cardinality(L) + Cardinality(R) - Cardinality(L \cap R)
  BY <1>1, FS_Union
<1>4. Cardinality(L) \in Nat /\ Cardinality(R) \in Nat /\ Cardinality(L \cap R) = 0
  BY <1>1, <1>2, FS_CardinalityType, FS_EmptySet
<1>5. TrueDown(a, c) = Cardinality(L \cup R)
  BY <1>0, <1>2
<1>. QED BY <1>0, <1>3, <1>4, <1>5

LEMMA CountSame ==
  ASSUME NEW a \in Int, NEW b \in Int, a <= b, NEW down \in BOOLEAN,
         \A t \in a..(b - 1) : past[t] = down
  PROVE  TrueDown(a, b) = IF down THEN b - a ELSE 0
<1>1. CASE down
  <2>1. {t \in a..(b - 1) : past[t]} = a..(b - 1)
    BY <1>1
  <2>2. Cardinality(a..(b - 1)) = b - a
    BY FS_Interval
  <2>. QED BY <1>1, <2>1, <2>2 DEF TrueDown
<1>2. CASE ~down
  <2>1. {t \in a..(b - 1) : past[t]} = {}
    BY <1>2
  <2>. QED BY <1>2, <2>1, FS_EmptySet DEF TrueDown
<1>. QED BY <1>1, <1>2

-----------------------------------------------------------------------------
\* The invariant.
Types ==
  /\ now \in Nat
  /\ status \in Statuses
  /\ past \in [0..(now - 1) -> BOOLEAN]
  /\ changes \in Seq([at : 0..now, to : Statuses])
  /\ unsaved \in Seq(Statuses)
  /\ \A i, j \in DOMAIN changes : i < j => changes[i].at <= changes[j].at

\* What the monitor was at a tick, or is.
Down(t) == IF t < now THEN past[t] ELSE Broken(status)

Unchanged(t, u) == \A i \in DOMAIN changes : changes[i].at \notin (t + 1)..u

Newest(i, t) ==
  /\ changes[i].at <= t
  /\ \A j \in DOMAIN changes : j > i => changes[j].at > t

\* The table says what happened, for the present once the queue is empty.
TableTrue ==
  \A u \in 0..now : (u = now => unsaved = <<>>) =>
    /\ \A t \in 0..u : Unchanged(t, u) => Down(t) = Down(u)
    /\ \A i \in DOMAIN changes : Newest(i, u) => Down(u) = Broken(changes[i].to)

LastSaid == unsaved # <<>> => unsaved[Len(unsaved)] = status

\* The rows a request was given.
Read(m, s) == {i \in 1..m : changes[i].at >= s}

RowsOf(rows, m, s) ==
  \E n \in Nat : \E q \in Bijection(1..n, Read(m, s)) :
    /\ rows = [k \in 1..n |-> changes[q[k]]]
    /\ \A j, k \in 1..n : j < k => changes[q[j]].at >= changes[q[k]].at

RequestTrue ==
  request # None =>
    /\ request.w \in Windows /\ request.since \in 0..now
    /\ request.since + request.w <= now /\ request.known \in 0..Len(changes)
    /\ RowsOf(request.rows, request.known, request.since)

ReportTrue ==
  /\ report # None => report.at \in 0..now
  /\ OutagesAddUp /\ SlaTruth

HistoryInv == Types /\ TableTrue /\ LastSaid /\ RequestTrue /\ ReportTrue

-----------------------------------------------------------------------------
\* All changes since a moment, newest first, no two at one time.
Distinct == \A i, j \in DOMAIN changes : changes[i].at = changes[j].at => i = j

AllSince(n, rows, s) ==
  /\ rows \in [1..n -> [at : 0..now, to : Statuses]]
  /\ \A k \in 1..n : \E i \in DOMAIN changes : rows[k] = changes[i] /\ changes[i].at >= s
  /\ \A i \in DOMAIN changes : changes[i].at >= s => \E k \in 1..n : rows[k] = changes[i]
  /\ \A j, k \in 1..n : j < k => rows[j].at > rows[k].at

\* The rows of the table, one by one.
LEMMA ChangesTyped ==
  ASSUME Types
  PROVE  /\ DOMAIN changes = 1..Len(changes) /\ Len(changes) \in Nat
         /\ \A i \in DOMAIN changes :
              /\ changes[i] \in [at : 0..now, to : Statuses]
              /\ changes[i].at \in 0..now /\ changes[i].at \in Int
              /\ changes[i].to \in Statuses
<1>. DEFINE R == [at : 0..now, to : Statuses]
<1>1. changes \in Seq(R) /\ now \in Nat
  BY DEF Types
<1>2. ASSUME NEW c \in R PROVE c.at \in 0..now /\ c.at \in Int /\ c.to \in Statuses
  BY <1>1
<1>. HIDE DEF R
<1>3. /\ DOMAIN changes = 1..Len(changes) /\ Len(changes) \in Nat
      /\ \A i \in DOMAIN changes : changes[i] \in R
  BY <1>1
<1>4. \A i \in DOMAIN changes :
        changes[i].at \in 0..now /\ changes[i].at \in Int /\ changes[i].to \in Statuses
  BY <1>2, <1>3
<1>. QED BY <1>3, <1>4 DEF R

Given(n, rows, m, s) ==
  /\ rows \in [1..n -> [at : 0..now, to : Statuses]]
  /\ (m = Len(changes) /\ Distinct) => AllSince(n, rows, s)

\* What a request was given is that, if the table has not grown since.
LEMMA RowsTyped ==
  ASSUME Types, NEW m \in 0..Len(changes), NEW s, NEW rows, RowsOf(rows, m, s)
  PROVE  \E n \in Nat : Given(n, rows, m, s)
<1>0. PICK n \in Nat : \E q \in Bijection(1..n, Read(m, s)) :
        /\ rows = [k \in 1..n |-> changes[q[k]]]
        /\ \A j, k \in 1..n : j < k => changes[q[j]].at >= changes[q[k]].at
  BY DEF RowsOf
<1>1. PICK q \in Bijection(1..n, Read(m, s)) :
        /\ rows = [k \in 1..n |-> changes[q[k]]]
        /\ \A j, k \in 1..n : j < k => changes[q[j]].at >= changes[q[k]].at
  BY <1>0
<1>2. /\ q \in [1..n -> Read(m, s)]
      /\ \A j, k \in 1..n : q[j] = q[k] => j = k
      /\ \A i \in Read(m, s) : \E k \in 1..n : q[k] = i
  BY DEF Bijection, Injection, Surjection, IsInjective
<1>3. /\ DOMAIN changes = 1..Len(changes) /\ Len(changes) \in Nat
      /\ \A i \in DOMAIN changes : changes[i] \in [at : 0..now, to : Statuses]
  BY ChangesTyped
<1>4. Read(m, s) \subseteq DOMAIN changes /\ \A i \in Read(m, s) : changes[i].at >= s
  BY <1>3 DEF Read
<1>5. rows \in [1..n -> [at : 0..now, to : Statuses]]
  BY <1>1, <1>2, <1>3, <1>4
<1>6. ASSUME m = Len(changes), Distinct PROVE AllSince(n, rows, s)
  <2>1. \A k \in 1..n : \E i \in DOMAIN changes : rows[k] = changes[i] /\ changes[i].at >= s
    BY <1>1, <1>2, <1>4
  <2>2. ASSUME NEW i \in DOMAIN changes, changes[i].at >= s
        PROVE  \E k \in 1..n : rows[k] = changes[i]
    <3>1. i \in Read(m, s)
      BY <1>3, <1>6, <2>2 DEF Read
    <3>. QED BY <1>1, <1>2, <3>1
  <2>3. ASSUME NEW j \in 1..n, NEW k \in 1..n, j < k PROVE rows[j].at > rows[k].at
    <3>1. q[j] # q[k] /\ q[j] \in DOMAIN changes /\ q[k] \in DOMAIN changes
      BY <1>2, <1>4, <2>3
    <3>2. changes[q[j]].at # changes[q[k]].at /\ changes[q[j]].at >= changes[q[k]].at
      BY <1>1, <1>6, <2>3, <3>1 DEF Distinct
    <3>3. changes[q[j]].at \in Int /\ changes[q[k]].at \in Int
      BY <1>3, <3>1
    <3>. QED BY <1>1, <3>2, <3>3
  <2>. QED BY <1>5, <2>1, <2>2, <2>3 DEF AllSince
<1>. QED BY <1>5, <1>6 DEF Given

\* Between two changes the monitor is what it was.
LEMMA SteadyDown ==
  ASSUME Types, TableTrue, unsaved = <<>>, NEW a \in 0..now, NEW b \in 0..now, a <= b,
         Unchanged(a, b - 1)
  PROVE  TrueDown(a, b) = IF Down(a) THEN b - a ELSE 0
<1>1. now \in Nat
  BY DEF Types
<1>2. ASSUME NEW t \in a..(b - 1) PROVE past[t] = Down(a)
  <2>1. t \in 0..now /\ t < now /\ a \in 0..t
    BY <1>1
  <2>2. Unchanged(a, t)
    BY <1>1 DEF Unchanged
  <2>3. Down(a) = Down(t)
    BY <2>1, <2>2 DEF TableTrue
  <2>. QED BY <2>1, <2>3 DEF Down
<1>3. Down(a) \in BOOLEAN
  <2>1. a < now => a \in 0..(now - 1)
    BY <1>1
  <2>. QED BY <2>1 DEF Down, Types, Broken
<1>. HIDE DEF Down
<1>. QED BY <1>1, <1>2, <1>3, CountSame

\* The last of the given changes up to a moment tells what the monitor was.
LEMMA NewestGiven ==
  ASSUME Types, Distinct, NEW i \in DOMAIN changes, NEW t \in 0..now,
         changes[i].at <= t,
         \A j \in DOMAIN changes : changes[j].at > changes[i].at => changes[j].at > t
  PROVE  Newest(i, t)
<1>1. ASSUME NEW j \in DOMAIN changes, j > i PROVE changes[j].at > t
  <2>1. changes[i].at <= changes[j].at /\ changes[i].at # changes[j].at
    BY <1>1, ChangesTyped DEF Types, Distinct
  <2>2. changes[i].at \in Int /\ changes[j].at \in Int
    BY ChangesTyped
  <2>. QED BY <2>1, <2>2
<1>. QED BY <1>1 DEF Newest

\* The status the walk starts with is the real one.
LEMMA StartStatus ==
  ASSUME Types, TableTrue, unsaved = <<>>, Distinct, NEW n \in Nat, NEW rows,
         NEW s \in 0..(now - 1), AllSince(n, rows, s), ~DownBefore(s),
         NEW from \in s..now
  PROVE  Broken(inferStatusAt(rows, from)) = Down(from)
<1>. DEFINE upto == {k \in 1..n : rows[k].at <= from}
<1>0. /\ now \in Nat /\ s \in Int /\ s \in 0..now /\ from \in 0..now /\ s < now /\ s <= from
      /\ DOMAIN rows = 1..n
  BY DEF Types, AllSince
<1>1. inferStatusAt(rows, from) = IF upto = {} THEN "UP" ELSE rows[Min(upto)].to
  BY <1>0 DEF inferStatusAt
<1>2. CASE upto = {}
  <2>1. \A i \in DOMAIN changes : changes[i].at \notin s..from
    <3>. SUFFICES ASSUME NEW i \in DOMAIN changes, changes[i].at \in s..from PROVE FALSE
      OBVIOUS
    <3>1. PICK k \in 1..n : rows[k] = changes[i]
      BY <1>0 DEF AllSince
    <3>2. k \in upto
      BY <1>0, <3>1
    <3>. QED BY <1>2, <3>2
  <2>2. Unchanged(s, from) /\ \A i \in DOMAIN changes : changes[i].at # s
    BY <1>0, <2>1 DEF Unchanged
  <2>3. ~past[s]
    BY <1>0, <2>2 DEF DownBefore
  <2>4. Down(s) = Down(from)
    BY <1>0, <2>2 DEF TableTrue
  <2>5. Down(s) = FALSE
    <3>1. s \in 0..(now - 1)
      OBVIOUS
    <3>. QED BY <1>0, <2>3, <3>1 DEF Down, Types
  <2>6. Broken("UP") = FALSE
    BY DEF Broken
  <2>. QED BY <1>1, <1>2, <2>4, <2>5, <2>6
<1>3. CASE upto # {}
  <2>. DEFINE m == Min(upto)
  <2>1. m \in upto /\ \A k \in upto : m <= k
    <3>1. \E x \in upto : \A y \in upto : x <= y
      <4>1. upto \in SUBSET Nat
        OBVIOUS
      <4>. HIDE DEF upto
      <4>. QED BY <1>3, <4>1, Least
    <3>. HIDE DEF upto
    <3>. QED BY <3>1 DEF Min
  <2>. HIDE DEF m
  <2>2. PICK i \in DOMAIN changes : rows[m] = changes[i] /\ changes[i].at >= s
    BY <2>1 DEF AllSince
  <2>3. ASSUME NEW j \in DOMAIN changes, changes[j].at > changes[i].at
        PROVE  changes[j].at > from
    <3>. SUFFICES ASSUME ~(changes[j].at > from) PROVE FALSE
      OBVIOUS
    <3>1. changes[i].at \in Int /\ changes[j].at \in Int
      BY ChangesTyped
    <3>2. PICK p \in 1..n : rows[p] = changes[j]
      <4>1. changes[j].at >= s
        BY <1>0, <2>2, <2>3, <3>1
      <4>. QED BY <4>1 DEF AllSince
    <3>3. p \in upto /\ m \in 1..n /\ p \in 1..n
      BY <1>0, <2>1, <3>1, <3>2
    <3>4. m <= p /\ m # p
      BY <2>1, <2>2, <2>3, <3>1, <3>2, <3>3
    <3>5. rows[m].at > rows[p].at
      BY <3>3, <3>4 DEF AllSince
    <3>. QED BY <2>2, <2>3, <3>1, <3>2, <3>5
  <2>4. changes[i].at <= from
    BY <2>1, <2>2
  <2>5. Newest(i, from)
    BY <1>0, <2>3, <2>4, NewestGiven
  <2>6. Down(from) = Broken(changes[i].to)
    BY <1>0, <2>5 DEF TableTrue
  <2>. QED BY <1>1, <1>3, <2>2, <2>6 DEF m
<1>. QED BY <1>2, <1>3

\* At each turn the walk has the downtime up to its cursor, and what comes
\* next in the period is not behind it.
OnTrack(w, k, n, rows, from, to, period) ==
  /\ w.cursor \in from..to
  /\ w.down = Down(w.cursor)
  /\ w.downTime = TrueDown(from, w.cursor)
  /\ \A j \in 1..k : rows[n + 1 - j].at \in period => rows[n + 1 - j].at <= w.cursor
  /\ \A j \in (k + 1)..n : rows[n + 1 - j].at \in period => rows[n + 1 - j].at >= w.cursor

\* No change between the cursor and the next turn's row.
LEMMA NoneBetween ==
  ASSUME Types, NEW n \in Nat, NEW rows, NEW s \in Int, AllSince(n, rows, s),
         NEW from \in Int, s <= from, NEW to \in Int, NEW period,
         from..(to - 1) \subseteq period,
         NEW w, NEW k \in 0..n, OnTrack(w, k, n, rows, from, to, period),
         NEW b \in from..to,
         \A j \in (k + 1)..n : rows[n + 1 - j].at >= b
  PROVE  Unchanged(w.cursor, b - 1)
<1>. SUFFICES ASSUME NEW i \in DOMAIN changes, changes[i].at \in (w.cursor + 1)..(b - 1)
              PROVE  FALSE
  BY DEF Unchanged
<1>1. w.cursor \in from..to /\ w.cursor \in Int /\ changes[i].at \in Int
  BY ChangesTyped DEF OnTrack
<1>2. changes[i].at >= s /\ changes[i].at \in period
  BY <1>1
<1>3. PICK p \in 1..n : rows[p] = changes[i]
  BY <1>2 DEF AllSince
<1>. DEFINE j == n + 1 - p
<1>4. j \in 1..n /\ n + 1 - j = p
  OBVIOUS
<1>5. CASE j \in 1..k
  <2>1. rows[n + 1 - j].at <= w.cursor
    BY <1>2, <1>3, <1>4, <1>5 DEF OnTrack
  <2>. QED BY <1>1, <1>3, <1>4, <2>1
<1>6. CASE j \in (k + 1)..n
  <2>1. rows[n + 1 - j].at >= b
    BY <1>6
  <2>. QED BY <1>1, <1>3, <1>4, <2>1
<1>. QED BY <1>4, <1>5, <1>6

\* A turn keeps the walk on its track.
LEMMA TurnTrue ==
  ASSUME Types, TableTrue, unsaved = <<>>, Distinct, NEW n \in Nat, NEW rows,
         NEW s \in 0..now, AllSince(n, rows, s), NEW from \in s..now, NEW to \in from..now,
         NEW period, from..(to - 1) \subseteq period, period \subseteq from..to,
         NEW k \in 1..n, NEW w \in Walks, OnTrack(w, k - 1, n, rows, from, to, period),
         rows[n + 1 - k].at \in period
  PROVE  OnTrack(Pass(w, rows[n + 1 - k]), k, n, rows, from, to, period)
<1>. DEFINE c == rows[n + 1 - k]
            p == Pass(w, c)
<1>1. /\ now \in Nat /\ s \in Int /\ from \in Int /\ to \in Int /\ n + 1 - k \in 1..n
      /\ k \in Int /\ k - 1 \in 0..n /\ k \in (k - 1 + 1)..n /\ s <= from
      /\ k - 1 + 1 = k
  BY DEF Types
<1>2. PICK i \in DOMAIN changes : c = changes[i]
  BY <1>1 DEF AllSince
<1>3. c \in Rows /\ c.at \in 0..now /\ c.at \in Int
  BY <1>2, ChangesTyped DEF Rows
<1>4. c.at \in from..to /\ c.at >= w.cursor /\ w.cursor \in from..to
  <2>1. c.at \in from..to
    OBVIOUS
  <2>2. c.at >= w.cursor /\ w.cursor \in from..to
    BY <1>1 DEF OnTrack
  <2>. QED BY <2>1, <2>2
<1>14. w.cursor \in Int /\ from <= w.cursor /\ w.cursor <= c.at /\ c.at <= to
  BY <1>1, <1>4
<1>5. ASSUME NEW j \in 1..n
      PROVE  /\ rows[n + 1 - j].at \in Int
             /\ j > k => rows[n + 1 - j].at > c.at
             /\ j < k => rows[n + 1 - j].at < c.at
  <2>1. n + 1 - j \in 1..n
    OBVIOUS
  <2>2. rows[n + 1 - j].at \in Int
    <3>1. PICK h \in DOMAIN changes : rows[n + 1 - j] = changes[h]
      BY <2>1 DEF AllSince
    <3>. QED BY <3>1, ChangesTyped
  <2>3. j > k => rows[n + 1 - j].at > c.at
    BY <1>1, <2>1 DEF AllSince
  <2>4. j < k => c.at > rows[n + 1 - j].at
    BY <1>1, <2>1 DEF AllSince
  <2>. QED BY <1>3, <2>2, <2>3, <2>4
<1>6. Unchanged(w.cursor, c.at - 1)
  <2>1. \A j \in (k - 1 + 1)..n : rows[n + 1 - j].at >= c.at
    <3>. SUFFICES ASSUME NEW j \in k..n PROVE rows[n + 1 - j].at >= c.at
      BY <1>1
    <3>1. j \in 1..n /\ (j = k \/ j > k)
      BY <1>1
    <3>2. CASE j = k
      BY <1>3, <3>2
    <3>3. CASE j > k
      BY <1>3, <1>5, <3>1, <3>3
    <3>. QED BY <3>1, <3>2, <3>3
  <2>2. c.at \in from..to
    BY <1>4
  <2>. DEFINE b == c.at
              m == k - 1
  <2>3. /\ OnTrack(w, m, n, rows, from, to, period) /\ b \in from..to /\ m \in 0..n
        /\ \A j \in (m + 1)..n : rows[n + 1 - j].at >= b
    BY <1>1, <2>1, <2>2
  <2>. HIDE DEF b, m
  <2>4. Unchanged(w.cursor, b - 1)
    BY <1>1, <2>3, NoneBetween
  <2>. QED BY <2>4 DEF b
<1>7. TrueDown(w.cursor, c.at) = IF Down(w.cursor) THEN c.at - w.cursor ELSE 0
  <2>1. w.cursor \in 0..now
    BY <1>1, <1>4
  <2>. HIDE DEF c
  <2>. QED BY <1>3, <1>4, <1>6, <2>1, SteadyDown
<1>8. /\ p.cursor = c.at /\ p.down = (c.to = "DOWN")
      /\ p.downTime = w.downTime + (IF w.down THEN c.at - w.cursor ELSE 0)
  <2>. HIDE DEF c
  <2>. QED BY <1>3, PassFields
<1>9. p.down = Down(c.at)
  <2>1. ASSUME NEW j \in DOMAIN changes, changes[j].at > changes[i].at
        PROVE  changes[j].at > c.at
    BY <1>2, <2>1
  <2>2. Newest(i, c.at)
    BY <1>2, <1>3, <2>1, NewestGiven
  <2>3. Down(c.at) = Broken(c.to)
    BY <1>2, <1>3, <2>2 DEF TableTrue
  <2>. QED BY <1>8, <2>3 DEF Broken
<1>10. p.downTime = TrueDown(from, c.at)
  <2>1. w.down = Down(w.cursor) /\ w.downTime = TrueDown(from, w.cursor)
    BY DEF OnTrack
  <2>2. TrueDown(from, c.at) = TrueDown(from, w.cursor) + TrueDown(w.cursor, c.at)
    <3>. HIDE DEF c
    <3>. QED BY <1>1, <1>3, <1>14, CountAdds
  <2>. HIDE DEF p, c, Down
  <2>. QED BY <1>7, <1>8, <2>1, <2>2
<1>11. \A j \in 1..k : rows[n + 1 - j].at <= c.at
  <2>. SUFFICES ASSUME NEW j \in 1..k PROVE rows[n + 1 - j].at <= c.at
    OBVIOUS
  <2>1. j \in 1..n /\ (j < k \/ j = k)
    BY <1>1
  <2>2. CASE j = k
    BY <1>3, <2>2
  <2>3. CASE j < k
    <3>1. rows[n + 1 - j].at \in Int /\ rows[n + 1 - j].at < c.at
      BY <1>5, <2>1, <2>3
    <3>. HIDE DEF c
    <3>. QED BY <1>3, <3>1
  <2>. QED BY <2>1, <2>2, <2>3
<1>12. \A j \in (k + 1)..n : rows[n + 1 - j].at >= c.at
  <2>. SUFFICES ASSUME NEW j \in (k + 1)..n PROVE rows[n + 1 - j].at >= c.at
    OBVIOUS
  <2>1. j \in 1..n /\ j > k
    BY <1>1
  <2>2. rows[n + 1 - j].at \in Int /\ rows[n + 1 - j].at > c.at
    BY <1>5, <2>1
  <2>. HIDE DEF c
  <2>. QED BY <1>3, <2>2
<1>. HIDE DEF p, c
<1>13. OnTrack(p, k, n, rows, from, to, period)
  BY <1>4, <1>8, <1>9, <1>10, <1>11, <1>12 DEF OnTrack
<1>. QED BY <1>13 DEF p, c

\* The walk gives the real downtime of the period.
LEMMA WalkTrue ==
  ASSUME Types, TableTrue, unsaved = <<>>, Distinct, NEW n \in Nat, NEW rows,
         NEW s \in 0..now, AllSince(n, rows, s), NEW from \in s..now, NEW to \in from..now,
         NEW period, from..(to - 1) \subseteq period, period \subseteq from..to
  PROVE  Close(Walk(rows, WalkStart(from, Down(from)), period), to).downTime
           = TrueDown(from, to)
<1>. DEFINE start == WalkStart(from, Down(from))
<1>1. now \in Nat /\ s \in Int /\ from \in Int /\ to \in Int /\ from \in 0..now /\ to \in 0..now
  BY DEF Types
<1>2. Down(from) \in BOOLEAN
  <2>1. from < now => from \in 0..(now - 1)
    BY <1>1
  <2>. QED BY <2>1 DEF Down, Types, Broken
<1>3. start \in Walks
  BY <1>1, <1>2, StartFields
<1>4. rows \in [1..n -> Rows] /\ Len(rows) = n
  <2>1. rows \in [1..n -> [at : 0..now, to : Statuses]]
    BY DEF AllSince
  <2>2. [at : 0..now, to : Statuses] \subseteq Rows
    BY <1>1 DEF Rows
  <2>. QED BY <2>1, <2>2
<1>5. OnTrack(start, 0, n, rows, from, to, period)
  <2>1. start.cursor = from /\ start.down = Down(from) /\ start.downTime = 0
    BY DEF WalkStart
  <2>2. TrueDown(from, from) = 0
    <3>1. {t \in from..(from - 1) : past[t]} = {}
      BY <1>1
    <3>. QED BY <3>1, FS_EmptySet DEF TrueDown
  <2>3. ASSUME NEW j \in 1..n, rows[n + 1 - j].at \in period
        PROVE  rows[n + 1 - j].at >= from
    <3>1. rows[n + 1 - j].at \in from..to
      BY <2>3
    <3>. QED BY <1>1, <3>1
  <2>. HIDE DEF start
  <2>. QED BY <1>1, <2>1, <2>2, <2>3 DEF OnTrack
<1>. HIDE DEF start
<1>6. PICK f : Walked(rows, start, period, f)
  BY <1>3, <1>4, WalkTurns
<1>. DEFINE T == {k \in 0..n : OnTrack(f[k], k, n, rows, from, to, period)}
<1>7. 0 \in T
  BY <1>5, <1>6 DEF Walked
<1>8. ASSUME NEW k \in 1..n, k - 1 \in T PROVE k \in T
  <2>. DEFINE c == rows[n + 1 - k]
  <2>1. /\ f[k - 1] \in Walks /\ OnTrack(f[k - 1], k - 1, n, rows, from, to, period)
        /\ f[k] = IF c.at \in period THEN Pass(f[k - 1], c) ELSE f[k - 1]
    BY <1>4, <1>6, <1>8 DEF Walked
  <2>2. CASE c.at \in period
    <3>. DEFINE w == f[k - 1]
    <3>1. w \in Walks /\ OnTrack(w, k - 1, n, rows, from, to, period) /\ f[k] = Pass(w, c)
      BY <2>1, <2>2
    <3>. HIDE DEF w
    <3>2. OnTrack(Pass(w, c), k, n, rows, from, to, period)
      BY <2>2, <3>1, TurnTrue
    <3>. QED BY <3>1, <3>2
  <2>3. CASE c.at \notin period
    <3>1. f[k] = f[k - 1]
      BY <2>1, <2>3
    <3>. DEFINE w == f[k - 1]
    <3>2. \A j \in 1..k : rows[n + 1 - j].at \in period => rows[n + 1 - j].at <= w.cursor
      <4>. SUFFICES ASSUME NEW j \in 1..k, rows[n + 1 - j].at \in period
                    PROVE  rows[n + 1 - j].at <= w.cursor
        OBVIOUS
      <4>1. j # k
        BY <2>3
      <4>2. j \in 1..(k - 1)
        BY <4>1
      <4>3. \A i \in 1..(k - 1) : rows[n + 1 - i].at \in period => rows[n + 1 - i].at <= w.cursor
        BY <2>1 DEF OnTrack
      <4>. QED BY <4>2, <4>3
    <3>3. OnTrack(w, k, n, rows, from, to, period)
      BY <2>1, <3>2 DEF OnTrack
    <3>. QED BY <3>1, <3>3
  <2>. QED BY <2>2, <2>3
<1>9. n \in T
  <2>. HIDE DEF T
  <2>1. 0..n \subseteq T
    BY <1>7, <1>8, Induction
  <2>. QED BY <2>1
<1>. DEFINE w == f[n]
<1>10. /\ Walk(rows, start, period) = w /\ w \in Walks
       /\ OnTrack(w, n, n, rows, from, to, period)
  BY <1>4, <1>6, <1>9 DEF Walked
<1>. HIDE DEF w
<1>11. w.cursor \in from..to /\ w.cursor \in 0..now
  BY <1>1, <1>10 DEF OnTrack
<1>12. Unchanged(w.cursor, to - 1)
  <2>1. n \in 0..n /\ to \in from..to /\ s <= from
    BY <1>1
  <2>2. \A j \in (n + 1)..n : rows[n + 1 - j].at >= to
    OBVIOUS
  <2>. QED BY <1>1, <1>10, <2>1, <2>2, NoneBetween
<1>13. TrueDown(w.cursor, to) = IF Down(w.cursor) THEN to - w.cursor ELSE 0
  BY <1>1, <1>11, <1>12, SteadyDown
<1>14. Close(w, to).downTime = w.downTime + (IF w.down THEN to - w.cursor ELSE 0)
  BY <1>1, <1>10, CloseFields
<1>15. TrueDown(from, to) = TrueDown(from, w.cursor) + TrueDown(w.cursor, to)
  <2>1. w.cursor \in Int /\ from <= w.cursor /\ w.cursor <= to
    BY <1>1, <1>11
  <2>. QED BY <1>1, <2>1, CountAdds
<1>16. w.down = Down(w.cursor) /\ w.downTime = TrueDown(from, w.cursor)
  BY <1>10 DEF OnTrack
<1>17. Close(w, to).downTime = TrueDown(from, to)
  BY <1>13, <1>14, <1>15, <1>16
<1>. QED BY <1>10, <1>17 DEF start

-----------------------------------------------------------------------------
\* Days.
\* Multiples of a day's length.
LEMMA Multiples ==
  ASSUME NEW a \in Int, NEW b \in Int, a <= b, NEW d \in Nat
  PROVE  a * d <= b * d /\ a * d \in Int /\ (a + 1) * d = a * d + d
OBVIOUS

\* A day ends after it begins, and not after now.
LEMMA DayBounds ==
  ASSUME HistoryAssumption, now \in Nat, NEW i \in DaysBack
  PROVE  /\ DayStart(i) \in Int /\ DayEnd(i) \in Int
         /\ DayStart(i) <= DayEnd(i) /\ DayEnd(i) <= now
<1>. DEFINE d == DayLength
            q == now \div d
<1>1. d \in Nat /\ d > 0 /\ now \in Nat
  BY DEF HistoryAssumption
<1>2. q \in Nat /\ q * d <= now
  BY <1>1
<1>3. i \in 0..q /\ DayStart(i) = (q - i) * d
  BY DEF DaysBack, DayStart
<1>. HIDE DEF d, q
<1>4. q - i \in Int /\ q - i <= q /\ (i # 0 => q - i + 1 <= q) /\ q - i + 1 \in Int
  BY <1>2, <1>3
<1>5. /\ (q - i) * d <= q * d /\ (q - i) * d \in Int /\ q * d \in Int
      /\ i # 0 => (q - i) * d + d <= q * d
  BY <1>1, <1>2, <1>4, Multiples
<1>6. DayEnd(i) = IF i = 0 THEN now ELSE (q - i) * d + d
  BY <1>3 DEF DayEnd, d
<1>. QED BY <1>1, <1>2, <1>3, <1>5, <1>6

\* Each day's downtime is the real one ...
LEMMA DayRight ==
  ASSUME HistoryAssumption, Types, TableTrue, unsaved = <<>>, Distinct, NEW n \in Nat,
         NEW rows, NEW s \in 0..(now - 1), AllSince(n, rows, s), ~DownBefore(s),
         NEW i \in DaysBack, DayStart(i) >= s
  PROVE  computeSLAForWindow(rows, DayStart(i), DayEnd(i)) = TrueDown(DayStart(i), DayEnd(i))
<1>. DEFINE from == DayStart(i)
            to == DayEnd(i)
<1>1. now \in Nat /\ s \in Int /\ s \in 0..now
  BY DEF Types
<1>2. from \in s..now /\ to \in from..now
  BY <1>1, DayBounds
<1>. HIDE DEF from, to
<1>3. Broken(inferStatusAt(rows, from)) = Down(from)
  BY <1>2, StartStatus
<1>4. from..(to - 1) \subseteq from..(to - 1) /\ from..(to - 1) \subseteq from..to
  BY <1>1, <1>2
<1>5. Close(Walk(rows, WalkStart(from, Down(from)), from..(to - 1)), to).downTime
        = TrueDown(from, to)
  BY <1>1, <1>2, <1>4, WalkTrue
<1>6. computeSLAForWindow(rows, from, to) = TrueDown(from, to)
  BY <1>3, <1>5 DEF computeSLAForWindow
<1>. QED BY <1>6 DEF from, to

\* ... and so is the report's.
LEMMA SlaRight ==
  ASSUME Types, TableTrue, unsaved = <<>>, Distinct, NEW n \in Nat,
         NEW rows, NEW s \in 0..(now - 1), AllSince(n, rows, s),
         ~DownBefore(s) \/ rows = <<>>, NEW w \in Nat, s + w <= now
  PROVE  ComputeSLA(rows, status, w).downTime = TrueDown(now - w, now)
<1>. DEFINE from == now - w
<1>1. now \in Nat /\ s \in Int /\ s \in 0..now /\ from \in s..now /\ from \in 0..now
      /\ now \in from..now /\ from \in Int /\ now \in 0..now /\ from <= now
  BY DEF Types
<1>2. CASE rows = <<>>
  <2>. DEFINE v == WalkStart(from, Broken(status))
  <2>1. n = 0
    <3>1. DOMAIN rows = 1..n
      BY DEF AllSince
    <3>2. DOMAIN rows = {}
      BY <1>2
    <3>. QED BY <3>1, <3>2
  <2>2. \A i \in DOMAIN changes : ~(changes[i].at >= s)
    BY <2>1 DEF AllSince
  <2>3. Unchanged(from, now) /\ Unchanged(from, now - 1)
    BY <1>1, <2>2, ChangesTyped DEF Unchanged
  <2>4. Down(from) = Broken(status)
    <3>1. Down(from) = Down(now)
      BY <1>1, <2>3 DEF TableTrue
    <3>. QED BY <1>1, <3>1 DEF Down
  <2>5. TrueDown(from, now) = IF Down(from) THEN now - from ELSE 0
    <3>. HIDE DEF from
    <3>. QED BY <1>1, <2>3, SteadyDown
  <2>6. Broken(status) \in BOOLEAN
    BY DEF Broken
  <2>7. v \in Walks /\ v.cursor = from /\ v.down = Broken(status) /\ v.downTime = 0
    BY <1>1, <2>6, StartFields DEF WalkStart
  <2>8. ComputeSLA(rows, status, w).downTime = Close(v, now).downTime
    BY <1>2 DEF ComputeSLA
  <2>. HIDE DEF v, from
  <2>9. Close(v, now).downTime = 0 + (IF Broken(status) THEN now - from ELSE 0)
    BY <1>1, <2>7, CloseFields
  <2>10. ComputeSLA(rows, status, w).downTime = TrueDown(from, now)
    BY <1>1, <2>4, <2>5, <2>6, <2>8, <2>9
  <2>. QED BY <2>10 DEF from
<1>3. CASE rows # <<>>
  <2>1. ComputeSLA(rows, status, w) =
          Close(Walk(rows, WalkStart(from, Broken(inferStatusAt(rows, from))), from..now), now)
    BY <1>3 DEF ComputeSLA
  <2>. HIDE DEF from
  <2>2. Broken(inferStatusAt(rows, from)) = Down(from)
    BY <1>1, <1>3, StartStatus
  <2>3. from..(now - 1) \subseteq from..now /\ from..now \subseteq from..now
    BY <1>1
  <2>4. Close(Walk(rows, WalkStart(from, Down(from)), from..now), now).downTime
          = TrueDown(from, now)
    BY <1>1, <2>3, WalkTrue
  <2>5. ComputeSLA(rows, status, w).downTime = TrueDown(from, now)
    BY <2>1, <2>2, <2>4
  <2>. QED BY <2>5 DEF from
<1>. QED BY <1>2, <1>3

-----------------------------------------------------------------------------
\* The steps.
\* Nothing has happened yet.
LEMMA InitOk ==
  ASSUME Init
  PROVE  HistoryInv
<1>1. now = 0 /\ past = <<>> /\ changes = <<>> /\ unsaved = <<>> /\ request = None /\ report = None
      /\ status \in Statuses
  BY DEF Init, Statuses
<1>2. Types
  <2>1. <<>> \in [0..(0 - 1) -> BOOLEAN]
    OBVIOUS
  <2>. QED BY <1>1, <2>1 DEF Types
<1>3. TableTrue
  BY <1>1 DEF TableTrue
<1>. QED BY <1>1, <1>2, <1>3 DEF HistoryInv, LastSaid, RequestTrue, ReportTrue, OutagesAddUp,
        SlaTruth, Shown

\* A window has a length.
LEMMA WindowTyped ==
  ASSUME HistoryAssumption, NEW w \in Windows
  PROVE  w \in Nat /\ w \in Int /\ w > 0
BY DEF HistoryAssumption

\* A request keeps its rows while the table grows behind them.
LEMMA RequestKept ==
  ASSUME HistoryAssumption, Types, RequestTrue, request' = request, now' \in Nat, now <= now',
         Len(changes') \in Nat, Len(changes) <= Len(changes'),
         \A i \in 1..Len(changes) : changes'[i] = changes[i]
  PROVE  RequestTrue'
<1>. SUFFICES ASSUME request # None PROVE RequestTrue'
  BY DEF RequestTrue
<1>. DEFINE n == Len(changes)
            m == request.known
            s == request.since
            rows == request.rows
<1>1. /\ request.w \in Windows /\ s \in 0..now /\ s + request.w <= now
      /\ m \in 0..n /\ RowsOf(rows, m, s) /\ n \in Nat /\ now \in Nat
  BY ChangesTyped DEF RequestTrue, Types
<1>. HIDE DEF m, s, rows
<1>2. Read(m, s)' = Read(m, s) /\ Read(m, s) \subseteq 1..n
  <2>1. m' = m /\ s' = s /\ 1..m \subseteq 1..n
    BY <1>1 DEF m, s
  <2>. QED BY <2>1 DEF Read
<1>3. PICK k \in Nat : \E q \in Bijection(1..k, Read(m, s)) :
        /\ rows = [j \in 1..k |-> changes[q[j]]]
        /\ \A i, j \in 1..k : i < j => changes[q[i]].at >= changes[q[j]].at
  BY <1>1 DEF RowsOf
<1>4. PICK q \in Bijection(1..k, Read(m, s)) :
        /\ rows = [j \in 1..k |-> changes[q[j]]]
        /\ \A i, j \in 1..k : i < j => changes[q[i]].at >= changes[q[j]].at
  BY <1>3
<1>5. \A j \in 1..k : q[j] \in 1..n
  BY <1>2, <1>4 DEF Bijection, Injection
<1>6. /\ rows = [j \in 1..k |-> changes'[q[j]]]
      /\ \A i, j \in 1..k : i < j => changes'[q[i]].at >= changes'[q[j]].at
  BY <1>4, <1>5
<1>7. rows' = rows /\ m' = m /\ s' = s
  BY DEF rows, m, s
<1>8. RowsOf(rows, m, s)'
  BY <1>2, <1>4, <1>6, <1>7 DEF RowsOf
<1>9. /\ request'.w \in Windows /\ s' \in 0..now' /\ s' + request'.w <= now'
      /\ m' \in 0..Len(changes')
  <2>1. request.w \in Int
    BY <1>1, WindowTyped
  <2>2. s \in Int /\ n \in Int
    BY <1>1
  <2>. QED BY <1>1, <1>7, <2>1, <2>2
<1>. QED BY <1>8, <1>9 DEF RequestTrue, rows, m, s

\* A report stays right while time stands still.
LEMMA ReportKept ==
  ASSUME ReportTrue, report' = report, now' = now, past' = past,
         \A t : DownBefore(t)' = DownBefore(t)
  PROVE  ReportTrue'
<1>1. /\ \A a, b : TrueDown(a, b)' = TrueDown(a, b)
      /\ \A i : DayStart(i)' = DayStart(i)
  BY DEF TrueDown, DayStart
<1>2. DaysBack' = DaysBack /\ \A i : DayEnd(i)' = DayEnd(i)
  BY <1>1 DEF DayEnd, DaysBack
<1>3. SlaTruth'
  BY <1>1, <1>2 DEF ReportTrue, SlaTruth, Shown
<1>. QED BY <1>3 DEF ReportTrue, OutagesAddUp

\* A change of status waits in the queue.
LEMMA ChangeStatusKeeps ==
  ASSUME HistoryAssumption, HistoryInv, NEW to \in Statuses, ChangeStatus(to)
  PROVE  HistoryInv'
<1>1. /\ Types /\ unsaved' = Append(unsaved, to) /\ status' = to
      /\ now' = now /\ past' = past /\ changes' = changes /\ request' = request
      /\ report' = report
  BY DEF HistoryInv, ChangeStatus
<1>2. /\ unsaved \in Seq(Statuses) /\ now \in Nat
      /\ unsaved' \in Seq(Statuses) /\ unsaved' # <<>> /\ unsaved'[Len(unsaved')] = to
  BY <1>1 DEF Types
<1>3. Types' /\ LastSaid'
  BY <1>1, <1>2 DEF Types, LastSaid
<1>4. TableTrue'
  <2>. SUFFICES ASSUME NEW u \in 0..now, u # now
                PROVE  /\ \A t \in 0..u : Unchanged(t, u)' => Down(t)' = Down(u)'
                       /\ \A i \in DOMAIN changes :
                            Newest(i, u)' => Down(u)' = Broken(changes[i].to)
    BY <1>1, <1>2 DEF TableTrue
  <2>1. \A t \in 0..u : Down(t)' = Down(t) /\ Unchanged(t, u)' = Unchanged(t, u)
    BY <1>1, <1>2 DEF Down, Unchanged
  <2>2. \A i \in DOMAIN changes : Newest(i, u)' = Newest(i, u)
    BY <1>1 DEF Newest
  <2>. QED BY <2>1, <2>2, <1>2 DEF HistoryInv, TableTrue
<1>5. RequestTrue'
  BY <1>1, <1>2, ChangesTyped, RequestKept DEF HistoryInv
<1>6. ReportTrue'
  <2>1. \A t : DownBefore(t)' = DownBefore(t)
    BY <1>1 DEF DownBefore
  <2>. QED BY <1>1, <2>1, ReportKept DEF HistoryInv
<1>. QED BY <1>3, <1>4, <1>5, <1>6 DEF HistoryInv

\* The last change of the queue makes the table true for the present.
LEMMA SaveKeeps ==
  ASSUME HistoryAssumption, HistoryInv, Save
  PROVE  HistoryInv'
<1>. DEFINE c == [at |-> now, to |-> Head(unsaved)]
            n == Len(changes)
<1>1. /\ Types /\ unsaved # <<>> /\ changes' = Append(changes, c)
      /\ unsaved' = Tail(unsaved) /\ status' = status
      /\ now' = now /\ past' = past /\ request' = request /\ report' = report
  BY DEF HistoryInv, Save
<1>2. /\ now \in Nat /\ unsaved \in Seq(Statuses) /\ Head(unsaved) \in Statuses
      /\ unsaved' \in Seq(Statuses) /\ n \in Nat /\ DOMAIN changes = 1..n
      /\ c.at = now /\ c.to = Head(unsaved) /\ c \in [at : 0..now, to : Statuses]
  BY <1>1, ChangesTyped DEF Types
<1>3. /\ changes' \in Seq([at : 0..now, to : Statuses]) /\ Len(changes') = n + 1
      /\ DOMAIN changes' = 1..(n + 1) /\ changes'[n + 1] = c
      /\ \A i \in 1..n : changes'[i] = changes[i]
  <2>. HIDE DEF c
  <2>. QED BY <1>1, <1>2 DEF Types
<1>. HIDE DEF c
<1>4. \A i \in 1..n : changes[i].at \in 0..now /\ changes[i].at <= now /\ changes[i].at \in Int
  BY <1>1, <1>2, ChangesTyped
<1>5. Types'
  <2>1. ASSUME NEW i \in 1..(n + 1), NEW j \in 1..(n + 1), i < j
        PROVE  changes'[i].at <= changes'[j].at
    <3>1. i \in 1..n /\ (j \in 1..n \/ j = n + 1)
      BY <1>2, <2>1
    <3>. QED BY <1>1, <1>2, <1>3, <1>4, <2>1, <3>1 DEF Types
  <2>. QED BY <1>1, <1>2, <1>3, <2>1 DEF Types
<1>6. LastSaid'
  BY <1>1, <1>2 DEF HistoryInv, LastSaid
<1>7. TableTrue'
  <2>. SUFFICES ASSUME NEW u \in 0..now, u = now => unsaved' = <<>>
                PROVE  /\ \A t \in 0..u : Unchanged(t, u)' => Down(t)' = Down(u)'
                       /\ \A i \in 1..(n + 1) : Newest(i, u)' => Down(u)' = Broken(changes'[i].to)
    BY <1>1, <1>3 DEF TableTrue
  <2>0. \A t \in 0..now : Down(t)' = Down(t)
    BY <1>1 DEF Down
  <2>1. CASE u # now
    <3>1. \A t \in 0..u : Unchanged(t, u)' => Unchanged(t, u)
      BY <1>2, <1>3 DEF Unchanged
    <3>2. ASSUME NEW i \in 1..(n + 1), Newest(i, u)' PROVE i \in 1..n /\ Newest(i, u)
      <4>1. i # n + 1
        BY <1>2, <1>3, <2>1, <3>2 DEF Newest
      <4>2. i \in 1..n
        BY <1>2, <4>1
      <4>. QED BY <1>2, <1>3, <3>2, <4>2 DEF Newest
    <3>3. /\ \A t \in 0..u : Unchanged(t, u) => Down(t) = Down(u)
          /\ \A i \in DOMAIN changes : Newest(i, u) => Down(u) = Broken(changes[i].to)
      BY <2>1 DEF HistoryInv, TableTrue
    <3>4. \A t \in 0..u : t \in 0..now
      BY <1>2
    <3>5. \A t \in 0..u : Unchanged(t, u)' => Down(t)' = Down(u)'
      BY <2>0, <3>1, <3>3, <3>4
    <3>6. ASSUME NEW i \in 1..(n + 1), Newest(i, u)' PROVE Down(u)' = Broken(changes'[i].to)
      BY <1>2, <1>3, <2>0, <3>2, <3>3, <3>6
    <3>. QED BY <3>5, <3>6
  <2>2. CASE u = now
    <3>1. status = c.to
      <4>1. Tail(unsaved) = <<>> /\ unsaved \in Seq(Statuses) /\ unsaved # <<>>
        BY <1>1, <1>2, <2>2
      <4>2. Len(unsaved) = 1
        <5>1. Len(Tail(unsaved)) = Len(unsaved) - 1 /\ Len(unsaved) \in Nat
          BY <4>1
        <5>2. Len(Tail(unsaved)) = 0
          <6>1. Len(<<>>) = 0
            OBVIOUS
          <6>. QED BY <4>1, <6>1
        <5>. QED BY <5>1, <5>2
      <4>. QED BY <1>1, <1>2, <4>1, <4>2 DEF HistoryInv, LastSaid
    <3>2. ASSUME NEW t \in 0..u, Unchanged(t, u)' PROVE t = u
      <4>1. changes'[n + 1].at \notin (t + 1)..u
        <5>1. n + 1 \in DOMAIN changes'
          BY <1>2, <1>3
        <5>. QED BY <1>1, <3>2, <5>1 DEF Unchanged
      <4>. QED BY <1>2, <1>3, <2>2, <4>1
    <3>3. ASSUME NEW i \in 1..(n + 1), Newest(i, u)' PROVE i = n + 1
      <4>1. n + 1 > i => changes'[n + 1].at > u
        <5>1. n + 1 \in DOMAIN changes'
          BY <1>2, <1>3
        <5>. QED BY <1>1, <3>3, <5>1 DEF Newest
      <4>. QED BY <1>2, <1>3, <2>2, <4>1
    <3>4. Down(u)' = Broken(c.to)
      BY <1>1, <1>2, <2>2, <3>1 DEF Down, Broken
    <3>5. \A t \in 0..u : Unchanged(t, u)' => Down(t)' = Down(u)'
      BY <3>2
    <3>6. \A i \in 1..(n + 1) : Newest(i, u)' => Down(u)' = Broken(changes'[i].to)
      BY <1>3, <3>3, <3>4
    <3>. QED BY <3>5, <3>6
  <2>. QED BY <2>1, <2>2
<1>8. RequestTrue'
  BY <1>1, <1>2, <1>3, ChangesTyped, RequestKept DEF HistoryInv
<1>9. ReportTrue'
  <2>1. ASSUME NEW t PROVE DownBefore(t)' = DownBefore(t)
    <3>1. t < now => c.at # t
      BY <1>2
    <3>2. ASSUME t < now
          PROVE  (\A i \in DOMAIN changes' : changes'[i].at # t)
                   <=> (\A i \in DOMAIN changes : changes[i].at # t)
      <4>1. \A i \in 1..(n + 1) : i \in 1..n \/ i = n + 1
        BY <1>2
      <4>2. \A i \in 1..n : i \in 1..(n + 1)
        BY <1>2
      <4>. QED BY <1>2, <1>3, <3>1, <3>2, <4>1, <4>2
    <3>. QED BY <1>1, <3>2 DEF DownBefore
  <2>. QED BY <1>1, <2>1, ReportKept DEF HistoryInv
<1>. QED BY <1>5, <1>6, <1>7, <1>8, <1>9 DEF HistoryInv

\* The tick that is over was as the status and the table say.
LEMMA TickKeeps ==
  ASSUME HistoryAssumption, HistoryInv, Tick
  PROVE  HistoryInv'
<1>1. /\ Types /\ unsaved = <<>> /\ now' = now + 1 /\ now \in Nat
      /\ past' = [t \in 0..now |-> IF t = now THEN Broken(status) ELSE past[t]]
      /\ status' = status /\ changes' = changes /\ unsaved' = unsaved
      /\ request' = request /\ report' = report
  BY DEF HistoryInv, Tick, Types
<1>2. Types' /\ LastSaid'
  <2>1. past' \in [0..(now' - 1) -> BOOLEAN]
    <3>1. ASSUME NEW t \in 0..now
          PROVE  (IF t = now THEN Broken(status) ELSE past[t]) \in BOOLEAN
      <4>1. t # now => t \in 0..(now - 1)
        BY <1>1
      <4>. QED BY <1>1, <4>1 DEF Types, Broken
    <3>2. now' - 1 = now
      BY <1>1
    <3>. QED BY <1>1, <3>1, <3>2
  <2>2. changes' \in Seq([at : 0..now', to : Statuses])
    <3>. DEFINE A == [at : 0..now, to : Statuses]
                B == [at : 0..now', to : Statuses]
    <3>1. A \subseteq B /\ changes \in Seq(A)
      BY <1>1 DEF Types
    <3>. HIDE DEF A, B
    <3>2. changes' \in Seq(B)
      BY <1>1, <3>1
    <3>. QED BY <3>2 DEF B
  <2>. QED BY <1>1, <2>1, <2>2 DEF Types, LastSaid
<1>3. \A t \in 0..now : Down(t)' = Down(t)
  BY <1>1 DEF Down
<1>4. /\ \A u : u = now + 1 => Down(u)' = Broken(status)
      /\ Down(now) = Broken(status)
  BY <1>1 DEF Down, Broken
<1>5. TableTrue'
  <2>. SUFFICES ASSUME NEW u \in 0..(now + 1)
                PROVE  /\ \A t \in 0..u : Unchanged(t, u)' => Down(t)' = Down(u)'
                       /\ \A i \in DOMAIN changes :
                            Newest(i, u)' => Down(u)' = Broken(changes[i].to)
    BY <1>1 DEF TableTrue, Broken
  <2>0. /\ \A t \in 0..u : Unchanged(t, u)' = Unchanged(t, u)
        /\ \A i \in DOMAIN changes : Newest(i, u)' = Newest(i, u)
    BY <1>1 DEF Unchanged, Newest
  <2>1. CASE u \in 0..now
    BY <1>1, <1>3, <2>0, <2>1 DEF HistoryInv, TableTrue
  <2>2. CASE u = now + 1
    <3>1. ASSUME NEW t \in 0..now, Unchanged(t, now + 1) PROVE Down(t) = Down(now)
      <4>1. Unchanged(t, now)
        BY <1>1, <3>1 DEF Unchanged
      <4>. QED BY <1>1, <4>1 DEF HistoryInv, TableTrue
    <3>2. ASSUME NEW i \in DOMAIN changes, Newest(i, now + 1)
          PROVE  Down(now) = Broken(changes[i].to)
      <4>1. changes[i].at <= now
        BY <1>1, ChangesTyped
      <4>2. Newest(i, now)
        BY <1>1, <3>2, <4>1, ChangesTyped DEF Newest
      <4>. QED BY <1>1, <4>2 DEF HistoryInv, TableTrue
    <3>4. ASSUME NEW t \in 0..u, Unchanged(t, u) PROVE Down(t)' = Down(u)'
      <4>1. t \in 0..now \/ t = now + 1
        BY <1>1, <2>2
      <4>2. CASE t \in 0..now
        BY <1>3, <1>4, <2>2, <3>1, <3>4, <4>2
      <4>. QED BY <2>2, <4>1, <4>2
    <3>5. \A i \in DOMAIN changes : Newest(i, u) => Down(u)' = Broken(changes[i].to)
      BY <1>4, <2>2, <3>2
    <3>. QED BY <2>0, <3>4, <3>5
  <2>. QED BY <1>1, <2>1, <2>2
<1>6. RequestTrue'
  BY <1>1, ChangesTyped, RequestKept DEF HistoryInv
<1>7. ReportTrue'
  BY <1>1 DEF HistoryInv, ReportTrue, OutagesAddUp, SlaTruth, Shown
<1>. QED BY <1>2, <1>5, <1>6, <1>7 DEF HistoryInv

\* The request gets the rows since its moment.
LEMMA LoadKeeps ==
  ASSUME HistoryAssumption, HistoryInv, NEW w \in Windows, Load(w)
  PROVE  HistoryInv'
<1>. DEFINE since == now - w
            ids == {i \in DOMAIN changes : changes[i].at >= since}
            n == Cardinality(ids)
<1>1. /\ Types /\ w \in Nat /\ w <= now /\ now \in Nat /\ since \in 0..now
      /\ now' = now /\ status' = status /\ past' = past /\ changes' = changes
      /\ unsaved' = unsaved /\ report' = report
  <2>1. Types /\ w \in Nat /\ w <= now /\ now \in Nat
    BY WindowTyped DEF HistoryInv, Load, Types
  <2>. QED BY <2>1 DEF Load
<1>2. ids = Read(Len(changes), since) /\ n \in Nat
  <2>1. ids = Read(Len(changes), since)
    BY <1>1, ChangesTyped DEF Read
  <2>2. IsFiniteSet(DOMAIN changes) /\ ids \subseteq DOMAIN changes
    <3>1. IsFiniteSet(1..Len(changes))
      BY <1>1, ChangesTyped, FS_Interval
    <3>. QED BY <1>1, <3>1, ChangesTyped
  <2>. HIDE DEF ids
  <2>. QED BY <2>1, <2>2, FS_Subset, FS_CardinalityType
<1>3. PICK rows \in GetStateChangesSince(since) :
        request' = [w |-> w, rows |-> rows, since |-> since,
                    known |-> Len(changes), settled |-> unsaved = <<>>]
  BY DEF Load
<1>4. PICK q \in Bijection(1..n, ids) :
        /\ \A j, k \in 1..n : j < k => changes[q[j]].at >= changes[q[k]].at
        /\ rows = [k \in 1..n |-> changes[q[k]]]
  BY DEF GetStateChangesSince
<1>. HIDE DEF ids, n, since
<1>5. RowsOf(rows, Len(changes), since)
  BY <1>2, <1>4 DEF RowsOf
<1>6. RowsOf(rows, Len(changes), since)'
  <2>1. Read(Len(changes), since)' = Read(Len(changes), since)
    BY <1>1 DEF Read, since
  <2>. QED BY <1>1, <1>2, <1>4, <2>1 DEF RowsOf
<1>7. RequestTrue'
  <2>1. Len(changes) \in 0..Len(changes)
    BY <1>1, ChangesTyped
  <2>2. since + w <= now /\ since' = since
    BY <1>1 DEF since
  <2>3. /\ request'.w = w /\ request'.rows = rows /\ request'.since = since
        /\ request'.known = Len(changes)
    BY <1>3
  <2>. QED BY <1>1, <1>6, <2>1, <2>2, <2>3 DEF RequestTrue
<1>8. Types' /\ LastSaid'
  BY <1>1 DEF HistoryInv, Types, LastSaid
<1>9. TableTrue'
  BY <1>1 DEF HistoryInv, TableTrue, Unchanged, Newest, Down
<1>10. ReportTrue'
  <2>1. \A t : DownBefore(t)' = DownBefore(t)
    BY <1>1 DEF DownBefore
  <2>. QED BY <1>1, <2>1, ReportKept DEF HistoryInv
<1>. QED BY <1>7, <1>8, <1>9, <1>10 DEF HistoryInv

\* The report is worked out: its figures fit, and are the real ones.
LEMMA HandleKeeps ==
  ASSUME HistoryAssumption, HistoryInv, handleSLAData
  PROVE  HistoryInv'
<1>. DEFINE rows == request.rows
            s == request.since
            w == request.w
            m == request.known
            sla == ComputeSLA(rows, status, w)
<1>1. /\ Types /\ TableTrue /\ request # None /\ request' = None
      /\ now' = now /\ status' = status /\ past' = past /\ changes' = changes
      /\ unsaved' = unsaved
  BY DEF HistoryInv, handleSLAData
<1>2. /\ w \in Windows /\ s \in 0..now /\ s + w <= now /\ m \in 0..Len(changes)
      /\ RowsOf(rows, m, s)
  BY <1>1 DEF HistoryInv, RequestTrue
<1>3. /\ w \in Nat /\ w > 0 /\ now \in Nat /\ status \in Statuses
  BY <1>1, <1>2, WindowTyped DEF Types
<1>4. s \in 0..(now - 1)
  <2>. HIDE DEF s, w
  <2>. QED BY <1>2, <1>3
<1>5. /\ report'.w = w /\ report'.at = now /\ report'.since = s
      /\ report'.upTime = sla.upTime /\ report'.downTime = sla.downTime
      /\ report'.count = sla.count /\ report'.ended = sla.ended /\ report'.total = sla.total
      /\ report'.days = ComputeDailyBreakdown(rows)
      /\ report'.quiet = (rows = <<>>)
      /\ report'.clean => /\ unsaved = <<>> /\ m = Len(changes)
                          /\ IsInjective([i \in DOMAIN changes |-> changes[i].at])
  BY DEF handleSLAData
<1>. HIDE DEF rows, s, w, m
<1>6. PICK n \in Nat : Given(n, rows, m, s)
  <2>1. Types /\ m \in 0..Len(changes) /\ RowsOf(rows, m, s)
    BY <1>1, <1>2
  <2>. QED BY <2>1, RowsTyped
<1>7. rows \in [1..n -> Rows]
  <2>1. [at : 0..now, to : Statuses] \subseteq Rows
    BY <1>3 DEF Rows
  <2>. QED BY <1>6, <2>1 DEF Given
<1>8. OutagesAddUp'
  <2>1. /\ sla.upTime + sla.downTime = w
        /\ rows # <<>> => sla.total = sla.downTime /\ sla.count = sla.ended
    BY <1>3, <1>7, ReportAddsUp
  <2>. HIDE DEF sla
  <2>. QED BY <1>5, <2>1 DEF OutagesAddUp
<1>9. SlaTruth'
  <2>. SUFFICES ASSUME report'.clean
                PROVE  /\ (~DownBefore(s) \/ rows = <<>>)
                            => sla.downTime = TrueDown(now - w, now)
                       /\ ~DownBefore(s) => \A i \in DaysBack : DayStart(i) >= s
                            => ComputeDailyBreakdown(rows)[i] = TrueDown(DayStart(i), DayEnd(i))
    <3>1. /\ \A a, b : TrueDown(a, b)' = TrueDown(a, b)
          /\ \A t : DownBefore(t)' = DownBefore(t)
          /\ \A i : DayStart(i)' = DayStart(i)
      BY <1>1 DEF TrueDown, DownBefore, DayStart
    <3>2. DaysBack' = DaysBack /\ \A i : DayEnd(i)' = DayEnd(i)
      BY <1>1, <3>1 DEF DayEnd, DaysBack
    <3>. HIDE DEF sla
    <3>. QED BY <1>1, <1>5, <3>1, <3>2 DEF SlaTruth
  <2>1. unsaved = <<>> /\ Distinct /\ AllSince(n, rows, s)
    BY <1>5, <1>6 DEF Distinct, IsInjective, Given
  <2>2. (~DownBefore(s) \/ rows = <<>>) => sla.downTime = TrueDown(now - w, now)
    BY <1>1, <1>2, <1>3, <1>4, <2>1, SlaRight
  <2>3. ASSUME ~DownBefore(s), NEW i \in DaysBack, DayStart(i) >= s
        PROVE  ComputeDailyBreakdown(rows)[i] = TrueDown(DayStart(i), DayEnd(i))
    BY <1>1, <1>4, <2>1, <2>3, DayRight DEF ComputeDailyBreakdown
  <2>. QED BY <2>2, <2>3
<1>10. ReportTrue'
  BY <1>1, <1>3, <1>5, <1>8, <1>9 DEF ReportTrue
<1>11. Types' /\ LastSaid' /\ RequestTrue'
  BY <1>1 DEF HistoryInv, Types, LastSaid, RequestTrue
<1>12. TableTrue'
  BY <1>1 DEF TableTrue, Unchanged, Newest, Down
<1>. QED BY <1>10, <1>11, <1>12 DEF HistoryInv

\* No report, nothing to be right.
LEMMA LeaveKeeps ==
  ASSUME HistoryAssumption, HistoryInv, Leave
  PROVE  HistoryInv'
<1>1. /\ now' = now /\ status' = status /\ past' = past /\ changes' = changes
      /\ unsaved' = unsaved /\ request' = request /\ report' = None
  BY DEF Leave
<1>2. Types' /\ LastSaid'
  BY <1>1 DEF HistoryInv, Types, LastSaid
<1>3. TableTrue'
  BY <1>1 DEF HistoryInv, TableTrue, Unchanged, Newest, Down
<1>4. RequestTrue'
  BY <1>1, ChangesTyped, RequestKept DEF HistoryInv, Types
<1>5. ReportTrue'
  BY <1>1 DEF ReportTrue, OutagesAddUp, SlaTruth, Shown
<1>. QED BY <1>2, <1>3, <1>4, <1>5 DEF HistoryInv

\* Nothing happens.
LEMMA StutterKeeps ==
  ASSUME HistoryAssumption, HistoryInv, UNCHANGED historyVars
  PROVE  HistoryInv'
<1>1. /\ now' = now /\ status' = status /\ past' = past /\ changes' = changes
      /\ unsaved' = unsaved /\ request' = request /\ report' = report
  BY DEF historyVars
<1>2. Types' /\ LastSaid'
  BY <1>1 DEF HistoryInv, Types, LastSaid
<1>3. TableTrue'
  BY <1>1 DEF HistoryInv, TableTrue, Unchanged, Newest, Down
<1>4. RequestTrue'
  BY <1>1, ChangesTyped, RequestKept DEF HistoryInv, Types
<1>5. ReportTrue'
  <2>1. \A t : DownBefore(t)' = DownBefore(t)
    BY <1>1 DEF DownBefore
  <2>. QED BY <1>1, <2>1, ReportKept DEF HistoryInv
<1>. QED BY <1>2, <1>3, <1>4, <1>5 DEF HistoryInv

\* The invariant is inductive ...
LEMMA StepInv ==
  ASSUME HistoryAssumption, HistoryInv, [Next]_historyVars
  PROVE  HistoryInv'
<1>1. CASE \E to \in {"UP", "DOWN"} : ChangeStatus(to)
  BY <1>1, ChangeStatusKeeps DEF Statuses
<1>2. CASE Save
  BY <1>2, SaveKeeps
<1>3. CASE Tick
  BY <1>3, TickKeeps
<1>4. CASE \E w \in Windows : Load(w)
  BY <1>4, LoadKeeps
<1>5. CASE handleSLAData
  BY <1>5, HandleKeeps
<1>6. CASE Leave
  BY <1>6, LeaveKeeps
<1>7. CASE UNCHANGED historyVars
  BY <1>7, StutterKeeps
<1>. QED BY <1>1, <1>2, <1>3, <1>4, <1>5, <1>6, <1>7 DEF Next

\* ... and says that the report is right.
LEMMA Right == HistoryInv => SlaTruth /\ OutagesAddUp
BY DEF HistoryInv, ReportTrue

\* sla.go, ComputeSLA and ComputeDailyBreakdown, on the rows the table gives:
\* the downtime of a report and of each of its days is the real one, and the
\* figures of a report fit together, however many changes there were.
THEOREM HistoryProved ==
  ASSUME HistoryAssumption
  PROVE  Spec => [](SlaTruth /\ OutagesAddUp)
<1>1. Init => HistoryInv
  BY InitOk
<1>2. HistoryInv /\ [Next]_historyVars => HistoryInv'
  BY StepInv
<1>3. HistoryInv => SlaTruth /\ OutagesAddUp
  BY Right
<1>. QED BY <1>1, <1>2, <1>3, PTL DEF Spec
=============================================================================
