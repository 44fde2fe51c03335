-------------------------- MODULE Dashboard_proofs --------------------------
(***************************************************************************)
(* The cursor of the list of monitors, for any monitors, filters, sort     *)
(* columns, terminal heights and order of messages: it is on a row         *)
(* whenever there are rows, and on the selected monitor while that is      *)
(* listed.  And the tables on the screen never go back.                    *)
(***************************************************************************)
EXTENDS Dashboard, FiniteSetTheorems, TLAPS

\* The fields of the Model that the list depends on.
Fields == {"list", "cursor", "selected", "reset", "maxRows", "height", "tables",
           "tabSeq"}

Loose(u) ==
  /\ Fields \subseteq DOMAIN u
  /\ u.list \in Seq(Range(u.list))
  /\ u.cursor \in Nat
  /\ u.maxRows \in Nat \ {0}
  /\ u.height \in Int

\* CursorInRange and OnSelection, of one Model.
InRange(u) == u.list # <<>> => u.cursor < Len(u.list)

Selects(u) == u.selected \in Range(u.list) /\ ~u.reset
                => OnRow(u) /\ Row(u) = u.selected

Placed(u) == Loose(u) /\ InRange(u) /\ Selects(u)

\* v has the list, the cursor and the tables of u.
Alike(u, v) ==
  /\ Fields \subseteq DOMAIN v
  /\ v.list = u.list /\ v.cursor = u.cursor
  /\ v.selected = u.selected /\ v.reset = u.reset /\ v.tables = u.tables
             /\ v.tabSeq = u.tabSeq
  /\ v.maxRows \in Nat \ {0} /\ v.height \in Int

LEMMA AlikePlaced ==
  ASSUME NEW u, NEW v, Placed(u), Alike(u, v)
  PROVE  Placed(v) /\ v.tables = u.tables /\ v.tabSeq = u.tabSeq
  BY DEF Placed, Alike, Loose, InRange, Selects, OnRow, Row

-----------------------------------------------------------------------------
(* The helpers.                                                            *)

LEMMA LargerType == \A a, b \in Int : /\ Larger(a, b) \in Int
                                      /\ Larger(a, b) >= a /\ Larger(a, b) >= b
                                      /\ Larger(a, b) \in {a, b}
  BY DEF Larger

LEMMA HalfType ==
  ASSUME Loose(ui) PROVE Half \in Nat \ {0}
  <1>1. ui.maxRows \in Nat
    BY DEF Loose
  <1>2. \A k \in Nat : k \div 2 \in Nat
    BY SMT
  <1> DEFINE h == ui.maxRows \div 2
  <1>3. h \in Nat
    BY <1>1, <1>2
  <1> HIDE DEF h
  <1>4. Larger(1, h) \in Nat \ {0}
    BY <1>3 DEF Larger
  <1>5. QED BY <1>4 DEF Half, h

LEMMA LayoutAlike ==
  ASSUME NEW u, Loose(u)
  PROVE  Alike(u, recalcLayout(u))
  <1>1. u.height \in Int
    BY DEF Loose
  <1>2. Rows(u) \in Nat \ {0}
    BY <1>1 DEF Rows, Larger, Strip
  <1>3. QED BY <1>2 DEF recalcLayout, Alike, Loose, Fields

LEMMA SeqFacts ==
  ASSUME NEW q, q \in Seq(Range(q))
  PROVE  /\ Len(q) \in Nat /\ DOMAIN q = 1..Len(q)
         /\ q = <<>> <=> Len(q) = 0
  OBVIOUS

\* The list is a sequence, however many monitors the filter leaves.
LEMMA SortType ==
  ASSUME NEW e, NEW u, e.live \subseteq Sites
  PROVE  sortSitesForDisplay(e, u) \in Seq(Range(sortSitesForDisplay(e, u)))
  <1> DEFINE S == Listed(e, u)
             n == Cardinality(S)
             q == sortSitesForDisplay(e, u)
  <1>1. S \subseteq Sites
    BY DEF Listed
  <1>2. n \in Nat
    BY <1>1, FS_Subset, FS_CardinalityType, DashboardAssumption
  <1> DEFINE el(i) == CHOOSE s \in S :
                        Cardinality({t \in S \ {s} : Before(e, u, t, s)}) = i - 1
  <1>a. q = [i \in 1..n |-> el(i)]
    BY DEF sortSitesForDisplay
  <1> HIDE DEF n, q, el
  <1>3. q = [i \in 1..n |-> q[i]]
    BY <1>a
  <1>4. \A i \in 1..n : q[i] \in Range(q)
    BY <1>3 DEF Range
  <1>5. q \in Seq(Range(q))
    BY <1>2, <1>3, <1>4
  <1>6. QED BY <1>5 DEF q

\* refreshLive: the CHOOSE is from one value.
LEMMA RefreshIs ==
  ASSUME NEW u, NEW e
  PROVE  refreshLive(u, e) = clampCursor(Follow(u, sortSitesForDisplay(e, u)))
  <1> DEFINE l == sortSitesForDisplay(e, u)
             r == clampCursor(Follow(u, l))
             R == {clampCursor(v) : v \in {Follow(u, k) : k \in {l}}}
  <1>1. R = {r}
    OBVIOUS
  <1>2. refreshLive(u, e) = CHOOSE x \in R : TRUE
    BY DEF refreshLive
  <1> HIDE DEF R, r
  <1>3. (CHOOSE x \in R : TRUE) \in R
    BY <1>1
  <1>4. QED BY <1>1, <1>2, <1>3 DEF r

LEMMA ClampPlaced ==
  ASSUME NEW u, Loose(u), Selects(u)
  PROVE  Placed(clampCursor(u)) /\ clampCursor(u).tables = u.tables
             /\ clampCursor(u).tabSeq = u.tabSeq
  <1> DEFINE c == IF u.list # <<>> /\ u.cursor >= Len(u.list)
                  THEN Len(u.list) - 1 ELSE u.cursor
             v == clampCursor(u)
  <1>1. Len(u.list) \in Nat /\ (u.list = <<>> <=> Len(u.list) = 0)
    BY SeqFacts DEF Loose
  <1>2. c \in Nat /\ (u.list # <<>> => c < Len(u.list))
    BY <1>1 DEF Loose
  <1>3. u.cursor < Len(u.list) => c = u.cursor
    BY <1>1 DEF Loose
  <1> HIDE DEF c
  <1>4. /\ Fields \subseteq DOMAIN v
        /\ v.list = u.list /\ v.cursor = c /\ v.selected = u.selected
        /\ v.reset = u.reset /\ v.maxRows = u.maxRows /\ v.height = u.height
        /\ v.tables = u.tables /\ v.tabSeq = u.tabSeq
    BY DEF clampCursor, Loose, Fields, c
  <1> HIDE DEF v
  <1>5. Placed(v)
    BY <1>1, <1>2, <1>3, <1>4 DEF Placed, Loose, InRange, Selects, OnRow, Row
  <1>6. QED BY <1>4, <1>5 DEF v

LEMMA FollowSelects ==
  ASSUME NEW u, Loose(u), NEW q, q \in Seq(Range(q))
  PROVE  /\ Loose(Follow(u, q)) /\ Selects(Follow(u, q))
         /\ Follow(u, q).tables = u.tables /\ Follow(u, q).tabSeq = u.tabSeq
  <1> DEFINE i == CHOOSE j \in DOMAIN q : q[j] = u.selected
             c == IF u.selected \in Range(q) THEN i - 1 ELSE u.cursor
             v == Follow(u, q)
  <1>1. Len(q) \in Nat /\ DOMAIN q = 1..Len(q)
    BY SeqFacts
  <1>2. u.selected \in Range(q) => i \in 1..Len(q) /\ q[i] = u.selected
    BY <1>1 DEF Range
  <1>3. v = [u EXCEPT !.list = q, !.reset = FALSE, !.cursor = c]
    BY DEF Follow, Loose, Fields
  <1> HIDE DEF i
  <1>4. /\ c \in Nat
        /\ u.selected \in Range(q) => /\ c < Len(q)
                                      /\ q[c + 1] = u.selected
    BY <1>1, <1>2 DEF Loose
  <1> HIDE DEF c, v
  <1>5. /\ Fields \subseteq DOMAIN v
        /\ v.list = q /\ v.cursor = c /\ v.selected = u.selected
        /\ v.maxRows = u.maxRows /\ v.height = u.height /\ v.tables = u.tables
                   /\ v.tabSeq = u.tabSeq
    BY <1>3 DEF Loose, Fields
  <1>6. Loose(v) /\ Selects(v)
    BY <1>4, <1>5 DEF Loose, Selects, OnRow, Row
  <1>7. QED BY <1>5, <1>6 DEF v

LEMMA RefreshPlaced ==
  ASSUME NEW u, Loose(u), NEW e, e.live \subseteq Sites
  PROVE  Placed(refreshLive(u, e)) /\ refreshLive(u, e).tables = u.tables
             /\ refreshLive(u, e).tabSeq = u.tabSeq
  BY RefreshIs, SortType, FollowSelects, ClampPlaced

LEMMA SyncPlaced ==
  ASSUME NEW u, Loose(u), InRange(u)
  PROVE  Placed(syncSelectedID(u)) /\ syncSelectedID(u).tables = u.tables
             /\ syncSelectedID(u).tabSeq = u.tabSeq
  <1> DEFINE v == syncSelectedID(u)
  <1>1. Len(u.list) \in Nat /\ DOMAIN u.list = 1..Len(u.list)
        /\ (u.list = <<>> <=> Len(u.list) = 0)
    BY SeqFacts DEF Loose
  <1>2. CASE OnRow(u)
    <2>1. v = [u EXCEPT !.selected = Row(u)]
      BY <1>2 DEF syncSelectedID
    <2>2. /\ Fields \subseteq DOMAIN v
          /\ v.list = u.list /\ v.cursor = u.cursor /\ v.selected = Row(u)
          /\ v.maxRows = u.maxRows /\ v.height = u.height
          /\ v.tables = u.tables /\ v.tabSeq = u.tabSeq
      BY <2>1 DEF Loose, Fields
    <2> HIDE DEF v
    <2>3. Placed(v)
      BY <1>2, <2>2 DEF Placed, Loose, InRange, Selects, OnRow, Row
    <2>4. QED BY <2>2, <2>3 DEF v
  <1>3. CASE ~OnRow(u)
    <2>1. u.list = <<>>
      BY <1>1, <1>3 DEF OnRow, InRange, Loose
    <2>2. Range(u.list) = {}
      BY <1>1, <2>1 DEF Range
    <2>3. QED BY <1>3, <2>2 DEF syncSelectedID, Placed, Selects
  <1>4. QED BY <1>2, <1>3

-----------------------------------------------------------------------------
(* Moving the cursor.                                                      *)

LEMMA UpToPlaced ==
  ASSUME NEW u, Loose(u), NEW c \in Nat, u.list # <<>> => c < Len(u.list)
  PROVE  Placed(UpTo(u, c)) /\ UpTo(u, c).tables = u.tables /\ UpTo(u, c).tabSeq = u.tabSeq
  <1> DEFINE v == [u EXCEPT !.cursor = c, !.offset = IF c < @ THEN c ELSE @]
  <1>1. Loose(v) /\ InRange(v) /\ v.tables = u.tables /\ v.tabSeq = u.tabSeq
    BY DEF Loose, InRange, Fields
  <1>2. UpTo(u, c) = syncSelectedID(v)
    BY DEF UpTo
  <1> HIDE DEF v
  <1>3. QED BY <1>1, <1>2, SyncPlaced

LEMMA DownToPlaced ==
  ASSUME NEW u, Loose(u), NEW c \in Nat, u.list # <<>> => c < Len(u.list)
  PROVE  Placed(DownTo(u, c)) /\ DownTo(u, c).tables = u.tables
             /\ DownTo(u, c).tabSeq = u.tabSeq
  <1> DEFINE v == [u EXCEPT !.cursor = c,
                     !.offset = IF c >= @ + u.maxRows THEN c - u.maxRows + 1 ELSE @]
  <1>1. Loose(v) /\ InRange(v) /\ v.tables = u.tables /\ v.tabSeq = u.tabSeq
    BY DEF Loose, InRange, Fields
  <1>2. DownTo(u, c) = syncSelectedID(v)
    BY DEF DownTo
  <1> HIDE DEF v
  <1>3. QED BY <1>1, <1>2, SyncPlaced

LEMMA DownOnePlaced ==
  ASSUME NEW u, Loose(u), u.cursor < Len(u.list) - 1
  PROVE  Placed(DownOne(u)) /\ DownOne(u).tables = u.tables /\ DownOne(u).tabSeq = u.tabSeq
  <1> DEFINE v == [u EXCEPT !.cursor = @ + 1,
                     !.offset = IF u.cursor + 1 >= @ + u.maxRows THEN @ + 1 ELSE @]
  <1>1. Len(u.list) \in Nat
    BY SeqFacts DEF Loose
  <1>2. Loose(v) /\ InRange(v) /\ v.tables = u.tables /\ v.tabSeq = u.tabSeq
    BY <1>1 DEF Loose, InRange, Fields
  <1>3. DownOne(u) = syncSelectedID(v)
    BY DEF DownOne
  <1> HIDE DEF v
  <1>4. QED BY <1>2, <1>3, SyncPlaced

-----------------------------------------------------------------------------
(* The loads, and what a key does: it places the list, keeps the tables and *)
(* the loads under way, and takes monitors away at most.                    *)
Loads == {c \in cmds : c.k = "load"}
Engines == [live : SUBSET Sites, broken : SUBSET Sites]

Sound == Placed(ui) /\ engine \in Engines
Calm == db' = db /\ engine' \in Engines
Steady ==
  /\ Placed(ui') /\ ui'.tables = ui.tables
             /\ ui'.tabSeq = ui.tabSeq /\ Loads' = Loads /\ Calm

NoLoad(C) == \A c \in C : c.k # "load"

LEMMA StillCalm == ASSUME Sound, Still PROVE Calm
  BY DEF Sound, Still, World, Calm

LEMMA BecomesSteady ==
  ASSUME NEW u, NEW C, Becomes(u, C), Calm,
         Placed(u), u.tables = ui.tables /\ u.tabSeq = ui.tabSeq, NoLoad(C)
  PROVE  Steady
  <1>1. Loads' = Loads
    BY DEF Loads, Becomes, NoLoad
  <1>2. ui' = u
    BY DEF Becomes
  <1>3. QED BY <1>1, <1>2 DEF Steady

\* A key that leaves the list alone.
LEMMA AlikeSteady ==
  ASSUME Sound, NEW u, NEW C, Becomes(u, C), Calm, Alike(ui, u), NoLoad(C)
  PROVE  Steady
  BY AlikePlaced, BecomesSteady DEF Sound

LEMMA PlainAlike == ASSUME Sound PROVE Alike(ui, Plain)
  BY DEF Sound, Placed, Loose, Fields, Alike, Plain

LEMMA PlainPlaced ==
  ASSUME Sound
  PROVE  Placed(Plain) /\ Plain.tables = ui.tables
             /\ Plain.tabSeq = ui.tabSeq /\ Plain.list = ui.list
         /\ Plain.cursor = ui.cursor
  BY PlainAlike, AlikePlaced DEF Sound, Alike

\* The refreshed list.
LEMMA RefreshSteady ==
  ASSUME NEW u, NEW C, Becomes(refreshLive(u, engine), C),
         engine \in Engines, Calm, Loose(u), u.tables = ui.tables
                    /\ u.tabSeq = ui.tabSeq, NoLoad(C)
  PROVE  Steady
  <1>1. engine.live \subseteq Sites
    BY DEF Engines
  <1>2. QED BY <1>1, RefreshPlaced, BecomesSteady

LEMMA AlikeLoose ==
  ASSUME NEW u, NEW v, Placed(u), Alike(u, v) PROVE Loose(v)
  BY AlikePlaced DEF Placed

LEMMA ShowRowPlaced ==
  ASSUME NEW u, Placed(u)
  PROVE  /\ Placed(ShowRow(u).u) /\ ShowRow(u).u.tables = u.tables
             /\ ShowRow(u).u.tabSeq = u.tabSeq
         /\ NoLoad(ShowRow(u).c)
  <1>1. Alike(u, Showing(u))
    BY DEF Placed, Loose, Fields, Alike, Showing
  <1>2. QED BY <1>1, AlikePlaced DEF ShowRow, NoLoad, Detail

LEMMA JumpSteady ==
  ASSUME Sound, NEW list, NEW m, Placed(list), list.tables = ui.tables
             /\ list.tabSeq = ui.tabSeq,
         Jump(Plain, list, m)
  PROVE  Steady
  <1>1. Calm
    BY StillCalm DEF Jump
  <1>2. CASE On("maint")
    <2> DEFINE v == [Plain EXCEPT !.maint = m]
    <2>1. Alike(ui, v)
      BY PlainAlike DEF Alike, Fields
    <2> HIDE DEF v
    <2>2. Jumped(Plain, list, m) = [u |-> v, c |-> {}]
      BY <1>2 DEF Jumped, v, On
    <2>3. Becomes(v, {})
      BY <2>2 DEF Jump
    <2>4. QED BY <1>1, <2>1, <2>3, AlikeSteady DEF NoLoad
  <1>3. CASE ~On("maint") /\ On("monitors")
    <2>1. Becomes(ShowRow(list).u, ShowRow(list).c)
      BY <1>3 DEF Jump, Jumped, On
    <2>2. QED BY <1>1, <2>1, ShowRowPlaced, BecomesSteady
  <1>4. CASE ~On("maint") /\ ~On("monitors")
    <2>1. Becomes(Plain, {})
      BY <1>4 DEF Jump, Jumped, On
    <2>2. QED BY <1>1, <2>1, PlainAlike, AlikeSteady DEF NoLoad
  <1>5. QED BY <1>2, <1>3, <1>4

-----------------------------------------------------------------------------
(* The keys of the list.                                                   *)

LEMMA TopSteady == ASSUME Sound, jumpToTop PROVE Steady
  <1> DEFINE v == [Plain EXCEPT !.cursor = 0, !.offset = 0]
             w == syncSelectedID(v)
  <1>1. Loose(v) /\ InRange(v) /\ v.tables = ui.tables /\ v.tabSeq = ui.tabSeq
    <2>1. Len(ui.list) \in Nat /\ (ui.list = <<>> <=> Len(ui.list) = 0)
      BY SeqFacts DEF Sound, Placed, Loose
    <2>2. QED BY <2>1, PlainPlaced DEF Placed, Loose, InRange, Fields
  <1> HIDE DEF v
  <1>2. Placed(w) /\ w.tables = ui.tables /\ w.tabSeq = ui.tabSeq
    BY <1>1, SyncPlaced
  <1> HIDE DEF w
  <1>3. Jump(Plain, w, 0)
    BY DEF jumpToTop, w, v
  <1>4. QED BY <1>2, <1>3, JumpSteady

LEMMA BottomSteady == ASSUME Sound, jumpToBottom PROVE Steady
  <1> DEFINE w == IF ui.list = <<>> THEN Plain ELSE DownTo(Plain, Len(ui.list) - 1)
             m == IF Windows = 0 THEN ui.maint ELSE Windows - 1
  <1>1. Placed(w) /\ w.tables = ui.tables /\ w.tabSeq = ui.tabSeq
    <2>1. Len(ui.list) \in Nat /\ (ui.list = <<>> <=> Len(ui.list) = 0)
      BY SeqFacts DEF Sound, Placed, Loose
    <2>2. CASE ui.list = <<>>
      BY <2>2, PlainPlaced
    <2>3. CASE ui.list # <<>>
      <3> DEFINE c == Len(ui.list) - 1
      <3>1. c \in Nat /\ c < Len(ui.list)
        BY <2>1, <2>3
      <3> HIDE DEF c
      <3>2. Placed(DownTo(Plain, c)) /\ DownTo(Plain, c).tables = ui.tables
                 /\ DownTo(Plain, c).tabSeq = ui.tabSeq
        BY <3>1, PlainPlaced, DownToPlaced DEF Placed
      <3>3. QED BY <2>3, <3>2 DEF c
    <2>4. QED BY <2>2, <2>3
  <1> HIDE DEF w, m
  <1>2. Jump(Plain, w, m)
    BY DEF jumpToBottom, w, m
  <1>3. QED BY <1>1, <1>2, JumpSteady

LEMMA PageUpSteady == ASSUME Sound, halfPageUp PROVE Steady
  <1> DEFINE c == Larger(0, ui.cursor - Half)
             w == UpTo(Plain, c)
             m == Larger(0, ui.maint - Half)
  <1>1. ui.cursor \in Nat /\ Half \in Nat /\ Len(ui.list) \in Nat
    BY HalfType, SeqFacts DEF Sound, Placed, Loose
  <1>2. c \in Nat /\ c <= ui.cursor
    BY <1>1 DEF Larger
  <1> HIDE DEF c
  <1>3. ui.list # <<>> => c < Len(ui.list)
    BY <1>1, <1>2 DEF Sound, Placed, InRange
  <1>4. Placed(w) /\ w.tables = ui.tables /\ w.tabSeq = ui.tabSeq
    BY <1>2, <1>3, PlainPlaced, UpToPlaced DEF Placed
  <1> HIDE DEF w, m
  <1>5. Jump(Plain, w, m)
    BY DEF halfPageUp, w, m, c
  <1>6. QED BY <1>4, <1>5, JumpSteady

LEMMA PageDownSteady == ASSUME Sound, halfPageDown PROVE Steady
  <1> DEFINE last == Len(ui.list) - 1
             c == Larger(0, IF ui.cursor + Half > last THEN last ELSE ui.cursor + Half)
             w == DownTo(Plain, c)
             m == IF Windows > 0 /\ ui.maint + Half >= Windows
                  THEN Windows - 1 ELSE ui.maint + Half
  <1>1. ui.cursor \in Nat /\ Half \in Nat /\ Len(ui.list) \in Nat
        /\ (ui.list = <<>> <=> Len(ui.list) = 0)
    BY HalfType, SeqFacts DEF Sound, Placed, Loose
  <1>2. c \in Nat /\ (ui.list # <<>> => c < Len(ui.list))
    BY <1>1 DEF Larger
  <1>5. Jump(Plain, w, m)
    BY DEF halfPageDown
  <1> HIDE DEF c
  <1>4. Placed(w) /\ w.tables = ui.tables /\ w.tabSeq = ui.tabSeq
    BY <1>2, PlainPlaced, DownToPlaced DEF Placed
  <1> HIDE DEF w, m
  <1>6. QED BY <1>4, <1>5, JumpSteady

LEMMA ScrollSteady ==
  ASSUME Sound, NEW to, Becomes(scrollMaintCursor(Plain, to), {}), Calm PROVE Steady
  <1>1. Alike(ui, scrollMaintCursor(Plain, to))
    BY PlainAlike DEF Alike, Fields, scrollMaintCursor
  <1>2. QED BY <1>1, AlikeSteady DEF NoLoad

LEMMA UpSteady == ASSUME Sound, Up PROVE Steady
  <1> DEFINE v == UpTo(Plain, ui.cursor - 1)
  <1>0. Calm
    BY StillCalm DEF Up
  <1>1. CASE On("maint")
    <2>1. Becomes(scrollMaintCursor(Plain, ui.maint - 1), {})
      BY <1>1 DEF Up, On, OnList
    <2>2. QED BY <1>0, <2>1, ScrollSteady
  <1>2. CASE ~On("maint") /\ OnList /\ ui.cursor > 0
    <2>1. Becomes(ShowRow(v).u, ShowRow(v).c)
      BY <1>2 DEF Up
    <2>2. /\ ui.cursor - 1 \in Nat
          /\ ui.list # <<>> => ui.cursor - 1 < Len(ui.list)
      BY <1>2, SeqFacts DEF Sound, Placed, Loose, InRange
    <2>3. Placed(v) /\ v.tables = ui.tables /\ v.tabSeq = ui.tabSeq
      BY <2>2, PlainPlaced, UpToPlaced DEF Placed
    <2> HIDE DEF v
    <2>4. QED BY <1>0, <2>1, <2>3, ShowRowPlaced, BecomesSteady
  <1>3. CASE ~On("maint") /\ ~(OnList /\ ui.cursor > 0)
    <2>1. Becomes(Plain, {})
      BY <1>3 DEF Up
    <2>2. QED BY <1>0, <2>1, PlainAlike, AlikeSteady DEF NoLoad
  <1>4. QED BY <1>1, <1>2, <1>3

LEMMA DownSteady == ASSUME Sound, Down PROVE Steady
  <1> DEFINE v == DownOne(Plain)
  <1>0. Calm
    BY StillCalm DEF Down
  <1>1. CASE On("maint")
    <2>1. Becomes(scrollMaintCursor(Plain, ui.maint + 1), {})
      BY <1>1 DEF Down, On, OnList
    <2>2. QED BY <1>0, <2>1, ScrollSteady
  <1>2. CASE ~On("maint") /\ OnList /\ ui.cursor < Len(ui.list) - 1
    <2>1. Becomes(ShowRow(v).u, ShowRow(v).c)
      BY <1>2 DEF Down
    <2>2. Placed(v) /\ v.tables = ui.tables /\ v.tabSeq = ui.tabSeq
      BY <1>2, PlainPlaced, DownOnePlaced DEF Placed
    <2> HIDE DEF v
    <2>3. QED BY <1>0, <2>1, <2>2, ShowRowPlaced, BecomesSteady
  <1>3. CASE ~On("maint") /\ ~(OnList /\ ui.cursor < Len(ui.list) - 1)
    <2>1. Becomes(Plain, {})
      BY <1>3 DEF Down
    <2>2. QED BY <1>0, <2>1, PlainAlike, AlikeSteady DEF NoLoad
  <1>4. QED BY <1>1, <1>2, <1>3

\* The reply of the detail of the row: no load.
LEMMA DetailNoLoad ==
  ASSUME NEW u, NEW s PROVE NoLoad(detailRefreshCmd(u)) /\ NoLoad({Detail(s)}) /\ NoLoad({})
  BY DEF NoLoad, detailRefreshCmd, Detail

LEMMA WheelSteady == ASSUME Sound, NEW dir, Wheel(dir) PROVE Steady
  <1> DEFINE u == IF dir = "up"
                  THEN IF ui.cursor > 0 THEN UpTo(ui, ui.cursor - 1) ELSE syncSelectedID(ui)
                  ELSE IF ui.cursor < Len(ui.list) - 1 THEN DownOne(ui) ELSE syncSelectedID(ui)
             C == IF u.detailOpen THEN detailRefreshCmd(u) ELSE {}
  <1>1. Becomes(u, C) /\ Still
    BY DEF Wheel
  <1>2. /\ Placed(syncSelectedID(ui)) /\ syncSelectedID(ui).tables = ui.tables
             /\ syncSelectedID(ui).tabSeq = ui.tabSeq
        /\ ui.cursor < Len(ui.list) - 1
             => Placed(DownOne(ui)) /\ DownOne(ui).tables = ui.tables
                        /\ DownOne(ui).tabSeq = ui.tabSeq
    BY SyncPlaced, DownOnePlaced DEF Sound, Placed
  <1>3. ui.cursor > 0 => /\ Placed(UpTo(ui, ui.cursor - 1))
                         /\ UpTo(ui, ui.cursor - 1).tables = ui.tables
                                    /\ UpTo(ui, ui.cursor - 1).tabSeq = ui.tabSeq
    <2>1. ui.cursor > 0 => /\ ui.cursor - 1 \in Nat
                           /\ ui.list # <<>> => ui.cursor - 1 < Len(ui.list)
      BY SeqFacts DEF Sound, Placed, Loose, InRange
    <2>2. QED BY <2>1, UpToPlaced DEF Sound, Placed
  <1>4. Placed(u) /\ u.tables = ui.tables /\ u.tabSeq = ui.tabSeq
    BY <1>2, <1>3
  <1> HIDE DEF u
  <1>5. NoLoad(C)
    BY DetailNoLoad
  <1> HIDE DEF C
  <1>6. QED BY <1>1, <1>4, <1>5, StillCalm, BecomesSteady

LEMMA ClickSteady ==
  ASSUME Sound, NEW i \in 0..Cardinality(Sites), ClickRow(i) PROVE Steady
  <1> DEFINE v == [ui EXCEPT !.focus = "monitors", !.cursor = i]
             u == syncSelectedID(v)
             C == IF u.detailOpen THEN {Detail(Row(u))} ELSE {}
  <1>0. i \in Nat /\ i < Len(ui.list)
    BY FS_CardinalityType, DashboardAssumption DEF ClickRow
  <1>1. Becomes(u, C) /\ Still
    BY DEF ClickRow
  <1>2. Loose(v) /\ InRange(v) /\ v.tables = ui.tables /\ v.tabSeq = ui.tabSeq
    BY <1>0 DEF Sound, Placed, Loose, InRange, Fields
  <1> HIDE DEF v
  <1>3. Placed(u) /\ u.tables = ui.tables /\ u.tabSeq = ui.tabSeq
    BY <1>2, SyncPlaced
  <1> HIDE DEF u
  <1>4. NoLoad(C)
    BY DetailNoLoad
  <1> HIDE DEF C
  <1>5. QED BY <1>1, <1>3, <1>4, StillCalm, BecomesSteady

LEMMA SortSteady == ASSUME Sound, NEW c, NEW asc, Sort(c, asc) PROVE Steady
  <1> DEFINE u == [Plain EXCEPT !.column = c, !.sortAsc = asc]
  <1>1. Alike(ui, u)
    BY PlainAlike DEF Alike, Fields
  <1> HIDE DEF u
  <1>2. Becomes(refreshLive(u, engine), {}) /\ Still
    BY DEF Sort, u
  <1>3. QED BY <1>1, <1>2, AlikeLoose, StillCalm, RefreshSteady DEF Sound, Alike, NoLoad

\* The model with another layout.
LEMMA LayoutSteady ==
  ASSUME Sound, NEW u, Alike(ui, u), NEW C, Becomes(recalcLayout(u), C), Calm, NoLoad(C)
  PROVE  Steady
  <1>1. Placed(u) /\ u.tables = ui.tables /\ u.tabSeq = ui.tabSeq
    BY AlikePlaced DEF Sound
  <1>2. Placed(recalcLayout(u)) /\ recalcLayout(u).tables = u.tables
             /\ recalcLayout(u).tabSeq = u.tabSeq
    BY <1>1, LayoutAlike, AlikePlaced DEF Placed
  <1>3. QED BY <1>1, <1>2, BecomesSteady

LEMMA FilterSteady ==
  ASSUME Sound,
         FilterStart \/ FilterEnter \/ FilterEsc \/ \E on \in BOOLEAN : FilterType(on)
  PROVE  Steady
  <1>1. CASE FilterStart
    <2> DEFINE u == [Plain EXCEPT !.filterMode = TRUE]
    <2>1. Alike(ui, u)
      BY PlainAlike DEF Alike, Fields
    <2> HIDE DEF u
    <2>2. Becomes(recalcLayout(u), {}) /\ Still
      BY <1>1 DEF FilterStart, u
    <2>3. QED BY <2>1, <2>2, StillCalm, LayoutSteady DEF NoLoad
  <1>2. CASE FilterEnter
    <2> DEFINE u == [ui EXCEPT !.filterMode = FALSE]
    <2>1. Alike(ui, u)
      BY DEF Sound, Placed, Loose, Alike, Fields
    <2> HIDE DEF u
    <2>2. Becomes(recalcLayout(u), {}) /\ Still
      BY <1>2 DEF FilterEnter, u
    <2>3. QED BY <2>1, <2>2, StillCalm, LayoutSteady DEF NoLoad
  <1>3. CASE FilterEsc
    <2> DEFINE v == [ui EXCEPT !.filterMode = FALSE, !.filtered = FALSE]
               u == Home(v)
    <2>1. Loose(u) /\ u.tables = ui.tables /\ u.tabSeq = ui.tabSeq
      BY DEF Sound, Placed, Loose, Fields, Home
    <2>2. Becomes(refreshLive(recalcLayout(u), engine), {}) /\ Still
      BY <1>3 DEF FilterEsc
    <2> HIDE DEF u
    <2>3. Loose(recalcLayout(u)) /\ recalcLayout(u).tables = ui.tables
               /\ recalcLayout(u).tabSeq = ui.tabSeq
      BY <2>1, LayoutAlike DEF Alike, Loose
    <2>4. QED BY <2>2, <2>3, StillCalm, RefreshSteady DEF Sound, NoLoad
  <1>4. ASSUME NEW on \in BOOLEAN, FilterType(on) PROVE Steady
    <2> DEFINE u == Home([ui EXCEPT !.filtered = on])
    <2>1. Loose(u) /\ u.tables = ui.tables /\ u.tabSeq = ui.tabSeq
      BY DEF Sound, Placed, Loose, Fields, Home
    <2>2. Becomes(refreshLive(u, engine), {}) /\ Still
      BY <1>4 DEF FilterType
    <2> HIDE DEF u
    <2>3. QED BY <2>1, <2>2, StillCalm, RefreshSteady DEF Sound, NoLoad
  <1>5. QED BY <1>1, <1>2, <1>3, <1>4

LEMMA ResizeSteady == ASSUME Sound, NEW h \in Heights, handleResize(h) PROVE Steady
  <1> DEFINE u == [ui EXCEPT !.height = h]
  <1>1. Alike(ui, u)
    BY DashboardAssumption DEF Sound, Placed, Loose, Alike, Fields
  <1> HIDE DEF u
  <1>2. Becomes(recalcLayout(u), {}) /\ Still
    BY DEF handleResize, u
  <1>3. QED BY <1>1, <1>2, StillCalm, LayoutSteady DEF NoLoad

LEMMA WriteNoLoad == ASSUME NEW op, NEW id PROVE NoLoad({Write(op, id)})
  BY DEF NoLoad, Write

LEMMA CollapseSteady == ASSUME Sound, Collapse PROVE Steady
  <1> DEFINE g == Row(ui)
             u == [Plain EXCEPT !.collapsed = IF g \in @ THEN @ \ {g} ELSE @ \cup {g}]
  <1>1. Alike(ui, u)
    BY PlainAlike DEF Alike, Fields
  <1>2. Becomes(refreshLive(u, engine), {Write("collapsed_groups", 0)}) /\ Still
    BY DEF Collapse
  <1> HIDE DEF u
  <1>3. QED BY <1>1, <1>2, AlikeLoose, StillCalm, RefreshSteady, WriteNoLoad
            DEF Sound, Alike

LEMMA PauseSteady == ASSUME Sound, Pause PROVE Steady
  <1>1. Becomes(refreshLive(Plain, engine), {Write("pause", Row(ui))}) /\ Still
    BY DEF Pause
  <1>2. QED BY <1>1, PlainAlike, AlikeLoose, StillCalm, RefreshSteady, WriteNoLoad
            DEF Sound, Alike

\* A deletion's question and its two answers.
LEMMA AskAlike ==
  ASSUME NEW u, Alike(ui, u), NEW kind, NEW id PROVE Alike(ui, Ask(u, kind, id))
  BY DEF Alike, Fields, Ask

LEMMA BackAlike == ASSUME NEW u, Placed(u) PROVE Alike(u, Back(u))
  BY DEF Placed, Loose, Alike, Fields, Back

LEMMA SelfAlike == ASSUME Sound PROVE Alike(ui, ui)
  BY DEF Sound, Placed, Loose, Alike

LEMMA DeleteSteady == ASSUME Sound, DeleteItem PROVE Steady
  <1>1. Becomes(Ask(Plain, "site", Row(ui)), {}) /\ Still
    BY DEF DeleteItem
  <1>2. QED BY <1>1, PlainAlike, AskAlike, AlikeSteady, StillCalm DEF NoLoad

LEMMA ConfirmSteady == ASSUME Sound, Confirm PROVE Steady
  <1> DEFINE e  == IF ui.doomed.kind = "site"
                   THEN [engine EXCEPT !.live = @ \ {ui.doomed.id}] ELSE engine
             op == [site |-> "deleteSite", maint |-> "deleteMaint",
                    alert |-> "deleteAlert", user |-> "deleteUser"][ui.doomed.kind]
             u  == refreshLive(clampCursor(ui), e)
  <1>1. /\ engine' = e /\ db' = db
        /\ Becomes(Back(u), {Write(op, ui.doomed.id)})
    BY DEF Confirm
  <1>2. e \in Engines
    BY DEF Sound, Engines
  <1> HIDE DEF e, op
  <1>3. Loose(clampCursor(ui)) /\ clampCursor(ui).tables = ui.tables
             /\ clampCursor(ui).tabSeq = ui.tabSeq
    BY ClampPlaced DEF Sound, Placed
  <1>4. Placed(u) /\ u.tables = ui.tables /\ u.tabSeq = ui.tabSeq
    <2>1. e.live \subseteq Sites
      BY <1>2 DEF Engines
    <2>2. QED BY <1>3, <2>1, RefreshPlaced
  <1> HIDE DEF u
  <1>5. Placed(Back(u)) /\ Back(u).tables = ui.tables /\ Back(u).tabSeq = ui.tabSeq
    BY <1>4, BackAlike, AlikePlaced
  <1>6. Calm
    BY <1>1, <1>2 DEF Calm
  <1>7. QED BY <1>1, <1>5, <1>6, WriteNoLoad, BecomesSteady

LEMMA DeclineSteady == ASSUME Sound, Decline PROVE Steady
  BY BackAlike, AlikeSteady, StillCalm DEF Decline, Sound, NoLoad

LEMMA ListSteady == ASSUME Sound, ListKeys PROVE Steady
  <1>1. CASE G1
    <2>1. Alike(ui, [ui EXCEPT !.pendingG = TRUE])
      BY DEF Sound, Placed, Loose, Alike, Fields
    <2>2. QED BY <1>1, <2>1, AlikeSteady, StillCalm DEF G1, NoLoad
  <1>2. QED
    BY <1>1, TopSteady, BottomSteady, PageUpSteady, PageDownSteady, UpSteady,
       DownSteady, WheelSteady, ClickSteady, SortSteady, FilterSteady,
       ResizeSteady, CollapseSteady, PauseSteady, DeleteSteady, ConfirmSteady,
       DeclineSteady, Zenon
    DEF ListKeys

-----------------------------------------------------------------------------
(* The keys of the detail panel and of its reports.                        *)

LEMMA PanelSteady == ASSUME Sound, NEW panel, ClickPanel(panel) PROVE Steady
  <1>1. Alike(ui, [ui EXCEPT !.focus = panel])
    BY DEF Sound, Placed, Loose, Alike, Fields
  <1>2. QED BY <1>1, AlikeSteady, StillCalm DEF ClickPanel, NoLoad

LEMMA EnterSteady == ASSUME Sound, NEW narrow \in BOOLEAN, EnterRow(narrow) PROVE Steady
  <1>1. CASE narrow
    <2> DEFINE u == [Showing(Plain) EXCEPT !.state = "detail"]
    <2>1. Alike(ui, u)
      BY PlainAlike DEF Alike, Fields, Showing
    <2>2. Becomes(u, {Detail(Row(ui))}) /\ Still
      BY <1>1 DEF EnterRow
    <2> HIDE DEF u
    <2>3. QED BY <2>1, <2>2, AlikeSteady, StillCalm, DetailNoLoad
  <1>2. CASE ~narrow
    <2> DEFINE u == [Showing(Plain) EXCEPT !.detailOpen = ~@]
               C == {Write("detail_open", 0)} \cup
                    (IF u.detailOpen THEN {Detail(Row(u))} ELSE {})
    <2>1. Alike(ui, u)
      BY PlainAlike DEF Alike, Fields, Showing
    <2>2. Becomes(recalcLayout(u), C) /\ Still
      BY <1>2 DEF EnterRow
    <2> HIDE DEF u
    <2>3. NoLoad(C)
      BY DEF NoLoad, Write, Detail
    <2> HIDE DEF C
    <2>4. QED BY <2>1, <2>2, <2>3, LayoutSteady, StillCalm
  <1>3. QED BY <1>1, <1>2

LEMMA EscSteady == ASSUME Sound, Esc PROVE Steady
  <1>0. Calm
    BY StillCalm DEF Esc
  <1> DEFINE a == [Plain EXCEPT !.focus = "monitors"]
             b == [Plain EXCEPT !.detailOpen = FALSE]
  <1>1. Alike(ui, a) /\ Alike(ui, b) /\ Alike(ui, Showing(Plain))
    BY PlainAlike DEF Alike, Fields, Showing
  <1>2. \/ Becomes(a, {}) \/ Becomes(Showing(Plain), {}) \/ Becomes(Plain, {})
        \/ Becomes(recalcLayout(b), {Write("detail_open", 0)})
    BY DEF Esc
  <1> HIDE DEF a, b
  <1>3. QED
    BY <1>0, <1>1, <1>2, PlainAlike, AlikeSteady, LayoutSteady, WriteNoLoad, DetailNoLoad

LEMMA DetailSteady == ASSUME Sound, DetailKeys PROVE Steady
  <1>1. CASE DetailEsc
    <2>1. Alike(ui, [Plain EXCEPT !.state = "dashboard", !.focus = "monitors"])
      BY PlainAlike DEF Alike, Fields
    <2>2. QED BY <1>1, <2>1, AlikeSteady, StillCalm DEF DetailEsc, NoLoad
  <1>2. QED BY <1>1, ClickSteady, PanelSteady, EnterSteady, EscSteady, UpSteady, DownSteady
            DEF DetailKeys

LEMMA SlaSteady == ASSUME Sound, NEW site, NEW p, Sla(site, p) PROVE Steady
  <1> DEFINE u == [Plain EXCEPT !.sla = <<site, p>>, !.mode = "sla"]
             C == {[k |-> "sla", of |-> <<site, p>>]}
  <1>1. Alike(ui, u)
    BY PlainAlike DEF Alike, Fields
  <1>2. NoLoad(C)
    BY DEF NoLoad
  <1>3. Becomes(u, C) /\ Still
    BY DEF Sla
  <1> HIDE DEF u, C
  <1>4. QED BY <1>1, <1>2, <1>3, AlikeSteady, StillCalm

LEMMA ReportSteady == ASSUME Sound, ReportKeys PROVE Steady
  <1>1. CASE History
    <2> DEFINE u == [Plain EXCEPT !.history = Row(ui), !.historyOf = 0, !.mode = "history"]
               C == {[k |-> "history", site |-> Row(ui)]}
    <2>1. Alike(ui, u)
      BY PlainAlike DEF Alike, Fields
    <2>2. NoLoad(C)
      BY DEF NoLoad
    <2>3. Becomes(u, C) /\ Still
      BY <1>1 DEF History
    <2> HIDE DEF u, C
    <2>4. QED BY <2>1, <2>2, <2>3, AlikeSteady, StillCalm
  <1>2. QED BY <1>1, UpSteady, DownSteady, SlaSteady DEF ReportKeys, SlaOpen, SlaPeriod

-----------------------------------------------------------------------------
(* The keys of the forms, the settings and the maintenance panel.          *)

LEMMA OpenedAlike ==
  ASSUME NEW u, Alike(ui, u), NEW form, NEW id PROVE Alike(ui, Opened(u, form, id))
  BY DEF Alike, Fields, Opened

LEMMA FormSteady ==
  ASSUME Sound, NewItem \/ EditItem \/ NewMaint \/ FormEsc \/ FormDone PROVE Steady
  <1>1. CASE NewItem \/ EditItem \/ NewMaint
    BY <1>1, PlainAlike, OpenedAlike, AlikeSteady, StillCalm
    DEF NewItem, EditItem, NewMaint, NoLoad
  <1>2. CASE FormEsc
    BY <1>2, BackAlike, AlikeSteady, StillCalm DEF FormEsc, Sound, NoLoad
  <1>3. CASE FormDone
    <2> DEFINE u  == IF ui.form \in {"alert", "user"} THEN Back(ui)
                     ELSE [ui EXCEPT !.state = "dashboard", !.form = ""]
               op == [site |-> "saveSite", alert |-> "saveAlert",
                      user |-> "saveUser", maint |-> "saveMaint"][ui.form]
    <2>1. /\ Becomes(refreshLive(u, engine), {Write(op, ui.editID)})
          /\ db' = db /\ engine' = engine
      BY <1>3 DEF FormDone
    <2>2. Alike(ui, [ui EXCEPT !.state = "dashboard", !.form = ""])
      BY DEF Sound, Placed, Loose, Alike, Fields
    <2>3. Alike(ui, u)
      BY <2>2, BackAlike DEF Sound
    <2> HIDE DEF u, op
    <2>4. Calm
      BY <2>1 DEF Calm, Sound
    <2>5. Loose(u) /\ u.tables = ui.tables /\ u.tabSeq = ui.tabSeq
      BY <2>3, AlikeLoose DEF Sound, Alike
    <2>6. QED BY <2>1, <2>4, <2>5, RefreshSteady, WriteNoLoad DEF Sound
  <1>4. QED BY <1>1, <1>2, <1>3

LEMMA SetToSteady == ASSUME Sound, NEW c, SetTo(c) PROVE Steady
  <1> DEFINE u == [Plain EXCEPT !.setCursor = c,
                     !.setOffset = IF c < @ THEN c ELSE IF c >= @ + ui.maxRows
                                   THEN c - ui.maxRows + 1 ELSE @]
  <1>1. Alike(ui, u)
    BY PlainAlike DEF Alike, Fields
  <1>2. Becomes(u, {}) /\ Still
    BY DEF SetTo
  <1> HIDE DEF u
  <1>3. QED BY <1>1, <1>2, AlikeSteady, StillCalm DEF NoLoad

LEMMA SettingsPageDownSteady == ASSUME Sound, SettingsPageDown PROVE Steady
  <1> DEFINE c == ui.setCursor + Half
             to == IF c > LastItem THEN LastItem ELSE c
             u == [Plain EXCEPT !.setCursor = to,
                     !.setOffset = IF to >= @ + ui.maxRows THEN to - ui.maxRows + 1 ELSE @]
  <1>1. Becomes(u, {}) /\ Still
    BY DEF SettingsPageDown
  <1> HIDE DEF to
  <1>2. Alike(ui, u)
    BY PlainAlike DEF Alike, Fields
  <1> HIDE DEF u
  <1>3. QED BY <1>1, <1>2, AlikeSteady, StillCalm DEF NoLoad

\* Another section puts the cursor back to the top and marks the list `reset'.
LEMMA SectionSteady == ASSUME Sound, NEW s, Section(s) PROVE Steady
  <1> DEFINE u == [Home(Plain) EXCEPT !.section = s, !.setCursor = 0, !.setOffset = 0,
                                      !.reset = TRUE]
  <1>1. Len(ui.list) \in Nat /\ (ui.list = <<>> <=> Len(ui.list) = 0)
    BY SeqFacts DEF Sound, Placed, Loose
  <1>2. Placed(u) /\ u.tables = ui.tables /\ u.tabSeq = ui.tabSeq
    BY <1>1, PlainPlaced DEF Placed, Loose, InRange, Selects, Fields, Home
  <1>3. Becomes(u, {}) /\ Still
    BY DEF Section
  <1> HIDE DEF u
  <1>4. QED BY <1>2, <1>3, BecomesSteady, StillCalm DEF NoLoad

LEMMA FromSettingsAlike == ASSUME Sound PROVE Alike(ui, FromSettings)
  BY PlainAlike DEF Alike, Fields, FromSettings

LEMMA SettingsItemSteady ==
  ASSUME Sound, \/ SettingsNew \/ SettingsInfo
                \/ \E id \in Items \cup {0} : SettingsEdit(id) \/ SettingsDelete(id)
  PROVE  Steady
  <1>1. CASE SettingsNew
    <2>1. Alike(ui, [FromSettings EXCEPT !.editID = 0])
      BY FromSettingsAlike DEF Alike, Fields
    <2>2. Alike(ui, Opened(FromSettings, FormOf, 0))
      BY FromSettingsAlike, OpenedAlike
    <2>3. Still /\ (\/ Becomes([FromSettings EXCEPT !.editID = 0], {})
                    \/ Becomes(Opened(FromSettings, FormOf, 0), {}))
      BY <1>1 DEF SettingsNew
    <2>4. QED BY <2>1, <2>2, <2>3, AlikeSteady, StillCalm DEF NoLoad
  <1>2. CASE SettingsInfo
    <2>1. Alike(ui, [FromSettings EXCEPT !.state = "alert"])
      BY FromSettingsAlike DEF Alike, Fields
    <2>2. QED BY <1>2, <2>1, AlikeSteady, StillCalm DEF SettingsInfo, NoLoad
  <1>3. ASSUME NEW id, NEW u, Alike(ui, u), SettingsOn(id, u) PROVE Steady
    BY <1>3, FromSettingsAlike, AlikeSteady, StillCalm DEF SettingsOn, NoLoad
  <1>4. ASSUME NEW id \in Items \cup {0}, SettingsEdit(id) PROVE Steady
    BY <1>3, <1>4, FromSettingsAlike, OpenedAlike DEF SettingsEdit
  <1>5. ASSUME NEW id \in Items \cup {0}, SettingsDelete(id) PROVE Steady
    BY <1>3, <1>5, FromSettingsAlike, AskAlike DEF SettingsDelete
  <1>6. QED BY <1>1, <1>2, <1>4, <1>5

LEMMA SettingsSteady == ASSUME Sound, SettingsKeys PROVE Steady
  <1>1. CASE OpenSettings
    <2>1. Alike(ui, [Plain EXCEPT !.setCursor = 0, !.setOffset = 0, !.state = "settings"])
      BY PlainAlike DEF Alike, Fields
    <2>2. QED BY <1>1, <2>1, AlikeSteady, StillCalm DEF OpenSettings, NoLoad
  <1>2. CASE SettingsEsc
    <2>1. Alike(ui, [Plain EXCEPT !.state = "dashboard"])
      BY PlainAlike DEF Alike, Fields
    <2>2. QED BY <1>2, <2>1, AlikeSteady, StillCalm DEF SettingsEsc, NoLoad
  <1>3. CASE SettingsTop
    <2>1. Alike(ui, [Plain EXCEPT !.setCursor = 0, !.setOffset = 0])
      BY PlainAlike DEF Alike, Fields
    <2>2. QED BY <1>3, <2>1, AlikeSteady, StillCalm DEF SettingsTop, NoLoad
  <1>4. CASE SettingsG
    <2>1. Alike(ui, [ui EXCEPT !.pendingG = TRUE])
      BY SelfAlike DEF Alike, Fields
    <2>2. QED BY <1>4, <2>1, AlikeSteady, StillCalm DEF SettingsG, NoLoad
  <1>5. CASE AlertEsc
    <2>1. Alike(ui, [ui EXCEPT !.state = Home2(ui)])
      BY SelfAlike DEF Alike, Fields
    <2>2. QED BY <1>5, <2>1, AlikeSteady, StillCalm DEF AlertEsc, NoLoad
  <1>6. CASE TestAlert
    BY <1>6, PlainAlike, AlikeSteady, StillCalm DEF TestAlert, NoLoad
  <1>7. CASE SettingsEnd \/ SettingsUp \/ SettingsDown \/ SettingsPageUp
    BY <1>7, SetToSteady DEF SettingsEnd, SettingsUp, SettingsDown, SettingsPageUp
  <1>8. QED
    BY <1>1, <1>2, <1>3, <1>4, <1>5, <1>6, <1>7, SectionSteady, SettingsPageDownSteady,
       SettingsItemSteady, FormSteady, ConfirmSteady, DeclineSteady, Zenon
    DEF SettingsKeys

LEMMA BottomPanelSteady == ASSUME Sound, NEW panel, Bottom(panel) PROVE Steady
  <1> DEFINE open == ui.bottom # panel
             u == [Plain EXCEPT !.bottom = IF open THEN panel ELSE "none",
                                !.focus = IF open THEN panel ELSE "monitors"]
  <1>1. Alike(ui, u)
    BY PlainAlike DEF Alike, Fields
  <1>2. Becomes(recalcLayout(u), {Write("bottom_panel", 0)}) /\ Still
    BY DEF Bottom
  <1> HIDE DEF u
  <1>3. QED BY <1>1, <1>2, LayoutSteady, StillCalm, WriteNoLoad

LEMMA EndWindowSteady == ASSUME Sound, NEW w, EndWindow(w) PROVE Steady
  <1> DEFINE u == [ui EXCEPT !.state = "dashboard", !.focus = "maint",
                             !.pendingG = IF On("maint") THEN FALSE ELSE @]
  <1>1. Alike(ui, u)
    BY SelfAlike DEF Alike, Fields
  <1>2. /\ Becomes(refreshLive(u, engine), {Write("endMaint", w)})
        /\ db' = db /\ engine' = engine
    BY DEF EndWindow
  <1> HIDE DEF u
  <1>3. Calm
    BY <1>2 DEF Calm, Sound
  <1>4. Loose(u) /\ u.tables = ui.tables /\ u.tabSeq = ui.tabSeq
    BY <1>1, AlikeLoose DEF Sound, Alike
  <1>5. QED BY <1>2, <1>3, <1>4, RefreshSteady, WriteNoLoad DEF Sound

LEMMA WindowSteady == ASSUME Sound, WindowKeys PROVE Steady
  <1>1. ASSUME NEW i \in 0..1, ClickWindow(i) PROVE Steady
    <2>1. Alike(ui, [ui EXCEPT !.focus = "maint", !.maint = i])
      BY SelfAlike DEF Alike, Fields
    <2>2. QED BY <1>1, <2>1, AlikeSteady, StillCalm DEF ClickWindow, NoLoad
  <1>2. CASE LogsOpen
    <2>1. Alike(ui, [Plain EXCEPT !.state = "logs"])
      BY PlainAlike DEF Alike, Fields
    <2>2. QED BY <1>2, <2>1, AlikeSteady, StillCalm DEF LogsOpen, NoLoad
  <1>3. CASE LogsEsc
    <2>1. Alike(ui, [Plain EXCEPT !.state = "dashboard", !.focus = "monitors"])
      BY PlainAlike DEF Alike, Fields
    <2>2. QED BY <1>3, <2>1, AlikeSteady, StillCalm DEF LogsEsc, NoLoad
  <1>4. CASE Theme
    BY <1>4, PlainAlike, AlikeSteady, StillCalm, WriteNoLoad DEF Theme
  <1>5. CASE WindowEsc
    <2>1. Alike(ui, [ui EXCEPT !.state = "dashboard", !.focus = "maint"])
      BY SelfAlike DEF Alike, Fields
    <2>2. QED BY <1>5, <2>1, AlikeSteady, StillCalm DEF WindowEsc, NoLoad
  <1>6. ASSUME NEW w, MaintEnter(w) PROVE Steady
    <2>1. Alike(ui, [Plain EXCEPT !.state = "window", !.editID = w])
      BY PlainAlike DEF Alike, Fields
    <2>2. QED BY <1>6, <2>1, AlikeSteady, StillCalm DEF MaintEnter, NoLoad
  <1>7. ASSUME NEW w, DeleteWindow(w) PROVE Steady
    BY <1>7, SelfAlike, AskAlike, AlikeSteady, StillCalm DEF DeleteWindow, NoLoad
  <1>8. QED
    BY <1>1, <1>2, <1>3, <1>4, <1>5, <1>6, <1>7, BottomPanelSteady, UpSteady, DownSteady,
       PageDownSteady, PanelSteady, EscSteady, EndWindowSteady, FormSteady, ConfirmSteady,
       DeclineSteady, Zenon
    DEF WindowKeys

-----------------------------------------------------------------------------
(* The loads of the tables.  Once two loads have been issued after Init's,  *)
(* only the load issued last is the newest; what it has read is no older    *)
(* than what is on the screen, for the screen shows what an earlier one     *)
(* read.                                                                    *)
Tables == [version : Nat, alerts : SUBSET Nat, users : SUBSET Nat, windows : SUBSET Nat]

LoadTypes ==
  [k : {"load"}, init : BOOLEAN, newest : BOOLEAN, read : {FALSE}]
  \cup [k : {"load"}, init : BOOLEAN, newest : BOOLEAN, read : {TRUE}, ok : {FALSE}]
  \cup [k : {"load"}, init : BOOLEAN, newest : BOOLEAN, read : {TRUE}, ok : {TRUE},
        got : Tables]

Answered(c) == c.read /\ c.ok

LoadsInOrder ==
  /\ db \in Tables
  /\ ui.tables.version \in Nat /\ ui.tables.version <= db.version
  /\ ui.tabSeq \in {0, 1, 2}
  /\ Loads \subseteq LoadTypes
  /\ \A c \in Loads : Answered(c) => c.got.version <= db.version
  /\ ui.tabSeq = 2 =>
       /\ \A c, d \in Loads : c.newest /\ d.newest => c = d
       /\ \A c \in Loads : Answered(c) /\ c.newest => c.got.version >= ui.tables.version

DashInv == Sound /\ LoadsInOrder

\* A step, seen from the tables: the screen's never go back.
Forward == DashInv' /\ (ui'.tables.version >= ui.tables.version \/ ui.tabSeq = 1)

LEMMA SteadyForward == ASSUME DashInv, Steady PROVE Forward
  <1>1. /\ Placed(ui') /\ ui'.tables = ui.tables /\ ui'.tabSeq = ui.tabSeq /\ Loads' = Loads
        /\ db' = db /\ engine' \in Engines
    BY DEF Steady, Calm
  <1>2. Sound'
    BY <1>1 DEF Sound
  <1>3. LoadsInOrder'
    BY <1>1 DEF DashInv, LoadsInOrder
  <1>4. ui'.tables.version >= ui.tables.version
    BY <1>1 DEF DashInv, LoadsInOrder
  <1>5. QED BY <1>2, <1>3, <1>4 DEF Forward, DashInv

\* A new load, after which all the others are old ones, Init's excepted when
\* it is the first one after it.
LEMMA WithLoadIs ==
  ASSUME NEW K, NEW seq, cmds' = WithLoad(seq, K), {x \in K : x.k = "load"} = Loads,
         Loads \subseteq LoadTypes
  PROVE  Loads' = {IF seq = 0 THEN c ELSE Older(c) : c \in Loads} \cup {Load}
  <1>1. \A c \in LoadTypes : c.k = "load" /\ Older(c).k = "load"
    BY DEF LoadTypes, Older
  <1>2. cmds' = {IF seq = 0 THEN c ELSE Older(c) : c \in Loads}
                \cup {x \in K : x.k # "load"} \cup {Load}
    BY DEF WithLoad
  <1>3. Loads' = {x \in cmds' : x.k = "load"}
    BY DEF Loads
  <1>4. Load.k = "load"
    BY DEF Load
  <1>5. QED BY <1>1, <1>2, <1>3, <1>4

LEMMA ReloadForward ==
  ASSUME DashInv, NEW u, NEW K, loadTabDataCmd(u, K), {x \in K : x.k = "load"} = Loads,
         Placed(u), u.tables = ui.tables, u.tabSeq = ui.tabSeq, Calm
  PROVE  Forward
  <1> DEFINE to(c) == IF u.tabSeq = 0 THEN c ELSE Older(c)
  <1>1. Loads \subseteq LoadTypes /\ db \in Tables
    BY DEF DashInv, LoadsInOrder
  <1>2. Loads' = {to(c) : c \in Loads} \cup {Load}
    BY <1>1, WithLoadIs DEF loadTabDataCmd
  <1>3. \A c \in LoadTypes : /\ Older(c) \in LoadTypes /\ ~Older(c).newest
                             /\ Answered(Older(c)) => Answered(c) /\ Older(c).got = c.got
    BY DEF LoadTypes, Answered, Older
  <1>4. Load \in LoadTypes /\ ~Answered(Load)
    BY DEF Load, LoadTypes, Answered
  <1>5. /\ Placed(ui') /\ ui'.tables = ui.tables
        /\ ui'.tabSeq = (IF ui.tabSeq = 0 THEN 1 ELSE 2)
    <2>1. ui' = [u EXCEPT !.tabSeq = IF @ = 0 THEN 1 ELSE 2]
      BY DEF loadTabDataCmd
    <2>2. /\ Fields \subseteq DOMAIN ui'
          /\ ui'.list = u.list /\ ui'.cursor = u.cursor /\ ui'.selected = u.selected
          /\ ui'.reset = u.reset /\ ui'.maxRows = u.maxRows /\ ui'.height = u.height
          /\ ui'.tables = u.tables /\ ui'.tabSeq = (IF ui.tabSeq = 0 THEN 1 ELSE 2)
      BY <2>1 DEF Placed, Loose, Fields
    <2>3. QED BY <2>2 DEF Placed, Loose, InRange, Selects, OnRow, Row
  <1>6. Sound' /\ db' = db
    BY <1>5 DEF Calm, Sound
  <1>7. LoadsInOrder'
    <2>1. Loads' \subseteq LoadTypes
      BY <1>1, <1>2, <1>3, <1>4
    <2>2. \A c \in Loads' : Answered(c) => c.got.version <= db.version
      <3>1. \A c \in Loads : Answered(to(c)) => to(c).got.version <= db.version
        BY <1>1, <1>3 DEF DashInv, LoadsInOrder
      <3>2. QED BY <1>2, <1>4, <3>1
    <2>3. ui'.tabSeq = 2 => \A c \in Loads' : c.newest => c = Load
      <3>1. ui'.tabSeq = 2 => u.tabSeq # 0
        BY <1>5
      <3>2. QED BY <1>1, <1>2, <1>3, <3>1
    <2>4. ui'.tabSeq = 2 =>
            /\ \A c, d \in Loads' : c.newest /\ d.newest => c = d
            /\ \A c \in Loads' : Answered(c) /\ c.newest
                                    => c.got.version >= ui.tables.version
      BY <1>4, <2>3
    <2>5. QED BY <1>5, <1>6, <2>1, <2>2, <2>4 DEF DashInv, LoadsInOrder
  <1>8. QED BY <1>5, <1>6, <1>7 DEF Forward, DashInv, LoadsInOrder

LEMMA TickForward == ASSUME DashInv, handleTick PROVE Forward
  <1> DEFINE u == refreshLive(ui, engine)
  <1>1. Placed(u) /\ u.tables = ui.tables /\ u.tabSeq = ui.tabSeq
    <2>1. engine.live \subseteq Sites
      BY DEF DashInv, Sound, Engines
    <2>2. QED BY <2>1, RefreshPlaced DEF DashInv, Sound, Placed
  <1>2. Calm
    BY DEF handleTick, DashInv, Sound, World, Calm
  <1>3. \/ Becomes(u, {})
        \/ loadTabDataCmd(u, cmds \cup detailRefreshCmd(u))
    BY DEF handleTick
  <1> HIDE DEF u
  <1>4. CASE Becomes(u, {})
    BY <1>1, <1>2, <1>4, BecomesSteady, SteadyForward DEF NoLoad
  <1>5. CASE loadTabDataCmd(u, cmds \cup detailRefreshCmd(u))
    <2> DEFINE K == cmds \cup detailRefreshCmd(u)
    <2>1. {x \in K : x.k = "load"} = Loads
      BY DetailNoLoad DEF NoLoad, Loads
    <2> HIDE DEF K
    <2>2. QED BY <1>1, <1>2, <1>5, <2>1, ReloadForward DEF K
  <1>6. QED BY <1>3, <1>4, <1>5

LEMMA DoneForward == ASSUME DashInv, NEW c \in cmds, writeDone(c) PROVE Forward
  <1> DEFINE u == refreshLive(ui, engine)
             K == cmds \ {c}
  <1>1. Placed(u) /\ u.tables = ui.tables /\ u.tabSeq = ui.tabSeq
    <2>1. engine.live \subseteq Sites
      BY DEF DashInv, Sound, Engines
    <2>2. QED BY <2>1, RefreshPlaced DEF DashInv, Sound, Placed
  <1>2. Calm
    BY DEF writeDone, DashInv, Sound, World, Calm
  <1>3. loadTabDataCmd(u, K)
    BY DEF writeDone
  <1>4. {x \in K : x.k = "load"} = Loads
    BY DEF Loads, writeDone
  <1> HIDE DEF u, K
  <1>5. QED BY <1>1, <1>2, <1>3, <1>4, ReloadForward

\* A load ends: n is what becomes of c, none when its reply is handled.
LEMMA ReadForward ==
  ASSUME DashInv, NEW c \in Loads, NEW n \in LoadTypes, n.newest = c.newest,
         Answered(n) => n.got = db,
         Loads' = (Loads \ {c}) \cup {n}, ui' = ui, db' = db, engine' = engine
  PROVE  Forward
  <1>1. Sound'
    BY DEF DashInv, Sound
  <1>2. ui.tabSeq = 2 => \A x, y \in Loads' : x.newest /\ y.newest => x = y
    BY DEF DashInv, LoadsInOrder
  <1>3. Loads' \subseteq LoadTypes
    BY DEF DashInv, LoadsInOrder
  <1>4. \A x \in Loads' : Answered(x) =>
          /\ x.got.version <= db.version
          /\ ui.tabSeq = 2 /\ x.newest => x.got.version >= ui.tables.version
    <2>1. db.version \in Nat /\ ui.tables.version \in Nat /\ ui.tables.version <= db.version
      BY DEF DashInv, LoadsInOrder, Tables
    <2>2. Answered(n) => /\ n.got.version <= db.version
                         /\ n.got.version >= ui.tables.version
      BY <2>1
    <2>3. QED BY <2>2 DEF DashInv, LoadsInOrder
  <1>5. LoadsInOrder'
    BY <1>2, <1>3, <1>4 DEF DashInv, LoadsInOrder
  <1>6. QED BY <1>1, <1>5 DEF Forward, DashInv, LoadsInOrder

LEMMA LoadReadsForward == ASSUME DashInv, NEW c \in cmds, LoadReads(c) PROVE Forward
  <1> DEFINE n == [k |-> "load", init |-> c.init, newest |-> c.newest, read |-> TRUE,
                   ok |-> TRUE, got |-> db]
  <1>1. c \in Loads /\ c \in LoadTypes
    BY DEF LoadReads, Loads, DashInv, LoadsInOrder
  <1>2. n \in LoadTypes /\ n.newest = c.newest /\ n.got = db
    BY <1>1 DEF LoadTypes, DashInv, LoadsInOrder
  <1>3. Loads' = (Loads \ {c}) \cup {n}
    BY DEF LoadReads, Loads
  <1>4. ui' = ui /\ db' = db /\ engine' = engine
    BY DEF LoadReads, World
  <1> HIDE DEF n
  <1>5. QED BY <1>1, <1>2, <1>3, <1>4, ReadForward

LEMMA LoadFailsForward == ASSUME DashInv, NEW c \in cmds, LoadFails(c) PROVE Forward
  <1> DEFINE n == [k |-> "load", init |-> c.init, newest |-> c.newest, read |-> TRUE,
                   ok |-> FALSE]
  <1>1. c \in Loads /\ c \in LoadTypes
    BY DEF LoadFails, Loads, DashInv, LoadsInOrder
  <1>2. n \in LoadTypes /\ n.newest = c.newest /\ ~Answered(n)
    BY <1>1 DEF LoadTypes, Answered
  <1>3. Loads' = (Loads \ {c}) \cup {n}
    BY DEF LoadFails, Loads
  <1>4. ui' = ui /\ db' = db /\ engine' = engine
    BY DEF LoadFails, World
  <1> HIDE DEF n
  <1>5. QED BY <1>1, <1>2, <1>3, <1>4, ReadForward

LEMMA TabDataForward == ASSUME DashInv, NEW c \in cmds, handleTabData(c) PROVE Forward
  <1>0. c \in Loads /\ c \in LoadTypes /\ c.read
    BY DEF handleTabData, Loads, DashInv, LoadsInOrder
  <1>1. Loads' = Loads \ {c}
    BY DEF handleTabData, Loads
  <1>2. db' = db /\ engine' = engine
    BY DEF handleTabData, World
  <1>3. CASE ~Takes(c)
    <2>1. ui' = ui
      BY <1>3 DEF handleTabData
    <2>2. QED BY <1>1, <1>2, <2>1 DEF Forward, DashInv, Sound, LoadsInOrder
  <1>4. CASE Takes(c)
    <2> DEFINE t == [c.got EXCEPT !.users = IF ui.admin THEN @ ELSE {}]
               u == [ui EXCEPT !.tables = t]
    <2>1. ui' = clampCursor(u)
      BY <1>4 DEF handleTabData
    <2>2. c.newest /\ Answered(c) /\ ui.tabSeq \in {1, 2}
      BY <1>0, <1>4 DEF Takes, Answered, DashInv, LoadsInOrder
    <2>3. c.got \in Tables
      BY <1>0, <2>2 DEF LoadTypes, Answered
    <2>4. t.version = c.got.version /\ t.version \in Nat
      BY <2>3 DEF Tables
    <2> HIDE DEF t
    <2>5. Loose(u) /\ Selects(u) /\ u.tables = t /\ u.tabSeq = ui.tabSeq
      BY DEF DashInv, Sound, Placed, Loose, Selects, OnRow, Row, Fields
    <2> HIDE DEF u
    <2>6. Placed(ui') /\ ui'.tables = t /\ ui'.tabSeq = ui.tabSeq
      BY <2>1, <2>5, ClampPlaced
    <2>7. t.version <= db.version /\ (ui.tabSeq = 2 => t.version >= ui.tables.version)
      BY <1>0, <2>2, <2>4 DEF DashInv, LoadsInOrder
    <2>8. Sound'
      BY <1>2, <2>6 DEF DashInv, Sound
    <2>9. LoadsInOrder'
      <3>1. ui.tabSeq = 2 => \A d \in Loads' : ~d.newest
        BY <1>0, <1>1, <2>2 DEF DashInv, LoadsInOrder
      <3>2. \A d \in Loads' : Answered(d) => d.got.version <= db'.version
        BY <1>1, <1>2 DEF DashInv, LoadsInOrder
      <3>3. Loads' \subseteq LoadTypes /\ db' \in Tables
        BY <1>1, <1>2 DEF DashInv, LoadsInOrder
      <3>4. ui'.tables.version \in Nat /\ ui'.tables.version <= db'.version
        BY <1>2, <2>4, <2>6, <2>7
      <3>5. QED BY <2>2, <2>6, <3>1, <3>2, <3>3, <3>4 DEF LoadsInOrder
    <2>10. QED BY <2>2, <2>6, <2>7, <2>8, <2>9 DEF Forward, DashInv
  <1>5. QED BY <1>3, <1>4

\* The replies of the panels: they change what is shown of a monitor.
LEMMA PanelsForward ==
  ASSUME DashInv, NEW c \in cmds, DetailArrives(c) \/ HistoryArrives(c) \/ handleSLAData(c)
  PROVE  Forward
  <1>1. Loads' = Loads
    BY DEF DetailArrives, HistoryArrives, handleSLAData, Loads
  <1>2. Calm
    BY DEF DetailArrives, HistoryArrives, handleSLAData, World, DashInv, Sound, Calm
  <1>3. /\ Alike(ui, ui)
        /\ Alike(ui, [ui EXCEPT !.detailOf = c.site])
        /\ \A rows : /\ Alike(ui, [ui EXCEPT !.historyOf = rows])
                     /\ Alike(ui, [ui EXCEPT !.slaOf = rows])
    BY DEF DashInv, Sound, Placed, Loose, Alike, Fields
  <1>4. \/ ui' = ui
        \/ ui' = [ui EXCEPT !.detailOf = c.site]
        \/ \E rows : \/ ui' = [ui EXCEPT !.historyOf = rows]
                     \/ ui' = [ui EXCEPT !.slaOf = rows]
    BY DEF DetailArrives, HistoryArrives, handleSLAData
  <1>5. Alike(ui, ui')
    BY <1>3, <1>4
  <1>6. Placed(ui') /\ ui'.tables = ui.tables /\ ui'.tabSeq = ui.tabSeq
    BY <1>5, AlikePlaced DEF DashInv, Sound
  <1>7. QED BY <1>1, <1>2, <1>6, SteadyForward DEF Steady

\* The database moves on behind the loads under way.
LEMMA NewerForward ==
  ASSUME DashInv, ui' = ui, Loads' = Loads, engine' = engine,
         db' \in Tables, db'.version >= db.version
  PROVE  Forward
  <1>1. Sound'
    BY DEF DashInv, Sound
  <1>2. db.version \in Nat /\ db'.version \in Nat
    BY DEF DashInv, LoadsInOrder, Tables
  <1>3. \A c \in Loads : Answered(c) => c.got.version \in Nat
    BY DEF DashInv, LoadsInOrder, LoadTypes, Answered, Tables
  <1>4. LoadsInOrder'
    BY <1>2, <1>3 DEF DashInv, LoadsInOrder
  <1>5. QED BY <1>1, <1>4 DEF Forward, DashInv, LoadsInOrder

LEMMA WriteForward == ASSUME DashInv, NEW c \in cmds, WriteRuns(c) PROVE Forward
  <1>1. db \in Tables
    BY DEF DashInv, LoadsInOrder
  <1>2. Loads' = Loads
    BY DEF WriteRuns, Loads
  <1>3. Written(c) \in Tables /\ Written(c).version >= db.version
    <2> DEFINE next == [db EXCEPT !.version = @ + 1]
    <2>1. next \in Tables /\ next.version >= db.version
      BY <1>1 DEF Tables
    <2> HIDE DEF next
    <2>2. \/ Written(c) = [next EXCEPT !.alerts = @ \ {c.id}]
          \/ Written(c) = [next EXCEPT !.users = @ \ {c.id}]
          \/ Written(c) = [next EXCEPT !.windows = @ \ {c.id}]
          \/ Written(c) = [next EXCEPT !.alerts = @ \cup {1}]
          \/ Written(c) = [next EXCEPT !.users = @ \cup {1}]
          \/ Written(c) = [next EXCEPT !.windows = @ \cup {2}]
          \/ Written(c) = db
      BY DEF Written, next
    <2>3. QED BY <1>1, <2>1, <2>2 DEF Tables
  <1>4. db' \in Tables /\ db'.version >= db.version
    BY <1>1, <1>3 DEF WriteRuns, Tables
  <1>5. ui' = ui /\ engine' = engine
    BY DEF WriteRuns
  <1>6. QED BY <1>2, <1>4, <1>5, NewerForward

LEMMA OutsideForward ==
  ASSUME DashInv, EngineChanges \/ TablesChange \/ UserLeaves PROVE Forward
  <1>1. CASE EngineChanges
    <2>1. engine' \in Engines
      BY <1>1 DEF EngineChanges, DashInv, Sound, Engines
    <2>2. ui' = ui /\ db' = db /\ Loads' = Loads
      BY <1>1 DEF EngineChanges, Loads
    <2>3. QED BY <2>1, <2>2, SteadyForward DEF Steady, Calm, DashInv, Sound
  <1>2. CASE TablesChange
    <2>1. db' \in Tables /\ db'.version >= db.version
      <3>1. PICK gone \in SUBSET {1} :
              db' = [db EXCEPT !.version = @ + 1, !.alerts = {1} \ gone,
                               !.windows = {1, 2} \ gone]
        BY <1>2 DEF TablesChange
      <3>2. db \in Tables
        BY DEF DashInv, LoadsInOrder
      <3>3. /\ db.version + 1 \in Nat /\ db.version + 1 >= db.version
            /\ {1} \ gone \in SUBSET Nat /\ {1, 2} \ gone \in SUBSET Nat
        BY <3>2 DEF Tables
      <3>4. QED BY <3>1, <3>2, <3>3 DEF Tables
    <2>2. ui' = ui /\ engine' = engine /\ Loads' = Loads
      BY <1>2 DEF TablesChange, Loads
    <2>3. QED BY <2>1, <2>2, NewerForward
  <1>3. CASE UserLeaves
    <2>1. ui' = ui /\ db' = db /\ engine' = engine /\ Loads' = Loads
      BY <1>3 DEF UserLeaves, Loads
    <2>2. QED BY <2>1, SteadyForward DEF Steady, Calm, DashInv, Sound
  <1>4. QED BY <1>1, <1>2, <1>3

-----------------------------------------------------------------------------
(* The invariant.                                                          *)

LEMMA InitInv == Init => DashInv
  <1>1. SUFFICES ASSUME Init PROVE DashInv
    OBVIOUS
  <1>2. Placed(ui) /\ ui.tables.version = 0 /\ ui.tabSeq = 0
    <2>1. PICK h \in Heights :
            /\ ui.list = <<>> /\ ui.cursor = 0 /\ ui.maxRows = 5 /\ ui.height = h
            /\ ui.tables.version = 0 /\ ui.tabSeq = 0 /\ Fields \subseteq DOMAIN ui
      <3>1. PICK admin \in BOOLEAN, h \in Heights, bottom \in {"none", "logs", "maint"} :
              ui = InitialModel(admin, h, bottom)
        BY <1>1 DEF Init
      <3>2. QED BY <3>1 DEF InitialModel, Fields
    <2>2. h \in Int
      BY DashboardAssumption
    <2>4. Range(ui.list) = {} /\ ui.list \in Seq(Range(ui.list))
      BY <2>1 DEF Range
    <2>5. QED BY <2>1, <2>2, <2>4 DEF Placed, Loose, InRange, Selects
  <1>3. engine \in Engines
    BY <1>1, DashboardAssumption DEF Init, Engines
  <1>4. db \in Tables /\ db.version = 0
    <2>1. db = [version |-> 0, alerts |-> {1}, users |-> {1}, windows |-> {1}]
      BY <1>1 DEF Init
    <2>2. 0 \in Nat /\ {1} \in SUBSET Nat
      OBVIOUS
    <2>3. QED BY <2>1, <2>2 DEF Tables
  <1> DEFINE first == [Load EXCEPT !.init = TRUE]
  <1>5. Loads = {first} /\ first \in LoadTypes /\ ~Answered(first)
    <2>1. cmds = {first}
      BY <1>1 DEF Init
    <2>2. first.k = "load" /\ first \in LoadTypes /\ ~Answered(first)
      BY DEF Load, LoadTypes, Answered
    <2>3. QED BY <2>1, <2>2 DEF Loads
  <1>6. QED BY <1>2, <1>3, <1>4, <1>5 DEF DashInv, Sound, LoadsInOrder

LEMMA StepForward == DashInv /\ Next => Forward
  <1>1. SUFFICES ASSUME DashInv, Next PROVE Forward
    OBVIOUS
  <1>2. Sound
    BY <1>1 DEF DashInv
  <1>3. CASE ListKeys \/ DetailKeys \/ ReportKeys \/ SettingsKeys \/ WindowKeys
    BY <1>1, <1>2, <1>3, ListSteady, DetailSteady, ReportSteady, SettingsSteady,
       WindowSteady, SteadyForward
  <1>4. ASSUME NEW k \in CmdKinds, Replies(k) PROVE Forward
    BY <1>1, <1>4, LoadReadsForward, TabDataForward, PanelsForward, WriteForward,
       DoneForward, Zenon
    DEF Replies
  <1>5. ASSUME NEW c \in cmds, LoadFails(c) PROVE Forward
    BY <1>1, <1>5, LoadFailsForward
  <1>6. QED
    BY <1>1, <1>3, <1>4, <1>5, OutsideForward, TickForward DEF Next

LEMMA StutterForward == DashInv /\ UNCHANGED dashVars => Forward
  BY DEF dashVars, DashInv, Sound, LoadsInOrder, Loads, Forward

LEMMA SpecSafety == Spec => Init /\ [][Next]_dashVars
  BY PTL DEF Spec

LEMMA DashInvariant == Spec => []DashInv
  <1>1. DashInv /\ [Next]_dashVars => DashInv'
    BY StepForward, StutterForward DEF Forward
  <1>2. QED BY InitInv, SpecSafety, <1>1, PTL

-----------------------------------------------------------------------------
(* What follows from it.                                                   *)

\* There is a row under the cursor whenever there are rows, whatever removals,
\* filters, collapsed groups and clicks did to the list and the cursor.
THEOREM CursorOnRow == Spec => []CursorInRange
  <1>1. DashInv => CursorInRange
    <2>1. SUFFICES ASSUME DashInv PROVE CursorInRange
      OBVIOUS
    <2>2. /\ ui.cursor \in Nat /\ Len(ui.list) \in Nat
          /\ ui.list # <<>> => ui.cursor < Len(ui.list)
      <3>1. Loose(ui) /\ InRange(ui)
        BY <2>1 DEF DashInv, Sound, Placed
      <3>2. QED BY <3>1, SeqFacts DEF Loose, InRange
    <2>3. QED BY <2>2 DEF CursorInRange
  <1>2. QED BY <1>1, DashInvariant, PTL

\* A key acts on the monitor the user selected, as long as it is listed.
THEOREM CursorOnSelection == Spec => []OnSelection
  <1>1. DashInv => OnSelection
    BY DEF DashInv, Sound, Placed, Selects, OnSelection
  <1>2. QED BY <1>1, DashInvariant, PTL

\* The tables on the screen never go back to an older state of the database,
\* in whatever order the loads that overlap read and reply, once the first tick
\* and the next reload have issued loads whose numbers differ from Init's.
THEOREM TablesGoForward == Spec => TablesNeverGoBack
  <1>1. DashInv /\ [Next]_dashVars 
          => [ui'.tables.version >= ui.tables.version \/ ui.tabSeq = 1]_dashVars
    BY StepForward DEF Forward
  <1>2. QED BY <1>1, DashInvariant, SpecSafety, PTL DEF TablesNeverGoBack
=============================================================================
