-------------------------- MODULE SitePoll_proofs --------------------------
(***************************************************************************)
(* A push token leads to its monitor, and no edit changes it that is not   *)
(* overtaken between its two statements: for any database at the start,    *)
(* any number of edits, consoles' writes in any order, restores, and row   *)
(* ids that are given out again.                                           *)
(***************************************************************************)
EXTENDS SitePoll, TLAPS

\* A table of rows.
Table(f) == f \in [DOMAIN f -> Row]

\* A database the store may hold: the sequence has passed the ids, the
\* generator the tokens.
Stored(d) ==
  /\ IsDb(d) /\ Table(d.sites)
  /\ d.lastSite \in Nat /\ d.tokens \in Nat
  /\ \A i \in DOMAIN d.sites : i \in Nat /\ i <= d.lastSite /\ d.sites[i].token <= d.tokens

PollTyped ==
  /\ poll = [pc |-> poll.pc, rows |-> poll.rows, todo |-> poll.todo]
  /\ Table(poll.rows) /\ poll.todo \subseteq DOMAIN poll.rows
FormTyped == form = NoForm \/ (form.row \in Row /\ form.row.token = 0)
CmdTyped(c) ==
  /\ DOMAIN c = {"n", "op", "id", "row", "seen"}
  /\ c.op \in {"update", "write", "add", "pause", "delete"}
  /\ c.row \in Row
  /\ c.op = "write" => c.seen = 0 \/ c.row.token = c.seen
CmdsTyped == \A c \in cmds : CmdTyped(c)

Typed ==
  /\ Stored(db) /\ FirstRows.tokens \in Nat /\ FirstRows.tokens <= db.tokens
  /\ Table(live) /\ PollTyped /\ FormTyped /\ CmdsTyped

\* Every token was generated, for one id: in all the copies of rows there are,
\* and in the writes that have read theirs.
Owned(f, own) ==
  \A i \in DOMAIN f : f[i].token # 0 => f[i].token \in DOMAIN own /\ own[f[i].token] = i

OwnedBy(id, token, own) == token # 0 => token \in DOMAIN own /\ own[token] = id

Owns(own) ==
  /\ own = [t \in 1..db.tokens |-> own[t]]
  /\ \A c \in cmds : c.op = "write" => OwnedBy(c.id, c.row.token, own)
  /\ Owned(FirstRows.sites, own) /\ Owned(db.sites, own)
  /\ Owned(poll.rows, own) /\ Owned(live, own)

Owner == \E own : Owns(own)

\* The index leads to a site with the token, and from every site's token to it.
Indexed(ix, f) ==
  /\ ix \in [DOMAIN ix -> DOMAIN f]
  /\ \A t \in DOMAIN ix : t # 0 /\ f[ix[t]].kind = "push" /\ f[ix[t]].token = t
  /\ \A i \in DOMAIN f : f[i].kind = "push" /\ f[i].token # 0
       => f[i].token \in DOMAIN ix /\ ix[f[i].token] = i

PollInv == Typed /\ Owner /\ Indexed(index, live)

-----------------------------------------------------------------------------
\* What the helpers do to a table.
LEMMA WithTable ==
  ASSUME NEW f, Table(f), NEW id, NEW row \in Row
  PROVE  /\ Table(With(f, id, row))
         /\ \A i : i \in DOMAIN With(f, id, row) <=> i \in DOMAIN f \/ i = id
         /\ With(f, id, row)[id] = row
         /\ \A i \in DOMAIN f : i # id => With(f, id, row)[i] = f[i]
BY DEF Table, With

LEMMA WithoutTable ==
  ASSUME NEW f, Table(f), NEW id
  PROVE  /\ Table(Without(f, id))
         /\ \A i : i \in DOMAIN Without(f, id) <=> i \in DOMAIN f /\ i # id
         /\ \A i \in DOMAIN f : i # id => Without(f, id)[i] = f[i]
BY DEF Table, Without

\* removeFromTokenIndex takes out exactly the tokens of a site.
LEMMA TakenOut ==
  ASSUME NEW ix, NEW f, Table(f), Indexed(ix, f), NEW id
  PROVE  /\ removeFromTokenIndex(ix, id) \in [DOMAIN removeFromTokenIndex(ix, id) -> DOMAIN f]
         /\ \A t : t \in DOMAIN removeFromTokenIndex(ix, id)
                   <=> t \in DOMAIN ix /\ ix[t] # id
         /\ \A t \in DOMAIN ix : ix[t] # id => removeFromTokenIndex(ix, id)[t] = ix[t]
<1>. DEFINE tokens == {t \in DOMAIN ix : ix[t] = id}
<1>1. \A t, u \in tokens : t = u
  BY DEF Indexed
<1>2. CASE tokens = {}
  BY <1>2 DEF removeFromTokenIndex, Indexed
<1>3. CASE tokens # {}
  <2>. DEFINE u == CHOOSE t \in tokens : TRUE
  <2>1. u \in tokens
    BY <1>3
  <2>2. removeFromTokenIndex(ix, id) = [t \in DOMAIN ix \ {u} |-> ix[t]]
    BY <1>3 DEF removeFromTokenIndex, Without
  <2>3. DOMAIN ix \ {u} = {t \in DOMAIN ix : ix[t] # id}
    BY <1>1, <2>1
  <2>. HIDE DEF u
  <2>. QED BY <2>2, <2>3 DEF Indexed
<1>. QED BY <1>2, <1>3

\* RemoveSite keeps the index right.
LEMMA RemoveIndexed ==
  ASSUME Table(live), Indexed(index, live), NEW id, RemoveSite(id)
  PROVE  Indexed(index', live') /\ Table(live')
<1>. DEFINE ix == removeFromTokenIndex(index, id)
<1>1. /\ \A t : t \in DOMAIN ix <=> t \in DOMAIN index /\ index[t] # id
      /\ \A t \in DOMAIN index : index[t] # id => ix[t] = index[t]
      /\ ix \in [DOMAIN ix -> DOMAIN live]
  BY TakenOut
<1>2. /\ Table(live') /\ DOMAIN live' = DOMAIN live \ {id}
      /\ \A i \in DOMAIN live \ {id} : live'[i] = live[i]
  BY WithoutTable DEF RemoveSite
<1>3. index' = ix
  BY DEF RemoveSite
<1>. HIDE DEF ix
<1>4. /\ ix \in [DOMAIN ix -> DOMAIN live']
      /\ \A t \in DOMAIN ix : live'[ix[t]] = live[index[t]] /\ t \in DOMAIN index
  BY <1>1, <1>2 DEF Indexed
<1>5. \A t \in DOMAIN ix : t # 0 /\ live'[ix[t]].kind = "push" /\ live'[ix[t]].token = t
  BY <1>4 DEF Indexed
<1>6. ASSUME NEW i \in DOMAIN live', live'[i].kind = "push", live'[i].token # 0
      PROVE  live'[i].token \in DOMAIN ix /\ ix[live'[i].token] = i
  BY <1>1, <1>2, <1>6 DEF Indexed
<1>7. Indexed(ix, live')
  BY <1>4, <1>5, <1>6 DEF Indexed
<1>. QED BY <1>2, <1>3, <1>7

\* addToTokenIndex on an index without the site, whose token is nobody's.
LEMMA AddIndexed ==
  ASSUME NEW f, Table(f), NEW id, NEW row \in Row, NEW ix,
         ix \in [DOMAIN ix -> DOMAIN f \ {id}],
         \A t \in DOMAIN ix : t # 0 /\ f[ix[t]].kind = "push" /\ f[ix[t]].token = t,
         \A i \in DOMAIN f \ {id} : f[i].kind = "push" /\ f[i].token # 0
           => f[i].token \in DOMAIN ix /\ ix[f[i].token] = i,
         \A i \in DOMAIN f \ {id} : row.token # 0 => f[i].token # row.token
  PROVE  Indexed(addToTokenIndex(ix, id, row), With(f, id, row))
<1>. DEFINE g == With(f, id, row)
            jx == addToTokenIndex(ix, id, row)
<1>1. /\ \A i : i \in DOMAIN g <=> i \in DOMAIN f \/ i = id
      /\ g[id] = row /\ \A i \in DOMAIN f : i # id => g[i] = f[i]
  BY WithTable
<1>. HIDE DEF g
<1>2. CASE row.kind = "push" /\ row.token # 0
  <2>1. jx = [t \in DOMAIN ix \cup {row.token} |-> IF t = row.token THEN id ELSE ix[t]]
    BY <1>2 DEF addToTokenIndex, With
  <2>. HIDE DEF jx
  <2>2. jx \in [DOMAIN jx -> DOMAIN g]
    BY <1>1, <2>1
  <2>3. \A t \in DOMAIN jx : t # 0 /\ g[jx[t]].kind = "push" /\ g[jx[t]].token = t
    BY <1>1, <1>2, <2>1
  <2>4. ASSUME NEW i \in DOMAIN g, g[i].kind = "push", g[i].token # 0
        PROVE  g[i].token \in DOMAIN jx /\ jx[g[i].token] = i
    BY <1>1, <1>2, <2>1, <2>4
  <2>. QED BY <2>2, <2>3, <2>4 DEF Indexed, jx, g
<1>3. CASE ~(row.kind = "push" /\ row.token # 0)
  <2>1. jx = ix
    BY <1>3 DEF addToTokenIndex
  <2>. HIDE DEF jx
  <2>. QED BY <1>1, <1>3, <2>1 DEF Indexed, jx, g
<1>. QED BY <1>2, <1>3
-----------------------------------------------------------------------------
\* UpdateSiteConfig keeps the index right when the new copy's token is no
\* other site's.
LEMMA UpdateIndexed ==
  ASSUME Table(live), Indexed(index, live), NEW id, NEW cfg \in Row,
         \A i \in DOMAIN live \ {id} : cfg.token # 0 => live[i].token # cfg.token,
         UpdateSiteConfig(id, cfg)
  PROVE  /\ Indexed(index', live') /\ Table(live')
         /\ DOMAIN live' = DOMAIN live
         /\ \A i \in DOMAIN live : live'[i] = live[i] \/ (i = id /\ live'[i] = cfg)
<1>1. CASE id \notin DOMAIN live
  BY <1>1 DEF UpdateSiteConfig
<1>2. CASE id \in DOMAIN live
  <2>. DEFINE ix == removeFromTokenIndex(index, id)
  <2>1. live' = With(live, id, cfg) /\ index' = addToTokenIndex(ix, id, cfg)
    BY <1>2 DEF UpdateSiteConfig
  <2>2. /\ \A t : t \in DOMAIN ix <=> t \in DOMAIN index /\ index[t] # id
        /\ \A t \in DOMAIN index : index[t] # id => ix[t] = index[t]
        /\ ix \in [DOMAIN ix -> DOMAIN live]
    BY TakenOut
  <2>. HIDE DEF ix
  <2>3. ix \in [DOMAIN ix -> DOMAIN live \ {id}]
    BY <2>2
  <2>4. \A t \in DOMAIN ix : t # 0 /\ live[ix[t]].kind = "push" /\ live[ix[t]].token = t
    BY <2>2 DEF Indexed
  <2>5. \A i \in DOMAIN live \ {id} : live[i].kind = "push" /\ live[i].token # 0
          => live[i].token \in DOMAIN ix /\ ix[live[i].token] = i
    BY <2>2 DEF Indexed
  <2>6. Indexed(index', live')
    BY <2>1, <2>3, <2>4, <2>5, AddIndexed
  <2>. QED BY <1>2, <2>1, <2>6, WithTable
<1>. QED BY <1>1, <1>2

-----------------------------------------------------------------------------
\* From d to e no row's token changes and one row at most, that of id, gets a
\* token, which is a new one.
Grows(d, e, id) ==
  /\ Stored(e)
  /\ e.tokens = d.tokens \/ e.tokens = d.tokens + 1
  /\ \A i \in DOMAIN e.sites :
       \/ i \in DOMAIN d.sites /\ e.sites[i].token = d.sites[i].token
       \/ e.sites[i].token = 0 /\ i \notin DOMAIN d.sites
       \/ /\ i = id /\ e.tokens = d.tokens + 1 /\ e.sites[i].token = e.tokens
          /\ i \in DOMAIN d.sites => d.sites[i].token = 0

\* What Tokened does to a row's token.
LEMMA TokenedRow ==
  ASSUME NEW d, d.tokens \in Nat, NEW row \in Row
  PROVE  /\ Tokened(d, row).row \in Row
         /\ \/ Tokened(d, row).tokens = d.tokens /\ Tokened(d, row).row.token = row.token
            \/ /\ Tokened(d, row).tokens = d.tokens + 1 /\ row.token = 0
               /\ Tokened(d, row).row.token = d.tokens + 1
<1>. DEFINE fresh == row.kind = "push" /\ row.token = 0
<1>1. CASE fresh
  BY <1>1 DEF Tokened, Row
<1>2. CASE ~fresh
  BY <1>2 DEF Tokened, Row
<1>. QED BY <1>1, <1>2

LEMMA AddGrows ==
  ASSUME NEW d, Stored(d), NEW row \in Row
  PROVE  Grows(d, AddSite(d, row), d.lastSite + 1)
<1>. DEFINE id == d.lastSite + 1
            bare == [row EXCEPT !.token = 0]
            t == Tokened(d, bare)
            e == AddSite(d, row)
<1>1. bare \in Row /\ bare.token = 0 /\ id \in Nat /\ id \notin DOMAIN d.sites /\ d.tokens \in Nat
  BY DEF Row, Stored, Table
<1>. HIDE DEF bare
<1>2. /\ t.row \in Row
      /\ \/ t.tokens = d.tokens /\ t.row.token = 0
         \/ t.tokens = d.tokens + 1 /\ t.row.token = d.tokens + 1
  BY <1>1, TokenedRow
<1>. HIDE DEF t
<1>3. /\ e = [d EXCEPT !.sites = With(d.sites, id, t.row), !.lastSite = id, !.tokens = t.tokens]
  BY DEF AddSite, t, bare
<1>. HIDE DEF e
<1>4. /\ IsDb(e) /\ e.sites = With(d.sites, id, t.row) /\ e.lastSite = id /\ e.tokens = t.tokens
  BY <1>3 DEF Stored, IsDb
<1>5. /\ Table(e.sites) /\ DOMAIN e.sites = DOMAIN d.sites \cup {id}
      /\ e.sites[id] = t.row /\ \A i \in DOMAIN d.sites : e.sites[i] = d.sites[i]
  <2>1. Table(d.sites)
    BY DEF Stored
  <2>. HIDE DEF id
  <2>. DEFINE g == With(d.sites, id, t.row)
  <2>2. /\ Table(g) /\ \A i : i \in DOMAIN g <=> i \in DOMAIN d.sites \/ i = id
        /\ g[id] = t.row /\ \A i \in DOMAIN d.sites : i # id => g[i] = d.sites[i]
    BY <1>1, <1>2, <2>1, WithTable
  <2>. HIDE DEF g
  <2>3. e.sites = g
    BY <1>4 DEF g
  <2>. QED BY <1>1, <2>2, <2>3
<1>6. \A i \in DOMAIN d.sites : i \in Nat /\ d.sites[i].token \in Nat
  BY DEF Stored, Table, Row
<1>7. Stored(e)
  BY <1>1, <1>2, <1>4, <1>5, <1>6 DEF Stored
<1>. QED BY <1>1, <1>2, <1>4, <1>5, <1>7 DEF Grows, e

\* What an update reads: the stored token or, where there is none, maybe a new
\* one, which no row has yet.
LEMMA ReadGrows ==
  ASSUME NEW d, Stored(d), NEW row \in Row, NEW id
  PROVE  LET t == ReadForUpdate(d, id, row)
             e == [d EXCEPT !.tokens = t.tokens]
         IN  /\ Grows(d, e, id) /\ t.row \in Row
             /\ StoredToken(d, id) = 0 \/ t.row.token = StoredToken(d, id)
             /\ \/ t.row.token = StoredToken(d, id)
                \/ e.tokens = d.tokens + 1 /\ t.row.token = e.tokens
<1>. DEFINE kept == [row EXCEPT !.token = StoredToken(d, id)]
            t == ReadForUpdate(d, id, row)
            e == [d EXCEPT !.tokens = t.tokens]
<1>1. StoredToken(d, id) \in Nat /\ d.tokens \in Nat
  BY DEF StoredToken, Stored, Table, Row
<1>2. kept \in Row /\ kept.token = StoredToken(d, id)
  BY <1>1 DEF Row
<1>3. t = Tokened(d, kept)
  BY DEF ReadForUpdate
<1>. HIDE DEF kept, t
<1>4. /\ t.row \in Row
      /\ \/ t.tokens = d.tokens /\ t.row.token = StoredToken(d, id)
         \/ /\ t.tokens = d.tokens + 1 /\ StoredToken(d, id) = 0
            /\ t.row.token = d.tokens + 1
  BY <1>1, <1>2, <1>3, TokenedRow
<1>5. IsDb(e) /\ e.sites = d.sites /\ e.lastSite = d.lastSite /\ e.tokens = t.tokens
  BY DEF Stored, IsDb
<1>. HIDE DEF e
<1>6. \A i \in DOMAIN d.sites : d.sites[i].token \in Nat
  BY DEF Stored, Table, Row
<1>7. Stored(e)
  BY <1>1, <1>4, <1>5, <1>6 DEF Stored
<1>8. Grows(d, e, id)
  BY <1>1, <1>4, <1>5, <1>7 DEF Grows
<1>. QED BY <1>4, <1>5, <1>8 DEF e, t

LEMMA PauseGrows ==
  ASSUME NEW d, Stored(d), NEW p \in BOOLEAN, NEW id
  PROVE  Grows(d, UpdateSitePaused(d, id, p), id)
<1>. DEFINE e == UpdateSitePaused(d, id, p)
<1>1. CASE id \notin DOMAIN d.sites
  BY <1>1 DEF UpdateSitePaused, Grows
<1>2. CASE id \in DOMAIN d.sites
  <2>1. e = [d EXCEPT !.sites[id].paused = p]
    BY <1>2 DEF UpdateSitePaused
  <2>. HIDE DEF e
  <2>2. /\ IsDb(e) /\ e.sites = [d.sites EXCEPT ![id] = [d.sites[id] EXCEPT !.paused = p]]
        /\ e.lastSite = d.lastSite /\ e.tokens = d.tokens
    BY <1>2, <2>1 DEF Stored, IsDb
  <2>3. d.sites[id] \in Row
    BY <1>2 DEF Stored, Table
  <2>4. /\ [d.sites[id] EXCEPT !.paused = p] \in Row
        /\ [d.sites[id] EXCEPT !.paused = p].token = d.sites[id].token
    BY <2>3 DEF Row
  <2>5. /\ Table(e.sites) /\ DOMAIN e.sites = DOMAIN d.sites
        /\ \A i \in DOMAIN d.sites : e.sites[i].token = d.sites[i].token
    BY <1>2, <2>2, <2>4 DEF Stored, Table
  <2>6. Stored(e)
    BY <2>2, <2>5 DEF Stored
  <2>. QED BY <2>2, <2>5, <2>6 DEF Grows, e
<1>. QED BY <1>1, <1>2

LEMMA DeleteGrows ==
  ASSUME NEW d, Stored(d), NEW id
  PROVE  Grows(d, DeleteSite(d, id), id)
<1>. DEFINE e == DeleteSite(d, id)
            rest == Without(d.sites, id)
<1>1. /\ Table(rest) /\ DOMAIN rest = DOMAIN d.sites \ {id}
      /\ \A i \in DOMAIN d.sites \ {id} : rest[i] = d.sites[i]
  BY WithoutTable DEF Stored
<1>. HIDE DEF rest
<1>. DEFINE last == IF rest = <<>> THEN 0 ELSE d.lastSite
<1>2. e = [d EXCEPT !.sites = rest, !.windows = @ \ {id}, !.history = @ \ {id},
                    !.lastSite = last]
  BY DEF DeleteSite, rest
<1>. HIDE DEF e, last
<1>3. IsDb(e) /\ e.sites = rest /\ e.tokens = d.tokens /\ e.lastSite = last
  BY <1>2 DEF Stored, IsDb
<1>4. last \in Nat /\ (rest = <<>> => DOMAIN rest = {})
  BY DEF last, Stored
<1>5. Stored(e)
  BY <1>1, <1>3, <1>4 DEF Stored, last
<1>. QED BY <1>1, <1>3, <1>5 DEF Grows, e

-----------------------------------------------------------------------------
LEMMA InitInv == ASSUME PollAssumption, Init PROVE PollInv
<1>. DEFINE first == FirstRows.sites
            has(t) == \E i \in DOMAIN first : first[i].token = t
            own == [t \in 1..FirstRows.tokens |->
                      IF has(t) THEN CHOOSE i \in DOMAIN first : first[i].token = t ELSE 0]
<1>1. /\ Table(first) /\ \A i \in DOMAIN first : first[i].token \in Nat
      /\ FirstRows.tokens \in Nat /\ FirstRows.lastSite \in Nat
      /\ \A i \in DOMAIN first : i <= FirstRows.lastSite /\ first[i].token <= FirstRows.tokens
  BY DEF PollAssumption, Table, Row
<1>2. Table(<<>>) /\ DOMAIN <<>> = {}
  BY DEF Table
<1>3. Typed
  BY <1>1, <1>2 DEF Init, Typed, Stored, PollAssumption, PollTyped, FormTyped, CmdsTyped, Resting
<1>4. own = [t \in 1..FirstRows.tokens |-> own[t]]
  OBVIOUS
<1>5. Owned(first, own)
  <2>. SUFFICES ASSUME NEW i \in DOMAIN first, first[i].token # 0
                PROVE  first[i].token \in DOMAIN own /\ own[first[i].token] = i
    BY DEF Owned
  <2>. DEFINE t == first[i].token
  <2>1. t \in 1..FirstRows.tokens /\ has(t)
    BY <1>1
  <2>2. (CHOOSE j \in DOMAIN first : first[j].token = t) = i
    BY <2>1 DEF PollAssumption
  <2>. QED BY <2>1, <2>2
<1>. HIDE DEF own
<1>6. Owns(own)
  BY <1>2, <1>4, <1>5 DEF Init, Owns, Owned, Resting
<1>7. Indexed(index, live)
  BY <1>2 DEF Init, Indexed
<1>. QED BY <1>3, <1>6, <1>7 DEF PollInv, Owner

\* A step of the database: the new token, which a row has or an update is to
\* write, gets its owner.
LEMMA DbStep ==
  ASSUME PollInv, NEW id, Grows(db, db', id),
         UNCHANGED <<live, index, poll, form>>, CmdsTyped',
         \A c \in cmds' :
           \/ c \in cmds
           \/ /\ c.id = id
              /\ \/ c.row.token = StoredToken(db, id)
                 \/ db'.tokens = db.tokens + 1 /\ c.row.token = db'.tokens
  PROVE  PollInv' /\ TokensKept
<1>1. PICK own : Owns(own)
  BY DEF PollInv, Owner
<1>2. /\ db.tokens \in Nat /\ db'.tokens \in Nat /\ FirstRows.tokens <= db'.tokens
      /\ db.tokens <= db'.tokens /\ Stored(db')
  BY DEF PollInv, Typed, Stored, Grows
<1>3. PICK new : /\ new = [t \in 1..db'.tokens |-> new[t]]
                 /\ \A t \in DOMAIN own : t \in DOMAIN new /\ new[t] = own[t]
                 /\ db'.tokens = db.tokens + 1
                      => db'.tokens \in DOMAIN new /\ new[db'.tokens] = id
  <2>. DEFINE ext == [t \in 1..db'.tokens |-> IF t \in 1..db.tokens THEN own[t] ELSE id]
  <2>1. ext = [t \in 1..db'.tokens |-> ext[t]]
    OBVIOUS
  <2>2. \A t \in DOMAIN own : t \in DOMAIN ext /\ ext[t] = own[t]
    BY <1>1, <1>2 DEF Owns
  <2>3. db'.tokens = db.tokens + 1 => db'.tokens \in DOMAIN ext /\ ext[db'.tokens] = id
    BY <1>2
  <2>. HIDE DEF ext
  <2>. QED BY <2>1, <2>2, <2>3
<1>4. \A f : Owned(f, own) => Owned(f, new)
  BY <1>3 DEF Owned
<1>5. Owned(db'.sites, new)
  <2>. SUFFICES ASSUME NEW i \in DOMAIN db'.sites, db'.sites[i].token # 0
                PROVE  /\ db'.sites[i].token \in DOMAIN new
                       /\ new[db'.sites[i].token] = i
    BY DEF Owned
  <2>1. CASE i \in DOMAIN db.sites /\ db'.sites[i].token = db.sites[i].token
    BY <1>1, <1>3, <2>1 DEF Owned, Owns
  <2>2. CASE i = id /\ db'.tokens = db.tokens + 1 /\ db'.sites[i].token = db'.tokens
    BY <1>3, <2>2
  <2>. QED BY <2>1, <2>2 DEF Grows
<1>a. ASSUME NEW c \in cmds', c.op = "write" PROVE OwnedBy(c.id, c.row.token, new)
  <2>1. CASE c \in cmds
    BY <1>1, <1>3, <1>a, <2>1 DEF Owns, OwnedBy
  <2>2. CASE c.id = id /\ c.row.token = StoredToken(db, id)
    BY <1>1, <1>3, <2>2 DEF Owns, Owned, OwnedBy, StoredToken
  <2>3. CASE c.id = id /\ db'.tokens = db.tokens + 1 /\ c.row.token = db'.tokens
    BY <1>3, <2>3 DEF OwnedBy
  <2>. QED BY <2>1, <2>2, <2>3
<1>6. Owns(new)'
  BY <1>1, <1>3, <1>4, <1>5, <1>a DEF Owns
<1>7. Typed'
  BY <1>2 DEF PollInv, Typed, PollTyped, FormTyped
<1>8. TokensKept
  BY DEF TokensKept, Grows
<1>. QED BY <1>6, <1>7, <1>8 DEF PollInv, Owner

\* A step of the live copies: each is one of before, without a token, or of a
\* row the poll loop has read.
LEMMA LiveStep ==
  ASSUME PollInv, db' = db, PollTyped', FormTyped', CmdsTyped', poll'.rows = poll.rows,
         \A c \in cmds' : c \in cmds \/ c.op # "write",
         Table(live'), Indexed(index', live'),
         \A i \in DOMAIN live' :
           \/ live'[i].token = 0
           \/ i \in DOMAIN live /\ live'[i].token = live[i].token
           \/ i \in DOMAIN poll.rows /\ live'[i] = poll.rows[i]
  PROVE  PollInv' /\ TokensKept
<1>1. PICK own : Owns(own)
  BY DEF PollInv, Owner
<1>2. Owned(live', own)
  BY <1>1 DEF Owns, Owned
<1>3. Owns(own)'
  BY <1>1, <1>2 DEF Owns
<1>. QED BY <1>3 DEF PollInv, Owner, Typed, TokensKept

-----------------------------------------------------------------------------
\* The poll loop.
LEMMA PollReadInv == ASSUME PollInv, PollRead PROVE PollInv' /\ TokensKept
<1>1. PICK own : Owns(own)
  BY DEF PollInv, Owner
<1>2. Owns(own)'
  BY <1>1 DEF PollRead, Owns
<1>3. Typed'
  BY DEF PollInv, PollRead, Typed, Stored, PollTyped, FormTyped, CmdsTyped
<1>. QED BY <1>2, <1>3 DEF PollInv, Owner, PollRead, TokensKept

\* A live site other than the row's has another token.
LEMMA TokenFree ==
  ASSUME PollInv, NEW id \in DOMAIN poll.rows, poll.rows[id].token # 0
  PROVE  \A i \in DOMAIN live \ {id} : live[i].token # poll.rows[id].token
<1>1. PICK own : Owns(own)
  BY DEF PollInv, Owner
<1>. QED BY <1>1 DEF Owns, Owned

LEMMA PollApplyInv == ASSUME PollInv, PollApply PROVE PollInv' /\ TokensKept
<1>1. PICK id \in poll.todo :
        /\ poll' = [poll EXCEPT !.todo = @ \ {id}]
        /\ IF id \notin DOMAIN live
           THEN /\ live' = With(live, id, poll.rows[id])
                /\ index' = addToTokenIndex(index, id, poll.rows[id])
           ELSE IF live[id] # poll.rows[id] THEN UpdateSiteConfig(id, poll.rows[id])
                                             ELSE UNCHANGED <<live, index>>
        /\ UNCHANGED <<db, form, cmds, edits>>
  BY DEF PollApply
<1>2. /\ poll.rows[id] \in Row /\ id \in DOMAIN poll.rows
      /\ Table(live) /\ Indexed(index, live)
  BY DEF PollInv, Typed, PollTyped, Table
<1>3. \A i \in DOMAIN live \ {id} : poll.rows[id].token # 0
         => live[i].token # poll.rows[id].token
  BY <1>2, TokenFree
<1>4. /\ poll'.rows = poll.rows /\ PollTyped' /\ FormTyped' /\ CmdsTyped' /\ db' = db
      /\ cmds' = cmds
  BY <1>1 DEF PollInv, Typed, PollTyped, FormTyped, CmdsTyped
<1>5. /\ Table(live') /\ Indexed(index', live')
      /\ \A i \in DOMAIN live' : (i \in DOMAIN live /\ live'[i] = live[i])
                                 \/ (i = id /\ live'[i] = poll.rows[id])
  <2>1. CASE id \notin DOMAIN live
    <3>1. index \in [DOMAIN index -> DOMAIN live \ {id}]
      BY <1>2, <2>1 DEF Indexed
    <3>2. Indexed(index', live')
      BY <1>1, <1>2, <1>3, <2>1, <3>1, AddIndexed DEF Indexed
    <3>. DEFINE g == With(live, id, poll.rows[id])
    <3>3. /\ Table(g) /\ \A i : i \in DOMAIN g <=> i \in DOMAIN live \/ i = id
          /\ g[id] = poll.rows[id] /\ \A i \in DOMAIN live : i # id => g[i] = live[i]
      BY <1>2, WithTable
    <3>. HIDE DEF g
    <3>4. live' = g
      BY <1>1, <2>1 DEF g
    <3>. QED BY <2>1, <3>2, <3>3, <3>4
  <2>2. CASE id \in DOMAIN live /\ live[id] # poll.rows[id]
    BY <1>1, <1>2, <1>3, <2>2, UpdateIndexed
  <2>3. CASE id \in DOMAIN live /\ live[id] = poll.rows[id]
    BY <1>1, <1>2, <2>3
  <2>. QED BY <2>1, <2>2, <2>3
<1>. QED BY <1>2, <1>4, <1>5, LiveStep

\* Both the poll loop and the console take sites out.
LEMMA RemoveInv ==
  ASSUME PollInv, NEW id, RemoveSite(id), db' = db, poll' = poll, FormTyped', CmdsTyped',
         \A c \in cmds' : c \in cmds \/ c.op # "write"
  PROVE  PollInv' /\ TokensKept
<1>1. Table(live) /\ Indexed(index, live)
  BY DEF PollInv, Typed
<1>2. Table(live') /\ Indexed(index', live')
  BY <1>1, RemoveIndexed
<1>3. \A i \in DOMAIN live' : i \in DOMAIN live /\ live'[i] = live[i]
  BY <1>1, WithoutTable DEF RemoveSite
<1>4. PollTyped'
  BY DEF PollInv, Typed, PollTyped
<1>. QED BY <1>2, <1>3, <1>4, LiveStep

LEMMA PollSweepInv == ASSUME PollInv, PollSweep PROVE PollInv' /\ TokensKept
<1>1. FormTyped' /\ CmdsTyped' /\ db' = db /\ cmds' = cmds
  BY DEF PollSweep, PollInv, Typed, FormTyped, CmdsTyped
<1>2. CASE DOMAIN live \ DOMAIN poll.rows = {}
  <2>1. poll' = Resting /\ live' = live /\ index' = index
    BY <1>2 DEF PollSweep
  <2>2. Table(<<>>) /\ DOMAIN <<>> = {}
    BY DEF Table
  <2>3. PollTyped'
    BY <2>1, <2>2 DEF PollTyped, Resting
  <2>4. PICK own : Owns(own)
    BY DEF PollInv, Owner
  <2>5. Owns(own)'
    BY <1>1, <2>1, <2>2, <2>4 DEF Owns, Owned, Resting
  <2>. QED BY <1>1, <2>1, <2>3, <2>5 DEF PollInv, Owner, Typed, TokensKept
<1>3. CASE DOMAIN live \ DOMAIN poll.rows # {}
  <2>1. PICK id : RemoveSite(id) /\ UNCHANGED poll
    BY <1>3 DEF PollSweep
  <2>. QED BY <1>1, <2>1, RemoveInv
<1>. QED BY <1>2, <1>3

-----------------------------------------------------------------------------
\* The console.
LEMMA FormInv ==
  ASSUME PollInv, NEW id \in DOMAIN live, OpenForm(id)
  PROVE  PollInv' /\ TokensKept
<1>1. live[id] \in Row
  BY DEF PollInv, Typed, Table
<1>2. FormTyped'
  BY <1>1 DEF OpenForm, FormTyped, Row, Text
<1>3. PollTyped' /\ CmdsTyped' /\ Table(live)' /\ Indexed(index, live)'
  BY DEF OpenForm, PollInv, Typed, PollTyped, CmdsTyped
<1>. QED BY <1>2, <1>3, LiveStep DEF OpenForm

\* The form's copy has no token, so no live site shares it.
LEMMA SubmitInv ==
  ASSUME PollAssumption, PollInv, NEW body \in Bodies, NEW kind \in SiteTypes,
         SubmitEdit(body, kind)
  PROVE  PollInv' /\ TokensKept
<1>. DEFINE cfg == [form.row EXCEPT !.body = body, !.kind = kind]
<1>1. cfg \in Row /\ cfg.token = 0
  BY DEF PollInv, Typed, FormTyped, SubmitEdit, Row, PollAssumption
<1>2. /\ UpdateSiteConfig(form.id, cfg) /\ db' = db /\ poll' = poll /\ form' = NoForm
      /\ cmds' = cmds \cup {[n |-> edits', op |-> "update", id |-> form.id, row |-> cfg,
                          seen |-> 0]}
  BY DEF SubmitEdit, Send
<1>. HIDE DEF cfg
<1>3. Table(live) /\ Indexed(index, live)
  BY DEF PollInv, Typed
<1>4. /\ Indexed(index', live') /\ Table(live') /\ DOMAIN live' = DOMAIN live
      /\ \A i \in DOMAIN live : live'[i] = live[i] \/ (i = form.id /\ live'[i] = cfg)
  BY <1>1, <1>2, <1>3, UpdateIndexed
<1>5. PollTyped' /\ FormTyped' /\ CmdsTyped'
  BY <1>1, <1>2 DEF PollInv, Typed, PollTyped, FormTyped, CmdsTyped, CmdTyped
<1>6. \A c \in cmds' : c \in cmds \/ c.op # "write"
  BY <1>2
<1>. QED BY <1>1, <1>2, <1>4, <1>5, <1>6, LiveStep

\* What Send adds is not yet a write with a token.
LEMMA Sent ==
  ASSUME PollInv, NEW id, NEW row \in Row, NEW op \in {"update", "add", "pause", "delete"},
         Send(op, id, row)
  PROVE  CmdsTyped' /\ \A c \in cmds' : c \in cmds \/ c.op # "write"
<1>1. cmds' = cmds \cup {[n |-> edits', op |-> op, id |-> id, row |-> row, seen |-> 0]}
  BY DEF Send
<1>. QED BY <1>1 DEF PollInv, Typed, CmdsTyped, CmdTyped

LEMMA UnpausedRow == Unpaused \in Row
BY DEF Unpaused, Row, Text

\* Nothing but what is on its way to the database changes.
LEMMA OnlySent ==
  ASSUME PollInv, NEW id, NEW row \in Row, NEW op \in {"update", "add", "pause", "delete"},
         Send(op, id, row), UNCHANGED <<db, live, index, poll, form>>
  PROVE  PollInv' /\ TokensKept
<1>1. CmdsTyped' /\ \A c \in cmds' : c \in cmds \/ c.op # "write"
  BY Sent
<1>2. PollTyped' /\ FormTyped' /\ Table(live)' /\ Indexed(index, live)'
  BY DEF PollInv, Typed, PollTyped, FormTyped
<1>. QED BY <1>1, <1>2, LiveStep

LEMMA NewInv ==
  ASSUME PollInv, NEW row \in Row, SubmitNew(row)
  PROVE  PollInv' /\ TokensKept
BY OnlySent DEF SubmitNew

LEMMA PauseVanishedInv ==
  ASSUME PollInv, NEW id, PauseVanished(id)
  PROVE  PollInv' /\ TokensKept
BY OnlySent, UnpausedRow DEF PauseVanished

\* The pause changes neither the kind nor the token of the live copy.
LEMMA PauseInv ==
  ASSUME PollInv, NEW id \in DOMAIN live, TogglePause(id)
  PROVE  PollInv' /\ TokensKept
<1>. DEFINE copy == [live[id] EXCEPT !.paused = ~@]
<1>1. live[id] \in Row
  BY DEF PollInv, Typed, Table
<1>2. copy \in Row /\ copy.kind = live[id].kind /\ copy.token = live[id].token
  BY <1>1 DEF Row
<1>3. live' = [live EXCEPT ![id] = copy]
  BY DEF TogglePause
<1>. HIDE DEF copy
<1>4. /\ Table(live') /\ DOMAIN live' = DOMAIN live /\ live'[id] = copy
      /\ \A i \in DOMAIN live : live'[i].kind = live[i].kind /\ live'[i].token = live[i].token
  BY <1>2, <1>3 DEF PollInv, Typed, Table
<1>5. Indexed(index', live')
  BY <1>4 DEF PollInv, Indexed, TogglePause
<1>6. CmdsTyped' /\ \A c \in cmds' : c \in cmds \/ c.op # "write"
  BY <1>2, <1>4, Sent DEF TogglePause
<1>7. PollTyped' /\ FormTyped'
  BY DEF TogglePause, PollInv, Typed, PollTyped, FormTyped
<1>. QED BY <1>4, <1>5, <1>6, <1>7, LiveStep DEF TogglePause

LEMMA ConfirmInv ==
  ASSUME PollInv, NEW id, ConfirmDelete(id)
  PROVE  PollInv' /\ TokensKept
<1>1. CmdsTyped' /\ \A c \in cmds' : c \in cmds \/ c.op # "write"
  BY Sent, UnpausedRow DEF ConfirmDelete
<1>2. FormTyped' /\ RemoveSite(id) /\ db' = db /\ poll' = poll
  BY DEF ConfirmDelete, PollInv, Typed, FormTyped
<1>. QED BY <1>1, <1>2, RemoveInv

-----------------------------------------------------------------------------
\* The database.
LEMMA CmdReadsInv ==
  ASSUME PollInv, NEW c \in cmds, CmdReads(c)
  PROVE  PollInv' /\ TokensKept
<1>. DEFINE t == ReadForUpdate(db, c.id, c.row)
            w == [c EXCEPT !.op = "write", !.row = t.row, !.seen = StoredToken(db, c.id)]
<1>1. Stored(db) /\ CmdTyped(c)
  BY DEF PollInv, Typed, CmdsTyped
<1>2. /\ db' = [db EXCEPT !.tokens = t.tokens] /\ cmds' = (cmds \ {c}) \cup {w}
      /\ UNCHANGED <<live, index, poll, form>>
  BY DEF CmdReads
<1>3. /\ Grows(db, db', c.id) /\ t.row \in Row
      /\ StoredToken(db, c.id) = 0 \/ t.row.token = StoredToken(db, c.id)
      /\ \/ t.row.token = StoredToken(db, c.id)
         \/ db'.tokens = db.tokens + 1 /\ t.row.token = db'.tokens
  BY <1>1, <1>2, ReadGrows DEF CmdTyped
<1>. HIDE DEF t
<1>4. /\ DOMAIN w = DOMAIN c /\ w.op = "write" /\ w.id = c.id /\ w.row = t.row
      /\ w.seen = StoredToken(db, c.id)
  BY <1>1 DEF CmdTyped
<1>. HIDE DEF w
<1>5. CmdTyped(w)
  BY <1>1, <1>3, <1>4 DEF CmdTyped
<1>6. CmdsTyped'
  BY <1>2, <1>5 DEF PollInv, Typed, CmdsTyped
<1>. QED BY <1>2, <1>3, <1>4, <1>6, DbStep

\* The row written has the token that was read for it, so only an update that
\* was overtaken changes a token.
LEMMA WriteInv ==
  ASSUME PollInv, NEW c \in cmds, c.op = "write", CmdRuns(c)
  PROVE  PollInv' /\ TokensKept
<1>1. CmdTyped(c) /\ Stored(db) /\ db' = WriteRow(db, c.id, c.row)
  BY DEF PollInv, Typed, CmdsTyped, CmdRuns, Written
<1>2. /\ UNCHANGED <<live, index, poll, form>> /\ cmds' \subseteq cmds
  BY DEF CmdRuns
<1>3. CASE c.id \notin DOMAIN db.sites
  <2>1. db' = db
    BY <1>1, <1>3 DEF WriteRow
  <2>. QED BY <1>2, <2>1 DEF PollInv, Typed, PollTyped, FormTyped, CmdsTyped, Owner, Owns,
                            TokensKept
<1>4. CASE c.id \in DOMAIN db.sites
  <2>1. PICK own : Owns(own)
    BY DEF PollInv, Owner
  <2>2. db' = [db EXCEPT !.sites[c.id] = c.row]
    BY <1>1, <1>4 DEF WriteRow
  <2>3. /\ IsDb(db') /\ db'.sites = [db.sites EXCEPT ![c.id] = c.row]
        /\ db'.lastSite = db.lastSite /\ db'.tokens = db.tokens
    BY <1>1, <2>2 DEF Stored, IsDb
  <2>4. /\ Table(db'.sites) /\ DOMAIN db'.sites = DOMAIN db.sites
        /\ db'.sites[c.id] = c.row
        /\ \A i \in DOMAIN db.sites \ {c.id} : db'.sites[i] = db.sites[i]
    BY <1>1, <1>4, <2>3 DEF Stored, Table, CmdTyped
  <2>5. OwnedBy(c.id, c.row.token, own) /\ c.row.token \in Nat /\ db.tokens \in Nat
    BY <1>1, <2>1 DEF Owns, CmdTyped, Row, Stored
  <2>6. c.row.token <= db.tokens
    BY <2>1, <2>5 DEF OwnedBy, Owns
  <2>7. Stored(db')
    BY <1>1, <2>3, <2>4, <2>6 DEF Stored
  <2>8. Owned(db'.sites, own)
    BY <2>1, <2>4, <2>5 DEF Owned, Owns, OwnedBy
  <2>9. Owns(own)'
    BY <1>2, <2>1, <2>3, <2>8 DEF Owns
  <2>10. Typed'
    BY <1>2, <2>3, <2>7 DEF PollInv, Typed, PollTyped, FormTyped, CmdsTyped
  <2>11. TokensKept
    <3>1. CASE Overtaken(c)
      BY <2>4, <3>1 DEF TokensKept
    <3>2. CASE db.sites[c.id].token = c.seen
      BY <1>1, <2>4, <3>2 DEF TokensKept, CmdTyped
    <3>. QED BY <1>4, <3>1, <3>2 DEF Overtaken
  <2>. QED BY <1>2, <2>9, <2>10, <2>11 DEF PollInv, Owner
<1>. QED BY <1>3, <1>4

LEMMA CmdRunsInv ==
  ASSUME PollInv, NEW c \in cmds, CmdRuns(c)
  PROVE  PollInv' /\ TokensKept
<1>1. /\ Stored(db) /\ c.row \in Row /\ c.row.paused \in BOOLEAN
      /\ c.op \in {"write", "add", "pause", "delete"}
  BY DEF PollInv, Typed, CmdsTyped, CmdTyped, CmdRuns, Row
<1>2. CASE c.op # "write"
  <2>1. \E id : Grows(db, Written(c), id)
    <3>1. CASE c.op = "add"
      BY <1>1, <3>1, AddGrows DEF Written
    <3>2. CASE c.op = "pause"
      BY <1>1, <3>2, PauseGrows DEF Written
    <3>3. CASE c.op = "delete"
      BY <1>1, <3>3, DeleteGrows DEF Written
    <3>. QED BY <1>1, <1>2, <3>1, <3>2, <3>3
  <2>2. /\ CmdsTyped' /\ db' = Written(c) /\ UNCHANGED <<live, index, poll, form>>
        /\ cmds' \subseteq cmds
    BY DEF CmdRuns, PollInv, Typed, CmdsTyped
  <2>. QED BY <2>1, <2>2, DbStep
<1>. QED BY <1>2, WriteInv

LEMMA CmdFailsInv ==
  ASSUME PollInv, NEW c \in cmds, CmdFails(c)
  PROVE  PollInv' /\ TokensKept
<1>1. CmdsTyped' /\ PollTyped' /\ FormTyped' /\ Table(live)' /\ Indexed(index, live)'
  BY DEF CmdFails, PollInv, Typed, CmdsTyped, PollTyped, FormTyped
<1>. QED BY <1>1, LiveStep DEF CmdFails

LEMMA OutsideUpdateInv ==
  ASSUME PollAssumption, PollInv, NEW id \in DOMAIN db.sites, NEW body \in Bodies,
         NEW kind \in SiteTypes, OutsideUpdate(id, body, kind)
  PROVE  PollInv' /\ TokensKept
<1>. DEFINE row == [db.sites[id] EXCEPT !.body = body, !.kind = kind]
<1>1. db.sites[id] \in Row
  BY DEF PollInv, Typed, Stored, Table
<1>2. row \in Row
  BY <1>1 DEF PollAssumption, Row
<1>3. Send("update", id, row) /\ UNCHANGED <<db, live, index, poll, form>>
  BY DEF OutsideUpdate
<1>. HIDE DEF row
<1>. QED BY <1>2, <1>3, OnlySent

LEMMA OutsideDeleteInv ==
  ASSUME PollInv, NEW id, OutsideDelete(id)
  PROVE  PollInv' /\ TokensKept
<1>1. Stored(db)
  BY DEF PollInv, Typed
<1>2. CmdsTyped' /\ UNCHANGED <<live, index, poll, form, cmds>>
  BY DEF OutsideDelete, PollInv, Typed, CmdsTyped
<1>3. Grows(db, db', id)
  BY <1>1, DeleteGrows DEF OutsideDelete
<1>. QED BY <1>2, <1>3, DbStep

\* A restore brings rows of before back, with the tokens that were theirs.
LEMMA RestoreInv ==
  ASSUME PollAssumption, PollInv, Restore(ExportData(FirstRows))
  PROVE  PollInv' /\ TokensKept
<1>. DEFINE first == FirstRows.sites
<1>1. /\ IsDb(db') /\ db'.sites = first /\ db'.lastSite = LargestId(first)
      /\ db'.tokens = db.tokens
  BY DEF Restore, ImportData, ExportData, PollInv, Typed, Stored, IsDb
<1>2. /\ Table(first) /\ \A i \in DOMAIN first : i \in Nat /\ first[i].token \in Nat
      /\ \A i \in DOMAIN first : first[i].token <= FirstRows.tokens
      /\ FirstRows.tokens \in Nat /\ db.tokens \in Nat /\ FirstRows.tokens <= db.tokens
  BY DEF PollAssumption, Table, Row, PollInv, Typed, Stored
<1>3. LargestId(first) \in Nat /\ \A i \in DOMAIN first : i <= LargestId(first)
  BY <1>2 DEF LargestId, PollAssumption
<1>4. Stored(db')
  BY <1>1, <1>2, <1>3 DEF Stored
<1>5. UNCHANGED <<live, index, poll, form, cmds>>
  BY DEF Restore
<1>6. Typed'
  BY <1>1, <1>2, <1>4, <1>5 DEF PollInv, Typed, PollTyped, FormTyped, CmdsTyped
<1>7. PICK own : Owns(own)
  BY DEF PollInv, Owner
<1>8. Owns(own)'
  BY <1>1, <1>5, <1>7 DEF Owns
<1>. QED BY <1>5, <1>6, <1>8 DEF PollInv, Owner, TokensKept

LEMMA RoutineInv ==
  ASSUME PollInv, NEW id, RoutineReturns(id)
  PROVE  PollInv' /\ TokensKept
<1>1. CmdsTyped' /\ PollTyped' /\ FormTyped' /\ Table(live)' /\ Indexed(index, live)'
  BY DEF RoutineReturns, PollInv, Typed, CmdsTyped, PollTyped, FormTyped
<1>. QED BY <1>1, LiveStep DEF RoutineReturns

-----------------------------------------------------------------------------
LEMMA StepInv ==
  ASSUME PollAssumption, PollInv, [Next]_pollVars
  PROVE  PollInv' /\ (TokensKept \/ UNCHANGED pollVars)
<1>1. CASE PollLoop
  BY <1>1, PollReadInv, PollApplyInv, PollSweepInv DEF PollLoop
<1>2. CASE Cmds
  BY <1>2, CmdReadsInv, CmdRunsInv, CmdFailsInv DEF Cmds
<1>3. CASE Console
  <2>1. ASSUME NEW body \in Bodies
        PROVE  [name |-> "new", kind |-> "push", body |-> body, dns |-> "",
                alert |-> 0, parent |-> 0, paused |-> FALSE, token |-> 0] \in Row
    BY DEF PollAssumption, Row, Text
  <2>. QED BY <1>3, <2>1, FormInv, SubmitInv, NewInv, PauseInv, PauseVanishedInv, ConfirmInv
           DEF Console
<1>4. CASE Outside
  BY <1>4, OutsideUpdateInv, OutsideDeleteInv, RestoreInv DEF Outside
<1>5. CASE \E id \in DOMAIN routines : RoutineReturns(id)
  BY <1>5, RoutineInv
<1>6. CASE UNCHANGED pollVars
  BY <1>6 DEF pollVars, PollInv, Typed, PollTyped, FormTyped, CmdsTyped, Owner, Owns, Indexed
<1>. QED BY <1>1, <1>2, <1>3, <1>4, <1>5, <1>6 DEF Next

LEMMA IndexFromInv == PollInv => TokenIndexExact
<1>. SUFFICES ASSUME PollInv PROVE TokenIndexExact
  OBVIOUS
<1>. DEFINE pushing == {j \in DOMAIN live : live[j].kind = "push" /\ live[j].token # 0}
            tokens == {live[i].token : i \in pushing}
            holder(t) == CHOOSE i \in DOMAIN live : live[i].kind = "push" /\ live[i].token = t
<1>1. \A t : t \in DOMAIN index <=> t \in tokens
  BY DEF PollInv, Indexed
<1>2. ASSUME NEW t \in DOMAIN index PROVE index[t] = holder(t)
  <2>1. /\ t # 0 /\ index[t] \in DOMAIN live
        /\ live[index[t]].kind = "push" /\ live[index[t]].token = t
    BY DEF PollInv, Indexed
  <2>2. \A i \in DOMAIN live : live[i].kind = "push" /\ live[i].token = t => index[t] = i
    BY <2>1 DEF PollInv, Indexed
  <2>. QED BY <2>1, <2>2
<1>3. index = [t \in DOMAIN index |-> index[t]]
  BY DEF PollInv, Indexed
<1>4. index = [t \in tokens |-> holder(t)]
  BY <1>1, <1>2, <1>3
<1>. QED BY <1>4 DEF TokenIndexExact

\* A heartbeat's token leads to the push monitor it was handed out for and to
\* no other, however edits, removals, restores and reused ids interleave with
\* the poll loop (addToTokenIndex, removeFromTokenIndex).
THEOREM IndexProved == ASSUME PollAssumption PROVE Spec => []TokenIndexExact
<1>1. Init => PollInv
  BY InitInv
<1>2. PollInv /\ [Next]_pollVars => PollInv'
  BY StepInv
<1>. QED BY <1>1, <1>2, IndexFromInv, PTL DEF Spec

\* No step changes a row's push token but a restore and the second statement
\* of an update that was overtaken (UpdateSite keeps the token it has read).
THEOREM TokenProved == ASSUME PollAssumption PROVE Spec => TokenStable
<1>1. Init => PollInv
  BY InitInv
<1>2. PollInv /\ [Next]_pollVars => PollInv' /\ [TokensKept]_pollVars
  BY StepInv
<1>. QED BY <1>1, <1>2, PTL DEF Spec, TokenStable
=============================================================================
