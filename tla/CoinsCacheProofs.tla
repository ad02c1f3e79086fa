-------------------------- MODULE CoinsCacheProofs --------------------------
(* Theorems about CoinsCache, for any sets of transactions, outputs and     *)
(* blocks.                                                                  *)
EXTENDS CoinsCache, TLAPS

-----------------------------------------------------------------------------
\* What the operations on one cache do to its fields.

LEMMA EmptyFields ==
  ASSUME NEW h \in Hash \cup {NoHash}
  PROVE  /\ Empty(h) \in Cache
         /\ WellFormed(Empty(h))
         /\ Empty(h).have = {} /\ Empty(h).dirty = {} /\ Empty(h).fresh = {}
         /\ Empty(h).best = h
BY DEF Empty, NoCoins, Cache, Coins, WellFormed

LEMMA FetchTipFields ==
  ASSUME TypeOK, NEW t \in TxId
  PROVE  /\ FetchTip(t) \in Cache
         /\ t \in tip.have \/ ~ DbHas(t) => FetchTip(t) = tip
         /\ t \notin tip.have /\ DbHas(t) =>
              /\ FetchTip(t).have = tip.have \cup {t}
              /\ FetchTip(t).dirty = tip.dirty /\ FetchTip(t).best = tip.best
              /\ FetchTip(t).fresh = tip.fresh
              /\ FetchTip(t).coins[t] = db.coins[t]
              /\ \A s \in TxId \ {t} : FetchTip(t).coins[s] = tip.coins[s]
BY DEF TypeOK, FetchTip, FetchCoins, DbHas, Cache, Coins

FetchView(t) == FetchCoins(view, t, TipHas(t), TipRead(t))

LEMMA FetchViewFields ==
  ASSUME TypeOK, NEW t \in TxId
  PROVE  /\ FetchView(t) \in Cache
         /\ t \in view.have \/ ~ TipHas(t) => FetchView(t) = view
         /\ t \notin view.have /\ TipHas(t) =>
              /\ FetchView(t).have = view.have \cup {t}
              /\ FetchView(t).dirty = view.dirty /\ FetchView(t).best = view.best
              /\ TipRead(t) = {} => FetchView(t).fresh = view.fresh \cup {t}
              /\ TipRead(t) # {} => FetchView(t).fresh = view.fresh
              /\ FetchView(t).coins[t] = TipRead(t)
              /\ \A s \in TxId \ {t} : FetchView(t).coins[s] = view.coins[s]
<1>1. TipRead(t) \in SUBSET Output
  BY DEF TypeOK, Cache, Coins, TipRead
<1> QED BY <1>1 DEF TypeOK, FetchView, FetchCoins, Cache, Coins

-----------------------------------------------------------------------------
\* Reading pulls an entry in and changes nothing that is visible.
Reads(t) == tip' = tip \/ tip' = FetchTip(t)

LEMMA ReadTypes ==
  ASSUME TypeOK
  PROVE  /\ TipBest \in Hash
         /\ \A t \in TxId : /\ TipRead(t) \in SUBSET Output
                            /\ ViewRead(t) \in SUBSET Output
                            /\ TipHas(t) \in BOOLEAN /\ DbHas(t) \in BOOLEAN
BY DEF TypeOK, Cache, Coins, TipBest, TipRead, ViewRead, TipHas, DbHas

LEMMA FetchTipSafe ==
  ASSUME CacheInv, NEW t \in TxId, UNCHANGED db, Reads(t)
  PROVE  /\ tip' \in Cache /\ WellFormed(tip')
         /\ tip.have \subseteq tip'.have /\ tip'.best = tip.best
         /\ \A s \in TxId : TipRead(s)' = TipRead(s)
         /\ \A s \in tip'.fresh : db.coins[s] = {}
         /\ \A s \in tip'.have \ tip'.dirty : tip'.coins[s] = db.coins[s]
         /\ tip' = FetchTip(t) /\ DbHas(t) => t \in tip'.have
<1>1. CASE tip' = tip
  <2>1. tip' = FetchTip(t) /\ DbHas(t) => t \in tip.have
    BY <1>1, FetchTipFields DEF CacheInv
  <2> QED BY <1>1, <2>1 DEF CacheInv, FlagsAreRight, TypeOK, TipRead
<1>2. CASE tip' = FetchTip(t)
  <2>1. CASE t \in tip.have \/ ~ DbHas(t)
    <3>1. tip' = tip
      BY <1>2, <2>1, FetchTipFields DEF CacheInv
    <3> QED BY <3>1, <2>1 DEF CacheInv, FlagsAreRight, TypeOK, TipRead
  <2>2. CASE t \notin tip.have /\ DbHas(t)
    <3>1. /\ tip' \in Cache
          /\ tip'.have = tip.have \cup {t}
          /\ tip'.dirty = tip.dirty /\ tip'.best = tip.best
          /\ tip'.fresh = tip.fresh
          /\ tip'.coins[t] = db.coins[t]
          /\ \A s \in TxId \ {t} : tip'.coins[s] = tip.coins[s]
      BY <1>2, <2>2, FetchTipFields DEF CacheInv
    <3>2. WellFormed(tip')
      BY <3>1 DEF CacheInv, WellFormed
    <3>3. \A s \in TxId : TipRead(s)' = TipRead(s)
      BY <3>1, <2>2 DEF TipRead
    <3>4. \A s \in tip'.have \ tip'.dirty : tip'.coins[s] = db.coins[s]
      BY <3>1 DEF CacheInv, FlagsAreRight, TypeOK, Cache
    <3>5. \A s \in tip'.fresh : db.coins[s] = {}
      BY <3>1 DEF CacheInv, FlagsAreRight
    <3> QED BY <3>1, <3>2, <3>3, <3>4, <3>5
  <2> QED BY <2>1, <2>2
<1> QED BY <1>1, <1>2 DEF Reads

-----------------------------------------------------------------------------
\* Each action preserves the invariant, and what it does to the maps.

SameCurrent == UNCHANGED TipBest /\ \A s \in TxId : TipRead(s)' = TipRead(s)

LEMMA InitInv == Init => CacheInv
<1> SUFFICES ASSUME Init PROVE CacheInv
  OBVIOUS
<1> USE EmptyFields
<1>1. TypeOK
  BY DEF Init, TypeOK
<1>2. FlagsAreRight
  BY DEF Init, FlagsAreRight
<1> QED BY <1>1, <1>2 DEF Init, CacheInv

LEMMA ReadTipStep ==
  ASSUME CacheInv, NEW t \in TxId, ReadTip(t)
  PROVE  CacheInv' /\ SameCurrent /\ UNCHANGED <<db, view, open>>
<1>1. Reads(t) /\ UNCHANGED <<db, view, open>>
  BY DEF ReadTip, Reads
<1>2. TypeOK'
  BY <1>1, FetchTipSafe DEF CacheInv, TypeOK
<1>3. FlagsAreRight'
  <2>1. view.fresh \subseteq TxId /\ view.have \subseteq TxId
    BY DEF CacheInv, TypeOK, Cache
  <2> QED BY <1>1, <2>1, FetchTipSafe DEF CacheInv, FlagsAreRight
<1>4. SameCurrent
  BY <1>1, FetchTipSafe DEF SameCurrent, TipBest
<1>5. CacheInv'
  BY <1>1, <1>2, <1>3, <1>4, FetchTipSafe DEF CacheInv, SameCurrent, WellFormed, Empty, NoCoins
<1> QED BY <1>1, <1>4, <1>5

LEMMA BeginStep ==
  ASSUME CacheInv, BeginBlock
  PROVE  CacheInv' /\ SameCurrent /\ UNCHANGED db
<1>1. /\ tip' \in Cache /\ tip'.best = TipBest
      /\ tip'.have = tip.have /\ tip'.dirty = tip.dirty
      /\ tip'.fresh = tip.fresh /\ tip'.coins = tip.coins
  BY ReadTypes DEF BeginBlock, CacheInv, TypeOK, Cache
<1>2. view' = Empty(TipBest) /\ open' = TRUE /\ db' = db
  BY DEF BeginBlock
<1>3. SameCurrent
  BY <1>1, <1>2, ReadTypes, CoinsAssumption DEF SameCurrent, TipBest, TipRead, CacheInv
<1>4. TypeOK'
  BY <1>1, <1>2, EmptyFields, ReadTypes DEF CacheInv, TypeOK
<1>5. FlagsAreRight'
  BY <1>1, <1>2, EmptyFields, ReadTypes DEF CacheInv, FlagsAreRight
<1>6. WellFormed(tip') /\ WellFormed(view')
  BY <1>1, <1>2, EmptyFields, ReadTypes DEF CacheInv, WellFormed
<1> QED BY <1>1, <1>2, <1>3, <1>4, <1>5, <1>6, EmptyFields, ReadTypes
        DEF CacheInv, SameCurrent

\* One entry of the view changes, and pcoinsTip may pull in the entry for it.
LEMMA ReadViewStep ==
  ASSUME CacheInv, NEW t \in TxId, ReadView(t)
  PROVE  /\ CacheInv' /\ SameCurrent /\ UNCHANGED <<db, open>>
         /\ view'.best = view.best
         /\ \A s \in TxId : ViewRead(s)' = ViewRead(s)
<1>1. Reads(t) /\ UNCHANGED <<db, open>> /\ open /\ view' = FetchView(t)
  BY DEF ReadView, Reads, FetchView
<1>2. SameCurrent
  BY <1>1, FetchTipSafe DEF SameCurrent, TipBest
<1>3. CASE t \in view.have \/ ~ TipHas(t)
  <2>1. view' = view
    BY <1>1, <1>3, FetchViewFields DEF CacheInv
  <2>2. view.fresh \subseteq TxId /\ view.have \subseteq TxId
    BY DEF CacheInv, TypeOK, Cache
  <2>3. FlagsAreRight'
    BY <1>1, <2>1, <2>2, FetchTipSafe DEF CacheInv, FlagsAreRight
  <2>4. TypeOK'
    BY <1>1, <2>1, FetchTipSafe DEF CacheInv, TypeOK
  <2>5. CacheInv'
    BY <1>1, <1>2, <2>1, <2>3, <2>4, FetchTipSafe DEF CacheInv, SameCurrent, WellFormed
  <2> QED BY <1>1, <1>2, <2>1, <2>5 DEF ViewRead, SameCurrent
<1>4. CASE t \notin view.have /\ TipHas(t)
  <2>1. /\ view' \in Cache
        /\ view'.have = view.have \cup {t}
        /\ view'.dirty = view.dirty /\ view'.best = view.best
        /\ TipRead(t) = {} => view'.fresh = view.fresh \cup {t}
        /\ TipRead(t) # {} => view'.fresh = view.fresh
        /\ view'.coins[t] = TipRead(t)
        /\ \A s \in TxId \ {t} : view'.coins[s] = view.coins[s]
    BY <1>1, <1>4, FetchViewFields DEF CacheInv
  <2>2. TypeOK'
    BY <1>1, <2>1, FetchTipSafe DEF CacheInv, TypeOK
  <2>3. WellFormed(view')
    BY <2>1 DEF CacheInv, WellFormed
  <2>4. t \in tip'.have \/ t \in view'.fresh
    <3>1. tip' = FetchTip(t)
      BY <1>4 DEF ReadView
    <3>2. CASE TipRead(t) = {}
      BY <2>1, <3>2
    <3>3. CASE TipRead(t) # {}
      BY <1>1, <3>1, <3>3, FetchTipSafe DEF TipRead, DbHas
    <3> QED BY <3>2, <3>3
  <2>5. FlagsAreRight'
    <3>0. view.fresh \subseteq TxId /\ view.have \subseteq TxId
      BY DEF CacheInv, TypeOK, Cache
    <3>1. \A s \in view'.fresh : TipRead(s)' = {}
      BY <2>1, <1>2, <3>0 DEF SameCurrent, CacheInv, FlagsAreRight
    <3>2. \A s \in view'.have \ view'.dirty : view'.coins[s] = TipRead(s)'
      BY <2>1, <1>2, <3>0 DEF SameCurrent, CacheInv, FlagsAreRight
    <3> QED BY <1>1, <3>1, <3>2, FetchTipSafe DEF FlagsAreRight
  <2>6. CacheInv'
    BY <1>1, <1>2, <2>1, <2>2, <2>3, <2>4, <2>5, FetchTipSafe DEF CacheInv, SameCurrent
  <2> QED BY <1>1, <1>2, <2>1, <2>6, <1>4 DEF ViewRead, SameCurrent
<1> QED BY <1>3, <1>4

LEMMA ModifyStep ==
  ASSUME CacheInv, NEW t \in TxId, NEW coins \in SUBSET Output, Modify(t, coins)
  PROVE  /\ CacheInv' /\ SameCurrent /\ UNCHANGED <<db, open>> /\ open
         /\ view'.best = view.best
         /\ ViewRead(t)' = coins
         /\ \A s \in TxId \ {t} : ViewRead(s)' = ViewRead(s)
<1>1. Reads(t) /\ UNCHANGED <<db, open>> /\ open
      /\ view' = ModifyCoins(view, t, TipRead(t), coins)
  BY DEF Modify, Reads
<1>2. SameCurrent
  BY <1>1, FetchTipSafe DEF SameCurrent, TipBest
<1> DEFINE fresh == t \in view.fresh \/ (t \notin view.have /\ TipRead(t) = {})
<1>3. view \in Cache /\ TipRead(t) \in SUBSET Output
  BY ReadTypes DEF CacheInv, TypeOK
<1>4. /\ view' \in Cache
      /\ view'.best = view.best
      /\ view'.coins[t] = coins
      /\ \A s \in TxId \ {t} : view'.coins[s] = view.coins[s]
      /\ fresh /\ coins = {} =>
           /\ view'.have = view.have \ {t} /\ view'.dirty = view.dirty \ {t}
           /\ view'.fresh = view.fresh \ {t}
      /\ ~ (fresh /\ coins = {}) =>
           /\ view'.have = view.have \cup {t} /\ view'.dirty = view.dirty \cup {t}
           /\ view'.fresh = IF fresh THEN view.fresh \cup {t} ELSE view.fresh
  BY <1>1, <1>3 DEF ModifyCoins, Cache, Coins
<1>5. TypeOK'
  BY <1>1, <1>4, FetchTipSafe DEF CacheInv, TypeOK
<1>6. WellFormed(view')
  BY <1>4 DEF CacheInv, WellFormed
<1>7. fresh => TipRead(t) = {}
  BY DEF CacheInv, FlagsAreRight
<1>8. ~ fresh => t \in tip'.have
  <2> SUFFICES ASSUME ~ fresh PROVE t \in tip'.have
    OBVIOUS
  <2>1. CASE t \in view.have
    BY <1>1, <2>1, FetchTipSafe DEF CacheInv
  <2>2. CASE t \notin view.have
    <3>1. tip' = FetchTip(t) /\ TipRead(t) # {}
      BY <2>2 DEF Modify
    <3> QED BY <1>1, <3>1, FetchTipSafe DEF TipRead, DbHas
  <2> QED BY <2>1, <2>2
<1>0. view.fresh \subseteq TxId /\ view.have \subseteq TxId
  BY DEF CacheInv, TypeOK, Cache
<1>9. FlagsAreRight'
  <2>1. \A s \in view'.fresh : TipRead(s)' = {}
    BY <1>0, <1>2, <1>4, <1>7 DEF SameCurrent, CacheInv, FlagsAreRight
  <2>2. \A s \in view'.have \ view'.dirty : view'.coins[s] = TipRead(s)'
    BY <1>0, <1>2, <1>4 DEF SameCurrent, CacheInv, FlagsAreRight
  <2> QED BY <1>1, <2>1, <2>2, FetchTipSafe DEF FlagsAreRight
<1>10. view'.have \ view'.fresh \subseteq tip'.have
  BY <1>1, <1>4, <1>8, FetchTipSafe DEF CacheInv
<1>11. CacheInv'
  BY <1>1, <1>2, <1>4, <1>5, <1>6, <1>9, <1>10, FetchTipSafe DEF CacheInv, SameCurrent
<1>12. ViewRead(t)' = coins
  BY <1>2, <1>4, <1>7 DEF ViewRead, SameCurrent
<1>13. \A s \in TxId \ {t} : ViewRead(s)' = ViewRead(s)
  BY <1>2, <1>4 DEF ViewRead, SameCurrent
<1> QED BY <1>1, <1>2, <1>4, <1>11, <1>12, <1>13

\* Flush into pcoinsTip: what the view showed is what pcoinsTip shows.
LEMMA EndStep ==
  ASSUME CacheInv, NEW h \in Hash, EndBlock(h)
  PROVE  /\ CacheInv' /\ UNCHANGED db /\ open' = FALSE
         /\ TipBest' = h
         /\ \A s \in TxId : TipRead(s)' = ViewRead(s)
<1> DEFINE c == [view EXCEPT !.best = h]
           A == BatchAdded(tip, c)
           E == BatchErased(tip, c)
           C == BatchChanged(tip, c)
<1>1. /\ c \in Cache /\ c.best = h /\ c.have = view.have
      /\ c.dirty = view.dirty /\ c.fresh = view.fresh /\ c.coins = view.coins
  BY DEF CacheInv, TypeOK, Cache
<1>2. tip' = BatchWrite(tip, c) /\ view' = Empty(NoHash) /\ open' = FALSE /\ db' = db
  BY DEF EndBlock
<1>3. /\ tip' \in Cache /\ tip'.best = h
      /\ tip'.have = (tip.have \cup A) \ E
      /\ tip'.dirty = (tip.dirty \cup A \cup C) \ E
      /\ tip'.fresh = (tip.fresh \cup A) \ E
      /\ \A t \in TxId : tip'.coins[t] = IF t \in A \cup C \cup E THEN view.coins[t]
                                         ELSE tip.coins[t]
  <2>1. tip \in Cache
    BY DEF CacheInv, TypeOK
  <2> HIDE DEF c
  <2>2. A \subseteq TxId /\ E \subseteq TxId /\ C \subseteq TxId
    BY <1>1, <2>1 DEF BatchAdded, BatchErased, BatchChanged, Cache
  <2>3. tip' = [have  |-> (tip.have \cup A) \ E,
                dirty |-> (tip.dirty \cup A \cup C) \ E,
                fresh |-> (tip.fresh \cup A) \ E,
                coins |-> [t \in TxId |-> IF t \in A \cup C \cup E THEN c.coins[t]
                                         ELSE tip.coins[t]],
                best  |-> c.best]
    BY <1>2 DEF BatchWrite
  <2> HIDE DEF A, E, C
  <2> QED BY <1>1, <2>1, <2>2, <2>3 DEF Cache, Coins
<1>4. /\ A = {t \in view.dirty \ tip.have : view.coins[t] # {}}
      /\ E = {t \in view.dirty \cap tip.fresh : view.coins[t] = {}}
      /\ C = (view.dirty \cap tip.have) \ E
  BY <1>1 DEF BatchAdded, BatchErased, BatchChanged
<1> HIDE DEF c, A, E, C
<1>5. /\ tip.have \subseteq TxId /\ tip.dirty \subseteq tip.have
      /\ tip.fresh \subseteq tip.have
      /\ view.have \subseteq TxId /\ view.dirty \subseteq view.have
  BY DEF CacheInv, WellFormed, TypeOK, Cache
<1>6. \A t \in A : t \in view.fresh /\ db.coins[t] = {}
  BY <1>4, <1>5 DEF CacheInv, FlagsAreRight, TipRead
<1>7. WellFormed(tip')
  <2>1. tip'.dirty \subseteq tip'.have /\ tip'.fresh \subseteq tip'.have
    BY <1>3, <1>4, <1>5
  <2>2. \A t \in TxId \ tip'.have : tip'.coins[t] = {}
    BY <1>3, <1>4, <1>5 DEF CacheInv, WellFormed
  <2> QED BY <2>1, <2>2 DEF WellFormed
<1>8. \A s \in TxId : TipRead(s)' = ViewRead(s)
  <2> SUFFICES ASSUME NEW s \in TxId PROVE TipRead(s)' = ViewRead(s)
    OBVIOUS
  <2>1. CASE s \notin view.dirty
    BY <1>2, <1>3, <1>4, <1>5, <2>1 DEF TipRead, ViewRead, CacheInv, FlagsAreRight
  <2>2. CASE s \in view.dirty
    <3>1. ViewRead(s) = view.coins[s]
      BY <1>5, <2>2 DEF ViewRead
    <3>2. CASE s \in A \cup C
      <4>1. s \in tip'.have
        BY <1>3, <1>4, <1>5, <3>2
      <4>2. tip'.coins[s] = view.coins[s]
        BY <1>3, <3>2
      <4> QED BY <3>1, <4>1, <4>2 DEF TipRead
    <3>3. CASE s \in E
      <4>1. s \notin tip'.have /\ view.coins[s] = {} /\ s \in tip.fresh
        BY <1>3, <1>4, <3>3
      <4>2. db.coins[s] = {}
        BY <4>1 DEF CacheInv, FlagsAreRight
      <4> QED BY <1>2, <3>1, <4>1, <4>2 DEF TipRead
    <3>4. CASE s \notin A \cup C \cup E
      <4>1. s \notin tip.have /\ view.coins[s] = {}
        BY <1>4, <2>2, <3>4
      <4>2. s \in view.fresh
        BY <1>5, <2>2, <4>1 DEF CacheInv
      <4>3. db.coins[s] = {}
        BY <4>1, <4>2 DEF CacheInv, FlagsAreRight, TipRead
      <4> QED BY <1>2, <1>3, <3>1, <3>4, <4>1, <4>3 DEF TipRead
    <3> QED BY <3>2, <3>3, <3>4
  <2> QED BY <2>1, <2>2
<1>9. FlagsAreRight'
  <2>1. \A t \in tip'.fresh : db.coins[t] = {}
    BY <1>3, <1>6 DEF CacheInv, FlagsAreRight
  <2>2. \A t \in tip'.have \ tip'.dirty : tip'.coins[t] = db.coins[t]
    BY <1>3, <1>4, <1>5 DEF CacheInv, FlagsAreRight
  <2> QED BY <1>2, <2>1, <2>2, EmptyFields DEF FlagsAreRight
<1>10. CacheInv'
  BY <1>2, <1>3, <1>7, <1>9, EmptyFields DEF CacheInv, TypeOK
<1>11. TipBest' = h
  BY <1>3, CoinsAssumption DEF TipBest
<1> QED BY <1>2, <1>8, <1>10, <1>11

LEMMA AbandonStep ==
  ASSUME CacheInv, Abandon
  PROVE  CacheInv' /\ SameCurrent /\ UNCHANGED db /\ open' = FALSE
<1>1. view' = Empty(NoHash) /\ open' = FALSE /\ db' = db /\ tip' = tip
  BY DEF Abandon
<1>2. SameCurrent
  BY <1>1 DEF SameCurrent, TipBest, TipRead
<1>3. CacheInv'
  BY <1>1, EmptyFields DEF CacheInv, TypeOK, FlagsAreRight
<1> QED BY <1>1, <1>2, <1>3

\* Flush into the data base: what pcoinsTip showed is what is stored.
LEMMA FlushStep ==
  ASSUME CacheInv, FlushTip
  PROVE  /\ CacheInv' /\ SameCurrent /\ UNCHANGED <<view, open>> /\ ~ open
         /\ db' = CurrentMap
<1>1. ~ open /\ view' = view /\ open' = open /\ view = Empty(NoHash)
      /\ db' = DbBatchWrite(tip) /\ tip' = Empty(tip.best)
  BY DEF FlushTip, CacheInv
<1>2. tip.best \in Hash \cup {NoHash} /\ tip.dirty \subseteq tip.have
  BY DEF CacheInv, TypeOK, Cache, WellFormed
<1>3. \A t \in TxId : (IF t \in tip.dirty THEN tip.coins[t] ELSE db.coins[t]) = TipRead(t)
  BY <1>2 DEF TipRead, CacheInv, FlagsAreRight
<1>4. db' = CurrentMap
  BY <1>1, <1>3 DEF DbBatchWrite, CurrentMap, TipBest
<1>5. /\ db' \in [coins : Coins, best : Hash]
      /\ db'.best = TipBest /\ \A t \in TxId : db'.coins[t] = TipRead(t)
  BY <1>4, ReadTypes DEF CurrentMap, CacheInv, Coins
<1>6. SameCurrent
  <2>1. TipBest' = TipBest
    BY <1>1, <1>2, <1>5, EmptyFields DEF TipBest
  <2>2. \A s \in TxId : TipRead(s)' = TipRead(s)
    BY <1>1, <1>2, <1>5, EmptyFields DEF TipRead
  <2> QED BY <2>1, <2>2 DEF SameCurrent
<1>7. CacheInv'
  BY <1>1, <1>2, <1>5, EmptyFields DEF CacheInv, TypeOK, FlagsAreRight
<1> QED BY <1>1, <1>4, <1>6, <1>7

LEMMA CrashStep ==
  ASSUME CacheInv, Crash
  PROVE  /\ CacheInv' /\ UNCHANGED db /\ open' = FALSE /\ TipBest' = db.best
         /\ \A s \in TxId : TipRead(s)' = db.coins[s]
<1>1. tip' = Empty(NoHash) /\ view' = Empty(NoHash) /\ open' = FALSE /\ db' = db
  BY DEF Crash
<1>2. TipBest' = db.best /\ \A s \in TxId : TipRead(s)' = db.coins[s]
  BY <1>1, EmptyFields DEF TipBest, TipRead
<1>3. CacheInv'
  BY <1>1, EmptyFields DEF CacheInv, TypeOK, FlagsAreRight
<1> QED BY <1>1, <1>2, <1>3

LEMMA StutterStep ==
  ASSUME CacheInv, UNCHANGED vars
  PROVE  CacheInv'
<1>1. db' = db /\ tip' = tip /\ view' = view /\ open' = open
  BY DEF vars
<1> QED BY <1>1 DEF CacheInv, TypeOK, WellFormed, FlagsAreRight, TipRead, TipBest,
                     Empty, NoCoins, Cache, Coins

\* Every change that a block makes to its view is one of Modify.
LEMMA ChangesModify ==
  ASSUME CacheInv, NEW t \in TxId,
         \/ Remove(t)
         \/ \E n \in Output : Spend(t, n) \/ Restore(t, n)
         \/ \E outs \in SUBSET Output : FromTx(t, outs)
  PROVE  \E c \in SUBSET Output : Modify(t, c)
<1>1. ViewRead(t) \in SUBSET Output
  BY ReadTypes DEF CacheInv
<1>2. CASE Remove(t)
  BY <1>2 DEF Remove
<1>3. CASE \E n \in Output : Spend(t, n) \/ Restore(t, n)
  <2>1. PICK n \in Output : Spend(t, n) \/ Restore(t, n)
    BY <1>3
  <2>2. CASE Spend(t, n)
    <3>1. ViewRead(t) \ {n} \in SUBSET Output
      BY <1>1
    <3> QED BY <2>2, <3>1 DEF Spend
  <2>3. CASE Restore(t, n)
    <3>1. ViewRead(t) \cup {n} \in SUBSET Output
      BY <1>1
    <3> QED BY <2>3, <3>1 DEF Restore
  <2> QED BY <2>1, <2>2, <2>3
<1>4. CASE \E outs \in SUBSET Output : FromTx(t, outs)
  BY <1>4 DEF FromTx
<1> QED BY <1>2, <1>3, <1>4

\* Next, with the four changes in one case.
LEMMA NextCases ==
  ASSUME CacheInv, [Next]_vars
  PROVE  \/ BeginBlock \/ Abandon \/ FlushTip \/ Crash
         \/ \E t \in TxId : ReadTip(t) \/ ReadView(t)
         \/ \E t \in TxId, c \in SUBSET Output : Modify(t, c)
         \/ \E h \in Hash : EndBlock(h)
         \/ UNCHANGED vars
<1>1. CASE \E t \in TxId : Remove(t)
  BY <1>1, ChangesModify
<1>2. CASE \E t \in TxId, n \in Output : Spend(t, n) \/ Restore(t, n)
  BY <1>2, ChangesModify
<1>3. CASE \E t \in TxId, outs \in SUBSET Output : FromTx(t, outs)
  BY <1>3, ChangesModify
<1> QED BY <1>1, <1>2, <1>3 DEF Next

LEMMA NextInv == CacheInv /\ [Next]_vars => CacheInv'
<1> SUFFICES ASSUME CacheInv, [Next]_vars PROVE CacheInv'
  OBVIOUS
<1>1. CASE BeginBlock \/ Abandon \/ FlushTip \/ Crash
  BY <1>1, BeginStep, AbandonStep, FlushStep, CrashStep
<1>2. CASE \E t \in TxId : ReadTip(t) \/ ReadView(t)
  BY <1>2, ReadTipStep, ReadViewStep
<1>3. CASE \E t \in TxId, c \in SUBSET Output : Modify(t, c)
  BY <1>3, ModifyStep
<1>4. CASE \E h \in Hash : EndBlock(h)
  BY <1>4, EndStep
<1>5. CASE UNCHANGED vars
  BY <1>5, StutterStep
<1> QED BY <1>1, <1>2, <1>3, <1>4, <1>5, NextCases

LEMMA CacheInvariant == Spec => []CacheInv
BY InitInv, NextInv, PTL DEF Spec

\* The caches are well typed: the flags and hashBlock stay within their types
\* through every ModifyCoins, BatchWrite and Flush.
THEOREM TypeCorrect == Spec => []TypeOK
<1>1. CacheInv => TypeOK
  BY DEF CacheInv
<1> QED BY <1>1, CacheInvariant, PTL

\* The assertion in CCoinsViewCache::BatchWrite cannot fail.
THEOREM AssertionHolds == Spec => []BatchWriteAssertion
<1>1. CacheInv => BatchWriteAssertion
  BY DEF CacheInv, BatchWriteAssertion, WellFormed
<1> QED BY <1>1, CacheInvariant, PTL

\* FRESH and DIRTY mean what coins.h says of them, in both caches.
THEOREM FlagsCorrect == Spec => []FlagsAreRight
<1>1. CacheInv => FlagsAreRight
  BY DEF CacheInv
<1> QED BY <1>1, CacheInvariant, PTL

-----------------------------------------------------------------------------
\* The views implement the map.

LEMMA MapTypes ==
  ASSUME CacheInv
  PROVE  /\ db = [coins |-> db.coins, best |-> db.best]
         /\ ~ open => ScratchMap = CurrentMap
         /\ open => ViewBest = TipBest
<1>1. db = [coins |-> db.coins, best |-> db.best]
  BY DEF CacheInv, TypeOK
<1>2. ~ open => ScratchMap = CurrentMap
  BY EmptyFields DEF CacheInv, ScratchMap, CurrentMap, ViewRead, ViewBest
<1>3. open => ViewBest = TipBest
  BY ReadTypes, CoinsAssumption DEF CacheInv, ViewBest
<1> QED BY <1>1, <1>2, <1>3

LEMMA InitMap == Init => Map!Init
<1> SUFFICES ASSUME Init PROVE Map!Init
  OBVIOUS
<1>1. CacheInv /\ ~ open
  BY InitInv DEF Init
<1>2. db \in Map!State
  BY DEF Init, Coins, Map!State, Map!Coins
<1>3. CurrentMap = db
  <2>1. \A t \in TxId : TipRead(t) = db.coins[t]
    BY EmptyFields DEF Init, TipRead
  <2>2. TipBest = db.best
    BY EmptyFields DEF Init, TipBest
  <2>3. db.coins = [t \in TxId |-> db.coins[t]]
    BY DEF Init, Coins
  <2> QED BY <1>1, <2>1, <2>2, <2>3, MapTypes DEF CurrentMap
<1>4. ScratchMap = CurrentMap
  BY <1>1, MapTypes
<1> QED BY <1>1, <1>2, <1>3, <1>4 DEF Map!Init

LEMMA RecordUpdates ==
  ASSUME NEW f, NEW b, NEW h, NEW t, NEW c
  PROVE  /\ [[coins |-> f, best |-> b] EXCEPT !.best = h] = [coins |-> f, best |-> h]
         /\ [[coins |-> f, best |-> b] EXCEPT !.coins[t] = c]
              = [coins |-> [f EXCEPT ![t] = c], best |-> b]
OBVIOUS

LEMMA SameMap ==
  ASSUME SameCurrent
  PROVE  CurrentMap' = CurrentMap
BY DEF SameCurrent, CurrentMap

LEMMA StepMap == CacheInv /\ CacheInv' /\ [Next]_vars => [Map!Next]_(Map!vars)
<1> SUFFICES ASSUME CacheInv, CacheInv', [Next]_vars PROVE [Map!Next]_(Map!vars)
  OBVIOUS
<1>0. /\ ~ open => ScratchMap = CurrentMap
      /\ open => ViewBest = TipBest
      /\ ~ open' => ScratchMap' = CurrentMap'
      /\ open' => ViewBest' = TipBest'
  <2>1. ~ open' => ScratchMap' = CurrentMap'
    BY EmptyFields DEF CacheInv, ScratchMap, CurrentMap, ViewRead, ViewBest
  <2>2. TipBest' \in Hash
    BY DEF CacheInv, TypeOK, Cache, TipBest
  <2>3. open' => ViewBest' = TipBest'
    BY <2>2, CoinsAssumption DEF CacheInv, ViewBest
  <2> QED BY <2>1, <2>3, MapTypes
<1>1. CASE BeginBlock
  <2>1. CurrentMap' = CurrentMap /\ db' = db
    BY <1>1, BeginStep, SameMap
  <2>2. ~ open /\ open' = TRUE /\ view' = Empty(TipBest)
    BY <1>1 DEF BeginBlock
  <2>3. \A s \in TxId : ViewRead(s)' = TipRead(s)
    BY <1>1, <2>2, BeginStep, EmptyFields, ReadTypes DEF ViewRead, SameCurrent, CacheInv
  <2>4. ScratchMap' = CurrentMap
    BY <1>0, <1>1, <2>2, <2>3, BeginStep DEF ScratchMap, CurrentMap, SameCurrent
  <2> QED BY <2>1, <2>2, <2>4 DEF Map!Next, Map!Begin
<1>2. CASE Abandon
  <2>1. CurrentMap' = CurrentMap /\ db' = db /\ open' = FALSE
    BY <1>2, AbandonStep, SameMap
  <2>2. open
    BY <1>2 DEF Abandon
  <2> QED BY <1>0, <2>1, <2>2 DEF Map!Next, Map!Abandon
<1>3. CASE FlushTip
  <2>1. CurrentMap' = CurrentMap /\ db' = CurrentMap /\ ~ open /\ open' = open
    BY <1>3, FlushStep, SameMap
  <2> QED BY <1>0, <2>1 DEF Map!Next, Map!Persist
<1>4. CASE Crash
  <2>1. db' = db /\ open' = FALSE
    BY <1>4, CrashStep
  <2>2. CurrentMap' = db
    <3>1. db.coins = [t \in TxId |-> db.coins[t]]
      BY DEF CacheInv, TypeOK, Coins
    <3>2. CurrentMap' = [coins |-> [t \in TxId |-> db.coins[t]], best |-> db.best]
      BY <1>4, CrashStep DEF CurrentMap
    <3> QED BY <3>1, <3>2, MapTypes
  <2> QED BY <1>0, <2>1, <2>2 DEF Map!Next, Map!Crash
<1>5. CASE \E t \in TxId : ReadTip(t) \/ ReadView(t)
  <2>1. PICK t \in TxId : ReadTip(t) \/ ReadView(t)
    BY <1>5
  <2>2. SameCurrent /\ db' = db /\ open' = open /\ view'.best = view.best
    BY <2>1, ReadTipStep, ReadViewStep
  <2>3. \A s \in TxId : ViewRead(s)' = ViewRead(s)
    <3>1. CASE ReadTip(t)
      BY <3>1, ReadTipStep DEF ViewRead, SameCurrent
    <3>2. CASE ReadView(t)
      BY <3>2, ReadViewStep
    <3> QED BY <2>1, <3>1, <3>2
  <2>4. ScratchMap' = ScratchMap
    BY <2>2, <2>3 DEF ScratchMap, ViewBest, SameCurrent
  <2> QED BY <2>2, <2>4, SameMap DEF Map!vars
<1>6. CASE \E t \in TxId, c \in SUBSET Output : Modify(t, c)
  <2>1. PICK t \in TxId, c \in SUBSET Output : Modify(t, c)
    BY <1>6
  <2>2. /\ SameCurrent /\ db' = db /\ open' = open /\ open
        /\ ViewRead(t)' = c
        /\ \A s \in TxId \ {t} : ViewRead(s)' = ViewRead(s)
    BY <2>1, ModifyStep
  <2>3. ScratchMap' = [ScratchMap EXCEPT !.coins[t] = c]
    <3>1. ViewBest' = ViewBest
      BY <1>0, <2>2 DEF SameCurrent
    <3>2. [s \in TxId |-> ViewRead(s)'] = [[s \in TxId |-> ViewRead(s)] EXCEPT ![t] = c]
      BY <2>2
    <3> DEFINE f == [s \in TxId |-> ViewRead(s)]
               f1 == [s \in TxId |-> ViewRead(s)']
    <3>3. ScratchMap' = [coins |-> f1, best |-> ViewBest]
      BY <3>1 DEF ScratchMap
    <3>4. ScratchMap = [coins |-> f, best |-> ViewBest]
      BY DEF ScratchMap
    <3>5. f1 = [f EXCEPT ![t] = c]
      BY <3>2
    <3> HIDE DEF f, f1
    <3> QED BY <3>3, <3>4, <3>5, RecordUpdates
  <2> QED BY <2>2, <2>3, SameMap DEF Map!Next, Map!Change
<1>7. CASE \E h \in Hash : EndBlock(h)
  <2>1. PICK h \in Hash : EndBlock(h)
    BY <1>7
  <2>2. /\ db' = db /\ open' = FALSE /\ TipBest' = h
        /\ \A s \in TxId : TipRead(s)' = ViewRead(s)
    BY <2>1, EndStep
  <2>3. open
    BY <2>1 DEF EndBlock
  <2>4. CurrentMap' = [ScratchMap EXCEPT !.best = h]
    <3>1. [s \in TxId |-> TipRead(s)'] = [s \in TxId |-> ViewRead(s)]
      BY <2>2
    <3> DEFINE f == [s \in TxId |-> ViewRead(s)]
    <3>2. CurrentMap' = [coins |-> f, best |-> h]
      BY <2>2, <3>1 DEF CurrentMap
    <3>3. ScratchMap = [coins |-> f, best |-> ViewBest]
      BY DEF ScratchMap
    <3> HIDE DEF f
    <3> QED BY <3>2, <3>3, RecordUpdates
  <2> QED BY <1>0, <2>2, <2>3, <2>4 DEF Map!Next, Map!Commit
<1>8. CASE UNCHANGED vars
  BY <1>8 DEF vars, Map!vars, CurrentMap, ScratchMap, TipRead, ViewRead, TipBest, ViewBest
<1> QED BY <1>1, <1>2, <1>3, <1>4, <1>5, <1>6, <1>7, <1>8, NextCases

\* The coins views are one map that changes a block at a time, survives a crash as
\* a map with its own best block, and is not changed by any read or flush.
THEOREM ViewsImplementMap == Spec => ImplementsMap
BY InitMap, StepMap, CacheInvariant, PTL DEF Spec, ImplementsMap, Map!Spec
=============================================================================
