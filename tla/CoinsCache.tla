----------------------------- MODULE CoinsCache -----------------------------
(***************************************************************************)
(* The stack of coins views (coins.cpp, txdb.cpp): the LevelDB chain       *)
(* state, the cache pcoinsTip over it, and the cache `view' over pcoinsTip *)
(* to which ConnectBlock and DisconnectBlock apply a block.                *)
(*                                                                         *)
(* Everything runs under cs_main.  A CCoinsModifier lives only as long as  *)
(* one change, so ModifyCoins, the change and the destructor are one step. *)
(* CCoins is the set of its unspent outputs; IsPruned is the empty set.    *)
(***************************************************************************)
EXTENDS Naturals

CONSTANTS
  TxId,    \* transaction hashes
  Output,  \* output numbers
  Hash,    \* block hashes
  NoHash   \* uint256(0): the best block of a view that was not asked yet

ASSUME CoinsAssumption == NoHash \notin Hash

VARIABLES
  db,       \* CCoinsViewDB: the coins and the best block in LevelDB
  tip,      \* pcoinsTip
  view,     \* the CCoinsViewCache over pcoinsTip
  open      \* whether there is one

vars == <<db, tip, view, open>>

Coins == [TxId -> SUBSET Output]

\* CCoinsViewCache: the keys of cacheCoins, those flagged DIRTY and FRESH, the
\* cached coins (empty where there is no entry) and hashBlock.
Cache == [have  : SUBSET TxId, dirty : SUBSET TxId, fresh : SUBSET TxId,
          coins : Coins, best : Hash \cup {NoHash}]

NoCoins == [t \in TxId |-> {}]
Empty(h) == [have |-> {}, dirty |-> {}, fresh |-> {}, coins |-> NoCoins, best |-> h]

TypeOK ==
  /\ db \in [coins : Coins, best : Hash]
  /\ tip \in Cache
  /\ view \in Cache
  /\ open \in BOOLEAN

\* A node that was started on some chain state.
Init ==
  /\ db \in [coins : Coins, best : Hash]
  /\ tip = Empty(NoHash)
  /\ view = Empty(NoHash)
  /\ open = FALSE

-----------------------------------------------------------------------------
\* What each view answers.  GetCoins is true for an entry that is pruned; the
\* data base has none, since BatchWriteCoins erases them.
TipRead(t) == IF t \in tip.have THEN tip.coins[t] ELSE db.coins[t]
ViewRead(t) == IF t \in view.have THEN view.coins[t] ELSE TipRead(t)
DbHas(t) == db.coins[t] # {}
TipHas(t) == t \in tip.have \/ DbHas(t)

\* GetBestBlock: a view that has no hash takes that of its base.
TipBest == IF tip.best = NoHash THEN db.best ELSE tip.best
ViewBest == IF view.best = NoHash THEN TipBest ELSE view.best

\* FetchCoins in the cache c, for a base that has (or has not) an entry for t.
FetchCoins(c, t, has, coins) ==
  IF t \in c.have \/ ~ has THEN c
  ELSE [c EXCEPT !.have = @ \cup {t},
                 !.coins[t] = coins,
                 !.fresh = IF coins = {} THEN @ \cup {t} ELSE @]

\* Mutant: a read through the view leaves no entry in pcoinsTip.
PassBy(t) == tip

\* GetCoins of pcoinsTip: the entry is pulled in from the data base.
FetchTip(t) == FetchCoins(tip, t, DbHas(t), db.coins[t])

\* Mutant: every new entry is marked FRESH.
ModifyFresh(c, t, base, coins) ==
  [c EXCEPT !.have = @ \cup {t}, !.dirty = @ \cup {t}, !.coins[t] = coins,
            !.fresh = IF t \notin c.have THEN @ \cup {t} ELSE @]

\* ModifyCoins, a change to `coins', and the destructor of the modifier; `base'
\* is what the base answers (empty if it has no entry or a pruned one).
ModifyCoins(c, t, base, coins) ==
  IF (t \in c.fresh \/ (t \notin c.have /\ base = {})) /\ coins = {}
  THEN [c EXCEPT !.have = @ \ {t}, !.dirty = @ \ {t}, !.fresh = @ \ {t}, !.coins[t] = {}]
  ELSE [c EXCEPT !.have = @ \cup {t}, !.dirty = @ \cup {t}, !.coins[t] = coins,
                 !.fresh = IF t \notin c.have /\ base = {} THEN @ \cup {t} ELSE @]

\* CCoinsViewCache::BatchWrite of the entries of c into the cache p.
BatchAdded(p, c) == {t \in c.dirty \ p.have : c.coins[t] # {}}
BatchErased(p, c) == {t \in c.dirty \cap p.fresh : c.coins[t] = {}}
BatchChanged(p, c) == (c.dirty \cap p.have) \ BatchErased(p, c)

\* Mutant: an entry that is pruned in the child is erased from the parent.
BatchWriteErasing(p, c) ==
  LET gone == {t \in c.dirty : c.coins[t] = {}}
  IN  [have  |-> (p.have \cup c.dirty) \ gone,
       dirty |-> (p.dirty \cup c.dirty) \ gone,
       fresh |-> (p.fresh \cup BatchAdded(p, c)) \ gone,
       coins |-> [t \in TxId |-> IF t \in c.dirty THEN c.coins[t] ELSE p.coins[t]],
       best  |-> c.best]

BatchWrite(p, c) ==
  [have  |-> (p.have \cup BatchAdded(p, c)) \ BatchErased(p, c),
   dirty |-> (p.dirty \cup BatchAdded(p, c) \cup BatchChanged(p, c)) \ BatchErased(p, c),
   fresh |-> (p.fresh \cup BatchAdded(p, c)) \ BatchErased(p, c),
   coins |-> [t \in TxId |->
                IF t \in BatchAdded(p, c) \cup BatchChanged(p, c) \cup BatchErased(p, c)
                THEN c.coins[t] ELSE p.coins[t]],
   best  |-> c.best]

\* CCoinsViewDB::BatchWrite: one atomic LevelDB batch of the dirty entries and,
\* if there is one, the best block.
DbBatchWrite(c) ==
  [coins |-> [t \in TxId |-> IF t \in c.dirty THEN c.coins[t] ELSE db.coins[t]],
   best  |-> IF c.best = NoHash THEN db.best ELSE c.best]

-----------------------------------------------------------------------------
\* The memory pool, the wallet or an RPC command reads pcoinsTip.
ReadTip(t) ==
  /\ tip' = FetchTip(t)
  /\ UNCHANGED <<db, view, open>>

\* A CCoinsViewCache is put on pcoinsTip; ConnectBlock and DisconnectBlock first
\* compare its best block, which fills in hashBlock on the way down.
BeginBlock ==
  /\ ~ open
  /\ open' = TRUE
  /\ tip' = [tip EXCEPT !.best = TipBest]
  /\ view' = Empty(TipBest)
  /\ UNCHANGED db

\* AccessCoins, HaveInputs and the BIP30 test on the view.
ReadView(t) ==
  /\ open
  /\ IF t \in view.have THEN UNCHANGED tip ELSE tip' = FetchTip(t)
  /\ view' = FetchCoins(view, t, TipHas(t), TipRead(t))
  /\ UNCHANGED <<db, open>>

\* The view's entry for t becomes `coins'.
Modify(t, coins) ==
  /\ open
  /\ IF t \in view.have THEN UNCHANGED tip ELSE tip' = FetchTip(t)
  /\ view' = ModifyCoins(view, t, TipRead(t), coins)
  /\ UNCHANGED <<db, open>>

\* UpdateCoins: an input is spent (CCoins::Spend), and HaveInputs saw it.
Spend(t, n) == n \in ViewRead(t) /\ Modify(t, ViewRead(t) \ {n})

\* UpdateCoins: the outputs of t are added, less those nobody can spend.  BIP30
\* and the order within a block make sure that t has none yet.
FromTx(t, outs) == ViewRead(t) = {} /\ Modify(t, outs)

\* DisconnectBlock: the outputs of t are removed.
Remove(t) == Modify(t, {})

\* DisconnectBlock: an output that the block spent comes back.
Restore(t, n) == n \notin ViewRead(t) /\ Modify(t, ViewRead(t) \cup {n})

\* ConnectTip and DisconnectTip: SetBestBlock, then Flush into pcoinsTip.
EndBlock(h) ==
  /\ open
  /\ open' = FALSE
  /\ tip' = BatchWrite(tip, [view EXCEPT !.best = h])
  /\ view' = Empty(NoHash)
  /\ UNCHANGED db

\* The block is refused, or was only tried (TestBlockValidity, CreateNewBlock,
\* VerifyDB): the view is destroyed.
Abandon ==
  /\ open
  /\ open' = FALSE
  /\ view' = Empty(NoHash)
  /\ UNCHANGED <<db, tip>>

\* FlushStateToDisk calls pcoinsTip->Flush(); no view with entries is alive then.
FlushTip ==
  /\ ~ open
  /\ db' = DbBatchWrite(tip)
  /\ tip' = Empty(tip.best)
  /\ UNCHANGED <<view, open>>

\* The process dies and is started again.
Crash ==
  /\ tip' = Empty(NoHash)
  /\ view' = Empty(NoHash)
  /\ open' = FALSE
  /\ UNCHANGED db

Next ==
  \/ BeginBlock \/ Abandon \/ FlushTip \/ Crash
  \/ \E t \in TxId : ReadTip(t) \/ ReadView(t) \/ Remove(t)
  \/ \E t \in TxId, n \in Output : Spend(t, n) \/ Restore(t, n)
  \/ \E t \in TxId, outs \in SUBSET Output : FromTx(t, outs)
  \/ \E h \in Hash : EndBlock(h)

Spec == Init /\ [][Next]_vars

-----------------------------------------------------------------------------
\* Properties

\* The assertion in CCoinsViewCache::BatchWrite never fails: a changed entry that
\* the parent lacks is marked FRESH ("if the grandparent did have it, we would
\* have pulled it in at first GetCoins").
BatchWriteAssertion ==
  \A t \in view.dirty \ tip.have : view.coins[t] # {} => t \in view.fresh

\* The flags mean what coins.h says, in both caches and whatever was read, spent,
\* restored and flushed before: a FRESH entry has no counterpart in the parent
\* view, and an entry that is not DIRTY equals it.
FlagsAreRight ==
  /\ \A t \in tip.fresh : db.coins[t] = {}
  /\ \A t \in tip.have \ tip.dirty : tip.coins[t] = db.coins[t]
  /\ \A t \in view.fresh : TipRead(t) = {}
  /\ \A t \in view.have \ view.dirty : view.coins[t] = TipRead(t)

\* What makes these inductive: flags and coins belong to entries, an entry of the
\* view that is not FRESH was pulled through pcoinsTip and is still there, and the
\* view knows the best block of pcoinsTip.
WellFormed(c) ==
  /\ c.dirty \subseteq c.have /\ c.fresh \subseteq c.have
  /\ \A t \in TxId \ c.have : c.coins[t] = {}
CacheInv ==
  /\ TypeOK
  /\ WellFormed(tip) /\ WellFormed(view)
  /\ FlagsAreRight
  /\ view.have \ view.fresh \subseteq tip.have
  /\ open => view.best = TipBest
  /\ ~ open => view = Empty(NoHash)

\* The views together are one map that changes a block at a time: a flush changes
\* nothing that is visible, a refused block leaves no trace, and after a crash the
\* coins on disk belong to the best block on disk.
CurrentMap == [coins |-> [t \in TxId |-> TipRead(t)], best |-> TipBest]
ScratchMap == [coins |-> [t \in TxId |-> ViewRead(t)], best |-> ViewBest]
Map == INSTANCE CoinsMap WITH stored <- db, current <- CurrentMap, scratch <- ScratchMap
ImplementsMap == Map!Spec
=============================================================================
