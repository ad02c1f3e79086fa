------------------------------ MODULE Mempool ------------------------------
(***************************************************************************)
(* The memory pool (txmempool.cpp), the transactions that wait for their   *)
(* parents (mapOrphanTransactions in main.cpp), and what connecting and    *)
(* disconnecting a block does to both.                                     *)
(*                                                                         *)
(* All of it runs under cs_main.  The loops that call AcceptToMemoryPool   *)
(* are steps of their own (pc), so that every call may be refused for a    *)
(* reason outside this module: fees, scripts, transaction locks.  The      *)
(* coins are those of the active chain: see CoinsCache.                    *)
(***************************************************************************)
EXTENDS Naturals, FiniteSets, Sequences, SequencesExt

CONSTANTS
  Tx,         \* transactions
  Generated,  \* coinbase and coinstake transactions
  Vin, Vout,  \* the outpoints a transaction spends and creates
  Prev,       \* the transaction that creates an outpoint
  Block,      \* bound: the vtx of the blocks that may be connected
  Genesis,    \* the first block's vtx
  Peer,
  None,
  Maturity,   \* COINBASE_MATURITY
  MaxHeight,  \* bound: the height of the chain
  MaxOrphans  \* -maxorphantx

Outpoint == UNION {Vout[t] : t \in Tx}

ASSUME MempoolAssumption ==
  /\ IsFiniteSet(Tx) /\ Generated \subseteq Tx
  /\ Vin \in [Tx -> SUBSET Outpoint]
  /\ Prev \in [Outpoint -> Tx]
  /\ \A t \in Tx : Vout[t] = {o \in Outpoint : Prev[o] = t}
  /\ \A t \in Tx \ Generated : Vin[t] # {}
  /\ Block \subseteq Seq(Tx) /\ Genesis \in Seq(Tx)
  /\ \A t \in ToSet(Genesis) : Vin[t] = {}
  /\ None \notin Tx \cup Peer
  /\ Maturity \in Nat /\ MaxHeight \in Nat /\ MaxOrphans \in Nat

VARIABLES
  chain,     \* the vtx of the blocks of the active chain above the first
  pool,      \* [tx |-> mapTx, next |-> mapNextTx, total |-> totalTxSize]
  orphan,    \* mapOrphanTransactions: the peer a transaction came from, or None
  byPrev,    \* mapOrphanTransactionsByPrev
  pc,        \* "idle", or the loop that runs
  work,      \* vWorkQueue from its current place on, or what is left of block.vtx
  todo,      \* orphans of the head of work that are still to be tried
  erase,     \* vEraseQueue
  misb       \* setMisbehaving

vars == <<chain, pool, orphan, byPrev, pc, work, todo, erase, misb>>
loop == <<pc, work, todo, erase, misb>>

Pool == [tx : SUBSET Tx, next : [Outpoint -> Tx \cup {None}], total : Nat]

TypeOK ==
  /\ chain \in Seq(Block) /\ Len(chain) <= MaxHeight
  /\ pool \in Pool
  /\ orphan \in [Tx -> Peer \cup {None}]
  /\ byPrev \in [Tx -> SUBSET Tx]
  /\ pc \in {"idle", "orphans", "resurrect"}
  /\ work \in Seq(Tx)
  /\ todo \in SUBSET Tx /\ erase \in SUBSET Tx
  /\ misb \in SUBSET Peer

Init ==
  /\ chain = <<>>
  /\ pool = [tx |-> {}, next |-> [o \in Outpoint |-> None], total |-> 0]
  /\ orphan = [t \in Tx |-> None]
  /\ byPrev = [t \in Tx |-> {}]
  /\ pc = "idle" /\ work = <<>> /\ todo = {} /\ erase = {} /\ misb = {}

-----------------------------------------------------------------------------
\* The coins of a chain.
ConfirmedAt(c, h) == ToSet(IF h = 0 THEN Genesis ELSE c[h])
Confirmed(c) == UNION {ConfirmedAt(c, h) : h \in 0 .. Len(c)}
HeightOf(c, t) == CHOOSE h \in 0 .. Len(c) : t \in ConfirmedAt(c, h)
Created(c) == UNION {Vout[t] : t \in Confirmed(c)}
Spent(c) == UNION {Vin[t] : t \in Confirmed(c)}
Coins(c) == Created(c) \ Spent(c)
HaveCoins(c, t) == \E o \in Vout[t] : o \in Coins(c)

\* CheckInputs: a generated output is spent only when it is deep enough, counted at
\* the height of the next block.
IsMature(c, o) ==
  Prev[o] \in Generated => Len(c) + 1 - HeightOf(c, Prev[o]) >= Maturity

-----------------------------------------------------------------------------
\* AcceptToMemoryPool.  v is the verdict of the checks that are not modelled: those
\* before the inputs are looked up (early), those after (late), and the ones that
\* also punish the peer (invalid).
Verdict == {"ok", "early", "late", "invalid"}

Accepts(p, t, v) ==
  IF v = "early" \/ t \in Generated \cup p.tx \/ (\E o \in Vin[t] : p.next[o] # None)
     \/ HaveCoins(chain, t)
  THEN "no"
  ELSE IF \E o \in Vin[t] : Prev[o] \notin p.tx /\ ~ HaveCoins(chain, Prev[o])
  THEN "missing"
  ELSE IF \E o \in Vin[t] : Prev[o] \notin p.tx /\ o \notin Coins(chain)
  THEN "no"
  ELSE IF v = "invalid" THEN "bad"
  ELSE IF v = "late" \/ (\E o \in Vin[t] : Prev[o] \notin p.tx /\ ~ IsMature(chain, o))
  THEN "no"
  ELSE "yes"

addUnchecked(p, t) ==
  [tx    |-> p.tx \cup {t},
   next  |-> [o \in Outpoint |-> IF o \in Vin[t] THEN t ELSE p.next[o]],
   total |-> p.total + 1]

\* The transactions of the pool that mapNextTx says spend an output of S.
Children(p, S) == {t \in p.tx : \E o \in Outpoint : Prev[o] \in S /\ p.next[o] = t}

\* S and everything in the pool that descends from it: the queue of remove grows until
\* no child is left out.
Descent(p, S) ==
  {t \in S \cup p.tx : \A D \in SUBSET (S \cup p.tx) : S \cup Children(p, D) \subseteq D => t \in D}

\* Removing a set of transactions clears mapNextTx at every input they have.
Without(p, S) ==
  [tx    |-> p.tx \ S,
   next  |-> [o \in Outpoint |-> IF \E t \in S : o \in Vin[t] THEN None ELSE p.next[o]],
   total |-> p.total - Cardinality(S)]

\* Mutant: the parents of a transaction are removed with it.
RemoveFamily(p, t) ==
  Without(p, Descent(p, {u \in p.tx : u = t \/ \E o \in Vin[t] : Prev[o] = u}))

\* remove with fRecursive; a transaction that is not in the pool may have children there.
RemoveRecursive(p, t) ==
  Without(p, Descent(p, IF t \in p.tx THEN {t} ELSE Children(p, {t})))

\* The transactions of the pool that spend what a transaction of S spends.
Conflicts(p, S) == {p.next[o] : o \in UNION {Vin[t] : t \in S}} \ (S \cup {None})

\* Mutant: the transactions of the block itself stay.
removeOthers(p, vtx) == Without(p, Descent(p, Conflicts(p, ToSet(vtx))))

\* The transactions of a block leave without their children, which now spend coins of the
\* chain, and those that conflict with them leave with their descent (removeConflicts).
\* No transaction of a block conflicts with another of it or descends from such a
\* conflict, so the order of the loop does not matter.
removeForBlock(p, vtx) ==
  LET rest == Without(p, ToSet(vtx) \cap p.tx)
  IN  Without(rest, Descent(rest, Conflicts(rest, ToSet(vtx))))

\* Transactions with an input that is neither in the pool nor, mature, in the chain c.
Premature(p, c) ==
  {t \in p.tx : \E o \in Vin[t] :
     Prev[o] \notin p.tx /\ ~ (HaveCoins(c, Prev[o]) /\ IsMature(c, o))}

\* Mutant: maturity is measured as if the block were still there.
removeSpendsTooEarly(p, c) == Without(p, Descent(p, Premature(p, Append(c, <<>>))))

removeCoinbaseSpends(p, c) == Without(p, Descent(p, Premature(p, c)))

-----------------------------------------------------------------------------
\* mapOrphanTransactions

AddOrphanTx(t, peer) ==
  [o |-> [orphan EXCEPT ![t] = peer],
   b |-> [p \in Tx |-> IF \E x \in Vin[t] : Prev[x] = p THEN byPrev[p] \cup {t}
                       ELSE byPrev[p]]]

\* Mutant: the entry goes, its place in mapOrphanTransactionsByPrev stays.
EraseEntries(m, S) == [o |-> [t \in Tx |-> IF t \in S THEN None ELSE m.o[t]], b |-> m.b]

\* EraseOrphanTx for every transaction of S.
EraseOrphans(m, S) ==
  [o |-> [t \in Tx |-> IF t \in S THEN None ELSE m.o[t]],
   b |-> [p \in Tx |-> m.b[p] \ {t \in S : m.o[t] # None /\ \E x \in Vin[t] : Prev[x] = p}]]

Orphans(m) == {t \in Tx : m.o[t] # None}
Set(m) == orphan' = m.o /\ byPrev' = m.b

\* Message "tx" whose transaction is accepted: the orphans that spend it come next.
ReceiveTx(t, v) ==
  /\ pc = "idle"
  /\ Accepts(pool, t, v) = "yes"
  /\ pool' = addUnchecked(pool, t)
  /\ pc' = "orphans" /\ work' = <<t>> /\ todo' = byPrev[t]
  /\ UNCHANGED <<chain, orphan, byPrev, erase, misb>>

\* Message "tx" with missing inputs.  LimitOrphanTxSize evicts orphans at random.
ReceiveOrphan(t, peer, v) ==
  /\ pc = "idle"
  /\ Accepts(pool, t, v) = "missing"
  /\ LET m == IF orphan[t] = None THEN AddOrphanTx(t, peer) ELSE [o |-> orphan, b |-> byPrev]
     IN  \E out \in SUBSET Orphans(m) :
           /\ Cardinality(out) = IF Cardinality(Orphans(m)) > MaxOrphans
                                 THEN Cardinality(Orphans(m)) - MaxOrphans ELSE 0
           /\ Set(EraseOrphans(m, out))
  /\ UNCHANGED <<chain, pool, loop>>

\* CommitTransaction and sendrawtransaction do not look at the orphans.
SubmitTx(t, v) ==
  /\ pc = "idle"
  /\ Accepts(pool, t, v) = "yes"
  /\ pool' = addUnchecked(pool, t)
  /\ UNCHANGED <<chain, orphan, byPrev, loop>>

\* The loop over the orphans of vWorkQueue[i], in the order of their hashes.
TryOrphan(t, v) ==
  LET r == Accepts(pool, t, v)
  IN
  /\ pc = "orphans" /\ t \in todo
  /\ todo' = todo \ {t}
  /\ IF orphan[t] \in misb
     THEN UNCHANGED <<pool, work, erase, misb>>
     ELSE /\ pool' = IF r = "yes" THEN addUnchecked(pool, t) ELSE pool
          /\ work' = IF r = "yes" THEN Append(work, t) ELSE work
          /\ erase' = IF r = "missing" THEN erase ELSE erase \cup {t}
          /\ misb' = IF r = "bad" THEN misb \cup {orphan[t]} ELSE misb
  /\ UNCHANGED <<chain, orphan, byPrev, pc>>

NextWork ==
  /\ pc = "orphans" /\ todo = {}
  /\ IF Len(work) > 1
     THEN /\ work' = Tail(work) /\ todo' = byPrev[work[2]]
          /\ UNCHANGED <<orphan, byPrev, pc, erase, misb>>
     ELSE /\ pc' = "idle" /\ work' = <<>> /\ todo' = {} /\ erase' = {} /\ misb' = {}
          /\ Set(EraseOrphans([o |-> orphan, b |-> byPrev], erase))
  /\ UNCHANGED <<chain, pool>>

\* FinalizeNode
EraseOrphansFor(peer) ==
  /\ pc = "idle"
  /\ \E t \in Tx : orphan[t] = peer
  /\ Set(EraseOrphans([o |-> orphan, b |-> byPrev], {t \in Tx : orphan[t] = peer}))
  /\ UNCHANGED <<chain, pool, loop>>

-----------------------------------------------------------------------------
\* ConnectBlock accepts the block: every input is there, unspent and mature.
Connects(c, vtx) ==
  \A i \in DOMAIN vtx :
    LET before == {vtx[j] : j \in 1 .. i - 1}
    IN  /\ vtx[i] \notin Confirmed(c) \cup before
        /\ Vin[vtx[i]] \cap UNION {Vin[t] : t \in before} = {}
        /\ \A o \in Vin[vtx[i]] : \/ o \in Coins(c) /\ IsMature(c, o)
                                  \/ Prev[o] \in before \ Generated

ConnectTip(vtx) ==
  /\ pc = "idle"
  /\ Len(chain) < MaxHeight /\ Connects(chain, vtx)
  /\ chain' = Append(chain, vtx)
  /\ pool' = removeForBlock(pool, vtx)
  /\ UNCHANGED <<orphan, byPrev, loop>>

\* DisconnectTip, up to the flush of the coins.
DisconnectTip ==
  /\ pc = "idle" /\ chain # <<>>
  /\ chain' = Front(chain)
  /\ pc' = "resurrect" /\ work' = Last(chain)
  /\ UNCHANGED <<pool, orphan, byPrev, todo, erase, misb>>

\* "Resurrect mempool transactions from the disconnected block."
Resurrect(v) ==
  /\ pc = "resurrect" /\ work # <<>>
  /\ work' = Tail(work)
  /\ pool' = IF Accepts(pool, Head(work), v) = "yes" THEN addUnchecked(pool, Head(work))
             ELSE RemoveRecursive(pool, Head(work))
  /\ UNCHANGED <<chain, orphan, byPrev, pc, todo, erase, misb>>

EndDisconnect ==
  /\ pc = "resurrect" /\ work = <<>>
  /\ pc' = "idle"
  /\ pool' = removeCoinbaseSpends(pool, chain)
  /\ UNCHANGED <<chain, orphan, byPrev, work, todo, erase, misb>>

Next ==
  \/ \E t \in Tx, v \in Verdict :
       \/ ReceiveTx(t, v) \/ SubmitTx(t, v) \/ TryOrphan(t, v)
       \/ \E peer \in Peer : ReceiveOrphan(t, peer, v)
  \/ NextWork
  \/ \E peer \in Peer : EraseOrphansFor(peer)
  \/ \E vtx \in Block : ConnectTip(vtx)
  \/ DisconnectTip \/ EndDisconnect
  \/ \E v \in Verdict : Resurrect(v)

Spec == Init /\ [][Next]_vars

-----------------------------------------------------------------------------
\* Properties

\* CTxMemPool::check, called wherever a step ends: mapNextTx records exactly the
\* inputs of the pool, and every input is an output of the pool or an unspent coin
\* of the chain that the next block may spend.
InputsTracked ==
  \A o \in Outpoint, t \in Tx : pool.next[o] = t <=> t \in pool.tx /\ o \in Vin[t]
InputsAvailable ==
  \A t \in pool.tx : \A o \in Vin[t] :
    Prev[o] \in pool.tx \/ (o \in Coins(chain) /\ IsMature(chain, o))
PoolCheck == pc # "resurrect" => InputsTracked /\ InputsAvailable
                                 /\ pool.total = Cardinality(pool.tx)

\* CCoinsViewMemPool::GetCoins: an entry of the pool "is guaranteed to never conflict
\* with the underlying cache": no transaction of the pool is in the active chain.
PoolNotConfirmed == pool.tx \cap Confirmed(chain) = {}

\* The two maps of orphans agree whenever one of them is walked, so that the handler of
\* "tx" never looks up an orphan that is gone, and the limit is kept.
OrphansIndexed ==
  /\ \A p, t \in Tx : t \in byPrev[p] <=> orphan[t] # None /\ \E o \in Vin[t] : Prev[o] = p
  /\ Cardinality({t \in Tx : orphan[t] # None}) <= MaxOrphans

\* remove, removeConflicts, removeCoinbaseSpends: a transaction leaves the pool only
\* with a reason: it is in the connected block, or it or an ancestor of it in the pool
\* spends what the block spends, depends on a transaction of the disconnected block
\* that was not taken back, or spends a generated output that is not mature any more.
Cause(a) ==
  \/ /\ Len(chain') > Len(chain)
     /\ \E u \in ToSet(Last(chain')) : a # u /\ Vin[a] \cap Vin[u] # {}
  \/ /\ pc = "resurrect" /\ work # <<>>
     /\ \E o \in Vin[a] : Prev[o] = Head(work)
  \/ /\ pc = "resurrect" /\ work = <<>>
     /\ \E o \in Vin[a] : Prev[o] \in Generated /\ ~ IsMature(chain, o)
LeaveStep ==
  \A t \in pool.tx \ pool'.tx :
    \/ chain' # <<>> /\ t \in ToSet(Last(chain'))
    \/ \E a \in pool.tx : t \in Descent(pool, {a}) /\ Cause(a)
LeavesForCause == [][LeaveStep]_vars
=============================================================================
