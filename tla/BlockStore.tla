----------------------------- MODULE BlockStore -----------------------------
(***************************************************************************)
(* What a node keeps on disk and how it finds its way back after a crash   *)
(* (main.cpp, txdb.cpp, init.cpp): the block file, the block index data    *)
(* base with the file information, and the chain                           *)
(* state.  FlushStateToDisk writes them one after the other, ConnectBlock  *)
(* and DisconnectBlock write some of them ahead of it, and LoadBlockIndexDB *)
(* repairs what an unclean shutdown left.                                  *)
(*                                                                         *)
(* Everything runs under cs_main, so the steps of one operation are        *)
(* separated only by crashes of the process; what was written survives.    *)
(* There is one block file, and a block takes one place in it.  Which      *)
(* block is connected or disconnected next is left open: see ChainState.   *)
(* So is whether a block is refused, which depends on the node's masternode *)
(* and budget data and so on the moment.                                   *)
(***************************************************************************)
EXTENDS Naturals, FiniteSets

CONSTANTS
  Block,     \* the blocks that exist
  Genesis,
  Parent,    \* [Block \ {Genesis} -> Block]: hashPrevBlock
  Path,      \* [Block -> SUBSET Block]: a block and its ancestors
  NoBlock,   \* a place of the file that was not written
  FileSize,  \* bound: the places of the block file
  Announced, \* bound: the blocks whose header may arrive before the block
  Refusable  \* bound: the blocks a check may refuse

ASSUME StoreAssumption ==
  /\ IsFiniteSet(Block)
  /\ Genesis \in Block /\ NoBlock \notin Block
  /\ Parent \in [Block \ {Genesis} -> Block]
  /\ Path \in [Block -> SUBSET Block]
  /\ Path[Genesis] = {Genesis}
  /\ \A b \in Block \ {Genesis} :
       b \notin Path[Parent[b]] /\ Path[b] = Path[Parent[b]] \cup {b}
  /\ \A b \in Block : \A x \in Path[b] : Path[x] \subseteq Path[b]
  /\ FileSize \in Nat \ {0}
  /\ Announced \subseteq Block /\ Refusable \subseteq Block

VARIABLES
  file,      \* the block file: which block is at each place
  dIndex,    \* the block index on disk
  dInfo,     \* CBlockFileInfo on disk: nSize and nHeightLast
  dCoins,    \* the best block of the chain state on disk
  dClean,    \* the flag "shutdown" on disk
  index,     \* mapBlockIndex
  dirty,     \* setDirtyBlockIndex
  info,      \* vinfoBlockFile[nLastBlockFile]
  infoDirty, \* setDirtyFileInfo is not empty
  coins,     \* the best block of pcoinsTip, and chainActive.Tip()
  pc,        \* where the thread that holds cs_main is
  cur,       \* the block it works on
  stopping,  \* the flush is that of Shutdown
  start      \* how the last start ended

disk == <<file, dIndex, dInfo, dCoins, dClean>>
memory == <<index, dirty, info, infoDirty, coins>>
vars == <<disk, memory, pc, cur, stopping, start>>

Height(b) == Cardinality(Path[b]) - 1

\* The entries of a block index: pos is nDataPos with BLOCK_HAVE_DATA (0 without),
\* undo is BLOCK_HAVE_UNDO, failed is BLOCK_FAILED_VALID.
Index == [known : SUBSET Block, pos : [Block -> 0 .. FileSize],
          undo : SUBSET Block, failed : SUBSET Block]
\* nHeightLast is the height of a block.
Info == [size : 0 .. FileSize, height : {Height(b) : b \in Block}]
PC == {"run", "connect", "disconnect", "info", "entries", "coins", "flag", "down", "lost"}

TypeOK ==
  /\ file \in [1 .. FileSize -> Block \cup {NoBlock}]
  /\ dIndex \in Index /\ index \in Index
  /\ dInfo \in Info /\ info \in Info
  /\ dCoins \in Block /\ coins \in Block /\ cur \in Block
  /\ dClean \in BOOLEAN /\ infoDirty \in BOOLEAN /\ stopping \in BOOLEAN
  /\ dirty \in SUBSET Block
  /\ pc \in PC
  /\ start \in {"ok", "bounds", "assert", "abort"}

\* InitBlockIndex: the genesis block is stored, connected and flushed.
Init ==
  /\ file = [n \in 1 .. FileSize |-> IF n = 1 THEN Genesis ELSE NoBlock]
  /\ index = [known |-> {Genesis}, pos |-> [b \in Block |-> IF b = Genesis THEN 1 ELSE 0],
              undo |-> {}, failed |-> {}]
  /\ info = [size |-> 1, height |-> 0]
  /\ coins = Genesis
  /\ dIndex = index /\ dInfo = info /\ dCoins = coins
  /\ dClean = FALSE
  /\ dirty = {} /\ infoDirty = FALSE
  /\ pc = "run" /\ cur = Genesis /\ stopping = FALSE /\ start = "ok"

-----------------------------------------------------------------------------
\* ReadBlockFromDisk: the block is where the index i says.
Readable(i, b) == i.pos[b] # 0 /\ file[i.pos[b]] = b

\* WriteBlockIndex: the entry of b in the index i goes to disk.
WriteBlockIndex(i, b) ==
  dIndex' = [known |-> dIndex.known \cup {b},
             pos   |-> [dIndex.pos EXCEPT ![b] = i.pos[b]],
             undo  |-> IF b \in i.undo THEN dIndex.undo \cup {b} ELSE dIndex.undo \ {b},
             failed |-> IF b \in i.failed THEN dIndex.failed \cup {b}
                                           ELSE dIndex.failed \ {b}]

\* "block is marked invalid", "prev block invalid"
NotFailed(i, b) == b \notin i.failed /\ Parent[b] \notin i.failed

\* AcceptBlockHeader: AddToBlockIndex makes an entry without data.
AcceptBlockHeader(b) ==
  /\ pc = "run"
  /\ b \in Announced \ index.known /\ Parent[b] \in index.known /\ NotFailed(index, b)
  /\ index' = [index EXCEPT !.known = @ \cup {b}]
  /\ dirty' = dirty \cup {b}
  /\ UNCHANGED <<disk, info, infoDirty, coins, pc, cur, stopping, start>>

\* AcceptBlock: CheckBlock or ContextualCheckBlock refuses the block.
RejectBlock(b) ==
  /\ pc = "run"
  /\ b \in Refusable \ {Genesis} /\ Parent[b] \in index.known /\ index.pos[b] = 0
  /\ NotFailed(index, b)
  /\ index' = [index EXCEPT !.known = @ \cup {b}, !.failed = @ \cup {b}]
  /\ dirty' = dirty \cup {b}
  /\ UNCHANGED <<disk, info, infoDirty, coins, pc, cur, stopping, start>>

\* AcceptBlock: FindBlockPos, WriteBlockToDisk, ReceivedBlockTransactions.
AcceptBlock(b) ==
  LET n == info.size + 1
  IN
  /\ pc = "run"
  /\ b # Genesis /\ Parent[b] \in index.known /\ index.pos[b] = 0
  /\ NotFailed(index, b)
  /\ n <= FileSize
  /\ file' = [file EXCEPT ![n] = b]
  /\ info' = [size |-> n, height |-> IF Height(b) > info.height THEN Height(b)
                                     ELSE info.height]
  /\ infoDirty' = TRUE
  /\ index' = [index EXCEPT !.known = @ \cup {b}, !.pos[b] = n]
  /\ dirty' = dirty \cup {b}
  /\ UNCHANGED <<dIndex, dInfo, dCoins, dClean, coins, pc, cur, stopping, start>>

\* ConnectBlock on top of the tip, up to WriteBlockIndex: the entry goes to disk
\* ahead of every other write.
BeginConnect(b) ==
  /\ pc = "run"
  /\ b # Genesis /\ Parent[b] = coins /\ b \in index.known \ index.failed
  /\ Readable(index, b)
  /\ WriteBlockIndex(index, b)
  /\ pc' = "connect" /\ cur' = b
  /\ UNCHANGED <<file, dInfo, dCoins, dClean, memory, stopping, start>>

\* The rest of ConnectBlock: undo data, and the view's Flush into pcoinsTip.
EndConnect ==
  /\ pc = "connect"
  /\ pc' = "run"
  /\ coins' = cur
  /\ IF cur \in index.undo
     THEN UNCHANGED <<index, dirty, infoDirty>>
     ELSE /\ index' = [index EXCEPT !.undo = @ \cup {cur}]
          /\ dirty' = dirty \cup {cur}
          /\ infoDirty' = TRUE
  /\ cur' = Genesis
  /\ UNCHANGED <<file, dIndex, dInfo, dCoins, dClean, info, stopping, start>>

\* ConnectBlock refuses the block after its entry was written, and InvalidBlockFound
\* marks it.
RefuseBlock ==
  /\ pc = "connect" /\ cur \in Refusable
  /\ index' = [index EXCEPT !.failed = @ \cup {cur}]
  /\ dirty' = dirty \cup {cur}
  /\ pc' = "run" /\ cur' = Genesis
  /\ UNCHANGED <<disk, info, infoDirty, coins, stopping, start>>

\* DisconnectTip reads the block and its undo data.
BeginDisconnect ==
  /\ pc = "run"
  /\ coins # Genesis /\ coins \in index.undo /\ Readable(index, coins)
  /\ pc' = "disconnect" /\ cur' = coins
  /\ UNCHANGED <<file, dIndex, dInfo, dCoins, dClean, memory, stopping, start>>

\* The view is flushed into pcoinsTip, and FlushStateToDisk called with
\* FLUSH_STATE_ALWAYS.
EndDisconnect ==
  /\ pc = "disconnect"
  /\ coins' = Parent[cur]
  /\ pc' = "info" /\ cur' = Genesis
  /\ UNCHANGED <<disk, index, dirty, info, infoDirty, stopping, start>>

-----------------------------------------------------------------------------
\* FlushStateToDisk is called after a block was connected or a chain activated,
\* and by Shutdown.
BeginFlush(last) ==
  /\ pc = "run"
  /\ pc' = "info"
  /\ stopping' = last
  /\ UNCHANGED <<disk, memory, cur, start>>

\* "Then update all block file information"
WriteBlockFileInfo ==
  /\ pc = "info"
  /\ pc' = "entries"
  /\ dInfo' = IF infoDirty THEN info ELSE dInfo
  /\ infoDirty' = FALSE
  /\ UNCHANGED <<file, dIndex, dCoins, dClean, index, dirty, info, coins, cur,
                 stopping, start>>

\* Mutant: the coins are written before the entries of the index.
CoinsFirst(b) ==
  /\ pc = "entries" /\ b \in dirty
  /\ dCoins' = coins
  /\ WriteBlockIndex(index, b)
  /\ dirty' = dirty \ {b}
  /\ UNCHANGED <<file, dInfo, dClean, index, info, infoDirty, coins, pc, cur,
                 stopping, start>>

\* The entries of setDirtyBlockIndex, one at a time, in the order of their addresses.
WriteDirtyEntry(b) ==
  /\ pc = "entries" /\ b \in dirty
  /\ WriteBlockIndex(index, b)
  /\ dirty' = dirty \ {b}
  /\ UNCHANGED <<file, dInfo, dCoins, dClean, index, info, infoDirty, coins, pc,
                 cur, stopping, start>>

EntriesWritten ==
  /\ pc = "entries" /\ dirty = {}
  /\ pc' = "coins"
  /\ UNCHANGED <<disk, memory, cur, stopping, start>>

\* "Finally flush the chainstate (which may refer to block index entries)."
FlushCoins ==
  /\ pc = "coins"
  /\ dCoins' = coins
  /\ pc' = IF stopping THEN "flag" ELSE "run"
  /\ UNCHANGED <<file, dIndex, dInfo, dClean, memory, cur, stopping, start>>

\* Shutdown records that it was followed.
PrepareShutdown ==
  /\ pc = "flag"
  /\ dClean' = TRUE
  /\ pc' = "down" /\ stopping' = FALSE
  /\ UNCHANGED <<file, dIndex, dInfo, dCoins, memory, cur, start>>

\* The process dies: the memory is lost, and what it holds until the next start is
\* of no account.
Crash ==
  /\ pc \notin {"down", "lost"}
  /\ index' = dIndex /\ dirty' = {} /\ info' = dInfo /\ infoDirty' = FALSE
  /\ coins' = dCoins
  /\ pc' = "down" /\ cur' = Genesis /\ stopping' = FALSE
  /\ UNCHANGED <<disk, start>>

-----------------------------------------------------------------------------
\* LoadBlockIndexDB.  An entry whose parent is not stored gets an empty parent
\* (InsertBlockIndex) of height 0; where that leads is not followed.
Torn == \E b \in dIndex.known \ {Genesis} : Parent[b] \notin dIndex.known

Stored == Cardinality(dIndex.known)     \* vSortedByHeight.size()
UpTo(h) == Cardinality({b \in dIndex.known : Height(b) <= h})

\* The entry b may be at place n (from 1) of vSortedByHeight.
SortedAt(b, n) ==
  /\ b \in dIndex.known
  /\ Cardinality({x \in dIndex.known : Height(x) < Height(b)}) < n
  /\ n <= UpTo(Height(b))

\* "Check for inconsistency with block file info and internal state"
Inconsistent ==
  /\ ~ dClean
  /\ Stored # dInfo.height + 1
  /\ dInfo.height # 0

\* Mutant: nHeightLast is taken for a count, and a block is skipped.
MetaPlaceAfterNext ==
  LET n == dInfo.height + 3
  IN  IF n <= Stored THEN n ELSE Stored

\* The place of pindexLastMeta: the first from nHeightLast + 1 (counted from 0) on
\* that is above the coins, or the last.
MetaPlace ==
  LET first == dInfo.height + 2
      above == UpTo(Height(dCoins)) + 1
      n     == IF above > first THEN above ELSE first
  IN  IF n <= Stored THEN n ELSE Stored

\* pindexLastMeta and the last entry; entries of one height are sorted by address.
MetaAndLast(meta, last) ==
  /\ SortedAt(meta, MetaPlace) /\ SortedAt(last, Stored)
  /\ (meta = last) <=> (MetaPlace = Stored)

\* Blocks that can be connected from what is stored when those of F are refused, and
\* the best of them.
Linked(F) == {b \in dIndex.known : \A x \in Path[b] : dIndex.pos[x] # 0
                                                      /\ x \notin dIndex.failed \cup F}
MostWork(F) == {b \in Linked(F) : \A x \in Linked(F) : Height(x) <= Height(b)}

\* ActivateBestChain may refuse the blocks of F: it came to each of them on the way to
\* a best chain, after it had refused none, some or all of the others.
Refusals(F) ==
  \A x \in F : /\ x \in Refusable \ Path[dCoins]
               /\ \A y \in Path[x] \ Path[dCoins] : Readable(dIndex, y)
               /\ \E G \in SUBSET (F \ {x}) : \E m \in MostWork(G) : x \in Path[m]

\* How far ActivateBestChain gets towards m.
Reached(m, t) ==
  /\ t \in Path[m]
  /\ Path[m] \cap Path[dCoins] \subseteq Path[t]
  /\ \A x \in Path[t] \ Path[dCoins] : Readable(dIndex, x)
  /\ t = m \/ \E x \in Path[m] : x # Genesis /\ Parent[x] = t /\ ~ Readable(dIndex, x)

Load(i, t) ==
  /\ index' = i /\ dIndex' = i
  /\ coins' = t /\ dCoins' = t
  /\ dirty' = {} /\ infoDirty' = FALSE

\* A start that finds nothing to repair.
Start ==
  /\ pc = "down" /\ ~ Torn
  /\ ~ Inconsistent
  /\ Load(dIndex, dCoins)
  /\ info' = dInfo /\ dInfo' = dInfo
  /\ dClean' = FALSE
  /\ pc' = "run" /\ start' = "ok"
  /\ UNCHANGED <<file, cur, stopping>>

\* vSortedByHeight is read past its end.
RepairOutOfBounds ==
  /\ pc = "down" /\ ~ Torn /\ Inconsistent
  /\ Stored < dInfo.height + 2
  /\ start' = "bounds"
  /\ UNCHANGED <<disk, memory, pc, cur, stopping>>

\* The tip was set to p, which the coins do not belong to: disconnecting p, or
\* connecting a block on it, fails an assertion once the block has been read.
Asserts(p) ==
  \E m \in MostWork({}) :
    IF p \in Path[m] THEN \E x \in Path[m] \ {Genesis} : Parent[x] = p /\ Readable(dIndex, x)
                     ELSE Readable(dIndex, p)

\* AcceptBlock takes pindexLastMeta again. (It may refuse it for BLOCK_FAILED_CHILD,
\* when an ancestor further back is marked.)
Processed(meta) == Readable(dIndex, meta) /\ NotFailed(dIndex, meta)
NotProcessed(meta) == ~ Readable(dIndex, meta) \/ Path[meta] \cap dIndex.failed # {}

\* pindexLastMeta is processed again from its parent.
RepairAsserts(meta, last) ==
  /\ pc = "down" /\ ~ Torn /\ Inconsistent
  /\ Stored >= dInfo.height + 2
  /\ MetaAndLast(meta, last)
  /\ Processed(meta) /\ Parent[meta] # dCoins /\ Asserts(Parent[meta])
  /\ start' = "assert"
  /\ UNCHANGED <<disk, memory, pc, cur, stopping>>

\* Mutant: the number of entries is taken for the height of the last.
LastInfoCounted(last) == [size |-> dIndex.pos[last], height |-> Stored]

\* "properly account for all of the blocks that were not in the meta data"
LastInfo(last) == [size |-> dIndex.pos[last], height |-> Height(last)]

\* The repair runs to its end: the coins are at t, the blocks of F were refused, the
\* file information is that of the last entry, everything is flushed, and the node
\* goes on or aborts.
Repair(meta, last) ==
  /\ pc = "down" /\ ~ Torn /\ Inconsistent
  /\ Stored >= dInfo.height + 2
  /\ MetaAndLast(meta, last)
  /\ \E t \in Block, F \in SUBSET Refusable :
       /\ \/ /\ Processed(meta) /\ Parent[meta] = dCoins
             /\ Refusals(F) /\ \E m \in MostWork(F) : Reached(m, t)
          \/ /\ NotProcessed(meta) \/ (Parent[meta] # dCoins /\ ~ Asserts(Parent[meta]))
             /\ F = {} /\ t = dCoins
       /\ Load([dIndex EXCEPT
                  !.undo = @ \cup ((Path[t] \cup UNION {Path[x] \ {x} : x \in F}) \ {Genesis}),
                  !.failed = @ \cup F], t)
       /\ info' = LastInfo(last) /\ dInfo' = info'
       /\ IF Readable(dIndex, meta) /\ Readable(dIndex, last) /\ t = last
          THEN pc' = "run" /\ start' = "ok" /\ dClean' = FALSE
          ELSE pc' = "down" /\ start' = "abort" /\ UNCHANGED dClean
  /\ UNCHANGED <<file, cur, stopping>>

StartTorn ==
  /\ pc = "down" /\ Torn
  /\ pc' = "lost"
  /\ UNCHANGED <<disk, memory, cur, stopping, start>>

Next ==
  \/ \E b \in Block : \/ AcceptBlockHeader(b) \/ AcceptBlock(b) \/ RejectBlock(b)
                      \/ BeginConnect(b) \/ WriteDirtyEntry(b)
  \/ EndConnect \/ RefuseBlock \/ BeginDisconnect \/ EndDisconnect
  \/ \E last \in BOOLEAN : BeginFlush(last)
  \/ WriteBlockFileInfo \/ EntriesWritten \/ FlushCoins \/ PrepareShutdown \/ Crash
  \/ Start \/ RepairOutOfBounds \/ StartTorn
  \/ \E meta, last \in Block : RepairAsserts(meta, last) \/ Repair(meta, last)

Spec == Init /\ [][Next]_vars

-----------------------------------------------------------------------------
\* Properties

\* FlushStateToDisk: at every moment at which the process can die, the chain state
\* on disk refers to a block whose whole path is in the index on disk, with data,
\* and with undo data so that it can be disconnected.
CoinsPathStored ==
  \A b \in Path[dCoins] : /\ b \in dIndex.known /\ dIndex.pos[b] # 0
                          /\ b # Genesis => b \in dIndex.undo

\* LoadBlockIndexDB: when the index is one chain of readable blocks without a failed
\* one, the coins are behind it and the file information is not ahead of the coins,
\* the next start leaves the node running, whatever crashes and repairs came before.
\* Only a block that is refused when it is connected makes that start abort (its
\* entry may have been written ahead of the verdict); the block is then marked, and
\* the start after that has nothing left to repair.
Behind ==
  /\ \E b \in Block : dIndex.known = Path[b]
  /\ \A b \in dIndex.known : Readable(dIndex, b)
  /\ dIndex.failed = {}
  /\ dInfo.height <= Height(dCoins)
  /\ Height(dCoins) + 1 < Stored
RepairStep ==
  pc = "down" /\ Behind =>
    \/ pc' = "run" /\ start' = "ok"
    \/ start' = "abort" /\ dIndex'.failed # {} /\ ~ Inconsistent'
BehindIsRepaired == [][RepairStep]_vars
=============================================================================
