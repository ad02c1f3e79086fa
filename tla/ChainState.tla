----------------------------- MODULE ChainState -----------------------------
(***************************************************************************)
(* The block tree and the choice of the active chain (main.cpp): headers   *)
(* and block data arriving in any order, setBlockIndexCandidates,          *)
(* ActivateBestChain, and the three operations that undo a choice:         *)
(* InvalidateBlock, ReconsiderBlock and the replay of the last blocks that *)
(* sporks and SwiftTX ask for.                                             *)
(*                                                                         *)
(* Every action is one critical section of cs_main.  ActivateBestChain     *)
(* releases cs_main between its steps, so other threads' actions come      *)
(* between them; `activating' says that some thread is inside its loop.    *)
(* System errors (disk full, unreadable block) stop the node and are not   *)
(* modelled.                                                               *)
(***************************************************************************)
EXTENDS Naturals, FiniteSets

CONSTANTS
  Block,       \* the blocks that exist
  Genesis,
  Parent,      \* [Block \ {Genesis} -> Block]: hashPrevBlock
  Path,        \* [Block -> SUBSET Block]: a block and its ancestors
  Work,        \* [Block -> Nat]: nChainWork
  Invalid,     \* blocks that ConnectBlock always refuses
  Contested,   \* blocks refused or not by what the node knows at the time:
               \*   transaction locks, masternode winners, budgets
  Operators,   \* which of the undo operations are used
  ReplayDepth  \* DisconnectBlocksAndReprocess disconnects 1 + ReplayDepth tips

ASSUME TreeAssumption ==
  /\ IsFiniteSet(Block)
  /\ Genesis \in Block \ (Invalid \cup Contested)
  /\ Parent \in [Block \ {Genesis} -> Block]
  /\ Path \in [Block -> SUBSET Block]
  /\ Path[Genesis] = {Genesis}
  /\ \A b \in Block \ {Genesis} :
       b \notin Path[Parent[b]] /\ Path[b] = Path[Parent[b]] \cup {b}
  /\ \A b \in Block : \A x, y \in Path[b] :
       Path[x] \subseteq Path[b] /\ (x \in Path[y] \/ y \in Path[x])
  /\ Work \in [Block -> Nat]
  /\ \A b \in Block \ {Genesis} : Work[Parent[b]] < Work[b]
  /\ Operators \subseteq {"invalidate", "reconsider", "replay"}
  /\ ReplayDepth \in Nat

VARIABLES
  index,        \* mapBlockIndex
  data,         \* BLOCK_HAVE_DATA
  linked,       \* nChainTx # 0
  failedValid,  \* BLOCK_FAILED_VALID
  failedChild,  \* BLOCK_FAILED_CHILD
  seq,          \* nSequenceId
  candidates,   \* setBlockIndexCandidates
  unlinked,     \* mapBlocksUnlinked, as the set of its values
  tip,          \* chainActive.Tip()
  activating    \* some thread is inside ActivateBestChain

vars == <<index, data, linked, failedValid, failedChild, seq, candidates,
          unlinked, tip, activating>>

-----------------------------------------------------------------------------
Failed == failedValid \cup failedChild         \* BLOCK_FAILED_MASK
chainActive == Path[tip]
Height(b) == Cardinality(Path[b]) - 1          \* nHeight
Descendants(b) == {x \in index : b \in Path[x]}

\* CBlockIndexWorkComparator: a sorts before b.
Worse(s, a, b) ==
  Work[a] < Work[b] \/ (Work[a] = Work[b] /\ s[a] > s[b])

\* Mutant: candidates that are worse than the tip stay.
PruneNothing(C, t) == C

\* PruneBlockIndexCandidates, for the tip t.
PruneBlockIndexCandidates(C, t) == {c \in C : ~ Worse(seq, c, t)}

TypeOK ==
  /\ index \in SUBSET Block
  /\ data \in SUBSET index
  /\ linked \in SUBSET data
  /\ failedValid \in SUBSET index
  /\ failedChild \in SUBSET index
  /\ seq \in [Block -> Nat]
  /\ candidates \in SUBSET linked
  /\ unlinked \in SUBSET data
  /\ tip \in linked
  /\ activating \in BOOLEAN

\* InitBlockIndex: the genesis block is stored, linked and active.
Init ==
  /\ index = {Genesis}
  /\ data = {Genesis}
  /\ linked = {Genesis}
  /\ failedValid = {}
  /\ failedChild = {}
  /\ seq = [b \in Block |-> IF b = Genesis THEN 1 ELSE 0]
  /\ candidates = {Genesis}
  /\ unlinked = {}
  /\ tip = Genesis
  /\ activating = FALSE

-----------------------------------------------------------------------------
\* AcceptBlockHeader admits b: it is known and not failed, or its parent is.
HeaderAcceptable(b) ==
  IF b \in index THEN b \notin Failed
  ELSE b # Genesis /\ Parent[b] \in index \ Failed

\* A "headers" message: AcceptBlockHeader adds b to the index.
AcceptBlockHeader(b) ==
  /\ b \notin index
  /\ HeaderAcceptable(b)
  /\ index' = index \cup {b}
  /\ UNCHANGED <<data, linked, failedValid, failedChild, seq, candidates,
                 unlinked, tip, activating>>

\* The parent is known and not failed, and so is b (AcceptBlock's early returns).
BlockAcceptable(b) ==
  /\ b \notin data
  /\ Parent[b] \in index \ Failed
  /\ HeaderAcceptable(b)

\* Mutant: blocks that waited for b stay unlinked.
LinkedAlone(b) == {b}

\* Blocks that become linked when the data of b arrives: b and what waited for it.
NewlyLinked(b) ==
  {b} \cup {x \in unlinked : b \in Path[x] /\ Path[x] \ Path[b] \subseteq unlinked}

\* The sequence numbers ReceivedBlockTransactions gives to D, parents first.
SequenceIds(D) ==
  LET first == 1 + Cardinality({b \in Block : seq[b] # 0})
  IN  {f \in [D -> first .. first + Cardinality(D) - 1] :
         \A x, y \in D : /\ f[x] = f[y] => x = y
                         /\ Height(x) < Height(y) => f[x] < f[y]}

\* Mutant: only blocks that extend the active chain become candidates.
ExtendsTip(s, D) == {x \in D : tip \in Path[x]}

\* Linked blocks that are at least as good as the tip.
AsGoodAsTip(s, D) == {x \in D : ~ Worse(s, x, tip)}

\* ProcessNewBlock: AcceptBlock stores the data of b, ReceivedBlockTransactions
\* links what can be linked, then ActivateBestChain is called.
AcceptBlock(b) ==
  /\ b # Genesis
  /\ BlockAcceptable(b)
  /\ index' = index \cup {b}
  /\ data' = data \cup {b}
  /\ \/ /\ Parent[b] \in linked
        /\ \E f \in SequenceIds(NewlyLinked(b)) :
             LET D == NewlyLinked(b)
                 s == [x \in Block |-> IF x \in D THEN f[x] ELSE seq[x]]
             IN  /\ seq' = s
                 /\ linked' = linked \cup D
                 /\ candidates' = candidates \cup AsGoodAsTip(s, D)
                 /\ unlinked' = unlinked \ D
     \/ /\ Parent[b] \notin linked
        /\ unlinked' = unlinked \cup {b}
        /\ UNCHANGED <<linked, seq, candidates>>
  /\ activating' = TRUE
  /\ UNCHANGED <<failedValid, failedChild, tip>>

\* AcceptBlock returns early for a block it already has; ProcessNewBlock goes on
\* to ActivateBestChain all the same.
AcceptDuplicate(b) ==
  /\ b \in data \ Failed
  /\ b # Genesis => Parent[b] \notin Failed
  /\ activating' = TRUE
  /\ UNCHANGED <<index, data, linked, failedValid, failedChild, seq, candidates,
                 unlinked, tip>>

\* AcceptBlock refuses b: CheckBlock passed when ProcessNewBlock called it
\* without cs_main and fails now, or ContextualCheckBlock fails.
RejectBlock(b) ==
  /\ b # Genesis
  /\ b \in Invalid \cup Contested
  /\ BlockAcceptable(b)
  /\ index' = index \cup {b}
  /\ failedValid' = failedValid \cup {b}
  /\ UNCHANGED <<data, linked, failedChild, seq, candidates, unlinked, tip,
                 activating>>

-----------------------------------------------------------------------------
\* FindMostWorkChain.  The path from c down to the active chain has a failed block.
OffChain(c) == Path[c] \ chainActive
Usable(c) == OffChain(c) \cap Failed = {}

\* The candidate it returns ({} when it returns NULL).
MostWork ==
  {c \in candidates : /\ Usable(c)
                      /\ \A d \in candidates : Usable(d) => ~ Worse(seq, c, d)}

\* The candidates it meets first and gives up: those better than the one returned.
GivenUp ==
  {c \in candidates : ~ Usable(c) /\ \A m \in MostWork : Worse(seq, m, c)}

\* Mutant: the whole branch is given up, also below the failed block.
DiscardedBranch == UNION {OffChain(c) : c \in GivenUp}

\* What it removes with them: the blocks from each down to the nearest failed
\* one; those above it are marked BLOCK_FAILED_CHILD.
Discarded ==
  {x \in index : \E c \in GivenUp : /\ x \in OffChain(c)
                                    /\ ~ Usable(x)
                                    /\ (Path[c] \ Path[x]) \cap Failed = {}}

CandidatesLeft == candidates \ Discarded

\* ActivateBestChainStep may get from the fork with the path of m to t: t is
\* on the way, no block up to t is refused, and none before t beats the old tip.
Connects(m, t) ==
  LET way == Path[t] \ chainActive
  IN  /\ t \in Path[m]
      /\ chainActive \cap Path[m] \subseteq Path[t]
      /\ way \cap Invalid = {}
      /\ \A x \in way \ {t} : Work[x] <= Work[tip]

\* Mutant: the refused block is neither marked nor erased.
ForgetInvalidBlock(x, C) == candidates' = C /\ UNCHANGED failedValid

\* InvalidBlockFound: ConnectBlock refused x; C are the candidates then.
\* (A verdict of possible corruption marks nothing. A stored block has passed the
\* checks that give it, so it takes a damaged file, which is not modelled.)
InvalidBlockFound(x, C) ==
  /\ failedValid' = failedValid \cup {x}
  /\ candidates' = C \ {x}

\* ActivateBestChainStep towards m: disconnect to the fork, then connect blocks
\* until m is reached, the tip beats the old one, or the next block x is refused.
\* Candidates are pruned after each connected block; InvalidBlockFound marks x.
ActivateBestChainStep(m) ==
  \E t \in Block :
    /\ Connects(m, t)
    /\ tip' = t
    /\ activating' = (t # m)
    /\ LET kept == IF t \in chainActive THEN CandidatesLeft
                   ELSE PruneBlockIndexCandidates(CandidatesLeft, t)
       IN  \/ /\ t = m \/ (t \notin chainActive /\ Work[t] > Work[tip])
              /\ candidates' = kept
              /\ UNCHANGED failedValid
           \/ \E x \in Path[m] \cap (Invalid \cup Contested) :
                /\ Parent[x] = t
                /\ t \in chainActive \/ Work[t] <= Work[tip]
                /\ InvalidBlockFound(x, kept)

\* One round of the loop in ActivateBestChain.
ActivateBestChain ==
  /\ activating
  /\ failedChild' = failedChild \cup (Discarded \ Failed)
  /\ \/ /\ MostWork \subseteq {tip}
        /\ activating' = FALSE
        /\ candidates' = CandidatesLeft
        /\ UNCHANGED <<failedValid, tip>>
     \/ \E m \in MostWork \ {tip} : ActivateBestChainStep(m)
  /\ UNCHANGED <<index, data, linked, seq, unlinked>>

-----------------------------------------------------------------------------
\* Mutant: nChainTx is not looked at.
ValidWithData(failed) == data \ failed

\* IsValid(BLOCK_VALID_TRANSACTIONS) && nChainTx, with the marks `failed'.
ValidLinked(failed) == linked \ failed

\* Mutant: only an invalidated tip is disconnected.
TipAfterInvalidTip(b) == IF b = tip THEN Parent[b] ELSE tip

\* The tip once b and what is above it is disconnected.
TipWithout(b) == IF b \in chainActive THEN Parent[b] ELSE tip

\* RPC invalidateblock: InvalidateBlock, then ActivateBestChain.
InvalidateBlock(b) ==
  LET cut == chainActive \cap Descendants(b)
      t   == TipWithout(b)
  IN
  /\ "invalidate" \in Operators
  /\ b \in index \ {Genesis}
  /\ failedValid' = failedValid \cup {b}
  /\ failedChild' = failedChild \cup cut
  /\ tip' = t
  /\ candidates' = (candidates \ (cut \cup {b}))
                     \cup {x \in ValidLinked(failedValid' \cup failedChild') :
                             ~ Worse(seq, x, t)}
  /\ activating' = TRUE
  /\ UNCHANGED <<index, data, linked, seq, unlinked>>

\* RPC reconsiderblock and ReprocessBlocks: ReconsiderBlock, then ActivateBestChain.
ReconsiderBlock(b) ==
  LET cleared == Descendants(b) \cap Failed
  IN
  /\ "reconsider" \in Operators
  /\ b \in index
  /\ failedValid' = failedValid \ (cleared \cup Path[b])
  /\ failedChild' = failedChild \ (cleared \cup Path[b])
  /\ candidates' = candidates \cup {x \in cleared \cap linked : Worse(seq, tip, x)}
  /\ activating' = TRUE
  /\ UNCHANGED <<index, data, linked, seq, unlinked, tip>>

\* ReprocessBlocks: DisconnectBlocksAndReprocess takes the last blocks off the
\* active chain, then ActivateBestChain is called.
ReprocessBlocks ==
  /\ "replay" \in Operators
  /\ Height(tip) > ReplayDepth
  /\ tip' \in {t \in chainActive : Height(t) + ReplayDepth + 1 = Height(tip)}
  /\ activating' = TRUE
  /\ UNCHANGED <<index, data, linked, failedValid, failedChild, seq, candidates,
                 unlinked>>

Next ==
  \/ \E b \in Block : \/ AcceptBlockHeader(b)
                      \/ AcceptBlock(b)
                      \/ AcceptDuplicate(b)
                      \/ RejectBlock(b)
                      \/ InvalidateBlock(b)
                      \/ ReconsiderBlock(b)
  \/ ActivateBestChain
  \/ ReprocessBlocks

Spec == Init /\ [][Next]_vars

-----------------------------------------------------------------------------
\* Properties (CheckBlockIndex states most of them as assertions)

\* No block of the active chain is marked failed, whatever operations and
\* threads interleave: ActivateBestChain takes it for granted and never looks.
ActiveChainNotFailed == chainActive \cap Failed = {}

\* nChainTx is set exactly for the blocks all of whose ancestors have data, and
\* mapBlocksUnlinked holds exactly the others that have data themselves
\* (asserted in CheckBlockIndex), although data arrives in any order.
LinksMatchData ==
  /\ \A b \in index : b \in linked <=> Path[b] \subseteq data
  /\ unlinked = data \ linked

\* setBlockIndexCandidates (CheckBlockIndex): a linked block without a failed
\* ancestor that is as good as the tip is a candidate ("If this block sorts at
\* least as good as the current tip and is valid, it must be in
\* setBlockIndexCandidates"), and no candidate is worse than the tip.
Viable(b) == b \in linked /\ Path[b] \cap failedValid = {}
CandidatesAreRight ==
  /\ \A b \in index : Viable(b) /\ ~ Worse(seq, b, tip) => b \in candidates
  /\ \A b \in candidates : ~ Worse(seq, b, tip)

\* The same, where ActivateBestChain itself calls CheckBlockIndex: at its end.
CandidatesSettle == ~ activating => CandidatesAreRight

\* ActivateBestChain: when no thread is in it, no viable block has more work
\* than the tip ("The result is either failure or an activated best chain").
BestChainActive ==
  ~ activating => \A b \in index : Viable(b) => Work[b] <= Work[tip]

\* CheckBlockIndex: "The failed mask cannot be set for blocks without invalid
\* parents."
FailedHasInvalidAncestor ==
  ~ activating => \A b \in Failed : Path[b] \cap failedValid # {}

\* A thread inside ActivateBestChain goes on: it retries TRY_LOCK(cs_main) until
\* it gets it.
FairSpec == Spec /\ WF_vars(ActivateBestChain)

\* ActivateBestChain ends: every refused block is marked, so its loop cannot
\* choose the same chain again.
ActivationEnds == activating ~> ~ activating
=============================================================================
