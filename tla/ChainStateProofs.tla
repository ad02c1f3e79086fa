-------------------------- MODULE ChainStateProofs --------------------------
(* Theorems about ChainState, for every finite block tree, every choice of   *)
(* refused and contested blocks and every set of undo operations; what the   *)
(* code does not keep when a verdict changes or a block is reconsidered has  *)
(* the exclusion of that as a hypothesis.                                    *)
EXTENDS ChainState, FiniteSetTheorems, WellFoundedInduction, TLAPS

-----------------------------------------------------------------------------
\* Facts about the block tree.

LEMMA PathFacts ==
  ASSUME NEW b \in Block
  PROVE  /\ Path[b] \subseteq Block
         /\ b \in Path[b]
         /\ \A x \in Path[b] : Path[x] \subseteq Path[b]
         /\ \A x, y \in Path[b] : x \in Path[y] \/ y \in Path[x]
<1>1. b \in Path[b]
  BY TreeAssumption
<1> QED BY <1>1, TreeAssumption

LEMMA ParentFacts ==
  ASSUME NEW b \in Block \ {Genesis}
  PROVE  /\ Parent[b] \in Block
         /\ Parent[b] \in Path[b]
         /\ b \notin Path[Parent[b]]
         /\ Path[b] = Path[Parent[b]] \cup {b}
<1>1. Parent[b] \in Block
  BY TreeAssumption
<1> QED BY <1>1, PathFacts, TreeAssumption

LEMMA SequenceIdsType ==
  ASSUME TypeOK, NEW D \in SUBSET Block, NEW f \in SequenceIds(D), NEW x \in D
  PROVE  f[x] \in Nat
<1> DEFINE used == {b \in Block : seq[b] # 0}
<1>1. Cardinality(used) \in Nat /\ Cardinality(D) \in Nat
  BY FS_Subset, FS_CardinalityType, TreeAssumption
<1> HIDE DEF used
<1>2. f \in [D -> 1 + Cardinality(used) .. 1 + Cardinality(used) + Cardinality(D) - 1]
  BY DEF SequenceIds, used
<1> QED BY <1>1, <1>2

-----------------------------------------------------------------------------
\* The linking of blocks: the links that CheckBlockIndex asserts are kept by
\* every operation, in whatever order headers and data arrive.
LinkInv ==
  /\ TypeOK
  /\ LinksMatchData

LEMMA LinkedClosed ==
  ASSUME LinkInv, NEW b \in linked
  PROVE  Path[b] \subseteq linked
<1> SUFFICES ASSUME NEW x \in Path[b] PROVE x \in linked
  OBVIOUS
<1>1. b \in index /\ b \in Block
  BY DEF LinkInv, TypeOK
<1>2. Path[b] \subseteq data
  BY <1>1 DEF LinkInv, LinksMatchData
<1>3. x \in data /\ Path[x] \subseteq data
  BY <1>1, <1>2, PathFacts
<1> QED BY <1>3 DEF LinkInv, LinksMatchData, TypeOK

\* What AcceptBlock links is exactly what has become linkable.
LEMMA NewlyLinkedFacts ==
  ASSUME LinkInv, NEW b \in Block \ {Genesis}, b \notin data, Parent[b] \in linked
  PROVE  /\ NewlyLinked(b) \subseteq unlinked \cup {b}
         /\ \A x \in Block :
              x \in linked \cup NewlyLinked(b)
                <=> x \in index \cup {b} /\ Path[x] \subseteq data \cup {b}
<1> DEFINE D == NewlyLinked(b)
<1>1. D \subseteq unlinked \cup {b}
  BY DEF NewlyLinked
<1>2. unlinked = data \ linked /\ data \subseteq index /\ linked \subseteq data
  BY DEF LinkInv, LinksMatchData, TypeOK
<1>3. Path[Parent[b]] \subseteq linked
  BY LinkedClosed
<1>4. ASSUME NEW x \in Block, x \in linked
      PROVE  x \in index \cup {b} /\ Path[x] \subseteq data \cup {b}
  BY <1>2, <1>4, LinkedClosed
<1>5. ASSUME NEW x \in Block, x \in D
      PROVE  x \in index \cup {b} /\ Path[x] \subseteq data \cup {b}
  <2>1. CASE x = b
    BY <1>2, <1>3, <2>1, ParentFacts
  <2>2. CASE x \in unlinked /\ b \in Path[x] /\ Path[x] \ Path[b] \subseteq unlinked
    BY <1>2, <1>3, <2>2, ParentFacts
  <2> QED BY <1>5, <2>1, <2>2 DEF NewlyLinked
<1>6. ASSUME NEW x \in Block, x \in index \cup {b}, Path[x] \subseteq data \cup {b}
      PROVE  x \in linked \cup D
  <2>1. CASE b \notin Path[x]
    <3>1. x # b
      BY <2>1, PathFacts
    <3>2. Path[x] \subseteq data
      BY <1>6, <2>1
    <3> QED BY <1>6, <3>1, <3>2 DEF LinkInv, LinksMatchData
  <2>2. CASE x = b
    BY <2>2 DEF NewlyLinked
  <2>3. CASE b \in Path[x] /\ x # b
    <3>1. ASSUME NEW y \in Path[x], y \notin Path[b]
          PROVE  y \in unlinked
      <4>1. b \in Path[y] /\ y \in Block
        BY <2>3, <3>1, PathFacts
      <4>2. y \notin linked
        BY <1>2, <4>1, LinkedClosed
      <4>3. y \in data
        BY <1>6, <3>1, PathFacts
      <4> QED BY <1>2, <4>2, <4>3
    <3>2. x \notin Path[b]
      <4> SUFFICES ASSUME x \in Path[b] PROVE FALSE
        OBVIOUS
      <4>1. x \in Path[Parent[b]]
        BY <2>3, ParentFacts
      <4>2. b \in Path[Parent[b]]
        BY <2>3, <4>1, ParentFacts, PathFacts
      <4> QED BY <4>2, ParentFacts
    <3>3. x \in unlinked
      BY <3>1, <3>2, PathFacts
    <3> QED BY <2>3, <3>1, <3>3 DEF NewlyLinked
  <2> QED BY <2>1, <2>2, <2>3
<1> QED BY <1>1, <1>4, <1>5, <1>6

LEMMA ActiveLinked ==
  ASSUME LinkInv
  PROVE  /\ tip \in Block /\ chainActive \subseteq linked
         /\ linked \subseteq data /\ data \subseteq index /\ index \subseteq Block
         /\ unlinked = data \ linked
BY LinkedClosed DEF LinkInv, TypeOK, LinksMatchData, chainActive

\* A step of ActivateBestChain moves the tip along the path of a candidate.
LEMMA StepTarget ==
  ASSUME LinkInv, NEW m \in MostWork, NEW t \in Block, Connects(m, t)
  PROVE  t \in linked /\ t \in Path[m] /\ Path[t] \subseteq Path[m]
<1>1. m \in linked /\ m \in Block
  BY DEF LinkInv, TypeOK, MostWork
<1>2. t \in Path[m]
  BY DEF Connects
<1> QED BY <1>1, <1>2, LinkedClosed, PathFacts

LEMMA LinkStep ==
  ASSUME LinkInv, [Next]_vars
  PROVE  LinkInv'
<1> USE DEF LinkInv
<1>0. /\ tip \in Block /\ chainActive \subseteq linked
      /\ linked \subseteq data /\ data \subseteq index /\ index \subseteq Block
      /\ unlinked = data \ linked
  BY ActiveLinked
<1>1. ASSUME NEW b \in Block, AcceptBlockHeader(b)
      PROVE  LinkInv'
  <2>1. TypeOK'
    BY <1>0, <1>1 DEF AcceptBlockHeader, TypeOK
  <2>2. LinksMatchData'
    BY <1>0, <1>1, PathFacts DEF AcceptBlockHeader, LinksMatchData
  <2> QED BY <2>1, <2>2
<1>2. ASSUME NEW b \in Block, AcceptBlock(b)
      PROVE  LinkInv'
  <2>0. /\ b # Genesis /\ b \notin data /\ b \notin unlinked
        /\ index' = index \cup {b} /\ data' = data \cup {b}
        /\ Parent[b] \in index
    BY <1>0, <1>2 DEF AcceptBlock, BlockAcceptable
  <2>1. CASE Parent[b] \in linked
    <3> DEFINE D == NewlyLinked(b)
    <3>1. /\ D \subseteq unlinked \cup {b}
          /\ \A x \in Block :
               x \in linked \cup D
                 <=> x \in index \cup {b} /\ Path[x] \subseteq data \cup {b}
      BY <2>0, <2>1, NewlyLinkedFacts
    <3>2. PICK f \in SequenceIds(D) :
            /\ seq' = [x \in Block |-> IF x \in D THEN f[x] ELSE seq[x]]
            /\ linked' = linked \cup D
            /\ candidates' = candidates \cup AsGoodAsTip(seq', D)
            /\ unlinked' = unlinked \ D
      BY <1>2, <2>1 DEF AcceptBlock
    <3>3. UNCHANGED <<failedValid, failedChild, tip>> /\ activating' = TRUE
      BY <1>2 DEF AcceptBlock
    <3>4. b \in D
      BY DEF NewlyLinked
    <3> HIDE DEF D
    <3>5. D \in SUBSET Block
      BY <1>0, <3>1
    <3>6. \A x \in D : f[x] \in Nat
      BY <3>5, SequenceIdsType
    <3>7. seq' \in [Block -> Nat]
      BY <3>2, <3>6 DEF TypeOK
    <3>8. candidates' \subseteq linked'
      BY <3>2 DEF TypeOK, AsGoodAsTip
    <3>9. TypeOK'
      BY <1>0, <2>0, <3>1, <3>2, <3>3, <3>7, <3>8 DEF TypeOK
    <3>10. LinksMatchData'
      BY <1>0, <2>0, <3>1, <3>2, <3>4 DEF LinksMatchData
    <3> QED BY <3>9, <3>10
  <2>2. CASE Parent[b] \notin linked
    <3>1. /\ unlinked' = unlinked \cup {b} /\ activating' = TRUE
          /\ UNCHANGED <<linked, seq, candidates, failedValid, failedChild, tip>>
      BY <1>2, <2>2 DEF AcceptBlock
    <3>2. TypeOK'
      BY <1>0, <2>0, <3>1 DEF TypeOK
    <3>3. ~ (Path[Parent[b]] \subseteq data)
      BY <2>0, <2>2 DEF LinksMatchData
    <3>4. ASSUME NEW x \in index', b \in Path[x]
          PROVE  ~ (Path[x] \subseteq data \cup {b}) /\ x \notin linked
      <4>1. x \in Block /\ Path[b] \subseteq Path[x] /\ Path[Parent[b]] \subseteq Path[b]
        BY <1>0, <2>0, <3>4, PathFacts, ParentFacts
      <4>2. b \notin Path[Parent[b]]
        BY <2>0, ParentFacts
      <4>3. ~ (Path[x] \subseteq data \cup {b})
        BY <3>3, <4>1, <4>2
      <4> QED BY <1>0, <2>0, <4>3, <4>1, LinkedClosed
    <3>5. ASSUME NEW x \in index', b \notin Path[x]
          PROVE  x \in linked <=> Path[x] \subseteq data \cup {b}
      <4>1. x \in index
        BY <2>0, <3>5, PathFacts
      <4> QED BY <3>5, <4>1 DEF LinksMatchData
    <3>6. LinksMatchData'
      BY <1>0, <2>0, <3>1, <3>4, <3>5 DEF LinksMatchData
    <3> QED BY <3>2, <3>6
  <2> QED BY <2>1, <2>2
<1>3. ASSUME NEW b \in Block, RejectBlock(b)
      PROVE  LinkInv'
  <2>1. TypeOK'
    BY <1>0, <1>3 DEF RejectBlock, TypeOK
  <2>2. b \notin data
    BY <1>3 DEF RejectBlock, BlockAcceptable
  <2>3. LinksMatchData'
    BY <1>0, <1>3, <2>2, PathFacts DEF RejectBlock, LinksMatchData
  <2> QED BY <2>1, <2>3
<1>4. ASSUME NEW b \in Block, InvalidateBlock(b)
      PROVE  LinkInv'
  <2>1. TipWithout(b) \in linked
    <3>1. CASE b \in chainActive
      <4>1. Parent[b] \in Path[tip]
        BY <1>0, <1>4, <3>1, PathFacts, ParentFacts DEF InvalidateBlock, chainActive
      <4> QED BY <1>0, <3>1, <4>1 DEF TipWithout, chainActive
    <3>2. CASE b \notin chainActive
      BY <3>2 DEF TipWithout, TypeOK
    <3> QED BY <3>1, <3>2
  <2>2. candidates' \subseteq linked
    BY <1>4 DEF InvalidateBlock, TypeOK, ValidLinked
  <2>3. failedValid' \subseteq index /\ failedChild' \subseteq index
    BY <1>4 DEF InvalidateBlock, TypeOK, Descendants
  <2>4. TypeOK'
    BY <1>4, <2>1, <2>2, <2>3 DEF InvalidateBlock, TypeOK
  <2>5. LinksMatchData'
    BY <1>4 DEF InvalidateBlock, LinksMatchData
  <2> QED BY <2>4, <2>5
<1>5. ASSUME NEW b \in Block, ReconsiderBlock(b)
      PROVE  LinkInv'
  <2>1. TypeOK'
    BY <1>5 DEF ReconsiderBlock, TypeOK
  <2>2. LinksMatchData'
    BY <1>5 DEF ReconsiderBlock, LinksMatchData
  <2> QED BY <2>1, <2>2
<1>6. ASSUME ActivateBestChain
      PROVE  LinkInv'
  <2>0. UNCHANGED <<index, data, linked, seq, unlinked>>
    BY <1>6 DEF ActivateBestChain
  <2>1. failedChild' \subseteq index
    BY <1>6 DEF ActivateBestChain, TypeOK, Discarded
  <2> DEFINE Typed == /\ tip' \in linked /\ candidates' \subseteq linked
                      /\ failedValid' \subseteq index /\ activating' \in BOOLEAN
  <2>2. Typed
    <3>1. CASE UNCHANGED <<failedValid, tip>> /\ candidates' = CandidatesLeft
                 /\ activating' = FALSE
      BY <3>1 DEF TypeOK, CandidatesLeft
    <3>2. ASSUME NEW m \in MostWork, ActivateBestChainStep(m)
          PROVE  Typed
      <4>1. PICK t \in Block :
              /\ Connects(m, t) /\ tip' = t /\ activating' = (t # m)
              /\ candidates' \subseteq candidates
              /\ \/ failedValid' = failedValid
                 \/ \E x \in Path[m] : failedValid' = failedValid \cup {x}
        BY <3>2 DEF ActivateBestChainStep, CandidatesLeft,
             PruneBlockIndexCandidates, InvalidBlockFound
      <4>2. t \in linked /\ m \in linked
        BY <4>1, StepTarget DEF TypeOK, MostWork
      <4>3. Path[m] \subseteq index
        BY <1>0, <4>2, LinkedClosed
      <4> QED BY <4>1, <4>2, <4>3 DEF TypeOK
    <3> QED BY <1>6, <3>1, <3>2 DEF ActivateBestChain
  <2>3. TypeOK'
    BY <2>0, <2>1, <2>2 DEF TypeOK
  <2>4. LinksMatchData'
    BY <2>0 DEF LinksMatchData
  <2> QED BY <2>3, <2>4
<1>7. ASSUME ReprocessBlocks
      PROVE  LinkInv'
  <2>1. tip' \in linked
    BY <1>0, <1>7 DEF ReprocessBlocks
  <2>2. TypeOK'
    BY <1>7, <2>1 DEF ReprocessBlocks, TypeOK
  <2>3. LinksMatchData'
    BY <1>7 DEF ReprocessBlocks, LinksMatchData
  <2> QED BY <2>2, <2>3
<1>8. ASSUME NEW b \in Block, AcceptDuplicate(b)
      PROVE  LinkInv'
  BY <1>8 DEF AcceptDuplicate, TypeOK, LinksMatchData
<1>9. CASE UNCHANGED vars
  BY <1>9 DEF vars, TypeOK, LinksMatchData
<1> QED BY <1>1, <1>2, <1>3, <1>4, <1>5, <1>6, <1>7, <1>8, <1>9 DEF Next

LEMMA LinkInit == Init => LinkInv
<1> SUFFICES ASSUME Init PROVE LinkInv
  OBVIOUS
<1>1. TypeOK
  BY TreeAssumption DEF Init, TypeOK
<1>2. LinksMatchData
  BY TreeAssumption DEF Init, LinksMatchData
<1> QED BY <1>1, <1>2 DEF LinkInv

LEMMA LinkInvariant == Spec => []LinkInv
BY LinkInit, LinkStep, PTL DEF Spec

\* The block index, the candidate set and the tip are well typed in every
\* reachable state: in particular the candidates and the tip are always linked.
THEOREM TypeCorrect == Spec => []TypeOK
BY LinkInvariant, PTL DEF LinkInv

\* nChainTx and mapBlocksUnlinked say exactly what CheckBlockIndex asserts of
\* them, in whatever order headers and block data arrive.
THEOREM LinksCorrect == Spec => []LinksMatchData
BY LinkInvariant, PTL DEF LinkInv

-----------------------------------------------------------------------------
\* The active chain never holds a failed block.

LEMMA SafeInit == Init => ActiveChainNotFailed
BY DEF Init, ActiveChainNotFailed, Failed

LEMMA SafeStep ==
  ASSUME LinkInv, ActiveChainNotFailed, [Next]_vars
  PROVE  ActiveChainNotFailed'
<1> USE DEF ActiveChainNotFailed, chainActive, Failed
<1>0. /\ tip \in Block /\ Path[tip] \subseteq linked
      /\ linked \subseteq data /\ data \subseteq index /\ index \subseteq Block
  BY ActiveLinked
<1>1. ASSUME NEW b \in Block, 
             AcceptBlockHeader(b) \/ AcceptBlock(b) \/ AcceptDuplicate(b)
      PROVE  ActiveChainNotFailed'
  BY <1>1 DEF AcceptBlockHeader, AcceptBlock, AcceptDuplicate
<1>2. ASSUME NEW b \in Block, RejectBlock(b)
      PROVE  ActiveChainNotFailed'
  BY <1>0, <1>2 DEF RejectBlock, BlockAcceptable
<1>3. ASSUME NEW b \in Block, InvalidateBlock(b)
      PROVE  ActiveChainNotFailed'
  <2>0. /\ b # Genesis /\ tip' = TipWithout(b)
        /\ failedValid' = failedValid \cup {b}
        /\ failedChild' = failedChild \cup (Path[tip] \cap Descendants(b))
    BY <1>3 DEF InvalidateBlock
  <2>1. CASE b \in Path[tip]
    <3>1. /\ Path[Parent[b]] \subseteq Path[tip]
          /\ b \notin Path[Parent[b]] /\ Parent[b] \in Block
      BY <1>0, <2>0, <2>1, PathFacts, ParentFacts
    <3>2. \A x \in Path[Parent[b]] : b \notin Path[x]
      BY <3>1, PathFacts
    <3> QED BY <2>0, <2>1, <3>1, <3>2 DEF TipWithout, Descendants
  <2>2. CASE b \notin Path[tip]
    <3>1. \A x \in Path[tip] : b \notin Path[x]
      BY <1>0, <2>2, PathFacts
    <3> QED BY <2>0, <2>2, <3>1 DEF TipWithout, Descendants
  <2> QED BY <2>1, <2>2
<1>4. ASSUME NEW b \in Block, ReconsiderBlock(b)
      PROVE  ActiveChainNotFailed'
  BY <1>4 DEF ReconsiderBlock
<1>5. ASSUME ActivateBestChain
      PROVE  ActiveChainNotFailed'
  <2>0. failedChild' = failedChild \cup (Discarded \ Failed)
    BY <1>5 DEF ActivateBestChain
  <2>1. ASSUME NEW x \in Path[tip]
        PROVE  x \notin Discarded
    <3>1. Path[x] \subseteq Path[tip]
      BY <1>0, PathFacts
    <3> QED BY <3>1 DEF Discarded, Usable, OffChain
  <2>2. CASE UNCHANGED <<failedValid, tip>>
    BY <2>0, <2>1, <2>2
  <2>3. ASSUME NEW m \in MostWork, ActivateBestChainStep(m)
        PROVE  ActiveChainNotFailed'
    <3>1. PICK t \in Block :
            /\ Connects(m, t) /\ tip' = t
            /\ \/ failedValid' = failedValid
               \/ \E x \in Path[m] \cap (Invalid \cup Contested) :
                    Parent[x] = t /\ failedValid' = failedValid \cup {x}
      BY <2>3 DEF ActivateBestChainStep, InvalidBlockFound
    <3>2. Path[t] \subseteq Path[m] /\ m \in Block
      BY <1>0, <3>1, StepTarget DEF LinkInv, TypeOK, MostWork
    <3>3. (Path[m] \ Path[tip]) \cap Failed = {}
      BY DEF MostWork, Usable, OffChain
    <3>4. Path[t] \cap Failed = {}
      BY <3>2, <3>3
    <3>5. ASSUME NEW x \in Path[t]
          PROVE  x \notin Discarded
      <4>1. Path[x] \subseteq Path[t]
        BY <3>5, PathFacts
      <4> QED BY <3>4, <4>1 DEF Discarded, Usable, OffChain
    <3>6. Path[t] \cap failedValid' = {}
      <4>1. ASSUME NEW x \in Path[m] \cap (Invalid \cup Contested), Parent[x] = t
            PROVE  x \notin Path[t]
        <5>1. x \in Block \ {Genesis}
          BY <3>2, PathFacts, TreeAssumption
        <5> QED BY <4>1, <5>1, ParentFacts
      <4> QED BY <3>1, <3>4, <4>1
    <3> QED BY <2>0, <3>1, <3>4, <3>5, <3>6
  <2> QED BY <1>5, <2>2, <2>3 DEF ActivateBestChain
<1>6. ASSUME ReprocessBlocks
      PROVE  ActiveChainNotFailed'
  <2>1. tip' \in Path[tip] /\ UNCHANGED <<failedValid, failedChild>>
    BY <1>6 DEF ReprocessBlocks
  <2>2. Path[tip'] \subseteq Path[tip]
    BY <1>0, <2>1, PathFacts
  <2> QED BY <2>1, <2>2
<1>7. CASE UNCHANGED vars
  BY <1>7 DEF vars
<1> QED BY <1>1, <1>2, <1>3, <1>4, <1>5, <1>6, <1>7 DEF Next

\* In no interleaving of block arrival, activation, invalidation, reconsidering
\* and replay does the active chain hold a block marked failed.
THEOREM ActiveChainSafe == Spec => []ActiveChainNotFailed
BY LinkInvariant, SafeInit, SafeStep, PTL DEF Spec

-----------------------------------------------------------------------------
\* The marks.  FindMostWorkChain marks BLOCK_FAILED_CHILD above a block that is
\* marked, and InvalidateBlock above the block it marks; only ReconsiderBlock
\* takes a mark away.
AncestorInv == \A b \in Failed : Path[b] \cap failedValid # {}

LEMMA AncestorStep ==
  ASSUME "reconsider" \notin Operators, LinkInv, AncestorInv, [Next]_vars
  PROVE  AncestorInv'
<1>0. /\ index \subseteq Block /\ Failed \subseteq index /\ failedValid \subseteq Failed
  BY DEF LinkInv, TypeOK, Failed
<1> DEFINE Grows(S) == /\ failedValid \subseteq failedValid'
                       /\ Failed' \subseteq Failed \cup S
                       /\ \A x \in S : Path[x] \cap failedValid' # {}
<1>1. ASSUME NEW S, Grows(S)
      PROVE  AncestorInv'
  BY <1>1 DEF AncestorInv
<1> HIDE DEF Grows
<1>2. ASSUME NEW b \in Block,
             \/ AcceptBlockHeader(b) \/ AcceptBlock(b) \/ AcceptDuplicate(b)
             \/ ReprocessBlocks \/ UNCHANGED vars
      PROVE  AncestorInv'
  BY <1>2 DEF AncestorInv, Failed, AcceptBlockHeader, AcceptBlock, AcceptDuplicate,
              ReprocessBlocks, vars
<1>3. ASSUME NEW b \in Block, RejectBlock(b)
      PROVE  AncestorInv'
  <2>1. Grows({b})
    BY <1>3, PathFacts DEF Grows, RejectBlock, Failed
  <2> QED BY <1>1, <2>1
<1>4. ASSUME NEW b \in Block, InvalidateBlock(b)
      PROVE  AncestorInv'
  <2>1. Grows(Descendants(b) \cup {b})
    BY <1>4, PathFacts DEF Grows, InvalidateBlock, Failed, Descendants
  <2> QED BY <1>1, <2>1
<1>5. CASE ActivateBestChain
  <2>1. failedChild' = failedChild \cup (Discarded \ Failed)
    BY <1>5 DEF ActivateBestChain
  <2>2. \/ failedValid' = failedValid
        \/ \E m \in MostWork : \E x \in Path[m] : failedValid' = failedValid \cup {x}
    BY <1>5 DEF ActivateBestChain, ActivateBestChainStep, InvalidBlockFound
  <2>3. PICK S : S \subseteq Block /\ failedValid' = failedValid \cup S
    <3>1. ASSUME NEW m \in MostWork, NEW x \in Path[m]
          PROVE  {x} \subseteq Block
      BY PathFacts DEF MostWork, LinkInv, TypeOK
    <3>2. failedValid' = failedValid => failedValid' = failedValid \cup {}
      OBVIOUS
    <3> QED BY <2>2, <3>1, <3>2
  <2>4. ASSUME NEW x \in Discarded
        PROVE  Path[x] \cap failedValid # {}
    <3>1. x \in Block
      BY <1>0 DEF Discarded
    <3>2. PICK y \in Path[x] : y \in Failed
      BY DEF Discarded, Usable, OffChain
    <3>3. Path[y] \subseteq Path[x]
      BY <3>1, PathFacts
    <3> QED BY <3>2, <3>3 DEF AncestorInv
  <2>5. Grows(Discarded \cup S)
    BY <2>1, <2>3, <2>4, PathFacts DEF Grows, Failed
  <2> QED BY <1>1, <2>5
<1>6. ASSUME NEW b \in Block, ReconsiderBlock(b)
      PROVE  FALSE
  BY <1>6 DEF ReconsiderBlock
<1>7. Genesis \in Block
  BY TreeAssumption
<1> QED BY <1>2, <1>3, <1>4, <1>5, <1>6, <1>7 DEF Next

LEMMA AncestorInvariant ==
  ASSUME "reconsider" \notin Operators
  PROVE  Spec => []AncestorInv
<1>1. Init => AncestorInv
  BY DEF Init, AncestorInv, Failed
<1> QED BY <1>1, LinkInvariant, AncestorStep, PTL DEF Spec

\* Unless the operator reconsiders a block, no block is ever marked failed without
\* an ancestor (or itself) that ConnectBlock, AcceptBlock or InvalidateBlock
\* refused: in every state, so also in the middle of ActivateBestChain, and also
\* for contested blocks and with replays.
THEOREM FailedMarksJustified ==
  ASSUME "reconsider" \notin Operators
  PROVE  Spec => []FailedHasInvalidAncestor
<1>1. AncestorInv => FailedHasInvalidAncestor
  BY DEF AncestorInv, FailedHasInvalidAncestor
<1> QED BY <1>1, AncestorInvariant, PTL

-----------------------------------------------------------------------------
\* The order of CBlockIndexWorkComparator.

LEMMA LeastExists ==
  ASSUME NEW S \in SUBSET Nat, S # {}
  PROVE  \E x \in S : \A y \in S : x <= y
<1>1. PICK x \in S : \A y \in S : ~ (<<y, x>> \in OpToRel(<, Nat))
  BY NatLessThanWellFounded, WFMin
<1>2. \A y \in S : ~ (y < x)
  BY <1>1 DEF OpToRel
<1>3. \A y \in S : x <= y
  <2> TAKE y \in S
  <2>1. x \in Nat /\ y \in Nat /\ ~ (y < x)
    BY <1>2
  <2> QED BY <2>1
<1> QED BY <1>3

LEMMA AncestorWork ==
  ASSUME NEW b \in Block, NEW x \in Path[b], x # b
  PROVE  Work[x] < Work[b]
<1> DEFINE Bad == {c \in Block : \E y \in Path[c] : y # c /\ ~ (Work[y] < Work[c])}
<1> SUFFICES ASSUME Bad # {} PROVE FALSE
  OBVIOUS
<1>1. \A c \in Block : Work[c] \in Nat
  BY TreeAssumption
<1>2. PICK c \in Bad : \A d \in Bad : Work[c] <= Work[d]
  <2> DEFINE S == {Work[d] : d \in Bad}
  <2>1. S \in SUBSET Nat /\ S # {}
    BY <1>1
  <2>2. PICK w \in S : \A v \in S : w <= v
    <3> HIDE DEF S
    <3> QED BY <2>1, LeastExists
  <2> QED BY <2>2
<1>3. PICK y \in Path[c] : y # c /\ ~ (Work[y] < Work[c])
  BY <1>2
<1>4. c \in Block \ {Genesis}
  BY <1>2, <1>3, TreeAssumption
<1>5. y \in Path[Parent[c]] /\ Parent[c] \in Block /\ Work[Parent[c]] < Work[c]
  BY <1>3, <1>4, ParentFacts, TreeAssumption
<1>6. y \in Block
  BY <1>5, PathFacts
<1>7. Parent[c] \in Bad
  BY <1>1, <1>3, <1>4, <1>5, <1>6
<1> QED BY <1>1, <1>2, <1>4, <1>5, <1>7

LEMMA WorseOrder ==
  ASSUME NEW s \in [Block -> Nat], NEW a \in Block, NEW b \in Block, NEW c \in Block
  PROVE  /\ ~ Worse(s, a, a)
         /\ Worse(s, a, b) => ~ Worse(s, b, a)
         /\ ~ Worse(s, a, b) /\ ~ Worse(s, b, c) => ~ Worse(s, a, c)
<1>1. /\ Work[a] \in Nat /\ Work[b] \in Nat /\ Work[c] \in Nat
      /\ s[a] \in Nat /\ s[b] \in Nat /\ s[c] \in Nat
  BY TreeAssumption
<1> QED BY <1>1 DEF Worse

LEMMA AncestorNotBetter ==
  ASSUME NEW s \in [Block -> Nat], NEW b \in Block, NEW x \in Path[b]
  PROVE  /\ x \in Block
         /\ ~ Worse(s, b, x)
         /\ x # b => Worse(s, x, b)
<1>1. x \in Block
  BY PathFacts
<1>2. Work[x] \in Nat /\ Work[b] \in Nat
  BY <1>1, TreeAssumption
<1>3. CASE x # b
  BY <1>1, <1>2, <1>3, AncestorWork DEF Worse
<1>4. CASE x = b
  BY <1>1, <1>4, WorseOrder
<1> QED BY <1>1, <1>3, <1>4

\* A non-empty set of blocks has a best one.
LEMMA BestExists ==
  ASSUME NEW s \in [Block -> Nat], NEW C \in SUBSET Block, C # {}
  PROVE  \E m \in C : \A d \in C : ~ Worse(s, m, d)
<1> DEFINE Above(c) == {d \in C : Worse(s, c, d)}
           N == {Cardinality(Above(c)) : c \in C}
<1>1. IsFiniteSet(C)
  BY FS_Subset, TreeAssumption
<1>2. ASSUME NEW c \in C
      PROVE  IsFiniteSet(Above(c)) /\ Cardinality(Above(c)) \in Nat
  <2>1. Above(c) \in SUBSET C
    OBVIOUS
  <2>2. IsFiniteSet(Above(c))
    BY <1>1, <2>1, FS_Subset
  <2> QED BY <2>2, FS_CardinalityType
<1>3. N \in SUBSET Nat /\ N # {}
  BY <1>2
<1>4. PICK n \in N : \A k \in N : n <= k
  <2> HIDE DEF N
  <2> QED BY <1>3, LeastExists
<1>5. PICK m \in C : n = Cardinality(Above(m))
  BY <1>4
<1>6. ASSUME NEW d \in C, Worse(s, m, d)
      PROVE  FALSE
  <2>1. d \in Above(m) /\ d \notin Above(d)
    BY <1>6, WorseOrder
  <2>2. Above(d) \subseteq Above(m)
    <3> SUFFICES ASSUME NEW e \in C, Worse(s, d, e) PROVE Worse(s, m, e)
      OBVIOUS
    <3>1. m \in Block /\ d \in Block /\ e \in Block
      OBVIOUS
    <3>2. ~ Worse(s, d, m)
      BY <1>6, <3>1, WorseOrder
    <3>3. ~ Worse(s, m, e) => ~ Worse(s, d, e)
      BY <3>1, <3>2, WorseOrder
    <3> QED BY <3>3
  <2>3. Cardinality(Above(m)) <= Cardinality(Above(d))
    BY <1>4, <1>5
  <2>4. /\ Cardinality(Above(d)) <= Cardinality(Above(m))
        /\ Cardinality(Above(m)) = Cardinality(Above(d)) => Above(m) = Above(d)
    <3>1. Above(d) \in SUBSET Above(m) /\ IsFiniteSet(Above(m))
      BY <1>2, <2>2
    <3> HIDE DEF Above
    <3> QED BY <3>1, FS_Subset
  <2>5. Cardinality(Above(m)) = Cardinality(Above(d))
    <3>1. Cardinality(Above(m)) \in Nat /\ Cardinality(Above(d)) \in Nat
      BY <1>2
    <3> HIDE DEF Above
    <3> QED BY <2>3, <2>4, <3>1
  <2> QED BY <2>1, <2>4, <2>5
<1> QED BY <1>6

-----------------------------------------------------------------------------
\* The candidates, when the verdict on a block does not change (Contested = {})
\* and no block is reconsidered.  While ActivateBestChain runs the tip may fall
\* below blocks that are no candidates any more: it disconnects to a fork and the
\* next block is refused.  What holds throughout is that some candidate, the floor,
\* can be connected and that every viable block from it upwards is a candidate;
\* the loop cannot end below it.
Floor(f) ==
  /\ f \in candidates
  /\ Path[f] \cap (Failed \cup Invalid) = {}
  /\ \A b \in index : Viable(b) /\ ~ Worse(seq, b, f) => b \in candidates

CandidateInv ==
  /\ chainActive \cap Invalid = {}
  /\ \A c \in candidates : ~ Worse(seq, c, tip)
  /\ \E f \in Block : Floor(f)
  /\ ~ activating => /\ Floor(tip)
                     /\ \A b \in index : Viable(b) => ~ Worse(seq, tip, b)

\* Everything the steps rely on.
TreeInv == LinkInv /\ ActiveChainNotFailed /\ AncestorInv /\ CandidateInv

\* When every mark in F has an ancestor in V, a path without V is without F.
LEMMA UnmarkedPath ==
  ASSUME NEW V, NEW F, V \subseteq F, \A y \in F : Path[y] \cap V # {}, NEW b \in Block
  PROVE  Path[b] \cap V = {} <=> Path[b] \cap F = {}
<1>1. ASSUME NEW y \in Path[b], y \in F
      PROVE  Path[b] \cap V # {}
  <2>1. Path[y] \subseteq Path[b]
    BY PathFacts
  <2> QED BY <1>1, <2>1
<1> QED BY <1>1

LEMMA CandidateInit == Init => CandidateInv
<1> SUFFICES ASSUME Init PROVE CandidateInv
  OBVIOUS
<1>1. seq \in [Block -> Nat] /\ Genesis \in Block /\ Path[Genesis] = {Genesis}
      /\ Genesis \notin Invalid
  BY TreeAssumption DEF Init
<1>2. ~ Worse(seq, Genesis, Genesis)
  BY <1>1, WorseOrder
<1>3. Floor(Genesis)
  BY <1>1 DEF Init, Floor, Failed, Viable
<1> QED BY <1>1, <1>2, <1>3 DEF Init, CandidateInv, chainActive

\* A step that leaves tip, marks and the linked blocks with their sequence numbers.
LEMMA CandidatesKept ==
  ASSUME TreeInv, LinkInv',
         UNCHANGED <<linked, seq, candidates, tip>>,
         failedValid \subseteq failedValid', 
         \A b \in linked : Path[b] \cap Failed = {} => Path[b] \cap Failed' = {},
         activating \in {activating', FALSE}
  PROVE  CandidateInv'
<1>1. linked \subseteq index /\ linked \subseteq Block /\ linked' \subseteq index'
      /\ candidates \subseteq linked /\ tip \in linked
  BY DEF TreeInv, LinkInv, TypeOK
<1>2. \A b : Viable(b)' => Viable(b)
  BY DEF Viable
<1>3. \A b : Viable(b) => b \in linked
  BY DEF Viable
<1>4. \A f : Floor(f) => Floor(f)'
  BY <1>1, <1>2, <1>3 DEF Floor
<1>5. chainActive' = chainActive
  BY DEF chainActive
<1> QED BY <1>1, <1>2, <1>3, <1>4, <1>5 DEF TreeInv, CandidateInv

\* AcceptBlock: a newly linked block joins when it is as good as the tip, so in
\* particular when it is as good as the floor.
LEMMA AcceptKeepsCandidates ==
  ASSUME TreeInv, NEW b \in Block, AcceptBlock(b)
  PROVE  CandidateInv'
<1>0. /\ linked \subseteq index /\ index \subseteq Block /\ candidates \subseteq linked
      /\ tip \in linked /\ seq \in [Block -> Nat] /\ b \notin data /\ linked \subseteq data
      /\ index' = index \cup {b} /\ UNCHANGED <<failedValid, failedChild, tip>>
      /\ activating' = TRUE
  BY DEF TreeInv, LinkInv, TypeOK, AcceptBlock, BlockAcceptable
<1>1. chainActive' = chainActive /\ Failed' = Failed
  BY <1>0 DEF chainActive, Failed
<1>2. CASE Parent[b] \notin linked
  <2>1. UNCHANGED <<linked, seq, candidates>>
    BY <1>2 DEF AcceptBlock
  <2>2. \A x : Viable(x)' => Viable(x) /\ x \in index
    BY <1>0, <2>1 DEF Viable
  <2>3. \A f : Floor(f) => Floor(f)'
    BY <1>0, <1>1, <2>1, <2>2 DEF Floor
  <2> QED BY <1>0, <1>1, <2>1, <2>3 DEF TreeInv, CandidateInv
<1>3. CASE Parent[b] \in linked
  <2> DEFINE D == NewlyLinked(b)
  <2>1. PICK f \in SequenceIds(D) :
          /\ seq' = [x \in Block |-> IF x \in D THEN f[x] ELSE seq[x]]
          /\ linked' = linked \cup D
          /\ candidates' = candidates \cup AsGoodAsTip(seq', D)
    BY <1>3 DEF AcceptBlock
  <2>2. D \subseteq Block /\ D \cap linked = {}
    <3>1. D \subseteq unlinked \cup {b} /\ unlinked = data \ linked
      BY DEF NewlyLinked, TreeInv, LinkInv, LinksMatchData
    <3> QED BY <1>0, <3>1 DEF TreeInv, LinkInv, TypeOK
  <2> HIDE DEF D
  <2>3. seq' \in [Block -> Nat]
    BY <1>0, <2>1, <2>2, SequenceIdsType DEF TreeInv, LinkInv
  <2>4. \A x, y \in linked : Worse(seq', x, y) <=> Worse(seq, x, y)
    BY <1>0, <2>1, <2>2 DEF Worse
  <2>5. \A x \in linked : Viable(x)' <=> Viable(x)
    BY <1>0, <2>1 DEF Viable
  <2>6. ASSUME NEW g \in Block, Floor(g)
        PROVE  Floor(g)'
    <3>1. g \in linked /\ g \in candidates /\ ~ Worse(seq, g, tip)
      BY <1>0, <2>6 DEF Floor, TreeInv, CandidateInv
    <3>2. ~ Worse(seq', g, tip)
      BY <1>0, <2>4, <3>1
    <3>3. ASSUME NEW x \in index', Viable(x)', ~ Worse(seq', x, g)
          PROVE  x \in candidates'
      <4>1. x \in linked \cup D
        BY <2>1, <3>3 DEF Viable
      <4>2. CASE x \in linked
        <5>1. x \in index /\ Viable(x) /\ ~ Worse(seq, x, g)
          BY <1>0, <2>4, <2>5, <3>1, <3>3, <4>2
        <5> QED BY <2>1, <2>6, <5>1 DEF Floor
      <4>3. CASE x \in D
        <5>1. ~ Worse(seq', x, tip)
          BY <1>0, <2>2, <2>3, <3>1, <3>2, <3>3, <4>3, WorseOrder
        <5> QED BY <1>0, <2>1, <4>3, <5>1 DEF AsGoodAsTip
      <4> QED BY <4>1, <4>2, <4>3
    <3>4. Path[g] \cap (Failed' \cup Invalid) = {}
      BY <1>1, <2>6 DEF Floor
    <3> QED BY <2>1, <3>1, <3>3, <3>4 DEF Floor
  <2>7. ASSUME NEW c \in candidates' PROVE ~ Worse(seq', c, tip)
    <3>1. CASE c \in candidates
      BY <1>0, <2>4, <3>1 DEF TreeInv, CandidateInv
    <3>2. CASE c \notin candidates
      BY <1>0, <2>1, <3>2 DEF AsGoodAsTip
    <3> QED BY <3>1, <3>2
  <2> QED BY <1>0, <1>1, <2>6, <2>7 DEF TreeInv, CandidateInv
<1> QED BY <1>2, <1>3

\* InvalidateBlock: every block that is as good as the new tip and unmarked is a
\* candidate again, so the new tip is a floor.
LEMMA InvalidateKeepsCandidates ==
  ASSUME TreeInv, AncestorInv', ActiveChainNotFailed', LinkInv',
         NEW b \in Block, InvalidateBlock(b)
  PROVE  CandidateInv'
<1>0. /\ index \subseteq Block /\ linked \subseteq index /\ candidates \subseteq linked
      /\ tip \in linked /\ tip' \in linked /\ seq \in [Block -> Nat]
      /\ b # Genesis /\ activating' = TRUE
      /\ UNCHANGED <<index, linked, seq>>
  BY DEF TreeInv, LinkInv, TypeOK, InvalidateBlock
<1>1. tip' \in Path[tip]
  <2>1. tip \in Block
    BY <1>0
  <2>2. CASE b \in Path[tip]
    <3>1. tip' = Parent[b]
      BY <2>2 DEF InvalidateBlock, TipWithout, chainActive
    <3>2. Parent[b] \in Path[b] /\ Path[b] \subseteq Path[tip]
      BY <1>0, <2>1, <2>2, ParentFacts, PathFacts
    <3> QED BY <3>1, <3>2
  <2>3. CASE b \notin Path[tip]
    BY <2>1, <2>3, PathFacts DEF InvalidateBlock, TipWithout, chainActive
  <2> QED BY <2>2, <2>3
<1>2. chainActive' \subseteq chainActive
  BY <1>0, <1>1, PathFacts DEF chainActive
<1>3. ~ Worse(seq, tip, tip')
  BY <1>0, <1>1, AncestorNotBetter
<1>4. \A x \in linked \ Failed' : ~ Worse(seq, x, tip') => x \in candidates'
  BY DEF InvalidateBlock, ValidLinked, Failed
<1>5. ASSUME NEW c \in candidates' PROVE ~ Worse(seq, c, tip')
  <2>1. CASE c \in candidates
    <3>1. ~ Worse(seq, c, tip)
      BY <2>1 DEF TreeInv, CandidateInv
    <3> QED BY <1>0, <1>3, <2>1, <3>1, WorseOrder
  <2>2. CASE c \notin candidates
    BY <2>2 DEF InvalidateBlock, ValidLinked
  <2> QED BY <2>1, <2>2
<1>6. chainActive' \cap Invalid = {}
  BY <1>2 DEF TreeInv, CandidateInv
<1>7. Floor(tip)'
  <2>1. Path[tip'] \cap (Failed' \cup Invalid) = {}
    BY <1>6 DEF ActiveChainNotFailed, chainActive
  <2>2. tip' \in candidates'
    <3>1. tip' \in Path[tip'] /\ ~ Worse(seq, tip', tip')
      BY <1>0, PathFacts, WorseOrder
    <3> QED BY <1>0, <1>4, <2>1, <3>1
  <2>3. ASSUME NEW x \in index', Viable(x)', ~ Worse(seq, x, tip')
        PROVE  x \in candidates'
    <3>1. x \in linked /\ Path[x] \cap Failed' = {}
      <4>1. x \in linked /\ Path[x] \cap failedValid' = {} /\ x \in Block
        BY <1>0, <2>3 DEF Viable
      <4>2. failedValid' \subseteq Failed' /\ \A y \in Failed' : Path[y] \cap failedValid' # {}
        BY DEF Failed, AncestorInv
      <4> QED BY <4>1, <4>2, UnmarkedPath
    <3> QED BY <1>0, <1>4, <2>3, <3>1, PathFacts
  <2> QED BY <1>0, <2>1, <2>2, <2>3 DEF Floor
<1> QED BY <1>0, <1>5, <1>6, <1>7 DEF CandidateInv

\* One round of the loop.
LEMMA ActivateKeepsCandidates ==
  ASSUME Contested = {}, TreeInv, ActiveChainNotFailed', ActivateBestChain
  PROVE  CandidateInv'
<1>0. /\ index \subseteq Block /\ linked \subseteq index /\ candidates \subseteq linked
      /\ tip \in linked /\ seq \in [Block -> Nat] /\ UNCHANGED <<index, linked, seq>>
      /\ failedChild' = failedChild \cup (Discarded \ Failed)
      /\ failedValid \subseteq Failed
  BY DEF TreeInv, LinkInv, TypeOK, ActivateBestChain, Failed
<1>1. \A c \in Block : Usable(c) <=> Path[c] \cap Failed = {}
  BY DEF Usable, OffChain, TreeInv, ActiveChainNotFailed
<1>2. \A c \in Block : Viable(c) <=> c \in linked /\ Path[c] \cap Failed = {}
  BY <1>0, UnmarkedPath DEF Viable, TreeInv, AncestorInv
<1>3. \A x \in Discarded : Path[x] \cap Failed # {}
  BY <1>0, <1>1 DEF Discarded
<1>4. PICK f \in Block : Floor(f)
  BY DEF TreeInv, CandidateInv
<1>5. f \in candidates /\ Usable(f) /\ Viable(f) /\ f \in linked
  BY <1>0, <1>1, <1>2, <1>4 DEF Floor
<1>6. ASSUME NEW m \in MostWork
      PROVE  /\ m \in Block /\ m \in candidates /\ Path[m] \cap Failed = {}
             /\ \A b \in index : Viable(b) => ~ Worse(seq, m, b)
             /\ ~ Worse(seq, m, f)
  <2>1. m \in candidates /\ m \in Block /\ Usable(m)
        /\ \A d \in candidates : Usable(d) => ~ Worse(seq, m, d)
    BY <1>0 DEF MostWork
  <2>2. ~ Worse(seq, m, f)
    BY <1>5, <2>1
  <2>3. ASSUME NEW b \in index, Viable(b)
        PROVE  ~ Worse(seq, m, b)
    <3>1. b \in Block /\ Usable(b)
      BY <1>0, <1>1, <1>2, <2>3
    <3>2. CASE Worse(seq, b, f)
      <4>1. ~ Worse(seq, f, b)
        BY <1>0, <1>4, <3>1, <3>2, WorseOrder
      <4> QED BY <1>0, <1>4, <2>1, <2>2, <3>1, <4>1, WorseOrder
    <3>3. CASE ~ Worse(seq, b, f)
      BY <1>4, <2>1, <2>3, <3>1, <3>3 DEF Floor
    <3> QED BY <3>2, <3>3
  <2> QED BY <1>1, <2>1, <2>2, <2>3
\* The candidates that survive a round above a new tip t: what Floor asks of one.
<1>7. ASSUME NEW t \in linked, tip' = t, NEW g \in linked,
             Path[g] \cap (Failed \cup Invalid \cup failedValid') = {},
             ~ Worse(seq, g, f), ~ Worse(seq, g, t),
             failedValid \subseteq failedValid',
             \A c \in CandidatesLeft :
               Path[c] \cap failedValid' = {} /\ ~ Worse(seq, c, t) => c \in candidates'
      PROVE  Floor(g)'
  <2>1. g \in Block /\ t \in Block
    BY <1>0
  <2>2. ASSUME NEW b \in index, Path[b] \cap (Failed \cup failedValid') = {},
               b \in linked, ~ Worse(seq, b, g)
        PROVE  b \in candidates'
    <3>0. b \in Block
      BY <1>0
    <3>1. ~ Worse(seq, b, f) /\ ~ Worse(seq, b, t)
      BY <1>0, <1>4, <1>7, <2>1, <2>2, <3>0, WorseOrder
    <3>2. b \in candidates
      BY <1>2, <1>4, <2>2, <3>0, <3>1 DEF Floor
    <3>3. b \in CandidatesLeft
      BY <1>3, <2>2, <3>2 DEF CandidatesLeft
    <3> QED BY <1>7, <2>2, <3>1, <3>3
  <2>3. g \in candidates'
    BY <1>0, <1>7, <2>1, <2>2, WorseOrder
  <2>4. Path[g] \cap (Failed' \cup Invalid) = {}
    <3>1. ASSUME NEW x \in Path[g] PROVE x \notin Discarded
      <4>1. Path[x] \subseteq Path[g]
        BY <2>1, PathFacts
      <4> QED BY <1>3, <1>7, <4>1
    <3> QED BY <1>0, <1>7, <3>1 DEF Failed
  <2>5. ASSUME NEW b \in index', Viable(b)', ~ Worse(seq', b, g)
        PROVE  b \in candidates'
    <3>1. b \in Block /\ b \in index /\ b \in linked /\ Path[b] \cap failedValid' = {}
      BY <1>0, <2>5 DEF Viable
    <3>2. Viable(b)
      BY <1>7, <3>1 DEF Viable
    <3> QED BY <1>0, <1>2, <2>2, <2>5, <3>1, <3>2
  <2> QED BY <2>3, <2>4, <2>5 DEF Floor
<1>8. CASE /\ MostWork \subseteq {tip} /\ activating' = FALSE
           /\ candidates' = CandidatesLeft /\ UNCHANGED <<failedValid, tip>>
  <2>1. PICK m \in MostWork : TRUE
    <3> DEFINE C == {c \in candidates : Usable(c)}
    <3>1. C \in SUBSET Block /\ C # {}
      BY <1>0, <1>5
    <3>2. PICK m \in C : \A d \in C : ~ Worse(seq, m, d)
      <4> HIDE DEF C
      <4> QED BY <1>0, <3>1, BestExists
    <3> QED BY <3>2 DEF MostWork
  <2>2. m = tip
    BY <1>8, <2>1
  <2>3. Path[tip] \cap (Failed \cup Invalid) = {} /\ chainActive' = chainActive
    BY <1>8 DEF TreeInv, CandidateInv, ActiveChainNotFailed, chainActive
  <2>4. Floor(tip)'
    <3>1. ~ Worse(seq, tip, tip) /\ ~ Worse(seq, tip, f)
      BY <1>0, <1>6, <2>1, <2>2, WorseOrder
    <3>2. Floor(m)'
      <4>1. /\ m \in linked /\ tip' = m /\ ~ Worse(seq, m, m) /\ ~ Worse(seq, m, f)
            /\ Path[m] \cap (Failed \cup Invalid \cup failedValid') = {}
            /\ failedValid \subseteq failedValid'
        BY <1>0, <1>8, <2>2, <2>3, <3>1
      <4> QED BY <1>7, <1>8, <4>1
    <3> QED BY <1>8, <2>2, <3>2 DEF Floor
  <2>5. \A b \in index' : Viable(b)' => ~ Worse(seq', tip', b)
    BY <1>0, <1>6, <1>8, <2>1, <2>2 DEF Viable
  <2>6. \A c \in candidates' : ~ Worse(seq', c, tip')
    BY <1>0, <1>8 DEF CandidatesLeft, TreeInv, CandidateInv
  <2> QED BY <1>0, <1>8, <2>3, <2>4, <2>5, <2>6 DEF TreeInv, CandidateInv
<1>9. ASSUME NEW m \in MostWork \ {tip}, ActivateBestChainStep(m)
      PROVE  CandidateInv'
  <2>1. PICK t \in Block :
          /\ Connects(m, t) /\ tip' = t /\ activating' = (t # m)
          /\ LET kept == IF t \in chainActive THEN CandidatesLeft
                         ELSE PruneBlockIndexCandidates(CandidatesLeft, t)
             IN  \/ /\ t = m \/ (t \notin chainActive /\ Work[t] > Work[tip])
                    /\ candidates' = kept
                    /\ UNCHANGED failedValid
                 \/ \E x \in Path[m] \cap Invalid :
                      /\ Parent[x] = t
                      /\ failedValid' = failedValid \cup {x}
                      /\ candidates' = kept \ {x}
    BY <1>9 DEF ActivateBestChainStep, InvalidBlockFound
  <2>2. t \in linked /\ Path[t] \subseteq Path[m] /\ m \in linked /\ m \in Block
    BY <1>0, <1>9, <2>1, StepTarget DEF TreeInv, MostWork
  <2>3. Path[t] \cap Invalid = {} /\ Path[t] \cap Failed = {}
    BY <1>6, <1>9, <2>1, <2>2 DEF Connects, TreeInv, CandidateInv
  \* The block that ends the round is not on the path of what was connected before.
  <2>4. /\ failedValid \subseteq failedValid'
        /\ \A g \in Block : Path[g] \cap Invalid = {} /\ Path[g] \cap Failed = {}
              => Path[g] \cap failedValid' = {}
    BY <1>0, <2>1
  <2>5. /\ \A c \in CandidatesLeft :
             Path[c] \cap failedValid' = {} /\ ~ Worse(seq, c, t) => c \in candidates'
        /\ candidates' \subseteq CandidatesLeft
        /\ t \notin chainActive => \A c \in candidates' : ~ Worse(seq, c, t)
    <3>1. \A c \in CandidatesLeft : c \in Path[c]
      BY <1>0, PathFacts DEF CandidatesLeft
    <3> QED BY <2>1, <3>1 DEF PruneBlockIndexCandidates
  <2>6. ASSUME NEW c \in candidates' PROVE ~ Worse(seq, c, t)
    <3>1. CASE t \notin chainActive
      BY <2>5, <3>1
    <3>2. CASE t \in chainActive
      <4>1. c \in candidates /\ c \in Block /\ tip \in Block
        BY <1>0, <2>5 DEF CandidatesLeft
      <4>2. ~ Worse(seq, c, tip)
        BY <4>1 DEF TreeInv, CandidateInv
      <4>3. ~ Worse(seq, tip, t)
        BY <1>0, <3>2, <4>1, AncestorNotBetter DEF chainActive
      <4> QED BY <1>0, <4>1, <4>2, <4>3, WorseOrder
    <3> QED BY <3>1, <3>2
  <2>7. chainActive' \cap Invalid = {}
    BY <2>1, <2>3 DEF chainActive
  <2>8. CASE Worse(seq, t, f)
    <3>1. ~ Worse(seq, f, t) /\ ~ Worse(seq, f, f)
      BY <1>0, <1>4, <2>8, WorseOrder
    <3>2. Path[f] \cap (Failed \cup Invalid \cup failedValid') = {}
      BY <1>4, <2>4 DEF Floor
    <3>3. Floor(f)'
      BY <1>5, <1>7, <2>1, <2>2, <2>4, <2>5, <3>1, <3>2
    <3>4. t # m
      BY <1>6, <1>9, <2>8
    <3> QED BY <1>0, <2>1, <2>6, <2>7, <3>3, <3>4 DEF CandidateInv
  <2>9. CASE ~ Worse(seq, t, f)
    <3>1. ~ Worse(seq, t, t)
      BY <1>0, WorseOrder
    <3>2. Path[t] \cap (Failed \cup Invalid \cup failedValid') = {}
      BY <2>3, <2>4
    <3>3. Floor(t)'
      BY <1>7, <2>1, <2>2, <2>4, <2>5, <2>9, <3>1, <3>2
    <3>4. Floor(tip)'
      BY <2>1, <3>3 DEF Floor
    <3>5. ASSUME NEW b \in index', Viable(b)', t = m
          PROVE  ~ Worse(seq, t, b)
      <4>1. b \in index /\ Viable(b)
        BY <1>0, <2>4, <3>5 DEF Viable
      <4> QED BY <1>6, <1>9, <3>5, <4>1
    <3> QED BY <1>0, <2>1, <2>6, <2>7, <3>3, <3>4, <3>5 DEF CandidateInv
  <2> QED BY <2>8, <2>9
<1> QED BY <1>8, <1>9 DEF ActivateBestChain

LEMMA CandidateStep ==
  ASSUME Contested = {}, "reconsider" \notin Operators, TreeInv, [Next]_vars
  PROVE  TreeInv'
<1>0. LinkInv' /\ ActiveChainNotFailed' /\ AncestorInv'
  BY LinkStep, SafeStep, AncestorStep DEF TreeInv
<1>00. linked \subseteq data /\ data \subseteq index /\ index \subseteq Block
  BY DEF TreeInv, LinkInv, TypeOK
<1>1. ASSUME NEW b \in Block, AcceptBlockHeader(b) \/ AcceptDuplicate(b)
      PROVE  CandidateInv'
  <2>1. /\ UNCHANGED <<linked, seq, candidates, tip, failedValid, failedChild>>
        /\ activating \in {activating', FALSE}
    BY <1>1 DEF AcceptBlockHeader, AcceptDuplicate, TreeInv, LinkInv, TypeOK
  <2>2. Failed' = Failed
    BY <2>1 DEF Failed
  <2> QED BY <1>0, <2>1, <2>2, CandidatesKept
<1>2. ASSUME NEW b \in Block, RejectBlock(b)
      PROVE  CandidateInv'
  <2>1. /\ UNCHANGED <<linked, seq, candidates, tip, activating>>
        /\ Failed' = Failed \cup {b} /\ failedValid \subseteq failedValid' /\ b \notin data
    BY <1>2 DEF RejectBlock, BlockAcceptable, Failed
  <2>2. \A x \in linked : b \notin Path[x]
    BY <1>00, <2>1, LinkedClosed DEF TreeInv
  <2> QED BY <1>0, <2>1, <2>2, CandidatesKept
<1>3. ASSUME NEW b \in Block, AcceptBlock(b)
      PROVE  CandidateInv'
  BY <1>3, AcceptKeepsCandidates
<1>4. ASSUME NEW b \in Block, InvalidateBlock(b)
      PROVE  CandidateInv'
  BY <1>0, <1>4, InvalidateKeepsCandidates
<1>5. ASSUME NEW b \in Block, ReconsiderBlock(b)
      PROVE  FALSE
  BY <1>5 DEF ReconsiderBlock
<1>6. ASSUME ActivateBestChain
      PROVE  CandidateInv'
  BY <1>0, <1>6, ActivateKeepsCandidates
<1>7. ASSUME ReprocessBlocks
      PROVE  CandidateInv'
  <2>1. /\ tip' \in Path[tip] /\ activating' = TRUE
        /\ UNCHANGED <<index, linked, failedValid, failedChild, seq, candidates>>
    BY <1>7 DEF ReprocessBlocks, chainActive
  <2>2. tip \in Block /\ seq \in [Block -> Nat] /\ candidates \subseteq Block
    BY <1>00 DEF TreeInv, LinkInv, TypeOK
  <2>3. tip' \in Block /\ ~ Worse(seq, tip, tip') /\ Path[tip'] \subseteq Path[tip]
    BY <2>1, <2>2, AncestorNotBetter, PathFacts
  <2>4. \A f : Floor(f) => Floor(f)'
    BY <2>1 DEF Floor, Failed, Viable
  <2>5. \A c \in candidates : ~ Worse(seq, c, tip')
    BY <2>2, <2>3, WorseOrder DEF TreeInv, CandidateInv
  <2> QED BY <2>1, <2>3, <2>4, <2>5 DEF TreeInv, CandidateInv, chainActive
<1>8. ASSUME UNCHANGED vars
      PROVE  CandidateInv'
  <2>1. Failed' = Failed
    BY <1>8 DEF vars, Failed
  <2>2. activating \in {activating', FALSE}
    BY <1>8 DEF vars
  <2> QED BY <1>0, <1>8, <2>1, <2>2, CandidatesKept DEF vars
<1> QED BY <1>0, <1>1, <1>2, <1>3, <1>4, <1>5, <1>6, <1>7, <1>8 DEF TreeInv, Next

LEMMA TreeInvariant ==
  ASSUME Contested = {}, "reconsider" \notin Operators
  PROVE  Spec => []TreeInv
<1>1. Init => TreeInv
  <2>1. Init => AncestorInv
    BY DEF Init, AncestorInv, Failed
  <2> QED BY <2>1, LinkInit, SafeInit, CandidateInit DEF TreeInv
<1>2. TreeInv /\ [Next]_vars => TreeInv'
  BY CandidateStep
<1> QED BY <1>1, <1>2, PTL DEF Spec

\* When verdicts do not change and nothing is reconsidered, setBlockIndexCandidates
\* is what CheckBlockIndex asserts whenever no thread is in ActivateBestChain,
\* with invalidations, replays and other threads' blocks at any point of its loop.
THEOREM CandidatesCorrect ==
  ASSUME Contested = {}, "reconsider" \notin Operators
  PROVE  Spec => []CandidatesSettle
<1>1. TreeInv => CandidatesSettle
  BY DEF TreeInv, CandidateInv, Floor, CandidatesSettle, CandidatesAreRight
<1> QED BY <1>1, TreeInvariant, PTL

\* And the tip then has the most work of all viable blocks.
THEOREM BestChainChosen ==
  ASSUME Contested = {}, "reconsider" \notin Operators
  PROVE  Spec => []BestChainActive
<1>1. TreeInv => BestChainActive
  <2> SUFFICES ASSUME TreeInv, ~ activating, NEW b \in index, Viable(b)
               PROVE  Work[b] <= Work[tip]
    BY DEF BestChainActive
  <2>1. ~ Worse(seq, tip, b)
    BY DEF TreeInv, CandidateInv
  <2>2. Work[b] \in Nat /\ Work[tip] \in Nat
    BY TreeAssumption DEF TreeInv, LinkInv, TypeOK
  <2> QED BY <2>1, <2>2 DEF Worse
<1> QED BY <1>1, TreeInvariant, PTL
=============================================================================
