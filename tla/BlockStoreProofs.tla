-------------------------- MODULE BlockStoreProofs --------------------------
(* Theorems about BlockStore, for any finite block tree and size of the file. *)
EXTENDS BlockStore, FiniteSetTheorems, WellFoundedInduction, TLAPS

-----------------------------------------------------------------------------
\* What makes CoinsPathStored inductive.

\* The entry of b in the index i has data and, but for the genesis block, undo data.
Complete(i, b) == b \in i.known /\ i.pos[b] # 0 /\ (b # Genesis => b \in i.undo)

\* Both the memory's tip and that on disk rest on complete entries of mapBlockIndex.
TipsComplete == \A b \in Path[coins] \cup Path[dCoins] : Complete(index, b)

\* What is not in setDirtyBlockIndex is on disk as it is in memory.
CleanIsStored ==
  \A b \in index.known \ dirty :
    /\ b \in dIndex.known
    /\ dIndex.pos[b] = index.pos[b]
    /\ b \in index.undo => b \in dIndex.undo

\* Data belongs to entries.
DataIsKnown ==
  /\ \A b \in Block : index.pos[b] # 0 => b \in index.known
  /\ \A b \in Block : dIndex.pos[b] # 0 => b \in dIndex.known

\* What an operation that is under way has found out.
Working ==
  /\ pc = "connect" =>
       cur # Genesis /\ Parent[cur] = coins /\ cur \in index.known /\ index.pos[cur] # 0
  /\ pc = "disconnect" => cur # Genesis /\ cur = coins
  /\ pc = "coins" => dirty = {}

StoreInv ==
  /\ TypeOK
  /\ CoinsPathStored
  /\ TipsComplete
  /\ CleanIsStored
  /\ DataIsKnown
  /\ Working

-----------------------------------------------------------------------------
LEMMA TreeFacts ==
  /\ \A b \in Block : b \in Path[b] /\ Path[b] \subseteq Block
  /\ \A b \in Block : \A x \in Path[b] : Path[x] \subseteq Path[b]
  /\ \A b \in Block \ {Genesis} :
       Parent[b] \in Block /\ Path[b] = Path[Parent[b]] \cup {b}
BY StoreAssumption

LEMMA HeightType ==
  ASSUME NEW b \in Block
  PROVE  Height(b) \in Nat
<1>1. IsFiniteSet(Path[b]) /\ b \in Path[b]
  BY StoreAssumption, TreeFacts, FS_Subset
<1>2. Cardinality(Path[b]) \in Nat /\ Cardinality(Path[b]) # 0
  BY <1>1, FS_CardinalityType, FS_EmptySet
<1> QED BY <1>2 DEF Height

LEMMA GenesisHeight == Height(Genesis) = 0
<1>1. Path[Genesis] = {Genesis}
  BY StoreAssumption
<1>2. Cardinality({Genesis}) = 1
  BY FS_Singleton
<1> QED BY <1>1, <1>2 DEF Height

LEMMA InfoHeight ==
  ASSUME NEW i \in Info
  PROVE  i.height \in Nat
BY HeightType DEF Info

LEMMA StoreInit ==
  ASSUME Init
  PROVE  StoreInv
<1>1. Genesis \in Block /\ Path[Genesis] = {Genesis} /\ FileSize \in Nat \ {0}
  BY StoreAssumption
<1>2. TypeOK
  <2>1. index \in Index
    BY <1>1 DEF Init, Index
  <2>2. info \in Info
    <3>1. 0 \in {Height(b) : b \in Block}
      BY <1>1, GenesisHeight
    <3> QED BY <1>1, <3>1 DEF Init, Info
  <2>3. file \in [1 .. FileSize -> Block \cup {NoBlock}]
    BY <1>1 DEF Init
  <2> QED BY <1>1, <2>1, <2>2, <2>3 DEF Init, TypeOK, PC
<1> QED
  BY <1>1, <1>2
  DEF Init, StoreInv, CoinsPathStored, TipsComplete, Complete, CleanIsStored, DataIsKnown, Working

\* Writing the entry of b as it is in mapBlockIndex.
LEMMA WritingKeeps ==
  ASSUME StoreInv, NEW b \in Block, WriteBlockIndex(index, b),
         UNCHANGED <<index, coins, dCoins>>, dirty' = dirty \/ dirty' = dirty \ {b}
  PROVE  /\ dIndex' \in Index
         /\ CoinsPathStored' /\ TipsComplete' /\ CleanIsStored' /\ DataIsKnown'
<1>1. /\ dIndex'.known = dIndex.known \cup {b}
      /\ dIndex'.pos = [dIndex.pos EXCEPT ![b] = index.pos[b]]
      /\ dIndex'.undo = IF b \in index.undo THEN dIndex.undo \cup {b} ELSE dIndex.undo \ {b}
  BY DEF WriteBlockIndex
<1>2. dIndex \in Index /\ index \in Index /\ coins \in Block /\ dCoins \in Block
  BY DEF StoreInv, TypeOK
<1>3. dIndex' \in Index
  BY <1>2 DEF WriteBlockIndex, Index
<1>4. \A x \in Block : dIndex'.pos[x] = IF x = b THEN index.pos[b] ELSE dIndex.pos[x]
  BY <1>1, <1>2 DEF Index
<1>5. CoinsPathStored'
  BY <1>1, <1>2, <1>4, TreeFacts DEF StoreInv, CoinsPathStored, TipsComplete, Complete
<1>6. TipsComplete'
  BY DEF StoreInv, TipsComplete, Complete
<1>7. CleanIsStored'
  BY <1>1, <1>2, <1>4 DEF StoreInv, CleanIsStored, Index
<1>8. DataIsKnown'
  BY <1>1, <1>2, <1>4 DEF StoreInv, DataIsKnown
<1> QED BY <1>3, <1>5, <1>6, <1>7, <1>8

-----------------------------------------------------------------------------
LEMMA AcceptKeeps ==
  ASSUME StoreInv, NEW b \in Block,
         AcceptBlockHeader(b) \/ AcceptBlock(b) \/ RejectBlock(b)
  PROVE  StoreInv'
<1>1. /\ index \in Index /\ dIndex \in Index /\ dirty \in SUBSET Block
      /\ coins \in Block /\ dCoins \in Block /\ info \in Info
  BY DEF StoreInv, TypeOK
<1>2. /\ dirty' = dirty \cup {b}
      /\ UNCHANGED <<dIndex, dInfo, dCoins, dClean, coins, pc, cur, stopping, start>>
      /\ pc = "run"
  BY DEF AcceptBlockHeader, AcceptBlock, RejectBlock, disk
<1>3. /\ index' \in Index
      /\ index'.known = index.known \cup {b}
      /\ index'.undo = index.undo
      /\ \A x \in Block : x # b => index'.pos[x] = index.pos[x]
      /\ index.pos[b] # 0 => index'.pos[b] = index.pos[b]
  <2>1. CASE AcceptBlockHeader(b)
    BY <1>1, <2>1 DEF AcceptBlockHeader, Index
  <2>2. CASE AcceptBlock(b)
    <3>1. info.size + 1 \in 0 .. FileSize
      BY <1>1, <2>2, StoreAssumption DEF AcceptBlock, Info
    <3> QED BY <1>1, <2>2, <3>1 DEF AcceptBlock, Index
  <2>3. CASE RejectBlock(b)
    BY <1>1, <2>3 DEF RejectBlock, Index
  <2> QED BY <2>1, <2>2, <2>3
<1>4. TypeOK'
  <2>1. CASE AcceptBlockHeader(b)
    BY <1>2, <1>3, <2>1 DEF AcceptBlockHeader, StoreInv, TypeOK, disk
  <2>2. CASE AcceptBlock(b)
    <3>1. info.size + 1 \in 1 .. FileSize
      BY <1>1, <2>2, StoreAssumption DEF AcceptBlock, Info
    <3>2. file' \in [1 .. FileSize -> Block \cup {NoBlock}]
      BY <2>2, <3>1 DEF AcceptBlock, StoreInv, TypeOK
    <3>3. info' \in Info
      BY <1>1, <2>2, <3>1 DEF AcceptBlock, Info
    <3>4. infoDirty' = TRUE
      BY <2>2 DEF AcceptBlock
    <3> QED BY <1>2, <1>3, <3>2, <3>3, <3>4 DEF StoreInv, TypeOK
  <2>3. CASE RejectBlock(b)
    BY <1>2, <1>3, <2>3 DEF RejectBlock, StoreInv, TypeOK, disk
  <2> QED BY <2>1, <2>2, <2>3
<1>5. CoinsPathStored'
  BY <1>2 DEF StoreInv, CoinsPathStored
<1>6. TipsComplete'
  BY <1>1, <1>2, <1>3, TreeFacts DEF StoreInv, TipsComplete, Complete
<1>7. CleanIsStored'
  BY <1>1, <1>2, <1>3 DEF StoreInv, CleanIsStored, Index
<1>8. DataIsKnown'
  BY <1>1, <1>2, <1>3 DEF StoreInv, DataIsKnown
<1>9. Working'
  BY <1>2 DEF Working
<1> QED BY <1>4, <1>5, <1>6, <1>7, <1>8, <1>9 DEF StoreInv

LEMMA ConnectKeeps ==
  ASSUME StoreInv, (\E b \in Block : BeginConnect(b)) \/ EndConnect \/ RefuseBlock
  PROVE  StoreInv'
<1>1. /\ index \in Index /\ dIndex \in Index /\ dirty \in SUBSET Block
      /\ coins \in Block /\ dCoins \in Block /\ cur \in Block /\ Genesis \in Block
  BY StoreAssumption DEF StoreInv, TypeOK
<1>2. ASSUME NEW b \in Block, BeginConnect(b)
      PROVE  StoreInv'
  <2>1. /\ dIndex' \in Index
        /\ CoinsPathStored' /\ TipsComplete' /\ CleanIsStored' /\ DataIsKnown'
    BY <1>2, WritingKeeps DEF BeginConnect, memory
  <2>2. TypeOK'
    BY <1>2, <2>1 DEF BeginConnect, memory, StoreInv, TypeOK, PC
  <2>3. Working'
    BY <1>2 DEF BeginConnect, memory, Readable, Working
  <2> QED BY <2>1, <2>2, <2>3 DEF StoreInv
<1>3. CASE EndConnect
  <2>1. /\ UNCHANGED <<file, dIndex, dInfo, dCoins, dClean, info, stopping, start>>
        /\ pc' = "run" /\ coins' = cur /\ cur' = Genesis
        /\ cur # Genesis /\ Parent[cur] = coins /\ cur \in index.known /\ index.pos[cur] # 0
    BY <1>3 DEF EndConnect, StoreInv, Working
  <2>2. /\ index' \in Index /\ index'.known = index.known /\ index'.pos = index.pos
        /\ index'.undo = index.undo \cup {cur}
        /\ dirty' = dirty \/ dirty' = dirty \cup {cur}
        /\ cur \notin index.undo => cur \in dirty'
        /\ infoDirty' \in BOOLEAN
    <3>1. CASE cur \in index.undo
      BY <1>1, <1>3, <3>1 DEF EndConnect, StoreInv, TypeOK
    <3>2. CASE cur \notin index.undo
      BY <1>1, <1>3, <3>2 DEF EndConnect, Index
    <3> QED BY <3>1, <3>2
  <2>3. TypeOK'
    BY <1>1, <2>1, <2>2 DEF StoreInv, TypeOK, PC
  <2>4. CoinsPathStored'
    BY <2>1 DEF StoreInv, CoinsPathStored
  <2>5. TipsComplete'
    <3>1. Path[cur] = Path[coins] \cup {cur}
      BY <1>1, <2>1, TreeFacts
    <3> QED BY <1>1, <2>1, <2>2, <3>1 DEF StoreInv, TipsComplete, Complete
  <2>6. CleanIsStored'
    BY <1>1, <2>1, <2>2 DEF StoreInv, CleanIsStored, Index
  <2>7. DataIsKnown'
    BY <2>1, <2>2 DEF StoreInv, DataIsKnown
  <2>8. Working'
    BY <2>1 DEF Working
  <2> QED BY <2>3, <2>4, <2>5, <2>6, <2>7, <2>8 DEF StoreInv
<1>4. CASE RefuseBlock
  <2>1. /\ index' \in Index /\ index'.known = index.known /\ index'.pos = index.pos
        /\ index'.undo = index.undo
    BY <1>1, <1>4 DEF RefuseBlock, Index
  <2>2. /\ dirty' = dirty \cup {cur} /\ pc' = "run" /\ cur' = Genesis
        /\ UNCHANGED <<file, dIndex, dInfo, dCoins, dClean, info, infoDirty, coins>>
        /\ UNCHANGED <<stopping, start>>
    BY <1>4 DEF RefuseBlock, disk
  <2>3. TypeOK'
    BY <1>1, <2>1, <2>2 DEF StoreInv, TypeOK, PC
  <2> QED
    BY <2>1, <2>2, <2>3
    DEF StoreInv, CoinsPathStored, TipsComplete, Complete, CleanIsStored, DataIsKnown, Working
<1> QED BY <1>2, <1>3, <1>4

LEMMA DisconnectKeeps ==
  ASSUME StoreInv, BeginDisconnect \/ EndDisconnect
  PROVE  StoreInv'
<1>1. coins \in Block /\ dCoins \in Block /\ Genesis \in Block /\ cur \in Block
  BY StoreAssumption DEF StoreInv, TypeOK
<1>2. CASE BeginDisconnect
  BY <1>1, <1>2
  DEF BeginDisconnect, memory, StoreInv, TypeOK, PC, CoinsPathStored, TipsComplete, Complete,
      CleanIsStored, DataIsKnown, Working
<1>3. CASE EndDisconnect
  <2>1. /\ UNCHANGED <<file, dIndex, dInfo, dCoins, dClean, index, dirty, info, infoDirty>>
        /\ UNCHANGED <<stopping, start>>
        /\ coins' = Parent[cur] /\ pc' = "info" /\ cur' = Genesis
        /\ cur # Genesis /\ cur = coins
    BY <1>3 DEF EndDisconnect, disk, StoreInv, Working
  <2>2. Parent[cur] \in Block /\ Path[Parent[cur]] \subseteq Path[coins]
    BY <1>1, <2>1, TreeFacts
  <2>3. TypeOK'
    BY <1>1, <2>1, <2>2 DEF StoreInv, TypeOK, PC
  <2>4. TipsComplete'
    BY <2>1, <2>2 DEF StoreInv, TipsComplete, Complete
  <2> QED BY <2>1, <2>3, <2>4
          DEF StoreInv, CoinsPathStored, CleanIsStored, DataIsKnown, Working
<1> QED BY <1>2, <1>3

-----------------------------------------------------------------------------
LEMMA FlushKeeps ==
  ASSUME StoreInv,
         \/ \E last \in BOOLEAN : BeginFlush(last)
         \/ WriteBlockFileInfo \/ EntriesWritten \/ PrepareShutdown
         \/ \E b \in Block : WriteDirtyEntry(b)
  PROVE  StoreInv'
<1>1. ASSUME NEW last \in BOOLEAN, BeginFlush(last)
      PROVE  StoreInv'
  BY <1>1
  DEF BeginFlush, disk, memory, StoreInv, TypeOK, PC, CoinsPathStored, TipsComplete, Complete,
      CleanIsStored, DataIsKnown, Working
<1>2. CASE WriteBlockFileInfo
  <2>1. TypeOK'
    BY <1>2 DEF WriteBlockFileInfo, StoreInv, TypeOK, PC
  <2> QED
    BY <1>2, <2>1
    DEF WriteBlockFileInfo, StoreInv, CoinsPathStored, TipsComplete, Complete, CleanIsStored,
        DataIsKnown, Working
<1>3. CASE EntriesWritten
  BY <1>3
  DEF EntriesWritten, disk, memory, StoreInv, TypeOK, PC, CoinsPathStored, TipsComplete, Complete,
      CleanIsStored, DataIsKnown, Working
<1>4. CASE PrepareShutdown
  <2>1. TypeOK'
    BY <1>4 DEF PrepareShutdown, memory, StoreInv, TypeOK, PC
  <2> QED
    BY <1>4, <2>1
    DEF PrepareShutdown, memory, StoreInv, CoinsPathStored, TipsComplete, Complete, CleanIsStored,
        DataIsKnown, Working
<1>5. ASSUME NEW b \in Block, WriteDirtyEntry(b)
      PROVE  StoreInv'
  <2>1. /\ dIndex' \in Index
        /\ CoinsPathStored' /\ TipsComplete' /\ CleanIsStored' /\ DataIsKnown'
    BY <1>5, WritingKeeps DEF WriteDirtyEntry
  <2>2. TypeOK'
    BY <1>5, <2>1 DEF WriteDirtyEntry, StoreInv, TypeOK
  <2>3. Working'
    BY <1>5 DEF WriteDirtyEntry, Working
  <2> QED BY <2>1, <2>2, <2>3 DEF StoreInv
<1> QED BY <1>1, <1>2, <1>3, <1>4, <1>5

\* The step CoinsPathStored is about: every entry has been written by then.
LEMMA FlushCoinsKeeps ==
  ASSUME StoreInv, FlushCoins
  PROVE  StoreInv'
<1>1. /\ UNCHANGED <<file, dIndex, dInfo, dClean, index, dirty, info, infoDirty, coins>>
      /\ UNCHANGED <<cur, stopping, start>>
      /\ dCoins' = coins /\ pc' \in {"flag", "run"} /\ dirty = {}
  BY DEF FlushCoins, memory, StoreInv, Working
<1>2. TypeOK'
  BY <1>1 DEF StoreInv, TypeOK, PC
<1>3. CoinsPathStored'
  BY <1>1 DEF StoreInv, CoinsPathStored, TipsComplete, Complete, CleanIsStored
<1>4. TipsComplete'
  BY <1>1 DEF StoreInv, TipsComplete, Complete
<1> QED
  BY <1>1, <1>2, <1>3, <1>4 DEF StoreInv, CleanIsStored, DataIsKnown, Working

\* Memory becomes what is on disk.
LEMMA LoadedIsGood ==
  ASSUME CoinsPathStored', DataIsKnown, NEW i \in Index, index' = i, dIndex' = i,
         \A b \in Block : i.pos[b] # 0 => b \in i.known, coins' = dCoins'
  PROVE  TipsComplete' /\ CleanIsStored' /\ DataIsKnown'
BY DEF CoinsPathStored, TipsComplete, Complete, CleanIsStored, DataIsKnown

LEMMA CrashKeeps ==
  ASSUME StoreInv, Crash
  PROVE  StoreInv'
<1>1. TypeOK'
  BY StoreAssumption DEF Crash, disk, StoreInv, TypeOK, PC
<1>2. CoinsPathStored'
  BY DEF Crash, disk, StoreInv, CoinsPathStored
<1>3. TipsComplete' /\ CleanIsStored' /\ DataIsKnown'
  BY <1>2, LoadedIsGood DEF Crash, disk, StoreInv, TypeOK, DataIsKnown
<1>4. Working'
  BY DEF Crash, Working
<1> QED BY <1>1, <1>2, <1>3, <1>4 DEF StoreInv

LEMMA StartKeeps ==
  ASSUME StoreInv, Start \/ StartTorn \/ RepairOutOfBounds
                   \/ \E meta, last \in Block : RepairAsserts(meta, last)
  PROVE  StoreInv'
<1>1. CASE Start
  <2>1. TypeOK'
    BY <1>1 DEF Start, Load, StoreInv, TypeOK, PC
  <2>2. CoinsPathStored'
    BY <1>1 DEF Start, Load, StoreInv, CoinsPathStored
  <2>3. TipsComplete' /\ CleanIsStored' /\ DataIsKnown'
    BY <1>1, <2>2, LoadedIsGood DEF Start, Load, StoreInv, TypeOK, DataIsKnown
  <2>4. Working'
    BY <1>1 DEF Start, Working
  <2> QED BY <2>1, <2>2, <2>3, <2>4 DEF StoreInv
<1>2. CASE StartTorn
  BY <1>2
  DEF StartTorn, disk, memory, StoreInv, TypeOK, PC, CoinsPathStored, TipsComplete, Complete,
      CleanIsStored, DataIsKnown, Working
<1>3. ASSUME UNCHANGED <<disk, memory, pc, cur, stopping>>, start' \in {"bounds", "assert"}
      PROVE  StoreInv'
  BY <1>3
  DEF disk, memory, StoreInv, TypeOK, CoinsPathStored, TipsComplete, Complete,
      CleanIsStored, DataIsKnown, Working
<1>4. CASE RepairOutOfBounds
  BY <1>3, <1>4 DEF RepairOutOfBounds
<1>5. ASSUME NEW meta \in Block, NEW last \in Block, RepairAsserts(meta, last)
      PROVE  StoreInv'
  BY <1>3, <1>5 DEF RepairAsserts
<1> QED BY <1>1, <1>2, <1>4, <1>5

\* Wherever the repair leaves the coins, the path was loaded with its data, and
\* connecting it wrote the undo data.
LEMMA RepairKeeps ==
  ASSUME StoreInv, NEW meta \in Block, NEW last \in Block, Repair(meta, last)
  PROVE  StoreInv'
<1>1. PICK t \in Block, F \in SUBSET Refusable :
        /\ t = dCoins \/ \E m \in MostWork(F) : Reached(m, t)
        /\ Load([dIndex EXCEPT
                   !.undo = @ \cup ((Path[t] \cup UNION {Path[x] \ {x} : x \in F}) \ {Genesis}),
                   !.failed = @ \cup F], t)
        /\ info' = LastInfo(last) /\ dInfo' = info'
        /\ pc' \in {"run", "down"} /\ start' \in {"ok", "abort"} /\ dClean' \in BOOLEAN
        /\ UNCHANGED <<file, cur, stopping>>
  <2>1. dClean \in BOOLEAN
    BY DEF StoreInv, TypeOK
  <2> QED BY <2>1 DEF Repair
<1> DEFINE U == (Path[t] \cup UNION {Path[x] \ {x} : x \in F}) \ {Genesis}
           i == [dIndex EXCEPT !.undo = @ \cup U, !.failed = @ \cup F]
<1>2. /\ i \in Index /\ i.known = dIndex.known /\ i.pos = dIndex.pos
      /\ i.undo = dIndex.undo \cup U /\ Path[t] \ {Genesis} \subseteq U
  <2>1. F \subseteq Block
    BY StoreAssumption
  <2>2. U \subseteq Block /\ Path[t] \ {Genesis} \subseteq U
    BY <2>1, TreeFacts
  <2>3. dIndex \in Index
    BY DEF StoreInv, TypeOK
  <2> HIDE DEF U
  <2> QED BY <2>1, <2>2, <2>3 DEF Index
<1>3. /\ index' = i /\ dIndex' = i /\ coins' = t /\ dCoins' = t
      /\ dirty' = {} /\ infoDirty' = FALSE
  BY <1>1 DEF Load
<1> HIDE DEF i, U
<1>4. info' \in Info
  <2>1. dIndex.pos[last] \in 0 .. FileSize
    BY DEF StoreInv, TypeOK, Index
  <2> QED BY <1>1, <2>1 DEF LastInfo, Info
<1>5. TypeOK'
  BY <1>1, <1>2, <1>3, <1>4 DEF StoreInv, TypeOK, PC
<1>6. \A x \in Path[t] : x \in dIndex.known /\ dIndex.pos[x] # 0
  <2>1. CASE t = dCoins
    BY <2>1 DEF StoreInv, CoinsPathStored
  <2>2. ASSUME NEW m \in MostWork(F), Reached(m, t)
        PROVE  \A x \in Path[t] : x \in dIndex.known /\ dIndex.pos[x] # 0
    <3>1. m \in Block /\ t \in Path[m] /\ \A x \in Path[m] : dIndex.pos[x] # 0
      BY <2>2 DEF MostWork, Linked, Reached, StoreInv, TypeOK, Index
    <3>2. Path[t] \subseteq Path[m] /\ Path[m] \subseteq Block
      BY <3>1, TreeFacts
    <3> QED BY <3>1, <3>2 DEF StoreInv, DataIsKnown
  <2> QED BY <1>1, <2>1, <2>2
<1>7. CoinsPathStored'
  BY <1>2, <1>3, <1>6 DEF CoinsPathStored
<1>8. TipsComplete' /\ CleanIsStored' /\ DataIsKnown'
  <2>1. \A b \in Block : i.pos[b] # 0 => b \in i.known
    BY <1>2 DEF StoreInv, DataIsKnown
  <2>2. DataIsKnown
    BY DEF StoreInv
  <2> QED BY <1>2, <1>3, <1>7, <2>1, <2>2, LoadedIsGood
<1>9. Working'
  BY <1>1 DEF Working
<1> QED BY <1>5, <1>7, <1>8, <1>9 DEF StoreInv

-----------------------------------------------------------------------------
LEMMA StoreNext ==
  ASSUME StoreInv, [Next]_vars
  PROVE  StoreInv'
<1>1. CASE UNCHANGED vars
  BY <1>1
  DEF vars, disk, memory, StoreInv, TypeOK, CoinsPathStored, TipsComplete, Complete,
      CleanIsStored, DataIsKnown, Working
<1>2. CASE Next
  <2>1. ASSUME NEW b \in Block, AcceptBlockHeader(b) \/ AcceptBlock(b) \/ RejectBlock(b)
        PROVE  StoreInv'
    BY <2>1, AcceptKeeps
  <2>2. CASE (\E b \in Block : BeginConnect(b)) \/ EndConnect \/ RefuseBlock
    BY <2>2, ConnectKeeps
  <2>3. CASE BeginDisconnect \/ EndDisconnect
    BY <2>3, DisconnectKeeps
  <2>4. CASE \/ \E last \in BOOLEAN : BeginFlush(last)
             \/ WriteBlockFileInfo \/ EntriesWritten \/ PrepareShutdown
             \/ \E b \in Block : WriteDirtyEntry(b)
    BY <2>4, FlushKeeps
  <2>5. CASE FlushCoins
    BY <2>5, FlushCoinsKeeps
  <2>6. CASE Crash
    BY <2>6, CrashKeeps
  <2>7. CASE Start \/ StartTorn \/ RepairOutOfBounds
             \/ \E meta, last \in Block : RepairAsserts(meta, last)
    BY <2>7, StartKeeps
  <2>8. ASSUME NEW meta \in Block, NEW last \in Block, Repair(meta, last)
        PROVE  StoreInv'
    BY <2>8, RepairKeeps
  <2> QED BY <1>2, <2>1, <2>2, <2>3, <2>4, <2>5, <2>6, <2>7, <2>8 DEF Next
<1> QED BY <1>1, <1>2

\* StoreInv is an inductive invariant of the node that stores, flushes, crashes and
\* starts again.
THEOREM InvariantHolds == Spec => []StoreInv
<1>1. Init => StoreInv
  BY StoreInit
<1>2. StoreInv /\ [Next]_vars => StoreInv'
  BY StoreNext
<1> QED BY <1>1, <1>2, PTL DEF Spec

\* Every variable of the node and of its disk keeps its type, in every run.
THEOREM TypeCorrect == Spec => []TypeOK
<1>1. StoreInv => TypeOK
  BY DEF StoreInv
<1> QED BY <1>1, InvariantHolds, PTL

\* FlushStateToDisk, ConnectBlock, DisconnectTip and LoadBlockIndexDB: whenever the
\* process dies, and however often, the chain state on disk refers to a block whose
\* whole path the index on disk has with data and undo data.
THEOREM CoinsPathSafe == Spec => []CoinsPathStored
<1>1. StoreInv => CoinsPathStored
  BY DEF StoreInv
<1> QED BY <1>1, InvariantHolds, PTL

-----------------------------------------------------------------------------
\* Heights along a path.  The tree is given by Path and Parent only, so that a
\* path is a chain with one block of each height is proved from a block of least
\* height for which it fails.

LEMMA HeightOfChild ==
  ASSUME NEW b \in Block \ {Genesis}
  PROVE  Height(b) = Height(Parent[b]) + 1
<1>1. /\ Parent[b] \in Block /\ Path[b] = Path[Parent[b]] \cup {b}
      /\ b \notin Path[Parent[b]]
  BY StoreAssumption
<1>2. IsFiniteSet(Path[Parent[b]])
  BY <1>1, StoreAssumption, TreeFacts, FS_Subset
<1>3. Cardinality(Path[Parent[b]]) \in Nat
  BY <1>2, FS_CardinalityType
<1>4. Cardinality(Path[b]) = Cardinality(Path[Parent[b]]) + 1
  BY <1>1, <1>2, FS_AddElement
<1> QED BY <1>3, <1>4 DEF Height

LEMMA LowestExists ==
  ASSUME NEW B \in SUBSET Block, B # {}
  PROVE  \E c \in B : \A d \in B : Height(c) <= Height(d)
<1> DEFINE S == {Height(d) : d \in B}
<1>1. S \subseteq Nat /\ S # {}
  BY HeightType
<1>2. PICK n \in S : \A k \in S : ~ (<<k, n>> \in OpToRel(<, Nat))
  <2> HIDE DEF S
  <2> QED BY <1>1, NatLessThanWellFounded, WFMin
<1>3. \A k \in S : ~ (k < n)
  <2> HIDE DEF S
  <2> QED BY <1>1, <1>2 DEF OpToRel
<1>4. PICK c \in B : n = Height(c)
  BY <1>2
<1>5. ASSUME NEW d \in B PROVE Height(c) <= Height(d)
  <2>1. ~ (Height(d) < Height(c)) /\ Height(d) \in Nat /\ Height(c) \in Nat
    BY <1>3, <1>4, HeightType
  <2> QED BY <2>1
<1> QED BY <1>5

LEMMA AncestorIsLower ==
  ASSUME NEW b \in Block, NEW x \in Path[b], x # b
  PROVE  Height(x) < Height(b)
<1> DEFINE Bad == {c \in Block : \E y \in Path[c] : y # c /\ ~ (Height(y) < Height(c))}
<1> SUFFICES ASSUME Bad # {} PROVE FALSE
  OBVIOUS
<1>1. PICK c \in Bad : \A d \in Bad : Height(c) <= Height(d)
  BY LowestExists
<1>2. PICK y \in Path[c] : y # c /\ ~ (Height(y) < Height(c))
  BY <1>1
<1>3. c \in Block \ {Genesis}
  BY <1>1, <1>2, StoreAssumption
<1>4. y \in Path[Parent[c]] /\ Parent[c] \in Block /\ y \in Block
  BY <1>2, <1>3, TreeFacts
<1>5. Height(c) = Height(Parent[c]) + 1
  BY <1>3, HeightOfChild
<1>6. Height(c) \in Nat /\ Height(Parent[c]) \in Nat /\ Height(y) \in Nat
  BY <1>3, <1>4, HeightType
<1>7. Parent[c] \notin Bad
  BY <1>1, <1>5, <1>6
<1>8. y = Parent[c] \/ Height(y) < Height(Parent[c])
  BY <1>4, <1>7
<1> QED BY <1>2, <1>5, <1>6, <1>8

LEMMA PathIsChain ==
  ASSUME NEW b \in Block, NEW x \in Path[b], NEW y \in Path[b]
  PROVE  x \in Path[y] \/ y \in Path[x]
<1> DEFINE Bad == {c \in Block : \E u, v \in Path[c] : u \notin Path[v] /\ v \notin Path[u]}
<1> SUFFICES ASSUME Bad # {} PROVE FALSE
  OBVIOUS
<1>1. PICK c \in Bad : \A d \in Bad : Height(c) <= Height(d)
  BY LowestExists
<1>2. PICK u, v \in Path[c] : u \notin Path[v] /\ v \notin Path[u]
  BY <1>1
<1>3. u # c /\ v # c
  BY <1>2
<1>4. c \in Block \ {Genesis}
  BY <1>1, <1>2, <1>3, StoreAssumption
<1>5. u \in Path[Parent[c]] /\ v \in Path[Parent[c]] /\ Parent[c] \in Block
  BY <1>2, <1>3, <1>4, TreeFacts
<1>6. Height(c) = Height(Parent[c]) + 1 /\ Height(Parent[c]) \in Nat
  BY <1>4, <1>5, HeightOfChild, HeightType
<1>7. Parent[c] \in Bad
  BY <1>2, <1>5
<1> QED BY <1>1, <1>6, <1>7

LEMMA OneOfEachHeight ==
  ASSUME NEW b \in Block, NEW x \in Path[b], NEW y \in Path[b]
  PROVE  /\ Height(x) = Height(y) => x = y
         /\ y \in Path[x] <=> Height(y) <= Height(x)
<1>1. x \in Block /\ y \in Block /\ Height(x) \in Nat /\ Height(y) \in Nat
  BY TreeFacts, HeightType
<1>2. CASE x = y
  BY <1>1, <1>2, TreeFacts
<1>3. CASE x # y /\ y \in Path[x]
  <2>1. Height(y) < Height(x)
    BY <1>1, <1>3, AncestorIsLower
  <2> QED BY <1>1, <1>3, <2>1
<1>4. CASE x # y /\ y \notin Path[x]
  <2>1. Height(x) < Height(y)
    BY <1>1, <1>4, PathIsChain, AncestorIsLower
  <2> QED BY <1>1, <1>4, <2>1
<1> QED BY <1>2, <1>3, <1>4

\* When the stored entries are one chain, places in vSortedByHeight are heights.
LEMMA PlacesAreHeights ==
  ASSUME NEW b \in Block, dIndex.known = Path[b]
  PROVE  /\ Stored = Height(b) + 1
         /\ \A x \in Path[b] : UpTo(Height(x)) = Height(x) + 1
         /\ \A x \in Block, n \in Nat :
              SortedAt(x, n) => x \in Path[b] /\ n = Height(x) + 1
<1>1. \A x \in Block : IsFiniteSet(Path[x]) /\ Cardinality(Path[x]) \in Nat
                       /\ Cardinality(Path[x]) = Height(x) + 1 /\ Height(x) \in Nat
  <2> TAKE x \in Block
  <2>1. IsFiniteSet(Path[x])
    BY StoreAssumption, TreeFacts, FS_Subset
  <2>2. Cardinality(Path[x]) \in Nat
    BY <2>1, FS_CardinalityType
  <2> QED BY <2>1, <2>2, HeightType DEF Height
<1>2. Stored = Height(b) + 1
  BY <1>1 DEF Stored
<1>3. ASSUME NEW x \in Path[b]
      PROVE  /\ x \in Block
             /\ UpTo(Height(x)) = Height(x) + 1
             /\ Cardinality({y \in dIndex.known : Height(y) < Height(x)}) = Height(x)
  <2>1. x \in Block /\ Path[x] \subseteq Path[b] /\ x \in Path[x]
    BY TreeFacts
  <2>2. {y \in dIndex.known : Height(y) <= Height(x)} = Path[x]
    BY <2>1, OneOfEachHeight
  <2>3. {y \in dIndex.known : Height(y) < Height(x)} = Path[x] \ {x}
    <3>1. ASSUME NEW y \in Path[b]
          PROVE  Height(y) < Height(x) <=> y \in Path[x] /\ y # x
      <4>1. y \in Block /\ Height(y) \in Nat /\ Height(x) \in Nat
        BY <1>1, <2>1, TreeFacts
      <4> QED BY <4>1, OneOfEachHeight
    <3> QED BY <2>1, <3>1
  <2>4. Cardinality(Path[x] \ {x}) = Height(x)
    <3>1. Cardinality(Path[x] \ {x}) = Cardinality(Path[x]) - 1
      BY <1>1, <2>1, FS_RemoveElement
    <3> QED BY <1>1, <2>1, <3>1
  <2>5. UpTo(Height(x)) = Height(x) + 1
    BY <1>1, <2>1, <2>2 DEF UpTo
  <2> QED BY <2>1, <2>3, <2>4, <2>5
<1>4. ASSUME NEW x \in Block, NEW n \in Nat, SortedAt(x, n)
      PROVE  x \in Path[b] /\ n = Height(x) + 1
  <2>1. x \in Path[b]
    BY <1>4 DEF SortedAt
  <2>2. Height(x) < n /\ n <= Height(x) + 1
    BY <1>3, <1>4, <2>1 DEF SortedAt
  <2> QED BY <1>1, <2>1, <2>2
<1> QED BY <1>2, <1>3, <1>4

\* What the repair finds on such a disk: it processes the block above the coins
\* again, and the last entry is the end of the chain.
LEMMA RepairFindsChild ==
  ASSUME StoreInv, Behind, NEW meta \in Block, NEW last \in Block,
         MetaAndLast(meta, last)
  PROVE  /\ dIndex.known = Path[last]
         /\ meta \in dIndex.known /\ Parent[meta] = dCoins
         /\ Processed(meta) /\ ~ NotProcessed(meta)
         /\ Readable(dIndex, meta) /\ Readable(dIndex, last)
<1>1. PICK b \in Block : dIndex.known = Path[b]
  BY DEF Behind
<1>2. dCoins \in Path[b] /\ dCoins \in Block /\ b \in Path[b]
  BY <1>1, TreeFacts DEF StoreInv, TypeOK, CoinsPathStored
<1>3. /\ Height(b) \in Nat /\ Height(dCoins) \in Nat /\ Height(meta) \in Nat
      /\ Height(last) \in Nat /\ dInfo.height \in Nat
  BY <1>2, HeightType, InfoHeight DEF StoreInv, TypeOK
<1>4. /\ Stored = Height(b) + 1
      /\ UpTo(Height(dCoins)) = Height(dCoins) + 1
      /\ \A x \in Block, n \in Nat : SortedAt(x, n) => x \in Path[b] /\ n = Height(x) + 1
  BY <1>1, <1>2, PlacesAreHeights
<1>5. dInfo.height <= Height(dCoins) /\ Height(dCoins) + 1 < Stored
  BY DEF Behind
<1>6. MetaPlace = Height(dCoins) + 2
  BY <1>3, <1>4, <1>5 DEF MetaPlace
<1>7. SortedAt(meta, Height(dCoins) + 2) /\ SortedAt(last, Height(b) + 1)
  BY <1>4, <1>6 DEF MetaAndLast
<1>8. last \in Path[b] /\ Height(last) = Height(b)
  BY <1>3, <1>4, <1>7
<1>9. last = b
  BY <1>2, <1>8, OneOfEachHeight
<1>10. meta \in Path[b] /\ Height(meta) = Height(dCoins) + 1
  BY <1>3, <1>4, <1>7
<1>11. Parent[meta] = dCoins
  <2>1. meta # Genesis
    BY <1>3, <1>10, GenesisHeight
  <2>2. Parent[meta] \in Path[b]
    BY <1>10, <2>1, TreeFacts
  <2>3. Height(Parent[meta]) = Height(dCoins)
    <3>1. Height(meta) = Height(Parent[meta]) + 1 /\ Height(Parent[meta]) \in Nat
      BY <2>1, <2>2, HeightOfChild, HeightType, TreeFacts
    <3> QED BY <1>3, <1>10, <3>1
  <2> QED BY <1>2, <2>2, <2>3, OneOfEachHeight
<1>12. Processed(meta) /\ ~ NotProcessed(meta)
  BY <1>1, <1>10 DEF Behind, Processed, NotProcessed, NotFailed
<1> QED BY <1>1, <1>2, <1>9, <1>10, <1>11, <1>12 DEF Behind

\* And it gets to the end of the chain when no block is refused.
LEMMA RepairReachesEnd ==
  ASSUME StoreInv, Behind, NEW last \in Block, dIndex.known = Path[last],
         NEW m \in MostWork({}), NEW t \in Block, Reached(m, t)
  PROVE  t = last
<1>1. \A x \in Path[last] : Path[x] \subseteq Path[last] /\ x \in Block /\ Readable(dIndex, x)
  BY TreeFacts DEF Behind
<1>2. Linked({}) = Path[last]
  BY <1>1 DEF Linked, Readable, Behind
<1>3. m \in Path[last] /\ Height(last) <= Height(m)
  BY <1>2, TreeFacts DEF MostWork
<1>4. m = last
  <2>1. m \in Block /\ Height(m) \in Nat /\ Height(last) \in Nat
    BY <1>1, <1>3, HeightType
  <2> QED BY <1>3, <2>1, AncestorIsLower
<1> QED BY <1>1, <1>4 DEF Reached

\* The repair in LoadBlockIndexDB: on a disk whose index is one readable chain that
\* is ahead of the coins, with file information that is not, no start reads past the
\* end of vSortedByHeight or fails an assertion: the node runs, or a block was refused
\* while it was connected, is marked, and leaves the next start nothing to repair.
THEOREM RepairSucceeds == Spec => BehindIsRepaired
<1>1. StoreInv /\ [Next]_vars => [RepairStep]_vars
  <2> SUFFICES ASSUME StoreInv, Next, pc = "down", Behind
               PROVE  \/ pc' = "run" /\ start' = "ok"
                      \/ start' = "abort" /\ dIndex'.failed # {} /\ ~ Inconsistent'
    BY DEF RepairStep
  <2>1. CASE Start
    BY <2>1 DEF Start
  <2>2. ~ RepairOutOfBounds
    <3>1. dInfo.height \in Nat /\ Height(dCoins) \in Nat /\ Stored \in Nat
      <4>1. PICK b \in Block : dIndex.known = Path[b]
        BY DEF Behind
      <4> QED BY <4>1, PlacesAreHeights, HeightType, InfoHeight DEF StoreInv, TypeOK
    <3> QED BY <3>1 DEF RepairOutOfBounds, Behind
  <2>3. ~ Torn
    BY TreeFacts DEF Torn, Behind
  <2>4. ASSUME NEW meta \in Block, NEW last \in Block, RepairAsserts(meta, last)
        PROVE  FALSE
    BY <2>4, RepairFindsChild DEF RepairAsserts
  <2>5. ASSUME NEW meta \in Block, NEW last \in Block, Repair(meta, last)
        PROVE  \/ pc' = "run" /\ start' = "ok"
               \/ start' = "abort" /\ dIndex'.failed # {} /\ ~ Inconsistent'
    <3>1. /\ dIndex.known = Path[last] /\ Parent[meta] = dCoins /\ ~ NotProcessed(meta)
          /\ Readable(dIndex, meta) /\ Readable(dIndex, last)
      BY <2>5, RepairFindsChild DEF Repair
    <3>2. PICK t \in Block, F \in SUBSET Refusable :
            /\ \E m \in MostWork(F) : Reached(m, t)
            /\ Load([dIndex EXCEPT
                 !.undo = @ \cup ((Path[t] \cup UNION {Path[x] \ {x} : x \in F}) \ {Genesis}),
                 !.failed = @ \cup F], t)
            /\ dInfo' = LastInfo(last)
            /\ IF Readable(dIndex, meta) /\ Readable(dIndex, last) /\ t = last
               THEN pc' = "run" /\ start' = "ok" /\ dClean' = FALSE
               ELSE pc' = "down" /\ start' = "abort" /\ UNCHANGED dClean
      BY <2>5, <3>1 DEF Repair
    <3>3. CASE F = {}
      <4>1. t = last
        BY <3>1, <3>2, <3>3, RepairReachesEnd
      <4> QED BY <3>1, <3>2, <4>1
    <3>4. CASE F # {}
      <4>1. dIndex'.known = dIndex.known /\ dIndex'.failed = dIndex.failed \cup F
        BY <3>2 DEF Load, StoreInv, TypeOK, Index
      <4>2. dInfo'.height = Height(last)
        BY <3>2 DEF LastInfo
      <4>3. Stored = Height(last) + 1
        BY <3>1, PlacesAreHeights
      <4>4. Stored' = dInfo'.height + 1
        BY <4>1, <4>2, <4>3 DEF Stored
      <4>5. ~ Inconsistent'
        BY <4>4 DEF Inconsistent
      <4> QED BY <3>2, <3>4, <4>1, <4>5
    <3> QED BY <3>3, <3>4
  <2>6. /\ \A b \in Block : /\ ~ AcceptBlockHeader(b) /\ ~ AcceptBlock(b) /\ ~ RejectBlock(b)
                            /\ ~ BeginConnect(b) /\ ~ WriteDirtyEntry(b)
        /\ ~ EndConnect /\ ~ RefuseBlock /\ ~ BeginDisconnect /\ ~ EndDisconnect
        /\ \A last \in BOOLEAN : ~ BeginFlush(last)
        /\ ~ WriteBlockFileInfo /\ ~ EntriesWritten /\ ~ FlushCoins
        /\ ~ PrepareShutdown /\ ~ Crash
    BY DEF AcceptBlockHeader, AcceptBlock, RejectBlock, BeginConnect, WriteDirtyEntry,
           EndConnect, RefuseBlock, BeginDisconnect, EndDisconnect, BeginFlush,
           WriteBlockFileInfo, EntriesWritten, FlushCoins, PrepareShutdown, Crash
  <2>7. ~ StartTorn
    BY <2>3 DEF StartTorn
  <2> QED BY <2>1, <2>2, <2>4, <2>5, <2>6, <2>7 DEF Next
<1> QED BY <1>1, InvariantHolds, PTL DEF Spec, BehindIsRepaired
=============================================================================
