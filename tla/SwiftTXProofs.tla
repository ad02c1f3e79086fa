--------------------------- MODULE SwiftTXProofs ---------------------------
(* Theorems about SwiftTX, for every set of transactions and masternodes.   *)
EXTENDS SwiftTX, TLAPS

USE SwiftTXAssumption

-----------------------------------------------------------------------------
\* The operations on std::map keep the types of keys and values.
LEMMA PutIsMap ==
  ASSUME NEW K, NEW V, NEW m, IsMap(m, K, V), NEW k \in K, NEW v \in V
  PROVE  IsMap(Put(m, k, v), K, V)
  BY DEF IsMap, Put

LEMMA InsertIsMap ==
  ASSUME NEW K, NEW V, NEW m, IsMap(m, K, V), NEW k \in K, NEW v \in V
  PROVE  IsMap(Insert(m, k, v), K, V)
  BY PutIsMap DEF Insert

LEMMA EraseIsMap ==
  ASSUME NEW K, NEW V, NEW m, IsMap(m, K, V), NEW S
  PROVE  IsMap(Erase(m, S), K, V)
  BY DEF IsMap, Erase, Restrict

LEMMA LockInputsIsMap ==
  ASSUME NEW m, IsMap(m, Outpoint, Tx), NEW vin \in SUBSET Outpoint, NEW t \in Tx
  PROVE  IsMap(LockInputs(m, vin, t), Outpoint, Tx)
  BY DEF IsMap, LockInputs

LEMMA NewLockType ==
  ASSUME NEW height \in Height \cup {0}
  PROVE  NewLock(height) \in TransactionLock
  BY DEF NewLock, TransactionLock

LEMMA CreateNewLockIsMap ==
  ASSUME NEW m, IsMap(m, Tx, TransactionLock), NEW t \in Tx,
         NEW height \in Height \cup {0}
  PROVE  IsMap(CreateNewLock(m, t, height), Tx, TransactionLock)
<1>1. CASE height # 0 /\ t \in DOMAIN m
  <2>1. m[t] \in TransactionLock
    BY <1>1 DEF IsMap
  <2>2. [m[t] EXCEPT !.nBlockHeight = height] \in TransactionLock
    BY <2>1 DEF TransactionLock
  <2>3. CreateNewLock(m, t, height)
          = [m EXCEPT ![t] = [m[t] EXCEPT !.nBlockHeight = height]]
    BY <1>1 DEF CreateNewLock
  <2> QED BY <2>2, <2>3 DEF IsMap
<1>2. CASE height # 0 /\ t \notin DOMAIN m
  BY <1>2, PutIsMap, NewLockType DEF CreateNewLock
<1>3. CASE height = 0
  BY <1>3 DEF CreateNewLock
<1> QED BY <1>1, <1>2, <1>3

LEMMA CancelLocksIsMap ==
  ASSUME NEW m, IsMap(m, Tx, TransactionLock), NEW S
  PROVE  IsMap(CancelLocks(m, S), Tx, TransactionLock)
<1>1. ASSUME NEW lock \in TransactionLock
      PROVE  [lock EXCEPT !.nExpiration = 0] \in TransactionLock
  <2>1. 0 \in -1 .. LOCK_LIFETIME
    OBVIOUS
  <2> QED BY <1>1, <2>1 DEF TransactionLock
<1>2. \A t \in DOMAIN m : m[t] \in TransactionLock
  BY DEF IsMap
<1>3. \A t \in DOMAIN m : CancelLocks(m, S)[t] \in TransactionLock
  BY <1>1, <1>2 DEF CancelLocks
<1>4. CancelLocks(m, S) = [t \in DOMAIN m |-> CancelLocks(m, S)[t]]
  BY DEF CancelLocks
<1> QED BY <1>3, <1>4 DEF IsMap

LEMMA AddVoteIsMap ==
  ASSUME NEW m, IsMap(m, Tx, TransactionLock), NEW t \in Tx,
         NEW vote \in ConsensusVote
  PROVE  /\ IsMap(AddVote(m, t, vote), Tx, TransactionLock)
         /\ DOMAIN AddVote(m, t, vote) = DOMAIN m \cup {t}
<1> DEFINE base == Insert(m, t, NewLock(0))
<1>1. IsMap(base, Tx, TransactionLock)
  BY InsertIsMap, NewLockType
<1>2. DOMAIN base = DOMAIN m \cup {t}
  BY DEF Insert, Put
<1>3. base[t] \in TransactionLock
  BY <1>1, <1>2 DEF IsMap
<1> HIDE DEF base
<1>4. [base[t] EXCEPT !.vecConsensusVotes = Append(@, vote)] \in TransactionLock
  <2>1. base[t].vecConsensusVotes \in Seq(ConsensusVote)
    BY <1>3 DEF TransactionLock
  <2>2. Append(base[t].vecConsensusVotes, vote) \in Seq(ConsensusVote)
    BY <2>1
  <2> QED BY <1>3, <2>2 DEF TransactionLock
<1>5. AddVote(m, t, vote)
        = [base EXCEPT ![t] = [base[t] EXCEPT !.vecConsensusVotes = Append(@, vote)]]
  BY <1>2 DEF AddVote, base
<1> QED
  BY <1>1, <1>2, <1>4, <1>5 DEF IsMap

-----------------------------------------------------------------------------
\* ReprocessBlocks and CompleteLock keep the parts of TypeOK they assign.
LEMMA ReprocessBlocksType ==
  ASSUME TypeOK, NEW locked, ReprocessBlocks(locked)
  PROVE  mempool' \in SUBSET Tx /\ chain' \in SUBSET Tx
  BY DEF TypeOK, ReprocessBlocks

LEMMA InsertRequestType ==
  ASSUME TypeOK, NEW t \in Tx, NEW vin \in {Vin[t], {}}
  PROVE  /\ IsMap(Insert(mapTxLockReq, t, vin), Tx, SUBSET Outpoint)
         /\ \A u \in DOMAIN Insert(mapTxLockReq, t, vin) :
              Insert(mapTxLockReq, t, vin)[u] \in {Vin[u], {}}
         /\ t \in DOMAIN Insert(mapTxLockReq, t, vin)
<1> DEFINE req == Insert(mapTxLockReq, t, vin)
<1>1. IsMap(req, Tx, SUBSET Outpoint)
  BY InsertIsMap DEF TypeOK
<1>2. /\ DOMAIN req = DOMAIN mapTxLockReq \cup {t}
      /\ t \notin DOMAIN mapTxLockReq => req[t] = vin
      /\ \A u \in DOMAIN mapTxLockReq : req[u] = mapTxLockReq[u]
  BY DEF Insert, Put
<1>3. \A u \in DOMAIN req : req[u] \in {Vin[u], {}}
  BY <1>2 DEF TypeOK
<1> QED BY <1>1, <1>2, <1>3

\* Every reachable state is well typed.
THEOREM TypeCorrect == Spec => []TypeOK
<1>1. Init => TypeOK
  BY DEF Init, TypeOK, IsMap, EmptyMap, Handler, Idle
<1>2. TypeOK /\ [Next]_vars => TypeOK'
  <2> SUFFICES ASSUME TypeOK, [Next]_vars PROVE TypeOK'
    OBVIOUS
  <2>1. CASE UNCHANGED vars
    BY <2>1 DEF vars, tables, TypeOK, IsMap
  <2>2. ASSUME NEW t \in Tx, ReceiveIX(t) PROVE TypeOK'
    <3> PICK height \in Height \cup {0} :
          /\ mapTxLocks' = CreateNewLock(mapTxLocks, t, height)
          /\ handler' = [phase |-> "created", tx |-> t, height |-> height]
      BY <2>2 DEF ReceiveIX
    <3>1. IsMap(mapTxLocks', Tx, TransactionLock)
      BY CreateNewLockIsMap DEF TypeOK
    <3>2. handler' \in Handler
      BY DEF Handler
    <3> QED BY <2>2, <3>1, <3>2 DEF ReceiveIX, TypeOK, IsMap
  <2>3. CASE AcceptIX
    <3>1. handler \in [phase : {"created", "accepted", "rejected"},
                        tx : Tx, height : Height \cup {0}]
      BY <2>3 DEF AcceptIX, TypeOK, Handler, Idle
    <3> QED BY <2>3, <3>1 DEF AcceptIX, TypeOK, Handler, tables, IsMap
  <2>4. CASE FinishAccepted
    <3>1. handler.tx \in Tx
      BY <2>4 DEF FinishAccepted, TypeOK, Handler, Idle
    <3>2. mapTxLockVote' \in SUBSET (Masternode \X Tx)
      BY <2>4, <3>1 DEF FinishAccepted, DoConsensusVote, TypeOK
    <3>3. /\ IsMap(mapTxLockReq', Tx, SUBSET Outpoint)
          /\ \A u \in DOMAIN mapTxLockReq' : mapTxLockReq'[u] \in {Vin[u], {}}
      BY <2>4, <3>1, InsertRequestType DEF FinishAccepted
    <3> QED BY <2>4, <3>2, <3>3 DEF FinishAccepted, TypeOK, IsMap, Handler
  <2>5. CASE FinishRejected
    <3> DEFINE t == handler.tx
               locked == LockInputs(mapLockedInputs, Vin[t], t)
    <3>1. t \in Tx
      BY <2>5 DEF FinishRejected, TypeOK, Handler, Idle
    <3>2. IsMap(mapLockedInputs', Outpoint, Tx)
      BY <2>5, <3>1, LockInputsIsMap DEF FinishRejected, TypeOK
    <3>3. IsMap(mapTxLocks', Tx, TransactionLock)
      <4>1. \/ mapTxLocks' = mapTxLocks
            \/ \E S \in SUBSET Tx : mapTxLocks' = CancelLocks(mapTxLocks, S)
        <5>1. \A o \in LockedByOther(locked, Vin[t], t) : {t, locked[o]} \in SUBSET Tx
          BY <2>5, <3>1, <3>2 DEF FinishRejected, LockedByOther, IsMap
        <5> QED BY <2>5, <5>1 DEF FinishRejected
      <4> QED BY <4>1, CancelLocksIsMap DEF TypeOK
    <3>4. mempool' \in SUBSET Tx /\ chain' \in SUBSET Tx
      BY <2>5, ReprocessBlocksType DEF FinishRejected, TypeOK
    <3>5. /\ IsMap(mapTxLockReq', Tx, SUBSET Outpoint)
          /\ \A u \in DOMAIN mapTxLockReq' : mapTxLockReq'[u] \in {Vin[u], {}}
      <4>1. \/ mapTxLockReq' = mapTxLockReq
            \/ mapTxLockReq' = Insert(mapTxLockReq, t, Vin[t])
        BY <2>5 DEF FinishRejected
      <4>2. Vin[t] \in {Vin[t], {}}
        OBVIOUS
      <4> QED BY <3>1, <4>1, <4>2, InsertRequestType DEF TypeOK
    <3> QED BY <2>5, <3>1, <3>2, <3>3, <3>4, <3>5 DEF FinishRejected, TypeOK, Handler
  <2>6. ASSUME NEW t \in Tx, NEW vote \in ConsensusVote, ReceiveVote(t, vote)
        PROVE  TypeOK'
    <3> DEFINE locks == AddVote(mapTxLocks, t, vote)
    <3>1. vote.mn \in Masternode
      BY DEF ConsensusVote
    <3>2. mapTxLockVote' \in SUBSET (Masternode \X Tx)
      BY <2>6, <3>1 DEF ReceiveVote, TypeOK
    <3>3. IsMap(locks, Tx, TransactionLock)
      BY AddVoteIsMap DEF TypeOK
    <3> HIDE DEF locks
    <3>4. \/ UNCHANGED <<mapTxLockReq, mapTxLocks, mapLockedInputs, mempool, chain>>
          \/ CompleteLock(locks, t)
          \/ /\ mapTxLocks' = locks
             /\ UNCHANGED <<mapTxLockReq, mapLockedInputs, mempool, chain>>
      BY <2>6 DEF ReceiveVote, locks
    <3>5. CASE CompleteLock(locks, t)
      <4> DEFINE req == Insert(mapTxLockReq, t, {})
      <4>0. {} \in {Vin[t], {}}
        OBVIOUS
      <4>1. /\ IsMap(req, Tx, SUBSET Outpoint)
            /\ \A u \in DOMAIN req : req[u] \in {Vin[u], {}}
            /\ t \in DOMAIN req
        BY <4>0, InsertRequestType
      <4>2. req[t] \in SUBSET Outpoint
        BY <4>1 DEF IsMap
      <4> HIDE DEF req
      <4>3. IsMap(LockInputs(mapLockedInputs, req[t], t), Outpoint, Tx)
        BY <4>2, LockInputsIsMap DEF TypeOK
      <4>4. IsMap(mapLockedInputs', Outpoint, Tx)
        BY <3>5, <4>3 DEF CompleteLock, TypeOK, req
      <4>5. IsMap(mapTxLocks', Tx, TransactionLock)
        BY <3>3, <3>5, CancelLocksIsMap DEF CompleteLock
      <4>6. mempool' \in SUBSET Tx /\ chain' \in SUBSET Tx
        BY <3>5, ReprocessBlocksType DEF CompleteLock, TypeOK
      <4>7. mapTxLockReq' = req
        BY <3>5 DEF CompleteLock, req
      <4> QED
        BY <2>6, <3>2, <4>1, <4>4, <4>5, <4>6, <4>7 DEF ReceiveVote, TypeOK
    <3>6. CASE UNCHANGED <<mapTxLockReq, mapTxLocks, mapLockedInputs, mempool, chain>>
      BY <2>6, <3>2, <3>6 DEF ReceiveVote, TypeOK, IsMap
    <3>7. CASE /\ mapTxLocks' = locks
               /\ UNCHANGED <<mapTxLockReq, mapLockedInputs, mempool, chain>>
      BY <2>6, <3>2, <3>3, <3>7 DEF ReceiveVote, TypeOK, IsMap
    <3> QED BY <3>4, <3>5, <3>6, <3>7
  <2>7. ASSUME NEW t \in Tx, WalletLockRequest(t) PROVE TypeOK'
    <3>1. /\ IsMap(mapTxLockReq', Tx, SUBSET Outpoint)
          /\ \A u \in DOMAIN mapTxLockReq' : mapTxLockReq'[u] \in {Vin[u], {}}
      BY <2>7, InsertRequestType DEF WalletLockRequest
    <3>2. IsMap(mapTxLocks', Tx, TransactionLock)
      BY <2>7, CreateNewLockIsMap DEF WalletLockRequest, TypeOK
    <3> QED BY <2>7, <3>1, <3>2 DEF WalletLockRequest, TypeOK, IsMap
  <2>8. ASSUME NEW t \in Tx, AcceptTx(t) PROVE TypeOK'
    BY <2>8 DEF AcceptTx, TypeOK, tables, IsMap
  <2>9. ASSUME NEW t \in Tx, ConnectBlock(t) PROVE TypeOK'
    BY <2>9 DEF ConnectBlock, TypeOK, tables, IsMap
  <2>10. CASE Tick
    <3>1. IsMap(mapTxLocks', Tx, TransactionLock)
      <4>1. ASSUME NEW l \in TransactionLock
            PROVE  [l EXCEPT !.nExpiration = IF @ = -1 THEN -1 ELSE @ - 1]
                     \in TransactionLock
        BY DEF TransactionLock
      <4>2. mapTxLocks \in [DOMAIN mapTxLocks -> TransactionLock]
        BY DEF TypeOK, IsMap
      <4> QED BY <2>10, <4>1, <4>2 DEF Tick, TypeOK, IsMap
    <3> QED BY <2>10, <3>1 DEF Tick, TypeOK, IsMap
  <2>11. CASE CleanTransactionLocksList
    <3>1. IsMap(mapTxLocks', Tx, TransactionLock)
      BY <2>11, EraseIsMap DEF CleanTransactionLocksList, TypeOK
    <3>2. IsMap(mapLockedInputs', Outpoint, Tx)
      BY <2>11, EraseIsMap DEF CleanTransactionLocksList, TypeOK
    <3>3. IsMap(mapTxLockReq', Tx, SUBSET Outpoint)
      BY <2>11, EraseIsMap DEF CleanTransactionLocksList, TypeOK
    <3>4. \A u \in DOMAIN mapTxLockReq' : mapTxLockReq'[u] \in {Vin[u], {}}
      BY <2>11 DEF CleanTransactionLocksList, TypeOK, Erase, Restrict
    <3> QED
      BY <2>11, <3>1, <3>2, <3>3, <3>4 DEF CleanTransactionLocksList, TypeOK
  <2> QED
    BY <2>1, <2>2, <2>3, <2>4, <2>5, <2>6, <2>7, <2>8, <2>9, <2>10, <2>11
       DEF Next
<1> QED BY <1>1, <1>2, PTL DEF Spec
-----------------------------------------------------------------------------
\* One vote per masternode.  A repeat is recognised by its key, so the invariant
\* needs that the key of every vote in a lock is among the votes seen.
VoteInv == TypeOK /\ VotesAreRemembered /\ OneVotePerMasternode

\* Each lock in new has the votes it has in old, or none.
SameVotes(new, old) ==
  \A t \in DOMAIN new :
    \/ new[t].vecConsensusVotes = << >>
    \/ t \in DOMAIN old /\ new[t].vecConsensusVotes = old[t].vecConsensusVotes

LEMMA SameVotesKeepInv ==
  ASSUME VotesAreRemembered, OneVotePerMasternode,
         SameVotes(mapTxLocks', mapTxLocks), mapTxLockVote \subseteq mapTxLockVote'
  PROVE  VotesAreRemembered' /\ OneVotePerMasternode'
  BY DEF VotesAreRemembered, OneVotePerMasternode, SameVotes

LEMMA CreateNewLockSameVotes ==
  ASSUME NEW m, IsMap(m, Tx, TransactionLock), NEW t \in Tx,
         NEW height \in Height \cup {0}
  PROVE  SameVotes(CreateNewLock(m, t, height), m)
<1>1. ASSUME NEW u \in DOMAIN m
      PROVE  [m[u] EXCEPT !.nBlockHeight = height].vecConsensusVotes
               = m[u].vecConsensusVotes
  BY <1>1 DEF IsMap, TransactionLock
<1>2. NewLock(height).vecConsensusVotes = << >>
  BY DEF NewLock
<1> QED BY <1>1, <1>2 DEF SameVotes, CreateNewLock, Put, IsMap

LEMMA CancelLocksSameVotes ==
  ASSUME NEW m, IsMap(m, Tx, TransactionLock), NEW S
  PROVE  /\ DOMAIN CancelLocks(m, S) = DOMAIN m
         /\ \A t \in DOMAIN m : /\ CancelLocks(m, S)[t].vecConsensusVotes
                                      = m[t].vecConsensusVotes
                                 /\ CancelLocks(m, S)[t].nBlockHeight
                                      = m[t].nBlockHeight
  BY DEF CancelLocks, IsMap, TransactionLock

\* What AddVote does to the votes of the locks.
LEMMA AddVoteVotes ==
  ASSUME NEW m, IsMap(m, Tx, TransactionLock), NEW t \in Tx,
         NEW vote \in ConsensusVote
  PROVE  LET new == AddVote(m, t, vote)
             was == IF t \in DOMAIN m THEN m[t].vecConsensusVotes ELSE << >>
         IN  /\ new[t].vecConsensusVotes = Append(was, vote)
             /\ new[t].nBlockHeight = IF t \in DOMAIN m THEN m[t].nBlockHeight ELSE 0
             /\ \A u \in DOMAIN m \ {t} : new[u] = m[u]
<1> DEFINE base == Insert(m, t, NewLock(0))
           was == IF t \in DOMAIN m THEN m[t].vecConsensusVotes ELSE << >>
           ht  == IF t \in DOMAIN m THEN m[t].nBlockHeight ELSE 0
<1>1. IsMap(base, Tx, TransactionLock) /\ DOMAIN base = DOMAIN m \cup {t}
  BY InsertIsMap, NewLockType DEF Insert, Put
<1>2. base[t].vecConsensusVotes = was /\ base[t].nBlockHeight = ht
  BY DEF Insert, Put, NewLock
<1>3. \A u \in DOMAIN m \ {t} : base[u] = m[u]
  BY DEF Insert, Put
<1>4. base[t] \in TransactionLock
  BY <1>1 DEF IsMap
<1> HIDE DEF base, was, ht
<1>5. AddVote(m, t, vote)
        = [base EXCEPT ![t] = [base[t] EXCEPT !.vecConsensusVotes = Append(@, vote)]]
  BY <1>1 DEF AddVote, base
<1>6. AddVote(m, t, vote)[t] = [base[t] EXCEPT !.vecConsensusVotes = Append(@, vote)]
  BY <1>1, <1>5
<1>7. /\ AddVote(m, t, vote)[t].vecConsensusVotes = Append(was, vote)
      /\ AddVote(m, t, vote)[t].nBlockHeight = ht
  BY <1>2, <1>4, <1>6 DEF TransactionLock
<1>8. \A u \in DOMAIN m \ {t} : AddVote(m, t, vote)[u] = m[u]
  BY <1>1, <1>3, <1>5
<1> QED BY <1>7, <1>8 DEF was, ht

\* A step that adds one vote, whose key was not seen, to the lock of t.
LEMMA AddVoteKeepsInv ==
  ASSUME VoteInv, NEW t \in Tx, NEW vote \in ConsensusVote,
         <<vote.mn, t>> \notin mapTxLockVote,
         mapTxLockVote' = mapTxLockVote \cup {<<vote.mn, t>>},
         DOMAIN mapTxLocks' = DOMAIN mapTxLocks \cup {t},
         \A u \in DOMAIN mapTxLocks' :
           mapTxLocks'[u].vecConsensusVotes
             = AddVote(mapTxLocks, t, vote)[u].vecConsensusVotes
  PROVE  VotesAreRemembered' /\ OneVotePerMasternode'
<1> DEFINE was == IF t \in DOMAIN mapTxLocks THEN mapTxLocks[t].vecConsensusVotes
                  ELSE << >>
<1>1. was \in Seq(ConsensusVote)
  BY DEF VoteInv, TypeOK, IsMap, TransactionLock
<1>2. \A i \in DOMAIN was : <<was[i].mn, t>> \in mapTxLockVote
  BY DEF VoteInv, VotesAreRemembered
<1>3. \A i, j \in DOMAIN was : was[i].mn = was[j].mn => i = j
  BY DEF VoteInv, OneVotePerMasternode
<1>4. mapTxLocks'[t].vecConsensusVotes = Append(was, vote)
  BY AddVoteVotes DEF VoteInv, TypeOK
<1>5. \A u \in DOMAIN mapTxLocks' \ {t} :
        mapTxLocks'[u].vecConsensusVotes = mapTxLocks[u].vecConsensusVotes
  BY AddVoteVotes DEF VoteInv, TypeOK
<1> HIDE DEF was
<1> DEFINE new == Append(was, vote)
<1>6. /\ DOMAIN new = DOMAIN was \cup {Len(was) + 1}
      /\ \A i \in DOMAIN was : new[i] = was[i] /\ i # Len(was) + 1
      /\ new[Len(was) + 1] = vote
  BY <1>1
<1> HIDE DEF new
<1>7. \A i \in DOMAIN new : <<new[i].mn, t>> \in mapTxLockVote'
  BY <1>2, <1>6
<1>8. \A i \in DOMAIN was : was[i].mn # vote.mn
  BY <1>2
<1>9. \A i, j \in DOMAIN new : new[i].mn = new[j].mn => i = j
  BY <1>3, <1>6, <1>8
<1>10. VotesAreRemembered'
  <2> SUFFICES ASSUME NEW u \in DOMAIN mapTxLocks',
                      NEW i \in DOMAIN mapTxLocks'[u].vecConsensusVotes
               PROVE  <<mapTxLocks'[u].vecConsensusVotes[i].mn, u>> \in mapTxLockVote'
    BY DEF VotesAreRemembered
  <2>1. CASE u = t
    BY <1>4, <1>7, <2>1 DEF new
  <2>2. CASE u # t
    BY <1>5, <2>2 DEF VoteInv, VotesAreRemembered
  <2> QED BY <2>1, <2>2
<1>11. OneVotePerMasternode'
  <2> SUFFICES ASSUME NEW u \in DOMAIN mapTxLocks',
                      NEW i \in DOMAIN mapTxLocks'[u].vecConsensusVotes,
                      NEW j \in DOMAIN mapTxLocks'[u].vecConsensusVotes,
                      mapTxLocks'[u].vecConsensusVotes[i].mn
                        = mapTxLocks'[u].vecConsensusVotes[j].mn
               PROVE  i = j
    BY DEF OneVotePerMasternode
  <2>1. CASE u = t
    BY <1>4, <1>9, <2>1 DEF new
  <2>2. CASE u # t
    BY <1>5, <2>2 DEF VoteInv, OneVotePerMasternode
  <2> QED BY <2>1, <2>2
<1> QED BY <1>10, <1>11

\* A complete lock never counts a masternode twice (ProcessMessageSwiftTX's
\* duplicate test, AddSignature and CleanTransactionLocksList together).
THEOREM NoDoubleVote == Spec => []OneVotePerMasternode
<1>1. Init => VotesAreRemembered /\ OneVotePerMasternode
  BY DEF Init, EmptyMap, VotesAreRemembered, OneVotePerMasternode
<1>2. VoteInv /\ [Next]_vars => VotesAreRemembered' /\ OneVotePerMasternode'
  <2> SUFFICES ASSUME VoteInv, [Next]_vars
               PROVE  VotesAreRemembered' /\ OneVotePerMasternode'
    OBVIOUS
  <2> USE DEF VoteInv
  <2>0. /\ IsMap(mapTxLocks, Tx, TransactionLock)
        /\ VotesAreRemembered
        /\ OneVotePerMasternode
    BY DEF TypeOK
  <2>1. CASE UNCHANGED <<mapTxLocks, mapTxLockVote>>
    <3>1. SameVotes(mapTxLocks', mapTxLocks)
      BY <2>1 DEF SameVotes
    <3> QED BY <2>0, <2>1, <3>1, SameVotesKeepInv
  <2>2. ASSUME NEW t \in Tx, ReceiveIX(t) \/ WalletLockRequest(t)
        PROVE  VotesAreRemembered' /\ OneVotePerMasternode'
    <3>1. SameVotes(mapTxLocks', mapTxLocks)
      <4>1. PICK height \in Height \cup {0} :
              mapTxLocks' = CreateNewLock(mapTxLocks, t, height)
        BY <2>2 DEF ReceiveIX, WalletLockRequest
      <4> QED BY <2>0, <4>1, CreateNewLockSameVotes
    <3> QED BY <2>0, <2>2, <3>1, SameVotesKeepInv DEF ReceiveIX, WalletLockRequest
  <2>3. CASE FinishAccepted
    <3>1. SameVotes(mapTxLocks', mapTxLocks)
      BY <2>3 DEF SameVotes, FinishAccepted
    <3>2. mapTxLockVote \subseteq mapTxLockVote'
      BY <2>3 DEF FinishAccepted, DoConsensusVote
    <3> QED BY <2>0, <3>1, <3>2, SameVotesKeepInv
  <2>4. CASE FinishRejected
    <3>1. mapTxLockVote' = mapTxLockVote
      BY <2>4 DEF FinishRejected
    <3>2. \/ mapTxLocks' = mapTxLocks
          \/ \E t, u : mapTxLocks' = CancelLocks(mapTxLocks, {t, u})
      BY <2>4 DEF FinishRejected
    <3>3. SameVotes(mapTxLocks', mapTxLocks)
      <4>1. CASE mapTxLocks' = mapTxLocks
        BY <4>1 DEF SameVotes
      <4>2. ASSUME NEW S, mapTxLocks' = CancelLocks(mapTxLocks, S)
            PROVE  SameVotes(mapTxLocks', mapTxLocks)
        BY <2>0, <4>2, CancelLocksSameVotes DEF SameVotes
      <4> QED BY <3>2, <4>1, <4>2
    <3> QED BY <2>0, <3>1, <3>3, SameVotesKeepInv
  <2>5. ASSUME NEW t \in Tx, NEW vote \in ConsensusVote, ReceiveVote(t, vote)
        PROVE  VotesAreRemembered' /\ OneVotePerMasternode'
    <3> DEFINE locks == AddVote(mapTxLocks, t, vote)
    <3>1. /\ <<vote.mn, t>> \notin mapTxLockVote
          /\ mapTxLockVote' = mapTxLockVote \cup {<<vote.mn, t>>}
      BY <2>5 DEF ReceiveVote, VoteIsKnown
    <3>2. /\ IsMap(locks, Tx, TransactionLock)
          /\ DOMAIN locks = DOMAIN mapTxLocks \cup {t}
      BY <2>0, AddVoteIsMap
    <3>3. CASE mapTxLocks' = mapTxLocks
      <4>1. SameVotes(mapTxLocks', mapTxLocks)
        BY <3>3 DEF SameVotes
      <4> QED BY <2>0, <3>1, <4>1, SameVotesKeepInv
    <3>4. CASE mapTxLocks' = locks
      BY <3>1, <3>2, <3>4, AddVoteKeepsInv
    <3>5. ASSUME NEW S, mapTxLocks' = CancelLocks(locks, S)
          PROVE  VotesAreRemembered' /\ OneVotePerMasternode'
      <4>1. /\ DOMAIN mapTxLocks' = DOMAIN locks
            /\ \A u \in DOMAIN locks :
                 mapTxLocks'[u].vecConsensusVotes = locks[u].vecConsensusVotes
        BY <3>2, <3>5, CancelLocksSameVotes
      <4> QED BY <3>1, <3>2, <4>1, AddVoteKeepsInv
    <3>6. \/ mapTxLocks' = mapTxLocks
          \/ mapTxLocks' = locks
          \/ \E u : mapTxLocks' = CancelLocks(locks, {t, u})
      BY <2>5 DEF ReceiveVote, CompleteLock
    <3> QED BY <3>3, <3>4, <3>5, <3>6
  <2>6. CASE Tick
    <3>1. SameVotes(mapTxLocks', mapTxLocks)
      BY <2>0, <2>6 DEF Tick, SameVotes, IsMap, TransactionLock
    <3> QED BY <2>0, <2>6, <3>1, SameVotesKeepInv DEF Tick
  <2>7. CASE CleanTransactionLocksList
    \* A vote is forgotten only together with the lock it is in.
    <3>1. /\ DOMAIN mapTxLocks' \subseteq DOMAIN mapTxLocks
          /\ \A t \in DOMAIN mapTxLocks' : mapTxLocks'[t] = mapTxLocks[t]
      BY <2>7 DEF CleanTransactionLocksList, Erase, Restrict
    <3>2. \A t \in DOMAIN mapTxLocks', m \in Masternode :
            <<m, t>> \in mapTxLockVote => <<m, t>> \in mapTxLockVote'
      BY <2>7 DEF CleanTransactionLocksList, Erase, Restrict
    <3>3. \A t \in DOMAIN mapTxLocks : \A i \in DOMAIN mapTxLocks[t].vecConsensusVotes :
            mapTxLocks[t].vecConsensusVotes[i].mn \in Masternode
      <4> SUFFICES ASSUME NEW t \in DOMAIN mapTxLocks,
                          NEW i \in DOMAIN mapTxLocks[t].vecConsensusVotes
                   PROVE  mapTxLocks[t].vecConsensusVotes[i].mn \in Masternode
        OBVIOUS
      <4>1. mapTxLocks[t].vecConsensusVotes \in Seq(ConsensusVote)
        BY <2>0 DEF IsMap, TransactionLock
      <4>2. mapTxLocks[t].vecConsensusVotes[i] \in ConsensusVote
        BY <4>1
      <4> QED BY <4>2 DEF ConsensusVote
    <3>4. VotesAreRemembered'
      BY <2>0, <3>1, <3>2, <3>3 DEF VotesAreRemembered
    <3>5. OneVotePerMasternode'
      BY <2>0, <3>1 DEF OneVotePerMasternode
    <3> QED BY <3>4, <3>5
  <2>8. CASE AcceptIX
    BY <2>1, <2>8 DEF AcceptIX, tables
  <2>9. ASSUME NEW t \in Tx, AcceptTx(t) \/ ConnectBlock(t)
        PROVE  VotesAreRemembered' /\ OneVotePerMasternode'
    BY <2>1, <2>9 DEF AcceptTx, ConnectBlock, tables
  <2>10. CASE UNCHANGED vars
    BY <2>1, <2>10 DEF vars, tables
  <2> QED
    BY <2>2, <2>3, <2>4, <2>5, <2>6, <2>7, <2>8, <2>9, <2>10 DEF Next
<1> QED BY <1>1, <1>2, TypeCorrect, PTL DEF Spec, VoteInv

-----------------------------------------------------------------------------
\* A lock that completes has a height, and only handling a request gives it one;
\* so a lock that completes without a stored request had its request refused.
RequestInv == TypeOK /\ HeightComesFromRequest /\ EmptyRequestWasRejected

\* Each lock in new other than t has the height it has in old, or none.
SameHeights(new, old, t) ==
  \A u \in DOMAIN new \ {t} :
    new[u].nBlockHeight # 0
      => u \in DOMAIN old /\ new[u].nBlockHeight = old[u].nBlockHeight

LEMMA CreateNewLockHeights ==
  ASSUME NEW m, IsMap(m, Tx, TransactionLock), NEW t \in Tx,
         NEW height \in Height \cup {0}
  PROVE  SameHeights(CreateNewLock(m, t, height), m, t)
  BY DEF SameHeights, CreateNewLock, Put, IsMap

\* Storing a real transaction as a request keeps EmptyRequestWasRejected.
LEMMA StoreRequest ==
  ASSUME EmptyRequestWasRejected, NEW t \in Tx,
         mapTxLockReq' = Insert(mapTxLockReq, t, Vin[t]),
         mapTxLockReqRejected \subseteq mapTxLockReqRejected'
  PROVE  EmptyRequestWasRejected'
  BY DEF EmptyRequestWasRejected, Insert, Put

\* The only empty transaction that operator[] leaves in mapTxLockReq stands for
\* a request the memory pool refused.
THEOREM EmptyRequests == Spec => []EmptyRequestWasRejected
<1>1. Init => HeightComesFromRequest /\ EmptyRequestWasRejected
  BY DEF Init, EmptyMap, HeightComesFromRequest, EmptyRequestWasRejected
<1>2. RequestInv /\ [Next]_vars => HeightComesFromRequest' /\ EmptyRequestWasRejected'
  <2> SUFFICES ASSUME RequestInv, [Next]_vars
               PROVE  HeightComesFromRequest' /\ EmptyRequestWasRejected'
    OBVIOUS
  <2> USE DEF RequestInv
  <2>0. /\ IsMap(mapTxLocks, Tx, TransactionLock)
        /\ HeightComesFromRequest
        /\ EmptyRequestWasRejected
        /\ \A u \in DOMAIN mapTxLockReq : mapTxLockReq[u] \in {Vin[u], {}}
    BY DEF TypeOK
  <2>1. ASSUME NEW t \in Tx, ReceiveIX(t)
        PROVE  HeightComesFromRequest' /\ EmptyRequestWasRejected'
    <3>1. PICK height \in Height \cup {0} :
            /\ mapTxLocks' = CreateNewLock(mapTxLocks, t, height)
            /\ handler' = [phase |-> "created", tx |-> t, height |-> height]
      BY <2>1 DEF ReceiveIX
    <3>2. SameHeights(mapTxLocks', mapTxLocks, t)
      BY <2>0, <3>1, CreateNewLockHeights
    <3>3. HandledRequests \subseteq HandledRequests' /\ t \in HandledRequests'
      BY <2>1, <3>1 DEF ReceiveIX, HandledRequests, Idle
    <3> QED BY <2>0, <2>1, <3>2, <3>3
         DEF ReceiveIX, HeightComesFromRequest, EmptyRequestWasRejected, SameHeights
  <2>2. CASE AcceptIX
    <3>1. HandledRequests' = HandledRequests
      <4>1. handler \in [phase : {"created", "accepted", "rejected"},
                         tx : Tx, height : Height \cup {0}]
        BY <2>2 DEF AcceptIX, TypeOK, Handler, Idle
      <4>2. handler'.tx = handler.tx /\ handler' # Idle /\ handler # Idle
        BY <2>2, <4>1 DEF AcceptIX, Idle
      <4> QED BY <2>2, <4>2 DEF AcceptIX, HandledRequests, tables
    <3> QED BY <2>0, <2>2, <3>1
         DEF AcceptIX, tables, HeightComesFromRequest, EmptyRequestWasRejected
  <2>3. CASE FinishAccepted
    <3>1. handler.tx \in Tx
      BY <2>3 DEF FinishAccepted, TypeOK, Handler, Idle
    <3>2. HandledRequests \subseteq HandledRequests'
      BY <2>3 DEF FinishAccepted, HandledRequests, Insert, Put
    <3>3. EmptyRequestWasRejected'
      BY <2>0, <2>3, <3>1, StoreRequest DEF FinishAccepted
    <3> QED BY <2>0, <2>3, <3>2, <3>3 DEF FinishAccepted, HeightComesFromRequest
  <2>4. CASE FinishRejected
    <3> DEFINE t == handler.tx
    <3>1. t \in Tx
      BY <2>4 DEF FinishRejected, TypeOK, Handler, Idle
    <3>2. /\ mapTxLockReqRejected' = mapTxLockReqRejected \cup {t}
          /\ \/ mapTxLockReq' = mapTxLockReq
             \/ mapTxLockReq' = Insert(mapTxLockReq, t, Vin[t])
          /\ \/ mapTxLocks' = mapTxLocks
             \/ \E S : mapTxLocks' = CancelLocks(mapTxLocks, S)
      BY <2>4 DEF FinishRejected
    <3>3. HandledRequests \subseteq HandledRequests'
      BY <3>2 DEF HandledRequests, Insert, Put
    <3>4. EmptyRequestWasRejected'
      <4>1. CASE mapTxLockReq' = mapTxLockReq
        BY <2>0, <3>2, <4>1 DEF EmptyRequestWasRejected
      <4>2. CASE mapTxLockReq' = Insert(mapTxLockReq, t, Vin[t])
        BY <2>0, <3>1, <3>2, <4>2, StoreRequest
      <4> QED BY <3>2, <4>1, <4>2
    <3>5. /\ DOMAIN mapTxLocks' = DOMAIN mapTxLocks
          /\ \A u \in DOMAIN mapTxLocks :
               mapTxLocks'[u].nBlockHeight = mapTxLocks[u].nBlockHeight
      BY <2>0, <3>2, CancelLocksSameVotes
    <3> QED BY <2>0, <3>3, <3>4, <3>5 DEF HeightComesFromRequest
  <2>5. ASSUME NEW t \in Tx, NEW vote \in ConsensusVote, ReceiveVote(t, vote)
        PROVE  HeightComesFromRequest' /\ EmptyRequestWasRejected'
    <3> DEFINE locks == AddVote(mapTxLocks, t, vote)
    <3>1. handler = Idle /\ UNCHANGED <<handler, mapTxLockReqRejected>>
      BY <2>5 DEF ReceiveVote
    <3>2. /\ IsMap(locks, Tx, TransactionLock)
          /\ DOMAIN locks = DOMAIN mapTxLocks \cup {t}
      BY <2>0, AddVoteIsMap
    <3>3. \A u \in DOMAIN locks :
            locks[u].nBlockHeight # 0
              => u \in DOMAIN mapTxLocks /\ mapTxLocks[u].nBlockHeight # 0
      BY <2>0, <3>2, AddVoteVotes
    <3> HIDE DEF locks
    <3>4. \/ UNCHANGED <<mapTxLockReq, mapTxLocks>>
          \/ mapTxLocks' = locks /\ UNCHANGED mapTxLockReq
          \/ Complete(locks, t) /\ CompleteLock(locks, t)
      BY <2>5 DEF ReceiveVote, locks
    <3>5. CASE Complete(locks, t) /\ CompleteLock(locks, t)
      <4>1. locks[t].nBlockHeight # 0
        BY <3>5 DEF Complete, CountSignatures
      <4>2. t \in DOMAIN mapTxLockReq \cup mapTxLockReqRejected
        BY <2>0, <3>1, <3>2, <3>3, <4>1 DEF HeightComesFromRequest, HandledRequests
      <4>3. mapTxLockReq' = Insert(mapTxLockReq, t, {})
        BY <3>5 DEF CompleteLock
      <4>4. EmptyRequestWasRejected'
        BY <2>0, <3>1, <4>2, <4>3 DEF EmptyRequestWasRejected, Insert, Put
      <4>5. \/ mapTxLocks' = locks
            \/ \E S : mapTxLocks' = CancelLocks(locks, S)
        BY <3>5 DEF CompleteLock
      <4>6. /\ DOMAIN mapTxLocks' = DOMAIN locks
            /\ \A u \in DOMAIN locks :
                 mapTxLocks'[u].nBlockHeight = locks[u].nBlockHeight
        BY <3>2, <4>5, CancelLocksSameVotes
      <4>7. HandledRequests \subseteq HandledRequests'
        BY <3>1, <4>3 DEF HandledRequests, Insert, Put
      <4> QED BY <2>0, <3>3, <4>4, <4>6, <4>7 DEF HeightComesFromRequest
    <3>6. CASE UNCHANGED mapTxLockReq /\ (mapTxLocks' = locks \/ UNCHANGED mapTxLocks)
      BY <2>0, <3>1, <3>3, <3>6
         DEF HeightComesFromRequest, EmptyRequestWasRejected, HandledRequests
    <3> QED BY <3>4, <3>5, <3>6
  <2>6. ASSUME NEW t \in Tx, WalletLockRequest(t)
        PROVE  HeightComesFromRequest' /\ EmptyRequestWasRejected'
    <3>1. PICK height \in Height \cup {0} :
            mapTxLocks' = CreateNewLock(mapTxLocks, t, height)
      BY <2>6 DEF WalletLockRequest
    <3>2. SameHeights(mapTxLocks', mapTxLocks, t)
      BY <2>0, <3>1, CreateNewLockHeights
    <3>3. HandledRequests \subseteq HandledRequests' /\ t \in HandledRequests'
      BY <2>6 DEF WalletLockRequest, HandledRequests, Insert, Put
    <3>4. EmptyRequestWasRejected'
      BY <2>0, <2>6, StoreRequest DEF WalletLockRequest
    <3> QED BY <2>0, <3>2, <3>3, <3>4 DEF HeightComesFromRequest, SameHeights
  <2>7. CASE Tick
    <3>1. /\ DOMAIN mapTxLocks' = DOMAIN mapTxLocks
          /\ \A u \in DOMAIN mapTxLocks :
               mapTxLocks'[u].nBlockHeight = mapTxLocks[u].nBlockHeight
      BY <2>0, <2>7 DEF Tick, IsMap, TransactionLock
    <3> QED BY <2>0, <2>7, <3>1
         DEF Tick, HeightComesFromRequest, EmptyRequestWasRejected, HandledRequests
  <2>8. CASE CleanTransactionLocksList
    <3> DEFINE known == LocksToRemove \cap DOMAIN mapTxLockReq
    <3>1. /\ DOMAIN mapTxLocks' = DOMAIN mapTxLocks \ LocksToRemove
          /\ \A t \in DOMAIN mapTxLocks' : mapTxLocks'[t] = mapTxLocks[t]
          /\ DOMAIN mapTxLockReq' = DOMAIN mapTxLockReq \ known
          /\ \A t \in DOMAIN mapTxLockReq' : mapTxLockReq'[t] = mapTxLockReq[t]
          /\ mapTxLockReqRejected' = mapTxLockReqRejected \ known
          /\ handler' = handler
      BY <2>8 DEF CleanTransactionLocksList, Erase, Restrict
    <3> QED BY <2>0, <3>1
         DEF HeightComesFromRequest, EmptyRequestWasRejected, HandledRequests
  <2>9. CASE UNCHANGED <<tables, handler>>
    BY <2>0, <2>9
       DEF tables, HeightComesFromRequest, EmptyRequestWasRejected, HandledRequests
  <2>10. ASSUME NEW t \in Tx, AcceptTx(t) \/ ConnectBlock(t)
         PROVE  HeightComesFromRequest' /\ EmptyRequestWasRejected'
    BY <2>9, <2>10 DEF AcceptTx, ConnectBlock
  <2>11. CASE UNCHANGED vars
    BY <2>9, <2>11 DEF vars
  <2> QED
    BY <2>1, <2>2, <2>3, <2>4, <2>5, <2>6, <2>7, <2>8, <2>10, <2>11 DEF Next
<1> QED BY <1>1, <1>2, TypeCorrect, PTL DEF Spec, RequestInv

-----------------------------------------------------------------------------
\* Reservations.  No step but cleaning shrinks mapLockedInputs, and LockInputs
\* never overwrites an owner.
Kept(new, old) ==
  DOMAIN old \subseteq DOMAIN new /\ \A o \in DOMAIN old : new[o] = old[o]

LEMMA LockInputsKeeps ==
  ASSUME NEW m, NEW vin, NEW t
  PROVE  Kept(LockInputs(m, vin, t), m)
BY DEF Kept, LockInputs

LEMMA KeptIsReservationStep ==
  ASSUME Kept(mapLockedInputs', mapLockedInputs)
  PROVE  ReservationStep
BY DEF Kept, ReservationStep

\* What cleaning erases was an input of a stored request, and a stored request
\* is the transaction itself or the empty one, which has no input to erase.
LEMMA CleaningReleases ==
  ASSUME TypeOK, CleanTransactionLocksList
  PROVE  ReservationStep
<1> SUFFICES ASSUME NEW o \in DOMAIN mapLockedInputs
             PROVE  \/ /\ o \in DOMAIN mapLockedInputs'
                       /\ mapLockedInputs'[o] = mapLockedInputs[o]
                    \/ /\ o \notin DOMAIN mapLockedInputs'
                       /\ \E t \in DOMAIN mapTxLocks \ DOMAIN mapTxLocks' :
                            mapTxLocks[t].nExpiration = -1 /\ o \in Vin[t]
  BY DEF ReservationStep
<1> DEFINE known == LocksToRemove \cap DOMAIN mapTxLockReq
           inputs == UNION {mapTxLockReq[t] : t \in known}
<1>1. /\ mapLockedInputs' = [x \in DOMAIN mapLockedInputs \ inputs |-> mapLockedInputs[x]]
      /\ DOMAIN mapTxLocks' = DOMAIN mapTxLocks \ LocksToRemove
  <2>1. /\ mapLockedInputs' = Erase(mapLockedInputs, inputs)
        /\ mapTxLocks' = Erase(mapTxLocks, LocksToRemove)
    BY DEF CleanTransactionLocksList
  <2>2. Erase(mapLockedInputs, inputs)
          = [x \in DOMAIN mapLockedInputs \ inputs |-> mapLockedInputs[x]]
    BY DEF Erase, Restrict
  <2>3. DOMAIN Erase(mapTxLocks, LocksToRemove) = DOMAIN mapTxLocks \ LocksToRemove
    BY DEF Erase, Restrict
  <2> QED BY <2>1, <2>2, <2>3
<1>2. CASE o \notin inputs
  <2> HIDE DEF inputs
  <2> QED BY <1>1, <1>2
<1>3. CASE o \in inputs
  <2>1. PICK t \in known : o \in mapTxLockReq[t]
    BY <1>3
  <2>2. o \in Vin[t]
    BY <2>1 DEF TypeOK
  <2>3. t \in DOMAIN mapTxLocks \ DOMAIN mapTxLocks' /\ mapTxLocks[t].nExpiration = -1
    BY <1>1 DEF LocksToRemove, ExpiredLocks
  <2>4. o \notin DOMAIN mapLockedInputs'
    <3> HIDE DEF inputs
    <3> QED BY <1>1, <1>3
  <2> QED BY <2>2, <2>3, <2>4
<1> QED BY <1>2, <1>3

\* An input that is reserved for a transaction stays reserved for it until
\* CleanTransactionLocksList removes the expired lock of a request that spends it:
\* neither a conflicting request, refused or complete, nor a later vote moves it.
THEOREM ReservationsStable == Spec => ReservationsAreStable
<1>1. TypeOK /\ [Next]_vars => [ReservationStep]_vars
  <2> SUFFICES ASSUME TypeOK, Next PROVE ReservationStep
    OBVIOUS
  <2>1. CASE UNCHANGED mapLockedInputs
    BY <2>1 DEF ReservationStep
  <2>2. ASSUME NEW t \in Tx, ReceiveIX(t) \/ WalletLockRequest(t) \/ AcceptTx(t)
                               \/ ConnectBlock(t)
        PROVE  ReservationStep
    BY <2>1, <2>2 DEF ReceiveIX, WalletLockRequest, AcceptTx, ConnectBlock, tables
  <2>3. CASE AcceptIX \/ FinishAccepted \/ Tick
    BY <2>1, <2>3 DEF AcceptIX, FinishAccepted, Tick, tables
  <2>4. CASE FinishRejected
    <3>1. mapLockedInputs' = LockInputs(mapLockedInputs, Vin[handler.tx], handler.tx)
      BY <2>4 DEF FinishRejected
    <3> QED BY <3>1, LockInputsKeeps, KeptIsReservationStep
  <2>5. ASSUME NEW t \in Tx, NEW vote \in ConsensusVote, ReceiveVote(t, vote)
        PROVE  ReservationStep
    <3>1. \/ UNCHANGED mapLockedInputs
          \/ \E vin : mapLockedInputs' = LockInputs(mapLockedInputs, vin, t)
      BY <2>5 DEF ReceiveVote, CompleteLock
    <3> QED BY <2>1, <3>1, LockInputsKeeps, KeptIsReservationStep
  <2>6. CASE CleanTransactionLocksList
    BY <2>6, CleaningReleases
  <2> QED BY <2>2, <2>3, <2>4, <2>5, <2>6 DEF Next
<1> QED BY <1>1, TypeCorrect, PTL DEF Spec, ReservationsAreStable
=============================================================================
