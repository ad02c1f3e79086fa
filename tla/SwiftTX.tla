------------------------------ MODULE SwiftTX ------------------------------
(***************************************************************************)
(* One node's SwiftTX tables (swifttx.cpp): lock requests ("ix"), the      *)
(* masternodes' consensus votes on them ("txlvote"), the locks the votes   *)
(* complete, and the inputs a lock reserves.  The tables are read by the   *)
(* memory pool and by CheckBlock (main.cpp), which refuse a transaction    *)
(* that spends an input reserved for another one.                          *)
(*                                                                         *)
(* std::map is a function whose DOMAIN is the set of keys.  A transaction  *)
(* is identified with its hash; what is stored for it is its set of        *)
(* inputs, so the default-constructed CTransaction is {}.  nExpiration is  *)
(* kept relative to GetTime(): the time a lock has left, -1 once it is     *)
(* past.  Messages are handled by one thread; the wallet, block connection *)
(* and the cleaning thread take steps between the parts of an "ix"         *)
(* handler, which releases cs_main around AcceptToMemoryPool.              *)
(***************************************************************************)
EXTENDS Integers, Sequences, FiniteSets, Functions

CONSTANTS
  Tx,                   \* transactions (their hashes)
  Outpoint,             \* transaction outputs that Tx spend
  Vin,                  \* [Tx -> SUBSET Outpoint]: what each transaction spends
  Masternode,           \* masternode collateral outpoints
  Height,               \* block heights a lock can count votes for
  VoteHeight,           \* block heights the votes name
  Self,                 \* the masternodes this node runs: {} or one of them
  SIGNATURES_REQUIRED,  \* SWIFTTX_SIGNATURES_REQUIRED
  SIGNATURES_TOTAL,     \* SWIFTTX_SIGNATURES_TOTAL
  LOCK_LIFETIME         \* the 60 minutes of a new lock, in clock ticks

ASSUME SwiftTXAssumption ==
  /\ Vin \in [Tx -> SUBSET Outpoint]
  /\ Height \subseteq Nat \ {0}
  /\ VoteHeight \subseteq Nat
  /\ Self \subseteq Masternode
  /\ SIGNATURES_REQUIRED \in Nat \ {0}
  /\ SIGNATURES_TOTAL \in Nat \ {0}
  /\ LOCK_LIFETIME \in Nat \ {0}

VARIABLES
  mapTxLockReq,          \* accepted requests: hash -> inputs of the stored tx
  mapTxLockReqRejected,  \* requests AcceptToMemoryPool refused
  mapTxLockVote,         \* keys <<masternode, tx>> of the votes seen
  mapTxLocks,            \* hash -> CTransactionLock
  mapLockedInputs,       \* outpoint -> hash of the tx it is reserved for
  mempool,               \* transactions in the memory pool
  chain,                 \* transactions in the blocks ReprocessBlocks can reach
  handler                \* where the message thread is in an "ix" message

tables == <<mapTxLockReq, mapTxLockReqRejected, mapTxLockVote, mapTxLocks,
            mapLockedInputs>>
vars == <<tables, mempool, chain, handler>>

-----------------------------------------------------------------------------
\* CConsensusVote, without the transaction hash its lock is filed under.
ConsensusVote == [mn : Masternode, nBlockHeight : VoteHeight]

TransactionLock == [nBlockHeight      : Height \cup {0},
                    vecConsensusVotes : Seq(ConsensusVote),
                    nExpiration       : -1 .. LOCK_LIFETIME]

\* m is a std::map from keys in K to values in V.
IsMap(m, K, V) == DOMAIN m \subseteq K /\ m \in [DOMAIN m -> V]
EmptyMap == [x \in {} |-> x]

Idle == [phase |-> "idle"]
Handler == {Idle} \cup [phase : {"created", "accepted", "rejected"},
                        tx : Tx, height : Height \cup {0}]

\* Every table holds what its C++ type says; a stored request is the real
\* transaction or the default one that operator[] inserts.
TypeOK ==
  /\ IsMap(mapTxLockReq, Tx, SUBSET Outpoint)
  /\ \A t \in DOMAIN mapTxLockReq : mapTxLockReq[t] \in {Vin[t], {}}
  /\ mapTxLockReqRejected \in SUBSET Tx
  /\ mapTxLockVote \in SUBSET (Masternode \X Tx)
  /\ IsMap(mapTxLocks, Tx, TransactionLock)
  /\ IsMap(mapLockedInputs, Outpoint, Tx)
  /\ mempool \in SUBSET Tx
  /\ chain \in SUBSET Tx
  /\ handler \in Handler

Init ==
  /\ mapTxLockReq = EmptyMap
  /\ mapTxLockReqRejected = {}
  /\ mapTxLockVote = {}
  /\ mapTxLocks = EmptyMap
  /\ mapLockedInputs = EmptyMap
  /\ mempool = {}
  /\ chain = {}
  /\ handler = Idle

-----------------------------------------------------------------------------
Put(m, k, v) == [x \in DOMAIN m \cup {k} |-> IF x = k THEN v ELSE m[x]]

\* std::map::insert leaves a key that is present alone.
Insert(m, k, v) == IF k \in DOMAIN m THEN m ELSE Put(m, k, v)

Erase(m, S) == Restrict(m, DOMAIN m \ S)

Conflict(t, u) == t # u /\ Vin[t] \cap Vin[u] # {}

\* Inputs in vin that are reserved for a transaction other than t.
LockedByOther(locked, vin, t) ==
  {o \in vin \cap DOMAIN locked : locked[o] # t}

\* Mutant: reserving an input that is already reserved.
OverwriteInputs(locked, vin, t) ==
  [o \in DOMAIN locked \cup vin |-> IF o \in vin THEN t ELSE locked[o]]

\* Reserve for t every input in vin that nobody has reserved.
LockInputs(locked, vin, t) ==
  [o \in DOMAIN locked \cup vin |-> IF o \in DOMAIN locked THEN locked[o] ELSE t]

\* A new CTransactionLock: expires in an hour.
NewLock(height) == [nBlockHeight |-> height, vecConsensusVotes |-> << >>,
                    nExpiration |-> LOCK_LIFETIME]

\* CreateNewLock: height is 0 when an input is missing or too young, and the
\* table is then left alone; an existing lock only learns its height.
CreateNewLock(locks, t, height) ==
  IF height = 0 THEN locks
  ELSE IF t \in DOMAIN locks
       THEN [locks EXCEPT ![t].nBlockHeight = height]
       ELSE Put(locks, t, NewLock(height))

\* CTransactionLock::CountSignatures
CountSignatures(lock) ==
  IF lock.nBlockHeight = 0 THEN -1
  ELSE Cardinality({i \in DOMAIN lock.vecConsensusVotes :
                      lock.vecConsensusVotes[i].nBlockHeight = lock.nBlockHeight})

Complete(locks, t) ==
  t \in DOMAIN locks /\ CountSignatures(locks[t]) >= SIGNATURES_REQUIRED

\* CheckForConflictingLocks, once a conflicting input is found: the locks of
\* both transactions are made to expire now.
CancelLocks(locks, S) ==
  [t \in DOMAIN locks |-> IF t \in S THEN [locks[t] EXCEPT !.nExpiration = 0]
                                     ELSE locks[t]]

\* Mutant: the first vote decides the height of the lock.
AddVoteTrustingHeight(locks, t, vote) ==
  LET base == Insert(locks, t, NewLock(vote.nBlockHeight))
  IN  [base EXCEPT ![t].vecConsensusVotes = Append(@, vote)]

\* AddSignature, on the lock that the first vote creates with height 0.
AddVote(locks, t, vote) ==
  LET base == Insert(locks, t, NewLock(0))
  IN  [base EXCEPT ![t].vecConsensusVotes = Append(@, vote)]

\* AcceptToMemoryPool as far as the tables decide it: not in the pool, no
\* input reserved for another transaction, none spent in the pool or in a block.
MempoolWouldAccept(t) ==
  /\ t \notin mempool \cup chain
  /\ LockedByOther(mapLockedInputs, Vin[t], t) = {}
  /\ \A u \in mempool \cup chain : ~ Conflict(t, u)

\* ReprocessBlocks(15) under the input reservations `locked': the last blocks
\* are disconnected and connected again; a block with a transaction that
\* spends an input reserved for another now fails CheckBlock and takes the
\* blocks above it with it, whose transactions are back in the memory pool.
ReprocessBlocks(locked) ==
  LET bad == {t \in chain : LockedByOther(locked, Vin[t], t) # {}}
  IN  \E gone \in SUBSET chain :
        /\ bad \subseteq gone
        /\ bad = {} => gone = {}
        /\ chain' = chain \ gone
        /\ mempool' = mempool \cup (gone \ bad)

-----------------------------------------------------------------------------
\* "ix", first part: known requests are ignored, a valid new one gets a lock.
ReceiveIX(t) ==
  /\ handler = Idle
  /\ t \notin DOMAIN mapTxLockReq
  /\ t \notin mapTxLockReqRejected
  /\ \E height \in Height \cup {0} :
       /\ mapTxLocks' = CreateNewLock(mapTxLocks, t, height)
       /\ handler' = [phase |-> "created", tx |-> t, height |-> height]
  /\ UNCHANGED <<mapTxLockReq, mapTxLockReqRejected, mapTxLockVote,
                 mapLockedInputs, mempool, chain>>

\* "ix", second part, under cs_main.  The memory pool may also refuse the
\* transaction for a reason of its own (fees, scripts, a missing input).
AcceptIX ==
  /\ handler.phase = "created"
  /\ \/ /\ MempoolWouldAccept(handler.tx)
        /\ mempool' = mempool \cup {handler.tx}
        /\ handler' = [handler EXCEPT !.phase = "accepted"]
     \/ /\ handler' = [handler EXCEPT !.phase = "rejected"]
        /\ UNCHANGED mempool
  /\ UNCHANGED <<tables, chain>>

\* DoConsensusVote: a masternode in the top ranks records its own vote (and
\* sends it out); its lock does not count it.
DoConsensusVote(t) ==
  \E n \in {-1} \cup 1 .. SIGNATURES_TOTAL + 1 :
    mapTxLockVote' = IF n # -1 /\ n <= SIGNATURES_TOTAL
                     THEN mapTxLockVote \cup {<<m, t>> : m \in Self}
                     ELSE mapTxLockVote

\* "ix", last part for an accepted transaction.
FinishAccepted ==
  /\ handler.phase = "accepted"
  /\ DoConsensusVote(handler.tx)
  /\ mapTxLockReq' = Insert(mapTxLockReq, handler.tx, Vin[handler.tx])
  /\ handler' = Idle
  /\ UNCHANGED <<mapTxLockReqRejected, mapTxLocks, mapLockedInputs, mempool,
                 chain>>

\* "ix", last part for a refused transaction: its free inputs are reserved for
\* it, and if its lock is already complete the conflict is resolved.
FinishRejected ==
  LET t      == handler.tx
      locked == LockInputs(mapLockedInputs, Vin[t], t)
      other  == LockedByOther(locked, Vin[t], t)
  IN
  /\ handler.phase = "rejected"
  /\ mapTxLockReqRejected' = mapTxLockReqRejected \cup {t}
  /\ mapLockedInputs' = locked
  /\ handler' = Idle
  /\ \/ /\ ~ Complete(mapTxLocks, t)
        /\ UNCHANGED <<mapTxLockReq, mapTxLocks, mempool, chain>>
     \/ /\ Complete(mapTxLocks, t)
        /\ other = {}
        /\ ReprocessBlocks(locked)
        /\ mapTxLockReq' = Insert(mapTxLockReq, t, Vin[t])
        /\ UNCHANGED mapTxLocks
     \/ /\ Complete(mapTxLocks, t)
        /\ \E o \in other :
             mapTxLocks' = CancelLocks(mapTxLocks, {t, locked[o]})
        /\ UNCHANGED <<mapTxLockReq, mempool, chain>>
  /\ UNCHANGED mapTxLockVote

-----------------------------------------------------------------------------
\* ProcessConsensusVote after the lock of t became `locks[t]' and is complete:
\* operator[] stores an empty transaction when there is no request for t.
CompleteLock(locks, t) ==
  LET req   == Insert(mapTxLockReq, t, {})
      vin   == req[t]
      other == LockedByOther(mapLockedInputs, vin, t)
  IN
  /\ mapTxLockReq' = req
  /\ \/ /\ other # {}
        /\ \E o \in other :
             mapTxLocks' = CancelLocks(locks, {t, mapLockedInputs[o]})
        /\ UNCHANGED <<mapLockedInputs, mempool, chain>>
     \/ /\ other = {}
        /\ mapTxLocks' = locks
        /\ mapLockedInputs' = LockInputs(mapLockedInputs, vin, t)
        /\ IF t \in mapTxLockReqRejected
           THEN ReprocessBlocks(mapLockedInputs')
           ELSE UNCHANGED <<mempool, chain>>

\* Mutant: repeats are counted.
VoteNeverKnown(t, vote) == FALSE

\* A vote of this masternode on t was seen (CConsensusVote::GetHash is the sum
\* of the masternode's outpoint and the transaction hash; the height is left out).
VoteIsKnown(t, vote) == <<vote.mn, t>> \in mapTxLockVote

\* "txlvote": a vote whose key was seen is dropped; any other is remembered,
\* and counted if the masternode ranks in the top and the signature is good.
ReceiveVote(t, vote) ==
  /\ handler = Idle
  /\ ~ VoteIsKnown(t, vote)
  /\ mapTxLockVote' = mapTxLockVote \cup {<<vote.mn, t>>}
  /\ \E n \in {-1} \cup 1 .. SIGNATURES_TOTAL + 1, signatureValid \in BOOLEAN :
       IF n = -1 \/ n > SIGNATURES_TOTAL \/ ~ signatureValid
       THEN UNCHANGED <<mapTxLockReq, mapTxLocks, mapLockedInputs, mempool, chain>>
       ELSE LET locks == AddVote(mapTxLocks, t, vote)
            IN  IF Complete(locks, t)
                THEN CompleteLock(locks, t)
                ELSE /\ mapTxLocks' = locks
                     /\ UNCHANGED <<mapTxLockReq, mapLockedInputs, mempool, chain>>
  /\ UNCHANGED <<mapTxLockReqRejected, handler>>

\* CWalletTx::RelayWalletTransaction("ix") for an unconfirmed wallet transaction.
WalletLockRequest(t) ==
  /\ t \in mempool
  /\ mapTxLockReq' = Insert(mapTxLockReq, t, Vin[t])
  /\ \E height \in Height \cup {0} :
       mapTxLocks' = CreateNewLock(mapTxLocks, t, height)
  /\ UNCHANGED <<mapTxLockReqRejected, mapTxLockVote, mapLockedInputs, mempool,
                 chain, handler>>

\* An ordinary transaction enters the memory pool.
AcceptTx(t) ==
  /\ MempoolWouldAccept(t)
  /\ mempool' = mempool \cup {t}
  /\ UNCHANGED <<tables, chain, handler>>

\* A block with t passes the lock filter of CheckBlock and is connected; the
\* memory pool drops t and what conflicts with it.
ConnectBlock(t) ==
  /\ t \notin chain
  /\ \A u \in chain : ~ Conflict(t, u)
  /\ LockedByOther(mapLockedInputs, Vin[t], t) = {}
  /\ chain' = chain \cup {t}
  /\ mempool' = {u \in mempool : u # t /\ ~ Conflict(t, u)}
  /\ UNCHANGED <<tables, handler>>

\* The clock advances by one unit.
Tick ==
  /\ \E t \in DOMAIN mapTxLocks : mapTxLocks[t].nExpiration # -1
  /\ mapTxLocks' =
       [t \in DOMAIN mapTxLocks |->
          [mapTxLocks[t] EXCEPT !.nExpiration = IF @ = -1 THEN -1 ELSE @ - 1]]
  /\ UNCHANGED <<mapTxLockReq, mapTxLockReqRejected, mapTxLockVote,
                 mapLockedInputs, mempool, chain, handler>>

ExpiredLocks == {t \in DOMAIN mapTxLocks : mapTxLocks[t].nExpiration = -1}

\* Mutant: a lock without a request is never looked at.
RequestedExpiredLocks == ExpiredLocks \cap DOMAIN mapTxLockReq

\* The locks one pass removes.
LocksToRemove == ExpiredLocks

\* CleanTransactionLocksList: every expired lock goes; its request, the inputs
\* of the request and its votes go too when there is a request.
CleanTransactionLocksList ==
  LET expired == LocksToRemove
      known   == expired \cap DOMAIN mapTxLockReq
      inputs  == UNION {mapTxLockReq[t] : t \in known}
      votes(t) == {<<mapTxLocks[t].vecConsensusVotes[i].mn, t>> :
                     i \in DOMAIN mapTxLocks[t].vecConsensusVotes}
  IN
  /\ expired # {}
  /\ mapLockedInputs' = Erase(mapLockedInputs, inputs)
  /\ mapTxLockReq' = Erase(mapTxLockReq, known)
  /\ mapTxLockReqRejected' = mapTxLockReqRejected \ known
  /\ mapTxLockVote' = mapTxLockVote \ UNION {votes(t) : t \in known}
  /\ mapTxLocks' = Erase(mapTxLocks, expired)
  /\ UNCHANGED <<mempool, chain, handler>>

Next ==
  \/ \E t \in Tx : \/ ReceiveIX(t)
                   \/ WalletLockRequest(t)
                   \/ AcceptTx(t)
                   \/ ConnectBlock(t)
                   \/ \E vote \in ConsensusVote : ReceiveVote(t, vote)
  \/ AcceptIX
  \/ FinishAccepted
  \/ FinishRejected
  \/ Tick
  \/ CleanTransactionLocksList

Spec == Init /\ [][Next]_vars
-----------------------------------------------------------------------------
\* Properties

\* No masternode is counted twice in a lock: the key under which "txlvote"
\* drops repeats (masternode and transaction, not the height) is enough,
\* across cleaning, the node's own votes and votes that precede the request.
OneVotePerMasternode ==
  \A t \in DOMAIN mapTxLocks :
    LET votes == mapTxLocks[t].vecConsensusVotes
    IN  \A i, j \in DOMAIN votes : votes[i].mn = votes[j].mn => i = j

\* The empty transaction that ProcessConsensusVote stores through operator[]
\* when a lock completes without a request only ever stands for a request the
\* memory pool refused: the height a lock counts votes against is set by a
\* request, never by the votes.
EmptyRequestWasRejected ==
  \A t \in DOMAIN mapTxLockReq :
    mapTxLockReq[t] # Vin[t] => t \in mapTxLockReqRejected

\* A reservation never passes from one transaction to another, and ends only
\* when CleanTransactionLocksList removes an expired lock of a stored request
\* that spends the input.
ReservationStep ==
  \A o \in DOMAIN mapLockedInputs :
    \/ /\ o \in DOMAIN mapLockedInputs'
       /\ mapLockedInputs'[o] = mapLockedInputs[o]
    \/ /\ o \notin DOMAIN mapLockedInputs'
       /\ \E t \in DOMAIN mapTxLocks \ DOMAIN mapTxLocks' :
            mapTxLocks[t].nExpiration = -1 /\ o \in Vin[t]
ReservationsAreStable == [][ReservationStep]_vars

\* The clock runs, and the thread that calls CleanTransactionLocksList every 60
\* seconds keeps running.
FairSpec == Spec /\ WF_vars(Tick) /\ WF_vars(CleanTransactionLocksList)

\* Every lock leaves mapTxLocks: neither further votes nor a repeated request
\* extends its hour.
LocksExpire ==
  \A t \in Tx : (t \in DOMAIN mapTxLocks) ~> (t \notin DOMAIN mapTxLocks)

\* Why the two invariants above are kept: every vote in a lock is still among
\* the votes seen, and a lock has a height only once its request was handled.
VotesAreRemembered ==
  \A t \in DOMAIN mapTxLocks :
    \A i \in DOMAIN mapTxLocks[t].vecConsensusVotes :
      <<mapTxLocks[t].vecConsensusVotes[i].mn, t>> \in mapTxLockVote

HandledRequests ==
  DOMAIN mapTxLockReq \cup mapTxLockReqRejected
    \cup (IF handler = Idle THEN {} ELSE {handler.tx})

HeightComesFromRequest ==
  \A t \in DOMAIN mapTxLocks :
    mapTxLocks[t].nBlockHeight # 0 => t \in HandledRequests

=============================================================================
