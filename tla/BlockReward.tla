----------------------------- MODULE BlockReward -----------------------------
(* A node that creates blocks and connects them: who a new block pays        *)
(* (FillBlockPayee, CreateNewBlock, CreateCoinStake) and which blocks it     *)
(* accepts (IsBlockValueValid, IsBlockPayeeValid), under votes, budgets and  *)
(* sporks that arrive in any order. A block is created from what is known at *)
(* one moment and judged by what is known later. Transaction fees are zero   *)
(* and amounts small numbers; blocks extend the tip or leave it where it is. *)
EXTENDS Sporks, Payments, Budget

CONSTANTS
  InitHeight, MaxHeight,  \* bounds of the chain
  MaxRestarts,            \* bound on restarts and failures of the sync
  NoBlock,                \* no block is being made
  LAST_POW_BLOCK,         \* the last block that is mined, later ones are staked
  Premine, Subsidy,       \* value of block 1 and of the blocks before a halving
  MinSubsidy,             \* the least a block is worth
  HalvingInterval,        \* blocks between two halvings
  BudgetCycle,            \* GetBudgetPaymentCycleBlocks
  BudgetWindow,           \* superblocks are among so many blocks of a cycle (100)
  BudgetEvery,            \* budgets are looked after at one block in so many (14)
  OwnVoteAhead            \* a masternode votes so many blocks ahead (10)

ASSUME RewardAssumption ==
  /\ InitHeight \in Nat \ {0} /\ MaxHeight \in Nat /\ InitHeight <= MaxHeight
  /\ MaxRestarts \in Nat
  /\ 0..(MaxHeight + OwnVoteAhead) \subseteq Height
  /\ LAST_POW_BLOCK \in Nat /\ OwnVoteAhead \in Nat \ {0}
  /\ Premine \in Nat /\ Subsidy \in Nat /\ MinSubsidy \in Nat
  /\ HalvingInterval \in Nat \ {0} /\ BudgetCycle \in Nat \ {0} /\ BudgetEvery \in Nat \ {0}
  /\ BudgetWindow \in Nat
  /\ {"payees", "budgets", "superblocks", "reset"} \subseteq SporkId
  /\ BlockStart \in [FinalBudget -> Nat]
  /\ BudgetPayments \in [FinalBudget -> Seq([payee : Script, amount : Nat])]
  /\ FeeHeight \in [FinalBudget -> Nat]
  /\ BudgetVote \subseteq FinalBudget \X Masternode
  /\ FEE_CONFIRMATIONS \in Nat /\ BudgetHistory \in Nat
  /\ \A f \in FinalBudget :
       BlockStart[f] % BudgetCycle = 0 /\ Len(BudgetPayments[f]) \in 1..BudgetWindow
  /\ BudgetWindow <= BudgetCycle

\* Said of the heights in use since the provers know nothing of powers.
ASSUME HalvingAssumption ==
  \A h \in Height : 2^(h \div HalvingInterval) \in Nat \ {0}

VARIABLES
  height,   \* of the tip of the active chain
  stage,    \* of the masternode sync: 0 up to the list, 1 up to the budgets, 2 failed,
            \* 3 finished
  pblock,   \* the block being mined or staked, or NoBlock
  restarts  \* counts restarts and failures of the sync

vars == <<height, stage, pblock, restarts, sporkVars, paymentVars, budgetVars>>
nodeVars == <<height, stage, pblock, restarts>>

synced == stage = 3

(* ------------------------------- Amounts -------------------------------- *)

Halve(s, n) == s \div (2^n)

GetBlockValue(h) ==
  LET s == Halve(Subsidy, h \div HalvingInterval)
  IN  IF h = 1 THEN Premine ELSE IF s < MinSubsidy THEN MinSubsidy ELSE s

GetMasternodePayment(v) == v \div 2

(* ------------------------ What a block must satisfy --------------------- *)

Superblock(h) == IsSporkActive("superblocks") /\ IsBudgetPaymentBlock(h, Enabled)

IsBlockValueValid(b) ==
  \/ b.mint <= GetBlockValue(b.h)
  \/ synced /\ Superblock(b.h)
  \/ ~synced /\ b.h % BudgetCycle < BudgetWindow

\* The scripts that get at least what a masternode is due.
PaidEnough(b) == {p \in Script :
                    \E x \in b.payments : x.payee = p /\ x.amount >= GetMasternodePayment(GetBlockValue(b.h))}

IsBlockPayeeValid(b) ==
  \/ ~synced
  \/ Superblock(b.h) /\ (PaysBudget(b.payments, b.h, Enabled) \/ ~IsSporkActive("budgets"))
  \/ ~Superblock(b.h) /\ (PaysWinner(PaidEnough(b), b.h) \/ ~IsSporkActive("payees"))

Accepts(b) == IsBlockValueValid(b) /\ IsBlockPayeeValid(b)

(* --------------------------- Creating a block --------------------------- *)

\* Both FillBlockPayee functions start from the value of the tip, not of the
\* block made; so does the reward of a stake.
BlockValue == GetBlockValue(height)

BudgetBlocks ==
  {[h |-> height + 1, payments |-> {PaymentAt(f, height + 1)},
    mint |-> BlockValue + PaymentAt(f, height + 1).amount] : f \in HighestBudgets(height + 1)}

PayeeBlocks(payees) ==
  {[h |-> height + 1, payments |-> {[payee |-> p, amount |-> GetMasternodePayment(BlockValue)]},
    mint |-> BlockValue] : p \in payees}

\* With no masternode to pay a miner takes the value of the block it makes.
UnpaidBlock ==
  [h |-> height + 1, payments |-> {},
   mint |-> IF height + 1 > LAST_POW_BLOCK THEN BlockValue ELSE GetBlockValue(height + 1)]

\* The blocks this node can create on its tip: with no vote for the height it
\* pays the masternode it thinks is due, if it knows one.
NewBlocks ==
  IF Superblock(height + 1) THEN BudgetBlocks
  ELSE IF BlockPayee(height + 1) # {} THEN PayeeBlocks(BlockPayee(height + 1))
  ELSE PayeeBlocks(Payee) \cup {UnpaidBlock}

\* Blocks of others: any payment of a masternode or a budget, or none.
PeerBlocks ==
  LET h == height + 1
      v == GetBlockValue(h)
      paid == {{}} \cup {{[payee |-> p, amount |-> GetMasternodePayment(v)]} : p \in Payee}
                   \cup {{PaymentAt(f, h)} : f \in {b \in FinalBudget : PaysAt(b, h)}}
  IN  [h : {h}, payments : paid, mint : {v, v + 1}]

(* -------------------------------- Actions ------------------------------- *)

Init ==
  /\ height = InitHeight
  /\ stage = 0
  /\ pblock = NoBlock
  /\ restarts = 0
  /\ listed \in [Masternode -> {"oldkey", "known"}]
  /\ \A m \in Self : listed[m] = "known"
  /\ SporkInit /\ PaymentInit /\ BudgetInit

\* CreateNewBlock; staking waits for the end of the masternode sync.
CreateNewBlock ==
  /\ Idle("miner")
  /\ pblock = NoBlock
  /\ height < MaxHeight
  /\ height + 1 > LAST_POW_BLOCK => synced
  /\ pblock' \in NewBlocks
  /\ UNCHANGED <<height, stage, restarts, sporkVars, paymentVars, budgetVars>>

\* The budgets are looked after once their sync ended, also in failure.
BudgetNewBlock(tip) ==
  IF stage > 1 /\ tip % BudgetEvery = 0
    THEN NewBlock(tip, Self, synced)
    ELSE UNCHANGED budgetVars

\* ProcessNewBlock after the block is connected or stored: this node's vote for a
\* block ahead, which the thread has yet to count, and then the budgets.
AfterBlock(t, tip) ==
  /\ Idle(t)
  /\ IF stage > 0
       THEN ProcessBlock(t, tip + OwnVoteAhead, IsBudgetPaymentBlock(tip + OwnVoteAhead, Enabled))
       ELSE DoesNotVote
  /\ IF counting' = counting THEN BudgetNewBlock(tip) ELSE UNCHANGED budgetVars
  /\ UNCHANGED <<listed, lastVote, blockPayees, nLastBlockHeight, raced>>
  /\ UNCHANGED <<stage, restarts, sporkVars>>

\* The thread t goes on where AddWinningMasternode released its locks.
CountVote(t) ==
  /\ AddPayee(t)
  /\ IF counting[t].last = Never THEN UNCHANGED budgetVars ELSE BudgetNewBlock(height)
  /\ UNCHANGED <<nodeVars, sporkVars>>

Connect(t, b) ==
  /\ b.h = height + 1
  /\ height < MaxHeight
  /\ Accepts(b)
  /\ height' = b.h
  /\ AfterBlock(t, b.h)

Refuse(b) ==
  /\ b.h # height + 1 \/ ~Accepts(b)
  /\ UNCHANGED <<height, stage, restarts, sporkVars, paymentVars, budgetVars>>

ProcessBlockAgain ==
  /\ pblock # NoBlock
  /\ \/ Connect("miner", pblock) /\ pblock' = NoBlock
     \/ Refuse(pblock) /\ UNCHANGED pblock

\* The block found is dropped when it is stale or not accepted.
ProcessBlockFound ==
  /\ pblock # NoBlock
  /\ Connect("miner", pblock) \/ Refuse(pblock)
  /\ pblock' = NoBlock

ReceiveBlock == \E b \in PeerBlocks : Connect("handler", b) /\ UNCHANGED pblock

\* A block of another branch is stored and the tip stays.
StoreBlock == UNCHANGED <<height, pblock>> /\ AfterBlock("handler", height)

ReceiveMNW(v) ==
  /\ Idle("handler") /\ ReceiveWinner("handler", v, height)
  /\ UNCHANGED <<nodeVars, sporkVars, budgetVars>>

ListMasternode(m) ==
  /\ Idle("handler") /\ MasternodeListed(m)
  /\ UNCHANGED <<nodeVars, sporkVars, budgetVars>>

Clean ==
  /\ CleanPaymentList(height)
  /\ UNCHANGED <<nodeVars, sporkVars, budgetVars, listed, lastVote, nLastBlockHeight, counting>>

ReceiveFBS(f) ==
  /\ Idle("handler") /\ ReceiveBudget(f, height)
  /\ UNCHANGED <<nodeVars, sporkVars, paymentVars>>

ReceiveFBVote(f, m) ==
  /\ Idle("handler") /\ ReceiveBudgetVote(f, m, listed[m], synced)
  /\ UNCHANGED <<nodeVars, sporkVars, paymentVars>>

\* ExecuteSpork: a reset clears the budgets; a replay of blocks is not here.
ReceiveSpork(m) ==
  /\ Idle("handler") /\ ProcessSpork(m)
  /\ IF m.id = "reset" /\ m.on THEN ClearBudget ELSE UNCHANGED budgetVars
  /\ UNCHANGED <<nodeVars, paymentVars>>

SignSpork(m) ==
  /\ UpdateSpork(m)
  /\ UNCHANGED <<nodeVars, paymentVars, budgetVars>>

SyncStepPast ==
  /\ stage' = stage + 1
  /\ UNCHANGED <<height, pblock, restarts, sporkVars, paymentVars, budgetVars>>

\* The masternode sync leaves the list behind, then the winners and the budgets; one
\* that failed starts again after a minute.
SyncStep ==
  /\ \/ stage = 0 /\ stage' = 1
     \/ stage = 1 /\ stage' = 3
     \/ stage = 2 /\ stage' = 0
  /\ UNCHANGED <<height, pblock, restarts, sporkVars, paymentVars, budgetVars>>

\* It has got no list, or no winners.
SyncFails ==
  /\ stage < 2
  /\ stage' = 2
  /\ restarts < MaxRestarts
  /\ restarts' = restarts + 1
  /\ UNCHANGED <<height, pblock, sporkVars, paymentVars, budgetVars>>

\* A clean shutdown and the start after it.
Restart ==
  /\ \A t \in Thread : Idle(t)
  /\ restarts < MaxRestarts
  /\ restarts' = restarts + 1
  /\ stage' = 0
  /\ pblock' = NoBlock
  /\ mapSporks' = {}
  /\ mapSporksActive' = [i \in SporkId |-> NoSpork]
  /\ ReloadPayments(height)
  /\ ReloadBudget /\ ClearSeen
  /\ UNCHANGED height

Next ==
  \/ CreateNewBlock
  \/ ProcessBlockFound
  \/ ReceiveBlock
  \/ StoreBlock
  \/ \E v \in Winner : ReceiveMNW(v)
  \/ \E m \in Masternode : ListMasternode(m)
  \/ Clean
  \/ \E f \in FinalBudget : ReceiveFBS(f)
  \/ \E x \in BudgetVote : ReceiveFBVote(x[1], x[2])
  \/ \E m \in SporkMsg : ReceiveSpork(m) \/ SignSpork(m)
  \/ \E t \in Thread : CountVote(t)
  \/ SyncStep
  \/ SyncFails
  \/ Restart

Spec == Init /\ [][Next]_vars

\* What the thread that makes blocks does.
Mine == CreateNewBlock \/ ProcessBlockFound \/ CountVote("miner")

\* It goes on, and so does the sync of a running node.
FairSpec == Spec /\ WF_vars(Mine) /\ WF_vars(SyncStep)

(* ------------------------------ Properties ------------------------------ *)

Block == [h : Nat, payments : SUBSET [payee : Script, amount : Nat], mint : Nat]

TypeOK ==
  /\ height \in InitHeight..MaxHeight
  /\ stage \in 0..3
  /\ restarts \in 0..MaxRestarts
  /\ pblock = NoBlock \/ pblock \in Block
  /\ SporkTypeOK /\ PaymentTypeOK /\ BudgetTypeOK(Masternode)

\* What FillBlockPayee and CreateCoinStake make the checks of ConnectBlock and
\* CheckBlock accept, as long as nothing new arrives in between: whatever the
\* votes, budgets and sporks are, a node does not create a block it refuses.
\* (Two cases are left out, where it does: a block at which the value changes,
\* and a budget with less than ten masternodes.)
CreatedBlockAccepted ==
  /\ height < MaxHeight
  /\ GetBlockValue(height + 1) = GetBlockValue(height)
  /\ Enabled >= 10
  => \A b \in NewBlocks : Accepts(b)

\* A block is refused for whom it pays only on the word of others: as many
\* masternodes as are required signed the payee that is missing, or more than
\* a twentieth of all voted for the budget. No restart, vote sent twice or
\* clean-up makes fewer votes count for more (IsBlockPayeeValid).
RefusalRestsOnVotes ==
  \A b \in PeerBlocks :
    ~IsBlockPayeeValid(b) =>
      \/ \E f \in finalizedBudgets : PaysAt(f, b.h) /\ VoteCount(f) > Enabled \div 20
      \/ \E p \in Script \ PaidEnough(b) :
           Cardinality({m \in Masternode : [mn |-> m, h |-> b.h, payee |-> p] \in payeeVotes})
             >= SIGNATURES_REQUIRED

\* A stored vote is counted once, and votes and their count are forgotten together
\* (AddWinningMasternode, CleanPaymentList), also over a restart. The one exception are
\* heights CleanPaymentList passed between the two halves of AddWinningMasternode: their
\* count may exceed the votes, but they are too old for any block of the chain to be
\* judged by them.
TallyIsVotes == \A h \in Height : Tallied(h) \/ (h \in raced /\ Old(h, height))

\* The chain grows although the blocks a node makes can be refused when votes,
\* budgets or sporks arrive while it makes them: it makes another.
ChainGrows == <>(height = MaxHeight)

\* The chain reaches the block at which the value of a block is halved for the
\* first time (the comment of GetBlockValue: "halving every ~2 years").
HalvingHappens == <>(height \div HalvingInterval > 0)
=============================================================================
