------------------------------ MODULE Payments ------------------------------
(* The votes of masternodes on who is paid by a block                        *)
(* (src/masternode-payments.cpp and .h): mapMasternodePayeeVotes keeps the   *)
(* votes, mapMasternodeBlocks counts them for every height, and              *)
(* mapMasternodesLastVote the height each masternode voted for last. The     *)
(* first two are written to mnpayments.dat at shutdown. A vote is stored     *)
(* under the locks of the maps and counted after they were released, by the  *)
(* thread of the message handlers or by the one that makes blocks; another   *)
(* one cleans up. Each map operation is taken to be one step. Of payees with *)
(* equally many votes GetPayee returns the first one voted for; any of them  *)
(* may be returned here. The block a hundred below a voted height is known.  *)
EXTENDS Integers, FiniteSets

CONSTANTS
  Height,              \* heights of blocks
  Masternode,          \* masternodes whose votes can arrive
  Payee,               \* scripts a masternode is paid to
  NoPayee,             \* the empty script
  NoVote,              \* a thread is not about to count a vote
  Winner,              \* the votes other masternodes sign
  Rank,                \* GetMasternodeRank of a masternode for a height, -1 for none
  Self,                \* this node's own masternode, a set of at most one
  SIGNATURES_REQUIRED, \* MNPAYMENTS_SIGNATURES_REQUIRED
  SIGNATURES_TOTAL,    \* MNPAYMENTS_SIGNATURES_TOTAL
  VoteAhead,           \* a vote may be this many blocks ahead (20)
  PaymentLimit,        \* votes for heights older than this are forgotten (1000)
  Enabled              \* mnodeman.CountEnabled()

Script == Payee \cup {NoPayee}
Vote == [mn : Masternode, h : Height, payee : Script]
Never == -1
Thread == {"handler", "miner"}  \* the threads ProcessNewBlock runs in
\* A stored vote that is not counted yet. last is what nLastBlockHeight becomes when it
\* is this node's own vote.
Stored == [vote : Vote, last : Height \cup {Never}]

ASSUME PaymentAssumption ==
  /\ Height \subseteq Nat
  /\ 0 \in Height
  /\ NoPayee \notin Payee
  /\ NoVote \notin Stored
  /\ Winner \subseteq Vote
  /\ Rank \in [Masternode -> [Height -> Int]]
  /\ Self \subseteq Masternode
  /\ IsFiniteSet(Masternode)
  /\ SIGNATURES_REQUIRED \in Nat \ {0}
  /\ SIGNATURES_TOTAL \in Nat
  /\ VoteAhead \in Nat
  /\ PaymentLimit \in Nat
  /\ Enabled \in Nat

VARIABLES
  listed,           \* what the masternode list has of each: nothing, an old key, its key
  payeeVotes,       \* mapMasternodePayeeVotes: the votes, one per hash
  blockPayees,      \* mapMasternodeBlocks: for each height how many votes a payee has
  lastVote,         \* mapMasternodesLastVote
  nLastBlockHeight, \* the height this node voted for last
  counting,         \* the vote each thread has stored and not yet counted
  raced             \* history: heights cleaned up while a vote was not yet counted

paymentVars == <<listed, payeeVotes, blockPayees, lastVote, nLastBlockHeight,
                 counting, raced>>

PaymentTypeOK ==
  /\ listed \in [Masternode -> {"unknown", "oldkey", "known"}]
  /\ payeeVotes \subseteq Vote
  /\ blockPayees \in [Height -> [Script -> Nat]]
  /\ lastVote \in [Masternode -> Height \cup {Never}]
  /\ nLastBlockHeight \in Height
  /\ counting \in [Thread -> Stored \cup {NoVote}]
  /\ raced \subseteq Height

NoVotes == [p \in Script |-> 0]

PaymentInit ==
  /\ payeeVotes = {}
  /\ blockPayees = [h \in Height |-> NoVotes]
  /\ lastVote = [m \in Masternode |-> Never]
  /\ nLastBlockHeight = 0
  /\ counting = [t \in Thread |-> NoVote]
  /\ raced = {}

Idle(t) == counting[t] = NoVote

\* A broadcast or an update of the masternode reaches the list.
MasternodeListed(m) ==
  /\ listed[m] # "known"
  /\ listed' = [listed EXCEPT ![m] = "known"]
  /\ UNCHANGED <<payeeVotes, blockPayees, lastVote, nLastBlockHeight, counting, raced>>

\* A vote that is not known is stored, in the scope of LOCK2.
AddWinningMasternode(t, v, last) ==
  IF v \in payeeVotes
    THEN UNCHANGED <<payeeVotes, counting>>
    ELSE /\ payeeVotes' = payeeVotes \cup {v}
         /\ counting' = [counting EXCEPT ![t] = [vote |-> v, last |-> last]]

\* After that scope it is counted, whatever became of the height, and ProcessBlock
\* notes that this node voted.
AddPayee(t) ==
  LET v == counting[t].vote
  IN  /\ ~Idle(t)
      /\ blockPayees' = [blockPayees EXCEPT ![v.h][v.payee] = @ + 1]
      /\ nLastBlockHeight' = IF counting[t].last = Never THEN nLastBlockHeight
                                                         ELSE counting[t].last
      /\ counting' = [counting EXCEPT ![t] = NoVote]
      /\ UNCHANGED <<listed, payeeVotes, lastVote, raced>>

\* A masternode without a rank (-1) is not above the limit either.
WinnerIsValid(v) ==
  /\ listed[v.mn] # "unknown"
  /\ Rank[v.mn][v.h] <= SIGNATURES_TOTAL

CanVote(v) == lastVote[v.mn] # v.h

\* "mnw". CanVote records the vote before the signature is looked at.
ReceiveWinner(t, v, tip) ==
  /\ v \notin payeeVotes
  /\ v.h >= tip - (Enabled * 5) \div 4
  /\ v.h <= tip + VoteAhead
  /\ WinnerIsValid(v)
  /\ CanVote(v)
  /\ lastVote' = [lastVote EXCEPT ![v.mn] = v.h]
  /\ IF listed[v.mn] = "known"
       THEN AddWinningMasternode(t, v, Never)
       ELSE UNCHANGED <<payeeVotes, counting>>
  /\ UNCHANGED <<listed, blockPayees, nLastBlockHeight, raced>>

DoesNotVote == UNCHANGED <<payeeVotes, counting>>

\* What this node's masternode does for the block of height h: it votes for a
\* masternode that is due, or, for a budget block or when none is due, signs
\* and stores a vote with no payee for height 0. It votes once for a height, unless
\* another thread is about to note that it did.
ProcessBlock(t, h, budgetBlock) ==
  \/ /\ \/ \A m \in Self : Rank[m][h] = -1 \/ Rank[m][h] > SIGNATURES_TOTAL
        \/ h <= nLastBlockHeight
     /\ DoesNotVote
  \/ /\ h > nLastBlockHeight
     /\ \E m \in Self, p \in Script :
          LET v == IF p = NoPayee THEN [mn |-> m, h |-> 0, payee |-> NoPayee]
                                  ELSE [mn |-> m, h |-> h, payee |-> p]
          IN  /\ Rank[m][h] # -1
              /\ Rank[m][h] <= SIGNATURES_TOTAL
              /\ budgetBlock => p = NoPayee
              /\ AddWinningMasternode(t, v, h)

\* Votes for old heights go, and with them the counts of the height.
Old(h, tip) == tip - h > PaymentLimit

CleanVotesOnly(tip) ==
  /\ payeeVotes' = {v \in payeeVotes : ~Old(v.h, tip)}
  /\ UNCHANGED <<blockPayees, raced>>

CleanPaymentList(tip) ==
  LET gone == {v.h : v \in {x \in payeeVotes : Old(x.h, tip)}}
  IN  /\ payeeVotes' = {v \in payeeVotes : v.h \notin gone}
      /\ blockPayees' = [h \in Height |-> IF h \in gone THEN NoVotes ELSE blockPayees[h]]
      /\ raced' = raced \cup {h \in gone : \E t \in Thread : ~Idle(t) /\ counting[t].vote.h = h}

\* mnpayments.dat holds the votes and the counts, nothing else.
ReloadPayments(tip) ==
  /\ CleanPaymentList(tip)
  /\ lastVote' = [m \in Masternode |-> Never]
  /\ nLastBlockHeight' = 0
  /\ UNCHANGED <<listed, counting>>

\* The payees GetPayee can return for a height: those with most votes.
BlockPayee(h) ==
  {p \in Script : /\ blockPayees[h][p] > 0
                  /\ \A q \in Script : blockPayees[h][q] <= blockPayees[h][p]}

PaysAnyVoted(paid, h) ==
  LET required == {p \in Script : blockPayees[h][p] > 0}
  IN  required # {} => required \cap paid # {}

\* IsTransactionValid: with no payee that has enough votes anything goes,
\* otherwise one of those that have must be paid.
PaysWinner(paid, h) ==
  LET required == {p \in Script : blockPayees[h][p] >= SIGNATURES_REQUIRED}
  IN  required # {} => required \cap paid # {}

\* The votes of a height are those counted and those about to be.
VotesFor(h, p) == {v \in payeeVotes : v.h = h /\ v.payee = p}
Uncounted(h, p) == {t \in Thread : /\ ~Idle(t)
                                   /\ counting[t].vote.h = h /\ counting[t].vote.payee = p}
Tallied(h) ==
  \A p \in Script :
    blockPayees[h][p] + Cardinality(Uncounted(h, p)) = Cardinality(VotesFor(h, p))
=============================================================================
