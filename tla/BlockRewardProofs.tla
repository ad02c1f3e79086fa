-------------------------- MODULE BlockRewardProofs --------------------------
(* Theorems about BlockReward, for any masternodes, votes, budgets, sporks   *)
(* and amounts that satisfy the assumptions.                                 *)
EXTENDS BlockReward, FiniteSetTheorems, WellFoundedInduction, TLAPS

-----------------------------------------------------------------------------
\* A set of numbers with an upper bound has a greatest one.
LEMMA GreatestExists ==
  ASSUME NEW S \in SUBSET Nat, S # {}, NEW n \in Nat, \A s \in S : s <= n
  PROVE  \E c \in S : \A d \in S : d <= c
<1> DEFINE T == {k \in 0..n : n - k \in S}
<1>1. T \subseteq Nat /\ T # {}
  <2>1. PICK s \in S : TRUE
    OBVIOUS
  <2>2. n - s \in 0..n /\ n - (n - s) = s
    BY <2>1
  <2>3. n - s \in T
    BY <2>1, <2>2
  <2> QED BY <2>3
<1>2. PICK x \in T : \A y \in T : ~ (<<y, x>> \in OpToRel(<, Nat))
  <2> HIDE DEF T
  <2> QED BY <1>1, NatLessThanWellFounded, WFMin
<1>3. \A y \in T : ~ (y < x)
  BY <1>1, <1>2 DEF OpToRel
<1>4. \A d \in S : d <= n - x
  <2> TAKE d \in S
  <2>1. n - d \in 0..n /\ n - (n - d) = d
    OBVIOUS
  <2>2. n - d \in T
    BY <2>1
  <2> QED BY <1>1, <1>3, <2>1, <2>2
<1> QED BY <1>2, <1>4

\* What h is in its cycle when the cycle of length c starts at s.
LEMMA CyclePlace ==
  ASSUME NEW c \in Nat \ {0}, NEW s \in Nat, s % c = 0, NEW h \in Nat,
         s <= h, h - s < c
  PROVE  h % c = h - s
<1>1. s = c * (s \div c) /\ s \div c \in Int
  OBVIOUS
<1>2. h = c * (h \div c) + (h % c) /\ h \div c \in Int /\ h % c \in 0..(c - 1)
  OBVIOUS
<1> DEFINE q == s \div c
           r == h \div c
<1>3. c * r - c * q = (h - s) - (h % c)
  BY <1>1, <1>2
<1>4. c * (r - q) = (h - s) - (h % c)
  BY <1>1, <1>2, <1>3
<1>5. CASE r - q >= 1
  <2>1. c * (r - q) >= c
    BY <1>1, <1>2, <1>5
  <2> QED BY <1>2, <1>4, <2>1
<1>6. CASE r - q <= -1
  <2>1. c * (r - q) <= -c
    BY <1>1, <1>2, <1>6
  <2> QED BY <1>2, <1>4, <2>1
<1>7. CASE r = q
  BY <1>1, <1>2, <1>3, <1>7
<1> QED BY <1>1, <1>2, <1>5, <1>6, <1>7

-----------------------------------------------------------------------------
\* The votes and their counts.

\* Heights that were cleaned up between the storing and the counting of a vote are old.
RacedIsOld == \A h \in raced : Old(h, height)

Counted ==
  /\ payeeVotes \subseteq Vote
  /\ blockPayees \in [Height -> [Script -> Nat]]
  /\ counting \in [Thread -> Stored \cup {NoVote}]
  /\ raced \subseteq Height
  /\ IsFiniteSet(payeeVotes)
  /\ \A h \in Height \ raced : Tallied(h)

LEMMA ThreadFinite == IsFiniteSet(Thread)
<1>1. IsFiniteSet({"handler"})
  BY FS_Singleton
<1>2. IsFiniteSet({"handler"} \cup {"miner"})
  BY <1>1, FS_AddElement
<1>3. Thread = {"handler"} \cup {"miner"}
  BY DEF Thread
<1> QED BY <1>2, <1>3

\* The numbers the tally of a payee compares.
LEMMA TallyNumbers ==
  ASSUME Counted, NEW h \in Height, NEW p \in Script
  PROVE  /\ blockPayees[h][p] \in Nat
         /\ IsFiniteSet(VotesFor(h, p)) /\ Cardinality(VotesFor(h, p)) \in Nat
         /\ IsFiniteSet(Uncounted(h, p)) /\ Cardinality(Uncounted(h, p)) \in Nat
<1>1. blockPayees[h][p] \in Nat
  BY DEF Counted
<1>2. IsFiniteSet(VotesFor(h, p))
  BY FS_Subset DEF Counted, VotesFor
<1>3. IsFiniteSet(Uncounted(h, p))
  BY ThreadFinite, FS_Subset DEF Uncounted
<1> QED BY <1>1, <1>2, <1>3, FS_CardinalityType

\* What the tally does not look at may change.
LEMMA TallyKept ==
  ASSUME Counted, UNCHANGED <<payeeVotes, blockPayees, counting, raced>>
  PROVE  Counted'
BY DEF Counted, Tallied, VotesFor, Uncounted, Idle

\* A vote that is stored is one its thread has yet to count.
LEMMA AddingKeepsCounted ==
  ASSUME Counted, NEW t \in Thread, Idle(t), NEW v \in Vote, NEW last \in Height \cup {Never},
         AddWinningMasternode(t, v, last), UNCHANGED <<blockPayees, raced>>
  PROVE  Counted'
<1>1. CASE v \in payeeVotes
  BY <1>1, TallyKept DEF AddWinningMasternode
<1>2. CASE v \notin payeeVotes
  <2> DEFINE w == [vote |-> v, last |-> last]
  <2>1. /\ payeeVotes' = payeeVotes \cup {v}
        /\ counting' = [counting EXCEPT ![t] = w]
    BY <1>2 DEF AddWinningMasternode
  <2>2. w \in Stored /\ w # NoVote /\ w.vote = v
    BY PaymentAssumption DEF Stored
  <2> HIDE DEF w
  <2>3. payeeVotes' \subseteq Vote /\ IsFiniteSet(payeeVotes')
    BY <2>1, FS_AddElement DEF Counted
  <2>4. counting' \in [Thread -> Stored \cup {NoVote}]
    BY <2>1, <2>2 DEF Counted
  <2>5. \A u \in Thread : counting'[u] = IF u = t THEN w ELSE counting[u]
    BY <2>1 DEF Counted
  <2>6. ASSUME NEW h \in Height \ raced, NEW p \in Script
        PROVE  blockPayees'[h][p] + Cardinality(Uncounted(h, p)') = Cardinality(VotesFor(h, p)')
    <3>1. /\ blockPayees[h][p] + Cardinality(Uncounted(h, p)) = Cardinality(VotesFor(h, p))
          /\ blockPayees'[h][p] = blockPayees[h][p]
      BY DEF Counted, Tallied
    <3>2. CASE v.h = h /\ v.payee = p
      <4>1. VotesFor(h, p)' = VotesFor(h, p) \cup {v} /\ v \notin VotesFor(h, p)
        BY <1>2, <2>1, <3>2 DEF VotesFor
      <4>2. Uncounted(h, p)' = Uncounted(h, p) \cup {t} /\ t \notin Uncounted(h, p)
        BY <2>2, <2>5, <3>2 DEF Uncounted, Idle
      <4>3. Cardinality(VotesFor(h, p)') = Cardinality(VotesFor(h, p)) + 1
        BY <4>1, TallyNumbers, FS_AddElement
      <4>4. Cardinality(Uncounted(h, p)') = Cardinality(Uncounted(h, p)) + 1
        BY <4>2, TallyNumbers, FS_AddElement
      <4> QED BY <3>1, <4>3, <4>4, TallyNumbers
    <3>3. CASE ~ (v.h = h /\ v.payee = p)
      <4>1. VotesFor(h, p)' = VotesFor(h, p)
        BY <2>1, <3>3 DEF VotesFor
      <4>2. Uncounted(h, p)' = Uncounted(h, p)
        BY <2>2, <2>5, <3>3 DEF Uncounted, Idle
      <4> QED BY <3>1, <4>1, <4>2
    <3> QED BY <3>2, <3>3
  <2>7. \A h \in Height \ raced' : Tallied(h)'
    BY <2>6 DEF Tallied
  <2> QED BY <2>3, <2>4, <2>7 DEF Counted
<1> QED BY <1>1, <1>2

\* A vote that is counted raises the count it belongs to and no other.
LEMMA CountingKeepsCounted ==
  ASSUME Counted, NEW t \in Thread, AddPayee(t)
  PROVE  Counted'
<1> DEFINE v == counting[t].vote
<1>1. counting[t] # NoVote /\ counting[t] \in Stored
  BY DEF AddPayee, Idle, Counted
<1>2. v \in Vote /\ v.h \in Height /\ v.payee \in Script
  BY <1>1 DEF Stored, Vote
<1>3. /\ blockPayees' = [blockPayees EXCEPT ![v.h][v.payee] = @ + 1]
      /\ counting' = [counting EXCEPT ![t] = NoVote]
      /\ UNCHANGED <<payeeVotes, raced>>
  BY DEF AddPayee
<1>4. blockPayees' \in [Height -> [Script -> Nat]]
  BY <1>2, <1>3 DEF Counted
<1>5. counting' \in [Thread -> Stored \cup {NoVote}]
  BY <1>3 DEF Counted
<1>6. \A u \in Thread : counting'[u] = IF u = t THEN NoVote ELSE counting[u]
  BY <1>3 DEF Counted
<1>7. ASSUME NEW h \in Height \ raced, NEW p \in Script
      PROVE  blockPayees'[h][p] + Cardinality(Uncounted(h, p)') = Cardinality(VotesFor(h, p)')
  <2>1. blockPayees[h][p] + Cardinality(Uncounted(h, p)) = Cardinality(VotesFor(h, p))
    BY DEF Counted, Tallied
  <2>2. VotesFor(h, p)' = VotesFor(h, p)
    BY <1>3 DEF VotesFor
  <2>3. CASE v.h = h /\ v.payee = p
    <3>1. Uncounted(h, p)' = Uncounted(h, p) \ {t} /\ t \in Uncounted(h, p)
      BY <1>1, <1>6, <2>3 DEF Uncounted, Idle
    <3>2. Cardinality(Uncounted(h, p)') = Cardinality(Uncounted(h, p)) - 1
      BY <3>1, TallyNumbers, FS_RemoveElement
    <3>3. blockPayees'[h][p] = blockPayees[h][p] + 1
      BY <1>2, <1>3, <2>3 DEF Counted
    <3> QED BY <2>1, <2>2, <3>2, <3>3, TallyNumbers
  <2>4. CASE ~ (v.h = h /\ v.payee = p)
    <3>1. Uncounted(h, p)' = Uncounted(h, p)
      BY <1>1, <1>6, <2>4 DEF Uncounted, Idle
    <3>2. blockPayees'[h][p] = blockPayees[h][p]
      BY <1>2, <1>3, <2>4 DEF Counted
    <3> QED BY <2>1, <2>2, <3>1, <3>2
  <2> QED BY <2>3, <2>4
<1>8. \A h \in Height \ raced' : Tallied(h)'
  BY <1>3, <1>7 DEF Tallied
<1> QED BY <1>3, <1>4, <1>5, <1>8 DEF Counted

\* Old votes of a height go all together, and so does the count; a height with a vote
\* that is yet to be counted is noted.
LEMMA CleaningKeepsCounted ==
  ASSUME Counted, NEW tip \in Nat, CleanPaymentList(tip), UNCHANGED counting
  PROVE  Counted'
<1> DEFINE gone == {v.h : v \in {x \in payeeVotes : Old(x.h, tip)}}
<1>1. /\ payeeVotes' = {v \in payeeVotes : v.h \notin gone}
      /\ blockPayees' = [h \in Height |-> IF h \in gone THEN NoVotes ELSE blockPayees[h]]
      /\ raced' = raced \cup {h \in gone : \E t \in Thread : ~Idle(t) /\ counting[t].vote.h = h}
  BY DEF CleanPaymentList
<1>2. gone \subseteq Height
  BY DEF Counted, Vote
<1> HIDE DEF gone
<1>3. payeeVotes' \subseteq Vote /\ IsFiniteSet(payeeVotes')
  BY <1>1, FS_Subset DEF Counted
<1>4. NoVotes \in [Script -> Nat]
  BY DEF NoVotes
<1>5. blockPayees' \in [Height -> [Script -> Nat]]
  BY <1>1, <1>4 DEF Counted
<1>6. raced' \subseteq Height
  BY <1>1, <1>2 DEF Counted
<1>7. ASSUME NEW h \in Height \ raced', NEW p \in Script
      PROVE  blockPayees'[h][p] + Cardinality(Uncounted(h, p)') = Cardinality(VotesFor(h, p)')
  <2>1. Uncounted(h, p)' = Uncounted(h, p) /\ h \notin raced
    BY <1>1 DEF Uncounted, Idle
  <2>2. CASE h \in gone
    <3>1. Uncounted(h, p) = {}
      BY <1>1, <2>2 DEF Uncounted
    <3>2. VotesFor(h, p)' = {}
      BY <1>1, <2>2 DEF VotesFor
    <3>3. blockPayees'[h][p] = 0
      BY <1>1, <2>2 DEF NoVotes
    <3> QED BY <2>1, <3>1, <3>2, <3>3, FS_EmptySet
  <2>3. CASE h \notin gone
    <3>1. VotesFor(h, p)' = VotesFor(h, p)
      BY <1>1, <2>3 DEF VotesFor
    <3>2. blockPayees'[h][p] = blockPayees[h][p]
      BY <1>1, <2>3
    <3> QED BY <2>1, <3>1, <3>2 DEF Counted, Tallied
  <2> QED BY <2>2, <2>3
<1>8. \A h \in Height \ raced' : Tallied(h)'
  BY <1>7 DEF Tallied
<1> QED BY <1>3, <1>5, <1>6, <1>8 DEF Counted

\* No payee has more votes than there are masternodes: each signs a vote for a
\* height and a payee once.
LEMMA VotersOfPayee ==
  ASSUME Counted, NEW h \in Height \ raced, NEW p \in Script
  PROVE  LET voters == {m \in Masternode : [mn |-> m, h |-> h, payee |-> p] \in payeeVotes}
         IN  /\ Cardinality(voters) \in Nat
             /\ blockPayees[h][p] <= Cardinality(voters)
             /\ blockPayees[h][p] <= Cardinality(Masternode)
<1> DEFINE voters == {m \in Masternode : [mn |-> m, h |-> h, payee |-> p] \in payeeVotes}
           f == [m \in voters |-> [mn |-> m, h |-> h, payee |-> p]]
<1>1. IsFiniteSet(voters) /\ Cardinality(voters) <= Cardinality(Masternode)
  BY PaymentAssumption, FS_Subset
<1>a. Cardinality(voters) \in Nat /\ Cardinality(Masternode) \in Nat
  <2> HIDE DEF voters
  <2> QED BY <1>1, PaymentAssumption, FS_CardinalityType
<1>2. f \in [voters -> VotesFor(h, p)]
  BY DEF VotesFor
<1>3. \A m, n \in voters : f[m] = f[n] => m = n
  <2> TAKE m, n \in voters
  <2>1. f[m].mn = m /\ f[n].mn = n
    OBVIOUS
  <2> QED BY <2>1
<1>4. \A w \in VotesFor(h, p) : \E m \in voters : f[m] = w
  <2> TAKE w \in VotesFor(h, p)
  <2>1. w \in payeeVotes /\ w.h = h /\ w.payee = p /\ w \in Vote
    BY DEF VotesFor, Counted
  <2>2. w.mn \in Masternode /\ w = [mn |-> w.mn, h |-> h, payee |-> p]
    BY <2>1 DEF Vote
  <2>3. w.mn \in voters
    BY <2>1, <2>2
  <2> QED BY <2>2, <2>3
<1>5. ExistsBijection(voters, VotesFor(h, p))
  <2> HIDE DEF f, voters
  <2>1. f \in Bijection(voters, VotesFor(h, p))
    BY <1>2, <1>3, <1>4 DEF Bijection, Injection, Surjection, IsInjective
  <2> QED BY <2>1 DEF ExistsBijection
<1>6. Cardinality(VotesFor(h, p)) = Cardinality(voters)
  <2> HIDE DEF voters
  <2> QED BY <1>1, <1>5, FS_Bijection
<1>7. blockPayees[h][p] + Cardinality(Uncounted(h, p)) = Cardinality(voters)
  BY <1>6 DEF Counted, Tallied
<1> HIDE DEF voters
<1>8. blockPayees[h][p] <= Cardinality(voters)
  BY <1>7, TallyNumbers
<1> QED BY <1>1, <1>a, <1>8, TallyNumbers DEF voters

\* The height of the next block is never one of the exceptions.
LEMMA NextIsNotRaced ==
  ASSUME TypeOK, RacedIsOld
  PROVE  height + 1 \notin raced
<1>1. height \in Nat
  BY RewardAssumption DEF TypeOK
<1> QED BY <1>1, PaymentAssumption DEF RacedIsOld, Old

-----------------------------------------------------------------------------
\* The votes on budgets.

LEMMA VoteCountType ==
  ASSUME BudgetTypeOK(Masternode), NEW f \in FinalBudget
  PROVE  VoteCount(f) \in Nat /\ VoteCount(f) <= Cardinality(Masternode)
<1>1. budgetVotes[f] \in SUBSET Masternode
  BY DEF BudgetTypeOK
<1> QED BY <1>1, PaymentAssumption, FS_Subset, FS_CardinalityType DEF VoteCount

\* The highest count is that of a budget, and no other has more votes.
LEMMA HighestCountIsCount ==
  ASSUME BudgetTypeOK(Masternode), NEW h,
         NEW g \in finalizedBudgets, PaysAt(g, h)
  PROVE  /\ HighestCount(h) \in Nat
         /\ \E f \in finalizedBudgets : PaysAt(f, h) /\ VoteCount(f) = HighestCount(h)
         /\ \A f \in finalizedBudgets : PaysAt(f, h) => VoteCount(f) <= HighestCount(h)
<1> DEFINE counts == {VoteCount(f) : f \in {b \in finalizedBudgets : PaysAt(b, h)}}
<1>1. finalizedBudgets \subseteq FinalBudget
  BY DEF BudgetTypeOK
<1>2. counts \in SUBSET Nat /\ counts # {} /\ \A c \in counts : c <= Cardinality(Masternode)
  BY <1>1, VoteCountType
<1>3. Cardinality(Masternode) \in Nat
  BY PaymentAssumption, FS_CardinalityType
<1>4. \E c \in counts : \A d \in counts : d <= c
  <2> HIDE DEF counts
  <2> QED BY <1>2, <1>3, GreatestExists
<1>5. HighestCount(h) = CHOOSE c \in counts : \A d \in counts : d <= c
  BY <1>2 DEF HighestCount
<1>6. HighestCount(h) \in counts /\ \A d \in counts : d <= HighestCount(h)
  <2> HIDE DEF counts
  <2> QED BY <1>4, <1>5
<1> QED BY <1>2, <1>6

\* A superblock has a budget that pays at it.
LEMMA SuperblockHasBudget ==
  ASSUME BudgetTypeOK(Masternode), NEW h, IsBudgetPaymentBlock(h, Enabled)
  PROVE  \E g \in finalizedBudgets : PaysAt(g, h)
<1>1. SUFFICES ASSUME ~ \E g \in finalizedBudgets : PaysAt(g, h)
               PROVE  FALSE
  OBVIOUS
<1>2. {VoteCount(f) : f \in {b \in finalizedBudgets : PaysAt(b, h)}} = {}
  BY <1>1
<1>3. HighestCount(h) = -1
  BY <1>2 DEF HighestCount
<1>4. Enabled \div 20 >= 0
  BY PaymentAssumption
<1> QED BY <1>3, <1>4, PaymentAssumption DEF IsBudgetPaymentBlock

-----------------------------------------------------------------------------
\* Refused blocks.

LEMMA RefusalFollows ==
  ASSUME TypeOK, Counted, RacedIsOld
  PROVE  RefusalRestsOnVotes
<1> SUFFICES ASSUME NEW b \in PeerBlocks, ~ IsBlockPayeeValid(b)
             PROVE  \/ \E f \in finalizedBudgets : PaysAt(f, b.h) /\ VoteCount(f) > Enabled \div 20
                    \/ \E p \in Script \ PaidEnough(b) :
                         Cardinality({m \in Masternode : [mn |-> m, h |-> b.h, payee |-> p] \in payeeVotes})
                           >= SIGNATURES_REQUIRED
  BY DEF RefusalRestsOnVotes
<1>1. b.h = height + 1
  BY DEF PeerBlocks
<1>2. b.h \in Height \ raced
  BY <1>1, RewardAssumption, NextIsNotRaced DEF TypeOK
<1>3. CASE Superblock(b.h)
  <2>1. HighestCount(b.h) > Enabled \div 20
    BY <1>3 DEF Superblock, IsBudgetPaymentBlock
  <2>2. BudgetTypeOK(Masternode)
    BY DEF TypeOK
  <2>3. PICK g \in finalizedBudgets : PaysAt(g, b.h)
    BY <1>3, <2>2, SuperblockHasBudget DEF Superblock
  <2>4. PICK f \in finalizedBudgets : PaysAt(f, b.h) /\ VoteCount(f) = HighestCount(b.h)
    BY <2>2, <2>3, HighestCountIsCount
  <2> QED BY <2>1, <2>4
<1>4. CASE ~ Superblock(b.h)
  <2>1. ~ PaysWinner(PaidEnough(b), b.h)
    BY <1>4 DEF IsBlockPayeeValid
  <2>2. PICK p \in Script : /\ blockPayees[b.h][p] >= SIGNATURES_REQUIRED
                            /\ p \notin PaidEnough(b)
    BY <2>1 DEF PaysWinner
  <2> DEFINE n == Cardinality({m \in Masternode : [mn |-> m, h |-> b.h, payee |-> p] \in payeeVotes})
  <2>3. n \in Nat /\ blockPayees[b.h][p] <= n
    BY <1>2, VotersOfPayee
  <2>4. n >= SIGNATURES_REQUIRED
    <3> HIDE DEF n
    <3> QED BY <1>2, <2>2, <2>3, TallyNumbers, PaymentAssumption
  <2> QED BY <2>2, <2>4
<1> QED BY <1>3, <1>4

-----------------------------------------------------------------------------
\* Created blocks.

LEMMA BlockValueType ==
  ASSUME NEW h \in Height
  PROVE  GetBlockValue(h) \in Nat /\ GetMasternodePayment(GetBlockValue(h)) \in Nat
<1> DEFINE k == 2^(h \div HalvingInterval)
<1>1. k \in Nat \ {0} /\ Subsidy \in Nat /\ MinSubsidy \in Nat /\ Premine \in Nat
  BY HalvingAssumption, RewardAssumption
<1>2. Subsidy \div k \in Nat
  <2> HIDE DEF k
  <2> QED BY <1>1
<1>3. GetBlockValue(h) \in Nat
  BY <1>1, <1>2 DEF GetBlockValue, Halve
<1> QED BY <1>3 DEF GetMasternodePayment

\* A payee that has enough votes is not forgotten by BlockPayee.
LEMMA BlockPayeeExists ==
  ASSUME Counted, NEW h \in Height \ raced, NEW q \in Script, blockPayees[h][q] > 0
  PROVE  BlockPayee(h) # {}
<1> DEFINE counts == {blockPayees[h][p] : p \in Script}
<1>1. \A p \in Script : blockPayees[h][p] \in Nat
  BY DEF Counted
<1>2. Cardinality(Masternode) \in Nat
  BY PaymentAssumption, FS_CardinalityType
<1>3. counts \in SUBSET Nat /\ counts # {} /\ \A c \in counts : c <= Cardinality(Masternode)
  BY <1>1, VotersOfPayee
<1>4. PICK c \in counts : \A d \in counts : d <= c
  <2> HIDE DEF counts
  <2> QED BY <1>2, <1>3, GreatestExists
<1>5. PICK p \in Script : blockPayees[h][p] = c
  BY <1>4
<1>6. \A r \in Script : blockPayees[h][r] <= blockPayees[h][p]
  BY <1>4, <1>5
<1>7. blockPayees[h][p] > 0
  BY <1>1, <1>6
<1> QED BY <1>6, <1>7 DEF BlockPayee

LEMMA SuperblockAccepted ==
  ASSUME TypeOK, Enabled >= 10, height < MaxHeight, Superblock(height + 1),
         NEW b \in BudgetBlocks
  PROVE  Accepts(b)
<1> DEFINE h == height + 1
<1>1. h \in Nat /\ Enabled \in Nat
  BY RewardAssumption, PaymentAssumption DEF TypeOK
<1>2. BudgetTypeOK(Masternode)
  BY DEF TypeOK
<1>3. PICK f \in HighestBudgets(h) :
        /\ b.h = h
        /\ b.payments = {PaymentAt(f, h)}
  BY DEF BudgetBlocks
<1>4. f \in finalizedBudgets /\ f \in FinalBudget /\ PaysAt(f, h) /\ VoteCount(f) = HighestCount(h)
  BY <1>2, <1>3 DEF HighestBudgets, BudgetTypeOK
<1>5. IsBlockValueValid(b)
  <2>1. CASE synced
    BY <1>3, <2>1 DEF IsBlockValueValid
  <2>2. CASE ~ synced
    <3>1. /\ BlockStart[f] \in Nat /\ BlockStart[f] % BudgetCycle = 0
          /\ Len(BudgetPayments[f]) \in 1..BudgetWindow
          /\ BudgetCycle \in Nat \ {0} /\ BudgetWindow \in Nat /\ BudgetWindow <= BudgetCycle
      BY <1>4, RewardAssumption
    <3>2. BlockStart[f] <= h /\ h - BlockStart[f] < BudgetWindow
      BY <1>1, <1>4, <3>1 DEF PaysAt, BlockEnd
    <3>3. h % BudgetCycle = h - BlockStart[f]
      <4> HIDE DEF h
      <4>1. h - BlockStart[f] < BudgetCycle
        BY <1>1, <3>1, <3>2
      <4> QED BY <1>1, <3>1, <3>2, <4>1, CyclePlace
    <3> QED BY <1>3, <2>2, <3>2, <3>3 DEF IsBlockValueValid
  <2> QED BY <2>1, <2>2
<1>6. PaysBudget(b.payments, h, Enabled)
  <2>1. HighestCount(h) \in Nat
    BY <1>2, <1>4, HighestCountIsCount
  <2>2. HighestCount(h) > Enabled \div 20
    BY DEF Superblock, IsBudgetPaymentBlock
  <2>3. Enabled \div 10 >= 1 /\ Enabled \div 10 \in Nat /\ Enabled \div 20 \in Nat
    BY <1>1
  <2>4. VoteCount(f) > HighestCount(h) - Enabled \div 10
    BY <1>4, <2>1, <2>3
  <2> QED BY <1>3, <1>4, <2>1, <2>2, <2>3, <2>4 DEF PaysBudget
<1>7. IsBlockPayeeValid(b)
  BY <1>3, <1>6 DEF IsBlockPayeeValid
<1> QED BY <1>5, <1>7 DEF Accepts

LEMMA PayeeBlockAccepted ==
  ASSUME TypeOK, Counted, RacedIsOld, height < MaxHeight, ~ Superblock(height + 1),
         GetBlockValue(height + 1) = GetBlockValue(height),
         NEW b \in NewBlocks
  PROVE  Accepts(b)
<1> DEFINE h == height + 1
           due == GetMasternodePayment(GetBlockValue(h))
<1>1. h \in Height \ raced /\ height \in Height
  BY RewardAssumption, NextIsNotRaced DEF TypeOK
<1>2. GetBlockValue(h) \in Nat /\ due \in Nat
  BY <1>1, BlockValueType
<1>3. b.h = h /\ b.mint = GetBlockValue(h)
  BY DEF NewBlocks, PayeeBlocks, UnpaidBlock, BlockValue
<1>4. IsBlockValueValid(b)
  BY <1>2, <1>3 DEF IsBlockValueValid
<1>5. PaysWinner(PaidEnough(b), h)
  <2> DEFINE required == {p \in Script : blockPayees[h][p] >= SIGNATURES_REQUIRED}
  <2> SUFFICES ASSUME required # {}
               PROVE  required \cap PaidEnough(b) # {}
    BY DEF PaysWinner
  <2>1. \A p \in Script : blockPayees[h][p] \in Nat
    BY <1>1 DEF Counted
  <2>2. PICK q \in Script : blockPayees[h][q] >= SIGNATURES_REQUIRED
    OBVIOUS
  <2>3. blockPayees[h][q] > 0
    BY <2>1, <2>2, PaymentAssumption
  <2>4. BlockPayee(h) # {}
    BY <1>1, <2>3, BlockPayeeExists
  <2>5. b \in PayeeBlocks(BlockPayee(h))
    BY <2>4 DEF NewBlocks
  <2>6. PICK p \in BlockPayee(h) : b.payments = {[payee |-> p, amount |-> due]}
    BY <2>5 DEF PayeeBlocks, BlockValue
  <2>7. p \in Script /\ blockPayees[h][q] <= blockPayees[h][p]
    BY <2>6 DEF BlockPayee
  <2>8. p \in required
    BY <2>1, <2>2, <2>7, PaymentAssumption
  <2>9. p \in PaidEnough(b)
    <3>1. [payee |-> p, amount |-> due] \in b.payments /\ due >= due
      BY <1>2, <2>6
    <3> QED BY <1>3, <2>7, <3>1 DEF PaidEnough
  <2> QED BY <2>8, <2>9
<1>6. IsBlockPayeeValid(b)
  BY <1>3, <1>5 DEF IsBlockPayeeValid
<1> QED BY <1>4, <1>6 DEF Accepts

LEMMA CreatedFollows ==
  ASSUME TypeOK, Counted, RacedIsOld
  PROVE  CreatedBlockAccepted
<1> SUFFICES ASSUME height < MaxHeight, Enabled >= 10,
                    GetBlockValue(height + 1) = GetBlockValue(height),
                    NEW b \in NewBlocks
             PROVE  Accepts(b)
  BY DEF CreatedBlockAccepted
<1>1. CASE Superblock(height + 1)
  BY <1>1, SuperblockAccepted DEF NewBlocks
<1>2. CASE ~ Superblock(height + 1)
  BY <1>2, PayeeBlockAccepted
<1> QED BY <1>1, <1>2

-----------------------------------------------------------------------------
\* What the steps of the parts preserve.

SporkInv == SporkTypeOK /\ SporkIsNewest
PaymentInv == PaymentTypeOK /\ Counted

LEMMA SporkStep ==
  ASSUME SporkInv, NEW m \in SporkMsg, ProcessSpork(m) \/ UpdateSpork(m)
  PROVE  SporkInv'
<1>1. m.id \in SporkId /\ m.time \in Nat
  BY SporkAssumption
<1>2. /\ mapSporks' = mapSporks \cup {m}
      /\ mapSporksActive' = [mapSporksActive EXCEPT ![m.id] = m]
  BY DEF ProcessSpork, UpdateSpork, StoreSpork
<1>3. SporkTypeOK'
  BY <1>1, <1>2 DEF SporkInv, SporkTypeOK
<1>4. mapSporksActive'[m.id] = m
  BY <1>1, <1>2 DEF SporkInv, SporkTypeOK
<1>5. ASSUME NEW n \in mapSporks'
      PROVE  /\ mapSporksActive'[n.id] \in mapSporks'
             /\ mapSporksActive'[n.id].id = n.id
             /\ mapSporksActive'[n.id].time >= n.time
  <2>1. n \in SporkMsg /\ n.id \in SporkId /\ n.time \in Nat
    BY <1>2, SporkAssumption DEF SporkInv, SporkTypeOK
  <2>2. CASE n.id # m.id
    <3>1. n \in mapSporks
      BY <1>2, <2>2
    <3>2. mapSporksActive'[n.id] = mapSporksActive[n.id]
      BY <1>2, <2>1, <2>2 DEF SporkInv, SporkTypeOK
    <3> QED BY <1>2, <3>1, <3>2 DEF SporkInv, SporkIsNewest
  <2>3. CASE n = m
    BY <1>1, <1>2, <1>4, <2>3
  <2>4. CASE n # m /\ n.id = m.id
    <3>1. n \in mapSporks
      BY <1>2, <2>4
    <3> DEFINE a == mapSporksActive[m.id]
    <3>2. a \in mapSporks /\ a.time >= n.time /\ a # NoSpork /\ a.time \in Nat
      BY <2>4, <3>1, SporkAssumption DEF SporkInv, SporkTypeOK, SporkIsNewest
    <3>3. n.time <= m.time
      <4>1. CASE ProcessSpork(m)
        BY <1>1, <2>1, <3>2, <4>1 DEF ProcessSpork, SporkIsNews
      <4>2. CASE UpdateSpork(m)
        BY <1>1, <2>1, <3>1, <4>2 DEF UpdateSpork
      <4> QED BY <4>1, <4>2
    <3> QED BY <1>1, <1>2, <1>4, <2>1, <2>4, <3>3
  <2> QED BY <2>2, <2>3, <2>4
<1> QED BY <1>3, <1>5 DEF SporkInv, SporkIsNewest

LEMMA SporkStart ==
  ASSUME mapSporks' = {}, mapSporksActive' = [i \in SporkId |-> NoSpork]
  PROVE  SporkInv'
BY DEF SporkInv, SporkTypeOK, SporkIsNewest

LEMMA ReceiveWinnerStep ==
  ASSUME PaymentInv, NEW t \in Thread, Idle(t), NEW v \in Winner, NEW tip \in Nat,
         ReceiveWinner(t, v, tip)
  PROVE  PaymentInv'
<1>1. v \in Vote /\ v.mn \in Masternode /\ v.h \in Height
  BY PaymentAssumption DEF Vote
<1>2. UNCHANGED <<listed, blockPayees, nLastBlockHeight, raced>>
  BY DEF ReceiveWinner
<1>3. Counted'
  <2>1. CASE listed[v.mn] = "known"
    BY <1>1, <1>2, <2>1, AddingKeepsCounted DEF ReceiveWinner, PaymentInv
  <2>2. CASE listed[v.mn] # "known"
    BY <1>2, <2>2, TallyKept DEF ReceiveWinner, PaymentInv
  <2> QED BY <2>1, <2>2
<1>4. lastVote' \in [Masternode -> Height \cup {Never}]
  BY <1>1 DEF ReceiveWinner, PaymentInv, PaymentTypeOK
<1> QED BY <1>2, <1>3, <1>4 DEF PaymentInv, PaymentTypeOK, Counted

LEMMA ListedStep ==
  ASSUME PaymentInv, NEW m \in Masternode, MasternodeListed(m)
  PROVE  PaymentInv'
<1>1. Counted'
  BY TallyKept DEF MasternodeListed, PaymentInv
<1> QED BY <1>1 DEF PaymentInv, PaymentTypeOK, MasternodeListed, Counted

LEMMA ProcessBlockStep ==
  ASSUME PaymentInv, NEW t \in Thread, Idle(t), NEW h \in Height, NEW budgetBlock,
         ProcessBlock(t, h, budgetBlock),
         UNCHANGED <<listed, lastVote, blockPayees, nLastBlockHeight, raced>>
  PROVE  PaymentInv'
<1>1. CASE DoesNotVote
  <2>1. Counted'
    BY <1>1, TallyKept DEF DoesNotVote, PaymentInv
  <2> QED BY <2>1 DEF PaymentInv, PaymentTypeOK, Counted
<1>2. CASE ~ DoesNotVote
  <2>1. PICK m \in Self, p \in Script :
          LET v == IF p = NoPayee THEN [mn |-> m, h |-> 0, payee |-> NoPayee]
                                  ELSE [mn |-> m, h |-> h, payee |-> p]
          IN  AddWinningMasternode(t, v, h)
    BY <1>2 DEF ProcessBlock
  <2> DEFINE v == IF p = NoPayee THEN [mn |-> m, h |-> 0, payee |-> NoPayee]
                                 ELSE [mn |-> m, h |-> h, payee |-> p]
  <2>2. v \in Vote
    BY PaymentAssumption DEF Vote, Script
  <2>3. AddWinningMasternode(t, v, h)
    BY <2>1
  <2>4. Counted'
    <3> HIDE DEF v
    <3> QED BY <2>2, <2>3, AddingKeepsCounted DEF PaymentInv
  <2> QED BY <2>4 DEF PaymentInv, PaymentTypeOK, Counted
<1> QED BY <1>1, <1>2

LEMMA AddPayeeStep ==
  ASSUME PaymentInv, NEW t \in Thread, AddPayee(t)
  PROVE  PaymentInv'
<1>1. Counted'
  BY CountingKeepsCounted DEF PaymentInv
<1>2. nLastBlockHeight' \in Height
  <2>1. counting[t] # NoVote /\ counting[t] \in Stored /\ nLastBlockHeight \in Height
    BY DEF AddPayee, Idle, PaymentInv, PaymentTypeOK
  <2>2. counting[t].last \in Height \cup {Never}
    BY <2>1 DEF Stored
  <2> QED BY <2>1, <2>2 DEF AddPayee
<1>3. UNCHANGED <<listed, lastVote>>
  BY DEF AddPayee
<1> QED BY <1>1, <1>2, <1>3 DEF PaymentInv, PaymentTypeOK, Counted

LEMMA CleanStep ==
  ASSUME PaymentInv, NEW tip \in Nat, CleanPaymentList(tip),
         UNCHANGED <<listed, lastVote, nLastBlockHeight, counting>>
  PROVE  PaymentInv'
<1>1. Counted'
  BY CleaningKeepsCounted DEF PaymentInv
<1> QED BY <1>1 DEF PaymentInv, PaymentTypeOK, Counted

LEMMA ReloadPaymentsStep ==
  ASSUME PaymentInv, NEW tip \in Nat, ReloadPayments(tip)
  PROVE  PaymentInv'
<1>1. Counted'
  BY CleaningKeepsCounted DEF ReloadPayments, PaymentInv
<1> QED BY <1>1, PaymentAssumption DEF ReloadPayments, PaymentInv, PaymentTypeOK, Counted, Never

LEMMA PaymentStart ==
  ASSUME PaymentInit, listed \in [Masternode -> {"oldkey", "known"}]
  PROVE  PaymentInv
<1>1. IsFiniteSet(payeeVotes) /\ payeeVotes = {}
  BY FS_EmptySet DEF PaymentInit
<1>2. NoVotes \in [Script -> Nat] /\ \A p \in Script : NoVotes[p] = 0
  BY DEF NoVotes
<1>3. ASSUME NEW h \in Height, NEW p \in Script
      PROVE  blockPayees[h][p] + Cardinality(Uncounted(h, p)) = Cardinality(VotesFor(h, p))
  <2>1. VotesFor(h, p) = {} /\ Uncounted(h, p) = {}
    BY <1>1 DEF VotesFor, Uncounted, Idle, PaymentInit
  <2>2. blockPayees[h][p] = 0
    BY <1>2 DEF PaymentInit
  <2> QED BY <2>1, <2>2, FS_EmptySet
<1>4. /\ blockPayees \in [Height -> [Script -> Nat]]
      /\ counting \in [Thread -> Stored \cup {NoVote}]
      /\ raced = {}
  BY <1>2 DEF PaymentInit
<1>5. Counted
  BY <1>1, <1>3, <1>4 DEF Counted, Tallied
<1> QED BY <1>1, <1>4, <1>5, PaymentAssumption DEF PaymentInv, PaymentTypeOK, PaymentInit, Never

BudgetOK == BudgetTypeOK(Masternode)

LEMMA ReceiveBudgetStep ==
  ASSUME BudgetOK, NEW f \in FinalBudget, NEW tip, ReceiveBudget(f, tip)
  PROVE  BudgetOK'
<1>1. \A known : /\ WithOrphans(known) \in [FinalBudget -> SUBSET Masternode]
                 /\ OrphansLeft(known) \in [FinalBudget -> SUBSET Masternode]
  BY DEF BudgetOK, BudgetTypeOK, WithOrphans, OrphansLeft
<1> QED BY <1>1 DEF BudgetOK, BudgetTypeOK, ReceiveBudget

LEMMA ReceiveBudgetVoteStep ==
  ASSUME BudgetOK, NEW f \in FinalBudget, NEW m \in Masternode, NEW key, NEW sync,
         ReceiveBudgetVote(f, m, key, sync)
  PROVE  BudgetOK'
<1>1. /\ finalizedBudgets' = finalizedBudgets /\ seenBudgets' = seenBudgets
      /\ immatureBudgets' = immatureBudgets /\ autoChecked' = autoChecked
      /\ seenBudgetVotes' = seenBudgetVotes \cup {<<f, m>>}
  BY DEF ReceiveBudgetVote
<1>2. budgetVotes' \in [FinalBudget -> SUBSET Masternode]
  BY DEF BudgetOK, BudgetTypeOK, ReceiveBudgetVote
<1>3. orphanVotes' \in [FinalBudget -> SUBSET Masternode]
  BY DEF BudgetOK, BudgetTypeOK, ReceiveBudgetVote
<1> QED BY <1>1, <1>2, <1>3 DEF BudgetOK, BudgetTypeOK

LEMMA NewBlockStep ==
  ASSUME BudgetOK, NEW tip, NEW sync \in BOOLEAN, NewBlock(tip, Self, sync)
  PROVE  BudgetOK'
<1> DEFINE mature == {f \in immatureBudgets : CollateralValid(f, tip)}
           known  == finalizedBudgets \cup {f \in mature : BudgetIsValid(f, tip)}
<1>1. PICK checked \in SUBSET {f \in finalizedBudgets \ autoChecked : BudgetIsValid(f, tip)},
           forget \in {FALSE, sync} :
        \E voted \in SUBSET checked :
          /\ autoChecked' = autoChecked \cup checked
          /\ budgetVotes' = [f \in FinalBudget |->
                               IF f \in voted THEN budgetVotes[f] \cup Self ELSE budgetVotes[f]]
          /\ seenBudgets' = IF forget THEN {} ELSE seenBudgets
          /\ seenBudgetVotes' = (IF forget THEN {} ELSE seenBudgetVotes) \cup (voted \X Self)
          /\ finalizedBudgets' = known
          /\ immatureBudgets' = immatureBudgets \ mature
          /\ UNCHANGED orphanVotes
  BY DEF NewBlock
<1>2. PICK voted \in SUBSET checked :
          /\ autoChecked' = autoChecked \cup checked
          /\ budgetVotes' = [f \in FinalBudget |->
                               IF f \in voted THEN budgetVotes[f] \cup Self ELSE budgetVotes[f]]
          /\ seenBudgets' = IF forget THEN {} ELSE seenBudgets
          /\ seenBudgetVotes' = (IF forget THEN {} ELSE seenBudgetVotes) \cup (voted \X Self)
          /\ finalizedBudgets' = known
          /\ immatureBudgets' = immatureBudgets \ mature
          /\ UNCHANGED orphanVotes
  BY <1>1
<1>3. checked \subseteq FinalBudget /\ voted \subseteq FinalBudget /\ Self \subseteq Masternode
  BY PaymentAssumption DEF BudgetOK, BudgetTypeOK
<1>4. budgetVotes' \in [FinalBudget -> SUBSET Masternode]
  BY <1>2, <1>3 DEF BudgetOK, BudgetTypeOK
<1>5. seenBudgetVotes' \subseteq FinalBudget \X Masternode
  BY <1>2, <1>3 DEF BudgetOK, BudgetTypeOK
<1> QED BY <1>2, <1>3, <1>4, <1>5 DEF BudgetOK, BudgetTypeOK

LEMMA OtherBudgetSteps ==
  ASSUME BudgetOK, ClearBudget \/ (ReloadBudget /\ ClearSeen) \/ UNCHANGED budgetVars
  PROVE  BudgetOK'
BY DEF BudgetOK, BudgetTypeOK, ClearBudget, ReloadBudget, ClearSeen, budgetVars

\* What CreateNewBlock makes is a block.
LEMMA CreatedIsBlock ==
  ASSUME TypeOK, height < MaxHeight, NEW b \in NewBlocks
  PROVE  b \in Block
<1>1. height \in Height /\ height + 1 \in Height /\ height + 1 \in Nat
  BY RewardAssumption DEF TypeOK
<1>2. /\ BlockValue \in Nat /\ GetMasternodePayment(BlockValue) \in Nat
      /\ GetBlockValue(height + 1) \in Nat
  BY <1>1, BlockValueType DEF BlockValue
<1>3. CASE b \in BudgetBlocks
  <2>1. PICK f \in HighestBudgets(height + 1) :
          b = [h |-> height + 1, payments |-> {PaymentAt(f, height + 1)},
               mint |-> BlockValue + PaymentAt(f, height + 1).amount]
    BY <1>3 DEF BudgetBlocks
  <2>2. f \in FinalBudget /\ PaysAt(f, height + 1)
    BY DEF HighestBudgets, TypeOK, BudgetTypeOK
  <2>3. PaymentAt(f, height + 1) \in [payee : Script, amount : Nat]
    <3> DEFINE R == [payee : Script, amount : Nat]
               s == BudgetPayments[f]
    <3> HIDE DEF R
    <3>1. BudgetPayments \in [FinalBudget -> Seq(R)]
      BY RewardAssumption DEF R
    <3>2. s \in Seq(R) /\ BlockStart[f] \in Nat
      BY <2>2, <3>1, RewardAssumption
    <3>3. Len(s) \in Nat /\ \A i \in 1..Len(s) : s[i] \in R
      <4> HIDE DEF s
      <4> QED BY <3>2
    <3> DEFINE n == Len(s)
               start == BlockStart[f]
               i == (height + 1) - start + 1
    <3>4. start <= height + 1 /\ height + 1 <= start + n - 1
      BY <2>2 DEF PaysAt, BlockEnd
    <3>5. i \in 1..n
      <4>1. n \in Nat /\ start \in Nat
        BY <3>2, <3>3
      <4> HIDE DEF n, start
      <4> QED BY <1>1, <3>4, <4>1
    <3>6. s[i] \in R
      <4> HIDE DEF i, s
      <4> QED BY <3>3, <3>5
    <3>7. PaymentAt(f, height + 1) = s[i]
      BY DEF PaymentAt
    <3> QED BY <3>6, <3>7 DEF R
  <2> QED BY <1>1, <1>2, <2>1, <2>3 DEF Block
<1>4. ASSUME NEW payees \in SUBSET Script, b \in PayeeBlocks(payees)
      PROVE  b \in Block
  BY <1>1, <1>2, <1>4 DEF PayeeBlocks, Block
<1>5. CASE b = UnpaidBlock
  BY <1>1, <1>2, <1>5 DEF UnpaidBlock, Block
<1>6. BlockPayee(height + 1) \subseteq Script /\ Payee \subseteq Script
  BY DEF BlockPayee, Script
<1> QED BY <1>3, <1>4, <1>5, <1>6 DEF NewBlocks

-----------------------------------------------------------------------------
\* The invariant.

RewardInv == TypeOK /\ SporkIsNewest /\ Counted

NodeOK ==
  /\ height \in InitHeight..MaxHeight
  /\ stage \in 0..3
  /\ restarts \in 0..MaxRestarts
  /\ pblock = NoBlock \/ pblock \in Block

LEMMA RewardInvParts == RewardInv <=> NodeOK /\ SporkInv /\ PaymentInv /\ BudgetOK
BY DEF RewardInv, TypeOK, NodeOK, SporkInv, PaymentInv, BudgetOK

LEMMA RewardInvPartsNext == RewardInv' <=> NodeOK' /\ SporkInv' /\ PaymentInv' /\ BudgetOK'
BY DEF RewardInv, TypeOK, NodeOK, SporkInv, PaymentInv, BudgetOK

LEMMA SporksKept == SporkInv /\ UNCHANGED sporkVars => SporkInv'
BY DEF SporkInv, sporkVars, SporkTypeOK, SporkIsNewest

LEMMA PaymentsKept == PaymentInv /\ UNCHANGED paymentVars => PaymentInv'
<1> SUFFICES ASSUME PaymentInv, UNCHANGED paymentVars PROVE PaymentInv'
  OBVIOUS
<1>1. Counted'
  BY TallyKept DEF PaymentInv, paymentVars
<1> QED BY <1>1 DEF PaymentInv, paymentVars, PaymentTypeOK, Counted

LEMMA RewardInit ==
  ASSUME Init
  PROVE  RewardInv
<1>1. SporkInv
  BY DEF Init, SporkInit, SporkInv, SporkTypeOK, SporkIsNewest
<1>2. PaymentInv
  BY PaymentStart DEF Init
<1>3. BudgetOK
  BY DEF Init, BudgetInit, BudgetOK, BudgetTypeOK
<1>4. NodeOK
  BY RewardAssumption DEF Init, NodeOK
<1> QED BY <1>1, <1>2, <1>3, <1>4, RewardInvParts

LEMMA BudgetNewBlockKeeps ==
  ASSUME BudgetOK, NEW tip, BudgetNewBlock(tip)
  PROVE  BudgetOK'
<1>1. synced \in BOOLEAN
  BY DEF synced
<1>2. CASE NewBlock(tip, Self, synced)
  BY <1>1, <1>2, NewBlockStep
<1>3. CASE UNCHANGED budgetVars
  BY <1>3, OtherBudgetSteps
<1> QED BY <1>2, <1>3 DEF BudgetNewBlock

\* The node's vote for a block ahead and its look at the budgets.
LEMMA AfterBlockKeeps ==
  ASSUME RewardInv, NEW t \in Thread, NEW tip \in InitHeight..MaxHeight, AfterBlock(t, tip)
  PROVE  SporkInv' /\ PaymentInv' /\ BudgetOK'
<1>1. SporkInv /\ PaymentInv /\ BudgetOK
  BY RewardInvParts
<1>2. tip + OwnVoteAhead \in Height
  BY RewardAssumption
<1>3. SporkInv'
  BY <1>1, SporksKept DEF AfterBlock
<1>4. PaymentInv'
  <2>1. CASE stage > 0
    BY <1>1, <1>2, <2>1, ProcessBlockStep DEF AfterBlock
  <2>2. CASE ~ (stage > 0)
    <3>1. UNCHANGED paymentVars
      BY <2>2 DEF AfterBlock, DoesNotVote, paymentVars
    <3> QED BY <1>1, <3>1, PaymentsKept
  <2> QED BY <2>1, <2>2
<1>5. BudgetOK'
  <2>1. CASE BudgetNewBlock(tip)
    BY <1>1, <2>1, BudgetNewBlockKeeps
  <2>2. CASE UNCHANGED budgetVars
    BY <1>1, <2>2, OtherBudgetSteps
  <2> QED BY <2>1, <2>2 DEF AfterBlock
<1> QED BY <1>3, <1>4, <1>5

LEMMA ConnectKeeps ==
  ASSUME RewardInv, NEW t \in Thread, NEW b, Connect(t, b), pblock' = NoBlock \/ UNCHANGED pblock
  PROVE  RewardInv'
<1>1. height \in Nat /\ MaxHeight \in Nat /\ InitHeight \in Nat
  BY RewardAssumption DEF RewardInv, TypeOK
<1>2. b.h \in InitHeight..MaxHeight /\ height' = b.h
  BY <1>1 DEF Connect, RewardInv, TypeOK
<1>3. AfterBlock(t, b.h)
  BY DEF Connect
<1>4. SporkInv' /\ PaymentInv' /\ BudgetOK'
  BY <1>2, <1>3, AfterBlockKeeps
<1>5. NodeOK'
  BY <1>2, <1>3 DEF AfterBlock, NodeOK, RewardInv, TypeOK
<1> QED BY <1>4, <1>5, RewardInvPartsNext

LEMMA RewardNext ==
  ASSUME RewardInv, [Next]_vars
  PROVE  RewardInv'
<1>0. NodeOK /\ SporkInv /\ PaymentInv /\ BudgetOK
  BY RewardInvParts
<1> USE RewardInvPartsNext
<1>a. height \in Nat /\ "handler" \in Thread /\ "miner" \in Thread
  BY <1>0, RewardAssumption DEF NodeOK, Thread
<1>1. CASE CreateNewBlock
  <2>1. pblock' \in Block
    BY <1>1, CreatedIsBlock DEF CreateNewBlock, RewardInv
  <2>2. NodeOK'
    BY <1>0, <1>1, <2>1 DEF CreateNewBlock, NodeOK
  <2> QED BY <1>0, <1>1, <2>2, SporksKept, PaymentsKept, OtherBudgetSteps DEF CreateNewBlock
<1>2. CASE ProcessBlockFound
  <2>1. CASE Connect("miner", pblock)
    BY <1>2, <1>a, <2>1, ConnectKeeps DEF ProcessBlockFound
  <2>2. CASE Refuse(pblock)
    <3>1. NodeOK'
      BY <1>0, <1>2, <2>2 DEF ProcessBlockFound, Refuse, NodeOK
    <3> QED BY <1>0, <2>2, <3>1, SporksKept, PaymentsKept, OtherBudgetSteps DEF Refuse
  <2> QED BY <1>2, <2>1, <2>2 DEF ProcessBlockFound
<1>3. CASE ReceiveBlock
  BY <1>3, <1>a, ConnectKeeps DEF ReceiveBlock
<1>4. CASE StoreBlock
  <2>1. SporkInv' /\ PaymentInv' /\ BudgetOK'
    BY <1>0, <1>4, <1>a, AfterBlockKeeps DEF StoreBlock, NodeOK
  <2>2. NodeOK'
    BY <1>0, <1>4 DEF StoreBlock, AfterBlock, NodeOK
  <2> QED BY <2>1, <2>2
<1>5. CASE \E v \in Winner : ReceiveMNW(v)
  <2>1. PICK v \in Winner : ReceiveMNW(v)
    BY <1>5
  <2>2. PaymentInv'
    BY <1>0, <1>a, <2>1, ReceiveWinnerStep DEF ReceiveMNW
  <2>3. NodeOK'
    BY <1>0, <2>1 DEF ReceiveMNW, nodeVars, NodeOK
  <2> QED BY <1>0, <2>1, <2>2, <2>3, SporksKept, OtherBudgetSteps DEF ReceiveMNW
<1>6. CASE \E m \in Masternode : ListMasternode(m)
  <2>1. PICK m \in Masternode : ListMasternode(m)
    BY <1>6
  <2>2. PaymentInv'
    BY <1>0, <2>1, ListedStep DEF ListMasternode
  <2>3. NodeOK'
    BY <1>0, <2>1 DEF ListMasternode, nodeVars, NodeOK
  <2> QED BY <1>0, <2>1, <2>2, <2>3, SporksKept, OtherBudgetSteps DEF ListMasternode
<1>7. CASE Clean
  <2>2. PaymentInv'
    BY <1>0, <1>a, <1>7, CleanStep DEF Clean
  <2>3. NodeOK'
    BY <1>0, <1>7 DEF Clean, nodeVars, NodeOK
  <2> QED BY <1>0, <1>7, <2>2, <2>3, SporksKept, OtherBudgetSteps DEF Clean
<1>8. CASE \E f \in FinalBudget : ReceiveFBS(f)
  <2>1. PICK f \in FinalBudget : ReceiveFBS(f)
    BY <1>8
  <2>2. BudgetOK'
    BY <1>0, <2>1, ReceiveBudgetStep DEF ReceiveFBS
  <2>3. NodeOK'
    BY <1>0, <2>1 DEF ReceiveFBS, nodeVars, NodeOK
  <2> QED BY <1>0, <2>1, <2>2, <2>3, SporksKept, PaymentsKept DEF ReceiveFBS
<1>9. CASE \E x \in BudgetVote : ReceiveFBVote(x[1], x[2])
  <2>1. PICK x \in BudgetVote : ReceiveFBVote(x[1], x[2])
    BY <1>9
  <2>2. x[1] \in FinalBudget /\ x[2] \in Masternode
    BY RewardAssumption
  <2>3. BudgetOK'
    BY <1>0, <2>1, <2>2, ReceiveBudgetVoteStep DEF ReceiveFBVote
  <2>4. NodeOK'
    BY <1>0, <2>1 DEF ReceiveFBVote, nodeVars, NodeOK
  <2> QED BY <1>0, <2>1, <2>3, <2>4, SporksKept, PaymentsKept DEF ReceiveFBVote
<1>10. CASE \E m \in SporkMsg : ReceiveSpork(m) \/ SignSpork(m)
  <2>1. PICK m \in SporkMsg : ReceiveSpork(m) \/ SignSpork(m)
    BY <1>10
  <2>2. SporkInv'
    BY <1>0, <2>1, SporkStep DEF ReceiveSpork, SignSpork
  <2>3. BudgetOK'
    BY <1>0, <2>1, OtherBudgetSteps DEF ReceiveSpork, SignSpork
  <2>4. NodeOK'
    BY <1>0, <2>1 DEF ReceiveSpork, SignSpork, nodeVars, NodeOK
  <2> QED BY <1>0, <2>1, <2>2, <2>3, <2>4, PaymentsKept DEF ReceiveSpork, SignSpork
<1>11. CASE SyncStep
  <2>1. NodeOK'
    BY <1>0, <1>11 DEF SyncStep, NodeOK
  <2> QED BY <1>0, <1>11, <2>1, SporksKept, PaymentsKept, OtherBudgetSteps DEF SyncStep
<1>12. CASE Restart
  <2>1. SporkInv'
    BY <1>12, SporkStart DEF Restart
  <2>2. PaymentInv'
    BY <1>0, <1>a, <1>12, ReloadPaymentsStep DEF Restart
  <2>3. BudgetOK'
    BY <1>0, <1>12, OtherBudgetSteps DEF Restart
  <2>4. NodeOK'
    BY <1>0, <1>12, RewardAssumption DEF Restart, NodeOK
  <2> QED BY <2>1, <2>2, <2>3, <2>4
<1>13. CASE \E t \in Thread : CountVote(t)
  <2>1. PICK t \in Thread : CountVote(t)
    BY <1>13
  <2>2. PaymentInv'
    BY <1>0, <2>1, AddPayeeStep DEF CountVote
  <2>3. BudgetOK'
    <3>1. CASE BudgetNewBlock(height)
      BY <1>0, <3>1, BudgetNewBlockKeeps
    <3>2. CASE UNCHANGED budgetVars
      BY <1>0, <3>2, OtherBudgetSteps
    <3> QED BY <2>1, <3>1, <3>2 DEF CountVote
  <2>4. NodeOK'
    BY <1>0, <2>1 DEF CountVote, nodeVars, NodeOK
  <2> QED BY <1>0, <2>1, <2>2, <2>3, <2>4, SporksKept DEF CountVote
<1>14. CASE SyncFails
  <2>1. NodeOK'
    BY <1>0, <1>14, RewardAssumption DEF SyncFails, NodeOK
  <2> QED BY <1>0, <1>14, <2>1, SporksKept, PaymentsKept, OtherBudgetSteps DEF SyncFails
<1>15. CASE UNCHANGED vars
  BY <1>0, <1>15, SporksKept, PaymentsKept, OtherBudgetSteps DEF vars, NodeOK
<1> QED
  BY <1>1, <1>2, <1>3, <1>4, <1>5, <1>6, <1>7, <1>8, <1>9, <1>10, <1>11, <1>12, <1>13,
     <1>14, <1>15
  DEF Next

\* RewardInv is an inductive invariant of the node, of its votes, budgets and sporks and
\* of the block it is making.
THEOREM InvariantHolds == Spec => []RewardInv
<1>1. Init => RewardInv
  BY RewardInit
<1>2. RewardInv /\ [Next]_vars => RewardInv'
  BY RewardNext
<1> QED BY <1>1, <1>2, PTL DEF Spec

-----------------------------------------------------------------------------
\* The state of the node is well typed: heights, stages, votes, budgets, sporks
\* and the block being made, for any constants.
THEOREM TypeCorrect == Spec => []TypeOK
<1>1. RewardInv => TypeOK
  BY DEF RewardInv
<1> QED BY <1>1, InvariantHolds, PTL

\* Each node goes by the newest spork message it received, in whatever order the
\* messages came (ProcessSpork).
THEOREM NewestSporkCounts == Spec => []SporkIsNewest
<1>1. RewardInv => SporkIsNewest
  BY DEF RewardInv
<1> QED BY <1>1, InvariantHolds, PTL

\* A height that CleanPaymentList passes between the two halves of AddWinningMasternode
\* is old, and the chain only grows.
LEMMA RacedNext ==
  ASSUME RewardInv, RacedIsOld, [Next]_vars
  PROVE  RacedIsOld'
<1>1. height \in Nat /\ PaymentLimit \in Nat /\ raced \subseteq Height /\ Height \subseteq Nat
  BY RewardAssumption, PaymentAssumption DEF RewardInv, TypeOK, PaymentTypeOK
<1>2. ASSUME CleanPaymentList(height), height' = height
      PROVE  RacedIsOld'
  <2>1. \A h \in raced' : h \in raced \/ Old(h, height)
    BY <1>2 DEF CleanPaymentList
  <2>2. \A h \in raced' : Old(h, height)
    BY <2>1 DEF RacedIsOld
  <2> QED BY <1>2, <2>2 DEF RacedIsOld, Old
<1>3. ASSUME raced' = raced, height' = height \/ height' = height + 1
      PROVE  RacedIsOld'
  <2> SUFFICES ASSUME NEW h \in raced PROVE height' - h > PaymentLimit
    BY <1>3 DEF RacedIsOld, Old
  <2>1. height - h > PaymentLimit /\ h \in Nat
    BY <1>1 DEF RacedIsOld, Old
  <2> QED BY <1>1, <1>3, <2>1
<1>4. CASE Clean
  BY <1>2, <1>4 DEF Clean, nodeVars
<1>5. CASE Restart
  BY <1>2, <1>5 DEF Restart, ReloadPayments
<1>6. ASSUME NEW t, NEW b, Connect(t, b)
      PROVE  RacedIsOld'
  BY <1>3, <1>6 DEF Connect, AfterBlock
<1>7. CASE ProcessBlockFound \/ ReceiveBlock
  <2>1. CASE Refuse(pblock)
    BY <1>3, <2>1 DEF Refuse, paymentVars
  <2> QED BY <1>6, <1>7, <2>1 DEF ProcessBlockFound, ReceiveBlock
<1>8. CASE StoreBlock
  BY <1>3, <1>8 DEF StoreBlock, AfterBlock
<1>9. CASE CreateNewBlock \/ SyncStep \/ SyncFails
  BY <1>3, <1>9 DEF CreateNewBlock, SyncStep, SyncFails, paymentVars
<1>10. ASSUME NEW v, ReceiveMNW(v)
       PROVE  RacedIsOld'
  BY <1>3, <1>10 DEF ReceiveMNW, ReceiveWinner, nodeVars
<1>11. ASSUME NEW m, ListMasternode(m)
       PROVE  RacedIsOld'
  BY <1>3, <1>11 DEF ListMasternode, MasternodeListed, nodeVars
<1>12. ASSUME NEW f, NEW m, ReceiveFBS(f) \/ ReceiveFBVote(f, m)
       PROVE  RacedIsOld'
  BY <1>3, <1>12 DEF ReceiveFBS, ReceiveFBVote, nodeVars, paymentVars
<1>13. ASSUME NEW m, ReceiveSpork(m) \/ SignSpork(m)
       PROVE  RacedIsOld'
  BY <1>3, <1>13 DEF ReceiveSpork, SignSpork, nodeVars, paymentVars
<1>14. ASSUME NEW t, CountVote(t)
       PROVE  RacedIsOld'
  BY <1>3, <1>14 DEF CountVote, AddPayee, nodeVars
<1>15. CASE UNCHANGED vars
  BY <1>3, <1>15 DEF vars, paymentVars
<1> QED
  BY <1>4, <1>5, <1>7, <1>8, <1>9, <1>10, <1>11, <1>12, <1>13, <1>14, <1>15 DEF Next

\* The heights that CleanPaymentList passed while a vote for them was being counted are
\* too old to matter.
THEOREM RacedHeightsOld == Spec => []RacedIsOld
<1>1. Init => RacedIsOld
  BY DEF Init, PaymentInit, RacedIsOld
<1>2. RewardInv /\ RacedIsOld /\ [Next]_vars => RacedIsOld'
  BY RacedNext
<1> QED BY <1>1, <1>2, InvariantHolds, PTL DEF Spec

\* The count of a payee and the votes that threads are about to count are the stored
\* votes for it (AddWinningMasternode, CleanPaymentList, and over restarts), but for
\* heights too old to matter.
THEOREM TallyCorrect == Spec => []TallyIsVotes
<1>1. RewardInv /\ RacedIsOld => TallyIsVotes
  BY DEF RewardInv, Counted, RacedIsOld, TallyIsVotes
<1> QED BY <1>1, InvariantHolds, RacedHeightsOld, PTL

\* A block is refused for whom it pays only on enough votes (IsBlockPayeeValid).
THEOREM RefusalJustified == Spec => []RefusalRestsOnVotes
<1>1. RewardInv /\ RacedIsOld => RefusalRestsOnVotes
  BY RefusalFollows DEF RewardInv
<1> QED BY <1>1, InvariantHolds, RacedHeightsOld, PTL

\* With ten masternodes or more, and away from a halving, the node accepts every
\* block FillBlockPayee and CreateCoinStake can make it create.
THEOREM AcceptsOwnBlocks == Spec => []CreatedBlockAccepted
<1>1. RewardInv /\ RacedIsOld => CreatedBlockAccepted
  BY CreatedFollows DEF RewardInv
<1> QED BY <1>1, InvariantHolds, RacedHeightsOld, PTL
=============================================================================
