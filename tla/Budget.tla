------------------------------- MODULE Budget -------------------------------
(* Finalized budgets (src/masternode-budget.cpp): lists of payments for the  *)
(* blocks from a start height on, which masternodes vote for. A budget is    *)
(* taken up once its fee transaction has enough confirmations; votes for a   *)
(* budget that is not known yet wait in a map with one place per budget. The *)
(* proposals budgets are made of are not modelled: whether a budget matches  *)
(* them is left open. A masternode that votes again only renews its vote.    *)
EXTENDS Integers, FiniteSets, Sequences

CONSTANTS
  FinalBudget,         \* finalized budgets
  BlockStart,          \* the first height each one pays at
  BudgetPayments,      \* its payments, one per block: records of payee and amount
  FeeHeight,           \* the height of the block its fee transaction is in
  BudgetVote,          \* the votes other masternodes sign: a budget and a masternode
  FEE_CONFIRMATIONS,   \* BUDGET_FEE_CONFIRMATIONS
  BudgetHistory        \* a budget that started this many blocks ago is not valid (100)

VARIABLES
  finalizedBudgets,    \* mapFinalizedBudgets: the budgets known
  budgetVotes,         \* mapVotes of each: the masternodes that voted for it
  seenBudgets,         \* mapSeenFinalizedBudgets
  seenBudgetVotes,     \* mapSeenFinalizedBudgetVotes
  orphanVotes,         \* mapOrphanFinalizedBudgetVotes: at most one vote a budget
  immatureBudgets,     \* vecImmatureFinalizedBudgets
  autoChecked          \* the budgets this node has decided about

budgetVars == <<finalizedBudgets, budgetVotes, seenBudgets, seenBudgetVotes,
                orphanVotes, immatureBudgets, autoChecked>>

BudgetTypeOK(voters) ==
  /\ finalizedBudgets \subseteq FinalBudget
  /\ budgetVotes \in [FinalBudget -> SUBSET voters]
  /\ seenBudgets \subseteq FinalBudget
  /\ seenBudgetVotes \subseteq FinalBudget \X voters
  /\ orphanVotes \in [FinalBudget -> SUBSET voters]
  /\ immatureBudgets \subseteq FinalBudget
  /\ autoChecked \subseteq FinalBudget

BudgetInit ==
  /\ finalizedBudgets = {}
  /\ budgetVotes = [f \in FinalBudget |-> {}]
  /\ seenBudgets = {}
  /\ seenBudgetVotes = {}
  /\ orphanVotes = [f \in FinalBudget |-> {}]
  /\ immatureBudgets = {}
  /\ autoChecked = {}

BlockEnd(f) == BlockStart[f] + Len(BudgetPayments[f]) - 1
PaysAt(f, h) == BlockStart[f] <= h /\ h <= BlockEnd(f)
PaymentAt(f, h) == BudgetPayments[f][h - BlockStart[f] + 1]
VoteCount(f) == Cardinality(budgetVotes[f])

Confirmations(f, tip) == tip - FeeHeight[f] + 1
CollateralValid(f, tip) == Confirmations(f, tip) >= FEE_CONFIRMATIONS
BudgetIsValid(f, tip) == CollateralValid(f, tip) /\ BlockStart[f] >= tip - BudgetHistory

\* What becomes of the votes when the budgets in known are: the orphan votes
\* of known budgets are counted and leave the map.
WithOrphans(known) == [f \in FinalBudget |->
                         IF f \in known THEN budgetVotes[f] \cup orphanVotes[f] ELSE budgetVotes[f]]
OrphansLeft(known) == [f \in FinalBudget |-> IF f \in known THEN {} ELSE orphanVotes[f]]

\* "fbs": kept for later while there are too few confirmations; otherwise seen,
\* and taken up if it is valid.
ReceiveBudget(f, tip) ==
  /\ f \notin seenBudgets
  /\ \/ /\ ~CollateralValid(f, tip)
        /\ Confirmations(f, tip) >= 1
        /\ immatureBudgets' = immatureBudgets \cup {f}
        /\ UNCHANGED <<finalizedBudgets, budgetVotes, seenBudgets, orphanVotes>>
     \/ /\ CollateralValid(f, tip)
        /\ seenBudgets' = seenBudgets \cup {f}
        /\ IF BudgetIsValid(f, tip)
             THEN /\ finalizedBudgets' = finalizedBudgets \cup {f}
                  /\ budgetVotes' = WithOrphans(finalizedBudgets')
                  /\ orphanVotes' = OrphansLeft(finalizedBudgets')
             ELSE UNCHANGED <<finalizedBudgets, budgetVotes, orphanVotes>>
        /\ UNCHANGED immatureBudgets
  /\ UNCHANGED <<seenBudgetVotes, autoChecked>>

\* "fbvote" of a masternode the list knows, under its key or an old one. While
\* the node is not synced a vote for an unknown budget is dropped, afterwards
\* it takes the place of the one that waited.
ReceiveBudgetVote(f, m, key, synced) ==
  /\ <<f, m>> \notin seenBudgetVotes
  /\ key # "unknown"
  /\ seenBudgetVotes' = seenBudgetVotes \cup {<<f, m>>}
  /\ budgetVotes' = IF key = "known" /\ f \in finalizedBudgets
                      THEN [budgetVotes EXCEPT ![f] = @ \cup {m}] ELSE budgetVotes
  /\ orphanVotes' = IF key = "known" /\ f \notin finalizedBudgets /\ synced
                      THEN [orphanVotes EXCEPT ![f] = {m}] ELSE orphanVotes
  /\ UNCHANGED <<finalizedBudgets, seenBudgets, immatureBudgets, autoChecked>>

\* At one block in a number of them: perhaps forget what was seen (ClearSeen, in a
\* synced node only), perhaps vote for budgets that match (AutoCheck), take up those that matured.
NewBlock(tip, self, synced) ==
  LET mature == {f \in immatureBudgets : CollateralValid(f, tip)}
      known  == finalizedBudgets \cup {f \in mature : BudgetIsValid(f, tip)}
  IN  \E checked \in SUBSET {f \in finalizedBudgets \ autoChecked : BudgetIsValid(f, tip)},
         forget \in {FALSE, synced} :
       \E voted \in SUBSET checked :
        /\ self = {} => checked = {}
        /\ autoChecked' = autoChecked \cup checked
        /\ budgetVotes' = [f \in FinalBudget |->
                             IF f \in voted THEN budgetVotes[f] \cup self ELSE budgetVotes[f]]
        /\ seenBudgets' = IF forget THEN {} ELSE seenBudgets
        /\ seenBudgetVotes' = (IF forget THEN {} ELSE seenBudgetVotes) \cup (voted \X self)
        /\ finalizedBudgets' = known
        /\ immatureBudgets' = immatureBudgets \ mature
        /\ UNCHANGED orphanVotes

ClearBudget ==
  /\ finalizedBudgets' = {}
  /\ budgetVotes' = [f \in FinalBudget |-> {}]
  /\ seenBudgets' = {}
  /\ seenBudgetVotes' = {}
  /\ orphanVotes' = [f \in FinalBudget |-> {}]
  /\ autoChecked' = {}
  /\ UNCHANGED immatureBudgets

\* budget.dat holds the budgets, the votes, the orphan votes and what was seen, which is
\* forgotten next; the copies made while it is read forget that they were decided about.
ClearSeen == seenBudgets' = {} /\ seenBudgetVotes' = {}
ReloadBudget ==
  /\ immatureBudgets' = {}
  /\ autoChecked' = {}
  /\ UNCHANGED <<finalizedBudgets, budgetVotes, orphanVotes>>

\* The most votes a known budget has that pays at height h, -1 for none.
HighestCount(h) ==
  LET counts == {VoteCount(f) : f \in {b \in finalizedBudgets : PaysAt(b, h)}}
  IN  IF counts = {} THEN -1 ELSE CHOOSE c \in counts : \A d \in counts : d <= c

IsBudgetPaymentBlock(h, enabled) == HighestCount(h) > enabled \div 20

\* The budgets FillBlockPayee can take the payment of a block from.
HighestBudgets(h) ==
  {f \in finalizedBudgets : PaysAt(f, h) /\ VoteCount(f) > 0 /\ VoteCount(f) = HighestCount(h)}

PaysHighestOnly(payments, h, enabled) ==
  /\ HighestCount(h) >= enabled \div 20
  /\ \E f \in finalizedBudgets :
       /\ VoteCount(f) > HighestCount(h)
       /\ PaysAt(f, h)
       /\ PaymentAt(f, h) \in payments

\* IsTransactionValid: a budget within a tenth of the masternodes of the
\* highest must be paid; with less than ten masternodes none is.
PaysBudget(payments, h, enabled) ==
  /\ HighestCount(h) >= enabled \div 20
  /\ \E f \in finalizedBudgets :
       /\ VoteCount(f) > HighestCount(h) - enabled \div 10
       /\ PaysAt(f, h)
       /\ PaymentAt(f, h) \in payments

=============================================================================
