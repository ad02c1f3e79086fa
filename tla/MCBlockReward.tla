---------------------------- MODULE MCBlockReward ----------------------------
(* An instance of BlockReward: the blocks of two heights, a payee or none,   *)
(* two masternodes (m1 is this node's own) whose votes suffice together, a   *)
(* budget that pays at height 4 and matures at height 3, payees and budgets  *)
(* enforced, and messages that turn superblocks on and off and reset the     *)
(* budgets.                                                                  *)
EXTENDS BlockReward

CONSTANTS m1, m2, pa, f1

MCHeight == 0..5
MCMasternode == {m1, m2}
MCPayee == {pa}
MCSelf == {m1}
MCWinner == {[mn |-> m2, h |-> 4, payee |-> pa]}
MCRank == [m \in MCMasternode |-> [h \in MCHeight |-> IF h = 4 THEN 1 ELSE 9]]
MCFinalBudget == {f1}
MCBlockStart == [f \in MCFinalBudget |-> 4]
MCBudgetPayments == [f \in MCFinalBudget |-> <<[payee |-> pa, amount |-> 3]>>]
MCFeeHeight == [f \in MCFinalBudget |-> 2]
MCBudgetVote == {<<f1, m2>>}
MCSporkId == {"payees", "budgets", "superblocks", "reset"}
MCSporkDefault == [i \in MCSporkId |-> i \in {"payees", "budgets"}]
MCSporkMsg == {[id |-> "superblocks", time |-> 1, on |-> TRUE],
               [id |-> "superblocks", time |-> 2, on |-> FALSE],
               [id |-> "reset", time |-> 2, on |-> TRUE]}
=============================================================================
