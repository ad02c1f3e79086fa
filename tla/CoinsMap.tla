------------------------------ MODULE CoinsMap ------------------------------
(***************************************************************************)
(* What the coins views promise to the chain code: one map from            *)
(* transactions to their unspent outputs, with the block it belongs to.    *)
(* A block is applied to a scratch copy that replaces the map as a whole   *)
(* or not at all, and what a crash leaves is a map with its own block.     *)
(***************************************************************************)
CONSTANTS
  TxId,    \* transaction hashes
  Output,  \* output numbers
  Hash     \* block hashes

VARIABLES
  stored,   \* the map on disk and its block
  current,  \* the map of the active chain and its block
  scratch,  \* the copy a block is applied to
  open      \* whether there is one

vars == <<stored, current, scratch, open>>

Coins == [TxId -> SUBSET Output]
State == [coins : Coins, best : Hash]

Init ==
  /\ stored \in State
  /\ current = stored
  /\ scratch = stored
  /\ open = FALSE

Begin ==
  /\ ~ open
  /\ open' = TRUE
  /\ scratch' = current
  /\ UNCHANGED <<stored, current>>

Change(t, c) ==
  /\ open
  /\ scratch' = [scratch EXCEPT !.coins[t] = c]
  /\ UNCHANGED <<stored, current, open>>

\* The block is applied: its effects become visible together with its hash.
Commit(h) ==
  /\ open
  /\ open' = FALSE
  /\ current' = [scratch EXCEPT !.best = h]
  /\ scratch' = current'
  /\ UNCHANGED stored

\* The block is refused, or was only tried.
Abandon ==
  /\ open
  /\ open' = FALSE
  /\ scratch' = current
  /\ UNCHANGED <<stored, current>>

Persist ==
  /\ ~ open
  /\ stored' = current
  /\ UNCHANGED <<current, scratch, open>>

Crash ==
  /\ open' = FALSE
  /\ current' = stored
  /\ scratch' = stored
  /\ UNCHANGED stored

Next ==
  \/ Begin \/ Abandon \/ Persist \/ Crash
  \/ \E t \in TxId, c \in SUBSET Output : Change(t, c)
  \/ \E h \in Hash : Commit(h)

Spec == Init /\ [][Next]_vars
=============================================================================
