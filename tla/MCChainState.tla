---------------------------- MODULE MCChainState ----------------------------
(* A genesis block g and a small tree:  g - a1 - a2 - a3,  a1 - c2,  g - b1 - b2. *)
EXTENDS ChainState, TLC

CONSTANTS g, a1, a2, a3, b1, b2, c2

AllBlocks == {g, a1, a2, a3, b1, b2, c2}
MCParent == (a1 :> g) @@ (a2 :> a1) @@ (a3 :> a2) @@ (b1 :> g) @@ (b2 :> b1)
              @@ (c2 :> a1)
TreeParent == [b \in Block \ {g} |-> MCParent[b]]
WalkBack[b \in Block] == IF b = g THEN {g} ELSE WalkBack[MCParent[b]] \cup {b}
TreeWork == [b \in Block |-> Cardinality(WalkBack[b])]

Fork == {g, a1, a2, b1, b2}
LongFork == {g, a1, a2, a3, b1, b2}
OnlyA2 == {a2}
OnlyB2 == {b2}
None == {}
=============================================================================
