---------------------------- MODULE MCBlockStore ----------------------------
(* A genesis block g, a chain  g - a1 - a2 - a3  and a block b1 beside a1. *)
EXTENDS BlockStore, TLC

CONSTANTS g, a1, a2, a3, b1

MCParent == (a1 :> g) @@ (a2 :> a1) @@ (a3 :> a2) @@ (b1 :> g)
TreeParent == [b \in Block \ {g} |-> MCParent[b]]
WalkBack[b \in Block] == IF b = g THEN {g} ELSE WalkBack[MCParent[b]] \cup {b}

Tree == {g, a1, a2, a3, b1}
Line == {g, a1, a2, a3}
=============================================================================
