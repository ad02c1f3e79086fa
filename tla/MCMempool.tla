----------------------------- MODULE MCMempool -----------------------------
(* g is the first coinbase, with two mature outputs.  t1 and x both spend g's first
   output, t2 spends t1, s spends the coinbase c1, and the coinstake k spends g's second
   output. *)
EXTENDS Mempool, TLC

CONSTANTS g, c1, c2, k, t1, t2, x, s

MCVin == (g :> {}) @@ (c1 :> {}) @@ (c2 :> {}) @@ (k :> {<<g, 1>>}) @@ (t1 :> {<<g, 0>>})
         @@ (t2 :> {<<t1, 0>>}) @@ (x :> {<<g, 0>>}) @@ (s :> {<<c1, 0>>, <<t1, 1>>})
MCVout == [t \in Tx |-> IF t \in {g, t1} THEN {<<t, 0>>, <<t, 1>>} ELSE {<<t, 0>>}]
MCPrev == [o \in UNION {MCVout[t] : t \in Tx} |-> o[1]]
MCGenesis == <<g>>
MCBlock == {<<c>> \o v : c \in {c1, c2, k}, v \in {<<>>, <<t1>>, <<t1, t2>>, <<t2>>, <<x>>, <<s>>}}
=============================================================================
