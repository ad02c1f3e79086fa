--------------------------- MODULE MempoolProofs ---------------------------
(* Theorems about Mempool, for any transactions, blocks and peers, any        *)
(* maturity and any limit on orphans.                                         *)
EXTENDS Mempool, FiniteSetTheorems, SequenceTheorems, TLAPS

-----------------------------------------------------------------------------
\* Outpoints and sequences.

LEMMA OutpointFacts ==
  ASSUME NEW o \in Outpoint
  PROVE  Prev[o] \in Tx /\ o \in Vout[Prev[o]]
BY MempoolAssumption

LEMMA VinFacts ==
  ASSUME NEW t \in Tx
  PROVE  Vin[t] \subseteq Outpoint
BY MempoolAssumption

LEMMA BlockFacts ==
  ASSUME NEW vtx \in Block
  PROVE  vtx \in Seq(Tx) /\ ToSet(vtx) \subseteq Tx
BY MempoolAssumption DEF ToSet

LEMMA AppendFacts ==
  ASSUME NEW S, NEW c \in Seq(S), NEW e \in S
  PROVE  /\ Append(c, e) \in Seq(S)
         /\ Len(Append(c, e)) = Len(c) + 1
         /\ \A i \in 1 .. Len(c) : Append(c, e)[i] = c[i]
         /\ Append(c, e)[Len(c) + 1] = e
         /\ Last(Append(c, e)) = e
BY DEF Last

LEMMA FrontFacts ==
  ASSUME NEW S, NEW c \in Seq(S), c # <<>>
  PROVE  /\ Front(c) \in Seq(S) /\ Last(c) \in S
         /\ Len(Front(c)) = Len(c) - 1 /\ Len(c) \in Nat \ {0}
         /\ \A i \in 1 .. Len(c) - 1 : Front(c)[i] = c[i]
         /\ Last(c) = c[Len(c)]
<1>1. Len(c) \in Nat \ {0} /\ Len(c) - 1 \in Nat /\ Last(c) = c[Len(c)] /\ Last(c) \in S
  BY DEF Last
<1>2. \A i \in 1 .. Len(c) - 1 : c[i] \in S
  BY <1>1
<1> DEFINE n == Len(c) - 1
<1>3. n \in Int /\ 1 \in Int /\ n \in Nat
  BY <1>1
<1>4. \A i \in 1 .. n : c[i] \in S
  BY <1>2
<1> HIDE DEF n
<1>5. /\ SubSeq(c, 1, n) \in Seq(S)
      /\ Len(SubSeq(c, 1, n)) = IF 1 <= n THEN n - 1 + 1 ELSE 0
      /\ \A i \in 1 .. n - 1 + 1 : SubSeq(c, 1, n)[i] = c[1 + i - 1]
  BY <1>3, <1>4, SubSeqProperties
<1>6. /\ SubSeq(c, 1, n) \in Seq(S) /\ Len(SubSeq(c, 1, n)) = n
      /\ \A i \in 1 .. n : SubSeq(c, 1, n)[i] = c[i]
  BY <1>3, <1>5
<1>7. Front(c) = SubSeq(c, 1, n)
  BY DEF Front, n
<1> QED BY <1>1, <1>6, <1>7 DEF n

LEMMA TailFacts ==
  ASSUME NEW S, NEW s \in Seq(S), s # <<>>
  PROVE  /\ Tail(s) \in Seq(S) /\ Head(s) \in ToSet(s)
         /\ ToSet(s) = ToSet(Tail(s)) \cup {Head(s)}
         /\ (\A i, j \in DOMAIN s : s[i] = s[j] => i = j)
            => /\ \A i, j \in DOMAIN Tail(s) : Tail(s)[i] = Tail(s)[j] => i = j
               /\ Head(s) \notin ToSet(Tail(s))
<1>1. /\ Len(s) \in Nat \ {0} /\ Tail(s) \in Seq(S) /\ Len(Tail(s)) = Len(s) - 1
      /\ \A i \in 1 .. Len(s) - 1 : Tail(s)[i] = s[i + 1]
      /\ DOMAIN s = 1 .. Len(s) /\ DOMAIN Tail(s) = 1 .. Len(s) - 1
      /\ Head(s) = s[1]
  OBVIOUS
<1>2. \A i \in 2 .. Len(s) : i - 1 \in 1 .. Len(s) - 1 /\ s[i] = Tail(s)[i - 1]
  BY <1>1
<1>3. ASSUME NEW i \in DOMAIN s
      PROVE  s[i] \in ToSet(Tail(s)) \cup {Head(s)}
  <2>1. CASE i = 1
    BY <1>1, <2>1
  <2>2. CASE i \in 2 .. Len(s)
    BY <1>1, <1>2, <2>2 DEF ToSet
  <2> QED BY <1>1, <2>1, <2>2
<1>4. ToSet(Tail(s)) \cup {Head(s)} \subseteq ToSet(s)
  BY <1>1 DEF ToSet
<1>5. ASSUME \A i, j \in DOMAIN s : s[i] = s[j] => i = j
      PROVE  /\ \A i, j \in DOMAIN Tail(s) : Tail(s)[i] = Tail(s)[j] => i = j
             /\ Head(s) \notin ToSet(Tail(s))
  BY <1>1, <1>5 DEF ToSet
<1>6. ToSet(s) = {s[i] : i \in DOMAIN s}
  BY DEF ToSet
<1>7. ToSet(s) = ToSet(Tail(s)) \cup {Head(s)}
  BY <1>3, <1>4, <1>6
<1> QED BY <1>1, <1>5, <1>7

-----------------------------------------------------------------------------
\* The chain: a transaction has one height, its inputs are outputs of the chain up to
\* that height, and a block does not repeat a transaction.
ChainInv(c) ==
  /\ \A h, k \in 0 .. Len(c) : ConfirmedAt(c, h) \cap ConfirmedAt(c, k) # {} => h = k
  /\ \A h \in 0 .. Len(c) : \A t \in ConfirmedAt(c, h) : \A o \in Vin[t] :
       \E k \in 0 .. h : Prev[o] \in ConfirmedAt(c, k)
  /\ \A h \in 1 .. Len(c) : \A i, j \in DOMAIN c[h] : c[h][i] = c[h][j] => i = j

LEMMA ConfirmedType ==
  ASSUME NEW c \in Seq(Block)
  PROVE  /\ \A h \in 0 .. Len(c) : ConfirmedAt(c, h) \subseteq Tx
         /\ Confirmed(c) \subseteq Tx
<1>1. ToSet(Genesis) \subseteq Tx
  BY MempoolAssumption DEF ToSet
<1>2. \A h \in 1 .. Len(c) : ToSet(c[h]) \subseteq Tx
  BY BlockFacts
<1>3. \A h \in 0 .. Len(c) : ConfirmedAt(c, h) \subseteq Tx
  BY <1>1, <1>2 DEF ConfirmedAt
<1> QED BY <1>3 DEF Confirmed

LEMMA CreatedIsPrev ==
  ASSUME NEW c \in Seq(Block), NEW o \in Outpoint
  PROVE  o \in Created(c) <=> Prev[o] \in Confirmed(c)
<1>1. \A t \in Tx : o \in Vout[t] <=> Prev[o] = t
  BY MempoolAssumption
<1>2. Confirmed(c) \subseteq Tx
  BY ConfirmedType
<1>3. o \in Created(c) <=> \E t \in Confirmed(c) : o \in Vout[t]
  BY DEF Created
<1> QED BY <1>1, <1>2, <1>3

LEMMA SpentIsSpender ==
  ASSUME NEW c \in Seq(Block), NEW o
  PROVE  o \in Spent(c) <=> \E t \in Confirmed(c) : o \in Vin[t]
BY DEF Spent

LEMMA InputsConfirmed ==
  ASSUME NEW c \in Seq(Block), ChainInv(c), NEW t \in Confirmed(c), NEW o \in Vin[t]
  PROVE  Prev[o] \in Confirmed(c)
<1>1. PICK h \in 0 .. Len(c) : t \in ConfirmedAt(c, h)
  BY DEF Confirmed
<1>2. PICK k \in 0 .. h : Prev[o] \in ConfirmedAt(c, k)
  BY <1>1 DEF ChainInv
<1>3. k \in 0 .. Len(c)
  OBVIOUS
<1> QED BY <1>2, <1>3 DEF Confirmed

LEMMA HeightFacts ==
  ASSUME NEW c \in Seq(Block), ChainInv(c), NEW t, NEW h \in 0 .. Len(c),
         t \in ConfirmedAt(c, h)
  PROVE  HeightOf(c, t) = h
<1>1. /\ HeightOf(c, t) \in 0 .. Len(c)
      /\ t \in ConfirmedAt(c, HeightOf(c, t))
  BY DEF HeightOf
<1>2. ConfirmedAt(c, HeightOf(c, t)) \cap ConfirmedAt(c, h) # {}
  BY <1>1
<1> HIDE DEF HeightOf
<1> QED BY <1>1, <1>2 DEF ChainInv

\* What ConnectBlock has checked.
LEMMA ConnectsFacts ==
  ASSUME NEW c \in Seq(Block), NEW vtx \in Block, Connects(c, vtx)
  PROVE  /\ ToSet(vtx) \cap Confirmed(c) = {}
         /\ \A i, j \in DOMAIN vtx : vtx[i] = vtx[j] => i = j
         /\ \A t \in ToSet(vtx) : \A o \in Vin[t] :
              o \in Coins(c) \/ Prev[o] \in ToSet(vtx)
         /\ \A t, u \in ToSet(vtx) : Vin[t] \cap Vin[u] # {} => t = u
<1>1. vtx \in Seq(Tx) /\ DOMAIN vtx = 1 .. Len(vtx) /\ Len(vtx) \in Nat
  BY BlockFacts
<1> DEFINE before(i) == {vtx[j] : j \in 1 .. i - 1}
<1>2. \A i \in DOMAIN vtx :
        /\ vtx[i] \notin Confirmed(c) \cup before(i)
        /\ Vin[vtx[i]] \cap UNION {Vin[t] : t \in before(i)} = {}
        /\ \A o \in Vin[vtx[i]] : o \in Coins(c) \/ Prev[o] \in before(i)
  BY DEF Connects
<1>3. \A i, j \in DOMAIN vtx : j < i => vtx[j] \in before(i)
  BY <1>1
<1>4. \A i \in DOMAIN vtx : before(i) \subseteq ToSet(vtx)
  BY <1>1 DEF ToSet
<1> HIDE DEF before
<1>5. ASSUME NEW i \in DOMAIN vtx, NEW j \in DOMAIN vtx, j < i
      PROVE  vtx[i] # vtx[j] /\ Vin[vtx[i]] \cap Vin[vtx[j]] = {}
  BY <1>2, <1>3, <1>5
<1>6. \A i, j \in DOMAIN vtx :
        i # j => vtx[i] # vtx[j] /\ Vin[vtx[i]] \cap Vin[vtx[j]] = {}
  BY <1>1, <1>5
<1>7. ToSet(vtx) = {vtx[i] : i \in DOMAIN vtx}
  BY DEF ToSet
<1> QED BY <1>2, <1>4, <1>6, <1>7

\* The chain after a block is connected, and after one is disconnected.
LEMMA ConfirmedAppend ==
  ASSUME NEW c \in Seq(Block), NEW vtx \in Block
  PROVE  /\ \A h \in 0 .. Len(c) : ConfirmedAt(Append(c, vtx), h) = ConfirmedAt(c, h)
         /\ ConfirmedAt(Append(c, vtx), Len(c) + 1) = ToSet(vtx)
         /\ Confirmed(Append(c, vtx)) = Confirmed(c) \cup ToSet(vtx)
<1> DEFINE d == Append(c, vtx)
<1>1. /\ Len(d) = Len(c) + 1 /\ Len(c) \in Nat
      /\ \A i \in 1 .. Len(c) : d[i] = c[i]
      /\ d[Len(c) + 1] = vtx
  BY AppendFacts
<1> HIDE DEF d
<1>2. \A h \in 0 .. Len(c) : ConfirmedAt(d, h) = ConfirmedAt(c, h)
  BY <1>1 DEF ConfirmedAt
<1>3. ConfirmedAt(d, Len(c) + 1) = ToSet(vtx)
  BY <1>1 DEF ConfirmedAt
<1>4. 0 .. Len(d) = (0 .. Len(c)) \cup {Len(c) + 1}
  BY <1>1
<1>5. Confirmed(d) = Confirmed(c) \cup ToSet(vtx)
  BY <1>2, <1>3, <1>4 DEF Confirmed
<1> QED BY <1>2, <1>3, <1>5 DEF d

LEMMA ConfirmedFront ==
  ASSUME NEW c \in Seq(Block), c # <<>>
  PROVE  /\ \A h \in 0 .. Len(c) - 1 : ConfirmedAt(Front(c), h) = ConfirmedAt(c, h)
         /\ ConfirmedAt(c, Len(c)) = ToSet(Last(c))
         /\ Confirmed(c) = Confirmed(Front(c)) \cup ToSet(Last(c))
<1> DEFINE d == Front(c)
<1>1. /\ Len(d) = Len(c) - 1 /\ Len(c) \in Nat \ {0}
      /\ \A i \in 1 .. Len(c) - 1 : d[i] = c[i]
      /\ Last(c) = c[Len(c)]
  BY FrontFacts
<1> HIDE DEF d
<1>2. \A h \in 0 .. Len(c) - 1 : ConfirmedAt(d, h) = ConfirmedAt(c, h)
  BY <1>1 DEF ConfirmedAt
<1>3. ConfirmedAt(c, Len(c)) = ToSet(Last(c))
  BY <1>1 DEF ConfirmedAt
<1>4. 0 .. Len(c) = (0 .. Len(d)) \cup {Len(c)}
  BY <1>1
<1>5. Confirmed(c) = Confirmed(d) \cup ToSet(Last(c))
  BY <1>1, <1>2, <1>3, <1>4 DEF Confirmed
<1> QED BY <1>2, <1>3, <1>5 DEF d

LEMMA ChainAppend ==
  ASSUME NEW c \in Seq(Block), NEW vtx \in Block, ChainInv(c), Connects(c, vtx)
  PROVE  ChainInv(Append(c, vtx))
<1> DEFINE d == Append(c, vtx)
           m == Len(c) + 1
<1>1. /\ Len(d) = m /\ Len(c) \in Nat /\ d[m] = vtx
      /\ \A i \in 1 .. Len(c) : d[i] = c[i]
  BY AppendFacts
<1>2. /\ \A h \in 0 .. Len(c) : ConfirmedAt(d, h) = ConfirmedAt(c, h)
      /\ ConfirmedAt(d, m) = ToSet(vtx)
      /\ Confirmed(d) = Confirmed(c) \cup ToSet(vtx)
  BY ConfirmedAppend
<1>3. /\ ToSet(vtx) \cap Confirmed(c) = {}
      /\ \A i, j \in DOMAIN vtx : vtx[i] = vtx[j] => i = j
      /\ \A t \in ToSet(vtx) : \A o \in Vin[t] : o \in Coins(c) \/ Prev[o] \in ToSet(vtx)
  BY ConnectsFacts
<1>4. \A h \in 0 .. Len(c) : ConfirmedAt(c, h) \subseteq Confirmed(c)
  BY DEF Confirmed
<1> HIDE DEF d
<1>5. ASSUME NEW h \in 0 .. Len(d), NEW k \in 0 .. Len(d),
             ConfirmedAt(d, h) \cap ConfirmedAt(d, k) # {}
      PROVE  h = k
  <2>1. h \in 0 .. Len(c) \/ h = m
    BY <1>1
  <2>2. k \in 0 .. Len(c) \/ k = m
    BY <1>1
  <2> HIDE DEF m
  <2>3. CASE h \in 0 .. Len(c) /\ k \in 0 .. Len(c)
    BY <1>2, <1>5, <2>3 DEF ChainInv
  <2>4. CASE h = m /\ k \in 0 .. Len(c)
    BY <1>2, <1>3, <1>4, <1>5, <2>4
  <2>5. CASE h \in 0 .. Len(c) /\ k = m
    BY <1>2, <1>3, <1>4, <1>5, <2>5
  <2> QED BY <2>1, <2>2, <2>3, <2>4, <2>5
<1>6. ASSUME NEW h \in 0 .. Len(d), NEW t \in ConfirmedAt(d, h), NEW o \in Vin[t]
      PROVE  \E k \in 0 .. h : Prev[o] \in ConfirmedAt(d, k)
  <2>1. CASE h \in 0 .. Len(c)
    <3>1. PICK k \in 0 .. h : Prev[o] \in ConfirmedAt(c, k)
      BY <1>2, <2>1 DEF ChainInv
    <3>2. k \in 0 .. Len(c)
      BY <1>1, <2>1
    <3> QED BY <1>2, <3>1, <3>2
  <2>2. CASE h = m
    <3>1. t \in ToSet(vtx) /\ t \in Tx /\ o \in Outpoint
      BY <1>2, <2>2, BlockFacts, VinFacts
    <3>2. CASE o \in Coins(c)
      <4>1. Prev[o] \in Confirmed(c)
        BY <3>1, <3>2, CreatedIsPrev DEF Coins
      <4>2. PICK k \in 0 .. Len(c) : Prev[o] \in ConfirmedAt(c, k)
        BY <4>1 DEF Confirmed
      <4>3. k \in 0 .. h
        BY <1>1, <2>2
      <4> QED BY <1>2, <4>2, <4>3
    <3>3. CASE Prev[o] \in ToSet(vtx)
      <4>1. m \in 0 .. h
        BY <1>1, <2>2
      <4> QED BY <1>2, <3>3, <4>1
    <3> QED BY <1>3, <3>1, <3>2, <3>3
  <2> QED BY <1>1, <2>1, <2>2
<1>7. ASSUME NEW h \in 1 .. Len(d)
      PROVE  \A i, j \in DOMAIN d[h] : d[h][i] = d[h][j] => i = j
  <2>1. CASE h \in 1 .. Len(c)
    BY <1>1, <2>1 DEF ChainInv
  <2>2. CASE h = m
    BY <1>1, <1>3, <2>2
  <2> QED BY <1>1, <2>1, <2>2
<1>8. ChainInv(d)
  BY <1>5, <1>6, <1>7 DEF ChainInv
<1> QED BY <1>8 DEF d

LEMMA ChainFront ==
  ASSUME NEW c \in Seq(Block), c # <<>>, ChainInv(c)
  PROVE  /\ ChainInv(Front(c))
         /\ \A i, j \in DOMAIN Last(c) : Last(c)[i] = Last(c)[j] => i = j
<1> DEFINE d == Front(c)
<1>1. /\ Len(d) = Len(c) - 1 /\ Len(c) \in Nat \ {0}
      /\ \A i \in 1 .. Len(c) - 1 : d[i] = c[i]
      /\ Last(c) = c[Len(c)]
  BY FrontFacts
<1>2. \A h \in 0 .. Len(c) - 1 : ConfirmedAt(d, h) = ConfirmedAt(c, h)
  BY ConfirmedFront
<1> HIDE DEF d
<1>3. \A h \in 0 .. Len(d) : h \in 0 .. Len(c) /\ ConfirmedAt(d, h) = ConfirmedAt(c, h)
  BY <1>1, <1>2
<1>4. \A h \in 1 .. Len(d) : h \in 1 .. Len(c) /\ d[h] = c[h]
  BY <1>1
<1>5. \A h, k \in 0 .. Len(d) : ConfirmedAt(d, h) \cap ConfirmedAt(d, k) # {} => h = k
  BY <1>3 DEF ChainInv
<1>6. ASSUME NEW h \in 0 .. Len(d), NEW t \in ConfirmedAt(d, h), NEW o \in Vin[t]
      PROVE  \E k \in 0 .. h : Prev[o] \in ConfirmedAt(d, k)
  <2>1. PICK k \in 0 .. h : Prev[o] \in ConfirmedAt(c, k)
    BY <1>3 DEF ChainInv
  <2>2. k \in 0 .. Len(d)
    BY <1>1
  <2> QED BY <1>3, <2>1, <2>2
<1>7. \A h \in 1 .. Len(d) : \A i, j \in DOMAIN d[h] : d[h][i] = d[h][j] => i = j
  BY <1>4 DEF ChainInv
<1>8. ChainInv(d)
  BY <1>5, <1>6, <1>7 DEF ChainInv
<1>9. Len(c) \in 1 .. Len(c)
  BY <1>1
<1>10. \A i, j \in DOMAIN Last(c) : Last(c)[i] = Last(c)[j] => i = j
  BY <1>1, <1>9 DEF ChainInv
<1> QED BY <1>8, <1>10 DEF d

\* What may be spent stays so when the chain grows, unless the block spends it.
LEMMA MatureStays ==
  ASSUME NEW c \in Seq(Block), NEW vtx \in Block, ChainInv(c), Connects(c, vtx),
         NEW o \in Outpoint, Prev[o] \in Confirmed(c), IsMature(c, o)
  PROVE  IsMature(Append(c, vtx), o)
<1> DEFINE d == Append(c, vtx)
<1>1. /\ d \in Seq(Block) /\ Len(d) = Len(c) + 1 /\ Len(c) \in Nat
      /\ ChainInv(d)
  BY AppendFacts, ChainAppend
<1>2. PICK h \in 0 .. Len(c) : Prev[o] \in ConfirmedAt(c, h)
  BY DEF Confirmed
<1>3. Prev[o] \in ConfirmedAt(d, h)
  BY <1>2, ConfirmedAppend
<1> HIDE DEF d
<1>4. h \in 0 .. Len(d)
  BY <1>1
<1>5. HeightOf(c, Prev[o]) = h
  BY <1>2, HeightFacts
<1>6. HeightOf(d, Prev[o]) = h
  BY <1>1, <1>3, <1>4, HeightFacts
<1>7. IsMature(d, o)
  BY <1>1, <1>4, <1>5, <1>6, MempoolAssumption DEF IsMature
<1> QED BY <1>7 DEF d

LEMMA CoinsAppend ==
  ASSUME NEW c \in Seq(Block), NEW vtx \in Block, NEW o \in Outpoint,
         o \in Created(c) \/ Prev[o] \in ToSet(vtx),
         o \notin Spent(c), \A u \in ToSet(vtx) : o \notin Vin[u]
  PROVE  o \in Coins(Append(c, vtx))
<1> DEFINE d == Append(c, vtx)
<1>1. d \in Seq(Block) /\ Confirmed(d) = Confirmed(c) \cup ToSet(vtx)
  BY AppendFacts, ConfirmedAppend
<1> HIDE DEF d
<1>2. o \in Created(d)
  BY <1>1, CreatedIsPrev
<1>3. o \notin Spent(d)
  BY <1>1, SpentIsSpender
<1>4. o \in Coins(d)
  BY <1>2, <1>3 DEF Coins
<1> QED BY <1>4 DEF d

LEMMA CoinsFront ==
  ASSUME NEW c \in Seq(Block), c # <<>>, NEW o \in Outpoint, o \in Coins(c)
  PROVE  o \in Coins(Front(c)) \/ Prev[o] \in ToSet(Last(c))
<1> DEFINE d == Front(c)
<1>1. d \in Seq(Block) /\ Confirmed(c) = Confirmed(d) \cup ToSet(Last(c))
  BY FrontFacts, ConfirmedFront
<1> HIDE DEF d
<1>2. o \notin Spent(d)
  BY <1>1, SpentIsSpender DEF Coins
<1>3. Prev[o] \in Confirmed(c)
  BY CreatedIsPrev DEF Coins
<1>4. Prev[o] \in Confirmed(d) => o \in Coins(d)
  BY <1>1, <1>2, CreatedIsPrev DEF Coins
<1> QED BY <1>1, <1>3, <1>4 DEF d

-----------------------------------------------------------------------------
\* The pool.

\* mapNextTx records exactly the inputs of the pool p, and the size counts it.
PoolGood(p) ==
  /\ p \in Pool
  /\ \A o \in Outpoint, t \in Tx : p.next[o] = t <=> t \in p.tx /\ o \in Vin[t]
  /\ p.total = Cardinality(p.tx)
  /\ p.tx \cap Generated = {}

LEMMA PoolFacts ==
  ASSUME NEW p, PoolGood(p)
  PROVE  /\ p.tx \subseteq Tx /\ IsFiniteSet(p.tx)
         /\ Cardinality(p.tx) \in Nat
         /\ \A t \in p.tx : Vin[t] \subseteq Outpoint
         /\ \A t, u \in p.tx : Vin[t] \cap Vin[u] # {} => t = u
<1>1. p.tx \subseteq Tx
  BY DEF PoolGood, Pool
<1>2. IsFiniteSet(p.tx) /\ Cardinality(p.tx) \in Nat
  BY <1>1, FS_Subset, FS_CardinalityType, MempoolAssumption
<1>3. \A t \in p.tx : Vin[t] \subseteq Outpoint
  BY <1>1, VinFacts
<1>4. \A t, u \in p.tx : Vin[t] \cap Vin[u] # {} => t = u
  BY <1>1, <1>3 DEF PoolGood
<1> QED BY <1>1, <1>2, <1>3, <1>4

LEMMA WithoutGood ==
  ASSUME NEW p, PoolGood(p), NEW S, S \subseteq p.tx
  PROVE  PoolGood(Without(p, S)) /\ Without(p, S).tx = p.tx \ S
<1> DEFINE q == Without(p, S)
<1>1. /\ q.tx = p.tx \ S
      /\ q.next = [o \in Outpoint |-> IF \E t \in S : o \in Vin[t] THEN None ELSE p.next[o]]
      /\ q.total = p.total - Cardinality(S)
      /\ q = [tx |-> q.tx, next |-> q.next, total |-> q.total]
  BY DEF Without
<1> HIDE DEF q
<1>2. p.tx \subseteq Tx /\ p.next \in [Outpoint -> Tx \cup {None}] /\ None \notin Tx
  BY MempoolAssumption DEF PoolGood, Pool
<1>3. /\ IsFiniteSet(p.tx) /\ Cardinality(p.tx) \in Nat
      /\ \A t, u \in p.tx : Vin[t] \cap Vin[u] # {} => t = u
  BY PoolFacts
<1>4. q.total = Cardinality(q.tx) /\ q.total \in Nat
  <2>1. p.tx \cap S = S
    OBVIOUS
  <2>2. /\ IsFiniteSet(p.tx \ S)
        /\ Cardinality(p.tx \ S) = Cardinality(p.tx) - Cardinality(p.tx \cap S)
    BY <1>3, FS_Difference
  <2>3. Cardinality(p.tx \ S) \in Nat
    BY <2>2, FS_CardinalityType
  <2>4. p.total = Cardinality(p.tx)
    BY DEF PoolGood
  <2> QED BY <1>1, <2>1, <2>2, <2>3, <2>4
<1>5. q.next \in [Outpoint -> Tx \cup {None}]
  BY <1>1, <1>2
<1>6. q \in Pool
  BY <1>1, <1>2, <1>4, <1>5 DEF Pool
<1>7. ASSUME NEW o \in Outpoint, NEW t \in Tx
      PROVE  q.next[o] = t <=> t \in q.tx /\ o \in Vin[t]
  <2>1. p.next[o] = t <=> t \in p.tx /\ o \in Vin[t]
    BY DEF PoolGood
  <2>2. CASE \E u \in S : o \in Vin[u]
    BY <1>1, <1>2, <1>3, <2>1, <2>2
  <2>3. CASE ~ \E u \in S : o \in Vin[u]
    BY <1>1, <2>1, <2>3
  <2> QED BY <2>2, <2>3
<1>8. q.tx \cap Generated = {}
  BY <1>1 DEF PoolGood
<1>9. PoolGood(q)
  BY <1>4, <1>6, <1>7, <1>8 DEF PoolGood
<1> QED BY <1>1, <1>9 DEF q

LEMMA AddGood ==
  ASSUME NEW p, PoolGood(p), NEW t \in Tx, t \notin Generated \cup p.tx,
         \A o \in Vin[t] : p.next[o] = None
  PROVE  PoolGood(addUnchecked(p, t)) /\ addUnchecked(p, t).tx = p.tx \cup {t}
<1> DEFINE q == addUnchecked(p, t)
<1>1. /\ q.tx = p.tx \cup {t}
      /\ q.next = [o \in Outpoint |-> IF o \in Vin[t] THEN t ELSE p.next[o]]
      /\ q.total = p.total + 1
      /\ q = [tx |-> q.tx, next |-> q.next, total |-> q.total]
  BY DEF addUnchecked
<1>2. /\ p.tx \subseteq Tx /\ p.next \in [Outpoint -> Tx \cup {None}] /\ None \notin Tx
      /\ Vin[t] \subseteq Outpoint
  BY VinFacts, MempoolAssumption DEF PoolGood, Pool
<1>3. Cardinality(p.tx \cup {t}) = Cardinality(p.tx) + 1 /\ Cardinality(p.tx) \in Nat
  BY PoolFacts, FS_AddElement
<1> HIDE DEF q
<1>4. q.total = Cardinality(q.tx) /\ q.total \in Nat
  BY <1>1, <1>3 DEF PoolGood
<1>5. q \in Pool
  BY <1>1, <1>2, <1>4 DEF Pool
<1>6. ASSUME NEW o \in Outpoint, NEW u \in Tx
      PROVE  q.next[o] = u <=> u \in q.tx /\ o \in Vin[u]
  <2>1. p.next[o] = u <=> u \in p.tx /\ o \in Vin[u]
    BY DEF PoolGood
  <2> QED BY <1>1, <1>2, <2>1
<1>7. q.tx \cap Generated = {}
  BY <1>1 DEF PoolGood
<1>8. PoolGood(q)
  BY <1>4, <1>5, <1>6, <1>7 DEF PoolGood
<1> QED BY <1>1, <1>8 DEF q

LEMMA ChildrenFacts ==
  ASSUME NEW p, PoolGood(p), NEW S, NEW t
  PROVE  t \in Children(p, S) <=> t \in p.tx /\ \E o \in Vin[t] : Prev[o] \in S
BY PoolFacts DEF Children, PoolGood

\* Descent is the least set that holds S and the children of its members.
LEMMA DescentFacts ==
  ASSUME NEW p, NEW S
  PROVE  /\ S \subseteq Descent(p, S)
         /\ Descent(p, S) \subseteq S \cup p.tx
         /\ Children(p, Descent(p, S)) \subseteq Descent(p, S)
         /\ \A D \in SUBSET (S \cup p.tx) :
              S \cup Children(p, D) \subseteq D => Descent(p, S) \subseteq D
<1>1. /\ S \subseteq Descent(p, S)
      /\ Descent(p, S) \subseteq S \cup p.tx
      /\ \A D \in SUBSET (S \cup p.tx) :
           S \cup Children(p, D) \subseteq D => Descent(p, S) \subseteq D
  BY DEF Descent
<1>2. ASSUME NEW t \in Children(p, Descent(p, S))
      PROVE  t \in Descent(p, S)
  <2>1. t \in p.tx /\ \E o \in Outpoint : Prev[o] \in Descent(p, S) /\ p.next[o] = t
    BY DEF Children
  <2>2. ASSUME NEW D \in SUBSET (S \cup p.tx), S \cup Children(p, D) \subseteq D
        PROVE  t \in D
    <3>1. Descent(p, S) \subseteq D
      BY <1>1, <2>2
    <3>2. t \in Children(p, D)
      BY <2>1, <3>1 DEF Children
    <3> QED BY <2>2, <3>2
  <2> QED BY <2>1, <2>2 DEF Descent
<1> QED BY <1>1, <1>2

LEMMA DescentHasOrigin ==
  ASSUME NEW p, NEW S, S \subseteq p.tx, NEW t \in Descent(p, S)
  PROVE  \E a \in S : t \in Descent(p, {a})
<1> DEFINE D == {u \in p.tx : \E a \in S : u \in Descent(p, {a})}
<1>1. \A a \in S : a \in Descent(p, {a})
  BY DescentFacts
<1>2. S \subseteq D
  BY <1>1
<1>3. ASSUME NEW u \in Children(p, D)
      PROVE  u \in D
  <2>1. PICK o \in Outpoint : Prev[o] \in D /\ p.next[o] = u
    BY DEF Children
  <2>2. PICK a \in S : Prev[o] \in Descent(p, {a})
    BY <2>1
  <2>3. u \in p.tx /\ u \in Children(p, Descent(p, {a}))
    BY <2>1, <2>2 DEF Children
  <2>4. u \in Descent(p, {a})
    BY <2>3, DescentFacts
  <2> QED BY <2>3, <2>4
<1>4. D \in SUBSET (S \cup p.tx)
  OBVIOUS
<1> HIDE DEF D
<1>5. Descent(p, S) \subseteq D
  BY <1>2, <1>3, <1>4, DescentFacts
<1> QED BY <1>5 DEF D

\* A part of the pool knows no more descendants.
LEMMA DescentInPart ==
  ASSUME NEW p, NEW q, NEW S, S \subseteq q.tx, q.tx \subseteq p.tx,
         \A D : Children(q, D) \subseteq Children(p, D)
  PROVE  Descent(q, S) \subseteq Descent(p, S)
<1> DEFINE D == Descent(p, S) \cap q.tx
<1>1. S \subseteq Descent(p, S) /\ Children(p, Descent(p, S)) \subseteq Descent(p, S)
  BY DescentFacts
<1>2. Children(q, D) \subseteq Children(q, Descent(p, S)) /\ Children(q, D) \subseteq q.tx
  BY DEF Children
<1>3. S \cup Children(q, D) \subseteq D
  BY <1>1, <1>2
<1>4. D \in SUBSET (S \cup q.tx)
  OBVIOUS
<1> HIDE DEF D
<1>5. Descent(q, S) \subseteq D
  BY <1>3, <1>4, DescentFacts
<1> QED BY <1>5 DEF D

\* Removing a set with its descent: what stays keeps the inputs it has in the pool.
LEMMA RemoveDescent ==
  ASSUME NEW p, PoolGood(p), NEW S, S \subseteq p.tx,
         NEW q, q = Without(p, Descent(p, S))
  PROVE  /\ PoolGood(q) /\ q.tx \subseteq p.tx /\ q.tx \cap S = {}
         /\ \A t \in q.tx : \A o \in Vin[t] : Prev[o] \in p.tx => Prev[o] \in q.tx
         /\ \A t \in p.tx \ q.tx : \E a \in S : t \in Descent(p, {a})
<1>1. Descent(p, S) \subseteq p.tx /\ S \subseteq Descent(p, S)
  BY DescentFacts
<1>2. PoolGood(q) /\ q.tx = p.tx \ Descent(p, S)
  BY <1>1, WithoutGood
<1>3. ASSUME NEW t \in q.tx, NEW o \in Vin[t], Prev[o] \in p.tx
      PROVE  Prev[o] \in q.tx
  <2>1. Prev[o] \in Descent(p, S) => t \in Children(p, Descent(p, S))
    BY <1>2, ChildrenFacts
  <2> QED BY <1>2, <1>3, <2>1, DescentFacts
<1>4. \A t \in p.tx \ q.tx : \E a \in S : t \in Descent(p, {a})
  BY <1>2, DescentHasOrigin
<1> QED BY <1>1, <1>2, <1>3, <1>4

\* Every input of the pool p may be spent by the next block on the chain c.
Ready(p, c) ==
  \A t \in p.tx : \A o \in Vin[t] :
    Prev[o] \in p.tx \/ (o \in Coins(c) /\ IsMature(c, o))

\* In the middle of DisconnectTip: every input of p is there, or an output of a
\* transaction of W that is still to be taken back.
Waits(p, c, W) ==
  \A t \in p.tx : \A o \in Vin[t] :
    Prev[o] \in p.tx \/ o \in Coins(c) \/ Prev[o] \in W

\* AcceptToMemoryPool takes what may be spent now, and nothing of the chain.
LEMMA AcceptsFacts ==
  ASSUME chain \in Seq(Block), ChainInv(chain), PoolGood(pool), PoolNotConfirmed,
         NEW t \in Tx, NEW v, Accepts(pool, t, v) = "yes"
  PROVE  /\ PoolGood(addUnchecked(pool, t))
         /\ addUnchecked(pool, t).tx = pool.tx \cup {t}
         /\ t \notin Confirmed(chain)
         /\ \A o \in Vin[t] : Prev[o] \in pool.tx \/ (o \in Coins(chain) /\ IsMature(chain, o))
<1>1. /\ t \notin Generated \cup pool.tx
      /\ ~ \E o \in Vin[t] : pool.next[o] # None
      /\ ~ \E o \in Vin[t] : Prev[o] \notin pool.tx /\ o \notin Coins(chain)
      /\ ~ \E o \in Vin[t] : Prev[o] \notin pool.tx /\ ~ IsMature(chain, o)
  BY DEF Accepts
<1>2. /\ PoolGood(addUnchecked(pool, t))
      /\ addUnchecked(pool, t).tx = pool.tx \cup {t}
  BY <1>1, AddGood
<1>3. ASSUME t \in Confirmed(chain)
      PROVE  FALSE
  <2>1. PICK o \in Vin[t] : TRUE
    BY <1>1, MempoolAssumption
  <2>2. Prev[o] \in Confirmed(chain)
    BY <1>3, InputsConfirmed
  <2>3. o \in Spent(chain)
    BY <1>3, SpentIsSpender
  <2> QED BY <1>1, <2>2, <2>3 DEF PoolNotConfirmed, Coins
<1> QED BY <1>1, <1>2, <1>3

\* No transaction of the pool p is in the chain c.
Outside(p, c) == p.tx \cap Confirmed(c) = {}

\* What left p for q is in the block, or descends from what conflicts with the block.
LeftForBlock(p, q, vtx) ==
  \A t \in p.tx \ q.tx :
    \/ t \in ToSet(vtx)
    \/ \E a \in p.tx : /\ t \in Descent(p, {a})
                      /\ \E u \in ToSet(vtx) : a # u /\ Vin[a] \cap Vin[u] # {}

\* A connected block: removeForBlock leaves what the next block may still spend, and
\* removes nothing else.
LEMMA RemoveForBlock ==
  ASSUME NEW c \in Seq(Block), NEW vtx \in Block, ChainInv(c), Connects(c, vtx),
         NEW p, PoolGood(p), Outside(p, c), Ready(p, c),
         NEW q, q = removeForBlock(p, vtx)
  PROVE  /\ PoolGood(q) /\ Outside(q, Append(c, vtx)) /\ Ready(q, Append(c, vtx))
         /\ LeftForBlock(p, q, vtx)
<1> DEFINE B == ToSet(vtx)
           r == Without(p, B \cap p.tx)
           C == Conflicts(r, B)
           d == Append(c, vtx)
<1>1. B \subseteq Tx
  BY BlockFacts
<1>2. PoolGood(r) /\ r.tx = p.tx \ B
  BY WithoutGood
<1>3. q = Without(r, Descent(r, C))
  BY DEF removeForBlock
<1>4. Confirmed(d) = Confirmed(c) \cup B
  BY ConfirmedAppend
<1> HIDE DEF B, r, d
<1>5. ASSUME NEW a \in C
      PROVE  a \in r.tx /\ \E u \in B : a # u /\ Vin[a] \cap Vin[u] # {}
  <2>1. PICK u \in B : \E o \in Vin[u] : a = r.next[o] /\ a \notin B \cup {None}
    BY DEF Conflicts
  <2>2. PICK o \in Vin[u] : a = r.next[o] /\ a \notin B \cup {None}
    BY <2>1
  <2>3. u \in Tx /\ o \in Outpoint
    BY <1>1, VinFacts
  <2>4. a \in Tx
    BY <1>2, <2>2, <2>3 DEF PoolGood, Pool
  <2>5. a \in r.tx /\ o \in Vin[a]
    BY <1>2, <2>2, <2>3, <2>4 DEF PoolGood
  <2> QED BY <2>2, <2>5
<1>6. ASSUME NEW t \in r.tx, NEW o \in Vin[t], NEW u \in B, o \in Vin[u]
      PROVE  t \in C
  <2>1. t \in Tx /\ o \in Outpoint /\ t \notin B /\ None \notin Tx
    BY <1>2, PoolFacts, MempoolAssumption
  <2>2. r.next[o] = t
    BY <1>2, <2>1 DEF PoolGood
  <2> QED BY <1>6, <2>1, <2>2 DEF Conflicts
<1> HIDE DEF C
<1>7. /\ PoolGood(q) /\ q.tx \subseteq r.tx /\ q.tx \cap C = {}
      /\ \A t \in q.tx : \A o \in Vin[t] : Prev[o] \in r.tx => Prev[o] \in q.tx
      /\ \A t \in r.tx \ q.tx : \E a \in C : t \in Descent(r, {a})
  <2>1. C \subseteq r.tx
    BY <1>5
  <2>2. PoolGood(r) /\ q = Without(r, Descent(r, C))
    BY <1>2, <1>3
  <2> QED BY ONLY <2>1, <2>2, RemoveDescent
<1>8. Outside(q, d)
  BY <1>2, <1>4, <1>7 DEF Outside
<1>9. ASSUME NEW t \in q.tx, NEW o \in Vin[t], Prev[o] \notin q.tx
      PROVE  o \in Coins(d) /\ IsMature(d, o)
  <2>1. t \in p.tx /\ t \in r.tx /\ o \in Outpoint
    BY <1>2, <1>7, PoolFacts
  <2>2. \A u \in B : o \notin Vin[u]
    BY <1>6, <1>7, <2>1
  <2>3. CASE Prev[o] \in p.tx
    <3>1. Prev[o] \in B
      BY <1>2, <1>7, <1>9, <2>3
    <3>2. o \notin Spent(c)
      BY <2>1, <2>3, SpentIsSpender, InputsConfirmed DEF Outside
    <3>3. o \in Coins(d)
      BY <2>1, <2>2, <3>1, <3>2, CoinsAppend DEF B, d
    <3>4. Prev[o] \notin Generated
      BY <2>3 DEF PoolGood
    <3> QED BY <3>3, <3>4 DEF IsMature
  <2>4. CASE Prev[o] \notin p.tx
    <3>1. o \in Coins(c) /\ IsMature(c, o)
      BY <2>1, <2>4 DEF Ready
    <3>2. o \in Created(c) /\ o \notin Spent(c) /\ Prev[o] \in Confirmed(c)
      BY <2>1, <3>1, CreatedIsPrev DEF Coins
    <3>3. o \in Coins(d)
      BY <2>1, <2>2, <3>2, CoinsAppend DEF B, d
    <3>4. IsMature(d, o)
      BY <2>1, <3>1, <3>2, MatureStays DEF d
    <3> QED BY <3>3, <3>4
  <2> QED BY <2>3, <2>4
<1>10. Ready(q, d)
  BY <1>9 DEF Ready
<1>11. ASSUME NEW t \in p.tx \ q.tx, t \notin B
       PROVE  \E a \in p.tx : /\ t \in Descent(p, {a})
                              /\ \E u \in B : a # u /\ Vin[a] \cap Vin[u] # {}
  <2>1. PICK a \in C : t \in Descent(r, {a})
    BY <1>2, <1>7, <1>11
  <2>2. a \in r.tx /\ \E u \in B : a # u /\ Vin[a] \cap Vin[u] # {}
    BY <1>5
  <2>3. \A D : Children(r, D) \subseteq Children(p, D)
    <3> SUFFICES ASSUME NEW D, NEW x \in Children(r, D) PROVE x \in Children(p, D)
      OBVIOUS
    <3>1. x \in r.tx /\ \E o \in Vin[x] : Prev[o] \in D
      BY <1>2, ChildrenFacts
    <3> QED BY <1>2, <3>1, ChildrenFacts
  <2>4. Descent(r, {a}) \subseteq Descent(p, {a})
    BY <1>2, <2>2, <2>3, DescentInPart
  <2> QED BY <1>2, <2>1, <2>2, <2>4
<1>12. LeftForBlock(p, q, vtx)
  BY <1>11 DEF LeftForBlock, B
<1> QED BY <1>7, <1>8, <1>10, <1>12 DEF d

\* A transaction of a disconnected block is not taken back: what needs it goes.
LEMMA RemoveRefused ==
  ASSUME NEW c, NEW p, PoolGood(p), NEW h, h \notin p.tx, NEW W, Waits(p, c, W \cup {h}),
         NEW q, q = RemoveRecursive(p, h)
  PROVE  /\ PoolGood(q) /\ q.tx \subseteq p.tx /\ Waits(q, c, W)
         /\ \A t \in p.tx \ q.tx :
              \E a \in p.tx : t \in Descent(p, {a}) /\ \E o \in Vin[a] : Prev[o] = h
<1> DEFINE S == Children(p, {h})
<1>1. q = Without(p, Descent(p, S))
  BY DEF RemoveRecursive
<1>2. \A t : t \in S <=> t \in p.tx /\ \E o \in Vin[t] : Prev[o] = h
  BY ChildrenFacts
<1> HIDE DEF S
<1>3. S \subseteq p.tx
  BY <1>2
<1>4. /\ PoolGood(q) /\ q.tx \subseteq p.tx /\ q.tx \cap S = {}
      /\ \A t \in q.tx : \A o \in Vin[t] : Prev[o] \in p.tx => Prev[o] \in q.tx
      /\ \A t \in p.tx \ q.tx : \E a \in S : t \in Descent(p, {a})
  BY <1>1, <1>3, RemoveDescent
<1>5. Waits(q, c, W)
  BY <1>2, <1>4 DEF Waits
<1> QED BY <1>2, <1>4, <1>5

\* The end of DisconnectTip.
LEMMA RemovePremature ==
  ASSUME NEW c, NEW p, PoolGood(p), Waits(p, c, {}),
         NEW q, q = removeCoinbaseSpends(p, c)
  PROVE  /\ PoolGood(q) /\ q.tx \subseteq p.tx /\ Ready(q, c)
         /\ \A t \in p.tx \ q.tx :
              \E a \in p.tx : /\ t \in Descent(p, {a})
                             /\ \E o \in Vin[a] : Prev[o] \in Generated /\ ~ IsMature(c, o)
<1> DEFINE S == Premature(p, c)
<1>1. q = Without(p, Descent(p, S)) /\ S \subseteq p.tx
  BY DEF removeCoinbaseSpends, Premature
<1>2. ASSUME NEW t \in p.tx, NEW o \in Vin[t], Prev[o] \notin p.tx
      PROVE  o \in Coins(c) /\ HaveCoins(c, Prev[o])
  <2>1. o \in Coins(c) /\ o \in Outpoint
    BY <1>2, PoolFacts DEF Waits
  <2> QED BY <2>1, OutpointFacts DEF HaveCoins
<1>3. \A t \in p.tx : t \in S <=> \E o \in Vin[t] : Prev[o] \notin p.tx /\ ~ IsMature(c, o)
  BY <1>2 DEF Premature
<1> HIDE DEF S
<1>4. /\ PoolGood(q) /\ q.tx \subseteq p.tx /\ q.tx \cap S = {}
      /\ \A t \in q.tx : \A o \in Vin[t] : Prev[o] \in p.tx => Prev[o] \in q.tx
      /\ \A t \in p.tx \ q.tx : \E a \in S : t \in Descent(p, {a})
  BY <1>1, RemoveDescent
<1>5. Ready(q, c)
  BY <1>2, <1>3, <1>4 DEF Ready
<1>6. \A o : ~ IsMature(c, o) => Prev[o] \in Generated
  BY DEF IsMature
<1> QED BY <1>1, <1>3, <1>4, <1>5, <1>6

-----------------------------------------------------------------------------
\* The orphans.

Indexed(m) ==
  /\ m.o \in [Tx -> Peer \cup {None}]
  /\ m.b \in [Tx -> SUBSET Tx]
  /\ \A p, t \in Tx : t \in m.b[p] <=> m.o[t] # None /\ \E x \in Vin[t] : Prev[x] = p

OrphanMaps == [o |-> orphan, b |-> byPrev]

LEMMA EraseIndexed ==
  ASSUME NEW m, Indexed(m), NEW S
  PROVE  Indexed(EraseOrphans(m, S)) /\ Orphans(EraseOrphans(m, S)) = Orphans(m) \ S
<1> DEFINE n == EraseOrphans(m, S)
<1>1. /\ n.o = [t \in Tx |-> IF t \in S THEN None ELSE m.o[t]]
      /\ n.b = [p \in Tx |-> m.b[p] \ {t \in S : m.o[t] # None /\ \E x \in Vin[t] : Prev[x] = p}]
  BY DEF EraseOrphans
<1> HIDE DEF n
<1>2. n.o \in [Tx -> Peer \cup {None}] /\ n.b \in [Tx -> SUBSET Tx]
  BY <1>1 DEF Indexed
<1>3. \A p, t \in Tx : t \in n.b[p] <=> n.o[t] # None /\ \E x \in Vin[t] : Prev[x] = p
  BY <1>1 DEF Indexed
<1>4. Orphans(n) = Orphans(m) \ S
  BY <1>1 DEF Orphans
<1> QED BY <1>2, <1>3, <1>4 DEF Indexed, n

LEMMA AddIndexed ==
  ASSUME Indexed(OrphanMaps), NEW t \in Tx, NEW peer \in Peer
  PROVE  Indexed(AddOrphanTx(t, peer))
<1> DEFINE n == AddOrphanTx(t, peer)
<1>1. /\ n.o = [orphan EXCEPT ![t] = peer]
      /\ n.b = [p \in Tx |-> IF \E x \in Vin[t] : Prev[x] = p THEN byPrev[p] \cup {t}
                             ELSE byPrev[p]]
  BY DEF AddOrphanTx
<1>2. /\ orphan \in [Tx -> Peer \cup {None}] /\ byPrev \in [Tx -> SUBSET Tx]
      /\ \A p, u \in Tx : u \in byPrev[p] <=> orphan[u] # None /\ \E x \in Vin[u] : Prev[x] = p
  BY DEF Indexed, OrphanMaps
<1>3. peer # None
  BY MempoolAssumption
<1> HIDE DEF n
<1>4. n.o \in [Tx -> Peer \cup {None}] /\ n.b \in [Tx -> SUBSET Tx]
  BY <1>1, <1>2
<1>5. \A p, u \in Tx : u \in n.b[p] <=> n.o[u] # None /\ \E x \in Vin[u] : Prev[x] = p
  BY <1>1, <1>2, <1>3
<1> QED BY <1>4, <1>5 DEF Indexed, n

\* What LimitOrphanTxSize leaves is no more than the limit.
LEMMA EvictedEnough ==
  ASSUME NEW m, NEW out \in SUBSET Orphans(m),
         Cardinality(out) = IF Cardinality(Orphans(m)) > MaxOrphans
                            THEN Cardinality(Orphans(m)) - MaxOrphans ELSE 0
  PROVE  Cardinality(Orphans(m) \ out) <= MaxOrphans
<1> DEFINE O == Orphans(m)
<1>1. /\ O \subseteq Tx /\ out \subseteq O
      /\ Cardinality(out) = IF Cardinality(O) > MaxOrphans THEN Cardinality(O) - MaxOrphans ELSE 0
  BY DEF Orphans
<1> HIDE DEF O
<1>2. IsFiniteSet(O) /\ Cardinality(O) \in Nat /\ MaxOrphans \in Nat
  BY <1>1, FS_Subset, FS_CardinalityType, MempoolAssumption
<1>3. O \cap out = out
  BY <1>1
<1>4. Cardinality(O \ out) = Cardinality(O) - Cardinality(O \cap out)
  BY <1>2, FS_Difference
<1>5. Cardinality(O \ out) = Cardinality(O) - Cardinality(out)
  BY <1>3, <1>4
<1>6. Cardinality(O \ out) <= MaxOrphans
  BY <1>1, <1>2, <1>5
<1> QED BY <1>6 DEF O

-----------------------------------------------------------------------------
\* The inductive invariant.

\* The loop over the orphans never meets one that is gone.
TodoAreOrphans == pc = "orphans" => \A t \in todo : orphan[t] # None

OrphanInv ==
  /\ Indexed(OrphanMaps)
  /\ Cardinality(Orphans(OrphanMaps)) <= MaxOrphans
  /\ TodoAreOrphans

\* The transactions that DisconnectTip has still to take back are not in the pool.
WorkIsNew ==
  /\ ToSet(work) \cap pool.tx = {}
  /\ \A i, j \in DOMAIN work : work[i] = work[j] => i = j

PoolInv ==
  /\ ChainInv(chain)
  /\ PoolGood(pool)
  /\ PoolNotConfirmed
  /\ pc # "resurrect" => Ready(pool, chain)
  /\ pc = "resurrect" => Waits(pool, chain, ToSet(work)) /\ WorkIsNew

MempoolInv == TypeOK /\ OrphanInv /\ PoolInv

LEMMA OrphansStay ==
  ASSUME OrphanInv, UNCHANGED <<orphan, byPrev>>,
         pc' # "orphans" \/ (pc = "orphans" /\ todo' \subseteq todo)
  PROVE  OrphanInv'
BY DEF OrphanInv, Indexed, OrphanMaps, Orphans, TodoAreOrphans

LEMMA OrphansErased ==
  ASSUME OrphanInv, NEW S, Set(EraseOrphans(OrphanMaps, S)), pc' # "orphans"
  PROVE  OrphanInv'
<1> DEFINE n == EraseOrphans(OrphanMaps, S)
<1>1. Indexed(n) /\ Orphans(n) = Orphans(OrphanMaps) \ S
  BY EraseIndexed DEF OrphanInv
<1>2. n = [o |-> n.o, b |-> n.b]
  BY DEF EraseOrphans
<1>3. n = OrphanMaps'
  BY <1>2 DEF Set, OrphanMaps
<1>4. IsFiniteSet(Orphans(OrphanMaps))
  BY FS_Subset, MempoolAssumption DEF Orphans
<1>5. Cardinality(Orphans(n)) <= Cardinality(Orphans(OrphanMaps))
  BY <1>1, <1>4, FS_Subset
<1>6. /\ Cardinality(Orphans(n)) \in Nat /\ Cardinality(Orphans(OrphanMaps)) \in Nat
      /\ MaxOrphans \in Nat
  BY <1>1, <1>4, FS_Subset, FS_CardinalityType, MempoolAssumption
<1> HIDE DEF n
<1>7. Cardinality(Orphans(n)) <= MaxOrphans
  BY <1>5, <1>6 DEF OrphanInv
<1> QED BY <1>1, <1>3, <1>7 DEF OrphanInv, TodoAreOrphans

LEMMA OrphanTypes ==
  ASSUME OrphanInv'
  PROVE  orphan' \in [Tx -> Peer \cup {None}] /\ byPrev' \in [Tx -> SUBSET Tx]
BY DEF OrphanInv, Indexed, OrphanMaps

\* The pool takes a transaction, outside of DisconnectTip.
LEMMA PoolAdds ==
  ASSUME TypeOK, PoolInv, pc # "resurrect", pc' # "resurrect", chain' = chain,
         NEW t \in Tx, NEW v, Accepts(pool, t, v) = "yes", pool' = addUnchecked(pool, t)
  PROVE  PoolInv' /\ pool' \in Pool /\ pool.tx \subseteq pool'.tx
<1>1. chain \in Seq(Block)
  BY DEF TypeOK
<1>2. /\ PoolGood(pool') /\ pool'.tx = pool.tx \cup {t} /\ t \notin Confirmed(chain)
      /\ \A o \in Vin[t] : Prev[o] \in pool.tx \/ (o \in Coins(chain) /\ IsMature(chain, o))
  BY <1>1, AcceptsFacts DEF PoolInv
<1>3. Ready(pool', chain')
  BY <1>2 DEF PoolInv, Ready
<1> QED BY <1>2, <1>3 DEF PoolInv, PoolNotConfirmed, PoolGood

LEMMA PoolStays ==
  ASSUME PoolInv, pc # "resurrect", pc' # "resurrect", UNCHANGED <<chain, pool>>
  PROVE  PoolInv'
BY DEF PoolInv, PoolNotConfirmed

-----------------------------------------------------------------------------
\* The actions.

LEMMA ReceiveKeeps ==
  ASSUME MempoolInv, NEW t \in Tx, NEW v \in Verdict, ReceiveTx(t, v) \/ SubmitTx(t, v)
  PROVE  MempoolInv' /\ pool.tx \subseteq pool'.tx
<1> USE DEF MempoolInv
<1>1. /\ pc = "idle" /\ Accepts(pool, t, v) = "yes" /\ pool' = addUnchecked(pool, t)
      /\ UNCHANGED <<chain, orphan, byPrev, erase, misb>>
  BY DEF ReceiveTx, SubmitTx, loop
<1>2. CASE pc' = "orphans" /\ work' = <<t>> /\ todo' = byPrev[t]
  <2>1. PoolInv' /\ pool' \in Pool /\ pool.tx \subseteq pool'.tx
    BY <1>1, <1>2, PoolAdds
  <2>2. byPrev[t] \subseteq Tx /\ \A u \in byPrev[t] : orphan[u] # None
    BY DEF OrphanInv, Indexed, OrphanMaps
  <2>3. OrphanInv'
    BY <1>1, <1>2, <2>2 DEF OrphanInv, Indexed, OrphanMaps, Orphans, TodoAreOrphans
  <2>4. TypeOK'
    BY <1>1, <1>2, <2>1, <2>2 DEF TypeOK
  <2> QED BY <2>1, <2>3, <2>4
<1>3. CASE UNCHANGED loop
  <2>1. PoolInv' /\ pool' \in Pool /\ pool.tx \subseteq pool'.tx
    BY <1>1, <1>3, PoolAdds DEF loop
  <2>2. OrphanInv'
    BY <1>1, <1>3, OrphansStay DEF loop
  <2>3. TypeOK'
    BY <1>1, <1>3, <2>1 DEF TypeOK, loop
  <2> QED BY <2>1, <2>2, <2>3
<1> QED BY <1>2, <1>3 DEF ReceiveTx, SubmitTx

LEMMA ReceiveOrphanKeeps ==
  ASSUME MempoolInv, NEW t \in Tx, NEW v \in Verdict, NEW peer \in Peer,
         ReceiveOrphan(t, peer, v)
  PROVE  MempoolInv' /\ pool' = pool
<1> USE DEF MempoolInv
<1>1. pc = "idle" /\ UNCHANGED <<chain, pool, pc, work, todo, erase, misb>>
  BY DEF ReceiveOrphan, loop
<1>2. PICK m : /\ m = IF orphan[t] = None THEN AddOrphanTx(t, peer) ELSE OrphanMaps
               /\ \E out \in SUBSET Orphans(m) :
                    /\ Cardinality(out) = IF Cardinality(Orphans(m)) > MaxOrphans
                                          THEN Cardinality(Orphans(m)) - MaxOrphans ELSE 0
                    /\ Set(EraseOrphans(m, out))
  BY DEF ReceiveOrphan, OrphanMaps
<1>3. PICK out \in SUBSET Orphans(m) :
             /\ Cardinality(out) = IF Cardinality(Orphans(m)) > MaxOrphans
                                   THEN Cardinality(Orphans(m)) - MaxOrphans ELSE 0
             /\ Set(EraseOrphans(m, out))
  BY <1>2
<1>4. Indexed(m)
  BY <1>2, AddIndexed DEF OrphanInv
<1>5. /\ Indexed(EraseOrphans(m, out))
      /\ Orphans(EraseOrphans(m, out)) = Orphans(m) \ out
  BY <1>4, EraseIndexed
<1>6. Cardinality(Orphans(m) \ out) <= MaxOrphans
  BY <1>3, EvictedEnough
<1>7. EraseOrphans(m, out) = OrphanMaps'
  BY <1>3 DEF EraseOrphans, Set, OrphanMaps
<1>8. OrphanInv'
  BY <1>1, <1>5, <1>6, <1>7 DEF OrphanInv, TodoAreOrphans
<1>9. TypeOK'
  BY <1>1, <1>8, OrphanTypes DEF TypeOK
<1>10. PoolInv'
  BY <1>1, PoolStays
<1> QED BY <1>1, <1>8, <1>9, <1>10

LEMMA TryOrphanKeeps ==
  ASSUME MempoolInv, NEW t \in Tx, NEW v \in Verdict, TryOrphan(t, v)
  PROVE  MempoolInv' /\ pool.tx \subseteq pool'.tx
<1> USE DEF MempoolInv
<1>1. /\ pc = "orphans" /\ t \in todo /\ todo' = todo \ {t}
      /\ UNCHANGED <<chain, orphan, byPrev, pc>>
  BY DEF TryOrphan
<1>2. OrphanInv'
  BY <1>1, OrphansStay
<1>3. orphan[t] \in Peer
  BY <1>1 DEF OrphanInv, TodoAreOrphans, TypeOK
<1>4. work' \in Seq(Tx) /\ erase' \in SUBSET Tx /\ misb' \in SUBSET Peer
  <2>1. CASE UNCHANGED <<work, erase, misb>>
    BY <2>1 DEF TypeOK
  <2>2. CASE /\ work' \in {work, Append(work, t)}
             /\ erase' \in {erase, erase \cup {t}}
             /\ misb' \in {misb, misb \cup {orphan[t]}}
    <3>1. work \in Seq(Tx) /\ erase \subseteq Tx /\ misb \subseteq Peer
      BY DEF TypeOK
    <3>2. Append(work, t) \in Seq(Tx)
      BY <3>1
    <3>3. work' \in Seq(Tx)
      BY <2>2, <3>1, <3>2
    <3>4. erase' \subseteq Tx /\ misb' \subseteq Peer
      BY <1>3, <2>2, <3>1
    <3> QED BY <3>3, <3>4
  <2> QED BY <2>1, <2>2 DEF TryOrphan
<1>5. PoolInv' /\ pool' \in Pool /\ pool.tx \subseteq pool'.tx
  <2>1. CASE pool' = pool
    BY <1>1, <2>1, PoolStays DEF TypeOK
  <2>2. CASE Accepts(pool, t, v) = "yes" /\ pool' = addUnchecked(pool, t)
    BY <1>1, <2>2, PoolAdds
  <2> QED BY <2>1, <2>2 DEF TryOrphan
<1>6. TypeOK'
  BY <1>1, <1>4, <1>5 DEF TypeOK
<1> QED BY <1>2, <1>5, <1>6

LEMMA NextWorkKeeps ==
  ASSUME MempoolInv, NextWork
  PROVE  MempoolInv' /\ pool' = pool
<1> USE DEF MempoolInv
<1>1. pc = "orphans" /\ todo = {} /\ UNCHANGED <<chain, pool>>
  BY DEF NextWork
<1>2. CASE /\ Len(work) > 1 /\ work' = Tail(work) /\ todo' = byPrev[work[2]]
           /\ UNCHANGED <<orphan, byPrev, pc, erase, misb>>
  <2>1. work' \in Seq(Tx) /\ work[2] \in Tx
    BY <1>2 DEF TypeOK
  <2>2. todo' \subseteq Tx /\ \A u \in todo' : orphan[u] # None
    BY <1>2, <2>1 DEF OrphanInv, Indexed, OrphanMaps
  <2>3. OrphanInv'
    BY <1>2, <2>2 DEF OrphanInv, Indexed, OrphanMaps, Orphans, TodoAreOrphans
  <2>4. PoolInv'
    BY <1>1, <1>2, PoolStays
  <2>5. TypeOK'
    BY <1>1, <1>2, <2>1, <2>2 DEF TypeOK
  <2> QED BY <1>1, <2>3, <2>4, <2>5
<1>3. CASE /\ pc' = "idle" /\ work' = <<>> /\ todo' = {} /\ erase' = {} /\ misb' = {}
           /\ Set(EraseOrphans(OrphanMaps, erase))
  <2>1. OrphanInv'
    BY <1>3, OrphansErased
  <2>2. PoolInv'
    BY <1>1, <1>3, PoolStays
  <2>3. TypeOK'
    BY <1>1, <1>3, <2>1, OrphanTypes DEF TypeOK
  <2> QED BY <1>1, <2>1, <2>2, <2>3
<1> QED BY <1>2, <1>3 DEF NextWork, OrphanMaps

LEMMA EraseOrphansForKeeps ==
  ASSUME MempoolInv, NEW peer \in Peer, EraseOrphansFor(peer)
  PROVE  MempoolInv' /\ pool' = pool
<1> USE DEF MempoolInv
<1>1. /\ pc = "idle" /\ UNCHANGED <<chain, pool, pc, work, todo, erase, misb>>
      /\ Set(EraseOrphans(OrphanMaps, {t \in Tx : orphan[t] = peer}))
  BY DEF EraseOrphansFor, OrphanMaps, loop
<1>2. OrphanInv'
  BY <1>1, OrphansErased
<1>3. PoolInv'
  BY <1>1, PoolStays
<1>4. TypeOK'
  BY <1>1, <1>2, OrphanTypes DEF TypeOK
<1> QED BY <1>1, <1>2, <1>3, <1>4

LEMMA ConnectKeeps ==
  ASSUME MempoolInv, NEW vtx \in Block, ConnectTip(vtx)
  PROVE  MempoolInv' /\ LeaveStep
<1> USE DEF MempoolInv
<1>1. /\ pc = "idle" /\ Len(chain) < MaxHeight /\ Connects(chain, vtx)
      /\ chain' = Append(chain, vtx) /\ pool' = removeForBlock(pool, vtx)
      /\ UNCHANGED <<orphan, byPrev, pc, work, todo, erase, misb>>
  BY DEF ConnectTip, loop
<1>2. chain \in Seq(Block) /\ Len(chain) \in Nat
  BY DEF TypeOK
<1>3. /\ chain' \in Seq(Block) /\ Len(chain') = Len(chain) + 1 /\ Last(chain') = vtx
  BY <1>1, <1>2, AppendFacts
<1>4. /\ PoolGood(pool') /\ Outside(pool', chain') /\ Ready(pool', chain')
      /\ LeftForBlock(pool, pool', vtx)
  <2>1. PoolGood(pool) /\ Outside(pool, chain) /\ Ready(pool, chain) /\ ChainInv(chain)
    BY <1>1 DEF PoolInv, PoolNotConfirmed, Outside
  <2> QED BY <1>1, <1>2, <2>1, RemoveForBlock
<1>5. ChainInv(chain')
  BY <1>1, <1>2, ChainAppend DEF PoolInv
<1>6. PoolInv'
  BY <1>1, <1>4, <1>5 DEF PoolInv, PoolNotConfirmed, Outside
<1>7. OrphanInv'
  BY <1>1, OrphansStay
<1>8. TypeOK'
  BY <1>1, <1>2, <1>3, <1>4, MempoolAssumption DEF TypeOK, PoolGood
<1>9. LeaveStep
  <2>1. chain' # <<>> /\ Len(chain') > Len(chain)
    BY <1>2, <1>3
  <2> QED BY <1>3, <1>4, <2>1 DEF LeaveStep, Cause, LeftForBlock
<1> QED BY <1>6, <1>7, <1>8, <1>9

LEMMA DisconnectKeeps ==
  ASSUME MempoolInv, DisconnectTip
  PROVE  MempoolInv' /\ pool' = pool
<1> USE DEF MempoolInv
<1>1. /\ pc = "idle" /\ chain # <<>> /\ chain' = Front(chain)
      /\ pc' = "resurrect" /\ work' = Last(chain)
      /\ UNCHANGED <<pool, orphan, byPrev, todo, erase, misb>>
  BY DEF DisconnectTip
<1>2. chain \in Seq(Block) /\ Len(chain) <= MaxHeight /\ MaxHeight \in Nat
  BY MempoolAssumption DEF TypeOK
<1>3. /\ chain' \in Seq(Block) /\ work' \in Block
      /\ Len(chain') = Len(chain) - 1 /\ Len(chain) \in Nat \ {0}
  BY <1>1, <1>2, FrontFacts
<1>4. /\ ChainInv(chain')
      /\ \A i, j \in DOMAIN work' : work'[i] = work'[j] => i = j
  BY <1>1, <1>2, ChainFront DEF PoolInv
<1>5. Confirmed(chain) = Confirmed(chain') \cup ToSet(work')
  BY <1>1, <1>2, ConfirmedFront
<1>6. pool'.tx \cap Confirmed(chain') = {} /\ pool'.tx \cap ToSet(work') = {}
  BY <1>1, <1>5 DEF PoolInv, PoolNotConfirmed
<1>7. Waits(pool', chain', ToSet(work'))
  <2> SUFFICES ASSUME NEW t \in pool.tx, NEW o \in Vin[t], Prev[o] \notin pool.tx
               PROVE  o \in Coins(chain') \/ Prev[o] \in ToSet(work')
    BY <1>1 DEF Waits
  <2>1. o \in Coins(chain) /\ o \in Outpoint
    BY <1>1, PoolFacts DEF PoolInv, Ready
  <2> QED BY <1>1, <1>2, <2>1, CoinsFront
<1>8. PoolInv'
  BY <1>1, <1>4, <1>6, <1>7 DEF PoolInv, PoolNotConfirmed, WorkIsNew
<1>9. OrphanInv'
  BY <1>1, OrphansStay
<1>10. TypeOK'
  <2>1. work' \in Seq(Tx)
    BY <1>3, BlockFacts
  <2> QED BY <1>1, <1>2, <1>3, <2>1 DEF TypeOK
<1> QED BY <1>1, <1>8, <1>9, <1>10

LEMMA ResurrectKeeps ==
  ASSUME MempoolInv, NEW v \in Verdict, Resurrect(v)
  PROVE  MempoolInv' /\ LeaveStep
<1> USE DEF MempoolInv
<1> DEFINE h == Head(work)
<1>1. /\ pc = "resurrect" /\ pc' = "resurrect" /\ work # <<>> /\ work' = Tail(work)
      /\ UNCHANGED <<chain, orphan, byPrev, todo, erase, misb>>
  BY DEF Resurrect
<1>2. \/ Accepts(pool, h, v) = "yes" /\ pool' = addUnchecked(pool, h)
      \/ pool' = RemoveRecursive(pool, h)
  BY DEF Resurrect
<1>3. chain \in Seq(Block) /\ work \in Seq(Tx)
  BY DEF TypeOK
<1>4. /\ work' \in Seq(Tx) /\ h \in ToSet(work)
      /\ ToSet(work) = ToSet(work') \cup {h} /\ h \notin ToSet(work')
      /\ \A i, j \in DOMAIN work' : work'[i] = work'[j] => i = j
  BY <1>1, <1>3, TailFacts DEF PoolInv, WorkIsNew
<1>5. h \in Tx
  BY <1>1, <1>3
<1> HIDE DEF h
<1>6. h \notin pool.tx /\ ToSet(work') \cap pool.tx = {}
  BY <1>1, <1>4 DEF PoolInv, WorkIsNew
<1>7. Waits(pool, chain, ToSet(work') \cup {h})
  BY <1>1, <1>4 DEF PoolInv
<1>8. ASSUME Accepts(pool, h, v) = "yes", pool' = addUnchecked(pool, h)
      PROVE  PoolInv' /\ pool' \in Pool /\ LeaveStep
  <2>1. /\ PoolGood(pool') /\ pool'.tx = pool.tx \cup {h} /\ h \notin Confirmed(chain)
        /\ \A o \in Vin[h] : Prev[o] \in pool.tx \/ o \in Coins(chain)
    BY <1>3, <1>5, <1>8, AcceptsFacts DEF PoolInv
  <2>2. Waits(pool', chain', ToSet(work'))
    BY <1>1, <1>7, <2>1 DEF Waits
  <2>3. WorkIsNew'
    BY <1>4, <1>6, <2>1 DEF WorkIsNew
  <2>4. PoolInv'
    BY <1>1, <2>1, <2>2, <2>3 DEF PoolInv, PoolNotConfirmed
  <2>5. LeaveStep
    BY <2>1 DEF LeaveStep
  <2> QED BY <2>1, <2>4, <2>5 DEF PoolGood
<1>9. ASSUME pool' = RemoveRecursive(pool, h)
      PROVE  PoolInv' /\ pool' \in Pool /\ LeaveStep
  <2>1. /\ PoolGood(pool') /\ pool'.tx \subseteq pool.tx /\ Waits(pool', chain, ToSet(work'))
        /\ \A t \in pool.tx \ pool'.tx :
             \E a \in pool.tx : t \in Descent(pool, {a}) /\ \E o \in Vin[a] : Prev[o] = h
    <3>1. PoolGood(pool) /\ h \notin pool.tx /\ Waits(pool, chain, ToSet(work') \cup {h})
          /\ pool' = RemoveRecursive(pool, h)
      BY <1>6, <1>7, <1>9 DEF PoolInv
    <3> QED BY ONLY <3>1, RemoveRefused
  <2>2. WorkIsNew'
    BY <1>4, <1>6, <2>1 DEF WorkIsNew
  <2>3. PoolInv'
    BY <1>1, <2>1, <2>2 DEF PoolInv, PoolNotConfirmed
  <2>4. LeaveStep
    BY <1>1, <2>1 DEF LeaveStep, Cause, h
  <2> QED BY <2>1, <2>3, <2>4 DEF PoolGood
<1>10. PoolInv' /\ pool' \in Pool /\ LeaveStep
  BY <1>2, <1>8, <1>9
<1>11. OrphanInv'
  BY <1>1, OrphansStay
<1>12. TypeOK'
  BY <1>1, <1>4, <1>10 DEF TypeOK
<1> QED BY <1>10, <1>11, <1>12

LEMMA EndDisconnectKeeps ==
  ASSUME MempoolInv, EndDisconnect
  PROVE  MempoolInv' /\ LeaveStep
<1> USE DEF MempoolInv
<1>1. /\ pc = "resurrect" /\ work = <<>> /\ pc' = "idle"
      /\ pool' = removeCoinbaseSpends(pool, chain)
      /\ UNCHANGED <<chain, orphan, byPrev, work, todo, erase, misb>>
  BY DEF EndDisconnect
<1>2. ToSet(work) = {}
  BY <1>1 DEF ToSet
<1>3. Waits(pool, chain, {})
  BY <1>1, <1>2 DEF PoolInv
<1>4. /\ PoolGood(pool') /\ pool'.tx \subseteq pool.tx /\ Ready(pool', chain)
      /\ \A t \in pool.tx \ pool'.tx :
           \E a \in pool.tx : /\ t \in Descent(pool, {a})
                             /\ \E o \in Vin[a] : Prev[o] \in Generated /\ ~ IsMature(chain, o)
  BY <1>1, <1>3, RemovePremature DEF PoolInv
<1>5. PoolInv'
  BY <1>1, <1>4 DEF PoolInv, PoolNotConfirmed
<1>6. OrphanInv'
  BY <1>1, OrphansStay
<1>7. TypeOK'
  BY <1>1, <1>4 DEF TypeOK, PoolGood
<1>8. LeaveStep
  BY <1>1, <1>4 DEF LeaveStep, Cause
<1> QED BY <1>5, <1>6, <1>7, <1>8

LEMMA MempoolInit == Init => MempoolInv
<1> SUFFICES ASSUME Init PROVE MempoolInv
  OBVIOUS
<1>1. TypeOK
  BY MempoolAssumption DEF Init, TypeOK, Pool
<1>2. OrphanInv
  <2>1. Indexed(OrphanMaps)
    BY DEF Init, Indexed, OrphanMaps
  <2>2. Orphans(OrphanMaps) = {}
    BY DEF Init, Orphans, OrphanMaps
  <2>3. Cardinality(Orphans(OrphanMaps)) <= MaxOrphans
    BY <2>2, FS_EmptySet, MempoolAssumption
  <2> QED BY <2>1, <2>3 DEF OrphanInv, TodoAreOrphans, Init
<1>3. PoolInv
  <2>1. chain = <<>> /\ Len(chain) = 0 /\ pool.tx = {} /\ pc = "idle"
    BY DEF Init
  <2>2. ChainInv(chain)
    <3>1. ConfirmedAt(chain, 0) = ToSet(Genesis)
      BY DEF ConfirmedAt
    <3>2. \A t \in ToSet(Genesis) : Vin[t] = {}
      BY MempoolAssumption
    <3>3. 0 .. Len(chain) = {0} /\ 1 .. Len(chain) = {}
      BY <2>1
    <3> QED BY <3>1, <3>2, <3>3 DEF ChainInv
  <2>3. PoolGood(pool)
    <3>1. pool.total = Cardinality(pool.tx)
      BY <2>1, FS_EmptySet DEF Init
    <3> QED BY <1>1, <2>1, <3>1, MempoolAssumption DEF PoolGood, TypeOK, Init
  <2> QED BY <2>1, <2>2, <2>3 DEF PoolInv, PoolNotConfirmed, Ready
<1> QED BY <1>1, <1>2, <1>3 DEF MempoolInv

LEMMA MempoolNext == MempoolInv /\ [Next]_vars => MempoolInv' /\ LeaveStep
<1> SUFFICES ASSUME MempoolInv, [Next]_vars PROVE MempoolInv' /\ LeaveStep
  OBVIOUS
<1>1. ASSUME pool.tx \subseteq pool'.tx PROVE LeaveStep
  BY <1>1 DEF LeaveStep
<1>2. ASSUME NEW t \in Tx, NEW v \in Verdict,
             \/ ReceiveTx(t, v) \/ SubmitTx(t, v) \/ TryOrphan(t, v)
             \/ \E peer \in Peer : ReceiveOrphan(t, peer, v)
      PROVE  MempoolInv' /\ LeaveStep
  BY <1>1, <1>2, ReceiveKeeps, TryOrphanKeeps, ReceiveOrphanKeeps
<1>3. CASE NextWork
  BY <1>1, <1>3, NextWorkKeeps
<1>4. ASSUME NEW peer \in Peer, EraseOrphansFor(peer)
      PROVE  MempoolInv' /\ LeaveStep
  BY <1>1, <1>4, EraseOrphansForKeeps
<1>5. ASSUME NEW vtx \in Block, ConnectTip(vtx)
      PROVE  MempoolInv' /\ LeaveStep
  BY <1>5, ConnectKeeps
<1>6. CASE DisconnectTip
  BY <1>1, <1>6, DisconnectKeeps
<1>7. CASE EndDisconnect
  BY <1>7, EndDisconnectKeeps
<1>8. ASSUME NEW v \in Verdict, Resurrect(v)
      PROVE  MempoolInv' /\ LeaveStep
  BY <1>8, ResurrectKeeps
<1>9. CASE UNCHANGED vars
  BY <1>1, <1>9 DEF vars, MempoolInv, TypeOK, OrphanInv, Indexed, OrphanMaps, Orphans,
     TodoAreOrphans, PoolInv, PoolNotConfirmed, WorkIsNew
<1> QED BY <1>2, <1>3, <1>4, <1>5, <1>6, <1>7, <1>8, <1>9 DEF Next

LEMMA MempoolInvariant == Spec => []MempoolInv
<1>1. MempoolInv /\ [Next]_vars => MempoolInv'
  BY MempoolNext
<1> QED BY <1>1, MempoolInit, PTL DEF Spec

-----------------------------------------------------------------------------
\* The state of the pool, the orphans and the loops over them is well typed; in
\* particular no peer is punished for an orphan that is gone (the handler of "tx" in
\* ProcessMessage).
THEOREM TypeCorrect == Spec => []TypeOK
<1>1. MempoolInv => TypeOK
  BY DEF MempoolInv
<1> QED BY <1>1, MempoolInvariant, PTL

\* The assertions of CTxMemPool::check hold whenever no block is being disconnected.
THEOREM PoolIsConsistent == Spec => []PoolCheck
<1>1. MempoolInv => PoolCheck
  BY DEF MempoolInv, PoolInv, PoolGood, Ready, PoolCheck, InputsTracked, InputsAvailable
<1> QED BY <1>1, MempoolInvariant, PTL

\* No transaction of the pool is in the active chain (CCoinsViewMemPool::GetCoins), not
\* even while the transactions of a disconnected block are taken back.
THEOREM PoolAvoidsChain == Spec => []PoolNotConfirmed
<1>1. MempoolInv => PoolNotConfirmed
  BY DEF MempoolInv, PoolInv
<1> QED BY <1>1, MempoolInvariant, PTL

\* mapOrphanTransactions and mapOrphanTransactionsByPrev agree and the limit is kept
\* (AddOrphanTx, EraseOrphanTx, EraseOrphansFor, LimitOrphanTxSize).
THEOREM OrphanMapsAgree == Spec => []OrphansIndexed
<1>1. MempoolInv => OrphansIndexed
  BY DEF MempoolInv, OrphanInv, Indexed, OrphanMaps, Orphans, OrphansIndexed
<1> QED BY <1>1, MempoolInvariant, PTL

\* Nothing leaves the pool without a cause (remove, removeConflicts,
\* removeCoinbaseSpends, removeForBlock).
THEOREM RemovalsJustified == Spec => LeavesForCause
<1>1. MempoolInv /\ [Next]_vars => [LeaveStep]_vars
  BY MempoolNext
<1> QED BY <1>1, MempoolInvariant, PTL DEF Spec, LeavesForCause
=============================================================================
