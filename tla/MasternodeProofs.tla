-------------------------- MODULE MasternodeProofs --------------------------
(* Theorems about what a node knows of masternodes: about MasternodeSync, for *)
(* any number of peers and items, any time-outs and any number of sleeps,     *)
(* resets and reconnections, and about MasternodeList, for any bounds and     *)
(* times.                                                                     *)
EXTENDS MasternodeSync, MasternodeList, TLAPS

(* ------------------------------- The sync ------------------------------- *)

\* What a node needs before it is in stage a: data, or leave to go on without.
Backed(a, have) ==
  /\ a \in {"MNW", "BUDGET", "FINISHED"} => "LIST" \in have
  /\ a \in {"BUDGET", "FINISHED"} => "MNW" \in have

\* The stage that is about to be written is backed too.
NextIsBacked == pc = "write" /\ ~ overrun => Backed(next, got \cup waived)

SyncInv == SyncTypeOK /\ SyncedHasData /\ NextIsBacked

LEMMA BackedStage == SyncedHasData <=> (~ overrun => Backed(asset, got \cup waived))
BY DEF SyncedHasData, Backed

LEMMA NextAssetType ==
  ASSUME NEW a \in Asset
  PROVE  NextAsset(a) \in Asset
BY DEF NextAsset, Asset, Data

\* Going on from a backed stage whose own data is there, or waived.
LEMMA NextIsBackedBy ==
  ASSUME NEW a \in Asset, NEW have \in SUBSET Asset, Backed(a, have), ~ Missing(a, have)
  PROVE  Backed(NextAsset(a), have)
BY DEF Backed, Missing, NextAsset, Asset, Data

\* Leaving a backed stage: with its data, with SPORK_8 off, or for FAILED.
LEMMA LeaveIsBacked ==
  ASSUME SyncTypeOK, SyncedHasData, NEW a \in Asset, Leave(a),
         \/ a = "FAILED"
         \/ a = NextAsset(asset) /\ (enforced => ~ Missing(asset, got))
  PROVE  ~ overrun => Backed(next', got \cup waived')
<1>1. CASE a = "FAILED"
  BY <1>1 DEF Leave, Backed
<1>2. CASE a = NextAsset(asset) /\ (enforced => ~ Missing(asset, got))
  <2>1. /\ waived \subseteq waived' /\ waived' \in SUBSET Asset
        /\ ~ Missing(asset, got \cup waived')
    BY <1>2 DEF Leave, Missing, SyncTypeOK
  <2>2. ~ overrun => Backed(asset, got \cup waived')
    BY <2>1, BackedStage DEF Backed
  <2>3. got \cup waived' \in SUBSET Asset
    BY <2>1 DEF SyncTypeOK, Asset
  <2>4. next' = NextAsset(asset) /\ asset \in Asset
    BY <1>2 DEF Leave, SyncTypeOK
  <2> QED BY <2>1, <2>2, <2>3, <2>4, NextIsBackedBy
<1> QED BY <1>1, <1>2

LEMMA AgesGrow ==
  ASSUME SyncTypeOK
  PROVE  /\ Later(started, StallTimeout) \in 0..(StallTimeout + 1)
         /\ Later(failure, RetryDelay) \in 0..(RetryDelay + 1)
         /\ QuietLater \in [Data -> 0..(Quiet + 1)]
BY SyncAssumption DEF SyncTypeOK, Later, QuietLater

LEMMA ResetType ==
  ASSUME SyncTypeOK, ResetData
  PROVE  /\ attempt' \in 0..(Threshold * 3)
         /\ started' \in 0..(StallTimeout + 1)
         /\ failure' \in 0..(RetryDelay + 1)
         /\ got' = {}
         /\ quiet' \in [Data -> 0..(Quiet + 1)]
         /\ seenSync' \in [Data -> [Item -> 0..Threshold]]
         /\ overrun' = (pc = "write")
         /\ waived' = {}
BY SyncAssumption DEF ResetData, SyncTypeOK

-----------------------------------------------------------------------------
\* The steps of Process.

LEMMA BeginKeeps ==
  ASSUME SyncInv, Begin
  PROVE  SyncInv'
<1> USE DEF SyncInv
<1>1. /\ SyncTypeOK /\ pc = "idle" /\ pc' \in {"idle", "gate"}
      /\ UNCHANGED <<fBlockchainSynced, slept, recent, enforced, next, events>>
  BY DEF Begin, chain
<1>2. NextIsBacked'
  BY <1>1 DEF NextIsBacked
<1>3. CASE asset' = "SPORKS" /\ ClearFulfilledRequest /\ ResetData
  <2>1. SyncTypeOK'
    BY <1>1, <1>3, ResetType DEF SyncTypeOK, Asset, ClearFulfilledRequest
  <2>2. SyncedHasData'
    BY <1>3 DEF SyncedHasData
  <2> QED BY <1>2, <2>1, <2>2
<1>4. CASE /\ asset' = "SPORKS" /\ ClearFulfilledRequest
           /\ started' = 0 /\ attempt' = 0
           /\ failure' = Later(failure, RetryDelay)
           /\ quiet' = QuietLater
           /\ UNCHANGED <<got, seenSync, overrun, waived>>
  <2>1. SyncTypeOK'
    BY <1>1, <1>4, AgesGrow, SyncAssumption DEF SyncTypeOK, Asset, ClearFulfilledRequest
  <2>2. SyncedHasData'
    BY <1>4 DEF SyncedHasData
  <2> QED BY <1>2, <2>1, <2>2
<1>5. CASE /\ started' = Later(started, StallTimeout)
           /\ failure' = Later(failure, RetryDelay)
           /\ quiet' = QuietLater
           /\ UNCHANGED <<asset, attempt, got, seenSync, fulfilled, overrun, waived>>
  <2>1. SyncTypeOK'
    BY <1>1, <1>5, AgesGrow DEF SyncTypeOK
  <2>2. SyncedHasData'
    BY <1>1, <1>5 DEF SyncedHasData
  <2> QED BY <1>2, <2>1, <2>2
<1>6. NextAsset("INITIAL") = "SPORKS"
  BY DEF NextAsset
<1> QED BY <1>3, <1>4, <1>5, <1>6 DEF Begin

\* IsBlockchainSynced, whoever calls it.
LEMMA IsBlockchainSyncedKeeps ==
  ASSUME SyncInv, NEW lock \in BOOLEAN, IsBlockchainSynced(lock),
         pc' = pc \/ (pc = "gate" /\ pc' \in {"idle", "stall"}),
         UNCHANGED <<fulfilled, enforced, next, events>>
  PROVE  SyncInv'
<1> USE DEF SyncInv
<1>1. /\ slept' = FALSE /\ fBlockchainSynced' \in BOOLEAN /\ recent' = recent
      /\ pc' \in {"idle", "gate", "stall", "ask", "write"}
      /\ pc' = "write" => pc = "write"
  BY DEF IsBlockchainSynced, SyncTypeOK
<1>2. CASE asset' = "INITIAL" /\ ResetData
  <2>1. SyncTypeOK'
    BY <1>1, <1>2, ResetType DEF SyncTypeOK, Asset
  <2>2. SyncedHasData' /\ NextIsBacked'
    BY <1>1, <1>2, ResetType DEF SyncedHasData, NextIsBacked
  <2> QED BY <2>1, <2>2
<1>3. CASE UNCHANGED <<asset, attempt, started, failure, got, quiet, seenSync, overrun,
                     waived>>
  <2>1. SyncTypeOK'
    BY <1>1, <1>3 DEF SyncTypeOK
  <2>2. SyncedHasData' /\ NextIsBacked'
    BY <1>1, <1>3 DEF SyncedHasData, NextIsBacked, Backed
  <2> QED BY <2>1, <2>2
<1> QED BY <1>2, <1>3 DEF IsBlockchainSynced, Reset

LEMMA StallKeeps ==
  ASSUME SyncInv, Stall
  PROVE  SyncInv'
<1> USE DEF SyncInv
<1>0. /\ SyncTypeOK
      /\ UNCHANGED <<asset, started, failure, quiet, got, seenSync, fulfilled,
                     fBlockchainSynced, slept, recent, enforced, overrun, events>>
  BY DEF Stall, timers, chain
<1>1. SyncedHasData' /\ waived' \in SUBSET Asset
  BY <1>0 DEF SyncedHasData, SyncTypeOK, Stall, Leave
<1>2. CASE pc' = "ask" /\ UNCHANGED <<next, attempt, waived>>
  <2>1. SyncTypeOK'
    BY <1>0, <1>2 DEF SyncTypeOK
  <2> QED BY <1>1, <1>2, <2>1 DEF NextIsBacked
<1>3. CASE Leave(IF enforced /\ Missing(asset, got) THEN "FAILED" ELSE NextAsset(asset))
  <2>1. next' \in Asset
    BY <1>0, <1>3, NextAssetType DEF Leave, SyncTypeOK, Asset
  <2>2. SyncTypeOK'
    BY <1>0, <1>1, <1>3, <2>1, SyncAssumption DEF SyncTypeOK, Leave
  <2>3. ~ overrun => Backed(next', got \cup waived')
    <3> DEFINE a == IF enforced /\ Missing(asset, got) THEN "FAILED" ELSE NextAsset(asset)
    <3>1. a \in Asset /\ Leave(a)
      BY <1>3, <2>1 DEF Leave
    <3>2. \/ a = "FAILED"
          \/ a = NextAsset(asset) /\ (enforced => ~ Missing(asset, got))
      OBVIOUS
    <3> HIDE DEF a
    <3> QED BY <1>0, <3>1, <3>2, LeaveIsBacked
  <2>4. NextIsBacked'
    BY <1>0, <2>3 DEF NextIsBacked
  <2> QED BY <1>1, <2>2, <2>4
<1> QED BY <1>2, <1>3 DEF Stall

\* What a turn of the loop over vNodes may do to attempt, pc, next, waived
\* and fulfilled.
LEMMA AskOutcome ==
  ASSUME SyncInv, AskSporks \/ AskData \/ AskBudget \/ AskNobody
  PROVE  /\ fulfilled' \in [Peer -> SUBSET Request]
         /\ attempt' \in 0..(Threshold * 3)
         /\ \/ pc' = "idle" /\ next' = next /\ waived' = waived
            \/ /\ pc' = "write" /\ next' \in Asset
               /\ waived \subseteq waived' /\ waived' \in SUBSET Asset
               /\ ~ overrun => Backed(next', got \cup waived')
<1> USE DEF SyncInv
<1>0. SyncTypeOK /\ asset \in Asset
  BY DEF SyncTypeOK
<1>1. ASSUME NEW a \in {"SPORKS", "LIST", "MNW", "BUDGET"}, Mark(a)
      PROVE  fulfilled' \in [Peer -> SUBSET Request]
  <2>1. RequestFor(a) \in Request
    BY DEF RequestFor, Request
  <2> QED BY <1>0, <1>1, <2>1 DEF Mark, SyncTypeOK
<1>2. ASSUME Send, attempt < Threshold * 3
      PROVE  /\ attempt' \in 0..(Threshold * 3) /\ pc' = "idle"
             /\ next' = next /\ waived' = waived
  BY <1>0, <1>2, SyncAssumption DEF Send, Return, SyncTypeOK
<1>3. ASSUME SendOrReturn
      PROVE  /\ attempt' \in 0..(Threshold * 3) /\ pc' = "idle"
             /\ next' = next /\ waived' = waived
  BY <1>0, <1>2, <1>3, SyncAssumption DEF SendOrReturn, Return, SyncTypeOK
<1>4. ASSUME NEW a \in Asset, Leave(a),
             \/ a = "FAILED"
             \/ a = NextAsset(asset) /\ (enforced => ~ Missing(asset, got))
      PROVE  /\ attempt' \in 0..(Threshold * 3)
             /\ pc' = "write" /\ next' \in Asset
             /\ waived \subseteq waived' /\ waived' \in SUBSET Asset
             /\ ~ overrun => Backed(next', got \cup waived')
  <2>1. ~ overrun => Backed(next', got \cup waived')
    BY <1>0, <1>4, LeaveIsBacked
  <2> QED BY <1>0, <1>4, <2>1, SyncAssumption DEF Leave, SyncTypeOK
<1>5. NextAsset(asset) \in Asset
  BY <1>0, NextAssetType
<1>6. CASE AskSporks
  <2>1. fulfilled' \in [Peer -> SUBSET Request]
    BY <1>1, <1>6 DEF AskSporks
  <2>2. CASE Send /\ ~ attempt >= 2
    BY <1>0, <1>2, <2>1, <2>2, SyncAssumption DEF SyncTypeOK
  <2>3. CASE next' = NextAsset(asset) /\ pc' = "write" /\ attempt' = 1 /\ UNCHANGED waived
    <3>1. Backed(next', got \cup waived')
      BY <1>6, <2>3 DEF AskSporks, NextAsset, Backed
    <3> QED BY <1>0, <1>5, <2>1, <2>3, <3>1, SyncAssumption DEF SyncTypeOK
  <2> QED BY <1>6, <2>2, <2>3 DEF AskSporks
<1>7. CASE AskData
  <2>1. CASE Complete(asset) /\ Leave(NextAsset(asset)) /\ UNCHANGED fulfilled
    <3>1. asset \in got
      BY <2>1 DEF Complete
    <3>2. ~ Missing(asset, got)
      BY <3>1 DEF Missing
    <3> QED BY <1>0, <1>4, <1>5, <2>1, <3>2 DEF SyncTypeOK
  <2>2. CASE Mark(asset) /\ Leave(GiveUp(asset))
    <3>1. GiveUp(asset) \in Asset
      BY <1>5 DEF GiveUp, Asset
    <3>2. \/ GiveUp(asset) = "FAILED"
          \/ GiveUp(asset) = NextAsset(asset) /\ ~ enforced
      BY DEF GiveUp
    <3> QED BY <1>1, <1>4, <1>7, <2>2, <3>1, <3>2 DEF AskData
  <2>3. CASE Mark(asset) /\ SendOrReturn
    BY <1>1, <1>3, <1>7, <2>3 DEF AskData
  <2> QED BY <1>7, <2>1, <2>2, <2>3 DEF AskData
<1>8. CASE AskBudget
  <2>1. CASE Leave(NextAsset(asset)) /\ UNCHANGED fulfilled
    <3>1. ~ Missing(asset, got)
      BY <1>8 DEF AskBudget, Missing
    <3> QED BY <1>0, <1>4, <1>5, <2>1, <3>1 DEF SyncTypeOK
  <2>2. CASE Mark(asset) /\ SendOrReturn
    BY <1>1, <1>3, <1>8, <2>2 DEF AskBudget
  <2> QED BY <1>8, <2>1, <2>2 DEF AskBudget
<1>9. CASE AskNobody
  BY <1>0, <1>9 DEF AskNobody, Return, SyncTypeOK
<1> QED BY <1>6, <1>7, <1>8, <1>9

LEMMA AskKeeps ==
  ASSUME SyncInv, Ask
  PROVE  SyncInv'
<1> USE DEF SyncInv
<1>0. /\ SyncTypeOK
      /\ UNCHANGED <<asset, started, failure, quiet, got, seenSync,
                     fBlockchainSynced, slept, recent, enforced, overrun, events>>
  BY DEF Ask, timers, chain
<1>1. /\ fulfilled' \in [Peer -> SUBSET Request]
      /\ attempt' \in 0..(Threshold * 3)
      /\ \/ pc' = "idle" /\ next' = next /\ waived' = waived
         \/ /\ pc' = "write" /\ next' \in Asset
            /\ waived \subseteq waived' /\ waived' \in SUBSET Asset
            /\ ~ overrun => Backed(next', got \cup waived')
  BY AskOutcome DEF Ask
<1>2. SyncTypeOK'
  BY <1>0, <1>1 DEF SyncTypeOK
<1>3. SyncedHasData'
  BY <1>0, <1>1 DEF SyncedHasData
<1>4. NextIsBacked'
  BY <1>0, <1>1 DEF NextIsBacked
<1> QED BY <1>2, <1>3, <1>4

LEMMA WriteKeeps ==
  ASSUME SyncInv, Write
  PROVE  SyncInv'
<1> USE DEF SyncInv
<1>1. SyncTypeOK'
  BY SyncAssumption DEF Write, SyncTypeOK, Asset, chain
<1>2. SyncedHasData'
  BY DEF Write, NextIsBacked, Backed, SyncedHasData
<1>3. NextIsBacked'
  BY DEF Write, NextIsBacked
<1> QED BY <1>1, <1>2, <1>3

-----------------------------------------------------------------------------
\* The other threads and the world.

LEMMA OthersKeep ==
  ASSUME SyncInv,
         \/ \E d \in Data, i \in Item, known \in BOOLEAN : Added(d, i, known)
         \/ RpcReset \/ Sleep \/ (\E p \in Peer : Reconnect(p)) \/ Spork8Changes \/ CatchUp
  PROVE  SyncInv'
<1> USE DEF SyncInv
<1>0. SyncTypeOK
  OBVIOUS
<1>1. ASSUME NEW d \in Data, NEW i \in Item, NEW known \in BOOLEAN, Added(d, i, known)
      PROVE  SyncInv'
  <2>1. /\ got' = got \cup {d}
        /\ UNCHANGED <<asset, attempt, started, failure, fulfilled, fBlockchainSynced, slept,
                       recent, enforced, pc, next, overrun, waived, events>>
    BY <1>1 DEF Added, chain
  <2>2. seenSync' \in [Data -> [Item -> 0..Threshold]]
    <3> DEFINE old == seenSync[d][i]
               new == IF known THEN old + 1 ELSE IF old = 0 THEN 1 ELSE old
    <3>1. seenSync' = [seenSync EXCEPT ![d] = [seenSync[d] EXCEPT ![i] = new]]
      BY <1>1 DEF Added
    <3>2. new \in 0..Threshold
      BY <1>0, <1>1, SyncAssumption DEF Added, News, SyncTypeOK
    <3> HIDE DEF new
    <3> QED BY <1>0, <3>1, <3>2 DEF SyncTypeOK
  <2>3. quiet' \in [Data -> 0..(Quiet + 1)]
    BY <1>0, <1>1, SyncAssumption DEF Added, SyncTypeOK
  <2>4. SyncTypeOK'
    BY <1>0, <2>1, <2>2, <2>3 DEF SyncTypeOK
  <2>5. SyncedHasData' /\ NextIsBacked'
    BY <2>1 DEF SyncedHasData, NextIsBacked, Backed
  <2> QED BY <2>4, <2>5
<1>2. CASE RpcReset
  <2>1. /\ asset' = "INITIAL" /\ ResetData /\ events' \in 0..MaxEvents
        /\ UNCHANGED <<fulfilled, fBlockchainSynced, slept, recent, enforced, pc, next>>
    BY <1>0, <1>2, SyncAssumption DEF RpcReset, Reset, chain, SyncTypeOK
  <2>2. SyncTypeOK'
    BY <1>0, <2>1, ResetType DEF SyncTypeOK, Asset
  <2>3. SyncedHasData' /\ NextIsBacked'
    BY <1>0, <2>1, ResetType DEF SyncedHasData, NextIsBacked
  <2> QED BY <2>2, <2>3
<1>3. CASE Sleep
  <2>1. SyncTypeOK'
    <3>1. /\ events' \in 0..MaxEvents
          /\ started' \in 0..(StallTimeout + 1)
          /\ failure' \in 0..(RetryDelay + 1)
      BY <1>0, <1>3, SyncAssumption DEF Sleep, SyncTypeOK
    <3>2. quiet' \in [Data -> 0..(Quiet + 1)]
      BY <1>3, SyncAssumption DEF Sleep
    <3> QED BY <1>0, <1>3, <3>1, <3>2 DEF Sleep, SyncTypeOK
  <2>2. SyncedHasData' /\ NextIsBacked'
    BY <1>3 DEF Sleep, SyncedHasData, NextIsBacked, Backed
  <2> QED BY <2>1, <2>2
<1>4. ASSUME NEW p \in Peer, Reconnect(p)
      PROVE  SyncInv'
  <2>1. SyncTypeOK'
    <3>1. events' \in 0..MaxEvents /\ fulfilled' \in [Peer -> SUBSET Request]
      BY <1>0, <1>4, SyncAssumption DEF Reconnect, SyncTypeOK
    <3> QED BY <1>0, <1>4, <3>1 DEF Reconnect, SyncTypeOK, timers, chain
  <2>2. SyncedHasData' /\ NextIsBacked'
    BY <1>4 DEF Reconnect, SyncedHasData, NextIsBacked, Backed
  <2> QED BY <2>1, <2>2
<1>5. CASE CatchUp
  <2>1. SyncTypeOK'
    BY <1>0, <1>5 DEF CatchUp, SyncTypeOK, timers
  <2>2. SyncedHasData' /\ NextIsBacked'
    BY <1>5 DEF CatchUp, SyncedHasData, NextIsBacked, Backed
  <2> QED BY <2>1, <2>2
<1>6. CASE Spork8Changes
  <2>1. SyncTypeOK'
    <3>1. events' \in 0..MaxEvents /\ enforced' \in BOOLEAN
      BY <1>0, <1>6, SyncAssumption DEF Spork8Changes, SyncTypeOK
    <3> QED BY <1>0, <1>6, <3>1 DEF Spork8Changes, SyncTypeOK, timers, chain
  <2>2. SyncedHasData' /\ NextIsBacked'
    BY <1>6 DEF Spork8Changes, SyncedHasData, NextIsBacked, Backed
  <2> QED BY <2>1, <2>2
<1> QED BY <1>1, <1>2, <1>3, <1>4, <1>5, <1>6

LEMMA SyncInvInit == SyncInit => SyncInv
<1> SUFFICES ASSUME SyncInit PROVE SyncInv
  OBVIOUS
<1>1. SyncTypeOK
  <2>1. /\ asset \in Asset /\ next \in Asset
        /\ attempt \in 0..(Threshold * 3)
        /\ started \in 0..(StallTimeout + 1)
        /\ failure \in 0..(RetryDelay + 1)
        /\ events \in 0..MaxEvents
    BY SyncAssumption DEF SyncInit, Asset
  <2>2. /\ quiet \in [Data -> 0..(Quiet + 1)]
        /\ seenSync \in [Data -> [Item -> 0..Threshold]]
    BY SyncAssumption DEF SyncInit
  <2> QED BY <2>1, <2>2 DEF SyncInit, SyncTypeOK
<1>2. SyncedHasData /\ NextIsBacked
  BY DEF SyncInit, SyncedHasData, NextIsBacked
<1> QED BY <1>1, <1>2 DEF SyncInv

LEMMA SyncInvStep == SyncInv /\ [SyncNext]_syncVars => SyncInv'
<1> SUFFICES ASSUME SyncInv, [SyncNext]_syncVars PROVE SyncInv'
  OBVIOUS
<1>1. CASE Begin \/ Stall \/ Ask \/ Write
  BY <1>1, BeginKeeps, StallKeeps, AskKeeps, WriteKeeps
<1>2. ASSUME NEW lock \in BOOLEAN, Gate(lock) \/ HandlerIsBlockchainSynced(lock)
      PROVE  SyncInv'
  <2>1. /\ IsBlockchainSynced(lock)
        /\ UNCHANGED <<fulfilled, enforced, next, events>>
        /\ pc' = pc \/ (pc = "gate" /\ pc' \in {"idle", "stall"})
    BY <1>2 DEF Gate, HandlerIsBlockchainSynced
  <2> QED BY <2>1, IsBlockchainSyncedKeeps
<1>3. CASE \/ \E d \in Data, i \in Item, known \in BOOLEAN : Added(d, i, known)
           \/ RpcReset \/ Sleep \/ (\E p \in Peer : Reconnect(p)) \/ Spork8Changes \/ CatchUp
  BY <1>3, OthersKeep
<1>4. CASE UNCHANGED syncVars
  BY <1>4 DEF syncVars, SyncInv, SyncTypeOK, SyncedHasData, NextIsBacked, Backed
<1> QED BY <1>1, <1>2, <1>3, <1>4 DEF SyncNext, Process

LEMMA SyncInvariant == SyncSpec => []SyncInv
BY SyncInvInit, SyncInvStep, PTL DEF SyncSpec

\* The members of CMasternodeSync stay in their ranges: no more than
\* MASTERNODE_SYNC_THRESHOLD * 3 attempts in a stage (Process), and no item is
\* counted more than MASTERNODE_SYNC_THRESHOLD times (the Added functions).
THEOREM SyncTypeCorrect == SyncSpec => []SyncTypeOK
<1>1. SyncInv => SyncTypeOK
  BY DEF SyncInv
<1> QED BY <1>1, SyncInvariant, PTL

\* A node is past the list and the winners only if it has got some, or if
\* SPORK_8 was off when it left them, whatever the other threads do and however
\* SPORK_8 changes, unless GetNextAsset overran the last Reset (Process,
\* GetNextAsset, Reset, IsBlockchainSynced).
THEOREM StagesNeedData == SyncSpec => []SyncedHasData
<1>1. SyncInv => SyncedHasData
  BY DEF SyncInv
<1> QED BY <1>1, SyncInvariant, PTL

(* ------------------------------- The list ------------------------------- *)

-----------------------------------------------------------------------------
\* What makes PingsMoveForward true: an entry is taken for silent only when its
\* last ping is that old.
SilentIsOld ==
  entry # None /\ entry.state \in {"expired", "remove"} => entry.pAge >= Expiration

ListInv == TypeOK /\ SilentIsOld

-----------------------------------------------------------------------------
LEMMA OlderFacts ==
  ASSUME NEW a \in Age
  PROVE  Older(a) \in Age /\ Older(a) >= a
BY ListAssumption DEF Age, Old, Older

LEMMA CheckedFacts ==
  ASSUME NEW e \in Entry, NEW c \in Checked(e),
         e.state \in {"expired", "remove"} => e.pAge >= Expiration
  PROVE  /\ c \in Entry /\ c.ver = e.ver /\ c.pAge = e.pAge
         /\ c.state = "spent" /\ e.state # "spent" => ~ InputsAcceptable
         /\ c.state \in {"expired", "remove"} => e.pAge >= Expiration
BY ListAssumption DEF Checked, Entry, Age, Old

LEMMA UpdatedFacts ==
  ASSUME NEW e \in Entry, NEW v \in Version, NEW a \in Age, NEW u \in Updated(e, v, a)
  PROVE  u \in Entry /\ u.ver = v /\ u.state = e.state /\ u.pAge <= e.pAge
<1> DEFINE new == [e EXCEPT !.ver = v]
           p   == [key |-> keyOf[v], age |-> a]
<1>1. new \in Entry /\ new.ver = v /\ new.state = e.state /\ new.pAge = e.pAge
  BY DEF Entry
<1>2. u = new \/ (u = [new EXCEPT !.pAge = a] /\ NotTooEarly(e, p))
  <2>1. u = new \/ \E q \in {x \in {p} : a < Window /\ NotTooEarly(e, x)} : u = [new EXCEPT !.pAge = q.age]
    BY Zenon DEF Updated
  <2>2. ASSUME NEW q \in {x \in {p} : a < Window /\ NotTooEarly(e, x)}, u = [new EXCEPT !.pAge = q.age]
        PROVE  u = [new EXCEPT !.pAge = a] /\ NotTooEarly(e, p)
    <3>1. q = p /\ NotTooEarly(e, q)
      OBVIOUS
    <3>2. q.age = a
      BY <3>1
    <3> HIDE DEF p, new
    <3> QED BY <2>2, <3>1, <3>2
  <2> QED BY <2>1, <2>2
<1>3. NotTooEarly(e, p) => a <= e.pAge
  BY ListAssumption DEF NotTooEarly, Entry, Age, Old
<1>4. [new EXCEPT !.pAge = a] \in Entry /\ [new EXCEPT !.pAge = a].ver = v
      /\ [new EXCEPT !.pAge = a].state = e.state /\ [new EXCEPT !.pAge = a].pAge = a
  BY <1>1 DEF Entry
<1>5. e.pAge <= e.pAge
  BY ListAssumption DEF Entry, Age, Old
<1> QED BY <1>1, <1>2, <1>3, <1>4, <1>5

\* What a step of the list leaves true of the entry and of seen.
EntryGood ==
  /\ entry' = None \/ entry' \in Entry
  /\ seen' \in [Version -> Age \cup {None}]
  /\ SilentIsOld'

\* What it never does, unless the entry it replaces is silent or spent.
EntryForward ==
  entry # None /\ entry' # None =>
    /\ entry'.ver >= entry.ver
    /\ entry'.pAge <= entry.pAge \/ entry.pAge >= Expiration \/ entry.state = "spent"

\* An entry made from a broadcast, when no entry is there or one that is silent
\* or spent and not newer.
LEMMA AddGood ==
  ASSUME ListInv, NEW v \in Version, NEW a \in Age, CheckInputsAndAdd(v, a),
         entry # None => v >= entry.ver,
         entry # None => \/ entry.pAge >= Expiration \/ entry.state = "spent"
                         \/ ~ InputsAcceptable
  PROVE  EntryGood /\ EntryForward
<1>1. /\ seen \in [Version -> Age \cup {None}]
      /\ entry = None \/ entry \in Entry
  BY DEF ListInv, TypeOK
<1>2. seen' \in [Version -> Age \cup {None}]
  BY <1>1 DEF CheckInputsAndAdd
<1>3. CASE entry' = None
  BY <1>2, <1>3 DEF EntryGood, EntryForward, SilentIsOld
<1>4. CASE InputsAcceptable /\ entry' = [state |-> "enabled", ver |-> v, pAge |-> a]
  <2>1. entry' \in Entry /\ entry'.ver = v /\ entry'.state = "enabled"
    BY <1>4 DEF Entry
  <2>2. SilentIsOld'
    BY <2>1 DEF SilentIsOld
  <2>3. EntryForward
    BY <1>4, <2>1 DEF EntryForward
  <2> QED BY <1>2, <2>1, <2>2, <2>3 DEF EntryGood
<1> QED BY <1>3, <1>4 DEF CheckInputsAndAdd

LEMMA UpdateGood ==
  ASSUME ListInv, NEW v \in Version, NEW a \in Age, entry # None, entry.state = "enabled",
         v >= entry.ver, UpdateEnabled(v, a)
  PROVE  EntryGood /\ EntryForward
<1>1. /\ seen \in [Version -> Age \cup {None}]
      /\ entry \in Entry /\ entry.pAge \in Age /\ entry.ver \in Version
  BY DEF ListInv, TypeOK, Entry
<1>2. CASE UNCHANGED entry /\ seen' = [seen EXCEPT ![v] = a]
  <2>1. seen' \in [Version -> Age \cup {None}]
    BY <1>1, <1>2
  <2>2. EntryForward
    BY <1>1, <1>2, ListAssumption DEF EntryForward, Version, Age, Old
  <2> QED BY <1>1, <1>2, <2>1, <2>2 DEF EntryGood, ListInv, SilentIsOld
<1>3. ASSUME NEW u \in Updated(entry, v, a), NEW e \in Checked(u)
      PROVE  /\ e \in Entry /\ e.ver = v /\ e.pAge <= entry.pAge
             /\ e.state = "spent" => ~ InputsAcceptable
             /\ e.state \in {"expired", "remove"} => entry.pAge >= Expiration
  <2>1. u \in Entry /\ u.ver = v /\ u.state = "enabled" /\ u.pAge <= entry.pAge /\ u.pAge \in Age
    BY <1>1, UpdatedFacts DEF Entry
  <2>2. /\ e \in Entry /\ e.ver = u.ver /\ e.pAge = u.pAge
        /\ e.state = "spent" => ~ InputsAcceptable
        /\ e.state \in {"expired", "remove"} => u.pAge >= Expiration
    BY <2>1, CheckedFacts
  <2> QED BY <1>1, <2>1, <2>2, ListAssumption DEF Age, Old
<1>4. ASSUME NEW u \in Updated(entry, v, a), NEW e \in Checked(u), e.state = "enabled",
             entry' = e, seen' = [seen EXCEPT ![v] = a]
      PROVE  EntryGood /\ EntryForward
  <2>1. e \in Entry /\ e.ver = v /\ e.pAge <= entry.pAge
    BY <1>3
  <2>2. seen' \in [Version -> Age \cup {None}]
    BY <1>1, <1>4
  <2> QED BY <1>4, <2>1, <2>2 DEF EntryGood, EntryForward, SilentIsOld
<1>5. ASSUME NEW u \in Updated(entry, v, a), NEW e \in Checked(u), e.state # "enabled",
             CheckInputsAndAdd(v, a)
      PROVE  EntryGood /\ EntryForward
  <2>1. e.state \in {"spent", "expired", "remove"}
    BY <1>3, <1>5 DEF Entry
  <2> QED BY <1>3, <1>5, <2>1, AddGood
<1> QED BY <1>2, <1>4, <1>5 DEF UpdateEnabled

LEMMA BroadcastGood ==
  ASSUME ListInv, NEW v \in Version, NEW a \in Age, UseBroadcast(v, a)
  PROVE  EntryGood /\ EntryForward
<1>1. /\ seen \in [Version -> Age \cup {None}]
      /\ entry = None \/ (entry \in Entry /\ entry.ver \in Version /\ entry.pAge \in Age)
  BY DEF ListInv, TypeOK, Entry
<1>2. CASE UNCHANGED entry /\ (seen' = seen \/ seen' = [seen EXCEPT ![v] = a])
  <2>1. EntryForward
    BY <1>1, <1>2, ListAssumption DEF EntryForward, Version, Age, Old
  <2>2. seen' \in [Version -> Age \cup {None}]
    BY <1>1, <1>2
  <2> QED BY <1>1, <1>2, <2>1, <2>2 DEF ListInv, EntryGood, SilentIsOld
<1>3. CASE entry # None /\ IsNewer(v) /\ entry.state = "enabled" /\ UpdateEnabled(v, a)
  <2>1. v >= entry.ver
    BY <1>1, <1>3 DEF IsNewer, Version
  <2> QED BY <1>3, <2>1, UpdateGood
<1>4. CASE /\ entry # None => IsNewer(v) /\ entry.state # "enabled"
           /\ CheckInputsAndAdd(v, a)
  <2>1. entry # None => v >= entry.ver
    BY <1>1, <1>4 DEF IsNewer, Version
  <2>2. entry # None => entry.pAge >= Expiration \/ entry.state = "spent"
    BY <1>1, <1>4 DEF ListInv, SilentIsOld, Entry
  <2> QED BY <1>4, <2>1, <2>2, AddGood
<1> QED BY <1>2, <1>3, <1>4 DEF UseBroadcast

LEMMA PingGood ==
  ASSUME ListInv, NEW p \in Ping, UsePing(p)
  PROVE  EntryGood /\ EntryForward /\ askedFor' \in 0 .. AskAgain
<1>1. /\ p.age \in Age
      /\ seen \in [Version -> Age \cup {None}] /\ askedFor \in 0 .. AskAgain
      /\ entry = None \/ (entry \in Entry /\ entry.ver \in Version /\ entry.pAge \in Age)
  BY DEF ListInv, TypeOK, Ping, Entry
<1>2. askedFor' \in 0 .. AskAgain
  <2>1. AskForMN \/ UNCHANGED askedFor
    BY DEF UsePing
  <2> QED BY <1>1, <2>1, ListAssumption DEF AskForMN
<1>3. CASE UNCHANGED <<entry, seen>>
  <2>1. EntryForward
    BY <1>1, <1>3, ListAssumption DEF EntryForward, Version, Age, Old
  <2> QED BY <1>1, <1>2, <1>3, <2>1 DEF ListInv, EntryGood, SilentIsOld
<1>4. CASE /\ entry # None /\ NotTooEarly(entry, p) /\ entry.state = "enabled"
           /\ entry' \in Checked([entry EXCEPT !.pAge = p.age])
           /\ seen' = [seen EXCEPT ![entry.ver] = IF @ = None THEN None ELSE p.age]
  <2> DEFINE e == [entry EXCEPT !.pAge = p.age]
  <2>1. e \in Entry /\ e.ver = entry.ver /\ e.pAge = p.age /\ e.state = "enabled"
    BY <1>1, <1>4 DEF Entry
  <2>2. /\ entry' \in Entry /\ entry'.ver = entry.ver /\ entry'.pAge = p.age
        /\ entry'.state \in {"expired", "remove"} => p.age >= Expiration
    <3> HIDE DEF e
    <3>1. entry' \in Checked(e)
      BY <1>4 DEF e
    <3> QED BY <2>1, <3>1, CheckedFacts
  <2>3. p.age <= entry.pAge
    BY <1>1, <1>4, ListAssumption DEF NotTooEarly, Age, Old
  <2>4. seen' \in [Version -> Age \cup {None}]
    BY <1>1, <1>4
  <2>5. EntryForward
    BY <1>1, <1>4, <2>2, <2>3 DEF EntryForward, Version
  <2> QED BY <1>2, <2>2, <2>4, <2>5 DEF EntryGood, SilentIsOld
<1> QED BY <1>3, <1>4 DEF UsePing

\* Check leaves broadcast and ping as they are.
LEMMA CheckedEntry ==
  ASSUME ListInv, entry # None, NEW e \in Checked(entry), entry' = e,
         seen' \in [Version -> Age \cup {None}]
  PROVE  EntryGood /\ EntryForward
<1>1. entry \in Entry /\ entry.ver \in Version /\ entry.pAge \in Age
  BY DEF ListInv, TypeOK, Entry
<1>2. /\ e \in Entry /\ e.ver = entry.ver /\ e.pAge = entry.pAge
      /\ e.state \in {"expired", "remove"} => entry.pAge >= Expiration
  BY <1>1, CheckedFacts DEF ListInv, SilentIsOld
<1>3. EntryForward
  BY <1>1, <1>2, ListAssumption DEF EntryForward, Version, Age, Old
<1> QED BY <1>2, <1>3 DEF EntryGood, SilentIsOld

\* CheckAndRemove, and the start after a shutdown.
LEMMA CheckListGood ==
  ASSUME ListInv, NEW x \in BOOLEAN, CheckList(x)
  PROVE  EntryGood /\ EntryForward /\ askedFor' \in 0 .. AskAgain
<1>1. seen \in [Version -> Age \cup {None}] /\ askedFor \in 0 .. AskAgain
  BY DEF ListInv, TypeOK
<1>2. NothingSeen \in [Version -> Age \cup {None}] /\ Unexpired(seen) \in [Version -> Age \cup {None}]
  BY <1>1 DEF NothingSeen, Unexpired
<1>3. seen' \in [Version -> Age \cup {None}] /\ askedFor' \in 0 .. AskAgain
  BY <1>1, <1>2, ListAssumption DEF CheckList, RemoveChecked
<1>4. CASE entry' = None
  BY <1>3, <1>4 DEF EntryGood, EntryForward, SilentIsOld
<1>5. ASSUME NEW e \in Checked(entry), entry # None, entry' = e
      PROVE  EntryGood /\ EntryForward
  BY <1>3, <1>5, CheckedEntry
<1> QED BY <1>3, <1>4, <1>5 DEF CheckList, RemoveChecked

LEMMA ServeGood ==
  ASSUME ListInv, ServeDseg
  PROVE  EntryGood /\ EntryForward
<1>1. /\ seen \in [Version -> Age \cup {None}]
      /\ entry \in Entry /\ entry.ver \in Version /\ entry.pAge \in Age
  BY DEF ListInv, TypeOK, Entry, ServeDseg
<1>2. seen' \in [Version -> Age \cup {None}]
  BY <1>1 DEF ServeDseg
<1>3. EntryForward
  BY <1>1, ListAssumption DEF EntryForward, ServeDseg, Version, Age, Old
<1> QED BY <1>1, <1>2, <1>3 DEF ServeDseg, ListInv, EntryGood, SilentIsOld

-----------------------------------------------------------------------------
LEMMA ListInit ==
  ASSUME Init
  PROVE  ListInv
<1>1. 1 \in Version /\ 0 \in Age /\ 0 \in 0 .. MinBroadcast /\ 0 \in 0 .. AskAgain /\ 0 \in 0 .. MaxStops
  BY ListAssumption DEF Version, Age, Old
<1>2. [key |-> 1, age |-> 0] \in Ping
  BY <1>1 DEF Ping
<1>3. early \subseteq Version
  BY <1>1 DEF Init
<1> QED BY <1>1, <1>2, <1>3 DEF Init, TypeOK, NothingSeen, ListInv, SilentIsOld

\* Steps of the masternode and of the chain leave the list alone.
LEMMA OutsideKeeps ==
  ASSUME ListInv, SendPing \/ NewBroadcast \/ StartStop \/ CollateralStep
  PROVE  ListInv' /\ UNCHANGED entry
<1>1. /\ version \in Version /\ sent \subseteq Ping /\ stops \in 0 .. MaxStops
      /\ keyOf \in [Version -> Version] /\ early \subseteq Version
  BY DEF ListInv, TypeOK
<1>2. 0 \in Age
  BY ListAssumption DEF Age, Old
<1>3. CASE SendPing
  <2>1. sent' \subseteq Ping
    BY <1>1, <1>2, <1>3 DEF SendPing, NewPing, Ping
  <2> QED BY <1>3, <2>1 DEF SendPing, ListInv, TypeOK, SilentIsOld
<1>4. CASE NewBroadcast
  <2>1. version + 1 \in Version
    BY <1>1, <1>4, ListAssumption DEF NewBroadcast, Version
  <2>2. version' \in Version /\ early' \subseteq Version /\ running' \in BOOLEAN
    BY <1>1, <1>4, <2>1 DEF NewBroadcast
  <2>3. keyOf' \in [Version -> Version]
    BY <1>1, <1>4, <2>1 DEF NewBroadcast
  <2>4. sent' \subseteq Ping
    <3>1. NewPing' = [key |-> keyOf'[version'], age |-> 0]
      BY DEF NewPing
    <3>2. NewPing' \in Ping
      BY <1>2, <2>2, <2>3, <3>1 DEF Ping
    <3> QED BY <1>1, <1>4, <3>2 DEF NewBroadcast
  <2> QED BY <1>4, <2>2, <2>3, <2>4 DEF NewBroadcast, ListInv, TypeOK, SilentIsOld
<1>5. CASE StartStop
  <2>1. stops' \in 0 .. MaxStops
    BY <1>1, <1>5, ListAssumption DEF StartStop
  <2>2. running' \in BOOLEAN
    BY <1>5, Zenon DEF StartStop
  <2> QED BY <1>5, <2>1, <2>2 DEF StartStop, ListInv, TypeOK, SilentIsOld
<1>6. CASE CollateralStep
  BY <1>6 DEF CollateralStep, mnVars, ListInv, TypeOK, SilentIsOld
<1> QED BY <1>3, <1>4, <1>5, <1>6 DEF SendPing, NewBroadcast, StartStop, CollateralStep

LEMMA AgedFacts ==
  ASSUME NEW pings \in SUBSET Ping, NEW limit
  PROVE  Aged(pings, limit) \subseteq Ping
<1> SUFFICES ASSUME NEW x \in Aged(pings, limit)
             PROVE  x \in Ping
  OBVIOUS
<1>1. PICK p \in pings : x = [p EXCEPT !.age = Older(@)]
  BY DEF Aged
<1>2. p \in Ping /\ Older(p.age) \in Age
  BY OlderFacts DEF Ping
<1> QED BY <1>1, <1>2 DEF Ping

LEMMA TickKeeps ==
  ASSUME ListInv, Tick
  PROVE  ListInv' /\ (entry # None /\ entry' # None => entry'.ver >= entry.ver)
<1>1. /\ sent \subseteq Ping /\ seenPings \subseteq Ping
      /\ entry = None \/ (entry \in Entry /\ entry.pAge \in Age /\ entry.ver \in Version)
      /\ seen \in [Version -> Age \cup {None}]
  BY DEF ListInv, TypeOK, Entry
<1>2. sent' \subseteq Ping /\ seenPings' \subseteq Ping
  BY <1>1, AgedFacts DEF Tick
<1>3. /\ entry = None => entry' = None
      /\ entry # None => /\ entry' \in Entry /\ entry'.ver = entry.ver
                         /\ entry'.pAge >= entry.pAge /\ entry'.state = entry.state
  <2>1. CASE entry = None
    BY <2>1 DEF Tick
  <2>2. CASE entry # None
    <3>1. entry' = [entry EXCEPT !.pAge = Older(@)] /\ Older(entry.pAge) \in Age
          /\ Older(entry.pAge) >= entry.pAge
      BY <1>1, <2>2, OlderFacts DEF Tick
    <3> QED BY <1>1, <2>2, <3>1 DEF Entry
  <2> QED BY <2>1, <2>2
<1>4. seen' \in [Version -> Age \cup {None}]
  <2>1. \A v \in Version : seen[v] = None \/ Older(seen[v]) \in Age
    BY <1>1, OlderFacts
  <2> QED BY <1>1, <2>1 DEF Tick
<1>5. TypeOK'
  <2>1. born' \in [Version -> 0 .. MinBroadcast]
    <3>1. \A v \in Version : born[v] \in 0 .. MinBroadcast
      BY DEF ListInv, TypeOK
    <3>2. \A v \in Version :
            (IF v <= version /\ born[v] < MinBroadcast THEN born[v] + 1 ELSE born[v]) \in 0 .. MinBroadcast
      BY <3>1, ListAssumption
    <3> QED BY <3>2 DEF Tick
  <2>2. askedFor' \in 0 .. AskAgain
    BY ListAssumption DEF Tick, ListInv, TypeOK
  <2> QED BY <1>2, <1>3, <1>4, <2>1, <2>2 DEF Tick, ListInv, TypeOK
<1>6. SilentIsOld'
  <2> SUFFICES ASSUME entry' # None, entry'.state \in {"expired", "remove"}
               PROVE  entry'.pAge >= Expiration
    BY DEF SilentIsOld
  <2>1. entry # None /\ entry.pAge >= Expiration /\ entry'.pAge >= entry.pAge
    BY <1>3 DEF ListInv, SilentIsOld
  <2>2. entry.pAge \in Nat /\ entry'.pAge \in Nat
    BY <1>1, <1>3, <2>1, ListAssumption DEF Entry, Age, Old
  <2> QED BY <2>1, <2>2, ListAssumption
<1>7. entry # None /\ entry' # None => entry'.ver >= entry.ver
  BY <1>1, <1>3 DEF Version
<1> QED BY <1>5, <1>6, <1>7 DEF ListInv

-----------------------------------------------------------------------------
\* What a step may do to the entry.
EntryStep ==
  entry # None /\ entry' # None =>
    /\ entry'.ver >= entry.ver
    /\ entry'.pAge > entry.pAge => Tick \/ entry.pAge >= Expiration \/ entry.state = "spent"

\* Every step keeps the invariant, and only the clock makes a live entry older.
LEMMA ListNext ==
  ASSUME ListInv, [Next]_vars
  PROVE  ListInv' /\ EntryStep
<1>1. entry = None \/ (entry \in Entry /\ entry.pAge \in Age /\ entry.ver \in Version)
  BY DEF ListInv, TypeOK, Entry
<1>2. ASSUME EntryGood, EntryForward, UNCHANGED <<mnVars, collateral>>,
             seenPings' \subseteq Ping, askedFor' \in 0 .. AskAgain
      PROVE  ListInv' /\ EntryStep
  <2>1. TypeOK'
    BY <1>2 DEF EntryGood, mnVars, ListInv, TypeOK
  <2>2. ListInv'
    BY <1>2, <2>1 DEF ListInv, EntryGood
  <2>3. entry' = None \/ entry'.pAge \in Age
    BY <1>2 DEF EntryGood, Entry
  <2>4. EntryStep
    BY <1>1, <1>2, <2>3, ListAssumption DEF EntryForward, EntryStep, Age, Old
  <2> QED BY <2>2, <2>4
<1>3. seenPings \subseteq Ping /\ sent \subseteq Ping /\ askedFor \in 0 .. AskAgain /\ version \in Version
  BY DEF ListInv, TypeOK
<1>4. ASSUME UNCHANGED entry
      PROVE  EntryStep
  BY <1>1, <1>4, ListAssumption DEF EntryStep, Version, Age, Old
<1>5. CASE SendPing \/ NewBroadcast \/ StartStop \/ CollateralStep
  BY <1>4, <1>5, OutsideKeeps
<1>6. CASE Tick
  BY <1>6, TickKeeps DEF EntryStep
<1>7. ASSUME NEW p \in sent, ReceivePing(p)
      PROVE  ListInv' /\ EntryStep
  <2>1. UsePing(p) /\ UNCHANGED <<mnVars, collateral>> /\ seenPings' \subseteq Ping /\ p \in Ping
    BY <1>3, <1>7 DEF ReceivePing
  <2> QED BY <1>2, <2>1, PingGood
<1>8. ASSUME NEW v \in Version, NEW p \in sent, ReceiveBroadcast(v, p)
      PROVE  ListInv' /\ EntryStep
  <2>1. /\ UseBroadcast(v, p.age) /\ UNCHANGED <<mnVars, collateral>>
        /\ seenPings' = seenPings /\ askedFor' = askedFor /\ p.age \in Age
    BY <1>3, <1>8 DEF ReceiveBroadcast, Ping
  <2>2. EntryGood /\ EntryForward
    BY <2>1, BroadcastGood
  <2> QED BY <1>2, <1>3, <2>1, <2>2
<1>9. CASE ReplyDseg
  <2>1. PICK v \in 1 .. version : \E p \in sent : UseBroadcast(v, p.age)
    BY <1>9 DEF ReplyDseg
  <2>2. PICK p \in sent : UseBroadcast(v, p.age)
    BY <2>1
  <2>3. v \in Version
    BY <1>3, ListAssumption DEF Version
  <2>4. /\ UNCHANGED <<mnVars, collateral>> /\ seenPings' = seenPings /\ askedFor' = askedFor
        /\ p.age \in Age
    BY <1>3, <1>9 DEF ReplyDseg, Ping
  <2>5. EntryGood /\ EntryForward
    BY <2>2, <2>3, <2>4, BroadcastGood
  <2> QED BY <1>2, <1>3, <2>4, <2>5
<1>10. CASE ServeDseg
  <2>1. /\ UNCHANGED <<mnVars, collateral>>
        /\ seenPings' = seenPings /\ askedFor' = askedFor
    BY <1>10 DEF ServeDseg
  <2> QED BY <1>2, <1>3, <1>10, <2>1, ServeGood
<1>11. CASE Check
  <2>1. /\ UNCHANGED <<mnVars, collateral>> /\ entry # None /\ entry' \in Checked(entry)
        /\ seenPings' = seenPings /\ askedFor' = askedFor /\ seen' \in [Version -> Age \cup {None}]
    BY <1>11 DEF Check, ListInv, TypeOK
  <2>2. EntryGood /\ EntryForward
    BY <2>1, CheckedEntry
  <2> QED BY <1>2, <1>3, <2>1, <2>2
<1>12. CASE CheckAndRemove \/ Restart
  <2>1. /\ CheckList(FALSE) \/ CheckList(TRUE)
        /\ UNCHANGED <<mnVars, collateral>> /\ seenPings' = seenPings
    BY <1>12 DEF CheckAndRemove, Restart
  <2>2. EntryGood /\ EntryForward /\ askedFor' \in 0 .. AskAgain
    BY <2>1, CheckListGood
  <2> QED BY <1>2, <1>3, <2>1, <2>2
<1>13. CASE UNCHANGED vars
  <2>1. ListInv'
    BY <1>13 DEF vars, mnVars, ListInv, TypeOK, SilentIsOld
  <2> QED BY <1>4, <1>13, <2>1 DEF vars
<1> QED
  BY <1>5, <1>6, <1>7, <1>8, <1>9, <1>10, <1>11, <1>12, <1>13 DEF Next

\* ListInv is an inductive invariant of the node's list and of the messages that
\* can still reach it.
THEOREM InvariantHolds == Spec => []ListInv
<1>1. Init => ListInv
  BY ListInit
<1>2. ListInv /\ [Next]_vars => ListInv'
  BY ListNext
<1> QED BY <1>1, <1>2, PTL DEF Spec

\* Every variable of the list, the masternode and the network keeps its type.
THEOREM TypeCorrect == Spec => []TypeOK
<1>1. ListInv => TypeOK
  BY DEF ListInv
<1> QED BY <1>1, InvariantHolds, PTL

\* CheckAndUpdate and CheckInputsAndAdd: the list never goes back to an older
\* broadcast, whatever the order in which they arrive.
THEOREM BroadcastsMoveForward == Spec => NeverRollsBack
<1>1. ListInv /\ [Next]_vars
        => [entry # None /\ entry' # None => entry'.ver >= entry.ver]_vars
  BY ListNext DEF EntryStep
<1> QED BY <1>1, InvariantHolds, PTL DEF Spec, NeverRollsBack

\* CMasternodePing::CheckAndUpdate, UpdateFromNewBroadcast and CheckInputsAndAdd: of
\* two pings of a live entry the later one stays, whatever the order in which
\* they and the broadcasts that carry them arrive, with one key or several. An
\* entry is replaced without comparing pings only when it is silent or spent.
THEOREM LaterPingStays == Spec => PingsMoveForward
<1>1. ListInv /\ [Next]_vars
        => [entry # None /\ entry' # None /\ entry'.pAge > entry.pAge
              => Tick \/ entry.pAge >= Expiration \/ entry.state = "spent"]_vars
  BY ListNext DEF EntryStep
<1> QED BY <1>1, InvariantHolds, PTL DEF Spec, PingsMoveForward
=============================================================================
