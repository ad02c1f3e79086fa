--------------------------- MODULE MasternodeSync ---------------------------
(***************************************************************************)
(* CMasternodeSync: how a node collects sporks, the masternode list, the   *)
(* winners and the budgets, stage after stage (masternode-sync.cpp).       *)
(*                                                                         *)
(* One thread (ThreadCheckObfuscationPool) runs Process every              *)
(* MASTERNODE_SYNC_TIMEOUT seconds; message handlers and the mnsync RPC    *)
(* change the same members without a common lock.  A call of Process is    *)
(* split where another thread can be seen.  Time is counted in periods of  *)
(* Process, as the age of each time stamp, no further than it matters.     *)
(*                                                                         *)
(* Not modelled: the regtest short cut (289-304) and the counts of "ssc",  *)
(* which the sync itself never reads.                                      *)
(***************************************************************************)
EXTENDS Naturals, FiniteSets

CONSTANTS
  NPeers,        \* vNodes, in order, is 1..NPeers
  OldPeer,       \* the peers below the masternode protocol version
  Item,          \* hashes of list entries, winners or budget items
  Threshold,     \* MASTERNODE_SYNC_THRESHOLD
  Quiet,         \* MASTERNODE_SYNC_TIMEOUT * 2
  StallTimeout,  \* MASTERNODE_SYNC_TIMEOUT * 5
  RetryDelay,    \* one minute
  Contention,    \* whether TRY_LOCK may fail
  MaxEvents      \* bound on sleeps, resets, reconnections and changes of SPORK_8

Peer == 1..NPeers

ASSUME SyncAssumption ==
  /\ NPeers \in Nat
  /\ OldPeer \subseteq Peer
  /\ Threshold \in Nat \ {0}
  /\ Quiet \in Nat
  /\ StallTimeout \in Nat
  /\ RetryDelay \in Nat
  /\ Contention \in BOOLEAN
  /\ MaxEvents \in Nat

Current == Peer \ OldPeer

Data == {"LIST", "MNW", "BUDGET"}
Asset == Data \cup {"INITIAL", "SPORKS", "FAILED", "FINISHED"}
Request == {"getspork", "mnsync", "mnwsync", "busync"}

VARIABLES
  asset,      \* RequestedMasternodeAssets
  attempt,    \* RequestedMasternodeAttempt
  started,    \* age of nAssetSyncStarted
  failure,    \* age of lastFailure
  got,        \* the data whose lastMasternodeList, ... is not 0
  quiet,      \* ... and its age
  seenSync,   \* mapSeenSyncMNB, mapSeenSyncMNW, mapSeenSyncBudget
  fulfilled,  \* the requests each peer is marked with
  fBlockchainSynced,
  slept,      \* lastProcess of IsBlockchainSynced is more than an hour ago
  recent,     \* the tip is less than an hour old, and nothing is imported
  enforced,   \* SPORK_8_MASTERNODE_PAYMENT_ENFORCEMENT is active
  pc,         \* where the thread is in Process
  next,       \* the stage it is about to write
  overrun,    \* history: the last Reset fell into GetNextAsset, which undoes it
  waived,     \* history: the stages left without data while SPORK_8 was off
  events      \* sleeps, resets, reconnections and changes of SPORK_8 so far

timers == <<started, failure, quiet>>
chain == <<fBlockchainSynced, slept, recent>>
syncVars == <<asset, attempt, started, failure, got, quiet, seenSync, fulfilled,
              fBlockchainSynced, slept, recent, enforced, pc, next, overrun, waived,
              events>>

SyncTypeOK ==
  /\ asset \in Asset
  /\ attempt \in 0..(Threshold * 3)
  /\ started \in 0..(StallTimeout + 1)
  /\ failure \in 0..(RetryDelay + 1)
  /\ got \in SUBSET Data
  /\ quiet \in [Data -> 0..(Quiet + 1)]
  /\ seenSync \in [Data -> [Item -> 0..Threshold]]
  /\ fulfilled \in [Peer -> SUBSET Request]
  /\ fBlockchainSynced \in BOOLEAN
  /\ slept \in BOOLEAN
  /\ recent \in BOOLEAN
  /\ enforced \in BOOLEAN
  /\ pc \in {"idle", "gate", "stall", "ask", "write"}
  /\ next \in Asset
  /\ overrun \in BOOLEAN
  /\ waived \in SUBSET Asset
  /\ events \in 0..MaxEvents

SyncInit ==
  /\ asset = "INITIAL"
  /\ attempt = 0
  /\ started = 0
  /\ failure = RetryDelay + 1
  /\ got = {}
  /\ quiet = [d \in Data |-> 0]
  /\ seenSync = [d \in Data |-> [i \in Item |-> 0]]
  /\ fulfilled = [p \in Peer |-> {}]
  /\ fBlockchainSynced = FALSE
  /\ slept = FALSE
  /\ recent \in BOOLEAN
  /\ enforced \in BOOLEAN
  /\ pc = "idle"
  /\ next = "INITIAL"
  /\ overrun = FALSE
  /\ waived = {}
  /\ events = 0

-----------------------------------------------------------------------------
\* Parts of the handlers.

Later(age, most) == IF age > most THEN age ELSE age + 1
QuietLater == [d \in Data |-> IF d \in got THEN Later(quiet[d], Quiet) ELSE 0]

\* Reset: back to INITIAL, with everything forgotten.
ResetData ==
  /\ attempt' = 0
  /\ started' = 0
  /\ failure' = RetryDelay + 1
  /\ got' = {}
  /\ quiet' = [d \in Data |-> 0]
  /\ seenSync' = [d \in Data |-> [i \in Item |-> 0]]
  /\ overrun' = (pc = "write")
  /\ waived' = {}

Reset == asset' = "INITIAL" /\ ResetData

\* GetNextAsset
NextAsset(a) ==
  CASE a = "INITIAL"  -> "SPORKS"
    [] a = "FAILED"   -> "SPORKS"
    [] a = "SPORKS"   -> "LIST"
    [] a = "LIST"     -> "MNW"
    [] a = "MNW"      -> "BUDGET"
    [] a = "BUDGET"   -> "FINISHED"
    [] a = "FINISHED" -> "FINISHED"

\* ClearFulfilledRequest: if the lock on vNodes can be had.
ClearFulfilledRequest ==
  \/ fulfilled' = [p \in Peer |-> {}]
  \/ Contention /\ UNCHANGED fulfilled

\* IsBlockchainSynced, with TRY_LOCK(cs_main) as lock; after a long sleep it
\* starts over.
IsBlockchainSynced(lock) ==
  /\ lock \/ Contention
  /\ slept' = FALSE
  /\ fBlockchainSynced' = ((fBlockchainSynced /\ ~ slept) \/ (recent /\ lock))
  /\ IF slept THEN Reset
     ELSE UNCHANGED <<asset, attempt, started, failure, got, quiet, seenSync, overrun,
                    waived>>
  /\ UNCHANGED recent

\* Process is about to leave the stage for a.
Leave(a) ==
  /\ next' = a /\ pc' = "write" /\ attempt' = 0
  /\ waived' = IF enforced THEN waived ELSE waived \cup ({asset} \ got)

\* Without data: fail if payments are enforced, else go on.
GiveUp(a) == IF enforced THEN "FAILED" ELSE NextAsset(a)

-----------------------------------------------------------------------------
\* Mutant: a failed sync returns before the time of the retry is looked at.
NoRetry(age) == FALSE

\* "try syncing again", a minute after the failure.
RetryDue(age) == age > RetryDelay

\* Process, from its call (one period after the last) to the block chain check.
Begin ==
  /\ pc = "idle"
  /\ LET due == asset = "FAILED" /\ RetryDue(Later(failure, RetryDelay))
     IN  \/ /\ asset = "INITIAL" \/ due
            /\ IF due THEN ResetData
               ELSE /\ started' = 0
                    /\ attempt' = 0
                    /\ failure' = Later(failure, RetryDelay)
                    /\ quiet' = QuietLater
                    /\ UNCHANGED <<got, seenSync, overrun, waived>>
            /\ ClearFulfilledRequest
            /\ asset' = NextAsset("INITIAL")
            /\ pc' = "gate"
         \/ /\ asset # "INITIAL" /\ ~ due
            /\ started' = Later(started, StallTimeout)
            /\ failure' = Later(failure, RetryDelay)
            /\ quiet' = QuietLater
            /\ pc' = IF asset \in {"FAILED", "FINISHED"} THEN "idle" ELSE "gate"
            /\ UNCHANGED <<asset, attempt, got, seenSync, fulfilled, overrun, waived>>
  /\ UNCHANGED <<chain, enforced, next, events>>

\* Past SPORKS, wait for the block chain.
Gate(lock) ==
  /\ pc = "gate"
  /\ IsBlockchainSynced(lock)
  /\ pc' = IF ~ fBlockchainSynced' /\ asset' \notin {"INITIAL", "SPORKS"}
           THEN "idle" ELSE "stall"
  /\ UNCHANGED <<fulfilled, enforced, next, events>>

\* Mutant: a stage waits for its peers, as long as it takes.
NeverStalled(a, age) == FALSE

\* "Advance the sync asset by time when it stalls."
Stalled(a, age) == a # "INITIAL" /\ age > StallTimeout

\* Mutant: only the list is needed.
ListMissing(a, have) == a = "LIST" /\ a \notin have

\* The data without which an enforcing node must not go on.
Missing(a, have) == a \in {"LIST", "MNW"} /\ a \notin have

Stall ==
  /\ pc = "stall"
  /\ IF Stalled(asset, started)
     THEN Leave(IF enforced /\ Missing(asset, got) THEN "FAILED" ELSE NextAsset(asset))
     ELSE pc' = "ask" /\ UNCHANGED <<next, attempt, waived>>
  /\ UNCHANGED <<asset, timers, got, seenSync, fulfilled, chain, enforced,
                 overrun, events>>

-----------------------------------------------------------------------------
\* The loop over vNodes.

RequestFor(a) ==
  CASE a = "SPORKS" -> "getspork"
    [] a = "LIST"   -> "mnsync"
    [] a = "MNW"    -> "mnwsync"
    [] a = "BUDGET" -> "busync"

\* Peers the stage may ask that are not marked yet.
Unasked(a) ==
  {p \in IF a = "SPORKS" THEN Peer ELSE Current : RequestFor(a) \notin fulfilled[p]}

\* The first of them is marked.
Mark(a) ==
  LET first == CHOOSE p \in Unasked(a) : \A q \in Unasked(a) : p <= q
  IN  fulfilled' = [fulfilled EXCEPT ![first] = @ \cup {RequestFor(a)}]

Return == pc' = "idle" /\ UNCHANGED <<next, waived>>

Send == Return /\ attempt' = attempt + 1

SendOrReturn == IF attempt >= Threshold * 3 THEN Return /\ UNCHANGED attempt ELSE Send

\* Here the attempt is counted even after GetNextAsset has cleared the count.
AskSporks ==
  /\ asset = "SPORKS"
  /\ Unasked(asset) # {}
  /\ Mark(asset)
  /\ IF attempt >= 2
     THEN next' = NextAsset(asset) /\ pc' = "write" /\ attempt' = 1 /\ UNCHANGED waived
     ELSE Send

\* Nothing new came for a while, and enough peers were asked.
Complete(a) == a \in got /\ quiet[a] > Quiet /\ attempt >= Threshold

\* Nobody had anything.
Exhausted(a) ==
  a \notin got /\ (attempt >= Threshold * 3 \/ started > StallTimeout)

AskData ==
  /\ asset \in {"LIST", "MNW"}
  /\ Current # {}
  /\ \/ /\ Complete(asset)
        /\ Leave(NextAsset(asset))
        /\ UNCHANGED fulfilled
     \/ /\ ~ Complete(asset)
        /\ Unasked(asset) # {}
        /\ Mark(asset)
        /\ IF Exhausted(asset) THEN Leave(GiveUp(asset)) ELSE SendOrReturn

AskBudget ==
  /\ asset = "BUDGET"
  /\ Current # {}
  /\ \/ /\ Complete(asset) \/ Exhausted(asset)
        /\ Leave(NextAsset(asset))
        /\ UNCHANGED fulfilled
     \/ /\ ~ Complete(asset) /\ ~ Exhausted(asset)
        /\ Unasked(asset) # {}
        /\ Mark(asset)
        /\ SendOrReturn

\* The loop ends without a request, or TRY_LOCK(cs_vNodes) failed.
AskNobody ==
  /\ \/ Contention
     \/ asset \in {"INITIAL", "FAILED", "FINISHED"}
     \/ asset = "SPORKS" /\ Unasked(asset) = {}
     \/ asset \in Data /\ Current = {}
     \/ asset \in {"LIST", "MNW"} /\ Unasked(asset) = {} /\ ~ Complete(asset)
     \/ /\ asset = "BUDGET" /\ Unasked(asset) = {}
        /\ ~ Complete(asset) /\ ~ Exhausted(asset)
  /\ Return
  /\ UNCHANGED <<attempt, fulfilled>>

Ask ==
  /\ pc = "ask"
  /\ AskSporks \/ AskData \/ AskBudget \/ AskNobody
  /\ UNCHANGED <<asset, timers, got, seenSync, chain, enforced, overrun, events>>

\* The writes of GetNextAsset, or of a failed sync, reach the other threads.
Write ==
  /\ pc = "write"
  /\ asset' = next
  /\ IF next = "FAILED" THEN failure' = 0 /\ UNCHANGED started
     ELSE started' = 0 /\ UNCHANGED failure
  /\ pc' = "idle"
  /\ next' = "INITIAL"
  /\ UNCHANGED <<attempt, got, quiet, seenSync, fulfilled, chain, enforced,
                 overrun, waived, events>>

-----------------------------------------------------------------------------
\* Other threads and the world.

\* A message handler asks whether the block chain is synced.
HandlerIsBlockchainSynced(lock) ==
  /\ IsBlockchainSynced(lock)
  /\ UNCHANGED <<fulfilled, enforced, pc, next, events>>

\* Mutant: every item counts as news, however often it comes.
AlwaysNews(count, known) == TRUE

\* An item the node knows is news MASTERNODE_SYNC_THRESHOLD times.
News(count, known) == known => count < Threshold

\* AddedMasternodeList, AddedMasternodeWinner, AddedBudgetItem: known, if the
\* manager of d has the item already.
Added(d, i, known) ==
  /\ News(seenSync[d][i], known)
  /\ got' = got \cup {d}
  /\ quiet' = [quiet EXCEPT ![d] = 0]
  /\ seenSync' = [seenSync EXCEPT ![d][i] = IF known THEN @ + 1 ELSE IF @ = 0 THEN 1 ELSE @]
  /\ UNCHANGED <<asset, attempt, started, failure, fulfilled, chain, enforced, pc,
                 next, overrun, waived, events>>

\* mnsync reset
RpcReset ==
  /\ events < MaxEvents
  /\ events' = events + 1
  /\ Reset
  /\ UNCHANGED <<fulfilled, chain, enforced, pc, next>>

\* The machine sleeps for more than an hour.
Sleep ==
  /\ events < MaxEvents
  /\ events' = events + 1
  /\ slept' = TRUE
  /\ recent' = FALSE
  /\ started' = StallTimeout + 1
  /\ failure' = RetryDelay + 1
  /\ quiet' = [d \in Data |-> IF d \in got THEN Quiet + 1 ELSE 0]
  /\ UNCHANGED <<asset, attempt, got, seenSync, fulfilled, fBlockchainSynced,
                 enforced, pc, next, overrun, waived>>

\* A peer is replaced by another.
Reconnect(p) ==
  /\ events < MaxEvents
  /\ events' = events + 1
  /\ fulfilled' = [fulfilled EXCEPT ![p] = {}]
  /\ UNCHANGED <<asset, attempt, timers, got, seenSync, chain, enforced, pc, next,
                 overrun, waived>>

\* What IsSporkActive(SPORK_8) says changes, with a spork message or the time.
\* Process asks it anew at every decision.
Spork8Changes ==
  /\ events < MaxEvents
  /\ events' = events + 1
  /\ enforced' = ~ enforced
  /\ UNCHANGED <<asset, attempt, timers, got, seenSync, fulfilled, chain, pc, next,
                 overrun, waived>>

\* Block download catches up.
CatchUp ==
  /\ ~ recent
  /\ recent' = TRUE
  /\ UNCHANGED <<asset, attempt, timers, got, seenSync, fulfilled,
                 fBlockchainSynced, slept, enforced, pc, next, overrun, waived, events>>

Process == Begin \/ (\E lock \in BOOLEAN : Gate(lock)) \/ Stall \/ Ask \/ Write

SyncNext ==
  \/ Process
  \/ \E lock \in BOOLEAN : HandlerIsBlockchainSynced(lock)
  \/ \E d \in Data, i \in Item, known \in BOOLEAN : Added(d, i, known)
  \/ RpcReset
  \/ Sleep
  \/ \E p \in Peer : Reconnect(p)
  \/ Spork8Changes
  \/ CatchUp

SyncSpec == SyncInit /\ [][SyncNext]_syncVars

-----------------------------------------------------------------------------
\* Properties

\* A node gets past a stage without its data only if SPORK_8 was off when it
\* left the stage: "only fail open for those stages when masternode payment
\* enforcement is inactive" (Process), in whatever order items, sporks, resets
\* and sleeps come, unless a Reset by another thread was overrun by
\* GetNextAsset. (SPORK_8 may come on afterwards; nothing makes up for it.)
SyncedHasData ==
  ~ overrun =>
    /\ asset \in {"MNW", "BUDGET", "FINISHED"} => "LIST" \in got \cup waived
    /\ asset \in {"BUDGET", "FINISHED"} => "MNW" \in got \cup waived

\* Process runs every few seconds; a TRY_LOCK that is tried for ever succeeds
\* at some time; the block download ends.
SyncFairSpec ==
  /\ SyncSpec
  /\ WF_syncVars(Process)
  /\ SF_syncVars(Gate(TRUE))
  /\ WF_syncVars(CatchUp)

\* Once SPORK_8 stays off the sync ends and stays ended, even when no peer has
\* any data ("leaves the asset stuck forever (so IsSynced() is never reached)").
SyncEnds == <>[](~ enforced => asset = "FINISHED")

\* A failed sync is tried again ("Sync has failed, will retry later").
FailureIsRetried == (asset = "FAILED") ~> (asset = "SPORKS")
=============================================================================
