--------------------------- MODULE MasternodeList ---------------------------
(* What a node knows of a masternode (src/masternodeman.cpp and the          *)
(* broadcasts and pings of src/masternode.cpp): the entry of its list, the   *)
(* broadcasts and pings it has seen and whether it asked a peer for the      *)
(* entry. Entries of different masternodes do not touch each other, so one   *)
(* masternode is modelled. It announces itself with broadcasts, the versions *)
(* 1, 2, ... in the order of their signature times, each signed with the     *)
(* configured key (masternodeprivkey) or with a new one, and pings while it  *)
(* runs. Messages are lost, repeated, delayed and reordered. Signature times *)
(* are ages that grow with Tick.                                             *)
EXTENDS Integers, FiniteSets

CONSTANTS
  MaxVersion,    \* bound on broadcasts of the masternode
  MaxStops,      \* bound on stops of the masternode
  MinPing,       \* MASTERNODE_MIN_MNP_SECONDS less a minute, between two pings
  MinBroadcast,  \* MASTERNODE_MIN_MNB_SECONDS, between two broadcasts
  Window,        \* a ping is taken for an hour
  Expiration,    \* MASTERNODE_EXPIRATION_SECONDS
  Removal,       \* MASTERNODE_REMOVAL_SECONDS
  Forgetting,    \* MASTERNODE_REMOVAL_SECONDS * 2, after which a broadcast is forgotten
  AskAgain,      \* a node asks for an entry once in this time
  None           \* no entry; not seen

ASSUME ListAssumption ==
  /\ MaxVersion \in Nat \ {0} /\ MaxStops \in Nat
  /\ MinPing \in Nat \ {0} /\ MinBroadcast \in Nat /\ AskAgain \in Nat \ {0}
  /\ Window \in Nat /\ Expiration \in Nat /\ Removal \in Nat /\ Forgetting \in Nat
  /\ MinPing <= Window /\ Window < Expiration
  /\ Expiration < Removal /\ Removal < Forgetting
  /\ None \notin Int

Version == 1..MaxVersion
Old == Forgetting + 1
Age == 0..Old
Older(a) == IF a = Old THEN Old ELSE a + 1
Ping == [key : Version, age : Age]
Entry == [state : {"enabled", "expired", "remove", "spent"}, ver : Version, pAge : Age]

VARIABLES
  running,     \* the masternode runs and pings
  version,     \* its last broadcast
  keyOf,       \* pubKeyMasternode of each broadcast, named by the first that has it
  early,       \* the broadcasts signed before the collateral had its confirmations
  born,        \* how long ago each was signed, no longer than MinBroadcast
  sent,        \* the pings peers still have, alone or in a broadcast
  stops,       \* counts its stops
  collateral,  \* what this node's chain says of the collateral
  entry,       \* in vMasternodes: its broadcast, activeState and the age of lastPing
  seen,        \* mapSeenMasternodeBroadcast: the age of lastPing in each
  seenPings,   \* mapSeenMasternodePing: those that could still be taken
  askedFor     \* mWeAskedForMasternodeListEntry: time until it may ask again

mnVars == <<running, version, keyOf, early, born, sent, stops>>
vars == <<mnVars, collateral, entry, seen, seenPings, askedFor>>

TypeOK ==
  /\ running \in BOOLEAN /\ version \in Version /\ stops \in 0..MaxStops
  /\ keyOf \in [Version -> Version] /\ early \subseteq Version
  /\ born \in [Version -> 0..MinBroadcast]
  /\ sent \subseteq Ping /\ seenPings \subseteq Ping
  /\ collateral \in {"good", "bad"}
  /\ entry = None \/ entry \in Entry
  /\ seen \in [Version -> Age \cup {None}]
  /\ askedFor \in 0..AskAgain

NothingSeen == [v \in Version |-> None]

Init ==
  /\ running = TRUE /\ version = 1 /\ stops = 0
  /\ keyOf = [v \in Version |-> 1]
  /\ early \in {{}, {1}}
  /\ born = [v \in Version |-> 0]
  /\ sent = {[key |-> 1, age |-> 0]}
  /\ collateral \in {"good", "bad"}
  /\ entry = None /\ seen = NothingSeen /\ seenPings = {}
  /\ askedFor = 0

(* ---------------------- The masternode and the time --------------------- *)

NewPing == [key |-> keyOf[version], age |-> 0]

SendPing ==
  /\ running
  /\ NewPing \notin sent
  /\ sent' = sent \cup {NewPing}
  /\ UNCHANGED <<running, version, keyOf, early, born, stops, collateral, entry, seen, seenPings, askedFor>>

\* A new broadcast, with a ping in it. The key is the configured one; a new one
\* needs a new configuration and so a stop. Of two broadcasts the later one can
\* only be signed too early if the first was.
NewBroadcast ==
  /\ version < MaxVersion
  /\ version' = version + 1
  /\ \/ keyOf' = [keyOf EXCEPT ![version + 1] = keyOf[version]]
     \/ ~running /\ keyOf' = [keyOf EXCEPT ![version + 1] = version + 1]
  /\ \/ early' = early
     \/ version \in early /\ early' = early \cup {version + 1}
  /\ running' = TRUE
  /\ sent' = sent \cup {NewPing'}
  /\ UNCHANGED <<born, stops, collateral, entry, seen, seenPings, askedFor>>

StartStop ==
  /\ running => stops < MaxStops
  /\ stops' = IF running THEN stops + 1 ELSE stops
  /\ running' = ~running
  /\ UNCHANGED <<version, keyOf, early, born, sent, collateral, entry, seen, seenPings, askedFor>>

\* Blocks and transactions with the collateral and with a spend of it; a
\* reorganisation takes them back.
CollateralStep ==
  /\ collateral' = IF collateral = "good" THEN "bad" ELSE "good"
  /\ UNCHANGED <<mnVars, entry, seen, seenPings, askedFor>>

Aged(pings, limit) ==
  {[p EXCEPT !.age = Older(@)] : p \in {q \in pings : q.age < limit}}

\* While it runs the masternode pings before the next tick. Peers offer a
\* broadcast as long as they remember it.
Tick ==
  /\ running => NewPing \in sent
  /\ born' = [v \in Version |-> IF v <= version /\ born[v] < MinBroadcast THEN born[v] + 1 ELSE born[v]]
  /\ sent' = Aged(sent, Forgetting)
  /\ entry' = IF entry = None THEN None ELSE [entry EXCEPT !.pAge = Older(@)]
  /\ seen' = [v \in Version |-> IF seen[v] = None THEN None ELSE Older(seen[v])]
  /\ seenPings' = Aged(seenPings, Window - 1)
  /\ askedFor' = IF askedFor = 0 THEN 0 ELSE askedFor - 1
  /\ UNCHANGED <<running, version, keyOf, early, stops, collateral>>

(* ------------------------------- The list ------------------------------- *)

InputsAcceptable == collateral = "good"

\* CMasternode::Check, which leaves the entry as it is when cs_main is taken.
Checked(e) ==
  IF e.state = "spent" THEN {e}
  ELSE IF e.pAge >= Removal THEN {[e EXCEPT !.state = "remove"]}
  ELSE IF e.pAge >= Expiration THEN {[e EXCEPT !.state = "expired"]}
  ELSE {e, [e EXCEPT !.state = IF InputsAcceptable THEN "enabled" ELSE "spent"]}

AskForMNLater == askedFor' = IF askedFor > 0 THEN askedFor ELSE AskAgain + 1

AskForMN == askedFor' = IF askedFor > 0 THEN askedFor ELSE AskAgain

PingAnyTime(e, p) == TRUE

\* The time between the ping and the last one the entry has.
NotTooEarly(e, p) == e.pAge - p.age >= MinPing

\* A ping that reaches the list: it is too old, or for no entry (the node asks
\* for the entry), or ignored, or has another key (it asks), or its block is
\* not known or too old, or it is taken.
UsePing(p) ==
  \/ /\ p.age >= Window \/ entry = None
     /\ AskForMN
     /\ UNCHANGED <<entry, seen>>
  \/ /\ p.age < Window /\ entry # None
     /\ entry.state # "enabled" \/ ~NotTooEarly(entry, p)
     /\ UNCHANGED <<entry, seen, askedFor>>
  \/ /\ p.age < Window /\ entry # None
     /\ entry.state = "enabled" /\ NotTooEarly(entry, p)
     /\ IF keyOf[entry.ver] # p.key
          THEN AskForMN /\ UNCHANGED <<entry, seen>>
          ELSE /\ UNCHANGED askedFor
               /\ \/ UNCHANGED <<entry, seen>>
                  \/ /\ entry' \in Checked([entry EXCEPT !.pAge = p.age])
                     /\ seen' = [seen EXCEPT ![entry.ver] = IF @ = None THEN None ELSE p.age]

\* "mnp"
ReceivePing(p) ==
  /\ p \in sent \ seenPings
  /\ p.age <= Window
  /\ seenPings' = seenPings \cup {p}
  /\ UsePing(p)
  /\ UNCHANGED <<mnVars, collateral>>

\* CheckInputsAndAdd without an enabled entry: the old one goes. A broadcast
\* whose collateral is too young, or that finds cs_main taken, is to be checked
\* again and is not remembered; one whose inputs are refused, or that was
\* signed before the collateral had its confirmations, stays seen.
CheckInputsAndAdd(v, a) ==
  \/ /\ entry' = None
     /\ seen' = [seen EXCEPT ![v] = None]
  \/ /\ ~InputsAcceptable \/ v \in early
     /\ entry' = None
     /\ seen' = [seen EXCEPT ![v] = a]
  \/ /\ InputsAcceptable /\ v \notin early
     /\ entry' = [state |-> "enabled", ver |-> v, pAge |-> a]
     /\ seen' = [seen EXCEPT ![v] = a]

\* UpdateFromNewBroadcast: the ping in the broadcast counts if it would have
\* been taken for itself. (Alone it is then too early, seen or not.)
Updated(e, v, a) ==
  LET new == [e EXCEPT !.ver = v]
      p   == [key |-> keyOf[v], age |-> a]
  IN  {new} \cup {[new EXCEPT !.pAge = q.age] : q \in {x \in {p} : a < Window /\ NotTooEarly(e, x)}}

AlwaysNewer(v) == TRUE

IsNewer(v) == entry.ver <= v

\* "mnb" not seen before, for an enabled entry: an older one is dropped, a
\* newer one taken unless the last broadcast was only just made. All of them
\* are remembered as seen. The inputs are checked again if the update
\* disabled the entry.
UpdateEnabled(v, a) ==
  IF v > entry.ver /\ born[entry.ver] >= MinBroadcast
    THEN \E u \in Updated(entry, v, a) : \E e \in Checked(u) :
           IF e.state = "enabled"
             THEN entry' = e /\ seen' = [seen EXCEPT ![v] = a]
             ELSE CheckInputsAndAdd(v, a)
    ELSE UNCHANGED entry /\ seen' = [seen EXCEPT ![v] = a]

UseBroadcast(v, a) ==
  \/ seen[v] # None /\ UNCHANGED <<entry, seen>>
  \/ /\ seen[v] = None /\ entry # None
     /\ ~IsNewer(v)
     /\ UNCHANGED entry /\ seen' = [seen EXCEPT ![v] = a]
  \/ /\ seen[v] = None /\ entry # None
     /\ IsNewer(v) /\ entry.state = "enabled"
     /\ UpdateEnabled(v, a)
  \/ /\ seen[v] = None
     /\ entry # None => IsNewer(v) /\ entry.state # "enabled"
     /\ CheckInputsAndAdd(v, a)

\* A broadcast any peer relays, with a ping of its key any peer has.
ReceiveBroadcast(v, p) ==
  /\ v <= version /\ p.key = keyOf[v]
  /\ UseBroadcast(v, p.age)
  /\ UNCHANGED <<mnVars, collateral, seenPings, askedFor>>

\* The peer that was asked answers with the broadcast of its enabled entry. A
\* question or an answer that is lost is one that never comes.
ReplyDseg ==
  /\ askedFor > 0
  /\ \E v \in 1..version : \E p \in sent :
       p.key = keyOf[v] /\ p.age < Expiration /\ UseBroadcast(v, p.age)
  /\ UNCHANGED <<mnVars, collateral, seenPings, askedFor>>

\* "dseg" of a peer: the broadcast of an enabled entry is remembered.
ServeDseg ==
  /\ entry # None /\ entry.state = "enabled"
  /\ seen' = [seen EXCEPT ![entry.ver] = IF @ = None THEN entry.pAge ELSE @]
  /\ UNCHANGED <<mnVars, collateral, entry, seenPings, askedFor>>

Check ==
  /\ entry # None
  /\ entry' \in Checked(entry)
  /\ UNCHANGED <<mnVars, collateral, seen, seenPings, askedFor>>

StaysSeen(s) == s

Unexpired(s) == [v \in Version |-> IF s[v] = Old THEN None ELSE s[v]]

RemoveSpentOnly(e, expiredToo) ==
  IF e.state = "spent" \/ (expiredToo /\ e.state = "expired")
    THEN entry' = None /\ seen' = NothingSeen /\ askedFor' = 0
    ELSE entry' = e /\ seen' = Unexpired(seen) /\ UNCHANGED askedFor

\* With an entry every broadcast of the masternode is forgotten, so that it can
\* come back without a new one; others when their ping is old.
RemoveChecked(e, expiredToo) ==
  IF e.state \in {"remove", "spent"} \/ (expiredToo /\ e.state = "expired")
    THEN entry' = None /\ seen' = NothingSeen /\ askedFor' = 0
    ELSE entry' = e /\ seen' = Unexpired(seen) /\ UNCHANGED askedFor

CheckList(expiredToo) ==
  IF entry = None
    THEN seen' = Unexpired(seen) /\ UNCHANGED <<entry, askedFor>>
    ELSE \E e \in Checked(entry) : RemoveChecked(e, expiredToo)

CheckAndRemove ==
  /\ CheckList(FALSE)
  /\ UNCHANGED <<mnVars, collateral, seenPings>>

\* A clean shutdown writes list and maps to mncache.dat; the start after it
\* removes what expired.
Restart ==
  /\ CheckList(TRUE)
  /\ UNCHANGED <<mnVars, collateral, seenPings>>

FreshPing == \E p \in sent : p.key = keyOf[version] /\ p.age < Window /\ ReceivePing(p)

Next ==
  \/ SendPing
  \/ NewBroadcast
  \/ StartStop
  \/ CollateralStep
  \/ Tick
  \/ \E p \in sent : ReceivePing(p)
  \/ \E v \in Version : \E p \in sent : ReceiveBroadcast(v, p)
  \/ ReplyDseg
  \/ ServeDseg
  \/ Check
  \/ CheckAndRemove
  \/ Restart

Spec == Init /\ [][Next]_vars

\* Time passes, a running masternode pings and the list is checked every
\* minute. Of the messages sent again and again some arrive, and of the
\* answers some find cs_main free.
FairSpec ==
  /\ Spec
  /\ WF_vars(Tick) /\ WF_vars(SendPing) /\ WF_vars(CheckAndRemove)
  /\ SF_vars(FreshPing) /\ SF_vars(ReplyDseg /\ entry' # None)

(* ------------------------------ Properties ------------------------------ *)

\* Whatever the order in which broadcasts arrive, the list never goes back to
\* an older one while it has an entry (CMasternodeBroadcast::CheckAndUpdate,
\* also when an entry that is not enabled is replaced).
NeverRollsBack ==
  [][entry # None /\ entry' # None => entry'.ver >= entry.ver]_vars

\* Whatever the order in which pings and broadcasts arrive, and whether or not
\* they share a key, nothing but the clock makes a masternode look more silent
\* than it was known to be while its entry is alive. (Only an entry that has
\* expired or whose collateral was spent is replaced by a late broadcast with
\* whatever ping that carries: CheckInputsAndAdd compares none.)
PingsMoveForward ==
  [][entry # None /\ entry' # None /\ entry'.pAge > entry.pAge
       => Tick \/ entry.pAge >= Expiration \/ entry.state = "spent"]_vars

\* A masternode that runs with a good collateral, and whose last broadcast was
\* signed after the collateral had its confirmations, is listed again and again,
\* however it was lost: entries expired and removed, broadcasts refused and
\* remembered as seen, answers lost ("this will allow is to get it back without
\* them sending a brand new mnb", CheckAndRemove).
ListedAgain ==
  <>[](running /\ collateral = "good" /\ version \notin early) => []<>(entry # None)

\* A masternode that stopped leaves the list for good, although peers still
\* relay its broadcasts for a while.
GoneIsRemoved == <>[](~running) => <>[](entry = None)
=============================================================================
