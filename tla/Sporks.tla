------------------------------- MODULE Sporks -------------------------------
(* The switches the holder of the spork key sends to the network             *)
(* (src/spork.cpp). A node keeps every message it was sent and, for each     *)
(* spork, the one it goes by; nothing of it is kept over a restart. Whether  *)
(* the value of a spork lies in the past (IsSporkActive compares it with the *)
(* clock) is part of the message here.                                       *)
EXTENDS Naturals

CONSTANTS
  SporkId,        \* the sporks: enforcement of payees and budgets, superblocks, reset
  SporkMsg,       \* the signed messages: records with an id, a time and whether it turns it on
  SporkDefault,   \* what holds for a spork no message was received for
  NoSpork         \* no message

ASSUME SporkAssumption ==
  /\ SporkMsg \subseteq [id : SporkId, time : Nat, on : BOOLEAN]
  /\ SporkDefault \in [SporkId -> BOOLEAN]
  /\ NoSpork \notin SporkMsg
  /\ \A m, n \in SporkMsg : m.id = n.id /\ m.time = n.time => m = n

VARIABLES
  mapSporks,       \* the messages received or signed here
  mapSporksActive  \* for each spork the message that counts, or NoSpork

sporkVars == <<mapSporks, mapSporksActive>>

SporkTypeOK ==
  /\ mapSporks \subseteq SporkMsg
  /\ mapSporksActive \in [SporkId -> SporkMsg \cup {NoSpork}]

SporkInit ==
  /\ mapSporks = {}
  /\ mapSporksActive = [i \in SporkId |-> NoSpork]

IsSporkActive(i) ==
  IF mapSporksActive[i] = NoSpork THEN SporkDefault[i] ELSE mapSporksActive[i].on

StoreSpork(m) ==
  /\ mapSporks' = mapSporks \cup {m}
  /\ mapSporksActive' = [mapSporksActive EXCEPT ![m.id] = m]

SporkIsNewsById(m) == m \notin mapSporks

\* A message no newer than the one that counts is dropped.
SporkIsNews(m) ==
  mapSporksActive[m.id] # NoSpork => mapSporksActive[m.id].time < m.time

\* A received message with a good signature. The caller executes it as well.
ProcessSpork(m) == SporkIsNews(m) /\ StoreSpork(m)

\* The holder of the key signs a message now, later than all it has seen. It
\* stores it without looking at what it has and does not execute it.
UpdateSpork(m) ==
  /\ \A n \in mapSporks : n.time < m.time
  /\ StoreSpork(m)

\* A node goes by the newest of the messages it received, in whatever order
\* they came (spork.cpp:43): two nodes that received the same messages agree.
SporkIsNewest ==
  \A m \in mapSporks :
    /\ mapSporksActive[m.id] \in mapSporks
    /\ mapSporksActive[m.id].id = m.id
    /\ mapSporksActive[m.id].time >= m.time
=============================================================================
