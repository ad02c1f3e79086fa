--------------------------- MODULE ScriptVerdict ---------------------------
(***************************************************************************)
(* What CCheckQueueControl promises to ConnectBlock: after it is created,  *)
(* checks are added, and Wait returns whether every one of them passes.    *)
(* There are no threads here, only the answer.                             *)
(***************************************************************************)
CONSTANTS
  Check,   \* script checks
  Failing  \* those whose operator() returns false

VARIABLES phase, added, result

vars == <<phase, added, result>>

Init ==
  /\ phase = "done"
  /\ added = {}
  /\ result = TRUE

\* CCheckQueueControl is constructed.
Start ==
  /\ phase = "done"
  /\ phase' = "open"
  /\ added' = {}
  /\ UNCHANGED result

Add(S) ==
  /\ phase = "open"
  /\ S \cap added = {}
  /\ added' = added \cup S
  /\ UNCHANGED <<phase, result>>

\* "return whether all evaluations where successful"
Wait ==
  /\ phase = "open"
  /\ phase' = "done"
  /\ result' = (added \cap Failing = {})
  /\ UNCHANGED added

Next == Start \/ (\E S \in SUBSET Check : Add(S)) \/ Wait

Spec == Init /\ [][Next]_vars
=============================================================================
