-------------------------- MODULE CheckQueueProofs --------------------------
(* Theorems about CheckQueue, for any finite number of workers and checks   *)
(* and any batch size.                                                      *)
EXTENDS CheckQueue, FiniteSetTheorems, TLAPS

-----------------------------------------------------------------------------
\* Finite sets.

LEMMA ThreadFinite == IsFiniteSet(Thread)
BY QueueAssumption, FS_AddElement DEF Thread

LEMMA SubsetCard ==
  ASSUME NEW S, IsFiniteSet(S), NEW T \in SUBSET S
  PROVE  IsFiniteSet(T) /\ Cardinality(T) \in Nat
BY FS_Subset, FS_CardinalityType

LEMMA AddOne ==
  ASSUME NEW S, IsFiniteSet(S), NEW x, x \notin S
  PROVE  Cardinality(S \cup {x}) = Cardinality(S) + 1
BY FS_AddElement

LEMMA DifferenceCard ==
  ASSUME NEW S, IsFiniteSet(S), NEW T \in SUBSET S
  PROVE  Cardinality(S \ T) = Cardinality(S) - Cardinality(T)
<1>1. IsFiniteSet(S \ T) /\ Cardinality(S \ T) = Cardinality(S) - Cardinality(S \cap T)
  BY FS_Difference
<1>2. S \cap T = T
  OBVIOUS
<1> QED BY <1>1, <1>2

-----------------------------------------------------------------------------
\* The critical section, seen from the thread t that is in it: what the other
\* threads and the queue hold.
Rest(t) == queue \cup UNION {batch[u] : u \in Thread \ {t}}
OthersAsleep(t) == {u \in Thread \ {t} : pc[u] \in {"waiting", "notified"}}
OthersInLoop(t) ==
  {u \in Thread \ {t} : batch[u] # {} \/ pc[u] \in {"waiting", "notified"}}

\* What the first part of the critical section hands to the second.
Handover(t, idle, total, ok, todo, places) ==
  /\ pc[t] \notin {"out", "adding"}
  /\ places \in [Thread -> PC]
  /\ \A u \in Thread : \/ places[u] = pc[u]
                       \/ pc[u] = "waiting" /\ places[u] = "notified"
  /\ idle = Cardinality(OthersAsleep(t)) + Cardinality(interrupted)
  /\ total = Cardinality(OthersInLoop(t)) + 1 + Cardinality(interrupted)
  /\ ok \in BOOLEAN
  /\ ~ ok => added \cap Failing # {}
  /\ pc[Master] # "out" /\ ok => (added \ Rest(t)) \cap Failing = {}
  /\ pc[Master] = "out" => Rest(t) = {} /\ ok
  /\ todo = Cardinality(Rest(t))

\* The master neither returns nor starts, or it returns the right verdict.
VerdictStep ==
  /\ added' = added
  /\ \/ (pc[Master] = "out" <=> pc'[Master] = "out") /\ result' = result
     \/ /\ pc[Master] # "out" /\ pc'[Master] = "out"
        /\ result' = (added \cap Failing = {})

LEMMA OutstandingFacts ==
  ASSUME QueueInv, NEW t \in Thread
  PROVE  /\ Outstanding \subseteq Check /\ IsFiniteSet(Outstanding)
         /\ Rest(t) = Outstanding \ batch[t]
         /\ batch[t] \subseteq Outstanding
         /\ IsFiniteSet(Rest(t)) /\ Rest(t) \subseteq added
<1>1. Outstanding \subseteq Check
  BY DEF QueueInv, TypeOK, Outstanding
<1>2. batch[t] \subseteq Outstanding
  BY DEF Outstanding
<1>3. Rest(t) = Outstanding \ batch[t]
  BY DEF QueueInv, TodoIsOutstanding, Outstanding, Rest
<1>4. Outstanding \subseteq added
  BY DEF QueueInv, StatusMatches
<1>5. IsFiniteSet(Outstanding) /\ IsFiniteSet(Outstanding \ batch[t])
  BY <1>1, QueueAssumption, FS_Subset
<1> QED BY <1>1, <1>2, <1>3, <1>4, <1>5

\* The three outcomes of the critical section in one form: t takes X from the
\* queue and goes to place p.
SectionOutcome(t, idle, total, ok, places, X, p) ==
  /\ X \in SUBSET queue
  /\ queue' = queue \ X
  /\ batch' = [batch EXCEPT ![t] = X]
  /\ pc' = [places EXCEPT ![t] = p]
  /\ fOk' = IF p = "working" THEN [fOk EXCEPT ![t] = ok] ELSE fOk
  /\ nIdle' = IF p = "waiting" THEN idle + 1 ELSE idle
  /\ nTotal' = IF p = "out" THEN total - 1 ELSE total
  /\ fAllOk' = IF p = "out" THEN TRUE ELSE ok
  /\ result' = IF p = "out" THEN ok ELSE result
  /\ p \in {"out", "waiting", "working"}
  /\ p = "working" <=> X # {}
  /\ UNCHANGED <<interrupted, added>>

LEMMA SectionHasOutcome ==
  ASSUME QueueInv, NEW t \in Thread, NEW idle, NEW total, NEW ok, NEW todo, NEW places,
         Section(t, idle, total, ok, todo, places)
  PROVE  /\ nTodo' = todo
         /\ \E X, p : /\ SectionOutcome(t, idle, total, ok, places, X, p)
                      /\ p = "out" => t = Master /\ queue = {} /\ todo = 0
<1>1. nTodo' = todo /\ UNCHANGED <<interrupted, added>>
  BY DEF Section
<1>2. CASE /\ queue = {} /\ t = Master /\ todo = 0
           /\ nIdle' = idle
           /\ nTotal' = total - 1
           /\ fAllOk' = ResetStatus(ok)
           /\ result' = ok
           /\ pc' = [places EXCEPT ![t] = "out"]
           /\ batch' = [batch EXCEPT ![t] = {}]
           /\ UNCHANGED <<queue, fOk>>
  <2>1. SectionOutcome(t, idle, total, ok, places, {}, "out")
    BY <1>1, <1>2 DEF SectionOutcome, ResetStatus
  <2> QED BY <1>1, <1>2, <2>1
<1>3. CASE /\ queue = {}
           /\ nIdle' = idle + 1
           /\ nTotal' = total
           /\ fAllOk' = ok
           /\ pc' = [places EXCEPT ![t] = "waiting"]
           /\ batch' = [batch EXCEPT ![t] = {}]
           /\ UNCHANGED <<queue, fOk, result>>
  <2>1. SectionOutcome(t, idle, total, ok, places, {}, "waiting")
    BY <1>1, <1>3 DEF SectionOutcome
  <2> QED BY <1>1, <2>1
<1>4. ASSUME NEW B \in SUBSET queue,
             /\ queue # {}
             /\ Cardinality(B) = BatchSize(Cardinality(queue), total, idle)
             /\ nIdle' = idle
             /\ nTotal' = total
             /\ fAllOk' = ok
             /\ queue' = queue \ B
             /\ batch' = [batch EXCEPT ![t] = B]
             /\ fOk' = [fOk EXCEPT ![t] = ok]
             /\ pc' = [places EXCEPT ![t] = "working"]
             /\ UNCHANGED result
      PROVE  \E X, p : /\ SectionOutcome(t, idle, total, ok, places, X, p)
                       /\ p = "out" => t = Master /\ queue = {} /\ todo = 0
  <2>1. B # {}
    <3>1. BatchSize(Cardinality(queue), total, idle) # 0
      BY DEF BatchSize
    <3> QED BY <1>4, <3>1, FS_EmptySet
  <2>2. SectionOutcome(t, idle, total, ok, places, B, "working")
    BY <1>1, <1>4, <2>1 DEF SectionOutcome
  <2> QED BY <2>2
<1> QED BY <1>1, <1>2, <1>3, <1>4 DEF Section

LEMMA SectionKeeps ==
  ASSUME QueueInv, NEW t \in Thread, NEW idle, NEW total, NEW ok, NEW todo, NEW places,
         Handover(t, idle, total, ok, todo, places),
         Section(t, idle, total, ok, todo, places)
  PROVE  QueueInv' /\ VerdictStep
<1>1. PICK X, p : /\ SectionOutcome(t, idle, total, ok, places, X, p)
                  /\ p = "out" => t = Master /\ queue = {} /\ todo = 0
  BY SectionHasOutcome
<1>2. nTodo' = todo
  BY SectionHasOutcome
<1>3. /\ IsFiniteSet(Rest(t)) /\ Rest(t) \subseteq added
      /\ Rest(t) \subseteq Check
  BY OutstandingFacts DEF QueueInv, TypeOK
<1>4. TypeOK
  BY DEF QueueInv
<1>5. /\ batch' \in [Thread -> SUBSET Check]
      /\ batch'[t] = X
      /\ \A u \in Thread \ {t} : batch'[u] = batch[u]
  BY <1>1, <1>4 DEF SectionOutcome, TypeOK
<1>6. /\ pc' \in [Thread -> PC]
      /\ pc'[t] = p
      /\ \A u \in Thread \ {t} : \/ pc'[u] = pc[u]
                                 \/ pc[u] = "waiting" /\ pc'[u] = "notified"
  BY <1>1 DEF SectionOutcome, Handover, PC
<1>7. /\ fOk' \in [Thread -> BOOLEAN]
      /\ \A u \in Thread \ {t} : fOk'[u] = fOk[u]
      /\ X # {} => fOk'[t] = ok
  BY <1>1, <1>4 DEF SectionOutcome, Handover, TypeOK
<1>8. Outstanding' = Rest(t)
  BY <1>1, <1>5 DEF Outstanding, Rest, SectionOutcome
<1>9. Master \in Thread /\ t \in Thread
  BY DEF Thread
<1>10. /\ IsFiniteSet(OthersAsleep(t)) /\ IsFiniteSet(OthersInLoop(t))
       /\ t \notin OthersAsleep(t) /\ t \notin OthersInLoop(t)
       /\ Cardinality(OthersAsleep(t)) \in Nat /\ Cardinality(OthersInLoop(t)) \in Nat
       /\ Cardinality(interrupted) \in Nat
       /\ IsFiniteSet(interrupted)
  <2>1. OthersAsleep(t) \in SUBSET Thread /\ OthersInLoop(t) \in SUBSET Thread
    BY DEF OthersAsleep, OthersInLoop
  <2>2. t \notin OthersAsleep(t) /\ t \notin OthersInLoop(t)
    BY DEF OthersAsleep, OthersInLoop
  <2>3. interrupted \in SUBSET Thread
    BY <1>4 DEF TypeOK
  <2> QED BY <2>1, <2>2, <2>3, ThreadFinite, SubsetCard
<1>11. CountersMatch'
  <2>1. interrupted' = interrupted
    BY <1>1 DEF SectionOutcome
  <2>2. Asleep' = IF p = "waiting" THEN OthersAsleep(t) \cup {t} ELSE OthersAsleep(t)
    BY <1>1, <1>6 DEF Asleep, OthersAsleep, SectionOutcome
  <2>3. InLoop' = IF p = "out" THEN OthersInLoop(t) ELSE OthersInLoop(t) \cup {t}
    <3>1. \A u \in Thread \ {t} : u \in InLoop' <=> u \in OthersInLoop(t)
      BY <1>5, <1>6 DEF InLoop, OthersInLoop
    <3>2. t \in InLoop' <=> p # "out"
      BY <1>1, <1>5, <1>6 DEF InLoop, SectionOutcome
    <3>3. InLoop' \subseteq Thread /\ OthersInLoop(t) \subseteq Thread
      BY DEF InLoop, OthersInLoop
    <3> QED BY <1>9, <1>10, <3>1, <3>2, <3>3
  <2>4. Cardinality(Asleep') = IF p = "waiting" THEN Cardinality(OthersAsleep(t)) + 1
                               ELSE Cardinality(OthersAsleep(t))
    BY <1>10, <2>2, AddOne
  <2>5. Cardinality(InLoop') = IF p = "out" THEN Cardinality(OthersInLoop(t))
                               ELSE Cardinality(OthersInLoop(t)) + 1
    BY <1>10, <2>3, AddOne
  <2> HIDE DEF Asleep, InLoop
  <2>6. /\ nIdle' = IF p = "waiting" THEN idle + 1 ELSE idle
        /\ nTotal' = IF p = "out" THEN total - 1 ELSE total
        /\ idle = Cardinality(OthersAsleep(t)) + Cardinality(interrupted)
        /\ total = Cardinality(OthersInLoop(t)) + 1 + Cardinality(interrupted)
    BY <1>1 DEF SectionOutcome, Handover
  <2> QED BY <1>10, <2>1, <2>4, <2>5, <2>6 DEF CountersMatch
<1>12. TodoIsOutstanding'
  <2>1. nTodo' = Cardinality(Outstanding')
    BY <1>2, <1>8 DEF Handover
  <2>2. \A u \in Thread : batch'[u] \cap queue' = {}
    BY <1>1, <1>5 DEF SectionOutcome, QueueInv, TodoIsOutstanding
  <2>3. \A u, v \in Thread : u # v => batch'[u] \cap batch'[v] = {}
    BY <1>1, <1>5 DEF SectionOutcome, QueueInv, TodoIsOutstanding
  <2> QED BY <2>1, <2>2, <2>3 DEF TodoIsOutstanding
<1>13. BatchesMatch'
  <2>1. \A u \in Thread : batch'[u] # {} => pc'[u] \in {"working", "enter"}
    BY <1>1, <1>5, <1>6 DEF SectionOutcome, QueueInv, BatchesMatch
  <2>2. \A u \in Thread : pc'[u] = "working" => batch'[u] # {}
    BY <1>1, <1>5, <1>6 DEF SectionOutcome, QueueInv, BatchesMatch
  <2>3. \A w \in Worker : pc'[w] # "adding"
    BY <1>1, <1>6 DEF SectionOutcome, QueueInv, BatchesMatch, Thread
  <2> QED BY <2>1, <2>2, <2>3 DEF BatchesMatch
<1>14. TypeOK'
  <2>1. nIdle' \in Nat /\ nTotal' \in Nat
    BY <1>1, <1>10 DEF SectionOutcome, Handover
  <2>2. nTodo' \in Nat
    BY <1>2, <1>3, FS_CardinalityType DEF Handover
  <2>3. fAllOk' \in BOOLEAN /\ result' \in BOOLEAN
    BY <1>1, <1>4 DEF SectionOutcome, Handover, TypeOK
  <2> QED BY <1>1, <1>4, <1>5, <1>6, <1>7, <2>1, <2>2, <2>3 DEF SectionOutcome, TypeOK
<1>15. p = "out" => Rest(t) = {} /\ pc'[Master] = "out" /\ pc[Master] # "out"
  <2>1. p = "out" => Cardinality(Rest(t)) = 0
    BY <1>1 DEF Handover
  <2>2. p = "out" => Rest(t) = {}
    BY <1>3, <2>1, FS_EmptySet
  <2> QED BY <1>1, <1>6, <2>2 DEF Handover
<1>16. p # "out" => (pc'[Master] = "out" <=> pc[Master] = "out")
  BY <1>6, <1>9 DEF Handover
<1>17. StatusMatches'
  <2>1. added' = added
    BY <1>1 DEF SectionOutcome
  <2>2. Outstanding' \subseteq added'
    BY <1>3, <1>8, <2>1
  <2>3. ~ fAllOk' => added' \cap Failing # {}
    BY <1>1, <2>1 DEF SectionOutcome, Handover
  <2>4. \A u \in Thread : batch'[u] # {} /\ ~ fOk'[u] => added' \cap Failing # {}
    BY <1>5, <1>7, <2>1 DEF Handover, QueueInv, StatusMatches
  <2>5. \A u \in Thread : pc'[u] = "enter" /\ fOk'[u] => batch'[u] \cap Failing = {}
    BY <1>1, <1>5, <1>6, <1>7 DEF SectionOutcome, QueueInv, StatusMatches
  <2>6. pc'[Master] # "out" /\ fAllOk' => (added' \ Outstanding') \cap Failing = {}
    BY <1>1, <1>8, <1>15, <1>16, <2>1 DEF SectionOutcome, Handover
  <2>7. pc'[Master] = "out" => Outstanding' = {} /\ fAllOk'
    BY <1>1, <1>8, <1>15, <1>16 DEF SectionOutcome, Handover
  <2> QED BY <2>2, <2>3, <2>4, <2>5, <2>6, <2>7 DEF StatusMatches
<1>18. VerdictStep
  <2>1. CASE p = "out"
    <3>1. ok <=> added \cap Failing = {}
      BY <1>15, <2>1 DEF Handover
    <3>2. result' = ok /\ ok \in BOOLEAN /\ added' = added
      BY <1>1, <2>1 DEF SectionOutcome, Handover
    <3> QED BY <1>15, <2>1, <3>1, <3>2 DEF VerdictStep
  <2>2. CASE p # "out"
    BY <1>1, <1>16, <2>2 DEF VerdictStep, SectionOutcome
  <2> QED BY <2>1, <2>2
<1> QED BY <1>11, <1>12, <1>13, <1>14, <1>17, <1>18 DEF QueueInv

-----------------------------------------------------------------------------
\* The three ways into the critical section.

LEMMA EnterHandover ==
  ASSUME QueueInv, NEW t \in Thread, pc[t] = "enter", batch[t] # {}
  PROVE  LET todo == nTodo - Cardinality(batch[t])
         IN  Handover(t, nIdle, nTotal, Accumulate(fAllOk, fOk[t]), todo,
                      NotifyMaster(t, todo))
<1> DEFINE todo == nTodo - Cardinality(batch[t])
           ok == Accumulate(fAllOk, fOk[t])
           places == NotifyMaster(t, todo)
<1>0. TypeOK /\ Master \in Thread
  BY DEF QueueInv, Thread
<1>1. places \in [Thread -> PC]
  BY <1>0 DEF NotifyMaster, TypeOK, PC
<1>2. \A u \in Thread : \/ places[u] = pc[u]
                        \/ pc[u] = "waiting" /\ places[u] = "notified"
  BY <1>0 DEF NotifyMaster, TypeOK
<1>3. Asleep = OthersAsleep(t)
  BY DEF Asleep, OthersAsleep
<1>4. InLoop = OthersInLoop(t) \cup {t} /\ t \notin OthersInLoop(t)
  BY DEF InLoop, OthersInLoop
<1>5. IsFiniteSet(OthersInLoop(t))
  BY ThreadFinite, FS_Subset DEF OthersInLoop
<1>6. Cardinality(InLoop) = Cardinality(OthersInLoop(t)) + 1
  BY <1>4, <1>5, AddOne
<1>7. /\ nIdle = Cardinality(OthersAsleep(t)) + Cardinality(interrupted)
      /\ nTotal = Cardinality(OthersInLoop(t)) + 1 + Cardinality(interrupted)
  BY <1>3, <1>6 DEF QueueInv, CountersMatch
<1>8. /\ IsFiniteSet(Outstanding) /\ batch[t] \subseteq Outstanding
      /\ Rest(t) = Outstanding \ batch[t]
  BY OutstandingFacts
<1>9. todo = Cardinality(Rest(t))
  BY <1>8, DifferenceCard DEF QueueInv, TodoIsOutstanding
<1>10. ok \in BOOLEAN /\ (~ ok => added \cap Failing # {})
  BY <1>0 DEF Accumulate, TypeOK, QueueInv, StatusMatches
<1>11. pc[Master] # "out"
  BY <1>8 DEF QueueInv, StatusMatches
<1>12. ok => (added \ Rest(t)) \cap Failing = {}
  <2>1. ok => batch[t] \cap Failing = {}
    BY DEF Accumulate, QueueInv, StatusMatches
  <2>2. ok => (added \ Outstanding) \cap Failing = {}
    BY <1>11 DEF Accumulate, QueueInv, StatusMatches
  <2> QED BY <1>8, <2>1, <2>2
<1> HIDE DEF todo, ok, places
<1>13. Handover(t, nIdle, nTotal, ok, todo, places)
  BY <1>1, <1>2, <1>7, <1>9, <1>10, <1>11, <1>12 DEF Handover
<1> QED BY <1>13 DEF todo, ok, places

LEMMA JoinHandover ==
  ASSUME QueueInv, NEW t \in Thread, pc[t] = "enter", batch[t] = {}
  PROVE  Handover(t, nIdle, nTotal + 1, fAllOk, nTodo, pc)
<1>1. TypeOK
  BY DEF QueueInv
<1>2. Asleep = OthersAsleep(t) /\ InLoop = OthersInLoop(t)
  BY DEF Asleep, OthersAsleep, InLoop, OthersInLoop
<1>3. Cardinality(OthersInLoop(t)) \in Nat /\ Cardinality(interrupted) \in Nat
  BY <1>1, ThreadFinite, SubsetCard DEF OthersInLoop, TypeOK
<1>4. /\ nIdle = Cardinality(OthersAsleep(t)) + Cardinality(interrupted)
      /\ nTotal + 1 = Cardinality(OthersInLoop(t)) + 1 + Cardinality(interrupted)
  BY <1>2, <1>3 DEF QueueInv, CountersMatch
<1>5. Rest(t) = Outstanding
  BY OutstandingFacts
<1> QED BY <1>1, <1>4, <1>5
     DEF Handover, QueueInv, TypeOK, StatusMatches, TodoIsOutstanding

LEMMA WakeHandover ==
  ASSUME QueueInv, NEW t \in Thread, pc[t] \in {"waiting", "notified"}
  PROVE  Handover(t, nIdle - 1, nTotal, fAllOk, nTodo, pc)
<1>1. TypeOK
  BY DEF QueueInv
<1>2. batch[t] = {}
  BY DEF QueueInv, BatchesMatch
<1>3. Asleep = OthersAsleep(t) \cup {t} /\ InLoop = OthersInLoop(t) \cup {t}
  BY DEF Asleep, OthersAsleep, InLoop, OthersInLoop
<1>4. /\ IsFiniteSet(OthersAsleep(t)) /\ Cardinality(OthersAsleep(t)) \in Nat
      /\ IsFiniteSet(OthersInLoop(t)) /\ Cardinality(OthersInLoop(t)) \in Nat
      /\ t \notin OthersAsleep(t) /\ t \notin OthersInLoop(t)
      /\ Cardinality(interrupted) \in Nat
  <2>1. OthersAsleep(t) \in SUBSET Thread /\ OthersInLoop(t) \in SUBSET Thread
    BY DEF OthersAsleep, OthersInLoop
  <2>2. t \notin OthersAsleep(t) /\ t \notin OthersInLoop(t)
    BY DEF OthersAsleep, OthersInLoop
  <2> QED BY <1>1, <2>1, <2>2, ThreadFinite, SubsetCard DEF TypeOK
<1>5. /\ Cardinality(Asleep) = Cardinality(OthersAsleep(t)) + 1
      /\ Cardinality(InLoop) = Cardinality(OthersInLoop(t)) + 1
  BY <1>3, <1>4, AddOne
<1>6. /\ nIdle - 1 = Cardinality(OthersAsleep(t)) + Cardinality(interrupted)
      /\ nTotal = Cardinality(OthersInLoop(t)) + 1 + Cardinality(interrupted)
  BY <1>4, <1>5 DEF QueueInv, CountersMatch
<1>7. Rest(t) = Outstanding
  BY <1>2, OutstandingFacts
<1> QED BY <1>1, <1>6, <1>7
     DEF Handover, QueueInv, TypeOK, StatusMatches, TodoIsOutstanding

-----------------------------------------------------------------------------
\* The other steps.

LEMMA ConstructKeeps ==
  ASSUME QueueInv, Construct
  PROVE  QueueInv'
<1> USE DEF QueueInv, Construct
<1>1. Master \in Thread /\ pc'[Master] = "adding"
      /\ \A t \in Thread \ {Master} : pc'[t] = pc[t]
  BY DEF Thread, TypeOK
<1>2. TypeOK'
  BY DEF TypeOK, PC
<1>3. Outstanding' = Outstanding /\ Outstanding = {} /\ fAllOk
  BY DEF Outstanding, StatusMatches
<1>4. TodoIsOutstanding'
  BY <1>3 DEF TodoIsOutstanding
<1>5. Asleep' = Asleep /\ InLoop' = InLoop
  BY <1>1 DEF Asleep, InLoop
<1>6. CountersMatch'
  BY <1>5 DEF CountersMatch
<1>7. BatchesMatch'
  BY <1>1, QueueAssumption DEF BatchesMatch, Thread
<1>8. StatusMatches'
  <2>1. \A t \in Thread : batch[t] = {}
    BY <1>3 DEF Outstanding
  <2> QED BY <1>1, <1>3, <2>1 DEF StatusMatches
<1> QED BY <1>2, <1>4, <1>6, <1>7, <1>8

LEMMA AddKeeps ==
  ASSUME QueueInv, NEW S \in SUBSET Check, Add(S)
  PROVE  QueueInv' /\ pc'[Master] = "adding"
<1> USE DEF QueueInv
<1>0. PICK W \in Woken(Cardinality(S)) :
        pc' = [t \in Thread |-> IF t \in W THEN "notified" ELSE pc[t]]
  BY DEF Add
<1>1. W \subseteq Waiting
  BY DEF Woken
<1>2. /\ pc' \in [Thread -> PC]
      /\ \A t \in Thread : \/ pc'[t] = pc[t]
                           \/ t # Master /\ pc[t] = "waiting" /\ pc'[t] = "notified"
  BY <1>0, <1>1, QueueAssumption DEF Waiting, TypeOK, PC
<1>3. Master \in Thread /\ pc[Master] = "adding" /\ pc'[Master] = "adding"
  BY <1>2 DEF Thread, Add
<1>4. Outstanding' = Outstanding \cup S /\ Outstanding \cap S = {}
  BY DEF Outstanding, Add, StatusMatches
<1>5. nTodo' = Cardinality(Outstanding') /\ nTodo' \in Nat
  <2>1. IsFiniteSet(Outstanding)
    BY <1>3, OutstandingFacts
  <2>2. IsFiniteSet(S)
    BY QueueAssumption, FS_Subset
  <2>3. /\ Cardinality(Outstanding \cup S)
             = Cardinality(Outstanding) + Cardinality(S) - Cardinality(Outstanding \cap S)
        /\ IsFiniteSet(Outstanding \cup S)
    BY <2>1, <2>2, FS_Union
  <2>4. Cardinality(Outstanding \cap S) = 0
    BY <1>4, FS_EmptySet
  <2>5. Cardinality(Outstanding) \in Nat /\ Cardinality(S) \in Nat
    BY <2>1, <2>2, FS_CardinalityType
  <2> QED BY <1>4, <2>3, <2>4, <2>5 DEF Add, Todo, TodoIsOutstanding
<1>6. TypeOK'
  BY <1>2, <1>5 DEF Add, TypeOK
<1>7. TodoIsOutstanding'
  <2>1. \A t \in Thread : batch[t] \subseteq Outstanding
    BY DEF Outstanding
  <2> QED BY <1>4, <1>5, <2>1 DEF TodoIsOutstanding, Add
<1>8. Asleep' = Asleep /\ InLoop' = InLoop
  BY <1>2 DEF Asleep, InLoop, Add
<1>9. CountersMatch'
  BY <1>8 DEF CountersMatch, Add
<1>10. BatchesMatch'
  BY <1>2 DEF BatchesMatch, Add, Thread
<1>11. StatusMatches'
  BY <1>2, <1>3, <1>4 DEF StatusMatches, Add
<1> QED BY <1>3, <1>6, <1>7, <1>9, <1>10, <1>11

\* Wait, Work and Interrupt move one thread and leave queue and batches alone.
LEMMA OtherStepsKeep ==
  ASSUME QueueInv, Wait \/ \E t \in Thread : Work(t) \/ Interrupt(t)
  PROVE  QueueInv' /\ VerdictStep
<1> USE DEF QueueInv
<1>0. /\ TypeOK /\ Master \in Thread
      /\ Outstanding' = Outstanding /\ UNCHANGED <<queue, batch, nTodo, added, fAllOk, result>>
  BY DEF Wait, Work, Interrupt, Thread, Outstanding
<1>1. TodoIsOutstanding'
  BY <1>0 DEF TodoIsOutstanding
<1>2. CASE Wait
  <2>1. /\ pc' = [pc EXCEPT ![Master] = "enter"]
        /\ fOk' = [fOk EXCEPT ![Master] = TRUE]
        /\ UNCHANGED <<nIdle, nTotal, interrupted>>
        /\ pc[Master] = "adding"
    BY <1>2 DEF Wait
  <2>2. TypeOK'
    BY <1>0, <2>1 DEF TypeOK, PC
  <2>3. Asleep' = Asleep /\ InLoop' = InLoop
    BY <1>0, <2>1 DEF Asleep, InLoop, TypeOK
  <2>4. CountersMatch'
    BY <2>1, <2>3 DEF CountersMatch
  <2>5. BatchesMatch'
    BY <1>0, <2>1 DEF BatchesMatch, TypeOK, Thread
  <2>6. StatusMatches'
    BY <1>0, <2>1 DEF StatusMatches, BatchesMatch, TypeOK
  <2>7. VerdictStep
    BY <1>0, <2>1 DEF VerdictStep, TypeOK
  <2> QED BY <1>1, <2>2, <2>4, <2>5, <2>6, <2>7
<1>3. ASSUME NEW t \in Thread, Work(t)
      PROVE  QueueInv' /\ VerdictStep
  <2>1. /\ pc' = [pc EXCEPT ![t] = "enter"]
        /\ fOk' = [fOk EXCEPT ![t] = fOk[t] /\ batch[t] \cap Failing = {}]
        /\ UNCHANGED <<nIdle, nTotal, interrupted>>
        /\ pc[t] = "working"
    BY <1>3 DEF Work
  <2>2. TypeOK'
    <3>1. fOk' \in [Thread -> BOOLEAN]
      BY <1>0, <2>1 DEF TypeOK
    <3> QED BY <1>0, <2>1, <3>1 DEF TypeOK, PC
  <2>3. Asleep' = Asleep /\ InLoop' = InLoop
    BY <1>0, <2>1 DEF Asleep, InLoop, TypeOK
  <2>4. CountersMatch'
    BY <2>1, <2>3 DEF CountersMatch
  <2>5. BatchesMatch'
    BY <1>0, <2>1 DEF BatchesMatch, TypeOK, Thread
  <2>6. batch[t] \subseteq added
    BY DEF StatusMatches, Outstanding
  <2>7. StatusMatches'
    BY <1>0, <2>1, <2>6 DEF StatusMatches, TypeOK
  <2>8. VerdictStep
    BY <1>0, <2>1 DEF VerdictStep, TypeOK
  <2> QED BY <1>1, <2>2, <2>4, <2>5, <2>7, <2>8
<1>4. ASSUME NEW t \in Thread, Interrupt(t)
      PROVE  QueueInv' /\ VerdictStep
  <2> DEFINE p == IF t = Master THEN "enter" ELSE "out"
  <2>1. /\ pc' = [pc EXCEPT ![t] = p]
        /\ UNCHANGED <<nIdle, nTotal, fOk>>
        /\ pc[t] \in {"waiting", "notified"}
        /\ interrupted' = interrupted \cup {t} /\ t \notin interrupted
    BY <1>4 DEF Interrupt
  <2>2. TypeOK'
    BY <1>0, <2>1 DEF TypeOK, PC
  <2>3. batch[t] = {}
    BY <2>1 DEF BatchesMatch
  <2>4. Asleep' = Asleep \ {t} /\ InLoop' = InLoop \ {t} /\ t \in Asleep /\ t \in InLoop
    BY <1>0, <2>1, <2>3 DEF Asleep, InLoop, TypeOK
  <2>5. CountersMatch'
    <3>1. IsFiniteSet(Asleep) /\ IsFiniteSet(InLoop) /\ IsFiniteSet(interrupted)
      BY <1>0, ThreadFinite, FS_Subset DEF Asleep, InLoop, TypeOK
    <3>2. /\ Cardinality(Asleep') = Cardinality(Asleep) - 1
          /\ Cardinality(InLoop') = Cardinality(InLoop) - 1
      BY <2>4, <3>1, FS_RemoveElement
    <3>3. Cardinality(interrupted') = Cardinality(interrupted) + 1
      BY <2>1, <3>1, AddOne
    <3>4. /\ Cardinality(Asleep) \in Nat /\ Cardinality(InLoop) \in Nat
          /\ Cardinality(interrupted) \in Nat
      BY <3>1, FS_CardinalityType
    <3>5. /\ nIdle = Cardinality(Asleep) + Cardinality(interrupted)
          /\ nTotal = Cardinality(InLoop) + Cardinality(interrupted)
          /\ nIdle' = nIdle /\ nTotal' = nTotal
      BY <2>1 DEF CountersMatch
    <3> HIDE DEF Asleep, InLoop
    <3> QED BY <3>2, <3>3, <3>4, <3>5 DEF CountersMatch
  <2>6. BatchesMatch'
    BY <1>0, <2>1, <2>3 DEF BatchesMatch, TypeOK, Thread
  <2>7. pc'[Master] = "out" <=> pc[Master] = "out"
    BY <1>0, <2>1 DEF TypeOK
  <2>8. StatusMatches'
    BY <1>0, <2>1, <2>3, <2>7 DEF StatusMatches, TypeOK
  <2>9. VerdictStep
    BY <1>0, <2>7 DEF VerdictStep
  <2> QED BY <1>1, <2>2, <2>5, <2>6, <2>8, <2>9
<1> QED BY <1>2, <1>3, <1>4

LEMMA LoopStepKeeps ==
  ASSUME QueueInv, NEW t \in Thread, Enter(t) \/ Wake(t) \/ WakeSpuriously(t)
  PROVE  QueueInv' /\ VerdictStep
<1>1. CASE Enter(t) /\ batch[t] # {}
  BY <1>1, EnterHandover, SectionKeeps DEF Enter
<1>2. CASE Enter(t) /\ batch[t] = {}
  BY <1>2, JoinHandover, SectionKeeps DEF Enter
<1>3. CASE Wake(t) \/ WakeSpuriously(t)
  BY <1>3, WakeHandover, SectionKeeps DEF Wake, WakeSpuriously
<1> QED BY <1>1, <1>2, <1>3

-----------------------------------------------------------------------------
\* The invariant and what follows from it.

LEMMA QueueInit == Init => QueueInv
<1> SUFFICES ASSUME Init PROVE QueueInv
  OBVIOUS
<1> USE DEF Init
<1>1. TypeOK
  BY DEF TypeOK, PC
<1>2. Outstanding = {} /\ Asleep = {} /\ InLoop = {}
  BY DEF Outstanding, Asleep, InLoop
<1>3. Cardinality({}) = 0
  BY FS_EmptySet
<1>4. TodoIsOutstanding
  BY <1>2, <1>3 DEF TodoIsOutstanding
<1>5. CountersMatch
  <2> HIDE DEF Asleep, InLoop
  <2> QED BY <1>2, <1>3 DEF CountersMatch
<1>6. BatchesMatch
  BY QueueAssumption DEF BatchesMatch, Thread
<1>7. StatusMatches
  BY <1>2 DEF StatusMatches
<1> QED BY <1>1, <1>4, <1>5, <1>6, <1>7 DEF QueueInv

\* A step of a thread other than the master's Construct and Add.
LEMMA ThreadStepKeeps ==
  ASSUME QueueInv,
         Wait \/ \E t \in Thread : Step(t) \/ WakeSpuriously(t) \/ Interrupt(t)
  PROVE  QueueInv' /\ VerdictStep
<1>1. CASE Wait
  BY <1>1, OtherStepsKeep
<1>2. ASSUME NEW t \in Thread, Work(t) \/ Interrupt(t)
      PROVE  QueueInv' /\ VerdictStep
  BY <1>2, OtherStepsKeep
<1>3. ASSUME NEW t \in Thread, Enter(t) \/ Wake(t) \/ WakeSpuriously(t)
      PROVE  QueueInv' /\ VerdictStep
  BY <1>3, LoopStepKeeps
<1> QED BY <1>1, <1>2, <1>3 DEF Step

LEMMA QueueStep == QueueInv /\ [Next]_vars => QueueInv'
<1> SUFFICES ASSUME QueueInv, [Next]_vars PROVE QueueInv'
  OBVIOUS
<1>1. CASE Construct
  BY <1>1, ConstructKeeps
<1>2. ASSUME NEW S \in SUBSET Check, Add(S) PROVE QueueInv'
  BY <1>2, AddKeeps
<1>3. CASE Wait \/ \E t \in Thread : Step(t) \/ WakeSpuriously(t) \/ Interrupt(t)
  BY <1>3, ThreadStepKeeps
<1>4. CASE UNCHANGED vars
  BY <1>4 DEF vars, QueueInv, TypeOK, TodoIsOutstanding, Outstanding, CountersMatch,
              Asleep, InLoop, BatchesMatch, StatusMatches
<1> QED BY <1>1, <1>2, <1>3, <1>4 DEF Next

LEMMA QueueInvariant == Spec => []QueueInv
BY QueueInit, QueueStep, PTL DEF Spec

\* The variables keep their types: no counter of CCheckQueue goes below zero
\* (nTodo is unsigned, and would wrap), with any number of workers.
THEOREM TypeCorrect == Spec => []TypeOK
<1>1. QueueInv => TypeOK
  BY DEF QueueInv
<1> QED BY <1>1, QueueInvariant, PTL

\* nTodo counts the checks that are queued or in a batch, and no check is in
\* two places (Loop, Add).
THEOREM TodoCounts == Spec => []TodoIsOutstanding
<1>1. QueueInv => TodoIsOutstanding
  BY DEF QueueInv
<1> QED BY <1>1, QueueInvariant, PTL

\* The assertion in the constructor of CCheckQueueControl never fails.
THEOREM ControlAssertion == Spec => []IdleBetweenBlocks
<1>1. QueueInv => IdleBetweenBlocks
  <2> SUFFICES ASSUME QueueInv, pc[Master] = "out" PROVE IsIdle
    BY DEF IdleBetweenBlocks
  <2>1. Outstanding = {} /\ fAllOk
    BY DEF QueueInv, StatusMatches
  <2>2. nTodo = 0
    BY <2>1, FS_EmptySet DEF QueueInv, TodoIsOutstanding
  <2>3. InLoop = Asleep
    BY <2>1 DEF Outstanding, InLoop, Asleep
  <2>4. nTotal = nIdle
    <3> HIDE DEF InLoop, Asleep
    <3> QED BY <2>3 DEF QueueInv, CountersMatch
  <2> QED BY <2>1, <2>2, <2>4 DEF IsIdle
<1> QED BY <1>1, QueueInvariant, PTL

\* The queue with its threads implements ScriptVerdict: what Wait returns to
\* ConnectBlock is whether all the checks of this block pass.
THEOREM QueueImplementsVerdict == Spec => ImplementsVerdict
<1>0. Master \in Thread
  BY DEF Thread
<1>1. Init => Verdict!Init
  BY <1>0 DEF Init, Verdict!Init
<1>2. ASSUME QueueInv, [Next]_vars
      PROVE  [Verdict!Next]_(Verdict!vars)
  <2> USE DEF Verdict!Next, Verdict!vars
  <2>1. CASE Construct
    <3>1. Verdict!Start
      BY <1>0, <1>2, <2>1 DEF Construct, Verdict!Start, QueueInv, TypeOK
    <3> QED BY <3>1
  <2>2. ASSUME NEW S \in SUBSET Check, Add(S)
        PROVE  Verdict!Add(S)
    <3>1. pc'[Master] = "adding"
      BY <1>2, <2>2, AddKeeps
    <3> QED BY <2>2, <3>1 DEF Add, Verdict!Add
  <2>3. CASE Wait \/ \E t \in Thread : Step(t) \/ WakeSpuriously(t) \/ Interrupt(t)
    <3>1. VerdictStep
      BY <1>2, <2>3, ThreadStepKeeps
    <3>2. CASE pc[Master] # "out" /\ pc'[Master] = "out"
                /\ result' = (added \cap Failing = {})
      <4>1. Verdict!Wait
        BY <3>1, <3>2 DEF VerdictStep, Verdict!Wait
      <4> QED BY <4>1
    <3>3. CASE (pc[Master] = "out" <=> pc'[Master] = "out") /\ result' = result
      BY <3>1, <3>3 DEF VerdictStep
    <3> QED BY <3>1, <3>2, <3>3 DEF VerdictStep
  <2>4. CASE UNCHANGED vars
    BY <2>4 DEF vars
  <2> QED BY <1>2, <2>1, <2>2, <2>3, <2>4 DEF Next
<1> QED BY <1>1, <1>2, QueueInvariant, PTL DEF Spec, ImplementsVerdict, Verdict!Spec
=============================================================================
