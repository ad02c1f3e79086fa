----------------------------- MODULE CheckQueue -----------------------------
(***************************************************************************)
(* The queue that verifies the scripts of a block in parallel              *)
(* (checkqueue.h).  ConnectBlock's thread, the master, adds checks and     *)
(* then joins the workers until all are done.  A step of a thread is one   *)
(* critical section of the queue's mutex (it ends where cond.wait gives    *)
(* the mutex up) or the execution of one batch outside of it.              *)
(*                                                                         *)
(* A check is modelled by its identity; the LIFO order of the queue does   *)
(* not matter (checkqueue.h:43), so the queue and the batches are sets.    *)
(* Threads are interrupted at shutdown; cond.wait is where that bites.     *)
(***************************************************************************)
EXTENDS Naturals, FiniteSets

CONSTANTS
  Check,      \* the script checks a block may need
  Failing,    \* those whose operator() returns false
  Worker,     \* the script verification threads
  Master,     \* the thread that runs ConnectBlock
  nBatchSize  \* at most so many checks in one batch

ASSUME QueueAssumption ==
  /\ IsFiniteSet(Check)
  /\ Failing \subseteq Check
  /\ IsFiniteSet(Worker)
  /\ Master \notin Worker
  /\ nBatchSize \in Nat \ {0}

Thread == Worker \cup {Master}

VARIABLES
  queue, nIdle, nTotal, fAllOk, nTodo,  \* CCheckQueue
  pc,           \* where each thread is
  batch,        \* vChecks of each thread until it is accounted for; nNow is its size
  fOk,          \* fOk of each thread
  interrupted,  \* the threads that were interrupted
  added,        \* the checks given to the current CCheckQueueControl
  result        \* what the master's last Wait returned

vars == <<queue, nIdle, nTotal, fAllOk, nTodo, pc, batch, fOk, interrupted,
          added, result>>

\* "out": not in Loop (for the master: no CCheckQueueControl exists);
\* "adding": ConnectBlock, between the constructor and Wait;
\* "enter": about to lock the mutex at the top of the loop;
\* "waiting", "notified": in cond.wait; "working": executing a batch.
PC == {"out", "adding", "enter", "waiting", "notified", "working"}

TypeOK ==
  /\ queue \in SUBSET Check
  /\ nIdle \in Nat
  /\ nTotal \in Nat
  /\ fAllOk \in BOOLEAN
  /\ nTodo \in Nat
  /\ pc \in [Thread -> PC]
  /\ batch \in [Thread -> SUBSET Check]
  /\ fOk \in [Thread -> BOOLEAN]
  /\ interrupted \in SUBSET Thread
  /\ added \in SUBSET Check
  /\ result \in BOOLEAN

Init ==
  /\ queue = {}
  /\ nIdle = 0
  /\ nTotal = 0
  /\ fAllOk = TRUE
  /\ nTodo = 0
  /\ pc = [t \in Thread |-> IF t = Master THEN "out" ELSE "enter"]
  /\ batch = [t \in Thread |-> {}]
  /\ fOk = [t \in Thread |-> TRUE]
  /\ interrupted = {}
  /\ added = {}
  /\ result = TRUE

-----------------------------------------------------------------------------
\* IsIdle, which the constructor of CCheckQueueControl asserts.
IsIdle == nTotal = nIdle /\ nTodo = 0 /\ fAllOk

\* ConnectBlock creates a CCheckQueueControl.
Construct ==
  /\ pc[Master] = "out"
  /\ pc' = [pc EXCEPT ![Master] = "adding"]
  /\ added' = {}
  /\ UNCHANGED <<queue, nIdle, nTotal, fAllOk, nTodo, batch, fOk, interrupted,
                 result>>

Waiting == {w \in Worker : pc[w] = "waiting"}

\* The workers woken when n checks were added: one of those that wait, or all.
Woken(n) == IF n = 1 THEN {S \in SUBSET Waiting : Waiting # {} => Cardinality(S) = 1}
            ELSE {Waiting}

\* Mutant: one more to do for each call of Add.
CountCalls(S) == 1

\* What Add adds to nTodo.
Todo(S) == Cardinality(S)

\* Add
Add(S) ==
  /\ pc[Master] = "adding"
  /\ S # {}
  /\ S \cap added = {}
  /\ queue' = queue \cup S
  /\ added' = added \cup S
  /\ nTodo' = nTodo + Todo(S)
  /\ \E W \in Woken(Cardinality(S)) :
       pc' = [t \in Thread |-> IF t \in W THEN "notified" ELSE pc[t]]
  /\ UNCHANGED <<nIdle, nTotal, fAllOk, batch, fOk, interrupted, result>>

\* Wait: also called by the destructor when ConnectBlock returns early.
Wait ==
  /\ pc[Master] = "adding"
  /\ pc' = [pc EXCEPT ![Master] = "enter"]
  /\ fOk' = [fOk EXCEPT ![Master] = TRUE]
  /\ UNCHANGED <<queue, nIdle, nTotal, fAllOk, nTodo, batch, interrupted, added,
                 result>>

-----------------------------------------------------------------------------
\* nNow, for n queued checks.
BatchSize(n, total, idle) ==
  LET share == n \div (total + idle + 1)
      most  == IF share < nBatchSize THEN share ELSE nBatchSize
  IN  IF most < 1 THEN 1 ELSE most

\* Mutant: the verdict of one block is kept for the next.
KeepStatus(ok) == ok

\* fAllOk after the master has read it.
ResetStatus(ok) == TRUE

\* The critical section from `while (queue.empty())' on, after its first part
\* has set the counters to idle, total, ok and todo and the threads' places to
\* places: return, wait, or take a batch.
Section(t, idle, total, ok, todo, places) ==
  /\ nTodo' = todo
  /\ \/ /\ queue = {} /\ t = Master /\ todo = 0
        /\ nIdle' = idle
        /\ nTotal' = total - 1
        /\ fAllOk' = ResetStatus(ok)
        /\ result' = ok
        /\ pc' = [places EXCEPT ![t] = "out"]
        /\ batch' = [batch EXCEPT ![t] = {}]
        /\ UNCHANGED <<queue, fOk>>
     \/ /\ queue = {} /\ ~ (t = Master /\ todo = 0)
        /\ nIdle' = idle + 1
        /\ nTotal' = total
        /\ fAllOk' = ok
        /\ pc' = [places EXCEPT ![t] = "waiting"]
        /\ batch' = [batch EXCEPT ![t] = {}]
        /\ UNCHANGED <<queue, fOk, result>>
     \/ \E B \in SUBSET queue :
          /\ queue # {}
          /\ Cardinality(B) = BatchSize(Cardinality(queue), total, idle)
          /\ nIdle' = idle
          /\ nTotal' = total
          /\ fAllOk' = ok
          /\ queue' = queue \ B
          /\ batch' = [batch EXCEPT ![t] = B]
          /\ fOk' = [fOk EXCEPT ![t] = ok]
          /\ pc' = [places EXCEPT ![t] = "working"]
          /\ UNCHANGED result
  /\ UNCHANGED <<interrupted, added>>

\* Mutant: nobody tells the master.
NotifyNobody(t, todo) == pc

\* "We processed the last element; inform the master".
NotifyMaster(t, todo) ==
  IF todo = 0 /\ t # Master /\ pc[Master] = "waiting"
  THEN [pc EXCEPT ![Master] = "notified"]
  ELSE pc

\* Mutant: what the thread found replaces what others found.
LastStatus(ok, mine) == mine

\* fAllOk &= fOk
Accumulate(ok, mine) == ok /\ mine

\* The top of the loop in Loop: account for the last batch, or join the queue.
Enter(t) ==
  /\ pc[t] = "enter"
  /\ LET nNow == Cardinality(batch[t])
     IN  IF batch[t] # {}
         THEN Section(t, nIdle, nTotal, Accumulate(fAllOk, fOk[t]), nTodo - nNow,
                      NotifyMaster(t, nTodo - nNow))
         ELSE Section(t, nIdle, nTotal + 1, fAllOk, nTodo, pc)

\* cond.wait returns.
Wake(t) ==
  /\ pc[t] = "notified"
  /\ Section(t, nIdle - 1, nTotal, fAllOk, nTodo, pc)

\* cond.wait may also return without a notification.
WakeSpuriously(t) ==
  /\ pc[t] = "waiting"
  /\ Section(t, nIdle - 1, nTotal, fAllOk, nTodo, pc)

\* The checks of the batch are executed, without the mutex, until one fails.
Work(t) ==
  /\ pc[t] = "working"
  /\ fOk' = [fOk EXCEPT ![t] = @ /\ batch[t] \cap Failing = {}]
  /\ pc' = [pc EXCEPT ![t] = "enter"]
  /\ UNCHANGED <<queue, nIdle, nTotal, fAllOk, nTodo, batch, interrupted, added,
                 result>>

\* Shutdown interrupts a thread in cond.wait, which throws: a worker ends, and
\* the master's Wait is called again by the destructor of CCheckQueueControl.
\* Neither takes itself off the counters.
Interrupt(t) ==
  /\ pc[t] \in {"waiting", "notified"}
  /\ t \notin interrupted
  /\ interrupted' = interrupted \cup {t}
  /\ pc' = [pc EXCEPT ![t] = IF t = Master THEN "enter" ELSE "out"]
  /\ UNCHANGED <<queue, nIdle, nTotal, fAllOk, nTodo, batch, fOk, added, result>>

Step(t) == Enter(t) \/ Wake(t) \/ Work(t)

Next ==
  \/ Construct
  \/ \E S \in SUBSET Check : Add(S)
  \/ Wait
  \/ \E t \in Thread : Step(t) \/ WakeSpuriously(t) \/ Interrupt(t)

Spec == Init /\ [][Next]_vars

-----------------------------------------------------------------------------
\* Properties

\* Between two blocks the queue is idle, as the constructor of
\* CCheckQueueControl asserts, also when ConnectBlock returned early, workers
\* started late or threads were interrupted.
IdleBetweenBlocks == pc[Master] = "out" => IsIdle

\* Every check is in the queue or in exactly one batch until it is accounted
\* for, and nTodo is the number of those ("This includes elements that are not
\* anymore in queue, but still in worker's own batches").
Outstanding == queue \cup UNION {batch[t] : t \in Thread}
TodoIsOutstanding ==
  /\ nTodo = Cardinality(Outstanding)
  /\ \A t \in Thread : batch[t] \cap queue = {}
  /\ \A t, u \in Thread : t # u => batch[t] \cap batch[u] = {}

\* The queue implements ScriptVerdict: whatever the threads do, Wait returns
\* whether all the checks of this block pass, and of no other block.
Verdict == INSTANCE ScriptVerdict
             WITH phase <- IF pc[Master] = "out" THEN "done" ELSE "open"
ImplementsVerdict == Verdict!Spec

\* Every thread that can go on does.
FairSpec == Spec /\ \A t \in Thread : WF_vars(Step(t))

\* The master's Wait returns: no wake-up of the master is lost, and it finishes
\* the work itself when the workers sleep or are gone.
WaitReturns == (pc[Master] \notin {"out", "adding"}) ~> (pc[Master] = "out")

-----------------------------------------------------------------------------
\* Why they hold: the parts of an inductive invariant.

Asleep == {t \in Thread : pc[t] \in {"waiting", "notified"}}
InLoop == {t \in Thread : batch[t] # {} \/ pc[t] \in {"waiting", "notified"}}

\* The counters count the threads in Loop, and each interrupted thread once more.
CountersMatch ==
  /\ nIdle = Cardinality(Asleep) + Cardinality(interrupted)
  /\ nTotal = Cardinality(InLoop) + Cardinality(interrupted)

\* A thread has a batch while it executes it and until it accounts for it.
BatchesMatch ==
  /\ \A t \in Thread : batch[t] # {} => pc[t] \in {"working", "enter"}
  /\ \A t \in Thread : pc[t] = "working" => batch[t] # {}
  /\ \A w \in Worker : pc[w] # "adding"

\* fAllOk and the fOk of a batch are false only because of a check that fails,
\* and a failing check that is no longer outstanding has left fAllOk false.
StatusMatches ==
  /\ Outstanding \subseteq added
  /\ ~ fAllOk => added \cap Failing # {}
  /\ \A t \in Thread : batch[t] # {} /\ ~ fOk[t] => added \cap Failing # {}
  /\ \A t \in Thread : pc[t] = "enter" /\ fOk[t] => batch[t] \cap Failing = {}
  /\ pc[Master] # "out" /\ fAllOk => (added \ Outstanding) \cap Failing = {}
  /\ pc[Master] = "out" => Outstanding = {} /\ fAllOk

QueueInv ==
  TypeOK /\ TodoIsOutstanding /\ CountersMatch /\ BatchesMatch /\ StatusMatches
=============================================================================
