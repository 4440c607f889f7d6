------------------------------ MODULE CheckQueue ------------------------------
(***************************************************************************)
(* CCheckQueue and CCheckQueueControl (checkqueue.h): the pool of script   *)
(* verification threads that ConnectBlock uses.  The thread validating the *)
(* block (the master) adds checks while it walks the transactions, then    *)
(* joins the workers in Loop(true) until every check is done.              *)
(*                                                                         *)
(* Every critical section of Loop runs under one mutex that is released    *)
(* only by cond.wait, so one critical section is one action.  A check is   *)
(* represented by its outcome.  fQuit is never set by the code and is      *)
(* left out.  Threads may wake up spuriously and may be interrupted        *)
(* (boost::thread::interrupt) inside cond.wait, once each.                 *)
(***************************************************************************)
EXTENDS Integers, Sequences, FiniteSets

CONSTANTS
  Workers,     \* the threads running ThreadScriptCheck
  Master,      \* the thread validating blocks
  nBatchSize,  \* most checks a thread takes at once
  MaxAdd,      \* bound: most checks in one call of Add
  MaxChecks    \* bound: most checks of one block

ASSUME CheckQueueAssumption ==
  /\ IsFiniteSet(Workers)
  /\ Master \notin Workers
  /\ nBatchSize \in Nat \ {0}
  /\ MaxAdd \in Nat /\ MaxChecks \in Nat

VARIABLES
  queue,        \* outcomes of the checks waiting, taken from the back
  nIdle,        \* threads inside cond.wait
  nTotal,       \* threads inside Loop
  fAllOk,       \* verdict so far
  nTodo,        \* checks not finished: queued or in some thread's batch
  pc,           \* where each thread is
  nNow,         \* size of the batch each thread took last
  vChecks,      \* the batch itself
  fOk,          \* outcome of the batch
  interrupted,  \* threads that have been interrupted
  added,        \* history: outcomes of the checks added for this block
  verdict       \* what the last Wait returned for this block, or "none"

shared == <<queue, nIdle, nTotal, fAllOk, nTodo>>
locals == <<nNow, vChecks, fOk>>
vars == <<shared, locals, pc, interrupted, added, verdict>>

Threads == Workers \cup {Master}

AllTrue(s) == \A i \in DOMAIN s : s[i]

Init ==
  /\ queue = <<>> /\ nIdle = 0 /\ nTotal = 0 /\ fAllOk = TRUE /\ nTodo = 0
  /\ pc = [t \in Threads |-> IF t = Master THEN "idle" ELSE "top"]
  /\ nNow = [t \in Threads |-> 0]
  /\ vChecks = [t \in Threads |-> <<>>]
  /\ fOk = [t \in Threads |-> TRUE]
  /\ interrupted = {} /\ added = <<>> /\ verdict = "none"

-----------------------------------------------------------------------------
(* The critical section of Loop.  These four operators are the values the  *)
(* shared counters have once the clean-up of the previous round (or the    *)
(* registration of the first one) is done, where `while (queue.empty())'   *)
(* is tested.  A thread that was asleep resumes after cond.wait instead.   *)

CleansUp(t) == pc[t] = "top" /\ nNow[t] > 0

\* Mutant: the outcome of a finished batch is not merged.
AllOkNotMerged(t) == fAllOk

AllOkAfterCleanup(t) == IF CleansUp(t) THEN fAllOk /\ fOk[t] ELSE fAllOk

\* Mutant: only queued checks count as unfinished, not those in batches.
TodoOnlyQueued(t) == Len(queue)

TodoAfterCleanup(t) == IF CleansUp(t) THEN nTodo - nNow[t] ELSE nTodo

TotalAfterCleanup(t) ==
  IF pc[t] = "top" /\ nNow[t] = 0 THEN nTotal + 1 ELSE nTotal

IdleAfterWait(t) == IF pc[t] = "woken" THEN nIdle - 1 ELSE nIdle

\* Mutant: the worker finishing the last check does not wake the master.
MoveSilently(t, place) == [pc EXCEPT ![t] = place]

\* condMaster.notify_one(): the only thread on condMaster is the master.
\* The result is pc with t moved to place.
MoveAndNotifyMaster(t, place) ==
  LET notify == CleansUp(t) /\ TodoAfterCleanup(t) = 0 /\ t # Master
  IN  [pc EXCEPT ![t] = place,
                 ![Master] = IF t = Master THEN place
                             ELSE IF notify /\ @ = "wait" THEN "woken" ELSE @]

\* queue.empty() and everything is done: the master leaves Loop, resetting
\* the status.  After an interruption the caller is the destructor, which
\* drops the value.
Return(t) ==
  /\ pc[t] \in {"top", "woken"} /\ queue = <<>>
  /\ t = Master /\ TodoAfterCleanup(t) = 0
  /\ nTotal' = TotalAfterCleanup(t) - 1
  /\ nIdle' = IdleAfterWait(t)
  /\ nTodo' = TodoAfterCleanup(t)
  /\ fAllOk' = TRUE
  /\ verdict' = CASE t \in interrupted     -> "none"
                [] AllOkAfterCleanup(t) -> "pass"
                [] OTHER                -> "fail"
  /\ pc' = [pc EXCEPT ![t] = "idle"]
  /\ nNow' = [nNow EXCEPT ![t] = 0]
  /\ fOk' = [fOk EXCEPT ![t] = TRUE]
  /\ UNCHANGED <<queue, vChecks, interrupted, added>>

\* queue.empty() but there is a reason to stay: cond.wait.
Sleep(t) ==
  /\ pc[t] \in {"top", "woken"} /\ queue = <<>>
  /\ ~(t = Master /\ TodoAfterCleanup(t) = 0)
  /\ nTotal' = TotalAfterCleanup(t)
  /\ nIdle' = IdleAfterWait(t) + 1
  /\ nTodo' = TodoAfterCleanup(t)
  /\ fAllOk' = AllOkAfterCleanup(t)
  /\ pc' = MoveAndNotifyMaster(t, "wait")
  /\ UNCHANGED <<queue, locals, interrupted, added, verdict>>

BatchSize(n, total, idle) ==
  LET share == n \div (total + idle + 1)
      capped == IF share < nBatchSize THEN share ELSE nBatchSize
  IN  IF capped > 1 THEN capped ELSE 1

\* Take a batch from the back of the queue.
Take(t) ==
  /\ pc[t] \in {"top", "woken"} /\ queue # <<>>
  /\ LET n == BatchSize(Len(queue), TotalAfterCleanup(t), IdleAfterWait(t))
         left == Len(queue) - n
     IN  /\ vChecks' = [vChecks EXCEPT ![t] = SubSeq(queue, left + 1, Len(queue))]
         /\ queue' = SubSeq(queue, 1, left)
         /\ nNow' = [nNow EXCEPT ![t] = n]
  /\ nTotal' = TotalAfterCleanup(t)
  /\ nIdle' = IdleAfterWait(t)
  /\ nTodo' = TodoAfterCleanup(t)
  /\ fAllOk' = AllOkAfterCleanup(t)
  /\ fOk' = [fOk EXCEPT ![t] = AllOkAfterCleanup(t)]
  /\ pc' = MoveAndNotifyMaster(t, "run")
  /\ UNCHANGED <<interrupted, added, verdict>>

\* Run the batch outside the lock, stopping at the first failure.
Execute(t) ==
  /\ pc[t] = "run"
  /\ fOk' = [fOk EXCEPT ![t] = @ /\ AllTrue(vChecks[t])]
  /\ vChecks' = [vChecks EXCEPT ![t] = <<>>]
  /\ pc' = [pc EXCEPT ![t] = "top"]
  /\ UNCHANGED <<shared, nNow, interrupted, added, verdict>>

-----------------------------------------------------------------------------
(* The master's calls. *)

IsIdle == nTotal = nIdle /\ nTodo = 0 /\ fAllOk

\* CCheckQueueControl's constructor, at the start of a block.  It asserts
\* IsIdle, which is the invariant ControlFindsQueueIdle.
Control ==
  /\ pc[Master] = "idle"
  /\ pc' = [pc EXCEPT ![Master] = "adding"]
  /\ added' = <<>> /\ verdict' = "none"
  /\ UNCHANGED <<shared, locals, interrupted>>

\* Add: push the checks, then wake one worker or all of them.
Add(s) ==
  /\ pc[Master] = "adding"
  /\ Len(added) + Len(s) <= MaxChecks
  /\ queue' = queue \o s
  /\ nTodo' = nTodo + Len(s)
  /\ added' = added \o s
  /\ LET asleep == {w \in Workers : pc[w] = "wait"}
     IN  \/ /\ Len(s) = 1 /\ asleep # {}
            /\ \E w \in asleep : pc' = [pc EXCEPT ![w] = "woken"]
         \/ /\ Len(s) > 1 /\ asleep # {}
            /\ pc' = [t \in Threads |-> IF t \in asleep THEN "woken" ELSE pc[t]]
         \/ /\ Len(s) = 0 \/ asleep = {}
            /\ UNCHANGED pc
  /\ UNCHANGED <<nIdle, nTotal, fAllOk, locals, interrupted, verdict>>

\* Wait: called by ConnectBlock, or by the destructor on an early return.
Wait ==
  /\ pc[Master] = "adding"
  /\ pc' = [pc EXCEPT ![Master] = "top"]
  /\ UNCHANGED <<shared, locals, interrupted, added, verdict>>

-----------------------------------------------------------------------------
(* What the threading library does. *)

SpuriousWakeup(t) ==
  /\ pc[t] = "wait"
  /\ pc' = [pc EXCEPT ![t] = "woken"]
  /\ UNCHANGED <<shared, locals, interrupted, added, verdict>>

\* boost::thread_interrupted leaves cond.wait before nIdle-- and nTotal--.
\* A worker ends; the master unwinds into ~CCheckQueueControl, which calls
\* Wait again with fresh locals.
Interrupt(t) ==
  /\ pc[t] \in {"wait", "woken"} /\ t \notin interrupted
  /\ interrupted' = interrupted \cup {t}
  /\ pc' = [pc EXCEPT ![t] = IF t = Master THEN "top" ELSE "gone"]
  /\ nNow' = [nNow EXCEPT ![t] = 0]
  /\ fOk' = [fOk EXCEPT ![t] = TRUE]
  /\ UNCHANGED <<shared, vChecks, added, verdict>>

-----------------------------------------------------------------------------
Batches == UNION {[1..n -> BOOLEAN] : n \in 0..MaxAdd}

Step(t) == Return(t) \/ Sleep(t) \/ Take(t) \/ Execute(t)

Next ==
  \/ \E t \in Threads : Step(t) \/ SpuriousWakeup(t) \/ Interrupt(t)
  \/ Control
  \/ \E s \in Batches : Add(s)
  \/ Wait

Spec == Init /\ [][Next]_vars

\* The scheduler runs every thread that can run, and a critical section is
\* entered by every thread that asks for the mutex.  Nothing forces a
\* wake-up, an interruption, or the master to start a block.
FairSpec == Spec /\ \A t \in Threads : WF_vars(Step(t))

-----------------------------------------------------------------------------
(* Properties. *)

\* The queue, its counters and the threads' locals have their types; the
\* counters, which are unsigned in effect, never go below zero.
TypeOK ==
  /\ queue \in Seq(BOOLEAN) /\ fAllOk \in BOOLEAN
  /\ nIdle \in Nat /\ nTotal \in Nat /\ nTodo \in Nat
  /\ pc \in [Threads -> {"idle", "adding", "top", "wait", "woken", "run", "gone"}]
  /\ nNow \in [Threads -> Nat] /\ fOk \in [Threads -> BOOLEAN]
  /\ vChecks \in [Threads -> Seq(BOOLEAN)]
  /\ interrupted \subseteq Threads
  /\ verdict \in {"none", "pass", "fail"}

\* The assertion in CCheckQueueControl's constructor never fails: whenever
\* the master is between blocks the queue is idle, whatever workers are
\* starting, sleeping, being woken or being interrupted.
ControlFindsQueueIdle == pc[Master] = "idle" => IsIdle

\* Wait "return[s] whether all evaluations were successful": its value is
\* the conjunction of the outcomes of exactly the checks of this block.
WaitTellsTheTruth == verdict # "none" => ((verdict = "pass") <=> AllTrue(added))

\* CCheckQueueControl "guarantees the passed queue is finished before
\* continuing": once Wait has returned no check is queued and no thread
\* still holds one (checks point into the block and its view).
FinishedBeforeContinuing ==
  pc[Master] = "idle" =>
    queue = <<>> /\ \A t \in Threads : pc[t] # "run" /\ vChecks[t] = <<>>

\* The invariant of the queue: the three above together.
QueueInv == TypeOK /\ ControlFindsQueueIdle /\ FinishedBeforeContinuing

\* A master inside Wait gets out of it, whichever workers sleep, take work
\* or die: no wake-up of the master is lost.
WaitReturns == (pc[Master] = "top") ~> (pc[Master] = "idle")

=============================================================================
