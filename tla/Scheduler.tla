------------------------------ MODULE Scheduler ------------------------------
(***************************************************************************)
(* CScheduler (scheduler.cpp): a queue of functions with the times at      *)
(* which to call them, threads that service it, one condition variable,    *)
(* and the ways to stop.  A step is one critical section under             *)
(* newTaskMutex; the mutex is released while a thread waits and while it   *)
(* calls a function.                                                       *)
(***************************************************************************)
EXTENDS Integers, Sequences, FiniteSets

CONSTANTS
    Threads,
    Tasks,        \* functions
    Scenarios,    \* the values of scenario, see below
    Delays,       \* deltaSeconds of scheduleFromNow
    MaxTime       \* bound on the clock

ASSUME SchedulerAssumption ==
    /\ Scenarios \subseteq [threads : SUBSET Threads, period : [Tasks -> Nat],
                            stops : SUBSET {"now", "drain", "interrupt"}]
    /\ Delays \subseteq Nat /\ MaxTime \in Nat

VARIABLES
    scenario,     \* never changes: the threads that run serviceQueue, for each
                  \* function the deltaSeconds of scheduleEvery or 0 if it is
                  \* to run once, and the ways to stop that may come
    now,          \* the clock
    taskQueue,    \* by time, equal times in the order of insertion
    unscheduled,  \* functions nobody has scheduled yet
    stop,         \* how the threads were told to stop, "no" if they were not
    pc,           \* of each thread: "woken", "wait", "timed", "expired", "run", "done"
    until,        \* the time a thread's wait_until ends
    running       \* the entry a thread has taken

vars == <<scenario, now, taskQueue, unscheduled, stop, pc, until, running>>

Entries == [time : 0 .. 2 * MaxTime, task : Tasks]
Nothing == [time |-> 0, task |-> "none"]

Init ==
    /\ scenario \in Scenarios
    /\ now = 0
    /\ taskQueue = <<>>
    /\ unscheduled = Tasks
    /\ stop = "no"
    /\ pc = [t \in Threads |-> IF t \in scenario.threads THEN "woken" ELSE "done"]
    /\ until = [t \in Threads |-> 0]
    /\ running = [t \in Threads |-> Nothing]

shouldStop == stop = "now" \/ (stop = "drain" /\ taskQueue = <<>>)

(* taskQueue.insert of a multimap.                                         *)
Inserted(e) ==
    SelectSeq(taskQueue, LAMBDA x : x.time <= e.time) \o <<e>>
        \o SelectSeq(taskQueue, LAMBDA x : x.time > e.time)

Asleep(p) == {t \in Threads : p[t] \in {"wait", "timed"}}

(* Mutant: nobody is told of the new task.                                 *)
NotifyNobody(p) == {p}

(* newTaskScheduled.notify_one: what the program counters p may become.    *)
NotifyOne(p) ==
    IF Asleep(p) = {} THEN {p} ELSE {[p EXCEPT ![t] = "woken"] : t \in Asleep(p)}

(* Mutant: notify_one.                                                     *)
NotifyAny(p) == CHOOSE q \in NotifyOne(p) : TRUE

NotifyAll(p) == [t \in Threads |-> IF t \in Asleep(p) THEN "woken" ELSE p[t]]

(* scheduleFromNow and scheduleEvery.                                      *)
Schedule(k, delta) ==
    /\ k \in unscheduled
    /\ now + delta <= MaxTime
    /\ unscheduled' = unscheduled \ {k}
    /\ taskQueue' = Inserted([time |-> now + delta, task |-> k])
    /\ pc' \in NotifyOne(pc)
    /\ UNCHANGED <<scenario, now, stop, until, running>>

(* stop(), or the interruption of the threads.                             *)
Stop(how) ==
    /\ stop = "no" /\ how \in scenario.stops
    /\ stop' = how
    /\ pc' = IF how = "interrupt" THEN pc ELSE NotifyAll(pc)
    /\ UNCHANGED <<scenario, now, taskQueue, unscheduled, until, running>>

Tick == now < MaxTime /\ now' = now + 1
        /\ UNCHANGED <<scenario, taskQueue, unscheduled, stop, pc, until, running>>

-----------------------------------------------------------------------------
(* The conditions of the three loops: leave, wait for a task, or wait for  *)
(* the time of the first task.                                             *)
Look(t) ==
    /\ pc' = [pc EXCEPT ![t] = IF shouldStop THEN "done"
                               ELSE IF taskQueue = <<>> THEN "wait" ELSE "timed"]
    /\ until' = [until EXCEPT ![t] = IF pc'[t] = "timed" THEN Head(taskQueue).time ELSE 0]
    /\ UNCHANGED <<scenario, now, taskQueue, unscheduled, stop, running>>

Wake(t) == pc[t] = "woken" /\ Look(t)

SpuriousWakeup(t) ==
    /\ pc[t] \in {"wait", "timed"}
    /\ pc' = [pc EXCEPT ![t] = "woken"]
    /\ UNCHANGED <<scenario, now, taskQueue, unscheduled, stop, until, running>>

(* Mutant: the wait ends a unit early.                                     *)
OverEarly(t) == now + 1 >= until[t]

Over(t) == now >= until[t]

Timeout(t) ==
    /\ pc[t] = "timed" /\ Over(t)
    /\ pc' = [pc EXCEPT ![t] = "expired"]
    /\ UNCHANGED <<scenario, now, taskQueue, unscheduled, stop, until, running>>

(* After a timeout, the first task of the queue is taken.                  *)
Take(t) ==
    /\ pc[t] = "expired"
    /\ IF shouldStop \/ taskQueue = <<>>
       THEN Look(t)
       ELSE /\ running' = [running EXCEPT ![t] = Head(taskQueue)]
            /\ taskQueue' = Tail(taskQueue)
            /\ pc' = [pc EXCEPT ![t] = "run"]
            /\ UNCHANGED <<scenario, now, unscheduled, stop, until>>

(* The function returns; Repeat schedules it again.                        *)
Finish(t) ==
    LET k == running[t].task
        woken == [pc EXCEPT ![t] = "woken"]
    IN  /\ pc[t] = "run"
        /\ running' = [running EXCEPT ![t] = Nothing]
        /\ IF scenario.period[k] # 0
           THEN /\ taskQueue' = Inserted([time |-> now + scenario.period[k], task |-> k])
                /\ pc' \in NotifyOne(woken)
           ELSE /\ pc' = woken
                /\ UNCHANGED taskQueue
        /\ UNCHANGED <<scenario, now, unscheduled, stop, until>>

Interrupted(t) ==
    /\ stop = "interrupt" /\ pc[t] \in {"wait", "timed"}
    /\ pc' = [pc EXCEPT ![t] = "done"]
    /\ UNCHANGED <<scenario, now, taskQueue, unscheduled, stop, until, running>>

Service(t) == Wake(t) \/ Timeout(t) \/ Take(t) \/ Finish(t) \/ Interrupted(t)

(* Nothing more happens when the clock has reached its bound.              *)
Finished ==
    /\ now = MaxTime /\ unscheduled = {}
    /\ \A t \in Threads : pc[t] = "done" \/ (pc[t] = "wait" /\ stop = "no")
    /\ UNCHANGED vars

Next ==
    \/ \E k \in Tasks, delta \in Delays : Schedule(k, delta)
    \/ \E how \in scenario.stops : Stop(how)
    \/ Tick
    \/ \E t \in Threads : Service(t) \/ SpuriousWakeup(t)
    \/ Finished

Spec == Init /\ [][Next]_vars

(* The clock and every thread go on.  Spurious wake-ups do not for ever    *)
(* come before the end of a wait that is due, or an interruption.          *)
FairSpec ==
    /\ Spec
    /\ WF_vars(Tick)
    /\ \A t \in Threads : /\ WF_vars(Service(t))
                          /\ SF_vars(Timeout(t)) /\ SF_vars(Interrupted(t))
-----------------------------------------------------------------------------
(* The variables have their types, the queue is sorted, and a task is in   *)
(* one place only.                                                         *)
TypeOK ==
    /\ now \in 0 .. MaxTime /\ until \in [Threads -> 0 .. 2 * MaxTime]
    /\ pc \in [Threads -> {"woken", "wait", "timed", "expired", "run", "done"}]
    /\ running \in [Threads -> Entries \cup {Nothing}]
    /\ \A i \in 1 .. Len(taskQueue) : taskQueue[i] \in Entries
    /\ \A i, j \in 1 .. Len(taskQueue) : i < j =>
          taskQueue[i].time <= taskQueue[j].time /\ taskQueue[i].task # taskQueue[j].task

(* "Call func at/after time t": with one thread, as init.cpp starts, no    *)
(* function is called before its time.                                     *)
NeverEarly ==
    /\ TypeOK
    /\ Cardinality(scenario.threads) = 1 =>
      \A t \in Threads : pc[t] = "run" => running[t].time <= now

(* Every task that was scheduled while a thread services the queue is      *)
(* called, unless the threads are stopped without draining it: no          *)
(* notification is lost.                                                   *)
EveryTaskRuns ==
    \A k \in Tasks :
       (/\ \E t \in Threads : pc[t] # "done"
        /\ \E i \in 1 .. Len(taskQueue) : taskQueue[i].task = k /\ taskQueue[i].time <= MaxTime)
          ~> (stop \in {"now", "interrupt"} \/ \E t \in Threads : running[t].task = k)

(* Threads that are told to stop do stop, when the tasks are done if the   *)
(* queue is to be drained; none sleeps on.                                 *)
StopEnds == stop # "no" ~> \A t \in Threads : pc[t] = "done"
==============================================================================
