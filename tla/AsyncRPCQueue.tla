---------------------------- MODULE AsyncRPCQueue ----------------------------
(***************************************************************************)
(* The queue of asynchronous RPC operations (asyncrpcqueue.cpp), the       *)
(* operations themselves (asyncrpcoperation.cpp, and main() of z_sendmany  *)
(* and z_shieldcoinbase), the worker threads, the RPC client that adds     *)
(* operations and asks for their status, and the thread that shuts the     *)
(* queue down.                                                             *)
(*                                                                         *)
(* A step is a critical section under lock_, or one load or store of an    *)
(* atomic made outside it.  lock_ is a variable because                    *)
(* cancelAllOperations holds it over several such loads and stores.  The   *)
(* client holds cs_main and cs_wallet during a call, so there is one.      *)
(***************************************************************************)
EXTENDS Naturals, Sequences, FiniteSets

CONSTANTS
    Ops,          \* operations
    Workers,      \* worker threads
    Shutdowns     \* of "close" and "finish", those that may come

ASSUME AsyncAssumption == Shutdowns \subseteq {"close", "finish"}

VARIABLES
    closed_, finish_,
    operation_map_,        \* ids of the operations in the map
    operation_id_queue_,
    lock_,                 \* cancelAllOperations holds the lock
    state_,                \* OperationStatus of each operation, "NEW" before it exists
    ran,                   \* how often main() of each operation executed
    worker,                \* of each worker its place in run(), and the operation it has
    closer,                \* place in closeAndWait or finishAndWait, operations to cancel
    client                 \* place in z_getoperationstatus, and the answer so far

vars == <<closed_, finish_, operation_map_, operation_id_queue_, lock_, state_, ran,
          worker, closer, client>>
queue == <<closed_, finish_, operation_map_, operation_id_queue_, lock_>>

None == "none"
Final == {"CANCELLED", "FAILED", "SUCCESS"}
NoAnswer == [pc |-> "idle", op |-> None, remove |-> FALSE, status |-> None,
             error |-> FALSE, result |-> FALSE]

Init ==
    /\ closed_ = FALSE /\ finish_ = FALSE /\ lock_ = FALSE
    /\ operation_map_ = {} /\ operation_id_queue_ = <<>>
    /\ state_ = [o \in Ops |-> "NEW"]
    /\ ran = [o \in Ops |-> 0]
    /\ worker = [w \in Workers |-> [pc |-> "none", op |-> None]]
    /\ closer = [pc |-> "idle", left |-> {}, op |-> None]
    /\ client = NoAnswer

-----------------------------------------------------------------------------
(* The client                                                              *)

Pushed(o) == Append(operation_id_queue_, o)

Accepts == ~closed_ /\ ~finish_

(* condition_.notify_one: what the workers may become.                     *)
Waiting(ws) == {w \in Workers : ws[w].pc = "wait"}
Woken(ws, W) == [w \in Workers |-> IF w \in W THEN [ws[w] EXCEPT !.pc = "look"] ELSE ws[w]]
NotifyOne(ws) ==
    IF Waiting(ws) = {} THEN {ws} ELSE {Woken(ws, {w}) : w \in Waiting(ws)}

(* z_sendmany, z_shieldcoinbase: a new operation, and addOperation.        *)
addOperation(o) ==
    /\ ~lock_ /\ client.pc = "idle"
    /\ state_[o] = "NEW"
    /\ state_' = [state_ EXCEPT ![o] = "READY"]
    /\ IF Accepts
       THEN /\ operation_map_' = operation_map_ \cup {o}
            /\ operation_id_queue_' = Pushed(o)
            /\ worker' \in NotifyOne(worker)
       ELSE UNCHANGED <<operation_map_, operation_id_queue_, worker>>
    /\ UNCHANGED <<closed_, finish_, lock_, ran, closer, client>>

(* z_getoperationstatus and, with remove, z_getoperationresult: an         *)
(* operation found in the map.                                             *)
getOperationForId(o, remove) ==
    /\ ~lock_ /\ client.pc = "idle"
    /\ o \in operation_map_
    /\ client' = [NoAnswer EXCEPT !.pc = "status", !.op = o, !.remove = remove]
    /\ UNCHANGED <<queue, state_, ran, worker, closer>>

(* getStatus loads state_ for the status, for the error, for the result.   *)
getStatus ==
    /\ client.pc = "status"
    /\ client' = [client EXCEPT !.pc = "error", !.status = state_[client.op]]
    /\ UNCHANGED <<queue, state_, ran, worker, closer>>

getError ==
    /\ client.pc = "error"
    /\ client' = [client EXCEPT !.pc = "result", !.error = (state_[client.op] = "FAILED")]
    /\ UNCHANGED <<queue, state_, ran, worker, closer>>

getResult ==
    /\ client.pc = "result"
    /\ client' = [client EXCEPT !.pc = "answer", !.result = (state_[client.op] = "SUCCESS")]
    /\ UNCHANGED <<queue, state_, ran, worker, closer>>

(* Mutant: operations that are not over are removed as well.               *)
RemovesAny == client.remove

Removes == client.remove /\ client.status \in Final

(* The answer is given, and a finished operation popped.                   *)
popOperationForId ==
    /\ ~lock_ /\ client.pc = "answer"
    /\ operation_map_' = IF Removes THEN operation_map_ \ {client.op} ELSE operation_map_
    /\ client' = NoAnswer
    /\ UNCHANGED <<closed_, finish_, operation_id_queue_, lock_, state_, ran, worker, closer>>

-----------------------------------------------------------------------------
(* A worker                                                                *)

addWorker(w) ==
    /\ ~lock_ /\ closer.pc = "idle"
    /\ worker[w].pc = "none"
    /\ worker' = [worker EXCEPT ![w].pc = "look"]
    /\ UNCHANGED <<queue, state_, ran, closer, client>>

(* Mutant: closing, a worker leaves what is in the queue.                  *)
QueueLeft == operation_id_queue_

DoneFinishing == finish_ /\ operation_id_queue_ = <<>>
QueueAfterClose == <<>>

(* The critical section of run(): wait, leave, or take an operation.       *)
Look(w) ==
    /\ ~lock_ /\ worker[w].pc = "look"
    /\ IF operation_id_queue_ = <<>> /\ ~closed_ /\ ~finish_
       THEN /\ worker' = [worker EXCEPT ![w].pc = "wait"]
            /\ UNCHANGED operation_id_queue_
       ELSE IF DoneFinishing
       THEN /\ worker' = [worker EXCEPT ![w].pc = "done"]
            /\ UNCHANGED operation_id_queue_
       ELSE IF closed_
       THEN /\ worker' = [worker EXCEPT ![w].pc = "done"]
            /\ operation_id_queue_' = QueueAfterClose
       ELSE LET o == Head(operation_id_queue_)
            IN  /\ operation_id_queue_' = Tail(operation_id_queue_)
                /\ worker' = IF o \in operation_map_
                             THEN [worker EXCEPT ![w] = [pc |-> "taken", op |-> o]]
                             ELSE worker
    /\ UNCHANGED <<closed_, finish_, operation_map_, lock_, state_, ran, closer, client>>

SpuriousWakeup(w) ==
    /\ worker[w].pc = "wait"
    /\ worker' = [worker EXCEPT ![w].pc = "look"]
    /\ UNCHANGED <<queue, state_, ran, closer, client>>

Free(w) == worker' = [worker EXCEPT ![w] = [pc |-> "look", op |-> None]]

(* isCancelled() is asked in run() and again in main().                    *)
Check(w) ==
    /\ worker[w].pc \in {"taken", "main"}
    /\ IF state_[worker[w].op] = "CANCELLED"
       THEN Free(w)
       ELSE worker' = [worker EXCEPT ![w].pc = IF @ = "taken" THEN "main" ELSE "execute"]
    /\ UNCHANGED <<queue, state_, ran, closer, client>>

Execute(w) ==
    /\ worker[w].pc = "execute"
    /\ state_' = [state_ EXCEPT ![worker[w].op] = "EXECUTING"]
    /\ ran' = [ran EXCEPT ![worker[w].op] = @ + 1]
    /\ worker' = [worker EXCEPT ![w].pc = "work"]
    /\ UNCHANGED <<queue, closer, client>>

(* main_impl succeeds, or fails with an error.                             *)
Complete(w, status) ==
    /\ worker[w].pc = "work"
    /\ state_' = [state_ EXCEPT ![worker[w].op] = status]
    /\ Free(w)
    /\ UNCHANGED <<queue, ran, closer, client>>

-----------------------------------------------------------------------------
(* Shutting down                                                           *)

close ==
    /\ closer.pc = "idle" /\ "close" \in Shutdowns
    /\ closed_' = TRUE
    /\ closer' = [closer EXCEPT !.pc = "cancel"]
    /\ UNCHANGED <<finish_, operation_map_, operation_id_queue_, lock_, state_, ran, worker, client>>

finish ==
    /\ closer.pc = "idle" /\ "finish" \in Shutdowns
    /\ finish_' = TRUE
    /\ closer' = [closer EXCEPT !.pc = "notify"]
    /\ UNCHANGED <<closed_, operation_map_, operation_id_queue_, lock_, state_, ran, worker, client>>

cancelAllOperations ==
    /\ closer.pc = "cancel" /\ ~lock_
    /\ lock_' = TRUE
    /\ closer' = [closer EXCEPT !.pc = "each", !.left = operation_map_]
    /\ UNCHANGED <<closed_, finish_, operation_map_, operation_id_queue_, state_, ran, worker, client>>

(* cancel() of one operation: a load, and a store if it was READY.         *)
CancelCheck(o) ==
    /\ closer.pc = "each" /\ o \in closer.left
    /\ closer' = [pc |-> IF state_[o] = "READY" THEN "store" ELSE "each",
                  left |-> closer.left \ {o},
                  op |-> o]
    /\ UNCHANGED <<queue, state_, ran, worker, client>>

CancelStore ==
    /\ closer.pc = "store"
    /\ state_' = [state_ EXCEPT ![closer.op] = "CANCELLED"]
    /\ closer' = [closer EXCEPT !.pc = "each"]
    /\ UNCHANGED <<queue, ran, worker, client>>

CancelledAll ==
    /\ closer.pc = "each" /\ closer.left = {}
    /\ lock_' = FALSE
    /\ worker' = Woken(worker, Waiting(worker))
    /\ closer' = [pc |-> "notify", left |-> {}, op |-> None]
    /\ UNCHANGED <<closed_, finish_, operation_map_, operation_id_queue_, state_, ran, client>>

(* Mutant: the workers are joined without having been told.                *)
NotifiedNobody == worker

Notified == Woken(worker, Waiting(worker))

(* wait_for_worker_threads.                                                *)
NotifyWorkers ==
    /\ closer.pc = "notify" /\ ~lock_
    /\ worker' = Notified
    /\ closer' = [closer EXCEPT !.pc = "join"]
    /\ UNCHANGED <<queue, state_, ran, client>>

JoinWorkers ==
    /\ closer.pc = "join"
    /\ \A w \in Workers : worker[w].pc \in {"none", "done"}
    /\ closer' = [closer EXCEPT !.pc = "done"]
    /\ UNCHANGED <<queue, state_, ran, worker, client>>

-----------------------------------------------------------------------------
Client ==
    \/ \E o \in Ops : addOperation(o) \/ \E remove \in BOOLEAN : getOperationForId(o, remove)
    \/ getStatus \/ getError \/ getResult \/ popOperationForId

Worker(w) ==
    Look(w) \/ Check(w) \/ Execute(w) \/ \E status \in {"SUCCESS", "FAILED"} : Complete(w, status)

Closer ==
    \/ cancelAllOperations \/ (\E o \in Ops : CancelCheck(o)) \/ CancelStore \/ CancelledAll
    \/ NotifyWorkers \/ JoinWorkers

Next ==
    \/ Client
    \/ \E w \in Workers : addWorker(w) \/ Worker(w) \/ SpuriousWakeup(w)
    \/ close \/ finish \/ Closer

Spec == Init /\ [][Next]_vars

(* Threads that can go on do; a worker that is told of something looks,    *)
(* however many spurious wake-ups there are.                               *)
FairSpec == Spec /\ WF_vars(Closer) /\ \A w \in Workers : WF_vars(Worker(w))
-----------------------------------------------------------------------------
(* The variables have their types; an operation waits in the queue once.   *)
TypeOK ==
    /\ operation_map_ \subseteq Ops
    /\ \A i, j \in 1 .. Len(operation_id_queue_) :
          operation_id_queue_[i] \in Ops /\ (operation_id_queue_[i] = operation_id_queue_[j] => i = j)
    /\ state_ \in [Ops -> {"NEW", "READY", "EXECUTING"} \cup Final]
    /\ \A w \in Workers : worker[w].op \in Ops \cup {None}
    /\ closer.left \subseteq Ops
    /\ client.status \in {None, "READY", "EXECUTING"} \cup Final

Accepted(o) == ran[o] > 0 \/ o \in operation_map_
Stopped == closer.pc = "done" /\ \E w \in Workers : worker[w].pc = "done"

(* finishAndWait returns when every operation the queue accepted was       *)
(* executed, exactly once, by whichever worker took it.                    *)
FinishRunsEverything ==
    Stopped /\ ~closed_ =>
        /\ operation_id_queue_ = <<>>
        /\ \A o \in operation_map_ : ran[o] = 1 /\ state_[o] \in Final

(* closeAndWait returns when no operation waits or executes any more: each *)
(* was executed once, or cancelled.                                        *)
CloseSettlesEverything ==
    Stopped =>
        /\ operation_id_queue_ = <<>>
        /\ \A o \in Ops : ran[o] <= 1
        /\ \A o \in operation_map_ : state_[o] \in Final

(* Until a shutdown begins, z_getoperationresult removes an operation only *)
(* when it is over: no worker has it or will take it, so its result is not *)
(* lost.                                                                   *)
RemovedIsOver ==
    \A o \in Ops : state_[o] # "NEW" /\ o \notin operation_map_ /\ ~closed_ /\ ~finish_ =>
        /\ state_[o] \in Final
        /\ \A w \in Workers : worker[w].op # o

(* "If the operation has failed, it will include an error object.  If the  *)
(* operation has succeeded, it will include the result value": the three   *)
(* loads of getStatus agree when the first finds the operation over, as    *)
(* long as no operation is being cancelled.                                *)
AnswerIsWhole ==
    ~closed_ /\ client.pc = "answer" /\ client.status \in {"FAILED", "SUCCESS"} =>
        client.error = (client.status = "FAILED") /\ client.result = (client.status = "SUCCESS")

(* What z_getoperationresult and z_getoperationstatus tell is true, as     *)
(* long as no shutdown cancels operations.                                 *)
AnswersAreTrue == TypeOK /\ RemovedIsOver /\ AnswerIsWhole

(* When closeAndWait or finishAndWait returns, nothing is left half done.  *)
ShutdownSettlesEverything == FinishRunsEverything /\ CloseSettlesEverything

(* A shutdown ends: the workers hear of it and leave.                      *)
ShutdownEnds == closer.pc # "idle" ~> closer.pc = "done"
==============================================================================
