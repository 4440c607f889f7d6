---------------------------- MODULE MCScheduler ----------------------------
(***************************************************************************)
(* Two functions.  One thread with a repeated function, which the shutdown *)
(* interrupts, as in init.cpp; two threads and every way to stop.          *)
(***************************************************************************)
EXTENDS Scheduler

MCTasks == {"dump", "flush"}
AllOnce == [k \in MCTasks |-> 0]
DumpRepeats == [AllOnce EXCEPT !["dump"] = 2]

Two == {[threads |-> {CHOOSE t \in Threads : TRUE}, period |-> DumpRepeats,
         stops |-> {"now", "interrupt"}],
        [threads |-> Threads, period |-> AllOnce, stops |-> {"now", "drain", "interrupt"}]}
=============================================================================
