----------------------------- MODULE MCCheckQueue -----------------------------
(* CheckQueue as it is; the .cfg file gives the constants their values. *)
EXTENDS CheckQueue

=============================================================================
