--------------------------- MODULE MCAsyncRPCQueue ---------------------------
(* AsyncRPCQueue as it is; the .cfg file gives the constants their values. *)
EXTENDS AsyncRPCQueue
==============================================================================
