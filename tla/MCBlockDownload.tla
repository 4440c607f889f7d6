--------------------------- MODULE MCBlockDownload ---------------------------
(***************************************************************************)
(* BlockDownload on a tree of two branches, of one and of two blocks, and  *)
(* an invalid block that competes with the longer one.  With a window of   *)
(* one block the second block of a branch is the one that shows a stall;   *)
(* with two requests per peer a list has two entries, and is full.  The    *)
(* first peer answers, and its chain is reorganised; the second one may    *)
(* do anything: hold back blocks, keep the sync slot, lead to the invalid  *)
(* block, or go away.                                                      *)
(***************************************************************************)
EXTENDS BlockDownload

Forked == {"g", "a1", "b1", "b2", "x2"}
ForkedParent == [b \in Forked \ {"g"} |-> IF b \in {"a1", "b1"} THEN "g" ELSE "b1"]
ForkedInvalid == {"x2"}
ForkedServes == [p \in Peers |-> IF p = "p1" THEN {"a1", "b1", "b2"} ELSE {"x2"}]
=============================================================================
