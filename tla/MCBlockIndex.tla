---------------------------- MODULE MCBlockIndex ----------------------------
(***************************************************************************)
(* BlockIndex on a tree of two branches.  Their first blocks have equal    *)
(* work, so that there are ties; the second block of the second branch is  *)
(* a heavy one, so that the branch is still better when its first block is *)
(* deep enough to be pruned.                                               *)
(***************************************************************************)
EXTENDS BlockIndex

Forked == {"g", "a1", "a2", "b1", "b2"}
ForkedParent == [b \in Forked \ {"g"} |->
                   CASE b = "a1" -> "g" [] b = "a2" -> "a1"
                     [] b = "b1" -> "g" [] b = "b2" -> "b1"]
ForkedWork == [b \in Forked |-> IF b = "b2" THEN 3 ELSE Height(b)]
ForkedAddress == [b \in Forked |->
                    CASE b = "g" -> 1 [] b = "a1" -> 2 [] b = "b1" -> 3
                      [] b = "a2" -> 4 [] b = "b2" -> 5]

Plain == [threads |-> Threads, fPruneMode |-> FALSE, rpcs |-> {}, badContext |-> {},
          badConnect |-> {}]

(* An invalid block and invalidateblock; both commands; pruning.           *)
Three == {[Plain EXCEPT !.rpcs = {"invalidate"}, !.badConnect = {"b2"}],
          [Plain EXCEPT !.rpcs = {"invalidate", "reconsider"}, !.badContext = {"a2"}],
          [Plain EXCEPT !.fPruneMode = TRUE]}
=============================================================================
