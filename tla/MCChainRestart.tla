--------------------------- MODULE MCChainRestart ---------------------------
(***************************************************************************)
(* ChainRestart on a tree of four blocks: two branches of equal height, of *)
(* which the second becomes the better one with its second block.          *)
(***************************************************************************)
EXTENDS ChainRestart

Fork == {"g", "a1", "b1", "b2"}
ForkParent == [b \in Fork \ {"g"} |-> IF b = "b2" THEN "b1" ELSE "g"]
ForkWork == [b \in Fork |-> Height(b)]
ForkAddress == [b \in Fork |-> CASE b = "g" -> 1 [] b = "b1" -> 2
                                  [] b = "a1" -> 3 [] b = "b2" -> 4]

Plain == [threads |-> Threads, fPruneMode |-> FALSE, rpcs |-> {}, badContext |-> {},
          badConnect |-> {}]

(* Nothing special; pruning; an invalid block.                             *)
Three == {Plain,
          [Plain EXCEPT !.fPruneMode = TRUE, !.threads = {CHOOSE t \in Threads : TRUE}],
          [Plain EXCEPT !.badConnect = {"b2"}]}
Invalidated == {[Plain EXCEPT !.rpcs = {"invalidate"}]}
=============================================================================
