--------------------------- MODULE ChainstateStore ---------------------------
(***************************************************************************)
(* What the stack of coins views promises to the validation code: a store  *)
(* holding, for every transaction, its unspent outputs, the set of         *)
(* revealed nullifiers and the block that this state belongs to.  A block  *)
(* is applied to a working copy that is committed or dropped as a whole,   *)
(* and a crash loses whole commits, never a part of one.                   *)
(***************************************************************************)
CONSTANTS
  Txids,       \* transaction ids
  Coins,       \* possible sets of unspent outputs of a transaction
  Pruned,      \* no unspent output left (CCoins::IsPruned)
  Nullifiers,  \* note nullifiers
  Blocks,      \* block hashes
  Null         \* uint256(): no block

VARIABLES
  durable,    \* the state a restart comes back to
  committed,  \* the state of the chain tip
  working,    \* the state being computed from it
  open        \* a block is being applied

vars == <<durable, committed, working, open>>

State == [coins : [Txids -> Coins \cup {Pruned}],
          nullifiers : SUBSET Nullifiers,
          best : Blocks \cup {Null}]

Empty == [coins |-> [t \in Txids |-> Pruned], nullifiers |-> {}, best |-> Null]

Init ==
  /\ durable = Empty /\ committed = Empty /\ working = Empty
  /\ open = FALSE

Begin ==
  /\ ~open /\ open' = TRUE
  /\ UNCHANGED <<durable, committed, working>>

SetCoins(t, c) ==
  /\ open
  /\ working' = [working EXCEPT !.coins = [@ EXCEPT ![t] = c]]
  /\ UNCHANGED <<durable, committed, open>>

SetNullifier(nf, spent) ==
  /\ open
  /\ working' = [working EXCEPT !.nullifiers = IF spent THEN @ \cup {nf} ELSE @ \ {nf}]
  /\ UNCHANGED <<durable, committed, open>>

SetBest(h) ==
  /\ open
  /\ working' = [working EXCEPT !.best = h]
  /\ UNCHANGED <<durable, committed, open>>

Commit ==
  /\ open /\ open' = FALSE
  /\ committed' = working
  /\ UNCHANGED <<durable, working>>

Rollback ==
  /\ open /\ open' = FALSE
  /\ working' = committed
  /\ UNCHANGED <<durable, committed>>

Persist ==
  /\ ~open
  /\ durable' = committed
  /\ UNCHANGED <<committed, working, open>>

Crash ==
  /\ committed' = durable /\ working' = durable
  /\ open' = FALSE
  /\ UNCHANGED durable

Next ==
  \/ Begin \/ Commit \/ Rollback \/ Persist \/ Crash
  \/ \E t \in Txids, c \in Coins \cup {Pruned} : SetCoins(t, c)
  \/ \E nf \in Nullifiers, spent \in BOOLEAN : SetNullifier(nf, spent)
  \/ \E h \in Blocks : SetBest(h)

Spec == Init /\ [][Next]_vars
=============================================================================
