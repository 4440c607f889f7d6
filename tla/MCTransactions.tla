---------------------------- MODULE MCTransactions ----------------------------
(***************************************************************************)
(* What transactions spend and where they wait, part by part: the caches   *)
(* over the coins database (CoinsViewCache) and the memory pool (Mempool). *)
(*                                                                         *)
(* A behavior belongs to one part, which the initial state chooses.  The   *)
(* coins keep their variables, which stay at Init in the other part; the   *)
(* variables of the pool are s1, s2, s3 and s4, which are "off" in the     *)
(* first part.                                                             *)
(***************************************************************************)
EXTENDS CoinsViewCache, TLC

CONSTANTS t1, t2           \* the transaction ids of the coins

VARIABLES part, s1, s2, s3, s4

\* The pool: an instance in which every rule has a transaction.

HashOrder == <<"x", "b", "a", "j", "k", "n", "l", "m", "d", "z">>

Plain(vin, vout) ==
    [vin |-> vin, vout |-> vout, nullifiers |-> {}, anchor |-> <<>>, nLockTime |-> 0]

Joins(vin, nf, anchor) ==
    [vin |-> vin, vout |-> {}, nullifiers |-> {nf}, anchor |-> anchor, nLockTime |-> 0]

(* a spends a coinbase, of the fork; b and n, which is not standard, both  *)
(* spend a; m spends n, and is locked; x spends a with a bad script.  j    *)
(* and l have the same nullifier; k needs the tree with j in it, which the *)
(* reset makes unusable; z needs the tree that the reset starts, and       *)
(* spends b, as d does.                                                    *)
Tx == "a" :> Plain({<<"c1", 0>>}, {0, 1}) @@ "b" :> Plain({<<"a", 0>>}, {0})
     @@ "n" :> Plain({<<"a", 0>>}, {0}) @@ "m" :> [Plain({<<"n", 0>>}, {0}) EXCEPT !.nLockTime = 3]
     @@ "d" :> Plain({<<"b", 0>>}, {0}) @@ "x" :> Plain({<<"a", 1>>}, {0})
     @@ "j" :> Joins({}, "n1", <<>>) @@ "l" :> Joins({}, "n1", <<>>) @@ "k" :> Joins({}, "n2", <<"j">>)
     @@ "z" :> Joins({<<"b", 0>>}, "n3", <<"empty">>)

Coinbase == <<"c1", "c2", "c3", "c4">>

MP == INSTANCE Mempool
      WITH Nonstandard <- {"n"}, LowFee <- {"m"}, BadScript <- {"x"}, Peers <- {"p1", "p2"},
           coinbaseMaturity <- 2, zResetHeight <- 2, EmptyRoot <- "empty",
           nUnmovedBurnHeight <- 3, ForkEnd <- 1, nMaxOrphanTx <- 2, MaxHeight <- 4,
           MaxBlockTx <- 2,
           chain <- s1, pcoinsTip <- s2, pool <- s3, orphans <- s4

ASSUME ConstantsAssumption == MP!MempoolAssumption

mempool == <<s1, s2, s3, s4>>

MCInit ==
    /\ Init
    /\ \/ part = "coins" /\ s1 = "off" /\ s2 = "off" /\ s3 = "off" /\ s4 = "off"
       \/ part = "pool" /\ MP!Init

CoinsNext == part = "coins" /\ Next /\ UNCHANGED <<part, mempool>>
PoolNext == part = "pool" /\ MP!Next /\ UNCHANGED <<part, vars>>

MCNext == CoinsNext \/ PoolNext

MCSpec == MCInit /\ [][MCNext]_<<part, vars, mempool>>

\* The transaction ids of the coins are interchangeable.
TxidSymmetry == Permutations({t1, t2})

-----------------------------------------------------------------------------
(* What CTxMemPool::check asserts, of all transactions but those that one  *)
(* of the two heights has stranded: the indexes are exact, and the pool    *)
(* can be mined on top of the tip (removeForBlock, removeWithAnchor,       *)
(* removeCoinbaseSpends).                                                  *)
CheckHolds == part = "pool" => MP!CheckHolds

(* The index of the orphans by parent is exact and bounded (AddOrphanTx,   *)
(* EraseOrphanTx, LimitOrphanTxSize).                                      *)
OrphansAreIndexed == part = "pool" => MP!OrphansAreIndexed

(* A change of the tip neither loses nor keeps a transaction wrongly       *)
(* (ConnectTip, DisconnectTip).                                            *)
TipChangesAreExact == [][part = "pool" => MP!ExactTipChange]_mempool

(* When a peer's tx message brings a missing parent, no orphan that can    *)
(* follow it into the pool is left waiting (ProcessMessage, vWorkQueue).   *)
OrphansFollowTheirParents == [][part = "pool" => MP!NoneLeftWaiting]_mempool
=============================================================================
