------------------------------- MODULE Mempool -------------------------------
(***************************************************************************)
(* The memory pool and the orphan transactions, as transactions arrive     *)
(* from peers and from the node itself and blocks are connected and        *)
(* disconnected (main.cpp, txmempool.cpp).  All of it happens under        *)
(* cs_main, so that a handler is one step.                                 *)
(*                                                                         *)
(* A block is the sequence of its transactions after the coinbase, which   *)
(* is Coinbase[h] at height h, with one output.  pcoinsTip is a function   *)
(* of the active chain here, and answers as the database does: how it is   *)
(* kept, and what cached answers do to it, are the subjects of             *)
(* CoinsViewCache and Anchors.  A commitment tree is the sequence of the   *)
(* transactions that have added to it.  The rules change at two heights:   *)
(* at zResetHeight the tree starts again and its old anchors are no longer *)
(* accepted; after nUnmovedBurnHeight the coins up to the end of the fork  *)
(* cannot be spent.  Fees, sizes and priorities are left out, but for the  *)
(* transactions in LowFee.  The filter recentRejects is a Bloom filter,    *)
(* which may take any transaction for one that was rejected: it is no      *)
(* variable but a choice.                                                  *)
(***************************************************************************)
EXTENDS Integers, FiniteSets, SequencesExt

CONSTANTS
    HashOrder,         \* the transactions, in the order of their hashes
    Tx,                \* vin, vout, nullifiers, anchor and nLockTime of each
    Coinbase,          \* the coinbase of each height up to MaxHeight
    Nonstandard,       \* transactions that IsStandardTx refuses
    LowFee,            \* ... that the fee rules for relay refuse
    BadScript,         \* ... whose scripts fail
    Peers,
    coinbaseMaturity,
    zResetHeight,      \* height of the block that restarts the tree
    EmptyRoot,         \* the commitment that opens the new tree
    nUnmovedBurnHeight,
    ForkEnd,           \* forkStartHeight + forkHeightRange
    nMaxOrphanTx,
    MaxHeight,         \* bound on the height of the chain
    MaxBlockTx         \* bound on the transactions of a block

VARIABLES
    chain,             \* the blocks of chainActive
    pcoinsTip,         \* what it shows: unspent outputs, nullifiers, anchors,
                       \* and which of them are from before the two heights
    pool,              \* mapTx, mapNextTx and mapNullifiers of the pool
    orphans            \* mapOrphanTransactions and the index by parent

vars == <<chain, pcoinsTip, pool, orphans>>

AllTx == ToSet(HashOrder)
Coinbases == Range(Coinbase)
HasJoinSplit(t) == Tx[t].nullifiers # {}
Inputs(T) == UNION {Tx[t].vin : t \in T}
NullifiersOf(T) == UNION {Tx[t].nullifiers : t \in T}
Outputs(T) == UNION {{t} \X Tx[t].vout : t \in T}

\* What the constants must satisfy.
MempoolAssumption ==
    /\ Peers # {} /\ coinbaseMaturity \in Nat /\ nMaxOrphanTx \in Nat
    /\ zResetHeight \in Nat \ {0} /\ nUnmovedBurnHeight \in Nat /\ ForkEnd \in Nat
    /\ DOMAIN Coinbase = 1 .. MaxHeight /\ Coinbases \cap AllTx = {} /\ EmptyRoot \notin AllTx
    /\ Nonstandard \cup LowFee \cup BadScript \subseteq AllTx

-----------------------------------------------------------------------------
(* Coins views                                                             *)

Confirmed(c) == UNION {ToSet(c[h].vtx) : h \in DOMAIN c}

EmptyView == [height |-> 0, coins |-> {}, old |-> {}, nullifiers |-> {},
              tree |-> <<>>, anchors |-> {<<>>}, post |-> {}]

(* UpdateCoins adds outputs of t, at the height of the view.               *)
WithOutputs(view, t, outputs) ==
    [view EXCEPT !.coins = @ \cup outputs,
                 !.old = IF view.height <= ForkEnd THEN @ \cup {t} ELSE @]

(* A transaction of a block is applied: UpdateCoins, and the tree.         *)
Applied(view, t) ==
    [WithOutputs(view, t, Outputs({t}))
        EXCEPT !.coins = @ \ Tx[t].vin,
               !.nullifiers = @ \cup Tx[t].nullifiers,
               !.tree = IF HasJoinSplit(t) THEN Append(@, t) ELSE @]

(* A block at the height above begins with its coinbase and ends with the  *)
(* anchor; the one at zResetHeight starts the tree again before that.      *)
Begun(view) ==
    LET h == view.height + 1
    IN  WithOutputs([view EXCEPT !.height = h], Coinbase[h], {<<Coinbase[h], 0>>})

Ended(view) ==
    LET tree == IF view.height = zResetHeight THEN <<EmptyRoot>> ELSE view.tree
    IN  [view EXCEPT !.tree = tree, !.anchors = @ \cup {tree},
                     !.post = IF view.height >= zResetHeight THEN @ \cup {tree} ELSE @]

HaveCoins(view, hash) == \E o \in view.coins : o[1] = hash

(* GetAnchorAt; the database has the empty tree on both sides.             *)
GetAnchorAt(view, rt, postBurn) == rt = <<>> \/ rt \in IF postBurn THEN view.post ELSE view.anchors

HaveJoinSplitRequirements(view, t, postBurn) ==
    HasJoinSplit(t) => /\ Tx[t].nullifiers \cap view.nullifiers = {}
                       /\ GetAnchorAt(view, Tx[t].anchor, postBurn)

Mature(hash, h) ==
    \A i \in 1 .. MaxHeight : hash = Coinbase[i] => h - i >= coinbaseMaturity

Burned(view, hash, h) ==
    nUnmovedBurnHeight # 0 /\ h > nUnmovedBurnHeight /\ hash \in view.old

(* CheckTxInputs, once the inputs are known to be there.                   *)
CheckTxInputs(view, t, nSpendHeight) ==
    /\ HaveJoinSplitRequirements(view, t, nSpendHeight > zResetHeight)
    /\ \A o \in Tx[t].vin : Mature(o[1], nSpendHeight) /\ ~Burned(view, o[1], nSpendHeight)

IsFinalTx(t, nBlockHeight) == Tx[t].nLockTime < nBlockHeight

-----------------------------------------------------------------------------
(* CTxMemPool                                                              *)

addUnchecked(p, t) ==
    [tx    |-> p.tx \cup {t},
     next  |-> [o \in DOMAIN p.next \cup Tx[t].vin |->
                  IF o \in Tx[t].vin THEN t ELSE p.next[o]],
     nulls |-> [nf \in DOMAIN p.nulls \cup Tx[t].nullifiers |->
                  IF nf \in Tx[t].nullifiers THEN t ELSE p.nulls[nf]]]

Without(p, T) ==
    [tx    |-> p.tx \ T,
     next  |-> Restrict(p.next, DOMAIN p.next \ Inputs(T)),
     nulls |-> Restrict(p.nulls, DOMAIN p.nulls \ NullifiersOf(T))]

(* What the queue txToRemove goes through, starting with T.                *)
Descendants(p, T) ==
    LET WithChildren(S) == S \cup {p.next[o] : o \in {u \in DOMAIN p.next : u[1] \in S}}
        D[n \in 0 .. Len(HashOrder)] == IF n = 0 THEN T ELSE WithChildren(D[n - 1])
    IN  D[Len(HashOrder)]

(* remove, of each of T, which may not be in the pool.                     *)
remove(p, T, fRecursive) ==
    Without(p, p.tx \cap (IF fRecursive THEN Descendants(p, T) ELSE T))

removeCoinbaseSpends(p, view, nMemPoolHeight) ==
    LET Lost(o) == o[1] \notin p.tx /\ (~HaveCoins(view, o[1]) \/ ~Mature(o[1], nMemPoolHeight))
    IN  remove(p, {t \in p.tx : \E o \in Tx[t].vin : Lost(o)}, TRUE)

(* Mutant: the anchor is not looked at.                                    *)
removeNothing(p, invalidRoot) == p

removeWithAnchor(p, invalidRoot) ==
    remove(p, {t \in p.tx : HasJoinSplit(t) /\ Tx[t].anchor = invalidRoot}, TRUE)

removeConflicts(p, t) ==
    LET conflicts == {p.next[o] : o \in DOMAIN p.next \cap Tx[t].vin}
                       \cup {p.nulls[nf] : nf \in DOMAIN p.nulls \cap Tx[t].nullifiers}
    IN  remove(p, conflicts \ {t}, TRUE)

(* Mutant: a transaction takes its descendants with it into the block.     *)
removeFamilies(p, block) ==
    FoldLeft(LAMBDA q, t : removeConflicts(remove(q, {t}, TRUE), t), p, block)

removeForBlock(p, block) ==
    FoldLeft(LAMBDA q, t : removeConflicts(remove(q, {t}, FALSE), t), p, block)

-----------------------------------------------------------------------------
(* AcceptToMemoryPool, with pcoinsTip as view and chainActive at nHeight   *)

(* The tests before the inputs are looked up.                              *)
Considered(p, view, nHeight, t) ==
    /\ t \notin Nonstandard
    /\ IsFinalTx(t, nHeight + 1)
    /\ t \notin p.tx
    /\ Tx[t].vin \cap DOMAIN p.next = {}
    /\ Tx[t].nullifiers \cap DOMAIN p.nulls = {}
    /\ ~HaveCoins(view, t)

fMissingInputs(p, view, t) ==
    \E o \in Tx[t].vin : o[1] \notin p.tx /\ ~HaveCoins(view, o[1])

(* The tests on the inputs, up to the scripts.  The view is that of the    *)
(* pool over pcoinsTip, with the nullifiers of both.  chainActive is one   *)
(* block ahead of it while a block is being disconnected.                  *)
InputsAccepted(p, view, nHeight, t, fLimitFree) ==
    LET viewMemPool == [view EXCEPT !.nullifiers = @ \cup DOMAIN p.nulls]
    IN  /\ Tx[t].vin \subseteq Outputs(p.tx) \cup view.coins
        /\ HaveJoinSplitRequirements(viewMemPool, t, nHeight >= zResetHeight)
        /\ fLimitFree => t \notin LowFee
        /\ CheckTxInputs(viewMemPool, t, view.height + 1)

(* How it ends; only "invalid" counts against the sender.                  *)
Verdict(p, view, nHeight, t, fLimitFree) ==
    IF ~Considered(p, view, nHeight, t) THEN "refused"
    ELSE IF fMissingInputs(p, view, t) THEN "missing"
    ELSE IF ~InputsAccepted(p, view, nHeight, t, fLimitFree) THEN "refused"
    ELSE IF t \in BadScript THEN "invalid" ELSE "accepted"

-----------------------------------------------------------------------------
(* mapOrphanTransactions and mapOrphanTransactionsByPrev                   *)

Parents(t) == {o[1] : o \in Tx[t].vin}

AddOrphanTx(m, t, peer) ==
    IF t \in DOMAIN m.tx THEN m
    ELSE [tx |-> [u \in DOMAIN m.tx \cup {t} |-> IF u = t THEN peer ELSE m.tx[u]],
          byPrev |-> [h \in DOMAIN m.byPrev \cup Parents(t) |->
                        (IF h \in DOMAIN m.byPrev THEN m.byPrev[h] ELSE {})
                          \cup {u \in {t} : h \in Parents(t)}]]

(* Mutant: the index is left as it is.                                     *)
EraseOrphanTxOnly(m, T) == [m EXCEPT !.tx = Restrict(@, DOMAIN @ \ T)]

(* EraseOrphanTx, of each of T.                                            *)
EraseOrphanTx(m, T) ==
    [tx |-> Restrict(m.tx, DOMAIN m.tx \ T),
     byPrev |-> [h \in {g \in DOMAIN m.byPrev : ~(m.byPrev[g] \subseteq T)} |->
                   m.byPrev[h] \ T]]

(* LimitOrphanTxSize evicts orphans at random.                             *)
Limited(m) ==
    {EraseOrphanTx(m, T) : T \in {E \in SUBSET DOMAIN m.tx :
        Cardinality(E) = Max({0, Cardinality(DOMAIN m.tx) - nMaxOrphanTx})}}

(* An orphan is tried again, in the handler of its parent.                 *)
Retried(s, t) ==
    LET peer == orphans.tx[t]
        verdict == Verdict(s.pool, pcoinsTip, Len(chain), t, TRUE)
    IN  IF peer \in s.setMisbehaving \/ verdict = "missing" THEN s
        ELSE [pool           |-> IF verdict = "accepted" THEN addUnchecked(s.pool, t) ELSE s.pool,
              vWorkQueue     |-> IF verdict = "accepted" THEN Append(s.vWorkQueue, t) ELSE s.vWorkQueue,
              vEraseQueue    |-> s.vEraseQueue \cup {t},
              setMisbehaving |-> s.setMisbehaving \cup {q \in {peer} : verdict = "invalid"}]

(* Mutant: the orphans are left where they are.                            *)
RetryNothing(s, i) == s

(* All orphans that depend on the i-th transaction of vWorkQueue.          *)
RetryChildren(s, i) ==
    LET children == IF i \in DOMAIN s.vWorkQueue /\ s.vWorkQueue[i] \in DOMAIN orphans.byPrev
                    THEN orphans.byPrev[s.vWorkQueue[i]] ELSE {}
    IN  FoldLeft(Retried, s, SelectSeq(HashOrder, LAMBDA t : t \in children))

(* The state after t was accepted from a peer.                             *)
Accepted(t) ==
    FoldLeft(RetryChildren,
             [pool |-> addUnchecked(pool, t), vWorkQueue |-> <<t>>, vEraseQueue |-> {},
              setMisbehaving |-> {}],
             [i \in 1 .. Cardinality(DOMAIN orphans.tx) + 1 |-> i])

-----------------------------------------------------------------------------
(* Actions                                                                 *)

Init ==
    /\ chain = <<>> /\ pcoinsTip = EmptyView
    /\ pool = [tx |-> {}, next |-> <<>>, nulls |-> <<>>]
    /\ orphans = [tx |-> <<>>, byPrev |-> <<>>]

(* AlreadyHave, but for recentRejects.                                     *)
AlreadyHave(t) == t \in pool.tx \cup DOMAIN orphans.tx \/ HaveCoins(pcoinsTip, t)

(* A "tx" message, with a transaction that is not taken for a rejected one *)
(* and is accepted, ...                                                    *)
TxAccepted(t) ==
    /\ ~AlreadyHave(t) /\ Verdict(pool, pcoinsTip, Len(chain), t, TRUE) = "accepted"
    /\ \E s \in {Accepted(t)} :
          /\ pool' = s.pool
          /\ orphans' = EraseOrphanTx(orphans, s.vEraseQueue)
    /\ UNCHANGED <<chain, pcoinsTip>>

(* ... or lacks a parent.  In all other cases it is dropped.               *)
TxOrphaned(t) ==
    /\ ~AlreadyHave(t) /\ Verdict(pool, pcoinsTip, Len(chain), t, TRUE) = "missing"
    /\ ~HasJoinSplit(t)
    /\ \E peer \in Peers : orphans' \in Limited(AddOrphanTx(orphans, t, peer))
    /\ UNCHANGED <<chain, pcoinsTip, pool>>

(* sendrawtransaction, and transactions of the wallet.                     *)
Submit(t) ==
    /\ Verdict(pool, pcoinsTip, Len(chain), t, FALSE) = "accepted"
    /\ pool' = addUnchecked(pool, t)
    /\ UNCHANGED <<chain, pcoinsTip, orphans>>

(* FinalizeNode calls EraseOrphansFor.                                     *)
EraseOrphansFor(peer) ==
    /\ \E t \in DOMAIN orphans.tx : orphans.tx[t] = peer
    /\ orphans' = EraseOrphanTx(orphans, {t \in DOMAIN orphans.tx : orphans.tx[t] = peer})
    /\ UNCHANGED <<chain, pcoinsTip, pool>>

(* ConnectBlock lets t through as the next transaction of a block.         *)
Connects(view, t) ==
    /\ t \notin BadScript /\ IsFinalTx(t, view.height)
    /\ ~HaveCoins(view, t)
    /\ Tx[t].vin \subseteq view.coins
    /\ CheckTxInputs(view, t, view.height)

(* The blocks that can be connected, each with the view it leads to.       *)
Connectable ==
    LET Extended(b) == {[vtx |-> Append(b.vtx, t), view |-> Applied(b.view, t)] :
                          t \in {u \in AllTx : Connects(b.view, u)}}
        Longer(S) == S \cup UNION {Extended(b) : b \in S}
        B[n \in 0 .. MaxBlockTx] ==
            IF n = 0 THEN {[vtx |-> <<>>, view |-> Begun(pcoinsTip)]} ELSE Longer(B[n - 1])
    IN  B[MaxBlockTx]

ConnectTip(block) ==
    /\ chain' = Append(chain, [vtx |-> block.vtx, undo |-> pcoinsTip])
    /\ pcoinsTip' = Ended(block.view)
    /\ pool' = removeForBlock(pool, block.vtx)
    /\ UNCHANGED orphans

(* The transactions of a disconnected block return to the pool; where one  *)
(* is not accepted, those that depend on it leave.                         *)
Resurrected(p, view, t) ==
    IF t \notin Coinbases /\ Verdict(p, view, Len(chain), t, FALSE) = "accepted"
    THEN addUnchecked(p, t) ELSE remove(p, {t}, TRUE)

DisconnectTip ==
    /\ chain # <<>>
    /\ LET view == Last(chain).undo
           vtx == <<Coinbase[Len(chain)]>> \o Last(chain).vtx
           back == FoldLeft(LAMBDA q, t : Resurrected(q, view, t), pool, vtx)
           anchored == IF pcoinsTip.tree # view.tree
                       THEN removeWithAnchor(back, pcoinsTip.tree) ELSE back
       IN  /\ pool' = removeCoinbaseSpends(anchored, view, Len(chain))
           /\ pcoinsTip' = view
    /\ chain' = Front(chain)
    /\ UNCHANGED orphans

Next ==
    \/ \E t \in AllTx : TxAccepted(t) \/ TxOrphaned(t) \/ Submit(t)
    \/ \E peer \in Peers : EraseOrphansFor(peer)
    \/ Len(chain) < MaxHeight /\ \E block \in Connectable : ConnectTip(block)
    \/ DisconnectTip

Spec == Init /\ [][Next]_vars

-----------------------------------------------------------------------------
(* Properties                                                              *)

TypeOK ==
    /\ Confirmed(chain) \subseteq AllTx /\ pcoinsTip.height = Len(chain)
    /\ pool.tx \subseteq AllTx
    /\ DOMAIN orphans.tx \subseteq AllTx /\ Range(orphans.tx) \subseteq Peers

(* mapNextTx and mapNullifiers hold what the transactions of the pool      *)
(* spend, each for the one transaction that spends it.                     *)
MapsAreExact ==
    /\ DOMAIN pool.next = Inputs(pool.tx) /\ DOMAIN pool.nulls = NullifiersOf(pool.tx)
    /\ \A t \in pool.tx : /\ \A o \in Tx[t].vin : pool.next[o] = t
                          /\ \A nf \in Tx[t].nullifiers : pool.nulls[nf] = t

(* Of a set of transactions, those that blocks after view could contain,   *)
(* some after others, as soon as their lock time has come.                 *)
Minable(view, T) ==
    LET Fits(t, S) == Tx[t].vin \subseteq view.coins \cup Outputs(S)
                        /\ CheckTxInputs(view, t, view.height + 1)
    IN  UNION {S \in SUBSET T : \A t \in S : Fits(t, S)}

(* Transactions whose anchor or coins the two heights have made unusable,  *)
(* with what depends on them.  Nothing removes them when the block at such *)
(* a height is connected.                                                  *)
TooLate(view, t) ==
    \/ /\ HasJoinSplit(t) /\ view.height >= zResetHeight
       /\ Tx[t].anchor \in view.anchors \ (view.post \cup {<<>>})
    \/ \E o \in Tx[t].vin : Burned(view, o[1], view.height + 1)
Stranded(view, p) == Descendants(p, {t \in p.tx : TooLate(view, t)})

(* What CTxMemPool::check asserts, of all transactions but those that one  *)
(* of the two heights has stranded: the indexes are exact, and the pool    *)
(* can be mined on top of the tip, parents before children, whatever       *)
(* blocks were connected and disconnected.                                 *)
CheckHolds ==
    /\ TypeOK /\ MapsAreExact
    /\ Minable(pcoinsTip, pool.tx) = pool.tx \ Stranded(pcoinsTip, pool)

(* What DisconnectTip offers to the pool and AcceptToMemoryPool does not   *)
(* refuse out of hand.  While the block at zResetHeight is disconnected    *)
(* chainActive still ends with it, and only anchors after the reset pass.  *)
Offered(block, height) ==
    {t \in ToSet(block.vtx) \ Nonstandard :
        height = zResetHeight => ~HasJoinSplit(t) \/ Tx[t].anchor = <<>>}

(* A change of the tip neither loses nor keeps a transaction wrongly: what *)
(* was in the pool or is offered by the disconnected block is in the pool  *)
(* afterwards exactly if it can be mined on the new tip, but for those     *)
(* that one of the two heights has stranded, which stay (ConnectTip,       *)
(* DisconnectTip, removeForBlock, removeWithAnchor, removeCoinbaseSpends). *)
ExactTipChange ==
    chain' # chain =>
        LET back == IF Len(chain') < Len(chain) THEN Offered(Last(chain), Len(chain)) ELSE {}
        IN  pool'.tx \ Stranded(pcoinsTip', pool')
              = Minable(pcoinsTip', (pool.tx \cup back) \ Confirmed(chain'))
TipChangesAreExact == [][ExactTipChange]_vars

(* The index by parent leads to every orphan from each of its parents and  *)
(* to nothing else, so that the loop over it finds each transaction in     *)
(* mapOrphanTransactions; and their number is limited.                     *)
OrphansAreIndexed ==
    /\ orphans.byPrev = [h \in UNION {Parents(t) : t \in DOMAIN orphans.tx} |->
                            {t \in DOMAIN orphans.tx : h \in Parents(t)}]
    /\ Cardinality(DOMAIN orphans.tx) <= nMaxOrphanTx

(* When a peer's tx message brings a missing parent, no orphan that can    *)
(* follow it into the pool is left waiting, neither its children nor their *)
(* descendants, unless a transaction of the same sender failed its scripts *)
(* on the way (ProcessMessage, vWorkQueue).                                *)
NoneLeftWaiting ==
    \A t \in pool'.tx \ pool.tx : TxAccepted(t) =>
        \A u \in DOMAIN orphans'.tx :
            /\ Parents(u) \cap (pool'.tx \ pool.tx) # {}
            /\ ~\E v \in BadScript \cap DOMAIN orphans.tx : orphans.tx[v] = orphans.tx[u]
            => fMissingInputs(pool', pcoinsTip, u)
OrphansFollowTheirParents == [][NoneLeftWaiting]_vars
=============================================================================
