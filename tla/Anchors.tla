------------------------------- MODULE Anchors -------------------------------
(***************************************************************************)
(* Note commitment trees in the coins views: the anchors part of coins.cpp *)
(* and txdb.cpp, driven by ConnectTip and DisconnectTip (main.cpp) across  *)
(* the height zResetHeight, where the tree starts again and anchors of the *)
(* old tree stop being accepted (`postBurn').                              *)
(*                                                                         *)
(* A tree is the sequence of its commitments, and its root is the tree     *)
(* itself: different trees have different roots.  cs_main is held over     *)
(* each action.  The per-block view lives within one action; the reads     *)
(* that a block's JoinSplits make through it have, on pcoinsTip, the       *)
(* effect of Query, and a block that fails to connect has no other.        *)
(***************************************************************************)
EXTENDS Integers, Sequences, TLC

CONSTANTS
  Commitments,      \* note commitments
  EmptyRoot,        \* the commitment that opens the tree after the reset
  zResetHeight,     \* height of the block that resets the tree
  Null,             \* uint256()
  MaxHeight         \* bound: height of the chain

\* What the constants must satisfy.
AnchorsAssumption ==
  /\ zResetHeight \in Nat \ {0} /\ MaxHeight \in Nat
  /\ EmptyRoot \notin Commitments

VARIABLES
  dbAnchors,   \* DB_ANCHOR records: root to tree
  dbPost,      \* roots with a DB_ANCHOR_POST record
  dbHash,      \* DB_BEST_ANCHOR record, or Null
  dbChain,     \* the chain ending in the block of the DB_BEST_BLOCK record
  tipAnchors,  \* pcoinsTip->cacheAnchors
  tipHash,     \* pcoinsTip->hashAnchor
  chain,       \* chainActive above the genesis block: the root before each
               \* block (kept in its undo data and index) and after it
  unflagged    \* history: a caller that always passes postBurn = false has
               \* read through pcoinsTip since it was last empty

db == <<dbAnchors, dbPost, dbHash, dbChain>>
vars == <<db, tipAnchors, tipHash, chain, unflagged>>

empty_root == <<>>

Init ==
  /\ dbAnchors = <<>> /\ dbPost = {} /\ dbHash = Null /\ dbChain = <<>>
  /\ tipAnchors = <<>> /\ tipHash = Null /\ chain = <<>>
  /\ unflagged = FALSE

Height == Len(chain)

-----------------------------------------------------------------------------
(* Reading.  A cache is a partial function from roots to entries.          *)

\* CCoinsViewDB::GetAnchorAt: the result, and the tree it reads.
DbHas(rt, postBurn) ==
  rt = empty_root \/ (rt \in DOMAIN dbAnchors /\ (postBurn => rt \in dbPost))

DbTree(rt) == IF rt = empty_root THEN <<>> ELSE dbAnchors[rt]

\* Mutant: a cached anchor is accepted whatever its flag.
HasIgnoringFlag(cache, rt, postBurn, base) ==
  IF rt \in DOMAIN cache THEN cache[rt].entered ELSE base

\* CCoinsViewCache::GetAnchorAt over a parent that answers base.
Has(cache, rt, postBurn, base) ==
  IF rt \in DOMAIN cache
  THEN cache[rt].entered /\ (postBurn => cache[rt].postBurn)
  ELSE base

\* The cache after it: a hit or a failure changes nothing.
Fetched(cache, rt, postBurn, base, tree) ==
  IF rt \in DOMAIN cache \/ ~base THEN cache
  ELSE rt :> [entered |-> TRUE, tree |-> tree, postBurn |-> postBurn, dirty |-> FALSE]
       @@ cache

TipHas(rt, postBurn) == Has(tipAnchors, rt, postBurn, DbHas(rt, postBurn))

TipTree(rt) == IF rt \in DOMAIN tipAnchors THEN tipAnchors[rt].tree ELSE DbTree(rt)

TipFetched(rt, postBurn) ==
  Fetched(tipAnchors, rt, postBurn, DbHas(rt, postBurn), DbTree(rt))

DbBestAnchor == IF dbHash = Null THEN empty_root ELSE dbHash

\* GetBestAnchor
BestAnchor == IF tipHash = Null THEN DbBestAnchor ELSE tipHash

-----------------------------------------------------------------------------
(* Writing.                                                                *)

\* Mutant: the anchor of the parent is not replaced by that of the child.
MergedKeep(child, parent) ==
  [rt \in DOMAIN child \cup DOMAIN parent |->
     IF rt \in DOMAIN parent THEN parent[rt] ELSE child[rt]]

\* CCoinsViewCache::BatchWrite of the child's anchors.  The tree of an entry
\* that the parent has already is not replaced.
Merged(child, parent) ==
  [rt \in {r \in DOMAIN child : child[r].dirty} \cup DOMAIN parent |->
     IF rt \notin DOMAIN child \/ ~child[rt].dirty THEN parent[rt]
     ELSE IF rt \notin DOMAIN parent THEN child[rt]
     ELSE [entered |-> child[rt].entered,
           tree |-> parent[rt].tree,
           postBurn |-> child[rt].postBurn,
           dirty |-> \/ parent[rt].dirty
                     \/ parent[rt].entered # child[rt].entered
                     \/ parent[rt].postBurn # child[rt].postBurn]]

\* The flag of the anchor that the block at this height leaves.
PostBurn(height) == height >= zResetHeight

\* ConnectBlock: the tree after the block at this height.
TreeAfter(tree, commitments, height) ==
  IF height = zResetHeight THEN <<EmptyRoot>> ELSE tree \o commitments

\* PushAnchor on a view.
PushAnchor(cache, best, tree, postBurn) ==
  IF tree = best THEN cache
  ELSE tree :> [entered |-> TRUE, tree |-> tree, postBurn |-> postBurn, dirty |-> TRUE]
       @@ cache

\* Mutant: the anchor being removed is not brought into the cache first.
BringsNothing(best, newrt) == FALSE

\* PopAnchor reads the anchor it is going to remove, for its tree.
BringsBest(best, newrt) == best # newrt

\* PopAnchor on a view, after that.
PopAnchor(cache, best, newrt, postBurn) ==
  IF best = newrt THEN cache
  ELSE best :> [entered |-> FALSE,
                tree |-> IF best \in DOMAIN cache THEN cache[best].tree ELSE <<>>,
                postBurn |-> postBurn, dirty |-> TRUE] @@ cache

\* What the assertions in ConnectTip, ConnectBlock, DisconnectTip and
\* PopAnchor require of the tip before the next block comes or the last goes.
TipAssertion == TipHas(BestAnchor, PostBurn(Height))

ConnectTip(commitments) ==
  /\ Height < MaxHeight
  /\ TipAssertion
  /\ LET old == BestAnchor
         tip == TipFetched(old, PostBurn(Height))
         view == Fetched(<<>>, old, PostBurn(Height), TRUE, tip[old].tree)
         tree == TreeAfter(view[old].tree, commitments, Height + 1)
     IN  /\ tipAnchors' = Merged(PushAnchor(view, old, tree, PostBurn(Height + 1)), tip)
         /\ tipHash' = tree
         /\ chain' = Append(chain, [hashAnchor |-> old, hashAnchorEnd |-> tree])
  /\ UNCHANGED <<db, unflagged>>

DisconnectTip ==
  /\ Height > 0
  /\ TipAssertion
  /\ LET best == BestAnchor
         old == chain[Height].hashAnchor
         brings == BringsBest(best, old)
         tip == IF brings THEN TipFetched(best, PostBurn(Height)) ELSE tipAnchors
         view == IF brings THEN Fetched(<<>>, best, PostBurn(Height), TRUE, tip[best].tree)
                 ELSE <<>>
         merged == Merged(PopAnchor(view, best, old, PostBurn(Height)), tip)
         base == DbHas(old, PostBurn(Height - 1))
     IN  /\ tipAnchors' = Fetched(merged, old, PostBurn(Height - 1), base, DbTree(old))
         /\ tipHash' = old
  /\ chain' = SubSeq(chain, 1, Height - 1)
  /\ UNCHANGED <<db, unflagged>>

\* Anchors that some view knows of; asking for another changes nothing.
Known == DOMAIN dbAnchors \cup DOMAIN tipAnchors \cup {empty_root}

\* AcceptToMemoryPool, the JoinSplits of a block, z_sendmany.
Query(rt) ==
  /\ tipAnchors' = TipFetched(rt, PostBurn(Height))
  /\ UNCHANGED <<db, tipHash, chain, unflagged>>

\* ScanForWalletTransactions asks for the tree before each block.
RescanQuery(h) ==
  /\ tipAnchors' = TipFetched(chain[h].hashAnchor, h > zResetHeight)
  /\ UNCHANGED <<db, tipHash, chain, unflagged>>

\* getblockchaininfo asks for the best anchor, CTxMemPool::check for those
\* of its transactions and WitnessNoteCommitment for those of the chain.
UnflaggedQuery(rt) ==
  /\ tipAnchors' = TipFetched(rt, FALSE)
  /\ unflagged' = TRUE
  /\ UNCHANGED <<db, tipHash, chain>>

\* FlushStateToDisk: pcoinsTip->Flush() and CCoinsViewDB::BatchWrite.
Flush ==
  LET dirty == {rt \in DOMAIN tipAnchors : tipAnchors[rt].dirty}
      entered == {rt \in dirty : tipAnchors[rt].entered}
      erased == dirty \ entered
      post == {rt \in dirty : tipAnchors[rt].postBurn}
  IN  /\ dbAnchors' = [rt \in (DOMAIN dbAnchors \cup entered) \ erased |->
                         IF rt \in entered THEN tipAnchors[rt].tree ELSE dbAnchors[rt]]
      /\ dbPost' = (dbPost \cup (entered \cap post)) \ (erased \cap post)
      /\ dbHash' = IF tipHash = Null THEN dbHash ELSE tipHash
      /\ dbChain' = chain
      /\ tipAnchors' = <<>> /\ unflagged' = FALSE
      /\ UNCHANGED <<tipHash, chain>>

Crash ==
  /\ tipAnchors' = <<>> /\ tipHash' = Null
  /\ chain' = dbChain /\ unflagged' = FALSE
  /\ UNCHANGED db

Next ==
  \/ \E cs \in {<<>>} \cup {<<c>> : c \in Commitments} : ConnectTip(cs)
  \/ DisconnectTip
  \/ \E rt \in Known : Query(rt) \/ UnflaggedQuery(rt)
  \/ \E h \in 1 .. Height : RescanQuery(h)
  \/ Flush
  \/ Crash

Spec == Init /\ [][Next]_vars

-----------------------------------------------------------------------------
(* Properties.                                                             *)

\* "This should never fail: we should always be able to get the root that is
\* on the tip of our chain" (ConnectBlock), whatever callers have read.
TipAnchorAlwaysAvailable == TipAssertion

\* The roots of the tree that the tip's chain accepts at this height: those
\* of its own blocks, after the reset only of blocks from the reset on.
ChainAnchors ==
  {chain[h].hashAnchorEnd : h \in {i \in 1 .. Height :
                                     PostBurn(Height) => i >= zResetHeight}}

\* JoinSplits are accepted only when their anchor is a root of the active
\* chain from the right side of the reset, whatever the caches went through
\* (the root of the empty tree is always in the database).
AcceptedAnchorsAreCurrent ==
  \A rt \in Known \ {empty_root} :
    TipHas(rt, PostBurn(Height)) => rt \in ChainAnchors

\* ... and every such anchor is accepted, with the same exception.  Above
\* all the anchor of the tip is: the assertions of ConnectTip, ConnectBlock,
\* PopAnchor and DisconnectTip on it hold after any history of
\* reorganisations, flushes and crashes, unless a caller has just read with
\* the wrong flag.
CurrentAnchorsAccepted ==
  ~unflagged => /\ TipAssertion
                /\ \A rt \in ChainAnchors \ {empty_root} : TipHas(rt, PostBurn(Height))

\* "Consistency check: the root of the tree we're given should match what we
\* asked for" (ConnectBlock): the tree that comes with an anchor is its own,
\* also for anchors that were removed and added again in a reorganisation.
TreeMatchesRoot ==
  \A rt \in Known : TipHas(rt, FALSE) => TipTree(rt) = rt
=============================================================================
