---------------------------- MODULE ChainRestart ----------------------------
(***************************************************************************)
(* BlockIndex on a disk: FlushStateToDisk writes the dirty entries of the  *)
(* block index, and after them the chainstate, which remembers the block   *)
(* it belongs to.  The index is also written on its own, more often.  A    *)
(* crash leaves what was written, and LoadBlockIndexDB rebuilds the block  *)
(* tree, the candidates and the active chain from it.                      *)
(*                                                                         *)
(* ConnectTip and DisconnectTip flush in the middle, when the chainstate   *)
(* has moved and chainActive has not; on disk this is the same as a flush  *)
(* right after them, so flushes are not tied to places in the code here.   *)
(***************************************************************************)
EXTENDS BlockIndex

Seqs == INSTANCE SequencesExt

VARIABLES
    dirty,             \* setDirtyBlockIndex
    diskIndex,         \* the block index database
    diskTip,           \* best block of the coin database
    diskPruned,        \* the flag prunedblockfiles
    flush              \* what a flush under way has to write next

disk == <<dirty, diskIndex, diskTip, diskPruned, flush>>
allvars == <<vars, disk>>

(* The fields of CBlockIndex that are serialized.                          *)
Stored(e) == [e EXCEPT !.nChainTx = FALSE, !.seq = 0]

(* InitBlockIndex ends with a flush.                                       *)
RInit ==
    /\ Init
    /\ dirty = {}
    /\ diskIndex = [b \in Blocks |-> Stored(bi[b])]
    /\ diskTip = Genesis
    /\ diskPruned = FALSE
    /\ flush = "nothing"

(* FindMostWorkChain is alone in changing entries without marking them.    *)
Dirtied ==
    IF \E t \in Threads : RejectCandidate(t)
    THEN {}
    ELSE {b \in Blocks : Stored(bi'[b]) # Stored(bi[b])}

(* A step of a thread.                                                     *)
ChainStep ==
    /\ flush = "nothing"
    /\ \E t \in Threads : Request(t) \/ Continue(t)
    /\ dirty' = dirty \cup Dirtied
    /\ UNCHANGED <<diskIndex, diskTip, diskPruned, flush>>

(* Files are chosen for pruning at the start of a flush; the flag that     *)
(* tells of it is written at once.                                         *)
PruneStep ==
    /\ flush \in {"nothing", "index"}
    /\ \E b \in Blocks : PruneOneBlockFile(b)
    /\ dirty' = dirty \cup Dirtied
    /\ diskPruned' = TRUE
    /\ flush' = "index"
    /\ UNCHANGED <<diskIndex, diskTip>>

(* Mutant: only new entries are written.                                   *)
WrittenIfNew == [b \in Blocks |-> IF b \in dirty /\ diskIndex[b].valid = UNKNOWN
                                  THEN Stored(bi[b]) ELSE diskIndex[b]]

Written == [b \in Blocks |-> IF b \in dirty THEN Stored(bi[b]) ELSE diskIndex[b]]

(* InvalidateBlock gets to a flush when it has disconnected a block.       *)
Flushable == \A t \in Threads : At(t, "invalidate") => tip # th[t].old

(* The block index is written; in a full flush, as after pruning, the      *)
(* coins are next.  The index alone is only written in a periodic flush,   *)
(* at the end of ActivateBestChain.                                        *)
WriteBlockIndex(fDoFullFlush) ==
    /\ flush = "index" \/ (flush = "nothing" /\ Flushable)
    /\ fDoFullFlush \/ (flush = "nothing" /\ cs_main = NULL)
    /\ diskIndex' = Written
    /\ dirty' = {}
    /\ flush' = IF fDoFullFlush THEN "coins" ELSE "nothing"
    /\ UNCHANGED <<vars, diskTip, diskPruned>>

FlushCoins ==
    /\ flush = "coins"
    /\ diskTip' = tip
    /\ flush' = "nothing"
    /\ UNCHANGED <<vars, dirty, diskIndex, diskPruned>>

-----------------------------------------------------------------------------
(* LoadBlockIndexDB                                                        *)

(* In order of height, and of address among equals.                        *)
ByHeight(S) ==
    Seqs!SetToSortSeq(S, LAMBDA a, b : \/ Height(a) < Height(b)
                                       \/ Height(a) = Height(b) /\ Address[a] < Address[b])

(* nChainTx is set for a block when it is set for its parent: when all its *)
(* ancestors have been received at some time.                              *)
Linked(b) == \A c \in Chain[b] : diskIndex[c].nTx

Loaded == [b \in Blocks |-> [diskIndex[b] EXCEPT !.nChainTx = Linked(b)]]

(* Mutant: blocks that wait for a parent are not remembered.               *)
NoneWaits == <<>>

(* The blocks that go into mapBlocksUnlinked.                              *)
LoadedUnlinked ==
    ByHeight({b \in Blocks \ {Genesis} : diskIndex[b].nTx /\ ~Linked(Parent[b])})

(* Mutants: PruneBlockIndexCandidates takes the tip too; only the tip is a *)
(* candidate.                                                              *)
CandidatesAboveTip ==
    {b \in Blocks : IsValid(diskIndex[b], TRANSACTIONS) /\ Linked(b)
                      /\ Worse(Loaded, diskTip, b)}
TipAlone == {diskTip}

(* The candidates that PruneBlockIndexCandidates leaves.                   *)
LoadedCandidates ==
    {b \in Blocks : IsValid(diskIndex[b], TRANSACTIONS) /\ Linked(b)
                      /\ ~Worse(Loaded, b, diskTip)}

LoadedBestInvalid ==
    LET failed == {b \in Blocks : diskIndex[b].failed # {}}
    IN  IF failed = {} THEN NULL
        ELSE Head(ByHeight({b \in failed : \A c \in failed : Work[c] <= Work[b]}))

(* The process dies and is started again; ThreadImport ends with a call of *)
(* ActivateBestChain.  PruneBlockIndexCandidates asserts that it has left  *)
(* a candidate, or the node does not start.                                *)
Restart ==
    /\ LoadedCandidates # {}
    /\ bi' = Loaded
    /\ unlinked' = LoadedUnlinked
    /\ candidates' = LoadedCandidates
    /\ bestInvalid' = LoadedBestInvalid
    /\ tip' = diskTip
    /\ nBlockSequenceId' = 1
    /\ fHavePruned' = diskPruned
    /\ cs_main' = NULL
    /\ \E t \in scenario.threads :
         th' = [s \in Threads |-> IF s = t THEN [Idle EXCEPT !.pc = "activate"] ELSE Idle]
    /\ dirty' = {}
    /\ flush' = "nothing"
    /\ UNCHANGED <<scenario, diskIndex, diskTip, diskPruned>>

RNext ==
    \/ ChainStep \/ PruneStep
    \/ \E fDoFullFlush \in BOOLEAN : WriteBlockIndex(fDoFullFlush)
    \/ FlushCoins
    \/ Restart

RSpec == RInit /\ [][RNext]_allvars

(* A thread can go on: it holds cs_main, or needs it and it is free, or    *)
(* needs it not; and no flush is under way.                                *)
CanContinue(t) ==
    /\ flush = "nothing"
    /\ th[t].pc \notin {"idle", "aborted"}
    /\ th[t].pc = "activate" => Locked(t)
    /\ th[t].pc = "link" => nBlockSequenceId < MaxSequence
    /\ th[t].pc = "invalidate" /\ Contains(th[t].block) => CanDisconnect

(* A flush that was begun ends, and each thread that can go on again and   *)
(* again, whenever it obtains cs_main, does so.  The conditions are spelt  *)
(* out in place of ENABLED.                                                *)
FairRSpec ==
    /\ RSpec
    /\ []<>(flush = "nothing")
    /\ \A t \in Threads : <>[]~CanContinue(t) \/ []<><<Continue(t)>>_allvars

-----------------------------------------------------------------------------
(* The coin database never gets ahead of the block index database: its     *)
(* best block and all the ancestors are there, were connected, and, unless *)
(* pruned, have undo data.  Otherwise a node could not start, or not       *)
(* reorganise, after a crash.                                              *)
DiskTipIsIndexed ==
    \A b \in Chain[diskTip] \ {Genesis} :
        /\ diskIndex[b].valid = SCRIPTS
        /\ diskPruned \/ diskIndex[b].undo

(* What CheckBlockIndex asserts also holds after any restart, with the     *)
(* same exceptions and one more: of mapBlocksUnlinked it is claimed only   *)
(* as long as no block file is pruned.  LoadBlockIndexDB finds the links,  *)
(* the candidates and the blocks that wait for a parent again although     *)
(* none of them is stored (but it lets pruned blocks wait as well).        *)
IndexIsRebuilt ==
    Unlocked /\ NotReconsidered =>
        /\ LinkedIsComplete /\ (~ReorgFailed => CandidatesAreComplete)
        /\ ~fHavePruned => NothingTooMuch /\ UnlinkedIsComplete

(* PruneBlockIndexCandidates asserts that the current tip, or a successor  *)
(* of it, is left in setBlockIndexCandidates; LoadBlockIndexDB calls it    *)
(* with the tip the coin database remembers.  Whenever the node dies, it   *)
(* can be started again, as long as invalidateblock was not used.          *)
CandidatesLeftAtStart ==
    "invalidate" \notin scenario.rpcs => LoadedCandidates # {}

(* The same with invalidateblock.                                          *)
CandidatesAlwaysLeftAtStart == LoadedCandidates # {}

(* When requests and crashes stop, every call of ActivateBestChain returns *)
(* or, where pruned data is in the way, aborts the node: no round can      *)
(* undo what another one has done for ever.                                *)
Settles ==
    (<>[][~Restart /\ \A t \in Threads : ~Request(t)]_allvars)
      => <>[](\/ \A t \in Threads : th[t].pc \in {"idle", "aborted"}
              \/ nBlockSequenceId = MaxSequence)
=============================================================================
