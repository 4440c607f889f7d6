----------------------------- MODULE BlockFiles -----------------------------
(***************************************************************************)
(* The block and undo files (blk?????.dat, rev?????.dat) and what the      *)
(* block index says about them.  FindBlockPos and FindUndoPos hand out     *)
(* places, FlushBlockFile commits one pair of files, FlushStateToDisk      *)
(* commits, writes the index, unlinks pruned files and writes the coins,   *)
(* in this order.  A crash loses the memory of the process; a power        *)
(* failure also loses file contents that were not committed.               *)
(*                                                                         *)
(* One branch is enough here: blocks are their heights.  They are received *)
(* in any order and connected and disconnected in order.  Undo data has    *)
(* size 1.                                                                 *)
(***************************************************************************)
EXTENDS Integers, FiniteSets, FiniteSetsExt

CONSTANTS
    Height,                \* of the highest block
    Size,                  \* of each block
    MAX_BLOCKFILE_SIZE,
    LastFile,              \* bound on the number of files
    MIN_BLOCKS_TO_KEEP,
    MaxFailures            \* bound on the number of crashes and power failures

\* What the constants must satisfy.
FilesAssumption ==
    /\ Height \in Nat /\ LastFile \in Nat /\ MIN_BLOCKS_TO_KEEP \in Nat
    /\ MAX_BLOCKFILE_SIZE \in Nat
    /\ Size \in [1 .. Height -> 1 .. MAX_BLOCKFILE_SIZE - 1]
    /\ MaxFailures \in Nat

Blocks == 1 .. Height
Files == 0 .. LastFile
Nowhere == [file |-> -1, pos |-> -1]
Places == 0 .. MAX_BLOCKFILE_SIZE - 1
Positions == [file : Files, pos : Places] \cup {Nowhere}

VARIABLES
    past,                  \* history: whether a block was ever disconnected, and
                           \* how many crashes and power failures there were
    data, undo,            \* GetBlockPos(), GetUndoPos() of each block
    info,                  \* vinfoBlockFile
    nLastBlockFile,
    dirty,                 \* setDirtyBlockIndex
    tip,                   \* height of the active chain, and of pcoinsTip
    flush,                 \* where FlushStateToDisk is
    setFilesToPrune,
    db,                    \* the two databases
    blk, rev,              \* file contents, as a read sees them
    blkDisk, revDisk       \* file contents that survive a power failure

vars == <<past, data, undo, info, nLastBlockFile, dirty, tip, flush,
          setFilesToPrune, db, blk, rev, blkDisk, revDisk>>
files == <<blk, rev, blkDisk, revDisk>>

Unused == [nSize |-> 0, nUndoSize |-> 0, nHeightLast |-> 0]

(* Contents of a file: the block at each place, 0 where there is none.     *)
Empty == [f \in Files |-> [p \in Places |-> 0]]

Init ==
    /\ past = [reorg |-> FALSE, crash |-> 0, power |-> 0]
    /\ data = [b \in Blocks |-> Nowhere]
    /\ undo = [b \in Blocks |-> Nowhere]
    /\ info = [f \in Files |-> Unused]
    /\ nLastBlockFile = 0
    /\ dirty = {}
    /\ tip = 0
    /\ flush = "none"
    /\ setFilesToPrune = {}
    /\ db = [data |-> data, undo |-> undo, info |-> info, last |-> 0, tip |-> 0]
    /\ blk = Empty /\ rev = Empty /\ blkDisk = Empty /\ revDisk = Empty

(* FlushBlockFile: the current pair of files reaches the disk.             *)
FlushBlockFile ==
    /\ blkDisk' = [blkDisk EXCEPT ![nLastBlockFile] = blk[nLastBlockFile]]
    /\ revDisk' = [revDisk EXCEPT ![nLastBlockFile] = rev[nLastBlockFile]]

HasRoom(f, b) == info[f].nSize + Size[b] < MAX_BLOCKFILE_SIZE

(* The file FindBlockPos takes: the first from the current one on that has *)
(* room.                                                                   *)
FileWithRoom(b) == Min({f \in nLastBlockFile .. LastFile : HasRoom(f, b)})

(* CBlockFileInfo::AddBlock.                                               *)
AddBlock(i, b) ==
    [i EXCEPT !.nSize = @ + Size[b], !.nHeightLast = IF b > @ THEN b ELSE @]

(* Mutant: the file that is left behind is not committed.                  *)
LeaveFileOpen(f) == UNCHANGED <<blkDisk, revDisk>>

LeaveFile(f) == IF f # nLastBlockFile THEN FlushBlockFile ELSE UNCHANGED <<blkDisk, revDisk>>

(* AcceptBlock: a block that is not stored is written to a file.           *)
AcceptBlock(b) ==
    /\ flush = "none"
    /\ data[b] = Nowhere
    /\ \E f \in nLastBlockFile .. LastFile : HasRoom(f, b)
    /\ LET f == FileWithRoom(b)
       IN  /\ LeaveFile(f)
           /\ nLastBlockFile' = f
           /\ data' = [data EXCEPT ![b] = [file |-> f, pos |-> info[f].nSize]]
           /\ info' = [info EXCEPT ![f] = AddBlock(@, b)]
           /\ blk' = [blk EXCEPT ![f] =
                         [p \in Places |-> IF p \in info[f].nSize .. info[f].nSize + Size[b] - 1
                                           THEN b ELSE @[p]]]
    /\ dirty' = dirty \cup {b}
    /\ UNCHANGED <<past, undo, tip, flush, setFilesToPrune, db, rev>>

(* ConnectBlock: the undo data goes into the file of the same number as    *)
(* the block's, unless it is there from an earlier time.                   *)
ConnectTip ==
    LET b == tip + 1
        f == data[b].file
    IN  /\ flush = "none"
        /\ b \in Blocks /\ data[b] # Nowhere
        /\ tip' = b
        /\ IF undo[b] = Nowhere
           THEN /\ undo' = [undo EXCEPT ![b] = [file |-> f, pos |-> info[f].nUndoSize]]
                /\ info' = [info EXCEPT ![f].nUndoSize = @ + 1]
                /\ rev' = [rev EXCEPT ![f][info[f].nUndoSize] = b]
                /\ dirty' = dirty \cup {b}
           ELSE UNCHANGED <<undo, info, rev, dirty>>
        /\ UNCHANGED <<past, data, nLastBlockFile, flush, setFilesToPrune, db, blk,
                       blkDisk, revDisk>>

(* DisconnectTip needs the block and its undo data.                        *)
DisconnectTip ==
    /\ flush = "none"
    /\ tip > 0
    /\ data[tip] # Nowhere /\ undo[tip] # Nowhere
    /\ tip' = tip - 1
    /\ past' = [past EXCEPT !.reorg = TRUE]
    /\ UNCHANGED <<data, undo, info, nLastBlockFile, dirty, flush,
                   setFilesToPrune, db, files>>

-----------------------------------------------------------------------------
(* FlushStateToDisk                                                        *)

(* Mutants: the file of the tip may go as well; what is pruned is not      *)
(* marked dirty.                                                           *)
PrunableAll(f) == f < nLastBlockFile /\ info[f].nSize # 0
NothingPruned(F) == {}

(* FindFilesToPrune spares the current file, and the files that hold a     *)
(* recent block.                                                           *)
Prunable(f) ==
    /\ f < nLastBlockFile /\ info[f].nSize # 0
    /\ info[f].nHeightLast + MIN_BLOCKS_TO_KEEP <= tip

(* The entries that pruning the files in F changes.                        *)
PrunedFrom(F) == {b \in Blocks : data[b].file \in F}

(* A flush begins.  It prunes the lowest prunable files, as many as it     *)
(* takes to come below the target; PruneOneBlockFile forgets what is in    *)
(* them.                                                                   *)
BeginFlush(F) ==
    /\ flush = "none"
    /\ flush' = "files"
    /\ setFilesToPrune' = F
    /\ data' = [b \in Blocks |-> IF data[b].file \in F THEN Nowhere ELSE data[b]]
    /\ undo' = [b \in Blocks |-> IF data[b].file \in F THEN Nowhere ELSE undo[b]]
    /\ info' = [f \in Files |-> IF f \in F THEN Unused ELSE info[f]]
    /\ dirty' = dirty \cup PrunedFrom(F)
    /\ UNCHANGED <<past, nLastBlockFile, tip, db, files>>

FlushFiles ==
    /\ flush = "files"
    /\ FlushBlockFile
    /\ flush' = "index"
    /\ UNCHANGED <<past, data, undo, info, nLastBlockFile, dirty, tip,
                   setFilesToPrune, db, blk, rev>>

(* WriteBatchSync: dirty index entries and file information in one batch.  *)
WriteIndex ==
    /\ flush = "index"
    /\ db' = [db EXCEPT !.data = [b \in Blocks |-> IF b \in dirty THEN data[b] ELSE @[b]],
                        !.undo = [b \in Blocks |-> IF b \in dirty THEN undo[b] ELSE @[b]],
                        !.info = info, !.last = nLastBlockFile]
    /\ dirty' = {}
    /\ flush' = "unlink"
    /\ UNCHANGED <<past, data, undo, info, nLastBlockFile, tip, setFilesToPrune, files>>

Without(contents) == [f \in Files |-> IF f \in setFilesToPrune THEN Empty[f] ELSE contents[f]]

(* UnlinkPrunedFiles; an index-only write ends here.                       *)
UnlinkPrunedFiles(fDoFullFlush) ==
    /\ flush = "unlink"
    /\ setFilesToPrune # {} => fDoFullFlush
    /\ blk' = Without(blk) /\ rev' = Without(rev)
    /\ blkDisk' = Without(blkDisk) /\ revDisk' = Without(revDisk)
    /\ setFilesToPrune' = {}
    /\ flush' = IF fDoFullFlush THEN "coins" ELSE "none"
    /\ UNCHANGED <<past, data, undo, info, nLastBlockFile, dirty, tip, db>>

FlushCoins ==
    /\ flush = "coins"
    /\ db' = [db EXCEPT !.tip = tip]
    /\ flush' = "none"
    /\ UNCHANGED <<past, data, undo, info, nLastBlockFile, dirty, tip,
                   setFilesToPrune, files>>

-----------------------------------------------------------------------------
(* LoadBlockIndexDB after the process died.                                *)
Reload ==
    /\ data' = db.data /\ undo' = db.undo /\ info' = db.info
    /\ nLastBlockFile' = db.last
    /\ dirty' = {}
    /\ tip' = db.tip
    /\ flush' = "none"
    /\ setFilesToPrune' = {}
    /\ UNCHANGED db

(* A block, or its undo data, is where the index says.                     *)
HoldsBlock(contents, where, b) ==
    \A p \in where.pos .. where.pos + Size[b] - 1 : contents[where.file][p] = b
HoldsUndo(contents, where, b) == contents[where.file][where.pos] = b

(* VerifyDB, of a node that starts with the databases d, reads back the    *)
(* last nCheckDepth + 1 blocks and their undo data.                        *)
VerifyDB(d, nCheckDepth) ==
    LET depth == IF nCheckDepth > d.tip THEN d.tip ELSE nCheckDepth
    IN  \A b \in Blocks : b <= d.tip /\ b >= d.tip - depth =>
           /\ d.data[b] # Nowhere /\ HoldsBlock(blk, d.data[b], b)
           /\ d.undo[b] # Nowhere /\ HoldsUndo(rev, d.undo[b], b)

MayFail == past.crash + past.power < MaxFailures

Crash ==
    /\ MayFail /\ past' = [past EXCEPT !.crash = @ + 1]
    /\ Reload
    /\ UNCHANGED files

(* What was not committed is lost, file by file, or not.                   *)
Survivors(cached, durable, F) == [f \in Files |-> IF f \in F THEN cached[f] ELSE durable[f]]

PowerFailure(F, G) ==
    /\ MayFail /\ past' = [past EXCEPT !.power = @ + 1]
    /\ Reload
    /\ blkDisk' = Survivors(blk, blkDisk, F) /\ blk' = blkDisk'
    /\ revDisk' = Survivors(rev, revDisk, G) /\ rev' = revDisk'

Uncommitted(cached, durable) == {f \in Files : cached[f] # durable[f]}

Next ==
    \/ \E b \in Blocks : AcceptBlock(b)
    \/ ConnectTip \/ DisconnectTip
    \/ \E n \in 0 .. LastFile : BeginFlush({f \in 0 .. n - 1 : Prunable(f)})
    \/ FlushFiles \/ WriteIndex \/ FlushCoins
    \/ \E fDoFullFlush \in BOOLEAN : UnlinkPrunedFiles(fDoFullFlush)
    \/ Crash
    \/ \E F \in SUBSET Uncommitted(blk, blkDisk), G \in SUBSET Uncommitted(rev, revDisk) :
          PowerFailure(F, G)

Spec == Init /\ [][Next]_vars
-----------------------------------------------------------------------------
(* The variables have the shape of those in main.cpp, places handed out    *)
(* are inside the files, and the databases never know of more files than   *)
(* there are.                                                              *)
TypeOK ==
    /\ data \in [Blocks -> Positions] /\ undo \in [Blocks -> Positions]
    /\ \A f \in Files : info[f].nSize \in Places /\ info[f].nUndoSize \in Places
    /\ nLastBlockFile \in Files /\ db.last <= nLastBlockFile
    /\ dirty \subseteq Blocks /\ tip \in 0 .. Height
    /\ flush \in {"none", "files", "index", "unlink", "coins"}
    /\ setFilesToPrune \subseteq Files

(* ReadBlockFromDisk and UndoReadFromDisk find what the index promises,    *)
(* also after a crash that made the node forget blocks it had written, and *)
(* hand out their places again; nothing is said after a power failure,     *)
(* which may lose undo data (IndexedUndoIsDurable).                        *)
ReadsBack ==
    /\ TypeOK
    /\ past.power = 0 =>
      \A b \in Blocks : /\ data[b] # Nowhere => HoldsBlock(blk, data[b], b)
                        /\ undo[b] # Nowhere => HoldsUndo(rev, undo[b], b)

(* A block the index database knows of survives a power failure: its file  *)
(* was committed before the index was written, as the current file by      *)
(* FlushStateToDisk or when FindBlockPos left it.                          *)
IndexedDataIsDurable ==
    \A b \in Blocks : db.data[b] # Nowhere => HoldsBlock(blkDisk, db.data[b], b)

(* "First make sure all block and undo data is flushed to disk", says      *)
(* FlushStateToDisk: so does the undo data the index database knows of.    *)
IndexedUndoIsDurable ==
    \A b \in Blocks : db.undo[b] # Nowhere => HoldsUndo(revDisk, db.undo[b], b)

(* Files that hold a block within MIN_BLOCKS_TO_KEEP of the tip are not    *)
(* pruned: as long as the process lives and the tip has only gone up, the  *)
(* blocks that the deepest reorganisation may need can be read and undone. *)
(* (A crash between UnlinkPrunedFiles and the write of the coins takes the *)
(* tip back to that of the database, whose blocks may be among the pruned  *)
(* ones: nothing is said of a node after a crash.)                         *)
RecentBlocksKept ==
    past.crash + past.power = 0 /\ ~past.reorg =>
      \A b \in Blocks : b <= tip /\ b > tip - MIN_BLOCKS_TO_KEEP =>
                           data[b] # Nowhere /\ undo[b] # Nowhere

(* A node that was shut down in order, after a complete flush, and that    *)
(* has never disconnected a block passes VerifyDB when it is started again *)
(* with a -checkblocks SMALLER than MIN_BLOCKS_TO_KEEP.  (FindFilesToPrune *)
(* lets the block MIN_BLOCKS_TO_KEEP below the tip go, and VerifyDB reads  *)
(* the block nCheckDepth below it: at the default, where both are 288, a   *)
(* pruned node may fail.)                                                  *)
CleanRestartVerifies ==
    /\ past.crash + past.power = 0 /\ ~past.reorg
    /\ flush = "none" /\ dirty = {} /\ db.tip = tip
    => \A nCheckDepth \in 1 .. MIN_BLOCKS_TO_KEEP - 1 : VerifyDB(db, nCheckDepth)
=============================================================================
