------------------------------ MODULE MCStorage ------------------------------
(***************************************************************************)
(* What the node stores beside the coins, part by part: the note           *)
(* commitment trees (Anchors) and the block files (BlockFiles).            *)
(*                                                                         *)
(* A behavior belongs to one part, which the initial state chooses.  The   *)
(* anchors keep their variables, which stay at Init while files are        *)
(* written; the variables of the files are s1, s2, ..., which are "off" in *)
(* the other part.                                                         *)
(***************************************************************************)
EXTENDS Anchors

CONSTANT Parts             \* the parts that a run covers

VARIABLES part, s1, s2, s3, s4, s5, s6, s7, s8, s9, s10, s11, s12, s13, s14

\* Three blocks in three files: the first block fills a file, the others share
\* one when they arrive one after the other.
BF == INSTANCE BlockFiles
      WITH Height <- 3, Size <- <<2, 1, 1>>, MAX_BLOCKFILE_SIZE <- 3, LastFile <- 2,
           MIN_BLOCKS_TO_KEEP <- 2, MaxFailures <- 1,
           past <- s1, data <- s2, undo <- s3, info <- s4, nLastBlockFile <- s5, dirty <- s6,
           tip <- s7, flush <- s8, setFilesToPrune <- s9, db <- s10,
           blk <- s11, rev <- s12, blkDisk <- s13, revDisk <- s14

ASSUME ConstantsAssumption == AnchorsAssumption /\ BF!FilesAssumption

blockfiles == <<s1, s2, s3, s4, s5, s6, s7, s8, s9, s10, s11, s12, s13, s14>>
Off == /\ s1 = "off" /\ s2 = "off" /\ s3 = "off" /\ s4 = "off" /\ s5 = "off"
       /\ s6 = "off" /\ s7 = "off" /\ s8 = "off" /\ s9 = "off" /\ s10 = "off"
       /\ s11 = "off" /\ s12 = "off" /\ s13 = "off" /\ s14 = "off"

MCInit ==
    /\ part \in Parts /\ Init
    /\ \/ part = "anchors" /\ Off
       \/ part = "files" /\ BF!Init

AnchorsNext == part = "anchors" /\ Next /\ UNCHANGED <<part, blockfiles>>
FilesNext == part = "files" /\ BF!Next /\ UNCHANGED <<part, vars>>

MCNext == AnchorsNext \/ FilesNext

MCSpec == MCInit /\ [][MCNext]_<<part, vars, blockfiles>>

-----------------------------------------------------------------------------
(* ReadBlockFromDisk and UndoReadFromDisk find what the index promises,    *)
(* also after a crash that made the node forget blocks it had written, and *)
(* hand out their places again, but not after a power failure              *)
(* (FindBlockPos, FindUndoPos).                                            *)
ReadsBack == part = "files" => BF!ReadsBack

(* A block the index database knows of survives a power failure            *)
(* (FlushBlockFile, FlushStateToDisk).                                     *)
IndexedDataIsDurable == part = "files" => BF!IndexedDataIsDurable

(* "First make sure all block and undo data is flushed to disk"            *)
(* (FlushStateToDisk): so does the undo data the database knows of.        *)
IndexedUndoIsDurable == part = "files" => BF!IndexedUndoIsDurable

(* As long as the process lives and the tip has only gone up, pruning      *)
(* keeps the last MIN_BLOCKS_TO_KEEP blocks (FindFilesToPrune).            *)
RecentBlocksKept == part = "files" => BF!RecentBlocksKept

(* After an orderly shutdown of a node that never disconnected a block,    *)
(* VerifyDB succeeds at every depth below MIN_BLOCKS_TO_KEEP (VerifyDB,    *)
(* FindFilesToPrune).                                                      *)
CleanRestartVerifies == part = "files" => BF!CleanRestartVerifies
=============================================================================
