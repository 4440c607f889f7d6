----------------------------- MODULE BlockIndex -----------------------------
(***************************************************************************)
(* The block tree of main.cpp and the threads that move the active chain:  *)
(* headers and blocks are accepted in any order, blocks that wait for a    *)
(* parent are linked when it arrives, the best candidate is activated      *)
(* step by step, and operators invalidate and reconsider blocks meanwhile. *)
(*                                                                         *)
(* Every thread that accepts a block, or serves invalidateblock or         *)
(* reconsiderblock, ends in ActivateBestChain.  It holds cs_main during    *)
(* one round of that loop and releases it between rounds; the loop         *)
(* condition reads the tip without the lock.  A block's parent, work and   *)
(* validity are properties of its contents and so are constants.           *)
(***************************************************************************)
EXTENDS Integers, Sequences, FiniteSets

CONSTANTS
    Blocks,            \* block hashes
    Genesis,
    Parent,            \* hashPrevBlock of every other block
    Work,              \* nChainWork
    Address,           \* address of the CBlockIndex, the last tie breaker
    Scenarios,         \* the values of scenario, see below
    Threads,
    MIN_BLOCKS_TO_KEEP,
    MaxSequence,       \* bound on nBlockSequenceId
    NULL

ASSUME TreeAssumption ==
    /\ Genesis \in Blocks /\ NULL \notin Blocks
    /\ Parent \in [Blocks \ {Genesis} -> Blocks]
    /\ Work \in [Blocks -> Nat]
    /\ \A b \in Blocks \ {Genesis} : Work[Parent[b]] < Work[b]
    /\ Scenarios \subseteq [threads : SUBSET Threads,
                            fPruneMode : BOOLEAN,
                            rpcs : SUBSET {"invalidate", "reconsider"},
                            badContext : SUBSET (Blocks \ {Genesis}),
                            badConnect : SUBSET (Blocks \ {Genesis})]

VARIABLES
    scenario,          \* never changes: the threads in use, whether -prune is
                       \* on, the commands the operator uses, the blocks that
                       \* are refused by ContextualCheckBlock and ConnectBlock
    bi,                \* mapBlockIndex
    candidates,        \* setBlockIndexCandidates
    unlinked,          \* mapBlocksUnlinked, its pairs in order of insertion
    tip,               \* chainActive.Tip()
    bestInvalid,       \* pindexBestInvalid
    nBlockSequenceId,
    fHavePruned,
    cs_main,           \* the thread that holds it, or NULL
    th                 \* where each thread is, and its local variables

vars == <<scenario, bi, candidates, unlinked, tip, bestInvalid, nBlockSequenceId,
          fHavePruned, cs_main, th>>

(* The levels of BLOCK_VALID_MASK that are used; UNKNOWN stands for a      *)
(* block that is not in mapBlockIndex.                                     *)
UNKNOWN == 0
TREE == 2
TRANSACTIONS == 3
SCRIPTS == 5

Entry == [valid : {UNKNOWN, TREE, TRANSACTIONS, SCRIPTS},
          data : BOOLEAN, undo : BOOLEAN,          \* BLOCK_HAVE_DATA, _UNDO
          failed : SUBSET {"valid", "child"},      \* BLOCK_FAILED_VALID, _CHILD
          nTx : BOOLEAN, nChainTx : BOOLEAN,       \* not zero
          seq : 0 .. MaxSequence]

NotInIndex == [valid |-> UNKNOWN, data |-> FALSE, undo |-> FALSE, failed |-> {},
               nTx |-> FALSE, nChainTx |-> FALSE, seq |-> 0]

Idle == [pc |-> "idle", block |-> NULL, old |-> NULL, queue |-> <<>>]

(* The chain of b: b and its ancestors.                                    *)
Chain[b \in Blocks] == IF b = Genesis THEN {b} ELSE {b} \cup Chain[Parent[b]]
Height(b) == Cardinality(Chain[b]) - 1
Contains(b) == b \in Chain[tip]
Highest(S) == CHOOSE b \in S : \A c \in S : Height(c) <= Height(b)

(* CBlockIndexWorkComparator: a sorts before b, that is, a is worse.       *)
Worse(index, a, b) ==
    \/ Work[a] < Work[b]
    \/ Work[a] = Work[b] /\ index[a].seq > index[b].seq
    \/ Work[a] = Work[b] /\ index[a].seq = index[b].seq /\ Address[a] > Address[b]

Best(S) == CHOOSE b \in S : \A c \in S \ {b} : Worse(bi, c, b)

Known(b) == bi[b].valid # UNKNOWN
IsValid(e, level) == e.failed = {} /\ e.valid >= level
RaiseValidity(e, level) ==
    IF e.failed = {} /\ e.valid < level THEN [e EXCEPT !.valid = level] ELSE e

Init ==
    /\ scenario \in Scenarios
    /\ bi = [b \in Blocks |->
               IF b = Genesis
               THEN [valid |-> TRANSACTIONS, data |-> TRUE, undo |-> FALSE, failed |-> {},
                     nTx |-> TRUE, nChainTx |-> TRUE, seq |-> 1]
               ELSE NotInIndex]
    /\ candidates = {Genesis}
    /\ unlinked = <<>>
    /\ tip = Genesis
    /\ bestInvalid = NULL
    /\ nBlockSequenceId = 2
    /\ fHavePruned = FALSE
    /\ cs_main = NULL
    /\ th = [t \in Threads |-> Idle]

-----------------------------------------------------------------------------
(* Accepting headers and blocks                                            *)

(* AcceptBlockHeader lets b through.                                       *)
HeaderAccepted(b) ==
    IF Known(b) THEN bi[b].failed = {}
                ELSE Known(Parent[b]) /\ bi[Parent[b]].failed = {}

(* AddToBlockIndex, for a header that may be there already.                *)
WithHeader(b) == IF Known(b) THEN bi[b] ELSE RaiseValidity(bi[b], TREE)

At(t, pc) == th[t].pc = pc

Start(t) == t \in scenario.threads /\ At(t, "idle") /\ cs_main = NULL

Goto(t, pc) == th' = [th EXCEPT ![t] = [Idle EXCEPT !.pc = pc]]

(* A header of the headers message.                                        *)
AcceptBlockHeader(t, b) ==
    /\ Start(t)
    /\ ~Known(b) /\ HeaderAccepted(b)
    /\ bi' = [bi EXCEPT ![b] = WithHeader(b)]
    /\ UNCHANGED <<scenario, candidates, unlinked, tip, bestInvalid,
                   nBlockSequenceId, fHavePruned, cs_main, th>>

(* Mutant: fAlreadyHave is forgotten.                                      *)
NotUseful(b, fRequested) == ~fRequested /\ (bi[b].nTx \/ Work[b] <= Work[tip])

(* AcceptBlock has the block, or did not ask for it and has no use for it. *)
NotProcessed(b, fRequested) ==
    \/ bi[b].data
    \/ /\ ~fRequested
       /\ \/ bi[b].nTx
          \/ Work[b] <= Work[tip]
          \/ Height(b) > Height(tip) + MIN_BLOCKS_TO_KEEP

AcceptBlockIgnored(t, b, fRequested) ==
    /\ Start(t)
    /\ HeaderAccepted(b) /\ NotProcessed(b, fRequested)
    /\ bi' = [bi EXCEPT ![b] = WithHeader(b)]
    /\ Goto(t, "activate")
    /\ UNCHANGED <<scenario, candidates, unlinked, tip, bestInvalid,
                   nBlockSequenceId, fHavePruned, cs_main>>

AcceptBlockInvalid(t, b, fRequested) ==
    /\ Start(t)
    /\ HeaderAccepted(b) /\ ~NotProcessed(b, fRequested)
    /\ b \in scenario.badContext
    /\ bi' = [bi EXCEPT ![b] = [WithHeader(b) EXCEPT !.failed = @ \cup {"valid"}]]
    /\ UNCHANGED <<scenario, candidates, unlinked, tip, bestInvalid,
                   nBlockSequenceId, fHavePruned, cs_main, th>>

ParentLinked(b) == bi[Parent[b]].nChainTx

(* mapBlocksUnlinked with b waiting for its parent.                        *)
Waiting(b) == IF IsValid(bi[Parent[b]], TREE) THEN Append(unlinked, b) ELSE unlinked

(* ReceivedBlockTransactions: the block is stored.  It is linked at once   *)
(* when its parent is linked, and waits for the parent otherwise.          *)
AcceptBlockReceived(t, b, fRequested) ==
    /\ Start(t)
    /\ HeaderAccepted(b) /\ ~NotProcessed(b, fRequested)
    /\ b \notin scenario.badContext
    /\ bi' = [bi EXCEPT ![b] =
                [RaiseValidity(WithHeader(b), TRANSACTIONS)
                   EXCEPT !.data = TRUE, !.nTx = TRUE, !.nChainTx = FALSE]]
    /\ IF ParentLinked(b)
       THEN /\ th' = [th EXCEPT ![t] = [Idle EXCEPT !.pc = "link", !.queue = <<b>>]]
            /\ cs_main' = t
            /\ UNCHANGED unlinked
       ELSE /\ unlinked' = Waiting(b)
            /\ Goto(t, "activate")
            /\ UNCHANGED cs_main
    /\ UNCHANGED <<scenario, candidates, tip, bestInvalid, nBlockSequenceId,
                   fHavePruned>>

(* One turn of the loop of ReceivedBlockTransactions over its queue.       *)
LinkBlock(t) ==
    /\ At(t, "link")
    /\ nBlockSequenceId < MaxSequence
    /\ LET b == Head(th[t].queue)
           rest == Tail(th[t].queue) \o SelectSeq(unlinked, LAMBDA c : Parent[c] = b)
       IN  /\ bi' = [bi EXCEPT ![b].nChainTx = TRUE, ![b].seq = nBlockSequenceId]
           /\ nBlockSequenceId' = nBlockSequenceId + 1
           /\ candidates' = IF Worse(bi', b, tip) THEN candidates ELSE candidates \cup {b}
           /\ unlinked' = SelectSeq(unlinked, LAMBDA c : Parent[c] # b)
           /\ IF rest = <<>>
              THEN Goto(t, "activate") /\ cs_main' = NULL
              ELSE th' = [th EXCEPT ![t].queue = rest] /\ UNCHANGED cs_main
    /\ UNCHANGED <<scenario, tip, bestInvalid, fHavePruned>>

-----------------------------------------------------------------------------
(* Operator commands                                                       *)

(* Worse invalid chains are not worth a warning.                           *)
InvalidChainFound(b) ==
    bestInvalid' = IF bestInvalid = NULL \/ Work[b] > Work[bestInvalid] THEN b
                                                                      ELSE bestInvalid

MarkFailed(b, why) == [bi EXCEPT ![b].failed = @ \cup {why}]

InvalidateBlock(t, b) ==
    /\ Start(t) /\ "invalidate" \in scenario.rpcs
    /\ Known(b)
    /\ bi' = MarkFailed(b, "valid")
    /\ candidates' = candidates \ {b}
    /\ th' = [th EXCEPT ![t] = [Idle EXCEPT !.pc = "invalidate", !.block = b, !.old = tip]]
    /\ cs_main' = t
    /\ UNCHANGED <<scenario, unlinked, tip, bestInvalid, nBlockSequenceId,
                   fHavePruned>>

(* DisconnectTip reads the block and its undo data back from disk; without *)
(* them it gives up with AbortNode.                                        *)
CanDisconnect == bi[tip].data /\ bi[tip].undo
DisconnectTip == CanDisconnect /\ tip' = Parent[tip]

(* pindexWalk: the tip before it is disconnected.                          *)
Walked == tip

InvalidateDisconnect(t) ==
    /\ At(t, "invalidate") /\ Contains(th[t].block)
    /\ bi' = MarkFailed(Walked, "child")
    /\ candidates' = candidates \ {Walked}
    /\ DisconnectTip
    /\ UNCHANGED <<scenario, unlinked, bestInvalid, nBlockSequenceId, fHavePruned,
                   cs_main, th>>

(* What InvalidateBlock puts back among the candidates at the end.         *)
Readmitted(b) ==
    IsValid(bi[b], TRANSACTIONS) /\ bi[b].nChainTx /\ ~Worse(bi, b, tip)

InvalidateFinish(t) ==
    /\ At(t, "invalidate") /\ ~Contains(th[t].block)
    /\ candidates' = candidates \cup {b \in Blocks : Readmitted(b)}
    /\ InvalidChainFound(th[t].block)
    /\ Goto(t, "activate")
    /\ cs_main' = NULL
    /\ UNCHANGED <<scenario, bi, unlinked, tip, nBlockSequenceId, fHavePruned>>

ReconsiderBlock(t, b) ==
    LET descendants == {c \in Blocks : Known(c) /\ b \in Chain[c] /\ ~IsValid(bi[c], TRANSACTIONS)}
    IN  /\ Start(t) /\ "reconsider" \in scenario.rpcs
        /\ Known(b)
        /\ bi' = [c \in Blocks |-> IF c \in descendants \cup Chain[b]
                                   THEN [bi[c] EXCEPT !.failed = {}] ELSE bi[c]]
        /\ candidates' = candidates \cup
              {c \in descendants : IsValid(bi'[c], TRANSACTIONS) /\ bi[c].nChainTx
                                      /\ Worse(bi, tip, c)}
        /\ bestInvalid' = IF bestInvalid \in descendants THEN NULL ELSE bestInvalid
        /\ Goto(t, "activate")
        /\ UNCHANGED <<scenario, unlinked, tip, nBlockSequenceId, fHavePruned,
                       cs_main>>

-----------------------------------------------------------------------------
(* ActivateBestChain                                                       *)

Locked(t) == cs_main \in {NULL, t}

(* The blocks FindMostWorkChain walks over from candidate c, and those of  *)
(* them that make c unusable.                                              *)
OffChain(c) == Chain[c] \ Chain[tip]

(* Mutant: fMissingData is forgotten.                                      *)
Failed(c) == {b \in OffChain(c) : bi[b].failed # {}}

Unusable(c) == {b \in OffChain(c) : bi[b].failed # {} \/ ~bi[b].data}

(* Mutant: the blocks above missing data are dropped for good.             *)
Forgotten(c, above) == unlinked

(* The blocks above missing data wait for it again, from c downwards.      *)
WaitAgain(c, above) ==
    unlinked \o [i \in 1 .. Cardinality(above) |->
                   CHOOSE b \in above : Height(b) = Height(c) - i + 1]

(* A turn of FindMostWorkChain that rejects the best candidate, with the   *)
(* blocks between it and the block that makes it unusable.                 *)
RejectCandidate(t) ==
    /\ At(t, "activate") /\ Locked(t)
    /\ candidates # {}
    /\ LET c == Best(candidates)
           test == Highest(Unusable(c))
           above == {b \in OffChain(c) : Height(b) > Height(test)}
           fFailedChain == bi[test].failed # {}
       IN  /\ Unusable(c) # {}
           /\ candidates' = candidates \ (above \cup {test})
           /\ IF fFailedChain
              THEN /\ bi' = [b \in Blocks |-> IF b \in above
                              THEN [bi[b] EXCEPT !.failed = @ \cup {"child"}] ELSE bi[b]]
                   /\ InvalidChainFound(c)
                   /\ UNCHANGED unlinked
              ELSE /\ unlinked' = WaitAgain(c, above)
                   /\ UNCHANGED <<bi, bestInvalid>>
    /\ cs_main' = t
    /\ UNCHANGED <<scenario, tip, nBlockSequenceId, fHavePruned, th>>

(* There is no candidate, or the tip is the best one.                      *)
NothingToDo(t) ==
    /\ At(t, "activate") /\ Locked(t)
    /\ candidates # {} => Best(candidates) = tip
    /\ Goto(t, "idle")
    /\ cs_main' = NULL
    /\ UNCHANGED <<scenario, bi, candidates, unlinked, tip, bestInvalid,
                   nBlockSequenceId, fHavePruned>>

MostWorkFound(t) ==
    /\ At(t, "activate") /\ Locked(t)
    /\ candidates # {}
    /\ Best(candidates) # tip /\ Unusable(Best(candidates)) = {}
    /\ th' = [th EXCEPT ![t] = [Idle EXCEPT !.pc = "step", !.block = Best(candidates),
                                            !.old = tip]]
    /\ cs_main' = t
    /\ UNCHANGED <<scenario, bi, candidates, unlinked, tip, bestInvalid,
                   nBlockSequenceId, fHavePruned>>

(* The tip is not on the way to the block: it goes.                        *)
Leaving(t) == At(t, "step") /\ tip \notin Chain[th[t].block]

StepDisconnect(t) ==
    /\ Leaving(t)
    /\ DisconnectTip
    /\ UNCHANGED <<scenario, bi, candidates, unlinked, bestInvalid,
                   nBlockSequenceId, fHavePruned, cs_main, th>>

(* DisconnectTip fails: the node shuts down.                               *)
StepAborts(t) ==
    /\ Leaving(t)
    /\ ~CanDisconnect
    /\ Goto(t, "aborted")
    /\ cs_main' = NULL
    /\ UNCHANGED <<scenario, bi, candidates, unlinked, tip, bestInvalid,
                   nBlockSequenceId, fHavePruned>>

Connecting(t) == At(t, "step") /\ tip \in Chain[th[t].block] /\ tip # th[t].block
NextBlock(t) == CHOOSE b \in Chain[th[t].block] : b # Genesis /\ Parent[b] = tip

(* The end of a round: the lock is released, the callbacks run.            *)
EndRound(t) ==
    /\ th' = [th EXCEPT ![t] = [Idle EXCEPT !.pc = "check", !.block = th[t].block]]
    /\ cs_main' = NULL

(* Mutant: InvalidBlockFound is not called.                                *)
StepForgiving(t) ==
    /\ Connecting(t)
    /\ NextBlock(t) \in scenario.badConnect
    /\ EndRound(t)
    /\ UNCHANGED <<scenario, bi, candidates, unlinked, tip, bestInvalid,
                   nBlockSequenceId, fHavePruned>>

(* ConnectTip with a block that ConnectBlock refuses: InvalidBlockFound.   *)
StepInvalid(t) ==
    /\ Connecting(t)
    /\ NextBlock(t) \in scenario.badConnect
    /\ bi' = MarkFailed(NextBlock(t), "valid")
    /\ candidates' = candidates \ {NextBlock(t)}
    /\ InvalidChainFound(NextBlock(t))
    /\ EndRound(t)
    /\ UNCHANGED <<scenario, unlinked, tip, nBlockSequenceId, fHavePruned>>

ConnectedNoUndo(e) == RaiseValidity(e, SCRIPTS)
RoundOverAtOnce(t, b) == TRUE

(* What ConnectBlock records in the index.                                 *)
Connected(e) == [RaiseValidity(e, SCRIPTS) EXCEPT !.undo = TRUE]

(* The round ends at the block it was for, or as soon as there is more     *)
(* work than at its beginning.                                             *)
RoundOver(t, b) == b = th[t].block \/ Work[b] > Work[th[t].old]

(* PruneBlockIndexCandidates: drop what is worse than the new tip b.       *)
PruneBlockIndexCandidates(index, b) == {c \in candidates : ~Worse(index, c, b)}

StepConnect(t) ==
    LET b == NextBlock(t)
    IN  /\ Connecting(t)
        /\ b \notin scenario.badConnect
        /\ tip' = b
        /\ bi' = [bi EXCEPT ![b] = Connected(@)]
        /\ candidates' = PruneBlockIndexCandidates(bi', b)
        /\ IF RoundOver(t, b) THEN EndRound(t) ELSE UNCHANGED <<th, cs_main>>
        /\ UNCHANGED <<scenario, unlinked, bestInvalid, nBlockSequenceId,
                       fHavePruned>>

InvalidChain(b) == \E c \in Chain[b] : bi[c].failed # {}

(* The condition of the loop, read without cs_main.  The next round finds  *)
(* pindexMostWork anew; the last one is kept, as history, if its chain has *)
(* turned out to be invalid.                                               *)
LoopCondition(t) ==
    LET most == th[t].block
        kept == IF InvalidChain(most) THEN most ELSE NULL
    IN  /\ At(t, "check")
        /\ th' = [th EXCEPT ![t] = IF most = tip THEN Idle
                                   ELSE [Idle EXCEPT !.pc = "activate", !.block = kept]]
        /\ UNCHANGED <<scenario, bi, candidates, unlinked, tip, bestInvalid,
                       nBlockSequenceId, fHavePruned, cs_main>>

-----------------------------------------------------------------------------
NoLongerWaiting(b) == SelectSeq(unlinked, LAMBDA c : c # b)

(* FindFilesToPrune and PruneOneBlockFile, for a file that holds b alone,  *)
(* in a flush that follows the allocation of a file: at the end of         *)
(* AcceptBlock or of ActivateBestChain, or between two blocks that are     *)
(* connected.                                                              *)
PruneOneBlockFile(b) ==
    /\ scenario.fPruneMode
    /\ cs_main # NULL => Connecting(cs_main)
    /\ bi[b].data
    /\ Height(b) <= Height(tip) - MIN_BLOCKS_TO_KEEP
    /\ bi' = [bi EXCEPT ![b].data = FALSE, ![b].undo = FALSE]
    /\ unlinked' = NoLongerWaiting(b)
    /\ fHavePruned' = TRUE
    /\ UNCHANGED <<scenario, candidates, tip, bestInvalid, nBlockSequenceId,
                   cs_main, th>>

(* A message or a command that starts an operation.                        *)
Request(t) ==
    \E b \in Blocks \ {Genesis} :
        \/ AcceptBlockHeader(t, b)
        \/ \E fRequested \in BOOLEAN :
              \/ AcceptBlockIgnored(t, b, fRequested)
              \/ AcceptBlockInvalid(t, b, fRequested)
              \/ AcceptBlockReceived(t, b, fRequested)
        \/ InvalidateBlock(t, b)
        \/ ReconsiderBlock(t, b)

(* A thread goes on with what it has started.                              *)
Continue(t) ==
    \/ LinkBlock(t)
    \/ InvalidateDisconnect(t) \/ InvalidateFinish(t)
    \/ RejectCandidate(t) \/ NothingToDo(t) \/ MostWorkFound(t)
    \/ StepDisconnect(t) \/ StepAborts(t) \/ StepInvalid(t) \/ StepConnect(t)
    \/ LoopCondition(t)

Next ==
    \/ \E t \in Threads : Request(t) \/ Continue(t)
    \/ \E b \in Blocks : PruneOneBlockFile(b)

Spec == Init /\ [][Next]_vars

-----------------------------------------------------------------------------
(* Properties                                                              *)

(* The state has the shape of the variables of main.cpp.                   *)
TypeOK ==
    /\ bi \in [Blocks -> Entry]
    /\ candidates \subseteq Blocks
    /\ \A i \in 1 .. Len(unlinked) : unlinked[i] \in Blocks \ {Genesis}
    /\ tip \in Blocks
    /\ bestInvalid \in Blocks \cup {NULL}
    /\ nBlockSequenceId \in 1 .. MaxSequence
    /\ fHavePruned \in BOOLEAN
    /\ cs_main \in Threads \cup {NULL}
    /\ \A t \in Threads :
          /\ th[t].pc \in {"idle", "link", "invalidate", "activate", "step", "check", "aborted"}
          /\ th[t].block \in Blocks \cup {NULL} /\ th[t].old \in Blocks \cup {NULL}

(* No thread is active.                                                    *)
Quiet == \A t \in Threads : th[t].pc = "idle"

(* Any thread may run CheckBlockIndex; the node is not shutting down.      *)
Unlocked == cs_main = NULL /\ \A t \in Threads : th[t].pc # "aborted"

NeverProcessed(b) == \E c \in Chain[b] : ~bi[c].nTx
Missing(b) == \E c \in Chain[b] : ~bi[c].data
Invalid(b) == \E c \in Chain[b] : "valid" \in bi[c].failed
InUnlinked(b) == \E i \in 1 .. Len(unlinked) : unlinked[i] = b

(* The assertions of CheckBlockIndex on what may not be: flags, sequence   *)
(* numbers and undo data never outrun the data they speak of; no block     *)
(* has failed without a cause; a block that is worse than the tip or not   *)
(* linked is no candidate; only a stored block that misses data of an      *)
(* ancestor is in mapBlocksUnlinked.                                       *)
NothingTooMuch ==
    \A b \in Blocks :
        /\ bi[b].nChainTx => ~NeverProcessed(b)
        /\ ~bi[b].nChainTx => bi[b].seq = 0
        /\ bi[b].nTx <=> bi[b].valid >= TRANSACTIONS
        /\ IF fHavePruned THEN bi[b].data => bi[b].nTx ELSE bi[b].data <=> bi[b].nTx
        /\ bi[b].undo => bi[b].data
        /\ bi[b].valid = SCRIPTS =>
              \A c \in Chain[b] \ {Genesis} : bi[c].valid = SCRIPTS
        /\ bi[b].failed # {} => Invalid(b)
        /\ Worse(bi, b, tip) \/ NeverProcessed(b) => b \notin candidates
        /\ InUnlinked(b) => bi[b].data /\ Missing(b)
        /\ ~NeverProcessed(b) /\ Missing(b) => fHavePruned

(* ... and on what must be.  A block that was received after all its       *)
(* ancestors is linked.                                                    *)
LinkedIsComplete == \A b \in Blocks : ~NeverProcessed(b) => bi[b].nChainTx

(* A stored block that waits for data of an ancestor, and has no failed    *)
(* ancestor, is in mapBlocksUnlinked, where the arrival of that data finds *)
(* it.                                                                     *)
UnlinkedIsComplete ==
    \A b \in Blocks \ {Genesis} :
        /\ bi[b].data /\ Missing(b) /\ ~Invalid(b)
        /\ NeverProcessed(b) \/ (~Worse(bi, b, tip) /\ b \notin candidates)
        => InUnlinked(b)

(* A block that is not worse than the tip, whose whole chain is stored and *)
(* has not failed, is a candidate, and so is the tip.                      *)
CandidatesAreComplete ==
    \A b \in Blocks :
        /\ ~Worse(bi, b, tip) /\ ~NeverProcessed(b) /\ ~Invalid(b)
        /\ ~Missing(b) \/ b = tip
        => b \in candidates

(* The operator does not use reconsiderblock, which does not restore all   *)
(* that invalidateblock and the blocks received since have changed.        *)
NotReconsidered == "reconsider" \notin scenario.rpcs

(* A thread is between two rounds, of which the last was for a chain that  *)
(* is invalid.  It has disconnected the old chain, of which no block needs *)
(* to be among the candidates before the next round.                       *)
ReorgFailed ==
    \E t \in Threads : /\ th[t].pc \in {"check", "activate"}
                       /\ th[t].block # NULL /\ InvalidChain(th[t].block)


(* CheckBlockIndex, called under cs_main by AcceptBlock's caller and at    *)
(* the end of ActivateBestChain, asserts all of it without exception.      *)
CheckBlockIndexAsserts ==
    Unlocked => NothingTooMuch /\ LinkedIsComplete /\ UnlinkedIsComplete /\ CandidatesAreComplete

(* Once all threads are done, no block that could be reached from the      *)
(* active chain, with the blocks stored and none known to be invalid,      *)
(* beats the tip, in work or, with equal work, in order of arrival:        *)
(* whatever the order of blocks, commands and rounds of ActivateBestChain, *)
(* the node is on the best chain it has, unless reconsiderblock was used.  *)
OnTheBestChain ==
    Quiet /\ NotReconsidered => \A b \in Blocks :
               /\ ~NeverProcessed(b) /\ ~Invalid(b)
               /\ \A c \in OffChain(b) : bi[c].data
               => ~Worse(bi, tip, b)

(* No block of the active chain is marked invalid while cs_main is free,   *)
(* and every block but the genesis has the undo data a reorganisation      *)
(* needs, or is deep enough to have been pruned.                           *)
ActiveChainIsSound ==
    Unlocked =>
      \A b \in Chain[tip] \ {Genesis} :
        /\ bi[b].failed = {} /\ bi[b].valid = SCRIPTS
        /\ ~fHavePruned => bi[b].undo
        /\ Height(b) > Height(tip) - MIN_BLOCKS_TO_KEEP => bi[b].undo

(* A block that is about to be connected is on disk and linked, and the    *)
(* assertions of PruneBlockIndexCandidates and FindMostWorkChain hold.     *)
ConnectingWhatIsStored ==
    \A t \in Threads : Connecting(t) =>
        /\ bi[NextBlock(t)].data /\ bi[NextBlock(t)].nChainTx
        /\ \E c \in candidates : ~Worse(bi, c, NextBlock(t))

(* setBlockIndexCandidates is a std::set ordered by work and sequence      *)
(* number: the key of an element never changes while it is in the set, as  *)
(* long as no block file is pruned.                                        *)
SortKeysAreStable ==
    [][~fHavePruned => \A b \in candidates : bi'[b].seq = bi[b].seq]_vars

(* Outside InvalidateBlock, a round of ActivateBestChain leaves the tip no *)
(* worse than it was unless it ran into an invalid block: the lock is      *)
(* never released half way through a reorganisation.                       *)
RoundsMakeProgress ==
    [][\A t \in Threads :
         th[t].pc = "step" /\ cs_main' = NULL /\ th'[t].pc = "check" =>
            \/ Worse(bi', th[t].old, tip')
            \/ \E b \in Blocks : bi'[b].failed # bi[b].failed]_vars
=============================================================================
