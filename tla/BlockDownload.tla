---------------------------- MODULE BlockDownload ----------------------------
(***************************************************************************)
(* How main.cpp fetches blocks: what every peer is believed to have, which *)
(* blocks are in flight from which peer, who is asked for headers, and     *)
(* who is given up on for stalling or for taking too long.                 *)
(*                                                                         *)
(* Every handler runs under cs_main and is one action.  The chain itself   *)
(* is kept abstract (BlockIndex has the detail): ActivateBestChain moves   *)
(* the tip to the heaviest block that is complete and valid, and marks as  *)
(* failed the invalid chains it tried on the way.  All blocks have the     *)
(* same work.  Clocks are abstract: each action that compares times takes  *)
(* the outcome as a parameter.                                             *)
(***************************************************************************)
EXTENDS Integers, Sequences, FiniteSets, SequencesExt

CONSTANTS
    Blocks, Genesis,
    Parent,                            \* hashPrevBlock of every other block
    Invalid,                           \* blocks that fail a contextual check
    Peers,                             \* a connection has a NodeId of its own
    Preferred,                         \* outbound or whitelisted peers
    Serves,                            \* the blocks each peer talks about
    Prompt,                            \* peers that answer, and in time
    Limited,                           \* peers whose score reaches -banscore
    MAX_BLOCKS_IN_TRANSIT_PER_PEER,
    BLOCK_DOWNLOAD_WINDOW,
    MIN_BLOCKS_TO_KEEP,
    None

ASSUME DownloadAssumption ==
    /\ Genesis \in Blocks /\ None \notin Blocks \cup Peers
    /\ Parent \in [Blocks \ {Genesis} -> Blocks]
    /\ Invalid \subseteq Blocks \ {Genesis}
    /\ Preferred \subseteq Peers /\ Prompt \subseteq Peers
    /\ Limited \subseteq Peers \ Prompt
    /\ Serves \in [Peers -> SUBSET (Blocks \ {Genesis})]
    /\ MAX_BLOCKS_IN_TRANSIT_PER_PEER \in Nat \ {0}
    /\ BLOCK_DOWNLOAD_WINDOW \in Nat \ {0}
    /\ MIN_BLOCKS_TO_KEEP \in Nat

VARIABLES
    index,                   \* mapBlockIndex: the headers that are known
    have,                    \* BLOCK_HAVE_DATA
    failed,                  \* BLOCK_FAILED_MASK
    tip,                     \* chainActive.Tip()
    mapBlockSource,          \* who sent each invalid block
    mapBlocksInFlight,       \* block -> the peer it was requested from
    nQueuedValidatedHeaders,
    nSyncStarted,
    nPreferredDownload,
    node                     \* mapNodeState, and what CNode holds

chain == <<index, have, failed, tip, mapBlockSource>>
flight == <<mapBlocksInFlight, nQueuedValidatedHeaders, node>>
vars == <<chain, flight, nSyncStarted, nPreferredDownload>>

Chain[b \in Blocks] == IF b = Genesis THEN {b} ELSE {b} \cup Chain[Parent[b]]
nHeight == [b \in Blocks |-> Cardinality(Chain[b]) - 1]
Height(b) == nHeight[b]
GetAncestor(b, h) == CHOOSE a \in Chain[b] : Height(a) = h
Linked(b) == Chain[b] \subseteq have                            \* nChainTx # 0
LastCommonAncestor(a, b) ==
    CHOOSE c \in Chain[a] \cap Chain[b] : Chain[c] = Chain[a] \cap Chain[b]

QueuedBlock == [hash : Blocks, fValidatedHeaders : BOOLEAN]

NodeState ==
    [status : {"new", "initialized", "connected", "gone"},
     fDisconnect : BOOLEAN, fShouldBan : BOOLEAN,
     pindexBestKnownBlock : Blocks \cup {None},
     hashLastUnknownBlock : Blocks \cup {None},
     pindexLastCommonBlock : Blocks \cup {None},
     getheaders : BOOLEAN,              \* a Prompt peer has yet to answer one
     fSyncStarted : BOOLEAN,
     stalling : BOOLEAN,                \* nStallingSince # 0
     vBlocksInFlight : Seq(QueuedBlock),
     nBlocksInFlight : Nat, nBlocksInFlightValidHeaders : Nat,
     fPreferredDownload : BOOLEAN]

NewNodeState(status) ==
    [status |-> status, fDisconnect |-> FALSE, fShouldBan |-> FALSE,
     pindexBestKnownBlock |-> None, hashLastUnknownBlock |-> None,
     pindexLastCommonBlock |-> None, getheaders |-> FALSE, fSyncStarted |-> FALSE,
     stalling |-> FALSE, vBlocksInFlight |-> <<>>, nBlocksInFlight |-> 0,
     nBlocksInFlightValidHeaders |-> 0, fPreferredDownload |-> FALSE]

Init ==
    /\ index = {Genesis} /\ have = {Genesis} /\ failed = {} /\ tip = Genesis
    /\ mapBlockSource = [b \in Invalid |-> None]
    /\ mapBlocksInFlight = <<>>
    /\ nQueuedValidatedHeaders = 0 /\ nSyncStarted = 0 /\ nPreferredDownload = 0
    /\ node = [p \in Peers |-> NewNodeState("new")]

BoolToInt(x) == IF x THEN 1 ELSE 0

(* The peer is served: its version message has arrived, and it is not      *)
(* about to be disconnected.                                               *)
Active(p) == node[p].status = "connected" /\ ~node[p].fDisconnect

(***************************************************************************)
(* Requests in flight.  The helpers map a download state, the record of    *)
(* the three variables of flight, to the next one.                         *)
(***************************************************************************)
Now == [map |-> mapBlocksInFlight, queued |-> nQueuedValidatedHeaders, node |-> node]
Becomes(next) ==
    \E s \in {next} : /\ mapBlocksInFlight' = s.map
                      /\ nQueuedValidatedHeaders' = s.queued
                      /\ node' = s.node

(* The state of a peer once entry is no longer in flight from it.          *)
ForgetRequestOnly(n, entry) ==                              \* mutant
    [n EXCEPT !.vBlocksInFlight = Remove(@, entry),
              !.nBlocksInFlight = @ - 1,
              !.nBlocksInFlightValidHeaders = @ - BoolToInt(entry.fValidatedHeaders)]

ForgetRequest(n, entry) ==
    [n EXCEPT !.vBlocksInFlight = Remove(@, entry),
              !.nBlocksInFlight = @ - 1,
              !.nBlocksInFlightValidHeaders = @ - BoolToInt(entry.fValidatedHeaders),
              !.stalling = FALSE]

MarkBlockAsReceived(s, hash) ==
    IF hash \notin DOMAIN s.map THEN s
    ELSE LET p == s.map[hash]
             entry == CHOOSE e \in ToSet(s.node[p].vBlocksInFlight) : e.hash = hash
         IN  [map |-> Restrict(s.map, DOMAIN s.map \ {hash}),
              queued |-> s.queued - BoolToInt(entry.fValidatedHeaders),
              node |-> [s.node EXCEPT ![p] = ForgetRequest(@, entry)]]

MarkBlockAsInFlight(s, p, hash, validated) ==
    LET r == MarkBlockAsReceived(s, hash)
    IN  [map |-> [h \in DOMAIN r.map \cup {hash} |-> IF h = hash THEN p ELSE r.map[h]],
         queued |-> r.queued + BoolToInt(validated),
         node |-> [r.node EXCEPT
                     ![p].vBlocksInFlight =
                         Append(@, [hash |-> hash, fValidatedHeaders |-> validated]),
                     ![p].nBlocksInFlight = @ + 1,
                     ![p].nBlocksInFlightValidHeaders = @ + BoolToInt(validated)]]

(***************************************************************************)
(* What a peer has.  n is the peer's state, known the set of headers.      *)
(***************************************************************************)
Announce(n, hash) ==
    IF n.pindexBestKnownBlock = None \/ Height(hash) >= Height(n.pindexBestKnownBlock)
    THEN [n EXCEPT !.pindexBestKnownBlock = hash]
    ELSE n

ProcessBlockAvailability(n, known) ==
    IF n.hashLastUnknownBlock \in known
    THEN [Announce(n, n.hashLastUnknownBlock) EXCEPT !.hashLastUnknownBlock = None]
    ELSE n

UpdateBlockAvailability(n, known, hash) ==
    LET m == ProcessBlockAvailability(n, known)
    IN  IF hash \in known THEN Announce(m, hash)
        ELSE [m EXCEPT !.hashLastUnknownBlock = hash]

(***************************************************************************)
(* FindNextBlocksToDownload, for a peer whose pindexBestKnownBlock is up   *)
(* to date.  The blocks between the last common block and the best known   *)
(* one are visited in order; the walk ends at a failed block, at a block   *)
(* to fetch beyond the window, or when count blocks are found.             *)
(***************************************************************************)
HaveBlock(b) == b \in have \/ b \in Chain[tip]

LastCommonBlock(n) ==
    LET best == n.pindexBestKnownBlock
        guess == IF Height(best) < Height(tip) THEN GetAncestor(tip, Height(best)) ELSE tip
    IN  LastCommonAncestor(IF n.pindexLastCommonBlock = None THEN guess
                           ELSE n.pindexLastCommonBlock, best)

(* The walked block that becomes the last common one.                      *)
IsCommonUnlinked(b) == HaveBlock(b)                         \* mutant
IsCommon(b) == HaveBlock(b) /\ Linked(b)

NothingToFetch(n) == [vBlocks |-> <<>>, staller |-> None, node |-> n]

FindNextBlocksToDownload(s, p, count) ==
    LET n == ProcessBlockAvailability(s.node[p], index)
        best == n.pindexBestKnownBlock
        last == LastCommonBlock(n)
        windowEnd == Height(last) + BLOCK_DOWNLOAD_WINDOW
        length == Min({Height(best), windowEnd + 1}) - Height(last)
        At(i) == GetAncestor(best, Height(last) + i)
        InFlight(i) == ~HaveBlock(At(i)) /\ At(i) \in DOMAIN s.map
        ToFetch(i) == ~HaveBlock(At(i)) /\ At(i) \notin DOMAIN s.map
        Beyond(i) == ToFetch(i) /\ Height(At(i)) > windowEnd
        Found(i) == Cardinality({j \in 1 .. i : ToFetch(j)})
        walked == {i \in 1 .. length : /\ \A j \in 1 .. i : At(j) \notin failed /\ ~Beyond(j)
                                       /\ Found(i - 1) < count}
        end == Cardinality(walked) + 1
        vBlocks == [k \in 1 .. Found(end - 1) |->
                      At(CHOOSE i \in walked : ToFetch(i) /\ Found(i) = k)]
        common == {i \in walked : IsCommon(At(i))}
        waiting == {i \in walked : InFlight(i)}
        waitingfor == IF waiting = {} THEN None ELSE s.map[At(Min(waiting))]
        windowFull == end <= length /\ At(end) \notin failed /\ Beyond(end) /\ vBlocks = <<>>
    IN  CASE best = None -> NothingToFetch(n)
          [] best # None /\ Height(best) < Height(tip) -> NothingToFetch(n)
          [] OTHER ->
               [vBlocks |-> vBlocks,
                staller |-> IF windowFull /\ waitingfor # p THEN waitingfor ELSE None,
                node |-> [n EXCEPT !.pindexLastCommonBlock =
                            IF common = {} THEN last ELSE At(Max(common))]]

(***************************************************************************)
(* Connections.                                                            *)
(***************************************************************************)
InitializeNode(p) ==
    /\ node[p].status = "new"
    /\ node' = [node EXCEPT ![p] = NewNodeState("initialized")]
    /\ UNCHANGED <<chain, mapBlocksInFlight, nQueuedValidatedHeaders, nSyncStarted,
                   nPreferredDownload>>

(* The version message, with UpdatePreferredDownload.                      *)
Version(p) ==
    /\ node[p].status = "initialized"
    /\ node' = [node EXCEPT ![p].status = "connected",
                            ![p].fPreferredDownload = p \in Preferred]
    /\ nPreferredDownload' = nPreferredDownload + BoolToInt(p \in Preferred)
    /\ UNCHANGED <<chain, mapBlocksInFlight, nQueuedValidatedHeaders, nSyncStarted>>

(* What FinalizeNode takes out of mapBlocksInFlight.                       *)
ReleasedNothing(p) == {}                                    \* mutant
Released(p) == {e.hash : e \in ToSet(node[p].vBlocksInFlight)}

(* The peer's part in nSyncStarted that FinalizeNode takes back.           *)
NoSyncEnded(n) == 0                                         \* mutant
SyncsEnded(n) == BoolToInt(n.fSyncStarted)

(* The connection is closed, by us or by a peer that is not Prompt.        *)
FinalizeNode(p) ==
    /\ node[p].status \in {"initialized", "connected"}
    /\ node[p].fDisconnect \/ p \notin Prompt
    /\ nSyncStarted' = nSyncStarted - SyncsEnded(node[p])
    /\ mapBlocksInFlight' = Restrict(mapBlocksInFlight, DOMAIN mapBlocksInFlight \ Released(p))
    /\ nPreferredDownload' = nPreferredDownload - BoolToInt(node[p].fPreferredDownload)
    /\ node' = [node EXCEPT ![p] = NewNodeState("gone")]
    /\ UNCHANGED <<chain, nQueuedValidatedHeaders>>

Misbehaving(n, p, howmuch) ==
    IF howmuch >= 100 \/ p \in Limited THEN [n EXCEPT !.fShouldBan = TRUE] ELSE n

(***************************************************************************)
(* Messages from peer p.                                                   *)
(***************************************************************************)
(* An inv of one block; nearToday: the tip is less than 20 blocks old.     *)
InvMessage(p, b, nearToday) ==
    LET s == [Now EXCEPT !.node[p] = UpdateBlockAvailability(@, index, b)]
        asked == [s EXCEPT !.node[p].getheaders = p \in Prompt]
        fetchNow == nearToday /\ node[p].nBlocksInFlight < MAX_BLOCKS_IN_TRANSIT_PER_PEER
    IN  /\ Active(p)
        /\ Becomes(IF b \in index \cup DOMAIN mapBlocksInFlight THEN s
                   ELSE IF fetchNow THEN MarkBlockAsInFlight(asked, p, b, FALSE)
                   ELSE asked)
        /\ UNCHANGED <<chain, nSyncStarted, nPreferredDownload>>

(* The headers from the one after a up to b, accepted one by one until one *)
(* is refused; an answer to getheaders also ends the request.              *)
HeadersMessage(p, a, b) ==
    LET headers == Chain[b] \ Chain[a]
        refused == {h \in headers : h \in failed \/ (h \notin index /\ Parent[h] \in failed)}
        accepted == {h \in headers : \A r \in refused : Height(h) < Height(r)}
        n == [node[p] EXCEPT !.getheaders = FALSE]
    IN  /\ Active(p)
        /\ a \in Chain[b] \ {b}
        /\ \/ /\ a \notin index
              /\ node' = [node EXCEPT ![p] = Misbehaving(n, p, 10)]
              /\ UNCHANGED index
           \/ /\ a \in index /\ refused = {}
              /\ index' = index \cup headers
              /\ node' = [node EXCEPT ![p] = UpdateBlockAvailability(n, index', b)]
           \/ /\ a \in index /\ refused # {}
              /\ index' = index \cup accepted
              /\ node' = [node EXCEPT ![p] =
                            IF refused \cap index = {}
                            THEN Misbehaving(n, p, 100) ELSE n]
        /\ UNCHANGED <<have, failed, tip, mapBlockSource, mapBlocksInFlight,
                       nQueuedValidatedHeaders, nSyncStarted, nPreferredDownload>>

(* ActivateBestChain when the blocks of data are on disk.  The candidates  *)
(* are the complete chains with more work than the tip; the invalid ones   *)
(* with more work than the new tip are tried first and marked as failed,   *)
(* and so may be those that tie with it.  InvalidBlockFound has their      *)
(* sender banned.                                                          *)
ActivateBestChain(data, source, s) ==
    LET complete == {b \in data \ failed : Chain[b] \subseteq data}
        sound == {b \in complete : Chain[b] \cap Invalid = {} /\ Height(b) > Height(tip)}
        bad == {b \in complete : Chain[b] \cap Invalid # {}}
    IN  \E new \in IF sound = {} THEN {tip}
                   ELSE {b \in sound : \A c \in sound : Height(c) <= Height(b)} :
        \E ties \in SUBSET {b \in bad : new # tip /\ Height(b) = Height(new)} :
           LET tried == ties \cup {b \in bad : Height(b) > Height(new)}
               marked == {b \in UNION {Chain[c] : c \in tried} : Chain[b] \cap Invalid # {}}
               senders == {source[b] : b \in {c \in marked \ failed : Chain[c] \cap Invalid = {c}}}
           IN  /\ tip' = new
               /\ failed' = failed \cup marked
               /\ Becomes([s EXCEPT !.node =
                     [p \in Peers |-> IF p \in senders /\ s.node[p].status = "connected"
                                      THEN Misbehaving(s.node[p], p, 100) ELSE s.node[p]]])

(* AcceptBlock's conditions on a block that was not asked for.             *)
WorthStoring(b) ==
    /\ Height(b) > Height(tip)
    /\ Height(b) <= Height(tip) + MIN_BLOCKS_TO_KEEP

(* A block message: ProcessNewBlock.  checked: CheckBlock succeeds.  An    *)
(* invalid block fails ContextualCheckBlock, before it is stored, or       *)
(* ConnectBlock.  No other message is handled between AcceptBlock and      *)
(* ActivateBestChain; a peer that goes away in between takes its ban along *)
(* as if it went away after them.                                          *)
BlockMessage(p, b, checked) ==
    LET fRequested == b \in DOMAIN mapBlocksInFlight
        s == MarkBlockAsReceived(Now, b)
        punished(howmuch) == [s EXCEPT !.node[p] = Misbehaving(@, p, howmuch)]
        source == IF b \in Invalid THEN [mapBlockSource EXCEPT ![b] = p] ELSE mapBlockSource
        stored == IF b \notin have /\ (fRequested \/ WorthStoring(b)) THEN {b} ELSE {}
    IN  /\ Active(p)
        /\ \/ /\ ~checked
              /\ Becomes(punished(100))
              /\ UNCHANGED chain
           \/ /\ checked /\ b \notin index /\ Parent[b] \notin index
              /\ Becomes(punished(10))
              /\ UNCHANGED chain
           \/ /\ checked /\ b \notin index /\ Parent[b] \in index \cap failed
              /\ Becomes(punished(100))
              /\ UNCHANGED chain
           \/ /\ checked /\ b \in failed
              /\ mapBlockSource' = source
              /\ Becomes(s)
              /\ UNCHANGED <<index, have, failed, tip>>
           \/ /\ checked /\ b \notin failed
              /\ b \in index \/ Parent[b] \in index \ failed
              /\ index' = index \cup {b}
              /\ mapBlockSource' = source
              /\ \/ /\ have' = have \cup stored
                    /\ ActivateBestChain(have \cup stored, source, s)
                 \/ /\ b \in Invalid \cap stored
                    /\ failed' = failed \cup {b}
                    /\ \E howmuch \in {10, 100} : Becomes(punished(howmuch))
                    /\ UNCHANGED <<have, tip>>
        /\ UNCHANGED <<nSyncStarted, nPreferredDownload>>

(***************************************************************************)
(* SendMessages to peer p, one call of ThreadMessageHandler's loop.        *)
(***************************************************************************)
(* fFetch: this is a nice peer, or there are no nice peers.                *)
FetchesFrom(p) == node[p].fPreferredDownload \/ nPreferredDownload = 0

(* How many more blocks may be requested from a peer.                      *)
RequestsLeft(n) == MAX_BLOCKS_IN_TRANSIT_PER_PEER - n.nBlocksInFlight

(* The staller is marked when this peer has nothing to wait for itself.    *)
MarkStaller(s, p, staller) ==
    IF s.node[p].nBlocksInFlight = 0 /\ staller # None
    THEN [s EXCEPT !.node[staller].stalling = TRUE]
    ELSE s

RequestBlocks(s, p) ==
    LET next == FindNextBlocksToDownload(s, p, RequestsLeft(s.node[p]))
        Request(r, b) == MarkBlockAsInFlight(r, p, b, TRUE)
    IN  MarkStaller(FoldLeft(Request, [s EXCEPT !.node[p] = next.node], next.vBlocks),
                    p, next.staller)

(* The oldest request has passed its nTimeDisconnect.                      *)
TimedOut(n, late) == late /\ n.vBlocksInFlight # <<>>

(* ibd: IsInitialBlockDownload(); nearToday: the best header is less than  *)
(* a day old; late: the timeouts that can have expired have.               *)
StartsSync(p, nearToday) ==
    ~node[p].fSyncStarted /\ (nearToday \/ (nSyncStarted = 0 /\ FetchesFrom(p)))

Sent(p, ibd, nearToday, late) ==
    LET n == node[p]
        start == StartsSync(p, nearToday)
        giveUp == n.fShouldBan \/ (n.stalling /\ late) \/ TimedOut(n, late)
        s == [Now EXCEPT !.node[p] =
                [@ EXCEPT !.fShouldBan = FALSE,
                          !.fDisconnect = giveUp,
                          !.fSyncStarted = @ \/ start,
                          !.getheaders = @ \/ (start /\ p \in Prompt)]]
    IN  IF ~giveUp /\ (FetchesFrom(p) \/ ~ibd) /\ RequestsLeft(n) > 0
        THEN RequestBlocks(s, p) ELSE s

SendMessages(p, ibd, nearToday, late) ==
    /\ Active(p)
    /\ late => p \notin Prompt
    /\ UNCHANGED <<chain, nPreferredDownload>>
    /\ nSyncStarted' = nSyncStarted + BoolToInt(StartsSync(p, nearToday))
    /\ Becomes(Sent(p, ibd, nearToday, late))

(* The values of ibd and of nearToday that make a difference to a peer.    *)
Ibds(p) == IF FetchesFrom(p) THEN {FALSE} ELSE BOOLEAN
NearTodays(p) == IF node[p].fSyncStarted THEN {FALSE} ELSE BOOLEAN

(* The best block of a peer, and its answer to getheaders.                 *)
Best(p) == CHOOSE b \in Serves[p] : \A c \in Serves[p] : Height(c) <= Height(b)
Answers(p, a, b) == node[p].getheaders /\ a = Genesis /\ b = Best(p)

Next ==
    \E p \in Peers :
       \/ InitializeNode(p)
       \/ Version(p)
       \/ FinalizeNode(p)
       \/ \E b \in Serves[p], nearToday \in BOOLEAN : InvMessage(p, b, nearToday)
       \/ \E b \in Serves[p] : \E a \in {Genesis, Parent[b]} :
             (p \in Prompt => Answers(p, a, b)) /\ HeadersMessage(p, a, b)
       \/ \E b \in Serves[p], checked \in BOOLEAN :
             /\ p \in Prompt => checked /\ b \in Released(p) \cup have
             /\ BlockMessage(p, b, checked)
       \/ \E ibd \in Ibds(p), nearToday \in NearTodays(p), late \in BOOLEAN :
             SendMessages(p, ibd, nearToday, late)

Spec == Init /\ [][Next]_vars

(* What SendMessages would do for p now, whatever the age of the chain     *)
(* makes of ibd and nearToday: start the sync, request b, move the last    *)
(* common block to b, or give up on the peer.                              *)
HasToStart(p) == Active(p) /\ StartsSync(p, FALSE)

MayRequest(p) == Active(p) /\ FetchesFrom(p) /\ RequestsLeft(node[p]) > 0
Requests(p) == FindNextBlocksToDownload(Now, p, RequestsLeft(node[p]))
HasToRequest(p, b) == MayRequest(p) /\ b \in ToSet(Requests(p).vBlocks)
HasToMove(p, b) ==
    /\ node[p].pindexLastCommonBlock # b
    /\ MayRequest(p) /\ Requests(p).node.pindexLastCommonBlock = b

HasToGiveUp(p) == Active(p) /\ \/ node[p].fShouldBan \/ node[p].stalling
                                \/ node[p].vBlocksInFlight # <<>>

(* Weak fairness.  Every condition below is ended by the action that it    *)
(* calls for, so the action is not neglected for ever if and only if the   *)
(* condition does not hold for ever.  ThreadMessageHandler calls           *)
(* SendMessages for every peer again and again, and a timeout expires at   *)
(* some time.  ThreadSocketHandler closes the connections that are marked. *)
(* A Prompt peer connects and answers every getheaders and getdata, the    *)
(* latter perhaps when another peer has already done so; it need not       *)
(* announce anything, for a block is announced at most once.  The other    *)
(* peers need not do anything.                                             *)
KeepsSending(p) ==
    /\ []<>~HasToStart(p)
    /\ \A b \in Blocks : []<>~HasToRequest(p, b) /\ []<>~HasToMove(p, b)

KeepsAnswering(p) ==
    /\ <>(node[p].status = "connected")
    /\ []<>~(Active(p) /\ node[p].getheaders)
    /\ \A b \in Serves[p] : []<>~(Active(p) /\ b \in Released(p))

Fairness ==
    /\ \A p \in Prompt : KeepsSending(p) /\ KeepsAnswering(p)
    /\ \A p \in Peers \ Prompt : []<>~HasToGiveUp(p) /\ []<>~node[p].fDisconnect

FairSpec == Spec /\ Fairness

(***************************************************************************)
(* Properties.                                                             *)
(***************************************************************************)
(* Every variable keeps its type.                                          *)
TypeOK ==
    /\ index \subseteq Blocks /\ have \subseteq index /\ failed \subseteq index
    /\ tip \in have
    /\ mapBlockSource \in [Invalid -> Peers \cup {None}]
    /\ DOMAIN mapBlocksInFlight \subseteq Blocks
    /\ nQueuedValidatedHeaders \in Nat
    /\ nSyncStarted \in Nat /\ nPreferredDownload \in Nat
    /\ \A p \in Peers : node[p] \in NodeState

(* mapBlocksInFlight and the lists and counters of the peers describe the  *)
(* same requests, and no peer has more than the limit: every iterator that *)
(* MarkBlockAsReceived follows is valid, and no block waits for a peer     *)
(* that is gone.  nQueuedValidatedHeaders never falls short of them; it    *)
(* keeps counting what was in flight from the peers that are gone.         *)
InFlightIsConsistent ==
    /\ \A b \in DOMAIN mapBlocksInFlight :
          Cardinality({e \in ToSet(node[mapBlocksInFlight[b]].vBlocksInFlight) : e.hash = b}) = 1
    /\ \A p \in Peers :
          LET list == node[p].vBlocksInFlight
          IN  /\ \A e \in ToSet(list) : e.hash \in DOMAIN mapBlocksInFlight /\
                                        mapBlocksInFlight[e.hash] = p
              /\ Cardinality(ToSet(list)) = Len(list)
              /\ node[p].nBlocksInFlight = Len(list)
              /\ node[p].nBlocksInFlightValidHeaders =
                    Cardinality({e \in ToSet(list) : e.fValidatedHeaders})
              /\ Len(list) <= MAX_BLOCKS_IN_TRANSIT_PER_PEER
    /\ MapThenSumSet(LAMBDA p : node[p].nBlocksInFlightValidHeaders, Peers)
          <= nQueuedValidatedHeaders

(* nSyncStarted and nPreferredDownload count the peers whose flag is set,  *)
(* whatever happened to the peers that are gone.  A count that stayed too  *)
(* high would keep header sync, or all fetching from ordinary peers, from  *)
(* ever starting again.                                                    *)
PeerCountsAreExact ==
    /\ nSyncStarted = Cardinality({p \in Peers : node[p].fSyncStarted})
    /\ nPreferredDownload = Cardinality({p \in Peers : node[p].fPreferredDownload})

(* The two together, with the types.                                       *)
BookkeepingIsExact == TypeOK /\ InFlightIsConsistent /\ PeerCountsAreExact

(* pindexLastCommonBlock is a block that we have with all its ancestors,   *)
(* so that no block that is still missing lies below the download window.  *)
LastCommonIsComplete ==
    \A p \in Peers : node[p].pindexLastCommonBlock # None =>
                        Linked(node[p].pindexLastCommonBlock)

(* A peer is only taken for a staller while it has a block that we wait    *)
(* for: one that has delivered everything is not disconnected for it.      *)
StallerOwesABlock ==
    \A p \in Peers : node[p].stalling => node[p].vBlocksInFlight # <<>>

(* The node catches up with a preferred peer that has a chain and answers, *)
(* unless the one slot for header sync is taken for ever by a peer that    *)
(* does not answer and stays connected: SendMessages has a timeout for     *)
(* blocks and none for headers.  Blocks that such a peer holds in flight,  *)
(* blocks that it drops, invalid blocks, a reorganisation and the slot of  *)
(* a peer that leaves delay the sync and do not prevent it.                *)
SyncCompletes ==
    \A p \in Prompt :
       \/ <>[](Height(Best(p)) <= Height(tip))
       \/ <>[](/\ ~node[p].fSyncStarted
               /\ \E q \in Peers \ Prompt : node[q].fSyncStarted)
=============================================================================
