---------------------------- MODULE CoinsViewCache ----------------------------
(***************************************************************************)
(* The stack of coins views (coins.cpp, txdb.cpp): a CCoinsViewCache       *)
(* `view', alive while ConnectTip or DisconnectTip applies a block, over   *)
(* the CCoinsViewCache pcoinsTip, over the CCoinsViewDB pcoinsdbview.      *)
(* All of it is guarded by cs_main, so each call is one step.  Anchors are *)
(* the subject of module Anchors; module ChainstateStore says what this    *)
(* stack promises.                                                         *)
(*                                                                         *)
(* The contents of a CCoins is abstracted to one value; the values are     *)
(* told apart, and the pruned one is known.                                *)
(***************************************************************************)
CONSTANTS
  Txids,       \* transaction ids
  Coins,       \* possible unspent outputs of a transaction
  Pruned,      \* a CCoins without unspent outputs
  Nullifiers,  \* note nullifiers
  Blocks,      \* block hashes
  Null,        \* uint256()
  Absent       \* no entry in a map, no record in the database

CCoins == Coins \cup {Pruned}

CCoinsCacheEntry == [coins : CCoins, dirty : BOOLEAN, fresh : BOOLEAN]

CNullifiersCacheEntry == [entered : BOOLEAN, dirty : BOOLEAN]

ASSUME CoinsAssumption ==
  /\ Pruned \notin Coins /\ Null \notin Blocks
  /\ Absent \notin CCoins
  /\ Absent \notin CCoinsCacheEntry
  /\ Absent \notin CNullifiersCacheEntry

VARIABLES
  dbCoins, dbNullifiers, dbBlock,     \* CCoinsViewDB
  tipCoins, tipNullifiers, tipBlock,  \* pcoinsTip: cacheCoins, cacheNullifiers, hashBlock
  viewCoins, viewNullifiers, viewBlock, \* the same members of view
  open                                \* view exists

db == <<dbCoins, dbNullifiers, dbBlock>>
tip == <<tipCoins, tipNullifiers, tipBlock>>
view == <<viewCoins, viewNullifiers, viewBlock>>
vars == <<db, tip, view, open>>

NoCoins == [t \in Txids |-> Absent]
NoNullifiers == [nf \in Nullifiers |-> Absent]

Init ==
  /\ dbCoins = NoCoins /\ dbNullifiers = [nf \in Nullifiers |-> FALSE] /\ dbBlock = Null
  /\ tipCoins = NoCoins /\ tipNullifiers = NoNullifiers /\ tipBlock = Null
  /\ viewCoins = NoCoins /\ viewNullifiers = NoNullifiers /\ viewBlock = Null
  /\ open = FALSE

-----------------------------------------------------------------------------
(* One cache entry.  `base' is what GetCoins of the parent view answers:   *)
(* Absent when it returns false, else the coins, which may be pruned.      *)

Answer(entry) == IF entry = Absent THEN Absent ELSE entry.coins

FetchCoins(entry, base) ==
  IF entry # Absent \/ base = Absent THEN entry
  ELSE [coins |-> base, dirty |-> FALSE, fresh |-> base = Pruned]

\* Mutant: an entry that the parent has is marked fresh, too.
ModifiedAlwaysFresh(entry, base, c) ==
  IF c = Pruned THEN Absent ELSE [coins |-> c, dirty |-> TRUE, fresh |-> TRUE]

\* Mutant: an entry that the parent does not have is not marked fresh.
ModifiedNeverFresh(entry, base, c) ==
  LET fresh == entry # Absent /\ entry.fresh
  IN  IF fresh /\ c = Pruned THEN Absent
      ELSE [coins |-> c, dirty |-> TRUE, fresh |-> fresh]

\* ~CCoinsModifier: an entry that is new and empty is erased.
Released(entry) == IF entry.fresh /\ entry.coins = Pruned THEN Absent ELSE entry

\* ModifyCoins and the caller's assignment of c.
Modified(entry, base, c) ==
  LET fresh == IF entry # Absent THEN entry.fresh ELSE base = Absent \/ base = Pruned
  IN  Released([coins |-> c, dirty |-> TRUE, fresh |-> fresh])

\* BatchWrite of a child's entry into the parent cache's entry.
CoinsMerged(child, parent) ==
  IF child = Absent \/ ~child.dirty THEN parent
  ELSE IF parent = Absent
    THEN IF child.coins = Pruned THEN Absent
         ELSE [coins |-> child.coins, dirty |-> TRUE, fresh |-> TRUE]
  ELSE IF parent.fresh /\ child.coins = Pruned THEN Absent
  ELSE [coins |-> child.coins, dirty |-> TRUE, fresh |-> parent.fresh]

\* Mutant: pruned coins are written instead of erased.
CoinsWrittenPruned(entry, record) ==
  IF entry = Absent \/ ~entry.dirty THEN record ELSE entry.coins

\* BatchWrite of an entry into the database's record.
CoinsWritten(entry, record) ==
  IF entry = Absent \/ ~entry.dirty THEN record
  ELSE IF entry.coins = Pruned THEN Absent ELSE entry.coins

\* GetNullifier of the cache: a miss caches the parent's answer.
NullifierFetched(entry, base) ==
  IF entry # Absent THEN entry ELSE [entered |-> base, dirty |-> FALSE]

\* BatchWrite of a child's nullifier entry into the parent cache's entry.
NullifierMerged(child, parent) ==
  IF child = Absent \/ ~child.dirty THEN parent
  ELSE IF parent = Absent THEN [entered |-> child.entered, dirty |-> TRUE]
  ELSE [entered |-> child.entered,
        dirty |-> parent.dirty \/ parent.entered # child.entered]

\* BatchWrite of a nullifier entry into the database's record.
NullifierWritten(entry, record) ==
  IF entry = Absent \/ ~entry.dirty THEN record ELSE entry.entered

\* GetBestBlock: hashBlock is read from the parent when it is null.
BestBlock(hashBlock, base) == IF hashBlock = Null THEN base ELSE hashBlock

-----------------------------------------------------------------------------
(* Calls on pcoinsTip by code that has no view of its own: mempool         *)
(* acceptance, RPC, wallet.                                                *)

TipAccessCoins(t) ==
  /\ ~open
  /\ tipCoins' = [tipCoins EXCEPT ![t] = FetchCoins(@, dbCoins[t])]
  /\ UNCHANGED <<db, tipNullifiers, tipBlock, view, open>>

TipGetNullifier(nf) ==
  /\ ~open
  /\ tipNullifiers' = [tipNullifiers EXCEPT
                         ![nf] = NullifierFetched(@, dbNullifiers[nf])]
  /\ UNCHANGED <<db, tipCoins, tipBlock, view, open>>

\* FlushStateToDisk: pcoinsTip->Flush().  The database takes the batch
\* atomically, and a null hash is not written.
TipFlush ==
  /\ ~open
  /\ dbCoins' = [t \in Txids |-> CoinsWritten(tipCoins[t], dbCoins[t])]
  /\ dbNullifiers' =
       [nf \in Nullifiers |-> NullifierWritten(tipNullifiers[nf], dbNullifiers[nf])]
  /\ dbBlock' = BestBlock(tipBlock, dbBlock)
  /\ tipCoins' = NoCoins /\ tipNullifiers' = NoNullifiers
  /\ UNCHANGED <<tipBlock, view, open>>

-----------------------------------------------------------------------------
(* Calls on the view of a block being connected or disconnected.           *)

\* Mutant: the view does not ask for the best block when it is created.
LazyBlock(h) == Null

\* The hash in a new view once ConnectBlock or DisconnectBlock has compared
\* it with the block they start from.
BlockCompared(h) == h

\* CCoinsViewCache view(pcoinsTip), and view.GetBestBlock() with which
\* ConnectBlock and DisconnectBlock start.
BeginView ==
  /\ ~open /\ open' = TRUE
  /\ tipBlock' = BestBlock(tipBlock, dbBlock)
  /\ viewBlock' = BlockCompared(tipBlock')
  /\ UNCHANGED <<db, tipCoins, tipNullifiers, viewCoins, viewNullifiers>>

\* What pcoinsTip holds for t after the view has asked for it.
TipAsked(t) ==
  IF viewCoins[t] = Absent THEN FetchCoins(tipCoins[t], dbCoins[t]) ELSE tipCoins[t]

ViewAccessCoins(t) ==
  /\ open
  /\ tipCoins' = [tipCoins EXCEPT ![t] = TipAsked(t)]
  /\ viewCoins' = [viewCoins EXCEPT ![t] = FetchCoins(@, Answer(TipAsked(t)))]
  /\ UNCHANGED <<db, tipNullifiers, tipBlock, viewNullifiers, viewBlock, open>>

\* UpdateCoins, ApplyTxInUndo and DisconnectBlock's outs->Clear().
ViewModifyCoins(t, c) ==
  /\ open
  /\ tipCoins' = [tipCoins EXCEPT ![t] = TipAsked(t)]
  /\ viewCoins' = [viewCoins EXCEPT ![t] = Modified(@, Answer(TipAsked(t)), c)]
  /\ UNCHANGED <<db, tipNullifiers, tipBlock, viewNullifiers, viewBlock, open>>

\* (A hit changes nothing.)
ViewGetNullifier(nf) ==
  LET asked == NullifierFetched(tipNullifiers[nf], dbNullifiers[nf])
  IN  /\ open /\ viewNullifiers[nf] = Absent
      /\ tipNullifiers' = [tipNullifiers EXCEPT ![nf] = asked]
      /\ viewNullifiers' = [viewNullifiers EXCEPT ![nf] = NullifierFetched(@, asked.entered)]
      /\ UNCHANGED <<db, tipCoins, tipBlock, viewCoins, viewBlock, open>>

ViewSetNullifier(nf, spent) ==
  /\ open
  /\ viewNullifiers' = [viewNullifiers EXCEPT ![nf] = [entered |-> spent, dirty |-> TRUE]]
  /\ UNCHANGED <<db, tip, viewCoins, viewBlock, open>>

ViewSetBestBlock(h) ==
  /\ open
  /\ viewBlock' = h
  /\ UNCHANGED <<db, tip, viewCoins, viewNullifiers, open>>

ViewGone ==
  /\ viewCoins' = NoCoins /\ viewNullifiers' = NoNullifiers /\ viewBlock' = Null
  /\ open' = FALSE

\* view.Flush(), after which the view goes out of scope.
ViewFlush ==
  /\ open
  /\ tipCoins' = [t \in Txids |-> CoinsMerged(viewCoins[t], tipCoins[t])]
  /\ tipNullifiers' =
       [nf \in Nullifiers |-> NullifierMerged(viewNullifiers[nf], tipNullifiers[nf])]
  /\ tipBlock' = viewBlock
  /\ ViewGone
  /\ UNCHANGED db

\* ConnectBlock or DisconnectBlock fails.
ViewDrop == open /\ ViewGone /\ UNCHANGED <<db, tip>>

\* The process dies; the next one starts from the database.
Crash ==
  /\ tipCoins' = NoCoins /\ tipNullifiers' = NoNullifiers /\ tipBlock' = Null
  /\ ViewGone
  /\ UNCHANGED db

Next ==
  \/ TipFlush \/ BeginView \/ ViewFlush \/ ViewDrop \/ Crash
  \/ \E t \in Txids : TipAccessCoins(t) \/ ViewAccessCoins(t)
  \/ \E t \in Txids, c \in CCoins : ViewModifyCoins(t, c)
  \/ \E nf \in Nullifiers : TipGetNullifier(nf) \/ ViewGetNullifier(nf)
  \/ \E nf \in Nullifiers, spent \in BOOLEAN : ViewSetNullifier(nf, spent)
  \/ \E h \in Blocks : ViewSetBestBlock(h)

Spec == Init /\ [][Next]_vars

-----------------------------------------------------------------------------
(* Properties.                                                             *)

\* Every map holds entries of the right kind, and the database no pruned coins.
TypeOK ==
  /\ dbCoins \in [Txids -> Coins \cup {Absent}]
  /\ dbNullifiers \in [Nullifiers -> BOOLEAN]
  /\ dbBlock \in Blocks \cup {Null}
  /\ tipCoins \in [Txids -> CCoinsCacheEntry \cup {Absent}]
  /\ tipNullifiers \in [Nullifiers -> CNullifiersCacheEntry \cup {Absent}]
  /\ tipBlock \in Blocks \cup {Null}
  /\ viewCoins \in [Txids -> CCoinsCacheEntry \cup {Absent}]
  /\ viewNullifiers \in [Nullifiers -> CNullifiersCacheEntry \cup {Absent}]
  /\ viewBlock \in Blocks \cup {Null}
  /\ open \in BOOLEAN

\* What a reader of each layer sees.
Unspent(answer) == IF answer = Absent THEN Pruned ELSE answer

DbUnspent(t) == Unspent(dbCoins[t])
TipUnspent(t) == IF tipCoins[t] = Absent THEN DbUnspent(t) ELSE tipCoins[t].coins
ViewUnspent(t) == IF viewCoins[t] = Absent THEN TipUnspent(t) ELSE viewCoins[t].coins

TipSpent(nf) ==
  IF tipNullifiers[nf] = Absent THEN dbNullifiers[nf] ELSE tipNullifiers[nf].entered
ViewSpent(nf) ==
  IF viewNullifiers[nf] = Absent THEN TipSpent(nf) ELSE viewNullifiers[nf].entered

\* The flags mean what coins.h says: an entry without DIRTY equals the
\* parent's version, and under a FRESH entry the parent has nothing unspent.
FlagsTellTheTruth ==
  /\ \A t \in Txids :
       /\ tipCoins[t] # Absent =>
            /\ ~tipCoins[t].dirty => tipCoins[t].coins = DbUnspent(t)
            /\ tipCoins[t].fresh => dbCoins[t] = Absent
       /\ viewCoins[t] # Absent =>
            /\ ~viewCoins[t].dirty => viewCoins[t].coins = TipUnspent(t)
            /\ viewCoins[t].fresh => TipUnspent(t) = Pruned
  /\ \A nf \in Nullifiers :
       /\ tipNullifiers[nf] # Absent /\ ~tipNullifiers[nf].dirty =>
            tipNullifiers[nf].entered = dbNullifiers[nf]
       /\ viewNullifiers[nf] # Absent /\ ~viewNullifiers[nf].dirty =>
            viewNullifiers[nf].entered = TipSpent(nf)

\* BatchWrite's assertion never fails: unspent coins that the view writes
\* and pcoinsTip has no entry for are FRESH, so that marking them FRESH in
\* pcoinsTip, and later erasing them there, hides no record of the database.
BatchWriteAssertion ==
  \A t \in Txids :
    tipCoins[t] = Absent /\ viewCoins[t] # Absent /\ viewCoins[t].dirty =>
      \/ viewCoins[t].coins = Pruned
      \/ viewCoins[t].fresh

\* ~CCoinsModifier and BatchWrite keep no entry that is both new and empty:
\* a transaction created and spent between two writes leaves no trace.
NoUselessEntry ==
  \A t \in Txids : tipCoins[t] # Absent /\ tipCoins[t].fresh => tipCoins[t].coins # Pruned

\* The layers together behave as one store whose working copy is committed
\* or dropped as a whole and whose crashes lose only whole commits.
DbState == [coins |-> [t \in Txids |-> DbUnspent(t)],
            nullifiers |-> {nf \in Nullifiers : dbNullifiers[nf]}, best |-> dbBlock]

TipState == [coins |-> [t \in Txids |-> TipUnspent(t)],
             nullifiers |-> {nf \in Nullifiers : TipSpent(nf)},
             best |-> BestBlock(tipBlock, dbBlock)]

ViewState == [coins |-> [t \in Txids |-> ViewUnspent(t)],
              nullifiers |-> {nf \in Nullifiers : ViewSpent(nf)},
              best |-> IF open THEN viewBlock ELSE BestBlock(tipBlock, dbBlock)]

Store == INSTANCE ChainstateStore
           WITH durable <- DbState, committed <- TipState, working <- ViewState

\* The specification as a property: every step is a step of the store or
\* leaves it unchanged (reads and cache fills are invisible).
ImplementsStore == Store!Spec
=============================================================================
