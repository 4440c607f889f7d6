------------------------- MODULE CoinsViewCacheProofs -------------------------
(***************************************************************************)
(* Proofs about CoinsViewCache for any sets of transactions, coins,        *)
(* nullifiers and blocks: its types, the meaning of the cache flags, the   *)
(* assertion of BatchWrite, and that the stack of views implements the     *)
(* store of module ChainstateStore.                                        *)
(***************************************************************************)
EXTENDS CoinsViewCache, TLAPS

(* The invariant is a statement about one key at a time: the entry e of    *)
(* the view, the entry p of pcoinsTip and the record r of the database.    *)

TipSees(p, r) == IF p = Absent THEN Unspent(r) ELSE p.coins
ViewSees(e, p, r) == IF e = Absent THEN TipSees(p, r) ELSE e.coins

\* The flags tell the truth, and what a view holds and pcoinsTip does not is
\* FRESH: the strengthening that makes BatchWriteAssertion inductive.
KeyOK(e, p, r) ==
  /\ p # Absent => /\ ~p.dirty => p.coins = Unspent(r)
                   /\ p.fresh => r = Absent /\ p.coins # Pruned
  /\ e # Absent => /\ ~e.dirty => e.coins = TipSees(p, r)
                   /\ e.fresh => TipSees(p, r) = Pruned
                   /\ p = Absent => e.fresh

NfTipSees(p, r) == IF p = Absent THEN r ELSE p.entered
NfViewSees(e, p, r) == IF e = Absent THEN NfTipSees(p, r) ELSE e.entered

NfOK(e, p, r) ==
  /\ p # Absent /\ ~p.dirty => p.entered = r
  /\ e # Absent /\ ~e.dirty => e.entered = NfTipSees(p, r)

\* A view has entries only while open, and one whose hash is null was
\* created over layers without a hash.
ViewDiscipline ==
  /\ ~open => viewCoins = NoCoins /\ viewNullifiers = NoNullifiers
  /\ open /\ viewBlock = Null => tipBlock = Null /\ dbBlock = Null

Coherent ==
  /\ TypeOK
  /\ \A t \in Txids : KeyOK(viewCoins[t], tipCoins[t], dbCoins[t])
  /\ \A nf \in Nullifiers : NfOK(viewNullifiers[nf], tipNullifiers[nf], dbNullifiers[nf])
  /\ ViewDiscipline

-----------------------------------------------------------------------------
(* Types.                                                                  *)

\* An empty database under empty caches is well typed.
LEMMA InitTypeOK == Init => TypeOK
  BY DEF Init, TypeOK, NoCoins, NoNullifiers

\* Types of the entry operators.
LEMMA EntryTypes ==
  ASSUME NEW e \in CCoinsCacheEntry \cup {Absent},
         NEW p \in CCoinsCacheEntry \cup {Absent},
         NEW base \in CCoins \cup {Absent},
         NEW r \in Coins \cup {Absent},
         NEW c \in CCoins
  PROVE  /\ Answer(e) \in CCoins \cup {Absent}
         /\ FetchCoins(e, base) \in CCoinsCacheEntry \cup {Absent}
         /\ Modified(e, base, c) \in CCoinsCacheEntry \cup {Absent}
         /\ CoinsMerged(e, p) \in CCoinsCacheEntry \cup {Absent}
         /\ CoinsWritten(e, r) \in Coins \cup {Absent}
<1> USE DEF CCoinsCacheEntry, CCoins
<1>1. Answer(e) \in CCoins \cup {Absent}
  BY DEF Answer
<1>2. FetchCoins(e, base) \in CCoinsCacheEntry \cup {Absent}
  BY DEF FetchCoins
<1>3. Modified(e, base, c) \in CCoinsCacheEntry \cup {Absent}
  <2> DEFINE f == IF e # Absent THEN e.fresh ELSE base = Absent \/ base = Pruned
  <2>1. f \in BOOLEAN
    OBVIOUS
  <2> HIDE DEF f
  <2>2. [coins |-> c, dirty |-> TRUE, fresh |-> f] \in CCoinsCacheEntry
    BY <2>1
  <2> QED
    BY <2>2 DEF Modified, Released, f
<1>4. CoinsMerged(e, p) \in CCoinsCacheEntry \cup {Absent}
  BY DEF CoinsMerged
<1>5. CoinsWritten(e, r) \in Coins \cup {Absent}
  BY DEF CoinsWritten
<1> QED
  BY <1>1, <1>2, <1>3, <1>4, <1>5

\* Types of the operators on one nullifier entry.
LEMMA NullifierTypes ==
  ASSUME NEW e \in CNullifiersCacheEntry \cup {Absent},
         NEW p \in CNullifiersCacheEntry \cup {Absent},
         NEW base \in BOOLEAN
  PROVE  /\ NullifierFetched(e, base) \in CNullifiersCacheEntry \cup {Absent}
         /\ NullifierMerged(e, p) \in CNullifiersCacheEntry \cup {Absent}
         /\ NullifierWritten(e, base) \in BOOLEAN
  BY CoinsAssumption DEF NullifierFetched, NullifierMerged, NullifierWritten, CNullifiersCacheEntry

\* Every call keeps the types.
LEMMA NextTypeOK == TypeOK /\ [Next]_vars => TypeOK'
<1> SUFFICES ASSUME TypeOK, [Next]_vars PROVE TypeOK'
  OBVIOUS
<1> USE DEF TypeOK, db, tip, view, CCoins
<1>1. CASE TipFlush
  BY <1>1, EntryTypes, NullifierTypes DEF TipFlush, NoCoins, NoNullifiers, BestBlock
<1>2. CASE BeginView
  BY <1>2 DEF BeginView, BestBlock, BlockCompared
<1>3. CASE ViewFlush
  BY <1>3, EntryTypes, NullifierTypes DEF ViewFlush, ViewGone, NoCoins, NoNullifiers
<1>4. CASE ViewDrop
  BY <1>4 DEF ViewDrop, ViewGone, NoCoins, NoNullifiers
<1>5. CASE Crash
  BY <1>5 DEF Crash, ViewGone, NoCoins, NoNullifiers
<1>6. ASSUME NEW t \in Txids, TipAccessCoins(t) PROVE TypeOK'
  BY <1>6, EntryTypes DEF TipAccessCoins
<1>7. ASSUME NEW t \in Txids, ViewAccessCoins(t) PROVE TypeOK'
  <2>1. TipAsked(t) \in CCoinsCacheEntry \cup {Absent}
    BY EntryTypes DEF TipAsked
  <2>2. FetchCoins(viewCoins[t], Answer(TipAsked(t))) \in CCoinsCacheEntry \cup {Absent}
    BY <2>1, EntryTypes
  <2> QED
    BY <1>7, <2>1, <2>2 DEF ViewAccessCoins
<1>8. ASSUME NEW t \in Txids, NEW c \in CCoins, ViewModifyCoins(t, c) PROVE TypeOK'
  <2>1. TipAsked(t) \in CCoinsCacheEntry \cup {Absent}
    BY EntryTypes DEF TipAsked
  <2>2. Modified(viewCoins[t], Answer(TipAsked(t)), c) \in CCoinsCacheEntry \cup {Absent}
    BY <2>1, EntryTypes
  <2> QED
    BY <1>8, <2>1, <2>2 DEF ViewModifyCoins
<1>9. ASSUME NEW nf \in Nullifiers, TipGetNullifier(nf) PROVE TypeOK'
  BY <1>9, NullifierTypes DEF TipGetNullifier
<1>10. ASSUME NEW nf \in Nullifiers, ViewGetNullifier(nf) PROVE TypeOK'
  BY <1>10, CoinsAssumption DEF ViewGetNullifier, NullifierFetched, CNullifiersCacheEntry
<1>11. ASSUME NEW nf \in Nullifiers, NEW spent \in BOOLEAN, ViewSetNullifier(nf, spent)
       PROVE TypeOK'
  BY <1>11 DEF ViewSetNullifier, CNullifiersCacheEntry
<1>12. ASSUME NEW h \in Blocks, ViewSetBestBlock(h) PROVE TypeOK'
  BY <1>12 DEF ViewSetBestBlock
<1>13. CASE UNCHANGED vars
  BY <1>13 DEF vars
<1> QED
  BY <1>1, <1>2, <1>3, <1>4, <1>5, <1>6, <1>7, <1>8, <1>9, <1>10, <1>11, <1>12, <1>13
  DEF Next

\* No call leaves a map with an entry of the wrong kind or the database
\* with pruned coins.
THEOREM TypeCorrect == Spec => []TypeOK
  BY InitTypeOK, NextTypeOK, PTL DEF Spec

-----------------------------------------------------------------------------
(* What each operation does to one key.                                    *)

\* Fetching coins into either cache shows nothing new to its readers.
LEMMA KeyRead ==
  ASSUME NEW e \in CCoinsCacheEntry \cup {Absent},
         NEW p \in CCoinsCacheEntry \cup {Absent},
         NEW r \in Coins \cup {Absent},
         KeyOK(e, p, r)
  PROVE  /\ KeyOK(e, FetchCoins(p, r), r)
         /\ TipSees(FetchCoins(p, r), r) = TipSees(p, r)
         /\ KeyOK(FetchCoins(e, Answer(p)), p, r)
         /\ ViewSees(FetchCoins(e, Answer(p)), p, r) = ViewSees(e, p, r)
<1> USE CoinsAssumption DEF KeyOK, TipSees, ViewSees, Unspent, Answer, FetchCoins, CCoins
<1>1. KeyOK(e, FetchCoins(p, r), r)
  BY DEF CCoinsCacheEntry
<1>2. TipSees(FetchCoins(p, r), r) = TipSees(p, r)
  BY DEF CCoinsCacheEntry
<1>3. KeyOK(FetchCoins(e, Answer(p)), p, r)
  BY DEF CCoinsCacheEntry
<1>4. ViewSees(FetchCoins(e, Answer(p)), p, r) = ViewSees(e, p, r)
  BY DEF CCoinsCacheEntry
<1> QED
  BY <1>1, <1>2, <1>3, <1>4

\* The parent has been asked if the view had no entry: that p is the answer
\* of pcoinsTip means that p is absent only when r is.
LEMMA KeyModify ==
  ASSUME NEW e \in CCoinsCacheEntry \cup {Absent},
         NEW p \in CCoinsCacheEntry \cup {Absent},
         NEW r \in Coins \cup {Absent},
         NEW c \in CCoins,
         KeyOK(e, p, r),
         e = Absent /\ p = Absent => r = Absent
  PROVE  /\ KeyOK(Modified(e, Answer(p), c), p, r)
         /\ ViewSees(Modified(e, Answer(p), c), p, r) = c
<1> DEFINE fresh == IF e # Absent THEN e.fresh ELSE Answer(p) = Absent \/ Answer(p) = Pruned
           m == Modified(e, Answer(p), c)
<1>1. fresh \in BOOLEAN
  BY DEF CCoinsCacheEntry
<1>2. fresh => TipSees(p, r) = Pruned
  BY CoinsAssumption DEF KeyOK, TipSees, Unspent, Answer, CCoins, CCoinsCacheEntry
<1>3. p = Absent => fresh
  BY CoinsAssumption DEF KeyOK, Answer, CCoins, CCoinsCacheEntry
<1>4. m = IF fresh /\ c = Pruned THEN Absent
          ELSE [coins |-> c, dirty |-> TRUE, fresh |-> fresh]
  BY DEF Modified, Released
<1> HIDE DEF fresh, m
<1>5. CASE fresh /\ c = Pruned
  <2>1. m = Absent
    BY <1>4, <1>5
  <2> QED
    BY <1>2, <1>5, <2>1 DEF KeyOK, ViewSees, m
<1>6. CASE ~(fresh /\ c = Pruned)
  <2>1. /\ m \in CCoinsCacheEntry
        /\ m.coins = c /\ m.dirty = TRUE /\ m.fresh = fresh
    BY <1>1, <1>4, <1>6 DEF CCoinsCacheEntry
  <2>2. m # Absent
    BY <2>1, CoinsAssumption
  <2>3. KeyOK(m, p, r) /\ ViewSees(m, p, r) = c
    BY <1>2, <1>3, <2>1, <2>2 DEF KeyOK, ViewSees
  <2> QED
    BY <2>3 DEF m
<1> QED
  BY <1>1, <1>5, <1>6

\* BatchWrite of the view's entry into pcoinsTip: pcoinsTip shows
\* afterwards what the view showed.
LEMMA KeyMerge ==
  ASSUME NEW e \in CCoinsCacheEntry \cup {Absent},
         NEW p \in CCoinsCacheEntry \cup {Absent},
         NEW r \in Coins \cup {Absent},
         KeyOK(e, p, r)
  PROVE  /\ KeyOK(Absent, CoinsMerged(e, p), r)
         /\ TipSees(CoinsMerged(e, p), r) = ViewSees(e, p, r)
<1> USE CoinsAssumption DEF KeyOK, TipSees, ViewSees, Unspent, CoinsMerged, CCoins
<1>1. CASE e = Absent
  BY <1>1 DEF CCoinsCacheEntry
<1>2. CASE e # Absent /\ p = Absent
  <2>1. CASE ~e.dirty \/ e.coins = Pruned
    BY <1>2, <2>1 DEF CCoinsCacheEntry
  <2>2. CASE e.dirty /\ e.coins # Pruned
    <3>1. /\ CoinsMerged(e, p) \in CCoinsCacheEntry
          /\ CoinsMerged(e, p).coins = e.coins
          /\ CoinsMerged(e, p).dirty = TRUE
      BY <1>2, <2>2 DEF CCoinsCacheEntry
    <3>2. r = Absent
      BY <1>2, <2>2 DEF CCoinsCacheEntry
    <3> HIDE DEF CoinsMerged
    <3> QED
      BY <1>2, <2>2, <3>1, <3>2
  <2> QED
    BY <1>2, <2>1, <2>2 DEF CCoinsCacheEntry
<1>3. CASE e # Absent /\ p # Absent
  <2>1. CASE ~e.dirty \/ (p.fresh /\ e.coins = Pruned)
    BY <1>3, <2>1 DEF CCoinsCacheEntry
  <2>2. CASE e.dirty /\ ~(p.fresh /\ e.coins = Pruned)
    <3>1. /\ CoinsMerged(e, p) \in CCoinsCacheEntry
          /\ CoinsMerged(e, p).coins = e.coins
          /\ CoinsMerged(e, p).dirty = TRUE
          /\ CoinsMerged(e, p).fresh = p.fresh
      BY <1>3, <2>2 DEF CCoinsCacheEntry
    <3> HIDE DEF CoinsMerged
    <3> QED
      BY <1>3, <2>2, <3>1
  <2> QED
    BY <1>3, <2>1, <2>2 DEF CCoinsCacheEntry
<1> QED
  BY <1>1, <1>2, <1>3

\* BatchWrite of pcoinsTip's entry into the database: the database shows
\* afterwards what pcoinsTip showed.
LEMMA KeyWrite ==
  ASSUME NEW p \in CCoinsCacheEntry \cup {Absent},
         NEW r \in Coins \cup {Absent},
         KeyOK(Absent, p, r)
  PROVE  Unspent(CoinsWritten(p, r)) = TipSees(p, r)
  BY CoinsAssumption DEF KeyOK, TipSees, Unspent, CoinsWritten, CCoins, CCoinsCacheEntry

\* Caches without an entry are in order over any record.
LEMMA KeyEmpty ==
  ASSUME NEW e, NEW p, NEW r, KeyOK(e, p, r)
  PROVE  KeyOK(Absent, p, r) /\ KeyOK(Absent, Absent, r)
  BY DEF KeyOK

\* The same for the entries of one nullifier.
LEMMA NfSteps ==
  ASSUME NEW e \in CNullifiersCacheEntry \cup {Absent},
         NEW p \in CNullifiersCacheEntry \cup {Absent},
         NEW r \in BOOLEAN,
         NfOK(e, p, r)
  PROVE  /\ NfOK(e, NullifierFetched(p, r), r)
         /\ NfTipSees(NullifierFetched(p, r), r) = NfTipSees(p, r)
         /\ NfOK(Absent, NullifierMerged(e, p), r)
         /\ NfTipSees(NullifierMerged(e, p), r) = NfViewSees(e, p, r)
         /\ NullifierWritten(p, r) = NfTipSees(p, r)
<1> USE CoinsAssumption DEF NfOK, NfTipSees, NfViewSees, CNullifiersCacheEntry
<1>1. /\ NfOK(e, NullifierFetched(p, r), r)
      /\ NfTipSees(NullifierFetched(p, r), r) = NfTipSees(p, r)
  BY DEF NullifierFetched
<1>2. NfOK(Absent, NullifierMerged(e, p), r)
  BY DEF NullifierMerged
<1>3. NfTipSees(NullifierMerged(e, p), r) = NfViewSees(e, p, r)
  <2>1. CASE e = Absent \/ ~e.dirty
    BY <2>1 DEF NullifierMerged
  <2>2. CASE ~(e = Absent \/ ~e.dirty)
    <3>1. NullifierMerged(e, p) \in CNullifiersCacheEntry
      BY <2>2 DEF NullifierMerged
    <3>2. NullifierMerged(e, p).entered = e.entered
      BY <2>2 DEF NullifierMerged
    <3> QED
      BY <2>2, <3>1, <3>2
  <2> QED
    BY <2>1, <2>2
<1>4. NullifierWritten(p, r) = NfTipSees(p, r)
  BY DEF NullifierWritten
<1> QED
  BY <1>1, <1>2, <1>3, <1>4

-----------------------------------------------------------------------------
(* The invariant.                                                          *)

\* The invariant holds at the start.
LEMMA InitCoherent == Init => Coherent
  BY InitTypeOK
  DEF Init, Coherent, KeyOK, NfOK, ViewDiscipline, NoCoins, NoNullifiers

\* The steps that touch the coins of one transaction.
LEMMA CoinsStep ==
  ASSUME Coherent, TypeOK', NEW t \in Txids, NEW e, NEW p,
         KeyOK(e, p, dbCoins[t]),
         tipCoins' = [tipCoins EXCEPT ![t] = p],
         viewCoins' = [viewCoins EXCEPT ![t] = e],
         ~open => e = Absent,
         UNCHANGED <<db, tipNullifiers, tipBlock, viewNullifiers, viewBlock, open>>
  PROVE  Coherent'
<1> USE DEF db, TypeOK
<1>1. (\A u \in Txids : KeyOK(viewCoins[u], tipCoins[u], dbCoins[u]))'
  BY DEF Coherent
<1>2. (\A nf \in Nullifiers :
         NfOK(viewNullifiers[nf], tipNullifiers[nf], dbNullifiers[nf]))'
  BY DEF Coherent
<1>3. ViewDiscipline'
  BY DEF Coherent, ViewDiscipline, NoCoins
<1> QED
  BY <1>1, <1>2, <1>3 DEF Coherent

\* The steps that touch one nullifier.
LEMMA NullifierStep ==
  ASSUME Coherent, TypeOK', NEW n \in Nullifiers, NEW e, NEW p,
         NfOK(e, p, dbNullifiers[n]),
         tipNullifiers' = [tipNullifiers EXCEPT ![n] = p],
         viewNullifiers' = [viewNullifiers EXCEPT ![n] = e],
         ~open => e = Absent,
         UNCHANGED <<db, tipCoins, tipBlock, viewCoins, viewBlock, open>>
  PROVE  Coherent'
<1> USE DEF db, TypeOK
<1>1. (\A u \in Txids : KeyOK(viewCoins[u], tipCoins[u], dbCoins[u]))'
  BY DEF Coherent
<1>2. (\A nf \in Nullifiers :
         NfOK(viewNullifiers[nf], tipNullifiers[nf], dbNullifiers[nf]))'
  BY DEF Coherent
<1>3. ViewDiscipline'
  BY DEF Coherent, ViewDiscipline, NoNullifiers
<1> QED
  BY <1>1, <1>2, <1>3 DEF Coherent

\* What Coherent says of one nullifier.
LEMMA NfKey ==
  ASSUME Coherent, NEW n \in Nullifiers
  PROVE  /\ viewNullifiers[n] \in CNullifiersCacheEntry \cup {Absent}
         /\ tipNullifiers[n] \in CNullifiersCacheEntry \cup {Absent}
         /\ dbNullifiers[n] \in BOOLEAN
         /\ NfOK(viewNullifiers[n], tipNullifiers[n], dbNullifiers[n])
  BY DEF Coherent, TypeOK

\* What pcoinsTip holds for t once the view has asked keeps the key in order.
LEMMA AskedOK ==
  ASSUME Coherent, NEW t \in Txids
  PROVE  /\ TipAsked(t) \in CCoinsCacheEntry \cup {Absent}
         /\ KeyOK(viewCoins[t], TipAsked(t), dbCoins[t])
         /\ TipSees(TipAsked(t), dbCoins[t]) = TipSees(tipCoins[t], dbCoins[t])
         /\ viewCoins[t] = Absent /\ TipAsked(t) = Absent => dbCoins[t] = Absent
<1>1. TipAsked(t) \in CCoinsCacheEntry \cup {Absent}
  BY EntryTypes DEF TipAsked, Coherent, TypeOK, CCoins
<1>2. /\ KeyOK(viewCoins[t], TipAsked(t), dbCoins[t])
      /\ TipSees(TipAsked(t), dbCoins[t]) = TipSees(tipCoins[t], dbCoins[t])
  BY KeyRead DEF TipAsked, Coherent, TypeOK
<1>3. viewCoins[t] = Absent /\ TipAsked(t) = Absent => dbCoins[t] = Absent
  <2> SUFFICES ASSUME viewCoins[t] = Absent, dbCoins[t] # Absent
               PROVE  TipAsked(t) # Absent
    OBVIOUS
  <2>1. dbCoins[t] \in Coins
    BY DEF Coherent, TypeOK
  <2>2. [coins |-> dbCoins[t], dirty |-> FALSE, fresh |-> dbCoins[t] = Pruned]
          \in CCoinsCacheEntry
    BY <2>1 DEF CCoinsCacheEntry, CCoins
  <2> QED
    BY <2>2, CoinsAssumption DEF TipAsked, FetchCoins
<1> QED
  BY <1>1, <1>2, <1>3

\* Every call preserves the invariant.
LEMMA NextCoherent == Coherent /\ [Next]_vars => Coherent'
<1> SUFFICES ASSUME Coherent, [Next]_vars PROVE Coherent'
  OBVIOUS
<1>0. TypeOK /\ TypeOK'
  BY NextTypeOK DEF Coherent
<1>1. CASE TipFlush
  <2>1. (\A t \in Txids : KeyOK(viewCoins[t], tipCoins[t], dbCoins[t]))'
    BY <1>1 DEF TipFlush, Coherent, ViewDiscipline, NoCoins, KeyOK, view
  <2>2. (\A n \in Nullifiers : NfOK(viewNullifiers[n], tipNullifiers[n], dbNullifiers[n]))'
    BY <1>1 DEF TipFlush, Coherent, ViewDiscipline, NoNullifiers, NfOK, view
  <2>3. ViewDiscipline'
    BY <1>1 DEF TipFlush, Coherent, ViewDiscipline, view
  <2> QED
    BY <1>0, <2>1, <2>2, <2>3 DEF Coherent
<1>2. CASE BeginView
  BY <1>0, <1>2 DEF BeginView, BlockCompared, BestBlock, Coherent, ViewDiscipline, db
<1>3. CASE ViewFlush
  <2>1. (\A t \in Txids : KeyOK(viewCoins[t], tipCoins[t], dbCoins[t]))'
    BY <1>0, <1>3, KeyMerge DEF ViewFlush, ViewGone, NoCoins, Coherent, db, TypeOK
  <2>2. (\A n \in Nullifiers : NfOK(viewNullifiers[n], tipNullifiers[n], dbNullifiers[n]))'
    BY <1>0, <1>3, NfSteps DEF ViewFlush, ViewGone, NoNullifiers, Coherent, db, TypeOK
  <2>3. ViewDiscipline'
    BY <1>3 DEF ViewFlush, ViewGone, ViewDiscipline
  <2> QED
    BY <1>0, <2>1, <2>2, <2>3 DEF Coherent
<1>4. CASE ViewDrop \/ Crash
  <2>1. (\A t \in Txids : KeyOK(viewCoins[t], tipCoins[t], dbCoins[t]))'
    BY <1>4, KeyEmpty DEF ViewDrop, Crash, ViewGone, NoCoins, Coherent, db, tip
  <2>2. (\A n \in Nullifiers : NfOK(viewNullifiers[n], tipNullifiers[n], dbNullifiers[n]))'
    BY <1>4 DEF ViewDrop, Crash, ViewGone, NoNullifiers, Coherent, NfOK, db, tip
  <2>3. ViewDiscipline'
    BY <1>4 DEF ViewDrop, Crash, ViewGone, ViewDiscipline
  <2> QED
    BY <1>0, <2>1, <2>2, <2>3 DEF Coherent
<1>5. ASSUME NEW t \in Txids, TipAccessCoins(t) PROVE Coherent'
  <2>1. KeyOK(viewCoins[t], FetchCoins(tipCoins[t], dbCoins[t]), dbCoins[t])
    BY <1>0, KeyRead DEF Coherent, TypeOK
  <2>2. viewCoins' = [viewCoins EXCEPT ![t] = viewCoins[t]]
    BY <1>0, <1>5 DEF TipAccessCoins, view, TypeOK
  <2>3. ~open => viewCoins[t] = Absent
    BY DEF Coherent, ViewDiscipline, NoCoins
  <2> QED
    BY <1>0, <1>5, <2>1, <2>2, <2>3, CoinsStep DEF TipAccessCoins, db, view
<1>6. ASSUME NEW t \in Txids, ViewAccessCoins(t) PROVE Coherent'
  <2>1. KeyOK(FetchCoins(viewCoins[t], Answer(TipAsked(t))), TipAsked(t), dbCoins[t])
    BY <1>0, AskedOK, KeyRead DEF TypeOK
  <2> QED
    BY <1>0, <1>6, <2>1, CoinsStep DEF ViewAccessCoins
<1>7. ASSUME NEW t \in Txids, NEW c \in CCoins, ViewModifyCoins(t, c) PROVE Coherent'
  <2>1. KeyOK(Modified(viewCoins[t], Answer(TipAsked(t)), c), TipAsked(t), dbCoins[t])
    BY <1>0, AskedOK, KeyModify DEF TypeOK
  <2> QED
    BY <1>0, <1>7, <2>1, CoinsStep DEF ViewModifyCoins
<1>8. ASSUME NEW n \in Nullifiers, TipGetNullifier(n) PROVE Coherent'
  <2>1. NfOK(viewNullifiers[n], NullifierFetched(tipNullifiers[n], dbNullifiers[n]),
             dbNullifiers[n])
    BY <1>0, NfSteps DEF Coherent, TypeOK
  <2>2. viewNullifiers' = [viewNullifiers EXCEPT ![n] = viewNullifiers[n]]
    BY <1>0, <1>8 DEF TipGetNullifier, view, TypeOK
  <2>3. ~open => viewNullifiers[n] = Absent
    BY DEF Coherent, ViewDiscipline, NoNullifiers
  <2> QED
    BY <1>0, <1>8, <2>1, <2>2, <2>3, NullifierStep DEF TipGetNullifier, db, view
<1>9. ASSUME NEW n \in Nullifiers, ViewGetNullifier(n) PROVE Coherent'
  <2> DEFINE asked == NullifierFetched(tipNullifiers[n], dbNullifiers[n])
  <2>1. NfOK(NullifierFetched(viewNullifiers[n], asked.entered), asked, dbNullifiers[n])
    BY <1>0, <1>9, CoinsAssumption
    DEF ViewGetNullifier, Coherent, TypeOK, NfOK, NfTipSees, NullifierFetched,
        CNullifiersCacheEntry
  <2> QED
    BY <1>0, <1>9, <2>1, NullifierStep DEF ViewGetNullifier
<1>10. ASSUME NEW n \in Nullifiers, NEW spent \in BOOLEAN, ViewSetNullifier(n, spent)
       PROVE Coherent'
  <2>1. NfOK([entered |-> spent, dirty |-> TRUE], tipNullifiers[n], dbNullifiers[n])
    BY DEF Coherent, NfOK
  <2>2. tipNullifiers' = [tipNullifiers EXCEPT ![n] = tipNullifiers[n]]
    BY <1>0, <1>10 DEF ViewSetNullifier, tip, TypeOK
  <2> QED
    BY <1>0, <1>10, <2>1, <2>2, NullifierStep DEF ViewSetNullifier, tip
<1>11. ASSUME NEW h \in Blocks, ViewSetBestBlock(h) PROVE Coherent'
  BY <1>0, <1>11, CoinsAssumption DEF ViewSetBestBlock, Coherent, ViewDiscipline, db, tip
<1>12. CASE UNCHANGED vars
  BY <1>0, <1>12 DEF vars, db, tip, view, Coherent, ViewDiscipline
<1> QED
  BY <1>1, <1>2, <1>3, <1>4, <1>5, <1>6, <1>7, <1>8, <1>9, <1>10, <1>11, <1>12 DEF Next

\* Coherent is an invariant.
LEMMA SpecCoherent == Spec => []Coherent
  BY InitCoherent, NextCoherent, PTL DEF Spec

\* An entry without DIRTY equals the parent's version and under a FRESH
\* entry the parent has nothing unspent, in both caches (coins.h).
THEOREM FlagsSound == Spec => []FlagsTellTheTruth
<1>1. Coherent => FlagsTellTheTruth
  BY DEF Coherent, FlagsTellTheTruth, KeyOK, NfOK, TipSees, NfTipSees, TipUnspent,
         DbUnspent, TipSpent
<1> QED
  BY <1>1, SpecCoherent, PTL

\* The assertion in CCoinsViewCache::BatchWrite never fails.
THEOREM BatchWriteSafe == Spec => []BatchWriteAssertion
<1>1. Coherent => BatchWriteAssertion
  BY DEF Coherent, BatchWriteAssertion, KeyOK
<1> QED
  BY <1>1, SpecCoherent, PTL

\* pcoinsTip keeps no entry that is both new and empty.
THEOREM NoTrace == Spec => []NoUselessEntry
<1>1. Coherent => NoUselessEntry
  BY DEF Coherent, NoUselessEntry, KeyOK
<1> QED
  BY <1>1, SpecCoherent, PTL

-----------------------------------------------------------------------------
(* Refinement.                                                             *)

\* What the layers show, in the terms of the lemmas about one key.
LEMMA Shown ==
  /\ \A t \in Txids : /\ TipUnspent(t) = TipSees(tipCoins[t], dbCoins[t])
                      /\ ViewUnspent(t) = ViewSees(viewCoins[t], tipCoins[t], dbCoins[t])
  /\ \A n \in Nullifiers :
       /\ TipSpent(n) = NfTipSees(tipNullifiers[n], dbNullifiers[n])
       /\ ViewSpent(n) = NfViewSees(viewNullifiers[n], tipNullifiers[n], dbNullifiers[n])
  BY DEF TipUnspent, ViewUnspent, DbUnspent, TipSees, ViewSees, TipSpent, ViewSpent,
         NfTipSees, NfViewSees

\* Updating one field of the store's record.
LEMMA Fields ==
  ASSUME NEW s, NEW x,
         s = [coins |-> s.coins, nullifiers |-> s.nullifiers, best |-> s.best]
  PROVE  /\ [s EXCEPT !.coins = x]
              = [coins |-> x, nullifiers |-> s.nullifiers, best |-> s.best]
         /\ [s EXCEPT !.nullifiers = x]
              = [coins |-> s.coins, nullifiers |-> x, best |-> s.best]
         /\ [s EXCEPT !.best = x]
              = [coins |-> s.coins, nullifiers |-> s.nullifiers, best |-> x]
  OBVIOUS

\* The fields of what the view shows.
LEMMA ViewFields ==
  ViewState = [coins |-> ViewState.coins, nullifiers |-> ViewState.nullifiers,
               best |-> ViewState.best]
  BY DEF ViewState

\* The initial state is one of the store.
LEMMA InitStore == Init => Store!Init
<1> SUFFICES ASSUME Init PROVE Store!Init
  OBVIOUS
<1> USE DEF Init, NoCoins, NoNullifiers
<1>1. DbState = Store!Empty
  BY DEF DbState, DbUnspent, Unspent, Store!Empty
<1>2. TipState = Store!Empty
  BY DEF TipState, TipUnspent, TipSpent, BestBlock, DbUnspent, Unspent, Store!Empty
<1>3. ViewState = Store!Empty
  BY DEF ViewState, ViewUnspent, ViewSpent, TipUnspent, TipSpent, BestBlock, DbUnspent,
         Unspent, Store!Empty
<1> QED
  BY <1>1, <1>2, <1>3 DEF Store!Init

\* A step that leaves the database, the coins and nullifiers that pcoinsTip
\* shows and the best block alone leaves the two lower states alone.
LEMMA LowerSame ==
  ASSUME UNCHANGED db, UNCHANGED BestBlock(tipBlock, dbBlock),
         \A t \in Txids : TipUnspent(t)' = TipUnspent(t),
         \A n \in Nullifiers : TipSpent(n)' = TipSpent(n)
  PROVE  UNCHANGED <<DbState, TipState>>
  BY DEF db, DbState, TipState, DbUnspent

\* Every call is a step of the store, or invisible in it.
LEMMA NextStore == Coherent /\ [Next]_vars => [Store!Next]_Store!vars
<1> SUFFICES ASSUME Coherent, [Next]_vars PROVE [Store!Next]_Store!vars
  OBVIOUS
<1>0. TypeOK /\ TypeOK'
  BY NextTypeOK DEF Coherent
<1>1. CASE TipFlush
  <2>1. DbState' = TipState
    <3>1. \A t \in Txids : DbUnspent(t)' = TipUnspent(t)
      <4> TAKE t \in Txids
      <4>1. KeyOK(Absent, tipCoins[t], dbCoins[t])
        BY KeyEmpty DEF Coherent
      <4>2. Unspent(CoinsWritten(tipCoins[t], dbCoins[t])) = TipSees(tipCoins[t], dbCoins[t])
        BY <1>0, <4>1, KeyWrite DEF TypeOK
      <4> QED
        BY <1>1, <4>2, Shown DEF TipFlush, DbUnspent
    <3>2. \A n \in Nullifiers : dbNullifiers'[n] = TipSpent(n)
      <4> TAKE n \in Nullifiers
      <4>1. NullifierWritten(tipNullifiers[n], dbNullifiers[n])
              = NfTipSees(tipNullifiers[n], dbNullifiers[n])
        BY NfKey, NfSteps
      <4> QED
        BY <1>1, <4>1, Shown DEF TipFlush
    <3> QED
      BY <1>1, <3>1, <3>2 DEF TipFlush, DbState, TipState
  <2>2. TipState' = DbState'
    BY <1>1, CoinsAssumption
    DEF TipFlush, DbState, TipState, TipUnspent, TipSpent, NoCoins, NoNullifiers, BestBlock
  <2>3. ViewState' = TipState' /\ ViewState = TipState
    BY <1>1 DEF TipFlush, ViewState, TipState, ViewUnspent, ViewSpent, Coherent,
                ViewDiscipline, NoCoins, NoNullifiers, view
  <2> QED
    BY <1>1, <2>1, <2>2, <2>3 DEF TipFlush, Store!Next, Store!Persist
<1>2. CASE BeginView
  <2>1. UNCHANGED <<DbState, TipState>>
    BY <1>2, LowerSame DEF BeginView, BestBlock, TipUnspent, TipSpent, DbUnspent, db
  <2>2. UNCHANGED ViewState
    BY <1>2 DEF BeginView, BestBlock, BlockCompared, ViewState, ViewUnspent, ViewSpent,
                TipUnspent, TipSpent, DbUnspent, db
  <2> QED
    BY <1>2, <2>1, <2>2 DEF BeginView, Store!Next, Store!Begin
<1>3. CASE ViewFlush
  <2>1. TipState' = ViewState
    <3>1. \A t \in Txids : TipUnspent(t)' = ViewUnspent(t)
      <4> TAKE t \in Txids
      <4>1. TipSees(CoinsMerged(viewCoins[t], tipCoins[t]), dbCoins[t])
              = ViewSees(viewCoins[t], tipCoins[t], dbCoins[t])
        BY <1>0, KeyMerge DEF Coherent, TypeOK
      <4> QED
        BY <1>3, <4>1, Shown DEF ViewFlush, TipUnspent, DbUnspent, TipSees, db
    <3>2. \A n \in Nullifiers : TipSpent(n)' = ViewSpent(n)
      <4> TAKE n \in Nullifiers
      <4>1. NfTipSees(NullifierMerged(viewNullifiers[n], tipNullifiers[n]), dbNullifiers[n])
              = NfViewSees(viewNullifiers[n], tipNullifiers[n], dbNullifiers[n])
        BY <1>0, NfSteps DEF Coherent, TypeOK
      <4> QED
        BY <1>3, <4>1, Shown DEF ViewFlush, TipSpent, NfTipSees, db
    <3>3. BestBlock(tipBlock, dbBlock)' = viewBlock
      BY <1>3 DEF ViewFlush, BestBlock, Coherent, ViewDiscipline, db
    <3> QED
      BY <1>3, <3>1, <3>2, <3>3 DEF ViewFlush, TipState, ViewState
  <2>2. ViewState' = TipState'
    BY <1>3 DEF ViewFlush, ViewGone, ViewState, TipState, ViewUnspent, ViewSpent,
                NoCoins, NoNullifiers
  <2>3. UNCHANGED DbState
    BY <1>3 DEF ViewFlush, DbState, DbUnspent, db
  <2> QED
    BY <1>3, <2>1, <2>2, <2>3 DEF ViewFlush, ViewGone, Store!Next, Store!Commit
<1>4. CASE ViewDrop
  <2>1. UNCHANGED <<DbState, TipState>>
    BY <1>4, LowerSame DEF ViewDrop, TipUnspent, TipSpent, DbUnspent, db, tip
  <2>2. ViewState' = TipState'
    BY <1>4 DEF ViewDrop, ViewGone, ViewState, TipState, ViewUnspent, ViewSpent,
                NoCoins, NoNullifiers
  <2> QED
    BY <1>4, <2>1, <2>2 DEF ViewDrop, ViewGone, Store!Next, Store!Rollback
<1>5. CASE Crash
  <2>1. UNCHANGED DbState
    BY <1>5 DEF Crash, DbState, DbUnspent, db
  <2>2. TipState' = DbState'
    BY <1>5 DEF Crash, DbState, TipState, TipUnspent, TipSpent, NoCoins, NoNullifiers,
                BestBlock
  <2>3. ViewState' = TipState'
    BY <1>5 DEF Crash, ViewGone, ViewState, TipState, ViewUnspent, ViewSpent,
                NoCoins, NoNullifiers
  <2> QED
    BY <1>5, <2>1, <2>2, <2>3 DEF Crash, ViewGone, Store!Next, Store!Crash
<1>6. ASSUME NEW t \in Txids, TipAccessCoins(t) PROVE UNCHANGED Store!vars
  <2>1. \A u \in Txids : TipUnspent(u)' = TipUnspent(u)
    <3>1. TipSees(FetchCoins(tipCoins[t], dbCoins[t]), dbCoins[t])
            = TipSees(tipCoins[t], dbCoins[t])
      BY <1>0, KeyRead DEF Coherent, TypeOK
    <3> QED
      BY <1>0, <1>6, <3>1 DEF TipAccessCoins, TipUnspent, DbUnspent, TipSees, TypeOK, db
  <2>2. UNCHANGED <<DbState, TipState>>
    BY <1>6, <2>1, LowerSame DEF TipAccessCoins, TipSpent, db, BestBlock
  <2>3. UNCHANGED ViewState
    BY <1>6, <2>1 DEF TipAccessCoins, ViewState, ViewUnspent, ViewSpent, TipSpent, db,
                      view, BestBlock
  <2> QED
    BY <1>6, <2>2, <2>3 DEF TipAccessCoins, Store!vars
<1>7. ASSUME NEW t \in Txids, ViewAccessCoins(t) PROVE UNCHANGED Store!vars
  <2>1. \A u \in Txids : TipUnspent(u)' = TipUnspent(u)
    BY <1>0, <1>7, AskedOK
    DEF ViewAccessCoins, TipUnspent, DbUnspent, TipSees, TypeOK, db
  <2>2. UNCHANGED <<DbState, TipState>>
    BY <1>7, <2>1, LowerSame DEF ViewAccessCoins, TipSpent, db, BestBlock
  <2>3. \A u \in Txids : ViewUnspent(u)' = ViewUnspent(u)
    <3>1. ViewSees(FetchCoins(viewCoins[t], Answer(TipAsked(t))), TipAsked(t), dbCoins[t])
            = ViewSees(viewCoins[t], TipAsked(t), dbCoins[t])
      BY <1>0, AskedOK, KeyRead DEF TypeOK
    <3>2. ViewUnspent(t)' = ViewUnspent(t)
      BY <1>0, <1>7, <3>1, AskedOK
      DEF ViewAccessCoins, ViewUnspent, TipUnspent, DbUnspent, ViewSees, TipSees, TypeOK, db
    <3> QED
      BY <1>0, <1>7, <2>1, <3>2 DEF ViewAccessCoins, ViewUnspent, TypeOK
  <2>4. UNCHANGED ViewState
    BY <1>7, <2>3 DEF ViewAccessCoins, ViewState, ViewSpent, TipSpent, db, BestBlock
  <2> QED
    BY <1>7, <2>2, <2>4 DEF ViewAccessCoins, Store!vars
<1>8. ASSUME NEW t \in Txids, NEW c \in CCoins, ViewModifyCoins(t, c)
      PROVE  Store!SetCoins(t, c)
  <2>1. \A u \in Txids : TipUnspent(u)' = TipUnspent(u)
    BY <1>0, <1>8, AskedOK
    DEF ViewModifyCoins, TipUnspent, DbUnspent, TipSees, TypeOK, db
  <2>2. UNCHANGED <<DbState, TipState>>
    BY <1>8, <2>1, LowerSame DEF ViewModifyCoins, TipSpent, db, BestBlock
  <2>3. ViewUnspent(t)' = c
    <3>1. ViewSees(Modified(viewCoins[t], Answer(TipAsked(t)), c), TipAsked(t), dbCoins[t])
            = c
      <4>1. viewCoins[t] \in CCoinsCacheEntry \cup {Absent}
        BY <1>0 DEF TypeOK
      <4>2. dbCoins[t] \in Coins \cup {Absent}
        BY <1>0 DEF TypeOK
      <4> QED
        BY <4>1, <4>2, AskedOK, KeyModify
    <3> QED
      BY <1>0, <1>8, <3>1
      DEF ViewModifyCoins, ViewUnspent, TipUnspent, DbUnspent, ViewSees, TipSees, TypeOK, db
  <2>4. \A u \in Txids \ {t} : ViewUnspent(u)' = ViewUnspent(u)
    BY <1>0, <1>8, <2>1 DEF ViewModifyCoins, ViewUnspent, TypeOK
  <2>5. [u \in Txids |-> ViewUnspent(u)'] = [ViewState.coins EXCEPT ![t] = c]
    BY <2>3, <2>4 DEF ViewState
  <2>6. ViewState' = [ViewState EXCEPT !.coins = [@ EXCEPT ![t] = c]]
    <3> DEFINE C == [ViewState.coins EXCEPT ![t] = c]
    <3>1. ViewState' = [coins |-> C, nullifiers |-> ViewState.nullifiers,
                        best |-> ViewState.best]
      BY <1>8, <2>5 DEF ViewModifyCoins, ViewState, ViewSpent, TipSpent, db, BestBlock
    <3>2. [ViewState EXCEPT !.coins = C]
            = [coins |-> C, nullifiers |-> ViewState.nullifiers, best |-> ViewState.best]
      BY Fields, ViewFields
    <3> QED
      BY <3>1, <3>2
  <2> QED
    BY <1>8, <2>2, <2>6 DEF ViewModifyCoins, Store!SetCoins
<1>9. ASSUME NEW n \in Nullifiers, TipGetNullifier(n) PROVE UNCHANGED Store!vars
  <2>1. \A m \in Nullifiers : TipSpent(m)' = TipSpent(m)
    <3>1. NfTipSees(NullifierFetched(tipNullifiers[n], dbNullifiers[n]), dbNullifiers[n])
            = NfTipSees(tipNullifiers[n], dbNullifiers[n])
      BY NfKey, NfSteps
    <3> QED
      BY <1>0, <1>9, <3>1 DEF TipGetNullifier, TipSpent, NfTipSees, TypeOK, db
  <2>2. UNCHANGED <<DbState, TipState>>
    BY <1>9, <2>1, LowerSame DEF TipGetNullifier, TipUnspent, DbUnspent, db, BestBlock
  <2>3. UNCHANGED ViewState
    BY <1>9, <2>1 DEF TipGetNullifier, ViewState, ViewUnspent, ViewSpent, TipUnspent,
                      DbUnspent, db, view, BestBlock
  <2> QED
    BY <1>9, <2>2, <2>3 DEF TipGetNullifier, Store!vars
<1>10. ASSUME NEW n \in Nullifiers, ViewGetNullifier(n) PROVE UNCHANGED Store!vars
  <2>1. \A m \in Nullifiers : TipSpent(m)' = TipSpent(m)
    <3>1. NfTipSees(NullifierFetched(tipNullifiers[n], dbNullifiers[n]), dbNullifiers[n])
            = NfTipSees(tipNullifiers[n], dbNullifiers[n])
      BY NfKey, NfSteps
    <3> QED
      BY <1>0, <1>10, <3>1 DEF ViewGetNullifier, TipSpent, NfTipSees, TypeOK, db
  <2>2. UNCHANGED <<DbState, TipState>>
    BY <1>10, <2>1, LowerSame DEF ViewGetNullifier, TipUnspent, DbUnspent, db, BestBlock
  <2>3. \A m \in Nullifiers : ViewSpent(m)' = ViewSpent(m)
    BY <1>0, <1>10, <2>1, CoinsAssumption
    DEF ViewGetNullifier, ViewSpent, TipSpent, NullifierFetched, TypeOK, CNullifiersCacheEntry
  <2>4. UNCHANGED ViewState
    BY <1>10, <2>3 DEF ViewGetNullifier, ViewState, ViewUnspent, TipUnspent, DbUnspent, db,
                       BestBlock
  <2> QED
    BY <1>10, <2>2, <2>4 DEF ViewGetNullifier, Store!vars
<1>11. ASSUME NEW n \in Nullifiers, NEW spent \in BOOLEAN, ViewSetNullifier(n, spent)
       PROVE  Store!SetNullifier(n, spent)
  <2>1. UNCHANGED <<DbState, TipState>>
    BY <1>11, LowerSame
    DEF ViewSetNullifier, TipUnspent, DbUnspent, TipSpent, db, tip, BestBlock
  <2>2. /\ ViewSpent(n)' = spent
        /\ \A m \in Nullifiers \ {n} : ViewSpent(m)' = ViewSpent(m)
    <3>1. [entered |-> spent, dirty |-> TRUE] # Absent
      <4>1. [entered |-> spent, dirty |-> TRUE] \in CNullifiersCacheEntry
        BY DEF CNullifiersCacheEntry
      <4> QED
        BY <4>1, CoinsAssumption
    <3>2. viewNullifiers'[n] = [entered |-> spent, dirty |-> TRUE]
      BY <1>0, <1>11 DEF ViewSetNullifier, TypeOK
    <3>3. \A m \in Nullifiers \ {n} : viewNullifiers'[m] = viewNullifiers[m]
      BY <1>0, <1>11 DEF ViewSetNullifier, TypeOK
    <3> QED
      BY <1>11, <3>1, <3>2, <3>3 DEF ViewSetNullifier, ViewSpent, TipSpent, db, tip
  <2>3. {m \in Nullifiers : ViewSpent(m)'}
          = IF spent THEN ViewState.nullifiers \cup {n} ELSE ViewState.nullifiers \ {n}
    BY <2>2 DEF ViewState
  <2>4. ViewState' = [ViewState EXCEPT !.nullifiers =
                        IF spent THEN @ \cup {n} ELSE @ \ {n}]
    <3> DEFINE N == IF spent THEN ViewState.nullifiers \cup {n}
                    ELSE ViewState.nullifiers \ {n}
    <3>1. ViewState' = [coins |-> ViewState.coins, nullifiers |-> N, best |-> ViewState.best]
      BY <1>11, <2>3
      DEF ViewSetNullifier, ViewState, ViewUnspent, TipUnspent, DbUnspent, db, tip, BestBlock
    <3>2. [ViewState EXCEPT !.nullifiers = N]
            = [coins |-> ViewState.coins, nullifiers |-> N, best |-> ViewState.best]
      BY Fields, ViewFields
    <3> QED
      BY <3>1, <3>2
  <2> QED
    BY <1>11, <2>1, <2>4 DEF ViewSetNullifier, Store!SetNullifier
<1>12. ASSUME NEW h \in Blocks, ViewSetBestBlock(h) PROVE Store!SetBest(h)
  <2>1. UNCHANGED <<DbState, TipState>>
    BY <1>12, LowerSame
    DEF ViewSetBestBlock, TipUnspent, DbUnspent, TipSpent, db, tip, BestBlock
  <2>2. ViewState' = [ViewState EXCEPT !.best = h]
    <3>1. ViewState' = [coins |-> ViewState.coins, nullifiers |-> ViewState.nullifiers,
                        best |-> h]
      BY <1>12 DEF ViewSetBestBlock, ViewState, ViewUnspent, ViewSpent, TipUnspent, TipSpent,
                   DbUnspent, db, tip
    <3> QED
      BY <3>1, Fields, ViewFields
  <2> QED
    BY <1>12, <2>1, <2>2 DEF ViewSetBestBlock, Store!SetBest
<1>13. CASE UNCHANGED vars
  BY <1>13 DEF vars, db, tip, view, Store!vars, DbState, TipState, ViewState, DbUnspent,
               TipUnspent, ViewUnspent, TipSpent, ViewSpent, BestBlock
<1> QED
  BY <1>1, <1>2, <1>3, <1>4, <1>5, <1>6, <1>7, <1>8, <1>9, <1>10, <1>11, <1>12, <1>13
  DEF Next, Store!Next, CCoins

\* The stack of views implements the store: what the layers show changes
\* only by whole commits, and a crash falls back to a state that was once
\* committed and written as a whole.
THEOREM StoreImplemented == Spec => ImplementsStore
  BY InitStore, NextStore, SpecCoherent, PTL DEF Spec, ImplementsStore, Store!Spec
=============================================================================
