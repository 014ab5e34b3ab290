----------------------------- MODULE CoinsCache -----------------------------
(***************************************************************************)
(* CCoinsViewCache (src/coins.h, src/coins.cpp): the write-back caches of  *)
(* unspent outputs that stand between block validation and the coins       *)
(* database.  The node stacks them two deep: CoinsTip() over the database  *)
(* and a short-lived view over CoinsTip() that ConnectTip, DisconnectTip   *)
(* and the mempool fill and then flush or drop.  cs_main serialises all    *)
(* users, and only the top of the stack is written.                        *)
(*                                                                         *)
(* The database is written here in one step; its partial batches and       *)
(* crashes are the subject of ChainStorage.                                *)
(***************************************************************************)
EXTENDS Integers, FiniteSets, Functions

CONSTANTS
  Outpoint,     \* COutPoint
  Coin,         \* unspent Coin values
  Unspendable,  \* the coins whose scriptPubKey.IsUnspendable()
  MemUsage,     \* Coin::DynamicMemoryUsage
  Spent,        \* a coin with IsSpent()
  Absent,       \* no entry in cacheCoins
  Hash,         \* block hashes
  Null          \* uint256::IsNull()

ASSUME CoinAssumption ==
  /\ IsFiniteSet(Outpoint)
  /\ Unspendable \subseteq Coin
  /\ Spent \notin Coin
  /\ MemUsage \in [Coin -> Nat]

ASSUME HashAssumption == Null \notin Hash

VARIABLES
  coins,             \* CCoinsViewDB: every outpoint's coin, Spent when there is no record
  cacheCoins,        \* the entries of the two caches
  cachedCoinsUsage,  \* the running memory count of each cache
  hashBlock,         \* best block of the database and of the two caches
  open,              \* the view over CoinsTip() exists
  ret,               \* the coin the last lookup or spend handed out
  thrown             \* a std::logic_error left the cache

vars == <<coins, cacheCoins, cachedCoinsUsage, hashBlock, open, ret, thrown>>

Layer == {"tip", "view"}
Value == Coin \cup {Spent}

\* CCoinsCacheEntry
Entry == [coin : Value, dirty : BOOLEAN, fresh : BOOLEAN]
Empty == [o \in Outpoint |-> Absent]

ASSUME AbsentAssumption == Absent \notin Entry

MakeEntry(c, dirty, fresh) == [coin |-> c, dirty |-> dirty, fresh |-> fresh]

\* What a cache with entry e over a base with coin b shows for an outpoint.
Show(e, b) == IF e = Absent THEN b ELSE e.coin

TipMap == [o \in Outpoint |-> Show(cacheCoins["tip"][o], coins[o])]
ViewMap == [o \in Outpoint |-> Show(cacheCoins["view"][o], TipMap[o])]

Top == IF open THEN "view" ELSE "tip"
BaseMap == IF open THEN TipMap ELSE coins
TopMap == IF open THEN ViewMap ELSE TipMap

Usage(c) == IF c = Spent THEN 0 ELSE MemUsage[c]
EntryUsage(e) == IF e = Absent THEN 0 ELSE Usage(e.coin)

-----------------------------------------------------------------------------
(* Cache operations as functions of one outpoint's entry e.                 *)

\* FetchCoin: a miss copies the base's coin b in as a clean entry.  GetCoin of
\* the base never returns a spent coin, so the FRESH branch is dead.
Fetch(e, b) ==
  IF e = Absent /\ b # Spent THEN MakeEntry(b, FALSE, FALSE) ELSE e

\* Mutant: FRESH even where an overwrite is possible.
AddedFresh(e, c, possible_overwrite) ==
  MakeEntry(c, TRUE, (e # Absent /\ e.fresh) \/ e = Absent \/ ~e.dirty)

\* The entry AddCoin leaves behind.
Added(e, c, possible_overwrite) ==
  MakeEntry(c, TRUE,
    \/ e # Absent /\ e.fresh
    \/ ~possible_overwrite /\ (e = Absent \/ ~e.dirty))

\* AddCoin refuses to overwrite an unspent coin it can see in this cache.
AddThrows(e, c, possible_overwrite) ==
  c \notin Unspendable /\ ~possible_overwrite /\ e # Absent /\ e.coin # Spent

\* Mutant: a spent FRESH entry is kept.
SpentKept(e) == IF e = Absent THEN Absent ELSE MakeEntry(Spent, TRUE, e.fresh)

\* The entry SpendCoin leaves behind.
SpentEntry(e) ==
  IF e = Absent \/ e.fresh THEN Absent ELSE MakeEntry(Spent, TRUE, FALSE)

\* Mutant: the child's FRESH flag is passed on to an entry the parent has.
MergeFresh(p, e) ==
  IF e = Absent \/ ~e.dirty THEN p
  ELSE IF p # Absent /\ p.fresh /\ e.coin = Spent THEN Absent
       ELSE MakeEntry(e.coin, TRUE, e.fresh \/ (p # Absent /\ p.fresh))

\* One entry e of the child written over the parent's entry p.
Merge(p, e) ==
  IF e = Absent \/ ~e.dirty THEN p
  ELSE IF p = Absent
       THEN IF e.fresh /\ e.coin = Spent THEN Absent ELSE MakeEntry(e.coin, TRUE, e.fresh)
       ELSE IF p.fresh /\ e.coin = Spent THEN Absent ELSE MakeEntry(e.coin, TRUE, p.fresh)

MergeThrows(p, e) ==
  e # Absent /\ e.dirty /\ e.fresh /\ p # Absent /\ p.coin # Spent

\* CCoinsViewDB::BatchWrite: dirty entries are written, spent ones erased.
Write(old, e) == IF e # Absent /\ e.dirty THEN e.coin ELSE old

\* AccessCoin: the coin of the entry found, coinEmpty where none was.
CoinOf(e) == IF e = Absent THEN Spent ELSE e.coin

\* The entries in the list of flagged entries, from m_sentinel on.
Flagged(e) == e # Absent /\ (e.dirty \/ e.fresh)

\* NextAndMaybeErase of a cursor that keeps the map: flagged entries that are
\* spent are erased, the others become clean.
Synced(e) ==
  IF ~Flagged(e) THEN e
  ELSE IF e.coin = Spent THEN Absent ELSE MakeEntry(e.coin, FALSE, FALSE)

\* Mutant: an entry erased from the parent stays in its count.
MergeUsageKept(p, e) ==
  IF e = Absent \/ ~e.dirty \/ e.coin = Spent THEN 0
  ELSE (IF p = Absent THEN 0 ELSE -Usage(p.coin)) + Usage(e.coin)

\* What BatchWrite adds to the parent's running count for one entry.
MergeUsage(p, e) ==
  IF e = Absent \/ ~e.dirty \/ (p = Absent /\ e.fresh /\ e.coin = Spent) THEN 0
  ELSE (IF p = Absent THEN 0 ELSE -Usage(p.coin))
       + (IF p # Absent /\ p.fresh /\ e.coin = Spent THEN 0 ELSE Usage(e.coin))

-----------------------------------------------------------------------------
Init ==
  /\ coins = [o \in Outpoint |-> Spent]
  /\ cacheCoins = [l \in Layer |-> Empty]
  /\ cachedCoinsUsage = [l \in Layer |-> 0]
  /\ hashBlock = [l \in {"db", "tip", "view"} |-> Null]
  /\ open = FALSE
  /\ ret = Spent
  /\ thrown = FALSE

\* The caches after FetchCoin(o) at the top: a miss in the view asks CoinsTip(),
\* whose own miss asks the database.
Fetched(o) ==
  [cacheCoins EXCEPT
    !["tip"][o] = IF open /\ cacheCoins["view"][o] # Absent THEN @ ELSE Fetch(@, coins[o]),
    !["view"][o] = IF open THEN Fetch(@, TipMap[o]) ELSE @]

\* FetchCoin counts the coin it copied in.
FetchedUsage(o) ==
  [l \in Layer |->
    IF cacheCoins[l][o] = Absent
    THEN cachedCoinsUsage[l] + EntryUsage(Fetched(o)[l][o])
    ELSE cachedCoinsUsage[l]]

\* GetCoin, HaveCoin, AccessCoin: a read that leaves entries behind.
GetCoin(o) ==
  /\ cacheCoins' = Fetched(o)
  /\ cachedCoinsUsage' = FetchedUsage(o)
  /\ ret' = CoinOf(Fetched(o)[Top][o])
  /\ UNCHANGED <<coins, hashBlock, open, thrown>>

\* AddCoin over the caches cs with running counts us.
AddCoin(cs, us, o, c, possible_overwrite) ==
  LET e == cs[Top][o] IN
  /\ thrown' = (thrown \/ AddThrows(e, c, possible_overwrite))
  /\ IF c \in Unspendable \/ AddThrows(e, c, possible_overwrite)
     THEN cacheCoins' = cs /\ cachedCoinsUsage' = us
     ELSE /\ cacheCoins' = [cs EXCEPT ![Top][o] = Added(e, c, possible_overwrite)]
          /\ cachedCoinsUsage' =
               [us EXCEPT ![Top] = @ - (IF e = Absent THEN 0 ELSE Usage(e.coin)) + Usage(c)]

\* AddCoins, for one output.  With check_for_overwrite (a replay) and in
\* ApplyTxInUndo, HaveCoin decides whether AddCoin may overwrite; otherwise only a
\* coinbase may.  Validation adds another transaction's output only where the view
\* has no coin: BIP30 and the uniqueness of txids see to it.
AddCoins(o, c, check_for_overwrite, fCoinbase) ==
  /\ check_for_overwrite \/ fCoinbase \/ TopMap[o] = Spent
  /\ IF check_for_overwrite
     THEN AddCoin(Fetched(o), FetchedUsage(o), o, c, TopMap[o] # Spent)
     ELSE AddCoin(cacheCoins, cachedCoinsUsage, o, c, fCoinbase)
  /\ UNCHANGED <<coins, hashBlock, open, ret>>

\* EmplaceCoinInternalDANGER: a snapshot's coins go straight into CoinsTip().
EmplaceCoinInternalDANGER(o, c) ==
  /\ ~open
  /\ cacheCoins["tip"][o] = Absent
  /\ cacheCoins' = [cacheCoins EXCEPT !["tip"][o] = MakeEntry(c, TRUE, FALSE)]
  /\ cachedCoinsUsage' = [cachedCoinsUsage EXCEPT !["tip"] = @ + Usage(c)]
  /\ UNCHANGED <<coins, hashBlock, open, ret, thrown>>

\* SpendCoin, with moveout.
SpendCoin(o) ==
  LET e == Fetched(o)[Top][o] IN
  /\ ret' = CoinOf(e)
  /\ cacheCoins' = [Fetched(o) EXCEPT ![Top][o] = SpentEntry(e)]
  /\ cachedCoinsUsage' = [FetchedUsage(o) EXCEPT ![Top] = @ - EntryUsage(e)]
  /\ UNCHANGED <<coins, hashBlock, open, thrown>>

\* Uncache drops an entry the base can give back; only CoinsTip() is trimmed so.
Uncache(o) ==
  LET e == cacheCoins["tip"][o] IN
  /\ ~open
  /\ e # Absent /\ ~e.dirty /\ ~e.fresh
  /\ cacheCoins' = [cacheCoins EXCEPT !["tip"][o] = Absent]
  /\ cachedCoinsUsage' = [cachedCoinsUsage EXCEPT !["tip"] = @ - Usage(e.coin)]
  /\ UNCHANGED <<coins, hashBlock, open, ret, thrown>>

\* GetBestBlock fills a null hashBlock from the base, at every layer it passes.
TipBest == IF hashBlock["tip"] = Null THEN hashBlock["db"] ELSE hashBlock["tip"]
ViewBest == IF hashBlock["view"] = Null THEN TipBest ELSE hashBlock["view"]

GetBestBlock ==
  /\ hashBlock' =
       [hashBlock EXCEPT
         !["tip"] = IF open /\ hashBlock["view"] # Null THEN @ ELSE TipBest,
         !["view"] = IF open THEN ViewBest ELSE @]
  /\ UNCHANGED <<coins, cacheCoins, cachedCoinsUsage, open, ret, thrown>>

SetBestBlock(h) ==
  /\ hashBlock' = [hashBlock EXCEPT ![Top] = h]
  /\ UNCHANGED <<coins, cacheCoins, cachedCoinsUsage, open, ret, thrown>>

\* The view is constructed over CoinsTip().
OpenView ==
  /\ ~open
  /\ open' = TRUE
  /\ UNCHANGED <<coins, cacheCoins, cachedCoinsUsage, hashBlock, ret, thrown>>

\* The view goes out of scope, flushed or not.
CloseView ==
  /\ open
  /\ open' = FALSE
  /\ cacheCoins' = [cacheCoins EXCEPT !["view"] = Empty]
  /\ cachedCoinsUsage' = [cachedCoinsUsage EXCEPT !["view"] = 0]
  /\ hashBlock' = [hashBlock EXCEPT !["view"] = Null]
  /\ UNCHANGED <<coins, ret, thrown>>

\* Flush of the view: BatchWrite into CoinsTip().  ConnectBlock and
\* DisconnectBlock have set the view's best block by then.  A logic_error ends
\* the program, so what it leaves half written is not looked at again.
FlushView ==
  LET tip == cacheCoins["tip"]
      view == cacheCoins["view"]
      throws == \E o \in Outpoint : MergeThrows(tip[o], view[o])
  IN
  /\ open
  /\ hashBlock["view"] # Null
  /\ thrown' = (thrown \/ throws)
  /\ IF throws
     THEN UNCHANGED <<cacheCoins, cachedCoinsUsage, hashBlock>>
     ELSE /\ cacheCoins' =
               [cacheCoins EXCEPT
                 !["tip"] = [o \in Outpoint |-> Merge(tip[o], view[o])],
                 !["view"] = Empty]
          /\ cachedCoinsUsage' =
               [cachedCoinsUsage EXCEPT
                 !["tip"] = @ + SumFunction([o \in Outpoint |-> MergeUsage(tip[o], view[o])]),
                 !["view"] = 0]
          /\ hashBlock' = [hashBlock EXCEPT !["tip"] = hashBlock["view"]]
  /\ UNCHANGED <<coins, open, ret>>

\* FlushStateToDisk skips the coins while CoinsTip().GetBestBlock() is null.
WriteTip ==
  /\ ~open
  /\ TipBest # Null
  /\ coins' = [o \in Outpoint |-> Write(coins[o], cacheCoins["tip"][o])]
  /\ hashBlock' = [hashBlock EXCEPT !["tip"] = TipBest, !["db"] = TipBest]
  /\ UNCHANGED <<open, ret>>

\* Flush of CoinsTip() into the database empties the cache.
FlushTip ==
  /\ WriteTip
  /\ cacheCoins' = [cacheCoins EXCEPT !["tip"] = Empty]
  /\ cachedCoinsUsage' = [cachedCoinsUsage EXCEPT !["tip"] = 0]
  /\ UNCHANGED thrown

\* Sync of CoinsTip() writes the same and keeps the unspent entries.  It throws
\* if a flagged entry is left.
SyncTip ==
  /\ WriteTip
  /\ cacheCoins' =
       [cacheCoins EXCEPT !["tip"] = [o \in Outpoint |-> Synced(cacheCoins["tip"][o])]]
  /\ thrown' = (thrown \/ \E o \in Outpoint : Flagged(Synced(cacheCoins["tip"][o])))
  /\ UNCHANGED cachedCoinsUsage

Next ==
  \/ \E o \in Outpoint : GetCoin(o) \/ SpendCoin(o) \/ Uncache(o)
  \/ \E o \in Outpoint, c \in Coin, check, cb \in BOOLEAN : AddCoins(o, c, check, cb)
  \/ \E o \in Outpoint, c \in Coin \ Unspendable : EmplaceCoinInternalDANGER(o, c)
  \/ GetBestBlock
  \/ \E h \in Hash : SetBestBlock(h)
  \/ OpenView
  \/ CloseView
  \/ FlushView
  \/ FlushTip
  \/ SyncTip

Spec == Init /\ [][Next]_vars
-----------------------------------------------------------------------------
\* Whatever FetchCoin, AddCoin, SpendCoin and BatchWrite leave in either cache is
\* a CCoinsCacheEntry, and what they return is a coin.
TypeOK ==
  /\ coins \in [Outpoint -> Value]
  /\ cacheCoins \in [Layer -> [Outpoint -> Entry \cup {Absent}]]
  /\ DOMAIN cachedCoinsUsage = Layer
  /\ hashBlock \in [{"db", "tip", "view"} -> Hash \cup {Null}]
  /\ open \in BOOLEAN
  /\ ret \in Value
  /\ thrown \in BOOLEAN

\* Neither of the cache's logic_errors, "Attempted to overwrite an unspent coin"
\* (AddCoin) and "FRESH flag misapplied" (BatchWrite), is ever reached.
NoLogicError == ~thrown

\* What an entry must be over the base's coin b: a clean entry repeats the base's
\* unspent coin, so dropping it loses nothing; a FRESH entry is dirty and unspent,
\* and the base has no coin, so erasing it on a spend loses nothing.
EntryOK(e, b) ==
  e # Absent =>
    /\ ~e.dirty => ~e.fresh /\ e.coin # Spent /\ e.coin = b
    /\ e.fresh => e.coin # Spent /\ b = Spent

\* The DIRTY and FRESH flags of both caches mean what coins.h says they mean, and
\* a view that is not in scope holds nothing.
Coherent ==
  /\ \A o \in Outpoint :
       /\ EntryOK(cacheCoins["tip"][o], coins[o])
       /\ EntryOK(cacheCoins["view"][o], TipMap[o])
  /\ ~open => cacheCoins["view"] = Empty /\ hashBlock["view"] = Null

\* SanityCheck's recomputed usage: cachedCoinsUsage is exactly the memory of the
\* coins in the cache, whatever sequence of fetches, spends and merges led here.
UsageExact ==
  \A l \in Layer :
    cachedCoinsUsage[l] = SumFunction([o \in Outpoint |-> EntryUsage(cacheCoins[l][o])])

\* The stack of maps the caches stand for.
AbsMap ==
  [l \in {"db", "tip", "view"} |->
    IF l = "db" THEN coins ELSE IF l = "tip" THEN TipMap ELSE ViewMap]
AbsBest ==
  [l \in {"db", "tip", "view"} |->
    IF l = "db" THEN hashBlock["db"] ELSE IF l = "tip" THEN TipBest ELSE ViewBest]

Stack == INSTANCE UtxoStack WITH map <- AbsMap, best <- AbsBest

\* The stack of caches is the plain stack of maps UtxoStack: caching, lazy reads,
\* uncaching and erasing FRESH entries never show in a lookup, a spend or a flush.
StackSpec == Stack!Spec
=============================================================================
