-------------------------- MODULE CoinsCacheProofs --------------------------
(***************************************************************************)
(* Theorems about CoinsCache for any outpoints, coins and hashes: the flag *)
(* discipline is an inductive invariant, no logic_error is reachable, the  *)
(* stack of caches implements UtxoStack, and the running memory count is   *)
(* exact.                                                                  *)
(*                                                                         *)
(* The lemmas are about a single entry e over the coin b of its base; the  *)
(* theorems lift them to every outpoint.                                   *)
(***************************************************************************)
EXTENDS CoinsCache, FiniteSetTheorems, WellFoundedInduction, TLAPS

MaybeEntry == Entry \cup {Absent}

\* A constructed entry is an entry with the fields it was given.
LEMMA MakeEntryLemma ==
  ASSUME NEW c \in Value, NEW d \in BOOLEAN, NEW f \in BOOLEAN
  PROVE  /\ MakeEntry(c, d, f) \in Entry
         /\ MakeEntry(c, d, f) # Absent
         /\ MakeEntry(c, d, f).coin = c
         /\ MakeEntry(c, d, f).dirty = d
         /\ MakeEntry(c, d, f).fresh = f
  BY AbsentAssumption DEF MakeEntry, Entry

\* The fields of an entry.
LEMMA EntryLemma ==
  ASSUME NEW e \in Entry
  PROVE  /\ e # Absent
         /\ e.coin \in Value /\ e.dirty \in BOOLEAN /\ e.fresh \in BOOLEAN
  BY AbsentAssumption DEF Entry

\* A fetched entry is coherent, shows what was shown before, and is missing
\* only where the base has no coin.
LEMMA FetchLemma ==
  ASSUME NEW e \in MaybeEntry, NEW b \in Value, EntryOK(e, b)
  PROVE  /\ Fetch(e, b) \in MaybeEntry
         /\ EntryOK(Fetch(e, b), b)
         /\ Show(Fetch(e, b), b) = Show(e, b)
         /\ Show(e, b) \in Value
         /\ Fetch(e, b) = Absent => b = Spent
         /\ Show(e, b) = CoinOf(Fetch(e, b))
<1>1. CASE e = Absent
  BY ZenonT(30), <1>1, MakeEntryLemma, EntryLemma, CoinAssumption
     DEF Fetch, EntryOK, Show, CoinOf, MaybeEntry, Value
<1>2. CASE e \in Entry
  BY ZenonT(30), <1>2, MakeEntryLemma, EntryLemma, CoinAssumption
     DEF Fetch, EntryOK, Show, CoinOf, MaybeEntry, Value
<1>3. QED  BY <1>1, <1>2 DEF MaybeEntry

\* AddCoin on a coherent entry: with the caller's obligation it does not throw,
\* stays coherent and shows the new coin.
LEMMA AddLemma ==
  ASSUME NEW e \in MaybeEntry, NEW b \in Value, NEW c \in Coin, NEW ow \in BOOLEAN,
         EntryOK(e, b), ow \/ Show(e, b) = Spent
  PROVE  /\ ~AddThrows(e, c, ow)
         /\ Added(e, c, ow) \in MaybeEntry
         /\ EntryOK(Added(e, c, ow), b)
         /\ Show(Added(e, c, ow), b) = c
<1> DEFINE fresh == (e # Absent /\ e.fresh) \/ (~ow /\ (e = Absent \/ ~e.dirty))
<1>1. c \in Value /\ c # Spent
  BY CoinAssumption DEF Value
<1>2. /\ Added(e, c, ow) \in Entry
      /\ Added(e, c, ow) # Absent
      /\ Added(e, c, ow).coin = c
      /\ Added(e, c, ow).dirty
      /\ Added(e, c, ow).fresh = fresh
  BY ZenonT(30), <1>1, MakeEntryLemma, fresh \in BOOLEAN DEF Added
<1>3. CASE e = Absent
  BY ZenonT(30), <1>1, <1>2, <1>3 DEF AddThrows, EntryOK, Show, MaybeEntry
<1>4. CASE e \in Entry
  BY <1>1, <1>2, <1>4, EntryLemma DEF AddThrows, EntryOK, Show, MaybeEntry
<1>5. QED  BY <1>3, <1>4 DEF MaybeEntry

\* SpendCoin on a fetched entry stays coherent and shows no coin.
LEMMA SpendLemma ==
  ASSUME NEW e \in MaybeEntry, NEW b \in Value, EntryOK(e, b), e = Absent => b = Spent
  PROVE  /\ SpentEntry(e) \in MaybeEntry
         /\ EntryOK(SpentEntry(e), b)
         /\ Show(SpentEntry(e), b) = Spent
<1>1. CASE e = Absent
  BY <1>1, MakeEntryLemma, EntryLemma, CoinAssumption
     DEF SpentEntry, EntryOK, Show, MaybeEntry, Value
<1>2. CASE e \in Entry
  BY ZenonT(30), <1>2, MakeEntryLemma, EntryLemma, CoinAssumption
     DEF SpentEntry, EntryOK, Show, MaybeEntry, Value
<1>3. QED  BY <1>1, <1>2 DEF MaybeEntry

\* BatchWrite of a child's entry e over the parent's p: no throw, and the parent
\* alone then shows what child over parent showed.
LEMMA MergeLemma ==
  ASSUME NEW p \in MaybeEntry, NEW e \in MaybeEntry, NEW b \in Value,
         EntryOK(p, b), EntryOK(e, Show(p, b))
  PROVE  /\ ~MergeThrows(p, e)
         /\ Merge(p, e) \in MaybeEntry
         /\ EntryOK(Merge(p, e), b)
         /\ Show(Merge(p, e), b) = Show(e, Show(p, b))
<1> USE DEF Merge, MergeThrows, EntryOK, Show
<1>1. CASE e = Absent
  BY <1>1
<1>2. CASE e \in Entry /\ p = Absent
  <2> DEFINE m == MakeEntry(e.coin, TRUE, e.fresh)
  <2>1. e # Absent /\ e.coin \in Value /\ e.dirty \in BOOLEAN /\ e.fresh \in BOOLEAN
    BY <1>2, EntryLemma
  <2>2. m \in Entry /\ m # Absent /\ m.coin = e.coin /\ m.dirty /\ m.fresh = e.fresh
    BY ZenonT(30), <2>1, MakeEntryLemma
  <2> HIDE DEF m
  <2>3. Merge(p, e) = IF ~e.dirty \/ (e.fresh /\ e.coin = Spent) THEN Absent ELSE m
    BY ZenonT(30), <1>2, <2>1 DEF m
  <2>4. QED  BY ZenonT(30), <1>2, <2>1, <2>2, <2>3 DEF MaybeEntry
<1>3. CASE e \in Entry /\ p \in Entry
  <2> DEFINE m == MakeEntry(e.coin, TRUE, p.fresh)
  <2>1. /\ e # Absent /\ e.coin \in Value /\ e.dirty \in BOOLEAN /\ e.fresh \in BOOLEAN
        /\ p # Absent /\ p.coin \in Value /\ p.dirty \in BOOLEAN /\ p.fresh \in BOOLEAN
    BY <1>3, EntryLemma
  <2>2. m \in Entry /\ m # Absent /\ m.coin = e.coin /\ m.dirty /\ m.fresh = p.fresh
    BY ZenonT(30), <2>1, MakeEntryLemma
  <2> HIDE DEF m
  <2>3. Merge(p, e) =
          IF ~e.dirty THEN p ELSE IF p.fresh /\ e.coin = Spent THEN Absent ELSE m
    BY ZenonT(30), <1>3, <2>1 DEF m
  <2>4. QED  BY ZenonT(30), <1>3, <2>1, <2>2, <2>3 DEF MaybeEntry
<1>4. QED  BY ZenonT(30), <1>1, <1>2, <1>3 DEF MaybeEntry

\* The database after a write holds what the cache showed, and the entries a
\* Sync keeps are coherent with it.
LEMMA WriteLemma ==
  ASSUME NEW e \in MaybeEntry, NEW b \in Value, EntryOK(e, b)
  PROVE  /\ Write(b, e) = Show(e, b)
         /\ Write(b, e) \in Value
         /\ Synced(e) \in MaybeEntry
         /\ EntryOK(Synced(e), Write(b, e))
         /\ Show(Synced(e), Write(b, e)) = Write(b, e)
         /\ ~Flagged(Synced(e))
<1> USE DEF Write, Synced, Flagged, EntryOK, Show
<1>1. CASE e = Absent
  BY <1>1 DEF MaybeEntry
<1>2. CASE e \in Entry
  <2> DEFINE m == MakeEntry(e.coin, FALSE, FALSE)
  <2>1. e # Absent /\ e.coin \in Value /\ e.dirty \in BOOLEAN /\ e.fresh \in BOOLEAN
    BY <1>2, EntryLemma
  <2>2. m \in Entry /\ m # Absent /\ m.coin = e.coin /\ ~m.dirty /\ ~m.fresh
    BY ZenonT(30), <2>1, MakeEntryLemma
  <2> HIDE DEF m
  <2>3. Synced(e) =
          IF ~(e.dirty \/ e.fresh) THEN e ELSE IF e.coin = Spent THEN Absent ELSE m
    BY ZenonT(30), <2>1 DEF m
  <2>4. QED  BY ZenonT(30), <1>2, <2>1, <2>2, <2>3 DEF MaybeEntry
<1>3. QED  BY ZenonT(30), <1>1, <1>2 DEF MaybeEntry


-----------------------------------------------------------------------------
(* Lifting to all outpoints.                                                *)

CacheInv == TypeOK /\ NoLogicError /\ Coherent

CacheMaps == [Layer -> [Outpoint -> MaybeEntry]]

\* Caches cs are coherent over the map db.
Good(cs, db) ==
  /\ cs \in CacheMaps
  /\ \A q \in Outpoint :
       /\ EntryOK(cs["tip"][q], db[q])
       /\ EntryOK(cs["view"][q], Show(cs["tip"][q], db[q]))

\* Caches cs show the maps the current ones show.
Same(cs) ==
  \A q \in Outpoint :
    /\ Show(cs["tip"][q], coins[q]) = TipMap[q]
    /\ Show(cs["view"][q], Show(cs["tip"][q], coins[q])) = ViewMap[q]

\* The type of the maps a coherent stack shows, and that its caches are Good.
LEMMA MapsLemma ==
  ASSUME CacheInv
  PROVE  /\ Good(cacheCoins, coins) /\ Same(cacheCoins)
         /\ TipMap \in [Outpoint -> Value]
         /\ ViewMap \in [Outpoint -> Value]
         /\ ~open => ViewMap = TipMap
<1>1. Good(cacheCoins, coins)
  BY DEF CacheInv, TypeOK, Coherent, Good, CacheMaps, MaybeEntry, TipMap
<1>2. TipMap \in [Outpoint -> Value]
  BY FetchLemma, <1>1 DEF CacheInv, TypeOK, Good, CacheMaps, Layer, TipMap
<1>3. ViewMap \in [Outpoint -> Value]
  BY FetchLemma, <1>1, <1>2 DEF Good, CacheMaps, Layer, ViewMap, TipMap
<1>4. Same(cacheCoins)
  BY DEF Same, TipMap, ViewMap
<1>5. ~open => ViewMap = TipMap
  BY <1>2 DEF CacheInv, Coherent, Empty, ViewMap, Show
<1>6. QED  BY <1>1, <1>2, <1>3, <1>4, <1>5

\* FetchCoin leaves coherent caches that show the same maps, and finds the top
\* map's coin.
LEMMA FetchedLemma ==
  ASSUME CacheInv, NEW o \in Outpoint
  PROVE  /\ Good(Fetched(o), coins)
         /\ Same(Fetched(o))
         /\ ~open => Fetched(o)["view"] = Empty
         /\ Fetched(o)[Top][o] = Absent => BaseMap[o] = Spent
         /\ TopMap[o] = CoinOf(Fetched(o)[Top][o])
<1> DEFINE T == cacheCoins["tip"]
           V == cacheCoins["view"]
           FT == IF open /\ V[o] # Absent THEN T[o] ELSE Fetch(T[o], coins[o])
           FV == IF open THEN Fetch(V[o], TipMap[o]) ELSE V[o]
<1>1. /\ cacheCoins \in CacheMaps /\ T \in [Outpoint -> MaybeEntry]
      /\ V \in [Outpoint -> MaybeEntry]
      /\ \A q \in Outpoint : coins[q] \in Value /\ TipMap[q] \in Value /\ ViewMap[q] \in Value
  BY MapsLemma DEF Good, CacheMaps, Layer, CacheInv, TypeOK
<1>2. \A q \in Outpoint :
        /\ EntryOK(T[q], coins[q]) /\ EntryOK(V[q], TipMap[q])
        /\ TipMap[q] = Show(T[q], coins[q]) /\ ViewMap[q] = Show(V[q], TipMap[q])
  BY DEF CacheInv, Coherent, TipMap, ViewMap
<1>3. /\ FT \in MaybeEntry /\ EntryOK(FT, coins[o]) /\ Show(FT, coins[o]) = TipMap[o]
      /\ FV \in MaybeEntry /\ EntryOK(FV, TipMap[o]) /\ Show(FV, TipMap[o]) = ViewMap[o]
  BY <1>1, <1>2, FetchLemma
<1>4. Fetched(o) = [cacheCoins EXCEPT !["tip"][o] = FT, !["view"][o] = FV]
  BY DEF Fetched
<1>5. /\ Fetched(o) \in CacheMaps
      /\ Fetched(o)["tip"] = [T EXCEPT ![o] = FT]
      /\ Fetched(o)["view"] = [V EXCEPT ![o] = FV]
  <2> HIDE DEF FT, FV
  <2>1. QED  BY <1>1, <1>3, <1>4 DEF CacheMaps, Layer
<1>6. Good(Fetched(o), coins) /\ Same(Fetched(o))
  <2> HIDE DEF FT, FV
  <2>1. QED  BY <1>1, <1>2, <1>3, <1>5 DEF Good, Same
<1>7. ~open => Fetched(o)["view"] = Empty
  BY <1>1, <1>5 DEF CacheInv, Coherent
<1>8. Fetched(o)[Top][o] = IF open THEN FV ELSE FT
  <2> HIDE DEF FT, FV
  <2>1. QED  BY ZenonT(30), <1>1, <1>5 DEF Top
<1>9. /\ FV = Absent /\ open => TipMap[o] = Spent
      /\ FT = Absent /\ ~open => coins[o] = Spent
      /\ open => ViewMap[o] = CoinOf(FV)
      /\ ~open => TipMap[o] = CoinOf(FT)
  BY <1>1, <1>2, FetchLemma
<1>10. QED  BY <1>6, <1>7, <1>8, <1>9 DEF BaseMap, TopMap

\* Everything the invariant says besides the coherence of the entries.
Scalars ==
  /\ coins \in [Outpoint -> Value]
  /\ DOMAIN cachedCoinsUsage = Layer
  /\ hashBlock \in [{"db", "tip", "view"} -> Hash \cup {Null}]
  /\ open \in BOOLEAN /\ ret \in Value /\ thrown = FALSE
  /\ ~open => cacheCoins["view"] = Empty /\ hashBlock["view"] = Null

\* Coherent caches and well-typed scalars make up the invariant's next state.
LEMMA InvPrime ==
  ASSUME Good(cacheCoins, coins)', Scalars'
  PROVE  CacheInv'
<1>1. TypeOK'
  BY ZenonT(30) DEF TypeOK, Good, CacheMaps, MaybeEntry, Scalars
<1>2. Coherent'
  BY DEF Coherent, Good, TipMap, Empty, Scalars
<1>3. QED  BY <1>1, <1>2 DEF CacheInv, NoLogicError, Scalars

\* The stack of maps with coin v for outpoint o at the top.
PutTop(o, v) ==
  [l \in Stack!Level |->
    IF l \in Stack!Tops THEN [AbsMap[l] EXCEPT ![o] = v] ELSE AbsMap[l]]

\* Writing entry e for outpoint o at the top of caches that show what the current
\* ones show changes exactly that coin in the top map.
LEMMA TopWriteLemma ==
  ASSUME CacheInv, NEW cs, Good(cs, coins), Same(cs), ~open => cs["view"] = Empty,
         NEW o \in Outpoint, NEW e \in MaybeEntry, EntryOK(e, BaseMap[o]),
         NEW v, v = Show(e, BaseMap[o]),
         cacheCoins' = [cs EXCEPT ![Top][o] = e], coins' = coins
  PROVE  /\ Good(cacheCoins', coins)
         /\ ~open => cacheCoins'["view"] = Empty
         /\ AbsMap' = PutTop(o, v)
<1>1. /\ cs \in CacheMaps
      /\ TipMap \in [Outpoint -> Value] /\ ViewMap \in [Outpoint -> Value]
      /\ ~open => ViewMap = TipMap
  BY MapsLemma DEF Good
<1>2. CASE open
  <2>1. /\ cacheCoins' \in CacheMaps
        /\ cacheCoins'["tip"] = cs["tip"]
        /\ cacheCoins'["view"] = [cs["view"] EXCEPT ![o] = e]
        /\ cs["view"] \in [Outpoint -> MaybeEntry]
    BY <1>1, <1>2 DEF Top, CacheMaps, Layer
  <2>2. TipMap' = TipMap
    BY <1>1, <2>1 DEF Same, TipMap
  <2>3. ViewMap' = [ViewMap EXCEPT ![o] = Show(e, TipMap[o])]
    <3>1. ViewMap' = [q \in Outpoint |-> Show(cacheCoins'["view"][q], TipMap[q])]
      BY <2>2 DEF ViewMap
    <3>2. \A q \in Outpoint : Show(cs["view"][q], TipMap[q]) = ViewMap[q]
      BY DEF Same
    <3>3. \A q \in Outpoint : cacheCoins'["view"][q] = IF q = o THEN e ELSE cs["view"][q]
      BY <2>1
    <3>4. \A q \in Outpoint : Show(cacheCoins'["view"][q], TipMap[q]) =
                               IF q = o THEN Show(e, TipMap[o]) ELSE ViewMap[q]
      BY <3>2, <3>3
    <3>5. QED  BY ZenonT(30), <1>1, <3>1, <3>4
  <2>4. Good(cacheCoins', coins)
    BY <1>2, <2>1 DEF Good, Same, BaseMap
  <2>5. Stack!Tops = {"view"} /\ BaseMap = TipMap
    BY <1>2 DEF Stack!Tops, BaseMap
  <2>6. /\ AbsMap["db"] = coins /\ AbsMap["tip"] = TipMap /\ AbsMap["view"] = ViewMap
        /\ AbsMap' = [l \in {"db", "tip", "view"} |-> IF l = "db" THEN coins
             ELSE IF l = "tip" THEN TipMap ELSE [ViewMap EXCEPT ![o] = v]]
    BY <2>2, <2>3, <2>5 DEF AbsMap
  <2>7. QED  BY ZenonT(30), <1>2, <2>4, <2>5, <2>6 DEF PutTop, Stack!Level
<1>3. CASE ~open
  <2>1. /\ cacheCoins' \in CacheMaps
        /\ cacheCoins'["view"] = Empty
        /\ cacheCoins'["tip"] = [cs["tip"] EXCEPT ![o] = e]
        /\ cs["tip"] \in [Outpoint -> MaybeEntry]
    BY <1>1, <1>3 DEF Top, CacheMaps, Layer
  <2>2. TipMap' = [TipMap EXCEPT ![o] = Show(e, coins[o])]
    <3>1. TipMap' = [q \in Outpoint |-> Show(cacheCoins'["tip"][q], coins[q])]
      BY DEF TipMap
    <3>2. \A q \in Outpoint : Show(cs["tip"][q], coins[q]) = TipMap[q]
      BY DEF Same
    <3>3. \A q \in Outpoint : cacheCoins'["tip"][q] = IF q = o THEN e ELSE cs["tip"][q]
      BY <2>1
    <3>4. \A q \in Outpoint : Show(cacheCoins'["tip"][q], coins[q]) =
                               IF q = o THEN Show(e, coins[o]) ELSE TipMap[q]
      BY <3>2, <3>3
    <3>5. QED  BY ZenonT(30), <1>1, <3>1, <3>4
  <2>3. ViewMap' = TipMap'
    BY ZenonT(30), <2>1 DEF ViewMap, TipMap, Empty, Show
  <2>4. Good(cacheCoins', coins)
    BY <1>3, <2>1 DEF Good, BaseMap, Empty, EntryOK
  <2>5. Stack!Tops = {"tip", "view"} /\ BaseMap = coins
    BY <1>3 DEF Stack!Tops, BaseMap
  <2>6. /\ AbsMap["db"] = coins /\ AbsMap["tip"] = TipMap /\ AbsMap["view"] = TipMap
        /\ AbsMap' = [l \in {"db", "tip", "view"} |-> IF l = "db" THEN coins
             ELSE [TipMap EXCEPT ![o] = v]]
    BY <1>1, <1>3, <2>2, <2>3, <2>5 DEF AbsMap
  <2>7. QED  BY ZenonT(30), <2>1, <2>4, <2>5, <2>6 DEF PutTop, Stack!Level
<1>4. QED  BY <1>2, <1>3 DEF CacheInv, TypeOK

\* Caches that show the same maps stand for the same stack.
LEMMA SameMaps ==
  ASSUME Same(cacheCoins'), coins' = coins
  PROVE  AbsMap' = AbsMap
<1>1. TipMap' = TipMap
  BY DEF Same, TipMap
<1>2. ViewMap' = ViewMap
  BY <1>1 DEF Same, ViewMap, TipMap
<1>3. QED  BY <1>1, <1>2 DEF AbsMap

\* The stack's best blocks only depend on hashBlock, and its top map is the view's.
LEMMA TopLemma ==
  ASSUME CacheInv
  PROVE  /\ TopMap = AbsMap["view"]
         /\ TopMap \in [Outpoint -> Value]
         /\ BaseMap \in [Outpoint -> Value]
         /\ hashBlock' = hashBlock => AbsBest' = AbsBest
<1>1. TopMap = AbsMap["view"]
  BY MapsLemma DEF TopMap, AbsMap
<1>2. TopMap \in [Outpoint -> Value] /\ BaseMap \in [Outpoint -> Value]
  BY MapsLemma DEF TopMap, BaseMap, CacheInv, TypeOK
<1>3. hashBlock' = hashBlock => AbsBest' = AbsBest
  BY DEF AbsBest, TipBest, ViewBest
<1>4. QED  BY <1>1, <1>2, <1>3

-----------------------------------------------------------------------------
(* One lemma per operation: it keeps the invariant and is a step of the      *)
(* stack of maps.                                                            *)

\* A lookup.
LEMMA GetCoinStep ==
  ASSUME CacheInv, NEW o \in Outpoint, GetCoin(o)
  PROVE  CacheInv' /\ Stack!Read(o)
<1>1. /\ Good(cacheCoins', coins') /\ Same(cacheCoins')
      /\ ~open => cacheCoins'["view"] = Empty
      /\ ret' = TopMap[o]
  BY FetchedLemma DEF GetCoin
<1>2. CacheInv'
  <2>1. Scalars'
    BY <1>1, TopLemma
       DEF GetCoin, CacheInv, TypeOK, NoLogicError, Coherent, FetchedUsage, Scalars
  <2>2. QED  BY ZenonT(30), <1>1, <2>1, InvPrime DEF GetCoin
<1>3. AbsMap' = AbsMap /\ AbsBest' = AbsBest /\ ret' = AbsMap["view"][o]
  BY ZenonT(30), <1>1, SameMaps, TopLemma DEF GetCoin
<1>4. QED  BY ZenonT(30), <1>2, <1>3 DEF Stack!Read, GetCoin

\* A spend.
LEMMA SpendCoinStep ==
  ASSUME CacheInv, NEW o \in Outpoint, SpendCoin(o)
  PROVE  CacheInv' /\ Stack!Spend(o)
<1> DEFINE e == Fetched(o)[Top][o]
<1>1. /\ Good(Fetched(o), coins) /\ Same(Fetched(o))
      /\ ~open => Fetched(o)["view"] = Empty
      /\ e = Absent => BaseMap[o] = Spent
      /\ ret' = TopMap[o]
  BY FetchedLemma DEF SpendCoin
<1>2. e \in MaybeEntry /\ EntryOK(e, BaseMap[o])
  BY <1>1 DEF Good, Same, CacheMaps, Layer, Top, BaseMap
<1>3. /\ SpentEntry(e) \in MaybeEntry
      /\ EntryOK(SpentEntry(e), BaseMap[o])
      /\ Show(SpentEntry(e), BaseMap[o]) = Spent
  BY ZenonT(30), <1>1, <1>2, SpendLemma, TopLemma
<1>4. /\ Good(cacheCoins', coins)
      /\ ~open => cacheCoins'["view"] = Empty
      /\ AbsMap' = PutTop(o, Spent)
  <2>1. cacheCoins' = [Fetched(o) EXCEPT ![Top][o] = SpentEntry(e)] /\ coins' = coins
    BY DEF SpendCoin
  <2> HIDE DEF e
  <2>2. QED  BY ZenonT(30), <1>1, <1>3, <2>1, TopWriteLemma
<1>5. CacheInv'
  <2>1. Scalars'
    BY <1>1, <1>4, TopLemma
       DEF SpendCoin, CacheInv, TypeOK, NoLogicError, Coherent, FetchedUsage, Scalars
  <2>2. QED  BY ZenonT(30), <1>1, <1>4, <2>1, InvPrime DEF SpendCoin
<1>6. AbsBest' = AbsBest /\ ret' = AbsMap["view"][o]
  BY <1>1, TopLemma DEF SpendCoin
<1>7. QED  BY <1>4, <1>5, <1>6 DEF Stack!Spend, PutTop, SpendCoin

\* An addition: the stack gains the coin, or nothing changes when it is unspendable.
LEMMA AddCoinsStep ==
  ASSUME CacheInv, NEW o \in Outpoint, NEW c \in Coin,
         NEW check \in BOOLEAN, NEW cb \in BOOLEAN, AddCoins(o, c, check, cb)
  PROVE  CacheInv' /\ (Stack!Add(o, c) \/ UNCHANGED Stack!vars)
<1> DEFINE cs == IF check THEN Fetched(o) ELSE cacheCoins
           us == IF check THEN FetchedUsage(o) ELSE cachedCoinsUsage
           ow == IF check THEN TopMap[o] # Spent ELSE cb
           e == cs[Top][o]
<1>1. /\ Good(cs, coins) /\ Same(cs)
      /\ ~open => cs["view"] = Empty
      /\ DOMAIN us = Layer
  BY FetchedLemma, MapsLemma DEF CacheInv, Coherent, TypeOK, FetchedUsage
<1>2. AddCoin(cs, us, o, c, ow) /\ ow \in BOOLEAN /\ UNCHANGED <<coins, hashBlock, open, ret>>
  BY ZenonT(30) DEF AddCoins
<1>3. ow \/ TopMap[o] = Spent
  BY ZenonT(30) DEF AddCoins
<1>4. e \in MaybeEntry /\ EntryOK(e, BaseMap[o]) /\ Show(e, BaseMap[o]) = TopMap[o]
  <2> HIDE DEF cs
  <2>1. QED  BY ZenonT(30), <1>1 DEF Good, Same, CacheMaps, Layer, Top, BaseMap, TopMap
<1> HIDE DEF cs, us, ow
<1>5. /\ ~AddThrows(e, c, ow)
      /\ Added(e, c, ow) \in MaybeEntry
      /\ EntryOK(Added(e, c, ow), BaseMap[o])
      /\ Show(Added(e, c, ow), BaseMap[o]) = c
  <2>1. BaseMap[o] \in Value
    BY ZenonT(30), TopLemma
  <2>2. ow \/ Show(e, BaseMap[o]) = Spent
    BY ZenonT(30), <1>3, <1>4
  <2>3. ow \in BOOLEAN /\ e \in MaybeEntry /\ EntryOK(e, BaseMap[o])
    BY ZenonT(30), <1>2, <1>4
  <2> HIDE DEF e
  <2> QED  BY ZenonT(30), <2>1, <2>2, <2>3, AddLemma
<1>6. thrown' = FALSE
  BY ZenonT(30), <1>2, <1>5 DEF AddCoin, AddThrows, CacheInv, TypeOK, NoLogicError
<1>7. AbsBest' = AbsBest
  BY ZenonT(30), <1>2, TopLemma
<1>8. CASE c \in Unspendable
  <2>1. cacheCoins' = cs /\ cachedCoinsUsage' = us
    BY <1>2, <1>8 DEF AddCoin
  <2>2. CacheInv'
    <3>1. Scalars'
      BY ZenonT(30), <1>1, <1>2, <1>6, <2>1
         DEF CacheInv, TypeOK, Coherent, Scalars
    <3>2. QED  BY ZenonT(30), <1>1, <1>2, <1>6, <2>1, <3>1, InvPrime
  <2>3. AbsMap' = AbsMap
    BY ZenonT(30), <1>1, <1>2, <2>1, SameMaps
  <2>4. QED  BY ZenonT(30), <1>2, <1>7, <2>2, <2>3 DEF Stack!vars
<1>9. CASE c \notin Unspendable
  <2>1. /\ cacheCoins' = [cs EXCEPT ![Top][o] = Added(e, c, ow)]
        /\ DOMAIN cachedCoinsUsage' = Layer
    BY <1>1, <1>2, <1>5, <1>9 DEF AddCoin
  <2>2. /\ Good(cacheCoins', coins)
        /\ ~open => cacheCoins'["view"] = Empty
        /\ AbsMap' = PutTop(o, c)
    <3> HIDE DEF e
    <3>1. QED  BY ZenonT(30), <1>1, <1>2, <1>5, <2>1, TopWriteLemma
  <2>3. CacheInv'
    <3>1. Scalars'
      BY ZenonT(30), <1>2, <1>6, <2>1, <2>2
         DEF CacheInv, TypeOK, Coherent, Scalars
    <3>2. QED  BY ZenonT(30), <1>2, <1>6, <2>1, <2>2, <3>1, InvPrime
  <2>4. QED  BY ZenonT(30), <1>2, <1>7, <2>2, <2>3 DEF Stack!Add, PutTop
<1>10. QED  BY ZenonT(30), <1>8, <1>9

\* A snapshot coin emplaced in CoinsTip().
LEMMA EmplaceStep ==
  ASSUME CacheInv, NEW o \in Outpoint, NEW c \in Coin, EmplaceCoinInternalDANGER(o, c)
  PROVE  CacheInv' /\ Stack!Add(o, c)
<1> DEFINE e == MakeEntry(c, TRUE, FALSE)
<1>1. /\ e \in MaybeEntry /\ EntryOK(e, BaseMap[o]) /\ Show(e, BaseMap[o]) = c
  BY ZenonT(30), MakeEntryLemma DEF MaybeEntry, Value, EntryOK, Show
<1>2. /\ cacheCoins' = [cacheCoins EXCEPT ![Top][o] = e] /\ coins' = coins
      /\ ~open => cacheCoins["view"] = Empty
  BY DEF EmplaceCoinInternalDANGER, Top, CacheInv, Coherent
<1> HIDE DEF e
<1>3. /\ Good(cacheCoins', coins)
      /\ ~open => cacheCoins'["view"] = Empty
      /\ AbsMap' = PutTop(o, c)
  BY ZenonT(30), <1>1, <1>2, MapsLemma, TopWriteLemma
<1>4. CacheInv'
  <2>1. Scalars'
    BY <1>3
       DEF EmplaceCoinInternalDANGER, CacheInv, TypeOK, NoLogicError, Coherent, Scalars
  <2>2. QED  BY ZenonT(30), <1>3, <2>1, InvPrime DEF EmplaceCoinInternalDANGER
<1>5. AbsBest' = AbsBest
  BY TopLemma DEF EmplaceCoinInternalDANGER
<1>6. QED  BY <1>3, <1>4, <1>5 DEF Stack!Add, PutTop, EmplaceCoinInternalDANGER

\* Dropping a clean entry of CoinsTip().
LEMMA UncacheStep ==
  ASSUME CacheInv, NEW o \in Outpoint, Uncache(o)
  PROVE  CacheInv' /\ UNCHANGED Stack!vars
<1>1. /\ cacheCoins \in CacheMaps /\ ~open /\ cacheCoins["view"] = Empty
      /\ TipMap \in [Outpoint -> Value] /\ coins \in [Outpoint -> Value]
      /\ AbsMap["view"] = TipMap
  BY ZenonT(30), MapsLemma DEF Good, Uncache, CacheInv, Coherent, TypeOK, AbsMap
<1>2. /\ Absent \in MaybeEntry /\ EntryOK(Absent, BaseMap[o])
      /\ TipMap[o] = Show(Absent, BaseMap[o])
  BY <1>1 DEF MaybeEntry, EntryOK, Show, BaseMap, TipMap, Uncache, CacheInv, Coherent
<1>3. /\ Good(cacheCoins', coins)
      /\ ~open => cacheCoins'["view"] = Empty
      /\ AbsMap' = PutTop(o, TipMap[o])
  <2>1. cacheCoins' = [cacheCoins EXCEPT ![Top][o] = Absent] /\ coins' = coins
    BY <1>1 DEF Uncache, Top
  <2>2. QED  BY ZenonT(30), <1>1, <1>2, <2>1, MapsLemma, TopWriteLemma
<1>4. AbsMap' = AbsMap
  <2>1. AbsMap = [l \in Stack!Level |-> AbsMap[l]]
    BY DEF AbsMap, Stack!Level
  <2>2. \A l \in Stack!Tops : AbsMap[l] = TipMap
    BY <1>1 DEF AbsMap, Stack!Tops
  <2>3. [TipMap EXCEPT ![o] = TipMap[o]] = TipMap
    BY ZenonT(30), <1>1
  <2>4. QED  BY ZenonT(30), <1>3, <2>1, <2>2, <2>3 DEF PutTop
<1>5. CacheInv'
  <2>1. Scalars'
    BY <1>1, <1>3
       DEF Uncache, CacheInv, TypeOK, NoLogicError, Coherent, Scalars
  <2>2. QED  BY ZenonT(30), <1>1, <1>3, <2>1, InvPrime DEF Uncache
<1>6. AbsBest' = AbsBest
  BY TopLemma DEF Uncache
<1>7. QED  BY ZenonT(30), <1>4, <1>5, <1>6 DEF Stack!vars, Uncache

\* GetBestBlock only copies best blocks up the stack.
LEMMA GetBestBlockStep ==
  ASSUME CacheInv, GetBestBlock
  PROVE  CacheInv' /\ UNCHANGED Stack!vars
<1>1. /\ Good(cacheCoins', coins') /\ Same(cacheCoins') /\ coins' = coins
      /\ hashBlock' \in [{"db", "tip", "view"} -> Hash \cup {Null}]
      /\ ~open => hashBlock'["view"] = Null
  BY MapsLemma DEF GetBestBlock, CacheInv, TypeOK, TipBest, ViewBest, Coherent
<1>2. CacheInv'
  <2>1. Scalars'
    BY <1>1
       DEF GetBestBlock, CacheInv, TypeOK, NoLogicError, Coherent, Scalars
  <2>2. QED  BY ZenonT(30), <1>1, <2>1, InvPrime DEF GetBestBlock
<1>3. AbsBest' = AbsBest
  <2>1. /\ hashBlock'["db"] = hashBlock["db"]
        /\ TipBest' = TipBest /\ ViewBest' = ViewBest
    BY DEF GetBestBlock, CacheInv, TypeOK, TipBest, ViewBest, Coherent
  <2>2. QED  BY ZenonT(30), <2>1 DEF AbsBest
<1>4. AbsMap' = AbsMap
  BY <1>1, SameMaps
<1>5. QED  BY ZenonT(30), <1>2, <1>3, <1>4 DEF Stack!vars, GetBestBlock

\* SetBestBlock sets the top's best block.
LEMMA SetBestBlockStep ==
  ASSUME CacheInv, NEW h \in Hash, SetBestBlock(h)
  PROVE  CacheInv' /\ Stack!SetBest(h)
<1>1. /\ Good(cacheCoins', coins') /\ Same(cacheCoins') /\ coins' = coins
      /\ hashBlock' \in [{"db", "tip", "view"} -> Hash \cup {Null}]
      /\ ~open => hashBlock'["view"] = Null
  BY MapsLemma DEF SetBestBlock, CacheInv, TypeOK, Coherent, Top
<1>2. CacheInv'
  <2>1. Scalars'
    BY ZenonT(30), <1>1
       DEF SetBestBlock, CacheInv, TypeOK, NoLogicError, Coherent, Scalars
  <2>2. QED  BY ZenonT(30), <1>1, <2>1, InvPrime DEF SetBestBlock
<1>3. AbsBest' = [l \in Stack!Level |-> IF l \in Stack!Tops THEN h ELSE AbsBest[l]]
  <2>1. /\ hashBlock'["db"] = hashBlock["db"] /\ ViewBest' = h
        /\ TipBest' = IF open THEN TipBest ELSE h
    BY HashAssumption DEF SetBestBlock, CacheInv, TypeOK, TipBest, ViewBest, Coherent, Top
  <2>2. QED  BY <2>1 DEF AbsBest, Stack!Level, Stack!Tops
<1>4. AbsMap' = AbsMap
  BY <1>1, SameMaps
<1>5. QED  BY ZenonT(30), <1>2, <1>3, <1>4 DEF Stack!SetBest, SetBestBlock

\* A new view shows CoinsTip().
LEMMA OpenViewStep ==
  ASSUME CacheInv, OpenView
  PROVE  CacheInv' /\ Stack!Open
<1>1. Good(cacheCoins', coins') /\ Same(cacheCoins') /\ coins' = coins
  BY MapsLemma DEF OpenView
<1>2. CacheInv'
  <2>1. Scalars'
    BY <1>1
       DEF OpenView, CacheInv, TypeOK, NoLogicError, Scalars
  <2>2. QED  BY ZenonT(30), <1>1, <2>1, InvPrime DEF OpenView
<1>3. AbsMap' = AbsMap /\ AbsBest' = AbsBest
  BY ZenonT(30), <1>1, SameMaps, TopLemma DEF OpenView
<1>4. QED  BY <1>2, <1>3 DEF Stack!Open, OpenView

\* A dropped view leaves CoinsTip().
LEMMA CloseViewStep ==
  ASSUME CacheInv, CloseView
  PROVE  CacheInv' /\ Stack!Close
<1>1. /\ cacheCoins \in CacheMaps /\ coins' = coins
      /\ cacheCoins' \in CacheMaps
      /\ cacheCoins'["tip"] = cacheCoins["tip"] /\ cacheCoins'["view"] = Empty
      /\ hashBlock' \in [{"db", "tip", "view"} -> Hash \cup {Null}]
      /\ hashBlock'["view"] = Null
  BY ZenonT(30) DEF CloseView, CacheInv, TypeOK, CacheMaps, Layer, Empty, MaybeEntry
<1>2. Good(cacheCoins', coins')
  BY <1>1, MapsLemma DEF Good, EntryOK, Empty
<1>3. CacheInv'
  <2>1. Scalars'
    BY ZenonT(30), <1>1, <1>2
       DEF CloseView, CacheInv, TypeOK, NoLogicError, Scalars
  <2>2. QED  BY <1>1, <1>2, <2>1, InvPrime DEF CloseView
<1>4. TipMap' = TipMap /\ ViewMap' = TipMap
  BY <1>1 DEF TipMap, ViewMap, Show, Empty
<1>5. AbsMap' = [AbsMap EXCEPT !["view"] = AbsMap["tip"]]
  BY ZenonT(30), <1>1, <1>4 DEF AbsMap
<1>6. AbsBest' = [AbsBest EXCEPT !["view"] = AbsBest["tip"]]
  <2>1. TipBest' = TipBest /\ ViewBest' = TipBest /\ hashBlock'["db"] = hashBlock["db"]
    BY DEF CloseView, CacheInv, TypeOK, TipBest, ViewBest
  <2>2. QED  BY ZenonT(30), <2>1 DEF AbsBest
<1>7. QED  BY ZenonT(30), <1>3, <1>5, <1>6 DEF Stack!Close, CloseView

\* A flushed view makes CoinsTip() show what the view showed.
LEMMA FlushViewStep ==
  ASSUME CacheInv, FlushView
  PROVE  CacheInv' /\ Stack!Push
<1> DEFINE T == cacheCoins["tip"]
           V == cacheCoins["view"]
<1>1. /\ T \in [Outpoint -> MaybeEntry] /\ V \in [Outpoint -> MaybeEntry]
      /\ \A o \in Outpoint :
           /\ coins[o] \in Value /\ EntryOK(T[o], coins[o])
           /\ EntryOK(V[o], Show(T[o], coins[o]))
  BY ZenonT(30), MapsLemma DEF Good, CacheMaps, Layer, CacheInv, TypeOK
<1>2. \A o \in Outpoint :
        /\ ~MergeThrows(T[o], V[o])
        /\ Merge(T[o], V[o]) \in MaybeEntry
        /\ EntryOK(Merge(T[o], V[o]), coins[o])
        /\ Show(Merge(T[o], V[o]), coins[o]) = ViewMap[o]
  BY ZenonT(30), <1>1, MergeLemma DEF ViewMap, TipMap
<1>3. thrown' = FALSE
  BY ZenonT(30), <1>2 DEF FlushView, CacheInv, TypeOK, NoLogicError
<1>4. /\ cacheCoins' \in CacheMaps
      /\ cacheCoins'["tip"] = [o \in Outpoint |-> Merge(T[o], V[o])]
      /\ cacheCoins'["view"] = Empty
      /\ DOMAIN cachedCoinsUsage' = Layer
      /\ hashBlock' = [hashBlock EXCEPT !["tip"] = hashBlock["view"]]
      /\ coins' = coins /\ open' = open /\ ret' = ret
      /\ open /\ hashBlock["view"] # Null
  <2>1. /\ cacheCoins' = [cacheCoins EXCEPT
              !["tip"] = [o \in Outpoint |-> Merge(T[o], V[o])], !["view"] = Empty]
        /\ DOMAIN cachedCoinsUsage' = DOMAIN cachedCoinsUsage
        /\ hashBlock' = [hashBlock EXCEPT !["tip"] = hashBlock["view"]]
        /\ coins' = coins /\ open' = open /\ ret' = ret
        /\ open /\ hashBlock["view"] # Null
    BY <1>2 DEF FlushView
  <2>2. cacheCoins \in CacheMaps /\ DOMAIN cachedCoinsUsage = Layer
    BY ZenonT(30), MapsLemma DEF Good, CacheInv, TypeOK
  <2>3. Empty \in [Outpoint -> MaybeEntry]
    BY ZenonT(30) DEF Empty, MaybeEntry
  <2>4. [o \in Outpoint |-> Merge(T[o], V[o])] \in [Outpoint -> MaybeEntry]
    BY ZenonT(30), <1>2
  <2> QED  BY ZenonT(30), <2>1, <2>2, <2>3, <2>4 DEF CacheMaps, Layer
<1>5. Good(cacheCoins', coins')
  BY <1>2, <1>4 DEF Good, EntryOK, Empty
<1>6. CacheInv'
  <2>1. Scalars'
    BY <1>3, <1>4, <1>5
       DEF CacheInv, TypeOK, Scalars
  <2>2. QED  BY ZenonT(30), <1>3, <1>4, <1>5, <2>1, InvPrime
<1>7. TipMap' = ViewMap /\ ViewMap' = ViewMap
  <2>1. TipMap' = [o \in Outpoint |-> ViewMap[o]]
    BY <1>2, <1>4 DEF TipMap
  <2>2. ViewMap = [o \in Outpoint |-> ViewMap[o]]
    BY DEF ViewMap
  <2>3. ViewMap' = [o \in Outpoint |-> TipMap'[o]]
    BY <1>4 DEF ViewMap, Show, Empty
  <2>4. QED  BY ZenonT(30), <2>1, <2>2, <2>3
<1>8. AbsMap' = [AbsMap EXCEPT !["tip"] = AbsMap["view"]]
  BY ZenonT(30), <1>4, <1>7 DEF AbsMap
<1>9. AbsBest' = [AbsBest EXCEPT !["tip"] = AbsBest["view"]] /\ AbsBest["view"] # Null
  <2>1. /\ TipBest' = ViewBest /\ ViewBest' = ViewBest /\ ViewBest # Null
        /\ hashBlock'["db"] = hashBlock["db"]
    BY <1>4 DEF CacheInv, TypeOK, TipBest, ViewBest
  <2>2. QED  BY ZenonT(30), <2>1 DEF AbsBest
<1>10. QED  BY ZenonT(30), <1>4, <1>6, <1>8, <1>9 DEF Stack!Push

\* Writing CoinsTip() to the database, with the tip's entries e'[o] afterwards
\* coherent with what was written.
LEMMA WriteTipStep ==
  ASSUME CacheInv, WriteTip, thrown' = thrown,
         NEW new \in [Outpoint -> MaybeEntry],
         cacheCoins' = [cacheCoins EXCEPT !["tip"] = new],
         DOMAIN cachedCoinsUsage' = Layer,
         \A o \in Outpoint : /\ EntryOK(new[o], TipMap[o])
                             /\ Show(new[o], TipMap[o]) = TipMap[o]
  PROVE  CacheInv' /\ Stack!Push
<1>1. /\ \A o \in Outpoint : coins[o] \in Value
      /\ ~open /\ cacheCoins["view"] = Empty /\ hashBlock["view"] = Null
      /\ TipMap \in [Outpoint -> Value] /\ ViewMap = TipMap
  BY MapsLemma DEF WriteTip, CacheInv, TypeOK, Coherent
<1>2. coins' = TipMap
  <2>1. \A o \in Outpoint : Write(coins[o], cacheCoins["tip"][o]) = TipMap[o]
    BY ZenonT(30), <1>1, WriteLemma, MapsLemma DEF Good, CacheMaps, Layer, TipMap
  <2>2. QED  BY <1>1, <2>1 DEF WriteTip
<1>3. /\ cacheCoins' \in CacheMaps
      /\ cacheCoins'["tip"] = new /\ cacheCoins'["view"] = Empty
  BY ZenonT(30), <1>1 DEF CacheInv, TypeOK, CacheMaps, MaybeEntry, Layer
<1>4. Good(cacheCoins', coins')
  BY <1>2, <1>3 DEF Good, EntryOK, Empty
<1>5. /\ hashBlock' \in [{"db", "tip", "view"} -> Hash \cup {Null}]
      /\ hashBlock'["view"] = Null
      /\ hashBlock'["db"] = TipBest /\ TipBest' = TipBest /\ ViewBest' = TipBest
      /\ TipBest # Null /\ ViewBest = TipBest
  BY ZenonT(30), <1>1 DEF WriteTip, CacheInv, TypeOK, TipBest, ViewBest
<1>6. CacheInv'
  <2>1. Scalars'
    BY ZenonT(30), <1>1, <1>2, <1>3, <1>4, <1>5
       DEF WriteTip, CacheInv, TypeOK, NoLogicError, Scalars
  <2>2. QED  BY ZenonT(30), <1>1, <1>2, <1>3, <1>4, <1>5, <2>1, InvPrime DEF WriteTip
<1>7. TipMap' = TipMap /\ ViewMap' = TipMap
  <2>1. TipMap' = [o \in Outpoint |-> Show(new[o], TipMap[o])]
    BY <1>2, <1>3 DEF TipMap
  <2>2. TipMap' = TipMap
    BY ZenonT(30), <1>1, <2>1
  <2>3. ViewMap' = [o \in Outpoint |-> TipMap'[o]]
    BY <1>3 DEF ViewMap, Show, Empty
  <2>4. QED  BY ZenonT(30), <1>1, <2>2, <2>3
<1>8. AbsMap' = [AbsMap EXCEPT !["db"] = AbsMap["view"]]
  BY ZenonT(30), <1>1, <1>2, <1>7 DEF AbsMap
<1>9. AbsBest' = [AbsBest EXCEPT !["db"] = AbsBest["view"]] /\ AbsBest["view"] # Null
  BY ZenonT(30), <1>5 DEF AbsBest
<1>10. QED  BY ZenonT(30), <1>1, <1>6, <1>8, <1>9 DEF Stack!Push, WriteTip

\* Flush and Sync of CoinsTip() both push it to the database.
LEMMA DiskStep ==
  ASSUME CacheInv, FlushTip \/ SyncTip
  PROVE  CacheInv' /\ Stack!Push
<1>1. /\ cacheCoins["tip"] \in [Outpoint -> MaybeEntry]
      /\ \A o \in Outpoint : coins[o] \in Value /\ EntryOK(cacheCoins["tip"][o], coins[o])
  BY MapsLemma DEF Good, CacheMaps, Layer, CacheInv, TypeOK
<1>2. CASE FlushTip
  <2>1. /\ Empty \in [Outpoint -> MaybeEntry]
        /\ \A o \in Outpoint : /\ EntryOK(Empty[o], TipMap[o])
                               /\ Show(Empty[o], TipMap[o]) = TipMap[o]
    BY DEF Empty, MaybeEntry, EntryOK, Show
  <2>2. WriteTip /\ thrown' = thrown /\ DOMAIN cachedCoinsUsage' = Layer
    BY <1>2 DEF FlushTip, CacheInv, TypeOK
  <2>3. cacheCoins' = [cacheCoins EXCEPT !["tip"] = Empty]
    BY <1>2 DEF FlushTip
  <2>4. QED  BY ZenonT(30), <2>1, <2>2, <2>3, WriteTipStep
<1>3. CASE SyncTip
  <2> DEFINE new == [o \in Outpoint |-> Synced(cacheCoins["tip"][o])]
  <2>1. \A o \in Outpoint :
          /\ Synced(cacheCoins["tip"][o]) \in MaybeEntry
          /\ EntryOK(Synced(cacheCoins["tip"][o]), TipMap[o])
          /\ Show(Synced(cacheCoins["tip"][o]), TipMap[o]) = TipMap[o]
          /\ ~Flagged(Synced(cacheCoins["tip"][o]))
    BY ZenonT(30), <1>1, WriteLemma DEF TipMap
  <2>2. /\ new \in [Outpoint -> MaybeEntry]
        /\ \A o \in Outpoint : /\ EntryOK(new[o], TipMap[o])
                               /\ Show(new[o], TipMap[o]) = TipMap[o]
    BY <2>1
  <2>3. WriteTip /\ thrown' = thrown /\ DOMAIN cachedCoinsUsage' = Layer
    BY <1>3, <2>1 DEF SyncTip, CacheInv, TypeOK, NoLogicError
  <2>4. cacheCoins' = [cacheCoins EXCEPT !["tip"] = new]
    BY <1>3 DEF SyncTip
  <2> HIDE DEF new
  <2>5. QED  BY ZenonT(30), <2>2, <2>3, <2>4, WriteTipStep
<1>4. QED  BY ZenonT(30), <1>2, <1>3

\* Initially the caches are empty over an empty database.
LEMMA InitLemma ==
  Init => CacheInv /\ Stack!Init
<1> SUFFICES ASSUME Init PROVE CacheInv /\ Stack!Init
  OBVIOUS
<1>1. CacheInv
  BY ZenonT(30) DEF Init, CacheInv, TypeOK, NoLogicError, Coherent, Empty, Layer, Value, EntryOK
<1>2. TipMap = coins /\ ViewMap = coins
  BY DEF Init, TipMap, ViewMap, Show, Empty, Layer
<1>3. TipBest = Null /\ ViewBest = Null
  BY DEF Init, TipBest, ViewBest
<1>4. QED  BY <1>1, <1>2, <1>3 DEF Init, Stack!Init, Stack!Level, AbsMap, AbsBest

\* Every step keeps the invariant and is a step of the stack of maps or leaves it
\* unchanged.
LEMMA StepLemma ==
  CacheInv /\ [Next]_vars => CacheInv' /\ [Stack!Next]_(Stack!vars)
<1> SUFFICES ASSUME CacheInv, [Next]_vars
             PROVE  CacheInv' /\ [Stack!Next]_(Stack!vars)
  OBVIOUS
<1>1. ASSUME NEW o \in Outpoint, GetCoin(o) \/ SpendCoin(o) \/ Uncache(o)
      PROVE  CacheInv' /\ [Stack!Next]_(Stack!vars)
  BY ZenonT(30), <1>1, GetCoinStep, SpendCoinStep, UncacheStep DEF Stack!Next
<1>2. ASSUME NEW o \in Outpoint, NEW c \in Coin, NEW check \in BOOLEAN, NEW cb \in BOOLEAN,
             AddCoins(o, c, check, cb)
      PROVE  CacheInv' /\ [Stack!Next]_(Stack!vars)
  BY <1>2, AddCoinsStep DEF Stack!Next
<1>3. ASSUME NEW o \in Outpoint, NEW c \in Coin \ Unspendable, EmplaceCoinInternalDANGER(o, c)
      PROVE  CacheInv' /\ [Stack!Next]_(Stack!vars)
  BY <1>3, EmplaceStep DEF Stack!Next
<1>4. CASE GetBestBlock
  BY <1>4, GetBestBlockStep
<1>5. ASSUME NEW h \in Hash, SetBestBlock(h)
      PROVE  CacheInv' /\ [Stack!Next]_(Stack!vars)
  BY <1>5, SetBestBlockStep DEF Stack!Next
<1>6. CASE OpenView
  BY <1>6, OpenViewStep DEF Stack!Next
<1>7. CASE CloseView
  BY <1>7, CloseViewStep DEF Stack!Next
<1>8. CASE FlushView
  BY <1>8, FlushViewStep DEF Stack!Next
<1>9. CASE FlushTip \/ SyncTip
  BY <1>9, DiskStep DEF Stack!Next
<1>10. CASE UNCHANGED vars
  <2>1. CacheInv'
    BY ZenonT(30), <1>10 DEF vars, CacheInv, TypeOK, NoLogicError, Coherent, TipMap
  <2>2. AbsMap' = AbsMap /\ AbsBest' = AbsBest
    BY <1>10 DEF vars, AbsMap, AbsBest, TipMap, ViewMap, TipBest, ViewBest
  <2>3. QED  BY ZenonT(30), <1>10, <2>1, <2>2 DEF vars, Stack!vars
<1>11. QED
  BY ZenonT(30), <1>1, <1>2, <1>3, <1>4, <1>5, <1>6, <1>7, <1>8, <1>9, <1>10 DEF Next

-----------------------------------------------------------------------------
\* The types, the flag discipline and the absence of logic_errors together are an
\* inductive invariant of CCoinsViewCache's operations.
THEOREM CacheInvariant == Spec => []CacheInv
<1>1. Init => CacheInv
  BY InitLemma
<1>2. CacheInv /\ [Next]_vars => CacheInv'
  BY StepLemma
<1>3. QED  BY <1>1, <1>2, PTL DEF Spec

\* Every variable of the coins caches keeps its type.
THEOREM CacheTypes == Spec => []TypeOK
  BY CacheInvariant, PTL DEF CacheInv

\* Neither "Attempted to overwrite an unspent coin" (AddCoin) nor "FRESH flag
\* misapplied" (BatchWrite) is reachable.
THEOREM CacheNeverThrows == Spec => []NoLogicError
  BY CacheInvariant, PTL DEF CacheInv

\* DIRTY and FRESH always mean what coins.h says: a clean entry can be dropped and a
\* spent FRESH one erased without losing a coin or a spend.
THEOREM CacheCoherent == Spec => []Coherent
  BY CacheInvariant, PTL DEF CacheInv

\* The two-level stack of write-back caches over the database implements the plain
\* stack of maps: lookups, spends, flushes and best blocks are those of UtxoStack.
THEOREM CacheRefinesStack == Spec => StackSpec
<1>1. Init => CacheInv /\ Stack!Init
  BY InitLemma
<1>2. CacheInv /\ [Next]_vars => CacheInv' /\ [Stack!Next]_(Stack!vars)
  BY StepLemma
<1>3. QED  BY <1>1, <1>2, PTL DEF Spec, StackSpec, Stack!Spec

-----------------------------------------------------------------------------
(* Sums over a finite domain, by induction on its subsets in the order in    *)
(* which SumFunction takes the elements.                                     *)

\* The element a sum takes next.
Pick(s) == CHOOSE x \in s : TRUE

\* h gives the sum of f over every set of arguments.
Sums(f, h) ==
  h = [s \in SUBSET DOMAIN f |->
         IF s = {} THEN 0 ELSE f[Pick(s)] + h[s \ {Pick(s)}]]

SumsOf(f) == CHOOSE h : Sums(f, h)

\* Every non-empty set of naturals has a least element.
LEMMA LeastNat ==
  ASSUME NEW T \in SUBSET Nat, T # {}
  PROVE  \E n \in T : \A k \in T : n <= k
<1>1. IsWellFoundedOn(OpToRel(<, Nat), Nat)
  BY ZenonT(30), NatLessThanWellFounded
<1>2. PICK n \in T : \A k \in T : ~(<<k, n>> \in OpToRel(<, Nat))
  BY ZenonT(30), <1>1, WFMin
<1>3. \A k \in T : ~(k < n)
  BY ZenonT(30), <1>2 DEF OpToRel
<1> QED  BY <1>3

\* What a sum takes is a member, and leaves a smaller set.
LEMMA PickLemma ==
  ASSUME NEW D, IsFiniteSet(D), NEW s \in SUBSET D, s # {}
  PROVE  /\ Pick(s) \in s /\ Pick(s) \in D /\ s \ {Pick(s)} \in SUBSET D
         /\ Cardinality(s) \in Nat /\ Cardinality(s \ {Pick(s)}) = Cardinality(s) - 1
<1>1. Pick(s) \in s
  BY DEF Pick
<1>2. IsFiniteSet(s)
  BY FS_Subset
<1> QED  BY ZenonT(30), <1>1, <1>2, FS_RemoveElement, FS_CardinalityType

\* A statement that holds of the empty set, and of a set when it holds of what
\* is left once an element was taken, holds of all finite sets.
LEMMA PickInduction ==
  ASSUME NEW D, IsFiniteSet(D), NEW T, {} \in T,
         \A s \in SUBSET D : s # {} /\ s \ {Pick(s)} \in T => s \in T
  PROVE  SUBSET D \subseteq T
<1> DEFINE Odd == {s \in SUBSET D : s \notin T}
           N == {Cardinality(s) : s \in Odd}
<1>1. SUFFICES ASSUME Odd # {} PROVE FALSE
  BY ZenonT(30)
<1>2. N \in SUBSET Nat /\ N # {}
  BY <1>1, FS_Subset, FS_CardinalityType
<1>3. PICK n \in N : \A k \in N : n <= k
  <2> HIDE DEF N
  <2> QED  BY <1>2, LeastNat
<1>4. PICK s \in Odd : n = Cardinality(s)
  BY <1>3
<1>5. s # {}
  BY <1>4
<1>6. s \ {Pick(s)} \in Odd
  BY ZenonT(30), <1>4, <1>5, PickLemma
<1>7. Cardinality(s) - 1 \in N /\ Cardinality(s) \in Nat
  <2>1. Cardinality(s \ {Pick(s)}) = Cardinality(s) - 1 /\ Cardinality(s) \in Nat
    BY <1>4, <1>5, PickLemma
  <2> QED  BY <1>6, <2>1
<1> QED  BY <1>3, <1>4, <1>7

\* The recursive definition of a sum has a solution: one that is right for sets
\* of at most n arguments is a step away from one for n + 1.
LEMMA SumsExist ==
  ASSUME NEW D, IsFiniteSet(D), NEW f \in [D -> Int]
  PROVE  \E h \in [SUBSET D -> Int] : Sums(f, h)
<1> DEFINE Step(h) == [s \in SUBSET D |->
                        IF s = {} THEN 0 ELSE f[Pick(s)] + h[s \ {Pick(s)}]]
           Right(h, n) == \A s \in SUBSET D : Cardinality(s) <= n => h[s] = Step(h)[s]
           Bad == {n \in Nat : \A h \in [SUBSET D -> Int] : ~Right(h, n)}
<1>1. ASSUME NEW h \in [SUBSET D -> Int] PROVE Step(h) \in [SUBSET D -> Int]
  <2> SUFFICES ASSUME NEW s \in SUBSET D, s # {} PROVE f[Pick(s)] + h[s \ {Pick(s)}] \in Int
    OBVIOUS
  <2>1. Pick(s) \in D /\ s \ {Pick(s)} \in SUBSET D
    BY ZenonT(30), PickLemma
  <2> QED  BY <2>1
<1>2. 0 \notin Bad
  <2> DEFINE z == [s \in SUBSET D |-> 0]
  <2>1. z \in [SUBSET D -> Int]
    OBVIOUS
  <2>2. ASSUME NEW s \in SUBSET D, Cardinality(s) <= 0 PROVE s = {}
    BY <2>2, FS_Subset, FS_EmptySet, FS_CardinalityType
  <2>3. Right(z, 0)
    BY <2>2
  <2> QED  BY ZenonT(30), <2>1, <2>3
<1>3. ASSUME NEW n \in Nat, n \notin Bad PROVE n + 1 \notin Bad
  <2>1. PICK h \in [SUBSET D -> Int] : Right(h, n)
    BY ZenonT(30), <1>3
  <2>2. ASSUME NEW s \in SUBSET D, Cardinality(s) <= n + 1
        PROVE  Step(h)[s] = Step(Step(h))[s]
    <3>1. CASE s = {}
      BY ZenonT(30), <3>1
    <3>2. CASE s # {}
      <4> DEFINE r == s \ {Pick(s)}
      <4>1. r \in SUBSET D /\ Cardinality(r) <= n
        <5>1. r \in SUBSET D /\ Cardinality(s) \in Nat /\ Cardinality(r) = Cardinality(s) - 1
          BY ZenonT(30), <3>2, PickLemma
        <5> QED  BY <2>2, <5>1
      <4>2. h[r] = Step(h)[r]
        BY ZenonT(30), <2>1, <4>1
      <4>3. Step(h)[s] = f[Pick(s)] + h[r] /\ Step(Step(h))[s] = f[Pick(s)] + Step(h)[r]
        BY <3>2
      <4> QED  BY ZenonT(30), <4>2, <4>3
    <3> QED  BY ZenonT(30), <3>1, <3>2
  <2>3. Right(Step(h), n + 1)
    BY ZenonT(30), <2>2
  <2> QED  BY ZenonT(30), <1>1, <2>3
<1>4. Bad = {}
  <2> SUFFICES ASSUME Bad # {} PROVE FALSE
    BY ZenonT(30)
  <2> HIDE DEF Bad
  <2>0. Bad \in SUBSET Nat
    BY DEF Bad
  <2>1. PICK n \in Bad : \A k \in Bad : n <= k
    BY <2>0, LeastNat
  <2>2. n \in Nat /\ n # 0
    BY <1>2, <2>0, <2>1
  <2>3. n - 1 \in Nat /\ n - 1 \notin Bad
    BY <2>1, <2>2
  <2> QED  BY <1>3, <2>1, <2>2, <2>3
<1>5. Cardinality(D) \in Nat /\ \A s \in SUBSET D : Cardinality(s) <= Cardinality(D)
  BY FS_Subset, FS_CardinalityType
<1>6. PICK h \in [SUBSET D -> Int] : Right(h, Cardinality(D))
  BY ZenonT(30), <1>4, <1>5
<1>7. h = Step(h)
  BY ZenonT(30), <1>1, <1>5, <1>6
<1> QED  BY ZenonT(30), <1>7 DEF Sums

\* The sums of f over the subsets of its domain D are integers and add up.
AddsUp(f, D) ==
  /\ SumFunction(f) = SumsOf(f)[D]
  /\ SumsOf(f)[{}] = 0
  /\ \A s \in SUBSET D :
       /\ SumsOf(f)[s] \in Int
       /\ s # {} => SumsOf(f)[s] = f[Pick(s)] + SumsOf(f)[s \ {Pick(s)}]

\* So SumFunction is the value at its domain of a function that solves the
\* equation.
LEMMA SumsOfLemma ==
  ASSUME NEW D, IsFiniteSet(D), NEW f \in [D -> Int]
  PROVE  AddsUp(f, D)
<1> DEFINE h == SumsOf(f)
<1>1. DOMAIN f = D
  OBVIOUS
<1>2. SumFunction(f) = h[D]
  BY <1>1 DEF SumFunction, SumFunctionOnSet, FoldFunctionOnSet, MapThenFoldSet, SumsOf, Sums, Pick
<1>3. Sums(f, h)
  <2>1. \E g : Sums(f, g)
    BY ZenonT(30), SumsExist
  <2> QED  BY <2>1 DEF SumsOf
<1>4. h = [s \in SUBSET D |-> IF s = {} THEN 0 ELSE f[Pick(s)] + h[s \ {Pick(s)}]]
  BY ZenonT(30), <1>1, <1>3 DEF Sums
<1> HIDE DEF h
<1>5. /\ h[{}] = 0
      /\ \A s \in SUBSET D : s # {} => h[s] = f[Pick(s)] + h[s \ {Pick(s)}]
  BY ZenonT(30), <1>4
<1>6. SUBSET D \subseteq {s \in SUBSET D : h[s] \in Int}
  <2> DEFINE T == {s \in SUBSET D : h[s] \in Int}
  <2>1. {} \in T
    BY <1>5
  <2>2. ASSUME NEW s \in SUBSET D, s # {}, s \ {Pick(s)} \in T PROVE s \in T
    <3>1. f[Pick(s)] \in Int
      BY <2>2, PickLemma
    <3>2. h[s \ {Pick(s)}] \in Int
      BY <2>2
    <3>3. h[s] = f[Pick(s)] + h[s \ {Pick(s)}]
      BY ZenonT(30), <1>5, <2>2
    <3>4. h[s] \in Int
      BY <3>1, <3>2, <3>3
    <3> QED  BY ZenonT(30), <3>4
  <2> HIDE DEF T
  <2>3. SUBSET D \subseteq T
    BY <2>1, <2>2, PickInduction
  <2> QED  BY <2>3 DEF T
<1> QED  BY <1>2, <1>5, <1>6 DEF AddsUp, h

\* The sum of a sum of functions.
LEMMA SumPlus ==
  ASSUME NEW D, IsFiniteSet(D), NEW f \in [D -> Int], NEW g \in [D -> Int],
         NEW k \in [D -> Int], \A x \in D : k[x] = f[x] + g[x]
  PROVE  /\ SumFunction(f) \in Int /\ SumFunction(g) \in Int
         /\ SumFunction(k) = SumFunction(f) + SumFunction(g)
<1> DEFINE T == {s \in SUBSET D : SumsOf(k)[s] = SumsOf(f)[s] + SumsOf(g)[s]}
<1>1. AddsUp(f, D) /\ AddsUp(g, D) /\ AddsUp(k, D)
  BY ZenonT(30), SumsOfLemma
<1>2. {} \in T
  BY <1>1 DEF AddsUp
<1>3. ASSUME NEW s \in SUBSET D, s # {}, s \ {Pick(s)} \in T PROVE s \in T
  <2> DEFINE p == Pick(s)
             r == s \ {Pick(s)}
  <2>1. p \in D /\ r \in SUBSET D
    BY ZenonT(30), <1>3, PickLemma
  <2>2. k[p] = f[p] + g[p] /\ SumsOf(k)[r] = SumsOf(f)[r] + SumsOf(g)[r]
    BY ZenonT(30), <1>3, <2>1
  <2>3. s # {}
    BY <1>3
  <2> HIDE DEF T
  <2>4. SumsOf(f)[s] = f[p] + SumsOf(f)[r] /\ f[p] \in Int /\ SumsOf(f)[r] \in Int
    BY ZenonT(30), <1>1, <2>1, <2>3 DEF AddsUp
  <2>5. SumsOf(g)[s] = g[p] + SumsOf(g)[r] /\ g[p] \in Int /\ SumsOf(g)[r] \in Int
    BY ZenonT(30), <1>1, <2>1, <2>3 DEF AddsUp
  <2>6. SumsOf(k)[s] = k[p] + SumsOf(k)[r]
    BY ZenonT(30), <1>1, <2>3 DEF AddsUp
  <2>7. SumsOf(k)[s] = SumsOf(f)[s] + SumsOf(g)[s]
    BY <2>2, <2>4, <2>5, <2>6
  <2> QED  BY <2>7 DEF T
<1>4. D \in T
  <2> HIDE DEF T
  <2>1. SUBSET D \subseteq T
    BY ZenonT(30), <1>2, <1>3, PickInduction
  <2> QED  BY <2>1
<1> QED  BY ZenonT(30), <1>1, <1>4 DEF AddsUp

\* The sum of a function that is 0 but in one place.
LEMMA SumPoint ==
  ASSUME NEW D, IsFiniteSet(D), NEW x \in D, NEW v \in Int,
         NEW f \in [D -> Int], f[x] = v, \A y \in D \ {x} : f[y] = 0
  PROVE  SumFunction(f) = v
<1> DEFINE T == {s \in SUBSET D : SumsOf(f)[s] = IF x \in s THEN v ELSE 0}
<1>1. AddsUp(f, D)
  BY ZenonT(30), SumsOfLemma
<1>2. {} \in T
  BY ZenonT(30), <1>1 DEF AddsUp
<1>3. ASSUME NEW s \in SUBSET D, s # {}, s \ {Pick(s)} \in T PROVE s \in T
  <2> DEFINE p == Pick(s)
             r == s \ {Pick(s)}
  <2>1. p \in s /\ p \in D /\ r \in SUBSET D
    BY ZenonT(30), <1>3, PickLemma
  <2>2. f[p] = (IF p = x THEN v ELSE 0) /\ SumsOf(f)[r] = (IF x \in r THEN v ELSE 0)
    BY ZenonT(30), <1>3, <2>1
  <2>3. s # {} /\ (x \in s <=> x \in r \/ x = p) /\ (x = p => x \notin r)
    BY <1>3, <2>1
  <2> HIDE DEF T
  <2>4. SumsOf(f)[s] = f[p] + SumsOf(f)[r]
    BY ZenonT(30), <1>1, <2>3 DEF AddsUp
  <2>5. SumsOf(f)[s] = IF x \in s THEN v ELSE 0
    <3> HIDE DEF p, r
    <3> QED  BY <2>2, <2>3, <2>4
  <2> QED  BY <2>5 DEF T
<1>4. D \in T
  <2> HIDE DEF T
  <2>1. SUBSET D \subseteq T
    BY ZenonT(30), <1>2, <1>3, PickInduction
  <2> QED  BY <2>1
<1> QED  BY <1>1, <1>4 DEF AddsUp

\* The sum after one value has changed.
LEMMA SumExcept ==
  ASSUME NEW D, IsFiniteSet(D), NEW f \in [D -> Int], NEW x \in D,
         NEW k \in [D -> Int], \A y \in D \ {x} : k[y] = f[y]
  PROVE  SumFunction(f) \in Int /\ SumFunction(k) = SumFunction(f) - f[x] + k[x]
<1>1. PICK g \in [D -> Int] : \A y \in D : g[y] = k[y] - f[y]
  <2>1. [y \in D |-> k[y] - f[y]] \in [D -> Int]
    OBVIOUS
  <2> QED  BY ZenonT(30), <2>1
<1>2. \A y \in D : k[y] = f[y] + g[y]
  BY <1>1
<1>3. f[x] \in Int /\ k[x] \in Int /\ g[x] = k[x] - f[x] /\ \A y \in D \ {x} : g[y] = 0
  BY <1>1
<1>4. SumFunction(g) = g[x]
  BY <1>3, SumPoint
<1>5. SumFunction(f) \in Int /\ SumFunction(k) = SumFunction(f) + SumFunction(g)
  BY <1>2, SumPlus
<1> QED  BY <1>3, <1>4, <1>5

\* The sum of nothing but zeros.
LEMMA SumZero ==
  ASSUME NEW D, IsFiniteSet(D), NEW z \in [D -> Int], \A x \in D : z[x] = 0
  PROVE  SumFunction(z) = 0
<1>1. \A x \in D : z[x] = z[x] + z[x]
  OBVIOUS
<1>2. SumFunction(z) \in Int /\ SumFunction(z) = SumFunction(z) + SumFunction(z)
  BY <1>1, SumPlus
<1>3. \A n \in Int : n = n + n => n = 0
  OBVIOUS
<1> QED  BY ZenonT(30), <1>2, <1>3

-----------------------------------------------------------------------------
(* The running memory count.                                                 *)

Usages(m) == [q \in Outpoint |-> EntryUsage(m[q])]

\* The counts us are those of the caches cs.
Exact(cs, us) == \A l \in Layer : us[l] = SumFunction(Usages(cs[l]))

\* Entries take an integral amount of memory.
LEMMA UsageType ==
  /\ \A e \in MaybeEntry : EntryUsage(e) \in Int
  /\ \A c \in Value : Usage(c) \in Int
<1>1. \A c \in Value : Usage(c) \in Int
  BY CoinAssumption DEF Usage, Value
<1>2. \A e \in MaybeEntry : EntryUsage(e) \in Int
  <2> SUFFICES ASSUME NEW e \in MaybeEntry PROVE EntryUsage(e) \in Int
    OBVIOUS
  <2>1. CASE e = Absent
    BY <2>1 DEF EntryUsage
  <2>2. CASE e # Absent
    BY ZenonT(30), <1>1, <2>2, EntryLemma DEF EntryUsage, MaybeEntry
  <2> QED  BY ZenonT(30), <2>1, <2>2
<1> QED  BY <1>1, <1>2

\* Replacing one entry moves the count by the difference of the two.
LEMMA UsageExcept ==
  ASSUME NEW m \in [Outpoint -> MaybeEntry], NEW n \in [Outpoint -> MaybeEntry],
         NEW o \in Outpoint, \A q \in Outpoint \ {o} : n[q] = m[q]
  PROVE  /\ SumFunction(Usages(m)) \in Int
         /\ SumFunction(Usages(n)) =
              SumFunction(Usages(m)) - EntryUsage(m[o]) + EntryUsage(n[o])
<1>1. Usages(m) \in [Outpoint -> Int] /\ Usages(n) \in [Outpoint -> Int]
  BY UsageType DEF Usages
<1>2. \A q \in Outpoint \ {o} : Usages(n)[q] = Usages(m)[q]
  BY DEF Usages
<1>3. Usages(m)[o] = EntryUsage(m[o]) /\ Usages(n)[o] = EntryUsage(n[o])
  BY DEF Usages
<1>4. IsFiniteSet(Outpoint)
  BY ZenonT(30), CoinAssumption
<1>5. /\ SumFunction(Usages(m)) \in Int
      /\ SumFunction(Usages(n)) = SumFunction(Usages(m)) - Usages(m)[o] + Usages(n)[o]
  BY <1>1, <1>2, <1>4, SumExcept
<1> QED  BY <1>3, <1>5

\* An empty cache counts nothing.
LEMMA UsageEmpty ==
  SumFunction(Usages(Empty)) = 0
<1>1. Usages(Empty) \in [Outpoint -> Int] /\ \A q \in Outpoint : Usages(Empty)[q] = 0
  BY DEF Usages, Empty, EntryUsage
<1> QED  BY <1>1, SumZero, CoinAssumption

\* FetchCoin counts what it copied in, at both levels it may have filled.
LEMMA FetchedExact ==
  ASSUME CacheInv, UsageExact, NEW o \in Outpoint
  PROVE  Exact(Fetched(o), FetchedUsage(o))
<1>1. cacheCoins \in CacheMaps /\ Fetched(o) \in CacheMaps
  BY ZenonT(30), MapsLemma, FetchedLemma DEF Good
<1> SUFFICES ASSUME NEW l \in Layer
             PROVE  FetchedUsage(o)[l] = SumFunction(Usages(Fetched(o)[l]))
  BY DEF Exact
<1>2. /\ cacheCoins[l] \in [Outpoint -> MaybeEntry]
      /\ Fetched(o)[l] \in [Outpoint -> MaybeEntry]
  BY ZenonT(30), <1>1 DEF CacheMaps
<1>3. \A q \in Outpoint \ {o} : Fetched(o)[l][q] = cacheCoins[l][q]
  BY <1>1, <1>2 DEF Fetched, Layer, CacheMaps
<1>4. cacheCoins[l][o] # Absent => Fetched(o)[l][o] = cacheCoins[l][o]
  BY ZenonT(30), <1>1, <1>2 DEF Fetched, Fetch, Layer, CacheMaps
<1>5. /\ SumFunction(Usages(cacheCoins[l])) \in Int
      /\ SumFunction(Usages(Fetched(o)[l])) =
           SumFunction(Usages(cacheCoins[l])) - EntryUsage(cacheCoins[l][o])
             + EntryUsage(Fetched(o)[l][o])
  BY ZenonT(30), <1>2, <1>3, UsageExcept
<1>6. cachedCoinsUsage[l] = SumFunction(Usages(cacheCoins[l]))
  BY ZenonT(30) DEF UsageExact, Usages
<1>7. EntryUsage(cacheCoins[l][o]) \in Int /\ EntryUsage(Fetched(o)[l][o]) \in Int
  BY ZenonT(30), <1>2, UsageType
<1>a. /\ \A s, x, z \in Int : z = 0 => s - z + x = s + x
      /\ \A s, x \in Int : s - x + x = s
  OBVIOUS
<1>8. CASE cacheCoins[l][o] = Absent
  <2>1. FetchedUsage(o)[l] = cachedCoinsUsage[l] + EntryUsage(Fetched(o)[l][o])
    BY <1>8 DEF FetchedUsage
  <2>2. EntryUsage(cacheCoins[l][o]) = 0
    BY ZenonT(30), <1>8 DEF EntryUsage
  <2>3. SumFunction(Usages(Fetched(o)[l])) =
          SumFunction(Usages(cacheCoins[l])) + EntryUsage(Fetched(o)[l][o])
    BY ZenonT(30), <1>5, <1>7, <1>a, <2>2
  <2> QED  BY ZenonT(30), <1>6, <2>1, <2>3
<1>9. CASE cacheCoins[l][o] # Absent
  <2>1. FetchedUsage(o)[l] = cachedCoinsUsage[l]
    BY ZenonT(30), <1>9 DEF FetchedUsage
  <2>2. EntryUsage(Fetched(o)[l][o]) = EntryUsage(cacheCoins[l][o])
    BY ZenonT(30), <1>4, <1>9
  <2> QED  BY ZenonT(30), <1>5, <1>6, <1>7, <1>a, <2>1, <2>2
<1> QED  BY ZenonT(30), <1>8, <1>9

\* Writing entry e for outpoint o at the top, with the count moved by the
\* difference, keeps the counts exact.
LEMMA TopExact ==
  ASSUME NEW cs \in CacheMaps, NEW us, DOMAIN us = Layer, Exact(cs, us),
         NEW t \in Layer, NEW o \in Outpoint, NEW e \in MaybeEntry, NEW d,
         d = us[t] - EntryUsage(cs[t][o]) + EntryUsage(e),
         cacheCoins' = [cs EXCEPT ![t][o] = e], cachedCoinsUsage' = [us EXCEPT ![t] = d]
  PROVE  UsageExact'
<1> SUFFICES ASSUME NEW l \in Layer
             PROVE  cachedCoinsUsage'[l] = SumFunction(Usages(cacheCoins'[l]))
  BY ZenonT(30) DEF UsageExact, Usages
<1>1. us[l] = SumFunction(Usages(cs[l]))
  BY ZenonT(30) DEF Exact
<1>2. CASE l # t
  <2>1. cacheCoins'[l] = cs[l] /\ cachedCoinsUsage'[l] = us[l]
    BY ZenonT(30), <1>2 DEF CacheMaps
  <2> QED  BY ZenonT(30), <1>1, <2>1
<1>3. CASE l = t
  <2>1. /\ cs[l] \in [Outpoint -> MaybeEntry]
        /\ cacheCoins'[l] = [cs[l] EXCEPT ![o] = e]
        /\ cachedCoinsUsage'[l] = us[l] - EntryUsage(cs[l][o]) + EntryUsage(e)
    BY ZenonT(30), <1>3 DEF CacheMaps
  <2>2. cacheCoins'[l] \in [Outpoint -> MaybeEntry] /\ cacheCoins'[l][o] = e
    BY ZenonT(30), <2>1
  <2>3. \A q \in Outpoint \ {o} : cacheCoins'[l][q] = cs[l][q]
    BY ZenonT(30), <2>1
  <2>4. SumFunction(Usages(cacheCoins'[l])) =
          SumFunction(Usages(cs[l])) - EntryUsage(cs[l][o]) + EntryUsage(cacheCoins'[l][o])
    BY ZenonT(30), <2>1, <2>2, <2>3, UsageExcept
  <2> QED  BY ZenonT(30), <1>1, <2>1, <2>2, <2>4
<1> QED  BY ZenonT(30), <1>2, <1>3

\* The coin an entry constructed by the operations has is the coin counted.
LEMMA MadeUsage ==
  ASSUME NEW c \in Value, NEW d \in BOOLEAN, NEW f \in BOOLEAN
  PROVE  MakeEntry(c, d, f) \in MaybeEntry /\ EntryUsage(MakeEntry(c, d, f)) = Usage(c)
  BY ZenonT(30), MakeEntryLemma DEF MaybeEntry, EntryUsage

\* What SpendCoin leaves behind takes no memory.
LEMMA SpentUsage ==
  ASSUME NEW e \in MaybeEntry
  PROVE  SpentEntry(e) \in MaybeEntry /\ EntryUsage(SpentEntry(e)) = 0
<1>1. CASE SpentEntry(e) = Absent
  BY <1>1 DEF MaybeEntry, EntryUsage
<1>2. CASE SpentEntry(e) = MakeEntry(Spent, TRUE, FALSE)
  BY ZenonT(30), <1>2, MadeUsage DEF Value, Usage
<1> QED  BY ZenonT(30), <1>1, <1>2 DEF SpentEntry

\* BatchWrite's adjustment for one entry is the difference it makes.
LEMMA MergeUsageLemma ==
  ASSUME NEW p \in MaybeEntry, NEW e \in MaybeEntry
  PROVE  /\ Merge(p, e) \in MaybeEntry
         /\ MergeUsage(p, e) \in Int
         /\ EntryUsage(Merge(p, e)) = EntryUsage(p) + MergeUsage(p, e)
<1>1. EntryUsage(p) \in Int /\ EntryUsage(e) \in Int
  BY ZenonT(30), UsageType
<1>2. CASE e = Absent \/ ~e.dirty
  <2>1. Merge(p, e) = p /\ MergeUsage(p, e) = 0
    BY ZenonT(30), <1>2 DEF Merge, MergeUsage
  <2> QED  BY <1>1, <2>1
<1>3. CASE e # Absent /\ e.dirty /\ p = Absent
  <2>1. /\ e.coin \in Value /\ e.fresh \in BOOLEAN
        /\ EntryUsage(e) = Usage(e.coin) /\ EntryUsage(p) = 0
    BY ZenonT(30), <1>3, EntryLemma DEF MaybeEntry, EntryUsage
  <2>2. CASE e.fresh /\ e.coin = Spent
    <3>1. Merge(p, e) = Absent /\ MergeUsage(p, e) = 0
      BY ZenonT(30), <1>3, <2>2 DEF Merge, MergeUsage
    <3>2. Merge(p, e) = p
      BY ZenonT(30), <1>3, <3>1
    <3> QED  BY <1>1, <3>1, <3>2
  <2>3. CASE ~(e.fresh /\ e.coin = Spent)
    <3>1. Merge(p, e) = MakeEntry(e.coin, TRUE, e.fresh)
      BY ZenonT(30), <1>3, <2>3 DEF Merge
    <3>2. Merge(p, e) \in MaybeEntry /\ EntryUsage(Merge(p, e)) = Usage(e.coin)
      BY ZenonT(30), <2>1, <3>1, MadeUsage
    <3>3. MergeUsage(p, e) = 0 + Usage(e.coin)
      BY ZenonT(30), <1>3, <2>3 DEF MergeUsage
    <3> QED  BY <1>1, <2>1, <3>2, <3>3
  <2> QED  BY ZenonT(30), <2>2, <2>3
<1>4. CASE e # Absent /\ e.dirty /\ p # Absent
  <2>1. /\ e.coin \in Value /\ p.fresh \in BOOLEAN
        /\ EntryUsage(e) = Usage(e.coin) /\ EntryUsage(p) = Usage(p.coin)
    BY ZenonT(30), <1>4, EntryLemma DEF MaybeEntry, EntryUsage
  <2>2. CASE p.fresh /\ e.coin = Spent
    <3>1. Merge(p, e) = Absent /\ MergeUsage(p, e) = (-Usage(p.coin)) + 0
      BY ZenonT(30), <1>4, <2>2 DEF Merge, MergeUsage
    <3>2. EntryUsage(Merge(p, e)) = 0 /\ Merge(p, e) \in MaybeEntry
      BY ZenonT(30), <3>1 DEF EntryUsage, MaybeEntry
    <3>3. \A x \in Int : (-x) + 0 \in Int /\ x + ((-x) + 0) = 0
      OBVIOUS
    <3> QED  BY ZenonT(30), <1>1, <2>1, <3>1, <3>2, <3>3
  <2>3. CASE ~(p.fresh /\ e.coin = Spent)
    <3>1. Merge(p, e) = MakeEntry(e.coin, TRUE, p.fresh)
      BY ZenonT(30), <1>4, <2>3 DEF Merge
    <3>2. Merge(p, e) \in MaybeEntry /\ EntryUsage(Merge(p, e)) = Usage(e.coin)
      BY ZenonT(30), <2>1, <3>1, MadeUsage
    <3>3. MergeUsage(p, e) = (-Usage(p.coin)) + Usage(e.coin)
      BY <1>4, <2>3 DEF MergeUsage
    <3> QED  BY <1>1, <2>1, <3>2, <3>3
  <2> QED  BY ZenonT(30), <2>2, <2>3
<1> QED  BY ZenonT(30), <1>2, <1>3, <1>4

\* What NextAndMaybeErase erases took no memory, and what it keeps is kept whole.
LEMMA SyncedUsage ==
  ASSUME NEW e \in MaybeEntry
  PROVE  EntryUsage(Synced(e)) = EntryUsage(e)
<1>1. CASE Synced(e) = e
  BY ZenonT(30), <1>1
<1>2. CASE e # Absent /\ e.coin = Spent /\ Synced(e) = Absent
  BY <1>2 DEF EntryUsage, Usage
<1>3. CASE e # Absent /\ Synced(e) = MakeEntry(e.coin, FALSE, FALSE)
  <2>1. e.coin \in Value /\ EntryUsage(e) = Usage(e.coin)
    BY ZenonT(30), <1>3, EntryLemma DEF MaybeEntry, EntryUsage
  <2> QED  BY ZenonT(30), <1>3, <2>1, MadeUsage
<1> QED  BY ZenonT(30), <1>1, <1>2, <1>3 DEF Synced, Flagged

\* Every operation keeps the running count equal to the memory of the entries.
LEMMA UsageStep ==
  CacheInv /\ UsageExact /\ [Next]_vars => UsageExact'
<1> SUFFICES ASSUME CacheInv, UsageExact, [Next]_vars PROVE UsageExact'
  BY ZenonT(30)
<1>1. /\ cacheCoins \in CacheMaps /\ DOMAIN cachedCoinsUsage = Layer /\ Top \in Layer
      /\ Exact(cacheCoins, cachedCoinsUsage)
      /\ cacheCoins["tip"] \in [Outpoint -> MaybeEntry]
      /\ cacheCoins["view"] \in [Outpoint -> MaybeEntry]
  BY ZenonT(30), MapsLemma DEF Good, CacheInv, TypeOK, Layer, Top, CacheMaps, Exact, UsageExact, Usages
<1>2. ASSUME NEW o \in Outpoint
      PROVE  /\ Fetched(o) \in CacheMaps /\ DOMAIN FetchedUsage(o) = Layer
             /\ Exact(Fetched(o), FetchedUsage(o))
  BY FetchedLemma, FetchedExact DEF Good, FetchedUsage
<1>3. ASSUME NEW o \in Outpoint, GetCoin(o) PROVE UsageExact'
  BY ZenonT(30), <1>2, <1>3 DEF GetCoin, Exact, UsageExact, Usages
<1>4. ASSUME NEW o \in Outpoint, SpendCoin(o) PROVE UsageExact'
  <2> DEFINE e == Fetched(o)[Top][o]
  <2>1. e \in MaybeEntry /\ FetchedUsage(o)[Top] \in Int
    <3>1. FetchedUsage(o)[Top] = SumFunction(Usages(Fetched(o)[Top]))
      BY ZenonT(30), <1>1, <1>2 DEF Exact
    <3>2. Fetched(o)[Top] \in [Outpoint -> MaybeEntry]
      BY ZenonT(30), <1>1, <1>2 DEF CacheMaps
    <3> QED  BY ZenonT(30), <3>1, <3>2, UsageExcept
  <2>2. /\ SpentEntry(e) \in MaybeEntry /\ EntryUsage(SpentEntry(e)) = 0
        /\ EntryUsage(e) \in Int
    BY ZenonT(30), <2>1, SpentUsage, UsageType
  <2>3. /\ cacheCoins' = [Fetched(o) EXCEPT ![Top][o] = SpentEntry(e)]
        /\ cachedCoinsUsage' =
             [FetchedUsage(o) EXCEPT ![Top] = FetchedUsage(o)[Top] - EntryUsage(e)]
    BY ZenonT(30), <1>4 DEF SpendCoin
  <2>4. FetchedUsage(o)[Top] - EntryUsage(e) =
          FetchedUsage(o)[Top] - EntryUsage(e) + EntryUsage(SpentEntry(e))
    BY <2>1, <2>2
  <2> QED  BY ZenonT(30), <1>1, <1>2, <2>2, <2>3, <2>4, TopExact
<1>5. ASSUME NEW o \in Outpoint, Uncache(o) PROVE UsageExact'
  <2> DEFINE e == cacheCoins["tip"][o]
  <2>1. /\ cacheCoins' = [cacheCoins EXCEPT !["tip"][o] = Absent]
        /\ cachedCoinsUsage' =
             [cachedCoinsUsage EXCEPT !["tip"] = cachedCoinsUsage["tip"] - Usage(e.coin)]
        /\ EntryUsage(e) = Usage(e.coin) /\ EntryUsage(Absent) = 0 /\ Absent \in MaybeEntry
    BY ZenonT(30), <1>5 DEF Uncache, EntryUsage, MaybeEntry
  <2>2. cachedCoinsUsage["tip"] \in Int /\ EntryUsage(e) \in Int /\ "tip" \in Layer
    <3>1. cachedCoinsUsage["tip"] = SumFunction(Usages(cacheCoins["tip"]))
      BY ZenonT(30), <1>1 DEF Exact, Layer
    <3> QED  BY ZenonT(30), <1>1, <3>1, UsageExcept, UsageType DEF Layer
  <2>3. cachedCoinsUsage["tip"] - Usage(e.coin) =
          cachedCoinsUsage["tip"] - EntryUsage(e) + EntryUsage(Absent)
    <3>1. \A x, y \in Int : x - y = x - y + 0
      OBVIOUS
    <3> QED  BY ZenonT(30), <2>1, <2>2, <3>1
  <2> QED  BY ZenonT(30), <1>1, <2>1, <2>2, <2>3, TopExact
<1>6. ASSUME NEW o \in Outpoint, NEW c \in Coin, NEW check \in BOOLEAN, NEW cb \in BOOLEAN,
             AddCoins(o, c, check, cb)
      PROVE  UsageExact'
  <2> DEFINE cs == IF check THEN Fetched(o) ELSE cacheCoins
             us == IF check THEN FetchedUsage(o) ELSE cachedCoinsUsage
             ow == IF check THEN TopMap[o] # Spent ELSE cb
             e == cs[Top][o]
  <2>1. AddCoin(cs, us, o, c, ow) /\ ow \in BOOLEAN
    BY ZenonT(30), <1>6 DEF AddCoins
  <2>2. cs \in CacheMaps /\ DOMAIN us = Layer /\ Exact(cs, us)
    BY ZenonT(30), <1>1, <1>2
  <2> HIDE DEF cs, us, ow
  <2>3. CASE cacheCoins' = cs /\ cachedCoinsUsage' = us
    BY <2>2, <2>3 DEF Exact, UsageExact, Usages
  <2>4. CASE /\ cacheCoins' = [cs EXCEPT ![Top][o] = Added(e, c, ow)]
             /\ cachedCoinsUsage' = [us EXCEPT ![Top] =
                  us[Top] - (IF e = Absent THEN 0 ELSE Usage(e.coin)) + Usage(c)]
    <3>1. Added(e, c, ow) \in MaybeEntry /\ EntryUsage(Added(e, c, ow)) = Usage(c)
      <4>1. c \in Value
        BY ZenonT(30) DEF Value
      <4> QED  BY ZenonT(30), <2>1, <4>1, MadeUsage DEF Added
    <3>2. us[Top] - (IF e = Absent THEN 0 ELSE Usage(e.coin)) + Usage(c) =
            us[Top] - EntryUsage(e) + EntryUsage(Added(e, c, ow))
      BY <3>1 DEF EntryUsage
    <3> QED  BY ZenonT(30), <1>1, <2>2, <2>4, <3>1, <3>2, TopExact
  <2> QED  BY ZenonT(30), <2>1, <2>3, <2>4 DEF AddCoin
<1>7. ASSUME NEW o \in Outpoint, NEW c \in Coin \ Unspendable, EmplaceCoinInternalDANGER(o, c)
      PROVE  UsageExact'
  <2> DEFINE e == MakeEntry(c, TRUE, FALSE)
  <2>1. /\ cacheCoins' = [cacheCoins EXCEPT !["tip"][o] = e]
        /\ cachedCoinsUsage' =
             [cachedCoinsUsage EXCEPT !["tip"] = cachedCoinsUsage["tip"] + Usage(c)]
        /\ EntryUsage(cacheCoins["tip"][o]) = 0
    BY ZenonT(30), <1>7 DEF EmplaceCoinInternalDANGER, EntryUsage
  <2>2. cachedCoinsUsage["tip"] \in Int /\ "tip" \in Layer
    <3>1. cachedCoinsUsage["tip"] = SumFunction(Usages(cacheCoins["tip"]))
      BY <1>1 DEF Exact, Layer
    <3> QED  BY ZenonT(30), <1>1, <3>1, UsageExcept DEF Layer
  <2>3. e \in MaybeEntry /\ EntryUsage(e) = Usage(c) /\ Usage(c) \in Int
    BY ZenonT(30), MadeUsage, UsageType DEF Value
  <2> HIDE DEF e
  <2>4. cachedCoinsUsage["tip"] + Usage(c) =
          cachedCoinsUsage["tip"] - EntryUsage(cacheCoins["tip"][o]) + EntryUsage(e)
    <3>1. \A x, y \in Int : x + y = x - 0 + y
      OBVIOUS
    <3> QED  BY ZenonT(30), <2>1, <2>2, <2>3, <3>1
  <2> QED  BY ZenonT(30), <1>1, <2>1, <2>2, <2>3, <2>4, TopExact
<1>8. CASE UNCHANGED <<cacheCoins, cachedCoinsUsage>>
  BY ZenonT(30), <1>8 DEF UsageExact
<1>9. CASE CloseView
  <2>1. /\ cacheCoins'["view"] = Empty /\ cachedCoinsUsage'["view"] = 0
        /\ cacheCoins'["tip"] = cacheCoins["tip"]
        /\ cachedCoinsUsage'["tip"] = cachedCoinsUsage["tip"]
    BY <1>1, <1>9 DEF CloseView, CacheMaps, Layer
  <2> QED  BY ZenonT(30), <1>1, <2>1, UsageEmpty DEF UsageExact, Usages, Layer
<1>10. CASE FlushView
  <2> DEFINE T == cacheCoins["tip"]
             V == cacheCoins["view"]
             M == [o \in Outpoint |-> Merge(T[o], V[o])]
             d == [o \in Outpoint |-> MergeUsage(T[o], V[o])]
  <2>1. CASE ~UNCHANGED <<cacheCoins, cachedCoinsUsage>>
    <3>1. /\ cacheCoins'["view"] = Empty /\ cachedCoinsUsage'["view"] = 0
          /\ cacheCoins'["tip"] = M
          /\ cachedCoinsUsage'["tip"] = cachedCoinsUsage["tip"] + SumFunction(d)
      BY ZenonT(30), <1>1, <1>10, <2>1 DEF FlushView, CacheMaps, Layer
    <3>2. \A o \in Outpoint :
            /\ MergeUsage(T[o], V[o]) \in Int /\ EntryUsage(T[o]) \in Int
            /\ EntryUsage(Merge(T[o], V[o])) \in Int
            /\ EntryUsage(Merge(T[o], V[o])) = EntryUsage(T[o]) + MergeUsage(T[o], V[o])
      BY ZenonT(30), <1>1, MergeUsageLemma, UsageType
    <3>3. /\ d \in [Outpoint -> Int]
          /\ Usages(T) \in [Outpoint -> Int] /\ Usages(M) \in [Outpoint -> Int]
      BY ZenonT(30), <3>2 DEF Usages
    <3>4. \A o \in Outpoint : Usages(M)[o] = Usages(T)[o] + d[o]
      BY ZenonT(30), <3>2 DEF Usages
    <3> HIDE DEF M, d
    <3>5. SumFunction(Usages(M)) = SumFunction(Usages(T)) + SumFunction(d)
      <4>1. IsFiniteSet(Outpoint)
        BY ZenonT(30), CoinAssumption
      <4> QED  BY <3>3, <3>4, <4>1, SumPlus
    <3>6. cachedCoinsUsage["tip"] = SumFunction(Usages(T))
      BY ZenonT(30), <1>1 DEF Exact, Layer
    <3>7. \A l \in Layer : cachedCoinsUsage'[l] = SumFunction(Usages(cacheCoins'[l]))
      BY ZenonT(30), <3>1, <3>5, <3>6, UsageEmpty DEF Layer
    <3> QED  BY ZenonT(30), <3>7 DEF UsageExact, Usages
  <2> QED  BY ZenonT(30), <1>8, <2>1
<1>11. CASE FlushTip
  <2>1. /\ cacheCoins'["tip"] = Empty /\ cachedCoinsUsage'["tip"] = 0
        /\ cacheCoins'["view"] = cacheCoins["view"]
        /\ cachedCoinsUsage'["view"] = cachedCoinsUsage["view"]
    BY ZenonT(30), <1>1, <1>11 DEF FlushTip, CacheMaps, Layer
  <2> QED  BY ZenonT(30), <1>1, <2>1, UsageEmpty DEF UsageExact, Usages, Layer
<1>12. CASE SyncTip
  <2>1. /\ cacheCoins'["tip"] = [o \in Outpoint |-> Synced(cacheCoins["tip"][o])]
        /\ cacheCoins'["view"] = cacheCoins["view"] /\ cachedCoinsUsage' = cachedCoinsUsage
    BY ZenonT(30), <1>1, <1>12 DEF SyncTip, CacheMaps, Layer
  <2>2. Usages(cacheCoins'["tip"]) = Usages(cacheCoins["tip"])
    BY ZenonT(30), <1>1, <2>1, SyncedUsage DEF Usages
  <2>3. \A l \in Layer : cachedCoinsUsage'[l] = SumFunction(Usages(cacheCoins'[l]))
    BY ZenonT(30), <1>1, <2>1, <2>2 DEF Exact, Layer
  <2> QED  BY <2>3 DEF UsageExact, Usages
<1>13. CASE GetBestBlock \/ (\E h \in Hash : SetBestBlock(h)) \/ OpenView \/ UNCHANGED vars
  BY <1>8, <1>13 DEF GetBestBlock, SetBestBlock, OpenView, vars
<1> QED
  BY ZenonT(30), <1>3, <1>4, <1>5, <1>6, <1>7, <1>9, <1>10, <1>11, <1>12, <1>13 DEF Next

\* cachedCoinsUsage is at all times exactly the memory of the coins in the cache,
\* the sum SanityCheck recomputes: no sequence of fetches, additions, spends,
\* uncaches, merges and syncs makes the running count drift.
THEOREM CacheUsageExact == Spec => []UsageExact
<1>1. Init => UsageExact
  <2> SUFFICES ASSUME Init PROVE UsageExact
    OBVIOUS
  <2>1. \A l \in Layer : cachedCoinsUsage[l] = 0 /\ cacheCoins[l] = Empty
    BY DEF Init
  <2> QED  BY <2>1, UsageEmpty DEF UsageExact, Usages
<1>2. CacheInv /\ UsageExact /\ [Next]_vars => UsageExact'
  BY UsageStep
<1>3. QED  BY <1>1, <1>2, CacheInvariant, PTL DEF Spec
=============================================================================
