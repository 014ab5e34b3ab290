-------------------------- MODULE IndexSyncProofs ---------------------------
(***************************************************************************)
(* For every tree of blocks, backlog of callbacks and number of crashes:   *)
(* the index never fails over its own data, and for want of block or undo  *)
(* data only when it must leave, after a restart, a block it committed too *)
(* early; what it has taken in can be looked up; and a synced index with   *)
(* no callback to come has the tip.                                        *)
(*                                                                         *)
(* The argument: an entry, wherever it stands, is that of its block. A     *)
(* block that was committed and is no longer on the chain the index is at  *)
(* has an entry under its hash, so that an entry by height may be          *)
(* overwritten. The index commits only where it is, so that it finds its   *)
(* place again after a crash. And a block is aimed at only when its parent *)
(* is on the chain the index is at, so that the way there ends.            *)
(*                                                                         *)
(* Nothing is missed either: from where the index is, the tip is behind it *)
(* or a callback in the queue brings a block that follows, and the same    *)
(* from there.                                                             *)
(*                                                                         *)
(* And a block the index is at can be read back unless it is on the chain  *)
(* of the last commit: what it adds was connected since the start, or is   *)
(* on the chain that the start found on disk.                              *)
(***************************************************************************)
EXTENDS IndexSync, WellFoundedInduction, SequenceTheorems, TLAPS

\* Most of the steps need no arithmetic; the others say SMT.
USE ZenonT(30)

Exact ==
  /\ \A h \in Heights : heightDB[h] # None =>
       /\ nHeight[heightDB[h].hash] = h
       /\ heightDB[h].muhash = Chain[heightDB[h].hash]
  /\ \A b \in Block : hashDB[b] # None => hashDB[b] = [hash |-> b, muhash |-> Chain[b]]

\* LookUpOne finds an entry.
Found(b) ==
  /\ heightDB[nHeight[b]] # None
  /\ heightDB[nHeight[b]].hash = b \/ hashDB[b] # None

Kept ==
  /\ muhashDB = Chain[bestDB]
  /\ \A b \in Chain[m_current_block_hash] \cup Chain[bestDB] : Found(b)
  /\ \A b \in Chain[bestDB] \ Chain[m_current_block_hash] : hashDB[b] # None

\* A block that is aimed at follows the chain the index is at.
Follows(b, last) == IF b = Genesis THEN last = None ELSE Parent[b] \in Chain[last]

Placed ==
  /\ at = "idle" => m_synced /\ m_current_block_hash = m_best_block_index
  /\ at = "rewind" =>
       target \in Block /\ m_current_block_hash = iter_tip /\ Follows(target, iter_tip)
  /\ at \in {"next", "check"} => ~m_synced /\ m_current_block_hash = pindex
  /\ at = "check" => m_best_block_index = pindex
  /\ at \in {"refused", "off"} => ~m_synced

GenesisConnected == [event |-> "connected", block |-> Genesis]

\* The genesis block is either there from the start, or the first to be connected,
\* and can always be read.
Started ==
  /\ Genesis \in undo /\ Genesis \in diskUndo
  /\ diskTip = None => bestDB = None /\ m_synced
  /\ diskTip # None => tip # None
  /\ tip = None => at = "idle" /\ m_best_block_index = None /\ queue = <<>>
  /\ m_synced /\ m_best_block_index = None =>
       \/ tip = None
       \/ at = "idle" /\ queue # <<>> /\ Head(queue) = GenesisConnected
       \/ at = "rewind" /\ target = Genesis
  /\ \A i \in DOMAIN queue : queue[i] = GenesisConnected =>
       i = 1 /\ at = "idle" /\ m_best_block_index = None
  /\ \A i \in DOMAIN queue : queue[i].event = "flushed" => diskTip # None

Unfailed == at # "failed"

IndexInv == TypeOK /\ Unfailed /\ Exact /\ Kept /\ Placed /\ Started

-----------------------------------------------------------------------------
\* Chains.  A set of blocks is closed when it has the parents of its members.
Closed(S) == \A c \in S : Parent[c] \in S \cup {None}

LEMMA ChainDef ==
  /\ Chain[None] = {}
  /\ \A b \in Block : Chain[b] \subseteq Block /\ b \in Chain[b] /\ Closed(Chain[b])
  /\ \A b \in Block, S \in SUBSET Block : b \in S /\ Closed(S) => Chain[b] \subseteq S
<1>1. \A b \in BlockOrNone :
        Chain[b] = {a \in Block : b # None /\ \A S \in SUBSET Block : b \in S /\ Closed(S) => a \in S}
  BY DEF Chain, Closed
<1>2. \A b \in Block : b \in BlockOrNone /\ b # None
  BY IndexSyncAssumption DEF BlockOrNone
<1>3. Chain[None] = {}
  BY <1>1 DEF BlockOrNone
<1>4. ASSUME NEW b \in Block, NEW S \in SUBSET Block, b \in S, Closed(S)
      PROVE  Chain[b] \subseteq S
  BY <1>1, <1>2, <1>4
<1>5. ASSUME NEW b \in Block
      PROVE  Chain[b] \subseteq Block /\ b \in Chain[b] /\ Closed(Chain[b])
  <2>1. Chain[b] = {a \in Block : \A S \in SUBSET Block : b \in S /\ Closed(S) => a \in S}
    <3>1. b \in BlockOrNone /\ b # None
      BY <1>2
    <3> QED BY <1>1, <3>1
  <2>2. ASSUME NEW c \in Chain[b], Parent[c] # None PROVE Parent[c] \in Chain[b]
    <3>1. c \in Block /\ Parent[c] \in Block
      BY <2>1, <2>2, IndexSyncAssumption DEF BlockOrNone
    <3>2. ASSUME NEW S \in SUBSET Block, b \in S, Closed(S) PROVE Parent[c] \in S
      BY <2>1, <2>2, <3>1, <3>2 DEF Closed
    <3> QED BY <2>1, <3>1, <3>2
  <2> QED BY <2>1, <2>2 DEF Closed
<1> QED BY <1>3, <1>4, <1>5

\* A chain is its last block and the chain of that block's parent, which is lower.
LEMMA ChainStep ==
  ASSUME NEW b \in Block
  PROVE  /\ Chain[b] = {b} \cup Chain[Parent[b]]
         /\ b \notin Chain[Parent[b]]
         /\ Genesis \in Chain[b]
         /\ \A a \in Chain[b] : nHeight[a] <= nHeight[b]
         /\ \A a \in Chain[Parent[b]] : nHeight[a] < nHeight[b]
<1>a. /\ Parent[b] \in Block \cup {None} /\ (Parent[b] = None <=> b = Genesis)
      /\ \A c \in Block : nHeight[c] \in Nat /\ Parent[c] \in Block \cup {None}
      /\ \A c \in Block : Parent[c] # None => nHeight[c] = nHeight[Parent[c]] + 1
      /\ None \notin Block /\ Genesis \in Block
  BY IndexSyncAssumption DEF BlockOrNone
<1>1. ASSUME NEW c \in Block PROVE \A a \in Chain[c] : nHeight[a] <= nHeight[c]
  <2> DEFINE S == {a \in Block : nHeight[a] <= nHeight[c]}
  <2>1. c \in S /\ S \in SUBSET Block
    BY SMT, <1>a
  <2>2. ASSUME NEW d \in S PROVE Parent[d] \in S \cup {None}
    <3>1. CASE Parent[d] # None
      <4>1. Parent[d] \in Block /\ nHeight[d] = nHeight[Parent[d]] + 1
        BY <1>a, <3>1
      <4>2. nHeight[d] \in Nat /\ nHeight[Parent[d]] \in Nat /\ nHeight[c] \in Nat /\ nHeight[d] <= nHeight[c]
        BY <1>a, <4>1
      <4>3. nHeight[Parent[d]] <= nHeight[c]
        BY SMT, <4>1, <4>2
      <4> QED BY <4>1, <4>3
    <3> QED BY <3>1
  <2>3. Closed(S)
    BY <2>2 DEF Closed
  <2>4. Chain[c] \subseteq S
    BY <2>1, <2>3, ChainDef
  <2> QED BY <2>4
<1>2. Chain[Parent[b]] \subseteq Block /\ Closed(Chain[Parent[b]])
  BY <1>a, ChainDef DEF Closed
<1>3. Chain[b] \subseteq {b} \cup Chain[Parent[b]]
  <2> DEFINE S == {b} \cup Chain[Parent[b]]
  <2>1. S \in SUBSET Block /\ b \in S
    BY <1>2
  <2>2. Parent[b] \in S \cup {None}
    BY <1>a, ChainDef
  <2>3. Closed(S)
    BY <1>2, <2>2 DEF Closed
  <2> QED BY <2>1, <2>3, ChainDef
<1>4. Chain[Parent[b]] \subseteq Chain[b]
  <2>1. CASE Parent[b] = None
    BY <2>1, ChainDef
  <2>2. CASE Parent[b] # None
    <3>1. Parent[b] \in Chain[b] /\ Closed(Chain[b]) /\ Chain[b] \in SUBSET Block
      BY <2>2, ChainDef DEF Closed
    <3> QED BY <1>a, <2>2, <3>1, ChainDef
  <2> QED BY <2>1, <2>2
<1>5. \A a \in Chain[Parent[b]] : nHeight[a] < nHeight[b]
  <2>1. CASE Parent[b] = None
    BY <2>1, ChainDef
  <2>2. CASE Parent[b] # None
    <3>1. Parent[b] \in Block /\ nHeight[b] = nHeight[Parent[b]] + 1
      BY <1>a, <2>2
    <3>2. ASSUME NEW a \in Chain[Parent[b]] PROVE nHeight[a] < nHeight[b]
      <4>1. nHeight[a] <= nHeight[Parent[b]]
        BY <1>1, <3>1
      <4>2. nHeight[a] \in Nat /\ nHeight[Parent[b]] \in Nat
        BY <1>a, <1>2, <3>1
      <4> QED BY SMT, <3>1, <4>1, <4>2
    <3> QED BY <3>2
  <2> QED BY <2>1, <2>2
<1>6. b \notin Chain[Parent[b]]
  <2>1. ~(nHeight[b] < nHeight[b])
    BY SMT, <1>a
  <2> QED BY <1>5, <2>1
<1>7. Genesis \in Chain[b]
  \* The lowest block of the chain has no parent.
  <2> DEFINE T == {nHeight[a] : a \in Chain[b]}
  <2>1. T \subseteq Nat /\ T # {}
    BY SMT, <1>a, ChainDef
  <2>2. PICK h \in T : \A k \in T : h <= k
    <3> DEFINE R == {ss \in Nat \X Nat : ss[1] < ss[2]}
    <3>1. IsWellFoundedOn(R, Nat)
      BY NatLessThanWellFounded DEF OpToRel
    <3> HIDE DEF T
    <3>2. PICK h \in T : \A k \in T : ~(<<k, h>> \in R)
      BY <2>1, <3>1, WFMin
    <3>3. ASSUME NEW k \in T PROVE h <= k
      <4>1. h \in Nat /\ k \in Nat
        BY <2>1
      <4>2. ~(k < h)
        BY <3>2, <4>1
      <4> QED BY SMT, <4>1, <4>2
    <3> QED BY <3>3
  <2>3. PICK a \in Chain[b] : nHeight[a] = h
    BY <2>2
  <2>4. a \in Block
    BY <2>3, ChainDef
  <2>5. Parent[a] = None
    <3> SUFFICES ASSUME Parent[a] # None PROVE FALSE
      OBVIOUS
    <3>1. Parent[a] \in Chain[b]
      BY <2>3, ChainDef DEF Closed
    <3>2. nHeight[Parent[a]] \in T /\ nHeight[a] = nHeight[Parent[a]] + 1 /\ nHeight[Parent[a]] \in Nat
      BY <1>a, <2>1, <2>4, <3>1
    <3> QED BY SMT, <2>2, <2>3, <3>2
  <2> QED BY <2>3, <2>4, <2>5, IndexSyncAssumption
<1>8. b \in Chain[b]
  BY ChainDef
<1> QED BY <1>1, <1>3, <1>4, <1>5, <1>6, <1>7, <1>8

-----------------------------------------------------------------------------
\* The entries, and the statistics that go with them.
Data == Exact /\ Kept /\ m_muhash = Chain[m_current_block_hash]

DataType ==
  /\ bestDB \in BlockOrNone /\ m_current_block_hash \in BlockOrNone /\ muhashDB \subseteq Block
  /\ heightDB \in [Heights -> Entry \cup {None}] /\ hashDB \in [Block -> Entry \cup {None}]

\* An entry that is found is that of the block, and its height has one.
LEMMA FoundEntry ==
  ASSUME DataType, Exact, NEW b \in Block, Found(b)
  PROVE  /\ nHeight[b] \in Heights
         /\ heightDB[nHeight[b]] # None /\ heightDB[nHeight[b]] \in Entry
         /\ LookUpOne(b) = [hash |-> b, muhash |-> Chain[b]]
<1>1. nHeight[b] \in Heights
  BY DEF Heights
<1>2. heightDB[nHeight[b]] # None /\ heightDB[nHeight[b]] \in Entry
  BY <1>1 DEF DataType, Found
<1>3. CASE heightDB[nHeight[b]].hash = b
  <2>1. heightDB[nHeight[b]] = [hash |-> b, muhash |-> Chain[b]]
    BY <1>1, <1>2, <1>3 DEF Exact, Entry
  <2> QED BY <1>1, <1>2, <1>3, <2>1 DEF LookUpOne
<1>4. CASE heightDB[nHeight[b]].hash # b
  BY <1>1, <1>2, <1>4 DEF Found, Exact, LookUpOne
<1> QED BY <1>1, <1>2, <1>3, <1>4

\* The last block of the index, with a parent, can be removed.
LEMMA RemoveSucceeds ==
  ASSUME DataType, Data, NEW b \in Block \ {Genesis}, m_current_block_hash = b
  PROVE  ~CustomRemoveFails(b) /\ Parent[b] \in Block /\ Found(b)
<1> DEFINE p == Parent[b]
<1>1. p \in Block /\ nHeight[p] = nHeight[b] - 1 /\ b \in Chain[b] /\ p \in Chain[b]
  <2>1. p \in Block /\ nHeight[b] = nHeight[p] + 1 /\ nHeight[p] \in Nat
    BY IndexSyncAssumption DEF BlockOrNone
  <2>2. b \in Chain[b] /\ p \in Chain[b]
    BY SMT, <2>1, ChainDef, ChainStep
  <2> QED BY SMT, <2>1, <2>2
<1>2. Found(b) /\ Found(p)
  BY <1>1 DEF Data, Kept
<1>3. LookUpOne(p) = [hash |-> p, muhash |-> Chain[p]] /\ heightDB[nHeight[p]] # None
  BY <1>1, <1>2, FoundEntry DEF Data
<1>4. Previous(b) = LookUpOne(p)
  BY <1>1, <1>3 DEF Previous, LookUpOne
<1>5. Previous(b) # None /\ Previous(b).muhash = Chain[p]
  <2>1. LookUpOne(p) \in Entry
    <3>1. Chain[p] \subseteq Block
      BY <1>1, ChainDef
    <3> QED BY SMT, <1>1, <1>3, <3>1 DEF Entry
  <2>2. LookUpOne(p) # None
    BY <1>1, <1>2, <1>3 DEF LookUpOne, Found
  <2> QED BY SMT, <1>3, <1>4, <2>2
<1>6. m_muhash \ {b} = Chain[p]
  BY SMT, ChainStep DEF Data
<1> QED BY <1>1, <1>2, <1>5, <1>6 DEF CustomRemoveFails, Found

\* Removing it keeps what was taken in.
LEMMA RemoveKeeps ==
  ASSUME DataType, Data, NEW b \in Block \ {Genesis}, m_current_block_hash = b,
         CustomRemove(b), UNCHANGED <<heightDB, bestDB, muhashDB>>
  PROVE  DataType' /\ Data'
<1> DEFINE h == nHeight[b]
           e == heightDB[h]
<1>1. Parent[b] \in Block /\ Found(b)
  BY RemoveSucceeds
<1>2. h \in Heights /\ e # None /\ e \in Entry
  BY <1>1, FoundEntry DEF Data
<1>3. e.hash \in Block /\ nHeight[e.hash] = h /\ e = [hash |-> e.hash, muhash |-> Chain[e.hash]]
  BY <1>2 DEF Entry, Data, Exact
<1>4. /\ hashDB' = [hashDB EXCEPT ![e.hash] = e] /\ m_muhash' = m_muhash \ {b}
      /\ m_current_block_hash' = Parent[b]
  BY DEF CustomRemove, CopyHeightIndexToHashIndex
<1> HIDE DEF e
<1>5. \A x \in Block : hashDB'[x] = IF x = e.hash THEN e ELSE hashDB[x]
  BY <1>3, <1>4 DEF DataType
<1>6. DataType'
  BY <1>1, <1>2, <1>3, <1>4 DEF DataType, BlockOrNone
<1>7. Exact'
  BY <1>3, <1>5 DEF Data, Exact
<1>8. /\ Chain[b] = {b} \cup Chain[Parent[b]] /\ b \notin Chain[Parent[b]]
      /\ Chain[bestDB] \subseteq Block /\ Chain[b] \subseteq Block
  BY ChainStep, ChainDef DEF DataType, BlockOrNone
<1>9. \A x \in Block : Found(x) => Found(x)'
  BY <1>2, <1>5 DEF Found
<1>10. hashDB'[b] # None
  BY <1>1, <1>2, <1>5 DEF Found, e
<1>11. Kept'
  <2>1. muhashDB' = Chain[bestDB']
    BY DEF Data, Kept
  <2>2. ASSUME NEW x \in Chain[m_current_block_hash'] \cup Chain[bestDB'] PROVE Found(x)'
    BY <1>4, <1>8, <1>9 DEF Data, Kept
  <2>3. ASSUME NEW x \in Chain[bestDB'] \ Chain[m_current_block_hash'] PROVE hashDB'[x] # None
    <3>1. CASE x = b
      BY <3>1, <1>10
    <3>2. CASE x # b
      <4>1. x \in Chain[bestDB] \ Chain[m_current_block_hash] /\ x \in Block
        BY <3>2, <1>4, <1>8
      <4>2. hashDB[x] # None
        BY <4>1 DEF Data, Kept
      <4> QED BY <4>1, <4>2, <1>2, <1>5
    <3> QED BY <3>1, <3>2
  <2> QED BY <2>1, <2>2, <2>3 DEF Kept
<1>12. m_muhash' = Chain[m_current_block_hash']
  BY <1>4, <1>8 DEF Data
<1> QED BY <1>6, <1>7, <1>11, <1>12 DEF Data

\* Adding a block to its parent, with or without a commit, keeps what was taken in.
LEMMA AppendKeeps ==
  ASSUME DataType, Data, NEW b \in Block, m_current_block_hash = Parent[b],
         CustomAppend(b), UNCHANGED hashDB,
         UNCHANGED <<bestDB, muhashDB>> \/ (bestDB' = b /\ muhashDB' = m_muhash')
  PROVE  DataType' /\ Data'
<1> DEFINE h == nHeight[b]
           e == [hash |-> b, muhash |-> Chain[b]]
<1>1. /\ Chain[b] = {b} \cup Chain[Parent[b]] /\ b \notin Chain[Parent[b]]
      /\ \A a \in Chain[Parent[b]] : nHeight[a] < h
  BY ChainStep
<1>2. Chain[bestDB] \subseteq Block /\ Chain[b] \subseteq Block
  BY ChainDef DEF DataType, BlockOrNone
<1>3. m_muhash' = Chain[b] /\ m_current_block_hash' = b
  BY <1>1 DEF CustomAppend, Data
<1>4. heightDB' = [heightDB EXCEPT ![h] = e]
  BY <1>3 DEF CustomAppend
<1>5. e \in Entry /\ h \in Heights /\ h \in Nat /\ e # None
  <2>1. e \in Entry /\ h \in Heights /\ h \in Nat
    BY <1>2, IndexSyncAssumption DEF Entry, Heights
  <2>2. e # None
    BY IndexSyncAssumption, <2>1
  <2> QED BY <2>1, <2>2
<1>6. e.hash = b /\ e.muhash = Chain[b]
  OBVIOUS
<1> HIDE DEF e
<1>7. \A k \in Heights : heightDB'[k] = IF k = h THEN e ELSE heightDB[k]
  BY <1>4, <1>5 DEF DataType
<1>8. DataType'
  BY <1>2, <1>3, <1>4, <1>5 DEF DataType, BlockOrNone
<1>9. Exact'
  BY <1>6, <1>7 DEF Data, Exact
<1>10. \A x \in Block : nHeight[x] \in Heights /\ nHeight[x] \in Nat
  BY IndexSyncAssumption DEF Heights
<1>11. Kept'
  <2>1. muhashDB' = Chain[bestDB']
    BY <1>3 DEF Data, Kept
  <2>2. Found(b)'
    BY <1>5, <1>6, <1>7 DEF Found
  <2>3. ASSUME NEW x \in Block, Found(x), nHeight[x] # h \/ hashDB[x] # None PROVE Found(x)'
    BY <2>3, <1>5, <1>7, <1>10 DEF Found
  <2>4. ASSUME NEW x \in Chain[m_current_block_hash'] PROVE Found(x)'
    <3>1. CASE x = b
      BY <2>2, <3>1
    <3>2. CASE x # b
      <4>1. x \in Chain[m_current_block_hash] /\ x \in Block /\ nHeight[x] < h
        BY <3>2, <1>1, <1>2, <1>3
      <4>2. nHeight[x] # h
        BY SMT, <4>1, <1>5, <1>10
      <4> QED BY <2>3, <4>1, <4>2 DEF Data, Kept
    <3> QED BY <3>1, <3>2
  <2>5. ASSUME NEW x \in Chain[bestDB'], x \notin Chain[m_current_block_hash']
        PROVE  Found(x)' /\ hashDB'[x] # None
    <3>1. x \in Chain[bestDB] \ Chain[m_current_block_hash] /\ x \in Block
      BY <2>5, <1>1, <1>2, <1>3
    <3>2. hashDB[x] # None /\ Found(x)
      BY <3>1 DEF Data, Kept
    <3> QED BY <2>3, <3>1, <3>2
  <2> QED BY <2>1, <2>4, <2>5 DEF Kept
<1> QED BY <1>3, <1>8, <1>9, <1>11 DEF Data

\* A commit at the place of the index keeps what was taken in.
LEMMA CommitKeeps ==
  ASSUME DataType, Data, Commit(m_current_block_hash, m_muhash),
         UNCHANGED <<heightDB, hashDB, content>>
  PROVE  DataType' /\ Data'
<1>a. m_muhash' = m_muhash /\ m_current_block_hash' = m_current_block_hash
  BY DEF content
<1>b. m_current_block_hash \in BlockOrNone => Chain[m_current_block_hash] \subseteq Block
  BY ChainDef DEF BlockOrNone
<1>1. CASE bestDB' = bestDB /\ muhashDB' = muhashDB
  BY <1>1, <1>a DEF DataType, Data, Exact, Kept, Found
<1>2. CASE bestDB' = m_current_block_hash /\ muhashDB' = m_muhash
  <2>1. DataType'
    BY <1>2, <1>a, <1>b DEF DataType, Data
  <2>2. Exact'
    BY <1>2 DEF Data, Exact
  <2>3. Kept'
    BY <1>2, <1>a DEF Data, Kept, Found
  <2> QED BY <1>2, <1>a, <2>1, <2>2, <2>3 DEF Data
<1> QED BY <1>1, <1>2 DEF Commit

-----------------------------------------------------------------------------
\* The types of the rest of the state.
CallbackType == [event : {"connected", "flushed"}, block : Block]

WorkType ==
  /\ tip \in BlockOrNone /\ diskTip \in BlockOrNone /\ m_best_block_index \in BlockOrNone
  /\ pindex \in BlockOrNone /\ target \in BlockOrNone /\ iter_tip \in BlockOrNone
  /\ undo \subseteq Block /\ diskUndo \subseteq undo
  /\ queue \in Seq(CallbackType)
  /\ m_synced \in BOOLEAN
  /\ at \in {"idle", "next", "rewind", "check", "off", "refused", "failed", "unread"}

Parts == WorkType /\ DataType /\ Data /\ Unfailed /\ Placed /\ Started

LEMMA InvParts == (IndexInv <=> Parts) /\ (IndexInv <=> Parts)'
<1>1. IndexInv <=> Parts
  BY DEF IndexInv, Parts, TypeOK, WorkType, DataType, Data, Unfailed, CallbackType
<1> QED BY <1>1, PTL

LEMMA TailQueue ==
  ASSUME queue \in Seq(CallbackType), queue # <<>>
  PROVE  /\ Tail(queue) \in Seq(CallbackType)
         /\ 1 \in DOMAIN queue /\ Event = queue[1] /\ Event \in CallbackType
         /\ \A i \in DOMAIN Tail(queue) :
              i + 1 \in DOMAIN queue /\ i + 1 # 1 /\ Tail(queue)[i] = queue[i + 1]
<1>1. Len(queue) \in Nat /\ Len(queue) # 0 /\ DOMAIN queue = 1..Len(queue)
  BY LenProperties, EmptySeq
<1>2. Tail(queue) \in Seq(CallbackType) /\ Len(Tail(queue)) = Len(queue) - 1
  BY HeadTailProperties
<1>3. DOMAIN Tail(queue) = 1..(Len(queue) - 1)
  BY <1>2, LenProperties
<1>4. \A i \in 1..(Len(queue) - 1) : Tail(queue)[i] = queue[i + 1]
  BY <1>2, HeadTailProperties
<1>5. Event = queue[1] /\ 1 \in DOMAIN queue
  BY SMT, <1>1 DEF Event
<1>6. Event \in CallbackType
  BY <1>5, ElementOfSeq, <1>1
<1>7. \A i \in 1..(Len(queue) - 1) : i + 1 \in 1..Len(queue) /\ i + 1 # 1
  BY SMT, <1>1
<1> QED BY <1>1, <1>2, <1>3, <1>4, <1>5, <1>6, <1>7

LEMMA AppendQueue ==
  ASSUME queue \in Seq(CallbackType), NEW e \in CallbackType, NEW q, q = Append(queue, e)
  PROVE  /\ q \in Seq(CallbackType) /\ q # <<>>
         /\ \A i \in DOMAIN q : (i \in DOMAIN queue /\ q[i] = queue[i]) \/ q[i] = e
         /\ queue # <<>> => Head(q) = Head(queue)
         /\ queue = <<>> => Head(q) = e /\ DOMAIN q = {1}
<1>1. Len(queue) \in Nat /\ DOMAIN queue = 1..Len(queue) /\ (queue = <<>> <=> Len(queue) = 0)
  BY LenProperties, EmptySeq
<1>2. /\ q \in Seq(CallbackType) /\ Len(q) = Len(queue) + 1
      /\ \A i \in 1..Len(queue) : q[i] = queue[i]
      /\ q[Len(queue) + 1] = e
  BY SMT, AppendProperties
<1>3. DOMAIN q = 1..(Len(queue) + 1)
  BY <1>2, LenProperties
<1>4. \A i \in 1..(Len(queue) + 1) : i \in 1..Len(queue) \/ i = Len(queue) + 1
  BY SMT, <1>1
<1>5. q # <<>> /\ Head(q) = q[1]
  BY SMT, <1>1, <1>2, LenProperties, EmptySeq
<1>6. queue # <<>> => Head(queue) = queue[1] /\ 1 \in 1..Len(queue)
  BY SMT, <1>1
<1>7. queue = <<>> => Len(queue) + 1 = 1 /\ 1..(Len(queue) + 1) = {1}
  BY SMT, <1>1
<1> QED BY <1>1, <1>2, <1>3, <1>4, <1>5, <1>6, <1>7

LEMMA ConcatAt ==
  ASSUME NEW S, NEW s \in Seq(S), NEW t \in Seq(S)
  PROVE  /\ s \o t \in Seq(S) /\ Len(s \o t) = Len(s) + Len(t)
         /\ \A i \in 1..Len(s) : (s \o t)[i] = s[i]
         /\ \A i \in 1..Len(t) : (s \o t)[Len(s) + i] = t[i]
<1> DEFINE c == s \o t
           m == Len(s)
           k == Len(t)
<1>1. /\ c \in Seq(S) /\ Len(c) = m + k
      /\ \A i \in 1 .. m + k : c[i] = IF i <= m THEN s[i] ELSE t[i - m]
  BY ConcatProperties
<1>2. m \in Nat /\ k \in Nat
  BY LenProperties
<1> HIDE DEF c, m, k
<1>3. \A i \in 1..m : i \in 1 .. m + k /\ i <= m
  BY SMT, <1>2
<1>4. \A i \in 1..k : m + i \in 1 .. m + k /\ ~(m + i <= m) /\ m + i - m = i
  BY SMT, <1>2
<1>5. ASSUME NEW i \in 1..m PROVE c[i] = s[i]
  BY <1>1, <1>3
<1>6. \A j \in 1 .. m + k : ~(j <= m) => c[j] = t[j - m]
  BY <1>1
<1>7. ASSUME NEW i \in 1..k PROVE c[m + i] = t[i]
  <2>1. m + i \in 1 .. m + k /\ ~(m + i <= m) /\ m + i - m = i
    BY <1>4
  <2>2. c[m + i] = t[m + i - m]
    BY SMT, <1>2, <1>6, <2>1
  <2> QED BY <2>1, <2>2
<1> QED BY <1>1, <1>5, <1>7 DEF c, m, k

LEMMA TailFrom ==
  ASSUME NEW S, NEW s \in Seq(S), NEW n \in Nat, NEW k \in Nat, Len(s) = n + k
  PROVE  /\ SubSeq(s, n + 1, Len(s)) \in Seq(S) /\ Len(SubSeq(s, n + 1, Len(s))) = k
         /\ \A i \in 1..k : SubSeq(s, n + 1, Len(s))[i] = s[n + i]
<1> DEFINE b == SubSeq(s, n + 1, n + k)
<1>1. \A i \in n + 1 .. n + k : s[i] \in S
  BY SMT, ElementOfSeq
<1>2. n + 1 \in Int /\ n + k \in Int
  BY SMT
<1>3. /\ b \in Seq(S) /\ Len(b) = IF n + 1 <= n + k THEN n + k - (n + 1) + 1 ELSE 0
      /\ \A i \in 1 .. n + k - (n + 1) + 1 : b[i] = s[n + 1 + i - 1]
  BY SMT, <1>1, <1>2, SubSeqProperties
<1> HIDE DEF b
<1>4. n + k - (n + 1) + 1 = k /\ (~(n + 1 <= n + k) => k = 0)
  BY SMT
<1>5. \A i \in 1..k : n + 1 + i - 1 = n + i
  BY SMT
<1>6. b \in Seq(S) /\ Len(b) = k /\ \A i \in 1..k : b[i] = s[n + i]
  BY <1>3, <1>4, <1>5
<1> QED BY <1>6 DEF b

\* The queue with a flush among its last callbacks and a block at its end.
Early(n, f, e) ==
  SubSeq(queue, 1, n) \o <<f>> \o SubSeq(queue, n + 1, Len(queue)) \o <<e>>

LEMMA Inserted ==
  ASSUME queue \in Seq(CallbackType), NEW f \in CallbackType, NEW e \in CallbackType,
         NEW n \in Nat, NEW k \in Nat, Len(queue) = n + k
  PROVE  /\ Early(n, f, e) \in Seq(CallbackType) /\ Len(Early(n, f, e)) = n + 1 + k + 1
         /\ \A i \in 1..n : Early(n, f, e)[i] = queue[i]
         /\ Early(n, f, e)[n + 1] = f
         /\ \A i \in 1..k : Early(n, f, e)[n + 1 + i] = queue[n + i]
         /\ Early(n, f, e)[n + 1 + k + 1] = e
<1> DEFINE front == SubSeq(queue, 1, n)
           back == SubSeq(queue, n + 1, Len(queue))
           one == <<f>>
           last == <<e>>
           flushed == front \o one
           moved == flushed \o back
           all == moved \o last
<1>1. front \in Seq(CallbackType) /\ Len(front) = n /\ \A i \in 1..n : front[i] = queue[i]
  <2>1. \A i \in 1..n : queue[i] \in CallbackType
    BY SMT, ElementOfSeq
  <2>2. n - 1 + 1 = n /\ (~(1 <= n) => n = 0) /\ 1 \in Int /\ n \in Int
    BY SMT
  <2>3. \A i \in 1..n : 1 + i - 1 = i
    BY SMT
  <2>4. /\ front \in Seq(CallbackType) /\ Len(front) = IF 1 <= n THEN n - 1 + 1 ELSE 0
        /\ \A i \in 1 .. n - 1 + 1 : front[i] = queue[1 + i - 1]
    BY SMT, <2>1, <2>2, SubSeqProperties
  <2> HIDE DEF front
  <2> QED BY <2>2, <2>3, <2>4
<1>2. back \in Seq(CallbackType) /\ Len(back) = k /\ \A i \in 1..k : back[i] = queue[n + i]
  BY TailFrom
<1>3. one \in Seq(CallbackType) /\ Len(one) = 1 /\ one[1] = f
  BY SMT
<1>4. last \in Seq(CallbackType) /\ Len(last) = 1 /\ last[1] = e
  BY SMT
<1>5. Early(n, f, e) = all
  BY DEF Early
<1>a. 1 \in Nat /\ n + 1 \in Nat /\ n + 1 + k \in Nat /\ 1 \in 1..1
  BY SMT
<1> HIDE DEF front, back, one, last
<1>6. /\ flushed \in Seq(CallbackType) /\ Len(flushed) = n + 1
      /\ \A i \in 1..n : flushed[i] = front[i]
      /\ \A i \in 1..1 : flushed[n + i] = one[i]
  <2>1. /\ flushed \in Seq(CallbackType) /\ Len(flushed) = Len(front) + Len(one)
        /\ \A i \in 1..Len(front) : flushed[i] = front[i]
        /\ \A i \in 1..Len(one) : flushed[Len(front) + i] = one[i]
    <3>1. front \in Seq(CallbackType) /\ one \in Seq(CallbackType)
      BY <1>1, <1>3
    <3> QED BY SMT, <3>1, ConcatAt
  <2> HIDE DEF flushed
  <2> QED BY <1>1, <1>3, <2>1
<1> HIDE DEF flushed
<1>7. /\ moved \in Seq(CallbackType) /\ Len(moved) = n + 1 + k
      /\ \A i \in 1 .. n + 1 : moved[i] = flushed[i]
      /\ \A i \in 1..k : moved[n + 1 + i] = back[i]
  <2>1. /\ moved \in Seq(CallbackType) /\ Len(moved) = Len(flushed) + Len(back)
        /\ \A i \in 1..Len(flushed) : moved[i] = flushed[i]
        /\ \A i \in 1..Len(back) : moved[Len(flushed) + i] = back[i]
    <3>1. flushed \in Seq(CallbackType) /\ back \in Seq(CallbackType)
      BY <1>2, <1>6
    <3> QED BY SMT, <3>1, ConcatAt
  <2> HIDE DEF moved
  <2> QED BY <1>2, <1>6, <2>1
<1> HIDE DEF moved
<1>8. /\ all \in Seq(CallbackType) /\ Len(all) = n + 1 + k + 1
      /\ \A i \in 1 .. n + 1 + k : all[i] = moved[i]
      /\ \A i \in 1..1 : all[n + 1 + k + i] = last[i]
  <2>1. /\ all \in Seq(CallbackType) /\ Len(all) = Len(moved) + Len(last)
        /\ \A i \in 1..Len(moved) : all[i] = moved[i]
        /\ \A i \in 1..Len(last) : all[Len(moved) + i] = last[i]
    <3>1. moved \in Seq(CallbackType) /\ last \in Seq(CallbackType)
      BY <1>4, <1>7
    <3> QED BY SMT, <3>1, ConcatAt
  <2> HIDE DEF all
  <2> QED BY <1>4, <1>7, <2>1
<1> HIDE DEF all
<1>9. /\ \A i \in 1..n : i \in 1 .. n + 1 /\ i \in 1 .. n + 1 + k
      /\ n + 1 \in 1 .. n + 1 /\ n + 1 \in 1 .. n + 1 + k
      /\ \A i \in 1..k : n + 1 + i \in 1 .. n + 1 + k
  BY SMT
<1>10. flushed[n + 1] = f
  BY <1>3, <1>6, <1>a
<1>11. all[n + 1 + k + 1] = e
  BY <1>4, <1>8, <1>a
<1>12. \A i \in 1..n : all[i] = queue[i]
  <2> SUFFICES ASSUME NEW i \in 1..n PROVE all[i] = queue[i]
    OBVIOUS
  <2>1. all[i] = moved[i] /\ moved[i] = flushed[i]
    BY <1>7, <1>8, <1>9
  <2>2. flushed[i] = front[i] /\ front[i] = queue[i]
    BY <1>1, <1>6
  <2> QED BY <2>1, <2>2
<1>13. all[n + 1] = f
  BY <1>7, <1>8, <1>9, <1>10
<1>14. \A i \in 1..k : all[n + 1 + i] = queue[n + i]
  BY <1>2, <1>7, <1>8, <1>9
<1> QED BY <1>5, <1>8, <1>11, <1>12, <1>13, <1>14

LEMMA InsertQueue ==
  ASSUME queue \in Seq(CallbackType), NEW e \in CallbackType, NEW f \in CallbackType,
         NEW n \in EarlyPlaces, NEW q, q = Early(n, f, e)
  PROVE  /\ q \in Seq(CallbackType) /\ q # <<>>
         /\ \A i \in DOMAIN q :
              \/ q[i] = e \/ q[i] = f
              \/ i \in DOMAIN queue /\ q[i] = queue[i]
              \/ q[i] # GenesisConnected
         /\ queue # <<>> /\ Head(queue) = GenesisConnected => Head(q) = GenesisConnected
<1> DEFINE k == Len(queue) - n
<1>1. /\ Len(queue) \in Nat /\ n \in 0..Len(queue)
      /\ \A i \in n + 1 .. Len(queue) : queue[i].block # Genesis
  BY LenProperties DEF EarlyPlaces
<1>2. n \in Nat /\ k \in Nat /\ Len(queue) = n + k
  BY SMT, <1>1
<1>3. \A i \in n + 1 .. n + k : queue[i] # GenesisConnected
  BY SMT, <1>1, <1>2 DEF GenesisConnected
<1> HIDE DEF k
<1>4. /\ Early(n, f, e) \in Seq(CallbackType) /\ Len(Early(n, f, e)) = n + 1 + k + 1
      /\ \A i \in 1..n : Early(n, f, e)[i] = queue[i]
      /\ Early(n, f, e)[n + 1] = f
      /\ \A i \in 1..k : Early(n, f, e)[n + 1 + i] = queue[n + i]
      /\ Early(n, f, e)[n + 1 + k + 1] = e
  <2>1. \A x, y \in Nat : Len(queue) = x + y =>
      /\ Early(x, f, e) \in Seq(CallbackType) /\ Len(Early(x, f, e)) = x + 1 + y + 1
      /\ \A i \in 1..x : Early(x, f, e)[i] = queue[i]
      /\ Early(x, f, e)[x + 1] = f
      /\ \A i \in 1..y : Early(x, f, e)[x + 1 + i] = queue[x + i]
      /\ Early(x, f, e)[x + 1 + y + 1] = e
    BY Inserted
  <2> QED BY <1>2, <2>1
<1>5. /\ q \in Seq(CallbackType) /\ Len(q) = n + 1 + k + 1
      /\ \A i \in 1..n : q[i] = queue[i]
      /\ q[n + 1] = f
      /\ \A i \in 1..k : q[n + 1 + i] = queue[n + i]
      /\ q[n + 1 + k + 1] = e
  BY <1>4
<1>6. DOMAIN queue = 1 .. n + k /\ DOMAIN q = 1 .. n + 1 + k + 1 /\ q # <<>>
  BY SMT, <1>2, <1>5, LenProperties, EmptySeq
<1>7. \A i \in 1..k : queue[n + i] # GenesisConnected
  <2>1. \A i \in 1..k : n + i \in n + 1 .. n + k
    BY SMT, <1>2
  <2> QED BY <1>3, <2>1
<1>8. ASSUME NEW i \in DOMAIN q
      PROVE  q[i] = e \/ q[i] = f \/ (i \in DOMAIN queue /\ q[i] = queue[i]) \/ q[i] # GenesisConnected
  <2>1. i \in 1..n \/ i = n + 1 \/ i - (n + 1) \in 1..k \/ i = n + 1 + k + 1
    BY SMT, <1>2, <1>6
  <2>2. CASE i \in 1..n
    <3>1. i \in 1 .. n + k
      BY SMT, <1>2, <2>2
    <3> QED BY <1>5, <1>6, <2>2, <3>1
  <2>3. CASE i - (n + 1) \in 1..k
    <3>1. i = n + 1 + (i - (n + 1))
      BY SMT, <1>2, <1>6
    <3> QED BY <1>5, <1>7, <2>3, <3>1
  <2> QED BY <1>5, <2>1, <2>2, <2>3
<1>9. ASSUME queue # <<>>, Head(queue) = GenesisConnected PROVE Head(q) = GenesisConnected
  <2>1. Head(queue) = queue[1] /\ Head(q) = q[1]
    BY SMT, <1>5, <1>6, <1>9
  <2>2. n + k # 0
    BY <1>2, <1>9, EmptySeq
  <2>3. 1 \in 1..n \/ 1 \in n + 1 .. n + k
    BY SMT, <1>2, <2>2
  <2> QED BY <1>3, <1>5, <1>9, <2>1, <2>3
<1> QED BY <1>5, <1>6, <1>8, <1>9

\* What the sync thread aims at.  With nothing to aim at it has a block.
LEMMA NextFollows ==
  ASSUME tip \in BlockOrNone, pindex \in BlockOrNone
  PROVE  /\ NextSyncBlock # None => NextSyncBlock \in Block /\ Follows(NextSyncBlock, pindex)
         /\ NextSyncBlock = None /\ tip # None => pindex # None
<1> DEFINE next == {b \in Chain[tip] \ Chain[pindex] : Parent[b] \in Chain[pindex] \cup {None}}
<1>1. Chain[tip] \subseteq Block /\ Chain[pindex] \subseteq Block /\ None \notin Block
  BY ChainDef, IndexSyncAssumption DEF BlockOrNone
<1>2. NextSyncBlock = IF next = {} THEN None ELSE CHOOSE b \in next : TRUE
  BY DEF NextSyncBlock
<1>3. next # {} => NextSyncBlock \in next
  BY <1>2
<1>4. ASSUME NEW b \in next PROVE b \in Block /\ Follows(b, pindex)
  <2>1. b \in Block /\ b \notin Chain[pindex]
    BY <1>1
  <2>2. CASE b = Genesis
    BY <2>1, <2>2, ChainStep DEF Follows, BlockOrNone
  <2>3. CASE b # Genesis
    BY <2>1, <2>3, IndexSyncAssumption DEF Follows
  <2> QED BY <2>1, <2>2, <2>3
<1>5. ASSUME tip # None, pindex = None PROVE Genesis \in next
  <2>1. Genesis \in Chain[tip] /\ Chain[pindex] = {} /\ Parent[Genesis] = None
    BY <1>5, ChainStep, ChainDef, IndexSyncAssumption DEF BlockOrNone
  <2> QED BY <2>1
<1> HIDE DEF next
<1>6. NextSyncBlock # None => next # {}
  BY <1>2
<1>7. next # {} => NextSyncBlock # None
  BY <1>1, <1>3, <1>4
<1> QED BY <1>3, <1>4, <1>5, <1>6, <1>7

\* Without a change to the database and the content, what they hold stays.
LEMMA DataStays ==
  ASSUME DataType, Data, UNCHANGED <<database, content>>
  PROVE  DataType' /\ Data'
BY DEF DataType, Data, Exact, Kept, Found, database, content

\* Only an index that is idle can have the genesis block to come.
LEMMA Busy ==
  ASSUME Parts, at # "idle"
  PROVE  tip # None /\ \A i \in DOMAIN queue : queue[i] # GenesisConnected
BY DEF Parts, Started

-----------------------------------------------------------------------------
\* The steps of the node.
LEMMA NodeSteps ==
  ASSUME Parts, (\E b \in Block : ConnectTip(b)) \/ DisconnectTip \/ FlushStateToDisk
  PROVE  Parts'
<1>1. WorkType /\ DataType /\ Data /\ Unfailed /\ Placed /\ Started
  BY DEF Parts
<1>2. CASE \E b \in Block : ConnectTip(b)
  <2>1. PICK b \in Block : ConnectTip(b)
    BY <1>2
  <2> DEFINE e == [event |-> "connected", block |-> b]
             f == [event |-> "flushed", block |-> tip]
  <2>2. e \in CallbackType /\ e.event = "connected" /\ e.block = b
    BY DEF CallbackType
  <2>3. tip' = b /\ undo' = undo \cup {b} /\ Parent[b] = tip
    BY <2>1 DEF ConnectTip
  <2>a. Genesis \in undo'
    BY <1>1, <2>3 DEF Started
  <2>4. /\ UNCHANGED <<m_best_block_index, m_synced, restarts>>
        /\ UNCHANGED <<at, pindex, target, iter_tip>> /\ UNCHANGED <<database, content>>
    BY <2>1 DEF ConnectTip, work
  <2>5. \/ queue' = Append(queue, e) /\ UNCHANGED <<diskTip, diskUndo>>
        \/ /\ tip # None /\ diskTip' = b /\ diskUndo' = undo'
           /\ \E n \in EarlyPlaces : queue' = Early(n, f, e)
    BY <2>1 DEF ConnectTip, Early
  <2>6. DataType' /\ Data' /\ Unfailed' /\ Placed'
    BY <1>1, <2>4, DataStays DEF Unfailed, Placed, Follows, content
  <2>7. tip' # None
    BY <2>3, IndexSyncAssumption
  <2>8. tip # None => e # GenesisConnected
    BY <2>2, <2>3, IndexSyncAssumption DEF GenesisConnected
  <2>9. CASE queue' = Append(queue, e) /\ UNCHANGED <<diskTip, diskUndo>>
    <3> HIDE DEF e
    <3>1. /\ queue' \in Seq(CallbackType) /\ queue' # <<>>
          /\ \A i \in DOMAIN queue' : (i \in DOMAIN queue /\ queue'[i] = queue[i]) \/ queue'[i] = e
          /\ queue # <<>> => Head(queue') = Head(queue)
          /\ queue = <<>> => Head(queue') = e /\ DOMAIN queue' = {1}
      BY SMT, <1>1, <2>2, <2>9, AppendQueue DEF WorkType
    <3>2. WorkType'
      BY <1>1, <2>3, <2>4, <2>9, <3>1 DEF WorkType, BlockOrNone
    <3>3. CASE tip = None
      <4>1. b = Genesis
        BY <2>3, <3>3, IndexSyncAssumption
      <4>2. e = GenesisConnected
        BY <4>1 DEF e, GenesisConnected
      <4>3. queue = <<>> /\ at = "idle" /\ m_best_block_index = None
        BY <1>1, <3>3 DEF Started
      <4>4. \A i \in DOMAIN queue' : i = 1 /\ queue'[i] = e
        BY SMT, <3>1, <4>3
      <4>5. Started'
        BY <1>1, <2>a, <2>2, <2>4, <2>7, <2>9, <3>1, <4>2, <4>3, <4>4 DEF Started, database
      <4> QED BY <2>6, <3>2, <4>5 DEF Parts
    <3>4. CASE tip # None
      <4>1. Started'
        BY <1>1, <2>a, <2>2, <2>4, <2>7, <2>8, <2>9, <3>1, <3>4 DEF Started, database
      <4> QED BY <2>6, <3>2, <4>1 DEF Parts
    <3> QED BY <3>3, <3>4
  <2>10. CASE /\ tip # None /\ diskTip' = b /\ diskUndo' = undo'
              /\ \E n \in EarlyPlaces : queue' = Early(n, f, e)
    <3>1. f \in CallbackType /\ f.event = "flushed" /\ f # GenesisConnected
      BY <1>1, <2>10 DEF WorkType, CallbackType, BlockOrNone, GenesisConnected
    <3>2. PICK n \in EarlyPlaces : queue' = Early(n, f, e)
      BY <2>10
    <3> HIDE DEF e, f
    <3>3. /\ queue' \in Seq(CallbackType) /\ queue' # <<>>
          /\ \A i \in DOMAIN queue' :
               \/ queue'[i] = e \/ queue'[i] = f
               \/ i \in DOMAIN queue /\ queue'[i] = queue[i]
               \/ queue'[i] # GenesisConnected
          /\ queue # <<>> /\ Head(queue) = GenesisConnected => Head(queue') = GenesisConnected
      <4>1. queue \in Seq(CallbackType)
        BY <1>1 DEF WorkType
      <4>2. \A q : q = Early(n, f, e) =>
              /\ q \in Seq(CallbackType) /\ q # <<>>
              /\ \A i \in DOMAIN q :
                   \/ q[i] = e \/ q[i] = f
                   \/ i \in DOMAIN queue /\ q[i] = queue[i]
                   \/ q[i] # GenesisConnected
              /\ queue # <<>> /\ Head(queue) = GenesisConnected => Head(q) = GenesisConnected
        BY <2>2, <3>1, <4>1, InsertQueue
      <4> QED BY <3>2, <4>2
    <3>4. WorkType'
      BY <1>1, <2>3, <2>4, <2>10, <3>3 DEF WorkType, BlockOrNone
    <3>5. \A i \in DOMAIN queue' : queue'[i] = GenesisConnected => i \in DOMAIN queue /\ queue[i] = GenesisConnected
      BY <2>8, <2>10, <3>1, <3>3
    <3>6. diskTip' # None
      BY <2>10, IndexSyncAssumption
    <3>7. Started'
      BY <1>1, <2>a, <2>4, <2>7, <2>10, <3>3, <3>5, <3>6 DEF Started
    <3> QED BY <2>6, <3>4, <3>7 DEF Parts
  <2> QED BY <2>5, <2>9, <2>10
<1>3. CASE DisconnectTip
  <2> DEFINE e == [event |-> "flushed", block |-> tip]
  <2>1. /\ tip' = Parent[tip] /\ tip \in Block /\ tip # Genesis
        /\ UNCHANGED <<undo, m_best_block_index, m_synced, restarts>>
        /\ UNCHANGED <<at, pindex, target, iter_tip>> /\ UNCHANGED <<database, content>>
    BY <1>1, <1>3 DEF DisconnectTip, work, WorkType, BlockOrNone
  <2>2. \/ UNCHANGED <<diskTip, diskUndo, queue>>
        \/ diskTip' = tip' /\ diskUndo' = undo /\ queue' = Append(queue, e)
    BY <1>3 DEF DisconnectTip
  <2>3. tip' \in Block /\ tip' # None
    BY <2>1, IndexSyncAssumption DEF BlockOrNone
  <2>4. DataType' /\ Data' /\ Unfailed' /\ Placed'
    BY <1>1, <2>1, DataStays DEF Unfailed, Placed, Follows, content
  <2>5. tip # None
    BY <2>1, IndexSyncAssumption
  <2>6. CASE UNCHANGED <<diskTip, diskUndo, queue>>
    <3>1. WorkType'
      BY <1>1, <2>1, <2>3, <2>6 DEF WorkType, BlockOrNone
    <3>2. Started'
      BY <1>1, <2>1, <2>3, <2>5, <2>6 DEF Started, database
    <3> QED BY <2>4, <3>1, <3>2 DEF Parts
  <2>7. CASE diskTip' = tip' /\ diskUndo' = undo /\ queue' = Append(queue, e)
    <3>1. e \in CallbackType /\ e # GenesisConnected
      BY <2>1 DEF CallbackType, GenesisConnected
    <3> HIDE DEF e
    <3>2. /\ queue' \in Seq(CallbackType) /\ queue' # <<>>
          /\ \A i \in DOMAIN queue' : (i \in DOMAIN queue /\ queue'[i] = queue[i]) \/ queue'[i] = e
          /\ queue # <<>> => Head(queue') = Head(queue)
      BY <1>1, <2>7, <3>1, AppendQueue DEF WorkType
    <3>3. WorkType'
      BY <1>1, <2>1, <2>3, <2>7, <3>2 DEF WorkType, BlockOrNone
    <3>4. Started'
      BY <1>1, <2>1, <2>3, <2>5, <2>7, <3>1, <3>2 DEF Started
    <3> QED BY <2>4, <3>3, <3>4 DEF Parts
  <2> QED BY <2>2, <2>6, <2>7
<1>4. CASE FlushStateToDisk
  <2> DEFINE e == [event |-> "flushed", block |-> tip]
  <2>1. /\ tip # None /\ diskUndo' = undo /\ diskTip' = tip /\ queue' = Append(queue, e)
        /\ UNCHANGED <<tip, undo, m_best_block_index, m_synced, restarts>>
        /\ UNCHANGED <<at, pindex, target, iter_tip>> /\ UNCHANGED <<database, content>>
    BY <1>4 DEF FlushStateToDisk, work
  <2>2. e \in CallbackType /\ e.event = "flushed"
    BY <1>1, <2>1 DEF WorkType, CallbackType, BlockOrNone
  <2>3. e # GenesisConnected
    BY DEF GenesisConnected
  <2> HIDE DEF e
  <2>4. /\ queue' \in Seq(CallbackType) /\ queue' # <<>>
        /\ \A i \in DOMAIN queue' : (i \in DOMAIN queue /\ queue'[i] = queue[i]) \/ queue'[i] = e
        /\ queue # <<>> => Head(queue') = Head(queue)
    BY SMT, <1>1, <2>1, <2>2, AppendQueue DEF WorkType
  <2>5. WorkType'
    BY <1>1, <2>1, <2>4 DEF WorkType
  <2>6. DataType' /\ Data' /\ Unfailed' /\ Placed'
    BY <1>1, <2>1, DataStays DEF Unfailed, Placed, Follows, content
  <2>7. Started'
    BY SMT, <1>1, <2>1, <2>3, <2>4 DEF Started
  <2> QED BY <2>5, <2>6, <2>7 DEF Parts
<1> QED BY <1>2, <1>3, <1>4

\* A start finds the place of the last commit, or refuses the index.
LEMMA StartSteps ==
  ASSUME Parts, Restart \/ Rebuild
  PROVE  Parts'
<1>1. WorkType /\ DataType /\ Data /\ Unfailed /\ Placed /\ Started
  BY DEF Parts
<1>2. CASE Restart
  <2>1. /\ tip' = diskTip /\ undo' = diskUndo' /\ diskUndo' \in {diskUndo, undo} /\ queue' = <<>>
        /\ target' = None /\ iter_tip' = None /\ diskTip' = diskTip
        /\ UNCHANGED <<heightDB, hashDB, bestDB, muhashDB>>
        /\ \E blocks \in SUBSET Block : InitIndex(diskTip, blocks)
    BY <1>2 DEF Restart, database
  <2>b. PICK blocks \in SUBSET Block : InitIndex(diskTip, blocks)
    BY <2>1
  <2>2. m_best_block_index' = bestDB /\ m_muhash' = muhashDB /\ m_current_block_hash' = bestDB
    BY <2>b DEF InitIndex
  <2>3. bestDB # None => LookUpOne(bestDB) # None /\ LookUpOne(bestDB).muhash = muhashDB
    <3> SUFFICES ASSUME bestDB # None PROVE LookUpOne(bestDB) # None /\ LookUpOne(bestDB).muhash = muhashDB
      OBVIOUS
    <3>1. bestDB \in Block /\ bestDB \in Chain[bestDB]
      BY <1>1, ChainDef DEF DataType, BlockOrNone
    <3>2. Found(bestDB) /\ muhashDB = Chain[bestDB]
      BY <1>1, <3>1 DEF Data, Kept
    <3>3. LookUpOne(bestDB) = [hash |-> bestDB, muhash |-> Chain[bestDB]]
      BY <1>1, <3>1, <3>2, FoundEntry DEF Data
    <3>4. LookUpOne(bestDB) # None
      BY <3>2 DEF LookUpOne, Found
    <3> QED BY SMT, <3>2, <3>3, <3>4
  <2> DEFINE accepted == bestDB = None \/ bestDB \in blocks
  <2>4. /\ m_synced' = (accepted /\ bestDB = diskTip)
        /\ pindex' = IF m_synced' THEN None ELSE bestDB
        /\ at' = IF accepted THEN IF m_synced' THEN "idle" ELSE "next" ELSE "refused"
    BY <2>b, <2>3 DEF InitIndex
  <2>5. WorkType'
    <3>1. queue' \in Seq(CallbackType)
      BY SMT, <2>1
    <3>2. m_synced' \in BOOLEAN /\ at' \in {"idle", "next", "refused"}
      BY <2>4
    <3> QED BY <1>1, <2>1, <2>2, <2>4, <3>1, <3>2 DEF WorkType, DataType, BlockOrNone
  <2>6. DataType' /\ Data'
    BY <1>1, <2>1, <2>2 DEF DataType, Data, Exact, Kept, Found
  <2>7. Unfailed' /\ Placed'
    BY <2>2, <2>4 DEF Unfailed, Placed
  <2>8. Started'
    <3>1. DOMAIN queue' = {}
      BY SMT, <2>1
    <3>2. diskTip = None => bestDB = None
      BY <1>1 DEF Started
    <3> QED BY <1>1, <2>1, <2>2, <2>4, <3>1, <3>2 DEF Started
  <2> QED BY <2>5, <2>6, <2>7, <2>8 DEF Parts
<1>3. CASE Rebuild
  <2>1. at = "refused" /\ tip # None /\ \A i \in DOMAIN queue : queue[i] # GenesisConnected
    BY <1>3, Busy DEF Rebuild
  <2>2. ~m_synced /\ diskTip # None
    BY <1>1, <2>1 DEF Placed, Started
  <2>3. /\ heightDB' = [h \in Heights |-> None] /\ hashDB' = [b \in Block |-> None]
        /\ bestDB' = None /\ muhashDB' = {}
        /\ m_best_block_index' = None /\ m_synced' = FALSE
        /\ m_muhash' = {} /\ m_current_block_hash' = None
        /\ at' = "next" /\ pindex' = None
        /\ UNCHANGED <<tip, undo, diskTip, diskUndo, queue, target, iter_tip>>
    BY <1>3, <2>1 DEF Rebuild, node
  <2>4. WorkType'
    BY <1>1, <2>3 DEF WorkType, BlockOrNone
  <2>5. DataType'
    BY <2>3 DEF DataType, BlockOrNone
  <2>6. Data'
    BY <2>3, ChainDef DEF Data, Exact, Kept
  <2>7. Unfailed' /\ Placed'
    BY <2>3 DEF Unfailed, Placed
  <2>8. Started'
    BY <1>1, <2>1, <2>2, <2>3 DEF Started
  <2> QED BY <2>4, <2>5, <2>6, <2>7, <2>8 DEF Parts
<1> QED BY <1>2, <1>3

-----------------------------------------------------------------------------
\* A block that cannot be read is not the genesis block.
LEMMA UnreadStep ==
  ASSUME Parts, Fail("unread"), at = "rewind", target # Genesis
  PROVE  Parts'
<1>1. WorkType /\ DataType /\ Data /\ Placed /\ Started
  BY DEF Parts
<1>2. /\ at' = "unread" /\ UNCHANGED <<tip, undo, diskTip, diskUndo, queue>>
      /\ UNCHANGED <<m_best_block_index, m_synced, pindex, target, iter_tip>>
      /\ UNCHANGED <<database, content>>
  BY DEF Fail, node
<1>3. DataType' /\ Data'
  BY <1>1, <1>2, DataStays
<1>4. WorkType' /\ Unfailed' /\ Placed'
  BY <1>1, <1>2 DEF WorkType, Unfailed, Placed
<1>5. tip # None /\ \A i \in DOMAIN queue : queue[i] # GenesisConnected
  BY Busy
<1>6. Started'
  BY <1>1, <1>2, <1>5 DEF Started, database
<1> QED BY <1>3, <1>4, <1>6 DEF Parts

\* The steps towards a block: the way down, and the block itself.
LEMMA RewindStep ==
  ASSUME Parts, Rewind
  PROVE  Parts'
<1>1. WorkType /\ DataType /\ Data /\ Unfailed /\ Placed /\ Started
  BY DEF Parts
<1>2. at = "rewind" /\ iter_tip # Parent[target]
  BY DEF Rewind
<1>3. target \in Block /\ m_current_block_hash = iter_tip /\ Follows(target, iter_tip)
  BY <1>1, <1>2 DEF Placed
<1>4. target # Genesis /\ Parent[target] \in Chain[iter_tip]
  BY <1>2, <1>3, IndexSyncAssumption DEF Follows
<1>5. iter_tip \in Block
  BY <1>1, <1>4, ChainDef DEF WorkType, BlockOrNone
<1>6. Parent[target] \in Chain[Parent[iter_tip]]
  BY SMT, <1>2, <1>4, <1>5, ChainStep
<1>7. iter_tip # Genesis
  BY <1>5, <1>6, ChainDef, IndexSyncAssumption
<1>8. ~CustomRemoveFails(iter_tip) /\ Parent[iter_tip] \in Block
  BY <1>1, <1>3, <1>5, <1>7, RemoveSucceeds
<1>a. CASE ~CanRead(iter_tip)
  BY <1>2, <1>4, <1>a, UnreadStep DEF Rewind
<1> SUFFICES ASSUME CanRead(iter_tip) PROVE Parts'
  BY <1>a
<1>9. /\ CustomRemove(iter_tip) /\ iter_tip' = Parent[iter_tip]
      /\ m_best_block_index' \in {iter_tip', m_best_block_index}
      /\ UNCHANGED <<tip, undo, diskTip, diskUndo, queue, m_synced, at, pindex, target>>
      /\ UNCHANGED <<heightDB, bestDB, muhashDB>>
  BY <1>8 DEF Rewind, node
<1>10. DataType' /\ Data'
  BY <1>1, <1>3, <1>5, <1>7, <1>9, RemoveKeeps
<1>11. WorkType'
  BY <1>1, <1>8, <1>9 DEF WorkType, BlockOrNone
<1>12. Unfailed'
  BY <1>1, <1>9 DEF Unfailed
<1>13. Placed'
  <2>1. m_current_block_hash' = iter_tip'
    BY <1>9 DEF CustomRemove
  <2>2. Follows(target', iter_tip')
    BY <1>4, <1>6, <1>9 DEF Follows
  <2> QED BY <1>2, <1>3, <1>9, <2>1, <2>2 DEF Placed
<1>14. Started'
  <2>1. tip # None /\ \A i \in DOMAIN queue : queue[i] # GenesisConnected
    BY <1>2, Busy
  <2>2. m_best_block_index' = None => m_best_block_index = None
    BY <1>8, <1>9, IndexSyncAssumption
  <2> QED BY <1>1, <1>2, <1>9, <2>1, <2>2 DEF Started
<1> QED BY <1>10, <1>11, <1>12, <1>13, <1>14 DEF Parts

LEMMA BlockSteps ==
  ASSUME Parts, ProcessBlock \/ SyncBlock
  PROVE  Parts'
<1>1. WorkType /\ DataType /\ Data /\ Unfailed /\ Placed /\ Started
  BY DEF Parts
<1>2. at = "rewind" /\ iter_tip = Parent[target]
  BY DEF ProcessBlock, SyncBlock
<1>3. target \in Block /\ m_current_block_hash = Parent[target] /\ target # None
  BY <1>1, <1>2, IndexSyncAssumption DEF Placed
<1>a. CASE ~CanRead(target)
  <2>1. target # Genesis
    BY <1>1, <1>a DEF CanRead, Started
  <2> QED BY <1>2, <1>a, <2>1, UnreadStep DEF ProcessBlock, SyncBlock
<1> SUFFICES ASSUME CanRead(target) PROVE Parts'
  BY <1>a
<1>4. ~CustomAppendFails(target)
  BY <1>3 DEF CustomAppendFails
<1>5. /\ CustomAppend(target) /\ target' = None /\ iter_tip' = None
      /\ UNCHANGED <<tip, undo, diskTip, diskUndo, queue, m_synced>> /\ UNCHANGED hashDB
  BY <1>4 DEF ProcessBlock, SyncBlock, node
<1>6. UNCHANGED <<bestDB, muhashDB>> \/ (~m_synced /\ bestDB' = target /\ muhashDB' = m_muhash')
  BY <1>3, <1>4 DEF ProcessBlock, SyncBlock, Commit
<1>7. DataType' /\ Data' /\ m_current_block_hash' = target
  BY <1>1, <1>3, <1>5, <1>6, AppendKeeps DEF CustomAppend
<1>8. tip # None /\ \A i \in DOMAIN queue : queue[i] # GenesisConnected
  BY <1>2, Busy
<1>9. CASE ProcessBlock
  <2>1. m_synced /\ m_best_block_index' = target /\ at' = "idle" /\ pindex' = pindex
    BY <1>4, <1>9 DEF ProcessBlock
  <2>2. WorkType'
    BY <1>1, <1>3, <1>5, <2>1 DEF WorkType, BlockOrNone
  <2>3. Unfailed' /\ Placed'
    BY <1>5, <1>7, <2>1 DEF Unfailed, Placed
  <2>4. Started'
    BY <1>1, <1>3, <1>5, <1>6, <1>8, <2>1 DEF Started
  <2> QED BY <1>7, <2>2, <2>3, <2>4 DEF Parts
<1>10. CASE SyncBlock
  <2>1. /\ ~m_synced /\ pindex' = target /\ at' = "next"
        /\ m_best_block_index' \in {m_best_block_index, target}
    BY <1>4, <1>10 DEF SyncBlock
  <2>2. WorkType'
    BY <1>1, <1>3, <1>5, <2>1 DEF WorkType, BlockOrNone
  <2>3. Unfailed' /\ Placed'
    BY <1>5, <1>7, <2>1 DEF Unfailed, Placed
  <2>4. Started'
    BY <1>1, <1>5, <1>8, <2>1 DEF Started
  <2> QED BY <1>7, <2>2, <2>3, <2>4 DEF Parts
<1> QED BY <1>9, <1>10

\* The steps of the sync thread.
LEMMA SyncSteps ==
  ASSUME Parts, SyncNext \/ SyncCheck \/ Interrupt
  PROVE  Parts'
<1>1. WorkType /\ DataType /\ Data /\ Unfailed /\ Placed /\ Started
  BY DEF Parts
<1>2. at \in {"next", "check"}
  BY DEF SyncNext, SyncCheck, Interrupt
<1>3. ~m_synced /\ m_current_block_hash = pindex /\ diskTip # None
  BY <1>1, <1>2 DEF Placed, Started
<1>4. tip # None /\ \A i \in DOMAIN queue : queue[i] # GenesisConnected
  BY <1>2, Busy
<1>5. UNCHANGED <<tip, undo, diskTip, diskUndo, queue>> /\ UNCHANGED <<heightDB, hashDB, content>>
  BY DEF SyncNext, SyncCheck, Interrupt, node, database
<1>6. m_current_block_hash' = pindex
  BY <1>3, <1>5 DEF content
<1>7. CASE /\ NextSyncBlock # None /\ Aim(NextSyncBlock)
           /\ UNCHANGED <<m_best_block_index, m_synced, pindex>> /\ UNCHANGED <<bestDB, muhashDB>>
  <2>1. NextSyncBlock \in Block /\ Follows(NextSyncBlock, pindex)
    BY <1>1, <1>7, NextFollows DEF WorkType
  <2>2. target' = NextSyncBlock /\ iter_tip' = pindex /\ at' = "rewind"
    BY <1>7 DEF Aim
  <2>3. DataType' /\ Data'
    BY <1>1, <1>5, <1>7, DataStays DEF database
  <2>4. WorkType'
    BY <1>1, <1>5, <1>7, <2>1, <2>2 DEF WorkType, BlockOrNone
  <2>5. Unfailed' /\ Placed'
    BY <1>6, <2>1, <2>2 DEF Unfailed, Placed, Follows
  <2>6. Started'
    BY <1>1, <1>3, <1>4, <1>5, <1>7, <2>2 DEF Started
  <2> QED BY <2>3, <2>4, <2>5, <2>6 DEF Parts
<1>8. CASE /\ m_best_block_index' = pindex /\ Commit(pindex, m_muhash) /\ at' \in {"check", "off"}
           /\ UNCHANGED <<m_synced, pindex, target, iter_tip>>
  <2>1. DataType' /\ Data'
    BY <1>1, <1>3, <1>5, <1>8, CommitKeeps
  <2>2. WorkType'
    BY <1>1, <1>5, <1>8 DEF WorkType
  <2>3. Unfailed' /\ Placed'
    BY <1>3, <1>6, <1>8 DEF Unfailed, Placed
  <2>4. Started'
    BY <1>1, <1>3, <1>4, <1>5, <1>8 DEF Started
  <2> QED BY <2>1, <2>2, <2>3, <2>4 DEF Parts
<1>9. CASE /\ at = "check" /\ NextSyncBlock = None
           /\ m_synced' = TRUE /\ at' = "idle" /\ pindex' = None
           /\ UNCHANGED <<m_best_block_index, target, iter_tip>> /\ UNCHANGED <<bestDB, muhashDB>>
  <2>1. m_best_block_index = pindex
    BY <1>1, <1>9 DEF Placed
  <2>2. pindex # None
    BY <1>1, <1>4, <1>9, NextFollows DEF WorkType
  <2>3. DataType' /\ Data'
    BY <1>1, <1>5, <1>9, DataStays DEF database
  <2>4. WorkType'
    BY <1>1, <1>5, <1>9 DEF WorkType, BlockOrNone
  <2>5. Unfailed' /\ Placed'
    BY <1>6, <1>9, <2>1 DEF Unfailed, Placed
  <2>6. Started'
    BY <1>1, <1>3, <1>4, <1>5, <1>9, <2>1, <2>2 DEF Started
  <2> QED BY <2>3, <2>4, <2>5, <2>6 DEF Parts
<1> QED BY <1>7, <1>8, <1>9 DEF SyncNext, SyncCheck, Interrupt, database

\* The callbacks.
LEMMA CallbackSteps ==
  ASSUME Parts, Ignore \/ BlockConnected \/ ChainStateFlushed
  PROVE  Parts'
<1>1. WorkType /\ DataType /\ Data /\ Unfailed /\ Placed /\ Started
  BY DEF Parts
<1>2. /\ queue # <<>> /\ queue' = Tail(queue)
      /\ UNCHANGED <<tip, undo, diskTip, diskUndo, m_best_block_index, m_synced, pindex>>
  BY DEF Ignore, BlockConnected, ChainStateFlushed, node, work
<1>3. /\ queue' \in Seq(CallbackType)
      /\ 1 \in DOMAIN queue /\ Event = queue[1] /\ Event \in CallbackType
      /\ \A i \in DOMAIN queue' :
           i + 1 \in DOMAIN queue /\ i + 1 # 1 /\ queue'[i] = queue[i + 1]
  BY <1>1, <1>2, TailQueue DEF WorkType
<1>4. \A i \in DOMAIN queue' : queue'[i] # GenesisConnected
  BY <1>1, <1>3 DEF Started
<1>5. \A i \in DOMAIN queue' : queue'[i].event = "flushed" => diskTip # None
  BY <1>1, <1>3 DEF Started
<1>6. tip # None
  BY <1>1, <1>2 DEF Started
<1>7. CASE Ignore
  <2>1. /\ ~m_synced \/ at \in {"failed", "unread"}
        /\ UNCHANGED <<database, content>> /\ UNCHANGED <<at, target, iter_tip>>
    BY <1>7 DEF Ignore, work
  <2>2. WorkType'
    BY <1>1, <1>2, <1>3, <2>1 DEF WorkType
  <2>3. DataType' /\ Data' /\ Unfailed' /\ Placed'
    BY <1>1, <1>2, <2>1, DataStays DEF Unfailed, Placed, Follows, content
  <2>4. Started'
    BY <1>1, <1>2, <1>4, <1>5, <1>6, <2>1 DEF Started, database
  <2> QED BY <2>2, <2>3, <2>4 DEF Parts
<1>8. CASE BlockConnected
  <2>1. Event.event = "connected" /\ m_synced /\ at = "idle" /\ UNCHANGED <<database, content>>
    BY <1>8 DEF BlockConnected
  <2>2. m_current_block_hash = m_best_block_index /\ m_current_block_hash' = m_best_block_index
    BY <1>1, <2>1 DEF Placed, content
  <2>3. Event.block \in Block
    BY <1>3 DEF CallbackType
  <2>4. Event = GenesisConnected <=> Event.block = Genesis
    BY SMT, <1>3, <2>1 DEF CallbackType, GenesisConnected
  <2>5. Event.block = Genesis <=> m_best_block_index = None
    <3>1. Event = GenesisConnected => m_best_block_index = None
      BY <1>1, <1>3 DEF Started
    <3>2. m_best_block_index = None => Event = GenesisConnected
      BY <1>1, <1>6, <2>1 DEF Started, Event
    <3> QED BY <2>4, <3>1, <3>2
  <2>6. DataType' /\ Data'
    BY <1>1, <2>1, DataStays
  <2>7. bestDB' = bestDB
    BY <2>1 DEF database
  <2>8. CASE Connects(Event.block)
    <3>1. at' = "rewind" /\ target' = Event.block /\ iter_tip' = m_best_block_index
      BY <1>8, <2>8 DEF BlockConnected
    <3>2. Follows(Event.block, m_best_block_index)
      BY <2>3, <2>5, <2>8, IndexSyncAssumption DEF Follows, Connects
    <3>3. WorkType'
      BY <1>1, <1>2, <1>3, <2>3, <3>1 DEF WorkType, BlockOrNone
    <3>4. Unfailed' /\ Placed'
      BY <2>2, <2>3, <3>1, <3>2 DEF Unfailed, Placed, Follows
    <3>5. Started'
      BY <1>1, <1>2, <1>4, <1>5, <1>6, <2>5, <2>7, <3>1 DEF Started
    <3> QED BY <2>6, <3>3, <3>4, <3>5 DEF Parts
  <2>9. CASE ~Connects(Event.block)
    <3>1. m_best_block_index # None
      BY <2>5, <2>9 DEF Connects
    <3>2. UNCHANGED <<at, target, iter_tip>>
      BY <1>8, <2>9, <3>1 DEF BlockConnected
    <3>3. WorkType'
      BY <1>1, <1>2, <1>3, <3>2 DEF WorkType
    <3>4. Unfailed' /\ Placed'
      BY <1>2, <2>1, <2>2, <3>2 DEF Unfailed, Placed
    <3>5. Started'
      BY <1>1, <1>2, <1>4, <1>5, <1>6, <2>7, <3>1, <3>2 DEF Started
    <3> QED BY <2>6, <3>3, <3>4, <3>5 DEF Parts
  <2> QED BY <2>8, <2>9
<1>9. CASE ChainStateFlushed
  <2>1. /\ Event.event = "flushed" /\ m_synced /\ at = "idle"
        /\ UNCHANGED <<heightDB, hashDB, content>> /\ UNCHANGED <<target, iter_tip>>
        /\ at' = IF m_best_block_index = None THEN "failed" ELSE at
        /\ Commit(m_best_block_index, m_muhash) \/ (bestDB' = bestDB /\ muhashDB' = muhashDB)
    BY <1>9 DEF ChainStateFlushed, work
  <2>2. m_current_block_hash = m_best_block_index /\ m_current_block_hash' = m_best_block_index
    BY <1>1, <2>1 DEF Placed, content
  <2>3. DataType' /\ Data'
    <3>1. CASE Commit(m_best_block_index, m_muhash)
      BY <1>1, <2>1, <2>2, <3>1, CommitKeeps
    <3>2. CASE bestDB' = bestDB /\ muhashDB' = muhashDB
      BY <1>1, <2>1, <3>2, DataStays DEF database
    <3> QED BY <2>1, <3>1, <3>2
  <2>4. m_best_block_index # None
    <3>1. Event # GenesisConnected
      BY SMT, <2>1 DEF GenesisConnected
    <3> QED BY <1>1, <1>6, <2>1, <3>1 DEF Started, Event
  <2>5. at' = at
    BY <2>1, <2>4
  <2>6. WorkType'
    BY <1>1, <1>2, <1>3, <2>1, <2>5 DEF WorkType
  <2>7. Unfailed' /\ Placed'
    BY <1>2, <2>1, <2>2, <2>5 DEF Unfailed, Placed
  <2>8. diskTip # None
    BY <1>1, <1>3, <2>1 DEF Started
  <2>9. Started'
    BY <1>1, <1>2, <1>4, <1>5, <1>6, <2>1, <2>4, <2>5, <2>8 DEF Started
  <2> QED BY <2>3, <2>6, <2>7, <2>9 DEF Parts
<1> QED BY <1>7, <1>8, <1>9

LEMMA StutterStep ==
  ASSUME Parts, UNCHANGED vars
  PROVE  Parts'
BY DEF Parts, vars, node, database, content, work, WorkType, DataType, Data, Unfailed, Placed,
       Follows, Started, Exact, Kept, Found

LEMMA InitParts == Init => Parts
<1> SUFFICES ASSUME Init PROVE Parts
  OBVIOUS
<1>1. /\ tip \in {None, Genesis} /\ diskTip = tip /\ undo = {Genesis} /\ diskUndo = undo
      /\ queue = <<>> /\ bestDB = None /\ muhashDB = {}
      /\ heightDB = [h \in Heights |-> None] /\ hashDB = [b \in Block |-> None]
      /\ m_best_block_index = None /\ m_muhash = {} /\ m_current_block_hash = None
      /\ pindex = None /\ target = None /\ iter_tip = None
  BY DEF Init
<1>2. m_synced = (tip = None) /\ at = IF m_synced THEN "idle" ELSE "next"
  BY DEF Init
<1>3. WorkType
  BY SMT, <1>1, <1>2, IndexSyncAssumption DEF WorkType, BlockOrNone
<1>4. DataType
  BY <1>1 DEF DataType, BlockOrNone
<1>5. Data
  BY <1>1, ChainDef DEF Data, Exact, Kept
<1>6. Unfailed /\ Placed
  BY <1>1, <1>2 DEF Unfailed, Placed
<1>7. Started
  <2>1. DOMAIN queue = {}
    BY SMT, <1>1
  <2>2. CASE tip = None
    BY <1>1, <1>2, <2>1, <2>2 DEF Started
  <2>3. CASE tip # None
    BY <1>1, <1>2, <2>1, <2>3 DEF Started
  <2> QED BY <2>2, <2>3
<1> QED BY <1>3, <1>4, <1>5, <1>6, <1>7 DEF Parts

-----------------------------------------------------------------------------
LEMMA IndexInvariant == Spec => []Parts
<1>1. Parts /\ [Next]_vars => Parts'
  <2> SUFFICES ASSUME Parts, [Next]_vars PROVE Parts'
    OBVIOUS
  <2>1. CASE (\E b \in Block : ConnectTip(b)) \/ DisconnectTip \/ FlushStateToDisk
    BY <2>1, NodeSteps
  <2>2. CASE Restart \/ Rebuild
    BY <2>2, StartSteps
  <2>3. CASE Rewind
    BY <2>3, RewindStep
  <2>4. CASE ProcessBlock \/ SyncBlock
    BY <2>4, BlockSteps
  <2>5. CASE SyncNext \/ SyncCheck \/ Interrupt
    BY <2>5, SyncSteps
  <2>6. CASE Ignore \/ BlockConnected \/ ChainStateFlushed
    BY <2>6, CallbackSteps
  <2>7. CASE UNCHANGED vars
    BY <2>7, StutterStep
  <2> QED BY <2>1, <2>2, <2>3, <2>4, <2>5, <2>6, <2>7 DEF Next, Work
<1> QED BY <1>1, InitParts, PTL DEF Spec

\* LookUpOne finds the statistics of every block of the chain the index is at
\* and of the one last committed, whatever was overwritten on the way
\* (coinstatsindex.cpp, CopyHeightIndexToHashIndex).
THEOREM IndexRetrievable == Spec => []Retrievable
<1>1. Parts => Retrievable
  <2> SUFFICES ASSUME Parts, NEW b \in Chain[m_current_block_hash] \cup Chain[bestDB]
               PROVE  LookUpOne(b) = [hash |-> b, muhash |-> Chain[b]]
    BY DEF Retrievable
  <2>1. DataType /\ Data
    BY DEF Parts
  <2>2. b \in Block
    BY <2>1, ChainDef DEF DataType, BlockOrNone
  <2>3. Found(b)
    BY <2>1 DEF Data, Kept
  <2> QED BY <2>1, <2>2, <2>3, FoundEntry DEF Data
<1> QED BY <1>1, IndexInvariant, PTL

-----------------------------------------------------------------------------
\* Why nothing is missed.  From the block the index is at, or will be at when it
\* has added its target, either the tip is behind it, or a callback that waits
\* brings a block that follows it; and the same from the block of every
\* callback, with those behind it.
Heading(t, q, last, after) ==
  \/ t \in Chain[last] \cup {None}
  \/ \E k \in DOMAIN q :
       k > after /\ q[k].event = "connected" /\ Follows(q[k].block, last)

Coming ==
  /\ \A i \in DOMAIN queue :
       queue[i].event = "connected" => Heading(tip, queue, queue[i].block, i)
  /\ m_synced /\ at = "idle" => Heading(tip, queue, m_best_block_index, 0)
  /\ m_synced /\ at = "rewind" => Heading(tip, queue, target, 0)

\* The queue q has the callbacks of the old one in their order, at the places m,
\* and no other block than that of e, at the end.
Grown(q, e, m) ==
  /\ m \in [DOMAIN queue -> DOMAIN q] /\ DOMAIN q \subseteq Nat \ {0}
  /\ \A i, j \in DOMAIN queue : i < j => m[i] < m[j]
  /\ \A i \in DOMAIN queue : q[m[i]] = queue[i]
  /\ \A j \in DOMAIN q : q[j].event = "connected" =>
       \/ \E i \in DOMAIN queue : j = m[i]
       \/ q[j] = e /\ \A i \in DOMAIN queue : m[i] < j
  /\ e.event = "connected" => \E j \in DOMAIN q : q[j] = e /\ \A i \in DOMAIN queue : m[i] < j

LEMMA QueueDomain ==
  ASSUME queue \in Seq(CallbackType)
  PROVE  /\ Len(queue) \in Nat /\ DOMAIN queue = 1..Len(queue)
         /\ \A i \in DOMAIN queue : i \in Nat /\ i > 0 /\ queue[i] \in CallbackType
BY SMT, LenProperties, ElementOfSeq

LEMMA AppendGrown ==
  ASSUME queue \in Seq(CallbackType), NEW e \in CallbackType, NEW q, q = Append(queue, e)
  PROVE  \E m : Grown(q, e, m)
<1> DEFINE m == [i \in DOMAIN queue |-> i]
           n == Len(queue)
<1>1. n \in Nat /\ DOMAIN queue = 1..n
  BY QueueDomain
<1>2. /\ q \in Seq(CallbackType) /\ Len(q) = n + 1
      /\ \A i \in 1..n : q[i] = queue[i]
      /\ q[n + 1] = e
  BY SMT, AppendProperties
<1>3. DOMAIN q = 1..(n + 1)
  BY <1>2, LenProperties
<1> HIDE DEF n
<1>4. /\ 1..(n + 1) \subseteq Nat \ {0} /\ 1..n \subseteq 1..(n + 1) /\ n + 1 \in 1..(n + 1)
      /\ \A j \in 1..(n + 1) : j \in 1..n \/ j = n + 1
      /\ \A i \in 1..n : i < n + 1
  BY SMT, <1>1
<1>5. m \in [1..n -> 1..(n + 1)] /\ \A i \in 1..n : m[i] = i
  BY <1>1, <1>4
<1> HIDE DEF m
<1>6. \A i, j \in 1..n : i < j => m[i] < m[j]
  BY <1>5
<1>7. \A i \in 1..n : q[m[i]] = queue[i]
  BY <1>2, <1>5
<1>8. ASSUME NEW j \in 1..(n + 1)
      PROVE  (\E i \in 1..n : j = m[i]) \/ (q[j] = e /\ \A i \in 1..n : m[i] < j)
  BY <1>2, <1>4, <1>5
<1>9. q[n + 1] = e /\ \A i \in 1..n : m[i] < n + 1
  BY <1>2, <1>4, <1>5
<1>10. Grown(q, e, m)
  BY <1>1, <1>3, <1>4, <1>5, <1>6, <1>7, <1>8, <1>9 DEF Grown
<1> QED BY <1>10

LEMMA EarlyGrown ==
  ASSUME queue \in Seq(CallbackType), NEW e \in CallbackType, NEW f \in CallbackType,
         f.event = "flushed", NEW n \in EarlyPlaces, NEW q, q = Early(n, f, e)
  PROVE  \E m : Grown(q, e, m)
<1> DEFINE k == Len(queue) - n
           m == [i \in DOMAIN queue |-> IF i <= n THEN i ELSE i + 1]
<1>1. Len(queue) \in Nat /\ n \in 0..Len(queue)
  BY LenProperties DEF EarlyPlaces
<1>2. n \in Nat /\ k \in Nat /\ Len(queue) = n + k
  BY SMT, <1>1
<1> HIDE DEF k
<1>3. \A x, y \in Nat : Len(queue) = x + y =>
      /\ Early(x, f, e) \in Seq(CallbackType) /\ Len(Early(x, f, e)) = x + 1 + y + 1
      /\ \A i \in 1..x : Early(x, f, e)[i] = queue[i]
      /\ Early(x, f, e)[x + 1] = f
      /\ \A i \in 1..y : Early(x, f, e)[x + 1 + i] = queue[x + i]
      /\ Early(x, f, e)[x + 1 + y + 1] = e
  BY Inserted
<1>4. /\ q \in Seq(CallbackType) /\ Len(q) = n + 1 + k + 1
      /\ \A i \in 1..n : q[i] = queue[i]
      /\ q[n + 1] = f
      /\ \A i \in 1..k : q[n + 1 + i] = queue[n + i]
      /\ q[n + 1 + k + 1] = e
  BY <1>2, <1>3
<1>5. DOMAIN queue = 1 .. n + k /\ DOMAIN q = 1 .. n + 1 + k + 1
  BY <1>2, <1>4, LenProperties
<1>6. /\ m \in [1 .. n + k -> 1 .. n + 1 + k + 1]
      /\ \A i \in 1 .. n + k : m[i] = IF i <= n THEN i ELSE i + 1
  BY SMT, <1>2, <1>5
<1> HIDE DEF m
<1>7. ASSUME NEW i \in 1 .. n + k, NEW j \in 1 .. n + k, i < j PROVE m[i] < m[j]
  <2>1. /\ m[i] = IF i <= n THEN i ELSE i + 1
        /\ m[j] = IF j <= n THEN j ELSE j + 1
    BY <1>6
  <2> QED BY SMT, <1>2, <1>7, <2>1
<1>8. ASSUME NEW i \in 1 .. n + k PROVE q[m[i]] = queue[i]
  <2>1. CASE i <= n
    BY SMT, <1>2, <1>4, <1>6, <2>1
  <2>2. CASE ~(i <= n)
    <3>1. i - n \in 1..k /\ n + 1 + (i - n) = i + 1 /\ n + (i - n) = i
      BY SMT, <1>2, <2>2
    <3>2. q[n + 1 + (i - n)] = queue[n + (i - n)]
      BY <1>4, <3>1
    <3> QED BY <1>6, <2>2, <3>1, <3>2
  <2> QED BY <2>1, <2>2
<1>9. \A i \in 1 .. n + k : m[i] < n + 1 + k + 1
  BY SMT, <1>2, <1>6
<1>10. ASSUME NEW j \in 1 .. n + 1 + k + 1, q[j].event = "connected"
       PROVE  (\E i \in 1 .. n + k : j = m[i]) \/ (q[j] = e /\ \A i \in 1 .. n + k : m[i] < j)
  <2>1. j # n + 1
    BY <1>4, <1>10
  <2>2. CASE j <= n
    <3>1. j \in 1 .. n + k
      BY SMT, <1>2, <2>2
    <3> QED BY <1>6, <2>2, <3>1
  <2>3. CASE j > n + 1 /\ j # n + 1 + k + 1
    <3>1. j - 1 \in 1 .. n + k /\ ~(j - 1 <= n) /\ j - 1 + 1 = j
      BY SMT, <1>2, <2>3
    <3> QED BY <1>6, <3>1
  <2>4. CASE j = n + 1 + k + 1
    BY <1>4, <1>9, <2>4
  <2>5. j <= n \/ j = n + 1 \/ j > n + 1
    BY SMT, <1>2
  <2> QED BY <2>1, <2>2, <2>3, <2>4, <2>5
<1>11. 1 .. n + 1 + k + 1 \subseteq Nat \ {0} /\ n + 1 + k + 1 \in 1 .. n + 1 + k + 1
  BY SMT, <1>2
<1>12. /\ m \in [DOMAIN queue -> DOMAIN q] /\ DOMAIN q \subseteq Nat \ {0}
       /\ \A i, j \in DOMAIN queue : i < j => m[i] < m[j]
       /\ \A i \in DOMAIN queue : q[m[i]] = queue[i]
  BY <1>5, <1>6, <1>7, <1>8, <1>11
<1>13. \A j \in DOMAIN q : q[j].event = "connected" =>
         \/ \E i \in DOMAIN queue : j = m[i]
         \/ q[j] = e /\ \A i \in DOMAIN queue : m[i] < j
  BY <1>5, <1>10
<1>14. \E j \in DOMAIN q : q[j] = e /\ \A i \in DOMAIN queue : m[i] < j
  BY <1>4, <1>5, <1>9, <1>11
<1>15. Grown(q, e, m)
  BY <1>12, <1>13, <1>14 DEF Grown
<1> QED BY <1>15

\* Nothing is lost when the queue grows while the tip moves with it: a block
\* that is connected follows the old tip, and one that is disconnected leaves
\* its parent behind.
LEMMA GrownHeading ==
  ASSUME NEW q, NEW t, NEW e \in CallbackType, NEW m, Grown(q, e, m),
         NEW last \in BlockOrNone, NEW after, NEW later,
         Heading(tip, queue, last, after),
         \A i \in DOMAIN queue : i > after => m[i] > later,
         tip = None => last = None,
         \/ e.event # "connected" /\ t = tip
         \/ e.event # "connected" /\ tip \in Block \ {Genesis} /\ t = Parent[tip]
         \/ /\ e.event = "connected" /\ t = e.block /\ Parent[e.block] = tip
            /\ \A j \in DOMAIN q : (\A i \in DOMAIN queue : m[i] < j) => j > later
  PROVE  Heading(t, q, last, later)
<1>1. CASE \E k \in DOMAIN queue :
             k > after /\ queue[k].event = "connected" /\ Follows(queue[k].block, last)
  <2>1. PICK k \in DOMAIN queue :
             k > after /\ queue[k].event = "connected" /\ Follows(queue[k].block, last)
    BY <1>1
  <2>2. m[k] \in DOMAIN q /\ q[m[k]] = queue[k] /\ m[k] > later
    BY <2>1 DEF Grown
  <2> QED BY <2>1, <2>2 DEF Heading
<1>2. CASE tip \in Chain[last] \cup {None} /\ t = tip
  BY <1>2 DEF Heading
<1>3. CASE tip \in Chain[last] \cup {None} /\ tip \in Block \ {Genesis} /\ t = Parent[tip]
  <2>1. tip # None /\ tip \in Chain[last] /\ last \in Block
    BY <1>3, ChainDef, IndexSyncAssumption DEF BlockOrNone
  <2>2. Parent[tip] \in Chain[last] \cup {None}
    BY <2>1, ChainDef DEF Closed
  <2> QED BY <1>3, <2>2 DEF Heading
<1>4. CASE /\ tip \in Chain[last] \cup {None}
           /\ e.event = "connected" /\ t = e.block /\ Parent[e.block] = tip
           /\ \A j \in DOMAIN q : (\A i \in DOMAIN queue : m[i] < j) => j > later
  <2>1. PICK j \in DOMAIN q : q[j] = e /\ \A i \in DOMAIN queue : m[i] < j
    BY <1>4 DEF Grown
  <2>2. e.block \in Block
    BY DEF CallbackType
  <2>3. Follows(e.block, last)
    BY <1>4, <2>2, IndexSyncAssumption, ChainDef DEF Follows, BlockOrNone
  <2> QED BY <1>4, <2>1, <2>3 DEF Heading
<1> QED BY <1>1, <1>2, <1>3, <1>4 DEF Heading

LEMMA GrownComing ==
  ASSUME Parts, Coming, NEW e \in CallbackType, NEW m, Grown(queue', e, m),
         UNCHANGED <<m_synced, at, m_best_block_index, target>>,
         \/ e.event # "connected" /\ tip' = tip
         \/ e.event # "connected" /\ tip \in Block \ {Genesis} /\ tip' = Parent[tip]
         \/ e.event = "connected" /\ tip' = e.block /\ Parent[e.block] = tip
  PROVE  Coming'
<1>1. WorkType /\ Started
  BY DEF Parts
<1>2. \A i \in DOMAIN queue : i \in Nat /\ i > 0 /\ queue[i] \in CallbackType
  BY <1>1, QueueDomain DEF WorkType
<1>3. \A j \in DOMAIN queue' : j \in Nat /\ j > 0
  <2>1. DOMAIN queue' \subseteq Nat \ {0}
    BY DEF Grown
  <2> QED BY SMT, <2>1
<1>4. \A i \in DOMAIN queue : m[i] \in Nat /\ m[i] > 0
  BY <1>3 DEF Grown
<1>5. ASSUME NEW j \in DOMAIN queue', queue'[j].event = "connected"
      PROVE  Heading(tip', queue', queue'[j].block, j)
  <2>1. CASE \E i \in DOMAIN queue : j = m[i]
    <3>1. PICK i \in DOMAIN queue : j = m[i]
      BY <2>1
    <3>2. queue'[j] = queue[i] /\ queue[i].event = "connected" /\ queue[i].block \in BlockOrNone
      BY <1>2, <1>5, <3>1 DEF Grown, CallbackType, BlockOrNone
    <3>3. Heading(tip, queue, queue[i].block, i)
      BY <3>2 DEF Coming
    <3>4. \A h \in DOMAIN queue : h > i => m[h] > j
      BY <1>2, <1>4, <3>1 DEF Grown
    <3>5. \A h \in DOMAIN queue' : (\A g \in DOMAIN queue : m[g] < h) => h > j
      BY <1>3, <1>4, <3>1
    <3>6. tip # None
      <4>1. tip = None => queue = <<>>
        BY <1>1 DEF Started
      <4>2. queue # <<>>
        BY SMT, <3>1
      <4> QED BY <4>1, <4>2
    <3>7. Heading(tip', queue', queue[i].block, j)
      BY <3>2, <3>3, <3>4, <3>5, <3>6, GrownHeading
    <3> QED BY <3>2, <3>7
  <2>2. CASE queue'[j] = e
    <3>1. e.event = "connected" /\ e.block \in Block /\ tip' = e.block
      BY <1>5, <2>2 DEF CallbackType
    <3> QED BY <2>2, <3>1, ChainDef DEF Heading
  <2> QED BY <1>5, <2>1, <2>2 DEF Grown
<1>6. /\ \A i \in DOMAIN queue : i > 0 => m[i] > 0
      /\ \A j \in DOMAIN queue' : (\A i \in DOMAIN queue : m[i] < j) => j > 0
  BY <1>3, <1>4
<1>7. ASSUME m_synced, at = "idle" PROVE Heading(tip', queue', m_best_block_index, 0)
  <2>1. m_best_block_index \in BlockOrNone /\ (tip = None => m_best_block_index = None)
    BY <1>1 DEF WorkType, Started
  <2>2. Heading(tip, queue, m_best_block_index, 0)
    BY <1>7 DEF Coming
  <2> QED BY <1>6, <2>1, <2>2, GrownHeading
<1>8. ASSUME m_synced, at = "rewind" PROVE Heading(tip', queue', target, 0)
  <2>1. target \in BlockOrNone /\ tip # None
    BY <1>1, <1>8 DEF WorkType, Started
  <2>2. Heading(tip, queue, target, 0)
    BY <1>8 DEF Coming
  <2> QED BY <1>6, <2>1, <2>2, GrownHeading
<1> QED BY <1>5, <1>7, <1>8 DEF Coming

\* The node tells of every block it connects.
LEMMA NodeComing ==
  ASSUME Parts, Coming, (\E b \in Block : ConnectTip(b)) \/ DisconnectTip \/ FlushStateToDisk
  PROVE  Coming'
<1>1. WorkType /\ queue \in Seq(CallbackType)
  BY DEF Parts, WorkType
<1>2. UNCHANGED <<m_synced, at, m_best_block_index, target>>
  BY DEF ConnectTip, DisconnectTip, FlushStateToDisk, work
<1>3. ASSUME NEW b \in Block, ConnectTip(b) PROVE Coming'
  <2> DEFINE e == [event |-> "connected", block |-> b]
             f == [event |-> "flushed", block |-> tip]
  <2>1. e \in CallbackType /\ e.event = "connected" /\ e.block = b
    BY DEF CallbackType
  <2>2. tip' = b /\ Parent[b] = tip
    BY <1>3 DEF ConnectTip
  <2>3. queue' = Append(queue, e) \/ (tip # None /\ \E n \in EarlyPlaces : queue' = Early(n, f, e))
    BY <1>3 DEF ConnectTip, Early
  <2>4. tip # None => f \in CallbackType /\ f.event = "flushed"
    BY <1>1 DEF WorkType, BlockOrNone, CallbackType
  <2> HIDE DEF e, f
  <2>5. \E m : Grown(queue', e, m)
    BY <1>1, <2>1, <2>3, <2>4, AppendGrown, EarlyGrown
  <2> QED BY <1>2, <2>1, <2>2, <2>5, GrownComing
<1>4. ASSUME UNCHANGED queue, DisconnectTip PROVE Coming'
  <2>1. tip \in Block \ {Genesis} /\ tip' = Parent[tip] /\ tip # None
    BY <1>1, <1>4, IndexSyncAssumption DEF DisconnectTip, WorkType, BlockOrNone
  <2>2. ASSUME NEW last \in BlockOrNone, NEW after, Heading(tip, queue, last, after)
        PROVE  Heading(tip', queue', last, after)
    <3>1. tip \in Chain[last] => Parent[tip] \in Chain[last] \cup {None}
      BY <2>1, ChainDef DEF Closed, BlockOrNone
    <3> QED BY <1>4, <2>1, <2>2, <3>1 DEF Heading
  <2>3. \A i \in DOMAIN queue : queue[i].block \in BlockOrNone
    BY <1>1, QueueDomain DEF CallbackType, BlockOrNone
  <2>4. m_best_block_index \in BlockOrNone /\ target \in BlockOrNone
    BY <1>1 DEF WorkType
  <2> QED BY <1>2, <1>4, <2>2, <2>3, <2>4 DEF Coming
<1>5. ASSUME queue' = Append(queue, [event |-> "flushed", block |-> tip]), tip \in Block,
             tip' = tip \/ (tip # Genesis /\ tip' = Parent[tip])
      PROVE  Coming'
  <2> DEFINE f == [event |-> "flushed", block |-> tip]
  <2>1. f \in CallbackType /\ f.event = "flushed"
    BY <1>5 DEF CallbackType
  <2>2. queue' = Append(queue, f)
    BY <1>5
  <2> HIDE DEF f
  <2>3. \E m : Grown(queue', f, m)
    BY <1>1, <2>1, <2>2, AppendGrown
  <2>4. f.event # "connected"
    BY <2>1
  <2> QED BY <1>2, <1>5, <2>1, <2>3, <2>4, GrownComing
<1> QED BY <1>1, <1>3, <1>4, <1>5 DEF DisconnectTip, FlushStateToDisk, WorkType, BlockOrNone

\* Without a next block the sync thread is on the tip's chain.
LEMMA NothingNext ==
  ASSUME tip \in Block, pindex \in BlockOrNone, NextSyncBlock = None
  PROVE  tip \in Chain[pindex]
<1> DEFINE next == {b \in Chain[tip] \ Chain[pindex] : Parent[b] \in Chain[pindex] \cup {None}}
           S == Chain[tip] \ Chain[pindex]
<1>1. Chain[tip] \subseteq Block /\ Closed(Chain[tip]) /\ tip \in Chain[tip] /\ Genesis \in Chain[tip]
  BY ChainDef, ChainStep
<1>2. next = {}
  <2>1. NextSyncBlock = IF next = {} THEN None ELSE CHOOSE b \in next : TRUE
    BY DEF NextSyncBlock
  <2>2. next # {} => NextSyncBlock \in next
    BY <2>1
  <2> QED BY <1>1, <2>2, IndexSyncAssumption
<1> SUFFICES ASSUME tip \notin Chain[pindex] PROVE FALSE
  OBVIOUS
<1>3. Closed(S) /\ S \in SUBSET Block /\ tip \in S
  BY <1>1, <1>2 DEF Closed
<1>4. Genesis \in S
  BY <1>1, <1>3, ChainDef
<1> QED BY <1>2, <1>4, IndexSyncAssumption

\* A callback that is done with.
LEMMA CallbackComing ==
  ASSUME Parts, Coming, Ignore \/ BlockConnected \/ ChainStateFlushed
  PROVE  Coming'
<1>1. WorkType /\ Started /\ Placed /\ queue \in Seq(CallbackType)
  BY DEF Parts, WorkType
<1>2. queue # <<>> /\ queue' = Tail(queue) /\ UNCHANGED <<tip, m_best_block_index, m_synced>>
  BY DEF Ignore, BlockConnected, ChainStateFlushed, node, work
<1>3. /\ 1 \in DOMAIN queue /\ Event = queue[1] /\ Event \in CallbackType
      /\ DOMAIN queue' \subseteq Nat
      /\ \A i \in DOMAIN queue' : i + 1 \in DOMAIN queue /\ queue'[i] = queue[i + 1]
      /\ \A k \in DOMAIN queue : k = 1 \/ (k > 1 /\ k - 1 \in DOMAIN queue' /\ queue'[k - 1] = queue[k])
  <2>1. Len(queue) \in Nat /\ Len(queue) # 0 /\ DOMAIN queue = 1..Len(queue)
    BY <1>1, <1>2, LenProperties, EmptySeq
  <2>2. queue' \in Seq(CallbackType) /\ Len(queue') = Len(queue) - 1
    BY <1>1, <1>2, HeadTailProperties
  <2>3. DOMAIN queue' = 1..(Len(queue) - 1)
    BY <2>2, LenProperties
  <2>4. /\ 1 \in DOMAIN queue /\ Event = queue[1] /\ Event \in CallbackType
        /\ \A i \in DOMAIN queue' : i + 1 \in DOMAIN queue /\ queue'[i] = queue[i + 1]
    BY <1>1, <1>2, TailQueue
  <2>5. \A k \in 1..Len(queue) :
          k = 1 \/ (k > 1 /\ k - 1 \in 1..(Len(queue) - 1) /\ k - 1 + 1 = k)
    BY SMT, <2>1
  <2>6. DOMAIN queue' \subseteq Nat
    BY SMT, <2>1, <2>3
  <2> QED BY <2>1, <2>3, <2>4, <2>5, <2>6
<1>4. \A k \in DOMAIN queue : k \in Nat /\ k > 0
  BY <1>1, QueueDomain
<1>5. ASSUME NEW last, NEW i \in DOMAIN queue', Heading(tip, queue, last, i + 1)
      PROVE  Heading(tip', queue', last, i)
  <2>1. CASE tip \in Chain[last] \cup {None}
    BY <1>2, <2>1 DEF Heading
  <2>2. CASE \E k \in DOMAIN queue :
              k > i + 1 /\ queue[k].event = "connected" /\ Follows(queue[k].block, last)
    <3>1. PICK k \in DOMAIN queue :
              k > i + 1 /\ queue[k].event = "connected" /\ Follows(queue[k].block, last)
      BY <2>2
    <3>2. k \in Nat /\ k # 1 /\ k - 1 > i
      BY SMT, <1>3, <1>4, <3>1
    <3> QED BY <1>3, <3>1, <3>2 DEF Heading
  <2> QED BY <1>5, <2>1, <2>2 DEF Heading
<1>6. ASSUME NEW last, Heading(tip, queue, last, 1) \/ Heading(tip, queue, last, 0),
             ~(Event.event = "connected" /\ Follows(Event.block, last)) \/ Heading(tip, queue, last, 1)
      PROVE  Heading(tip', queue', last, 0)
  <2>1. CASE tip \in Chain[last] \cup {None}
    BY <1>2, <2>1 DEF Heading
  <2>2. CASE \E k \in DOMAIN queue :
              k # 1 /\ queue[k].event = "connected" /\ Follows(queue[k].block, last)
    <3>1. PICK k \in DOMAIN queue :
              k # 1 /\ queue[k].event = "connected" /\ Follows(queue[k].block, last)
      BY <2>2
    <3>2. k \in Nat /\ k > 1 /\ k - 1 > 0
      BY SMT, <1>4, <3>1
    <3> QED BY <1>3, <3>1, <3>2 DEF Heading
  <2>3. CASE Heading(tip, queue, last, 1)
    <3>1. \A k \in DOMAIN queue : k > 1 => k # 1
      BY SMT, <1>4
    <3> QED BY <2>1, <2>2, <2>3, <3>1 DEF Heading
  <2>4. CASE Heading(tip, queue, last, 0) /\ ~(Event.event = "connected" /\ Follows(Event.block, last))
    BY <1>3, <2>1, <2>2, <2>4 DEF Heading
  <2> QED BY <1>6, <2>3, <2>4
<1>7. ASSUME NEW i \in DOMAIN queue', queue'[i].event = "connected"
      PROVE  Heading(tip', queue', queue'[i].block, i)
  BY <1>3, <1>5, <1>7 DEF Coming
<1>8. CASE Ignore
  <2>1. at' = at /\ (~m_synced \/ at \in {"failed", "unread"})
    BY <1>8 DEF Ignore, work
  <2> QED BY <1>2, <1>7, <2>1 DEF Coming
<1>9. CASE ChainStateFlushed
  <2>1. Event.event = "flushed" /\ at = "idle" /\ m_synced /\ at' \in {at, "failed"}
    BY <1>9 DEF ChainStateFlushed
  <2>2. Heading(tip', queue', m_best_block_index, 0)
    BY <1>6, <2>1 DEF Coming
  <2> QED BY <1>2, <1>7, <2>1, <2>2 DEF Coming
<1>10. CASE BlockConnected
  <2>1. Event.event = "connected" /\ at = "idle" /\ m_synced
    BY <1>10 DEF BlockConnected
  <2>2. Heading(tip, queue, m_best_block_index, 0) /\ Heading(tip, queue, Event.block, 1)
    BY <1>3, <2>1 DEF Coming
  <2>3. CASE Connects(Event.block)
    <3>1. at' = "rewind" /\ target' = Event.block
      BY <1>10, <2>3 DEF BlockConnected
    <3>2. Heading(tip', queue', Event.block, 0)
      BY <1>6, <2>2
    <3> QED BY <1>2, <1>7, <3>1, <3>2 DEF Coming
  <2>4. CASE ~Connects(Event.block)
    <3>1. at' \in {"idle", "failed"}
      BY <1>10, <2>1, <2>4 DEF BlockConnected
    <3>2. ~Follows(Event.block, m_best_block_index)
      <4>1. Event.block \in Block
        BY <1>3 DEF CallbackType
      <4> QED BY <2>4, <4>1, ChainDef DEF Follows, Connects
    <3>3. Heading(tip', queue', m_best_block_index, 0)
      BY <1>6, <2>2, <3>2
    <3> QED BY <1>2, <1>7, <3>1, <3>3 DEF Coming
  <2> QED BY <2>3, <2>4
<1> QED BY <1>8, <1>9, <1>10

\* The other steps leave the queue and the tip alone, but for a start, which
\* finds the index at the tip or leaves it to the sync thread.
LEMMA WorkComing ==
  ASSUME Parts, Coming,
         Restart \/ Rebuild \/ Rewind \/ ProcessBlock \/ SyncBlock \/ SyncNext \/ SyncCheck \/ Interrupt
  PROVE  Coming'
<1>1. WorkType /\ Started /\ Placed /\ Unfailed
  BY DEF Parts
<1>2. CASE Restart
  <2>1. queue' = <<>> /\ tip' = diskTip /\ m_best_block_index' = bestDB
    BY <1>2 DEF Restart, InitIndex
  <2>2. /\ m_synced' => bestDB = diskTip
        /\ at' # "rewind"
    BY <1>2 DEF Restart, InitIndex
  <2>3. DOMAIN queue' = {}
    <3>1. queue' = <<>>
      BY <2>1
    <3> QED BY SMT, <3>1
  <2>4. m_synced' => tip' \in Chain[m_best_block_index'] \cup {None}
    BY <1>1, <2>1, <2>2, ChainDef DEF WorkType, BlockOrNone
  <2> QED BY <2>2, <2>3, <2>4 DEF Coming, Heading
<1>3. CASE ~m_synced' /\ UNCHANGED <<tip, queue>>
  BY <1>3 DEF Coming, Heading
<1>4. CASE Rebuild
  <2>1. tip # None
    BY <1>4, Busy DEF Rebuild
  <2> QED BY <1>3, <1>4, <2>1 DEF Rebuild, node
<1>5. CASE Rewind
  <2>1. at = "rewind" /\ at' \in {"rewind", "failed", "unread"} /\ UNCHANGED <<tip, queue, target, m_synced>>
    BY <1>5 DEF Rewind, Fail, node
  <2> QED BY <2>1 DEF Coming, Heading
<1>6. CASE ProcessBlock
  <2>1. /\ at = "rewind" /\ m_synced /\ UNCHANGED <<tip, queue, m_synced>>
        /\ (at' = "idle" /\ m_best_block_index' = target) \/ at' \in {"failed", "unread"}
    BY <1>6 DEF ProcessBlock, Fail, node
  <2> QED BY <2>1 DEF Coming, Heading
<1>7. CASE SyncBlock \/ SyncNext \/ Interrupt
  <2>1. ~m_synced /\ UNCHANGED <<tip, queue, m_synced>>
    BY <1>1, <1>7 DEF SyncBlock, SyncNext, Interrupt, Fail, node, Placed
  <2> QED BY <1>3, <2>1
<1>8. CASE SyncCheck
  <2>1. at = "check" /\ UNCHANGED <<tip, queue, m_best_block_index>> /\ ~m_synced
    BY <1>1, <1>8 DEF SyncCheck, node, Placed
  <2>2. CASE UNCHANGED m_synced
    BY <1>3, <2>1, <2>2
  <2>3. CASE NextSyncBlock = None /\ m_synced' = TRUE /\ at' = "idle"
    <3>1. m_best_block_index = pindex /\ tip \in Block
      BY <1>1, <2>1, Busy DEF Placed, WorkType, BlockOrNone
    <3>2. tip \in Chain[m_best_block_index]
      BY <1>1, <2>3, <3>1, NothingNext DEF WorkType
    <3> QED BY <2>1, <2>3, <3>2 DEF Coming, Heading
  <2> QED BY <1>8, <2>2, <2>3 DEF SyncCheck
<1> QED BY <1>2, <1>4, <1>5, <1>6, <1>7, <1>8

\* A synced index that has no callbacks to come has the tip, whatever the tree,
\* the reorganisations, the early flushes and the crashes (base.cpp, the second
\* look under cs_main in Sync; BlockUntilSyncedToCurrentChain).
THEOREM IndexCaughtUp == Spec => []CaughtUp
<1>1. Init => Coming
  <2> SUFFICES ASSUME Init PROVE Coming
    OBVIOUS
  <2>1. queue = <<>> /\ (m_synced => tip = None) /\ at # "rewind"
    BY DEF Init
  <2>2. DOMAIN queue = {}
    BY SMT, <2>1
  <2> QED BY <2>1, <2>2 DEF Coming, Heading
<1>2. Parts /\ Coming /\ [Next]_vars => Coming'
  <2> SUFFICES ASSUME Parts, Coming, [Next]_vars PROVE Coming'
    OBVIOUS
  <2>1. CASE (\E b \in Block : ConnectTip(b)) \/ DisconnectTip \/ FlushStateToDisk
    BY <2>1, NodeComing
  <2>2. CASE Ignore \/ BlockConnected \/ ChainStateFlushed
    BY <2>2, CallbackComing
  <2>3. CASE Restart \/ Rebuild \/ Rewind \/ ProcessBlock \/ SyncBlock \/ SyncNext \/ SyncCheck \/ Interrupt
    BY <2>3, WorkComing
  <2>4. CASE UNCHANGED vars
    BY <2>4 DEF vars, node, work, Coming, Heading
  <2> QED BY <2>1, <2>2, <2>3, <2>4 DEF Next, Work
<1>3. Coming => CaughtUp
  <2> SUFFICES ASSUME Coming, m_synced, queue = <<>>, at = "idle"
               PROVE  tip \in Chain[m_best_block_index] \cup {None}
    BY DEF CaughtUp
  <2>1. DOMAIN queue = {}
    BY SMT
  <2> QED BY <2>1 DEF Coming, Heading
<1> QED BY <1>1, <1>2, <1>3, IndexInvariant, PTL DEF Spec

-----------------------------------------------------------------------------
\* What can be read back.  The chain of the index may have blocks that cannot,
\* but only those that a start found in the last commit.
Readable ==
  /\ Chain[tip] \subseteq undo /\ Chain[diskTip] \subseteq diskUndo
  /\ \A i \in DOMAIN queue : queue[i].event = "connected" => queue[i].block \in undo
  /\ at = "rewind" => target \in undo
  /\ Chain[m_current_block_hash] \ undo \subseteq Chain[bestDB]
  /\ restarts \in Nat
  /\ restarts = 0 => Chain[m_current_block_hash] \subseteq undo
  /\ at = "unread" => restarts # 0 /\ iter_tip # Parent[target] /\ iter_tip \in Chain[bestDB]

\* The node connects a block when it has written its undo data.
LEMMA NodeReadable ==
  ASSUME Parts, Readable, (\E b \in Block : ConnectTip(b)) \/ DisconnectTip \/ FlushStateToDisk
  PROVE  Readable'
<1>1. WorkType /\ queue \in Seq(CallbackType)
  BY DEF Parts, WorkType
<1>2. /\ UNCHANGED <<at, target, iter_tip, m_current_block_hash, bestDB, restarts>>
      /\ undo \subseteq undo'
  BY DEF ConnectTip, DisconnectTip, FlushStateToDisk, work, content, database
<1>3. ASSUME NEW e \in CallbackType, NEW m, Grown(queue', e, m),
             e.event = "connected" => e.block \in undo',
             NEW i \in DOMAIN queue', queue'[i].event = "connected"
      PROVE  queue'[i].block \in undo'
  BY <1>2, <1>3 DEF Grown, Readable
<1>4. ASSUME NEW b \in Block, ConnectTip(b) PROVE Readable'
  <2> DEFINE e == [event |-> "connected", block |-> b]
             f == [event |-> "flushed", block |-> tip]
  <2>1. e \in CallbackType /\ e.event = "connected" /\ e.block = b
    BY DEF CallbackType
  <2>2. tip' = b /\ undo' = undo \cup {b} /\ Parent[b] = tip
    BY <1>4 DEF ConnectTip
  <2>3. queue' = Append(queue, e) \/ (tip # None /\ \E n \in EarlyPlaces : queue' = Early(n, f, e))
    BY <1>4 DEF ConnectTip, Early
  <2>4. UNCHANGED <<diskTip, diskUndo>> \/ (diskTip' = b /\ diskUndo' = undo')
    BY <1>4 DEF ConnectTip
  <2>5. tip # None => f \in CallbackType /\ f.event = "flushed"
    BY <1>1 DEF WorkType, BlockOrNone, CallbackType
  <2> HIDE DEF e, f
  <2>6. \E m : Grown(queue', e, m)
    BY <1>1, <2>1, <2>3, <2>5, AppendGrown, EarlyGrown
  <2>7. \A i \in DOMAIN queue' : queue'[i].event = "connected" => queue'[i].block \in undo'
    BY <1>3, <2>1, <2>2, <2>6
  <2>8. Chain[b] = {b} \cup Chain[tip]
    BY <2>2, ChainStep
  <2> QED BY <1>2, <2>2, <2>4, <2>7, <2>8 DEF Readable
<1>5. ASSUME DisconnectTip \/ FlushStateToDisk PROVE Readable'
  <2> DEFINE f == [event |-> "flushed", block |-> tip]
  <2>1. /\ tip \in Block /\ tip' \in {tip, Parent[tip]} /\ undo' = undo
        /\ UNCHANGED <<diskTip, diskUndo>> \/ (diskTip' = tip' /\ diskUndo' = undo)
        /\ queue' = queue \/ queue' = Append(queue, f)
    BY <1>1, <1>5 DEF DisconnectTip, FlushStateToDisk, WorkType, BlockOrNone
  <2>2. f \in CallbackType /\ f.event = "flushed"
    BY <2>1 DEF CallbackType
  <2> HIDE DEF f
  <2>3. \A i \in DOMAIN queue' : queue'[i].event = "connected" => queue'[i].block \in undo'
    <3>1. CASE queue' = queue
      BY <1>2, <3>1 DEF Readable
    <3>2. CASE queue' = Append(queue, f)
      <4>1. \E m : Grown(queue', f, m)
        BY <1>1, <2>2, <3>2, AppendGrown
      <4> QED BY <1>3, <2>2, <4>1
    <3> QED BY <2>1, <3>1, <3>2
  <2>4. Chain[tip'] \subseteq Chain[tip]
    BY <2>1, ChainStep
  <2> QED BY <1>2, <2>1, <2>3, <2>4 DEF Readable
<1> QED BY <1>4, <1>5

\* A start goes to the last commit, and the chain state on disk can be read.
LEMMA StartReadable ==
  ASSUME Parts, Readable, Restart \/ Rebuild
  PROVE  Readable'
<1>1. CASE Restart
  <2>1. /\ tip' = diskTip /\ diskTip' = diskTip /\ undo' = diskUndo' /\ diskUndo' \in {diskUndo, undo}
        /\ bestDB' = bestDB /\ m_current_block_hash' = bestDB /\ queue' = <<>>
        /\ restarts' = restarts + 1
    BY <1>1 DEF Restart, InitIndex, database
  <2>2. at' \in {"refused", "failed", "idle", "next"}
    BY <1>1 DEF Restart, InitIndex
  <2>3. restarts' \in Nat /\ restarts' # 0 /\ DOMAIN queue' = {}
    BY SMT, <2>1 DEF Readable
  <2>4. Chain[diskTip] \subseteq diskUndo'
    BY <2>1 DEF Readable, Parts, WorkType
  <2> QED BY <2>1, <2>2, <2>3, <2>4 DEF Readable
<1>2. CASE Rebuild
  <2>1. /\ UNCHANGED <<tip, undo, diskTip, diskUndo, queue, restarts>>
        /\ m_current_block_hash' = None /\ at' \in {"idle", "next"}
    BY <1>2 DEF Rebuild, node
  <2> QED BY <2>1, ChainDef DEF Readable
<1> QED BY <1>1, <1>2

\* The index adds what can be read, and a block that it cannot leave was committed.
LEMMA WorkReadable ==
  ASSUME Parts, Readable,
         Rewind \/ ProcessBlock \/ SyncBlock \/ SyncNext \/ SyncCheck \/ Interrupt
  PROVE  Readable'
<1>1. WorkType /\ DataType /\ Placed
  BY DEF Parts
<1>2. UNCHANGED <<tip, undo, diskTip, diskUndo, queue, restarts>>
  BY DEF Rewind, ProcessBlock, SyncBlock, SyncNext, SyncCheck, Interrupt, Fail, node
<1>3. CASE Rewind
  <2>1. at = "rewind" /\ iter_tip # Parent[target] /\ m_current_block_hash = iter_tip
    BY <1>1, <1>3 DEF Rewind, Placed
  <2>2. iter_tip \in Block
    <3>1. Follows(target, iter_tip) /\ target \in Block
      BY <1>1, <2>1 DEF Placed
    <3>2. iter_tip # None
      BY <2>1, <3>1, ChainDef, IndexSyncAssumption DEF Follows
    <3> QED BY <1>1, <3>2 DEF WorkType, BlockOrNone
  <2>3. iter_tip \in Chain[iter_tip] /\ Chain[Parent[iter_tip]] \subseteq Chain[iter_tip]
    BY <2>2, ChainStep, ChainDef
  <2>4. CASE ~CanRead(iter_tip)
    <3>1. at' = "unread" /\ UNCHANGED <<m_current_block_hash, bestDB, target, iter_tip>>
      BY <1>3, <2>4 DEF Rewind, Fail, content, database
    <3>2. restarts # 0 /\ iter_tip \in Chain[bestDB]
      BY <2>1, <2>3, <2>4 DEF Readable, CanRead
    <3> QED BY <1>2, <2>1, <3>1, <3>2 DEF Readable
  <2>5. CASE CanRead(iter_tip) /\ CustomRemoveFails(iter_tip)
    <3>1. at' = "failed" /\ UNCHANGED <<m_current_block_hash, bestDB>>
      BY <1>3, <2>5 DEF Rewind, Fail, content, database
    <3> QED BY <1>2, <3>1 DEF Readable
  <2>6. CASE CanRead(iter_tip) /\ ~CustomRemoveFails(iter_tip)
    <3>1. /\ m_current_block_hash' = Parent[iter_tip] /\ UNCHANGED <<bestDB, target, at>>
      BY <1>3, <2>6 DEF Rewind, CustomRemove
    <3> QED BY <1>2, <2>1, <2>3, <3>1 DEF Readable
  <2> QED BY <2>4, <2>5, <2>6
<1>4. CASE ProcessBlock \/ SyncBlock
  <2>1. at = "rewind" /\ iter_tip = Parent[target] /\ m_current_block_hash = Parent[target]
    BY <1>1, <1>4 DEF ProcessBlock, SyncBlock, Placed
  <2>2. target \in Block /\ target \in undo /\ CanRead(target) /\ target # None
    BY <1>1, <2>1, IndexSyncAssumption DEF Placed, Readable, CanRead
  <2>3. ~CustomAppendFails(target)
    BY <2>1 DEF CustomAppendFails
  <2>4. /\ m_current_block_hash' = target /\ at' \in {"idle", "next"}
        /\ bestDB' \in {bestDB, target}
    BY <1>4, <2>2, <2>3 DEF ProcessBlock, SyncBlock, CustomAppend, Commit
  <2>5. Chain[target] = {target} \cup Chain[m_current_block_hash]
    BY <2>1, <2>2, ChainStep
  <2> QED BY <1>2, <2>2, <2>4, <2>5 DEF Readable
<1>5. CASE SyncNext \/ SyncCheck \/ Interrupt
  <2>1. m_current_block_hash' = m_current_block_hash /\ m_current_block_hash = pindex
    BY <1>1, <1>5 DEF SyncNext, SyncCheck, Interrupt, Placed, content
  <2>2. bestDB' \in {bestDB, pindex}
    BY <1>5 DEF SyncNext, SyncCheck, Interrupt, Commit, database
  <2>3. \/ NextSyncBlock # None /\ target' = NextSyncBlock
        \/ at' \in {"check", "idle", "off"}
    BY <1>5 DEF SyncNext, SyncCheck, Interrupt, Aim
  <2>4. NextSyncBlock # None => NextSyncBlock \in undo
    <3> DEFINE next == {b \in Chain[tip] \ Chain[pindex] : Parent[b] \in Chain[pindex] \cup {None}}
    <3>1. NextSyncBlock = IF next = {} THEN None ELSE CHOOSE b \in next : TRUE
      BY DEF NextSyncBlock
    <3>2. NextSyncBlock # None => NextSyncBlock \in next
      BY <3>1
    <3> QED BY <3>2 DEF Readable
  <2>5. at' \in {"rewind", "check", "idle", "off"}
    BY <1>5 DEF SyncNext, SyncCheck, Interrupt, Aim
  <2> QED BY <1>2, <2>1, <2>2, <2>3, <2>4, <2>5 DEF Readable
<1> QED BY <1>3, <1>4, <1>5

LEMMA CallbackReadable ==
  ASSUME Parts, Readable, Ignore \/ BlockConnected \/ ChainStateFlushed
  PROVE  Readable'
<1>1. WorkType /\ Placed
  BY DEF Parts
<1>2. /\ queue # <<>> /\ queue' = Tail(queue)
      /\ UNCHANGED <<tip, undo, diskTip, diskUndo, restarts, m_best_block_index>>
      /\ m_current_block_hash' = m_current_block_hash
  BY DEF Ignore, BlockConnected, ChainStateFlushed, node, work, content
<1>3. /\ 1 \in DOMAIN queue /\ Event = queue[1]
      /\ \A i \in DOMAIN queue' : i + 1 \in DOMAIN queue /\ queue'[i] = queue[i + 1]
  BY <1>1, <1>2, TailQueue DEF WorkType
<1>4. \A i \in DOMAIN queue' : queue'[i].event = "connected" => queue'[i].block \in undo
  BY <1>3 DEF Readable
<1>5. CASE Ignore
  <2>1. UNCHANGED <<at, target, iter_tip, bestDB>>
    BY <1>5 DEF Ignore, work, database
  <2> QED BY <1>2, <1>4, <2>1 DEF Readable
<1>6. CASE BlockConnected
  <2>1. /\ Event.event = "connected" /\ bestDB' = bestDB
        /\ (at' = "rewind" /\ target' = Event.block) \/ at' \in {"idle", "failed"}
    BY <1>6 DEF BlockConnected, database
  <2>2. Event.block \in undo
    BY <1>3, <2>1 DEF Readable
  <2> QED BY <1>2, <1>4, <2>1, <2>2 DEF Readable
<1>7. CASE ChainStateFlushed
  <2>1. at \in {"idle"} /\ at' \in {"idle", "failed"} /\ bestDB' \in {bestDB, m_best_block_index}
    BY <1>7 DEF ChainStateFlushed, Commit
  <2>2. m_current_block_hash = m_best_block_index
    BY <1>1, <2>1 DEF Placed
  <2> QED BY <1>2, <1>4, <2>1, <2>2 DEF Readable
<1> QED BY <1>5, <1>6, <1>7

\* Whatever the tree, the backlog and the crashes, the index does not fail over
\* its own data; block and undo data are missing only to Rewind, after a restart,
\* and only of a block that was committed before the block index was flushed with
\* it (base.cpp, coinstatsindex.cpp).
THEOREM IndexFailsOnlyAhead == Spec => [](TypeOK /\ FailsOnlyAhead)
<1>1. Init => Readable
  <2> SUFFICES ASSUME Init PROVE Readable
    OBVIOUS
  <2>1. /\ tip \in {None, Genesis} /\ diskTip = tip /\ undo = {Genesis} /\ diskUndo = undo
        /\ queue = <<>> /\ m_current_block_hash = None /\ restarts = 0 /\ at \in {"idle", "next"}
    BY DEF Init
  <2>2. DOMAIN queue = {} /\ restarts \in Nat
    BY SMT, <2>1
  <2>3. Chain[None] = {} /\ Chain[Genesis] = {Genesis}
    <3>1. Genesis \in Block /\ Parent[Genesis] = None
      BY IndexSyncAssumption
    <3>2. Chain[Genesis] = {Genesis} \cup Chain[Parent[Genesis]]
      BY <3>1, ChainStep
    <3> QED BY <3>1, <3>2, ChainDef
  <2> QED BY <2>1, <2>2, <2>3 DEF Readable
<1>2. Parts /\ Readable /\ [Next]_vars => Readable'
  <2> SUFFICES ASSUME Parts, Readable, [Next]_vars PROVE Readable'
    OBVIOUS
  <2>1. CASE (\E b \in Block : ConnectTip(b)) \/ DisconnectTip \/ FlushStateToDisk
    BY <2>1, NodeReadable
  <2>2. CASE Restart \/ Rebuild
    BY <2>2, StartReadable
  <2>3. CASE Rewind \/ ProcessBlock \/ SyncBlock \/ SyncNext \/ SyncCheck \/ Interrupt
    BY <2>3, WorkReadable
  <2>4. CASE Ignore \/ BlockConnected \/ ChainStateFlushed
    BY <2>4, CallbackReadable
  <2>5. CASE UNCHANGED vars
    BY <2>5 DEF vars, node, work, database, content, Readable
  <2> QED BY <2>1, <2>2, <2>3, <2>4, <2>5 DEF Next, Work
<1>3. Parts /\ Readable => TypeOK /\ FailsOnlyAhead
  <2> SUFFICES ASSUME Parts, Readable PROVE TypeOK /\ FailsOnlyAhead
    OBVIOUS
  <2>1. TypeOK /\ Unfailed
    BY InvParts DEF IndexInv
  <2>2. restarts # 0 => restarts > 0
    BY SMT DEF Readable
  <2> QED BY <2>1, <2>2 DEF FailsOnlyAhead, Unfailed, Readable
<1> QED BY <1>1, <1>2, <1>3, IndexInvariant, PTL DEF Spec
=============================================================================
