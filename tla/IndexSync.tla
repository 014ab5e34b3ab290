----------------------------- MODULE IndexSync ------------------------------
(***************************************************************************)
(* An optional index of the chain: BaseIndex (src/src/index/base.cpp) with *)
(* the coin statistics of CoinStatsIndex (src/src/index/coinstatsindex.cpp)*)
(* as its content.  The index follows the active chain, first with a       *)
(* thread of its own, then with the callbacks of the validation interface, *)
(* and must find its place again after a crash.                            *)
(*                                                                         *)
(* The callbacks come one at a time and in order, as CallbackQueue         *)
(* promises.  MuHash is an accumulator that blocks are added to and        *)
(* removed from: the set of the blocks it has taken in.  The other         *)
(* statistics go wherever the MuHash goes.                                 *)
(*                                                                         *)
(* A block can be read back once the block index says where its data and   *)
(* undo data are, which it does from the time the block is connected.      *)
(***************************************************************************)
EXTENDS Integers, Sequences

CONSTANTS
    Block,
    Genesis,
    Parent,     \* the tree of blocks: pprev of every block, None of Genesis
    nHeight,
    None,
    MaxQueue,   \* bound on the callbacks that wait, but for a flush in ConnectTip
    MaxRestarts \* bound on the restarts

BlockOrNone == Block \cup {None}

\* The statistics of a block, as they are written.
Entry == [hash : Block, muhash : SUBSET Block]

ASSUME IndexSyncAssumption ==
    /\ Genesis \in Block /\ None \notin Block /\ None \notin Entry
    /\ Parent \in [Block -> BlockOrNone] /\ nHeight \in [Block -> Nat]
    /\ \A b \in Block : Parent[b] = None <=> b = Genesis
    /\ \A b \in Block \ {Genesis} : nHeight[b] = nHeight[Parent[b]] + 1
    /\ nHeight[Genesis] = 0
    /\ MaxQueue \in Nat /\ MaxRestarts \in Nat

\* The blocks from a block back to Genesis: those in every set that has it and
\* the parents of its members.
Chain ==
    [b \in BlockOrNone |->
        {a \in Block : b # None /\ \A S \in SUBSET Block :
            b \in S /\ (\A c \in S : Parent[c] \in S \cup {None}) => a \in S}]

Heights == {nHeight[b] : b \in Block}

VARIABLES
    tip,        \* of the active chain, None before the genesis block is connected
    undo,       \* the blocks whose data and undo data the block index locates;
                \* the genesis block needs no undo data
    diskTip,    \* the chain state on disk,
    diskUndo,   \* and undo in the block index on disk
    queue,      \* the callbacks that wait
    heightDB,   \* the index's database: entries by height and by hash,
    hashDB,
    bestDB,     \* DB_BEST_BLOCK, the first block of the locator, or None
    muhashDB,   \* DB_MUHASH
    m_best_block_index,
    m_synced,
    m_muhash,
    m_current_block_hash,
    at,         \* where the thread that works on the index is
    pindex,     \* the last block of the sync thread, None without one
    target,     \* the block to add
    iter_tip,   \* the block to remove next, on the way to the parent of target
    restarts

node == <<tip, undo, diskTip, diskUndo>>
database == <<heightDB, hashDB, bestDB, muhashDB>>
content == <<m_muhash, m_current_block_hash>>
work == <<at, pindex, target, iter_tip>>
vars == <<node, queue, database, m_best_block_index, m_synced, content, work, restarts>>

Init ==
    /\ tip \in {None, Genesis} /\ diskTip = tip
    /\ undo = {Genesis} /\ diskUndo = undo
    /\ queue = <<>>
    /\ heightDB = [h \in Heights |-> None] /\ hashDB = [b \in Block |-> None]
    /\ bestDB = None /\ muhashDB = {}
    /\ m_best_block_index = None /\ m_synced = (tip = None)
    /\ m_muhash = {} /\ m_current_block_hash = None
    /\ at = IF m_synced THEN "idle" ELSE "next"
    /\ pindex = None /\ target = None /\ iter_tip = None
    /\ restarts = 0

-----------------------------------------------------------------------------
\* The node.  Of a connected block the indexes are told when the step of
\* ActivateBestChain has ended; of a flush at once, and so, when a long cache
\* makes ConnectTip flush in the middle of a step, before the blocks that the
\* step has connected.  The genesis block is connected in a step of its own.
EarlyPlaces ==
    {n \in 0 .. Len(queue) : \A i \in n + 1 .. Len(queue) :
        queue[i].event = "connected" /\ queue[i].block # Genesis}

\* ConnectTip, which writes the undo data of the block.  A flush in it has the
\* coins of the new block and the locator of the old tip.
ConnectTip(b) ==
    /\ Parent[b] = tip /\ at # "refused"
    /\ tip' = b /\ undo' = undo \cup {b}
    /\ \/ /\ Len(queue) < MaxQueue
          /\ queue' = Append(queue, [event |-> "connected", block |-> b])
          /\ UNCHANGED <<diskTip, diskUndo>>
       \/ /\ tip # None /\ Len(queue) <= MaxQueue
          /\ diskTip' = b /\ diskUndo' = undo'
          /\ \E n \in EarlyPlaces :
                 queue' = SubSeq(queue, 1, n) \o <<[event |-> "flushed", block |-> tip]>>
                          \o SubSeq(queue, n + 1, Len(queue))
                          \o <<[event |-> "connected", block |-> b]>>
    /\ UNCHANGED <<database, m_best_block_index, m_synced, content, work, restarts>>

\* DisconnectTip, of which an index hears nothing unless it flushes, with the
\* coins of the new tip and the locator of the old one.
DisconnectTip ==
    /\ tip \notin {None, Genesis} /\ at # "refused"
    /\ tip' = Parent[tip]
    /\ \/ UNCHANGED <<diskTip, diskUndo, queue>>
       \/ /\ Len(queue) < MaxQueue
          /\ diskTip' = Parent[tip] /\ diskUndo' = undo
          /\ queue' = Append(queue, [event |-> "flushed", block |-> tip])
    /\ UNCHANGED <<undo, database, m_best_block_index, m_synced, content, work, restarts>>

\* FlushStateToDisk, called between two steps, writes the block index and the
\* coins, and tells the indexes.
FlushStateToDisk ==
    /\ tip # None /\ Len(queue) < MaxQueue /\ at # "refused"
    /\ diskUndo' = undo /\ diskTip' = tip
    /\ queue' = Append(queue, [event |-> "flushed", block |-> tip])
    /\ UNCHANGED <<tip, undo, database, m_best_block_index, m_synced, content, work, restarts>>

-----------------------------------------------------------------------------
\* LookUpOne: the entry at the height of a block, if it is of that block, and
\* the one under its hash otherwise.
LookUpOne(b) ==
    IF heightDB[nHeight[b]] = None THEN None
    ELSE IF heightDB[nHeight[b]].hash = b THEN heightDB[nHeight[b]]
    ELSE hashDB[b]

\* A fatal error, over the index's own data ("failed") or over block or undo data
\* that cannot be read ("unread"); the node shuts down.
Fail(why) ==
    /\ at' = why
    /\ UNCHANGED <<node, queue, database, m_best_block_index, m_synced, content,
                   pindex, target, iter_tip, restarts>>

\* Init and CustomInit: the best block and the MuHash are those of the last
\* commit.  The best block must be in the block index, and its entry agree
\* with the MuHash.
InitIndex(chainTip, blocks) ==
    LET accepted == bestDB = None \/ bestDB \in blocks
        entry == LookUpOne(bestDB)
        consistent == bestDB = None \/ (entry # None /\ entry.muhash = muhashDB)
    IN  /\ m_best_block_index' = bestDB
        /\ m_muhash' = muhashDB
        /\ m_current_block_hash' = bestDB
        /\ m_synced' = (accepted /\ consistent /\ bestDB = chainTip)
        /\ pindex' = IF m_synced' THEN None ELSE bestDB
        /\ at' = CASE ~accepted -> "refused"
                   [] accepted /\ ~consistent -> "failed"
                   [] m_synced' -> "idle"
                   [] OTHER -> "next"

\* A crash, or the end of the program, and the next start.  A crash may come
\* when a flush has written the block index and not yet the coins.  The block
\* index on disk has the blocks connected before it was written, which it can
\* locate in the files, and any others accepted by then.
Restart ==
    /\ restarts < MaxRestarts /\ at \notin {"refused", "failed"}
    /\ restarts' = restarts + 1
    /\ diskUndo' \in {diskUndo, undo} /\ undo' = diskUndo'
    /\ tip' = diskTip /\ queue' = <<>>
    /\ \E blocks \in SUBSET Block : diskUndo' \subseteq blocks /\ InitIndex(diskTip, blocks)
    /\ target' = None /\ iter_tip' = None
    /\ UNCHANGED <<diskTip, database>>

\* The index that was refused is deleted.
Rebuild ==
    /\ at = "refused"
    /\ heightDB' = [h \in Heights |-> None] /\ hashDB' = [b \in Block |-> None]
    /\ bestDB' = None /\ muhashDB' = {}
    /\ m_best_block_index' = None /\ m_synced' = (tip = None)
    /\ m_muhash' = {} /\ m_current_block_hash' = None
    /\ at' = IF m_synced' THEN "idle" ELSE "next"
    /\ pindex' = None
    /\ UNCHANGED <<node, queue, target, iter_tip, restarts>>

-----------------------------------------------------------------------------
\* Commit writes the best block, alone and with the MuHash in the same batch.
CommitBestBlock(best, muhash) ==
    IF best = None THEN UNCHANGED <<bestDB, muhashDB>>
    ELSE bestDB' = best /\ UNCHANGED muhashDB

Commit(best, muhash) ==
    IF best = None THEN UNCHANGED <<bestDB, muhashDB>>
    ELSE bestDB' = best /\ muhashDB' = muhash

\* RevertBlock and CustomRemove of a block: its entry is kept under its hash,
\* and the statistics become those of its parent, which must be found.
Previous(b) ==
    LET entry == heightDB[nHeight[b] - 1]
    IN  IF entry # None /\ entry.hash # Parent[b] THEN hashDB[Parent[b]] ELSE entry

CopyNothing(b) == UNCHANGED hashDB

CopyHeightIndexToHashIndex(b) ==
    hashDB' = [hashDB EXCEPT ![heightDB[nHeight[b]].hash] = heightDB[nHeight[b]]]

CustomRemoveFails(b) ==
    \/ heightDB[nHeight[b]] = None \/ Previous(b) = None
    \/ Previous(b).muhash # m_muhash \ {b}

CustomRemove(b) ==
    /\ CopyHeightIndexToHashIndex(b)
    /\ m_muhash' = m_muhash \ {b}
    /\ m_current_block_hash' = Parent[b]

\* CustomAppend of a block, which must follow the last one.
CustomAppendFails(b) == b # Genesis /\ m_current_block_hash # Parent[b]

CustomAppend(b) ==
    /\ m_muhash' = m_muhash \cup {b}
    /\ heightDB' = [heightDB EXCEPT ![nHeight[b]] = [hash |-> b, muhash |-> m_muhash']]
    /\ m_current_block_hash' = b

\* ReadBlock and ReadBlockUndo succeed.
CanRead(b) == b \in undo

\* The next round of Rewind.  The best block becomes the new tip after the last.
Rewind ==
    /\ at = "rewind" /\ iter_tip # Parent[target]
    /\ IF ~CanRead(iter_tip) THEN Fail("unread")
       ELSE IF CustomRemoveFails(iter_tip) THEN Fail("failed") ELSE
           /\ CustomRemove(iter_tip)
           /\ iter_tip' = Parent[iter_tip]
           /\ m_best_block_index' = IF iter_tip' = Parent[target] THEN iter_tip'
                                    ELSE m_best_block_index
           /\ UNCHANGED <<node, queue, heightDB, bestDB, muhashDB, m_synced,
                          at, pindex, target, restarts>>

\* ProcessBlock, for a callback, which ends with a new best block ...
ProcessBlock ==
    /\ at = "rewind" /\ m_synced /\ iter_tip = Parent[target]
    /\ IF ~CanRead(target) THEN Fail("unread")
       ELSE IF CustomAppendFails(target) THEN Fail("failed") ELSE
           /\ CustomAppend(target)
           /\ m_best_block_index' = target
           /\ at' = "idle" /\ target' = None /\ iter_tip' = None
           /\ UNCHANGED <<node, queue, hashDB, bestDB, muhashDB, m_synced, pindex, restarts>>

\* ... and for the sync thread, which commits now and then.
SyncBlock ==
    /\ at = "rewind" /\ ~m_synced /\ iter_tip = Parent[target]
    /\ IF ~CanRead(target) THEN Fail("unread")
       ELSE IF CustomAppendFails(target) THEN Fail("failed") ELSE
           /\ CustomAppend(target)
           /\ at' = "next" /\ pindex' = target /\ target' = None /\ iter_tip' = None
           /\ \/ UNCHANGED <<m_best_block_index, bestDB, muhashDB>>
              \/ m_best_block_index' = target /\ Commit(target, m_muhash')
           /\ UNCHANGED <<node, queue, hashDB, m_synced, restarts>>

-----------------------------------------------------------------------------
\* The block of the active chain that follows the last common one.
NextSyncBlock ==
    LET next == {b \in Chain[tip] \ Chain[pindex] : Parent[b] \in Chain[pindex] \cup {None}}
    IN  IF next = {} THEN None ELSE CHOOSE b \in next : TRUE

Aim(next) ==
    /\ target' = next /\ iter_tip' = pindex
    /\ at' = "rewind"

\* Sync: the next block, or, when there is none, a commit ...
SyncNext ==
    /\ at = "next"
    /\ \/ NextSyncBlock # None /\ Aim(NextSyncBlock)
          /\ UNCHANGED <<m_best_block_index, bestDB, muhashDB>>
       \/ /\ NextSyncBlock = None
          /\ m_best_block_index' = pindex /\ Commit(pindex, m_muhash)
          /\ at' = "check"
          /\ UNCHANGED <<target, iter_tip>>
    /\ UNCHANGED <<node, queue, heightDB, hashDB, m_synced, content, pindex, restarts>>

\* ... and a second look at the chain under cs_main, without and with which the
\* callbacks take over.
SyncUnchecked ==
    /\ at = "check"
    /\ m_synced' = TRUE /\ at' = "idle" /\ pindex' = None
    /\ UNCHANGED <<node, queue, database, m_best_block_index, content, target, iter_tip,
                   restarts>>

SyncCheck ==
    /\ at = "check"
    /\ \/ NextSyncBlock # None /\ Aim(NextSyncBlock) /\ UNCHANGED <<m_synced, pindex>>
       \/ /\ NextSyncBlock = None
          /\ m_synced' = TRUE /\ at' = "idle" /\ pindex' = None
          /\ UNCHANGED <<target, iter_tip>>
    /\ UNCHANGED <<node, queue, database, m_best_block_index, content, restarts>>

\* The sync thread is interrupted by a shutdown, and commits.
Interrupt ==
    /\ at = "next" /\ restarts < MaxRestarts
    /\ m_best_block_index' = pindex /\ Commit(pindex, m_muhash)
    /\ at' = "off"
    /\ UNCHANGED <<node, queue, heightDB, hashDB, m_synced, content, pindex, target, iter_tip,
                   restarts>>

-----------------------------------------------------------------------------
\* The callbacks.  Until the index is synced they do nothing, and after a fatal
\* error the index is stopped.
Event == Head(queue)

Ignore ==
    /\ queue # <<>> /\ (~m_synced \/ at \in {"failed", "unread"})
    /\ queue' = Tail(queue)
    /\ UNCHANGED <<node, database, m_best_block_index, m_synced, content, work, restarts>>

\* Whether a block connects to the best block, and to an ancestor of it.
ConnectsToBest(b) == Parent[b] = m_best_block_index

Connects(b) ==
    IF m_best_block_index = None THEN b = Genesis
    ELSE Parent[b] \in Chain[m_best_block_index] \cup {None}

\* BlockConnected: a block that does not connect is left out.
BlockConnected ==
    /\ queue # <<>> /\ Event.event = "connected" /\ m_synced /\ at = "idle"
    /\ queue' = Tail(queue)
    /\ IF Connects(Event.block)
       THEN at' = "rewind" /\ target' = Event.block /\ iter_tip' = m_best_block_index
       ELSE IF m_best_block_index = None
       THEN at' = "failed" /\ UNCHANGED <<target, iter_tip>>
       ELSE UNCHANGED <<at, target, iter_tip>>
    /\ UNCHANGED <<node, database, m_best_block_index, m_synced, content, pindex, restarts>>

\* ChainStateFlushed: a commit, if the index has taken in the flushed block.  A
\* best block is needed for that.
ChainStateFlushed ==
    /\ queue # <<>> /\ Event.event = "flushed" /\ m_synced /\ at = "idle"
    /\ queue' = Tail(queue)
    /\ IF Event.block \in Chain[m_best_block_index] THEN Commit(m_best_block_index, m_muhash)
       ELSE UNCHANGED <<bestDB, muhashDB>>
    /\ at' = IF m_best_block_index = None THEN "failed" ELSE at
    /\ UNCHANGED <<node, heightDB, hashDB, m_best_block_index, m_synced, content, pindex, target,
                   iter_tip, restarts>>

Work ==
    \/ Rewind \/ ProcessBlock \/ SyncBlock \/ SyncNext \/ SyncCheck
    \/ BlockConnected \/ ChainStateFlushed

Next ==
    \/ \E b \in Block : ConnectTip(b)
    \/ DisconnectTip \/ FlushStateToDisk \/ Restart \/ Rebuild \/ Interrupt \/ Ignore \/ Work

Spec == Init /\ [][Next]_vars

\* The sync thread runs and, when it has ended, the scheduler delivers the
\* callbacks.
FairSpec == Spec /\ WF_vars(Work)

-----------------------------------------------------------------------------
\* The state has the shape of the code's members, and the running statistics are
\* those of the chain up to m_current_block_hash, which CustomAppend and
\* RevertBlock move together (coinstatsindex.cpp).
TypeOK ==
    /\ {tip, diskTip, bestDB, m_best_block_index, m_current_block_hash, pindex, target,
        iter_tip} \subseteq BlockOrNone
    /\ undo \subseteq Block /\ diskUndo \subseteq undo
    /\ queue \in Seq([event : {"connected", "flushed"}, block : Block])
    /\ heightDB \in [Heights -> Entry \cup {None}] /\ hashDB \in [Block -> Entry \cup {None}]
    /\ muhashDB \subseteq Block
    /\ m_synced \in BOOLEAN
    /\ at \in {"idle", "next", "rewind", "check", "off", "refused", "failed", "unread"}
    /\ at # "failed" => m_muhash = Chain[m_current_block_hash]

\* No reorganisation, backlog of callbacks, interruption or crash leads to a
\* fatal error over the index's own data: blocks are added to their parents, the
\* entries that a rewind needs exist, and the last commit agrees with them ("the
\* index is not corrupted if there is an unclean shutdown", coinstatsindex.cpp).
\* Block and undo data are missing only to Rewind, after a restart, and only of a
\* block that the index committed before the block index was flushed with it
\* ("the committed index state must never be ahead of the flushed chainstate,
\* otherwise unclean restarts would lead to index corruption", base.cpp).
FailsOnlyAhead ==
    /\ at # "failed"
    /\ at = "unread" =>
           restarts > 0 /\ iter_tip # Parent[target] /\ iter_tip \in Chain[bestDB]

\* What the index has taken in can be looked up: for every block of the chain it
\* is at, and of the one last committed, LookUpOne finds that block's
\* statistics, although heights were overwritten by other branches.
Retrievable ==
    at \notin {"refused", "failed"} =>
        \A b \in Chain[m_current_block_hash] \cup Chain[bestDB] :
            LookUpOne(b) = [hash |-> b, muhash |-> Chain[b]]

\* A synced index that has no callbacks to come has the tip ("otherwise a new
\* block could be attached while m_synced is still false, and it would not be
\* indexed", base.cpp).  BlockUntilSyncedToCurrentChain relies on it.
CaughtUp ==
    m_synced /\ queue = <<>> /\ at = "idle" => tip \in Chain[m_best_block_index] \cup {None}

\* When the tip stops moving, the index arrives there, also after crashes, unless
\* it was refused or the node was shut down, by a request or by the fatal error
\* that FailsOnlyAhead allows, and it waits for the user.
CatchesUp ==
    <>[][tip' = tip]_vars =>
        \/ []<>(m_synced /\ tip \in Chain[m_best_block_index] \cup {None})
        \/ []<>(at \in {"refused", "off", "unread"})

\* An index that was committed is found again by its locator, whatever of the
\* block index had reached the disk ("A locator is used instead of a simple hash
\* of the chain tip because blocks and block index entries may not be flushed to
\* disk until after this database is updated", base.h).
NeverRefused == at # "refused"
=============================================================================
