---------------------------- MODULE ChainStorage ----------------------------
(***************************************************************************)
(* What a node has on disk and how it gets back from a crash: the block    *)
(* and undo files and the block index (src/node/blockstorage.cpp), the     *)
(* coins database (src/txdb.cpp), FlushStateToDisk, which writes them in   *)
(* turn, and ReplayBlocks, which repairs an interrupted flush at start-up  *)
(* (src/validation.cpp).                                                   *)
(*                                                                         *)
(* The block tree is a constant.  A block is its net effect on the unspent *)
(* outputs: Ins[b] are the outpoints its transactions spend, Outs[b] those *)
(* they create; an outpoint in both is created and spent inside the block. *)
(* Of a coin only the height it was created at is kept.  CoinsTip() is the *)
(* map it presents (CoinsCache shows that a cache is such a map).  Which   *)
(* block becomes the tip is not decided here: any block whose parent is    *)
(* the tip may be connected, and the tip may always be disconnected.       *)
(***************************************************************************)
EXTENDS Integers, FiniteSetsExt

CONSTANTS
  Block, Genesis, Parent, Height,
  Outpoint, Ins, Outs, Spent,
  Null,       \* the null hash
  FileCap,    \* blocks that fit in one block file
  PruneMode,  \* BlockManager::IsPruneMode()
  Keep,       \* MIN_BLOCKS_TO_KEEP
  MaxCrash,   \* bound on the crashes of a behaviour
  MaxFile     \* bound on the number of the last block file

\* b and its ancestors.
Chain ==
  LET C[b \in Block] == IF b = Genesis THEN {Genesis} ELSE C[Parent[b]] \cup {b}
  IN  [b \in Block |-> C[b]]

Coins == [Outpoint -> {Height[b] : b \in Block} \cup {Spent}]

\* UpdateCoins over the transactions of b, and RollforwardBlock.
Connect(m, b) ==
  [o \in Outpoint |->
    IF o \in Ins[b] THEN Spent ELSE IF o \in Outs[b] THEN Height[b] ELSE m[o]]

\* The unspent outputs after b.
Utxo ==
  LET U[b \in Block] ==
        IF b = Genesis THEN [o \in Outpoint |-> Spent] ELSE Connect(U[Parent[b]], b)
  IN  [b \in Block |-> U[b]]

\* Mutant: the spent coins are not restored.
DisconnectSpends(m, b) ==
  [o \in Outpoint |-> IF o \in Outs[b] THEN Spent ELSE m[o]]

\* DisconnectBlock: outputs are erased whether or not they are there, inputs are
\* written back from the undo data, which holds the coins b spent.
Disconnect(m, b) ==
  [o \in Outpoint |->
    IF o \in Outs[b] THEN Spent
    ELSE IF o \in Ins[b] THEN Utxo[Parent[b]][o] ELSE m[o]]

ASSUME TreeAssumption ==
  /\ Genesis \in Block
  /\ Null \notin Block
  /\ Parent \in [Block -> Block]
  /\ Height \in [Block -> Nat]
  /\ Height[Genesis] = 0
  /\ \A b \in Block \ {Genesis} : Height[b] = Height[Parent[b]] + 1

\* A block spends what is unspent before it or what it creates, and creates only
\* what is not there (BIP30).  The genesis block's outputs are not spendable.
ASSUME UtxoAssumption ==
  /\ Spent \notin Nat
  /\ Ins \in [Block -> SUBSET Outpoint]
  /\ Outs \in [Block -> SUBSET Outpoint]
  /\ \A b \in Block \ {Genesis} :
       /\ \A o \in Ins[b] \ Outs[b] : Utxo[Parent[b]][o] # Spent
       /\ \A o \in Outs[b] : Utxo[Parent[b]][o] = Spent

ASSUME BoundAssumption ==
  /\ FileCap \in Nat \ {0} /\ Keep \in Nat
  /\ MaxCrash \in Nat /\ MaxFile \in Nat
  /\ PruneMode \in BOOLEAN

VARIABLES
  phase,       \* where the node is: see Phase
  tip,         \* best block of CoinsTip(), or of the cache ReplayBlocks works in
  view,        \* the map that cache presents
  idx,         \* m_block_index and m_blockfile_info in memory
  undoHeight,  \* BlockfileCursor::undo_height
  pruning,     \* setFilesToPrune
  blk, rev,    \* contents of the blk and rev files: pairs of a file and a block
  blkSync, revSync,  \* the part of them that is known to be on the disk
  idxDB,       \* the block tree database; its batches are written with sync
  db,          \* the coins database as the program sees it
  durable,     \* the coins database as far as it has reached the disk
  crashes

mem == <<tip, view, idx, undoHeight, pruning>>
files == <<blk, rev, blkSync, revSync>>
vars == <<phase, mem, files, idxDB, db, durable, crashes>>

\* "index", "unlink" and "coins" are the points of FlushStateToDisk where the
\* index, the pruned files and the coins are next; "replay" is ReplayBlocks.
Phase == {"idle", "index", "unlink", "coins", "down", "replay", "failed"}

-----------------------------------------------------------------------------
InFile(i, f) == {b \in i.data : i.file[b] = f}
HeightLast(i, f) == Max({Height[b] : b \in InFile(i, f)})
Full(i, f) == Cardinality(InFile(i, f)) >= FileCap
Of(contents, f) == {p \in contents : p[1] = f}

\* ReadBlock and ReadBlockUndo succeed.
CanRead(b) == b \in idx.data /\ <<idx.file[b], b>> \in blk
CanUndo(b) == b \in idx.undo /\ <<idx.file[b], b>> \in rev

EmptyIdx ==
  [known |-> {}, data |-> {}, undo |-> {}, file |-> [b \in Block |-> 0], last |-> 0]

\* LoadGenesisBlock, for an index that does not have it.
WithGenesis(i) ==
  IF Genesis \in i.known THEN i
  ELSE [i EXCEPT !.known = @ \cup {Genesis}, !.data = @ \cup {Genesis}]

EmptyDB == [coins |-> [o \in Outpoint |-> Spent], best |-> Null, heads |-> <<>>]

Init ==
  /\ phase = "idle"
  /\ tip = Genesis
  /\ view = EmptyDB.coins
  /\ idx = WithGenesis(EmptyIdx)
  /\ undoHeight = 0
  /\ pruning = {}
  /\ blk = {<<0, Genesis>>} /\ rev = {}
  /\ blkSync = {} /\ revSync = {}
  /\ idxDB = EmptyIdx
  /\ db = EmptyDB /\ durable = EmptyDB
  /\ crashes = 0

-----------------------------------------------------------------------------
(* The running node.                                                        *)

\* AcceptBlock and WriteBlock.  FindNextBlockPos leaves a full file for the next
\* one and flushes it; its undo file only if the undo data has kept up.
AcceptBlock(b) ==
  LET last == idx.last
      f == IF Full(idx, last) THEN last + 1 ELSE last
      finalize_undo == HeightLast(idx, last) = undoHeight
  IN
  /\ phase = "idle"
  /\ b \notin idx.data
  /\ Parent[b] \in idx.known
  /\ f <= MaxFile
  /\ blk' = blk \cup {<<f, b>>}
  /\ idx' = [idx EXCEPT !.known = @ \cup {b}, !.data = @ \cup {b},
                        !.file[b] = f, !.last = f]
  /\ IF f = last
     THEN UNCHANGED <<blkSync, revSync, undoHeight>>
     ELSE /\ blkSync' = blkSync \cup Of(blk, last)
          /\ revSync' = IF finalize_undo THEN revSync \cup Of(rev, last) ELSE revSync
          /\ undoHeight' = 0
  /\ UNCHANGED <<phase, tip, view, pruning, rev, idxDB, db, durable, crashes>>

\* WriteBlockUndo, unless the index already has the undo data.  The undo file of an
\* older block file is flushed with the undo data of that file's highest block.
WriteBlockUndo(b) ==
  LET f == idx.file[b] IN
  IF b \in idx.undo
  THEN UNCHANGED <<rev, revSync, idx, undoHeight>>
  ELSE /\ rev' = rev \cup {<<f, b>>}
       /\ idx' = [idx EXCEPT !.undo = @ \cup {b}]
       /\ revSync' = IF f < idx.last /\ Height[b] = HeightLast(idx, f)
                      THEN revSync \cup Of(rev', f) ELSE revSync
       /\ undoHeight' = IF f = idx.last /\ Height[b] > undoHeight
                         THEN Height[b] ELSE undoHeight

\* ConnectTip.  A block that cannot be read ends the program.
ConnectTip(b) ==
  /\ phase = "idle"
  /\ b # Genesis /\ Parent[b] = tip /\ b \in idx.data
  /\ IF CanRead(b)
     THEN /\ view' = Connect(view, b)
          /\ tip' = b
          /\ WriteBlockUndo(b)
          /\ UNCHANGED phase
     ELSE /\ phase' = "failed"
          /\ UNCHANGED <<tip, view, idx, undoHeight, rev, revSync>>
  /\ UNCHANGED <<pruning, blk, blkSync, idxDB, db, durable, crashes>>

\* DisconnectTip.
DisconnectTip ==
  /\ phase = "idle"
  /\ tip # Genesis
  /\ IF CanRead(tip) /\ CanUndo(tip)
     THEN /\ view' = Disconnect(view, tip)
          /\ tip' = Parent[tip]
          /\ UNCHANGED phase
     ELSE /\ phase' = "failed"
          /\ UNCHANGED <<tip, view>>
  /\ UNCHANGED <<idx, undoHeight, pruning, files, idxDB, db, durable, crashes>>

-----------------------------------------------------------------------------
(* FlushStateToDisk, under cs_main throughout.                              *)

\* FindFilesToPruneManual: whole files, all of whose blocks are Keep below the
\* height of m_chain.  A flush inside DisconnectTip runs after the coins have left
\* the block and before m_chain has: m_chain is then one higher than tip.
Prunable ==
  {f \in 0 .. idx.last - 1 :
    /\ InFile(idx, f) # {}
    /\ \A b \in InFile(idx, f) : Height[b] <= Max({0, Height[tip] + 1 - Keep})}

\* Mutant: BLOCK_HAVE_DATA is not cleared.
PrunedKept(i, F) == i

\* PruneOneBlockFile, for every file of F.
Pruned(i, F) ==
  LET gone == {b \in i.data : i.file[b] \in F} IN
  [i EXCEPT !.data = @ \ gone, !.undo = @ \ gone,
            !.file = [b \in Block |-> IF b \in gone THEN 0 ELSE @[b]]]

\* Mutant: the block file is not flushed.
FlushNoBlockFile(f) ==
  /\ blkSync' = blkSync
  /\ revSync' = revSync \cup Of(rev, f)

\* Mutant: the undo file is not flushed.
FlushNoUndoFile(f) ==
  /\ blkSync' = blkSync \cup Of(blk, f)
  /\ revSync' = revSync

\* FlushChainstateBlockFile: the file being written, and its undo file.
FlushChainstateBlockFile(f) ==
  /\ blkSync' = blkSync \cup Of(blk, f)
  /\ revSync' = revSync \cup Of(rev, f)

\* The files to prune are chosen, and the block files flushed.
BeginFlush(F) ==
  /\ phase = "idle"
  /\ phase' = "index"
  /\ F \in SUBSET (IF PruneMode THEN Prunable ELSE {})
  /\ pruning' = F
  /\ idx' = Pruned(idx, F)
  /\ FlushChainstateBlockFile(idx.last)
  /\ UNCHANGED <<tip, view, undoHeight, blk, rev, idxDB, db, durable, crashes>>

\* Mutant: the index is left for a later flush.
WriteBlockIndexLater ==
  /\ phase = "index"
  /\ phase' = IF pruning = {} THEN "coins" ELSE "unlink"
  /\ UNCHANGED <<mem, files, idxDB, db, durable, crashes>>

\* WriteBlockIndexDB, in one batch.
WriteBlockIndexDB ==
  /\ phase = "index"
  /\ phase' = IF pruning = {} THEN "coins" ELSE "unlink"
  /\ idxDB' = idx
  /\ UNCHANGED <<mem, files, db, durable, crashes>>

\* UnlinkPrunedFiles, one file at a time.
UnlinkPrunedFile(f) ==
  /\ phase = "unlink"
  /\ f \in pruning
  /\ pruning' = pruning \ {f}
  /\ phase' = IF pruning' = {} THEN "coins" ELSE "unlink"
  /\ blk' = blk \ Of(blk, f) /\ blkSync' = blkSync \ Of(blkSync, f)
  /\ rev' = rev \ Of(rev, f) /\ revSync' = revSync \ Of(revSync, f)
  /\ UNCHANGED <<tip, view, idx, undoHeight, idxDB, db, durable, crashes>>

-----------------------------------------------------------------------------
(* CCoinsViewDB::BatchWrite of CoinsTip(), or of the cache of ReplayBlocks. *)

InHeads == db.best = Null /\ db.heads # <<>>

\* Mutant: a flush that repairs an interrupted one forgets where that came from.
OldTipBest == db.best

\* The block the database comes from.
OldTip == IF InHeads THEN db.heads[2] ELSE db.best

\* BatchWrite has something to do: in FlushStateToDisk, or once ReplayBlocks is
\* through.
Writing == phase = "coins" \/ (phase = "replay" /\ tip = db.heads[1])

\* assert(old_heads[0] == hashBlock)
HeadsMatch == InHeads => db.heads[1] = tip

\* The database after a partial batch with the entries S.
Batch(S) ==
  [coins |-> [o \in Outpoint |-> IF o \in S THEN view[o] ELSE db.coins[o]],
   best |-> Null, heads |-> <<tip, OldTip>>]

\* A batch has grown past batch_write_bytes.
WritePartialBatch(S) ==
  /\ Writing
  /\ IF HeadsMatch
     THEN db' = Batch(S) /\ UNCHANGED phase
     ELSE phase' = "failed" /\ UNCHANGED db
  /\ UNCHANGED <<mem, files, idxDB, durable, crashes>>

\* Mutant: DB_HEAD_BLOCKS is not erased.
FinalHeads == [coins |-> view, best |-> tip, heads |-> <<tip, OldTip>>]

\* The database after the last batch.
Final == [coins |-> view, best |-> tip, heads |-> <<>>]

WriteFinalBatch ==
  /\ Writing
  /\ IF HeadsMatch
     THEN db' = Final /\ phase' = "idle"
     ELSE phase' = "failed" /\ UNCHANGED db
  /\ UNCHANGED <<mem, files, idxDB, durable, crashes>>

\* LevelDB writes its log and tables out on its own schedule: the batches were
\* written without sync, but reach the disk in order.
SyncCoinsDB ==
  /\ durable # db
  /\ durable' = db
  /\ UNCHANGED <<phase, mem, files, idxDB, db, crashes>>

-----------------------------------------------------------------------------
(* Crashes and start-up.                                                    *)

LoseMemory ==
  /\ phase \notin {"down", "failed"}
  /\ crashes < MaxCrash
  /\ crashes' = crashes + 1
  /\ phase' = "down"
  /\ tip' = Genesis /\ view' = EmptyDB.coins /\ idx' = EmptyIdx
  /\ undoHeight' = 0 /\ pruning' = {}
  /\ UNCHANGED <<blkSync, revSync, idxDB, durable>>

\* The process dies; the operating system keeps what was written.
Crash ==
  /\ LoseMemory
  /\ UNCHANGED <<blk, rev, db>>

\* The machine dies; what was not synced is gone.
PowerLoss ==
  /\ LoseMemory
  /\ blk' = blkSync /\ rev' = revSync /\ db' = durable

\* The contents the index i refers to; the rest is free space for later writes.
BlkOf(i, contents) == {p \in contents : p[2] \in i.data /\ i.file[p[2]] = p[1]}
RevOf(i, contents) == {p \in contents : p[2] \in i.undo /\ i.file[p[2]] = p[1]}

\* LoadBlockIndexDB checks that every block file the index names is there.
FilesPresent == \A b \in idxDB.data : Of(blk, idxDB.file[b]) # {}

Known(i, h) == h \in i.known

\* The index can be loaded, and the coins database names only blocks it has.
CanStart(i) ==
  /\ FilesPresent
  /\ IF db.heads = <<>>
     THEN db.best = Null \/ Known(i, db.best)
     ELSE Known(i, db.heads[1]) /\ (db.heads[2] = Null \/ Known(i, db.heads[2]))

\* CompleteChainstateInitialization: LoadBlockIndex, LoadGenesisBlock, then
\* ReplayBlocks up to its loops, or LoadChainTip.  The first flush has no old tip
\* and is rolled forward from the block after the genesis block.
Restart ==
  LET i == WithGenesis(idxDB)
      start == IF db.heads = <<>> THEN db.best ELSE db.heads[2]
  IN
  /\ phase = "down"
  /\ IF CanStart(i)
     THEN /\ phase' = IF db.heads = <<>> THEN "idle" ELSE "replay"
          /\ tip' = IF start = Null THEN Genesis ELSE start
          /\ view' = db.coins
          /\ idx' = i
     ELSE phase' = "failed" /\ UNCHANGED <<tip, view, idx>>
  /\ blk' = BlkOf(i, blk) \cup {<<i.file[Genesis], Genesis>> : x \in {Genesis} \ idxDB.known}
  /\ rev' = RevOf(i, rev)
  /\ blkSync' = BlkOf(i, blkSync) /\ revSync' = RevOf(i, revSync)
  /\ UNCHANGED <<undoHeight, pruning, idxDB, db, durable, crashes>>

\* The loops of ReplayBlocks.  tip is pindexOld on the way down to the fork, and
\* the block rolled forward to on the way up.
RollbackBlock ==
  /\ phase = "replay"
  /\ tip \notin Chain[db.heads[1]]
  /\ IF CanRead(tip) /\ CanUndo(tip)
     THEN view' = Disconnect(view, tip) /\ tip' = Parent[tip] /\ UNCHANGED phase
     ELSE phase' = "failed" /\ UNCHANGED <<view, tip>>
  /\ UNCHANGED <<idx, undoHeight, pruning, files, idxDB, db, durable, crashes>>

RollforwardBlock(b) ==
  /\ phase = "replay"
  /\ tip \in Chain[db.heads[1]]
  /\ b \in Chain[db.heads[1]] \ {Genesis} /\ Parent[b] = tip
  /\ IF CanRead(b)
     THEN view' = Connect(view, b) /\ tip' = b /\ UNCHANGED phase
     ELSE phase' = "failed" /\ UNCHANGED <<view, tip>>
  /\ UNCHANGED <<idx, undoHeight, pruning, files, idxDB, db, durable, crashes>>

Next ==
  \/ \E b \in Block \ {Genesis} : AcceptBlock(b)
  \/ \E b \in Block : ConnectTip(b)
  \/ DisconnectTip
  \/ \E F \in SUBSET (0 .. idx.last) : BeginFlush(F)
  \/ WriteBlockIndexDB
  \/ \E f \in pruning : UnlinkPrunedFile(f)
  \/ \E S \in SUBSET Outpoint : WritePartialBatch(S)
  \/ WriteFinalBatch
  \/ SyncCoinsDB
  \/ Crash
  \/ PowerLoss
  \/ Restart
  \/ RollbackBlock
  \/ \E b \in Block : RollforwardBlock(b)

Spec == Init /\ [][Next]_vars

\* The thread that starts the node up, or has begun to write its last batch, runs.
Fairness ==
  WF_vars(\/ Restart \/ RollbackBlock \/ WriteFinalBatch
          \/ \E b \in Block : RollforwardBlock(b))

FairSpec == Spec /\ Fairness

-----------------------------------------------------------------------------
Index ==
  [known : SUBSET Block, data : SUBSET Block, undo : SUBSET Block,
   file : [Block -> Nat], last : Nat]
Contents == SUBSET (Nat \X Block)
Head == Block \cup {Null}
Database ==
  {d \in [coins : Coins, best : Head, heads : {<<>>} \cup (Block \X Head)] :
    d.heads # <<>> => d.best = Null}

\* The old end of an interrupted flush: the first flush starts from nothing.
UtxoOf(h) == IF h = Null THEN Utxo[Genesis] ELSE Utxo[h]

\* Files, index, coins databases and the phases of a flush and of a restart;
\* a coins database has a best block or two heads, never both.
TypeOK ==
  /\ phase \in Phase
  /\ tip \in Block
  /\ view \in Coins
  /\ idx \in Index /\ idxDB \in Index
  /\ undoHeight \in Nat
  /\ pruning \in SUBSET Nat
  /\ blk \in Contents /\ rev \in Contents
  /\ blkSync \in SUBSET blk /\ revSync \in SUBSET rev
  /\ db \in Database /\ durable \in Database
  /\ crashes \in 0 .. MaxCrash

\* A coins database that names a best block holds exactly the unspent outputs
\* after that block; one in the middle of a flush holds, for every outpoint, the
\* coin of one end of the flush or of the other, so no coin is beyond repair.
ConsistentDB(d) ==
  IF d.heads = <<>>
  THEN d.coins = UtxoOf(d.best)
  ELSE \A o \in Outpoint : d.coins[o] \in {UtxoOf(d.heads[2])[o], Utxo[d.heads[1]][o]}

\* Both the coins database the program sees and the one a power loss would leave
\* are consistent in that sense after every batch (CCoinsViewDB::BatchWrite).
Consistent == ConsistentDB(db) /\ ConsistentDB(durable)

\* CoinsTip() is the unspent output set of the tip, also after ReplayBlocks has
\* undone and redone the blocks of an interrupted flush over a database in which
\* only some of them were applied, and after it was itself interrupted.
ViewExact ==
  phase \in {"idle", "index", "unlink", "coins"} \/ (phase = "replay" /\ Writing)
    => view = Utxo[tip]

\* The coins database never names a block the block index on disk does not have:
\* FlushStateToDisk writes the index before the coins.
HeadsIndexed ==
  \A d \in {db, durable} :
    \A h \in {d.best} \cup (IF d.heads = <<>> THEN {} ELSE {d.heads[1], d.heads[2]}) :
      h \in Block => h \in idxDB.known

\* Every block the index on disk claims to have data for is in a block file that
\* has been synced, before and after pruning: files are flushed before the index
\* is written, and unlinked after.
IndexBacked == \A b \in idxDB.data : <<idxDB.file[b], b>> \in blkSync

\* What the index on disk claims of the undo file being written is synced, as
\* FlushStateToDisk says of all undo data; a power loss can only take undo data
\* that was written late, to the undo file of a block file already left.
UndoSynced ==
  \A b \in idxDB.undo :
    idxDB.file[b] = idxDB.last => <<idxDB.file[b], b>> \in revSync

\* The undo data of b is in the index, of an older file, and not in that file.
UndoLost(b) == b \in idx.undo /\ idx.file[b] < idx.last /\ ~CanUndo(b)

\* Neither a start-up nor a change of the tip is stopped by a missing index entry,
\* by a block that cannot be read or by the assertion in BatchWrite: only by the
\* loss of late undo data, when a block is to be rolled back that has lost it.
FailsOnlyLate == phase = "failed" => CanRead(tip) /\ UndoLost(tip)

\* An interrupted flush can be repaired from what the node has: ReplayBlocks finds
\* every block, and the undo data of every block to roll back, in the files.
ReplayReadable ==
  phase = "replay" =>
    LET new == db.heads[1] IN
    /\ tip \notin Chain[new] => CanRead(tip) /\ CanUndo(tip)
    /\ \A b \in Chain[new] \ {Genesis} : Parent[b] = tip => CanRead(b)

\* After every crash the node comes back with a coins database that is not in the
\* middle of a flush, unless it fails, as FailsOnlyLate says it may.
Recovers == phase = "down" ~> (phase = "idle" /\ db.heads = <<>>) \/ phase = "failed"
=============================================================================
