------------------------- MODULE ChainStorageProofs -------------------------
(***************************************************************************)
(* For every block tree: the coins database is consistent after every      *)
(* batch, crash and power loss, CoinsTip() is exact again after            *)
(* ReplayBlocks, and the blocks the two databases name are in the block    *)
(* index, with their data on disk. Without pruning, nothing but late undo  *)
(* data that a power loss took makes a start-up or a change of the tip     *)
(* fail, and a crash of the program alone takes none.                      *)
(*                                                                         *)
(* Chains and the coins after a block are defined by recursion along the   *)
(* tree; the first lemmas derive their equations and facts by induction on *)
(* the height.                                                             *)
(*                                                                         *)
(* The key to the coins is the loop invariant of ReplayBlocks. At a block  *)
(* b, on the way down or up, every outpoint has the coin it has after b or *)
(* the coin it has after the new tip. A block that does not touch an       *)
(* outpoint leaves the outpoint's coin the same before and after it, and   *)
(* undoing or redoing a block that does touch it sets the coin whatever it *)
(* was.                                                                    *)
(*                                                                         *)
(* The key to the files is the order of a flush: files before the block    *)
(* index, the block index before the coins. DiskInv says for each of these *)
(* stages what is written, what is synced and what a power loss may leave. *)
(***************************************************************************)
EXTENDS ChainStorage, WellFoundedInduction, TLAPS

\* Most of the steps need no arithmetic; the others say SMT.
USE ZenonT(30)

\* Every coin of m is that of m1 or that of m2.
Mixed(m, m1, m2) == \A o \in Outpoint : m[o] \in {m1[o], m2[o]}

Types ==
  /\ phase \in Phase
  /\ tip \in Block
  /\ view \in Coins
  /\ db \in Database
  /\ durable \in Database

\* Where the view and the coins database stand to each other in each phase.
ViewOK ==
  /\ phase \in {"idle", "index", "unlink", "coins"} => view = Utxo[tip]
  /\ phase \in {"idle", "index", "unlink"} => db.heads = <<>>
  /\ phase = "coins" /\ db.heads # <<>> => db.heads[1] = tip
  /\ phase = "replay" =>
       db.heads # <<>> /\ Mixed(view, Utxo[tip], Utxo[db.heads[1]])

StorageInv == Types /\ Consistent /\ ViewOK

-----------------------------------------------------------------------------
(* The block tree.                                                          *)

\* Every non-empty set of naturals has a least element.
LEMMA LeastNat ==
  ASSUME NEW S \in SUBSET Nat, S # {}
  PROVE  \E n \in S : \A k \in S : ~(k < n)
<1>1. IsWellFoundedOn(OpToRel(<, Nat), Nat)
  BY NatLessThanWellFounded
<1>2. \E n \in S : \A k \in S : ~(<<k, n>> \in OpToRel(<, Nat))
  BY <1>1, WFMin
<1> QED  BY <1>2 DEF OpToRel

\* Induction along the tree: the block of least height among the
\* exceptions would have a parent that is none.
LEMMA BlockInduction ==
  ASSUME NEW T, Genesis \in T,
           \A b \in Block \ {Genesis} : Parent[b] \in T => b \in T
  PROVE  \A b \in Block : b \in T
<1> DEFINE S == {Height[x] : x \in Block \ T}
<1>1. SUFFICES ASSUME NEW b \in Block, b \notin T PROVE FALSE
  OBVIOUS
<1>2. S \in SUBSET Nat /\ S # {}
  BY SMT, <1>1, TreeAssumption
<1>3. PICK h \in S : \A k \in S : ~(k < h)
  <2> HIDE DEF S
  <2> QED  BY <1>2, LeastNat
<1>4. PICK x \in Block \ T : h = Height[x]
  BY <1>3
<1>5. x \in Block \ {Genesis} /\ Parent[x] \in Block \ T
  BY <1>4, TreeAssumption
<1>6. Height[Parent[x]] < Height[x]
  <2>1. Height[Parent[x]] \in Nat /\ Height[x] = Height[Parent[x]] + 1
    BY <1>5, TreeAssumption
  <2> QED  BY SMT, <2>1
<1>7. Height[Parent[x]] \in S
  BY <1>5
<1> QED  BY <1>3, <1>4, <1>6, <1>7

\* The least set that has b and the parents of its members.
Up(b) ==
  {a \in Block : \A S \in SUBSET Block :
        b \in S /\ (\A c \in S \ {Genesis} : Parent[c] \in S) => a \in S}

\* These sets solve the equation that defines Chain.
LEMMA UpEquation ==
  /\ Up(Genesis) = {Genesis}
  /\ \A b \in Block \ {Genesis} : Up(b) = Up(Parent[b]) \cup {b}
<1>1. Up(Genesis) = {Genesis}
  <2>1. {Genesis} \in SUBSET Block /\ \A c \in {Genesis} \ {Genesis} : Parent[c] \in {Genesis}
    BY TreeAssumption
  <2>2. Up(Genesis) \subseteq {Genesis}
    BY <2>1 DEF Up
  <2>3. Genesis \in Up(Genesis)
    BY TreeAssumption DEF Up
  <2> QED  BY <2>2, <2>3
<1>2. ASSUME NEW b \in Block \ {Genesis} PROVE Up(b) = Up(Parent[b]) \cup {b}
  <2> DEFINE S == Up(Parent[b]) \cup {b}
  <2>1. Parent[b] \in Block /\ Parent[b] \in Up(Parent[b])
    BY TreeAssumption DEF Up
  <2>2. ASSUME NEW c \in Up(Parent[b]) \ {Genesis} PROVE Parent[c] \in Up(Parent[b])
    <3>1. c \in Block \ {Genesis} /\ Parent[c] \in Block
      BY TreeAssumption DEF Up
    <3> QED  BY <3>1 DEF Up
  <2>3. S \in SUBSET Block /\ \A c \in S \ {Genesis} : Parent[c] \in S
    BY <2>1, <2>2 DEF Up
  <2>4. Up(b) \subseteq S
    <3> HIDE DEF S
    <3>1. b \in S
      BY DEF S
    <3> QED  BY <2>3, <3>1 DEF Up
  <2>5. b \in Up(b)
    BY DEF Up
  <2>6. Up(Parent[b]) \subseteq Up(b)
    BY DEF Up
  <2> QED  BY <2>4, <2>5, <2>6
<1> QED  BY <1>1, <1>2

\* So Chain is a solution.
LEMMA ChainEquation ==
  /\ Chain = [b \in Block |-> Chain[b]]
  /\ Chain[Genesis] = {Genesis}
  /\ \A b \in Block \ {Genesis} : Chain[b] = Chain[Parent[b]] \cup {b}
<1> DEFINE F(h) == [b \in Block |-> IF b = Genesis THEN {Genesis} ELSE h[Parent[b]] \cup {b}]
           C == CHOOSE h : h = F(h)
<1>1. \E h : h = F(h)
  <2> DEFINE h == [b \in Block |-> Up(b)]
  <2>1. ASSUME NEW b \in Block PROVE h[b] = F(h)[b]
    <3>1. CASE b = Genesis
      BY <3>1, UpEquation
    <3>2. CASE b # Genesis
      <4>1. Parent[b] \in Block
        BY <3>2, TreeAssumption
      <4> QED  BY <3>2, <4>1, UpEquation
    <3> QED  BY <3>1, <3>2
  <2>2. h = F(h)
    <3>1. F(h) = [b \in Block |-> F(h)[b]]
      OBVIOUS
    <3> QED  BY <2>1, <3>1
  <2> QED  BY <2>2
<1>2. C = F(C)
  BY <1>1
<1>3. Chain = [b \in Block |-> C[b]]
  BY DEF Chain
<1> HIDE DEF C
<1>4. \A b \in Block : C[b] = IF b = Genesis THEN {Genesis} ELSE C[Parent[b]] \cup {b}
  BY <1>2
<1>5. Chain = [b \in Block |-> Chain[b]]
  BY <1>3
<1>6. ASSUME NEW b \in Block \ {Genesis} PROVE Chain[b] = Chain[Parent[b]] \cup {b}
  <2>1. Parent[b] \in Block
    BY TreeAssumption
  <2> QED  BY <1>3, <1>4, <2>1
<1> QED  BY <1>3, <1>4, <1>5, <1>6, TreeAssumption

\* A block is on its own chain, among blocks.
LEMMA ChainTypes ==
  \A b \in Block : Chain[b] \in SUBSET Block /\ b \in Chain[b]
<1> DEFINE T == {b \in Block : Chain[b] \in SUBSET Block /\ b \in Chain[b]}
<1>1. Genesis \in T
  BY ChainEquation, TreeAssumption
<1>2. ASSUME NEW b \in Block \ {Genesis}, Parent[b] \in T PROVE b \in T
  <2>1. Chain[b] = Chain[Parent[b]] \cup {b}
    BY ChainEquation
  <2> QED  BY <1>2, <2>1
<1> HIDE DEF T
<1>3. \A b \in Block : b \in T
  BY <1>1, <1>2, BlockInduction
<1> QED  BY <1>3 DEF T

\* Heights grow along a chain.
LEMMA LowerBelow ==
  \A b \in Block : \A c \in Chain[b] : c = b \/ Height[c] < Height[b]
<1> DEFINE T == {b \in Block : \A c \in Chain[b] : c = b \/ Height[c] < Height[b]}
<1>1. Genesis \in T
  BY ChainEquation, TreeAssumption
<1>2. ASSUME NEW b \in Block \ {Genesis}, Parent[b] \in T PROVE b \in T
  <2> SUFFICES ASSUME NEW c \in Chain[b], c # b PROVE Height[c] < Height[b]
    OBVIOUS
  <2>1. c \in Chain[Parent[b]] /\ Parent[b] \in Block
    <3>1. Chain[b] = Chain[Parent[b]] \cup {b}
      BY ChainEquation
    <3> QED  BY <3>1, TreeAssumption
  <2>2. c \in Block
    BY ChainTypes, <2>1
  <2>3. c = Parent[b] \/ Height[c] < Height[Parent[b]]
    BY <1>2, <2>1
  <2>4. /\ Height[c] \in Nat /\ Height[Parent[b]] \in Nat
        /\ Height[b] = Height[Parent[b]] + 1
    BY <2>1, <2>2, TreeAssumption
  <2> QED  BY SMT, <2>3, <2>4
<1> HIDE DEF T
<1>3. \A b \in Block : b \in T
  BY <1>1, <1>2, BlockInduction
<1> QED  BY <1>3 DEF T

\* The tree with its chains.
LEMMA Tree ==
  /\ Genesis \in Block
  /\ Null \notin Block
  /\ Parent \in [Block -> Block]
  /\ Height \in [Block -> Nat]
  /\ Height[Genesis] = 0
  /\ Chain[Genesis] = {Genesis}
  /\ \A b \in Block : Genesis \in Chain[b]
  /\ \A b \in Block \ {Genesis} :
       /\ Height[b] = Height[Parent[b]] + 1
       /\ Chain[b] = Chain[Parent[b]] \cup {b}
<1> DEFINE T == {b \in Block : Genesis \in Chain[b]}
<1>1. Genesis \in T
  BY ChainEquation, TreeAssumption
<1>2. ASSUME NEW b \in Block \ {Genesis}, Parent[b] \in T PROVE b \in T
  <2>1. Chain[b] = Chain[Parent[b]] \cup {b}
    BY ChainEquation
  <2> QED  BY <1>2, <2>1
<1> HIDE DEF T
<1>3. \A b \in Block : b \in T
  BY <1>1, <1>2, BlockInduction
<1>4. \A b \in Block : Genesis \in Chain[b]
  BY <1>3 DEF T
<1> QED  BY <1>4, ChainEquation, TreeAssumption

-----------------------------------------------------------------------------
(* The unspent outputs after a block: each outpoint is as the last block of  *)
(* the chain that creates or spends it has left it.                          *)

Touching(b, o) == {c \in Chain[b] \ {Genesis} : o \in Ins[c] \cup Outs[c]}
Last(b, o) == CHOOSE c \in Touching(b, o) : \A d \in Touching(b, o) : Height[d] <= Height[c]
After(c, o) == IF o \in Ins[c] THEN Spent ELSE Height[c]
LeftBy(b) ==
  [o \in Outpoint |-> IF Touching(b, o) = {} THEN Spent ELSE After(Last(b, o), o)]

\* These maps solve the equation that defines Utxo.
LEMMA LeftByEquation ==
  /\ LeftBy(Genesis) = [o \in Outpoint |-> Spent]
  /\ \A b \in Block \ {Genesis} : LeftBy(b) = Connect(LeftBy(Parent[b]), b)
<1>1. LeftBy(Genesis) = [o \in Outpoint |-> Spent]
  <2>1. \A o \in Outpoint : Touching(Genesis, o) = {}
    BY Tree DEF Touching
  <2> QED  BY <2>1 DEF LeftBy
<1>2. ASSUME NEW b \in Block \ {Genesis} PROVE LeftBy(b) = Connect(LeftBy(Parent[b]), b)
  <2>1. Parent[b] \in Block /\ Chain[b] = Chain[Parent[b]] \cup {b} /\ Chain[b] \subseteq Block
    BY Tree, ChainTypes
  <2>2. ASSUME NEW o \in Outpoint
        PROVE  LeftBy(b)[o] = Connect(LeftBy(Parent[b]), b)[o]
    <3>1. CASE o \in Ins[b] \cup Outs[b]
      <4>1. b \in Touching(b, o)
        BY <2>1, <3>1 DEF Touching
      <4>2. \A d \in Touching(b, o) :
              d \in Block /\ (d = b \/ Height[d] < Height[b])
        BY <2>1, LowerBelow DEF Touching
      <4>3. \A d \in Touching(b, o) : Height[d] \in Nat
        BY <4>2, Tree
      <4>4. \A d \in Touching(b, o) : Height[d] <= Height[b]
        BY SMT, <4>1, <4>2, <4>3
      <4>5. /\ Last(b, o) \in Touching(b, o)
            /\ \A d \in Touching(b, o) : Height[d] <= Height[Last(b, o)]
        BY <4>1, <4>4 DEF Last
      <4>6. Last(b, o) = b
        BY SMT, <4>1, <4>2, <4>3, <4>5
      <4>7. LeftBy(b)[o] = After(b, o)
        BY <4>1, <4>6 DEF LeftBy
      <4> QED  BY <3>1, <4>7 DEF After, Connect
    <3>2. CASE o \notin Ins[b] \cup Outs[b]
      <4>1. Touching(b, o) = Touching(Parent[b], o)
        BY <2>1, <3>2 DEF Touching
      <4>2. Last(b, o) = Last(Parent[b], o)
        BY <4>1 DEF Last
      <4>3. LeftBy(b)[o] = LeftBy(Parent[b])[o]
        BY <4>1, <4>2 DEF LeftBy
      <4> QED  BY <3>2, <4>3 DEF Connect
    <3> QED  BY <3>1, <3>2
  <2>3. /\ LeftBy(b) = [o \in Outpoint |-> LeftBy(b)[o]]
        /\ Connect(LeftBy(Parent[b]), b) = [o \in Outpoint |-> Connect(LeftBy(Parent[b]), b)[o]]
    BY DEF LeftBy, Connect
  <2> QED  BY <2>2, <2>3
<1> QED  BY <1>1, <1>2

\* So Utxo is a solution.
LEMMA UtxoEquation ==
  /\ Utxo = [b \in Block |-> Utxo[b]]
  /\ Utxo[Genesis] = [o \in Outpoint |-> Spent]
  /\ \A b \in Block \ {Genesis} : Utxo[b] = Connect(Utxo[Parent[b]], b)
<1> DEFINE F(h) == [b \in Block |->
             IF b = Genesis THEN [o \in Outpoint |-> Spent] ELSE Connect(h[Parent[b]], b)]
           U == CHOOSE h : h = F(h)
<1>1. \E h : h = F(h)
  <2> DEFINE h == [b \in Block |-> LeftBy(b)]
  <2>1. ASSUME NEW b \in Block PROVE h[b] = F(h)[b]
    <3>1. CASE b = Genesis
      BY <3>1, LeftByEquation
    <3>2. CASE b # Genesis
      <4>1. Parent[b] \in Block
        BY Tree
      <4>2. h[Parent[b]] = LeftBy(Parent[b])
        BY <4>1
      <4>3. F(h)[b] = Connect(h[Parent[b]], b)
        BY <3>2
      <4> QED  BY <3>2, <4>2, <4>3, LeftByEquation
    <3> QED  BY <3>1, <3>2
  <2>2. h = F(h)
    <3> DEFINE k == F(h)
    <3>1. \A b \in Block : h[b] = k[b]
      BY <2>1
    <3>2. k = [b \in Block |-> k[b]]
      BY SMT
    <3>3. h = [b \in Block |-> h[b]]
      BY SMT
    <3> HIDE DEF h, k
    <3>4. h = k
      BY <3>1, <3>2, <3>3
    <3> QED  BY <3>4 DEF k
  <2> QED  BY <2>2
<1>2. U = F(U)
  BY <1>1
<1>3. Utxo = [b \in Block |-> U[b]]
  BY DEF Utxo
<1> HIDE DEF U
<1>4. /\ U[Genesis] = [o \in Outpoint |-> Spent]
      /\ \A b \in Block \ {Genesis} : U[b] = Connect(U[Parent[b]], b)
  BY <1>2, Tree
<1>5. Utxo = [b \in Block |-> Utxo[b]]
  BY <1>3
<1>6. ASSUME NEW b \in Block \ {Genesis} PROVE Utxo[b] = Connect(Utxo[Parent[b]], b)
  <2>1. Parent[b] \in Block
    BY Tree
  <2> QED  BY <1>3, <1>4, <2>1
<1> QED  BY <1>3, <1>4, <1>5, <1>6, Tree

\* The unspent outputs after every block, with what the block may do to them.
LEMMA Unspent ==
  /\ Spent \notin Nat
  /\ Ins \in [Block -> SUBSET Outpoint]
  /\ Outs \in [Block -> SUBSET Outpoint]
  /\ Utxo \in [Block -> Coins]
  /\ Utxo[Genesis] = [o \in Outpoint |-> Spent]
  /\ \A b \in Block \ {Genesis} :
       /\ Utxo[b] = Connect(Utxo[Parent[b]], b)
       /\ \A o \in Ins[b] \ Outs[b] : Utxo[Parent[b]][o] # Spent
       /\ \A o \in Outs[b] : Utxo[Parent[b]][o] = Spent
<1> DEFINE T == {b \in Block : Utxo[b] \in Coins}
<1>1. Genesis \in T
  BY UtxoEquation, Tree DEF Coins
<1>2. ASSUME NEW b \in Block \ {Genesis}, Parent[b] \in T PROVE b \in T
  <2>1. Connect(Utxo[Parent[b]], b) \in Coins
    BY <1>2 DEF Connect, Coins
  <2> QED  BY <2>1, UtxoEquation
<1> HIDE DEF T
<1>3. \A b \in Block : b \in T
  BY <1>1, <1>2, BlockInduction
<1>4. \A b \in Block : Utxo[b] \in Coins
  BY <1>3 DEF T
<1>5. Utxo \in [Block -> Coins]
  BY <1>4, UtxoEquation
<1> QED  BY <1>5, UtxoEquation, UtxoAssumption

\* Undoing a block takes the coins after it to the coins before it, and leaves a
\* coin it does not set as the block itself had left it.
LEMMA DisconnectLemma ==
  ASSUME NEW b \in Block \ {Genesis}, NEW m \in Coins
  PROVE  /\ Disconnect(m, b) \in Coins
         /\ \A o \in Outpoint :
              \/ Disconnect(m, b)[o] = Utxo[Parent[b]][o]
              \/ Disconnect(m, b)[o] = m[o] /\ Utxo[b][o] = Utxo[Parent[b]][o]
<1>1. Parent[b] \in Block /\ Utxo[Parent[b]] \in Coins
  BY Tree, Unspent
<1>2. Disconnect(m, b) \in Coins
  BY <1>1 DEF Disconnect, Coins
<1>3. ASSUME NEW o \in Outpoint
      PROVE  \/ Disconnect(m, b)[o] = Utxo[Parent[b]][o]
             \/ Disconnect(m, b)[o] = m[o] /\ Utxo[b][o] = Utxo[Parent[b]][o]
  <2>1. Utxo[b][o] = IF o \in Ins[b] THEN Spent
                     ELSE IF o \in Outs[b] THEN Height[b] ELSE Utxo[Parent[b]][o]
    BY SMT, Unspent DEF Connect
  <2>2. o \in Outs[b] => Utxo[Parent[b]][o] = Spent
    BY Unspent
  <2> QED BY <2>1, <2>2 DEF Disconnect
<1> QED BY <1>2, <1>3

\* The same for applying a block.
LEMMA ConnectLemma ==
  ASSUME NEW b \in Block \ {Genesis}, NEW m \in Coins
  PROVE  /\ Connect(m, b) \in Coins
         /\ \A o \in Outpoint :
              \/ Connect(m, b)[o] = Utxo[b][o]
              \/ Connect(m, b)[o] = m[o] /\ Utxo[b][o] = Utxo[Parent[b]][o]
<1>1. Height[b] \in {Height[c] : c \in Block}
  OBVIOUS
<1>2. Connect(m, b) \in Coins
  BY <1>1 DEF Connect, Coins
<1>3. \A o \in Outpoint : Utxo[b][o] = Connect(Utxo[Parent[b]], b)[o]
  BY Unspent
<1> QED BY <1>2, <1>3 DEF Connect

\* The loop invariant of ReplayBlocks, one block down.
LEMMA RollbackMixed ==
  ASSUME NEW b \in Block \ {Genesis}, NEW m \in Coins, NEW m2, Mixed(m, Utxo[b], m2)
  PROVE  Mixed(Disconnect(m, b), Utxo[Parent[b]], m2)
BY DisconnectLemma DEF Mixed

\* And one block up.
LEMMA RollforwardMixed ==
  ASSUME NEW b \in Block \ {Genesis}, NEW m \in Coins, NEW m2, Mixed(m, Utxo[Parent[b]], m2)
  PROVE  Mixed(Connect(m, b), Utxo[b], m2)
BY ConnectLemma DEF Mixed

\* A map both of whose choices are the same is that map.
LEMMA MixedSame ==
  ASSUME NEW m \in Coins, NEW m1 \in Coins, Mixed(m, m1, m1)
  PROVE  m = m1
BY SMT DEF Mixed, Coins

\* Connecting a block to the exact coins of its parent, and back.
LEMMA StepExact ==
  ASSUME NEW b \in Block \ {Genesis}
  PROVE  /\ Connect(Utxo[Parent[b]], b) = Utxo[b]
         /\ Disconnect(Utxo[b], b) = Utxo[Parent[b]]
<1>1. Parent[b] \in Block /\ Utxo[Parent[b]] \in Coins /\ Utxo[b] \in Coins
  BY Tree, Unspent
<1>2. Disconnect(Utxo[b], b) \in Coins
  BY <1>1, DisconnectLemma
<1>3. Mixed(Disconnect(Utxo[b], b), Utxo[Parent[b]], Utxo[Parent[b]])
  BY SMT, <1>1, DisconnectLemma DEF Mixed
<1> QED BY <1>1, <1>2, <1>3, MixedSame, Unspent

-----------------------------------------------------------------------------
(* Coins databases.                                                         *)

\* The coins at either end of a flush are a coin set.
LEMMA UtxoOfType == \A h \in Head : UtxoOf(h) \in Coins
BY Tree, Unspent DEF UtxoOf, Head

\* What BatchWrite may leave in the coins database, field by field.
LEMMA DatabaseFields ==
  ASSUME NEW d \in Database
  PROVE  /\ d.coins \in Coins
         /\ d.best \in Head
         /\ d.heads = <<>> \/ (d.heads[1] \in Block /\ d.heads[2] \in Head)
         /\ d.heads # <<>> => d.best = Null
         /\ d.heads # <<>> => d.heads = <<d.heads[1], d.heads[2]>>
BY SMT DEF Database

\* The database after a partial batch is consistent with the block written and the
\* block it came from.
LEMMA BatchConsistent ==
  ASSUME Types, ConsistentDB(db), view = Utxo[tip], NEW S \in SUBSET Outpoint,
         db.heads # <<>> => db.heads[1] = tip
  PROVE  /\ Batch(S) \in Database
         /\ ConsistentDB(Batch(S))
         /\ Batch(S).heads # <<>>
         /\ Batch(S).heads[1] = tip
<1> DEFINE c == [o \in Outpoint |-> IF o \in S THEN view[o] ELSE db.coins[o]]
<1>0. /\ db.coins \in Coins /\ view \in Coins /\ db.best \in Head /\ tip \in Block
      /\ db.heads = <<>> \/ (db.heads[1] \in Block /\ db.heads[2] \in Head)
      /\ db.heads # <<>> => db.best = Null
  BY DatabaseFields DEF Types
<1>1. c \in Coins
  BY <1>0 DEF Coins
<1>2. OldTip \in Head
  BY <1>0 DEF OldTip, InHeads
<1>3. Batch(S) = [coins |-> c, best |-> Null, heads |-> <<tip, OldTip>>]
  BY DEF Batch
<1>4. /\ Batch(S).coins = c /\ Batch(S).heads = <<tip, OldTip>>
      /\ Batch(S).heads # <<>> /\ Batch(S).heads[1] = tip /\ Batch(S).heads[2] = OldTip
  BY SMT, <1>3
<1>5. Batch(S) \in Database
  <2>1. Null \in Head /\ <<tip, OldTip>> \in Block \X Head
    BY <1>0, <1>2 DEF Head
  <2> HIDE DEF c
  <2> QED BY SMT, <1>1, <1>3, <1>4, <2>1 DEF Database
<1>6. ASSUME NEW o \in Outpoint
      PROVE  c[o] \in {UtxoOf(OldTip)[o], Utxo[tip][o]}
  <2>1. CASE o \in S
    BY <2>1
  <2>2. CASE o \notin S /\ db.heads = <<>>
    <3>1. OldTip = db.best
      BY <2>2 DEF OldTip, InHeads
    <3>2. db.coins = UtxoOf(db.best)
      BY <2>2 DEF ConsistentDB
    <3> QED BY <2>2, <3>1, <3>2
  <2>3. CASE o \notin S /\ db.heads # <<>>
    <3>1. OldTip = db.heads[2]
      BY <2>3, <1>0 DEF OldTip, InHeads
    <3>2. db.coins[o] \in {UtxoOf(db.heads[2])[o], Utxo[db.heads[1]][o]}
      BY <2>3 DEF ConsistentDB
    <3> QED BY <2>3, <3>1, <3>2
  <2> QED BY <2>1, <2>2, <2>3
<1>7. ConsistentDB(Batch(S))
  <2> HIDE DEF c
  <2> QED BY <1>4, <1>6 DEF ConsistentDB
<1> QED BY <1>4, <1>5, <1>7

\* And after the last batch, with the block written.
LEMMA FinalConsistent ==
  ASSUME Types, view = Utxo[tip]
  PROVE  /\ Final \in Database
         /\ ConsistentDB(Final)
         /\ Final.heads = <<>>
<1>1. Final.coins = view /\ Final.best = tip /\ Final.heads = <<>>
  BY DEF Final
<1>2. tip \in Head /\ tip # Null
  BY Tree DEF Types, Head
<1>3. Final \in Database
  BY <1>1, <1>2 DEF Final, Database, Types
<1> QED BY <1>1, <1>2, <1>3 DEF ConsistentDB, UtxoOf

\* Wherever BatchWrite runs, the cache it writes is exact and the heads agree.
LEMMA WritingExact ==
  ASSUME StorageInv, Writing
  PROVE  /\ view = Utxo[tip]
         /\ db.heads # <<>> => db.heads[1] = tip
         /\ HeadsMatch
<1>1. view \in Coins /\ Utxo[tip] \in Coins
  BY Unspent DEF StorageInv, Types
<1>2. CASE phase = "coins"
  BY <1>2 DEF StorageInv, ViewOK, HeadsMatch, InHeads
<1>3. CASE phase = "replay" /\ tip = db.heads[1]
  <2>1. Mixed(view, Utxo[tip], Utxo[tip])
    BY <1>3 DEF StorageInv, ViewOK
  <2> QED BY <1>1, <1>3, <2>1, MixedSame DEF HeadsMatch
<1> QED BY <1>2, <1>3 DEF Writing

-----------------------------------------------------------------------------
(* The invariant.                                                           *)

\* A node that has just loaded the genesis block satisfies the invariant.
LEMMA StorageInit == Init => StorageInv
<1> SUFFICES ASSUME Init PROVE StorageInv
  OBVIOUS
<1>1. EmptyDB.coins = Utxo[Genesis] /\ EmptyDB.best = Null /\ EmptyDB.heads = <<>>
  BY Unspent DEF EmptyDB
<1>2. Utxo[Genesis] \in Coins /\ Genesis \in Block
  BY Tree, Unspent
<1>3. EmptyDB \in Database
  BY <1>1, <1>2 DEF EmptyDB, Database, Head
<1>4. ConsistentDB(EmptyDB)
  BY <1>1 DEF ConsistentDB, UtxoOf
<1> QED
  BY <1>1, <1>2, <1>3, <1>4 DEF Init, StorageInv, Types, Consistent, ViewOK, Phase

\* A step of the running node outside BatchWrite: the tip moves by one block, or a
\* flush goes on to its next part.
LEMMA RunningStep ==
  ASSUME StorageInv,
         db' = db, durable' = durable,
         \/ \E b \in Block : ConnectTip(b)
         \/ DisconnectTip
         \/ \E b \in Block \ {Genesis} : AcceptBlock(b)
         \/ \E F \in SUBSET (0 .. idx.last) : BeginFlush(F)
         \/ WriteBlockIndexDB
         \/ \E f \in pruning : UnlinkPrunedFile(f)
  PROVE  StorageInv'
<1> USE DEF StorageInv, Types, Consistent
<1>0. Consistent'
  BY DEF ConsistentDB, Database
<1>1. ASSUME NEW b \in Block, ConnectTip(b) PROVE StorageInv'
  <2>1. b \in Block \ {Genesis} /\ Parent[b] = tip /\ phase = "idle"
    BY <1>1 DEF ConnectTip
  <2>2. view = Utxo[Parent[b]]
    BY <2>1 DEF ViewOK
  <2>3. Connect(view, b) = Utxo[b] /\ Connect(view, b) \in Coins
    BY <2>1, <2>2, StepExact, ConnectLemma
  <2>4. CASE CanRead(b)
    <3>1. view' = Connect(view, b) /\ tip' = b /\ phase' = phase
      BY <1>1, <2>4 DEF ConnectTip
    <3> QED BY <1>0, <2>1, <2>3, <3>1 DEF ViewOK
  <2>5. CASE ~CanRead(b)
    <3>1. view' = view /\ tip' = tip /\ phase' = "failed"
      BY <1>1, <2>5 DEF ConnectTip
    <3> QED BY <1>0, <3>1 DEF ViewOK, Phase
  <2> QED BY <2>4, <2>5
<1>2. ASSUME DisconnectTip PROVE StorageInv'
  <2>1. tip \in Block \ {Genesis} /\ phase = "idle" /\ view = Utxo[tip]
    BY <1>2 DEF DisconnectTip, ViewOK
  <2>2. /\ Disconnect(view, tip) = Utxo[Parent[tip]]
        /\ Disconnect(view, tip) \in Coins
        /\ Parent[tip] \in Block
    BY <2>1, StepExact, DisconnectLemma, Tree
  <2>3. CASE CanRead(tip) /\ CanUndo(tip)
    <3>1. view' = Disconnect(view, tip) /\ tip' = Parent[tip] /\ phase' = phase
      BY <1>2, <2>3 DEF DisconnectTip
    <3> QED BY <1>0, <2>1, <2>2, <3>1 DEF ViewOK
  <2>4. CASE ~(CanRead(tip) /\ CanUndo(tip))
    <3>1. view' = view /\ tip' = tip /\ phase' = "failed"
      BY <1>2, <2>4 DEF DisconnectTip
    <3> QED BY <1>0, <3>1 DEF ViewOK, Phase
  <2> QED BY <2>3, <2>4
<1>3. ASSUME NEW b \in Block \ {Genesis}, AcceptBlock(b) PROVE StorageInv'
  <2>1. phase' = phase /\ tip' = tip /\ view' = view
    BY <1>3 DEF AcceptBlock
  <2> QED BY <1>0, <2>1 DEF ViewOK, Mixed
<1>4. ASSUME NEW F \in SUBSET (0 .. idx.last), BeginFlush(F) PROVE StorageInv'
  <2>1. phase = "idle" /\ phase' = "index" /\ tip' = tip /\ view' = view
    BY <1>4 DEF BeginFlush
  <2> QED BY <1>0, <2>1 DEF ViewOK, Phase
<1>5. ASSUME WriteBlockIndexDB PROVE StorageInv'
  <2>1. phase = "index" /\ phase' \in {"unlink", "coins"} /\ tip' = tip /\ view' = view
    BY <1>5 DEF WriteBlockIndexDB, mem
  <2> QED BY <1>0, <2>1 DEF ViewOK, Phase
<1>6. ASSUME NEW f \in pruning, UnlinkPrunedFile(f) PROVE StorageInv'
  <2>1. phase = "unlink" /\ phase' \in {"unlink", "coins"} /\ tip' = tip /\ view' = view
    BY <1>6 DEF UnlinkPrunedFile
  <2> QED BY <1>0, <2>1 DEF ViewOK, Phase
<1> QED BY <1>1, <1>2, <1>3, <1>4, <1>5, <1>6

\* A batch of BatchWrite.
LEMMA WritingStep ==
  ASSUME StorageInv,
         (\E S \in SUBSET Outpoint : WritePartialBatch(S)) \/ WriteFinalBatch
  PROVE  StorageInv'
<1> USE DEF Types
<1>1. Writing /\ tip' = tip /\ view' = view /\ durable' = durable
  BY DEF WritePartialBatch, WriteFinalBatch, mem
<1>2. view = Utxo[tip] /\ HeadsMatch /\ (db.heads # <<>> => db.heads[1] = tip)
  BY <1>1, WritingExact
<1>3. Types /\ ConsistentDB(db) /\ ConsistentDB(durable) /\ ViewOK
  BY DEF StorageInv, Consistent
<1>4. ConsistentDB(durable)' /\ durable' \in Database
  BY <1>1, <1>3 DEF ConsistentDB
<1>5. ASSUME NEW S \in SUBSET Outpoint, WritePartialBatch(S) PROVE StorageInv'
  <2>1. db' = Batch(S) /\ phase' = phase
    BY <1>2, <1>5 DEF WritePartialBatch
  <2>2. /\ db' \in Database /\ ConsistentDB(db') /\ db'.heads # <<>> /\ db'.heads[1] = tip
    BY <1>2, <1>3, <2>1, BatchConsistent
  <2>3. phase \in {"coins", "replay"}
    BY <1>1 DEF Writing
  <2>4. ViewOK'
    BY <1>1, <1>2, <2>1, <2>2, <2>3 DEF ViewOK, Mixed
  <2>5. ConsistentDB(db)'
    BY <2>2 DEF ConsistentDB
  <2> QED BY <1>1, <1>3, <1>4, <2>1, <2>2, <2>4, <2>5 DEF StorageInv, Consistent
<1>6. ASSUME WriteFinalBatch PROVE StorageInv'
  <2>1. db' = Final /\ phase' = "idle"
    BY <1>2, <1>6 DEF WriteFinalBatch
  <2>2. db' \in Database /\ ConsistentDB(db') /\ db'.heads = <<>>
    BY <1>2, <1>3, <2>1, FinalConsistent
  <2>3. ViewOK'
    BY <1>1, <1>2, <2>1, <2>2 DEF ViewOK
  <2>4. ConsistentDB(db)'
    BY <2>2 DEF ConsistentDB
  <2> QED BY <1>1, <1>3, <1>4, <2>1, <2>2, <2>3, <2>4 DEF StorageInv, Consistent, Phase
<1> QED BY <1>5, <1>6

\* A crash, a start-up and the loops of ReplayBlocks.
LEMMA RecoveryStep ==
  ASSUME StorageInv,
         \/ SyncCoinsDB \/ Crash \/ PowerLoss \/ Restart \/ RollbackBlock
         \/ \E b \in Block : RollforwardBlock(b)
  PROVE  StorageInv'
<1>0. Types /\ ConsistentDB(db) /\ ConsistentDB(durable) /\ ViewOK
  BY DEF StorageInv, Consistent
<1> USE DEF Types
<1>1. ASSUME SyncCoinsDB PROVE StorageInv'
  <2>1. durable' = db /\ db' = db /\ phase' = phase /\ tip' = tip /\ view' = view
    BY <1>1 DEF SyncCoinsDB, mem
  <2>2. ViewOK'
    BY <1>0, <2>1 DEF ViewOK, Mixed
  <2>3. Consistent'
    BY <1>0, <2>1 DEF Consistent, ConsistentDB
  <2> QED BY <1>0, <2>1, <2>2, <2>3 DEF StorageInv
<1>2. ASSUME Crash \/ PowerLoss PROVE StorageInv'
  <2>1. /\ phase' = "down" /\ tip' = Genesis /\ view' = EmptyDB.coins
        /\ durable' = durable /\ db' \in {db, durable}
    BY <1>2 DEF Crash, PowerLoss, LoseMemory
  <2>2. EmptyDB.coins = Utxo[Genesis] /\ Utxo[Genesis] \in Coins /\ Genesis \in Block
    BY Tree, Unspent DEF EmptyDB
  <2>3. Consistent'
    BY <1>0, <2>1 DEF Consistent, ConsistentDB
  <2>4. ViewOK'
    BY <2>1 DEF ViewOK
  <2> QED BY <1>0, <2>1, <2>2, <2>3, <2>4 DEF StorageInv, Phase
<1>3. ASSUME Restart PROVE StorageInv'
  <2> DEFINE start == IF db.heads = <<>> THEN db.best ELSE db.heads[2]
  <2>1. phase = "down" /\ db' = db /\ durable' = durable
    BY <1>3 DEF Restart
  <2>2. Consistent'
    BY <1>0, <2>1 DEF Consistent, ConsistentDB
  <2>3. CASE ~CanStart(WithGenesis(idxDB))
    <3>1. phase' = "failed" /\ tip' = tip /\ view' = view
      BY <1>3, <2>3 DEF Restart
    <3> QED BY <1>0, <2>1, <2>2, <3>1 DEF StorageInv, ViewOK, Phase
  <2>4. CASE CanStart(WithGenesis(idxDB))
    <3>1. /\ phase' = IF db.heads = <<>> THEN "idle" ELSE "replay"
          /\ tip' = IF start = Null THEN Genesis ELSE start
          /\ view' = db.coins
      BY <1>3, <2>4 DEF Restart
    <3>2. start \in Head /\ db.coins \in Coins
      BY <1>0, DatabaseFields
    <3>3. tip' \in Block /\ Utxo[tip'] = UtxoOf(start)
      BY <3>1, <3>2, Tree DEF Head, UtxoOf
    <3>4. CASE db.heads = <<>>
      <4>1. view' = Utxo[tip']
        BY <1>0, <3>1, <3>3, <3>4 DEF ConsistentDB
      <4>2. ViewOK'
        BY <2>1, <3>1, <3>4, <4>1 DEF ViewOK
      <4> QED BY <1>0, <2>1, <2>2, <3>1, <3>2, <3>3, <3>4, <4>2 DEF StorageInv, Phase
    <3>5. CASE db.heads # <<>>
      <4>1. Mixed(db.coins, UtxoOf(start), Utxo[db.heads[1]])
        BY <1>0, <3>5 DEF ConsistentDB, Mixed
      <4>2. Mixed(view', Utxo[tip'], Utxo[db'.heads[1]])
        BY <2>1, <3>1, <3>3, <4>1
      <4>3. ViewOK'
        BY <2>1, <3>1, <3>5, <4>2 DEF ViewOK, Mixed
      <4> QED BY <1>0, <2>1, <2>2, <3>1, <3>2, <3>3, <3>5, <4>3 DEF StorageInv, Phase
    <3> QED BY <3>4, <3>5
  <2> QED BY <2>3, <2>4
<1>4. ASSUME RollbackBlock PROVE StorageInv'
  <2>1. phase = "replay" /\ db' = db /\ durable' = durable /\ tip \notin Chain[db.heads[1]]
    BY <1>4 DEF RollbackBlock
  <2>2. Consistent'
    BY <1>0, <2>1 DEF Consistent, ConsistentDB
  <2>3. db.heads # <<>> /\ Mixed(view, Utxo[tip], Utxo[db.heads[1]])
    BY <1>0, <2>1 DEF ViewOK
  <2>4. tip \in Block \ {Genesis}
    <3>1. db \in Database /\ tip \in Block
      BY <1>0, <2>1
    <3>2. Genesis \in Chain[db.heads[1]]
      BY <2>3, <3>1, DatabaseFields, Tree
    <3> QED BY <2>1, <3>1, <3>2
  <2>5. /\ Mixed(Disconnect(view, tip), Utxo[Parent[tip]], Utxo[db.heads[1]])
        /\ Disconnect(view, tip) \in Coins /\ Parent[tip] \in Block
    BY <1>0, <2>3, <2>4, RollbackMixed, DisconnectLemma, Tree
  <2>6. CASE CanRead(tip) /\ CanUndo(tip)
    <3>1. view' = Disconnect(view, tip) /\ tip' = Parent[tip] /\ phase' = phase
      BY <1>4, <2>6 DEF RollbackBlock
    <3>2. Mixed(view', Utxo[tip'], Utxo[db'.heads[1]])
      BY <2>1, <2>5, <3>1
    <3>3. ViewOK'
      BY <2>1, <2>3, <3>1, <3>2 DEF ViewOK, Mixed
    <3> QED BY <1>0, <2>1, <2>2, <2>5, <3>1, <3>3 DEF StorageInv
  <2>7. CASE ~(CanRead(tip) /\ CanUndo(tip))
    <3>1. view' = view /\ tip' = tip /\ phase' = "failed"
      BY <1>4, <2>7 DEF RollbackBlock
    <3> QED BY <1>0, <2>1, <2>2, <3>1 DEF StorageInv, ViewOK, Phase
  <2> QED BY <2>6, <2>7
<1>5. ASSUME NEW b \in Block, RollforwardBlock(b) PROVE StorageInv'
  <2>1. /\ phase = "replay" /\ db' = db /\ durable' = durable
        /\ b \in Block \ {Genesis} /\ Parent[b] = tip
    BY <1>5 DEF RollforwardBlock
  <2>2. Consistent'
    BY <1>0, <2>1 DEF Consistent, ConsistentDB
  <2>3. db.heads # <<>> /\ Mixed(view, Utxo[Parent[b]], Utxo[db.heads[1]])
    BY <1>0, <2>1 DEF ViewOK
  <2>4. Mixed(Connect(view, b), Utxo[b], Utxo[db.heads[1]]) /\ Connect(view, b) \in Coins
    BY <1>0, <2>1, <2>3, RollforwardMixed, ConnectLemma
  <2>5. CASE CanRead(b)
    <3>1. view' = Connect(view, b) /\ tip' = b /\ phase' = phase
      BY <1>5, <2>5 DEF RollforwardBlock
    <3>2. Mixed(view', Utxo[tip'], Utxo[db'.heads[1]])
      BY <2>1, <2>4, <3>1
    <3>3. ViewOK'
      BY <2>1, <2>3, <3>1, <3>2 DEF ViewOK, Mixed
    <3> QED BY <1>0, <2>1, <2>2, <2>4, <3>1, <3>3 DEF StorageInv
  <2>6. CASE ~CanRead(b)
    <3>1. view' = view /\ tip' = tip /\ phase' = "failed"
      BY <1>5, <2>6 DEF RollforwardBlock
    <3> QED BY <1>0, <2>1, <2>2, <3>1 DEF StorageInv, ViewOK, Phase
  <2> QED BY <2>5, <2>6
<1> QED BY <1>1, <1>2, <1>3, <1>4, <1>5

\* StorageInv is inductive: one case per group of actions.
LEMMA StorageStep == StorageInv /\ [Next]_vars => StorageInv'
<1> SUFFICES ASSUME StorageInv, [Next]_vars PROVE StorageInv'
  OBVIOUS
<1>1. CASE UNCHANGED vars
  BY <1>1 DEF StorageInv, Types, Consistent, ConsistentDB, ViewOK, Mixed, vars, mem
<1>2. CASE \/ \E b \in Block : ConnectTip(b)
           \/ DisconnectTip
           \/ \E b \in Block \ {Genesis} : AcceptBlock(b)
           \/ \E F \in SUBSET (0 .. idx.last) : BeginFlush(F)
           \/ WriteBlockIndexDB
           \/ \E f \in pruning : UnlinkPrunedFile(f)
  <2>1. db' = db /\ durable' = durable
    BY <1>2 DEF ConnectTip, DisconnectTip, AcceptBlock, BeginFlush, WriteBlockIndexDB,
                UnlinkPrunedFile
  <2> QED BY <1>2, <2>1, RunningStep
<1>3. CASE (\E S \in SUBSET Outpoint : WritePartialBatch(S)) \/ WriteFinalBatch
  BY <1>3, WritingStep
<1>4. CASE \/ SyncCoinsDB \/ Crash \/ PowerLoss \/ Restart \/ RollbackBlock
           \/ \E b \in Block : RollforwardBlock(b)
  BY <1>4, RecoveryStep
<1> QED BY <1>1, <1>2, <1>3, <1>4 DEF Next

\* The storage invariant holds of every behaviour, whatever the block tree.
THEOREM StorageInvariant == Spec => []StorageInv
BY StorageInit, StorageStep, PTL DEF Spec

\* BatchWrite and every crash leave a coins database that is exact or repairable.
THEOREM StorageConsistent == Spec => []Consistent
<1>1. StorageInv => Consistent
  BY DEF StorageInv
<1> QED BY <1>1, StorageInvariant, PTL

\* CoinsTip() is exact whenever blocks are validated against it, and so is the
\* cache that ReplayBlocks flushes.
THEOREM StorageViewExact == Spec => []ViewExact
<1>1. StorageInv => ViewExact
  <2> SUFFICES ASSUME StorageInv PROVE ViewExact
    OBVIOUS
  <2>1. phase = "replay" /\ Writing => view = Utxo[tip]
    BY WritingExact
  <2> QED BY <2>1 DEF StorageInv, ViewOK, ViewExact
<1> QED BY <1>1, StorageInvariant, PTL

-----------------------------------------------------------------------------
(* The index and the block files.                                           *)

\* FlushStateToDisk and what runs between two of them, under cs_main.
Running == phase \in {"idle", "index", "unlink", "coins"}

\* The block index is in memory.
Loaded == Running \/ phase = "replay"

\* The blocks a coins database names.
HeadsOf(d) == {d.best} \cup (IF d.heads = <<>> THEN {} ELSE {d.heads[1], d.heads[2]})
Heads == (HeadsOf(db) \cup HeadsOf(durable)) \cap Block

\* An index has a block only with its parent, and data only of blocks it has.
KnownOK(i) ==
  /\ i.data \subseteq i.known
  /\ \A b \in i.known \ {Genesis} : Parent[b] \in i.known

\* A block of the index in memory is in a file: on the disk unless it is the last
\* one, and all of them while the index is about to be written.  The files about
\* to be unlinked are those of no block, in memory or in the database.
FilesOK ==
  /\ idx \in Index /\ idxDB \in Index
  /\ blkSync \subseteq blk
  /\ IndexBacked
  /\ \A b \in idxDB.data : idxDB.file[b] <= idxDB.last
  /\ Loaded => \A b \in idx.data :
       /\ idx.file[b] <= idx.last
       /\ <<idx.file[b], b>> \in blk
       /\ idx.file[b] # idx.last \/ phase = "index" => <<idx.file[b], b>> \in blkSync
  /\ phase = "unlink" => idxDB = idx
  /\ phase \in {"index", "unlink"} => \A b \in idx.data : idx.file[b] \notin pruning

\* The tip is in the index from the moment it is one, and in the index on disk
\* from the moment the coins may be written.
IndexOK ==
  /\ KnownOK(idxDB)
  /\ Genesis \notin idxDB.known => idxDB = EmptyIdx
  /\ Loaded => KnownOK(idx) /\ Genesis \in idx.known /\ idxDB.known \subseteq idx.known
  /\ Running => tip \in idx.known
  /\ phase \in {"unlink", "coins"} => tip \in idxDB.known
  /\ Heads \subseteq idxDB.known

DiskInv == FilesOK /\ IndexOK

\* The coins databases come to name no block but the tip, and that only in a flush.
LEMMA HeadsStep ==
  ASSUME StorageInv, [Next]_vars
  PROVE  /\ Heads' \subseteq Heads \cup {tip}
         /\ phase # "coins" => Heads' \subseteq Heads
<1>0. Types /\ ViewOK
  BY DEF StorageInv
<1>1. CASE db' \in {db, durable} /\ durable' \in {db, durable}
  BY <1>1 DEF Heads, HeadsOf
<1>2. CASE (\E S \in SUBSET Outpoint : WritePartialBatch(S)) \/ WriteFinalBatch
  <2>1. Writing /\ durable' = durable /\ HeadsMatch
    BY <1>2, WritingExact DEF WritePartialBatch, WriteFinalBatch
  <2>2. (\E S \in SUBSET Outpoint : db' = Batch(S)) \/ db' = Final
    BY <1>2, <2>1 DEF WritePartialBatch, WriteFinalBatch
  <2>3. HeadsOf(db') \cap Block \subseteq HeadsOf(db) \cup {tip}
    <3>1. ASSUME NEW S \in SUBSET Outpoint, db' = Batch(S)
          PROVE  HeadsOf(db') \cap Block \subseteq HeadsOf(db) \cup {tip}
      <4>1. db'.best = Null /\ db'.heads[1] = tip /\ db'.heads[2] = OldTip /\ db'.heads # <<>>
        BY <3>1 DEF Batch
      <4>2. OldTip \in HeadsOf(db)
        BY DEF OldTip, InHeads, HeadsOf
      <4> QED BY <4>1, <4>2, Tree DEF HeadsOf
    <3>2. ASSUME db' = Final
          PROVE  HeadsOf(db') \cap Block \subseteq HeadsOf(db) \cup {tip}
      BY <3>2 DEF Final, HeadsOf
    <3> QED BY <2>2, <3>1, <3>2
  <2>4. phase # "coins" => tip \in HeadsOf(db)
    BY <1>0, <2>1 DEF Writing, HeadsOf, ViewOK
  <2>5. tip \in Block
    BY <1>0 DEF Types
  <2> QED BY <2>1, <2>3, <2>4, <2>5 DEF Heads
<1>3. CASE SyncCoinsDB \/ Crash \/ PowerLoss \/ Restart \/ RollbackBlock
           \/ (\E b \in Block : RollforwardBlock(b)) \/ UNCHANGED vars
  BY <1>1, <1>3 DEF SyncCoinsDB, Crash, PowerLoss, LoseMemory, Restart, RollbackBlock,
                    RollforwardBlock, vars
<1>4. CASE \/ \E b \in Block : ConnectTip(b)
           \/ DisconnectTip
           \/ \E b \in Block \ {Genesis} : AcceptBlock(b)
           \/ \E F \in SUBSET (0 .. idx.last) : BeginFlush(F)
           \/ WriteBlockIndexDB
           \/ \E f \in pruning : UnlinkPrunedFile(f)
  <2>1. db' = db /\ durable' = durable
    BY <1>4 DEF ConnectTip, DisconnectTip, AcceptBlock, BeginFlush, WriteBlockIndexDB,
                UnlinkPrunedFile
  <2> QED BY <1>1, <2>1
<1> QED BY <1>2, <1>3, <1>4 DEF Next

\* The index of a node that has not written one is empty but for the genesis block.
LEMMA DiskInit == Init => DiskInv
<1> SUFFICES ASSUME Init PROVE DiskInv
  OBVIOUS
<1>1. /\ EmptyIdx \in Index /\ EmptyIdx.known = {} /\ EmptyIdx.data = {} /\ EmptyIdx.undo = {}
      /\ EmptyIdx.last = 0 /\ \A b \in Block : EmptyIdx.file[b] = 0
  BY DEF EmptyIdx, Index
<1>2. /\ idx.known = {Genesis} /\ idx.data = {Genesis}
      /\ idx.last = 0 /\ idx.file = EmptyIdx.file /\ idx \in Index
  BY <1>1, Tree DEF Init, WithGenesis, Index
<1>3. Genesis \in Block /\ Null \notin Block
  BY Tree
<1>4. FilesOK
  BY SMT, <1>1, <1>2, <1>3 DEF Init, FilesOK, IndexBacked, Loaded, Running
<1>5. Heads = {}
  BY <1>3 DEF Init, Heads, HeadsOf, EmptyDB
<1> QED BY <1>1, <1>2, <1>3, <1>4, <1>5 DEF Init, DiskInv, IndexOK, KnownOK, Loaded,
                                                                 Running

\* What AcceptBlock does to the index and the block files.
LEMMA AcceptFacts ==
  ASSUME idx \in Index, NEW b \in Block \ {Genesis}, AcceptBlock(b)
  PROVE  /\ phase = "idle" /\ phase' = "idle" /\ tip' = tip /\ pruning' = pruning
         /\ b \notin idx.data /\ Parent[b] \in idx.known /\ idx' \in Index
         /\ idx'.known = idx.known \cup {b} /\ idx'.data = idx.data \cup {b}
         /\ idx'.undo = idx.undo
         /\ \A c \in Block \ {b} : idx'.file[c] = idx.file[c]
         /\ idx'.file[b] = idx'.last
         /\ idx'.last <= MaxFile
         /\ blk' = blk \cup {<<idx'.last, b>>}
         /\ \/ idx'.last = idx.last /\ blkSync' = blkSync /\ revSync' = revSync
            \/ idx'.last = idx.last + 1 /\ blkSync' = blkSync \cup Of(blk, idx.last)
         /\ revSync \subseteq revSync' /\ revSync' \subseteq revSync \cup rev
         /\ rev' = rev /\ idxDB' = idxDB
<1> DEFINE f == IF Full(idx, idx.last) THEN idx.last + 1 ELSE idx.last
<1>1. /\ phase = "idle" /\ phase' = phase /\ tip' = tip /\ pruning' = pruning
      /\ b \notin idx.data /\ Parent[b] \in idx.known /\ f <= MaxFile
      /\ blk' = blk \cup {<<f, b>>}
      /\ idx' = [idx EXCEPT !.known = @ \cup {b}, !.data = @ \cup {b},
                            !.file[b] = f, !.last = f]
      /\ rev' = rev /\ idxDB' = idxDB
  BY DEF AcceptBlock
<1>2. /\ f = idx.last => blkSync' = blkSync /\ revSync' = revSync
      /\ f # idx.last => /\ blkSync' = blkSync \cup Of(blk, idx.last)
                         /\ revSync' \in {revSync, revSync \cup Of(rev, idx.last)}
  BY DEF AcceptBlock
<1>3. f = idx.last \/ f = idx.last + 1
  OBVIOUS
<1>4. idx.last \in Nat /\ f \in Nat
  BY SMT DEF Index
<1> HIDE DEF f
<1>5. /\ idx' \in Index /\ idx'.last = f
      /\ idx'.known = idx.known \cup {b} /\ idx'.data = idx.data \cup {b}
      /\ idx'.undo = idx.undo /\ idx'.file = [idx.file EXCEPT ![b] = f]
  BY <1>1, <1>4 DEF Index
<1>6. idx'.file[b] = f /\ \A c \in Block \ {b} : idx'.file[c] = idx.file[c]
  BY <1>5 DEF Index
<1>7. revSync \subseteq revSync' /\ revSync' \subseteq revSync \cup rev
  BY <1>2 DEF Of
<1> QED BY <1>1, <1>2, <1>3, <1>5, <1>6, <1>7

\* A block that is received goes to the last file, or to a new last file when the
\* old one has been flushed.
LEMMA DiskAccept ==
  ASSUME DiskInv, NEW b \in Block \ {Genesis}, AcceptBlock(b), Heads' \subseteq Heads
  PROVE  DiskInv'
<1>1. idx \in Index /\ idxDB \in Index /\ blkSync \subseteq blk
  BY DEF DiskInv, FilesOK
<1>2. /\ phase = "idle" /\ phase' = "idle" /\ tip' = tip /\ pruning' = pruning
      /\ b \notin idx.data /\ Parent[b] \in idx.known /\ idx' \in Index
      /\ idx'.known = idx.known \cup {b} /\ idx'.data = idx.data \cup {b}
      /\ \A c \in Block \ {b} : idx'.file[c] = idx.file[c]
      /\ idx'.file[b] = idx'.last
      /\ blk' = blk \cup {<<idx'.last, b>>} /\ idxDB' = idxDB
      /\ \/ idx'.last = idx.last /\ blkSync' = blkSync
         \/ idx'.last = idx.last + 1 /\ blkSync' = blkSync \cup Of(blk, idx.last)
  BY <1>1, AcceptFacts
<1>3. Loaded /\ Running /\ Loaded' /\ Running'
  BY <1>2 DEF Loaded, Running
<1>4. blkSync \subseteq blkSync' /\ blkSync' \subseteq blk'
  BY <1>1, <1>2 DEF Of
<1>5. IndexBacked'
  BY <1>2, <1>4 DEF DiskInv, FilesOK, IndexBacked
<1>6. ASSUME NEW c \in idx'.data
      PROVE  /\ idx'.file[c] <= idx'.last
             /\ <<idx'.file[c], c>> \in blk'
             /\ idx'.file[c] # idx'.last => <<idx'.file[c], c>> \in blkSync'
  <2>1. CASE c = b
    BY SMT, <1>2, <2>1 DEF Index
  <2>2. CASE c # b
    <3>1. c \in idx.data /\ c \in Block /\ idx'.file[c] = idx.file[c]
      BY <1>1, <1>2, <2>2 DEF Index
    <3>2. /\ idx.file[c] <= idx.last /\ <<idx.file[c], c>> \in blk
          /\ idx.file[c] # idx.last => <<idx.file[c], c>> \in blkSync
      BY <1>3, <3>1 DEF DiskInv, FilesOK
    <3>3. idx.last \in Nat /\ idx.file[c] \in Nat
      BY <1>1, <3>1 DEF Index
    <3>4. CASE idx'.last = idx.last /\ blkSync' = blkSync
      BY <1>2, <3>1, <3>2, <3>4
    <3>5. CASE idx'.last = idx.last + 1 /\ blkSync' = blkSync \cup Of(blk, idx.last)
      BY SMT, <1>2, <3>1, <3>2, <3>3, <3>5 DEF Of
    <3> QED BY <1>2, <3>4, <3>5
  <2> QED BY <2>1, <2>2
<1>7. FilesOK'
  BY <1>1, <1>2, <1>4, <1>5, <1>6 DEF DiskInv, FilesOK
<1>8. IndexOK'
  <2>1. KnownOK(idx')
    BY <1>2, <1>3 DEF DiskInv, IndexOK, KnownOK
  <2> QED BY <1>2, <1>3, <2>1 DEF DiskInv, IndexOK, KnownOK
<1> QED BY <1>7, <1>8 DEF DiskInv

\* What ConnectTip does to the index: nothing, or the undo data of the new tip.
LEMMA ConnectFacts ==
  ASSUME idx \in Index, NEW b \in Block, ConnectTip(b)
  PROVE  /\ phase = "idle" /\ phase' = (IF CanRead(b) THEN "idle" ELSE "failed")
         /\ b # Genesis /\ Parent[b] = tip /\ b \in idx.data
         /\ CanRead(b) => tip' = b /\ b \in idx'.undo
         /\ ~CanRead(b) => tip' = tip
         /\ idx' \in Index /\ idx'.known = idx.known /\ idx'.data = idx.data
         /\ idx'.file = idx.file /\ idx'.last = idx.last
         /\ idx.undo \subseteq idx'.undo /\ idx'.undo \subseteq idx.undo \cup {b}
         /\ rev \subseteq rev' /\ revSync \subseteq revSync'
         /\ revSync' \subseteq revSync \cup rev'
         /\ b \in idx'.undo => b \in idx.undo \/ <<idx.file[b], b>> \in rev'
         /\ UNCHANGED <<pruning, blk, blkSync, idxDB>>
<1> USE DEF ConnectTip
<1>1. CASE ~CanRead(b)
  BY <1>1
<1>2. CASE CanRead(b) /\ b \in idx.undo
  BY <1>2 DEF WriteBlockUndo
<1>3. CASE CanRead(b) /\ b \notin idx.undo
  <2>1. /\ rev' = rev \cup {<<idx.file[b], b>>}
        /\ idx' = [idx EXCEPT !.undo = @ \cup {b}]
        /\ revSync' \in {revSync, revSync \cup Of(rev', idx.file[b])}
    BY <1>3 DEF WriteBlockUndo
  <2>2. /\ idx' \in Index /\ idx'.known = idx.known /\ idx'.data = idx.data
        /\ idx'.file = idx.file /\ idx'.last = idx.last /\ idx'.undo = idx.undo \cup {b}
    BY <2>1 DEF Index
  <2>3. revSync \subseteq revSync' /\ revSync' \subseteq revSync \cup rev'
    BY <2>1 DEF Of
  <2> QED BY <1>3, <2>1, <2>2, <2>3
<1> QED BY <1>1, <1>2, <1>3

\* A change of the tip leaves the block files alone, and the new tip is known.
LEMMA DiskTip ==
  ASSUME Types, DiskInv, (\E b \in Block : ConnectTip(b)) \/ DisconnectTip,
         Heads' \subseteq Heads
  PROVE  DiskInv'
<1>0. idx \in Index
  BY DEF DiskInv, FilesOK
<1>1. /\ phase = "idle" /\ phase' \in {"idle", "failed"}
      /\ idx' \in Index /\ idx'.known = idx.known /\ idx'.data = idx.data
      /\ idx'.file = idx.file /\ idx'.last = idx.last
      /\ UNCHANGED <<pruning, blk, blkSync, idxDB>>
  <2>1. CASE \E b \in Block : ConnectTip(b)
    <3>1. PICK b \in Block : ConnectTip(b)
      BY <2>1
    <3> QED BY <1>0, <3>1, ConnectFacts
  <2>2. CASE DisconnectTip
    BY <1>0, <2>2 DEF DisconnectTip, files
  <2> QED BY <2>1, <2>2
<1>2. tip' \in idx.known
  <2>0. tip \in idx.known /\ KnownOK(idx) /\ tip \in Block
    BY <1>1 DEF DiskInv, IndexOK, Loaded, Running, Types
  <2>1. CASE \E b \in Block : ConnectTip(b)
    <3>1. PICK b \in Block : ConnectTip(b)
      BY <2>1
    <3>2. b \in idx.data /\ tip' \in {b, tip}
      BY <1>0, <3>1, ConnectFacts
    <3> QED BY <2>0, <3>2 DEF KnownOK
  <2>2. CASE DisconnectTip
    <3>1. tip # Genesis /\ tip' \in {tip, Parent[tip]}
      BY <2>2 DEF DisconnectTip
    <3> QED BY <2>0, <3>1 DEF KnownOK
  <2> QED BY <2>1, <2>2
<1>3. Loaded /\ Running
  BY <1>1 DEF Loaded, Running
<1>4. FilesOK'
  BY <1>1, <1>3 DEF DiskInv, FilesOK, IndexBacked
<1>5. IndexOK'
  BY <1>1, <1>2, <1>3 DEF DiskInv, IndexOK, KnownOK
<1> QED BY <1>4, <1>5 DEF DiskInv

\* Pruning forgets the data of the blocks in the files F, and nothing else.
LEMMA PrunedFacts ==
  ASSUME NEW i \in Index, NEW F
  PROVE  /\ Pruned(i, F) \in Index
         /\ Pruned(i, F).known = i.known /\ Pruned(i, F).last = i.last
         /\ Pruned(i, F).data = {b \in i.data : i.file[b] \notin F}
         /\ Pruned(i, F).undo = i.undo \ {b \in i.data : i.file[b] \in F}
         /\ \A b \in Pruned(i, F).data : Pruned(i, F).file[b] = i.file[b]
<1> DEFINE gone == {b \in i.data : i.file[b] \in F}
           file == [b \in Block |-> IF b \in gone THEN 0 ELSE i.file[b]]
<1>1. Pruned(i, F) = [i EXCEPT !.data = i.data \ gone, !.undo = i.undo \ gone, !.file = file]
  BY DEF Pruned, Index
<1>2. file \in [Block -> Nat]
  BY DEF Index
<1>3. \A b \in i.data \ gone : file[b] = i.file[b]
  BY DEF Index
<1> HIDE DEF file
<1>4. /\ Pruned(i, F).known = i.known /\ Pruned(i, F).last = i.last
      /\ Pruned(i, F).data = i.data \ gone /\ Pruned(i, F).undo = i.undo \ gone
      /\ Pruned(i, F).file = file
  BY <1>1 DEF Index
<1>5. Pruned(i, F) \in Index
  BY <1>1, <1>2 DEF Index
<1> QED BY <1>3, <1>4, <1>5

\* A flush: the last block file is synced, then the index written, then the pruned
\* files unlinked, to which neither index refers any more.
LEMMA DiskFlush ==
  ASSUME DiskInv, Heads' \subseteq Heads,
         \/ \E F \in SUBSET (0 .. idx.last) : BeginFlush(F)
         \/ WriteBlockIndexDB
         \/ \E f \in pruning : UnlinkPrunedFile(f)
  PROVE  DiskInv'
<1>0. /\ idx \in Index /\ idxDB \in Index /\ blkSync \subseteq blk
  BY DEF DiskInv, FilesOK
<1>1. ASSUME NEW F \in SUBSET (0 .. idx.last), BeginFlush(F) PROVE DiskInv'
  <2>1. /\ phase = "idle" /\ phase' = "index" /\ pruning' = F /\ idx' = Pruned(idx, F)
        /\ blkSync' = blkSync \cup Of(blk, idx.last)
        /\ tip' = tip /\ blk' = blk /\ idxDB' = idxDB
    BY <1>1 DEF BeginFlush, FlushChainstateBlockFile
  <2>2. /\ idx' \in Index /\ idx'.known = idx.known /\ idx'.last = idx.last
        /\ idx'.data = {b \in idx.data : idx.file[b] \notin F}
        /\ \A b \in idx'.data : idx'.file[b] = idx.file[b]
    BY SMT, <1>0, <2>1, PrunedFacts
  <2>3. Loaded /\ Running /\ Loaded' /\ Running'
    BY <2>1 DEF Loaded, Running
  <2>4. blkSync \subseteq blkSync' /\ blkSync' \subseteq blk'
    BY <1>0, <2>1 DEF Of
  <2>5. ASSUME NEW b \in idx'.data
        PROVE  /\ idx'.file[b] <= idx'.last /\ idx'.file[b] \notin pruning'
               /\ <<idx'.file[b], b>> \in blkSync'
    <3>1. b \in idx.data /\ idx'.file[b] = idx.file[b] /\ idx.file[b] \notin F
      BY <2>2
    <3>2. /\ idx.file[b] <= idx.last /\ <<idx.file[b], b>> \in blk
          /\ idx.file[b] # idx.last => <<idx.file[b], b>> \in blkSync
      BY <2>3, <3>1 DEF DiskInv, FilesOK
    <3> QED BY <2>1, <2>2, <3>1, <3>2 DEF Of
  <2>6. FilesOK'
    BY <1>0, <2>1, <2>2, <2>4, <2>5 DEF DiskInv, FilesOK, IndexBacked
  <2>7. IndexOK'
    BY <2>1, <2>2, <2>3 DEF DiskInv, IndexOK, KnownOK
  <2> QED BY <2>6, <2>7 DEF DiskInv
<1>2. ASSUME WriteBlockIndexDB PROVE DiskInv'
  <2>1. /\ phase = "index" /\ phase' \in {"unlink", "coins"} /\ idxDB' = idx /\ idx' = idx
        /\ tip' = tip /\ pruning' = pruning /\ blk' = blk /\ blkSync' = blkSync
    BY <1>2 DEF WriteBlockIndexDB, mem, files
  <2>2. Loaded /\ Running /\ Loaded' /\ Running'
    BY <2>1 DEF Loaded, Running
  <2>3. FilesOK'
    BY <1>0, <2>1, <2>2 DEF DiskInv, FilesOK, IndexBacked
  <2>4. IndexOK'
    BY <2>1, <2>2 DEF DiskInv, IndexOK, KnownOK
  <2> QED BY <2>3, <2>4 DEF DiskInv
<1>3. ASSUME NEW f \in pruning, UnlinkPrunedFile(f) PROVE DiskInv'
  <2>1. /\ phase = "unlink" /\ phase' \in {"unlink", "coins"} /\ idxDB' = idxDB /\ idx' = idx
        /\ tip' = tip /\ pruning' = pruning \ {f}
        /\ blk' = blk \ Of(blk, f) /\ blkSync' = blkSync \ Of(blkSync, f)
    BY <1>3 DEF UnlinkPrunedFile
  <2>2. Loaded /\ Running /\ Loaded' /\ Running'
    BY <2>1 DEF Loaded, Running
  <2>3. blkSync' \subseteq blk'
    BY <1>0, <2>1 DEF Of
  <2>4. idxDB = idx /\ \A b \in idx.data : idx.file[b] # f
    BY <2>1 DEF DiskInv, FilesOK
  <2>5. \A b \in idx.data : \A C : <<idx.file[b], b>> \in C => <<idx.file[b], b>> \in C \ Of(C, f)
    BY <2>4 DEF Of
  <2>6. IndexBacked'
    BY <2>1, <2>4, <2>5 DEF DiskInv, FilesOK, IndexBacked
  <2>7. FilesOK'
    BY <1>0, <2>1, <2>2, <2>3, <2>4, <2>5, <2>6 DEF DiskInv, FilesOK
  <2>8. IndexOK'
    BY <2>1, <2>2 DEF DiskInv, IndexOK
  <2> QED BY <2>7, <2>8 DEF DiskInv
<1> QED BY <1>1, <1>2, <1>3

\* The coins are written once the index on disk has the tip.
LEMMA DiskCoins ==
  ASSUME StorageInv, DiskInv,
         \/ \E S \in SUBSET Outpoint : WritePartialBatch(S)
         \/ WriteFinalBatch
         \/ SyncCoinsDB
         \/ RollbackBlock
         \/ \E b \in Block : RollforwardBlock(b)
         \/ UNCHANGED vars,
         Heads' \subseteq Heads \cup {tip},
         phase # "coins" => Heads' \subseteq Heads
  PROVE  DiskInv'
<1>1. /\ idx' = idx /\ idxDB' = idxDB /\ pruning' = pruning /\ blk' = blk /\ blkSync' = blkSync
      /\ phase' = phase \/ (phase' = "idle" /\ Writing) \/ phase' = "failed"
      /\ tip' = tip \/ (phase = "replay" /\ phase' = "replay")
  BY DEF WritePartialBatch, WriteFinalBatch, SyncCoinsDB, RollbackBlock, RollforwardBlock,
         vars, mem, files
<1>2. Writing => Loaded
  BY DEF Writing, Loaded, Running
<1>3. FilesOK'
  BY <1>1, <1>2 DEF DiskInv, FilesOK, IndexBacked, Loaded, Running
<1>4. Heads' \subseteq idxDB.known
  BY DEF DiskInv, IndexOK
<1>5. tip' \in idx.known \/ ~Running'
  <2>1. CASE Running
    BY <1>1, <2>1 DEF DiskInv, IndexOK, Running
  <2>2. CASE phase = "replay" /\ phase' = "idle"
    <3>1. Writing /\ tip' = tip
      BY <1>1, <2>2
    <3>2. tip = db.heads[1] /\ db.heads # <<>> /\ tip \in Block
      BY <2>2, <3>1 DEF Writing, StorageInv, ViewOK, Types
    <3>3. tip \in Heads
      BY <3>2 DEF Heads, HeadsOf
    <3> QED BY <2>2, <3>1, <3>3 DEF DiskInv, IndexOK, Loaded
  <2>3. CASE ~Running /\ ~(phase = "replay" /\ phase' = "idle")
    BY <1>1, <2>3 DEF Running, Writing
  <2> QED BY <2>1, <2>2, <2>3
<1>6. IndexOK'
  BY <1>1, <1>2, <1>4, <1>5 DEF DiskInv, IndexOK, Loaded, Running
<1> QED BY <1>3, <1>6 DEF DiskInv

\* The index loaded at start-up: the one on disk, with the genesis block.
LEMMA WithGenesisFacts ==
  ASSUME idxDB \in Index, Genesis \notin idxDB.known => idxDB = EmptyIdx
  PROVE  /\ WithGenesis(idxDB) \in Index
         /\ WithGenesis(idxDB).known = idxDB.known \cup {Genesis}
         /\ WithGenesis(idxDB).data =
              idxDB.data \cup (IF Genesis \in idxDB.known THEN {} ELSE {Genesis})
         /\ WithGenesis(idxDB).undo = idxDB.undo
         /\ WithGenesis(idxDB).file = idxDB.file
         /\ WithGenesis(idxDB).last = idxDB.last
         /\ Genesis \notin idxDB.known =>
              idxDB.known = {} /\ idxDB.file[Genesis] = 0 /\ idxDB.last = 0
<1>1. CASE Genesis \in idxDB.known
  BY <1>1 DEF WithGenesis
<1>2. CASE Genesis \notin idxDB.known
  <2>1. idxDB.known = {} /\ idxDB.file[Genesis] = 0 /\ idxDB.last = 0
    BY SMT, <1>2, Tree DEF EmptyIdx
  <2>2. WithGenesis(idxDB) = [idxDB EXCEPT !.known = @ \cup {Genesis}, !.data = @ \cup {Genesis}]
    BY <1>2 DEF WithGenesis
  <2>3. Genesis \in Block
    BY Tree
  <2>4. /\ WithGenesis(idxDB).known = idxDB.known \cup {Genesis}
        /\ WithGenesis(idxDB).data = idxDB.data \cup {Genesis}
        /\ WithGenesis(idxDB).undo = idxDB.undo
        /\ WithGenesis(idxDB).file = idxDB.file
        /\ WithGenesis(idxDB).last = idxDB.last
    BY <2>2 DEF Index
  <2>5. WithGenesis(idxDB) \in Index
    <3>1. WithGenesis(idxDB) =
            [known |-> {Genesis}, data |-> idxDB.data \cup {Genesis}, undo |-> idxDB.undo,
             file |-> idxDB.file, last |-> idxDB.last]
      BY <2>1, <2>2 DEF Index
    <3> QED BY SMT, <2>3, <3>1 DEF Index
  <2> QED BY <1>2, <2>1, <2>4, <2>5
<1> QED BY <1>1, <1>2

\* A crash leaves what the index on disk refers to, and a start-up finds it.
LEMMA DiskRecovery ==
  ASSUME DiskInv, Types, Heads' \subseteq Heads, Crash \/ PowerLoss \/ Restart
  PROVE  DiskInv'
<1>0. /\ idx \in Index /\ idxDB \in Index /\ blkSync \subseteq blk /\ IndexBacked
      /\ Genesis \notin idxDB.known => idxDB = EmptyIdx
      /\ KnownOK(idxDB) /\ Heads \subseteq idxDB.known
      /\ \A b \in idxDB.data : idxDB.file[b] <= idxDB.last
  BY DEF DiskInv, FilesOK, IndexOK
<1>1. CASE Crash \/ PowerLoss
  <2>1. /\ phase' = "down" /\ idx' = EmptyIdx /\ idxDB' = idxDB /\ blkSync' = blkSync
        /\ blk' \in {blk, blkSync}
    BY <1>1 DEF Crash, PowerLoss, LoseMemory
  <2>2. EmptyIdx \in Index
    BY DEF EmptyIdx, Index
  <2>3. FilesOK'
    BY <1>0, <2>1, <2>2 DEF FilesOK, IndexBacked, Loaded, Running
  <2>4. IndexOK'
    BY <1>0, <2>1 DEF IndexOK, KnownOK, Loaded, Running
  <2> QED BY <2>3, <2>4 DEF DiskInv
<1>2. CASE Restart
  <2> DEFINE i == WithGenesis(idxDB)
             fresh == {<<i.file[Genesis], Genesis>> : x \in {Genesis} \ idxDB.known}
  <2>1. /\ phase = "down" /\ idxDB' = idxDB
        /\ blk' = BlkOf(i, blk) \cup fresh /\ blkSync' = BlkOf(i, blkSync)
        /\ ~CanStart(i) => phase' = "failed" /\ idx' = idx
        /\ CanStart(i) =>
             /\ phase' = IF db.heads = <<>> THEN "idle" ELSE "replay"
             /\ tip' = LET start == IF db.heads = <<>> THEN db.best ELSE db.heads[2]
                       IN  IF start = Null THEN Genesis ELSE start
             /\ idx' = i
    BY <1>2 DEF Restart
  <2>2. /\ i \in Index /\ i.known = idxDB.known \cup {Genesis}
        /\ i.data = idxDB.data \cup (IF Genesis \in idxDB.known THEN {} ELSE {Genesis})
        /\ i.file = idxDB.file /\ i.last = idxDB.last
        /\ Genesis \notin idxDB.known =>
             idxDB.known = {} /\ idxDB.file[Genesis] = 0 /\ idxDB.last = 0
    BY <1>0, WithGenesisFacts
  <2> HIDE DEF i
  <2>3. \A b \in idxDB.data : <<idxDB.file[b], b>> \in blkSync'
    BY <1>0, <2>1, <2>2 DEF IndexBacked, BlkOf
  <2>4. blkSync' \subseteq blk'
    BY <1>0, <2>1 DEF BlkOf
  <2>5. Genesis \notin idxDB.known => <<i.file[Genesis], Genesis>> \in blk'
    BY <2>1
  <2>6. /\ KnownOK(i) /\ Genesis \in i.known /\ idxDB.known \subseteq i.known
    <3>1. i.data \subseteq i.known
      BY <1>0, <2>2 DEF KnownOK
    <3>2. \A b \in i.known \ {Genesis} : Parent[b] \in i.known
      BY <1>0, <2>2 DEF KnownOK
    <3> QED BY <2>2, <3>1, <3>2 DEF KnownOK
  <2>7. CASE ~CanStart(i)
    <3>1. FilesOK'
      BY <1>0, <2>1, <2>3, <2>4, <2>7 DEF FilesOK, IndexBacked, Loaded, Running
    <3>2. IndexOK'
      BY <1>0, <2>1, <2>7 DEF IndexOK, KnownOK, Loaded, Running
    <3> QED BY <3>1, <3>2 DEF DiskInv
  <2>8. CASE CanStart(i)
    <3>1. /\ phase' \in {"idle", "replay"} /\ idx' = i
          /\ phase' = "idle" => db.heads = <<>>
      BY <2>1, <2>8
    <3>2. phase' = "idle" => tip' \in i.known
      <4>1. CASE db.heads = <<>>
        <5>1. tip' = IF db.best = Null THEN Genesis ELSE db.best
          BY <2>1, <2>8, <4>1
        <5>2. db.best = Null \/ db.best \in i.known
          BY <2>8, <4>1 DEF CanStart, Known
        <5> QED BY <2>6, <5>1, <5>2
      <4> QED BY <3>1, <4>1
    <3>3. ASSUME NEW b \in i.data
          PROVE  /\ i.file[b] <= i.last
                 /\ <<i.file[b], b>> \in blk'
                 /\ i.file[b] # i.last => <<i.file[b], b>> \in blkSync'
      <4>1. CASE b \in idxDB.data
        BY <1>0, <2>2, <2>3, <2>4, <4>1
      <4>2. CASE b \notin idxDB.data
        BY SMT, <2>2, <2>5, <4>2
      <4> QED BY <4>1, <4>2
    <3>4. FilesOK'
      BY <1>0, <2>1, <2>2, <2>3, <2>4, <3>1, <3>3 DEF FilesOK, IndexBacked
    <3>5. IndexOK'
      BY <1>0, <2>1, <2>6, <3>1, <3>2 DEF IndexOK, KnownOK, Running
    <3> QED BY <3>4, <3>5 DEF DiskInv
  <2> QED BY <2>7, <2>8
<1> QED BY <1>1, <1>2

\* DiskInv is inductive, given StorageInv.
LEMMA DiskStep == StorageInv /\ DiskInv /\ [Next]_vars => DiskInv'
<1> SUFFICES ASSUME StorageInv, DiskInv, [Next]_vars PROVE DiskInv'
  OBVIOUS
<1>1. Heads' \subseteq Heads \cup {tip} /\ (phase # "coins" => Heads' \subseteq Heads)
  BY HeadsStep
<1>2. Types
  BY DEF StorageInv
<1>3. ASSUME NEW b \in Block \ {Genesis}, AcceptBlock(b) PROVE DiskInv'
  <2>1. idx \in Index
    BY DEF DiskInv, FilesOK
  <2>2. phase = "idle"
    BY <1>3, <2>1, AcceptFacts
  <2> QED BY <1>1, <1>3, <2>2, DiskAccept
<1>4. CASE (\E b \in Block : ConnectTip(b)) \/ DisconnectTip
  <2>1. phase = "idle"
    BY <1>4 DEF ConnectTip, DisconnectTip
  <2> QED BY <1>1, <1>2, <1>4, <2>1, DiskTip
<1>5. CASE \/ \E F \in SUBSET (0 .. idx.last) : BeginFlush(F)
           \/ WriteBlockIndexDB
           \/ \E f \in pruning : UnlinkPrunedFile(f)
  <2>1. phase # "coins"
    BY <1>5 DEF BeginFlush, WriteBlockIndexDB, UnlinkPrunedFile
  <2> QED BY <1>1, <1>5, <2>1, DiskFlush
<1>6. CASE \/ \E S \in SUBSET Outpoint : WritePartialBatch(S)
           \/ WriteFinalBatch
           \/ SyncCoinsDB
           \/ RollbackBlock
           \/ \E b \in Block : RollforwardBlock(b)
           \/ UNCHANGED vars
  BY <1>1, <1>6, DiskCoins
<1>7. CASE Crash \/ PowerLoss \/ Restart
  <2>1. db' \in {db, durable} /\ durable' = durable
    BY <1>7 DEF Crash, PowerLoss, LoseMemory, Restart
  <2>2. Heads' \subseteq Heads
    BY <2>1 DEF Heads, HeadsOf
  <2> QED BY <1>2, <1>7, <2>2, DiskRecovery
<1> QED BY <1>3, <1>4, <1>5, <1>6, <1>7 DEF Next

\* The files and the index invariant hold of every behaviour, pruning included.
THEOREM DiskInvariant == Spec => [](StorageInv /\ DiskInv)
BY StorageInit, StorageStep, DiskInit, DiskStep, PTL DEF Spec

\* Whatever the block tree, the size of the files and the files pruned, the index
\* on disk never claims a block that a power loss could take: FlushStateToDisk
\* syncs the last block file first, FindNextBlockPos every earlier one, and a
\* pruned file is unlinked only after the index that forgets it is written.
THEOREM StorageIndexBacked == Spec => []IndexBacked
<1>1. DiskInv => IndexBacked
  BY DEF DiskInv, FilesOK
<1> QED BY <1>1, DiskInvariant, PTL

\* Neither coins database, the one in use or the one a power loss leaves, ever
\* names a block that the index on disk does not have.
THEOREM StorageHeadsIndexed == Spec => []HeadsIndexed
<1>1. DiskInv => HeadsIndexed
  BY DEF DiskInv, IndexOK, HeadsIndexed, Heads, HeadsOf
<1> QED BY <1>1, DiskInvariant, PTL

-----------------------------------------------------------------------------
(* The undo files.                                                          *)

\* Undo data of the index in memory is in the undo file unless it is that of an
\* older file, and synced while the index is about to be written if it is that of
\* the last one; the last file is not pruned.
UndoInv ==
  /\ UndoSynced
  /\ revSync \subseteq rev
  /\ idxDB.undo \subseteq idxDB.data
  /\ Loaded =>
       /\ idx.undo \subseteq idx.data
       /\ \A b \in idx.undo : <<idx.file[b], b>> \in rev \/ idx.file[b] < idx.last
  /\ phase = "index" =>
       \A b \in idx.undo : idx.file[b] = idx.last => <<idx.file[b], b>> \in revSync
  /\ phase \in {"index", "unlink"} => idx.last \notin pruning

LEMMA UndoInit == Init => UndoInv
<1> SUFFICES ASSUME Init PROVE UndoInv
  OBVIOUS
<1>1. idxDB.undo = {} /\ idx.undo = {} /\ revSync = {} /\ phase = "idle"
  BY DEF Init, WithGenesis, EmptyIdx
<1> QED BY <1>1 DEF UndoInv, UndoSynced

LEMMA UndoStep ==
  ASSUME DiskInv, UndoInv, [Next]_vars
  PROVE  UndoInv'
<1>0. /\ idx \in Index /\ idxDB \in Index
      /\ Loaded => \A b \in idx.data : idx.file[b] <= idx.last
      /\ phase = "unlink" => idxDB = idx
  BY DEF DiskInv, FilesOK
<1>1. ASSUME NEW b \in Block \ {Genesis}, AcceptBlock(b) PROVE UndoInv'
  <2>1. /\ phase = "idle" /\ phase' = "idle" /\ b \notin idx.data /\ idx' \in Index
        /\ idx'.data = idx.data \cup {b} /\ idx'.undo = idx.undo
        /\ \A c \in Block \ {b} : idx'.file[c] = idx.file[c]
        /\ idx'.last = idx.last \/ idx'.last = idx.last + 1
        /\ revSync \subseteq revSync' /\ revSync' \subseteq revSync \cup rev
        /\ rev' = rev /\ idxDB' = idxDB
    BY <1>0, <1>1, AcceptFacts
  <2>2. Loaded
    BY <2>1 DEF Loaded, Running
  <2>3. ASSUME NEW c \in idx'.undo
        PROVE  <<idx'.file[c], c>> \in rev' \/ idx'.file[c] < idx'.last
    <3>1. c \in idx.undo /\ c \in Block /\ c # b /\ idx'.file[c] = idx.file[c]
      BY <1>0, <2>1, <2>2 DEF UndoInv, Index
    <3>2. <<idx.file[c], c>> \in rev \/ idx.file[c] < idx.last
      BY <2>2, <3>1 DEF UndoInv
    <3>3. idx.file[c] \in Nat /\ idx.last \in Nat
      BY <1>0, <3>1 DEF Index
    <3> QED BY SMT, <2>1, <3>1, <3>2, <3>3
  <2> QED BY <2>1, <2>2, <2>3 DEF UndoInv, UndoSynced
<1>2. ASSUME NEW b \in Block, ConnectTip(b) PROVE UndoInv'
  <2>1. /\ phase = "idle" /\ phase' \in {"idle", "failed"} /\ b \in idx.data
        /\ idx'.data = idx.data /\ idx'.file = idx.file /\ idx'.last = idx.last
        /\ idx'.undo \subseteq idx.undo \cup {b} /\ rev \subseteq rev'
        /\ revSync \subseteq revSync' /\ revSync' \subseteq revSync \cup rev'
        /\ b \in idx'.undo => b \in idx.undo \/ <<idx.file[b], b>> \in rev'
        /\ idxDB' = idxDB
    BY <1>0, <1>2, ConnectFacts
  <2>2. Loaded
    BY <2>1 DEF Loaded, Running
  <2> QED BY <2>1, <2>2 DEF UndoInv, UndoSynced
<1>3. ASSUME NEW F \in SUBSET (0 .. idx.last), BeginFlush(F) PROVE UndoInv'
  <2>1. /\ phase = "idle" /\ phase' = "index" /\ idx' = Pruned(idx, F) /\ idxDB' = idxDB
        /\ revSync' = revSync \cup Of(rev, idx.last) /\ rev' = rev /\ pruning' = F
        /\ F \subseteq (IF PruneMode THEN Prunable ELSE {})
    BY <1>3 DEF BeginFlush, FlushChainstateBlockFile
  <2>2. Loaded
    BY <2>1 DEF Loaded, Running
  <2>3. idx.last \notin F
    <3>1. F \subseteq 0 .. idx.last - 1
      BY <2>1 DEF Prunable
    <3>2. idx.last \in Nat
      BY <1>0 DEF Index
    <3> QED BY SMT, <3>1, <3>2
  <2>4. /\ idx'.last = idx.last /\ idx'.undo = idx.undo \ {b \in idx.data : idx.file[b] \in F}
        /\ idx'.data = {b \in idx.data : idx.file[b] \notin F}
        /\ \A b \in idx'.data : idx'.file[b] = idx.file[b]
    BY SMT, <1>0, <2>1, PrunedFacts
  <2>5. idx'.undo \subseteq idx'.data /\ idx'.undo \subseteq idx.undo
    BY <2>2, <2>4 DEF UndoInv
  <2>6. ASSUME NEW b \in idx'.undo
        PROVE  /\ <<idx'.file[b], b>> \in rev' \/ idx'.file[b] < idx'.last
               /\ idx'.file[b] = idx'.last => <<idx'.file[b], b>> \in revSync'
    <3>1. b \in idx.undo /\ idx'.file[b] = idx.file[b] /\ b \in Block
      BY <1>0, <2>4, <2>5 DEF Index
    <3>2. <<idx.file[b], b>> \in rev \/ idx.file[b] < idx.last
      BY <2>2, <3>1 DEF UndoInv
    <3>3. idx.file[b] = idx.last => ~(idx.file[b] < idx.last)
      BY SMT, <1>0, <3>1 DEF Index
    <3> QED BY <2>1, <2>4, <3>1, <3>2, <3>3 DEF Of
  <2>7. revSync \subseteq revSync' /\ revSync' \subseteq rev'
    BY <2>1 DEF UndoInv, Of
  <2> QED BY <2>1, <2>3, <2>4, <2>5, <2>6, <2>7 DEF UndoInv, UndoSynced
<1>4. ASSUME WriteBlockIndexDB PROVE UndoInv'
  <2>1. /\ phase = "index" /\ phase' \in {"unlink", "coins"} /\ idxDB' = idx /\ idx' = idx
        /\ revSync' = revSync /\ rev' = rev /\ pruning' = pruning
    BY <1>4 DEF WriteBlockIndexDB, mem, files
  <2>2. Loaded
    BY <2>1 DEF Loaded, Running
  <2> QED BY <2>1, <2>2 DEF UndoInv, UndoSynced
<1>5. ASSUME NEW f \in pruning, UnlinkPrunedFile(f) PROVE UndoInv'
  <2>1. /\ phase = "unlink" /\ phase' \in {"unlink", "coins"} /\ idxDB' = idxDB /\ idx' = idx
        /\ pruning' = pruning \ {f}
        /\ rev' = rev \ Of(rev, f) /\ revSync' = revSync \ Of(revSync, f)
    BY <1>5 DEF UnlinkPrunedFile
  <2>2. Loaded /\ idxDB = idx /\ idx.last # f
    BY <1>0, <2>1 DEF Loaded, Running, UndoInv
  <2>3. \A b \in idx.undo : \A C : idx.file[b] = idx.last /\ <<idx.file[b], b>> \in C =>
                                     <<idx.file[b], b>> \in C \ Of(C, f)
    BY <2>2 DEF Of
  <2>4. ASSUME NEW b \in idx.undo
        PROVE  <<idx.file[b], b>> \in rev' \/ idx.file[b] < idx.last
    <3>1. <<idx.file[b], b>> \in rev \/ idx.file[b] < idx.last
      BY <2>2 DEF UndoInv
    <3>2. idx.file[b] <= idx.last /\ idx.file[b] \in Nat /\ idx.last \in Nat
      BY <1>0, <2>2 DEF UndoInv, Index
    <3>3. idx.file[b] = idx.last \/ idx.file[b] < idx.last
      BY SMT, <3>2
    <3> QED BY <2>1, <2>3, <3>1, <3>3
  <2>5. UndoSynced'
    BY <2>1, <2>2, <2>3 DEF UndoInv, UndoSynced
  <2>6. revSync' \subseteq rev'
    BY <2>1 DEF UndoInv, Of
  <2> QED BY <2>1, <2>2, <2>4, <2>5, <2>6 DEF UndoInv
<1>6. ASSUME Restart PROVE UndoInv'
  <2> DEFINE i == WithGenesis(idxDB)
  <2>1. /\ idxDB' = idxDB /\ revSync' = RevOf(i, revSync) /\ rev' = RevOf(i, rev)
        /\ phase' = "failed" \/ (phase' \in {"idle", "replay"} /\ idx' = i)
    BY <1>6 DEF Restart
  <2>2. /\ i.last = idxDB.last /\ i.undo = idxDB.undo /\ i.file = idxDB.file
        /\ idxDB.data \subseteq i.data
    BY WithGenesisFacts DEF DiskInv, FilesOK, IndexOK
  <2> HIDE DEF i
  <2>3. revSync' \subseteq rev'
    BY <2>1 DEF UndoInv, RevOf
  <2>4. UndoSynced'
    BY <2>1, <2>2 DEF UndoInv, UndoSynced, RevOf
  <2>5. ASSUME NEW b \in i.undo PROVE <<i.file[b], b>> \in rev' \/ i.file[b] < i.last
    <3>1. b \in idxDB.data /\ b \in Block
      BY <1>0, <2>2 DEF UndoInv, Index
    <3>2. idxDB.file[b] <= idxDB.last /\ idxDB.file[b] \in Nat /\ idxDB.last \in Nat
      BY <1>0, <3>1 DEF DiskInv, FilesOK, Index
    <3>3. idxDB.file[b] = idxDB.last \/ idxDB.file[b] < idxDB.last
      BY SMT, <3>2
    <3>4. idxDB.file[b] = idxDB.last => <<idxDB.file[b], b>> \in rev'
      BY <2>1, <2>2, <2>3, <2>4 DEF UndoSynced
    <3> QED BY <2>2, <3>3, <3>4
  <2> QED BY <2>1, <2>2, <2>3, <2>4, <2>5 DEF UndoInv, Loaded, Running
<1>7. CASE Crash \/ PowerLoss
  <2>1. /\ phase' = "down" /\ revSync' = revSync /\ rev' \in {rev, revSync} /\ idxDB' = idxDB
    BY <1>7 DEF Crash, PowerLoss, LoseMemory
  <2> QED BY <2>1 DEF UndoInv, UndoSynced, Loaded, Running
<1>8. CASE \/ DisconnectTip \/ SyncCoinsDB \/ RollbackBlock \/ WriteFinalBatch
           \/ \E S \in SUBSET Outpoint : WritePartialBatch(S)
           \/ \E b \in Block : RollforwardBlock(b)
           \/ UNCHANGED vars
  <2>1. /\ UNCHANGED <<idx, idxDB, rev, revSync, pruning>>
        /\ phase' = "index" => phase = "index"
        /\ phase' \in {phase, "failed"} \/ (Writing /\ phase' = "idle")
    BY <1>8 DEF DisconnectTip, SyncCoinsDB, RollbackBlock, WriteFinalBatch,
                WritePartialBatch, RollforwardBlock, vars, mem, files
  <2> QED BY <2>1 DEF UndoInv, UndoSynced, Loaded, Running, Writing
<1> QED BY <1>1, <1>2, <1>3, <1>4, <1>5, <1>6, <1>7, <1>8 DEF Next

THEOREM UndoInvariant == Spec => [](StorageInv /\ DiskInv /\ UndoInv)
<1>1. StorageInv /\ DiskInv /\ UndoInv /\ [Next]_vars => (StorageInv /\ DiskInv /\ UndoInv)'
  BY StorageStep, DiskStep, UndoStep
<1> QED BY <1>1, StorageInit, DiskInit, UndoInit, PTL DEF Spec

\* Whatever the block tree, the number and size of the files and the files pruned:
\* what the index on disk claims of the undo file being written is synced
\* (FlushStateToDisk, FlushChainstateBlockFile).
THEOREM StorageUndoSynced == Spec => []UndoSynced
<1>1. UndoInv => UndoSynced
  BY DEF UndoInv
<1> QED BY <1>1, UndoInvariant, PTL

-----------------------------------------------------------------------------
(* Nothing is missing: a node that does not prune.                          *)

\* Index i has the data and the undo data of every block from the genesis block to h.
HasPath(i, h) == Chain[h] \ {Genesis} \subseteq i.data \cap i.undo

\* Both indexes have the way to every block the coins may have to be taken from or
\* to.
KeepInv ==
  /\ FailsOnlyLate
  /\ pruning = {}
  /\ \A h \in Heads : HasPath(idxDB, h)
  /\ phase = "coins" => HasPath(idxDB, tip)
  /\ Loaded =>
       /\ HasPath(idx, tip)
       /\ idxDB.data \subseteq idx.data /\ idxDB.undo \subseteq idx.undo

\* The way to the genesis block is empty.
LEMMA PathGenesis == \A i : HasPath(i, Genesis)
BY Tree DEF HasPath

\* The way to a block is the way to its parent and the block.
LEMMA PathParent ==
  ASSUME NEW b \in Block \ {Genesis}, NEW i
  PROVE  HasPath(i, b) <=> HasPath(i, Parent[b]) /\ b \in i.data \cap i.undo
BY SMT, Tree DEF HasPath

\* An index with more data has the way to more blocks.
LEMMA PathMore ==
  ASSUME NEW h, NEW i, NEW j, i.data \subseteq j.data, i.undo \subseteq j.undo, HasPath(i, h)
  PROVE  HasPath(j, h)
BY DEF HasPath

\* The initial node has only the genesis block.
LEMMA KeepInit == Init => KeepInv
<1> SUFFICES ASSUME Init PROVE KeepInv
  OBVIOUS
<1>1. idxDB.data = {} /\ idxDB.undo = {}
  BY DEF Init, WithGenesis, EmptyIdx
<1>2. Heads = {}
  BY Tree DEF Init, Heads, HeadsOf, EmptyDB
<1> QED BY <1>1, <1>2, PathGenesis DEF Init, KeepInv, FailsOnlyLate

\* A block with data and undo data can be undone, unless the undo data was late.
LEMMA UndoneOrLost ==
  ASSUME DiskInv, UndoInv, Loaded, NEW b \in idx.data \cap idx.undo
  PROVE  CanRead(b) /\ (CanUndo(b) \/ UndoLost(b))
BY DEF DiskInv, FilesOK, UndoInv, CanRead, CanUndo, UndoLost

\* A block received, connected or disconnected: the new tip's undo data is written
\* before it is the tip.
LEMMA KeepRunning ==
  ASSUME Types, DiskInv, UndoInv, KeepInv, Heads' \subseteq Heads,
         \/ \E b \in Block \ {Genesis} : AcceptBlock(b)
         \/ \E b \in Block : ConnectTip(b)
         \/ DisconnectTip
  PROVE  KeepInv'
<1>0. idx \in Index /\ tip \in Block
  BY DEF DiskInv, FilesOK, Types
<1>1. ASSUME NEW b \in Block \ {Genesis}, AcceptBlock(b) PROVE KeepInv'
  <2>1. /\ phase = "idle" /\ phase' = "idle" /\ tip' = tip /\ pruning' = pruning
        /\ idx'.data = idx.data \cup {b} /\ idx'.undo = idx.undo /\ idxDB' = idxDB
    BY <1>0, <1>1, AcceptFacts
  <2>2. Loaded /\ Loaded'
    BY <2>1 DEF Loaded, Running
  <2>3. HasPath(idx', tip')
    BY <2>1, <2>2, PathMore DEF KeepInv
  <2> QED BY <2>1, <2>2, <2>3 DEF KeepInv, FailsOnlyLate
<1>2. ASSUME NEW b \in Block, ConnectTip(b) PROVE KeepInv'
  <2>1. /\ phase = "idle" /\ phase' = (IF CanRead(b) THEN "idle" ELSE "failed")
        /\ b # Genesis /\ Parent[b] = tip /\ b \in idx.data
        /\ CanRead(b) => tip' = b /\ b \in idx'.undo
        /\ idx'.data = idx.data /\ idx.undo \subseteq idx'.undo
        /\ UNCHANGED <<pruning, blk, blkSync, idxDB>>
    BY <1>0, <1>2, ConnectFacts
  <2>2. Loaded
    BY <2>1 DEF Loaded, Running
  <2>3. CanRead(b)
    BY <2>1, <2>2 DEF DiskInv, FilesOK, CanRead
  <2>4. phase' = "idle" /\ Loaded'
    BY <2>1, <2>3 DEF Loaded, Running
  <2>5. HasPath(idx', tip')
    <3>1. HasPath(idx', tip)
      BY <2>1, <2>2, PathMore DEF KeepInv
    <3> QED BY <2>1, <2>3, <3>1, PathParent
  <2> QED BY <2>1, <2>2, <2>4, <2>5 DEF KeepInv, FailsOnlyLate
<1>3. ASSUME DisconnectTip PROVE KeepInv'
  <2>1. /\ phase = "idle" /\ tip # Genesis
        /\ CanRead(tip) /\ CanUndo(tip) => tip' = Parent[tip] /\ phase' = phase
        /\ ~(CanRead(tip) /\ CanUndo(tip)) => tip' = tip /\ phase' = "failed"
        /\ UNCHANGED <<idx, idxDB, pruning, blk, rev>>
    BY <1>3 DEF DisconnectTip, files
  <2>2. Loaded
    BY <2>1 DEF Loaded, Running
  <2>3. HasPath(idx, Parent[tip]) /\ tip \in idx.data \cap idx.undo
    BY <1>0, <2>1, <2>2, PathParent DEF KeepInv
  <2>4. CanRead(tip) /\ (CanUndo(tip) \/ UndoLost(tip))
    BY <2>2, <2>3, UndoneOrLost
  <2>5. CASE CanUndo(tip)
    <3>1. tip' = Parent[tip] /\ phase' = "idle" /\ Loaded'
      BY <2>1, <2>4, <2>5 DEF Loaded, Running
    <3> QED BY <2>1, <2>2, <2>3, <3>1 DEF KeepInv, FailsOnlyLate
  <2>6. CASE ~CanUndo(tip)
    <3>1. tip' = tip /\ phase' = "failed"
      BY <2>1, <2>6
    <3>2. FailsOnlyLate'
      BY <2>1, <2>4, <2>6, <3>1 DEF FailsOnlyLate, CanRead, CanUndo, UndoLost
    <3> QED BY <2>1, <3>1, <3>2 DEF KeepInv, Loaded, Running
  <2> QED BY <2>5, <2>6
<1> QED BY <1>1, <1>2, <1>3

\* A flush without pruning: the index on disk takes over all the index in memory
\* has.
LEMMA KeepFlush ==
  ASSUME ~PruneMode, DiskInv, KeepInv, Heads' \subseteq Heads,
         \/ \E F \in SUBSET (0 .. idx.last) : BeginFlush(F)
         \/ WriteBlockIndexDB
         \/ \E f \in pruning : UnlinkPrunedFile(f)
  PROVE  KeepInv'
<1>0. idx \in Index
  BY DEF DiskInv, FilesOK
<1>1. ASSUME NEW F \in SUBSET (0 .. idx.last), BeginFlush(F) PROVE KeepInv'
  <2>1. /\ phase = "idle" /\ phase' = "index" /\ pruning' = {} /\ idx' = Pruned(idx, {})
        /\ tip' = tip /\ idxDB' = idxDB
    BY <1>1 DEF BeginFlush
  <2>2. idx' = idx
    <3>1. [b \in Block |-> IF b \in {} THEN 0 ELSE idx.file[b]] = idx.file
      BY <1>0 DEF Index
    <3>2. Pruned(idx, {}) = [idx EXCEPT !.data = idx.data \ {}, !.undo = idx.undo \ {},
                                        !.file = idx.file]
      BY <1>0, <3>1 DEF Pruned, Index
    <3> QED BY <1>0, <2>1, <3>2 DEF Index
  <2>3. Loaded /\ Loaded'
    BY <2>1 DEF Loaded, Running
  <2> QED BY <2>1, <2>2, <2>3 DEF KeepInv, FailsOnlyLate
<1>2. ASSUME WriteBlockIndexDB PROVE KeepInv'
  <2>1. /\ phase = "index" /\ phase' \in {"unlink", "coins"} /\ idxDB' = idx /\ idx' = idx
        /\ tip' = tip /\ pruning' = pruning
    BY <1>2 DEF WriteBlockIndexDB, mem, files
  <2>2. Loaded /\ Loaded'
    BY <2>1 DEF Loaded, Running
  <2>3. \A h \in Heads' : HasPath(idxDB', h)
    BY <2>1, <2>2, PathMore DEF KeepInv
  <2> QED BY <2>1, <2>2, <2>3 DEF KeepInv, FailsOnlyLate
<1>3. pruning = {}
  BY DEF KeepInv
<1> QED BY <1>1, <1>2, <1>3

\* A batch, and the loops of ReplayBlocks: every block to undo or to apply is
\* there.
LEMMA KeepCoins ==
  ASSUME StorageInv, DiskInv, KeepInv,
         \/ \E S \in SUBSET Outpoint : WritePartialBatch(S)
         \/ WriteFinalBatch
         \/ SyncCoinsDB
         \/ UNCHANGED vars,
         Heads' \subseteq Heads \cup {tip},
         phase # "coins" => Heads' \subseteq Heads
  PROVE  KeepInv'
<1>1. UNCHANGED <<idx, idxDB, pruning, blk, rev, tip>>
  BY DEF WritePartialBatch, WriteFinalBatch, SyncCoinsDB, vars, mem, files
<1>2. phase' = phase \/ (Writing /\ phase' = "idle")
  BY WritingExact DEF WritePartialBatch, WriteFinalBatch, SyncCoinsDB, vars
<1>3. \A h \in Heads' : HasPath(idxDB, h)
  BY DEF KeepInv
<1>4. Loaded' => Loaded
  BY <1>2 DEF Loaded, Running, Writing
<1>5. phase' = "coins" => phase = "coins"
  BY <1>2
<1>6. FailsOnlyLate'
  BY <1>1, <1>2 DEF KeepInv, FailsOnlyLate, CanRead, CanUndo, UndoLost
<1> QED BY <1>1, <1>3, <1>4, <1>5, <1>6 DEF KeepInv

\* The same for the loops of ReplayBlocks.
LEMMA KeepReplay ==
  ASSUME StorageInv, DiskInv, UndoInv, KeepInv, Heads' \subseteq Heads,
         RollbackBlock \/ \E b \in Block : RollforwardBlock(b)
  PROVE  KeepInv'
<1>0. tip \in Block /\ db \in Database
  BY DEF StorageInv, Types
<1>1. phase = "replay" /\ UNCHANGED <<idx, idxDB, pruning, blk, rev>>
  BY DEF RollbackBlock, RollforwardBlock, files
<1>2. Loaded /\ db.heads # <<>>
  BY <1>1 DEF Loaded, StorageInv, ViewOK
<1>3. db.heads[1] \in Block /\ db.heads[1] \in Heads
  BY <1>0, <1>2, DatabaseFields DEF Heads, HeadsOf
<1>4. HasPath(idx, tip) /\ HasPath(idx, db.heads[1])
  <2>1. HasPath(idxDB, db.heads[1])
    BY <1>3 DEF KeepInv
  <2> QED BY <1>2, <2>1, PathMore DEF KeepInv
<1>5. ASSUME RollbackBlock
      PROVE  \/ phase' = "replay" /\ HasPath(idx, tip')
             \/ phase' = "failed" /\ FailsOnlyLate'
  <2>1. /\ tip \notin Chain[db.heads[1]]
        /\ CanRead(tip) /\ CanUndo(tip) => tip' = Parent[tip] /\ phase' = phase
        /\ ~(CanRead(tip) /\ CanUndo(tip)) => tip' = tip /\ phase' = "failed"
    BY <1>5 DEF RollbackBlock
  <2>2. tip # Genesis
    BY <1>3, <2>1, Tree
  <2>3. HasPath(idx, Parent[tip]) /\ tip \in idx.data \cap idx.undo
    BY <1>0, <1>4, <2>2, PathParent
  <2>4. CanRead(tip) /\ (CanUndo(tip) \/ UndoLost(tip))
    BY <1>2, <2>3, UndoneOrLost
  <2>5. CASE CanUndo(tip)
    BY <1>1, <2>1, <2>3, <2>4, <2>5
  <2>6. CASE ~CanUndo(tip)
    BY <1>1, <2>1, <2>4, <2>6 DEF FailsOnlyLate, CanRead, CanUndo, UndoLost
  <2> QED BY <2>5, <2>6
<1>6. ASSUME NEW b \in Block, RollforwardBlock(b) PROVE phase' = "replay" /\ HasPath(idx, tip')
  <2>1. /\ b \in Chain[db.heads[1]] \ {Genesis} /\ Parent[b] = tip
        /\ CanRead(b) => tip' = b /\ phase' = phase
    BY <1>6 DEF RollforwardBlock
  <2>2. b \in idx.data \cap idx.undo
    BY <1>4, <2>1 DEF HasPath
  <2>3. CanRead(b)
    BY <1>2, <2>2 DEF DiskInv, FilesOK, CanRead
  <2>4. HasPath(idx, b)
    BY <1>4, <2>1, <2>2, PathParent
  <2> QED BY <1>1, <2>1, <2>3, <2>4
<1>7. CASE phase' = "replay" /\ HasPath(idx, tip')
  BY <1>1, <1>2, <1>7 DEF KeepInv, FailsOnlyLate
<1>8. CASE phase' = "failed" /\ FailsOnlyLate'
  BY <1>1, <1>8 DEF KeepInv, Loaded, Running
<1> QED BY <1>5, <1>6, <1>7, <1>8

\* A crash, and the start-up after it, which finds every file and every block the
\* coins database names.
LEMMA KeepRecovery ==
  ASSUME Types, DiskInv, KeepInv, Heads' \subseteq Heads,
         Crash \/ PowerLoss \/ Restart
  PROVE  KeepInv'
<1>1. CASE Crash \/ PowerLoss
  <2>1. phase' = "down" /\ pruning' = {} /\ idxDB' = idxDB
    BY <1>1 DEF Crash, PowerLoss, LoseMemory
  <2> QED BY <2>1 DEF KeepInv, FailsOnlyLate, Loaded, Running
<1>2. CASE Restart
  <2> DEFINE i == WithGenesis(idxDB)
  <2>1. /\ phase = "down" /\ idxDB' = idxDB /\ pruning' = pruning
        /\ CanStart(i) =>
             /\ phase' = IF db.heads = <<>> THEN "idle" ELSE "replay"
             /\ tip' = LET start == IF db.heads = <<>> THEN db.best ELSE db.heads[2]
                       IN  IF start = Null THEN Genesis ELSE start
             /\ idx' = i
    BY <1>2 DEF Restart
  <2>2. /\ i.known = idxDB.known \cup {Genesis} /\ idxDB.data \subseteq i.data
        /\ i.undo = idxDB.undo
    BY WithGenesisFacts DEF DiskInv, FilesOK, IndexOK
  <2> HIDE DEF i
  <2>3. FilesPresent
    <3>1. ASSUME NEW b \in idxDB.data PROVE Of(blk, idxDB.file[b]) # {}
      <4>1. <<idxDB.file[b], b>> \in blk
        BY DEF DiskInv, FilesOK, IndexBacked
      <4> QED BY SMT, <4>1 DEF Of
    <3> QED BY <3>1 DEF FilesPresent
  <2>4. /\ db.best \in Head
        /\ db.heads # <<>> => db.heads[1] \in Block /\ db.heads[2] \in Head
    BY DatabaseFields DEF Types
  <2>5. CanStart(i)
    <3>1. Heads \subseteq i.known
      BY <2>2 DEF DiskInv, IndexOK
    <3>2. \A h \in HeadsOf(db) : h = Null \/ h \in Heads \/ h \notin Head
      BY DEF Heads, Head
    <3> QED BY <2>3, <2>4, <3>1, <3>2, Tree DEF CanStart, Known, HeadsOf, Head
  <2>6. tip' = Genesis \/ tip' \in Heads
    BY <2>1, <2>4, <2>5 DEF Heads, HeadsOf, Head
  <2>7. HasPath(idx', tip')
    <3>1. HasPath(idxDB, tip')
      BY <2>6, PathGenesis DEF KeepInv
    <3> QED BY <2>1, <2>2, <2>5, <3>1, PathMore
  <2> QED BY <2>1, <2>2, <2>5, <2>7 DEF KeepInv, FailsOnlyLate
<1> QED BY <1>1, <1>2

\* KeepInv is inductive, given the others.
LEMMA KeepStep ==
  ASSUME ~PruneMode, StorageInv, DiskInv, UndoInv, KeepInv, [Next]_vars
  PROVE  KeepInv'
<1>1. Heads' \subseteq Heads \cup {tip} /\ (phase # "coins" => Heads' \subseteq Heads)
  BY HeadsStep
<1>2. Types
  BY DEF StorageInv
<1>3. CASE \/ \E b \in Block \ {Genesis} : AcceptBlock(b)
           \/ \E b \in Block : ConnectTip(b)
           \/ DisconnectTip
  <2>1. phase = "idle"
    BY <1>3 DEF AcceptBlock, ConnectTip, DisconnectTip
  <2> QED BY <1>1, <1>2, <1>3, <2>1, KeepRunning
<1>4. CASE \/ \E F \in SUBSET (0 .. idx.last) : BeginFlush(F)
           \/ WriteBlockIndexDB
           \/ \E f \in pruning : UnlinkPrunedFile(f)
  <2>1. phase # "coins"
    BY <1>4 DEF BeginFlush, WriteBlockIndexDB, UnlinkPrunedFile
  <2> QED BY <1>1, <1>4, <2>1, KeepFlush
<1>5. CASE \/ \E S \in SUBSET Outpoint : WritePartialBatch(S)
           \/ WriteFinalBatch
           \/ SyncCoinsDB
           \/ UNCHANGED vars
  BY <1>1, <1>5, KeepCoins
<1>6. CASE RollbackBlock \/ \E b \in Block : RollforwardBlock(b)
  <2>1. phase = "replay"
    BY <1>6 DEF RollbackBlock, RollforwardBlock
  <2> QED BY <1>1, <1>6, <2>1, KeepReplay
<1>7. CASE Crash \/ PowerLoss \/ Restart
  <2>1. db' \in {db, durable} /\ durable' = durable
    BY <1>7 DEF Crash, PowerLoss, LoseMemory, Restart
  <2>2. Heads' \subseteq Heads
    BY <2>1 DEF Heads, HeadsOf
  <2> QED BY <1>2, <1>7, <2>2, KeepRecovery
<1> QED BY <1>3, <1>4, <1>5, <1>6, <1>7 DEF Next

THEOREM KeepInvariant ==
  ~PruneMode => (Spec => [](StorageInv /\ DiskInv /\ UndoInv /\ KeepInv))
<1> SUFFICES ASSUME ~PruneMode PROVE Spec => [](StorageInv /\ DiskInv /\ UndoInv /\ KeepInv)
  OBVIOUS
<1> DEFINE Inv == StorageInv /\ DiskInv /\ UndoInv /\ KeepInv
<1>1. Init => Inv
  BY StorageInit, DiskInit, UndoInit, KeepInit
<1>2. Inv /\ [Next]_vars => Inv'
  BY StorageStep, DiskStep, UndoStep, KeepStep
<1> QED BY <1>1, <1>2, PTL DEF Spec

\* A node that does not prune is stopped, at a start-up or in a change of the tip,
\* by nothing but late undo data that a power loss took: no missing file, block or
\* index entry, no undo data of the last file and no assertion in BatchWrite stops
\* it, whatever the tree, the files and the crashes.
THEOREM StorageFailsOnlyLate == ~PruneMode => (Spec => []FailsOnlyLate)
<1>1. KeepInv => FailsOnlyLate
  BY DEF KeepInv
<1> QED BY <1>1, KeepInvariant, PTL

\* All undo data the indexes claim is in the files.
AllUndo ==
  /\ \A b \in idxDB.undo : <<idxDB.file[b], b>> \in rev
  /\ \A b \in idx.undo : <<idx.file[b], b>> \in rev
  /\ phase = "down" => idx.undo = {}

\* Only a power loss takes undo data.
LEMMA AllUndoStep ==
  ASSUME ~PruneMode, DiskInv, UndoInv, KeepInv, AllUndo, [Next]_vars, ~PowerLoss
  PROVE  AllUndo'
<1>0. idx \in Index /\ idxDB \in Index /\ pruning = {}
  BY DEF DiskInv, FilesOK, KeepInv
<1>1. ASSUME NEW b \in Block \ {Genesis}, AcceptBlock(b) PROVE AllUndo'
  <2>1. /\ phase = "idle" /\ phase' = "idle" /\ b \notin idx.data /\ idx'.undo = idx.undo
        /\ \A c \in Block \ {b} : idx'.file[c] = idx.file[c]
        /\ rev' = rev /\ idxDB' = idxDB
    BY <1>0, <1>1, AcceptFacts
  <2>2. \A c \in idx.undo : c \in Block \ {b}
    BY <1>0, <2>1 DEF UndoInv, Loaded, Running, Index
  <2> QED BY <2>1, <2>2 DEF AllUndo
<1>2. ASSUME NEW b \in Block, ConnectTip(b) PROVE AllUndo'
  <2>1. /\ phase' # "down"
        /\ idx'.file = idx.file /\ idx'.undo \subseteq idx.undo \cup {b} /\ rev \subseteq rev'
        /\ b \in idx'.undo => b \in idx.undo \/ <<idx.file[b], b>> \in rev'
        /\ idxDB' = idxDB
    BY <1>0, <1>2, ConnectFacts
  <2> QED BY <2>1 DEF AllUndo
<1>3. ASSUME NEW F \in SUBSET (0 .. idx.last), BeginFlush(F) PROVE AllUndo'
  <2>1. /\ phase = "idle" /\ phase' = "index" /\ F = {} /\ idx' = Pruned(idx, F) /\ idxDB' = idxDB /\ rev' = rev
    BY <1>3 DEF BeginFlush
  <2>2. /\ idx'.undo \subseteq idx.undo
        /\ idx'.data = {b \in idx.data : idx.file[b] \notin F}
        /\ \A b \in idx'.data : idx'.file[b] = idx.file[b]
    BY SMT, <1>0, <2>1, PrunedFacts
  <2>3. idx.undo \subseteq idx.data
    BY <2>1 DEF UndoInv, Loaded, Running
  <2> QED BY <2>1, <2>2, <2>3 DEF AllUndo
<1>4. ASSUME Restart PROVE AllUndo'
  <2> DEFINE i == WithGenesis(idxDB)
  <2>1. /\ idxDB' = idxDB /\ rev' = RevOf(i, rev)
        /\ phase = "down" /\ phase' # "down" /\ idx' \in {i, idx}
    BY <1>4 DEF Restart
  <2>2. i.undo = idxDB.undo /\ i.file = idxDB.file
    BY WithGenesisFacts DEF DiskInv, FilesOK, IndexOK
  <2>3. phase = "down" => idx.undo = {}
    BY DEF AllUndo
  <2> HIDE DEF i
  <2> QED BY <2>1, <2>2, <2>3 DEF AllUndo, RevOf
<1>5. CASE Crash
  BY <1>5 DEF Crash, LoseMemory, AllUndo, EmptyIdx
<1>6. CASE \/ DisconnectTip \/ SyncCoinsDB \/ RollbackBlock \/ WriteFinalBatch
           \/ WriteBlockIndexDB
           \/ \E S \in SUBSET Outpoint : WritePartialBatch(S)
           \/ \E b \in Block : RollforwardBlock(b)
           \/ UNCHANGED vars
  <2>1. idx' = idx /\ rev' = rev /\ idxDB' \in {idx, idxDB} /\ (phase' = "down" => phase = "down")
    BY <1>6 DEF DisconnectTip, SyncCoinsDB, RollbackBlock, WriteFinalBatch, WriteBlockIndexDB,
                WritePartialBatch, RollforwardBlock, vars, mem, files
  <2> QED BY <2>1 DEF AllUndo
<1> QED BY <1>0, <1>1, <1>2, <1>3, <1>4, <1>5, <1>6 DEF Next

\* A node that does not prune and only ever loses its process, not its machine, is
\* never stopped, however many block files it has and however late undo data is
\* written.
THEOREM CrashNeverFails == ~PruneMode => (Spec /\ [][~PowerLoss]_vars => [](phase # "failed"))
<1> SUFFICES ASSUME ~PruneMode PROVE Spec /\ [][~PowerLoss]_vars => [](phase # "failed")
  OBVIOUS
<1> DEFINE Inv == StorageInv /\ DiskInv /\ UndoInv /\ KeepInv /\ AllUndo
<1>1. Init => Inv
  <2>1. Init => AllUndo
    BY DEF Init, AllUndo, WithGenesis, EmptyIdx
  <2> QED BY <2>1, StorageInit, DiskInit, UndoInit, KeepInit
<1>2. Inv /\ [Next]_vars /\ [~PowerLoss]_vars => Inv'
  <2> SUFFICES ASSUME Inv, [Next]_vars, [~PowerLoss]_vars PROVE Inv'
    OBVIOUS
  <2>1. ~PowerLoss
    <3>1. ASSUME PowerLoss, UNCHANGED vars PROVE FALSE
      BY <3>1 DEF PowerLoss, LoseMemory, vars
    <3> QED BY <3>1
  <2> QED BY <2>1, StorageStep, DiskStep, UndoStep, KeepStep, AllUndoStep
<1>3. Inv => phase # "failed"
  BY DEF KeepInv, FailsOnlyLate, UndoLost, CanUndo, AllUndo
<1> QED BY <1>1, <1>2, <1>3, PTL DEF Spec
=============================================================================
