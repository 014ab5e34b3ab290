-------------------------- MODULE ChainStateProofs --------------------------
(***************************************************************************)
(* The block index, the candidates and the tip, for every block tree,      *)
(* every set of arguments of the RPCs and every interleaving.              *)
(*                                                                         *)
(* Facts about chains, which are defined by recursion, are proved along    *)
(* the tree: a set of blocks that contains Genesis and, with the parent of *)
(* a block, the block contains all of them (BlockInduction).               *)
(*                                                                         *)
(* The first part: no block of the active chain is ever marked as failed,  *)
(* and only blocks that descend from a culprit are. Neither is inductive.  *)
(* pindexMostWork survives the release of cs_main, so the invariant says   *)
(* that its whole chain has data and has not failed; a block is marked by  *)
(* AcceptBlock only while it has no data, hence never below a candidate,   *)
(* the tip or pindexMostWork. For InvalidateBlock it says that the block   *)
(* to mark descends from the block it was called with.                     *)
(*                                                                         *)
(* The other parts build on it, each with an invariant of its own: the     *)
(* types (Parts), the descendants of failed blocks (Closed), the           *)
(* candidates against the tip and the tip cs_main was taken with (Ranked), *)
(* what InvalidateBlock has collected (Collection), what can be activated  *)
(* against the candidates (Complete, Most), the sequence numbers           *)
(* (Numbers), the causes of failures (Blamed), the links (Shadow,          *)
(* Gathered, Waiting, Gapless) and the best header (Searched, HeaderInv,   *)
(* with the history variable of ChainGaps). HeldProgress, what every step  *)
(* under cs_main brings, needs the first part only. What an RPC can undo   *)
(* enters as a condition on the calls: on preciousblock TipKept (which     *)
(* OnePrecious implies), on reconsiderblock CarefulReset and NothingLost.  *)
(* The run that checks those properties satisfies them.                    *)
(*                                                                         *)
(* Facts that several parts use are lemmas. What only one part uses, as a  *)
(* rule how one operation keeps its invariant, is a named step of the      *)
(* lemma that combines them (<1>ConnectStep in StateStep).                 *)
(***************************************************************************)
EXTENDS ChainGaps, FiniteSetTheorems, WellFoundedInduction, TLAPS

\* Most of the steps need no arithmetic; the others say SMT.
USE ZenonT(30)

Types ==
    /\ verdict \in Verdicts
    /\ known \in SUBSET Block /\ data \in SUBSET Block
    /\ linked \in SUBSET Block /\ unlinked \in SUBSET data
    /\ failedValid \in SUBSET Block /\ failedChild \in SUBSET Block
    /\ cand \in SUBSET Block /\ tip \in Block
    /\ abc \in [mostWork : Block \cup {Null}, start : Block \cup {Null},
                old : Block \cup {Null}]
    /\ inv \in [pindex : Block \cup {Null}, toMark : Block \cup {Null},
                wasInChain : BOOLEAN, highpow : SUBSET Block]
    /\ invalidated \in SUBSET Invalidable

\* What can become the tip has data down to Genesis.
Backed ==
    /\ \A b \in cand \cup linked \cup {tip} : Chain[b] \subseteq data
    /\ abc.mostWork # Null => Chain[abc.mostWork] \subseteq data

\* The branch ActivateBestChain works towards has not failed.
PathValid == abc.mostWork # Null => Chain[abc.mostWork] \cap Failed = {}

\* Which call holds m_chainstate_mutex, and what its locals point at.
Owner ==
    /\ proc \in {"idle", "walk"} => abc.mostWork = Null
    /\ proc = "connect" => abc.mostWork # Null
    /\ proc = "walk" => /\ inv.pindex \in Invalidable \cap invalidated
                        /\ inv.toMark \in Block
                        /\ inv.pindex \in Chain[inv.toMark]

Guilty(b) ==
    \E a \in Chain[b] : a \in invalidated \/ verdict[a] # "good"

StateInv ==
    Types /\ Backed /\ PathValid /\ Owner /\ TipValid /\ OnlyGuilty

-----------------------------------------------------------------------------
(***************************************************************************)
(* Facts about the tree and about what one marking reaches                 *)
(***************************************************************************)

\* Every non-empty set of naturals has a least element.
LEMMA LeastNat ==
    ASSUME NEW S \in SUBSET Nat, S # {}
    PROVE  \E n \in S : \A k \in S : ~(k < n)
<1>1. IsWellFoundedOn(OpToRel(<, Nat), Nat)
  BY NatLessThanWellFounded
<1>2. \E n \in S : \A k \in S : ~(<<k, n>> \in OpToRel(<, Nat))
  BY <1>1, WFMin
<1> QED  BY <1>2 DEF OpToRel

\* Induction along the tree: the block with the least work among the
\* exceptions would have a parent that is none.
LEMMA BlockInduction ==
    ASSUME NEW T, Genesis \in T,
           \A b \in Block \ {Genesis} : Parent[b] \in T => b \in T
    PROVE  \A b \in Block : b \in T
<1> DEFINE S == {Work[x] : x \in Block \ T}
<1>1. SUFFICES ASSUME NEW b \in Block, b \notin T PROVE FALSE
  OBVIOUS
<1>2. S \in SUBSET Nat /\ S # {}
  BY SMT, <1>1, WorkAssumption
<1>3. PICK h \in S : \A k \in S : ~(k < h)
  <2> HIDE DEF S
  <2> QED  BY <1>2, LeastNat
<1>4. PICK x \in Block \ T : h = Work[x]
  BY <1>3
<1>5. x \in Block \ {Genesis} /\ Parent[x] \in Block \ T
  BY <1>4, ChainAssumption
<1>6. Work[Parent[x]] < Work[x]
  BY <1>5, WorkAssumption
<1>7. Work[Parent[x]] \in S
  BY <1>5
<1> QED  BY <1>3, <1>4, <1>6, <1>7

\* The least set that has b and the parents of its members.
Up(b) ==
    {a \in Block : \A S \in SUBSET Block :
        b \in S /\ (\A c \in S \ {Genesis} : Parent[c] \in S) => a \in S}

\* These sets solve the equation that defines Chain.
LEMMA UpEquation ==
    /\ Up(Genesis) = {Genesis}
    /\ \A b \in Block \ {Genesis} : Up(b) = Up(Parent[b]) \cup {b}
<1>1. Up(Genesis) = {Genesis}
  <2>1. {Genesis} \in SUBSET Block /\ \A c \in {Genesis} \ {Genesis} : Parent[c] \in {Genesis}
    BY ChainAssumption
  <2>2. Up(Genesis) \subseteq {Genesis}
    BY <2>1 DEF Up
  <2>3. Genesis \in Up(Genesis)
    BY ChainAssumption DEF Up
  <2> QED  BY <2>2, <2>3
<1>2. ASSUME NEW b \in Block \ {Genesis} PROVE Up(b) = Up(Parent[b]) \cup {b}
  <2> DEFINE S == Up(Parent[b]) \cup {b}
  <2>1. Parent[b] \in Block /\ Parent[b] \in Up(Parent[b])
    BY ChainAssumption DEF Up
  <2>2. ASSUME NEW c \in Up(Parent[b]) \ {Genesis} PROVE Parent[c] \in Up(Parent[b])
    <3>1. c \in Block \ {Genesis} /\ Parent[c] \in Block
      BY ChainAssumption DEF Up
    <3> QED  BY <3>1 DEF Up
  <2>3. S \in SUBSET Block /\ \A c \in S \ {Genesis} : Parent[c] \in S
    BY <2>1, <2>2 DEF Up
  <2>4. Up(b) \subseteq S
    <3> HIDE DEF S
    <3>1. b \in S
      BY DEF S
    <3> QED  BY <2>3, <3>1 DEF Up
  <2>5. b \in Up(b)
    BY DEF Up
  <2>6. Up(Parent[b]) \subseteq Up(b)
    BY DEF Up
  <2> QED  BY <2>4, <2>5, <2>6
<1> QED  BY <1>1, <1>2

\* So Chain is a solution.
LEMMA ChainEquation ==
    /\ Chain = [b \in Block |-> Chain[b]]
    /\ Chain[Genesis] = {Genesis}
    /\ \A b \in Block \ {Genesis} : Chain[b] = Chain[Parent[b]] \cup {b}
<1> DEFINE F(h) == [b \in Block |-> IF b = Genesis THEN {Genesis} ELSE h[Parent[b]] \cup {b}]
           C == CHOOSE h : h = F(h)
<1>1. \E h : h = F(h)
  <2> DEFINE h == [b \in Block |-> Up(b)]
  <2>1. ASSUME NEW b \in Block PROVE h[b] = F(h)[b]
    <3>1. CASE b = Genesis
      BY <3>1, UpEquation
    <3>2. CASE b # Genesis
      <4>1. Parent[b] \in Block
        BY <3>2, ChainAssumption
      <4> QED  BY <3>2, <4>1, UpEquation
    <3> QED  BY <3>1, <3>2
  <2>2. h = F(h)
    <3>1. F(h) = [b \in Block |-> F(h)[b]]
      OBVIOUS
    <3> QED  BY <2>1, <3>1
  <2> QED  BY <2>2
<1>2. C = F(C)
  BY <1>1
<1>3. Chain = [b \in Block |-> C[b]]
  BY DEF Chain
<1> HIDE DEF C
<1>4. \A b \in Block : C[b] = IF b = Genesis THEN {Genesis} ELSE C[Parent[b]] \cup {b}
  BY <1>2
<1>5. Chain = [b \in Block |-> Chain[b]]
  BY <1>3
<1>6. ASSUME NEW b \in Block \ {Genesis} PROVE Chain[b] = Chain[Parent[b]] \cup {b}
  <2>1. Parent[b] \in Block
    BY ChainAssumption
  <2> QED  BY <1>3, <1>4, <2>1
<1> QED  BY <1>3, <1>4, <1>5, <1>6, ChainAssumption

\* A block is on its own chain, among blocks.
LEMMA ChainTypes ==
    \A b \in Block : Chain[b] \in SUBSET Block /\ b \in Chain[b]
<1> DEFINE T == {b \in Block : Chain[b] \in SUBSET Block /\ b \in Chain[b]}
<1>1. Genesis \in T
  BY ChainEquation, ChainAssumption
<1>2. ASSUME NEW b \in Block \ {Genesis}, Parent[b] \in T PROVE b \in T
  <2>1. Chain[b] = Chain[Parent[b]] \cup {b}
    BY ChainEquation
  <2> QED  BY <1>2, <2>1
<1> HIDE DEF T
<1>3. \A b \in Block : b \in T
  BY <1>1, <1>2, BlockInduction
<1> QED  BY <1>3 DEF T

\* Every chain starts at Genesis.
LEMMA GenesisBelow ==
    \A b \in Block : Genesis \in Chain[b]
<1> DEFINE T == {b \in Block : Genesis \in Chain[b]}
<1>1. Genesis \in T
  BY ChainEquation, ChainAssumption
<1>2. ASSUME NEW b \in Block \ {Genesis}, Parent[b] \in T PROVE b \in T
  <2>1. Chain[b] = Chain[Parent[b]] \cup {b}
    BY ChainEquation
  <2> QED  BY <1>2, <2>1
<1> HIDE DEF T
<1>3. \A b \in Block : b \in T
  BY <1>1, <1>2, BlockInduction
<1> QED  BY <1>3 DEF T

\* Work grows along a chain.
LEMMA LighterBelow ==
    \A b \in Block : \A c \in Chain[b] : c = b \/ Work[c] < Work[b]
<1> DEFINE T == {b \in Block : \A c \in Chain[b] : c = b \/ Work[c] < Work[b]}
<1>1. Genesis \in T
  BY ChainEquation, ChainAssumption
<1>2. ASSUME NEW b \in Block \ {Genesis}, Parent[b] \in T PROVE b \in T
  <2> SUFFICES ASSUME NEW c \in Chain[b], c # b PROVE Work[c] < Work[b]
    OBVIOUS
  <2>1. c \in Chain[Parent[b]] /\ Parent[b] \in Block
    <3>1. Chain[b] = Chain[Parent[b]] \cup {b}
      BY ChainEquation
    <3> QED  BY <3>1, ChainAssumption
  <2>2. c \in Block
    BY ChainTypes, <2>1
  <2>3. c = Parent[b] \/ Work[c] < Work[Parent[b]]
    BY <1>2, <2>1
  <2>4. Work[c] \in Nat /\ Work[Parent[b]] \in Nat /\ Work[b] \in Nat /\ Work[Parent[b]] < Work[b]
    BY <2>1, <2>2, WorkAssumption
  <2> QED  BY SMT, <2>3, <2>4
<1> HIDE DEF T
<1>3. \A b \in Block : b \in T
  BY <1>1, <1>2, BlockInduction
<1> QED  BY <1>3 DEF T

\* The chains of the tree: the chain of an ancestor is part of a block's chain,
\* and of two ancestors one is on the chain of the other.
LEMMA ChainTree ==
    /\ Genesis \in Block
    /\ Parent \in [Block \ {Genesis} -> Block]
    /\ Chain \in [Block -> SUBSET Block]
    /\ Chain[Genesis] = {Genesis}
    /\ \A b \in Block \ {Genesis} : /\ b \notin Chain[Parent[b]]
                                    /\ Chain[b] = Chain[Parent[b]] \cup {b}
    /\ \A b \in Block : \A c \in Chain[b] : Chain[c] \subseteq Chain[b]
    /\ \A b \in Block : \A c, d \in Chain[b] : c \in Chain[d] \/ d \in Chain[c]
    /\ Null \notin Block
<1>1. ASSUME NEW b \in Block \ {Genesis} PROVE b \notin Chain[Parent[b]]
  <2>1. Parent[b] \in Block
    BY ChainAssumption
  <2>2. Work[Parent[b]] \in Nat /\ Work[b] \in Nat /\ Work[Parent[b]] < Work[b]
    BY <2>1, WorkAssumption
  <2>3. b \in Chain[Parent[b]] => b = Parent[b] \/ Work[b] < Work[Parent[b]]
    BY LighterBelow, <2>1
  <2> QED  BY SMT, <2>2, <2>3
<1>2. \A b \in Block : \A c \in Chain[b] : Chain[c] \subseteq Chain[b]
  <2> DEFINE T == {b \in Block : \A c \in Chain[b] : Chain[c] \subseteq Chain[b]}
  <2>1. Genesis \in T
    BY ChainEquation, ChainAssumption
  <2>2. ASSUME NEW b \in Block \ {Genesis}, Parent[b] \in T PROVE b \in T
    <3>1. Chain[b] = Chain[Parent[b]] \cup {b}
      BY ChainEquation
    <3> QED  BY <2>2, <3>1
  <2> HIDE DEF T
  <2>3. \A b \in Block : b \in T
    BY <2>1, <2>2, BlockInduction
  <2> QED  BY <2>3 DEF T
<1>3. \A b \in Block : \A c, d \in Chain[b] : c \in Chain[d] \/ d \in Chain[c]
  <2> DEFINE T == {b \in Block : \A c, d \in Chain[b] : c \in Chain[d] \/ d \in Chain[c]}
  <2>1. Genesis \in T
    BY ChainEquation, ChainAssumption
  <2>2. ASSUME NEW b \in Block \ {Genesis}, Parent[b] \in T PROVE b \in T
    <3>1. Chain[b] = Chain[Parent[b]] \cup {b}
      BY ChainEquation
    <3>2. \A c \in Chain[Parent[b]] : c \in Chain[b]
      BY <3>1
    <3> QED  BY <2>2, <3>1, <3>2
  <2> HIDE DEF T
  <2>3. \A b \in Block : b \in T
    BY <2>1, <2>2, BlockInduction
  <2> QED  BY <2>3 DEF T
<1>4. Chain \in [Block -> SUBSET Block]
  <2>1. Chain = [b \in Block |-> Chain[b]]
    BY ChainEquation
  <2> QED  BY ChainTypes, <2>1
<1> QED  BY <1>1, <1>2, <1>3, <1>4, ChainEquation, ChainAssumption

\* Chains contain their own last block and the chains of their blocks, and
\* two blocks of a chain are comparable.
LEMMA TreeFacts ==
    /\ \A b \in Block : b \in Chain[b] /\ Chain[b] \in SUBSET Block
    /\ \A b \in Block : \A c \in Chain[b] : Chain[c] \subseteq Chain[b]
    /\ \A b \in Block : \A c, d \in Chain[b] : c \in Chain[d] \/ d \in Chain[c]
    /\ \A b \in Block \ {Genesis} :
          /\ Parent[b] \in Block /\ b \notin Chain[Parent[b]]
          /\ Chain[b] = Chain[Parent[b]] \cup {b}
    /\ Genesis \in Block /\ Null \notin Block
<1>1. ASSUME NEW b \in Block PROVE b \in Chain[b] /\ Chain[b] \in SUBSET Block
  <2>1. Chain[b] \in SUBSET Block
    BY ChainTree
  <2>2. CASE b = Genesis
    BY <2>2, ChainTree
  <2>3. CASE b # Genesis
    BY <2>3, ChainTree
  <2> QED  BY <2>1, <2>2, <2>3
<1>2. ASSUME NEW b \in Block \ {Genesis}
      PROVE  /\ Parent[b] \in Block /\ b \notin Chain[Parent[b]]
             /\ Chain[b] = Chain[Parent[b]] \cup {b}
  BY ChainTree
<1> QED  BY <1>1, <1>2, ChainTree

\* The invariant holds when only Genesis is known.
LEMMA InitInv == Init => StateInv
<1> SUFFICES ASSUME Init PROVE StateInv
  OBVIOUS
<1>1. Types
  <2>1. abc \in [mostWork : Block \cup {Null}, start : Block \cup {Null},
                 old : Block \cup {Null}]
    BY DEF Init, NoCall
  <2>2. inv \in [pindex : Block \cup {Null}, toMark : Block \cup {Null},
                 wasInChain : BOOLEAN, highpow : SUBSET Block]
    BY DEF Init, NoHighpow
  <2> QED  BY <2>1, <2>2, TreeFacts DEF Init, Types
<1>2. abc.mostWork = Null
  BY DEF Init, NoCall
<1>3. Chain[Genesis] = {Genesis}
  BY ChainTree
<1>4. Backed /\ PathValid
  BY <1>2, <1>3 DEF Init, Backed, PathValid
<1>5. Owner
  BY <1>2 DEF Init, Owner
<1>6. TipValid /\ OnlyGuilty
  BY DEF Init, TipValid, OnlyGuilty, Failed
<1> QED  BY <1>1, <1>4, <1>5, <1>6 DEF StateInv

-----------------------------------------------------------------------------
(***************************************************************************)
(* Every step keeps the invariant.                                         *)
(***************************************************************************)
\* StateInv is inductive: one case per operation of Chainstate.
LEMMA StateStep == StateInv /\ [Next]_vars => StateInv'

\* SetBlockFailureFlags(n) reaches no block of a chain that n is not on.
<1>MarkedOffChain. ASSUME NEW n \in Block, NEW t \in Block, n \notin Chain[t]
                   PROVE  Chain[t] \cap ({n} \cup Descendants(n)) = {}
  BY <1>MarkedOffChain, TreeFacts DEF Descendants

\* What SetBlockFailureFlags marks below a guilty block is guilty.
<1>MarkedGuilty. ASSUME Types, NEW n \in Block, Guilty(n),
                        NEW c \in {n} \cup Descendants(n)
                 PROVE  Guilty(c) /\ c \in Block
  BY <1>MarkedGuilty, TreeFacts DEF Descendants, Guilty, Types

\* A descendant of a guilty block is guilty.
<1>BelowGuilty. ASSUME NEW n \in Block, NEW c \in Block, n \in Chain[c], Guilty(n)
                PROVE  Guilty(c)
  BY <1>BelowGuilty, TreeFacts DEF Guilty

\* OnlyGuilty in terms of Guilty.
<1>OnlyGuiltyIs. OnlyGuilty <=> \A b \in Failed : Guilty(b)
  BY DEF OnlyGuilty, Guilty

\* Blocks and headers arrive.
\*
\* The parts of the invariant are kept by a step that marks nothing, moves
\* neither the tip nor the locals, and backs what it adds to the candidates.
<1>QuietStep. ASSUME StateInv, Types',
                     verdict' = verdict, tip' = tip, abc' = abc, proc' = proc, inv' = inv,
                     invalidated' = invalidated,
                     Failed' \subseteq Failed, data \subseteq data',
                     \A b \in cand' \cup linked' :
                         b \in cand \cup linked \/ Chain[b] \subseteq data'
              PROVE  StateInv'
  <2> USE <1>QuietStep
  <2>1. Backed'
    BY DEF StateInv, Backed, Types
  <2>2. PathValid' /\ TipValid'
    BY DEF StateInv, PathValid, TipValid
  <2>3. Owner'
    BY DEF StateInv, Owner
  <2>4. OnlyGuilty'
    BY DEF StateInv, OnlyGuilty
  <2> QED  BY <2>1, <2>2, <2>3, <2>4 DEF StateInv

\* A header joins the index without disturbing the flags or the active chain.
<1>HeadersStep. ASSUME StateInv, NEW b \in Block \ {Genesis}, ProcessNewBlockHeaders(b)
                PROVE  StateInv'
  <2> USE <1>HeadersStep
  <2>1. Types'
    BY DEF StateInv, Types, ProcessNewBlockHeaders, flags, order
  <2>2. Failed' = Failed
    BY DEF Failed, ProcessNewBlockHeaders, flags
  <2> QED  BY <2>1, <2>2, <1>QuietStep DEF ProcessNewBlockHeaders

\* Link backs every block it links.
<1>LinkBacked. ASSUME StateInv, NEW b \in Block \ {Genesis}, Parent[b] \in linked,
                      data' = data \cup {b}, Link(b)
               PROVE  /\ linked' \in SUBSET Block /\ cand' \in SUBSET Block
                      /\ unlinked' \in SUBSET data'
                      /\ \A c \in cand' \cup linked' :
                             c \in cand \cup linked \/ Chain[c] \subseteq data'
  <2> USE <1>LinkBacked
  <2> DEFINE L == NewlyLinked(b)
  <2>1. linked' = linked \cup L /\ unlinked' = unlinked \ L
        /\ cand' \subseteq cand \cup L
    BY DEF Link
  <2>2. L \subseteq Block
    BY DEF NewlyLinked, StateInv, Types
  <2>3. Chain[b] \subseteq data'
    <3>1. Chain[b] = Chain[Parent[b]] \cup {b}
      BY TreeFacts
    <3>2. Chain[Parent[b]] \subseteq data
      BY DEF StateInv, Backed
    <3> QED  BY <3>1, <3>2
  <2>4. ASSUME NEW c \in L PROVE Chain[c] \subseteq data'
    BY <2>3 DEF NewlyLinked, StateInv, Types
  <2> HIDE DEF L
  <2> QED  BY <2>1, <2>2, <2>4 DEF StateInv, Types

\* A step that marks n, which is on neither the active chain nor the
\* branch being activated, and its descendants.
<1>MarkStep. ASSUME StateInv, Types', Owner',
                    verdict' = verdict, data' = data, linked' = linked,
                    invalidated' = invalidated,
                    NEW n \in Block, Guilty(n), Failed' \subseteq
                        Failed \cup {n} \cup Descendants(n),
                    n \notin Chain[tip], tip' = tip,
                    cand' \subseteq cand \cup linked,
                    abc'.mostWork = Null \/ (/\ abc'.mostWork = abc.mostWork
                                             /\ n \notin Chain[abc.mostWork])
             PROVE  StateInv'
  <2> USE <1>MarkStep
  <2>1. Backed'
    BY DEF StateInv, Backed
  <2>2. TipValid'
    BY <1>MarkedOffChain DEF StateInv, TipValid, Types
  <2>3. PathValid'
    <3>1. CASE abc'.mostWork = Null
      BY <3>1 DEF PathValid
    <3>2. CASE abc'.mostWork # Null
      <4>1. abc.mostWork \in Block /\ abc'.mostWork = abc.mostWork
            /\ n \notin Chain[abc.mostWork]
        BY <3>2 DEF StateInv, Types
      <4>2. Chain[abc.mostWork] \cap Failed = {}
        BY <3>2, <4>1 DEF StateInv, PathValid
      <4>3. Chain[abc.mostWork] \cap ({n} \cup Descendants(n)) = {}
        BY <4>1, <1>MarkedOffChain
      <4> QED  BY <4>1, <4>2, <4>3 DEF PathValid
    <3> QED  BY <3>1, <3>2
  <2>4. OnlyGuilty'
    <3>1. ASSUME NEW b \in Failed' PROVE Guilty(b)
      BY <1>MarkedGuilty, <1>OnlyGuiltyIs DEF StateInv
    <3>2. ASSUME NEW b \in Failed' PROVE Guilty(b)'
      BY <3>1 DEF Guilty
    <3> QED  BY <3>2 DEF OnlyGuilty, Guilty
  <2> QED  BY <2>1, <2>2, <2>3, <2>4 DEF StateInv

\* A block that arrives, linked or not, keeps the invariant; a block that fails
\* its context-free checks is off the active chain, since it had no data.
<1>ProcessBlockStep. ASSUME StateInv, NEW b \in Block \ {Genesis}, NEW requested \in BOOLEAN,
                            ProcessNewBlock(b, requested)
                     PROVE  StateInv'
  <2> USE <1>ProcessBlockStep
  <2> USE DEF StateInv
  <2>a. /\ verdict' = verdict /\ tip' = tip /\ proc' = proc /\ abc' = abc
        /\ inv' = inv /\ invalidated' = invalidated /\ known' \in SUBSET Block
    BY DEF ProcessNewBlock, Types
  <2>b. \/ UNCHANGED <<data, linked, unlinked, flags, order, cand>>
        \/ /\ b \notin data /\ verdict[b] = "context" /\ cand' = cand \ {b}
           /\ InvalidChainFound(failedValid \cup {b}, b, b, HeaderAfter(b))
           /\ UNCHANGED <<data, linked, unlinked>>
        \/ ReceivedBlockTransactions(b) /\ UNCHANGED flags
    BY DEF ProcessNewBlock
  <2>1. CASE UNCHANGED <<data, linked, unlinked, flags, order, cand>>
    <3>1. Types' /\ Failed' = Failed
      BY <2>1, <2>a DEF Types, Failed, flags
    <3> QED  BY <2>1, <2>a, <3>1, <1>QuietStep
  <2>2. CASE /\ b \notin data /\ verdict[b] = "context" /\ cand' = cand \ {b}
             /\ InvalidChainFound(failedValid \cup {b}, b, b, HeaderAfter(b))
             /\ UNCHANGED <<data, linked, unlinked>>
    <3>1. /\ failedValid' = (failedValid \cup {b}) \ Descendants(b)
          /\ failedChild' = failedChild \cup Descendants(b)
      BY <2>2 DEF InvalidChainFound
    <3>2. Descendants(b) \subseteq Block
      BY DEF Descendants, Types
    <3>3. Types' /\ Failed' \subseteq Failed \cup {b} \cup Descendants(b)
      BY <2>2, <2>a, <3>1, <3>2 DEF Types, Failed
    <3>4. Owner'
      BY <2>a DEF Owner
    <3>5. Guilty(b)
      BY <2>2, TreeFacts DEF Guilty
    <3>6. b \notin Chain[tip]
      BY <2>2 DEF Backed
    <3>7. abc.mostWork # Null => b \notin Chain[abc.mostWork]
      BY <2>2 DEF Backed
    <3> QED  BY <2>2, <2>a, <3>3, <3>4, <3>5, <3>6, <3>7, <1>MarkStep
  <2>3. CASE ReceivedBlockTransactions(b) /\ UNCHANGED flags
    <3>1. data' = data \cup {b} /\ Failed' = Failed
          /\ failedValid' = failedValid /\ failedChild' = failedChild
      BY <2>3 DEF ReceivedBlockTransactions, Failed, flags
    <3>2. CASE Parent[b] \in linked
      <4>1. Link(b)
        BY <2>3, <3>2 DEF ReceivedBlockTransactions
      <4>2. /\ linked' \in SUBSET Block /\ cand' \in SUBSET Block
            /\ unlinked' \in SUBSET data'
            /\ \A c \in cand' \cup linked' :
                  c \in cand \cup linked \/ Chain[c] \subseteq data'
        BY <3>1, <3>2, <4>1, <1>LinkBacked
      <4>3. Types'
        BY <2>a, <3>1, <4>2 DEF Types
      <4> QED  BY <2>a, <3>1, <4>2, <4>3, <1>QuietStep
    <3>3. CASE Parent[b] \notin linked
      <4>1. linked' = linked /\ cand' = cand /\ unlinked' \subseteq unlinked \cup {b}
        BY <2>3, <3>3 DEF ReceivedBlockTransactions
      <4>2. Types'
        BY <2>a, <3>1, <4>1 DEF Types
      <4> QED  BY <2>a, <3>1, <4>1, <4>2, <1>QuietStep
    <3> QED  BY <3>2, <3>3
  <2> QED  BY <2>b, <2>1, <2>2, <2>3

\* ActivateBestChain.
\*
\* The locals of a call stay well typed and a step that ends leaves
\* pindexMostWork where it was, or cleared.
<1>EndStepLocals. ASSUME Types, NEW t \in Block, NEW m \in Block \cup {Null}, EndStep(t, m)
                  PROVE  /\ abc' \in [mostWork : Block \cup {Null}, start : Block \cup {Null},
                                      old : Block \cup {Null}]
                         /\ abc'.mostWork \in {Null, m}
                         /\ proc' \in {"find", "idle", "released"}
                         /\ proc' = "idle" => abc'.mostWork = Null
  <2> USE <1>EndStepLocals
  <2>1. CASE Worse(seq, t, abc.start)
    <3>1. proc' = "find" /\ abc' = [abc EXCEPT !.mostWork = m, !.old = Null]
      BY <2>1 DEF EndStep
    <3> QED  BY <3>1 DEF Types
  <2>2. CASE ~Worse(seq, t, abc.start)
    <3>1. /\ proc' = IF t = m THEN "idle" ELSE "released"
          /\ abc' = IF t = m THEN NoCall ELSE [NoCall EXCEPT !.mostWork = m]
      BY <2>2 DEF EndStep
    <3>2. CASE t = m
      BY <3>1, <3>2 DEF NoCall
    <3>3. CASE t # m
      BY <3>1, <3>3 DEF NoCall
    <3> QED  BY <3>2, <3>3
  <2> QED  BY <2>1, <2>2

\* Steps of ActivateBestChain that change its locals only.
<1>LocalStep. ASSUME StateInv,
                     UNCHANGED <<verdict, index, flags, order, cand, tip, inv, invalidated>>,
                     abc' \in [mostWork : Block \cup {Null}, start : Block \cup {Null},
                               old : Block \cup {Null}],
                     proc' \in {"idle", "find"},
                     proc' = "idle" => abc'.mostWork = Null,
                     \/ abc'.mostWork \in {Null, abc.mostWork}
                     \/ abc'.mostWork \in cand /\ Chain[abc'.mostWork] \cap Failed = {}
              PROVE  StateInv'
  <2> USE <1>LocalStep
  <2> USE DEF StateInv, index, flags
  <2>1. Types'
    BY DEF Types
  <2>2. Failed' = Failed
    BY DEF Failed
  <2>3. Backed'
    BY DEF Backed
  <2>4. PathValid'
    BY <2>2 DEF PathValid
  <2>5. Owner'
    BY DEF Owner
  <2>6. TipValid' /\ OnlyGuilty'
    BY <2>2 DEF TipValid, OnlyGuilty
  <2> QED  BY <2>1, <2>3, <2>4, <2>5, <2>6

\* Taking cs_main, another round and an early return only move abc and proc.
<1>LockStep. ASSUME StateInv, ActivateBestChain \/ NextRound \/ AlreadyBest
             PROVE  StateInv'
  <2> USE <1>LockStep
  <2>1. CASE ActivateBestChain
    <3>1. abc' = [NoCall EXCEPT !.start = tip] /\ proc' = "find"
          /\ UNCHANGED <<verdict, index, flags, order, cand, tip, inv, invalidated>>
      BY <2>1 DEF ActivateBestChain
    <3>2. abc' \in [mostWork : Block \cup {Null}, start : Block \cup {Null},
                   old : Block \cup {Null}] /\ abc'.mostWork = Null
      BY <3>1 DEF NoCall, StateInv, Types
    <3> QED  BY <3>1, <3>2, <1>LocalStep
  <2>2. CASE NextRound
    <3>1. abc' = [abc EXCEPT !.start = tip] /\ proc' = "find"
          /\ UNCHANGED <<verdict, index, flags, order, cand, tip, inv, invalidated>>
      BY <2>2 DEF NextRound
    <3>2. abc' \in [mostWork : Block \cup {Null}, start : Block \cup {Null},
                   old : Block \cup {Null}] /\ abc'.mostWork = abc.mostWork
      BY <3>1 DEF StateInv, Types
    <3> QED  BY <3>1, <3>2, <1>LocalStep
  <2>3. CASE AlreadyBest
    <3>1. abc' = NoCall /\ proc' = "idle"
          /\ UNCHANGED <<verdict, index, flags, order, cand, tip, inv, invalidated>>
      BY <2>3 DEF AlreadyBest
    <3>2. abc' \in [mostWork : Block \cup {Null}, start : Block \cup {Null},
                   old : Block \cup {Null}] /\ abc'.mostWork = Null
      BY <3>1 DEF NoCall
    <3> QED  BY <3>1, <3>2, <1>LocalStep
  <2> QED  BY <2>1, <2>2, <2>3

\* The block FindMostWorkChain returns has data and no failed block on its path.
<1>FindStep. ASSUME StateInv, FindMostWorkChain
             PROVE  StateInv'
  <2> USE <1>FindStep
  <2>1. PICK b \in cand : FailedOnPath(b) = {} /\ abc' = [abc EXCEPT !.mostWork = b]
    BY DEF FindMostWorkChain
  <2>2. /\ UNCHANGED <<verdict, index, flags, order, cand, tip, inv, invalidated>>
        /\ proc' = "find"
    BY DEF FindMostWorkChain
  <2>3. b \in Block
    BY DEF StateInv, Types
  <2>4. abc' \in [mostWork : Block \cup {Null}, start : Block \cup {Null},
                 old : Block \cup {Null}] /\ abc'.mostWork = b
    BY <2>1, <2>3 DEF StateInv, Types
  <2>5. Chain[b] \cap Failed = {}
    BY <2>1 DEF FailedOnPath, StateInv, TipValid
  <2> QED  BY <2>2, <2>4, <2>5, <1>LocalStep

\* What FindMostWorkChain marks above a failed block is off the active chain.
<1>DropStep. ASSUME StateInv, DropCandidate
             PROVE  StateInv'
  <2> USE <1>DropStep
  <2>0. PICK b \in cand : \E x \in FailedOnPath(b) :
            /\ failedChild' = failedChild \cup (Chain[b] \ Chain[x])
            /\ cand' = cand \ ((Chain[b] \ Chain[x]) \cup {x})
    BY DEF DropCandidate
  <2>1. PICK highest \in FailedOnPath(b) :
            /\ failedChild' = failedChild \cup (Chain[b] \ Chain[highest])
            /\ cand' = cand \ ((Chain[b] \ Chain[highest]) \cup {highest})
    BY <2>0
  <2>2. /\ UNCHANGED <<verdict, index, failedValid, tip, proc, abc, inv, invalidated>>
        /\ abc.mostWork = Null
    BY DEF DropCandidate
  <2>3. /\ b \in Block /\ highest \in Block
        /\ highest \in Chain[b] \ Chain[tip] /\ highest \in Failed
    BY TreeFacts DEF FailedOnPath, StateInv, Types
  <2>4. \A x \in Chain[b] \ Chain[highest] : x \in Block /\ highest \in Chain[x]
    BY <2>3, TreeFacts
  <2>5. Types'
    BY <2>1, <2>2, <2>4 DEF StateInv, Types, index
  <2>6. Failed' = Failed \cup (Chain[b] \ Chain[highest])
    BY <2>1, <2>2 DEF Failed
  <2>7. TipValid'
    <3>1. tip \in Block /\ \A x \in Chain[tip] : Chain[x] \subseteq Chain[tip]
      BY TreeFacts DEF StateInv, Types
    <3>2. Chain[tip] \cap (Chain[b] \ Chain[highest]) = {}
      BY <2>3, <2>4, <3>1
    <3> QED  BY <2>2, <2>6, <3>2 DEF StateInv, TipValid
  <2>8. OnlyGuilty'
    <3>1. Guilty(highest)
      BY <2>3, <1>OnlyGuiltyIs DEF StateInv
    <3>2. ASSUME NEW c \in Failed' PROVE Guilty(c)
      BY <2>3, <2>4, <2>6, <3>1, <1>BelowGuilty, <1>OnlyGuiltyIs DEF StateInv
    <3>3. ASSUME NEW c \in Failed' PROVE Guilty(c)'
      BY <2>2, <3>2 DEF Guilty
    <3> QED  BY <3>3 DEF OnlyGuilty, Guilty
  <2>9. Backed' /\ PathValid' /\ Owner'
    BY <2>1, <2>2 DEF StateInv, Backed, PathValid, Owner, index
  <2> QED  BY <2>5, <2>7, <2>8, <2>9 DEF StateInv

\* Disconnecting to the fork leaves a shorter part of the active chain.
<1>ForkStep. ASSUME StateInv, ActivateBestChainStep
             PROVE  StateInv'
  <2> USE <1>ForkStep
  <2>1. PICK fork \in Chain[tip] \cap Chain[abc.mostWork] : tip' = fork
    BY DEF ActivateBestChainStep
  <2>2. /\ UNCHANGED <<verdict, index, flags, cand, inv, invalidated>>
        /\ proc' = "connect" /\ abc' = [abc EXCEPT !.old = tip]
        /\ abc.mostWork # Null
    BY DEF ActivateBestChainStep
  <2>3. fork \in Block /\ Chain[fork] \subseteq Chain[tip]
    BY <2>1, TreeFacts DEF StateInv, Types
  <2>4. /\ abc' \in [mostWork : Block \cup {Null}, start : Block \cup {Null},
                     old : Block \cup {Null}]
        /\ abc'.mostWork = abc.mostWork
    BY <2>2 DEF StateInv, Types
  <2>5. Types'
    BY <2>1, <2>2, <2>3, <2>4 DEF StateInv, Types, index, flags
  <2>6. Failed' = Failed
    BY <2>2 DEF Failed, flags
  <2>7. Backed'
    BY <2>1, <2>2, <2>3, <2>4 DEF StateInv, Backed, index
  <2>8. PathValid' /\ Owner'
    BY <2>2, <2>4, <2>6 DEF StateInv, PathValid, Owner
  <2>9. TipValid' /\ OnlyGuilty'
    BY <2>1, <2>2, <2>3, <2>6 DEF StateInv, TipValid, OnlyGuilty
  <2> QED  BY <2>5, <2>7, <2>8, <2>9 DEF StateInv

\* The block connected is on the branch being activated, so it has data and
\* has not failed, even if cs_main was released since the branch was chosen.
<1>ConnectStep. ASSUME StateInv, NEW c \in Block, ConnectTip(c)
                PROVE  StateInv'
  <2> USE <1>ConnectStep
  <2>1. /\ UNCHANGED <<verdict, index, flags, inv, invalidated>>
        /\ tip' = c /\ cand' \subseteq cand
        /\ c \in Chain[abc.mostWork] /\ proc = "connect"
    BY DEF ConnectTip, PruneBlockIndexCandidates, IsNext
  <2>2. abc.mostWork \in Block
    BY <2>1 DEF StateInv, Types, Owner
  <2>3. /\ abc' \in [mostWork : Block \cup {Null}, start : Block \cup {Null},
                     old : Block \cup {Null}]
        /\ abc'.mostWork \in {Null, abc.mostWork}
        /\ proc' \in {"find", "idle", "released", "connect"}
        /\ proc' = "idle" => abc'.mostWork = Null
        /\ proc' = "connect" => abc'.mostWork # Null
    <3>1. CASE EndStep(c, abc.mostWork)
      BY <2>2, <3>1, <1>EndStepLocals DEF StateInv
    <3>2. CASE UNCHANGED <<proc, abc>>
      BY <2>1, <2>2, <3>2, TreeFacts DEF StateInv, Types
    <3> QED  BY <3>1, <3>2 DEF ConnectTip
  <2>4. Chain[c] \subseteq Chain[abc.mostWork] /\ abc.mostWork # Null
    BY <2>1, <2>2, TreeFacts
  <2>5. Types'
    BY <2>1, <2>3 DEF StateInv, Types, index, flags
  <2>6. Failed' = Failed
    BY <2>1 DEF Failed, flags
  <2>7. Backed'
    BY <2>1, <2>3, <2>4 DEF StateInv, Backed, index
  <2>8. PathValid' /\ Owner'
    BY <2>3, <2>6 DEF StateInv, PathValid, Owner
  <2>9. TipValid' /\ OnlyGuilty'
    BY <2>1, <2>4, <2>6 DEF StateInv, TipValid, PathValid, OnlyGuilty
  <2> QED  BY <2>5, <2>7, <2>8, <2>9 DEF StateInv

\* A block that does not connect, and what descends from it, is off the chain.
<1>ConnectFailsStep. ASSUME StateInv, NEW c \in Block, ConnectTipFails(c)
                     PROVE  StateInv'
  <2> USE <1>ConnectFailsStep
  <2>1. /\ UNCHANGED <<verdict, index, tip, inv, invalidated>>
        /\ cand' \subseteq cand /\ c \notin Chain[tip]
        /\ verdict[c] = "connect" /\ EndStep(tip, Null)
        /\ failedValid' = (failedValid \cup {c}) \ Descendants(c)
        /\ failedChild' = failedChild \cup Descendants(c)
    BY DEF ConnectTipFails, IsNext, InvalidChainFound
  <2>2. /\ abc' \in [mostWork : Block \cup {Null}, start : Block \cup {Null},
                     old : Block \cup {Null}]
        /\ abc'.mostWork = Null
        /\ proc' \in {"find", "idle", "released"}
    BY <2>1, <1>EndStepLocals DEF StateInv, Types
  <2>3. Descendants(c) \subseteq Block
    BY DEF Descendants, StateInv, Types
  <2>4. Types' /\ Failed' \subseteq Failed \cup {c} \cup Descendants(c)
    BY <2>1, <2>2, <2>3 DEF StateInv, Types, Failed, index
  <2>5. Guilty(c)
    BY <2>1, TreeFacts DEF Guilty
  <2>6. Owner'
    BY <2>2 DEF Owner
  <2> QED  BY <2>1, <2>2, <2>4, <2>5, <2>6, <1>MarkStep DEF index

\* The RPCs.
<1>InvalidateStep. ASSUME StateInv, NEW b \in Invalidable, InvalidateBlock(b)
                   PROVE  StateInv'
  <2> USE <1>InvalidateStep
  <2>1. /\ UNCHANGED <<verdict, index, flags, cand, tip, abc>>
        /\ proc = "idle" /\ proc' = "walk" /\ invalidated' = invalidated \cup {b}
        /\ inv' = [pindex |-> b, toMark |-> b, wasInChain |-> FALSE,
                   highpow |-> {c \in known \ (Chain[tip] \cup Failed) :
                                   ~Worse(seq, c, Parent[b])}]
    BY DEF InvalidateBlock, Collected
  <2>2. b \in Block /\ b \in Chain[b]
    BY InputAssumption, TreeFacts
  <2>3. /\ inv' \in [pindex : Block \cup {Null}, toMark : Block \cup {Null},
                     wasInChain : BOOLEAN, highpow : SUBSET Block]
        /\ inv'.pindex = b /\ inv'.toMark = b
    BY <2>1, <2>2 DEF StateInv, Types
  <2>4. Types'
    BY <2>1, <2>3 DEF StateInv, Types, index, flags
  <2>5. Failed' = Failed
    BY <2>1 DEF Failed, flags
  <2>6. Owner'
    BY <2>1, <2>2, <2>3 DEF StateInv, Owner
  <2>7. Backed' /\ PathValid' /\ TipValid' /\ OnlyGuilty'
    BY <2>1, <2>5 DEF StateInv, Backed, PathValid, TipValid, OnlyGuilty, index
  <2> QED  BY <2>4, <2>6, <2>7 DEF StateInv

\* The disconnected tip, the block disconnected before it and what descends
\* from the tip are off the remaining chain, and all descend from pindex.
<1>InvalidateTipStep. ASSUME StateInv, InvalidateTip
                      PROVE  StateInv'
  <2> USE <1>InvalidateTipStep
  <2> DEFINE p == Parent[tip]
             dead == {c \in {d \in inv.highpow : Work[d] >= Work[p]} :
                         tip \in Chain[c]}
             child == dead \cup (IF tip = Parent[inv.toMark]
                                 THEN {inv.toMark} \cap failedValid ELSE {})
  <2>1. /\ UNCHANGED <<verdict, index, proc, abc, invalidated>>
        /\ proc = "walk" /\ inv.pindex \in Chain[tip] /\ tip' = p
        /\ failedValid' = (failedValid \cup {tip}) \ child
        /\ failedChild' = failedChild \cup child
        /\ cand' \subseteq cand \cup {p} \cup linked
        /\ inv' = [inv EXCEPT !.toMark = tip, !.wasInChain = TRUE,
                              !.highpow = @ \ dead]
    BY DEF InvalidateTip
  <2>2. inv.pindex \in Block /\ inv.pindex \in invalidated /\ inv.toMark \in Block
        /\ inv.pindex # Genesis
    BY <2>1, InputAssumption DEF StateInv, Owner
  <2>3. tip \in Block \ {Genesis}
    BY SMT, <2>1, <2>2, ChainTree DEF StateInv, Types
  <2>4. p \in Block /\ Chain[p] \subseteq Chain[tip] /\ tip \notin Chain[p]
    BY <2>3, TreeFacts
  <2>5. dead \subseteq Block /\ \A c \in dead : tip \in Chain[c]
    BY DEF StateInv, Types
  <2>6. child \subseteq dead \cup failedValid
        /\ \A c \in child : c \in dead \/ (c = inv.toMark /\ tip = Parent[inv.toMark])
    OBVIOUS
  <2>7. Chain[p] \cap child = {}
    <3>1. ASSUME NEW c \in dead PROVE c \notin Chain[p]
      BY <2>4, <2>5, TreeFacts
    <3>2. ASSUME tip = Parent[inv.toMark], inv.toMark \in Chain[p] PROVE FALSE
      <4>1. inv.toMark # Genesis
        BY SMT, <2>2, <2>1, ChainTree DEF StateInv, Owner
      <4>2. Parent[inv.toMark] \in Chain[inv.toMark]
        BY SMT, <2>2, <4>1, TreeFacts
      <4> QED  BY SMT, <2>4, <3>2, <4>2, TreeFacts
    <3> QED  BY <2>6, <3>1, <3>2
  <2>8. \A c \in child \cup {tip} : Guilty(c)
    <3>1. Guilty(tip)
      BY <2>1, <2>2 DEF Guilty
    <3>2. ASSUME NEW c \in dead PROVE Guilty(c)
      BY <2>3, <2>5, <3>1, <1>BelowGuilty
    <3> QED  BY <2>6, <3>1, <3>2, <1>OnlyGuiltyIs DEF StateInv, Failed
  <2> HIDE DEF p, dead, child
  <2>9. /\ inv' \in [pindex : Block \cup {Null}, toMark : Block \cup {Null},
                     wasInChain : BOOLEAN, highpow : SUBSET Block]
        /\ inv'.pindex = inv.pindex /\ inv'.toMark = tip
    BY <2>1, <2>3 DEF StateInv, Types
  <2>10. Types'
    BY <2>1, <2>3, <2>4, <2>5, <2>6, <2>9 DEF StateInv, Types, index
  <2>11. Failed' \subseteq Failed \cup {tip} \cup child
    BY <2>1 DEF Failed
  <2>12. Backed' /\ PathValid'
    BY <2>1, <2>4 DEF StateInv, Backed, PathValid, Owner, index
  <2>13. Owner'
    BY <2>1, <2>2, <2>3, <2>9 DEF StateInv, Owner
  <2>14. TipValid'
    BY <2>1, <2>4, <2>7, <2>11 DEF StateInv, TipValid
  <2>15. OnlyGuilty'
    <3>1. ASSUME NEW c \in Failed' PROVE Guilty(c)
      BY <2>8, <2>11, <1>OnlyGuiltyIs DEF StateInv
    <3>2. ASSUME NEW c \in Failed' PROVE Guilty(c)'
      BY <2>1, <3>1 DEF Guilty
    <3> QED  BY <3>2 DEF OnlyGuilty, Guilty
  <2> QED  BY <2>10, <2>12, <2>13, <2>14, <2>15 DEF StateInv

\* The clean-up of InvalidateBlock marks only descendants of the block named.
<1>FinishStep. ASSUME StateInv, FinishInvalidate
               PROVE  StateInv'
  <2> USE <1>FinishStep
  <2> DEFINE self == IF inv.wasInChain THEN {} ELSE {inv.pindex} \ Failed
             D == Descendants(inv.toMark)
  <2>1. /\ UNCHANGED <<verdict, index, tip, abc, invalidated>>
        /\ proc = "walk" /\ proc' = "idle" /\ inv.pindex \notin Chain[tip]
        /\ failedValid' = (failedValid \cup self) \ D
        /\ failedChild' = failedChild \cup D
        /\ cand' \subseteq cand \cup linked
        /\ inv' = NoHighpow
    BY DEF FinishInvalidate, InvalidChainFound, Rescanned
  <2>2. /\ inv.pindex \in Block /\ inv.pindex \in invalidated
        /\ inv.toMark \in Block /\ inv.pindex \in Chain[inv.toMark]
    BY <2>1, InputAssumption DEF StateInv, Owner
  <2>3. D \subseteq Block /\ \A c \in D : inv.toMark \in Chain[c]
    BY DEF Descendants, StateInv, Types
  <2>4. self \subseteq {inv.pindex}
    OBVIOUS
  <2>5. \A c \in D : inv.pindex \in Chain[c]
    BY SMT, <2>2, <2>3, TreeFacts
  <2> HIDE DEF self, D
  <2>6. Failed' \subseteq Failed \cup {inv.pindex} \cup D
    BY <2>1, <2>4 DEF Failed
  <2>7. Types'
    <3>1. inv' \in [pindex : Block \cup {Null}, toMark : Block \cup {Null},
                    wasInChain : BOOLEAN, highpow : SUBSET Block]
      BY <2>1 DEF NoHighpow
    <3> QED  BY <2>1, <2>2, <2>3, <2>4, <3>1 DEF StateInv, Types, index
  <2>8. Backed' /\ PathValid' /\ Owner'
    BY <2>1 DEF StateInv, Backed, PathValid, Owner, index
  <2>9. TipValid'
    <3>1. \A c \in D : c \notin Chain[tip]
      BY SMT, <2>1, <2>3, <2>5, TreeFacts DEF StateInv, Types
    <3> QED  BY <2>1, <2>6, <3>1 DEF StateInv, TipValid
  <2>10. OnlyGuilty'
    <3>1. Guilty(inv.pindex)
      BY <2>2, TreeFacts DEF Guilty
    <3>2. ASSUME NEW c \in Failed' PROVE Guilty(c)
      BY <2>2, <2>3, <2>5, <2>6, <3>1, <1>BelowGuilty, <1>OnlyGuiltyIs DEF StateInv
    <3>3. ASSUME NEW c \in Failed' PROVE Guilty(c)'
      BY <2>1, <3>2 DEF Guilty
    <3> QED  BY <3>3 DEF OnlyGuilty, Guilty
  <2> QED  BY <2>7, <2>8, <2>9, <2>10 DEF StateInv

\* ResetBlockFailureFlags only takes failure flags away.
<1>ReconsiderStep. ASSUME StateInv, NEW b \in Reconsiderable, ReconsiderBlock(b)
                   PROVE  StateInv'
  <2> USE <1>ReconsiderStep
  <2>1. /\ UNCHANGED <<verdict, index, tip, proc, abc, inv, invalidated>>
        /\ failedValid' \subseteq failedValid /\ failedChild' \subseteq failedChild
        /\ cand' \subseteq cand \cup linked
    BY DEF ReconsiderBlock
  <2>2. Types' /\ Failed' \subseteq Failed
    BY <2>1 DEF StateInv, Types, Failed, index
  <2> QED  BY <2>1, <2>2, <1>QuietStep DEF index

\* PreciousBlock reorders candidates and adds only linked blocks to them.
<1>PreciousStep. ASSUME StateInv, NEW b \in Precious, PreciousBlock(b)
                 PROVE  StateInv'
  <2> USE <1>PreciousStep
  <2>1. /\ UNCHANGED <<verdict, index, flags, tip, proc, abc, inv, invalidated>>
        /\ cand' \subseteq cand \cup linked
    BY DEF PreciousBlock
  <2>2. Types' /\ Failed' = Failed
    BY <2>1 DEF StateInv, Types, Failed, index, flags
  <2> QED  BY <2>1, <2>2, <1>QuietStep DEF index

<1> SUFFICES ASSUME StateInv, [Next]_vars PROVE StateInv'
  OBVIOUS
<1>1. CASE UNCHANGED vars
  <2>1. Types' /\ Failed' = Failed
    BY <1>1 DEF StateInv, Types, Failed, vars, index, flags
  <2> QED  BY <1>1, <2>1, <1>QuietStep DEF vars, index
<1>2. CASE Next
  BY <1>2, <1>HeadersStep, <1>ProcessBlockStep, <1>LockStep, <1>DropStep, <1>FindStep,
     <1>ForkStep, <1>ConnectStep, <1>ConnectFailsStep, <1>InvalidateStep,
     <1>InvalidateTipStep, <1>FinishStep, <1>ReconsiderStep, <1>PreciousStep DEF Next
<1> QED  BY <1>1, <1>2

\* The inductive invariant holds in every reachable state.
THEOREM ChainStateInvariant == Spec => []StateInv
<1> QED  BY InitInv, StateStep, PTL DEF Spec

\* No block of the active chain is ever marked as failed, whatever arrives
\* while ActivateBestChain and InvalidateBlock have released cs_main.
THEOREM ActiveChainNeverFailed == Spec => []TipValid
<1>1. StateInv => TipValid
  BY DEF StateInv
<1> QED  BY <1>1, ChainStateInvariant, PTL

\* A failure mark always goes back to a block that fails validation or was
\* passed to invalidateblock before the mark was set.
THEOREM FailuresAreCaused == Spec => []OnlyGuilty
<1>1. StateInv => OnlyGuilty
  BY DEF StateInv
<1> QED  BY <1>1, ChainStateInvariant, PTL

-----------------------------------------------------------------------------
(***************************************************************************)
(* The types, in full.  Every block of the index has its ancestors there,  *)
(* every linked one has linked ancestors, and the index is finite, so that *)
(* the sequence numbers that Link hands out stay numbers.                  *)
(***************************************************************************)
Rooted ==
    /\ IsFiniteSet(known)
    /\ \A b \in known : Chain[b] \subseteq known
    /\ \A b \in linked : Chain[b] \subseteq linked
    /\ unlinked \cap linked = {}

IndexTypes ==
    /\ known \in SUBSET Block /\ data \in SUBSET known
    /\ linked \in SUBSET data /\ unlinked \in SUBSET data
FlagTypes ==
    /\ failedValid \in SUBSET known /\ failedChild \in SUBSET known
    /\ bestInvalid \in known \cup {Null}
OrderTypes ==
    /\ seq \in [Block -> Int] /\ nextSeq \in Nat /\ revSeq \in Int
    /\ lastPrecious \in Nat
PlaceTypes == cand \in SUBSET linked /\ tip \in linked /\ bestHeader \in known
CallTypes ==
    /\ proc \in {"idle", "find", "connect", "released", "walk"}
    /\ abc \in [mostWork : linked \cup {Null}, start : linked \cup {Null},
                old : linked \cup {Null}]
    /\ inv \in [pindex : known \cup {Null}, toMark : known \cup {Null},
                wasInChain : BOOLEAN, highpow : SUBSET known]

Parts ==
    /\ verdict \in Verdicts /\ want \in BOOLEAN
    /\ IndexTypes /\ FlagTypes /\ OrderTypes /\ PlaceTypes /\ CallTypes /\ Rooted

LEMMA PartsAre == Parts /\ invalidated \in SUBSET Invalidable <=> TypeOK /\ Rooted
  BY DEF Parts, TypeOK, IndexTypes, FlagTypes, OrderTypes, PlaceTypes, CallTypes

\* The blocks that Link links have linked ancestors, and get numbers.
LEMMA LinkTypes ==
    ASSUME Parts, NEW b \in Block \ {Genesis}, b \notin data, Parent[b] \in linked,
           data' = data \cup {b}, Link(b)
    PROVE  /\ linked \subseteq linked' /\ linked' \in SUBSET data' /\ unlinked' \in SUBSET data'
           /\ \A c \in linked' : Chain[c] \subseteq linked'
           /\ unlinked' \cap linked' = {}
           /\ cand' \in SUBSET linked'
           /\ seq' \in [Block -> Int] /\ nextSeq' \in Nat
           /\ linked' = linked \cup NewlyLinked(b) /\ NewlyLinked(b) \cap linked = {}
           /\ \A x \in linked : seq'[x] = seq[x]
           /\ cand' = cand \cup {x \in NewlyLinked(b) : ~Worse(seq', x, tip)}
           /\ nextSeq' >= nextSeq
           /\ \A x \in Block \ linked : seq'[x] = seq[x] \/ seq'[x] >= nextSeq
<1> DEFINE L == NewlyLinked(b)
<1>1. PICK f \in QueueOrders(L) :
        /\ linked' = linked \cup L /\ unlinked' = unlinked \ L
        /\ nextSeq' = nextSeq + Cardinality(L)
        /\ seq' = [x \in Block |-> IF x \in L THEN nextSeq + f[x] ELSE seq[x]]
        /\ cand' = cand \cup {x \in L : ~Worse(seq', x, tip)}
  BY DEF Link
<1>2. L \subseteq unlinked \cup {b} /\ b \in L
  BY DEF NewlyLinked
<1>3. L \subseteq data' /\ L \subseteq Block
  BY <1>2 DEF Parts, IndexTypes
<1>4. L \cap linked = {}
  BY <1>2 DEF Parts, IndexTypes, Rooted
<1>5. IsFiniteSet(L)
  <2>1. IsFiniteSet(unlinked)
    BY FS_Subset DEF Parts, IndexTypes, Rooted
  <2>2. IsFiniteSet(unlinked \cup {b})
    BY <2>1, FS_AddElement
  <2> QED  BY <1>2, <2>2, FS_Subset
<1>6. Cardinality(L) \in Nat
  BY <1>5, FS_CardinalityType
<1>7. f \in [L -> 0 .. Cardinality(L) - 1]
  BY DEF QueueOrders, Bijection, Injection
<1>8. nextSeq' \in Nat
  BY SMT, <1>1, <1>6 DEF Parts, OrderTypes
<1>9. seq' \in [Block -> Int]
  <2>1. \A x \in L : nextSeq + f[x] \in Int
    BY SMT, <1>6, <1>7 DEF Parts, OrderTypes
  <2> QED  BY <1>1, <2>1 DEF Parts, OrderTypes
<1>10. ASSUME NEW c \in L PROVE Chain[c] \subseteq linked \cup L
  <2>1. Chain[b] \subseteq linked \cup {b}
    BY SMT, TreeFacts DEF Parts, Rooted
  <2>2. CASE c = b
    BY <1>2, <2>1, <2>2
  <2>3. CASE c # b
    <3>1. c \in unlinked /\ b \in Chain[c] /\ Chain[c] \ Chain[b] \subseteq unlinked
      BY <2>3 DEF NewlyLinked
    <3>2. c \in Block
      BY <1>3
    <3>3. ASSUME NEW d \in Chain[c] \ Chain[b] PROVE d \in L
      <4>1. d \in unlinked /\ d \in Block
        BY <3>1, <1>3, <3>2, TreeFacts
      <4>2. b \in Chain[d] /\ Chain[d] \subseteq Chain[c]
        BY <3>1, <3>2, TreeFacts
      <4>3. Chain[d] \ Chain[b] \subseteq unlinked
        BY <3>1, <4>2
      <4> QED  BY <4>1, <4>2, <4>3 DEF NewlyLinked
    <3> QED  BY <1>2, <2>1, <3>3
  <2> QED  BY <2>2, <2>3
<1>11. \A x \in linked : seq'[x] = seq[x]
  BY <1>1, <1>4 DEF Parts, IndexTypes
<1>16. \A x \in Block \ linked : seq'[x] = seq[x] \/ seq'[x] >= nextSeq
  <2>1. \A x \in L : nextSeq + f[x] >= nextSeq
    BY SMT, <1>6, <1>7 DEF Parts, OrderTypes
  <2> QED  BY <1>1, <2>1
<1>17. nextSeq' >= nextSeq
  BY SMT, <1>1, <1>6 DEF Parts, OrderTypes
<1> HIDE DEF L
<1>12. \A c \in linked' : Chain[c] \subseteq linked'
  BY <1>1, <1>10 DEF Parts, Rooted
<1>13. linked' \in SUBSET data' /\ unlinked' \in SUBSET data' /\ linked \subseteq linked'
  BY <1>1, <1>3 DEF Parts, IndexTypes
<1>14. unlinked' \cap linked' = {}
  BY <1>1 DEF Parts, Rooted
<1>15. cand' \in SUBSET linked'
  BY <1>1 DEF Parts, PlaceTypes
<1> QED
  BY <1>1, <1>4, <1>8, <1>9, <1>11, <1>12, <1>13, <1>14, <1>15, <1>16, <1>17 DEF L

LEMMA InitTypes == Init => Parts
<1> SUFFICES ASSUME Init PROVE Parts
  OBVIOUS
<1>1. Chain[Genesis] = {Genesis} /\ Genesis \in Block
  BY ChainTree
<1>2. IsFiniteSet({Genesis})
  BY FS_Singleton
<1>3. IndexTypes /\ FlagTypes /\ PlaceTypes /\ Rooted
  BY <1>1, <1>2 DEF Init, IndexTypes, FlagTypes, PlaceTypes, Rooted
<1>4. OrderTypes
  BY SMT DEF Init, OrderTypes
<1>5. CallTypes
  BY DEF Init, CallTypes, NoCall, NoHighpow
<1> QED  BY <1>3, <1>4, <1>5 DEF Init, Parts

LEMMA TypesStep == StateInv /\ Parts /\ [Next]_vars => Parts'

\* What RecalculateBestHeader and Heavier can return.
<1>HeaderIn. ASSUME NEW t, NEW kn, NEW f, NEW h \in RecalculateBestHeader(t, kn, f)
             PROVE  h = t \/ h \in kn \ f
  <2> USE <1>HeaderIn
  <2> DEFINE better == {b \in kn \ f : Work[b] > Work[t]}
  <2>1. h \in IF better = {} THEN {t}
              ELSE {b \in better : \A c \in better : Work[c] <= Work[b]}
    BY DEF RecalculateBestHeader
  <2> QED  BY <2>1

\* A failed chain marks and records blocks of the index only.
<1>ChainFoundTypes.
      ASSUME Parts, NEW K, known \subseteq K, NEW fv \in SUBSET K, NEW n, NEW last \in K,
             NEW header \in K, InvalidChainFound(fv, n, last, header)
      PROVE  /\ failedValid' \in SUBSET K /\ failedChild' \in SUBSET K
             /\ bestInvalid' \in K \cup {Null} /\ bestHeader' \in K
  <2> USE <1>ChainFoundTypes
  <2>1. /\ failedValid' = fv \ Descendants(n)
        /\ failedChild' = failedChild \cup Descendants(n)
        /\ bestInvalid' = Heavier(bestInvalid, last)
        /\ \/ bestHeader' = header
           \/ bestHeader' \in RecalculateBestHeader(tip, known, failedValid' \cup failedChild')
    BY DEF InvalidChainFound
  <2>2. Descendants(n) \subseteq known
    BY DEF Descendants
  <2>3. tip \in known
    BY DEF Parts, PlaceTypes, IndexTypes
  <2>4. bestHeader' \in K
    BY SMT, <2>1, <2>3, <1>HeaderIn
  <2>5. bestInvalid' \in K \cup {Null}
    BY <2>1 DEF Heavier, Parts, FlagTypes
  <2> QED  BY <2>1, <2>2, <2>4, <2>5 DEF Parts, FlagTypes

\* The locals of the calls keep their types while the index grows.
<1>CallsGrow. ASSUME CallTypes, known \subseteq known', linked \subseteq linked',
                     UNCHANGED <<proc, abc, inv>>
              PROVE  CallTypes'
  <2> USE <1>CallsGrow
  <2>1. abc' \in [mostWork : linked' \cup {Null}, start : linked' \cup {Null},
                  old : linked' \cup {Null}]
    BY DEF CallTypes
  <2>2. inv' \in [pindex : known' \cup {Null}, toMark : known' \cup {Null},
                  wasInChain : BOOLEAN, highpow : SUBSET known']
    BY DEF CallTypes
  <2> QED  BY <2>1, <2>2 DEF CallTypes

\* A header joins the index above its parent.
<1>KnownRooted.
      ASSUME Parts, NEW b \in Block \ {Genesis}, HeaderAccepted(b), known' = known \cup {b}
      PROVE  /\ known' \in SUBSET Block /\ IsFiniteSet(known')
             /\ \A c \in known' : Chain[c] \subseteq known'
             /\ HeaderAfter(b) \in known'
  <2> USE <1>KnownRooted
  <2>1. IsFiniteSet(known \cup {b})
    BY FS_AddElement DEF Parts, Rooted
  <2>2. b \in known \/ Parent[b] \in known
    BY DEF HeaderAccepted
  <2>3. Chain[b] \subseteq known'
    <3>1. CASE b \in known
      BY <3>1 DEF Parts, Rooted
    <3>2. CASE Parent[b] \in known
      BY SMT, <3>2, TreeFacts DEF Parts, Rooted
    <3> QED  BY <2>2, <3>1, <3>2
  <2>4. \A c \in known' : Chain[c] \subseteq known'
    BY <2>3 DEF Parts, Rooted
  <2>5. HeaderAfter(b) \in known'
    BY DEF HeaderAfter, Parts, PlaceTypes
  <2> QED  BY <2>1, <2>4, <2>5 DEF Parts, IndexTypes

<1>HeadersTypes. ASSUME Parts, NEW b \in Block \ {Genesis}, ProcessNewBlockHeaders(b)
                 PROVE  Parts'
  <2> USE <1>HeadersTypes
  <2>1. /\ HeaderAccepted(b) /\ known' = known \cup {b} /\ bestHeader' = HeaderAfter(b)
        /\ UNCHANGED <<verdict, data, linked, unlinked, failedValid, failedChild, bestInvalid,
                       seq, nextSeq, revSeq, lastPrecious, cand, tip, want>>
        /\ UNCHANGED <<proc, abc, inv>>
    BY DEF ProcessNewBlockHeaders, flags, order
  <2>2. /\ known' \in SUBSET Block /\ IsFiniteSet(known')
        /\ \A c \in known' : Chain[c] \subseteq known'
        /\ HeaderAfter(b) \in known'
    BY <2>1, <1>KnownRooted
  <2>3. CallTypes'
    BY <2>1, <1>CallsGrow DEF Parts
  <2>4. IndexTypes' /\ FlagTypes' /\ OrderTypes' /\ PlaceTypes'
    BY <2>1, <2>2 DEF Parts, IndexTypes, FlagTypes, OrderTypes, PlaceTypes
  <2>5. Rooted'
    BY <2>1, <2>2 DEF Parts, Rooted
  <2> QED  BY <2>1, <2>3, <2>4, <2>5 DEF Parts

<1>ProcessBlockTypes. ASSUME Parts, NEW b \in Block \ {Genesis}, NEW requested \in BOOLEAN,
                             ProcessNewBlock(b, requested)
                      PROVE  Parts'
  <2> USE <1>ProcessBlockTypes
  <2>1. /\ HeaderAccepted(b) /\ known' = known \cup {b}
        /\ UNCHANGED <<verdict, tip>> /\ UNCHANGED <<proc, abc, inv>>
    BY DEF ProcessNewBlock
  <2>2. /\ known' \in SUBSET Block /\ IsFiniteSet(known')
        /\ \A c \in known' : Chain[c] \subseteq known'
        /\ HeaderAfter(b) \in known' /\ b \in known' /\ known \subseteq known'
    BY <2>1, <1>KnownRooted
  <2>3. CASE /\ UNCHANGED <<data, linked, unlinked, flags, order, cand>>
             /\ bestHeader' = HeaderAfter(b) /\ want' = TRUE
    <3>1. UNCHANGED <<failedValid, failedChild, bestInvalid, seq, nextSeq, revSeq, lastPrecious>>
      BY <2>3 DEF flags, order
    <3>2. CallTypes'
      BY <2>1, <2>2, <2>3, <1>CallsGrow DEF Parts
    <3>3. IndexTypes' /\ FlagTypes' /\ OrderTypes' /\ PlaceTypes'
      BY <2>1, <2>2, <2>3, <3>1 DEF Parts, IndexTypes, FlagTypes, OrderTypes, PlaceTypes
    <3>4. Rooted'
      BY <2>2, <2>3 DEF Parts, Rooted
    <3> QED  BY <2>1, <2>3, <3>2, <3>3, <3>4 DEF Parts
  <2>4. CASE /\ cand' = cand \ {b}
             /\ InvalidChainFound(failedValid \cup {b}, b, b, HeaderAfter(b))
             /\ UNCHANGED <<data, linked, unlinked, order, want>>
    <3>1. UNCHANGED <<seq, nextSeq, revSeq, lastPrecious>>
      BY <2>4 DEF order
    <3>2. failedValid \cup {b} \in SUBSET known'
      BY <2>2 DEF Parts, FlagTypes
    <3>3. /\ failedValid' \in SUBSET known' /\ failedChild' \in SUBSET known'
          /\ bestInvalid' \in known' \cup {Null} /\ bestHeader' \in known'
      BY <2>2, <2>4, <3>2, <1>ChainFoundTypes
    <3>4. CallTypes'
      BY <2>1, <2>2, <2>4, <1>CallsGrow DEF Parts
    <3>5. IndexTypes' /\ FlagTypes' /\ OrderTypes' /\ PlaceTypes'
      BY <2>1, <2>2, <2>4, <3>1, <3>3 DEF Parts, IndexTypes, FlagTypes, OrderTypes, PlaceTypes
    <3>6. Rooted'
      BY <2>2, <2>4 DEF Parts, Rooted
    <3> QED  BY <2>1, <2>4, <3>4, <3>5, <3>6 DEF Parts
  <2>5. CASE /\ b \notin data /\ ReceivedBlockTransactions(b)
             /\ bestHeader' = HeaderAfter(b) /\ want' = TRUE /\ UNCHANGED flags
    <3>1. /\ data' = data \cup {b} /\ UNCHANGED <<revSeq, lastPrecious>>
          /\ UNCHANGED <<failedValid, failedChild, bestInvalid>>
      BY <2>5 DEF ReceivedBlockTransactions, flags
    <3>2. CASE Parent[b] \in linked
      <4>1. Link(b)
        BY <2>5, <3>2 DEF ReceivedBlockTransactions
      <4>2. /\ linked \subseteq linked' /\ linked' \in SUBSET data' /\ unlinked' \in SUBSET data'
            /\ \A c \in linked' : Chain[c] \subseteq linked'
            /\ unlinked' \cap linked' = {}
            /\ cand' \in SUBSET linked'
            /\ seq' \in [Block -> Int] /\ nextSeq' \in Nat
        BY <2>5, <3>1, <3>2, <4>1, LinkTypes
      <4>3. CallTypes'
        BY <2>1, <2>2, <4>2, <1>CallsGrow DEF Parts
      <4>4. IndexTypes' /\ FlagTypes'
        BY <2>1, <2>2, <3>1, <4>2 DEF Parts, IndexTypes, FlagTypes
      <4>5. OrderTypes' /\ PlaceTypes'
        BY <2>1, <2>2, <2>5, <3>1, <4>2 DEF Parts, OrderTypes, PlaceTypes
      <4>6. Rooted'
        BY <2>2, <4>2 DEF Rooted
      <4> QED  BY <2>1, <2>5, <4>3, <4>4, <4>5, <4>6 DEF Parts
    <3>3. CASE Parent[b] \notin linked
      <4>1. UNCHANGED <<linked, seq, nextSeq, cand>> /\ unlinked' \subseteq unlinked \cup {b}
        BY <2>5, <3>3 DEF ReceivedBlockTransactions
      <4>2. b \notin linked
        BY <2>5 DEF Parts, IndexTypes
      <4>3. CallTypes'
        BY <2>1, <2>2, <4>1, <1>CallsGrow DEF Parts
      <4>4. IndexTypes' /\ FlagTypes'
        BY <2>1, <2>2, <3>1, <4>1 DEF Parts, IndexTypes, FlagTypes
      <4>5. OrderTypes' /\ PlaceTypes'
        BY <2>1, <2>2, <2>5, <3>1, <4>1 DEF Parts, OrderTypes, PlaceTypes
      <4>6. Rooted'
        BY <2>2, <4>1, <4>2 DEF Parts, Rooted
      <4> QED  BY <2>1, <2>5, <4>3, <4>4, <4>5, <4>6 DEF Parts
    <3> QED  BY <3>2, <3>3
  <2> QED  BY <2>3, <2>4, <2>5 DEF ProcessNewBlock

\* What ActivateBestChain remembers is linked.
<1>LocalsTypes.
      ASSUME Parts, UNCHANGED <<verdict, index, flags, order, cand, tip, bestHeader, inv>>,
             want' \in BOOLEAN, proc' \in {"idle", "find", "connect", "released"},
             abc' \in [mostWork : linked \cup {Null}, start : linked \cup {Null},
                       old : linked \cup {Null}]
      PROVE  Parts'
  <2> USE <1>LocalsTypes
  <2>1. /\ UNCHANGED <<known, data, linked, unlinked>>
        /\ UNCHANGED <<failedValid, failedChild, bestInvalid, seq, nextSeq, revSeq, lastPrecious>>
    BY DEF index, flags, order
  <2>2. IndexTypes' /\ FlagTypes' /\ OrderTypes' /\ PlaceTypes' /\ Rooted'
    BY <2>1 DEF Parts, IndexTypes, FlagTypes, OrderTypes, PlaceTypes, Rooted
  <2>3. CallTypes'
    BY <2>1 DEF Parts, CallTypes
  <2> QED  BY <2>2, <2>3 DEF Parts

<1>LockTypes. ASSUME Parts, ActivateBestChain \/ NextRound \/ AlreadyBest \/ FindMostWorkChain
              PROVE  Parts'
  <2> USE <1>LockTypes
  <2>1. UNCHANGED <<verdict, index, flags, order, cand, tip, bestHeader, inv>>
        /\ want' \in BOOLEAN /\ proc' \in {"idle", "find"}
    BY DEF ActivateBestChain, NextRound, AlreadyBest, FindMostWorkChain, Parts
  <2>2. \/ abc' = [NoCall EXCEPT !.start = tip]
        \/ abc' = [abc EXCEPT !.start = tip]
        \/ abc' = NoCall
        \/ \E b \in cand : abc' = [abc EXCEPT !.mostWork = b]
    BY DEF ActivateBestChain, NextRound, AlreadyBest, FindMostWorkChain
  <2>3. tip \in linked /\ \A b \in cand : b \in linked
    BY DEF Parts, PlaceTypes
  <2>4. abc' \in [mostWork : linked \cup {Null}, start : linked \cup {Null},
                  old : linked \cup {Null}]
    BY SMT, <2>2, <2>3 DEF Parts, CallTypes, NoCall
  <2> QED  BY <2>1, <2>4, <1>LocalsTypes

<1>DropTypes. ASSUME Parts, DropCandidate
              PROVE  Parts'
  <2> USE <1>DropTypes
  <2>1. PICK b \in cand : \E x \in FailedOnPath(b) :
            /\ failedChild' = failedChild \cup (Chain[b] \ Chain[x])
            /\ bestInvalid' = Heavier(bestInvalid, b)
            /\ cand' = cand \ ((Chain[b] \ Chain[x]) \cup {x})
    BY DEF DropCandidate
  <2>2. /\ UNCHANGED <<verdict, known, data, linked, unlinked, failedValid, tip, bestHeader, want>>
        /\ UNCHANGED <<seq, nextSeq, revSeq, lastPrecious>>
        /\ UNCHANGED <<proc, abc, inv>>
    BY DEF DropCandidate, index, order
  <2>3. b \in known /\ Chain[b] \subseteq known
    BY DEF Parts, PlaceTypes, IndexTypes, Rooted
  <2>4. IndexTypes' /\ OrderTypes' /\ Rooted'
    BY <2>2 DEF Parts, IndexTypes, OrderTypes, Rooted
  <2>5. FlagTypes'
    BY <2>1, <2>2, <2>3 DEF Parts, FlagTypes, Heavier
  <2>6. PlaceTypes'
    BY <2>1, <2>2 DEF Parts, PlaceTypes
  <2>7. CallTypes'
    BY <2>2, <1>CallsGrow DEF Parts
  <2> QED  BY <2>2, <2>4, <2>5, <2>6, <2>7 DEF Parts

<1>ForkTypes. ASSUME Parts, ActivateBestChainStep
              PROVE  Parts'
  <2> USE <1>ForkTypes
  <2>1. PICK fork \in Chain[tip] \cap Chain[abc.mostWork] : tip' = fork
    BY DEF ActivateBestChainStep
  <2>2. /\ UNCHANGED <<verdict, known, data, linked, unlinked, cand, bestHeader, want, inv>>
        /\ UNCHANGED <<failedValid, failedChild, bestInvalid, seq, nextSeq, revSeq, lastPrecious>>
        /\ proc' = "connect" /\ abc' = [abc EXCEPT !.old = tip]
    BY DEF ActivateBestChainStep, index, flags, order
  <2>3. fork \in linked
    BY DEF Parts, PlaceTypes, Rooted
  <2>4. IndexTypes' /\ FlagTypes' /\ OrderTypes' /\ PlaceTypes' /\ Rooted'
    BY <2>1, <2>2, <2>3 DEF Parts, IndexTypes, FlagTypes, OrderTypes, PlaceTypes, Rooted
  <2>5. CallTypes'
    BY <2>2 DEF Parts, CallTypes, PlaceTypes
  <2> QED  BY <2>2, <2>4, <2>5 DEF Parts

\* The end of a step keeps the locals linked.
<1>EndStepTypes. ASSUME Parts, NEW t, NEW m \in linked \cup {Null}, EndStep(t, m)
                 PROVE  /\ proc' \in {"find", "idle", "released"}
                        /\ abc' \in [mostWork : linked \cup {Null}, start : linked \cup {Null},
                                     old : linked \cup {Null}]
  <2> USE <1>EndStepTypes
  <2>1. \/ proc' = "find" /\ abc' = [abc EXCEPT !.mostWork = m, !.old = Null]
        \/ /\ proc' \in {"idle", "released"}
           /\ abc' \in {NoCall, [NoCall EXCEPT !.mostWork = m]}
    BY DEF EndStep
  <2>2. CASE proc' = "find" /\ abc' = [abc EXCEPT !.mostWork = m, !.old = Null]
    BY <2>2 DEF Parts, CallTypes
  <2>3. CASE /\ proc' \in {"idle", "released"}
             /\ abc' \in {NoCall, [NoCall EXCEPT !.mostWork = m]}
    BY SMT, <2>3 DEF NoCall
  <2> QED  BY <2>1, <2>2, <2>3

<1>ConnectTypes. ASSUME StateInv, Parts, NEW c \in Block, ConnectTip(c)
                 PROVE  Parts'
  <2> USE <1>ConnectTypes
  <2>1. /\ UNCHANGED <<verdict, known, data, linked, unlinked, bestHeader, want, inv>>
        /\ UNCHANGED <<failedValid, failedChild, bestInvalid, seq, nextSeq, revSeq, lastPrecious>>
        /\ tip' = c /\ cand' \subseteq cand
        /\ c \in Chain[abc.mostWork] /\ proc = "connect"
    BY DEF ConnectTip, PruneBlockIndexCandidates, IsNext, index, flags, order
  <2>2. abc.mostWork \in linked
    BY <2>1 DEF StateInv, Owner, Parts, CallTypes
  <2>3. c \in linked
    BY <2>1, <2>2 DEF Parts, Rooted
  <2>4. IndexTypes' /\ FlagTypes' /\ OrderTypes' /\ PlaceTypes' /\ Rooted'
    BY <2>1, <2>3 DEF Parts, IndexTypes, FlagTypes, OrderTypes, PlaceTypes, Rooted
  <2>5. CallTypes'
    <3>1. CASE EndStep(c, abc.mostWork)
      <4>1. /\ proc' \in {"find", "idle", "released"}
            /\ abc' \in [mostWork : linked \cup {Null}, start : linked \cup {Null},
                         old : linked \cup {Null}]
        BY <2>2, <3>1, <1>EndStepTypes
      <4> QED  BY <2>1, <4>1 DEF Parts, CallTypes
    <3>2. CASE UNCHANGED <<proc, abc>>
      BY <2>1, <3>2, <1>CallsGrow DEF Parts
    <3> QED  BY <3>1, <3>2 DEF ConnectTip
  <2> QED  BY <2>1, <2>4, <2>5 DEF Parts

<1>ConnectFailsTypes. ASSUME StateInv, Parts, NEW c \in Block, ConnectTipFails(c)
                      PROVE  Parts'
  <2> USE <1>ConnectFailsTypes
  <2>1. /\ UNCHANGED <<verdict, known, data, linked, unlinked, tip, want, inv>>
        /\ UNCHANGED <<seq, nextSeq, revSeq, lastPrecious>>
        /\ cand' \subseteq cand /\ proc = "connect"
        /\ c \in Chain[abc.mostWork]
        /\ InvalidChainFound(failedValid \cup {c}, c, abc.mostWork, bestHeader)
        /\ EndStep(tip, Null)
    BY DEF ConnectTipFails, IsNext, index, order
  <2>2. abc.mostWork \in linked
    BY <2>1 DEF StateInv, Owner, Parts, CallTypes
  <2>3. c \in known /\ abc.mostWork \in known
    BY <2>1, <2>2 DEF Parts, Rooted, IndexTypes
  <2>4. failedValid \cup {c} \in SUBSET known /\ bestHeader \in known
    BY <2>3 DEF Parts, FlagTypes, PlaceTypes
  <2>5. /\ failedValid' \in SUBSET known /\ failedChild' \in SUBSET known
        /\ bestInvalid' \in known \cup {Null} /\ bestHeader' \in known
    BY <2>1, <2>3, <2>4, <1>ChainFoundTypes
  <2>6. IndexTypes' /\ FlagTypes' /\ OrderTypes' /\ PlaceTypes' /\ Rooted'
    BY <2>1, <2>5 DEF Parts, IndexTypes, FlagTypes, OrderTypes, PlaceTypes, Rooted
  <2>7. CallTypes'
    <3>1. /\ proc' \in {"find", "idle", "released"}
          /\ abc' \in [mostWork : linked \cup {Null}, start : linked \cup {Null},
                       old : linked \cup {Null}]
      BY <2>1, <1>EndStepTypes
    <3> QED  BY <2>1, <3>1 DEF Parts, CallTypes
  <2> QED  BY <2>1, <2>6, <2>7 DEF Parts

<1>InvalidateTypes. ASSUME Parts, NEW b \in Invalidable, InvalidateBlock(b)
                    PROVE  Parts'
  <2> USE <1>InvalidateTypes
  <2>1. /\ UNCHANGED <<verdict, known, data, linked, unlinked, cand, tip, bestHeader, want, abc>>
        /\ UNCHANGED <<failedValid, failedChild, bestInvalid, seq, nextSeq, revSeq, lastPrecious>>
        /\ b \in known /\ proc' = "walk"
        /\ inv' = [pindex |-> b, toMark |-> b, wasInChain |-> FALSE,
                   highpow |-> {c \in known \ (Chain[tip] \cup Failed) :
                                   ~Worse(seq, c, Parent[b])}]
    BY DEF InvalidateBlock, Collected, index, flags, order
  <2>2. IndexTypes' /\ FlagTypes' /\ OrderTypes' /\ PlaceTypes' /\ Rooted'
    BY <2>1 DEF Parts, IndexTypes, FlagTypes, OrderTypes, PlaceTypes, Rooted
  <2>3. CallTypes'
    BY <2>1 DEF Parts, CallTypes
  <2> QED  BY <2>1, <2>2, <2>3 DEF Parts

<1>InvalidateTipTypes. ASSUME StateInv, Parts, InvalidateTip
                       PROVE  Parts'
  <2> USE <1>InvalidateTipTypes
  <2> DEFINE p == Parent[tip]
             high == {d \in inv.highpow : Work[d] >= Work[p]}
             dead == {c \in high : tip \in Chain[c]}
             child == dead \cup (IF tip = Parent[inv.toMark]
                                 THEN {inv.toMark} \cap failedValid ELSE {})
  <2>1. /\ UNCHANGED <<verdict, known, data, linked, unlinked, bestInvalid, want, proc, abc>>
        /\ UNCHANGED <<seq, nextSeq, revSeq, lastPrecious>>
        /\ proc = "walk" /\ inv.pindex \in Chain[tip] /\ tip' = p
        /\ failedValid' = (failedValid \cup {tip}) \ child
        /\ failedChild' = failedChild \cup child
        /\ cand' \subseteq cand \cup {p} \cup linked
        /\ bestHeader' = bestHeader \/ bestHeader' \in RecalculateBestHeader(p, high \ dead, {})
        /\ inv' = [inv EXCEPT !.toMark = tip, !.wasInChain = TRUE,
                              !.highpow = @ \ dead]
    BY DEF InvalidateTip, index, order
  <2>2. inv.pindex \in Invalidable /\ inv.pindex # Genesis /\ tip \in Block
    BY <2>1, InputAssumption DEF StateInv, Owner, Types
  <2>3. tip # Genesis
    BY SMT, <2>1, <2>2, ChainTree
  <2>4. p \in Chain[tip] /\ tip \in linked /\ tip \in known
    BY SMT, <2>2, <2>3, TreeFacts DEF Parts, PlaceTypes, IndexTypes
  <2>5. p \in linked /\ p \in known
    BY <2>4 DEF Parts, Rooted, IndexTypes
  <2>6. inv.highpow \subseteq known
    BY DEF Parts, CallTypes
  <2>7. dead \subseteq known /\ high \subseteq known /\ child \subseteq known
    BY <2>6 DEF Parts, FlagTypes
  <2> HIDE DEF p, high, dead, child
  <2>8. bestHeader' \in known
    BY SMT, <2>1, <2>5, <2>7, <1>HeaderIn DEF Parts, PlaceTypes
  <2>9. IndexTypes' /\ FlagTypes' /\ OrderTypes' /\ PlaceTypes' /\ Rooted'
    BY <2>1, <2>4, <2>5, <2>7, <2>8 DEF Parts, IndexTypes, FlagTypes, OrderTypes, PlaceTypes, Rooted
  <2>10. inv' \in [pindex : known \cup {Null}, toMark : known \cup {Null},
                   wasInChain : BOOLEAN, highpow : SUBSET known]
    BY <2>1, <2>4 DEF Parts, CallTypes
  <2>11. CallTypes'
    BY <2>1, <2>10 DEF Parts, CallTypes
  <2> QED  BY <2>1, <2>9, <2>11 DEF Parts

<1>FinishTypes. ASSUME StateInv, Parts, FinishInvalidate
                PROVE  Parts'
  <2> USE <1>FinishTypes
  <2> DEFINE self == IF inv.wasInChain THEN {} ELSE {inv.pindex} \ Failed
  <2>1. /\ UNCHANGED <<verdict, known, data, linked, unlinked, tip, abc>>
        /\ UNCHANGED <<seq, nextSeq, revSeq, lastPrecious>>
        /\ proc = "walk" /\ proc' = "idle" /\ want' = TRUE
        /\ InvalidChainFound(failedValid \cup self, inv.toMark, inv.toMark, bestHeader)
        /\ cand' \subseteq cand \cup linked
        /\ inv' = NoHighpow
    BY DEF FinishInvalidate, Rescanned, index, order
  <2>2. inv.pindex \in known /\ inv.toMark \in known
    <3>1. inv.pindex \in Block /\ inv.toMark \in Block
      BY <2>1, InputAssumption DEF StateInv, Owner
    <3>2. Null \notin Block
      BY ChainAssumption
    <3> QED  BY <3>1, <3>2 DEF Parts, CallTypes
  <2>3. failedValid \cup self \in SUBSET known /\ bestHeader \in known
    BY <2>2 DEF Parts, FlagTypes, PlaceTypes
  <2> HIDE DEF self
  <2>4. /\ failedValid' \in SUBSET known /\ failedChild' \in SUBSET known
        /\ bestInvalid' \in known \cup {Null} /\ bestHeader' \in known
    BY <2>1, <2>2, <2>3, <1>ChainFoundTypes
  <2>5. IndexTypes' /\ FlagTypes' /\ OrderTypes' /\ PlaceTypes' /\ Rooted'
    BY <2>1, <2>4 DEF Parts, IndexTypes, FlagTypes, OrderTypes, PlaceTypes, Rooted
  <2>6. CallTypes'
    BY <2>1 DEF Parts, CallTypes, NoHighpow
  <2> QED  BY <2>1, <2>5, <2>6 DEF Parts

<1>ReconsiderTypes. ASSUME Parts, NEW b \in Reconsiderable, ReconsiderBlock(b)
                    PROVE  Parts'
  <2> USE <1>ReconsiderTypes
  <2>1. /\ UNCHANGED <<verdict, known, data, linked, unlinked, tip>>
        /\ UNCHANGED <<seq, nextSeq, revSeq, lastPrecious>> /\ UNCHANGED <<proc, abc, inv>>
        /\ want' = TRUE
        /\ failedValid' \subseteq failedValid /\ failedChild' \subseteq failedChild
        /\ bestInvalid' \in {Null, bestInvalid}
        /\ bestHeader' \in RecalculateBestHeader(tip, known, Failed \ Reset(b))
        /\ cand' \subseteq cand \cup linked
    BY DEF ReconsiderBlock, index, order
  <2>2. tip \in known
    BY DEF Parts, PlaceTypes, IndexTypes
  <2>3. bestHeader' \in known
    BY SMT, <2>1, <2>2, <1>HeaderIn
  <2>4. IndexTypes' /\ FlagTypes' /\ OrderTypes' /\ PlaceTypes' /\ Rooted'
    BY <2>1, <2>3 DEF Parts, IndexTypes, FlagTypes, OrderTypes, PlaceTypes, Rooted
  <2>5. CallTypes'
    BY <2>1, <1>CallsGrow DEF Parts
  <2> QED  BY <2>1, <2>4, <2>5 DEF Parts

<1>PreciousTypes. ASSUME Parts, NEW b \in Precious, PreciousBlock(b)
                  PROVE  Parts'
  <2> USE <1>PreciousTypes
  <2> DEFINE rev == IF Work[tip] > lastPrecious THEN -1 ELSE revSeq
  <2>1. /\ UNCHANGED <<verdict, known, data, linked, unlinked, tip, bestHeader>>
        /\ UNCHANGED <<failedValid, failedChild, bestInvalid, nextSeq, proc, abc, inv>>
        /\ lastPrecious' = Work[tip] /\ want' = TRUE
        /\ seq' = [seq EXCEPT ![b] = rev] /\ revSeq' = rev - 1
        /\ cand' \subseteq cand \cup linked
    BY DEF PreciousBlock, index, flags
  <2>2. rev \in Int
    BY SMT DEF Parts, OrderTypes
  <2>3. Work[tip] \in Nat
    BY WorkAssumption DEF Parts, PlaceTypes, IndexTypes
  <2> HIDE DEF rev
  <2>4. OrderTypes'
    <3>1. seq' \in [Block -> Int]
      BY <2>1, <2>2 DEF Parts, OrderTypes
    <3>2. nextSeq' \in Nat /\ revSeq' \in Int /\ lastPrecious' \in Nat
      BY SMT, <2>1, <2>2, <2>3 DEF Parts, OrderTypes
    <3> QED  BY <3>1, <3>2 DEF OrderTypes
  <2>5. IndexTypes' /\ FlagTypes' /\ PlaceTypes' /\ Rooted'
    BY <2>1 DEF Parts, IndexTypes, FlagTypes, PlaceTypes, Rooted
  <2>6. CallTypes'
    BY <2>1, <1>CallsGrow DEF Parts
  <2> QED  BY <2>1, <2>4, <2>5, <2>6 DEF Parts

<1> SUFFICES ASSUME StateInv, Parts, [Next]_vars PROVE Parts'
  OBVIOUS
<1>1. CASE UNCHANGED vars
  <2>1. CallTypes'
    BY <1>1, <1>CallsGrow DEF Parts, vars, index
  <2>2. IndexTypes' /\ FlagTypes' /\ OrderTypes' /\ PlaceTypes' /\ Rooted'
    BY <1>1 DEF vars, index, flags, order, Parts, IndexTypes, FlagTypes, OrderTypes, PlaceTypes,
                Rooted
  <2> QED  BY <1>1, <2>1, <2>2 DEF Parts, vars
<1>2. CASE Next
  BY <1>2, <1>HeadersTypes, <1>ProcessBlockTypes, <1>LockTypes, <1>DropTypes, <1>ForkTypes,
     <1>ConnectTypes, <1>ConnectFailsTypes, <1>InvalidateTypes, <1>InvalidateTipTypes,
     <1>FinishTypes, <1>ReconsiderTypes,
     <1>PreciousTypes DEF Next
<1> QED  BY <1>1, <1>2

\* The block index, the candidates and the locals of the calls that hold
\* m_chainstate_mutex stay well formed: candidates, the tip and what
\* ActivateBestChain remembers over a release of cs_main are linked blocks, the
\* flags and the best header are of blocks of the index (validation.cpp).
THEOREM ChainStateTypes == Spec => [](TypeOK /\ Rooted)
<1>1. Spec => []Parts
  BY InitTypes, TypesStep, ChainStateInvariant, PTL DEF Spec
<1>2. StateInv => invalidated \in SUBSET Invalidable
  BY DEF StateInv, Types
<1> QED  BY <1>1, <1>2, PartsAre, ChainStateInvariant, PTL

-----------------------------------------------------------------------------
(***************************************************************************)
(* The failure flags are closed upwards.  InvalidateBlock marks one block  *)
(* of the active chain per section of cs_main and the descendants it       *)
(* collected, so until its last section there may be unmarked descendants  *)
(* of the block it marked last, and only of that one.                      *)
(***************************************************************************)
Awaiting(b) ==
    proc = "walk" /\ inv.wasInChain /\ inv.toMark \in Chain[b] /\ b # inv.toMark

Closed ==
    /\ \A b \in known : Chain[b] \cap Failed # {} => b \in Failed \/ Awaiting(b)
    /\ proc = "walk" => /\ inv.toMark \in known /\ inv.toMark # Genesis
                        /\ inv.wasInChain => tip = Parent[inv.toMark]
                        /\ ~inv.wasInChain => inv.toMark = inv.pindex

\* Two blocks that are on each other's chain are the same.
LEMMA ChainAntisymmetric ==
    ASSUME NEW a \in Block, NEW b \in Block, a \in Chain[b], b \in Chain[a]
    PROVE  a = b
<1>1. CASE b = Genesis
  BY <1>1, ChainTree
<1>2. CASE b # Genesis
  <2>1. SUFFICES ASSUME a # b PROVE FALSE
    OBVIOUS
  <2>2. a \in Chain[Parent[b]] /\ Parent[b] \in Block /\ b \notin Chain[Parent[b]]
    BY SMT, <1>2, <2>1, ChainTree
  <2> QED  BY <2>2, TreeFacts
<1> QED  BY <1>1, <1>2

LEMMA FailedKnown ==
    ASSUME Parts
    PROVE  Failed \subseteq known /\ known \subseteq Block
  BY DEF Parts, FlagTypes, IndexTypes, Failed

\* What InvalidChainFound marks.
LEMMA FoundMarks ==
    ASSUME NEW fv, NEW n, NEW last, NEW header, InvalidChainFound(fv, n, last, header)
    PROVE  /\ Failed' = fv \cup failedChild \cup Descendants(n)
           /\ failedValid' = fv \ Descendants(n)
  BY DEF InvalidChainFound, Failed

\* FindMostWorkChain marks only what is marked already.
LEMMA DropMarksNothing ==
    ASSUME Parts, Closed, DropCandidate
    PROVE  Failed' = Failed
<1>1. PICK b \in cand : \E x \in FailedOnPath(b) :
          failedChild' = failedChild \cup (Chain[b] \ Chain[x])
  BY DEF DropCandidate
<1>2. PICK x \in FailedOnPath(b) : failedChild' = failedChild \cup (Chain[b] \ Chain[x])
  BY <1>1
<1>3. b \in known /\ b \in Block /\ Chain[b] \subseteq known /\ x \in Chain[b] /\ x \in Failed
  BY FailedKnown DEF Parts, PlaceTypes, IndexTypes, Rooted, FailedOnPath
<1>4. ASSUME NEW y \in Chain[b] \ Chain[x] PROVE y \in Failed
  <2>1. x \in Chain[y] /\ y \in known
    BY <1>3, TreeFacts
  <2> QED  BY <1>3, <2>1 DEF Closed, Awaiting, DropCandidate
<1> QED  BY <1>2, <1>4 DEF DropCandidate, Failed

\* What a round of InvalidateBlock marks: the tip and descendants of it.
LEMMA InvalidateTipMarks ==
    ASSUME StateInv, Parts, InvalidateTip
    PROVE  /\ proc = "walk" /\ tip \in known \ {Genesis} /\ tip' = Parent[tip]
           /\ Parent[tip] \in Chain[tip]
           /\ \E dead \in SUBSET inv.highpow :
                 /\ \A c \in inv.highpow :
                       c \in dead <=> Work[c] >= Work[Parent[tip]] /\ tip \in Chain[c]
                 /\ Failed' = Failed \cup {tip} \cup dead
                 /\ inv' = [inv EXCEPT !.toMark = tip, !.wasInChain = TRUE,
                                       !.highpow = @ \ dead]
<1> DEFINE high == {c \in inv.highpow : Work[c] >= Work[Parent[tip]]}
           dead == {c \in high : tip \in Chain[c]}
           child == dead \cup (IF tip = Parent[inv.toMark]
                               THEN {inv.toMark} \cap failedValid ELSE {})
<1>1. /\ proc = "walk" /\ inv.pindex \in Chain[tip] /\ tip' = Parent[tip]
      /\ failedValid' = (failedValid \cup {tip}) \ child
      /\ failedChild' = failedChild \cup child
      /\ inv' = [inv EXCEPT !.toMark = tip, !.wasInChain = TRUE, !.highpow = @ \ dead]
  BY DEF InvalidateTip
<1>2. tip \in known \ {Genesis} /\ Parent[tip] \in Chain[tip]
  <2>1. inv.pindex \in Invalidable /\ inv.pindex # Genesis /\ tip \in Block
    BY <1>1, InputAssumption DEF StateInv, Owner, Types
  <2>2. tip # Genesis
    BY SMT, <1>1, <2>1, ChainTree
  <2> QED  BY SMT, <2>1, <2>2, TreeFacts DEF Parts, PlaceTypes, IndexTypes
<1>3. Failed' = Failed \cup {tip} \cup dead
  BY <1>1 DEF Failed
<1>4. dead \in SUBSET inv.highpow
      /\ \A c \in inv.highpow : c \in dead <=> Work[c] >= Work[Parent[tip]] /\ tip \in Chain[c]
  OBVIOUS
<1> QED  BY <1>1, <1>2, <1>3, <1>4

LEMMA FinishClosed ==
    ASSUME StateInv, Parts, Closed, FinishInvalidate
    PROVE  /\ Closed' /\ proc' = "idle"
           /\ Failed' = Failed \cup (IF inv.wasInChain THEN {} ELSE {inv.pindex})
                               \cup Descendants(inv.toMark)
<1> DEFINE self == IF inv.wasInChain THEN {} ELSE {inv.pindex} \ Failed
<1>1. /\ proc = "walk" /\ proc' = "idle" /\ known' = known
      /\ InvalidChainFound(failedValid \cup self, inv.toMark, inv.toMark, bestHeader)
  BY DEF FinishInvalidate, index
<1>2. Failed' = Failed \cup self \cup Descendants(inv.toMark)
  BY SMT, <1>1, FoundMarks DEF Failed
<1>3. inv.toMark \in Block /\ (~inv.wasInChain => inv.pindex = inv.toMark)
  BY <1>1, FailedKnown DEF Closed
<1>4. ASSUME NEW b \in known, Chain[b] \cap Failed' # {} PROVE b \in Failed'
  <2>1. b \in Block
    BY FailedKnown
  <2>2. CASE Chain[b] \cap Failed # {}
    BY <1>2, <2>2 DEF Closed, Awaiting, Descendants
  <2>3. CASE Chain[b] \cap self # {}
    BY <1>2, <1>3, <2>3 DEF Descendants
  <2>4. CASE Chain[b] \cap Descendants(inv.toMark) # {}
    <3>1. PICK x \in Chain[b] : x \in known /\ inv.toMark \in Chain[x] /\ x # inv.toMark
      BY <2>4 DEF Descendants
    <3>2. b # inv.toMark
      BY <1>3, <2>1, <3>1, ChainAntisymmetric, FailedKnown
    <3> QED  BY SMT, <1>2, <2>1, <3>1, <3>2, TreeFacts DEF Descendants
  <2> QED  BY <1>2, <1>4, <2>2, <2>3, <2>4
<1>5. Closed'
  BY <1>1, <1>4 DEF Closed
<1> QED  BY <1>1, <1>2, <1>5

LEMMA ReconsiderClosed ==
    ASSUME Parts, Closed, NEW r \in Reconsiderable, ReconsiderBlock(r)
    PROVE  Closed' /\ Failed' = Failed \ Reset(r)
<1>1. Failed' = Failed \ Reset(r) /\ known' = known /\ UNCHANGED <<proc, inv, tip>>
      /\ r \in Block
  BY FailedKnown DEF ReconsiderBlock, index, Failed
<1>2. ASSUME NEW b \in known, Chain[b] \cap Failed' # {}
      PROVE  b \in Failed' \/ Awaiting(b)
  <2>1. PICK x \in Chain[b] : x \in Failed /\ r \notin Chain[x] /\ x \notin Chain[r]
    BY <1>1, <1>2 DEF Reset
  <2>2. b \in Block
    BY FailedKnown
  <2>3. b \in Failed \/ Awaiting(b)
    BY <2>1 DEF Closed
  <2>4. r \notin Chain[b] /\ b \notin Chain[r]
    BY <1>1, <2>1, <2>2, TreeFacts
  <2> QED  BY <1>1, <2>3, <2>4 DEF Reset
<1> QED  BY <1>1, <1>2 DEF Closed, Awaiting

LEMMA ClosedStep == StateInv /\ Parts /\ Closed /\ [Next]_vars => Closed'

\* A header joins above a block that has not failed.
<1>HeaderClosed. ASSUME Parts, Closed, NEW b \in Block \ {Genesis}, HeaderAccepted(b),
                        Chain[b] \cap Failed # {}
                 PROVE  b \in Failed \/ Awaiting(b)
  <2> USE <1>HeaderClosed
  <2>1. CASE b \in known
    BY <2>1 DEF Closed
  <2>2. CASE b \notin known
    <3> DEFINE p == Parent[b]
    <3>1. p \in known /\ p \notin Failed /\ p \in Block
      BY <2>2, TreeFacts DEF HeaderAccepted
    <3>2. Chain[b] = Chain[p] \cup {b} /\ Chain[p] \subseteq known
      BY <3>1, ChainTree DEF Parts, Rooted
    <3>3. Chain[p] \cap Failed # {}
      BY <2>2, <3>2, FailedKnown
    <3>4. Awaiting(p)
      BY <3>1, <3>3 DEF Closed
    <3> QED  BY <2>2, <3>2, <3>4 DEF Awaiting
  <2> QED  BY <2>1, <2>2

\* InvalidChainFound(n) keeps the flags closed.
<1>MarkClosed.
      ASSUME Parts, Closed, NEW n \in Block,
             known' = known \/ (known' = known \cup {n} /\ n # Genesis /\ HeaderAccepted(n)),
             Failed' = Failed \cup {n} \cup Descendants(n),
             NEW b \in known', Chain[b] \cap Failed' # {}
      PROVE  b \in Failed' \/ Awaiting(b)
  <2> USE <1>MarkClosed
  <2>1. b \in Block
    BY FailedKnown
  <2>2. CASE Chain[b] \cap Failed # {}
    <3>1. CASE b \in known
      BY <2>2, <3>1 DEF Closed
    <3>2. CASE b \notin known
      BY <2>2, <3>2, <1>HeaderClosed
    <3> QED  BY <3>1, <3>2
  <2>3. CASE Chain[b] \cap ({n} \cup Descendants(n)) # {}
    <3>1. n \in Chain[b]
      BY SMT, <2>1, <2>3, TreeFacts DEF Descendants
    <3>2. b = n \/ b \in Descendants(n)
      BY <3>1 DEF Descendants
    <3> QED  BY <3>2
  <2> QED  BY <2>2, <2>3

\* A step that leaves the flags and InvalidateBlock alone.
<1>SameClosed. ASSUME Parts, Closed, Failed' = Failed, known' = known, proc # "walk", proc' # "walk"
               PROVE  Closed'
  BY <1>SameClosed DEF Closed, Awaiting

<1>HeadersClosed. ASSUME Parts, Closed, NEW b \in Block \ {Genesis}, ProcessNewBlockHeaders(b)
                  PROVE  Closed'
  <2> USE <1>HeadersClosed
  <2>1. /\ HeaderAccepted(b) /\ known' = known \cup {b}
        /\ Failed' = Failed /\ UNCHANGED <<proc, inv, tip>>
    BY DEF ProcessNewBlockHeaders, flags, Failed
  <2>2. ASSUME NEW c \in known', Chain[c] \cap Failed' # {}
        PROVE  (c \in Failed \/ Awaiting(c))'
    BY <2>1, <2>2, <1>HeaderClosed DEF Closed, Awaiting
  <2> QED  BY <2>1, <2>2 DEF Closed

<1>ProcessBlockClosed.
      ASSUME Parts, Closed, NEW b \in Block \ {Genesis}, NEW r \in BOOLEAN, ProcessNewBlock(b, r)
      PROVE  Closed'
  <2> USE <1>ProcessBlockClosed
  <2>1. /\ HeaderAccepted(b) /\ known' = known \cup {b} /\ UNCHANGED <<proc, inv, tip>>
        /\ \/ UNCHANGED flags
           \/ InvalidChainFound(failedValid \cup {b}, b, b, HeaderAfter(b))
    BY DEF ProcessNewBlock
  <2>2. \/ Failed' = Failed
        \/ Failed' = Failed \cup {b} \cup Descendants(b)
    BY SMT, <2>1, FoundMarks DEF flags, Failed
  <2>3. ASSUME NEW c \in known', Chain[c] \cap Failed' # {}
        PROVE  (c \in Failed \/ Awaiting(c))'
    <3>1. c \in Failed' \/ Awaiting(c)
      BY <2>1, <2>2, <2>3, <1>HeaderClosed, <1>MarkClosed DEF Closed
    <3> QED  BY <2>1, <3>1 DEF Awaiting
  <2> QED  BY <2>1, <2>3 DEF Closed

<1>ConnectFailsClosed. ASSUME StateInv, Parts, Closed, NEW c \in Block, ConnectTipFails(c)
                       PROVE  Closed'
  <2> USE <1>ConnectFailsClosed
  <2>1. /\ proc = "connect" /\ known' = known /\ proc' # "walk"
        /\ c \in Chain[abc.mostWork] \ Chain[tip]
        /\ InvalidChainFound(failedValid \cup {c}, c, abc.mostWork, bestHeader)
    BY DEF ConnectTipFails, IsNext, index, EndStep
  <2>2. abc.mostWork \in linked
    BY <2>1 DEF StateInv, Owner, Parts, CallTypes
  <2>3. c \in known
    BY <2>1, <2>2 DEF Parts, Rooted, IndexTypes
  <2>4. Failed' = Failed \cup {c} \cup Descendants(c)
    BY SMT, <2>1, FoundMarks DEF Failed
  <2>5. \A b \in known' : Chain[b] \cap Failed' # {} => b \in Failed' \/ Awaiting(b)
    BY <2>1, <2>3, <2>4, <1>MarkClosed
  <2> QED  BY <2>1, <2>5 DEF Closed, Awaiting

<1>InvalidateClosed. ASSUME Parts, Closed, NEW b \in Invalidable, InvalidateBlock(b)
                     PROVE  Closed'
  <2> USE <1>InvalidateClosed
  <2>1. /\ Failed' = Failed /\ known' = known /\ proc = "idle" /\ proc' = "walk" /\ b \in known
        /\ inv'.toMark = b /\ inv'.pindex = b /\ inv'.wasInChain = FALSE
    BY DEF InvalidateBlock, index, flags, Failed
  <2>2. b # Genesis
    BY InputAssumption
  <2> QED  BY <2>1, <2>2 DEF Closed, Awaiting

<1>InvalidateTipClosed. ASSUME StateInv, Parts, Closed, InvalidateTip
                        PROVE  Closed'
  <2> USE <1>InvalidateTipClosed
  <2>1. proc = "walk" /\ tip \in known \ {Genesis} /\ tip' = Parent[tip]
    BY InvalidateTipMarks
  <2>2. PICK dead \in SUBSET inv.highpow :
           /\ \A c \in inv.highpow :
                 c \in dead <=> Work[c] >= Work[Parent[tip]] /\ tip \in Chain[c]
           /\ Failed' = Failed \cup {tip} \cup dead
           /\ inv' = [inv EXCEPT !.toMark = tip, !.wasInChain = TRUE, !.highpow = @ \ dead]
    BY InvalidateTipMarks
  <2>3. inv'.toMark = tip /\ inv'.wasInChain = TRUE
    BY <2>2 DEF Parts, CallTypes
  <2>4. known' = known /\ proc' = "walk"
    BY <2>1 DEF InvalidateTip, index
  <2>5. ASSUME NEW b \in known, Chain[b] \cap Failed' # {}
        PROVE  b \in Failed' \/ (tip \in Chain[b] /\ b # tip)
    <3>1. b \in Block
      BY FailedKnown
    <3>2. CASE Chain[b] \cap Failed # {}
      <4>1. b \in Failed \/ Awaiting(b)
        BY <3>2 DEF Closed
      <4>2. Awaiting(b) => tip \in Chain[b]
        BY SMT, <3>1, TreeFacts, FailedKnown DEF Awaiting, Closed
      <4> QED  BY <2>2, <4>1, <4>2
    <3>3. CASE Chain[b] \cap ({tip} \cup dead) # {}
      <4>1. tip \in Chain[b]
        BY SMT, <2>2, <3>1, <3>3, TreeFacts
      <4> QED  BY <2>2, <4>1
    <3> QED  BY <2>2, <2>5, <3>2, <3>3
  <2>6. \A b \in known' : Chain[b] \cap Failed' # {} => b \in Failed' \/ Awaiting(b)'
    BY <2>3, <2>4, <2>5 DEF Awaiting
  <2> QED  BY <2>1, <2>3, <2>4, <2>6 DEF Closed

<1> SUFFICES ASSUME StateInv, Parts, Closed, [Next]_vars PROVE Closed'
  OBVIOUS
<1>1. CASE UNCHANGED vars
  BY <1>1 DEF vars, index, flags, Closed, Awaiting, Failed
<1>2. CASE ActivateBestChain \/ NextRound \/ FindMostWorkChain \/ AlreadyBest
           \/ ActivateBestChainStep \/ \E c \in Block : ConnectTip(c)
  <2>1. Failed' = Failed /\ known' = known /\ proc # "walk" /\ proc' # "walk"
    BY <1>2 DEF ActivateBestChain, NextRound, FindMostWorkChain, AlreadyBest,
                ActivateBestChainStep, ConnectTip, EndStep, flags, index, Failed
  <2> QED  BY <2>1, <1>SameClosed
<1>3. CASE DropCandidate
  <2>1. known' = known /\ proc # "walk" /\ proc' # "walk"
    BY <1>3 DEF DropCandidate, index
  <2> QED  BY <1>3, <2>1, DropMarksNothing, <1>SameClosed
<1>4. CASE \E b \in Precious : PreciousBlock(b)
  BY <1>4 DEF PreciousBlock, index, flags, Closed, Awaiting, Failed
<1> QED
  BY <1>1, <1>2, <1>3, <1>4, <1>HeadersClosed, <1>ProcessBlockClosed, <1>ConnectFailsClosed,
     <1>InvalidateClosed, <1>InvalidateTipClosed, FinishClosed, ReconsiderClosed DEF Next

LEMMA InitClosed == Init => Closed
  BY DEF Init, Closed, Failed

\* CheckBlockIndex: between two operations, and two rounds of
\* ActivateBestChain, every known descendant of a failed block is marked,
\* however headers, blocks and reconsiderblock calls fell into the gaps of
\* InvalidateBlock.
THEOREM FailuresClosed == Spec => []FailureClosed
<1>1. Spec => [](StateInv /\ Parts)
  BY InitTypes, TypesStep, ChainStateInvariant, PTL DEF Spec
<1>2. Spec => []Closed
  BY <1>1, InitClosed, ClosedStep, PTL DEF Spec
<1>3. Closed => FailureClosed
  BY DEF Closed, FailureClosed, Settled, Awaiting, Failed
<1> QED  BY <1>2, <1>3, PTL

-----------------------------------------------------------------------------
(***************************************************************************)
(* The order of the candidates.  No candidate ever sorts before the tip,   *)
(* nor before the tip that ActivateBestChain took cs_main with.            *)
(***************************************************************************)
Ranked ==
    /\ \A x \in cand : ~Worse(seq, x, tip)
    /\ Held => /\ abc.start \in linked
               /\ \A x \in cand : ~Worse(seq, x, abc.start)
               /\ abc.mostWork # Null => ~Worse(seq, abc.mostWork, abc.start)
    /\ proc = "released" /\ abc.mostWork # Null => Work[abc.mostWork] > Work[tip]

\* CBlockIndexWorkComparator is a strict total order.
LEMMA WorseOrder ==
    ASSUME NEW s \in [Block -> Int], NEW a \in Block, NEW b \in Block
    PROVE  /\ ~Worse(s, a, a)
           /\ Worse(s, a, b) => ~Worse(s, b, a)
           /\ a = b \/ Worse(s, a, b) \/ Worse(s, b, a)
           /\ Work[a] < Work[b] => Worse(s, a, b)
           /\ Worse(s, a, b) => Work[a] <= Work[b]
<1>1. Work[a] \in Nat /\ Work[b] \in Nat /\ Addr[a] \in Nat /\ Addr[b] \in Nat
      /\ s[a] \in Int /\ s[b] \in Int /\ (Addr[a] = Addr[b] => a = b)
  BY WorkAssumption
<1> QED  BY SMT, <1>1 DEF Worse

LEMMA WorseTransitive ==
    ASSUME NEW s \in [Block -> Int], NEW a \in Block, NEW b \in Block, NEW c \in Block
    PROVE  /\ Worse(s, a, b) /\ Worse(s, b, c) => Worse(s, a, c)
           /\ ~Worse(s, a, b) /\ ~Worse(s, b, c) => ~Worse(s, a, c)
<1>1. /\ Work[a] \in Nat /\ Work[b] \in Nat /\ Work[c] \in Nat
      /\ Addr[a] \in Nat /\ Addr[b] \in Nat /\ Addr[c] \in Nat
      /\ s[a] \in Int /\ s[b] \in Int /\ s[c] \in Int
  BY WorkAssumption
<1> QED  BY SMT, <1>1 DEF Worse

\* The tip, the candidates and the locals are blocks, with sequence numbers.
LEMMA Places ==
    ASSUME Parts
    PROVE  /\ seq \in [Block -> Int] /\ tip \in Block /\ tip \in linked
           /\ linked \subseteq Block /\ linked \subseteq data
           /\ cand \subseteq linked
           /\ abc.start \in linked \cup {Null} /\ abc.mostWork \in linked \cup {Null}
           /\ Null \notin Block
  BY ChainTree DEF Parts, OrderTypes, PlaceTypes, IndexTypes, CallTypes

\* The two ways ProcessNewBlock(b) ends, as far as the choice of the tip goes:
\* what it links becomes a candidate unless it sorts before the tip, or b and
\* its descendants are marked.
BlockTaken ==
    /\ Failed' = Failed /\ failedValid' = failedValid /\ want' = TRUE
    /\ cand' = cand \cup {x \in linked' \ linked : ~Worse(seq', x, tip)}
BlockRejected(b) ==
    /\ b \notin data /\ linked' = linked /\ seq' = seq /\ want' = want
    /\ Failed' = Failed \cup {b} \cup Descendants(b)
    /\ failedValid' = (failedValid \cup {b}) \ Descendants(b)
    /\ cand' = cand \ {b}

\* ProcessNewBlock leaves the order of linked blocks alone, and what it links
\* becomes a candidate unless it sorts before the tip.
LEMMA ProcessBlockEffect ==
    ASSUME Parts, NEW b \in Block \ {Genesis}, NEW r \in BOOLEAN, ProcessNewBlock(b, r)
    PROVE  /\ ~Held /\ UNCHANGED <<tip, proc, abc, inv>>
           /\ linked \subseteq linked' /\ \A x \in linked : seq'[x] = seq[x]
           /\ BlockTaken \/ BlockRejected(b)
<1>1. ~Held /\ UNCHANGED <<tip, proc, abc, inv>>
  BY DEF ProcessNewBlock, Free
<1>2. \/ /\ want' = TRUE /\ UNCHANGED <<data, linked, unlinked, flags, order, cand>>
      \/ /\ b \notin data /\ cand' = cand \ {b}
         /\ InvalidChainFound(failedValid \cup {b}, b, b, HeaderAfter(b))
         /\ UNCHANGED <<data, linked, unlinked, order, want>>
      \/ /\ b \notin data /\ ReceivedBlockTransactions(b) /\ want' = TRUE /\ UNCHANGED flags
  BY DEF ProcessNewBlock
<1>3. CASE /\ want' = TRUE /\ UNCHANGED <<data, linked, unlinked, flags, order, cand>>
  BY <1>1, <1>3 DEF flags, order, Failed, BlockTaken
<1>4. CASE /\ b \notin data /\ cand' = cand \ {b}
           /\ InvalidChainFound(failedValid \cup {b}, b, b, HeaderAfter(b))
           /\ UNCHANGED <<data, linked, unlinked, order, want>>
  <2>1. /\ Failed' = Failed \cup {b} \cup Descendants(b)
        /\ failedValid' = (failedValid \cup {b}) \ Descendants(b)
    BY SMT, <1>4, FoundMarks DEF Failed
  <2> QED  BY <1>1, <1>4, <2>1 DEF order, BlockRejected
<1>5. CASE b \notin data /\ ReceivedBlockTransactions(b) /\ want' = TRUE /\ UNCHANGED flags
  <2>1. Failed' = Failed /\ failedValid' = failedValid
    BY <1>5 DEF flags, Failed
  <2>2. CASE Parent[b] \in linked
    <3>1. Link(b) /\ data' = data \cup {b}
      BY <1>5, <2>2 DEF ReceivedBlockTransactions
    <3>2. /\ linked' = linked \cup NewlyLinked(b) /\ NewlyLinked(b) \cap linked = {}
          /\ \A x \in linked : seq'[x] = seq[x]
          /\ cand' = cand \cup {x \in NewlyLinked(b) : ~Worse(seq', x, tip)}
      BY <1>5, <2>2, <3>1, LinkTypes
    <3>3. linked' \ linked = NewlyLinked(b)
      BY <3>2
    <3> QED  BY <1>1, <1>5, <2>1, <3>2, <3>3 DEF BlockTaken
  <2>3. CASE Parent[b] \notin linked
    <3>1. UNCHANGED <<linked, seq, cand>>
      BY <1>5, <2>3 DEF ReceivedBlockTransactions
    <3> QED  BY <1>1, <1>5, <2>1, <3>1 DEF BlockTaken
  <2> QED  BY <2>2, <2>3
<1> QED  BY <1>2, <1>3, <1>4, <1>5

\* The order between linked blocks depends on their numbers only.
LEMMA WorseSame ==
    ASSUME NEW s, NEW t, NEW a, NEW b, s[a] = t[a], s[b] = t[b]
    PROVE  Worse(s, a, b) <=> Worse(t, a, b)
  BY DEF Worse

\* The end of a step keeps start until cs_main is released.
LEMMA EndStepCases ==
    ASSUME Parts, NEW t, NEW m, EndStep(t, m)
    PROVE  \/ /\ Worse(seq, t, abc.start) /\ proc' = "find"
              /\ abc'.start = abc.start /\ abc'.mostWork = m
           \/ /\ ~Worse(seq, t, abc.start) /\ t = m /\ proc' = "idle" /\ abc' = NoCall
           \/ /\ ~Worse(seq, t, abc.start) /\ t # m /\ proc' = "released" /\ abc'.mostWork = m
<1>1. CASE Worse(seq, t, abc.start)
  BY <1>1 DEF EndStep, Parts, CallTypes
<1>2. CASE ~Worse(seq, t, abc.start)
  BY <1>2 DEF EndStep, NoCall
<1> QED  BY <1>1, <1>2

LEMMA RankedStep == StateInv /\ Parts /\ Ranked /\ [Next]_vars => Ranked'

\* What does not sort before the tip does not sort before its ancestors.
<1>BelowTip. ASSUME Parts, NEW x \in Block, NEW f \in Chain[tip], ~Worse(seq, x, tip)
             PROVE  ~Worse(seq, x, f)
  <2> USE <1>BelowTip
  <2>1. tip \in Block /\ f \in Block /\ seq \in [Block -> Int]
    BY Places, TreeFacts
  <2>2. CASE f = tip
    BY <2>2
  <2>3. CASE f # tip
    <3>1. ~Worse(seq, tip, f)
      BY <2>1, <2>3, LighterBelow, WorseOrder
    <3> QED  BY <2>1, <3>1, WorseTransitive
  <2> QED  BY <2>2, <2>3

<1>ProcessBlockRanked.
      ASSUME Parts, Ranked, NEW b \in Block \ {Genesis}, NEW r \in BOOLEAN, ProcessNewBlock(b, r)
      PROVE  Ranked'
  <2> USE <1>ProcessBlockRanked
  <2>1. /\ ~Held /\ UNCHANGED <<tip, proc, abc, inv>>
        /\ \A x \in linked : seq'[x] = seq[x]
        /\ cand' \subseteq cand \cup {x \in linked' \ linked : ~Worse(seq', x, tip)}
    BY ProcessBlockEffect DEF BlockTaken, BlockRejected
  <2>2. ASSUME NEW x \in cand' PROVE ~Worse(seq', x, tip')
    BY <2>1, Places, WorseSame DEF Ranked
  <2>3. ~Held'
    BY <2>1 DEF Held
  <2> QED  BY <2>1, <2>2, <2>3 DEF Ranked

<1>LockRanked.
      ASSUME StateInv, Parts, Ranked,
             ActivateBestChain \/ NextRound \/ FindMostWorkChain \/ AlreadyBest \/ DropCandidate
      PROVE  Ranked'
  <2> USE <1>LockRanked
  <2>1. UNCHANGED <<seq, tip, linked>> /\ cand' \subseteq cand
    BY DEF ActivateBestChain, NextRound, FindMostWorkChain, AlreadyBest, DropCandidate, order, index
  <2>2. \A x \in cand' : ~Worse(seq', x, tip')
    BY <2>1 DEF Ranked
  <2>3. CASE ActivateBestChain
    <3>1. proc' = "find" /\ abc'.start = tip /\ abc'.mostWork = Null
      BY <2>3 DEF ActivateBestChain, NoCall
    <3> QED  BY <2>1, <2>2, <3>1, Places DEF Ranked, Held
  <2>4. CASE NextRound
    <3>1. proc = "released" /\ proc' = "find" /\ abc'.start = tip /\ abc'.mostWork = abc.mostWork
      BY <2>4 DEF NextRound, Parts, CallTypes
    <3>2. abc.mostWork # Null => ~Worse(seq, abc.mostWork, tip)
      BY <3>1, Places, WorseOrder DEF Ranked
    <3> QED  BY <2>1, <2>2, <3>1, <3>2, Places DEF Ranked, Held
  <2>5. CASE FindMostWorkChain
    <3>1. PICK b \in cand : abc' = [abc EXCEPT !.mostWork = b]
      BY <2>5 DEF FindMostWorkChain
    <3>2. proc = "find" /\ proc' = "find" /\ abc'.start = abc.start /\ abc'.mostWork \in cand
      BY <2>5, <3>1 DEF FindMostWorkChain, Parts, CallTypes
    <3> QED  BY <2>1, <2>2, <3>2 DEF Ranked, Held
  <2>6. CASE AlreadyBest
    BY <2>2, <2>6 DEF AlreadyBest, Ranked, Held
  <2>7. CASE DropCandidate
    <3>1. proc = "find" /\ proc' = "find" /\ abc' = abc
      BY <2>7 DEF DropCandidate
    <3> QED  BY <2>1, <2>2, <3>1 DEF Ranked, Held
  <2> QED  BY <2>3, <2>4, <2>5, <2>6, <2>7

<1>ForkRanked. ASSUME Parts, Ranked, ActivateBestChainStep
               PROVE  Ranked'
  <2> USE <1>ForkRanked
  <2>1. PICK fork \in Chain[tip] \cap Chain[abc.mostWork] : tip' = fork
    BY DEF ActivateBestChainStep
  <2>2. /\ UNCHANGED <<seq, cand, linked>> /\ proc = "find" /\ proc' = "connect"
        /\ abc'.start = abc.start /\ abc'.mostWork = abc.mostWork
    BY DEF ActivateBestChainStep, order, index, Parts, CallTypes
  <2>3. ASSUME NEW x \in cand PROVE ~Worse(seq, x, fork)
    BY <2>1, Places, <1>BelowTip DEF Ranked
  <2> QED  BY <2>1, <2>2, <2>3 DEF Ranked, Held

<1>ConnectRanked. ASSUME StateInv, Parts, Ranked, NEW c \in Block, ConnectTip(c)
                  PROVE  Ranked'
  <2> USE <1>ConnectRanked
  <2>1. /\ UNCHANGED <<seq, linked>> /\ proc = "connect" /\ tip' = c
        /\ cand' = {x \in cand : ~Worse(seq, x, c)}
        /\ c \in Chain[abc.mostWork]
        /\ EndStep(c, abc.mostWork) \/ UNCHANGED <<proc, abc>>
    BY DEF ConnectTip, PruneBlockIndexCandidates, IsNext, order, index
  <2>2. abc.mostWork \in linked /\ abc.mostWork \in Block
    BY <2>1, Places DEF StateInv, Owner
  <2>3. c # abc.mostWork => Work[c] < Work[abc.mostWork]
    BY <2>1, <2>2, LighterBelow
  <2>4. \A x \in cand' : ~Worse(seq', x, tip')
    BY <2>1
  <2>5. CASE UNCHANGED <<proc, abc>>
    BY <2>1, <2>4, <2>5 DEF Ranked, Held
  <2>6. CASE EndStep(c, abc.mostWork)
    <3>1. \/ /\ proc' = "find" /\ abc'.start = abc.start /\ abc'.mostWork = abc.mostWork
          \/ proc' = "idle"
          \/ c # abc.mostWork /\ proc' = "released" /\ abc'.mostWork = abc.mostWork
      BY SMT, <2>6, EndStepCases
    <3>2. CASE proc' = "find" /\ abc'.start = abc.start /\ abc'.mostWork = abc.mostWork
      BY <2>1, <2>4, <3>2 DEF Ranked, Held
    <3>3. CASE proc' = "idle"
      BY <2>4, <3>3 DEF Ranked, Held
    <3>4. CASE c # abc.mostWork /\ proc' = "released" /\ abc'.mostWork = abc.mostWork
      <4>1. Work[abc.mostWork] > Work[c]
        BY <2>2, <2>3, <3>4, WorkAssumption
      <4> QED  BY <2>1, <2>4, <3>4, <4>1 DEF Ranked, Held
    <3> QED  BY <3>1, <3>2, <3>3, <3>4
  <2> QED  BY <2>1, <2>5, <2>6

<1>ConnectFailsRanked. ASSUME Parts, Ranked, NEW c \in Block, ConnectTipFails(c)
                       PROVE  Ranked'
  <2> USE <1>ConnectFailsRanked
  <2>1. /\ UNCHANGED <<seq, linked, tip>> /\ proc = "connect" /\ cand' \subseteq cand
        /\ EndStep(tip, Null)
    BY DEF ConnectTipFails, order, index
  <2>2. \A x \in cand' : ~Worse(seq', x, tip')
    BY <2>1 DEF Ranked
  <2>3. \/ proc' = "find" /\ abc'.start = abc.start /\ abc'.mostWork = Null
        \/ proc' = "released" /\ abc'.mostWork = Null
    BY <2>1, EndStepCases, Places
  <2> QED  BY <2>1, <2>2, <2>3 DEF Ranked, Held

<1>WalkRanked.
      ASSUME StateInv, Parts, Ranked,
             (\E b \in Invalidable : InvalidateBlock(b)) \/ InvalidateTip \/ FinishInvalidate
      PROVE  Ranked'
  <2> USE <1>WalkRanked
  <2>1. ~Held' /\ proc' # "released" /\ seq' = seq
    BY DEF InvalidateBlock, InvalidateTip, FinishInvalidate, Held, order
  <2>2. ASSUME NEW x \in cand' PROVE ~Worse(seq, x, tip')
    <3>1. CASE \E b \in Invalidable : InvalidateBlock(b)
      BY <3>1 DEF InvalidateBlock, Ranked
    <3>2. CASE FinishInvalidate
      BY <3>2 DEF FinishInvalidate, Rescanned, Ranked
    <3>3. CASE InvalidateTip
      <4>1. tip' = Parent[tip] /\ Parent[tip] \in Chain[tip] /\ Parent[tip] \in Block
        BY <3>3, InvalidateTipMarks, TreeFacts, Places
      <4>2. x \in cand \/ x = Parent[tip] \/ ~Worse(seq, x, Parent[tip])
        BY <3>3 DEF InvalidateTip
      <4>3. ~Worse(seq, Parent[tip], Parent[tip])
        BY <4>1, Places, WorseOrder
      <4>4. x \in cand => ~Worse(seq, x, Parent[tip])
        BY <4>1, Places, <1>BelowTip DEF Ranked
      <4> QED  BY <4>1, <4>2, <4>3, <4>4
    <3> QED  BY <3>1, <3>2, <3>3
  <2> QED  BY <2>1, <2>2 DEF Ranked

<1>ReconsiderRanked. ASSUME Parts, Ranked, NEW b \in Reconsiderable, ReconsiderBlock(b)
                     PROVE  Ranked'
  <2> USE <1>ReconsiderRanked
  <2>1. /\ UNCHANGED <<seq, tip, proc, abc>> /\ ~Held
        /\ cand' \subseteq cand \cup {c \in linked : Worse(seq, tip, c)}
    BY DEF ReconsiderBlock, order, Free
  <2>2. ASSUME NEW x \in cand' PROVE ~Worse(seq, x, tip)
    BY <2>1, Places, WorseOrder DEF Ranked
  <2> QED  BY <2>1, <2>2 DEF Ranked, Held

<1>PreciousRanked. ASSUME StateInv, Parts, Ranked, NEW b \in Precious, PreciousBlock(b)
                   PROVE  Ranked'
  <2> USE <1>PreciousRanked
  <2>1. /\ UNCHANGED <<tip, proc, abc>> /\ ~Held
        /\ \A x \in Block \ {b} : seq'[x] = seq[x]
        /\ \/ \A x \in cand' : ~Worse(seq', x, tip)
           \/ b \notin (data \cap linked) \ Failed /\ cand' = cand \ {b}
    <3>1. seq \in [Block -> Int]
      BY Places
    <3>2. \/ \A x \in cand' : ~Worse(seq', x, tip)
          \/ b \notin (data \cap linked) \ Failed /\ cand' = cand \ {b}
      BY DEF PreciousBlock
    <3> QED  BY <3>1, <3>2 DEF PreciousBlock, Free
  <2>2. CASE b \notin (data \cap linked) \ Failed /\ cand' = cand \ {b}
    <3>1. tip # b
      BY SMT, <2>2, Places, TreeFacts DEF StateInv, TipValid
    <3>2. ASSUME NEW x \in cand' PROVE ~Worse(seq', x, tip)
      BY <2>1, <2>2, <3>1, Places, WorseSame DEF Ranked
    <3> QED  BY <2>1, <3>2 DEF Ranked, Held
  <2> QED  BY <2>1, <2>2 DEF Ranked, Held

<1> SUFFICES ASSUME StateInv, Parts, Ranked, [Next]_vars PROVE Ranked'
  OBVIOUS
<1>1. CASE UNCHANGED vars \/ \E b \in Block \ {Genesis} : ProcessNewBlockHeaders(b)
  BY <1>1 DEF vars, index, order, ProcessNewBlockHeaders, Ranked, Held
<1> QED
  BY <1>1, <1>ProcessBlockRanked, <1>LockRanked, <1>ForkRanked, <1>ConnectRanked,
     <1>ConnectFailsRanked, <1>WalkRanked, <1>ReconsiderRanked, <1>PreciousRanked DEF Next

LEMMA InitRanked == Init => Ranked
<1> SUFFICES ASSUME Init PROVE Ranked
  OBVIOUS
<1>1. ~Worse(seq, Genesis, Genesis)
  BY InitTypes, Places, ChainTree, WorseOrder
<1> QED  BY <1>1 DEF Init, Ranked, Held

\* What every later result rests on.
LEMMA ChainStateRanked == Spec => [](StateInv /\ Parts /\ Closed /\ Ranked)
<1>1. Spec => [](StateInv /\ Parts)
  BY InitTypes, TypesStep, ChainStateInvariant, PTL DEF Spec
<1> QED  BY <1>1, InitClosed, ClosedStep, InitRanked, RankedStep, PTL DEF Spec

\* A step that releases cs_main leaves a tip that is not worse than start.
LEMMA ReleaseForward ==
    ASSUME StateInv, Parts, Ranked, [Next]_vars, Held, ~Held'
    PROVE  ~Worse(seq, tip', abc.start)
<1>1. CASE AlreadyBest
  <2>1. abc.mostWork = tip /\ tip' = tip /\ tip # Null
    BY <1>1, Places DEF AlreadyBest
  <2> QED  BY <2>1 DEF Ranked
<1>2. ASSUME NEW c \in Block, ConnectTip(c) PROVE ~Worse(seq, tip', abc.start)
  <2>1. tip' = c /\ proc' # "find" /\ (EndStep(c, abc.mostWork) \/ proc' = proc)
    BY <1>2 DEF ConnectTip, Held
  <2> QED  BY <2>1 DEF EndStep, Held
<1>3. ASSUME NEW c \in Block, ConnectTipFails(c) PROVE ~Worse(seq, tip', abc.start)
  <2>1. tip' = tip /\ proc' # "find" /\ EndStep(tip, Null)
    BY <1>3 DEF ConnectTipFails, Held
  <2> QED  BY <2>1 DEF EndStep
<1>4. UNCHANGED vars => FALSE
  BY DEF vars, Held
<1>5. ~ActivateBestChain /\ ~NextRound /\ ~InvalidateTip /\ ~FinishInvalidate
      /\ ~DropCandidate /\ ~FindMostWorkChain /\ ~ActivateBestChainStep
  BY DEF ActivateBestChain, NextRound, InvalidateTip, FinishInvalidate, DropCandidate,
         FindMostWorkChain, ActivateBestChainStep, Held
<1>6. /\ \A b \in Block \ {Genesis} : ~ProcessNewBlockHeaders(b)
      /\ \A b \in Block \ {Genesis}, r \in BOOLEAN : ~ProcessNewBlock(b, r)
      /\ \A b \in Invalidable : ~InvalidateBlock(b)
      /\ \A b \in Reconsiderable : ~ReconsiderBlock(b)
      /\ \A b \in Precious : ~PreciousBlock(b)
  BY DEF ProcessNewBlockHeaders, ProcessNewBlock, InvalidateBlock, ReconsiderBlock,
         PreciousBlock, Free, Held
<1> QED  BY <1>1, <1>2, <1>3, <1>4, <1>5, <1>6 DEF Next

\* ActivateBestChain never releases cs_main on a tip that sorts before the one
\* it took it with, whether it returns because nothing is better, after a step
\* that succeeded or after a branch turned out invalid.
THEOREM TipMovesForward == Spec => ForwardProgress
<1>1. StateInv /\ Parts /\ Ranked /\ [Next]_vars
        => [Held /\ ~Held' => ~Worse(seq, tip', abc.start)]_vars
  BY ReleaseForward
<1> QED  BY <1>1, ChainStateRanked, PTL DEF Spec, ForwardProgress

-----------------------------------------------------------------------------
(***************************************************************************)
(* The loops of ActivateBestChain under cs_main.                           *)
(***************************************************************************)

\* The blocks between the active chain and pindexMostWork.
WayLeft == Chain[abc.mostWork] \ Chain[tip]

\* What a step makes of pindexMostWork and the way to it, if no block fails and
\* no candidate goes: it is chosen, or the branch off it is disconnected, or a
\* block of the way is connected.
Approach ==
    \/ abc.mostWork = Null /\ abc'.mostWork # Null
    \/ /\ abc.mostWork # Null /\ abc'.mostWork = abc.mostWork
       /\ \/ proc = "find" /\ proc' = "connect" /\ WayLeft' = WayLeft
          \/ WayLeft' \subseteq WayLeft /\ WayLeft' # WayLeft

\* While ActivateBestChain keeps cs_main, failure marks are only added and every
\* step adds one, or takes a candidate away and adds none, or leaves the
\* candidates as they are and comes closer to pindexMostWork.
HeldProgress ==
    Held /\ Held' =>
        /\ Failed \subseteq Failed'
        /\ Failed' # Failed \/ (cand' \subseteq cand /\ (cand' # cand \/ Approach))

\* Under cs_main the loops of ActivateBestChain and FindMostWorkChain make
\* progress with every step, for every block tree and whatever fails on the way:
\* no step undoes another, and on a finite index there are finitely many before
\* cs_main is released.
THEOREM HeldLoopsProgress == Spec => [][HeldProgress]_vars

<1>ForkAhead. ASSUME StateInv, ActivateBestChainStep
              PROVE  HeldProgress
  <2> USE <1>ForkAhead
  <2>1. tip \in Block /\ abc.mostWork \in Block /\ abc.mostWork # Null
    BY ChainTree DEF StateInv, Types, ActivateBestChainStep
  <2>2. /\ UNCHANGED <<failedValid, failedChild, cand>> /\ proc = "find" /\ proc' = "connect"
        /\ tip' \in Chain[tip] \cap Chain[abc.mostWork]
        /\ Chain[tip] \cap Chain[abc.mostWork] \subseteq Chain[tip']
    BY DEF ActivateBestChainStep, flags
  <2>3. abc'.mostWork = abc.mostWork
    <3>1. abc' = [abc EXCEPT !.old = tip]
      BY DEF ActivateBestChainStep
    <3> QED  BY SMT, <3>1 DEF StateInv, Types
  <2>4. Chain[tip'] = Chain[tip] \cap Chain[abc.mostWork]
    BY <2>1, <2>2, ChainTree
  <2>5. WayLeft' = WayLeft
    <3>1. WayLeft' = Chain[abc.mostWork] \ Chain[tip']
      BY <2>3 DEF WayLeft
    <3> QED  BY <2>4, <3>1 DEF WayLeft
  <2>6. Failed' = Failed
    BY <2>2 DEF Failed
  <2> QED  BY <2>1, <2>2, <2>3, <2>5, <2>6 DEF HeldProgress, Approach

<1>ConnectAhead. ASSUME StateInv, NEW c \in Block, ConnectTip(c)
                 PROVE  HeldProgress
  <2> USE <1>ConnectAhead
  <2> SUFFICES ASSUME Held' PROVE Failed' = Failed /\ cand' \subseteq cand /\ Approach
    BY DEF HeldProgress
  <2>1. /\ proc = "connect" /\ tip \in Block /\ abc.mostWork \in Block /\ abc.mostWork # Null
    BY ChainTree DEF StateInv, Types, Owner, ConnectTip
  <2>2. /\ UNCHANGED <<failedValid, failedChild>> /\ tip' = c
        /\ c \in Chain[abc.mostWork] \ Chain[tip] /\ Parent[c] = tip
        /\ cand' \subseteq cand
    BY DEF ConnectTip, flags, IsNext, PruneBlockIndexCandidates
  <2>3. abc'.mostWork = abc.mostWork
    <3>1. CASE UNCHANGED <<proc, abc>>
      BY <3>1
    <3>2. CASE EndStep(c, abc.mostWork)
      <4>1. abc' = [abc EXCEPT !.mostWork = abc.mostWork, !.old = Null]
        BY <3>2 DEF EndStep, Held
      <4> QED  BY SMT, <4>1 DEF StateInv, Types
    <3> QED  BY <3>1, <3>2 DEF ConnectTip
  <2>4. WayLeft' \subseteq WayLeft /\ WayLeft' # WayLeft
    <3>1. c # Genesis
      <4>1. Genesis \in Chain[tip]
        BY <2>1, GenesisBelow
      <4> QED  BY <2>2, <4>1
    <3>2. Chain[c] = Chain[tip] \cup {c}
      BY <2>2, <3>1, ChainTree
    <3>3. WayLeft' = Chain[abc.mostWork] \ Chain[c]
      BY <2>2, <2>3 DEF WayLeft
    <3> QED  BY <2>2, <3>2, <3>3 DEF WayLeft
  <2>5. Failed' = Failed
    BY <2>2 DEF Failed
  <2> QED  BY <2>1, <2>2, <2>3, <2>4, <2>5 DEF Approach

<1>ConnectFailsAhead. ASSUME StateInv, NEW c \in Block, ConnectTipFails(c)
                      PROVE  HeldProgress
  <2> USE <1>ConnectFailsAhead
  <2>1. c \in Chain[abc.mostWork] /\ abc.mostWork # Null
    BY DEF StateInv, Owner, ConnectTipFails, IsNext
  <2>2. c \notin Failed
    BY <2>1 DEF StateInv, PathValid
  <2>3. /\ failedValid' = (failedValid \cup {c}) \ Descendants(c)
        /\ failedChild' = failedChild \cup Descendants(c)
    BY DEF ConnectTipFails, InvalidChainFound
  <2>4. Failed \subseteq Failed' /\ c \in Failed'
    BY <2>3 DEF Failed
  <2> QED  BY <2>2, <2>4 DEF HeldProgress

<1>DropAhead. ASSUME StateInv, DropCandidate
              PROVE  HeldProgress
  <2> USE <1>DropAhead
  <2>1. PICK b \in cand : \E highest \in FailedOnPath(b) :
          /\ failedChild' = failedChild \cup (Chain[b] \ Chain[highest])
          /\ cand' = cand \ ((Chain[b] \ Chain[highest]) \cup {highest})
    BY DEF DropCandidate
  <2>2. PICK highest \in FailedOnPath(b) :
          /\ failedChild' = failedChild \cup (Chain[b] \ Chain[highest])
          /\ cand' = cand \ ((Chain[b] \ Chain[highest]) \cup {highest})
    BY <2>1
  <2>3. failedValid' = failedValid
    BY DEF DropCandidate
  <2>4. Failed \subseteq Failed'
    BY <2>2, <2>3 DEF Failed
  <2>5. b \in Block /\ highest \in Chain[b]
    BY <2>1, <2>2 DEF StateInv, Types, FailedOnPath
  <2>6. b = highest \/ b \in Chain[b] \ Chain[highest]
    BY <2>5, TreeFacts, ChainAntisymmetric, ChainTree
  <2>7. cand' \subseteq cand /\ cand' # cand
    BY <2>2, <2>6
  <2> QED  BY <2>4, <2>7 DEF HeldProgress

<1>FindAhead. ASSUME StateInv, FindMostWorkChain
              PROVE  HeldProgress
  <2> USE <1>FindAhead
  <2>1. PICK b \in cand : abc' = [abc EXCEPT !.mostWork = b]
    BY DEF FindMostWorkChain
  <2>2. abc.mostWork = Null /\ UNCHANGED <<failedValid, failedChild, cand>>
    BY DEF FindMostWorkChain, flags
  <2>3. abc'.mostWork = b
    BY SMT, <2>1 DEF StateInv, Types
  <2>4. b # Null
    <3>1. b \in Block
      BY <2>1 DEF StateInv, Types
    <3> QED  BY <3>1, ChainAssumption
  <2>5. Failed' = Failed
    BY <2>2 DEF Failed
  <2> QED  BY <2>2, <2>3, <2>4, <2>5 DEF HeldProgress, Approach

<1>1. StateInv /\ [Next]_vars => [HeldProgress]_vars
  <2> SUFFICES ASSUME StateInv, Next PROVE HeldProgress
    OBVIOUS
  <2>1. CASE DropCandidate \/ FindMostWorkChain \/ ActivateBestChainStep
             \/ \E c \in Block : ConnectTip(c) \/ ConnectTipFails(c)
    BY <2>1, <1>DropAhead, <1>FindAhead, <1>ForkAhead, <1>ConnectAhead, <1>ConnectFailsAhead
  <2>2. CASE ActivateBestChain \/ NextRound \/ AlreadyBest
    BY <2>2 DEF ActivateBestChain, NextRound, AlreadyBest, HeldProgress, Held
  <2>3. CASE \/ \E b \in Block \ {Genesis} : ProcessNewBlockHeaders(b)
             \/ \E b \in Block \ {Genesis}, requested \in BOOLEAN : ProcessNewBlock(b, requested)
             \/ \E b \in Reconsiderable : ReconsiderBlock(b)
             \/ \E b \in Precious : PreciousBlock(b)
    BY <2>3 DEF ProcessNewBlockHeaders, ProcessNewBlock, ReconsiderBlock, PreciousBlock,
                HeldProgress, Free
  <2>4. CASE (\E b \in Invalidable : InvalidateBlock(b)) \/ InvalidateTip \/ FinishInvalidate
    BY <2>4 DEF InvalidateBlock, InvalidateTip, FinishInvalidate, HeldProgress, Held
  <2> QED  BY <2>1, <2>2, <2>3, <2>4 DEF Next
<1> QED  BY <1>1, ChainStateInvariant, PTL DEF Spec

-----------------------------------------------------------------------------
(***************************************************************************)
(* What InvalidateBlock collects is off the active chain, and the block it *)
(* marked last was on it.                                                  *)
(***************************************************************************)
Collection ==
    proc = "walk" =>
        /\ inv.highpow \cap Chain[tip] = {}
        /\ inv.wasInChain => inv.toMark \in linked

LEMMA CollectionStep ==
    StateInv /\ Parts /\ Collection /\ [Next]_vars => Collection'

\* Others who get cs_main in a gap leave the collection alone.
<1>GapCollection. ASSUME Collection, UNCHANGED <<proc, inv, tip>>, linked \subseteq linked'
                  PROVE  Collection'
  BY <1>GapCollection DEF Collection

<1>StartCollection. ASSUME Parts, NEW b \in Invalidable, InvalidateBlock(b)
                    PROVE  Collection'
  <2> USE <1>StartCollection
  <2>1. /\ tip' = tip
        /\ inv' = [pindex |-> b, toMark |-> b, wasInChain |-> FALSE,
                   highpow |-> {c \in known \ (Chain[tip] \cup Failed) :
                                   ~Worse(seq, c, Parent[b])}]
    BY DEF InvalidateBlock, Collected
  <2>2. /\ inv'.wasInChain = FALSE
        /\ inv'.highpow = {c \in known \ (Chain[tip] \cup Failed) : ~Worse(seq, c, Parent[b])}
    BY <2>1
  <2> QED  BY <2>1, <2>2 DEF Collection

<1>TipCollection. ASSUME StateInv, Parts, Collection, InvalidateTip
                  PROVE  Collection'
  <2> USE <1>TipCollection
  <2>1. /\ proc = "walk" /\ tip \in known \ {Genesis} /\ tip' = Parent[tip]
    BY InvalidateTipMarks
  <2>2. PICK dead \in SUBSET inv.highpow :
           /\ \A c \in inv.highpow :
                 c \in dead <=> Work[c] >= Work[Parent[tip]] /\ tip \in Chain[c]
           /\ Failed' = Failed \cup {tip} \cup dead
           /\ inv' = [inv EXCEPT !.toMark = tip, !.wasInChain = TRUE, !.highpow = @ \ dead]
    BY InvalidateTipMarks
  <2>3. inv'.toMark = tip /\ inv'.highpow = inv.highpow \ dead
    BY <2>2 DEF Parts, CallTypes
  <2>4. linked' = linked
    BY DEF InvalidateTip, index
  <2>5. Chain[tip] = Chain[tip'] \cup {tip} /\ tip \in Chain[tip] /\ tip \in linked
    BY <2>1, ChainTree, TreeFacts, Places
  <2>6. inv'.highpow \cap Chain[tip'] = {}
    BY <2>1, <2>3, <2>5 DEF Collection
  <2> QED  BY <2>3, <2>4, <2>5, <2>6 DEF Collection

<1> SUFFICES ASSUME StateInv, Parts, Collection, [Next]_vars PROVE Collection'
  OBVIOUS
<1>1. CASE UNCHANGED vars
  BY <1>1 DEF vars, index, Collection
<1>2. ASSUME NEW b \in Block \ {Genesis}, NEW r \in BOOLEAN, ProcessNewBlock(b, r)
      PROVE  Collection'
  <2>1. UNCHANGED <<proc, inv, tip>> /\ linked \subseteq linked'
    BY <1>2, ProcessBlockEffect
  <2> QED  BY <2>1, <1>GapCollection
<1>3. CASE \/ \E b \in Block \ {Genesis} : ProcessNewBlockHeaders(b)
           \/ \E b \in Reconsiderable : ReconsiderBlock(b)
           \/ \E b \in Precious : PreciousBlock(b)
  <2>1. UNCHANGED <<proc, inv, tip>> /\ linked' = linked
    BY <1>3 DEF ProcessNewBlockHeaders, ReconsiderBlock, PreciousBlock, index
  <2> QED  BY <2>1, <1>GapCollection
<1>4. CASE ActivateBestChain \/ NextRound \/ FindMostWorkChain \/ AlreadyBest \/ DropCandidate
           \/ ActivateBestChainStep \/ (\E c \in Block : ConnectTip(c) \/ ConnectTipFails(c))
           \/ FinishInvalidate
  <2>1. proc' # "walk"
    BY <1>4 DEF ActivateBestChain, NextRound, FindMostWorkChain, AlreadyBest, DropCandidate,
                ActivateBestChainStep, ConnectTip, ConnectTipFails, EndStep, FinishInvalidate
  <2> QED  BY <2>1 DEF Collection
<1> QED  BY <1>1, <1>2, <1>3, <1>4, <1>StartCollection, <1>TipCollection DEF Next

LEMMA InitCollection == Init => Collection
  BY DEF Init, Collection

-----------------------------------------------------------------------------
(***************************************************************************)
(* Nothing that could be activated is missing from the candidates.  The    *)
(* comparison is by work alone (strict) or in the full order.              *)
(***************************************************************************)
Ahead(strict, v, t) == IF strict THEN Work[v] > Work[t] ELSE ~Worse(seq, v, t)
Beats(strict, v, t) == IF strict THEN Work[v] > Work[t] ELSE Worse(seq, t, v)

Usable == {v \in linked : Chain[v] \cap Failed = {}}

Complete(strict) ==
    \A v \in Usable :
        /\ Settled /\ Ahead(strict, v, tip) => v \in cand
        /\ proc = "find" /\ Ahead(strict, v, abc.start) => v \in cand
        /\ proc = "connect" /\ Ahead(strict, v, abc.start) /\ Ahead(strict, v, tip)
              => v \in cand

\* pindexMostWork, and the tip in the end, is the best usable block unless a
\* call of ActivateBestChain is still to come.
Most(strict) ==
    ~want => \A v \in Usable : /\ proc = "idle" => ~Beats(strict, v, tip)
                               /\ abc.mostWork # Null => ~Beats(strict, v, abc.mostWork)

\* No block draws level with the tip because the tip is given another number.
TipKept ==
    \A v \in Block : v # tip /\ seq'[v] = seq[v] /\ Worse(seq, v, tip) => Worse(seq', v, tip)

LEMMA AheadFacts ==
    ASSUME Parts, NEW strict \in BOOLEAN, NEW v \in Block, NEW s \in Block, NEW t \in Block
    PROVE  /\ ~Worse(seq, t, s) /\ Ahead(strict, v, t) => Ahead(strict, v, s)
           /\ Worse(seq, t, s) /\ Ahead(strict, v, s) => Ahead(strict, v, t)
           /\ Ahead(strict, v, t) => ~Worse(seq, v, t)
           /\ Beats(strict, v, t) => Ahead(strict, v, t) /\ Worse(seq, t, v)
<1>1. seq \in [Block -> Int]
  BY Places
<1>2. Work[v] \in Nat /\ Work[s] \in Nat /\ Work[t] \in Nat
  BY WorkAssumption
<1>3. Worse(seq, t, s) => ~Worse(seq, s, t)
  BY <1>1, WorseOrder
<1>4. ~Worse(seq, t, s) => Work[t] >= Work[s]
  BY SMT, <1>1, <1>2, WorseOrder
<1>5. ~Worse(seq, s, t) => Work[s] >= Work[t]
  BY SMT, <1>1, <1>2, WorseOrder
<1>6. /\ ~Worse(seq, v, t) /\ ~Worse(seq, t, s) => ~Worse(seq, v, s)
      /\ ~Worse(seq, v, s) /\ ~Worse(seq, s, t) => ~Worse(seq, v, t)
  BY <1>1, WorseTransitive
<1>7. /\ Work[v] > Work[t] => Worse(seq, t, v)
      /\ Worse(seq, t, v) => ~Worse(seq, v, t)
  BY <1>1, <1>2, WorseOrder
<1> QED  BY SMT, <1>2, <1>3, <1>4, <1>5, <1>6, <1>7 DEF Ahead, Beats

LEMMA UsableShrinks ==
    ASSUME linked' = linked, Failed \subseteq Failed'
    PROVE  Usable' \subseteq Usable
  BY DEF Usable

LEMMA UsableFacts ==
    ASSUME Parts, NEW v \in Usable
    PROVE  v \in linked /\ v \in Block /\ v \notin Failed /\ v \in data /\ v \in known
  BY Places, TreeFacts DEF Usable, Parts, IndexTypes

LEMMA CompleteStep ==
    ASSUME NEW strict \in BOOLEAN
    PROVE  StateInv /\ Parts /\ Closed /\ Ranked /\ Complete(strict)
             /\ [Next]_vars /\ Parts' /\ (strict \/ TipKept)
           => Complete(strict)'

<1>ProcessBlockComplete.
      ASSUME Parts, Complete(strict),
             NEW b \in Block \ {Genesis}, NEW r \in BOOLEAN, ProcessNewBlock(b, r), Parts'
      PROVE  Complete(strict)'
  <2> USE <1>ProcessBlockComplete
  <2>1. /\ ~Held /\ UNCHANGED <<tip, proc, abc, inv>>
        /\ linked \subseteq linked' /\ \A x \in linked : seq'[x] = seq[x]
        /\ BlockTaken \/ BlockRejected(b)
    BY ProcessBlockEffect
  <2>2. proc # "find" /\ proc # "connect"
    BY <2>1 DEF Held
  <2>3. ASSUME NEW v \in Usable', Settled, Ahead(strict, v, tip)' PROVE v \in cand'
    <3>1. v \in linked' /\ v \in Block /\ v \notin Failed' /\ Chain[v] \cap Failed' = {}
      BY Places, TreeFacts DEF Usable, Parts, IndexTypes
    <3>2. CASE v \in linked
      <4>1. v \in Usable
        BY <2>1, <3>1, <3>2 DEF Usable, BlockTaken, BlockRejected
      <4>2. Worse(seq', v, tip) <=> Worse(seq, v, tip)
        BY <2>1, <3>2, Places, WorseSame
      <4>3. Ahead(strict, v, tip)
        BY <2>1, <2>3, <4>2 DEF Ahead
      <4>4. v \in cand
        BY <2>3, <4>1, <4>3 DEF Complete
      <4> QED  BY <2>1, <3>1, <4>4 DEF BlockTaken, BlockRejected
    <3>3. CASE v \notin linked
      <4>1. ~Worse(seq', v, tip')
        <5>1. seq' \in [Block -> Int] /\ tip \in Block
          BY Places DEF Parts, OrderTypes
        <5>2. CASE strict
          BY <2>1, <2>3, <3>1, <5>1, <5>2, WorseOrder, WorkAssumption DEF Ahead
        <5>3. CASE ~strict
          BY <2>3, <5>3 DEF Ahead
        <5> QED  BY <5>2, <5>3
      <4> QED  BY <2>1, <3>1, <3>3, <4>1 DEF BlockTaken, BlockRejected
    <3> QED  BY <3>2, <3>3
  <2>4. Settled' = Settled /\ proc' # "find" /\ proc' # "connect"
    BY <2>1, <2>2 DEF Settled
  <2> QED  BY <2>3, <2>4 DEF Complete

<1>LockComplete.
      ASSUME Parts, Ranked, Complete(strict),
             ActivateBestChain \/ NextRound \/ FindMostWorkChain \/ AlreadyBest \/ DropCandidate
      PROVE  Complete(strict)'
  <2> USE <1>LockComplete
  <2>1. UNCHANGED <<seq, tip, linked>> /\ Failed \subseteq Failed'
    BY DEF ActivateBestChain, NextRound, FindMostWorkChain, AlreadyBest, DropCandidate,
           order, index, flags, Failed
  <2>2. ASSUME NEW v, NEW t PROVE Ahead(strict, v, t)' <=> Ahead(strict, v, t')
    BY <2>1 DEF Ahead
  <2>3. Usable' \subseteq Usable
    BY <2>1, UsableShrinks
  <2>4. CASE ActivateBestChain \/ NextRound
    <3>1. Settled /\ proc' = "find" /\ abc'.start = tip /\ cand' = cand
      BY <2>4 DEF ActivateBestChain, NextRound, NoCall, Settled, Parts, CallTypes
    <3> QED  BY <2>1, <2>3, <3>1 DEF Complete, Ahead, Settled
  <2>5. CASE FindMostWorkChain
    <3>1. PICK b \in cand : abc' = [abc EXCEPT !.mostWork = b]
      BY <2>5 DEF FindMostWorkChain
    <3>2. proc = "find" /\ proc' = "find" /\ abc'.start = abc.start /\ cand' = cand
      BY <2>5, <3>1 DEF FindMostWorkChain, Parts, CallTypes
    <3> QED  BY <2>1, <2>3, <3>2 DEF Complete, Ahead, Settled
  <2>6. CASE AlreadyBest
    <3>1. proc = "find" /\ proc' = "idle" /\ abc.mostWork = tip /\ cand' = cand
      BY <2>6 DEF AlreadyBest
    <3>2. ~Worse(seq, tip, abc.start) /\ abc.start \in Block
      BY <3>1, Places DEF Ranked, Held
    <3>3. ASSUME NEW v \in Usable, Ahead(strict, v, tip) PROVE v \in cand
      <4>1. Ahead(strict, v, abc.start)
        BY <3>2, <3>3, UsableFacts, Places, AheadFacts
      <4> QED  BY <3>1, <4>1 DEF Complete
    <3> QED  BY <2>1, <2>3, <3>1, <3>3 DEF Complete, Ahead, Settled
  <2>7. CASE DropCandidate
    <3>1. PICK b \in cand : \E x \in FailedOnPath(b) :
            /\ failedChild' = failedChild \cup (Chain[b] \ Chain[x])
            /\ cand' = cand \ ((Chain[b] \ Chain[x]) \cup {x})
      BY <2>7 DEF DropCandidate
    <3>2. cand \ Failed' \subseteq cand'
      BY <2>1, <3>1 DEF Failed, FailedOnPath
    <3>3. proc = "find" /\ proc' = "find" /\ abc' = abc
      BY <2>7 DEF DropCandidate
    <3>4. \A v \in Usable' : v \in Usable /\ v \notin Failed'
      BY <2>1, <2>3, Places, TreeFacts DEF Usable
    <3>5. ASSUME NEW v \in Usable', Ahead(strict, v, abc.start) PROVE v \in cand'
      BY <3>2, <3>3, <3>4, <3>5 DEF Complete
    <3> QED  BY <2>1, <3>3, <3>5 DEF Complete, Ahead, Settled
  <2> QED  BY <2>4, <2>5, <2>6, <2>7

<1>ForkComplete. ASSUME Parts, Complete(strict), ActivateBestChainStep
                 PROVE  Complete(strict)'
  <2> USE <1>ForkComplete
  <2>1. /\ UNCHANGED <<seq, cand, linked>> /\ Failed' = Failed
        /\ proc = "find" /\ proc' = "connect" /\ abc'.start = abc.start
    BY DEF ActivateBestChainStep, order, index, flags, Failed, Parts, CallTypes
  <2>2. Usable' \subseteq Usable
    BY <2>1, UsableShrinks
  <2> QED  BY <2>1, <2>2 DEF Complete, Ahead, Settled

<1>ConnectComplete. ASSUME StateInv, Parts, Ranked, Complete(strict),
                           NEW c \in Block, ConnectTip(c)
                    PROVE  Complete(strict)'
  <2> USE <1>ConnectComplete
  <2>1. /\ UNCHANGED <<seq, linked>> /\ Failed' = Failed /\ proc = "connect" /\ tip' = c
        /\ cand' = {x \in cand : ~Worse(seq, x, c)}
        /\ c \notin Chain[tip] /\ Parent[c] = tip
        /\ EndStep(c, abc.mostWork) \/ UNCHANGED <<proc, abc>>
    BY DEF ConnectTip, PruneBlockIndexCandidates, IsNext, order, index, flags, Failed
  <2>2. Usable' \subseteq Usable
    BY <2>1, UsableShrinks
  <2>3. abc.start \in Block
    BY <2>1, Places DEF Ranked, Held
  <2>4. ~Worse(seq, c, tip)
    <3>1. c # Genesis
      BY <2>1, GenesisBelow, Places
    <3>2. Work[tip] < Work[c]
      BY <2>1, <3>1, WorkAssumption
    <3> QED  BY <3>2, Places, WorseOrder
  <2>5. ASSUME NEW v \in Usable, Ahead(strict, v, c), Ahead(strict, v, abc.start) PROVE v \in cand'
    <3>1. v \in Block /\ Ahead(strict, v, tip) /\ ~Worse(seq, v, c)
      BY <2>4, <2>5, UsableFacts, Places, AheadFacts
    <3> QED  BY <2>1, <2>5, <3>1 DEF Complete
  <2>6. CASE UNCHANGED <<proc, abc>>
    BY <2>1, <2>2, <2>5, <2>6 DEF Complete, Ahead, Settled
  <2>7. CASE EndStep(c, abc.mostWork)
    <3>1. CASE Worse(seq, c, abc.start) /\ proc' = "find" /\ abc'.start = abc.start
      <4>1. ASSUME NEW v \in Usable, Ahead(strict, v, abc.start) PROVE v \in cand'
        BY <2>3, <2>5, <3>1, <4>1, UsableFacts, AheadFacts
      <4> QED  BY <2>1, <2>2, <3>1, <4>1 DEF Complete, Ahead, Settled
    <3>2. CASE ~Worse(seq, c, abc.start) /\ proc' \in {"idle", "released"}
      <4>1. ASSUME NEW v \in Usable, Ahead(strict, v, c) PROVE v \in cand'
        BY <2>3, <2>5, <3>2, <4>1, UsableFacts, AheadFacts
      <4> QED  BY <2>1, <2>2, <3>2, <4>1 DEF Complete, Ahead, Settled
    <3> QED  BY <2>7, <3>1, <3>2, EndStepCases
  <2> QED  BY <2>1, <2>6, <2>7

<1>ConnectFailsComplete.
      ASSUME Parts, Ranked, Complete(strict),
             NEW c \in Block, ConnectTipFails(c)
      PROVE  Complete(strict)'
  <2> USE <1>ConnectFailsComplete
  <2>1. /\ UNCHANGED <<seq, linked, tip>> /\ proc = "connect" /\ cand' = cand \ {c}
        /\ EndStep(tip, Null) /\ Failed' = Failed \cup {c} \cup Descendants(c)
    BY SMT, FoundMarks DEF ConnectTipFails, order, index, Failed
  <2>2. Usable' \subseteq Usable
    BY <2>1, UsableShrinks
  <2>3. abc.start \in Block /\ tip \in Block
    BY <2>1, Places DEF Ranked, Held
  <2>4. ASSUME NEW v \in Usable', Ahead(strict, v, tip), Ahead(strict, v, abc.start)
        PROVE  v \in cand'
    <3>1. v \in Usable /\ v \in Chain[v] /\ Chain[v] \cap Failed' = {}
      BY <2>2, UsableFacts, TreeFacts DEF Usable
    <3> QED  BY <2>1, <2>4, <3>1 DEF Complete
  <2>5. CASE Worse(seq, tip, abc.start) /\ proc' = "find" /\ abc'.start = abc.start
    <3>1. ASSUME NEW v \in Usable', Ahead(strict, v, abc.start) PROVE v \in cand'
      BY <2>2, <2>3, <2>4, <2>5, <3>1, UsableFacts, AheadFacts
    <3> QED  BY <2>1, <2>5, <3>1 DEF Complete, Ahead, Settled
  <2>6. CASE ~Worse(seq, tip, abc.start) /\ proc' \in {"idle", "released"}
    <3>1. ASSUME NEW v \in Usable', Ahead(strict, v, tip) PROVE v \in cand'
      BY <2>2, <2>3, <2>4, <2>6, <3>1, UsableFacts, AheadFacts
    <3> QED  BY <2>1, <2>6, <3>1 DEF Complete, Ahead, Settled
  <2> QED  BY <2>1, <2>5, <2>6, EndStepCases

<1>WalkComplete. ASSUME StateInv, Parts, Closed, Complete(strict),
                        (\E b \in Invalidable : InvalidateBlock(b))
                           \/ InvalidateTip \/ FinishInvalidate
                 PROVE  Complete(strict)'
  <2> USE <1>WalkComplete
  <2>1. CASE (\E b \in Invalidable : InvalidateBlock(b)) \/ InvalidateTip
    <3>1. proc' = "walk"
      BY <2>1 DEF InvalidateBlock, InvalidateTip
    <3> QED  BY <3>1 DEF Complete, Settled
  <2>2. CASE FinishInvalidate
    <3>1. /\ proc' = "idle"
          /\ Failed' = Failed \cup (IF inv.wasInChain THEN {} ELSE {inv.pindex})
                              \cup Descendants(inv.toMark)
      BY <2>2, FinishClosed
    <3> DEFINE self == IF inv.wasInChain THEN {} ELSE {inv.pindex} \ Failed
    <3>2. /\ UNCHANGED <<seq, linked, tip>>
          /\ Rescanned(Failed \cup self) \subseteq cand'
      BY <2>2 DEF FinishInvalidate, order, index
    <3>3. Failed \cup self \subseteq Failed'
      BY <3>1
    <3> HIDE DEF self
    <3>4. Usable' \subseteq Usable /\ \A v \in Usable' : v \notin Failed'
      <4>1. Usable' \subseteq Usable
        BY <3>2, <3>3, UsableShrinks
      <4> QED  BY <4>1, UsableFacts, TreeFacts DEF Usable
    <3>5. ASSUME NEW v \in Usable', Ahead(strict, v, tip) PROVE v \in cand'
      <4>1. v \in data /\ v \in linked /\ v \notin Failed \cup self /\ ~Worse(seq, v, tip)
        BY <3>3, <3>4, <3>5, UsableFacts, Places, AheadFacts
      <4> QED  BY <3>2, <4>1 DEF Rescanned
    <3> QED  BY <3>1, <3>2, <3>5 DEF Complete, Ahead, Settled
  <2> QED  BY <2>1, <2>2

<1>ReconsiderComplete. ASSUME StateInv, Parts, Closed, Complete(strict),
                              NEW b \in Reconsiderable, ReconsiderBlock(b)
                       PROVE  Complete(strict)'
  <2> USE <1>ReconsiderComplete
  <2>1. /\ UNCHANGED <<seq, linked, tip, proc, abc>> /\ proc \notin {"find", "connect"}
        /\ cand' = cand \cup {c \in Reset(b) \cap data \cap linked : Worse(seq, tip, c)}
    BY DEF ReconsiderBlock, order, index, Free, Held
  <2>2. Failed' = Failed \ Reset(b)
    BY ReconsiderClosed
  <2>3. ASSUME NEW v \in Usable', Settled, Ahead(strict, v, tip) PROVE v \in cand'
    <3>1. v \in linked /\ v \in Block /\ v \in known /\ v \in data
          /\ v \notin Failed' /\ Chain[v] \cap Failed' = {}
      BY <2>1, Places, TreeFacts DEF Usable, Parts, IndexTypes
    <3>2. CASE Chain[v] \cap Failed = {}
      BY <2>1, <2>3, <3>1, <3>2 DEF Complete, Usable
    <3>3. CASE Chain[v] \cap Failed # {}
      <4>1. v \in Failed
        BY <2>1, <2>3, <3>1, <3>3 DEF Closed, Awaiting, Settled
      <4>2. v # tip /\ tip \in Block
        BY SMT, <4>1, Places, TreeFacts DEF StateInv, TipValid
      <4>3. Worse(seq, tip, v)
        BY <2>3, <3>1, <4>2, Places, AheadFacts, WorseOrder
      <4> QED  BY <2>1, <2>2, <3>1, <4>1, <4>3
    <3> QED  BY <3>2, <3>3
  <2> QED  BY <2>1, <2>3 DEF Complete, Ahead, Settled

<1>PreciousComplete. ASSUME StateInv, Parts, Ranked, Complete(strict), strict \/ TipKept,
                            NEW b \in Precious, PreciousBlock(b), Parts'
                     PROVE  Complete(strict)'
  <2> USE <1>PreciousComplete
  <2>1. /\ UNCHANGED <<linked, tip, proc, abc>> /\ Failed' = Failed
        /\ proc \notin {"find", "connect"}
        /\ cand' = IF b \in (data \cap linked) \ Failed
                   THEN {c \in cand \cup {b} : ~Worse(seq', c, tip)} ELSE cand \ {b}
    BY DEF PreciousBlock, index, flags, Free, Held, Failed
  <2>2. \A x \in Block \ {b} : seq'[x] = seq[x]
    <3>1. seq \in [Block -> Int]
      BY Places
    <3> QED  BY <3>1 DEF PreciousBlock
  <2>3. Usable' = Usable
    BY <2>1 DEF Usable
  <2>4. ASSUME NEW v \in Usable, Settled, Ahead(strict, v, tip)' PROVE v \in cand'
    <3>1. /\ v \in (data \cap linked) \ Failed /\ v \in Block /\ tip \in Block
          /\ seq' \in [Block -> Int]
      BY UsableFacts, Places DEF Parts, OrderTypes
    <3>2. ~Worse(seq', v, tip)
      <4>1. CASE strict
        BY <2>1, <2>4, <3>1, <4>1, WorseOrder, WorkAssumption DEF Ahead
      <4>2. CASE ~strict
        BY <2>1, <2>4, <4>2 DEF Ahead
      <4> QED  BY <4>1, <4>2
    <3>3. CASE v = b
      BY <2>1, <3>1, <3>2, <3>3
    <3>4. CASE v # b
      <4>1. Ahead(strict, v, tip)
        <5>1. CASE strict
          BY <2>1, <2>4, <5>1 DEF Ahead
        <5>2. CASE ~strict /\ v = tip
          BY <3>1, <5>2, Places, WorseOrder DEF Ahead
        <5>3. CASE ~strict /\ v # tip
          BY <2>2, <3>1, <3>2, <3>4, <5>3 DEF Ahead, TipKept
        <5> QED  BY <5>1, <5>2, <5>3
      <4>2. v \in cand
        BY <2>4, <4>1 DEF Complete
      <4> QED  BY <2>1, <3>2, <3>4, <4>2
    <3> QED  BY <3>3, <3>4
  <2> QED  BY <2>1, <2>3, <2>4 DEF Complete, Settled

<1> SUFFICES ASSUME StateInv, Parts, Closed, Ranked, Complete(strict),
                    [Next]_vars, Parts', strict \/ TipKept
             PROVE  Complete(strict)'
  OBVIOUS
<1>1. CASE UNCHANGED vars \/ \E b \in Block \ {Genesis} : ProcessNewBlockHeaders(b)
  <2>1. UNCHANGED <<seq, linked, tip, proc, abc, cand>> /\ Failed' = Failed
    BY <1>1 DEF vars, index, flags, order, ProcessNewBlockHeaders, Failed
  <2> QED  BY <2>1 DEF Complete, Ahead, Settled, Usable
<1> QED
  BY <1>1, <1>ProcessBlockComplete, <1>LockComplete, <1>ForkComplete, <1>ConnectComplete,
     <1>ConnectFailsComplete, <1>WalkComplete, <1>ReconsiderComplete,
     <1>PreciousComplete DEF Next

LEMMA InitComplete ==
    ASSUME NEW strict \in BOOLEAN
    PROVE  Init => Complete(strict) /\ Most(strict)
<1> SUFFICES ASSUME Init PROVE Complete(strict) /\ Most(strict)
  OBVIOUS
<1>1. linked = {Genesis} /\ cand = {Genesis} /\ tip = Genesis /\ proc = "idle"
      /\ abc.mostWork = Null /\ Genesis \in Block
  BY ChainTree DEF Init, NoCall
<1>2. ~Beats(strict, Genesis, Genesis)
  <2>1. ~Worse(seq, Genesis, Genesis) /\ Work[Genesis] \in Nat
    BY <1>1, InitTypes, Places, WorseOrder, WorkAssumption
  <2> QED  BY SMT, <2>1 DEF Beats
<1> QED  BY <1>1, <1>2 DEF Complete, Most, Usable

LEMMA MostStep ==
    ASSUME NEW strict \in BOOLEAN
    PROVE  StateInv /\ Parts /\ Closed /\ Ranked /\ Complete(strict) /\ Most(strict)
             /\ [Next]_vars
           => Most(strict)'

\* FindMostWorkChain takes a block no usable block beats.
<1>FoundIsMost. ASSUME Parts, Ranked, Complete(strict), proc = "find",
                       NEW b \in cand, IsBest(b), NEW v \in Usable
                PROVE  ~Beats(strict, v, b)
  <2> USE <1>FoundIsMost
  <2>1. v \in Block /\ b \in Block /\ abc.start \in Block /\ ~Worse(seq, b, abc.start)
        /\ seq \in [Block -> Int]
    BY UsableFacts, Places DEF Ranked, Held
  <2>2. SUFFICES ASSUME Beats(strict, v, b) PROVE FALSE
    OBVIOUS
  <2>3. Ahead(strict, v, b) /\ Worse(seq, b, v)
    BY <2>1, <2>2, AheadFacts
  <2>4. Ahead(strict, v, abc.start)
    BY <2>1, <2>3, AheadFacts
  <2>5. v \in cand
    BY <2>4 DEF Complete
  <2>6. v = b \/ Worse(seq, v, b)
    BY <2>5 DEF IsBest
  <2>7. ~Worse(seq, b, b) /\ ~(Worse(seq, v, b) /\ Worse(seq, b, v))
    BY <2>1, WorseOrder
  <2> QED  BY <2>3, <2>6, <2>7

<1> SUFFICES ASSUME StateInv, Parts, Closed, Ranked, Complete(strict), Most(strict), [Next]_vars
             PROVE  Most(strict)'
  OBVIOUS
<1>1. CASE UNCHANGED vars \/ \E b \in Block \ {Genesis} : ProcessNewBlockHeaders(b)
  <2>1. UNCHANGED <<seq, linked, tip, proc, abc, want>> /\ Failed' = Failed
    BY <1>1 DEF vars, index, flags, order, ProcessNewBlockHeaders, Failed
  <2> QED  BY <2>1 DEF Most, Beats, Usable
<1>2. ASSUME NEW b \in Block \ {Genesis}, NEW r \in BOOLEAN, ProcessNewBlock(b, r)
      PROVE  Most(strict)'
  <2>1. UNCHANGED <<tip, proc, abc>> /\ (BlockTaken \/ BlockRejected(b))
    BY <1>2, ProcessBlockEffect
  <2>2. CASE BlockTaken
    BY <2>2 DEF BlockTaken, Most
  <2>3. CASE BlockRejected(b)
    <3>1. Usable' \subseteq Usable /\ seq' = seq /\ want' = want
      BY <2>3, UsableShrinks DEF BlockRejected
    <3> QED  BY <2>1, <3>1 DEF Most, Beats
  <2> QED  BY <2>1, <2>2, <2>3
<1>3. CASE \/ \E b \in Reconsiderable : ReconsiderBlock(b)
           \/ \E b \in Precious : PreciousBlock(b)
           \/ FinishInvalidate
  BY <1>3 DEF ReconsiderBlock, PreciousBlock, FinishInvalidate, Most
<1>4. CASE ActivateBestChain \/ DropCandidate
  BY <1>4 DEF ActivateBestChain, DropCandidate, NoCall, Most
<1>5. CASE FindMostWorkChain
  <2>1. PICK b \in cand : IsBest(b) /\ abc' = [abc EXCEPT !.mostWork = b]
    BY <1>5 DEF FindMostWorkChain
  <2>2. /\ UNCHANGED <<seq, linked>> /\ Failed' = Failed /\ proc = "find" /\ proc' = "find"
        /\ abc'.mostWork = b
    BY <1>5, <2>1 DEF FindMostWorkChain, index, flags, order, Failed, Parts, CallTypes
  <2>3. Usable' \subseteq Usable
    BY <2>2, UsableShrinks
  <2>4. \A v \in Usable : ~Beats(strict, v, b)
    BY <2>1, <2>2, <1>FoundIsMost
  <2> QED  BY <2>2, <2>3, <2>4 DEF Most, Beats
<1>6. CASE NextRound \/ AlreadyBest \/ ActivateBestChainStep
  <2>1. /\ UNCHANGED <<seq, linked, want>> /\ Failed' = Failed
        /\ \/ abc'.mostWork = abc.mostWork /\ proc' # "idle"
           \/ abc'.mostWork = Null /\ tip' = abc.mostWork
    BY SMT, <1>6 DEF NextRound, AlreadyBest, ActivateBestChainStep, NoCall, index, flags, order,
                Failed, Parts, CallTypes
  <2>2. Usable' \subseteq Usable
    BY <2>1, UsableShrinks
  <2>3. tip' = abc.mostWork => abc.mostWork # Null
    BY <1>6, Places DEF NextRound, AlreadyBest, ActivateBestChainStep
  <2> QED  BY <2>1, <2>2, <2>3 DEF Most, Beats
<1>7. ASSUME NEW c \in Block, ConnectTip(c) PROVE Most(strict)'
  <2>1. /\ UNCHANGED <<seq, linked, want>> /\ Failed' = Failed /\ tip' = c /\ proc = "connect"
        /\ EndStep(c, abc.mostWork) \/ UNCHANGED <<proc, abc>>
    BY <1>7 DEF ConnectTip, index, flags, order, Failed
  <2>2. Usable' \subseteq Usable
    BY <2>1, UsableShrinks
  <2>3. \/ abc'.mostWork = abc.mostWork /\ proc' # "idle"
        \/ abc'.mostWork = Null /\ tip' = abc.mostWork
    BY SMT, <2>1, EndStepCases DEF NoCall
  <2>4. abc.mostWork # Null
    BY <2>1 DEF StateInv, Owner
  <2> QED  BY <2>1, <2>2, <2>3, <2>4 DEF Most, Beats
<1>8. ASSUME NEW c \in Block, ConnectTipFails(c) PROVE Most(strict)'
  <2>1. EndStep(tip, Null)
    BY <1>8 DEF ConnectTipFails
  <2>2. abc'.mostWork = Null /\ proc' # "idle"
    BY <2>1, EndStepCases, Places
  <2> QED  BY <2>2 DEF Most
<1>9. CASE (\E b \in Invalidable : InvalidateBlock(b)) \/ InvalidateTip
  <2>1. proc' = "walk" /\ abc' = abc /\ proc \in {"idle", "walk"}
    BY <1>9 DEF InvalidateBlock, InvalidateTip
  <2>2. abc.mostWork = Null
    BY <2>1 DEF StateInv, Owner
  <2> QED  BY <2>1, <2>2 DEF Most
<1> QED  BY <1>1, <1>2, <1>3, <1>4, <1>5, <1>6, <1>7, <1>8, <1>9 DEF Next

LEMMA ChainStateCollected ==
    Spec => [](StateInv /\ Parts /\ Closed /\ Ranked /\ Collection)
  BY ChainStateRanked, InitCollection, CollectionStep, PTL DEF Spec

\* When no thread is in, or about to enter, ActivateBestChain or
\* InvalidateBlock, no block that the node could activate has more work than
\* the tip, whatever invalidateblock, reconsiderblock and preciousblock did.
THEOREM TipHasMostWork == Spec => []TipMostWork
<1> DEFINE Base == StateInv /\ Parts /\ Closed /\ Ranked /\ Collection
           All == Complete(TRUE) /\ Most(TRUE)
<1>1. Spec => []Base
  BY ChainStateCollected
<1>2. Init => All
  BY InitComplete
<1>3. Base /\ Base' /\ All /\ [Next]_vars => All'
  BY CompleteStep, MostStep
<1>4. Base /\ All => TipMostWork
  <2> SUFFICES ASSUME Base, All, proc = "idle", ~want,
                      NEW b \in linked, Chain[b] \cap Failed = {}
               PROVE  Work[b] <= Work[tip]
    BY DEF TipMostWork
  <2>1. ~(Work[b] > Work[tip])
    BY DEF Most, Beats, Usable
  <2>2. Work[b] \in Nat /\ Work[tip] \in Nat
    BY Places, WorkAssumption
  <2> QED  BY SMT, <2>1, <2>2
<1> HIDE DEF Base, All
<1> QED  BY <1>1, <1>2, <1>3, <1>4, PTL DEF Spec

\* Between two operations the candidates are exact, and the tip is the best
\* block, in the full order, as long as no preciousblock call lets a block
\* draw level with the tip by giving the tip another number.
LEMMA FullOrder ==
    Spec /\ [][TipKept]_vars =>
        [](StateInv /\ Parts /\ Closed /\ Ranked /\ Complete(FALSE) /\ Most(FALSE))
<1> DEFINE Base == StateInv /\ Parts /\ Closed /\ Ranked /\ Collection
           All == Complete(FALSE) /\ Most(FALSE)
<1>1. Spec => []Base
  BY ChainStateCollected
<1>2. Init => All
  BY InitComplete
<1>3. UNCHANGED vars => TipKept
  BY DEF vars, order, TipKept
<1>4. Base /\ Base' /\ All /\ [Next]_vars /\ [TipKept]_vars => All'
  BY <1>3, CompleteStep, MostStep
<1>5. Base /\ All => StateInv /\ Parts /\ Closed /\ Ranked /\ Complete(FALSE) /\ Most(FALSE)
  OBVIOUS
<1> HIDE DEF Base, All
<1> QED  BY <1>1, <1>2, <1>4, <1>5, PTL DEF Spec

\* When no thread is in, or about to enter, ActivateBestChain or
\* InvalidateBlock, the tip is the best block the node could activate, provided
\* no preciousblock call renumbers the tip itself behind a block it preceded.
THEOREM TipIsBest == Spec /\ [][TipKept]_vars => []TipBest
<1>1. Complete(FALSE) /\ Most(FALSE) => TipBest
  BY DEF Most, Beats, Usable, TipBest, Better
<1> QED  BY <1>1, FullOrder, PTL

-----------------------------------------------------------------------------
(***************************************************************************)
(* When preciousblock cannot do that: at one height it is called once, or  *)
(* always with the same block.  Its numbers are negative, those of blocks  *)
(* that were only received are positive.                                   *)
(***************************************************************************)
OnePrecious == MaxPrecious <= 1 \/ \E p \in Block : Precious \subseteq {p}

Numbers ==
    /\ revSeq <= -1 /\ nextSeq >= 3
    /\ \A x \in Block : seq[x] >= -MaxPrecious /\ (x \notin Precious => seq[x] >= 1)

LEMMA AlwaysKept == OnePrecious => (Spec => [][TipKept]_vars)

\* preciousblock is the only operation that renumbers linked blocks.
<1>Renumbered. ASSUME Parts, [Next]_vars
               PROVE  \/ \E b \in Precious : PreciousBlock(b)
                      \/ /\ revSeq' = revSeq /\ nextSeq' >= nextSeq
                         /\ \A x \in linked : seq'[x] = seq[x]
                         /\ \A x \in Block : seq'[x] = seq[x] \/ seq'[x] >= nextSeq
  <2> USE <1>Renumbered
  <2>0. nextSeq \in Nat
    BY DEF Parts, OrderTypes
  <2>1. CASE \/ UNCHANGED vars
             \/ \E b \in Block \ {Genesis} : ProcessNewBlockHeaders(b)
             \/ ActivateBestChain \/ NextRound \/ FindMostWorkChain \/ AlreadyBest \/ DropCandidate
             \/ ActivateBestChainStep \/ (\E c \in Block : ConnectTip(c) \/ ConnectTipFails(c))
             \/ (\E b \in Invalidable : InvalidateBlock(b)) \/ InvalidateTip \/ FinishInvalidate
             \/ \E b \in Reconsiderable : ReconsiderBlock(b)
    <3>1. UNCHANGED order
      BY <2>1 DEF vars, ProcessNewBlockHeaders, ActivateBestChain, NextRound, FindMostWorkChain,
                  AlreadyBest, DropCandidate, ActivateBestChainStep, ConnectTip, ConnectTipFails,
                  InvalidateBlock, InvalidateTip, FinishInvalidate, ReconsiderBlock
    <3> QED  BY SMT, <2>0, <3>1 DEF order
  <2>2. ASSUME NEW b \in Block \ {Genesis}, NEW r \in BOOLEAN, ProcessNewBlock(b, r)
        PROVE  /\ revSeq' = revSeq /\ nextSeq' >= nextSeq
               /\ \A x \in linked : seq'[x] = seq[x]
               /\ \A x \in Block : seq'[x] = seq[x] \/ seq'[x] >= nextSeq
    <3>1. UNCHANGED order \/ (b \notin data /\ ReceivedBlockTransactions(b))
      BY <2>2 DEF ProcessNewBlock
    <3>2. CASE UNCHANGED order
      BY SMT, <2>0, <3>2 DEF order
    <3>3. CASE b \notin data /\ ReceivedBlockTransactions(b)
      <4>1. CASE Parent[b] \in linked
        <5>1. Link(b) /\ data' = data \cup {b} /\ revSeq' = revSeq
          BY <3>3, <4>1 DEF ReceivedBlockTransactions
        <5>2. /\ nextSeq' >= nextSeq /\ \A x \in linked : seq'[x] = seq[x]
              /\ \A x \in Block \ linked : seq'[x] = seq[x] \/ seq'[x] >= nextSeq
          BY <3>3, <4>1, <5>1, LinkTypes
        <5> QED  BY <5>1, <5>2
      <4>2. CASE Parent[b] \notin linked
        BY SMT, <2>0, <3>3, <4>2 DEF ReceivedBlockTransactions
      <4> QED  BY <4>1, <4>2
    <3> QED  BY <3>1, <3>2, <3>3
  <2> QED  BY <2>1, <2>2 DEF Next

\* The number preciousblock gives.
<1>PreciousNumber. ASSUME Parts, Numbers, NEW b \in Precious, PreciousBlock(b)
                   PROVE  \E n \in Int : /\ n <= -1 /\ n >= -MaxPrecious
                                         /\ seq' = [seq EXCEPT ![b] = n] /\ revSeq' = n - 1
                                         /\ nextSeq' = nextSeq
  <2> USE <1>PreciousNumber
  <2> DEFINE n == IF Work[tip] > lastPrecious THEN -1 ELSE revSeq
  <2>1. n \in Int /\ n <= -1
    BY SMT DEF Parts, OrderTypes, Numbers
  <2>2. n >= -MaxPrecious /\ seq' = [seq EXCEPT ![b] = n] /\ revSeq' = n - 1 /\ nextSeq' = nextSeq
    BY DEF PreciousBlock
  <2> QED  BY <2>1, <2>2

<1>NumbersStep. Parts /\ Parts' /\ Numbers /\ [Next]_vars => Numbers'
  <2> SUFFICES ASSUME Parts, Parts', Numbers, [Next]_vars PROVE Numbers'
    OBVIOUS
  <2>0. /\ seq \in [Block -> Int] /\ nextSeq \in Nat /\ revSeq \in Int /\ MaxPrecious \in Nat
        /\ Precious \subseteq Block /\ seq' \in [Block -> Int] /\ nextSeq' \in Nat
    BY InputAssumption DEF Parts, OrderTypes
  <2>1. ASSUME NEW b \in Precious, PreciousBlock(b) PROVE Numbers'
    <3>1. PICK n \in Int : /\ n <= -1 /\ n >= -MaxPrecious
                           /\ seq' = [seq EXCEPT ![b] = n] /\ revSeq' = n - 1
                           /\ nextSeq' = nextSeq
      BY <2>1, <1>PreciousNumber
    <3>2. revSeq' <= -1 /\ nextSeq' >= 3
      BY SMT, <3>1 DEF Numbers
    <3>3. ASSUME NEW x \in Block
          PROVE  seq'[x] >= -MaxPrecious /\ (x \notin Precious => seq'[x] >= 1)
      BY <2>0, <3>1 DEF Numbers
    <3> QED  BY <3>2, <3>3 DEF Numbers
  <2>2. CASE /\ revSeq' = revSeq /\ nextSeq' >= nextSeq
             /\ \A x \in Block : seq'[x] = seq[x] \/ seq'[x] >= nextSeq
    <3>1. nextSeq' >= 3
      BY SMT, <2>0, <2>2 DEF Numbers
    <3>2. ASSUME NEW x \in Block
          PROVE  seq'[x] >= -MaxPrecious /\ (x \notin Precious => seq'[x] >= 1)
      <4>1. /\ seq[x] \in Int /\ seq'[x] \in Int
            /\ seq[x] >= -MaxPrecious /\ (x \notin Precious => seq[x] >= 1)
        BY <2>0 DEF Numbers
      <4>2. seq'[x] = seq[x] \/ seq'[x] >= 3
        BY SMT, <2>0, <2>2, <4>1 DEF Numbers
      <4> QED  BY SMT, <2>0, <4>1, <4>2
    <3> QED  BY <2>2, <3>1, <3>2 DEF Numbers
  <2> QED  BY <2>1, <2>2, <1>Renumbered

<1>InitNumbers. Init => Numbers
  <2> SUFFICES ASSUME Init PROVE Numbers
    OBVIOUS
  <2>1. MaxPrecious \in Nat
    BY InputAssumption
  <2> QED  BY SMT, <2>1 DEF Init, Numbers

<1>OnePreciousKeeps. ASSUME OnePrecious, Parts, Numbers, [Next]_vars
                     PROVE  TipKept
  <2> USE <1>OnePreciousKeeps
  <2>1. SUFFICES ASSUME NEW v \in Block, v # tip, seq'[v] = seq[v], Worse(seq, v, tip)
                 PROVE  Worse(seq', v, tip)
    BY DEF TipKept
  <2>2. /\ seq \in [Block -> Int] /\ tip \in Block /\ tip \in linked /\ MaxPrecious \in Nat
        /\ Work[v] \in Nat /\ Work[tip] \in Nat /\ Addr[v] \in Nat /\ Addr[tip] \in Nat
    BY Places, InputAssumption, WorkAssumption
  <2>3. CASE seq'[tip] = seq[tip]
    BY <2>1, <2>3, WorseSame
  <2>4. ASSUME NEW b \in Precious, PreciousBlock(b), b = tip PROVE Worse(seq', v, tip)
    <3>1. PICK n \in Int : n <= -1 /\ n >= -MaxPrecious /\ seq' = [seq EXCEPT ![b] = n]
      BY <2>4, <1>PreciousNumber
    <3>2. seq'[tip] = n /\ seq[v] \in Int /\ seq[tip] \in Int
      BY <2>2, <2>4, <3>1
    <3>3. CASE MaxPrecious <= 1
      <4>1. n = -1 /\ seq[v] >= -1 /\ seq[tip] >= -1
        <5>1. seq[v] >= -MaxPrecious /\ seq[tip] >= -MaxPrecious /\ MaxPrecious \in Nat
          BY <2>2 DEF Numbers
        <5> QED  BY SMT, <3>1, <3>2, <3>3, <5>1
      <4> QED  BY SMT, <2>1, <2>2, <3>2, <4>1 DEF Worse
    <3>4. CASE \E p \in Block : Precious \subseteq {p}
      <4>1. v \notin Precious
        BY <2>1, <2>4, <3>4
      <4>2. seq[v] >= 1
        BY <4>1 DEF Numbers
      <4> QED  BY SMT, <2>1, <2>2, <3>1, <3>2, <4>2 DEF Worse
    <3> QED  BY <3>3, <3>4 DEF OnePrecious
  <2>5. ASSUME NEW b \in Precious, PreciousBlock(b), b # tip PROVE seq'[tip] = seq[tip]
    BY <2>2, <2>5 DEF PreciousBlock
  <2> QED  BY <2>2, <2>3, <2>4, <2>5, <1>Renumbered

<1> SUFFICES ASSUME OnePrecious PROVE Spec => [][TipKept]_vars
  OBVIOUS
<1>1. Spec => []Parts
  BY ChainStateRanked, PTL
<1>2. Spec => []Numbers
  BY <1>1, <1>InitNumbers, <1>NumbersStep, PTL DEF Spec
<1>3. Parts /\ Numbers /\ [Next]_vars => [TipKept]_vars
  BY <1>OnePreciousKeeps
<1> QED  BY <1>1, <1>2, <1>3, PTL DEF Spec

\* The same for preciousblock calls that name one block only, or come once per
\* height: the tip is the best block the node could activate.
THEOREM TipIsBestPrecious == OnePrecious => (Spec => []TipBest)
<1> SUFFICES ASSUME OnePrecious PROVE Spec => []TipBest
  OBVIOUS
<1> QED  BY AlwaysKept, TipIsBest, PTL

-----------------------------------------------------------------------------
(***************************************************************************)
(* Every failed block has a culprit.  This is not so for every use of      *)
(* reconsiderblock: it resets the ancestors of its argument too, and what  *)
(* descends from those on another branch keeps its flag; and in a gap of   *)
(* InvalidateBlock it can reset the very block InvalidateBlock marked.  It *)
(* holds when reconsiderblock is not called while InvalidateBlock runs and *)
(* is given blocks whose ancestors have not failed.                        *)
(***************************************************************************)
CarefulReset ==
    \A b \in Reconsiderable :
        ReconsiderBlock(b) => proc # "walk" /\ Chain[b] \cap Failed \subseteq {b}

Blamed ==
    /\ \A b \in Failed : Chain[b] \cap failedValid # {}
    /\ proc = "walk" /\ inv.wasInChain => inv.toMark \in failedValid

LEMMA BlamedStep ==
    StateInv /\ Parts /\ Closed /\ Collection /\ Blamed /\ [Next]_vars /\ [CarefulReset]_vars
        => Blamed'

\* InvalidChainFound for a block that is marked leaves every failed block with
\* a culprit.
<1>MarkBlamed. ASSUME Parts, Blamed, NEW n \in Block,
                      Failed' = Failed \cup {n} \cup Descendants(n),
                      failedValid' = (failedValid \cup {n}) \ Descendants(n),
                      NEW x \in Failed'
               PROVE  Chain[x] \cap failedValid' # {}
  <2> USE <1>MarkBlamed
  <2>1. x \in Block /\ n \in failedValid' /\ n \in Chain[n]
    BY FailedKnown, TreeFacts DEF Descendants
  <2>2. CASE n \in Chain[x]
    BY <2>1, <2>2
  <2>3. CASE n \notin Chain[x]
    <3>1. x \in Failed
      BY <2>1, <2>3 DEF Descendants
    <3>2. PICK y \in Chain[x] : y \in failedValid
      BY <3>1 DEF Blamed
    <3>3. n \notin Chain[y]
      BY <2>1, <2>3, TreeFacts
    <3> QED  BY <3>2, <3>3 DEF Descendants
  <2> QED  BY <2>2, <2>3

<1>ProcessBlockBlamed. ASSUME Parts, Collection, Blamed,
                              NEW b \in Block \ {Genesis}, NEW r \in BOOLEAN, ProcessNewBlock(b, r)
                       PROVE  Blamed'
  <2> USE <1>ProcessBlockBlamed
  <2>1. UNCHANGED <<proc, inv>> /\ (BlockTaken \/ BlockRejected(b))
    BY ProcessBlockEffect
  <2>2. CASE BlockTaken
    BY <2>1, <2>2 DEF BlockTaken, Blamed
  <2>3. CASE BlockRejected(b)
    <3>1. /\ b \notin data /\ Failed' = Failed \cup {b} \cup Descendants(b)
          /\ failedValid' = (failedValid \cup {b}) \ Descendants(b)
      BY <2>3 DEF BlockRejected
    <3>2. \A x \in Failed' : Chain[x] \cap failedValid' # {}
      BY <3>1, <1>MarkBlamed
    <3>3. ASSUME proc = "walk", inv.wasInChain PROVE inv.toMark \in failedValid'
      <4>1. inv.toMark \in linked /\ inv.toMark \in failedValid
        BY <3>3 DEF Collection, Blamed
      <4>2. b \notin Chain[inv.toMark]
        BY <3>1, <4>1, Places DEF Parts, Rooted
      <4> QED  BY <3>1, <4>1, <4>2 DEF Descendants
    <3> QED  BY <2>1, <3>2, <3>3 DEF Blamed
  <2> QED  BY <2>1, <2>2, <2>3

<1>ConnectFailsBlamed. ASSUME Parts, Blamed, NEW c \in Block, ConnectTipFails(c)
                       PROVE  Blamed'
  <2> USE <1>ConnectFailsBlamed
  <2>1. /\ Failed' = Failed \cup {c} \cup Descendants(c)
        /\ failedValid' = (failedValid \cup {c}) \ Descendants(c)
        /\ proc' # "walk"
    BY SMT, FoundMarks DEF ConnectTipFails, EndStep, Failed
  <2> QED  BY <2>1, <1>MarkBlamed DEF Blamed

<1>InvalidateTipBlamed. ASSUME StateInv, Parts, Closed, Collection, Blamed, InvalidateTip
                        PROVE  Blamed'
  <2> USE <1>InvalidateTipBlamed
  <2> DEFINE high == {c \in inv.highpow : Work[c] >= Work[Parent[tip]]}
             dead == {c \in high : tip \in Chain[c]}
             child == dead \cup (IF tip = Parent[inv.toMark]
                                 THEN {inv.toMark} \cap failedValid ELSE {})
  <2>1. /\ proc = "walk"
        /\ failedValid' = (failedValid \cup {tip}) \ child
        /\ failedChild' = failedChild \cup child
        /\ inv' = [inv EXCEPT !.toMark = tip, !.wasInChain = TRUE, !.highpow = @ \ dead]
    BY DEF InvalidateTip
  <2>2. inv'.toMark = tip
    BY <2>1 DEF Parts, CallTypes
  <2>3. tip \in Block /\ tip \in Chain[tip] /\ inv.toMark \in Block \ {Genesis}
    BY <2>1, Places, TreeFacts, FailedKnown DEF Closed
  <2>4. \A y \in child : tip \in Chain[y]
    BY <2>3, TreeFacts
  <2>5. tip \notin child
    <3>1. tip \notin dead
      BY <2>1, <2>3 DEF Collection
    <3>2. tip = Parent[inv.toMark] => tip # inv.toMark
      BY <2>3, TreeFacts
    <3> QED  BY <3>1, <3>2
  <2> HIDE DEF child
  <2>6. tip \in failedValid' /\ Failed' = Failed \cup {tip} \cup child
    BY <2>1, <2>5 DEF Failed
  <2>7. ASSUME NEW x \in Failed' PROVE Chain[x] \cap failedValid' # {}
    <3>1. CASE x \in {tip} \cup child
      BY <2>3, <2>4, <2>6, <3>1
    <3>2. CASE x \in Failed
      <4>1. PICK y \in Chain[x] : y \in failedValid
        BY <3>2 DEF Blamed
      <4>2. x \in Block
        BY <3>2, FailedKnown
      <4>3. CASE y \in child
        BY <2>4, <2>6, <4>1, <4>2, <4>3, TreeFacts
      <4>4. CASE y \notin child
        BY <2>1, <4>1, <4>4
      <4> QED  BY <4>3, <4>4
    <3> QED  BY <2>6, <3>1, <3>2
  <2> QED  BY <2>2, <2>6, <2>7 DEF Blamed

<1>FinishBlamed. ASSUME StateInv, Parts, Closed, Blamed, FinishInvalidate
                 PROVE  Blamed'
  <2> USE <1>FinishBlamed
  <2> DEFINE self == IF inv.wasInChain THEN {} ELSE {inv.pindex} \ Failed
             n == inv.toMark
  <2>1. /\ proc = "walk" /\ proc' = "idle"
        /\ InvalidChainFound(failedValid \cup self, inv.toMark, inv.toMark, bestHeader)
    BY DEF FinishInvalidate
  <2>2. /\ Failed' = Failed \cup self \cup Descendants(n)
        /\ failedValid' = (failedValid \cup self) \ Descendants(n)
    BY SMT, <2>1, FoundMarks DEF Failed
  <2>3. n \in Block /\ self \subseteq {n}
    BY <2>1, FailedKnown DEF Closed
  <2>4. Chain[n] \cap (failedValid \cup self) # {}
    <3>1. CASE inv.wasInChain
      BY <2>1, <2>3, <3>1, TreeFacts DEF Blamed
    <3>2. CASE ~inv.wasInChain
      <4>1. inv.pindex = n /\ (n \in Failed \/ n \in self)
        BY <2>1, <3>2 DEF Closed
      <4> QED  BY SMT, <2>3, <4>1, TreeFacts DEF Blamed
    <3> QED  BY <3>1, <3>2
  <2>5. PICK y \in Chain[n] : y \in failedValid'
    <3>1. PICK y \in Chain[n] : y \in failedValid \cup self
      BY <2>4
    <3>2. y \notin Descendants(n)
      BY <2>3, <3>1, ChainAntisymmetric, TreeFacts DEF Descendants
    <3> QED  BY <2>2, <3>1, <3>2
  <2> HIDE DEF self
  <2>6. ASSUME NEW x \in Failed' PROVE Chain[x] \cap failedValid' # {}
    <3>1. x \in Block
      BY <2>2, <2>3, FailedKnown DEF Descendants
    <3>2. CASE n \in Chain[x]
      BY <2>3, <2>5, <3>1, <3>2, TreeFacts
    <3>3. CASE n \notin Chain[x]
      <4>1. x \in Failed
        BY <2>2, <2>3, <3>1, <3>3, TreeFacts DEF Descendants
      <4>2. PICK z \in Chain[x] : z \in failedValid
        BY <4>1 DEF Blamed
      <4>3. z \notin Descendants(n)
        BY SMT, <3>1, <3>3, <4>2, TreeFacts DEF Descendants
      <4> QED  BY <2>2, <4>2, <4>3
    <3> QED  BY <3>2, <3>3
  <2> QED  BY <2>1, <2>6 DEF Blamed

<1>ReconsiderBlamed. ASSUME CarefulReset, StateInv, Parts, Closed, Blamed,
                            NEW r \in Reconsiderable, ReconsiderBlock(r)
                     PROVE  Blamed'
  <2> USE <1>ReconsiderBlamed
  <2>1. /\ proc # "walk" /\ proc' = proc /\ Chain[r] \cap Failed \subseteq {r}
        /\ failedValid' = failedValid \ Reset(r) /\ r \in Block
    BY FailedKnown DEF ReconsiderBlock, CarefulReset
  <2>2. Failed' = Failed \ Reset(r)
    BY ReconsiderClosed
  <2>3. ASSUME NEW x \in Failed' PROVE Chain[x] \cap failedValid' # {}
    <3>1. x \in Failed /\ x \in Block /\ r \notin Chain[x]
      BY <2>2, FailedKnown DEF Reset
    <3>2. PICK y \in Chain[x] : y \in failedValid
      BY <3>1 DEF Blamed
    <3>3. y \in Failed /\ y \in Block /\ r \notin Chain[y]
      BY <3>1, <3>2, TreeFacts DEF Failed
    <3>4. ASSUME y \in Chain[r] PROVE FALSE
      BY <2>1, <3>3, <3>4, TreeFacts
    <3> QED  BY <2>1, <3>2, <3>3, <3>4 DEF Reset
  <2> QED  BY <2>1, <2>3 DEF Blamed

<1> SUFFICES ASSUME StateInv, Parts, Closed, Collection, Blamed, [Next]_vars,
                    [CarefulReset]_vars
             PROVE  Blamed'
  OBVIOUS
<1>1. CASE UNCHANGED vars \/ (\E b \in Block \ {Genesis} : ProcessNewBlockHeaders(b))
           \/ \E b \in Precious : PreciousBlock(b)
  <2>1. UNCHANGED <<failedValid, failedChild, proc, inv>>
    BY <1>1 DEF vars, ProcessNewBlockHeaders, PreciousBlock, flags
  <2> QED  BY <2>1 DEF Blamed, Failed
<1>2. CASE ActivateBestChain \/ NextRound \/ FindMostWorkChain \/ AlreadyBest
           \/ ActivateBestChainStep \/ \E c \in Block : ConnectTip(c)
  <2>1. UNCHANGED <<failedValid, failedChild>> /\ proc' # "walk"
    BY <1>2 DEF ActivateBestChain, NextRound, FindMostWorkChain, AlreadyBest,
                ActivateBestChainStep, ConnectTip, EndStep, flags
  <2> QED  BY <2>1 DEF Blamed, Failed
<1>3. CASE DropCandidate
  <2>1. failedValid' = failedValid /\ proc' # "walk"
    BY <1>3 DEF DropCandidate
  <2> QED  BY <1>3, <2>1, DropMarksNothing DEF Blamed
<1>4. CASE \E b \in Invalidable : InvalidateBlock(b)
  <2>1. UNCHANGED <<failedValid, failedChild>> /\ inv'.wasInChain = FALSE
    BY SMT, <1>4 DEF InvalidateBlock, flags
  <2> QED  BY <2>1 DEF Blamed, Failed
<1> QED
  BY <1>1, <1>2, <1>3, <1>4, <1>ProcessBlockBlamed, <1>ConnectFailsBlamed, <1>InvalidateTipBlamed,
     <1>FinishBlamed, <1>ReconsiderBlamed DEF Next

LEMMA AlwaysBlamed == Spec /\ [][CarefulReset]_vars => []Blamed
<1>1. Init => Blamed
  BY DEF Init, Blamed, Failed
<1> QED  BY <1>1, BlamedStep, ChainStateCollected, PTL DEF Spec

\* CheckBlockIndex: a block marked as failed is, or descends from, one marked
\* BLOCK_FAILED_VALID, whenever cs_main is free, in the gaps of InvalidateBlock
\* too, for careful uses of reconsiderblock.
THEOREM FailuresHaveCause == Spec /\ [][CarefulReset]_vars => []FailureCaused
<1>1. Blamed => FailureCaused
  BY DEF Blamed, FailureCaused
<1> QED  BY <1>1, AlwaysBlamed, PTL

\* The candidates are exact while they are up to date.
LEMMA CompleteExact ==
    ASSUME Parts, Ranked, Complete(FALSE), Blamed, Settled
    PROVE  CandidatesExact
<1>1. \A b \in cand : ~Worse(seq, b, tip)
  BY DEF Ranked
<1>2. ASSUME NEW b \in linked, ~Worse(seq, b, tip), Chain[b] \cap failedValid = {}
      PROVE  b \in cand
  <2>1. ASSUME NEW x \in Chain[b], x \in Failed PROVE FALSE
    <3>1. Chain[x] \subseteq Chain[b]
      BY Places, TreeFacts, <1>2
    <3> QED  BY <1>2, <2>1, <3>1 DEF Blamed
  <2>2. b \in Usable
    BY <2>1 DEF Usable
  <2> QED  BY <1>2, <2>2 DEF Complete, Ahead
<1> QED  BY <1>1, <1>2 DEF CandidatesExact

\* CheckBlockIndex: between two operations, and two rounds of
\* ActivateBestChain, setBlockIndexCandidates holds every linked block that
\* does not sort before the tip and has no invalid ancestor, and nothing worse
\* than the tip, whatever arrived while InvalidateBlock ran.
THEOREM CandidatesAreExact ==
    Spec /\ [][CarefulReset]_vars /\ [][TipKept]_vars => []CandidatesSettled
<1>1. Parts /\ Ranked /\ Complete(FALSE) /\ Blamed => CandidatesSettled
  BY CompleteExact DEF CandidatesSettled
<1> QED  BY <1>1, AlwaysBlamed, FullOrder, PTL

-----------------------------------------------------------------------------
(***************************************************************************)
(* The linked blocks and m_blocks_unlinked.  A block whose parent has      *)
(* failed is not put there, and would be lost if the missing ancestors     *)
(* arrived after all.  AcceptBlock takes such a block only in a gap of     *)
(* InvalidateBlock: then every ancestor that has no data was collected and *)
(* marked, so it is refused unless reconsiderblock resets it.  So the node *)
(* must have no such block when reconsiderblock is called.                 *)
(***************************************************************************)
NothingLost ==
    \A b \in Reconsiderable : ReconsiderBlock(b) => data \subseteq linked \cup unlinked

\* Below a failed ancestor of a block that has not failed, what has no data
\* has failed.
Shadow ==
    \A x \in known \ Failed : \A a \in Chain[x] \cap Failed : Chain[a] \subseteq Failed \cup data

\* With a block InvalidateBlock collects its ancestors down to pindex, unless
\* they have failed or were active.
Gathered ==
    proc = "walk" => \A d \in inv.highpow : \A a \in Chain[d] :
                        inv.pindex \in Chain[a] => a \in inv.highpow \cup Failed \cup linked

\* A block that waits for data and is not queued waits for failed blocks only.
Waiting ==
    \A c \in (data \ linked) \ unlinked : Chain[c] \ data \subseteq Failed

\* A block that has data and is not linked misses the data of an ancestor.
Gapless == \A c \in data \ linked : ~(Chain[c] \subseteq data)

\* A block that is accepted has not failed; one that was not known has a
\* parent that has not.
LEMMA AcceptedFacts ==
    ASSUME Parts, NEW b \in Block \ {Genesis}, HeaderAccepted(b)
    PROVE  /\ b \notin Failed /\ Parent[b] \in Block /\ Chain[b] = Chain[Parent[b]] \cup {b}
           /\ b \notin Chain[Parent[b]]
           /\ b \notin known => Parent[b] \in known \ Failed
<1>1. Failed \subseteq known
  BY FailedKnown
<1> QED  BY <1>1, ChainTree DEF HeaderAccepted

LEMMA ShadowStep ==
    StateInv /\ Parts /\ Closed /\ Shadow /\ Gathered /\ [Next]_vars /\ Closed'
        /\ [CarefulReset]_vars
    => Shadow' /\ Gathered'

<1>ArrivalShadow. ASSUME Parts, Shadow, NEW b \in Block \ {Genesis}, HeaderAccepted(b),
                         known' = known \cup {b}, data \subseteq data',
                         Failed' = Failed \/ Failed' = Failed \cup {b} \cup Descendants(b)
                  PROVE  Shadow'
  <2> USE <1>ArrivalShadow
  <2>1. SUFFICES ASSUME NEW x \in known' \ Failed', NEW a \in Chain[x] \cap Failed'
                 PROVE  Chain[a] \subseteq Failed \cup data
    BY DEF Shadow
  <2>2. x \in Block /\ x \notin Failed
    BY FailedKnown
  <2>3. a \in Failed
    <3>1. CASE a \in {b} \cup Descendants(b)
      <4>1. b \in Chain[x]
        BY <2>2, <3>1, TreeFacts DEF Descendants
      <4>2. Failed' = Failed \/ x \in Failed'
        BY <4>1 DEF Descendants
      <4> QED  BY <2>1, <4>2
    <3> QED  BY <3>1
  <2>4. CASE x \in known
    BY <2>2, <2>3, <2>4 DEF Shadow
  <2>5. CASE x \notin known
    <3>1. x = b /\ Parent[b] \in known \ Failed /\ Chain[b] = Chain[Parent[b]] \cup {b}
      BY SMT, <2>5, AcceptedFacts
    <3>2. a \in Chain[Parent[b]]
      BY <2>2, <2>3, <3>1
    <3> QED  BY <2>3, <3>1, <3>2 DEF Shadow
  <2> QED  BY <2>4, <2>5

<1>StartGathered. ASSUME Parts, NEW b \in Invalidable, InvalidateBlock(b)
                  PROVE  Gathered'
  <2> USE <1>StartGathered
  <2>1. /\ UNCHANGED <<known, failedValid, failedChild, linked>> /\ b \in known
        /\ inv'.pindex = b
        /\ inv'.highpow = {c \in known \ (Chain[tip] \cup Failed) : ~Worse(seq, c, Parent[b])}
    BY DEF InvalidateBlock, Collected, index, flags
  <2>2. Failed' = Failed
    BY <2>1 DEF Failed
  <2>3. b \in Block \ {Genesis}
    BY InputAssumption
  <2>4. ASSUME NEW d \in inv'.highpow, NEW a \in Chain[d], b \in Chain[a]
        PROVE  a \in inv'.highpow \cup Failed \cup linked
    <3>1. a \in known /\ a \in Block
      BY <2>1, FailedKnown DEF Parts, Rooted
    <3>2. Chain[tip] \subseteq linked
      BY DEF Parts, PlaceTypes, Rooted
    <3>3. Work[Parent[b]] < Work[a] /\ Parent[b] \in Block
      <4>1. Work[Parent[b]] < Work[b] /\ Parent[b] \in Block
        BY <2>3, WorkAssumption, ChainTree
      <4>2. a = b \/ Work[b] < Work[a]
        BY <2>4, <3>1, LighterBelow
      <4>3. Work[Parent[b]] \in Nat /\ Work[b] \in Nat /\ Work[a] \in Nat
        BY <2>3, <3>1, <4>1, WorkAssumption
      <4> QED  BY SMT, <4>1, <4>2, <4>3
    <3>4. ~Worse(seq, a, Parent[b])
      BY <3>1, <3>3, Places, WorseOrder
    <3> QED  BY <2>1, <3>1, <3>2, <3>4
  <2> QED  BY <2>1, <2>2, <2>4 DEF Gathered

<1>InvalidateTipShadow. ASSUME StateInv, Parts, Shadow, Gathered, InvalidateTip
                        PROVE  Shadow' /\ Gathered'
  <2> USE <1>InvalidateTipShadow
  <2>1. proc = "walk" /\ tip \in known \ {Genesis} /\ tip \in Block
    BY InvalidateTipMarks, Places
  <2>2. PICK dead \in SUBSET inv.highpow :
           /\ \A c \in inv.highpow :
                 c \in dead <=> Work[c] >= Work[Parent[tip]] /\ tip \in Chain[c]
           /\ Failed' = Failed \cup {tip} \cup dead
           /\ inv' = [inv EXCEPT !.toMark = tip, !.wasInChain = TRUE, !.highpow = @ \ dead]
    BY InvalidateTipMarks
  <2>3. inv'.pindex = inv.pindex /\ inv'.highpow = inv.highpow \ dead
    BY <2>2 DEF Parts, CallTypes
  <2>4. UNCHANGED <<known, linked, data>> /\ inv.pindex \in Chain[tip]
    BY DEF InvalidateTip, index
  <2>5. Chain[tip] \subseteq data /\ linked \subseteq data
    BY Places DEF Parts, Rooted
  <2>6. ASSUME NEW x \in known \ Failed', NEW a \in Chain[x] \cap Failed', NEW e \in Chain[a]
        PROVE  e \in Failed' \cup data
    <3>1. x \in Block /\ a \in Block /\ x \notin Failed /\ e \in Block
      BY <2>2, FailedKnown, TreeFacts
    <3>2. CASE a \in Failed
      BY <2>2, <3>1, <3>2 DEF Shadow
    <3>3. CASE a = tip
      BY <2>5, <3>3
    <3>4. CASE a \in dead
      <4>1. a \in inv.highpow /\ tip \in Chain[a]
        BY <2>2, <3>4
      <4>2. CASE e \in Chain[tip]
        BY <2>5, <4>2
      <4>3. CASE tip \in Chain[e]
        <5>1. inv.pindex \in Chain[e]
          BY SMT, <2>4, <3>1, <4>3, TreeFacts
        <5>2. e \in inv.highpow \cup Failed \cup linked
          BY <2>1, <4>1, <5>1 DEF Gathered
        <5>3. Work[e] >= Work[Parent[tip]]
          <6>1. Work[Parent[tip]] < Work[tip] /\ Parent[tip] \in Block
            BY <2>1, WorkAssumption, ChainTree
          <6>2. e = tip \/ Work[tip] < Work[e]
            BY <3>1, <4>3, LighterBelow
          <6>3. Work[Parent[tip]] \in Nat /\ Work[tip] \in Nat /\ Work[e] \in Nat
            BY <2>1, <3>1, <6>1, WorkAssumption
          <6> QED  BY SMT, <6>1, <6>2, <6>3
        <5> QED  BY <2>2, <2>5, <4>3, <5>2, <5>3
      <4> QED  BY <3>1, <4>1, <4>2, <4>3, TreeFacts
    <3> QED  BY <2>2, <3>2, <3>3, <3>4
  <2>7. ASSUME NEW d \in inv'.highpow, NEW a \in Chain[d], inv.pindex \in Chain[a]
        PROVE  a \in inv'.highpow \cup Failed' \cup linked
    BY <2>1, <2>2, <2>3, <2>7 DEF Gathered
  <2> QED  BY <2>3, <2>4, <2>6, <2>7 DEF Shadow, Gathered

<1> SUFFICES ASSUME StateInv, Parts, Closed, Shadow, Gathered, [Next]_vars, Closed',
                    [CarefulReset]_vars
             PROVE  Shadow' /\ Gathered'
  OBVIOUS
<1>1. CASE proc' # "walk"
  <2>1. (Closed /\ proc # "walk" => Shadow /\ Gathered)'
    BY DEF Closed, Awaiting, Shadow, Gathered
  <2> QED  BY <1>1, <2>1
<1>2. CASE UNCHANGED vars \/ \E b \in Precious : PreciousBlock(b)
  <2>1. UNCHANGED <<known, data, linked, failedValid, failedChild, proc, inv>>
    BY <1>2 DEF vars, PreciousBlock, index, flags
  <2> QED  BY <2>1 DEF Shadow, Gathered, Failed
<1>3. ASSUME NEW b \in Block \ {Genesis}, ProcessNewBlockHeaders(b) PROVE Shadow' /\ Gathered'
  <2>1. /\ HeaderAccepted(b) /\ known' = known \cup {b} /\ Failed' = Failed
        /\ UNCHANGED <<data, linked, proc, inv>>
    BY <1>3 DEF ProcessNewBlockHeaders, flags, Failed
  <2>2. Shadow'
    BY <2>1, <1>ArrivalShadow
  <2> QED  BY <2>1, <2>2 DEF Gathered
<1>4. ASSUME NEW b \in Block \ {Genesis}, NEW r \in BOOLEAN, ProcessNewBlock(b, r)
      PROVE  Shadow' /\ Gathered'
  <2>1. /\ UNCHANGED <<proc, inv>> /\ linked \subseteq linked'
        /\ BlockTaken \/ BlockRejected(b)
    BY <1>4, ProcessBlockEffect
  <2>2. Failed' = Failed \/ Failed' = Failed \cup {b} \cup Descendants(b)
    BY <2>1 DEF BlockTaken, BlockRejected
  <2>3. HeaderAccepted(b) /\ known' = known \cup {b} /\ data \subseteq data'
    BY <1>4 DEF ProcessNewBlock, ReceivedBlockTransactions
  <2>4. Shadow'
    BY <2>2, <2>3, <1>ArrivalShadow
  <2> QED  BY <2>1, <2>2, <2>4 DEF Gathered
<1>5. ASSUME NEW b \in Invalidable, InvalidateBlock(b) PROVE Shadow' /\ Gathered'
  <2>1. UNCHANGED <<known, data, failedValid, failedChild>>
    BY <1>5 DEF InvalidateBlock, index, flags
  <2>2. Shadow'
    BY <2>1 DEF Shadow, Failed
  <2> QED  BY <1>5, <2>2, <1>StartGathered
<1>6. ASSUME NEW b \in Reconsiderable, ReconsiderBlock(b), CarefulReset PROVE proc' # "walk"
  BY <1>6 DEF ReconsiderBlock, CarefulReset
<1>7. CASE ActivateBestChain \/ NextRound \/ FindMostWorkChain \/ AlreadyBest \/ DropCandidate
           \/ ActivateBestChainStep \/ (\E c \in Block : ConnectTip(c) \/ ConnectTipFails(c))
           \/ FinishInvalidate
  <2>1. proc' # "walk"
    BY <1>7 DEF ActivateBestChain, NextRound, FindMostWorkChain, AlreadyBest, DropCandidate,
                ActivateBestChainStep, ConnectTip, ConnectTipFails, EndStep, FinishInvalidate
  <2> QED  BY <1>1, <2>1
<1> QED
  BY <1>1, <1>2, <1>3, <1>4, <1>5, <1>6, <1>7, <1>InvalidateTipShadow DEF Next

LEMMA WaitingStep ==
    StateInv /\ Parts /\ Closed /\ Shadow /\ Waiting /\ Gapless /\ [Next]_vars
        /\ [NothingLost]_vars
    => Waiting' /\ Gapless'

\* A block arrives whose parent is linked.
<1>LinkWaiting.
      ASSUME Parts, Waiting, Gapless, NEW b \in Block \ {Genesis}, HeaderAccepted(b), b \notin data,
             Parent[b] \in linked, data' = data \cup {b}, Failed' = Failed, Link(b)
      PROVE  Waiting' /\ Gapless'
  <2> USE <1>LinkWaiting
  <2> DEFINE L == NewlyLinked(b)
  <2>1. linked' = linked \cup L /\ unlinked' = unlinked \ L /\ b \in L
    BY DEF Link, NewlyLinked
  <2>2. b \notin Failed /\ b \notin linked
    BY AcceptedFacts, Places
  <2> HIDE DEF L
  <2>3. Waiting'
    BY <2>1 DEF Waiting
  <2>4. ASSUME NEW c \in data' \ linked', Chain[c] \subseteq data' PROVE FALSE
    <3>1. c \in data \ linked /\ c # b /\ c \in Block
      BY <2>1, <2>4 DEF Parts, IndexTypes
    <3>2. b \in Chain[c]
      BY <2>4, <3>1 DEF Gapless
    <3>3. ASSUME NEW z \in Chain[c] \ Chain[b] PROVE z \in unlinked
      <4>1. b \in Chain[z] /\ z \in Block /\ z # b
        BY <3>1, <3>2, TreeFacts
      <4>2. z \in data /\ z \notin linked
        BY <2>2, <2>4, <4>1 DEF Parts, Rooted
      <4> QED  BY <2>2, <4>1, <4>2 DEF Waiting
    <3>4. c \in Chain[c] /\ c \notin Chain[b]
      BY <3>1, <3>2, ChainAntisymmetric, TreeFacts
    <3>5. c \in L
      BY <3>2, <3>3, <3>4 DEF L, NewlyLinked
    <3> QED  BY <2>1, <2>4, <3>5
  <2> QED  BY <2>3, <2>4 DEF Gapless

\* A block arrives whose parent is not.
<1>QueueWaiting.
      ASSUME Parts, Closed, Shadow, Waiting, Gapless, NEW b \in Block \ {Genesis},
             HeaderAccepted(b), b \notin data,
             Parent[b] \notin linked, data' = data \cup {b}, Failed' = Failed, linked' = linked,
             unlinked' = unlinked \cup (IF Parent[b] \in Failed THEN {} ELSE {b})
      PROVE  Waiting' /\ Gapless'
  <2> USE <1>QueueWaiting
  <2> DEFINE p == Parent[b]
  <2>1. /\ b \notin Failed /\ p \in Block /\ Chain[b] = Chain[p] \cup {b} /\ b \notin Chain[p]
        /\ b \notin known => p \notin Failed
    BY AcceptedFacts
  <2>2. ASSUME p \in Failed PROVE Chain[b] \ data' \subseteq Failed
    <3>1. b \in known /\ p \in Chain[b] /\ p \in Chain[p]
      BY <2>1, <2>2, TreeFacts
    <3>2. Chain[p] \subseteq Failed \cup data
      BY <2>1, <2>2, <3>1 DEF Shadow
    <3> QED  BY <2>1, <3>2
  <2>3. Waiting'
    <3>1. ASSUME NEW c \in (data' \ linked') \ unlinked'
          PROVE  Chain[c] \ data' \subseteq Failed
      <4>1. CASE c = b
        BY <2>2, <3>1, <4>1
      <4>2. CASE c # b
        BY <3>1, <4>2 DEF Waiting
      <4> QED  BY <4>1, <4>2
    <3> QED  BY <3>1 DEF Waiting
  <2>4. ASSUME NEW c \in data' \ linked, Chain[c] \subseteq data' PROVE FALSE
    <3>1. c \in Block
      BY <2>4 DEF Parts, IndexTypes
    <3>2. CASE b \in Chain[c]
      <4>1. Chain[p] \subseteq Chain[c] /\ p \in Chain[p]
        BY <2>1, <3>1, <3>2, TreeFacts
      <4>2. Chain[p] \subseteq data
        BY <2>1, <2>4, <4>1
      <4> QED  BY <4>1, <4>2 DEF Gapless
    <3>3. CASE b \notin Chain[c]
      <4>1. c \in data /\ Chain[c] \subseteq data
        BY <2>4, <3>1, <3>3, TreeFacts
      <4> QED  BY <2>4, <4>1 DEF Gapless
    <3> QED  BY <3>2, <3>3
  <2> QED  BY <2>3, <2>4 DEF Gapless

<1>SameWaiting.
      ASSUME Waiting, Gapless, UNCHANGED <<data, linked, unlinked>>, Failed \subseteq Failed'
      PROVE  Waiting' /\ Gapless'
  BY <1>SameWaiting DEF Waiting, Gapless

<1> SUFFICES ASSUME StateInv, Parts, Closed, Shadow, Waiting, Gapless, [Next]_vars,
                    [NothingLost]_vars
             PROVE  Waiting' /\ Gapless'
  OBVIOUS
<1>1. CASE \/ UNCHANGED vars
           \/ \E b \in Block \ {Genesis} : ProcessNewBlockHeaders(b)
           \/ ActivateBestChain \/ NextRound \/ FindMostWorkChain \/ AlreadyBest \/ DropCandidate
           \/ ActivateBestChainStep \/ (\E c \in Block : ConnectTip(c))
           \/ (\E b \in Invalidable : InvalidateBlock(b))
           \/ \E b \in Precious : PreciousBlock(b)
  <2>1. UNCHANGED <<data, linked, unlinked>> /\ Failed \subseteq Failed'
    BY <1>1 DEF vars, ProcessNewBlockHeaders, ActivateBestChain, NextRound, FindMostWorkChain,
                AlreadyBest, DropCandidate, ActivateBestChainStep, ConnectTip,
                InvalidateBlock, PreciousBlock, index, flags, Failed
  <2> QED  BY <2>1, <1>SameWaiting
<1>2. CASE (\E c \in Block : ConnectTipFails(c)) \/ InvalidateTip \/ FinishInvalidate
  <2>1. UNCHANGED <<data, linked, unlinked>>
    BY <1>2 DEF ConnectTipFails, InvalidateTip, FinishInvalidate, index
  <2>2. Failed \subseteq Failed'
    <3>1. ASSUME NEW c \in Block, ConnectTipFails(c) PROVE Failed \subseteq Failed'
      BY SMT, <3>1, FoundMarks DEF ConnectTipFails, Failed
    <3>2. FinishInvalidate => Failed \subseteq Failed'
      BY FinishClosed
    <3>3. InvalidateTip => Failed \subseteq Failed'
      BY InvalidateTipMarks
    <3> QED  BY <1>2, <3>1, <3>2, <3>3
  <2> QED  BY <2>1, <2>2, <1>SameWaiting
<1>3. ASSUME NEW b \in Reconsiderable, ReconsiderBlock(b), NothingLost PROVE Waiting' /\ Gapless'
  <2>1. UNCHANGED <<data, linked, unlinked>> /\ data \subseteq linked \cup unlinked
    BY <1>3 DEF ReconsiderBlock, index, NothingLost
  <2> QED  BY <2>1 DEF Waiting, Gapless
<1>4. ASSUME NEW b \in Block \ {Genesis}, NEW r \in BOOLEAN, ProcessNewBlock(b, r)
      PROVE  Waiting' /\ Gapless'
  <2>1. \/ UNCHANGED <<data, linked, unlinked>>
        \/ b \notin data /\ ReceivedBlockTransactions(b) /\ UNCHANGED flags
    BY <1>4 DEF ProcessNewBlock
  <2>2. HeaderAccepted(b)
    BY <1>4 DEF ProcessNewBlock
  <2>3. CASE UNCHANGED <<data, linked, unlinked>>
    <3>1. BlockTaken \/ BlockRejected(b)
      BY <1>4, ProcessBlockEffect
    <3>2. Failed \subseteq Failed'
      BY <3>1 DEF BlockTaken, BlockRejected
    <3> QED  BY <2>3, <3>2, <1>SameWaiting
  <2>4. CASE b \notin data /\ ReceivedBlockTransactions(b) /\ UNCHANGED flags
    <3>1. data' = data \cup {b} /\ Failed' = Failed
      BY <2>4 DEF ReceivedBlockTransactions, flags, Failed
    <3>2. CASE Parent[b] \in linked
      <4>1. Link(b)
        BY <2>4, <3>2 DEF ReceivedBlockTransactions
      <4> QED  BY <2>2, <2>4, <3>1, <3>2, <4>1, <1>LinkWaiting
    <3>3. CASE Parent[b] \notin linked
      <4>1. /\ linked' = linked
            /\ unlinked' = unlinked \cup (IF Parent[b] \in Failed THEN {} ELSE {b})
        BY <2>4, <3>3 DEF ReceivedBlockTransactions
      <4> QED  BY <2>2, <2>4, <3>1, <3>3, <4>1, <1>QueueWaiting
    <3> QED  BY <3>2, <3>3
  <2> QED  BY <2>1, <2>3, <2>4
<1> QED  BY <1>1, <1>2, <1>3, <1>4 DEF Next

LEMMA InitWaiting == Init => Shadow /\ Gathered /\ Waiting /\ Gapless
  BY DEF Init, Shadow, Gathered, Waiting, Gapless, Failed

\* CheckBlockIndex: a known block is linked (HaveNumChainTxs) exactly when it
\* and all its ancestors have data, in whatever order they arrived, and a
\* block with data that is not linked and has no invalid ancestor waits in
\* m_blocks_unlinked, where nothing else is; if reconsiderblock is used with
\* care and not while a block with data is missing there.
THEOREM LinkedAreExact ==
    Spec /\ [][CarefulReset]_vars /\ [][NothingLost]_vars => []LinkedExact
<1> DEFINE Base == StateInv /\ Parts /\ Closed
           All == Shadow /\ Gathered /\ Waiting /\ Gapless
<1>1. Spec => []Base
  BY ChainStateRanked, PTL
<1>2. Init => All
  BY InitWaiting
<1>3. Base /\ Base' /\ All /\ [Next]_vars /\ [CarefulReset]_vars /\ [NothingLost]_vars => All'
  BY ShadowStep, WaitingStep
<1>4. Base /\ All /\ Blamed => LinkedExact
  <2> SUFFICES ASSUME Base, All, Blamed PROVE LinkedExact
    OBVIOUS
  <2>1. \A b \in known : b \in linked <=> Chain[b] \subseteq data
    BY TreeFacts DEF Parts, IndexTypes, Rooted, Gapless
  <2>2. unlinked \cap linked = {}
    BY DEF Parts, Rooted
  <2>3. ASSUME NEW b \in data \ linked, Chain[b] \cap failedValid = {}, b \notin unlinked
        PROVE  FALSE
    <3>1. Chain[b] \ data \subseteq Failed
      BY <2>3 DEF Waiting
    <3>2. b \in Block
      BY DEF Parts, IndexTypes
    <3>3. PICK a \in Chain[b] : a \in Failed
      BY <3>1 DEF Gapless
    <3>4. Chain[a] \subseteq Chain[b]
      BY <3>2, <3>3, TreeFacts
    <3> QED  BY <2>3, <3>2, <3>3, <3>4 DEF Blamed
  <2> QED  BY <2>1, <2>2, <2>3 DEF LinkedExact
<1> HIDE DEF Base, All
<1> QED  BY <1>1, <1>2, <1>3, <1>4, AlwaysBlamed, PTL DEF Spec

-----------------------------------------------------------------------------
(***************************************************************************)
(* m_best_header.  It is corrected wherever a block is marked.  A round of *)
(* InvalidateBlock searches only what the call collected when it began:    *)
(* apart from what others touch in the gaps, that is every block heavier   *)
(* than the tip it arrives at, and none that has failed.                   *)
(***************************************************************************)
Searched ==
    proc = "walk" =>
        /\ inv.highpow \cap Failed \subseteq touched
        /\ \A c \in known \ (Failed \cup touched \cup Chain[tip]) :
               Work[Parent[inv.pindex]] < Work[c] => c \in inv.highpow

HeaderInv ==
    /\ bestHeader \notin Failed \ touched
    /\ \A c \in known \ (Failed \cup touched) : Work[c] <= Work[bestHeader]

\* The header is the best as far as the flags before the step go.
BestBefore(h) ==
    /\ h \notin Failed \ touched
    /\ \A c \in known \ (Failed \cup touched) : Work[c] <= Work[h]

\* The history only grows, and records what others do in a gap.
LEMMA TouchedStep ==
    ASSUME [GapNext]_<<vars, touched>>
    PROVE  /\ [Next]_vars /\ touched \subseteq touched'
           /\ InGap => /\ known' \ known \subseteq touched'
                       /\ Failed \ Failed' \subseteq touched'
                       /\ Failed' \ Failed \subseteq touched'
<1>1. CASE GapNext
  BY <1>1 DEF GapNext
<1>2. CASE UNCHANGED <<vars, touched>>
  BY <1>2 DEF vars, index, flags, Failed
<1> QED  BY <1>1, <1>2

LEMMA SearchedStep ==
    StateInv /\ Parts /\ Collection /\ Searched /\ [GapNext]_<<vars, touched>> => Searched'

<1>StartSearched. ASSUME StateInv, Parts, NEW b \in Invalidable, InvalidateBlock(b),
                         touched \subseteq touched'
                  PROVE  Searched'
  <2> USE <1>StartSearched
  <2>1. /\ tip' = tip /\ known' = known /\ Failed' = Failed
        /\ inv' = [pindex |-> b, toMark |-> b, wasInChain |-> FALSE,
                   highpow |-> {c \in known \ (Chain[tip] \cup Failed) :
                                   ~Worse(seq, c, Parent[b])}]
    BY DEF InvalidateBlock, Collected, index, flags, Failed
  <2>2. /\ inv'.pindex = b
        /\ inv'.highpow = {c \in known \ (Chain[tip] \cup Failed) : ~Worse(seq, c, Parent[b])}
    BY <2>1
  <2>3. b \in Block /\ Parent[b] \in Block /\ known \subseteq Block
    BY InputAssumption, ChainTree, FailedKnown
  <2>4. ASSUME NEW c \in known, Work[Parent[b]] < Work[c] PROVE ~Worse(seq, c, Parent[b])
    BY <2>3, <2>4, Places, WorseOrder
  <2>5. inv'.highpow \cap Failed' \subseteq touched'
    BY <2>1, <2>2
  <2>6. ASSUME NEW c \in known' \ (Failed' \cup touched' \cup Chain[tip']),
               Work[Parent[b]] < Work[c]
        PROVE  c \in inv'.highpow
    BY <2>1, <2>2, <2>4, <2>6
  <2> QED  BY <2>2, <2>5, <2>6 DEF Searched

<1>TipSearched. ASSUME StateInv, Parts, Collection, Searched, InvalidateTip,
                       touched \subseteq touched'
                PROVE  Searched'
  <2> USE <1>TipSearched
  <2>1. proc = "walk" /\ tip \in known \ {Genesis} /\ tip' = Parent[tip] /\ known' = known
    BY InvalidateTipMarks DEF InvalidateTip, index
  <2>2. PICK dead \in SUBSET inv.highpow :
           /\ \A c \in inv.highpow :
                 c \in dead <=> Work[c] >= Work[Parent[tip]] /\ tip \in Chain[c]
           /\ Failed' = Failed \cup {tip} \cup dead
           /\ inv' = [inv EXCEPT !.toMark = tip, !.wasInChain = TRUE, !.highpow = @ \ dead]
    BY InvalidateTipMarks
  <2>3. inv'.pindex = inv.pindex /\ inv'.highpow = inv.highpow \ dead
    BY <2>2 DEF Parts, CallTypes
  <2>4. Chain[tip] = Chain[tip'] \cup {tip} /\ tip \in Chain[tip]
    BY <2>1, ChainTree, TreeFacts, Places
  <2>5. tip \notin inv.highpow
    BY <2>1, <2>4 DEF Collection
  <2>6. inv'.highpow \cap Failed' \subseteq touched'
    BY <2>1, <2>2, <2>3, <2>5 DEF Searched
  <2>7. ASSUME NEW c \in known' \ (Failed' \cup touched' \cup Chain[tip']),
               Work[Parent[inv.pindex]] < Work[c]
        PROVE  c \in inv'.highpow
    <3>1. c \in known \ (Failed \cup touched \cup Chain[tip]) /\ c \notin dead
      BY <2>1, <2>2, <2>4, <2>7
    <3> QED  BY <2>1, <2>3, <2>7, <3>1 DEF Searched
  <2> QED  BY <2>3, <2>6, <2>7 DEF Searched

\* Whatever others do in a gap is in the history.
<1>GapSearched. ASSUME Searched, UNCHANGED <<proc, inv, tip>>, touched \subseteq touched',
                       InGap => /\ known' \ known \subseteq touched'
                                /\ Failed \ Failed' \subseteq touched'
                                /\ Failed' \ Failed \subseteq touched'
                PROVE  Searched'
  BY <1>GapSearched DEF Searched, InGap

<1> SUFFICES ASSUME StateInv, Parts, Collection, Searched, [GapNext]_<<vars, touched>>
             PROVE  Searched'
  OBVIOUS
<1>1. /\ [Next]_vars /\ touched \subseteq touched'
      /\ InGap => /\ known' \ known \subseteq touched'
                  /\ Failed \ Failed' \subseteq touched'
                  /\ Failed' \ Failed \subseteq touched'
  BY TouchedStep
<1>2. CASE \/ UNCHANGED vars
           \/ \E b \in Block \ {Genesis} : ProcessNewBlockHeaders(b)
           \/ \E b \in Block \ {Genesis}, r \in BOOLEAN : ProcessNewBlock(b, r)
           \/ \E b \in Reconsiderable : ReconsiderBlock(b)
           \/ \E b \in Precious : PreciousBlock(b)
  <2>1. UNCHANGED <<proc, inv, tip>>
    BY <1>2 DEF vars, ProcessNewBlockHeaders, ProcessNewBlock, ReconsiderBlock, PreciousBlock
  <2> QED  BY <1>1, <2>1, <1>GapSearched
<1>3. CASE ActivateBestChain \/ NextRound \/ FindMostWorkChain \/ AlreadyBest \/ DropCandidate
           \/ ActivateBestChainStep \/ (\E c \in Block : ConnectTip(c) \/ ConnectTipFails(c))
           \/ FinishInvalidate
  <2>1. proc' # "walk"
    BY <1>3 DEF ActivateBestChain, NextRound, FindMostWorkChain, AlreadyBest, DropCandidate,
                ActivateBestChainStep, ConnectTip, ConnectTipFails, EndStep, FinishInvalidate
  <2> QED  BY <2>1 DEF Searched
<1> QED  BY <1>1, <1>2, <1>3, <1>StartSearched, <1>TipSearched DEF Next

LEMMA HeaderStep ==
    /\ StateInv /\ Parts /\ Closed /\ Collection /\ Searched /\ StateInv' /\ Parts'
    /\ HeaderInv /\ [GapNext]_<<vars, touched>>
    => HeaderInv'

\* RecalculateBestHeader returns a block with the most work.
<1>HeaderMost. ASSUME NEW t \in Block, NEW kn \in SUBSET Block, NEW f,
                      NEW h \in RecalculateBestHeader(t, kn, f)
               PROVE  /\ h = t \/ h \in kn \ f
                      /\ Work[t] <= Work[h] /\ \A b \in kn \ f : Work[b] <= Work[h]
  <2> USE <1>HeaderMost
  <2> DEFINE better == {b \in kn \ f : Work[b] > Work[t]}
  <2>1. h \in IF better = {} THEN {t}
              ELSE {b \in better : \A c \in better : Work[c] <= Work[b]}
    BY DEF RecalculateBestHeader
  <2>2. \A b \in Block : Work[b] \in Nat
    BY WorkAssumption
  <2>3. CASE better = {}
    <3>1. h = t /\ \A b \in kn \ f : ~(Work[b] > Work[t])
      BY <2>1, <2>3
    <3> QED  BY SMT, <2>2, <3>1
  <2>4. CASE better # {}
    <3>1. h \in kn \ f /\ Work[h] > Work[t] /\ \A c \in better : Work[c] <= Work[h]
      BY <2>1, <2>4
    <3>2. ASSUME NEW b \in kn \ f PROVE Work[b] <= Work[h]
      <4>1. CASE Work[b] > Work[t]
        BY <3>1, <4>1
      <4>2. CASE ~(Work[b] > Work[t])
        BY SMT, <2>2, <3>1, <4>2
      <4> QED  BY <4>1, <4>2
    <3> QED  BY SMT, <2>2, <3>1, <3>2
  <2> QED  BY <2>3, <2>4

<1>HeaderJoins. ASSUME Parts, HeaderInv, NEW b \in Block
                PROVE  /\ HeaderAfter(b) = b \/ BestBefore(HeaderAfter(b))
                       /\ b \notin Failed => /\ HeaderAfter(b) \notin Failed \ touched
                                             /\ \A c \in (known \cup {b}) \ (Failed \cup touched) :
                                                   Work[c] <= Work[HeaderAfter(b)]
  <2> USE <1>HeaderJoins
  <2>1. bestHeader \in Block /\ known \subseteq Block /\ \A c \in Block : Work[c] \in Nat
    BY WorkAssumption DEF Parts, PlaceTypes, IndexTypes
  <2>2. CASE b \notin known /\ Work[bestHeader] < Work[b]
    <3>1. HeaderAfter(b) = b
      BY <2>2 DEF HeaderAfter
    <3>2. \A c \in (known \cup {b}) \ (Failed \cup touched) : Work[c] <= Work[b]
      BY SMT, <2>1, <2>2 DEF HeaderInv
    <3> QED  BY <3>1, <3>2
  <2>3. CASE ~(b \notin known /\ Work[bestHeader] < Work[b])
    <3>1. HeaderAfter(b) = bestHeader
      BY <2>3 DEF HeaderAfter
    <3>2. \A c \in (known \cup {b}) \ (Failed \cup touched) : Work[c] <= Work[bestHeader]
      BY SMT, <2>1, <2>3 DEF HeaderInv
    <3> QED  BY <3>1, <3>2 DEF HeaderInv, BestBefore
  <2> QED  BY <2>2, <2>3

\* InvalidChainFound(n) finds the best header among the blocks left.
<1>FoundHeader.
      ASSUME Parts, NEW fv, NEW n \in Block, NEW last, NEW h, h = n \/ BestBefore(h),
             InvalidChainFound(fv, n, last, h), fv \subseteq Failed \cup {n},
             Failed \subseteq Failed', known' \ Failed' \subseteq known, tip \notin Failed',
             touched \subseteq touched'
      PROVE  HeaderInv'
  <2> USE <1>FoundHeader
  <2>1. Failed' = fv \cup failedChild \cup Descendants(n)
    BY FoundMarks
  <2>2. known \subseteq Block /\ tip \in Block
    BY Places, FailedKnown
  <2>3. CASE n \in Chain[h]
    <3>1. bestHeader' \in RecalculateBestHeader(tip, known, Failed')
      BY <2>3 DEF InvalidChainFound, Failed
    <3>2. /\ bestHeader' = tip \/ bestHeader' \in known \ Failed'
          /\ \A c \in known \ Failed' : Work[c] <= Work[bestHeader']
      BY SMT, <2>2, <3>1, <1>HeaderMost
    <3> QED  BY <3>2 DEF HeaderInv
  <2>4. CASE n \notin Chain[h]
    <3>1. bestHeader' = h /\ h # n /\ BestBefore(h)
      BY <2>4, TreeFacts DEF InvalidChainFound
    <3>2. h \notin Failed' \ touched'
      BY <2>1, <2>4, <3>1 DEF Descendants, BestBefore, Failed
    <3> QED  BY <3>1, <3>2 DEF HeaderInv, BestBefore
  <2> QED  BY <2>3, <2>4

<1>InvalidateTipHeader.
      ASSUME StateInv, StateInv', Parts, Parts', Collection, Searched, HeaderInv,
             InvalidateTip, touched \subseteq touched'
      PROVE  HeaderInv'
  <2> USE <1>InvalidateTipHeader
  <2> DEFINE p == Parent[tip]
             high == {c \in inv.highpow : Work[c] >= Work[p]}
             dead == {c \in high : tip \in Chain[c]}
  <2>1. /\ proc = "walk" /\ tip \in known \ {Genesis} /\ tip \in Block /\ p \in Block /\ tip' = p
        /\ Chain[tip] = Chain[p] \cup {tip}
    BY InvalidateTipMarks, Places, ChainTree
  <2>2. Failed' = Failed \cup {tip} \cup dead
    <3>1. PICK D \in SUBSET inv.highpow :
             /\ \A c \in inv.highpow : c \in D <=> Work[c] >= Work[p] /\ tip \in Chain[c]
             /\ Failed' = Failed \cup {tip} \cup D
      BY InvalidateTipMarks
    <3>2. D = dead
      BY <3>1
    <3> QED  BY <3>1, <3>2
  <2>3. /\ known' = known /\ inv.pindex \in Chain[tip]
        /\ IF tip \in Chain[bestHeader]
           THEN bestHeader' \in RecalculateBestHeader(p, high \ dead, {})
           ELSE bestHeader' = bestHeader
    BY DEF InvalidateTip, index
  <2>4. p \notin Failed'
    BY <2>1, TreeFacts DEF StateInv, TipValid
  <2>5. /\ inv.highpow \cap Chain[tip] = {} /\ inv.highpow \cap Failed \subseteq touched
        /\ \A c \in known \ (Failed \cup touched \cup Chain[tip]) :
              Work[Parent[inv.pindex]] < Work[c] => c \in inv.highpow
    BY <2>1 DEF Collection, Searched
  <2>6. inv.highpow \subseteq Block /\ known \subseteq Block
    BY FailedKnown DEF Parts, CallTypes
  <2>7. \A c \in Block : Work[c] \in Nat
    BY WorkAssumption
  <2>8. CASE tip \in Chain[bestHeader]
    <3>1. /\ bestHeader' = p \/ bestHeader' \in high \ dead
          /\ Work[p] <= Work[bestHeader'] /\ \A c \in high \ dead : Work[c] <= Work[bestHeader']
      <4> DEFINE H == high \ dead
                 none == {}
      <4>1. /\ H \in SUBSET Block /\ p \in Block
            /\ bestHeader' \in RecalculateBestHeader(p, H, none)
        BY <2>1, <2>3, <2>6, <2>8
      <4>none. none = {}
        OBVIOUS
      <4> HIDE DEF H, p, none
      <4>2. /\ bestHeader' = p \/ bestHeader' \in H \ none
            /\ Work[p] <= Work[bestHeader'] /\ \A c \in H \ none : Work[c] <= Work[bestHeader']
        BY SMTT(60), <4>1, <1>HeaderMost
      <4>3. /\ bestHeader' = p \/ bestHeader' \in H
            /\ Work[p] <= Work[bestHeader'] /\ \A c \in H : Work[c] <= Work[bestHeader']
        BY <4>2, <4>none
      <4> QED  BY <4>3 DEF H, p
    <3>2. bestHeader' \notin Failed' \ touched'
      BY <2>1, <2>2, <2>4, <2>5, <3>1, TreeFacts
    <3>3. ASSUME NEW c \in known \ (Failed' \cup touched') PROVE Work[c] <= Work[bestHeader']
      <4>1. CASE Work[c] <= Work[p]
        <5>1. bestHeader' \in Block
          BY <2>1, <2>6, <3>1
        <5> QED  BY SMT, <2>1, <2>6, <2>7, <3>1, <4>1, <5>1
      <4>2. CASE ~(Work[c] <= Work[p])
        <5>1. Work[c] > Work[p] /\ c \in Block
          BY SMT, <2>1, <2>6, <2>7, <4>2
        <5>2. c \notin Chain[tip]
          <6>1. c # tip
            BY <2>2
          <6>2. c \notin Chain[p]
            BY SMT, <2>1, <2>7, <5>1, LighterBelow
          <6> QED  BY <2>1, <6>1, <6>2
        <5>3. Work[Parent[inv.pindex]] < Work[c]
          <6> DEFINE q == inv.pindex
          <6>1. q \in Block \ {Genesis} /\ Parent[q] \in Block /\ Work[Parent[q]] < Work[q]
            <7>1. q \in Block \ {Genesis}
              BY <2>1, InputAssumption DEF StateInv, Owner
            <7>2. Parent[q] \in Block
              BY <7>1, ChainTree
            <7> QED  BY <7>1, <7>2, WorkAssumption
          <6>2. Work[Parent[q]] <= Work[p]
            <7>1. Parent[q] = p \/ q = p \/ Work[q] < Work[p]
              BY <2>1, <2>3, LighterBelow
            <7>2. Work[p] \in Nat /\ Work[q] \in Nat /\ Work[Parent[q]] \in Nat
              BY <2>1, <2>7, <6>1
            <7> QED  BY SMT, <6>1, <7>1, <7>2
          <6>3. Work[Parent[q]] < Work[c]
            <7>1. Work[p] \in Nat /\ Work[c] \in Nat /\ Work[Parent[q]] \in Nat
              BY <2>1, <2>7, <5>1, <6>1
            <7> QED  BY SMT, <5>1, <6>2, <7>1
          <6> QED  BY <6>3
        <5>4. c \in high \ dead
          <6>1. c \in known \ (Failed \cup touched) /\ c \notin dead
            BY <2>2
          <6>2. c \in inv.highpow
            BY <2>5, <5>2, <5>3, <6>1
          <6>3. Work[c] \in Nat /\ Work[p] \in Nat
            BY <2>1, <2>7, <5>1
          <6>4. Work[c] >= Work[p]
            BY SMT, <5>1, <6>3
          <6> QED  BY <6>1, <6>2, <6>4
        <5> QED  BY <3>1, <5>4
      <4> QED  BY <4>1, <4>2
    <3> QED  BY <2>3, <3>2, <3>3 DEF HeaderInv
  <2>9. CASE tip \notin Chain[bestHeader]
    <3>1. bestHeader' = bestHeader /\ bestHeader \notin Failed' \ touched'
      <4>1. bestHeader # tip
        BY <2>1, <2>9, TreeFacts
      <4> QED  BY <2>2, <2>3, <2>9, <4>1 DEF HeaderInv
    <3> QED  BY <2>2, <2>3, <3>1 DEF HeaderInv
  <2> QED  BY <2>8, <2>9

<1> SUFFICES ASSUME StateInv, Parts, Closed, Collection, Searched, StateInv', Parts', HeaderInv,
                    [Next]_vars, touched \subseteq touched'
             PROVE  HeaderInv'
  BY TouchedStep
<1>1. tip' \notin Failed' /\ bestHeader \in Block /\ BestBefore(bestHeader)
  <2>1. (tip \in Block)'
    BY DEF Parts, PlaceTypes, IndexTypes
  <2> QED  BY <2>1, TreeFacts DEF StateInv, TipValid, BestBefore, HeaderInv, Parts,
                                  PlaceTypes, IndexTypes
<1>2. CASE \/ UNCHANGED vars
           \/ ActivateBestChain \/ NextRound \/ FindMostWorkChain \/ AlreadyBest \/ DropCandidate
           \/ ActivateBestChainStep \/ (\E c \in Block : ConnectTip(c))
           \/ (\E b \in Invalidable : InvalidateBlock(b))
           \/ \E b \in Precious : PreciousBlock(b)
  <2>1. UNCHANGED <<known, bestHeader>>
    BY <1>2 DEF vars, ActivateBestChain, NextRound, FindMostWorkChain, AlreadyBest, DropCandidate,
                ActivateBestChainStep, ConnectTip, InvalidateBlock, PreciousBlock, index
  <2>2. DropCandidate \/ UNCHANGED <<failedValid, failedChild>>
    BY <1>2 DEF vars, ActivateBestChain, NextRound, FindMostWorkChain, AlreadyBest,
                ActivateBestChainStep, ConnectTip, InvalidateBlock, PreciousBlock, flags
  <2>3. Failed' = Failed
    BY <2>2, DropMarksNothing DEF Failed
  <2> QED  BY <2>1, <2>3 DEF HeaderInv
<1>3. ASSUME NEW b \in Block \ {Genesis}, HeaderAccepted(b), known' = known \cup {b},
             Failed' = Failed, bestHeader' = HeaderAfter(b)
      PROVE  HeaderInv'
  BY <1>3, AcceptedFacts, <1>HeaderJoins DEF HeaderInv
<1>4. ASSUME NEW b \in Block \ {Genesis}, ProcessNewBlockHeaders(b) PROVE HeaderInv'
  BY <1>3, <1>4 DEF ProcessNewBlockHeaders, flags, Failed
<1>5. ASSUME NEW b \in Block \ {Genesis}, NEW r \in BOOLEAN, ProcessNewBlock(b, r)
      PROVE  HeaderInv'
  <2>1. HeaderAccepted(b) /\ known' = known \cup {b} /\ tip' = tip
    BY <1>5 DEF ProcessNewBlock
  <2>2. \/ bestHeader' = HeaderAfter(b) /\ UNCHANGED flags
        \/ InvalidChainFound(failedValid \cup {b}, b, b, HeaderAfter(b))
    BY <1>5 DEF ProcessNewBlock
  <2>3. CASE bestHeader' = HeaderAfter(b) /\ UNCHANGED flags
    BY <1>3, <2>1, <2>3 DEF flags, Failed
  <2>4. CASE InvalidChainFound(failedValid \cup {b}, b, b, HeaderAfter(b))
    <3>1. Failed' = Failed \cup {b} \cup Descendants(b)
      BY SMT, <2>4, FoundMarks DEF Failed
    <3>2. /\ failedValid \cup {b} \subseteq Failed \cup {b} /\ Failed \subseteq Failed'
          /\ known' \ Failed' \subseteq known /\ tip \notin Failed'
      BY <1>1, <2>1, <3>1 DEF Failed
    <3>3. HeaderAfter(b) = b \/ BestBefore(HeaderAfter(b))
      BY <1>HeaderJoins
    <3> QED  BY <2>4, <3>2, <3>3, <1>FoundHeader
  <2> QED  BY <2>2, <2>3, <2>4
<1>6. ASSUME NEW c \in Block, ConnectTipFails(c) PROVE HeaderInv'
  <2>1. /\ InvalidChainFound(failedValid \cup {c}, c, abc.mostWork, bestHeader)
        /\ known' = known /\ tip' = tip
    BY <1>6 DEF ConnectTipFails, index
  <2>2. Failed' = Failed \cup {c} \cup Descendants(c)
    BY SMT, <2>1, FoundMarks DEF Failed
  <2>3. /\ failedValid \cup {c} \subseteq Failed \cup {c} /\ Failed \subseteq Failed'
        /\ known' \ Failed' \subseteq known /\ tip \notin Failed'
    BY <1>1, <2>1, <2>2 DEF Failed
  <2> QED  BY <1>1, <2>1, <2>3, <1>FoundHeader
<1>7. ASSUME FinishInvalidate PROVE HeaderInv'
  <2> DEFINE self == IF inv.wasInChain THEN {} ELSE {inv.pindex} \ Failed
  <2>1. /\ InvalidChainFound(failedValid \cup self, inv.toMark, inv.toMark, bestHeader)
        /\ known' = known /\ tip' = tip /\ proc = "walk"
    BY <1>7 DEF FinishInvalidate, index
  <2>2. inv.toMark \in Block /\ self \subseteq {inv.toMark}
    BY <2>1, FailedKnown DEF Closed
  <2>3. Failed \subseteq Failed'
    BY <1>7, FinishClosed
  <2>4. /\ failedValid \cup self \subseteq Failed \cup {inv.toMark}
        /\ known' \ Failed' \subseteq known /\ tip \notin Failed'
    BY <1>1, <2>1, <2>2 DEF Failed
  <2> QED  BY <1>1, <2>1, <2>2, <2>3, <2>4, <1>FoundHeader
<1>8. ASSUME NEW b \in Reconsiderable, ReconsiderBlock(b) PROVE HeaderInv'
  <2>1. /\ Failed' = Failed \ Reset(b) /\ known' = known /\ tip' = tip
        /\ bestHeader' \in RecalculateBestHeader(tip, known, Failed')
    BY <1>8, ReconsiderClosed DEF ReconsiderBlock, index
  <2>2. /\ bestHeader' = tip \/ bestHeader' \in known \ Failed'
        /\ \A c \in known \ Failed' : Work[c] <= Work[bestHeader']
    <3>1. tip \in Block /\ known \in SUBSET Block
      BY Places, FailedKnown
    <3>2. bestHeader' \in RecalculateBestHeader(tip, known, Failed')
      BY <2>1
    <3> QED  BY SMT, <3>1, <3>2, <1>HeaderMost
  <2> QED  BY <1>1, <2>1, <2>2 DEF HeaderInv
<1> QED  BY <1>2, <1>4, <1>5, <1>6, <1>7, <1>8, <1>InvalidateTipHeader DEF Next

\* CheckBlockIndex: whenever cs_main is free, the best header has not failed and
\* no known block that has not failed has more work, whatever validation,
\* invalidateblock and reconsiderblock mark and reset, but for blocks that
\* others announced, marked or reset in the gaps of InvalidateBlock.
THEOREM BestHeaderIsBest == GapSpec => []BestHeaderKept
<1>1. GapInit => Init /\ Searched /\ HeaderInv
  <2> SUFFICES ASSUME GapInit PROVE Searched /\ HeaderInv
    BY DEF GapInit
  <2>1. known = {Genesis} /\ bestHeader = Genesis /\ Failed = {} /\ Work[Genesis] \in Nat
    BY TreeFacts, WorkAssumption DEF GapInit, Init, Failed
  <2>2. HeaderInv
    BY SMT, <2>1 DEF HeaderInv
  <2>3. Searched
    BY DEF GapInit, Init, Searched
  <2> QED  BY <2>2, <2>3
<1>2. [GapNext]_<<vars, touched>> => [Next]_vars
  BY TouchedStep
<1>3. HeaderInv => BestHeaderKept
  BY DEF HeaderInv, BestHeaderKept
<1> QED
  BY <1>1, <1>2, <1>3, SearchedStep, HeaderStep, ChainStateCollected, PTL DEF GapSpec, Spec
=============================================================================
