----------------------------- MODULE ChainState -----------------------------
(***************************************************************************)
(* How a node chooses its active chain: the block index, the failure flags *)
(* the candidate set setBlockIndexCandidates and the three operations that *)
(* move the tip (src/src/validation.cpp, src/src/node/blockstorage.cpp).   *)
(*                                                                         *)
(* Every operation takes cs_main, but ActivateBestChain and                *)
(* InvalidateBlock release it between two steps of their own loop while    *)
(* they keep m_chainstate_mutex, so headers, blocks and RPC calls come in  *)
(* between.  proc says how far the holder of m_chainstate_mutex is, and    *)
(* Held when it has cs_main as well.                                       *)
(*                                                                         *)
(* A block is a model value of a fixed tree.  verdict is what the          *)
(* validation code will say of its contents: "context" fails               *)
(* ContextualCheckBlock when the block arrives, "connect" fails            *)
(* ConnectBlock.  Pruning, assumeutxo snapshots and the shutdown interrupt *)
(* are left out: having data, VALID_TRANSACTIONS and nTx > 0 coincide.     *)
(***************************************************************************)
EXTENDS Integers, FiniteSets, Functions

CONSTANTS
    Block,          \* the blocks that may be announced
    Genesis,
    Parent,         \* pprev
    Work,           \* nChainWork
    Addr,           \* the order of the CBlockIndex addresses
    Verdicts,       \* the possible verdict functions
    Invalidable,    \* blocks the operator may pass to invalidateblock,
    Reconsiderable, \* reconsiderblock
    Precious,       \* and preciousblock
    MaxPrecious,    \* bound on preciousblock calls at one height
    Null

ASSUME ChainAssumption ==
    /\ Genesis \in Block
    /\ Parent \in [Block \ {Genesis} -> Block]
    /\ Null \notin Block

ASSUME WorkAssumption ==
    /\ Work \in [Block -> Nat]
    /\ \A b \in Block \ {Genesis} : Work[Parent[b]] < Work[b]
    /\ Addr \in [Block -> Nat]
    /\ \A a, b \in Block : Addr[a] = Addr[b] => a = b

ASSUME InputAssumption ==
    /\ Verdicts \subseteq [Block -> {"good", "context", "connect"}]
    /\ \A v \in Verdicts : v[Genesis] = "good"
    /\ Invalidable \subseteq Block \ {Genesis}
    /\ Reconsiderable \subseteq Block
    /\ Precious \subseteq Block
    /\ MaxPrecious \in Nat

\* The blocks from Genesis to a block, both included.
Chain ==
    LET C[b \in Block] == IF b = Genesis THEN {Genesis} ELSE C[Parent[b]] \cup {b}
    IN  [b \in Block |-> C[b]]

VARIABLES
    verdict,      \* what validation will say of each block
    known,        \* m_block_index
    data,         \* BLOCK_HAVE_DATA
    linked,       \* HaveNumChainTxs()
    unlinked,     \* m_blocks_unlinked
    failedValid,  \* BLOCK_FAILED_VALID
    failedChild,  \* BLOCK_FAILED_CHILD
    seq,          \* nSequenceId
    nextSeq,      \* nBlockSequenceId
    revSeq,       \* nBlockReverseSequenceId
    lastPrecious, \* nLastPreciousChainwork
    cand,         \* setBlockIndexCandidates
    tip,          \* m_chain.Tip()
    bestHeader,   \* m_best_header
    bestInvalid,  \* m_best_invalid
    want,         \* a thread waits to enter ActivateBestChain
    proc,         \* where the holder of m_chainstate_mutex is
    abc,          \* the locals of ActivateBestChain
    inv,          \* the locals of InvalidateBlock
    invalidated   \* history: the blocks passed to invalidateblock

index == <<known, data, linked, unlinked>>
flags == <<failedValid, failedChild, bestInvalid>>
order == <<seq, nextSeq, revSeq, lastPrecious>>
vars == <<verdict, index, flags, order, cand, tip, bestHeader, want, proc,
          abc, inv, invalidated>>

Failed == failedValid \cup failedChild

\* The holder of m_chainstate_mutex has cs_main too.
Held == proc \in {"find", "connect"}

\* Another thread can take cs_main, also in the gaps of InvalidateBlock.
Free == ~Held

(***************************************************************************)
(* CBlockIndexWorkComparator, for the sequence numbers s: a sorts before b *)
(***************************************************************************)
Worse(s, a, b) ==
    \/ Work[a] < Work[b]
    \/ Work[a] = Work[b] /\ s[a] > s[b]
    \/ Work[a] = Work[b] /\ s[a] = s[b] /\ Addr[a] > Addr[b]

\* The last element of setBlockIndexCandidates.
IsBest(b) == b \in cand /\ \A c \in cand \ {b} : Worse(seq, c, b)

\* The height of the ancestor to compare is off by one.
DescendantsOfParent(n) ==
    {c \in known : Parent[n] \in Chain[c]} \ {n, Parent[n]}

\* The block itself is not left out.
DescendantsAndSelf(n) == {c \in known : n \in Chain[c]}

Descendants(n) == {c \in known : n \in Chain[c]} \ {n}

\* The more chainwork of a recorded block (or none) and another block.
Heavier(m, b) == IF m = Null THEN b ELSE IF Work[b] > Work[m] THEN b ELSE m

(***************************************************************************)
(* The results RecalculateBestHeader can have with tip t, index kn and the *)
(* failed blocks f.  Equal work is decided by the order of a hash table.   *)
(***************************************************************************)
RecalculateBestHeader(t, kn, f) ==
    LET better == {b \in kn \ f : Work[b] > Work[t]}
    IN  IF better = {} THEN {t}
        ELSE {b \in better : \A c \in better : Work[c] <= Work[b]}

(***************************************************************************)
(* InvalidChainFound(n), SetBlockFailureFlags included, once n has joined  *)
(* the flags fv and with header the best header so far.  ConnectTip's      *)
(* failure runs it for the bad block n and again for the last block of the *)
(* branch: the second run can only move m_best_invalid on to it (last).    *)
(***************************************************************************)
InvalidChainFound(fv, n, last, header) ==
    /\ failedValid' = fv \ Descendants(n)
    /\ failedChild' = failedChild \cup Descendants(n)
    /\ bestInvalid' = Heavier(bestInvalid, last)
    /\ IF n \in Chain[header]
       THEN bestHeader' \in RecalculateBestHeader(tip, known,
                                               failedValid' \cup failedChild')
       ELSE bestHeader' = header

-----------------------------------------------------------------------------
NoHighpow == [pindex |-> Null, toMark |-> Null, wasInChain |-> FALSE,
              highpow |-> {}]
NoCall == [mostWork |-> Null, start |-> Null, old |-> Null]

\* The genesis block has been loaded, accepted and connected.
Init ==
    /\ verdict \in Verdicts
    /\ known = {Genesis} /\ data = {Genesis} /\ linked = {Genesis}
    /\ unlinked = {}
    /\ failedValid = {} /\ failedChild = {} /\ bestInvalid = Null
    /\ seq = [b \in Block |-> IF b = Genesis THEN 2 ELSE 1]
    /\ nextSeq = 3 /\ revSeq = -1 /\ lastPrecious = 0
    /\ cand = {Genesis} /\ tip = Genesis /\ bestHeader = Genesis
    /\ want = FALSE /\ proc = "idle"
    /\ abc = NoCall /\ inv = NoHighpow /\ invalidated = {}

(***************************************************************************)
(* AcceptBlockHeader: a known block must not have failed, a new one needs  *)
(* a known parent that has not; AddToBlockIndex may move the best header.  *)
(***************************************************************************)
HeaderAccepted(b) ==
    IF b \in known THEN b \notin Failed
    ELSE Parent[b] \in known \ Failed

HeaderAfter(b) ==
    IF b \notin known /\ Work[bestHeader] < Work[b] THEN b ELSE bestHeader

ProcessNewBlockHeaders(b) ==
    /\ Free
    /\ b \notin known /\ HeaderAccepted(b)
    /\ known' = known \cup {b}
    /\ bestHeader' = HeaderAfter(b)
    /\ UNCHANGED <<verdict, data, linked, unlinked, flags, order, cand, tip,
                   want, proc, abc, inv, invalidated>>

(***************************************************************************)
(* ReceivedBlockTransactions: b and the blocks queued behind it in         *)
(* m_blocks_unlinked become linked, parents first, get a sequence number   *)
(* each and TryAddBlockIndexCandidate.                                     *)
(***************************************************************************)
NewlyLinked(b) ==
    {b} \cup {c \in unlinked : b \in Chain[c]
                               /\ Chain[c] \ Chain[b] \subseteq unlinked}

QueueOrders(L) ==
    {f \in Bijection(L, 0 .. Cardinality(L) - 1) :
        \A x, y \in L : x \in Chain[y] /\ x # y => f[x] < f[y]}

\* The blocks waiting behind b are forgotten.
LinkSingle(b) ==
    /\ linked' = linked \cup {b}
    /\ unlinked' = unlinked
    /\ nextSeq' = nextSeq + 1
    /\ seq' = [seq EXCEPT ![b] = nextSeq]
    /\ cand' = cand \cup {x \in {b} : ~Worse(seq', x, tip)}

Link(b) ==
    \E f \in QueueOrders(NewlyLinked(b)) :
        LET L == NewlyLinked(b) IN
        /\ linked' = linked \cup L
        /\ unlinked' = unlinked \ L
        /\ nextSeq' = nextSeq + Cardinality(L)
        /\ seq' = [x \in Block |-> IF x \in L THEN nextSeq + f[x] ELSE seq[x]]
        /\ cand' = cand \cup {x \in L : ~Worse(seq', x, tip)}

ReceivedBlockTransactions(b) ==
    /\ data' = data \cup {b}
    /\ IF Parent[b] \in linked
       THEN Link(b)
       ELSE /\ unlinked' = unlinked \cup (IF Parent[b] \in Failed THEN {} ELSE {b})
            /\ UNCHANGED <<linked, seq, nextSeq, cand>>
    /\ UNCHANGED <<revSeq, lastPrecious>>

(***************************************************************************)
(* ProcessNewBlock: AcceptBlock under cs_main, then a call of              *)
(* ActivateBestChain unless the block was rejected.  A block the node has, *)
(* or did not request and is lighter than the tip, only leaves its header. *)
(***************************************************************************)
ProcessNewBlock(b, requested) ==
    /\ Free
    /\ HeaderAccepted(b)
    /\ known' = known \cup {b}
    /\ \/ /\ b \in data \/ (~requested /\ Work[b] < Work[tip])
          /\ bestHeader' = HeaderAfter(b)
          /\ want' = TRUE
          /\ UNCHANGED <<data, linked, unlinked, flags, order, cand>>
       \/ /\ b \notin data /\ (requested \/ Work[b] >= Work[tip])
          /\ verdict[b] = "context"
          /\ cand' = cand \ {b}
          /\ InvalidChainFound(failedValid \cup {b}, b, b, HeaderAfter(b))
          /\ UNCHANGED <<data, linked, unlinked, order, want>>
       \/ /\ b \notin data /\ (requested \/ Work[b] >= Work[tip])
          /\ verdict[b] # "context"
          /\ ReceivedBlockTransactions(b)
          /\ bestHeader' = HeaderAfter(b)
          /\ want' = TRUE
          /\ UNCHANGED flags
    /\ UNCHANGED <<verdict, tip, proc, abc, inv, invalidated>>

-----------------------------------------------------------------------------
(***************************************************************************)
(* ActivateBestChain                                                       *)
(***************************************************************************)
\* Take m_chainstate_mutex and cs_main.
ActivateBestChain ==
    /\ proc = "idle" /\ want
    /\ want' = FALSE
    /\ proc' = "find"
    /\ abc' = [NoCall EXCEPT !.start = tip]
    /\ UNCHANGED <<verdict, index, flags, order, cand, tip, bestHeader, inv,
                   invalidated>>

\* Take cs_main again for the next round of the outer loop.
NextRound ==
    /\ proc = "released"
    /\ proc' = "find"
    /\ abc' = [abc EXCEPT !.start = tip]
    /\ UNCHANGED <<verdict, index, flags, order, cand, tip, bestHeader, want,
                   inv, invalidated>>

\* The blocks between the active chain and b that have failed.
FailedOnPath(b) == (Chain[b] \ Chain[tip]) \cap Failed

(***************************************************************************)
(* FindMostWorkChain meets a candidate with a failed block on its path: it *)
(* marks the blocks above the highest failed one and drops the branch.     *)
(***************************************************************************)
DropCandidate ==
    /\ proc = "find" /\ abc.mostWork = Null
    /\ \E b \in cand : \E highest \in FailedOnPath(b) :
        LET above == Chain[b] \ Chain[highest] IN
        /\ IsBest(b) /\ FailedOnPath(b) \subseteq Chain[highest]
        /\ failedChild' = failedChild \cup above
        /\ bestInvalid' = Heavier(bestInvalid, b)
        /\ cand' = cand \ (above \cup {highest})
    /\ UNCHANGED <<verdict, index, failedValid, order, tip, bestHeader, want,
                   proc, abc, inv, invalidated>>

\* The best candidate is usable: it becomes pindexMostWork.
FindMostWorkChain ==
    /\ proc = "find" /\ abc.mostWork = Null
    /\ \E b \in cand : /\ IsBest(b) /\ FailedOnPath(b) = {}
                       /\ abc' = [abc EXCEPT !.mostWork = b]
    /\ UNCHANGED <<verdict, index, flags, order, cand, tip, bestHeader, want,
                   proc, inv, invalidated>>

\* Nothing to do: ActivateBestChain returns.
AlreadyBest ==
    /\ proc = "find" /\ abc.mostWork = tip
    /\ proc' = "idle" /\ abc' = NoCall
    /\ UNCHANGED <<verdict, index, flags, order, cand, tip, bestHeader, want,
                   inv, invalidated>>

\* ActivateBestChainStep disconnects down to the fork.
ActivateBestChainStep ==
    /\ proc = "find" /\ abc.mostWork \notin {Null, tip}
    /\ \E fork \in Chain[tip] \cap Chain[abc.mostWork] :
           /\ Chain[tip] \cap Chain[abc.mostWork] \subseteq Chain[fork]
           /\ tip' = fork
    /\ proc' = "connect"
    /\ abc' = [abc EXCEPT !.old = tip]
    /\ UNCHANGED <<verdict, index, flags, order, cand, bestHeader, want, inv,
                   invalidated>>

\* cs_main is released on a worse tip as well.
EndStepAnyway(t, m) ==
    /\ proc' = IF t = m THEN "idle" ELSE "released"
    /\ abc' = IF t = m THEN NoCall ELSE [NoCall EXCEPT !.mostWork = m]

\* The outer loop runs once.
EndStepOnce(t, m) ==
    IF Worse(seq, t, abc.start)
    THEN proc' = "find" /\ abc' = [abc EXCEPT !.mostWork = m, !.old = Null]
    ELSE proc' = "idle" /\ abc' = NoCall

(***************************************************************************)
(* The end of the inner loop of ActivateBestChain with tip t and           *)
(* pindexMostWork m: another try while t is worse than the tip the lock    *)
(* was taken with, else cs_main is released, and the outer loop ends when  *)
(* t is m.                                                                 *)
(***************************************************************************)
EndStep(t, m) ==
    IF Worse(seq, t, abc.start)
    THEN proc' = "find" /\ abc' = [abc EXCEPT !.mostWork = m, !.old = Null]
    ELSE /\ proc' = IF t = m THEN "idle" ELSE "released"
         /\ abc' = IF t = m THEN NoCall ELSE [NoCall EXCEPT !.mostWork = m]

\* c is the child of the tip on the way to pindexMostWork.
IsNext(c) ==
    c \in Chain[abc.mostWork] \ Chain[tip] /\ Parent[c] = tip

\* PruneBlockIndexCandidates with tip t.
PruneBlockIndexCandidates(t) == {c \in cand : ~Worse(seq, c, t)}

\* ConnectTip succeeds.
ConnectTip(c) ==
    /\ proc = "connect" /\ IsNext(c) /\ verdict[c] # "connect"
    /\ tip' = c
    /\ cand' = PruneBlockIndexCandidates(c)
    /\ IF Work[c] > Work[abc.old] \/ c = abc.mostWork
       THEN EndStep(c, abc.mostWork)
       ELSE UNCHANGED <<proc, abc>>
    /\ UNCHANGED <<verdict, index, flags, order, bestHeader, want, inv,
                   invalidated>>

(***************************************************************************)
(* ConnectBlock fails: InvalidBlockFound marks the block, and              *)
(* InvalidChainFound the last block of the (at most 32) to connect.        *)
(***************************************************************************)
ConnectTipFails(c) ==
    /\ proc = "connect" /\ IsNext(c) /\ verdict[c] = "connect"
    /\ cand' = cand \ {c}
    /\ InvalidChainFound(failedValid \cup {c}, c, abc.mostWork, bestHeader)
    /\ EndStep(tip, Null)
    /\ UNCHANGED <<verdict, index, order, tip, want, inv, invalidated>>

-----------------------------------------------------------------------------
(***************************************************************************)
(* InvalidateBlock.  The first section of cs_main collects the blocks off  *)
(* the active chain that can matter once pindex is gone.                   *)
(***************************************************************************)
\* Those are compared with the tip it starts from.
CollectedAboveTip(b) ==
    {c \in known \ (Chain[tip] \cup Failed) : ~Worse(seq, c, tip)}

Collected(b) ==
    {c \in known \ (Chain[tip] \cup Failed) : ~Worse(seq, c, Parent[b])}

InvalidateBlock(b) ==
    /\ proc = "idle"
    /\ b \in known
    /\ proc' = "walk"
    /\ inv' = [pindex |-> b, toMark |-> b, wasInChain |-> FALSE,
               highpow |-> Collected(b)]
    /\ invalidated' = invalidated \cup {b}
    /\ UNCHANGED <<verdict, index, flags, order, cand, tip, bestHeader, want,
                   abc>>

(***************************************************************************)
(* One round of its loop disconnects the tip, marks it and corrects the    *)
(* mark of the block disconnected before it, marks its descendants in the  *)
(* collection and looks there for candidates and for the best header.      *)
(***************************************************************************)
InvalidateTip ==
    LET p == Parent[tip]
        high == {c \in inv.highpow : Work[c] >= Work[p]}
        dead == {c \in high : tip \in Chain[c]}
        child == dead \cup (IF tip = Parent[inv.toMark]
                            THEN {inv.toMark} \cap failedValid ELSE {})
    IN  /\ proc = "walk" /\ inv.pindex \in Chain[tip]
        /\ tip' = p
        /\ failedValid' = (failedValid \cup {tip}) \ child
        /\ failedChild' = failedChild \cup child
        /\ cand' = (cand \ {tip}) \cup {p} \cup
                   {c \in (high \ dead) \cap data \cap linked :
                        c \notin Failed /\ ~Worse(seq, c, p)}
        /\ IF tip \in Chain[bestHeader]
           THEN bestHeader' \in RecalculateBestHeader(p, high \ dead, {})
           ELSE UNCHANGED bestHeader
        /\ inv' = [inv EXCEPT !.toMark = tip, !.wasInChain = TRUE,
                              !.highpow = @ \ dead]
        /\ UNCHANGED <<verdict, index, bestInvalid, order, want, proc, abc,
                       invalidated>>

\* The rescan is left out, or does not ask for HaveNumChainTxs().
RescannedNothing(S) == {}
RescannedUnlinked(S) == {b \in data \ S : ~Worse(seq, b, tip)}

(***************************************************************************)
(* The last section marks pindex if it was never on the active chain, adds *)
(* the candidates that were missed and runs InvalidChainFound.  The RPC    *)
(* then calls ActivateBestChain.                                           *)
(***************************************************************************)
Rescanned(S) == {b \in (data \cap linked) \ S : ~Worse(seq, b, tip)}

FinishInvalidate ==
    LET self == IF inv.wasInChain THEN {} ELSE {inv.pindex} \ Failed
    IN  /\ proc = "walk" /\ inv.pindex \notin Chain[tip]
        /\ cand' = (cand \ self) \cup Rescanned(Failed \cup self)
        /\ InvalidChainFound(failedValid \cup self, inv.toMark, inv.toMark,
                             bestHeader)
        /\ proc' = "idle" /\ inv' = NoHighpow
        /\ want' = TRUE
        /\ UNCHANGED <<verdict, index, order, tip, abc, invalidated>>

\* The ancestors are not reset.
ResetDescendants(b) == {c \in Failed : b \in Chain[c]}

\* The failed blocks ResetBlockFailureFlags(b) resets.
Reset(b) == {c \in Failed : b \in Chain[c] \/ c \in Chain[b]}

(***************************************************************************)
(* reconsiderblock: ResetBlockFailureFlags and RecalculateBestHeader under *)
(* one cs_main, without m_chainstate_mutex; then ActivateBestChain.        *)
(***************************************************************************)
ReconsiderBlock(b) ==
    LET reset == Reset(b)
    IN  /\ Free
        /\ b \in known
        /\ failedValid' = failedValid \ reset
        /\ failedChild' = failedChild \ reset
        /\ cand' = cand \cup {c \in reset \cap data \cap linked :
                                  Worse(seq, tip, c)}
        /\ bestInvalid' = IF bestInvalid \in reset THEN Null ELSE bestInvalid
        /\ bestHeader' \in RecalculateBestHeader(tip, known, Failed \ reset)
        /\ want' = TRUE
        /\ UNCHANGED <<verdict, index, order, tip, proc, abc, inv,
                       invalidated>>

(***************************************************************************)
(* PreciousBlock: a block at least as heavy as the tip is moved in front   *)
(* of those of its work; then ActivateBestChain.                           *)
(***************************************************************************)
PreciousBlock(b) ==
    LET rev == IF Work[tip] > lastPrecious THEN -1 ELSE revSeq
        eligible == b \in (data \cap linked) \ Failed
    IN  /\ Free
        /\ b \in known /\ Work[b] >= Work[tip]
        /\ rev >= -MaxPrecious
        /\ lastPrecious' = Work[tip]
        /\ seq' = [seq EXCEPT ![b] = rev]
        /\ revSeq' = rev - 1
        /\ cand' = IF eligible
                   THEN {c \in cand \cup {b} : ~Worse(seq', c, tip)}
                   ELSE cand \ {b}
        /\ want' = TRUE
        /\ UNCHANGED <<verdict, index, flags, nextSeq, tip, bestHeader, proc,
                       abc, inv, invalidated>>

-----------------------------------------------------------------------------
Next ==
    \/ \E b \in Block \ {Genesis} : ProcessNewBlockHeaders(b)
    \/ \E b \in Block \ {Genesis}, requested \in BOOLEAN :
           ProcessNewBlock(b, requested)
    \/ ActivateBestChain
    \/ NextRound
    \/ DropCandidate
    \/ FindMostWorkChain
    \/ AlreadyBest
    \/ ActivateBestChainStep
    \/ \E c \in Block : ConnectTip(c)
    \/ \E c \in Block : ConnectTipFails(c)
    \/ \E b \in Invalidable : InvalidateBlock(b)
    \/ InvalidateTip
    \/ FinishInvalidate
    \/ \E b \in Reconsiderable : ReconsiderBlock(b)
    \/ \E b \in Precious : PreciousBlock(b)

Spec == Init /\ [][Next]_vars

(***************************************************************************)
(* A thread inside ActivateBestChain or InvalidateBlock keeps running, and *)
(* one that waits for m_chainstate_mutex gets it.                          *)
(***************************************************************************)
Activation ==
    \/ ActivateBestChain \/ NextRound \/ DropCandidate \/ FindMostWorkChain
    \/ AlreadyBest \/ ActivateBestChainStep
    \/ \E c \in Block : ConnectTip(c) \/ ConnectTipFails(c)

Fairness ==
    /\ WF_vars(Activation)
    /\ WF_vars(InvalidateTip \/ FinishInvalidate)

FairSpec == Spec /\ Fairness

-----------------------------------------------------------------------------
\* Block-index state: data only for known blocks, candidates and the tip only
\* among linked ones, flags only on known ones.
TypeOK ==
    /\ verdict \in Verdicts
    /\ known \in SUBSET Block /\ data \in SUBSET known
    /\ linked \in SUBSET data /\ unlinked \in SUBSET data
    /\ failedValid \in SUBSET known /\ failedChild \in SUBSET known
    /\ bestInvalid \in known \cup {Null}
    /\ seq \in [Block -> Int] /\ nextSeq \in Nat /\ revSeq \in Int
    /\ lastPrecious \in Nat
    /\ cand \in SUBSET linked /\ tip \in linked /\ bestHeader \in known
    /\ want \in BOOLEAN
    /\ proc \in {"idle", "find", "connect", "released", "walk"}
    /\ abc \in [mostWork : linked \cup {Null}, start : linked \cup {Null},
                old : linked \cup {Null}]
    /\ inv \in [pindex : known \cup {Null}, toMark : known \cup {Null},
                wasInChain : BOOLEAN, highpow : SUBSET known]
    /\ invalidated \in SUBSET Invalidable

\* No operation is inside the block index: CheckBlockIndex may run.
Settled == proc \in {"idle", "released"}

(***************************************************************************)
(* CheckBlockIndex: a block is linked (HaveNumChainTxs) exactly when it    *)
(* and all its ancestors have data, in whatever order they arrived, and a  *)
(* block with data that is not linked and has no invalid ancestor waits in *)
(* m_blocks_unlinked, where nothing else is.                               *)
(***************************************************************************)
LinkedExact ==
    /\ \A b \in known : b \in linked <=> Chain[b] \subseteq data
    /\ unlinked \cap linked = {}
    /\ \A b \in data \ linked : Chain[b] \cap failedValid = {} => b \in unlinked

(***************************************************************************)
(* CheckBlockIndex on setBlockIndexCandidates: it holds every linked block *)
(* that does not sort before the tip and has no invalid ancestor, and no   *)
(* block that sorts before the tip.                                        *)
(***************************************************************************)
CandidatesExact ==
    /\ \A b \in cand : ~Worse(seq, b, tip)
    /\ \A b \in linked : ~Worse(seq, b, tip) /\ Chain[b] \cap failedValid = {}
                         => b \in cand

\* Between two operations (and two rounds of ActivateBestChain) the
\* candidate set is exact, whatever arrived while InvalidateBlock ran.
CandidatesSettled == Settled => CandidatesExact

\* CheckBlockIndex: the descendants of a block marked BLOCK_FAILED_VALID
\* are marked as failed as well.
FailureClosed ==
    Settled => \A b \in known : Chain[b] \cap failedValid # {} => b \in Failed

\* CheckBlockIndex: a block marked as failed descends from, or is, a block
\* marked BLOCK_FAILED_VALID, also in the gaps of InvalidateBlock.
FailureCaused ==
    Free => \A b \in Failed : Chain[b] \cap failedValid # {}

\* A block is marked as failed only if it, or an ancestor, fails validation or
\* was passed to invalidateblock before.
OnlyGuilty ==
    \A b \in Failed : \E a \in Chain[b] :
        a \in invalidated \/ verdict[a] # "good"

\* No block of the active chain is marked as failed: what AcceptBlock,
\* ActivateBestChain, InvalidateBlock and the RPCs mark is off the chain.
TipValid == Chain[tip] \cap Failed = {}

\* A block that could be activated now and is better than the tip.
Better(b) ==
    b \in linked /\ Chain[b] \cap Failed = {} /\ Worse(seq, tip, b)

\* When no thread is in, or about to enter, ActivateBestChain or
\* InvalidateBlock, the tip is the best block the node could have.
TipBest == proc = "idle" /\ ~want => \A b \in Block : ~Better(b)

\* No block that could be activated then has more work than the tip.
TipMostWork ==
    proc = "idle" /\ ~want =>
        \A b \in linked : Chain[b] \cap Failed = {} => Work[b] <= Work[tip]

\* ActivateBestChain never releases cs_main on a worse tip than the one it
\* took it with.
ForwardProgress ==
    [][Held /\ ~Held' => ~Worse(seq, tip', abc.start)]_vars

\* Once the operator stops calling invalidateblock, a block better than the
\* tip is activated, overtaken or found invalid.
Converges ==
    <>[](proc # "walk") => \A b \in Block \ {Genesis} : []<>~Better(b)

=============================================================================
