------------------------------ MODULE ChainGaps ------------------------------
(***************************************************************************)
(* ChainState with a history variable: what other threads did to the block *)
(* index in the gaps of InvalidateBlock, where it has released cs_main and *)
(* goes on with the collection it made at its start                        *)
(* (src/src/validation.cpp, highpow_outofchain_headers).                   *)
(***************************************************************************)
EXTENDS ChainState

VARIABLE touched  \* blocks announced, marked or reset in such a gap

\* A step of another thread while InvalidateBlock runs.
InGap == proc = "walk" /\ proc' = "walk" /\ tip' = tip

GapInit == Init /\ touched = {}

GapNext ==
    /\ Next
    /\ touched' = IF InGap
                  THEN touched \cup (known' \ known)
                               \cup (Failed \ Failed') \cup (Failed' \ Failed)
                  ELSE touched

GapSpec == GapInit /\ [][GapNext]_<<vars, touched>>

(***************************************************************************)
(* CheckBlockIndex: the best header has not failed, and no block that has  *)
(* not failed has more work, also between two steps of InvalidateBlock,    *)
(* which chooses the best header from its collection.  Only blocks that    *)
(* were announced, marked or reset in a gap are misjudged.                 *)
(***************************************************************************)
BestHeaderKept ==
    Free => /\ bestHeader \notin Failed \ touched
            /\ \A b \in known \ (Failed \cup touched) :
                   Work[b] <= Work[bestHeader]

=============================================================================
