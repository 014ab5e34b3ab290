----------------------------- MODULE MCChainGaps -----------------------------
(***************************************************************************)
(* The tree of MCChainState, with the history of the gaps.                 *)
(***************************************************************************)
EXTENDS MCChainState, ChainGaps

\* Nothing fails, or both branches beside A2 do.
TwoVerdicts == {AllGood, [AllGood EXCEPT ![B2] = "connect", ![C1] = "context"]}

TwoReconsiderable == {A1, A2}

=============================================================================
