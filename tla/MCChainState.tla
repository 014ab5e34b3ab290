---------------------------- MODULE MCChainState ----------------------------
(***************************************************************************)
(* A tree with a fork at two heights: A1 has the children A2 and B2, B3    *)
(* follows B2, and C1, with as much work as A2, competes from Genesis.     *)
(***************************************************************************)
EXTENDS ChainState

CONSTANTS G, A1, A2, B2, B3, C1

MCBlock == {G, A1, A2, B2, B3, C1}

MCParent == [b \in MCBlock \ {G} |->
                CASE b \in {A1, C1} -> G [] b \in {A2, B2} -> A1 [] b = B3 -> B2]

MCWork == [b \in MCBlock |->
    CASE b = G -> 1 [] b = A1 -> 2 [] b \in {A2, B2, C1} -> 3 [] b = B3 -> 4]

MCAddr == [b \in MCBlock |->
    CASE b = G -> 1 [] b = A1 -> 2 [] b = A2 -> 4 [] b = B2 -> 3
      [] b = B3 -> 5 [] b = C1 -> 6]

AllGood == [b \in MCBlock |-> "good"]

\* Nothing fails, or B2 does, below a block that is fine, or C1 or B3 does.
MCVerdicts == {AllGood, [AllGood EXCEPT ![B2] = "connect"],
               [AllGood EXCEPT ![B3] = "connect"],
               [AllGood EXCEPT ![C1] = "context"]}

OneA1 == {A1}
TwoPrecious == {A2, C1}

=============================================================================
