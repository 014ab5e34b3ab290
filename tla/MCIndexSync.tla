---------------------------- MODULE MCIndexSync -----------------------------
(***************************************************************************)
(* A fork at the genesis block, with branches of one and two blocks.       *)
(***************************************************************************)
EXTENDS IndexSync, TLC

CONSTANTS g, a1, b1, b2

MCBlock == {g, a1, b1, b2}
MCParent == (g :> None) @@ (a1 :> g) @@ (b1 :> g) @@ (b2 :> b1)
MCHeight == (g :> 0) @@ (a1 :> 1) @@ (b1 :> 1) @@ (b2 :> 2)
=============================================================================
