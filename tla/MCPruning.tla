----------------------------- MODULE MCPruning ------------------------------
(* A single chain, long enough for its first block file to be pruned.         *)
EXTENDS ChainStorage, TLC

CONSTANTS G, A1, A2, A3, p, q

MCBlock == {G, A1, A2, A3}
MCOutpoint == {p, q}
MCParent == G :> G @@ A1 :> G @@ A2 :> A1 @@ A3 :> A2
MCHeight == G :> 0 @@ A1 :> 1 @@ A2 :> 2 @@ A3 :> 3
MCIns == G :> {} @@ A1 :> {} @@ A2 :> {p} @@ A3 :> {}
MCOuts == G :> {} @@ A1 :> {p} @@ A2 :> {q} @@ A3 :> {p}
=============================================================================
