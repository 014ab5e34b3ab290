--------------------------- MODULE MCChainStorage ---------------------------
(* A small block tree for ChainStorage: two branches from the genesis block. *)
(* Outpoint q is created on both branches, at different heights; p is spent  *)
(* on its own branch; r is created and spent inside one block.               *)
EXTENDS ChainStorage, TLC

CONSTANTS G, A1, A2, B1, p, q, r

MCBlock == {G, A1, A2, B1}
MCOutpoint == {p, q, r}
MCParent == G :> G @@ A1 :> G @@ A2 :> A1 @@ B1 :> G
MCHeight == G :> 0 @@ A1 :> 1 @@ A2 :> 2 @@ B1 :> 1
MCIns == G :> {} @@ A1 :> {} @@ A2 :> {p, r} @@ B1 :> {r}
MCOuts == G :> {} @@ A1 :> {p} @@ A2 :> {q, r} @@ B1 :> {q, r}
=============================================================================
