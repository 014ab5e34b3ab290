---------------------------- MODULE MCTxRequest -----------------------------
(***************************************************************************)
(* One hash announced by three peers and one by a single peer, who may ask *)
(* for both; times that have come and times that have not.                 *)
(***************************************************************************)
EXTENDS TxRequest, TLC

CONSTANTS p1, p2, p3, t1, t2

MCRank == (t1 :> ((p1 :> 0) @@ (p2 :> 1) @@ (p3 :> 2)))
          @@ (t2 :> ((p1 :> 2) @@ (p2 :> 0) @@ (p3 :> 1)))
MCAnnounced == {<<p1, t1, TRUE>>, <<p2, t1, FALSE>>, <<p3, t1, FALSE>>, <<p1, t2, FALSE>>}
=============================================================================
