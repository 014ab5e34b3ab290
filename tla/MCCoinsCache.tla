---------------------------- MODULE MCCoinsCache ----------------------------
(* CoinsCache for TLC: two outpoints, two spendable coins of different size *)
(* and an unspendable one, two block hashes.                                *)
EXTENDS CoinsCache, TLC

CONSTANTS o1, o2, c1, c2, dust, h1, h2

MCOutpoint == {o1, o2}
MCCoin == {c1, c2, dust}
MCUnspendable == {dust}
MCMemUsage == (c1 :> 1) @@ (c2 :> 2) @@ (dust :> 1)
MCHash == {h1, h2}
Symm == Permutations(MCOutpoint) \cup Permutations(MCHash)
=============================================================================
