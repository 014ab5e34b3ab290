---------------------------- MODULE MCStatsCache ----------------------------
(***************************************************************************)
(* Two overlapping requests of two calls each, a lifetime of two ticks and *)
(* a clock long enough for a refresh that overlaps the next expiry.        *)
(***************************************************************************)
EXTENDS StatsCache, TLC

CONSTANTS r1, r2, chain, mining

MCRequest == {r1, r2}
MCMethod == {chain, mining}
Symmetry == Permutations(MCRequest) \cup Permutations(MCMethod)

=============================================================================
