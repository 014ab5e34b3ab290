---------------------------- MODULE MCCheckQueue ----------------------------
(***************************************************************************)
(* Two masters, two workers and four checks, two of which fail.            *)
(***************************************************************************)
EXTENDS CheckQueue

CONSTANTS m1, m2, w1, w2, good1, good2, bad1, bad2

MCMaster == {m1, m2}
MCWorker == {w1, w2}
MCCheck == {good1, good2, bad1, bad2}
MCBad == {bad1, bad2}

=============================================================================
