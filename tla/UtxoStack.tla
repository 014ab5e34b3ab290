------------------------------ MODULE UtxoStack ------------------------------
(***************************************************************************)
(* What the stack of coin views promises to validation: three complete     *)
(* maps from outpoints to coins, the database, the chain tip's and a       *)
(* working view's, with no cache entries, no flags and no lazy reads.      *)
(* Writes go to the top map, a push copies the top map down one level, and *)
(* closing the working view forgets what was not pushed.                   *)
(* The working view of a closed stack is the tip's map.                    *)
(***************************************************************************)
CONSTANTS Outpoint, Coin, Spent, Hash, Null

VARIABLES map, best, open, ret

vars == <<map, best, open, ret>>

Level == {"db", "tip", "view"}
Value == Coin \cup {Spent}

\* The levels a write to the top of the stack is visible at.
Tops == IF open THEN {"view"} ELSE {"tip", "view"}

Init ==
  /\ map = [l \in Level |-> [o \in Outpoint |-> Spent]]
  /\ best = [l \in Level |-> Null]
  /\ open = FALSE
  /\ ret = Spent

\* A lookup answers with the top map's coin.
Read(o) ==
  /\ ret' = map["view"][o]
  /\ UNCHANGED <<map, best, open>>

\* An output appears at the top.
Add(o, c) ==
  /\ map' = [l \in Level |-> IF l \in Tops THEN [map[l] EXCEPT ![o] = c] ELSE map[l]]
  /\ UNCHANGED <<best, open, ret>>

\* An output disappears from the top and its coin is handed out.
Spend(o) ==
  /\ ret' = map["view"][o]
  /\ map' = [l \in Level |-> IF l \in Tops THEN [map[l] EXCEPT ![o] = Spent] ELSE map[l]]
  /\ UNCHANGED <<best, open>>

SetBest(h) ==
  /\ best' = [l \in Level |-> IF l \in Tops THEN h ELSE best[l]]
  /\ UNCHANGED <<map, open, ret>>

\* The level below the top becomes a copy of the top.
Push ==
  /\ best["view"] # Null
  /\ LET base == IF open THEN "tip" ELSE "db" IN
     /\ map' = [map EXCEPT ![base] = map["view"]]
     /\ best' = [best EXCEPT ![base] = best["view"]]
  /\ UNCHANGED <<open, ret>>

Open ==
  /\ ~open
  /\ open' = TRUE
  /\ UNCHANGED <<map, best, ret>>

Close ==
  /\ open
  /\ open' = FALSE
  /\ map' = [map EXCEPT !["view"] = map["tip"]]
  /\ best' = [best EXCEPT !["view"] = best["tip"]]
  /\ UNCHANGED ret

Next ==
  \/ \E o \in Outpoint : Read(o) \/ Spend(o)
  \/ \E o \in Outpoint, c \in Coin : Add(o, c)
  \/ \E h \in Hash : SetBest(h)
  \/ Push
  \/ Open
  \/ Close

Spec == Init /\ [][Next]_vars
=============================================================================
