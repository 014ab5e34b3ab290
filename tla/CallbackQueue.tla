--------------------------- MODULE CallbackQueue ----------------------------
(***************************************************************************)
(* What SerialTaskRunner promises to the users of the validation interface *)
(* (src/src/scheduler.h): callbacks run one at a time, in the order in     *)
(* which they were inserted, and every one of them runs.  A callback is    *)
(* the number of its insertion.                                            *)
(***************************************************************************)
EXTENDS Naturals, Sequences

VARIABLES
    inserted, \* how many callbacks were inserted
    pending,  \* those that wait
    running   \* the one that runs, or 0

vars == <<inserted, pending, running>>

Init == inserted = 0 /\ pending = <<>> /\ running = 0

Insert ==
    /\ inserted' = inserted + 1
    /\ pending' = Append(pending, inserted')
    /\ UNCHANGED running

Begin ==
    /\ running = 0 /\ pending # <<>>
    /\ running' = Head(pending)
    /\ pending' = Tail(pending)
    /\ UNCHANGED inserted

End ==
    /\ running # 0
    /\ running' = 0
    /\ UNCHANGED <<inserted, pending>>

Next == Insert \/ Begin \/ End

Spec == Init /\ [][Next]_vars

FairSpec == Spec /\ WF_vars(Begin) /\ WF_vars(End)

=============================================================================
