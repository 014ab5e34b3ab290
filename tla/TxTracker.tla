----------------------------- MODULE TxTracker ------------------------------
(***************************************************************************)
(* What TxRequestTracker promises (the description of the class and its    *)
(* operations in src/src/txrequest.h): a collection of announcements, each *)
(* a candidate, requested or completed, and a rule for whom to ask for     *)
(* which transaction.                                                      *)
(***************************************************************************)
EXTENDS Integers

CONSTANTS Tx, Peer, Time, None,
    Rank,      \* the order among the peers that announced a transaction, a hash
    Preference \* what a preferred peer has on top of it

VARIABLES
    ann,     \* for every transaction, the announcement of each peer, or None
    asker,   \* the peer whose GetRequestable is at work, or None
    now,     \* its time, 0 otherwise
    offered  \* what was last returned to each peer and still stands

vars == <<ann, asker, now, offered>>

In(row, states) == {p \in Peer : row[p] # None /\ row[p].state \in states}

Priority(t, row, p) == Rank[t][p] + IF row[p].preferred THEN Preference ELSE 0

Forgotten == [p \in Peer |-> None]

\* If only completed announcements are left, they are forgotten.
Clean(row) == IF In(row, {"CANDIDATE", "REQUESTED"}) = {} THEN Forgotten ELSE row

Complete(row, p) == Clean([row EXCEPT ![p].state = "COMPLETED"])

Init ==
    /\ ann = [t \in Tx |-> Forgotten]
    /\ asker = None /\ now = 0 /\ offered = {}

ReceivedInv(p, t, preferred, reqtime) ==
    /\ asker = None
    /\ ann' = IF ann[t][p] # None THEN ann
              ELSE [ann EXCEPT ![t][p] = [state |-> "CANDIDATE", time |-> reqtime,
                                          preferred |-> preferred]]
    /\ UNCHANGED <<asker, now, offered>>

DisconnectedPeer(p) ==
    /\ asker = None
    /\ ann' = [t \in Tx |-> Clean([ann[t] EXCEPT ![p] = None])]
    /\ offered' = {o \in offered : o[1] # p}
    /\ UNCHANGED <<asker, now>>

ForgetTxHash(t) ==
    /\ asker = None
    /\ ann' = [ann EXCEPT ![t] = Forgotten]
    /\ offered' = {o \in offered : o[2] # t}
    /\ UNCHANGED <<asker, now>>

RequestedTx(p, t, expiry) ==
    /\ asker = None
    /\ IF p \notin In(ann[t], {"CANDIDATE"}) THEN UNCHANGED <<ann, offered>>
       ELSE /\ ann' = [ann EXCEPT ![t] = [q \in Peer |->
                   CASE q = p -> [ann[t][p] EXCEPT !.state = "REQUESTED", !.time = expiry]
                     [] q \in In(ann[t], {"REQUESTED"}) ->
                           [ann[t][q] EXCEPT !.state = "COMPLETED"]
                     [] OTHER -> ann[t][q]]]
            /\ offered' = {o \in offered : o[2] # t}
    /\ UNCHANGED <<asker, now>>

ReceivedResponse(p, t) ==
    /\ asker = None
    /\ ann' = IF ann[t][p] = None THEN ann ELSE [ann EXCEPT ![t] = Complete(ann[t], p)]
    /\ offered' = offered \ {<<p, t>>}
    /\ UNCHANGED <<asker, now>>

\* GetRequestable: requests that have expired fail, and the peer is asked for
\* the transactions nobody is asked for, of whose announcements that are due it
\* has made the best.
GetRequestable(p, n) ==
    /\ asker = None
    /\ asker' = p /\ now' = n
    /\ UNCHANGED <<ann, offered>>

Expired(t) == {p \in In(ann[t], {"REQUESTED"}) : ann[t][p].time <= now}

Expire ==
    /\ asker # None
    /\ \E t \in Tx : \E p \in Expired(t) : ann' = [ann EXCEPT ![t] = Complete(ann[t], p)]
    /\ UNCHANGED <<asker, now, offered>>

Due(t) == {p \in In(ann[t], {"CANDIDATE"}) : ann[t][p].time <= now}

Return ==
    /\ asker # None /\ \A t \in Tx : Expired(t) = {}
    /\ offered' = {o \in offered : o[1] # asker} \cup {asker} \X
           {t \in Tx : /\ In(ann[t], {"REQUESTED"}) = {}
                       /\ asker \in Due(t)
                       /\ \A q \in Due(t) :
                             Priority(t, ann[t], q) <= Priority(t, ann[t], asker)}
    /\ asker' = None /\ now' = 0
    /\ UNCHANGED ann

Next ==
    \/ Expire \/ Return
    \/ \E p \in Peer : DisconnectedPeer(p) \/ \E n \in Time : GetRequestable(p, n)
    \/ \E t \in Tx : ForgetTxHash(t)
    \/ \E p \in Peer, t \in Tx :
           \/ ReceivedResponse(p, t)
           \/ \E time \in Time : RequestedTx(p, t, time)
           \/ \E time \in Time, preferred \in BOOLEAN : ReceivedInv(p, t, preferred, time)

Spec == Init /\ [][Next]_vars
=============================================================================
