----------------------------- MODULE TxRequest ------------------------------
(***************************************************************************)
(* Who is asked for which transaction: TxRequestTracker::Impl              *)
(* (src/src/txrequest.cpp).  To answer at once, it splits the candidates   *)
(* of the promise in TxTracker into those that are delayed, ready, and the *)
(* best one, and keeps the split up to date.                               *)
(*                                                                         *)
(* The announcements of a transaction are a row.  SetTimePoint is two      *)
(* loops, and their rounds are steps; nothing else happens between them.   *)
(* The counters of m_peerinfo are what they cache: functions of the rows.  *)
(***************************************************************************)
EXTENDS Integers, FiniteSets

CONSTANTS
    Tx,         \* the hashes that are announced
    Peer,
    Time,       \* the times of requests and their expiry, and of the clock
    Rank,       \* the hash of PriorityComputer, different for the peers of a hash
    Preference, \* its bit for preferred peers
    Announced,  \* bound on who announces what, preferred or not
    None

Candidates == {"CANDIDATE_DELAYED", "CANDIDATE_READY", "CANDIDATE_BEST"}

Announcement ==
    [state : Candidates \cup {"REQUESTED", "COMPLETED"}, time : Time, preferred : BOOLEAN]

ASSUME TxRequestAssumption ==
    /\ None \notin Peer
    /\ None \notin [state : Candidates \cup {"CANDIDATE", "REQUESTED", "COMPLETED"},
                     time : Time, preferred : BOOLEAN]
    /\ Time \subseteq Nat /\ 0 \in Time /\ Preference \in Nat
    /\ Rank \in [Tx -> [Peer -> 0 .. Preference - 1]]
    /\ \A t \in Tx : \A p, q \in Peer : Rank[t][p] = Rank[t][q] => p = q
    /\ Announced \subseteq Peer \X Tx \X BOOLEAN

VARIABLES
    m_index, \* for every hash, the announcement of each peer, or None
    asker,   \* the peer whose GetRequestable is at work, or None
    now,     \* its time, 0 otherwise
    loop,    \* the loop of SetTimePoint it is in, "none" otherwise
    offered  \* history: what was last returned to each peer and still stands

vars == <<m_index, asker, now, loop, offered>>

-----------------------------------------------------------------------------
In(row, states) == {p \in Peer : row[p] # None /\ row[p].state \in states}

Waiting == {"CANDIDATE_DELAYED", "REQUESTED"}
Selectable == {"CANDIDATE_READY", "CANDIDATE_BEST"}
Selected == {"CANDIDATE_BEST", "REQUESTED"}

Priority(t, row, p) == Rank[t][p] + IF row[p].preferred THEN Preference ELSE 0

SetState(row, p, state) == [row EXCEPT ![p].state = state]

Forgotten == [p \in Peer |-> None]

\* A delayed announcement is ready.  It becomes the best one when none is
\* selected, and is left alone otherwise; and it becomes the best one also when
\* it is better than the best so far, and ready otherwise.
PromoteIfNone(t, row, p) ==
    IF In(row, Selected) = {} THEN SetState(row, p, "CANDIDATE_BEST") ELSE row

PromoteCandidateReady(t, row, p) ==
    LET ready == SetState(row, p, "CANDIDATE_READY")
        best == In(row, {"CANDIDATE_BEST"})
        Better(q) == Priority(t, row, q) > Priority(t, row, p)
    IN  IF \E q \in In(row, {"CANDIDATE_READY"}) : Better(q) THEN ready
        ELSE IF In(row, Selected) = {} THEN SetState(row, p, "CANDIDATE_BEST")
        ELSE IF best # {} /\ \A q \in best : ~Better(q)
        THEN [q \in Peer |-> CASE q = p -> [row[q] EXCEPT !.state = "CANDIDATE_BEST"]
                               [] q \in best -> [row[q] EXCEPT !.state = "CANDIDATE_READY"]
                               [] OTHER -> row[q]]
        ELSE ready

\* The ready announcement that comes last in the order of ByTxHash, if any.
NextBest(t, row) ==
    {p \in In(row, {"CANDIDATE_READY"}) :
        \A q \in In(row, {"CANDIDATE_READY"}) : Priority(t, row, q) <= Priority(t, row, p)}

\* An announcement gets a state in which it is not selected: with nobody, and
\* with the next best one in its place.
Change(t, row, p, state) == SetState(row, p, state)

ChangeAndReselect(t, row, p, state) ==
    [q \in Peer |-> CASE q = p -> [row[q] EXCEPT !.state = state]
                      [] p \in In(row, Selected) /\ q \in NextBest(t, row) /\ q # p ->
                            [row[q] EXCEPT !.state = "CANDIDATE_BEST"]
                      [] OTHER -> row[q]]

IsOnlyNonCompleted(row, p) == In(row, Candidates \cup {"REQUESTED"}) = {p}

MakeCompleted(t, row, p) ==
    IF row[p].state = "COMPLETED" THEN row
    ELSE IF IsOnlyNonCompleted(row, p) THEN Forgotten
    ELSE ChangeAndReselect(t, row, p, "COMPLETED")

-----------------------------------------------------------------------------
Init ==
    /\ m_index = [t \in Tx |-> Forgotten]
    /\ asker = None /\ now = 0 /\ loop = "none" /\ offered = {}

ReceivedInv(p, t, preferred, reqtime) ==
    /\ asker = None /\ <<p, t, preferred>> \in Announced
    /\ m_index' = IF m_index[t][p] # None THEN m_index
                  ELSE [m_index EXCEPT ![t][p] = [state |-> "CANDIDATE_DELAYED",
                                                  time |-> reqtime, preferred |-> preferred]]
    /\ UNCHANGED <<asker, now, loop, offered>>

\* Every announcement of the peer is completed, and erased if it still exists.
DisconnectedReselect(t, p) ==
    IF m_index[t][p] = None THEN m_index[t]
    ELSE [MakeCompleted(t, m_index[t], p) EXCEPT ![p] = None]

DisconnectedPeer(p) ==
    /\ asker = None
    /\ m_index' = [t \in Tx |-> DisconnectedReselect(t, p)]
    /\ offered' = {o \in offered : o[1] # p}
    /\ UNCHANGED <<asker, now, loop>>

ForgetTxHash(t) ==
    /\ asker = None
    /\ m_index' = [m_index EXCEPT ![t] = Forgotten]
    /\ offered' = {o \in offered : o[2] # t}
    /\ UNCHANGED <<asker, now, loop>>

\* A candidate is requested: beside the others, and in their place.  If it is
\* not the best one, the best one is ready again, and a request to another peer
\* is over.
RequestedAlone(t, p, expiry) ==
    [m_index[t] EXCEPT ![p].state = "REQUESTED", ![p].time = expiry]

RequestedRow(t, p, expiry) ==
    [q \in Peer |->
        CASE q = p -> [m_index[t][p] EXCEPT !.state = "REQUESTED", !.time = expiry]
          [] q \in In(m_index[t], {"CANDIDATE_BEST"}) \ {p} ->
                [m_index[t][q] EXCEPT !.state = "CANDIDATE_READY"]
          [] q \in In(m_index[t], {"REQUESTED"}) \ {p} ->
                [m_index[t][q] EXCEPT !.state = "COMPLETED"]
          [] OTHER -> m_index[t][q]]

RequestedTx(p, t, expiry) ==
    /\ asker = None
    /\ IF p \notin In(m_index[t], Candidates) THEN UNCHANGED <<m_index, offered>>
       ELSE /\ m_index' = [m_index EXCEPT ![t] = RequestedRow(t, p, expiry)]
            /\ offered' = {o \in offered : o[2] # t}
    /\ UNCHANGED <<asker, now, loop>>

ReceivedResponse(p, t) ==
    /\ asker = None
    /\ m_index' = IF m_index[t][p] = None THEN m_index
                  ELSE [m_index EXCEPT ![t] = MakeCompleted(t, m_index[t], p)]
    /\ offered' = offered \ {<<p, t>>}
    /\ UNCHANGED <<asker, now, loop>>

-----------------------------------------------------------------------------
\* GetRequestable starts SetTimePoint ...
GetRequestable(p, n) ==
    /\ asker = None
    /\ asker' = p /\ now' = n /\ loop' = "past"
    /\ UNCHANGED <<m_index, offered>>

\* ... in which the announcements whose time has come are handled from the
\* earliest on ...
Past(t) == {p \in In(m_index[t], Waiting) : m_index[t][p].time <= now}

First(t, p) ==
    p \in Past(t) /\ \A u \in Tx : \A q \in Past(u) : m_index[t][p].time <= m_index[u][q].time

Promote(t, p) ==
    /\ loop = "past" /\ First(t, p) /\ m_index[t][p].state = "CANDIDATE_DELAYED"
    /\ m_index' = [m_index EXCEPT ![t] = PromoteCandidateReady(t, m_index[t], p)]
    /\ UNCHANGED <<asker, now, loop, offered>>

Expire(t, p) ==
    /\ loop = "past" /\ First(t, p) /\ m_index[t][p].state = "REQUESTED"
    /\ m_index' = [m_index EXCEPT ![t] = MakeCompleted(t, m_index[t], p)]
    /\ UNCHANGED <<asker, now, loop, offered>>

\* ... until there are none left ...
EndPast ==
    /\ loop = "past" /\ \A t \in Tx : Past(t) = {}
    /\ loop' = "future"
    /\ UNCHANGED <<m_index, asker, now, offered>>

\* ... and then those whose time is yet to come after all, from the latest on.
Future(t) == {p \in In(m_index[t], Selectable) : m_index[t][p].time > now}

Last(t, p) ==
    /\ p \in Future(t)
    /\ \A u \in Tx : \A q \in Future(u) : m_index[u][q].time <= m_index[t][p].time

Demote(t, p) ==
    /\ loop = "future" /\ Last(t, p)
    /\ m_index' = [m_index EXCEPT ![t] =
                      ChangeAndReselect(t, m_index[t], p, "CANDIDATE_DELAYED")]
    /\ UNCHANGED <<asker, now, loop, offered>>

\* It returns the hashes of which the peer has an announcement that can be
\* selected, and the best announcement.
ReturnSelectable ==
    /\ loop = "future" /\ \A t \in Tx : Future(t) = {}
    /\ offered' = {o \in offered : o[1] # asker} \cup
                  {asker} \X {t \in Tx : asker \in In(m_index[t], Selectable)}
    /\ asker' = None /\ now' = 0 /\ loop' = "none"
    /\ UNCHANGED m_index

Return ==
    /\ loop = "future" /\ \A t \in Tx : Future(t) = {}
    /\ offered' = {o \in offered : o[1] # asker} \cup
                  {asker} \X {t \in Tx : asker \in In(m_index[t], {"CANDIDATE_BEST"})}
    /\ asker' = None /\ now' = 0 /\ loop' = "none"
    /\ UNCHANGED m_index

Next ==
    \/ \E p \in Peer, t \in Tx :
           \/ ReceivedResponse(p, t) \/ Promote(t, p) \/ Expire(t, p) \/ Demote(t, p)
           \/ \E time \in Time : RequestedTx(p, t, time)
           \/ \E time \in Time, preferred \in BOOLEAN : ReceivedInv(p, t, preferred, time)
    \/ \E p \in Peer : DisconnectedPeer(p) \/ \E n \in Time : GetRequestable(p, n)
    \/ \E t \in Tx : ForgetTxHash(t)
    \/ EndPast \/ Return

Spec == Init /\ [][Next]_vars

\* SetTimePoint runs to its end.
FairSpec == Spec /\ WF_vars(asker # None /\ Next)

-----------------------------------------------------------------------------
\* The types of the members and of the arguments of a running GetRequestable.
TypeOK ==
    /\ m_index \in [Tx -> [Peer -> Announcement \cup {None}]]
    /\ asker \in Peer \cup {None} /\ now \in Time
    /\ loop \in {"none", "past", "future"} /\ (loop = "none" <=> asker = None)
    /\ offered \subseteq Peer \X Tx

\* What SanityCheck asserts of every hash (txrequest.cpp): not all of its
\* announcements are completed, at most one is selected, one is if another is
\* ready, and no ready one is better than the best.
SanityCheck ==
    \A t \in Tx : LET row == m_index[t] IN
        /\ row # Forgotten => In(row, Candidates \cup {"REQUESTED"}) # {}
        /\ \A p, q \in In(row, Selected) : p = q
        /\ In(row, {"CANDIDATE_READY"}) # {} => In(row, Selected) # {}
        /\ \A p \in In(row, {"CANDIDATE_READY"}), q \in In(row, {"CANDIDATE_BEST"}) :
               Priority(t, row, p) <= Priority(t, row, q)

\* An answer of GetRequestable can be acted on until the hash is requested from
\* somebody or forgotten, or the peer answers or leaves, whatever else happens to
\* the hash and however often GetRequestable is called in between: the peer is
\* still a candidate and nobody is asked, so that RequestedTx ends no request
\* ("GetRequestable will never advise doing so", txrequest.h).
OffersHold ==
    \A o \in offered :
        /\ o[1] \in In(m_index[o[2]], Candidates)
        /\ In(m_index[o[2]], {"REQUESTED"}) = {}

\* The tracker gives the answers TxTracker promises.
Promised ==
    INSTANCE TxTracker WITH
        ann <- [t \in Tx |-> [p \in Peer |->
                   IF m_index[t][p] # None /\ m_index[t][p].state \in Candidates
                   THEN [m_index[t][p] EXCEPT !.state = "CANDIDATE"] ELSE m_index[t][p]]]
KeepsPromise == Promised!Spec

\* GetRequestable returns: no round of SetTimePoint undoes another, also when
\* time goes backwards.
Settles == asker # None ~> asker = None
=============================================================================
