----------------------------- MODULE StatsCache -----------------------------
(***************************************************************************)
(* The cached statistics endpoint of the web backend                       *)
(* (src/backend/src/routes/stats.ts).                                      *)
(*                                                                         *)
(* Handlers of different requests interleave at the await of Promise.all.  *)
(* What the node answers grows older and nothing else, so an answer is the *)
(* time it was given, and Null is the null of a failed call.               *)
(***************************************************************************)
EXTENDS Integers

CONSTANTS
    Request,    \* the connections a client may hold
    Method,     \* the RPC methods of one refresh
    TTL,        \* CACHE_TTL, in ticks
    MaxLatency, \* bound on the ticks an RPC call takes to answer or to fail
    MaxTime,    \* bound on the clock
    Null

ASSUME StatsAssumption ==
    /\ TTL \in Nat \ {0} /\ MaxLatency \in Nat /\ MaxTime \in Nat
    /\ Null \notin Nat /\ Method # {}

VARIABLES
    now,        \* Date.now()
    statsCache, \* the data and its timestamp, or Null
    pending,    \* the refresh each request awaits: answers so far, and since when
    reply       \* the last reply to each request: its data, and when it left

vars == <<now, statsCache, pending, reply>>

Time == 0 .. MaxTime
Answer == Time \cup {Null}
Data == [Method -> Answer]

Init ==
    /\ now = 0
    /\ statsCache = Null
    /\ pending = [r \in Request |-> Null]
    /\ reply = [r \in Request |-> Null]

\* The clock moves while no call is overdue.
Tick ==
    /\ now < MaxTime
    /\ \A r \in Request : pending[r] # Null => now < pending[r].since + MaxLatency
    /\ now' = now + 1
    /\ UNCHANGED <<statsCache, pending, reply>>

\* The cache may be served.
Fresh == statsCache # Null /\ now - statsCache.timestamp < TTL

\* What a hit leaves in the cache: with a sliding expiry, and as it is.
HitSliding == [statsCache EXCEPT !.timestamp = now]

Hit == statsCache

\* A request finds the cache fresh and is answered from it.
GetCached(r) ==
    /\ pending[r] = Null /\ Fresh
    /\ reply' = [reply EXCEPT ![r] = [data |-> statsCache.data, at |-> now]]
    /\ statsCache' = Hit
    /\ UNCHANGED <<now, pending>>

\* A request finds the cache empty or expired and calls the node.
GetFetch(r) ==
    /\ pending[r] = Null /\ ~Fresh
    /\ pending' = [pending EXCEPT ![r] =
                      [since |-> now, waiting |-> Method,
                       data |-> [m \in Method |-> Null]]]
    /\ UNCHANGED <<now, statsCache, reply>>

\* One call returns, with an answer or, caught, with null.
CallRpc(r, m, answered) ==
    /\ pending[r] # Null /\ m \in pending[r].waiting
    /\ pending' = [pending EXCEPT
                      ![r].waiting = @ \ {m},
                      ![r].data = [@ EXCEPT ![m] = IF answered THEN now ELSE Null]]
    /\ UNCHANGED <<now, statsCache, reply>>

\* Promise.all resolves: the cache is overwritten and the request answered.
Finish(r) ==
    /\ pending[r] # Null /\ pending[r].waiting = {}
    /\ statsCache' = [data |-> pending[r].data, timestamp |-> now]
    /\ reply' = [reply EXCEPT ![r] = [data |-> pending[r].data, at |-> now]]
    /\ pending' = [pending EXCEPT ![r] = Null]
    /\ UNCHANGED now

Next ==
    \/ Tick
    \/ \E r \in Request : GetCached(r)
    \/ \E r \in Request : GetFetch(r)
    \/ \E r \in Request, m \in Method, answered \in BOOLEAN :
           CallRpc(r, m, answered)
    \/ \E r \in Request : Finish(r)

Spec == Init /\ [][Next]_vars

-----------------------------------------------------------------------------
\* However requests overlap, no value is older when it is served than the
\* cache lifetime and one refresh together.
BoundedAge ==
    \A r \in Request : reply[r] # Null =>
        \A m \in Method : reply[r].data[m] # Null =>
            reply[r].at - reply[r].data[m] < TTL + MaxLatency

\* "Return cached data if available, even if stale": a request all of whose
\* calls failed is answered with the cached data.
StaleOnFailure ==
    [][\A r \in Request :
          /\ pending[r] # Null /\ pending[r].waiting = {}
          /\ \A m \in Method : pending[r].data[m] = Null
          /\ statsCache # Null /\ pending'[r] = Null
          => reply'[r].data = statsCache.data]_vars

=============================================================================
