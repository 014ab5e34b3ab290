-------------------------- MODULE StatsCacheProofs --------------------------
(***************************************************************************)
(* BoundedAge for every number of requests and methods, every lifetime and *)
(* every latency.  The invariant follows a value on its way: a call        *)
(* answers after its refresh began, the refresh ends within MaxLatency and *)
(* stamps the cache, and the cache is served for less than TTL.            *)
(***************************************************************************)
EXTENDS StatsCache, TLAPS

Refresh == [since : Nat, waiting : SUBSET Method, data : [Method -> Nat \cup {Null}]]
Stamped == [data : [Method -> Nat \cup {Null}], timestamp : Nat]
Sent == [data : [Method -> Nat \cup {Null}], at : Nat]

StatsTypes ==
    /\ now \in Nat
    /\ statsCache \in Stamped \cup {Null}
    /\ pending \in [Request -> Refresh \cup {Null}]
    /\ reply \in [Request -> Sent \cup {Null}]

\* Every answer of a refresh under way is from its own time.
PendingOK ==
    \A r \in Request : pending[r] # Null =>
        /\ pending[r].since <= now /\ now <= pending[r].since + MaxLatency
        /\ \A m \in Method : pending[r].data[m] # Null =>
               pending[r].since <= pending[r].data[m]

\* The cached answers are at most MaxLatency older than the timestamp.
CacheOK ==
    statsCache # Null =>
        /\ statsCache.timestamp <= now
        /\ \A m \in Method : statsCache.data[m] # Null =>
               statsCache.timestamp <= statsCache.data[m] + MaxLatency

StatsInv == StatsTypes /\ PendingOK /\ CacheOK /\ BoundedAge

\* The module starts with no cache and no request.
LEMMA StatsInit == Init => StatsInv
  BY DEF Init, StatsInv, StatsTypes, PendingOK, CacheOK, BoundedAge

\* Time passes without making a pending refresh overdue.
LEMMA TickStep == StatsInv /\ Tick => StatsInv'
  BY StatsAssumption DEF StatsInv, StatsTypes, PendingOK, CacheOK, BoundedAge,
     Tick, Refresh, Stamped

\* A hit serves data that is younger than the lifetime and one refresh.
LEMMA CachedStep ==
    ASSUME StatsInv, NEW r \in Request, GetCached(r)
    PROVE  StatsInv'
<1> USE DEF StatsInv
<1>1. /\ statsCache \in Stamped /\ statsCache # Null
      /\ now - statsCache.timestamp < TTL /\ now \in Nat
      /\ statsCache' = statsCache /\ UNCHANGED <<now, pending>>
      /\ reply' = [reply EXCEPT ![r] = [data |-> statsCache.data, at |-> now]]
  BY DEF GetCached, Fresh, StatsTypes, Hit
<1> DEFINE new == [data |-> statsCache.data, at |-> now]
<1>2. new \in Sent /\ new.data = statsCache.data /\ new.at = now
  BY <1>1 DEF Stamped, Sent
<1>3. \A m \in Method : new.data[m] # Null => new.at - new.data[m] < TTL + MaxLatency
  <2> SUFFICES ASSUME NEW m \in Method, statsCache.data[m] # Null
               PROVE  now - statsCache.data[m] < TTL + MaxLatency
    BY <1>2
  <2>1. statsCache.data[m] \in Nat /\ statsCache.timestamp \in Nat
    BY <1>1 DEF Stamped
  <2>2. statsCache.timestamp <= statsCache.data[m] + MaxLatency
    BY <1>1 DEF CacheOK
  <2> QED  BY <1>1, <2>1, <2>2, StatsAssumption
<1>4. StatsTypes' /\ PendingOK' /\ CacheOK'
  BY <1>1, <1>2 DEF StatsTypes, PendingOK, CacheOK
<1> HIDE DEF new
<1>5. reply' = [reply EXCEPT ![r] = new]
  BY <1>1 DEF new
<1>6. BoundedAge'
  BY <1>3, <1>5 DEF BoundedAge, StatsTypes
<1> QED  BY <1>4, <1>6

\* A refresh starts with no answers.
LEMMA FetchStep ==
    ASSUME StatsInv, NEW r \in Request, GetFetch(r)
    PROVE  StatsInv'
<1> USE DEF StatsInv
<1> DEFINE new == [since |-> now, waiting |-> Method,
                   data |-> [m \in Method |-> Null]]
<1>1. /\ pending' = [pending EXCEPT ![r] = new]
      /\ UNCHANGED <<now, statsCache, reply>>
  BY DEF GetFetch
<1>2. /\ new \in Refresh /\ new.since = now
      /\ \A m \in Method : new.data[m] = Null
  BY DEF Refresh, StatsTypes
<1> HIDE DEF new
<1>3. StatsTypes' /\ CacheOK' /\ BoundedAge'
  BY <1>1, <1>2 DEF StatsTypes, CacheOK, BoundedAge
<1>4. PendingOK'
  BY <1>1, <1>2, StatsAssumption DEF PendingOK, StatsTypes
<1> QED  BY <1>3, <1>4

\* An answer is as old as the call that returned it.
LEMMA CallStep ==
    ASSUME StatsInv, NEW r \in Request, NEW m \in Method, NEW answered \in BOOLEAN,
           CallRpc(r, m, answered)
    PROVE  StatsInv'
<1> USE DEF StatsInv
<1> DEFINE old == pending[r]
           a == IF answered THEN now ELSE Null
           new == [old EXCEPT !.waiting = old.waiting \ {m},
                              !.data = [old.data EXCEPT ![m] = a]]
<1>1. /\ pending' = [pending EXCEPT ![r] = new] /\ old # Null
      /\ UNCHANGED <<now, statsCache, reply>>
  BY ZenonT(30) DEF CallRpc
<1>2. old \in Refresh /\ now \in Nat /\ a \in {now, Null}
  BY <1>1 DEF StatsTypes
<1>3. /\ new \in Refresh /\ new.since = old.since
      /\ \A k \in Method : new.data[k] = IF k = m THEN a ELSE old.data[k]
  BY ZenonT(30), <1>2 DEF Refresh
<1>4. /\ old.since <= now /\ now <= old.since + MaxLatency
      /\ \A k \in Method : old.data[k] # Null => old.since <= old.data[k]
  BY <1>1 DEF PendingOK
<1> HIDE DEF new, a
<1>5. \A k \in Method : new.data[k] # Null => new.since <= new.data[k]
  BY <1>2, <1>3, <1>4
<1>6. StatsTypes' /\ CacheOK' /\ BoundedAge'
  BY <1>1, <1>3 DEF StatsTypes, CacheOK, BoundedAge
<1>7. PendingOK'
  BY <1>1, <1>3, <1>4, <1>5 DEF PendingOK, StatsTypes
<1> QED  BY <1>6, <1>7

\* A finished refresh is no older than its latency when it is cached.
LEMMA FinishStep ==
    ASSUME StatsInv, NEW r \in Request, Finish(r)
    PROVE  StatsInv'
<1> USE DEF StatsInv
<1> DEFINE old == pending[r]
           stamp == [data |-> old.data, timestamp |-> now]
           new == [data |-> old.data, at |-> now]
<1>1. /\ old # Null /\ statsCache' = stamp /\ now' = now
      /\ reply' = [reply EXCEPT ![r] = new]
      /\ pending' = [pending EXCEPT ![r] = Null]
  BY DEF Finish
<1>2. old \in Refresh /\ now \in Nat
  BY <1>1 DEF StatsTypes
<1>3. /\ stamp \in Stamped /\ new \in Sent
      /\ stamp.data = old.data /\ stamp.timestamp = now
      /\ new.data = old.data /\ new.at = now
  BY <1>2 DEF Refresh, Stamped, Sent
<1>4. \A m \in Method : old.data[m] # Null =>
          /\ old.data[m] \in Nat /\ now <= old.data[m] + MaxLatency
  BY <1>1, <1>2, StatsAssumption DEF PendingOK, Refresh
<1> HIDE DEF stamp, new
<1>5. StatsTypes' /\ PendingOK'
  BY <1>1, <1>3 DEF StatsTypes, PendingOK
<1>6. CacheOK'
  BY <1>1, <1>2, <1>3, <1>4 DEF CacheOK
<1>7. \A m \in Method : new.data[m] # Null => new.at - new.data[m] < TTL + MaxLatency
  BY <1>2, <1>3, <1>4, StatsAssumption
<1>8. BoundedAge'
  BY <1>1, <1>7 DEF BoundedAge, StatsTypes
<1> QED  BY <1>5, <1>6, <1>8

\* StatsInv is inductive: one case per step of a handler.
LEMMA StatsStep == StatsInv /\ [Next]_vars => StatsInv'
<1> SUFFICES ASSUME StatsInv, [Next]_vars PROVE StatsInv'
  OBVIOUS
<1>1. CASE UNCHANGED vars
  BY <1>1 DEF vars, StatsInv, StatsTypes, PendingOK, CacheOK, BoundedAge
<1>2. CASE Next
  BY <1>2, TickStep, CachedStep, FetchStep, CallStep, FinishStep DEF Next
<1> QED  BY <1>1, <1>2

\* No statistic is served older than the cache lifetime and one refresh.
THEOREM StatsBoundedAge == Spec => []BoundedAge
<1>1. StatsInv => BoundedAge
  BY DEF StatsInv
<1> QED  BY <1>1, StatsInit, StatsStep, PTL DEF Spec

=============================================================================
