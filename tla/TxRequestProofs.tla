-------------------------- MODULE TxRequestProofs ---------------------------
(***************************************************************************)
(* For every set of transactions, peers and times: the assertions of       *)
(* SanityCheck hold, no round of SetTimePoint undoes another, the answers  *)
(* of GetRequestable can be acted on while they stand, and they are those  *)
(* that TxTracker promises.                                                *)
(*                                                                         *)
(* The assertions are about one hash at a time and are inductive: each of  *)
(* the operations on a row keeps them.  That the best of the ready         *)
(* announcements exists and is only one rests on the priorities, which are *)
(* bounded and differ from peer to peer.                                   *)
(***************************************************************************)
EXTENDS TxRequest, WellFoundedInduction, TLAPS

Active == Candidates \cup {"REQUESTED"}
States == Candidates \cup {"REQUESTED", "COMPLETED"}
Rows == [Peer -> Announcement \cup {None}]

RowOK(t, row) ==
  /\ (\E p \in Peer : row[p] # None) => In(row, Active) # {}
  /\ \A p, q \in In(row, Selected) : p = q
  /\ In(row, {"CANDIDATE_READY"}) # {} => In(row, Selected) # {}
  /\ \A p \in In(row, {"CANDIDATE_READY"}), q \in In(row, {"CANDIDATE_BEST"}) :
       Priority(t, row, p) <= Priority(t, row, q)

TrackerInv == TypeOK /\ SanityCheck

\* A new row with the peers and the preferences of an old one.
SameBut(row, new) ==
  \A q \in Peer : (new[q] = None <=> row[q] = None)
                  /\ (row[q] # None => new[q].preferred = row[q].preferred)

-----------------------------------------------------------------------------
\* An announcement in another state.
With(a, s) == [a EXCEPT !.state = s]

LEMMA AnnouncementFacts ==
  /\ \A a \in Announcement : a # None /\ a.state \in States /\ a.time \in Time
       /\ a.preferred \in BOOLEAN
  /\ \A a \in Announcement, s \in States :
       /\ With(a, s) \in Announcement
       /\ With(a, s).state = s /\ With(a, s).time = a.time /\ With(a, s).preferred = a.preferred
<1>1. None \notin Announcement
  BY TxRequestAssumption DEF Announcement
<1> QED BY <1>1 DEF Announcement, States, With

LEMMA SanityRows ==
  ASSUME m_index \in [Tx -> Rows]
  PROVE  SanityCheck <=> \A t \in Tx : RowOK(t, m_index[t])
<1>1. ASSUME NEW t \in Tx
      PROVE  m_index[t] # Forgotten <=> \E p \in Peer : m_index[t][p] # None
  BY DEF Forgotten, Rows
<1> QED BY ZenonT(30), <1>1 DEF SanityCheck, RowOK, Active

LEMMA PriorityNat ==
  ASSUME NEW t \in Tx, NEW row \in Rows, NEW p \in Peer, row[p] # None
  PROVE  Priority(t, row, p) \in Nat /\ Priority(t, row, p) <= 2 * Preference
<1>1. Rank[t][p] \in 0 .. Preference - 1 /\ Preference \in Nat
  BY TxRequestAssumption
<1> QED BY <1>1 DEF Priority

\* Two peers have different priorities.
LEMMA PriorityInjective ==
  ASSUME NEW t \in Tx, NEW row \in Rows, NEW p \in Peer, NEW q \in Peer,
         row[p] # None, row[q] # None, Priority(t, row, p) = Priority(t, row, q)
  PROVE  p = q
<1>1. /\ Rank[t][p] \in 0 .. Preference - 1 /\ Rank[t][q] \in 0 .. Preference - 1
      /\ Preference \in Nat
  BY TxRequestAssumption
<1>2. Rank[t][p] = Rank[t][q]
  BY <1>1 DEF Priority
<1> QED BY <1>2, TxRequestAssumption

\* The next best announcement is one, if one is ready.
LEMMA NextBestOne ==
  ASSUME NEW t \in Tx, NEW row \in Rows
  PROVE  /\ \A p, q \in NextBest(t, row) : p = q
         /\ In(row, {"CANDIDATE_READY"}) # {} => NextBest(t, row) # {}
<1> DEFINE R == In(row, {"CANDIDATE_READY"})
           B == 2 * Preference
<1>1. \A p \in R : p \in Peer /\ row[p] # None
  BY DEF In
<1>2. \A p \in R : Priority(t, row, p) \in Nat /\ Priority(t, row, p) <= B
  BY <1>1, PriorityNat
<1>3. B \in Nat
  BY TxRequestAssumption
<1> HIDE DEF R, B
<1>4. ASSUME NEW p \in NextBest(t, row), NEW q \in NextBest(t, row) PROVE p = q
  <2>1. p \in R /\ q \in R /\ Priority(t, row, p) <= Priority(t, row, q)
        /\ Priority(t, row, q) <= Priority(t, row, p)
    BY DEF NextBest, R
  <2>2. Priority(t, row, p) = Priority(t, row, q)
    BY <1>2, <2>1
  <2> QED BY ZenonT(30), <1>1, <2>1, <2>2, PriorityInjective
<1>5. ASSUME R # {} PROVE NextBest(t, row) # {}
  <2> DEFINE S == {B - Priority(t, row, p) : p \in R}
  <2>1. S \subseteq Nat /\ S # {}
    BY <1>2, <1>3, <1>5
  <2>2. PICK m \in S : \A n \in S : ~(n < m)
    <3>1. IsWellFoundedOn(OpToRel(<, Nat), Nat)
      BY ZenonT(30), NatLessThanWellFounded
    <3>2. \E m \in S : \A n \in S : ~(<<n, m>> \in OpToRel(<, Nat))
      BY ZenonT(30), <2>1, <3>1, WFMin
    <3> QED BY ZenonT(30), <2>1, <3>2 DEF OpToRel
  <2>3. PICK p \in R : m = B - Priority(t, row, p)
    BY <2>2
  <2>4. ASSUME NEW q \in R PROVE Priority(t, row, q) <= Priority(t, row, p)
    <3>1. ~(B - Priority(t, row, q) < B - Priority(t, row, p))
      BY <2>2, <2>3
    <3> QED BY <1>2, <1>3, <3>1
  <2>5. p \in NextBest(t, row)
    BY <2>4 DEF NextBest, R
  <2> QED BY <2>5
<1> QED BY <1>4, <1>5 DEF R

LEMMA SamePriority ==
  ASSUME NEW t \in Tx, NEW row, NEW new, SameBut(row, new), NEW p \in Peer, row[p] # None
  PROVE  Priority(t, new, p) = Priority(t, row, p)
BY DEF SameBut, Priority

-----------------------------------------------------------------------------
\* ChangeAndReselect keeps a row in order, if an announcement that is not
\* completed is left.
LEMMA ReselectRow ==
  ASSUME NEW t \in Tx, NEW row \in Rows, RowOK(t, row), NEW p \in Peer, row[p] # None,
         NEW state \in {"COMPLETED", "CANDIDATE_DELAYED"},
         state = "COMPLETED" => \E q \in In(row, Active) : q # p
  PROVE  /\ ChangeAndReselect(t, row, p, state) \in Rows
         /\ RowOK(t, ChangeAndReselect(t, row, p, state))
         /\ SameBut(row, ChangeAndReselect(t, row, p, state))
<1> DEFINE new == ChangeAndReselect(t, row, p, state)
           N == NextBest(t, row)
           moved == p \in In(row, Selected)
<1>1. N \subseteq In(row, {"CANDIDATE_READY"}) /\ N \subseteq Peer
  BY DEF NextBest, In
<1>2. state \in States /\ "CANDIDATE_BEST" \in States
  BY DEF States, Candidates
<1>3. \A q \in Peer : row[q] # None => row[q] \in Announcement
  BY DEF Rows
<1>4. \A q \in Peer : new[q] = IF q = p THEN With(row[q], state)
                               ELSE IF moved /\ q \in N THEN With(row[q], "CANDIDATE_BEST")
                               ELSE row[q]
  BY DEF ChangeAndReselect, With
<1>5. \A q \in N : row[q] # None /\ row[q].state = "CANDIDATE_READY"
  BY <1>1 DEF In
<1>6. new \in Rows
  <2>1. new = [q \in Peer |-> new[q]]
    BY DEF ChangeAndReselect
  <2>2. \A q \in Peer : new[q] \in Announcement \cup {None}
    BY <1>1, <1>2, <1>3, <1>4, <1>5, AnnouncementFacts DEF Rows
  <2> HIDE DEF new
  <2> QED BY <2>1, <2>2 DEF Rows
<1> HIDE DEF new, N, moved
<1>7. SameBut(row, new)
  <2> SUFFICES ASSUME NEW q \in Peer
               PROVE  /\ new[q] = None <=> row[q] = None
                      /\ row[q] # None => new[q].preferred = row[q].preferred
    BY ZenonT(30) DEF SameBut
  <2>1. CASE row[q] = None
    BY ZenonT(30), <1>4, <1>5, <2>1
  <2>2. CASE row[q] # None
    <3>1. row[q] \in Announcement
      BY ZenonT(30), <1>3, <2>2
    <3>2. \/ new[q] = row[q]
          \/ \E s \in States : new[q] = With(row[q], s)
      BY ZenonT(30), <1>2, <1>4
    <3> QED BY <2>2, <3>1, <3>2, AnnouncementFacts
  <2> QED BY ZenonT(30), <2>1, <2>2
<1>8. \A q \in Peer : row[q] # None =>
        new[q].state = IF q = p THEN state ELSE IF moved /\ q \in N THEN "CANDIDATE_BEST"
                       ELSE row[q].state
  BY <1>2, <1>3, <1>4, AnnouncementFacts
<1>9. \A S : In(new, S) = {q \in Peer : row[q] # None /\ new[q].state \in S}
  BY <1>7 DEF In, SameBut
<1>10. In(new, Active) # {}
  <2>1. CASE state = "COMPLETED"
    <3>1. PICK q \in In(row, Active) : q # p
      BY <2>1
    <3>2. q \in In(new, Active)
      BY ZenonT(30), <1>8, <1>9, <3>1 DEF In, Active, Candidates
    <3> QED BY <3>2
  <2>2. CASE state = "CANDIDATE_DELAYED"
    BY <1>8, <1>9, <2>2 DEF Active, Candidates
  <2> QED BY <2>1, <2>2
<1>11. ASSUME moved PROVE RowOK(t, new)
  <2>1. p \notin N /\ \A q \in In(row, Selected) : q = p
    BY <1>5, <1>11 DEF RowOK, In, Selected, moved
  <2>2. In(new, Selected) = N
    <3>1. \A q \in N : q \in In(new, Selected)
      BY <1>1, <1>5, <1>8, <1>9, <1>11, <2>1 DEF Selected
    <3>2. \A q \in In(new, Selected) : q \in N
      <4> SUFFICES ASSUME NEW q \in In(new, Selected), q \notin N PROVE FALSE
        OBVIOUS
      <4>1. q \in Peer /\ row[q] # None /\ new[q].state \in Selected
        BY <1>9
      <4>2. q # p
        BY <1>8, <4>1 DEF Selected
      <4>3. q \in In(row, Selected)
        BY <1>8, <4>1, <4>2 DEF In
      <4> QED BY <2>1, <4>2, <4>3
    <3> QED BY <3>1, <3>2
  <2>3. In(new, {"CANDIDATE_READY"}) \subseteq In(row, {"CANDIDATE_READY"})
    BY ZenonT(30), <1>8, <1>9 DEF In
  <2>4. In(new, {"CANDIDATE_BEST"}) \subseteq N
    BY <2>2 DEF In, Selected
  <2>5. ASSUME NEW r \in In(new, {"CANDIDATE_READY"}), NEW b \in In(new, {"CANDIDATE_BEST"})
        PROVE  Priority(t, new, r) <= Priority(t, new, b)
    <3>1. Priority(t, row, r) <= Priority(t, row, b)
      BY <2>3, <2>4 DEF NextBest, N
    <3>2. r \in Peer /\ row[r] # None /\ b \in Peer /\ row[b] # None
      BY <1>9
    <3> QED BY <1>7, <3>1, <3>2, SamePriority
  <2>6. /\ \A q, r \in N : q = r
        /\ In(row, {"CANDIDATE_READY"}) # {} => N # {}
    BY NextBestOne DEF N
  <2> QED BY <1>10, <2>2, <2>3, <2>5, <2>6 DEF RowOK
<1>12. ASSUME ~moved PROVE RowOK(t, new)
  <2>1. In(new, Selected) = In(row, Selected)
    BY ZenonT(30), <1>8, <1>9, <1>12 DEF In, Selected, moved
  <2>2. In(new, {"CANDIDATE_READY"}) \subseteq In(row, {"CANDIDATE_READY"})
    BY ZenonT(30), <1>8, <1>9, <1>12 DEF In
  <2>3. In(new, {"CANDIDATE_BEST"}) \subseteq In(row, {"CANDIDATE_BEST"})
    BY ZenonT(30), <1>8, <1>9, <1>12 DEF In
  <2>4. ASSUME NEW r \in In(new, {"CANDIDATE_READY"}), NEW b \in In(new, {"CANDIDATE_BEST"})
        PROVE  Priority(t, new, r) <= Priority(t, new, b)
    <3>1. Priority(t, row, r) <= Priority(t, row, b)
      BY <2>2, <2>3 DEF RowOK
    <3>2. r \in Peer /\ row[r] # None /\ b \in Peer /\ row[b] # None
      BY <1>9
    <3> QED BY <1>7, <3>1, <3>2, SamePriority
  <2> QED BY <1>10, <2>1, <2>2, <2>4 DEF RowOK
<1> QED BY ZenonT(30), <1>6, <1>7, <1>11, <1>12 DEF new

LEMMA ForgottenRow == Forgotten \in Rows /\ \A t \in Tx : RowOK(t, Forgotten)
BY DEF Forgotten, Rows, RowOK, In

LEMMA CompletedRow ==
  ASSUME NEW t \in Tx, NEW row \in Rows, RowOK(t, row), NEW p \in Peer, row[p] # None
  PROVE  /\ MakeCompleted(t, row, p) \in Rows /\ RowOK(t, MakeCompleted(t, row, p))
         /\ \/ MakeCompleted(t, row, p)[p] = None
            \/ MakeCompleted(t, row, p)[p].state = "COMPLETED"
<1>1. CASE row[p].state = "COMPLETED"
  BY <1>1 DEF MakeCompleted
<1>2. CASE row[p].state # "COMPLETED" /\ IsOnlyNonCompleted(row, p)
  BY ZenonT(30), <1>2, ForgottenRow DEF MakeCompleted, Forgotten
<1>3. CASE row[p].state # "COMPLETED" /\ ~IsOnlyNonCompleted(row, p)
  <2>1. row[p].state \in States
    BY AnnouncementFacts DEF Rows
  <2>2. p \in In(row, Active)
    BY <1>3, <2>1 DEF In, Active, States
  <2>3. \E q \in In(row, Active) : q # p
    BY <1>3, <2>2 DEF IsOnlyNonCompleted, Active
  <2>4. MakeCompleted(t, row, p) = ChangeAndReselect(t, row, p, "COMPLETED")
    BY <1>3 DEF MakeCompleted
  <2>5. ChangeAndReselect(t, row, p, "COMPLETED")[p] = With(row[p], "COMPLETED")
    BY DEF ChangeAndReselect, With
  <2>6. With(row[p], "COMPLETED").state = "COMPLETED"
    BY AnnouncementFacts DEF Rows, States
  <2> QED BY ZenonT(30), <2>3, <2>4, <2>5, <2>6, ReselectRow
<1> QED BY <1>1, <1>2, <1>3

\* A new row made of the announcements of an old one in other states.
LEMMA RestatedRow ==
  ASSUME NEW row \in Rows, NEW new, new = [q \in Peer |-> new[q]],
         NEW f \in [Peer -> States],
         \A q \in Peer : new[q] = row[q] \/ (row[q] # None /\ new[q] = With(row[q], f[q]))
  PROVE  new \in Rows /\ SameBut(row, new)
<1>1. ASSUME NEW q \in Peer
      PROVE  /\ new[q] \in Announcement \cup {None} /\ (new[q] = None <=> row[q] = None)
             /\ row[q] # None => new[q].preferred = row[q].preferred
  <2>1. row[q] # None => row[q] \in Announcement
    BY DEF Rows
  <2>2. f[q] \in States
    OBVIOUS
  <2>3. CASE new[q] = row[q]
    BY <2>3 DEF Rows
  <2>4. CASE row[q] # None /\ new[q] = With(row[q], f[q])
    BY <2>1, <2>2, <2>4, AnnouncementFacts
  <2> QED BY <2>3, <2>4
<1> QED BY <1>1 DEF Rows, SameBut

\* A row with one announcement in another state.
LEMMA SetStateRow ==
  ASSUME NEW row \in Rows, NEW p \in Peer, row[p] # None, NEW s \in States
  PROVE  /\ SetState(row, p, s) \in Rows /\ SameBut(row, SetState(row, p, s))
         /\ \A q \in Peer : row[q] # None =>
              SetState(row, p, s)[q].state = IF q = p THEN s ELSE row[q].state
<1> DEFINE new == SetState(row, p, s)
           f == [q \in Peer |-> s]
<1>1. \A q \in Peer : new[q] = IF q = p THEN With(row[q], s) ELSE row[q]
  BY DEF SetState, With, Rows
<1>2. new = [q \in Peer |-> new[q]]
  BY ZenonT(30) DEF SetState, Rows
<1>3. f \in [Peer -> States]
  OBVIOUS
<1>4. \A q \in Peer : row[q] # None => row[q] \in Announcement
  BY DEF Rows
<1> HIDE DEF new
<1>5. new \in Rows /\ SameBut(row, new)
  <2>1. \A q \in Peer : f[q] = s
    OBVIOUS
  <2> HIDE DEF f
  <2>2. \A q \in Peer : new[q] = row[q] \/ (row[q] # None /\ new[q] = With(row[q], f[q]))
    BY <1>1, <2>1
  <2> QED BY <1>2, <1>3, <2>2, RestatedRow
<1>6. \A q \in Peer : row[q] # None => new[q].state = IF q = p THEN s ELSE row[q].state
  BY <1>1, <1>4, AnnouncementFacts
<1> QED BY <1>5, <1>6 DEF new

LEMMA InSame ==
  ASSUME NEW row, NEW new, SameBut(row, new)
  PROVE  \A S : In(new, S) = {q \in Peer : row[q] # None /\ new[q].state \in S}
BY DEF In, SameBut

\* PromoteCandidateReady keeps a row in order.
LEMMA PromotedRow ==
  ASSUME NEW t \in Tx, NEW row \in Rows, RowOK(t, row), NEW p \in Peer, row[p] # None,
         row[p].state = "CANDIDATE_DELAYED"
  PROVE  /\ PromoteCandidateReady(t, row, p) \in Rows
         /\ RowOK(t, PromoteCandidateReady(t, row, p))
         /\ SameBut(row, PromoteCandidateReady(t, row, p))
<1> DEFINE new == PromoteCandidateReady(t, row, p)
           R == In(row, {"CANDIDATE_READY"})
           best == In(row, {"CANDIDATE_BEST"})
           Better(q) == Priority(t, row, q) > Priority(t, row, p)
<1>1. /\ \A q \in R : q \in Peer /\ row[q] # None /\ row[q].state = "CANDIDATE_READY"
      /\ \A q \in best : q \in Peer /\ row[q] # None /\ row[q].state = "CANDIDATE_BEST"
      /\ best \subseteq In(row, Selected) /\ p \notin R /\ p \notin best
  BY DEF In, Selected
<1>2. \A q \in Peer : row[q] # None => Priority(t, row, q) \in Int
  BY PriorityNat
<1>3. "CANDIDATE_READY" \in States /\ "CANDIDATE_BEST" \in States
  BY DEF States, Candidates
<1>4. \A q \in Peer : row[q] # None => row[q] \in Announcement
  BY ZenonT(30) DEF Rows
<1>5. ASSUME new = SetState(row, p, "CANDIDATE_READY"), In(row, Selected) # {},
             \A q \in best : Better(q)
      PROVE  new \in Rows /\ RowOK(t, new) /\ SameBut(row, new)
  <2> HIDE DEF new
  <2>1. /\ new \in Rows /\ SameBut(row, new)
        /\ \A q \in Peer : row[q] # None =>
             new[q].state = IF q = p THEN "CANDIDATE_READY" ELSE row[q].state
    BY <1>3, <1>5, SetStateRow
  <2>2. \A S : In(new, S) = {q \in Peer : row[q] # None /\ new[q].state \in S}
    BY <2>1, InSame
  <2>3. p \in In(new, Active)
    BY <2>1, <2>2 DEF Active, Candidates
  <2>4. In(new, Selected) = In(row, Selected) /\ In(new, {"CANDIDATE_BEST"}) = best
    BY ZenonT(30), <2>1, <2>2 DEF In, Selected
  <2>5. In(new, {"CANDIDATE_READY"}) \subseteq R \cup {p}
    BY ZenonT(30), <2>1, <2>2 DEF In
  <2>6. ASSUME NEW r \in R \cup {p}, NEW b \in best
        PROVE  Priority(t, new, r) <= Priority(t, new, b)
    <3>1. Priority(t, row, r) <= Priority(t, row, b)
      <4>1. CASE r = p
        BY <1>1, <1>2, <1>5, <4>1
      <4>2. CASE r \in R
        BY ZenonT(30), <4>2 DEF RowOK
      <4> QED BY ZenonT(30), <4>1, <4>2
    <3> QED BY <1>1, <2>1, <3>1, SamePriority
  <2> QED BY ZenonT(30), <1>5, <2>1, <2>3, <2>4, <2>5, <2>6 DEF RowOK
<1>6. CASE \E q \in R : Better(q)
  <2>1. new = SetState(row, p, "CANDIDATE_READY")
    BY ZenonT(30), <1>6 DEF PromoteCandidateReady
  <2>2. In(row, Selected) # {}
    BY <1>6 DEF RowOK
  <2>3. \A b \in best : Better(b)
    BY <1>1, <1>2, <1>6 DEF RowOK
  <2> QED BY ZenonT(30), <1>5, <2>1, <2>2, <2>3
<1>7. CASE (\A q \in R : ~Better(q)) /\ In(row, Selected) = {}
  <2>1. new = SetState(row, p, "CANDIDATE_BEST")
    BY <1>7 DEF PromoteCandidateReady
  <2> HIDE DEF new
  <2>2. /\ new \in Rows /\ SameBut(row, new)
        /\ \A q \in Peer : row[q] # None =>
             new[q].state = IF q = p THEN "CANDIDATE_BEST" ELSE row[q].state
    BY <1>3, <2>1, SetStateRow
  <2>3. \A S : In(new, S) = {q \in Peer : row[q] # None /\ new[q].state \in S}
    BY <2>2, InSame
  <2>4. R = {}
    BY <1>7 DEF RowOK
  <2>5. In(new, {"CANDIDATE_READY"}) = {}
    BY ZenonT(30), <2>2, <2>3, <2>4 DEF In
  <2>6. In(new, Selected) = {p} /\ p \in In(new, Active)
    <3>1. p \in In(new, Selected) /\ p \in In(new, Active)
      BY ZenonT(30), <2>2, <2>3 DEF Selected, Active, Candidates
    <3>2. \A q \in In(new, Selected) : q # p => q \in In(row, Selected)
      BY ZenonT(30), <2>2, <2>3 DEF In
    <3> QED BY <1>7, <3>1, <3>2
  <2>7. RowOK(t, new)
    BY ZenonT(30), <2>5, <2>6 DEF RowOK
  <2> QED BY <2>2, <2>7 DEF new
<1>8. CASE (\A q \in R : ~Better(q)) /\ best # {} /\ \A q \in best : ~Better(q)
  <2>1. In(row, Selected) # {} /\ \A q \in In(row, Selected) : q \in best
    BY <1>1, <1>8 DEF RowOK
  <2>2. new = [q \in Peer |-> CASE q = p -> [row[q] EXCEPT !.state = "CANDIDATE_BEST"]
                                [] q \in best -> [row[q] EXCEPT !.state = "CANDIDATE_READY"]
                                [] OTHER -> row[q]]
    BY <1>8, <2>1 DEF PromoteCandidateReady
  <2> DEFINE f == [q \in Peer |-> IF q = p THEN "CANDIDATE_BEST" ELSE "CANDIDATE_READY"]
  <2>3. \A q \in Peer : new[q] = IF q = p \/ q \in best THEN With(row[q], f[q]) ELSE row[q]
    BY <1>1, <2>2 DEF With
  <2>4. new = [q \in Peer |-> new[q]]
    BY <2>2
  <2>5. f \in [Peer -> States] /\ \A q \in Peer : f[q] = IF q = p THEN "CANDIDATE_BEST" ELSE "CANDIDATE_READY"
    BY <1>3
  <2> HIDE DEF new, f
  <2>6. new \in Rows /\ SameBut(row, new)
    <3>1. \A q \in Peer : new[q] = row[q] \/ (row[q] # None /\ new[q] = With(row[q], f[q]))
      BY <1>1, <2>3
    <3> QED BY ZenonT(30), <2>4, <2>5, <3>1, RestatedRow
  <2>7. \A q \in Peer : row[q] # None =>
          new[q].state = IF q = p THEN "CANDIDATE_BEST" ELSE IF q \in best THEN "CANDIDATE_READY"
                         ELSE row[q].state
    <3> SUFFICES ASSUME NEW q \in Peer, row[q] # None
                 PROVE  new[q].state = IF q = p THEN "CANDIDATE_BEST"
                                       ELSE IF q \in best THEN "CANDIDATE_READY" ELSE row[q].state
      OBVIOUS
    <3>1. f[q] \in States /\ row[q] \in Announcement
      BY <1>4, <2>5
    <3>2. With(row[q], f[q]).state = f[q]
      BY <3>1, AnnouncementFacts
    <3> QED BY <2>3, <2>5, <3>2
  <2>8. \A S : In(new, S) = {q \in Peer : row[q] # None /\ new[q].state \in S}
    BY <2>6, InSame
  <2>9. In(new, Selected) = {p} /\ p \in In(new, Active)
    <3>1. p \in In(new, Selected) /\ p \in In(new, Active)
      BY <2>7, <2>8 DEF Selected, Active, Candidates
    <3>2. ASSUME NEW q \in In(new, Selected), q # p PROVE FALSE
      <4>1. q \in Peer /\ row[q] # None /\ new[q].state \in Selected
        BY ZenonT(30), <2>8
      <4>2. q \notin best /\ row[q].state \in Selected
        BY <2>7, <3>2, <4>1 DEF Selected
      <4> QED BY <2>1, <4>1, <4>2 DEF In
    <3> QED BY ZenonT(30), <3>1, <3>2
  <2>10. In(new, {"CANDIDATE_READY"}) \subseteq R \cup best
    BY ZenonT(30), <2>7, <2>8 DEF In
  <2>11. In(new, {"CANDIDATE_BEST"}) \subseteq {p}
    BY <2>9 DEF In, Selected
  <2>12. ASSUME NEW r \in R \cup best PROVE Priority(t, new, r) <= Priority(t, new, p)
    <3>1. Priority(t, row, r) <= Priority(t, row, p)
      BY <1>1, <1>2, <1>8
    <3> QED BY <1>1, <2>6, <3>1, SamePriority
  <2>13. RowOK(t, new)
    BY ZenonT(30), <2>9, <2>10, <2>11, <2>12 DEF RowOK
  <2> QED BY <2>6, <2>13 DEF new
<1>9. CASE /\ \A q \in R : ~Better(q)
           /\ In(row, Selected) # {}
           /\ best = {} \/ \E q \in best : Better(q)
  <2>1. new = SetState(row, p, "CANDIDATE_READY")
    BY <1>9 DEF PromoteCandidateReady
  <2>2. \A b \in best : Better(b)
    BY <1>1, <1>9 DEF RowOK
  <2> QED BY <1>5, <1>9, <2>1, <2>2
<1>10. best # {} => In(row, Selected) # {}
  BY <1>1
<1> QED BY ZenonT(30), <1>6, <1>7, <1>8, <1>9, <1>10

LEMMA RequestedRowOK ==
  ASSUME m_index \in [Tx -> Rows], NEW t \in Tx, RowOK(t, m_index[t]), NEW expiry \in Time,
         NEW p \in In(m_index[t], Candidates)
  PROVE  RequestedRow(t, p, expiry) \in Rows /\ RowOK(t, RequestedRow(t, p, expiry))
<1> DEFINE row == m_index[t]
           new == RequestedRow(t, p, expiry)
           asked == [row[p] EXCEPT !.state = "REQUESTED", !.time = expiry]
           f == [q \in Peer |-> IF q \in In(row, {"CANDIDATE_BEST"}) THEN "CANDIDATE_READY"
                                ELSE "COMPLETED"]
           moved == In(row, {"CANDIDATE_BEST", "REQUESTED"})
<1>1. row \in Rows /\ p \in Peer /\ row[p] \in Announcement
  BY DEF In, Rows
<1>2. asked \in Announcement /\ asked.state = "REQUESTED" /\ asked.preferred = row[p].preferred
  BY ZenonT(30), <1>1 DEF Announcement
<1>3. f \in [Peer -> States]
  BY ZenonT(30) DEF States, Candidates
<1>4. /\ new = [q \in Peer |-> new[q]] /\ new[p] = asked
      /\ \A q \in Peer : q # p => new[q] = IF q \in moved THEN With(row[q], f[q]) ELSE row[q]
  BY <1>1 DEF RequestedRow, With, In
<1>5. \A q \in Peer : row[q] # None => row[q] \in Announcement
  BY <1>1 DEF Rows
<1>6. \A q \in moved : q \in Peer /\ row[q] # None
  BY DEF In
<1>7. \A q \in Peer : f[q] # "REQUESTED" /\ f[q] # "CANDIDATE_BEST" /\ f[q] \in States
  BY <1>3
<1> HIDE DEF row, new, asked, f, moved
<1>8. \A q \in Peer : new[q] \in Announcement \cup {None}
  BY <1>1, <1>2, <1>4, <1>5, <1>6, <1>7, AnnouncementFacts DEF Rows
<1>9. new \in Rows
  BY <1>4, <1>8 DEF Rows
<1>10. \A q \in In(new, Selected) : q = p
  <2> SUFFICES ASSUME NEW q \in In(new, Selected), q # p PROVE FALSE
    OBVIOUS
  <2>1. q \in Peer /\ new[q] # None /\ new[q].state \in Selected
    BY DEF In
  <2>2. CASE q \in moved
    BY <1>4, <1>5, <1>6, <1>7, <2>1, <2>2, AnnouncementFacts DEF Selected
  <2>3. CASE q \notin moved
    BY ZenonT(30), <1>4, <2>1, <2>3 DEF In, Selected, moved
  <2> QED BY <2>2, <2>3
<1>11. p \in In(new, Selected) /\ p \in In(new, Active) /\ p \notin In(new, {"CANDIDATE_BEST"})
  <2>1. new[p] # None /\ new[p].state = "REQUESTED"
    BY <1>2, <1>4, AnnouncementFacts
  <2> QED BY <1>1, <2>1 DEF In, Selected, Active
<1>12. In(new, {"CANDIDATE_BEST"}) \subseteq In(new, Selected)
  BY DEF In, Selected
<1>13. RowOK(t, new)
  BY <1>10, <1>11, <1>12 DEF RowOK
<1> QED BY <1>9, <1>13 DEF new

\* A row in which the announcement of one peer changes between none and one that
\* is neither ready nor selected.
LEMMA PlainChange ==
  ASSUME NEW t \in Tx, NEW row \in Rows, RowOK(t, row), NEW p \in Peer,
         row[p] = None \/ row[p].state = "COMPLETED",
         NEW a \in Announcement \cup {None}, a = None \/ a.state = "CANDIDATE_DELAYED",
         NEW new, new = [row EXCEPT ![p] = a]
  PROVE  new \in Rows /\ RowOK(t, new)
<1>1. new \in Rows /\ \A q \in Peer : new[q] = IF q = p THEN a ELSE row[q]
  BY DEF Rows
<1>2. /\ In(new, Selected) = In(row, Selected)
      /\ In(new, {"CANDIDATE_READY"}) = In(row, {"CANDIDATE_READY"})
      /\ In(new, {"CANDIDATE_BEST"}) = In(row, {"CANDIDATE_BEST"})
  BY <1>1 DEF In, Selected
<1>3. (\E q \in Peer : new[q] # None) => In(new, Active) # {}
  <2>1. In(row, Active) \subseteq In(new, Active)
    BY <1>1 DEF In, Active, Candidates
  <2>2. a # None => p \in In(new, Active)
    BY <1>1 DEF In, Active, Candidates
  <2>3. a = None /\ (\E q \in Peer : new[q] # None) => \E q \in Peer : row[q] # None
    BY <1>1
  <2> QED BY ZenonT(30), <2>1, <2>2, <2>3, <1>1 DEF RowOK
<1>4. ASSUME NEW q \in In(row, {"CANDIDATE_READY"}) \cup In(row, {"CANDIDATE_BEST"})
      PROVE  Priority(t, new, q) = Priority(t, row, q)
  BY <1>1 DEF In, Priority
<1> QED BY ZenonT(30), <1>1, <1>2, <1>3, <1>4 DEF RowOK

LEMMA DisconnectedRowOK ==
  ASSUME m_index \in [Tx -> Rows], NEW t \in Tx, RowOK(t, m_index[t]), NEW p \in Peer
  PROVE  DisconnectedReselect(t, p) \in Rows /\ RowOK(t, DisconnectedReselect(t, p))
<1>1. CASE m_index[t][p] = None
  BY <1>1 DEF DisconnectedReselect
<1>2. CASE m_index[t][p] # None
  <2> DEFINE mc == MakeCompleted(t, m_index[t], p)
  <2>1. mc \in Rows /\ RowOK(t, mc) /\ (mc[p] = None \/ mc[p].state = "COMPLETED")
    BY <1>2, CompletedRow
  <2>2. DisconnectedReselect(t, p) = [mc EXCEPT ![p] = None]
    BY <1>2 DEF DisconnectedReselect
  <2> QED BY ZenonT(30), <2>1, <2>2, PlainChange
<1> QED BY <1>1, <1>2

-----------------------------------------------------------------------------
\* The types, hash by hash.
Types ==
  /\ m_index \in [Tx -> Rows] /\ asker \in Peer \cup {None} /\ now \in Time
  /\ loop \in {"none", "past", "future"} /\ (loop = "none" <=> asker = None)
  /\ offered \subseteq Peer \X Tx

Ordered == Types /\ \A t \in Tx : RowOK(t, m_index[t])

LEMMA OrderedInv == (TrackerInv <=> Ordered) /\ (TrackerInv <=> Ordered)'
<1>1. TypeOK <=> Types
  BY DEF TypeOK, Types, Rows
<1>2. TrackerInv <=> Ordered
  BY ZenonT(30), <1>1, SanityRows DEF TrackerInv, Ordered, Types
<1> QED BY <1>2, PTL

\* One row changes.
LEMMA RowStep ==
  ASSUME Ordered, NEW t \in Tx, NEW new \in Rows, RowOK(t, new),
         m_index' = [m_index EXCEPT ![t] = new]
  PROVE  m_index' \in [Tx -> Rows] /\ (\A u \in Tx : RowOK(u, m_index[u]))'
<1>1. m_index' \in [Tx -> Rows] /\ \A u \in Tx : m_index'[u] = IF u = t THEN new ELSE m_index[u]
  BY DEF Ordered, Types
<1> QED BY <1>1 DEF Ordered, RowOK, In, Priority

LEMMA InitOrdered == Init => Ordered
<1> SUFFICES ASSUME Init PROVE Ordered
  OBVIOUS
<1>1. m_index \in [Tx -> Rows] /\ \A t \in Tx : m_index[t] = Forgotten
  BY ForgottenRow DEF Init
<1>2. Types
  BY ZenonT(30), <1>1, TxRequestAssumption DEF Types, Init
<1> QED BY <1>1, <1>2, ForgottenRow DEF Ordered, Init

LEMMA OrderedStep ==
  ASSUME Ordered, [Next]_vars
  PROVE  Ordered'
<1>1. Types /\ \A t \in Tx : RowOK(t, m_index[t])
  BY DEF Ordered
<1>2. /\ m_index \in [Tx -> Rows] /\ asker \in Peer \cup {None} /\ now \in Time
      /\ loop \in {"none", "past", "future"} /\ (loop = "none" <=> asker = None)
      /\ offered \subseteq Peer \X Tx
  BY ZenonT(30), <1>1 DEF Types
<1>3. ASSUME m_index' \in [Tx -> Rows], (\A t \in Tx : RowOK(t, m_index[t]))',
             asker' = asker, now' = now, loop' = loop, offered' \subseteq offered
      PROVE  Ordered'
  BY ZenonT(30), <1>2, <1>3 DEF Ordered, Types
<1>4. ASSUME m_index' = m_index
      PROVE  m_index' \in [Tx -> Rows] /\ (\A t \in Tx : RowOK(t, m_index[t]))'
  BY ZenonT(30), <1>1, <1>2, <1>4 DEF RowOK, In, Priority
<1>5. ASSUME NEW p \in Peer, NEW t \in Tx, ReceivedResponse(p, t) PROVE Ordered'
  <2>1. CASE m_index[t][p] = None
    BY ZenonT(30), <1>2, <1>3, <1>4, <1>5, <2>1 DEF ReceivedResponse
  <2>2. CASE m_index[t][p] # None
    <3>1. MakeCompleted(t, m_index[t], p) \in Rows /\ RowOK(t, MakeCompleted(t, m_index[t], p))
      BY <1>1, <1>2, <2>2, CompletedRow
    <3>2. m_index' = [m_index EXCEPT ![t] = MakeCompleted(t, m_index[t], p)]
      BY <1>5, <2>2 DEF ReceivedResponse
    <3>3. m_index' \in [Tx -> Rows] /\ (\A u \in Tx : RowOK(u, m_index[u]))'
      BY ZenonT(30), <3>1, <3>2, RowStep
    <3> QED BY ZenonT(30), <1>2, <1>3, <1>5, <3>3 DEF ReceivedResponse
  <2> QED BY <2>1, <2>2
<1>6. ASSUME NEW p \in Peer, NEW t \in Tx, Promote(t, p) PROVE Ordered'
  <2>1. m_index[t][p] # None /\ m_index[t][p].state = "CANDIDATE_DELAYED"
    BY <1>6 DEF Promote, First, Past, In
  <2>2. /\ PromoteCandidateReady(t, m_index[t], p) \in Rows
        /\ RowOK(t, PromoteCandidateReady(t, m_index[t], p))
    BY <1>1, <1>2, <2>1, PromotedRow
  <2>3. m_index' \in [Tx -> Rows] /\ (\A u \in Tx : RowOK(u, m_index[u]))'
    BY ZenonT(30), <1>6, <2>2, RowStep DEF Promote
  <2> QED BY ZenonT(30), <1>2, <1>3, <1>6, <2>3 DEF Promote
<1>7. ASSUME NEW p \in Peer, NEW t \in Tx, Expire(t, p) PROVE Ordered'
  <2>1. m_index[t][p] # None
    BY <1>7 DEF Expire, First, Past, In
  <2>2. MakeCompleted(t, m_index[t], p) \in Rows /\ RowOK(t, MakeCompleted(t, m_index[t], p))
    BY <1>1, <1>2, <2>1, CompletedRow
  <2>3. m_index' \in [Tx -> Rows] /\ (\A u \in Tx : RowOK(u, m_index[u]))'
    BY ZenonT(30), <1>7, <2>2, RowStep DEF Expire
  <2> QED BY ZenonT(30), <1>2, <1>3, <1>7, <2>3 DEF Expire
<1>8. ASSUME NEW p \in Peer, NEW t \in Tx, Demote(t, p) PROVE Ordered'
  <2> DEFINE new == ChangeAndReselect(t, m_index[t], p, "CANDIDATE_DELAYED")
  <2>1. m_index[t][p] # None
    BY <1>8 DEF Demote, Last, Future, In
  <2>2. new \in Rows /\ RowOK(t, new)
    BY <1>1, <1>2, <2>1, ReselectRow
  <2>3. m_index' \in [Tx -> Rows] /\ (\A u \in Tx : RowOK(u, m_index[u]))'
    BY ZenonT(30), <1>8, <2>2, RowStep DEF Demote
  <2> QED BY ZenonT(30), <1>2, <1>3, <1>8, <2>3 DEF Demote
<1>9. ASSUME NEW p \in Peer, NEW t \in Tx, NEW time \in Time, RequestedTx(p, t, time)
      PROVE  Ordered'
  <2>1. m_index' \in [Tx -> Rows] /\ (\A u \in Tx : RowOK(u, m_index[u]))'
    <3>1. CASE p \notin In(m_index[t], Candidates)
      BY <1>4, <1>9, <3>1 DEF RequestedTx
    <3>2. CASE p \in In(m_index[t], Candidates)
      <4>1. RequestedRow(t, p, time) \in Rows /\ RowOK(t, RequestedRow(t, p, time))
        BY <1>1, <1>2, <3>2, RequestedRowOK
      <4> QED BY ZenonT(30), <1>9, <3>2, <4>1, RowStep DEF RequestedTx
    <3> QED BY ZenonT(30), <3>1, <3>2
  <2>2. offered' \subseteq offered
    BY <1>9 DEF RequestedTx
  <2> QED BY ZenonT(30), <1>3, <1>9, <2>1, <2>2 DEF RequestedTx
<1>10. ASSUME NEW p \in Peer, NEW t \in Tx, NEW time \in Time, NEW preferred \in BOOLEAN,
              ReceivedInv(p, t, preferred, time)
       PROVE  Ordered'
  <2> DEFINE a == [state |-> "CANDIDATE_DELAYED", time |-> time, preferred |-> preferred]
             new == [m_index[t] EXCEPT ![p] = a]
  <2>1. CASE m_index[t][p] # None
    BY <1>2, <1>3, <1>4, <1>10, <2>1 DEF ReceivedInv
  <2>2. CASE m_index[t][p] = None
    <3>1. a \in Announcement /\ a.state = "CANDIDATE_DELAYED"
      BY DEF Announcement, Candidates
    <3>2. m_index' = [m_index EXCEPT ![t] = new]
      BY ZenonT(30), <1>2, <1>10, <2>2 DEF ReceivedInv
    <3>3. new \in Rows /\ RowOK(t, new)
      <4> HIDE DEF a
      <4> QED BY <1>1, <1>2, <2>2, <3>1, PlainChange
    <3>4. m_index' \in [Tx -> Rows] /\ (\A u \in Tx : RowOK(u, m_index[u]))'
      <4> HIDE DEF new
      <4> QED BY ZenonT(30), <3>2, <3>3, RowStep
    <3> QED BY ZenonT(30), <1>2, <1>3, <1>10, <3>4 DEF ReceivedInv
  <2> QED BY ZenonT(30), <2>1, <2>2
<1>11. ASSUME NEW p \in Peer, DisconnectedPeer(p) PROVE Ordered'
  <2>1. m_index' = [t \in Tx |-> DisconnectedReselect(t, p)]
    BY <1>11 DEF DisconnectedPeer
  <2>2. \A t \in Tx : DisconnectedReselect(t, p) \in Rows /\ RowOK(t, DisconnectedReselect(t, p))
    BY <1>1, <1>2, DisconnectedRowOK
  <2>3. m_index' \in [Tx -> Rows]
    BY ZenonT(30), <2>1, <2>2
  <2>4. (\A t \in Tx : RowOK(t, m_index[t]))'
    <3> SUFFICES ASSUME NEW t \in Tx PROVE RowOK(t, m_index[t])'
      OBVIOUS
    <3>1. m_index'[t] = DisconnectedReselect(t, p)
      BY <2>1
    <3>2. RowOK(t, m_index'[t])
      BY <2>2, <3>1
    <3> QED BY <3>2 DEF RowOK, In, Priority
  <2> QED BY <1>2, <1>3, <1>11, <2>3, <2>4 DEF DisconnectedPeer
<1>12. ASSUME NEW p \in Peer, NEW n \in Time, GetRequestable(p, n) PROVE Ordered'
  <2>1. p # None
    BY TxRequestAssumption
  <2>2. Types'
    BY ZenonT(30), <1>2, <1>12, <2>1 DEF Types, GetRequestable
  <2> QED BY ZenonT(30), <1>4, <1>12, <2>2 DEF Ordered, GetRequestable
<1>13. ASSUME NEW t \in Tx, ForgetTxHash(t) PROVE Ordered'
  <2>1. m_index' \in [Tx -> Rows] /\ (\A u \in Tx : RowOK(u, m_index[u]))'
    BY ZenonT(30), <1>13, ForgottenRow, RowStep DEF ForgetTxHash
  <2> QED BY ZenonT(30), <1>3, <1>13, <2>1 DEF ForgetTxHash
<1>14. CASE Return
  <2>1. /\ asker \in Peer /\ asker' = None /\ now' = 0 /\ loop' = "none" /\ m_index' = m_index
        /\ offered' = {o \in offered : o[1] # asker} \cup
                      {asker} \X {t \in Tx : asker \in In(m_index[t], {"CANDIDATE_BEST"})}
    BY <1>2, <1>14 DEF Return
  <2>2. Types'
    BY <1>2, <2>1, TxRequestAssumption DEF Types
  <2> QED BY <1>4, <2>1, <2>2 DEF Ordered
<1>15. CASE EndPast
  <2>1. Types'
    BY ZenonT(30), <1>2, <1>15 DEF Types, EndPast
  <2> QED BY ZenonT(30), <1>4, <1>15, <2>1 DEF Ordered, EndPast
<1>16. CASE UNCHANGED vars
  BY ZenonT(30), <1>3, <1>4, <1>16 DEF vars
<1> QED BY ZenonT(30), <1>5, <1>6, <1>7, <1>8, <1>9, <1>10, <1>11, <1>12, <1>13, <1>14, <1>15, <1>16 DEF Next

-----------------------------------------------------------------------------
\* The announcements that SetTimePoint has still to promote or expire, and
\* those that it has still to demote.
PastLeft == {x \in Tx \X Peer : x[2] \in Past(x[1])}
FutureLeft == {x \in Tx \X Peer : x[2] \in Future(x[1])}

\* Every round of SetTimePoint takes an announcement off what is left and puts
\* none on it, whatever the clock: in its first loop off the past ones, until
\* there are none, in its second off the future ones while no past one appears.
Rounds ==
  asker # None /\ asker' # None =>
    \/ /\ loop = "past" /\ loop' = "past"
       /\ PastLeft' \subseteq PastLeft /\ PastLeft' # PastLeft
    \/ loop = "past" /\ loop' = "future" /\ PastLeft' = {}
    \/ /\ loop = "future" /\ loop' = "future" /\ PastLeft' = {}
       /\ FutureLeft' \subseteq FutureLeft /\ FutureLeft' # FutureLeft

\* In the second loop the work of the first is done.
Looped == loop = "future" => PastLeft = {}

\* A new row in which the announcements of the peers other than p are as in an
\* old one, but for which of the selectable ones is the best, or are gone.
KeptBut(row, new, p) ==
  \A q \in Peer : q # p /\ new[q] # None =>
    /\ row[q] # None /\ new[q].time = row[q].time
    /\ new[q].state \in Waiting <=> row[q].state \in Waiting
    /\ new[q].state \in Selectable <=> row[q].state \in Selectable

\* Announcements in other states: what KeptBut needs of each of them.
LEMMA KeptStates ==
  ASSUME NEW row \in Rows, NEW new, NEW p \in Peer,
         \A q \in Peer : q # p =>
           \/ new[q] = row[q]
           \/ /\ row[q] # None /\ row[q].state \in Selectable
              /\ \E s \in Selectable : new[q] = With(row[q], s)
  PROVE  KeptBut(row, new, p)
<1> SUFFICES ASSUME NEW q \in Peer, q # p, new[q] # None
             PROVE  /\ row[q] # None /\ new[q].time = row[q].time
                    /\ new[q].state \in Waiting <=> row[q].state \in Waiting
                    /\ new[q].state \in Selectable <=> row[q].state \in Selectable
  BY ZenonT(30) DEF KeptBut
<1>1. CASE new[q] = row[q]
  BY ZenonT(30), <1>1
<1>2. CASE new[q] # row[q]
  <2>1. /\ row[q] # None /\ row[q].state \in Selectable
        /\ \E s \in Selectable : new[q] = With(row[q], s)
    BY ZenonT(30), <1>2
  <2>2. PICK s \in Selectable : new[q] = With(row[q], s)
    BY ZenonT(30), <2>1
  <2>3. row[q] \in Announcement /\ s \in States
    BY ZenonT(30), <2>1 DEF Rows, Selectable, States, Candidates
  <2>4. new[q].state = s /\ new[q].time = row[q].time
    BY <2>2, <2>3, AnnouncementFacts
  <2> QED BY ZenonT(30), <2>1, <2>4 DEF Waiting, Selectable
<1> QED BY ZenonT(30), <1>1, <1>2

LEMMA PromotedKept ==
  ASSUME NEW t \in Tx, NEW row \in Rows, NEW p \in Peer, row[p] # None,
         row[p].state = "CANDIDATE_DELAYED"
  PROVE  /\ KeptBut(row, PromoteCandidateReady(t, row, p), p)
         /\ PromoteCandidateReady(t, row, p)[p].state \in Selectable
<1> DEFINE new == PromoteCandidateReady(t, row, p)
           best == In(row, {"CANDIDATE_BEST"})
           swapped == [q \in Peer |-> CASE q = p -> [row[q] EXCEPT !.state = "CANDIDATE_BEST"]
                                        [] q \in best -> [row[q] EXCEPT !.state = "CANDIDATE_READY"]
                                        [] OTHER -> row[q]]
<1>1. row[p] \in Announcement /\ "CANDIDATE_READY" \in Selectable /\ "CANDIDATE_BEST" \in Selectable
      /\ Selectable \subseteq States
  BY DEF Rows, Selectable, States, Candidates
<1>2. new \in {SetState(row, p, "CANDIDATE_READY"), SetState(row, p, "CANDIDATE_BEST"), swapped}
  BY ZenonT(30) DEF PromoteCandidateReady
<1>3. ASSUME NEW s \in Selectable, new = SetState(row, p, s)
      PROVE  KeptBut(row, new, p) /\ new[p].state \in Selectable
  <2>1. \A q \in Peer : new[q] = IF q = p THEN With(row[q], s) ELSE row[q]
    BY ZenonT(30), <1>3 DEF SetState, With, Rows
  <2> HIDE DEF new
  <2>2. new[p].state = s
    <3>1. With(row[p], s).state = s
      BY ZenonT(30), <1>1, AnnouncementFacts
    <3>2. new[p] = With(row[p], s)
      BY ZenonT(30), <2>1
    <3> QED BY <3>1, <3>2
  <2>3. \A q \in Peer : q # p => new[q] = row[q]
    BY <2>1
  <2>4. KeptBut(row, new, p)
    BY ZenonT(30), <2>3, KeptStates
  <2> QED BY <2>2, <2>4
<1>4. ASSUME new = swapped
      PROVE  KeptBut(row, new, p) /\ new[p].state \in Selectable
  <2>1. \A q \in Peer : new[q] = IF q = p THEN With(row[q], "CANDIDATE_BEST")
                                 ELSE IF q \in best THEN With(row[q], "CANDIDATE_READY") ELSE row[q]
    <3> SUFFICES ASSUME NEW q \in Peer
                 PROVE  new[q] = IF q = p THEN With(row[q], "CANDIDATE_BEST")
                                 ELSE IF q \in best THEN With(row[q], "CANDIDATE_READY") ELSE row[q]
      BY ZenonT(30)
    <3>1. p \notin best
      BY DEF In
    <3>2. new[q] = CASE q = p -> [row[q] EXCEPT !.state = "CANDIDATE_BEST"]
                     [] q \in best -> [row[q] EXCEPT !.state = "CANDIDATE_READY"]
                     [] OTHER -> row[q]
      BY ZenonT(30), <1>4
    <3> HIDE DEF new, best
    <3> QED BY ZenonT(30), <3>1, <3>2 DEF With
  <2>2. \A q \in best : row[q] # None /\ row[q].state \in Selectable
    BY DEF In, Selectable
  <2> HIDE DEF new, best
  <2>3. new[p].state = "CANDIDATE_BEST"
    <3>1. With(row[p], "CANDIDATE_BEST").state = "CANDIDATE_BEST"
      BY ZenonT(30), <1>1, AnnouncementFacts
    <3>2. new[p] = With(row[p], "CANDIDATE_BEST")
      BY ZenonT(30), <2>1
    <3> QED BY <3>1, <3>2
  <2>4. KeptBut(row, new, p)
    BY ZenonT(30), <1>1, <2>1, <2>2, KeptStates
  <2> QED BY ZenonT(30), <1>1, <2>3, <2>4
<1> HIDE DEF swapped
<1> QED BY ZenonT(30), <1>1, <1>2, <1>3, <1>4

LEMMA ReselectKept ==
  ASSUME NEW t \in Tx, NEW row \in Rows, NEW p \in Peer, row[p] # None,
         NEW state \in {"COMPLETED", "CANDIDATE_DELAYED"}
  PROVE  /\ KeptBut(row, ChangeAndReselect(t, row, p, state), p)
         /\ ChangeAndReselect(t, row, p, state)[p].state = state
         /\ ChangeAndReselect(t, row, p, state)[p].time = row[p].time
<1> DEFINE new == ChangeAndReselect(t, row, p, state)
           N == NextBest(t, row)
           moved == p \in In(row, Selected)
<1>1. \A q \in N : row[q] # None /\ row[q].state \in Selectable
  BY DEF NextBest, In, Selectable
<1>2. \A q \in Peer : new[q] = IF q = p THEN With(row[q], state)
                               ELSE IF moved /\ q \in N THEN With(row[q], "CANDIDATE_BEST")
                               ELSE row[q]
  BY DEF ChangeAndReselect, With
<1>3. row[p] \in Announcement /\ state \in States /\ "CANDIDATE_BEST" \in Selectable
  BY ZenonT(30) DEF Rows, States, Selectable, Candidates
<1> HIDE DEF new, N, moved
<1>4. new[p].state = state /\ new[p].time = row[p].time
  <2>1. new[p] = With(row[p], state)
    BY ZenonT(30), <1>2
  <2> QED BY <1>3, <2>1, AnnouncementFacts
<1>5. KeptBut(row, new, p)
  BY ZenonT(30), <1>1, <1>2, <1>3, KeptStates
<1> QED BY ZenonT(30), <1>4, <1>5 DEF new

LEMMA CompletedKept ==
  ASSUME NEW t \in Tx, NEW row \in Rows, NEW p \in Peer, row[p] # None,
         row[p].state # "COMPLETED"
  PROVE  /\ KeptBut(row, MakeCompleted(t, row, p), p)
         /\ \/ MakeCompleted(t, row, p)[p] = None
            \/ MakeCompleted(t, row, p)[p].state = "COMPLETED"
<1>1. CASE IsOnlyNonCompleted(row, p)
  BY ZenonT(30), <1>1 DEF MakeCompleted, Forgotten, KeptBut
<1>2. CASE ~IsOnlyNonCompleted(row, p)
  BY ZenonT(30), <1>2, ReselectKept DEF MakeCompleted
<1> QED BY ZenonT(30), <1>1, <1>2

\* What is left, when one row changes and the others are kept.
LEMMA LeftBut ==
  ASSUME Ordered, NEW t \in Tx, NEW p \in Peer, NEW new \in Rows, KeptBut(m_index[t], new, p),
         m_index' = [m_index EXCEPT ![t] = new], now' = now
  PROVE  /\ PastLeft' \subseteq PastLeft \cup {<<t, p>>}
         /\ FutureLeft' \subseteq FutureLeft \cup {<<t, p>>}
         /\ <<t, p>> \in PastLeft' => new[p] # None /\ new[p].state \in Waiting /\ new[p].time <= now
         /\ <<t, p>> \in FutureLeft' => new[p] # None /\ new[p].state \in Selectable
<1>1. m_index \in [Tx -> Rows] /\ \A u \in Tx : m_index'[u] = IF u = t THEN new ELSE m_index[u]
  BY ZenonT(30) DEF Ordered, Types
<1>2. ASSUME NEW u \in Tx, NEW q \in Peer
      PROVE  /\ <<u, q>> \in PastLeft <=>
                  m_index[u][q] # None /\ m_index[u][q].state \in Waiting /\ m_index[u][q].time <= now
             /\ <<u, q>> \in FutureLeft <=>
                  m_index[u][q] # None /\ m_index[u][q].state \in Selectable /\ m_index[u][q].time > now
             /\ <<u, q>> \in PastLeft' <=>
                  m_index'[u][q] # None /\ m_index'[u][q].state \in Waiting /\ m_index'[u][q].time <= now
             /\ <<u, q>> \in FutureLeft' <=>
                  m_index'[u][q] # None /\ m_index'[u][q].state \in Selectable /\ m_index'[u][q].time > now
  BY DEF PastLeft, FutureLeft, Past, Future, In
<1>3. ASSUME NEW u \in Tx, NEW q \in Peer, <<u, q>> # <<t, p>>
      PROVE  /\ <<u, q>> \in PastLeft' => <<u, q>> \in PastLeft
             /\ <<u, q>> \in FutureLeft' => <<u, q>> \in FutureLeft
  <2>1. CASE u # t
    BY ZenonT(30), <1>1, <1>2, <2>1
  <2>2. CASE u = t
    <3>1. q # p /\ m_index'[u] = new
      BY ZenonT(30), <1>1, <1>3, <2>2
    <3>2. new[q] # None =>
            /\ m_index[u][q] # None /\ new[q].time = m_index[u][q].time
            /\ new[q].state \in Waiting <=> m_index[u][q].state \in Waiting
            /\ new[q].state \in Selectable <=> m_index[u][q].state \in Selectable
      BY ZenonT(30), <2>2, <3>1 DEF KeptBut
    <3> QED BY ZenonT(30), <1>2, <3>1, <3>2
  <2> QED BY ZenonT(30), <2>1, <2>2
<1>4. PastLeft' \subseteq Tx \X Peer /\ FutureLeft' \subseteq Tx \X Peer
  BY DEF PastLeft, FutureLeft
<1>5. PastLeft' \subseteq PastLeft \cup {<<t, p>>} /\ FutureLeft' \subseteq FutureLeft \cup {<<t, p>>}
  BY <1>3, <1>4
<1>6. m_index'[t] = new
  BY ZenonT(30), <1>1
<1> QED BY ZenonT(30), <1>2, <1>5, <1>6

\* A round of GetRequestable's SetTimePoint, or another step.
LEMMA RoundStep ==
  ASSUME Ordered, Looped, [Next]_vars, ~UNCHANGED vars
  PROVE  Rounds
<1> SUFFICES ASSUME asker # None, asker' # None
             PROVE  \/ /\ loop = "past" /\ loop' = "past"
                       /\ PastLeft' \subseteq PastLeft /\ PastLeft' # PastLeft
                    \/ loop = "past" /\ loop' = "future" /\ PastLeft' = {}
                    \/ /\ loop = "future" /\ loop' = "future" /\ PastLeft' = {}
                       /\ FutureLeft' \subseteq FutureLeft /\ FutureLeft' # FutureLeft
  BY DEF Rounds
<1>1. m_index \in [Tx -> Rows] /\ \A t \in Tx : m_index[t] \in Rows /\ RowOK(t, m_index[t])
  BY DEF Ordered, Types
<1>2. \/ EndPast
      \/ \E p \in Peer, t \in Tx : Promote(t, p) \/ Expire(t, p) \/ Demote(t, p)
  BY ZenonT(30) DEF Next, ReceivedResponse, RequestedTx, ReceivedInv, DisconnectedPeer, GetRequestable,
         ForgetTxHash, Return
<1>3. ASSUME NEW p \in Peer, NEW t \in Tx, Promote(t, p) \/ Expire(t, p)
      PROVE  /\ loop = "past" /\ loop' = "past"
             /\ PastLeft' \subseteq PastLeft /\ PastLeft' # PastLeft
  <2>1. /\ m_index[t][p] # None /\ m_index[t][p].state \in Waiting /\ <<t, p>> \in PastLeft
        /\ now' = now /\ loop = "past" /\ loop' = "past"
    BY ZenonT(30), <1>3 DEF Promote, Expire, First, Past, In, PastLeft
  <2>2. PICK new \in Rows : /\ KeptBut(m_index[t], new, p)
                            /\ new[p] = None \/ new[p].state \notin Waiting
                            /\ m_index' = [m_index EXCEPT ![t] = new]
    <3>1. CASE Promote(t, p)
      <4> DEFINE new == PromoteCandidateReady(t, m_index[t], p)
      <4>1. new \in Rows
        BY ZenonT(30), <1>1, <2>1, <3>1, PromotedRow DEF Promote
      <4>2. KeptBut(m_index[t], new, p) /\ new[p].state \in Selectable
        BY ZenonT(30), <1>1, <2>1, <3>1, PromotedKept DEF Promote
      <4>3. m_index' = [m_index EXCEPT ![t] = new]
        BY ZenonT(30), <3>1 DEF Promote
      <4>4. new[p].state \notin Waiting
        BY <4>2 DEF Selectable, Waiting
      <4> HIDE DEF new
      <4> QED BY ZenonT(30), <4>1, <4>2, <4>3, <4>4
    <3>2. CASE Expire(t, p)
      <4> DEFINE new == MakeCompleted(t, m_index[t], p)
      <4>1. new \in Rows
        BY ZenonT(30), <1>1, <2>1, CompletedRow
      <4>2. KeptBut(m_index[t], new, p) /\ (new[p] = None \/ new[p].state = "COMPLETED")
        BY ZenonT(30), <1>1, <2>1, CompletedKept DEF Waiting
      <4>3. m_index' = [m_index EXCEPT ![t] = new]
        BY ZenonT(30), <3>2 DEF Expire
      <4>4. new[p] = None \/ new[p].state \notin Waiting
        BY <4>2 DEF Waiting
      <4> HIDE DEF new
      <4> QED BY ZenonT(30), <4>1, <4>2, <4>3, <4>4
    <3> QED BY <1>3, <3>1, <3>2
  <2>3. PastLeft' \subseteq PastLeft \cup {<<t, p>>} /\ <<t, p>> \notin PastLeft'
    BY ZenonT(30), <2>1, <2>2, LeftBut
  <2> QED BY <2>1, <2>3
<1>4. ASSUME NEW p \in Peer, NEW t \in Tx, Demote(t, p)
      PROVE  /\ loop = "future" /\ loop' = "future" /\ PastLeft' = {}
             /\ FutureLeft' \subseteq FutureLeft /\ FutureLeft' # FutureLeft
  <2> DEFINE new == ChangeAndReselect(t, m_index[t], p, "CANDIDATE_DELAYED")
  <2>1. /\ m_index[t][p] # None /\ m_index[t][p].time > now /\ <<t, p>> \in FutureLeft
        /\ now' = now /\ m_index' = [m_index EXCEPT ![t] = new]
        /\ loop = "future" /\ loop' = "future"
    BY ZenonT(30), <1>4 DEF Demote, Last, Future, In, FutureLeft
  <2>2. PastLeft = {}
    BY ZenonT(30), <2>1 DEF Looped
  <2>3. new \in Rows
    BY ZenonT(30), <1>1, <2>1, ReselectRow
  <2>4. /\ KeptBut(m_index[t], new, p) /\ new[p].state = "CANDIDATE_DELAYED"
        /\ new[p].time = m_index[t][p].time
    BY ZenonT(30), <1>1, <2>1, ReselectKept
  <2>5. ~(new[p].time <= now) /\ new[p].state \notin Selectable
    <3>1. m_index[t][p] \in Announcement /\ now \in Time
      BY <1>1, <2>1 DEF Rows, Ordered, Types
    <3>2. m_index[t][p].time \in Nat /\ now \in Nat
      BY ZenonT(30), <3>1, AnnouncementFacts, TxRequestAssumption
    <3> HIDE DEF new
    <3> QED BY <2>1, <2>4, <3>2 DEF Selectable
  <2> HIDE DEF new
  <2>6. /\ PastLeft' \subseteq PastLeft \cup {<<t, p>>} /\ <<t, p>> \notin PastLeft'
        /\ FutureLeft' \subseteq FutureLeft \cup {<<t, p>>} /\ <<t, p>> \notin FutureLeft'
    BY ZenonT(30), <2>1, <2>3, <2>4, <2>5, LeftBut
  <2> QED BY ZenonT(30), <2>1, <2>2, <2>6
<1>5. CASE EndPast
  <2>1. /\ loop = "past" /\ loop' = "future" /\ m_index' = m_index /\ now' = now
        /\ \A t \in Tx : Past(t) = {}
    BY ZenonT(30), <1>5 DEF EndPast
  <2>2. PastLeft' = PastLeft /\ PastLeft = {}
    BY <2>1 DEF PastLeft, Past, In
  <2> QED BY ZenonT(30), <2>1, <2>2
<1> QED BY ZenonT(30), <1>2, <1>3, <1>4, <1>5

LEMMA LoopedStep ==
  ASSUME Ordered, Looped, [Next]_vars
  PROVE  Looped'
<1>1. CASE UNCHANGED vars
  <2>1. m_index' = m_index /\ now' = now /\ loop' = loop
    BY <1>1 DEF vars
  <2> QED BY <2>1 DEF Looped, PastLeft, Past, In
<1>2. CASE ~UNCHANGED vars /\ loop' = "future"
  <2>1. asker # None /\ asker' # None
    <3>1. Ordered' /\ (loop = "none" <=> asker = None)
      BY OrderedStep DEF Ordered, Types
    <3>2. loop # "none"
      BY ZenonT(30), <1>2, <3>1 DEF Next, ReceivedResponse, Promote, Expire, Demote, RequestedTx,
         ReceivedInv, DisconnectedPeer, GetRequestable, ForgetTxHash, EndPast, Return
    <3>3. asker' # None
      BY <1>2, <3>1 DEF Ordered, Types
    <3> QED BY <3>1, <3>2, <3>3
  <2>2. Rounds
    BY ZenonT(30), <1>2, RoundStep
  <2> QED BY <1>2, <2>1, <2>2 DEF Rounds, Looped
<1>3. CASE loop' # "future"
  BY <1>3 DEF Looped
<1> QED BY ZenonT(30), <1>1, <1>2, <1>3

-----------------------------------------------------------------------------
\* A new row in which the candidates of an old one are still candidates, but for
\* those of some peers, and nobody else is asked.
OffersKept(row, new, gone) ==
  /\ \A q \in In(row, Candidates) : q \notin gone => q \in In(new, Candidates)
  /\ In(new, {"REQUESTED"}) \subseteq In(row, {"REQUESTED"})

LEMMA RestatedOffers ==
  ASSUME NEW row \in Rows, NEW new, NEW gone,
         \A q \in Peer :
           \/ new[q] = row[q]
           \/ /\ row[q] # None /\ row[q].state \in Candidates
              /\ \E s \in Candidates : new[q] = With(row[q], s)
           \/ q \in gone /\ (new[q] = None \/ new[q].state = "COMPLETED")
  PROVE  OffersKept(row, new, gone)
<1>1. ASSUME NEW q \in Peer, row[q] # None, NEW s \in Candidates, new[q] = With(row[q], s)
      PROVE  new[q] # None /\ new[q].state \in Candidates
  <2>1. row[q] \in Announcement /\ s \in States
    BY <1>1 DEF Rows, States
  <2> QED BY <1>1, <2>1, AnnouncementFacts
<1>2. "REQUESTED" \notin Candidates
  BY DEF Candidates
<1>3. ASSUME NEW q \in In(row, Candidates), q \notin gone PROVE q \in In(new, Candidates)
  BY ZenonT(30), <1>1, <1>3 DEF In
<1>4. ASSUME NEW q \in In(new, {"REQUESTED"}) PROVE q \in In(row, {"REQUESTED"})
  BY ZenonT(30), <1>1, <1>2 DEF In
<1> QED BY <1>3, <1>4 DEF OffersKept

LEMMA ReselectOffers ==
  ASSUME NEW t \in Tx, NEW row \in Rows, NEW p \in Peer, row[p] # None,
         NEW state \in {"COMPLETED", "CANDIDATE_DELAYED"},
         state = "CANDIDATE_DELAYED" => row[p].state \in Candidates
  PROVE  OffersKept(row, ChangeAndReselect(t, row, p, state),
                    IF state = "COMPLETED" THEN {p} ELSE {})
<1> DEFINE new == ChangeAndReselect(t, row, p, state)
           gone == IF state = "COMPLETED" THEN {p} ELSE {}
<1>1. new[p] = With(row[p], state) /\ row[p] \in Announcement /\ state \in States
  BY DEF ChangeAndReselect, With, Rows, States, Candidates
<1>2. \A q \in Peer : q # p =>
        \/ new[q] = row[q]
        \/ q \in In(row, {"CANDIDATE_READY"}) /\ new[q] = With(row[q], "CANDIDATE_BEST")
  BY ZenonT(30) DEF ChangeAndReselect, With, NextBest
<1> HIDE DEF new
<1>3. new[p].state = state
  BY <1>1, AnnouncementFacts
<1>4. \A q \in In(row, {"CANDIDATE_READY"}) : row[q] # None /\ row[q].state \in Candidates
  BY DEF In, Candidates
<1>5. "CANDIDATE_BEST" \in Candidates /\ "CANDIDATE_DELAYED" \in Candidates
  BY DEF Candidates
<1>6. \A q \in Peer :
        \/ new[q] = row[q]
        \/ /\ row[q] # None /\ row[q].state \in Candidates
           /\ \E s \in Candidates : new[q] = With(row[q], s)
        \/ q \in gone /\ (new[q] = None \/ new[q].state = "COMPLETED")
  <2> SUFFICES ASSUME NEW q \in Peer
               PROVE  \/ new[q] = row[q]
                      \/ /\ row[q] # None /\ row[q].state \in Candidates
                         /\ \E s \in Candidates : new[q] = With(row[q], s)
                      \/ q \in gone /\ (new[q] = None \/ new[q].state = "COMPLETED")
    OBVIOUS
  <2>1. CASE q # p
    BY ZenonT(30), <1>2, <1>4, <1>5, <2>1
  <2>2. CASE q = p
    BY ZenonT(30), <1>1, <1>3, <1>5, <2>2
  <2> QED BY <2>1, <2>2
<1> HIDE DEF gone
<1>7. OffersKept(row, new, gone)
  BY ZenonT(30), <1>6, RestatedOffers
<1> QED BY <1>7 DEF new, gone

LEMMA PromotedOffers ==
  ASSUME NEW t \in Tx, NEW row \in Rows, NEW p \in Peer, row[p] # None,
         row[p].state = "CANDIDATE_DELAYED"
  PROVE  OffersKept(row, PromoteCandidateReady(t, row, p), {})
<1> DEFINE new == PromoteCandidateReady(t, row, p)
<1>1. \A q \in Peer : \/ new[q] = row[q]
                      \/ /\ q = p \/ q \in In(row, {"CANDIDATE_BEST"})
                         /\ \E s \in {"CANDIDATE_READY", "CANDIDATE_BEST"} : new[q] = With(row[q], s)
  BY DEF PromoteCandidateReady, With, SetState, Rows
<1> HIDE DEF new
<1>2. \A q \in Peer : q = p \/ q \in In(row, {"CANDIDATE_BEST"}) =>
        row[q] # None /\ row[q].state \in Candidates
  BY DEF In, Candidates
<1>3. \A s \in {"CANDIDATE_READY", "CANDIDATE_BEST"} : s \in Candidates
  BY DEF Candidates
<1>4. OffersKept(row, new, {})
  BY ZenonT(30), <1>1, <1>2, <1>3, RestatedOffers
<1> QED BY <1>4 DEF new

\* Completing the announcement of a peer keeps those of others.
LEMMA CompletedOffers ==
  ASSUME NEW t \in Tx, NEW row \in Rows, NEW p \in Peer, row[p] # None,
         NEW q \in In(row, Candidates), q # p
  PROVE  OffersKept(row, MakeCompleted(t, row, p), {p})
<1>1. q \in In(row, Active)
  BY DEF In, Active
<1>2. ~IsOnlyNonCompleted(row, p)
  BY <1>1 DEF IsOnlyNonCompleted, Active
<1>3. CASE row[p].state = "COMPLETED"
  BY ZenonT(30), <1>3 DEF MakeCompleted, OffersKept
<1>4. CASE row[p].state # "COMPLETED"
  <2>1. MakeCompleted(t, row, p) = ChangeAndReselect(t, row, p, "COMPLETED")
    BY <1>2, <1>4 DEF MakeCompleted
  <2>2. OffersKept(row, ChangeAndReselect(t, row, p, "COMPLETED"), {p})
    BY ReselectOffers
  <2> QED BY <2>1, <2>2
<1> QED BY <1>3, <1>4

\* The offers that are left hold, when they are about candidates that are kept.
LEMMA OffersLeft ==
  ASSUME OffersHold, NEW gone,
         \A o \in offered' :
           /\ o \in offered
           /\ \/ m_index'[o[2]] = m_index[o[2]]
              \/ OffersKept(m_index[o[2]], m_index'[o[2]], gone) /\ o[1] \notin gone
  PROVE  OffersHold'
<1> SUFFICES ASSUME NEW o \in offered'
             PROVE  /\ o[1] \in In(m_index'[o[2]], Candidates)
                    /\ In(m_index'[o[2]], {"REQUESTED"}) = {}
  BY ZenonT(30) DEF OffersHold, In
<1>1. /\ o[1] \in In(m_index[o[2]], Candidates)
      /\ In(m_index[o[2]], {"REQUESTED"}) = {}
  BY ZenonT(30) DEF OffersHold
<1>2. CASE m_index'[o[2]] = m_index[o[2]]
  BY ZenonT(30), <1>1, <1>2
<1>3. CASE OffersKept(m_index[o[2]], m_index'[o[2]], gone) /\ o[1] \notin gone
  BY <1>1, <1>3 DEF OffersKept
<1> QED BY ZenonT(30), <1>2, <1>3

LEMMA OffersStep ==
  ASSUME Ordered, OffersHold, [Next]_vars
  PROVE  OffersHold'
<1>1. /\ m_index \in [Tx -> Rows] /\ offered \subseteq Peer \X Tx
      /\ \A t \in Tx : m_index[t] \in Rows /\ RowOK(t, m_index[t])
  BY DEF Ordered, Types
<1>2. \A o \in offered : /\ o = <<o[1], o[2]>> /\ o[1] \in Peer /\ o[2] \in Tx
                         /\ o[1] \in In(m_index[o[2]], Candidates)
                         /\ In(m_index[o[2]], {"REQUESTED"}) = {}
  BY <1>1 DEF OffersHold
<1>3. ASSUME NEW t \in Tx, NEW new, NEW gone, m_index' = [m_index EXCEPT ![t] = new],
             offered' \subseteq offered,
             \A o \in offered' : o[2] = t => OffersKept(m_index[t], new, gone) /\ o[1] \notin gone
      PROVE  OffersHold'
  <2>1. \A u \in Tx : m_index'[u] = IF u = t THEN new ELSE m_index[u]
    BY ZenonT(30), <1>1, <1>3
  <2>2. \A o \in offered' :
          /\ o \in offered
          /\ \/ m_index'[o[2]] = m_index[o[2]]
             \/ OffersKept(m_index[o[2]], m_index'[o[2]], gone) /\ o[1] \notin gone
    BY ZenonT(30), <1>2, <1>3, <2>1
  <2> QED BY ZenonT(30), <2>2, OffersLeft
<1>keep. ASSUME NEW t \in Tx, NEW new, m_index' = [m_index EXCEPT ![t] = new],
             offered' \subseteq offered, OffersKept(m_index[t], new, {})
      PROVE  OffersHold'
  <2> DEFINE gone == {}
  <2>1. OffersKept(m_index[t], new, gone) /\ \A o \in offered' : o[1] \notin gone
    BY <1>keep
  <2> HIDE DEF gone
  <2> QED BY ZenonT(30), <1>3, <1>keep, <2>1
<1>4. ASSUME m_index' = m_index, offered' \subseteq offered PROVE OffersHold'
  BY ZenonT(30), <1>4, OffersLeft
<1>5. ASSUME NEW p \in Peer, NEW t \in Tx, ReceivedResponse(p, t) PROVE OffersHold'
  <2>1. offered' = offered \ {<<p, t>>}
    BY <1>5 DEF ReceivedResponse
  <2>2. CASE m_index[t][p] = None
    BY <1>4, <1>5, <2>1, <2>2 DEF ReceivedResponse
  <2>3. CASE m_index[t][p] # None
    <3> DEFINE new == MakeCompleted(t, m_index[t], p)
    <3>1. m_index' = [m_index EXCEPT ![t] = new]
      BY <1>5, <2>3 DEF ReceivedResponse
    <3>2. ASSUME NEW o \in offered', o[2] = t
          PROVE  OffersKept(m_index[t], new, {p}) /\ o[1] \notin {p}
      <4>1. o \in offered /\ o # <<p, t>>
        BY <2>1
      <4>2. o[1] # p /\ o[1] \in In(m_index[t], Candidates)
        BY ZenonT(30), <1>2, <3>2, <4>1
      <4> QED BY ZenonT(30), <1>1, <2>3, <4>2, CompletedOffers
    <3>3. offered' \subseteq offered
      BY <2>1
    <3> HIDE DEF new
    <3> QED BY ZenonT(30), <1>3, <3>1, <3>2, <3>3
  <2> QED BY <2>2, <2>3
<1>6. ASSUME NEW p \in Peer, NEW t \in Tx, Promote(t, p) PROVE OffersHold'
  <2>1. m_index[t][p] # None /\ m_index[t][p].state = "CANDIDATE_DELAYED"
    BY <1>6 DEF Promote, First, Past, In
  <2>2. OffersKept(m_index[t], PromoteCandidateReady(t, m_index[t], p), {})
    BY ZenonT(30), <1>1, <2>1, PromotedOffers
  <2>3. /\ m_index' = [m_index EXCEPT ![t] = PromoteCandidateReady(t, m_index[t], p)]
        /\ offered' \subseteq offered
    BY <1>6 DEF Promote
  <2> QED BY ZenonT(30), <1>keep, <2>2, <2>3
<1>7. ASSUME NEW p \in Peer, NEW t \in Tx, Expire(t, p) PROVE OffersHold'
  <2>1. p \in In(m_index[t], {"REQUESTED"})
    BY <1>7 DEF Expire, First, Past, In
  <2>2. \A o \in offered : o[2] # t
    BY ZenonT(30), <1>2, <2>1
  <2> QED BY ZenonT(30), <1>3, <1>7, <2>2 DEF Expire
<1>8. ASSUME NEW p \in Peer, NEW t \in Tx, Demote(t, p) PROVE OffersHold'
  <2>1. m_index[t][p] # None /\ m_index[t][p].state \in Candidates
    BY ZenonT(30), <1>8 DEF Demote, Last, Future, In, Selectable, Candidates
  <2>2. OffersKept(m_index[t], ChangeAndReselect(t, m_index[t], p, "CANDIDATE_DELAYED"), {})
    BY <1>1, <2>1, ReselectOffers
  <2>3. /\ m_index' = [m_index EXCEPT ![t] = ChangeAndReselect(t, m_index[t], p, "CANDIDATE_DELAYED")]
        /\ offered' \subseteq offered
    BY <1>8 DEF Demote
  <2> QED BY ZenonT(30), <1>keep, <2>2, <2>3
<1>9. ASSUME NEW p \in Peer, NEW t \in Tx, NEW time \in Time, RequestedTx(p, t, time)
      PROVE  OffersHold'
  <2>1. CASE p \notin In(m_index[t], Candidates)
    BY ZenonT(30), <1>4, <1>9, <2>1 DEF RequestedTx
  <2>2. CASE p \in In(m_index[t], Candidates)
    <3>1. /\ m_index' = [m_index EXCEPT ![t] = RequestedRow(t, p, time)]
          /\ offered' = {o \in offered : o[2] # t}
      BY ZenonT(30), <1>9, <2>2 DEF RequestedTx
    <3> QED BY ZenonT(30), <1>3, <3>1
  <2> QED BY <2>1, <2>2
<1>10. ASSUME NEW p \in Peer, NEW t \in Tx, NEW time \in Time, NEW preferred \in BOOLEAN,
              ReceivedInv(p, t, preferred, time)
       PROVE  OffersHold'
  <2> DEFINE a == [state |-> "CANDIDATE_DELAYED", time |-> time, preferred |-> preferred]
             new == [m_index[t] EXCEPT ![p] = a]
  <2>1. CASE m_index[t][p] # None
    BY ZenonT(30), <1>4, <1>10, <2>1 DEF ReceivedInv
  <2>2. CASE m_index[t][p] = None
    <3>1. m_index' = [m_index EXCEPT ![t] = new] /\ offered' = offered
      BY ZenonT(30), <1>1, <1>10, <2>2 DEF ReceivedInv
    <3>2. a.state = "CANDIDATE_DELAYED"
      OBVIOUS
    <3>3. \A q \in Peer : new[q] = IF q = p THEN a ELSE m_index[t][q]
      <4> HIDE DEF a
      <4> QED BY <1>1 DEF Rows
    <3> HIDE DEF a, new
    <3>4. OffersKept(m_index[t], new, {})
      BY <2>2, <3>2, <3>3 DEF OffersKept, In
    <3>5. offered' \subseteq offered
      BY <3>1
    <3> QED BY ZenonT(30), <1>keep, <3>1, <3>4, <3>5
  <2> QED BY ZenonT(30), <2>1, <2>2
<1>11. ASSUME NEW p \in Peer, DisconnectedPeer(p) PROVE OffersHold'
  <2>1. offered' = {o \in offered : o[1] # p}
    BY ZenonT(30), <1>11 DEF DisconnectedPeer
  <2>2. ASSUME NEW o \in offered'
        PROVE  /\ o \in offered
               /\ OffersKept(m_index[o[2]], m_index'[o[2]], {p}) /\ o[1] \notin {p}
    <3> DEFINE t == o[2]
               mc == MakeCompleted(t, m_index[t], p)
    <3>1. o \in offered /\ o[1] # p /\ t \in Tx /\ o[1] \in In(m_index[t], Candidates)
      BY ZenonT(30), <1>2, <2>1
    <3>2. m_index'[t] = DisconnectedReselect(t, p)
      BY ZenonT(30), <1>11, <3>1 DEF DisconnectedPeer
    <3>3. CASE m_index[t][p] = None
      BY ZenonT(30), <3>1, <3>2, <3>3 DEF DisconnectedReselect, OffersKept
    <3>4. CASE m_index[t][p] # None
      <4>1. mc \in Rows /\ OffersKept(m_index[t], mc, {p})
        BY ZenonT(30), <1>1, <3>1, <3>4, CompletedRow, CompletedOffers
      <4>2. m_index'[t] = [mc EXCEPT ![p] = None]
        BY ZenonT(30), <3>2, <3>4 DEF DisconnectedReselect
      <4> HIDE DEF mc
      <4>3. \A q \in Peer : m_index'[t][q] = IF q = p THEN None ELSE mc[q]
        BY <4>1, <4>2 DEF Rows
      <4> HIDE DEF t
      <4>4. OffersKept(m_index[t], m_index'[t], {p})
        BY <4>1, <4>3 DEF OffersKept, In
      <4> QED BY ZenonT(30), <3>1, <4>4 DEF t
    <3> QED BY <3>3, <3>4
  <2> QED BY ZenonT(30), <2>2, OffersLeft
<1>12. ASSUME NEW p \in Peer, NEW n \in Time, GetRequestable(p, n) PROVE OffersHold'
  BY ZenonT(30), <1>4, <1>12 DEF GetRequestable
<1>13. ASSUME NEW t \in Tx, ForgetTxHash(t) PROVE OffersHold'
  <2>1. /\ m_index' = [m_index EXCEPT ![t] = Forgotten]
        /\ offered' = {o \in offered : o[2] # t}
    BY ZenonT(30), <1>13 DEF ForgetTxHash
  <2> QED BY ZenonT(30), <1>3, <2>1
<1>14. CASE Return
  <2>1. /\ m_index' = m_index
        /\ offered' \subseteq offered \cup
             {asker} \X {t \in Tx : asker \in In(m_index[t], {"CANDIDATE_BEST"})}
    BY <1>14 DEF Return
  <2>2. ASSUME NEW t \in Tx, asker \in In(m_index[t], {"CANDIDATE_BEST"})
        PROVE  asker \in In(m_index[t], Candidates) /\ In(m_index[t], {"REQUESTED"}) = {}
    <3>1. asker \in In(m_index[t], Candidates) /\ asker \in In(m_index[t], Selected)
          /\ asker \notin In(m_index[t], {"REQUESTED"})
      BY ZenonT(30), <2>2 DEF In, Candidates, Selected
    <3>2. \A q \in In(m_index[t], {"REQUESTED"}) : q \in In(m_index[t], Selected)
      BY ZenonT(30) DEF In, Selected
    <3>3. \A q \in In(m_index[t], {"REQUESTED"}) : q = asker
      BY ZenonT(30), <1>1, <3>1, <3>2 DEF RowOK
    <3> QED BY ZenonT(30), <3>1, <3>3
  <2>3. ASSUME NEW o \in offered'
        PROVE  /\ o[1] \in In(m_index[o[2]], Candidates)
               /\ In(m_index[o[2]], {"REQUESTED"}) = {}
    <3>1. CASE o \in offered
      BY <1>2, <3>1
    <3>2. CASE o \in {asker} \X {t \in Tx : asker \in In(m_index[t], {"CANDIDATE_BEST"})}
      <4>1. o[1] = asker /\ o[2] \in Tx /\ asker \in In(m_index[o[2]], {"CANDIDATE_BEST"})
        BY <3>2
      <4> QED BY ZenonT(30), <2>2, <4>1
    <3> QED BY ZenonT(30), <2>1, <3>1, <3>2
  <2> QED BY ZenonT(30), <2>1, <2>3 DEF OffersHold, In
<1>15. CASE EndPast \/ UNCHANGED vars
  BY ZenonT(30), <1>4, <1>15 DEF EndPast, vars
<1> QED BY ZenonT(30), <1>5, <1>6, <1>7, <1>8, <1>9, <1>10, <1>11, <1>12, <1>13, <1>14, <1>15 DEF Next

LEMMA Invariant == Spec => [](Ordered /\ Looped /\ OffersHold)
<1>1. Init => Ordered /\ Looped /\ OffersHold
  BY InitOrdered DEF Init, Looped, OffersHold
<1>2. (Ordered /\ Looped /\ OffersHold) /\ [Next]_vars => (Ordered /\ Looped /\ OffersHold)'
  BY OrderedStep, LoopedStep, OffersStep
<1> QED BY <1>1, <1>2, PTL DEF Spec

\* The assertions of SanityCheck (txrequest.cpp) hold for all peers, hashes,
\* times and orders of calls.
THEOREM TrackerSane == Spec => []SanityCheck
<1>1. Ordered => SanityCheck
  BY OrderedInv DEF TrackerInv
<1> QED BY <1>1, Invariant, PTL

\* For all peers, hashes and times: whom GetRequestable has answered can be
\* requested the hash from without ending a request to somebody else, until the
\* hash is requested or forgotten or the peer has answered or left, however many
\* calls with whatever clock come in between (txrequest.h, RequestedTx).
THEOREM OffersCanBeTaken == Spec => []OffersHold
<1>1. Ordered /\ Looped /\ OffersHold => OffersHold
  OBVIOUS
<1> QED BY <1>1, Invariant, PTL

\* For all transactions, peers and times, the rounds of SetTimePoint make
\* progress, so that a finite number of announcements bounds their number, also
\* when time goes backwards (SetTimePoint, txrequest.cpp).
THEOREM RoundsProgress == Spec => [][Rounds]_vars
<1>1. (Ordered /\ Looped /\ OffersHold) /\ [Next]_vars => [Rounds]_vars
  BY RoundStep
<1> QED BY <1>1, Invariant, PTL DEF Spec

-----------------------------------------------------------------------------
\* The refinement.  An announcement and a row as the promise knows them.
Coarse(a) ==
  [state |-> IF a.state \in Candidates THEN "CANDIDATE" ELSE a.state,
   time |-> a.time, preferred |-> a.preferred]

Abs(row) ==
  [p \in Peer |-> IF row[p] # None /\ row[p].state \in Candidates
                  THEN [row[p] EXCEPT !.state = "CANDIDATE"] ELSE row[p]]

absIndex == [t \in Tx |-> Abs(m_index[t])]

Records == [state : {"CANDIDATE", "REQUESTED", "COMPLETED"}, time : Time, preferred : BOOLEAN]

LEMMA CoarseFacts ==
  /\ \A a \in Announcement : Coarse(a) \in Records /\ Coarse(a) # None
  /\ \A a \in Announcement :
       /\ Coarse(a).state = IF a.state \in Candidates THEN "CANDIDATE" ELSE a.state
       /\ Coarse(a).time = a.time /\ Coarse(a).preferred = a.preferred
  /\ \A a \in Announcement, s \in Candidates : a.state \in Candidates => Coarse(With(a, s)) = Coarse(a)
  /\ \A a \in Announcement : Coarse(With(a, "COMPLETED")) = [Coarse(a) EXCEPT !.state = "COMPLETED"]
<1>1. ASSUME NEW a \in Announcement
      PROVE  Coarse(a) \in Records
  BY DEF Announcement, Coarse, Records, Candidates
<1>2. None \notin Records
  BY TxRequestAssumption DEF Records
<1>3. ASSUME NEW a \in Announcement
      PROVE  /\ Coarse(a).state = IF a.state \in Candidates THEN "CANDIDATE" ELSE a.state
             /\ Coarse(a).time = a.time /\ Coarse(a).preferred = a.preferred
  BY DEF Coarse
<1>4. ASSUME NEW a \in Announcement, NEW s \in Candidates, a.state \in Candidates
      PROVE  Coarse(With(a, s)) = Coarse(a)
  BY <1>4, AnnouncementFacts DEF Coarse, States
<1>5. ASSUME NEW a \in Announcement
      PROVE  Coarse(With(a, "COMPLETED")) = [Coarse(a) EXCEPT !.state = "COMPLETED"]
  <2>1. /\ With(a, "COMPLETED").state = "COMPLETED" /\ With(a, "COMPLETED").time = a.time
        /\ With(a, "COMPLETED").preferred = a.preferred
    BY AnnouncementFacts DEF States
  <2> QED BY <2>1 DEF Coarse, Candidates
<1> QED BY ZenonT(30), <1>1, <1>2, <1>3, <1>4, <1>5

LEMMA AbsRow ==
  ASSUME NEW row \in Rows
  PROVE  /\ Abs(row) = [p \in Peer |-> Abs(row)[p]]
         /\ \A p \in Peer : Abs(row)[p] = IF row[p] = None THEN None ELSE Coarse(row[p])
<1>1. ASSUME NEW p \in Peer, row[p] # None, row[p].state \in Candidates
      PROVE  [row[p] EXCEPT !.state = "CANDIDATE"] = Coarse(row[p])
  <2>1. row[p] \in Announcement
    BY <1>1 DEF Rows
  <2> QED BY <1>1, <2>1 DEF Announcement, Coarse
<1>2. ASSUME NEW p \in Peer, row[p] # None, row[p].state \notin Candidates
      PROVE  row[p] = Coarse(row[p])
  <2>1. row[p] \in Announcement
    BY <1>2 DEF Rows
  <2> QED BY <1>2, <2>1 DEF Announcement, Coarse
<1>3. \A p \in Peer : Abs(row)[p] = IF row[p] # None /\ row[p].state \in Candidates
                                    THEN [row[p] EXCEPT !.state = "CANDIDATE"] ELSE row[p]
  BY DEF Abs
<1>4. Abs(row) = [p \in Peer |-> Abs(row)[p]]
  BY DEF Abs
<1> QED BY <1>1, <1>2, <1>3, <1>4 DEF In

\* Rows with the same announcements, as the promise knows them, are the same.
LEMMA AbsEqual ==
  ASSUME NEW row \in Rows, NEW new \in Rows,
         \A q \in Peer : (new[q] = None <=> row[q] = None)
                         /\ (row[q] # None => Coarse(new[q]) = Coarse(row[q]))
  PROVE  Abs(new) = Abs(row)
<1>1. \A q \in Peer : Abs(new)[q] = Abs(row)[q]
  BY AbsRow
<1>2. Abs(row) = [q \in Peer |-> Abs(row)[q]] /\ Abs(new) = [q \in Peer |-> Abs(new)[q]]
  BY ZenonT(30), AbsRow
<1> QED BY <1>1, <1>2

LEMMA AbsIn ==
  ASSUME NEW row \in Rows
  PROVE  /\ Promised!In(Abs(row), {"CANDIDATE"}) = In(row, Candidates)
         /\ Promised!In(Abs(row), {"REQUESTED"}) = In(row, {"REQUESTED"})
         /\ Promised!In(Abs(row), {"CANDIDATE", "REQUESTED"}) = In(row, Active)
<1>1. \A q \in Peer : row[q] # None => row[q] \in Announcement
  BY DEF Rows
<1>2. ASSUME NEW q \in Peer, row[q] # None
      PROVE  /\ Abs(row)[q] # None
             /\ Abs(row)[q].state = IF row[q].state \in Candidates THEN "CANDIDATE"
                                    ELSE row[q].state
  BY <1>1, <1>2, AbsRow, CoarseFacts
<1>3. \A q \in Peer : row[q] = None => Abs(row)[q] = None
  BY AbsRow
<1>4. "CANDIDATE" \notin Candidates /\ "REQUESTED" \notin Candidates
  BY DEF Candidates
<1>5. \A q \in Peer : row[q] # None => row[q].state # "CANDIDATE"
  BY ZenonT(30), <1>1, AnnouncementFacts DEF States, Candidates
<1> QED BY <1>2, <1>3, <1>4, <1>5 DEF In, Promised!In, Active

LEMMA AbsPriority ==
  ASSUME NEW t \in Tx, NEW row \in Rows, NEW p \in Peer, row[p] # None
  PROVE  Promised!Priority(t, Abs(row), p) = Priority(t, row, p)
<1>1. Abs(row)[p].preferred = row[p].preferred
  BY AbsRow, CoarseFacts DEF Rows
<1> QED BY <1>1 DEF Promised!Priority, Priority

LEMMA AbsForgotten == Abs(Forgotten) = Promised!Forgotten
BY DEF Abs, Forgotten, Promised!Forgotten, In

\* A row in order has nothing to clean.
LEMMA AbsClean ==
  ASSUME NEW t \in Tx, NEW row \in Rows, RowOK(t, row)
  PROVE  Promised!Clean(Abs(row)) = Abs(row)
<1>1. CASE In(row, Active) # {}
  BY <1>1, AbsIn DEF Promised!Clean
<1>2. CASE In(row, Active) = {}
  <2>1. \A q \in Peer : row[q] = None
    BY <1>2 DEF RowOK
  <2>2. row = Forgotten
    BY <2>1 DEF Rows, Forgotten
  <2> QED BY <2>2, AbsForgotten DEF Promised!Clean
<1> QED BY <1>1, <1>2

LEMMA AbsReselect ==
  ASSUME NEW t \in Tx, NEW row \in Rows, NEW p \in Peer, row[p] # None,
         NEW state \in {"COMPLETED", "CANDIDATE_DELAYED"},
         ChangeAndReselect(t, row, p, state) \in Rows,
         SameBut(row, ChangeAndReselect(t, row, p, state))
  PROVE  /\ state = "COMPLETED" => Abs(ChangeAndReselect(t, row, p, state))
                                   = [Abs(row) EXCEPT ![p].state = "COMPLETED"]
         /\ state = "CANDIDATE_DELAYED" /\ row[p].state \in Candidates =>
              Abs(ChangeAndReselect(t, row, p, state)) = Abs(row)
<1> DEFINE new == ChangeAndReselect(t, row, p, state)
           moved == In(row, {"CANDIDATE_READY"})
<1>1. \A q \in Peer : row[q] # None => row[q] \in Announcement
  BY DEF Rows
<1>2. new[p] = With(row[p], state)
  BY DEF ChangeAndReselect, With
<1>3. \A q \in Peer : q # p =>
        new[q] = row[q] \/ (q \in moved /\ new[q] = With(row[q], "CANDIDATE_BEST"))
  BY ZenonT(30) DEF ChangeAndReselect, With, NextBest
<1> HIDE DEF new
<1>4. ASSUME NEW q \in Peer, row[q] # None, q # p PROVE Coarse(new[q]) = Coarse(row[q])
  <2>1. CASE new[q] = row[q]
    BY <2>1
  <2>2. CASE q \in moved /\ new[q] = With(row[q], "CANDIDATE_BEST")
    <3>1. row[q].state \in Candidates /\ "CANDIDATE_BEST" \in Candidates
      BY ZenonT(30), <2>2 DEF In, Candidates
    <3> QED BY <1>1, <1>4, <2>2, <3>1, CoarseFacts
  <2> QED BY ZenonT(30), <1>3, <1>4, <2>1, <2>2
<1>5. ASSUME state = "CANDIDATE_DELAYED", row[p].state \in Candidates PROVE Abs(new) = Abs(row)
  <2>1. Coarse(new[p]) = Coarse(row[p])
    BY <1>1, <1>2, <1>5, CoarseFacts DEF Candidates
  <2> QED BY <1>4, <2>1, AbsEqual DEF SameBut, new
<1>6. ASSUME state = "COMPLETED" PROVE Abs(new) = [Abs(row) EXCEPT ![p].state = "COMPLETED"]
  <2>1. Coarse(new[p]) = [Coarse(row[p]) EXCEPT !.state = "COMPLETED"]
    BY ZenonT(30), <1>1, <1>2, <1>6, CoarseFacts
  <2>2. \A q \in Peer : new[q] = None <=> row[q] = None
    BY DEF SameBut, new
  <2>3. Abs(new)[p] = [Abs(row)[p] EXCEPT !.state = "COMPLETED"]
    BY ZenonT(30), <2>1, <2>2, AbsRow DEF new
  <2>4. \A q \in Peer : q # p => Abs(new)[q] = Abs(row)[q]
    BY <1>4, <2>2, AbsRow DEF new
  <2>5. Abs(row) = [q \in Peer |-> Abs(row)[q]] /\ Abs(new) = [q \in Peer |-> Abs(new)[q]]
    BY ZenonT(30), AbsRow DEF new
  <2> QED BY <2>3, <2>4, <2>5
<1> QED BY <1>5, <1>6 DEF new

LEMMA AbsPromoted ==
  ASSUME NEW t \in Tx, NEW row \in Rows, NEW p \in Peer, row[p] # None,
         row[p].state = "CANDIDATE_DELAYED", PromoteCandidateReady(t, row, p) \in Rows,
         SameBut(row, PromoteCandidateReady(t, row, p))
  PROVE  Abs(PromoteCandidateReady(t, row, p)) = Abs(row)
<1> DEFINE new == PromoteCandidateReady(t, row, p)
<1>1. \A q \in Peer : row[q] # None => row[q] \in Announcement
  BY DEF Rows
<1>2. \A q \in Peer : \/ new[q] = row[q]
                      \/ /\ q = p \/ q \in In(row, {"CANDIDATE_BEST"})
                         /\ \E s \in {"CANDIDATE_READY", "CANDIDATE_BEST"} : new[q] = With(row[q], s)
  BY DEF PromoteCandidateReady, With, SetState, Rows
<1> HIDE DEF new
<1>3. ASSUME NEW q \in Peer, row[q] # None PROVE Coarse(new[q]) = Coarse(row[q])
  <2>1. CASE new[q] = row[q]
    BY <2>1
  <2>2. CASE /\ q = p \/ q \in In(row, {"CANDIDATE_BEST"})
             /\ \E s \in {"CANDIDATE_READY", "CANDIDATE_BEST"} : new[q] = With(row[q], s)
    <3>1. row[q].state \in Candidates
      BY ZenonT(30), <2>2 DEF In, Candidates
    <3>2. PICK s \in Candidates : new[q] = With(row[q], s)
      BY <2>2 DEF Candidates
    <3>3. row[q] \in Announcement
      BY ZenonT(30), <1>1, <1>3
    <3>4. Coarse(With(row[q], s)) = Coarse(row[q])
      BY ZenonT(30), <3>1, <3>3, CoarseFacts
    <3> QED BY ZenonT(30), <3>2, <3>4
  <2> QED BY ZenonT(30), <1>2, <2>1, <2>2
<1> QED BY <1>3, AbsEqual DEF SameBut, new

\* Completing or erasing an announcement leaves the others that are not
\* completed.
LEMMA AbsWithout ==
  ASSUME NEW row \in Rows, NEW p \in Peer, row[p] # None, NEW x,
         \/ x = [Abs(row) EXCEPT ![p].state = "COMPLETED"]
         \/ x = [Abs(row) EXCEPT ![p] = None]
  PROVE  Promised!In(x, {"CANDIDATE", "REQUESTED"}) = In(row, Active) \ {p}
<1>1. \A q \in Peer : q # p => x[q] = Abs(row)[q]
  BY AbsRow
<1>2. x[p] = None \/ x[p].state = "COMPLETED"
  <2>1. Abs(row)[p] \in Records
    BY AbsRow, CoarseFacts DEF Rows
  <2>2. [Abs(row)[p] EXCEPT !.state = "COMPLETED"].state = "COMPLETED"
    BY <2>1 DEF Records
  <2>3. x[p] = None \/ x[p] = [Abs(row)[p] EXCEPT !.state = "COMPLETED"]
    BY AbsRow
  <2> QED BY ZenonT(30), <2>2, <2>3
<1>3. Promised!In(Abs(row), {"CANDIDATE", "REQUESTED"}) = In(row, Active)
  BY AbsIn
<1>4. p \notin Promised!In(x, {"CANDIDATE", "REQUESTED"})
  BY <1>2 DEF Promised!In
<1>5. \A q \in Peer : q # p => (q \in Promised!In(x, {"CANDIDATE", "REQUESTED"})
                                <=> q \in Promised!In(Abs(row), {"CANDIDATE", "REQUESTED"}))
  BY <1>1 DEF Promised!In
<1>6. Promised!In(x, {"CANDIDATE", "REQUESTED"}) \subseteq Peer /\ In(row, Active) \subseteq Peer
  BY DEF In, Promised!In
<1> QED BY <1>3, <1>4, <1>5, <1>6

LEMMA AbsCompleted ==
  ASSUME NEW t \in Tx, NEW row \in Rows, RowOK(t, row), NEW p \in Peer, row[p] # None
  PROVE  Abs(MakeCompleted(t, row, p)) = Promised!Complete(Abs(row), p)
<1> DEFINE x == [Abs(row) EXCEPT ![p].state = "COMPLETED"]
<1>1. Promised!In(x, {"CANDIDATE", "REQUESTED"}) = In(row, Active) \ {p}
  BY AbsWithout
<1>2. Promised!Complete(Abs(row), p) = IF In(row, Active) \ {p} = {} THEN Promised!Forgotten ELSE x
  BY ZenonT(30), <1>1 DEF Promised!Complete, Promised!Clean
<1> HIDE DEF x
<1>3. CASE row[p].state = "COMPLETED"
  <2>1. p \notin In(row, Active) /\ In(row, Active) # {}
    BY <1>3 DEF In, Active, Candidates, RowOK
  <2>2. x = Abs(row)
    <3>1. row[p] \in Announcement
      BY DEF Rows
    <3>2. Abs(row)[p] = Coarse(row[p]) /\ Coarse(row[p]) \in Records /\ Coarse(row[p]).state = "COMPLETED"
      BY <1>3, <3>1, AbsRow, CoarseFacts DEF Candidates
    <3>3. [Abs(row)[p] EXCEPT !.state = "COMPLETED"] = Abs(row)[p]
      BY <3>2 DEF Records
    <3>4. Abs(row) = [q \in Peer |-> Abs(row)[q]]
      BY AbsRow
    <3> QED BY <3>3, <3>4 DEF x
  <2>3. MakeCompleted(t, row, p) = row
    BY <1>3 DEF MakeCompleted
  <2> QED BY ZenonT(30), <1>2, <2>1, <2>2, <2>3
<1>4. CASE row[p].state # "COMPLETED"
  <2>1. p \in In(row, Active)
    BY <1>4, AnnouncementFacts DEF In, Active, States, Rows
  <2>2. IsOnlyNonCompleted(row, p) <=> In(row, Active) \ {p} = {}
    BY ZenonT(30), <2>1 DEF IsOnlyNonCompleted, Active
  <2>3. CASE IsOnlyNonCompleted(row, p)
    BY ZenonT(30), <1>2, <1>4, <2>2, <2>3, AbsForgotten DEF MakeCompleted
  <2>4. CASE ~IsOnlyNonCompleted(row, p)
    <3>1. MakeCompleted(t, row, p) = ChangeAndReselect(t, row, p, "COMPLETED")
      BY <1>4, <2>4 DEF MakeCompleted
    <3>2. \E q \in In(row, Active) : q # p
      BY <2>2, <2>4
    <3>3. /\ ChangeAndReselect(t, row, p, "COMPLETED") \in Rows
          /\ SameBut(row, ChangeAndReselect(t, row, p, "COMPLETED"))
      BY <3>2, ReselectRow
    <3>4. Abs(ChangeAndReselect(t, row, p, "COMPLETED")) = x
      BY <3>3, AbsReselect DEF x
    <3> QED BY ZenonT(30), <1>2, <2>2, <2>4, <3>1, <3>4
  <2> QED BY <2>3, <2>4
<1> QED BY <1>3, <1>4

LEMMA AbsErased ==
  ASSUME NEW row \in Rows, NEW p \in Peer, NEW a \in Announcement \cup {None}
  PROVE  Abs([row EXCEPT ![p] = a]) = [Abs(row) EXCEPT ![p] = IF a = None THEN None ELSE Coarse(a)]
<1> DEFINE new == [row EXCEPT ![p] = a]
<1>1. new \in Rows /\ \A q \in Peer : new[q] = IF q = p THEN a ELSE row[q]
  BY DEF Rows
<1> HIDE DEF new
<1>2. Abs(new) = [q \in Peer |-> Abs(new)[q]] /\ Abs(row) = [q \in Peer |-> Abs(row)[q]]
  BY <1>1, AbsRow
<1>3. \A q \in Peer : Abs(new)[q] = IF q = p THEN IF a = None THEN None ELSE Coarse(a)
                                    ELSE Abs(row)[q]
  BY <1>1, AbsRow
<1>4. Abs(new) = [Abs(row) EXCEPT ![p] = IF a = None THEN None ELSE Coarse(a)]
  BY <1>2, <1>3
<1> QED BY <1>4 DEF new

LEMMA AbsDisconnected ==
  ASSUME m_index \in [Tx -> Rows], NEW t \in Tx, RowOK(t, m_index[t]), NEW p \in Peer
  PROVE  Abs(DisconnectedReselect(t, p)) = Promised!Clean([Abs(m_index[t]) EXCEPT ![p] = None])
<1> DEFINE row == m_index[t]
           x == [Abs(row) EXCEPT ![p] = None]
<1>1. row \in Rows /\ Abs(row) = [q \in Peer |-> Abs(row)[q]]
  BY AbsRow
<1>2. CASE row[p] = None
  <2>1. Abs(row)[p] = None
    BY ZenonT(30), <1>1, <1>2, AbsRow
  <2>2. x = Abs(row)
    BY <1>1, <2>1
  <2>3. Promised!Clean(Abs(row)) = Abs(row)
    BY <1>1, AbsClean
  <2> QED BY <1>2, <2>2, <2>3 DEF DisconnectedReselect
<1>3. CASE row[p] # None
  <2> DEFINE mc == MakeCompleted(t, row, p)
             y == [Abs(row) EXCEPT ![p].state = "COMPLETED"]
  <2>1. DisconnectedReselect(t, p) = [mc EXCEPT ![p] = None] /\ mc \in Rows
    BY <1>1, <1>3, CompletedRow DEF DisconnectedReselect
  <2>2. Abs([mc EXCEPT ![p] = None]) = [Abs(mc) EXCEPT ![p] = None]
    BY ZenonT(30), <2>1, AbsErased
  <2>3. /\ Promised!In(x, {"CANDIDATE", "REQUESTED"}) = In(row, Active) \ {p}
        /\ Promised!In(y, {"CANDIDATE", "REQUESTED"}) = In(row, Active) \ {p}
    BY ZenonT(30), <1>1, <1>3, AbsWithout
  <2>4. Abs(mc) = IF In(row, Active) \ {p} = {} THEN Promised!Forgotten ELSE y
    <3>1. Abs(mc) = Promised!Complete(Abs(row), p)
      BY <1>1, <1>3, AbsCompleted
    <3>2. Promised!Complete(Abs(row), p) = Promised!Clean(y)
      BY DEF Promised!Complete
    <3> HIDE DEF y, mc, row
    <3> QED BY ZenonT(30), <2>3, <3>1, <3>2 DEF Promised!Clean
  <2>5. Promised!Clean(x) = IF In(row, Active) \ {p} = {} THEN Promised!Forgotten ELSE x
    BY ZenonT(30), <2>3 DEF Promised!Clean
  <2>6. [y EXCEPT ![p] = None] = x
    BY ZenonT(30), <1>1
  <2>7. [Promised!Forgotten EXCEPT ![p] = None] = Promised!Forgotten
    BY ZenonT(30) DEF Promised!Forgotten
  <2> HIDE DEF x, y, mc
  <2>8. [Abs(mc) EXCEPT ![p] = None] = Promised!Clean(x)
    BY ZenonT(30), <2>4, <2>5, <2>6, <2>7
  <2> QED BY ZenonT(30), <2>1, <2>2, <2>8 DEF x
<1> QED BY ZenonT(30), <1>2, <1>3

\* What a request does to a row of the promise.
Asked(row, p, expiry) ==
  [q \in Peer |-> CASE q = p -> [row[p] EXCEPT !.state = "REQUESTED", !.time = expiry]
                    [] q \in Promised!In(row, {"REQUESTED"}) -> [row[q] EXCEPT !.state = "COMPLETED"]
                    [] OTHER -> row[q]]

LEMMA AbsRequested ==
  ASSUME m_index \in [Tx -> Rows], NEW t \in Tx, RowOK(t, m_index[t]), NEW expiry \in Time,
         NEW p \in In(m_index[t], Candidates)
  PROVE  Abs(RequestedRow(t, p, expiry)) = Asked(Abs(m_index[t]), p, expiry)
<1> DEFINE row == m_index[t]
           new == RequestedRow(t, p, expiry)
           asked == [row[p] EXCEPT !.state = "REQUESTED", !.time = expiry]
           best == In(row, {"CANDIDATE_BEST"})
           req == In(row, {"REQUESTED"})
<1>1. row \in Rows /\ p \in Peer /\ row[p] \in Announcement /\ row[p] # None
  BY DEF In, Rows
<1>2. new \in Rows
  BY RequestedRowOK
<1>3. /\ new[p] = asked
      /\ \A q \in Peer : q # p => new[q] = IF q \in best THEN With(row[q], "CANDIDATE_READY")
                                           ELSE IF q \in req THEN With(row[q], "COMPLETED")
                                           ELSE row[q]
  <2>1. \A q \in req : q \notin best
    BY ZenonT(30) DEF In
  <2> QED BY ZenonT(30), <1>1, <2>1 DEF RequestedRow, With
<1>4. /\ \A q \in best : row[q] # None /\ row[q].state = "CANDIDATE_BEST"
      /\ \A q \in req : row[q] # None /\ row[q].state = "REQUESTED" /\ q \notin best /\ q # p
  BY DEF In, Candidates
<1>5. \A q \in Peer : row[q] # None => row[q] \in Announcement
  BY <1>1 DEF Rows
<1>6. asked \in Announcement /\ Coarse(asked) = [Coarse(row[p]) EXCEPT !.state = "REQUESTED", !.time = expiry]
  <2>1. asked \in Announcement /\ asked.state = "REQUESTED" /\ asked.time = expiry
        /\ asked.preferred = row[p].preferred
    BY ZenonT(30), <1>1 DEF Announcement
  <2>2. Coarse(asked) = [state |-> "REQUESTED", time |-> expiry, preferred |-> row[p].preferred]
    BY <2>1 DEF Coarse, Candidates
  <2>3. [Coarse(row[p]) EXCEPT !.state = "REQUESTED", !.time = expiry]
          = [state |-> "REQUESTED", time |-> expiry, preferred |-> row[p].preferred]
    <3>1. Coarse(row[p]) \in Records /\ Coarse(row[p]).preferred = row[p].preferred
      BY <1>1, CoarseFacts
    <3> DEFINE x == [Coarse(row[p]) EXCEPT !.state = "REQUESTED", !.time = expiry]
    <3>2. x \in Records /\ x.state = "REQUESTED" /\ x.time = expiry /\ x.preferred = row[p].preferred
      BY ZenonT(30), <3>1 DEF Records
    <3> HIDE DEF x
    <3>3. x = [state |-> "REQUESTED", time |-> expiry, preferred |-> row[p].preferred]
      BY <3>2 DEF Records
    <3> QED BY <3>3 DEF x
  <2> QED BY <2>1, <2>2, <2>3
<1>7. asked # None
  BY ZenonT(30), <1>6, AnnouncementFacts
<1>8. req = Promised!In(Abs(row), {"REQUESTED"})
  BY ZenonT(30), <1>1, AbsIn
<1>9. /\ \A q \in Peer : Abs(row)[q] = IF row[q] = None THEN None ELSE Coarse(row[q])
      /\ \A q \in Peer : Abs(new)[q] = IF new[q] = None THEN None ELSE Coarse(new[q])
      /\ Abs(new) = [q \in Peer |-> Abs(new)[q]]
  BY <1>1, <1>2, AbsRow
<1> HIDE DEF row, new, asked, best, req
<1>10. Abs(new)[p] = [Abs(row)[p] EXCEPT !.state = "REQUESTED", !.time = expiry]
  BY ZenonT(30), <1>1, <1>3, <1>6, <1>7, <1>9
<1>11. ASSUME NEW q \in Peer, q # p
       PROVE  Abs(new)[q] = IF q \in req THEN [Abs(row)[q] EXCEPT !.state = "COMPLETED"]
                            ELSE Abs(row)[q]
  <2>1. CASE q \in best
    <3>1. row[q] \in Announcement /\ "CANDIDATE_READY" \in Candidates /\ "CANDIDATE_READY" \in States
          /\ row[q].state \in Candidates
      BY ZenonT(30), <1>4, <1>5, <2>1 DEF Candidates, States
    <3>2. new[q] # None /\ Coarse(new[q]) = Coarse(row[q])
      BY <1>3, <1>11, <2>1, <3>1, CoarseFacts, AnnouncementFacts
    <3> QED BY ZenonT(30), <1>4, <1>9, <2>1, <3>2
  <2>2. CASE q \in req
    <3>1. row[q] \in Announcement /\ "COMPLETED" \in States
      BY <1>4, <1>5, <2>2 DEF States
    <3>2. new[q] # None /\ Coarse(new[q]) = [Coarse(row[q]) EXCEPT !.state = "COMPLETED"]
      <4>1. new[q] = With(row[q], "COMPLETED")
        BY ZenonT(30), <1>3, <1>4, <1>11, <2>2
      <4>2. With(row[q], "COMPLETED") # None
        BY <3>1, AnnouncementFacts
      <4>3. Coarse(With(row[q], "COMPLETED")) = [Coarse(row[q]) EXCEPT !.state = "COMPLETED"]
        BY <3>1, CoarseFacts
      <4> QED BY ZenonT(30), <4>1, <4>2, <4>3
    <3> QED BY ZenonT(30), <1>4, <1>9, <2>2, <3>2
  <2>3. CASE q \notin best /\ q \notin req
    BY ZenonT(30), <1>3, <1>9, <1>11, <2>3
  <2> QED BY <2>1, <2>2, <2>3
<1>12. Abs(new) =
         [q \in Peer |-> CASE q = p -> [Abs(row)[p] EXCEPT !.state = "REQUESTED", !.time = expiry]
                           [] q \in req -> [Abs(row)[q] EXCEPT !.state = "COMPLETED"]
                           [] OTHER -> Abs(row)[q]]
  BY <1>4, <1>9, <1>10, <1>11
<1> QED BY <1>8, <1>12 DEF row, new, Asked

-----------------------------------------------------------------------------
\* The variable of the promise.
LEMMA AbsIndex ==
  /\ absIndex = [t \in Tx |-> [p \in Peer |->
                   IF m_index[t][p] # None /\ m_index[t][p].state \in Candidates
                   THEN [m_index[t][p] EXCEPT !.state = "CANDIDATE"] ELSE m_index[t][p]]]
  /\ \A t \in Tx : absIndex[t] = Abs(m_index[t])
BY DEF absIndex, Abs

LEMMA AbsIndexNext ==
  /\ absIndex' = [t \in Tx |-> [p \in Peer |->
                    IF m_index'[t][p] # None /\ m_index'[t][p].state \in Candidates
                    THEN [m_index'[t][p] EXCEPT !.state = "CANDIDATE"] ELSE m_index'[t][p]]]
  /\ absIndex' = [t \in Tx |-> Abs(m_index'[t])]
BY DEF absIndex, Abs, In

\* One row changes.
LEMMA AbsStep ==
  ASSUME m_index \in [Tx -> Rows], NEW t \in Tx, NEW new, m_index' = [m_index EXCEPT ![t] = new]
  PROVE  absIndex' = [absIndex EXCEPT ![t] = Abs(new)]
<1>1. \A u \in Tx : m_index'[u] = IF u = t THEN new ELSE m_index[u]
  OBVIOUS
<1>2. absIndex' = [u \in Tx |-> Abs(m_index'[u])] /\ absIndex = [u \in Tx |-> Abs(m_index[u])]
  BY AbsIndexNext DEF absIndex
<1>3. absIndex' = [u \in Tx |-> IF u = t THEN Abs(new) ELSE Abs(m_index[u])]
  BY <1>1, <1>2
<1> QED BY <1>2, <1>3

LEMMA AbsUnchanged ==
  ASSUME m_index' = m_index
  PROVE  absIndex' = absIndex
BY ZenonT(30) DEF absIndex, Abs, In

\* At the end of SetTimePoint the best announcement of a hash is the one the
\* promise would choose.
LEMMA AbsChoice ==
  ASSUME Ordered, NEW t \in Tx, NEW p \in Peer, Past(t) = {}, Future(t) = {}, now \in Nat
  PROVE  p \in In(m_index[t], {"CANDIDATE_BEST"}) <=>
           /\ In(m_index[t], {"REQUESTED"}) = {}
           /\ p \in In(m_index[t], Candidates) /\ m_index[t][p].time <= now
           /\ \A q \in In(m_index[t], Candidates) : m_index[t][q].time <= now =>
                Priority(t, m_index[t], q) <= Priority(t, m_index[t], p)
<1> DEFINE row == m_index[t]
<1>1. row \in Rows /\ RowOK(t, row)
  BY DEF Ordered, Types
<1>2. \A q \in Peer : row[q] # None => row[q] \in Announcement /\ row[q].time \in Nat
  BY ZenonT(30), <1>1, AnnouncementFacts, TxRequestAssumption DEF Rows
<1>3. \A q \in In(row, Selectable) : row[q].time <= now
  BY <1>2 DEF Future, In
<1>4. \A q \in In(row, Candidates) : row[q].time <= now => q \in In(row, Selectable)
  BY DEF Past, Waiting, In, Candidates, Selectable
<1>5. In(row, Selectable) = In(row, {"CANDIDATE_READY"}) \cup In(row, {"CANDIDATE_BEST"})
  BY DEF In, Selectable
<1>6. In(row, Selected) = In(row, {"REQUESTED"}) \cup In(row, {"CANDIDATE_BEST"})
  BY DEF In, Selected
<1>7. In(row, Selectable) \subseteq In(row, Candidates)
  BY ZenonT(30) DEF In, Selectable, Candidates
<1>8. /\ \A q \in In(row, Candidates) : q \in Peer /\ row[q] # None
      /\ \A q \in In(row, {"CANDIDATE_BEST"}) : q \notin In(row, {"REQUESTED"})
      /\ \A q \in In(row, {"CANDIDATE_BEST"}) : q \notin In(row, {"CANDIDATE_READY"})
  BY ZenonT(30) DEF In
<1>9. \A q \in In(row, Candidates) : Priority(t, row, q) \in Nat
  BY ZenonT(30), <1>1, <1>8, PriorityNat
<1> HIDE DEF row
<1>10. ASSUME p \in In(row, {"CANDIDATE_BEST"})
       PROVE  /\ In(row, {"REQUESTED"}) = {}
              /\ p \in In(row, Candidates) /\ row[p].time <= now
              /\ \A q \in In(row, Candidates) : row[q].time <= now =>
                   Priority(t, row, q) <= Priority(t, row, p)
  <2>1. In(row, {"REQUESTED"}) = {}
    BY ZenonT(30), <1>1, <1>6, <1>8, <1>10 DEF RowOK
  <2>2. p \in In(row, Candidates) /\ row[p].time <= now
    BY ZenonT(30), <1>3, <1>5, <1>7, <1>10
  <2>3. ASSUME NEW q \in In(row, Candidates), row[q].time <= now
        PROVE  Priority(t, row, q) <= Priority(t, row, p)
    <3>1. q \in In(row, {"CANDIDATE_READY"}) \/ q \in In(row, {"CANDIDATE_BEST"})
      BY ZenonT(30), <1>4, <1>5, <2>3
    <3>2. CASE q \in In(row, {"CANDIDATE_READY"})
      BY ZenonT(30), <1>1, <1>10, <3>2 DEF RowOK
    <3>3. CASE q \in In(row, {"CANDIDATE_BEST"})
      <4>1. q = p
        BY ZenonT(30), <1>1, <1>6, <1>10, <3>3 DEF RowOK
      <4> QED BY <1>9, <4>1
    <3> QED BY ZenonT(30), <3>1, <3>2, <3>3
  <2> QED BY ZenonT(30), <2>1, <2>2, <2>3
<1>11. ASSUME In(row, {"REQUESTED"}) = {}, p \in In(row, Candidates), row[p].time <= now,
              \A q \in In(row, Candidates) : row[q].time <= now =>
                Priority(t, row, q) <= Priority(t, row, p)
       PROVE  p \in In(row, {"CANDIDATE_BEST"})
  <2> SUFFICES ASSUME p \in In(row, {"CANDIDATE_READY"}) PROVE FALSE
    BY ZenonT(30), <1>4, <1>5, <1>11
  <2>1. PICK b \in In(row, {"CANDIDATE_BEST"}) : TRUE
    BY ZenonT(30), <1>1, <1>6, <1>11 DEF RowOK
  <2>2. Priority(t, row, p) <= Priority(t, row, b)
    BY ZenonT(30), <1>1, <2>1 DEF RowOK
  <2>3. b \in In(row, Candidates) /\ Priority(t, row, b) <= Priority(t, row, p)
    BY ZenonT(30), <1>3, <1>5, <1>7, <1>11, <2>1
  <2>4. Priority(t, row, p) = Priority(t, row, b)
    <3>1. Priority(t, row, p) \in Nat /\ Priority(t, row, b) \in Nat
      BY ZenonT(30), <1>9, <1>11, <2>3
    <3>2. \A x, y \in Nat : x <= y /\ y <= x => x = y
      OBVIOUS
    <3> QED BY ZenonT(30), <2>2, <2>3, <3>1, <3>2
  <2>5. p = b
    BY ZenonT(30), <1>1, <1>8, <1>11, <2>3, <2>4, PriorityInjective
  <2> QED BY ZenonT(30), <1>8, <2>1, <2>5
<1> QED BY ZenonT(30), <1>10, <1>11 DEF row

\* Every step of the tracker is one of the promise.
LEMMA StepRefines ==
  ASSUME Ordered, Looped, [Next]_vars
  PROVE  [Promised!Next]_(Promised!vars)
<1>1. /\ m_index \in [Tx -> Rows] /\ asker \in Peer \cup {None} /\ now \in Nat
      /\ \A t \in Tx : RowOK(t, m_index[t]) /\ m_index[t] \in Rows
  BY ZenonT(30), TxRequestAssumption DEF Ordered, Types
<1>2. /\ absIndex = [t \in Tx |-> Abs(m_index[t])]
      /\ \A t \in Tx : absIndex[t] = Abs(m_index[t])
  BY ZenonT(30), AbsIndex DEF absIndex
<1>3. ASSUME NEW p \in Peer, NEW t \in Tx, ReceivedResponse(p, t) PROVE Promised!Next
  <2>1. absIndex[t][p] = None <=> m_index[t][p] = None
    BY <1>1, <1>2, AbsRow, CoarseFacts DEF Rows
  <2>2. absIndex' = IF absIndex[t][p] = None THEN absIndex
                    ELSE [absIndex EXCEPT ![t] = Promised!Complete(absIndex[t], p)]
    <3>1. CASE m_index[t][p] = None
      BY ZenonT(30), <1>3, <2>1, <3>1, AbsUnchanged DEF ReceivedResponse
    <3>2. CASE m_index[t][p] # None
      <4>1. absIndex' = [absIndex EXCEPT ![t] = Abs(MakeCompleted(t, m_index[t], p))]
        BY ZenonT(30), <1>1, <1>3, <3>2, AbsStep DEF ReceivedResponse
      <4>2. Abs(MakeCompleted(t, m_index[t], p)) = Promised!Complete(absIndex[t], p)
        BY ZenonT(30), <1>1, <1>2, <3>2, AbsCompleted
      <4> QED BY <2>1, <3>2, <4>1, <4>2
    <3> QED BY ZenonT(30), <3>1, <3>2
  <2>3. Promised!ReceivedResponse(p, t)
    BY ZenonT(30), <1>3, <2>2, AbsIndex, AbsIndexNext DEF ReceivedResponse, Promised!ReceivedResponse
  <2> QED BY <2>3 DEF Promised!Next
<1>4. ASSUME NEW p \in Peer, NEW t \in Tx, Promote(t, p) PROVE UNCHANGED Promised!vars
  <2>1. m_index[t][p] # None /\ m_index[t][p].state = "CANDIDATE_DELAYED"
    BY <1>4 DEF Promote, First, Past, In
  <2>2. Abs(PromoteCandidateReady(t, m_index[t], p)) = absIndex[t]
    BY ZenonT(30), <1>1, <1>2, <2>1, PromotedRow, AbsPromoted
  <2>3. absIndex' = [absIndex EXCEPT ![t] = absIndex[t]]
    BY ZenonT(30), <1>1, <1>4, <2>2, AbsStep DEF Promote
  <2>4. absIndex' = absIndex
    BY ZenonT(30), <1>2, <2>3
  <2> QED BY ZenonT(30), <1>4, <2>4, AbsIndex, AbsIndexNext DEF Promote, Promised!vars
<1>5. ASSUME NEW p \in Peer, NEW t \in Tx, Demote(t, p) PROVE UNCHANGED Promised!vars
  <2> DEFINE new == ChangeAndReselect(t, m_index[t], p, "CANDIDATE_DELAYED")
  <2>1. m_index[t][p] # None /\ m_index[t][p].state \in Candidates
    BY ZenonT(30), <1>5 DEF Demote, Last, Future, In, Selectable, Candidates
  <2>2. Abs(new) = absIndex[t]
    BY <1>1, <1>2, <2>1, ReselectRow, AbsReselect
  <2>3. absIndex' = [absIndex EXCEPT ![t] = absIndex[t]]
    BY ZenonT(30), <1>1, <1>5, <2>2, AbsStep DEF Demote
  <2>4. absIndex' = absIndex
    BY <1>2, <2>3
  <2> QED BY ZenonT(30), <1>5, <2>4, AbsIndex, AbsIndexNext DEF Demote, Promised!vars
<1>6. ASSUME NEW p \in Peer, NEW t \in Tx, Expire(t, p) PROVE Promised!Next
  <2>1. /\ p \in In(m_index[t], {"REQUESTED"}) /\ m_index[t][p] # None /\ asker # None
        /\ m_index[t][p].time <= now
    BY <1>6 DEF Expire, First, Past, In, Ordered, Types
  <2>2. absIndex' = [absIndex EXCEPT ![t] = Promised!Complete(absIndex[t], p)]
    <3>1. absIndex' = [absIndex EXCEPT ![t] = Abs(MakeCompleted(t, m_index[t], p))]
      BY ZenonT(30), <1>1, <1>6, AbsStep DEF Expire
    <3>2. Abs(MakeCompleted(t, m_index[t], p)) = Promised!Complete(absIndex[t], p)
      BY ZenonT(30), <1>1, <1>2, <2>1, AbsCompleted
    <3> QED BY <3>1, <3>2
  <2>3. p \in Promised!In(absIndex[t], {"REQUESTED"}) /\ absIndex[t][p].time <= now
    <3>1. p \in Promised!In(absIndex[t], {"REQUESTED"})
      BY ZenonT(30), <1>1, <1>2, <2>1, AbsIn
    <3>2. absIndex[t][p].time = m_index[t][p].time
      BY <1>1, <1>2, <2>1, AbsRow, CoarseFacts DEF Rows
    <3> QED BY ZenonT(30), <2>1, <3>1, <3>2
  <2>4. p \in Promised!Expired(t)
    BY <2>3, AbsIndex DEF Promised!Expired
  <2>5. Promised!Expire
    <3>1. UNCHANGED <<asker, now, offered>>
      BY <1>6 DEF Expire
    <3> QED BY ZenonT(30), <2>1, <2>2, <2>4, <3>1 DEF absIndex, Abs, Promised!Expire
  <2> QED BY ZenonT(30), <2>5 DEF Promised!Next
<1>7. ASSUME NEW p \in Peer, NEW t \in Tx, NEW time \in Time, RequestedTx(p, t, time)
      PROVE  Promised!Next
  <2>1. p \in In(m_index[t], Candidates) <=> p \in Promised!In(absIndex[t], {"CANDIDATE"})
    BY ZenonT(30), <1>1, <1>2, AbsIn
  <2>2. absIndex' = IF p \notin Promised!In(absIndex[t], {"CANDIDATE"}) THEN absIndex
                    ELSE [absIndex EXCEPT ![t] = Asked(absIndex[t], p, time)]
    <3>1. CASE p \notin In(m_index[t], Candidates)
      BY ZenonT(30), <1>7, <2>1, <3>1, AbsUnchanged DEF RequestedTx
    <3>2. CASE p \in In(m_index[t], Candidates)
      <4>1. absIndex' = [absIndex EXCEPT ![t] = Abs(RequestedRow(t, p, time))]
        BY ZenonT(30), <1>1, <1>7, <3>2, AbsStep DEF RequestedTx
      <4>2. Abs(RequestedRow(t, p, time)) = Asked(absIndex[t], p, time)
        BY ZenonT(30), <1>1, <1>2, <3>2, AbsRequested
      <4> QED BY ZenonT(30), <2>1, <3>2, <4>1, <4>2
    <3> QED BY ZenonT(30), <3>1, <3>2
  <2>3. Promised!RequestedTx(p, t, time)
    <3>1. /\ asker = None /\ UNCHANGED <<asker, now>>
          /\ offered' = IF p \notin Promised!In(absIndex[t], {"CANDIDATE"}) THEN offered
                        ELSE {o \in offered : o[2] # t}
      BY ZenonT(30), <1>7, <2>1 DEF RequestedTx
    <3> QED BY ZenonT(30), <2>2, <3>1 DEF absIndex, Abs, Asked, Promised!RequestedTx
  <2> QED BY ZenonT(30), <2>3 DEF Promised!Next
<1>8. ASSUME NEW p \in Peer, NEW t \in Tx, NEW time \in Time, NEW preferred \in BOOLEAN,
             ReceivedInv(p, t, preferred, time)
      PROVE  Promised!Next
  <2> DEFINE a == [state |-> "CANDIDATE_DELAYED", time |-> time, preferred |-> preferred]
             c == [state |-> "CANDIDATE", time |-> time, preferred |-> preferred]
  <2>1. a \in Announcement /\ Coarse(a) = c /\ a # None
    <3>1. a \in Announcement
      BY DEF Announcement, Candidates
    <3>2. Coarse(a) = c
      BY DEF Coarse, Candidates
    <3> QED BY ZenonT(30), <3>1, <3>2, AnnouncementFacts
  <2>2. absIndex[t][p] = None <=> m_index[t][p] = None
    BY <1>1, <1>2, AbsRow, CoarseFacts DEF Rows
  <2>3. absIndex' = IF absIndex[t][p] # None THEN absIndex ELSE [absIndex EXCEPT ![t][p] = c]
    <3>1. CASE m_index[t][p] # None
      BY ZenonT(30), <1>8, <2>2, <3>1, AbsUnchanged DEF ReceivedInv
    <3>2. CASE m_index[t][p] = None
      <4>1. m_index' = [m_index EXCEPT ![t] = [m_index[t] EXCEPT ![p] = a]]
        BY <1>1, <1>8, <3>2 DEF ReceivedInv
      <4>2. absIndex' = [absIndex EXCEPT ![t] = Abs([m_index[t] EXCEPT ![p] = a])]
        BY ZenonT(30), <1>1, <4>1, AbsStep
      <4>3. Abs([m_index[t] EXCEPT ![p] = a]) = [absIndex[t] EXCEPT ![p] = c]
        <5> HIDE DEF a, c
        <5> QED BY <1>1, <1>2, <2>1, AbsErased
      <4> HIDE DEF a, c
      <4>4. absIndex' = [absIndex EXCEPT ![t] = [absIndex[t] EXCEPT ![p] = c]]
        BY ZenonT(30), <4>2, <4>3
      <4> QED BY ZenonT(30), <1>2, <2>2, <3>2, <4>4
    <3> QED BY ZenonT(30), <3>1, <3>2
  <2>4. Promised!ReceivedInv(p, t, preferred, time)
    BY ZenonT(30), <1>8, <2>3, AbsIndex, AbsIndexNext DEF ReceivedInv, Promised!ReceivedInv
  <2> QED BY ZenonT(30), <2>4 DEF Promised!Next
<1>9. ASSUME NEW p \in Peer, DisconnectedPeer(p) PROVE Promised!Next
  <2>1. absIndex' = [t \in Tx |-> Promised!Clean([absIndex[t] EXCEPT ![p] = None])]
    <3>1. \A t \in Tx : m_index'[t] = DisconnectedReselect(t, p)
      BY <1>9 DEF DisconnectedPeer
    <3>2. \A t \in Tx : Abs(m_index'[t]) = Promised!Clean([absIndex[t] EXCEPT ![p] = None])
      BY ZenonT(30), <1>1, <1>2, <3>1, AbsDisconnected
    <3> QED BY ZenonT(30), <3>2, AbsIndexNext
  <2>2. Promised!DisconnectedPeer(p)
    BY ZenonT(30), <1>9, <2>1, AbsIndex, AbsIndexNext DEF DisconnectedPeer, Promised!DisconnectedPeer
  <2> QED BY <2>2 DEF Promised!Next
<1>10. ASSUME NEW p \in Peer, NEW n \in Time, GetRequestable(p, n) PROVE Promised!Next
  <2>1. absIndex' = absIndex
    BY <1>10, AbsUnchanged DEF GetRequestable
  <2>2. Promised!GetRequestable(p, n)
    BY ZenonT(30), <1>10, <2>1, AbsIndex, AbsIndexNext DEF GetRequestable, Promised!GetRequestable
  <2> QED BY <2>2 DEF Promised!Next
<1>11. ASSUME NEW t \in Tx, ForgetTxHash(t) PROVE Promised!Next
  <2>1. absIndex' = [absIndex EXCEPT ![t] = Promised!Forgotten]
    BY ZenonT(30), <1>1, <1>11, AbsStep, AbsForgotten DEF ForgetTxHash
  <2>2. Promised!ForgetTxHash(t)
    BY ZenonT(30), <1>11, <2>1, AbsIndex, AbsIndexNext DEF ForgetTxHash, Promised!ForgetTxHash
  <2> QED BY <2>2 DEF Promised!Next
<1>12. CASE Return
  <2> DEFINE Pick(t) ==
               /\ Promised!In(absIndex[t], {"REQUESTED"}) = {}
               /\ asker \in Promised!Due(t)
               /\ \A q \in Promised!Due(t) :
                    Promised!Priority(t, absIndex[t], q) <= Promised!Priority(t, absIndex[t], asker)
  <2>1. /\ asker \in Peer /\ asker # None /\ absIndex' = absIndex
        /\ \A t \in Tx : Past(t) = {} /\ Future(t) = {}
    <3>1. loop = "future" /\ m_index' = m_index /\ \A t \in Tx : Future(t) = {}
      BY ZenonT(30), <1>12 DEF Return
    <3>2. asker \in Peer /\ asker # None
      BY <3>1, TxRequestAssumption DEF Ordered, Types
    <3>3. \A t \in Tx : Past(t) = {}
      <4>1. PastLeft = {}
        BY <3>1 DEF Looped
      <4>2. \A t \in Tx : Past(t) \subseteq Peer
        BY DEF Past, In
      <4>3. ASSUME NEW t \in Tx, NEW q \in Past(t) PROVE FALSE
        <5>1. <<t, q>> \in Tx \X Peer /\ <<t, q>>[1] = t /\ <<t, q>>[2] = q
          BY <4>2
        <5> QED BY ZenonT(30), <4>1, <5>1 DEF PastLeft
      <4> QED BY <4>3
    <3> QED BY ZenonT(30), <3>1, <3>2, <3>3, AbsUnchanged
  <2>2. ASSUME NEW t \in Tx
        PROVE  Promised!Due(t) = {q \in In(m_index[t], Candidates) : m_index[t][q].time <= now}
    <3>1. Promised!In(absIndex[t], {"CANDIDATE"}) = In(m_index[t], Candidates)
      BY ZenonT(30), <1>1, <1>2, AbsIn
    <3>2. \A q \in In(m_index[t], Candidates) : absIndex[t][q].time = m_index[t][q].time
      BY <1>1, <1>2, AbsRow, CoarseFacts DEF Rows, In
    <3>3. Promised!Due(t) = {q \in Promised!In(absIndex[t], {"CANDIDATE"}) : absIndex[t][q].time <= now}
      BY ZenonT(30), AbsIndex DEF Promised!Due
    <3> QED BY ZenonT(30), <3>1, <3>2, <3>3
  <2>3. ASSUME NEW t \in Tx PROVE Promised!Expired(t) = {}
    <3>1. Promised!In(absIndex[t], {"REQUESTED"}) = In(m_index[t], {"REQUESTED"})
      BY ZenonT(30), <1>1, <1>2, AbsIn
    <3>2. \A q \in In(m_index[t], {"REQUESTED"}) : absIndex[t][q].time = m_index[t][q].time
      BY <1>1, <1>2, AbsRow, CoarseFacts DEF Rows, In
    <3>3. Promised!Expired(t) = {q \in Promised!In(absIndex[t], {"REQUESTED"}) : absIndex[t][q].time <= now}
      BY ZenonT(30), AbsIndex DEF Promised!Expired
    <3>4. \A q \in In(m_index[t], {"REQUESTED"}) : ~(m_index[t][q].time <= now)
      BY ZenonT(30), <2>1 DEF Past, Waiting, In
    <3> QED BY ZenonT(30), <3>1, <3>2, <3>3, <3>4
  <2>4. ASSUME NEW t \in Tx
        PROVE  asker \in In(m_index[t], {"CANDIDATE_BEST"}) <=> Pick(t)
    <3>1. Promised!In(absIndex[t], {"REQUESTED"}) = In(m_index[t], {"REQUESTED"})
      BY <1>1, <1>2, AbsIn
    <3>2. \A q \in In(m_index[t], Candidates) :
            Promised!Priority(t, absIndex[t], q) = Priority(t, m_index[t], q)
      BY ZenonT(30), <1>1, <1>2, AbsPriority DEF In
    <3>3. asker \in In(m_index[t], {"CANDIDATE_BEST"}) <=>
            /\ In(m_index[t], {"REQUESTED"}) = {}
            /\ asker \in In(m_index[t], Candidates) /\ m_index[t][asker].time <= now
            /\ \A q \in In(m_index[t], Candidates) : m_index[t][q].time <= now =>
                 Priority(t, m_index[t], q) <= Priority(t, m_index[t], asker)
      BY ZenonT(30), <1>1, <2>1, AbsChoice
    <3> QED BY ZenonT(30), <2>2, <3>1, <3>2, <3>3
  <2>5. offered' = {o \in offered : o[1] # asker} \cup {asker} \X {t \in Tx : Pick(t)}
    <3> HIDE DEF Pick
    <3>1. {t \in Tx : asker \in In(m_index[t], {"CANDIDATE_BEST"})} = {t \in Tx : Pick(t)}
      BY <2>4
    <3> QED BY <1>12, <3>1 DEF Return
  <2>6. Promised!Return
    BY ZenonT(30), <1>12, <2>1, <2>3, <2>5, AbsIndex, AbsIndexNext DEF Return, Promised!Return
  <2> QED BY ZenonT(30), <2>6 DEF Promised!Next
<1>13. CASE EndPast \/ UNCHANGED vars
  <2>1. absIndex' = absIndex
    BY ZenonT(30), <1>13, AbsUnchanged DEF EndPast, vars
  <2> QED BY ZenonT(30), <1>13, <2>1, AbsIndex, AbsIndexNext DEF EndPast, vars, Promised!vars
<1> QED BY ZenonT(30), <1>3, <1>4, <1>5, <1>6, <1>7, <1>8, <1>9, <1>10, <1>11, <1>12, <1>13 DEF Next

LEMMA InitRefines == Init => Promised!Init
<1> SUFFICES ASSUME Init PROVE Promised!Init
  OBVIOUS
<1>1. absIndex = [t \in Tx |-> Promised!Forgotten]
  BY AbsForgotten DEF Init, absIndex
<1> QED BY ZenonT(30), <1>1, AbsIndex DEF Init, Promised!Init

\* The tracker gives the answers of its description, whatever the calls
\* (txrequest.h).
THEOREM TrackerKeepsPromise == Spec => KeepsPromise
<1>1. (Ordered /\ Looped /\ OffersHold) /\ [Next]_vars => [Promised!Next]_(Promised!vars)
  BY ZenonT(30), StepRefines
<1> QED BY <1>1, Invariant, InitRefines, PTL DEF Spec, KeepsPromise, Promised!Spec
=============================================================================
