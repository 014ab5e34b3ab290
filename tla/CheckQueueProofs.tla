-------------------------- MODULE CheckQueueProofs --------------------------
(***************************************************************************)
(* For every number of masters, workers and checks: the counters of the    *)
(* check queue are exact, Complete answers for the checks of its own       *)
(* control, and no wake-up is lost.                                        *)
(*                                                                         *)
(* The argument follows a check from the queue to a batch and out of it.   *)
(* As long as no error is recorded, whatever has left was run and is good. *)
(* A batch that was taken without being run was taken after an error was   *)
(* recorded, and an error is forgotten only when nothing is pending, so    *)
(* that no such batch is left and no error of an earlier control survives. *)
(***************************************************************************)
EXTENDS CheckQueue, FiniteSetTheorems, TLAPS

Holds == {"adding", "notify", "enter", "run", "done", "wait", "woken", "left"}

\* Threads are where they can be, and a master only while it holds the mutex.
Owned ==
  /\ \A w \in Worker : pc[w] \in {"enter", "run", "done", "wait", "woken", "exited"}
  /\ \A m \in Master : pc[m] # "idle" => pc[m] \in Holds /\ m_control_mutex = m
  /\ m_request_stop => m_control_mutex = None

\* What stands in the queue and the batches was added under this control.
Batched ==
  /\ Pending \subseteq added
  /\ m_control_mutex = None => added = {} /\ m_result = None
  /\ \A t \in Thread : pc[t] \in {"run", "done"} <=> batch[t] # {}

\* What is known of the checks in added that are not pending.
Answered(result, pending) ==
  IF result = None THEN added \ pending \subseteq ran \ Bad ELSE result \in added \cap Bad

Results ==
  /\ (\A m \in Master : pc[m] # "left") => Answered(m_result, Pending)
  /\ \A m \in Master : pc[m] = "left" =>
       Pending = {} /\ m_result = None /\ Answered(returned, {})
  /\ \A t \in Thread : batch[t] # {} /\ ~do_work[t] => m_result # None
  /\ \A t \in Thread : pc[t] = "done" /\ do_work[t] =>
       IF local_result[t] = None THEN batch[t] \subseteq ran \ Bad
       ELSE local_result[t] \in batch[t] \cap Bad

QueueInv == TypeOK /\ Owned /\ CountsExact /\ Batched /\ Results

-----------------------------------------------------------------------------
\* Every set of checks or threads is finite.
LEMMA Finite ==
  /\ \A S \in SUBSET Check : IsFiniteSet(S) /\ Cardinality(S) \in Nat
  /\ \A S \in SUBSET Thread : IsFiniteSet(S) /\ Cardinality(S) \in Nat
<1>1. IsFiniteSet(Thread)
  BY ZenonT(30), CheckQueueAssumption, FS_Union DEF Thread
<1> QED BY <1>1, CheckQueueAssumption, FS_Subset, FS_CardinalityType

\* What is pending once a thread has given up its batch and taken another from
\* the queue.
LEMMA PendingMoved ==
  ASSUME TypeOK, CountsExact, NEW t \in Thread, NEW taken \in SUBSET queue,
         queue' = queue \ taken, batch' = [batch EXCEPT ![t] = taken]
  PROVE  /\ Pending' = Pending \ batch[t]
         /\ Cardinality(Pending') = nTodo - Cardinality(batch[t])
         /\ \A u \in Thread : batch'[u] \cap queue' = {}
         /\ \A u, v \in Thread : u # v => batch'[u] \cap batch'[v] = {}
<1>1. batch \in [Thread -> SUBSET Check] /\ queue \in SUBSET Check
  BY DEF TypeOK
<1>2. \A u, v \in Thread : u # v => batch[u] \cap batch[v] = {}
  BY DEF CountsExact
<1>3. \A u \in Thread : batch[u] \cap queue = {}
  BY DEF CountsExact
<1>4. \A u \in Thread : batch'[u] = IF u = t THEN taken ELSE batch[u]
  BY <1>1
<1>5. Pending' = Pending \ batch[t]
  <2>1. ASSUME NEW c PROVE c \in Pending <=> c \in queue \/ \E u \in Thread : c \in batch[u]
    BY DEF Pending
  <2>2. ASSUME NEW c PROVE c \in Pending' <=> c \in queue' \/ \E u \in Thread : c \in batch'[u]
    BY DEF Pending
  <2>3. ASSUME NEW c PROVE c \in Pending' <=> c \in Pending \ batch[t]
    BY <2>1, <2>2, <1>2, <1>3, <1>4
  <2> QED BY <2>3
<1>6. batch[t] \subseteq Pending /\ Pending \subseteq Check
  BY <1>1 DEF Pending
<1>7. Cardinality(Pending \ batch[t]) = Cardinality(Pending) - Cardinality(batch[t])
  <2>1. IsFiniteSet(Pending) BY <1>6, Finite
  <2>2. Pending \cap batch[t] = batch[t] BY <1>6
  <2> QED BY ZenonT(30), <2>1, <2>2, FS_Difference
<1>8. \A u \in Thread : batch'[u] \cap queue' = {}
  BY <1>3, <1>4
<1>9. \A u, v \in Thread : u # v => batch'[u] \cap batch'[v] = {}
  BY <1>2, <1>3, <1>4
<1> QED BY <1>5, <1>7, <1>8, <1>9 DEF CountsExact

\* A batch is not empty.
LEMMA BatchNotEmpty ==
  ASSUME NEW n \in Nat, NEW total \in Nat, NEW idle \in Nat
  PROVE  BatchCount(n, total, idle) \in Nat \ {0}
<1>1. n \div (total + idle + 1) \in Nat
  OBVIOUS
<1> QED BY <1>1, CheckQueueAssumption DEF BatchCount

-----------------------------------------------------------------------------
InLoop == {"run", "done", "wait", "woken", "exited"}

States == {"idle", "adding", "notify", "enter", "run", "done", "wait", "woken", "left", "exited"}

\* What the beginning of a critical section of Loop hands to its end: the
\* counters without the thread's old batch and its wait, the error, and the
\* threads, some of them notified.
Begun(t, total, idle, todo, result, p) ==
  /\ pc[t] \in {"enter", "woken", "done"}
  /\ total = Cardinality(Entered \cup {t})
  /\ idle = Cardinality(Idle \ {t})
  /\ todo = nTodo - Cardinality(batch[t])
  /\ result \in Check \cup {None}
  /\ m_result # None => result # None
  /\ IF \E m \in Master : pc[m] = "left" THEN result = None
     ELSE Answered(result, Pending \ batch[t])
  /\ p \in [Thread -> States]
  /\ p[t] = pc[t]
  /\ \A u \in Thread : p[u] = pc[u] \/ (pc[u] = "wait" /\ p[u] = "woken")

\* The end of a critical section of Loop preserves the invariant.
LEMMA ContinueInv ==
  ASSUME QueueInv, NEW t \in Thread, NEW total, NEW idle, NEW todo, NEW result, NEW p,
         Begun(t, total, idle, todo, result, p),
         Continue(t, total, idle, todo, result, p),
         UNCHANGED <<control, ran>>,
         local_result' \in [Thread -> Check \cup {None}],
         \A u \in Thread : u # t => local_result'[u] = local_result[u]
  PROVE  QueueInv'
<1> DEFINE end == pc'[t]
<1>a. TypeOK /\ Owned /\ CountsExact /\ Batched /\ Results
  BY DEF QueueInv
<1>b. /\ added' = added /\ ran' = ran /\ destructor' = destructor
      /\ m_control_mutex' = m_control_mutex /\ adding' = adding
  BY DEF control
<1>c. total \in Nat /\ idle \in Nat
  BY Finite DEF Begun, Entered, Idle
\* The shape of the four ends.
<1>1. /\ end \in {"left", "wait", "exited", "run"}
      /\ pc' = [p EXCEPT ![t] = end]
      /\ end = "left" => Leave(t, total, idle, todo, result, p)
      /\ end = "wait" => Wait(t, total, idle, todo, result, p)
      /\ end = "exited" => Exit(t, total, idle, todo, result, p)
      /\ end = "run" => Take(t, total, idle, todo, result, p)
  BY ZenonT(30) DEF Continue, Leave, Wait, Exit, Take, Begun
<1>2. PICK taken \in SUBSET queue :
         /\ queue' = queue \ taken
         /\ batch' = [batch EXCEPT ![t] = taken]
         /\ taken # {} <=> end = "run"
  <2>1. CASE end = "run"
    <3>1. PICK taken \in SUBSET queue :
            /\ Cardinality(taken) = BatchCount(Cardinality(queue), total, idle)
            /\ batch' = [batch EXCEPT ![t] = taken]
            /\ queue' = queue \ taken
      BY <2>1, <1>1 DEF Take
    <3>2. BatchCount(Cardinality(queue), total, idle) # 0
      BY ZenonT(30), <1>a, <1>c, Finite, BatchNotEmpty DEF TypeOK
    <3>3. taken # {}
      BY <3>1, <3>2, FS_EmptySet
    <3> QED BY ZenonT(30), <2>1, <3>1, <3>3
  <2>2. CASE end # "run"
    <3>1. queue' = queue /\ batch' = [batch EXCEPT ![t] = {}]
      BY <2>2, <1>1 DEF Leave, Wait, Exit
    <3>2. queue' = queue \ {}
      BY <3>1
    <3> QED BY ZenonT(30), <2>2, <3>1, <3>2
  <2> QED BY <2>1, <2>2
<1>3. /\ Pending' = Pending \ batch[t]
      /\ Cardinality(Pending') = todo
      /\ \A u \in Thread : batch'[u] \cap queue' = {}
      /\ \A u, v \in Thread : u # v => batch'[u] \cap batch'[v] = {}
  BY ZenonT(30), <1>a, <1>2, PendingMoved DEF Begun
<1>p. Pending' \in SUBSET Check
  <2>1. queue \in SUBSET Check /\ \A u \in Thread : batch[u] \in SUBSET Check
    BY ZenonT(30), <1>a DEF TypeOK
  <2>2. Pending \in SUBSET Check
    BY ZenonT(30), <2>1 DEF Pending
  <2> QED BY ZenonT(30), <1>3, <2>2
<1>4. /\ \A u \in Thread : pc'[u] = IF u = t THEN end ELSE p[u]
      /\ \A u \in Thread : batch'[u] = IF u = t THEN taken ELSE batch[u]
      /\ \A u \in Thread : u # t => do_work'[u] = do_work[u]
      /\ do_work'[t] = (end = "run" /\ result = None)
      /\ do_work' \in [Thread -> BOOLEAN]
      /\ pc' \in [Thread -> States]
  <2>1. do_work' = [do_work EXCEPT ![t] = (end = "run" /\ result = None)]
    BY ZenonT(30), <1>1 DEF Leave, Wait, Exit, Take
  <2>2. do_work \in [Thread -> BOOLEAN] /\ batch \in [Thread -> SUBSET Check] /\ p \in [Thread -> States]
    BY <1>a DEF TypeOK, Begun
  <2>3. end \in States
    BY ZenonT(30), <1>1 DEF States
  <2> QED BY <1>1, <1>2, <2>1, <2>2, <2>3, Zenon
\* Who leaves, and what remains then.
<1>5. end = "left" =>
        /\ t \in Master /\ Pending' = {} /\ todo = 0
        /\ returned' = result /\ m_result' = None
  <2> SUFFICES ASSUME end = "left" PROVE Pending' = {}
    BY <1>1 DEF Leave, ResultReset
  <2>1. todo = 0
    BY <1>1 DEF Leave
  <2> QED BY ZenonT(30), <2>1, <1>3, <1>p, Finite, FS_EmptySet
<1>6. end # "left" => m_result' = result /\ returned' = returned
  BY ZenonT(30), <1>1 DEF Wait, Exit, Take
<1>7. t \in Master => /\ m_control_mutex = t
                      /\ \A m \in Master : m # t => pc[m] = "idle" /\ pc'[m] = "idle"
  BY <1>a, <1>4 DEF Owned, Begun, Thread
<1>8. TypeOK'
  <2>1. /\ nIdle' \in Nat /\ nTotal' \in Nat
    <3>1. end # "left" => nTotal' = total /\ nIdle' \in {idle, idle + 1}
      BY <1>1 DEF Wait, Exit, Take, IdleCounted
    <3>2. end = "left" => nTotal' = total - 1 /\ nIdle' = idle
      BY ZenonT(30), <1>1 DEF Leave, TotalLeft
    <3>3. total # 0
      BY Finite, FS_EmptySet DEF Begun, Entered
    <3> QED BY <1>c, <3>1, <3>2, <3>3
  <2>2. nTodo' \in Nat
    BY ZenonT(30), <1>3, <1>p, Finite DEF Continue
  <2>3. m_result' \in Check \cup {None} /\ returned' \in Check \cup {None}
    BY ZenonT(30), <1>a, <1>5, <1>6 DEF TypeOK, Begun
  <2>4. queue' \subseteq Check /\ batch' \in [Thread -> SUBSET Check]
    BY ZenonT(30), <1>a, <1>2 DEF TypeOK
  <2> QED BY ZenonT(30), <1>a, <1>b, <1>4, <2>1, <2>2, <2>3, <2>4 DEF TypeOK, States
<1>9. Owned'
  <2>1. ASSUME NEW w \in Worker
        PROVE  pc'[w] \in {"enter", "run", "done", "wait", "woken", "exited"}
    <3>1. w \in Thread /\ w \notin Master
      BY ZenonT(30), CheckQueueAssumption DEF Thread
    <3>2. CASE w = t
      BY ZenonT(30), <1>1, <1>5, <3>1, <3>2
    <3>3. CASE w # t
      <4>1. pc'[w] = pc[w] \/ pc'[w] = "woken"
        BY ZenonT(30), <1>4, <3>1, <3>3 DEF Begun
      <4> QED BY ZenonT(30), <1>a, <4>1 DEF Owned
    <3> QED BY ZenonT(30), <3>2, <3>3
  <2>2. ASSUME NEW m \in Master, pc'[m] # "idle"
        PROVE  pc'[m] \in Holds /\ m_control_mutex' = m
    <3>1. CASE m = t
      <4>1. end # "exited"
        <5>1. end = "exited" => m_request_stop
          BY ZenonT(30), <1>1 DEF Exit
        <5>2. m_request_stop => m_control_mutex = None
          BY ZenonT(30), <1>a DEF Owned
        <5> QED BY ZenonT(30), <5>1, <5>2, <3>1, <1>7, CheckQueueAssumption
      <4> QED BY ZenonT(30), <3>1, <4>1, <1>b, <1>1, <1>7 DEF Holds
    <3>2. CASE m # t
      <4>1. m \in Thread BY DEF Thread
      <4> QED BY <2>2, <3>2, <4>1, <1>a, <1>b, <1>4 DEF Owned, Begun, Holds
    <3> QED BY <3>1, <3>2
  <2>3. (m_request_stop => m_control_mutex = None)'
    BY ZenonT(30), <1>a, <1>b DEF Owned, m_request_stop
  <2> QED BY ZenonT(30), <2>1, <2>2, <2>3 DEF Owned
<1>10. CountsExact'
  <2>1. nTodo' = Cardinality(Pending')
    BY ZenonT(30), <1>3 DEF Continue
  <2>2. nTotal' = Cardinality(Entered')
    <3> DEFINE in == {"run", "done", "wait", "woken", "exited"}
    <3>1. \A u \in Thread : u # t => (pc'[u] \in in <=> pc[u] \in in)
      BY ZenonT(30), <1>4 DEF Begun
    <3>2. CASE end = "left"
      <4>1. Entered' = (Entered \cup {t}) \ {t}
        BY ZenonT(30), <3>1, <3>2, <1>4 DEF Entered
      <4>2. IsFiniteSet(Entered \cup {t}) /\ t \in Entered \cup {t}
        BY Finite DEF Entered
      <4>3. Cardinality((Entered \cup {t}) \ {t}) = Cardinality(Entered \cup {t}) - 1
        BY ZenonT(30), <4>2, FS_RemoveElement
      <4>4. nTotal' = total - 1
        BY ZenonT(30), <3>2, <1>1 DEF Leave, TotalLeft
      <4> QED BY ZenonT(30), <4>1, <4>3, <4>4 DEF Begun
    <3>3. CASE end # "left"
      <4>1. Entered' = Entered \cup {t}
        BY ZenonT(30), <3>1, <3>3, <1>1, <1>4 DEF Entered
      <4>2. nTotal' = total
        BY ZenonT(30), <3>3, <1>1 DEF Wait, Exit, Take
      <4> QED BY ZenonT(30), <4>1, <4>2 DEF Begun
    <3> QED BY ZenonT(30), <3>2, <3>3
  <2>3. nIdle' = Cardinality(Idle')
    <3>1. \A u \in Thread : u # t => (pc'[u] \in {"wait", "woken"} <=> pc[u] \in {"wait", "woken"})
      BY ZenonT(30), <1>4 DEF Begun
    <3>2. CASE end = "wait"
      <4>1. Idle' = (Idle \ {t}) \cup {t}
        BY ZenonT(30), <3>1, <3>2, <1>4 DEF Idle
      <4>2. IsFiniteSet(Idle \ {t}) /\ t \notin Idle \ {t}
        BY ZenonT(30), Finite DEF Idle
      <4>3. Cardinality((Idle \ {t}) \cup {t}) = Cardinality(Idle \ {t}) + 1
        BY ZenonT(30), <4>2, FS_AddElement
      <4>4. nIdle' = idle + 1
        BY ZenonT(30), <3>2, <1>1 DEF Wait, IdleCounted
      <4> QED BY ZenonT(30), <4>1, <4>3, <4>4 DEF Begun
    <3>3. CASE end # "wait"
      <4>1. Idle' = Idle \ {t}
        BY ZenonT(30), <3>1, <3>3, <1>1, <1>4 DEF Idle
      <4>2. nIdle' = idle
        BY ZenonT(30), <3>3, <1>1 DEF Leave, Exit, Take
      <4> QED BY ZenonT(30), <4>1, <4>2 DEF Begun
    <3> QED BY ZenonT(30), <3>2, <3>3
  <2> QED BY ZenonT(30), <1>3, <2>1, <2>2, <2>3 DEF CountsExact
<1>11. Batched'
  <2>1. Pending' \subseteq added'
    BY ZenonT(30), <1>a, <1>b, <1>3 DEF Batched
  <2>2. ASSUME m_control_mutex' = None PROVE added' = {} /\ m_result' = None
    <3>1. added = {} /\ m_result = None
      BY <2>2, <1>a, <1>b DEF Batched
    <3>2. result = None
      BY ZenonT(30), <3>1 DEF Begun, Answered
    <3> QED BY ZenonT(30), <3>1, <3>2, <1>b, <1>5, <1>6
  <2>3. \A u \in Thread : pc'[u] \in {"run", "done"} <=> batch'[u] # {}
    <3>1. \A u \in Thread : u # t => (pc'[u] \in {"run", "done"} <=> pc[u] \in {"run", "done"})
      BY <1>4 DEF Begun
    <3>2. \A u \in Thread : batch'[u] = IF u = t THEN taken ELSE batch[u]
      BY ZenonT(30), <1>a, <1>2 DEF TypeOK
    <3>3. pc'[t] \in {"run", "done"} <=> taken # {}
      BY ZenonT(30), <1>1, <1>2
    <3>4. \A u \in Thread : pc[u] \in {"run", "done"} <=> batch[u] # {}
      BY <1>a DEF Batched
    <3> QED BY ZenonT(30), <3>1, <3>2, <3>3, <3>4
  <2> QED BY ZenonT(30), <2>1, <2>2, <2>3 DEF Batched
<1>12. Results'
  <2>1. (\A m \in Master : pc'[m] # "left") => Answered(m_result, Pending)'
    <3> SUFFICES ASSUME \A m \in Master : pc'[m] # "left" PROVE Answered(m_result, Pending)'
      BY ZenonT(30)
    <3>1. end # "left"
      BY ZenonT(30), <1>5
    <3>2. \A m \in Master : pc[m] # "left"
      BY SMTT(30), <1>4 DEF Begun, Thread
    <3>3. Answered(result, Pending \ batch[t])
      BY ZenonT(30), <3>2 DEF Begun
    <3> QED BY ZenonT(30), <3>1, <3>3, <1>b, <1>3, <1>6 DEF Answered
  <2>2. ASSUME NEW m \in Master, pc'[m] = "left"
        PROVE  Pending' = {} /\ m_result' = None /\ Answered(returned, {})'
    <3>1. CASE end = "left"
      <4>1. \A n \in Master : pc[n] # "left"
        BY ZenonT(30), <3>1, <1>5, <1>7 DEF Begun
      <4>2. Answered(result, Pending')
        BY ZenonT(30), <4>1, <1>3 DEF Begun
      <4> QED BY ZenonT(30), <3>1, <4>2, <1>b, <1>5 DEF Answered
    <3>2. CASE end # "left"
      <4>1. m # t /\ pc[m] = "left"
        BY ZenonT(30), <2>2, <3>2, <1>4 DEF Begun, Thread
      <4>2. Pending = {} /\ m_result = None /\ Answered(returned, {})
        BY ZenonT(30), <4>1, <1>a DEF Results
      <4>3. result = None
        BY <4>1 DEF Begun
      <4> QED BY ZenonT(30), <3>2, <4>2, <4>3, <1>b, <1>3, <1>6 DEF Answered
    <3> QED BY ZenonT(30), <3>1, <3>2
  <2>3. ASSUME NEW u \in Thread, batch'[u] # {}, ~do_work'[u] PROVE m_result' # None
    <3>1. end # "left"
      <4>1. batch'[u] \subseteq Pending' BY ZenonT(30) DEF Pending
      <4> QED BY ZenonT(30), <2>3, <4>1, <1>5
    <3>2. CASE u = t
      BY ZenonT(30), <2>3, <3>1, <3>2, <1>2, <1>4, <1>6
    <3>3. CASE u # t
      <4>1. m_result # None
        BY ZenonT(30), <2>3, <3>3, <1>4, <1>a DEF Results
      <4> QED BY ZenonT(30), <3>1, <4>1, <1>6 DEF Begun
    <3> QED BY ZenonT(30), <3>2, <3>3
  <2>4. ASSUME NEW u \in Thread, pc'[u] = "done", do_work'[u]
        PROVE  IF local_result'[u] = None THEN batch'[u] \subseteq ran' \ Bad
               ELSE local_result'[u] \in batch'[u] \cap Bad
    <3>1. u # t
      BY ZenonT(30), <2>4, <1>1
    <3>2. pc[u] = "done" /\ do_work[u] /\ local_result'[u] = local_result[u] /\ batch'[u] = batch[u]
      BY <2>4, <3>1, <1>4 DEF Begun
    <3> QED BY <3>2, <1>a, <1>b DEF Results
  <2> QED BY ZenonT(30), <2>1, <2>2, <2>3, <2>4 DEF Results
<1> QED BY <1>8, <1>9, <1>10, <1>11, <1>12 DEF QueueInv

-----------------------------------------------------------------------------
\* The steps of Loop preserve the invariant.
LEMMA LoopInv ==
  ASSUME QueueInv, NEW t \in Thread, Loop(t)
  PROVE  QueueInv'
<1>a. TypeOK /\ Owned /\ CountsExact /\ Batched /\ Results
  BY ZenonT(30) DEF QueueInv
<1>b. pc \in [Thread -> States] /\ batch \in [Thread -> SUBSET Check]
  BY <1>a DEF TypeOK, States
<1>c. pc[t] \in {"enter", "woken"} => batch[t] = {}
  BY <1>a DEF Batched
<1>d. Cardinality({}) = 0
  BY ZenonT(30), FS_EmptySet
<1>e. IF \E m \in Master : pc[m] = "left" THEN Pending = {} /\ m_result = None
      ELSE Answered(m_result, Pending)
  BY ZenonT(30), <1>a DEF Results
<1>1. CASE Enter(t)
  <2>1. t \notin Entered /\ Idle \ {t} = Idle
    BY ZenonT(30), <1>1 DEF Enter, Entered, Idle
  <2>2. Cardinality(Entered \cup {t}) = nTotal + 1
    BY ZenonT(30), <1>a, <2>1, Finite, FS_AddElement DEF CountsExact, Entered
  <2>3. Begun(t, nTotal + 1, nIdle, nTodo, m_result, pc)
    <3>1. pc[t] = "enter" /\ batch[t] = {} /\ Pending \ batch[t] = Pending
      BY <1>1, <1>c DEF Enter
    <3>2. nTodo = nTodo - Cardinality(batch[t])
      <4>1. nTodo \in Nat
        BY ZenonT(30), <1>a DEF TypeOK
      <4> QED BY <1>d, <3>1, <4>1
    <3>3. nIdle = Cardinality(Idle \ {t}) /\ m_result \in Check \cup {None}
      BY ZenonT(30), <1>a, <2>1 DEF CountsExact, TypeOK
    <3> QED BY ZenonT(30), <1>b, <1>e, <2>2, <3>1, <3>2, <3>3 DEF Begun
  <2>4. /\ Continue(t, nTotal + 1, nIdle, nTodo, m_result, pc)
        /\ UNCHANGED <<control, ran>> /\ local_result' = local_result
    BY ZenonT(30), <1>1 DEF Enter
  <2> QED BY <2>3, <2>4, <1>a, ContinueInv DEF TypeOK
<1>2. CASE Resume(t)
  <2>1. Entered \cup {t} = Entered /\ t \in Idle
    BY ZenonT(30), <1>2 DEF Resume, Entered, Idle
  <2>2. Cardinality(Idle \ {t}) = nIdle - 1
    BY ZenonT(30), <1>a, <2>1, Finite, FS_RemoveElement DEF CountsExact, Idle
  <2>3. Begun(t, nTotal, nIdle - 1, nTodo, m_result, pc)
    <3>1. pc[t] = "woken" /\ batch[t] = {} /\ Pending \ batch[t] = Pending
      BY <1>2, <1>c DEF Resume
    <3>2. nTodo = nTodo - Cardinality(batch[t])
      BY <1>a, <1>d, <3>1 DEF TypeOK
    <3>3. nTotal = Cardinality(Entered \cup {t}) /\ m_result \in Check \cup {None}
      BY ZenonT(30), <1>a, <2>1 DEF CountsExact, TypeOK
    <3>4. IF \E m \in Master : pc[m] = "left" THEN m_result = None
          ELSE Answered(m_result, Pending \ batch[t])
      BY <1>e, <3>1
    <3> QED BY ZenonT(30), <1>b, <2>2, <3>1, <3>2, <3>3, <3>4 DEF Begun
  <2>4. /\ Continue(t, nTotal, nIdle - 1, nTodo, m_result, pc)
        /\ UNCHANGED <<control, ran>> /\ local_result' = local_result
    BY ZenonT(30), <1>2 DEF Resume
  <2> QED BY <2>3, <2>4, <1>a, ContinueInv DEF TypeOK
<1>3. CASE Finish(t)
  <2> DEFINE todo == nTodo - Cardinality(batch[t])
             first == local_result[t] # None /\ m_result = None
             result == IF first THEN local_result[t] ELSE m_result
  <2>1. pc[t] = "done" /\ batch[t] # {} /\ batch[t] \subseteq Pending
    BY <1>3, <1>a DEF Finish, Batched, Pending
  <2>2. Entered \cup {t} = Entered /\ Idle \ {t} = Idle
    BY ZenonT(30), <2>1 DEF Entered, Idle
  <2>3. \A m \in Master : pc[m] # "left"
    BY ZenonT(30), <2>1, <1>a DEF Results
  <2>4. Answered(result, Pending \ batch[t])
    <3>1. Answered(m_result, Pending) /\ Pending \subseteq added
      BY ZenonT(30), <2>3, <1>a DEF Results, Batched
    <3>2. CASE m_result # None
      BY ZenonT(30), <3>1, <3>2 DEF Answered
    <3>3. CASE m_result = None
      <4>1. do_work[t]
        BY ZenonT(30), <2>1, <3>3, <1>a DEF Results
      <4>2. IF local_result[t] = None THEN batch[t] \subseteq ran \ Bad
            ELSE local_result[t] \in batch[t] \cap Bad
        BY ZenonT(30), <2>1, <4>1, <1>a DEF Results
      <4> QED BY ZenonT(30), <2>1, <3>1, <3>3, <4>2 DEF Answered
    <3> QED BY ZenonT(30), <3>2, <3>3
  <2>5. /\ Woken(t, todo) \in [Thread -> States]
        /\ Woken(t, todo)[t] = pc[t]
        /\ \A u \in Thread : \/ Woken(t, todo)[u] = pc[u]
                             \/ pc[u] = "wait" /\ Woken(t, todo)[u] = "woken"
    BY <1>b, <2>1 DEF Woken, States
  <2>6. result \in Check \cup {None} /\ (m_result # None => result # None)
    BY SMTT(30), <1>a DEF TypeOK
  <2>7. Begun(t, nTotal, nIdle, todo, result, Woken(t, todo))
    BY ZenonT(30), <1>a, <2>1, <2>2, <2>3, <2>4, <2>5, <2>6 DEF Begun, CountsExact
  <2>8. /\ Continue(t, nTotal, nIdle, todo, result, Woken(t, todo))
        /\ UNCHANGED <<control, ran>>
        /\ local_result' = [local_result EXCEPT ![t] = IF first THEN None ELSE @]
    BY <1>3 DEF Finish
  <2>9. /\ local_result' \in [Thread -> Check \cup {None}]
        /\ \A u \in Thread : u # t => local_result'[u] = local_result[u]
    BY <1>a, <2>8 DEF TypeOK
  <2> QED BY ZenonT(30), <2>7, <2>8, <2>9, ContinueInv
<1>4. CASE Run(t)
  <2>a. /\ UNCHANGED <<shared, control, batch, do_work, returned>>
        /\ queue' = queue /\ batch' = batch /\ added' = added /\ m_result' = m_result
    BY <1>4 DEF Run, shared, control
  <2>b. /\ pc[t] = "run" /\ pc' \in [Thread -> States]
        /\ \A u \in Thread : pc'[u] = IF u = t THEN "done" ELSE pc[u]
    BY ZenonT(30), <1>4, <1>b DEF Run, States
  <2>c. /\ local_result' \in [Thread -> Check \cup {None}]
        /\ \A u \in Thread : u # t => local_result'[u] = local_result[u]
        /\ ran \subseteq ran' /\ ran' \subseteq Check
        /\ do_work[t] => IF local_result'[t] = None THEN batch[t] \subseteq ran' \ Bad
                         ELSE local_result'[t] \in batch[t] \cap Bad
    <3>1. CASE ~do_work[t]
      BY ZenonT(30), <3>1, <1>4, <1>a DEF Run, TypeOK
    <3>2. CASE do_work[t] /\ batch[t] \cap Bad = {} /\ ran' = ran \cup batch[t]
               /\ local_result' = [local_result EXCEPT ![t] = None]
      BY <3>2, <1>a, <1>b DEF TypeOK
    <3>3. CASE do_work[t] /\ ran' = ran /\ \E c \in batch[t] \cap Bad :
                 local_result' = [local_result EXCEPT ![t] = c]
      BY ZenonT(30), <3>3, <1>a, <1>b, CheckQueueAssumption DEF TypeOK
    <3> QED BY ZenonT(30), <1>4, <3>1, <3>2, <3>3 DEF Run
  <2>d. Pending' = Pending
    BY <2>a DEF Pending
  <2>1. TypeOK'
    BY ZenonT(30), <1>a, <2>a, <2>b, <2>c DEF TypeOK, shared, control, States
  <2>2. Owned'
    <3>1. destructor' = destructor /\ m_control_mutex' = m_control_mutex
      BY ZenonT(30), <2>a DEF control
    <3> QED BY <1>a, <2>b, <3>1 DEF Owned, Holds, m_request_stop, Thread
  <2>3. CountsExact'
    <3>1. Entered' = Entered /\ Idle' = Idle
      BY ZenonT(30), <2>b DEF Entered, Idle
    <3> QED BY <1>a, <2>a, <2>d, <3>1 DEF CountsExact, shared
  <2>4. Batched'
    BY ZenonT(30), <1>a, <2>a, <2>b, <2>d DEF Batched, control
  <2>5. Results'
    <3>1. \A m \in Master : pc'[m] = "left" <=> pc[m] = "left"
      BY ZenonT(30), <2>b DEF Thread
    <3>3. (\A m \in Master : pc'[m] # "left") => Answered(m_result, Pending)'
      BY ZenonT(30), <1>a, <2>a, <2>c, <2>d, <3>1 DEF Results, Answered
    <3>4. \A m \in Master : pc'[m] = "left" =>
            Pending' = {} /\ m_result' = None /\ Answered(returned, {})'
      BY ZenonT(30), <1>a, <2>a, <2>c, <2>d, <3>1 DEF Results, Answered
    <3>5. \A u \in Thread : batch'[u] # {} /\ ~do_work'[u] => m_result' # None
      BY ZenonT(30), <1>a, <2>a DEF Results
    <3>6. ASSUME NEW u \in Thread, pc'[u] = "done", do_work'[u]
          PROVE  IF local_result'[u] = None THEN batch'[u] \subseteq ran' \ Bad
                 ELSE local_result'[u] \in batch'[u] \cap Bad
      <4>1. CASE u = t
        BY ZenonT(30), <3>6, <4>1, <2>a, <2>c
      <4>2. CASE u # t
        <5>1. pc[u] = "done" /\ do_work[u] /\ local_result'[u] = local_result[u]
          BY ZenonT(30), <3>6, <4>2, <2>a, <2>b, <2>c
        <5> QED BY ZenonT(30), <5>1, <1>a, <2>a, <2>c DEF Results
      <4> QED BY <4>1, <4>2
    <3> QED BY <3>3, <3>4, <3>5, <3>6 DEF Results
  <2> QED BY ZenonT(30), <2>1, <2>2, <2>3, <2>4, <2>5 DEF QueueInv
<1> QED BY <1>1, <1>2, <1>3, <1>4 DEF Loop

-----------------------------------------------------------------------------
\* A step that only notifies threads or moves a master outside of Loop, leaving
\* the queue and the batches alone, preserves the counts and the batches.
LEMMA Moved ==
  ASSUME QueueInv, pc' \in [Thread -> States],
         UNCHANGED <<queue, nIdle, nTotal, nTodo, m_result, batch, do_work>>,
         \A u \in Thread :
            \/ pc'[u] = pc[u]
            \/ pc[u] = "wait" /\ pc'[u] = "woken"
            \/ pc[u] \notin InLoop /\ pc'[u] \notin InLoop
  PROVE  CountsExact' /\ Pending' = Pending
         /\ \A t \in Thread : pc'[t] \in {"run", "done"} <=> batch'[t] # {}
<1>1. Pending' = Pending
  BY DEF Pending
<1>2. Entered' = Entered /\ Idle' = Idle
  BY DEF Entered, Idle, InLoop
<1> QED BY <1>1, <1>2 DEF QueueInv, CountsExact, Batched, InLoop

\* A notification only wakes threads that wait.
LEMMA NotifiedWakes ==
  ASSUME pc \in [Thread -> States], NEW all, NEW q \in Notified(all)
  PROVE  /\ q \in [Thread -> States]
         /\ \A u \in Thread : q[u] = pc[u] \/ (pc[u] = "wait" /\ q[u] = "woken")
<1>a. \A w \in Waiting : w \in Thread /\ pc[w] = "wait"
  BY DEF Waiting, Thread
<1>b. "woken" \in States
  BY DEF States
<1>1. CASE q = [t \in Thread |-> IF t \in Waiting THEN "woken" ELSE pc[t]]
  <2>1. \A u \in Thread : q[u] = IF u \in Waiting THEN "woken" ELSE pc[u]
    BY <1>1
  <2> QED BY <1>a, <1>b, <1>1, <2>1
<1>2. CASE \E w \in Waiting : q = [pc EXCEPT ![w] = "woken"]
  BY <1>a, <1>b, <1>2
<1>3. \/ q = [t \in Thread |-> IF t \in Waiting THEN "woken" ELSE pc[t]]
      \/ \E w \in Waiting : q = [pc EXCEPT ![w] = "woken"]
  BY DEF Notified
<1> QED BY <1>1, <1>2, <1>3

\* The steps of a master outside of Loop preserve the invariant.
LEMMA ControlInv ==
  ASSUME QueueInv, NEW m \in Master,
         \/ OpenControl(m) \/ Notify(m) \/ Complete(m) \/ CloseControl(m)
         \/ \E checks \in SUBSET (Check \ added) : Add(m, checks)
  PROVE  QueueInv'
<1>a. TypeOK /\ Owned /\ CountsExact /\ Batched /\ Results
  BY ZenonT(30) DEF QueueInv
<1>b. pc \in [Thread -> States] /\ m \in Thread /\ m \notin Worker /\ m # None
  BY <1>a, CheckQueueAssumption DEF TypeOK, States, Thread
<1>c. pc[m] # "idle" => /\ m_control_mutex = m /\ ~m_request_stop
                        /\ \A n \in Master : n # m => pc[n] = "idle"
  BY ZenonT(30), <1>a, <1>b DEF Owned
<1>1. CASE OpenControl(m)
  <2>1. /\ UNCHANGED <<shared, destructor, adding, added, batch, do_work, local_result, ran, returned>>
        /\ m_control_mutex = None /\ m_control_mutex' = m /\ ~m_request_stop /\ pc[m] = "idle"
        /\ pc' \in [Thread -> States]
        /\ \A u \in Thread : pc'[u] = IF u = m THEN "adding" ELSE pc[u]
    BY SMTT(30), <1>1, <1>b DEF OpenControl, States
  <2>2. CountsExact' /\ Pending' = Pending
        /\ \A t \in Thread : pc'[t] \in {"run", "done"} <=> batch'[t] # {}
    BY ZenonT(30), <2>1, Moved DEF shared, InLoop
  <2>3. TypeOK'
    BY <1>a, <2>1 DEF TypeOK, shared, States
  <2>4. Owned'
    BY ZenonT(30), <1>a, <1>b, <2>1, CheckQueueAssumption DEF Owned, m_request_stop, Holds, Thread
  <2>5. Batched'
    BY SMTT(30), <1>a, <1>b, <2>1, <2>2 DEF Batched
  <2>6. Results'
    BY ZenonT(30), <1>a, <2>1, <2>2 DEF Results, Answered, shared, Thread
  <2> QED BY ZenonT(30), <2>2, <2>3, <2>4, <2>5, <2>6 DEF QueueInv
<1>2. CASE Notify(m)
  <2>1. /\ UNCHANGED <<shared, destructor, m_control_mutex, added, batch, do_work, local_result, ran, returned>>
        /\ adding' = 0 /\ pc[m] = "notify" /\ pc' \in [Thread -> States] /\ pc'[m] = "adding"
        /\ \A u \in Thread : u # m => pc'[u] = pc[u] \/ (pc[u] = "wait" /\ pc'[u] = "woken")
    <3>1. PICK q \in Notified(adding # 1) : pc' = [q EXCEPT ![m] = "adding"]
      BY ZenonT(30), <1>2 DEF Notify
    <3>2. /\ q \in [Thread -> States]
          /\ \A u \in Thread : q[u] = pc[u] \/ (pc[u] = "wait" /\ q[u] = "woken")
      BY <1>b, <3>1, NotifiedWakes
    <3> QED BY ZenonT(30), <1>2, <1>b, <3>1, <3>2 DEF Notify, States
  <2>2. CountsExact' /\ Pending' = Pending
        /\ \A t \in Thread : pc'[t] \in {"run", "done"} <=> batch'[t] # {}
    BY ZenonT(30), <2>1, Moved DEF shared, InLoop
  <2>3. TypeOK'
    BY ZenonT(30), <1>a, <2>1 DEF TypeOK, shared, States
  <2>4. Owned'
    BY <1>a, <1>b, <1>c, <2>1 DEF Owned, m_request_stop, Holds, Thread
  <2>5. Batched'
    BY ZenonT(30), <1>a, <2>1, <2>2 DEF Batched, shared
  <2>6. Results'
    BY ZenonT(30), <1>a, <1>c, <2>1, <2>2 DEF Results, Answered, shared, Thread
  <2> QED BY <2>2, <2>3, <2>4, <2>5, <2>6 DEF QueueInv
<1>3. CASE Complete(m)
  <2>1. /\ UNCHANGED <<shared, control, batch, do_work, local_result, ran, returned>>
        /\ pc[m] = "adding" /\ pc' \in [Thread -> States]
        /\ \A u \in Thread : pc'[u] = IF u = m THEN "enter" ELSE pc[u]
    BY SMTT(30), <1>3, <1>b DEF Complete, States
  <2>2. CountsExact' /\ Pending' = Pending
        /\ \A t \in Thread : pc'[t] \in {"run", "done"} <=> batch'[t] # {}
    BY ZenonT(30), <2>1, Moved DEF shared, InLoop
  <2>3. TypeOK'
    BY ZenonT(30), <1>a, <2>1 DEF TypeOK, shared, control, States
  <2>4. Owned'
    BY <1>a, <1>b, <1>c, <2>1 DEF Owned, m_request_stop, Holds, Thread, control
  <2>5. Batched'
    BY ZenonT(30), <1>a, <2>1, <2>2 DEF Batched, shared, control
  <2>6. Results'
    BY ZenonT(30), <1>a, <1>c, <2>1, <2>2 DEF Results, Answered, shared, control, Thread
  <2> QED BY <2>2, <2>3, <2>4, <2>5, <2>6 DEF QueueInv
<1>4. CASE CloseControl(m)
  <2>1. /\ UNCHANGED <<shared, destructor, adding, batch, do_work>>
        /\ pc[m] = "left" /\ pc' \in [Thread -> States]
        /\ \A u \in Thread : pc'[u] = IF u = m THEN "idle" ELSE pc[u]
        /\ m_control_mutex' = None /\ added' = {} /\ ran' = {} /\ returned' = None
        /\ local_result' \in [Thread -> Check \cup {None}]
    BY <1>4, <1>a, <1>b DEF CloseControl, States, TypeOK
  <2>2. CountsExact' /\ Pending' = Pending
        /\ \A t \in Thread : pc'[t] \in {"run", "done"} <=> batch'[t] # {}
    BY ZenonT(30), <2>1, Moved DEF shared, InLoop
  <2>3. Pending = {} /\ m_result = None /\ \A t \in Thread : batch[t] = {}
    <3>1. Pending = {} /\ m_result = None
      BY ZenonT(30), <1>a, <2>1 DEF Results
    <3>2. ASSUME NEW t \in Thread PROVE batch[t] \subseteq Pending
      BY ZenonT(30) DEF Pending
    <3> QED BY ZenonT(30), <3>1, <3>2
  <2>4. TypeOK'
    BY ZenonT(30), <1>a, <2>1 DEF TypeOK, shared, States
  <2>5. Owned'
    BY <1>a, <1>b, <1>c, <2>1 DEF Owned, m_request_stop, Holds, Thread
  <2>6. Batched'
    BY ZenonT(30), <2>1, <2>2, <2>3 DEF Batched, shared
  <2>7. Results'
    BY ZenonT(30), <1>c, <2>1, <2>2, <2>3 DEF Results, Answered, shared, Thread
  <2> QED BY <2>2, <2>4, <2>5, <2>6, <2>7 DEF QueueInv
<1>5. ASSUME NEW checks \in SUBSET (Check \ added), Add(m, checks)
      PROVE  QueueInv'
  <2>1. /\ UNCHANGED <<nIdle, nTotal, m_result, destructor, m_control_mutex,
                       batch, do_work, local_result, ran, returned>>
        /\ queue' = queue \cup checks /\ added' = added \cup checks
        /\ nTodo' = nTodo + Cardinality(checks) /\ adding' = Cardinality(checks)
        /\ pc[m] = "adding" /\ pc' \in [Thread -> States]
        /\ \A u \in Thread : pc'[u] = IF u = m THEN "notify" ELSE pc[u]
    <3>1. pc' = [pc EXCEPT ![m] = "notify"] /\ "notify" \in States
      BY ZenonT(30), <1>5 DEF Add, States
    <3>2. pc' \in [Thread -> States] /\ \A u \in Thread : pc'[u] = IF u = m THEN "notify" ELSE pc[u]
      BY <1>b, <3>1
    <3> QED BY ZenonT(30), <1>5, <3>2 DEF Add
  <2>2. Pending' = Pending \cup checks /\ Pending \cap checks = {}
    <3>1. queue' = queue \cup checks /\ batch' = batch
      BY ZenonT(30), <2>1
    <3>2. Pending \cap checks = {}
      BY <1>a DEF Batched
    <3>3. Pending' = Pending \cup checks
      BY ZenonT(30), <3>1 DEF Pending
    <3> QED BY <3>2, <3>3
  <2>3. CountsExact'
    <3>1. IsFiniteSet(Pending) /\ IsFiniteSet(checks)
      BY ZenonT(30), <1>a, Finite DEF Batched, TypeOK
    <3>2. Cardinality(Pending \cup checks)
            = Cardinality(Pending) + Cardinality(checks) - Cardinality(Pending \cap checks)
      BY <3>1, FS_Union
    <3>3. Cardinality(Pending \cap checks) = 0
      BY ZenonT(30), <2>2, FS_EmptySet
    <3>4. nTodo' = Cardinality(Pending')
      <4>1. nTodo \in Nat /\ nTodo = Cardinality(Pending) /\ Cardinality(checks) \in Nat
        BY ZenonT(30), <1>a, <3>1, FS_CardinalityType DEF CountsExact, TypeOK
      <4>2. Pending' = Pending \cup checks /\ nTodo' = nTodo + Cardinality(checks)
        BY ZenonT(30), <2>1, <2>2
      <4>3. Cardinality(Pending \cup checks) = nTodo + Cardinality(checks)
        BY <3>2, <3>3, <4>1
      <4> QED BY ZenonT(30), <4>2, <4>3
    <3>5. Entered' = Entered /\ Idle' = Idle
      BY ZenonT(30), <2>1 DEF Entered, Idle
    <3>6. \A t \in Thread : batch[t] \cap checks = {}
      BY SMTT(30), <2>2 DEF Pending
    <3> QED BY ZenonT(30), <1>a, <2>1, <3>4, <3>5, <3>6 DEF CountsExact
  <2>4. TypeOK'
    <3>1. queue' \subseteq Check /\ added' \subseteq Check
      BY ZenonT(30), <1>a, <2>1 DEF TypeOK
    <3>2. nTodo' \in Nat /\ adding' \in Nat
      <4>1. nTodo \in Nat /\ Cardinality(checks) \in Nat
        BY ZenonT(30), <1>a, Finite, FS_CardinalityType DEF TypeOK
      <4> QED BY <2>1, <4>1
    <3> QED BY ZenonT(30), <1>a, <2>1, <3>1, <3>2 DEF TypeOK, States
  <2>5. Owned'
    BY SMTT(30), <1>a, <1>b, <1>c, <2>1 DEF Owned, m_request_stop, Holds, Thread
  <2>6. Batched'
    BY ZenonT(30), <1>a, <1>b, <1>c, <2>1, <2>2 DEF Batched
  <2>7. Results'
    BY ZenonT(30), <1>a, <1>c, <2>1, <2>2 DEF Results, Answered, Thread
  <2> QED BY <2>3, <2>4, <2>5, <2>6, <2>7 DEF QueueInv
<1> QED BY <1>1, <1>2, <1>3, <1>4, <1>5

Still == UNCHANGED <<queue, nIdle, nTotal, nTodo, m_result, m_control_mutex, adding, added,
                     batch, do_work, local_result, ran, returned>>

\* A step that only wakes threads, or moves the destructor along without a
\* control, preserves the invariant.
LEMMA WokenInv ==
  ASSUME QueueInv, pc' \in [Thread -> States],
         \A u \in Thread : pc'[u] = pc[u] \/ (pc[u] = "wait" /\ pc'[u] = "woken"),
         Still,
         \/ destructor' = destructor
         \/ m_control_mutex = None /\ destructor' \in {"stop", "join"}
  PROVE  QueueInv'
<1>a. TypeOK /\ Owned /\ CountsExact /\ Batched /\ Results
  BY ZenonT(30) DEF QueueInv
<1>1. CountsExact' /\ Pending' = Pending
      /\ \A t \in Thread : pc'[t] \in {"run", "done"} <=> batch'[t] # {}
  BY ZenonT(30), Moved DEF Still
<1>2. TypeOK'
  BY ZenonT(30), <1>a DEF TypeOK, Still, States
<1>3. Owned'
  BY <1>a DEF Owned, m_request_stop, Holds, Still, Thread
<1>4. Batched'
  BY ZenonT(30), <1>a, <1>1 DEF Batched, Still
<1>5. Results'
  <2>1. \A n \in Master : pc'[n] = "left" <=> pc[n] = "left"
    BY DEF Thread
  <2>2. \A u \in Thread : pc'[u] = "done" <=> pc[u] = "done"
    OBVIOUS
  <2> QED BY ZenonT(30), <1>a, <1>1, <2>1, <2>2 DEF Results, Answered, Still
<1> QED BY ZenonT(30), <1>1, <1>2, <1>3, <1>4, <1>5 DEF QueueInv

\* The invariant of the check queue is inductive.
LEMMA QueueInvariant == Spec => []QueueInv
<1>1. Init => QueueInv
  <2> SUFFICES ASSUME Init PROVE QueueInv
    BY ZenonT(30)
  <2>1. Pending = {} /\ Entered = {} /\ Idle = {}
    BY ZenonT(30), CheckQueueAssumption DEF Init, Pending, Entered, Idle, Thread
  <2>2. TypeOK
    BY ZenonT(30) DEF Init, TypeOK
  <2>3. Owned
    BY ZenonT(30), CheckQueueAssumption DEF Init, Owned, Thread, m_request_stop
  <2>4. CountsExact
    BY ZenonT(30), <2>1, FS_EmptySet DEF Init, CountsExact
  <2>5. Batched /\ Results
    BY ZenonT(30), <2>1 DEF Init, Batched, Results, Answered, Thread
  <2> QED BY ZenonT(30), <2>2, <2>3, <2>4, <2>5 DEF QueueInv
<1>2. QueueInv /\ [Next]_vars => QueueInv'
  <2> SUFFICES ASSUME QueueInv, [Next]_vars PROVE QueueInv'
    BY ZenonT(30)
  <2>a. TypeOK /\ pc \in [Thread -> States]
    BY DEF QueueInv, TypeOK, States
  <2>1. ASSUME NEW m \in Master,
               \/ OpenControl(m) \/ Notify(m) \/ Complete(m) \/ CloseControl(m)
               \/ \E checks \in SUBSET (Check \ added) : Add(m, checks)
        PROVE  QueueInv'
    BY ZenonT(30), <2>1, ControlInv
  <2>2. ASSUME NEW t \in Thread, Loop(t) PROVE QueueInv'
    BY ZenonT(30), <2>2, LoopInv
  <2>3. ASSUME NEW t \in Thread, SpuriousWake(t) PROVE QueueInv'
    <3>1. /\ pc' \in [Thread -> States]
          /\ \A u \in Thread : pc'[u] = pc[u] \/ (pc[u] = "wait" /\ pc'[u] = "woken")
      BY ZenonT(30), <2>a, <2>3 DEF SpuriousWake, States
    <3>2. Still /\ destructor' = destructor
      BY ZenonT(30), <2>3 DEF SpuriousWake, Still, shared, control
    <3> QED BY <3>1, <3>2, WokenInv
  <2>4. CASE RequestStop
    <3>1. Still /\ pc' = pc /\ m_control_mutex = None /\ destructor' = "stop"
      BY ZenonT(30), <2>4 DEF RequestStop, Still, shared
    <3> QED BY ZenonT(30), <2>a, <3>1, WokenInv
  <2>5. CASE NotifyStop
    <3>1. /\ pc' \in [Thread -> States]
          /\ \A u \in Thread : pc'[u] = pc[u] \/ (pc[u] = "wait" /\ pc'[u] = "woken")
      BY ZenonT(30), <2>a, <2>5, NotifiedWakes DEF NotifyStop
    <3>2. m_control_mutex = None /\ destructor' = "join"
      BY <2>5 DEF NotifyStop, QueueInv, Owned, m_request_stop
    <3>3. Still
      BY <2>5 DEF NotifyStop, Still, shared
    <3> QED BY <3>1, <3>2, <3>3, WokenInv
  <2>6. CASE UNCHANGED vars
    <3>1. Still /\ pc' = pc /\ destructor' = destructor
      BY <2>6 DEF vars, control, shared, Still
    <3> QED BY ZenonT(30), <2>a, <3>1, WokenInv
  <2> QED BY ZenonT(30), <2>1, <2>2, <2>3, <2>4, <2>5, <2>6 DEF Next
<1> QED BY <1>1, <1>2, PTL DEF Spec

-----------------------------------------------------------------------------
\* For every number of threads and checks, Complete returns no error exactly
\* when no check of its control fails, and each was run then; an error it
\* returns is one of its own control (Loop, Complete, Add).
THEOREM CompleteAnswers == Spec => []CompleteExact
<1>1. QueueInv => CompleteExact
  BY DEF QueueInv, Results, Answered, CompleteExact
<1> QED BY <1>1, QueueInvariant, PTL

\* For every number of threads and checks, nTodo counts the checks that are
\* queued or in a batch, and nTotal and nIdle the threads in Loop and those
\* that wait; none of the three goes below zero (Loop, Add).
THEOREM QueueCounts == Spec => [](TypeOK /\ CountsExact)
<1>1. QueueInv => TypeOK /\ CountsExact
  BY ZenonT(30) DEF QueueInv
<1> QED BY <1>1, QueueInvariant, PTL

-----------------------------------------------------------------------------
\* No thread sleeps through work or through the end.  A master that waits for
\* its checks waits for a worker that holds some; when checks are queued and
\* Add has notified, a worker is awake; once the destructor has notified, no
\* worker waits (Add, Loop, ~CCheckQueue).
NoLostWakeup ==
  /\ \A m \in Master : pc[m] = "wait" =>
       \E w \in Worker : pc[w] \in {"run", "done"} /\ batch[w] # {}
  /\ queue # {} /\ Worker # {} /\ (\A m \in Master : pc[m] # "notify") =>
       \E w \in Worker : pc[w] # "wait"
  /\ destructor = "join" => \A w \in Worker : pc[w] # "wait"

\* The same, with what the master saw under the lock when it began to wait.
WakeInv ==
  /\ \A m \in Master : pc[m] = "wait" => queue = {} /\ nTodo # 0
  /\ queue # {} /\ Worker # {} /\ (\A m \in Master : pc[m] # "notify") =>
       \E w \in Worker : pc[w] # "wait"
  /\ destructor = "join" => \A w \in Worker : pc[w] # "wait"

\* The end of a critical section of Loop preserves it, when its beginning has
\* woken the master that has nothing left to wait for.
LEMMA ContinueWakes ==
  ASSUME WakeInv, NEW t \in Thread, NEW total, NEW idle, NEW todo, NEW result, NEW p,
         Continue(t, total, idle, todo, result, p),
         destructor' = destructor, pc[t] \in {"enter", "woken", "done"},
         p \in [Thread -> States],
         \A u \in Thread : p[u] = pc[u] \/ (pc[u] = "wait" /\ p[u] = "woken"),
         \A m \in Master : m # t /\ p[m] = "wait" => todo # 0
  PROVE  WakeInv'
<1>1. /\ pc' = [p EXCEPT ![t] = pc'[t]] /\ pc'[t] \in {"left", "wait", "exited", "run"}
      /\ queue' \subseteq queue /\ nTodo' = todo
      /\ pc'[t] = "wait" => queue = {} /\ destructor = "live" /\ ~(t \in Master /\ todo = 0)
  <2>1. CASE Leave(t, total, idle, todo, result, p)
    BY ZenonT(30), <2>1 DEF Continue, Leave
  <2>2. CASE Wait(t, total, idle, todo, result, p)
    BY ZenonT(30), <2>2 DEF Continue, Wait, m_request_stop
  <2>3. CASE Exit(t, total, idle, todo, result, p)
    BY ZenonT(30), <2>3 DEF Continue, Exit
  <2>4. CASE Take(t, total, idle, todo, result, p)
    BY ZenonT(30), <2>4 DEF Continue, Take
  <2> QED BY ZenonT(30), <2>1, <2>2, <2>3, <2>4 DEF Continue
<1>2. \A u \in Thread : u # t => pc'[u] = p[u]
  BY ZenonT(30), <1>1
<1>3. \A m \in Master : pc'[m] = "wait" => queue' = {} /\ nTodo' # 0
  <2> SUFFICES ASSUME NEW m \in Master, pc'[m] = "wait" PROVE queue' = {} /\ nTodo' # 0
    BY ZenonT(30)
  <2>1. CASE m = t
    BY ZenonT(30), <1>1, <2>1
  <2>2. CASE m # t
    <3>1. p[m] = "wait" /\ pc[m] = "wait"
      BY ZenonT(30), <1>2, <2>2 DEF Thread
    <3> QED BY ZenonT(30), <1>1, <2>2, <3>1 DEF WakeInv
  <2> QED BY ZenonT(30), <2>1, <2>2
<1>4. ASSUME queue' # {}, Worker # {}, \A m \in Master : pc'[m] # "notify"
      PROVE  \E w \in Worker : pc'[w] # "wait"
  <2>1. queue # {} /\ pc'[t] # "wait"
    BY ZenonT(30), <1>1, <1>4
  <2>2. \A m \in Master : pc[m] # "notify"
    BY ZenonT(30), <1>2, <1>4 DEF Thread
  <2>3. PICK w \in Worker : pc[w] # "wait"
    BY ZenonT(30), <1>4, <2>1, <2>2 DEF WakeInv
  <2>4. CASE w = t
    BY ZenonT(30), <2>1, <2>4
  <2>5. CASE w # t
    <3>1. pc'[w] = p[w] /\ p[w] = pc[w]
      BY ZenonT(30), <1>2, <2>3, <2>5 DEF Thread
    <3> QED BY ZenonT(30), <2>3, <3>1
  <2> QED BY ZenonT(30), <2>4, <2>5
<1>5. destructor' = "join" => \A w \in Worker : pc'[w] # "wait"
  BY ZenonT(30), <1>1, <1>2 DEF WakeInv, Thread
<1> QED BY <1>3, <1>4, <1>5 DEF WakeInv

\* A step that only wakes threads preserves it.
LEMMA WokenWakes ==
  ASSUME WakeInv, pc' \in [Thread -> States],
         \A u \in Thread : pc'[u] = pc[u] \/ (pc[u] = "wait" /\ pc'[u] = "woken"),
         queue' = queue, nTodo' = nTodo,
         destructor' = "join" => destructor = "join" \/ \A w \in Worker : pc'[w] # "wait"
  PROVE  WakeInv'
<1>1. \A m \in Master : pc'[m] = "wait" => queue' = {} /\ nTodo' # 0
  BY DEF WakeInv, Thread
<1>2. ASSUME queue' # {}, Worker # {}, \A m \in Master : pc'[m] # "notify"
      PROVE  \E w \in Worker : pc'[w] # "wait"
  <2>1. \A m \in Master : pc[m] # "notify"
    BY ZenonT(30), <1>2 DEF Thread
  <2>2. PICK w \in Worker : pc[w] # "wait"
    BY ZenonT(30), <1>2, <2>1 DEF WakeInv
  <2>3. pc'[w] # "wait"
    BY ZenonT(30), <2>2 DEF Thread
  <2> QED BY ZenonT(30), <2>3
<1>3. destructor' = "join" => \A w \in Worker : pc'[w] # "wait"
  BY ZenonT(30) DEF WakeInv, Thread
<1> QED BY ZenonT(30), <1>1, <1>2, <1>3 DEF WakeInv

\* What a master does under its control preserves it: while it does, no master
\* waits, and Notify wakes a worker when all of them wait.
LEMMA ControlWakes ==
  ASSUME QueueInv, WakeInv, NEW m \in Master,
         \/ OpenControl(m) \/ Notify(m) \/ Complete(m) \/ CloseControl(m)
         \/ \E checks \in SUBSET (Check \ added) : Add(m, checks)
  PROVE  WakeInv'
<1>a. TypeOK /\ Owned /\ pc \in [Thread -> States] /\ m \in Thread /\ m \notin Worker
  BY ZenonT(30), CheckQueueAssumption DEF QueueInv, TypeOK, States, Thread
<1>b. destructor' = destructor
  BY ZenonT(30) DEF OpenControl, Notify, Complete, CloseControl, Add, control
<1>c. \A n \in Master : n # m => pc[n] # "wait"
  BY <1>a, CheckQueueAssumption
  DEF Owned, OpenControl, Notify, Complete, CloseControl, Add
<1>1. CASE Notify(m)
  <2>1. PICK q \in Notified(adding # 1) : pc' = [q EXCEPT ![m] = "adding"]
    BY ZenonT(30), <1>1 DEF Notify
  <2>2. /\ q \in [Thread -> States]
        /\ \A u \in Thread : q[u] = pc[u] \/ (pc[u] = "wait" /\ q[u] = "woken")
    BY ZenonT(30), <1>a, <2>1, NotifiedWakes
  <2>3. \A u \in Thread : u # m => pc'[u] = q[u]
    BY ZenonT(30), <2>1, <2>2
  <2>4. pc'[m] = "adding"
    BY ZenonT(30), <1>a, <2>1, <2>2
  <2>5. ASSUME Worker # {} PROVE \E w \in Worker : pc'[w] # "wait"
    <3>1. PICK w \in Worker : q[w] # "wait"
      <4>1. CASE Waiting = {}
        BY ZenonT(30), <2>2, <2>5, <4>1 DEF Waiting, Thread
      <4>2. CASE Waiting # {} /\ adding # 1
        <5>1. q = [u \in Thread |-> IF u \in Waiting THEN "woken" ELSE pc[u]]
          BY <2>1, <4>2 DEF Notified
        <5>2. PICK w \in Waiting : TRUE
          BY ZenonT(30), <4>2
        <5>3. w \in Worker /\ w \in Thread
          BY DEF Waiting, Thread
        <5>4. q[w] = "woken"
          BY ZenonT(30), <5>1, <5>3
        <5> QED BY ZenonT(30), <5>3, <5>4
      <4>3. CASE Waiting # {} /\ adding = 1
        <5>1. PICK w \in Waiting : q = [pc EXCEPT ![w] = "woken"]
          BY ZenonT(30), <2>1, <4>3 DEF Notified
        <5>2. w \in Worker /\ w \in Thread
          BY DEF Waiting, Thread
        <5>3. q[w] = "woken"
          BY ZenonT(30), <1>a, <5>1, <5>2
        <5> QED BY <5>2, <5>3
      <4> QED BY ZenonT(30), <4>1, <4>2, <4>3
    <3>2. w \in Thread /\ w # m
      BY ZenonT(30), <1>a DEF Thread
    <3> QED BY ZenonT(30), <2>3, <3>1, <3>2
  <2>6. \A n \in Master : pc'[n] # "wait"
    BY ZenonT(30), <1>c, <2>2, <2>3, <2>4 DEF Thread
  <2>7. destructor' = "join" => \A w \in Worker : pc'[w] # "wait"
    <3>1. \A w \in Worker : w \in Thread /\ w # m
      BY ZenonT(30), <1>a DEF Thread
    <3> QED BY ZenonT(30), <1>b, <2>2, <2>3, <3>1 DEF WakeInv
  <2> QED BY ZenonT(30), <2>5, <2>6, <2>7 DEF WakeInv
<1>2. CASE ~Notify(m)
  <2>1. PICK s \in {"adding", "enter", "idle", "notify"} : pc' = [pc EXCEPT ![m] = s]
    BY <1>2 DEF OpenControl, Complete, CloseControl, Add
  <2>2. \A u \in Thread : pc'[u] = IF u = m THEN s ELSE pc[u]
    BY ZenonT(30), <1>a, <2>1
  <2>3. \A n \in Master : pc'[n] # "wait"
    BY ZenonT(30), <1>c, <2>1, <2>2 DEF Thread
  <2>4. \A w \in Worker : pc'[w] = pc[w]
    BY <1>a, <2>2 DEF Thread
  <2>5. ASSUME queue' # {}, Worker # {}, \A n \in Master : pc'[n] # "notify"
        PROVE  \E w \in Worker : pc'[w] # "wait"
    <3>1. queue' = queue /\ pc[m] # "notify"
      <4>1. s # "notify"
        BY ZenonT(30), <1>a, <2>2, <2>5
      <4>2. \A checks \in SUBSET (Check \ added) : ~Add(m, checks)
        BY ZenonT(30), <1>a, <2>5 DEF Add
      <4> QED BY ZenonT(30), <1>2, <4>2 DEF OpenControl, Complete, CloseControl, shared
    <3>2. \A n \in Master : pc[n] # "notify"
      BY ZenonT(30), <2>2, <2>5, <3>1 DEF Thread
    <3> QED BY ZenonT(30), <2>4, <2>5, <3>1, <3>2 DEF WakeInv
  <2>6. destructor' = "join" => \A w \in Worker : pc'[w] # "wait"
    BY ZenonT(30), <1>b, <2>4 DEF WakeInv
  <2> QED BY ZenonT(30), <2>3, <2>5, <2>6 DEF WakeInv
<1> QED BY ZenonT(30), <1>1, <1>2

\* The critical sections of Loop, and the batch between them, preserve it.  The
\* worker that finishes the last check wakes the master; a master never
\* finishes a batch while another master waits.
LEMMA LoopWakes ==
  ASSUME QueueInv, WakeInv, NEW t \in Thread, Loop(t)
  PROVE  WakeInv'
<1>a. TypeOK /\ Owned /\ pc \in [Thread -> States]
  BY DEF QueueInv, TypeOK, States
<1>1. CASE Enter(t) \/ Resume(t)
  <2>1. destructor' = destructor /\ pc[t] \in {"enter", "woken", "done"}
    BY ZenonT(30), <1>1 DEF Enter, Resume, control
  <2>2. \A n \in Master : n # t /\ pc[n] = "wait" => nTodo # 0
    BY ZenonT(30) DEF WakeInv
  <2>3. CASE Enter(t)
    <3>1. Continue(t, nTotal + 1, nIdle, nTodo, m_result, pc)
      BY ZenonT(30), <2>3 DEF Enter
    <3> QED BY <1>a, <2>1, <2>2, <3>1, ContinueWakes
  <2>4. CASE Resume(t)
    <3>1. Continue(t, nTotal, nIdle - 1, nTodo, m_result, pc)
      BY ZenonT(30), <2>4 DEF Resume
    <3> QED BY <1>a, <2>1, <2>2, <3>1, ContinueWakes
  <2> QED BY ZenonT(30), <1>1, <2>3, <2>4
<1>2. CASE Run(t)
  <2>1. /\ pc[t] = "run" /\ queue' = queue /\ nTodo' = nTodo /\ destructor' = destructor
        /\ pc' = [pc EXCEPT ![t] = "done"]
    BY <1>2 DEF Run, shared, control
  <2>2. \A u \in Thread : pc'[u] = IF u = t THEN "done" ELSE pc[u]
    BY ZenonT(30), <1>a, <2>1
  <2>3. \A u \in Thread : /\ pc'[u] = "wait" <=> pc[u] = "wait"
                         /\ pc'[u] = "notify" <=> pc[u] = "notify"
    BY <2>1, <2>2
  <2>4. Master \subseteq Thread /\ Worker \subseteq Thread
    BY ZenonT(30) DEF Thread
  <2> QED BY <2>1, <2>3, <2>4 DEF WakeInv
<1>3. CASE Finish(t)
  <2> DEFINE todo == nTodo - Cardinality(batch[t])
             result == IF local_result[t] # None /\ m_result = None THEN local_result[t] ELSE m_result
             p == Woken(t, todo)
  <2>1. /\ destructor' = destructor /\ pc[t] = "done"
        /\ Continue(t, nTotal, nIdle, todo, result, p)
    BY ZenonT(30), <1>3 DEF Finish, control
  <2>2. \A u \in Thread : p[u] =
          IF u \in Master /\ pc[u] = "wait" /\ todo = 0 /\ t \in Worker THEN "woken" ELSE pc[u]
    BY DEF Woken
  <2>3. p \in [Thread -> States]
    BY ZenonT(30), <1>a DEF Woken, States
  <2>4. ASSUME NEW n \in Master, n # t, p[n] = "wait" PROVE todo # 0
    <3>1. n \in Thread /\ pc[n] = "wait"
      BY ZenonT(30), <2>2, <2>4 DEF Thread
    <3>2. t \in Worker
      BY ZenonT(30), <1>a, <2>1, <2>4, <3>1 DEF Owned, Thread
    <3> QED BY ZenonT(30), <2>2, <2>4, <3>1, <3>2
  <2>5. \A u \in Thread : p[u] = pc[u] \/ (pc[u] = "wait" /\ p[u] = "woken")
    BY <2>2
  <2> HIDE DEF todo, result, p
  <2>6. pc[t] \in {"enter", "woken", "done"}
    BY ZenonT(30), <2>1
  <2>7. \A n \in Master : n # t /\ p[n] = "wait" => todo # 0
    BY ZenonT(30), <2>4
  <2> QED BY SMTT(30), <2>1, <2>3, <2>5, <2>6, <2>7, ContinueWakes
<1> QED BY ZenonT(30), <1>1, <1>2, <1>3 DEF Loop

\* For every number of threads and checks, no wake-up is lost: a waiting master
\* waits for a worker that holds checks, queued checks find a worker awake once
\* Add has notified, and no worker sleeps through the destructor (Add, Loop,
\* ~CCheckQueue).
THEOREM QueueWakes == Spec => []NoLostWakeup
<1>1. Init => WakeInv
  BY ZenonT(30), CheckQueueAssumption DEF Init, WakeInv, Thread
<1>2. QueueInv /\ WakeInv /\ [Next]_vars => WakeInv'
  <2> SUFFICES ASSUME QueueInv, WakeInv, [Next]_vars PROVE WakeInv'
    BY ZenonT(30)
  <2>a. pc \in [Thread -> States]
    BY DEF QueueInv, TypeOK, States
  <2>1. ASSUME NEW m \in Master,
               \/ OpenControl(m) \/ Notify(m) \/ Complete(m) \/ CloseControl(m)
               \/ \E checks \in SUBSET (Check \ added) : Add(m, checks)
        PROVE  WakeInv'
    BY <2>1, ControlWakes
  <2>2. ASSUME NEW t \in Thread, Loop(t) PROVE WakeInv'
    BY ZenonT(30), <2>2, LoopWakes
  <2>3. ASSUME NEW t \in Thread, SpuriousWake(t) PROVE WakeInv'
    <3>1. /\ pc' \in [Thread -> States]
          /\ \A u \in Thread : pc'[u] = pc[u] \/ (pc[u] = "wait" /\ pc'[u] = "woken")
      BY ZenonT(30), <2>a, <2>3 DEF SpuriousWake, States
    <3>2. queue' = queue /\ nTodo' = nTodo /\ destructor' = destructor
      BY ZenonT(30), <2>3 DEF SpuriousWake, shared, control
    <3> QED BY ZenonT(30), <3>1, <3>2, WokenWakes
  <2>4. CASE RequestStop
    <3>1. queue' = queue /\ nTodo' = nTodo /\ pc' = pc /\ destructor' = "stop"
      BY ZenonT(30), <2>4 DEF RequestStop, shared
    <3> QED BY ZenonT(30), <2>a, <3>1, WokenWakes
  <2>5. CASE NotifyStop
    <3>1. /\ pc' \in [Thread -> States]
          /\ \A u \in Thread : pc'[u] = pc[u] \/ (pc[u] = "wait" /\ pc'[u] = "woken")
      BY ZenonT(30), <2>a, <2>5, NotifiedWakes DEF NotifyStop
    <3>2. pc' = [u \in Thread |-> IF u \in Waiting THEN "woken" ELSE pc[u]]
      BY <2>5 DEF NotifyStop, Notified
    <3>3. \A w \in Worker : pc'[w] # "wait"
      BY <3>2 DEF Waiting, Thread
    <3>4. queue' = queue /\ nTodo' = nTodo
      BY <2>5 DEF NotifyStop, shared
    <3> QED BY <3>1, <3>3, <3>4, WokenWakes
  <2>6. CASE UNCHANGED vars
    <3>1. queue' = queue /\ nTodo' = nTodo /\ pc' = pc /\ destructor' = destructor
      BY ZenonT(30), <2>6 DEF vars, control, shared
    <3> QED BY ZenonT(30), <2>a, <3>1, WokenWakes
  <2> QED BY ZenonT(30), <2>1, <2>2, <2>3, <2>4, <2>5, <2>6 DEF Next
<1>3. QueueInv /\ WakeInv => NoLostWakeup
  <2> SUFFICES ASSUME QueueInv, WakeInv PROVE NoLostWakeup
    BY ZenonT(30)
  <2>1. ASSUME NEW m \in Master, pc[m] = "wait"
        PROVE  \E w \in Worker : pc[w] \in {"run", "done"} /\ batch[w] # {}
    <3>1. queue = {} /\ Pending # {}
      BY ZenonT(30), <2>1, FS_EmptySet DEF WakeInv, QueueInv, CountsExact
    <3>2. PICK t \in Thread : batch[t] # {}
      BY <3>1 DEF Pending
    <3>3. pc[t] \in {"run", "done"}
      BY <3>2 DEF QueueInv, Batched
    <3>4. t \in Worker
      BY <2>1, <3>3 DEF QueueInv, Owned, Thread
    <3> QED BY ZenonT(30), <3>2, <3>3, <3>4
  <2> QED BY <2>1 DEF WakeInv, NoLostWakeup
<1> QED BY <1>1, <1>2, <1>3, QueueInvariant, PTL DEF Spec

=============================================================================
