-------------------------- MODULE TaskRunnerProofs --------------------------
(***************************************************************************)
(* For every number of scheduler threads, of threads that insert callbacks *)
(* and of callbacks: at most one callback runs, callbacks run in the order *)
(* of insertion, and one that waits is never forgotten.                    *)
(*                                                                         *)
(* The argument rests on m_are_callbacks_running.  It is set exactly while *)
(* a thread is between the two ends of RAIICallbacksRunning, and no two    *)
(* threads are there.  Whoever finds it set may therefore leave a callback *)
(* to that thread, which asks again once it has cleared the flag.          *)
(***************************************************************************)
EXTENDS TaskRunner, SequenceTheorems, TLAPS

\* Where a thread runs a callback, and where it cares for the callbacks that wait.
Runs == {"callback", "ran"}
Cares == {"maybe", "schedule", "process"} \cup Runs

Common == {"maybe", "schedule", "notify"}

\* The places of each kind of thread.
Role(t) ==
  IF t \in Servicer
  THEN Waits \cup Common \cup Runs \cup {"loop", "exited", "repeat", "process"}
  ELSE IF t \in Producer
  THEN Common \cup {"idle", "limit", "insert", "insert promise", "connect", "connected", "sync"}
  ELSE Common \cup Runs \cup {"up", "join", "insert", "flush", "process", "down"}

Exclusive ==
  /\ \A t \in Thread : pc[t] \in Role(t)
  /\ \A t \in Thread : current[t] # 0 <=> pc[t] \in Runs
  /\ \A t, u \in Thread : pc[t] \in Runs /\ pc[u] \in Runs => t = u

RunnerInv == TypeOK /\ Exclusive /\ NotForgotten

Scheduled(tasks) == \E i \in DOMAIN tasks : tasks[i].task = "process"

Task == [task : {"process", "repeat"}, due : BOOLEAN]

-----------------------------------------------------------------------------
\* What a thread may do while others step: nothing, or be woken.
Woke(u, place) ==
  \/ place = pc[u]
  \/ u \in Servicer /\ pc[u] \in Waits /\ place \in Waits \cup {"loop"}

\* A thread that moves outside of RAIICallbacksRunning, while others are woken,
\* leaves the callback that runs alone.  It may stop caring for the callbacks
\* that wait when none does, when one runs, or when a task will.
LEMMA Moved ==
  ASSUME RunnerInv, NEW t \in Thread, pc' \in [Thread -> Place],
         \A u \in Thread : u # t => Woke(u, pc'[u]),
         \/ Woke(t, pc'[t])
         \/ /\ pc[t] \notin Runs /\ pc'[t] \in Role(t) \ Runs
            /\ \/ pc[t] \notin Cares \cup {"flush"}
               \/ pc'[t] \in Cares \cup {"flush"}
               \/ m_callbacks_pending = <<>> \/ m_are_callbacks_running
               \/ Scheduled(taskQueue'),
         UNCHANGED <<current, m_are_callbacks_running>>,
         m_callbacks_pending' = m_callbacks_pending \/ pc'[t] \in Cares,
         Scheduled(taskQueue) => Scheduled(taskQueue')
  PROVE  /\ Exclusive' /\ NotForgotten'
         /\ m_are_callbacks_running' <=> \E u \in Thread : pc'[u] \in Runs
<1>a. TypeOK /\ Exclusive /\ NotForgotten
  BY DEF RunnerInv
<1>1. \A u \in Thread : pc'[u] \in Role(u)
  <2>1. \A u \in Servicer : Waits \cup {"loop"} \subseteq Role(u)
    BY ZenonT(30) DEF Role
  <2>2. \A u \in Thread : Woke(u, pc'[u]) => pc'[u] \in Role(u)
    BY <1>a, <2>1 DEF Exclusive, Woke
  <2> QED BY <2>2
<1>2. \A u \in Thread : pc'[u] \in Runs <=> pc[u] \in Runs
  <2>1. \A u \in Thread : Woke(u, pc'[u]) => (pc'[u] \in Runs <=> pc[u] \in Runs)
    BY ZenonT(30) DEF Woke, Runs, Waits
  <2> QED BY <2>1
<1>3. Exclusive'
  BY <1>a, <1>1, <1>2 DEF Exclusive
<1>4. m_are_callbacks_running' <=> \E u \in Thread : pc'[u] \in Runs
  BY <1>a, <1>2 DEF TypeOK, Runs
<1>5. NotForgotten'
  <2> SUFFICES ASSUME m_callbacks_pending' # <<>>
               PROVE  \/ Scheduled(taskQueue')
                      \/ \E u \in Thread : pc'[u] \in Cares
                      \/ pc'[Shutter] = "flush"
    BY DEF NotForgotten, Scheduled, Cares, Runs
  <2>a. Shutter \in Thread
    BY DEF Thread
  <2>1. CASE pc'[t] \in Cares
    BY <2>1
  <2>2. CASE pc'[t] \notin Cares
    <3>1. m_callbacks_pending # <<>>
      BY <2>2
    <3>2. \/ Scheduled(taskQueue)
          \/ \E u \in Thread : pc[u] \in Cares
          \/ pc[Shutter] = "flush"
      BY <3>1, <1>a DEF NotForgotten, Scheduled, Cares, Runs
    <3>3. \A u \in Thread : Woke(u, pc'[u]) /\ pc[u] \in Cares \cup {"flush"} => pc'[u] = pc[u]
      BY ZenonT(30) DEF Woke, Waits, Cares, Runs
    <3>4. CASE m_are_callbacks_running
      BY <3>4, <1>4 DEF Cares
    <3>5. CASE Woke(t, pc'[t])
      BY <2>a, <3>2, <3>3, <3>5
    <3>6. CASE ~Woke(t, pc'[t]) /\ ~m_are_callbacks_running
      <4>1. CASE pc'[t] = "flush"
        <5>1. pc'[t] \in Role(t)
          BY <1>1
        <5>2. t = Shutter
          BY <4>1, <5>1 DEF Role, Thread, Waits, Common, Runs
        <5> QED BY <4>1, <5>2
      <4>2. CASE pc[t] \notin Cares \cup {"flush"}
        BY <2>a, <3>2, <3>3, <4>2
      <4> QED BY <2>2, <3>1, <3>6, <4>1, <4>2
    <3> QED BY <3>4, <3>5, <3>6
  <2> QED BY <2>1, <2>2
<1> QED BY <1>3, <1>4, <1>5

\* notify_one wakes at most a thread that waits.
LEMMA NotifyOneWakes ==
  ASSUME pc \in [Thread -> Place], NEW q \in NotifyOne
  PROVE  q \in [Thread -> Place] /\ \A u \in Thread : Woke(u, q[u])
<1>1. \A w \in Waiting : w \in Thread /\ w \in Servicer /\ pc[w] \in Waits
  BY DEF Waiting, Thread
<1>2. "loop" \in Place
  BY ZenonT(30) DEF Place
<1>3. CASE q = pc
  BY <1>3 DEF Woke
<1>4. ASSUME NEW w \in Waiting, q = [pc EXCEPT ![w] = "loop"]
      PROVE  q \in [Thread -> Place] /\ \A u \in Thread : Woke(u, q[u])
  BY <1>1, <1>2, <1>4 DEF Woke
<1> QED BY <1>3, <1>4 DEF NotifyOne

\* An element of a sequence is one of a longer sequence.
LEMMA ConcatFirst ==
  ASSUME NEW S, NEW x \in Seq(S), NEW y \in Seq(S), NEW i \in 1 .. Len(x)
  PROVE  x \o y \in Seq(S) /\ i \in DOMAIN (x \o y) /\ (x \o y)[i] = x[i]
<1>1. Len(x) \in Nat /\ Len(y) \in Nat
  OBVIOUS
<1>2. x \o y \in Seq(S) /\ Len(x \o y) = Len(x) + Len(y)
  BY ConcatProperties
<1>3. i \in 1 .. Len(x) + Len(y) /\ i <= Len(x)
  BY <1>1
<1>4. (x \o y)[i] = x[i]
  BY <1>3, ConcatProperties
<1>5. DOMAIN (x \o y) = 1 .. Len(x \o y)
  BY <1>2, LenProperties
<1> QED BY <1>2, <1>3, <1>4, <1>5

\* Scheduling ProcessQueue leaves it in the queue.
LEMMA ScheduleTask ==
  ASSUME NEW a \in Seq(Task), NEW b \in Seq(Task)
  PROVE  a \o <<Process>> \o b \in Seq(Task) /\ Scheduled(a \o <<Process>> \o b)
<1> DEFINE c == a \o <<Process>>
           n == Len(a)
<1>1. Process \in Task /\ Process.task = "process"
  BY DEF Process, Task
<1>2. c = Append(a, Process)
  BY <1>1, AppendIsConcat
<1>3. c \in Seq(Task) /\ Len(c) = n + 1 /\ c[n + 1] = Process
  BY <1>1, <1>2, AppendProperties
<1>4. n + 1 \in 1 .. Len(c)
  BY <1>3
<1> HIDE DEF c
<1>5. c \o b \in Seq(Task) /\ n + 1 \in DOMAIN (c \o b) /\ (c \o b)[n + 1] = Process
  BY <1>3, <1>4, ConcatFirst
<1>6. Scheduled(c \o b)
  BY <1>1, <1>5 DEF Scheduled
<1> QED BY <1>5, <1>6 DEF c

-----------------------------------------------------------------------------
\* TypeOK without the places of the threads.
Typed ==
  /\ taskQueue \in Seq(Task)
  /\ stopRequested \in BOOLEAN /\ m_are_callbacks_running \in BOOLEAN
  /\ m_callbacks_pending \in Seq(Nat \ {0})
  /\ inserted \in Nat /\ executed \in Nat
  /\ current \in [Thread -> Nat] /\ promise \in [Producer -> Nat]
  /\ cs_main \in Producer \cup {None} /\ m_chainstate_mutex \in Producer \cup {None}

Shape ==
  /\ Typed /\ pc \in [Thread -> Place]
  /\ m_are_callbacks_running <=> \E u \in Thread : pc[u] \in Runs

LEMMA TypeSplit == (TypeOK <=> Shape) /\ (TypeOK <=> Shape)'
BY DEF TypeOK, Shape, Typed, Task, Runs

\* The steps of the threads that are in the scheduler.
LEMMA SchedulerInv ==
  ASSUME RunnerInv, NEW t \in Servicer,
         ServiceQueue(t) \/ Timeout(t) \/ Reschedule(t) \/ SpuriousWake(t)
  PROVE  RunnerInv'
<1>a. t \in Thread /\ Typed /\ pc \in [Thread -> Place] /\ NotForgotten /\ Exclusive
  BY TypeSplit DEF RunnerInv, Shape, Thread
<1>b. ASSUME Typed', pc' \in [Thread -> Place],
             \A u \in Thread : u # t => Woke(u, pc'[u]),
             pc[t] \notin Cares \cup {"flush"}, pc'[t] \in Role(t) \ Runs,
             Scheduled(taskQueue) => Scheduled(taskQueue') \/ pc'[t] \in Cares,
             UNCHANGED callbacks
      PROVE  RunnerInv'
  <2>1. UNCHANGED <<current, m_are_callbacks_running, m_callbacks_pending>>
    BY <1>b DEF callbacks
  <2>2. CASE Scheduled(taskQueue) => Scheduled(taskQueue')
    <3>1. /\ Exclusive' /\ NotForgotten'
          /\ m_are_callbacks_running' <=> \E u \in Thread : pc'[u] \in Runs
      BY <1>a, <1>b, <2>1, <2>2, Moved DEF Cares
    <3> QED BY <1>b, <3>1, TypeSplit DEF RunnerInv, Shape
  <2>3. CASE pc'[t] \in Cares
    <3>1. \A u \in Thread : pc'[u] \in Runs <=> pc[u] \in Runs
      <4>1. \A u \in Thread : Woke(u, pc'[u]) => (pc'[u] \in Runs <=> pc[u] \in Runs)
        BY ZenonT(30) DEF Woke, Runs, Waits
      <4> QED BY <1>b, <4>1 DEF Cares
    <3>2. \A u \in Thread : pc'[u] \in Role(u)
      <4>1. \A u \in Servicer : Waits \cup {"loop"} \subseteq Role(u)
        BY DEF Role
      <4>2. \A u \in Thread : Woke(u, pc'[u]) => pc'[u] \in Role(u)
        BY <1>a, <4>1 DEF Exclusive, Woke
      <4> QED BY <1>b, <4>2
    <3>3. Exclusive'
      BY <1>a, <2>1, <3>1, <3>2 DEF Exclusive
    <3>4. NotForgotten'
      BY <1>a, <2>3 DEF NotForgotten, Cares, Runs
    <3>5. m_are_callbacks_running' <=> \E u \in Thread : pc'[u] \in Runs
      BY <2>1, <3>1, TypeSplit DEF RunnerInv, Shape
    <3> QED BY <1>b, <3>3, <3>4, <3>5, TypeSplit DEF RunnerInv, Shape
  <2> QED BY <1>b, <2>2, <2>3
<1>c. {"loop", "wait", "until now", "until later", "exited", "notify", "repeat", "process"}
        \subseteq (Role(t) \ Runs) \cap Place
  BY DEF Role, Runs, Waits, Common, Place
<1>1. CASE ServiceQueue(t)
  <2>1. PICK q \in NotifyOne \cup {pc}, place \in {"exited", "wait", "until now", "until later"} :
          pc' = [q EXCEPT ![t] = place]
    BY ZenonT(30), <1>1 DEF ServiceQueue, Goto
  <2>2. q \in [Thread -> Place] /\ \A u \in Thread : Woke(u, q[u])
    BY ZenonT(30), <1>a, <2>1, NotifyOneWakes DEF Woke
  <2>3. /\ pc' \in [Thread -> Place] /\ pc'[t] \in Role(t) \ Runs
        /\ \A u \in Thread : u # t => Woke(u, pc'[u])
    BY ZenonT(30), <1>a, <1>c, <2>1, <2>2
  <2>4. Typed' /\ UNCHANGED callbacks /\ taskQueue' = taskQueue
    BY ZenonT(30), <1>a, <1>1 DEF ServiceQueue, Typed, scheduler, callbacks, locks
  <2>5. pc[t] \notin Cares \cup {"flush"}
    BY ZenonT(30), <1>1 DEF ServiceQueue, Cares, Runs
  <2> QED BY ZenonT(30), <1>b, <2>3, <2>4, <2>5
<1>2. CASE Timeout(t)
  <2>1. pc[t] = "until now" /\ UNCHANGED <<stopRequested, callbacks, promise, locks>>
    BY ZenonT(30), <1>2 DEF Timeout
  <2>2. CASE pc' = [pc EXCEPT ![t] = "loop"] /\ taskQueue' = taskQueue
    <3>1. /\ pc' \in [Thread -> Place] /\ pc'[t] \in Role(t) \ Runs
          /\ \A u \in Thread : u # t => Woke(u, pc'[u])
      BY ZenonT(30), <1>a, <1>c, <2>2 DEF Woke
    <3>2. Typed'
      BY ZenonT(30), <1>a, <2>1, <2>2 DEF Typed, callbacks, locks
    <3>3. pc[t] \notin Cares \cup {"flush"}
      BY ZenonT(30), <2>1 DEF Cares, Runs
    <3> QED BY ZenonT(30), <1>b, <2>1, <2>2, <3>1, <3>2, <3>3
  <2>3. CASE taskQueue # <<>> /\ pc' = [pc EXCEPT ![t] = Head(taskQueue).task]
             /\ taskQueue' = Tail(taskQueue)
    <3>1. taskQueue \in Seq(Task)
      BY <1>a DEF Typed
    <3>2. /\ Head(taskQueue) \in Task /\ taskQueue' \in Seq(Task)
          /\ Len(taskQueue') = Len(taskQueue) - 1
          /\ \A i \in 1 .. Len(taskQueue') : taskQueue'[i] = taskQueue[i + 1]
      BY <2>3, <3>1, HeadTailProperties
    <3>3. Head(taskQueue).task \in {"process", "repeat"}
      BY <3>2 DEF Task
    <3>4. /\ pc' \in [Thread -> Place] /\ pc'[t] \in Role(t) \ Runs /\ pc'[t] = Head(taskQueue).task
          /\ \A u \in Thread : u # t => Woke(u, pc'[u])
      BY ZenonT(30), <1>a, <1>c, <2>3, <3>3 DEF Woke
    <3>5. Scheduled(taskQueue) => Scheduled(taskQueue') \/ pc'[t] \in Cares
      <4> SUFFICES ASSUME NEW i \in DOMAIN taskQueue, taskQueue[i].task = "process"
                   PROVE  Scheduled(taskQueue') \/ pc'[t] \in Cares
        BY DEF Scheduled
      <4>1. DOMAIN taskQueue = 1 .. Len(taskQueue) /\ Len(taskQueue) \in Nat
            /\ DOMAIN taskQueue' = 1 .. Len(taskQueue')
        BY <3>1, <3>2, LenProperties
      <4>2. CASE i = 1
        <5>1. Head(taskQueue) = taskQueue[1]
          BY <2>3, <3>1
        <5> QED BY <3>4, <4>2, <5>1 DEF Cares
      <4>3. CASE i # 1
        <5>1. i - 1 \in 1 .. Len(taskQueue') /\ (i - 1) + 1 = i
          BY <3>2, <4>1, <4>3
        <5>2. taskQueue'[i - 1] = taskQueue[i]
          BY <3>2, <5>1
        <5> QED BY <4>1, <5>1, <5>2 DEF Scheduled
      <4> QED BY <4>2, <4>3
    <3>6. Typed'
      BY ZenonT(30), <1>a, <2>1, <3>2 DEF Typed, callbacks, locks
    <3>7. pc[t] \notin Cares \cup {"flush"}
      BY ZenonT(30), <2>1 DEF Cares, Runs
    <3> QED BY ZenonT(30), <1>b, <2>1, <3>4, <3>5, <3>6, <3>7
  <2> QED BY ZenonT(30), <1>2, <2>2, <2>3 DEF Timeout, Goto
<1>3. CASE Reschedule(t)
  <2>1. /\ pc[t] = "repeat" /\ UNCHANGED <<stopRequested, callbacks, promise, locks>>
        /\ pc' = [pc EXCEPT ![t] = "notify"] /\ taskQueue' = Append(taskQueue, Repeat)
    BY <1>3 DEF Reschedule, Goto
  <2>2. /\ pc' \in [Thread -> Place] /\ pc'[t] \in Role(t) \ Runs
        /\ \A u \in Thread : u # t => Woke(u, pc'[u])
    BY ZenonT(30), <1>a, <1>c, <2>1 DEF Woke
  <2>3. taskQueue \in Seq(Task) /\ Repeat \in Task
    BY <1>a DEF Typed, Repeat, Task
  <2>4. /\ taskQueue' \in Seq(Task) /\ Len(taskQueue') = Len(taskQueue) + 1
        /\ \A i \in 1 .. Len(taskQueue) : taskQueue'[i] = taskQueue[i]
    BY <2>1, <2>3, AppendProperties
  <2>5. Scheduled(taskQueue) => Scheduled(taskQueue')
    <3>1. DOMAIN taskQueue = 1 .. Len(taskQueue) /\ Len(taskQueue) \in Nat
          /\ DOMAIN taskQueue' = 1 .. Len(taskQueue')
      BY <2>3, <2>4, LenProperties
    <3>2. DOMAIN taskQueue \subseteq DOMAIN taskQueue'
      BY <2>4, <3>1
    <3> QED BY <2>4, <3>1, <3>2 DEF Scheduled
  <2>6. Typed'
    BY <1>a, <2>1, <2>4 DEF Typed, callbacks, locks
  <2>7. pc[t] \notin Cares \cup {"flush"}
    BY <2>1 DEF Cares, Runs
  <2> QED BY <1>b, <2>1, <2>2, <2>5, <2>6, <2>7
<1>4. CASE SpuriousWake(t)
  <2>1. /\ pc[t] \in Waits /\ pc' = [pc EXCEPT ![t] = "loop"]
        /\ UNCHANGED <<scheduler, callbacks, promise, locks>>
    BY <1>4 DEF SpuriousWake, Waiting, Goto
  <2>2. /\ pc' \in [Thread -> Place] /\ pc'[t] \in Role(t) \ Runs
        /\ \A u \in Thread : u # t => Woke(u, pc'[u])
    BY ZenonT(30), <1>a, <1>c, <2>1 DEF Woke
  <2>3. Typed' /\ UNCHANGED callbacks /\ taskQueue' = taskQueue
    BY <1>a, <2>1 DEF Typed, scheduler, callbacks, locks
  <2>4. pc[t] \notin Cares \cup {"flush"}
    BY ZenonT(30), <2>1 DEF Waits, Cares, Runs
  <2> QED BY <1>b, <2>2, <2>3, <2>4
<1> QED BY <1>1, <1>2, <1>3, <1>4

\* Moved, for a thread that goes to a place without waking anybody.
LEMMA MovedTo ==
  ASSUME RunnerInv, Typed', NEW t \in Thread, NEW place \in (Role(t) \ Runs) \cap Place,
         pc' = [pc EXCEPT ![t] = place], pc[t] \notin Runs,
         \/ pc[t] \notin Cares \cup {"flush"}
         \/ place \in Cares \cup {"flush"}
         \/ m_callbacks_pending = <<>> \/ m_are_callbacks_running
         \/ Scheduled(taskQueue'),
         UNCHANGED <<current, m_are_callbacks_running>>,
         m_callbacks_pending' = m_callbacks_pending \/ place \in Cares,
         Scheduled(taskQueue) => Scheduled(taskQueue')
  PROVE  RunnerInv'
<1>1. pc \in [Thread -> Place]
  BY TypeSplit DEF RunnerInv, Shape
<1>2. /\ pc' \in [Thread -> Place] /\ pc'[t] = place
      /\ \A u \in Thread : u # t => Woke(u, pc'[u])
  BY <1>1 DEF Woke
<1>3. /\ Exclusive' /\ NotForgotten'
      /\ m_are_callbacks_running' <=> \E u \in Thread : pc'[u] \in Runs
  BY <1>2, Moved
<1> QED BY <1>2, <1>3, TypeSplit DEF RunnerInv, Shape

\* Back returns to where the thread came from.
LEMMA BackRole ==
  ASSUME NEW t \in Thread
  PROVE  Back(t) \in (Role(t) \ Runs) \cap Place /\ (t = Shutter => Back(t) = "flush")
<1>1. CASE t \in Servicer
  BY <1>1, TaskRunnerAssumption DEF Back, Role, Runs, Place
<1>2. CASE t \in Producer
  BY <1>2, TaskRunnerAssumption DEF Back, Role, Runs, Place, Common
<1>3. CASE t = Shutter
  BY <1>3, TaskRunnerAssumption DEF Back, Role, Runs, Place, Common
<1> QED BY <1>1, <1>2, <1>3 DEF Thread

\* The steps of SerialTaskRunner.
LEMMA StepInv ==
  ASSUME RunnerInv, NEW t \in Thread, Step(t)
  PROVE  RunnerInv'
<1>a. Typed /\ pc \in [Thread -> Place] /\ NotForgotten /\ Exclusive
      /\ (m_are_callbacks_running <=> \E u \in Thread : pc[u] \in Runs)
  BY TypeSplit DEF RunnerInv, Shape
<1>b. {"maybe", "schedule", "notify"} \subseteq (Role(t) \ Runs) \cap Place
  BY DEF Role, Runs, Common, Place
<1>c. pc[t] \in {"process", "callback", "ran"} => t \notin Producer /\ {"callback", "ran"} \subseteq Role(t)
  <2>1. pc[t] \in Role(t)
    BY <1>a DEF Exclusive
  <2> QED BY ZenonT(30), <2>1, TaskRunnerAssumption DEF Role, Common, Runs
<1>1. CASE Insert(t)
  <2>1. /\ pc[t] \in {"insert", "insert promise"} /\ pc' = [pc EXCEPT ![t] = "maybe"]
        /\ inserted' = inserted + 1 /\ m_callbacks_pending' = Append(m_callbacks_pending, inserted')
        /\ promise' = IF pc[t] = "insert" THEN promise ELSE [promise EXCEPT ![t] = inserted']
        /\ UNCHANGED <<scheduler, m_are_callbacks_running, executed, current, locks>>
    BY ZenonT(30), <1>1 DEF Insert, Goto
  <2>2. inserted' \in Nat \ {0} /\ m_callbacks_pending' \in Seq(Nat \ {0})
    <3>1. inserted \in Nat /\ m_callbacks_pending \in Seq(Nat \ {0})
      BY <1>a DEF Typed
    <3>2. inserted' \in Nat \ {0}
      <4>1. inserted' = inserted + 1
        BY ZenonT(30), <2>1
      <4> QED BY <3>1, <4>1
    <3> QED BY ZenonT(30), <2>1, <3>1, <3>2, AppendProperties
  <2>3. promise' \in [Producer -> Nat]
    BY ZenonT(30), <1>a, <2>1, <2>2 DEF Typed
  <2>4. Typed' /\ taskQueue' = taskQueue
    BY ZenonT(30), <1>a, <2>1, <2>2, <2>3 DEF Typed, scheduler, locks
  <2>5. pc[t] \notin Cares \cup {"flush"} /\ "maybe" \in Cares
    BY ZenonT(30), <2>1 DEF Cares, Runs
  <2> QED BY ZenonT(30), <1>b, <2>1, <2>4, <2>5, MovedTo DEF Cares
<1>2. CASE MaybeScheduleProcessQueue(t)
  <2>1. PICK place \in {Back(t), "schedule"} :
          /\ pc[t] = "maybe" /\ pc' = [pc EXCEPT ![t] = place]
          /\ m_are_callbacks_running \/ m_callbacks_pending = <<>> \/ place = "schedule"
          /\ UNCHANGED <<scheduler, callbacks, promise, locks>>
    BY ZenonT(30), <1>2 DEF MaybeScheduleProcessQueue, Goto
  <2>2. Typed' /\ taskQueue' = taskQueue
        /\ UNCHANGED <<current, m_are_callbacks_running, m_callbacks_pending>>
    BY <1>a, <2>1 DEF Typed, scheduler, callbacks, locks
  <2>3. place \in (Role(t) \ Runs) \cap Place /\ "schedule" \in Cares /\ pc[t] \notin Runs
    BY <1>b, <2>1, BackRole DEF Cares, Runs
  <2> QED BY ZenonT(30), <2>1, <2>2, <2>3, MovedTo
<1>3. CASE Schedule(t)
  <2>1. /\ pc[t] = "schedule" /\ pc' = [pc EXCEPT ![t] = "notify"]
        /\ UNCHANGED <<stopRequested, callbacks, promise, locks>>
    BY <1>3 DEF Schedule, Goto
  <2>2. taskQueue' \in Seq(Task) /\ Scheduled(taskQueue')
    <3>1. PICK n \in 0 .. Len(taskQueue) :
            taskQueue' = SubSeq(taskQueue, 1, n) \o <<Process>>
                         \o SubSeq(taskQueue, n + 1, Len(taskQueue))
      BY ZenonT(30), <1>3 DEF Schedule
    <3>2. taskQueue \in Seq(Task) /\ Len(taskQueue) \in Nat /\ n \in Int
          /\ \A i \in 1 .. Len(taskQueue) : taskQueue[i] \in Task
      BY <1>a DEF Typed
    <3>3. SubSeq(taskQueue, 1, n) \in Seq(Task)
      BY <3>2, SubSeqProperties
    <3>4. SubSeq(taskQueue, n + 1, Len(taskQueue)) \in Seq(Task)
      BY <3>2, SubSeqProperties
    <3> QED BY ZenonT(30), <3>1, <3>3, <3>4, ScheduleTask
  <2>3. Typed' /\ UNCHANGED <<current, m_are_callbacks_running, m_callbacks_pending>>
    BY <1>a, <2>1, <2>2 DEF Typed, callbacks, locks
  <2>4. pc[t] \notin Runs
    BY <2>1 DEF Runs
  <2> QED BY ZenonT(30), <1>b, <2>1, <2>2, <2>3, <2>4, MovedTo
<1>4. CASE Notify(t)
  <2>1. PICK q \in NotifyOne : pc' = [q EXCEPT ![t] = Back(t)]
    BY ZenonT(30), <1>4 DEF Notify
  <2>2. pc[t] = "notify" /\ UNCHANGED <<scheduler, callbacks, promise, locks>>
    BY <1>4 DEF Notify
  <2>3. q \in [Thread -> Place] /\ \A u \in Thread : Woke(u, q[u])
    BY <1>a, <2>1, NotifyOneWakes
  <2>4. /\ pc' \in [Thread -> Place] /\ pc'[t] \in Role(t) \ Runs
        /\ \A u \in Thread : u # t => Woke(u, pc'[u])
    BY <2>1, <2>3, BackRole
  <2>5. Typed' /\ taskQueue' = taskQueue
        /\ UNCHANGED <<current, m_are_callbacks_running, m_callbacks_pending>>
    BY <1>a, <2>2 DEF Typed, scheduler, callbacks, locks
  <2>6. pc[t] \notin Cares \cup {"flush"} /\ pc[t] \notin Runs
    BY <2>2 DEF Cares, Runs
  <2>7. /\ Exclusive' /\ NotForgotten'
        /\ m_are_callbacks_running' <=> \E u \in Thread : pc'[u] \in Runs
    BY <2>4, <2>5, <2>6, Moved
  <2> QED BY <2>4, <2>5, <2>7, TypeSplit DEF RunnerInv, Shape
<1>5. CASE ProcessQueue(t)
  <2>1. pc[t] = "process" /\ UNCHANGED <<scheduler, inserted, executed, promise, locks>>
    BY <1>5 DEF ProcessQueue
  <2>2. CASE MayProcess
    <3>1. /\ ~m_are_callbacks_running /\ m_callbacks_pending # <<>> /\ m_are_callbacks_running' = TRUE
          /\ current' = [current EXCEPT ![t] = Head(m_callbacks_pending)]
          /\ m_callbacks_pending' = Tail(m_callbacks_pending)
          /\ pc' = [pc EXCEPT ![t] = "callback"]
      BY <1>5, <2>2 DEF ProcessQueue, MayProcess, Goto
    <3>2. m_callbacks_pending \in Seq(Nat \ {0}) /\ current \in [Thread -> Nat]
      BY <1>a DEF Typed
    <3>3. Head(m_callbacks_pending) \in Nat \ {0} /\ m_callbacks_pending' \in Seq(Nat \ {0})
      BY <3>1, <3>2, HeadTailProperties
    <3>4. /\ current' \in [Thread -> Nat]
          /\ \A u \in Thread : current'[u] = IF u = t THEN Head(m_callbacks_pending) ELSE current[u]
      BY <3>1, <3>2, <3>3
    <3>5. Typed'
      BY <1>a, <2>1, <3>1, <3>3, <3>4 DEF Typed, scheduler, locks
    <3>6. /\ pc' \in [Thread -> Place] /\ "callback" \in Runs
          /\ \A u \in Thread : pc'[u] = IF u = t THEN "callback" ELSE pc[u]
      BY ZenonT(30), <1>a, <3>1 DEF Place, Runs
    <3>7. \A u \in Thread : pc[u] \notin Runs
      BY <1>a, <3>1
    <3>8. Exclusive'
      BY ZenonT(30), <1>a, <1>c, <2>1, <3>3, <3>4, <3>6, <3>7 DEF Exclusive
    <3>9. NotForgotten'
      BY <3>6 DEF NotForgotten
    <3> QED BY <3>1, <3>5, <3>6, <3>8, <3>9, TypeSplit DEF RunnerInv, Shape
  <2>3. CASE ~MayProcess
    <3>1. /\ m_are_callbacks_running \/ m_callbacks_pending = <<>>
          /\ pc' = [pc EXCEPT ![t] = Back(t)]
          /\ UNCHANGED <<m_are_callbacks_running, current, m_callbacks_pending>>
      BY <1>a, <1>5, <2>3 DEF ProcessQueue, MayProcess, Goto, Typed
    <3>2. Typed' /\ taskQueue' = taskQueue
      BY <1>a, <2>1, <3>1 DEF Typed, scheduler, locks
    <3>3. pc[t] \notin Runs
      BY <2>1 DEF Runs
    <3> QED BY ZenonT(30), <2>1, <3>1, <3>2, <3>3, BackRole, MovedTo
  <2> QED BY <2>2, <2>3
<1>6. CASE Callback(t)
  <2>1. /\ pc[t] = "callback" /\ executed' = executed + 1 /\ pc' = [pc EXCEPT ![t] = "ran"]
        /\ UNCHANGED <<scheduler, m_callbacks_pending, m_are_callbacks_running, inserted,
                       current, promise, locks>>
    BY <1>6 DEF Callback, Goto
  <2>2. Typed'
    BY <1>a, <2>1 DEF Typed, scheduler, locks
  <2>3. /\ pc' \in [Thread -> Place] /\ "ran" \in Runs /\ pc[t] \in Runs
        /\ \A u \in Thread : pc'[u] = IF u = t THEN "ran" ELSE pc[u]
    BY ZenonT(30), <1>a, <2>1 DEF Place, Runs
  <2>4. \A u \in Thread : pc'[u] \in Runs <=> pc[u] \in Runs
    BY <2>3
  <2>5. Exclusive'
    BY <1>a, <1>c, <2>1, <2>3, <2>4 DEF Exclusive
  <2>6. NotForgotten'
    BY <2>3 DEF NotForgotten
  <2> QED BY <1>a, <2>1, <2>2, <2>3, <2>4, <2>5, <2>6, TypeSplit DEF RunnerInv, Shape
<1>7. CASE Ran(t)
  <2>1. /\ pc[t] = "ran" /\ m_are_callbacks_running' = FALSE
        /\ current' = [current EXCEPT ![t] = 0] /\ pc' = [pc EXCEPT ![t] = "maybe"]
        /\ UNCHANGED <<scheduler, m_callbacks_pending, inserted, executed, promise, locks>>
    BY <1>7 DEF Ran, RanNext, Goto
  <2>2. /\ current' \in [Thread -> Nat]
        /\ \A u \in Thread : current'[u] = IF u = t THEN 0 ELSE current[u]
    BY <1>a, <2>1 DEF Typed
  <2>3. Typed'
    BY ZenonT(30), <1>a, <2>1, <2>2 DEF Typed, scheduler, locks
  <2>4. /\ pc' \in [Thread -> Place] /\ "maybe" \notin Runs /\ pc[t] \in Runs
        /\ \A u \in Thread : pc'[u] = IF u = t THEN "maybe" ELSE pc[u]
    BY ZenonT(30), <1>a, <2>1 DEF Place, Runs
  <2>5. \A u \in Thread : pc'[u] \notin Runs
    BY <1>a, <2>4 DEF Exclusive
  <2>6. Exclusive'
    BY <1>a, <1>b, <2>2, <2>4, <2>5 DEF Exclusive
  <2>7. NotForgotten'
    BY <2>4 DEF NotForgotten
  <2> QED BY <2>1, <2>3, <2>4, <2>5, <2>6, <2>7, TypeSplit DEF RunnerInv, Shape
<1> QED BY <1>1, <1>2, <1>3, <1>4, <1>5, <1>6, <1>7 DEF Step

\* The steps of the threads that connect blocks, or wait for the callbacks.
LEMMA ProducerInv ==
  ASSUME RunnerInv, NEW p \in Producer,
         \/ ActivateBestChain(p) \/ LimitValidationInterfaceQueue(p) \/ Connect(p)
         \/ Connected(p) \/ Sync(p) \/ Synced(p)
  PROVE  RunnerInv'
<1>a. p \in Thread /\ Typed
  BY TypeSplit DEF RunnerInv, Shape, Thread
<1>b. {"idle", "limit", "insert", "insert promise", "connect"} \subseteq (Role(p) \ Runs) \cap Place
  BY ZenonT(30), TaskRunnerAssumption DEF Role, Runs, Place
<1>1. \E place \in {"idle", "limit", "insert", "insert promise", "connect"} : pc' = [pc EXCEPT ![p] = place]
  BY ZenonT(30) DEF ActivateBestChain, LimitValidationInterfaceQueue, Connect, Connected, Sync, Synced, Goto
<1>2. UNCHANGED <<scheduler, callbacks>>
  BY ZenonT(30) DEF ActivateBestChain, LimitValidationInterfaceQueue, Connect, Connected, Sync, Synced
<1>3. promise' \in [Producer -> Nat]
  <2>1. promise \in [Producer -> Nat]
    BY <1>a DEF Typed
  <2>2. promise' = promise \/ promise' = [promise EXCEPT ![p] = 0]
    BY ZenonT(30) DEF ActivateBestChain, LimitValidationInterfaceQueue, Connect, Connected, Sync, Synced
  <2> QED BY <2>1, <2>2
<1>4. cs_main' \in {cs_main, p, None} /\ m_chainstate_mutex' \in {m_chainstate_mutex, p, None}
  BY ZenonT(30) DEF ActivateBestChain, LimitValidationInterfaceQueue, Connect, Connected, Sync, Synced, locks
<1>5. Typed' /\ taskQueue' = taskQueue
      /\ UNCHANGED <<current, m_are_callbacks_running, m_callbacks_pending>>
  BY <1>a, <1>2, <1>3, <1>4 DEF Typed, scheduler, callbacks
<1>6. pc[p] \notin Cares \cup {"flush"} /\ pc[p] \notin Runs
  BY ZenonT(30) DEF ActivateBestChain, LimitValidationInterfaceQueue, Connect, Connected, Sync, Synced, Cares, Runs
<1> QED BY ZenonT(30), <1>a, <1>b, <1>1, <1>5, <1>6, MovedTo

\* The steps of Shutdown.
LEMMA ShutInv ==
  ASSUME RunnerInv, Stop \/ Join \/ Flush
  PROVE  RunnerInv'
<1>a. Shutter \in Thread /\ Typed /\ pc \in [Thread -> Place]
  BY TypeSplit DEF RunnerInv, Shape, Thread
<1>b. {"join", "insert", "process", "down"} \subseteq (Role(Shutter) \ Runs) \cap Place
  BY TaskRunnerAssumption DEF Role, Runs, Place
<1>1. CASE Stop
  <2>1. pc' = [t \in Thread |-> CASE t = Shutter -> "join" [] t \in Waiting -> "loop" [] OTHER -> pc[t]]
    BY <1>1 DEF Stop
  <2>2. pc'[Shutter] = "join"
    BY <1>a, <2>1, TaskRunnerAssumption DEF Waiting
  <2>3. ASSUME NEW u \in Thread, u # Shutter
        PROVE  pc'[u] = IF u \in Waiting THEN "loop" ELSE pc[u]
    BY <2>1, <2>3
  <2>4. "loop" \in Place /\ \A u \in Waiting : u \in Servicer /\ pc[u] \in Waits
    BY DEF Place, Waiting
  <2>5. pc' \in [Thread -> Place] /\ \A u \in Thread : u # Shutter => Woke(u, pc'[u])
    <3>1. \A u \in Thread : pc'[u] \in Place
      BY <1>a, <1>b, <2>2, <2>3, <2>4
    <3>2. \A u \in Thread : u # Shutter => Woke(u, pc'[u])
      BY <2>3, <2>4 DEF Woke
    <3> QED BY <2>1, <3>1, <3>2
  <2>6. Typed' /\ taskQueue' = taskQueue
        /\ UNCHANGED <<current, m_are_callbacks_running, m_callbacks_pending>>
    BY <1>a, <1>1 DEF Stop, Typed, callbacks, locks
  <2>7. pc[Shutter] \notin Cares \cup {"flush"} /\ pc[Shutter] \notin Runs
    BY <1>1 DEF Stop, Cares, Runs
  <2>8. /\ Exclusive' /\ NotForgotten'
        /\ m_are_callbacks_running' <=> \E u \in Thread : pc'[u] \in Runs
    BY <1>a, <1>b, <2>2, <2>5, <2>6, <2>7, Moved
  <2> QED BY <2>5, <2>6, <2>8, TypeSplit DEF RunnerInv, Shape
<1>2. CASE Join \/ Flush
  <2>1. PICK place \in {"insert", "process", "down"} :
          /\ pc' = [pc EXCEPT ![Shutter] = place]
          /\ pc[Shutter] = "join" \/ m_callbacks_pending = <<>> \/ place = "process"
    BY <1>2 DEF Join, Flush, Goto
  <2>2. UNCHANGED <<scheduler, callbacks, promise, locks>> /\ pc[Shutter] \in {"join", "flush"}
    BY <1>2 DEF Join, Flush
  <2>3. Typed' /\ taskQueue' = taskQueue
        /\ UNCHANGED <<current, m_are_callbacks_running, m_callbacks_pending>>
    BY <1>a, <2>2 DEF Typed, scheduler, callbacks, locks
  <2>4. pc[Shutter] \notin Runs /\ "process" \in Cares /\ "join" \notin Cares \cup {"flush"}
    BY <2>2 DEF Cares, Runs
  <2> QED BY ZenonT(30), <1>a, <1>b, <2>1, <2>3, <2>4, MovedTo
<1> QED BY <1>1, <1>2

\* Time wakes threads that wait, and makes a task due.
LEMMA TimeInv ==
  ASSUME RunnerInv, TimePasses
  PROVE  RunnerInv'
<1>a. Shutter \in Thread /\ Typed /\ pc \in [Thread -> Place] /\ Exclusive
  BY TypeSplit DEF RunnerInv, Shape, Thread
<1>1. PICK i \in DOMAIN taskQueue : taskQueue' = [taskQueue EXCEPT ![i].due = TRUE]
  BY ZenonT(30) DEF TimePasses
<1>2. /\ UNCHANGED <<stopRequested, callbacks, promise, locks>>
      /\ pc' = [t \in Thread |-> IF pc[t] = "until later" THEN "until now" ELSE pc[t]]
  BY ZenonT(30) DEF TimePasses
<1>3. taskQueue \in Seq(Task) /\ taskQueue[i] \in Task
  BY <1>a DEF Typed
<1>4. [taskQueue[i] EXCEPT !.due = TRUE] \in Task
      /\ [taskQueue[i] EXCEPT !.due = TRUE].task = taskQueue[i].task
  BY ZenonT(30), <1>3 DEF Task
<1>5. taskQueue' = [taskQueue EXCEPT ![i] = [taskQueue[i] EXCEPT !.due = TRUE]]
  BY <1>1
<1>6. taskQueue' \in Seq(Task)
  BY <1>3, <1>4, <1>5, ExceptSeq
<1>7. Scheduled(taskQueue) => Scheduled(taskQueue')
  <2>1. DOMAIN taskQueue' = DOMAIN taskQueue
    BY <1>5
  <2>2. \A j \in DOMAIN taskQueue : taskQueue'[j].task = taskQueue[j].task
    BY <1>3, <1>4, <1>5
  <2> QED BY <2>1, <2>2 DEF Scheduled
<1>8. Typed' /\ UNCHANGED <<current, m_are_callbacks_running, m_callbacks_pending>>
  BY ZenonT(30), <1>a, <1>2, <1>6 DEF Typed, callbacks, locks
<1>9. pc' \in [Thread -> Place] /\ \A u \in Thread : Woke(u, pc'[u])
  <2>1. "until now" \in Place /\ "until now" \in Waits /\ "until later" \in Waits
    BY DEF Place, Waits
  <2>2. \A u \in Thread : pc[u] = "until later" => u \in Servicer
    BY ZenonT(30), <1>a DEF Exclusive, Role, Common, Runs
  <2> QED BY ZenonT(30), <1>a, <1>2, <2>1, <2>2 DEF Woke
<1>10. /\ Exclusive' /\ NotForgotten'
       /\ m_are_callbacks_running' <=> \E u \in Thread : pc'[u] \in Runs
  BY <1>a, <1>7, <1>8, <1>9, Moved
<1> QED BY <1>8, <1>9, <1>10, TypeSplit DEF RunnerInv, Shape

\* Every step preserves the invariant.
LEMMA RunnerStep ==
  ASSUME RunnerInv, [Next]_vars
  PROVE  RunnerInv'
<1>1. CASE UNCHANGED vars
  BY <1>1 DEF vars, scheduler, callbacks, locks, RunnerInv, TypeOK, Exclusive, NotForgotten
<1>2. CASE TimePasses
  BY <1>2, TimeInv
<1>3. ASSUME NEW t \in Servicer, Service(t) \/ SpuriousWake(t) PROVE RunnerInv'
  BY <1>3, SchedulerInv, StepInv DEF Service, Thread
<1>4. ASSUME NEW p \in Producer, Activate(p) \/ ActivateBestChain(p) \/ Sync(p) PROVE RunnerInv'
  BY <1>4, ProducerInv, StepInv DEF Activate, Thread
<1>5. CASE Shut
  BY <1>5, ShutInv, StepInv DEF Shut, Thread
<1> QED BY <1>1, <1>2, <1>3, <1>4, <1>5 DEF Next

\* The invariant of the task runner is inductive.
LEMMA RunnerInvariant == Spec => []RunnerInv
<1>1. Init => RunnerInv
  <2> SUFFICES ASSUME Init PROVE RunnerInv
    OBVIOUS
  <2>1. \A t \in Thread : pc[t] \in {"loop", "idle", "up"} /\ pc[t] \in Role(t)
    BY ZenonT(30), TaskRunnerAssumption DEF Init, Thread, Role
  <2>2. Typed
    <3>1. <<Repeat>> \in Seq(Task)
      BY DEF Repeat, Task
    <3>2. <<>> \in Seq(Nat \ {0}) /\ 0 \in Nat
      OBVIOUS
    <3>3. current \in [Thread -> Nat] /\ promise \in [Producer -> Nat]
      BY <3>2 DEF Init
    <3> QED BY <3>1, <3>2, <3>3, Zenon DEF Init, Typed
  <2>3. \A t \in Thread : pc[t] \in Place /\ pc[t] \notin Runs
    BY ZenonT(30), <2>1 DEF Place, Runs
  <2>4. pc \in [Thread -> Place]
    BY <2>3 DEF Init
  <2>5. Exclusive
    BY <2>1, <2>3 DEF Exclusive, Init
  <2>6. Shape
    BY <2>2, <2>3, <2>4 DEF Shape, Init
  <2>7. NotForgotten
    BY DEF NotForgotten, Init
  <2> QED BY <2>5, <2>6, <2>7, TypeSplit DEF RunnerInv
<1>2. RunnerInv /\ [Next]_vars => RunnerInv'
  BY RunnerStep
<1> QED BY <1>1, <1>2, PTL DEF Spec

-----------------------------------------------------------------------------
\* The callback that runs, as CallbackQueue sees it.
Running == IF Busy = {} THEN 0 ELSE current[CHOOSE t \in Busy : TRUE]

\* What runs, in a state and in the one after a step: the callback of the
\* thread between the ends of RAIICallbacksRunning, or nothing.
RunsWhat ==
  /\ \A t \in Thread : pc[t] \in Runs => Running = current[t] /\ Running # 0
  /\ (\A t \in Thread : pc[t] \notin Runs) => Running = 0

LEMMA OneRuns == (Exclusive => RunsWhat) /\ (Exclusive => RunsWhat)'
<1>1. Exclusive => RunsWhat
  <2> SUFFICES ASSUME Exclusive PROVE RunsWhat
    OBVIOUS
  <2>1. ASSUME NEW t \in Thread, pc[t] \in Runs PROVE Running = current[t] /\ Running # 0
    <3>1. Busy = {t}
      BY <2>1 DEF Busy, Exclusive
    <3>2. (CHOOSE u \in Busy : TRUE) = t
      BY <3>1
    <3> QED BY <2>1, <3>1, <3>2 DEF Running, Exclusive
  <2>2. (\A t \in Thread : pc[t] \notin Runs) => Running = 0
    BY DEF Running, Busy, Exclusive
  <2> QED BY <2>1, <2>2 DEF RunsWhat
<1>2. (Exclusive => RunsWhat)'
  BY <1>1, PTL
<1> QED BY <1>1, <1>2

\* A step that neither inserts nor takes nor ends a callback leaves the
\* abstract queue alone.
LEMMA QueueAlone ==
  ASSUME UNCHANGED <<inserted, m_callbacks_pending, current>>
  PROVE  UNCHANGED <<inserted, m_callbacks_pending, Running>>
BY DEF Running, Busy

\* Every step is a step of the abstract queue, or leaves it alone.
LEMMA RunnerRefinesStep ==
  ASSUME RunnerInv, [Next]_vars
  PROVE  [Queue!Next]_(Queue!vars)
<1>a. Exclusive /\ Exclusive'
  <2>1. RunnerInv /\ RunnerInv'
    BY RunnerStep
  <2> QED BY <2>1 DEF RunnerInv
<1>b. Typed /\ (m_are_callbacks_running <=> \E u \in Thread : pc[u] \in Runs)
  BY TypeSplit DEF RunnerInv, Shape
<1>1. CASE UNCHANGED <<inserted, m_callbacks_pending, current>>
  BY <1>1, QueueAlone DEF Queue!vars, Running
<1>2. ASSUME NEW t \in Thread, Insert(t) PROVE Queue!Insert
  <2>1. /\ inserted' = inserted + 1 /\ m_callbacks_pending' = Append(m_callbacks_pending, inserted')
        /\ current' = current
    BY ZenonT(30), <1>2 DEF Insert
  <2>2. Running' = Running
    BY <2>1 DEF Running, Busy
  <2> QED BY <2>1, <2>2 DEF Queue!Insert, Running
<1>3. ASSUME NEW t \in Thread, ProcessQueue(t), MayProcess PROVE Queue!Begin
  <2>1. /\ ~m_are_callbacks_running /\ m_callbacks_pending # <<>>
        /\ current' = [current EXCEPT ![t] = Head(m_callbacks_pending)]
        /\ m_callbacks_pending' = Tail(m_callbacks_pending)
        /\ pc' = [pc EXCEPT ![t] = "callback"] /\ inserted' = inserted
    BY <1>3 DEF ProcessQueue, MayProcess, Goto
  <2>2. Running = 0
    BY <1>a, <1>b, <2>1, OneRuns DEF RunsWhat
  <2>3. pc'[t] \in Runs /\ current'[t] = Head(m_callbacks_pending)
    <3>1. pc \in [Thread -> Place] /\ current \in [Thread -> Nat]
      BY TypeSplit DEF RunnerInv, Shape, Typed
    <3> QED BY <2>1, <3>1 DEF Runs
  <2>4. Running' = current'[t]
    BY <1>a, <2>3, OneRuns DEF RunsWhat
  <2> QED BY <2>1, <2>2, <2>3, <2>4 DEF Queue!Begin, Running
<1>4. ASSUME NEW t \in Thread, Ran(t) PROVE Queue!End
  <2>1. /\ pc[t] = "ran" /\ m_are_callbacks_running' = FALSE /\ inserted' = inserted
        /\ m_callbacks_pending' = m_callbacks_pending
    BY <1>4 DEF Ran
  <2>2. Running # 0
    BY <1>a, <2>1, OneRuns DEF Runs, RunsWhat
  <2>3. \A u \in Thread : pc'[u] \notin Runs
    <3>1. Shape'
      BY RunnerStep, TypeSplit DEF RunnerInv
    <3> QED BY <2>1, <3>1 DEF Shape
  <2>4. Running' = 0
    BY <1>a, <2>3, OneRuns DEF RunsWhat
  <2> QED BY <2>1, <2>2, <2>4 DEF Queue!End, Running
<1>5. ASSUME NEW t \in Thread, Step(t) PROVE [Queue!Next]_(Queue!vars)
  <2>1. CASE MaybeScheduleProcessQueue(t) \/ Schedule(t) \/ Notify(t) \/ Callback(t)
    BY ZenonT(30), <1>1, <2>1 DEF MaybeScheduleProcessQueue, Schedule, Notify, Callback, callbacks
  <2>2. CASE ProcessQueue(t) /\ ~MayProcess
    BY <1>1, <2>2 DEF ProcessQueue
  <2> QED BY <1>2, <1>3, <1>4, <1>5, <2>1, <2>2 DEF Step, Queue!Next
<1>6. CASE UNCHANGED vars \/ TimePasses
  BY ZenonT(30), <1>1, <1>6 DEF TimePasses, vars, callbacks
<1>7. ASSUME NEW t \in Servicer, Service(t) \/ SpuriousWake(t) PROVE [Queue!Next]_(Queue!vars)
  <2>1. CASE ServiceQueue(t) \/ Timeout(t) \/ Reschedule(t) \/ SpuriousWake(t)
    BY ZenonT(30), <1>1, <2>1 DEF ServiceQueue, Timeout, Reschedule, SpuriousWake, callbacks
  <2> QED BY <1>5, <1>7, <2>1 DEF Service, Thread
<1>8. ASSUME NEW p \in Producer, Activate(p) \/ ActivateBestChain(p) \/ Sync(p)
      PROVE  [Queue!Next]_(Queue!vars)
  <2>1. CASE \/ ActivateBestChain(p) \/ LimitValidationInterfaceQueue(p) \/ Connect(p)
             \/ Connected(p) \/ Sync(p) \/ Synced(p)
    BY ZenonT(30), <1>1, <2>1 DEF ActivateBestChain, LimitValidationInterfaceQueue, Connect, Connected,
                      Sync, Synced, callbacks
  <2> QED BY <1>5, <1>8, <2>1 DEF Activate, Thread
<1>9. CASE Shut
  <2>1. CASE Stop \/ Join \/ Flush
    BY <1>1, <2>1 DEF Stop, Join, Flush, callbacks
  <2> QED BY <1>5, <1>9, <2>1 DEF Shut, Thread
<1> QED BY <1>6, <1>7, <1>8, <1>9 DEF Next

-----------------------------------------------------------------------------
\* For every number of threads, m_are_callbacks_running is set exactly while a
\* callback runs, and a callback that waits is never forgotten (ProcessQueue,
\* MaybeScheduleProcessQueue, Shutdown).
THEOREM CallbacksNotForgotten == Spec => [](TypeOK /\ NotForgotten)
<1>1. RunnerInv => TypeOK /\ NotForgotten
  BY DEF RunnerInv
<1> QED BY <1>1, RunnerInvariant, PTL

\* For every number of threads, callbacks run one at a time and in the order of
\* insertion: the task runner implements the safety part of Serial.
THEOREM RunnerIsSerial == Spec => Queue!Spec
<1>1. Init => Queue!Init
  <2> SUFFICES ASSUME Init PROVE Queue!Init
    OBVIOUS
  <2>1. Busy = {}
    BY DEF Init, Busy
  <2> QED BY <2>1 DEF Init, Queue!Init
<1>2. RunnerInv /\ [Next]_vars => [Queue!Next]_(Queue!vars)
  BY RunnerRefinesStep
<1> QED BY <1>1, <1>2, RunnerInvariant, PTL DEF Spec, Queue!Spec

=============================================================================
