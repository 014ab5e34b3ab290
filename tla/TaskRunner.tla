----------------------------- MODULE TaskRunner -----------------------------
(***************************************************************************)
(* The background callbacks of the node: CScheduler and SerialTaskRunner   *)
(* (src/src/scheduler.cpp), the threads that insert callbacks and wait for *)
(* them (src/src/validationinterface.cpp, ActivateBestChain), and the      *)
(* shutdown that drains them (src/src/init.cpp).                           *)
(*                                                                         *)
(* A step is a critical section of newTaskMutex or m_callbacks_mutex.      *)
(* cs_main and m_chainstate_mutex are held over several steps.  Of time,   *)
(* the scheduler sees only whether the moment of a task has come.          *)
(***************************************************************************)
EXTENDS Integers, Sequences

CONSTANTS
    Servicer,     \* threads in CScheduler::serviceQueue
    Producer,     \* threads that connect blocks or wait for the callbacks
    Shutter,      \* the thread that runs Shutdown
    Limit,        \* the 10 of LimitValidationInterfaceQueue
    MaxCallbacks, \* bound on the callbacks inserted before a thread starts over
    None

Thread == Servicer \cup Producer \cup {Shutter}

ASSUME TaskRunnerAssumption ==
    /\ Servicer \cap Producer = {} /\ Shutter \notin Servicer \cup Producer
    /\ Limit \in Nat /\ MaxCallbacks \in Nat /\ None \notin Thread

VARIABLES
    taskQueue,               \* tasks in the order of their times, and which are due
    stopRequested,
    m_callbacks_pending,
    m_are_callbacks_running,
    inserted,                \* how many callbacks were inserted
    executed,                \* how many have run
    current,                 \* the callback each thread runs, or 0
    promise,                 \* the callback each producer waits for, or 0
    cs_main,                 \* its holder, or None
    m_chainstate_mutex,      \* its holder, or None
    pc                       \* where each thread is

scheduler == <<taskQueue, stopRequested>>
callbacks == <<m_callbacks_pending, m_are_callbacks_running, inserted, executed, current>>
locks == <<cs_main, m_chainstate_mutex>>
vars == <<scheduler, callbacks, promise, locks, pc>>

Repeat == [task |-> "repeat", due |-> FALSE]
Process == [task |-> "process", due |-> TRUE]

Init ==
    /\ taskQueue = <<Repeat>> /\ stopRequested = FALSE
    /\ m_callbacks_pending = <<>> /\ m_are_callbacks_running = FALSE
    /\ inserted = 0 /\ executed = 0
    /\ current = [t \in Thread |-> 0] /\ promise = [p \in Producer |-> 0]
    /\ cs_main = None /\ m_chainstate_mutex = None
    /\ pc = [t \in Thread |-> CASE t \in Servicer -> "loop"
                                [] t \in Producer -> "idle"
                                [] OTHER -> "up"]

Goto(t, place) == pc' = [pc EXCEPT ![t] = place]

-----------------------------------------------------------------------------
\* CScheduler.  The threads that wait for newTaskScheduled, with and without
\* a time to wait for.
Waits == {"wait", "until later", "until now"}
Waiting == {t \in Servicer : pc[t] \in Waits}

\* pc after newTaskScheduled.notify_one.
NotifyOne == IF Waiting = {} THEN {pc} ELSE {[pc EXCEPT ![t] = "loop"] : t \in Waiting}

\* A thread looks at the queue: it stops, or waits for a task, or for the time
\* of the first one.
ServiceQueue(t) ==
    /\ pc[t] = "loop"
    /\ \/ stopRequested /\ \E p \in NotifyOne : pc' = [p EXCEPT ![t] = "exited"]
       \/ ~stopRequested /\ taskQueue = <<>> /\ Goto(t, "wait")
       \/ /\ ~stopRequested /\ taskQueue # <<>>
          /\ Goto(t, IF Head(taskQueue).due THEN "until now" ELSE "until later")
    /\ UNCHANGED <<scheduler, callbacks, promise, locks>>

\* The wait for a time ends, and the thread runs the first task, if there still
\* is one.
Timeout(t) ==
    /\ pc[t] = "until now"
    /\ \/ (stopRequested \/ taskQueue = <<>>) /\ Goto(t, "loop") /\ UNCHANGED taskQueue
       \/ /\ ~stopRequested /\ taskQueue # <<>>
          /\ Goto(t, Head(taskQueue).task)
          /\ taskQueue' = Tail(taskQueue)
    /\ UNCHANGED <<stopRequested, callbacks, promise, locks>>

\* The periodic task has run and is scheduled anew.
Reschedule(t) ==
    /\ pc[t] = "repeat"
    /\ taskQueue' = Append(taskQueue, Repeat)
    /\ Goto(t, "notify")
    /\ UNCHANGED <<stopRequested, callbacks, promise, locks>>

\* The time of the first task that was not due comes.
TimePasses ==
    /\ \E i \in DOMAIN taskQueue :
           /\ ~taskQueue[i].due /\ \A j \in 1 .. i - 1 : taskQueue[j].due
           /\ taskQueue' = [taskQueue EXCEPT ![i].due = TRUE]
    /\ pc' = [t \in Thread |-> IF pc[t] = "until later" THEN "until now" ELSE pc[t]]
    /\ UNCHANGED <<stopRequested, callbacks, promise, locks>>

\* A condition variable may wake a thread nobody notified.
SpuriousWake(t) ==
    /\ t \in Waiting
    /\ Goto(t, "loop")
    /\ UNCHANGED <<scheduler, callbacks, promise, locks>>

-----------------------------------------------------------------------------
\* SerialTaskRunner.  Where a thread goes on when MaybeScheduleProcessQueue
\* has returned.
Back(t) ==
    CASE t \in Servicer -> "loop"
      [] t \in Producer -> IF promise[t] # 0 THEN "sync" ELSE "connected"
      [] OTHER -> "flush"

\* insert puts a callback at the end of the queue ...
Insert(t) ==
    /\ pc[t] \in {"insert", "insert promise"}
    /\ inserted' = inserted + 1
    /\ m_callbacks_pending' = Append(m_callbacks_pending, inserted')
    /\ promise' = IF pc[t] = "insert" THEN promise ELSE [promise EXCEPT ![t] = inserted']
    /\ Goto(t, "maybe")
    /\ UNCHANGED <<scheduler, m_are_callbacks_running, executed, current, locks>>

\* ... and sees whether somebody is to be asked to run it.
MaybeScheduleProcessQueue(t) ==
    /\ pc[t] = "maybe"
    /\ Goto(t, IF m_are_callbacks_running \/ m_callbacks_pending = <<>>
               THEN Back(t) ELSE "schedule")
    /\ UNCHANGED <<scheduler, callbacks, promise, locks>>

\* ProcessQueue is scheduled for now, after every task that is due.
Schedule(t) ==
    /\ pc[t] = "schedule"
    /\ \E n \in 0 .. Len(taskQueue) :
           /\ \A i \in DOMAIN taskQueue : taskQueue[i].due <=> i <= n
           /\ taskQueue' = SubSeq(taskQueue, 1, n) \o <<Process>>
                           \o SubSeq(taskQueue, n + 1, Len(taskQueue))
    /\ Goto(t, "notify")
    /\ UNCHANGED <<stopRequested, callbacks, promise, locks>>

Notify(t) ==
    /\ pc[t] = "notify"
    /\ \E p \in NotifyOne : pc' = [p EXCEPT ![t] = Back(t)]
    /\ UNCHANGED <<scheduler, callbacks, promise, locks>>

\* Whether ProcessQueue may take a callback: without and with a look at
\* m_are_callbacks_running.
MayProcessUnchecked == m_callbacks_pending # <<>>

MayProcess == ~m_are_callbacks_running /\ m_callbacks_pending # <<>>

\* ProcessQueue takes the first callback ...
ProcessQueue(t) ==
    /\ pc[t] = "process"
    /\ \/ /\ MayProcess
          /\ m_are_callbacks_running' = TRUE
          /\ current' = [current EXCEPT ![t] = Head(m_callbacks_pending)]
          /\ m_callbacks_pending' = Tail(m_callbacks_pending)
          /\ Goto(t, "callback")
       \/ /\ ~MayProcess
          /\ Goto(t, Back(t))
          /\ UNCHANGED <<m_are_callbacks_running, current, m_callbacks_pending>>
    /\ UNCHANGED <<scheduler, inserted, executed, promise, locks>>

\* What a callback needs to run: cs_main, which subscribers lock, and, were it
\* to activate a chain, m_chainstate_mutex too.
CallbackMayActivate == cs_main = None /\ m_chainstate_mutex = None

CallbackMayRun == cs_main = None

\* ... runs it ...
Callback(t) ==
    /\ pc[t] = "callback" /\ CallbackMayRun
    /\ executed' = executed + 1
    /\ Goto(t, "ran")
    /\ UNCHANGED <<scheduler, m_callbacks_pending, m_are_callbacks_running, inserted,
                   current, promise, locks>>

\* Where the destructor of RAIICallbacksRunning goes once the flag is down: to
\* its end, and to MaybeScheduleProcessQueue.
RanForget(t) == Back(t)

RanNext(t) == "maybe"

\* ... and clears m_are_callbacks_running.
Ran(t) ==
    /\ pc[t] = "ran"
    /\ m_are_callbacks_running' = FALSE
    /\ current' = [current EXCEPT ![t] = 0]
    /\ Goto(t, RanNext(t))
    /\ UNCHANGED <<scheduler, m_callbacks_pending, inserted, executed, promise, locks>>

-----------------------------------------------------------------------------
\* ActivateBestChain takes m_chainstate_mutex ...
ActivateBestChain(p) ==
    /\ pc[p] = "idle" /\ ~stopRequested /\ inserted < MaxCallbacks
    /\ m_chainstate_mutex = None
    /\ m_chainstate_mutex' = p
    /\ Goto(p, "limit")
    /\ UNCHANGED <<scheduler, callbacks, promise, cs_main>>

\* ... drains the queue when it is long ...
LimitValidationInterfaceQueue(p) ==
    /\ pc[p] = "limit"
    /\ Goto(p, IF Len(m_callbacks_pending) > Limit THEN "insert promise" ELSE "connect")
    /\ UNCHANGED <<scheduler, callbacks, promise, locks>>

\* ... connects blocks under cs_main, inserting callbacks ...
Connect(p) ==
    /\ pc[p] = "connect" /\ cs_main = None
    /\ cs_main' = p
    /\ Goto(p, "insert")
    /\ UNCHANGED <<scheduler, callbacks, promise, m_chainstate_mutex>>

\* ... and starts over, or returns.
Connected(p) ==
    /\ pc[p] = "connected"
    /\ cs_main' = None
    /\ \/ inserted < MaxCallbacks /\ Goto(p, "limit") /\ UNCHANGED m_chainstate_mutex
       \/ m_chainstate_mutex' = None /\ Goto(p, "idle")
    /\ UNCHANGED <<scheduler, callbacks, promise>>

\* SyncWithValidationInterfaceQueue, called with no lock held.
Sync(p) ==
    /\ pc[p] = "idle" /\ ~stopRequested /\ inserted < MaxCallbacks
    /\ Goto(p, "insert promise")
    /\ UNCHANGED <<scheduler, callbacks, promise, locks>>

\* It returns when its promise is kept.
Synced(p) ==
    /\ pc[p] = "sync" /\ executed >= promise[p]
    /\ promise' = [promise EXCEPT ![p] = 0]
    /\ Goto(p, IF m_chainstate_mutex = p THEN "connect" ELSE "idle")
    /\ UNCHANGED <<scheduler, callbacks, locks>>

-----------------------------------------------------------------------------
\* Shutdown stops the scheduler once nothing else inserts callbacks ...
Stop ==
    /\ pc[Shutter] = "up" /\ \A p \in Producer : pc[p] = "idle"
    /\ stopRequested' = TRUE
    /\ pc' = [t \in Thread |-> CASE t = Shutter -> "join"
                                 [] t \in Waiting -> "loop"
                                 [] OTHER -> pc[t]]
    /\ UNCHANGED <<taskQueue, callbacks, promise, locks>>

\* ... waits for its threads, flushes the chain state, which inserts a last
\* callback ...
Join ==
    /\ pc[Shutter] = "join" /\ \A t \in Servicer : pc[t] = "exited"
    /\ Goto(Shutter, "insert")
    /\ UNCHANGED <<scheduler, callbacks, promise, locks>>

\* ... and, unlike a Shutdown that returned at once, runs what is left itself.
FlushNothing ==
    /\ pc[Shutter] = "flush"
    /\ Goto(Shutter, "down")
    /\ UNCHANGED <<scheduler, callbacks, promise, locks>>

Flush ==
    /\ pc[Shutter] = "flush"
    /\ Goto(Shutter, IF m_callbacks_pending = <<>> THEN "down" ELSE "process")
    /\ UNCHANGED <<scheduler, callbacks, promise, locks>>

Step(t) ==
    \/ Insert(t) \/ MaybeScheduleProcessQueue(t) \/ Schedule(t) \/ Notify(t)
    \/ ProcessQueue(t) \/ Callback(t) \/ Ran(t)

Service(t) == ServiceQueue(t) \/ Timeout(t) \/ Reschedule(t) \/ Step(t)

Activate(p) ==
    LimitValidationInterfaceQueue(p) \/ Connect(p) \/ Connected(p) \/ Synced(p) \/ Step(p)

Shut == Stop \/ Join \/ Flush \/ Step(Shutter)

Next ==
    \/ TimePasses
    \/ \E t \in Servicer : Service(t) \/ SpuriousWake(t)
    \/ \E p \in Producer : Activate(p) \/ ActivateBestChain(p) \/ Sync(p)
    \/ Shut

Spec == Init /\ [][Next]_vars

\* Every thread that can run does; a wait for a time that has come ends however
\* often the thread is woken early; and Shutdown, once begun, goes on.  Nobody
\* is bound to begin anything.
Fairness ==
    /\ \A t \in Servicer : WF_vars(Service(t)) /\ SF_vars(Timeout(t))
    /\ \A p \in Producer : WF_vars(Activate(p))
    /\ WF_vars(Join \/ Flush \/ Step(Shutter))

FairSpec == Spec /\ Fairness

-----------------------------------------------------------------------------
Place ==
    Waits \cup {"loop", "exited", "repeat", "process", "callback", "ran",
               "insert", "insert promise", "maybe", "schedule", "notify",
               "idle", "limit", "connect", "connected", "sync",
               "up", "join", "flush", "down"}

\* The state has the shape of the code's members and locals, and
\* m_are_callbacks_running is set exactly while a thread is between the two
\* ends of RAIICallbacksRunning (scheduler.cpp, ProcessQueue).
TypeOK ==
    /\ taskQueue \in Seq([task : {"process", "repeat"}, due : BOOLEAN])
    /\ {stopRequested, m_are_callbacks_running} \subseteq BOOLEAN
    /\ m_callbacks_pending \in Seq(Nat \ {0})
    /\ {inserted, executed} \subseteq Nat
    /\ current \in [Thread -> Nat] /\ promise \in [Producer -> Nat]
    /\ {cs_main, m_chainstate_mutex} \subseteq Producer \cup {None}
    /\ pc \in [Thread -> Place]
    /\ m_are_callbacks_running <=> \E t \in Thread : pc[t] \in {"callback", "ran"}

\* A callback that waits is never forgotten: a ProcessQueue task is scheduled,
\* or a thread is about to schedule or run one, or the shutdown is still to
\* flush.  This is what the check of both flags under one lock in
\* MaybeScheduleProcessQueue, and the call of it by the thread that has run a
\* callback, are for (scheduler.cpp, "even if callback() throws").
NotForgotten ==
    m_callbacks_pending # <<>> =>
        \/ \E i \in DOMAIN taskQueue : taskQueue[i].task = "process"
        \/ \E t \in Thread : pc[t] \in {"maybe", "schedule", "process", "callback", "ran"}
        \/ pc[Shutter] = "flush"

\* The callbacks are run as CallbackQueue promises: one at a time whatever the
\* number of scheduler threads ("no two jobs will be executed at the same
\* time", scheduler.h), in the order of insertion, and every one of them.
Busy == {t \in Thread : current[t] # 0}
Queue == INSTANCE CallbackQueue WITH
    pending <- m_callbacks_pending,
    running <- IF Busy = {} THEN 0 ELSE current[CHOOSE t \in Busy : TRUE]
Serial == Queue!FairSpec

\* Whoever waits for the callbacks goes on: SyncWithValidationInterfaceQueue
\* returns, also to ActivateBestChain, which calls it with m_chainstate_mutex
\* held ("if a validationinterface callback ends up calling ActivateBestChain
\* this may lead to a deadlock!", validation.cpp).
SyncReturns == \A p \in Producer : pc[p] = "sync" ~> pc[p] # "sync"

\* Shutdown ends, and then no callback is left (init.cpp, "Any future callbacks
\* will be dropped").
Drains == stopRequested ~> (pc[Shutter] = "down" /\ executed = inserted)
=============================================================================
