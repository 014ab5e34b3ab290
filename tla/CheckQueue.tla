----------------------------- MODULE CheckQueue -----------------------------
(***************************************************************************)
(* The script check queue (src/src/checkqueue.h): a master adds checks     *)
(* under a CCheckQueueControl, worker threads run them in batches, and the *)
(* master joins the workers until every check is done.                     *)
(*                                                                         *)
(* A step is a critical section of m_mutex, or what a thread does between  *)
(* two of them.  The order in which checks leave the queue does not matter *)
(* to its users, so the queue and the batches are sets; a failing check is *)
(* its own error.                                                          *)
(***************************************************************************)
EXTENDS Integers, FiniteSets

CONSTANTS
    Master,     \* threads that open a CCheckQueueControl
    Worker,     \* m_worker_threads
    Check,      \* the checks a master may add
    Bad,        \* the checks that fail
    nBatchSize, \* the largest batch
    None        \* std::nullopt, and no thread

ASSUME CheckQueueAssumption ==
    /\ IsFiniteSet(Check) /\ Bad \subseteq Check
    /\ IsFiniteSet(Master) /\ IsFiniteSet(Worker) /\ Master \cap Worker = {}
    /\ nBatchSize \in Nat \ {0}
    /\ None \notin Check /\ None \notin Master

VARIABLES
    queue,          \* checks nobody has taken
    nIdle, nTotal, nTodo,
    m_result,       \* the error of a failed check, or None
    destructor,     \* how far ~CCheckQueue is: "live", "stop", "join"
    m_control_mutex, \* the master that holds it, or None
    pc,             \* where each thread is
    batch,          \* the checks each thread has taken and not yet accounted for
    do_work,        \* whether it is to run them; FALSE without a batch
    local_result,   \* its local_result, kept from one round to the next
    adding,         \* the size of the Add that has not notified yet
    added,          \* history: the checks added under the present control
    ran,            \* history: those of them in a batch that was run to its end
    returned        \* what Complete returned to the master that leaves

shared == <<queue, nIdle, nTotal, nTodo, m_result>>
control == <<destructor, m_control_mutex, adding, added>>
vars == <<shared, control, pc, batch, do_work, local_result, ran, returned>>

Thread == Master \cup Worker

m_request_stop == destructor # "live"

Init ==
    /\ queue = {} /\ nIdle = 0 /\ nTotal = 0 /\ nTodo = 0
    /\ m_result = None /\ destructor = "live" /\ m_control_mutex = None
    /\ pc = [t \in Thread |-> IF t \in Worker THEN "enter" ELSE "idle"]
    /\ batch = [t \in Thread |-> {}]
    /\ do_work = [t \in Thread |-> FALSE]
    /\ local_result = [t \in Thread |-> None]
    /\ adding = 0 /\ added = {} /\ ran = {} /\ returned = None

-----------------------------------------------------------------------------
\* A master takes m_control_mutex.
OpenControl(m) ==
    /\ pc[m] = "idle" /\ m_control_mutex = None /\ ~m_request_stop
    /\ m_control_mutex' = m
    /\ pc' = [pc EXCEPT ![m] = "adding"]
    /\ UNCHANGED <<shared, destructor, adding, added,
                   batch, do_work, local_result, ran, returned>>

\* Add inserts its checks under the lock and notifies after it.
Add(m, checks) ==
    /\ pc[m] = "adding" /\ checks # {}
    /\ queue' = queue \cup checks
    /\ nTodo' = nTodo + Cardinality(checks)
    /\ added' = added \cup checks
    /\ adding' = Cardinality(checks)
    /\ pc' = [pc EXCEPT ![m] = "notify"]
    /\ UNCHANGED <<nIdle, nTotal, m_result, destructor, m_control_mutex,
                   batch, do_work, local_result, ran, returned>>

Waiting == {w \in Worker : pc[w] = "wait"}

\* pc after a notification of waiting workers: of one whatever was asked, and
\* as notify_one or notify_all.
NotifiedOne(all) ==
    IF Waiting = {} THEN {pc} ELSE {[pc EXCEPT ![w] = "woken"] : w \in Waiting}

Notified(all) ==
    IF all \/ Waiting = {}
    THEN {[t \in Thread |-> IF t \in Waiting THEN "woken" ELSE pc[t]]}
    ELSE {[pc EXCEPT ![w] = "woken"] : w \in Waiting}

\* The end of Add.
Notify(m) ==
    /\ pc[m] = "notify"
    /\ \E p \in Notified(adding # 1) : pc' = [p EXCEPT ![m] = "adding"]
    /\ adding' = 0
    /\ UNCHANGED <<shared, destructor, m_control_mutex, added,
                   batch, do_work, local_result, ran, returned>>

\* Complete, called by the master or by the destructor of its control.
Complete(m) ==
    /\ pc[m] = "adding"
    /\ pc' = [pc EXCEPT ![m] = "enter"]
    /\ UNCHANGED <<shared, control, batch, do_work, local_result, ran, returned>>

\* The control is destroyed, and with it what Complete left on the stack.
CloseControl(m) ==
    /\ pc[m] = "left"
    /\ m_control_mutex' = None
    /\ pc' = [pc EXCEPT ![m] = "idle"]
    /\ local_result' = [local_result EXCEPT ![m] = None]
    /\ added' = {} /\ ran' = {} /\ returned' = None
    /\ UNCHANGED <<shared, destructor, adding, batch, do_work>>

-----------------------------------------------------------------------------
\* The number of checks to take, when n are queued.
BatchCount(n, total, idle) ==
    LET share == n \div (total + idle + 1)
        most == IF share < nBatchSize THEN share ELSE nBatchSize
    IN  IF most < 1 THEN 1 ELSE most

\* nTotal once the master has left: not decremented, and decremented.
TotalKept(total) == total

TotalLeft(total) == total - 1

\* nIdle while one more thread waits.
IdleCounted(idle) == idle + 1

\* m_result once Complete has returned it: kept, and reset for new work later.
ResultKept(result) == result

ResultReset(result) == None

\* The ends of a critical section of Loop, from its while loop on.  The
\* arguments are the counters, m_result and the threads as its beginning left
\* them.  The master returns when nothing is left to do.
Leave(t, total, idle, todo, result, p) ==
    /\ queue = {} /\ ~m_request_stop /\ t \in Master /\ todo = 0
    /\ nTotal' = TotalLeft(total) /\ nIdle' = idle
    /\ returned' = result /\ m_result' = ResultReset(result)
    /\ pc' = [p EXCEPT ![t] = "left"]
    /\ batch' = [batch EXCEPT ![t] = {}] /\ do_work' = [do_work EXCEPT ![t] = FALSE]
    /\ UNCHANGED queue

\* A thread with no work waits on its condition variable.
Wait(t, total, idle, todo, result, p) ==
    /\ queue = {} /\ ~m_request_stop /\ ~(t \in Master /\ todo = 0)
    /\ nTotal' = total /\ nIdle' = IdleCounted(idle)
    /\ m_result' = result
    /\ pc' = [p EXCEPT ![t] = "wait"]
    /\ batch' = [batch EXCEPT ![t] = {}] /\ do_work' = [do_work EXCEPT ![t] = FALSE]
    /\ UNCHANGED <<queue, returned>>

\* A thread that sees the stop request returns.
Exit(t, total, idle, todo, result, p) ==
    /\ m_request_stop
    /\ nTotal' = total /\ nIdle' = idle
    /\ m_result' = result
    /\ pc' = [p EXCEPT ![t] = "exited"]
    /\ batch' = [batch EXCEPT ![t] = {}] /\ do_work' = [do_work EXCEPT ![t] = FALSE]
    /\ UNCHANGED <<queue, returned>>

\* A thread takes a batch, to run it unless a check has failed already.
Take(t, total, idle, todo, result, p) ==
    /\ queue # {} /\ ~m_request_stop
    /\ nTotal' = total /\ nIdle' = idle
    /\ m_result' = result
    /\ \E taken \in SUBSET queue :
           /\ Cardinality(taken) = BatchCount(Cardinality(queue), total, idle)
           /\ batch' = [batch EXCEPT ![t] = taken]
           /\ queue' = queue \ taken
    /\ do_work' = [do_work EXCEPT ![t] = (result = None)]
    /\ pc' = [p EXCEPT ![t] = "run"]
    /\ UNCHANGED returned

Continue(t, total, idle, todo, result, p) ==
    /\ nTodo' = todo
    /\ \/ Leave(t, total, idle, todo, result, p)
       \/ Wait(t, total, idle, todo, result, p)
       \/ Exit(t, total, idle, todo, result, p)
       \/ Take(t, total, idle, todo, result, p)

\* The first critical section of Loop.
Enter(t) ==
    /\ pc[t] = "enter"
    /\ Continue(t, nTotal + 1, nIdle, nTodo, m_result, pc)
    /\ UNCHANGED <<control, local_result, ran>>

\* wait returns to a thread that was notified.
Resume(t) ==
    /\ pc[t] = "woken"
    /\ Continue(t, nTotal, nIdle - 1, nTodo, m_result, pc)
    /\ UNCHANGED <<control, local_result, ran>>

\* A batch is run without the lock, up to the first check that fails.
Run(t) ==
    /\ pc[t] = "run"
    /\ IF ~do_work[t] THEN UNCHANGED <<local_result, ran>>
       ELSE \/ /\ batch[t] \cap Bad = {}
               /\ local_result' = [local_result EXCEPT ![t] = None]
               /\ ran' = ran \cup batch[t]
            \/ /\ \E c \in batch[t] \cap Bad : local_result' = [local_result EXCEPT ![t] = c]
               /\ UNCHANGED ran
    /\ pc' = [pc EXCEPT ![t] = "done"]
    /\ UNCHANGED <<shared, control, batch, do_work, returned>>

\* Who is woken when thread t leaves todo checks: nobody, and the master when
\* a worker has finished the last check.
WokenNobody(t, todo) == pc

Woken(t, todo) ==
    [u \in Thread |->
        IF u \in Master /\ pc[u] = "wait" /\ todo = 0 /\ t \in Worker THEN "woken" ELSE pc[u]]

\* The critical section after a batch.  A first error is swapped with m_result.
Finish(t) ==
    /\ pc[t] = "done"
    /\ LET todo == nTodo - Cardinality(batch[t])
           first == local_result[t] # None /\ m_result = None
       IN  /\ Continue(t, nTotal, nIdle, todo,
                       IF first THEN local_result[t] ELSE m_result, Woken(t, todo))
           /\ local_result' = [local_result EXCEPT ![t] = IF first THEN None ELSE @]
    /\ UNCHANGED <<control, ran>>

-----------------------------------------------------------------------------
\* A condition variable may wake a thread nobody notified.
SpuriousWake(t) ==
    /\ pc[t] = "wait"
    /\ pc' = [pc EXCEPT ![t] = "woken"]
    /\ UNCHANGED <<shared, control, batch, do_work, local_result, ran, returned>>

\* The destructor, which no control outlives, asks the workers to stop ...
RequestStop ==
    /\ destructor = "live" /\ m_control_mutex = None
    /\ destructor' = "stop"
    /\ UNCHANGED <<shared, m_control_mutex, adding, added, pc,
                   batch, do_work, local_result, ran, returned>>

\* ... and wakes those that wait, once.
NotifyStop ==
    /\ destructor = "stop"
    /\ destructor' = "join"
    /\ pc' \in Notified(TRUE)
    /\ UNCHANGED <<shared, m_control_mutex, adding, added,
                   batch, do_work, local_result, ran, returned>>

Loop(t) == Enter(t) \/ Resume(t) \/ Run(t) \/ Finish(t)

Next ==
    \/ \E m \in Master :
           \/ OpenControl(m) \/ Notify(m) \/ Complete(m) \/ CloseControl(m)
           \/ \E checks \in SUBSET (Check \ added) : Add(m, checks)
    \/ \E t \in Thread : Loop(t) \/ SpuriousWake(t)
    \/ RequestStop \/ NotifyStop

Spec == Init /\ [][Next]_vars

\* The operating system runs every thread that can run; a master that has
\* opened a control notifies, completes and closes it.
Fairness ==
    /\ \A t \in Thread : WF_vars(Loop(t))
    /\ \A m \in Master : WF_vars(Notify(m)) /\ WF_vars(CloseControl(m))
    /\ WF_vars(NotifyStop)

FairSpec == Spec /\ Fairness

-----------------------------------------------------------------------------
\* The state has the shape of the members and locals of the code, and the
\* counters, which are unsigned or never to be negative, stay in range.
TypeOK ==
    /\ queue \subseteq Check /\ added \subseteq Check /\ ran \subseteq Check
    /\ nIdle \in Nat /\ nTotal \in Nat /\ nTodo \in Nat /\ adding \in Nat
    /\ m_result \in Check \cup {None} /\ returned \in Check \cup {None}
    /\ destructor \in {"live", "stop", "join"}
    /\ m_control_mutex \in Master \cup {None}
    /\ pc \in [Thread -> {"idle", "adding", "notify", "enter", "run", "done",
                          "wait", "woken", "left", "exited"}]
    /\ batch \in [Thread -> SUBSET Check]
    /\ do_work \in [Thread -> BOOLEAN]
    /\ local_result \in [Thread -> Check \cup {None}]

\* The threads that are in Loop, or were told to stop there, and those that wait.
Entered == {t \in Thread : pc[t] \in {"run", "done", "wait", "woken", "exited"}}
Idle == {t \in Thread : pc[t] \in {"wait", "woken"}}

\* The checks that are not accounted for, queued or in the hands of a thread.
Pending == queue \cup UNION {batch[t] : t \in Thread}

\* The counters of the queue are exact at the end of every critical section:
\* nTodo counts the queue and every batch, no check being in two of them, and
\* nTotal and nIdle count the threads in Loop and those of them that wait.
CountsExact ==
    /\ nTodo = Cardinality(Pending)
    /\ \A t \in Thread : batch[t] \cap queue = {}
    /\ \A t, u \in Thread : t # u => batch[t] \cap batch[u] = {}
    /\ nTotal = Cardinality(Entered)
    /\ nIdle = Cardinality(Idle)

\* Complete answers for the checks of its own control: it returns no error
\* exactly when none of them fails, and then each was run; an error is that of
\* one of them, never one left over by an earlier block (Loop, Complete).
CompleteExact ==
    \A m \in Master : pc[m] = "left" =>
        IF returned = None THEN added \cap Bad = {} /\ added \subseteq ran
        ELSE returned \in added \cap Bad

\* A master that calls Complete gets its answer: no wake-up it or the workers
\* need is lost (the notifications of Add and Loop).
Completes == \A m \in Master : pc[m] = "enter" ~> pc[m] = "left"

\* The destructor's join ends: every worker sees the stop request
\* (~CCheckQueue, Loop).
Stops == destructor = "stop" ~> \A w \in Worker : pc[w] = "exited"

=============================================================================
