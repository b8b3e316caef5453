----------------------------- MODULE ThreadPool -----------------------------
(***************************************************************************)
(* base/ThreadPool.cpp: workers that take tasks from a bounded queue, other*)
(* threads (producers) that call Run, and the thread that calls Start and  *)
(* Stop.                                                                   *)
(*                                                                         *)
(* What a thread does while it holds mutex_ is one step, up to a wait on a *)
(* condition variable.  A thread in a wait is "waiting"; once it has been  *)
(* notified, or has woken up by itself, it is where it goes on as soon as  *)
(* it has the mutex again.  notify_one wakes any one of the waiting.       *)
(*                                                                         *)
(* The default build is Release, with NDEBUG: asserts are no steps.  A task*)
(* comes to an end, and it does not call Run.                              *)
(***************************************************************************)
EXTENDS Naturals, Sequences, FiniteSets

CONSTANTS Workers,        \* the threads of pool_; thread_num is their number
          Producers,
          maxQueueSize_,  \* 0: no limit
          MaxTasks        \* bound: calls of Run

ASSUME ThreadPoolAssumption ==
    /\ IsFiniteSet(Workers) /\ Workers \cap Producers = {}
    /\ maxQueueSize_ \in Nat /\ MaxTasks \in Nat

VARIABLES
    running_, taskQueue_,
    started,    \* Start() was called: pool_ has the workers
    worker,     \* worker -> where it is
    task,       \* worker or producer -> the task in its hands, 0 if none
    producer,   \* producer -> where it is in Run
    stop,       \* "none", "joining", "stopped"
    runs,       \* calls of Run so far; they number the tasks
    ran,        \* history: tasks that were run
    alone       \* history: no two calls of Run overlapped, and none woke up
                \* without a notification

progress == <<runs, ran, alone>>
vars == <<running_, taskQueue_, started, worker, task, producer, stop, progress>>

Init ==
    /\ running_ = FALSE /\ taskQueue_ = <<>> /\ started = FALSE
    /\ worker = [w \in Workers |-> "none"]
    /\ task = [t \in Workers \cup Producers |-> 0]
    /\ producer = [p \in Producers |-> "idle"]
    /\ stop = "none" /\ runs = 0 /\ ran = {} /\ alone = TRUE

-----------------------------------------------------------------------------
\* pc with one thread of those waiting in it, if any, gone on to `next'.
NotifyOne(pc, next) ==
    LET waiting == {t \in DOMAIN pc : pc[t] = "waiting"}
    IN  IF waiting = {} THEN {pc}
        ELSE {[pc EXCEPT ![t] = next] : t \in waiting}

NotifyAll(pc, next) ==
    [t \in DOMAIN pc |-> IF pc[t] = "waiting" THEN next ELSE pc[t]]

IsFull == maxQueueSize_ > 0 /\ Len(taskQueue_) = maxQueueSize_

-----------------------------------------------------------------------------
\* The thread that owns the pool.

Start ==
    /\ ~started
    /\ started' = TRUE /\ running_' = TRUE
    /\ worker' = [w \in Workers |-> "test"]
    /\ UNCHANGED <<taskQueue_, task, producer, stop, progress>>

\* Mutant: producers are not notified.
Stop_ForgetsProducers ==
    /\ running_ /\ stop = "none"
    /\ running_' = FALSE /\ stop' = "joining"
    /\ worker' = NotifyAll(worker, "take")
    /\ UNCHANGED <<taskQueue_, started, task, producer, progress>>

Stop ==
    /\ running_ /\ stop = "none"
    /\ running_' = FALSE /\ stop' = "joining"
    /\ worker' = NotifyAll(worker, "take")
    /\ producer' = NotifyAll(producer, "push")
    /\ UNCHANGED <<taskQueue_, started, task, progress>>

Join ==
    /\ stop = "joining" /\ \A w \in Workers : worker[w] = "exited"
    /\ stop' = "stopped"
    /\ UNCHANGED <<running_, taskQueue_, started, worker, task, producer, progress>>

-----------------------------------------------------------------------------
\* Workers.

\* while (running_), without the mutex.
ThreadFunc(w) ==
    /\ worker[w] = "test"
    /\ worker' = [worker EXCEPT ![w] = IF running_ THEN "take" ELSE "exited"]
    /\ UNCHANGED <<running_, taskQueue_, started, task, producer, stop, progress>>

\* Mutant: off by one.
NoLongerFull_StillFull(q) == maxQueueSize_ > 0 /\ Len(q) = maxQueueSize_

\* A producer is notified when the queue is just no longer full.
NoLongerFull(q) == maxQueueSize_ > 0 /\ Len(q) = maxQueueSize_ - 1

TakeTask(w) ==
    /\ task' = [task EXCEPT ![w] = Head(taskQueue_)]
    /\ taskQueue_' = Tail(taskQueue_)
    /\ worker' = [worker EXCEPT ![w] = "task"]
    /\ IF NoLongerFull(Tail(taskQueue_))
       THEN producer' \in NotifyOne(producer, "push")
       ELSE UNCHANGED producer
    /\ UNCHANGED <<running_, started, stop, progress>>

\* After Stop() a queued task is still taken; with none the empty Task_t is.
Take(w) ==
    /\ worker[w] = "take"
    /\ \/ taskQueue_ # <<>> /\ TakeTask(w)
       \/ /\ taskQueue_ = <<>>
          /\ worker' = [worker EXCEPT ![w] = IF running_ THEN "waiting"
                                             ELSE "test"]
          /\ UNCHANGED <<running_, taskQueue_, started, task, producer, stop,
                         progress>>

RunTask(w) ==
    /\ worker[w] = "task"
    /\ ran' = ran \cup {task[w]}
    /\ task' = [task EXCEPT ![w] = 0]
    /\ worker' = [worker EXCEPT ![w] = "test"]
    /\ UNCHANGED <<running_, taskQueue_, started, producer, stop, runs, alone>>

-----------------------------------------------------------------------------
\* Producers.

\* Run is called.  Without workers the task is run in place.
Run(p) ==
    /\ producer[p] = "idle" /\ runs < MaxTasks
    /\ runs' = runs + 1
    /\ alone' = (alone /\ \A q \in Producers : producer[q] = "idle")
    /\ IF ~started \/ Workers = {}
       THEN ran' = ran \cup {runs'} /\ UNCHANGED <<producer, task>>
       ELSE /\ producer' = [producer EXCEPT ![p] = "run"]
            /\ task' = [task EXCEPT ![p] = runs']
            /\ UNCHANGED ran
    /\ UNCHANGED <<running_, taskQueue_, started, worker, stop>>

RunWaits(p) ==
    /\ producer[p] = "run" /\ IsFull /\ running_
    /\ producer' = [producer EXCEPT ![p] = "waiting"]
    /\ UNCHANGED <<running_, taskQueue_, started, worker, task, stop, progress>>

\* Run goes on with the mutex held: the task is queued, or given up because
\* the pool was stopped.
Pushes(p, notified) ==
    /\ \/ producer[p] = "run" /\ ~(IsFull /\ running_)
       \/ producer[p] = "push"
    /\ producer' = [producer EXCEPT ![p] = "idle"]
    /\ task' = [task EXCEPT ![p] = 0]
    /\ IF running_
       THEN /\ taskQueue_' = Append(taskQueue_, task[p])
            /\ worker' \in notified
       ELSE UNCHANGED <<taskQueue_, worker>>
    /\ UNCHANGED <<running_, started, stop, progress>>

\* Mutant: notEmptyCv_ is notified only when the queue was empty.
RunPushes_NotifiesFirst(p) ==
    Pushes(p, IF taskQueue_ = <<>> THEN NotifyOne(worker, "take") ELSE {worker})

\* Mutant: notEmptyCv_ is not notified.
RunPushes_NoNotify(p) == Pushes(p, {worker})

\* The wait is an `if': once woken, Run does not look at the queue again.
RunPushes(p) == Pushes(p, NotifyOne(worker, "take"))

SpuriousWakeUp ==
    /\ \/ \E w \in Workers : /\ worker[w] = "waiting"
                             /\ worker' = [worker EXCEPT ![w] = "take"]
                             /\ UNCHANGED <<producer, alone>>
       \/ \E p \in Producers : /\ producer[p] = "waiting"
                               /\ producer' = [producer EXCEPT ![p] = "push"]
                               /\ alone' = FALSE
                               /\ UNCHANGED worker
    /\ UNCHANGED <<running_, taskQueue_, started, task, stop, runs, ran>>

-----------------------------------------------------------------------------
WorkerStep(w) == ThreadFunc(w) \/ Take(w) \/ RunTask(w)
ProducerStep(p) == RunWaits(p) \/ RunPushes(p)

Next ==
    \/ Start \/ Stop \/ Join \/ SpuriousWakeUp
    \/ \E w \in Workers : WorkerStep(w)
    \/ \E p \in Producers : Run(p) \/ ProducerStep(p)

\* Threads keep running and tasks end.  A producer gets the mutex; no thread
\* is owed a spurious wake-up, and nobody has to call Start, Stop or Run.
Fairness ==
    /\ WF_vars(Join)
    /\ \A w \in Workers : WF_vars(WorkerStep(w))
    /\ \A p \in Producers : WF_vars(ProducerStep(p))

Spec == Init /\ [][Next]_vars
FairSpec == Spec /\ Fairness

-----------------------------------------------------------------------------
InQueue == {taskQueue_[i] : i \in DOMAIN taskQueue_}

\* No worker sleeps through work: as long as one of them waits for a
\* notification, at least as many are awake as there are tasks in the queue
\* (a notify_one of Run is never swallowed).
AwakeForEveryTask ==
    (\E w \in Workers : worker[w] = "waiting") =>
        Len(taskQueue_) <= Cardinality({w \in Workers : worker[w] # "waiting"})

\* As long as calls of Run do not overlap and do not wake up by themselves,
\* the queue keeps its limit, and a call waits only while the queue is full:
\* the `if' around the wait and the == of IsFull are enough.
BoundedForOneProducer ==
    alone /\ maxQueueSize_ > 0 =>
        /\ Len(taskQueue_) <= maxQueueSize_
        /\ \A p \in Producers : producer[p] = "waiting" => IsFull

\* An accepted task is run, unless Stop() comes first.
AcceptedTaskRuns ==
    \A i \in 1 .. MaxTasks : (i \in InQueue) ~> (i \in ran \/ ~running_)

\* Stop() returns, and lets go of everybody that waits: the workers end and
\* the calls of Run that were blocked on the full queue come back.
StopReleasesAll ==
    (stop = "joining") ~>
        (stop = "stopped" /\ \A p \in Producers : producer[p] # "waiting")

=============================================================================
