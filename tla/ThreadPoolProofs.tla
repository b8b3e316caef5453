-------------------------- MODULE ThreadPoolProofs --------------------------
(***************************************************************************)
(* The two thread pools.  ThreadPool, for any number of workers, producers *)
(* and calls of Run, and any limit of the queue: no notification of a task *)
(* is swallowed, one producer at a time keeps the limit, and no task is    *)
(* run twice or by two workers.  EventLoopThreadPool: below.               *)
(***************************************************************************)
EXTENDS ThreadPool, EventLoopThreadPool, FiniteSetTheorems, SequenceTheorems, TLAPS

WorkerPc == {"none", "test", "take", "waiting", "task", "exited"}
ProducerPc == {"idle", "run", "waiting", "push"}

TypeOK ==
    /\ running_ \in BOOLEAN /\ started \in BOOLEAN /\ alone \in BOOLEAN
    /\ taskQueue_ \in Seq(Nat)
    /\ worker \in [Workers -> WorkerPc]
    /\ task \in [Workers \cup Producers -> Nat]
    /\ producer \in [Producers -> ProducerPc]
    /\ runs \in Nat /\ ran \in SUBSET Nat

\* Before Start() nobody is inside Run past its first test, and nothing is
\* queued: Start() never turns running_ on under a blocked producer.
StartInv ==
    ~started => /\ taskQueue_ = <<>> /\ ~running_
                /\ \A p \in Producers : producer[p] = "idle"

\* While calls of Run did not overlap there is one at a time, and one that was
\* notified because the queue had room finds that room when it goes on.
AloneInv ==
    alone =>
        /\ \A p, q \in Producers :
              producer[p] # "idle" /\ producer[q] # "idle" => p = q
        /\ maxQueueSize_ > 0 /\ running_ =>
              \A p \in Producers :
                 producer[p] = "push" => Len(taskQueue_) < maxQueueSize_

Threads == Workers \cup Producers

\* Tasks are numbered by the calls of Run, and a thread holds one exactly while
\* it is running it or is inside Run.
HandsInv ==
    /\ \A i \in DOMAIN taskQueue_ : taskQueue_[i] \in 1 .. runs
    /\ \A t \in Threads : task[t] \in 0 .. runs
    /\ ran \subseteq 1 .. runs
    /\ \A w \in Workers : task[w] # 0 <=> worker[w] = "task"
    /\ \A p \in Producers : task[p] # 0 <=> producer[p] # "idle"
    /\ ~started => \A w \in Workers : worker[w] = "none"

\* A task is in one place: it is queued once, or in the hands of one thread,
\* or has been run.
EachTaskOnce ==
    /\ \A i, j \in DOMAIN taskQueue_ : taskQueue_[i] = taskQueue_[j] => i = j
    /\ \A t, u \in Threads : task[t] = task[u] /\ task[t] # 0 => t = u
    /\ \A i \in DOMAIN taskQueue_ :
          taskQueue_[i] \notin ran /\ \A t \in Threads : task[t] # taskQueue_[i]
    /\ \A t \in Threads : task[t] \notin ran

IInv ==
    /\ TypeOK /\ AwakeForEveryTask
    /\ StartInv /\ AloneInv /\ BoundedForOneProducer
    /\ HandsInv /\ EachTaskOnce

-----------------------------------------------------------------------------
Awake(pc) == {w \in Workers : pc[w] # "waiting"}

\* What the steps do to the number of threads that are awake.
LEMMA AwakeCount ==
    ASSUME NEW pc
    PROVE  /\ IsFiniteSet(Awake(pc)) /\ Cardinality(Awake(pc)) \in Nat
           /\ \A pc2 : Awake(pc2) = Awake(pc) =>
                 Cardinality(Awake(pc2)) = Cardinality(Awake(pc))
           /\ \A pc2, w : w \in Workers \ Awake(pc) /\ Awake(pc2) = Awake(pc) \cup {w} =>
                 Cardinality(Awake(pc2)) = Cardinality(Awake(pc)) + 1
<1>1. IsFiniteSet(Awake(pc))
  BY ThreadPoolAssumption, FS_Subset DEF Awake
<1> QED BY <1>1, FS_CardinalityType, FS_AddElement

\* Every step keeps the types.
LEMMA TypeStep ==
    ASSUME TypeOK, [Next]_vars
    PROVE  TypeOK'
<1> USE ThreadPoolAssumption DEF TypeOK, WorkerPc, ProducerPc
<1>1. ASSUME Start PROVE TypeOK'
  BY <1>1 DEF Start, progress
<1>2. ASSUME Stop PROVE TypeOK'
  <2>1. /\ worker' \in [Workers -> WorkerPc]
        /\ producer' \in [Producers -> ProducerPc]
    BY <1>2 DEF Stop, NotifyAll
  <2> QED BY <1>2, <2>1 DEF Stop, progress
<1>3. ASSUME Join PROVE TypeOK'
  BY <1>3 DEF Join, progress
<1>4. ASSUME SpuriousWakeUp PROVE TypeOK'
  BY <1>4 DEF SpuriousWakeUp
<1>5. ASSUME NEW w \in Workers, ThreadFunc(w) PROVE TypeOK'
  BY <1>5 DEF ThreadFunc, progress
<1>6. ASSUME NEW w \in Workers, Take(w) PROVE TypeOK'
  <2>1. CASE taskQueue_ # <<>> /\ TakeTask(w)
    <3>1. Head(taskQueue_) \in Nat /\ Tail(taskQueue_) \in Seq(Nat)
      BY <2>1, HeadTailProperties
    <3>2. producer' \in [Producers -> ProducerPc]
      BY <2>1 DEF TakeTask, NotifyOne
    <3> QED BY <2>1, <3>1, <3>2 DEF TakeTask, progress
  <2> QED BY <1>6, <2>1 DEF Take, progress
<1>7. ASSUME NEW w \in Workers, RunTask(w) PROVE TypeOK'
  BY <1>7 DEF RunTask
<1>8. ASSUME NEW p \in Producers, Run(p) PROVE TypeOK'
  <2>1. alone' \in BOOLEAN
    BY <1>8, Zenon DEF Run
  <2>2. runs' \in Nat
    BY <1>8 DEF Run
  <2>3. ran' \in SUBSET Nat
    BY <1>8, <2>2 DEF Run
  <2>4. producer' \in [Producers -> ProducerPc]
    BY <1>8 DEF Run
  <2>5. task' \in [Workers \cup Producers -> Nat]
    BY <1>8, <2>2 DEF Run
  <2> QED BY <1>8, <2>1, <2>2, <2>3, <2>4, <2>5 DEF Run
<1>9. ASSUME NEW p \in Producers, RunWaits(p) PROVE TypeOK'
  BY <1>9 DEF RunWaits, progress
<1>10. ASSUME NEW p \in Producers, RunPushes(p) PROVE TypeOK'
  <2>1. worker' \in [Workers -> WorkerPc]
    BY <1>10 DEF RunPushes, Pushes, NotifyOne
  <2>2. Append(taskQueue_, task[p]) \in Seq(Nat)
    BY AppendProperties
  <2> QED BY <1>10, <2>1, <2>2 DEF RunPushes, Pushes, progress
<1>11. CASE UNCHANGED vars
  BY <1>11 DEF vars, progress
<1> QED
  BY <1>1, <1>2, <1>3, <1>4, <1>5, <1>6, <1>7, <1>8, <1>9, <1>10, <1>11
  DEF Next, WorkerStep, ProducerStep

-----------------------------------------------------------------------------
\* Every push wakes a worker if one waits, and a worker waits only when it has
\* found the queue empty.
LEMMA AwakeStep ==
    ASSUME TypeOK, AwakeForEveryTask, [Next]_vars
    PROVE  AwakeForEveryTask'
<1> DEFINE n == Len(taskQueue_)
           Enough(pc, k) == (\E w \in Workers : pc[w] = "waiting") =>
                                k <= Cardinality(Awake(pc))
<1>1. AwakeForEveryTask <=> Enough(worker, n)
  BY DEF AwakeForEveryTask, Awake
<1>2. AwakeForEveryTask' <=> Enough(worker', n')
  BY DEF AwakeForEveryTask, Awake
<1>3. n \in Nat
  BY LenProperties DEF TypeOK
<1>4. ASSUME \A w \in Workers : worker'[w] = "waiting" <=> worker[w] = "waiting",
             n' \in Nat, n' <= n
      PROVE  AwakeForEveryTask'
  <2>1. Awake(worker') = Awake(worker)
    BY <1>4 DEF Awake
  <2> QED BY <1>1, <1>2, <1>3, <1>4, <2>1, AwakeCount
<1>5. ASSUME \A w \in Workers : worker'[w] # "waiting" PROVE AwakeForEveryTask'
  BY <1>2, <1>5
<1>6. ASSUME NEW w \in Workers, worker[w] = "waiting",
             worker' = [worker EXCEPT ![w] = "take"],
             n' \in Nat, n' <= n + 1
      PROVE  AwakeForEveryTask'
  <2>1. w \in Workers \ Awake(worker) /\ Awake(worker') = Awake(worker) \cup {w}
    BY <1>6 DEF Awake, TypeOK
  <2>2. Cardinality(Awake(worker')) = Cardinality(Awake(worker)) + 1
    BY <2>1, AwakeCount
  <2> QED BY <1>1, <1>2, <1>3, <1>6, <2>2, AwakeCount
<1> USE DEF TypeOK, WorkerPc
<1>7. ASSUME Start PROVE AwakeForEveryTask'
  BY <1>5, <1>7 DEF Start
<1>8. ASSUME Stop PROVE AwakeForEveryTask'
  <2>1. \A w \in Workers : worker'[w] # "waiting"
    BY <1>8 DEF Stop, NotifyAll
  <2> QED BY <1>5, <2>1
<1>9. ASSUME Join PROVE AwakeForEveryTask'
  BY <1>3, <1>4, <1>9 DEF Join
<1>10. ASSUME SpuriousWakeUp PROVE AwakeForEveryTask'
  BY <1>3, <1>4, <1>6, <1>10 DEF SpuriousWakeUp
<1>11. ASSUME NEW w \in Workers, ThreadFunc(w) PROVE AwakeForEveryTask'
  BY <1>3, <1>4, <1>11 DEF ThreadFunc
<1>12. ASSUME NEW w \in Workers, Take(w) PROVE AwakeForEveryTask'
  <2>1. CASE taskQueue_ # <<>> /\ TakeTask(w)
    <3>1. n' = n - 1 /\ n # 0
      BY <2>1, HeadTailProperties, LenProperties, EmptySeq DEF TakeTask
    <3>2. \A v \in Workers : worker'[v] = "waiting" <=> worker[v] = "waiting"
      BY <1>12, <2>1 DEF TakeTask, Take
    <3> QED BY <1>3, <1>4, <3>1, <3>2
  <2>2. CASE taskQueue_ = <<>>
    <3>1. taskQueue_' = <<>>
      BY <1>12, <2>2 DEF Take
    <3>2. n' = 0
      BY <3>1
    <3> QED BY <1>2, <3>2, AwakeCount
  <2> QED BY <1>12, <2>1, <2>2 DEF Take
<1>13. ASSUME NEW w \in Workers, RunTask(w) PROVE AwakeForEveryTask'
  BY <1>3, <1>4, <1>13 DEF RunTask
<1>14. ASSUME NEW p \in Producers, Run(p) PROVE AwakeForEveryTask'
  BY <1>3, <1>4, <1>14 DEF Run
<1>15. ASSUME NEW p \in Producers, RunWaits(p) PROVE AwakeForEveryTask'
  BY <1>3, <1>4, <1>15 DEF RunWaits
<1>16. ASSUME NEW p \in Producers, RunPushes(p) PROVE AwakeForEveryTask'
  <2>1. CASE running_
    <3>1. n' = n + 1
      BY <1>16, <2>1, AppendProperties DEF RunPushes, Pushes
    <3>2. CASE worker' = worker /\ \A w \in Workers : worker[w] # "waiting"
      BY <1>5, <3>2
    <3>3. CASE \E w \in Workers : /\ worker[w] = "waiting"
                                  /\ worker' = [worker EXCEPT ![w] = "take"]
      <4>1. PICK w \in Workers : /\ worker[w] = "waiting"
                                 /\ worker' = [worker EXCEPT ![w] = "take"]
        BY <3>3
      <4>2. n' \in Nat /\ n' <= n + 1
        BY <1>3, <3>1
      <4> HIDE DEF n
      <4> QED BY <1>6, <4>1, <4>2
    <3> QED BY <1>16, <2>1, <3>2, <3>3 DEF RunPushes, Pushes, NotifyOne
  <2>2. CASE ~running_
    BY <1>3, <1>4, <1>16, <2>2 DEF RunPushes, Pushes
  <2> QED BY <2>1, <2>2
<1>17. CASE UNCHANGED vars
  BY <1>3, <1>4, <1>17 DEF vars
<1> QED
  BY <1>7, <1>8, <1>9, <1>10, <1>11, <1>12, <1>13, <1>14, <1>15, <1>16, <1>17
  DEF Next, WorkerStep, ProducerStep

-----------------------------------------------------------------------------
ProducerInv == StartInv /\ AloneInv /\ BoundedForOneProducer

\* With one call of Run at a time the only one that waits is the one notified,
\* and the room it was notified for is still there when it pushes.
LEMMA ProducerStepKeeps ==
    ASSUME TypeOK, ProducerInv, [Next]_vars
    PROVE  ProducerInv'
<1> DEFINE n == Len(taskQueue_)
<1> USE ThreadPoolAssumption
    DEF ProducerInv, StartInv, AloneInv, BoundedForOneProducer, IsFull
<1>1. n \in Nat
  BY LenProperties DEF TypeOK
<1>2. ASSUME UNCHANGED <<taskQueue_, running_, started, producer, alone>>
      PROVE  ProducerInv'
  BY <1>2
<1>3. ASSUME Start PROVE ProducerInv'
  BY <1>1, <1>3 DEF Start, progress, TypeOK
<1>4. ASSUME Stop PROVE ProducerInv'
  <2>1. \A p \in Producers : producer'[p] = IF producer[p] = "waiting" THEN "push"
                                            ELSE producer[p]
    BY <1>4 DEF Stop, NotifyAll, TypeOK
  <2> QED BY <1>1, <1>4, <2>1 DEF Stop, progress
<1>5. ASSUME SpuriousWakeUp PROVE ProducerInv'
  BY <1>1, <1>5 DEF SpuriousWakeUp, TypeOK
<1>6. ASSUME NEW w \in Workers, Take(w) PROVE ProducerInv'
  <2>1. CASE taskQueue_ # <<>> /\ TakeTask(w)
    <3>1. n' = n - 1 /\ n # 0 /\ n' = Len(Tail(taskQueue_))
      BY <2>1, HeadTailProperties, EmptySeq DEF TakeTask, TypeOK
    <3>2. UNCHANGED <<running_, started, alone>>
      BY <2>1 DEF TakeTask, progress
    <3>3. CASE NoLongerFull(Tail(taskQueue_))
      <4>1. maxQueueSize_ > 0 /\ n' = maxQueueSize_ - 1
        BY <3>1, <3>3 DEF NoLongerFull
      <4>2. CASE producer' = producer /\ \A p \in Producers : producer[p] # "waiting"
        BY <1>1, <2>1, <3>1, <3>2, <4>1, <4>2
      <4>3. CASE \E p \in Producers : /\ producer[p] = "waiting"
                                      /\ producer' = [producer EXCEPT ![p] = "push"]
        <5>1. PICK p \in Producers : /\ producer[p] = "waiting"
                                     /\ producer' = [producer EXCEPT ![p] = "push"]
          BY <4>3
        <5>2. StartInv'
          BY <3>2, <5>1
        <5>3. alone => \A q \in Producers \ {p} : producer'[q] = "idle"
          BY <5>1 DEF TypeOK
        <5>4. producer'[p] = "push"
          BY <5>1 DEF TypeOK
        <5> QED BY <1>1, <3>1, <3>2, <4>1, <5>2, <5>3, <5>4
      <4> QED BY <2>1, <3>3, <4>2, <4>3 DEF TakeTask, NotifyOne, TypeOK
    <3>4. CASE ~NoLongerFull(Tail(taskQueue_))
      <4>1. producer' = producer /\ ~(maxQueueSize_ > 0 /\ n = maxQueueSize_)
        BY <1>1, <2>1, <3>1, <3>4 DEF TakeTask, NoLongerFull
      <4> QED BY <1>1, <2>1, <3>1, <3>2, <4>1
    <3> QED BY <3>3, <3>4
  <2> QED BY <1>2, <1>6, <2>1 DEF Take, progress
<1>7. ASSUME NEW p \in Producers, Run(p) PROVE ProducerInv'
  <2>1. CASE ~started \/ Workers = {}
    BY <1>1, <1>7, <2>1 DEF Run
  <2>2. CASE started /\ Workers # {}
    <3>1. \A q \in Producers \ {p} : producer'[q] = producer[q]
      BY <1>7, <2>2 DEF Run, TypeOK
    <3>2. producer'[p] = "run"
      BY <1>7, <2>2 DEF Run, TypeOK
    <3>3. alone' => alone /\ \A q \in Producers : producer[q] = "idle"
      BY <1>7 DEF Run
    <3> QED BY <1>1, <1>7, <2>2, <3>1, <3>2, <3>3 DEF Run
  <2> QED BY <2>1, <2>2
<1>8. ASSUME NEW p \in Producers, RunWaits(p) PROVE ProducerInv'
  <2>1. /\ producer'[p] = "waiting"
        /\ \A q \in Producers \ {p} : producer'[q] = producer[q]
    BY <1>8 DEF RunWaits, TypeOK
  <2> QED BY <1>1, <1>8, <2>1 DEF RunWaits, progress
<1>9. ASSUME NEW p \in Producers, RunPushes(p) PROVE ProducerInv'
  <2>1. /\ producer[p] # "idle" /\ producer'[p] = "idle"
        /\ \A q \in Producers \ {p} : producer'[q] = producer[q]
        /\ UNCHANGED <<running_, started, alone>>
    BY <1>9 DEF RunPushes, Pushes, TypeOK, progress
  <2>2. alone => \A q \in Producers : producer'[q] = "idle"
    BY <2>1
  <2>3. CASE running_
    <3>1. n' = n + 1
      BY <1>9, <2>3, AppendProperties DEF RunPushes, Pushes, TypeOK
    <3>2. alone /\ maxQueueSize_ > 0 => n < maxQueueSize_
      BY <1>1, <1>9, <2>3 DEF RunPushes, Pushes
    <3> QED BY <1>1, <2>1, <2>2, <2>3, <3>1, <3>2
  <2>4. CASE ~running_
    BY <1>1, <1>9, <2>1, <2>2, <2>4 DEF RunPushes, Pushes
  <2> QED BY <2>3, <2>4
<1>10. CASE UNCHANGED vars
  BY <1>2, <1>10 DEF vars, progress
<1> HIDE DEF ProducerInv
<1>11. ASSUME NEW w \in Workers, ThreadFunc(w) \/ RunTask(w) PROVE ProducerInv'
  BY <1>2, <1>11 DEF ThreadFunc, RunTask, progress
<1>12. ASSUME Join PROVE ProducerInv'
  BY <1>2, <1>12 DEF Join, progress
<1> QED
  BY <1>3, <1>4, <1>5, <1>6, <1>7, <1>8, <1>9, <1>10, <1>11, <1>12
  DEF Next, WorkerStep, ProducerStep

-----------------------------------------------------------------------------
TaskInv == HandsInv /\ EachTaskOnce

\* A task moves from the hands of its producer to the queue, or is dropped, and
\* from there to the hands of one worker, which runs it.
LEMMA TaskStep ==
    ASSUME TypeOK, StartInv, TaskInv, [Next]_vars
    PROVE  TaskInv'
<1> DEFINE q == taskQueue_
<1> USE ThreadPoolAssumption
<1>1. /\ DOMAIN q = 1 .. Len(q) /\ Len(q) \in Nat
      /\ \A i \in DOMAIN q : q[i] \in Nat
  BY LenProperties, ElementOfSeq DEF TypeOK
<1>2. ASSUME UNCHANGED <<taskQueue_, task, runs, ran>>,
             \A w \in Workers : worker'[w] = "task" <=> worker[w] = "task",
             \A p \in Producers : producer'[p] = "idle" <=> producer[p] = "idle",
             ~started' => \A w \in Workers : worker'[w] = "none"
      PROVE  TaskInv'
  BY <1>2 DEF TaskInv, HandsInv, EachTaskOnce
<1> USE DEF TypeOK
<1>3. ASSUME Start PROVE TaskInv'
  BY <1>2, <1>3 DEF Start, progress, TaskInv, HandsInv
<1>4. ASSUME Stop PROVE TaskInv'
  <2>1. /\ \A w \in Workers : worker'[w] = "task" <=> worker[w] = "task"
        /\ \A w \in Workers : worker[w] = "none" => worker'[w] = "none"
        /\ \A p \in Producers : producer'[p] = "idle" <=> producer[p] = "idle"
    BY <1>4 DEF Stop, NotifyAll
  <2> QED BY <1>2, <1>4, <2>1 DEF Stop, progress, TaskInv, HandsInv
<1>5. ASSUME Join PROVE TaskInv'
  BY <1>2, <1>5 DEF Join, progress, TaskInv, HandsInv
<1>6. ASSUME SpuriousWakeUp PROVE TaskInv'
  BY <1>2, <1>6 DEF SpuriousWakeUp, TaskInv, HandsInv
<1>7. ASSUME NEW w \in Workers, ThreadFunc(w) PROVE TaskInv'
  BY <1>2, <1>7 DEF ThreadFunc, progress, TaskInv, HandsInv
<1>8. ASSUME NEW w \in Workers, Take(w) PROVE TaskInv'
  <2>1. CASE taskQueue_ # <<>> /\ TakeTask(w)
    <3>1. /\ Len(q) # 0 /\ Head(q) = q[1]
          /\ Tail(q) \in Seq(Nat) /\ Len(Tail(q)) = Len(q) - 1
          /\ \A i \in 1 .. Len(q) - 1 : Tail(q)[i] = q[i + 1]
      BY <2>1, HeadTailProperties, EmptySeq
    <3>2. /\ DOMAIN q' = 1 .. Len(q) - 1
          /\ \A i \in DOMAIN q' : q'[i] = q[i + 1] /\ i + 1 \in DOMAIN q
          /\ 1 \in DOMAIN q
      BY <1>1, <2>1, <3>1, LenProperties DEF TakeTask
    <3>3. /\ task'[w] = q[1] /\ \A t \in Threads \ {w} : task'[t] = task[t]
          /\ UNCHANGED <<runs, ran, started>>
      BY <2>1, <3>1 DEF TakeTask, Threads, progress
    <3>4. /\ worker'[w] = "task"
          /\ \A v \in Workers \ {w} : worker'[v] = worker[v]
          /\ \A p \in Producers : producer'[p] = "idle" <=> producer[p] = "idle"
      BY <2>1 DEF TakeTask, NotifyOne
    <3>5. started
      BY <2>1 DEF StartInv
    <3>6. task[w] = 0
      BY <1>8 DEF Take, TaskInv, HandsInv
    <3>7. HandsInv'
      <4>1. \A i \in DOMAIN q' : q'[i] \in 1 .. runs'
        BY <3>2, <3>3 DEF TaskInv, HandsInv
      <4>2. \A t \in Threads : task'[t] \in 0 .. runs'
        BY <3>2, <3>3 DEF TaskInv, HandsInv
      <4>3. q[1] # 0
        BY <3>2 DEF TaskInv, HandsInv
      <4> QED BY <3>3, <3>4, <3>5, <4>1, <4>2, <4>3, ZenonT(60)
               DEF TaskInv, HandsInv, Threads
    <3>8. EachTaskOnce'
      <4>1. \A i, j \in DOMAIN q' : q'[i] = q'[j] => i = j
        BY <3>2 DEF TaskInv, EachTaskOnce
      <4>2. \A t, u \in Threads : task'[t] = task'[u] /\ task'[t] # 0 => t = u
        BY <3>2, <3>3 DEF TaskInv, EachTaskOnce
      <4>3. \A i \in DOMAIN q' : q[i + 1] # q[1]
        BY <3>2 DEF TaskInv, EachTaskOnce
      <4>4. \A i \in DOMAIN q' :
               q'[i] \notin ran /\ \A t \in Threads : task'[t] # q'[i]
        BY <3>2, <3>3, <4>3, SMTT(60) DEF TaskInv, EachTaskOnce
      <4>5. \A t \in Threads : task'[t] \notin ran
        BY <3>2, <3>3 DEF TaskInv, EachTaskOnce
      <4> QED BY <3>3, <4>1, <4>2, <4>4, <4>5 DEF EachTaskOnce
    <3> QED BY <3>7, <3>8 DEF TaskInv
  <2>2. CASE ~(taskQueue_ # <<>> /\ TakeTask(w))
    BY <1>2, <1>8, <2>2 DEF Take, progress, TaskInv, HandsInv
  <2> QED BY <2>1, <2>2
<1>9. ASSUME NEW w \in Workers, RunTask(w) PROVE TaskInv'
  <2>1. /\ task'[w] = 0 /\ \A t \in Threads \ {w} : task'[t] = task[t]
        /\ ran' = ran \cup {task[w]} /\ UNCHANGED <<taskQueue_, runs, started, producer>>
        /\ worker'[w] = "test" /\ \A v \in Workers \ {w} : worker'[v] = worker[v]
        /\ w \in Threads
    BY <1>9 DEF RunTask, Threads
  <2>2. task[w] \in 1 .. runs
    BY <1>9, <2>1 DEF RunTask, TaskInv, HandsInv
  <2>3. HandsInv'
    <3>0. 0 \in 0 .. runs /\ \A t \in Threads : task[t] \in 0 .. runs
      BY DEF TaskInv, HandsInv
    <3>1. \A t \in Threads : task'[t] \in 0 .. runs'
      BY <2>1, <3>0
    <3>2. ran' \subseteq 1 .. runs'
      BY <2>1, <2>2 DEF TaskInv, HandsInv
    <3>3. \A v \in Workers : task'[v] # 0 <=> worker'[v] = "task"
      BY <2>1 DEF TaskInv, HandsInv, Threads
    <3>4. \A p \in Producers : p \in Threads \ {w}
      BY DEF Threads
    <3>5. started
      BY <1>9 DEF RunTask, TaskInv, HandsInv
    <3> QED BY <2>1, <3>1, <3>2, <3>3, <3>4, <3>5 DEF TaskInv, HandsInv
  <2>4. EachTaskOnce'
    <3>1. \A t, u \in Threads : task'[t] = task'[u] /\ task'[t] # 0 => t = u
      BY <2>1 DEF TaskInv, EachTaskOnce
    <3>2. \A i \in DOMAIN q : q[i] # 0 /\ q[i] # task[w] /\ q[i] \notin ran
      BY <2>1 DEF TaskInv, EachTaskOnce, HandsInv
    <3>3. \A i \in DOMAIN q : \A t \in Threads : task'[t] # q[i]
      BY <2>1, <3>2 DEF TaskInv, EachTaskOnce
    <3>4. 0 \notin ran'
      BY <2>1, <2>2 DEF TaskInv, HandsInv
    <3>5. \A t \in Threads : task'[t] \notin ran'
      BY <2>1, <2>2, <3>4, SMTT(60) DEF TaskInv, EachTaskOnce
    <3> QED BY <2>1, <3>1, <3>2, <3>3, <3>5 DEF TaskInv, EachTaskOnce
  <2> QED BY <2>3, <2>4 DEF TaskInv
<1>10. ASSUME NEW p \in Producers, Run(p) PROVE TaskInv'
  <2>1. runs' = runs + 1 /\ UNCHANGED <<taskQueue_, started, worker>>
    BY <1>10 DEF Run
  <2>2. /\ runs' \notin ran
        /\ \A i \in DOMAIN q : q[i] # runs'
        /\ \A t \in Threads : task[t] # runs'
    BY <1>1, <2>1 DEF TaskInv, HandsInv
  <2>3. CASE ~started \/ Workers = {}
    <3>1. ran' = ran \cup {runs'} /\ UNCHANGED <<producer, task>>
      BY <1>10, <2>3 DEF Run
    <3> QED BY <1>1, <2>1, <2>2, <3>1 DEF TaskInv, HandsInv, EachTaskOnce
  <2>4. CASE started /\ Workers # {}
    <3>1. /\ task'[p] = runs' /\ \A t \in Threads \ {p} : task'[t] = task[t]
          /\ producer'[p] = "run"
          /\ \A r \in Producers \ {p} : producer'[r] = producer[r]
          /\ ran' = ran
      BY <1>10, <2>4 DEF Run, Threads
    <3>2. HandsInv'
      <4>1. /\ \A i \in DOMAIN q' : q'[i] \in 1 .. runs'
            /\ ran' \subseteq 1 .. runs'
        BY <2>1, <3>1 DEF TaskInv, HandsInv
      <4>2. \A t \in Threads : task'[t] \in 0 .. runs'
        BY <2>1, <3>1 DEF TaskInv, HandsInv
      <4>3. \A w \in Workers : w \in Threads \ {p}
        BY DEF Threads
      <4>4. \A r \in Producers : task'[r] # 0 <=> producer'[r] # "idle"
        BY <2>1, <3>1 DEF TaskInv, HandsInv, Threads
      <4> QED BY <2>1, <2>4, <3>1, <4>1, <4>2, <4>3, <4>4 DEF TaskInv, HandsInv
    <3>3. EachTaskOnce'
      <4>1. \A t, u \in Threads : task'[t] = task'[u] /\ task'[t] # 0 => t = u
        BY <2>2, <3>1 DEF TaskInv, EachTaskOnce
      <4>2. \A i \in DOMAIN q : \A t \in Threads : task'[t] # q[i]
        BY <2>2, <3>1 DEF TaskInv, EachTaskOnce
      <4>3. \A t \in Threads : task'[t] \notin ran
        BY <2>2, <3>1 DEF TaskInv, EachTaskOnce
      <4> QED BY <2>1, <3>1, <4>1, <4>2, <4>3 DEF TaskInv, EachTaskOnce
    <3> QED BY <3>2, <3>3 DEF TaskInv
  <2> QED BY <2>3, <2>4
<1>11. ASSUME NEW p \in Producers, RunWaits(p) PROVE TaskInv'
  BY <1>2, <1>11 DEF RunWaits, progress, TaskInv, HandsInv
<1>12. ASSUME NEW p \in Producers, RunPushes(p) PROVE TaskInv'
  <2>1. /\ task'[p] = 0 /\ \A t \in Threads \ {p} : task'[t] = task[t]
        /\ producer'[p] = "idle" /\ producer[p] # "idle" /\ p \in Threads
        /\ \A r \in Producers \ {p} : producer'[r] = producer[r]
        /\ UNCHANGED <<runs, ran, started, running_>>
    BY <1>12 DEF RunPushes, Pushes, Threads, progress
  <2>2. /\ \A w \in Workers : worker'[w] = "task" <=> worker[w] = "task"
        /\ \A w \in Workers : worker[w] = "none" => worker'[w] = "none"
    BY <1>12 DEF RunPushes, Pushes, NotifyOne
  <2>3. task[p] \in 1 .. runs
    BY <2>1 DEF TaskInv, HandsInv
  <2>4. /\ \A t \in Threads : task'[t] \in 0 .. runs'
        /\ \A w \in Workers : task'[w] # 0 <=> worker'[w] = "task"
        /\ \A r \in Producers : task'[r] # 0 <=> producer'[r] # "idle"
    <3>1. \A w \in Workers : w \in Threads \ {p}
      BY DEF Threads
    <3>2. \A t \in Threads : task'[t] \in 0 .. runs'
      BY <2>1 DEF TaskInv, HandsInv
    <3>3. \A r \in Producers : task'[r] # 0 <=> producer'[r] # "idle"
      BY <2>1 DEF TaskInv, HandsInv, Threads
    <3> QED BY <2>1, <2>2, <3>1, <3>2, <3>3 DEF TaskInv, HandsInv
  <2>5. CASE running_
    <3>1. q' = Append(q, task[p])
      BY <1>12, <2>5 DEF RunPushes, Pushes
    <3>2. /\ DOMAIN q' = 1 .. Len(q) + 1 /\ q'[Len(q) + 1] = task[p]
          /\ \A i \in DOMAIN q : q'[i] = q[i]
      BY <1>1, <3>1, AppendProperties, LenProperties
    <3> HIDE DEF q
    <3>3. HandsInv'
      <4>1. \A i \in DOMAIN q' : q'[i] \in 1 .. runs'
        BY <1>1, <2>1, <2>3, <3>2 DEF TaskInv, HandsInv, q
      <4> QED BY <2>1, <2>2, <2>4, <4>1 DEF TaskInv, HandsInv, q
    <3>4. EachTaskOnce'
      <4>1. \A i \in DOMAIN q : q[i] # task[p]
        BY <2>1 DEF TaskInv, EachTaskOnce, q
      <4>2. \A i, j \in DOMAIN q' : q'[i] = q'[j] => i = j
        BY <1>1, <3>2, <4>1 DEF TaskInv, EachTaskOnce, q
      <4>3. \A t, u \in Threads : task'[t] = task'[u] /\ task'[t] # 0 => t = u
        BY <2>1, ZenonT(60) DEF TaskInv, EachTaskOnce
      <4>4. \A i \in DOMAIN q' :
               q'[i] \notin ran /\ \A t \in Threads : task'[t] # q'[i]
        <5>1. \A t \in Threads : task'[t] # task[p]
          BY <2>1, <2>3 DEF TaskInv, EachTaskOnce
        <5>2. \A i \in DOMAIN q : q[i] # 0
          BY DEF TaskInv, HandsInv, q
        <5>3. ASSUME NEW i \in DOMAIN q
              PROVE  q'[i] \notin ran /\ \A t \in Threads : task'[t] # q'[i]
          BY <2>1, <3>2, <5>2 DEF TaskInv, EachTaskOnce, q
        <5>4. task[p] \notin ran
          BY <2>1 DEF TaskInv, EachTaskOnce
        <5> QED BY <1>1, <3>2, <5>1, <5>3, <5>4
      <4>5. \A t \in Threads : task'[t] \notin ran
        BY <2>1 DEF TaskInv, EachTaskOnce, HandsInv
      <4> QED BY <2>1, <4>2, <4>3, <4>4, <4>5 DEF EachTaskOnce, q
    <3> QED BY <3>3, <3>4 DEF TaskInv
  <2>6. CASE ~running_
    <3>1. q' = q
      BY <1>12, <2>6 DEF RunPushes, Pushes
    <3>2. \A i \in DOMAIN q : q[i] # 0
      BY DEF TaskInv, HandsInv
    <3>3. HandsInv'
      BY <2>1, <2>2, <2>4, <3>1 DEF TaskInv, HandsInv
    <3>4. EachTaskOnce'
      <4>1. \A t, u \in Threads : task'[t] = task'[u] /\ task'[t] # 0 => t = u
        BY <2>1, ZenonT(60) DEF TaskInv, EachTaskOnce
      <4>2. \A i \in DOMAIN q : \A t \in Threads : task'[t] # q[i]
        BY <2>1, <3>2 DEF TaskInv, EachTaskOnce
      <4>3. \A t \in Threads : task'[t] \notin ran
        BY <2>1 DEF TaskInv, EachTaskOnce, HandsInv
      <4> QED BY <2>1, <3>1, <4>1, <4>2, <4>3 DEF TaskInv, EachTaskOnce
    <3> QED BY <3>3, <3>4 DEF TaskInv
  <2> QED BY <2>5, <2>6
<1>13. CASE UNCHANGED vars
  BY <1>2, <1>13 DEF vars, progress, TaskInv, HandsInv
<1> QED
  BY <1>3, <1>4, <1>5, <1>6, <1>7, <1>8, <1>9, <1>10, <1>11, <1>12, <1>13
  DEF Next, WorkerStep, ProducerStep

-----------------------------------------------------------------------------
\* The state before Start() is called.
LEMMA InitOK == Init => IInv
<1> SUFFICES ASSUME Init PROVE IInv
  OBVIOUS
<1> USE ThreadPoolAssumption DEF Init
<1>1. TypeOK
  <2>1. taskQueue_ \in Seq(Nat)
    BY EmptySeq
  <2>2. /\ worker \in [Workers -> WorkerPc]
        /\ producer \in [Producers -> ProducerPc]
    BY DEF WorkerPc, ProducerPc
  <2>3. task \in [Workers \cup Producers -> Nat]
    OBVIOUS
  <2> QED BY <2>1, <2>2, <2>3 DEF TypeOK
<1>2. AwakeForEveryTask
  BY DEF AwakeForEveryTask
<1>3. StartInv /\ AloneInv /\ BoundedForOneProducer
  BY DEF StartInv, AloneInv, BoundedForOneProducer
<1>4. HandsInv /\ EachTaskOnce
  BY DEF HandsInv, EachTaskOnce, Threads
<1> QED BY <1>1, <1>2, <1>3, <1>4 DEF IInv

LEMMA IInvHolds == Spec => []IInv
<1>1. IInv /\ [Next]_vars => IInv'
  BY TypeStep, AwakeStep, ProducerStepKeeps, TaskStep DEF IInv, ProducerInv, TaskInv
<1> QED BY InitOK, <1>1, PTL DEF Spec

\* AwakeForEveryTask: as long as a worker waits, as many are awake as there are
\* queued tasks, for any number of workers and producers: notify_one in Run
\* and the test of the queue before the wait in Take are enough.
THEOREM NoTaskIsSleptThrough == Spec => []AwakeForEveryTask
<1>1. IInv => AwakeForEveryTask
  BY DEF IInv
<1> QED BY IInvHolds, <1>1, PTL

\* BoundedForOneProducer: while calls of Run do not overlap, the `if' around
\* the wait and the == of IsFull keep any limit, also across Stop() and Start().
THEOREM LimitKept == Spec => []BoundedForOneProducer
<1>1. IInv => BoundedForOneProducer
  BY DEF IInv
<1> QED BY IInvHolds, <1>1, PTL

\* EachTaskOnce: a task of Run is never queued twice, held by two threads or
\* run again, whatever is notified, stopped or woken up in between.
THEOREM TasksRunOnce == Spec => []EachTaskOnce
<1>1. IInv => EachTaskOnce
  BY DEF IInv
<1> QED BY IInvHolds, <1>1, PTL

-----------------------------------------------------------------------------
(* EventLoopThreadPool, for any number of IO threads: every loop that is   *)
(* handed out is alive and the loops are dealt out evenly; Run misses no   *)
(* notification; and the destructor of the pool, whenever it is called and *)
(* wherever it stops, leaves no thread behind, and stops only in the cases *)
(* DestructorReturns names.                                                *)

Building == {"new", "waiting", "blocked"}
\* The destructor is at the EventLoopThread cur.
AtThread == {"dtor", "quit", "wake", "join", "terminated", "undefined"}
Ending == AtThread \cup {"destroying", "destroyed"}
IoPc == {"none", "init", "publish", "notify", "giveup",
         "entering", "looping", "clear", "leaving", "exited"}

IoTypeOK ==
    /\ base \in Building \cup {"started"} \cup Ending
    /\ cur \in Nat \ {0} /\ nextLoopIdx_ \in Nat
    /\ loops_ \in Seq(BOOLEAN)
    /\ gets \in [Ids -> Nat]
    /\ io \in [Ids -> IoPc]
    /\ loop_ \in [Ids -> BOOLEAN] /\ isExit_ \in [Ids -> BOOLEAN]
    /\ quit_ \in [Ids -> BOOLEAN]

\* How far the start is: the threads before cur are published, the later ones
\* do not exist.
IoStartInv ==
    /\ base \in Building =>
          /\ Len(loops_) = cur - 1 /\ cur <= PoolSize + 1
          /\ base # "new" => cur <= PoolSize /\ io[cur] # "none"
          /\ \A i \in Ids : i > cur \/ (i = cur /\ base = "new") => io[i] = "none"
    /\ base \notin Building => Len(loops_) = PoolSize \/ Len(loops_) = 0
    /\ base = "started" => Len(loops_) = PoolSize
    /\ base \in Ending => \A i \in Ids : i > Len(loops_) => io[i] = "none"
    /\ base \in AtThread => cur \in 1 .. Len(loops_)
    /\ base = "destroyed" => cur > Len(loops_)
    /\ \A i \in DOMAIN loops_ :
          loops_[i] /\ io[i] \notin {"none", "init", "publish", "giveup"}

\* The destructor is past the store of Quit() for the loop of thread i, or found
\* the loop gone when it came to it.
ToldToQuit(i) ==
    base \in Ending /\ (i < cur \/ (i = cur /\ base \in {"wake", "join", "undefined"}))

Published(i) == io[i] \in {"notify", "entering", "looping", "clear"}

\* loop_ is set exactly while the loop is published; nobody gives up, because a
\* thread is told to exit only after it has published its loop; a loop is quit
\* by user code or by the destructor, and ends only once it is.
LoopInv ==
    \A i \in Ids :
        /\ loop_[i] <=> Published(i)
        /\ io[i] # "giveup"
        /\ isExit_[i] => base \in Ending
        /\ io[i] \in {"clear", "leaving", "exited"} => quit_[i]
        /\ quit_[i] => i \in left \/ ToldToQuit(i)

\* The loops before nextLoopIdx_ were handed out once more than the others.
DealInv ==
    /\ base \in Building => nextLoopIdx_ = 0 /\ \A i \in Ids : gets[i] = 0
    /\ nextLoopIdx_ < PoolSize \/ nextLoopIdx_ = 0
    /\ \A i \in Ids : gets[i] = gets[nextLoopIdx_ + 1] +
                                    IF i <= nextLoopIdx_ THEN 1 ELSE 0

\* Run misses no notification: it is blocked only while one is still to come,
\* or the loop was published and withdrawn again before Run looked.
NoLostStart ==
    base = "blocked" => \/ io[cur] \in {"init", "publish", "notify"}
                        \/ io[cur] \in {"leaving", "exited"} /\ cur \in left

\* The destructor has joined the threads before cur.
JoinedInv == base \in Ending => \A i \in Ids : i < cur => io[i] = "exited"

IoInv == /\ IoTypeOK /\ IoStartInv /\ LoopInv /\ DealInv
        /\ NoLostStart /\ DestructorSound /\ JoinedInv

-----------------------------------------------------------------------------
\* What the invariant says about a state, in the form the steps need it.
LEMMA Facts ==
    ASSUME IoInv
    PROVE  /\ Len(loops_) \in Nat /\ DOMAIN loops_ = 1 .. Len(loops_)
           /\ base = "started" \/ base \in AtThread => DOMAIN loops_ = Ids
           /\ base \in Building \ {"new"} => cur \in Ids
           /\ base \in AtThread => cur \in Ids
           /\ PoolSize \in Nat
<1> USE PoolAssumption DEF IoInv, IoTypeOK, IoStartInv, Ids, Building, Ending, AtThread
<1>1. Len(loops_) \in Nat /\ DOMAIN loops_ = 1 .. Len(loops_)
  BY LenProperties
<1>2. base \in Building \ {"new"} => cur \in Ids
  OBVIOUS
<1>3. base = "started" => DOMAIN loops_ = Ids
  BY <1>1
<1>4. base \in AtThread => Len(loops_) = PoolSize
  <2>1. base \in AtThread => Len(loops_) = PoolSize \/ Len(loops_) = 0
    OBVIOUS
  <2>2. base \in AtThread => cur \in 1 .. Len(loops_)
    OBVIOUS
  <2>3. Len(loops_) = 0 => 1 .. Len(loops_) = {}
    BY <1>1
  <2> QED BY <2>1, <2>2, <2>3
<1> QED BY <1>1, <1>2, <1>3, <1>4

\* A step of the thread that owns the pool keeps the invariant.
LEMMA BaseKeeps ==
    ASSUME IoInv, BaseStep \/ RunSpuriousWakeUp \/ GetNextLoop \/ Destroy
    PROVE  IoInv'
<1> USE PoolAssumption, Facts DEF IoInv
<1> USE DEF Building, Ending, AtThread, dealt, history
<1>1. ASSUME BuildAndRun PROVE IoInv'
  <2>1. IoTypeOK'
    BY <1>1 DEF BuildAndRun, IoTypeOK, IoPc, Ids
  <2>2. IoStartInv'
    <3>1. CASE cur <= PoolSize
      <4>1. /\ base = "new" /\ base' = "waiting" /\ io' = [io EXCEPT ![cur] = "init"]
            /\ cur \in Ids /\ UNCHANGED <<cur, loops_>>
        BY <1>1, <3>1 DEF BuildAndRun, IoTypeOK, Ids
      <4>2. \A i \in DOMAIN loops_ : i # cur /\ i \in Ids
        BY <3>1, <4>1 DEF IoTypeOK, IoStartInv, Ids
      <4> QED BY <3>1, <4>1, <4>2 DEF IoTypeOK, IoStartInv
    <3>2. CASE ~(cur <= PoolSize)
      BY <1>1, <3>2 DEF BuildAndRun, IoTypeOK, IoStartInv
    <3> QED BY <3>1, <3>2
  <2>3. LoopInv'
    BY <1>1 DEF BuildAndRun, IoTypeOK, IoStartInv, LoopInv, Ids, Published, ToldToQuit
  <2>4. DealInv'
    BY <1>1 DEF BuildAndRun, DealInv
  <2>5. NoLostStart' /\ DestructorSound' /\ JoinedInv'
    BY <1>1 DEF BuildAndRun, NoLostStart, DestructorSound, JoinedInv
  <2> QED BY <2>1, <2>2, <2>3, <2>4, <2>5
<1>2. ASSUME RunTest PROVE IoInv'
  <2>1. CASE ~loop_[cur] /\ ~isExit_[cur]
    <3>1. base = "waiting" /\ base' = "blocked"
          /\ UNCHANGED <<cur, loops_, dealt, io, loop_, isExit_, quit_, history>>
      BY <1>2, <2>1 DEF RunTest
    <3>2. IoTypeOK' /\ IoStartInv' /\ DealInv' /\ DestructorSound' /\ JoinedInv'
      BY <3>1 DEF IoTypeOK, IoStartInv, DealInv, DestructorSound, JoinedInv
    <3>3. LoopInv'
      BY <3>1 DEF LoopInv, Published, ToldToQuit
    <3>4. NoLostStart'
      BY <2>1, <3>1 DEF IoTypeOK, IoPc, IoStartInv, LoopInv, Published, ToldToQuit, NoLostStart
    <3> QED BY <3>2, <3>3, <3>4
  <2>2. CASE loop_[cur] \/ isExit_[cur]
    <3>1. base = "waiting" /\ base' = "new" /\ cur' = cur + 1
          /\ loops_' = Append(loops_, loop_[cur])
          /\ UNCHANGED <<dealt, io, loop_, isExit_, quit_, history>>
      BY <1>2, <2>2 DEF RunTest
    <3>2. cur \in Ids /\ loop_[cur] /\ Published(cur)
      BY <2>2, <3>1 DEF LoopInv
    <3>3. /\ loops_' \in Seq(BOOLEAN) /\ Len(loops_') = cur
          /\ DOMAIN loops_' = 1 .. cur
          /\ \A i \in 1 .. cur - 1 : loops_'[i] = loops_[i]
          /\ loops_'[cur] = loop_[cur]
      <4>1. loop_[cur] \in BOOLEAN /\ Len(loops_) = cur - 1 /\ cur \in Nat
        BY <3>1, <3>2 DEF IoTypeOK, IoStartInv
      <4>2. /\ loops_' \in Seq(BOOLEAN) /\ Len(loops_') = Len(loops_) + 1
            /\ \A i \in 1 .. Len(loops_) : loops_'[i] = loops_[i]
            /\ loops_'[Len(loops_) + 1] = loop_[cur]
        BY <3>1, <4>1, AppendProperties DEF IoTypeOK
      <4>3. DOMAIN loops_' = 1 .. Len(loops_')
        BY <4>2, LenProperties
      <4> QED BY <4>1, <4>2, <4>3
    <3>4. IoTypeOK'
      BY <3>1, <3>3 DEF IoTypeOK
    <3>5. IoStartInv'
      BY <3>1, <3>2, <3>3 DEF IoTypeOK, IoStartInv, Published, Ids
    <3>6. LoopInv'
      BY <3>1 DEF LoopInv, Published, ToldToQuit
    <3>7. DealInv' /\ NoLostStart' /\ DestructorSound' /\ JoinedInv'
      BY <3>1 DEF DealInv, NoLostStart, DestructorSound, JoinedInv
    <3> QED BY <3>4, <3>5, <3>6, <3>7
  <2> QED BY <2>1, <2>2
<1>3. ASSUME RunSpuriousWakeUp PROVE IoInv'
  BY <1>3 DEF RunSpuriousWakeUp, IoTypeOK, IoStartInv, LoopInv, Published, ToldToQuit, DealInv,
              NoLostStart, DestructorSound, JoinedInv
<1>4. ASSUME GetNextLoop PROVE IoInv'
  <2>1. /\ base = "started" /\ PoolSize > 0
        /\ UNCHANGED <<base, cur, loops_, io, loop_, isExit_, quit_, history>>
    BY <1>4 DEF GetNextLoop
  <2>2. /\ nextLoopIdx_ + 1 \in Ids
        /\ gets' = [gets EXCEPT ![nextLoopIdx_ + 1] = @ + 1]
        /\ nextLoopIdx_' = IF nextLoopIdx_ + 1 >= PoolSize THEN 0 ELSE nextLoopIdx_ + 1
    BY <1>4, <2>1 DEF GetNextLoop, IoTypeOK, IoStartInv, DealInv, Ids
  <2>3. IoTypeOK'
    BY <2>1, <2>2 DEF IoTypeOK
  <2>4. DealInv'
    BY <2>1, <2>2 DEF IoTypeOK, DealInv, Ids
  <2>5. IoStartInv' /\ NoLostStart' /\ DestructorSound' /\ JoinedInv'
    BY <2>1 DEF IoStartInv, NoLostStart, DestructorSound, JoinedInv
  <2>6. LoopInv'
    BY <2>1 DEF LoopInv, Published, ToldToQuit
  <2> QED BY <2>3, <2>4, <2>5, <2>6
<1>5. ASSUME Destroy PROVE IoInv'
  BY <1>5 DEF Destroy, IoTypeOK, IoStartInv, LoopInv, Published, ToldToQuit, DealInv,
              NoLostStart, DestructorSound, JoinedInv, Ids
<1>6. ASSUME DtorSetExit PROVE IoInv'
  <2>1. IoTypeOK'
    BY <1>6 DEF DtorSetExit, IoTypeOK, Ids
  <2>2. IoStartInv'
    <3>1. CASE cur <= Len(loops_)
      BY <1>6, <3>1 DEF DtorSetExit, IoTypeOK, IoStartInv
    <3>2. CASE ~(cur <= Len(loops_))
      BY <1>6, <3>2 DEF DtorSetExit, IoTypeOK, IoStartInv
    <3> QED BY <3>1, <3>2
  <2>3. LoopInv'
    BY <1>6 DEF DtorSetExit, IoTypeOK, LoopInv, Published, ToldToQuit
  <2>4. DealInv' /\ NoLostStart' /\ JoinedInv'
    BY <1>6 DEF DtorSetExit, DealInv, NoLostStart, JoinedInv
  <2>5. DestructorSound'
    <3>1. base = "destroying" /\ base' \in {"dtor", "destroyed"}
          /\ UNCHANGED <<cur, loops_, io>>
      BY <1>6 DEF DtorSetExit
    <3>2. CASE base' = "destroyed"
      <4>1. cur > Len(loops_)
        BY <1>6, <3>2 DEF DtorSetExit, IoTypeOK
      <4>2. \A i \in Ids : i <= Len(loops_) => io[i] = "exited"
        BY <3>1, <4>1 DEF IoTypeOK, JoinedInv, Ids
      <4>3. \A i \in Ids : i > Len(loops_) => io[i] = "none"
        BY <3>1 DEF IoStartInv
      <4> QED BY <3>1, <3>2, <4>2, <4>3 DEF DestructorSound, Ids
    <3>3. CASE base' = "dtor"
      BY <3>3 DEF DestructorSound
    <3> QED BY <3>1, <3>2, <3>3
  <2> QED BY <2>1, <2>2, <2>3, <2>4, <2>5
<1>7. ASSUME DtorCheckLoop PROVE IoInv'
  <2>1. /\ base = "dtor" /\ cur \in Ids /\ cur' = cur
        /\ base' = IF loop_[cur] THEN "quit" ELSE "terminated"
        /\ UNCHANGED <<loops_, dealt, io, loop_, isExit_, quit_, history>>
    BY <1>7 DEF DtorCheckLoop, IoStartInv
  <2>2. IoTypeOK' /\ IoStartInv' /\ DealInv' /\ NoLostStart' /\ JoinedInv'
    BY <2>1 DEF IoTypeOK, IoStartInv, DealInv, NoLostStart, JoinedInv
  <2>3. LoopInv'
    BY <2>1 DEF LoopInv, Published, ToldToQuit
  <2>4. ~loop_[cur] => cur \in left /\ io[cur] \in {"leaving", "exited"}
    <3>1. cur \in DOMAIN loops_ /\ io[cur] \in IoPc /\ ~ToldToQuit(cur)
      BY <2>1 DEF IoTypeOK, ToldToQuit
    <3>2. ~Published(cur) => io[cur] \in {"leaving", "exited"}
      BY <3>1 DEF IoStartInv, IoPc, Published
    <3> QED BY <2>1, <3>1, <3>2 DEF LoopInv
  <2>5. DestructorSound'
    BY <2>1, <2>4 DEF DestructorSound
  <2> QED BY <2>2, <2>3, <2>5
<1>8. ASSUME DtorQuit PROVE IoInv'
  <2>1. base = "quit" /\ cur \in Ids /\ cur \in DOMAIN loops_
    BY <1>8 DEF DtorQuit
  <2>2. CASE /\ base' = "wake" /\ quit_' = [quit_ EXCEPT ![cur] = TRUE]
             /\ UNCHANGED <<cur, loops_, dealt, io, loop_, isExit_, history>>
    <3>1. IoTypeOK' /\ IoStartInv' /\ DealInv' /\ NoLostStart' /\ JoinedInv'
      BY <2>1, <2>2 DEF IoTypeOK, IoStartInv, DealInv, NoLostStart, JoinedInv
    <3>2. LoopInv'
      BY <2>1, <2>2 DEF IoTypeOK, LoopInv, Published, ToldToQuit
    <3>3. DestructorSound'
      BY <2>1, <2>2 DEF IoTypeOK, DestructorSound
    <3> QED BY <3>1, <3>2, <3>3
  <2>3. CASE /\ ~loop_[cur] /\ base' = "undefined"
             /\ UNCHANGED <<cur, loops_, dealt, io, loop_, isExit_, quit_, history>>
    <3>1. IoTypeOK' /\ IoStartInv' /\ DealInv' /\ NoLostStart' /\ JoinedInv'
      BY <2>1, <2>3 DEF IoTypeOK, IoStartInv, DealInv, NoLostStart, JoinedInv
    <3>2. LoopInv'
      BY <2>1, <2>3 DEF LoopInv, Published, ToldToQuit
    <3>3. io[cur] \in {"leaving", "exited"}
      BY <2>1, <2>3 DEF IoTypeOK, IoPc, IoStartInv, LoopInv, Published
    <3>4. DestructorSound'
      BY <2>1, <2>3, <3>3 DEF LoopInv, DestructorSound
    <3> QED BY <3>1, <3>2, <3>4
  <2> QED BY <1>8, <2>2, <2>3 DEF DtorQuit
<1>10. ASSUME DtorWakeUp PROVE IoInv'
  <2>1. /\ base = "wake" /\ cur \in Ids
        /\ base' = IF io[cur] = "exited" THEN "undefined" ELSE "join"
        /\ UNCHANGED <<cur, loops_, dealt, io, loop_, isExit_, quit_, history>>
    BY <1>10 DEF DtorWakeUp
  <2>2. IoTypeOK' /\ IoStartInv' /\ DealInv' /\ NoLostStart' /\ JoinedInv'
    BY <2>1 DEF IoTypeOK, IoStartInv, DealInv, NoLostStart, JoinedInv
  <2>3. LoopInv'
    BY <2>1 DEF LoopInv, Published, ToldToQuit
  <2>4. DestructorSound'
    BY <2>1 DEF LoopInv, DestructorSound
  <2> QED BY <2>2, <2>3, <2>4
<1>9. ASSUME DtorJoin PROVE IoInv'
  <2>1. IoTypeOK' /\ IoStartInv' /\ DealInv' /\ NoLostStart' /\ DestructorSound'
    BY <1>9 DEF DtorJoin, IoTypeOK, IoStartInv, DealInv, NoLostStart, DestructorSound
  <2>2. LoopInv'
    BY <1>9 DEF DtorJoin, IoTypeOK, LoopInv, Published, ToldToQuit, Ids
  <2>3. JoinedInv'
    BY <1>9 DEF DtorJoin, IoTypeOK, JoinedInv, Ids
  <2> QED BY <2>1, <2>2, <2>3
<1> QED BY <1>1, <1>2, <1>3, <1>4, <1>5, <1>6, <1>7, <1>8, <1>9, <1>10 DEF BaseStep

\* So does a step of an IO thread.
LEMMA ThreadKeeps ==
    ASSUME IoInv, NEW i \in Ids, ThreadStep(i) \/ QuitFromLoop(i)
    PROVE  IoInv'
<1> USE PoolAssumption, Facts DEF IoInv
<1> USE DEF Building, Ending, AtThread, dealt, history
<1>1. ASSUME ThreadInit(i) PROVE IoInv'
  BY <1>1 DEF ThreadInit, IoTypeOK, IoPc, IoStartInv, LoopInv, Published, ToldToQuit,
              DealInv, NoLostStart, DestructorSound, JoinedInv
<1>2. ASSUME ThreadPublish(i) PROVE IoInv'
  <2>1. ~isExit_[i]
    <3>1. io[i] = "publish" /\ i \in 1 .. PoolSize
      BY <1>2 DEF ThreadPublish, Ids
    <3>2. base \in Ending => i > Len(loops_) \/ i \in DOMAIN loops_
      BY <3>1
    <3>3. base \notin Ending
      BY <3>1, <3>2 DEF IoStartInv
    <3> QED BY <3>3 DEF LoopInv
  <2>2. /\ io[i] = "publish" /\ io' = [io EXCEPT ![i] = "notify"]
        /\ loop_' = [loop_ EXCEPT ![i] = TRUE]
        /\ UNCHANGED <<base, cur, loops_, dealt, isExit_, quit_, history>>
    BY <1>2, <2>1 DEF ThreadPublish
  <2>3. IoTypeOK'
    BY <2>2 DEF IoTypeOK, IoPc
  <2>4. IoStartInv'
    BY <2>2 DEF IoTypeOK, IoStartInv
  <2>5. LoopInv'
    BY <2>2 DEF IoTypeOK, LoopInv, Published, ToldToQuit
  <2>6. DealInv' /\ NoLostStart' /\ DestructorSound' /\ JoinedInv'
    BY <2>2 DEF IoTypeOK, DealInv, NoLostStart, DestructorSound, JoinedInv
  <2> QED BY <2>3, <2>4, <2>5, <2>6
<1>3. ASSUME ThreadNotify(i) PROVE IoInv'
  <2>1. /\ io[i] = "notify" /\ io' = [io EXCEPT ![i] = "entering"]
        /\ base' = IF base = "blocked" /\ cur = i THEN "waiting" ELSE base
        /\ UNCHANGED <<cur, loops_, dealt, loop_, isExit_, quit_, history>>
    BY <1>3 DEF ThreadNotify, LoopInv
  <2>2. IoTypeOK'
    BY <2>1 DEF IoTypeOK, IoPc
  <2>3. IoStartInv'
    BY <2>1 DEF IoTypeOK, IoStartInv
  <2>4. LoopInv'
    BY <2>1 DEF IoTypeOK, LoopInv, Published, ToldToQuit
  <2>5. DealInv' /\ NoLostStart' /\ DestructorSound' /\ JoinedInv'
    BY <2>1 DEF IoTypeOK, DealInv, NoLostStart, DestructorSound, JoinedInv
  <2> QED BY <2>2, <2>3, <2>4, <2>5
<1>4. ASSUME LoopEnter(i) PROVE IoInv'
  <2>1. IoTypeOK'
    BY <1>4 DEF LoopEnter, IoTypeOK, IoPc
  <2>2. IoStartInv'
    BY <1>4 DEF LoopEnter, IoTypeOK, IoStartInv
  <2>3. LoopInv'
    BY <1>4 DEF LoopEnter, IoTypeOK, LoopInv, Published, ToldToQuit
  <2>4. DealInv' /\ NoLostStart' /\ JoinedInv'
    BY <1>4 DEF LoopEnter, IoTypeOK, DealInv, NoLostStart, JoinedInv
  <2>5. DestructorSound'
    BY <1>4 DEF LoopEnter, IoTypeOK, DestructorSound
  <2> QED BY <2>1, <2>2, <2>3, <2>4, <2>5
<1>5. ASSUME QuitFromLoop(i) PROVE IoInv'
  BY <1>5 DEF QuitFromLoop, IoTypeOK, IoStartInv, LoopInv, Published, ToldToQuit,
              DealInv, NoLostStart, DestructorSound, JoinedInv
<1>6. ASSUME LoopExit(i) PROVE IoInv'
  <2>1. IoTypeOK'
    BY <1>6 DEF LoopExit, IoTypeOK, IoPc
  <2>2. IoStartInv'
    BY <1>6 DEF LoopExit, IoTypeOK, IoStartInv
  <2>3. LoopInv'
    BY <1>6 DEF LoopExit, IoTypeOK, LoopInv, Published, ToldToQuit
  <2>4. DealInv' /\ NoLostStart' /\ DestructorSound' /\ JoinedInv'
    BY <1>6 DEF LoopExit, IoTypeOK, DealInv, NoLostStart, DestructorSound, JoinedInv
  <2> QED BY <2>1, <2>2, <2>3, <2>4
<1>7. ASSUME ThreadClear(i) PROVE IoInv'
  <2>1. IoTypeOK'
    BY <1>7 DEF ThreadClear, IoTypeOK, IoPc
  <2>2. IoStartInv'
    BY <1>7 DEF ThreadClear, IoTypeOK, IoStartInv
  <2>3. LoopInv'
    BY <1>7 DEF ThreadClear, IoTypeOK, LoopInv, Published, ToldToQuit
  <2>4. DealInv' /\ NoLostStart' /\ DestructorSound' /\ JoinedInv'
    BY <1>7 DEF ThreadClear, IoTypeOK, DealInv, NoLostStart, DestructorSound, JoinedInv
  <2> QED BY <2>1, <2>2, <2>3, <2>4
<1>8. ASSUME ThreadReturn(i) PROVE IoInv'
  <2>1. IoTypeOK'
    BY <1>8 DEF ThreadReturn, IoTypeOK, IoPc
  <2>2. IoStartInv'
    BY <1>8 DEF ThreadReturn, IoTypeOK, IoStartInv
  <2>3. LoopInv'
    BY <1>8 DEF ThreadReturn, IoTypeOK, LoopInv, Published, ToldToQuit
  <2>4. DealInv' /\ NoLostStart' /\ DestructorSound' /\ JoinedInv'
    BY <1>8 DEF ThreadReturn, IoTypeOK, DealInv, NoLostStart, DestructorSound, JoinedInv
  <2> QED BY <2>1, <2>2, <2>3, <2>4
<1> QED BY <1>1, <1>2, <1>3, <1>4, <1>5, <1>6, <1>7, <1>8 DEF ThreadStep

LEMMA IoInvHolds == LoopPoolSpec => []IoInv
<1>1. LoopPoolInit => IoInv
  <2> SUFFICES ASSUME LoopPoolInit PROVE IoInv
    OBVIOUS
  <2> USE PoolAssumption DEF LoopPoolInit
  <2>1. IoTypeOK
    BY EmptySeq DEF IoTypeOK, Building, Ending, AtThread, IoPc
  <2>2. IoStartInv
    BY DEF IoStartInv, Building, Ending, AtThread, Ids
  <2>3. LoopInv
    BY DEF LoopInv, Published
  <2>4. DealInv /\ NoLostStart /\ DestructorSound /\ JoinedInv
    BY DEF DealInv, NoLostStart, DestructorSound, JoinedInv, Ending, Ids
  <2> QED BY <2>1, <2>2, <2>3, <2>4 DEF IoInv
<1>2. IoInv /\ [LoopPoolNext]_loopPoolVars => IoInv'
  <2>1. ASSUME IoInv, UNCHANGED loopPoolVars PROVE IoInv'
    BY <2>1 DEF loopPoolVars, dealt, history, IoInv, IoTypeOK, IoStartInv, LoopInv, Published,
                ToldToQuit, DealInv, NoLostStart, DestructorSound, JoinedInv
  <2> QED BY <2>1, BaseKeeps, ThreadKeeps DEF LoopPoolNext
<1> QED BY <1>1, <1>2, PTL DEF LoopPoolSpec

-----------------------------------------------------------------------------
\* HandedOutLoopsLive: no result of Run() is nullptr or a loop that is gone
\* without having been quit by its own code, and GetNextLoop deals them out
\* evenly, for any size of the pool.
THEOREM LoopsLive == LoopPoolSpec => []HandedOutLoopsLive
<1>1. IoInv => HandedOutLoopsLive
  BY PoolAssumption, Facts, SMTT(60)
  DEF IoInv, IoTypeOK, IoPc, IoStartInv, LoopInv, DealInv, HandedOutLoopsLive, LoopAlive,
      Published, ToldToQuit, Building, Ending, AtThread, Ids
<1> QED BY IoInvHolds, <1>1, PTL

\* NoLostStart: Run is blocked on cv_ only while the notification of its thread
\* is still to come, or after user code quit the loop before Run looked at it.
THEOREM StartNotLost == LoopPoolSpec => []NoLostStart
<1>1. IoInv => NoLostStart
  BY DEF IoInv
<1> QED BY IoInvHolds, <1>1, PTL

\* DestructorSound: the destructor returns only when every thread that was
\* started has ended; it joins a thread only if its loop was told to quit or has
\* reset quit_; and it ends the program, or touches a loop that is gone, only
\* where that loop has returned because it was told to quit.
THEOREM DestructorLeavesNobody == LoopPoolSpec => []DestructorSound
<1>1. IoInv => DestructorSound
  BY DEF IoInv
<1> QED BY IoInvHolds, <1>1, PTL

=============================================================================
