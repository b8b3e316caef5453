-------------------------- MODULE EventLoopProofs --------------------------
(***************************************************************************)
(* For any number of threads, callbacks, channels and calls of Quit: the   *)
(* loop never sleeps over a callback or a Quit that asked for a wake-up,   *)
(* and the loop implements the FIFO executor.                              *)
(*                                                                         *)
(* The second half is about the memory pool of the loop: for any alignment,*)
(* largest block, requests and behaviour of malloc, the blocks in use, the *)
(* free lists and the space left tile the areas exactly.                   *)
(***************************************************************************)
EXTENDS EventLoop, MemPool, SequenceTheorems, FiniteSetTheorems,
        WellFoundedInduction, TLAPS

\* How the flags, the local queue and the loop thread's own calls depend on
\* the phase: what makes the test in EnqueueEventLoop mean what it says.
PhaseInv ==
    /\ callingPendingCbs_ <=> pc = "run"
    /\ pc # "run" => tmp_queue = <<>>
    /\ post[Owner] # "none" => pc \in {"idle", "active", "run"}
    /\ post[Owner] # "quitting"

\* NoLostWakeUp, for every phase from which poll is reached without another
\* swap of the pending queue.
PendingCovered ==
    pc \notin {"active", "pending"} =>
        \A i \in DOMAIN pendingCbsQueue_ :
            pendingCbsQueue_[i] \in idleQueued \/ WakeUpComing

IInv == TypeOK /\ PhaseInv /\ PendingCovered /\ NoLostQuit

-----------------------------------------------------------------------------
\* Every variable keeps its type along every step of EventLoop.
LEMMA TypeStep == TypeOK /\ [Next]_vars => TypeOK'
<1> SUFFICES ASSUME TypeOK, [Next]_vars PROVE TypeOK'
    OBVIOUS
<1> USE DEF TypeOK, loopVars, Threads
<1>1. ASSUME NEW t \in Threads, NEW cb \in Cbs, EnqueueEventLoop(t, cb)
      PROVE  TypeOK'
  BY <1>1 DEF EnqueueEventLoop
<1>2. ASSUME NEW t \in Threads, NEW cb \in Cbs, RunInEventLoop(t, cb)
      PROVE  TypeOK'
  <2>1. CASE IsInLoopThread(t)
    <3>1. ran' = Append(ran, cb)
      BY <1>2, <2>1 DEF RunInEventLoop
    <3>2. UNCHANGED <<pc, loopVars, activeChannels_, cur, pendingCbsQueue_,
                      tmp_queue, eventfd, post, quits, idleQueued>>
      BY <1>2, <2>1 DEF RunInEventLoop
    <3> QED BY <3>1, <3>2
  <2>2. CASE ~IsInLoopThread(t)
    BY <1>1, <1>2, <2>2 DEF RunInEventLoop
  <2> QED BY <2>1, <2>2
<1>3. ASSUME NEW t \in Threads, Quit(t) PROVE TypeOK'
  BY <1>3 DEF Quit, IsInLoopThread
<1>4. ASSUME NEW t \in Threads, EnqueueDone(t) PROVE TypeOK'
  BY <1>4 DEF EnqueueDone, WakeUp
<1>5. ASSUME NEW t \in Threads, QuitDone(t) PROVE TypeOK'
  BY <1>5 DEF QuitDone, WakeUp
<1>6. CASE Loop
  BY <1>6 DEF Loop
<1>7. CASE LoopResetQuit
  BY <1>7 DEF LoopResetQuit
<1>8. CASE LoopTest
  BY <1>8 DEF LoopTest
<1>9. ASSUME NEW a \in SUBSET (IoChannels \cup {Bridge}), PollReturnWith(a)
      PROVE  TypeOK'
  BY <1>9 DEF PollReturnWith
<1>10. CASE PollReturn
  BY <1>9, <1>10 DEF PollReturn, BridgeReady
<1>11. CASE PollTimeout
  BY <1>9, <1>11 DEF PollTimeout
<1>12. ASSUME NEW c \in IoChannels \cup {Bridge}, HandleEvents(c) PROVE TypeOK'
  BY <1>12 DEF HandleEvents, HandleWakeUpFdRead
<1>13. CASE HandleActiveChannelsDone
  BY <1>13 DEF HandleActiveChannelsDone
<1>14. CASE HandlePendingCallbacks
  BY <1>14 DEF HandlePendingCallbacks
<1>15. CASE RunCallback
  <2>1. Head(tmp_queue) \in Cbs /\ Tail(tmp_queue) \in Seq(Cbs)
    BY <1>15, HeadTailProperties DEF RunCallback
  <2> QED BY <1>15, <2>1 DEF RunCallback
<1>16. CASE HandlePendingCallbacksDone
  BY <1>16 DEF HandlePendingCallbacksDone
<1>17. CASE UNCHANGED vars
  BY <1>17 DEF vars
<1> QED
  BY <1>1, <1>2, <1>3, <1>4, <1>5, <1>6, <1>7, <1>8, <1>10, <1>11, <1>12,
     <1>13, <1>14, <1>15, <1>16, <1>17
     DEF Next, Call, Return, LoopBody

-----------------------------------------------------------------------------
\* Every step keeps the phase bookkeeping.
LEMMA PhaseStep == TypeOK /\ PhaseInv /\ [Next]_vars => PhaseInv'
<1> SUFFICES ASSUME TypeOK, PhaseInv, [Next]_vars PROVE PhaseInv'
    OBVIOUS
<1> USE DEF TypeOK, PhaseInv, loopVars, Threads, LoopAt
<1>1. ASSUME NEW t \in Threads, NEW cb \in Cbs, EnqueueEventLoop(t, cb)
      PROVE  PhaseInv'
  BY <1>1 DEF EnqueueEventLoop, MayCall, OwnerInUserCode
<1>2. ASSUME NEW t \in Threads, NEW cb \in Cbs, RunInEventLoop(t, cb)
      PROVE  PhaseInv'
  BY <1>1, <1>2 DEF RunInEventLoop, IsInLoopThread
<1>3. ASSUME NEW t \in Threads, Quit(t) PROVE PhaseInv'
  BY <1>3 DEF Quit, IsInLoopThread
<1>4. ASSUME NEW t \in Threads, EnqueueDone(t) PROVE PhaseInv'
  BY <1>4 DEF EnqueueDone
<1>5. ASSUME NEW t \in Threads, QuitDone(t) PROVE PhaseInv'
  BY <1>5 DEF QuitDone
<1>6. CASE Loop \/ LoopResetQuit \/ LoopTest
  BY <1>6 DEF Loop, LoopResetQuit, LoopTest
<1>7. CASE PollReturn \/ PollTimeout
  BY <1>7 DEF PollReturn, PollTimeout, PollReturnWith
<1>8. ASSUME NEW c \in IoChannels \cup {Bridge}, HandleEvents(c)
      PROVE  PhaseInv'
  BY <1>8 DEF HandleEvents, HandleWakeUpFdRead
<1>9. CASE HandleActiveChannelsDone \/ HandlePendingCallbacks
  BY <1>9 DEF HandleActiveChannelsDone, HandlePendingCallbacks
<1>10. CASE RunCallback \/ HandlePendingCallbacksDone
  BY <1>10 DEF RunCallback, HandlePendingCallbacksDone
<1>11. CASE UNCHANGED vars
  BY <1>11 DEF vars
<1> QED
  BY <1>1, <1>2, <1>3, <1>4, <1>5, <1>6, <1>7, <1>8, <1>9, <1>10, <1>11
     DEF Next, Call, Return, LoopBody

-----------------------------------------------------------------------------
\* A wake-up on its way stays on its way until the loop reads the eventfd:
\* the only step that takes it back is the handler of the Bridge.
LEMMA WakeUpStays ==
    ASSUME TypeOK, PhaseInv, [Next]_vars, WakeUpComing,
           \A c \in IoChannels \cup {Bridge} : ~HandleEvents(c)
    PROVE  WakeUpComing'
<1> USE DEF TypeOK, PhaseInv, loopVars, Threads, LoopAt, WakeUpComing,
            NeedsWakeUp, IsInLoopThread
<1>1. ASSUME NEW t \in Threads, NEW cb \in Cbs, EnqueueEventLoop(t, cb)
      PROVE  WakeUpComing'
  BY <1>1 DEF EnqueueEventLoop, MayCall
<1>2. ASSUME NEW t \in Threads, NEW cb \in Cbs, RunInEventLoop(t, cb)
      PROVE  WakeUpComing'
  BY <1>1, <1>2 DEF RunInEventLoop
<1>3. ASSUME NEW t \in Threads, Quit(t) PROVE WakeUpComing'
  BY <1>3 DEF Quit, MayCall
<1>4. ASSUME NEW t \in Threads, EnqueueDone(t) PROVE WakeUpComing'
  BY <1>4 DEF EnqueueDone, WakeUp
<1>5. ASSUME NEW t \in Threads, QuitDone(t) PROVE WakeUpComing'
  BY <1>5 DEF QuitDone, WakeUp
<1>6. CASE Loop \/ LoopResetQuit \/ LoopTest
  BY <1>6 DEF Loop, LoopResetQuit, LoopTest
<1>7. CASE PollReturn \/ PollTimeout
  BY <1>7 DEF PollReturn, PollTimeout, PollReturnWith
<1>8. CASE HandleActiveChannelsDone \/ HandlePendingCallbacks
  BY <1>8 DEF HandleActiveChannelsDone, HandlePendingCallbacks
<1>9. CASE RunCallback \/ HandlePendingCallbacksDone
  BY <1>9 DEF RunCallback, HandlePendingCallbacksDone
<1>10. CASE UNCHANGED vars
  BY <1>10 DEF vars
<1> QED
  BY <1>1, <1>2, <1>3, <1>4, <1>5, <1>6, <1>7, <1>8, <1>9, <1>10
     DEF Next, Call, Return, LoopBody

\* A push is covered: by the wake-up its caller owes, or because the caller
\* is the loop thread outside Loop().
LEMMA PushCovered ==
    ASSUME TypeOK, PhaseInv, PendingCovered, [Next]_vars,
           NEW t \in Threads, NEW cb \in Cbs, EnqueueEventLoop(t, cb)
    PROVE  PendingCovered'
<1> USE DEF TypeOK, PhaseInv, Threads
<1>1. SUFFICES ASSUME pc \notin {"active", "pending"},
                      NEW i \in DOMAIN pendingCbsQueue_'
               PROVE  pendingCbsQueue_'[i] \in idleQueued' \/ WakeUpComing'
  BY DEF PendingCovered, EnqueueEventLoop
<1>2. pendingCbsQueue_' = Append(pendingCbsQueue_, cb)
  BY DEF EnqueueEventLoop
<1>3. CASE i \in DOMAIN pendingCbsQueue_
  <2>1. pendingCbsQueue_'[i] = pendingCbsQueue_[i]
    BY <1>2, <1>3
  <2>2. CASE pendingCbsQueue_[i] \in idleQueued
    BY <2>1, <2>2 DEF EnqueueEventLoop
  <2>3. CASE WakeUpComing
    <3>1. \A c \in IoChannels \cup {Bridge} : ~HandleEvents(c)
      BY <1>1 DEF HandleEvents, LoopAt
    <3> QED BY <2>3, <3>1, WakeUpStays
  <2> QED BY <1>1, <1>3, <2>2, <2>3 DEF PendingCovered
<1>4. CASE i \notin DOMAIN pendingCbsQueue_
  <2>1. pendingCbsQueue_'[i] = cb
    BY <1>1, <1>2, <1>4
  <2>2. CASE t = Owner /\ pc = "idle"
    BY <2>1, <2>2 DEF EnqueueEventLoop
  <2>3. CASE t = Owner /\ pc # "idle"
    <3>1. callingPendingCbs_' /\ post'[t] = "pushed"
      BY <1>1, <2>3 DEF EnqueueEventLoop, MayCall, OwnerInUserCode, loopVars
    <3> QED BY <3>1 DEF WakeUpComing, NeedsWakeUp
  <2>4. CASE t # Owner
    BY <2>4 DEF EnqueueEventLoop, WakeUpComing, NeedsWakeUp, IsInLoopThread
  <2> QED BY <2>2, <2>3, <2>4
<1> QED BY <1>3, <1>4

\* Every step keeps PendingCovered.
LEMMA CoveredStep ==
    TypeOK /\ PhaseInv /\ PendingCovered /\ [Next]_vars => PendingCovered'
<1> SUFFICES ASSUME TypeOK, PhaseInv, PendingCovered, [Next]_vars
             PROVE  PendingCovered'
    OBVIOUS
<1>1. ASSUME pc \notin {"active", "pending"},
             pendingCbsQueue_' = pendingCbsQueue_,
             idleQueued' = idleQueued
      PROVE  PendingCovered'
  <2>1. \A c \in IoChannels \cup {Bridge} : ~HandleEvents(c)
    BY <1>1 DEF HandleEvents, LoopAt
  <2>2. WakeUpComing => WakeUpComing'
    BY <2>1, WakeUpStays
  <2> QED BY <1>1, <2>2 DEF PendingCovered
<1>2. ASSUME pc' \in {"active", "pending"} PROVE PendingCovered'
  BY <1>2 DEF PendingCovered
<1>3. ASSUME NEW t \in Threads, NEW cb \in Cbs, EnqueueEventLoop(t, cb)
      PROVE  PendingCovered'
  BY <1>3, PushCovered
<1>4. ASSUME NEW t \in Threads, NEW cb \in Cbs, RunInEventLoop(t, cb)
      PROVE  PendingCovered'
  BY <1>1, <1>2, <1>3, <1>4 DEF RunInEventLoop
<1>5. ASSUME NEW t \in Threads, Quit(t) \/ EnqueueDone(t) \/ QuitDone(t)
      PROVE  PendingCovered'
  BY <1>1, <1>2, <1>5 DEF Quit, EnqueueDone, QuitDone
<1>6. CASE Loop \/ LoopResetQuit \/ LoopTest
  BY <1>1, <1>6 DEF Loop, LoopResetQuit, LoopTest, LoopAt
<1>7. CASE PollReturn \/ PollTimeout
  BY <1>2, <1>7 DEF PollReturn, PollTimeout, PollReturnWith
<1>8. ASSUME NEW c \in IoChannels \cup {Bridge}, HandleEvents(c)
      PROVE  PendingCovered'
  BY <1>2, <1>8 DEF HandleEvents, HandleWakeUpFdRead, LoopAt
<1>9. CASE HandleActiveChannelsDone
  BY <1>2, <1>9 DEF HandleActiveChannelsDone
<1>10. CASE HandlePendingCallbacks
  BY <1>10 DEF HandlePendingCallbacks, PendingCovered
<1>11. CASE RunCallback \/ HandlePendingCallbacksDone
  BY <1>1, <1>11 DEF RunCallback, HandlePendingCallbacksDone, LoopAt
<1>12. CASE UNCHANGED vars
  BY <1>1, <1>2, <1>12 DEF vars
<1> QED
  BY <1>3, <1>4, <1>5, <1>6, <1>7, <1>8, <1>9, <1>10, <1>11, <1>12
     DEF Next, Call, Return, LoopBody

\* Every step keeps NoLostQuit: quit_ is read as FALSE when poll is entered,
\* and whoever sets it afterwards owes a write of the eventfd.
LEMMA QuitStep ==
    TypeOK /\ PhaseInv /\ NoLostQuit /\ [Next]_vars => NoLostQuit'
<1> SUFFICES ASSUME TypeOK, PhaseInv, NoLostQuit, [Next]_vars,
                    pc' = "poll", quit_'
             PROVE  NoLostQuit'
    BY DEF NoLostQuit
<1> USE DEF TypeOK, NoLostQuit, loopVars, Threads, LoopAt
<1>1. ASSUME NEW t \in Threads, NEW cb \in Cbs, EnqueueEventLoop(t, cb)
      PROVE  NoLostQuit'
  BY <1>1 DEF EnqueueEventLoop, MayCall
<1>2. ASSUME NEW t \in Threads, NEW cb \in Cbs, RunInEventLoop(t, cb)
      PROVE  NoLostQuit'
  BY <1>1, <1>2 DEF RunInEventLoop, IsInLoopThread
<1>3. ASSUME NEW t \in Threads, Quit(t) PROVE NoLostQuit'
  <2>1. t # Owner
    BY <1>3 DEF Quit, MayCall, OwnerInUserCode
  <2>2. post'[t] = "quitting"
    BY <1>3, <2>1 DEF Quit, IsInLoopThread
  <2> QED BY <2>2
<1>4. ASSUME NEW t \in Threads, EnqueueDone(t) PROVE NoLostQuit'
  BY <1>4 DEF EnqueueDone, WakeUp
<1>5. ASSUME NEW t \in Threads, QuitDone(t) PROVE NoLostQuit'
  BY <1>5 DEF QuitDone, WakeUp
<1>6. CASE Loop \/ LoopResetQuit \/ LoopTest
  BY <1>6 DEF Loop, LoopResetQuit, LoopTest
<1>7. CASE PollReturn \/ PollTimeout
  BY <1>7 DEF PollReturn, PollTimeout, PollReturnWith
<1>8. ASSUME NEW c \in IoChannels \cup {Bridge}, HandleEvents(c)
      PROVE  NoLostQuit'
  BY <1>8 DEF HandleEvents, HandleWakeUpFdRead
<1>9. CASE \/ HandleActiveChannelsDone \/ HandlePendingCallbacks
           \/ RunCallback \/ HandlePendingCallbacksDone
  BY <1>9 DEF HandleActiveChannelsDone, HandlePendingCallbacks, RunCallback,
              HandlePendingCallbacksDone
<1>10. CASE UNCHANGED vars
  BY <1>10 DEF vars
<1> QED
  BY <1>1, <1>2, <1>3, <1>4, <1>5, <1>6, <1>7, <1>8, <1>9, <1>10
     DEF Next, Call, Return, LoopBody

-----------------------------------------------------------------------------
\* The inductive invariant holds in every reachable state of the loop.
THEOREM Invariance == Spec => []IInv
<1>1. Init => IInv
  <2> SUFFICES ASSUME Init PROVE IInv
    OBVIOUS
  <2>1. TypeOK
    <3>1. <<>> \in Seq(Cbs)
      BY EmptySeq
    <3>2. post \in [Threads -> {"none", "pushed", "quitting"}]
      BY DEF Init
    <3>3. eventfd \in Nat /\ quits \in Nat
      BY DEF Init
    <3> QED BY <3>1, <3>2, <3>3, Zenon DEF Init, TypeOK
  <2>2. PhaseInv
    <3>1. post[Owner] = "none"
      BY DEF Init, Threads
    <3>2. ~callingPendingCbs_ /\ pc # "run" /\ tmp_queue = <<>>
      BY DEF Init
    <3> QED BY <3>1, <3>2 DEF PhaseInv
  <2>3. PendingCovered /\ NoLostQuit
    BY DEF Init, PendingCovered, NoLostQuit
  <2> QED BY <2>1, <2>2, <2>3 DEF IInv
<1>2. IInv /\ [Next]_vars => IInv'
  BY TypeStep, PhaseStep, CoveredStep, QuitStep DEF IInv
<1> QED BY <1>1, <1>2, PTL DEF Spec

\* Type correctness of EventLoop.
THEOREM TypeCorrect == Spec => []TypeOK
<1>1. IInv => TypeOK
  BY DEF IInv
<1> QED BY <1>1, Invariance, PTL

\* EnqueueEventLoop never loses a wake-up, whatever the threads do.
THEOREM WakeUpNeverLost == Spec => []NoLostWakeUp
<1>1. IInv => NoLostWakeUp
  BY DEF IInv, PendingCovered, NoLostWakeUp
<1> QED BY <1>1, Invariance, PTL

\* Quit never leaves a running loop asleep.
THEOREM QuitNeverLost == Spec => []NoLostQuit
<1>1. IInv => NoLostQuit
  BY DEF IInv
<1> QED BY <1>1, Invariance, PTL

-----------------------------------------------------------------------------
\* Callbacks that are nowhere in two queues are not in their concatenation.
LEMMA NotInConcat ==
    ASSUME NEW s \in Seq(Cbs), NEW u \in Seq(Cbs), NEW cb,
           ~In(cb, s), ~In(cb, u)
    PROVE  \A i \in DOMAIN (s \o u) : (s \o u)[i] # cb
<1> TAKE i \in DOMAIN (s \o u)
<1>1. i \in 1 .. Len(s) + Len(u)
  BY ConcatProperties
<1>2. CASE i <= Len(s)
  <2>1. (s \o u)[i] = s[i] /\ i \in DOMAIN s
    BY <1>1, <1>2, ConcatProperties
  <2> QED BY <2>1 DEF In
<1>3. CASE i > Len(s)
  <2>1. (s \o u)[i] = u[i - Len(s)] /\ i - Len(s) \in DOMAIN u
    BY <1>1, <1>3, ConcatProperties
  <2> QED BY <2>1 DEF In
<1> QED BY <1>1, <1>2, <1>3

\* Taking the oldest callback of the local queue takes the oldest of all.
LEMMA HeadOfConcat ==
    ASSUME NEW s \in Seq(Cbs), NEW u \in Seq(Cbs), s # <<>>
    PROVE  /\ s \o u # <<>>
           /\ Head(s \o u) = Head(s)
           /\ Tail(s \o u) = Tail(s) \o u
  BY HeadTailProperties, ConcatProperties

\* Appending to the pending queue appends to the concatenation.
LEMMA AppendToConcat ==
    ASSUME NEW s \in Seq(Cbs), NEW u \in Seq(Cbs), NEW cb \in Cbs
    PROVE  s \o Append(u, cb) = Append(s \o u, cb)
  BY AppendProperties, ConcatProperties

\* EventLoop implements FifoExecutor: a swap is a stutter, a push accepts, a
\* callback run from the local queue is the oldest, and the loop thread's own
\* RunInEventLoop runs at once.
THEOREM Refinement == Spec => ImplementsExecutor
<1>1. Init => Executor!Init
  BY EmptySeq, ConcatEmptySeq DEF Init, Executor!Init
<1>2. IInv /\ [Next]_vars => [Executor!Next]_(Executor!vars)
  <2> SUFFICES ASSUME IInv, [Next]_vars
               PROVE  [Executor!Next]_(Executor!vars)
      OBVIOUS
  <2> USE DEF IInv, TypeOK
  <2>1. ASSUME UNCHANGED <<tmp_queue, pendingCbsQueue_, ran>>
        PROVE  UNCHANGED Executor!vars
    BY <2>1 DEF Executor!vars
  <2>2. ASSUME NEW cb \in Cbs, New(cb)
        PROVE  Executor!Fresh(cb) /\ Executor!NotRun(cb)
    BY <2>2, NotInConcat DEF New, In, Executor!Fresh, Executor!NotRun
  <2>3. ASSUME NEW t \in Threads, NEW cb \in Cbs, EnqueueEventLoop(t, cb)
        PROVE  Executor!Accept(cb)
    BY <2>2, <2>3, AppendToConcat DEF EnqueueEventLoop, Executor!Accept
  <2>4. ASSUME NEW t \in Threads, NEW cb \in Cbs, RunInEventLoop(t, cb)
        PROVE  Executor!Accept(cb) \/ Executor!RunAtOnce(cb)
    BY <2>2, <2>3, <2>4 DEF RunInEventLoop, Executor!RunAtOnce
  <2>5. ASSUME NEW t \in Threads, Quit(t) \/ EnqueueDone(t) \/ QuitDone(t)
        PROVE  UNCHANGED Executor!vars
    BY <2>1, <2>5 DEF Quit, EnqueueDone, QuitDone
  <2>6. CASE \/ Loop \/ LoopResetQuit \/ LoopTest
             \/ HandleActiveChannelsDone \/ HandlePendingCallbacksDone
    BY <2>1, <2>6 DEF Loop, LoopResetQuit, LoopTest, HandleActiveChannelsDone,
                      HandlePendingCallbacksDone
  <2>7. CASE PollReturn \/ PollTimeout
    BY <2>1, <2>7 DEF PollReturn, PollTimeout, PollReturnWith
  <2>8. ASSUME NEW c \in IoChannels \cup {Bridge}, HandleEvents(c)
        PROVE  UNCHANGED Executor!vars
    BY <2>1, <2>8 DEF HandleEvents, HandleWakeUpFdRead
  <2>9. CASE HandlePendingCallbacks
    <3>1. tmp_queue = <<>> /\ ran' = ran
      BY <2>9 DEF HandlePendingCallbacks, LoopAt, PhaseInv
    <3>2. tmp_queue \o pendingCbsQueue_ = tmp_queue' \o pendingCbsQueue_'
      BY <2>9, <3>1, ConcatEmptySeq DEF HandlePendingCallbacks
    <3> QED BY <3>1, <3>2 DEF Executor!vars
  <2>10. CASE RunCallback
    <3>1. tmp_queue # <<>> /\ UNCHANGED pendingCbsQueue_
      BY <2>10 DEF RunCallback
    <3> QED BY <2>10, <3>1, HeadOfConcat
            DEF RunCallback, Executor!RunOldest, Executor!Next
  <2>11. CASE UNCHANGED vars
    BY <2>1, <2>11 DEF vars
  <2> QED
    BY <2>3, <2>4, <2>5, <2>6, <2>7, <2>8, <2>9, <2>10, <2>11
       DEF Next, Call, Return, LoopBody, Executor!Next
<1> QED BY <1>1, <1>2, Invariance, PTL DEF Spec, ImplementsExecutor, Executor!Spec

-----------------------------------------------------------------------------
(* The memory pool of a loop.                                              *)

Aligned(x) == \E m \in Nat : x = m * kALIGN

LEMMA Division ==
    ASSUME NEW a \in Nat, NEW k \in Nat \ {0}
    PROVE  /\ a \div k \in Nat
           /\ (a \div k) * k <= a /\ a < (a \div k) * k + k
  OBVIOUS

LEMMA Distributes ==
    ASSUME NEW a \in Int, NEW b \in Int, NEW c \in Int
    PROVE  (a + b) * c = a * c + b * c /\ (a - b) * c = a * c - b * c /\ a * b \in Int
           /\ a * b = b * a
  OBVIOUS

LEMMA Monotonic ==
    ASSUME NEW a \in Int, NEW b \in Int, NEW c \in Nat \ {0}
    PROVE  a < b <=> a * c < b * c
  OBVIOUS

LEMMA DivisionUnique ==
    ASSUME NEW a \in Nat, NEW k \in Nat \ {0}, NEW q \in Nat, q * k <= a, a < q * k + k
    PROVE  a \div k = q
<1> DEFINE d == a \div k
<1>1. d \in Nat /\ d * k <= a /\ a < d * k + k
  BY Division
<1> HIDE DEF d
<1>2. q * k < (d + 1) * k /\ d * k < (q + 1) * k
  BY <1>1, Distributes
<1>3. q < d + 1 /\ d < q + 1
  BY <1>1, <1>2, Monotonic
<1>4. d = q
  BY <1>1, <1>3
<1> QED BY <1>4 DEF d

LEMMA AlignedFacts ==
    /\ Aligned(0) /\ Aligned(kALIGN) /\ Aligned(kMax_Bytes)
    /\ \A x : Aligned(x) => x \in Nat
    /\ \A x, y : Aligned(x) /\ Aligned(y) => Aligned(x + y)
    /\ \A x, y : Aligned(x) /\ Aligned(y) /\ x <= y => Aligned(y - x)
    /\ \A x, n : Aligned(x) /\ n \in Nat => Aligned(n * x)
<1>1. kALIGN \in Nat \ {0} /\ kMax_Bytes \in Nat /\ kMax_Bytes % kALIGN = 0
  BY MemPoolAssumption
<1>2. Aligned(0) /\ Aligned(kALIGN)
  <2>1. 0 = 0 * kALIGN /\ kALIGN = 1 * kALIGN
    BY <1>1
  <2> QED BY <2>1 DEF Aligned
<1>3. Aligned(kMax_Bytes)
  <2>1. kMax_Bytes = (kMax_Bytes \div kALIGN) * kALIGN /\ kMax_Bytes \div kALIGN \in Nat
    BY <1>1
  <2> QED BY <2>1 DEF Aligned
<1>4. \A x : Aligned(x) => x \in Nat
  <2>1. \A m \in Nat : m * kALIGN \in Nat
    BY <1>1
  <2> QED BY <2>1 DEF Aligned
<1>5. ASSUME NEW x, NEW y, Aligned(x), Aligned(y)
      PROVE  Aligned(x + y) /\ (x <= y => Aligned(y - x))
  <2>1. PICK m \in Nat : x = m * kALIGN
    BY <1>5 DEF Aligned
  <2>2. PICK n \in Nat : y = n * kALIGN
    BY <1>5 DEF Aligned
  <2>3. x + y = (m + n) * kALIGN /\ y - x = (n - m) * kALIGN
    BY <1>1, <2>1, <2>2, Distributes
  <2>4. x <= y => n - m \in Nat
    <3>1. n < m <=> y < x
      BY <1>1, <2>1, <2>2, Monotonic
    <3>2. x \in Nat /\ y \in Nat
      BY <1>4, <1>5
    <3> QED BY <3>1, <3>2
  <2> QED BY <2>3, <2>4 DEF Aligned
<1>6. ASSUME NEW x, NEW n \in Nat, Aligned(x) PROVE Aligned(n * x)
  <2>1. PICK m \in Nat : x = m * kALIGN
    BY <1>6 DEF Aligned
  <2>2. n * x = (n * m) * kALIGN /\ n * m \in Nat
    BY <1>1, <2>1
  <2> QED BY <2>2 DEF Aligned
<1> QED BY <1>2, <1>3, <1>4, <1>5, <1>6

\* The list of a size, and the size of its blocks.
LEMMA RoundFacts ==
    ASSUME NEW n \in Nat \ {0}
    PROVE  /\ GET_FREELIST_INDEX(n) \in Nat
           /\ ROUND_UP(n) = (GET_FREELIST_INDEX(n) + 1) * kALIGN
           /\ Aligned(ROUND_UP(n)) /\ ROUND_UP(n) \in Nat /\ n <= ROUND_UP(n)
           /\ n <= kMax_Bytes => /\ GET_FREELIST_INDEX(n) \in kFreeLists
                                 /\ ROUND_UP(n) <= kMax_Bytes
<1> DEFINE a == n + kALIGN - 1
           d == a \div kALIGN
<1>1. kALIGN \in Nat \ {0} /\ a \in Nat
  BY MemPoolAssumption
<1>2. d \in Nat /\ d * kALIGN <= a /\ a < d * kALIGN + kALIGN
  BY <1>1, Division
<1>3. GET_FREELIST_INDEX(n) = d - 1 /\ ROUND_UP(n) = d * kALIGN
  BY DEF GET_FREELIST_INDEX, ROUND_UP
<1>4. d # 0 /\ d - 1 \in Nat /\ d - 1 + 1 = d
  <2>1. 0 * kALIGN = 0 /\ a >= kALIGN
    BY <1>1
  <2> HIDE DEF a, d
  <2>2. d # 0
    BY <1>1, <1>2, <2>1
  <2> QED BY <1>2, <2>2
<1>5. Aligned(ROUND_UP(n)) /\ ROUND_UP(n) \in Nat
  BY <1>2, <1>3, AlignedFacts DEF Aligned
<1>6. n <= ROUND_UP(n)
  BY <1>1, <1>2, <1>3, <1>5
<1>7. ASSUME n <= kMax_Bytes
      PROVE  GET_FREELIST_INDEX(n) \in kFreeLists /\ ROUND_UP(n) <= kMax_Bytes
  <2>1. PICK M \in Nat : kMax_Bytes = M * kALIGN
    BY AlignedFacts DEF Aligned
  <2>2. kMax_Bytes \div kALIGN = M
    BY <1>1, <2>1, DivisionUnique
  <2>3. d * kALIGN < (M + 1) * kALIGN
    BY <1>1, <1>2, <1>7, <2>1, Distributes
  <2> HIDE DEF a, d
  <2>4. d < M + 1
    BY <1>1, <1>2, <2>3, Monotonic
  <2>5. d - 1 \in 0 .. M - 1
    BY <1>4, <2>4
  <2>6. d * kALIGN <= M * kALIGN
    <3>1. ~(M < d)
      BY <1>2, <2>4
    <3>2. ~(M * kALIGN < d * kALIGN)
      BY <1>1, <1>2, <3>1, Monotonic
    <3> QED BY <1>1, <1>2, <3>2
  <2> QED BY <1>3, <2>1, <2>2, <2>5, <2>6 DEF kFreeLists
<1> QED BY <1>3, <1>4, <1>5, <1>6, <1>7

LEMMA RoundAligned ==
    ASSUME NEW n, Aligned(n), n > 0
    PROVE  ROUND_UP(n) = n /\ (GET_FREELIST_INDEX(n) + 1) * kALIGN = n
<1>1. kALIGN \in Nat \ {0} /\ n \in Nat
  BY MemPoolAssumption, AlignedFacts
<1>2. PICK m \in Nat : n = m * kALIGN
  BY DEF Aligned
<1>3. (n + kALIGN - 1) \div kALIGN = m
  BY <1>1, <1>2, DivisionUnique
<1>4. ROUND_UP(n) = n /\ GET_FREELIST_INDEX(n) + 1 = m - 1 + 1
  BY <1>2, <1>3 DEF ROUND_UP, GET_FREELIST_INDEX
<1> QED BY <1>2, <1>4

\* Which list comes first tells which block is smaller.
LEMMA ListSizes ==
    ASSUME NEW i \in Nat, NEW j \in Nat
    PROVE  /\ (i + 1) * kALIGN \in Nat /\ (i + 1) * kALIGN > 0 /\ Aligned((i + 1) * kALIGN)
           /\ i < j <=> (i + 1) * kALIGN < (j + 1) * kALIGN
<1>1. kALIGN \in Nat \ {0}
  BY MemPoolAssumption
<1>2. (i + 1) * kALIGN = i * kALIGN + kALIGN /\ i * kALIGN \in Nat
  BY <1>1
<1>3. Aligned((i + 1) * kALIGN)
  <2>1. i + 1 \in Nat
    OBVIOUS
  <2> QED BY <2>1 DEF Aligned
<1>4. i < j <=> (i + 1) * kALIGN < (j + 1) * kALIGN
  <2>1. i + 1 < j + 1 <=> (i + 1) * kALIGN < (j + 1) * kALIGN
    BY <1>1, Monotonic
  <2> QED BY <2>1
<1> QED BY <1>1, <1>2, <1>3, <1>4

-----------------------------------------------------------------------------
(* Types, and the pools that the cases of chunk_alloc lead to.             *)

PoolOK(p) ==
    /\ p \in [free_lists : [kFreeLists -> Seq(Nat)], begin_free : Nat, end_free : Nat,
              heap_size : Nat, allocated_area : SUBSET Nat]
    /\ p.begin_free <= p.end_free /\ Aligned(left_size(p))

Block == [ptr : Nat, n : Nat \ {0}]
Area == [base : Nat, size : Nat, via : {"malloc", "master_alloc"}]

LEMMA PoolFacts ==
    ASSUME NEW p, PoolOK(p)
    PROVE  /\ p.free_lists \in [kFreeLists -> Seq(Nat)] /\ p.begin_free \in Nat
           /\ p.end_free \in Nat /\ p.heap_size \in Nat /\ p.allocated_area \subseteq Nat
           /\ p.begin_free <= p.end_free /\ Aligned(left_size(p))
           /\ left_size(p) = p.end_free - p.begin_free /\ left_size(p) \in Nat
           /\ \A i \in kFreeLists : /\ i \in Nat /\ p.free_lists[i] \in Seq(Nat)
                                    /\ Len(p.free_lists[i]) \in Nat
                                    /\ DOMAIN p.free_lists[i] = 1 .. Len(p.free_lists[i])
                                    /\ \A k \in 1 .. Len(p.free_lists[i]) :
                                          p.free_lists[i][k] \in Nat
<1>1. /\ p.free_lists \in [kFreeLists -> Seq(Nat)] /\ p.begin_free \in Nat
      /\ p.end_free \in Nat /\ p.heap_size \in Nat /\ p.allocated_area \subseteq Nat
      /\ p.begin_free <= p.end_free /\ Aligned(left_size(p))
  BY DEF PoolOK
<1>2. left_size(p) = p.end_free - p.begin_free /\ left_size(p) \in Nat
  BY <1>1 DEF left_size
<1>3. ASSUME NEW i \in kFreeLists
      PROVE  /\ i \in Nat /\ p.free_lists[i] \in Seq(Nat)
             /\ Len(p.free_lists[i]) \in Nat
             /\ DOMAIN p.free_lists[i] = 1 .. Len(p.free_lists[i])
             /\ \A k \in 1 .. Len(p.free_lists[i]) : p.free_lists[i][k] \in Nat
  <2>1. p.free_lists[i] \in Seq(Nat)
    BY <1>1
  <2>2. i \in Nat
    BY DEF kFreeLists
  <2> QED BY <2>1, <2>2
<1> QED BY <1>1, <1>2, <1>3

LEMMA BlockFacts ==
    ASSUME NEW b \in Block
    PROVE  /\ b.ptr \in Nat /\ b.n \in Nat \ {0} /\ b = [ptr |-> b.ptr, n |-> b.n]
  BY DEF Block

\* refill, when there is space for one block and the list is empty.
LEMMA RefillFacts ==
    ASSUME NEW p, PoolOK(p), NEW n \in Nat \ {0}, n <= kMax_Bytes,
           ROUND_UP(n) <= left_size(p), p.free_lists[GET_FREELIST_INDEX(n)] = <<>>,
           refill(p, n)
    PROVE  LET i == GET_FREELIST_INDEX(n)
               size == ROUND_UP(n) IN
           /\ PoolOK(pool')
           /\ live' = live \cup {[ptr |-> p.begin_free, n |-> n]}
           /\ oom' = 0 /\ UNCHANGED <<heap, alive>>
           /\ \E c \in Nat \ {0} :
                /\ c * size <= left_size(p)
                /\ pool'.free_lists = [p.free_lists EXCEPT ![i] =
                                          [k \in 1 .. c - 1 |-> p.begin_free + k * size]]
                /\ pool'.begin_free = p.begin_free + c * size
                /\ pool'.end_free = p.end_free /\ pool'.heap_size = p.heap_size
                /\ pool'.allocated_area = p.allocated_area
<1> DEFINE i == GET_FREELIST_INDEX(n)
           size == ROUND_UP(n)
           c == IF left_size(p) >= size * Objs THEN Objs ELSE left_size(p) \div size
           others == [k \in 1 .. c - 1 |-> p.begin_free + k * size]
<1>1. i \in kFreeLists /\ size \in Nat \ {0} /\ Aligned(size)
  BY RoundFacts
<1>2. /\ p.free_lists \in [kFreeLists -> Seq(Nat)] /\ p.begin_free \in Nat
      /\ p.end_free \in Nat /\ left_size(p) \in Nat /\ Aligned(left_size(p))
      /\ left_size(p) = p.end_free - p.begin_free
  BY PoolFacts
<1>3. /\ live' = live \cup {[ptr |-> p.begin_free, n |-> n]}
      /\ oom' = 0 /\ UNCHANGED <<heap, alive>>
      /\ pool' = IF c = 1 THEN [p EXCEPT !.begin_free = @ + c * size]
                 ELSE [[p EXCEPT !.begin_free = @ + c * size]
                          EXCEPT !.free_lists[i] = others]
  BY DEF refill, Carve, Returns
<1>4. c \in Nat \ {0} /\ c * size <= left_size(p) /\ c * size \in Nat
  <2>1. CASE left_size(p) >= size * Objs
    <3>1. Objs \in Nat \ {0}
      BY MemPoolAssumption
    <3>2. Objs * size = size * Objs /\ Objs * size \in Nat
      BY <1>1, <3>1
    <3> QED BY <2>1, <3>1, <3>2
  <2>2. CASE ~(left_size(p) >= size * Objs)
    <3> DEFINE d == left_size(p) \div size
    <3>1. d \in Nat /\ d * size <= left_size(p) /\ left_size(p) < d * size + size
      BY <1>1, <1>2, Division
    <3> HIDE DEF d
    <3>2. d # 0
      BY <1>1, <1>2, <3>1
    <3>3. c = d
      BY <2>2 DEF d
    <3>4. d * size \in Nat
      BY <1>1, <3>1
    <3> HIDE DEF c
    <3> QED BY <3>1, <3>2, <3>3, <3>4
  <2> QED BY <2>1, <2>2
<1> HIDE DEF size, c
<1>5. others \in Seq(Nat) /\ Len(others) = c - 1
  <2>1. \A k \in 1 .. c - 1 : k * size \in Nat
    BY <1>1, <1>4
  <2>2. others \in [1 .. c - 1 -> Nat] /\ c - 1 \in Nat
    BY <1>2, <1>4, <2>1
  <2> QED BY <2>2
<1>6. c = 1 => others = <<>>
  BY <1>5
<1> HIDE DEF others
<1>7. /\ pool'.free_lists = [p.free_lists EXCEPT ![i] = others]
      /\ pool'.begin_free = p.begin_free + c * size
      /\ pool'.end_free = p.end_free /\ pool'.heap_size = p.heap_size
      /\ pool'.allocated_area = p.allocated_area
      /\ pool' = [free_lists |-> pool'.free_lists, begin_free |-> pool'.begin_free,
                  end_free |-> pool'.end_free, heap_size |-> pool'.heap_size,
                  allocated_area |-> pool'.allocated_area]
  <2>0. p \in [free_lists : [kFreeLists -> Seq(Nat)], begin_free : Nat, end_free : Nat,
               heap_size : Nat, allocated_area : SUBSET Nat]
    BY DEF PoolOK
  <2>1. CASE c = 1
    <3>1. pool' = [p EXCEPT !.begin_free = @ + c * size]
      BY <1>3, <2>1
    <3>2. [p.free_lists EXCEPT ![i] = others] = p.free_lists
      BY <1>1, <1>2, <1>6, <2>1
    <3> QED BY <2>0, <3>1, <3>2
  <2>2. CASE c # 1
    <3>1. pool' = [[p EXCEPT !.begin_free = @ + c * size] EXCEPT !.free_lists[i] = others]
      BY <1>3, <2>2
    <3> QED BY <2>0, <3>1
  <2> QED BY <2>1, <2>2
<1>8. PoolOK(pool')
  <2>1. pool'.free_lists \in [kFreeLists -> Seq(Nat)]
    BY <1>1, <1>2, <1>5, <1>7
  <2>2. pool'.begin_free \in Nat /\ pool'.begin_free <= pool'.end_free
    BY <1>2, <1>4, <1>7
  <2>3. Aligned(left_size(pool'))
    <3>1. left_size(pool') = left_size(p) - c * size
      BY <1>2, <1>4, <1>7 DEF left_size
    <3>2. Aligned(c * size)
      BY <1>1, <1>4, AlignedFacts
    <3> QED BY <1>2, <1>4, <3>1, <3>2, AlignedFacts
  <2>4. /\ pool'.end_free \in Nat /\ pool'.heap_size \in Nat
        /\ pool'.allocated_area \subseteq Nat
    BY <1>7, PoolFacts
  <2> QED BY <1>7, <2>1, <2>2, <2>3, <2>4 DEF PoolOK
<1> QED BY <1>3, <1>4, <1>7, <1>8 DEF others, size

LEMMA ConsFacts ==
    ASSUME NEW s \in Seq(Nat), NEW a \in Nat
    PROVE  /\ <<a>> \o s \in Seq(Nat) /\ Len(<<a>> \o s) = Len(s) + 1
           /\ (<<a>> \o s)[1] = a
           /\ \A k \in 2 .. Len(s) + 1 : (<<a>> \o s)[k] = s[k - 1]
<1>1. <<a>> \in Seq(Nat) /\ Len(<<a>>) = 1 /\ <<a>>[1] = a
  OBVIOUS
<1>2. /\ <<a>> \o s \in Seq(Nat) /\ Len(<<a>> \o s) = Len(<<a>>) + Len(s)
      /\ \A k \in 1 .. Len(<<a>>) + Len(s) :
            (<<a>> \o s)[k] = IF k <= Len(<<a>>) THEN <<a>>[k] ELSE s[k - Len(<<a>>)]
  BY <1>1, ConcatProperties
<1>3. Len(s) \in Nat
  OBVIOUS
<1>4. (<<a>> \o s)[1] = a
  BY <1>1, <1>2, <1>3
<1>5. \A k \in 2 .. Len(s) + 1 : (<<a>> \o s)[k] = s[k - 1]
  BY <1>1, <1>2, <1>3
<1> QED BY <1>1, <1>2, <1>3, <1>4, <1>5

\* The lists of q are those of p with one more block, at a, in front of list i.
Pushed(p, q, i, a) == q.free_lists = [p.free_lists EXCEPT ![i] = <<a>> \o p.free_lists[i]]

LEMMA PushFacts ==
    ASSUME NEW p, PoolOK(p), NEW a \in Nat, NEW n \in Nat \ {0}, n <= kMax_Bytes
    PROVE  LET q == PushBlock(p, a, n)
               i == GET_FREELIST_INDEX(n) IN
           /\ PoolOK(q) /\ i \in kFreeLists
           /\ Pushed(p, q, i, a)
           /\ q.begin_free = p.begin_free /\ q.end_free = p.end_free
           /\ q.heap_size = p.heap_size /\ q.allocated_area = p.allocated_area
<1> DEFINE q == PushBlock(p, a, n)
           i == GET_FREELIST_INDEX(n)
<1>1. i \in kFreeLists
  BY RoundFacts
<1>2. p \in [free_lists : [kFreeLists -> Seq(Nat)], begin_free : Nat, end_free : Nat,
             heap_size : Nat, allocated_area : SUBSET Nat]
  BY DEF PoolOK
<1>3. <<a>> \o p.free_lists[i] \in Seq(Nat)
  BY <1>1, <1>2, ConsFacts
<1>4. q = [p EXCEPT !.free_lists[i] = <<a>> \o p.free_lists[i]]
  BY DEF PushBlock
<1> HIDE DEF q, i
<1>5. /\ q.free_lists = [p.free_lists EXCEPT ![i] = <<a>> \o p.free_lists[i]]
      /\ q.begin_free = p.begin_free /\ q.end_free = p.end_free
      /\ q.heap_size = p.heap_size /\ q.allocated_area = p.allocated_area
      /\ q = [p EXCEPT !.free_lists = q.free_lists]
  BY <1>2, <1>4
<1>6. q.free_lists \in [kFreeLists -> Seq(Nat)]
  BY <1>1, <1>2, <1>3, <1>5
<1>7. q \in [free_lists : [kFreeLists -> Seq(Nat)], begin_free : Nat, end_free : Nat,
             heap_size : Nat, allocated_area : SUBSET Nat]
  BY <1>2, <1>5, <1>6
<1>8. PoolOK(q)
  BY <1>5, <1>7, PoolFacts DEF PoolOK, left_size
<1> QED BY <1>1, <1>5, <1>8 DEF q, i, Pushed

\* The residual space is aligned and smaller than the block that was asked
\* for: it fits its list exactly, and that is not the list of the request.
LEMMA SalvageFacts ==
    ASSUME NEW p, PoolOK(p), NEW n \in Nat \ {0}, n <= kMax_Bytes,
           left_size(p) < ROUND_UP(n)
    PROVE  LET q == Salvage(p)
               j == GET_FREELIST_INDEX(left_size(p)) IN
           /\ PoolOK(q) /\ q.begin_free = p.begin_free /\ q.end_free = p.end_free
           /\ q.heap_size = p.heap_size /\ q.allocated_area = p.allocated_area
           /\ q.free_lists[GET_FREELIST_INDEX(n)] = p.free_lists[GET_FREELIST_INDEX(n)]
           /\ left_size(p) = 0 => q = p
           /\ left_size(p) # 0 =>
                /\ j \in kFreeLists /\ (j + 1) * kALIGN = left_size(p)
                /\ Pushed(p, q, j, p.begin_free)
<1> DEFINE q == Salvage(p)
           l == left_size(p)
           j == GET_FREELIST_INDEX(l)
           i == GET_FREELIST_INDEX(n)
<1>1. l \in Nat /\ Aligned(l) /\ p.begin_free \in Nat
      /\ p.free_lists \in [kFreeLists -> Seq(Nat)]
  BY PoolFacts
<1>2. CASE l = 0
  <2>1. q = p
    BY <1>2 DEF Salvage
  <2> QED BY <1>2, <2>1
<1>3. CASE l # 0
  <2>1. /\ i \in Nat /\ i \in kFreeLists /\ ROUND_UP(n) = (i + 1) * kALIGN
        /\ ROUND_UP(n) <= kMax_Bytes /\ ROUND_UP(n) \in Nat
    BY RoundFacts
  <2>2. l \in Nat \ {0} /\ l <= kMax_Bytes /\ l > 0
    BY <1>1, <1>3, <2>1, MemPoolAssumption
  <2>3. (j + 1) * kALIGN = l /\ j \in Nat /\ j \in kFreeLists
    BY <1>1, <2>2, RoundAligned, RoundFacts
  <2>4. j < i
    BY <2>1, <2>3, ListSizes
  <2>5. q = PushBlock(p, p.begin_free, l)
    BY <2>2 DEF Salvage
  <2>6. /\ PoolOK(q) /\ Pushed(p, q, j, p.begin_free)
        /\ q.begin_free = p.begin_free /\ q.end_free = p.end_free
        /\ q.heap_size = p.heap_size /\ q.allocated_area = p.allocated_area
    <3>1. \A a \in Nat, m \in Nat \ {0} : m <= kMax_Bytes =>
             LET r == PushBlock(p, a, m) IN
                /\ PoolOK(r) /\ Pushed(p, r, GET_FREELIST_INDEX(m), a)
                /\ r.begin_free = p.begin_free /\ r.end_free = p.end_free
                /\ r.heap_size = p.heap_size /\ r.allocated_area = p.allocated_area
      BY PushFacts
    <3> HIDE DEF l, q
    <3> QED BY <1>1, <2>2, <2>5, <3>1
  <2>7. q.free_lists[i] = p.free_lists[i]
    BY <1>1, <2>1, <2>4, <2>6 DEF Pushed
  <2> HIDE DEF q, l, i, j
  <2> QED BY <1>3, <2>3, <2>6, <2>7 DEF q, l, i, j
<1> QED BY <1>2, <1>3

LEMMA BytesToGetFacts ==
    ASSUME NEW p, PoolOK(p), NEW n \in Nat \ {0}
    PROVE  LET b == BytesToGet(p, ROUND_UP(n)) IN
           b \in Nat /\ Aligned(b) /\ ROUND_UP(n) <= b /\ b > 0
<1> DEFINE size == ROUND_UP(n)
           h == ROUND_UP(p.heap_size \div 16)
<1>1. size \in Nat \ {0} /\ Aligned(size)
  BY RoundFacts
<1>2. Aligned(h)
  <2>1. p.heap_size \div 16 \in Nat
    BY PoolFacts
  <2> DEFINE d == (p.heap_size \div 16 + kALIGN - 1) \div kALIGN
  <2>2. p.heap_size \div 16 + kALIGN - 1 \in Nat /\ kALIGN \in Nat \ {0}
    BY <2>1, MemPoolAssumption
  <2>3. d \in Nat
    BY <2>2, Division
  <2>4. h = d * kALIGN
    BY DEF ROUND_UP
  <2> QED BY <2>3, <2>4 DEF Aligned
<1>3. Objs \in Nat \ {0}
  BY MemPoolAssumption
<1>4. BytesToGet(p, size) = (2 * size) * Objs + h
  BY DEF BytesToGet
<1> HIDE DEF size, h
<1>5. /\ (2 * size) * Objs = (2 * Objs) * size /\ 2 * Objs \in Nat
      /\ (2 * Objs) * size >= size /\ (2 * Objs) * size \in Nat
  <2>1. (2 * size) * Objs = (2 * Objs) * size
    BY <1>1, <1>3
  <2>2. (2 * Objs) * size = size + (2 * Objs - 1) * size
    BY <1>1, <1>3
  <2>3. (2 * Objs - 1) * size \in Nat
    BY <1>1, <1>3
  <2> QED BY <1>1, <1>3, <2>1, <2>2, <2>3
<1>6. Aligned((2 * Objs) * size + h) /\ h \in Nat
  BY <1>1, <1>2, <1>5, AlignedFacts
<1>7. BytesToGet(p, size) = (2 * Objs) * size + h
  BY <1>4, <1>5
<1> DEFINE w == (2 * Objs) * size
<1>8. w + h >= size /\ w + h > 0 /\ w + h \in Nat
  <2>1. w >= size /\ w \in Nat
    BY <1>5
  <2> HIDE DEF w
  <2> QED BY <1>1, <1>6, <2>1
<1> QED BY <1>6, <1>7, <1>8 DEF size

\* A pool whose space is replaced.
Respaced(p, q, a, bytes, h, A) ==
    q = [p EXCEPT !.begin_free = a, !.end_free = a + bytes,
                  !.heap_size = h, !.allocated_area = A]

LEMMA NewSpaceOK ==
    ASSUME NEW p, PoolOK(p), NEW a \in Nat, NEW bytes, Aligned(bytes),
           NEW h \in Nat, NEW A \in SUBSET Nat, NEW q, Respaced(p, q, a, bytes, h, A)
    PROVE  /\ PoolOK(q) /\ q.free_lists = p.free_lists /\ left_size(q) = bytes
           /\ q.begin_free = a /\ q.end_free = a + bytes /\ q.allocated_area = A
<1>1. p \in [free_lists : [kFreeLists -> Seq(Nat)], begin_free : Nat, end_free : Nat,
             heap_size : Nat, allocated_area : SUBSET Nat]
  BY DEF PoolOK
<1>2. bytes \in Nat
  BY AlignedFacts
<1>3. /\ q \in [free_lists : [kFreeLists -> Seq(Nat)], begin_free : Nat, end_free : Nat,
                heap_size : Nat, allocated_area : SUBSET Nat]
      /\ q.free_lists = p.free_lists /\ q.begin_free = a /\ q.end_free = a + bytes
      /\ q.allocated_area = A
  <2>1. a + bytes \in Nat
    BY <1>2
  <2> DEFINE e == a + bytes
  <2> HIDE DEF e
  <2>2. q = [p EXCEPT !.begin_free = a, !.end_free = e, !.heap_size = h,
                      !.allocated_area = A]
    BY DEF e, Respaced
  <2>3. /\ q.free_lists = p.free_lists /\ q.begin_free = a /\ q.end_free = e
        /\ q.heap_size = h /\ q.allocated_area = A
        /\ q = [free_lists |-> q.free_lists, begin_free |-> q.begin_free,
                end_free |-> q.end_free, heap_size |-> q.heap_size,
                allocated_area |-> q.allocated_area]
    BY <1>1, <2>2
  <2>4. p.free_lists \in [kFreeLists -> Seq(Nat)] /\ e \in Nat
    BY <1>1, <2>1 DEF e
  <2>5. q \in [free_lists : [kFreeLists -> Seq(Nat)], begin_free : Nat, end_free : Nat,
               heap_size : Nat, allocated_area : SUBSET Nat]
    BY <2>3, <2>4
  <2> QED BY <2>3, <2>5 DEF e
<1>4. q.begin_free <= q.end_free /\ left_size(q) = bytes
  BY <1>2, <1>3 DEF left_size
<1> QED BY <1>3, <1>4 DEF PoolOK

-----------------------------------------------------------------------------
(* The pieces of the areas.                                                *)

LEMMA PieceFacts ==
    ASSUME NEW p, PoolOK(p), NEW L, NEW x
    PROVE  /\ x \in Listed(p) <=> \E i \in kFreeLists :
                 \E k \in 1 .. Len(p.free_lists[i]) : x = <<"list", i, k>>
           /\ x \in Pieces(p, L) <=>
                 \/ \E b \in L : b.n <= kMax_Bytes /\ x = <<"live", b>>
                 \/ x \in Listed(p)
                 \/ x = <<"space">>
<1>1. \A i \in kFreeLists : DOMAIN p.free_lists[i] = 1 .. Len(p.free_lists[i])
  BY PoolFacts
<1> QED BY <1>1 DEF Listed, Pieces, Free, InUse

LEMMA HeldIs ==
    ASSUME NEW p
    PROVE  /\ \A b : Held(p, <<"live", b>>) = Bytes(b.ptr, ROUND_UP(b.n))
           /\ \A i, k : Held(p, <<"list", i, k>>) =
                 Bytes(p.free_lists[i][k], (i + 1) * kALIGN)
           /\ Held(p, <<"space">>) = Bytes(p.begin_free, left_size(p))
<1>1. \A b : /\ <<"live", b>>[1] = "live" /\ <<"live", b>>[2] = b
  OBVIOUS
<1>2. \A i, k : /\ <<"list", i, k>>[1] = "list" /\ <<"list", i, k>>[2] = i
                /\ <<"list", i, k>>[3] = k
  OBVIOUS
<1>3. <<"space">>[1] = "space"
  OBVIOUS
<1>4. ASSUME NEW b PROVE Held(p, <<"live", b>>) = Bytes(b.ptr, ROUND_UP(b.n))
  <2>1. First(p, <<"live", b>>) = b.ptr /\ Size(p, <<"live", b>>) = ROUND_UP(b.n)
    BY <1>1 DEF First, Size
  <2> QED BY <2>1 DEF Held
<1>5. ASSUME NEW i, NEW k
      PROVE  Held(p, <<"list", i, k>>) = Bytes(p.free_lists[i][k], (i + 1) * kALIGN)
  <2>1. /\ First(p, <<"list", i, k>>) = p.free_lists[i][k]
        /\ Size(p, <<"list", i, k>>) = (i + 1) * kALIGN
    BY <1>2 DEF First, Size
  <2> QED BY <2>1 DEF Held
<1>6. Held(p, <<"space">>) = Bytes(p.begin_free, left_size(p))
  <2>1. First(p, <<"space">>) = p.begin_free /\ Size(p, <<"space">>) = left_size(p)
    BY <1>3 DEF First, Size
  <2> QED BY <2>1 DEF Held
<1> QED BY <1>4, <1>5, <1>6

LEMMA BytesFacts ==
    /\ \A a \in Nat : Bytes(a, 0) = {}
    /\ \A a \in Nat, n \in Nat :
          \A x : x \in Bytes(a, n) <=> x \in Nat /\ a <= x /\ x < a + n
  BY DEF Bytes

\* The pieces of q lie in those of p, each where m says, and fill them.
LEMMA Repartition ==
    ASSUME NEW p, NEW L, NEW q, NEW M, NEW bytes, Tiles(p, L, bytes), NEW m,
           \A y \in Pieces(q, M) :
              m[y] \in Pieces(p, L) /\ Held(q, y) \subseteq Held(p, m[y]),
           \A y, z \in Pieces(q, M) :
              y # z /\ m[y] = m[z] => Held(q, y) \cap Held(q, z) = {},
           \A x \in Pieces(p, L) : \A a \in Held(p, x) :
              \E y \in Pieces(q, M) : a \in Held(q, y)
    PROVE  Tiles(q, M, bytes)
<1>1. /\ UNION {Held(p, x) : x \in Pieces(p, L)} = bytes
      /\ \A x, y \in Pieces(p, L) : x # y => Held(p, x) \cap Held(p, y) = {}
  BY DEF Tiles
<1>2. UNION {Held(q, y) : y \in Pieces(q, M)} = bytes
  BY <1>1
<1>3. ASSUME NEW y \in Pieces(q, M), NEW z \in Pieces(q, M), y # z
      PROVE  Held(q, y) \cap Held(q, z) = {}
  <2>1. CASE m[y] = m[z]
    BY <1>3, <2>1
  <2>2. CASE m[y] # m[z]
    BY <1>1, <2>2
  <2> QED BY <2>1, <2>2
<1> QED BY <1>2, <1>3 DEF Tiles

LEMMA ListedIs ==
    ASSUME NEW p, PoolOK(p), NEW x \in Listed(p)
    PROVE  \E i, k : /\ i \in kFreeLists /\ k \in 1 .. Len(p.free_lists[i])
                    /\ x = <<"list", i, k>>
                    /\ i \in Nat /\ k \in Nat /\ k >= 1
<1>1. PICK i \in kFreeLists : \E k \in 1 .. Len(p.free_lists[i]) : x = <<"list", i, k>>
  BY PieceFacts
<1>2. PICK k \in 1 .. Len(p.free_lists[i]) : x = <<"list", i, k>>
  BY <1>1
<1>3. i \in Nat /\ k \in Nat /\ k >= 1
  BY PoolFacts
<1> QED BY <1>2, <1>3

\* The lists of q are those of p without the first block of list i.
Popped(p, q, i) == q.free_lists = [p.free_lists EXCEPT ![i] = Tail(p.free_lists[i])]

\* The first block of list i becomes the piece y0, which is in use or the space.
LEMMA TakeHead ==
    ASSUME NEW p, PoolOK(p), NEW L, NEW q, PoolOK(q), NEW M, NEW bytes, Tiles(p, L, bytes),
           NEW i \in kFreeLists, p.free_lists[i] # <<>>,
           Popped(p, q, i),
           NEW y0 \in Pieces(q, M) \ Listed(q), Held(q, y0) = Held(p, <<"list", i, 1>>),
           \A y \in Pieces(q, M) \ Listed(q) :
              y # y0 => y \in Pieces(p, L) \ Listed(p) /\ Held(q, y) \subseteq Held(p, y),
           \A x \in Pieces(p, L) \ Listed(p) :
              x \in Pieces(q, M) /\ Held(p, x) \subseteq Held(q, x)
    PROVE  Tiles(q, M, bytes)
<1> DEFINE Older(y) == IF y = y0 THEN <<"list", i, 1>>
                       ELSE IF y \in Listed(q) /\ y[2] = i THEN <<"list", i, y[3] + 1>>
                       ELSE y
           m == [y \in Pieces(q, M) |-> Older(y)]
           n == Len(p.free_lists[i])
<1>1. /\ p.free_lists[i] \in Seq(Nat) /\ n \in Nat \ {0}
      /\ Len(q.free_lists[i]) = n - 1
      /\ \A k \in 1 .. n - 1 : q.free_lists[i][k] = p.free_lists[i][k + 1]
      /\ \A j \in kFreeLists : j # i => q.free_lists[j] = p.free_lists[j]
      /\ \A j \in kFreeLists : Len(p.free_lists[j]) \in Nat
  <2>1. p.free_lists[i] \in Seq(Nat) /\ p.free_lists \in [kFreeLists -> Seq(Nat)]
        /\ \A j \in kFreeLists : Len(p.free_lists[j]) \in Nat
    BY PoolFacts
  <2>2. n \in Nat \ {0}
    BY <2>1, EmptySeq
  <2>3. /\ q.free_lists[i] = Tail(p.free_lists[i])
        /\ \A j \in kFreeLists : j # i => q.free_lists[j] = p.free_lists[j]
    BY <2>1 DEF Popped
  <2>4. /\ Len(Tail(p.free_lists[i])) = n - 1
        /\ \A k \in 1 .. n - 1 : Tail(p.free_lists[i])[k] = p.free_lists[i][k + 1]
    BY <2>1, HeadTailProperties
  <2> QED BY <2>1, <2>2, <2>3, <2>4
\* Where each list block of q was.
<1> DEFINE Old(j, k) == <<"list", j, IF j = i THEN k + 1 ELSE k>>
<1>2. ASSUME NEW j \in kFreeLists, NEW k \in 1 .. Len(q.free_lists[j])
      PROVE  /\ Old(j, k) \in Listed(p) /\ <<"list", j, k>> \in Listed(q)
             /\ Held(q, <<"list", j, k>>) = Held(p, Old(j, k))
             /\ m[<<"list", j, k>>] = Old(j, k)
  <2> DEFINE l == IF j = i THEN k + 1 ELSE k
  <2>1. l \in 1 .. Len(p.free_lists[j]) /\ q.free_lists[j][k] = p.free_lists[j][l]
    <3>1. CASE j = i
      BY <1>1, <3>1
    <3>2. CASE j # i
      BY <1>1, <3>2
    <3> QED BY <3>1, <3>2
  <2>2. <<"list", j, l>> \in Listed(p) /\ <<"list", j, k>> \in Listed(q)
    BY <2>1, PieceFacts
  <2>3. Held(q, <<"list", j, k>>) = Held(p, <<"list", j, l>>)
    <3>1. Held(q, <<"list", j, k>>) = Bytes(q.free_lists[j][k], (j + 1) * kALIGN)
      BY HeldIs
    <3> HIDE DEF l
    <3>2. Held(p, <<"list", j, l>>) = Bytes(p.free_lists[j][l], (j + 1) * kALIGN)
      BY HeldIs
    <3> QED BY <2>1, <3>1, <3>2
  <2>4. <<"list", j, k>> \in Pieces(q, M) /\ <<"list", j, k>> # y0
    BY <2>2, PieceFacts
  <2>5. m[<<"list", j, k>>] = <<"list", j, l>>
    <3>1. <<"list", j, k>>[2] = j /\ <<"list", j, k>>[3] = k
      OBVIOUS
    <3> QED BY <2>2, <2>4, <3>1
  <2> QED BY <2>2, <2>3, <2>5
<1>3. <<"list", i, 1>> \in Listed(p)
  BY <1>1, PieceFacts
<1>4. m[y0] = <<"list", i, 1>>
  OBVIOUS
<1>5. \A y \in Pieces(q, M) \ Listed(q) : y # y0 => m[y] = y
  OBVIOUS
<1>6. Listed(p) \subseteq Pieces(p, L) /\ Listed(q) \subseteq Pieces(q, M)
  BY PieceFacts
<1> HIDE DEF m
<1>7. ASSUME NEW y \in Pieces(q, M)
      PROVE  m[y] \in Pieces(p, L) /\ Held(q, y) \subseteq Held(p, m[y])
  <2>1. CASE y = y0
    BY <1>3, <1>4, <1>6, <2>1
  <2>2. CASE y # y0 /\ y \notin Listed(q)
    BY <1>5, <2>2
  <2>3. CASE y \in Listed(q)
    <3>1. PICK j, k : /\ j \in kFreeLists /\ k \in 1 .. Len(q.free_lists[j])
                      /\ y = <<"list", j, k>>
      BY <2>3, ListedIs
    <3> HIDE DEF Old
    <3> QED BY <1>2, <1>6, <3>1
  <2> QED BY <2>1, <2>2, <2>3
\* No two pieces of q were one piece of p.
<1>8. ASSUME NEW y \in Pieces(q, M), NEW z \in Pieces(q, M), m[y] = m[z] PROVE y = z
  <2>1. ASSUME NEW u \in Listed(q)
        PROVE  \E j, k : /\ u = <<"list", j, k>> /\ j \in Nat /\ k \in Nat
                         /\ m[u] = Old(j, k) /\ m[u] \in Listed(p)
                         /\ m[u] # <<"list", i, 1>>
    <3>1. PICK j, k : /\ j \in kFreeLists /\ k \in 1 .. Len(q.free_lists[j])
                      /\ u = <<"list", j, k>> /\ j \in Nat /\ k \in Nat /\ k >= 1
      BY ListedIs
    <3>2. m[u] = Old(j, k) /\ m[u] \in Listed(p)
      <4> HIDE DEF Old
      <4> QED BY <1>2, <3>1
    <3>3. m[u] # <<"list", i, 1>>
      BY <3>1, <3>2
    <3> HIDE DEF Old
    <3> QED BY <3>1, <3>2, <3>3
  <2>2. CASE y \in Listed(q) /\ z \in Listed(q)
    <3>1. PICK j, k : /\ y = <<"list", j, k>> /\ j \in Nat /\ k \in Nat
                      /\ m[y] = Old(j, k)
      BY <2>1, <2>2
    <3>2. PICK g, h : /\ z = <<"list", g, h>> /\ g \in Nat /\ h \in Nat
                      /\ m[z] = Old(g, h)
      BY <2>1, <2>2
    <3>3. j = g /\ (IF j = i THEN k + 1 ELSE k) = (IF g = i THEN h + 1 ELSE h)
      BY <1>8, <3>1, <3>2
    <3> QED BY <3>1, <3>2, <3>3
  <2>3. CASE y \notin Listed(q) /\ z \notin Listed(q)
    BY <1>3, <1>4, <1>5, <1>8, <2>3
  <2>4. CASE y \in Listed(q) /\ z \notin Listed(q)
    <3>1. m[y] \in Listed(p) /\ m[y] # <<"list", i, 1>>
      BY <2>1, <2>4
    <3> QED BY <1>3, <1>4, <1>5, <1>8, <2>4, <3>1
  <2>5. CASE y \notin Listed(q) /\ z \in Listed(q)
    <3>1. m[z] \in Listed(p) /\ m[z] # <<"list", i, 1>>
      BY <2>1, <2>5
    <3> QED BY <1>3, <1>4, <1>5, <1>8, <2>5, <3>1
  <2> QED BY <2>2, <2>3, <2>4, <2>5
<1>9. ASSUME NEW x \in Pieces(p, L), NEW a \in Held(p, x)
      PROVE  \E y \in Pieces(q, M) : a \in Held(q, y)
  <2>1. CASE x \notin Listed(p)
    BY <1>9, <2>1
  <2>2. CASE x \in Listed(p)
    <3>1. PICK j, l : /\ j \in kFreeLists /\ l \in 1 .. Len(p.free_lists[j])
                    /\ x = <<"list", j, l>>
      BY <2>2, ListedIs
    <3>2. CASE j = i /\ l = 1
      BY <1>9, <3>1, <3>2
    <3>3. CASE j = i /\ l # 1
      <4>1. l - 1 \in 1 .. Len(q.free_lists[j]) /\ l - 1 + 1 = l
        BY <1>1, <3>1, <3>3
      <4>2. Held(q, <<"list", j, l - 1>>) = Held(p, x) /\ <<"list", j, l - 1>> \in Listed(q)
        BY <1>2, <3>1, <3>3, <4>1
      <4> QED BY <1>6, <1>9, <4>2
    <3>4. CASE j # i
      <4>1. l \in 1 .. Len(q.free_lists[j])
        BY <1>1, <3>1, <3>4
      <4>2. Held(q, <<"list", j, l>>) = Held(p, x) /\ <<"list", j, l>> \in Listed(q)
        BY <1>2, <3>1, <3>4, <4>1
      <4> QED BY <1>6, <1>9, <4>2
    <3> QED BY <3>2, <3>3, <3>4
  <2> QED BY <2>1, <2>2
<1> QED BY <1>7, <1>8, <1>9, Repartition

\* The piece x0, which was in use or the space, becomes the first of list i.
LEMMA PushHead ==
    ASSUME NEW p, PoolOK(p), NEW L, NEW q, PoolOK(q), NEW M, NEW bytes, Tiles(p, L, bytes),
           NEW i \in kFreeLists, NEW a \in Nat, Pushed(p, q, i, a),
           NEW x0 \in Pieces(p, L) \ Listed(p), Bytes(a, (i + 1) * kALIGN) = Held(p, x0),
           \A y \in Pieces(q, M) \ Listed(q) :
              /\ y \in Pieces(p, L) \ Listed(p) /\ Held(q, y) \subseteq Held(p, y)
              /\ y = x0 => Held(q, y) = {},
           \A x \in Pieces(p, L) \ Listed(p) :
              x # x0 => x \in Pieces(q, M) /\ Held(p, x) \subseteq Held(q, x)
    PROVE  Tiles(q, M, bytes)
<1> DEFINE Older(y) == IF y \in Listed(q) /\ y[2] = i
                       THEN IF y[3] = 1 THEN x0 ELSE <<"list", i, y[3] - 1>>
                       ELSE y
           m == [y \in Pieces(q, M) |-> Older(y)]
           n == Len(p.free_lists[i])
           Old(j, k) == IF j = i THEN IF k = 1 THEN x0 ELSE <<"list", i, k - 1>>
                        ELSE <<"list", j, k>>
<1>1. /\ n \in Nat /\ Len(q.free_lists[i]) = n + 1 /\ q.free_lists[i][1] = a
      /\ \A k \in 2 .. n + 1 : q.free_lists[i][k] = p.free_lists[i][k - 1]
      /\ \A j \in kFreeLists : j # i => q.free_lists[j] = p.free_lists[j]
      /\ \A j \in kFreeLists : Len(p.free_lists[j]) \in Nat
  <2>1. p.free_lists[i] \in Seq(Nat) /\ p.free_lists \in [kFreeLists -> Seq(Nat)]
        /\ \A j \in kFreeLists : Len(p.free_lists[j]) \in Nat
    BY PoolFacts
  <2>2. /\ q.free_lists[i] = <<a>> \o p.free_lists[i]
        /\ \A j \in kFreeLists : j # i => q.free_lists[j] = p.free_lists[j]
    BY <2>1 DEF Pushed
  <2> QED BY <2>1, <2>2, ConsFacts
<1>2. ASSUME NEW j \in kFreeLists, NEW k \in 1 .. Len(q.free_lists[j])
      PROVE  /\ <<"list", j, k>> \in Listed(q) /\ Old(j, k) \in Pieces(p, L)
             /\ Held(q, <<"list", j, k>>) = Held(p, Old(j, k))
             /\ m[<<"list", j, k>>] = Old(j, k)
             /\ Old(j, k) = x0 => j = i /\ k = 1
  <2>1. <<"list", j, k>> \in Listed(q) /\ <<"list", j, k>> \in Pieces(q, M)
    BY PieceFacts
  <2>2. m[<<"list", j, k>>] = Old(j, k)
    <3>1. <<"list", j, k>>[2] = j /\ <<"list", j, k>>[3] = k
      OBVIOUS
    <3> QED BY <2>1, <3>1
  <2>3. Held(q, <<"list", j, k>>) = Bytes(q.free_lists[j][k], (j + 1) * kALIGN)
    BY HeldIs
  <2>4. CASE j = i /\ k = 1
    <3>1. Old(j, k) = x0 /\ q.free_lists[j][k] = a
      BY <1>1, <2>4
    <3> HIDE DEF m, Old
    <3> QED BY <2>1, <2>2, <2>3, <2>4, <3>1
  <2>5. CASE ~(j = i /\ k = 1)
    <3> DEFINE l == IF j = i THEN k - 1 ELSE k
    <3>1. Old(j, k) = <<"list", j, l>>
      BY <2>5
    <3>2. l \in 1 .. Len(p.free_lists[j]) /\ q.free_lists[j][k] = p.free_lists[j][l]
      <4>1. CASE j = i
        BY <1>1, <2>5, <4>1
      <4>2. CASE j # i
        BY <1>1, <4>2
      <4> QED BY <4>1, <4>2
    <3>3. <<"list", j, l>> \in Listed(p) /\ <<"list", j, l>> \in Pieces(p, L)
      BY <3>2, PieceFacts
    <3> HIDE DEF l, m, Old
    <3>4. Held(p, <<"list", j, l>>) = Bytes(p.free_lists[j][l], (j + 1) * kALIGN)
      BY HeldIs
    <3> QED BY <2>1, <2>2, <2>3, <3>1, <3>2, <3>3, <3>4
  <2> QED BY <2>4, <2>5
<1>3. \A y \in Pieces(q, M) \ Listed(q) : m[y] = y
  OBVIOUS
<1>4. Listed(p) \subseteq Pieces(p, L) /\ Listed(q) \subseteq Pieces(q, M)
  BY PieceFacts
<1> HIDE DEF m
<1>5. ASSUME NEW y \in Pieces(q, M)
      PROVE  m[y] \in Pieces(p, L) /\ Held(q, y) \subseteq Held(p, m[y])
  <2>1. CASE y \notin Listed(q)
    BY <1>3, <2>1
  <2>2. CASE y \in Listed(q)
    <3>1. PICK j, k : /\ j \in kFreeLists /\ k \in 1 .. Len(q.free_lists[j])
                      /\ y = <<"list", j, k>>
      BY <2>2, ListedIs
    <3> HIDE DEF Old
    <3> QED BY <1>2, <3>1
  <2> QED BY <2>1, <2>2
<1>6. ASSUME NEW u \in Listed(q)
      PROVE  \E j, k : /\ u = <<"list", j, k>> /\ j \in Nat /\ k \in Nat /\ k >= 1
                       /\ m[u] = Old(j, k) /\ (m[u] = x0 => j = i /\ k = 1)
                       /\ m[u] # x0 => m[u] \in Listed(p)
  <2>1. PICK j, k : /\ j \in kFreeLists /\ k \in 1 .. Len(q.free_lists[j])
                    /\ u = <<"list", j, k>> /\ j \in Nat /\ k \in Nat /\ k >= 1
    BY ListedIs
  <2>2. m[u] = Old(j, k) /\ (m[u] = x0 => j = i /\ k = 1) /\ m[u] \in Pieces(p, L)
    <3> HIDE DEF Old
    <3> QED BY <1>2, <2>1
  <2>3. m[u] # x0 => m[u] \in Listed(p)
    <3>1. ASSUME m[u] # x0 PROVE m[u] \in Listed(p)
      <4>1. CASE j = i
        <5>1. k # 1 /\ m[u] = <<"list", j, k - 1>>
          BY <2>2, <3>1, <4>1
        <5>2. k - 1 \in 1 .. Len(p.free_lists[j])
          BY <1>1, <2>1, <4>1, <5>1
        <5> QED BY <2>1, <5>1, <5>2, PieceFacts
      <4>2. CASE j # i
        <5>1. m[u] = <<"list", j, k>> /\ k \in 1 .. Len(p.free_lists[j])
          BY <1>1, <2>1, <2>2, <4>2
        <5> QED BY <2>1, <5>1, PieceFacts
      <4> QED BY <4>1, <4>2
    <3> QED BY <3>1
  <2> HIDE DEF Old
  <2> QED BY <2>1, <2>2, <2>3
<1>7. ASSUME NEW y \in Pieces(q, M), NEW z \in Pieces(q, M), y # z, m[y] = m[z]
      PROVE  Held(q, y) \cap Held(q, z) = {}
  <2>1. CASE y \in Listed(q) /\ z \in Listed(q)
    <3>1. PICK j, k : /\ y = <<"list", j, k>> /\ j \in Nat /\ k \in Nat /\ k >= 1
                      /\ m[y] = Old(j, k) /\ (m[y] = x0 => j = i /\ k = 1)
      BY <1>6, <2>1
    <3>2. PICK g, h : /\ z = <<"list", g, h>> /\ g \in Nat /\ h \in Nat /\ h >= 1
                      /\ m[z] = Old(g, h) /\ (m[z] = x0 => g = i /\ h = 1)
      BY <1>6, <2>1
    <3>3. CASE m[y] = x0
      BY <1>7, <3>1, <3>2, <3>3
    <3>4. CASE m[y] # x0
      <4>1. /\ m[y] = <<"list", j, IF j = i THEN k - 1 ELSE k>>
            /\ m[z] = <<"list", g, IF g = i THEN h - 1 ELSE h>>
        BY <1>7, <3>1, <3>2, <3>4
      <4>2. j = g /\ (IF j = i THEN k - 1 ELSE k) = (IF g = i THEN h - 1 ELSE h)
        <5> DEFINE A == IF j = i THEN k - 1 ELSE k
                   B == IF g = i THEN h - 1 ELSE h
        <5>1. <<"list", j, A>> = <<"list", g, B>>
          BY <1>7, <4>1
        <5> HIDE DEF A, B
        <5>2. j = g /\ A = B
          BY <5>1
        <5> QED BY <5>2 DEF A, B
      <4>3. j = g /\ k = h
        BY <3>1, <3>2, <4>2
      <4> QED BY <1>7, <3>1, <3>2, <4>3
    <3> QED BY <3>3, <3>4
  <2>2. CASE y \notin Listed(q) /\ z \notin Listed(q)
    BY <1>3, <1>7, <2>2
  <2>3. CASE y \in Listed(q) /\ z \notin Listed(q)
    <3>1. m[z] = z /\ z \notin Listed(p)
      BY <1>3, <2>3
    <3>2. m[y] # x0 => m[y] \in Listed(p)
      BY <1>6, <2>3
    <3>3. m[y] = x0
      BY <1>7, <3>1, <3>2
    <3> QED BY <1>7, <2>3, <3>1, <3>3
  <2>4. CASE y \notin Listed(q) /\ z \in Listed(q)
    <3>1. m[y] = y /\ y \notin Listed(p)
      BY <1>3, <2>4
    <3>2. m[z] # x0 => m[z] \in Listed(p)
      BY <1>6, <2>4
    <3>3. m[z] = x0
      BY <1>7, <3>1, <3>2
    <3> QED BY <1>7, <2>4, <3>1, <3>3
  <2> QED BY <2>1, <2>2, <2>3, <2>4
<1>8. ASSUME NEW x \in Pieces(p, L), NEW b \in Held(p, x)
      PROVE  \E y \in Pieces(q, M) : b \in Held(q, y)
  <2>1. CASE x = x0
    <3>1. 1 \in 1 .. Len(q.free_lists[i]) /\ Old(i, 1) = x0
      BY <1>1
    <3>2. Held(q, <<"list", i, 1>>) = Held(p, x0) /\ <<"list", i, 1>> \in Listed(q)
      <4> HIDE DEF Old
      <4> QED BY <1>2, <3>1
    <3> QED BY <1>4, <1>8, <2>1, <3>2
  <2>2. CASE x # x0 /\ x \notin Listed(p)
    BY <1>8, <2>2
  <2>3. CASE x \in Listed(p)
    <3>1. PICK j, l : /\ j \in kFreeLists /\ l \in 1 .. Len(p.free_lists[j])
                      /\ x = <<"list", j, l>> /\ l \in Nat /\ l >= 1
      BY <2>3, ListedIs
    <3>2. CASE j = i
      <4>1. l + 1 \in 1 .. Len(q.free_lists[j]) /\ Old(j, l + 1) = x
        BY <1>1, <3>1, <3>2
      <4>2. Held(q, <<"list", j, l + 1>>) = Held(p, x) /\ <<"list", j, l + 1>> \in Listed(q)
        <5> HIDE DEF Old
        <5> QED BY <1>2, <3>1, <4>1
      <4> QED BY <1>4, <1>8, <4>2
    <3>3. CASE j # i
      <4>1. l \in 1 .. Len(q.free_lists[j]) /\ Old(j, l) = x
        BY <1>1, <3>1, <3>3
      <4>2. Held(q, <<"list", j, l>>) = Held(p, x) /\ <<"list", j, l>> \in Listed(q)
        <5> HIDE DEF Old
        <5> QED BY <1>2, <3>1, <4>1
      <4> QED BY <1>4, <1>8, <4>2
    <3> QED BY <3>2, <3>3
  <2> QED BY <2>1, <2>2, <2>3
<1> QED BY <1>5, <1>7, <1>8, Repartition

LEMMA NotListed ==
    ASSUME NEW p, PoolOK(p)
    PROVE  <<"space">> \notin Listed(p) /\ \A b : <<"live", b>> \notin Listed(p)
<1>1. \A x \in Listed(p) : x[1] = "list"
  <2>1. ASSUME NEW x \in Listed(p) PROVE x[1] = "list"
    <3>1. PICK i, k : x = <<"list", i, k>>
      BY ListedIs
    <3> QED BY <3>1
  <2> QED BY <2>1
<1>2. <<"space">>[1] = "space" /\ \A b : <<"live", b>>[1] = "live"
  OBVIOUS
<1> QED BY <1>1, <1>2

\* Every piece with the same place and lists in q holds the same bytes.
LEMMA SameHeld ==
    ASSUME NEW p, PoolOK(p), NEW q, q.free_lists = p.free_lists
    PROVE  /\ Listed(q) = Listed(p)
           /\ \A x \in Listed(p) : Held(q, x) = Held(p, x)
           /\ \A b : Held(q, <<"live", b>>) = Held(p, <<"live", b>>)
<1>1. Listed(q) = Listed(p)
  BY DEF Listed
<1>2. ASSUME NEW x \in Listed(p) PROVE Held(q, x) = Held(p, x)
  <2>1. PICK i, k : x = <<"list", i, k>>
    BY ListedIs
  <2>2. /\ Held(q, <<"list", i, k>>) = Bytes(q.free_lists[i][k], (i + 1) * kALIGN)
        /\ Held(p, <<"list", i, k>>) = Bytes(p.free_lists[i][k], (i + 1) * kALIGN)
    BY HeldIs
  <2> QED BY <2>1, <2>2
<1>3. ASSUME NEW b PROVE Held(q, <<"live", b>>) = Held(p, <<"live", b>>)
  <2>1. /\ Held(q, <<"live", b>>) = Bytes(b.ptr, ROUND_UP(b.n))
        /\ Held(p, <<"live", b>>) = Bytes(b.ptr, ROUND_UP(b.n))
    BY HeldIs
  <2> QED BY <2>1
<1> QED BY <1>1, <1>2, <1>3

\* A piece that is not in a list is in use or the space.
LEMMA Unlisted ==
    ASSUME NEW p, PoolOK(p), NEW L
    PROVE  \A x : x \in Pieces(p, L) \ Listed(p) <=>
              \/ \E b \in L : b.n <= kMax_Bytes /\ x = <<"live", b>>
              \/ x = <<"space">>
  BY PieceFacts, NotListed

\* malloc's area becomes the space of a pool that had none.
LEMMA NewSpace ==
    ASSUME NEW p, PoolOK(p), NEW q, q.free_lists = p.free_lists, PoolOK(q),
           NEW L, NEW bytes,
           Tiles(p, L, bytes), left_size(p) = 0,
           Held(q, <<"space">>) \cap bytes = {}
    PROVE  Tiles(q, L, bytes \cup Held(q, <<"space">>))
<1>1. Pieces(q, L) = Pieces(p, L)
  BY SameHeld DEF Pieces, Free
<1>2. Held(p, <<"space">>) = {}
  BY HeldIs, BytesFacts, PoolFacts
<1>3. \A x \in Pieces(p, L) : x # <<"space">> => Held(q, x) = Held(p, x)
  BY SameHeld, PieceFacts
<1>4. <<"space">> \in Pieces(p, L)
  BY PieceFacts
<1>5. /\ UNION {Held(p, x) : x \in Pieces(p, L)} = bytes
      /\ \A x, y \in Pieces(p, L) : x # y => Held(p, x) \cap Held(p, y) = {}
  BY DEF Tiles
<1>6. UNION {Held(q, x) : x \in Pieces(q, L)} = bytes \cup Held(q, <<"space">>)
  BY <1>1, <1>2, <1>3, <1>4, <1>5
<1>7. \A x \in Pieces(p, L) : Held(p, x) \subseteq bytes
  BY <1>5
<1>8. ASSUME NEW x \in Pieces(q, L), NEW y \in Pieces(q, L), x # y
      PROVE  Held(q, x) \cap Held(q, y) = {}
  BY <1>1, <1>3, <1>5, <1>7, <1>8
<1> QED BY <1>6, <1>8 DEF Tiles

\* Places in a row of blocks of one size.
LEMMA Slots ==
    ASSUME NEW size \in Nat \ {0}, NEW t \in Nat, NEW u \in Nat
    PROVE  /\ t * size \in Nat /\ (t + 1) * size = t * size + size
           /\ t < u => t * size + size <= u * size
<1>1. t * size \in Nat /\ u * size \in Nat /\ (t + 1) * size = t * size + size
  BY Distributes
<1>2. t < u => ~(u * size < (t + 1) * size)
  BY Monotonic
<1> QED BY <1>1, <1>2

\* The space of `left' bytes at first, cut into c blocks and a rest, part c.
Part(first, left, size, c, t) ==
    IF t = c THEN Bytes(first + c * size, left - c * size)
    ELSE Bytes(first + t * size, size)

LEMMA CutFacts ==
    ASSUME NEW first \in Nat, NEW left \in Nat, NEW size \in Nat \ {0},
           NEW c \in Nat, c * size <= left
    PROVE  /\ \A t \in 0 .. c : Part(first, left, size, c, t) \subseteq Bytes(first, left)
           /\ \A t, u \in 0 .. c : t # u =>
                 Part(first, left, size, c, t) \cap Part(first, left, size, c, u) = {}
           /\ \A a \in Bytes(first, left) :
                 \E t \in 0 .. c : a \in Part(first, left, size, c, t)
<1> DEFINE P(t) == Part(first, left, size, c, t)
           w == c * size
<1>0. w \in Nat /\ w <= left
  BY Slots
<1>1. ASSUME NEW t \in 0 .. c, NEW x, x \in P(t)
      PROVE  /\ x \in Nat /\ first + t * size <= x /\ t * size \in Nat
             /\ IF t = c THEN x < first + left ELSE x < first + t * size + size
  <2>1. t * size \in Nat
    BY Slots
  <2>2. CASE t = c
    <3>1. x \in Bytes(first + w, left - w)
      BY <1>1, <2>2 DEF Part
    <3> DEFINE f == first + w
               l == left - w
    <3>2. f \in Nat /\ l \in Nat
      BY <1>0
    <3>3. x \in Nat /\ f <= x /\ x < f + l
      <4> HIDE DEF f, l, w
      <4>1. x \in Bytes(f, l)
        BY <3>1 DEF f, l
      <4> QED BY <3>2, <4>1, BytesFacts
    <3>4. f = first + t * size /\ f + l = first + left
      BY <1>0, <2>2
    <3> QED BY <2>1, <2>2, <3>3, <3>4
  <2>3. CASE t # c
    <3> DEFINE f == first + t * size
    <3>1. x \in Bytes(f, size) /\ f \in Nat
      BY <1>1, <2>1, <2>3 DEF Part
    <3> HIDE DEF f
    <3>2. x \in Nat /\ f <= x /\ x < f + size
      BY <3>1, BytesFacts
    <3> QED BY <2>1, <2>3, <3>2 DEF f
  <2> QED BY <2>2, <2>3
<1>2. ASSUME NEW t \in 0 .. c, NEW u \in 0 .. c, t < u
      PROVE  t * size + size <= u * size /\ t * size \in Nat /\ u * size \in Nat
  BY <1>2, Slots
<1>3. ASSUME NEW t \in 0 .. c PROVE P(t) \subseteq Bytes(first, left)
  <2>1. ASSUME NEW x \in P(t) PROVE x \in Nat /\ first <= x /\ x < first + left
    <3>1. /\ x \in Nat /\ first + t * size <= x /\ t * size \in Nat
          /\ IF t = c THEN x < first + left ELSE x < first + t * size + size
      BY <1>1, <2>1
    <3>2. t # c => t * size + size <= w
      BY <1>2
    <3> DEFINE v == t * size
    <3> HIDE DEF v, w
    <3>3. /\ x \in Nat /\ first + v <= x /\ v \in Nat
          /\ IF t = c THEN x < first + left ELSE x < first + v + size
      BY <3>1 DEF v
    <3>4. t # c => v + size <= w
      BY <3>2 DEF v
    <3> QED BY <1>0, <3>3, <3>4
  <2> QED BY <2>1, BytesFacts
<1>4. ASSUME NEW t \in 0 .. c, NEW u \in 0 .. c, t < u PROVE P(t) \cap P(u) = {}
  <2>1. ASSUME NEW x, x \in P(t), x \in P(u) PROVE FALSE
    <3> DEFINE v == t * size
               z == u * size
    <3>1. x \in Nat /\ x < first + v + size
      BY <1>1, <1>4, <2>1
    <3>2. first + z <= x
      BY <1>1, <2>1
    <3>3. v + size <= z /\ v \in Nat /\ z \in Nat
      BY <1>2, <1>4
    <3> HIDE DEF v, z
    <3> QED BY <3>1, <3>2, <3>3
  <2> QED BY <2>1
<1>5. ASSUME NEW a \in Bytes(first, left) PROVE \E t \in 0 .. c : a \in P(t)
  <2>1. a \in Nat /\ first <= a /\ a < first + left
    BY BytesFacts
  <2>2. CASE first + w <= a
    <3>1. first + w \in Nat /\ left - w \in Nat /\ a < first + w + (left - w)
      BY <1>0, <2>1
    <3>2. a \in Bytes(first + w, left - w)
      <4> HIDE DEF w
      <4> QED BY <2>1, <2>2, <3>1, BytesFacts
    <3>3. P(c) = Bytes(first + w, left - w)
      BY DEF Part
    <3> QED BY <3>2, <3>3
  <2>3. CASE a < first + w
    <3> DEFINE t == (a - first) \div size
    <3>1. a - first \in Nat
      BY <2>1
    <3>2. t \in Nat /\ t * size <= a - first /\ a - first < t * size + size
      BY <3>1, Division
    <3> HIDE DEF t
    <3>3. t * size \in Nat
      BY <3>2, Slots
    <3>4. t < c
      <4>1. ~(c < t) /\ t # c
        <5>1. CASE t = c
          BY <1>0, <2>1, <2>3, <3>2, <5>1
        <5>2. CASE c < t
          <6>1. c * size + size <= t * size
            BY <3>2, <5>2, Slots
          <6> DEFINE v == t * size
          <6> HIDE DEF v, w
          <6>2. w + size <= v /\ v <= a - first /\ v \in Nat
            BY <3>2, <3>3, <6>1 DEF v, w
          <6> QED BY <1>0, <2>1, <2>3, <6>2
        <5> QED BY <5>1, <5>2
      <4> QED BY <3>2, <4>1
    <3>5. a \in Bytes(first + t * size, size)
      <4> DEFINE f == first + t * size
      <4>1. f \in Nat /\ f <= a /\ a < f + size
        BY <2>1, <3>2, <3>3
      <4> HIDE DEF f
      <4>2. a \in Bytes(f, size)
        BY <2>1, <4>1, BytesFacts
      <4> QED BY <4>2 DEF f
    <3>6. t \in 0 .. c /\ t # c
      BY <3>2, <3>4
    <3>7. P(t) = Bytes(first + t * size, size)
      BY <3>6 DEF Part
    <3> HIDE DEF P
    <3> QED BY <3>5, <3>6, <3>7
  <2> QED BY <2>1, <2>2, <2>3, <1>0
<1>6. \A t, u \in 0 .. c : t # u => P(t) \cap P(u) = {}
  <2>1. ASSUME NEW t \in 0 .. c, NEW u \in 0 .. c, t # u PROVE P(t) \cap P(u) = {}
    <3>1. CASE t < u
      BY <1>4, <3>1
    <3>2. CASE u < t
      BY <1>4, <3>2
    <3> QED BY <2>1, <3>1, <3>2
  <2> QED BY <2>1
<1> HIDE DEF P
<1>7. /\ \A t \in 0 .. c : P(t) \subseteq Bytes(first, left)
      /\ \A t, u \in 0 .. c : t # u => P(t) \cap P(u) = {}
      /\ \A a \in Bytes(first, left) : \E t \in 0 .. c : a \in P(t)
  BY <1>3, <1>5, <1>6
<1> QED BY <1>7 DEF P

\* The lists of q are those of p with `others' as list i, which was empty.
Replaced(p, q, i, others) ==
    p.free_lists[i] = <<>> /\ q.free_lists = [p.free_lists EXCEPT ![i] = others]

\* The piece that part t of the space of p became.
Place(i, c, b0, t) == IF t = c THEN <<"space">>
                      ELSE IF t = 0 THEN <<"live", b0>> ELSE <<"list", i, t>>

LEMMA RefilledLists ==
    ASSUME NEW p, PoolOK(p), NEW q, PoolOK(q), NEW i \in kFreeLists,
           NEW c \in Nat \ {0}, NEW others, DOMAIN others = 1 .. c - 1,
           Replaced(p, q, i, others)
    PROVE  /\ \A k \in 1 .. c - 1 :
                 /\ <<"list", i, k>> \in Listed(q)
                 /\ Held(q, <<"list", i, k>>) = Bytes(others[k], (i + 1) * kALIGN)
           /\ \A x : x \in Listed(q) =>
                 \/ x \in Listed(p) /\ Held(q, x) = Held(p, x)
                 \/ \E k \in 1 .. c - 1 : x = <<"list", i, k>>
           /\ \A x \in Listed(p) : x \in Listed(q) /\ Held(q, x) = Held(p, x)
           /\ \A k : <<"list", i, k>> \notin Listed(p)
<1>1. /\ q.free_lists[i] = others /\ p.free_lists[i] = <<>>
      /\ \A j \in kFreeLists : j # i => q.free_lists[j] = p.free_lists[j]
  <2>1. p.free_lists \in [kFreeLists -> Seq(Nat)]
    BY PoolFacts
  <2> QED BY <2>1 DEF Replaced
<1>2. Len(q.free_lists[i]) = c - 1 /\ Len(p.free_lists[i]) = 0
  <2>1. DOMAIN q.free_lists[i] = 1 .. Len(q.free_lists[i]) /\ Len(q.free_lists[i]) \in Nat
    BY PoolFacts
  <2>2. DOMAIN q.free_lists[i] = 1 .. c - 1 /\ c - 1 \in Nat
    BY <1>1
  <2> DEFINE l == Len(q.free_lists[i])
  <2> HIDE DEF l
  <2>3. 1 .. l = 1 .. c - 1 /\ l \in Nat
    BY <2>1, <2>2 DEF l
  <2>4. l = c - 1
    BY <2>2, <2>3
  <2> QED BY <1>1, <2>4 DEF l
<1>3. ASSUME NEW k \in 1 .. c - 1
      PROVE  /\ <<"list", i, k>> \in Listed(q)
             /\ Held(q, <<"list", i, k>>) = Bytes(others[k], (i + 1) * kALIGN)
  <2>1. q.free_lists[i][k] = others[k]
    BY <1>1
  <2>2. <<"list", i, k>> \in Listed(q)
    BY <1>2, PieceFacts
  <2> QED BY <2>1, <2>2, HeldIs
<1>4. ASSUME NEW j \in kFreeLists, NEW k, j # i
      PROVE  Held(q, <<"list", j, k>>) = Held(p, <<"list", j, k>>)
  <2>1. q.free_lists[j] = p.free_lists[j]
    BY <1>1, <1>4
  <2>2. /\ Held(q, <<"list", j, k>>) = Bytes(q.free_lists[j][k], (j + 1) * kALIGN)
        /\ Held(p, <<"list", j, k>>) = Bytes(p.free_lists[j][k], (j + 1) * kALIGN)
    BY HeldIs
  <2> QED BY <2>1, <2>2
<1>5. ASSUME NEW x \in Listed(q)
      PROVE  \/ x \in Listed(p) /\ Held(q, x) = Held(p, x)
             \/ \E k \in 1 .. c - 1 : x = <<"list", i, k>>
  <2>1. PICK j, k : /\ j \in kFreeLists /\ k \in 1 .. Len(q.free_lists[j])
                    /\ x = <<"list", j, k>>
    BY ListedIs
  <2>2. CASE j = i
    BY <1>2, <2>1, <2>2
  <2>3. CASE j # i
    <3>1. k \in 1 .. Len(p.free_lists[j])
      BY <1>1, <2>1, <2>3
    <3>2. x \in Listed(p)
      BY <2>1, <3>1, PieceFacts
    <3> QED BY <1>4, <2>1, <2>3, <3>2
  <2> QED BY <2>2, <2>3
<1>6. ASSUME NEW x \in Listed(p) PROVE x \in Listed(q) /\ Held(q, x) = Held(p, x)
  <2>1. PICK j, k : /\ j \in kFreeLists /\ k \in 1 .. Len(p.free_lists[j])
                    /\ x = <<"list", j, k>>
    BY ListedIs
  <2>2. j # i
    BY <1>2, <2>1
  <2>3. k \in 1 .. Len(q.free_lists[j])
    BY <1>1, <2>1, <2>2
  <2>4. x \in Listed(q)
    BY <2>1, <2>3, PieceFacts
  <2> QED BY <1>4, <2>1, <2>2, <2>4
<1>7. ASSUME NEW k, <<"list", i, k>> \in Listed(p) PROVE FALSE
  <2>1. PICK j, l : /\ j \in kFreeLists /\ l \in 1 .. Len(p.free_lists[j])
                    /\ <<"list", i, k>> = <<"list", j, l>>
    BY <1>7, ListedIs
  <2> QED BY <1>2, <2>1
<1> QED BY <1>3, <1>5, <1>6, <1>7

\* refill: the space becomes the block that is returned, c - 1 list blocks and
\* the new space.
LEMMA RefillTiles ==
    ASSUME NEW p, PoolOK(p), NEW q, PoolOK(q), NEW L, NEW bytes, Tiles(p, L, bytes),
           NEW n \in Nat \ {0}, n <= kMax_Bytes,
           NEW c \in Nat \ {0}, c * ROUND_UP(n) <= left_size(p),
           Replaced(p, q, GET_FREELIST_INDEX(n),
                    [k \in 1 .. c - 1 |-> p.begin_free + k * ROUND_UP(n)]),
           q.begin_free = p.begin_free + c * ROUND_UP(n), q.end_free = p.end_free
    PROVE  Tiles(q, L \cup {[ptr |-> p.begin_free, n |-> n]}, bytes)
<1> DEFINE i == GET_FREELIST_INDEX(n)
           size == ROUND_UP(n)
           b0 == [ptr |-> p.begin_free, n |-> n]
           M == L \cup {b0}
           s == <<"space">>
           first == p.begin_free
           left == left_size(p)
           P(t) == Part(first, left, size, c, t)
           At(t) == Place(i, c, b0, t)
           Old == Pieces(p, L) \ {s}
           m == [y \in Pieces(q, M) |-> IF y \in Old THEN y ELSE s]
<1>1. /\ size \in Nat \ {0} /\ i \in kFreeLists /\ size = (i + 1) * kALIGN
      /\ first \in Nat /\ left \in Nat /\ left = p.end_free - first
      /\ p.end_free \in Nat /\ c * size \in Nat
      /\ left_size(q) = left - c * size
  <2>1. c * size \in Nat
    <3>1. size \in Nat
      BY RoundFacts
    <3> HIDE DEF size
    <3> QED BY <3>1
  <2>2. left = p.end_free - p.begin_free /\ left_size(q) = q.end_free - q.begin_free
    BY DEF left_size
  <2> HIDE DEF size
  <2>3. /\ first \in Nat /\ p.end_free \in Nat /\ left \in Nat
    BY PoolFacts
  <2>4. left_size(q) = left - c * size
    BY <2>1, <2>2, <2>3 DEF size
  <2> QED BY <2>1, <2>2, <2>3, <2>4, RoundFacts DEF size
<1>2. /\ \A t \in 0 .. c : P(t) \subseteq Bytes(first, left)
      /\ \A t, u \in 0 .. c : t # u => P(t) \cap P(u) = {}
      /\ \A a \in Bytes(first, left) : \E t \in 0 .. c : a \in P(t)
  <2> HIDE DEF size
  <2> QED BY <1>1, CutFacts DEF size
<1>3. Held(p, s) = Bytes(first, left) /\ s \in Pieces(p, L)
  BY HeldIs, PieceFacts
<1>4. /\ UNION {Held(p, x) : x \in Pieces(p, L)} = bytes
      /\ \A x, y \in Pieces(p, L) : x # y => Held(p, x) \cap Held(p, y) = {}
  BY DEF Tiles
<1>5. /\ \A k \in 1 .. c - 1 : /\ <<"list", i, k>> \in Listed(q)
                               /\ Held(q, <<"list", i, k>>) = Bytes(first + k * size, size)
      /\ \A x : x \in Listed(q) =>
            \/ x \in Listed(p) /\ Held(q, x) = Held(p, x)
            \/ \E k \in 1 .. c - 1 : x = <<"list", i, k>>
      /\ \A x \in Listed(p) : x \in Listed(q) /\ Held(q, x) = Held(p, x)
      /\ \A k : <<"list", i, k>> \notin Listed(p)
  <2> DEFINE others == [k \in 1 .. c - 1 |-> first + k * size]
  <2>1. /\ Replaced(p, q, i, others) /\ DOMAIN others = 1 .. c - 1
        /\ \A k \in 1 .. c - 1 : others[k] = first + k * size
    OBVIOUS
  <2>2. /\ \A k \in 1 .. c - 1 :
              /\ <<"list", i, k>> \in Listed(q)
              /\ Held(q, <<"list", i, k>>) = Bytes(others[k], (i + 1) * kALIGN)
        /\ \A x : x \in Listed(q) =>
              \/ x \in Listed(p) /\ Held(q, x) = Held(p, x)
              \/ \E k \in 1 .. c - 1 : x = <<"list", i, k>>
        /\ \A x \in Listed(p) : x \in Listed(q) /\ Held(q, x) = Held(p, x)
        /\ \A k : <<"list", i, k>> \notin Listed(p)
    <3>1. i \in kFreeLists
      BY <1>1
    <3> HIDE DEF others, i
    <3> QED BY <2>1, <3>1, RefilledLists, SMTT(60)
  <2> HIDE DEF i, size, others
  <2> QED BY <1>1, <2>1, <2>2
\* The parts are pieces of q.
<1>6. ASSUME NEW t \in 0 .. c
      PROVE  At(t) \in Pieces(q, M) /\ Held(q, At(t)) = P(t)
  <2>1. CASE t = c
    <3>1. At(t) = s /\ P(t) = Bytes(first + c * size, left - c * size)
      BY <2>1 DEF Place, Part
    <3>2. Held(q, s) = Bytes(q.begin_free, left_size(q)) /\ s \in Pieces(q, M)
      BY HeldIs, PieceFacts
    <3> QED BY <1>1, <3>1, <3>2
  <2>2. CASE t # c /\ t = 0
    <3>1. At(t) = <<"live", b0>> /\ P(t) = Bytes(first + 0 * size, size)
      BY <2>2 DEF Place, Part
    <3>2. Held(q, <<"live", b0>>) = Bytes(first, size) /\ <<"live", b0>> \in Pieces(q, M)
      BY HeldIs, PieceFacts
    <3>3. first + 0 * size = first
      BY <1>1
    <3> QED BY <3>1, <3>2, <3>3
  <2>3. CASE t # c /\ t # 0
    <3>1. At(t) = <<"list", i, t>> /\ P(t) = Bytes(first + t * size, size)
      BY <2>3 DEF Place, Part
    <3>2. t \in 1 .. c - 1
      BY <2>3
    <3>3. <<"list", i, t>> \in Pieces(q, M)
      BY <1>5, <3>2, PieceFacts
    <3> HIDE DEF i, size, P, At
    <3> QED BY <1>5, <3>1, <3>2, <3>3
  <2> QED BY <2>1, <2>2, <2>3
\* Every other piece is one of p.
<1>7. ASSUME NEW y \in Pieces(q, M), y \notin Old PROVE \E t \in 0 .. c : y = At(t)
  <2>1. CASE y = s
    <3>1. At(c) = s /\ c \in 0 .. c
      BY DEF Place
    <3> QED BY <2>1, <3>1
  <2>2. CASE y # s /\ \E b \in M : b.n <= kMax_Bytes /\ y = <<"live", b>>
    <3>1. y = <<"live", b0>>
      <4>1. PICK b \in M : b.n <= kMax_Bytes /\ y = <<"live", b>>
        BY <2>2
      <4>2. b \notin L
        BY <1>7, <2>2, <4>1, PieceFacts
      <4> QED BY <4>1, <4>2
    <3>2. At(0) = <<"live", b0>> /\ 0 \in 0 .. c
      BY DEF Place
    <3> HIDE DEF At
    <3> QED BY <3>1, <3>2
  <2>3. CASE y # s /\ y \in Listed(q)
    <3>1. y \notin Listed(p)
      BY <1>7, <2>3, PieceFacts
    <3>2. PICK k \in 1 .. c - 1 : y = <<"list", i, k>>
      BY <1>5, <2>3, <3>1
    <3>3. At(k) = y /\ k \in 0 .. c
      BY <3>2 DEF Place
    <3> HIDE DEF At
    <3> QED BY <3>3
  <2> QED BY <2>1, <2>2, <2>3, PieceFacts
\* The pieces that stay.
<1>8. ASSUME NEW x \in Old PROVE x \in Pieces(q, M) /\ Held(q, x) = Held(p, x)
  <2>1. CASE x \in Listed(p)
    BY <1>5, <2>1, PieceFacts
  <2>2. CASE \E b \in L : b.n <= kMax_Bytes /\ x = <<"live", b>>
    <3>1. PICK b \in L : b.n <= kMax_Bytes /\ x = <<"live", b>>
      BY <2>2
    <3>2. x \in Pieces(q, M)
      BY <3>1, PieceFacts
    <3>3. Held(q, <<"live", b>>) = Held(p, <<"live", b>>)
      BY HeldIs
    <3> QED BY <3>1, <3>2, <3>3
  <2> QED BY <2>1, <2>2, PieceFacts
<1>9. \A y \in Pieces(q, M) : m[y] = IF y \in Old THEN y ELSE s
  OBVIOUS
<1> HIDE DEF m, P, At, M, size, left, b0, first, i
<1>10. ASSUME NEW y \in Pieces(q, M)
       PROVE  m[y] \in Pieces(p, L) /\ Held(q, y) \subseteq Held(p, m[y])
  <2>1. CASE y \in Old
    BY <1>8, <1>9, <2>1
  <2>2. CASE y \notin Old
    <3>1. PICK t \in 0 .. c : y = At(t)
      BY <1>7, <2>2
    <3>2. Held(q, y) \subseteq Bytes(first, left)
      BY <1>2, <1>6, <3>1
    <3> QED BY <1>3, <1>9, <2>2, <3>2
  <2> QED BY <2>1, <2>2
<1>11. ASSUME NEW y \in Pieces(q, M), NEW z \in Pieces(q, M), y # z, m[y] = m[z]
       PROVE  Held(q, y) \cap Held(q, z) = {}
  <2>1. y \notin Old /\ z \notin Old
    BY <1>9, <1>11
  <2>2. PICK t \in 0 .. c : y = At(t)
    BY <1>7, <2>1
  <2>3. PICK u \in 0 .. c : z = At(u)
    BY <1>7, <2>1
  <2>4. P(t) \cap P(u) = {}
    BY <1>2, <1>11, <2>2, <2>3
  <2> QED BY <1>6, <2>2, <2>3, <2>4
<1>12. ASSUME NEW x \in Pieces(p, L), NEW a \in Held(p, x)
       PROVE  \E y \in Pieces(q, M) : a \in Held(q, y)
  <2>1. CASE x = s
    <3>1. PICK t \in 0 .. c : a \in P(t)
      BY <1>2, <1>3, <1>12, <2>1
    <3> QED BY <1>6, <3>1
  <2>2. CASE x # s
    BY <1>8, <1>12, <2>2
  <2> QED BY <2>1, <2>2
<1>13. Tiles(q, M, bytes)
  BY <1>10, <1>11, <1>12, Repartition
<1> QED BY <1>13 DEF M, b0, first

-----------------------------------------------------------------------------
(* The steps of the pool on the pieces.                                    *)

\* refill uses up the space it is given, and the block it returns is new.
LEMMA RefillStep ==
    ASSUME NEW p, PoolOK(p), NEW n \in Nat \ {0}, n <= kMax_Bytes,
           ROUND_UP(n) <= left_size(p), p.free_lists[GET_FREELIST_INDEX(n)] = <<>>,
           refill(p, n), NEW bytes, Tiles(p, live, bytes)
    PROVE  /\ PoolOK(pool') /\ Tiles(pool', live', bytes)
           /\ live' = live \cup {[ptr |-> p.begin_free, n |-> n]}
           /\ oom' = 0 /\ UNCHANGED <<heap, alive>>
           /\ pool'.allocated_area = p.allocated_area
<1> DEFINE i == GET_FREELIST_INDEX(n)
           size == ROUND_UP(n)
           L == live \cup {[ptr |-> p.begin_free, n |-> n]}
<1>1. /\ PoolOK(pool') /\ live' = L /\ oom' = 0 /\ UNCHANGED <<heap, alive>>
  BY RefillFacts
<1>2. PICK c \in Nat \ {0} :
         /\ c * size <= left_size(p)
         /\ pool'.free_lists = [p.free_lists EXCEPT ![i] =
                                   [k \in 1 .. c - 1 |-> p.begin_free + k * size]]
         /\ pool'.begin_free = p.begin_free + c * size
         /\ pool'.end_free = p.end_free /\ pool'.allocated_area = p.allocated_area
  BY RefillFacts
<1>3. Replaced(p, pool', i, [k \in 1 .. c - 1 |-> p.begin_free + k * size])
  BY <1>2 DEF Replaced
<1>4. Tiles(pool', L, bytes)
  BY <1>1, <1>2, <1>3, RefillTiles
<1> QED BY <1>1, <1>2, <1>4

\* The rest of the space is put in the list of its size.
LEMMA SalvageTiles ==
    ASSUME NEW p, PoolOK(p), NEW n \in Nat \ {0}, n <= kMax_Bytes,
           left_size(p) < ROUND_UP(n), NEW L, NEW bytes, Tiles(p, L, bytes),
           NEW q, PoolOK(q), q.free_lists = Salvage(p).free_lists, left_size(q) = 0
    PROVE  Tiles(q, L, bytes)
<1> DEFINE s == <<"space">>
           j == GET_FREELIST_INDEX(left_size(p))
<1>1. Held(q, s) = {} /\ Held(p, s) = Bytes(p.begin_free, left_size(p))
      /\ p.begin_free \in Nat
  BY HeldIs, BytesFacts, PoolFacts
<1>2. \A b : Held(q, <<"live", b>>) = Held(p, <<"live", b>>)
  BY HeldIs
<1>3. CASE left_size(p) = 0
  <2>1. q.free_lists = p.free_lists
    BY <1>3, SalvageFacts
  <2>2. Listed(q) = Listed(p) /\ \A x \in Listed(p) : Held(q, x) = Held(p, x)
    BY <2>1, SameHeld
  <2>3. Pieces(q, L) = Pieces(p, L)
    BY <2>2 DEF Pieces, Free
  <2>4. Held(p, s) = {}
    BY <1>1, <1>3, BytesFacts
  <2>5. \A x \in Pieces(p, L) : Held(q, x) = Held(p, x)
    BY <1>1, <1>2, <2>2, <2>4, PieceFacts
  <2> QED BY <2>3, <2>5 DEF Tiles
<1>4. CASE left_size(p) # 0
  <2>1. /\ j \in kFreeLists /\ (j + 1) * kALIGN = left_size(p)
        /\ Pushed(p, Salvage(p), j, p.begin_free)
    BY <1>4, SalvageFacts
  <2>2. Pushed(p, q, j, p.begin_free)
    BY <2>1 DEF Pushed
  <2>3. s \in Pieces(p, L) \ Listed(p)
    BY Unlisted
  <2>4. Bytes(p.begin_free, (j + 1) * kALIGN) = Held(p, s)
    BY <1>1, <2>1
  <2>5. ASSUME NEW y \in Pieces(q, L) \ Listed(q)
        PROVE  /\ y \in Pieces(p, L) \ Listed(p) /\ Held(q, y) \subseteq Held(p, y)
               /\ y = s => Held(q, y) = {}
    BY <1>1, <1>2, Unlisted
  <2>6. ASSUME NEW x \in Pieces(p, L) \ Listed(p), x # s
        PROVE  x \in Pieces(q, L) /\ Held(p, x) \subseteq Held(q, x)
    <3>1. PICK b \in L : b.n <= kMax_Bytes /\ x = <<"live", b>>
      BY <2>6, Unlisted
    <3> QED BY <1>2, <3>1, PieceFacts
  <2> HIDE DEF j, s
  <2> QED BY <1>1, <2>1, <2>2, <2>3, <2>4, <2>5, <2>6, PushHead
<1> QED BY <1>3, <1>4

\* The first block of the list of a size is returned.
LEMMA TakenTiles ==
    ASSUME NEW p, PoolOK(p), NEW L, NEW q, PoolOK(q), NEW bytes, Tiles(p, L, bytes),
           NEW n \in Nat \ {0}, n <= kMax_Bytes,
           p.free_lists[GET_FREELIST_INDEX(n)] # <<>>,
           Popped(p, q, GET_FREELIST_INDEX(n)),
           q.begin_free = p.begin_free, q.end_free = p.end_free
    PROVE  Tiles(q, L \cup {[ptr |-> Head(p.free_lists[GET_FREELIST_INDEX(n)]),
                             n |-> n]}, bytes)
<1> DEFINE i == GET_FREELIST_INDEX(n)
           b0 == [ptr |-> Head(p.free_lists[i]), n |-> n]
           M == L \cup {b0}
           y0 == <<"live", b0>>
           s == <<"space">>
<1>1. i \in kFreeLists /\ ROUND_UP(n) = (i + 1) * kALIGN
  BY RoundFacts
<1>2. Head(p.free_lists[i]) = p.free_lists[i][1]
  OBVIOUS
<1>3. b0.ptr = Head(p.free_lists[i]) /\ b0.n = n
  OBVIOUS
<1> HIDE DEF b0
<1>4. y0 \in Pieces(q, M) \ Listed(q)
  BY <1>3, Unlisted
<1>5. Held(q, y0) = Held(p, <<"list", i, 1>>)
  <2>1. Held(q, y0) = Bytes(b0.ptr, ROUND_UP(b0.n))
    BY HeldIs
  <2>2. Held(p, <<"list", i, 1>>) = Bytes(p.free_lists[i][1], (i + 1) * kALIGN)
    BY HeldIs
  <2> QED BY <1>1, <1>2, <1>3, <2>1, <2>2
<1>6. /\ \A b : Held(q, <<"live", b>>) = Held(p, <<"live", b>>)
      /\ Held(q, s) = Held(p, s)
  <2>1. left_size(q) = left_size(p)
    BY DEF left_size
  <2> QED BY <2>1, HeldIs
<1>7. ASSUME NEW y \in Pieces(q, M) \ Listed(q), y # y0
      PROVE  y \in Pieces(p, L) \ Listed(p) /\ Held(q, y) \subseteq Held(p, y)
  <2>1. CASE y = s
    BY <1>6, <2>1, Unlisted
  <2>2. CASE y # s
    <3>1. PICK b \in M : b.n <= kMax_Bytes /\ y = <<"live", b>>
      BY <2>2, Unlisted
    <3>2. b \in L
      BY <1>7, <3>1
    <3> QED BY <1>6, <3>1, <3>2, Unlisted
  <2> QED BY <2>1, <2>2
<1>8. ASSUME NEW x \in Pieces(p, L) \ Listed(p)
      PROVE  x \in Pieces(q, M) /\ Held(p, x) \subseteq Held(q, x)
  <2>1. CASE x = s
    BY <1>6, <2>1, PieceFacts
  <2>2. CASE x # s
    <3>1. PICK b \in L : b.n <= kMax_Bytes /\ x = <<"live", b>>
      BY <2>2, Unlisted
    <3> QED BY <1>6, <3>1, PieceFacts
  <2> QED BY <2>1, <2>2
<1> HIDE DEF M, y0, s, i
<1>9. Tiles(q, M, bytes)
  <2>1. p.free_lists[i] # <<>> /\ Popped(p, q, i)
    BY DEF i
  <2> QED BY <1>1, <1>4, <1>5, <1>7, <1>8, <2>1, TakeHead
<1> QED BY <1>9 DEF M, b0, i

\* malloc failed: the first block of list i becomes the space of a pool with none.
LEMMA CutTiles ==
    ASSUME NEW p, PoolOK(p), NEW L, NEW q, PoolOK(q), NEW bytes, Tiles(p, L, bytes),
           left_size(p) = 0, NEW i \in kFreeLists, p.free_lists[i] # <<>>, Popped(p, q, i),
           q.begin_free = Head(p.free_lists[i]), left_size(q) = (i + 1) * kALIGN
    PROVE  Tiles(q, L, bytes)
<1> DEFINE s == <<"space">>
<1>1. s \in Pieces(q, L) \ Listed(q)
  BY Unlisted
<1>2. Held(q, s) = Held(p, <<"list", i, 1>>)
  <2>1. Held(q, s) = Bytes(q.begin_free, left_size(q))
    BY HeldIs
  <2>2. Held(p, <<"list", i, 1>>) = Bytes(p.free_lists[i][1], (i + 1) * kALIGN)
    BY HeldIs
  <2>3. Head(p.free_lists[i]) = p.free_lists[i][1]
    OBVIOUS
  <2> QED BY <2>1, <2>2, <2>3
<1>3. \A b : Held(q, <<"live", b>>) = Held(p, <<"live", b>>)
  BY HeldIs
<1>4. Held(p, s) = {}
  BY HeldIs, BytesFacts, PoolFacts
<1>5. ASSUME NEW y \in Pieces(q, L) \ Listed(q), y # s
      PROVE  y \in Pieces(p, L) \ Listed(p) /\ Held(q, y) \subseteq Held(p, y)
  <2>1. PICK b \in L : b.n <= kMax_Bytes /\ y = <<"live", b>>
    BY <1>5, Unlisted
  <2> QED BY <1>3, <2>1, Unlisted
<1>6. ASSUME NEW x \in Pieces(p, L) \ Listed(p)
      PROVE  x \in Pieces(q, L) /\ Held(p, x) \subseteq Held(q, x)
  <2>1. CASE x = s
    BY <1>4, <2>1, PieceFacts
  <2>2. CASE x # s
    <3>1. PICK b \in L : b.n <= kMax_Bytes /\ x = <<"live", b>>
      BY <2>2, Unlisted
    <3> QED BY <1>3, <3>1, PieceFacts
  <2> QED BY <2>1, <2>2
<1> HIDE DEF s
<1> QED BY <1>1, <1>2, <1>5, <1>6, TakeHead

\* A block that was in use goes back to the list of its size.
LEMMA ReturnedTiles ==
    ASSUME NEW p, PoolOK(p), NEW L, NEW q, PoolOK(q), NEW bytes, Tiles(p, L, bytes),
           NEW b \in L, b \in Block, b.n <= kMax_Bytes,
           Pushed(p, q, GET_FREELIST_INDEX(b.n), b.ptr),
           q.begin_free = p.begin_free, q.end_free = p.end_free
    PROVE  Tiles(q, L \ {b}, bytes)
<1> DEFINE i == GET_FREELIST_INDEX(b.n)
           x0 == <<"live", b>>
           s == <<"space">>
           M == L \ {b}
<1>1. b.ptr \in Nat /\ b.n \in Nat \ {0}
  BY BlockFacts
<1>2. i \in kFreeLists /\ ROUND_UP(b.n) = (i + 1) * kALIGN
  BY <1>1, RoundFacts
<1>3. x0 \in Pieces(p, L) \ Listed(p)
  BY Unlisted
<1>4. Bytes(b.ptr, (i + 1) * kALIGN) = Held(p, x0)
  <2>1. Held(p, x0) = Bytes(b.ptr, ROUND_UP(b.n))
    BY HeldIs
  <2> QED BY <1>2, <2>1
<1>5. /\ \A d : Held(q, <<"live", d>>) = Held(p, <<"live", d>>)
      /\ Held(q, s) = Held(p, s)
  <2>1. left_size(q) = left_size(p)
    BY DEF left_size
  <2> QED BY <2>1, HeldIs
<1>6. ASSUME NEW y \in Pieces(q, M) \ Listed(q)
      PROVE  /\ y \in Pieces(p, L) \ Listed(p) /\ Held(q, y) \subseteq Held(p, y)
             /\ y # x0
  <2>1. CASE y = s
    BY <1>5, <2>1, Unlisted
  <2>2. CASE y # s
    <3>1. PICK d \in M : d.n <= kMax_Bytes /\ y = <<"live", d>>
      BY <2>2, Unlisted
    <3> QED BY <1>5, <3>1, Unlisted
  <2> QED BY <2>1, <2>2
<1>7. ASSUME NEW x \in Pieces(p, L) \ Listed(p), x # x0
      PROVE  x \in Pieces(q, M) /\ Held(p, x) \subseteq Held(q, x)
  <2>1. CASE x = s
    BY <1>5, <2>1, PieceFacts
  <2>2. CASE x # s
    <3>1. PICK d \in L : d.n <= kMax_Bytes /\ x = <<"live", d>>
      BY <2>2, Unlisted
    <3>2. d \in M
      BY <1>7, <3>1
    <3> QED BY <1>5, <3>1, <3>2, PieceFacts
  <2> QED BY <2>1, <2>2
<1>8. Pushed(p, q, i, b.ptr)
  OBVIOUS
<1> HIDE DEF x0, s, M, i
<1>9. Tiles(q, M, bytes)
  BY <1>1, <1>2, <1>3, <1>4, <1>6, <1>7, <1>8, PushHead
<1> QED BY <1>9 DEF M

\* Blocks the pool did not give are no pieces.
LEMMA LargeTiles ==
    ASSUME NEW p, NEW L, NEW M, NEW bytes, Tiles(p, L, bytes),
           {b \in L : b.n <= kMax_Bytes} = {b \in M : b.n <= kMax_Bytes}
    PROVE  Tiles(p, M, bytes)
<1>1. InUse(L) = InUse(M)
  BY DEF InUse
<1>2. Pieces(p, L) = Pieces(p, M)
  BY <1>1 DEF Pieces
<1> QED BY <1>2 DEF Tiles

-----------------------------------------------------------------------------
(* Addresses.                                                              *)

LEMMA LeastNumber ==
    ASSUME NEW T \in SUBSET Nat, T # {}
    PROVE  Min(T) \in T /\ \A m \in T : Min(T) <= m
<1> DEFINE R == OpToRel(<, Nat)
<1>1. IsWellFoundedOn(R, Nat)
  BY NatLessThanWellFounded
<1>2. \E x \in T : \A y \in T : ~(<<y, x>> \in R)
  <2> HIDE DEF R
  <2> QED BY <1>1, WFMin
<1>3. \A x, y \in Nat : x < y => <<x, y>> \in R
  BY DEF OpToRel
<1>4. PICK x \in T : \A y \in T : ~(<<y, x>> \in R)
  BY <1>2
<1>5. \A y \in T : ~(y < x)
  BY <1>3, <1>4
<1>6. \A y \in T : x <= y
  BY <1>5
<1> QED BY <1>6 DEF Min

LEMMA GreatestNumber ==
    ASSUME NEW T \in SUBSET Nat, T # {}, NEW N \in Nat, \A m \in T : m <= N
    PROVE  Max(T) \in T /\ \A m \in T : m <= Max(T)
<1> DEFINE U == {N - m : m \in T}
<1>1. U \in SUBSET Nat /\ U # {}
  <2>1. ASSUME NEW m \in T PROVE N - m \in Nat
    <3>1. m \in Nat /\ m <= N
      OBVIOUS
    <3> QED BY <3>1
  <2> QED BY <2>1
<1>2. Min(U) \in U /\ \A u \in U : Min(U) <= u
  BY <1>1, LeastNumber
<1>3. PICK x \in T : Min(U) = N - x
  BY <1>2
<1>4. ASSUME NEW m \in T PROVE x >= m
  <2>1. N - x <= N - m
    BY <1>2, <1>3
  <2> QED BY <2>1
<1>5. Max(T) \in T /\ \A m \in T : Max(T) >= m
  BY <1>4 DEF Max
<1> QED BY <1>5

\* All areas end before some address.
Bounded == \E N \in Nat : \A a \in areas : a.base + a.size <= N

\* malloc's next area lies behind the others.
LEMMA AddressFacts ==
    ASSUME areas \subseteq Area, Bounded
    PROVE  /\ Address \in Nat \ {0}
           /\ \A a \in areas : a.base + a.size < Address
           /\ \A n \in Nat : Bytes(Address, n) \cap AreaBytes = {}
<1> DEFINE T == {MaxLive} \cup {a.base + a.size : a \in areas}
<1>1. /\ T \in SUBSET Nat /\ T # {} /\ MaxLive \in Nat
      /\ \A a \in areas : a.base \in Nat /\ a.size \in Nat
  BY MemPoolAssumption DEF Area
<1>2. PICK N \in Nat : \A a \in areas : a.base + a.size <= N
  BY DEF Bounded
<1>3. N + MaxLive \in Nat /\ \A m \in T : m <= N + MaxLive
  BY <1>1, <1>2
<1>4. Max(T) \in T /\ \A m \in T : m <= Max(T)
  <2> HIDE DEF T
  <2> QED BY <1>1, <1>3, GreatestNumber
<1>5. Address = 1 + Max(T)
  BY DEF Address
<1>6. Max(T) \in Nat /\ \A a \in areas : a.base + a.size <= Max(T)
  BY <1>1, <1>4
<1> DEFINE x == Max(T)
<1> HIDE DEF x
<1>7. x \in Nat /\ (\A a \in areas : a.base + a.size <= x) /\ Address = 1 + x
  BY <1>5, <1>6 DEF x
<1>8. ASSUME NEW n \in Nat, NEW b, b \in Bytes(Address, n), b \in AreaBytes PROVE FALSE
  <2>1. b \in Nat /\ Address <= b
    BY <1>7, <1>8, BytesFacts
  <2>2. PICK a \in areas : b \in Bytes(a.base, a.size)
    BY <1>8 DEF AreaBytes
  <2>3. b < a.base + a.size
    BY <1>1, <2>2, BytesFacts
  <2> QED BY <1>1, <1>7, <2>1, <2>3
<1> QED BY <1>1, <1>7, <1>8

\* An address for a large block is left.
LEMMA LargeAddressFacts ==
    ASSUME live \subseteq Block, IsFiniteSet(live), Cardinality(live) < MaxLive,
           heap = {b.ptr : b \in {x \in live : x.n > kMax_Bytes}}
    PROVE  LargeAddress \in 1 .. MaxLive \ heap
<1> DEFINE B == {x \in live : x.n > kMax_Bytes}
<1>1. MaxLive \in Nat
  BY MemPoolAssumption
<1>2. IsFiniteSet(B) /\ Cardinality(B) <= Cardinality(live) /\ Cardinality(live) \in Nat
  BY FS_Subset, FS_CardinalityType
<1>3. /\ IsFiniteSet(heap) /\ Cardinality(heap) \in Nat
      /\ Cardinality(heap) <= Cardinality(B) /\ Cardinality(B) \in Nat
  <2>1. \A f : f = [b \in B |-> b.ptr] => f \in Surjection(B, heap)
    BY DEF Surjection
  <2>2. [b \in B |-> b.ptr] \in Surjection(B, heap)
    BY <2>1
  <2> HIDE DEF B
  <2>3. IsFiniteSet(heap) /\ Cardinality(heap) <= Cardinality(B)
    BY <1>2, <2>2, FS_Surjection
  <2> QED BY <1>2, <2>3, FS_CardinalityType
<1>4. 1 .. MaxLive \ heap # {}
  <2> SUFFICES ASSUME 1 .. MaxLive \subseteq heap PROVE FALSE
      OBVIOUS
  <2>1. Cardinality(1 .. MaxLive) <= Cardinality(heap)
    BY <1>3, FS_Subset
  <2>2. Cardinality(1 .. MaxLive) = MaxLive
    BY <1>1, FS_Interval
  <2> QED BY <1>1, <1>2, <1>3, <2>1, <2>2
<1>5. 1 .. MaxLive \ heap \in SUBSET Nat
  OBVIOUS
<1> QED BY <1>4, <1>5, LeastNumber DEF LargeAddress

-----------------------------------------------------------------------------
(* The pools that the cases of chunk_alloc lead to, after Salvage.         *)

LEMMA ExhaustedOK ==
    ASSUME NEW p, PoolOK(p)
    PROVE  /\ PoolOK(Exhausted(p)) /\ left_size(Exhausted(p)) = 0
           /\ Exhausted(p).free_lists = p.free_lists
           /\ Exhausted(p).allocated_area = p.allocated_area \cup {0}
<1> DEFINE q == Exhausted(p)
<1>1. p \in [free_lists : [kFreeLists -> Seq(Nat)], begin_free : Nat, end_free : Nat,
             heap_size : Nat, allocated_area : SUBSET Nat]
  BY DEF PoolOK
<1>2. /\ q \in [free_lists : [kFreeLists -> Seq(Nat)], begin_free : Nat, end_free : Nat,
                heap_size : Nat, allocated_area : SUBSET Nat]
      /\ q.free_lists = p.free_lists /\ q.begin_free = 0 /\ q.end_free = 0
      /\ q.allocated_area = p.allocated_area \cup {0}
  <2>1. q = [p EXCEPT !.begin_free = 0, !.end_free = 0,
                      !.allocated_area = p.allocated_area \cup {0}]
    BY <1>1 DEF Exhausted
  <2> DEFINE A == p.allocated_area \cup {0}
  <2>2. A \in SUBSET Nat
    BY <1>1
  <2> HIDE DEF q, A
  <2>3. /\ q.free_lists = p.free_lists /\ q.begin_free = 0 /\ q.end_free = 0
        /\ q.heap_size = p.heap_size /\ q.allocated_area = A
        /\ q = [free_lists |-> q.free_lists, begin_free |-> q.begin_free,
                end_free |-> q.end_free, heap_size |-> q.heap_size,
                allocated_area |-> q.allocated_area]
    BY <1>1, <2>1 DEF A
  <2> QED BY <1>1, <2>2, <2>3 DEF A
<1> HIDE DEF q
<1>3. left_size(q) = 0
  BY <1>2 DEF left_size
<1> QED BY <1>2, <1>3, AlignedFacts DEF PoolOK, q

LEMMA FromListOK ==
    ASSUME NEW p, PoolOK(p), NEW i \in kFreeLists, p.free_lists[i] # <<>>
    PROVE  LET q == FromList(p, i) IN
           /\ PoolOK(q) /\ Popped(p, q, i) /\ q.begin_free = Head(p.free_lists[i])
           /\ left_size(q) = (i + 1) * kALIGN
           /\ q.allocated_area = p.allocated_area \cup {0}
<1> DEFINE q == FromList(p, i)
           a == Head(p.free_lists[i])
           w == (i + 1) * kALIGN
<1>1. p \in [free_lists : [kFreeLists -> Seq(Nat)], begin_free : Nat, end_free : Nat,
             heap_size : Nat, allocated_area : SUBSET Nat]
  BY DEF PoolOK
<1>2. /\ p.free_lists[i] \in Seq(Nat) /\ a \in Nat /\ Tail(p.free_lists[i]) \in Seq(Nat)
      /\ i \in Nat
  BY PoolFacts, HeadTailProperties
<1>3. w \in Nat /\ Aligned(w) /\ a + w \in Nat
  <2>1. w \in Nat /\ Aligned(w)
    BY <1>2, ListSizes
  <2> HIDE DEF w, a
  <2> QED BY <1>2, <2>1
<1> DEFINE e == a + w
           F == [p.free_lists EXCEPT ![i] = Tail(p.free_lists[i])]
<1>4. q = [p EXCEPT !.free_lists = F, !.allocated_area = @ \cup {0},
                    !.begin_free = a, !.end_free = e]
  BY <1>1 DEF FromList
<1>5. F \in [kFreeLists -> Seq(Nat)]
  BY <1>1, <1>2
<1> HIDE DEF q, e, a, F
<1>6. /\ q \in [free_lists : [kFreeLists -> Seq(Nat)], begin_free : Nat, end_free : Nat,
                heap_size : Nat, allocated_area : SUBSET Nat]
      /\ q.free_lists = F /\ q.begin_free = a /\ q.end_free = e
      /\ q.allocated_area = p.allocated_area \cup {0}
  <2> DEFINE A == p.allocated_area \cup {0}
  <2>1. A \in SUBSET Nat /\ e \in Nat
    BY <1>1, <1>3 DEF e
  <2>2. q = [p EXCEPT !.free_lists = F, !.allocated_area = A,
                      !.begin_free = a, !.end_free = e]
    BY <1>1, <1>4
  <2> HIDE DEF A
  <2>3. /\ q.free_lists = F /\ q.begin_free = a /\ q.end_free = e
        /\ q.heap_size = p.heap_size /\ q.allocated_area = A
        /\ q = [free_lists |-> q.free_lists, begin_free |-> q.begin_free,
                end_free |-> q.end_free, heap_size |-> q.heap_size,
                allocated_area |-> q.allocated_area]
    BY <1>1, <2>2
  <2> QED BY <1>1, <1>2, <1>5, <2>1, <2>3 DEF A
<1> HIDE DEF w
<1>7. left_size(q) = w /\ q.begin_free <= q.end_free
  BY <1>2, <1>3, <1>6 DEF left_size, e
<1>8. PoolOK(q)
  BY <1>3, <1>6, <1>7 DEF PoolOK
<1> QED BY <1>6, <1>7, <1>8 DEF q, w, a, F, Popped

\* The list a free block of that size is in.
LEMMA FittingFacts ==
    ASSUME NEW p, PoolOK(p), NEW n \in Nat \ {0}, n <= kMax_Bytes,
           p.free_lists[GET_FREELIST_INDEX(n)] = <<>>
    PROVE  /\ Fitting(p, ROUND_UP(n)) # {} =>
                LET i == Min(Fitting(p, ROUND_UP(n))) IN
                /\ i \in kFreeLists /\ p.free_lists[i] # <<>>
                /\ i # GET_FREELIST_INDEX(n) /\ ROUND_UP(n) <= (i + 1) * kALIGN
           /\ Fitting(p, ROUND_UP(n)) = {} =>
                \A i \in kFreeLists : p.free_lists[i] # <<>> =>
                   (i + 1) * kALIGN < ROUND_UP(n)
<1> DEFINE g == GET_FREELIST_INDEX(n)
           size == ROUND_UP(n)
           F == Fitting(p, size)
<1>1. /\ g \in Nat /\ g \in kFreeLists /\ size = (g + 1) * kALIGN
      /\ size \in Nat \ {0} /\ Aligned(size) /\ size > 0
  <2>1. /\ g \in Nat /\ g \in kFreeLists /\ size = (g + 1) * kALIGN
        /\ size \in Nat /\ Aligned(size) /\ n <= size
    BY RoundFacts
  <2> HIDE DEF size
  <2> QED BY <2>1
<1>2. GET_FREELIST_INDEX(size) = g
  <2>1. (GET_FREELIST_INDEX(size) + 1) * kALIGN = size /\ GET_FREELIST_INDEX(size) \in Nat
    BY <1>1, RoundAligned, RoundFacts
  <2> DEFINE h == GET_FREELIST_INDEX(size)
  <2>2. h \in Nat /\ (h + 1) * kALIGN = (g + 1) * kALIGN
    BY <1>1, <2>1
  <2> HIDE DEF h, g
  <2>3. ~(h < g) /\ ~(g < h)
    <3>1. (h + 1) * kALIGN \in Nat /\ (g + 1) * kALIGN \in Nat
      BY <1>1, <2>2, ListSizes
    <3> QED BY <1>1, <2>2, <3>1, ListSizes
  <2> QED BY <1>1, <2>2, <2>3 DEF h
<1> HIDE DEF g, size
<1>3. \A i : i \in F <=> i \in kFreeLists /\ i >= g /\ p.free_lists[i] # <<>>
  BY <1>2 DEF Fitting
<1>4. \A i \in kFreeLists : i \in Nat
  BY DEF kFreeLists
<1>5. ASSUME NEW i \in kFreeLists
      PROVE  i > g <=> size < (i + 1) * kALIGN
  BY <1>1, <1>4, ListSizes
<1>6. ASSUME F # {}
      PROVE  LET i == Min(F) IN
             /\ i \in kFreeLists /\ p.free_lists[i] # <<>>
             /\ i # g /\ size <= (i + 1) * kALIGN
  <2>1. F \in SUBSET Nat
    BY <1>3, <1>4
  <2>2. Min(F) \in F
    BY <1>6, <2>1, LeastNumber
  <2> DEFINE i == Min(F)
  <2> HIDE DEF i, F
  <2>3. i \in kFreeLists /\ i >= g /\ p.free_lists[i] # <<>>
    BY <1>3, <2>2 DEF i
  <2>4. i # g
    BY <2>3 DEF g
  <2>5. i > g /\ i \in Nat
    BY <1>1, <1>4, <2>3, <2>4
  <2>6. size < (i + 1) * kALIGN /\ (i + 1) * kALIGN \in Nat
    BY <1>5, <2>3, <2>5, ListSizes
  <2> QED BY <1>1, <2>3, <2>4, <2>6 DEF i
<1>7. ASSUME F = {}, NEW i \in kFreeLists, p.free_lists[i] # <<>>
      PROVE  (i + 1) * kALIGN < size
  <2> HIDE DEF F
  <2>1. ~(i >= g)
    BY <1>3, <1>7
  <2>2. i \in Nat /\ g \in Nat
    BY <1>1, <1>4
  <2>3. i < g
    BY <2>1, <2>2
  <2> QED BY <1>1, <2>2, <2>3, ListSizes
<1> QED BY <1>6, <1>7 DEF F, g, size

\* malloc's area becomes the space.
LEMMA MallocTiles ==
    ASSUME PoolOK(pool), areas \subseteq Area, Bounded,
           NEW n \in Nat \ {0}, n <= kMax_Bytes, left_size(pool) < ROUND_UP(n),
           Tiles(pool, live, AreaBytes),
           NEW q, PoolOK(q), q.free_lists = Salvage(pool).free_lists,
           q.begin_free = Address, NEW w \in Nat, left_size(q) = w
    PROVE  Tiles(q, live, AreaBytes \cup Bytes(Address, w))
<1> DEFINE e == Exhausted(Salvage(pool))
<1>1. PoolOK(Salvage(pool))
  BY SalvageFacts
<1>2. PoolOK(e) /\ left_size(e) = 0 /\ e.free_lists = Salvage(pool).free_lists
  BY <1>1, ExhaustedOK
<1> HIDE DEF e
<1>3. Tiles(e, live, AreaBytes)
  BY <1>2, SalvageTiles
<1>4. Held(q, <<"space">>) = Bytes(Address, w)
  BY HeldIs
<1>5. Bytes(Address, w) \cap AreaBytes = {}
  BY AddressFacts
<1>6. q.free_lists = e.free_lists
  BY <1>2
<1>7. Held(q, <<"space">>) \cap AreaBytes = {}
  BY <1>4, <1>5
<1>8. Tiles(q, live, AreaBytes \cup Held(q, <<"space">>))
  BY <1>2, <1>3, <1>6, <1>7, NewSpace
<1> QED BY <1>4, <1>8

LEMMA NewAreaFacts ==
    ASSUME PoolOK(pool), areas \subseteq Area, Bounded, NEW n \in Nat \ {0},
           NEW via \in {"malloc", "master_alloc"}, NewArea(n, via)
    PROVE  LET w == BytesToGet(pool, ROUND_UP(n)) IN
           /\ w \in Nat /\ areas' \subseteq Area /\ Bounded'
           /\ AreaBytes' = AreaBytes \cup Bytes(Address, w)
           /\ \A a \in areas' : a \in areas \/ (a.base = Address /\ a.via = via)
<1> DEFINE w == BytesToGet(pool, ROUND_UP(n))
           new == [base |-> Address, size |-> w, via |-> via]
<1>1. w \in Nat
  BY BytesToGetFacts
<1>2. Address \in Nat \ {0} /\ \A a \in areas : a.base + a.size < Address
  BY AddressFacts
<1>3. areas' = areas \cup {new}
  BY DEF NewArea
<1> HIDE DEF w
<1>4. new \in Area /\ new.base = Address /\ new.size = w /\ new.via = via
  BY <1>1, <1>2 DEF Area
<1> HIDE DEF new
<1>5. areas' \subseteq Area
  BY <1>3, <1>4
<1>6. Bounded'
  <2> DEFINE N == Address + w
  <2>1. N \in Nat
    BY <1>1, <1>2
  <2>2. ASSUME NEW a \in areas' PROVE a.base + a.size <= N
    <3>1. CASE a = new
      BY <1>4, <2>1, <3>1
    <3>2. CASE a \in areas
      <4>1. a.base + a.size < Address /\ a.base \in Nat /\ a.size \in Nat
        BY <1>2, <3>2 DEF Area
      <4> QED BY <1>1, <1>2, <4>1
    <3> QED BY <1>3, <3>1, <3>2
  <2> HIDE DEF N
  <2> QED BY <2>1, <2>2 DEF Bounded
<1>7. AreaBytes' = AreaBytes \cup Bytes(Address, w)
  BY <1>3, <1>4 DEF AreaBytes
<1>8. \A a \in areas' : a \in areas \/ (a.base = Address /\ a.via = via)
  BY <1>3, <1>4
<1> QED BY <1>1, <1>5, <1>6, <1>7, <1>8 DEF w

-----------------------------------------------------------------------------
(* The inductive invariant of the pool.                                    *)

PoolTypeOK ==
    /\ PoolOK(pool) /\ live \subseteq Block /\ IsFiniteSet(live)
    /\ areas \subseteq Area /\ Bounded /\ oom \in Nat /\ alive \in BOOLEAN

\* No two large blocks in use have one address.
LargeDiffer == \A b, d \in live :
    b.n > kMax_Bytes /\ d.n > kMax_Bytes /\ b.ptr = d.ptr => b = d

\* What malloc gave is on record until the destructor.
OnRecord == alive =>
    \A a \in areas : a.via = "malloc" => a.base \in pool.allocated_area

PoolInv ==
    /\ PoolTypeOK /\ LargeDiffer /\ OnRecord
    /\ Accounted /\ ThrowsOnlyWhenEmpty /\ AreasReturned

\* A block of the pool is returned to the caller.
LEMMA SmallAllocated ==
    ASSUME PoolInv, NEW n \in Requests, Asks(n), NEW a \in Nat,
           PoolOK(pool'), live' = live \cup {[ptr |-> a, n |-> n]}, oom' = 0,
           UNCHANGED <<heap, alive>>, areas' \subseteq Area, Bounded', OnRecord',
           Tiles(pool', live', AreaBytes')
    PROVE  PoolInv'
<1> DEFINE b0 == [ptr |-> a, n |-> n]
<1>1. n \in Nat \ {0} /\ n <= kMax_Bytes /\ alive /\ kMax_Bytes \in Nat
  BY MemPoolAssumption DEF Asks
<1>2. b0 \in Block /\ b0.n = n /\ ~(b0.n > kMax_Bytes)
  BY <1>1 DEF Block
<1>3. live' = live \cup {b0}
  OBVIOUS
<1> HIDE DEF b0
<1>4. live' \subseteq Block /\ IsFiniteSet(live')
  BY <1>2, <1>3, FS_AddElement DEF PoolInv, PoolTypeOK
<1>5. alive' = alive /\ heap' = heap /\ alive' \in BOOLEAN /\ oom' \in Nat
  BY DEF PoolInv, PoolTypeOK
<1>6. PoolTypeOK'
  BY <1>4, <1>5 DEF PoolTypeOK
<1>7. {x \in live' : x.n > kMax_Bytes} = {x \in live : x.n > kMax_Bytes}
  BY <1>2, <1>3
<1>8. LargeDiffer'
  BY <1>2, <1>3 DEF PoolInv, LargeDiffer
<1>9. heap' = {b.ptr : b \in {x \in live' : x.n > kMax_Bytes}}
  BY <1>1, <1>5, <1>7 DEF PoolInv, Accounted
<1>10. Accounted'
  BY <1>9 DEF Accounted
<1>11. ThrowsOnlyWhenEmpty' /\ AreasReturned'
  BY <1>1, <1>5 DEF ThrowsOnlyWhenEmpty, AreasReturned
<1> QED BY <1>6, <1>8, <1>10, <1>11 DEF PoolInv

LEMMA KeptAreas ==
    ASSUME PoolInv, alive, UNCHANGED <<areas, alive>>,
           pool.allocated_area \subseteq pool'.allocated_area
    PROVE  /\ areas' \subseteq Area /\ Bounded' /\ OnRecord' /\ AreaBytes' = AreaBytes
<1>1. areas' \subseteq Area /\ Bounded' /\ AreaBytes' = AreaBytes
  BY DEF PoolInv, PoolTypeOK, Bounded, AreaBytes
<1>2. OnRecord'
  BY DEF PoolInv, OnRecord
<1> QED BY <1>1, <1>2

LEMMA AllocateFromListKeeps ==
    ASSUME PoolInv, NEW n \in Requests, AllocateFromList(n)
    PROVE  PoolInv'
<1> DEFINE i == GET_FREELIST_INDEX(n)
           a == Head(pool.free_lists[i])
<1>1. /\ n \in Nat \ {0} /\ n <= kMax_Bytes /\ alive /\ PoolOK(pool)
      /\ Tiles(pool, live, AreaBytes)
  BY MemPoolAssumption DEF AllocateFromList, Asks, PoolInv, PoolTypeOK, Accounted
<1>2. i \in kFreeLists
  BY <1>1, RoundFacts
<1>3. /\ pool' = [pool EXCEPT !.free_lists[i] = Tail(pool.free_lists[i])]
      /\ pool.free_lists[i] # <<>> /\ Asks(n)
      /\ live' = live \cup {[ptr |-> a, n |-> n]}
      /\ oom' = 0 /\ UNCHANGED <<heap, alive, areas>>
  BY DEF AllocateFromList, Returns
<1>4. a \in Nat /\ Tail(pool.free_lists[i]) \in Seq(Nat)
  BY <1>1, <1>2, <1>3, PoolFacts, HeadTailProperties
<1> HIDE DEF i, a
<1> DEFINE F == [pool.free_lists EXCEPT ![i] = Tail(pool.free_lists[i])]
<1>5. F \in [kFreeLists -> Seq(Nat)]
  BY <1>1, <1>2, <1>4, PoolFacts
<1>6. pool \in [free_lists : [kFreeLists -> Seq(Nat)], begin_free : Nat, end_free : Nat,
                heap_size : Nat, allocated_area : SUBSET Nat]
  BY <1>1 DEF PoolOK
<1>7. pool' = [pool EXCEPT !.free_lists = F]
  BY <1>3, <1>6
<1> HIDE DEF F
<1>8. /\ pool' \in [free_lists : [kFreeLists -> Seq(Nat)], begin_free : Nat, end_free : Nat,
                    heap_size : Nat, allocated_area : SUBSET Nat]
      /\ pool'.free_lists = F /\ pool'.begin_free = pool.begin_free
      /\ pool'.end_free = pool.end_free /\ pool'.allocated_area = pool.allocated_area
  BY <1>5, <1>6, <1>7
<1>9. PoolOK(pool')
  <2>1. left_size(pool') = left_size(pool)
    BY <1>8 DEF left_size
  <2> QED BY <1>1, <1>8, <2>1 DEF PoolOK
<1>10. Popped(pool, pool', i)
  BY <1>8 DEF Popped, F
<1>11. Tiles(pool', live', AreaBytes)
  BY <1>1, <1>3, <1>8, <1>9, <1>10, TakenTiles DEF i, a
<1>12. areas' \subseteq Area /\ Bounded' /\ OnRecord' /\ AreaBytes' = AreaBytes
  BY <1>1, <1>3, <1>8, KeptAreas
<1> QED BY <1>3, <1>4, <1>9, <1>11, <1>12, SmallAllocated

LEMMA AllocateFromSpaceKeeps ==
    ASSUME PoolInv, NEW n \in Requests, AllocateFromSpace(n)
    PROVE  PoolInv'
<1>1. /\ n \in Nat \ {0} /\ n <= kMax_Bytes /\ alive /\ PoolOK(pool)
      /\ Tiles(pool, live, AreaBytes) /\ Asks(n)
      /\ pool.free_lists[GET_FREELIST_INDEX(n)] = <<>>
      /\ refill(pool, n) /\ UNCHANGED areas
  BY MemPoolAssumption
     DEF AllocateFromSpace, Refills, Asks, PoolInv, PoolTypeOK, Accounted
<1>2. ROUND_UP(n) <= left_size(pool)
  BY <1>1, RoundFacts, PoolFacts DEF AllocateFromSpace
<1>3. /\ PoolOK(pool') /\ Tiles(pool', live', AreaBytes)
      /\ live' = live \cup {[ptr |-> pool.begin_free, n |-> n]}
      /\ oom' = 0 /\ UNCHANGED <<heap, alive>>
      /\ pool'.allocated_area = pool.allocated_area
  BY <1>1, <1>2, RefillStep
<1>4. areas' \subseteq Area /\ Bounded' /\ OnRecord' /\ AreaBytes' = AreaBytes
  BY <1>1, <1>3, KeptAreas
<1>5. pool.begin_free \in Nat
  BY <1>1, PoolFacts
<1> QED BY <1>1, <1>3, <1>4, <1>5, SmallAllocated

\* The steps that call malloc.
LEMMA NeedsAreaFacts ==
    ASSUME PoolInv, NEW n \in Requests, NeedsArea(n)
    PROVE  /\ n \in Nat \ {0} /\ n <= kMax_Bytes /\ alive /\ Asks(n) /\ PoolOK(pool)
           /\ Tiles(pool, live, AreaBytes) /\ left_size(pool) < ROUND_UP(n)
           /\ PoolOK(Salvage(pool))
           /\ Salvage(pool).allocated_area = pool.allocated_area
           /\ Salvage(pool).free_lists[GET_FREELIST_INDEX(n)] = <<>>
           /\ areas \subseteq Area /\ Bounded
           /\ ROUND_UP(n) \in Nat
<1>1. /\ n \in Nat \ {0} /\ n <= kMax_Bytes /\ alive /\ Asks(n) /\ PoolOK(pool)
      /\ Tiles(pool, live, AreaBytes) /\ left_size(pool) < ROUND_UP(n)
      /\ pool.free_lists[GET_FREELIST_INDEX(n)] = <<>>
      /\ areas \subseteq Area /\ Bounded
  BY MemPoolAssumption DEF NeedsArea, Refills, Asks, PoolInv, PoolTypeOK, Accounted
<1>2. /\ PoolOK(Salvage(pool))
      /\ Salvage(pool).allocated_area = pool.allocated_area
      /\ Salvage(pool).free_lists[GET_FREELIST_INDEX(n)] =
            pool.free_lists[GET_FREELIST_INDEX(n)]
  BY <1>1, SalvageFacts
<1>3. ROUND_UP(n) \in Nat
  BY <1>1, RoundFacts
<1> QED BY <1>1, <1>2, <1>3

\* A new area, however it was got, and a refill from it.
LEMMA NewAreaKeeps ==
    ASSUME PoolInv, NEW n \in Requests, NeedsArea(n),
           NEW via \in {"malloc", "master_alloc"}, NewArea(n, via),
           NEW h \in Nat, NEW A \in SUBSET Nat,
           pool.allocated_area \subseteq A, via = "malloc" => Address \in A,
           NEW q,
           Respaced(Salvage(pool), q, Address, BytesToGet(pool, ROUND_UP(n)), h, A),
           refill(q, n)
    PROVE  PoolInv'
<1> DEFINE p == Salvage(pool)
           w == BytesToGet(pool, ROUND_UP(n))
<1>1. /\ n \in Nat \ {0} /\ n <= kMax_Bytes /\ alive /\ Asks(n) /\ PoolOK(pool)
      /\ Tiles(pool, live, AreaBytes) /\ left_size(pool) < ROUND_UP(n) /\ PoolOK(p)
      /\ p.free_lists[GET_FREELIST_INDEX(n)] = <<>>
      /\ areas \subseteq Area /\ Bounded
  BY NeedsAreaFacts
<1>2. w \in Nat /\ Aligned(w) /\ ROUND_UP(n) <= w
  BY <1>1, BytesToGetFacts
<1>3. Address \in Nat
  BY <1>1, AddressFacts
<1>4. /\ PoolOK(q) /\ q.free_lists = p.free_lists /\ left_size(q) = w
      /\ q.begin_free = Address /\ q.allocated_area = A
  <2>1. Respaced(p, q, Address, w, h, A)
    OBVIOUS
  <2> HIDE DEF p, w
  <2> QED BY <1>1, <1>2, <1>3, <2>1, NewSpaceOK
<1> HIDE DEF w
<1>5. Tiles(q, live, AreaBytes \cup Bytes(Address, w))
  BY <1>1, <1>2, <1>4, MallocTiles
<1>6. /\ PoolOK(pool') /\ Tiles(pool', live', AreaBytes \cup Bytes(Address, w))
      /\ live' = live \cup {[ptr |-> Address, n |-> n]}
      /\ oom' = 0 /\ UNCHANGED <<heap, alive>> /\ pool'.allocated_area = A
  <2>1. q.free_lists[GET_FREELIST_INDEX(n)] = <<>> /\ ROUND_UP(n) <= left_size(q)
    BY <1>1, <1>2, <1>4
  <2> HIDE DEF p
  <2> QED BY <1>1, <1>4, <1>5, <2>1, RefillStep
<1>7. /\ areas' \subseteq Area /\ Bounded'
      /\ AreaBytes' = AreaBytes \cup Bytes(Address, w)
      /\ \A a \in areas' : a \in areas \/ (a.base = Address /\ a.via = via)
  BY <1>1, NewAreaFacts DEF w
<1>8. OnRecord'
  BY <1>6, <1>7, <1>1 DEF PoolInv, OnRecord
<1> QED BY <1>1, <1>3, <1>6, <1>7, <1>8, SmallAllocated

LEMMA AllocateFromMallocKeeps ==
    ASSUME PoolInv, NEW n \in Requests,
           AllocateFromMalloc(n) \/ AllocateFromMasterAlloc(n)
    PROVE  PoolInv'
<1> DEFINE p == Salvage(pool)
           w == BytesToGet(pool, ROUND_UP(n))
           h == p.heap_size + w
<1>1. NeedsArea(n)
  BY DEF AllocateFromMalloc, AllocateFromMasterAlloc
<1>2. PoolOK(p) /\ w \in Nat /\ Address \in Nat /\ p.allocated_area = pool.allocated_area
  BY <1>1, NeedsAreaFacts, BytesToGetFacts, AddressFacts
<1>3. h \in Nat /\ p.allocated_area \subseteq Nat
  BY <1>2, PoolFacts
<1>4. CASE AllocateFromMalloc(n)
  <2> DEFINE A == p.allocated_area \cup {Address}
             q == FromMalloc(p, Address, w)
  <2>1. refill(q, n) /\ NewArea(n, "malloc")
    BY <1>4 DEF AllocateFromMalloc
  <2>2. Respaced(p, q, Address, w, h, A)
    BY <1>2 DEF FromMalloc, Respaced, PoolOK
  <2>3. A \in SUBSET Nat /\ pool.allocated_area \subseteq A /\ Address \in A
    BY <1>2, <1>3
  <2> HIDE DEF A, q, h
  <2> QED BY <1>1, <1>3, <2>1, <2>2, <2>3, NewAreaKeeps
<1>5. CASE AllocateFromMasterAlloc(n)
  <2> DEFINE A == p.allocated_area \cup {0}
             q == FromMasterAlloc(p, Address, w)
  <2>1. refill(q, n) /\ NewArea(n, "master_alloc")
    BY <1>5 DEF AllocateFromMasterAlloc
  <2>2. Respaced(p, q, Address, w, h, A)
    BY <1>2 DEF FromMasterAlloc, Respaced, PoolOK
  <2>3. A \in SUBSET Nat /\ pool.allocated_area \subseteq A
    BY <1>2, <1>3
  <2> HIDE DEF A, q, h
  <2>4. "master_alloc" # "malloc"
    OBVIOUS
  <2> QED BY <1>1, <1>3, <2>1, <2>2, <2>3, <2>4, NewAreaKeeps
<1> QED BY <1>4, <1>5

LEMMA AllocateFromLargerBlockKeeps ==
    ASSUME PoolInv, NEW n \in Requests, AllocateFromLargerBlock(n)
    PROVE  PoolInv'
<1> DEFINE p == Salvage(pool)
           i == Min(Fitting(p, ROUND_UP(n)))
           q == FromList(p, i)
           e == Exhausted(p)
           a == Head(p.free_lists[i])
<1>1. NeedsArea(n) /\ Fitting(p, ROUND_UP(n)) # {} /\ refill(q, n) /\ UNCHANGED areas
  BY DEF AllocateFromLargerBlock
<1>2. /\ n \in Nat \ {0} /\ n <= kMax_Bytes /\ alive /\ Asks(n) /\ PoolOK(pool)
      /\ Tiles(pool, live, AreaBytes) /\ left_size(pool) < ROUND_UP(n) /\ PoolOK(p)
      /\ p.free_lists[GET_FREELIST_INDEX(n)] = <<>>
      /\ p.allocated_area = pool.allocated_area
  BY <1>1, NeedsAreaFacts
<1> HIDE DEF p
<1>3. /\ i \in kFreeLists /\ p.free_lists[i] # <<>> /\ i # GET_FREELIST_INDEX(n)
      /\ ROUND_UP(n) <= (i + 1) * kALIGN
  BY <1>1, <1>2, FittingFacts
<1> HIDE DEF i
<1>4. /\ PoolOK(q) /\ Popped(p, q, i) /\ q.begin_free = a
      /\ left_size(q) = (i + 1) * kALIGN
      /\ q.allocated_area = p.allocated_area \cup {0}
  BY <1>2, <1>3, FromListOK
<1>5. PoolOK(e) /\ left_size(e) = 0 /\ e.free_lists = p.free_lists
  BY <1>2, ExhaustedOK
<1> HIDE DEF q, e
<1>6. Tiles(e, live, AreaBytes)
  BY <1>2, <1>5, SalvageTiles DEF p
<1>7. Popped(e, q, i) /\ e.free_lists[i] # <<>> /\ q.begin_free = Head(e.free_lists[i])
  BY <1>3, <1>4, <1>5 DEF Popped
<1>8. Tiles(q, live, AreaBytes)
  BY <1>3, <1>4, <1>5, <1>6, <1>7, CutTiles
<1>9. q.free_lists[GET_FREELIST_INDEX(n)] = <<>>
  <2>1. p.free_lists \in [kFreeLists -> Seq(Nat)]
    BY <1>2, PoolFacts
  <2> QED BY <1>2, <1>3, <1>4, <2>1 DEF Popped
<1>10. /\ PoolOK(pool') /\ Tiles(pool', live', AreaBytes)
       /\ live' = live \cup {[ptr |-> q.begin_free, n |-> n]}
       /\ oom' = 0 /\ UNCHANGED <<heap, alive>>
       /\ pool'.allocated_area = q.allocated_area
  BY <1>1, <1>2, <1>3, <1>4, <1>8, <1>9, RefillStep
<1>11. areas' \subseteq Area /\ Bounded' /\ OnRecord' /\ AreaBytes' = AreaBytes
  BY <1>1, <1>2, <1>4, <1>10, KeptAreas
<1>12. q.begin_free \in Nat
  BY <1>4, PoolFacts
<1> QED BY <1>2, <1>10, <1>11, <1>12, SmallAllocated

\* malloc, the lists and master_alloc had nothing.
LEMMA AllocateThrowsKeeps ==
    ASSUME PoolInv, NEW n \in Requests, AllocateThrows(n)
    PROVE  PoolInv'
<1> DEFINE p == Salvage(pool)
           size == ROUND_UP(n)
<1>1. /\ NeedsArea(n) /\ Fitting(p, size) = {} /\ pool' = Exhausted(p) /\ oom' = n
      /\ UNCHANGED <<areas, live, heap, alive>>
  BY DEF AllocateThrows
<1>2. /\ n \in Nat \ {0} /\ n <= kMax_Bytes /\ alive /\ PoolOK(pool)
      /\ Tiles(pool, live, AreaBytes) /\ left_size(pool) < size /\ PoolOK(p)
      /\ p.free_lists[GET_FREELIST_INDEX(n)] = <<>>
      /\ p.allocated_area = pool.allocated_area /\ size \in Nat
  BY <1>1, NeedsAreaFacts
<1>3. /\ PoolOK(pool') /\ left_size(pool') = 0 /\ pool'.free_lists = p.free_lists
      /\ pool'.allocated_area = p.allocated_area \cup {0}
  BY <1>1, <1>2, ExhaustedOK
<1>4. Tiles(pool', live, AreaBytes)
  BY <1>2, <1>3, SalvageTiles
<1>5. areas' \subseteq Area /\ Bounded' /\ OnRecord' /\ AreaBytes' = AreaBytes
  BY <1>1, <1>2, <1>3, KeptAreas
<1>6. Accounted' /\ LargeDiffer' /\ AreasReturned'
  BY <1>1, <1>2, <1>4, <1>5 DEF PoolInv, Accounted, LargeDiffer, AreasReturned
<1>7. PoolTypeOK'
  BY <1>1, <1>2, <1>3, <1>5 DEF PoolInv, PoolTypeOK
<1>8. ASSUME NEW x \in Free(pool') PROVE Size(pool', x) < size
  <2>1. CASE x = <<"space">>
    <3>1. Size(pool', x) = left_size(pool')
      BY <2>1 DEF Size
    <3>2. 0 < size
      BY <1>2, RoundFacts
    <3> HIDE DEF size
    <3> QED BY <1>3, <3>1, <3>2
  <2>2. CASE x \in Listed(pool')
    <3>1. PICK i, k : /\ i \in kFreeLists /\ k \in 1 .. Len(pool'.free_lists[i])
                      /\ x = <<"list", i, k>>
      BY <1>3, <2>2, ListedIs
    <3>2. Size(pool', x) = (i + 1) * kALIGN
      BY <3>1 DEF Size
    <3>3. p.free_lists[i] # <<>>
      <4>1. CASE p.free_lists[i] = <<>>
        <5>1. Len(pool'.free_lists[i]) = 0
          BY <1>3, <4>1, EmptySeq
        <5> QED BY <3>1, <5>1
      <4> QED BY <4>1
    <3>4. (i + 1) * kALIGN < size
      <4> HIDE DEF p
      <4> QED BY <1>1, <1>2, <3>1, <3>3, FittingFacts
    <3> QED BY <3>2, <3>4
  <2> QED BY <2>1, <2>2 DEF Free
<1>9. ThrowsOnlyWhenEmpty'
  BY <1>1, <1>8 DEF ThrowsOnlyWhenEmpty
<1> QED BY <1>5, <1>6, <1>7, <1>9 DEF PoolInv

LEMMA AllocateLargeKeeps ==
    ASSUME PoolInv, NEW n \in Requests, AllocateLarge(n)
    PROVE  PoolInv'
<1> DEFINE b0 == [ptr |-> LargeAddress, n |-> n]
<1>1. /\ alive /\ Cardinality(live) < MaxLive /\ n > kMax_Bytes
      /\ live' = live \cup {b0} /\ heap' = heap \cup {LargeAddress}
      /\ oom' = 0 /\ UNCHANGED <<pool, areas, alive>>
  BY DEF AllocateLarge
<1>2. /\ live \subseteq Block /\ IsFiniteSet(live) /\ n \in Nat \ {0} /\ kMax_Bytes \in Nat
      /\ heap = {b.ptr : b \in {x \in live : x.n > kMax_Bytes}}
      /\ Tiles(pool, live, AreaBytes)
  BY <1>1, MemPoolAssumption DEF PoolInv, PoolTypeOK, Accounted
<1>3. LargeAddress \in 1 .. MaxLive \ heap
  BY <1>1, <1>2, LargeAddressFacts
<1>4. b0 \in Block /\ b0.n = n /\ b0.ptr = LargeAddress
  BY <1>2, <1>3 DEF Block
<1> HIDE DEF b0
<1>5. live' \subseteq Block /\ IsFiniteSet(live')
  BY <1>1, <1>2, <1>4, FS_AddElement
<1>6. areas' \subseteq Area /\ Bounded' /\ OnRecord' /\ AreaBytes' = AreaBytes
  BY <1>1, KeptAreas
<1>7. PoolTypeOK'
  BY <1>1, <1>5, <1>6 DEF PoolInv, PoolTypeOK
<1>8. \A b \in live : b.n > kMax_Bytes => b.ptr # b0.ptr
  BY <1>2, <1>3, <1>4
<1>9. LargeDiffer'
  <2>1. ASSUME NEW b \in live', NEW d \in live', b.n > kMax_Bytes, d.n > kMax_Bytes,
               b.ptr = d.ptr
        PROVE  b = d
    <3>1. CASE b \in live /\ d \in live
      BY <2>1, <3>1 DEF PoolInv, LargeDiffer
    <3>2. CASE ~(b \in live /\ d \in live)
      BY <1>1, <1>8, <2>1, <3>2
    <3> QED BY <3>1, <3>2
  <2> QED BY <2>1 DEF LargeDiffer
<1>10. {b \in live : b.n <= kMax_Bytes} = {b \in live' : b.n <= kMax_Bytes}
  BY <1>1, <1>2, <1>4
<1>11. Tiles(pool', live', AreaBytes')
  BY <1>1, <1>2, <1>6, <1>10, LargeTiles
<1>12. heap' = {b.ptr : b \in {x \in live' : x.n > kMax_Bytes}}
  BY <1>1, <1>2, <1>4
<1>13. Accounted'
  BY <1>11, <1>12 DEF Accounted
<1>14. ThrowsOnlyWhenEmpty' /\ AreasReturned'
  BY <1>1 DEF ThrowsOnlyWhenEmpty, AreasReturned
<1> QED BY <1>6, <1>7, <1>9, <1>13, <1>14 DEF PoolInv

LEMMA DeallocateKeeps ==
    ASSUME PoolInv, NEW b \in live, Deallocate(b)
    PROVE  PoolInv'
<1>1. alive /\ live' = live \ {b} /\ oom' = 0 /\ UNCHANGED <<areas, alive>>
  BY DEF Deallocate
<1>2. /\ live \subseteq Block /\ IsFiniteSet(live) /\ PoolOK(pool)
      /\ heap = {d.ptr : d \in {x \in live : x.n > kMax_Bytes}}
      /\ Tiles(pool, live, AreaBytes) /\ kMax_Bytes \in Nat
  BY <1>1, MemPoolAssumption DEF PoolInv, PoolTypeOK, Accounted
<1>3. b \in Block /\ b.ptr \in Nat /\ b.n \in Nat \ {0}
  BY <1>2, BlockFacts
<1>4. live' \subseteq Block /\ IsFiniteSet(live')
  BY <1>1, <1>2, FS_RemoveElement
<1>5. LargeDiffer'
  BY <1>1 DEF PoolInv, LargeDiffer
<1>6. /\ PoolOK(pool') /\ pool'.allocated_area = pool.allocated_area
      /\ Tiles(pool', live', AreaBytes)
      /\ heap' = {d.ptr : d \in {x \in live' : x.n > kMax_Bytes}}
  <2>1. CASE b.n > kMax_Bytes
    <3>1. heap' = heap \ {b.ptr} /\ pool' = pool
      BY <2>1 DEF Deallocate
    <3>2. {d \in live : d.n <= kMax_Bytes} = {d \in live' : d.n <= kMax_Bytes}
      BY <1>1, <1>2, <1>3, <2>1
    <3>3. Tiles(pool', live', AreaBytes)
      BY <1>2, <3>1, <3>2, LargeTiles
    <3>4. \A d \in live : d.n > kMax_Bytes /\ d # b => d.ptr # b.ptr
      BY <2>1 DEF PoolInv, LargeDiffer
    <3>5. heap' = {d.ptr : d \in {x \in live' : x.n > kMax_Bytes}}
      BY <1>1, <1>2, <3>1, <3>4
    <3> QED BY <1>2, <3>1, <3>3, <3>5
  <2>2. CASE ~(b.n > kMax_Bytes)
    <3>1. pool' = PushBlock(pool, b.ptr, b.n) /\ heap' = heap /\ b.n <= kMax_Bytes
      BY <1>2, <1>3, <2>2 DEF Deallocate
    <3>2. /\ PoolOK(pool') /\ pool'.allocated_area = pool.allocated_area
          /\ pool'.begin_free = pool.begin_free /\ pool'.end_free = pool.end_free
          /\ Pushed(pool, pool', GET_FREELIST_INDEX(b.n), b.ptr)
      <4>1. \A a \in Nat, m \in Nat \ {0} : m <= kMax_Bytes =>
               LET r == PushBlock(pool, a, m) IN
                  /\ PoolOK(r) /\ r.allocated_area = pool.allocated_area
                  /\ r.begin_free = pool.begin_free /\ r.end_free = pool.end_free
                  /\ Pushed(pool, r, GET_FREELIST_INDEX(m), a)
        BY <1>2, PushFacts
      <4> QED BY <1>3, <3>1, <4>1
    <3>3. Tiles(pool', live', AreaBytes)
      BY <1>1, <1>2, <1>3, <3>1, <3>2, ReturnedTiles
    <3>4. {x \in live : x.n > kMax_Bytes} = {x \in live' : x.n > kMax_Bytes}
      BY <1>1, <2>2
    <3> QED BY <1>2, <3>1, <3>2, <3>3, <3>4
  <2> QED BY <2>1, <2>2
<1>7. areas' \subseteq Area /\ Bounded' /\ OnRecord' /\ AreaBytes' = AreaBytes
  BY <1>1, <1>6, KeptAreas
<1>8. PoolTypeOK'
  BY <1>1, <1>4, <1>6, <1>7 DEF PoolInv, PoolTypeOK
<1>9. Accounted'
  BY <1>6, <1>7 DEF Accounted
<1>10. ThrowsOnlyWhenEmpty' /\ AreasReturned'
  BY <1>1 DEF ThrowsOnlyWhenEmpty, AreasReturned
<1> QED BY <1>5, <1>7, <1>8, <1>9, <1>10 DEF PoolInv

LEMMA DestructKeeps ==
    ASSUME PoolInv, Destruct
    PROVE  PoolInv'
<1>1. /\ alive /\ alive' = FALSE /\ oom' = 0 /\ UNCHANGED <<live, heap>>
      /\ areas' = {a \in areas : a.base \notin pool.allocated_area}
      /\ pool' = [pool EXCEPT !.allocated_area = {}]
  BY DEF Destruct
<1>2. PoolOK(pool) /\ areas \subseteq Area /\ Bounded
  BY DEF PoolInv, PoolTypeOK
<1>3. PoolOK(pool')
  <2>1. pool \in [free_lists : [kFreeLists -> Seq(Nat)], begin_free : Nat, end_free : Nat,
                  heap_size : Nat, allocated_area : SUBSET Nat]
    BY <1>2 DEF PoolOK
  <2>2. /\ pool' \in [free_lists : [kFreeLists -> Seq(Nat)], begin_free : Nat,
                      end_free : Nat, heap_size : Nat, allocated_area : SUBSET Nat]
        /\ pool'.begin_free = pool.begin_free /\ pool'.end_free = pool.end_free
    BY <1>1, <2>1
  <2>3. left_size(pool') = left_size(pool)
    BY <2>2 DEF left_size
  <2> QED BY <1>2, <2>2, <2>3 DEF PoolOK
<1>4. areas' \subseteq Area /\ Bounded'
  <2>1. areas' \subseteq areas
    BY <1>1
  <2> QED BY <1>2, <2>1 DEF Bounded
<1>5. PoolTypeOK'
  BY <1>1, <1>3, <1>4 DEF PoolInv, PoolTypeOK
<1>6. LargeDiffer' /\ OnRecord' /\ Accounted' /\ ThrowsOnlyWhenEmpty'
  BY <1>1 DEF PoolInv, LargeDiffer, OnRecord, Accounted, ThrowsOnlyWhenEmpty
<1>7. AreasReturned'
  <2>1. ASSUME NEW a \in areas' PROVE a.via = "master_alloc"
    <3>1. a \in areas /\ a.base \notin pool.allocated_area
      BY <1>1
    <3>2. a.via \in {"malloc", "master_alloc"}
      BY <1>2, <3>1 DEF Area
    <3>3. a.via # "malloc"
      BY <1>1, <3>1 DEF PoolInv, OnRecord
    <3> QED BY <3>2, <3>3
  <2> QED BY <2>1 DEF AreasReturned
<1> QED BY <1>5, <1>6, <1>7 DEF PoolInv

LEMMA PoolInvInit == PoolInit => PoolInv
<1> SUFFICES ASSUME PoolInit PROVE PoolInv
    OBVIOUS
<1>1. /\ pool = [free_lists |-> [i \in kFreeLists |-> <<>>],
                 begin_free |-> 0, end_free |-> 0, heap_size |-> 0,
                 allocated_area |-> {}]
      /\ areas = {} /\ live = {} /\ heap = {} /\ oom = 0 /\ alive = TRUE
  BY DEF PoolInit
<1>2. PoolOK(pool) /\ left_size(pool) = 0
  <2>1. [i \in kFreeLists |-> <<>>] \in [kFreeLists -> Seq(Nat)]
    BY EmptySeq
  <2>2. /\ pool \in [free_lists : [kFreeLists -> Seq(Nat)], begin_free : Nat,
                     end_free : Nat, heap_size : Nat, allocated_area : SUBSET Nat]
        /\ pool.begin_free = 0 /\ pool.end_free = 0
    BY <1>1, <2>1
  <2>3. left_size(pool) = 0
    BY <2>2 DEF left_size
  <2> QED BY <2>2, <2>3, AlignedFacts DEF PoolOK
<1>3. PoolTypeOK
  BY <1>1, <1>2, FS_EmptySet DEF PoolTypeOK, Bounded
<1>4. \A x \in Pieces(pool, live) : Held(pool, x) = {}
  <2>1. ASSUME NEW x \in Pieces(pool, live) PROVE Held(pool, x) = {}
    <3>1. x \notin Listed(pool)
      <4> SUFFICES ASSUME x \in Listed(pool) PROVE FALSE
          OBVIOUS
      <4>1. PICK i, k : i \in kFreeLists /\ k \in 1 .. Len(pool.free_lists[i])
        BY <1>2, ListedIs
      <4>2. Len(pool.free_lists[i]) = 0
        BY <1>1, <4>1, EmptySeq
      <4> QED BY <4>1, <4>2
    <3>2. x = <<"space">>
      BY <1>1, <1>2, <3>1, PieceFacts
    <3> QED BY <1>2, <3>2, HeldIs, BytesFacts, PoolFacts
  <2> QED BY <2>1
<1>5. AreaBytes = {}
  BY <1>1 DEF AreaBytes
<1>6. Tiles(pool, live, AreaBytes)
  BY <1>4, <1>5 DEF Tiles
<1>7. Accounted
  BY <1>1, <1>6 DEF Accounted
<1> QED BY <1>1, <1>3, <1>7
        DEF PoolInv, LargeDiffer, OnRecord, ThrowsOnlyWhenEmpty, AreasReturned

LEMMA PoolInvStep == PoolInv /\ [PoolNext]_poolVars => PoolInv'
<1> SUFFICES ASSUME PoolInv, [PoolNext]_poolVars PROVE PoolInv'
    OBVIOUS
<1>1. ASSUME NEW n \in Requests, Allocate(n) PROVE PoolInv'
  BY <1>1, AllocateFromListKeeps, AllocateFromSpaceKeeps, AllocateFromMallocKeeps,
     AllocateFromLargerBlockKeeps, AllocateThrowsKeeps, AllocateLargeKeeps DEF Allocate
<1>2. ASSUME NEW b \in live, Deallocate(b) PROVE PoolInv'
  BY <1>2, DeallocateKeeps
<1>3. CASE Destruct
  BY <1>3, DestructKeeps
<1>4. CASE UNCHANGED poolVars
  <2>1. UNCHANGED <<pool, areas, live, heap, oom, alive>>
    BY <1>4 DEF poolVars
  <2>2. PoolTypeOK' /\ LargeDiffer' /\ OnRecord'
    BY <2>1 DEF PoolInv, PoolTypeOK, LargeDiffer, OnRecord, Bounded
  <2>3. AreaBytes' = AreaBytes
    BY <2>1 DEF AreaBytes
  <2>4. Accounted' /\ ThrowsOnlyWhenEmpty' /\ AreasReturned'
    BY <2>1, <2>3 DEF PoolInv, Accounted, ThrowsOnlyWhenEmpty, AreasReturned
  <2> QED BY <2>2, <2>4 DEF PoolInv
<1> QED BY <1>1, <1>2, <1>3, <1>4 DEF PoolNext

LEMMA PoolInvHolds == PoolSpec => []PoolInv
  BY PoolInvInit, PoolInvStep, PTL DEF PoolSpec

\* Every byte malloc gave is in use, free in one list or in the space left, and
\* in only one of them: allocate never hands out a byte twice and none is lost,
\* whatever malloc answers and however often memory ran out.
THEOREM EveryByteAccounted == PoolSpec => []Accounted
<1>1. PoolInv => Accounted
  BY DEF PoolInv
<1> QED BY <1>1, PoolInvHolds, PTL

\* allocate throws only when no free block and no space left could have held
\* the request.
THEOREM ThrowsWhenNothingFits == PoolSpec => []ThrowsOnlyWhenEmpty
<1>1. PoolInv => ThrowsOnlyWhenEmpty
  BY DEF PoolInv
<1> QED BY <1>1, PoolInvHolds, PTL

\* ~mem_pool frees every area that malloc gave at the first try.
THEOREM MallocAreasReturned == PoolSpec => []AreasReturned
<1>1. PoolInv => AreasReturned
  BY DEF PoolInv
<1> QED BY <1>1, PoolInvHolds, PTL

=============================================================================
