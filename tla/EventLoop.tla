------------------------------ MODULE EventLoop ------------------------------
(***************************************************************************)
(* EventLoop.cpp and Bridge.cpp: the loop thread (Owner) going through     *)
(* poll, the handlers of the active channels and the pending callbacks,    *)
(* while other threads enqueue callbacks and call Quit.                    *)
(*                                                                         *)
(* EnqueueEventLoop is two steps, as in the code: the push under mtx_ and, *)
(* after the unlock, the test and WakeUp (the eventfd write).  Quit is two *)
(* steps for a foreign thread: the store to quit_ and WakeUp.  `post[t]'   *)
(* says which of the two thread t is in the middle of.                     *)
(*                                                                         *)
(* Poll is external: it returns when the eventfd counter is not zero, when *)
(* some other channel is ready, or at kPollTimeout.  Every channel except  *)
(* the Bridge's is a member of IoChannels, and its handler, like a pending *)
(* callback, may enqueue callbacks or call Quit.                           *)
(***************************************************************************)
EXTENDS Integers, Sequences

CONSTANTS Owner,       \* the thread that created the loop (threadId_)
          Others,      \* every other thread that holds a pointer to it
          Cbs,         \* callbacks; each stands for one call of the API
          IoChannels,  \* channels other than the Bridge's
          Bridge,      \* the eventfd channel
          None,        \* no handler and no callback is being run
          MaxQuit      \* bound: calls of Quit

Threads == Others \cup {Owner}

ASSUME ConstAssumption ==
    /\ Owner \notin Others
    /\ Bridge \notin IoChannels
    /\ None \notin IoChannels \cup Cbs \cup {Bridge}
    /\ IoChannels \cap Cbs = {} /\ Bridge \notin Cbs
    /\ MaxQuit \in Nat

VARIABLES
    pc,                 \* where the loop thread is in Loop()
    looping_, quit_, eventHandling_, callingPendingCbs_,
    activeChannels_,    \* channels Poll returned, not yet handled
    cur,                \* the channel or callback whose code is running
    pendingCbsQueue_,
    tmp_queue,          \* the local queue of HandlePendingCallbacks
    eventfd,            \* the counter behind Bridge::chan_
    post,               \* thread -> the call it has half done
    quits,              \* calls of Quit so far (bounded by MaxQuit)
    ran,                \* history: callbacks started, oldest first
    idleQueued          \* history: queued by Owner outside Loop()

loopVars == <<looping_, quit_, eventHandling_, callingPendingCbs_>>
vars == <<pc, loopVars, activeChannels_, cur, pendingCbsQueue_, tmp_queue,
          eventfd, post, quits, ran, idleQueued>>

Init ==
    /\ pc = "idle"
    /\ looping_ = FALSE /\ quit_ = FALSE
    /\ eventHandling_ = FALSE /\ callingPendingCbs_ = FALSE
    /\ activeChannels_ = {} /\ cur = None
    /\ pendingCbsQueue_ = <<>> /\ tmp_queue = <<>>
    /\ eventfd = 0
    /\ post = [t \in Threads |-> "none"]
    /\ quits = 0
    /\ ran = <<>> /\ idleQueued = {}

-----------------------------------------------------------------------------
\* Which thread may call into the loop, and with what.

\* The loop thread runs user code outside Loop(), in the handler of a
\* channel and in a pending callback.
OwnerInUserCode ==
    \/ pc = "idle"
    \/ pc = "active" /\ cur \in IoChannels
    \/ pc = "run" /\ cur \in Cbs

MayCall(t) == post[t] = "none" /\ (t = Owner => OwnerInUserCode)

IsInLoopThread(t) == t = Owner

In(cb, s) == \E i \in DOMAIN s : s[i] = cb

New(cb) == ~In(cb, pendingCbsQueue_) /\ ~In(cb, tmp_queue) /\ ~In(cb, ran)

-----------------------------------------------------------------------------
\* The operations any thread may call.

\* The push, under mtx_.
EnqueueEventLoop(t, cb) ==
    /\ MayCall(t) /\ New(cb)
    /\ pendingCbsQueue_' = Append(pendingCbsQueue_, cb)
    /\ post' = [post EXCEPT ![t] = "pushed"]
    /\ idleQueued' = IF t = Owner /\ pc = "idle" THEN idleQueued \cup {cb}
                     ELSE idleQueued
    /\ UNCHANGED <<pc, loopVars, activeChannels_, cur, tmp_queue, eventfd,
                   quits, ran>>

WakeUp == eventfd' = eventfd + 1

\* Mutant: only a foreign thread writes the eventfd.
NeedsWakeUp_OnlyForeign(t) == ~IsInLoopThread(t)

NeedsWakeUp(t) == ~IsInLoopThread(t) \/ callingPendingCbs_

\* Mutant: the push is not followed by WakeUp.
EnqueueDone_NoWakeUp(t) ==
    /\ post[t] = "pushed"
    /\ post' = [post EXCEPT ![t] = "none"]
    /\ UNCHANGED <<pc, loopVars, activeChannels_, cur, pendingCbsQueue_,
                   tmp_queue, eventfd, quits, ran, idleQueued>>

\* After the unlock: wake the loop if it may be about to sleep.
EnqueueDone(t) ==
    /\ post[t] = "pushed"
    /\ IF NeedsWakeUp(t) THEN WakeUp ELSE UNCHANGED eventfd
    /\ post' = [post EXCEPT ![t] = "none"]
    /\ UNCHANGED <<pc, loopVars, activeChannels_, cur, pendingCbsQueue_,
                   tmp_queue, quits, ran, idleQueued>>

\* In the loop thread the callback runs inside the call; any other thread
\* takes the path of EnqueueEventLoop.
RunInEventLoop(t, cb) ==
    IF IsInLoopThread(t)
    THEN /\ MayCall(t) /\ New(cb)
         /\ ran' = Append(ran, cb)
         /\ UNCHANGED <<pc, loopVars, activeChannels_, cur, pendingCbsQueue_,
                        tmp_queue, eventfd, post, quits, idleQueued>>
    ELSE EnqueueEventLoop(t, cb)

Quit(t) ==
    /\ MayCall(t) /\ quits < MaxQuit
    /\ quits' = quits + 1
    /\ quit_' = TRUE
    /\ post' = [post EXCEPT ![t] = IF IsInLoopThread(t) THEN "none"
                                   ELSE "quitting"]
    /\ UNCHANGED <<pc, looping_, eventHandling_, callingPendingCbs_,
                   activeChannels_, cur, pendingCbsQueue_, tmp_queue, eventfd,
                   ran, idleQueued>>

\* Mutant: Quit only sets the flag.
QuitDone_NoWakeUp(t) ==
    /\ post[t] = "quitting"
    /\ post' = [post EXCEPT ![t] = "none"]
    /\ UNCHANGED <<pc, loopVars, activeChannels_, cur, pendingCbsQueue_,
                   tmp_queue, eventfd, quits, ran, idleQueued>>

QuitDone(t) ==
    /\ post[t] = "quitting"
    /\ WakeUp
    /\ post' = [post EXCEPT ![t] = "none"]
    /\ UNCHANGED <<pc, loopVars, activeChannels_, cur, pendingCbsQueue_,
                   tmp_queue, quits, ran, idleQueued>>

-----------------------------------------------------------------------------
\* The loop thread in Loop().  It takes a step of the loop only when no call
\* it made itself is half done.

LoopAt(p) == pc = p /\ post[Owner] = "none"

Loop ==
    /\ LoopAt("idle")
    /\ pc' = "start" /\ looping_' = TRUE
    /\ UNCHANGED <<quit_, eventHandling_, callingPendingCbs_, activeChannels_,
                   cur, pendingCbsQueue_, tmp_queue, eventfd, post, quits, ran,
                   idleQueued>>

\* quit_ = false: a Quit() that came first is forgotten.
LoopResetQuit ==
    /\ LoopAt("start")
    /\ pc' = "test" /\ quit_' = FALSE
    /\ UNCHANGED <<looping_, eventHandling_, callingPendingCbs_,
                   activeChannels_, cur, pendingCbsQueue_, tmp_queue, eventfd,
                   post, quits, ran, idleQueued>>

\* Mutant: the test consumes quit_ and polls once more.
LoopTest_ForgetsQuit ==
    /\ LoopAt("test")
    /\ quit_' = FALSE
    /\ pc' = "poll" /\ activeChannels_' = {}
    /\ UNCHANGED <<looping_, eventHandling_, callingPendingCbs_, cur,
                   pendingCbsQueue_, tmp_queue, eventfd, post, quits, ran,
                   idleQueued>>

\* while (!quit_): clear the active list and enter poll, or return.
LoopTest ==
    /\ LoopAt("test")
    /\ IF quit_ THEN /\ pc' = "idle" /\ looping_' = FALSE
                     /\ UNCHANGED activeChannels_
                ELSE /\ pc' = "poll" /\ activeChannels_' = {}
                     /\ UNCHANGED looping_
    /\ UNCHANGED <<quit_, eventHandling_, callingPendingCbs_, cur,
                   pendingCbsQueue_, tmp_queue, eventfd, post, quits, ran,
                   idleQueued>>

BridgeReady == IF eventfd > 0 THEN {Bridge} ELSE {}

PollReturnWith(active) ==
    /\ LoopAt("poll")
    /\ pc' = "active" /\ eventHandling_' = TRUE
    /\ activeChannels_' = active
    /\ UNCHANGED <<looping_, quit_, callingPendingCbs_, cur, pendingCbsQueue_,
                   tmp_queue, eventfd, post, quits, ran, idleQueued>>

\* poll(2) reports every ready channel; the eventfd is ready iff not zero.
PollReturn ==
    \E io \in SUBSET IoChannels :
        /\ io \cup BridgeReady # {}
        /\ PollReturnWith(io \cup BridgeReady)

\* kPollTimeout passed, or a signal came (EINTR), and nothing was ready.
PollTimeout == eventfd = 0 /\ PollReturnWith({})

\* The handler of the Bridge: reading the eventfd resets it.
HandleWakeUpFdRead == eventfd' = 0

\* One round of the loop in HandleActiveChannels.  What the handler of a
\* channel other than the Bridge's does is the calls it makes while cur is
\* that channel.
HandleEvents(c) ==
    /\ LoopAt("active") /\ c \in activeChannels_
    /\ activeChannels_' = activeChannels_ \ {c}
    /\ cur' = c
    /\ IF c = Bridge THEN HandleWakeUpFdRead ELSE UNCHANGED eventfd
    /\ UNCHANGED <<pc, loopVars, pendingCbsQueue_, tmp_queue, post, quits, ran,
                   idleQueued>>

HandleActiveChannelsDone ==
    /\ LoopAt("active") /\ activeChannels_ = {}
    /\ pc' = "pending" /\ eventHandling_' = FALSE /\ cur' = None
    /\ UNCHANGED <<looping_, quit_, callingPendingCbs_, activeChannels_,
                   pendingCbsQueue_, tmp_queue, eventfd, post, quits, ran,
                   idleQueued>>

\* Mutant: the queue is copied, not swapped.
HandlePendingCallbacks_Copy ==
    /\ LoopAt("pending")
    /\ pc' = "run" /\ callingPendingCbs_' = TRUE
    /\ tmp_queue' = pendingCbsQueue_
    /\ UNCHANGED <<looping_, quit_, eventHandling_, activeChannels_, cur,
                   pendingCbsQueue_, eventfd, post, quits, ran, idleQueued>>

\* The flag, then the swap under mtx_.  Only the loop thread reads the flag
\* (NeedsWakeUp), so the two are one step.
HandlePendingCallbacks ==
    /\ LoopAt("pending")
    /\ pc' = "run" /\ callingPendingCbs_' = TRUE
    /\ tmp_queue' = pendingCbsQueue_
    /\ pendingCbsQueue_' = <<>>
    /\ UNCHANGED <<looping_, quit_, eventHandling_, activeChannels_, cur,
                   eventfd, post, quits, ran, idleQueued>>

RunCallback ==
    /\ LoopAt("run") /\ tmp_queue # <<>>
    /\ cur' = Head(tmp_queue)
    /\ ran' = Append(ran, Head(tmp_queue))
    /\ tmp_queue' = Tail(tmp_queue)
    /\ UNCHANGED <<pc, loopVars, activeChannels_, pendingCbsQueue_, eventfd,
                   post, quits, idleQueued>>

HandlePendingCallbacksDone ==
    /\ LoopAt("run") /\ tmp_queue = <<>>
    /\ pc' = "test" /\ callingPendingCbs_' = FALSE /\ cur' = None
    /\ UNCHANGED <<looping_, quit_, eventHandling_, activeChannels_,
                   pendingCbsQueue_, tmp_queue, eventfd, post, quits, ran,
                   idleQueued>>

-----------------------------------------------------------------------------
Call(t) ==
    \/ \E cb \in Cbs : EnqueueEventLoop(t, cb) \/ RunInEventLoop(t, cb)
    \/ Quit(t)

Return(t) == EnqueueDone(t) \/ QuitDone(t)

\* Everything the loop thread does by itself, poll's return apart.
LoopBody ==
    \/ LoopResetQuit \/ LoopTest
    \/ \E c \in IoChannels \cup {Bridge} : HandleEvents(c)
    \/ HandleActiveChannelsDone
    \/ HandlePendingCallbacks \/ RunCallback \/ HandlePendingCallbacksDone

Next ==
    \/ \E t \in Threads : Call(t) \/ Return(t)
    \/ Loop \/ LoopBody \/ PollReturn \/ PollTimeout

\* A thread finishes a call it began, the loop thread keeps running, and
\* poll(2) returns once the eventfd is readable.  Nothing is assumed of the
\* other channels or of the poll timeout: a callback must not have to wait
\* for either.
Fairness ==
    /\ \A t \in Threads : WF_vars(Return(t))
    /\ WF_vars(LoopBody)
    /\ WF_vars(eventfd > 0 /\ PollReturn)

Spec == Init /\ [][Next]_vars
FairSpec == Spec /\ Fairness

-----------------------------------------------------------------------------
TypeOK ==
    /\ pc \in {"idle", "start", "test", "poll", "active", "pending", "run"}
    /\ looping_ \in BOOLEAN /\ quit_ \in BOOLEAN
    /\ eventHandling_ \in BOOLEAN /\ callingPendingCbs_ \in BOOLEAN
    /\ activeChannels_ \subseteq IoChannels \cup {Bridge}
    /\ cur \in IoChannels \cup Cbs \cup {Bridge, None}
    /\ pendingCbsQueue_ \in Seq(Cbs) /\ tmp_queue \in Seq(Cbs)
    /\ eventfd \in Nat
    /\ post \in [Threads -> {"none", "pushed", "quitting"}]
    /\ quits \in Nat
    /\ ran \in Seq(Cbs) /\ idleQueued \subseteq Cbs

\* A wake-up for a pending callback is in the eventfd or is on its way.
WakeUpComing ==
    \/ eventfd > 0
    \/ \E t \in Threads : post[t] = "pushed" /\ NeedsWakeUp(t)

\* No lost wake-up: when the loop thread sits in poll, every pending callback
\* has a wake-up in the eventfd or one its caller is about to write, so that
\* poll will not sleep over it.  The one exception the code has is the one
\* named: a callback the loop thread queued itself before it entered Loop().
\* (EnqueueEventLoop's comment on when WakeUp is needed, EventLoop.cpp:159-166)
NoLostWakeUp ==
    pc = "poll" => \A i \in DOMAIN pendingCbsQueue_ :
                        pendingCbsQueue_[i] \in idleQueued \/ WakeUpComing

\* A Quit() that reaches a loop already polling also wakes it: the loop never
\* sits in poll with quit_ set and nobody about to write the eventfd.
NoLostQuit ==
    pc = "poll" /\ quit_ =>
        eventfd > 0 \/ \E t \in Threads : post[t] = "quitting"

\* The loop implements the FIFO executor its callers rely on: the swap in
\* HandlePendingCallbacks neither loses, repeats nor reorders a callback.
Executor == INSTANCE FifoExecutor WITH queue <- tmp_queue \o pendingCbsQueue_
ImplementsExecutor == Executor!Spec

\* A callback queued while the loop runs is started without the help of the
\* poll timeout, unless Loop() returns first.
QueuedCallbackRuns ==
    \A cb \in Cbs : (In(cb, pendingCbsQueue_) /\ cb \notin idleQueued
                        /\ pc \notin {"idle", "start"})
                    ~> (In(cb, ran) \/ pc = "idle")

\* Quit() called while the loop runs makes Loop() return, again without the
\* poll timeout.
QuitEndsLoop == (quit_ /\ pc \notin {"idle", "start"}) ~> (pc = "idle")

=============================================================================
