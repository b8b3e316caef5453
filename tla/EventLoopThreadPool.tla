------------------------- MODULE EventLoopThreadPool -------------------------
(***************************************************************************)
(* EventLoopThreadPool.cpp and EventLoopThread.cpp: the base loop's thread *)
(* starts the IO threads one after the other, each start waiting until the *)
(* new thread has published its loop, hands the loops out in turn, and     *)
(* destroys the pool, one EventLoopThread after the other.                 *)
(*                                                                         *)
(* An IO thread's EventLoop is reduced to quit_ and to whether it is inside *)
(* the loop of Loop(): EventLoop.tla shows that Quit() ends that loop      *)
(* (QuitEndsLoop), and that Loop() forgets a Quit() that came before it.   *)
(***************************************************************************)
EXTENDS Naturals, Sequences

CONSTANTS PoolSize,  \* poolSize_
          MaxGets    \* bound: how often GetNextLoop returns each loop

ASSUME PoolAssumption == PoolSize \in Nat /\ MaxGets \in Nat

Ids == 1 .. PoolSize

VARIABLES
    base,         \* what the base loop's thread is doing; "terminated" and
                  \* "undefined": the program is over
    cur,          \* the EventLoopThread it is doing it to
    loops_,       \* the results of Run(): TRUE for a loop, FALSE for nullptr
    nextLoopIdx_,
    gets,         \* id -> times GetNextLoop returned this loop
    io,           \* id -> where ThreadFunc is
    loop_, isExit_,  \* of every EventLoopThread
    quit_,        \* of the EventLoop of every IO thread
    forgot,       \* history: threads whose Loop() reset a Quit() before it
    left          \* history: threads whose loop was quit by user code

dealt == <<nextLoopIdx_, gets>>
history == <<forgot, left>>
loopPoolVars == <<base, cur, loops_, dealt, io, loop_, isExit_, quit_, history>>

LoopPoolInit ==
    /\ base = "new" /\ cur = 1
    /\ loops_ = <<>> /\ nextLoopIdx_ = 0
    /\ gets = [i \in Ids |-> 0]
    /\ io = [i \in Ids |-> "none"]
    /\ loop_ = [i \in Ids |-> FALSE]
    /\ isExit_ = [i \in Ids |-> FALSE]
    /\ quit_ = [i \in Ids |-> FALSE]
    /\ forgot = {} /\ left = {}

-----------------------------------------------------------------------------
\* The base loop's thread: BuildAndRun, GetNextLoop and the destructor.

\* One round of BuildAndRun: EventLoopThread::Run starts the thread, or all
\* are started.
BuildAndRun ==
    /\ base = "new"
    /\ IF cur <= PoolSize
       THEN base' = "waiting" /\ io' = [io EXCEPT ![cur] = "init"]
       ELSE base' = "started" /\ UNCHANGED io
    /\ UNCHANGED <<cur, loops_, dealt, loop_, isExit_, quit_, history>>

\* Run, holding mtx_: the condition of the while around cv_.wait.
RunTest ==
    /\ base = "waiting"
    /\ IF ~loop_[cur] /\ ~isExit_[cur]
       THEN base' = "blocked" /\ UNCHANGED <<loops_, cur>>
       ELSE base' = "new" /\ cur' = cur + 1 /\ loops_' = Append(loops_, loop_[cur])
    /\ UNCHANGED <<dealt, io, loop_, isExit_, quit_, history>>

\* Mutant: an if, not a while, around cv_.wait.
RunSpuriousWakeUp_If ==
    /\ base = "blocked" /\ base' = "new"
    /\ cur' = cur + 1 /\ loops_' = Append(loops_, loop_[cur])
    /\ UNCHANGED <<dealt, io, loop_, isExit_, quit_, history>>

\* A condition variable may wake without being notified.
RunSpuriousWakeUp ==
    /\ base = "blocked" /\ base' = "waiting"
    /\ UNCHANGED <<cur, loops_, dealt, io, loop_, isExit_, quit_, history>>

\* Without IO threads GetNextLoop returns the base loop and changes nothing.
GetNextLoop ==
    /\ base = "started" /\ PoolSize > 0
    /\ gets[nextLoopIdx_ + 1] < MaxGets
    /\ gets' = [gets EXCEPT ![nextLoopIdx_ + 1] = @ + 1]
    /\ nextLoopIdx_' = IF nextLoopIdx_ + 1 >= Len(loops_) THEN 0
                       ELSE nextLoopIdx_ + 1
    /\ UNCHANGED <<base, cur, loops_, io, loop_, isExit_, quit_, history>>

\* The pool may be destroyed without having been started.
Destroy ==
    /\ base = "started" \/ (base = "new" /\ loops_ = <<>>)
    /\ base' = "destroying" /\ cur' = 1
    /\ UNCHANGED <<loops_, dealt, io, loop_, isExit_, quit_, history>>

\* ~EventLoopThread: isExit_ and loop_ are touched without the mutex.
DtorSetExit ==
    /\ base = "destroying"
    /\ IF cur <= Len(loops_)
       THEN base' = "dtor" /\ isExit_' = [isExit_ EXCEPT ![cur] = TRUE]
       ELSE base' = "destroyed" /\ UNCHANGED isExit_
    /\ UNCHANGED <<cur, loops_, dealt, io, loop_, quit_, history>>

\* With loop_ == nullptr the std::thread is destroyed without a join, which
\* ends the program (std::terminate), even if the thread has returned.
DtorCheckLoop ==
    /\ base = "dtor"
    /\ base' = IF loop_[cur] THEN "quit" ELSE "terminated"
    /\ UNCHANGED <<cur, loops_, dealt, io, loop_, isExit_, quit_, history>>

\* Mutant: the thread is told to exit by isExit_ alone.
DtorQuit_NoQuit ==
    /\ base = "quit" /\ base' = "join"
    /\ UNCHANGED <<cur, loops_, dealt, io, loop_, isExit_, quit_, history>>

\* loop_->Quit(), its store.  loop_ is read for the second time, or the first
\* value is kept: a loop that is not yet gone can be told, and once loop_ has
\* been withdrawn it can be nullptr or a loop that is gone.
DtorQuit ==
    /\ base = "quit"
    /\ \/ /\ io[cur] # "exited"
          /\ base' = "wake" /\ quit_' = [quit_ EXCEPT ![cur] = TRUE]
       \/ ~loop_[cur] /\ base' = "undefined" /\ UNCHANGED quit_
    /\ UNCHANGED <<cur, loops_, dealt, io, loop_, isExit_, history>>

\* Quit() goes on to bridge_->WakeUp(): the loop may have seen quit_, returned
\* and been destroyed in between.
DtorWakeUp ==
    /\ base = "wake"
    /\ base' = IF io[cur] = "exited" THEN "undefined" ELSE "join"
    /\ UNCHANGED <<cur, loops_, dealt, io, loop_, isExit_, quit_, history>>

\* Mutant: the thread is detached, not joined.
DtorJoin_Detaches ==
    /\ base = "join"
    /\ base' = "destroying" /\ cur' = cur + 1
    /\ UNCHANGED <<loops_, dealt, io, loop_, isExit_, quit_, history>>

DtorJoin ==
    /\ base = "join" /\ io[cur] = "exited"
    /\ base' = "destroying" /\ cur' = cur + 1
    /\ UNCHANGED <<loops_, dealt, io, loop_, isExit_, quit_, history>>

-----------------------------------------------------------------------------
\* ThreadFunc of IO thread i.

\* The loop is constructed and initCb_ runs.
ThreadInit(i) ==
    /\ io[i] = "init" /\ io' = [io EXCEPT ![i] = "publish"]
    /\ UNCHANGED <<base, cur, loops_, dealt, loop_, isExit_, quit_, history>>

\* Under mtx_: publish the loop unless the owner is already going away.
ThreadPublish(i) ==
    /\ io[i] = "publish"
    /\ loop_' = [loop_ EXCEPT ![i] = ~isExit_[i]]
    /\ io' = [io EXCEPT ![i] = IF isExit_[i] THEN "giveup" ELSE "notify"]
    /\ UNCHANGED <<base, cur, loops_, dealt, isExit_, quit_, history>>

\* Mutant: the notification is forgotten.
ThreadNotify_Silent(i) ==
    /\ io[i] \in {"notify", "giveup"}
    /\ io' = [io EXCEPT ![i] = IF @ = "notify" THEN "entering" ELSE "exited"]
    /\ UNCHANGED <<base, cur, loops_, dealt, loop_, isExit_, quit_, history>>

\* cv_.notify_one(): the only thread that can be waiting is in Run of i.
ThreadNotify(i) ==
    /\ io[i] \in {"notify", "giveup"}
    /\ base' = IF base = "blocked" /\ cur = i THEN "waiting" ELSE base
    /\ io' = [io EXCEPT ![i] = IF @ = "notify" THEN "entering" ELSE "exited"]
    /\ UNCHANGED <<cur, loops_, dealt, loop_, isExit_, quit_, history>>

\* Loop() up to the while: quit_ = false.
LoopEnter(i) ==
    /\ io[i] = "entering"
    /\ io' = [io EXCEPT ![i] = "looping"]
    /\ quit_' = [quit_ EXCEPT ![i] = FALSE]
    /\ forgot' = IF quit_[i] THEN forgot \cup {i} ELSE forgot
    /\ UNCHANGED <<base, cur, loops_, dealt, loop_, isExit_, left>>

\* User code that runs in the loop calls its Quit().
QuitFromLoop(i) ==
    /\ io[i] = "looping"
    /\ quit_' = [quit_ EXCEPT ![i] = TRUE]
    /\ left' = left \cup {i}
    /\ UNCHANGED <<base, cur, loops_, dealt, io, loop_, isExit_, forgot>>

LoopExit(i) ==
    /\ io[i] = "looping" /\ quit_[i]
    /\ io' = [io EXCEPT ![i] = "clear"]
    /\ UNCHANGED <<base, cur, loops_, dealt, loop_, isExit_, quit_, history>>

\* Under mtx_: withdraw the loop.
ThreadClear(i) ==
    /\ io[i] = "clear"
    /\ io' = [io EXCEPT ![i] = "leaving"]
    /\ loop_' = [loop_ EXCEPT ![i] = FALSE]
    /\ UNCHANGED <<base, cur, loops_, dealt, isExit_, quit_, history>>

\* The loop, on the stack of ThreadFunc, is destroyed, and the thread ends.
ThreadReturn(i) ==
    /\ io[i] = "leaving" /\ io' = [io EXCEPT ![i] = "exited"]
    /\ UNCHANGED <<base, cur, loops_, dealt, loop_, isExit_, quit_, history>>

ThreadStep(i) ==
    \/ ThreadInit(i) \/ ThreadPublish(i) \/ ThreadNotify(i)
    \/ LoopEnter(i) \/ LoopExit(i) \/ ThreadClear(i) \/ ThreadReturn(i)

BaseStep ==
    \/ BuildAndRun \/ RunTest
    \/ DtorSetExit \/ DtorCheckLoop \/ DtorQuit \/ DtorWakeUp \/ DtorJoin

LoopPoolNext ==
    \/ BaseStep \/ RunSpuriousWakeUp \/ GetNextLoop \/ Destroy
    \/ \E i \in Ids : ThreadStep(i) \/ QuitFromLoop(i)

\* Every thread keeps running; a blocked thread needs a notification, since
\* spurious wake-ups are not promised.
LoopPoolFairness ==
    WF_loopPoolVars(BaseStep) /\ \A i \in Ids : WF_loopPoolVars(ThreadStep(i))

LoopPoolSpec == LoopPoolInit /\ [][LoopPoolNext]_loopPoolVars
LoopPoolFairSpec == LoopPoolSpec /\ LoopPoolFairness

-----------------------------------------------------------------------------
LoopAlive(i) == io[i] \in {"notify", "entering", "looping", "clear", "leaving"}

\* Every loop Run() returned is a loop, and unless user code quits it it lives
\* until the pool is destroyed: GetNextLoop never hands out nullptr or a loop
\* that is gone.  And it deals them out evenly: the next one is one of those
\* that were handed out least often.
HandedOutLoopsLive ==
    base \in {"new", "waiting", "blocked", "started"} =>
        /\ \A i \in DOMAIN loops_ : loops_[i] /\ (LoopAlive(i) \/ i \in left)
        /\ base = "started" => \A i \in Ids : gets[nextLoopIdx_ + 1] <= gets[i]

\* BuildAndRun comes back: no notification of a published loop is missed,
\* unless what initCb_ queued quits the loop, and loop_ is withdrawn before Run
\* has looked at it: then nobody will ever set isExit_, and Run goes on waiting.
BuildReturns ==
    (base = "waiting") ~> (base = "started" \/ (base = "blocked" /\ cur \in left))

\* The destructor of the pool returns ("dtor calls Quit()",
\* tests/EventLoopThread_unittest.cc:27).  What can keep it is named: it joins a
\* thread whose Loop() came after the Quit() and reset it; it meets a thread
\* whose loop was quit before, and ends the program (QuitBeforeDestructor); or
\* the loop was withdrawn or had ended when Quit() used it.
DestructorReturns ==
    (base = "destroying") ~>
        (\/ base = "destroyed"
         \/ base = "join" /\ cur \in forgot
         \/ base = "terminated" /\ cur \in left
         \/ base = "undefined" /\ ~loop_[cur])

\* When the pool is gone every thread that was started has ended.  The
\* destructor ends the program only at a thread whose loop user code has quit;
\* it uses a loop that is gone only if that loop was told to quit, by user code
\* or by Quit() itself before its wake-up, and has returned; and it joins a
\* thread only if its loop has quit_ set, unless Loop() reset it.
DestructorSound ==
    /\ base = "destroyed" =>
          \A i \in Ids : io[i] = IF i <= Len(loops_) THEN "exited" ELSE "none"
    /\ base = "terminated" => cur \in left /\ io[cur] \in {"leaving", "exited"}
    /\ base = "undefined" => quit_[cur] /\ io[cur] \in {"leaving", "exited"}
    /\ base \in {"wake", "join"} => quit_[cur] \/ cur \in forgot

\* A loop may be quit before its EventLoopThread is destroyed ("Quit() before
\* dtor", tests/EventLoopThread_unittest.cc:35): that does not end the program.
QuitBeforeDestructor == base # "terminated"

=============================================================================
