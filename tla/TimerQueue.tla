----------------------------- MODULE TimerQueue -----------------------------
(***************************************************************************)
(* TimerQueue.cpp and Timer.cpp: timers added and cancelled by the loop    *)
(* thread (at once) or by other threads (through the pending queue of the  *)
(* EventLoop), one timerfd armed for the earliest of them, and the handler *)
(* of that timerfd.                                                        *)
(*                                                                         *)
(* The loop is reduced to what EventLoop.tla establishes about it: pending *)
(* callbacks run in FIFO order, a poll never sleeps over one, and one round *)
(* is poll, then handlers, then the callbacks that were pending at the     *)
(* swap.  Poll reads the timerfd once per round: `timerfdActive' is what   *)
(* it saw, and the handler runs even if the timerfd was armed anew since.  *)
(***************************************************************************)
EXTENDS TimerMinHeap, Integers, FiniteSets

CONSTANTS Whens,        \* expirations passed to RunAt; past ones included
          MaxCancels,   \* bound: calls of cancelTimer
          MaxNow,       \* bound: the clock stops here
          MaxForeign    \* bound: calls made by other threads

ASSUME TimerAssumption ==
    /\ MaxTimers \in Nat \ {0} /\ MaxCancels \in Nat /\ MaxNow \in Nat
    /\ Whens \subseteq Nat \ {0} /\ Whens # {} /\ Intervals \subseteq Nat
    /\ \E m \in Whens \cup Intervals : \A w \in Whens \cup Intervals : w <= m
    /\ MaxForeign \in Nat

\* TimePoint_t::max(): no timer, and as a setting of the timerfd: disarmed.
Never == 1 + MaxNow + CHOOSE m \in Whens \cup Intervals :
                            \A w \in Whens \cup Intervals : w <= m

VARIABLES
    now,            \* steady_clock
    heap_, latestTime_, nextTimerId_,
    timerfd,        \* the absolute time it is armed for
    phase,          \* "poll", "active", "run" (expired timers), "pending"
    timerfdActive,  \* Poll put the watcher's channel on the active list
    expired,        \* expired_timers not yet run
    cur,            \* id of the timer whose callback runs, or -1
    pending,        \* queued AddTimerInLoop / CancelTimerInLoop, oldest first
    todo,           \* how many of them the current round will run
    cancels,        \* calls of cancelTimer so far
    foreign,        \* calls made by other threads so far
    cancelled       \* history: ids cancelled after they had been added

timerVars == <<heap_, latestTime_, timerfd>>
loopVars  == <<phase, timerfdActive, expired, cur, todo>>
vars == <<now, timerVars, nextTimerId_, loopVars, pending, cancels, foreign,
          cancelled>>

Init ==
    /\ now = 0
    /\ heap_ = EmptyHeap /\ latestTime_ = Never /\ nextTimerId_ = 0
    /\ timerfd = Never
    /\ phase = "poll" /\ timerfdActive = FALSE
    /\ expired = <<>> /\ cur = -1
    /\ pending = <<>> /\ todo = 0
    /\ cancels = 0 /\ foreign = 0 /\ cancelled = {}

-----------------------------------------------------------------------------
\* What runs in the loop thread.

\* ResetTimerfd: arm the timerfd for latestTime_.
SetLatest(t) == latestTime_' = t /\ timerfd' = t

\* Mutant: a new earliest timer does not arm the timerfd.
AddTimerInLoop_NoReset(t) ==
    /\ heap_' = Add(heap_, t)
    /\ latestTime_' = IF Top(heap_').id = t.id THEN t.exp ELSE latestTime_
    /\ UNCHANGED <<timerfd, cancelled>>

AddTimerInLoop(t) ==
    /\ heap_' = Add(heap_, t)
    /\ IF Top(heap_').id = t.id THEN SetLatest(t.exp)
       ELSE UNCHANGED <<latestTime_, timerfd>>
    /\ UNCHANGED cancelled

\* Mutant: the timerfd stays armed for a cancelled timer.
CancelTimerInLoop_NoReset(id) ==
    /\ heap_' = Del(heap_, id)
    /\ UNCHANGED <<latestTime_, timerfd>>
    /\ cancelled' = IF \E k \in DOMAIN pending :
                          pending[k].op = "add" /\ pending[k].timer.id = id
                    THEN cancelled ELSE cancelled \cup {id}

CancelTimerInLoop(id) ==
    /\ heap_' = Del(heap_, id)
    /\ IF DelChangesTop(heap_, id)
       THEN SetLatest(IF Empty(heap_') THEN Never ELSE Top(heap_').exp)
       ELSE UNCHANGED <<latestTime_, timerfd>>
    /\ cancelled' = IF \E k \in DOMAIN pending :
                          pending[k].op = "add" /\ pending[k].timer.id = id
                    THEN cancelled ELSE cancelled \cup {id}

\* What the loop of GetExpiredTimers looks at: the heap, the timers taken and
\* the value of the clock.
TakeStates == [heap : {h \in Heap : Agree(h)}, taken : Seq(Timer), clock : Nat]

\* The loop: what is left in the heap and the timers taken, in the order they
\* are run.  A repeating timer is back in the heap before any callback runs.
TakeExpired[s \in TakeStates] ==
    LET t == Top(s.heap) IN
    IF Empty(s.heap) \/ t.exp > s.clock THEN s
    ELSE TakeExpired[
            [heap |-> IF t.interval # 0
                      THEN ReplaceTop(s.heap, [t EXCEPT !.exp = s.clock + t.interval])
                      ELSE PopMovedTimer(s.heap, t.id),
             taken |-> Append(s.taken, t), clock |-> s.clock]]

\* Mutant: one expired timer per call.
GetExpiredTimers_One ==
    LET t == Top(heap_)
        due == ~Empty(heap_) /\ t.exp <= now IN
    /\ heap_' = IF due THEN PopMovedTimer(heap_, t.id) ELSE heap_
    /\ expired' = IF due THEN <<t>> ELSE <<>>
    /\ SetLatest(IF Empty(heap_') THEN Never ELSE Top(heap_').exp)

GetExpiredTimers ==
    LET result == TakeExpired[[heap |-> heap_, taken |-> <<>>, clock |-> now]] IN
    /\ heap_' = result.heap
    /\ expired' = result.taken
    /\ SetLatest(IF Empty(heap_') THEN Never ELSE Top(heap_').exp)

-----------------------------------------------------------------------------
\* The calls.  User code runs in the loop thread in a handler of another
\* channel, in a timer's callback and in a pending callback.

InUserCode == phase \in {"active", "pending"} \/ (phase = "run" /\ cur # -1)

NewTimer(w, i) == [id |-> nextTimerId_, exp |-> w, interval |-> i]

AddTimer(w, i) ==
    /\ InUserCode /\ nextTimerId_ < MaxTimers
    /\ nextTimerId_' = nextTimerId_ + 1
    /\ AddTimerInLoop(NewTimer(w, i))
    /\ UNCHANGED <<now, loopVars, pending, cancels, foreign>>

CancelTimer(id) ==
    /\ InUserCode /\ cancels < MaxCancels /\ id < nextTimerId_
    /\ cancels' = cancels + 1
    /\ CancelTimerInLoop(id)
    /\ UNCHANGED <<now, nextTimerId_, loopVars, pending, foreign>>

\* From another thread: RunInEventLoop queues the same work.
ForeignAddTimer(w, i) ==
    /\ foreign < MaxForeign /\ foreign' = foreign + 1
    /\ nextTimerId_ < MaxTimers
    /\ nextTimerId_' = nextTimerId_ + 1
    /\ pending' = Append(pending, [op |-> "add", timer |-> NewTimer(w, i)])
    /\ UNCHANGED <<now, timerVars, loopVars, cancels, cancelled>>

ForeignCancelTimer(id) ==
    /\ foreign < MaxForeign /\ foreign' = foreign + 1
    /\ cancels < MaxCancels /\ id < nextTimerId_
    /\ cancels' = cancels + 1
    /\ pending' = Append(pending, [op |-> "cancel", id |-> id])
    /\ UNCHANGED <<now, timerVars, nextTimerId_, loopVars, cancelled>>

-----------------------------------------------------------------------------
\* The rounds of the loop.

TimerfdReadable == timerfd <= now

\* Poll may return for any reason; it reports the timerfd iff it is readable.
Poll ==
    /\ phase = "poll"
    /\ phase' = "active" /\ timerfdActive' = TimerfdReadable
    /\ UNCHANGED <<now, timerVars, nextTimerId_, expired, cur, todo, pending,
                   cancels, foreign, cancelled>>

\* Watcher::HandleExpiredTimers: read the timerfd (which finds nothing if it
\* was armed anew in this round) and collect the expired timers.
HandleExpiredTimers ==
    /\ phase = "active" /\ timerfdActive
    /\ phase' = "run" /\ timerfdActive' = FALSE
    /\ GetExpiredTimers
    /\ UNCHANGED <<now, nextTimerId_, cur, todo, pending, cancels, foreign,
                   cancelled>>

\* Mutant: a repeating timer is put back when its callback runs.
RunTimer_Restarts ==
    /\ phase = "run" /\ expired # <<>>
    /\ cur' = Head(expired).id /\ expired' = Tail(expired)
    /\ heap_' = IF Head(expired).interval # 0
                THEN Add(Del(heap_, Head(expired).id),
                         [Head(expired) EXCEPT
                            !.exp = now + Head(expired).interval])
                ELSE heap_
    /\ UNCHANGED <<now, latestTime_, timerfd, nextTimerId_, phase,
                   timerfdActive, todo, pending, cancels, foreign, cancelled>>

RunTimer ==
    /\ phase = "run" /\ expired # <<>>
    /\ cur' = Head(expired).id /\ expired' = Tail(expired)
    /\ UNCHANGED <<now, timerVars, nextTimerId_, phase, timerfdActive, todo,
                   pending, cancels, foreign, cancelled>>

RunTimersDone ==
    /\ phase = "run" /\ expired = <<>>
    /\ phase' = "active" /\ cur' = -1
    /\ UNCHANGED <<now, timerVars, nextTimerId_, timerfdActive, expired, todo,
                   pending, cancels, foreign, cancelled>>

ActiveDone ==
    /\ phase = "active" /\ ~timerfdActive
    /\ phase' = "pending" /\ todo' = Len(pending)
    /\ UNCHANGED <<now, timerVars, nextTimerId_, timerfdActive, expired, cur,
                   pending, cancels, foreign, cancelled>>

RunPending ==
    /\ phase = "pending" /\ todo > 0
    /\ todo' = todo - 1 /\ pending' = Tail(pending)
    /\ IF Head(pending).op = "add" THEN AddTimerInLoop(Head(pending).timer)
                                   ELSE CancelTimerInLoop(Head(pending).id)
    /\ UNCHANGED <<now, nextTimerId_, phase, timerfdActive, expired, cur,
                   cancels, foreign>>

PendingDone ==
    /\ phase = "pending" /\ todo = 0
    /\ phase' = "poll"
    /\ UNCHANGED <<now, timerVars, nextTimerId_, timerfdActive, expired, cur,
                   todo, pending, cancels, foreign, cancelled>>

Tick ==
    /\ now < MaxNow
    /\ now' = now + 1
    /\ UNCHANGED <<timerVars, nextTimerId_, loopVars, pending, cancels,
                   foreign, cancelled>>

Calls ==
    \/ \E w \in Whens, i \in Intervals : AddTimer(w, i) \/ ForeignAddTimer(w, i)
    \/ \E id \in TimerIds : CancelTimer(id) \/ ForeignCancelTimer(id)

LoopBody == HandleExpiredTimers \/ RunTimer \/ RunTimersDone \/ ActiveDone
            \/ RunPending \/ PendingDone

Next == Calls \/ Poll \/ LoopBody \/ Tick

\* The loop thread keeps running and poll returns for a readable timerfd or
\* a pending callback (NoLostWakeUp of EventLoop.tla); nothing else ends it.
Fairness ==
    /\ WF_vars(LoopBody)
    /\ WF_vars((TimerfdReadable \/ pending # <<>>) /\ Poll)

Spec == Init /\ [][Next]_vars
FairSpec == Spec /\ Fairness

-----------------------------------------------------------------------------
Timers == TimersOf(heap_)

TypeOK ==
    /\ now \in 0 .. MaxNow
    /\ heap_ \in Heap /\ expired \in Seq(Timer)
    /\ nextTimerId_ \in 0 .. MaxTimers /\ cancels \in 0 .. MaxCancels
    /\ foreign \in 0 .. MaxForeign
    /\ latestTime_ \in 1 .. Never /\ timerfd \in 1 .. Never
    /\ phase \in {"poll", "active", "run", "pending"}
    /\ timerfdActive \in BOOLEAN
    /\ cur \in TimerIds \cup {-1} /\ cancelled \subseteq TimerIds
    /\ todo \in 0 .. Len(pending)

\* positions_ is the inverse of timerList_ (the asserts on the two sizes,
\* TimerQueue.cpp:45,89,152, and every lookup in Del rely on it).
PositionsMatch == Agree(heap_)

\* The timerfd is armed for the earliest timer, and disarmed without one:
\* no timer is ever left without a poll that will report it.
ArmedForEarliest ==
    /\ timerfd = latestTime_
    /\ \A t \in Timers : latestTime_ <= t.exp
    /\ latestTime_ # Never => \E t \in Timers : t.exp = latestTime_

\* GetExpiredTimers takes every timer that is due: "return all expired timers
\* so far" (TimerQueue.cpp:266).
ReturnsAllExpired ==
    [][HandleExpiredTimers =>
        \A i \in DOMAIN heap_'.timerList_ : heap_'.timerList_[i].exp > now]_vars

\* A timer cancelled after it was added never comes back to the heap, not
\* even a repeating one that is cancelled from its own callback or from that
\* of another timer that expired with it.
CancelledStaysCancelled == \A t \in Timers : t.id \notin cancelled

\* A due timer's callback is run, unless the timer is cancelled first.
DueTimerRuns ==
    \A id \in TimerIds :
        (\E t \in Timers : t.id = id /\ t.exp <= now)
            ~> (cur = id \/ id \in cancelled)

=============================================================================
