---------------------------- MODULE FifoExecutor ----------------------------
(***************************************************************************)
(* What EventLoop promises to the callers of EnqueueEventLoop and          *)
(* RunInEventLoop (EventLoop.h:103-116), without threads, phases or        *)
(* wake-ups: a callback is accepted once, queued callbacks run in the      *)
(* order in which they were accepted, and each runs at most once.          *)
(***************************************************************************)
EXTENDS Sequences

CONSTANT Cbs        \* callbacks; each stands for one call of the API

VARIABLES queue,    \* accepted, not yet started, oldest first
          ran       \* started, oldest first

vars == <<queue, ran>>

Fresh(cb) == \A i \in DOMAIN queue : queue[i] # cb

NotRun(cb) == \A i \in DOMAIN ran : ran[i] # cb

Init == queue = <<>> /\ ran = <<>>

Accept(cb) ==
    /\ Fresh(cb) /\ NotRun(cb)
    /\ queue' = Append(queue, cb)
    /\ UNCHANGED ran

RunOldest ==
    /\ queue # <<>>
    /\ ran' = Append(ran, Head(queue))
    /\ queue' = Tail(queue)

\* A callback handed over by the loop thread itself runs inside the call.
RunAtOnce(cb) ==
    /\ Fresh(cb) /\ NotRun(cb)
    /\ ran' = Append(ran, cb)
    /\ UNCHANGED queue

Next == RunOldest \/ \E cb \in Cbs : Accept(cb) \/ RunAtOnce(cb)

Spec == Init /\ [][Next]_vars

=============================================================================
