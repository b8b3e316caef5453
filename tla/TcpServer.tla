------------------------------ MODULE TcpServer ------------------------------
(***************************************************************************)
(* TcpServer.cpp, Acceptor.cpp and TcpConnection.cpp: the base loop that   *)
(* accepts connections and keeps them in conns_, the IO loops the          *)
(* connections live in, and a user thread that keeps a pointer to a        *)
(* connection and sends on it or shuts it down.                            *)
(*                                                                         *)
(* A loop is what EventLoop.tla shows it to be: rounds of handlers followed*)
(* by the functors that were pending at the swap, in FIFO order; a functor *)
(* posted by the loop's own thread with RunInEventLoop runs in the call.   *)
(* A handler or functor is one step: what other threads can see of it, the *)
(* atomic state_, changes once in it.                                      *)
(*                                                                         *)
(* Without IO loops (SetIoThreadNum(0)) the base loop serves everything.   *)
(* The server is destroyed by the base loop's thread after Loop() returned *)
(* there, and the user thread stops calling before that.                   *)
(***************************************************************************)
EXTENDS TcpConnection, SequencesExt

CONSTANTS Conns,     \* connections that may be accepted
          Base,      \* loop_
          IoLoops,   \* the loops of the IO threads, at most
          NoLoop, NoCall,
          MaxUserSends, MaxLoopSends  \* bounds: messages of each sender

ASSUME ServerAssumption ==
    /\ Base \notin IoLoops /\ NoLoop \notin IoLoops \cup {Base}
    /\ MaxUserSends \in Nat /\ MaxLoopSends \in Nat

Loops == IoLoops \cup {Base}

VARIABLES
    conn,       \* connection -> its record
    loopOf,     \* connection -> loop, NoLoop if not accepted yet
    conns_,     \* connections in the map
    serving_, started_, listening_,
    loops_,     \* the IO loops SetIoThreadNum asked for
    server,     \* "alive", "destroying", "destroyed"
    queue,      \* loop -> pending functors
    todo,       \* loop -> how many of them the current round runs
    phase,      \* loop -> "none", "handlers", "pending", "exited"
    quit_,      \* loop -> BOOLEAN
    held,       \* connections the user thread keeps a TcpConnectionPtr to
    call,       \* the functor the user thread is about to push
    sends       \* "user" or "loop" -> messages sent so far

serveVars == <<serving_, started_, listening_, loops_, server>>
roundVars == <<todo, phase, quit_>>
userVars == <<held, call, sends>>
vars == <<conn, loopOf, conns_, serveVars, queue, roundVars, userVars>>

Functor(op, c) == [op |-> op, c |-> c]

Init ==
    /\ conn = [c \in Conns |-> NewConnection]
    /\ loopOf = [c \in Conns |-> NoLoop] /\ conns_ = {}
    /\ serving_ = FALSE /\ started_ = FALSE /\ listening_ = FALSE
    /\ loops_ \in SUBSET IoLoops /\ server = "alive"
    /\ queue = [l \in Loops |-> <<>>]
    /\ todo = [l \in Loops |-> 0] /\ quit_ = [l \in Loops |-> FALSE]
    /\ phase = [l \in Loops |-> IF l = Base THEN "handlers" ELSE "none"]
    /\ held = {} /\ call = NoCall /\ sends = [t \in {"user", "loop"} |-> 0]

Push(q, l, f) == [q EXCEPT ![l] = Append(@, f)]

\* q with the callbacks `posts' of connection c appended to its loop's queue.
WithPosts(q, c, posts) ==
    [q EXCEPT ![loopOf[c]] =
        @ \o [i \in DOMAIN posts |-> Functor(posts[i], c)]]

-----------------------------------------------------------------------------
\* The rounds of loop l.

\* The handlers of the round are done: swap the queue.
SwapPending(l) ==
    /\ phase[l] = "handlers"
    /\ phase' = [phase EXCEPT ![l] = "pending"]
    /\ todo' = [todo EXCEPT ![l] = Len(queue[l])]
    /\ UNCHANGED <<conn, loopOf, conns_, serveVars, queue, quit_, userVars>>

\* The end of the round: go on, or leave Loop().  The EventLoop of an IO
\* thread is destroyed, with the functors it has not run.
RoundEnd(l) ==
    /\ phase[l] = "pending" /\ todo[l] = 0
    /\ phase' = [phase EXCEPT ![l] = IF quit_[l] THEN "exited" ELSE "handlers"]
    /\ queue' = [queue EXCEPT ![l] = IF quit_[l] /\ l # Base THEN <<>> ELSE @]
    /\ UNCHANGED <<conn, loopOf, conns_, serveVars, todo, quit_, userVars>>

\* Loop l runs a functor with name op, and is left with `Rest(l)'.
Runs(l, op) ==
    /\ phase[l] = "pending" /\ todo[l] > 0 /\ Head(queue[l]).op = op
    /\ todo' = [todo EXCEPT ![l] = @ - 1]
    /\ UNCHANGED quit_

Rest(l) == [queue EXCEPT ![l] = Tail(@)]

BuildAndRun(l) ==
    /\ Runs(l, "buildAndRun") /\ queue' = Rest(l)
    /\ started_' = TRUE
    /\ phase' = [i \in Loops |-> IF i \in loops_ THEN "handlers" ELSE phase[i]]
    /\ UNCHANGED <<conn, loopOf, conns_, serving_, listening_, loops_, server,
                   userVars>>

Listen(l) ==
    /\ Runs(l, "listen") /\ queue' = Rest(l)
    /\ listening_' = TRUE
    /\ UNCHANGED <<conn, loopOf, conns_, serving_, started_, loops_, server,
                   phase, userVars>>

\* connectionCb_ hands the pointer to the user, who keeps it.
RunEstablished(l) ==
    LET c == Head(queue[l]).c IN
    /\ Runs(l, "established") /\ queue' = Rest(l)
    /\ conn' = [conn EXCEPT ![c] = StepIntoEstablished(@)]
    /\ held' = held \cup {c}
    /\ UNCHANGED <<loopOf, conns_, serveVars, phase, call, sends>>

\* Mutant: the connection stays in the map.
RemoveConnectionInLoop_NoErase(l) ==
    LET c == Head(queue[l]).c IN
    /\ Runs(l, "remove")
    /\ queue' = Push(Rest(l), loopOf[c], Functor("destroyed", c))
    /\ UNCHANGED <<conn, loopOf, conns_, serveVars, phase, userVars>>

\* Mutant: StepIntoDestroyed is not posted.
RemoveConnectionInLoop_NoPost(l) ==
    LET c == Head(queue[l]).c IN
    /\ Runs(l, "remove") /\ queue' = Rest(l)
    /\ conns_' = conns_ \ {c}
    /\ UNCHANGED <<conn, loopOf, serveVars, phase, userVars>>

\* RemoveConnectionInLoop for a connection of an IO loop.
RemoveConnectionInLoop(l) ==
    LET c == Head(queue[l]).c IN
    /\ Runs(l, "remove")
    /\ conns_' = conns_ \ {c}
    /\ queue' = Push(Rest(l), loopOf[c], Functor("destroyed", c))
    /\ UNCHANGED <<conn, loopOf, serveVars, phase, userVars>>

\* writeCompleteCb_ and highWaterCb_ do no more than the calls they make.
RunOnConnection(l) ==
    LET f == Head(queue[l]) IN
    /\ \/ /\ \/ Runs(l, "destroyed") /\ conn' = [conn EXCEPT ![f.c] = StepIntoDestroyed(@)]
             \/ Runs(l, "shutdown") /\ conn' = [conn EXCEPT ![f.c] = ShutdownInLoop(@)]
             \/ Runs(l, "writeComplete") /\ UNCHANGED conn
             \/ Runs(l, "highWater") /\ UNCHANGED conn
          /\ queue' = Rest(l)
       \/ /\ Runs(l, "send")
          /\ \E o \in SendOutcomes(conn[f.c], f.m) :
                /\ conn' = [conn EXCEPT ![f.c] = o.k]
                /\ queue' = WithPosts(Rest(l), f.c, o.posts)
    /\ UNCHANGED <<loopOf, conns_, serveVars, phase, userVars>>

RunPending(l) ==
    \/ BuildAndRun(l) \/ Listen(l)
    \/ RunEstablished(l) \/ RemoveConnectionInLoop(l) \/ RunOnConnection(l)
    \/ RoundEnd(l)

-----------------------------------------------------------------------------
\* Handlers.

\* The two functors are queued, or run in place if the base thread calls: in
\* both cases the pool is started before the socket listens.  A second call
\* does nothing.
ListenAndServe ==
    /\ ~serving_ /\ serving_' = TRUE
    /\ queue' = [queue EXCEPT ![Base] =
                    @ \o <<[op |-> "buildAndRun"], [op |-> "listen"]>>]
    /\ UNCHANGED <<conn, loopOf, conns_, started_, listening_, loops_, server,
                   roundVars, userVars>>

\* Acceptor::HandleNewConnection got a descriptor.  (With EMFILE the
\* connection is dropped and nothing here changes.)
Accepts(c) == phase[Base] = "handlers" /\ listening_ /\ loopOf[c] = NoLoop

HandleNewConnection(c) ==
    /\ Accepts(c)
    /\ conns_' = conns_ \cup {c}
    /\ \/ /\ loops_ = {}
          /\ loopOf' = [loopOf EXCEPT ![c] = Base]
          /\ conn' = [conn EXCEPT ![c] = StepIntoEstablished(@)]
          /\ held' = held \cup {c}
          /\ UNCHANGED queue
       \/ \E l \in loops_ :
          /\ loopOf' = [loopOf EXCEPT ![c] = l]
          /\ queue' = Push(queue, l, Functor("established", c))
          /\ UNCHANGED <<conn, held>>
    /\ UNCHANGED <<serveVars, roundVars, call, sends>>

\* The poller reports ev for the channel of c.
Polled(c, ev) ==
    /\ loopOf[c] # NoLoop /\ phase[loopOf[c]] = "handlers"
    /\ conn[c].chan = "added" /\ ev \in conn[c].events

\* Mutant: onCloseCb_ is not called.
PeerCloses_Silent(c) ==
    /\ Polled(c, "read")
    /\ conn' = [conn EXCEPT ![c] = HandleClose(@)]
    /\ UNCHANGED <<loopOf, conns_, serveVars, queue, roundVars, userVars>>

\* The peer's FIN (HandleRead reads 0 bytes) or POLLHUP: HandleClose and
\* onCloseCb_, TcpServer::RemoveConnection.  In the base loop the calls of
\* RunInEventLoop run in place, down to StepIntoDestroyed.
PeerCloses(c) ==
    /\ Polled(c, "read")
    /\ IF loopOf[c] = Base
       THEN /\ conn' = [conn EXCEPT ![c] = StepIntoDestroyed(HandleClose(@))]
            /\ conns_' = conns_ \ {c}
            /\ UNCHANGED queue
       ELSE /\ conn' = [conn EXCEPT ![c] = HandleClose(@)]
            /\ queue' = Push(queue, Base, Functor("remove", c))
            /\ UNCHANGED conns_
    /\ UNCHANGED <<loopOf, serveVars, roundVars, userVars>>

\* POLLOUT: HandleWrite, of which write(2) takes n bytes.
Writable(c) ==
    /\ Polled(c, "write")
    /\ \E n \in 0 .. ReadableBytes(conn[c].outputBuffer_) :
        /\ conn' = [conn EXCEPT ![c] = HandleWrite(@, n)]
        /\ queue' = WithPosts(queue, c,
                        IF n = ReadableBytes(conn[c].outputBuffer_)
                        THEN <<"writeComplete">> ELSE <<>>)
    /\ UNCHANGED <<loopOf, conns_, serveVars, roundVars, userVars>>

-----------------------------------------------------------------------------
\* Send and Shutdown, by user code in the connection's loop...

InLoop(c) ==
    /\ loopOf[c] # NoLoop /\ phase[loopOf[c]] # "exited"
    /\ conn[c].state_ = "connected"

Message(t) == <<t, sends[t] + 1>>

\* Send's test of state_ let message m through; t is the calling thread.
Submitted(k, m) == [k EXCEPT !.submitted = @ \cup {m}]

ShutdownCas(k, t) ==
    [k EXCEPT !.state_ = "disconnecting",
              !.owed = {m \in k.submitted : m[1] = t}]

CountSend(t) ==
    /\ sends[t] < IF t = "user" THEN MaxUserSends ELSE MaxLoopSends
    /\ sends' = [sends EXCEPT ![t] = @ + 1]

SendFromLoop(c) ==
    /\ InLoop(c) /\ CountSend("loop")
    /\ \E o \in SendOutcomes(Submitted(conn[c], Message("loop")), Message("loop")) :
            /\ conn' = [conn EXCEPT ![c] = o.k]
            /\ queue' = WithPosts(queue, c, o.posts)
    /\ UNCHANGED <<loopOf, conns_, serveVars, roundVars, held, call>>

ShutdownFromLoop(c) ==
    /\ InLoop(c)
    /\ conn' = [conn EXCEPT ![c] = ShutdownInLoop(ShutdownCas(@, "loop"))]
    /\ UNCHANGED <<loopOf, conns_, serveVars, queue, roundVars, userVars>>

\* ... and by the user thread: the test of state_ and the push are two steps.
UserMayCall(c) ==
    /\ c \in held /\ call = NoCall /\ server = "alive"
    /\ conn[c].state_ = "connected"

Send(c) ==
    /\ UserMayCall(c) /\ CountSend("user")
    /\ conn' = [conn EXCEPT ![c] = Submitted(@, Message("user"))]
    /\ call' = [op |-> "send", c |-> c, m |-> Message("user")]
    /\ UNCHANGED <<loopOf, conns_, serveVars, queue, roundVars, held>>

Shutdown(c) ==
    /\ UserMayCall(c)
    /\ conn' = [conn EXCEPT ![c] = ShutdownCas(@, "user")]
    /\ call' = Functor("shutdown", c)
    /\ UNCHANGED <<loopOf, conns_, serveVars, queue, roundVars, held, sends>>

PushCall ==
    /\ call # NoCall
    /\ queue' = Push(queue, loopOf[call.c], call)
    /\ call' = NoCall
    /\ UNCHANGED <<conn, loopOf, conns_, serveVars, roundVars, held, sends>>

\* The user thread drops its pointer.
Release(c) ==
    /\ c \in held /\ call = NoCall
    /\ held' = held \ {c}
    /\ UNCHANGED <<conn, loopOf, conns_, serveVars, queue, roundVars, call,
                   sends>>

-----------------------------------------------------------------------------
\* Teardown: Quit on the base loop, then ~TcpServer in its thread.

QuitBase ==
    /\ ~quit_[Base] /\ quit_' = [quit_ EXCEPT ![Base] = TRUE]
    /\ UNCHANGED <<conn, loopOf, conns_, serveVars, queue, todo, phase, userVars>>

\* StepIntoDestroyed for every connection, in place or posted (in any order:
\* they do not depend on each other); then the members: the IO loops are told
\* to quit.
DestroyServer ==
    LET inLoop(l) == {c \in conns_ : loopOf[c] = l}
    IN
    /\ phase[Base] = "exited" /\ server = "alive" /\ call = NoCall
    /\ server' = "destroying" /\ listening_' = FALSE
    /\ conns_' = {}
    /\ conn' = [c \in Conns |-> IF c \in inLoop(Base)
                                THEN StepIntoDestroyed(conn[c]) ELSE conn[c]]
    /\ queue' = [l \in Loops |-> IF l = Base THEN queue[l] ELSE
            queue[l] \o SetToSeq({Functor("destroyed", c) : c \in inLoop(l)})]
    /\ quit_' = [l \in Loops |-> quit_[l] \/ l \in loops_]
    /\ UNCHANGED <<loopOf, serving_, started_, loops_, todo, phase, userVars>>

\* The IO threads are joined.
ServerGone ==
    /\ server = "destroying"
    /\ started_ => \A l \in loops_ : phase[l] = "exited"
    /\ server' = "destroyed"
    /\ UNCHANGED <<conn, loopOf, conns_, serving_, started_, listening_, loops_,
                   queue, roundVars, userVars>>

-----------------------------------------------------------------------------
Next ==
    \/ ListenAndServe \/ PushCall
    \/ QuitBase \/ DestroyServer \/ ServerGone
    \/ \E l \in Loops : SwapPending(l) \/ RunPending(l)
    \/ \E c \in Conns :
        \/ HandleNewConnection(c) \/ PeerCloses(c) \/ Writable(c)
        \/ SendFromLoop(c) \/ ShutdownFromLoop(c)
        \/ Send(c) \/ Shutdown(c) \/ Release(c)

\* Every loop runs its rounds, and leaves poll when something is pending
\* (NoLostWakeUp of EventLoop.tla).  Peers and users owe nothing.
Fairness ==
    \A l \in Loops : /\ WF_vars(RunPending(l))
                     /\ WF_vars(queue[l] # <<>> /\ SwapPending(l))

Spec == Init /\ [][Next]_vars
FairSpec == Spec /\ Fairness

-----------------------------------------------------------------------------
\* A functor about connection c is in some queue.
Queued(c, ops) == \E l \in Loops : \E i \in DOMAIN queue[l] :
                    queue[l][i].op \in ops /\ queue[l][i].c = c

ConnOps == {"established", "remove", "destroyed", "shutdown", "send",
            "writeComplete", "highWater"}

\* No shared_ptr to an accepted connection is left: it is destructed.
Gone(c) ==
    /\ loopOf[c] # NoLoop /\ c \notin conns_ \cup held /\ ~Queued(c, ConnOps)
    /\ call # NoCall => call.c # c

\* The user sees every connection come up once and go down once, in that
\* order, whichever loop it lives in and even while the server is destroyed.
CallbacksPaired ==
    \A c \in Conns :
        /\ conn[c].downs <= conn[c].ups /\ conn[c].ups <= 1
        /\ conn[c].chan = "removed" => conn[c].downs = 1

\* While the server lives, a connection is destructed only when it is
\* disconnected (assert, TcpConnection.cpp:47) and no poller still has its
\* channel; whoever drops the last pointer.  A channel has no events when it is
\* removed (assert of Channel::Remove), unless the server goes while the
\* connection is disconnecting (the FIXME in StepIntoDestroyed).  And a server
\* that is being destroyed leaves no connection in the poller of the base loop;
\* that of an IO loop may quit before it runs the StepIntoDestroyed posted to it.
DestructedWhenDone ==
    \A c \in Conns :
        /\ server = "alive" /\ Gone(c) =>
            conn[c].state_ = "disconnected" /\ conn[c].chan = "removed"
        /\ conn[c].chan = "removed" =>
            \/ conn[c].events = {}
            \/ server # "alive" /\ conn[c].state_ = "disconnecting"
        /\ server # "alive" /\ conn[c].chan = "added" => loopOf[c] # Base

\* RemoveConnectionInLoop finds its connection in the map (assert,
\* TcpServer.cpp:108), and the IO pool is started before a connection is
\* accepted (assert, EventLoopThreadPool.cpp:46).
MapKeepsConnections ==
    /\ \A c \in Conns : server = "alive" /\ Queued(c, {"remove"}) => c \in conns_
    /\ listening_ => started_

\* The bytes on the wire followed by those in outputBuffer_ are the bytes of
\* the messages, whole and in the order SendInLoop got them, and a thread's
\* messages come in the order it sent them.
StreamInOrder ==
    \A c \in Conns :
        LET k == conn[c] IN
        /\ k.wire \o Content(k.outputBuffer_) = k.accepted
        /\ \A i, j \in DOMAIN k.accepted :
            i < j /\ k.accepted[i][1] = k.accepted[j][1]
                => k.accepted[i][2] <= k.accepted[j][2]

\* Bytes wait in outputBuffer_ of a live connection iff POLLOUT is asked for:
\* nothing waits for ever, and an idle connection does not spin.
WritingIffBuffered ==
    \A c \in Conns : conn[c].state_ \in {"connected", "disconnecting"}
                            /\ conn[c].chan = "added" =>
        (IsWriting(conn[c]) <=> ReadableBytes(conn[c].outputBuffer_) > 0)

\* A connection the peer closed is taken out of the map and of its poller,
\* through up to three posts between the two loops, while the base loop runs.
ClosedIsDestroyed ==
    \A c \in Conns : (conn[c].state_ = "disconnected")
        ~> ((conn[c].chan = "removed" /\ c \notin conns_) \/ quit_[Base])

\* Shutdown() sends what was sent before: "This is handled by write-handler
\* When the send-operation is complete" (TcpConnection.cpp:152).  What the
\* thread that calls Shutdown has sent is on the wire before the FIN.
ShutdownAfterSends ==
    \A c \in Conns :
        LET k == conn[c] IN
        k.state_ = "disconnecting" /\ k.shut /\ ~k.broken =>
            \A m \in k.owed : \E i \in DOMAIN k.wire : k.wire[i] = m

=============================================================================
