------------------------------ MODULE TcpClient ------------------------------
(***************************************************************************)
(* TcpClient.cpp and Connector.cpp: a client whose loop connects, retries  *)
(* and reconnects, and a user thread that calls Connect, Stop, Shutdown    *)
(* and drops the client, at any time.                                      *)
(*                                                                         *)
(* The loop goes through rounds as in TcpServer.tla; `active' is what its  *)
(* poll found registered.  A handler or functor is one step, but for       *)
(* HandleRemoveConnection, which reads doConnect_ and then calls Restart:  *)
(* a Stop() of the user thread can come between the two.                   *)
(*                                                                         *)
(* The user calls Connect once (a second call fails the assert of          *)
(* StartInLoop).  Called by the loop thread, Stop, Shutdown and the        *)
(* destructor do the same without interruption; Connect runs in place.     *)
(*                                                                         *)
(* A channel on the active list gets its callbacks one after the other, as *)
(* Channel.tla has them.  User code in the loop works on inputBuffer_; sent *)
(* data are in TcpServer.tla.                                              *)
(***************************************************************************)
EXTENDS TcpConnection, Connector, Channel, FiniteSets

CONSTANTS Conns,    \* connections that may be made, one after the other
          None,     \* no connection, no call
          MaxBytes  \* bound: bytes received on a connection

ASSUME ClientAssumption ==
    /\ None \notin Conns /\ "connector" \notin Conns
    /\ MaxBytes \in Nat /\ Nul \in 0 .. 255

VARIABLES
    cn,             \* connector_
    client,         \* "alive", or "gone": no shared_ptr is left
    doConnect_, retry_, connection_,
    conn,           \* connection -> its record
    queue, todo,    \* pending functors, and how many the round runs
    phase,          \* "handlers" or "pending"
    active,         \* Conns and "connector": channels on the active list
    due,            \* <<channel, callback>> that HandleEvents has yet to call
    restarting,     \* the loop thread is about to call Restart
    input,          \* connection -> inputBuffer_ and what went through it
    call,           \* what the user thread is in the middle of
    connected,      \* Connect() was called
    shutdowns,      \* history: Shutdown() was called
    stopped         \* history: Stop() returned, "final", or "raced" if the
                    \* loop thread was about to call Restart

clientVars == <<client, doConnect_, retry_, connection_>>
loopVars == <<queue, todo, phase, active, due, restarting>>
history == <<shutdowns, stopped>>
vars == <<cn, clientVars, conn, input, loopVars, call, connected, history>>

Functor(op, c) == [op |-> op, c |-> c]

\* received and consumed are history: the bytes put in and taken out.
NewInput == [inputBuffer_ |-> NewBuffer, received |-> <<>>, consumed |-> <<>>]

Init ==
    /\ cn = NewConnector /\ client = "alive"
    /\ doConnect_ = FALSE /\ retry_ = FALSE /\ connection_ = None
    /\ conn = [c \in Conns |-> NewConnection]
    /\ queue = <<>> /\ todo = 0 /\ phase = "handlers" /\ active = {}
    /\ due = <<>> /\ restarting = FALSE
    /\ call = Functor("none", None) /\ connected = FALSE
    /\ input = [c \in Conns |-> NewInput]
    /\ shutdowns = FALSE /\ stopped = "no"

Idle == call = Functor("none", None)
Calling(op) == call.op = op
Returns == call' = Functor("none", None)

-----------------------------------------------------------------------------
\* The user thread.

EnableRetry ==
    /\ client = "alive" /\ Idle /\ ~retry_ /\ retry_' = TRUE
    /\ UNCHANGED <<cn, client, doConnect_, connection_, conn, input, loopVars,
                   call, connected, history>>

\* Connect and Connector::Start up to RunInEventLoop.
Connect ==
    /\ client = "alive" /\ Idle /\ ~connected /\ connected' = TRUE
    /\ doConnect_' = TRUE /\ cn' = ConnectorStart(cn)
    /\ call' = Functor("start", None)
    /\ UNCHANGED <<client, retry_, connection_, conn, input, loopVars,
                   history>>

\* Stop: the CAS on doConnect_, then Connector::Stop.
Stop ==
    /\ client = "alive" /\ Idle /\ doConnect_ /\ doConnect_' = FALSE
    /\ call' = Functor("stop", None)
    /\ UNCHANGED <<cn, client, retry_, connection_, conn, input, loopVars,
                   connected, history>>

StopDone ==
    /\ Calling("stop") /\ Returns
    /\ cn' = ConnectorStop(cn)
    /\ stopped' = IF restarting THEN "raced" ELSE "final"
    /\ UNCHANGED <<clientVars, conn, input, loopVars, connected, shutdowns>>

\* Shutdown: the CAS on doConnect_, then, under mutex_, the connection's
\* Shutdown, if there is a connection and it is connected.
Shutdown ==
    /\ client = "alive" /\ Idle /\ doConnect_ /\ doConnect_' = FALSE
    /\ call' = Functor("shutdown", None) /\ shutdowns' = TRUE
    /\ UNCHANGED <<cn, client, retry_, connection_, conn, input, loopVars,
                   connected, stopped>>

ShutdownDone ==
    /\ Calling("shutdown") /\ Returns
    /\ IF connection_ # None /\ conn[connection_].state_ = "connected"
       THEN /\ conn' = [conn EXCEPT ![connection_].state_ = "disconnecting"]
            /\ queue' = Append(queue, Functor("shutdownInLoop", connection_))
       ELSE UNCHANGED <<conn, queue>>
    /\ UNCHANGED <<cn, clientVars, todo, phase, active, due, restarting,
                   connected, input, history>>

\* Mutant: the connection is left to itself.
Destroy_NoClose ==
    /\ client = "alive" /\ Idle /\ ~restarting /\ client' = "gone"
    /\ UNCHANGED <<cn, doConnect_, retry_, connection_, conn, input, loopVars,
                   call, connected, history>>

\* The last shared_ptr is dropped: ~TcpClient up to EnqueueEventLoop or, if
\* there is no connection, the CAS of Stop.  While a handler of the loop
\* holds a pointer (restarting) the destructor has to wait.
Destroy ==
    /\ client = "alive" /\ Idle /\ ~restarting /\ client' = "gone"
    /\ IF connection_ # None
       THEN call' = Functor("forceClose", connection_) /\ UNCHANGED doConnect_
       ELSE /\ call' = IF doConnect_ THEN Functor("stop", None) ELSE call
            /\ doConnect_' = FALSE
    /\ UNCHANGED <<cn, retry_, connection_, conn, input, loopVars, connected,
                   history>>

\* EnqueueEventLoop by the user thread.
PushCall ==
    /\ Calling("start") \/ Calling("forceClose")
    /\ queue' = Append(queue, call) /\ Returns
    /\ UNCHANGED <<cn, clientVars, conn, input, todo, phase, active, due,
                   restarting, connected, history>>

-----------------------------------------------------------------------------
\* Handlers of the loop.

InHandlers == phase = "handlers" /\ ~restarting /\ due = <<>>

\* Connect called by the loop thread: StartInLoop runs in place.
ConnectFromLoop ==
    /\ InHandlers /\ client = "alive" /\ Idle
    /\ ~connected /\ connected' = TRUE /\ doConnect_' = TRUE
    /\ cn' \in StartInLoop(ConnectorStart(cn))
    /\ UNCHANGED <<client, retry_, connection_, conn, input, loopVars, call,
                   history>>

RetryTimer ==
    /\ InHandlers /\ cn.armed > 0
    /\ cn' \in StartInLoop([cn EXCEPT !.armed = @ - 1])
    /\ UNCHANGED <<clientVars, conn, input, loopVars, call, connected,
                   history>>

\* What poll(2) tells of a socket.  The peer's FIN sets IN and RDHUP, a reset
\* HUP and ERR too; a pending connect asks for OUT only.
Reported(x) ==
    IF x = "connector" THEN {{"OUT"}, {"OUT", "ERR", "HUP"}}
    ELSE {{"IN"}, {"IN", "RDHUP"}, {"IN", "RDHUP", "HUP", "ERR"}, {"HUP"}}

\* No shared_ptr to connection c is left.
Gone(c) ==
    /\ conn[c].chan # "new" /\ call.c # c
    /\ connection_ = c => client = "gone"
    /\ \A i \in DOMAIN queue : queue[i].c # c

\* HandleEvents of a channel on the active list; a connection's is tied to it.
\* If the connection is gone (DestructedWhenClosed) so is the channel, and what
\* is read of its tie_ may be either.
HandleChannel(x) ==
    /\ InHandlers /\ x \in active /\ active' = active \ {x}
    /\ \E revents \in Reported(x), ownerGone \in BOOLEAN :
        /\ ownerGone => x \in Conns /\ Gone(x)
        /\ LET cbs == IF x = "connector"
                      THEN HandleEvents(FALSE, FALSE, revents, {"error", "write"})
                      ELSE HandleEvents(TRUE, ownerGone, revents,
                                        {"close", "error", "read", "write"})
           IN  due' = [i \in DOMAIN cbs |-> <<x, cbs[i]>>]
    /\ UNCHANGED <<cn, clientVars, conn, input, queue, todo, phase,
                   restarting, call, connected, history>>

Calls(x, cb) ==
    /\ ~restarting /\ due # <<>> /\ Head(due) = <<x, cb>>
    /\ due' = Tail(due)

\* The functor that RemoveAndResetChannel leaves.
QueueReset ==
    queue' = IF cn.opState_ = "kConnecting"
             THEN Append(queue, Functor("resetChannel", None)) ELSE queue

ConnectFails ==
    /\ \/ Calls("connector", "error") /\ cn' = HandleAsyncError(cn)
       \/ Calls("connector", "write") /\ cn' = ConnectorHandleWrite(cn, TRUE)
    /\ QueueReset
    /\ UNCHANGED <<clientVars, conn, input, todo, phase, active, restarting,
                   call, connected, history>>

\* cb_ of CreateTcpClient: without a client the new socket is closed.
ConnectSucceeds ==
    /\ Calls("connector", "write") /\ cn.opState_ = "kConnecting"
    /\ cn' = ConnectorHandleWrite(cn, FALSE) /\ QueueReset
    /\ IF cn.connect_ /\ client = "alive"
       THEN LET c == CHOOSE c \in Conns : conn[c].chan = "new" IN
            /\ \E x \in Conns : conn[x].chan = "new"
            /\ conn' = [conn EXCEPT ![c] = StepIntoEstablished(@)]
            /\ connection_' = c
       ELSE UNCHANGED <<conn, connection_>>
    /\ UNCHANGED <<client, doConnect_, retry_, todo, phase, active,
                   restarting, input, call, connected, history>>

\* Mutant: the pointer to the closed connection is kept.
HandleRemoveConnection_KeepsPointer(c) ==
    /\ conn' = [conn EXCEPT ![c] = StepIntoDestroyed(HandleClose(@))]
    /\ restarting' = (client = "alive" /\ doConnect_ /\ retry_)
    /\ UNCHANGED <<connection_, input>>

\* Mutant: the connection is not destroyed.
HandleRemoveConnection_KeepsChannel(c) ==
    /\ conn' = [conn EXCEPT ![c] = HandleClose(@)]
    /\ connection_' = IF client = "alive" THEN None ELSE connection_
    /\ restarting' = (client = "alive" /\ doConnect_ /\ retry_)
    /\ UNCHANGED input

\* Mutant: the client reconnects although it was stopped.
HandleRemoveConnection_IgnoresStop(c) ==
    /\ conn' = [conn EXCEPT ![c] = StepIntoDestroyed(HandleClose(@))]
    /\ connection_' = IF client = "alive" THEN None ELSE connection_
    /\ restarting' = (client = "alive" /\ retry_)
    /\ UNCHANGED input

\* HandleClose and onCloseCb_: HandleRemoveConnection up to the test, or, if
\* the client is gone, only StepIntoDestroyed.  Nobody looks at inputBuffer_
\* after that; it goes when the connection is destructed.
HandleRemoveConnection(c) ==
    /\ conn' = [conn EXCEPT ![c] = StepIntoDestroyed(HandleClose(@))]
    /\ input' = [input EXCEPT ![c] = NewInput]
    /\ connection_' = IF client = "alive" THEN None ELSE connection_
    /\ restarting' = (client = "alive" /\ doConnect_ /\ retry_)

\* POLLHUP, or HandleRead that reads 0 bytes.
PeerCloses(c) ==
    /\ Calls(c, "close") \/ Calls(c, "read")
    /\ HandleRemoveConnection(c)
    /\ UNCHANGED <<cn, client, doConnect_, retry_, queue, todo, phase, active,
                   call, connected, history>>

\* HandleError, also after a read(2) that failed, only logs.
SocketError(c) ==
    /\ Calls(c, "error") \/ Calls(c, "read")
    /\ UNCHANGED <<cn, clientVars, conn, input, queue, todo, phase, active,
                   restarting, call, connected, history>>

\* The n bytes that come next on connection c: no two of the up to MaxBytes
\* of a run are the same.
Arriving(c, n) == [i \in 1 .. n |-> (200 + Len(input[c].received) + i) % 256]

MayGet(c, n) == Len(input[c].received) + n <= MaxBytes

\* HandleRead with data.
HandleRead(c) ==
    /\ Calls(c, "read")
    /\ \E n \in 1 .. ReadFdRoom(input[c].inputBuffer_) :
        /\ MayGet(c, n)
        /\ input' = [input EXCEPT
                ![c].inputBuffer_ = ReadFd(@, Arriving(c, n)),
                ![c].received = @ \o Arriving(c, n)]
    /\ UNCHANGED <<cn, clientVars, conn, queue, todo, phase, active, restarting,
                   call, connected, history>>

\* The end of HandleRemoveConnection.
Reconnect ==
    /\ restarting /\ restarting' = FALSE
    /\ cn' \in Restart(cn)
    /\ UNCHANGED <<clientVars, conn, input, queue, todo, phase, active, due,
                   call, connected, history>>

\* Bytes of an integer; those of 4 and 8 bytes are beyond TLC's own integers.
Widths == {1, 2}

\* What user code in the loop does with inputBuffer_: take n bytes out, as a
\* string or as an integer...
Consume(c, b) ==
    \E n \in 1 .. ReadableBytes(b) :
        \/ input' = [input EXCEPT ![c].inputBuffer_ = Retrieve(b, n),
                                 ![c].consumed = @ \o Peek(b, n)]
        \/ /\ n \in Widths
           /\ input' = [input EXCEPT
                ![c].inputBuffer_ = ReadInt(b, n),
                ![c].consumed = @ \o Big(PeekInt(b, n), n)]

\* ... put the last n back ...
PutBack(c, b) ==
    LET took == Len(input[c].consumed)
        last(n) == SubSeq(input[c].consumed, took - n + 1, took)
        back(n, buf) == [input EXCEPT
                ![c].inputBuffer_ = buf, ![c].consumed = SubSeq(@, 1, took - n)]
    IN
    \E n \in 1 .. took :
        /\ n <= PrependableBytes(b)
        /\ \/ input' = back(n, Prepend(b, last(n)))
           \/ n \in Widths /\ input' = back(n, PrependInt(b, Native(last(n)), n))

\* ... or append an integer.
AppendOwn(c, b) ==
    \E n \in Widths :
        /\ MayGet(c, n)
        /\ input' = [input EXCEPT
                ![c].inputBuffer_ = AppendInt(b, Native(Arriving(c, n)), n),
                ![c].received = @ \o Arriving(c, n)]

UseBuffer(c) ==
    /\ InHandlers /\ conn[c].chan = "added" /\ ~Gone(c)
    /\ LET b == input[c].inputBuffer_
       IN  Consume(c, b) \/ PutBack(c, b) \/ AppendOwn(c, b)
    /\ UNCHANGED <<cn, clientVars, conn, loopVars, call, connected, history>>

-----------------------------------------------------------------------------
\* Pending functors.

SwapPending ==
    /\ InHandlers /\ phase' = "pending" /\ todo' = Len(queue)
    /\ UNCHANGED <<cn, clientVars, conn, input, queue, active, due,
                   restarting, call, connected, history>>

Runs(op) ==
    /\ phase = "pending" /\ ~restarting /\ todo > 0 /\ Head(queue).op = op
    /\ queue' = Tail(queue) /\ todo' = todo - 1

RunConnector ==
    /\ \/ Runs("start") /\ cn' \in StartInLoop(cn)
       \/ Runs("resetChannel") /\ cn' = ResetChannel(cn)
    /\ UNCHANGED <<clientVars, conn, input, phase, active, due, restarting,
                   call, connected, history>>

RunShutdown ==
    LET c == Head(queue).c IN
    /\ Runs("shutdownInLoop")
    /\ conn' = [conn EXCEPT ![c] = ShutdownInLoop(@)]
    /\ UNCHANGED <<cn, clientVars, phase, active, due, restarting, input,
                   call, connected, history>>

\* The functor of ~TcpClient.
RunForceClose ==
    LET c == Head(queue).c IN
    /\ Runs("forceClose")
    /\ IF conn[c].state_ \in {"connected", "connecting"}
       THEN HandleRemoveConnection(c)
       ELSE UNCHANGED <<conn, input, connection_, restarting>>
    /\ UNCHANGED <<cn, client, doConnect_, retry_, phase, active, due, call,
                   connected, history>>

\* The next poll sees what is registered now.
RoundEnd ==
    /\ phase = "pending" /\ ~restarting /\ todo = 0 /\ phase' = "handlers"
    /\ active' = {c \in Conns : conn[c].chan = "added"}
                    \cup {x \in {"connector"} : cn.chan_ = "added"}
    /\ cn' = NextRound(cn)
    /\ UNCHANGED <<clientVars, conn, input, queue, todo, due, restarting,
                   call, connected, history>>

-----------------------------------------------------------------------------
UserCalls == EnableRetry \/ Connect \/ Stop \/ Shutdown \/ Destroy

UserReturns == StopDone \/ ShutdownDone \/ PushCall

Handlers ==
    \/ ConnectFromLoop \/ RetryTimer
    \/ \E x \in Conns \cup {"connector"} : HandleChannel(x)
    \/ \E c \in Conns : UseBuffer(c)

Callback ==
    \/ ConnectFails \/ ConnectSucceeds
    \/ \E c \in Conns : PeerCloses(c) \/ SocketError(c) \/ HandleRead(c)

LoopBody ==
    \/ Callback \/ Reconnect
    \/ RunConnector \/ RunShutdown \/ RunForceClose \/ RoundEnd

Next == UserCalls \/ UserReturns \/ Handlers \/ SwapPending \/ LoopBody

\* The user thread finishes its calls, the loop thread its rounds, and poll
\* returns when a functor is pending (NoLostWakeUp of EventLoop.tla).  Peers
\* and timers owe nothing.
Fairness ==
    /\ WF_vars(UserReturns) /\ WF_vars(LoopBody)
    /\ WF_vars(queue # <<>> /\ SwapPending)

Spec == Init /\ [][Next]_vars
FairSpec == Spec /\ Fairness

-----------------------------------------------------------------------------
Queued(op) == \E i \in DOMAIN queue : queue[i].op = op

\* Calls of StartInLoop that are to come.
Starts ==
    cn.armed + cn.justSet
        + Cardinality({i \in DOMAIN queue : queue[i].op = "start"})
        + Cardinality({x \in {"start"} : Calling(x)})
        + Cardinality({x \in {TRUE} : restarting})

\* There is never more than one attempt to connect, and as long as it is
\* wanted there is one: StartInLoop finds kDisconnected and no channel
\* (asserts, Connector.cpp:24,74), the functor that resets chan_ never hits a
\* channel in use, and an attempt that is not given up is never forgotten.
OneAttempt ==
    /\ Starts <= 1
    /\ Starts = 1 => cn.opState_ # "kConnecting"
    /\ Starts = 1 /\ cn.justSet = 0 => cn.chan_ = "null"
    /\ cn.opState_ = "kConnecting" <=> cn.chan_ = "added"
    /\ cn.chan_ = "removed" <=> Queued("resetChannel")
    /\ cn.connect_ /\ cn.opState_ = "kDisconnected" /\ ~cn.gaveUp => Starts = 1

\* A client knows its connection: the one that closes is the one it keeps
\* (assert, TcpClient.cpp:146), and it keeps none that has been destroyed.
ClientKnowsConnection ==
    client = "alive" =>
        /\ \A c \in Conns : conn[c].chan = "added" => connection_ = c
        /\ connection_ # None => conn[connection_].chan = "added"

\* The user sees every connection come up once and go down once, also when
\* the client is destroyed while the peer closes.
CallbacksPaired ==
    \A c \in Conns :
        /\ conn[c].downs <= conn[c].ups /\ conn[c].ups <= 1
        /\ conn[c].state_ = "disconnected" <=> conn[c].downs = 1
        /\ conn[c].chan = "removed" <=> conn[c].downs = 1

\* "When the TcpClient instance destroyed, the connection will also be closed"
\* (TcpClient.h:29), at least if Shutdown() was not called before.
DestroyCloses ==
    \A c \in Conns :
        (client = "gone" /\ conn[c].chan = "added" /\ ~shutdowns)
            ~> (conn[c].chan = "removed")

\* What the user took out of inputBuffer_ followed by what is in it is what
\* was put in, whole and in order: however the bytes arrived, were taken out
\* and put back, and whichever of growing, moving and extrabuf made the room.
StreamReceived ==
    \A c \in Conns : LET i == input[c] IN
        i.consumed \o Content(i.inputBuffer_) = i.received

\* Once Stop() has returned the connector is told nothing else, unless the loop
\* thread had already decided to reconnect; and a client that is gone leaves no
\* connector that goes on trying, unless Shutdown() was called before.
StopIsFinal ==
    /\ stopped = "final" => ~cn.connect_
    /\ client = "gone" /\ Idle /\ stopped # "raced" /\ ~shutdowns
        => ~cn.connect_ \/ cn.opState_ = "kConnected"

\* When the TcpClient instance is destroyed the connection is closed too
\* (TcpClient.h:29): a connection is destructed only when it is disconnected
\* (assert, TcpConnection.cpp:47) and out of the poller.
DestructedWhenClosed ==
    \A c \in Conns : Gone(c) =>
        conn[c].state_ = "disconnected" /\ conn[c].chan = "removed"

=============================================================================
