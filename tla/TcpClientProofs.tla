--------------------------- MODULE TcpClientProofs ---------------------------
(***************************************************************************)
(* For any number of connections and any bytes: the client makes one       *)
(* attempt to connect at a time and forgets none, knows the connection it  *)
(* has, calls connectionCb_ in pairs, stops when it is told to, and gives  *)
(* the user the bytes that arrived.                                        *)
(***************************************************************************)
EXTENDS TcpClient, BufferProofs, FiniteSetTheorems

Connectors ==
    [opState_ : {"kDisconnected", "kConnecting", "kConnected"},
     connect_ : BOOLEAN, chan_ : {"null", "added", "removed"},
     retryDelayMs_ : Nat, justSet : Nat, armed : Nat, gaveUp : BOOLEAN]

\* A client's connection as far as TcpClient.tla goes: it sends nothing.
Connections ==
    [state_ : {"connecting", "connected", "disconnecting", "disconnected"},
     chan : {"new", "added", "removed"}, events : SUBSET {"read", "write"},
     outputBuffer_ : {NewBuffer}, wire : {<<>>}, shut : BOOLEAN,
     ups : Nat, downs : Nat, accepted : {<<>>}, broken : {FALSE},
     submitted : {{}}, owed : {{}}]

Functors ==
    [op : {"none", "start", "stop", "shutdown", "forceClose", "shutdownInLoop",
           "resetChannel"},
     c : Conns \cup {None}]

\* What HandleEvents may have left to call of the callbacks of channel x.
DueOf(x) ==
    IF x = "connector"
    THEN {<< <<x, "write">> >>, << <<x, "error">>, <<x, "write">> >>}
    ELSE {<< <<x, "close">> >>, << <<x, "read">> >>,
          << <<x, "error">>, <<x, "read">> >>}

TypeOK ==
    /\ cn \in Connectors /\ client \in {"alive", "gone"}
    /\ doConnect_ \in BOOLEAN /\ retry_ \in BOOLEAN
    /\ connection_ \in Conns \cup {None}
    /\ conn \in [Conns -> Connections]
    /\ queue \in Seq(Functors) /\ todo \in Nat
    /\ phase \in {"handlers", "pending"}
    /\ active \subseteq Conns \cup {"connector"}
    /\ due = <<>> \/ \E x \in Conns \cup {"connector"} : due \in DueOf(x)
    /\ restarting \in BOOLEAN /\ call \in Functors
    /\ connected \in BOOLEAN /\ shutdowns \in BOOLEAN
    /\ stopped \in {"no", "raced", "final"}

\* A connection is new, then up, then down.
ConnInv ==
    \A c \in Conns : LET k == conn[c] IN
        \/ k.chan = "new" /\ k.state_ = "connecting" /\ k.ups = 0 /\ k.downs = 0
        \/ /\ k.chan = "added" /\ k.state_ \in {"connected", "disconnecting"}
           /\ k.ups = 1 /\ k.downs = 0
        \/ /\ k.chan = "removed" /\ k.state_ = "disconnected"
           /\ k.ups = 1 /\ k.downs = 1

\* Only connection_ is up, and while the client lives it is up.
ClientInv ==
    /\ \A c \in Conns : conn[c].chan = "added" => connection_ = c
    /\ connection_ # None => conn[connection_].chan # "new"
    /\ client = "alive" /\ connection_ # None => conn[connection_].chan = "added"

\* What the loop has before it: a channel whose callbacks are due is not on
\* the active list any more; what is there is still registered; and a closed
\* connector's channel is reset before a new connection is polled.
RoundInv ==
    /\ phase = "pending" => due = <<>>
    /\ phase = "handlers" =>
          \A c \in Conns : c \in active => conn[c].chan = "added"
    /\ \A c \in Conns : due \in DueOf(c) => c \notin active /\ conn[c].chan = "added"
    /\ phase = "handlers" /\ cn.chan_ = "removed" =>
          \A c \in Conns : c \notin active /\ due \notin DueOf(c)
    /\ restarting => phase = "handlers" /\ due = <<>>

\* The functors that are queued, and the one that the user thread is about to
\* queue.
QueueInv ==
    /\ todo <= Len(queue)
    /\ phase = "handlers" => todo = 0
    /\ \A i \in DOMAIN queue :
          /\ queue[i].op \in {"shutdownInLoop", "forceClose"} =>
                queue[i].c \in Conns /\ conn[queue[i].c].chan # "new"
          /\ queue[i].op = "forceClose" => client = "gone"
          /\ queue[i].op = "resetChannel" /\ phase = "pending" => i <= todo
          /\ queue[i].op \notin {"none", "stop", "shutdown"}
    /\ Calling("forceClose") => client = "gone" /\ call.c \in Conns /\ connection_ = call.c
    /\ call.op \notin {"shutdownInLoop", "resetChannel"}
    /\ Calling("none") => call = Functor("none", None)

\* Connect and RemoveAndResetChannel leave one functor each.
OnceInv ==
    \A i, j \in DOMAIN queue :
        queue[i].op = queue[j].op /\ queue[i].op \in {"start", "resetChannel"}
            => i = j

One(b) == IF b THEN 1 ELSE 0

\* Starts, without counting.
Waiting ==
    cn.armed + cn.justSet + One(Queued("start")) + One(Calling("start"))
        + One(restarting)

\* OneAttempt, and what it rests on: a client that has a connection is done
\* with connecting, and one that is to reconnect has lost it.
AttemptInv ==
    /\ Waiting <= 1
    /\ Waiting = 1 => cn.opState_ # "kConnecting"
    /\ Waiting = 1 /\ cn.justSet = 0 => cn.chan_ = "null"
    /\ cn.opState_ = "kConnecting" <=> cn.chan_ = "added"
    /\ cn.chan_ = "removed" <=> Queued("resetChannel")
    /\ cn.connect_ /\ cn.opState_ = "kDisconnected" /\ ~cn.gaveUp => Waiting = 1
    /\ connection_ # None => cn.opState_ = "kConnected" /\ Waiting = 0
    /\ restarting => client = "alive" /\ connection_ = None
    /\ ~connected =>
          /\ Waiting = 0 /\ cn.opState_ = "kDisconnected" /\ ~cn.connect_
          /\ cn.chan_ = "null"

\* Nobody sets doConnect_ again after Stop, and without it nobody restarts.
StopInv ==
    /\ doConnect_ => connected
    /\ stopped # "no" \/ Calling("stop") => connected /\ ~doConnect_
    /\ Calling("stop") => stopped = "no"
    /\ stopped = "final" => ~cn.connect_ /\ ~restarting
    /\ connected /\ ~doConnect_ => shutdowns \/ stopped # "no" \/ Calling("stop")
    /\ client = "gone" /\ stopped # "raced" /\ ~shutdowns =>
          Calling("stop") \/ ~cn.connect_ \/ connection_ # None

\* The buffers are buffers of bytes, and what goes through them is whole.
InputInv ==
    /\ input \in [Conns -> [inputBuffer_ : Fields(Byte), received : Seq(Byte),
                            consumed : Seq(Byte)]]
    /\ \A c \in Conns : IsBuffer(input[c].inputBuffer_, Byte)
    /\ StreamReceived

IInv ==
    /\ TypeOK /\ ConnInv /\ ClientInv /\ RoundInv /\ QueueInv /\ OnceInv
    /\ AttemptInv /\ StopInv

-----------------------------------------------------------------------------
\* What the connector's operators do, field by field.

LEMMA RetryFacts ==
    ASSUME NEW k \in Connectors, NEW n, n = Retry(k)
    PROVE  /\ n \in Connectors /\ n.connect_ = k.connect_ /\ n.armed = k.armed
           /\ n.opState_ = "kDisconnected" /\ n.chan_ = k.chan_
           /\ n.justSet = k.justSet + One(k.connect_)
<1> DEFINE down == [k EXCEPT !.opState_ = "kDisconnected"]
           next == IF 2 * k.retryDelayMs_ < kMaxRetryDelayMs
                   THEN 2 * k.retryDelayMs_ ELSE kMaxRetryDelayMs
<1>1. next \in Nat
  BY DelayAssumption DEF Connectors
<1>2. /\ down \in Connectors /\ down.connect_ = k.connect_
      /\ down.armed = k.armed /\ down.opState_ = "kDisconnected"
      /\ down.chan_ = k.chan_ /\ down.justSet = k.justSet
  BY DEF Connectors
<1>3. n = IF k.connect_
          THEN [down EXCEPT !.justSet = @ + 1, !.retryDelayMs_ = next] ELSE down
  BY DEF Retry
<1> HIDE DEF down, next
<1>4. CASE k.connect_
  <2>1. n = [down EXCEPT !.justSet = @ + 1, !.retryDelayMs_ = next]
    BY <1>3, <1>4
  <2>2. /\ n \in Connectors /\ n.connect_ = down.connect_
        /\ n.armed = down.armed /\ n.opState_ = down.opState_
        /\ n.chan_ = down.chan_ /\ n.justSet = down.justSet + 1
    <3>1. down.justSet + 1 \in Nat
      BY <1>2 DEF Connectors
    <3>2. n \in Connectors
      BY <1>1, <1>2, <2>1, <3>1 DEF Connectors
    <3> QED BY <1>2, <2>1, <3>2 DEF Connectors
  <2> QED BY <1>2, <1>4, <2>2 DEF One
<1>5. CASE ~k.connect_
  <2>1. k.justSet + 0 = k.justSet
    BY DEF Connectors
  <2> QED BY <1>2, <1>3, <1>5, <2>1 DEF One
<1> QED BY <1>4, <1>5

LEMMA StartFacts ==
    ASSUME NEW k \in Connectors, NEW n \in StartInLoop(k)
    PROVE  /\ n \in Connectors /\ n.connect_ = k.connect_ /\ n.armed = k.armed
           /\ ~k.connect_ => n = k
           /\ k.connect_ =>
                \/ /\ n.opState_ = "kConnecting" /\ n.chan_ = "added"
                   /\ n.justSet = k.justSet
                \/ /\ n.opState_ = "kDisconnected" /\ n.chan_ = k.chan_
                   /\ n.justSet = k.justSet + 1
                \/ /\ n.opState_ = k.opState_ /\ n.chan_ = k.chan_
                   /\ n.justSet = k.justSet /\ n.gaveUp
<1>1. CASE ~k.connect_
  BY <1>1 DEF StartInLoop
<1>2. CASE k.connect_ /\ n = InitConnectOp(k)
  BY <1>2 DEF InitConnectOp, Connectors
<1>3. CASE k.connect_ /\ n = Retry(k)
  BY <1>3, RetryFacts DEF One
<1>4. CASE k.connect_ /\ n = [k EXCEPT !.gaveUp = TRUE]
  BY <1>4 DEF Connectors
<1> QED BY <1>1, <1>2, <1>3, <1>4 DEF StartInLoop, DoConnect

LEMMA RestartFacts ==
    ASSUME NEW k \in Connectors, NEW n \in Restart(k)
    PROVE  /\ n \in Connectors /\ n.connect_ /\ n.armed = k.armed
           /\ \/ /\ n.opState_ = "kConnecting" /\ n.chan_ = "added"
                 /\ n.justSet = k.justSet
              \/ /\ n.opState_ = "kDisconnected" /\ n.chan_ = k.chan_
                 /\ n.justSet = k.justSet + 1
              \/ /\ n.opState_ = "kDisconnected" /\ n.chan_ = k.chan_
                 /\ n.justSet = k.justSet /\ n.gaveUp
<1> DEFINE r == [k EXCEPT !.retryDelayMs_ = kInitRetryDelayMs,
                          !.opState_ = "kDisconnected", !.connect_ = TRUE]
<1>1. /\ r \in Connectors /\ r.connect_ /\ r.opState_ = "kDisconnected"
      /\ r.armed = k.armed /\ r.justSet = k.justSet /\ r.chan_ = k.chan_
  BY DelayAssumption DEF Connectors
<1>2. n \in StartInLoop(r)
  BY DEF Restart
<1> HIDE DEF r
<1> QED BY <1>1, <1>2, StartFacts

\* A failed attempt: the channel is removed and, if nobody called Stop, a timer
\* set.
LEMMA FailFacts ==
    ASSUME NEW k \in Connectors, NEW n,
           n = HandleAsyncError(k) \/ n = ConnectorHandleWrite(k, TRUE)
    PROVE  /\ n \in Connectors /\ n.connect_ = k.connect_ /\ n.armed = k.armed
           /\ k.opState_ # "kConnecting" => n = k
           /\ k.opState_ = "kConnecting" =>
                /\ n.opState_ = "kDisconnected" /\ n.chan_ = "removed"
                /\ n.justSet = k.justSet + One(k.connect_)
<1>1. CASE k.opState_ # "kConnecting"
  BY <1>1 DEF HandleAsyncError, ConnectorHandleWrite
<1>2. CASE k.opState_ = "kConnecting"
  <2> DEFINE r == RemoveAndResetChannel(k)
  <2>1. /\ r \in Connectors /\ r.chan_ = "removed" /\ r.connect_ = k.connect_
        /\ r.armed = k.armed /\ r.justSet = k.justSet
    BY DEF RemoveAndResetChannel, Connectors
  <2>2. n = Retry(r)
    BY <1>2 DEF HandleAsyncError, ConnectorHandleWrite
  <2> HIDE DEF r
  <2> QED BY <1>2, <2>1, <2>2, RetryFacts
<1> QED BY <1>1, <1>2

\* The attempt succeeded.
LEMMA SuccessFacts ==
    ASSUME NEW k \in Connectors, k.opState_ = "kConnecting",
           NEW n, n = ConnectorHandleWrite(k, FALSE)
    PROVE  /\ n \in Connectors /\ n.connect_ = k.connect_ /\ n.armed = k.armed
           /\ n.chan_ = "removed" /\ n.justSet = k.justSet
           /\ n.opState_ = IF k.connect_ THEN "kConnected" ELSE "kDisconnected"
  BY DEF ConnectorHandleWrite, RemoveAndResetChannel, Connectors

\* Fields that the other operators set.
LEMMA FieldFacts ==
    ASSUME NEW k \in Connectors
    PROVE  /\ \A v \in BOOLEAN : LET n == [k EXCEPT !.connect_ = v] IN
                /\ n \in Connectors /\ n.connect_ = v /\ n.opState_ = k.opState_
                /\ n.chan_ = k.chan_ /\ n.armed = k.armed /\ n.justSet = k.justSet
                /\ n.gaveUp = k.gaveUp
           /\ LET n == ResetChannel(k) IN
                /\ n \in Connectors /\ n.connect_ = k.connect_
                /\ n.opState_ = k.opState_ /\ n.chan_ = "null" /\ n.armed = k.armed
                /\ n.justSet = k.justSet /\ n.gaveUp = k.gaveUp
           /\ LET n == NextRound(k) IN
                /\ n \in Connectors /\ n.connect_ = k.connect_
                /\ n.opState_ = k.opState_ /\ n.chan_ = k.chan_
                /\ n.armed = k.armed + k.justSet /\ n.justSet = 0
                /\ n.gaveUp = k.gaveUp
           /\ k.armed > 0 => LET n == [k EXCEPT !.armed = @ - 1] IN
                /\ n \in Connectors /\ n.connect_ = k.connect_
                /\ n.opState_ = k.opState_ /\ n.chan_ = k.chan_
                /\ n.armed = k.armed - 1 /\ n.justSet = k.justSet
                /\ n.gaveUp = k.gaveUp
<1>1. \A v \in BOOLEAN : LET n == [k EXCEPT !.connect_ = v] IN
        /\ n \in Connectors /\ n.connect_ = v /\ n.opState_ = k.opState_
        /\ n.chan_ = k.chan_ /\ n.armed = k.armed /\ n.justSet = k.justSet
        /\ n.gaveUp = k.gaveUp
  BY DEF Connectors
<1>2. LET n == ResetChannel(k) IN
        /\ n \in Connectors /\ n.connect_ = k.connect_ /\ n.opState_ = k.opState_
        /\ n.chan_ = "null" /\ n.armed = k.armed /\ n.justSet = k.justSet
        /\ n.gaveUp = k.gaveUp
  BY DEF ResetChannel, Connectors
<1>3. LET n == NextRound(k) IN
        /\ n \in Connectors /\ n.connect_ = k.connect_ /\ n.opState_ = k.opState_
        /\ n.chan_ = k.chan_ /\ n.armed = k.armed + k.justSet /\ n.justSet = 0
        /\ n.gaveUp = k.gaveUp
  <2> DEFINE n == NextRound(k)
  <2>1. k.armed + k.justSet \in Nat
    BY DEF Connectors
  <2>2. n \in Connectors
    BY <2>1 DEF NextRound, Connectors
  <2> QED BY <2>2 DEF NextRound, Connectors
<1>4. ASSUME k.armed > 0
      PROVE  LET n == [k EXCEPT !.armed = @ - 1] IN
        /\ n \in Connectors /\ n.connect_ = k.connect_ /\ n.opState_ = k.opState_
        /\ n.chan_ = k.chan_ /\ n.armed = k.armed - 1 /\ n.justSet = k.justSet
        /\ n.gaveUp = k.gaveUp
  <2>1. k.armed - 1 \in Nat
    BY <1>4 DEF Connectors
  <2> QED BY <2>1 DEF Connectors
<1> QED BY <1>1, <1>2, <1>3, <1>4

\* What a connection's operators do, field by field.
LEMMA ConnectionFacts ==
    ASSUME NEW k \in Connections
    PROVE  /\ LET n == StepIntoEstablished(k) IN
                /\ n \in Connections /\ n.chan = "added" /\ n.state_ = "connected"
                /\ n.ups = k.ups + 1 /\ n.downs = k.downs
           /\ LET n == StepIntoDestroyed(HandleClose(k)) IN
                /\ n \in Connections /\ n.chan = "removed"
                /\ n.state_ = "disconnected"
                /\ n.ups = k.ups /\ n.downs = k.downs + 1
           /\ LET n == [k EXCEPT !.state_ = "disconnecting"] IN
                /\ n \in Connections /\ n.chan = k.chan
                /\ n.state_ = "disconnecting"
                /\ n.ups = k.ups /\ n.downs = k.downs
           /\ LET n == ShutdownInLoop(k) IN
                /\ n \in Connections /\ n.chan = k.chan /\ n.state_ = k.state_
                /\ n.ups = k.ups /\ n.downs = k.downs
<1>1. LET n == StepIntoEstablished(k) IN
        /\ n \in Connections /\ n.chan = "added" /\ n.state_ = "connected"
        /\ n.ups = k.ups + 1 /\ n.downs = k.downs
  <2> DEFINE n == StepIntoEstablished(k)
  <2>1. k.ups + 1 \in Nat /\ {"read"} \in SUBSET {"read", "write"}
    BY DEF Connections
  <2>2. n \in Connections
    BY <2>1 DEF StepIntoEstablished, Connections
  <2>3. /\ n.chan = "added" /\ n.state_ = "connected"
        /\ n.ups = k.ups + 1 /\ n.downs = k.downs
    BY DEF StepIntoEstablished, Connections
  <2> QED BY <2>2, <2>3
<1>2. LET n == StepIntoDestroyed(HandleClose(k)) IN
        /\ n \in Connections /\ n.chan = "removed" /\ n.state_ = "disconnected"
        /\ n.ups = k.ups /\ n.downs = k.downs + 1
  <2> DEFINE h == HandleClose(k)
  <2>1. /\ h \in Connections /\ h.state_ = "disconnected"
        /\ h.ups = k.ups /\ h.downs = k.downs
    BY DEF HandleClose, Connections
  <2> HIDE DEF h
  <2>2. LET n == StepIntoDestroyed(h) IN
        /\ n \in Connections /\ n.chan = "removed" /\ n.state_ = "disconnected"
        /\ n.ups = k.ups /\ n.downs = k.downs + 1
    <3> DEFINE n == StepIntoDestroyed(h)
    <3>1. n = [h EXCEPT !.state_ = @, !.events = @, !.downs = @ + 1,
                        !.chan = "removed"]
      BY <2>1 DEF StepIntoDestroyed
    <3>2. h.downs + 1 \in Nat
      BY <2>1 DEF Connections
    <3> HIDE DEF n
    <3>3. n \in Connections
      BY <2>1, <3>1, <3>2 DEF Connections
    <3>4. /\ n.chan = "removed" /\ n.state_ = h.state_
          /\ n.ups = h.ups /\ n.downs = h.downs + 1
      BY <2>1, <3>1 DEF Connections
    <3> QED BY <2>1, <3>3, <3>4 DEF n
  <2> QED BY <2>2 DEF h
<1>3. LET n == [k EXCEPT !.state_ = "disconnecting"] IN
        /\ n \in Connections /\ n.chan = k.chan /\ n.state_ = "disconnecting"
        /\ n.ups = k.ups /\ n.downs = k.downs
  BY DEF Connections
<1>4. LET n == ShutdownInLoop(k) IN
        /\ n \in Connections /\ n.chan = k.chan /\ n.state_ = k.state_
        /\ n.ups = k.ups /\ n.downs = k.downs
  BY DEF ShutdownInLoop, Connections
<1> QED BY <1>1, <1>2, <1>3, <1>4

Tag(x, cbs) == [i \in DOMAIN cbs |-> <<x, cbs[i]>>]

LEMMA TagOne ==
    ASSUME NEW x, NEW a, NEW cbs, cbs = <<a>>
    PROVE  Tag(x, cbs) = << <<x, a>> >>
<1>1. DOMAIN cbs = 1 .. 1 /\ cbs[1] = a
  OBVIOUS
<1> QED BY <1>1 DEF Tag

LEMMA TagTwo ==
    ASSUME NEW x, NEW cbs
    PROVE  /\ cbs = <<"error", "read">> => Tag(x, cbs) = << <<x, "error">>, <<x, "read">> >>
           /\ cbs = <<"error", "write">> => Tag(x, cbs) = << <<x, "error">>, <<x, "write">> >>
<1>1. ASSUME DOMAIN cbs = 1 .. 2
      PROVE  Tag(x, cbs) = << <<x, cbs[1]>>, <<x, cbs[2]>> >>
  BY <1>1 DEF Tag
<1>2. ASSUME NEW a, NEW b, cbs = <<a, b>>
      PROVE  DOMAIN cbs = 1 .. 2 /\ cbs[1] = a /\ cbs[2] = b
  BY <1>2
<1>3. ASSUME cbs = <<"error", "read">>
      PROVE  Tag(x, cbs) = << <<x, "error">>, <<x, "read">> >>
  <2>1. DOMAIN cbs = 1 .. 2 /\ cbs[1] = "error" /\ cbs[2] = "read"
    BY <1>2, <1>3
  <2> QED BY <1>1, <2>1
<1>4. ASSUME cbs = <<"error", "write">>
      PROVE  Tag(x, cbs) = << <<x, "error">>, <<x, "write">> >>
  <2>1. DOMAIN cbs = 1 .. 2 /\ cbs[1] = "error" /\ cbs[2] = "write"
    BY <1>2, <1>4
  <2> QED BY <1>1, <2>1
<1> QED BY <1>3, <1>4

\* The callbacks for each of the reports of poll(2).
LEMMA CallbacksOf ==
    /\ Callbacks({"OUT"}, {"error", "write"}) = <<"write">>
    /\ Callbacks({"OUT", "ERR", "HUP"}, {"error", "write"}) = <<"error", "write">>
    /\ \A set : {"close", "error", "read", "write"} = set =>
         /\ Callbacks({"IN"}, set) = <<"read">>
         /\ Callbacks({"IN", "RDHUP"}, set) = <<"read">>
         /\ Callbacks({"IN", "RDHUP", "HUP", "ERR"}, set) = <<"error", "read">>
         /\ Callbacks({"HUP"}, set) = <<"close">>
<1> DEFINE E(r) == r \cap {"ERR", "NVAL"}
           R(r) == r \cap {"IN", "RDHUP", "PRI"}
<1>1. /\ E({"OUT"}) = {} /\ R({"OUT"}) = {}
      /\ "ERR" \in E({"OUT", "ERR", "HUP"}) /\ R({"OUT", "ERR", "HUP"}) = {}
      /\ E({"IN"}) = {} /\ "IN" \in R({"IN"})
      /\ E({"IN", "RDHUP"}) = {} /\ "IN" \in R({"IN", "RDHUP"})
      /\ "ERR" \in E({"IN", "RDHUP", "HUP", "ERR"})
      /\ "IN" \in R({"IN", "RDHUP", "HUP", "ERR"})
      /\ E({"HUP"}) = {} /\ R({"HUP"}) = {}
  OBVIOUS
<1>2. ASSUME NEW a, NEW b
      PROVE  /\ <<a>> \o <<>> = <<a>> /\ <<>> \o <<a>> = <<a>>
             /\ <<a>> \o <<b>> = <<a, b>> /\ <<>> \o <<>> = <<>>
             /\ <<a, b>> \o <<>> = <<a, b>>
  <2>1. <<a>> \o <<>> = <<a>>
    OBVIOUS
  <2>2. <<>> \o <<a>> = <<a>>
    OBVIOUS
  <2>3. <<a>> \o <<b>> = <<a, b>>
    <3> DEFINE s == <<a>>
               t == <<b>>
               u == <<a, b>>
    <3>1. /\ s \in Seq({a, b}) /\ t \in Seq({a, b}) /\ u \in Seq({a, b})
          /\ Len(s) = 1 /\ Len(t) = 1 /\ Len(u) = 2
          /\ s[1] = a /\ t[1] = b /\ u[1] = a /\ u[2] = b
      OBVIOUS
    <3> HIDE DEF s, t, u
    <3>2. /\ Len(u) = Len(s) + Len(t)
          /\ \A i \in 1 .. Len(s) : u[i] = s[i]
          /\ \A i \in 1 .. Len(t) : u[Len(s) + i] = t[i]
      BY <3>1
    <3>3. u = s \o t
      BY <3>1, <3>2, SameAsJoined
    <3> QED BY <3>3 DEF s, t, u
  <2>4. <<>> \o <<>> = <<>>
    BY EmptySeq, ConcatEmptySeq
  <2>5. <<a, b>> \o <<>> = <<a, b>>
    OBVIOUS
  <2> QED BY <2>1, <2>2, <2>3, <2>4, <2>5
<1>3. ASSUME NEW r, NEW set
      PROVE  Callbacks(r, set) =
               ((IF "close" \in set /\ "HUP" \in r /\ "IN" \notin r THEN <<"close">> ELSE <<>>)
                 \o (IF "error" \in set /\ E(r) # {} THEN <<"error">> ELSE <<>>)
                 \o (IF "read" \in set /\ R(r) # {} THEN <<"read">> ELSE <<>>))
                 \o (IF "write" \in set /\ "OUT" \in r THEN <<"write">> ELSE <<>>)
  BY DEF Callbacks
<1> HIDE DEF E, R
<1>4. Callbacks({"OUT"}, {"error", "write"}) = ((<<>> \o <<>>) \o <<>>) \o <<"write">>
  BY <1>1, <1>3
<1>5. Callbacks({"OUT", "ERR", "HUP"}, {"error", "write"})
        = ((<<>> \o <<"error">>) \o <<>>) \o <<"write">>
  BY <1>1, <1>3
<1>6. ASSUME NEW set, {"close", "error", "read", "write"} = set
      PROVE  /\ Callbacks({"IN"}, set) = ((<<>> \o <<>>) \o <<"read">>) \o <<>>
             /\ Callbacks({"IN", "RDHUP"}, set) = ((<<>> \o <<>>) \o <<"read">>) \o <<>>
             /\ Callbacks({"IN", "RDHUP", "HUP", "ERR"}, set)
                  = ((<<>> \o <<"error">>) \o <<"read">>) \o <<>>
             /\ Callbacks({"HUP"}, set) = ((<<"close">> \o <<>>) \o <<>>) \o <<>>
  <2>1. /\ "close" \in set /\ "error" \in set /\ "read" \in set /\ "write" \in set
    BY <1>6
  <2>2. Callbacks({"IN"}, set) = ((<<>> \o <<>>) \o <<"read">>) \o <<>>
    BY <1>1, <1>3, <2>1
  <2>3. Callbacks({"IN", "RDHUP"}, set) = ((<<>> \o <<>>) \o <<"read">>) \o <<>>
    BY <1>1, <1>3, <2>1
  <2>4. Callbacks({"IN", "RDHUP", "HUP", "ERR"}, set)
          = ((<<>> \o <<"error">>) \o <<"read">>) \o <<>>
    BY <1>1, <1>3, <2>1
  <2>5. Callbacks({"HUP"}, set) = ((<<"close">> \o <<>>) \o <<>>) \o <<>>
    BY <1>1, <1>3, <2>1
  <2> QED BY <2>2, <2>3, <2>4, <2>5
<1> QED BY <1>2, <1>4, <1>5, <1>6

\* What HandleEvents leaves to call.
LEMMA CallbackFacts ==
    ASSUME NEW x \in Conns \cup {"connector"}, NEW revents \in Reported(x), NEW cbs,
           cbs = IF x = "connector"
                 THEN HandleEvents(FALSE, FALSE, revents, {"error", "write"})
                 ELSE HandleEvents(TRUE, FALSE, revents,
                                   {"close", "error", "read", "write"})
    PROVE  [i \in DOMAIN cbs |-> <<x, cbs[i]>>] \in DueOf(x)
<1>1. CASE x = "connector"
  <2>1. cbs = <<"write">> \/ cbs = <<"error", "write">>
    BY <1>1, CallbacksOf DEF Reported, HandleEvents
  <2>2. CASE cbs = <<"write">>
    <3>1. Tag(x, cbs) = << <<x, "write">> >>
      BY <2>2, TagOne
    <3> QED BY <1>1, <3>1 DEF DueOf, Tag
  <2>3. CASE cbs = <<"error", "write">>
    <3>1. Tag(x, cbs) = << <<x, "error">>, <<x, "write">> >>
      BY <2>3, TagTwo
    <3> QED BY <1>1, <3>1 DEF DueOf, Tag
  <2> QED BY <2>1, <2>2, <2>3
<1>2. CASE x # "connector"
  <2>1. cbs = <<"close">> \/ cbs = <<"read">> \/ cbs = <<"error", "read">>
    BY <1>2, CallbacksOf DEF Reported, HandleEvents
  <2>2. CASE cbs = <<"close">>
    <3>1. Tag(x, cbs) = << <<x, "close">> >>
      BY <2>2, TagOne
    <3> QED BY <1>2, <3>1 DEF DueOf, Tag
  <2>3. CASE cbs = <<"read">>
    <3>1. Tag(x, cbs) = << <<x, "read">> >>
      BY <2>3, TagOne
    <3> QED BY <1>2, <3>1 DEF DueOf, Tag
  <2>4. CASE cbs = <<"error", "read">>
    <3>1. Tag(x, cbs) = << <<x, "error">>, <<x, "read">> >>
      BY <2>4, TagTwo
    <3> QED BY <1>2, <3>1 DEF DueOf, Tag
  <2> QED BY <2>1, <2>2, <2>3, <2>4
<1> QED BY <1>1, <1>2

-----------------------------------------------------------------------------
\* The queue.

InQueue(q, op) == \E i \in DOMAIN q : q[i].op = op

OnceIn(q) ==
    \A i, j \in DOMAIN q :
        q[i].op = q[j].op /\ q[i].op \in {"start", "resetChannel"} => i = j

LEMMA Pushed ==
    ASSUME NEW q \in Seq(Functors), NEW f \in Functors, NEW r, r = Append(q, f)
    PROVE  /\ r \in Seq(Functors) /\ Len(q) \in Nat /\ Len(r) = Len(q) + 1
           /\ DOMAIN q = 1 .. Len(q) /\ DOMAIN r = 1 .. Len(q) + 1
           /\ \A i \in DOMAIN q : r[i] = q[i]
           /\ r[Len(q) + 1] = f
           /\ \A op : InQueue(r, op) <=> InQueue(q, op) \/ f.op = op
           /\ OnceIn(q) /\ ~(f.op \in {"start", "resetChannel"} /\ InQueue(q, f.op))
                => OnceIn(r)
<1>1. /\ r \in Seq(Functors) /\ Len(q) \in Nat /\ Len(r) = Len(q) + 1
      /\ DOMAIN q = 1 .. Len(q) /\ DOMAIN r = 1 .. Len(q) + 1
  BY LenProperties, AppendProperties
<1>2. \A i \in DOMAIN q : r[i] = q[i]
  BY <1>1, AppendProperties
<1>3. r[Len(q) + 1] = f
  BY <1>1, AppendProperties
<1>4. \A i \in DOMAIN r : i \in DOMAIN q \/ i = Len(q) + 1
  BY <1>1
<1>5. Len(q) + 1 \in DOMAIN r /\ DOMAIN q \subseteq DOMAIN r
  BY <1>1
<1>6. ASSUME NEW op PROVE InQueue(r, op) <=> InQueue(q, op) \/ f.op = op
  BY <1>2, <1>3, <1>4, <1>5 DEF InQueue
<1>7. ASSUME OnceIn(q), ~(f.op \in {"start", "resetChannel"} /\ InQueue(q, f.op))
      PROVE  OnceIn(r)
  BY <1>2, <1>3, <1>4, <1>7 DEF InQueue, OnceIn
<1> QED BY <1>1, <1>2, <1>3, <1>6, <1>7

\* The same for the queue, when a functor is enqueued.
QueuePushes(f) ==
    /\ queue' \in Seq(Functors) /\ Len(queue) \in Nat
    /\ Len(queue') = Len(queue) + 1
    /\ DOMAIN queue = 1 .. Len(queue) /\ DOMAIN queue' = 1 .. Len(queue) + 1
    /\ \A i \in DOMAIN queue : queue'[i] = queue[i]
    /\ queue'[Len(queue) + 1] = f
    /\ \A i \in DOMAIN queue' : i \in DOMAIN queue \/ i = Len(queue) + 1
    /\ \A op : InQueue(queue', op) <=> InQueue(queue, op) \/ f.op = op
    /\ OnceIn(queue')

LEMMA QueuePushed ==
    ASSUME NEW f \in Functors, queue \in Seq(Functors), queue' = Append(queue, f),
           OnceIn(queue), ~(f.op \in {"start", "resetChannel"} /\ InQueue(queue, f.op))
    PROVE  QueuePushes(f)
<1> DEFINE r == Append(queue, f)
<1>1. /\ r \in Seq(Functors) /\ Len(queue) \in Nat /\ Len(r) = Len(queue) + 1
      /\ DOMAIN queue = 1 .. Len(queue) /\ DOMAIN r = 1 .. Len(queue) + 1
      /\ \A i \in DOMAIN queue : r[i] = queue[i]
      /\ r[Len(queue) + 1] = f
  BY Pushed
<1>2. \A op : InQueue(r, op) <=> InQueue(queue, op) \/ f.op = op
  BY Pushed
<1>3. OnceIn(r)
  BY Pushed
<1>4. queue' = r
  OBVIOUS
<1> HIDE DEF r
<1>5. \A i \in DOMAIN r : i \in DOMAIN queue \/ i = Len(queue) + 1
  BY <1>1
<1> QED BY <1>1, <1>2, <1>3, <1>4, <1>5 DEF QueuePushes

LEMMA Popped ==
    ASSUME NEW q \in Seq(Functors), Len(q) > 0, NEW r, r = Tail(q)
    PROVE  /\ r \in Seq(Functors) /\ Len(q) \in Nat /\ Len(r) = Len(q) - 1
           /\ DOMAIN q = 1 .. Len(q) /\ DOMAIN r = 1 .. Len(q) - 1
           /\ \A i \in DOMAIN r : i + 1 \in DOMAIN q /\ r[i] = q[i + 1]
           /\ 1 \in DOMAIN q /\ Head(q) = q[1] /\ Head(q) \in Functors
           /\ \A op : InQueue(q, op) <=> InQueue(r, op) \/ Head(q).op = op
           /\ OnceIn(q) =>
                /\ OnceIn(r)
                /\ Head(q).op \in {"start", "resetChannel"} => ~InQueue(r, Head(q).op)
<1>1. q # <<>>
  OBVIOUS
<1>2. /\ r \in Seq(Functors) /\ Len(q) \in Nat /\ Len(r) = Len(q) - 1
      /\ DOMAIN q = 1 .. Len(q) /\ DOMAIN r = 1 .. Len(q) - 1
  BY <1>1, LenProperties, HeadTailProperties
<1>3. 1 \in DOMAIN q /\ Head(q) = q[1] /\ Head(q) \in Functors
  BY <1>1, <1>2, HeadTailProperties
<1>4. \A i \in DOMAIN r : i + 1 \in DOMAIN q /\ r[i] = q[i + 1]
  BY <1>1, <1>2, HeadTailProperties
<1>5. \A i \in DOMAIN q : i = 1 \/ (i - 1 \in DOMAIN r /\ (i - 1) + 1 = i)
  BY <1>2
<1>6. ASSUME NEW op PROVE InQueue(q, op) <=> InQueue(r, op) \/ Head(q).op = op
  <2>1. ASSUME NEW i \in DOMAIN q, q[i].op = op, i # 1 PROVE InQueue(r, op)
    <3>1. r[i - 1].op = op /\ i - 1 \in DOMAIN r
      BY <1>4, <1>5, <2>1
    <3> QED BY <3>1 DEF InQueue
  <2> QED BY <1>3, <1>4, <2>1 DEF InQueue
<1>7. ASSUME OnceIn(q)
      PROVE  /\ OnceIn(r)
             /\ Head(q).op \in {"start", "resetChannel"} => ~InQueue(r, Head(q).op)
  <2>1. ASSUME NEW i \in DOMAIN r, NEW j \in DOMAIN r, r[i].op = r[j].op,
               r[i].op \in {"start", "resetChannel"}
        PROVE  i = j
    <3>1. i + 1 = j + 1
      BY <1>4, <1>7, <2>1 DEF OnceIn
    <3> QED BY <1>2, <3>1
  <2>2. ASSUME NEW i \in DOMAIN r, r[i].op = Head(q).op,
               Head(q).op \in {"start", "resetChannel"}
        PROVE  FALSE
    <3>1. i + 1 = 1
      BY <1>3, <1>4, <1>7, <2>2 DEF OnceIn
    <3> QED BY <1>2, <3>1
  <2> QED BY <2>1, <2>2 DEF OnceIn, InQueue
<1> QED BY <1>2, <1>3, <1>4, <1>6, <1>7

\* The same for the queue, when a functor is taken out.
QueuePops ==
    /\ queue' \in Seq(Functors) /\ Len(queue) \in Nat
    /\ Len(queue') = Len(queue) - 1
    /\ DOMAIN queue = 1 .. Len(queue) /\ DOMAIN queue' = 1 .. Len(queue) - 1
    /\ \A i \in DOMAIN queue' : i + 1 \in DOMAIN queue /\ queue'[i] = queue[i + 1]
    /\ 1 \in DOMAIN queue /\ Head(queue) = queue[1] /\ Head(queue) \in Functors
    /\ \A op : InQueue(queue, op) <=> InQueue(queue', op) \/ Head(queue).op = op
    /\ OnceIn(queue')
    /\ Head(queue).op \in {"start", "resetChannel"} => ~InQueue(queue', Head(queue).op)

LEMMA QueuePopped ==
    ASSUME queue \in Seq(Functors), Len(queue) > 0, queue' = Tail(queue), OnceIn(queue)
    PROVE  QueuePops
<1> DEFINE r == Tail(queue)
<1>1. /\ r \in Seq(Functors) /\ Len(queue) \in Nat /\ Len(r) = Len(queue) - 1
      /\ DOMAIN queue = 1 .. Len(queue) /\ DOMAIN r = 1 .. Len(queue) - 1
      /\ \A i \in DOMAIN r : i + 1 \in DOMAIN queue /\ r[i] = queue[i + 1]
      /\ 1 \in DOMAIN queue /\ Head(queue) = queue[1] /\ Head(queue) \in Functors
  BY Popped
<1>2. \A op : InQueue(queue, op) <=> InQueue(r, op) \/ Head(queue).op = op
  BY Popped
<1>3. /\ OnceIn(r)
      /\ Head(queue).op \in {"start", "resetChannel"} => ~InQueue(r, Head(queue).op)
  BY Popped
<1>4. queue' = r
  OBVIOUS
<1> HIDE DEF r
<1> QED BY <1>1, <1>2, <1>3, <1>4 DEF QueuePops

-----------------------------------------------------------------------------
\* The user thread.

LEMMA UserCallsKeep ==
    ASSUME IInv, UserCalls
    PROVE  IInv'
<1> USE DEF clientVars, loopVars, history
<1>1. TypeOK /\ ConnInv /\ ClientInv /\ RoundInv /\ QueueInv /\ OnceInv
      /\ AttemptInv /\ StopInv
  BY DEF IInv
<1>2. CASE EnableRetry
  <2>1. TypeOK'
    BY <1>1, <1>2 DEF EnableRetry, TypeOK
  <2>2. ConnInv' /\ ClientInv' /\ RoundInv' /\ OnceInv'
    BY <1>1, <1>2 DEF EnableRetry, ConnInv, ClientInv, RoundInv, OnceInv
  <2>3. QueueInv'
    BY <1>1, <1>2 DEF EnableRetry, QueueInv, Calling
  <2>4. AttemptInv' /\ StopInv'
    BY <1>1, <1>2 DEF EnableRetry, AttemptInv, StopInv, Waiting, Queued, Calling
  <2> QED BY <2>1, <2>2, <2>3, <2>4 DEF IInv
<1>3. CASE Connect
  <2>1. call.op = "none" /\ call' = Functor("start", None) /\ call'.op = "start"
    BY <1>3 DEF Connect, Idle, Functor
  <2>2. /\ cn' \in Connectors /\ cn'.connect_ /\ cn'.opState_ = cn.opState_
        /\ cn'.chan_ = cn.chan_ /\ cn'.armed = cn.armed /\ cn'.justSet = cn.justSet
        /\ cn'.gaveUp = cn.gaveUp
    BY <1>1, <1>3, FieldFacts DEF Connect, ConnectorStart, TypeOK
  <2>3. TypeOK'
    BY <1>1, <1>3, <2>1, <2>2 DEF Connect, TypeOK, Functors, Functor
  <2>4. ConnInv' /\ ClientInv' /\ OnceInv'
    BY <1>1, <1>3 DEF Connect, ConnInv, ClientInv, OnceInv
  <2>5. RoundInv'
    BY <1>1, <1>3, <2>2 DEF Connect, RoundInv
  <2>6. QueueInv'
    BY <1>1, <1>3, <2>1 DEF Connect, QueueInv, Calling
  <2>7. AttemptInv'
    BY <1>1, <1>3, <2>1, <2>2
    DEF Connect, AttemptInv, Waiting, Queued, Calling, One, TypeOK, Connectors
  <2>8. StopInv'
    BY <1>1, <1>3, <2>1, <2>2 DEF Connect, StopInv, Calling, AttemptInv, TypeOK
  <2> QED BY <2>3, <2>4, <2>5, <2>6, <2>7, <2>8 DEF IInv
<1>4. CASE Stop \/ Shutdown
  <2>1. /\ call.op = "none" /\ call'.op \in {"stop", "shutdown"} /\ call' \in Functors
        /\ UNCHANGED <<cn, client, retry_, connection_, conn, loopVars, connected, stopped>>
        /\ doConnect_ /\ doConnect_' = FALSE /\ shutdowns' \in BOOLEAN
        /\ (call'.op = "stop" /\ UNCHANGED shutdowns) \/ (call'.op = "shutdown" /\ shutdowns')
    <3>1. shutdowns \in BOOLEAN
      BY <1>1 DEF TypeOK
    <3>2. CASE Stop
      BY <3>1, <3>2 DEF Stop, Idle, Functor, Functors
    <3>3. CASE Shutdown
      BY <3>3 DEF Shutdown, Idle, Functor, Functors
    <3> QED BY <1>4, <3>2, <3>3
  <2>2. TypeOK'
    BY <1>1, <2>1 DEF TypeOK
  <2>3. ConnInv' /\ ClientInv' /\ RoundInv' /\ OnceInv'
    BY <1>1, <2>1 DEF ConnInv, ClientInv, RoundInv, OnceInv
  <2>4. QueueInv'
    BY <1>1, <2>1 DEF QueueInv, Calling
  <2>5. AttemptInv'
    BY <1>1, <2>1 DEF AttemptInv, Waiting, Queued, Calling
  <2>6. StopInv'
    BY <1>1, <2>1 DEF StopInv, Calling
  <2> QED BY <2>2, <2>3, <2>4, <2>5, <2>6 DEF IInv
<1>5. CASE Destroy
  <2>1. /\ call.op = "none" /\ ~restarting /\ client = "alive" /\ client' = "gone"
        /\ UNCHANGED <<cn, retry_, connection_, conn, loopVars, connected, history>>
        /\ doConnect_' \in BOOLEAN
    BY <1>1, <1>5 DEF Destroy, Idle, Functor, TypeOK
  <2>2. \/ /\ connection_ # None /\ connection_ \in Conns
           /\ call' = Functor("forceClose", connection_)
           /\ call'.op = "forceClose" /\ call'.c = connection_
           /\ UNCHANGED doConnect_
        \/ /\ connection_ = None /\ doConnect_ /\ doConnect_' = FALSE
           /\ call' = Functor("stop", None) /\ call'.op = "stop"
        \/ /\ connection_ = None /\ ~doConnect_ /\ UNCHANGED <<doConnect_, call>>
    <3>1. doConnect_ \in BOOLEAN /\ connection_ \in Conns \cup {None}
      BY <1>1 DEF TypeOK
    <3>2. CASE connection_ # None
      BY <1>5, <3>1, <3>2 DEF Destroy, Functor
    <3>3. CASE connection_ = None /\ doConnect_
      BY <1>5, <3>3 DEF Destroy, Functor
    <3>4. CASE connection_ = None /\ ~doConnect_
      <4>1. call' = call /\ doConnect_' = FALSE
        BY <1>5, <3>4 DEF Destroy
      <4>2. doConnect_ = FALSE
        BY <3>1, <3>4
      <4> QED BY <3>4, <4>1, <4>2
    <3> QED BY <3>2, <3>3, <3>4
  <2>3. call' \in Functors
    BY <1>1, <2>2 DEF Functors, Functor, TypeOK
  <2>4. TypeOK'
    BY <1>1, <2>1, <2>3 DEF TypeOK
  <2>5. ConnInv' /\ ClientInv' /\ RoundInv' /\ OnceInv'
    BY <1>1, <2>1 DEF ConnInv, ClientInv, RoundInv, OnceInv
  <2>6. QueueInv'
    BY <1>1, <2>1, <2>2 DEF QueueInv, Calling
  <2>7. AttemptInv'
    BY <1>1, <2>1, <2>2 DEF AttemptInv, Waiting, Queued, Calling
  <2>8. StopInv'
    BY <1>1, <2>1, <2>2 DEF StopInv, AttemptInv, Calling, TypeOK
  <2> QED BY <2>4, <2>5, <2>6, <2>7, <2>8 DEF IInv
<1> QED BY <1>2, <1>3, <1>4, <1>5 DEF UserCalls

LEMMA UserReturnsKeep ==
    ASSUME IInv, UserReturns
    PROVE  IInv'
<1> USE DEF clientVars, loopVars, history
<1>1. TypeOK /\ ConnInv /\ ClientInv /\ RoundInv /\ QueueInv /\ OnceInv
      /\ AttemptInv /\ StopInv
  BY DEF IInv
<1>2. ASSUME Returns PROVE call'.op = "none" /\ call' \in Functors
  BY <1>2 DEF Returns, Functor, Functors
<1>3. CASE StopDone
  <2>1. /\ cn' \in Connectors /\ ~cn'.connect_ /\ cn'.opState_ = cn.opState_
        /\ cn'.chan_ = cn.chan_ /\ cn'.armed = cn.armed /\ cn'.justSet = cn.justSet
        /\ cn'.gaveUp = cn.gaveUp
    BY <1>1, <1>3, FieldFacts DEF StopDone, ConnectorStop, TypeOK
  <2>2. /\ call.op = "stop" /\ call'.op = "none" /\ call' \in Functors
        /\ UNCHANGED <<client, doConnect_, retry_, connection_, conn, loopVars,
                       connected, shutdowns>>
        /\ stopped' = IF restarting THEN "raced" ELSE "final"
    BY <1>2, <1>3 DEF StopDone, Calling
  <2>3. TypeOK'
    BY <1>1, <2>1, <2>2 DEF TypeOK
  <2>4. ConnInv' /\ ClientInv' /\ OnceInv'
    BY <1>1, <2>2 DEF ConnInv, ClientInv, OnceInv
  <2>5. RoundInv'
    BY <1>1, <2>1, <2>2 DEF RoundInv
  <2>6. QueueInv'
    BY <1>1, <1>3, <2>2 DEF QueueInv, Calling, StopDone, Returns
  <2>7. AttemptInv'
    BY <1>1, <2>1, <2>2 DEF AttemptInv, StopInv, Waiting, Queued, Calling
  <2>8. StopInv'
    BY <1>1, <2>1, <2>2 DEF StopInv, Calling, TypeOK
  <2> QED BY <2>3, <2>4, <2>5, <2>6, <2>7, <2>8 DEF IInv
<1>4. CASE ShutdownDone
  <2>1. /\ call.op = "shutdown" /\ call'.op = "none" /\ call' \in Functors
        /\ UNCHANGED <<cn, client, doConnect_, retry_, connection_, todo, phase,
                       active, due, restarting, connected, history>>
    BY <1>2, <1>4 DEF ShutdownDone, Calling
  <2>2. StopInv'
    BY <1>1, <2>1 DEF StopInv, Calling
  <2>3. CASE connection_ # None /\ conn[connection_].state_ = "connected"
    <3> DEFINE f == Functor("shutdownInLoop", connection_)
               k == conn[connection_]
    <3>1. connection_ \in Conns /\ k \in Connections
      BY <1>1, <2>3 DEF TypeOK
    <3>2. /\ conn' = [conn EXCEPT ![connection_] = [k EXCEPT !.state_ = "disconnecting"]]
          /\ queue' = Append(queue, f)
      BY <1>4, <2>3 DEF ShutdownDone
    <3>3. f \in Functors /\ f.op = "shutdownInLoop" /\ f.c = connection_
      BY <3>1 DEF Functor, Functors
    <3>4. /\ conn' \in [Conns -> Connections]
          /\ \A c \in Conns : conn'[c].chan = conn[c].chan
          /\ \A c \in Conns : c # connection_ => conn'[c] = conn[c]
          /\ conn'[connection_].state_ = "disconnecting"
          /\ conn'[connection_].ups = k.ups /\ conn'[connection_].downs = k.downs
      <4> DEFINE n == [k EXCEPT !.state_ = "disconnecting"]
      <4>1. /\ n \in Connections /\ n.chan = k.chan /\ n.state_ = "disconnecting"
            /\ n.ups = k.ups /\ n.downs = k.downs
        BY <3>1, ConnectionFacts
      <4>2. conn \in [Conns -> Connections] /\ conn' = [conn EXCEPT ![connection_] = n]
        BY <1>1, <3>2 DEF TypeOK
      <4> HIDE DEF n
      <4> QED BY <3>1, <4>1, <4>2
    <3> HIDE DEF f
    <3>5. QueuePushes(f)
      <4>1. /\ queue \in Seq(Functors) /\ f.op \notin {"start", "resetChannel"}
            /\ OnceIn(queue)
        BY <1>1, <3>3 DEF TypeOK, OnceInv, OnceIn
      <4> QED BY <3>2, <3>3, <4>1, QueuePushed
    <3>6. TypeOK'
      BY <1>1, <2>1, <3>4, <3>5 DEF TypeOK, QueuePushes
    <3>7. ConnInv'
      BY <1>1, <2>3, <3>1, <3>4 DEF ConnInv
    <3>8. ClientInv' /\ RoundInv'
      BY <1>1, <2>1, <3>1, <3>4 DEF ClientInv, RoundInv
    <3>9. QueueInv'
      <4>1. conn'[connection_].chan # "new"
        BY <1>1, <2>3, <3>1, <3>4 DEF ClientInv
      <4>2. \A i \in DOMAIN queue' :
              /\ queue'[i].op \in {"shutdownInLoop", "forceClose"} =>
                    queue'[i].c \in Conns /\ conn'[queue'[i].c].chan # "new"
              /\ queue'[i].op = "forceClose" => client' = "gone"
              /\ queue'[i].op = "resetChannel" /\ phase' = "pending" => i <= todo'
              /\ queue'[i].op \notin {"none", "stop", "shutdown"}
        BY <1>1, <2>1, <3>1, <3>3, <3>4, <3>5, <4>1 DEF QueueInv, QueuePushes
      <4>3. todo' <= Len(queue') /\ (phase' = "handlers" => todo' = 0)
        BY <1>1, <2>1, <3>5 DEF QueueInv, QueuePushes, TypeOK
      <4> QED BY <1>4, <2>1, <4>2, <4>3 DEF QueueInv, Calling, ShutdownDone, Returns
    <3>10. OnceInv'
      BY <3>5 DEF QueuePushes, OnceInv, OnceIn
    <3>11. AttemptInv'
      <4>1. Queued("start")' = Queued("start")
            /\ Queued("resetChannel")' = Queued("resetChannel")
        BY <3>3, <3>5 DEF Queued, QueuePushes, InQueue
      <4> QED BY <1>1, <2>1, <4>1 DEF AttemptInv, Waiting, Calling
    <3> QED BY <2>2, <3>6, <3>7, <3>8, <3>9, <3>10, <3>11 DEF IInv
  <2>4. CASE ~(connection_ # None /\ conn[connection_].state_ = "connected")
    <3>1. UNCHANGED <<conn, queue>>
      BY <1>4, <2>4 DEF ShutdownDone
    <3>2. TypeOK'
      BY <1>1, <2>1, <3>1 DEF TypeOK
    <3>3. ConnInv' /\ ClientInv' /\ RoundInv' /\ OnceInv'
      BY <1>1, <2>1, <3>1 DEF ConnInv, ClientInv, RoundInv, OnceInv
    <3>4. QueueInv'
      BY <1>1, <1>4, <2>1, <3>1 DEF QueueInv, Calling, ShutdownDone, Returns
    <3>5. AttemptInv'
      BY <1>1, <2>1, <3>1 DEF AttemptInv, Waiting, Queued, Calling
    <3> QED BY <2>2, <3>2, <3>3, <3>4, <3>5 DEF IInv
  <2> QED BY <2>3, <2>4
<1>5. CASE PushCall
  <2>1. /\ call.op \in {"start", "forceClose"} /\ call'.op = "none" /\ call' \in Functors
        /\ UNCHANGED <<cn, client, doConnect_, retry_, connection_, conn, todo, phase,
                       active, due, restarting, connected, history>>
        /\ queue' = Append(queue, call) /\ call \in Functors
    BY <1>1, <1>2, <1>5 DEF PushCall, Calling, TypeOK
  <2>2. call.op = "start" => ~InQueue(queue, "start") /\ ~restarting
    BY <1>1 DEF AttemptInv, Waiting, One, Calling, Queued, InQueue, TypeOK, Connectors
  <2>3. QueuePushes(call)
    <3>1. /\ queue \in Seq(Functors) /\ OnceIn(queue)
          /\ ~(call.op \in {"start", "resetChannel"} /\ InQueue(queue, call.op))
      BY <1>1, <2>1, <2>2 DEF TypeOK, OnceInv, OnceIn
    <3> QED BY <2>1, <3>1, QueuePushed
  <2>4. TypeOK'
    BY <1>1, <2>1, <2>3 DEF TypeOK, QueuePushes
  <2>5. ConnInv' /\ ClientInv' /\ RoundInv'
    BY <1>1, <2>1 DEF ConnInv, ClientInv, RoundInv
  <2>6. QueueInv'
    <3>2. call.op = "forceClose" =>
            client = "gone" /\ call.c \in Conns /\ conn[call.c].chan # "new"
      BY <1>1, ClientAssumption DEF QueueInv, Calling, ClientInv
    <3> QED BY <1>1, <1>5, <2>1, <2>3, <3>2
        DEF QueueInv, QueuePushes, Calling, TypeOK, PushCall, Returns
  <2>7. OnceInv'
    BY <2>3 DEF QueuePushes, OnceInv, OnceIn
  <2>8. AttemptInv'
    <3>1. /\ Queued("start")' <=> Queued("start") \/ call.op = "start"
          /\ Queued("resetChannel")' <=> Queued("resetChannel")
      BY <2>1, <2>3 DEF Queued, QueuePushes, InQueue
    <3>2. ~(Queued("start") /\ call.op = "start")
      BY <2>2 DEF Queued, InQueue
    <3>3. Waiting' = Waiting
      BY <1>1, <2>1, <3>1, <3>2 DEF Waiting, One, Calling, TypeOK, Connectors
    <3> QED BY <1>1, <2>1, <3>1, <3>3 DEF AttemptInv
  <2>9. StopInv'
    BY <1>1, <2>1 DEF StopInv, Calling
  <2> QED BY <2>4, <2>5, <2>6, <2>7, <2>8, <2>9 DEF IInv
<1> QED BY <1>3, <1>4, <1>5 DEF UserReturns

-----------------------------------------------------------------------------
\* The loop.

\* Which of the five is waiting, if one is.
LEMMA WaitingFacts ==
    ASSUME TypeOK, AttemptInv
    PROVE  /\ cn \in Connectors /\ cn.armed \in Nat /\ cn.justSet \in Nat
           /\ cn.connect_ \in BOOLEAN /\ restarting \in BOOLEAN
           /\ cn.armed > 0 =>
                /\ cn.armed = 1 /\ cn.justSet = 0 /\ ~Queued("start")
                /\ ~Calling("start") /\ ~restarting /\ Waiting = 1
           /\ Queued("start") =>
                /\ cn.armed = 0 /\ cn.justSet = 0 /\ ~Calling("start")
                /\ ~restarting /\ Waiting = 1
           /\ restarting =>
                /\ cn.armed = 0 /\ cn.justSet = 0 /\ ~Calling("start")
                /\ ~Queued("start") /\ Waiting = 1
           /\ Waiting = 0 =>
                /\ cn.armed = 0 /\ cn.justSet = 0 /\ ~Calling("start")
                /\ ~Queued("start") /\ ~restarting
           /\ Waiting \in {0, 1}
<1>1. /\ cn \in Connectors /\ cn.armed \in Nat /\ cn.justSet \in Nat
      /\ cn.connect_ \in BOOLEAN /\ restarting \in BOOLEAN
  BY DEF TypeOK, Connectors
<1>2. Waiting <= 1
  BY DEF AttemptInv
<1> QED BY <1>1, <1>2 DEF Waiting, One

\* StartInLoop with nobody else waiting, and what the others keep when only
\* the connector changes.
LEMMA StartKeeps ==
    ASSUME IInv, NEW k \in Connectors, cn' \in StartInLoop(k), k.chan_ = "null",
           k.armed = 0, k.justSet = 0, k.opState_ # "kConnecting",
           UNCHANGED <<client, connection_, conn, phase, active, due>>,
           ~Queued("start")', ~Calling("start")', ~restarting', connected', connection_ = None,
           ~Queued("resetChannel")'
    PROVE  AttemptInv' /\ RoundInv' /\ cn' \in Connectors /\ cn'.connect_ = k.connect_
<1>1. /\ cn' \in Connectors /\ cn'.connect_ = k.connect_ /\ cn'.armed = 0
      /\ ~k.connect_ => cn' = k
      /\ k.connect_ =>
           \/ cn'.opState_ = "kConnecting" /\ cn'.chan_ = "added" /\ cn'.justSet = 0
           \/ cn'.opState_ = "kDisconnected" /\ cn'.chan_ = "null" /\ cn'.justSet = 1
           \/ /\ cn'.opState_ = k.opState_ /\ cn'.chan_ = "null"
              /\ cn'.justSet = 0 /\ cn'.gaveUp
  <2> DEFINE n == cn'
  <2>1. n \in StartInLoop(k)
    OBVIOUS
  <2> HIDE DEF n
  <2>2. /\ n \in Connectors /\ n.connect_ = k.connect_ /\ n.armed = 0
        /\ ~k.connect_ => n = k
        /\ k.connect_ =>
             \/ n.opState_ = "kConnecting" /\ n.chan_ = "added" /\ n.justSet = 0
             \/ n.opState_ = "kDisconnected" /\ n.chan_ = "null" /\ n.justSet = 1
             \/ /\ n.opState_ = k.opState_ /\ n.chan_ = "null"
                /\ n.justSet = 0 /\ n.gaveUp
    BY <2>1, StartFacts
  <2> QED BY <2>2 DEF n
<1>2. Waiting' = cn'.justSet /\ cn'.justSet \in {0, 1}
  BY <1>1 DEF Waiting, One, Connectors
<1>3. k.connect_ \in BOOLEAN /\ cn'.opState_ \in {"kDisconnected", "kConnecting", "kConnected"}
  BY <1>1 DEF Connectors
<1>4. AttemptInv'
  BY <1>1, <1>2, <1>3 DEF AttemptInv
<1>5. RoundInv'
  BY <1>1 DEF IInv, RoundInv
<1> QED BY <1>1, <1>4, <1>5

\* No part of the invariant is about the input buffers.
LEMMA OnlyInput ==
    ASSUME IInv,
           UNCHANGED <<cn, clientVars, conn, loopVars, call, connected, history>>
    PROVE  IInv'
<1> USE DEF clientVars, loopVars, history
<1>1. TypeOK'
  BY DEF IInv, TypeOK
<1>2. ConnInv' /\ ClientInv' /\ RoundInv' /\ OnceInv'
  BY DEF IInv, ConnInv, ClientInv, RoundInv, OnceInv
<1>3. QueueInv' /\ StopInv'
  BY DEF IInv, QueueInv, StopInv, Calling
<1>4. AttemptInv'
  BY DEF IInv, AttemptInv, Waiting, Queued, Calling
<1> QED BY <1>1, <1>2, <1>3, <1>4 DEF IInv

LEMMA HandlersKeep ==
    ASSUME IInv, Handlers \/ SwapPending
    PROVE  IInv'
<1> USE DEF clientVars, loopVars, history
<1>1. TypeOK /\ ConnInv /\ ClientInv /\ RoundInv /\ QueueInv /\ OnceInv
      /\ AttemptInv /\ StopInv
  BY DEF IInv
<1>2. CASE ConnectFromLoop
  <2> DEFINE k == ConnectorStart(cn)
  <2>1. /\ k \in Connectors /\ k.connect_ /\ k.opState_ = cn.opState_
        /\ k.chan_ = cn.chan_ /\ k.armed = cn.armed /\ k.justSet = cn.justSet
    BY <1>1, FieldFacts DEF ConnectorStart, TypeOK
  <2>2. /\ ~connected /\ connected' /\ connected' \in BOOLEAN
        /\ doConnect_' /\ doConnect_' \in BOOLEAN /\ cn' \in StartInLoop(k)
        /\ client = "alive" /\ call.op = "none"
        /\ UNCHANGED <<client, retry_, connection_, conn, queue, todo, phase, active,
                       due, restarting, call, shutdowns, stopped>>
    BY <1>2 DEF ConnectFromLoop, Idle, Functor
  <2> HIDE DEF k
  <2>3. /\ cn.armed = 0 /\ cn.justSet = 0 /\ cn.chan_ = "null" /\ cn.opState_ = "kDisconnected"
        /\ ~Queued("start") /\ ~Calling("start") /\ ~restarting /\ connection_ = None
        /\ ~Queued("resetChannel")
    BY <1>1, <2>2, WaitingFacts DEF AttemptInv
  <2>4. AttemptInv' /\ RoundInv' /\ cn' \in Connectors
    <3>1. ~Queued("start")' /\ ~Calling("start")' /\ ~restarting' /\ ~Queued("resetChannel")'
      BY <2>2, <2>3 DEF Queued, Calling
    <3> QED BY <2>1, <2>2, <2>3, <3>1, StartKeeps
  <2>5. TypeOK'
    BY <1>1, <2>2, <2>4 DEF TypeOK
  <2>6. ConnInv' /\ ClientInv' /\ OnceInv'
    BY <1>1, <2>2 DEF ConnInv, ClientInv, OnceInv
  <2>7. QueueInv'
    BY <1>1, <2>2 DEF QueueInv, Calling
  <2>8. StopInv'
    BY <1>1, <2>2 DEF StopInv, Calling
  <2> QED BY <2>4, <2>5, <2>6, <2>7, <2>8 DEF IInv
<1>3. CASE RetryTimer
  <2> DEFINE k == [cn EXCEPT !.armed = @ - 1]
  <2>1. /\ cn.armed > 0 /\ cn' \in StartInLoop(k)
        /\ UNCHANGED <<client, doConnect_, retry_, connection_, conn, queue, todo, phase,
                       active, due, restarting, call, connected, shutdowns, stopped>>
    BY <1>3 DEF RetryTimer
  <2>2. /\ k \in Connectors /\ k.connect_ = cn.connect_ /\ k.opState_ = cn.opState_
        /\ k.chan_ = cn.chan_ /\ k.armed = cn.armed - 1 /\ k.justSet = cn.justSet
    BY <1>1, <2>1, FieldFacts DEF TypeOK
  <2> HIDE DEF k
  <2>3. /\ cn.armed = 1 /\ cn.justSet = 0 /\ cn.chan_ = "null" /\ cn.opState_ # "kConnecting"
        /\ ~Queued("start") /\ ~Calling("start") /\ ~restarting /\ connection_ = None
        /\ ~Queued("resetChannel") /\ connected
    BY <1>1, <2>1, WaitingFacts DEF AttemptInv
  <2>4. AttemptInv' /\ RoundInv' /\ cn' \in Connectors /\ cn'.connect_ = k.connect_
    <3>1. ~Queued("start")' /\ ~Calling("start")' /\ ~restarting' /\ ~Queued("resetChannel")'
      BY <2>1, <2>3 DEF Queued, Calling
    <3>2. k.armed = 0 /\ k.justSet = 0 /\ k.chan_ = "null" /\ k.opState_ # "kConnecting" /\ connected'
      BY <2>1, <2>2, <2>3
    <3> QED BY <2>1, <2>2, <2>3, <3>1, <3>2, StartKeeps
  <2>5. TypeOK'
    BY <1>1, <2>1, <2>4 DEF TypeOK
  <2>6. ConnInv' /\ ClientInv' /\ OnceInv'
    BY <1>1, <2>1 DEF ConnInv, ClientInv, OnceInv
  <2>7. QueueInv'
    BY <1>1, <2>1 DEF QueueInv, Calling
  <2>8. StopInv'
    BY <1>1, <2>1, <2>2, <2>4 DEF StopInv, Calling
  <2> QED BY <2>4, <2>5, <2>6, <2>7, <2>8 DEF IInv
<1>4. ASSUME NEW x \in Conns \cup {"connector"}, HandleChannel(x) PROVE IInv'
  <2>1. /\ phase = "handlers" /\ ~restarting /\ due = <<>> /\ x \in active
        /\ active' = active \ {x}
        /\ UNCHANGED <<cn, client, doConnect_, retry_, connection_, conn, queue, todo, phase,
                       restarting, call, connected, shutdowns, stopped>>
    BY <1>4 DEF HandleChannel, InHandlers
  <2>2. due' = <<>> \/ due' \in DueOf(x)
    <3>1. PICK revents \in Reported(x), ownerGone \in BOOLEAN :
            /\ ownerGone => x \in Conns
            /\ due' = LET cbs == IF x = "connector"
                          THEN HandleEvents(FALSE, FALSE, revents, {"error", "write"})
                          ELSE HandleEvents(TRUE, ownerGone, revents,
                                            {"close", "error", "read", "write"})
                      IN  [i \in DOMAIN cbs |-> <<x, cbs[i]>>]
      BY <1>4 DEF HandleChannel
    <3>2. CASE ownerGone /\ x # "connector"
      <4>1. HandleEvents(TRUE, ownerGone, revents, {"close", "error", "read", "write"}) = <<>>
        BY <3>2 DEF HandleEvents
      <4>2. due' = [i \in DOMAIN <<>> |-> <<x, <<>>[i]>>]
        BY <3>1, <3>2, <4>1
      <4> QED BY <4>2
    <3>3. CASE ~(ownerGone /\ x # "connector")
      <4> DEFINE cbs == IF x = "connector"
                        THEN HandleEvents(FALSE, FALSE, revents, {"error", "write"})
                        ELSE HandleEvents(TRUE, FALSE, revents,
                                          {"close", "error", "read", "write"})
      <4>1. due' = [i \in DOMAIN cbs |-> <<x, cbs[i]>>]
        BY <3>1, <3>3
      <4>2. [i \in DOMAIN cbs |-> <<x, cbs[i]>>] \in DueOf(x)
        BY CallbackFacts
      <4> QED BY <4>1, <4>2
    <3> QED BY <3>2, <3>3
  <2>3. TypeOK'
    BY <1>1, <2>1, <2>2 DEF TypeOK
  <2>4. ConnInv' /\ ClientInv' /\ OnceInv'
    BY <1>1, <2>1 DEF ConnInv, ClientInv, OnceInv
  <2>5. RoundInv'
    <3>1. ASSUME NEW c \in Conns, due' \in DueOf(c) PROVE c = x
      BY <2>2, <3>1, ClientAssumption DEF DueOf
    <3> QED BY <1>1, <2>1, <3>1 DEF RoundInv
  <2>6. QueueInv'
    BY <1>1, <2>1 DEF QueueInv, Calling
  <2>7. AttemptInv'
    BY <1>1, <2>1 DEF AttemptInv, Waiting, Queued, Calling
  <2>8. StopInv'
    BY <1>1, <2>1 DEF StopInv, Calling
  <2> QED BY <2>3, <2>4, <2>5, <2>6, <2>7, <2>8 DEF IInv
<1>5. ASSUME NEW c \in Conns, UseBuffer(c) PROVE IInv'
  BY <1>5, OnlyInput DEF UseBuffer
<1>6. CASE SwapPending
  <2>1. /\ phase = "handlers" /\ ~restarting /\ due = <<>> /\ phase' = "pending"
        /\ todo' = Len(queue) /\ queue \in Seq(Functors)
        /\ UNCHANGED <<cn, client, doConnect_, retry_, connection_, conn, queue, active,
                       due, restarting, call, connected, shutdowns, stopped>>
    BY <1>1, <1>6 DEF SwapPending, InHandlers, TypeOK
  <2>2. Len(queue) \in Nat /\ DOMAIN queue = 1 .. Len(queue)
    BY <2>1, LenProperties
  <2>3. TypeOK'
    BY <1>1, <2>1, <2>2 DEF TypeOK
  <2>4. ConnInv' /\ ClientInv' /\ OnceInv'
    BY <1>1, <2>1 DEF ConnInv, ClientInv, OnceInv
  <2>5. RoundInv'
    BY <1>1, <2>1 DEF RoundInv
  <2>6. QueueInv'
    BY <1>1, <2>1, <2>2 DEF QueueInv, Calling
  <2>7. AttemptInv'
    BY <1>1, <2>1 DEF AttemptInv, Waiting, Queued, Calling
  <2>8. StopInv'
    BY <1>1, <2>1 DEF StopInv, Calling
  <2> QED BY <2>3, <2>4, <2>5, <2>6, <2>7, <2>8 DEF IInv
<1> QED BY <1>2, <1>3, <1>4, <1>5, <1>6 DEF Handlers

\* The callback that is called, and what is left after it.
LEMMA DueFacts ==
    ASSUME TypeOK, RoundInv, NEW x, NEW cb, Calls(x, cb)
    PROVE  /\ x \in Conns \cup {"connector"} /\ due \in DueOf(x)
           /\ phase = "handlers" /\ ~restarting
           /\ due' = <<>> \/ due' \in DueOf(x)
           /\ cb # "error" => due' = <<>>
           /\ \A c \in Conns : due \in DueOf(c) => c = x
           /\ \A c \in Conns : due' \in DueOf(c) => c = x
<1>1. due # <<>> /\ Head(due) = <<x, cb>> /\ due' = Tail(due) /\ ~restarting
  BY DEF Calls
<1>2. PICK y \in Conns \cup {"connector"} : due \in DueOf(y)
  BY <1>1 DEF TypeOK
<1>3. y = x
  BY <1>1, <1>2 DEF DueOf
<1>4. phase = "handlers"
  BY <1>1 DEF RoundInv, TypeOK
<1>5. \/ due = << <<x, cb>> >>
      \/ /\ cb = "error"
         /\ due = << <<x, "error">>, <<x, IF x = "connector" THEN "write" ELSE "read">> >>
  BY <1>1, <1>2, <1>3 DEF DueOf
<1>6. /\ due' = <<>> \/ due' \in DueOf(x)
      /\ cb # "error" => due' = <<>>
  <2>1. CASE due = << <<x, cb>> >>
    BY <1>1, <2>1
  <2>2. CASE /\ cb = "error"
             /\ due = << <<x, "error">>, <<x, IF x = "connector" THEN "write" ELSE "read">> >>
    <3>1. due' = << <<x, IF x = "connector" THEN "write" ELSE "read">> >>
      BY <1>1, <2>2
    <3> QED BY <2>2, <3>1 DEF DueOf
  <2> QED BY <1>5, <2>1, <2>2
<1>7. ASSUME NEW c \in Conns, due \in DueOf(c) PROVE c = x
  BY <1>1, <1>7 DEF DueOf
<1>8. ASSUME NEW c \in Conns, due' \in DueOf(c) PROVE c = x
  BY <1>6, <1>8, ClientAssumption DEF DueOf
<1> QED BY <1>1, <1>2, <1>3, <1>4, <1>6, <1>7, <1>8

LEMMA ConnectFailsKeeps ==
    ASSUME IInv, ConnectFails
    PROVE  IInv'
<1> USE DEF clientVars, loopVars, history
<1>1. TypeOK /\ ConnInv /\ ClientInv /\ RoundInv /\ QueueInv /\ OnceInv
      /\ AttemptInv /\ StopInv
  BY DEF IInv
<1>2. /\ UNCHANGED <<client, doConnect_, retry_, connection_, conn, todo, phase, active,
                     restarting, call, connected, shutdowns, stopped>>
      /\ Calls("connector", "error") \/ Calls("connector", "write")
      /\ cn' = HandleAsyncError(cn) \/ cn' = ConnectorHandleWrite(cn, TRUE)
      /\ QueueReset
  BY DEF ConnectFails
<1>3. /\ phase = "handlers" /\ ~restarting
      /\ due' = <<>> \/ due' \in DueOf("connector")
      /\ \A c \in Conns : due \notin DueOf(c)
      /\ \A c \in Conns : due' \notin DueOf(c)
  BY <1>1, <1>2, DueFacts, ClientAssumption
<1>4. /\ cn' \in Connectors /\ cn'.connect_ = cn.connect_ /\ cn'.armed = cn.armed
      /\ cn.opState_ # "kConnecting" => cn' = cn
      /\ cn.opState_ = "kConnecting" =>
           /\ cn'.opState_ = "kDisconnected" /\ cn'.chan_ = "removed"
           /\ cn'.justSet = cn.justSet + One(cn.connect_)
  <2> DEFINE n == cn'
  <2>1. n = HandleAsyncError(cn) \/ n = ConnectorHandleWrite(cn, TRUE)
    BY <1>2
  <2>2. cn \in Connectors
    BY <1>1 DEF TypeOK
  <2> HIDE DEF n
  <2>3. /\ n \in Connectors /\ n.connect_ = cn.connect_ /\ n.armed = cn.armed
        /\ cn.opState_ # "kConnecting" => n = cn
        /\ cn.opState_ = "kConnecting" =>
             /\ n.opState_ = "kDisconnected" /\ n.chan_ = "removed"
             /\ n.justSet = cn.justSet + One(cn.connect_)
    BY <2>1, <2>2, FailFacts
  <2> QED BY <2>3 DEF n
<1>5. ConnInv' /\ ClientInv'
  BY <1>1, <1>2 DEF ConnInv, ClientInv
<1>6. StopInv'
  BY <1>1, <1>2, <1>4 DEF StopInv, Calling
<1>7. CASE cn.opState_ # "kConnecting"
  <2>1. cn' = cn /\ queue' = queue
    BY <1>2, <1>4, <1>7 DEF QueueReset
  <2>2. TypeOK'
    BY <1>1, <1>2, <1>3, <2>1 DEF TypeOK
  <2>3. RoundInv' /\ OnceInv'
    BY <1>1, <1>2, <1>3, <2>1 DEF RoundInv, OnceInv
  <2>4. QueueInv'
    BY <1>1, <1>2, <2>1 DEF QueueInv, Calling
  <2>5. AttemptInv'
    BY <1>1, <1>2, <2>1 DEF AttemptInv, Waiting, Queued, Calling
  <2> QED BY <1>5, <1>6, <2>2, <2>3, <2>4, <2>5 DEF IInv
<1>8. CASE cn.opState_ = "kConnecting"
  <2> DEFINE f == Functor("resetChannel", None)
  <2>1. queue' = Append(queue, f)
    BY <1>2, <1>8 DEF QueueReset
  <2>2. f \in Functors /\ f.op = "resetChannel"
    BY DEF Functor, Functors
  <2> HIDE DEF f
  <2>3. cn.chan_ = "added" /\ ~Queued("resetChannel") /\ Waiting = 0 /\ connection_ = None
        /\ connected
    BY <1>1, <1>8, WaitingFacts DEF AttemptInv
  <2>4. QueuePushes(f)
    <3>1. queue \in Seq(Functors) /\ OnceIn(queue) /\ ~InQueue(queue, f.op)
      BY <1>1, <2>2, <2>3 DEF TypeOK, OnceInv, OnceIn, Queued, InQueue
    <3> QED BY <2>1, <2>2, <3>1, QueuePushed
  <2>5. TypeOK'
    BY <1>1, <1>2, <1>3, <1>4, <2>4 DEF TypeOK, QueuePushes
  <2>6. RoundInv'
    <3>1. \A c \in Conns : c \notin active
      BY <1>1, <1>3, <2>3, ClientAssumption DEF RoundInv, ClientInv
    <3> QED BY <1>2, <1>3, <3>1 DEF RoundInv
  <2>7. OnceInv'
    BY <2>4 DEF QueuePushes, OnceInv, OnceIn
  <2>8. QueueInv'
    BY <1>1, <1>2, <1>3, <2>2, <2>4 DEF QueueInv, QueuePushes, Calling, TypeOK
  <2>9. AttemptInv'
    <3>1. Queued("resetChannel")' /\ (Queued("start")' <=> Queued("start"))
      BY <2>2, <2>4 DEF Queued, QueuePushes, InQueue
    <3>2. /\ cn.armed = 0 /\ cn.justSet = 0 /\ ~Calling("start") /\ ~Queued("start")
          /\ ~restarting /\ cn.connect_ \in BOOLEAN
      BY <1>1, <2>3, WaitingFacts
    <3>3. cn'.armed = 0 /\ cn'.justSet = One(cn.connect_) /\ cn'.justSet \in {0, 1}
      BY <1>4, <1>8, <3>2 DEF One
    <3>4. Waiting' = One(cn.connect_)
      BY <1>2, <3>1, <3>2, <3>3 DEF Waiting, One, Calling
    <3> QED BY <1>2, <1>4, <1>8, <2>3, <3>1, <3>2, <3>3, <3>4 DEF AttemptInv, One
  <2> QED BY <1>5, <1>6, <2>5, <2>6, <2>7, <2>8, <2>9 DEF IInv
<1> QED BY <1>7, <1>8

LEMMA ConnectSucceedsKeeps ==
    ASSUME IInv, ConnectSucceeds
    PROVE  IInv'
<1> USE DEF clientVars, loopVars, history
<1>1. TypeOK /\ ConnInv /\ ClientInv /\ RoundInv /\ QueueInv /\ OnceInv
      /\ AttemptInv /\ StopInv
  BY DEF IInv
<1>2. /\ UNCHANGED <<client, doConnect_, retry_, todo, phase, active, restarting, call,
                     connected, shutdowns, stopped>>
      /\ Calls("connector", "write") /\ cn.opState_ = "kConnecting"
      /\ cn' = ConnectorHandleWrite(cn, FALSE) /\ QueueReset
  BY DEF ConnectSucceeds
<1>3. phase = "handlers" /\ ~restarting /\ due' = <<>> /\ due' \notin DueOf("connector")
      /\ \A c \in Conns : due \notin DueOf(c) /\ due' \notin DueOf(c)
  <2>1. /\ phase = "handlers" /\ ~restarting /\ due' = <<>>
        /\ \A c \in Conns : due \notin DueOf(c)
        /\ \A c \in Conns : due' \notin DueOf(c)
    BY <1>1, <1>2, DueFacts, ClientAssumption
  <2> QED BY <2>1 DEF DueOf
<1>4. /\ cn' \in Connectors /\ cn'.connect_ = cn.connect_ /\ cn'.armed = cn.armed
      /\ cn'.chan_ = "removed" /\ cn'.justSet = cn.justSet
      /\ cn'.opState_ = IF cn.connect_ THEN "kConnected" ELSE "kDisconnected"
  <2> DEFINE n == cn'
  <2>1. n = ConnectorHandleWrite(cn, FALSE) /\ cn \in Connectors
    BY <1>1, <1>2 DEF TypeOK
  <2> HIDE DEF n
  <2>2. /\ n \in Connectors /\ n.connect_ = cn.connect_ /\ n.armed = cn.armed
        /\ n.chan_ = "removed" /\ n.justSet = cn.justSet
        /\ n.opState_ = IF cn.connect_ THEN "kConnected" ELSE "kDisconnected"
    BY <1>2, <2>1, SuccessFacts
  <2> QED BY <2>2 DEF n
<1>5. /\ cn.chan_ = "added" /\ ~Queued("resetChannel") /\ Waiting = 0 /\ connection_ = None
      /\ connected /\ cn.armed = 0 /\ cn.justSet = 0 /\ ~Calling("start")
      /\ ~Queued("start") /\ cn.connect_ \in BOOLEAN
  BY <1>1, <1>2, WaitingFacts DEF AttemptInv
<1>6. \A c \in Conns : c \notin active /\ conn[c].chan # "added"
  BY <1>1, <1>3, <1>5, ClientAssumption DEF RoundInv, ClientInv
<1>7. \/ /\ cn.connect_ /\ client = "alive"
         /\ \E c \in Conns :
              /\ conn[c].chan = "new" /\ connection_' = c
              /\ conn' = [conn EXCEPT ![c] = StepIntoEstablished(conn[c])]
      \/ ~(cn.connect_ /\ client = "alive") /\ UNCHANGED <<conn, connection_>>
  <2>1. CASE cn.connect_ /\ client = "alive"
    <3> DEFINE c == CHOOSE c \in Conns : conn[c].chan = "new"
    <3>1. /\ \E y \in Conns : conn[y].chan = "new"
          /\ conn' = [conn EXCEPT ![c] = StepIntoEstablished(@)]
          /\ connection_' = c
      BY <2>1 DEF ConnectSucceeds
    <3>2. c \in Conns /\ conn[c].chan = "new"
      BY <3>1
    <3> HIDE DEF c
    <3>3. conn' = [conn EXCEPT ![c] = StepIntoEstablished(conn[c])]
      BY <3>1
    <3> QED BY <2>1, <3>1, <3>2, <3>3
  <2>2. CASE ~(cn.connect_ /\ client = "alive")
    BY <2>2 DEF ConnectSucceeds
  <2> QED BY <2>1, <2>2
<1>8. /\ connection_' \in Conns \cup {None}
      /\ conn' \in [Conns -> Connections] /\ ConnInv' /\ ClientInv'
      /\ \A c \in Conns : conn[c].chan # "new" => conn'[c] = conn[c]
  <2>1. CASE UNCHANGED <<conn, connection_>>
    BY <1>1, <1>2, <2>1 DEF TypeOK, ConnInv, ClientInv
  <2>2. ASSUME NEW c \in Conns, conn[c].chan = "new", connection_' = c,
               conn' = [conn EXCEPT ![c] = StepIntoEstablished(conn[c])]
        PROVE  /\ connection_' \in Conns \cup {None}
               /\ conn' \in [Conns -> Connections] /\ ConnInv' /\ ClientInv'
               /\ \A y \in Conns : conn[y].chan # "new" => conn'[y] = conn[y]
    <3> DEFINE n == StepIntoEstablished(conn[c])
    <3>1. conn \in [Conns -> Connections] /\ conn[c] \in Connections
      BY <1>1 DEF TypeOK
    <3>2. /\ n \in Connections /\ n.chan = "added" /\ n.state_ = "connected"
          /\ n.ups = conn[c].ups + 1 /\ n.downs = conn[c].downs
      BY <3>1, ConnectionFacts
    <3>3. conn' = [conn EXCEPT ![c] = n]
      BY <2>2
    <3> HIDE DEF n
    <3>4. /\ conn' \in [Conns -> Connections] /\ conn'[c] = n
          /\ \A y \in Conns : y # c => conn'[y] = conn[y]
      BY <3>1, <3>2, <3>3
    <3>5. n.ups = 1 /\ n.downs = 0
      BY <1>1, <2>2, <3>2 DEF ConnInv
    <3>6. ConnInv'
      BY <1>1, <3>2, <3>4, <3>5 DEF ConnInv
    <3>7. ClientInv'
      BY <1>6, <2>2, <3>2, <3>4 DEF ClientInv
    <3> QED BY <2>2, <3>4, <3>6, <3>7
  <2> QED BY <1>7, <2>1, <2>2
<1>9. connection_' # None => cn.connect_ /\ client = "alive"
  BY <1>5, <1>7
<1> DEFINE f == Functor("resetChannel", None)
<1>10. queue' = Append(queue, f)
  BY <1>2 DEF QueueReset
<1>11. f \in Functors /\ f.op = "resetChannel"
  BY DEF Functor, Functors
<1> HIDE DEF f
<1>12. QueuePushes(f)
  <2>1. queue \in Seq(Functors) /\ OnceIn(queue) /\ ~InQueue(queue, f.op)
    BY <1>1, <1>5, <1>11 DEF TypeOK, OnceInv, OnceIn, Queued, InQueue
  <2> QED BY <1>10, <1>11, <2>1, QueuePushed
<1>13. TypeOK'
  BY <1>1, <1>2, <1>3, <1>4, <1>8, <1>12 DEF TypeOK, QueuePushes
<1>14. RoundInv'
  BY <1>2, <1>3, <1>6 DEF RoundInv
<1>15. OnceInv'
  BY <1>12 DEF QueuePushes, OnceInv, OnceIn
<1>16. QueueInv'
  <2>1. \A i \in DOMAIN queue' :
          /\ queue'[i].op \in {"shutdownInLoop", "forceClose"} =>
                queue'[i].c \in Conns /\ conn'[queue'[i].c].chan # "new"
          /\ queue'[i].op = "forceClose" => client' = "gone"
          /\ queue'[i].op \notin {"none", "stop", "shutdown"}
    BY <1>1, <1>2, <1>8, <1>11, <1>12 DEF QueueInv, QueuePushes
  <2>2. todo' <= Len(queue') /\ (phase' = "handlers" => todo' = 0)
    BY <1>1, <1>2, <1>12 DEF QueueInv, QueuePushes, TypeOK
  <2>3. /\ call'.op \notin {"shutdownInLoop", "resetChannel", "forceClose"}
        /\ call'.op = "none" => call' = Functor("none", None)
    BY <1>1, <1>2, <1>5, ClientAssumption DEF QueueInv, Calling
  <2> QED BY <1>2, <1>3, <2>1, <2>2, <2>3 DEF QueueInv, Calling
<1>17. AttemptInv'
  <2>1. Queued("resetChannel")' /\ ~Queued("start")'
    BY <1>5, <1>11, <1>12 DEF Queued, QueuePushes, InQueue
  <2>2. Waiting' = 0
    BY <1>2, <1>3, <1>4, <1>5, <2>1 DEF Waiting, One, Calling
  <2>3. /\ cn'.opState_ # "kConnecting" /\ cn'.chan_ = "removed"
        /\ connection_' # None => cn'.opState_ = "kConnected"
        /\ cn'.connect_ => cn'.opState_ = "kConnected"
    BY <1>4, <1>9
  <2>4. ~restarting' /\ connected'
    BY <1>2, <1>3, <1>5
  <2> QED BY <2>1, <2>2, <2>3, <2>4 DEF AttemptInv
<1>18. StopInv'
  BY <1>1, <1>2, <1>4, <1>5 DEF StopInv, Calling
<1> QED BY <1>8, <1>13, <1>14, <1>15, <1>16, <1>17, <1>18 DEF IInv

LEMMA RemoveFacts ==
    ASSUME TypeOK, ConnInv, NEW c \in Conns, conn[c].chan = "added",
           conn' = [conn EXCEPT ![c] = StepIntoDestroyed(HandleClose(@))]
    PROVE  /\ conn' \in [Conns -> Connections] /\ ConnInv'
           /\ conn'[c].chan = "removed"
           /\ \A y \in Conns : y # c => conn'[y] = conn[y]
<1> DEFINE n == StepIntoDestroyed(HandleClose(conn[c]))
<1>1. conn \in [Conns -> Connections] /\ conn[c] \in Connections
  BY DEF TypeOK
<1>2. /\ n \in Connections /\ n.chan = "removed" /\ n.state_ = "disconnected"
      /\ n.ups = conn[c].ups /\ n.downs = conn[c].downs + 1
  BY <1>1, ConnectionFacts
<1>3. conn' = [conn EXCEPT ![c] = n]
  OBVIOUS
<1> HIDE DEF n
<1>4. /\ conn' \in [Conns -> Connections] /\ conn'[c] = n
      /\ \A y \in Conns : y # c => conn'[y] = conn[y]
  BY <1>1, <1>2, <1>3
<1>5. n.ups = 1 /\ n.downs = 1
  BY <1>2 DEF ConnInv
<1>6. ConnInv'
  BY <1>2, <1>4, <1>5 DEF ConnInv
<1> QED BY <1>2, <1>4, <1>6

LEMMA PeerClosesKeeps ==
    ASSUME IInv, NEW c \in Conns, PeerCloses(c)
    PROVE  IInv'
<1> USE DEF clientVars, loopVars, history
<1>1. TypeOK /\ ConnInv /\ ClientInv /\ RoundInv /\ QueueInv /\ OnceInv
      /\ AttemptInv /\ StopInv
  BY DEF IInv
<1>2. /\ UNCHANGED <<cn, client, doConnect_, retry_, queue, todo, phase, active, call,
                     connected, shutdowns, stopped>>
      /\ Calls(c, "close") \/ Calls(c, "read")
      /\ conn' = [conn EXCEPT ![c] = StepIntoDestroyed(HandleClose(@))]
      /\ connection_' = IF client = "alive" THEN None ELSE connection_
      /\ restarting' = (client = "alive" /\ doConnect_ /\ retry_)
  BY DEF PeerCloses, HandleRemoveConnection
<1>3. phase = "handlers" /\ ~restarting /\ due' = <<>> /\ due \in DueOf(c)
  BY <1>1, <1>2, DueFacts
<1>4. /\ conn[c].chan = "added" /\ c \notin active /\ connection_ = c /\ c # None
      /\ cn.chan_ # "removed" /\ cn.opState_ = "kConnected" /\ Waiting = 0 /\ connected
  BY <1>1, <1>3, ClientAssumption DEF RoundInv, ClientInv, AttemptInv
<1>5. /\ conn' \in [Conns -> Connections] /\ ConnInv' /\ conn'[c].chan = "removed"
      /\ \A y \in Conns : y # c => conn'[y] = conn[y]
  BY <1>1, <1>2, <1>4, RemoveFacts
<1>6. restarting' \in BOOLEAN /\ connection_' \in Conns \cup {None}
      /\ (restarting' => client = "alive" /\ doConnect_)
  BY <1>1, <1>2 DEF TypeOK
<1>7. TypeOK'
  BY <1>1, <1>2, <1>3, <1>5, <1>6 DEF TypeOK
<1>8. ClientInv'
  BY <1>1, <1>2, <1>4, <1>5 DEF ClientInv
<1>9. RoundInv'
  <2>1. \A y \in Conns : due' \notin DueOf(y)
    BY <1>3 DEF DueOf
  <2> QED BY <1>1, <1>2, <1>3, <1>4, <1>5, <2>1 DEF RoundInv
<1>10. OnceInv'
  BY <1>1, <1>2 DEF OnceInv
<1>11. QueueInv'
  <2>1. \A y \in Conns : conn[y].chan # "new" => conn'[y].chan # "new"
    BY <1>5
  <2>2. \A i \in DOMAIN queue' :
          queue'[i].op \in {"shutdownInLoop", "forceClose"} =>
             queue'[i].c \in Conns /\ conn'[queue'[i].c].chan # "new"
    BY <1>1, <1>2, <2>1 DEF QueueInv
  <2>3. Calling("forceClose")' => connection_' = call'.c
    BY <1>1, <1>2 DEF QueueInv, Calling
  <2> QED BY <1>1, <1>2, <2>2, <2>3 DEF QueueInv, Calling
<1>12. AttemptInv'
  <2>1. /\ cn.armed = 0 /\ cn.justSet = 0 /\ ~Calling("start") /\ ~Queued("start")
        /\ ~restarting
    BY <1>1, <1>4, WaitingFacts
  <2>2. ~Queued("start")' /\ ~Calling("start")' /\ (Queued("resetChannel")' <=> Queued("resetChannel"))
    BY <1>2, <2>1 DEF Queued, Calling
  <2>3. Waiting' = One(restarting')
    BY <1>2, <2>1, <2>2 DEF Waiting, One
  <2>4. Waiting' \in {0, 1}
    BY <2>3 DEF One
  <2>5. /\ cn'.opState_ = "kConnected" /\ cn'.chan_ = "null" /\ cn' = cn
    BY <1>1, <1>2, <1>4 DEF AttemptInv, TypeOK, Connectors
  <2>6. restarting' => connection_' = None /\ client' = "alive"
    BY <1>2, <1>6
  <2>7. connection_' # None => Waiting' = 0
    BY <2>3, <2>6 DEF One
  <2>8. ~Queued("resetChannel")'
    BY <1>1, <1>4, <2>2 DEF AttemptInv
  <2> QED BY <1>2, <1>4, <2>4, <2>5, <2>6, <2>7, <2>8 DEF AttemptInv
<1>13. StopInv'
  <2>1. restarting' => doConnect_'
    BY <1>2, <1>6
  <2>2. client' = "gone" => connection_' = connection_
    BY <1>2
  <2> QED BY <1>1, <1>2, <2>1, <2>2 DEF StopInv, Calling
<1> QED BY <1>5, <1>7, <1>8, <1>9, <1>10, <1>11, <1>12, <1>13 DEF IInv

\* SocketError and HandleRead leave only the input buffers and due.
LEMMA DueKeeps ==
    ASSUME IInv, NEW c \in Conns, SocketError(c) \/ HandleRead(c)
    PROVE  IInv'
<1> USE DEF clientVars, loopVars, history
<1>1. TypeOK /\ ConnInv /\ ClientInv /\ RoundInv /\ QueueInv /\ OnceInv
      /\ AttemptInv /\ StopInv
  BY DEF IInv
<1>2. /\ UNCHANGED <<cn, client, doConnect_, retry_, connection_, conn, queue, todo, phase,
                     active, restarting, call, connected, shutdowns, stopped>>
      /\ Calls(c, "error") \/ Calls(c, "read")
  BY DEF SocketError, HandleRead
<1>3. /\ phase = "handlers" /\ ~restarting /\ due \in DueOf(c)
      /\ due' = <<>> \/ due' \in DueOf(c)
      /\ \A y \in Conns : due' \in DueOf(y) => y = c
  BY <1>1, <1>2, DueFacts
<1>4. TypeOK'
  BY <1>1, <1>2, <1>3 DEF TypeOK
<1>5. ConnInv' /\ ClientInv' /\ OnceInv'
  BY <1>1, <1>2 DEF ConnInv, ClientInv, OnceInv
<1>6. RoundInv'
  BY <1>1, <1>2, <1>3 DEF RoundInv
<1>7. QueueInv' /\ StopInv'
  BY <1>1, <1>2 DEF QueueInv, StopInv, Calling
<1>8. AttemptInv'
  BY <1>1, <1>2 DEF AttemptInv, Waiting, Queued, Calling
<1> QED BY <1>4, <1>5, <1>6, <1>7, <1>8 DEF IInv

LEMMA ReconnectKeeps ==
    ASSUME IInv, Reconnect
    PROVE  IInv'
<1> USE DEF clientVars, loopVars, history
<1>1. TypeOK /\ ConnInv /\ ClientInv /\ RoundInv /\ QueueInv /\ OnceInv
      /\ AttemptInv /\ StopInv
  BY DEF IInv
<1>2. /\ UNCHANGED <<client, doConnect_, retry_, connection_, conn, queue, todo, phase,
                     active, due, call, connected, shutdowns, stopped>>
      /\ restarting /\ restarting' = FALSE /\ cn' \in Restart(cn)
  BY DEF Reconnect
<1>3. /\ cn \in Connectors /\ cn.armed = 0 /\ cn.justSet = 0 /\ ~Calling("start")
      /\ ~Queued("start") /\ Waiting = 1
  BY <1>1, <1>2, WaitingFacts
<1>4. cn.chan_ = "null" /\ client = "alive" /\ connection_ = None /\ connected
      /\ ~Queued("resetChannel")
  BY <1>1, <1>2, <1>3 DEF AttemptInv
<1>5. /\ cn' \in Connectors /\ cn'.connect_ /\ cn'.armed = 0
      /\ \/ cn'.opState_ = "kConnecting" /\ cn'.chan_ = "added" /\ cn'.justSet = 0
         \/ cn'.opState_ = "kDisconnected" /\ cn'.chan_ = "null" /\ cn'.justSet = 1
         \/ /\ cn'.opState_ = "kDisconnected" /\ cn'.chan_ = "null" /\ cn'.justSet = 0
            /\ cn'.gaveUp
  <2> DEFINE n == cn'
  <2>1. n \in Restart(cn)
    BY <1>2
  <2> HIDE DEF n
  <2>2. /\ n \in Connectors /\ n.connect_ /\ n.armed = 0
        /\ \/ n.opState_ = "kConnecting" /\ n.chan_ = "added" /\ n.justSet = 0
           \/ n.opState_ = "kDisconnected" /\ n.chan_ = "null" /\ n.justSet = 1
           \/ /\ n.opState_ = "kDisconnected" /\ n.chan_ = "null" /\ n.justSet = 0
              /\ n.gaveUp
    BY <1>3, <1>4, <2>1, RestartFacts
  <2> QED BY <2>2 DEF n
<1>6. TypeOK'
  BY <1>1, <1>2, <1>5 DEF TypeOK
<1>7. ConnInv' /\ ClientInv' /\ OnceInv'
  BY <1>1, <1>2 DEF ConnInv, ClientInv, OnceInv
<1>8. RoundInv'
  BY <1>1, <1>2, <1>5 DEF RoundInv
<1>9. QueueInv'
  BY <1>1, <1>2 DEF QueueInv, Calling
<1>10. AttemptInv'
  <2>1. ~Queued("start")' /\ ~Calling("start")' /\ ~Queued("resetChannel")'
    BY <1>2, <1>3, <1>4 DEF Queued, Calling
  <2>2. Waiting' = cn'.justSet
    BY <1>2, <1>5, <2>1 DEF Waiting, One, Connectors
  <2> QED BY <1>2, <1>4, <1>5, <2>1, <2>2 DEF AttemptInv
<1>11. StopInv'
  BY <1>1, <1>2, <1>4 DEF StopInv, Calling
<1> QED BY <1>6, <1>7, <1>8, <1>9, <1>10, <1>11 DEF IInv

\* A functor is taken out of the queue and run: what it leaves of the queue is
\* as before, as long as no connection becomes new.
LEMMA RunFacts ==
    ASSUME IInv, NEW op, Runs(op), UNCHANGED <<client, phase, call>>,
           \A c \in Conns : conn[c].chan # "new" => conn'[c].chan # "new",
           client = "gone" => connection_' = connection_
    PROVE  /\ phase = "pending" /\ ~restarting /\ QueuePops /\ OnceInv' /\ QueueInv'
           /\ todo' \in Nat /\ Head(queue) \in Functors /\ Head(queue).op = op
           /\ op \in {"shutdownInLoop", "forceClose"} =>
                Head(queue).c \in Conns /\ conn[Head(queue).c].chan # "new"
           /\ op = "forceClose" => client = "gone"
<1>1. TypeOK /\ QueueInv /\ OnceInv
  BY DEF IInv
<1>2. /\ phase = "pending" /\ ~restarting /\ todo > 0 /\ Head(queue).op = op
      /\ queue' = Tail(queue) /\ todo' = todo - 1
  BY DEF Runs
<1>3. QueuePops
  <2>1. queue \in Seq(Functors) /\ Len(queue) \in Nat /\ todo \in Nat /\ OnceIn(queue)
    BY <1>1, LenProperties DEF TypeOK, OnceInv, OnceIn
  <2>2. Len(queue) > 0
    BY <1>1, <1>2, <2>1 DEF QueueInv
  <2> QED BY <1>2, <2>1, <2>2, QueuePopped
<1>4. OnceInv'
  BY <1>3 DEF OnceInv, OnceIn, QueuePops
<1>5. todo' \in Nat
  BY <1>1, <1>2 DEF TypeOK
<1>6. /\ Head(queue) \in Functors
      /\ op \in {"shutdownInLoop", "forceClose"} =>
           Head(queue).c \in Conns /\ conn[Head(queue).c].chan # "new"
      /\ op = "forceClose" => client = "gone"
  BY <1>1, <1>2, <1>3 DEF QueueInv, QueuePops
<1>7. QueueInv'
  <2>1. ASSUME NEW i \in DOMAIN queue'
        PROVE  /\ queue'[i].op \in {"shutdownInLoop", "forceClose"} =>
                    queue'[i].c \in Conns /\ conn'[queue'[i].c].chan # "new"
               /\ queue'[i].op = "forceClose" => client' = "gone"
               /\ queue'[i].op = "resetChannel" /\ phase' = "pending" => i <= todo'
               /\ queue'[i].op \notin {"none", "stop", "shutdown"}
    <3>1. i + 1 \in DOMAIN queue /\ queue'[i] = queue[i + 1] /\ i \in Nat
      BY <1>3 DEF QueuePops
    <3>2. /\ queue[i + 1].op \in {"shutdownInLoop", "forceClose"} =>
               queue[i + 1].c \in Conns /\ conn[queue[i + 1].c].chan # "new"
          /\ queue[i + 1].op = "forceClose" => client = "gone"
          /\ queue[i + 1].op = "resetChannel" => i + 1 <= todo
          /\ queue[i + 1].op \notin {"none", "stop", "shutdown"}
      BY <1>1, <1>2, <3>1 DEF QueueInv
    <3>3. i + 1 <= todo => i <= todo'
      BY <1>1, <1>2, <3>1 DEF TypeOK
    <3> QED BY <3>1, <3>2, <3>3
  <2>2. todo' <= Len(queue')
    BY <1>1, <1>2, <1>3 DEF QueueInv, QueuePops, TypeOK
  <2>3. phase' # "handlers"
    BY <1>2
  <2>4. /\ Calling("forceClose")' =>
             client' = "gone" /\ call'.c \in Conns /\ connection_' = call'.c
        /\ call'.op \notin {"shutdownInLoop", "resetChannel"}
        /\ Calling("none")' => call' = Functor("none", None)
    BY <1>1 DEF QueueInv, Calling
  <2> QED BY <2>1, <2>2, <2>3, <2>4 DEF QueueInv
<1> QED BY <1>2, <1>3, <1>4, <1>5, <1>6, <1>7

LEMMA PendingKeeps ==
    ASSUME IInv, RunConnector \/ RunShutdown \/ RunForceClose \/ RoundEnd
    PROVE  IInv'
<1> USE DEF clientVars, loopVars, history
<1>1. TypeOK /\ ConnInv /\ ClientInv /\ RoundInv /\ QueueInv /\ OnceInv
      /\ AttemptInv /\ StopInv
  BY DEF IInv
<1>2. CASE RunConnector
  <2>1. UNCHANGED <<client, doConnect_, retry_, connection_, conn, phase, active, due,
                    restarting, call, connected, shutdowns, stopped>>
    BY <1>2 DEF RunConnector
  <2>2. ConnInv' /\ ClientInv'
    BY <1>1, <2>1 DEF ConnInv, ClientInv
  <2>3. CASE Runs("start") /\ cn' \in StartInLoop(cn)
    <3>1. /\ phase = "pending" /\ ~restarting /\ QueuePops /\ OnceInv' /\ QueueInv'
          /\ todo' \in Nat /\ Head(queue).op = "start"
      BY <2>1, <2>3, RunFacts
    <3>2. Queued("start") /\ ~Queued("start")'
          /\ (Queued("resetChannel")' <=> Queued("resetChannel"))
      BY <3>1 DEF Queued, QueuePops, InQueue
    <3>3. /\ cn \in Connectors /\ cn.armed = 0 /\ cn.justSet = 0 /\ ~Calling("start")
          /\ Waiting = 1
      BY <1>1, <3>2, WaitingFacts
    <3>4. /\ cn.chan_ = "null" /\ cn.opState_ # "kConnecting" /\ connection_ = None
          /\ connected /\ ~Queued("resetChannel")
      BY <1>1, <3>3 DEF AttemptInv
    <3>5. AttemptInv' /\ RoundInv' /\ cn' \in Connectors /\ cn'.connect_ = cn.connect_
      <4>1. ~Calling("start")' /\ ~restarting' /\ connected' /\ ~Queued("resetChannel")'
        BY <2>1, <3>1, <3>2, <3>3, <3>4 DEF Calling
      <4> QED BY <2>1, <2>3, <3>2, <3>3, <3>4, <4>1, StartKeeps
    <3>6. TypeOK'
      BY <1>1, <2>1, <3>1, <3>5 DEF TypeOK, QueuePops
    <3>7. StopInv'
      BY <1>1, <2>1, <3>5 DEF StopInv, Calling
    <3> QED BY <2>2, <3>1, <3>5, <3>6, <3>7 DEF IInv
  <2>4. CASE Runs("resetChannel") /\ cn' = ResetChannel(cn)
    <3>1. /\ phase = "pending" /\ ~restarting /\ QueuePops /\ OnceInv' /\ QueueInv'
          /\ todo' \in Nat /\ Head(queue).op = "resetChannel"
      BY <2>1, <2>4, RunFacts
    <3>2. Queued("resetChannel") /\ ~Queued("resetChannel")'
          /\ (Queued("start")' <=> Queued("start"))
      BY <3>1 DEF Queued, QueuePops, InQueue
    <3>3. /\ cn' \in Connectors /\ cn'.connect_ = cn.connect_
          /\ cn'.opState_ = cn.opState_ /\ cn'.chan_ = "null" /\ cn'.armed = cn.armed
          /\ cn'.justSet = cn.justSet /\ cn'.gaveUp = cn.gaveUp
      BY <1>1, <2>4, FieldFacts DEF TypeOK
    <3>4. AttemptInv'
      <4>1. Waiting' = Waiting
        BY <2>1, <3>2, <3>3 DEF Waiting, Calling, One
      <4>2. cn.chan_ = "removed" /\ cn.opState_ # "kConnecting"
        BY <1>1, <3>2 DEF AttemptInv
      <4> QED BY <1>1, <2>1, <3>2, <3>3, <4>1, <4>2 DEF AttemptInv
    <3>5. TypeOK'
      BY <1>1, <2>1, <3>1, <3>3 DEF TypeOK, QueuePops
    <3>6. RoundInv'
      BY <1>1, <2>1, <3>1 DEF RoundInv
    <3>7. StopInv'
      BY <1>1, <2>1, <3>3 DEF StopInv, Calling
    <3> QED BY <2>2, <3>1, <3>4, <3>5, <3>6, <3>7 DEF IInv
  <2> QED BY <1>2, <2>3, <2>4 DEF RunConnector
<1>3. ASSUME NEW op \in {"shutdownInLoop", "forceClose"}, Runs(op),
             UNCHANGED <<cn, client, doConnect_, retry_, connection_, phase, active, due,
                         restarting, call, connected, shutdowns, stopped>>,
             conn' \in [Conns -> Connections], ConnInv',
             \A c \in Conns : conn[c].chan # "new" => conn'[c].chan # "new",
             \A c \in Conns : conn'[c].chan # conn[c].chan =>
                client = "gone" /\ conn'[c].chan = "removed"
      PROVE  IInv'
  <2>1. /\ phase = "pending" /\ ~restarting /\ QueuePops /\ OnceInv' /\ QueueInv'
        /\ todo' \in Nat /\ Head(queue).op = op
    BY <1>3, RunFacts
  <2>2. /\ Queued("start")' <=> Queued("start")
        /\ Queued("resetChannel")' <=> Queued("resetChannel")
    BY <2>1 DEF Queued, QueuePops, InQueue
  <2>3. AttemptInv'
    <3>1. Waiting' = Waiting
      BY <1>3, <2>2 DEF Waiting, Calling, One
    <3> QED BY <1>1, <1>3, <2>2, <3>1 DEF AttemptInv
  <2>4. TypeOK'
    BY <1>1, <1>3, <2>1 DEF TypeOK, QueuePops
  <2>5. RoundInv'
    <3>1. \A c \in Conns : due' \notin DueOf(c)
      BY <1>1, <1>3, <2>1 DEF RoundInv, DueOf
    <3> QED BY <1>1, <1>3, <2>1, <3>1 DEF RoundInv
  <2>6. ClientInv'
    BY <1>1, <1>3 DEF ClientInv, TypeOK
  <2>7. StopInv'
    BY <1>1, <1>3 DEF StopInv, Calling
  <2> QED BY <1>3, <2>1, <2>3, <2>4, <2>5, <2>6, <2>7 DEF IInv
<1>4. CASE RunShutdown
  <2> DEFINE c == Head(queue).c
             n == ShutdownInLoop(conn[c])
  <2>1. /\ Runs("shutdownInLoop") /\ conn' = [conn EXCEPT ![c] = n]
        /\ UNCHANGED <<cn, client, doConnect_, retry_, connection_, phase, active, due,
                       restarting, call, connected, shutdowns, stopped>>
    BY <1>4 DEF RunShutdown
  <2>2. conn \in [Conns -> Connections]
    BY <1>1 DEF TypeOK
  <2>3. c \in Conns => /\ n \in Connections /\ n.chan = conn[c].chan
                       /\ n.state_ = conn[c].state_
                       /\ n.ups = conn[c].ups /\ n.downs = conn[c].downs
    BY <2>2, ConnectionFacts
  <2> HIDE DEF c, n
  <2>4. /\ conn' \in [Conns -> Connections]
        /\ \A y \in Conns : /\ conn'[y].chan = conn[y].chan
                            /\ conn'[y].state_ = conn[y].state_
                            /\ conn'[y].ups = conn[y].ups /\ conn'[y].downs = conn[y].downs
    BY <2>1, <2>2, <2>3
  <2>5. ConnInv'
    BY <1>1, <2>4 DEF ConnInv
  <2> QED BY <1>3, <2>1, <2>4, <2>5
<1>5. CASE RunForceClose
  <2> DEFINE c == Head(queue).c
  <2>1. /\ Runs("forceClose")
        /\ IF conn[c].state_ \in {"connected", "connecting"}
           THEN HandleRemoveConnection(c)
           ELSE UNCHANGED <<conn, input, connection_, restarting>>
        /\ UNCHANGED <<cn, client, doConnect_, retry_, phase, active, due, call,
                       connected, shutdowns, stopped>>
    BY <1>5 DEF RunForceClose
  <2>2. /\ phase = "pending" /\ ~restarting /\ client = "gone" /\ c \in Conns
        /\ conn[c].chan # "new"
    <3>1. /\ phase = "pending" /\ ~restarting /\ todo > 0 /\ Head(queue).op = "forceClose"
      BY <2>1 DEF Runs
    <3>2. Len(queue) \in Nat /\ todo \in Nat /\ queue \in Seq(Functors)
      BY <1>1, LenProperties DEF TypeOK
    <3>3. Len(queue) > 0 /\ 1 \in DOMAIN queue /\ Head(queue) = queue[1]
      BY <1>1, <3>1, <3>2, LenProperties, HeadTailProperties DEF QueueInv
    <3> QED BY <1>1, <3>1, <3>3 DEF QueueInv
  <2> HIDE DEF c
  <2>3. CASE conn[c].state_ \in {"connected", "connecting"}
    <3>1. /\ conn' = [conn EXCEPT ![c] = StepIntoDestroyed(HandleClose(@))]
          /\ connection_' = IF client = "alive" THEN None ELSE connection_
          /\ restarting' = (client = "alive" /\ doConnect_ /\ retry_)
      BY <2>1, <2>3 DEF HandleRemoveConnection
    <3>2. UNCHANGED <<connection_, restarting>>
      BY <1>1, <2>2, <3>1 DEF TypeOK
    <3>3. conn[c].chan = "added"
      BY <1>1, <2>2, <2>3 DEF ConnInv
    <3>4. /\ conn' \in [Conns -> Connections] /\ ConnInv' /\ conn'[c].chan = "removed"
          /\ \A y \in Conns : y # c => conn'[y] = conn[y]
      BY <1>1, <2>2, <3>1, <3>3, RemoveFacts
    <3> QED BY <1>3, <2>1, <2>2, <3>2, <3>4
  <2>4. CASE conn[c].state_ \notin {"connected", "connecting"}
    <3>1. UNCHANGED <<conn, connection_, restarting>>
      BY <2>1, <2>4
    <3>2. conn' \in [Conns -> Connections] /\ ConnInv'
      BY <1>1, <3>1 DEF TypeOK, ConnInv
    <3> QED BY <1>3, <2>1, <3>1, <3>2
  <2> QED BY <2>3, <2>4
<1>6. CASE RoundEnd
  <2>1. /\ phase = "pending" /\ ~restarting /\ todo = 0 /\ phase' = "handlers"
        /\ active' = {c \in Conns : conn[c].chan = "added"}
                        \cup {x \in {"connector"} : cn.chan_ = "added"}
        /\ cn' = NextRound(cn)
        /\ UNCHANGED <<client, doConnect_, retry_, connection_, conn, queue, todo, due,
                       restarting, call, connected, shutdowns, stopped>>
    BY <1>6 DEF RoundEnd
  <2>2. /\ cn' \in Connectors /\ cn'.connect_ = cn.connect_
        /\ cn'.opState_ = cn.opState_ /\ cn'.chan_ = cn.chan_
        /\ cn'.armed = cn.armed + cn.justSet /\ cn'.justSet = 0
        /\ cn'.gaveUp = cn.gaveUp
    BY <1>1, <2>1, FieldFacts DEF TypeOK
  <2>3. ~Queued("resetChannel")
    <3>1. queue \in Seq(Functors)
      BY <1>1 DEF TypeOK
    <3>2. \A i \in DOMAIN queue : i \in Nat /\ i > 0
      BY <3>1, LenProperties
    <3> QED BY <1>1, <2>1, <3>2 DEF QueueInv, Queued
  <2>4. TypeOK'
    BY <1>1, <2>1, <2>2 DEF TypeOK
  <2>5. ConnInv' /\ ClientInv' /\ OnceInv'
    BY <1>1, <2>1 DEF ConnInv, ClientInv, OnceInv
  <2>6. RoundInv'
    <3>1. cn.chan_ # "removed" /\ due = <<>>
      BY <1>1, <2>1, <2>3 DEF AttemptInv, RoundInv
    <3>2. \A c \in Conns : due' \notin DueOf(c)
      BY <2>1, <3>1 DEF DueOf
    <3>3. \A c \in Conns : c \in active' => conn[c].chan = "added"
      BY <2>1, ClientAssumption
    <3> QED BY <2>1, <2>2, <3>1, <3>2, <3>3 DEF RoundInv
  <2>7. QueueInv'
    BY <1>1, <2>1 DEF QueueInv, Calling
  <2>8. AttemptInv'
    <3>1. /\ Queued("start")' <=> Queued("start")
          /\ Queued("resetChannel")' <=> Queued("resetChannel")
      BY <2>1 DEF Queued
    <3>2. Waiting' = Waiting
      BY <1>1, <2>1, <2>2, <3>1, WaitingFacts DEF Waiting, Calling, One
    <3>3. Waiting = 1 => cn.chan_ = "null"
      BY <1>1, <2>3 DEF AttemptInv, TypeOK, Connectors
    <3> QED BY <1>1, <2>1, <2>2, <3>1, <3>2, <3>3 DEF AttemptInv
  <2>9. StopInv'
    BY <1>1, <2>1, <2>2 DEF StopInv, Calling
  <2> QED BY <2>4, <2>5, <2>6, <2>7, <2>8, <2>9 DEF IInv
<1> QED BY <1>2, <1>4, <1>5, <1>6

LEMMA InitHolds == Init => IInv
<1> SUFFICES ASSUME Init PROVE IInv
  OBVIOUS
<1> USE DEF Init
<1>1. cn \in Connectors
  BY DelayAssumption DEF NewConnector, Connectors
<1>2. /\ cn.armed = 0 /\ cn.justSet = 0 /\ cn.opState_ = "kDisconnected"
      /\ cn.chan_ = "null" /\ cn.connect_ = FALSE
  BY DEF NewConnector
<1>3. /\ NewConnection \in Connections /\ NewConnection.chan = "new"
      /\ NewConnection.state_ = "connecting" /\ NewConnection.ups = 0
      /\ NewConnection.downs = 0
  BY DEF NewConnection, Connections
<1>4. call \in Functors /\ call.op = "none"
  BY DEF Functor, Functors
<1>5. conn \in [Conns -> Connections] /\ \A c \in Conns : conn[c] = NewConnection
  BY <1>3
<1>6. queue \in Seq(Functors) /\ DOMAIN queue = {} /\ Len(queue) = 0
  BY EmptySeq
<1>7. TypeOK
  BY <1>1, <1>4, <1>5, <1>6 DEF TypeOK
<1>8. ConnInv
  BY <1>3, <1>5 DEF ConnInv
<1>9. ClientInv
  BY <1>3, <1>5 DEF ClientInv
<1>10. RoundInv
  BY <1>2 DEF RoundInv, DueOf
<1>11. QueueInv /\ OnceInv
  BY <1>4, <1>6 DEF QueueInv, OnceInv, Calling
<1>12. AttemptInv
  <2>1. ~Queued("start") /\ ~Queued("resetChannel") /\ ~Calling("start")
    BY <1>4, <1>6 DEF Queued, Calling
  <2>2. Waiting = 0
    BY <1>2, <2>1 DEF Waiting, One
  <2> QED BY <1>2, <2>1, <2>2 DEF AttemptInv
<1>13. StopInv
  BY <1>2, <1>4 DEF StopInv, Calling
<1> QED BY <1>7, <1>8, <1>9, <1>10, <1>11, <1>12, <1>13 DEF IInv

LEMMA IInvHolds == Spec => []IInv
<1>1. IInv /\ [Next]_vars => IInv'
  <2>1. ASSUME IInv, UNCHANGED vars PROVE IInv'
    BY <2>1, OnlyInput DEF vars
  <2>2. ASSUME IInv, Callback PROVE IInv'
    BY <2>2, ConnectFailsKeeps, ConnectSucceedsKeeps, PeerClosesKeeps, DueKeeps
    DEF Callback
  <2>3. ASSUME IInv, LoopBody PROVE IInv'
    BY <2>2, <2>3, ReconnectKeeps, PendingKeeps DEF LoopBody
  <2> QED BY <2>1, <2>3, UserCallsKeep, UserReturnsKeep, HandlersKeep DEF Next
<1> QED BY <1>1, InitHolds, PTL DEF Spec

-----------------------------------------------------------------------------
\* Waiting is Starts: no set that is counted has more than one element.
LEMMA StartsCounted ==
    ASSUME IInv
    PROVE  Starts = Waiting
<1>1. /\ cn.armed \in Nat /\ cn.justSet \in Nat /\ restarting \in BOOLEAN
  BY DEF IInv, TypeOK, Connectors
<1>2. Cardinality({i \in DOMAIN queue : queue[i].op = "start"}) = One(Queued("start"))
  <2>1. CASE Queued("start")
    <3>1. PICK i \in DOMAIN queue : queue[i].op = "start"
      BY <2>1 DEF Queued
    <3>2. {j \in DOMAIN queue : queue[j].op = "start"} = {i}
      BY <3>1 DEF IInv, OnceInv
    <3> QED BY <2>1, <3>2, FS_Singleton DEF One
  <2>2. CASE ~Queued("start")
    <3>1. {j \in DOMAIN queue : queue[j].op = "start"} = {}
      BY <2>2 DEF Queued
    <3> QED BY <2>2, <3>1, FS_EmptySet DEF One
  <2> QED BY <2>1, <2>2
<1>3. Cardinality({x \in {"start"} : Calling(x)}) = One(Calling("start"))
  <2>1. CASE Calling("start")
    <3>1. {x \in {"start"} : Calling(x)} = {"start"}
      BY <2>1
    <3> QED BY <2>1, <3>1, FS_Singleton DEF One
  <2>2. CASE ~Calling("start")
    <3>1. {x \in {"start"} : Calling(x)} = {}
      BY <2>2
    <3> QED BY <2>2, <3>1, FS_EmptySet DEF One
  <2> QED BY <2>1, <2>2
<1>4. Cardinality({x \in {TRUE} : restarting}) = One(restarting)
  <2>1. CASE restarting
    <3>1. {x \in {TRUE} : restarting} = {TRUE}
      BY <2>1
    <3> QED BY <2>1, <3>1, FS_Singleton DEF One
  <2>2. CASE ~restarting
    <3>1. {x \in {TRUE} : restarting} = {}
      BY <2>2
    <3> QED BY <2>2, <3>1, FS_EmptySet DEF One
  <2> QED BY <2>1, <2>2
<1> QED BY <1>2, <1>3, <1>4 DEF Starts, Waiting

\* OneAttempt: for any number of connections made one after the other, at most
\* one attempt to connect is under way or will be started, StartInLoop finds
\* its asserts true (Connector.cpp:24,74), and no attempt is forgotten.
THEOREM AttemptsOneByOne == Spec => []OneAttempt
<1>1. IInv => OneAttempt
  BY StartsCounted DEF IInv, AttemptInv, OneAttempt
<1> QED BY <1>1, IInvHolds, PTL

\* ClientKnowsConnection: connection_ of a client is the connection that is up,
\* so the assert in HandleRemoveConnection (TcpClient.cpp:146) holds.
THEOREM ConnectionKnown == Spec => []ClientKnowsConnection
<1>1. IInv => ClientKnowsConnection
  BY DEF IInv, ClientInv, ClientKnowsConnection
<1> QED BY <1>1, IInvHolds, PTL

\* CallbacksPaired: connectionCb_ is called once when a connection comes up and
\* once when it goes down, whoever closes it.
THEOREM UpThenDown == Spec => []CallbacksPaired
<1>1. IInv => CallbacksPaired
  BY DEF IInv, ConnInv, CallbacksPaired
<1> QED BY <1>1, IInvHolds, PTL

\* StopIsFinal: after Stop() has returned, or the client is destroyed, the
\* connector does not go on, except in the races that StopIsFinal names.
THEOREM StoppedForGood == Spec => []StopIsFinal
<1>1. IInv => StopIsFinal
  BY DEF IInv, TypeOK, StopInv, AttemptInv, StopIsFinal, Idle, Calling, Functor
<1> QED BY <1>1, IInvHolds, PTL

-----------------------------------------------------------------------------
\* What goes through the input buffers.

LEMMA IsByte ==
    ASSUME NEW m \in Nat
    PROVE  m % 256 \in Byte
  BY DEF Byte

LEMMA ArrivingFacts ==
    ASSUME InputInv, NEW c \in Conns, NEW n \in Nat
    PROVE  Arriving(c, n) \in Seq(Byte) /\ Len(Arriving(c, n)) = n
<1>1. Len(input[c].received) \in Nat
  BY LenProperties DEF InputInv
<1> DEFINE m(i) == 200 + Len(input[c].received) + i
<1>2. \A i \in 1 .. n : m(i) \in Nat
  BY <1>1
<1> HIDE DEF m
<1>3. \A i \in 1 .. n : m(i) % 256 \in Byte
  BY <1>2, IsByte
<1>4. Arriving(c, n) \in [1 .. n -> Byte]
  BY <1>3 DEF Arriving, m
<1> QED BY <1>4, FunctionIsSeq

\* A step makes of connection c's buffer b, with `put' received and `took'
\* consumed, and leaves the other connections' alone.
InputBecomes(c, b, put, took) ==
    /\ DOMAIN input' = Conns
    /\ input'[c] \in [inputBuffer_ : Fields(Byte), received : Seq(Byte),
                      consumed : Seq(Byte)]
    /\ input'[c].inputBuffer_ = b /\ input'[c].received = put
    /\ input'[c].consumed = took
    /\ input' = [y \in Conns |-> input'[y]]
    /\ \A y \in Conns : y # c => input'[y] = input[y]

\* The three ways the actions write that.
LEMMA InputSet ==
    ASSUME InputInv, NEW c \in Conns, NEW b \in Fields(Byte),
           NEW put \in Seq(Byte), NEW took \in Seq(Byte),
           \/ input' = [input EXCEPT ![c] = [inputBuffer_ |-> b, received |-> put,
                                             consumed |-> took]]
           \/ /\ put = input[c].received
              /\ input' = [input EXCEPT ![c].inputBuffer_ = b, ![c].consumed = took]
           \/ /\ took = input[c].consumed
              /\ input' = [input EXCEPT ![c].inputBuffer_ = b, ![c].received = put]
    PROVE  InputBecomes(c, b, put, took)
  BY DEF InputInv, InputBecomes

\* Such a step keeps InputInv if b is a buffer and nothing was lost.
LEMMA InputChanges ==
    ASSUME InputInv, NEW c \in Conns, NEW b, NEW put, NEW took,
           IsBuffer(b, Byte), took \o Content(b) = put, InputBecomes(c, b, put, took)
    PROVE  InputInv'
<1> DEFINE Inputs == [inputBuffer_ : Fields(Byte), received : Seq(Byte),
                      consumed : Seq(Byte)]
<1>1. \A y \in Conns : input'[y] \in Inputs
  BY DEF InputInv, InputBecomes
<1> HIDE DEF Inputs
<1>2. input' \in [Conns -> Inputs]
  BY <1>1 DEF InputBecomes
<1>3. \A y \in Conns : IsBuffer(input'[y].inputBuffer_, Byte)
  BY DEF InputInv, InputBecomes
<1>4. StreamReceived'
  BY DEF InputInv, InputBecomes, StreamReceived
<1> QED BY <1>2, <1>3, <1>4 DEF InputInv, Inputs

\* The buffer, what was received and what was consumed, of one connection.
LEMMA InputFacts ==
    ASSUME InputInv, NEW c \in Conns
    PROVE  /\ input[c].inputBuffer_ \in Fields(Byte) /\ IsBuffer(input[c].inputBuffer_, Byte)
           /\ input[c].received \in Seq(Byte) /\ input[c].consumed \in Seq(Byte)
           /\ input[c].consumed \o Content(input[c].inputBuffer_) = input[c].received
           /\ Nul \in Byte
  BY ClientAssumption, ZenonT(60) DEF InputInv, StreamReceived, Byte

LEMMA NewInputKeeps ==
    ASSUME InputInv, NEW c, input' = [input EXCEPT ![c] = NewInput]
    PROVE  InputInv'
<1>1. CASE c \in Conns
  <2>1. IsBuffer(NewBuffer, Byte) /\ Content(NewBuffer) = <<>>
    BY <1>1, InputFacts, NewBufferEmpty
  <2>2. NewBuffer \in Fields(Byte) /\ <<>> \in Seq(Byte) /\ <<>> \o <<>> = <<>>
    <3>1. <<>> \in Seq(Byte)
      OBVIOUS
    <3> QED BY <2>1, <3>1, ConcatEmptySeq DEF IsBuffer
  <2>3. InputBecomes(c, NewBuffer, <<>>, <<>>)
    BY <1>1, <2>2, InputSet DEF NewInput
  <2> QED BY <1>1, <2>1, <2>2, <2>3, InputChanges
<1>2. CASE c \notin Conns
  <2>1. input' = input
    BY <1>2 DEF InputInv
  <2> QED BY <2>1 DEF InputInv, StreamReceived
<1> QED BY <1>1, <1>2

\* Bytes may be seen as part of what is before them or of what is behind them.
LEMMA Regroup ==
    ASSUME NEW s \in Seq(Byte), NEW t \in Seq(Byte), NEW u \in Seq(Byte)
    PROVE  (s \o t) \o u = s \o (t \o u)
  BY ConcatAssociative

LEMMA ComesIn ==
    ASSUME NEW old, NEW new \in Seq(Byte), NEW b, IsBuffer(old, Byte), Nul \in Byte,
           b = ReadFd(old, new) \/ b = BufferAppend(old, new)
    PROVE  IsBuffer(b, Byte) /\ Content(b) = Content(old) \o new
<1>1. CASE b = ReadFd(old, new)
  BY <1>1, ReadAtEnd
<1>2. CASE b = BufferAppend(old, new)
  BY <1>2, AppendAtEnd
<1> QED BY <1>1, <1>2

\* Bytes come in at the end, by ReadFd or by Append.
LEMMA Arrives ==
    ASSUME InputInv, NEW c \in Conns, NEW n \in Nat, NEW b,
           \/ b = ReadFd(input[c].inputBuffer_, Arriving(c, n))
           \/ b = BufferAppend(input[c].inputBuffer_, Arriving(c, n)),
           input' = [input EXCEPT ![c].inputBuffer_ = b,
                                  ![c].received = @ \o Arriving(c, n)]
    PROVE  InputInv'
<1> DEFINE old == input[c].inputBuffer_
           new == Arriving(c, n)
           put == input[c].received
           took == input[c].consumed
<1>1. /\ IsBuffer(old, Byte) /\ put \in Seq(Byte) /\ took \in Seq(Byte)
      /\ took \o Content(old) = put /\ Nul \in Byte /\ new \in Seq(Byte)
  BY InputFacts, ArrivingFacts
<1>2. input' = [input EXCEPT ![c].inputBuffer_ = b, ![c].received = put \o new]
  OBVIOUS
<1>3. b = ReadFd(old, new) \/ b = BufferAppend(old, new)
  OBVIOUS
<1> HIDE DEF new
<1>4. IsBuffer(b, Byte) /\ Content(b) = Content(old) \o new
  <2> HIDE DEF old
  <2> QED BY <1>1, <1>3, ComesIn
<1>5. Content(old) \in Seq(Byte)
  BY <1>1, BufferFacts
<1>6. took \o Content(b) = put \o new
  <2>1. (took \o Content(old)) \o new = took \o (Content(old) \o new)
    BY <1>1, <1>5, Regroup
  <2> QED BY <1>1, <1>4, <2>1
<1>7. put \o new \in Seq(Byte) /\ b \in Fields(Byte)
  <2> HIDE DEF put
  <2> QED BY <1>1, <1>4, ConcatProperties DEF IsBuffer
<1>8. InputBecomes(c, b, put \o new, took)
  BY <1>1, <1>2, <1>7, InputSet
<1> QED BY <1>4, <1>6, <1>8, InputChanges

\* n bytes are taken out.
LEMMA TakenOut ==
    ASSUME InputInv, NEW c \in Conns, NEW n \in Nat,
           n <= ReadableBytes(input[c].inputBuffer_),
           input' = [input EXCEPT ![c].inputBuffer_ = Retrieve(input[c].inputBuffer_, n),
                                  ![c].consumed = @ \o Peek(input[c].inputBuffer_, n)]
    PROVE  InputInv'
<1> DEFINE old == input[c].inputBuffer_
           b == Retrieve(old, n)
           out == Peek(old, n)
           put == input[c].received
           took == input[c].consumed
<1>1. /\ IsBuffer(old, Byte) /\ put \in Seq(Byte) /\ took \in Seq(Byte)
      /\ took \o Content(old) = put
  BY InputFacts
<1>2. input' = [input EXCEPT ![c].inputBuffer_ = b, ![c].consumed = took \o out]
  OBVIOUS
<1>3. n <= ReadableBytes(old)
  OBVIOUS
<1>4. /\ IsBuffer(b, Byte) /\ out \in Seq(Byte)
      /\ Content(old) = out \o Content(b)
  <2> HIDE DEF old
  <2> QED BY <1>1, <1>3, RetrieveFromFront
<1> HIDE DEF b, out
<1>5. Content(b) \in Seq(Byte)
  BY <1>4, BufferFacts
<1>6. (took \o out) \o Content(b) = put
  <2>1. took \o (out \o Content(b)) = put
    BY <1>1, <1>4
  <2>2. (took \o out) \o Content(b) = took \o (out \o Content(b))
    BY <1>1, <1>4, <1>5, Regroup
  <2> QED BY <2>1, <2>2
<1>7. took \o out \in Seq(Byte) /\ b \in Fields(Byte)
  <2> HIDE DEF took
  <2> QED BY <1>1, <1>4, ConcatProperties DEF IsBuffer
<1>8. InputBecomes(c, b, put, took \o out)
  BY <1>1, <1>2, <1>7, InputSet
<1> QED BY <1>4, <1>6, <1>8, InputChanges

LEMMA Split ==
    ASSUME NEW s \in Seq(Byte), NEW n \in 1 .. Len(s)
    PROVE  /\ SubSeq(s, 1, Len(s) - n) \in Seq(Byte)
           /\ SubSeq(s, Len(s) - n + 1, Len(s)) \in Seq(Byte)
           /\ Len(SubSeq(s, Len(s) - n + 1, Len(s))) = n
           /\ s = SubSeq(s, 1, Len(s) - n) \o SubSeq(s, Len(s) - n + 1, Len(s))
<1> DEFINE k == Len(s) - n
<1>1. Len(s) \in Nat /\ k \in Nat /\ k <= Len(s) /\ 0 <= k /\ 0 + 1 = 1 /\ k - 0 = k
      /\ Len(s) - k = n /\ 0 \in Nat /\ Len(s) <= Len(s)
  BY LenProperties
<1> HIDE DEF k
<1> DEFINE a == SubSeq(s, 1, k)
           z == SubSeq(s, k + 1, Len(s))
<1>2. a \in Seq(Byte) /\ Len(a) = k /\ \A i \in 1 .. k : a[i] = s[0 + i]
  BY <1>1, Part
<1>3. z \in Seq(Byte) /\ Len(z) = n /\ \A i \in 1 .. n : z[i] = s[k + i]
  BY <1>1, Part
<1> HIDE DEF a, z
<1>4. \A i \in 1 .. k : 0 + i = i
  BY <1>1
<1>5. Len(s) = Len(a) + Len(z)
  BY <1>1, <1>2, <1>3
<1>6. \A i \in 1 .. Len(a) : s[i] = a[i]
  BY <1>2, <1>4
<1>7. \A i \in 1 .. Len(z) : s[Len(a) + i] = z[i]
  BY <1>2, <1>3
<1>8. s = a \o z
  BY <1>2, <1>3, <1>5, <1>6, <1>7, SameAsJoined
<1> QED BY <1>2, <1>3, <1>8 DEF a, z, k

\* The last n bytes taken out are put back.
LEMMA IsPutBack ==
    ASSUME InputInv, NEW c \in Conns, NEW n \in 1 .. Len(input[c].consumed),
           n <= PrependableBytes(input[c].inputBuffer_), NEW last, NEW b,
           last = SubSeq(input[c].consumed, Len(input[c].consumed) - n + 1,
                         Len(input[c].consumed)),
           b = Prepend(input[c].inputBuffer_, last),
           input' = [input EXCEPT ![c].inputBuffer_ = b,
                        ![c].consumed = SubSeq(@, 1, Len(input[c].consumed) - n)]
    PROVE  InputInv'
<1> DEFINE old == input[c].inputBuffer_
           put == input[c].received
           took == input[c].consumed
           less == SubSeq(took, 1, Len(took) - n)
<1>1. /\ IsBuffer(old, Byte) /\ put \in Seq(Byte) /\ took \in Seq(Byte)
      /\ took \o Content(old) = put
  BY InputFacts
<1>2. /\ input' = [input EXCEPT ![c].inputBuffer_ = b, ![c].consumed = less]
      /\ last = SubSeq(took, Len(took) - n + 1, Len(took)) /\ n \in 1 .. Len(took)
      /\ b = Prepend(old, last) /\ n <= PrependableBytes(old)
  OBVIOUS
<1>3. less \in Seq(Byte) /\ last \in Seq(Byte) /\ Len(last) = n /\ took = less \o last
  <2> HIDE DEF took
  <2> QED BY <1>1, <1>2, Split
<1> HIDE DEF less
<1>4. IsBuffer(b, Byte) /\ Content(b) = last \o Content(old)
  <2>1. Len(last) <= PrependableBytes(old)
    BY <1>2, <1>3
  <2>2. IsBuffer(Prepend(old, last), Byte)
        /\ Content(Prepend(old, last)) = last \o Content(old)
    BY <1>1, <1>3, <2>1, PrependInFront
  <2> QED BY <1>2, <2>2
<1>5. Content(old) \in Seq(Byte)
  BY <1>1, BufferFacts
<1>6. less \o Content(b) = put
  <2>1. (less \o last) \o Content(old) = put
    BY <1>1, <1>3
  <2>2. (less \o last) \o Content(old) = less \o (last \o Content(old))
    BY <1>3, <1>5, Regroup
  <2> QED BY <1>4, <2>1, <2>2
<1>7. b \in Fields(Byte)
  BY <1>4 DEF IsBuffer
<1>8. InputBecomes(c, b, put, less)
  BY <1>1, <1>2, <1>3, <1>7, InputSet
<1> QED BY <1>4, <1>6, <1>8, InputChanges

LEMMA UseBufferKeepsInput ==
    ASSUME InputInv, NEW c \in Conns, UseBuffer(c)
    PROVE  InputInv'
<1> DEFINE b == input[c].inputBuffer_
<1>1. IsBuffer(b, Byte) /\ input[c].consumed \in Seq(Byte)
  BY InputFacts
<1>2. ReadableBytes(b) \in Nat /\ Len(input[c].consumed) \in Nat
  <2> HIDE DEF b
  <2> QED BY <1>1, BufferFacts, LenProperties
<1>3. CASE Consume(c, b)
  <2>1. PICK n \in 1 .. ReadableBytes(b) :
            \/ input' = [input EXCEPT ![c].inputBuffer_ = Retrieve(b, n),
                                      ![c].consumed = @ \o Peek(b, n)]
            \/ /\ n \in Widths
               /\ input' = [input EXCEPT ![c].inputBuffer_ = ReadInt(b, n),
                                         ![c].consumed = @ \o Big(PeekInt(b, n), n)]
    BY <1>3 DEF Consume
  <2>2. n \in Nat /\ n <= ReadableBytes(b)
    BY <1>2
  <2>3. Peek(b, n) \in Seq(Byte) /\ Len(Peek(b, n)) = n
    <3> HIDE DEF b
    <3> QED BY <1>1, <2>2, RetrieveFromFront
  <2>4. n \in Widths => Big(PeekInt(b, n), n) = Peek(b, n)
    <3> HIDE DEF b
    <3> DEFINE p == Peek(b, n)
    <3>1. p \in Seq(Byte) /\ Len(p) = n
      BY <2>3
    <3>2. ASSUME n \in Widths PROVE Len(p) \in {1, 2}
      BY <3>1, <3>2 DEF Widths
    <3> HIDE DEF p
    <3>3. ASSUME n \in Widths PROVE Big(Native(p), n) = p
      <4>1. Big(Native(p), Len(p)) = p
        BY <3>1, <3>2, <3>3, IntBytes
      <4> QED BY <3>1, <4>1
    <3> QED BY <3>3 DEF PeekInt, p
  <2>5. input' = [input EXCEPT ![c].inputBuffer_ = Retrieve(b, n),
                               ![c].consumed = @ \o Peek(b, n)]
    BY <2>1, <2>4 DEF ReadInt
  <2> QED BY <2>2, <2>5, TakenOut
<1>4. CASE PutBack(c, b)
  <2> DEFINE took == input[c].consumed
             last(n) == SubSeq(took, Len(took) - n + 1, Len(took))
  <2>1. PICK n \in 1 .. Len(took) :
            /\ n <= PrependableBytes(b)
            /\ \/ input' = [input EXCEPT ![c].inputBuffer_ = Prepend(b, last(n)),
                              ![c].consumed = SubSeq(@, 1, Len(took) - n)]
               \/ /\ n \in Widths
                  /\ input' = [input EXCEPT
                              ![c].inputBuffer_ = PrependInt(b, Native(last(n)), n),
                              ![c].consumed = SubSeq(@, 1, Len(took) - n)]
    BY <1>4 DEF PutBack
  <2>2. last(n) \in Seq(Byte) /\ Len(last(n)) = n
    <3> HIDE DEF took
    <3>1. took \in Seq(Byte)
      BY <1>1 DEF took
    <3> QED BY <3>1, Split
  <2>3. n \in Widths => Big(Native(last(n)), n) = last(n)
    <3> DEFINE p == last(n)
    <3>1. p \in Seq(Byte) /\ Len(p) = n
      BY <2>2
    <3> HIDE DEF p
    <3>2. ASSUME n \in Widths PROVE Big(Native(p), n) = p
      <4>1. Big(Native(p), Len(p)) = p
        BY <3>1, <3>2, IntBytes DEF Widths
      <4> QED BY <3>1, <4>1
    <3> QED BY <3>2 DEF p
  <2>4. input' = [input EXCEPT ![c].inputBuffer_ = Prepend(b, last(n)),
                               ![c].consumed = SubSeq(@, 1, Len(took) - n)]
    BY <2>1, <2>3 DEF PrependInt
  <2> QED BY <2>1, <2>4, IsPutBack
<1>5. CASE AppendOwn(c, b)
  <2>1. PICK n \in Widths :
            input' = [input EXCEPT ![c].inputBuffer_ = AppendInt(b, Native(Arriving(c, n)), n),
                                   ![c].received = @ \o Arriving(c, n)]
    BY <1>5 DEF AppendOwn
  <2> DEFINE p == Arriving(c, n)
  <2>2. n \in Nat /\ n \in {1, 2}
    BY DEF Widths
  <2>3. p \in Seq(Byte) /\ Len(p) = n
    BY <2>2, ArrivingFacts
  <2>4. Big(Native(p), n) = p
    <3> HIDE DEF p
    <3>1. Big(Native(p), Len(p)) = p
      BY <2>2, <2>3, IntBytes
    <3> QED BY <2>3, <3>1
  <2>5. input' = [input EXCEPT ![c].inputBuffer_ = BufferAppend(b, p),
                               ![c].received = @ \o p]
    BY <2>1, <2>4 DEF AppendInt
  <2> QED BY <2>2, <2>5, Arrives
<1> QED BY <1>3, <1>4, <1>5 DEF UseBuffer

LEMMA InputKeeps ==
    ASSUME InputInv, [Next]_vars
    PROVE  InputInv'
<1> USE DEF clientVars, loopVars, history
<1>1. CASE UNCHANGED input
  BY <1>1 DEF InputInv, StreamReceived
<1>2. ASSUME NEW c, HandleRemoveConnection(c) PROVE InputInv'
  BY <1>2, NewInputKeeps DEF HandleRemoveConnection
<1>3. CASE UNCHANGED vars
  BY <1>1, <1>3 DEF vars
<1>4. CASE UserCalls
  BY <1>1, <1>4 DEF UserCalls, EnableRetry, Connect, Stop, Shutdown, Destroy
<1>5. CASE UserReturns
  BY <1>1, <1>5 DEF UserReturns, StopDone, ShutdownDone, PushCall
<1>6. CASE Handlers
  BY <1>1, <1>6, UseBufferKeepsInput
     DEF Handlers, ConnectFromLoop, RetryTimer, HandleChannel
<1>7. CASE SwapPending
  BY <1>1, <1>7 DEF SwapPending
<1>8. CASE Callback
  <2>1. CASE ConnectFails \/ ConnectSucceeds \/ \E c \in Conns : SocketError(c)
    BY <1>1, <2>1 DEF ConnectFails, ConnectSucceeds, SocketError
  <2>2. CASE \E c \in Conns : PeerCloses(c)
    BY <1>2, <2>2 DEF PeerCloses
  <2>3. ASSUME NEW c \in Conns, HandleRead(c) PROVE InputInv'
    <3>1. PICK n \in 1 .. ReadFdRoom(input[c].inputBuffer_) :
            input' = [input EXCEPT
                ![c].inputBuffer_ = ReadFd(@, Arriving(c, n)),
                ![c].received = @ \o Arriving(c, n)]
      BY <2>3 DEF HandleRead
    <3>2. n \in Nat
      <4>1. IsBuffer(input[c].inputBuffer_, Byte)
        BY InputFacts
      <4>2. ReadFdRoom(input[c].inputBuffer_) \in Nat
        BY <4>1, BufferFacts, BufferAssumption DEF ReadFdRoom
      <4> QED BY <4>2
    <3>3. input' = [input EXCEPT
                ![c].inputBuffer_ = ReadFd(input[c].inputBuffer_, Arriving(c, n)),
                ![c].received = @ \o Arriving(c, n)]
      BY <3>1
    <3> QED BY <3>2, <3>3, Arrives
  <2> QED BY <1>8, <2>1, <2>2, <2>3 DEF Callback
<1>9. CASE Reconnect \/ RunConnector \/ RunShutdown \/ RoundEnd
  BY <1>1, <1>9 DEF Reconnect, RunConnector, RunShutdown, RoundEnd
<1>10. CASE RunForceClose
  BY <1>1, <1>2, <1>10 DEF RunForceClose
<1> QED BY <1>3, <1>4, <1>5, <1>6, <1>7, <1>8, <1>9, <1>10 DEF Next, LoopBody

LEMMA InputInit == Init => InputInv
<1> SUFFICES ASSUME Init PROVE InputInv
  OBVIOUS
<1>1. Nul \in Byte
  BY ClientAssumption DEF Byte
<1>2. IsBuffer(NewBuffer, Byte) /\ Content(NewBuffer) = <<>>
  BY <1>1, NewBufferEmpty
<1>3. <<>> \in Seq(Byte) /\ <<>> \o <<>> = <<>>
  <2>1. <<>> \in Seq(Byte)
    OBVIOUS
  <2> QED BY <2>1, ConcatEmptySeq
<1>4. NewBuffer \in Fields(Byte)
  BY <1>2 DEF IsBuffer
<1>5. input = [c \in Conns |-> NewInput]
  BY DEF Init
<1>6. /\ NewInput.inputBuffer_ = NewBuffer /\ NewInput.received = <<>>
      /\ NewInput.consumed = <<>>
      /\ NewInput \in [inputBuffer_ : Fields(Byte), received : Seq(Byte),
                       consumed : Seq(Byte)]
  BY <1>3, <1>4 DEF NewInput
<1> QED BY <1>2, <1>3, <1>5, <1>6 DEF InputInv, StreamReceived

\* StreamReceived: what user code takes out of inputBuffer_ is what arrived,
\* whole and in order, for buffers of any size and any number of bytes.
THEOREM BytesReceived == Spec => []StreamReceived
<1>1. InputInv => StreamReceived
  BY DEF InputInv
<1> QED BY <1>1, InputInit, InputKeeps, PTL DEF Spec

=============================================================================
