--------------------------- MODULE TcpServerProofs ---------------------------
(***************************************************************************)
(* For any number of connections, loops and messages: connectionCb_ is     *)
(* called in pairs, a connection stays in the map and in memory as long as *)
(* something is still to be done with it, and what is sent goes out whole  *)
(* and in order.                                                           *)
(***************************************************************************)
EXTENDS TcpServer, BufferProofs, FiniteSetTheorems

Messages == {"user", "loop"} \X Nat
Cells == Messages \cup {Nul}

Connections ==
    [state_ : {"connecting", "connected", "disconnecting", "disconnected"},
     chan : {"new", "added", "removed"}, events : SUBSET {"read", "write"},
     outputBuffer_ : Fields(Cells), wire : Seq(Cells), shut : BOOLEAN,
     ups : Nat, downs : Nat, accepted : Seq(Messages), broken : BOOLEAN,
     submitted : SUBSET Messages, owed : SUBSET Messages]

Functors ==
    [op : ConnOps \ {"send"}, c : Conns]
        \cup [op : {"send"}, c : Conns, m : Messages]
        \cup [op : {"buildAndRun", "listen"}]

\* What is in a queue, and what is in front of what.
Elems(q) == {q[i] : i \in DOMAIN q}
Prec(q, f, g) == \E i, j \in DOMAIN q : i < j /\ q[i] = f /\ q[j] = g

TypeOK ==
    /\ conn \in [Conns -> Connections] /\ loopOf \in [Conns -> Loops \cup {NoLoop}]
    /\ conns_ \subseteq Conns /\ IsFiniteSet(conns_)
    /\ serving_ \in BOOLEAN /\ started_ \in BOOLEAN /\ listening_ \in BOOLEAN
    /\ loops_ \subseteq IoLoops /\ server \in {"alive", "destroying", "destroyed"}
    /\ queue \in [Loops -> Seq(Functors)] /\ phase \in [Loops -> {"none", "handlers", "pending", "exited"}]
    /\ quit_ \in [Loops -> BOOLEAN] /\ held \subseteq Conns
    /\ call # NoCall => call \in Functors /\ call.op \in {"send", "shutdown"}
    /\ sends \in [{"user", "loop"} -> Nat]

\* A round runs functors that are there.
RoundInv ==
    todo \in [Loops -> Nat] /\ \A l \in Loops : todo[l] <= Len(queue[l])

\* The server goes after its loop, with everything in the map; an IO loop quits
\* only then.
ServerInv ==
    /\ server # "alive" => phase[Base] = "exited" /\ conns_ = {}
    /\ \A l \in IoLoops : quit_[l] => server # "alive"

\* The pool is started before the socket listens: the functor that does it is
\* in front of the other one.
ServeInv ==
    /\ listening_ => started_
    /\ \A f \in Elems(queue[Base]) : f.op \in {"buildAndRun", "listen"} => serving_
    /\ \A f \in Elems(queue[Base]) : f.op = "listen" =>
            started_ \/ \E g \in Elems(queue[Base]) : g.op = "buildAndRun"
    /\ \A f, g \in Elems(queue[Base]) : Prec(queue[Base], f, g) =>
            ~(f.op = "listen" /\ g.op = "buildAndRun")

\* A functor is in the queue of the loop it is for, and its connection is in
\* the state that the functor asserts.
FunctorOK(l, f) ==
    /\ f.op \in {"buildAndRun", "listen", "remove"} => l = Base
    /\ f.op \in ConnOps \ {"remove"} => loopOf[f.c] = l
    /\ f.op \in {"established", "destroyed"} => l # Base
    /\ f.op = "established" => conn[f.c].chan = "new"
    /\ f.op \in ConnOps \ {"established", "destroyed"} => conn[f.c].chan # "new"
    /\ f.op = "remove" =>
        /\ conn[f.c].state_ = "disconnected"
        /\ server = "alive" => f.c \in conns_ /\ conn[f.c].chan = "added"
    /\ f.op = "destroyed" =>
        /\ f.c \notin conns_ /\ conn[f.c].chan # "removed"
        /\ conn[f.c].chan = "new" => Queued(f.c, {"established"})
        /\ server = "alive" =>
            conn[f.c].chan = "added" /\ conn[f.c].state_ = "disconnected"

FunctorInv == \A l \in Loops : \A f \in Elems(queue[l]) : FunctorOK(l, f)

\* What may be in front of what in a queue: nothing is done twice to a
\* connection, it comes up before it goes down, and messages keep their order.
MayPrecede(f, g) ==
    f.op \in ConnOps /\ g.op \in ConnOps /\ f.c = g.c =>
        /\ f.op \in {"established", "remove", "destroyed"} => g.op # f.op
        /\ ~(f.op = "destroyed" /\ g.op = "established")
        /\ f.op = "send" /\ g.op = "send" => f.m[2] <= g.m[2]

OrderInv ==
    \A l \in Loops : \A f, g \in Elems(queue[l]) :
        Prec(queue[l], f, g) => MayPrecede(f, g)

\* The life of a connection: it is accepted, in an IO loop's queue at most, ...
Fresh(c) ==
    /\ conn[c] = NewConnection /\ c \notin held /\ (call # NoCall => call.c # c)
    /\ loopOf[c] = NoLoop => c \notin conns_
    /\ loopOf[c] # NoLoop =>
        /\ loopOf[c] # Base
        /\ server = "alive" => c \in conns_ /\ Queued(c, {"established"})

\* ... up, ...
Up(c) ==
    /\ conn[c].chan = "added" /\ conn[c].ups = 1 /\ conn[c].downs = 0
    /\ loopOf[c] # NoLoop /\ conn[c].state_ \in {"connected", "disconnecting"}
    /\ server = "alive" => c \in conns_
    /\ server # "alive" => loopOf[c] # Base

\* ... closed, on its way through the two loops, ...
Closing(c) ==
    /\ conn[c].chan = "added" /\ conn[c].ups = 1 /\ conn[c].downs = 0
    /\ conn[c].events = {} /\ conn[c].state_ = "disconnected"
    /\ loopOf[c] # NoLoop /\ loopOf[c] # Base
    /\ server = "alive" => \/ c \in conns_ /\ Queued(c, {"remove"})
                           \/ c \notin conns_ /\ Queued(c, {"destroyed"})

\* ... and down.
Down(c) ==
    /\ conn[c].chan = "removed" /\ conn[c].ups = 1 /\ conn[c].downs = 1
    /\ loopOf[c] # NoLoop /\ c \notin conns_
    /\ \/ conn[c].state_ = "disconnected" /\ conn[c].events = {}
       \/ conn[c].state_ = "disconnecting" /\ server # "alive"

ConnInv == \A c \in Conns : Fresh(c) \/ Up(c) \/ Closing(c) \/ Down(c)

\* outputBuffer_ is a buffer, and holds what is not on the wire yet.
OutputInv ==
    /\ \A c \in Conns : LET k == conn[c] IN
        /\ IsBuffer(k.outputBuffer_, Cells)
        /\ k.wire \o Content(k.outputBuffer_) = k.accepted
    /\ WritingIffBuffered

\* Bytes of thread t's n-th message come before those of later ones, those that
\* are still in the queue or in the user thread's hands included.
SendInv ==
    /\ call # NoCall => loopOf[call.c] # NoLoop
    /\ \A c \in Conns : LET a == conn[c].accepted IN
        /\ \A i, j \in DOMAIN a : i < j /\ a[i][1] = a[j][1] => a[i][2] <= a[j][2]
        /\ \A i \in DOMAIN a : a[i][2] <= sends[a[i][1]]
    /\ \A l \in Loops : \A f \in Elems(queue[l]) : f.op = "send" =>
        /\ f.m[1] = "user" /\ f.m[2] <= sends["user"]
        /\ LET a == conn[f.c].accepted IN
           \A i \in DOMAIN a : a[i][1] = "user" => a[i][2] <= f.m[2]
        /\ call # NoCall /\ call.op = "send" /\ call.c = f.c => f.m[2] <= call.m[2]
    /\ call # NoCall /\ call.op = "send" =>
        /\ call.m[1] = "user" /\ call.m[2] <= sends["user"]
        /\ LET a == conn[call.c].accepted IN
           \A i \in DOMAIN a : a[i][1] = "user" => a[i][2] <= call.m[2]

IInv ==
    /\ TypeOK /\ RoundInv /\ ServerInv /\ ServeInv /\ FunctorInv /\ OrderInv /\ ConnInv
    /\ OutputInv /\ SendInv

-----------------------------------------------------------------------------
\* Queues: what is in one, and what is in front of what, after a functor is
\* taken from its front and others are appended.

LEMMA ElemsSeq ==
    ASSUME NEW S, NEW q \in Seq(S)
    PROVE  /\ Elems(q) \subseteq S
           /\ q = <<>> => Elems(q) = {}
           /\ \A f, g : Prec(q, f, g) => f \in Elems(q) /\ g \in Elems(q)
  BY DEF Elems, Prec

LEMMA Popped ==
    ASSUME NEW S, NEW q \in Seq(S), Len(q) > 0
    PROVE  /\ Head(q) \in Elems(q) /\ Tail(q) \in Seq(S) /\ Len(Tail(q)) = Len(q) - 1
           /\ Elems(q) = Elems(Tail(q)) \cup {Head(q)}
           /\ \A f \in Elems(Tail(q)) : Prec(q, Head(q), f)
           /\ \A f, g : Prec(Tail(q), f, g) => Prec(q, f, g)
<1>1. Len(q) \in Nat /\ DOMAIN q = 1 .. Len(q)
  BY LenProperties
<1>2. /\ Head(q) = q[1] /\ Tail(q) \in Seq(S) /\ Len(Tail(q)) = Len(q) - 1
      /\ \A i \in 1 .. Len(q) - 1 : Tail(q)[i] = q[i + 1]
  BY <1>1
<1>3. DOMAIN Tail(q) = 1 .. Len(q) - 1
  BY <1>2, LenProperties
<1>4. \A i \in DOMAIN Tail(q) : i + 1 \in DOMAIN q /\ 1 < i + 1 /\ Tail(q)[i] = q[i + 1]
  BY <1>1, <1>2, <1>3
<1>5. \A j \in DOMAIN q : j = 1 \/ (j - 1 \in DOMAIN Tail(q) /\ Tail(q)[j - 1] = q[j])
  <2> SUFFICES ASSUME NEW j \in DOMAIN q, j # 1
               PROVE  j - 1 \in DOMAIN Tail(q) /\ Tail(q)[j - 1] = q[j]
    OBVIOUS
  <2>1. j - 1 \in 1 .. Len(q) - 1 /\ (j - 1) + 1 = j
    BY <1>1
  <2> QED BY <1>2, <1>3, <2>1
<1>6. 1 \in DOMAIN q
  BY <1>1
<1>7. Head(q) \in Elems(q)
  BY <1>2, <1>6 DEF Elems
<1>8. Elems(q) = Elems(Tail(q)) \cup {Head(q)}
  BY <1>2, <1>4, <1>5, <1>6 DEF Elems
<1>9. \A f \in Elems(Tail(q)) : Prec(q, Head(q), f)
  BY <1>2, <1>4, <1>6 DEF Elems, Prec
<1>10. ASSUME NEW f, NEW g, Prec(Tail(q), f, g) PROVE Prec(q, f, g)
  <2>1. PICK i, j \in DOMAIN Tail(q) : i < j /\ Tail(q)[i] = f /\ Tail(q)[j] = g
    BY <1>10 DEF Prec
  <2>2. i + 1 < j + 1
    BY <2>1, <1>1, <1>3
  <2> QED BY <1>4, <2>1, <2>2 DEF Prec
<1> QED BY <1>2, <1>7, <1>8, <1>9, <1>10

LEMMA Extended ==
    ASSUME NEW S, NEW q \in Seq(S), NEW s \in Seq(S)
    PROVE  /\ q \o s \in Seq(S) /\ Len(q \o s) = Len(q) + Len(s)
           /\ Elems(q \o s) = Elems(q) \cup Elems(s)
           /\ \A f, g : Prec(q \o s, f, g) =>
                \/ Prec(q, f, g) \/ Prec(s, f, g)
                \/ f \in Elems(q) /\ g \in Elems(s)
<1> DEFINE r == q \o s
           m == Len(q)
           n == Len(s)
<1>1. /\ r \in Seq(S) /\ Len(r) = m + n /\ m \in Nat /\ n \in Nat
      /\ \A i \in 1 .. m : r[i] = q[i]
      /\ \A i \in 1 .. n : r[m + i] = s[i]
  BY Joined
<1>2. DOMAIN q = 1 .. m /\ DOMAIN s = 1 .. n /\ DOMAIN r = 1 .. m + n
  BY <1>1, LenProperties
<1> HIDE DEF r, m, n
<1>3. \A i \in DOMAIN r : \/ i \in DOMAIN q /\ r[i] = q[i]
                          \/ i > m /\ i - m \in DOMAIN s /\ r[i] = s[i - m]
  <2> SUFFICES ASSUME NEW i \in DOMAIN r, ~(i \in 1 .. m)
               PROVE  i > m /\ i - m \in 1 .. n /\ r[i] = s[i - m]
    BY <1>1, <1>2
  <2>1. i > m /\ i - m \in 1 .. n /\ m + (i - m) = i
    BY <1>1, <1>2
  <2> QED BY <1>1, <2>1
<1>4. \A i \in DOMAIN s : m + i \in DOMAIN r /\ r[m + i] = s[i]
  BY <1>1, <1>2
<1>5. \A i \in DOMAIN q : i \in DOMAIN r /\ r[i] = q[i]
  BY <1>1, <1>2
<1>6. Elems(r) = Elems(q) \cup Elems(s)
  BY <1>3, <1>4, <1>5 DEF Elems
<1>7. ASSUME NEW f, NEW g, Prec(r, f, g)
      PROVE  Prec(q, f, g) \/ Prec(s, f, g) \/ (f \in Elems(q) /\ g \in Elems(s))
  <2>1. PICK i, j \in DOMAIN r : i < j /\ r[i] = f /\ r[j] = g
    BY <1>7 DEF Prec
  <2>2. CASE i \in DOMAIN q /\ j \in DOMAIN q
    BY <1>5, <2>1, <2>2 DEF Prec
  <2>3. CASE i \in DOMAIN q /\ j \notin DOMAIN q
    BY <1>3, <1>5, <2>1, <2>3 DEF Elems
  <2>4. CASE i \notin DOMAIN q
    <3>1. i > m /\ i - m \in DOMAIN s /\ s[i - m] = f
      BY <1>3, <2>1, <2>4
    <3>2. j \notin DOMAIN q
      BY <1>1, <1>2, <2>1, <3>1
    <3>3. j > m /\ j - m \in DOMAIN s /\ s[j - m] = g
      BY <1>3, <2>1, <3>2
    <3>4. i - m < j - m
      BY <1>1, <1>2, <2>1
    <3> QED BY <3>1, <3>3, <3>4 DEF Prec
  <2> QED BY <2>2, <2>3, <2>4
<1> QED BY <1>1, <1>6, <1>7 DEF r, m, n

\* One functor, or none.
LEMMA Single ==
    ASSUME NEW S, NEW f \in S
    PROVE  /\ <<f>> \in Seq(S) /\ Len(<<f>>) = 1 /\ Elems(<<f>>) = {f}
           /\ \A g, h : ~Prec(<<f>>, g, h)
<1>1. <<f>> \in Seq(S) /\ Len(<<f>>) = 1 /\ DOMAIN <<f>> = {1} /\ <<f>>[1] = f
  OBVIOUS
<1>2. Elems(<<f>>) = {f}
  BY <1>1 DEF Elems
<1>3. ASSUME NEW g, NEW h, Prec(<<f>>, g, h) PROVE FALSE
  <2>1. PICK i, j \in {1} : i < j
    BY <1>1, <1>3 DEF Prec
  <2> QED BY <2>1
<1> QED BY <1>1, <1>2, <1>3

LEMMA Nothing ==
    ASSUME NEW S
    PROVE  /\ <<>> \in Seq(S) /\ Len(<<>>) = 0 /\ Elems(<<>>) = {}
           /\ \A g, h : ~Prec(<<>>, g, h)
  BY DEF Elems, Prec

-----------------------------------------------------------------------------
\* What a connection's operators do.

\* The stream of n is that of k.
SameStream(k, n) ==
    /\ n.outputBuffer_ = k.outputBuffer_ /\ n.wire = k.wire
    /\ n.accepted = k.accepted

\* n is as far in its life as k.
SameLife(k, n) ==
    n.state_ = k.state_ /\ n.chan = k.chan /\ n.ups = k.ups /\ n.downs = k.downs

\* The bytes are all there, in order.
StreamOK(k) ==
    /\ IsBuffer(k.outputBuffer_, Cells)
    /\ k.wire \o Content(k.outputBuffer_) = k.accepted

WritingOK(k) == IsWriting(k) <=> ReadableBytes(k.outputBuffer_) > 0

LEMMA NewFacts ==
    /\ NewConnection \in Connections /\ StreamOK(NewConnection)
    /\ NewConnection.chan = "new" /\ NewConnection.state_ = "connecting"
    /\ NewConnection.ups = 0 /\ NewConnection.downs = 0
    /\ NewConnection.accepted = <<>>
    /\ ReadableBytes(NewConnection.outputBuffer_) = 0
<1>1. Nul \in Cells
  BY DEF Cells
<1>2. IsBuffer(NewBuffer, Cells) /\ Content(NewBuffer) = <<>>
  BY <1>1, NewBufferEmpty
<1>3. NewBuffer \in Fields(Cells)
  BY <1>2 DEF IsBuffer
<1>4. /\ NewConnection.chan = "new" /\ NewConnection.state_ = "connecting"
      /\ NewConnection.ups = 0 /\ NewConnection.downs = 0
      /\ NewConnection.accepted = <<>> /\ NewConnection.wire = <<>>
      /\ NewConnection.outputBuffer_ = NewBuffer
  BY DEF NewConnection
<1>5. NewConnection \in Connections
  BY <1>3 DEF NewConnection, Connections
<1>6. <<>> \o <<>> = <<>>
  <2>1. <<>> \in Seq(Cells)
    OBVIOUS
  <2> QED BY <2>1, ConcatEmptySeq
<1>7. StreamOK(NewConnection)
  BY <1>2, <1>4, <1>6 DEF StreamOK
<1>8. ReadableBytes(NewBuffer) = 0
  BY BufferAssumption DEF NewBuffer, ReadableBytes
<1> QED BY <1>4, <1>5, <1>7, <1>8

LEMMA EstablishedFacts ==
    ASSUME NEW k \in Connections, NEW n, n = StepIntoEstablished(k)
    PROVE  /\ n \in Connections /\ SameStream(k, n)
           /\ n.chan = "added" /\ n.state_ = "connected" /\ n.events = {"read"}
           /\ n.ups = k.ups + 1 /\ n.downs = k.downs
<1>1. k.ups + 1 \in Nat /\ {"read"} \in SUBSET {"read", "write"}
  BY DEF Connections
<1>2. n \in Connections
  BY <1>1 DEF StepIntoEstablished, Connections
<1>3. /\ n.chan = "added" /\ n.state_ = "connected" /\ n.events = {"read"}
      /\ n.ups = k.ups + 1 /\ n.downs = k.downs
  BY DEF StepIntoEstablished, Connections
<1>4. SameStream(k, n)
  BY DEF StepIntoEstablished, Connections, SameStream
<1> QED BY <1>2, <1>3, <1>4

LEMMA DestroyedFacts ==
    ASSUME NEW k \in Connections, NEW n, n = StepIntoDestroyed(k)
    PROVE  /\ n \in Connections /\ SameStream(k, n)
           /\ n.chan = "removed" /\ n.ups = k.ups /\ n.downs = k.downs + 1
           /\ k.state_ = "connected" => n.state_ = "disconnected" /\ n.events = {}
           /\ k.state_ # "connected" => n.state_ = k.state_ /\ n.events = k.events
<1>1. k.downs + 1 \in Nat /\ {} \in SUBSET {"read", "write"}
  BY DEF Connections
<1>2. CASE k.state_ = "connected"
  <2>1. n = [k EXCEPT !.state_ = "disconnected", !.events = {}, !.downs = @ + 1,
                      !.chan = "removed"]
    BY <1>2 DEF StepIntoDestroyed
  <2>2. n \in Connections
    BY <1>1, <2>1 DEF Connections
  <2>3. /\ n.chan = "removed" /\ n.ups = k.ups /\ n.downs = k.downs + 1
        /\ n.state_ = "disconnected" /\ n.events = {}
    BY <2>1 DEF Connections
  <2>4. SameStream(k, n)
    BY <2>1 DEF Connections, SameStream
  <2> QED BY <1>2, <2>2, <2>3, <2>4
<1>3. CASE k.state_ # "connected"
  <2>1. n = [k EXCEPT !.state_ = @, !.events = @, !.downs = @ + 1, !.chan = "removed"]
    BY <1>3 DEF StepIntoDestroyed
  <2>2. n \in Connections
    BY <1>1, <2>1 DEF Connections
  <2>3. /\ n.chan = "removed" /\ n.ups = k.ups /\ n.downs = k.downs + 1
        /\ n.state_ = k.state_ /\ n.events = k.events
    BY <2>1 DEF Connections
  <2>4. SameStream(k, n)
    BY <2>1 DEF Connections, SameStream
  <2> QED BY <1>3, <2>2, <2>3, <2>4
<1> QED BY <1>2, <1>3

LEMMA CloseFacts ==
    ASSUME NEW k \in Connections, NEW n, n = HandleClose(k)
    PROVE  /\ n \in Connections /\ SameStream(k, n)
           /\ n.chan = k.chan /\ n.ups = k.ups /\ n.downs = k.downs
           /\ n.state_ = "disconnected" /\ n.events = {}
<1>1. {} \in SUBSET {"read", "write"}
  OBVIOUS
<1>2. n \in Connections
  BY <1>1 DEF HandleClose, Connections
<1>3. /\ n.chan = k.chan /\ n.ups = k.ups /\ n.downs = k.downs
      /\ n.state_ = "disconnected" /\ n.events = {}
  BY DEF HandleClose, Connections
<1>4. SameStream(k, n)
  BY DEF HandleClose, Connections, SameStream
<1> QED BY <1>2, <1>3, <1>4

LEMMA ShutFacts ==
    ASSUME NEW k \in Connections, NEW n, n = ShutdownInLoop(k)
    PROVE  /\ n \in Connections /\ SameStream(k, n) /\ SameLife(k, n)
           /\ n.events = k.events
<1>1. n \in Connections
  BY DEF ShutdownInLoop, Connections
<1>2. SameLife(k, n) /\ n.events = k.events
  BY DEF ShutdownInLoop, Connections, SameLife
<1>3. SameStream(k, n)
  BY DEF ShutdownInLoop, Connections, SameStream
<1> QED BY <1>1, <1>2, <1>3

LEMMA SubmittedFacts ==
    ASSUME NEW k \in Connections, NEW m \in Messages, NEW n, n = Submitted(k, m)
    PROVE  /\ n \in Connections /\ SameStream(k, n) /\ SameLife(k, n)
           /\ n.events = k.events
<1>1. n \in Connections
  BY DEF Submitted, Connections
<1>2. SameLife(k, n) /\ n.events = k.events
  BY DEF Submitted, Connections, SameLife
<1>3. SameStream(k, n)
  BY DEF Submitted, Connections, SameStream
<1> QED BY <1>1, <1>2, <1>3

LEMMA CasFacts ==
    ASSUME NEW k \in Connections, NEW t, NEW n, n = ShutdownCas(k, t)
    PROVE  /\ n \in Connections /\ SameStream(k, n) /\ n.state_ = "disconnecting"
           /\ n.chan = k.chan /\ n.ups = k.ups /\ n.downs = k.downs
           /\ n.events = k.events
<1>1. {m \in k.submitted : m[1] = t} \in SUBSET Messages
  BY DEF Connections
<1>2. n \in Connections
  BY <1>1 DEF ShutdownCas, Connections
<1>3. /\ n.chan = k.chan /\ n.ups = k.ups /\ n.downs = k.downs
      /\ n.state_ = "disconnecting" /\ n.events = k.events
  BY DEF ShutdownCas, Connections
<1>4. SameStream(k, n)
  BY DEF ShutdownCas, Connections, SameStream
<1> QED BY <1>2, <1>3, <1>4

LEMMA SameStreamOK ==
    ASSUME NEW k, NEW n, SameStream(k, n), StreamOK(k)
    PROVE  StreamOK(n) /\ ReadableBytes(n.outputBuffer_) = ReadableBytes(k.outputBuffer_)
  BY DEF SameStream, StreamOK

\* Bytes may be seen as part of what is before them or of what is behind them.
LEMMA Regroup ==
    ASSUME NEW s \in Seq(Cells), NEW t \in Seq(Cells), NEW u \in Seq(Cells)
    PROVE  (s \o t) \o u = s \o (t \o u)
  BY ConcatAssociative

\* The first n elements.
LEMMA FirstPart ==
    ASSUME NEW s \in Seq(Cells), NEW n \in Nat, n <= Len(s)
    PROVE  /\ SubSeq(s, 1, n) \in Seq(Cells) /\ Len(SubSeq(s, 1, n)) = n
           /\ \A i \in 1 .. n : SubSeq(s, 1, n)[i] = s[i]
<1>1. /\ SubSeq(s, 0 + 1, n) \in Seq(Cells) /\ Len(SubSeq(s, 0 + 1, n)) = n - 0
      /\ \A i \in 1 .. n - 0 : SubSeq(s, 0 + 1, n)[i] = s[0 + i]
  BY Part
<1>2. 0 + 1 = 1 /\ n - 0 = n /\ \A i \in 1 .. n : 0 + i = i
  OBVIOUS
<1> QED BY <1>1, <1>2

LEMMA WroteFacts ==
    ASSUME NEW k \in Connections, StreamOK(k), NEW n \in 0 .. ReadableBytes(k.outputBuffer_),
           NEW w, w = WroteOut(k, n)
    PROVE  /\ w \in Connections /\ SameLife(k, w) /\ w.events = k.events
           /\ w.accepted = k.accepted /\ StreamOK(w)
           /\ ReadableBytes(w.outputBuffer_) = ReadableBytes(k.outputBuffer_) - n
<1> DEFINE b == k.outputBuffer_
           d == Retrieve(b, n)
           p == Peek(b, n)
<1>1. IsBuffer(b, Cells) /\ k.wire \o Content(b) = k.accepted
  BY DEF StreamOK
<1>2. ReadableBytes(b) \in Nat
  <2> HIDE DEF b
  <2> QED BY <1>1, BufferFacts
<1>3. n \in Nat /\ n <= ReadableBytes(b)
  BY <1>2
<1>4. /\ IsBuffer(d, Cells) /\ p \in Seq(Cells) /\ Content(b) = p \o Content(d)
      /\ ReadableBytes(d) = ReadableBytes(b) - n
  <2> HIDE DEF b
  <2> QED BY <1>1, <1>3, RetrieveFromFront
<1>5. Content(d) \in Seq(Cells)
  <2> HIDE DEF d
  <2> QED BY <1>4, BufferFacts
<1>6. d \in Fields(Cells)
  BY <1>4 DEF IsBuffer
<1>7. w = [k EXCEPT !.wire = @ \o p, !.outputBuffer_ = d]
  BY DEF WroteOut
<1>8. k.wire \in Seq(Cells)
  BY DEF Connections
<1> HIDE DEF p, d
<1>9. k.wire \o p \in Seq(Cells)
  BY <1>4, <1>8, ConcatProperties
<1>10. (k.wire \o p) \o Content(d) = k.wire \o (p \o Content(d))
  BY <1>4, <1>5, <1>8, Regroup
<1>11. w \in Connections
  BY <1>6, <1>7, <1>9 DEF Connections
<1>12. SameLife(k, w) /\ w.events = k.events
  BY <1>7 DEF Connections, SameLife
<1>13. w.wire = k.wire \o p /\ w.outputBuffer_ = d /\ w.accepted = k.accepted
  BY <1>7 DEF Connections
<1>14. StreamOK(w)
  BY <1>1, <1>4, <1>10, <1>13 DEF StreamOK
<1> QED BY <1>4, <1>11, <1>12, <1>13, <1>14

LEMMA WriteFacts ==
    ASSUME NEW k \in Connections, StreamOK(k), NEW n \in 0 .. ReadableBytes(k.outputBuffer_),
           NEW w, w = HandleWrite(k, n), IsWriting(k)
    PROVE  /\ w \in Connections /\ SameLife(k, w) /\ WritingOK(w)
           /\ w.accepted = k.accepted /\ StreamOK(w)
<1> DEFINE s == WroteOut(k, n)
           i == [s EXCEPT !.events = @ \ {"write"}]
           h == ShutdownInLoop(i)
<1>1. /\ s \in Connections /\ SameLife(k, s) /\ s.events = k.events
      /\ s.accepted = k.accepted /\ StreamOK(s)
  BY WroteFacts
<1>2. w = IF ReadableBytes(s.outputBuffer_) > 0 THEN s
          ELSE IF k.state_ = "disconnecting" THEN h ELSE i
  BY DEF HandleWrite
<1> HIDE DEF s
<1>3. ReadableBytes(s.outputBuffer_) \in Nat
  BY <1>1, BufferFacts DEF StreamOK
<1>4. i \in Connections /\ SameLife(s, i) /\ SameStream(s, i) /\ i.events = s.events \ {"write"}
  <2>1. s.events \ {"write"} \in SUBSET {"read", "write"}
    BY <1>1 DEF Connections
  <2>2. i \in Connections
    BY <1>1, <2>1 DEF Connections
  <2>3. SameLife(s, i) /\ i.events = s.events \ {"write"}
    BY <1>1 DEF Connections, SameLife
  <2>4. SameStream(s, i)
    BY <1>1 DEF Connections, SameStream
  <2> QED BY <2>2, <2>3, <2>4
<1> HIDE DEF i
<1>5. h \in Connections /\ SameLife(i, h) /\ SameStream(i, h) /\ h.events = i.events
  BY <1>4, ShutFacts
<1> HIDE DEF h
<1>6. CASE ReadableBytes(s.outputBuffer_) > 0
  <2>1. w = s
    BY <1>2, <1>6
  <2> QED BY <1>1, <1>6, <2>1 DEF WritingOK, IsWriting
<1>7. CASE ~(ReadableBytes(s.outputBuffer_) > 0)
  <2>1. w = h \/ w = i
    BY <1>2, <1>7
  <2>2. w \in Connections /\ SameLife(s, w) /\ SameStream(s, w) /\ "write" \notin w.events
    BY <1>4, <1>5, <2>1 DEF SameLife, SameStream
  <2>3. StreamOK(w) /\ ReadableBytes(w.outputBuffer_) = ReadableBytes(s.outputBuffer_)
    BY <1>1, <2>2, SameStreamOK
  <2>4. SameLife(k, w) /\ w.accepted = k.accepted
    BY <1>1, <2>2 DEF SameLife, SameStream
  <2> QED BY <1>7, <2>2, <2>3, <2>4 DEF WritingOK, IsWriting
<1> QED BY <1>6, <1>7

\* The two bytes of a message, those that write(2) took and the rest.
LEMMA MessageBytes ==
    ASSUME NEW m \in Messages, NEW n \in 0 .. 2
    PROVE  LET p == SubSeq(Bytes(m), 1, n)
               r == SubSeq(Bytes(m), n + 1, 2)
           IN  /\ Bytes(m) \in Seq(Messages) /\ Len(Bytes(m)) = 2
               /\ Bytes(m)[1] = m /\ Bytes(m)[2] = m
               /\ p \in Seq(Cells) /\ r \in Seq(Cells) /\ Bytes(m) \in Seq(Cells)
               /\ p \o r = Bytes(m) /\ Len(r) = 2 - n
               /\ r = <<>> <=> n = 2
               /\ n = 0 => p = <<>>
<1> DEFINE s == Bytes(m)
           p == SubSeq(s, 1, n)
           r == SubSeq(s, n + 1, 2)
<1>1. s \in Seq(Messages) /\ Len(s) = 2 /\ s[1] = m /\ s[2] = m /\ s \in Seq(Cells)
  BY DEF Bytes, Cells
<1> HIDE DEF s
<1>2. n \in Nat /\ n <= 2 /\ 2 \in Nat /\ 2 <= Len(s) /\ n <= Len(s) /\ 2 - n \in Nat
  BY <1>1
<1>3. p \in Seq(Cells) /\ Len(p) = n /\ \A i \in 1 .. n : p[i] = s[i]
  BY <1>1, <1>2, FirstPart
<1>4. r \in Seq(Cells) /\ Len(r) = 2 - n /\ \A i \in 1 .. 2 - n : r[i] = s[n + i]
  BY <1>1, <1>2, Part
<1> HIDE DEF p, r
<1>6. \A i \in 1 .. Len(p) : s[i] = p[i]
  BY <1>3
<1>7. \A i \in 1 .. Len(r) : s[Len(p) + i] = r[i]
  BY <1>3, <1>4
<1>8. Len(s) = Len(p) + Len(r)
  BY <1>1, <1>2, <1>3, <1>4
<1>9. s = p \o r
  BY <1>1, <1>3, <1>4, <1>6, <1>7, <1>8, SameAsJoined
<1>10. r = <<>> <=> n = 2
  <2>1. r = <<>> <=> Len(r) = 0
    BY <1>4, EmptySeq
  <2> QED BY <1>2, <1>4, <2>1
<1>11. n = 0 => p = <<>>
  BY <1>3, EmptySeq
<1> QED BY <1>1, <1>3, <1>4, <1>9, <1>10, <1>11 DEF s, p, r

\* n bytes of message m are written at once, only if none are waiting.
LEMMA SendInLoopFacts ==
    ASSUME NEW k \in Connections, StreamOK(k), NEW m \in Messages, NEW n \in 0 .. 2,
           n = 0 \/ ReadableBytes(k.outputBuffer_) = 0, NEW w, w = SendInLoop(k, m, n)
    PROVE  /\ w \in Connections /\ SameLife(k, w) /\ StreamOK(w)
           /\ w.accepted = k.accepted \o Bytes(m)
           /\ WritingOK(k) \/ n = 0 => WritingOK(w)
<1> DEFINE b == k.outputBuffer_
           p == SubSeq(Bytes(m), 1, n)
           r == SubSeq(Bytes(m), n + 1, 2)
           d == BufferAppend(b, r)
           e == IF r = <<>> THEN k.events ELSE k.events \cup {"write"}
           a == k.accepted
<1>1. /\ Bytes(m) \in Seq(Messages) /\ p \in Seq(Cells) /\ r \in Seq(Cells)
      /\ Bytes(m) \in Seq(Cells) /\ p \o r = Bytes(m) /\ Len(r) = 2 - n
      /\ (r = <<>> <=> n = 2) /\ (n = 0 => p = <<>>)
  BY MessageBytes
<1>2. w = [k EXCEPT !.accepted = a \o Bytes(m), !.wire = @ \o p, !.outputBuffer_ = d,
                    !.events = e]
  BY DEF SendInLoop
<1> HIDE DEF p, r
<1>3. IsBuffer(b, Cells) /\ k.wire \o Content(b) = a
  BY DEF StreamOK
<1>4. Nul \in Cells
  BY DEF Cells
<1>5. IsBuffer(d, Cells) /\ Content(d) = Content(b) \o r
  <2> HIDE DEF b
  <2> QED BY <1>1, <1>3, <1>4, AppendAtEnd
<1>6. /\ k.wire \in Seq(Cells) /\ a \in Seq(Messages) /\ k.events \in SUBSET {"read", "write"}
  BY DEF Connections
<1>7. /\ Content(b) \in Seq(Cells) /\ ReadableBytes(b) \in Nat
      /\ Len(Content(b)) = ReadableBytes(b)
  <2> HIDE DEF b
  <2> QED BY <1>3, BufferFacts
<1> HIDE DEF d
<1>8. ReadableBytes(d) = ReadableBytes(b) + (2 - n)
  <2>1. Len(Content(d)) = ReadableBytes(d)
    BY <1>5, BufferFacts
  <2>2. Len(Content(b) \o r) = Len(Content(b)) + Len(r)
    BY <1>1, <1>7, ConcatProperties
  <2> QED BY <1>1, <1>5, <1>7, <2>1, <2>2
<1>9. k.wire \o p \in Seq(Cells) /\ a \o Bytes(m) \in Seq(Messages) /\ d \in Fields(Cells)
  <2>1. k.wire \o p \in Seq(Cells)
    BY <1>1, <1>6, ConcatProperties
  <2>2. a \o Bytes(m) \in Seq(Messages)
    BY <1>1, <1>6, ConcatProperties
  <2> QED BY <1>5, <2>1, <2>2 DEF IsBuffer
<1>10. e \in SUBSET {"read", "write"}
  BY <1>6
<1> HIDE DEF e
<1>11. w \in Connections
  BY <1>2, <1>9, <1>10 DEF Connections
<1>12. /\ SameLife(k, w) /\ w.events = e /\ w.accepted = a \o Bytes(m)
       /\ w.wire = k.wire \o p /\ w.outputBuffer_ = d
  BY <1>2 DEF Connections, SameLife
<1>13. (k.wire \o p) \o (Content(b) \o r) = a \o Bytes(m)
  <2>1. CASE n = 0
    <3>1. p = <<>> /\ r = Bytes(m)
      <4>1. <<>> \o r = r
        BY <1>1, ConcatEmptySeq
      <4> QED BY <1>1, <2>1, <4>1
    <3>2. k.wire \o <<>> = k.wire
      BY <1>6, ConcatEmptySeq
    <3>3. (k.wire \o Content(b)) \o r = k.wire \o (Content(b) \o r)
      BY <1>1, <1>6, <1>7, Regroup
    <3> QED BY <1>3, <3>1, <3>2, <3>3
  <2>2. CASE ReadableBytes(b) = 0
    <3>1. Content(b) = <<>>
      BY <1>7, <2>2, EmptySeq
    <3>2. k.wire \o <<>> = k.wire /\ <<>> \o r = r
      BY <1>1, <1>6, ConcatEmptySeq
    <3>3. (k.wire \o p) \o r = k.wire \o (p \o r)
      BY <1>1, <1>6, Regroup
    <3> QED BY <1>1, <1>3, <3>1, <3>2, <3>3
  <2> QED BY <2>1, <2>2
<1>14. StreamOK(w)
  BY <1>5, <1>12, <1>13 DEF StreamOK
<1>15. ASSUME WritingOK(k) \/ n = 0 PROVE WritingOK(w)
  <2>1. CASE n = 2
    <3>1. e = k.events
      BY <1>1, <2>1 DEF e
    <3>2. ReadableBytes(d) = ReadableBytes(b) /\ n # 0
      BY <1>7, <1>8, <2>1
    <3> QED BY <1>12, <1>15, <3>1, <3>2 DEF WritingOK, IsWriting
  <2>2. CASE n # 2
    <3>1. "write" \in e
      BY <1>1, <2>2 DEF e
    <3>2. ReadableBytes(d) > 0
      BY <1>7, <1>8, <2>2
    <3> QED BY <1>12, <3>1, <3>2 DEF WritingOK, IsWriting
  <2> QED BY <2>1, <2>2
<1> QED BY <1>11, <1>12, <1>14, <1>15

LEMMA SendFacts ==
    ASSUME NEW k \in Connections, StreamOK(k), NEW m \in Messages,
           NEW o \in SendOutcomes(k, m)
    PROVE  /\ o.k \in Connections /\ SameLife(k, o.k) /\ StreamOK(o.k)
           /\ k.state_ = "disconnected" => o.k.events = k.events
           /\ WritingOK(k) => WritingOK(o.k)
           /\ o.k.accepted \in {k.accepted, k.accepted \o Bytes(m)}
           /\ \/ o.posts = <<>>
              \/ \E p \in {"writeComplete", "highWater"} : o.posts = <<p>>
<1> DEFINE old == ReadableBytes(k.outputBuffer_)
           posts(n) == IF n = 2 THEN <<"writeComplete">>
                       ELSE IF /\ old + 2 - n >= highWaterMark_
                               /\ old < highWaterMark_
                       THEN <<"highWater">> ELSE <<>>
           after(n) == [k |-> SendInLoop(k, m, n), posts |-> posts(n)]
           fault == [k |-> [k EXCEPT !.broken = TRUE], posts |-> <<>>]
<1>1. \/ k.state_ = "disconnected" /\ o = [k |-> k, posts |-> <<>>]
      \/ k.state_ # "disconnected" /\ ~WritesDirectly(k) /\ o = after(0)
      \/ k.state_ # "disconnected" /\ o = fault
      \/ /\ k.state_ # "disconnected" /\ WritesDirectly(k)
         /\ \E n \in 0 .. 2 : o = after(n)
  BY DEF SendOutcomes
<1>2. CASE k.state_ = "disconnected" /\ o = [k |-> k, posts |-> <<>>]
  BY <1>2 DEF SameLife
<1>3. CASE k.state_ # "disconnected" /\ o = fault
  <2> DEFINE w == [k EXCEPT !.broken = TRUE]
  <2>1. w \in Connections /\ SameLife(k, w) /\ SameStream(k, w) /\ w.events = k.events
    BY DEF Connections, SameLife, SameStream
  <2>2. o.k = w /\ o.posts = <<>>
    BY <1>3
  <2> HIDE DEF w
  <2>3. StreamOK(w) /\ ReadableBytes(w.outputBuffer_) = ReadableBytes(k.outputBuffer_)
    BY <2>1, SameStreamOK
  <2> QED BY <1>3, <2>1, <2>2, <2>3 DEF SameStream, WritingOK, IsWriting
<1>4. ASSUME NEW n \in 0 .. 2, n = 0 \/ ReadableBytes(k.outputBuffer_) = 0, o = after(n),
             k.state_ # "disconnected"
      PROVE  /\ o.k \in Connections /\ SameLife(k, o.k) /\ StreamOK(o.k)
             /\ WritingOK(k) => WritingOK(o.k)
             /\ o.k.accepted \in {k.accepted, k.accepted \o Bytes(m)}
             /\ \/ o.posts = <<>>
                \/ \E p \in {"writeComplete", "highWater"} : o.posts = <<p>>
  <2>1. o.k = SendInLoop(k, m, n) /\ o.posts = posts(n)
    BY <1>4
  <2>2. posts(n) = <<>> \/ posts(n) = <<"writeComplete">> \/ posts(n) = <<"highWater">>
    OBVIOUS
  <2> HIDE DEF posts, after
  <2>3. /\ o.k \in Connections /\ SameLife(k, o.k) /\ StreamOK(o.k)
        /\ o.k.accepted = k.accepted \o Bytes(m)
        /\ WritingOK(k) => WritingOK(o.k)
    <3> DEFINE w == SendInLoop(k, m, n)
    <3>1. n = 0 \/ ReadableBytes(k.outputBuffer_) = 0
      BY <1>4
    <3>2. /\ w \in Connections /\ SameLife(k, w) /\ StreamOK(w)
          /\ w.accepted = k.accepted \o Bytes(m)
          /\ WritingOK(k) \/ n = 0 => WritingOK(w)
      BY <3>1, SendInLoopFacts
    <3> QED BY <2>1, <3>2
  <2> QED BY <2>1, <2>2, <2>3
<1>5. 0 \in 0 .. 2
  OBVIOUS
<1>6. WritesDirectly(k) => ReadableBytes(k.outputBuffer_) = 0
  BY DEF WritesDirectly
<1> HIDE DEF after, fault
<1> QED BY <1>1, <1>2, <1>3, <1>4, <1>5, <1>6

-----------------------------------------------------------------------------
\* How a step changes the queues.

Nowhere == [l \in Loops |-> {}]
At(l, S) == [i \in Loops |-> IF i = l THEN S ELSE {}]

\* From q to r, rem is taken from the front and add appended.
Moves(q, r, rem, add) ==
    /\ \A f \in Elems(r) : f \in Elems(q) \/ f \in add
    /\ \A f \in Elems(q) : f \in Elems(r) \/ f \in rem
    /\ \A f \in add : f \in Elems(r)
    /\ \A f, g : Prec(r, f, g) =>
        \/ Prec(q, f, g) \/ (f \in Elems(q) /\ g \in add)
        \/ f \in add /\ g \in add /\ f # g
    /\ \A f \in rem : \A g \in Elems(r) : Prec(q, f, g) \/ g \in add

QueueRel(q, r, rem, add) ==
    /\ r \in [Loops -> Seq(Functors)]
    /\ \A l \in Loops : Moves(q[l], r[l], rem[l], add[l])

LEMMA NoMove ==
    ASSUME NEW q
    PROVE  Moves(q, q, {}, {})
<1>1. \A f, g : Prec(q, f, g) =>
        \/ Prec(q, f, g) \/ (f \in Elems(q) /\ g \in {})
        \/ f \in {} /\ g \in {} /\ f # g
  OBVIOUS
<1> QED BY <1>1 DEF Moves

LEMMA MovePop ==
    ASSUME NEW S, NEW q \in Seq(S), Len(q) > 0
    PROVE  Moves(q, Tail(q), {Head(q)}, {})
<1>1. /\ Elems(q) = Elems(Tail(q)) \cup {Head(q)}
      /\ \A f \in Elems(Tail(q)) : Prec(q, Head(q), f)
      /\ \A f, g : Prec(Tail(q), f, g) => Prec(q, f, g)
  BY Popped
<1> QED BY <1>1 DEF Moves

\* Nothing is in s twice.
Distinct(s) == \A f, g : Prec(s, f, g) => f # g

LEMMA MoveExtend ==
    ASSUME NEW S, NEW q, NEW p \in Seq(S), NEW rem, NEW s \in Seq(S),
           Moves(q, p, rem, {}), Distinct(s)
    PROVE  Moves(q, p \o s, rem, Elems(s))
<1> DEFINE r == p \o s
<1>1. /\ Elems(r) = Elems(p) \cup Elems(s)
      /\ \A f, g : Prec(r, f, g) =>
           \/ Prec(p, f, g) \/ Prec(s, f, g)
           \/ f \in Elems(p) /\ g \in Elems(s)
  BY Extended
<1>2. \A f, g : Prec(s, f, g) => f \in Elems(s) /\ g \in Elems(s)
  BY ElemsSeq
<1> HIDE DEF r
<1>3. /\ \A f \in Elems(p) : f \in Elems(q)
      /\ \A f \in Elems(q) : f \in Elems(p) \/ f \in rem
      /\ \A f, g : Prec(p, f, g) => Prec(q, f, g)
      /\ \A f \in rem : \A g \in Elems(p) : Prec(q, f, g)
  BY DEF Moves
<1>4. \A f \in Elems(r) : f \in Elems(q) \/ f \in Elems(s)
  BY <1>1, <1>3
<1>5. \A f \in Elems(q) : f \in Elems(r) \/ f \in rem
  BY <1>1, <1>3
<1>6. \A f \in Elems(s) : f \in Elems(r)
  BY <1>1
<1>7. ASSUME NEW f, NEW g, Prec(r, f, g)
      PROVE  \/ Prec(q, f, g) \/ (f \in Elems(q) /\ g \in Elems(s))
             \/ f \in Elems(s) /\ g \in Elems(s) /\ f # g
  <2>1. CASE Prec(p, f, g)
    BY <1>3, <2>1
  <2>2. CASE Prec(s, f, g)
    BY <1>2, <2>2 DEF Distinct
  <2>3. CASE f \in Elems(p) /\ g \in Elems(s)
    BY <1>3, <2>3
  <2> QED BY <1>1, <1>7, <2>1, <2>2, <2>3
<1>8. \A f \in rem : \A g \in Elems(r) : Prec(q, f, g) \/ g \in Elems(s)
  BY <1>1, <1>3
<1> QED BY <1>4, <1>5, <1>6, <1>7, <1>8 DEF Moves, r

LEMMA RelStay ==
    ASSUME NEW q \in [Loops -> Seq(Functors)]
    PROVE  QueueRel(q, q, Nowhere, Nowhere)
<1>1. \A l \in Loops : Nowhere[l] = {}
  BY DEF Nowhere
<1> QED BY <1>1, NoMove DEF QueueRel

LEMMA RelPop ==
    ASSUME NEW q \in [Loops -> Seq(Functors)], NEW l \in Loops, Len(q[l]) > 0,
           NEW r, r = [q EXCEPT ![l] = Tail(@)]
    PROVE  /\ QueueRel(q, r, At(l, {Head(q[l])}), Nowhere)
           /\ Head(q[l]) \in Elems(q[l])
           /\ Len(r[l]) = Len(q[l]) - 1 /\ \A i \in Loops : i # l => r[i] = q[i]
<1> DEFINE s == q[l]
           rem == At(l, {Head(s)})
<1>1. s \in Seq(Functors) /\ Len(s) > 0
  OBVIOUS
<1>2. r = [q EXCEPT ![l] = Tail(s)]
  OBVIOUS
<1>3. rem[l] = {Head(s)} /\ Nowhere[l] = {}
      /\ \A i \in Loops : i # l => rem[i] = {} /\ Nowhere[i] = {}
  BY DEF At, Nowhere
<1> HIDE DEF s, rem
<1>4. Head(s) \in Elems(s) /\ Tail(s) \in Seq(Functors) /\ Len(Tail(s)) = Len(s) - 1
  BY <1>1, Popped
<1>5. Moves(s, Tail(s), {Head(s)}, {})
  BY <1>1, MovePop
<1>6. /\ r \in [Loops -> Seq(Functors)] /\ r[l] = Tail(s)
      /\ \A i \in Loops : i # l => r[i] = q[i]
  BY <1>2, <1>4
<1>7. QueueRel(q, r, rem, Nowhere)
  <2> SUFFICES ASSUME NEW i \in Loops PROVE Moves(q[i], r[i], rem[i], Nowhere[i])
    BY <1>6 DEF QueueRel
  <2>1. CASE i = l
    BY <1>3, <1>5, <1>6, <2>1 DEF s
  <2>2. CASE i # l
    BY <1>3, <1>6, <2>2, NoMove
  <2> QED BY <2>1, <2>2
<1> QED BY <1>4, <1>6, <1>7 DEF s, rem

\* s is appended to the queue of l.
Extend(p, l, s) == [p EXCEPT ![l] = @ \o s]

LEMMA RelExtend ==
    ASSUME NEW q, NEW p, NEW rem, NEW l \in Loops, NEW s \in Seq(Functors),
           QueueRel(q, p, rem, Nowhere), Distinct(s), NEW r, r = Extend(p, l, s)
    PROVE  /\ QueueRel(q, r, rem, At(l, Elems(s)))
           /\ Len(r[l]) = Len(p[l]) + Len(s) /\ \A i \in Loops : i # l => r[i] = p[i]
<1> DEFINE t == p[l]
           add == At(l, Elems(s))
<1>1. p \in [Loops -> Seq(Functors)] /\ t \in Seq(Functors)
  BY DEF QueueRel
<1>2. r = [p EXCEPT ![l] = t \o s]
  BY DEF Extend
<1>3. add[l] = Elems(s) /\ \A i \in Loops : i # l => add[i] = {}
  BY DEF At
<1>4. \A i \in Loops : Moves(q[i], p[i], rem[i], {})
  <2>1. \A i \in Loops : Nowhere[i] = {}
    BY DEF Nowhere
  <2> QED BY <2>1 DEF QueueRel
<1>5. Moves(q[l], t, rem[l], {})
  BY <1>4
<1> HIDE DEF t, add
<1>6. t \o s \in Seq(Functors) /\ Len(t \o s) = Len(t) + Len(s)
  BY <1>1, Extended
<1>7. Moves(q[l], t \o s, rem[l], Elems(s))
  BY <1>1, <1>5, MoveExtend
<1>8. /\ r \in [Loops -> Seq(Functors)] /\ r[l] = t \o s
      /\ \A i \in Loops : i # l => r[i] = p[i]
  BY <1>1, <1>2, <1>6
<1>9. QueueRel(q, r, rem, add)
  <2> SUFFICES ASSUME NEW i \in Loops PROVE Moves(q[i], r[i], rem[i], add[i])
    BY <1>8 DEF QueueRel
  <2>1. CASE i = l
    BY <1>3, <1>7, <1>8, <2>1
  <2>2. CASE i # l
    BY <1>3, <1>4, <1>8, <2>2
  <2> QED BY <2>1, <2>2
<1> QED BY <1>6, <1>8, <1>9 DEF t, add

LEMMA FunctorTypes ==
    /\ \A f \in Functors :
        /\ f.op \in ConnOps \cup {"buildAndRun", "listen"}
        /\ f.op \in ConnOps => f.c \in Conns
        /\ f.op = "send" => f.m \in Messages
    /\ \A op \in ConnOps \ {"send"}, c \in Conns :
        /\ Functor(op, c) \in Functors
        /\ Functor(op, c).op = op /\ Functor(op, c).c = c
    /\ \A c \in Conns, m \in Messages :
        LET f == [op |-> "send", c |-> c, m |-> m]
        IN  f \in Functors /\ f.op = "send" /\ f.c = c /\ f.m = m
<1>1. ASSUME NEW f \in Functors
      PROVE  /\ f.op \in ConnOps \cup {"buildAndRun", "listen"}
             /\ f.op \in ConnOps => f.c \in Conns
             /\ f.op = "send" => f.m \in Messages
  <2>1. CASE f \in [op : ConnOps \ {"send"}, c : Conns]
    BY <2>1
  <2>2. CASE f \in [op : {"send"}, c : Conns, m : Messages]
    BY <2>2 DEF ConnOps
  <2>3. CASE f \in [op : {"buildAndRun", "listen"}]
    BY <2>3 DEF ConnOps
  <2> QED BY <2>1, <2>2, <2>3 DEF Functors
<1>2. ASSUME NEW op \in ConnOps \ {"send"}, NEW c \in Conns
      PROVE  /\ Functor(op, c) \in Functors
             /\ Functor(op, c).op = op /\ Functor(op, c).c = c
  <2>1. Functor(op, c) \in [op : ConnOps \ {"send"}, c : Conns]
    BY DEF Functor
  <2> QED BY <2>1 DEF Functors, Functor
<1>3. ASSUME NEW c \in Conns, NEW m \in Messages
      PROVE  LET f == [op |-> "send", c |-> c, m |-> m]
             IN  f \in Functors /\ f.op = "send" /\ f.c = c /\ f.m = m
  <2> DEFINE f == [op |-> "send", c |-> c, m |-> m]
  <2>1. f \in [op : {"send"}, c : Conns, m : Messages] /\ f.op = "send" /\ f.c = c /\ f.m = m
    OBVIOUS
  <2> QED BY <2>1 DEF Functors
<1> QED BY <1>1, <1>2, <1>3

LEMMA HomeLoops == Base \in Loops /\ IoLoops \subseteq Loops /\ NoLoop \notin Loops
    /\ Loops \ {Base} = IoLoops
  BY ServerAssumption DEF Loops

QueueStep(rem, add) == QueueRel(queue, queue', rem, add)

\* No queue gets shorter.
Grows == \A l \in Loops : Len(queue'[l]) >= Len(queue[l])

LEMMA StayStep ==
    ASSUME TypeOK, UNCHANGED queue
    PROVE  QueueStep(Nowhere, Nowhere) /\ Grows
<1>1. queue \in [Loops -> Seq(Functors)]
  BY DEF TypeOK
<1>2. \A l \in Loops : Len(queue[l]) \in Nat
  BY <1>1, LenProperties
<1> QED BY <1>1, <1>2, RelStay DEF QueueStep, Grows

LEMMA ExtendOnce ==
    ASSUME NEW p \in [Loops -> Seq(Functors)], NEW l \in Loops, NEW s \in Seq(Functors),
           Distinct(s)
    PROVE  LET r == Extend(p, l, s) IN
           /\ QueueRel(p, r, Nowhere, At(l, Elems(s)))
           /\ \A i \in Loops : Len(r[i]) >= Len(p[i])
<1> DEFINE r == Extend(p, l, s)
<1>1. QueueRel(p, p, Nowhere, Nowhere)
  BY RelStay
<1>2. /\ QueueRel(p, r, Nowhere, At(l, Elems(s)))
      /\ Len(r[l]) = Len(p[l]) + Len(s) /\ \A i \in Loops : i # l => r[i] = p[i]
  BY <1>1, RelExtend
<1>3. Len(s) \in Nat /\ \A i \in Loops : Len(p[i]) \in Nat
  BY LenProperties
<1> HIDE DEF r
<1>4. \A i \in Loops : Len(r[i]) >= Len(p[i])
  BY <1>2, <1>3
<1> QED BY <1>2, <1>4 DEF r

LEMMA ExtendStep ==
    ASSUME TypeOK, NEW l \in Loops, NEW s \in Seq(Functors),
           Distinct(s), queue' = Extend(queue, l, s)
    PROVE  QueueStep(Nowhere, At(l, Elems(s))) /\ Grows
<1>1. queue \in [Loops -> Seq(Functors)]
  BY DEF TypeOK
<1> QED BY <1>1, ExtendOnce DEF QueueStep, Grows

LEMMA PushIsExtend ==
    ASSUME NEW q \in [Loops -> Seq(Functors)], NEW l \in Loops, NEW f \in Functors
    PROVE  Push(q, l, f) = Extend(q, l, <<f>>)
<1>1. q[l] \in Seq(Functors)
  OBVIOUS
<1>2. Append(q[l], f) = q[l] \o <<f>>
  BY <1>1, AppendIsConcat
<1> QED BY <1>2 DEF Push, Extend

LEMMA PushStep ==
    ASSUME TypeOK, NEW l \in Loops, NEW f \in Functors, queue' = Push(queue, l, f)
    PROVE  QueueStep(Nowhere, At(l, {f})) /\ Grows
<1>1. queue \in [Loops -> Seq(Functors)]
  BY DEF TypeOK
<1>2. <<f>> \in Seq(Functors) /\ Elems(<<f>>) = {f} /\ \A g, h : ~Prec(<<f>>, g, h)
  BY Single
<1> DEFINE s == <<f>>
<1>3. queue' = Extend(queue, l, s) /\ s \in Seq(Functors) /\ Elems(s) = {f}
      /\ Distinct(s)
  BY <1>1, <1>2, PushIsExtend DEF Distinct
<1> HIDE DEF s
<1>4. QueueStep(Nowhere, At(l, Elems(s))) /\ Grows
  BY <1>3, ExtendStep
<1> QED BY <1>3, <1>4

\* A functor is run: what it is, and what is left.
LEMMA RunStep ==
    ASSUME TypeOK, RoundInv, NEW l \in Loops, NEW op, Runs(l, op)
    PROVE  LET f == Head(queue[l]) IN
           /\ f \in Elems(queue[l]) /\ f \in Functors /\ f.op = op
           /\ QueueRel(queue, Rest(l), At(l, {f}), Nowhere)
           /\ Len(Rest(l)[l]) = Len(queue[l]) - 1
           /\ \A i \in Loops : i # l => Rest(l)[i] = queue[i]
<1>1. queue \in [Loops -> Seq(Functors)] /\ queue[l] \in Seq(Functors)
  BY DEF TypeOK
<1>2. Len(queue[l]) > 0
  <2>1. todo[l] > 0 /\ todo[l] <= Len(queue[l]) /\ todo[l] \in Nat
    BY DEF Runs, RoundInv
  <2>2. Len(queue[l]) \in Nat
    BY <1>1, LenProperties
  <2> QED BY <2>1, <2>2
<1> DEFINE r == Rest(l)
<1>3. r = [queue EXCEPT ![l] = Tail(@)]
  BY DEF Rest
<1> HIDE DEF r
<1>4. /\ QueueRel(queue, r, At(l, {Head(queue[l])}), Nowhere)
      /\ Head(queue[l]) \in Elems(queue[l])
      /\ Len(r[l]) = Len(queue[l]) - 1 /\ \A i \in Loops : i # l => r[i] = queue[i]
  BY <1>1, <1>2, <1>3, RelPop
<1>5. Head(queue[l]) \in Functors
  BY <1>1, <1>4, ElemsSeq
<1> QED BY <1>4, <1>5 DEF r, Runs

\* A functor of loop l has been run, the rest of the round is still there.
Shrunk(l) ==
    /\ Len(queue'[l]) >= Len(queue[l]) - 1
    /\ \A i \in Loops : i # l => Len(queue'[i]) >= Len(queue[i])

LEMMA PopStep ==
    ASSUME TypeOK, RoundInv, NEW l \in Loops, NEW op, Runs(l, op), queue' = Rest(l)
    PROVE  QueueStep(At(l, {Head(queue[l])}), Nowhere) /\ Shrunk(l)
<1>1. \A i \in Loops : Len(queue[i]) \in Nat
  BY LenProperties DEF TypeOK
<1>2. /\ QueueRel(queue, Rest(l), At(l, {Head(queue[l])}), Nowhere)
      /\ Len(Rest(l)[l]) = Len(queue[l]) - 1
      /\ \A i \in Loops : i # l => Rest(l)[i] = queue[i]
  BY RunStep
<1>3. Len(queue'[l]) >= Len(queue[l]) - 1
  BY <1>1, <1>2
<1>4. \A i \in Loops : i # l => Len(queue'[i]) >= Len(queue[i])
  BY <1>1, <1>2
<1> QED BY <1>2, <1>3, <1>4 DEF QueueStep, Shrunk

\* ... and it has left s in the queue of loop j.
LEMMA PopExtendStep ==
    ASSUME TypeOK, RoundInv, NEW l \in Loops, NEW op, Runs(l, op),
           NEW j \in Loops, NEW s \in Seq(Functors),
           Distinct(s), queue' = Extend(Rest(l), j, s)
    PROVE  QueueStep(At(l, {Head(queue[l])}), At(j, Elems(s))) /\ Shrunk(l)
<1> DEFINE p == Rest(l)
           rem == At(l, {Head(queue[l])})
           r == queue'
<1>1. /\ QueueRel(queue, p, rem, Nowhere) /\ Len(p[l]) = Len(queue[l]) - 1
      /\ \A i \in Loops : i # l => p[i] = queue[i]
  BY RunStep
<1>2. r = Extend(p, j, s)
  OBVIOUS
<1> HIDE DEF p, rem, r
<1>3. /\ QueueRel(queue, r, rem, At(j, Elems(s)))
      /\ Len(r[j]) = Len(p[j]) + Len(s) /\ \A i \in Loops : i # j => r[i] = p[i]
  BY <1>1, <1>2, RelExtend
<1>4. /\ Len(s) \in Nat /\ \A i \in Loops : Len(p[i]) \in Nat
      /\ \A i \in Loops : Len(queue[i]) \in Nat
  <2>1. p \in [Loops -> Seq(Functors)]
    BY <1>1 DEF QueueRel
  <2>2. \A i \in Loops : Len(p[i]) \in Nat
    BY <2>1, LenProperties
  <2>3. \A i \in Loops : Len(queue[i]) \in Nat
    BY LenProperties DEF TypeOK
  <2> QED BY <2>2, <2>3, LenProperties
<1>5. \A i \in Loops : Len(r[i]) >= Len(p[i])
  BY <1>3, <1>4
<1>6. Len(r[l]) >= Len(queue[l]) - 1
  BY <1>1, <1>5
<1>7. \A i \in Loops : i # l => Len(r[i]) >= Len(queue[i])
  BY <1>1, <1>5
<1> QED BY <1>3, <1>6, <1>7 DEF QueueStep, Shrunk, r, rem

\* The callbacks that are posted, at most one.
LEMMA PostsAre ==
    ASSUME NEW c \in Conns, NEW posts,
           \/ posts = <<>>
           \/ \E p \in {"writeComplete", "highWater"} : posts = <<p>>
    PROVE  LET s == [i \in DOMAIN posts |-> Functor(posts[i], c)] IN
           /\ s \in Seq(Functors) /\ Distinct(s)
           /\ \A f \in Elems(s) : /\ f \in Functors /\ f.c = c
                                  /\ f.op \in {"writeComplete", "highWater"}
<1> DEFINE s == [i \in DOMAIN posts |-> Functor(posts[i], c)]
<1>1. CASE posts = <<>>
  <2>1. s = <<>>
    BY <1>1
  <2> QED BY <2>1, Nothing DEF Distinct
<1>2. ASSUME NEW p \in {"writeComplete", "highWater"}, posts = <<p>>
      PROVE  /\ s \in Seq(Functors) /\ Distinct(s)
             /\ \A f \in Elems(s) : /\ f \in Functors /\ f.c = c
                                    /\ f.op \in {"writeComplete", "highWater"}
  <2> DEFINE f == Functor(p, c)
  <2>1. p \in ConnOps \ {"send"}
    BY DEF ConnOps
  <2>2. f \in Functors /\ f.op = p /\ f.c = c
    BY <2>1, FunctorTypes
  <2>3. s = <<f>>
    BY <1>2
  <2> HIDE DEF f, s
  <2>4. <<f>> \in Seq(Functors) /\ Elems(<<f>>) = {f} /\ \A g, h : ~Prec(<<f>>, g, h)
    BY <2>2, Single
  <2> QED BY <2>2, <2>3, <2>4 DEF Distinct
<1> QED BY <1>1, <1>2

-----------------------------------------------------------------------------
\* What the invariants need of a step.

LEMMA QueuedIs ==
    ASSUME NEW c, NEW ops
    PROVE  /\ Queued(c, ops) <=>
                \E l \in Loops : \E f \in Elems(queue[l]) : f.op \in ops /\ f.c = c
           /\ Queued(c, ops)' <=>
                \E l \in Loops : \E f \in Elems(queue'[l]) : f.op \in ops /\ f.c = c
<1>1. Queued(c, ops) <=>
         \E l \in Loops : \E f \in Elems(queue[l]) : f.op \in ops /\ f.c = c
  BY DEF Queued, Elems
<1>2. Queued(c, ops)' <=>
         \E l \in Loops : \E f \in Elems(queue'[l]) : f.op \in ops /\ f.c = c
  BY DEF Queued, Elems
<1> QED BY <1>1, <1>2

\* What is in a queue is a functor.
LEMMA ElemsAre ==
    ASSUME TypeOK, NEW l \in Loops, NEW f \in Elems(queue[l])
    PROVE  /\ f \in Functors /\ f.op \in ConnOps \cup {"buildAndRun", "listen"}
           /\ f.op \in ConnOps => f.c \in Conns
<1>1. queue[l] \in Seq(Functors)
  BY DEF TypeOK
<1>2. f \in Functors
  BY <1>1, ElemsSeq
<1> QED BY <1>2, FunctorTypes

\* What is appended may follow what is there.
NewInOrder(add) ==
    \A l \in Loops : \A g \in add[l] :
        /\ \A f \in Elems(queue[l]) : MayPrecede(f, g)
        /\ \A f \in add[l] : f # g => MayPrecede(f, g)

LEMMA OrderKept ==
    ASSUME TypeOK, OrderInv, NEW rem, NEW add, QueueStep(rem, add), NewInOrder(add)
    PROVE  OrderInv'
<1> SUFFICES ASSUME NEW l \in Loops, NEW f \in Elems(queue'[l]), NEW g \in Elems(queue'[l]),
                    Prec(queue'[l], f, g)
             PROVE  MayPrecede(f, g)
  BY DEF OrderInv, MayPrecede
<1>1. \/ Prec(queue[l], f, g) \/ (f \in Elems(queue[l]) /\ g \in add[l])
      \/ f \in add[l] /\ g \in add[l] /\ f # g
  BY DEF QueueStep, QueueRel, Moves
<1>2. CASE Prec(queue[l], f, g)
  <2>1. queue[l] \in Seq(Functors)
    BY DEF TypeOK
  <2>2. f \in Elems(queue[l]) /\ g \in Elems(queue[l])
    BY <1>2, <2>1, ElemsSeq
  <2> QED BY <1>2, <2>2 DEF OrderInv
<1>3. CASE f \in Elems(queue[l]) /\ g \in add[l]
  BY <1>3 DEF NewInOrder
<1>4. CASE f \in add[l] /\ g \in add[l] /\ f # g
  BY <1>4 DEF NewInOrder
<1> QED BY <1>1, <1>2, <1>3, <1>4

\* A functor that was run may precede every one that is left.
LEMMA RunFirst ==
    ASSUME TypeOK, OrderInv, NEW rem, NEW add, QueueStep(rem, add),
           NEW l \in Loops, NEW f \in rem[l], NEW g \in Elems(queue'[l]), g \notin add[l]
    PROVE  MayPrecede(f, g)
<1>1. Prec(queue[l], f, g)
  BY DEF QueueStep, QueueRel, Moves
<1>2. queue[l] \in Seq(Functors)
  BY DEF TypeOK
<1>3. f \in Elems(queue[l]) /\ g \in Elems(queue[l])
  BY <1>1, <1>2, ElemsSeq
<1> QED BY <1>1, <1>3 DEF OrderInv

LEMMA RoundGrows ==
    ASSUME TypeOK, RoundInv, UNCHANGED todo, Grows, NEW rem, NEW add, QueueStep(rem, add)
    PROVE  RoundInv'
<1>1. queue \in [Loops -> Seq(Functors)] /\ queue' \in [Loops -> Seq(Functors)]
  BY DEF TypeOK, QueueStep, QueueRel
<1>2. \A l \in Loops : Len(queue[l]) \in Nat /\ Len(queue'[l]) \in Nat
  BY <1>1, LenProperties
<1>3. todo' \in [Loops -> Nat] /\ \A l \in Loops : todo[l] \in Nat /\ todo[l] <= Len(queue[l])
  BY DEF RoundInv
<1> QED BY <1>2, <1>3 DEF RoundInv, Grows

LEMMA RoundShrunk ==
    ASSUME TypeOK, RoundInv, NEW l \in Loops, NEW op, Runs(l, op), Shrunk(l),
           NEW rem, NEW add, QueueStep(rem, add)
    PROVE  RoundInv'
<1>1. queue \in [Loops -> Seq(Functors)] /\ queue' \in [Loops -> Seq(Functors)]
  BY DEF TypeOK, QueueStep, QueueRel
<1>2. \A i \in Loops : Len(queue[i]) \in Nat /\ Len(queue'[i]) \in Nat
  BY <1>1, LenProperties
<1>3. todo \in [Loops -> Nat] /\ \A i \in Loops : todo[i] \in Nat /\ todo[i] <= Len(queue[i])
  BY DEF RoundInv
<1>4. todo[l] > 0 /\ todo' = [todo EXCEPT ![l] = @ - 1]
  BY DEF Runs
<1>5. todo[l] - 1 \in Nat
  BY <1>3, <1>4
<1>6. todo' \in [Loops -> Nat] /\ todo'[l] = todo[l] - 1
      /\ \A i \in Loops : i # l => todo'[i] = todo[i]
  BY <1>3, <1>4, <1>5
<1>7. todo'[l] <= Len(queue'[l])
  BY <1>2, <1>3, <1>6 DEF Shrunk
<1>8. \A i \in Loops : i # l => todo'[i] <= Len(queue'[i])
  BY <1>2, <1>3, <1>6 DEF Shrunk
<1> QED BY <1>6, <1>7, <1>8 DEF RoundInv

\* Functors that bring a connection up or down, and those that do not.
Heavy == {"established", "remove", "destroyed"}
Light == ConnOps \ Heavy

\* n is the same connection, in the same part of its life.
Kept(k, n) ==
    /\ k.chan = "new" => n = k
    /\ n.chan = k.chan /\ n.ups = k.ups /\ n.downs = k.downs
    /\ \/ n.state_ = k.state_
       \/ k.state_ = "connected" /\ n.state_ = "disconnecting"
    /\ k.state_ = "disconnected" => n.events = k.events

\* No functor that brings a connection up or down comes or goes.
Quiet(rem, add) ==
    \A l \in Loops :
        /\ \A f \in rem[l] : f.op \notin Heavy
        /\ \A f \in add[l] :
            \/ /\ f \in Functors /\ f.op \in Light
               /\ loopOf[f.c] = l /\ conn[f.c].chan # "new"
            \/ f \in Functors /\ f.op \in {"buildAndRun", "listen"} /\ l = Base

LEMMA QuietQueued ==
    ASSUME NEW rem, NEW add, QueueStep(rem, add), Quiet(rem, add), NEW c,
           NEW op \in Heavy, Queued(c, {op})
    PROVE  Queued(c, {op})'
<1>1. PICK l \in Loops : \E f \in Elems(queue[l]) : f.op \in {op} /\ f.c = c
  BY QueuedIs
<1> PICK f \in Elems(queue[l]) : f.op \in {op} /\ f.c = c
  BY <1>1
<1>2. f \notin rem[l]
  BY <1>1 DEF Quiet
<1>3. f \in Elems(queue'[l])
  BY <1>2 DEF QueueStep, QueueRel, Moves
<1> QED BY <1>1, <1>3, QueuedIs

LEMMA LightStep ==
    ASSUME TypeOK, FunctorInv, ConnInv, NEW rem, NEW add, QueueStep(rem, add),
           Quiet(rem, add), \A c \in Conns : Kept(conn[c], conn'[c]),
           UNCHANGED <<loopOf, conns_>>, server' = "alive" <=> server = "alive",
           \A c \in held' : conn[c].chan # "new",
           call' # NoCall => conn[call'.c].chan # "new"
    PROVE  FunctorInv' /\ ConnInv'
<1>1. ASSUME NEW l \in Loops, NEW f \in Elems(queue'[l]) PROVE FunctorOK(l, f)'
  <2>1. CASE f \in Elems(queue[l])
    <3>1. FunctorOK(l, f) /\ f.op \in ConnOps \cup {"buildAndRun", "listen"}
          /\ (f.op \in ConnOps => f.c \in Conns)
      BY <2>1, ElemsAre DEF FunctorInv
    <3>2. f.op = "destroyed" /\ Queued(f.c, {"established"})
            => Queued(f.c, {"established"})'
      <4>1. "established" \in Heavy
        BY DEF Heavy
      <4> QED BY <4>1, QuietQueued
    <3>3. CASE f.op \in ConnOps
      <4>1. Kept(conn[f.c], conn'[f.c])
        BY <3>1, <3>3
      <4> QED BY <3>1, <3>2, <3>3, <4>1 DEF FunctorOK, Kept, ConnOps
    <3>4. CASE f.op \in {"buildAndRun", "listen"}
      BY <3>1, <3>4 DEF FunctorOK, ConnOps
    <3> QED BY <3>1, <3>3, <3>4
  <2>2. CASE f \notin Elems(queue[l])
    <3>1. f \in add[l]
      BY <2>2 DEF QueueStep, QueueRel, Moves
    <3>2. CASE f \in Functors /\ f.op \in {"buildAndRun", "listen"} /\ l = Base
      BY <3>2 DEF FunctorOK, ConnOps
    <3>3. CASE /\ f \in Functors /\ f.op \in Light
               /\ loopOf[f.c] = l /\ conn[f.c].chan # "new"
      <4>1. f.c \in Conns
        BY <3>3, FunctorTypes DEF Light
      <4>2. Kept(conn[f.c], conn'[f.c])
        BY <4>1
      <4> QED BY <3>3, <4>2 DEF FunctorOK, ConnOps, Light, Heavy, Kept
    <3> QED BY <3>1, <3>2, <3>3 DEF Quiet
  <2> QED BY <2>1, <2>2
<1>2. FunctorInv'
  BY <1>1 DEF FunctorInv
<1>3. ASSUME NEW c \in Conns PROVE (Fresh(c) \/ Up(c) \/ Closing(c) \/ Down(c))'
  <2>1. Kept(conn[c], conn'[c])
    OBVIOUS
  <2>2. \A op \in Heavy : Queued(c, {op}) => Queued(c, {op})'
    BY QuietQueued
  <2>3. CASE Fresh(c)
    <3>1. conn'[c] = NewConnection /\ conn[c].chan = "new"
      BY <2>1, <2>3, NewFacts DEF Fresh, Kept
    <3>2. c \notin held' /\ (call' # NoCall => call'.c # c)
      BY <3>1
    <3>3. Queued(c, {"established"}) => Queued(c, {"established"})'
      BY <2>2 DEF Heavy
    <3>4. Fresh(c)'
      BY <2>3, <3>1, <3>2, <3>3 DEF Fresh
    <3> QED BY <3>4
  <2>4. CASE Up(c)
    <3>1. Up(c)'
      BY <2>1, <2>4 DEF Up, Kept
    <3> QED BY <3>1
  <2>5. CASE Closing(c)
    <3>1. /\ Queued(c, {"remove"}) => Queued(c, {"remove"})'
          /\ Queued(c, {"destroyed"}) => Queued(c, {"destroyed"})'
      BY <2>2 DEF Heavy
    <3>2. Closing(c)'
      BY <2>1, <2>5, <3>1 DEF Closing, Kept
    <3> QED BY <3>2
  <2>6. CASE Down(c)
    <3>1. Down(c)'
      BY <2>1, <2>6 DEF Down, Kept
    <3> QED BY <3>1
  <2> QED BY <2>3, <2>4, <2>5, <2>6 DEF ConnInv
<1>4. ConnInv'
  BY <1>3 DEF ConnInv
<1> QED BY <1>2, <1>4

LEMMA ServeKept ==
    ASSUME TypeOK, ServeInv, UNCHANGED <<serving_, started_, listening_>>,
           NEW rem, NEW add, QueueStep(rem, add),
           \A f \in rem[Base] : f.op \notin {"buildAndRun", "listen"},
           \A f \in add[Base] : f.op \notin {"buildAndRun", "listen"}
    PROVE  ServeInv'
<1> DEFINE q == queue[Base]
           r == queue'[Base]
<1>1. Base \in Loops
  BY HomeLoops
<1>2. /\ \A f \in Elems(r) : f \in Elems(q) \/ f \in add[Base]
      /\ \A f \in Elems(q) : f \in Elems(r) \/ f \in rem[Base]
      /\ \A f, g : Prec(r, f, g) => Prec(q, f, g) \/ g \in add[Base]
  BY <1>1 DEF QueueStep, QueueRel, Moves
<1>3. q \in Seq(Functors)
  BY <1>1 DEF TypeOK
<1>4. \A f, g : Prec(q, f, g) => f \in Elems(q) /\ g \in Elems(q)
  <2> HIDE DEF q
  <2> QED BY <1>3, ElemsSeq
<1>5. /\ listening_ => started_
      /\ \A f \in Elems(q) : f.op \in {"buildAndRun", "listen"} => serving_
      /\ \A f \in Elems(q) : f.op = "listen" =>
              started_ \/ \E g \in Elems(q) : g.op = "buildAndRun"
      /\ \A f, g \in Elems(q) : Prec(q, f, g) =>
              ~(f.op = "listen" /\ g.op = "buildAndRun")
  BY DEF ServeInv
<1> HIDE DEF q, r
<1>6. \A f \in Elems(r) : f.op \in {"buildAndRun", "listen"} => serving_
  BY <1>2, <1>5
<1>7. ASSUME NEW f \in Elems(r), f.op = "listen", ~started_
      PROVE  \E g \in Elems(r) : g.op = "buildAndRun"
  <2>1. f \in Elems(q)
    BY <1>2, <1>7
  <2>2. PICK g \in Elems(q) : g.op = "buildAndRun"
    BY <1>5, <1>7, <2>1
  <2> QED BY <1>2, <2>2
<1>8. ASSUME NEW f \in Elems(r), NEW g \in Elems(r), Prec(r, f, g)
      PROVE  ~(f.op = "listen" /\ g.op = "buildAndRun")
  BY <1>2, <1>4, <1>5, <1>8
<1> QED BY <1>5, <1>6, <1>7, <1>8 DEF ServeInv, r

\* Nothing is accepted by SendInLoop, and no message is sent.
LEMMA SendKept ==
    ASSUME TypeOK, SendInv, UNCHANGED sends, NEW rem, NEW add, QueueStep(rem, add),
           \A c \in Conns : conn'[c].accepted = conn[c].accepted,
           \A l \in Loops : \A f \in add[l] : f.op # "send",
           call' # NoCall => \/ call' = call /\ loopOf'[call.c] = loopOf[call.c]
                             \/ call'.op # "send" /\ loopOf'[call'.c] # NoLoop
    PROVE  SendInv'
<1>1. call' # NoCall => loopOf'[call'.c] # NoLoop
  BY DEF SendInv
<1>2. \A c \in Conns : LET a == conn'[c].accepted IN
        /\ \A i, j \in DOMAIN a : i < j /\ a[i][1] = a[j][1] => a[i][2] <= a[j][2]
        /\ \A i \in DOMAIN a : a[i][2] <= sends[a[i][1]]
  BY DEF SendInv
<1>3. call' # NoCall /\ call'.op = "send" => call' = call /\ call # NoCall /\ call.c \in Conns
  <2>1. call # NoCall => call.c \in Conns
    BY FunctorTypes DEF TypeOK, ConnOps
  <2> QED BY <2>1
<1>4. ASSUME NEW l \in Loops, NEW f \in Elems(queue'[l]), f.op = "send"
      PROVE  /\ f.m[1] = "user" /\ f.m[2] <= sends["user"]
             /\ LET a == conn'[f.c].accepted IN
                \A i \in DOMAIN a : a[i][1] = "user" => a[i][2] <= f.m[2]
             /\ call' # NoCall /\ call'.op = "send" /\ call'.c = f.c => f.m[2] <= call'.m[2]
  <2>1. f \in Elems(queue[l])
    BY <1>4 DEF QueueStep, QueueRel, Moves
  <2>2. f.c \in Conns
    BY <1>4, <2>1, ElemsAre DEF ConnOps
  <2>3. conn'[f.c].accepted = conn[f.c].accepted
    BY <2>2
  <2> QED BY <1>3, <1>4, <2>1, <2>3 DEF SendInv
<1>5. call' # NoCall /\ call'.op = "send" =>
        /\ call'.m[1] = "user" /\ call'.m[2] <= sends["user"]
        /\ LET a == conn'[call'.c].accepted IN
           \A i \in DOMAIN a : a[i][1] = "user" => a[i][2] <= call'.m[2]
  BY <1>3 DEF SendInv
<1> QED BY <1>1, <1>2, <1>4, <1>5 DEF SendInv

\* A connection that is up asks for POLLOUT as it should.
Asks(k) == k.state_ \in {"connected", "disconnecting"} /\ k.chan = "added" => WritingOK(k)

LEMMA OutputIs ==
    ASSUME OutputInv, NEW c \in Conns
    PROVE  StreamOK(conn[c]) /\ Asks(conn[c])
  BY DEF OutputInv, StreamOK, Asks, WritingIffBuffered, WritingOK

\* One connection changes.
LEMMA ConnBecomes ==
    ASSUME TypeOK, NEW c \in Conns, NEW n \in Connections, conn' = [conn EXCEPT ![c] = n]
    PROVE  /\ conn' \in [Conns -> Connections] /\ conn'[c] = n
           /\ \A d \in Conns : d # c => conn'[d] = conn[d]
  BY DEF TypeOK

LEMMA OutputKept ==
    ASSUME TypeOK, OutputInv, NEW c \in Conns, NEW n \in Connections,
           conn' = [conn EXCEPT ![c] = n], StreamOK(n), Asks(n)
    PROVE  OutputInv'
<1>1. conn'[c] = n /\ \A d \in Conns : d # c => conn'[d] = conn[d]
  BY ConnBecomes
<1>2. \A d \in Conns : StreamOK(conn'[d]) /\ Asks(conn'[d])
  BY <1>1, OutputIs
<1> QED BY <1>2 DEF OutputInv, StreamOK, Asks, WritingIffBuffered, WritingOK

LEMMA KeptSame ==
    ASSUME NEW k
    PROVE  Kept(k, k)
  BY DEF Kept

\* One connection changes, and stays in the same part of its life.
LEMMA LightConn ==
    ASSUME TypeOK, FunctorInv, ConnInv, OutputInv, NEW rem, NEW add,
           QueueStep(rem, add), Quiet(rem, add),
           NEW c \in Conns, NEW n \in Connections, conn' = [conn EXCEPT ![c] = n],
           Kept(conn[c], n), StreamOK(n), Asks(n),
           UNCHANGED <<loopOf, conns_>>, server' = "alive" <=> server = "alive", held' = held,
           call' # NoCall => call' = call \/ conn[call'.c].chan # "new"
    PROVE  FunctorInv' /\ ConnInv' /\ OutputInv' /\ conn' \in [Conns -> Connections]
<1>1. /\ conn' \in [Conns -> Connections] /\ conn'[c] = n
      /\ \A d \in Conns : d # c => conn'[d] = conn[d]
  BY ConnBecomes
<1>2. \A d \in Conns : Kept(conn[d], conn'[d])
  BY <1>1, KeptSame
<1>3. OutputInv'
  BY OutputKept
<1>4. /\ \A d \in held : conn[d].chan # "new"
      /\ call # NoCall => conn[call.c].chan # "new"
  <2>1. call # NoCall => call.c \in Conns
    BY FunctorTypes DEF TypeOK, ConnOps
  <2>2. \A d \in Conns : conn[d].chan = "new" => Fresh(d)
    BY DEF ConnInv, Up, Closing, Down
  <2> QED BY <2>1, <2>2 DEF Fresh, TypeOK
<1>5. (\A d \in held' : conn[d].chan # "new") /\ (call' # NoCall => conn[call'.c].chan # "new")
  BY <1>4
<1>6. FunctorInv' /\ ConnInv'
  BY <1>2, <1>5, LightStep
<1> QED BY <1>1, <1>3, <1>6

\* No connection changes, nor what is kept of it.
LEMMA LightStay ==
    ASSUME TypeOK, FunctorInv, ConnInv, OutputInv, NEW rem, NEW add,
           QueueStep(rem, add), Quiet(rem, add),
           UNCHANGED <<conn, loopOf, conns_>>, server' = "alive" <=> server = "alive",
           held' \subseteq held,
           call' # NoCall => call' = call
    PROVE  FunctorInv' /\ ConnInv' /\ OutputInv'
<1>1. \A d \in Conns : Kept(conn[d], conn'[d])
  BY KeptSame
<1>2. OutputInv'
  BY DEF OutputInv, WritingIffBuffered
<1>3. /\ \A d \in held : conn[d].chan # "new"
      /\ call # NoCall => conn[call.c].chan # "new"
  <2>1. call # NoCall => call.c \in Conns
    BY FunctorTypes DEF TypeOK, ConnOps
  <2>2. \A d \in Conns : conn[d].chan = "new" => Fresh(d)
    BY DEF ConnInv, Up, Closing, Down
  <2> QED BY <2>1, <2>2 DEF Fresh, TypeOK
<1>4. (\A d \in held' : conn[d].chan # "new") /\ (call' # NoCall => conn[call'.c].chan # "new")
  BY <1>3
<1>5. FunctorInv' /\ ConnInv'
  BY <1>1, <1>4, LightStep
<1> QED BY <1>2, <1>5

LEMMA NowhereQuiet == Quiet(Nowhere, Nowhere) /\ NewInOrder(Nowhere)
<1>1. \A l \in Loops : Nowhere[l] = {}
  BY DEF Nowhere
<1> QED BY <1>1 DEF Quiet, NewInOrder

-----------------------------------------------------------------------------
\* Every action keeps the invariant.  First those that leave the queues alone.

LEMMA SwapPendingKeeps ==
    ASSUME IInv, NEW l \in Loops, SwapPending(l)
    PROVE  IInv'
<1> USE DEF serveVars, roundVars, userVars
<1>1. TypeOK /\ RoundInv /\ ServerInv /\ ServeInv /\ FunctorInv /\ OrderInv /\ ConnInv
      /\ OutputInv /\ SendInv
  BY DEF IInv
<1>2. /\ UNCHANGED <<conn, loopOf, conns_, serving_, started_, listening_, loops_,
                     server, queue, quit_, held, call, sends>>
      /\ phase[l] = "handlers" /\ phase' = [phase EXCEPT ![l] = "pending"]
      /\ todo' = [todo EXCEPT ![l] = Len(queue[l])]
  BY DEF SwapPending
<1>3. TypeOK'
  BY <1>1, <1>2 DEF TypeOK
<1>4. RoundInv'
  <2>1. \A i \in Loops : Len(queue[i]) \in Nat
    BY <1>1, LenProperties DEF TypeOK
  <2> QED BY <1>1, <1>2, <2>1 DEF RoundInv
<1>5. ServerInv'
  BY <1>1, <1>2, HomeLoops DEF ServerInv, TypeOK
<1>6. ServeInv' /\ OrderInv'
  BY <1>1, <1>2 DEF ServeInv, OrderInv
<1>7. FunctorInv' /\ ConnInv' /\ OutputInv'
  BY <1>1, <1>2, StayStep, NowhereQuiet, LightStay
<1>8. SendInv'
  BY <1>1, <1>2 DEF SendInv
<1> QED BY <1>3, <1>4, <1>5, <1>6, <1>7, <1>8 DEF IInv

LEMMA PlainKeeps ==
    ASSUME IInv, QuitBase \/ ServerGone \/ \E c \in Conns : Release(c)
    PROVE  IInv'
<1> USE DEF serveVars, roundVars, userVars
<1>1. TypeOK /\ RoundInv /\ ServerInv /\ ServeInv /\ FunctorInv /\ OrderInv /\ ConnInv
      /\ OutputInv /\ SendInv
  BY DEF IInv
<1>2. /\ UNCHANGED <<conn, loopOf, conns_, serving_, started_, listening_, loops_,
                     queue, todo, phase, call, sends>>
      /\ server' \in {"alive", "destroying", "destroyed"}
      /\ server' = "alive" <=> server = "alive"
      /\ quit_' \in [Loops -> BOOLEAN] /\ \A l \in IoLoops : quit_'[l] => quit_[l]
      /\ held' \subseteq held
  <2>1. CASE QuitBase
    BY <1>1, <2>1, ServerAssumption, HomeLoops DEF QuitBase, TypeOK
  <2>2. CASE ServerGone
    BY <1>1, <2>2 DEF ServerGone, TypeOK
  <2>3. CASE \E c \in Conns : Release(c)
    BY <1>1, <2>3 DEF Release, TypeOK
  <2> QED BY <2>1, <2>2, <2>3
<1>3. TypeOK'
  BY <1>1, <1>2 DEF TypeOK
<1>4. RoundInv' /\ ServerInv' /\ ServeInv' /\ OrderInv'
  BY <1>1, <1>2 DEF RoundInv, ServerInv, ServeInv, OrderInv
<1>5. FunctorInv' /\ ConnInv' /\ OutputInv'
  BY <1>1, <1>2, StayStep, NowhereQuiet, LightStay
<1>6. SendInv'
  BY <1>1, <1>2 DEF SendInv
<1> QED BY <1>3, <1>4, <1>5, <1>6 DEF IInv

-----------------------------------------------------------------------------
\* Then those that leave every connection in the same part of its life.

\* f does not start the server.
NotServe(f) == f.op \notin {"buildAndRun", "listen"}

LEMMA LightAction ==
    ASSUME IInv, NEW rem, NEW add, QueueStep(rem, add), Quiet(rem, add), NewInOrder(add),
           \A f \in rem[Base] : NotServe(f), \A f \in add[Base] : NotServe(f),
           NEW c \in Conns, NEW n \in Connections, conn' = [conn EXCEPT ![c] = n],
           Kept(conn[c], n), StreamOK(n), Asks(n),
           UNCHANGED <<loopOf, conns_, serving_, started_, listening_, loops_, server,
                       phase, quit_, held>>,
           call' # NoCall => /\ call' \in Functors /\ call'.op \in {"send", "shutdown"}
                             /\ call' = call \/ conn[call'.c].chan # "new",
           sends' \in [{"user", "loop"} -> Nat], RoundInv', SendInv'
    PROVE  IInv'
<1>1. TypeOK /\ RoundInv /\ ServerInv /\ ServeInv /\ FunctorInv /\ OrderInv /\ ConnInv
      /\ OutputInv /\ SendInv
  BY DEF IInv
<1>2. FunctorInv' /\ ConnInv' /\ OutputInv' /\ conn' \in [Conns -> Connections]
  BY <1>1, LightConn
<1>3. OrderInv'
  BY <1>1, OrderKept
<1>4. ServeInv'
  BY <1>1, ServeKept DEF NotServe
<1>5. ServerInv'
  BY <1>1 DEF ServerInv
<1>6. queue' \in [Loops -> Seq(Functors)]
  BY DEF QueueStep, QueueRel
<1>7. TypeOK'
  BY <1>1, <1>2, <1>6 DEF TypeOK
<1> QED BY <1>2, <1>3, <1>4, <1>5, <1>7 DEF IInv

LEMMA LifeKept ==
    ASSUME NEW k, NEW n, k.chan # "new", SameLife(k, n),
           k.state_ = "disconnected" => n.events = k.events
    PROVE  Kept(k, n)
  BY DEF Kept, SameLife

LEMMA AsksSame ==
    ASSUME NEW k, NEW n, SameStream(k, n), n.events = k.events, n.chan = k.chan, Asks(k),
           \/ n.state_ = k.state_
           \/ k.state_ = "connected" /\ n.state_ = "disconnecting"
    PROVE  Asks(n)
  BY DEF Asks, SameStream, WritingOK, IsWriting

\* Facts of the connections the actions deal with.
LEMMA NotNew ==
    ASSUME IInv
    PROVE  /\ \A c \in held : c \in Conns /\ conn[c].chan # "new"
           /\ call # NoCall => /\ call \in Functors /\ call.c \in Conns
                               /\ conn[call.c].chan # "new"
           /\ \A c \in Conns :
                /\ conn[c] \in Connections /\ StreamOK(conn[c]) /\ Asks(conn[c])
                /\ conn[c].chan # "new" => loopOf[c] \in Loops
                /\ conn[c].state_ = "connected" => conn[c].chan = "added"
<1>1. TypeOK /\ ConnInv /\ OutputInv
  BY DEF IInv
<1>2. call # NoCall => call.c \in Conns
  BY <1>1, FunctorTypes DEF TypeOK, ConnOps
<1>3. \A d \in Conns : conn[d].chan = "new" => Fresh(d)
  BY <1>1 DEF ConnInv, Up, Closing, Down
<1>4. \A c \in held : c \in Conns /\ conn[c].chan # "new"
  BY <1>1, <1>3 DEF Fresh, TypeOK
<1>5. \A c \in Conns : conn[c].state_ = "connected" => Up(c)
  BY <1>1, NewFacts DEF ConnInv, Fresh, Closing, Down
<1>6. \A c \in Conns : conn[c].chan # "new" => loopOf[c] # NoLoop
  BY <1>1, NewFacts DEF ConnInv, Fresh, Up, Closing, Down
<1>7. \A c \in Conns : /\ conn[c] \in Connections /\ StreamOK(conn[c]) /\ Asks(conn[c])
                       /\ loopOf[c] \in Loops \cup {NoLoop}
  BY <1>1, OutputIs DEF TypeOK
<1>8. call # NoCall => call \in Functors /\ conn[call.c].chan # "new"
  BY <1>1, <1>2, <1>3 DEF Fresh, TypeOK
<1> QED BY <1>2, <1>4, <1>5, <1>6, <1>7, <1>8 DEF Up

LEMMA TwoMore ==
    ASSUME NEW S, NEW a \in Seq(S), NEW s \in Seq(S), NEW m
    PROVE  LET b == a \o s
               n == Len(a) IN
           Len(s) = 2 /\ s[1] = m /\ s[2] = m =>
           /\ b \in Seq(S) /\ n \in Nat
           /\ DOMAIN a = 1 .. n /\ DOMAIN b = 1 .. n + 2
           /\ \A i \in 1 .. n : b[i] = a[i]
           /\ b[n + 1] = m /\ b[n + 2] = m
<1> DEFINE b == a \o s
<1>2. /\ b \in Seq(S) /\ Len(b) = Len(a) + Len(s) /\ Len(a) \in Nat
      /\ \A i \in 1 .. Len(a) : b[i] = a[i]
      /\ \A i \in 1 .. Len(s) : b[Len(a) + i] = s[i]
  BY Joined
<1> HIDE DEF b
<1> SUFFICES ASSUME Len(s) = 2, s[1] = m, s[2] = m
             PROVE  /\ DOMAIN a = 1 .. Len(a) /\ DOMAIN b = 1 .. Len(a) + 2
                    /\ b[Len(a) + 1] = m /\ b[Len(a) + 2] = m
  BY <1>2 DEF b
<1>3. DOMAIN a = 1 .. Len(a) /\ DOMAIN b = 1 .. Len(a) + 2
  BY <1>2, LenProperties
<1>4. 1 \in 1 .. Len(s) /\ 2 \in 1 .. Len(s)
  OBVIOUS
<1>5. b[Len(a) + 1] = m /\ b[Len(a) + 2] = m
  BY <1>2, <1>4
<1> QED BY <1>3, <1>5

LEMMA WithMessage ==
    ASSUME NEW a \in Seq(Messages), NEW m \in Messages
    PROVE  LET b == a \o Bytes(m)
               n == Len(a) IN
           /\ b \in Seq(Messages) /\ n \in Nat
           /\ DOMAIN a = 1 .. n /\ DOMAIN b = 1 .. n + 2
           /\ \A i \in 1 .. n : b[i] = a[i]
           /\ b[n + 1] = m /\ b[n + 2] = m
<1> DEFINE s == Bytes(m)
<1>1. s \in Seq(Messages) /\ Len(s) = 2 /\ s[1] = m /\ s[2] = m
  <2>1. 0 \in 0 .. 2
    OBVIOUS
  <2> QED BY <2>1, MessageBytes
<1> HIDE DEF s
<1> QED BY <1>1, TwoMore DEF s

\* A message is accepted after the others of its thread.
Ordered(a) == \A i, j \in DOMAIN a : i < j /\ a[i][1] = a[j][1] => a[i][2] <= a[j][2]
Before(a, m) == \A i \in DOMAIN a : a[i][1] = m[1] => a[i][2] <= m[2]

LEMMA AcceptInOrder ==
    ASSUME NEW a \in Seq(Messages), NEW m \in Messages, Ordered(a), Before(a, m)
    PROVE  LET b == a \o Bytes(m) IN
           /\ \A i, j \in DOMAIN b : i < j /\ b[i][1] = b[j][1] => b[i][2] <= b[j][2]
           /\ \A i \in DOMAIN b : b[i] = m \/ \E j \in DOMAIN a : b[i] = a[j]
<1> DEFINE n == Len(a)
           b == a \o Bytes(m)
<1>1. /\ n \in Nat /\ DOMAIN a = 1 .. n /\ DOMAIN b = 1 .. n + 2
      /\ \A i \in 1 .. n : b[i] = a[i]
      /\ b[n + 1] = m /\ b[n + 2] = m
  BY WithMessage
<1>2. m[2] \in Nat
  BY DEF Messages
<1> HIDE DEF n, b
<1>3. \A i \in DOMAIN b : (i \in DOMAIN a /\ b[i] = a[i]) \/ (i > n /\ b[i] = m)
  <2> SUFFICES ASSUME NEW i \in 1 .. n + 2, ~(i \in 1 .. n)
               PROVE  i > n /\ b[i] = m
    BY <1>1
  <2>1. i > n /\ (i = n + 1 \/ i = n + 2)
    BY <1>1
  <2> QED BY <1>1, <2>1
<1>4. ASSUME NEW i \in DOMAIN b, NEW j \in DOMAIN b, i < j, b[i][1] = b[j][1]
      PROVE  b[i][2] <= b[j][2]
  <2>1. CASE i \in DOMAIN a /\ j \in DOMAIN a /\ b[i] = a[i] /\ b[j] = a[j]
    BY <1>4, <2>1 DEF Ordered
  <2>2. CASE i \in DOMAIN a /\ b[i] = a[i] /\ b[j] = m
    BY <1>4, <2>2 DEF Before
  <2>3. CASE i > n /\ b[i] = m
    <3>1. j > n
      BY <1>1, <1>4, <2>3
    <3>2. j \notin DOMAIN a
      BY <1>1, <3>1
    <3> QED BY <1>2, <1>3, <2>3, <3>2
  <2> QED BY <1>3, <2>1, <2>2, <2>3
<1> QED BY <1>3, <1>4 DEF b

LEMMA NowhereIs == \A l \in Loops : Nowhere[l] = {}
  BY DEF Nowhere

LEMMA AtIs ==
    ASSUME NEW l, NEW S
    PROVE  \A i \in Loops : At(l, S)[i] = IF i = l THEN S ELSE {}
  BY DEF At

\* The user thread and user code in the loop.
LEMMA ShutdownKeeps ==
    ASSUME IInv, NEW c \in Conns, ShutdownFromLoop(c) \/ Shutdown(c)
    PROVE  IInv'
<1> USE DEF serveVars, roundVars, userVars
<1>1. TypeOK /\ RoundInv /\ SendInv
  BY DEF IInv
<1> DEFINE k == conn[c]
<1>2. /\ k \in Connections /\ StreamOK(k) /\ Asks(k) /\ k.state_ = "connected"
      /\ k.chan = "added" /\ loopOf[c] \in Loops
  BY NotNew DEF ShutdownFromLoop, Shutdown, InLoop, UserMayCall
<1>3. UNCHANGED <<loopOf, conns_, serving_, started_, listening_, loops_, server,
                  queue, todo, phase, quit_, held, sends>>
  BY DEF ShutdownFromLoop, Shutdown
<1>4. PICK n \in Connections :
        /\ conn' = [conn EXCEPT ![c] = n] /\ SameStream(k, n) /\ n.state_ = "disconnecting"
        /\ n.chan = k.chan /\ n.ups = k.ups /\ n.downs = k.downs /\ n.events = k.events
  <2>1. \A t : LET m == ShutdownCas(k, t) IN
            /\ m \in Connections /\ SameStream(k, m) /\ m.state_ = "disconnecting"
            /\ m.chan = k.chan /\ m.ups = k.ups /\ m.downs = k.downs /\ m.events = k.events
    BY <1>2, CasFacts
  <2>2. CASE ShutdownFromLoop(c)
    <3> DEFINE m == ShutdownCas(k, "loop")
               n == ShutdownInLoop(m)
    <3>1. conn' = [conn EXCEPT ![c] = n]
      BY <2>2 DEF ShutdownFromLoop
    <3>2. /\ m \in Connections /\ SameStream(k, m) /\ m.state_ = "disconnecting"
          /\ m.chan = k.chan /\ m.ups = k.ups /\ m.downs = k.downs /\ m.events = k.events
      BY <2>1
    <3> HIDE DEF m
    <3>3. n \in Connections /\ SameStream(m, n) /\ SameLife(m, n) /\ n.events = m.events
      BY <3>2, ShutFacts
    <3> HIDE DEF n
    <3> QED BY <3>1, <3>2, <3>3 DEF SameStream, SameLife
  <2>3. CASE Shutdown(c)
    <3>1. conn' = [conn EXCEPT ![c] = ShutdownCas(k, "user")]
      BY <2>3 DEF Shutdown
    <3> QED BY <2>1, <3>1
  <2> QED BY <2>2, <2>3
<1>5. call' # NoCall =>
        \/ call' = call
        \/ call' \in Functors /\ call'.op = "shutdown" /\ call'.c = c
  <2>1. CASE ShutdownFromLoop(c)
    BY <2>1 DEF ShutdownFromLoop
  <2>2. CASE Shutdown(c)
    <3>1. "shutdown" \in ConnOps \ {"send"}
      BY DEF ConnOps
    <3>2. call' = Functor("shutdown", c)
      BY <2>2 DEF Shutdown
    <3> QED BY <3>1, <3>2, FunctorTypes
  <2> QED BY <2>1, <2>2
<1>6. QueueStep(Nowhere, Nowhere) /\ Grows
  BY <1>1, <1>3, StayStep
<1>7. RoundInv'
  BY <1>1, <1>3, <1>6, RoundGrows
<1>8. SendInv'
  <2>1. \A d \in Conns : conn'[d].accepted = conn[d].accepted
    BY <1>1, <1>4, ConnBecomes DEF SameStream
  <2>2. \A l \in Loops : \A f \in Nowhere[l] : f.op # "send"
    BY NowhereIs
  <2>3. call' # NoCall => \/ call' = call /\ loopOf'[call.c] = loopOf[call.c]
                          \/ call'.op # "send" /\ loopOf'[call'.c] # NoLoop
    BY <1>2, <1>3, <1>5, HomeLoops
  <2> QED BY <1>1, <1>3, <1>6, <2>1, <2>2, <2>3, SendKept
<1>9. Kept(k, n) /\ StreamOK(n) /\ Asks(n)
  <2>1. Kept(k, n)
    BY <1>2, <1>4 DEF Kept
  <2>2. StreamOK(n)
    BY <1>2, <1>4, SameStreamOK
  <2>3. Asks(n)
    BY <1>2, <1>4, AsksSame
  <2> QED BY <2>1, <2>2, <2>3
<1>10. /\ \A f \in Nowhere[Base] : NotServe(f)
       /\ sends' \in [{"user", "loop"} -> Nat]
       /\ call' # NoCall => /\ call' \in Functors /\ call'.op \in {"send", "shutdown"}
                            /\ call' = call \/ conn[call'.c].chan # "new"
  BY <1>1, <1>2, <1>3, <1>5, NowhereIs, HomeLoops DEF TypeOK
<1> QED BY <1>3, <1>4, <1>6, <1>7, <1>8, <1>9, <1>10, NowhereQuiet, LightAction

LEMMA SendKeeps ==
    ASSUME IInv, NEW c \in Conns, Send(c)
    PROVE  IInv'
<1> USE DEF serveVars, roundVars, userVars
<1>1. TypeOK /\ RoundInv /\ SendInv
  BY DEF IInv
<1> DEFINE k == conn[c]
           s == sends["user"]
           m == Message("user")
           n == Submitted(k, m)
<1>2. /\ k \in Connections /\ StreamOK(k) /\ Asks(k) /\ k.state_ = "connected"
      /\ k.chan = "added" /\ loopOf[c] \in Loops
  BY NotNew DEF Send, UserMayCall
<1>3. /\ UNCHANGED <<loopOf, conns_, serving_, started_, listening_, loops_, server,
                     queue, todo, phase, quit_, held>>
      /\ conn' = [conn EXCEPT ![c] = n]
      /\ call' = [op |-> "send", c |-> c, m |-> m]
      /\ sends' = [sends EXCEPT !["user"] = @ + 1]
  BY DEF Send, CountSend
<1>4. /\ s \in Nat /\ s + 1 \in Nat /\ m \in Messages /\ m[1] = "user" /\ m[2] = s + 1
      /\ sends' \in [{"user", "loop"} -> Nat] /\ sends'["user"] = s + 1
      /\ sends'["loop"] = sends["loop"]
  <2>1. s \in Nat /\ s + 1 \in Nat /\ m = <<"user", s + 1>>
    BY <1>1 DEF TypeOK, Message
  <2> QED BY <1>1, <1>3, <2>1 DEF TypeOK, Messages
<1> HIDE DEF m
<1>5. /\ n \in Connections /\ SameStream(k, n) /\ SameLife(k, n) /\ n.events = k.events
  BY <1>2, <1>4, SubmittedFacts
<1> HIDE DEF n
<1>6. call' \in Functors /\ call'.op = "send" /\ call'.c = c /\ call'.m = m
  BY <1>3, <1>4, FunctorTypes
<1>7. QueueStep(Nowhere, Nowhere) /\ Grows
  BY <1>1, <1>3, StayStep
<1>8. RoundInv'
  BY <1>1, <1>3, <1>7, RoundGrows
<1>9. SendInv'
  <2>1. \A d \in Conns : conn'[d].accepted = conn[d].accepted
    BY <1>1, <1>3, <1>5, ConnBecomes DEF SameStream
  <2>2. \A t \in {"user", "loop"} : sends[t] \in Nat /\ sends[t] <= sends'[t]
    BY <1>1, <1>4 DEF TypeOK
  <2>3. call' # NoCall => loopOf'[call'.c] # NoLoop
    BY <1>2, <1>3, <1>6, HomeLoops
  <2>4. ASSUME NEW d \in Conns
        PROVE  LET a == conn'[d].accepted IN
               /\ \A i, j \in DOMAIN a : i < j /\ a[i][1] = a[j][1] => a[i][2] <= a[j][2]
               /\ \A i \in DOMAIN a : a[i][2] <= sends'[a[i][1]]
    <3> DEFINE a == conn[d].accepted
    <3>1. a \in Seq(Messages)
      BY <1>1 DEF TypeOK, Connections
    <3>2. \A i \in DOMAIN a : a[i][1] \in {"user", "loop"} /\ a[i][2] \in Nat
      <4>1. \A i \in DOMAIN a : a[i] \in Messages
        BY <3>1, ElementOfSeq, LenProperties
      <4> QED BY <4>1 DEF Messages
    <3>3. \A i \in DOMAIN a : a[i][2] <= sends[a[i][1]]
      BY <1>1 DEF SendInv
    <3>4. \A i, j \in DOMAIN a : i < j /\ a[i][1] = a[j][1] => a[i][2] <= a[j][2]
      BY <1>1 DEF SendInv
    <3>5. conn'[d].accepted = a
      BY <2>1
    <3> HIDE DEF a
    <3>6. \A i \in DOMAIN a : a[i][2] <= sends'[a[i][1]]
      <4> SUFFICES ASSUME NEW i \in DOMAIN a PROVE a[i][2] <= sends'[a[i][1]]
        OBVIOUS
      <4> DEFINE t == a[i][1]
                 x == a[i][2]
      <4>1. t \in {"user", "loop"} /\ x \in Nat /\ x <= sends[t]
        BY <3>2, <3>3
      <4>2. sends[t] \in Nat /\ sends[t] <= sends'[t] /\ sends'[t] \in Nat
        BY <1>4, <2>2, <4>1
      <4> HIDE DEF t, x
      <4>3. x <= sends'[t]
        BY <4>1, <4>2
      <4> QED BY <4>3 DEF t, x
    <3> QED BY <3>4, <3>5, <3>6
  <2>5. ASSUME NEW l \in Loops, NEW f \in Elems(queue'[l]), f.op = "send"
        PROVE  /\ f.m[1] = "user" /\ f.m[2] <= sends'["user"]
               /\ LET a == conn'[f.c].accepted IN
                  \A i \in DOMAIN a : a[i][1] = "user" => a[i][2] <= f.m[2]
               /\ f.m[2] <= s + 1
    <3>1. f \in Elems(queue[l])
      BY <1>3
    <3>2. f \in Functors /\ f.c \in Conns
      BY <1>1, <2>5, <3>1, ElemsAre DEF ConnOps
    <3>3. conn'[f.c].accepted = conn[f.c].accepted
      BY <2>1, <3>2
    <3>4. /\ f.m[1] = "user" /\ f.m[2] <= s
          /\ LET a == conn[f.c].accepted IN
             \A i \in DOMAIN a : a[i][1] = "user" => a[i][2] <= f.m[2]
      BY <1>1, <2>5, <3>1 DEF SendInv
    <3>5. f.m \in Messages
      BY <2>5, <3>2, FunctorTypes
    <3>6. f.m[2] \in Nat
      BY <3>5 DEF Messages
    <3>7. f.m[2] <= s + 1
      BY <1>4, <3>4, <3>6
    <3> QED BY <1>4, <3>3, <3>4, <3>7
  <2>6. LET a == conn'[c].accepted IN
        \A i \in DOMAIN a : a[i][1] = "user" => a[i][2] <= s + 1
    BY <1>4, <2>4
  <2>7. s + 1 <= sends'["user"]
    BY <1>4
  <2> HIDE DEF s
  <2> QED BY <1>4, <1>6, <2>3, <2>4, <2>5, <2>6, <2>7 DEF SendInv
<1>10. Kept(k, n) /\ StreamOK(n) /\ Asks(n)
  <2>1. Kept(k, n)
    BY <1>2, <1>5 DEF Kept, SameLife
  <2>2. StreamOK(n)
    BY <1>2, <1>5, SameStreamOK
  <2>3. Asks(n)
    BY <1>2, <1>5, AsksSame DEF SameLife
  <2> QED BY <2>1, <2>2, <2>3
<1>11. /\ \A f \in Nowhere[Base] : NotServe(f)
       /\ call' # NoCall => /\ call' \in Functors /\ call'.op \in {"send", "shutdown"}
                            /\ call' = call \/ conn[call'.c].chan # "new"
  BY <1>2, <1>6, NowhereIs, HomeLoops
<1> QED BY <1>3, <1>4, <1>5, <1>7, <1>8, <1>9, <1>10, <1>11, NowhereQuiet, LightAction

LEMMA AcceptedTypes ==
    ASSUME NEW a \in Seq(Messages)
    PROVE  \A i \in DOMAIN a : /\ a[i] \in Messages
                               /\ a[i][1] \in {"user", "loop"} /\ a[i][2] \in Nat
<1>1. \A i \in DOMAIN a : a[i] \in Messages
  BY ElementOfSeq, LenProperties
<1> QED BY <1>1 DEF Messages

\* A message of connection c is accepted, in front of those still to come.
InFront(m, c) ==
    /\ \A l \in Loops : \A f \in Elems(queue'[l]) :
            f.op = "send" /\ f.c = c => m[2] <= f.m[2]
    /\ call # NoCall /\ call.op = "send" /\ call.c = c => m[2] <= call.m[2]

LEMMA SendAccepts ==
    ASSUME TypeOK, SendInv, NEW rem, NEW add, QueueStep(rem, add),
           \A l \in Loops : \A f \in add[l] : f.op # "send",
           NEW c \in Conns, NEW m \in Messages, UNCHANGED <<loopOf, call>>,
           conn'[c].accepted \in {conn[c].accepted, conn[c].accepted \o Bytes(m)},
           \A d \in Conns : d # c => conn'[d].accepted = conn[d].accepted,
           sends' \in [{"user", "loop"} -> Nat],
           \A t \in {"user", "loop"} : sends[t] <= sends'[t],
           m[2] <= sends'[m[1]],
           \A i \in DOMAIN conn[c].accepted :
                conn[c].accepted[i][1] = m[1] => conn[c].accepted[i][2] <= m[2],
           m[1] = "user" => InFront(m, c)
    PROVE  SendInv'
<1>1. ASSUME NEW d \in Conns
      PROVE  LET a == conn'[d].accepted IN
             /\ a \in Seq(Messages)
             /\ \A i, j \in DOMAIN a : i < j /\ a[i][1] = a[j][1] => a[i][2] <= a[j][2]
             /\ \A i \in DOMAIN a : \/ a[i] = m /\ d = c
                                    \/ \E j \in DOMAIN conn[d].accepted :
                                            a[i] = conn[d].accepted[j]
  <2> DEFINE a == conn[d].accepted
             b == conn'[d].accepted
  <2>1. a \in Seq(Messages)
    BY DEF TypeOK, Connections
  <2>2. \A i, j \in DOMAIN a : i < j /\ a[i][1] = a[j][1] => a[i][2] <= a[j][2]
    BY DEF SendInv
  <2>3. CASE b = a
    BY <2>1, <2>2, <2>3
  <2>4. CASE d = c /\ b = a \o Bytes(m)
    <3>1. \A i \in DOMAIN a : a[i][1] = m[1] => a[i][2] <= m[2]
      BY <2>4
    <3>2. b = a \o Bytes(m)
      BY <2>4
    <3> HIDE DEF a, b
    <3>3. /\ \A i, j \in DOMAIN b : i < j /\ b[i][1] = b[j][1] => b[i][2] <= b[j][2]
          /\ \A i \in DOMAIN b : b[i] = m \/ \E j \in DOMAIN a : b[i] = a[j]
      <4>1. Ordered(a) /\ Before(a, m)
        BY <2>2, <3>1 DEF Ordered, Before
      <4> QED BY <2>1, <3>2, <4>1, AcceptInOrder
    <3>4. b \in Seq(Messages)
      BY <2>1, <3>2, WithMessage
    <3> QED BY <2>4, <3>3, <3>4 DEF a, b
  <2> QED BY <2>3, <2>4
<1>2. ASSUME NEW d \in Conns, NEW i \in DOMAIN conn'[d].accepted
      PROVE  conn'[d].accepted[i][2] <= sends'[conn'[d].accepted[i][1]]
  <2> DEFINE x == conn'[d].accepted[i]
  <2>1. CASE x = m
    BY <2>1
  <2>2. ASSUME NEW j \in DOMAIN conn[d].accepted, x = conn[d].accepted[j]
        PROVE  x[2] <= sends'[x[1]]
    <3>1. conn[d].accepted \in Seq(Messages)
      BY DEF TypeOK, Connections
    <3>2. x[1] \in {"user", "loop"} /\ x[2] \in Nat
      BY <2>2, <3>1, AcceptedTypes
    <3>3. x[2] <= sends[x[1]]
      BY <2>2 DEF SendInv
    <3> DEFINE t == x[1]
               v == x[2]
    <3>4. /\ t \in {"user", "loop"} /\ v \in Nat /\ v <= sends[t] /\ sends[t] <= sends'[t]
          /\ sends[t] \in Nat /\ sends'[t] \in Nat
      BY <3>2, <3>3 DEF TypeOK
    <3> HIDE DEF t, v, x
    <3>5. v <= sends'[t]
      BY <3>4
    <3> QED BY <3>5 DEF t, v
  <2>3. \/ x = m \/ \E j \in DOMAIN conn[d].accepted : x = conn[d].accepted[j]
    BY <1>1
  <2> HIDE DEF x
  <2>4. x[2] <= sends'[x[1]]
    BY <2>1, <2>2, <2>3
  <2> QED BY <2>4 DEF x
<1>3. ASSUME NEW d \in Conns, NEW y \in Nat,
             \A i \in DOMAIN conn[d].accepted :
                conn[d].accepted[i][1] = "user" => conn[d].accepted[i][2] <= y,
             d = c /\ m[1] = "user" => m[2] <= y,
             NEW i \in DOMAIN conn'[d].accepted, conn'[d].accepted[i][1] = "user"
      PROVE  conn'[d].accepted[i][2] <= y
  BY <1>1, <1>3
<1>4. ASSUME NEW l \in Loops, NEW f \in Elems(queue'[l]), f.op = "send"
      PROVE  /\ f.m[1] = "user" /\ f.m[2] <= sends'["user"]
             /\ \A i \in DOMAIN conn'[f.c].accepted :
                   conn'[f.c].accepted[i][1] = "user" => conn'[f.c].accepted[i][2] <= f.m[2]
             /\ call # NoCall /\ call.op = "send" /\ call.c = f.c => f.m[2] <= call.m[2]
  <2>1. f \in Elems(queue[l])
    BY <1>4 DEF QueueStep, QueueRel, Moves
  <2>2. f \in Functors /\ f.c \in Conns
    BY <1>4, <2>1, ElemsAre DEF ConnOps
  <2>3. f.m[2] \in Nat
    BY <1>4, <2>2, FunctorTypes DEF Messages
  <2>4. /\ f.m[1] = "user" /\ f.m[2] <= sends["user"]
        /\ \A i \in DOMAIN conn[f.c].accepted :
              conn[f.c].accepted[i][1] = "user" => conn[f.c].accepted[i][2] <= f.m[2]
        /\ call # NoCall /\ call.op = "send" /\ call.c = f.c => f.m[2] <= call.m[2]
    BY <1>4, <2>1 DEF SendInv
  <2>5. f.c = c /\ m[1] = "user" => m[2] <= f.m[2]
    BY <1>4 DEF InFront
  <2>6. \A i \in DOMAIN conn'[f.c].accepted :
            conn'[f.c].accepted[i][1] = "user" => conn'[f.c].accepted[i][2] <= f.m[2]
    BY <1>3, <2>2, <2>3, <2>4, <2>5
  <2>7. sends["user"] \in Nat /\ sends'["user"] \in Nat /\ sends["user"] <= sends'["user"]
    BY DEF TypeOK
  <2>8. f.m[2] <= sends'["user"]
    BY <2>3, <2>4, <2>7
  <2> QED BY <2>4, <2>6, <2>8
<1>5. ASSUME call # NoCall, call.op = "send"
      PROVE  /\ call.m[1] = "user" /\ call.m[2] <= sends'["user"]
             /\ \A i \in DOMAIN conn'[call.c].accepted :
                   conn'[call.c].accepted[i][1] = "user"
                        => conn'[call.c].accepted[i][2] <= call.m[2]
  <2>1. call.c \in Conns /\ call.m \in Messages
    BY <1>5, FunctorTypes DEF TypeOK, ConnOps
  <2>2. call.m[2] \in Nat
    BY <2>1 DEF Messages
  <2>3. /\ call.m[1] = "user" /\ call.m[2] <= sends["user"]
        /\ \A i \in DOMAIN conn[call.c].accepted :
              conn[call.c].accepted[i][1] = "user" => conn[call.c].accepted[i][2] <= call.m[2]
    BY <1>5 DEF SendInv
  <2>4. call.c = c /\ m[1] = "user" => m[2] <= call.m[2]
    BY <1>5 DEF InFront
  <2>5. \A i \in DOMAIN conn'[call.c].accepted :
            conn'[call.c].accepted[i][1] = "user" => conn'[call.c].accepted[i][2] <= call.m[2]
    BY <1>3, <2>1, <2>2, <2>3, <2>4
  <2>6. sends["user"] \in Nat /\ sends'["user"] \in Nat /\ sends["user"] <= sends'["user"]
    BY DEF TypeOK
  <2>7. call.m[2] <= sends'["user"]
    BY <2>2, <2>3, <2>6
  <2> QED BY <2>3, <2>5, <2>7
<1>6. call' # NoCall => loopOf'[call'.c] # NoLoop
  BY DEF SendInv
<1>7. call' = call
  OBVIOUS
<1> QED BY <1>1, <1>2, <1>4, <1>5, <1>6, <1>7 DEF SendInv

\* What SendInLoop and HandleWrite post.
Posted(S, c) == \A f \in S : /\ f \in Functors /\ f.c = c
                             /\ f.op \in {"writeComplete", "highWater"}
RunsLight(rem) == \A l \in Loops : \A f \in rem[l] : f.op \in Light

LEMMA PostsQuiet ==
    ASSUME NEW c \in Conns, conn[c].chan # "new", loopOf[c] \in Loops, NEW S, Posted(S, c),
           NEW rem, RunsLight(rem)
    PROVE  LET add == At(loopOf[c], S) IN
           /\ Quiet(rem, add) /\ NewInOrder(add)
           /\ \A f \in rem[Base] : NotServe(f)
           /\ \A f \in add[Base] : NotServe(f)
           /\ \A l \in Loops : \A f \in add[l] : f.op # "send"
<1> DEFINE add == At(loopOf[c], S)
<1>1. \A l \in Loops : \A f \in add[l] :
        /\ f \in Functors /\ f.c = c /\ f.op \in {"writeComplete", "highWater"}
        /\ l = loopOf[c]
  BY AtIs DEF Posted
<1> HIDE DEF add
<1>2. Quiet(rem, add)
  BY <1>1 DEF Quiet, RunsLight, Light, Heavy, ConnOps
<1>3. NewInOrder(add)
  BY <1>1 DEF NewInOrder, MayPrecede
<1>4. /\ \A f \in rem[Base] : NotServe(f)
      /\ \A f \in add[Base] : NotServe(f)
  BY <1>1, HomeLoops DEF NotServe, RunsLight, Light, Heavy, ConnOps
<1>5. \A l \in Loops : \A f \in add[l] : f.op # "send"
  BY <1>1
<1> QED BY <1>2, <1>3, <1>4, <1>5 DEF add

LEMMA SameConn ==
    ASSUME TypeOK, NEW c \in Conns, UNCHANGED conn
    PROVE  conn' = [conn EXCEPT ![c] = conn[c]]
  BY DEF TypeOK

LEMMA PushCallKeeps ==
    ASSUME IInv, PushCall
    PROVE  IInv'
<1> USE DEF serveVars, roundVars, userVars
<1>1. TypeOK /\ RoundInv /\ SendInv /\ call # NoCall
  BY DEF IInv, PushCall
<1> DEFINE c == call.c
           l == loopOf[c]
           add == At(l, {call})
<1>2. /\ call \in Functors /\ c \in Conns /\ conn[c].chan # "new" /\ l \in Loops
      /\ conn[c] \in Connections /\ StreamOK(conn[c]) /\ Asks(conn[c])
  BY <1>1, NotNew
<1>3. call.op \in {"send", "shutdown"}
  BY <1>1 DEF TypeOK
<1>4. /\ UNCHANGED <<conn, loopOf, conns_, serving_, started_, listening_, loops_, server,
                     todo, phase, quit_, held, sends>>
      /\ queue' = Push(queue, l, call) /\ call' = NoCall
  BY DEF PushCall
<1>5. conn' = [conn EXCEPT ![c] = conn[c]]
  BY <1>1, <1>2, <1>4, SameConn
<1> HIDE DEF l
<1>6. QueueStep(Nowhere, add) /\ Grows
  BY <1>1, <1>2, <1>4, PushStep
<1>7. \A i \in Loops : \A f \in add[i] : f = call /\ i = l
  BY AtIs
<1> HIDE DEF add
<1>8. NewInOrder(add)
  <2>1. \A f \in Elems(queue[l]) : MayPrecede(f, call)
    BY <1>1, <1>2, <1>3 DEF MayPrecede, SendInv
  <2> QED BY <1>7, <2>1 DEF NewInOrder
<1>9. Quiet(Nowhere, add) /\ (\A f \in add[Base] : NotServe(f))
      /\ \A f \in Nowhere[Base] : NotServe(f)
  <2>1. call.op \in Light
    BY <1>3 DEF Light, Heavy, ConnOps
  <2> QED BY <1>2, <1>3, <1>7, <2>1, NowhereIs, HomeLoops DEF Quiet, NotServe, l
<1>10. SendInv'
  <2>1. ASSUME NEW i \in Loops, NEW f \in Elems(queue'[i]), f.op = "send"
        PROVE  /\ f.m[1] = "user" /\ f.m[2] <= sends["user"]
               /\ LET a == conn[f.c].accepted IN
                  \A j \in DOMAIN a : a[j][1] = "user" => a[j][2] <= f.m[2]
    <3>1. f \in Elems(queue[i]) \/ f = call
      BY <1>6, <1>7 DEF QueueStep, QueueRel, Moves
    <3> QED BY <1>1, <2>1, <3>1 DEF SendInv
  <2>2. \A d \in Conns : LET a == conn[d].accepted IN
            /\ \A i, j \in DOMAIN a : i < j /\ a[i][1] = a[j][1] => a[i][2] <= a[j][2]
            /\ \A i \in DOMAIN a : a[i][2] <= sends[a[i][1]]
    BY <1>1 DEF SendInv
  <2> QED BY <1>4, <2>1, <2>2 DEF SendInv
<1>11. RoundInv'
  BY <1>1, <1>4, <1>6, RoundGrows
<1>12. sends' \in [{"user", "loop"} -> Nat]
  BY <1>1, <1>4 DEF TypeOK
<1> HIDE DEF c
<1> QED BY <1>2, <1>4, <1>5, <1>6, <1>8, <1>9, <1>10, <1>11, <1>12, KeptSame, LightAction

LEMMA WithPostsIs ==
    ASSUME NEW q, NEW c \in Conns, NEW posts,
           \/ posts = <<>>
           \/ \E p \in {"writeComplete", "highWater"} : posts = <<p>>
    PROVE  \E s \in Seq(Functors) : /\ Distinct(s) /\ Posted(Elems(s), c)
                                    /\ WithPosts(q, c, posts) = Extend(q, loopOf[c], s)
<1> DEFINE s == [i \in DOMAIN posts |-> Functor(posts[i], c)]
<1>1. s \in Seq(Functors) /\ Distinct(s) /\ Posted(Elems(s), c)
  BY PostsAre DEF Posted
<1>2. WithPosts(q, c, posts) = Extend(q, loopOf[c], s)
  BY DEF WithPosts, Extend
<1> HIDE DEF s
<1> QED BY <1>1, <1>2

LEMMA SendFromLoopKeeps ==
    ASSUME IInv, NEW c \in Conns, SendFromLoop(c)
    PROVE  IInv'
<1> USE DEF serveVars, roundVars, userVars
<1>1. TypeOK /\ RoundInv /\ SendInv
  BY DEF IInv
<1> DEFINE k == conn[c]
           s == sends["loop"]
           m == Message("loop")
           n == Submitted(k, m)
<1>2. /\ k \in Connections /\ StreamOK(k) /\ Asks(k) /\ k.state_ = "connected"
      /\ k.chan = "added" /\ loopOf[c] \in Loops
  BY NotNew DEF SendFromLoop, InLoop
<1>3. /\ UNCHANGED <<loopOf, conns_, serving_, started_, listening_, loops_, server,
                     todo, phase, quit_, held, call>>
      /\ sends' = [sends EXCEPT !["loop"] = @ + 1]
      /\ \E o \in SendOutcomes(n, m) : /\ conn' = [conn EXCEPT ![c] = o.k]
                                       /\ queue' = WithPosts(queue, c, o.posts)
  BY DEF SendFromLoop, CountSend
<1>4. /\ s \in Nat /\ s + 1 \in Nat /\ m \in Messages /\ m[1] = "loop" /\ m[2] = s + 1
      /\ sends' \in [{"user", "loop"} -> Nat] /\ sends'["loop"] = s + 1
      /\ sends'["user"] = sends["user"]
  <2>1. s \in Nat /\ s + 1 \in Nat /\ m = <<"loop", s + 1>>
    BY <1>1 DEF TypeOK, Message
  <2> QED BY <1>1, <1>3, <2>1 DEF TypeOK, Messages
<1> HIDE DEF m
<1>5. /\ n \in Connections /\ SameStream(k, n) /\ SameLife(k, n) /\ n.events = k.events
  BY <1>2, <1>4, SubmittedFacts
<1> HIDE DEF n
<1>6. StreamOK(n) /\ WritingOK(n)
  <2>1. Asks(n)
    BY <1>2, <1>5, AsksSame DEF SameLife
  <2>2. WritingOK(n)
    BY <1>2, <1>5, <2>1 DEF Asks, SameLife
  <2> QED BY <1>2, <1>5, <2>2, SameStreamOK
<1>7. PICK o \in SendOutcomes(n, m) : /\ conn' = [conn EXCEPT ![c] = o.k]
                                      /\ queue' = WithPosts(queue, c, o.posts)
  BY <1>3
<1>8. /\ o.k \in Connections /\ SameLife(n, o.k) /\ StreamOK(o.k)
      /\ WritingOK(n) => WritingOK(o.k)
      /\ o.k.accepted \in {n.accepted, n.accepted \o Bytes(m)}
      /\ \/ o.posts = <<>>
         \/ \E p \in {"writeComplete", "highWater"} : o.posts = <<p>>
  BY <1>4, <1>5, <1>6, SendFacts
<1>9. PICK q \in Seq(Functors) : /\ Distinct(q) /\ Posted(Elems(q), c)
                                 /\ queue' = Extend(queue, loopOf[c], q)
  BY <1>7, <1>8, WithPostsIs
<1> DEFINE add == At(loopOf[c], Elems(q))
<1>10. QueueStep(Nowhere, add) /\ Grows
  BY <1>1, <1>2, <1>9, ExtendStep
<1>11. /\ Quiet(Nowhere, add) /\ NewInOrder(add)
       /\ \A f \in Nowhere[Base] : NotServe(f)
       /\ \A f \in add[Base] : NotServe(f)
       /\ \A l \in Loops : \A f \in add[l] : f.op # "send"
  <2>1. RunsLight(Nowhere)
    BY NowhereIs DEF RunsLight
  <2>2. conn[c].chan # "new"
    BY <1>2
  <2> QED BY <1>2, <1>9, <2>1, <2>2, PostsQuiet
<1> HIDE DEF add
<1>12. RoundInv'
  BY <1>1, <1>3, <1>10, RoundGrows
<1>13. SendInv'
  <2>1. conn'[c].accepted \in {k.accepted, k.accepted \o Bytes(m)}
        /\ \A d \in Conns : d # c => conn'[d].accepted = conn[d].accepted
    BY <1>1, <1>5, <1>7, <1>8, ConnBecomes DEF SameStream
  <2>2. \A t \in {"user", "loop"} : sends[t] \in Nat /\ sends[t] <= sends'[t]
    BY <1>1, <1>4 DEF TypeOK
  <2>3. k.accepted \in Seq(Messages)
    BY <1>2 DEF Connections
  <2>4. \A i \in DOMAIN k.accepted : k.accepted[i][2] \in Nat
    <3> DEFINE a == k.accepted
    <3> HIDE DEF a
    <3>1. \A i \in DOMAIN a : a[i][2] \in Nat
      BY <2>3, AcceptedTypes DEF a
    <3> QED BY <3>1 DEF a
  <2>5. \A i \in DOMAIN k.accepted : k.accepted[i][2] <= sends[k.accepted[i][1]]
    BY <1>1 DEF SendInv
  <2>6. \A i \in DOMAIN k.accepted : k.accepted[i][1] = m[1] => k.accepted[i][2] <= m[2]
    BY <1>4, <2>4, <2>5
  <2>7. m[2] <= sends'[m[1]] /\ m[1] # "user"
    BY <1>4
  <2> QED BY <1>1, <1>3, <1>4, <1>10, <1>11, <2>1, <2>2, <2>6, <2>7, SendAccepts
<1>14. Kept(k, o.k) /\ Asks(o.k)
  <2>1. SameLife(k, o.k)
    BY <1>5, <1>8 DEF SameLife
  <2>2. Kept(k, o.k)
    BY <1>2, <2>1 DEF Kept, SameLife
  <2> QED BY <1>6, <1>8, <2>2 DEF Asks
<1>15. call' # NoCall => /\ call' \in Functors /\ call'.op \in {"send", "shutdown"}
                         /\ call' = call \/ conn[call'.c].chan # "new"
  BY <1>1, <1>3 DEF TypeOK
<1> DEFINE w == o.k
<1>16. w \in Connections /\ conn' = [conn EXCEPT ![c] = w] /\ Kept(k, w) /\ StreamOK(w) /\ Asks(w)
  BY <1>7, <1>8, <1>14
<1> HIDE DEF w
<1> QED BY <1>3, <1>4, <1>10, <1>11, <1>12, <1>13, <1>15, <1>16, LightAction

LEMMA WritableKeeps ==
    ASSUME IInv, NEW c \in Conns, Writable(c)
    PROVE  IInv'
<1> USE DEF serveVars, roundVars, userVars
<1>1. TypeOK /\ RoundInv /\ SendInv
  BY DEF IInv
<1> DEFINE k == conn[c]
<1>2. /\ k \in Connections /\ StreamOK(k) /\ Asks(k) /\ IsWriting(k)
      /\ k.chan = "added" /\ loopOf[c] \in Loops
  BY NotNew DEF Writable, Polled, IsWriting
<1>3. UNCHANGED <<loopOf, conns_, serving_, started_, listening_, loops_, server,
                  todo, phase, quit_, held, call, sends>>
  BY DEF Writable
<1>4. PICK n \in 0 .. ReadableBytes(k.outputBuffer_) :
        /\ conn' = [conn EXCEPT ![c] = HandleWrite(k, n)]
        /\ queue' = WithPosts(queue, c, IF n = ReadableBytes(k.outputBuffer_)
                                        THEN <<"writeComplete">> ELSE <<>>)
  BY DEF Writable
<1> DEFINE w == HandleWrite(k, n)
<1>5. /\ w \in Connections /\ SameLife(k, w) /\ WritingOK(w)
      /\ w.accepted = k.accepted /\ StreamOK(w)
  BY <1>2, WriteFacts
<1>6. conn' = [conn EXCEPT ![c] = w]
  BY <1>4
<1> HIDE DEF w
<1>7. PICK q \in Seq(Functors) : /\ Distinct(q) /\ Posted(Elems(q), c)
                                 /\ queue' = Extend(queue, loopOf[c], q)
  BY <1>4, WithPostsIs
<1> DEFINE add == At(loopOf[c], Elems(q))
<1>8. QueueStep(Nowhere, add) /\ Grows
  BY <1>1, <1>2, <1>7, ExtendStep
<1>9. /\ Quiet(Nowhere, add) /\ NewInOrder(add)
      /\ \A f \in Nowhere[Base] : NotServe(f)
      /\ \A f \in add[Base] : NotServe(f)
      /\ \A l \in Loops : \A f \in add[l] : f.op # "send"
  <2>1. RunsLight(Nowhere)
    BY NowhereIs DEF RunsLight
  <2>2. conn[c].chan # "new"
    BY <1>2
  <2> QED BY <1>2, <1>7, <2>1, <2>2, PostsQuiet
<1> HIDE DEF add
<1>10. RoundInv'
  BY <1>1, <1>3, <1>8, RoundGrows
<1>11. SendInv'
  <2>1. \A d \in Conns : conn'[d].accepted = conn[d].accepted
    BY <1>1, <1>5, <1>6, ConnBecomes
  <2> QED BY <1>1, <1>3, <1>8, <1>9, <2>1, SendKept
<1>12. k.state_ # "disconnected"
  <2>1. ConnInv
    BY DEF IInv
  <2>2. Up(c) \/ Closing(c)
    BY <1>2, <2>1, NewFacts DEF ConnInv, Fresh, Down
  <2> QED BY <1>2, <2>2 DEF Up, Closing, IsWriting
<1>13. Kept(k, w) /\ Asks(w)
  BY <1>2, <1>5, <1>12 DEF Kept, SameLife, Asks
<1>14. /\ call' # NoCall => /\ call' \in Functors /\ call'.op \in {"send", "shutdown"}
                            /\ call' = call \/ conn[call'.c].chan # "new"
       /\ sends' \in [{"user", "loop"} -> Nat]
  BY <1>1, <1>3 DEF TypeOK
<1> QED BY <1>3, <1>5, <1>6, <1>8, <1>9, <1>10, <1>11, <1>13, <1>14, LightAction

\* Functors about a connection that leave it in the same part of its life.
LightOps == {"shutdown", "writeComplete", "highWater", "send"}

LEMMA RunsOnConnection ==
    ASSUME IInv, NEW l \in Loops, NEW op \in ConnOps \ {"remove"}, Runs(l, op)
    PROVE  LET f == Head(queue[l]) IN
           /\ f \in Elems(queue[l]) /\ f \in Functors /\ f.op = op /\ f.c \in Conns
           /\ FunctorOK(l, f) /\ loopOf[f.c] = l
           /\ op \in LightOps => conn[f.c].chan # "new"
<1>1. TypeOK /\ RoundInv /\ FunctorInv
  BY DEF IInv
<1> DEFINE f == Head(queue[l])
<1>2. f \in Elems(queue[l]) /\ f \in Functors /\ f.op = op
  BY <1>1, RunStep
<1>3. FunctorOK(l, f)
  BY <1>1, <1>2 DEF FunctorInv
<1> HIDE DEF f
<1>4. f.c \in Conns
  BY <1>2, FunctorTypes
<1>5. loopOf[f.c] = l /\ (op \in LightOps => conn[f.c].chan # "new")
  BY <1>2, <1>3 DEF FunctorOK, ConnOps, LightOps
<1> QED BY <1>2, <1>3, <1>4, <1>5 DEF f

LEMMA RunPlainKeeps ==
    ASSUME IInv, NEW l \in Loops, RunOnConnection(l),
           Runs(l, "shutdown") \/ Runs(l, "writeComplete") \/ Runs(l, "highWater")
    PROVE  IInv'
<1> USE DEF serveVars, roundVars, userVars
<1>1. TypeOK /\ RoundInv /\ SendInv
  BY DEF IInv
<1> DEFINE f == Head(queue[l])
           c == f.c
           k == conn[c]
           rem == At(l, {f})
<1>2. PICK op \in {"shutdown", "writeComplete", "highWater"} : Runs(l, op)
  OBVIOUS
<1>3. op \in ConnOps \ {"remove"} /\ op \in LightOps
  BY DEF ConnOps, LightOps
<1>4. f.op = op /\ c \in Conns /\ loopOf[c] = l /\ k.chan # "new"
  BY <1>2, <1>3, RunsOnConnection
<1>5. k \in Connections /\ StreamOK(k) /\ Asks(k)
  BY <1>4, NotNew
<1>6. UNCHANGED <<loopOf, conns_, serving_, started_, listening_, loops_, server,
                  phase, quit_, held, call, sends>>
  BY <1>2 DEF RunOnConnection, Runs
<1>7. /\ queue' = Rest(l)
      /\ UNCHANGED conn \/ conn' = [conn EXCEPT ![c] = ShutdownInLoop(k)]
  <2>1. f.op # "send" /\ f.op # "destroyed"
    BY <1>4
  <2> QED BY <2>1 DEF RunOnConnection, Runs
<1>8. PICK n \in Connections : /\ conn' = [conn EXCEPT ![c] = n]
                               /\ SameStream(k, n) /\ SameLife(k, n) /\ n.events = k.events
  <2>1. CASE UNCHANGED conn
    <3>1. conn' = [conn EXCEPT ![c] = k]
      BY <1>1, <1>4, <2>1, SameConn
    <3> QED BY <1>5, <3>1 DEF SameStream, SameLife
  <2>2. CASE conn' = [conn EXCEPT ![c] = ShutdownInLoop(k)]
    BY <1>5, <2>2, ShutFacts
  <2> QED BY <1>7, <2>1, <2>2
<1>9. QueueStep(rem, Nowhere) /\ Shrunk(l)
  BY <1>1, <1>2, <1>7, PopStep
<1>10. \A i \in Loops : \A g \in rem[i] : g = f
  BY AtIs
<1> HIDE DEF rem
<1>11. RoundInv'
  BY <1>1, <1>2, <1>9, RoundShrunk
<1>12. /\ Quiet(rem, Nowhere) /\ NewInOrder(Nowhere)
       /\ \A g \in rem[Base] : NotServe(g)
       /\ \A g \in Nowhere[Base] : NotServe(g)
  <2>1. f.op \notin Heavy /\ NotServe(f)
    BY <1>4 DEF Heavy, NotServe
  <2> HIDE DEF f
  <2> QED BY <1>10, <2>1, NowhereIs, NowhereQuiet, HomeLoops DEF Quiet
<1>13. SendInv'
  <2>1. \A d \in Conns : conn'[d].accepted = conn[d].accepted
    BY <1>1, <1>4, <1>8, ConnBecomes DEF SameStream
  <2>2. \A i \in Loops : \A g \in Nowhere[i] : g.op # "send"
    BY NowhereIs
  <2> QED BY <1>1, <1>6, <1>9, <2>1, <2>2, SendKept
<1>14. Kept(k, n) /\ StreamOK(n) /\ Asks(n)
  <2>1. Kept(k, n)
    BY <1>4, <1>8, LifeKept
  <2>2. StreamOK(n)
    BY <1>5, <1>8, SameStreamOK
  <2>3. Asks(n)
    BY <1>5, <1>8, AsksSame DEF SameLife
  <2> QED BY <2>1, <2>2, <2>3
<1>15. /\ call' # NoCall => /\ call' \in Functors /\ call'.op \in {"send", "shutdown"}
                            /\ call' = call \/ conn[call'.c].chan # "new"
       /\ sends' \in [{"user", "loop"} -> Nat]
  BY <1>1, <1>6 DEF TypeOK
<1> HIDE DEF c
<1> QED BY <1>4, <1>6, <1>8, <1>9, <1>11, <1>12, <1>13, <1>14, <1>15, LightAction

LEMMA RunSendKeeps ==
    ASSUME IInv, NEW l \in Loops, RunOnConnection(l), Runs(l, "send")
    PROVE  IInv'
<1> USE DEF serveVars, roundVars, userVars
<1>1. TypeOK /\ RoundInv /\ SendInv /\ OrderInv /\ FunctorInv
  BY DEF IInv
<1> DEFINE f == Head(queue[l])
           c == f.c
           m == f.m
           k == conn[c]
           rem == At(l, {f})
<1>2. "send" \in ConnOps \ {"remove"} /\ "send" \in LightOps
  BY DEF ConnOps, LightOps
<1>3. /\ f.op = "send" /\ c \in Conns /\ loopOf[c] = l /\ k.chan # "new"
      /\ f \in Elems(queue[l]) /\ f \in Functors
  BY <1>2, RunsOnConnection
<1>4. m \in Messages
  BY <1>3, FunctorTypes
<1>5. k \in Connections /\ StreamOK(k) /\ Asks(k)
  BY <1>3, NotNew
<1>6. UNCHANGED <<loopOf, conns_, serving_, started_, listening_, loops_, server,
                  phase, quit_, held, call, sends>>
  BY DEF RunOnConnection, Runs
<1>7. PICK o \in SendOutcomes(k, m) : /\ conn' = [conn EXCEPT ![c] = o.k]
                                      /\ queue' = WithPosts(Rest(l), c, o.posts)
  BY <1>3 DEF RunOnConnection, Runs
<1>8. /\ o.k \in Connections /\ SameLife(k, o.k) /\ StreamOK(o.k)
      /\ k.state_ = "disconnected" => o.k.events = k.events
      /\ WritingOK(k) => WritingOK(o.k)
      /\ o.k.accepted \in {k.accepted, k.accepted \o Bytes(m)}
      /\ \/ o.posts = <<>>
         \/ \E p \in {"writeComplete", "highWater"} : o.posts = <<p>>
  <2> HIDE DEF k, m
  <2> QED BY <1>4, <1>5, SendFacts
<1>9. PICK q \in Seq(Functors) : /\ Distinct(q) /\ Posted(Elems(q), c)
                                 /\ queue' = Extend(Rest(l), loopOf[c], q)
  <2> HIDE DEF c
  <2> QED BY <1>3, <1>7, <1>8, WithPostsIs
<1> DEFINE add == At(loopOf[c], Elems(q))
<1>10. QueueStep(rem, add) /\ Shrunk(l)
  BY <1>1, <1>3, <1>9, PopExtendStep
<1>11. rem[l] = {f} /\ \A i \in Loops : \A g \in rem[i] : g = f
  BY AtIs
<1> HIDE DEF rem
<1>12. /\ Quiet(rem, add) /\ NewInOrder(add)
       /\ \A g \in rem[Base] : NotServe(g)
       /\ \A g \in add[Base] : NotServe(g)
       /\ \A i \in Loops : \A g \in add[i] : g.op # "send"
  <2>1. RunsLight(rem)
    BY <1>3, <1>11 DEF RunsLight, Light, Heavy, ConnOps
  <2> HIDE DEF c
  <2> QED BY <1>3, <1>9, <2>1, PostsQuiet
<1> HIDE DEF add
<1>13. RoundInv'
  BY <1>1, <1>10, RoundShrunk
<1>14. /\ m[1] = "user" /\ m[2] <= sends["user"]
       /\ \A i \in DOMAIN k.accepted :
            k.accepted[i][1] = "user" => k.accepted[i][2] <= m[2]
  BY <1>1, <1>3 DEF SendInv
<1>15. InFront(m, c)
  <2>1. ASSUME NEW i \in Loops, NEW g \in Elems(queue'[i]), g.op = "send", g.c = c
        PROVE  m[2] <= g.m[2]
    <3>1. g \in Elems(queue[i]) /\ g \notin add[i]
      BY <1>10, <1>12, <2>1 DEF QueueStep, QueueRel, Moves
    <3>2. FunctorOK(i, g)
      BY <1>1, <3>1 DEF FunctorInv
    <3>3. i = l
      BY <1>3, <2>1, <3>2 DEF FunctorOK, ConnOps
    <3>4. MayPrecede(f, g)
      <4> HIDE DEF f
      <4> QED BY <1>1, <1>10, <1>11, <2>1, <3>1, <3>3, RunFirst
    <3> QED BY <1>3, <2>1, <3>4 DEF MayPrecede, ConnOps
  <2>2. call # NoCall /\ call.op = "send" /\ call.c = c => m[2] <= call.m[2]
    BY <1>1, <1>3 DEF SendInv
  <2> QED BY <2>1, <2>2 DEF InFront
<1>16. SendInv'
  <2>1. conn'[c].accepted \in {k.accepted, k.accepted \o Bytes(m)}
        /\ \A d \in Conns : d # c => conn'[d].accepted = conn[d].accepted
    BY <1>1, <1>3, <1>7, <1>8, ConnBecomes
  <2>2. sends' \in [{"user", "loop"} -> Nat]
        /\ \A t \in {"user", "loop"} : sends[t] <= sends'[t]
    BY <1>1, <1>6 DEF TypeOK
  <2>3. m[2] <= sends'[m[1]]
    BY <1>6, <1>14
  <2>4. \A i \in DOMAIN conn[c].accepted :
            conn[c].accepted[i][1] = m[1] => conn[c].accepted[i][2] <= m[2]
    BY <1>14
  <2> HIDE DEF c, m
  <2> QED BY <1>1, <1>3, <1>4, <1>6, <1>10, <1>12, <1>15, <2>1, <2>2, <2>3, <2>4, SendAccepts
<1>17. Kept(k, o.k) /\ Asks(o.k)
  <2>1. Kept(k, o.k)
    BY <1>3, <1>8, LifeKept
  <2>2. Asks(o.k)
    BY <1>5, <1>8 DEF Asks, SameLife
  <2> QED BY <2>1, <2>2
<1>18. /\ call' # NoCall => /\ call' \in Functors /\ call'.op \in {"send", "shutdown"}
                            /\ call' = call \/ conn[call'.c].chan # "new"
       /\ sends' \in [{"user", "loop"} -> Nat]
  BY <1>1, <1>6 DEF TypeOK
<1> DEFINE w == o.k
<1>19. w \in Connections /\ conn' = [conn EXCEPT ![c] = w] /\ Kept(k, w) /\ StreamOK(w) /\ Asks(w)
  BY <1>7, <1>8, <1>17
<1> HIDE DEF w, c
<1> QED BY <1>3, <1>6, <1>10, <1>12, <1>13, <1>16, <1>18, <1>19, LightAction

-----------------------------------------------------------------------------
\* Starting the server.

LEMMA ServeAction ==
    ASSUME IInv, NEW rem, NEW add, QueueStep(rem, add), Quiet(rem, add), NewInOrder(add),
           \A l \in Loops : \A f \in add[l] : f.op # "send",
           UNCHANGED <<conn, loopOf, conns_, loops_, server, quit_, held, call, sends>>,
           serving_' \in BOOLEAN, started_' \in BOOLEAN, listening_' \in BOOLEAN,
           phase' \in [Loops -> {"none", "handlers", "pending", "exited"}],
           phase'[Base] = phase[Base], RoundInv', ServeInv'
    PROVE  IInv'
<1>1. TypeOK /\ RoundInv /\ ServerInv /\ ServeInv /\ FunctorInv /\ OrderInv /\ ConnInv
      /\ OutputInv /\ SendInv
  BY DEF IInv
<1>2. FunctorInv' /\ ConnInv' /\ OutputInv'
  BY <1>1, LightStay
<1>3. OrderInv'
  BY <1>1, OrderKept
<1>4. ServerInv'
  BY <1>1 DEF ServerInv
<1>5. queue' \in [Loops -> Seq(Functors)]
  BY DEF QueueStep, QueueRel
<1>6. TypeOK'
  BY <1>1, <1>5 DEF TypeOK
<1>7. SendInv'
  BY <1>1, SendKept
<1> QED BY <1>2, <1>3, <1>4, <1>6, <1>7 DEF IInv

LEMMA ListenAndServeKeeps ==
    ASSUME IInv, ListenAndServe
    PROVE  IInv'
<1> USE DEF serveVars, roundVars, userVars
<1>1. TypeOK /\ RoundInv /\ ServeInv
  BY DEF IInv
<1> DEFINE b == [op |-> "buildAndRun"]
           n == [op |-> "listen"]
           s == <<b, n>>
           add == At(Base, Elems(s))
<1>2. /\ UNCHANGED <<conn, loopOf, conns_, started_, listening_, loops_, server,
                     todo, phase, quit_, held, call, sends>>
      /\ ~serving_ /\ serving_' = TRUE
  BY DEF ListenAndServe
<1>3. queue' = Extend(queue, Base, s)
  BY DEF ListenAndServe, Extend
<1>4. b \in Functors /\ n \in Functors /\ b.op = "buildAndRun" /\ n.op = "listen"
  <2>1. b \in [op : {"buildAndRun", "listen"}] /\ n \in [op : {"buildAndRun", "listen"}]
    OBVIOUS
  <2> QED BY <2>1 DEF Functors
<1> HIDE DEF b, n
<1>5. s \in Seq(Functors) /\ DOMAIN s = 1 .. 2 /\ s[1] = b /\ s[2] = n
  BY <1>4
<1> HIDE DEF s
<1>6. Elems(s) = {b, n}
  <2>1. 1 .. 2 = {1, 2}
    OBVIOUS
  <2> QED BY <1>5, <2>1 DEF Elems
<1>7. \A f, g : Prec(s, f, g) => f = b /\ g = n
  <2>1. \A i, j \in 1 .. 2 : i < j => i = 1 /\ j = 2
    OBVIOUS
  <2> QED BY <1>5, <2>1 DEF Prec
<1>8. Distinct(s)
  BY <1>4, <1>7 DEF Distinct
<1>9. QueueStep(Nowhere, add) /\ Grows
  BY <1>1, <1>3, <1>5, <1>8, HomeLoops, ExtendStep
<1>10. \A l \in Loops : \A f \in add[l] :
         f \in Functors /\ f.op \in {"buildAndRun", "listen"} /\ l = Base
  BY <1>4, <1>6, AtIs
<1> HIDE DEF add
<1>11. /\ Quiet(Nowhere, add) /\ NewInOrder(add)
       /\ \A l \in Loops : \A f \in add[l] : f.op # "send"
  <2>1. Quiet(Nowhere, add)
    BY <1>10, NowhereIs DEF Quiet
  <2>2. NewInOrder(add)
    BY <1>10 DEF NewInOrder, MayPrecede, ConnOps
  <2> QED BY <1>10, <2>1, <2>2
<1>12. RoundInv'
  BY <1>1, <1>2, <1>9, RoundGrows
<1>13. ServeInv'
  <2> DEFINE q == queue[Base]
             r == queue'[Base]
  <2>1. Base \in Loops /\ q \in Seq(Functors)
    BY <1>1, HomeLoops DEF TypeOK
  <2>2. r = q \o s
    BY <1>1, <1>3, <2>1 DEF TypeOK, Extend
  <2>3. \A f \in Elems(q) : f.op \notin {"buildAndRun", "listen"}
    BY <1>1, <1>2 DEF ServeInv
  <2> HIDE DEF q, r
  <2>4. /\ Elems(r) = Elems(q) \cup Elems(s)
        /\ \A f, g : Prec(r, f, g) => \/ Prec(q, f, g) \/ Prec(s, f, g)
                                      \/ f \in Elems(q) /\ g \in Elems(s)
    BY <1>5, <2>1, <2>2, Extended
  <2>5. \A f, g : Prec(q, f, g) => f \in Elems(q) /\ g \in Elems(q)
    BY <2>1, ElemsSeq
  <2>6. \A f, g \in Elems(r) : Prec(r, f, g) => ~(f.op = "listen" /\ g.op = "buildAndRun")
    BY <1>4, <1>7, <2>3, <2>4, <2>5
  <2>7. b \in Elems(r)
    BY <1>6, <2>4
  <2>8. listening_ => started_
    BY <1>1 DEF ServeInv
  <2> QED BY <1>2, <1>4, <2>6, <2>7, <2>8 DEF ServeInv, r
<1>14. /\ serving_' \in BOOLEAN /\ started_' \in BOOLEAN /\ listening_' \in BOOLEAN
       /\ phase' \in [Loops -> {"none", "handlers", "pending", "exited"}]
  BY <1>1, <1>2 DEF TypeOK
<1> QED BY <1>2, <1>9, <1>11, <1>12, <1>13, <1>14, ServeAction

LEMMA StartKeeps ==
    ASSUME IInv, NEW l \in Loops, BuildAndRun(l) \/ Listen(l)
    PROVE  IInv'
<1> USE DEF serveVars, roundVars, userVars
<1>1. TypeOK /\ RoundInv /\ ServeInv /\ FunctorInv
  BY DEF IInv
<1> DEFINE f == Head(queue[l])
           rem == At(l, {f})
           q == queue[Base]
           r == queue'[Base]
<1>2. PICK op \in {"buildAndRun", "listen"} : Runs(l, op)
  BY DEF BuildAndRun, Listen
<1>3. f \in Elems(queue[l]) /\ f \in Functors /\ f.op = op
  BY <1>1, <1>2, RunStep
<1>4. FunctorOK(l, f)
  BY <1>1, <1>3 DEF FunctorInv
<1>5. l = Base
  BY <1>3, <1>4 DEF FunctorOK
<1>6. queue' = Rest(l)
  BY DEF BuildAndRun, Listen
<1>7. QueueStep(rem, Nowhere) /\ Shrunk(l)
  BY <1>1, <1>2, <1>6, PopStep
<1>8. (\A i \in Loops : \A g \in rem[i] : g = f) /\ rem[l] = {f}
  BY AtIs
<1> HIDE DEF rem
<1>9. RoundInv'
  BY <1>1, <1>2, <1>7, RoundShrunk
<1>10. /\ Quiet(rem, Nowhere) /\ NewInOrder(Nowhere)
       /\ \A i \in Loops : \A g \in Nowhere[i] : g.op # "send"
  <2>1. f.op \notin Heavy
    BY <1>3 DEF Heavy
  <2> HIDE DEF f
  <2> QED BY <1>8, <2>1, NowhereIs, NowhereQuiet DEF Quiet
<1>11. /\ UNCHANGED <<conn, loopOf, conns_, serving_, loops_, server, quit_, held, call, sends>>
       /\ started_ => started_'
  BY DEF BuildAndRun, Listen, Runs
<1>12. /\ \A g \in Elems(r) : g \in Elems(q)
       /\ \A g \in Elems(q) : g \in Elems(r) \/ g = f
       /\ \A g, h : Prec(r, g, h) => Prec(q, g, h)
       /\ \A g \in Elems(r) : Prec(q, f, g)
  <2>1. Moves(q, r, rem[Base], Nowhere[Base]) /\ Nowhere[Base] = {} /\ rem[Base] = {f}
    BY <1>5, <1>7, <1>8, NowhereIs DEF QueueStep, QueueRel
  <2> QED BY <2>1 DEF Moves
<1>13. started_'
  <2>1. CASE BuildAndRun(l)
    BY <2>1 DEF BuildAndRun
  <2>2. CASE Listen(l)
    <3>1. f.op = "listen"
      BY <2>2 DEF Listen, Runs
    <3>2. started_ \/ \E g \in Elems(q) : g.op = "buildAndRun"
      BY <1>1, <1>3, <1>5, <3>1 DEF ServeInv
    <3>3. ASSUME NEW g \in Elems(q), g.op = "buildAndRun" PROVE FALSE
      <4>1. Prec(q, f, g)
        BY <1>12, <3>1, <3>3
      <4> QED BY <1>1, <1>3, <1>5, <3>1, <3>3, <4>1 DEF ServeInv
    <3> QED BY <1>11, <3>2, <3>3
  <2> QED BY <2>1, <2>2
<1>14. ServeInv'
  <2>1. /\ \A g \in Elems(q) : g.op \in {"buildAndRun", "listen"} => serving_
        /\ \A g, h \in Elems(q) : Prec(q, g, h) =>
                ~(g.op = "listen" /\ h.op = "buildAndRun")
    BY <1>1 DEF ServeInv
  <2> HIDE DEF q, r
  <2>2. /\ \A g \in Elems(r) : g.op \in {"buildAndRun", "listen"} => serving_
        /\ \A g, h \in Elems(r) : Prec(r, g, h) =>
                ~(g.op = "listen" /\ h.op = "buildAndRun")
    BY <1>12, <2>1
  <2> QED BY <1>11, <1>13, <2>2 DEF ServeInv, r
<1>15. /\ serving_' \in BOOLEAN /\ started_' \in BOOLEAN /\ listening_' \in BOOLEAN
       /\ phase' \in [Loops -> {"none", "handlers", "pending", "exited"}]
       /\ phase'[Base] = phase[Base]
  <2>1. CASE BuildAndRun(l)
    <3>1. Base \notin loops_ /\ Base \in Loops
      BY <1>1, ServerAssumption, HomeLoops DEF TypeOK
    <3> QED BY <1>1, <2>1, <3>1 DEF TypeOK, BuildAndRun
  <2>2. CASE Listen(l)
    BY <1>1, <2>2 DEF TypeOK, Listen
  <2> QED BY <2>1, <2>2
<1> QED BY <1>7, <1>9, <1>10, <1>11, <1>14, <1>15, ServeAction

-----------------------------------------------------------------------------
\* Then those that bring a connection up or down.

\* The functors in S, of each loop, bring connection c up or down.
About(S, c) == \A l \in Loops : \A f \in S[l] : f \in Functors /\ f.op \in Heavy /\ f.c = c

\* Nothing changes for the other connections.
OthersStay(c) ==
    /\ \A d \in Conns : d # c => /\ conn'[d] = conn[d] /\ loopOf'[d] = loopOf[d]
                                 /\ d \in conns_' <=> d \in conns_
                                 /\ d \in held' <=> d \in held
    /\ UNCHANGED <<server, call>>

Alive(c) == Fresh(c) \/ Up(c) \/ Closing(c) \/ Down(c)

LEMMA OtherQueued ==
    ASSUME NEW rem, NEW add, QueueStep(rem, add), NEW c, About(rem, c), NEW d, d # c,
           NEW ops, Queued(d, ops)
    PROVE  Queued(d, ops)'
<1>1. PICK l \in Loops : \E f \in Elems(queue[l]) : f.op \in ops /\ f.c = d
  BY QueuedIs
<1> PICK f \in Elems(queue[l]) : f.op \in ops /\ f.c = d
  BY <1>1
<1>2. f \notin rem[l]
  BY DEF About
<1>3. f \in Elems(queue'[l])
  BY <1>2 DEF QueueStep, QueueRel, Moves
<1> QED BY <1>3, QueuedIs

LEMMA HeavyStep ==
    ASSUME TypeOK, FunctorInv, ConnInv, NEW rem, NEW add, QueueStep(rem, add),
           NEW c \in Conns, About(rem, c), About(add, c), OthersStay(c), Alive(c)',
           \A l \in Loops : \A f \in Elems(queue'[l]) :
                f.op \in ConnOps /\ f.c = c => FunctorOK(l, f)'
    PROVE  FunctorInv' /\ ConnInv'
<1>1. ASSUME NEW l \in Loops, NEW f \in Elems(queue'[l]) PROVE FunctorOK(l, f)'
  <2>1. CASE f.op \in ConnOps /\ f.c = c
    BY <2>1
  <2>2. CASE ~(f.op \in ConnOps /\ f.c = c)
    <3>1. f \in Elems(queue[l])
      <4>1. f \notin add[l]
        BY <2>2 DEF About, Heavy, ConnOps
      <4> QED BY <4>1 DEF QueueStep, QueueRel, Moves
    <3>2. FunctorOK(l, f) /\ f.op \in ConnOps \cup {"buildAndRun", "listen"}
          /\ (f.op \in ConnOps => f.c \in Conns)
      BY <3>1, ElemsAre DEF FunctorInv
    <3>3. CASE f.op \in ConnOps
      <4>1. f.c # c /\ f.c \in Conns
        BY <2>2, <3>2, <3>3
      <4>2. Queued(f.c, {"established"}) => Queued(f.c, {"established"})'
        BY <4>1, OtherQueued
      <4>3. /\ conn'[f.c] = conn[f.c] /\ loopOf'[f.c] = loopOf[f.c]
            /\ f.c \in conns_' <=> f.c \in conns_
            /\ server' = server
        BY <4>1 DEF OthersStay
      <4> QED BY <3>2, <4>2, <4>3 DEF FunctorOK
    <3>4. CASE f.op \in {"buildAndRun", "listen"}
      BY <3>2, <3>4 DEF FunctorOK, ConnOps
    <3> QED BY <3>2, <3>3, <3>4
  <2> QED BY <2>1, <2>2
<1>2. FunctorInv'
  BY <1>1 DEF FunctorInv
<1>3. ASSUME NEW d \in Conns PROVE Alive(d)'
  <2>1. CASE d = c
    BY <2>1
  <2>2. CASE d # c
    <3>1. \A op : Queued(d, {op}) => Queued(d, {op})'
      BY <2>2, OtherQueued
    <3>2. /\ conn'[d] = conn[d] /\ loopOf'[d] = loopOf[d]
          /\ d \in conns_' <=> d \in conns_
          /\ d \in held' <=> d \in held
          /\ server' = server /\ call' = call
      BY <2>2 DEF OthersStay
    <3>3. /\ Fresh(d) => Fresh(d)'
          /\ Up(d) => Up(d)'
          /\ Closing(d) => Closing(d)'
          /\ Down(d) => Down(d)'
      <4>1. Fresh(d) => Fresh(d)'
        BY <3>1, <3>2 DEF Fresh
      <4>2. Up(d) => Up(d)'
        BY <3>2 DEF Up
      <4>3. Closing(d) => Closing(d)'
        BY <3>1, <3>2 DEF Closing
      <4>4. Down(d) => Down(d)'
        BY <3>2 DEF Down
      <4> QED BY <4>1, <4>2, <4>3, <4>4
    <3> QED BY <3>3 DEF ConnInv, Alive
  <2> QED BY <2>1, <2>2
<1>4. ConnInv'
  BY <1>3 DEF ConnInv, Alive
<1> QED BY <1>2, <1>4

LEMMA HeavyAction ==
    ASSUME IInv, NEW rem, NEW add, QueueStep(rem, add), NewInOrder(add),
           NEW c \in Conns, About(rem, c), About(add, c), OthersStay(c), Alive(c)',
           \A l \in Loops : \A f \in Elems(queue'[l]) :
                f.op \in ConnOps /\ f.c = c => FunctorOK(l, f)',
           NEW n \in Connections, conn' = [conn EXCEPT ![c] = n],
           StreamOK(n), Asks(n), n.accepted = conn[c].accepted,
           loopOf' \in [Conns -> Loops \cup {NoLoop}],
           loopOf[c] # NoLoop => loopOf'[c] = loopOf[c],
           conns_' \subseteq Conns, IsFiniteSet(conns_'),
           server # "alive" => conns_' \subseteq conns_, held' \subseteq Conns,
           UNCHANGED <<serving_, started_, listening_, loops_, phase, quit_, sends>>, RoundInv'
    PROVE  IInv'
<1>1. TypeOK /\ RoundInv /\ ServerInv /\ ServeInv /\ FunctorInv /\ OrderInv /\ ConnInv
      /\ OutputInv /\ SendInv
  BY DEF IInv
<1>2. FunctorInv' /\ ConnInv'
  BY <1>1, HeavyStep
<1>3. OrderInv'
  BY <1>1, OrderKept
<1>4. conn' \in [Conns -> Connections] /\ conn'[c] = n
      /\ \A d \in Conns : d # c => conn'[d] = conn[d]
  BY <1>1, ConnBecomes
<1>5. OutputInv'
  BY <1>1, OutputKept
<1>6. ServeInv'
  <2>1. /\ \A f \in rem[Base] : f.op \notin {"buildAndRun", "listen"}
        /\ \A f \in add[Base] : f.op \notin {"buildAndRun", "listen"}
    BY HomeLoops DEF About, Heavy
  <2> QED BY <1>1, <2>1, ServeKept
<1>7. server' = server /\ call' = call
  BY DEF OthersStay
<1>8. ServerInv'
  BY <1>1, <1>7 DEF ServerInv
<1>9. SendInv'
  <2>1. \A d \in Conns : conn'[d].accepted = conn[d].accepted
    BY <1>4
  <2>2. \A l \in Loops : \A f \in add[l] : f.op # "send"
    BY DEF About, Heavy
  <2>3. call # NoCall => call.c \in Conns /\ loopOf[call.c] # NoLoop
    BY <1>1, FunctorTypes DEF TypeOK, ConnOps, SendInv
  <2>4. call # NoCall => loopOf'[call.c] = loopOf[call.c]
    BY <2>3 DEF OthersStay
  <2> QED BY <1>1, <1>7, <2>1, <2>2, <2>4, SendKept
<1>10. queue' \in [Loops -> Seq(Functors)]
  BY DEF QueueStep, QueueRel
<1>11. TypeOK'
  BY <1>1, <1>4, <1>7, <1>10 DEF TypeOK
<1> QED BY <1>2, <1>3, <1>5, <1>6, <1>8, <1>9, <1>11 DEF IInv

LEMMA AboutAt ==
    ASSUME NEW l, NEW f \in Functors, f.op \in Heavy
    PROVE  About(At(l, {f}), f.c) /\ About(Nowhere, f.c)
  BY AtIs, NowhereIs DEF About

LEMMA RunEstablishedKeeps ==
    ASSUME IInv, NEW l \in Loops, RunEstablished(l)
    PROVE  IInv'
<1> USE DEF serveVars, roundVars, userVars
<1>1. TypeOK /\ RoundInv /\ FunctorInv /\ ConnInv /\ OrderInv
  BY DEF IInv
<1> DEFINE f == Head(queue[l])
           rem == At(l, {f})
<1>0. PICK c : c = f.c
  OBVIOUS
<1> DEFINE n == StepIntoEstablished(conn[c])
<1>2. /\ Runs(l, "established") /\ queue' = Rest(l) /\ conn' = [conn EXCEPT ![c] = n]
      /\ held' = held \cup {c}
      /\ UNCHANGED <<loopOf, conns_, serving_, started_, listening_, loops_, server,
                     phase, quit_, call, sends>>
  BY <1>0 DEF RunEstablished, Runs
<1>3. "established" \in ConnOps \ {"remove"} /\ "established" \in Heavy
  BY DEF ConnOps, Heavy
<1>4. /\ f \in Elems(queue[l]) /\ f \in Functors /\ f.op = "established" /\ c \in Conns
      /\ FunctorOK(l, f) /\ loopOf[c] = l
  BY <1>0, <1>2, <1>3, RunsOnConnection
<1>5. conn[c].chan = "new" /\ l # Base
  BY <1>0, <1>4 DEF FunctorOK
<1>6. Fresh(c)
  BY <1>1, <1>4, <1>5 DEF ConnInv, Up, Closing, Down
<1>7. conn[c] = NewConnection
  BY <1>6 DEF Fresh
<1>8. /\ n \in Connections /\ SameStream(conn[c], n)
      /\ n.chan = "added" /\ n.state_ = "connected" /\ n.events = {"read"}
      /\ n.ups = conn[c].ups + 1 /\ n.downs = conn[c].downs
  <2>1. conn[c] \in Connections
    BY <1>1, <1>4 DEF TypeOK
  <2> QED BY <2>1, EstablishedFacts
<1> HIDE DEF n
<1>9. n.ups = 1 /\ n.downs = 0
  BY <1>7, <1>8, NewFacts
<1>10. StreamOK(n) /\ Asks(n) /\ n.accepted = conn[c].accepted
  <2>1. StreamOK(n) /\ ReadableBytes(n.outputBuffer_) = 0
    BY <1>7, <1>8, NewFacts, SameStreamOK
  <2>2. WritingOK(n)
    BY <1>8, <2>1 DEF WritingOK, IsWriting
  <2> QED BY <1>8, <2>1, <2>2 DEF Asks, SameStream
<1>11. conn'[c] = n /\ \A d \in Conns : d # c => conn'[d] = conn[d]
  BY <1>1, <1>2, <1>4, <1>8, ConnBecomes
<1>12. QueueStep(rem, Nowhere) /\ Shrunk(l)
  BY <1>1, <1>2, PopStep
<1>13. About(rem, c) /\ About(Nowhere, c) /\ rem[l] = {f}
  BY <1>0, <1>3, <1>4, AboutAt, AtIs
<1> HIDE DEF rem
<1>14. RoundInv'
  BY <1>1, <1>2, <1>12, RoundShrunk
<1>15. Alive(c)'
  <2>1. loopOf[c] # NoLoop /\ loopOf[c] # Base
    BY <1>4, <1>5, HomeLoops
  <2>2. Up(c)'
    BY <1>2, <1>6, <1>8, <1>9, <1>11, <2>1 DEF Up, Fresh
  <2> QED BY <2>2 DEF Alive
<1>16. ASSUME NEW i \in Loops, NEW g \in Elems(queue'[i]), g.op \in ConnOps, g.c = c
       PROVE  FunctorOK(i, g)'
  <2>1. g \in Elems(queue[i])
    BY <1>12, NowhereIs DEF QueueStep, QueueRel, Moves
  <2>2. FunctorOK(i, g)
    BY <1>1, <2>1 DEF FunctorInv
  <2>3. g.op # "established"
    <3>1. ASSUME g.op = "established" PROVE FALSE
      <4>1. i = l
        BY <1>4, <1>16, <2>2, <3>1 DEF FunctorOK, ConnOps
      <4>2. MayPrecede(f, g)
        <5> HIDE DEF f
        <5> QED BY <1>1, <1>12, <1>13, <1>16, <4>1, NowhereIs, RunFirst
      <4> QED BY <1>0, <1>4, <1>16, <3>1, <4>2 DEF MayPrecede
    <3> QED BY <3>1
  <2>4. g.op = "destroyed"
    BY <1>5, <1>16, <2>2, <2>3 DEF FunctorOK
  <2>5. c \notin conns_ /\ loopOf[c] = i /\ i # Base
    BY <1>16, <2>2, <2>4 DEF FunctorOK, ConnOps
  <2>6. server # "alive"
    BY <1>4, <1>6, <2>5, HomeLoops DEF Fresh
  <2> QED BY <1>2, <1>8, <1>11, <1>16, <2>4, <2>5, <2>6 DEF FunctorOK, ConnOps
<1>17. OthersStay(c)
  BY <1>2, <1>11 DEF OthersStay
<1>18. /\ loopOf' \in [Conns -> Loops \cup {NoLoop}]
       /\ conns_' \subseteq Conns /\ IsFiniteSet(conns_') /\ held' \subseteq Conns
  BY <1>1, <1>2, <1>4 DEF TypeOK
<1> QED BY <1>2, <1>4, <1>8, <1>10, <1>12, <1>13, <1>14, <1>15, <1>16, <1>17, <1>18,
           NowhereQuiet, HeavyAction

LEMMA RunDestroyedKeeps ==
    ASSUME IInv, NEW l \in Loops, RunOnConnection(l), Runs(l, "destroyed")
    PROVE  IInv'
<1> USE DEF serveVars, roundVars, userVars
<1>1. TypeOK /\ RoundInv /\ FunctorInv /\ ConnInv /\ OrderInv
  BY DEF IInv
<1> DEFINE f == Head(queue[l])
           rem == At(l, {f})
<1>0. PICK c : c = f.c
  OBVIOUS
<1> DEFINE k == conn[c]
           n == StepIntoDestroyed(k)
<1>2. "destroyed" \in ConnOps \ {"remove"} /\ "destroyed" \in Heavy
  BY DEF ConnOps, Heavy
<1>3. /\ f \in Elems(queue[l]) /\ f \in Functors /\ f.op = "destroyed" /\ c \in Conns
      /\ FunctorOK(l, f) /\ loopOf[c] = l
  BY <1>0, <1>2, RunsOnConnection
<1>4. /\ queue' = Rest(l) /\ conn' = [conn EXCEPT ![c] = n]
      /\ UNCHANGED <<loopOf, conns_, serving_, started_, listening_, loops_, server,
                     phase, quit_, held, call, sends>>
  BY <1>0, <1>3 DEF RunOnConnection, Runs
<1>5. QueueStep(rem, Nowhere) /\ Shrunk(l)
  BY <1>1, <1>4, PopStep
<1>6. About(rem, c) /\ About(Nowhere, c) /\ rem[l] = {f}
  BY <1>0, <1>2, <1>3, AboutAt, AtIs
<1>7. \A i \in Loops : \A g \in rem[i] : g = f
  BY AtIs
<1> HIDE DEF rem
<1>8. RoundInv'
  BY <1>1, <1>5, RoundShrunk
<1>9. ASSUME NEW i \in Loops, NEW g \in Elems(queue[i]), g.c = c,
             g.op \in {"established", "destroyed"}, g # f
      PROVE  FALSE
  <2>1. i = l
    BY <1>1, <1>3, <1>9 DEF FunctorInv, FunctorOK, ConnOps
  <2>2. g \in Elems(queue'[l]) /\ g \notin Nowhere[l]
    BY <1>5, <1>7, <1>9, <2>1, NowhereIs DEF QueueStep, QueueRel, Moves
  <2>3. MayPrecede(f, g)
    <3> HIDE DEF f
    <3> QED BY <1>1, <1>5, <1>6, <2>2, RunFirst
  <2> QED BY <1>0, <1>3, <1>9, <2>3 DEF MayPrecede, ConnOps
<1>10. l # Base /\ c \notin conns_ /\ k.chan # "removed"
       /\ (server = "alive" => k.state_ = "disconnected")
  BY <1>0, <1>3 DEF FunctorOK
<1>11. k.chan # "new"
  <2>1. ASSUME k.chan = "new" PROVE FALSE
    <3>1. Queued(c, {"established"})
      BY <1>0, <1>3, <2>1 DEF FunctorOK
    <3>2. PICK i \in Loops : \E g \in Elems(queue[i]) : g.op \in {"established"} /\ g.c = c
      BY <3>1, QueuedIs
    <3>3. PICK g \in Elems(queue[i]) : g.op \in {"established"} /\ g.c = c
      BY <3>2
    <3> QED BY <1>3, <1>9, <3>2, <3>3
  <2> QED BY <2>1
<1>12. Up(c) \/ Closing(c)
  BY <1>1, <1>3, <1>10, <1>11, NewFacts DEF ConnInv, Fresh, Down
<1>13. k \in Connections /\ StreamOK(k)
  BY <1>3, NotNew
<1>14. /\ n \in Connections /\ SameStream(k, n)
       /\ n.chan = "removed" /\ n.ups = k.ups /\ n.downs = k.downs + 1
       /\ k.state_ = "connected" => n.state_ = "disconnected" /\ n.events = {}
       /\ k.state_ # "connected" => n.state_ = k.state_ /\ n.events = k.events
  <2> HIDE DEF k
  <2> QED BY <1>13, DestroyedFacts
<1> HIDE DEF n
<1>15. StreamOK(n) /\ Asks(n) /\ n.accepted = k.accepted
  <2>1. StreamOK(n)
    BY <1>13, <1>14, SameStreamOK
  <2> QED BY <1>14, <2>1 DEF Asks, SameStream
<1>16. conn'[c] = n /\ \A d \in Conns : d # c => conn'[d] = conn[d]
  BY <1>1, <1>3, <1>4, <1>14, ConnBecomes
<1>17. Alive(c)'
  <2>1. n.ups = 1 /\ n.downs = 1
    BY <1>12, <1>14 DEF Up, Closing
  <2>2. \/ n.state_ = "disconnected" /\ n.events = {}
        \/ n.state_ = "disconnecting" /\ server # "alive"
    BY <1>10, <1>12, <1>14 DEF Up, Closing
  <2>3. loopOf[c] # NoLoop
    BY <1>3, HomeLoops
  <2>4. Down(c)'
    BY <1>4, <1>10, <1>14, <1>16, <2>1, <2>2, <2>3 DEF Down
  <2> QED BY <2>4 DEF Alive
<1>18. ASSUME NEW i \in Loops, NEW g \in Elems(queue'[i]), g.op \in ConnOps, g.c = c
       PROVE  FunctorOK(i, g)'
  <2>1. g \in Elems(queue[i])
    BY <1>5, NowhereIs DEF QueueStep, QueueRel, Moves
  <2>2. FunctorOK(i, g)
    BY <1>1, <2>1 DEF FunctorInv
  <2>3. g.op \notin {"established", "destroyed"}
    <3>1. ASSUME g.op \in {"established", "destroyed"} PROVE FALSE
      <4>1. g = f
        BY <1>9, <1>18, <2>1, <3>1
      <4>2. i = l
        BY <1>3, <1>18, <2>2, <3>1 DEF FunctorOK, ConnOps
      <4>3. MayPrecede(f, g)
        <5> HIDE DEF f
        <5> QED BY <1>1, <1>5, <1>6, <1>18, <4>2, NowhereIs, RunFirst
      <4> QED BY <1>0, <1>3, <1>18, <3>1, <4>1, <4>3 DEF MayPrecede, ConnOps
    <3> QED BY <3>1
  <2>4. g.op = "remove" => server # "alive" /\ n.state_ = "disconnected"
    BY <1>10, <1>14, <1>18, <2>2 DEF FunctorOK
  <2> QED BY <1>4, <1>14, <1>16, <1>18, <2>2, <2>3, <2>4 DEF FunctorOK, ConnOps
<1>19. OthersStay(c)
  BY <1>4, <1>16 DEF OthersStay
<1>20. /\ loopOf' \in [Conns -> Loops \cup {NoLoop}]
       /\ conns_' \subseteq Conns /\ IsFiniteSet(conns_') /\ held' \subseteq Conns
  BY <1>1, <1>4 DEF TypeOK
<1> QED BY <1>3, <1>4, <1>5, <1>6, <1>8, <1>14, <1>15, <1>17, <1>18, <1>19, <1>20,
           NowhereQuiet, HeavyAction

LEMMA PopPushStep ==
    ASSUME TypeOK, RoundInv, NEW l \in Loops, NEW op, Runs(l, op),
           NEW j \in Loops, NEW g \in Functors, queue' = Push(Rest(l), j, g)
    PROVE  QueueStep(At(l, {Head(queue[l])}), At(j, {g})) /\ Shrunk(l)
<1>1. Rest(l) \in [Loops -> Seq(Functors)]
  BY RunStep DEF QueueRel
<1>2. <<g>> \in Seq(Functors) /\ Elems(<<g>>) = {g} /\ \A f, h : ~Prec(<<g>>, f, h)
  BY Single
<1> DEFINE s == <<g>>
<1>3. queue' = Extend(Rest(l), j, s) /\ s \in Seq(Functors) /\ Elems(s) = {g}
      /\ Distinct(s)
  BY <1>1, <1>2, PushIsExtend DEF Distinct
<1> HIDE DEF s
<1>4. QueueStep(At(l, {Head(queue[l])}), At(j, Elems(s))) /\ Shrunk(l)
  BY <1>3, PopExtendStep
<1> QED BY <1>3, <1>4

LEMMA RemoveKeeps ==
    ASSUME IInv, NEW l \in Loops, RemoveConnectionInLoop(l)
    PROVE  IInv'
<1> USE DEF serveVars, roundVars, userVars
<1>1. TypeOK /\ RoundInv /\ ServerInv /\ FunctorInv /\ ConnInv /\ OrderInv
  BY DEF IInv
<1> DEFINE f == Head(queue[l])
           rem == At(l, {f})
<1>2. PICK c : c = f.c
  OBVIOUS
<1> DEFINE g == Functor("destroyed", c)
           k == conn[c]
           j == loopOf[c]
           add == At(j, {g})
<1>3. /\ Runs(l, "remove") /\ queue' = Push(Rest(l), j, g) /\ conns_' = conns_ \ {c}
      /\ UNCHANGED <<conn, loopOf, serving_, started_, listening_, loops_, server,
                     phase, quit_, held, call, sends>>
  BY <1>2 DEF RemoveConnectionInLoop, Runs
<1>4. f \in Elems(queue[l]) /\ f \in Functors /\ f.op = "remove"
  BY <1>1, <1>3, RunStep
<1>5. c \in Conns
  BY <1>2, <1>4, FunctorTypes DEF ConnOps
<1>6. FunctorOK(l, f)
  BY <1>1, <1>4 DEF FunctorInv
<1>7. l = Base
  BY <1>4, <1>6 DEF FunctorOK
<1>8. server = "alive"
  BY <1>1, <1>3, <1>7 DEF ServerInv, Runs
<1>9. c \in conns_ /\ k.chan = "added" /\ k.state_ = "disconnected"
  BY <1>2, <1>4, <1>6, <1>8 DEF FunctorOK
<1>10. Closing(c)
  BY <1>1, <1>5, <1>9, NewFacts DEF ConnInv, Fresh, Up, Down
<1>11. j \in Loops /\ j # Base
  BY <1>1, <1>5, <1>10 DEF Closing, TypeOK
<1>12. g \in Functors /\ g.op = "destroyed" /\ g.c = c
  BY <1>5, FunctorTypes DEF ConnOps
<1> HIDE DEF g
<1>13. QueueStep(rem, add) /\ Shrunk(l)
  <2> HIDE DEF j
  <2> QED BY <1>1, <1>3, <1>11, <1>12, PopPushStep
<1>14. About(rem, c) /\ About(add, c)
  <2>1. "remove" \in Heavy /\ "destroyed" \in Heavy
    BY DEF Heavy
  <2> QED BY <1>2, <1>4, <1>12, <2>1, AboutAt
<1>15. rem[l] = {f} /\ add[j] = {g} /\ \A i \in Loops : \A h \in add[i] : h = g /\ i = j
  BY <1>11, AtIs
<1> HIDE DEF rem, add
<1>16. RoundInv'
  BY <1>1, <1>3, <1>13, RoundShrunk
<1>17. Alive(c)'
  <2>1. g \in Elems(queue'[j])
    BY <1>11, <1>13, <1>15 DEF QueueStep, QueueRel, Moves
  <2>2. Queued(c, {"destroyed"})'
    BY <1>11, <1>12, <2>1, QueuedIs
  <2>3. Closing(c)'
    BY <1>3, <1>10, <2>2 DEF Closing
  <2> QED BY <2>3 DEF Alive
<1>18. ASSUME NEW i \in Loops, NEW h \in Elems(queue'[i]), h.op \in ConnOps, h.c = c
       PROVE  FunctorOK(i, h)'
  <2>1. CASE h \in add[i]
    <3>1. h = g /\ i = j
      BY <1>15, <2>1
    <3> QED BY <1>3, <1>9, <1>11, <1>12, <3>1 DEF FunctorOK, ConnOps
  <2>2. CASE h \notin add[i]
    <3>1. h \in Elems(queue[i])
      BY <1>13, <2>2 DEF QueueStep, QueueRel, Moves
    <3>2. FunctorOK(i, h)
      BY <1>1, <3>1 DEF FunctorInv
    <3>3. h.op # "remove"
      <4>1. ASSUME h.op = "remove" PROVE FALSE
        <5>1. i = l
          BY <1>7, <3>2, <4>1 DEF FunctorOK
        <5>2. MayPrecede(f, h)
          <6> HIDE DEF f
          <6> QED BY <1>1, <1>13, <1>15, <1>18, <2>2, <5>1, RunFirst
        <5> QED BY <1>2, <1>4, <1>18, <4>1, <5>2 DEF MayPrecede
      <4> QED BY <4>1
    <3>4. h.op # "destroyed" /\ h.op # "established"
      BY <1>9, <1>18, <3>2 DEF FunctorOK
    <3> QED BY <1>3, <1>18, <3>2, <3>3, <3>4 DEF FunctorOK
  <2> QED BY <2>1, <2>2
<1>19. OthersStay(c)
  BY <1>3 DEF OthersStay
<1>20. /\ loopOf' \in [Conns -> Loops \cup {NoLoop}]
       /\ conns_' \subseteq Conns /\ IsFiniteSet(conns_') /\ held' \subseteq Conns
  BY <1>1, <1>3, FS_RemoveElement DEF TypeOK
<1>21. NewInOrder(add)
  <2>1. ASSUME NEW h \in Elems(queue[j]) PROVE MayPrecede(h, g)
    <3>1. FunctorOK(j, h)
      BY <1>1, <1>11 DEF FunctorInv
    <3>2. ~(h.op = "destroyed" /\ h.c = c)
      BY <1>9, <3>1 DEF FunctorOK
    <3> QED BY <1>12, <3>2 DEF MayPrecede
  <2> QED BY <1>15, <2>1 DEF NewInOrder
<1>22. /\ k \in Connections /\ StreamOK(k) /\ Asks(k)
       /\ conn' = [conn EXCEPT ![c] = k]
  BY <1>1, <1>3, <1>5, NotNew, SameConn
<1>23. server # "alive" => conns_' \subseteq conns_
  BY <1>8
<1> QED BY <1>3, <1>5, <1>13, <1>14, <1>16, <1>17, <1>18, <1>19, <1>20, <1>21, <1>22, <1>23,
           HeavyAction

LEMMA NewConnectionKeeps ==
    ASSUME IInv, NEW c \in Conns, HandleNewConnection(c)
    PROVE  IInv'
<1> USE DEF serveVars, roundVars, userVars
<1>1. TypeOK /\ RoundInv /\ ServerInv /\ FunctorInv /\ ConnInv
  BY DEF IInv
<1>2. /\ phase[Base] = "handlers" /\ loopOf[c] = NoLoop /\ conns_' = conns_ \cup {c}
      /\ UNCHANGED <<serving_, started_, listening_, loops_, server,
                     todo, phase, quit_, call, sends>>
  BY DEF HandleNewConnection, Accepts
<1>3. server = "alive"
  BY <1>1, <1>2 DEF ServerInv
<1>4. Fresh(c)
  BY <1>1, <1>2 DEF ConnInv, Up, Closing, Down
<1>5. conn[c] = NewConnection /\ c \notin held /\ (call # NoCall => call.c # c)
  BY <1>4 DEF Fresh
<1>6. ASSUME NEW i \in Loops, NEW h \in Elems(queue[i]), h.op \in ConnOps, h.c = c
      PROVE  FALSE
  <2>1. FunctorOK(i, h)
    BY <1>1 DEF FunctorInv
  <2>2. loopOf[c] # i
    BY <1>2, HomeLoops
  <2> QED BY <1>5, <1>6, <2>1, <2>2, NewFacts DEF FunctorOK
<1>7. conns_' \subseteq Conns /\ IsFiniteSet(conns_')
  BY <1>1, <1>2, FS_AddElement DEF TypeOK
<1>8. server # "alive" => conns_' \subseteq conns_
  BY <1>3
<1>9. ASSUME NEW l \in Loops, loopOf' = [loopOf EXCEPT ![c] = l]
      PROVE  /\ loopOf' \in [Conns -> Loops \cup {NoLoop}] /\ loopOf'[c] = l
             /\ \A d \in Conns : d # c => loopOf'[d] = loopOf[d]
  BY <1>1, <1>9 DEF TypeOK
<1>10. CASE /\ loopOf' = [loopOf EXCEPT ![c] = Base]
            /\ conn' = [conn EXCEPT ![c] = StepIntoEstablished(@)]
            /\ held' = held \cup {c}
            /\ UNCHANGED queue
  <2> DEFINE n == StepIntoEstablished(conn[c])
  <2>1. /\ n \in Connections /\ SameStream(conn[c], n)
        /\ n.chan = "added" /\ n.state_ = "connected" /\ n.events = {"read"}
        /\ n.ups = conn[c].ups + 1 /\ n.downs = conn[c].downs
    <3>1. conn[c] \in Connections
      BY <1>1 DEF TypeOK
    <3> QED BY <3>1, EstablishedFacts
  <2>2. conn' = [conn EXCEPT ![c] = n]
    BY <1>10
  <2> HIDE DEF n
  <2>3. n.ups = 1 /\ n.downs = 0
    BY <1>5, <2>1, NewFacts
  <2>4. StreamOK(n) /\ Asks(n) /\ n.accepted = conn[c].accepted
    <3>1. StreamOK(n) /\ ReadableBytes(n.outputBuffer_) = 0
      BY <1>5, <2>1, NewFacts, SameStreamOK
    <3>2. WritingOK(n)
      BY <2>1, <3>1 DEF WritingOK, IsWriting
    <3> QED BY <2>1, <3>1, <3>2 DEF Asks, SameStream
  <2>5. conn'[c] = n /\ \A d \in Conns : d # c => conn'[d] = conn[d]
    BY <1>1, <2>1, <2>2, ConnBecomes
  <2>6. /\ loopOf' \in [Conns -> Loops \cup {NoLoop}] /\ loopOf'[c] = Base
        /\ \A d \in Conns : d # c => loopOf'[d] = loopOf[d]
    BY <1>9, <1>10, HomeLoops
  <2>7. QueueStep(Nowhere, Nowhere) /\ Grows
    BY <1>1, <1>10, StayStep
  <2>8. RoundInv'
    BY <1>1, <1>2, <2>7, RoundGrows
  <2>9. About(Nowhere, c)
    BY NowhereIs DEF About
  <2>10. Alive(c)'
    <3>1. Base # NoLoop /\ server' = "alive" /\ c \in conns_'
      BY <1>2, <1>3, HomeLoops
    <3>2. Up(c)'
      BY <2>1, <2>3, <2>5, <2>6, <3>1 DEF Up
    <3> QED BY <3>2 DEF Alive
  <2>11. \A l \in Loops : \A f \in Elems(queue'[l]) :
            f.op \in ConnOps /\ f.c = c => FunctorOK(l, f)'
    BY <1>6, <1>10
  <2>12. OthersStay(c)
    BY <1>2, <1>10, <2>5, <2>6 DEF OthersStay
  <2>13. held' \subseteq Conns
    BY <1>1, <1>10 DEF TypeOK
  <2> QED BY <1>2, <1>7, <1>8, <2>1, <2>2, <2>4, <2>6, <2>7, <2>8, <2>9, <2>10, <2>11, <2>12,
             <2>13, NowhereQuiet, HeavyAction
<1>11. ASSUME NEW l \in loops_, loopOf' = [loopOf EXCEPT ![c] = l],
              queue' = Push(queue, l, Functor("established", c)), UNCHANGED <<conn, held>>
       PROVE  IInv'
  <2> DEFINE g == Functor("established", c)
             add == At(l, {g})
  <2>1. l \in Loops /\ l # Base /\ l # NoLoop
    BY <1>1, ServerAssumption, HomeLoops DEF TypeOK
  <2>2. g \in Functors /\ g.op = "established" /\ g.c = c
    BY FunctorTypes DEF ConnOps
  <2>3. queue' = Push(queue, l, g)
    BY <1>11
  <2> HIDE DEF g
  <2>4. QueueStep(Nowhere, add) /\ Grows
    BY <1>1, <2>1, <2>2, <2>3, PushStep
  <2>5. RoundInv'
    BY <1>1, <1>2, <2>4, RoundGrows
  <2>6. About(Nowhere, c) /\ About(add, c)
    BY <2>2, AboutAt DEF Heavy
  <2>7. add[l] = {g} /\ \A i \in Loops : \A h \in add[i] : h = g /\ i = l
    BY <2>1, AtIs
  <2> HIDE DEF add
  <2>8. /\ loopOf' \in [Conns -> Loops \cup {NoLoop}] /\ loopOf'[c] = l
        /\ \A d \in Conns : d # c => loopOf'[d] = loopOf[d]
    BY <1>9, <1>11, <2>1
  <2>9. Alive(c)'
    <3>1. g \in Elems(queue'[l])
      BY <2>1, <2>4, <2>7 DEF QueueStep, QueueRel, Moves
    <3>2. Queued(c, {"established"})'
      BY <2>1, <2>2, <3>1, QueuedIs
    <3>3. c \in conns_'
      BY <1>2
    <3>4. Fresh(c)'
      BY <1>2, <1>5, <1>11, <2>1, <2>8, <3>2, <3>3 DEF Fresh
    <3> QED BY <3>4 DEF Alive
  <2>10. ASSUME NEW i \in Loops, NEW h \in Elems(queue'[i]), h.op \in ConnOps, h.c = c
         PROVE  FunctorOK(i, h)'
    <3>1. h \in add[i]
      BY <1>6, <2>4, <2>10 DEF QueueStep, QueueRel, Moves
    <3>2. h = g /\ i = l
      BY <2>7, <3>1
    <3> QED BY <1>5, <1>11, <2>1, <2>2, <2>8, <3>2, NewFacts DEF FunctorOK, ConnOps
  <2>11. OthersStay(c)
    BY <1>2, <1>11, <2>8 DEF OthersStay
  <2>12. NewInOrder(add)
    <3>1. \A h \in Elems(queue[l]) : MayPrecede(h, g)
      BY <1>6, <2>1, <2>2 DEF MayPrecede
    <3> QED BY <2>7, <3>1 DEF NewInOrder
  <2>13. /\ conn[c] \in Connections /\ StreamOK(conn[c]) /\ Asks(conn[c])
         /\ conn' = [conn EXCEPT ![c] = conn[c]]
    BY <1>1, <1>11, NotNew, SameConn
  <2>14. held' \subseteq Conns
    BY <1>1, <1>11 DEF TypeOK
  <2> QED BY <1>2, <1>7, <1>8, <2>4, <2>5, <2>6, <2>8, <2>9, <2>10, <2>11, <2>12, <2>13, <2>14,
             HeavyAction
<1> QED BY <1>10, <1>11 DEF HandleNewConnection

LEMMA PeerClosesKeeps ==
    ASSUME IInv, NEW c \in Conns, PeerCloses(c)
    PROVE  IInv'
<1> USE DEF serveVars, roundVars, userVars
<1>1. TypeOK /\ RoundInv /\ ServerInv /\ FunctorInv /\ ConnInv
  BY DEF IInv
<1> DEFINE k == conn[c]
           h == HandleClose(k)
<1>2. /\ loopOf[c] # NoLoop /\ phase[loopOf[c]] = "handlers"
      /\ k.chan = "added" /\ "read" \in k.events
      /\ UNCHANGED <<loopOf, serving_, started_, listening_, loops_, server,
                     todo, phase, quit_, held, call, sends>>
  BY DEF PeerCloses, Polled
<1>3. Up(c)
  BY <1>1, <1>2, NewFacts DEF ConnInv, Fresh, Closing, Down
<1>4. k.state_ \in {"connected", "disconnecting"} /\ k.ups = 1 /\ k.downs = 0
  BY <1>3 DEF Up
<1>5. k \in Connections /\ StreamOK(k)
  BY NotNew
<1>6. /\ h \in Connections /\ SameStream(k, h)
      /\ h.chan = k.chan /\ h.ups = k.ups /\ h.downs = k.downs
      /\ h.state_ = "disconnected" /\ h.events = {}
  BY <1>5, CloseFacts
<1>7. About(Nowhere, c)
  BY NowhereIs DEF About
<1>8. /\ loopOf' \in [Conns -> Loops \cup {NoLoop}] /\ held' \subseteq Conns
      /\ IsFiniteSet(conns_) /\ conns_ \subseteq Conns /\ loopOf[c] \in Loops
  BY <1>1, <1>2 DEF TypeOK
<1>9. CASE loopOf[c] = Base
  <2> DEFINE n == StepIntoDestroyed(h)
  <2>1. conn' = [conn EXCEPT ![c] = n] /\ conns_' = conns_ \ {c} /\ UNCHANGED queue
    BY <1>9 DEF PeerCloses
  <2>2. /\ n \in Connections /\ SameStream(h, n)
        /\ n.chan = "removed" /\ n.ups = h.ups /\ n.downs = h.downs + 1
        /\ h.state_ # "connected" => n.state_ = h.state_ /\ n.events = h.events
    <3> HIDE DEF h
    <3> QED BY <1>6, DestroyedFacts
  <2> HIDE DEF h, n
  <2>3. n.state_ = "disconnected" /\ n.events = {} /\ n.ups = 1 /\ n.downs = 1
    BY <1>4, <1>6, <2>2
  <2>4. StreamOK(n) /\ Asks(n) /\ n.accepted = k.accepted
    <3>1. StreamOK(h)
      BY <1>5, <1>6, SameStreamOK
    <3>2. StreamOK(n)
      BY <2>2, <3>1, SameStreamOK
    <3> QED BY <1>6, <2>2, <3>2 DEF Asks, SameStream
  <2>5. conn'[c] = n /\ \A d \in Conns : d # c => conn'[d] = conn[d]
    BY <1>1, <2>1, <2>2, ConnBecomes
  <2>6. QueueStep(Nowhere, Nowhere) /\ Grows
    BY <1>1, <2>1, StayStep
  <2>7. RoundInv'
    BY <1>1, <1>2, <2>6, RoundGrows
  <2>8. Alive(c)'
    <3>1. Down(c)'
      BY <1>2, <2>1, <2>2, <2>3, <2>5 DEF Down
    <3> QED BY <3>1 DEF Alive
  <2>9. ASSUME NEW i \in Loops, NEW g \in Elems(queue'[i]), g.op \in ConnOps, g.c = c
        PROVE  FunctorOK(i, g)'
    <3>1. FunctorOK(i, g)
      BY <1>1, <2>1 DEF FunctorInv
    <3>2. g.op \notin {"established", "remove", "destroyed"}
      BY <1>2, <1>4, <1>9, <2>9, <3>1 DEF FunctorOK, ConnOps
    <3> QED BY <1>2, <2>2, <2>5, <2>9, <3>1, <3>2 DEF FunctorOK, ConnOps
  <2>10. OthersStay(c)
    BY <1>2, <2>1, <2>5 DEF OthersStay
  <2>11. conns_' \subseteq Conns /\ IsFiniteSet(conns_') /\ conns_' \subseteq conns_
    BY <1>8, <2>1, FS_RemoveElement
  <2> QED BY <1>2, <1>7, <1>8, <2>1, <2>2, <2>4, <2>6, <2>7, <2>8, <2>9, <2>10, <2>11,
             NowhereQuiet, HeavyAction
<1>10. CASE loopOf[c] # Base
  <2> DEFINE r == Functor("remove", c)
             add == At(Base, {r})
  <2>1. conn' = [conn EXCEPT ![c] = h] /\ UNCHANGED conns_ /\ queue' = Push(queue, Base, r)
    BY <1>10 DEF PeerCloses
  <2>2. r \in Functors /\ r.op = "remove" /\ r.c = c
    BY FunctorTypes DEF ConnOps
  <2> HIDE DEF h, r
  <2>3. StreamOK(h) /\ Asks(h) /\ h.accepted = k.accepted
    <3>1. StreamOK(h)
      BY <1>5, <1>6, SameStreamOK
    <3> QED BY <1>6, <3>1 DEF Asks, SameStream
  <2>4. conn'[c] = h /\ \A d \in Conns : d # c => conn'[d] = conn[d]
    BY <1>1, <1>6, <2>1, ConnBecomes
  <2>5. QueueStep(Nowhere, add) /\ Grows
    BY <1>1, <2>1, <2>2, HomeLoops, PushStep
  <2>6. RoundInv'
    BY <1>1, <1>2, <2>5, RoundGrows
  <2>7. About(add, c)
    BY <2>2, AboutAt DEF Heavy
  <2>8. add[Base] = {r} /\ \A i \in Loops : \A g \in add[i] : g = r /\ i = Base
    BY HomeLoops, AtIs
  <2> HIDE DEF add
  <2>9. Alive(c)'
    <3>1. r \in Elems(queue'[Base])
      BY <2>5, <2>8, HomeLoops DEF QueueStep, QueueRel, Moves
    <3>2. Queued(c, {"remove"})'
      BY <2>2, <3>1, HomeLoops, QueuedIs
    <3>3. server = "alive" => c \in conns_
      BY <1>3 DEF Up
    <3>4. Closing(c)'
      BY <1>2, <1>4, <1>6, <1>10, <2>1, <2>4, <3>2, <3>3 DEF Closing
    <3> QED BY <3>4 DEF Alive
  <2>10. ASSUME NEW i \in Loops, NEW g \in Elems(queue[i]), g.op \in ConnOps, g.c = c
         PROVE  g.op # "remove" /\ g.op # "established" /\ FunctorOK(i, g)
                /\ (g.op = "destroyed" => server # "alive")
    <3>1. FunctorOK(i, g)
      BY <1>1 DEF FunctorInv
    <3> QED BY <1>2, <1>4, <2>10, <3>1 DEF FunctorOK
  <2>11. ASSUME NEW i \in Loops, NEW g \in Elems(queue'[i]), g.op \in ConnOps, g.c = c
         PROVE  FunctorOK(i, g)'
    <3>1. CASE g \in Elems(queue[i])
      <4>1. g.op # "remove" /\ g.op # "established" /\ FunctorOK(i, g)
            /\ (g.op = "destroyed" => server # "alive")
        BY <2>10, <2>11, <3>1
      <4> QED BY <1>2, <1>6, <2>1, <2>4, <2>11, <4>1 DEF FunctorOK
    <3>2. CASE g \notin Elems(queue[i])
      <4>1. g \in add[i]
        BY <2>5, <3>2 DEF QueueStep, QueueRel, Moves
      <4>2. g = r /\ i = Base
        BY <2>8, <4>1
      <4>3. server = "alive" => c \in conns_
        BY <1>3 DEF Up
      <4> QED BY <1>2, <1>6, <2>1, <2>2, <2>4, <4>2, <4>3 DEF FunctorOK
    <3> QED BY <3>1, <3>2
  <2>12. NewInOrder(add)
    <3>1. \A g \in Elems(queue[Base]) : MayPrecede(g, r)
      BY <2>2, <2>10, HomeLoops DEF MayPrecede
    <3> QED BY <2>8, <3>1 DEF NewInOrder
  <2>13. OthersStay(c)
    BY <1>2, <2>1, <2>4 DEF OthersStay
  <2>14. conns_' \subseteq Conns /\ IsFiniteSet(conns_') /\ conns_' \subseteq conns_
    BY <1>8, <2>1
  <2> QED BY <1>2, <1>6, <1>7, <1>8, <2>1, <2>3, <2>5, <2>6, <2>7, <2>9, <2>11, <2>12, <2>13,
             <2>14, HeavyAction
<1> QED BY <1>9, <1>10

LEMMA RoundEndKeeps ==
    ASSUME IInv, NEW l \in Loops, RoundEnd(l)
    PROVE  IInv'
<1> USE DEF serveVars, roundVars, userVars
<1>1. TypeOK /\ RoundInv /\ ServerInv /\ ServeInv /\ FunctorInv /\ OrderInv /\ ConnInv
      /\ OutputInv /\ SendInv
  BY DEF IInv
<1>2. /\ phase[l] = "pending" /\ todo[l] = 0
      /\ phase' = [phase EXCEPT ![l] = IF quit_[l] THEN "exited" ELSE "handlers"]
      /\ queue' = [queue EXCEPT ![l] = IF quit_[l] /\ l # Base THEN <<>> ELSE @]
      /\ UNCHANGED <<conn, loopOf, conns_, serving_, started_, listening_, loops_, server,
                     todo, quit_, held, call, sends>>
  BY DEF RoundEnd
<1>3. queue \in [Loops -> Seq(Functors)]
  BY <1>1 DEF TypeOK
<1>4. ServerInv'
  BY <1>1, <1>2, HomeLoops DEF ServerInv, TypeOK
<1>5. phase' \in [Loops -> {"none", "handlers", "pending", "exited"}]
  BY <1>1, <1>2 DEF TypeOK
<1>6. OutputInv'
  BY <1>1, <1>2 DEF OutputInv, WritingIffBuffered
<1>7. ASSUME NEW rem, QueueStep(rem, Nowhere),
             \A f \in rem[Base] : f.op \notin {"buildAndRun", "listen"}
      PROVE  TypeOK' /\ OrderInv' /\ ServeInv' /\ SendInv'
  <2>1. queue' \in [Loops -> Seq(Functors)]
    BY <1>7 DEF QueueStep, QueueRel
  <2>2. TypeOK'
    BY <1>1, <1>2, <1>5, <2>1 DEF TypeOK
  <2>3. OrderInv'
    BY <1>1, <1>7, NowhereQuiet, OrderKept
  <2>4. ServeInv'
    <3>1. \A f \in Nowhere[Base] : f.op \notin {"buildAndRun", "listen"}
      BY NowhereIs, HomeLoops
    <3> QED BY <1>1, <1>2, <1>7, <3>1, ServeKept
  <2>5. SendInv'
    <3>1. \A i \in Loops : \A f \in Nowhere[i] : f.op # "send"
      BY NowhereIs
    <3> QED BY <1>1, <1>2, <1>7, <3>1, SendKept
  <2> QED BY <2>2, <2>3, <2>4, <2>5
<1>8. CASE ~(quit_[l] /\ l # Base)
  <2>1. UNCHANGED queue
    BY <1>2, <1>3, <1>8
  <2>2. QueueStep(Nowhere, Nowhere) /\ Grows
    BY <1>1, <2>1, StayStep
  <2>3. TypeOK' /\ OrderInv' /\ ServeInv' /\ SendInv'
    BY <1>7, <2>2, NowhereIs, HomeLoops
  <2>4. RoundInv'
    BY <1>1, <1>2, <2>2, RoundGrows
  <2>5. FunctorInv' /\ ConnInv'
    BY <1>1, <1>2, <2>2, NowhereQuiet, LightStay
  <2> QED BY <1>4, <1>6, <2>3, <2>4, <2>5 DEF IInv
<1>9. CASE quit_[l] /\ l # Base
  <2> DEFINE rem == At(l, Elems(queue[l]))
  <2>1. queue'[l] = <<>> /\ \A i \in Loops : i # l => queue'[i] = queue[i]
    BY <1>2, <1>3, <1>9
  <2>2. queue' \in [Loops -> Seq(Functors)]
    BY <1>2, <1>3, <1>9
  <2>3. rem[l] = Elems(queue[l]) /\ \A i \in Loops : i # l => rem[i] = {}
    BY AtIs
  <2> HIDE DEF rem
  <2>4. QueueStep(rem, Nowhere)
    <3>1. Moves(queue[l], <<>>, Elems(queue[l]), {})
      BY Nothing DEF Moves
    <3>2. \A i \in Loops : Moves(queue[i], queue'[i], rem[i], Nowhere[i])
      BY <2>1, <2>3, <3>1, NoMove, NowhereIs
    <3> QED BY <2>2, <3>2 DEF QueueStep, QueueRel
  <2>5. TypeOK' /\ OrderInv' /\ ServeInv' /\ SendInv'
    BY <1>7, <1>9, <2>3, <2>4, HomeLoops
  <2>6. RoundInv'
    BY <1>1, <1>2, <2>1, Nothing DEF RoundInv
  <2>7. server # "alive"
    BY <1>1, <1>9, HomeLoops DEF ServerInv
  <2>8. ConnInv'
    BY <1>1, <1>2, <2>7 DEF ConnInv, Fresh, Up, Closing, Down
  <2>9. ASSUME NEW i \in Loops, NEW f \in Elems(queue'[i]) PROVE FunctorOK(i, f)'
    <3>1. i # l
      BY <2>1, <2>9, Nothing
    <3>2. f \in Elems(queue[i])
      BY <2>1, <2>9, <3>1
    <3>3. FunctorOK(i, f)
      BY <1>1, <3>2 DEF FunctorInv
    <3>4. ASSUME f.op = "destroyed", Queued(f.c, {"established"})
          PROVE  Queued(f.c, {"established"})'
      <4>1. PICK j \in Loops : \E g \in Elems(queue[j]) : g.op \in {"established"} /\ g.c = f.c
        BY <3>4, QueuedIs
      <4>2. PICK g \in Elems(queue[j]) : g.op \in {"established"} /\ g.c = f.c
        BY <4>1
      <4>3. FunctorOK(j, g)
        BY <1>1, <4>2 DEF FunctorInv
      <4>4. j = i
        BY <3>3, <3>4, <4>2, <4>3 DEF FunctorOK, ConnOps
      <4> QED BY <2>1, <3>1, <4>2, <4>4, QueuedIs
    <3> QED BY <1>2, <3>3, <3>4 DEF FunctorOK
  <2>10. FunctorInv'
    BY <2>9 DEF FunctorInv
  <2> QED BY <1>4, <1>6, <2>5, <2>6, <2>8, <2>10 DEF IInv
<1> QED BY <1>8, <1>9

\* The functors of a finite set, one after the other.
LEMMA OneAfterTheOther ==
    ASSUME NEW S \in SUBSET Functors, IsFiniteSet(S)
    PROVE  LET s == SetToSeq(S) IN
           s \in Seq(Functors) /\ Distinct(s) /\ Elems(s) \subseteq S
<1> DEFINE n == Cardinality(S)
           s == SetToSeq(S)
<1>1. n \in Nat /\ ExistsBijection(1 .. n, S)
  BY FS_CardinalityType
<1>2. \E f \in [1 .. n -> S] : IsInjective(f)
  BY <1>1 DEF ExistsBijection, Bijection, Injection
<1>3. s \in [1 .. n -> S] /\ IsInjective(s)
  BY <1>2 DEF SetToSeq
<1> HIDE DEF n, s
<1>4. s \in [1 .. n -> Functors]
  BY <1>3
<1>5. s \in Seq(Functors)
  BY <1>1, <1>4, FunctionIsSeq
<1>6. Elems(s) \subseteq S
  BY <1>3 DEF Elems
<1>7. DOMAIN s = 1 .. n
  BY <1>3
<1>8. ASSUME NEW f, NEW g, Prec(s, f, g), f = g PROVE FALSE
  <2>1. PICK i, j \in 1 .. n : i < j /\ s[i] = f /\ s[j] = g
    BY <1>7, <1>8 DEF Prec
  <2>2. i = j
    BY <1>3, <1>7, <1>8, <2>1 DEF IsInjective
  <2> QED BY <1>1, <2>1, <2>2
<1> QED BY <1>5, <1>6, <1>8 DEF Distinct, s

\* StepIntoDestroyed is posted to loop l for each of its connections.
DestroyIn(l) == {Functor("destroyed", c) : c \in {d \in conns_ : loopOf[d] = l}}

LEMMA DestroyFunctors ==
    ASSUME TypeOK, NEW l \in Loops
    PROVE  /\ DestroyIn(l) \in SUBSET Functors /\ IsFiniteSet(DestroyIn(l))
           /\ \A f \in DestroyIn(l) : /\ f.op = "destroyed" /\ f.c \in conns_
                                      /\ loopOf[f.c] = l /\ f = Functor("destroyed", f.c)
<1> DEFINE S == {d \in conns_ : loopOf[d] = l}
           T == DestroyIn(l)
           F == [c \in S |-> Functor("destroyed", c)]
<1>1. conns_ \subseteq Conns /\ IsFiniteSet(conns_)
  BY DEF TypeOK
<1>2. S \in SUBSET conns_
  OBVIOUS
<1>3. IsFiniteSet(S)
  BY <1>1, <1>2, FS_Subset
<1>4. \A c \in S : /\ Functor("destroyed", c) \in Functors
                   /\ Functor("destroyed", c).op = "destroyed"
                   /\ Functor("destroyed", c).c = c
  BY <1>1, <1>2, FunctorTypes DEF ConnOps
<1>5. T = {Functor("destroyed", c) : c \in S}
  BY DEF DestroyIn
<1>6. F \in Surjection(S, T)
  BY <1>5 DEF Surjection
<1> HIDE DEF F
<1>7. IsFiniteSet(T)
  <2> HIDE DEF S, T
  <2> QED BY <1>3, <1>6, FS_Surjection
<1>8. \A f \in T : /\ f \in Functors /\ f.op = "destroyed" /\ f.c \in conns_
                   /\ loopOf[f.c] = l /\ f = Functor("destroyed", f.c)
  BY <1>4, <1>5
<1> QED BY <1>7, <1>8

LEMMA DestroyServerKeeps ==
    ASSUME IInv, DestroyServer
    PROVE  IInv'
<1> USE DEF serveVars, roundVars, userVars
<1>1. TypeOK /\ RoundInv /\ ServerInv /\ ServeInv /\ FunctorInv /\ OrderInv /\ ConnInv
      /\ OutputInv /\ SendInv
  BY DEF IInv
<1> DEFINE here == {c \in conns_ : loopOf[c] = Base}
           s(l) == SetToSeq(DestroyIn(l))
           add == [l \in Loops |-> IF l = Base THEN {} ELSE Elems(s(l))]
<1>2. /\ phase[Base] = "exited" /\ server = "alive" /\ server' = "destroying"
      /\ call = NoCall /\ listening_' = FALSE /\ conns_' = {}
      /\ conn' = [c \in Conns |-> IF c \in here THEN StepIntoDestroyed(conn[c]) ELSE conn[c]]
      /\ quit_' = [l \in Loops |-> quit_[l] \/ l \in loops_]
      /\ UNCHANGED <<loopOf, serving_, started_, loops_, todo, phase, held, call, sends>>
  BY DEF DestroyServer
<1>3. queue' = [l \in Loops |-> IF l = Base THEN queue[l] ELSE queue[l] \o s(l)]
  BY DEF DestroyServer, DestroyIn
<1>4. queue \in [Loops -> Seq(Functors)]
  BY <1>1 DEF TypeOK
<1>5. \A l \in Loops : s(l) \in Seq(Functors) /\ Distinct(s(l)) /\ Elems(s(l)) \subseteq DestroyIn(l)
  BY <1>1, DestroyFunctors, OneAfterTheOther
<1> HIDE DEF s
<1>6. ASSUME NEW l \in Loops
      PROVE  /\ queue'[l] \in Seq(Functors) /\ Len(queue'[l]) >= Len(queue[l])
             /\ Moves(queue[l], queue'[l], {}, add[l])
             /\ l = Base => queue'[l] = queue[l]
  <2>1. queue[l] \in Seq(Functors) /\ Len(queue[l]) \in Nat
    BY <1>4, LenProperties
  <2>2. CASE l = Base
    <3>1. queue'[l] = queue[l] /\ add[l] = {}
      BY <1>3, <2>2
    <3> QED BY <2>1, <3>1, NoMove
  <2>3. CASE l # Base
    <3>1. queue'[l] = queue[l] \o s(l) /\ add[l] = Elems(s(l))
      BY <1>3, <2>3
    <3>2. s(l) \in Seq(Functors) /\ Distinct(s(l)) /\ Len(s(l)) \in Nat
      BY <1>5, LenProperties
    <3> DEFINE q == queue[l]
               t == s(l)
    <3> HIDE DEF q, t
    <3>3. q \in Seq(Functors) /\ t \in Seq(Functors) /\ Distinct(t) /\ Moves(q, q, {}, {})
      BY <2>1, <3>2, NoMove DEF q, t
    <3>4. Moves(q, q \o t, {}, Elems(t))
      BY <3>3, MoveExtend
    <3>5. q \o t \in Seq(Functors) /\ Len(q \o t) = Len(q) + Len(t)
      BY <3>3, Extended
    <3> QED BY <2>1, <2>3, <3>1, <3>2, <3>4, <3>5 DEF q, t
  <2> QED BY <2>2, <2>3
<1>7. ASSUME NEW l \in Loops, NEW f \in add[l]
      PROVE  /\ l # Base /\ f \in Functors /\ f.op = "destroyed" /\ f.c \in conns_
             /\ loopOf[f.c] = l /\ f = Functor("destroyed", f.c)
  <2>1. l # Base /\ f \in DestroyIn(l)
    BY <1>5, <1>7
  <2> QED BY <1>1, <2>1, DestroyFunctors
<1> HIDE DEF add
<1>8. QueueStep(Nowhere, add) /\ Grows
  <2>1. queue' \in [Loops -> Seq(Functors)]
    BY <1>3, <1>6
  <2>2. \A l \in Loops : Moves(queue[l], queue'[l], Nowhere[l], add[l])
    BY <1>6, NowhereIs
  <2> QED BY <1>6, <2>1, <2>2 DEF QueueStep, QueueRel, Grows
<1>9. RoundInv'
  BY <1>1, <1>2, <1>8, RoundGrows
<1>10. ServerInv'
  BY <1>2 DEF ServerInv
<1>11. ServeInv'
  <2>1. queue'[Base] = queue[Base]
    BY <1>6, HomeLoops
  <2> QED BY <1>1, <1>2, <2>1 DEF ServeInv
<1>12. OrderInv'
  <2>1. ASSUME NEW l \in Loops, NEW g \in add[l], NEW f \in Elems(queue[l])
        PROVE  MayPrecede(f, g)
    <3>1. FunctorOK(l, f)
      BY <1>1 DEF FunctorInv
    <3>2. g.op = "destroyed" /\ g.c \in conns_
      BY <1>7
    <3> QED BY <3>1, <3>2 DEF MayPrecede, FunctorOK
  <2>2. ASSUME NEW l \in Loops, NEW g \in add[l], NEW f \in add[l], f # g
        PROVE  MayPrecede(f, g)
    <3>1. f.c # g.c
      BY <1>7, <2>2
    <3> QED BY <3>1 DEF MayPrecede
  <2>3. NewInOrder(add)
    BY <2>1, <2>2 DEF NewInOrder
  <2> QED BY <1>1, <1>8, <2>3, OrderKept
<1>13. ASSUME NEW c \in here
       PROVE  /\ c \in Conns /\ Up(c) /\ conn'[c] \in Connections /\ SameStream(conn[c], conn'[c])
              /\ conn'[c].chan = "removed" /\ conn'[c].ups = 1 /\ conn'[c].downs = 1
              /\ \/ conn'[c].state_ = "disconnected" /\ conn'[c].events = {}
                 \/ conn'[c].state_ = "disconnecting"
  <2>1. c \in Conns /\ c \in conns_ /\ loopOf[c] = Base /\ Base # NoLoop
    BY <1>1, HomeLoops DEF TypeOK
  <2>2. Up(c)
    BY <1>1, <2>1 DEF ConnInv, Fresh, Closing, Down
  <2>3. conn'[c] = StepIntoDestroyed(conn[c])
    BY <1>2, <2>1
  <2>4. conn[c] \in Connections
    BY <1>1, <2>1 DEF TypeOK
  <2> DEFINE n == StepIntoDestroyed(conn[c])
  <2>5. /\ n \in Connections /\ SameStream(conn[c], n)
        /\ n.chan = "removed" /\ n.ups = conn[c].ups /\ n.downs = conn[c].downs + 1
        /\ conn[c].state_ = "connected" => n.state_ = "disconnected" /\ n.events = {}
        /\ conn[c].state_ # "connected" => n.state_ = conn[c].state_
    BY <2>4, DestroyedFacts
  <2> HIDE DEF n
  <2>6. conn'[c] = n
    BY <2>3 DEF n
  <2> QED BY <2>1, <2>2, <2>5, <2>6 DEF Up
<1>14. \A c \in Conns : c \notin here => conn'[c] = conn[c]
  BY <1>2
<1>15. conn' \in [Conns -> Connections]
  <2>1. \A c \in Conns : conn'[c] \in Connections
    BY <1>1, <1>13, <1>14 DEF TypeOK
  <2> QED BY <1>2, <2>1
<1> HIDE DEF here
<1>16. \A c, op : Queued(c, {op}) => Queued(c, {op})'
  <2>1. \A l \in Loops : \A f \in Elems(queue[l]) : f \in Elems(queue'[l])
    BY <1>6 DEF Moves
  <2> QED BY <2>1, QueuedIs
<1>17. ASSUME NEW c \in Conns PROVE Alive(c)'
  <2>1. CASE c \in here
    <3>1. loopOf[c] # NoLoop
      BY <1>13, <2>1 DEF Up
    <3>2. Down(c)'
      BY <1>2, <1>13, <2>1, <3>1 DEF Down
    <3> QED BY <3>2 DEF Alive
  <2>2. CASE c \notin here
    <3>1. conn'[c] = conn[c]
      BY <1>14, <2>2
    <3>2. CASE Fresh(c)
      <4>1. Fresh(c)'
        BY <1>2, <3>1, <3>2 DEF Fresh
      <4> QED BY <4>1 DEF Alive
    <3>3. CASE Up(c)
      <4>1. loopOf[c] # Base
        BY <1>2, <2>2, <3>3 DEF Up, here
      <4>2. Up(c)'
        BY <1>2, <3>1, <3>3, <4>1 DEF Up
      <4> QED BY <4>2 DEF Alive
    <3>4. CASE Closing(c)
      <4>1. Closing(c)'
        BY <1>2, <3>1, <3>4 DEF Closing
      <4> QED BY <4>1 DEF Alive
    <3>5. CASE Down(c)
      <4>1. Down(c)'
        BY <1>2, <3>1, <3>5 DEF Down
      <4> QED BY <4>1 DEF Alive
    <3> QED BY <1>1, <3>2, <3>3, <3>4, <3>5 DEF ConnInv
  <2> QED BY <2>1, <2>2
<1>18. ConnInv'
  BY <1>17 DEF ConnInv, Alive
<1>19. ASSUME NEW l \in Loops, NEW f \in Elems(queue'[l]) PROVE FunctorOK(l, f)'
  <2>1. CASE f \in Elems(queue[l])
    <3>1. FunctorOK(l, f) /\ f.op \in ConnOps \cup {"buildAndRun", "listen"}
          /\ (f.op \in ConnOps => f.c \in Conns)
      BY <1>1, <2>1, ElemsAre DEF FunctorInv
    <3>2. CASE f.op \in {"buildAndRun", "listen"}
      BY <3>1, <3>2 DEF FunctorOK, ConnOps
    <3>3. CASE f.op \in ConnOps /\ f.c \in here
      <4>1. Up(f.c) /\ f.c \in conns_
        BY <1>13, <3>3 DEF here
      <4>2. f.op \notin {"established", "remove", "destroyed"}
        BY <3>1, <4>1 DEF FunctorOK, Up
      <4>3. conn'[f.c].chan = "removed"
        BY <1>13, <3>3
      <4> QED BY <1>2, <3>1, <3>3, <4>2, <4>3 DEF FunctorOK, ConnOps
    <3>4. CASE f.op \in ConnOps /\ f.c \notin here
      <4>1. conn'[f.c] = conn[f.c]
        BY <1>14, <3>1, <3>4
      <4>2. Queued(f.c, {"established"}) => Queued(f.c, {"established"})'
        BY <1>16
      <4> QED BY <1>2, <3>1, <4>1, <4>2 DEF FunctorOK
    <3> QED BY <3>1, <3>2, <3>3, <3>4
  <2>2. CASE f \notin Elems(queue[l])
    <3>1. f \in add[l]
      BY <1>6, <2>2 DEF Moves
    <3>2. /\ l # Base /\ f \in Functors /\ f.op = "destroyed" /\ f.c \in conns_
          /\ loopOf[f.c] = l
      BY <1>7, <3>1
    <3>3. f.c \in Conns /\ f.c \notin here
      BY <1>1, <3>2 DEF TypeOK, here
    <3>4. conn'[f.c] = conn[f.c]
      BY <1>14, <3>3
    <3>5. conn[f.c].chan # "removed"
          /\ (conn[f.c].chan = "new" => Queued(f.c, {"established"}))
      <4>1. l # NoLoop
        BY HomeLoops
      <4> QED BY <1>1, <1>2, <3>2, <3>3, <4>1, NewFacts DEF ConnInv, Fresh, Up, Closing, Down
    <3>6. Queued(f.c, {"established"}) => Queued(f.c, {"established"})'
      BY <1>16
    <3> QED BY <1>2, <3>2, <3>4, <3>5, <3>6 DEF FunctorOK, ConnOps
  <2> QED BY <2>1, <2>2
<1>20. FunctorInv'
  BY <1>19 DEF FunctorInv
<1>21. OutputInv'
  <2>1. \A c \in Conns : StreamOK(conn'[c]) /\ Asks(conn'[c])
    <3> SUFFICES ASSUME NEW c \in Conns PROVE StreamOK(conn'[c]) /\ Asks(conn'[c])
      OBVIOUS
    <3>1. StreamOK(conn[c]) /\ Asks(conn[c])
      BY <1>1, OutputIs
    <3>2. CASE c \in here
      <4>1. StreamOK(conn'[c])
        BY <1>13, <3>1, <3>2, SameStreamOK
      <4> QED BY <1>13, <3>2, <4>1 DEF Asks
    <3> QED BY <1>14, <3>1, <3>2
  <2> QED BY <2>1 DEF OutputInv, StreamOK, Asks, WritingIffBuffered, WritingOK
<1>22. SendInv'
  <2>1. \A c \in Conns : conn'[c].accepted = conn[c].accepted
    BY <1>13, <1>14 DEF SameStream
  <2>2. \A l \in Loops : \A f \in add[l] : f.op # "send"
    BY <1>7
  <2> QED BY <1>1, <1>2, <1>8, <2>1, <2>2, SendKept
<1>23. TypeOK'
  <2>1. queue' \in [Loops -> Seq(Functors)]
    BY <1>8 DEF QueueStep, QueueRel
  <2>2. quit_' \in [Loops -> BOOLEAN]
    BY <1>1, <1>2 DEF TypeOK
  <2>3. conns_' \subseteq Conns /\ IsFiniteSet(conns_')
    BY <1>2, FS_EmptySet
  <2> QED BY <1>1, <1>2, <1>15, <2>1, <2>2, <2>3 DEF TypeOK
<1> QED BY <1>9, <1>10, <1>11, <1>12, <1>18, <1>20, <1>21, <1>22, <1>23 DEF IInv

-----------------------------------------------------------------------------
LEMMA InitHolds == Init => IInv
<1> SUFFICES ASSUME Init PROVE IInv
  OBVIOUS
<1> USE DEF Init
<1>1. /\ conn = [c \in Conns |-> NewConnection] /\ loopOf = [c \in Conns |-> NoLoop]
      /\ conns_ = {} /\ held = {} /\ call = NoCall /\ server = "alive"
      /\ queue = [l \in Loops |-> <<>>] /\ serving_ = FALSE /\ listening_ = FALSE
      /\ quit_ = [l \in Loops |-> FALSE] /\ todo = [l \in Loops |-> 0]
  OBVIOUS
<1>2. \A l \in Loops : queue[l] = <<>> /\ Elems(queue[l]) = {} /\ Len(queue[l]) = 0
  BY <1>1, Nothing
<1>3. \A c \in Conns : conn[c] = NewConnection /\ loopOf[c] = NoLoop
  BY <1>1
<1>4. queue \in [Loops -> Seq(Functors)] /\ conn \in [Conns -> Connections]
  BY <1>1, NewFacts
<1>5. TypeOK
  BY <1>4, FS_EmptySet DEF TypeOK
<1>6. RoundInv
  BY <1>1, <1>2 DEF RoundInv
<1>7. ServerInv
  BY <1>1, HomeLoops DEF ServerInv
<1>8. ServeInv /\ FunctorInv /\ OrderInv
  BY <1>1, <1>2, HomeLoops DEF ServeInv, FunctorInv, OrderInv
<1>9. ConnInv
  BY <1>1, <1>3 DEF ConnInv, Fresh
<1>10. OutputInv
  <2>1. \A c \in Conns : StreamOK(conn[c]) /\ Asks(conn[c])
    BY <1>3, NewFacts DEF Asks
  <2> QED BY <2>1 DEF OutputInv, StreamOK, Asks, WritingIffBuffered, WritingOK
<1>11. SendInv
  <2>1. \A c \in Conns : conn[c].accepted = <<>>
    BY <1>3, NewFacts
  <2> QED BY <1>1, <1>2, <2>1 DEF SendInv
<1> QED BY <1>5, <1>6, <1>7, <1>8, <1>9, <1>10, <1>11 DEF IInv

LEMMA StutterKeeps ==
    ASSUME IInv, UNCHANGED vars
    PROVE  IInv'
<1> USE DEF vars, serveVars, roundVars, userVars
<1>1. TypeOK /\ RoundInv /\ ServerInv /\ ServeInv /\ FunctorInv /\ OrderInv /\ ConnInv
      /\ OutputInv /\ SendInv
  BY DEF IInv
<1>2. TypeOK' /\ RoundInv' /\ ServerInv' /\ ServeInv' /\ OrderInv'
  BY <1>1 DEF TypeOK, RoundInv, ServerInv, ServeInv, OrderInv
<1>3. FunctorInv' /\ ConnInv' /\ OutputInv'
  BY <1>1, StayStep, NowhereQuiet, LightStay
<1>4. SendInv'
  BY <1>1 DEF SendInv
<1> QED BY <1>2, <1>3, <1>4 DEF IInv

LEMMA StepKeeps == IInv /\ [Next]_vars => IInv'
<1> SUFFICES ASSUME IInv, [Next]_vars PROVE IInv'
  OBVIOUS
<1>1. CASE UNCHANGED vars
  BY <1>1, StutterKeeps
<1>2. CASE ListenAndServe
  BY <1>2, ListenAndServeKeeps
<1>3. CASE PushCall
  BY <1>3, PushCallKeeps
<1>4. CASE QuitBase \/ ServerGone
  BY <1>4, PlainKeeps
<1>5. CASE DestroyServer
  BY <1>5, DestroyServerKeeps
<1>6. ASSUME NEW l \in Loops, SwapPending(l) \/ RunPending(l) PROVE IInv'
  <2>1. CASE SwapPending(l)
    BY <2>1, SwapPendingKeeps
  <2>2. CASE BuildAndRun(l) \/ Listen(l)
    BY <2>2, StartKeeps
  <2>3. CASE RunEstablished(l)
    BY <2>3, RunEstablishedKeeps
  <2>4. CASE RemoveConnectionInLoop(l)
    BY <2>4, RemoveKeeps
  <2>5. CASE RunOnConnection(l)
    <3>1. \/ Runs(l, "destroyed") \/ Runs(l, "send")
          \/ Runs(l, "shutdown") \/ Runs(l, "writeComplete") \/ Runs(l, "highWater")
      BY <2>5 DEF RunOnConnection
    <3> QED BY <2>5, <3>1, RunDestroyedKeeps, RunSendKeeps, RunPlainKeeps
  <2>6. CASE RoundEnd(l)
    BY <2>6, RoundEndKeeps
  <2> QED BY <1>6, <2>1, <2>2, <2>3, <2>4, <2>5, <2>6 DEF RunPending
<1>7. ASSUME NEW c \in Conns,
             \/ HandleNewConnection(c) \/ PeerCloses(c) \/ Writable(c)
             \/ SendFromLoop(c) \/ ShutdownFromLoop(c)
             \/ Send(c) \/ Shutdown(c) \/ Release(c)
      PROVE  IInv'
  <2>1. CASE HandleNewConnection(c)
    BY <2>1, NewConnectionKeeps
  <2>2. CASE PeerCloses(c)
    BY <2>2, PeerClosesKeeps
  <2>3. CASE Writable(c)
    BY <2>3, WritableKeeps
  <2>4. CASE SendFromLoop(c)
    BY <2>4, SendFromLoopKeeps
  <2>5. CASE ShutdownFromLoop(c) \/ Shutdown(c)
    BY <2>5, ShutdownKeeps
  <2>6. CASE Send(c)
    BY <2>6, SendKeeps
  <2>7. CASE Release(c)
    BY <2>7, PlainKeeps
  <2> QED BY <1>7, <2>1, <2>2, <2>3, <2>4, <2>5, <2>6, <2>7
<1> QED BY <1>1, <1>2, <1>3, <1>4, <1>5, <1>6, <1>7 DEF Next

LEMMA Inductive == Spec => []IInv
<1>1. Init => IInv
  BY InitHolds
<1>2. IInv /\ [Next]_vars => IInv'
  BY StepKeeps
<1> QED BY <1>1, <1>2, PTL DEF Spec

-----------------------------------------------------------------------------
\* Every variable has its type: functors, connections and buffers are what the
\* operators that use them take them for, at any depth of the queues.
THEOREM TypesHold == Spec => []TypeOK
<1>1. IInv => TypeOK
  BY DEF IInv
<1> QED BY <1>1, Inductive, PTL

\* connectionCb_ tells the user of every connection that it is up and then
\* that it is down, each once, and a connection that has left its poller has
\* been reported down: whichever of RemoveConnectionInLoop, the posted
\* StepIntoDestroyed and ~TcpServer brings it down.
THEOREM UpThenDown == Spec => []CallbacksPaired
<1>1. IInv => CallbacksPaired
  BY NewFacts DEF IInv, ConnInv, Fresh, Up, Closing, Down, CallbacksPaired
<1> QED BY <1>1, Inductive, PTL

\* While the server lives, the last TcpConnectionPtr to a connection goes only
\* when the connection is disconnected and out of its poller (assert of
\* ~TcpConnection), a channel is removed without events, and the destructor of
\* the server leaves nothing in the poller of the base loop.
THEOREM ConnectionOutlivesUse == Spec => []DestructedWhenDone
<1>1. ASSUME IInv, NEW c \in Conns
      PROVE  /\ server = "alive" /\ Gone(c) =>
                  conn[c].state_ = "disconnected" /\ conn[c].chan = "removed"
             /\ conn[c].chan = "removed" =>
                  \/ conn[c].events = {}
                  \/ server # "alive" /\ conn[c].state_ = "disconnecting"
             /\ server # "alive" /\ conn[c].chan = "added" => loopOf[c] # Base
  <2>1. Fresh(c) \/ Up(c) \/ Closing(c) \/ Down(c)
    BY <1>1 DEF IInv, ConnInv
  <2>2. ASSUME server = "alive", Gone(c) PROVE Down(c)
    <3>1. loopOf[c] # NoLoop /\ c \notin conns_ /\ ~Queued(c, ConnOps)
      BY <2>2 DEF Gone
    <3>2. Queued(c, {"remove"}) \/ Queued(c, {"destroyed"}) => Queued(c, ConnOps)
      BY QueuedIs DEF ConnOps
    <3> QED BY <2>1, <2>2, <3>1, <3>2 DEF Fresh, Up, Closing
  <2>3. server = "alive" /\ Gone(c) =>
            conn[c].state_ = "disconnected" /\ conn[c].chan = "removed"
    BY <2>2 DEF Down
  <2>4. conn[c].chan = "removed" =>
            \/ conn[c].events = {}
            \/ server # "alive" /\ conn[c].state_ = "disconnecting"
    BY <2>1, NewFacts DEF Fresh, Up, Closing, Down
  <2>5. server # "alive" /\ conn[c].chan = "added" => loopOf[c] # Base
    BY <2>1, NewFacts DEF Fresh, Up, Closing, Down
  <2> QED BY <2>3, <2>4, <2>5
<1>2. IInv => DestructedWhenDone
  BY <1>1 DEF DestructedWhenDone
<1> QED BY <1>2, Inductive, PTL

\* RemoveConnectionInLoop finds the connection it is to erase in conns_ (its
\* assert), and the acceptor listens only once the IO loops run, so that
\* GetNextLoop has a loop to hand out.
THEOREM RemoveFindsConnection == Spec => []MapKeepsConnections
<1>1. ASSUME IInv, NEW c \in Conns, server = "alive", Queued(c, {"remove"})
      PROVE  c \in conns_
  <2>1. PICK l \in Loops : \E f \in Elems(queue[l]) : f.op \in {"remove"} /\ f.c = c
    BY <1>1, QueuedIs
  <2>2. PICK f \in Elems(queue[l]) : f.op \in {"remove"} /\ f.c = c
    BY <2>1
  <2>3. FunctorOK(l, f)
    BY <1>1, <2>2 DEF IInv, FunctorInv
  <2> QED BY <1>1, <2>2, <2>3 DEF FunctorOK
<1>2. IInv => (listening_ => started_)
  BY DEF IInv, ServeInv
<1>3. IInv => MapKeepsConnections
  BY <1>1, <1>2 DEF MapKeepsConnections
<1> QED BY <1>3, Inductive, PTL

\* What write(2) took followed by what waits in outputBuffer_ are the bytes
\* given to SendInLoop, none lost, repeated or mixed, however sends of the two
\* threads, POLLOUT and partial writes interleave; and the messages of one
\* thread are in the order it sent them, those that went through the loop's
\* queue included.
THEOREM BytesInOrder == Spec => []StreamInOrder
<1>1. IInv => StreamInOrder
  BY DEF IInv, OutputInv, SendInv, StreamInOrder
<1> QED BY <1>1, Inductive, PTL

\* A connection that is up asks for POLLOUT exactly while bytes wait in
\* outputBuffer_ (EnableWriting in SendInLoop, DisableWriting in HandleWrite).
THEOREM PolloutWhileBuffered == Spec => []WritingIffBuffered
<1>1. IInv => WritingIffBuffered
  BY DEF IInv, OutputInv
<1> QED BY <1>1, Inductive, PTL

=============================================================================
