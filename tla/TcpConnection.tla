---------------------------- MODULE TcpConnection ----------------------------
(***************************************************************************)
(* TcpConnection.cpp: what the functions that run in the connection's loop *)
(* do to one connection, as operators from the connection to the           *)
(* connection.  TcpServer.tla calls them, as the loops do.                 *)
(*                                                                         *)
(* A message is two bytes, both written as the message itself, so that a   *)
(* write can stop in the middle of one.  What write(2) takes is the        *)
(* parameter n (0 for EWOULDBLOCK); `fault' stands for EPIPE or ECONNRESET.*)
(* outputBuffer_ is a buffer of Buffer.tla; inputBuffer_ is in TcpClient.tla.*)
(***************************************************************************)
EXTENDS Buffer

CONSTANT highWaterMark_

ASSUME HighWaterAssumption == highWaterMark_ \in Nat

\* The constructor.  The fields from ups on are history.
NewConnection ==
    [state_ |-> "connecting",
     chan |-> "new",         \* then "added" to the poller, then "removed"
     events |-> {},          \* of chan_
     outputBuffer_ |-> NewBuffer,
     wire |-> <<>>,          \* bytes write(2) took
     shut |-> FALSE,         \* shutdown(SHUT_WR) was called
     ups |-> 0, downs |-> 0, \* calls of connectionCb_
     accepted |-> <<>>,      \* bytes passed to SendInLoop, in that order
     broken |-> FALSE,       \* a message was given up because of a fault
     submitted |-> {},       \* messages Send let through
     owed |-> {}]            \* those of them that the thread that called
                             \* Shutdown had sent itself

IsWriting(k) == "write" \in k.events

StepIntoEstablished(k) ==
    [k EXCEPT !.state_ = "connected", !.chan = "added", !.events = {"read"},
              !.ups = @ + 1]

\* Only a connected channel is disabled before it is removed.
StepIntoDestroyed(k) ==
    LET wasConnected == k.state_ = "connected"
    IN  [k EXCEPT !.state_ = IF wasConnected THEN "disconnected" ELSE @,
                  !.events = IF wasConnected THEN {} ELSE @,
                  !.downs = @ + 1,
                  !.chan = "removed"]

\* Mutant: the poller goes on reporting the closed connection.
HandleClose_KeepsEvents(k) == [k EXCEPT !.state_ = "disconnected"]

\* HandleClose up to onCloseCb_.
HandleClose(k) == [k EXCEPT !.events = {}, !.state_ = "disconnected"]

\* While a write is pending the FIN is left to HandleWrite.
ShutdownInLoop(k) == IF IsWriting(k) THEN k ELSE [k EXCEPT !.shut = TRUE]

\* write(2) took n bytes of outputBuffer_.
WroteOut(k, n) ==
    [k EXCEPT !.wire = @ \o Peek(k.outputBuffer_, n),
              !.outputBuffer_ = Retrieve(@, n)]

\* Mutant: the channel goes on writing when the buffer is empty.
HandleWrite_KeepsWriting(k, n) == WroteOut(k, n)

\* For a channel that is writing; for another one HandleWrite does nothing.
HandleWrite(k, n) ==
    LET sent == WroteOut(k, n)
        idle == [sent EXCEPT !.events = @ \ {"write"}]
    IN  IF ReadableBytes(sent.outputBuffer_) > 0 THEN sent
        ELSE IF k.state_ = "disconnecting" THEN ShutdownInLoop(idle) ELSE idle

Bytes(m) == <<m, m>>

\* Mutant: a direct write is tried although bytes are waiting.
WritesDirectly_Always(k) == TRUE

WritesDirectly(k) == ~IsWriting(k) /\ ReadableBytes(k.outputBuffer_) = 0

\* SendInLoop of message m of which write(2) takes n bytes; n is 0 if the
\* write is not tried.
SendInLoop(k, m, n) ==
    LET rest == SubSeq(Bytes(m), n + 1, 2)
    IN  [k EXCEPT !.accepted = @ \o Bytes(m),
                  !.wire = @ \o SubSeq(Bytes(m), 1, n),
                  !.outputBuffer_ = BufferAppend(@, rest),
                  !.events = IF rest = <<>> THEN @ ELSE @ \cup {"write"}]

\* What SendInLoop may end in: the connection and the callbacks it enqueues.
\* After SHUT_WR write(2) fails.
SendOutcomes(k, m) ==
    LET fault == [k |-> [k EXCEPT !.broken = TRUE], posts |-> <<>>]
        old   == ReadableBytes(k.outputBuffer_)
        after(n) == [k |-> SendInLoop(k, m, n),
                     posts |-> IF n = 2 THEN <<"writeComplete">>
                               ELSE IF /\ old + 2 - n >= highWaterMark_
                                       /\ old < highWaterMark_
                               THEN <<"highWater">> ELSE <<>>]
    IN  IF k.state_ = "disconnected" THEN {[k |-> k, posts |-> <<>>]}
        ELSE IF ~WritesDirectly(k) THEN {after(0)}
        ELSE IF k.shut THEN {fault}
        ELSE {fault} \cup {after(n) : n \in 0 .. 2}

=============================================================================
