------------------------------ MODULE Connector ------------------------------
(***************************************************************************)
(* Connector.cpp: what its functions do to the connector of one client, as *)
(* operators from the connector to the connector, or to the set of         *)
(* connectors that the results of connect(2) allow.  TcpClient.tla calls   *)
(* them, as the loop does.                                                 *)
(*                                                                         *)
(* A retry timer is counted in `armed' from the round after the one that   *)
(* set it: the shortest delay is half a second, and the handlers of one    *)
(* round are assumed to take less.                                         *)
(***************************************************************************)
EXTENDS Naturals

CONSTANTS kInitRetryDelayMs, kMaxRetryDelayMs

ASSUME DelayAssumption ==
    /\ kInitRetryDelayMs \in Nat \ {0} /\ kMaxRetryDelayMs \in Nat
    /\ kInitRetryDelayMs <= kMaxRetryDelayMs

NewConnector ==
    [opState_ |-> "kDisconnected",
     connect_ |-> FALSE,
     chan_ |-> "null",     \* "added" to the poller, "removed" but not yet reset
     retryDelayMs_ |-> kInitRetryDelayMs,
     justSet |-> 0,        \* retry timers set in this round
     armed |-> 0,          \* retry timers set before
     gaveUp |-> FALSE]     \* history: connect(2) failed for good

\* connect(2) succeeded or is in progress: wait for POLLOUT.
InitConnectOp(k) == [k EXCEPT !.opState_ = "kConnecting", !.chan_ = "added"]

\* Mutant: the timer is set, but the state stays what it was.
Retry_KeepsState(k) ==
    IF k.connect_ THEN [k EXCEPT !.justSet = @ + 1] ELSE k

Retry(k) ==
    LET down == [k EXCEPT !.opState_ = "kDisconnected"]
        next == IF 2 * k.retryDelayMs_ < kMaxRetryDelayMs
                THEN 2 * k.retryDelayMs_ ELSE kMaxRetryDelayMs
    IN  IF k.connect_
        THEN [down EXCEPT !.justSet = @ + 1, !.retryDelayMs_ = next]
        ELSE down

\* In progress, a failure worth a retry, or any other failure.
DoConnect(k) == {InitConnectOp(k), Retry(k), [k EXCEPT !.gaveUp = TRUE]}

StartInLoop(k) == IF k.connect_ THEN DoConnect(k) ELSE {k}

\* The reset of chan_ is left to a functor: the channel's handler is running.
RemoveAndResetChannel(k) == [k EXCEPT !.chan_ = "removed"]

ResetChannel(k) == [k EXCEPT !.chan_ = "null"]

\* POLLERR.
HandleAsyncError(k) ==
    IF k.opState_ = "kConnecting" THEN Retry(RemoveAndResetChannel(k)) ELSE k

\* POLLOUT; after a POLLERR it finds nothing to do any more.  With `err' from
\* getSocketError it is as above.  Otherwise the socket is handed to cb_, or
\* closed after a Stop().
ConnectorHandleWrite(k, err) ==
    IF k.opState_ # "kConnecting" THEN k
    ELSE IF err THEN Retry(RemoveAndResetChannel(k))
    ELSE [RemoveAndResetChannel(k) EXCEPT
            !.opState_ = IF k.connect_ THEN "kConnected" ELSE "kDisconnected"]

Restart(k) ==
    StartInLoop([k EXCEPT !.retryDelayMs_ = kInitRetryDelayMs,
                          !.opState_ = "kDisconnected", !.connect_ = TRUE])

ConnectorStart(k) == [k EXCEPT !.connect_ = TRUE]

ConnectorStop(k) == [k EXCEPT !.connect_ = FALSE]

\* The clock: timers of this round may fire in the next.
NextRound(k) == [k EXCEPT !.armed = @ + k.justSet, !.justSet = 0]

=============================================================================
