------------------------------- MODULE Channel -------------------------------
(***************************************************************************)
(* Channel.cpp: which callbacks HandleEvents calls, and in which order, for *)
(* the events that poll(2) reported.  TcpClient.tla calls them one by one; *)
(* PollPoller.tla has the registration of a channel.                       *)
(***************************************************************************)
EXTENDS Sequences

\* HandleEventsWithGuard; `set' are the callbacks that have been set.
Callbacks(revents, set) ==
    LET call(cb, events) == IF cb \in set /\ events THEN <<cb>> ELSE <<>>
    IN  call("close", "HUP" \in revents /\ "IN" \notin revents)
            \o call("error", revents \cap {"ERR", "NVAL"} # {})
            \o call("read", revents \cap {"IN", "RDHUP", "PRI"} # {})
            \o call("write", "OUT" \in revents)

\* HandleEvents: a channel that is tied calls nothing once its owner is gone.
HandleEvents(tied, ownerGone, revents, set) ==
    IF tied /\ ownerGone THEN <<>> ELSE Callbacks(revents, set)

==============================================================================
