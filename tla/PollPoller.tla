----------------------------- MODULE PollPoller -----------------------------
(***************************************************************************)
(* poller/PollPoller.cpp with the part of Channel that talks to it         *)
(* (Channel.h:54-60, Channel.cpp:74-81): the array handed to poll(2), the  *)
(* map from descriptor to channel, and the index every channel keeps into  *)
(* the array.                                                              *)
(*                                                                         *)
(* Indices are one-based, and 0 is the -1 of a channel that was never      *)
(* registered.  A descriptor that poll is to ignore is stored as -fd - 1,  *)
(* as in the code.  The revents of a slot and of a channel are read only   *)
(* in the round that wrote them: they are part of the active list here.    *)
(* All of it happens in the loop thread.                                   *)
(*                                                                         *)
(* Callers keep two rules throughout the library, and they are guards here:*)
(* a channel is registered by enabling an event, and is not used after     *)
(* Remove() ("Remove the channel, when it destructs", Poller.h).  The      *)
(* kernel keeps a third: no two open descriptors are equal.                *)
(***************************************************************************)
EXTENDS Integers, Sequences

CONSTANTS Chans,    \* Channel objects
          fd_,      \* channel -> its descriptor
          NoChan,   \* descriptor without an entry in channels_
          Ready     \* what the kernel may report of a descriptor

\* kReadEvent, kWriteEvent, and the events poll reports unasked (HUP, ERR).
kReadEvent == "read"
kWriteEvent == "write"
Unasked == "unasked"

ASSUME PollAssumption ==
    /\ fd_ \in [Chans -> Nat]
    /\ NoChan \notin Chans
    /\ Ready \subseteq SUBSET {kReadEvent, kWriteEvent, Unasked}

Fds == {fd_[c] : c \in Chans}

VARIABLES pollfds_,   \* sequence of [fd, events]
          channels_,  \* descriptor -> channel or NoChan
          index_, events_,  \* of every channel
          activeChannels_,  \* channel -> its revents_, {} if not on the list
          removed,    \* channels that were removed
          disabled    \* history: registered channels that had no event once

vars == <<pollfds_, channels_, index_, events_, activeChannels_, removed,
          disabled>>

Init ==
    /\ pollfds_ = <<>>
    /\ channels_ = [f \in Fds |-> NoChan]
    /\ index_ = [c \in Chans |-> 0]
    /\ events_ = [c \in Chans |-> {}]
    /\ activeChannels_ = [c \in Chans |-> {}]
    /\ removed = {} /\ disabled = {}

-----------------------------------------------------------------------------
Ignored(fd) == -fd - 1

RealFd(fd) == IF fd < 0 THEN -fd - 1 ELSE fd

Registered(c) == channels_[fd_[c]] = c

\* UpdateChannel for a channel with index -1.
AddChannel(c, ev) ==
    /\ pollfds_' = Append(pollfds_, [fd |-> fd_[c], events |-> ev])
    /\ index_' = [index_ EXCEPT ![c] = Len(pollfds_) + 1]
    /\ channels_' = [channels_ EXCEPT ![fd_[c]] = c]
    /\ UNCHANGED disabled

\* Mutant: the slot keeps the events of before.
ModifyChannel_KeepEvents(c, ev) ==
    /\ pollfds_' = [pollfds_ EXCEPT ![index_[c]] =
            [fd |-> IF ev = {} THEN Ignored(fd_[c]) ELSE @.fd,
             events |-> @.events]]
    /\ disabled' = IF ev = {} THEN disabled \cup {c} ELSE disabled
    /\ UNCHANGED <<index_, channels_>>

\* UpdateChannel for a registered channel.  Without events the descriptor is
\* replaced by its ignored form; nothing puts it back.
ModifyChannel(c, ev) ==
    /\ pollfds_' = [pollfds_ EXCEPT ![index_[c]] =
            [fd |-> IF ev = {} THEN Ignored(fd_[c]) ELSE @.fd,
             events |-> ev]]
    /\ disabled' = IF ev = {} THEN disabled \cup {c} ELSE disabled
    /\ UNCHANGED <<index_, channels_>>

UpdateChannel(c, ev) ==
    /\ events_' = [events_ EXCEPT ![c] = ev]
    /\ IF index_[c] = 0 THEN AddChannel(c, ev) ELSE ModifyChannel(c, ev)
    /\ UNCHANGED <<activeChannels_, removed>>

Usable(c) == c \notin removed /\ channels_[fd_[c]] \in {c, NoChan}

EnableReading(c) == Usable(c) /\ UpdateChannel(c, events_[c] \cup {kReadEvent})

enableWriting(c) == Usable(c) /\ UpdateChannel(c, events_[c] \cup {kWriteEvent})

disableWriting(c) ==
    Usable(c) /\ Registered(c) /\ UpdateChannel(c, events_[c] \ {kWriteEvent})

disableAllEvents(c) == Usable(c) /\ Registered(c) /\ UpdateChannel(c, {})

-----------------------------------------------------------------------------
\* The array without slot i: the last slot takes its place.
WithoutSlot(s, i) == [k \in 1 .. Len(s) - 1 |-> IF k = i THEN s[Len(s)] ELSE s[k]]

\* Mutant: the channel of the slot that moved keeps its index.
RemoveChannel_StaleIndex(c) ==
    /\ Usable(c) /\ Registered(c) /\ events_[c] = {}
    /\ channels_' = [channels_ EXCEPT ![fd_[c]] = NoChan]
    /\ removed' = removed \cup {c}
    /\ pollfds_' = WithoutSlot(pollfds_, index_[c])
    /\ UNCHANGED <<index_, events_, activeChannels_, disabled>>

\* Channel::Remove and RemoveChannel.  The index of the channel whose slot
\* moved is updated; that of the removed channel keeps its value.
RemoveChannel(c) ==
    /\ Usable(c) /\ Registered(c) /\ events_[c] = {}
    /\ channels_' = [channels_ EXCEPT ![fd_[c]] = NoChan]
    /\ removed' = removed \cup {c}
    /\ pollfds_' = WithoutSlot(pollfds_, index_[c])
    /\ index_' = IF index_[c] = Len(pollfds_) THEN index_
                 ELSE [index_ EXCEPT
                        ![channels_[RealFd(pollfds_[Len(pollfds_)].fd)]] = index_[c]]
    /\ UNCHANGED <<events_, activeChannels_, disabled>>

-----------------------------------------------------------------------------
\* poll(2), external: what it reports of a slot when `ready' is the state of
\* the descriptors.  A negative descriptor is skipped.
Polled(slot, ready) ==
    IF slot.fd < 0 THEN {}
    ELSE ready[slot.fd] \cap (slot.events \cup {Unasked})

\* What FillActiveChannels hands to channel c: the reports of the slots whose
\* descriptor channels_ maps to it.
Reported(c, ready) ==
    UNION {Polled(pollfds_[i], ready) : i \in
            {j \in DOMAIN pollfds_ : /\ pollfds_[j].fd >= 0
                                    /\ channels_[pollfds_[j].fd] = c}}

\* Poll and FillActiveChannels.
Poll(ready) ==
    /\ activeChannels_' = [c \in Chans |-> Reported(c, ready)]
    /\ UNCHANGED <<pollfds_, channels_, index_, events_, removed, disabled>>

Next ==
    \/ \E c \in Chans : \/ EnableReading(c) \/ enableWriting(c)
                        \/ disableWriting(c) \/ disableAllEvents(c)
                        \/ RemoveChannel(c)
    \/ \E ready \in [Fds -> Ready] : Poll(ready)

Spec == Init /\ [][Next]_vars

-----------------------------------------------------------------------------
Slot == [fd : Int, events : SUBSET {kReadEvent, kWriteEvent}]

TypeOK ==
    /\ pollfds_ \in Seq(Slot)
    /\ channels_ \in [Fds -> Chans \cup {NoChan}]
    /\ index_ \in [Chans -> Nat]
    /\ events_ \in [Chans -> SUBSET {kReadEvent, kWriteEvent}]
    /\ activeChannels_ \in
            [Chans -> SUBSET {kReadEvent, kWriteEvent, Unasked}]
    /\ removed \subseteq Chans /\ disabled \subseteq Chans

\* The array, the map and the indices agree (the asserts of UpdateChannel and
\* RemoveChannel, PollPoller.cpp:43-45,63-67, and of FillActiveChannels, 98-100):
\* the index of a registered channel leads to the slot with its descriptor
\* and its events, every slot belongs to the registered channel whose index
\* leads back to it, and a channel without events is ignored by poll.
SlotsMatch ==
    /\ \A c \in Chans : Registered(c) =>
            /\ index_[c] \in DOMAIN pollfds_
            /\ RealFd(pollfds_[index_[c]].fd) = fd_[c]
            /\ pollfds_[index_[c]].events = events_[c]
            /\ events_[c] = {} => pollfds_[index_[c]].fd = Ignored(fd_[c])
    /\ \A i \in DOMAIN pollfds_ :
            \E c \in Chans : Registered(c) /\ index_[c] = i

\* What a channel is to be told when the descriptors are in state `ready'.
Due(c, ready) == ready[fd_[c]] \cap (events_[c] \cup {Unasked})

\* Whatever the descriptors' state, Poll tells no channel anything but its own
\* events, and nothing to one that is removed or asks for no event.  One that
\* asks for events, and has done so since it was registered, is told all that
\* is due; one that had none in between is the concern of IgnoredForNow.
PollReportsDue ==
    \A ready \in [Fds -> Ready], c \in Chans :
        /\ Reported(c, ready) \subseteq Due(c, ready)
        /\ ~Registered(c) \/ events_[c] = {} => Reported(c, ready) = {}
        /\ Registered(c) /\ events_[c] # {} /\ c \notin disabled =>
                Reported(c, ready) = Due(c, ready)

\* A channel without events is ignored only for the time being, as the comments
\* at PollPoller.cpp:50 and 53 say: when it asks for events again it is told
\* what is due.
IgnoredForNow ==
    \A ready \in [Fds -> Ready], c \in Chans :
        Registered(c) /\ events_[c] # {} => Reported(c, ready) = Due(c, ready)

=============================================================================
