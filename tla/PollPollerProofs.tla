-------------------------- MODULE PollPollerProofs --------------------------
(***************************************************************************)
(* For any channels and descriptors, and any order of updates, removals    *)
(* and reuse of descriptors: array, map and indices of PollPoller agree,   *)
(* and poll reports to every channel that was never disabled what it is    *)
(* due, and nothing to the others.                                         *)
(***************************************************************************)
EXTENDS PollPoller, SequenceTheorems, TLAPS

\* The map leads from a descriptor to a channel of that descriptor.
MapInv == \A f \in Fds : channels_[f] # NoChan => fd_[channels_[f]] = f

\* A channel is registered iff it has an index and was not removed; one that
\* was without events has been registered.
LifeInv ==
    \A c \in Chans : /\ Registered(c) <=> index_[c] # 0 /\ c \notin removed
                     /\ c \in disabled => index_[c] # 0

\* A channel that always had events is in the array with its descriptor, any
\* other with the ignored form of it.
PolledInv ==
    \A c \in Chans : Registered(c) =>
        pollfds_[index_[c]].fd = IF c \in disabled THEN Ignored(fd_[c]) ELSE fd_[c]

IInv == TypeOK /\ MapInv /\ LifeInv /\ PolledInv /\ SlotsMatch

\* The encoding of an ignored descriptor is negative and can be undone.
LEMMA FdCode ==
    ASSUME NEW f \in Nat
    PROVE  /\ Ignored(f) \in Int /\ Ignored(f) < 0
           /\ RealFd(Ignored(f)) = f /\ RealFd(f) = f
  BY DEF Ignored, RealFd

\* Two registered channels never share a slot.
LEMMA OwnSlot ==
    ASSUME SlotsMatch, NEW c \in Chans, NEW e \in Chans,
           Registered(c), Registered(e), index_[c] = index_[e]
    PROVE  c = e
<1>1. fd_[c] = fd_[e]
  BY DEF SlotsMatch
<1> QED BY <1>1 DEF Registered

-----------------------------------------------------------------------------
\* Registering a new channel keeps the invariant.
LEMMA AddStep ==
    ASSUME IInv, NEW c \in Chans, NEW ev \in SUBSET {kReadEvent, kWriteEvent},
           ev # {}, Usable(c), UpdateChannel(c, ev), index_[c] = 0
    PROVE  IInv'
<1> USE PollAssumption DEF IInv
<1> DEFINE n == Len(pollfds_)
           slot == [fd |-> fd_[c], events |-> ev]
<1>1. /\ n \in Nat /\ DOMAIN pollfds_ = 1 .. n
      /\ pollfds_' = Append(pollfds_, slot)
      /\ index_' = [index_ EXCEPT ![c] = n + 1]
      /\ channels_' = [channels_ EXCEPT ![fd_[c]] = c]
      /\ events_' = [events_ EXCEPT ![c] = ev]
      /\ UNCHANGED <<disabled, removed, activeChannels_>>
  BY LenProperties DEF UpdateChannel, AddChannel, TypeOK
<1>2. /\ slot \in Slot /\ fd_[c] \in Fds
      /\ channels_[fd_[c]] = NoChan
      /\ c \notin removed
  BY DEF Slot, Fds, Usable, LifeInv, Registered
<1>3. /\ pollfds_' \in Seq(Slot) /\ DOMAIN pollfds_' = 1 .. n + 1
      /\ \A i \in 1 .. n : pollfds_'[i] = pollfds_[i]
      /\ pollfds_'[n + 1] = slot
  BY <1>1, <1>2, AppendProperties DEF TypeOK
<1>4. TypeOK'
  BY <1>1, <1>2, <1>3 DEF TypeOK
<1>5. MapInv'
  BY <1>1, <1>2 DEF TypeOK, MapInv
<1>6. /\ Registered(c)'
      /\ \A e \in Chans \ {c} : /\ Registered(e)' <=> Registered(e)
                                /\ index_'[e] = index_[e]
                                /\ events_'[e] = events_[e]
  BY <1>1, <1>2 DEF TypeOK, Registered, Fds
<1>7. index_'[c] = n + 1 /\ events_'[c] = ev
  BY <1>1 DEF TypeOK
<1>8. LifeInv'
  BY <1>1, <1>2, <1>6, <1>7 DEF LifeInv, TypeOK
<1>9. \A e \in Chans \ {c} : Registered(e) => index_[e] \in 1 .. n
  BY <1>1 DEF SlotsMatch
<1>10. PolledInv'
  <2>1. c \notin disabled'
    BY <1>1 DEF LifeInv
  <2>2. pollfds_'[index_'[c]].fd = fd_[c]
    BY <1>3, <1>7
  <2>3. ASSUME NEW e \in Chans \ {c}, Registered(e)
        PROVE  pollfds_'[index_'[e]] = pollfds_[index_[e]]
    BY <1>3, <1>6, <1>9, <2>3
  <2> QED BY <1>1, <1>6, <2>1, <2>2, <2>3, ZenonT(60) DEF PolledInv
<1>11. SlotsMatch'
  <2>1. ASSUME NEW e \in Chans, Registered(e)'
        PROVE  /\ index_'[e] \in DOMAIN pollfds_'
               /\ RealFd(pollfds_'[index_'[e]].fd) = fd_[e]
               /\ pollfds_'[index_'[e]].events = events_'[e]
               /\ events_'[e] = {} =>
                        pollfds_'[index_'[e]].fd = Ignored(fd_[e])
    <3>1. CASE e = c
      BY <1>1, <1>3, <1>7, <3>1, FdCode
    <3>2. CASE e # c
      BY <1>1, <1>3, <1>6, <1>9, <2>1, <3>2 DEF SlotsMatch
    <3> QED BY <3>1, <3>2
  <2>2. ASSUME NEW i \in DOMAIN pollfds_'
        PROVE  \E e \in Chans : Registered(e)' /\ index_'[e] = i
    <3>1. CASE i = n + 1
      BY <1>6, <1>7, <3>1
    <3>2. CASE i # n + 1
      <4>1. i \in DOMAIN pollfds_
        BY <1>1, <1>3, <3>2
      <4>2. PICK e \in Chans : Registered(e) /\ index_[e] = i
        BY <4>1 DEF SlotsMatch
      <4>3. e # c
        BY <1>1, <4>1, <4>2
      <4> QED BY <1>6, <4>2, <4>3
    <3> QED BY <3>1, <3>2
  <2>3. \A e \in Chans : Registered(e)' =>
            /\ index_'[e] \in DOMAIN pollfds_'
            /\ RealFd(pollfds_'[index_'[e]].fd) = fd_[e]
            /\ pollfds_'[index_'[e]].events = events_'[e]
            /\ events_'[e] = {} => pollfds_'[index_'[e]].fd = Ignored(fd_[e])
    BY <2>1
  <2>4. \A i \in DOMAIN pollfds_' :
            \E e \in Chans : Registered(e)' /\ index_'[e] = i
    BY <2>2
  <2> QED BY <2>3, <2>4 DEF SlotsMatch
<1> QED BY <1>4, <1>5, <1>8, <1>10, <1>11

\* Changing the events of a registered channel keeps the invariant.
LEMMA ModifyStep ==
    ASSUME IInv, NEW c \in Chans, NEW ev \in SUBSET {kReadEvent, kWriteEvent},
           Usable(c), UpdateChannel(c, ev), index_[c] # 0
    PROVE  IInv'
<1> USE PollAssumption DEF IInv
<1> DEFINE i == index_[c]
           slot == [fd |-> IF ev = {} THEN Ignored(fd_[c]) ELSE pollfds_[i].fd,
                    events |-> ev]
<1>1. Registered(c)
  BY DEF LifeInv, Usable
<1>2. i \in DOMAIN pollfds_ /\ RealFd(pollfds_[i].fd) = fd_[c]
  BY <1>1 DEF SlotsMatch
<1>3. /\ pollfds_' = [pollfds_ EXCEPT ![i] = slot]
      /\ events_' = [events_ EXCEPT ![c] = ev]
      /\ disabled' = IF ev = {} THEN disabled \cup {c} ELSE disabled
      /\ UNCHANGED <<index_, channels_, removed, activeChannels_>>
  <2>1. ModifyChannel(c, ev)
    BY DEF UpdateChannel
  <2>2. pollfds_' = [pollfds_ EXCEPT ![i] = slot]
    BY <2>1, Zenon DEF ModifyChannel
  <2>3. /\ disabled' = IF ev = {} THEN disabled \cup {c} ELSE disabled
        /\ UNCHANGED <<index_, channels_>>
    BY <2>1 DEF ModifyChannel
  <2>4. /\ events_' = [events_ EXCEPT ![c] = ev]
        /\ UNCHANGED <<removed, activeChannels_>>
    BY DEF UpdateChannel
  <2> QED BY <2>2, <2>3, <2>4
<1>4. pollfds_[i].fd \in Int /\ fd_[c] \in Nat
  <2>1. pollfds_[i] \in Slot
    BY <1>2, ElementOfSeq, LenProperties DEF TypeOK
  <2> QED BY <2>1 DEF Slot
<1>5. slot \in Slot
  BY <1>4, FdCode DEF Slot
<1>6. /\ pollfds_' \in Seq(Slot) /\ DOMAIN pollfds_' = DOMAIN pollfds_
      /\ pollfds_'[i] = slot
      /\ \A j \in DOMAIN pollfds_ : j # i => pollfds_'[j] = pollfds_[j]
  BY <1>2, <1>3, <1>5, ExceptSeq, LenProperties DEF TypeOK
<1>7. TypeOK'
  BY <1>3, <1>6 DEF TypeOK
<1>8. \A e \in Chans : /\ Registered(e)' <=> Registered(e)
                       /\ e # c => events_'[e] = events_[e]
  BY <1>3 DEF TypeOK, Registered
<1>9. MapInv' /\ LifeInv'
  BY <1>3, <1>8 DEF MapInv, LifeInv
<1>10. \A e \in Chans : Registered(e) /\ e # c => index_[e] # i
  BY <1>1, OwnSlot
<1>11. events_'[c] = ev
  BY <1>3 DEF TypeOK
<1>12. PolledInv'
  <2> SUFFICES ASSUME NEW e \in Chans, Registered(e)
               PROVE  pollfds_'[index_[e]].fd =
                            IF e \in disabled' THEN Ignored(fd_[e]) ELSE fd_[e]
    BY <1>3, <1>8 DEF PolledInv
  <2>1. CASE e = c
    <3>1. CASE ev = {}
      BY <1>3, <1>6, <2>1, <3>1
    <3>2. CASE ev # {}
      BY <1>1, <1>3, <1>6, <2>1, <3>2 DEF PolledInv
    <3> QED BY <3>1, <3>2
  <2>2. CASE e # c
    <3>1. index_[e] \in DOMAIN pollfds_ /\ index_[e] # i
      BY <1>10, <2>2 DEF SlotsMatch
    <3>2. e \in disabled' <=> e \in disabled
      BY <1>3, <2>2
    <3> QED BY <1>6, <3>1, <3>2 DEF PolledInv
  <2> QED BY <2>1, <2>2
<1>13. SlotsMatch'
  <2>1. ASSUME NEW e \in Chans, Registered(e)
        PROVE  /\ index_[e] \in DOMAIN pollfds_'
               /\ RealFd(pollfds_'[index_[e]].fd) = fd_[e]
               /\ pollfds_'[index_[e]].events = events_'[e]
               /\ events_'[e] = {} =>
                        pollfds_'[index_[e]].fd = Ignored(fd_[e])
    <3>1. CASE e = c
      BY <1>2, <1>4, <1>6, <1>11, <3>1, FdCode
    <3>2. CASE e # c
      BY <1>6, <1>8, <1>10, <2>1, <3>2 DEF SlotsMatch
    <3> QED BY <3>1, <3>2
  <2>2. \A j \in DOMAIN pollfds_' :
            \E e \in Chans : Registered(e)' /\ index_'[e] = j
    BY <1>3, <1>6, <1>8 DEF SlotsMatch
  <2>3. \A e \in Chans : Registered(e)' =>
            /\ index_'[e] \in DOMAIN pollfds_'
            /\ RealFd(pollfds_'[index_'[e]].fd) = fd_[e]
            /\ pollfds_'[index_'[e]].events = events_'[e]
            /\ events_'[e] = {} => pollfds_'[index_'[e]].fd = Ignored(fd_[e])
    BY <1>3, <1>8, <2>1
  <2> QED BY <2>2, <2>3 DEF SlotsMatch
<1> QED BY <1>7, <1>9, <1>12, <1>13

-----------------------------------------------------------------------------
\* Removing a channel keeps the invariant: the slot that moves belongs to the
\* channel whose index is updated.
LEMMA RemoveStep ==
    ASSUME IInv, NEW c \in Chans, RemoveChannel(c)
    PROVE  IInv'
<1> USE PollAssumption DEF IInv
<1> DEFINE n == Len(pollfds_)
           i == index_[c]
<1>1. /\ Registered(c)
      /\ channels_' = [channels_ EXCEPT ![fd_[c]] = NoChan]
      /\ removed' = removed \cup {c}
      /\ pollfds_' = WithoutSlot(pollfds_, i)
      /\ UNCHANGED <<events_, activeChannels_, disabled>>
  BY DEF RemoveChannel
<1>2. n \in Nat /\ DOMAIN pollfds_ = 1 .. n /\ i \in 1 .. n
  BY <1>1, LenProperties DEF TypeOK, SlotsMatch
<1>3. PICK last \in Chans : Registered(last) /\ index_[last] = n
  <2>1. n \in DOMAIN pollfds_
    BY <1>2
  <2> QED BY <2>1, Zenon DEF SlotsMatch
<1>4. channels_[RealFd(pollfds_[n].fd)] = last
  BY <1>3 DEF SlotsMatch, Registered
<1>5. \A e \in Chans : index_'[e] = IF i # n /\ e = last THEN i ELSE index_[e]
  <2>1. index_' = IF i = n THEN index_ ELSE [index_ EXCEPT ![last] = i]
    BY <1>4 DEF RemoveChannel
  <2> QED BY <1>3, <2>1 DEF TypeOK
<1>6. index_' \in [Chans -> Nat]
  BY <1>2, <1>3, <1>4 DEF RemoveChannel, TypeOK
<1>7. /\ pollfds_' \in Seq(Slot) /\ DOMAIN pollfds_' = 1 .. n - 1
      /\ \A k \in 1 .. n - 1 : pollfds_'[k] = IF k = i THEN pollfds_[n]
                                             ELSE pollfds_[k]
  <2>1. \A k \in 1 .. n : pollfds_[k] \in Slot
    BY <1>2, ElementOfSeq DEF TypeOK
  <2>2. pollfds_' = [k \in 1 .. n - 1 |-> IF k = i THEN pollfds_[n]
                                         ELSE pollfds_[k]]
    BY <1>1 DEF WithoutSlot
  <2>3. pollfds_' \in [1 .. n - 1 -> Slot] /\ n - 1 \in Nat
    BY <1>2, <2>1, <2>2
  <2> QED BY <2>2, <2>3, SMTT(60)
<1>8. TypeOK'
  BY <1>1, <1>6, <1>7 DEF TypeOK
<1>9. \A e \in Chans : Registered(e)' <=> Registered(e) /\ e # c
  BY <1>1 DEF TypeOK, Registered, Fds
<1>10. MapInv'
  BY <1>1 DEF MapInv, TypeOK
<1>11. LifeInv'
  BY <1>1, <1>2, <1>3, <1>5, <1>9 DEF LifeInv
<1>12. ASSUME NEW e \in Chans, Registered(e), e # c
       PROVE  /\ index_'[e] \in 1 .. n - 1
              /\ pollfds_'[index_'[e]] = pollfds_[index_[e]]
  <2>1. index_[e] \in 1 .. n /\ index_[e] # i
    BY <1>1, <1>2, <1>12, OwnSlot DEF SlotsMatch
  <2>2. CASE e = last
    <3>1. i # n
      BY <1>3, <2>1, <2>2
    <3> QED BY <1>2, <1>3, <1>5, <1>7, <2>2, <3>1
  <2>3. CASE e # last
    <3>1. index_[e] # n
      BY <1>3, <1>12, <2>3, OwnSlot
    <3> QED BY <1>2, <1>5, <1>7, <2>1, <2>3, <3>1
  <2> QED BY <2>2, <2>3
<1>13. PolledInv'
  BY <1>1, <1>9, <1>12 DEF PolledInv
<1>14. SlotsMatch'
  <2>1. \A e \in Chans : Registered(e)' =>
            /\ index_'[e] \in DOMAIN pollfds_'
            /\ RealFd(pollfds_'[index_'[e]].fd) = fd_[e]
            /\ pollfds_'[index_'[e]].events = events_'[e]
            /\ events_'[e] = {} => pollfds_'[index_'[e]].fd = Ignored(fd_[e])
    BY <1>1, <1>7, <1>9, <1>12 DEF SlotsMatch
  <2>2. ASSUME NEW j \in DOMAIN pollfds_'
        PROVE  \E e \in Chans : Registered(e)' /\ index_'[e] = j
    <3>1. j \in 1 .. n - 1
      BY <1>7
    <3>2. CASE j = i
      <4>1. i # n /\ last # c
        BY <1>2, <1>3, <3>1, <3>2
      <4> QED BY <1>3, <1>5, <1>9, <3>2, <4>1
    <3>3. CASE j # i
      <4>1. PICK e \in Chans : Registered(e) /\ index_[e] = j
        BY <1>2, <3>1 DEF SlotsMatch
      <4>2. e # c /\ e # last
        BY <1>2, <1>3, <3>1, <3>3, <4>1
      <4> QED BY <1>5, <1>9, <4>1, <4>2
    <3> QED BY <3>2, <3>3
  <2>3. \A j \in DOMAIN pollfds_' :
            \E e \in Chans : Registered(e)' /\ index_'[e] = j
    BY <2>2
  <2> QED BY <2>1, <2>3 DEF SlotsMatch
<1> QED BY <1>8, <1>10, <1>11, <1>13, <1>14

-----------------------------------------------------------------------------
\* What poll reports has the type of the active list.
LEMMA ReportedType ==
    ASSUME TypeOK, NEW c \in Chans, NEW ready \in [Fds -> Ready]
    PROVE  Reported(c, ready) \subseteq {kReadEvent, kWriteEvent, Unasked}
<1>1. ASSUME NEW j \in DOMAIN pollfds_
      PROVE  Polled(pollfds_[j], ready) \subseteq
                    {kReadEvent, kWriteEvent, Unasked}
  <2>1. pollfds_[j] \in Slot
    BY ElementOfSeq, LenProperties DEF TypeOK
  <2> QED BY <2>1 DEF Polled, Slot
<1> QED BY <1>1 DEF Reported

\* The inductive invariant of PollPoller.
THEOREM Invariance == Spec => []IInv
<1>1. Init => IInv
  <2> SUFFICES ASSUME Init PROVE IInv
    OBVIOUS
  <2>1. TypeOK
    <3>1. pollfds_ \in Seq(Slot)
      BY EmptySeq DEF Init
    <3> QED BY <3>1 DEF Init, TypeOK
  <2>2. \A c \in Chans : ~Registered(c)
    BY PollAssumption DEF Init, Registered, Fds
  <2>3. MapInv /\ LifeInv /\ PolledInv
    BY <2>2 DEF Init, MapInv, LifeInv, PolledInv
  <2>4. SlotsMatch
    BY <2>2 DEF Init, SlotsMatch
  <2> QED BY <2>1, <2>3, <2>4 DEF IInv
<1>2. IInv /\ [Next]_vars => IInv'
  <2> SUFFICES ASSUME IInv, [Next]_vars PROVE IInv'
    OBVIOUS
  <2>1. ASSUME NEW c \in Chans, NEW ev \in SUBSET {kReadEvent, kWriteEvent},
               ev # {} \/ Registered(c), Usable(c), UpdateChannel(c, ev)
        PROVE  IInv'
    <3>1. CASE index_[c] = 0
      <4>1. ev # {}
        BY <2>1, <3>1 DEF IInv, LifeInv
      <4> QED BY <2>1, <3>1, <4>1, AddStep
    <3>2. CASE index_[c] # 0
      BY <2>1, <3>2, ModifyStep
    <3> QED BY <3>1, <3>2
  <2>2. ASSUME NEW c \in Chans, EnableReading(c) PROVE IInv'
    <3>1. events_[c] \cup {kReadEvent} \in SUBSET {kReadEvent, kWriteEvent}
      BY DEF IInv, TypeOK
    <3> QED BY <2>1, <2>2, <3>1 DEF EnableReading
  <2>3. ASSUME NEW c \in Chans, enableWriting(c) PROVE IInv'
    <3>1. events_[c] \cup {kWriteEvent} \in SUBSET {kReadEvent, kWriteEvent}
      BY DEF IInv, TypeOK
    <3> QED BY <2>1, <2>3, <3>1 DEF enableWriting
  <2>4. ASSUME NEW c \in Chans, disableWriting(c) PROVE IInv'
    <3>1. events_[c] \ {kWriteEvent} \in SUBSET {kReadEvent, kWriteEvent}
      BY DEF IInv, TypeOK
    <3> QED BY <2>1, <2>4, <3>1 DEF disableWriting
  <2>5. ASSUME NEW c \in Chans, disableAllEvents(c) PROVE IInv'
    <3>1. {} \in SUBSET {kReadEvent, kWriteEvent}
      OBVIOUS
    <3> QED BY <2>1, <2>5, <3>1 DEF disableAllEvents
  <2>6. ASSUME NEW c \in Chans, RemoveChannel(c) PROVE IInv'
    BY <2>6, RemoveStep
  <2>7. ASSUME NEW ready \in [Fds -> Ready], Poll(ready) PROVE IInv'
    <3>1. activeChannels_' \in
                [Chans -> SUBSET {kReadEvent, kWriteEvent, Unasked}]
      <4>1. \A c \in Chans :
                Reported(c, ready) \in SUBSET {kReadEvent, kWriteEvent, Unasked}
        BY <2>7, ReportedType DEF IInv
      <4>2. activeChannels_' = [c \in Chans |-> Reported(c, ready)]
        BY <2>7 DEF Poll
      <4> QED BY <4>1, <4>2
    <3> QED BY <2>7, <3>1 DEF Poll, IInv, TypeOK, MapInv, LifeInv, PolledInv,
                              SlotsMatch, Registered
  <2>8. CASE UNCHANGED vars
    BY <2>8 DEF vars, IInv, TypeOK, MapInv, LifeInv, PolledInv, SlotsMatch,
                Registered
  <2> QED BY <2>2, <2>3, <2>4, <2>5, <2>6, <2>7, <2>8 DEF Next
<1> QED BY <1>1, <1>2, PTL DEF Spec

\* Array, map and indices agree, whatever is registered, updated and removed:
\* the asserts of PollPoller.cpp never fail.
THEOREM SlotsAlwaysMatch == Spec => []SlotsMatch
<1>1. IInv => SlotsMatch
  BY DEF IInv
<1> QED BY <1>1, Invariance, PTL

\* What Poll reports: a channel that was never disabled is told all that it is
\* due, and the others nothing.
LEMMA PolledExactly ==
    ASSUME IInv, NEW ready \in [Fds -> Ready], NEW c \in Chans
    PROVE  Reported(c, ready) = IF Registered(c) /\ c \notin disabled
                                THEN Due(c, ready) ELSE {}
<1> USE PollAssumption DEF IInv
<1> DEFINE Mine == {j \in DOMAIN pollfds_ : /\ pollfds_[j].fd >= 0
                                           /\ channels_[pollfds_[j].fd] = c}
<1>1. ASSUME NEW j \in Mine PROVE Registered(c) /\ j = index_[c]
  <2>1. PICK e \in Chans : Registered(e) /\ index_[e] = j
    BY DEF SlotsMatch
  <2>2. pollfds_[j].fd = fd_[e]
    <3>1. j \in DOMAIN pollfds_ /\ pollfds_[j].fd >= 0
      OBVIOUS
    <3>2. pollfds_[j] \in Slot
      BY <3>1, ElementOfSeq, LenProperties DEF TypeOK
    <3>3. RealFd(pollfds_[j].fd) = fd_[e]
      BY <2>1 DEF SlotsMatch
    <3> QED BY <3>1, <3>2, <3>3 DEF RealFd, Slot
  <2>3. e = c
    BY <2>1, <2>2 DEF Registered
  <2> QED BY <2>1, <2>3
<1>2. CASE Registered(c) /\ c \notin disabled
  <2>1. /\ index_[c] \in DOMAIN pollfds_
        /\ pollfds_[index_[c]].fd = fd_[c] /\ fd_[c] \in Nat
        /\ pollfds_[index_[c]].events = events_[c]
    BY <1>2 DEF SlotsMatch, PolledInv
  <2>2. Mine = {index_[c]}
    BY <1>1, <1>2, <2>1 DEF Registered
  <2>3. Polled(pollfds_[index_[c]], ready) = Due(c, ready)
    BY <2>1 DEF Polled, Due
  <2> QED BY <1>2, <2>2, <2>3 DEF Reported
<1>3. CASE ~Registered(c)
  <2>1. Mine = {}
    BY <1>1, <1>3
  <2> QED BY <1>3, <2>1 DEF Reported
<1>4. CASE Registered(c) /\ c \in disabled
  <2>1. ~(pollfds_[index_[c]].fd >= 0)
    <3>1. pollfds_[index_[c]].fd = Ignored(fd_[c]) /\ fd_[c] \in Nat
      BY <1>4 DEF PolledInv
    <3> QED BY <3>1, FdCode
  <2>2. Mine = {}
    BY <1>1, <2>1, <1>4
  <2> QED BY <1>4, <2>2 DEF Reported
<1> QED BY <1>2, <1>3, <1>4

\* PollReportsDue: no channel is told anything but its own events, none is told
\* anything while it asks for nothing, and one that was never disabled is told
\* all that it is due.
THEOREM PollIsExact == Spec => []PollReportsDue
<1>1. IInv => PollReportsDue
  <2> SUFFICES ASSUME IInv, NEW ready \in [Fds -> Ready], NEW c \in Chans
               PROVE  /\ Reported(c, ready) \subseteq Due(c, ready)
                      /\ ~Registered(c) \/ events_[c] = {} =>
                            Reported(c, ready) = {}
                      /\ Registered(c) /\ events_[c] # {} /\ c \notin disabled =>
                            Reported(c, ready) = Due(c, ready)
    BY DEF PollReportsDue
  <2>1. Reported(c, ready) = IF Registered(c) /\ c \notin disabled
                             THEN Due(c, ready) ELSE {}
    BY PolledExactly
  <2>2. Registered(c) /\ events_[c] = {} => c \in disabled
    <3> SUFFICES ASSUME Registered(c), events_[c] = {}, c \notin disabled
                 PROVE  FALSE
      OBVIOUS
    <3>1. pollfds_[index_[c]].fd = Ignored(fd_[c])
      BY DEF IInv, SlotsMatch
    <3>2. pollfds_[index_[c]].fd = fd_[c]
      BY DEF IInv, PolledInv
    <3>3. fd_[c] \in Nat
      BY PollAssumption
    <3> QED BY <3>1, <3>2, <3>3 DEF Ignored
  <2> QED BY <2>1, <2>2
<1> QED BY <1>1, Invariance, PTL

=============================================================================
