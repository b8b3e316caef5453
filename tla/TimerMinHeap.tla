---------------------------- MODULE TimerMinHeap ----------------------------
(***************************************************************************)
(* TimerQueue::TimerMinHeap (TimerQueue.cpp:11-179): a binary heap of      *)
(* timers, ordered by expiration, with a map from timer id to index.       *)
(* A heap is a record of the two containers; indices are one-based, so the *)
(* parent of i is i \div 2 and its children are 2i and 2i + 1, and index 0 *)
(* in positions_ stands for an id that is not a key of the map.  A timer's *)
(* interval is 0 if it is a one-shot timer.                                *)
(***************************************************************************)
EXTENDS Naturals, Sequences, SequencesExt

CONSTANTS MaxTimers,    \* bound: timers ever created; ids count from 0
          Intervals     \* intervals a timer may have

TimerIds == 0 .. MaxTimers - 1

Timer == [id : TimerIds, exp : Nat, interval : Intervals]

Heap == [timerList_ : Seq(Timer), positions_ : [TimerIds -> Nat]]

EmptyHeap == [timerList_ |-> <<>>, positions_ |-> [id \in TimerIds |-> 0]]

TimersOf(h) == {h.timerList_[i] : i \in DOMAIN h.timerList_}

\* positions_ is the inverse of timerList_.
Agree(h) ==
    /\ \A id \in TimerIds : h.positions_[id] # 0 <=> id \in {t.id : t \in TimersOf(h)}
    /\ \A i \in DOMAIN h.timerList_ : h.positions_[h.timerList_[i].id] = i

Empty(h) == h.timerList_ = <<>>

Top(h) == h.timerList_[1]

Expiration(h, i) == h.timerList_[i].exp

\* Mutant: only the timer moved to i has its index updated.
SwapTimers_OneIndex(h, i, j) ==
    [timerList_ |-> [h.timerList_ EXCEPT ![i] = h.timerList_[j],
                                         ![j] = h.timerList_[i]],
     positions_ |-> [h.positions_ EXCEPT ![h.timerList_[j].id] = i]]

\* swap(timerList_[i], timerList_[j]) with the two updates of positions_.
SwapTimers(h, i, j) ==
    [timerList_ |-> [h.timerList_ EXCEPT ![i] = h.timerList_[j],
                                         ![j] = h.timerList_[i]],
     positions_ |-> [h.positions_ EXCEPT ![h.timerList_[j].id] = i,
                                         ![h.timerList_[i].id] = j]]

\* A heap and the index the loop of Add or Adjust has reached in it.
Cursor == {c \in [heap : Heap, idx : Nat] : c.idx \in DOMAIN c.heap.timerList_}

\* The loop of Add: up while earlier than the parent.
SiftUp[c \in Cursor] ==
    LET parent == c.idx \div 2
    IN  IF c.idx > 1 /\ Expiration(c.heap, c.idx) < Expiration(c.heap, parent)
        THEN SiftUp[[heap |-> SwapTimers(c.heap, c.idx, parent), idx |-> parent]]
        ELSE c.heap

\* The new heap; Add returns TRUE iff the new timer became the top.
Add(h, t) ==
    LET idx == Len(h.timerList_) + 1
    IN  SiftUp[[heap |-> [timerList_ |-> Append(h.timerList_, t),
                          positions_ |-> [h.positions_ EXCEPT ![t.id] = idx]],
                idx |-> idx]]

\* The child that Adjust swaps idx with, idx itself if it is in its place.
Candidate(h, idx) ==
    LET size  == Len(h.timerList_)
        left  == 2 * idx
        right == 2 * idx + 1
        cand  == IF left <= size /\ Expiration(h, left) < Expiration(h, idx)
                 THEN left ELSE idx
    IN  IF right <= size /\ Expiration(h, right) < Expiration(h, cand)
        THEN right ELSE cand

\* Down, to the earlier child, while that one is earlier.
Adjust[c \in Cursor] ==
    LET candidate == Candidate(c.heap, c.idx)
    IN  IF candidate # c.idx
        THEN Adjust[[heap |-> SwapTimers(c.heap, c.idx, candidate),
                     idx |-> candidate]]
        ELSE c.heap

\* What Del and PopMovedTimer do at index idx: the last timer takes the place
\* of the one removed and is moved down, never up.
RemoveTimerAt(h, idx) ==
    LET back  == Last(h.timerList_)
        moved == [timerList_ |-> Front([h.timerList_ EXCEPT ![idx] = back]),
                  positions_ |-> [h.positions_ EXCEPT
                                    ![back.id] = idx,
                                    ![h.timerList_[idx].id] = 0]]
    IN  IF idx = Len(h.timerList_) THEN moved
        ELSE Adjust[[heap |-> moved, idx |-> idx]]

PopMovedTimer(h, id) == RemoveTimerAt(h, h.positions_[id])

\* An unknown id leaves the heap alone.
Del(h, id) ==
    IF h.positions_[id] # 0 THEN RemoveTimerAt(h, h.positions_[id]) ELSE h

\* Del returns TRUE iff it removed the top.
DelChangesTop(h, id) == h.positions_[id] = 1

\* heap_->Top().reset(new Timer(...)) followed by Adjust(0).
ReplaceTop(h, t) ==
    Adjust[[heap |-> [h EXCEPT !.timerList_[1] = t], idx |-> 1]]

=============================================================================
