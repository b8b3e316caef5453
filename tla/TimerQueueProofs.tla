-------------------------- MODULE TimerQueueProofs --------------------------
(***************************************************************************)
(* Proofs about the timer queue: the heap of timers keeps its two          *)
(* containers in agreement, a cancelled timer never comes back, and, as    *)
(* long as no cancellation breaks the order of the heap, the timerfd is    *)
(* armed for the earliest timer and the handler takes every timer that is  *)
(* due.                                                                    *)
(***************************************************************************)
EXTENDS TimerQueue, SequenceTheorems, FiniteSetTheorems, TLAPS

-----------------------------------------------------------------------------
(* Induction over the natural numbers, and loops.                          *)

LEMMA LeastNumber ==
    ASSUME NEW T \in SUBSET Nat, T # {}
    PROVE  \E n \in T : \A m \in T : n <= m
<1> DEFINE R == OpToRel(<, Nat)
<1>1. IsWellFoundedOn(R, Nat)
  BY NatLessThanWellFounded
<1>2. \E x \in T : \A y \in T : ~(<<y, x>> \in R)
  <2> HIDE DEF R
  <2> QED BY <1>1, WFMin
<1>3. \A x, y \in Nat : x < y => <<x, y>> \in R
  BY DEF OpToRel
<1>4. PICK x \in T : \A y \in T : ~(<<y, x>> \in R)
  BY <1>2
<1>5. \A y \in T : ~(y < x)
  BY <1>3, <1>4
<1> QED BY <1>5

LEMMA SetInduction ==
    ASSUME NEW S, 0 \in S, \A n \in Nat : n \in S => n + 1 \in S
    PROVE  \A n \in Nat : n \in S
<1> DEFINE T == {n \in Nat : n \notin S}
<1>1. SUFFICES ASSUME T # {} PROVE FALSE
  OBVIOUS
<1>2. PICK n \in T : \A m \in T : n <= m
  BY <1>1, LeastNumber
<1>3. n # 0 /\ n - 1 \in Nat
  BY <1>2
<1>4. n - 1 \in S
  BY <1>2, <1>3
<1> QED BY <1>2, <1>3, <1>4

\* A loop over the states S: it ends in `done' with the result r, and goes on
\* with `next' elsewhere, where the measure m decreases.
Terminates(S, done, next, m) ==
    /\ next \in [S -> S] /\ m \in [S -> Nat]
    /\ \A x \in S : x \notin done => m[next[x]] < m[x]

IsLoop(f, S, done, next, r) ==
    f = [x \in S |-> IF x \in done THEN r[x] ELSE f[next[x]]]

\* The states from which the loop takes less than n iterations.
Below(S, m, n) == {x \in S : m[x] < n}

LEMMA LoopUnique ==
    ASSUME NEW S, NEW done, NEW next, NEW m, NEW r, Terminates(S, done, next, m),
           NEW n \in Nat, NEW k \in Nat, n <= k, NEW f, NEW g,
           IsLoop(f, Below(S, m, n), done, next, r),
           IsLoop(g, Below(S, m, k), done, next, r)
    PROVE  \A x \in Below(S, m, n) : f[x] = g[x]
<1> DEFINE B == Below(S, m, n)
           T == {m[x] : x \in {y \in B : f[y] # g[y]}}
<1>0. B \subseteq Below(S, m, k) /\ B \subseteq S /\ \A x \in S : m[x] \in Nat
  BY DEF Below, Terminates
<1>1. SUFFICES ASSUME T # {} PROVE FALSE
  OBVIOUS
<1>2. T \subseteq Nat
  BY <1>0
<1>3. PICK x \in B : f[x] # g[x] /\ \A y \in B : f[y] # g[y] => m[x] <= m[y]
  <2> HIDE DEF B
  <2>1. PICK l \in T : \A j \in T : l <= j
    BY <1>1, <1>2, LeastNumber
  <2> QED BY <2>1
<1>4. CASE x \in done
  <2>1. f[x] = r[x] /\ g[x] = r[x]
    BY <1>0, <1>3, <1>4 DEF IsLoop
  <2> QED BY <1>3, <2>1
<1>5. CASE x \notin done
  <2>1. next[x] \in B /\ m[next[x]] < m[x] /\ m[next[x]] \in Nat /\ m[x] \in Nat
    BY <1>0, <1>3, <1>5 DEF Below, Terminates
  <2>2. f[x] = f[next[x]] /\ g[x] = g[next[x]]
    BY <1>0, <1>3, <1>5 DEF IsLoop
  <2>3. f[next[x]] = g[next[x]]
    BY <1>3, <2>1
  <2> QED BY <1>3, <2>2, <2>3
<1> QED BY <1>4, <1>5

LEMMA LoopApproximated ==
    ASSUME NEW S, NEW done, NEW next, NEW m, NEW r, Terminates(S, done, next, m)
    PROVE  \A n \in Nat : \E f : IsLoop(f, Below(S, m, n), done, next, r)
<1> DEFINE N == {n \in Nat : \E f : IsLoop(f, Below(S, m, n), done, next, r)}
<1>1. 0 \in N
  <2>1. Below(S, m, 0) = {}
    BY DEF Below, Terminates
  <2>2. IsLoop([x \in {} |-> 0], {}, done, next, r)
    BY DEF IsLoop
  <2> QED BY <2>1, <2>2
<1>2. ASSUME NEW n \in Nat, n \in N PROVE n + 1 \in N
  <2>1. PICK f : IsLoop(f, Below(S, m, n), done, next, r)
    BY <1>2
  <2> DEFINE A == Below(S, m, n)
             B == Below(S, m, n + 1)
             g == [x \in B |-> IF x \in done THEN r[x] ELSE f[next[x]]]
  <2>2. A \subseteq B /\ \A x \in B : x \notin done => next[x] \in A
    BY DEF Below, Terminates
  <2>3. ASSUME NEW x \in A PROVE g[x] = f[x]
    BY <2>1, <2>2, <2>3 DEF IsLoop
  <2>4. ASSUME NEW x \in B PROVE g[x] = IF x \in done THEN r[x] ELSE g[next[x]]
    <3>1. CASE x \in done
      BY <3>1
    <3>2. CASE x \notin done
      <4>1. g[x] = f[next[x]] /\ next[x] \in A
        BY <2>2, <2>4, <3>2
      <4> HIDE DEF g, A
      <4> QED BY <2>3, <3>2, <4>1
    <3> QED BY <3>1, <3>2
  <2>5. IsLoop(g, B, done, next, r)
    <3>1. g = [x \in B |-> g[x]]
      OBVIOUS
    <3> HIDE DEF g
    <3> QED BY <2>4, <3>1 DEF IsLoop
  <2> HIDE DEF g
  <2> QED BY <2>5
<1>3. \A n \in Nat : n \in N
  <2> HIDE DEF N
  <2> QED BY <1>1, <1>2, SetInduction
<1> QED BY <1>3

\* A loop that terminates computes something.
LEMMA LoopExists ==
    ASSUME NEW S, NEW done, NEW next, NEW m, NEW r, Terminates(S, done, next, m)
    PROVE  \E f : IsLoop(f, S, done, next, r)
<1> DEFINE G(n) == CHOOSE f : IsLoop(f, Below(S, m, n), done, next, r)
           f == [x \in S |-> G(m[x] + 1)[x]]
<1>1. ASSUME NEW n \in Nat PROVE IsLoop(G(n), Below(S, m, n), done, next, r)
  BY LoopApproximated
<1> HIDE DEF G
<1>2. ASSUME NEW x \in S PROVE f[x] = IF x \in done THEN r[x] ELSE f[next[x]]
  <2>1. m[x] \in Nat /\ m[x] + 1 \in Nat /\ x \in Below(S, m, m[x] + 1)
    BY <1>2 DEF Below, Terminates
  <2>2. f[x] = IF x \in done THEN r[x] ELSE G(m[x] + 1)[next[x]]
    <3>1. f[x] = G(m[x] + 1)[x]
      BY <1>2
    <3>2. IsLoop(G(m[x] + 1), Below(S, m, m[x] + 1), done, next, r)
      BY <1>1, <2>1
    <3> HIDE DEF f
    <3> QED BY <2>1, <3>1, <3>2 DEF IsLoop
  <2>3. CASE x \notin done
    <3> DEFINE y == next[x]
    <3>1. /\ y \in S /\ m[y] \in Nat /\ m[y] + 1 \in Nat /\ m[y] + 1 <= m[x] + 1
          /\ y \in Below(S, m, m[y] + 1)
      BY <1>2, <2>3 DEF Below, Terminates
    <3>2. /\ IsLoop(G(m[y] + 1), Below(S, m, m[y] + 1), done, next, r)
          /\ IsLoop(G(m[x] + 1), Below(S, m, m[x] + 1), done, next, r)
      BY <1>1, <2>1, <3>1
    <3>3. f[y] = G(m[y] + 1)[y]
      BY <3>1
    <3> HIDE DEF y, f
    <3>4. G(m[y] + 1)[y] = G(m[x] + 1)[y]
      BY <2>1, <3>1, <3>2, LoopUnique
    <3> QED BY <2>2, <2>3, <3>3, <3>4 DEF y
  <2> HIDE DEF f
  <2> QED BY <2>2, <2>3
<1>3. IsLoop(f, S, done, next, r)
  <2>1. f = [x \in S |-> f[x]]
    OBVIOUS
  <2> HIDE DEF f
  <2> QED BY <1>2, <2>1 DEF IsLoop
<1> HIDE DEF f
<1> QED BY <1>3

\* Every iteration keeps J, and in J the loop ends with a result in Q.
Keeps(J, S, done, next, r, Q) ==
    /\ J \subseteq S
    /\ \A x \in J : IF x \in done THEN r[x] \in Q ELSE next[x] \in J

LEMMA LoopInvariant ==
    ASSUME NEW S, NEW done, NEW next, NEW m, NEW r, Terminates(S, done, next, m),
           NEW f, IsLoop(f, S, done, next, r),
           NEW J, NEW Q, Keeps(J, S, done, next, r, Q)
    PROVE  \A x \in J : f[x] \in Q
<1> DEFINE T == {m[x] : x \in {y \in J : f[y] \notin Q}}
<1>1. SUFFICES ASSUME T # {} PROVE FALSE
  OBVIOUS
<1>2. T \subseteq Nat
  BY DEF Terminates, Keeps
<1>3. PICK x \in J : f[x] \notin Q /\ \A y \in J : f[y] \notin Q => m[x] <= m[y]
  <2>1. PICK l \in T : \A j \in T : l <= j
    BY <1>1, <1>2, LeastNumber
  <2> QED BY <2>1
<1>4. x \notin done /\ f[x] = f[next[x]]
  BY <1>3 DEF IsLoop, Keeps
<1>5. next[x] \in J /\ m[next[x]] < m[x] /\ m[next[x]] \in Nat /\ m[x] \in Nat
  BY <1>3, <1>4 DEF Terminates, Keeps
<1> QED BY <1>3, <1>4, <1>5

-----------------------------------------------------------------------------
(* One exchange of two timers of the heap.                                 *)

LEMMA HeapFacts ==
    ASSUME NEW h \in Heap
    PROVE  /\ h.timerList_ \in Seq(Timer) /\ h.positions_ \in [TimerIds -> Nat]
           /\ h = [timerList_ |-> h.timerList_, positions_ |-> h.positions_]
           /\ Len(h.timerList_) \in Nat /\ DOMAIN h.timerList_ = 1 .. Len(h.timerList_)
           /\ \A i \in 1 .. Len(h.timerList_) :
                 /\ h.timerList_[i] \in Timer /\ h.timerList_[i].id \in TimerIds
                 /\ h.timerList_[i].exp \in Nat
<1>1. h.timerList_ \in Seq(Timer) /\ h.positions_ \in [TimerIds -> Nat]
      /\ h = [timerList_ |-> h.timerList_, positions_ |-> h.positions_]
  BY DEF Heap
<1>2. ASSUME NEW t \in Timer PROVE t.id \in TimerIds /\ t.exp \in Nat
  BY <1>2 DEF Timer
<1>3. /\ Len(h.timerList_) \in Nat /\ DOMAIN h.timerList_ = 1 .. Len(h.timerList_)
      /\ \A i \in 1 .. Len(h.timerList_) : h.timerList_[i] \in Timer
  BY <1>1
<1> QED BY <1>1, <1>2, <1>3

LEMMA CursorFacts ==
    ASSUME NEW c \in Cursor
    PROVE  c.heap \in Heap /\ c.idx \in 1 .. Len(c.heap.timerList_)
<1>1. c.heap \in Heap /\ c.idx \in DOMAIN c.heap.timerList_
  BY DEF Cursor
<1> QED BY <1>1, HeapFacts

LEMMA CursorIs ==
    ASSUME NEW h \in Heap, NEW i \in 1 .. Len(h.timerList_)
    PROVE  /\ [heap |-> h, idx |-> i] \in Cursor
           /\ [heap |-> h, idx |-> i].heap = h /\ [heap |-> h, idx |-> i].idx = i
<1>1. i \in Nat /\ i \in DOMAIN h.timerList_
  BY HeapFacts
<1> QED BY <1>1 DEF Cursor

LEMMA SwapFacts ==
    ASSUME NEW h \in Heap, NEW i \in 1 .. Len(h.timerList_),
           NEW j \in 1 .. Len(h.timerList_)
    PROVE  LET g == SwapTimers(h, i, j)
               l == h.timerList_ IN
           /\ g \in Heap
           /\ Len(g.timerList_) = Len(l)
           /\ g.timerList_[i] = l[j] /\ g.timerList_[j] = l[i]
           /\ \A k \in 1 .. Len(l) : k # i /\ k # j => g.timerList_[k] = l[k]
           /\ g.positions_[l[i].id] = j
           /\ l[j].id # l[i].id => g.positions_[l[j].id] = i
           /\ \A id \in TimerIds : id # l[i].id /\ id # l[j].id
                    => g.positions_[id] = h.positions_[id]
<1> DEFINE l == h.timerList_
           p == h.positions_
           m == [[l EXCEPT ![i] = l[j]] EXCEPT ![j] = l[i]]
           q == [[p EXCEPT ![l[j].id] = i] EXCEPT ![l[i].id] = j]
<1>1. l \in Seq(Timer) /\ p \in [TimerIds -> Nat] /\ Len(l) \in Nat
      /\ l[i] \in Timer /\ l[j] \in Timer /\ l[i].id \in TimerIds /\ l[j].id \in TimerIds
      /\ DOMAIN l = 1 .. Len(l) /\ i \in Nat /\ j \in Nat
  BY HeapFacts
<1>2. SwapTimers(h, i, j) = [timerList_ |-> m, positions_ |-> q]
  BY DEF SwapTimers
<1>3. /\ m \in Seq(Timer) /\ Len(m) = Len(l) /\ m[j] = l[i] /\ m[i] = l[j]
      /\ \A k \in 1 .. Len(l) : k # i /\ k # j => m[k] = l[k]
  <2> DEFINE m1 == [l EXCEPT ![i] = l[j]]
  <2> HIDE DEF l
  <2>1. /\ m1 \in Seq(Timer) /\ Len(m1) = Len(l)
        /\ \A k \in 1 .. Len(l) : m1[k] = IF k = i THEN l[j] ELSE l[k]
    BY <1>1, ExceptSeq DEF l
  <2> HIDE DEF m1
  <2>2. /\ [m1 EXCEPT ![j] = l[i]] \in Seq(Timer)
        /\ Len([m1 EXCEPT ![j] = l[i]]) = Len(m1)
        /\ \A k \in 1 .. Len(m1) :
                [m1 EXCEPT ![j] = l[i]][k] = IF k = j THEN l[i] ELSE m1[k]
    BY <1>1, <2>1, ExceptSeq DEF l
  <2>3. m = [m1 EXCEPT ![j] = l[i]]
    BY DEF m1
  <2> QED BY <1>1, <2>1, <2>2, <2>3 DEF l
<1>4. /\ q \in [TimerIds -> Nat] /\ q[l[i].id] = j
      /\ l[j].id # l[i].id => q[l[j].id] = i
      /\ \A id \in TimerIds : id # l[i].id /\ id # l[j].id => q[id] = p[id]
  <2> HIDE DEF l, p
  <2> QED BY <1>1
<1> HIDE DEF m, q
<1>5. [timerList_ |-> m, positions_ |-> q] \in Heap
  BY <1>3, <1>4 DEF Heap
<1> QED BY <1>2, <1>3, <1>4, <1>5

\* The containers agree, in a form that speaks of indices only.
LEMMA AgreeIs ==
    ASSUME NEW h \in Heap
    PROVE  Agree(h) <=>
           /\ \A i \in 1 .. Len(h.timerList_) : h.positions_[h.timerList_[i].id] = i
           /\ \A id \in TimerIds : h.positions_[id] # 0 =>
                 /\ h.positions_[id] \in 1 .. Len(h.timerList_)
                 /\ h.timerList_[h.positions_[id]].id = id
<1> USE HeapFacts
<1>1. \A id : id \in {t.id : t \in TimersOf(h)}
              <=> \E i \in 1 .. Len(h.timerList_) : h.timerList_[i].id = id
  BY DEF TimersOf
<1>2. ASSUME Agree(h), NEW id \in TimerIds, h.positions_[id] # 0
      PROVE  /\ h.positions_[id] \in 1 .. Len(h.timerList_)
             /\ h.timerList_[h.positions_[id]].id = id
  <2>1. PICK i \in 1 .. Len(h.timerList_) : h.timerList_[i].id = id
    BY <1>1, <1>2 DEF Agree
  <2> QED BY <1>2, <2>1 DEF Agree
<1>3. ASSUME \A i \in 1 .. Len(h.timerList_) : h.positions_[h.timerList_[i].id] = i,
             \A id \in TimerIds : h.positions_[id] # 0 =>
                 /\ h.positions_[id] \in 1 .. Len(h.timerList_)
                 /\ h.timerList_[h.positions_[id]].id = id
      PROVE  Agree(h)
  <2>1. ASSUME NEW id \in TimerIds
        PROVE  h.positions_[id] # 0 <=> id \in {t.id : t \in TimersOf(h)}
    <3>1. (\E i \in 1 .. Len(h.timerList_) : h.timerList_[i].id = id)
            <=> h.positions_[id] # 0
      BY <1>3
    <3> QED BY <1>1, <3>1
  <2> QED BY <1>3, <2>1 DEF Agree
<1> QED BY <1>2, <1>3 DEF Agree

LEMMA AgreeUnique ==
    ASSUME NEW h \in Heap, Agree(h), NEW i \in 1 .. Len(h.timerList_),
           NEW j \in 1 .. Len(h.timerList_), h.timerList_[i].id = h.timerList_[j].id
    PROVE  i = j
  BY AgreeIs

LEMMA TimersOfIs ==
    ASSUME NEW h \in Heap
    PROVE  \A t : t \in TimersOf(h) <=> \E i \in 1 .. Len(h.timerList_) : h.timerList_[i] = t
  BY HeapFacts DEF TimersOf

LEMMA SwapKeeps ==
    ASSUME NEW h \in Heap, Agree(h), NEW i \in 1 .. Len(h.timerList_),
           NEW j \in 1 .. Len(h.timerList_)
    PROVE  Agree(SwapTimers(h, i, j)) /\ TimersOf(SwapTimers(h, i, j)) = TimersOf(h)
<1> DEFINE g == SwapTimers(h, i, j)
           l == h.timerList_
           n == Len(l)
<1>1. /\ g \in Heap /\ Len(g.timerList_) = n
      /\ g.timerList_[i] = l[j] /\ g.timerList_[j] = l[i]
      /\ \A k \in 1 .. n : k # i /\ k # j => g.timerList_[k] = l[k]
      /\ g.positions_[l[i].id] = j
      /\ l[j].id # l[i].id => g.positions_[l[j].id] = i
      /\ \A id \in TimerIds : id # l[i].id /\ id # l[j].id
               => g.positions_[id] = h.positions_[id]
  BY SwapFacts
<1>2. \A k \in 1 .. n : l[k].id \in TimerIds /\ h.positions_[l[k].id] = k
  BY AgreeIs, HeapFacts
<1>3. \A id \in TimerIds : h.positions_[id] # 0
                => h.positions_[id] \in 1 .. n /\ l[h.positions_[id]].id = id
  BY AgreeIs
<1>4. n \in Nat /\ i \in 1 .. n /\ j \in 1 .. n
  BY HeapFacts
<1> HIDE DEF g, l, n
<1>5. \A k \in 1 .. n : g.positions_[g.timerList_[k].id] = k
  <2>1. ASSUME NEW k \in 1 .. n, k # i, k # j PROVE g.positions_[g.timerList_[k].id] = k
    <3>1. l[k].id # l[i].id /\ l[k].id # l[j].id
      BY <1>2, <1>4, <2>1
    <3> QED BY <1>1, <1>2, <2>1, <3>1
  <2>2. g.positions_[g.timerList_[j].id] = j
    BY <1>1
  <2>3. g.positions_[g.timerList_[i].id] = i
    <3>1. CASE i = j
      BY <2>2, <3>1
    <3>2. CASE i # j
      <4>1. l[j].id # l[i].id
        BY <1>2, <1>4, <3>2
      <4> QED BY <1>1, <4>1
    <3> QED BY <3>1, <3>2
  <2> QED BY <2>1, <2>2, <2>3
<1>6. ASSUME NEW id \in TimerIds, g.positions_[id] # 0
      PROVE  g.positions_[id] \in 1 .. n /\ g.timerList_[g.positions_[id]].id = id
  <2>1. CASE id = l[i].id
    BY <1>1, <1>4, <2>1
  <2>2. CASE id # l[i].id /\ id = l[j].id
    BY <1>1, <1>4, <2>2
  <2>3. CASE id # l[i].id /\ id # l[j].id
    <3>1. g.positions_[id] = h.positions_[id]
      BY <1>1, <2>3
    <3>2. h.positions_[id] \in 1 .. n /\ l[h.positions_[id]].id = id
      BY <1>3, <1>6, <3>1
    <3>3. h.positions_[id] # i /\ h.positions_[id] # j
      BY <2>3, <3>2
    <3> QED BY <1>1, <3>1, <3>2, <3>3
  <2> QED BY <2>1, <2>2, <2>3
<1>7. Agree(g)
  BY <1>1, <1>5, <1>6, AgreeIs
<1>8. \A t : (\E k \in 1 .. n : g.timerList_[k] = t) <=> (\E k \in 1 .. n : l[k] = t)
  <2>1. ASSUME NEW k \in 1 .. n
        PROVE  /\ \E k2 \in 1 .. n : l[k2] = g.timerList_[k]
               /\ \E k2 \in 1 .. n : g.timerList_[k2] = l[k]
    BY <1>1, <1>4
  <2> QED BY <2>1
<1>9. TimersOf(g) = TimersOf(h)
  BY <1>1, <1>8, TimersOfIs DEF l, n
<1> QED BY <1>7, <1>9 DEF g

-----------------------------------------------------------------------------
(* The two loops of the heap.                                              *)

\* No timer is earlier than its parent.
OrderedHeap(h) ==
    \A k \in 2 .. Len(h.timerList_) : Expiration(h, k \div 2) <= Expiration(h, k)

\* The same, but for the timer at c.idx, which may be earlier than its parent.
UpFrom(c) ==
    \A k \in 2 .. Len(c.heap.timerList_) :
        /\ k # c.idx => Expiration(c.heap, k \div 2) <= Expiration(c.heap, k)
        /\ k \div 2 = c.idx /\ c.idx > 1
              => Expiration(c.heap, c.idx \div 2) <= Expiration(c.heap, k)

\* The same, but for the timer at c.idx, which may be later than a child.
DownFrom(c) ==
    \A k \in 2 .. Len(c.heap.timerList_) :
        /\ k \div 2 # c.idx => Expiration(c.heap, k \div 2) <= Expiration(c.heap, k)
        /\ k \div 2 = c.idx /\ c.idx > 1
              => Expiration(c.heap, c.idx \div 2) <= Expiration(c.heap, k)

\* g holds the timers of h, in another order perhaps.
Permuted(h, g) ==
    /\ g \in Heap /\ Agree(g) /\ TimersOf(g) = TimersOf(h)
    /\ Len(g.timerList_) = Len(h.timerList_)

Rises(c) ==
    c.idx > 1 /\ Expiration(c.heap, c.idx) < Expiration(c.heap, c.idx \div 2)
UpDone == {c \in Cursor : ~Rises(c)}
UpNext == [c \in Cursor |->
              IF Rises(c) THEN [heap |-> SwapTimers(c.heap, c.idx, c.idx \div 2),
                                idx |-> c.idx \div 2]
                          ELSE c]
UpLeft == [c \in Cursor |-> c.idx]
HeapAt == [c \in Cursor |-> c.heap]

LEMMA ParentIn ==
    ASSUME NEW n \in Nat, NEW i \in 2 .. n
    PROVE  i \div 2 \in 1 .. n /\ i \div 2 < i /\ i \div 2 \in Nat
  OBVIOUS

LEMMA SiftUpTerminates == Terminates(Cursor, UpDone, UpNext, UpLeft)
<1>1. ASSUME NEW c \in Cursor, Rises(c)
      PROVE  /\ [heap |-> SwapTimers(c.heap, c.idx, c.idx \div 2), idx |-> c.idx \div 2]
                    \in Cursor
             /\ c.idx \div 2 < c.idx
  <2>1. c.heap \in Heap /\ c.idx \in 2 .. Len(c.heap.timerList_)
        /\ Len(c.heap.timerList_) \in Nat
    BY <1>1, CursorFacts, HeapFacts DEF Rises
  <2>2. c.idx \div 2 \in 1 .. Len(c.heap.timerList_) /\ c.idx \div 2 < c.idx
    BY <2>1, ParentIn
  <2>3. SwapTimers(c.heap, c.idx, c.idx \div 2) \in Heap
        /\ Len(SwapTimers(c.heap, c.idx, c.idx \div 2).timerList_)
                = Len(c.heap.timerList_)
    BY <2>1, <2>2, SwapFacts
  <2> QED BY <2>2, <2>3, CursorIs
<1>2. UpNext \in [Cursor -> Cursor]
  BY <1>1 DEF UpNext
<1>3. \A c \in Cursor : c.idx \in Nat
  BY CursorFacts, HeapFacts
<1>4. ASSUME NEW c \in Cursor, c \notin UpDone
      PROVE  UpNext[c].idx < c.idx
  BY <1>1, <1>4 DEF UpNext, UpDone
<1> QED BY <1>2, <1>3, <1>4 DEF Terminates, UpLeft

LEMMA SiftUpIsLoop == IsLoop(SiftUp, Cursor, UpDone, UpNext, HeapAt)
<1> DEFINE P(f) == f = [c \in Cursor |->
                LET parent == c.idx \div 2
                IN  IF c.idx > 1 /\ Expiration(c.heap, c.idx) < Expiration(c.heap, parent)
                    THEN f[[heap |-> SwapTimers(c.heap, c.idx, parent), idx |-> parent]]
                    ELSE c.heap]
<1>1. ASSUME NEW f PROVE P(f) <=> IsLoop(f, Cursor, UpDone, UpNext, HeapAt)
  <2>1. ASSUME NEW c \in Cursor
        PROVE  (IF c \in UpDone THEN HeapAt[c] ELSE f[UpNext[c]])
               = LET parent == c.idx \div 2
                 IN  IF c.idx > 1 /\ Expiration(c.heap, c.idx) < Expiration(c.heap, parent)
                     THEN f[[heap |-> SwapTimers(c.heap, c.idx, parent), idx |-> parent]]
                     ELSE c.heap
    BY <2>1 DEF UpDone, UpNext, HeapAt, Rises
  <2> QED BY <2>1 DEF IsLoop
<1>2. SiftUp = CHOOSE f : P(f)
  BY DEF SiftUp
<1> HIDE DEF P
<1>3. \E f : P(f)
  BY <1>1, SiftUpTerminates, LoopExists
<1> QED BY <1>1, <1>2, <1>3

LEMMA RiseKeeps ==
    ASSUME NEW h, NEW c \in Cursor, Permuted(h, c.heap), Rises(c)
    PROVE  /\ UpNext[c] \in Cursor
           /\ Permuted(h, UpNext[c].heap)
           /\ UpFrom(c) => UpFrom(UpNext[c])
<1> DEFINE l == c.heap.timerList_
           n == Len(l)
           i == c.idx
           p == i \div 2
           g == SwapTimers(c.heap, i, p)
<1>1. c.heap \in Heap /\ n \in Nat /\ i \in 2 .. n /\ Agree(c.heap)
  BY CursorFacts, HeapFacts DEF Rises, Permuted
<1>2. p \in 1 .. n /\ p < i /\ p \in Nat /\ i \in 1 .. n
  BY <1>1, ParentIn
<1>3. UpNext[c] = [heap |-> g, idx |-> p]
  BY DEF UpNext
<1>4. /\ g \in Heap /\ Len(g.timerList_) = n
      /\ g.timerList_[i] = l[p] /\ g.timerList_[p] = l[i]
      /\ \A k \in 1 .. n : k # i /\ k # p => g.timerList_[k] = l[k]
  BY <1>1, <1>2, SwapFacts, SMTT(60)
<1>5. Agree(g) /\ TimersOf(g) = TimersOf(c.heap)
  BY <1>1, <1>2, SwapKeeps
<1>6. UpNext[c] \in Cursor /\ UpNext[c].heap = g /\ UpNext[c].idx = p
  <2> HIDE DEF g, p
  <2> QED BY <1>2, <1>3, <1>4, CursorIs
<1>7. Permuted(h, UpNext[c].heap)
  BY <1>4, <1>5, <1>6 DEF Permuted
<1>8. ASSUME UpFrom(c) PROVE UpFrom(UpNext[c])
  <2> DEFINE E(k) == Expiration(c.heap, k)
             F(k) == Expiration(g, k)
  <2>1. \A k \in 1 .. n : E(k) \in Nat
    BY <1>1, HeapFacts DEF Expiration
  <2>2. F(i) = E(p) /\ F(p) = E(i) /\ \A k \in 1 .. n : k # i /\ k # p => F(k) = E(k)
    BY <1>4 DEF Expiration
  <2>3. E(i) < E(p)
    BY DEF Rises
  <2>4. \A k \in 2 .. n : /\ k # i => E(k \div 2) <= E(k)
                          /\ k \div 2 = i => E(p) <= E(k)
    BY <1>1, <1>8 DEF UpFrom
  <2>5. \A k \in 2 .. n : k \div 2 \in 1 .. n /\ k \div 2 < k
    BY <1>1, ParentIn
  <2> HIDE DEF E, F
  <2>6. ASSUME NEW k \in 2 .. n, k # p PROVE F(k \div 2) <= F(k)
    <3>0. k \in 1 .. n /\ k \div 2 \in 1 .. n
      BY <1>1, <2>5
    <3>1. CASE k = i
      BY <2>2, <2>3, <2>1, <1>2, <3>1
    <3>2. CASE k # i /\ k \div 2 = i
      BY <2>2, <2>4, <2>6, <3>0, <3>2
    <3>3. CASE k # i /\ k \div 2 = p
      BY <1>2, <2>1, <2>2, <2>3, <2>4, <2>6, <3>0, <3>3
    <3>4. CASE k # i /\ k \div 2 # i /\ k \div 2 # p
      BY <2>2, <2>4, <2>6, <3>0, <3>4
    <3> QED BY <3>1, <3>2, <3>3, <3>4
  <2>7. ASSUME NEW k \in 2 .. n, k \div 2 = p, p > 1 PROVE F(p \div 2) <= F(k)
    <3>0. k \in 1 .. n /\ p \in 2 .. n /\ p # i /\ k # p
      BY <1>1, <1>2, <2>5, <2>7
    <3>1. p \div 2 \in 1 .. n /\ p \div 2 < p
      BY <2>5, <3>0
    <3>2. F(p \div 2) = E(p \div 2) /\ E(p \div 2) <= E(p)
      BY <1>2, <2>2, <2>4, <3>0, <3>1
    <3>3. CASE k = i
      BY <2>2, <3>2, <3>3
    <3>4. CASE k # i
      <4>1. F(k) = E(k) /\ E(p) <= E(k)
        BY <2>2, <2>4, <2>7, <3>0, <3>4
      <4> QED BY <2>1, <1>2, <3>0, <3>1, <3>2, <4>1
    <3> QED BY <3>3, <3>4
  <2> HIDE DEF g, p
  <2> QED BY <1>4, <1>6, <2>6, <2>7 DEF UpFrom, F
<1> QED BY <1>6, <1>7, <1>8

\* SiftUp only moves timers about, and ends with the heap in order.
LEMMA SiftUpKeeps ==
    ASSUME NEW c \in Cursor, Agree(c.heap)
    PROVE  /\ Permuted(c.heap, SiftUp[c])
           /\ UpFrom(c) => OrderedHeap(SiftUp[c])
<1> DEFINE J1 == {d \in Cursor : Permuted(c.heap, d.heap)}
           J2 == {d \in J1 : UpFrom(d)}
           Q1 == {d.heap : d \in J1}
           Q2 == {g \in Q1 : OrderedHeap(g)}
<1>1. c \in J1
  BY CursorFacts DEF Permuted
<1>2. /\ \A d \in J1 : d \notin UpDone => UpNext[d] \in J1
      /\ \A d \in J2 : d \notin UpDone => UpNext[d] \in J2
  BY RiseKeeps DEF UpDone
<1>3. \A d \in J1 : d \in UpDone => HeapAt[d] \in Q1
  BY DEF HeapAt
<1>4. \A d \in J2 : d \in UpDone => HeapAt[d] \in Q2
  <2> SUFFICES ASSUME NEW d \in J2, d \in UpDone PROVE HeapAt[d] \in Q2
    OBVIOUS
  <2>1. HeapAt[d] = d.heap /\ d.heap \in Q1
    BY DEF HeapAt
  <2>2. d.heap \in Heap /\ d.idx \in 1 .. Len(d.heap.timerList_)
        /\ Len(d.heap.timerList_) \in Nat /\ ~Rises(d)
    BY CursorFacts, HeapFacts DEF UpDone
  <2>3. \A k \in 1 .. Len(d.heap.timerList_) : Expiration(d.heap, k) \in Nat
    BY <2>2, HeapFacts DEF Expiration
  <2>4. ASSUME NEW k \in 2 .. Len(d.heap.timerList_)
        PROVE  Expiration(d.heap, k \div 2) <= Expiration(d.heap, k)
    <3>1. CASE k # d.idx
      BY <2>4, <3>1 DEF UpFrom
    <3>2. CASE k = d.idx
      <4>1. k \div 2 \in 1 .. Len(d.heap.timerList_) /\ k \in 1 .. Len(d.heap.timerList_)
            /\ k > 1
        BY <2>2, <2>4, ParentIn
      <4>2. Expiration(d.heap, k) \in Nat /\ Expiration(d.heap, k \div 2) \in Nat
        BY <2>3, <4>1
      <4>3. ~(Expiration(d.heap, k) < Expiration(d.heap, k \div 2))
        BY <2>2, <3>2, <4>1 DEF Rises
      <4> QED BY <4>2, <4>3
    <3> QED BY <3>1, <3>2
  <2> QED BY <2>1, <2>4 DEF OrderedHeap
<1>5. /\ Keeps(J1, Cursor, UpDone, UpNext, HeapAt, Q1)
      /\ Keeps(J2, Cursor, UpDone, UpNext, HeapAt, Q2)
  BY <1>2, <1>3, <1>4 DEF Keeps
<1> HIDE DEF J1, J2, Q1, Q2
<1>6. SiftUp[c] \in Q1
  BY <1>1, <1>5, SiftUpTerminates, SiftUpIsLoop, LoopInvariant
<1>7. c \in J2 => SiftUp[c] \in Q2
  BY <1>5, SiftUpTerminates, SiftUpIsLoop, LoopInvariant
<1> QED BY <1>1, <1>6, <1>7 DEF J1, J2, Q1, Q2

Sinks(c) == Candidate(c.heap, c.idx) # c.idx
DownDone == {c \in Cursor : ~Sinks(c)}
DownNext == [c \in Cursor |->
                LET candidate == Candidate(c.heap, c.idx) IN
                IF Sinks(c) THEN [heap |-> SwapTimers(c.heap, c.idx, candidate),
                                  idx |-> candidate]
                            ELSE c]
DownLeft == [c \in Cursor |-> Len(c.heap.timerList_) - c.idx]

LEMMA CandidateFacts ==
    ASSUME NEW h \in Heap, NEW i \in 1 .. Len(h.timerList_)
    PROVE  LET d == Candidate(h, i)
               n == Len(h.timerList_) IN
           /\ d \in 1 .. n
           /\ \A k \in 2 .. n : k \div 2 = i => Expiration(h, d) <= Expiration(h, k)
           /\ d # i => d > i /\ d \div 2 = i /\ Expiration(h, d) < Expiration(h, i)
<1> DEFINE n == Len(h.timerList_)
           E(k) == Expiration(h, k)
           d == Candidate(h, i)
           a == IF 2 * i <= n /\ E(2 * i) < E(i) THEN 2 * i ELSE i
<1>1. n \in Nat /\ i \in Nat /\ i > 0 /\ i <= n /\ \A k \in 1 .. n : E(k) \in Nat
  BY HeapFacts DEF Expiration
<1>2. d = IF 2 * i + 1 <= n /\ E(2 * i + 1) < E(a) THEN 2 * i + 1 ELSE a
  BY DEF Candidate
<1> HIDE DEF E, d, n
<1>3. /\ a \in 1 .. n /\ E(a) <= E(i)
      /\ 2 * i <= n => E(a) <= E(2 * i)
      /\ a # i => a = 2 * i /\ E(a) < E(i)
  <2>1. CASE 2 * i <= n /\ E(2 * i) < E(i)
    BY <1>1, <2>1
  <2>2. CASE ~(2 * i <= n /\ E(2 * i) < E(i))
    <3>1. 2 * i <= n => 2 * i \in 1 .. n
      BY <1>1
    <3> QED BY <1>1, <2>2, <3>1
  <2> QED BY <2>1, <2>2
<1> HIDE DEF a
<1>4. /\ d \in 1 .. n /\ E(d) <= E(a)
      /\ 2 * i + 1 <= n => E(d) <= E(2 * i + 1)
      /\ d = a \/ (d = 2 * i + 1 /\ E(d) < E(a))
  <2>1. 2 * i + 1 <= n => 2 * i + 1 \in 1 .. n
    BY <1>1
  <2>2. E(a) \in Nat /\ E(i) \in Nat
    BY <1>1, <1>3
  <2> QED BY <1>1, <1>2, <1>3, <2>1, <2>2
<1>5. ASSUME NEW k \in 2 .. n, k \div 2 = i PROVE E(d) <= E(k)
  <2>1. k = 2 * i \/ k = 2 * i + 1
    BY <1>1, <1>5
  <2>2. E(d) \in Nat /\ E(a) \in Nat /\ E(k) \in Nat /\ k <= n
    BY <1>1, <1>3, <1>4
  <2>3. CASE k = 2 * i
    BY <1>3, <1>4, <2>2, <2>3
  <2>4. CASE k = 2 * i + 1
    BY <1>4, <2>2, <2>4
  <2> QED BY <2>1, <2>3, <2>4
<1>6. ASSUME d # i PROVE d > i /\ d \div 2 = i /\ E(d) < E(i)
  <2>1. E(d) \in Nat /\ E(a) \in Nat /\ E(i) \in Nat
    BY <1>1, <1>3, <1>4
  <2>2. d = 2 * i \/ d = 2 * i + 1
    BY <1>3, <1>4, <1>6
  <2> QED BY <1>1, <1>3, <1>4, <1>6, <2>1, <2>2
<1> QED BY <1>4, <1>5, <1>6 DEF E, d, n

LEMMA SinkStep ==
    ASSUME NEW c \in Cursor, Sinks(c)
    PROVE  LET d == Candidate(c.heap, c.idx)
               g == SwapTimers(c.heap, c.idx, d) IN
           /\ DownNext[c] = [heap |-> g, idx |-> d]
           /\ DownNext[c] \in Cursor /\ DownNext[c].heap = g /\ DownNext[c].idx = d
           /\ g \in Heap /\ Len(g.timerList_) = Len(c.heap.timerList_)
           /\ d > c.idx /\ d \in 1 .. Len(c.heap.timerList_)
<1>1. c.heap \in Heap /\ c.idx \in 1 .. Len(c.heap.timerList_)
  BY CursorFacts
<1>2. /\ Candidate(c.heap, c.idx) \in 1 .. Len(c.heap.timerList_)
      /\ Candidate(c.heap, c.idx) > c.idx
  BY <1>1, CandidateFacts DEF Sinks
<1>3. /\ SwapTimers(c.heap, c.idx, Candidate(c.heap, c.idx)) \in Heap
      /\ Len(SwapTimers(c.heap, c.idx, Candidate(c.heap, c.idx)).timerList_)
            = Len(c.heap.timerList_)
  BY <1>1, <1>2, SwapFacts
<1>4. DownNext[c] = [heap |-> SwapTimers(c.heap, c.idx, Candidate(c.heap, c.idx)),
                     idx |-> Candidate(c.heap, c.idx)]
  BY DEF DownNext
<1> QED BY <1>2, <1>3, <1>4, CursorIs

LEMMA AdjustTerminates == Terminates(Cursor, DownDone, DownNext, DownLeft)
<1>1. DownNext \in [Cursor -> Cursor]
  BY SinkStep DEF DownNext
<1>2. ASSUME NEW c \in Cursor PROVE Len(c.heap.timerList_) - c.idx \in Nat
  BY CursorFacts, HeapFacts
<1>3. ASSUME NEW c \in Cursor, c \notin DownDone
      PROVE  DownLeft[DownNext[c]] < DownLeft[c]
  <2>1. /\ DownNext[c] \in Cursor /\ DownNext[c].idx > c.idx
        /\ DownNext[c].idx \in 1 .. Len(c.heap.timerList_)
        /\ Len(DownNext[c].heap.timerList_) = Len(c.heap.timerList_)
    BY <1>3, SinkStep DEF DownDone
  <2>2. c.idx \in 1 .. Len(c.heap.timerList_) /\ Len(c.heap.timerList_) \in Nat
    BY CursorFacts, HeapFacts
  <2>3. /\ DownLeft[c] = Len(c.heap.timerList_) - c.idx
        /\ DownLeft[DownNext[c]] = Len(c.heap.timerList_) - DownNext[c].idx
    BY <2>1 DEF DownLeft
  <2> QED BY <2>1, <2>2, <2>3
<1>4. DownLeft \in [Cursor -> Nat]
  BY <1>2 DEF DownLeft
<1> QED BY <1>1, <1>3, <1>4 DEF Terminates

LEMMA AdjustIsLoop == IsLoop(Adjust, Cursor, DownDone, DownNext, HeapAt)
<1> DEFINE P(f) == f = [c \in Cursor |->
                LET candidate == Candidate(c.heap, c.idx)
                IN  IF candidate # c.idx
                    THEN f[[heap |-> SwapTimers(c.heap, c.idx, candidate),
                            idx |-> candidate]]
                    ELSE c.heap]
<1>1. ASSUME NEW f PROVE P(f) <=> IsLoop(f, Cursor, DownDone, DownNext, HeapAt)
  <2>1. ASSUME NEW c \in Cursor
        PROVE  (IF c \in DownDone THEN HeapAt[c] ELSE f[DownNext[c]])
               = LET candidate == Candidate(c.heap, c.idx)
                 IN  IF candidate # c.idx
                     THEN f[[heap |-> SwapTimers(c.heap, c.idx, candidate),
                             idx |-> candidate]]
                     ELSE c.heap
    BY <2>1 DEF DownDone, DownNext, HeapAt, Sinks
  <2> QED BY <2>1 DEF IsLoop
<1>2. Adjust = CHOOSE f : P(f)
  BY DEF Adjust
<1> HIDE DEF P
<1>3. \E f : P(f)
  BY <1>1, AdjustTerminates, LoopExists
<1> QED BY <1>1, <1>2, <1>3

LEMMA SinkKeeps ==
    ASSUME NEW h, NEW c \in Cursor, Permuted(h, c.heap), Sinks(c)
    PROVE  /\ DownNext[c] \in Cursor
           /\ Permuted(h, DownNext[c].heap)
           /\ DownFrom(c) => DownFrom(DownNext[c])
<1> DEFINE l == c.heap.timerList_
           n == Len(l)
           i == c.idx
           d == Candidate(c.heap, i)
           g == SwapTimers(c.heap, i, d)
<1>1. c.heap \in Heap /\ n \in Nat /\ i \in 1 .. n /\ Agree(c.heap)
  BY CursorFacts, HeapFacts DEF Permuted
<1>2. /\ d \in 1 .. n /\ d > i /\ d \div 2 = i
      /\ Expiration(c.heap, d) < Expiration(c.heap, i)
      /\ \A k \in 2 .. n : k \div 2 = i => Expiration(c.heap, d) <= Expiration(c.heap, k)
  BY <1>1, CandidateFacts DEF Sinks
<1>3. DownNext[c] \in Cursor /\ DownNext[c].heap = g /\ DownNext[c].idx = d
  BY SinkStep
<1>4. /\ g \in Heap /\ Len(g.timerList_) = n
      /\ g.timerList_[i] = l[d] /\ g.timerList_[d] = l[i]
      /\ \A k \in 1 .. n : k # i /\ k # d => g.timerList_[k] = l[k]
  <2> HIDE DEF d
  <2> QED BY <1>1, <1>2, SwapFacts, SMTT(60)
<1>5. Agree(g) /\ TimersOf(g) = TimersOf(c.heap)
  BY <1>1, <1>2, SwapKeeps
<1>7. Permuted(h, DownNext[c].heap)
  BY <1>3, <1>4, <1>5 DEF Permuted
<1>8. ASSUME DownFrom(c) PROVE DownFrom(DownNext[c])
  <2> DEFINE E(k) == Expiration(c.heap, k)
             F(k) == Expiration(g, k)
  <2>1. \A k \in 1 .. n : E(k) \in Nat
    BY <1>1, HeapFacts DEF Expiration
  <2>2. F(i) = E(d) /\ F(d) = E(i) /\ \A k \in 1 .. n : k # i /\ k # d => F(k) = E(k)
    BY <1>4 DEF Expiration
  <2>3. E(d) < E(i) /\ \A k \in 2 .. n : k \div 2 = i => E(d) <= E(k)
    BY <1>2
  <2>4. \A k \in 2 .. n : /\ k \div 2 # i => E(k \div 2) <= E(k)
                          /\ k \div 2 = i /\ i > 1 => E(i \div 2) <= E(k)
    BY <1>1, <1>8 DEF DownFrom
  <2>5. \A k \in 2 .. n : k \div 2 \in 1 .. n /\ k \div 2 < k
    BY <1>1, ParentIn
  <2>6. d \in 1 .. n /\ d > i /\ d \div 2 = i /\ d \in 2 .. n
    BY <1>1, <1>2
  <2> HIDE DEF E, F, d
  <2>7. ASSUME NEW k \in 2 .. n, k \div 2 # d PROVE F(k \div 2) <= F(k)
    <3>0. k \in 1 .. n /\ k \div 2 \in 1 .. n /\ k \div 2 < k
      BY <1>1, <2>5
    <3>1. CASE k \div 2 = i
      <4>1. k # i
        BY <3>0, <3>1
      <4>2. F(k \div 2) = E(d)
        BY <2>2, <3>1
      <4>3. CASE k = d
        BY <2>1, <2>2, <2>3, <2>6, <1>1, <4>2, <4>3
      <4>4. CASE k # d
        BY <2>2, <2>3, <3>0, <3>1, <4>1, <4>2, <4>4
      <4> QED BY <4>3, <4>4
    <3>2. CASE k = i
      <4>1. k \div 2 # i /\ i > 1
        BY <1>1, <3>0, <3>2
      <4>2. F(k \div 2) = E(i \div 2)
        BY <2>2, <2>7, <3>0, <3>2, <4>1
      <4> QED BY <2>2, <2>4, <2>6, <3>2, <4>1, <4>2
    <3>3. CASE k \div 2 # i /\ k # i
      <4>1. k # d
        BY <2>6, <3>3
      <4> QED BY <2>2, <2>4, <2>7, <3>0, <3>3, <4>1
    <3> QED BY <3>1, <3>2, <3>3
  <2>8. ASSUME NEW k \in 2 .. n, k \div 2 = d, d > 1 PROVE F(d \div 2) <= F(k)
    <3>1. k \in 1 .. n /\ k # d /\ k # i /\ k \div 2 # i
      BY <1>1, <2>5, <2>6, <2>8
    <3> QED BY <2>2, <2>4, <2>6, <2>8, <3>1
  <2> HIDE DEF g
  <2> QED BY <1>3, <1>4, <2>7, <2>8 DEF DownFrom, F, d
<1> QED BY <1>3, <1>7, <1>8

\* Adjust only moves timers about, and ends with the heap in order.
LEMMA AdjustKeeps ==
    ASSUME NEW c \in Cursor, Agree(c.heap)
    PROVE  /\ Permuted(c.heap, Adjust[c])
           /\ DownFrom(c) => OrderedHeap(Adjust[c])
<1> DEFINE J1 == {d \in Cursor : Permuted(c.heap, d.heap)}
           J2 == {d \in J1 : DownFrom(d)}
           Q1 == {d.heap : d \in J1}
           Q2 == {g \in Q1 : OrderedHeap(g)}
<1>1. c \in J1
  BY CursorFacts DEF Permuted
<1>2. /\ \A d \in J1 : d \notin DownDone => DownNext[d] \in J1
      /\ \A d \in J2 : d \notin DownDone => DownNext[d] \in J2
  BY SinkKeeps DEF DownDone
<1>3. \A d \in J1 : d \in DownDone => HeapAt[d] \in Q1
  BY DEF HeapAt
<1>4. \A d \in J2 : d \in DownDone => HeapAt[d] \in Q2
  <2> SUFFICES ASSUME NEW d \in J2, d \in DownDone PROVE HeapAt[d] \in Q2
    OBVIOUS
  <2>1. HeapAt[d] = d.heap /\ d.heap \in Q1
    BY DEF HeapAt
  <2>2. d.heap \in Heap /\ d.idx \in 1 .. Len(d.heap.timerList_) /\ ~Sinks(d)
    BY CursorFacts DEF DownDone
  <2>3. \A k \in 2 .. Len(d.heap.timerList_) : k \div 2 = d.idx
            => Expiration(d.heap, d.idx) <= Expiration(d.heap, k)
    BY <2>2, CandidateFacts DEF Sinks
  <2>4. ASSUME NEW k \in 2 .. Len(d.heap.timerList_)
        PROVE  Expiration(d.heap, k \div 2) <= Expiration(d.heap, k)
    <3>1. CASE k \div 2 # d.idx
      BY <2>4, <3>1 DEF DownFrom
    <3>2. CASE k \div 2 = d.idx
      BY <2>3, <2>4, <3>2
    <3> QED BY <3>1, <3>2
  <2> QED BY <2>1, <2>4 DEF OrderedHeap
<1>5. /\ Keeps(J1, Cursor, DownDone, DownNext, HeapAt, Q1)
      /\ Keeps(J2, Cursor, DownDone, DownNext, HeapAt, Q2)
  BY <1>2, <1>3, <1>4 DEF Keeps
<1> HIDE DEF J1, J2, Q1, Q2
<1>6. Adjust[c] \in Q1
  BY <1>1, <1>5, AdjustTerminates, AdjustIsLoop, LoopInvariant
<1>7. c \in J2 => Adjust[c] \in Q2
  BY <1>5, AdjustTerminates, AdjustIsLoop, LoopInvariant
<1> QED BY <1>1, <1>6, <1>7 DEF J1, J2, Q1, Q2

-----------------------------------------------------------------------------
(* The operations of the heap.                                             *)

\* In an ordered heap no timer is earlier than the top.
LEMMA TopIsEarliest ==
    ASSUME NEW h \in Heap, OrderedHeap(h), ~Empty(h)
    PROVE  Top(h) \in TimersOf(h) /\ \A t \in TimersOf(h) : Top(h).exp <= t.exp
<1> DEFINE n == Len(h.timerList_)
           E(k) == Expiration(h, k)
           T == {k \in 1 .. n : ~(E(1) <= E(k))}
<1>1. n \in Nat /\ 1 \in 1 .. n /\ \A k \in 1 .. n : E(k) \in Nat
  <2>1. h.timerList_ # <<>> /\ h.timerList_ \in Seq(Timer)
    BY HeapFacts DEF Empty
  <2>2. n \in Nat \ {0}
    BY <2>1, EmptySeq
  <2> QED BY <2>2, HeapFacts DEF Expiration
<1>2. T = {}
  <2> SUFFICES ASSUME T # {} PROVE FALSE
    OBVIOUS
  <2>1. T \subseteq Nat
    BY <1>1
  <2> HIDE DEF T
  <2>2. PICK k \in T : \A j \in T : k <= j
    BY <2>1, LeastNumber
  <2>3. k \in 1 .. n /\ ~(E(1) <= E(k)) /\ k # 1
    BY <1>1, <2>2 DEF T
  <2>4. k \in 2 .. n /\ k \div 2 \in 1 .. n /\ k \div 2 < k
    BY <1>1, <2>3
  <2>5. E(k \div 2) <= E(k)
    BY <2>4 DEF OrderedHeap
  <2>6. E(1) <= E(k \div 2)
    BY <1>1, <2>2, <2>4 DEF T
  <2> QED BY <1>1, <2>3, <2>4, <2>5, <2>6
<1>3. \A k \in 1 .. n : E(1) <= E(k)
  BY <1>2
<1>4. ASSUME NEW t \in TimersOf(h) PROVE Top(h).exp <= t.exp
  <2>1. PICK k \in 1 .. n : h.timerList_[k] = t
    BY TimersOfIs
  <2>2. E(1) = Top(h).exp /\ E(k) = t.exp
    BY <2>1 DEF Expiration, Top
  <2> QED BY <1>3, <2>1, <2>2
<1>5. Top(h) \in TimersOf(h)
  BY <1>1, TimersOfIs DEF Top
<1> QED BY <1>4, <1>5

LEMMA AddKeeps ==
    ASSUME NEW h \in Heap, Agree(h), NEW t \in Timer, h.positions_[t.id] = 0
    PROVE  LET g == Add(h, t) IN
           /\ g \in Heap /\ Agree(g) /\ TimersOf(g) = TimersOf(h) \cup {t}
           /\ Len(g.timerList_) = Len(h.timerList_) + 1
           /\ OrderedHeap(h) => OrderedHeap(g)
<1> DEFINE l == h.timerList_
           n == Len(l)
           m == Append(l, t)
           q == [h.positions_ EXCEPT ![t.id] = n + 1]
           f == [timerList_ |-> m, positions_ |-> q]
           c == [heap |-> f, idx |-> n + 1]
<1>1. /\ l \in Seq(Timer) /\ n \in Nat /\ h.positions_ \in [TimerIds -> Nat]
      /\ \A k \in 1 .. n : l[k] \in Timer /\ l[k].id \in TimerIds
      /\ t.id \in TimerIds
  BY HeapFacts DEF Timer
<1>2. m \in Seq(Timer) /\ Len(m) = n + 1 /\ m[n + 1] = t /\ \A k \in 1 .. n : m[k] = l[k]
  <2> HIDE DEF l
  <2> QED BY <1>1
<1>3. /\ q \in [TimerIds -> Nat] /\ q[t.id] = n + 1
      /\ \A id \in TimerIds : id # t.id => q[id] = h.positions_[id]
  BY <1>1
<1>4. /\ \A k \in 1 .. n : h.positions_[l[k].id] = k
      /\ \A id \in TimerIds : h.positions_[id] # 0
              => h.positions_[id] \in 1 .. n /\ l[h.positions_[id]].id = id
  BY AgreeIs
<1>5. Add(h, t) = SiftUp[c]
  BY DEF Add
<1> HIDE DEF m, q, l, n
<1>6. f \in Heap /\ f.timerList_ = m /\ f.positions_ = q
  BY <1>2, <1>3 DEF Heap
<1>7. Agree(f)
  <2>1. ASSUME NEW k \in 1 .. n + 1 PROVE q[m[k].id] = k
    <3>1. CASE k = n + 1
      BY <1>2, <1>3, <3>1
    <3>2. CASE k # n + 1
      <4>1. k \in 1 .. n /\ m[k] = l[k] /\ k # 0
        BY <1>1, <1>2, <2>1, <3>2
      <4>2. l[k].id # t.id
        BY <1>4, <4>1
      <4> QED BY <1>1, <1>3, <1>4, <4>1, <4>2
    <3> QED BY <3>1, <3>2
  <2>2. ASSUME NEW id \in TimerIds, q[id] # 0
        PROVE  q[id] \in 1 .. n + 1 /\ m[q[id]].id = id
    <3>1. CASE id = t.id
      BY <1>1, <1>2, <1>3, <3>1
    <3>2. CASE id # t.id
      <4>1. q[id] = h.positions_[id] /\ q[id] \in 1 .. n /\ l[q[id]].id = id
        BY <1>3, <1>4, <2>2, <3>2
      <4> QED BY <1>1, <1>2, <4>1
    <3> QED BY <3>1, <3>2
  <2> HIDE DEF f
  <2> QED BY <1>2, <1>6, <2>1, <2>2, AgreeIs
<1> HIDE DEF f
<1>8. c \in Cursor /\ c.heap = f /\ c.idx = n + 1
  BY <1>1, <1>2, <1>6, CursorIs
<1> HIDE DEF c
<1>9. Permuted(f, SiftUp[c]) /\ (UpFrom(c) => OrderedHeap(SiftUp[c]))
  BY <1>7, <1>8, SiftUpKeeps
<1>10. TimersOf(f) = TimersOf(h) \cup {t}
  <2>1. \A x : (\E k \in 1 .. n + 1 : m[k] = x) <=> x = t \/ \E k \in 1 .. n : l[k] = x
    <3>1. ASSUME NEW k \in 1 .. n + 1 PROVE m[k] = t \/ (k \in 1 .. n /\ m[k] = l[k])
      <4>1. k = n + 1 \/ k \in 1 .. n
        BY <1>1
      <4>2. CASE k = n + 1
        BY <1>2, <4>2
      <4>3. CASE k \in 1 .. n
        BY <1>2, <4>3
      <4> QED BY <4>1, <4>2, <4>3
    <3>2. ASSUME NEW k \in 1 .. n PROVE k \in 1 .. n + 1 /\ m[k] = l[k]
      BY <1>1, <1>2
    <3>3. n + 1 \in 1 .. n + 1
      BY <1>1
    <3> QED BY <1>2, <3>1, <3>2, <3>3
  <2> QED BY <1>2, <1>6, <2>1, TimersOfIs DEF l, n
<1>11. ASSUME OrderedHeap(h) PROVE UpFrom(c)
  <2>1. \A k \in 1 .. n : Expiration(f, k) = Expiration(h, k)
    BY <1>2, <1>6 DEF Expiration, l
  <2>2. \A k \in 2 .. n : Expiration(h, k \div 2) <= Expiration(h, k)
    BY <1>11 DEF OrderedHeap, l, n
  <2>3. ASSUME NEW k \in 2 .. n + 1
        PROVE  /\ k # n + 1 => Expiration(f, k \div 2) <= Expiration(f, k)
               /\ k \div 2 # n + 1
    <3>1. k \div 2 < k /\ k \div 2 \in 1 .. n /\ (k # n + 1 => k \in 2 .. n /\ k \in 1 .. n)
      BY <1>1
    <3> QED BY <1>1, <2>1, <2>2, <3>1
  <2> QED BY <1>2, <1>6, <1>8, <2>3 DEF UpFrom
<1> QED BY <1>2, <1>5, <1>6, <1>9, <1>10, <1>11 DEF Permuted, l, n

LEMMA ReplaceTopKeeps ==
    ASSUME NEW h \in Heap, Agree(h), ~Empty(h), NEW t \in Timer, t.id = Top(h).id
    PROVE  LET g == ReplaceTop(h, t) IN
           /\ g \in Heap /\ Agree(g) /\ TimersOf(g) = (TimersOf(h) \ {Top(h)}) \cup {t}
           /\ Len(g.timerList_) = Len(h.timerList_)
           /\ OrderedHeap(h) => OrderedHeap(g)
<1> DEFINE l == h.timerList_
           n == Len(l)
           m == [l EXCEPT ![1] = t]
           f == [h EXCEPT !.timerList_ = m]
           c == [heap |-> f, idx |-> 1]
<1>1. /\ l \in Seq(Timer) /\ n \in Nat /\ h.positions_ \in [TimerIds -> Nat]
      /\ l # <<>> /\ h = [timerList_ |-> l, positions_ |-> h.positions_]
  BY HeapFacts DEF Empty
<1>2. n \in Nat \ {0} /\ 1 \in 1 .. n
  <2>1. n \in Nat \ {0}
    BY <1>1, EmptySeq
  <2> HIDE DEF n
  <2> QED BY <2>1
<1>3. /\ m \in Seq(Timer) /\ Len(m) = n
      /\ \A k \in 1 .. n : m[k] = IF k = 1 THEN t ELSE l[k]
  <2> HIDE DEF l
  <2> QED BY <1>1, <1>2, ExceptSeq
<1>4. /\ \A k \in 1 .. n : h.positions_[l[k].id] = k
      /\ \A id \in TimerIds : h.positions_[id] # 0
              => h.positions_[id] \in 1 .. n /\ l[h.positions_[id]].id = id
  BY AgreeIs
<1>5. ReplaceTop(h, t) = Adjust[c]
  BY DEF ReplaceTop
<1>6. f.timerList_ = m /\ f.positions_ = h.positions_ /\ f \in Heap
  <2> HIDE DEF m, l, n
  <2>1. f = [timerList_ |-> m, positions_ |-> h.positions_]
    BY <1>1
  <2> QED BY <1>1, <1>3, <2>1 DEF Heap
<1> HIDE DEF m, l, n, f
<1>7. Agree(f)
  <2>1. l[1].id = t.id
    BY DEF Top, l
  <2>2. \A k \in 1 .. n : m[k].id = l[k].id
    BY <1>3, <2>1
  <2> QED BY <1>3, <1>4, <1>6, <2>2, AgreeIs
<1>8. c \in Cursor /\ c.heap = f /\ c.idx = 1
  BY <1>2, <1>3, <1>6, CursorIs
<1> HIDE DEF c
<1>9. Permuted(f, Adjust[c]) /\ (DownFrom(c) => OrderedHeap(Adjust[c]))
  BY <1>7, <1>8, AdjustKeeps
<1>10. TimersOf(f) = (TimersOf(h) \ {Top(h)}) \cup {t}
  <2>1. \A k \in 1 .. n : k # 1 => l[k] # l[1]
    BY <1>2, <1>4
  <2>2. \A x : (\E k \in 1 .. n : m[k] = x)
               <=> x = t \/ ((\E k \in 1 .. n : l[k] = x) /\ x # l[1])
    <3>1. ASSUME NEW k \in 1 .. n PROVE m[k] = t \/ (m[k] = l[k] /\ m[k] # l[1])
      BY <1>3, <2>1
    <3>2. ASSUME NEW k \in 1 .. n, l[k] # l[1] PROVE m[k] = l[k]
      BY <1>3, <3>2
    <3> QED BY <1>2, <1>3, <3>1, <3>2
  <2>3. /\ \A x : x \in TimersOf(f) <=> \E k \in 1 .. n : m[k] = x
        /\ \A x : x \in TimersOf(h) <=> \E k \in 1 .. n : l[k] = x
    BY <1>3, <1>6, TimersOfIs DEF l, n
  <2>4. Top(h) = l[1]
    BY DEF Top, l
  <2> QED BY <2>2, <2>3, <2>4
<1>11. ASSUME OrderedHeap(h) PROVE DownFrom(c)
  <2>1. \A k \in 2 .. n : Expiration(f, k) = Expiration(h, k)
    BY <1>2, <1>3, <1>6 DEF Expiration, l
  <2>2. \A k \in 2 .. n : Expiration(h, k \div 2) <= Expiration(h, k)
    BY <1>11 DEF OrderedHeap, l, n
  <2>3. ASSUME NEW k \in 2 .. n, k \div 2 # 1
        PROVE  Expiration(f, k \div 2) <= Expiration(f, k)
    <3>1. k \div 2 \in 2 .. n
      BY <1>2, <2>3
    <3> QED BY <2>1, <2>2, <2>3, <3>1
  <2> QED BY <1>3, <1>6, <1>8, <2>3 DEF DownFrom
<1> QED BY <1>3, <1>5, <1>6, <1>9, <1>10, <1>11 DEF Permuted, l, n

\* The last timer may take the place of the one at idx: it is no earlier than
\* its new parent.  Del does not look whether it is.
FitsAt(h, idx) ==
    LET n == Len(h.timerList_) IN
    idx = 1 \/ idx = n \/ Expiration(h, idx \div 2) <= Expiration(h, n)

LEMMA RemoveKeeps ==
    ASSUME NEW h \in Heap, Agree(h), NEW idx \in 1 .. Len(h.timerList_)
    PROVE  LET g == RemoveTimerAt(h, idx) IN
           /\ g \in Heap /\ Agree(g) /\ TimersOf(g) = TimersOf(h) \ {h.timerList_[idx]}
           /\ Len(g.timerList_) = Len(h.timerList_) - 1
           /\ OrderedHeap(h) /\ FitsAt(h, idx) => OrderedHeap(g)
<1> DEFINE l == h.timerList_
           n == Len(l)
           back == Last(l)
           e == [l EXCEPT ![idx] = back]
           m == Front(e)
           q == [[h.positions_ EXCEPT ![back.id] = idx] EXCEPT ![l[idx].id] = 0]
           f == [timerList_ |-> m, positions_ |-> q]
           c == [heap |-> f, idx |-> idx]
<1>1. /\ l \in Seq(Timer) /\ n \in Nat /\ h.positions_ \in [TimerIds -> Nat]
      /\ \A k \in 1 .. n : l[k] \in Timer /\ l[k].id \in TimerIds
      /\ idx \in 1 .. n /\ idx \in Nat
  BY HeapFacts
<1>2. n \in 1 .. n /\ n - 1 \in Nat
  BY <1>1
<1>3. back = l[n]
  BY DEF Last
<1>4. e \in Seq(Timer) /\ Len(e) = n /\ \A k \in 1 .. n : e[k] = IF k = idx THEN l[n] ELSE l[k]
  <2> HIDE DEF l, back
  <2>1. back \in Timer
    BY <1>1, <1>2, <1>3
  <2> QED BY <1>1, <1>3, <2>1, ExceptSeq
<1>5. /\ m \in Seq(Timer) /\ Len(m) = n - 1
      /\ \A k \in 1 .. n - 1 : m[k] = IF k = idx THEN l[n] ELSE l[k]
  <2> HIDE DEF e, n
  <2>1. m = SubSeq(e, 1, n - 1)
    BY <1>4 DEF Front
  <2>2. \A k \in 1 .. n - 1 : e[k] \in Timer /\ k \in 1 .. n
    BY <1>2, <1>4
  <2>3. /\ SubSeq(e, 1, n - 1) \in Seq(Timer)
        /\ Len(SubSeq(e, 1, n - 1)) = IF 1 <= n - 1 THEN n - 1 - 1 + 1 ELSE 0
        /\ \A k \in 1 .. n - 1 - 1 + 1 : SubSeq(e, 1, n - 1)[k] = e[1 + k - 1]
    BY <1>2, <2>2, SubSeqProperties
  <2>4. Len(m) = n - 1 /\ \A k \in 1 .. n - 1 : m[k] = e[k]
    <3>1. n - 1 - 1 + 1 = n - 1 /\ \A k \in 1 .. n - 1 : 1 + k - 1 = k
      BY <1>2
    <3> QED BY <1>2, <2>1, <2>3, <3>1
  <2> QED BY <1>4, <2>1, <2>2, <2>3, <2>4
<1>6. /\ \A k \in 1 .. n : h.positions_[l[k].id] = k
      /\ \A id \in TimerIds : h.positions_[id] # 0
              => h.positions_[id] \in 1 .. n /\ l[h.positions_[id]].id = id
  BY AgreeIs
<1>7. RemoveTimerAt(h, idx) = IF idx = n THEN f ELSE Adjust[c]
  BY DEF RemoveTimerAt
<1> HIDE DEF l, n, back, e, m
<1>8. /\ q \in [TimerIds -> Nat] /\ q[l[idx].id] = 0
      /\ idx # n => q[l[n].id] = idx
      /\ \A id \in TimerIds : id # l[idx].id /\ id # l[n].id => q[id] = h.positions_[id]
  <2>1. idx # n => l[n].id # l[idx].id
    BY <1>1, <1>2, <1>6
  <2> QED BY <1>1, <1>2, <1>3, <2>1
<1> HIDE DEF q
<1>9. f \in Heap /\ f.timerList_ = m /\ f.positions_ = q
  BY <1>5, <1>8 DEF Heap
<1> HIDE DEF f
<1>10. Agree(f)
  <2>1. ASSUME NEW k \in 1 .. n - 1 PROVE q[m[k].id] = k
    <3>0. k \in 1 .. n /\ k # n
      BY <1>2
    <3>1. CASE k = idx
      BY <1>5, <1>8, <2>1, <3>0, <3>1
    <3>2. CASE k # idx
      <4>1. l[k].id # l[idx].id /\ l[k].id # l[n].id /\ m[k] = l[k]
        BY <1>1, <1>2, <1>5, <1>6, <2>1, <3>0, <3>2
      <4> QED BY <1>1, <1>6, <1>8, <3>0, <4>1
    <3> QED BY <3>1, <3>2
  <2>2. ASSUME NEW id \in TimerIds, q[id] # 0
        PROVE  q[id] \in 1 .. n - 1 /\ m[q[id]].id = id
    <3>1. id # l[idx].id
      BY <1>8, <2>2
    <3>2. CASE id = l[n].id
      <4>1. idx # n
        BY <3>1, <3>2
      <4>2. idx \in 1 .. n - 1
        BY <1>1, <4>1
      <4> QED BY <1>5, <1>8, <3>2, <4>1, <4>2
    <3>3. CASE id # l[n].id
      <4>1. q[id] = h.positions_[id] /\ q[id] \in 1 .. n /\ l[q[id]].id = id
        BY <1>6, <1>8, <2>2, <3>1, <3>3
      <4>2. q[id] # n /\ q[id] # idx
        BY <3>1, <3>3, <4>1
      <4>3. q[id] \in 1 .. n - 1
        BY <1>1, <4>1, <4>2
      <4> QED BY <1>5, <4>1, <4>2, <4>3
    <3> QED BY <3>2, <3>3
  <2> QED BY <1>5, <1>9, <2>1, <2>2, AgreeIs
<1>11. TimersOf(f) = TimersOf(h) \ {l[idx]}
  <2>0. \A k \in 1 .. n : k # idx => l[k] # l[idx]
    BY <1>1, <1>6
  <2>1. \A x : (\E k \in 1 .. n - 1 : m[k] = x)
               <=> (\E k \in 1 .. n : l[k] = x) /\ x # l[idx]
    <3>1. ASSUME NEW k \in 1 .. n - 1
          PROVE  (\E j \in 1 .. n : l[j] = m[k]) /\ m[k] # l[idx]
      <4>1. k \in 1 .. n /\ k # n
        BY <1>2
      <4>2. CASE k = idx
        BY <1>2, <1>5, <2>0, <3>1, <4>1, <4>2
      <4>3. CASE k # idx
        BY <1>5, <2>0, <3>1, <4>1, <4>3
      <4> QED BY <4>2, <4>3
    <3>2. ASSUME NEW k \in 1 .. n, l[k] # l[idx] PROVE \E j \in 1 .. n - 1 : m[j] = l[k]
      <4>1. CASE k = n
        <5>1. idx \in 1 .. n - 1
          BY <1>1, <3>2, <4>1
        <5> QED BY <1>5, <4>1, <5>1
      <4>2. CASE k # n
        <5>1. k \in 1 .. n - 1
          BY <1>1, <3>2, <4>2
        <5> QED BY <1>5, <3>2, <5>1
      <4> QED BY <4>1, <4>2
    <3> QED BY <3>1, <3>2
  <2>2. /\ \A x : x \in TimersOf(f) <=> \E k \in 1 .. n - 1 : m[k] = x
        /\ \A x : x \in TimersOf(h) <=> \E k \in 1 .. n : l[k] = x
    BY <1>5, <1>9, TimersOfIs DEF l, n
  <2> QED BY <2>1, <2>2
<1>12. ASSUME idx # n
       PROVE  /\ c \in Cursor /\ c.heap = f /\ c.idx = idx
              /\ Permuted(f, Adjust[c])
              /\ DownFrom(c) => OrderedHeap(Adjust[c])
  <2>1. idx \in 1 .. n - 1
    BY <1>1, <1>12
  <2>2. c \in Cursor /\ c.heap = f /\ c.idx = idx
    BY <1>5, <1>9, <2>1, CursorIs
  <2> HIDE DEF c
  <2> QED BY <1>10, <2>2, AdjustKeeps
<1>13. ASSUME OrderedHeap(h), FitsAt(h, idx)
       PROVE  IF idx = n THEN OrderedHeap(f) ELSE DownFrom(c)
  <2> DEFINE E(k) == Expiration(h, k)
             F(k) == Expiration(f, k)
  <2>1. \A k \in 1 .. n - 1 : F(k) = IF k = idx THEN E(n) ELSE E(k)
    BY <1>5, <1>9 DEF Expiration, l
  <2>2. \A k \in 2 .. n : E(k \div 2) <= E(k)
    BY <1>13 DEF OrderedHeap, l, n
  <2>3. \A k \in 1 .. n : E(k) \in Nat
    BY HeapFacts DEF Expiration, n, l
  <2>4. \A k \in 2 .. n - 1 : k \in 2 .. n /\ k \in 1 .. n - 1 /\ k \div 2 \in 1 .. n - 1
    BY <1>2
  <2>5. idx # 1 /\ idx # n => E(idx \div 2) <= E(n)
    BY <1>13 DEF FitsAt, n, l
  <2> HIDE DEF E, F
  <2>6. CASE idx = n
    <3>1. \A k \in 2 .. n - 1 : F(k \div 2) <= F(k)
      <4>1. \A k \in 1 .. n - 1 : k # idx
        BY <1>2, <2>6
      <4> QED BY <2>1, <2>2, <2>4, <4>1
    <3> QED BY <1>5, <1>9, <2>6, <3>1 DEF OrderedHeap, F
  <2>7. CASE idx # n
    <3>1. ASSUME NEW k \in 2 .. n - 1, k \div 2 # idx PROVE F(k \div 2) <= F(k)
      <4>1. CASE k = idx
        <5>1. idx # 1
          BY <1>1, <3>1, <4>1
        <5> QED BY <2>1, <2>4, <2>5, <2>7, <3>1, <4>1, <5>1
      <4>2. CASE k # idx
        BY <2>1, <2>2, <2>4, <3>1, <4>2
      <4> QED BY <4>1, <4>2
    <3>2. ASSUME NEW k \in 2 .. n - 1, k \div 2 = idx, idx > 1
          PROVE  F(idx \div 2) <= F(k)
      <4>1. /\ k # idx /\ idx \in 2 .. n /\ idx \in 1 .. n /\ idx \div 2 \in 1 .. n - 1
            /\ idx \div 2 # idx /\ idx \div 2 \in 1 .. n /\ k \in 1 .. n /\ k \in 2 .. n
        BY <1>1, <1>2, <3>2
      <4>2. F(k) = E(k) /\ F(idx \div 2) = E(idx \div 2)
        BY <2>1, <2>4, <3>2, <4>1
      <4>3. E(idx \div 2) <= E(idx) /\ E(idx) <= E(k)
        BY <2>2, <3>2, <4>1
      <4>4. E(idx \div 2) \in Nat /\ E(idx) \in Nat /\ E(k) \in Nat
        BY <2>3, <4>1
      <4> QED BY <4>2, <4>3, <4>4
    <3> QED BY <1>5, <1>9, <1>12, <2>7, <3>1, <3>2 DEF DownFrom, F
  <2> QED BY <2>6, <2>7
<1>14. CASE idx = n
  BY <1>5, <1>7, <1>9, <1>10, <1>11, <1>13, <1>14 DEF l, n
<1>15. CASE idx # n
  <2>1. Adjust[c] \in Heap /\ Agree(Adjust[c]) /\ TimersOf(Adjust[c]) = TimersOf(f)
        /\ Len(Adjust[c].timerList_) = n - 1
    BY <1>5, <1>9, <1>12, <1>15 DEF Permuted
  <2>2. OrderedHeap(h) /\ FitsAt(h, idx) => OrderedHeap(Adjust[c])
    BY <1>12, <1>13, <1>15
  <2> QED BY <1>7, <1>11, <1>15, <2>1, <2>2 DEF l, n
<1> QED BY <1>14, <1>15

-----------------------------------------------------------------------------
(* The loop of GetExpiredTimers.                                           *)

TakeDone == {s \in TakeStates : Empty(s.heap) \/ Top(s.heap).exp > s.clock}

\* The heap without its top, or with the next occurrence of it.
Retake(h, clock) ==
    LET t == Top(h) IN
    IF t.interval # 0 THEN ReplaceTop(h, [t EXCEPT !.exp = clock + t.interval])
                      ELSE PopMovedTimer(h, t.id)

TakeNext == [s \in TakeStates |->
                IF s \in TakeDone THEN s
                ELSE [heap |-> Retake(s.heap, s.clock),
                      taken |-> Append(s.taken, Top(s.heap)), clock |-> s.clock]]
Due(s) == {t \in TimersOf(s.heap) : t.exp <= s.clock}
TakeLeft == [s \in TakeStates |-> Cardinality(Due(s))]
StateAt == [s \in TakeStates |-> s]

LEMMA DueFinite ==
    ASSUME NEW s \in TakeStates
    PROVE  IsFiniteSet(Due(s)) /\ Cardinality(Due(s)) \in Nat
<1> DEFINE l == s.heap.timerList_
           T == TimersOf(s.heap)
<1>1. s.heap \in Heap
  BY DEF TakeStates
<1>2. l \in Seq(Timer) /\ Len(l) \in Nat /\ DOMAIN l = 1 .. Len(l)
      /\ T = {l[i] : i \in 1 .. Len(l)}
  BY <1>1, HeapFacts DEF TimersOf
<1>3. l \in [1 .. Len(l) -> T] /\ \A t \in T : \E i \in 1 .. Len(l) : l[i] = t
  <2>1. l \in [1 .. Len(l) -> Timer]
    BY <1>2
  <2> HIDE DEF l, T
  <2> QED BY <1>2, <2>1
<1>4. l \in Surjection(1 .. Len(l), T)
  <2> HIDE DEF l, T
  <2> QED BY <1>3 DEF Surjection
<1>5. IsFiniteSet(1 .. Len(l))
  <2> HIDE DEF l
  <2> QED BY <1>2, FS_Interval
<1>6. IsFiniteSet(T)
  <2> HIDE DEF l, T
  <2> QED BY <1>4, <1>5, FS_Surjection
<1>7. Due(s) \in SUBSET T
  BY DEF Due
<1> QED BY <1>6, <1>7, FS_Subset, FS_CardinalityType

\* One iteration of the loop takes the top off the list of what is due.
LEMMA TakeStep ==
    ASSUME NEW s \in TakeStates, s \notin TakeDone
    PROVE  LET t == Top(s.heap)
               n == TakeNext[s] IN
           /\ n \in TakeStates /\ n.clock = s.clock
           /\ t \in TimersOf(s.heap) /\ t \in Timer /\ t \in Due(s)
           /\ n.taken = Append(s.taken, t)
           /\ \/ TimersOf(n.heap) = TimersOf(s.heap) \ {t}
              \/ /\ t.interval # 0
                 /\ TimersOf(n.heap) = (TimersOf(s.heap) \ {t})
                                \cup {[t EXCEPT !.exp = s.clock + t.interval]}
           /\ Due(n) = Due(s) \ {t}
           /\ OrderedHeap(s.heap) => OrderedHeap(n.heap)
<1> DEFINE h == s.heap
           t == Top(h)
           u == [t EXCEPT !.exp = s.clock + t.interval]
           n == TakeNext[s]
           g == Retake(h, s.clock)
<1>1. /\ h \in Heap /\ Agree(h) /\ s.taken \in Seq(Timer) /\ s.clock \in Nat
      /\ ~Empty(h) /\ ~(t.exp > s.clock)
  BY DEF TakeStates, TakeDone
<1>2. n = [heap |-> g, taken |-> Append(s.taken, t), clock |-> s.clock]
  BY DEF TakeNext
<1>3. 1 \in 1 .. Len(h.timerList_) /\ t = h.timerList_[1] /\ h.positions_[t.id] = 1
  <2>1. h.timerList_ # <<>> /\ h.timerList_ \in Seq(Timer) /\ Len(h.timerList_) \in Nat
    BY <1>1, HeapFacts DEF Empty
  <2>2. Len(h.timerList_) # 0
    BY <2>1, EmptySeq
  <2>3. 1 \in 1 .. Len(h.timerList_)
    BY <2>1, <2>2
  <2> QED BY <1>1, <2>3, AgreeIs DEF Top
<1>4. t \in Timer /\ t \in TimersOf(h)
  <2> HIDE DEF h, t
  <2> QED BY <1>1, <1>3, HeapFacts, TimersOfIs
<1>5. t.exp \in Nat /\ t.interval \in Nat /\ t.exp <= s.clock /\ t \in Due(s)
  <2>1. t.exp \in Nat /\ t.interval \in Nat
    BY <1>4, TimerAssumption DEF Timer
  <2> QED BY <1>1, <1>4, <2>1 DEF Due
<1>6. u \in Timer /\ u.id = t.id /\ u.exp = s.clock + t.interval
  <2> HIDE DEF t
  <2> QED BY <1>1, <1>4, <1>5 DEF Timer
<1> HIDE DEF u, t
<1>7. /\ g \in Heap /\ Agree(g) /\ (OrderedHeap(h) => OrderedHeap(g))
      /\ \/ TimersOf(g) = TimersOf(h) \ {t}
         \/ t.interval # 0 /\ TimersOf(g) = (TimersOf(h) \ {t}) \cup {u}
  <2>1. CASE t.interval # 0
    <3>1. g = ReplaceTop(h, u)
      BY <2>1 DEF Retake, u, t
    <3> HIDE DEF g, h
    <3> QED BY <1>1, <1>6, <2>1, <3>1, ReplaceTopKeeps DEF t
  <2>2. CASE t.interval = 0
    <3>1. g = RemoveTimerAt(h, 1)
      BY <1>3, <2>2 DEF Retake, PopMovedTimer, t
    <3>2. FitsAt(h, 1)
      BY DEF FitsAt
    <3> HIDE DEF g, h
    <3> QED BY <1>1, <1>3, <3>1, <3>2, RemoveKeeps
  <2> QED BY <2>1, <2>2
<1>8. Append(s.taken, t) \in Seq(Timer)
  BY <1>1, <1>4, AppendProperties
<1>9. n \in TakeStates /\ n.heap = g /\ n.clock = s.clock /\ n.taken = Append(s.taken, t)
  <2> HIDE DEF g, n
  <2> QED BY <1>1, <1>2, <1>7, <1>8 DEF TakeStates
<1>10. Due(n) = Due(s) \ {t}
  <2> HIDE DEF g, n, h
  <2>1. t.interval # 0 => ~(u.exp <= s.clock)
    BY <1>1, <1>5, <1>6
  <2>2. Due(n) = {x \in TimersOf(g) : x.exp <= s.clock}
    BY <1>9 DEF Due
  <2>3. Due(s) = {x \in TimersOf(h) : x.exp <= s.clock}
    BY DEF Due, h
  <2> QED BY <1>7, <2>1, <2>2, <2>3
<1> HIDE DEF g, n
<1> QED BY <1>4, <1>5, <1>7, <1>9, <1>10 DEF n, t, u, h

LEMMA TakeTerminates == Terminates(TakeStates, TakeDone, TakeNext, TakeLeft)
<1>1. ASSUME NEW s \in TakeStates PROVE TakeNext[s] \in TakeStates
  <2>1. s \in TakeDone => TakeNext[s] = s
    BY DEF TakeNext
  <2> QED BY <2>1, TakeStep
<1>2. TakeNext \in [TakeStates -> TakeStates]
  <2>1. TakeNext = [s \in TakeStates |-> TakeNext[s]]
    BY DEF TakeNext
  <2> QED BY <1>1, <2>1
<1>3. TakeLeft \in [TakeStates -> Nat]
  BY DueFinite DEF TakeLeft
<1>4. ASSUME NEW s \in TakeStates, s \notin TakeDone
      PROVE  TakeLeft[TakeNext[s]] < TakeLeft[s]
  <2>1. TakeNext[s] \in TakeStates /\ Due(TakeNext[s]) = Due(s) \ {Top(s.heap)}
        /\ Top(s.heap) \in Due(s)
    BY <1>4, TakeStep
  <2>2. IsFiniteSet(Due(s)) /\ Cardinality(Due(s)) \in Nat
    BY DueFinite
  <2>3. Cardinality(Due(s) \ {Top(s.heap)}) = Cardinality(Due(s)) - 1
    BY <2>1, <2>2, FS_RemoveElement
  <2>4. TakeLeft[TakeNext[s]] = Cardinality(Due(s)) - 1 /\ TakeLeft[s] = Cardinality(Due(s))
    BY <2>1, <2>3 DEF TakeLeft
  <2> QED BY <2>2, <2>4
<1> QED BY <1>2, <1>3, <1>4 DEF Terminates

LEMMA TakeIsLoop == IsLoop(TakeExpired, TakeStates, TakeDone, TakeNext, StateAt)
<1> DEFINE B(f, s) ==
              LET t == Top(s.heap) IN
              IF Empty(s.heap) \/ t.exp > s.clock THEN s
              ELSE f[[heap |-> IF t.interval # 0
                               THEN ReplaceTop(s.heap, [t EXCEPT !.exp = s.clock + t.interval])
                               ELSE PopMovedTimer(s.heap, t.id),
                      taken |-> Append(s.taken, t), clock |-> s.clock]]
           P(f) == f = [s \in TakeStates |-> B(f, s)]
<1>1. ASSUME NEW f PROVE P(f) <=> IsLoop(f, TakeStates, TakeDone, TakeNext, StateAt)
  <2>1. ASSUME NEW s \in TakeStates
        PROVE  (IF s \in TakeDone THEN StateAt[s] ELSE f[TakeNext[s]]) = B(f, s)
    BY <2>1 DEF TakeDone, TakeNext, StateAt, Retake
  <2> QED BY <2>1 DEF IsLoop
<1>2. TakeExpired = CHOOSE f : P(f)
  BY DEF TakeExpired
<1> HIDE DEF P
<1>3. \E f : P(f)
  BY <1>1, TakeTerminates, LoopExists
<1> QED BY <1>1, <1>2, <1>3

\* What the loop has done on the way from s to r.
Took(s, r) ==
    /\ r \in TakeStates /\ r.clock = s.clock
    /\ \A t \in TimersOf(r.heap) : \E u \in TimersOf(s.heap) :
          /\ t.id = u.id
          /\ t = u \/ (t.interval # 0 /\ t.exp = s.clock + t.interval)
    /\ \A t \in TimersOf(s.heap) :
          t \in TimersOf(r.heap) \/ \E i \in 1 .. Len(r.taken) : r.taken[i] = t
    /\ OrderedHeap(s.heap) => OrderedHeap(r.heap)

LEMMA TookStep ==
    ASSUME NEW s \in TakeStates, NEW r, Took(s, r), r \notin TakeDone
    PROVE  Took(s, TakeNext[r])
<1> DEFINE t == Top(r.heap)
           n == TakeNext[r]
           u == [t EXCEPT !.exp = r.clock + t.interval]
<1>1. r \in TakeStates /\ r.clock = s.clock /\ r.taken \in Seq(Timer)
  BY DEF Took, TakeStates
<1>2. /\ n \in TakeStates /\ n.clock = r.clock
      /\ t \in TimersOf(r.heap) /\ t \in Timer /\ n.taken = Append(r.taken, t)
      /\ \/ TimersOf(n.heap) = TimersOf(r.heap) \ {t}
         \/ t.interval # 0 /\ TimersOf(n.heap) = (TimersOf(r.heap) \ {t}) \cup {u}
      /\ OrderedHeap(r.heap) => OrderedHeap(n.heap)
  BY <1>1, TakeStep
<1>3. u.id = t.id /\ u.interval = t.interval /\ u.exp = s.clock + t.interval
  <2> HIDE DEF t
  <2> QED BY <1>1, <1>2 DEF Timer
<1> HIDE DEF t, n, u
<1>4. ASSUME NEW x \in TimersOf(n.heap)
      PROVE  \E y \in TimersOf(s.heap) :
                /\ x.id = y.id
                /\ x = y \/ (x.interval # 0 /\ x.exp = s.clock + x.interval)
  <2>1. CASE x \in TimersOf(r.heap)
    BY <2>1 DEF Took
  <2>2. CASE x \notin TimersOf(r.heap)
    <3>1. x = u /\ t.interval # 0
      BY <1>2, <1>4, <2>2
    <3>2. PICK y \in TimersOf(s.heap) : t.id = y.id
      BY <1>2 DEF Took
    <3> QED BY <1>3, <3>1, <3>2
  <2> QED BY <2>1, <2>2
<1>5. /\ Len(n.taken) = Len(r.taken) + 1 /\ Len(r.taken) \in Nat
      /\ n.taken[Len(r.taken) + 1] = t
      /\ \A i \in 1 .. Len(r.taken) : n.taken[i] = r.taken[i]
  BY <1>1, <1>2, AppendProperties
<1>6. ASSUME NEW x \in TimersOf(s.heap)
      PROVE  x \in TimersOf(n.heap) \/ \E i \in 1 .. Len(n.taken) : n.taken[i] = x
  <2>1. CASE x \in TimersOf(r.heap) /\ x # t
    BY <1>2, <2>1
  <2>2. CASE x = t
    <3>1. Len(r.taken) + 1 \in 1 .. Len(n.taken)
      BY <1>5
    <3> QED BY <1>5, <2>2, <3>1
  <2>3. CASE x \notin TimersOf(r.heap)
    <3>1. PICK i \in 1 .. Len(r.taken) : r.taken[i] = x
      BY <1>6, <2>3 DEF Took
    <3>2. i \in 1 .. Len(n.taken)
      BY <1>5
    <3> QED BY <1>5, <3>1, <3>2
  <2> QED BY <2>1, <2>2, <2>3
<1> QED BY <1>1, <1>2, <1>4, <1>6 DEF Took, n

\* GetExpiredTimers: the timers it leaves in the heap are not due, or are the
\* next occurrence of one that was; and no timer is dropped.
LEMMA TakeExpiredKeeps ==
    ASSUME NEW s \in TakeStates
    PROVE  Took(s, TakeExpired[s]) /\ TakeExpired[s] \in TakeDone
<1> DEFINE J == {r \in TakeStates : Took(s, r)}
           Q == {r \in TakeDone : Took(s, r)}
<1>1. s \in J
  BY DEF Took
<1>2. Keeps(J, TakeStates, TakeDone, TakeNext, StateAt, Q)
  <2>1. ASSUME NEW r \in J, r \notin TakeDone PROVE TakeNext[r] \in J
    <3>1. Took(s, TakeNext[r])
      BY <2>1, TookStep
    <3> QED BY <3>1 DEF Took
  <2>2. ASSUME NEW r \in J, r \in TakeDone PROVE StateAt[r] \in Q
    BY <2>2 DEF StateAt
  <2> QED BY <2>1, <2>2 DEF Keeps
<1> HIDE DEF J, Q
<1>3. TakeExpired[s] \in Q
  BY <1>1, <1>2, TakeTerminates, TakeIsLoop, LoopInvariant
<1> QED BY <1>3 DEF Q

-----------------------------------------------------------------------------
(* The inductive invariant.                                                *)

Operation == [op : {"add"}, timer : Timer] \cup [op : {"cancel"}, id : TimerIds]

\* Every timer was created, with an expiration that is a time point.
BornInv ==
    /\ pending \in Seq(Operation)
    /\ \A t \in Timers : t.id < nextTimerId_ /\ t.exp \in 1 .. Never - 1
    /\ \A k \in DOMAIN pending : pending[k].op = "add"
          => /\ pending[k].timer.id < nextTimerId_
             /\ pending[k].timer.exp \in 1 .. Never - 1
    /\ \A k \in DOMAIN pending : pending[k].op = "cancel"
          => pending[k].id < nextTimerId_ /\ MaxCancels # 0
    /\ \A id \in cancelled : id < nextTimerId_

\* A timer that is still to be added is in no other place.
AddedOnce ==
    \A k \in DOMAIN pending : pending[k].op = "add" =>
        /\ pending[k].timer.id \notin cancelled
        /\ \A t \in Timers : t.id # pending[k].timer.id
        /\ \A j \in DOMAIN pending : pending[j].op = "add"
              => (pending[j].timer.id = pending[k].timer.id <=> j = k)

IInv == TypeOK /\ PositionsMatch /\ CancelledStaysCancelled /\ BornInv /\ AddedOnce

\* The heap is in order and the timerfd is armed for its top.
OrderInv ==
    /\ OrderedHeap(heap_) /\ timerfd = latestTime_
    /\ latestTime_ = IF Empty(heap_) THEN Never ELSE Top(heap_).exp

\* A cancel removes a timer whose place the last timer of the heap may take.
CancelFits ==
    \A id \in TimerIds : CancelTimerInLoop(id) /\ heap_.positions_[id] # 0
        => FitsAt(heap_, heap_.positions_[id])

LEMMA NeverFacts ==
    /\ Never \in Nat /\ Never > 0
    /\ \A w \in Whens \cup Intervals : w \in Nat /\ w + MaxNow < Never
<1> DEFINE S == Whens \cup Intervals
           m == CHOOSE x \in S : \A w \in S : w <= x
<1>1. m \in S /\ \A w \in S : w <= m
  BY TimerAssumption
<1>2. S \subseteq Nat /\ MaxNow \in Nat
  BY TimerAssumption
<1>3. Never = 1 + MaxNow + m
  BY DEF Never
<1> HIDE DEF S, m
<1>4. Never \in Nat /\ Never > 0 /\ \A w \in S : w \in Nat /\ w + MaxNow < Never
  BY <1>1, <1>2, <1>3
<1> QED BY <1>4 DEF S

LEMMA FreshId ==
    ASSUME PositionsMatch, NEW id \in TimerIds, \A t \in Timers : t.id # id
    PROVE  heap_.positions_[id] = 0
  BY DEF PositionsMatch, Agree, Timers

\* AddTimerInLoop.
LEMMA AddInLoop ==
    ASSUME TypeOK, PositionsMatch, NEW t \in Timer, \A u \in Timers : u.id # t.id,
           t.exp \in 1 .. Never - 1, AddTimerInLoop(t)
    PROVE  /\ heap_' \in Heap /\ PositionsMatch' /\ Timers' = Timers \cup {t}
           /\ latestTime_' \in 1 .. Never /\ timerfd' \in 1 .. Never
           /\ cancelled' = cancelled
           /\ OrderInv => OrderInv'
<1>1. heap_ \in Heap /\ Agree(heap_) /\ t.id \in TimerIds /\ heap_' = Add(heap_, t)
  BY DEF TypeOK, PositionsMatch, AddTimerInLoop, Timer
<1>2. heap_.positions_[t.id] = 0
  BY <1>1, FreshId
<1>3. /\ heap_' \in Heap /\ Agree(heap_') /\ TimersOf(heap_') = TimersOf(heap_) \cup {t}
      /\ OrderedHeap(heap_) => OrderedHeap(heap_')
  BY <1>1, <1>2, AddKeeps
<1>4. PositionsMatch' /\ Timers' = Timers \cup {t}
  BY <1>3 DEF PositionsMatch, Timers
<1>5. latestTime_' \in 1 .. Never /\ timerfd' \in 1 .. Never /\ cancelled' = cancelled
  <2>1. t.exp \in 1 .. Never
    BY NeverFacts
  <2> QED BY <2>1 DEF AddTimerInLoop, SetLatest, TypeOK
<1>6. ASSUME OrderInv PROVE OrderInv'
  <2>1. OrderedHeap(heap_')
    BY <1>3, <1>6 DEF OrderInv
  <2>2. ~Empty(heap_')
    BY <1>3, HeapFacts DEF Empty, TimersOf
  <2>3. Top(heap_') \in TimersOf(heap_') /\ \A u \in TimersOf(heap_') : Top(heap_').exp <= u.exp
    BY <1>3, <2>1, <2>2, TopIsEarliest
  <2>4. CASE Top(heap_').id = t.id
    <3>1. Top(heap_') = t
      BY <1>3, <2>3, <2>4 DEF Timers
    <3>2. latestTime_' = t.exp /\ timerfd' = t.exp
      BY <2>4 DEF AddTimerInLoop, SetLatest
    <3> QED BY <2>1, <2>2, <3>1, <3>2 DEF OrderInv
  <2>5. CASE Top(heap_').id # t.id
    <3>0. Top(heap_') \in TimersOf(heap_)
      BY <1>3, <2>3, <2>5
    <3>1. Top(heap_') \in TimersOf(heap_) /\ ~Empty(heap_)
      BY <3>0 DEF Empty, TimersOf
    <3>2. Top(heap_) \in TimersOf(heap_) /\ \A u \in TimersOf(heap_) : Top(heap_).exp <= u.exp
      BY <1>1, <1>6, <3>1, TopIsEarliest DEF OrderInv
    <3>3. Top(heap_).exp <= Top(heap_').exp /\ Top(heap_').exp <= Top(heap_).exp
      BY <1>3, <2>3, <3>1, <3>2
    <3>4. Top(heap_).exp \in Nat /\ Top(heap_').exp \in Nat
      <4>1. \A u \in TimersOf(heap_) : u.exp \in Nat
        BY <1>1, HeapFacts, TimersOfIs
      <4> QED BY <3>1, <3>2, <4>1
    <3>5. latestTime_' = latestTime_ /\ timerfd' = timerfd
      BY <2>5 DEF AddTimerInLoop
    <3>6. Top(heap_').exp = Top(heap_).exp
      BY <3>3, <3>4
    <3> QED BY <1>6, <2>1, <2>2, <3>1, <3>5, <3>6 DEF OrderInv
  <2> QED BY <2>4, <2>5
<1> QED BY <1>3, <1>4, <1>5, <1>6

\* CancelTimerInLoop.
LEMMA CancelInLoop ==
    ASSUME TypeOK, PositionsMatch, NEW id \in TimerIds, CancelTimerInLoop(id),
           \A t \in Timers : t.exp \in 1 .. Never - 1
    PROVE  /\ heap_' \in Heap /\ PositionsMatch' /\ Timers' = {t \in Timers : t.id # id}
           /\ latestTime_' \in 1 .. Never /\ timerfd' \in 1 .. Never
           /\ OrderInv /\ (heap_.positions_[id] # 0 => FitsAt(heap_, heap_.positions_[id]))
                  => OrderInv'
<1> DEFINE p == heap_.positions_[id]
           l == heap_.timerList_
<1>1. heap_ \in Heap /\ Agree(heap_) /\ heap_' = Del(heap_, id)
  BY DEF TypeOK, PositionsMatch, CancelTimerInLoop
<1>2. p \in Nat /\ (p # 0 => p \in 1 .. Len(l) /\ l[p].id = id)
      /\ Len(l) \in Nat
  BY <1>1, AgreeIs, HeapFacts
<1>3. /\ heap_' \in Heap /\ Agree(heap_')
      /\ TimersOf(heap_') = {t \in TimersOf(heap_) : t.id # id}
      /\ OrderedHeap(heap_) /\ (p # 0 => FitsAt(heap_, p)) => OrderedHeap(heap_')
  <2>1. CASE p = 0
    <3>1. heap_' = heap_
      BY <1>1, <2>1 DEF Del
    <3>2. \A t \in TimersOf(heap_) : t.id # id
      BY <1>1, <2>1 DEF Agree
    <3> QED BY <1>1, <3>1, <3>2
  <2>2. CASE p # 0
    <3>1. heap_' = RemoveTimerAt(heap_, p)
      BY <1>1, <2>2 DEF Del
    <3>2. p \in 1 .. Len(l) /\ l[p].id = id
      BY <1>2, <2>2
    <3>3. /\ heap_' \in Heap /\ Agree(heap_') /\ TimersOf(heap_') = TimersOf(heap_) \ {l[p]}
          /\ OrderedHeap(heap_) /\ FitsAt(heap_, p) => OrderedHeap(heap_')
      BY <1>1, <3>1, <3>2, RemoveKeeps
    <3>4. \A t \in TimersOf(heap_) : t.id = id <=> t = l[p]
      <4>1. ASSUME NEW t \in TimersOf(heap_), t.id = id PROVE t = l[p]
        <5>1. PICK k \in 1 .. Len(l) : l[k] = t
          BY <1>1, TimersOfIs
        <5> QED BY <1>1, <3>2, <4>1, <5>1, AgreeUnique
      <4> QED BY <3>2, <4>1
    <3> QED BY <2>2, <3>3, <3>4
  <2> QED BY <2>1, <2>2
<1>4. PositionsMatch' /\ Timers' = {t \in Timers : t.id # id}
  BY <1>3 DEF PositionsMatch, Timers
<1>5. ~Empty(heap_') => Top(heap_') \in TimersOf(heap_')
  BY <1>3, HeapFacts, EmptySeq DEF Empty, Top, TimersOf
<1>6. latestTime_' \in 1 .. Never /\ timerfd' \in 1 .. Never
  <2>1. ~Empty(heap_') => Top(heap_').exp \in 1 .. Never
    BY <1>3, <1>5, NeverFacts DEF Timers
  <2>2. Never \in 1 .. Never
    BY NeverFacts
  <2> QED BY <2>1, <2>2 DEF CancelTimerInLoop, SetLatest, TypeOK
<1>7. ASSUME OrderInv, p # 0 => FitsAt(heap_, p) PROVE OrderInv'
  <2>1. OrderedHeap(heap_')
    BY <1>3, <1>7 DEF OrderInv
  <2>2. CASE p = 1
    BY <2>1, <2>2 DEF CancelTimerInLoop, SetLatest, DelChangesTop, OrderInv
  <2>3. CASE p # 1
    <3>1. UNCHANGED <<latestTime_, timerfd>>
      BY <2>3 DEF CancelTimerInLoop, DelChangesTop
    <3>2. CASE Empty(heap_)
      <4>1. TimersOf(heap_) = {}
        BY <3>2 DEF Empty, TimersOf
      <4>2. Empty(heap_')
        BY <1>3, <1>5, <4>1
      <4> QED BY <1>7, <2>1, <3>1, <3>2, <4>2 DEF OrderInv
    <3>3. CASE ~Empty(heap_)
      <4>1. Top(heap_) \in TimersOf(heap_) /\ \A u \in TimersOf(heap_) : Top(heap_).exp <= u.exp
        BY <1>1, <1>7, <3>3, TopIsEarliest DEF OrderInv
      <4>2. Top(heap_).id # id
        <5>1. 1 \in 1 .. Len(l)
          <6>1. l \in Seq(Timer) /\ l # <<>>
            BY <1>1, <3>3, HeapFacts DEF Empty
          <6>2. Len(l) # 0
            BY <6>1, EmptySeq
          <6> QED BY <1>2, <6>2
        <5>2. heap_.positions_[l[1].id] = 1
          BY <1>1, <5>1, AgreeIs
        <5> QED BY <2>3, <5>2 DEF Top
      <4>3. Top(heap_) \in TimersOf(heap_') /\ ~Empty(heap_')
        BY <1>3, <4>1, <4>2 DEF Empty, TimersOf
      <4>4. Top(heap_') \in TimersOf(heap_') /\ \A u \in TimersOf(heap_') : Top(heap_').exp <= u.exp
        BY <1>3, <2>1, <4>3, TopIsEarliest
      <4>5. Top(heap_).exp <= Top(heap_').exp /\ Top(heap_').exp <= Top(heap_).exp
        BY <1>3, <4>1, <4>3, <4>4
      <4>6. \A u \in TimersOf(heap_) : u.exp \in Nat
        BY <1>1, HeapFacts, TimersOfIs
      <4>7. Top(heap_').exp = Top(heap_).exp
        BY <1>3, <4>1, <4>4, <4>5, <4>6
      <4> QED BY <1>7, <2>1, <3>1, <3>3, <4>3, <4>7 DEF OrderInv
    <3> QED BY <3>2, <3>3
  <2> QED BY <2>2, <2>3
<1> QED BY <1>3, <1>4, <1>6, <1>7

\* GetExpiredTimers.
LEMMA GetExpired ==
    ASSUME TypeOK, PositionsMatch, GetExpiredTimers,
           \A t \in Timers : t.exp \in 1 .. Never - 1
    PROVE  /\ heap_' \in Heap /\ PositionsMatch' /\ expired' \in Seq(Timer)
           /\ \A t \in Timers' : /\ t.exp \in 1 .. Never - 1
                                 /\ \E u \in Timers : t.id = u.id
           /\ \A t \in Timers : t \in Timers' \/ \E i \in 1 .. Len(expired') : expired'[i] = t
           /\ latestTime_' \in 1 .. Never /\ timerfd' \in 1 .. Never
           /\ OrderInv => OrderInv' /\ \A t \in Timers' : t.exp > now
<1> DEFINE s == [heap |-> heap_, taken |-> <<>>, clock |-> now]
           r == TakeExpired[s]
<1>1. /\ heap_ \in Heap /\ Agree(heap_) /\ now \in 0 .. MaxNow /\ now \in Nat
      /\ MaxNow \in Nat /\ Intervals \subseteq Nat
  BY TimerAssumption DEF TypeOK, PositionsMatch
<1>2. s \in TakeStates /\ s.heap = heap_ /\ s.clock = now
  BY <1>1 DEF TakeStates
<1>3. /\ heap_' = r.heap /\ expired' = r.taken
      /\ latestTime_' = timerfd'
      /\ latestTime_' = IF Empty(heap_') THEN Never ELSE Top(heap_').exp
  BY DEF GetExpiredTimers, SetLatest
<1> HIDE DEF s
<1>4. Took(s, r) /\ r \in TakeDone
  BY <1>2, TakeExpiredKeeps
<1> HIDE DEF r
<1>5. /\ heap_' \in Heap /\ Agree(heap_') /\ expired' \in Seq(Timer) /\ r.clock = now
      /\ Empty(heap_') \/ Top(heap_').exp > now
  BY <1>2, <1>3, <1>4 DEF Took, TakeStates, TakeDone
<1>6. ASSUME NEW t \in Timers'
      PROVE  t.exp \in 1 .. Never - 1 /\ \E u \in Timers : t.id = u.id
  <2>1. PICK u \in Timers : /\ t.id = u.id
                            /\ t = u \/ (t.interval # 0 /\ t.exp = now + t.interval)
    BY <1>2, <1>3, <1>4, <1>6 DEF Took, Timers
  <2>2. t \in Timer
    BY <1>5, <1>6, HeapFacts, TimersOfIs DEF Timers
  <2>3. t.interval \in Intervals /\ t.interval \in Nat /\ t.interval + MaxNow < Never
    BY <1>1, <2>2, NeverFacts DEF Timer
  <2>4. t.exp \in 1 .. Never - 1
    <3>1. CASE t = u
      BY <2>1, <3>1
    <3>2. CASE t.interval # 0 /\ t.exp = now + t.interval
      BY <1>1, <2>3, <3>2, NeverFacts
    <3> QED BY <2>1, <3>1, <3>2
  <2> QED BY <2>1, <2>4
<1>7. \A t \in Timers : t \in Timers' \/ \E i \in 1 .. Len(expired') : expired'[i] = t
  BY <1>2, <1>3, <1>4 DEF Took, Timers
<1>8. latestTime_' \in 1 .. Never /\ timerfd' \in 1 .. Never
  <2>1. ~Empty(heap_') => Top(heap_') \in TimersOf(heap_')
    BY <1>5, HeapFacts, EmptySeq DEF Empty, Top, TimersOf
  <2>2. ~Empty(heap_') => Top(heap_').exp \in 1 .. Never - 1
    BY <1>6, <2>1 DEF Timers
  <2>3. Never \in 1 .. Never /\ \A x \in 1 .. Never - 1 : x \in 1 .. Never
    BY NeverFacts
  <2> QED BY <1>3, <2>2, <2>3
<1>9. ASSUME OrderInv PROVE OrderInv' /\ \A t \in Timers' : t.exp > now
  <2>1. OrderedHeap(heap_')
    BY <1>2, <1>3, <1>4, <1>9 DEF Took, OrderInv
  <2>2. OrderInv'
    BY <1>3, <2>1 DEF OrderInv
  <2>3. ASSUME NEW t \in Timers' PROVE t.exp > now
    <3>1. ~Empty(heap_')
      BY <2>3 DEF Timers, TimersOf, Empty
    <3>2. Top(heap_').exp <= t.exp /\ Top(heap_') \in Timers'
      BY <1>5, <2>1, <2>3, <3>1, TopIsEarliest DEF Timers
    <3>3. t.exp \in Nat /\ Top(heap_').exp \in Nat
      BY <1>6, <2>3, <3>2, NeverFacts
    <3> QED BY <1>1, <1>5, <3>1, <3>2, <3>3
  <2> QED BY <2>2, <2>3
<1>10. PositionsMatch'
  BY <1>5 DEF PositionsMatch
<1> QED BY <1>5, <1>6, <1>7, <1>8, <1>9, <1>10

-----------------------------------------------------------------------------
(* Every step keeps the invariant.                                         *)

LEMMA InitInv == Init => IInv /\ OrderInv
<1> SUFFICES ASSUME Init PROVE IInv /\ OrderInv
  OBVIOUS
<1> DEFINE h == EmptyHeap
<1>1. /\ h \in Heap /\ h.timerList_ = <<>> /\ Len(h.timerList_) = 0
      /\ \A id \in TimerIds : h.positions_[id] = 0
  BY DEF EmptyHeap, Heap
<1> HIDE DEF h
<1>2. TimersOf(h) = {} /\ Empty(h) /\ OrderedHeap(h)
  BY <1>1 DEF TimersOf, Empty, OrderedHeap
<1>3. Agree(h)
  BY <1>1, AgreeIs
<1>4. heap_ = h /\ Timers = {}
  BY <1>2 DEF Init, h, Timers
<1>5. TypeOK
  <2>1. Never \in 1 .. Never /\ 0 \in 0 .. MaxNow /\ 0 \in 0 .. MaxTimers
        /\ 0 \in 0 .. MaxCancels /\ 0 \in 0 .. MaxForeign
    BY TimerAssumption, NeverFacts
  <2>2. <<>> \in Seq(Timer) /\ 0 \in 0 .. Len(<<>>)
    BY EmptySeq
  <2> QED BY <1>1, <1>4, <2>1, <2>2 DEF Init, TypeOK
<1>6. PositionsMatch /\ CancelledStaysCancelled
  BY <1>3, <1>4 DEF PositionsMatch, CancelledStaysCancelled
<1>7. BornInv /\ AddedOnce
  BY <1>4 DEF Init, BornInv, AddedOnce
<1>8. OrderInv
  BY <1>2, <1>4 DEF Init, OrderInv
<1> QED BY <1>5, <1>6, <1>7, <1>8 DEF IInv

LEMMA NewTimerFacts ==
    ASSUME TypeOK, nextTimerId_ < MaxTimers, NEW w \in Whens, NEW i \in Intervals
    PROVE  LET t == NewTimer(w, i) IN
           /\ t \in Timer /\ t.id = nextTimerId_ /\ t.exp \in 1 .. Never - 1
           /\ nextTimerId_ \in Nat /\ nextTimerId_ + 1 \in 0 .. MaxTimers
<1>1. nextTimerId_ \in TimerIds /\ nextTimerId_ \in Nat /\ nextTimerId_ + 1 \in 0 .. MaxTimers
  BY TimerAssumption DEF TypeOK, TimerIds
<1>2. w \in Nat /\ w > 0 /\ w \in 1 .. Never - 1
  BY TimerAssumption, NeverFacts
<1> QED BY <1>1, <1>2 DEF NewTimer, Timer

\* What a pending operation is.
LEMMA OperationFacts ==
    ASSUME NEW o \in Operation
    PROVE  /\ o.op \in {"add", "cancel"}
           /\ o.op = "add" => o.timer \in Timer /\ o.timer.id \in TimerIds
           /\ o.op = "cancel" => o.id \in TimerIds
<1>1. CASE o \in [op : {"add"}, timer : Timer]
  BY <1>1 DEF Timer
<1>2. CASE o \in [op : {"cancel"}, id : TimerIds]
  BY <1>2
<1> QED BY <1>1, <1>2 DEF Operation

LEMMA AddTimerInv ==
    ASSUME IInv, NEW w \in Whens, NEW i \in Intervals, AddTimer(w, i)
    PROVE  IInv' /\ (OrderInv => OrderInv')
<1> DEFINE t == NewTimer(w, i)
<1> USE DEF IInv
<1>1. /\ nextTimerId_ < MaxTimers /\ nextTimerId_' = nextTimerId_ + 1 /\ AddTimerInLoop(t)
      /\ UNCHANGED <<now, loopVars, pending, cancels, foreign>>
  BY DEF AddTimer
<1>2. /\ t \in Timer /\ t.id = nextTimerId_ /\ t.exp \in 1 .. Never - 1
      /\ nextTimerId_ \in Nat /\ nextTimerId_ + 1 \in 0 .. MaxTimers
  BY <1>1, NewTimerFacts
<1> HIDE DEF t
<1>3. \A u \in Timers : u \in Timer /\ u.id \in Nat /\ u.id < nextTimerId_ /\ u.id # t.id
  <2>1. \A u \in Timers : u \in Timer
    BY HeapFacts, TimersOfIs DEF TypeOK, Timers
  <2> QED BY <1>2, <2>1 DEF BornInv, Timer, TimerIds
<1>4. /\ heap_' \in Heap /\ PositionsMatch' /\ Timers' = Timers \cup {t}
      /\ latestTime_' \in 1 .. Never /\ timerfd' \in 1 .. Never
      /\ cancelled' = cancelled /\ (OrderInv => OrderInv')
  BY <1>1, <1>2, <1>3, AddInLoop
<1>5. TypeOK'
  BY <1>1, <1>2, <1>4 DEF TypeOK, loopVars
<1>6. CancelledStaysCancelled'
  <2>1. t.id \notin cancelled
    BY <1>2 DEF BornInv
  <2> QED BY <1>4, <2>1 DEF CancelledStaysCancelled
<1>7. /\ \A k \in DOMAIN pending : pending[k].op = "add" => pending[k].timer.id \in Nat
      /\ \A k \in DOMAIN pending : pending[k].op = "cancel" => pending[k].id \in Nat
      /\ \A id \in cancelled : id \in Nat
  <2>1. \A k \in DOMAIN pending : pending[k] \in Operation
    BY DEF BornInv
  <2> QED BY <2>1, OperationFacts DEF TypeOK, TimerIds
<1>8. BornInv'
  <2>1. \A u \in Timers' : u.id < nextTimerId_' /\ u.exp \in 1 .. Never - 1
    BY <1>1, <1>2, <1>3, <1>4 DEF BornInv
  <2>2. \A k \in DOMAIN pending : pending[k].op = "add"
            => pending[k].timer.id < nextTimerId_ + 1
    BY <1>2, <1>7 DEF BornInv
  <2>3. \A k \in DOMAIN pending : pending[k].op = "cancel" => pending[k].id < nextTimerId_ + 1
    BY <1>2, <1>7 DEF BornInv
  <2>4. \A id \in cancelled : id < nextTimerId_ + 1
    BY <1>2, <1>7 DEF BornInv
  <2> QED BY <1>1, <1>4, <2>1, <2>2, <2>3, <2>4 DEF BornInv
<1>9. AddedOnce'
  <2>1. \A k \in DOMAIN pending : pending[k].op = "add" => pending[k].timer.id # t.id
    BY <1>2, <1>7 DEF BornInv
  <2> QED BY <1>1, <1>4, <2>1 DEF AddedOnce
<1> QED BY <1>4, <1>5, <1>6, <1>8, <1>9

LEMMA PendingFacts ==
    ASSUME IInv
    PROVE  /\ Len(pending) \in Nat /\ DOMAIN pending = 1 .. Len(pending)
           /\ \A k \in 1 .. Len(pending) : pending[k] \in Operation
           /\ \A k \in 1 .. Len(pending) : pending[k].op = "add" => pending[k].timer.id \in Nat
           /\ \A k \in 1 .. Len(pending) : pending[k].op = "cancel" => pending[k].id \in Nat
           /\ \A id \in cancelled : id \in Nat
<1>1. pending \in Seq(Operation) /\ \A id \in cancelled : id \in Nat
  BY DEF IInv, BornInv, TypeOK, TimerIds
<1>2. /\ Len(pending) \in Nat /\ DOMAIN pending = 1 .. Len(pending)
      /\ \A k \in 1 .. Len(pending) : pending[k] \in Operation
  BY <1>1
<1> QED BY <1>1, <1>2, OperationFacts DEF TimerIds

\* What CancelTimerInLoop leaves, whether called or run as a pending callback.
LEMMA CancelParts ==
    ASSUME IInv, NEW id \in TimerIds, id < nextTimerId_, CancelTimerInLoop(id)
    PROVE  /\ heap_' \in Heap /\ PositionsMatch' /\ CancelledStaysCancelled'
           /\ latestTime_' \in 1 .. Never /\ timerfd' \in 1 .. Never
           /\ \A t \in Timers' : t \in Timers
           /\ cancelled' \subseteq TimerIds /\ \A x \in cancelled' : x < nextTimerId_
           /\ \A k \in 1 .. Len(pending) :
                 pending[k].op = "add" => pending[k].timer.id \notin cancelled'
           /\ OrderInv /\ (heap_.positions_[id] # 0 => FitsAt(heap_, heap_.positions_[id]))
                  => OrderInv'
<1>1. TypeOK /\ PositionsMatch /\ \A t \in Timers : t.exp \in 1 .. Never - 1
  BY DEF IInv, BornInv
<1>2. /\ heap_' \in Heap /\ PositionsMatch' /\ Timers' = {t \in Timers : t.id # id}
      /\ latestTime_' \in 1 .. Never /\ timerfd' \in 1 .. Never
      /\ OrderInv /\ (heap_.positions_[id] # 0 => FitsAt(heap_, heap_.positions_[id]))
            => OrderInv'
  BY <1>1, CancelInLoop
<1>3. \/ cancelled' = cancelled
      \/ /\ cancelled' = cancelled \cup {id}
         /\ \A k \in DOMAIN pending : ~(pending[k].op = "add" /\ pending[k].timer.id = id)
  <2> DEFINE queued == \E k \in DOMAIN pending :
                          pending[k].op = "add" /\ pending[k].timer.id = id
  <2>1. cancelled' = IF queued THEN cancelled ELSE cancelled \cup {id}
    BY DEF CancelTimerInLoop
  <2> QED BY <2>1
<1>4. /\ cancelled \subseteq TimerIds /\ \A x \in cancelled : x < nextTimerId_
      /\ \A k \in 1 .. Len(pending) :
            pending[k].op = "add" => pending[k].timer.id \notin cancelled
      /\ DOMAIN pending = 1 .. Len(pending)
      /\ \A t \in Timers : t.id \notin cancelled
  BY PendingFacts DEF IInv, TypeOK, BornInv, AddedOnce, CancelledStaysCancelled
<1>5. CASE cancelled' = cancelled
  BY <1>2, <1>4, <1>5 DEF CancelledStaysCancelled
<1>6. CASE /\ cancelled' = cancelled \cup {id}
           /\ \A k \in DOMAIN pending : ~(pending[k].op = "add" /\ pending[k].timer.id = id)
  BY <1>2, <1>4, <1>6 DEF CancelledStaysCancelled
<1> QED BY <1>3, <1>5, <1>6

LEMMA CancelTimerInv ==
    ASSUME IInv, NEW id \in TimerIds, CancelTimer(id)
    PROVE  /\ IInv' /\ MaxCancels # 0
           /\ OrderInv /\ (heap_.positions_[id] # 0 => FitsAt(heap_, heap_.positions_[id]))
                  => OrderInv'
<1>1. /\ cancels < MaxCancels /\ id < nextTimerId_ /\ cancels' = cancels + 1
      /\ CancelTimerInLoop(id)
      /\ UNCHANGED <<now, nextTimerId_, loopVars, pending, foreign>>
  BY DEF CancelTimer
<1>2. /\ heap_' \in Heap /\ PositionsMatch' /\ CancelledStaysCancelled'
      /\ latestTime_' \in 1 .. Never /\ timerfd' \in 1 .. Never
      /\ \A t \in Timers' : t \in Timers
      /\ cancelled' \subseteq TimerIds /\ \A x \in cancelled' : x < nextTimerId_
      /\ \A k \in 1 .. Len(pending) :
            pending[k].op = "add" => pending[k].timer.id \notin cancelled'
      /\ OrderInv /\ (heap_.positions_[id] # 0 => FitsAt(heap_, heap_.positions_[id]))
            => OrderInv'
  BY <1>1, CancelParts
<1>3. cancels' \in 0 .. MaxCancels /\ MaxCancels # 0
  BY <1>1, TimerAssumption DEF IInv, TypeOK
<1>4. TypeOK'
  BY <1>1, <1>2, <1>3 DEF IInv, TypeOK, loopVars
<1>5. BornInv'
  BY <1>1, <1>2 DEF IInv, BornInv
<1>6. AddedOnce'
  BY <1>1, <1>2, PendingFacts DEF IInv, AddedOnce
<1> QED BY <1>2, <1>3, <1>4, <1>5, <1>6 DEF IInv

LEMMA ForeignAddTimerInv ==
    ASSUME IInv, NEW w \in Whens, NEW i \in Intervals, ForeignAddTimer(w, i)
    PROVE  IInv' /\ (OrderInv => OrderInv')
<1> DEFINE t == NewTimer(w, i)
           o == [op |-> "add", timer |-> t]
           n == Len(pending)
<1>1. /\ nextTimerId_ < MaxTimers /\ nextTimerId_' = nextTimerId_ + 1
      /\ foreign < MaxForeign /\ foreign' = foreign + 1
      /\ pending' = Append(pending, o)
      /\ UNCHANGED <<now, timerVars, loopVars, cancels, cancelled>>
  BY DEF ForeignAddTimer
<1>2. /\ t \in Timer /\ t.id = nextTimerId_ /\ t.exp \in 1 .. Never - 1
      /\ nextTimerId_ \in Nat /\ nextTimerId_ + 1 \in 0 .. MaxTimers
  BY <1>1, NewTimerFacts DEF IInv
<1> HIDE DEF t
<1>3. o \in Operation /\ o.op = "add" /\ o.timer = t
  BY <1>2 DEF Operation
<1> HIDE DEF o
<1>4. /\ pending' \in Seq(Operation) /\ DOMAIN pending' = 1 .. n + 1 /\ Len(pending') = n + 1
      /\ n \in Nat /\ pending'[n + 1] = o
      /\ \A k \in 1 .. n : pending'[k] = pending[k]
  <2>1. pending \in Seq(Operation)
    BY DEF IInv, BornInv
  <2>2. /\ pending' \in Seq(Operation) /\ Len(pending') = n + 1
        /\ pending'[n + 1] = o /\ \A k \in 1 .. n : pending'[k] = pending[k]
    BY <1>1, <1>3, <2>1, AppendProperties
  <2> QED BY <2>1, <2>2
<1>5. TypeOK'
  <2>1. foreign' \in 0 .. MaxForeign /\ nextTimerId_' \in 0 .. MaxTimers
    BY <1>1, <1>2, TimerAssumption DEF IInv, TypeOK
  <2>2. todo' \in 0 .. Len(pending')
    BY <1>1, <1>4 DEF IInv, TypeOK, loopVars
  <2> QED BY <1>1, <2>1, <2>2 DEF IInv, TypeOK, timerVars, loopVars
<1>6. heap_' = heap_ /\ cancelled' = cancelled /\ Timers' = Timers
  BY <1>1 DEF timerVars, Timers
<1>7. PositionsMatch' /\ CancelledStaysCancelled' /\ (OrderInv => OrderInv')
  BY <1>1, <1>6 DEF IInv, PositionsMatch, CancelledStaysCancelled, OrderInv, timerVars
<1>8. \A u \in Timers : u.id \in Nat /\ u.id < nextTimerId_
  <2>1. \A u \in Timers : u \in Timer
    BY HeapFacts, TimersOfIs DEF IInv, TypeOK, Timers
  <2> QED BY <2>1 DEF IInv, BornInv, Timer, TimerIds
<1>9. \A k \in 1 .. n : pending[k].op = "add"
          => pending[k].timer.id < nextTimerId_ /\ pending[k].timer.id \in Nat
  BY PendingFacts DEF IInv, BornInv
<1>10. BornInv'
  <2>1. \A u \in Timers' : u.id < nextTimerId_' /\ u.exp \in 1 .. Never - 1
    BY <1>1, <1>2, <1>6, <1>8 DEF IInv, BornInv
  <2>2. ASSUME NEW k \in 1 .. n + 1, pending'[k].op = "add"
        PROVE  /\ pending'[k].timer.id < nextTimerId_'
               /\ pending'[k].timer.exp \in 1 .. Never - 1
    <3>1. CASE k = n + 1
      BY <1>1, <1>2, <1>3, <1>4, <3>1
    <3>2. CASE k \in 1 .. n
      <4>1. pending[k].timer.id < nextTimerId_ + 1
        BY <1>2, <1>4, <1>9, <2>2, <3>2
      <4>2. pending[k].timer.exp \in 1 .. Never - 1
        BY <1>4, <2>2, <3>2, PendingFacts DEF IInv, BornInv
      <4> QED BY <1>1, <1>4, <3>2, <4>1, <4>2
    <3> QED BY <1>4, <3>1, <3>2
  <2>3. ASSUME NEW k \in 1 .. n + 1, pending'[k].op = "cancel"
        PROVE  pending'[k].id < nextTimerId_' /\ MaxCancels # 0
    <3>1. k \in 1 .. n
      BY <1>3, <1>4, <2>3
    <3>2. pending[k].op = "cancel" /\ pending'[k] = pending[k]
      BY <1>4, <2>3, <3>1
    <3>3. pending[k].id < nextTimerId_ /\ pending[k].id \in Nat /\ MaxCancels # 0
      BY <3>1, <3>2, PendingFacts DEF IInv, BornInv
    <3> QED BY <1>1, <1>2, <3>2, <3>3
  <2>4. \A x \in cancelled' : x < nextTimerId_'
    BY <1>1, <1>2, <1>6, PendingFacts DEF IInv, BornInv
  <2> QED BY <1>4, <2>1, <2>2, <2>3, <2>4 DEF BornInv
<1>11. AddedOnce'
  <2>1. ASSUME NEW k \in 1 .. n + 1, pending'[k].op = "add"
        PROVE  /\ pending'[k].timer.id \notin cancelled
               /\ \A u \in Timers : u.id # pending'[k].timer.id
    <3>1. CASE k = n + 1
      <4>1. t.id \notin cancelled
        BY <1>2, PendingFacts DEF IInv, BornInv
      <4> QED BY <1>2, <1>3, <1>4, <1>8, <3>1, <4>1
    <3>2. CASE k \in 1 .. n
      BY <1>4, <2>1, <3>2, PendingFacts DEF IInv, AddedOnce
    <3> QED BY <1>4, <3>1, <3>2
  <2>2. ASSUME NEW k \in 1 .. n + 1, NEW j \in 1 .. n + 1,
               pending'[k].op = "add", pending'[j].op = "add"
        PROVE  pending'[j].timer.id = pending'[k].timer.id <=> j = k
    <3>1. CASE k \in 1 .. n /\ j \in 1 .. n
      BY <1>4, <2>2, <3>1, PendingFacts DEF IInv, AddedOnce
    <3>2. CASE k = n + 1 /\ j \in 1 .. n
      BY <1>2, <1>3, <1>4, <1>9, <2>2, <3>2
    <3>3. CASE k \in 1 .. n /\ j = n + 1
      BY <1>2, <1>3, <1>4, <1>9, <2>2, <3>3
    <3>4. CASE k = n + 1 /\ j = n + 1
      BY <3>4
    <3> QED BY <1>4, <3>1, <3>2, <3>3, <3>4
  <2> QED BY <1>4, <1>6, <2>1, <2>2 DEF AddedOnce
<1> QED BY <1>5, <1>7, <1>10, <1>11 DEF IInv

LEMMA ForeignCancelTimerInv ==
    ASSUME IInv, NEW id \in TimerIds, ForeignCancelTimer(id)
    PROVE  IInv' /\ (OrderInv => OrderInv')
<1> DEFINE o == [op |-> "cancel", id |-> id]
           n == Len(pending)
<1>1. /\ foreign < MaxForeign /\ foreign' = foreign + 1
      /\ cancels < MaxCancels /\ id < nextTimerId_ /\ cancels' = cancels + 1
      /\ pending' = Append(pending, o)
      /\ UNCHANGED <<now, timerVars, nextTimerId_, loopVars, cancelled>>
  BY DEF ForeignCancelTimer
<1>2. o \in Operation /\ o.op = "cancel" /\ o.id = id
  BY DEF Operation
<1> HIDE DEF o
<1>3. /\ pending' \in Seq(Operation) /\ DOMAIN pending' = 1 .. n + 1 /\ Len(pending') = n + 1
      /\ n \in Nat /\ pending'[n + 1] = o
      /\ \A k \in 1 .. n : pending'[k] = pending[k]
  <2>1. pending \in Seq(Operation)
    BY DEF IInv, BornInv
  <2>2. /\ pending' \in Seq(Operation) /\ Len(pending') = n + 1
        /\ pending'[n + 1] = o /\ \A k \in 1 .. n : pending'[k] = pending[k]
    BY <1>1, <1>2, <2>1, AppendProperties
  <2> QED BY <2>1, <2>2
<1>4. TypeOK'
  <2>1. foreign' \in 0 .. MaxForeign /\ cancels' \in 0 .. MaxCancels
    BY <1>1, TimerAssumption DEF IInv, TypeOK
  <2>2. todo' \in 0 .. Len(pending')
    BY <1>1, <1>3 DEF IInv, TypeOK, loopVars
  <2> QED BY <1>1, <2>1, <2>2 DEF IInv, TypeOK, timerVars, loopVars
<1>5. heap_' = heap_ /\ cancelled' = cancelled /\ Timers' = Timers
  BY <1>1 DEF timerVars, Timers
<1>6. PositionsMatch' /\ CancelledStaysCancelled' /\ (OrderInv => OrderInv')
  BY <1>1, <1>5 DEF IInv, PositionsMatch, CancelledStaysCancelled, OrderInv, timerVars
<1>7. \A k \in 1 .. n + 1 : k \in 1 .. n \/ k = n + 1
  BY <1>3
<1>8. \A k \in 1 .. n + 1 : pending'[k].op = "add" => k \in 1 .. n /\ pending'[k] = pending[k]
  BY <1>2, <1>3, <1>7
<1>9. BornInv'
  <2>1. MaxCancels # 0
    BY <1>1, TimerAssumption DEF IInv, TypeOK
  <2>2. ASSUME NEW k \in 1 .. n + 1, pending'[k].op = "add"
        PROVE  /\ pending'[k].timer.id < nextTimerId_'
               /\ pending'[k].timer.exp \in 1 .. Never - 1
    BY <1>1, <1>8, <2>2, PendingFacts DEF IInv, BornInv
  <2>3. ASSUME NEW k \in 1 .. n + 1, pending'[k].op = "cancel"
        PROVE  pending'[k].id < nextTimerId_'
    <3>1. CASE k = n + 1
      BY <1>1, <1>2, <1>3, <3>1
    <3>2. CASE k \in 1 .. n
      BY <1>1, <1>3, <2>3, <3>2, PendingFacts DEF IInv, BornInv
    <3> QED BY <1>7, <3>1, <3>2
  <2> QED BY <1>1, <1>3, <1>5, <2>1, <2>2, <2>3 DEF IInv, BornInv
<1>10. AddedOnce'
  <2>1. \A k \in 1 .. n : pending[k].op = "add" =>
          /\ pending[k].timer.id \notin cancelled
          /\ \A t \in Timers : t.id # pending[k].timer.id
          /\ \A j \in 1 .. n : pending[j].op = "add"
                => (pending[j].timer.id = pending[k].timer.id <=> j = k)
    BY PendingFacts DEF IInv, AddedOnce
  <2> QED BY <1>3, <1>5, <1>8, <2>1 DEF AddedOnce
<1> QED BY <1>4, <1>6, <1>9, <1>10 DEF IInv

LEMMA HandleExpiredTimersInv ==
    ASSUME IInv, HandleExpiredTimers
    PROVE  /\ IInv'
           /\ \A t \in Timers : t \in Timers' \/ \E i \in 1 .. Len(expired') : expired'[i] = t
           /\ OrderInv => OrderInv' /\ \A t \in Timers' : t.exp > now
<1>1. /\ phase' = "run" /\ timerfdActive' = FALSE /\ GetExpiredTimers
      /\ UNCHANGED <<now, nextTimerId_, cur, todo, pending, cancels, foreign, cancelled>>
  BY DEF HandleExpiredTimers
<1>2. TypeOK /\ PositionsMatch /\ \A t \in Timers : t.exp \in 1 .. Never - 1
  BY DEF IInv, BornInv
<1>3. /\ heap_' \in Heap /\ PositionsMatch' /\ expired' \in Seq(Timer)
      /\ \A t \in Timers' : t.exp \in 1 .. Never - 1 /\ \E u \in Timers : t.id = u.id
      /\ \A t \in Timers : t \in Timers' \/ \E i \in 1 .. Len(expired') : expired'[i] = t
      /\ latestTime_' \in 1 .. Never /\ timerfd' \in 1 .. Never
      /\ OrderInv => OrderInv' /\ \A t \in Timers' : t.exp > now
  BY <1>1, <1>2, GetExpired
<1>4. TypeOK'
  BY <1>1, <1>2, <1>3 DEF TypeOK
<1>5. CancelledStaysCancelled'
  BY <1>1, <1>3 DEF IInv, CancelledStaysCancelled
<1>6. BornInv'
  <2>1. \A t \in Timers' : t.id < nextTimerId_ /\ t.exp \in 1 .. Never - 1
    BY <1>3 DEF IInv, BornInv
  <2> QED BY <1>1, <2>1 DEF IInv, BornInv
<1>7. AddedOnce'
  <2>1. ASSUME NEW k \in DOMAIN pending, pending[k].op = "add", NEW t \in Timers'
        PROVE  t.id # pending[k].timer.id
    BY <1>3, <2>1 DEF IInv, AddedOnce
  <2> QED BY <1>1, <2>1 DEF IInv, AddedOnce
<1> QED BY <1>3, <1>4, <1>5, <1>6, <1>7 DEF IInv

\* What is left of the pending operations when the first of them runs.
LEMMA RunPendingRest ==
    ASSUME IInv, RunPending
    PROVE  /\ Len(pending) \in Nat /\ Len(pending) > 0 /\ Head(pending) = pending[1]
           /\ pending' \in Seq(Operation) /\ Len(pending') = Len(pending) - 1
           /\ DOMAIN pending' = 1 .. Len(pending) - 1
           /\ \A k \in 1 .. Len(pending) - 1 :
                 k + 1 \in 1 .. Len(pending) /\ pending'[k] = pending[k + 1]
           /\ todo' \in 0 .. Len(pending')
<1>1. todo > 0 /\ todo' = todo - 1 /\ pending' = Tail(pending)
  BY DEF RunPending
<1>2. pending \in Seq(Operation) /\ todo \in 0 .. Len(pending)
  BY DEF IInv, BornInv, TypeOK
<1>3. Len(pending) \in Nat /\ Len(pending) > 0 /\ todo - 1 \in 0 .. Len(pending) - 1
  BY <1>1, <1>2
<1>4. pending # <<>> /\ Head(pending) = pending[1]
  BY <1>2, <1>3
<1>5. /\ pending' \in Seq(Operation) /\ Len(pending') = Len(pending) - 1
      /\ \A k \in 1 .. Len(pending) - 1 : pending'[k] = pending[k + 1]
  BY <1>1, <1>2, <1>4, HeadTailProperties
<1>6. DOMAIN pending' = 1 .. Len(pending) - 1
  BY <1>5
<1>7. \A k \in 1 .. Len(pending) - 1 : k + 1 \in 1 .. Len(pending)
  BY <1>3
<1> QED BY <1>1, <1>3, <1>4, <1>5, <1>6, <1>7

LEMMA RunPendingInv ==
    ASSUME IInv, RunPending
    PROVE  /\ IInv'
           /\ OrderInv /\ (MaxCancels # 0 => CancelFits) => OrderInv'
<1> DEFINE o == pending[1]
           n == Len(pending)
<1>1. UNCHANGED <<now, nextTimerId_, phase, timerfdActive, expired, cur, cancels, foreign>>
  BY DEF RunPending
<1>2. /\ n \in Nat /\ n > 0 /\ Head(pending) = o
      /\ pending' \in Seq(Operation) /\ Len(pending') = n - 1 /\ DOMAIN pending' = 1 .. n - 1
      /\ \A k \in 1 .. n - 1 : k + 1 \in 1 .. n /\ pending'[k] = pending[k + 1]
      /\ todo' \in 0 .. Len(pending')
  BY RunPendingRest
<1>3. 1 \in 1 .. n /\ o \in Operation
  BY <1>2, PendingFacts
<1>4. \A k \in 1 .. n : /\ pending[k].op = "add"
                            => /\ pending[k].timer.id < nextTimerId_
                               /\ pending[k].timer.exp \in 1 .. Never - 1
                        /\ pending[k].op = "cancel"
                            => pending[k].id < nextTimerId_ /\ MaxCancels # 0
  BY PendingFacts DEF IInv, BornInv
<1>5. \A k \in 1 .. n : pending[k].op = "add" =>
          /\ pending[k].timer.id \notin cancelled
          /\ \A t \in Timers : t.id # pending[k].timer.id
          /\ \A j \in 1 .. n : pending[j].op = "add"
                => (pending[j].timer.id = pending[k].timer.id <=> j = k)
  BY PendingFacts DEF IInv, AddedOnce
\* All that depends on the operation that runs.
<1>6. /\ heap_' \in Heap /\ PositionsMatch' /\ CancelledStaysCancelled'
      /\ latestTime_' \in 1 .. Never /\ timerfd' \in 1 .. Never
      /\ cancelled' \subseteq TimerIds /\ \A x \in cancelled' : x < nextTimerId_
      /\ \A t \in Timers' : t.id < nextTimerId_ /\ t.exp \in 1 .. Never - 1
      /\ \A k \in 2 .. n : pending[k].op = "add" =>
            /\ pending[k].timer.id \notin cancelled'
            /\ \A t \in Timers' : t.id # pending[k].timer.id
      /\ OrderInv /\ (MaxCancels # 0 => CancelFits) => OrderInv'
  <2>1. CASE o.op = "add"
    <3> DEFINE t == o.timer
    <3>1. AddTimerInLoop(t)
      BY <1>2, <2>1 DEF RunPending
    <3>2. /\ t \in Timer /\ t.id < nextTimerId_ /\ t.exp \in 1 .. Never - 1
          /\ t.id \notin cancelled /\ \A u \in Timers : u.id # t.id
      BY <1>3, <1>4, <1>5, <2>1, OperationFacts
    <3>3. /\ heap_' \in Heap /\ PositionsMatch' /\ Timers' = Timers \cup {t}
          /\ latestTime_' \in 1 .. Never /\ timerfd' \in 1 .. Never
          /\ cancelled' = cancelled /\ (OrderInv => OrderInv')
      BY <3>1, <3>2, AddInLoop DEF IInv
    <3>4. CancelledStaysCancelled'
      BY <3>2, <3>3 DEF IInv, CancelledStaysCancelled
    <3>5. \A u \in Timers' : u.id < nextTimerId_ /\ u.exp \in 1 .. Never - 1
      BY <3>2, <3>3 DEF IInv, BornInv
    <3>6. \A k \in 2 .. n : pending[k].op = "add" =>
            /\ pending[k].timer.id \notin cancelled'
            /\ \A u \in Timers' : u.id # pending[k].timer.id
      <4>1. ASSUME NEW k \in 2 .. n, pending[k].op = "add"
            PROVE  t.id # pending[k].timer.id /\ k \in 1 .. n
        <5>1. k \in 1 .. n /\ k # 1
          BY <1>2
        <5> QED BY <1>3, <1>5, <2>1, <4>1, <5>1
      <4> QED BY <1>5, <3>3, <4>1
    <3>7. cancelled' \subseteq TimerIds /\ \A x \in cancelled' : x < nextTimerId_
      BY <3>3 DEF IInv, BornInv, TypeOK
    <3> QED BY <3>3, <3>4, <3>5, <3>6, <3>7
  <2>2. CASE o.op = "cancel"
    <3> DEFINE id == o.id
    <3>1. CancelTimerInLoop(id)
      BY <1>2, <2>2 DEF RunPending
    <3>2. id \in TimerIds /\ id < nextTimerId_ /\ MaxCancels # 0
      BY <1>3, <1>4, <2>2, OperationFacts
    <3> HIDE DEF id
    <3>3. /\ heap_' \in Heap /\ PositionsMatch' /\ CancelledStaysCancelled'
          /\ latestTime_' \in 1 .. Never /\ timerfd' \in 1 .. Never
          /\ \A t \in Timers' : t \in Timers
          /\ cancelled' \subseteq TimerIds /\ \A x \in cancelled' : x < nextTimerId_
          /\ \A k \in 1 .. n :
                pending[k].op = "add" => pending[k].timer.id \notin cancelled'
          /\ OrderInv /\ (heap_.positions_[id] # 0 => FitsAt(heap_, heap_.positions_[id]))
                => OrderInv'
      BY <3>1, <3>2, CancelParts
    <3>4. \A k \in 2 .. n : k \in 1 .. n
      BY <1>2
    <3>5. \A t \in Timers' : t.id < nextTimerId_ /\ t.exp \in 1 .. Never - 1
      BY <3>3 DEF IInv, BornInv
    <3>6. OrderInv /\ (MaxCancels # 0 => CancelFits) => OrderInv'
      BY <3>1, <3>2, <3>3 DEF CancelFits
    <3> QED BY <1>5, <3>3, <3>4, <3>5, <3>6
  <2> QED BY <1>3, <2>1, <2>2, OperationFacts
<1>7. \A k \in 1 .. n - 1 : k + 1 \in 2 .. n
  BY <1>2
<1>8. TypeOK'
  BY <1>1, <1>2, <1>6 DEF IInv, TypeOK
<1>9. BornInv'
  BY <1>1, <1>2, <1>4, <1>6 DEF BornInv
<1>10. AddedOnce'
  <2>1. ASSUME NEW k \in 1 .. n - 1, NEW j \in 1 .. n - 1,
               pending'[k].op = "add", pending'[j].op = "add"
        PROVE  pending'[j].timer.id = pending'[k].timer.id <=> j = k
    <3>1. j + 1 = k + 1 <=> j = k
      BY <1>2
    <3> QED BY <1>2, <1>5, <2>1, <3>1
  <2>2. ASSUME NEW k \in 1 .. n - 1, pending'[k].op = "add"
        PROVE  /\ pending'[k].timer.id \notin cancelled'
               /\ \A t \in Timers' : t.id # pending'[k].timer.id
    BY <1>2, <1>6, <1>7, <2>2
  <2> QED BY <1>2, <2>1, <2>2 DEF AddedOnce
<1> QED BY <1>6, <1>8, <1>9, <1>10 DEF IInv

\* The steps of the loop that touch neither the heap nor the timerfd.
LEMMA QuietInv ==
    ASSUME IInv,
           Poll \/ RunTimer \/ RunTimersDone \/ ActiveDone \/ PendingDone \/ Tick
    PROVE  IInv' /\ (OrderInv => OrderInv')
<1>1. UNCHANGED <<heap_, latestTime_, timerfd, nextTimerId_, pending, cancelled>>
  BY DEF Poll, RunTimer, RunTimersDone, ActiveDone, PendingDone, Tick, timerVars
<1>2. Timers' = Timers
  BY <1>1 DEF Timers
<1>3. /\ PositionsMatch' /\ CancelledStaysCancelled' /\ BornInv' /\ AddedOnce'
      /\ OrderInv => OrderInv'
  BY <1>1, <1>2 DEF IInv, PositionsMatch, CancelledStaysCancelled, BornInv, AddedOnce, OrderInv
<1>4. TypeOK'
  <2> USE DEF IInv, TypeOK
  <2>1. CASE Poll
    BY <1>1, <2>1 DEF Poll, TimerfdReadable
  <2>2. CASE RunTimer
    <3>1. expired \in Seq(Timer) /\ expired # <<>>
      BY <2>2 DEF RunTimer
    <3>2. Head(expired) \in Timer /\ Tail(expired) \in Seq(Timer)
      BY <3>1, HeadTailProperties
    <3>3. cur' \in TimerIds /\ expired' \in Seq(Timer)
      BY <2>2, <3>2 DEF RunTimer, Timer
    <3> QED BY <1>1, <2>2, <3>3 DEF RunTimer
  <2>3. CASE RunTimersDone
    BY <1>1, <2>3 DEF RunTimersDone
  <2>4. CASE ActiveDone
    <3>1. todo' \in 0 .. Len(pending)
      BY <2>4, PendingFacts DEF ActiveDone
    <3> QED BY <1>1, <2>4, <3>1 DEF ActiveDone
  <2>5. CASE PendingDone
    BY <1>1, <2>5 DEF PendingDone
  <2>6. CASE Tick
    BY <1>1, <2>6, TimerAssumption DEF Tick, loopVars
  <2> QED BY <2>1, <2>2, <2>3, <2>4, <2>5, <2>6
<1> QED BY <1>3, <1>4 DEF IInv

LEMMA NextInv ==
    ASSUME IInv, [Next]_vars
    PROVE  IInv' /\ (OrderInv /\ (MaxCancels # 0 => [CancelFits]_vars) => OrderInv')
<1>1. ASSUME NEW w \in Whens, NEW i \in Intervals, AddTimer(w, i) \/ ForeignAddTimer(w, i)
      PROVE  IInv' /\ (OrderInv => OrderInv')
  BY <1>1, AddTimerInv, ForeignAddTimerInv
<1>2. ASSUME NEW id \in TimerIds, CancelTimer(id)
      PROVE  IInv' /\ (OrderInv /\ (MaxCancels # 0 => [CancelFits]_vars) => OrderInv')
  <2>1. /\ IInv' /\ MaxCancels # 0
        /\ OrderInv /\ (heap_.positions_[id] # 0 => FitsAt(heap_, heap_.positions_[id]))
              => OrderInv'
    BY <1>2, CancelTimerInv
  <2>2. CancelTimerInLoop(id) /\ ~UNCHANGED vars
    <3>1. cancels' = cancels + 1 /\ cancels \in Nat /\ CancelTimerInLoop(id)
      BY <1>2, TimerAssumption DEF CancelTimer, IInv, TypeOK
    <3> QED BY <3>1 DEF vars
  <2> QED BY <2>1, <2>2 DEF CancelFits
<1>3. ASSUME NEW id \in TimerIds, ForeignCancelTimer(id)
      PROVE  IInv' /\ (OrderInv => OrderInv')
  BY <1>3, ForeignCancelTimerInv
<1>4. ASSUME RunPending
      PROVE  IInv' /\ (OrderInv /\ (MaxCancels # 0 => [CancelFits]_vars) => OrderInv')
  <2>1. IInv' /\ (OrderInv /\ (MaxCancels # 0 => CancelFits) => OrderInv')
    BY <1>4, RunPendingInv
  <2>2. ~UNCHANGED vars
    <3>1. todo' = todo - 1 /\ todo \in Nat
      BY <1>4, PendingFacts DEF RunPending, IInv, TypeOK
    <3> QED BY <3>1 DEF vars, loopVars
  <2> QED BY <2>1, <2>2
<1>5. ASSUME HandleExpiredTimers PROVE IInv' /\ (OrderInv => OrderInv')
  BY <1>5, HandleExpiredTimersInv
<1>6. ASSUME Poll \/ RunTimer \/ RunTimersDone \/ ActiveDone \/ PendingDone \/ Tick
      PROVE  IInv' /\ (OrderInv => OrderInv')
  BY <1>6, QuietInv
<1>7. ASSUME UNCHANGED vars PROVE IInv' /\ (OrderInv => OrderInv')
  <2>1. Timers' = Timers
    BY <1>7 DEF Timers, vars, timerVars
  <2> QED BY <1>7, <2>1
          DEF IInv, TypeOK, PositionsMatch, CancelledStaysCancelled, BornInv, AddedOnce,
              OrderInv, vars, timerVars, loopVars
<1> QED BY <1>1, <1>2, <1>3, <1>4, <1>5, <1>6, <1>7 DEF Next, Calls, LoopBody

\* In an ordered heap of at most five timers every place fits.
LEMMA SmallHeapFits ==
    ASSUME NEW h \in Heap, OrderedHeap(h), Len(h.timerList_) <= 5,
           NEW idx \in 1 .. Len(h.timerList_)
    PROVE  FitsAt(h, idx)
<1> DEFINE n == Len(h.timerList_)
<1>1. n \in Nat
  BY HeapFacts
<1>2. CASE idx \div 2 = 1
  <2>1. ~Empty(h)
    BY <1>1 DEF Empty
  <2>2. h.timerList_[n] \in TimersOf(h)
    BY <1>1, TimersOfIs
  <2>3. Top(h).exp <= h.timerList_[n].exp
    BY <2>1, <2>2, TopIsEarliest
  <2> QED BY <1>2, <2>3 DEF FitsAt, Expiration, Top
<1>3. CASE idx = 4 /\ n = 5
  <2>1. 5 \in 2 .. n /\ 5 \div 2 = 2 /\ 4 \div 2 = 2
    BY <1>3
  <2> QED BY <1>3, <2>1 DEF FitsAt, OrderedHeap
<1>4. idx = 1 \/ idx = n \/ idx \div 2 = 1 \/ (idx = 4 /\ n = 5)
  <2>1. idx \in 1 .. n /\ n <= 5
    OBVIOUS
  <2>2. 2 \div 2 = 1 /\ 3 \div 2 = 1
    OBVIOUS
  <2> HIDE DEF n
  <2>3. idx \in {1, 2, 3, 4, 5} /\ n \in Nat /\ idx <= n
    BY <1>1, <2>1
  <2>4. idx = 5 => n = 5
    BY <1>1, <2>1
  <2>5. idx = 4 => n = 4 \/ n = 5
    BY <1>1, <2>1
  <2> QED BY <2>2, <2>3, <2>4, <2>5
<1>5. CASE idx = 1 \/ idx = n
  BY <1>5 DEF FitsAt
<1> QED BY <1>2, <1>3, <1>4, <1>5

LEMMA OrderIsArmed == IInv /\ OrderInv => ArmedForEarliest
<1> SUFFICES ASSUME IInv, OrderInv PROVE ArmedForEarliest
  OBVIOUS
<1>1. heap_ \in Heap /\ OrderedHeap(heap_) /\ timerfd = latestTime_
      /\ latestTime_ = IF Empty(heap_) THEN Never ELSE Top(heap_).exp
  BY DEF IInv, TypeOK, OrderInv
<1>2. CASE Empty(heap_)
  BY <1>1, <1>2 DEF ArmedForEarliest, Timers, TimersOf, Empty
<1>3. CASE ~Empty(heap_)
  <2>1. Top(heap_) \in TimersOf(heap_) /\ \A u \in TimersOf(heap_) : Top(heap_).exp <= u.exp
    BY <1>1, <1>3, TopIsEarliest
  <2> QED BY <1>1, <1>3, <2>1 DEF ArmedForEarliest, Timers
<1> QED BY <1>2, <1>3

\* A collection that starts from an ordered heap leaves no due timer.
LEMMA CollectsAll ==
    ASSUME IInv, OrderInv, HandleExpiredTimers
    PROVE  \A i \in DOMAIN heap_'.timerList_ : heap_'.timerList_[i].exp > now
<1>1. \A t \in Timers' : t.exp > now
  BY HandleExpiredTimersInv
<1> QED BY <1>1 DEF Timers, TimersOf

-----------------------------------------------------------------------------
(* The theorems.                                                           *)

LEMMA Invariant == Spec => []IInv
<1>1. Init => IInv
  BY InitInv
<1>2. IInv /\ [Next]_vars => IInv'
  BY NextInv
<1> QED BY <1>1, <1>2, PTL DEF Spec

\* Every variable of the queue keeps its type: ids, clock values and the
\* count of callbacks to run stay in range, and the timerfd is never armed
\* for 0, which would disarm it.
THEOREM TypeCorrect == Spec => []TypeOK
<1>1. IInv => TypeOK
  BY DEF IInv
<1> QED BY <1>1, Invariant, PTL

\* timerList_ and positions_ agree after every operation, for every history
\* of adds, cancels and expirations: Add, Del, Adjust and PopMovedTimer
\* update both alike, to the end of their loops.
THEOREM PositionsAlwaysMatch == Spec => []PositionsMatch
<1>1. IInv => PositionsMatch
  BY DEF IInv
<1> QED BY <1>1, Invariant, PTL

\* A cancelled timer never comes back to the heap, not even a repeating one
\* cancelled from its own callback or a neighbour's.
THEOREM CancelIsFinal == Spec => []CancelledStaysCancelled
<1>1. IInv => CancelledStaysCancelled
  BY DEF IInv
<1> QED BY <1>1, Invariant, PTL

\* GetExpiredTimers loses no timer: each one is in the heap after it or among
\* the timers that will be run.
NoneLost ==
    HandleExpiredTimers =>
        \A t \in Timers : t \in Timers' \/ \E i \in 1 .. Len(expired') : expired'[i] = t

\* The same of every run: a repeating timer replaced in the heap is among the
\* expired ones, and no other timer leaves with those that are taken.
THEOREM CollectionLosesNothing == Spec => [][NoneLost]_vars
<1>1. IInv => NoneLost
  BY HandleExpiredTimersInv DEF NoneLost
<1> QED BY <1>1, Invariant, PTL

\* As long as each cancel removes a timer whose place the last one may take
\* (what Del does not check), the timerfd is armed for the earliest timer.
THEOREM ArmedWhileCancelsFit == Spec /\ [][CancelFits]_vars => []ArmedForEarliest
<1>1. Init => IInv /\ OrderInv
  BY InitInv
<1>2. IInv /\ OrderInv /\ [Next]_vars /\ [CancelFits]_vars => IInv' /\ OrderInv'
  BY NextInv
<1> QED BY <1>1, <1>2, OrderIsArmed, PTL DEF Spec

\* Under the same condition GetExpiredTimers returns every expired timer.
THEOREM AllReturnedWhileCancelsFit == Spec /\ [][CancelFits]_vars => ReturnsAllExpired
<1>1. Init => IInv /\ OrderInv
  BY InitInv
<1>2. IInv /\ OrderInv /\ [Next]_vars /\ [CancelFits]_vars => IInv' /\ OrderInv'
  BY NextInv
<1>3. IInv /\ OrderInv /\ HandleExpiredTimers =>
         \A i \in DOMAIN heap_'.timerList_ : heap_'.timerList_[i].exp > now
  BY CollectsAll
<1> QED BY <1>1, <1>2, <1>3, PTL DEF Spec, ReturnsAllExpired

\* The condition holds while the heap has at most five timers, and without
\* cancels it is not needed: a history that breaks the order has both a
\* cancel and six timers at once.
LEMMA OrderKept ==
    Spec /\ [](MaxCancels = 0 \/ Len(heap_.timerList_) <= 5) => [](IInv /\ OrderInv)
<1> DEFINE Small == MaxCancels = 0 \/ Len(heap_.timerList_) <= 5
<1>1. Init => IInv /\ OrderInv
  BY InitInv
<1>2. ASSUME IInv, OrderInv, Small, [Next]_vars PROVE IInv' /\ OrderInv'
  <2>1. CASE MaxCancels = 0
    BY <1>2, <2>1, NextInv
  <2>2. CASE Len(heap_.timerList_) <= 5
    <3>1. ASSUME NEW id \in TimerIds, heap_.positions_[id] # 0
          PROVE  FitsAt(heap_, heap_.positions_[id])
      <4>1. heap_ \in Heap /\ Agree(heap_) /\ OrderedHeap(heap_)
        BY <1>2 DEF IInv, TypeOK, PositionsMatch, OrderInv
      <4>2. heap_.positions_[id] \in 1 .. Len(heap_.timerList_)
        BY <3>1, <4>1, AgreeIs
      <4> QED BY <2>2, <4>1, <4>2, SmallHeapFits
    <3>2. CancelFits
      BY <3>1 DEF CancelFits
    <3> QED BY <1>2, <3>2, NextInv
  <2> QED BY <1>2, <2>1, <2>2
<1>3. IInv /\ OrderInv /\ Small /\ [Next]_vars => IInv' /\ OrderInv'
  BY <1>2
<1> QED BY <1>1, <1>3, PTL DEF Spec

\* Without cancels, or with at most five timers in the heap, the timerfd is
\* always armed for the earliest timer.
THEOREM ArmedInSmallHeaps ==
    Spec /\ [](MaxCancels = 0 \/ Len(heap_.timerList_) <= 5) => []ArmedForEarliest
BY OrderKept, OrderIsArmed, PTL

\* ... and every collection returns all expired timers so far.
THEOREM AllReturnedInSmallHeaps ==
    Spec /\ [](MaxCancels = 0 \/ Len(heap_.timerList_) <= 5) => ReturnsAllExpired
<1>1. IInv /\ OrderInv /\ HandleExpiredTimers =>
         \A i \in DOMAIN heap_'.timerList_ : heap_'.timerList_[i].exp > now
  BY CollectsAll
<1> QED BY <1>1, OrderKept, PTL DEF Spec, ReturnsAllExpired

=============================================================================
