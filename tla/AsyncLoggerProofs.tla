------------------------- MODULE AsyncLoggerProofs -------------------------
(***************************************************************************)
(* For any number of lines and starts, any size of the buffers and every   *)
(* setting of the file: no line is lost, doubled or overtaken on its way   *)
(* through the buffers, and the spare buffers come back in time.           *)
(***************************************************************************)
EXTENDS AsyncLogger, SequenceTheorems, WellFoundedInduction, TLAPS

-----------------------------------------------------------------------------
(* Induction over the natural numbers, for a set in place of a predicate.  *)

LEMMA LeastNumber ==
    ASSUME NEW T \in SUBSET Nat, T # {}
    PROVE  \E n \in T : \A m \in T : n <= m
<1> DEFINE R == OpToRel(<, Nat)
<1>1. IsWellFoundedOn(R, Nat)
  BY NatLessThanWellFounded
<1>2. \E x \in T : \A y \in T : ~(<<y, x>> \in R)
  <2> HIDE DEF R
  <2> QED BY <1>1, WFMin
<1>3. \A x, y \in Nat : x < y => <<x, y>> \in R
  BY DEF OpToRel
<1>4. PICK x \in T : \A y \in T : ~(<<y, x>> \in R)
  BY <1>2
<1>5. \A y \in T : ~(y < x)
  BY <1>3, <1>4
<1> QED BY <1>5

LEMMA SetInduction ==
    ASSUME NEW S, 0 \in S, \A n \in Nat : n \in S => n + 1 \in S
    PROVE  \A n \in Nat : n \in S
<1> DEFINE T == {n \in Nat : n \notin S}
<1>1. SUFFICES ASSUME T # {} PROVE FALSE
  OBVIOUS
<1>2. PICK n \in T : \A m \in T : n <= m
  BY <1>1, LeastNumber
<1>3. n # 0 /\ n - 1 \in Nat
  BY <1>2
<1>4. n - 1 \in S
  BY <1>2, <1>3
<1> QED BY <1>2, <1>3, <1>4

-----------------------------------------------------------------------------
(* The lines of a sequence of buffers.                                     *)

\* g is the function f of Flatten, for the first n buffers.
Flattens(g, bufs, n) ==
    g = [i \in 0 .. n |-> IF i = 0 THEN <<>> ELSE g[i - 1] \o bufs[i]]

LEMMA FlattensExists ==
    ASSUME NEW bufs
    PROVE  \A n \in Nat : \E g : Flattens(g, bufs, n)
<1> DEFINE S == {n \in Nat : \E g : Flattens(g, bufs, n)}
<1>1. 0 \in S
  <2>1. Flattens([i \in 0 .. 0 |-> <<>>], bufs, 0)
    BY DEF Flattens
  <2> QED BY <2>1
<1>2. ASSUME NEW n \in Nat, n \in S
      PROVE  n + 1 \in S
  <2>1. PICK g : Flattens(g, bufs, n)
    BY <1>2
  <2> DEFINE h == [i \in 0 .. n + 1 |-> IF i = n + 1 THEN g[n] \o bufs[n + 1]
                                        ELSE g[i]]
  <2>2. Flattens(h, bufs, n + 1)
    BY <2>1 DEF Flattens
  <2> QED BY <2>2
<1> HIDE DEF S
<1>3. \A n \in Nat : n \in S
  BY <1>1, <1>2, SetInduction
<1> QED BY <1>3 DEF S

LEMMA FlattenIs ==
    ASSUME NEW bufs, Len(bufs) \in Nat
    PROVE  \E g : Flattens(g, bufs, Len(bufs)) /\ Flatten(bufs) = g[Len(bufs)]
<1> DEFINE g == CHOOSE g : Flattens(g, bufs, Len(bufs))
<1>1. Flattens(g, bufs, Len(bufs))
  BY FlattensExists
<1>2. Flatten(bufs) = g[Len(bufs)]
  BY DEF Flatten, Flattens
<1> QED BY <1>1, <1>2

LEMMA FlattenEmpty == Flatten(<<>>) = <<>>
<1>1. PICK g : Flattens(g, <<>>, 0) /\ Flatten(<<>>) = g[0]
  BY FlattenIs
<1> QED BY <1>1 DEF Flattens

LEMMA FlattenAppend ==
    ASSUME NEW bufs \in Seq(Seq(Nat)), NEW b \in Seq(Nat)
    PROVE  Flatten(Append(bufs, b)) = Flatten(bufs) \o b
<1> DEFINE N == Len(bufs)
           more == Append(bufs, b)
<1>1. N \in Nat /\ Len(more) = N + 1 /\ more[N + 1] = b
      /\ \A i \in 1 .. N : more[i] = bufs[i]
  OBVIOUS
<1>2. PICK g : Flattens(g, bufs, N) /\ Flatten(bufs) = g[N]
  BY <1>1, FlattenIs
<1> HIDE DEF N, more
<1>3. PICK h : Flattens(h, more, N + 1) /\ Flatten(more) = h[N + 1]
  <2>1. Len(more) \in Nat
    BY <1>1
  <2>2. \E h : Flattens(h, more, Len(more)) /\ Flatten(more) = h[Len(more)]
    BY <2>1, FlattenIs
  <2> QED BY <1>1, <2>2
<1> DEFINE S == {n \in Nat : n <= N => h[n] = g[n]}
<1>4. 0 \in S
  BY <1>1, <1>2, <1>3 DEF Flattens
<1>5. ASSUME NEW n \in Nat, n \in S
      PROVE  n + 1 \in S
  <2>1. SUFFICES ASSUME n + 1 <= N PROVE h[n + 1] = g[n + 1]
    OBVIOUS
  <2>2. h[n] = g[n] /\ more[n + 1] = bufs[n + 1]
    BY <1>1, <1>5, <2>1
  <2>3. n + 1 \in 0 .. N /\ n + 1 \in 0 .. N + 1 /\ n + 1 # 0 /\ (n + 1) - 1 = n
    BY <1>1, <2>1
  <2>4. g[n + 1] = g[n] \o bufs[n + 1]
    BY <1>2, <2>3 DEF Flattens
  <2>5. h[n + 1] = h[n] \o more[n + 1]
    BY <1>3, <2>3 DEF Flattens
  <2> QED BY <2>2, <2>4, <2>5
<1>6. h[N] = g[N]
  <2> HIDE DEF S
  <2>1. \A n \in Nat : n \in S
    BY <1>4, <1>5, SetInduction
  <2> QED BY <1>1, <2>1 DEF S
<1>7. h[N + 1] = h[N] \o more[N + 1]
  <2>1. N + 1 \in 0 .. N + 1 /\ N + 1 # 0 /\ (N + 1) - 1 = N
    BY <1>1
  <2> QED BY <1>3, <2>1 DEF Flattens
<1> QED BY <1>1, <1>2, <1>3, <1>6, <1>7 DEF more

\* A sequence that is not empty is one with an element appended.
LEMMA LastApart ==
    ASSUME NEW S, NEW s \in Seq(S), NEW n \in Nat, Len(s) = n + 1
    PROVE  \E t \in Seq(S), x \in S : s = Append(t, x) /\ Len(t) = n
<1> DEFINE t == SubSeq(s, 1, n)
<1>1. t \in Seq(S) /\ Len(t) = n /\ s[n + 1] \in S
  BY SubSeqProperties, ElementOfSeq
<1>2. s = Append(t, s[n + 1])
  OBVIOUS
<1> QED BY <1>1, <1>2

\* Lines joined to lines are lines, and may be joined in any order.
LEMMA Cat ==
    /\ \A a, b \in Seq(Nat) : a \o b \in Seq(Nat)
    /\ \A a, b, c \in Seq(Nat) : (a \o b) \o c = a \o (b \o c)
    /\ \A a \in Seq(Nat) : a \o <<>> = a /\ <<>> \o a = a
<1>1. ASSUME NEW a \in Seq(Nat), NEW b \in Seq(Nat), NEW c \in Seq(Nat)
      PROVE  (a \o b) \o c = a \o (b \o c)
  BY ConcatAssociative, SMTT(60)
<1> QED BY <1>1, ConcatEmptySeq, ConcatProperties

LEMMA FlattenCat ==
    ASSUME NEW a \in Seq(Seq(Nat)), NEW b \in Seq(Seq(Nat))
    PROVE  /\ Flatten(b) \in Seq(Nat)
           /\ Flatten(a \o b) = Flatten(a) \o Flatten(b)
<1> DEFINE L(x) == Flatten(x) \in Seq(Nat)
           P(x) == Flatten(a \o x) = Flatten(a) \o Flatten(x)
           S == {n \in Nat : \A x \in Seq(Seq(Nat)) : Len(x) = n => L(x)}
           U == {n \in Nat : \A x \in Seq(Seq(Nat)) : Len(x) = n => P(x)}
<1>1. 0 \in S
  BY FlattenEmpty
<1>2. ASSUME NEW n \in Nat, n \in S
      PROVE  n + 1 \in S
  <2>1. SUFFICES ASSUME NEW x \in Seq(Seq(Nat)), Len(x) = n + 1
                 PROVE  L(x)
    OBVIOUS
  <2>2. PICK t \in Seq(Seq(Nat)), y \in Seq(Nat) : x = Append(t, y) /\ Len(t) = n
    BY <2>1, LastApart
  <2>3. Flatten(t) \in Seq(Nat)
    BY <1>2, <2>2
  <2>4. Flatten(x) = Flatten(t) \o y
    BY <2>2, FlattenAppend
  <2> QED BY <2>3, <2>4
<1>3. \A n \in Nat : n \in S
  <2> HIDE DEF S
  <2> QED BY <1>1, <1>2, SetInduction
<1>4. \A x \in Seq(Seq(Nat)) : L(x)
  BY <1>3
<1>5. 0 \in U
  <2> SUFFICES ASSUME NEW x \in Seq(Seq(Nat)), Len(x) = 0
               PROVE  P(x)
    OBVIOUS
  <2>1. x = <<>> /\ a \o x = a
    OBVIOUS
  <2>2. Flatten(a) \o <<>> = Flatten(a)
    BY <1>4, ConcatEmptySeq
  <2> QED BY <2>1, <2>2, FlattenEmpty
<1>6. ASSUME NEW n \in Nat, n \in U
      PROVE  n + 1 \in U
  <2>1. SUFFICES ASSUME NEW x \in Seq(Seq(Nat)), Len(x) = n + 1
                 PROVE  P(x)
    OBVIOUS
  <2>2. PICK t \in Seq(Seq(Nat)), y \in Seq(Nat) : x = Append(t, y) /\ Len(t) = n
    BY <2>1, LastApart
  <2>3. a \o x = Append(a \o t, y) /\ a \o t \in Seq(Seq(Nat))
    BY <2>2, SMTT(60)
  <2>4. Flatten(a \o x) = Flatten(a \o t) \o y
    BY <2>3, FlattenAppend
  <2>5. Flatten(a \o t) = Flatten(a) \o Flatten(t)
    BY <1>6, <2>2
  <2>6. Flatten(x) = Flatten(t) \o y
    BY <2>2, FlattenAppend
  <2>7. (Flatten(a) \o Flatten(t)) \o y = Flatten(a) \o (Flatten(t) \o y)
    <3>1. Flatten(a) \in Seq(Nat) /\ Flatten(t) \in Seq(Nat)
      BY <1>4
    <3> QED BY <3>1, Cat, ZenonT(60)
  <2> QED BY <2>4, <2>5, <2>6, <2>7
<1>7. \A n \in Nat : n \in U
  <2> HIDE DEF U
  <2> QED BY <1>5, <1>6, SetInduction
<1> QED BY <1>4, <1>7

LEMMA FlattenOne ==
    ASSUME NEW b \in Seq(Nat)
    PROVE  Flatten(<<b>>) = b
<1>1. <<b>> = Append(<<>>, b) /\ <<>> \in Seq(Seq(Nat))
  OBVIOUS
<1>2. Flatten(<<b>>) = Flatten(<<>>) \o b
  BY <1>1, FlattenAppend
<1> QED BY <1>2, FlattenEmpty, ConcatEmptySeq

-----------------------------------------------------------------------------
(* What LogFile does to the lines.                                         *)

LogFiles == [disk : Seq(Nat), ofs : Seq(Nat), written : Nat, count_ : Nat,
             lastRoll_ : Int, lastFlush_ : Int, latestStartOfPeriod_ : Int]

\* Lines handed to the file, flushed or not.
OnFile(f) == f.disk \o f.ofs

LEMMA PeriodType == \A t \in Nat : Period(t) \in Int
  BY LogFileAssumption DEF Period

LEMMA FlushFileKeeps ==
    ASSUME NEW f \in LogFiles
    PROVE  /\ FlushFile(f) \in LogFiles /\ CloseFile(f) \in LogFiles
           /\ FlushFile(f).ofs = <<>> /\ CloseFile(f).ofs = <<>>
           /\ FlushFile(f).disk = OnFile(f) /\ CloseFile(f).disk = OnFile(f)
<1>1. f.disk \in Seq(Nat) /\ f.ofs \in Seq(Nat) /\ f.disk \o f.ofs \in Seq(Nat)
  BY Cat DEF LogFiles
<1>2. <<>> \in Seq(Nat)
  OBVIOUS
<1> QED BY <1>1, <1>2 DEF LogFiles, FlushFile, CloseFile, OnFile

LEMMA EmptyStream ==
    ASSUME NEW f \in LogFiles, f.ofs = <<>>
    PROVE  OnFile(f) = f.disk
  BY Cat DEF LogFiles, OnFile

LEMMA RoolFileKeeps ==
    ASSUME NEW f \in LogFiles, NEW t \in Nat
    PROVE  /\ RoolFile(f, t) \in LogFiles
           /\ OnFile(RoolFile(f, t)) = OnFile(f)
<1> DEFINE g == CloseFile(f)
           h == [g EXCEPT !.lastRoll_ = t, !.lastFlush_ = t,
                          !.latestStartOfPeriod_ = Period(t)]
<1>1. g \in LogFiles /\ g.ofs = <<>> /\ g.disk = OnFile(f)
  BY FlushFileKeeps
<1> HIDE DEF g
<1>2. h \in LogFiles /\ h.ofs = g.ofs /\ h.disk = g.disk
  <2>1. t \in Int /\ Period(t) \in Int
    BY PeriodType
  <2> QED BY <1>1, <2>1 DEF LogFiles
<1> HIDE DEF h
<1>3. OnFile(h) = OnFile(f)
  BY <1>1, <1>2, EmptyStream
<1>4. RoolFile(f, t) = h \/ RoolFile(f, t) = f
  BY DEF RoolFile, h, g
<1> QED BY <1>2, <1>3, <1>4

LEMMA OpenLogFileKeeps ==
    ASSUME NEW disk \in Seq(Nat), NEW t \in Nat
    PROVE  /\ OpenLogFile(disk, t) \in LogFiles
           /\ OnFile(OpenLogFile(disk, t)) = disk
<1> DEFINE f == [disk |-> disk, ofs |-> <<>>, written |-> 0, count_ |-> 0,
                 lastRoll_ |-> -1, lastFlush_ |-> -1,
                 latestStartOfPeriod_ |-> -1]
<1>1. f \in LogFiles /\ f.ofs = <<>> /\ f.disk = disk
  BY DEF LogFiles
<1>2. OpenLogFile(disk, t) = RoolFile(f, t)
  BY DEF OpenLogFile
<1> HIDE DEF f
<1> QED BY <1>1, <1>2, RoolFileKeeps, EmptyStream

LEMMA OpenLogFileEmpty ==
    ASSUME NEW disk \in Seq(Nat), NEW t \in Nat
    PROVE  OpenLogFile(disk, t).ofs = <<>>
<1> DEFINE f == [disk |-> disk, ofs |-> <<>>, written |-> 0, count_ |-> 0,
                 lastRoll_ |-> -1, lastFlush_ |-> -1,
                 latestStartOfPeriod_ |-> -1]
<1>1. f \in LogFiles /\ f.ofs = <<>>
  BY DEF LogFiles
<1>2. OpenLogFile(disk, t) = RoolFile(f, t)
  BY DEF OpenLogFile
<1> HIDE DEF f
<1>3. CloseFile(f) \in LogFiles /\ CloseFile(f).ofs = <<>>
  BY <1>1, FlushFileKeeps
<1>4. RoolFile(f, t).ofs = <<>>
  BY <1>1, <1>3 DEF RoolFile, LogFiles
<1> QED BY <1>2, <1>4

LEMMA FlushKeeps ==
    ASSUME NEW f \in LogFiles, NEW t \in Nat
    PROVE  /\ Flush(f, t) \in LogFiles
           /\ OnFile(Flush(f, t)) = OnFile(f)
<1> DEFINE g == FlushFile(f)
<1>1. g \in LogFiles /\ g.ofs = <<>> /\ g.disk = OnFile(f)
  BY FlushFileKeeps
<1>2. Flush(f, t) = [g EXCEPT !.lastFlush_ = t]
  BY DEF Flush
<1> HIDE DEF g
<1>3. Flush(f, t) \in LogFiles /\ Flush(f, t).ofs = g.ofs /\ Flush(f, t).disk = g.disk
  <2>1. t \in Int
    OBVIOUS
  <2> QED BY <1>1, <1>2, <2>1 DEF LogFiles
<1> QED BY <1>1, <1>3, EmptyStream

\* Whether the file is rolled, flushed or neither, the lines come after those
\* before.
LEMMA AppendUnlockedKeeps ==
    ASSUME NEW f \in LogFiles, NEW l \in Seq(Nat), NEW size \in Nat, NEW t \in Nat
    PROVE  /\ AppendUnlocked(f, l, size, t) \in LogFiles
           /\ OnFile(AppendUnlocked(f, l, size, t)) = OnFile(f) \o l
<1> DEFINE g == [f EXCEPT !.ofs = @ \o l, !.written = @ + size]
           checked == [g EXCEPT !.count_ = 0]
           counted == [g EXCEPT !.count_ = @ + 1]
<1>1. f.disk \in Seq(Nat) /\ f.ofs \in Seq(Nat) /\ f.ofs \o l \in Seq(Nat)
  BY Cat DEF LogFiles
<1>2. f.written + size \in Nat
  BY DEF LogFiles
<1>3. g \in LogFiles /\ g.disk = f.disk /\ g.ofs = f.ofs \o l
  BY <1>1, <1>2 DEF LogFiles
<1>4. OnFile(g) = OnFile(f) \o l
  <2>1. (f.disk \o f.ofs) \o l = f.disk \o (f.ofs \o l)
    BY <1>1, Cat, ZenonT(60)
  <2> QED BY <1>3, <2>1 DEF OnFile
<1> HIDE DEF g
<1>5. g.count_ + 1 \in Nat
  BY <1>3, SMTT(60) DEF LogFiles
<1>6. checked \in LogFiles /\ checked.disk = g.disk /\ checked.ofs = g.ofs
  BY <1>3 DEF LogFiles
<1>7. counted \in LogFiles /\ counted.disk = g.disk /\ counted.ofs = g.ofs
  BY <1>3, <1>5 DEF LogFiles
<1>8. OnFile(checked) = OnFile(g) /\ OnFile(counted) = OnFile(g)
  BY <1>6, <1>7 DEF OnFile
<1>9. \/ AppendUnlocked(f, l, size, t) = RoolFile(g, t)
      \/ AppendUnlocked(f, l, size, t) = counted
      \/ AppendUnlocked(f, l, size, t) = RoolFile(checked, t)
      \/ AppendUnlocked(f, l, size, t) = FlushFile(checked)
      \/ AppendUnlocked(f, l, size, t) = checked
  BY DEF AppendUnlocked, g
<1> HIDE DEF checked, counted
<1>10. /\ RoolFile(g, t) \in LogFiles /\ OnFile(RoolFile(g, t)) = OnFile(g)
       /\ RoolFile(checked, t) \in LogFiles
       /\ OnFile(RoolFile(checked, t)) = OnFile(g)
  BY <1>3, <1>6, <1>8, RoolFileKeeps
<1>11. FlushFile(checked) \in LogFiles /\ OnFile(FlushFile(checked)) = OnFile(g)
  BY <1>6, <1>8, FlushFileKeeps, EmptyStream
<1> QED BY <1>4, <1>6, <1>7, <1>8, <1>9, <1>10, <1>11

-----------------------------------------------------------------------------
(* The inductive invariant.                                                *)

BackPc == {"none", "start", "test", "lock", "waiting", "write", "exited"}
StopPc == {"none", "notify", "join"}

TypeOK ==
    /\ now \in Nat /\ running_ \in BOOLEAN
    /\ buffers_ \in Seq(Seq(Nat)) /\ currentBuffer_ \in Seq(Nat)
    /\ nextBuffer_ \in BOOLEAN /\ newBuffer1 \in BOOLEAN /\ newBuffer2 \in BOOLEAN
    /\ buffers_to_write \in Seq(Seq(Nat)) /\ written \in Nat
    /\ file \in LogFiles
    /\ back \in BackPc /\ stop \in StopPc
    /\ lines \in Nat /\ starts \in Nat /\ dropped \in SUBSET (1 .. lines)

\* Buffers are dropped before the first of them is written, none is left over
\* when a round ends, and a thread that is not there holds back no line in
\* the buffer of the stream.
RoundInv ==
    /\ written <= Len(buffers_to_write)
    /\ written > 0 => Len(buffers_to_write) <= kMaxBuffers
    /\ back # "write" => buffers_to_write = <<>>
    /\ back \in {"none", "start", "exited"} => file.ofs = <<>>
    /\ ~running_ /\ stop = "none" => back = "none"

IInv == TypeOK /\ RoundInv /\ SparesReturn /\ LinesInOrder

-----------------------------------------------------------------------------
(* Sequences of lines in order.                                            *)

Increasing(s) == \A i, j \in DOMAIN s : i < j => s[i] < s[j]

LEMMA LinesOfCat ==
    ASSUME NEW a \in Seq(Nat), NEW b \in Seq(Nat)
    PROVE  LinesOf(a \o b) = LinesOf(a) \cup LinesOf(b)
<1>1. ASSUME NEW i \in DOMAIN (a \o b)
      PROVE  (a \o b)[i] \in LinesOf(a) \cup LinesOf(b)
  BY DEF LinesOf
<1>2. ASSUME NEW i \in DOMAIN a
      PROVE  a[i] \in LinesOf(a \o b)
  <2>1. i \in DOMAIN (a \o b) /\ (a \o b)[i] = a[i]
    OBVIOUS
  <2> QED BY <2>1 DEF LinesOf
<1>3. ASSUME NEW i \in DOMAIN b
      PROVE  b[i] \in LinesOf(a \o b)
  <2>1. Len(a) + i \in DOMAIN (a \o b) /\ (a \o b)[Len(a) + i] = b[i]
    OBVIOUS
  <2> QED BY <2>1 DEF LinesOf
<1> QED BY <1>1, <1>2, <1>3 DEF LinesOf

\* A line with a higher number than all before goes to the end.
LEMMA AddLine ==
    ASSUME NEW s \in Seq(Nat), NEW x \in Nat, Increasing(s),
           \A y \in LinesOf(s) : y < x
    PROVE  /\ Increasing(s \o <<x>>)
           /\ LinesOf(s \o <<x>>) = LinesOf(s) \cup {x}
<1>1. LinesOf(<<x>>) = {x}
  BY DEF LinesOf
<1>2. LinesOf(s \o <<x>>) = LinesOf(s) \cup {x}
  <2>1. <<x>> \in Seq(Nat)
    OBVIOUS
  <2>2. LinesOf(s \o <<x>>) = LinesOf(s) \cup LinesOf(<<x>>)
    BY <2>1, LinesOfCat
  <2> QED BY <1>1, <2>2
<1>3. \A i \in DOMAIN s : s[i] < x
  BY DEF LinesOf
<1>4. Increasing(s \o <<x>>)
  BY <1>3 DEF Increasing
<1> QED BY <1>2, <1>4

\* Lines cut out of the middle leave the others in order, and are not among
\* them.
LEMMA CutLines ==
    ASSUME NEW a \in Seq(Nat), NEW m \in Seq(Nat), NEW b \in Seq(Nat),
           Increasing(a \o (m \o b))
    PROVE  /\ Increasing(a \o b)
           /\ LinesOf(a \o b) = LinesOf(a \o (m \o b)) \ LinesOf(m)
<1> DEFINE s == a \o (m \o b)
<1>1. /\ Len(a) \in Nat /\ Len(m) \in Nat /\ Len(b) \in Nat
      /\ Len(s) = Len(a) + Len(m) + Len(b) /\ DOMAIN s = 1 .. Len(s)
      /\ \A i \in 1 .. Len(a) : s[i] = a[i]
      /\ \A i \in 1 .. Len(m) : s[Len(a) + i] = m[i]
      /\ \A i \in 1 .. Len(b) : s[Len(a) + Len(m) + i] = b[i]
  OBVIOUS
<1>2. /\ DOMAIN (a \o b) = 1 .. Len(a) + Len(b)
      /\ \A i \in 1 .. Len(a) : (a \o b)[i] = a[i]
      /\ \A i \in 1 .. Len(b) : (a \o b)[Len(a) + i] = b[i]
  OBVIOUS
<1>3. LinesOf(s) = LinesOf(a) \cup LinesOf(m) \cup LinesOf(b)
  <2>1. m \o b \in Seq(Nat)
    BY Cat
  <2>2. LinesOf(s) = LinesOf(a) \cup LinesOf(m \o b)
    BY <2>1, LinesOfCat, Zenon
  <2>3. LinesOf(m \o b) = LinesOf(m) \cup LinesOf(b)
    BY LinesOfCat
  <2> QED BY <2>2, <2>3
<1>4. LinesOf(a \o b) = LinesOf(a) \cup LinesOf(b)
  BY LinesOfCat
<1>0. Increasing(s)
  OBVIOUS
<1> HIDE DEF s
<1>5. ASSUME NEW i \in 1 .. Len(a), NEW j \in 1 .. Len(m)
      PROVE  a[i] # m[j]
  <2>1. i \in DOMAIN s /\ Len(a) + j \in DOMAIN s /\ i < Len(a) + j
    BY <1>1
  <2>2. s[i] < s[Len(a) + j] /\ s[i] = a[i] /\ s[Len(a) + j] = m[j]
    BY <1>0, <1>1, <2>1 DEF Increasing
  <2>3. a[i] \in Nat /\ m[j] \in Nat
    BY ElementOfSeq
  <2> QED BY <2>2, <2>3
<1>6. ASSUME NEW i \in 1 .. Len(m), NEW j \in 1 .. Len(b)
      PROVE  m[i] # b[j]
  <2>1. /\ Len(a) + i \in DOMAIN s /\ Len(a) + Len(m) + j \in DOMAIN s
        /\ Len(a) + i < Len(a) + Len(m) + j
    BY <1>1
  <2>2. /\ s[Len(a) + i] < s[Len(a) + Len(m) + j]
        /\ s[Len(a) + i] = m[i] /\ s[Len(a) + Len(m) + j] = b[j]
    BY <1>0, <1>1, <2>1 DEF Increasing
  <2>3. m[i] \in Nat /\ b[j] \in Nat
    BY ElementOfSeq
  <2> QED BY <2>2, <2>3
<1>7. LinesOf(m) \cap (LinesOf(a) \cup LinesOf(b)) = {}
  <2>1. DOMAIN a = 1 .. Len(a) /\ DOMAIN m = 1 .. Len(m) /\ DOMAIN b = 1 .. Len(b)
    OBVIOUS
  <2> QED BY <1>5, <1>6, <2>1, Zenon DEF LinesOf
<1>8. Increasing(a \o b)
  <2>1. SUFFICES ASSUME NEW i \in 1 .. Len(a) + Len(b),
                        NEW j \in 1 .. Len(a) + Len(b), i < j
                 PROVE  (a \o b)[i] < (a \o b)[j]
    BY <1>2 DEF Increasing
  <2> DEFINE at(k) == IF k <= Len(a) THEN k ELSE k + Len(m)
  <2>2. ASSUME NEW k \in 1 .. Len(a) + Len(b)
        PROVE  at(k) \in DOMAIN s /\ (a \o b)[k] = s[at(k)]
    <3>1. CASE k <= Len(a)
      BY <1>1, <1>2, <3>1
    <3>2. CASE k > Len(a)
      <4>1. PICK n \in 1 .. Len(b) : k = Len(a) + n
        <5>1. k - Len(a) \in 1 .. Len(b) /\ k = Len(a) + (k - Len(a))
          BY <1>1, <3>2
        <5> QED BY <5>1
      <4>2. at(k) = Len(a) + Len(m) + n
        BY <1>1, <3>2, <4>1
      <4> QED BY <1>1, <1>2, <4>1, <4>2
    <3> QED BY <1>1, <3>1, <3>2
  <2>3. at(i) < at(j)
    BY <1>1, <2>1
  <2> HIDE DEF at
  <2>4. s[at(i)] < s[at(j)]
    BY <1>0, <2>2, <2>3 DEF Increasing
  <2> QED BY <2>2, <2>4
<1> QED BY <1>3, <1>4, <1>7, <1>8 DEF s

-----------------------------------------------------------------------------
(* What a step does to the lines that are somewhere.                       *)

Pending == SubSeq(buffers_to_write, written + 1, Len(buffers_to_write))

\* AllLines for the file f, pending buffers w, full buffers b and the
\* current buffer c.
Joined(f, w, b, c) == ((OnFile(f) \o Flatten(w)) \o Flatten(b)) \o c

LEMMA AllLinesJoined ==
    /\ AllLines = Joined(file, Pending, buffers_, currentBuffer_)
    /\ AllLines' = Joined(file', Pending', buffers_', currentBuffer_')
  BY DEF AllLines, Joined, OnFile, Pending

\* The parts of AllLines are lines.
LEMMA JoinedParts ==
    ASSUME NEW f \in LogFiles, NEW w \in Seq(Seq(Nat)), NEW b \in Seq(Seq(Nat)),
           NEW c \in Seq(Nat)
    PROVE  /\ OnFile(f) \in Seq(Nat) /\ Flatten(w) \in Seq(Nat)
           /\ Flatten(b) \in Seq(Nat) /\ Joined(f, w, b, c) \in Seq(Nat)
           /\ Joined(f, w, b, c)
                = (OnFile(f) \o Flatten(w)) \o (Flatten(b) \o c)
<1>1. OnFile(f) \in Seq(Nat)
  BY Cat DEF OnFile, LogFiles
<1>2. Flatten(w) \in Seq(Nat) /\ Flatten(b) \in Seq(Nat)
  BY FlattenCat
<1>3. OnFile(f) \o Flatten(w) \in Seq(Nat)
  BY <1>1, <1>2, Cat, Zenon
<1>4. (OnFile(f) \o Flatten(w)) \o Flatten(b) \in Seq(Nat)
  BY <1>2, <1>3, Cat, Zenon
<1>5. Joined(f, w, b, c) \in Seq(Nat)
  BY <1>4, Cat, Zenon DEF Joined
<1>6. Joined(f, w, b, c) = (OnFile(f) \o Flatten(w)) \o (Flatten(b) \o c)
  BY <1>2, <1>3, Cat, ZenonT(60) DEF Joined
<1> QED BY <1>1, <1>2, <1>5, <1>6

LEMMA JoinedAppend ==
    ASSUME NEW f \in LogFiles, NEW w \in Seq(Seq(Nat)), NEW b \in Seq(Seq(Nat)),
           NEW c \in Seq(Nat), NEW x \in Nat
    PROVE  /\ Joined(f, w, b, Append(c, x)) = Joined(f, w, b, c) \o <<x>>
           /\ Joined(f, w, Append(b, c), <<x>>) = Joined(f, w, b, c) \o <<x>>
<1> DEFINE A == OnFile(f) \o Flatten(w)
           B == A \o Flatten(b)
<1>1. Flatten(b) \in Seq(Nat) /\ A \in Seq(Nat) /\ B \in Seq(Nat)
  BY JoinedParts, Cat
<1>2. <<x>> \in Seq(Nat) /\ Append(c, x) = c \o <<x>>
  OBVIOUS
<1>3. Flatten(Append(b, c)) = Flatten(b) \o c
  BY FlattenAppend
<1> HIDE DEF A
<1>4. A \o (Flatten(b) \o c) = B \o c
  BY <1>1, Cat, ZenonT(60)
<1> HIDE DEF B
<1>5. B \o (c \o <<x>>) = (B \o c) \o <<x>>
  BY <1>1, <1>2, Cat, ZenonT(60)
<1>6. Joined(f, w, b, Append(c, x)) = Joined(f, w, b, c) \o <<x>>
  BY <1>2, <1>5, Zenon DEF Joined, A, B
<1>7. Joined(f, w, Append(b, c), <<x>>) = Joined(f, w, b, c) \o <<x>>
  BY <1>3, <1>4, Zenon DEF Joined, A, B
<1> QED BY <1>6, <1>7

LEMMA JoinedSwap ==
    ASSUME NEW f \in LogFiles, NEW b \in Seq(Seq(Nat)), NEW c \in Seq(Nat)
    PROVE  Joined(f, Append(b, c), <<>>, <<>>) = Joined(f, <<>>, b, c)
<1>1. <<>> \in Seq(Seq(Nat)) /\ <<>> \in Seq(Nat) /\ Append(b, c) \in Seq(Seq(Nat))
  OBVIOUS
<1>2. /\ OnFile(f) \in Seq(Nat) /\ Flatten(b) \in Seq(Nat)
      /\ Flatten(Append(b, c)) \in Seq(Nat)
  BY <1>1, JoinedParts
<1>3. OnFile(f) \o Flatten(Append(b, c)) \in Seq(Nat)
  BY <1>2, Cat, Zenon
<1>4. Joined(f, Append(b, c), <<>>, <<>>) = OnFile(f) \o Flatten(Append(b, c))
  <2> DEFINE X == OnFile(f) \o Flatten(Append(b, c))
  <2>1. Joined(f, Append(b, c), <<>>, <<>>) = (X \o <<>>) \o <<>>
    BY FlattenEmpty, Zenon DEF Joined
  <2>2. X \o <<>> = X
    BY <1>3, Cat, Zenon
  <2> HIDE DEF X
  <2> QED BY <2>1, <2>2, Zenon DEF X
<1>5. Joined(f, <<>>, b, c) = (OnFile(f) \o Flatten(b)) \o c
  BY <1>2, Cat, FlattenEmpty, Zenon DEF Joined
<1>6. (OnFile(f) \o Flatten(b)) \o c = OnFile(f) \o (Flatten(b) \o c)
  BY <1>2, Cat, ZenonT(60)
<1>7. Flatten(Append(b, c)) = Flatten(b) \o c
  BY FlattenAppend
<1> QED BY <1>4, <1>5, <1>6, <1>7, Zenon

\* A buffer that is written moves from the pending ones to the file.
LEMMA WriteMoves ==
    ASSUME NEW x \in Seq(Nat), NEW buf \in Seq(Nat), NEW w \in Seq(Seq(Nat))
    PROVE  (x \o buf) \o Flatten(w) = x \o Flatten(<<buf>> \o w)
<1>1. Flatten(w) \in Seq(Nat) /\ <<buf>> \in Seq(Seq(Nat))
  BY FlattenCat
<1>2. Flatten(<<buf>> \o w) = Flatten(<<buf>>) \o Flatten(w)
  BY <1>1, FlattenCat
<1>3. (x \o buf) \o Flatten(w) = x \o (buf \o Flatten(w))
  BY <1>1, Cat, ZenonT(60)
<1> QED BY <1>2, <1>3, FlattenOne, Zenon

-----------------------------------------------------------------------------
(* The steps.                                                              *)

LEMMA InitHolds == Init => IInv
<1> SUFFICES ASSUME Init PROVE IInv
  OBVIOUS
<1> DEFINE f == OpenLogFile(<<>>, 0)
<1>1. <<>> \in Seq(Nat) /\ 0 \in Nat
  OBVIOUS
<1>2. f \in LogFiles /\ OnFile(f) = <<>> /\ f.ofs = <<>>
  BY <1>1, OpenLogFileKeeps, OpenLogFileEmpty
<1>3. file = f
  BY DEF Init
<1> HIDE DEF f
<1>4. TypeOK
  <2>1. dropped \in SUBSET (1 .. lines) /\ lines \in Nat /\ starts \in Nat
    BY DEF Init
  <2>2. /\ now \in Nat /\ buffers_ \in Seq(Seq(Nat)) /\ currentBuffer_ \in Seq(Nat)
        /\ buffers_to_write \in Seq(Seq(Nat)) /\ written \in Nat
        /\ back \in BackPc /\ stop \in StopPc
    BY DEF Init, BackPc, StopPc
  <2>3. /\ running_ \in BOOLEAN /\ nextBuffer_ \in BOOLEAN
        /\ newBuffer1 \in BOOLEAN /\ newBuffer2 \in BOOLEAN
    BY Zenon DEF Init
  <2> QED BY <1>2, <1>3, <2>1, <2>2, <2>3 DEF TypeOK
<1>5. RoundInv
  BY <1>2, <1>3 DEF Init, RoundInv
<1>6. SparesReturn
  BY DEF Init, SparesReturn
<1>7. LinesInOrder
  <2>1. Pending = <<>>
    BY DEF Init, Pending
  <2>2. AllLines = ((<<>> \o <<>>) \o <<>>) \o <<>>
    BY <1>2, <1>3, <2>1, AllLinesJoined, FlattenEmpty, Zenon DEF Joined, Init
  <2>3. AllLines = <<>>
    BY <2>2
  <2>4. lines = 0
    BY DEF Init
  <2> QED BY <2>3, <2>4 DEF LinesInOrder, LinesOf
<1> QED BY <1>4, <1>5, <1>6, <1>7 DEF IInv

\* Types, rounds and spare buffers.
LEMMA SwapSafe ==
    ASSUME TypeOK, RoundInv, SparesReturn, SwapBuffers, back \in {"lock", "waiting"}
    PROVE  TypeOK' /\ RoundInv' /\ SparesReturn'
<1>1. Append(buffers_, currentBuffer_) \in Seq(Seq(Nat))
  BY DEF TypeOK
<1>2. /\ buffers_to_write' = Append(buffers_, currentBuffer_)
      /\ Len(buffers_to_write') = Len(buffers_) + 1 /\ buffers_to_write' # <<>>
  BY DEF TypeOK, SwapBuffers
<1>3. TypeOK'
  <2>1. /\ running_' \in BOOLEAN /\ nextBuffer_' \in BOOLEAN
        /\ newBuffer1' \in BOOLEAN /\ newBuffer2' \in BOOLEAN
    BY Zenon DEF SwapBuffers, TypeOK
  <2>2. /\ now' \in Nat /\ buffers_' \in Seq(Seq(Nat))
        /\ currentBuffer_' \in Seq(Nat)
        /\ buffers_to_write' \in Seq(Seq(Nat)) /\ written' \in Nat
        /\ file' \in LogFiles /\ back' \in BackPc /\ stop' \in StopPc
        /\ lines' \in Nat /\ starts' \in Nat /\ dropped' \in SUBSET (1 .. lines')
    BY <1>1, <1>2 DEF SwapBuffers, TypeOK, BackPc
  <2> QED BY <2>1, <2>2, Zenon DEF TypeOK
<1>4. RoundInv'
  <2>1. Len(buffers_) \in Nat
    BY DEF TypeOK
  <2>2. ~(~running_ /\ stop = "none")
    BY DEF RoundInv
  <2> QED BY <1>2, <2>1, <2>2 DEF SwapBuffers, RoundInv
<1>5. SparesReturn'
  <2>1. ~nextBuffer_ => Len(buffers_) >= 1
    BY DEF SparesReturn, TypeOK
  <2>2. newBuffer2 /\ Len(buffers_) \in Nat
    BY DEF SparesReturn, TypeOK
  <2>3. newBuffer2' \/ Len(buffers_to_write') >= 2
    <3>1. CASE nextBuffer_
      BY <2>2, <3>1, Zenon DEF SwapBuffers
    <3>2. CASE ~nextBuffer_
      BY <1>2, <2>1, <2>2, <3>2
    <3> QED BY <3>1, <3>2
  <2>4. back' = "write" /\ ~newBuffer1' /\ nextBuffer_'
    BY Zenon DEF SwapBuffers
  <2> QED BY <1>2, <2>3, <2>4 DEF SparesReturn
<1> QED BY <1>3, <1>4, <1>5

\* The flags keep their type in every step.
LEMMA FlagTypes ==
    ASSUME TypeOK, [Next]_vars
    PROVE  /\ running_' \in BOOLEAN /\ nextBuffer_' \in BOOLEAN
           /\ newBuffer1' \in BOOLEAN /\ newBuffer2' \in BOOLEAN
<1> USE DEF TypeOK, frontVars, spareVars
<1>1. CASE Start \/ Stop \/ StopStep
  BY <1>1, Zenon DEF Start, Stop, StopStep, StopNotify, StopJoin
<1>2. CASE AppendLine
  BY <1>2, Zenon DEF AppendLine
<1>9. CASE AppendMore
  BY <1>9, Zenon DEF AppendMore
<1>3. CASE SwapBuffers
  BY <1>3, Zenon DEF SwapBuffers
<1>4. CASE ThreadFunc \/ WhileRunning
  BY <1>4, Zenon DEF ThreadFunc, WhileRunning
<1>5. CASE DropBuffers \/ WriteBuffer \/ Tick
  BY <1>5, Zenon DEF DropBuffers, WriteBuffer, Tick
<1>6. CASE Recycle
  BY <1>6, Zenon DEF Recycle, RefillSpares
<1>7. CASE UNCHANGED vars
  BY <1>7, Zenon DEF vars
<1>8. CASE Lock \/ WaitTimeout
  BY <1>3, <1>8, Zenon DEF Lock, WaitTimeout
<1> QED
  BY <1>1, <1>2, <1>4, <1>5, <1>6, <1>7, <1>8, <1>9, Zenon DEF Next, BackStep

\* The others.
DataOK ==
    /\ now \in Nat
    /\ buffers_ \in Seq(Seq(Nat)) /\ currentBuffer_ \in Seq(Nat)
    /\ buffers_to_write \in Seq(Seq(Nat)) /\ written \in Nat
    /\ file \in LogFiles
    /\ back \in BackPc /\ stop \in StopPc
    /\ lines \in Nat /\ starts \in Nat /\ dropped \in SUBSET (1 .. lines)

LEMMA TypesFrom ==
    ASSUME TypeOK, [Next]_vars, DataOK'
    PROVE  TypeOK'
  BY FlagTypes, Zenon DEF DataOK, TypeOK

LEMMA OwnerSafe ==
    ASSUME TypeOK, RoundInv, SparesReturn,
           Start \/ Stop \/ StopStep \/ AppendMore \/ Tick
    PROVE  DataOK' /\ RoundInv' /\ SparesReturn'
<1> USE DEF frontVars, spareVars, writeVars
<1>0. DataOK
  BY DEF DataOK, TypeOK
<1>1. CASE Start
  <2>1. back = "none" /\ starts + 1 \in Nat
    BY <1>1 DEF Start, RoundInv, TypeOK
  <2>2. DataOK'
    BY <1>0, <1>1, <2>1 DEF Start, DataOK, BackPc
  <2>3. RoundInv'
    BY <1>1, <2>1 DEF Start, RoundInv
  <2>4. SparesReturn'
    BY <1>1, <2>1 DEF Start, SparesReturn
  <2> QED BY <2>2, <2>3, <2>4
<1>2. CASE Stop
  <2>1. DataOK'
    BY <1>0, <1>2 DEF Stop, DataOK, StopPc
  <2>2. RoundInv'
    BY <1>2 DEF Stop, RoundInv
  <2>3. SparesReturn'
    BY <1>2 DEF Stop, SparesReturn
  <2> QED BY <2>1, <2>2, <2>3
<1>3. CASE StopNotify
  <2>1. DataOK'
    BY <1>0, <1>3 DEF StopNotify, Notified, DataOK, StopPc, BackPc
  <2>2. RoundInv'
    BY <1>3 DEF StopNotify, Notified, RoundInv
  <2>3. SparesReturn'
    BY <1>3 DEF StopNotify, Notified, SparesReturn
  <2> QED BY <2>1, <2>2, <2>3
<1>4. CASE StopJoin
  <2>1. DataOK'
    BY <1>0, <1>4 DEF StopJoin, DataOK, StopPc, BackPc
  <2>2. RoundInv'
    BY <1>4 DEF StopJoin, RoundInv
  <2>3. SparesReturn'
    BY <1>4 DEF StopJoin, SparesReturn
  <2> QED BY <2>1, <2>2, <2>3
<1>5. CASE Tick
  <2>1. now + 1 \in Nat
    BY <1>0 DEF DataOK
  <2>2. DataOK'
    BY <1>0, <1>5, <2>1 DEF Tick, DataOK
  <2>3. RoundInv' /\ SparesReturn'
    BY <1>5 DEF Tick, RoundInv, SparesReturn
  <2> QED BY <2>2, <2>3
<1>6. CASE AppendMore
  <2>1. back = "waiting" /\ back' = "lock"
    BY <1>6 DEF AppendMore, Notified
  <2>2. DataOK'
    BY <1>0, <1>6, <2>1 DEF AppendMore, DataOK, BackPc
  <2>3. RoundInv' /\ SparesReturn'
    BY <1>6, <2>1 DEF AppendMore, RoundInv, SparesReturn
  <2> QED BY <2>2, <2>3
<1> QED BY <1>1, <1>2, <1>3, <1>4, <1>5, <1>6 DEF StopStep

LEMMA AppendSafe ==
    ASSUME TypeOK, RoundInv, SparesReturn, AppendLine
    PROVE  DataOK' /\ RoundInv' /\ SparesReturn'
<1> USE DEF frontVars, spareVars, writeVars
<1>0. DataOK
  BY DEF DataOK, TypeOK
<1>1. /\ lines' = lines + 1 /\ lines' \in Nat
      /\ dropped' = dropped /\ dropped' \in SUBSET (1 .. lines')
  BY <1>0 DEF AppendLine, DataOK
<1>2. /\ back' \in {back, Notified} /\ back' \in BackPc
      /\ (back' = "write" <=> back = "write")
      /\ back' \in {"none", "start", "exited"} => back \in {"none", "start", "exited"}
      /\ back' \in {"test", "lock", "waiting"} => back \in {"test", "lock", "waiting"}
      /\ back = "none" => back' = "none"
  BY <1>0 DEF AppendLine, Notified, DataOK, BackPc
<1>3. /\ buffers_' \in Seq(Seq(Nat)) /\ currentBuffer_' \in Seq(Nat)
      /\ (~nextBuffer_') => buffers_' # <<>>
  <2>1. CASE Fits(currentBuffer_)
    <3>1. Append(currentBuffer_, lines') \in Seq(Nat)
      BY <1>0, <1>1 DEF DataOK
    <3>2. /\ currentBuffer_' = Append(currentBuffer_, lines')
          /\ buffers_' = buffers_ /\ nextBuffer_' = nextBuffer_
      BY <2>1 DEF AppendLine
    <3> QED BY <1>0, <3>1, <3>2 DEF DataOK, SparesReturn
  <2>2. CASE ~Fits(currentBuffer_)
    <3>1. /\ Append(buffers_, currentBuffer_) \in Seq(Seq(Nat))
          /\ Append(buffers_, currentBuffer_) # <<>>
      BY <1>0, SMTT(60) DEF DataOK
    <3>3. <<lines'>> \in Seq(Nat)
      <4>1. \A x \in Nat : <<x>> \in Seq(Nat)
        OBVIOUS
      <4> QED BY <1>1, <4>1, Zenon
    <3>2. /\ buffers_' = Append(buffers_, currentBuffer_)
          /\ currentBuffer_' = <<lines'>>
      BY <2>2 DEF AppendLine
    <3> QED BY <3>1, <3>2, <3>3
  <2> QED BY <2>1, <2>2
<1>4. /\ now' = now /\ running_' = running_ /\ newBuffer1' = newBuffer1
      /\ newBuffer2' = newBuffer2 /\ buffers_to_write' = buffers_to_write
      /\ written' = written /\ file' = file /\ stop' = stop /\ starts' = starts
  BY DEF AppendLine
<1>5. DataOK'
  BY <1>0, <1>1, <1>2, <1>3, <1>4 DEF DataOK
<1>6. RoundInv'
  BY <1>2, <1>4 DEF RoundInv
<1>7. SparesReturn'
  BY <1>2, <1>3, <1>4 DEF SparesReturn
<1> QED BY <1>5, <1>6, <1>7

LEMMA BackSafe ==
    ASSUME TypeOK, RoundInv, SparesReturn, BackStep,
           dropped' \in SUBSET (1 .. lines')
    PROVE  DataOK' /\ RoundInv' /\ SparesReturn'
<1> USE DEF frontVars, spareVars, writeVars
<1>0. DataOK
  BY DEF DataOK, TypeOK
<1>1. CASE ThreadFunc
  <2> DEFINE f == OpenLogFile(file.disk, now)
  <2>1. file.disk \in Seq(Nat) /\ now \in Nat
    BY <1>0 DEF DataOK, LogFiles
  <2>2. f \in LogFiles
    BY <2>1, OpenLogFileKeeps
  <2>3. file' = f
    BY <1>1 DEF ThreadFunc
  <2> HIDE DEF f
  <2>4. DataOK'
    BY <1>0, <1>1, <2>2, <2>3 DEF ThreadFunc, DataOK, BackPc
  <2>5. RoundInv'
    BY <1>1 DEF ThreadFunc, RoundInv
  <2>6. SparesReturn'
    BY <1>1 DEF ThreadFunc, SparesReturn
  <2> QED BY <2>4, <2>5, <2>6
<1>2. CASE WhileRunning
  <2>1. file \in LogFiles /\ now \in Nat
    BY <1>0 DEF DataOK
  <2> DEFINE f == Flush(file, now)
             g == CloseFile(f)
  <2>2. f \in LogFiles
    BY <2>1, FlushKeeps
  <2> HIDE DEF f
  <2>3. g \in LogFiles /\ g.ofs = <<>>
    BY <2>2, FlushFileKeeps
  <2> HIDE DEF g
  <2>4. IF running_ THEN back' = "lock" /\ UNCHANGED <<file, spareVars>>
                    ELSE back' = "exited" /\ file' = g
    BY <1>2 DEF WhileRunning, f, g
  <2>5. DataOK'
    BY <1>0, <1>2, <2>3, <2>4 DEF WhileRunning, DataOK, BackPc
  <2>6. RoundInv'
    BY <1>2, <2>3, <2>4 DEF WhileRunning, RoundInv
  <2>7. SparesReturn'
    BY <1>2, <2>4 DEF WhileRunning, SparesReturn
  <2> QED BY <2>5, <2>6, <2>7
<1>3. CASE Lock
  <2>1. CASE buffers_ # <<>>
    <3>1. DataOK'
      BY <1>0, <1>3, <2>1 DEF Lock, DataOK, BackPc
    <3>2. RoundInv' /\ SparesReturn'
      BY <1>3, <2>1 DEF Lock, RoundInv, SparesReturn
    <3> QED BY <3>1, <3>2
  <2>2. CASE ~(buffers_ # <<>>)
    <3>1. SwapBuffers /\ back = "lock"
      BY <1>3, <2>2, Zenon DEF Lock
    <3> QED BY <3>1, SwapSafe DEF DataOK, TypeOK
  <2> QED BY <2>1, <2>2
<1>4. CASE WaitTimeout
  <2>1. SwapBuffers /\ back = "waiting"
    BY <1>4 DEF WaitTimeout
  <2> QED BY <2>1, SwapSafe DEF DataOK, TypeOK
<1>5. CASE DropBuffers
  <2> DEFINE f == AppendUnlocked(file, <<>>, 1, now)
  <2>1. file \in LogFiles /\ now \in Nat /\ <<>> \in Seq(Nat) /\ 1 \in Nat
    BY <1>0 DEF DataOK
  <2>2. f \in LogFiles
    BY <2>1, AppendUnlockedKeeps
  <2>3. file' = f
    BY <1>5 DEF DropBuffers
  <2> HIDE DEF f
  <2>4. /\ Len(buffers_to_write) \in Nat /\ Len(buffers_to_write) > kMaxBuffers
        /\ kMaxBuffers \in Nat /\ kMaxBuffers >= 2
    BY <1>0, <1>5, LoggerAssumption DEF DataOK, DropBuffers
  <2>5. /\ buffers_to_write' \in Seq(Seq(Nat)) /\ Len(buffers_to_write') = 2
        /\ buffers_to_write' # <<>>
    BY <1>0, <1>5, <2>4 DEF DataOK, DropBuffers
  <2>6. dropped' \in SUBSET (1 .. lines')
    OBVIOUS
  <2>7. DataOK'
    BY <1>0, <1>5, <2>2, <2>3, <2>5, <2>6 DEF DropBuffers, DataOK
  <2>8. RoundInv'
    BY <1>0, <1>5, <2>4, <2>5 DEF DropBuffers, RoundInv, DataOK
  <2>9. SparesReturn'
    BY <1>5, <2>5 DEF DropBuffers, SparesReturn
  <2> QED BY <2>7, <2>8, <2>9
<1>6. CASE WriteBuffer
  <2> DEFINE buf == buffers_to_write[written + 1]
             f == AppendUnlocked(file, buf, Len(buf), now)
  <2>1. /\ written \in Nat /\ Len(buffers_to_write) \in Nat
        /\ written < Len(buffers_to_write) /\ written + 1 \in 1 .. Len(buffers_to_write)
        /\ written' = written + 1 /\ Len(buffers_to_write) <= kMaxBuffers
    BY <1>0, <1>6 DEF DataOK, WriteBuffer
  <2>2. buf \in Seq(Nat)
    BY <1>0, <2>1, ElementOfSeq DEF DataOK
  <2>3. file' = f
    BY <1>6 DEF WriteBuffer
  <2> HIDE DEF buf
  <2>4. f \in LogFiles
    <3>1. file \in LogFiles /\ now \in Nat /\ Len(buf) \in Nat
      BY <1>0, <2>2 DEF DataOK
    <3> QED BY <2>2, <3>1, AppendUnlockedKeeps
  <2> HIDE DEF f
  <2>5. DataOK'
    BY <1>0, <1>6, <2>1, <2>3, <2>4 DEF WriteBuffer, DataOK
  <2>6. RoundInv'
    BY <1>6, <2>1 DEF WriteBuffer, RoundInv
  <2>7. SparesReturn'
    BY <1>6 DEF WriteBuffer, SparesReturn
  <2> QED BY <2>5, <2>6, <2>7
<1>7. CASE Recycle
  <2>1. file \in LogFiles /\ now \in Nat
    BY <1>0 DEF DataOK
  <2> DEFINE f == Flush(file, now)
  <2>2. f \in LogFiles
    BY <2>1, FlushKeeps
  <2>3. file' = f
    BY <1>7 DEF Recycle
  <2> HIDE DEF f
  <2>4. DataOK'
    BY <1>0, <1>7, <2>2, <2>3 DEF Recycle, DataOK, BackPc
  <2>5. RoundInv'
    BY <1>7 DEF Recycle, AllWritten, RoundInv
  <2>6. newBuffer1' /\ newBuffer2'
    <3>1. /\ buffers_to_write # <<>>
          /\ newBuffer2 \/ Len(buffers_to_write) >= 2
      BY <1>7 DEF Recycle, AllWritten, SparesReturn
    <3> QED BY <1>7, <3>1, Zenon DEF Recycle, RefillSpares
  <2>7. SparesReturn'
    BY <1>7, <2>6 DEF Recycle, SparesReturn
  <2> QED BY <2>4, <2>5, <2>7
<1> QED BY <1>1, <1>2, <1>3, <1>4, <1>5, <1>6, <1>7 DEF BackStep

-----------------------------------------------------------------------------
(* The lines.                                                              *)

\* The parts of AllLines, in a state of the invariant.
LEMMA Parts ==
    ASSUME TypeOK, RoundInv
    PROVE  /\ file \in LogFiles /\ Pending \in Seq(Seq(Nat))
           /\ buffers_ \in Seq(Seq(Nat)) /\ currentBuffer_ \in Seq(Nat)
           /\ AllLines \in Seq(Nat)
<1>1. Pending \in Seq(Seq(Nat))
  <2>1. \A i \in written + 1 .. Len(buffers_to_write) : buffers_to_write[i] \in Seq(Nat)
    BY ElementOfSeq DEF TypeOK
  <2>2. written + 1 \in Int /\ Len(buffers_to_write) \in Int
    BY DEF TypeOK
  <2> QED BY <2>1, <2>2, SubSeqProperties DEF Pending
<1>2. /\ file \in LogFiles /\ buffers_ \in Seq(Seq(Nat))
      /\ currentBuffer_ \in Seq(Nat)
  BY DEF TypeOK
<1> QED BY <1>1, <1>2, JoinedParts, AllLinesJoined

LEMMA SameLines ==
    ASSUME LinesInOrder, AllLines' = AllLines, lines' = lines, dropped' = dropped
    PROVE  LinesInOrder'
  BY DEF LinesInOrder

\* The file may change as long as what is on it does not.
LEMMA SameOnFile ==
    ASSUME OnFile(file') = OnFile(file), Pending' = Pending, UNCHANGED frontVars
    PROVE  AllLines' = AllLines
<1>1. AllLines' = Joined(file', Pending', buffers_', currentBuffer_')
  BY AllLinesJoined
<1>2. buffers_' = buffers_ /\ currentBuffer_' = currentBuffer_
  BY DEF frontVars
<1> QED BY <1>1, <1>2, AllLinesJoined, Zenon DEF Joined

LEMMA AppendInOrder ==
    ASSUME IInv, AppendLine
    PROVE  LinesInOrder'
<1> USE DEF writeVars
<1>0. AllLines' = Joined(file', Pending', buffers_', currentBuffer_')
  BY AllLinesJoined
<1>1. PICK x : x = lines + 1
  OBVIOUS
<1>2. lines \in Nat /\ x \in Nat /\ lines' = x /\ dropped' = dropped /\ file' = file
  BY <1>1 DEF IInv, TypeOK, AppendLine
<1>3. Pending' = Pending
  BY DEF AppendLine, Pending
<1>4. /\ file \in LogFiles /\ Pending \in Seq(Seq(Nat))
      /\ buffers_ \in Seq(Seq(Nat)) /\ currentBuffer_ \in Seq(Nat)
      /\ AllLines \in Seq(Nat)
  BY Parts DEF IInv
<1>5. AllLines' = AllLines \o <<x>>
  <2>1. CASE Fits(currentBuffer_)
    <3>1. currentBuffer_' = Append(currentBuffer_, x) /\ buffers_' = buffers_
      BY <1>2, <2>1 DEF AppendLine
    <3>2. AllLines' = Joined(file, Pending, buffers_, Append(currentBuffer_, x))
      BY <1>0, <1>2, <1>3, <3>1, Zenon
    <3> QED BY <1>2, <1>4, <3>2, JoinedAppend, AllLinesJoined, ZenonT(60)
  <2>2. CASE ~Fits(currentBuffer_)
    <3>1. /\ currentBuffer_' = <<x>>
          /\ buffers_' = Append(buffers_, currentBuffer_)
      BY <1>2, <2>2 DEF AppendLine
    <3>2. AllLines' = Joined(file, Pending, Append(buffers_, currentBuffer_), <<x>>)
      BY <1>0, <1>2, <1>3, <3>1, Zenon
    <3> QED BY <1>2, <1>4, <3>2, JoinedAppend, AllLinesJoined, ZenonT(60)
  <2> QED BY <2>1, <2>2
<1>6. PICK s : s = AllLines
  OBVIOUS
<1>7. s \in Seq(Nat) /\ Increasing(s) /\ LinesOf(s) = (1 .. lines) \ dropped
  BY <1>4, <1>6 DEF IInv, LinesInOrder, Increasing
<1>8. \A y \in LinesOf(s) : y < x
  BY <1>1, <1>2, <1>7
<1>9. Increasing(s \o <<x>>) /\ LinesOf(s \o <<x>>) = LinesOf(s) \cup {x}
  BY <1>2, <1>7, <1>8, AddLine
<1>10. ((1 .. lines) \ dropped) \cup {x} = (1 .. x) \ dropped
  BY <1>1, <1>2 DEF IInv, TypeOK
<1>11. AllLines' = s \o <<x>>
  BY <1>5, <1>6
<1>12. Increasing(AllLines') /\ LinesOf(AllLines') = (1 .. lines') \ dropped'
  BY <1>2, <1>7, <1>9, <1>10, <1>11, Zenon
<1> QED BY <1>12 DEF LinesInOrder, Increasing

LEMMA SwapInOrder ==
    ASSUME IInv, SwapBuffers, back \in {"lock", "waiting"}
    PROVE  LinesInOrder'
<1>1. AllLines' = Joined(file', Pending', buffers_', currentBuffer_')
  BY AllLinesJoined
<1>2. /\ file' = file /\ buffers_' = <<>> /\ currentBuffer_' = <<>>
      /\ lines' = lines /\ dropped' = dropped
  BY DEF SwapBuffers
<1>3. /\ file \in LogFiles /\ buffers_ \in Seq(Seq(Nat))
      /\ currentBuffer_ \in Seq(Nat)
  BY DEF IInv, TypeOK
<1>4. Pending = <<>>
  BY DEF IInv, RoundInv, TypeOK, Pending
<1>5. Pending' = Append(buffers_, currentBuffer_)
  <2>1. PICK b : b = Append(buffers_, currentBuffer_)
    OBVIOUS
  <2>2. b \in Seq(Seq(Nat)) /\ buffers_to_write' = b /\ written' = 0
    BY <1>3, <2>1 DEF SwapBuffers
  <2>3. SubSeq(b, 1, Len(b)) = b
    BY <2>2, SubSeqFull
  <2>4. Pending' = SubSeq(b, 0 + 1, Len(b))
    BY <2>2 DEF Pending
  <2> QED BY <2>1, <2>3, <2>4
<1>6. AllLines' = Joined(file, Append(buffers_, currentBuffer_), <<>>, <<>>)
  BY <1>1, <1>2, <1>5, Zenon
<1>7. AllLines = Joined(file, <<>>, buffers_, currentBuffer_)
  BY <1>4, AllLinesJoined, Zenon
<1>8. AllLines' = AllLines
  BY <1>3, <1>6, <1>7, JoinedSwap
<1> QED BY <1>2, <1>8, SameLines DEF IInv

LEMMA DropInOrder ==
    ASSUME IInv, DropBuffers
    PROVE  LinesInOrder' /\ dropped' \in SUBSET (1 .. lines')
<1> USE DEF frontVars, spareVars
<1>1. PICK w : w = buffers_to_write
  OBVIOUS
<1>2. PICK w1, w2 : w1 = SubSeq(w, 1, 2) /\ w2 = SubSeq(w, 3, Len(w))
  OBVIOUS
<1>3. w \in Seq(Seq(Nat)) /\ Len(w) \in Nat /\ Len(w) > 2 /\ written = 0
  BY <1>1, LoggerAssumption DEF IInv, TypeOK, RoundInv, DropBuffers
<1>4. /\ w1 \in Seq(Seq(Nat)) /\ w2 \in Seq(Seq(Nat))
  BY <1>2, <1>3
<1>5. w = w1 \o w2
  <2>1. 1 \in 1 .. Len(w) + 1 /\ 2 \in 1 - 1 .. Len(w) /\ Len(w) \in 2 .. Len(w)
    BY <1>3
  <2>2. SubSeq(w, 1, 2) \o SubSeq(w, 2 + 1, Len(w)) = SubSeq(w, 1, Len(w))
    BY <1>3, <2>1, ConcatAdjacentSubSeq
  <2>3. SubSeq(w, 1, Len(w)) = w
    BY <1>3, SubSeqFull
  <2> QED BY <1>2, <2>2, <2>3
<1>6. Pending = w1 \o w2
  <2>1. SubSeq(w, 1, Len(w)) = w
    BY <1>3, SubSeqFull
  <2>2. Pending = SubSeq(w, 0 + 1, Len(w))
    BY <1>1, <1>3 DEF Pending
  <2> QED BY <1>5, <2>1, <2>2
<1>7. Pending' = w1
  <2>1. buffers_to_write' = w1 /\ written' = 0
    BY <1>1, <1>2, <1>3 DEF DropBuffers
  <2>2. SubSeq(w1, 1, Len(w1)) = w1
    BY <1>4, SubSeqFull
  <2>3. Pending' = SubSeq(w1, 0 + 1, Len(w1))
    BY <2>1 DEF Pending
  <2> QED BY <2>2, <2>3
<1>8. /\ buffers_' = buffers_ /\ currentBuffer_' = currentBuffer_ /\ lines' = lines
      /\ file' = AppendUnlocked(file, <<>>, 1, now)
      /\ dropped' = dropped \cup LinesOf(Flatten(w2))
  BY <1>1, <1>2 DEF DropBuffers
<1>9. /\ file \in LogFiles /\ now \in Nat /\ <<>> \in Seq(Nat) /\ 1 \in Nat
      /\ buffers_ \in Seq(Seq(Nat)) /\ currentBuffer_ \in Seq(Nat)
      /\ lines \in Nat /\ dropped \in SUBSET (1 .. lines)
  BY DEF IInv, TypeOK
<1>10. file' \in LogFiles /\ OnFile(file') = OnFile(file)
  <2>1. /\ file' \in LogFiles /\ OnFile(file') = OnFile(file) \o <<>>
    BY <1>8, <1>9, AppendUnlockedKeeps, Zenon
  <2>2. OnFile(file) \in Seq(Nat)
    BY <1>9, JoinedParts, <1>4
  <2> QED BY <2>1, <2>2, Cat, Zenon
<1>11. PICK a, m, b : /\ a = OnFile(file) \o Flatten(w1) /\ m = Flatten(w2)
                      /\ b = Flatten(buffers_) \o currentBuffer_
  OBVIOUS
<1>12. /\ OnFile(file) \in Seq(Nat) /\ Flatten(w1) \in Seq(Nat)
       /\ m \in Seq(Nat) /\ Flatten(buffers_) \in Seq(Nat)
  BY <1>4, <1>9, <1>11, JoinedParts
<1>13. a \in Seq(Nat) /\ b \in Seq(Nat)
  BY <1>9, <1>11, <1>12, Cat, Zenon
<1>14. AllLines' = a \o b
  <2>1. AllLines' = Joined(file', w1, buffers_, currentBuffer_)
    BY <1>7, <1>8, AllLinesJoined, Zenon
  <2>2. Joined(file', w1, buffers_, currentBuffer_)
          = (OnFile(file') \o Flatten(w1)) \o (Flatten(buffers_) \o currentBuffer_)
    BY <1>4, <1>9, <1>10, JoinedParts, ZenonT(60)
  <2> QED BY <1>10, <1>11, <2>1, <2>2, Zenon
<1>15. AllLines = a \o (m \o b)
  <2>1. AllLines = Joined(file, w1 \o w2, buffers_, currentBuffer_)
    BY <1>6, AllLinesJoined, Zenon
  <2>2. w1 \o w2 \in Seq(Seq(Nat))
    BY <1>3, <1>5
  <2>3. Joined(file, w1 \o w2, buffers_, currentBuffer_)
          = (OnFile(file) \o Flatten(w1 \o w2)) \o b
    BY <1>9, <1>11, <2>2, JoinedParts, Zenon
  <2>4. Flatten(w1 \o w2) = Flatten(w1) \o m
    BY <1>4, <1>11, FlattenCat
  <2>5. OnFile(file) \o (Flatten(w1) \o m) = a \o m
    BY <1>11, <1>12, Cat, ZenonT(60)
  <2>6. (a \o m) \o b = a \o (m \o b)
    <3>1. m \in Seq(Nat)
      BY <1>12
    <3> QED BY <1>13, <3>1, Cat
  <2> QED BY <2>1, <2>3, <2>4, <2>5, <2>6, Zenon
<1>16. /\ Increasing(a \o (m \o b))
       /\ LinesOf(a \o (m \o b)) = (1 .. lines) \ dropped
  BY <1>15, Zenon DEF IInv, LinesInOrder, Increasing
<1>17. /\ Increasing(a \o b)
       /\ LinesOf(a \o b) = LinesOf(a \o (m \o b)) \ LinesOf(m)
  BY <1>12, <1>13, <1>16, CutLines
<1>18. LinesOf(m) \subseteq 1 .. lines
  <2>1. m \o b \in Seq(Nat)
    BY <1>12, <1>13, Cat, Zenon
  <2>2. LinesOf(a \o (m \o b)) = LinesOf(a) \cup LinesOf(m \o b)
    BY <1>13, <2>1, LinesOfCat, Zenon
  <2>3. LinesOf(m \o b) = LinesOf(m) \cup LinesOf(b)
    BY <1>12, <1>13, LinesOfCat, Zenon
  <2> QED BY <1>16, <2>2, <2>3, Zenon
<1>19. dropped' = dropped \cup LinesOf(m)
  BY <1>8, <1>11
<1>20. LinesOf(AllLines') = (1 .. lines') \ dropped' /\ Increasing(AllLines')
  BY <1>8, <1>14, <1>16, <1>17, <1>19, Zenon
<1>21. dropped' \in SUBSET (1 .. lines')
  BY <1>8, <1>9, <1>18, <1>19, Zenon
<1>22. LinesInOrder'
  BY <1>20 DEF LinesInOrder, Increasing
<1> QED BY <1>21, <1>22

LEMMA WriteInOrder ==
    ASSUME IInv, WriteBuffer
    PROVE  LinesInOrder'
<1> USE DEF frontVars, spareVars
<1>1. PICK w : w = buffers_to_write
  OBVIOUS
<1>2. PICK k : k = written + 1
  OBVIOUS
<1>3. /\ w \in Seq(Seq(Nat)) /\ Len(w) \in Nat /\ k \in 1 .. Len(w)
      /\ buffers_to_write' = w /\ written' + 1 = k + 1
  BY <1>1, <1>2 DEF IInv, TypeOK, WriteBuffer
<1>4. PICK buf, rest : buf = w[k] /\ rest = SubSeq(w, k + 1, Len(w))
  OBVIOUS
<1>5. buf \in Seq(Nat)
  BY <1>3, <1>4, ElementOfSeq
<1>6. rest \in Seq(Seq(Nat))
  <2>1. \A i \in k + 1 .. Len(w) : w[i] \in Seq(Nat)
    BY <1>3, ElementOfSeq
  <2> QED BY <1>3, <1>4, <2>1, SubSeqProperties
<1>7. Pending = <<buf>> \o rest
  <2>1. Len(w) \in k .. Len(w)
    BY <1>3
  <2>2. SubSeq(w, k, Len(w)) = <<w[k]>> \o SubSeq(w, k + 1, Len(w))
    BY <1>3, <2>1, SubSeqRecursiveFirst
  <2> QED BY <1>1, <1>2, <1>4, <2>2 DEF Pending
<1>8. Pending' = rest
  BY <1>3, <1>4 DEF Pending
<1>9. /\ buffers_' = buffers_ /\ currentBuffer_' = currentBuffer_
      /\ lines' = lines /\ dropped' = dropped
      /\ file' = AppendUnlocked(file, buf, Len(buf), now)
  BY <1>1, <1>2, <1>4 DEF WriteBuffer
<1>10. /\ file \in LogFiles /\ now \in Nat /\ Len(buf) \in Nat
       /\ buffers_ \in Seq(Seq(Nat)) /\ currentBuffer_ \in Seq(Nat)
  BY <1>5 DEF IInv, TypeOK
<1>11. file' \in LogFiles /\ OnFile(file') = OnFile(file) \o buf
  BY <1>5, <1>9, <1>10, AppendUnlockedKeeps, Zenon
<1>12. AllLines' = Joined(file', rest, buffers_, currentBuffer_)
  BY <1>8, <1>9, AllLinesJoined, Zenon
<1>13. AllLines = Joined(file, Pending, buffers_, currentBuffer_)
  BY AllLinesJoined
<1>14. Joined(file', rest, buffers_, currentBuffer_)
         = Joined(file, Pending, buffers_, currentBuffer_)
  <2>1. OnFile(file) \in Seq(Nat)
    BY <1>6, <1>10, JoinedParts
  <2>2. (OnFile(file) \o buf) \o Flatten(rest) = OnFile(file) \o Flatten(<<buf>> \o rest)
    BY <1>5, <1>6, <2>1, WriteMoves
  <2>3. OnFile(file') \o Flatten(rest) = OnFile(file) \o Flatten(Pending)
    BY <1>7, <1>11, <2>2, Zenon
  <2> QED BY <2>3, Zenon DEF Joined
<1> QED BY <1>9, <1>12, <1>13, <1>14, SameLines DEF IInv

\* ThreadFunc starts with a file from which nothing is missing.
LEMMA FileInOrder ==
    ASSUME IInv, ThreadFunc \/ WhileRunning \/ Recycle
    PROVE  LinesInOrder'
<1>1. file \in LogFiles /\ now \in Nat /\ file.disk \in Seq(Nat)
  BY DEF IInv, TypeOK, LogFiles
<1>2. OnFile(file') = OnFile(file)
  <2>1. CASE ThreadFunc
    <3>1. file' = OpenLogFile(file.disk, now) /\ file.ofs = <<>>
      BY <2>1 DEF ThreadFunc, IInv, RoundInv
    <3>2. OnFile(file) = file.disk
      BY <1>1, <3>1, EmptyStream
    <3> QED BY <1>1, <3>1, <3>2, OpenLogFileKeeps, Zenon
  <2>2. CASE WhileRunning
    <3>1. PICK f : f = Flush(file, now)
      OBVIOUS
    <3>2. f \in LogFiles /\ OnFile(f) = OnFile(file)
      BY <1>1, <3>1, FlushKeeps
    <3>3. PICK g : g = CloseFile(f)
      OBVIOUS
    <3>4. g \in LogFiles /\ OnFile(g) = OnFile(file)
      BY <3>2, <3>3, FlushFileKeeps, EmptyStream
    <3>5. file' = file \/ file' = g
      BY <2>2, <3>1, <3>3 DEF WhileRunning
    <3> QED BY <3>4, <3>5
  <2>3. CASE Recycle
    <3>1. file' = Flush(file, now)
      BY <2>3 DEF Recycle
    <3> QED BY <1>1, <3>1, FlushKeeps, Zenon
  <2> QED BY <2>1, <2>2, <2>3
<1>3. Pending' = Pending
  <2>1. Pending = <<>>
    BY DEF Pending, IInv, RoundInv, TypeOK, ThreadFunc, WhileRunning, Recycle, AllWritten
  <2>2. Pending' = <<>>
    BY DEF Pending, IInv, RoundInv, TypeOK, ThreadFunc, WhileRunning, Recycle
  <2> QED BY <2>1, <2>2
<1>4. UNCHANGED frontVars /\ lines' = lines /\ dropped' = dropped
  BY DEF ThreadFunc, WhileRunning, Recycle
<1>5. AllLines' = AllLines
  BY <1>2, <1>3, <1>4, SameOnFile
<1> QED BY <1>4, <1>5, SameLines DEF IInv

LEMMA NextKeeps ==
    ASSUME IInv, [Next]_vars
    PROVE  IInv'
<1>0. TypeOK /\ RoundInv /\ SparesReturn /\ LinesInOrder
  BY DEF IInv
<1>1. CASE Start \/ Stop \/ StopStep \/ AppendMore \/ Tick
  <2>1. TypeOK' /\ RoundInv' /\ SparesReturn'
    BY <1>0, <1>1, OwnerSafe, TypesFrom
  <2>2. UNCHANGED <<frontVars, writeVars, lines>>
    BY <1>1 DEF Start, Stop, StopStep, StopNotify, StopJoin, AppendMore, Tick
  <2>3. Pending' = Pending /\ file' = file /\ UNCHANGED frontVars
        /\ lines' = lines /\ dropped' = dropped
    BY <2>2 DEF Pending, writeVars
  <2>4. AllLines' = AllLines
    BY <2>3, SameOnFile
  <2> QED BY <1>0, <2>1, <2>3, <2>4, SameLines DEF IInv
<1>2. CASE AppendLine
  BY <1>0, <1>2, AppendSafe, TypesFrom, AppendInOrder DEF IInv
<1>3. CASE BackStep
  <2>1. LinesInOrder' /\ dropped' \in SUBSET (1 .. lines')
    <3>1. CASE DropBuffers
      BY <3>1, DropInOrder
    <3>2. CASE ~DropBuffers
      <4>1. dropped' = dropped /\ lines' = lines
        BY <1>3, <3>2 DEF BackStep, ThreadFunc, WhileRunning, Lock, WaitTimeout,
             SwapBuffers, WriteBuffer, Recycle, frontVars, writeVars
      <4>2. dropped' \in SUBSET (1 .. lines')
        BY <1>0, <4>1 DEF TypeOK
      <4>3. CASE Lock
        <5>1. CASE buffers_ # <<>>
          <6>1. UNCHANGED <<frontVars, writeVars>>
            BY <4>3, <5>1 DEF Lock
          <6>2. Pending' = Pending /\ file' = file /\ UNCHANGED frontVars
            BY <6>1 DEF Pending, writeVars
          <6> QED BY <1>0, <4>1, <4>2, <6>2, SameOnFile, SameLines
        <5>2. CASE ~(buffers_ # <<>>)
          <6>1. SwapBuffers /\ back \in {"lock", "waiting"}
            BY <4>3, <5>2, Zenon DEF Lock
          <6> QED BY <4>2, <6>1, SwapInOrder
        <5> QED BY <5>1, <5>2
      <4>4. CASE WaitTimeout
        BY <4>2, <4>4, SwapInOrder DEF WaitTimeout
      <4>5. CASE WriteBuffer
        BY <4>2, <4>5, WriteInOrder
      <4>6. CASE ThreadFunc \/ WhileRunning \/ Recycle
        BY <4>2, <4>6, FileInOrder
      <4> QED BY <1>3, <3>2, <4>3, <4>4, <4>5, <4>6 DEF BackStep
    <3> QED BY <3>1, <3>2
  <2>2. TypeOK' /\ RoundInv' /\ SparesReturn'
    BY <1>0, <1>3, <2>1, BackSafe, TypesFrom
  <2> QED BY <2>1, <2>2 DEF IInv
<1>4. CASE UNCHANGED vars
  <2>1. LinesInOrder'
    <3>1. Pending' = Pending /\ file' = file /\ UNCHANGED frontVars
          /\ lines' = lines /\ dropped' = dropped
      BY <1>4 DEF vars, Pending, writeVars
    <3> QED BY <1>0, <3>1, SameOnFile, SameLines
  <2>2. DataOK'
    BY <1>0, <1>4 DEF vars, frontVars, spareVars, writeVars, TypeOK, DataOK
  <2>3. RoundInv' /\ SparesReturn'
    BY <1>0, <1>4 DEF vars, frontVars, spareVars, writeVars, RoundInv, SparesReturn
  <2> QED BY <1>0, <2>1, <2>2, <2>3, TypesFrom DEF IInv
<1> QED BY <1>1, <1>2, <1>3, <1>4 DEF Next

LEMMA Inductive == Spec => []IInv
<1>1. IInv /\ [Next]_vars => IInv'
  BY NextKeeps
<1> QED BY <1>1, InitHolds, PTL DEF Spec

\* No line that was appended is lost, doubled or overtaken by another: what
\* is on the disk, in the stream, among the buffers being written, the full
\* ones and the current one is, in this order, all of 1 .. lines without those
\* given up when there were more than kMaxBuffers buffers.  This holds for
\* every size of buffer, roll size, flush interval and number of restarts.
THEOREM NoLineLost == Spec => []LinesInOrder
<1>1. IInv => LinesInOrder
  BY DEF IInv
<1> QED BY <1>1, Inductive, PTL

\* The four asserts of ThreadFunc hold: the back-end thread has both spare
\* buffers when it starts a round, and has written enough buffers to replace
\* those it gave away.
THEOREM SparesComeBack == Spec => []SparesReturn
<1>1. IInv => SparesReturn
  BY DEF IInv
<1> QED BY <1>1, Inductive, PTL

=============================================================================
