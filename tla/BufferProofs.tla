---------------------------- MODULE BufferProofs ----------------------------
(***************************************************************************)
(* What the functions of Buffer do to the bytes a reader finds, for every  *)
(* content and every size of the vector: appending adds them at the end,   *)
(* prepending at the front, retrieving takes them from the front, and      *)
(* making room, by growing or by moving, changes nothing.                  *)
(***************************************************************************)
EXTENDS Buffer, SequenceTheorems, TLAPS

Fields(S) == [buffer_ : Seq(S), readerIndex_ : Nat, writerIndex_ : Nat]

\* A buffer of elements of S, with the indices in order.  The vector never
\* shrinks below what RetrieveAll goes back to.
IsBuffer(b, S) ==
    /\ b \in Fields(S)
    /\ b.readerIndex_ <= b.writerIndex_ /\ b.writerIndex_ <= Len(b.buffer_)
    /\ kCheapPrepend <= Len(b.buffer_)

\* A sequence is its length and its elements.
LEMMA FunctionIsSeq ==
    ASSUME NEW S, NEW s, NEW n \in Nat, s \in [1 .. n -> S]
    PROVE  s \in Seq(S) /\ Len(s) = n /\ DOMAIN s = 1 .. n
  OBVIOUS

\* The elements of a part of a vector.
LEMMA Part ==
    ASSUME NEW S, NEW v \in Seq(S), NEW m \in Nat, NEW n \in Nat, m <= n, n <= Len(v)
    PROVE  /\ SubSeq(v, m + 1, n) \in Seq(S) /\ Len(SubSeq(v, m + 1, n)) = n - m
           /\ \A i \in 1 .. n - m : SubSeq(v, m + 1, n)[i] = v[m + i]
<1>1. SubSeq(v, m + 1, n) = [i \in 1 .. n - m |-> v[m + i]]
  OBVIOUS
<1>2. \A i \in 1 .. n - m : v[m + i] \in S
  BY ElementOfSeq
<1> DEFINE s == [i \in 1 .. n - m |-> v[m + i]]
<1>3. n - m \in Nat /\ s \in [1 .. n - m -> S]
  BY <1>2
<1>4. s \in Seq(S) /\ Len(s) = n - m
  BY <1>3, FunctionIsSeq
<1> QED BY <1>1, <1>4

\* The elements of a concatenation.
LEMMA Joined ==
    ASSUME NEW S, NEW s \in Seq(S), NEW t \in Seq(S)
    PROVE  /\ s \o t \in Seq(S) /\ Len(s \o t) = Len(s) + Len(t)
           /\ Len(s) \in Nat /\ Len(t) \in Nat
           /\ \A i \in 1 .. Len(s) : (s \o t)[i] = s[i]
           /\ \A i \in 1 .. Len(t) : (s \o t)[Len(s) + i] = t[i]
<1>1. Len(s) \in Nat /\ Len(t) \in Nat
  BY LenProperties
<1>2. /\ s \o t \in Seq(S) /\ Len(s \o t) = Len(s) + Len(t)
      /\ \A i \in 1 .. Len(s) + Len(t) :
            (s \o t)[i] = IF i <= Len(s) THEN s[i] ELSE t[i - Len(s)]
  BY ConcatProperties
<1>3. \A i \in 1 .. Len(s) : (s \o t)[i] = s[i]
  BY <1>1, <1>2
<1>4. ASSUME NEW i \in 1 .. Len(t) PROVE (s \o t)[Len(s) + i] = t[i]
  <2>1. Len(s) + i \in 1 .. Len(s) + Len(t) /\ ~(Len(s) + i <= Len(s))
        /\ (Len(s) + i) - Len(s) = i
    BY <1>1
  <2> QED BY <1>2, <2>1
<1> QED BY <1>1, <1>2, <1>3, <1>4

\* Two sequences with the same length and elements are the same; the second
\* one given as a concatenation.
LEMMA SameAsJoined ==
    ASSUME NEW S, NEW r \in Seq(S), NEW s \in Seq(S), NEW t \in Seq(S),
           Len(r) = Len(s) + Len(t),
           \A i \in 1 .. Len(s) : r[i] = s[i],
           \A i \in 1 .. Len(t) : r[Len(s) + i] = t[i]
    PROVE  r = s \o t
<1>1. Len(s) \in Nat /\ Len(t) \in Nat
  BY LenProperties
<1>2. s \o t \in Seq(S) /\ Len(s \o t) = Len(r)
  BY Joined
<1>3. ASSUME NEW i \in 1 .. Len(r) PROVE r[i] = (s \o t)[i]
  <2>1. CASE i <= Len(s)
    BY <1>1, <2>1, Joined
  <2>2. CASE ~(i <= Len(s))
    <3>1. i - Len(s) \in 1 .. Len(t) /\ Len(s) + (i - Len(s)) = i
      BY <1>1, <2>2
    <3>2. (s \o t)[Len(s) + (i - Len(s))] = t[i - Len(s)]
      BY <3>1, Joined
    <3>3. r[Len(s) + (i - Len(s))] = t[i - Len(s)]
      BY <3>1
    <3> QED BY <3>1, <3>2, <3>3
  <2> QED BY <2>1, <2>2
<1> QED BY <1>2, <1>3, SeqEqual

-----------------------------------------------------------------------------
\* The types of a buffer's parts, and what a reader finds.
LEMMA BufferFacts ==
    ASSUME NEW S, NEW b, IsBuffer(b, S)
    PROVE  /\ b.buffer_ \in Seq(S) /\ Len(b.buffer_) \in Nat
           /\ DOMAIN b.buffer_ = 1 .. Len(b.buffer_)
           /\ b.readerIndex_ \in Nat /\ b.writerIndex_ \in Nat
           /\ ReadableBytes(b) \in Nat /\ WriteableBytes(b) \in Nat
           /\ Content(b) \in Seq(S) /\ Len(Content(b)) = ReadableBytes(b)
           /\ \A i \in 1 .. ReadableBytes(b) :
                 Content(b)[i] = b.buffer_[b.readerIndex_ + i]
<1>1. b.buffer_ \in Seq(S) /\ b.readerIndex_ \in Nat /\ b.writerIndex_ \in Nat
  BY DEF IsBuffer, Fields
<1>2. Len(b.buffer_) \in Nat /\ DOMAIN b.buffer_ = 1 .. Len(b.buffer_)
  BY <1>1, LenProperties
<1>3. b.readerIndex_ <= b.writerIndex_ /\ b.writerIndex_ <= Len(b.buffer_)
  BY DEF IsBuffer
<1>4. ReadableBytes(b) \in Nat /\ WriteableBytes(b) \in Nat
  BY <1>1, <1>2, <1>3 DEF ReadableBytes, WriteableBytes
<1>5. /\ Content(b) \in Seq(S) /\ Len(Content(b)) = ReadableBytes(b)
      /\ \A i \in 1 .. ReadableBytes(b) : Content(b)[i] = b.buffer_[b.readerIndex_ + i]
  BY <1>1, <1>3, Part, SMTT(60) DEF Content, ReadableBytes
<1> QED BY <1>1, <1>2, <1>4, <1>5

\* std::copy into the vector changes the bytes it covers and no others.
LEMMA Copied ==
    ASSUME NEW S, NEW v \in Seq(S), NEW bytes \in Seq(S), NEW at \in Nat,
           at + Len(bytes) <= Len(v)
    PROVE  /\ CopyTo(v, at, bytes) \in Seq(S) /\ Len(CopyTo(v, at, bytes)) = Len(v)
           /\ \A i \in 1 .. Len(bytes) : CopyTo(v, at, bytes)[at + i] = bytes[i]
           /\ \A i \in 1 .. Len(v) : i <= at \/ i > at + Len(bytes) =>
                 CopyTo(v, at, bytes)[i] = v[i]
<1>1. /\ Len(v) \in Nat /\ DOMAIN v = 1 .. Len(v)
      /\ Len(bytes) \in Nat /\ DOMAIN bytes = 1 .. Len(bytes)
  BY LenProperties
<1>2. /\ \A i \in 1 .. Len(v) : v[i] \in S
      /\ \A i \in 1 .. Len(bytes) : bytes[i] \in S
  BY ElementOfSeq
<1> DEFINE c == CopyTo(v, at, bytes)
<1>3. c = [i \in 1 .. Len(v) |-> IF i - at \in 1 .. Len(bytes) THEN bytes[i - at] ELSE v[i]]
  BY <1>1 DEF CopyTo
<1> HIDE DEF c
<1>4. c \in [1 .. Len(v) -> S]
  BY <1>2, <1>3
<1>5. c \in Seq(S) /\ Len(c) = Len(v)
  BY <1>1, <1>4, FunctionIsSeq
<1>6. ASSUME NEW i \in 1 .. Len(bytes) PROVE c[at + i] = bytes[i]
  <2>1. at + i \in 1 .. Len(v) /\ (at + i) - at = i
    BY <1>1
  <2> QED BY <1>3, <2>1
<1>7. ASSUME NEW i \in 1 .. Len(v), i <= at \/ i > at + Len(bytes)
      PROVE  c[i] = v[i]
  <2>1. i - at \notin 1 .. Len(bytes)
    BY <1>1, <1>7
  <2> QED BY <1>3, <2>1
<1> QED BY <1>5, <1>6, <1>7 DEF c

\* A new buffer is empty.
LEMMA NewBufferEmpty ==
    ASSUME NEW S, Nul \in S
    PROVE  IsBuffer(NewBuffer, S) /\ Content(NewBuffer) = <<>>
<1> DEFINE n == kCheapPrepend + kInitialSize
<1>1. n \in Nat /\ Filled(n) \in [1 .. n -> S]
  BY BufferAssumption DEF Filled
<1> HIDE DEF n
<1>2. Filled(n) \in Seq(S) /\ Len(Filled(n)) = n
  BY <1>1, FunctionIsSeq
<1>3. IsBuffer(NewBuffer, S)
  BY <1>1, <1>2, BufferAssumption DEF NewBuffer, IsBuffer, Fields, n
<1>4. ReadableBytes(NewBuffer) = 0
  BY BufferAssumption DEF ReadableBytes, NewBuffer
<1>5. Content(NewBuffer) \in Seq(S) /\ Len(Content(NewBuffer)) = 0
  BY <1>3, <1>4, BufferFacts
<1> QED BY <1>3, <1>5, EmptySeq

\* Bytes written into the room behind the content come after it.
LEMMA WrittenAppends ==
    ASSUME NEW S, NEW b, IsBuffer(b, S), NEW bytes \in Seq(S),
           Len(bytes) <= WriteableBytes(b)
    PROVE  /\ IsBuffer(Written(b, bytes), S)
           /\ Content(Written(b, bytes)) = Content(b) \o bytes
<1> DEFINE r == b.readerIndex_
           w == b.writerIndex_
           v == CopyTo(b.buffer_, w, bytes)
           c == Written(b, bytes)
<1>1. Len(bytes) \in Nat
  BY LenProperties
<1>2. /\ b.buffer_ \in Seq(S) /\ Len(b.buffer_) \in Nat /\ r \in Nat /\ w \in Nat
      /\ r <= w /\ w + Len(bytes) <= Len(b.buffer_) /\ kCheapPrepend <= Len(b.buffer_)
  BY <1>1, BufferFacts DEF IsBuffer, WriteableBytes
<1>3. /\ v \in Seq(S) /\ Len(v) = Len(b.buffer_)
      /\ \A i \in 1 .. Len(bytes) : v[w + i] = bytes[i]
      /\ \A i \in 1 .. Len(v) : i <= w => v[i] = b.buffer_[i]
  BY <1>2, Copied
<1> HIDE DEF v
<1>4. /\ c \in Fields(S) /\ c.buffer_ = v
      /\ c.readerIndex_ = r /\ c.writerIndex_ = w + Len(bytes)
  <2>1. c = [b EXCEPT !.buffer_ = v, !.writerIndex_ = w + Len(bytes)]
    BY DEF Written, v
  <2>2. b \in Fields(S) /\ w + Len(bytes) \in Nat
    BY <1>1, <1>2 DEF IsBuffer
  <2> HIDE DEF c
  <2> QED BY <1>3, <2>1, <2>2 DEF Fields
<1> HIDE DEF c
<1>5. IsBuffer(c, S)
  BY <1>4, <1>1, <1>2, <1>3 DEF IsBuffer
<1>6. ReadableBytes(b) = w - r /\ ReadableBytes(c) = (w - r) + Len(bytes)
  BY <1>4, <1>1, <1>2 DEF ReadableBytes
<1>7. /\ Content(c) \in Seq(S) /\ Len(Content(c)) = (w - r) + Len(bytes)
      /\ \A i \in 1 .. (w - r) + Len(bytes) : Content(c)[i] = v[r + i]
  BY <1>4, <1>5, <1>6, BufferFacts
<1>8. /\ Content(b) \in Seq(S) /\ Len(Content(b)) = w - r
      /\ \A i \in 1 .. w - r : Content(b)[i] = b.buffer_[r + i]
  BY <1>6, BufferFacts
<1>9. ASSUME NEW i \in 1 .. Len(Content(b)) PROVE Content(c)[i] = Content(b)[i]
  <2>1. /\ i \in 1 .. w - r /\ i \in 1 .. (w - r) + Len(bytes)
        /\ r + i \in 1 .. Len(v) /\ r + i <= w
    BY <1>1, <1>2, <1>3, <1>8
  <2> QED BY <1>3, <1>7, <1>8, <2>1
<1>10. ASSUME NEW i \in 1 .. Len(bytes)
       PROVE  Content(c)[Len(Content(b)) + i] = bytes[i]
  <2>1. (w - r) + i \in 1 .. (w - r) + Len(bytes) /\ r + ((w - r) + i) = w + i
    BY <1>1, <1>2
  <2>2. Content(c)[(w - r) + i] = v[w + i]
    BY <1>7, <2>1
  <2> QED BY <1>3, <1>8, <2>2
<1>11. Content(c) = Content(b) \o bytes
  <2>1. Len(Content(c)) = Len(Content(b)) + Len(bytes)
    BY <1>7, <1>8
  <2> QED BY <2>1, <1>7, <1>8, <1>9, <1>10, SameAsJoined
<1> QED BY <1>5, <1>11 DEF c

\* Making room, by growing the vector or by moving the content, leaves the
\* content as it is and makes the room asked for.
LEMMA BroadenKeeps ==
    ASSUME NEW S, Nul \in S, NEW b, IsBuffer(b, S), NEW len \in Nat,
           WriteableBytes(b) < len
    PROVE  /\ IsBuffer(BroadenSpace(b, len), S)
           /\ Content(BroadenSpace(b, len)) = Content(b)
           /\ WriteableBytes(BroadenSpace(b, len)) >= len
<1> DEFINE r == b.readerIndex_
           w == b.writerIndex_
           n == Len(b.buffer_)
           c == BroadenSpace(b, len)
<1>1. /\ b.buffer_ \in Seq(S) /\ n \in Nat /\ r \in Nat /\ w \in Nat
      /\ r <= w /\ w <= n /\ kCheapPrepend <= n /\ kCheapPrepend \in Nat
      /\ WriteableBytes(b) = n - w /\ ReadableBytes(b) = w - r /\ b \in Fields(S)
  BY BufferAssumption, BufferFacts DEF IsBuffer, WriteableBytes, ReadableBytes
<1>2. /\ Content(b) \in Seq(S) /\ Len(Content(b)) = w - r
      /\ \A i \in 1 .. w - r : Content(b)[i] = b.buffer_[r + i]
  BY <1>1, BufferFacts
<1>3. CASE WriteableBytes(b) + PrependableBytes(b) < len + kCheapPrepend
  <2> DEFINE more == len - (n - w)
             v == b.buffer_ \o Filled(more)
  <2>1. more \in Nat /\ Filled(more) \in [1 .. more -> S]
    BY <1>1 DEF Filled
  <2>2. Filled(more) \in Seq(S) /\ Len(Filled(more)) = more
    BY <2>1, FunctionIsSeq
  <2>3. /\ v \in Seq(S) /\ Len(v) = n + more
        /\ \A i \in 1 .. n : v[i] = b.buffer_[i]
    <3> DEFINE f == Filled(more)
    <3> HIDE DEF f, more
    <3>1. f \in Seq(S) /\ Len(f) = more
      BY <2>2 DEF f
    <3>2. /\ b.buffer_ \o f \in Seq(S) /\ Len(b.buffer_ \o f) = n + more
          /\ \A i \in 1 .. n : (b.buffer_ \o f)[i] = b.buffer_[i]
      BY <1>1, <3>1, Joined, ZenonT(60)
    <3> QED BY <3>2 DEF f
  <2>4. c = [b EXCEPT !.buffer_ = v]
    BY <1>1, <1>3 DEF BroadenSpace
  <2> HIDE DEF v, c
  <2>5. c \in Fields(S) /\ c.buffer_ = v /\ c.readerIndex_ = r /\ c.writerIndex_ = w
    BY <1>1, <2>3, <2>4 DEF Fields
  <2>6. IsBuffer(c, S)
    BY <1>1, <2>1, <2>3, <2>5, SMTT(60) DEF IsBuffer
  <2>7. WriteableBytes(c) = len /\ ReadableBytes(c) = w - r
    BY <1>1, <2>1, <2>3, <2>5, SMTT(60) DEF WriteableBytes, ReadableBytes
  <2>8. /\ Content(c) \in Seq(S) /\ Len(Content(c)) = w - r
        /\ \A i \in 1 .. w - r : Content(c)[i] = v[r + i]
    BY <2>5, <2>6, <2>7, BufferFacts
  <2>9. ASSUME NEW i \in 1 .. Len(Content(c)) PROVE Content(c)[i] = Content(b)[i]
    <3>1. i \in 1 .. w - r /\ r + i \in 1 .. n
      BY <1>1, <2>8
    <3> QED BY <1>2, <2>3, <2>8, <3>1
  <2>10. Content(c) = Content(b)
    BY <1>2, <2>8, <2>9, SeqEqual
  <2> QED BY <2>6, <2>7, <2>10 DEF c
<1>4. CASE ~(WriteableBytes(b) + PrependableBytes(b) < len + kCheapPrepend)
  <2> DEFINE k == kCheapPrepend
             v == CopyTo(b.buffer_, k, Content(b))
  <2>1. k < r /\ n - k - (w - r) >= len /\ k + (w - r) \in Nat
    BY <1>1, <1>4, SMTT(60) DEF PrependableBytes
  <2>2. k + Len(Content(b)) <= n
    BY <1>1, <1>2, <2>1
  <2>3. /\ v \in Seq(S) /\ Len(v) = n
        /\ \A i \in 1 .. w - r : v[k + i] = Content(b)[i]
    BY <1>1, <1>2, <2>2, Copied, SMTT(60)
  <2>4. c = [b EXCEPT !.buffer_ = v, !.readerIndex_ = k, !.writerIndex_ = k + (w - r)]
    BY <1>1, <1>4 DEF BroadenSpace
  <2> HIDE DEF v, c
  <2>5. c \in Fields(S) /\ c.buffer_ = v /\ c.readerIndex_ = k
        /\ c.writerIndex_ = k + (w - r)
    BY <1>1, <2>1, <2>3, <2>4 DEF Fields
  <2>6. IsBuffer(c, S)
    BY <1>1, <2>1, <2>3, <2>5, SMTT(60) DEF IsBuffer
  <2>7. WriteableBytes(c) >= len /\ ReadableBytes(c) = w - r
    BY <1>1, <2>1, <2>3, <2>5, SMTT(60) DEF WriteableBytes, ReadableBytes
  <2>8. /\ Content(c) \in Seq(S) /\ Len(Content(c)) = w - r
        /\ \A i \in 1 .. w - r : Content(c)[i] = v[k + i]
    BY <2>5, <2>6, <2>7, BufferFacts
  <2>9. ASSUME NEW i \in 1 .. Len(Content(c)) PROVE Content(c)[i] = Content(b)[i]
    BY <2>3, <2>8
  <2>10. Content(c) = Content(b)
    BY <1>2, <2>8, <2>9, SeqEqual
  <2> QED BY <2>6, <2>7, <2>10 DEF c
<1> QED BY <1>3, <1>4

\* Buffer::Append puts the bytes behind the content, whatever room there was.
THEOREM AppendAtEnd ==
    ASSUME NEW S, Nul \in S, NEW b, IsBuffer(b, S), NEW bytes \in Seq(S)
    PROVE  /\ IsBuffer(BufferAppend(b, bytes), S)
           /\ Content(BufferAppend(b, bytes)) = Content(b) \o bytes
<1> DEFINE e == EnsureWriteableBytes(b, Len(bytes))
<1>1. Len(bytes) \in Nat /\ WriteableBytes(b) \in Nat
  BY LenProperties, BufferFacts
<1>2. IsBuffer(e, S) /\ Content(e) = Content(b) /\ Len(bytes) <= WriteableBytes(e)
  <2>1. CASE WriteableBytes(b) < Len(bytes)
    <3>1. e = BroadenSpace(b, Len(bytes))
      BY <2>1 DEF EnsureWriteableBytes
    <3>2. WriteableBytes(e) \in Nat
      BY <1>1, <2>1, <3>1, BroadenKeeps, BufferFacts
    <3> QED BY <1>1, <2>1, <3>1, <3>2, BroadenKeeps
  <2>2. CASE ~(WriteableBytes(b) < Len(bytes))
    BY <1>1, <2>2 DEF EnsureWriteableBytes
  <2> QED BY <2>1, <2>2
<1> HIDE DEF e
<1> QED BY <1>2, WrittenAppends DEF BufferAppend, e

\* Buffer::Retrieve takes the first bytes, those that Peek showed, and no more.
THEOREM RetrieveFromFront ==
    ASSUME NEW S, NEW b, IsBuffer(b, S), NEW len \in Nat, len <= ReadableBytes(b)
    PROVE  /\ IsBuffer(Retrieve(b, len), S)
           /\ Peek(b, len) \in Seq(S) /\ Len(Peek(b, len)) = len
           /\ Content(b) = Peek(b, len) \o Content(Retrieve(b, len))
           /\ ReadableBytes(Retrieve(b, len)) = ReadableBytes(b) - len
<1> DEFINE r == b.readerIndex_
           w == b.writerIndex_
           c == Retrieve(b, len)
           p == Peek(b, len)
<1>1. /\ b.buffer_ \in Seq(S) /\ Len(b.buffer_) \in Nat /\ r \in Nat /\ w \in Nat
      /\ r <= w /\ w <= Len(b.buffer_) /\ ReadableBytes(b) = w - r /\ b \in Fields(S)
      /\ kCheapPrepend \in Nat /\ kCheapPrepend <= Len(b.buffer_) /\ r + len <= w
  BY BufferAssumption, BufferFacts DEF IsBuffer, ReadableBytes
<1>2. /\ Content(b) \in Seq(S) /\ Len(Content(b)) = w - r
      /\ \A i \in 1 .. w - r : Content(b)[i] = b.buffer_[r + i]
  BY <1>1, BufferFacts
<1>3. /\ p \in Seq(S) /\ Len(p) = len
      /\ \A i \in 1 .. len : p[i] = b.buffer_[r + i]
  <2> DEFINE m == r + len
  <2>1. m \in Nat /\ r <= m /\ m <= Len(b.buffer_) /\ m - r = len
    BY <1>1
  <2> DEFINE v == b.buffer_
  <2>2. v \in Seq(S) /\ r \in Nat /\ r <= m /\ m <= Len(v)
    BY <1>1, <2>1
  <2> HIDE DEF m, v, r
  <2>3. /\ SubSeq(v, r + 1, m) \in Seq(S) /\ Len(SubSeq(v, r + 1, m)) = m - r
        /\ \A i \in 1 .. m - r : SubSeq(v, r + 1, m)[i] = v[r + i]
    BY <2>1, <2>2, Part
  <2>4. p = SubSeq(v, r + 1, m)
    BY DEF Peek, m, v, r
  <2> QED BY <2>1, <2>3, <2>4 DEF v
<1> HIDE DEF p, c
<1>4. /\ IsBuffer(c, S) /\ ReadableBytes(c) = (w - r) - len
      /\ len < w - r => c.buffer_ = b.buffer_ /\ c.readerIndex_ = r + len
  <2>1. CASE len < w - r
    <3>1. c = [b EXCEPT !.readerIndex_ = r + len]
      BY <1>1, <2>1 DEF Retrieve, c
    <3>2. /\ c \in Fields(S) /\ c.buffer_ = b.buffer_
          /\ c.readerIndex_ = r + len /\ c.writerIndex_ = w
      <4> DEFINE m == r + len
      <4>1. m \in Nat /\ c = [b EXCEPT !.readerIndex_ = m] /\ b \in Fields(S)
        BY <1>1, <3>1
      <4> HIDE DEF m
      <4>2. /\ c \in Fields(S) /\ c.buffer_ = b.buffer_
            /\ c.readerIndex_ = m /\ c.writerIndex_ = w
        BY <4>1 DEF Fields
      <4> QED BY <4>2 DEF m
    <3> QED BY <1>1, <3>2 DEF IsBuffer, ReadableBytes
  <2>2. CASE ~(len < w - r)
    <3>1. c = [b EXCEPT !.readerIndex_ = kCheapPrepend, !.writerIndex_ = kCheapPrepend]
      BY <1>1, <2>2 DEF Retrieve, RetrieveAll, c
    <3>2. /\ c \in Fields(S) /\ c.buffer_ = b.buffer_
          /\ c.readerIndex_ = kCheapPrepend /\ c.writerIndex_ = kCheapPrepend
      BY <1>1, <3>1 DEF Fields
    <3> QED BY <1>1, <2>2, <3>2 DEF IsBuffer, ReadableBytes
  <2> QED BY <2>1, <2>2
<1>5. /\ Content(c) \in Seq(S) /\ Len(Content(c)) = (w - r) - len
      /\ \A i \in 1 .. (w - r) - len : Content(c)[i] = c.buffer_[c.readerIndex_ + i]
  BY <1>4, BufferFacts
<1>6. ASSUME NEW i \in 1 .. Len(p) PROVE Content(b)[i] = p[i]
  <2>1. i \in 1 .. len /\ i \in 1 .. w - r
    BY <1>1, <1>3
  <2> QED BY <1>2, <1>3, <2>1
<1>7. ASSUME NEW i \in 1 .. Len(Content(c)) PROVE Content(b)[Len(p) + i] = Content(c)[i]
  <2>1. /\ len < w - r /\ len + i \in 1 .. w - r
        /\ r + (len + i) = (r + len) + i
    BY <1>1, <1>5, SMTT(60)
  <2>2. Content(b)[len + i] = b.buffer_[(r + len) + i]
    BY <1>2, <2>1
  <2>3. Content(c)[i] = b.buffer_[(r + len) + i]
    BY <1>4, <1>5, <2>1
  <2> QED BY <1>3, <2>2, <2>3
<1>8. Len(Content(b)) = Len(p) + Len(Content(c))
  BY <1>1, <1>2, <1>3, <1>5
<1>9. Content(b) = p \o Content(c)
  BY <1>2, <1>3, <1>5, <1>6, <1>7, <1>8, SameAsJoined
<1> QED BY <1>1, <1>3, <1>4, <1>9 DEF p, c

\* Buffer::Prepend puts the bytes in front of the content.
THEOREM PrependInFront ==
    ASSUME NEW S, NEW b, IsBuffer(b, S), NEW bytes \in Seq(S),
           Len(bytes) <= PrependableBytes(b)
    PROVE  /\ IsBuffer(Prepend(b, bytes), S)
           /\ Content(Prepend(b, bytes)) = bytes \o Content(b)
<1> DEFINE r == b.readerIndex_
           w == b.writerIndex_
           at == r - Len(bytes)
           v == CopyTo(b.buffer_, at, bytes)
           c == Prepend(b, bytes)
<1>1. /\ b.buffer_ \in Seq(S) /\ Len(b.buffer_) \in Nat /\ r \in Nat /\ w \in Nat
      /\ r <= w /\ w <= Len(b.buffer_) /\ ReadableBytes(b) = w - r /\ b \in Fields(S)
      /\ kCheapPrepend <= Len(b.buffer_) /\ Len(bytes) \in Nat
  BY LenProperties, BufferFacts DEF IsBuffer, ReadableBytes
<1>2. at \in Nat /\ at + Len(bytes) = r
  BY <1>1 DEF PrependableBytes
<1> HIDE DEF at
<1>3. /\ v \in Seq(S) /\ Len(v) = Len(b.buffer_)
      /\ \A i \in 1 .. Len(bytes) : v[at + i] = bytes[i]
      /\ \A i \in 1 .. Len(v) : i > r => v[i] = b.buffer_[i]
  BY <1>1, <1>2, Copied, SMTT(60)
<1>4. c = [b EXCEPT !.buffer_ = v, !.readerIndex_ = at]
  BY DEF Prepend, at
<1> HIDE DEF v, c
<1>5. /\ c \in Fields(S) /\ c.buffer_ = v /\ c.readerIndex_ = at /\ c.writerIndex_ = w
  BY <1>1, <1>2, <1>3, <1>4 DEF Fields
<1>6. IsBuffer(c, S) /\ ReadableBytes(c) = Len(bytes) + (w - r)
  BY <1>1, <1>2, <1>3, <1>5 DEF IsBuffer, ReadableBytes
<1>7. /\ Content(c) \in Seq(S) /\ Len(Content(c)) = Len(bytes) + (w - r)
      /\ \A i \in 1 .. Len(bytes) + (w - r) : Content(c)[i] = v[at + i]
  BY <1>5, <1>6, BufferFacts
<1>8. /\ Content(b) \in Seq(S) /\ Len(Content(b)) = w - r
      /\ \A i \in 1 .. w - r : Content(b)[i] = b.buffer_[r + i]
  BY <1>1, BufferFacts
<1>9. ASSUME NEW i \in 1 .. Len(bytes) PROVE Content(c)[i] = bytes[i]
  <2>1. i \in 1 .. Len(bytes) + (w - r)
    BY <1>1
  <2> QED BY <1>3, <1>7, <2>1
<1>10. ASSUME NEW i \in 1 .. Len(Content(b))
       PROVE  Content(c)[Len(bytes) + i] = Content(b)[i]
  <2>1. /\ i \in 1 .. w - r /\ Len(bytes) + i \in 1 .. Len(bytes) + (w - r)
        /\ at + (Len(bytes) + i) = r + i /\ r + i \in 1 .. Len(v) /\ r + i > r
    <3>1. i \in 1 .. w - r
      BY <1>8
    <3>2. i \in Nat /\ i >= 1 /\ i <= w - r
      BY <1>1, <3>1
    <3>3. at + (Len(bytes) + i) = r + i
      BY <1>1, <1>2, <3>2
    <3>4. r + i \in 1 .. Len(b.buffer_) /\ r + i > r
      BY <1>1, <3>2
    <3>5. Len(bytes) + i \in 1 .. Len(bytes) + (w - r)
      BY <1>1, <3>2
    <3> QED BY <1>3, <3>1, <3>3, <3>4, <3>5
  <2>2. Content(c)[Len(bytes) + i] = v[r + i]
    BY <1>7, <2>1
  <2> QED BY <1>3, <1>8, <2>1, <2>2
<1>11. Len(Content(c)) = Len(bytes) + Len(Content(b))
  BY <1>7, <1>8
<1>12. Content(c) = bytes \o Content(b)
  BY <1>7, <1>8, <1>9, <1>10, <1>11, SameAsJoined
<1> QED BY <1>6, <1>12 DEF c

\* Buffer::ReadFd puts what readv(2) returned behind the content, also the part
\* that went to extrabuf.
THEOREM ReadAtEnd ==
    ASSUME NEW S, Nul \in S, NEW b, IsBuffer(b, S), NEW bytes \in Seq(S)
    PROVE  /\ IsBuffer(ReadFd(b, bytes), S)
           /\ Content(ReadFd(b, bytes)) = Content(b) \o bytes
<1> DEFINE w == WriteableBytes(b)
           n == Len(bytes)
<1>1. w \in Nat /\ n \in Nat /\ Content(b) \in Seq(S)
  BY LenProperties, BufferFacts
<1>2. CASE n <= w
  BY <1>2, WrittenAppends DEF ReadFd
<1>3. CASE ~(n <= w)
  <2> DEFINE s == SubSeq(bytes, 1, w)
             t == SubSeq(bytes, w + 1, n)
             d == Written(b, s)
  <2> HIDE DEF w, n
  <2>1. s \in Seq(S) /\ Len(s) = w /\ \A i \in 1 .. w : s[i] = bytes[i]
    <3>1. /\ SubSeq(bytes, 0 + 1, w) \in Seq(S) /\ Len(SubSeq(bytes, 0 + 1, w)) = w - 0
          /\ \A i \in 1 .. w - 0 : SubSeq(bytes, 0 + 1, w)[i] = bytes[0 + i]
      BY <1>1, <1>3, Part DEF n
    <3> QED BY <1>1, <3>1
  <2>2. t \in Seq(S) /\ Len(t) = n - w /\ \A i \in 1 .. n - w : t[i] = bytes[w + i]
    BY <1>1, <1>3, Part DEF n
  <2> HIDE DEF s, t
  <2>3. s \o t = bytes
    <3>1. Len(bytes) = Len(s) + Len(t)
      BY <1>1, <1>3, <2>1, <2>2 DEF n
    <3>2. /\ \A i \in 1 .. Len(s) : bytes[i] = s[i]
          /\ \A i \in 1 .. Len(t) : bytes[Len(s) + i] = t[i]
      BY <2>1, <2>2
    <3> QED BY <2>1, <2>2, <3>1, <3>2, SameAsJoined
  <2>4. IsBuffer(d, S) /\ Content(d) = Content(b) \o s
    BY <1>1, <2>1, WrittenAppends, SMTT(60) DEF w
  <2> HIDE DEF d
  <2>5. IsBuffer(BufferAppend(d, t), S) /\ Content(BufferAppend(d, t)) = Content(d) \o t
    BY <2>2, <2>4, AppendAtEnd
  <2>6. (Content(b) \o s) \o t = Content(b) \o (s \o t)
    BY <1>1, <2>1, <2>2, ConcatAssociative, SMTT(60)
  <2>7. ReadFd(b, bytes) = BufferAppend(d, t)
    BY <1>3 DEF ReadFd, d, s, t, w, n
  <2> QED BY <2>3, <2>4, <2>5, <2>6, <2>7
<1> QED BY <1>2, <1>3

-----------------------------------------------------------------------------
\* Integers in network order.

Byte == 0 .. 255

\* One step of the recursion in Native, for all prefixes.
Weighed(bytes, g) ==
    [i \in 0 .. Len(bytes) |-> IF i = 0 THEN 0 ELSE 256 * g[i - 1] + bytes[i]]

\* The prefixes of up to eight bytes have values, and Native is that of all.
LEMMA NativeOf ==
    ASSUME NEW bytes \in Seq(Byte), Len(bytes) \in 1 .. 8
    PROVE  \E u : /\ u[0] = 0
                  /\ u = Weighed(bytes, u)
                  /\ Native(bytes) = LET w == Len(bytes)
                                     IN  IF 2 * u[w] >= 256^w THEN u[w] - 256^w ELSE u[w]
<1> DEFINE v1 == 256 * 0 + bytes[1]
           v2 == 256 * v1 + bytes[2]
           v3 == 256 * v2 + bytes[3]
           v4 == 256 * v3 + bytes[4]
           v5 == 256 * v4 + bytes[5]
           v6 == 256 * v5 + bytes[6]
           v7 == 256 * v6 + bytes[7]
           v8 == 256 * v7 + bytes[8]
           val == <<v1, v2, v3, v4, v5, v6, v7, v8>>
           h == [i \in 0 .. Len(bytes) |-> IF i = 0 THEN 0 ELSE val[i]]
           u == CHOOSE g : g = [i \in 0 .. Len(bytes) |->
                                  IF i = 0 THEN 0 ELSE 256 * g[i - 1] + bytes[i]]
<1>1. h = Weighed(bytes, h)
  <2>1. val[1] = 256 * 0 + bytes[1]
    OBVIOUS
  <2>2. \A i \in 2 .. 8 : val[i] = 256 * val[i - 1] + bytes[i]
    OBVIOUS
  <2> HIDE DEF val
  <2>3. ASSUME NEW i \in 0 .. Len(bytes)
        PROVE  h[i] = IF i = 0 THEN 0 ELSE 256 * h[i - 1] + bytes[i]
    <3>1. CASE i = 0
      BY <3>1
    <3>2. CASE i = 1
      <4>1. h[0] = 0 /\ h[1] = val[1]
        BY <3>2
      <4> QED BY <2>1, <3>2, <4>1
    <3>3. CASE i \in 2 .. 8
      <4>1. h[i] = val[i] /\ h[i - 1] = val[i - 1]
        BY <3>3
      <4> QED BY <2>2, <3>3, <4>1, SMTT(60)
    <3> QED BY <3>1, <3>2, <3>3, SMTT(60)
  <2> QED BY <2>3 DEF Weighed
<1> HIDE DEF h
<1>2. u = Weighed(bytes, u)
  BY <1>1 DEF Weighed
<1>3. Native(bytes) = LET w == Len(bytes)
                      IN  IF 2 * u[w] >= 256^w THEN u[w] - 256^w ELSE u[w]
  BY DEF Native
<1> HIDE DEF u
<1>4. u[0] = 0
  BY <1>2 DEF Weighed
<1> QED BY <1>2, <1>3, <1>4

LEMMA FirstByte ==
    ASSUME NEW b \in Byte
    PROVE  256 * 0 + b = b
  BY DEF Byte

\* The number after i bytes, and what NativeOf gives for one byte and for two.
LEMMA Unsigned ==
    ASSUME NEW bytes \in Seq(Byte), Len(bytes) \in 1 .. 8, NEW u,
           u[0] = 0, u = Weighed(bytes, u), NEW i \in 1 .. Len(bytes)
    PROVE  u[i] = 256 * u[i - 1] + bytes[i]
<1>1. i \in 0 .. Len(bytes) /\ i # 0
  OBVIOUS
<1> QED BY <1>1 DEF Weighed

LEMMA Bytes1 ==
    ASSUME NEW a \in Byte, NEW x, x = IF 2 * a >= 256 THEN a - 256 ELSE a
    PROVE  ((x % 256) \div 1) % 256 = a
  BY SMT DEF Byte

\* Two's complement: the signed number has the bits of the unsigned one.
LEMMA Bytes2 ==
    ASSUME NEW a \in Byte, NEW b \in Byte, NEW v, v = 256 * a + b,
           NEW x, x = IF 2 * v >= 65536 THEN v - 65536 ELSE v
    PROVE  /\ ((x % 65536) \div 256) % 256 = a
           /\ ((x % 65536) \div 1) % 256 = b
<1>1. v \in Nat /\ v < 65536 /\ a \in Nat /\ a % 256 = a
  BY SMT DEF Byte
<1>2. v \div 256 = a /\ v % 256 = b /\ v \div 1 = v
  BY SMT DEF Byte
<1>3. x % 65536 = v
  BY SMT, <1>1
<1> QED BY SMT, <1>1, <1>2, <1>3

\* Dividing by 256 drops the last digit in base 256.
LEMMA DropDigit ==
    ASSUME NEW n \in Nat, NEW b \in Byte
    PROVE  256 * n + b \in Nat /\ (256 * n + b) \div 256 = n /\ (256 * n + b) % 256 = b
  BY SMT DEF Byte

\* As Bytes2, for four bytes.
LEMMA Bytes4 ==
    ASSUME NEW a \in Byte, NEW b \in Byte, NEW c \in Byte, NEW d \in Byte,
           NEW v2, v2 = 256 * a + b, NEW v3, v3 = 256 * v2 + c,
           NEW v4, v4 = 256 * v3 + d,
           NEW x, x = IF 2 * v4 >= 4294967296 THEN v4 - 4294967296 ELSE v4
    PROVE  /\ ((x % 4294967296) \div 16777216) % 256 = a
           /\ ((x % 4294967296) \div 65536) % 256 = b
           /\ ((x % 4294967296) \div 256) % 256 = c
           /\ ((x % 4294967296) \div 1) % 256 = d
<1>1. a \in Nat /\ a < 256 /\ b < 256 /\ c < 256 /\ d < 256
  BY SMT DEF Byte
<1>2. v2 \in Nat /\ v2 \div 256 = a /\ v2 % 256 = b
  BY <1>1, DropDigit
<1>3. v3 \in Nat /\ v3 \div 256 = v2 /\ v3 % 256 = c
  BY <1>2, DropDigit
<1>4. v4 \in Nat /\ v4 \div 256 = v3 /\ v4 % 256 = d
  BY <1>3, DropDigit
<1>5. v2 < 65536 /\ v3 < 16777216 /\ v4 < 4294967296
  BY SMT, <1>1, <1>2, <1>3 DEF Byte
<1>6. x % 4294967296 = v4
  BY SMT, <1>4, <1>5
<1>7. v4 \div 65536 = v2
  <2>1. c \in 0 .. 255 /\ d \in 0 .. 255
    BY DEF Byte
  <2>2. v4 = 65536 * v2 + (256 * c + d)
    BY SMT, <1>2, <2>1
  <2> QED BY SMT, <1>2, <2>1, <2>2
<1>8. v4 \div 16777216 = a
  BY SMT, <1>1, <1>2, <1>4, <1>7
<1>9. a % 256 = a /\ v4 \div 1 = v4
  BY SMT, <1>1, <1>4
<1> QED BY SMTT(60), <1>2, <1>3, <1>4, <1>6, <1>7, <1>8, <1>9

\* An integer of 8, 16 or 32 bits that is read and written again, or put back, is
\* the same bytes: ReadInt*, PrependInt* and AppendInt* fit together, negative
\* numbers included.
THEOREM IntBytes ==
    ASSUME NEW bytes \in Seq(Byte), Len(bytes) \in {1, 2, 4}
    PROVE  Big(Native(bytes), Len(bytes)) = bytes
<1> DEFINE w == Len(bytes)
           x == Native(bytes)
<1>1. ASSUME NEW i \in 1 .. w PROVE bytes[i] \in Byte
  BY ElementOfSeq
<1>2. PICK u : /\ u[0] = 0 /\ u = Weighed(bytes, u)
               /\ x = IF 2 * u[w] >= 256^w THEN u[w] - 256^w ELSE u[w]
  BY NativeOf
<1> HIDE DEF x
<1>3. SUFFICES ASSUME NEW i \in 1 .. w
               PROVE  ((x % 256^w) \div 256^(w - i)) % 256 = bytes[i]
  <2>1. bytes = [i \in 1 .. w |-> bytes[i]]
    BY LenProperties
  <2> QED BY <2>1 DEF Big, x
<1>4. 1 \in 1 .. w /\ bytes[1] \in Byte
  BY <1>1
<1>5. u[1] = bytes[1]
  <2>1. u[1] = 256 * u[1 - 1] + bytes[1]
    BY <1>2, <1>4, Unsigned
  <2>2. u[1 - 1] = 0
    BY <1>2
  <2>3. 256 * 0 + bytes[1] = bytes[1]
    BY <1>4, FirstByte
  <2> QED BY <2>1, <2>2, <2>3
<1>6. CASE w = 1
  <2>1. x = IF 2 * bytes[1] >= 256 THEN bytes[1] - 256 ELSE bytes[1]
    BY SMT, <1>2, <1>5, <1>6
  <2>2. ((x % 256) \div 1) % 256 = bytes[1]
    BY SMT, <1>4, <2>1, Bytes1
  <2>3. i = 1 /\ 256^w = 256 /\ 256^(w - i) = 1
    BY SMT, <1>6
  <2> QED BY SMT, <2>2, <2>3
<1>7. CASE w = 2
  <2>1. 2 \in 1 .. w /\ bytes[2] \in Byte
    BY <1>1, <1>7
  <2>2. u[2] = 256 * bytes[1] + bytes[2]
    <3>1. u[2] = 256 * u[2 - 1] + bytes[2]
      BY <1>2, <2>1, Unsigned
    <3> QED BY <1>5, <3>1
  <2>3. x = IF 2 * u[2] >= 65536 THEN u[2] - 65536 ELSE u[2]
    BY SMT, <1>2, <1>7
  <2>4. /\ ((x % 65536) \div 256) % 256 = bytes[1]
        /\ ((x % 65536) \div 1) % 256 = bytes[2]
    BY SMTT(60), <1>4, <2>1, <2>2, <2>3, Bytes2
  <2>5. 256^w = 65536
    BY SMT, <1>7
  <2>6. CASE i = 1
    <3>1. 256^(w - i) = 256
      BY SMT, <1>7, <2>6
    <3> QED BY SMT, <2>4, <2>5, <2>6, <3>1
  <2>7. CASE i = 2
    <3>1. 256^(w - i) = 1
      BY SMT, <1>7, <2>7
    <3> QED BY SMT, <2>4, <2>5, <2>7, <3>1
  <2> QED BY SMT, <1>7, <2>6, <2>7
<1>8. CASE w = 4
  <2>1. /\ 2 \in 1 .. w /\ 3 \in 1 .. w /\ 4 \in 1 .. w
        /\ bytes[2] \in Byte /\ bytes[3] \in Byte /\ bytes[4] \in Byte
    BY <1>1, <1>8
  <2>2. u[2] = 256 * bytes[1] + bytes[2]
    <3>1. u[2] = 256 * u[2 - 1] + bytes[2]
      BY <1>2, <2>1, Unsigned
    <3> QED BY <1>5, <3>1
  <2>3. u[3] = 256 * u[2] + bytes[3]
    <3>1. u[3] = 256 * u[3 - 1] + bytes[3]
      BY <1>2, <2>1, Unsigned
    <3> QED BY <3>1
  <2>4. u[4] = 256 * u[3] + bytes[4]
    <3>1. u[4] = 256 * u[4 - 1] + bytes[4]
      BY <1>2, <2>1, Unsigned
    <3> QED BY <3>1
  <2>5. 256^w = 4294967296
    BY SMT, <1>8
  <2>6. x = IF 2 * u[4] >= 4294967296 THEN u[4] - 4294967296 ELSE u[4]
    BY <1>2, <1>8, <2>5
  <2>7. /\ ((x % 4294967296) \div 16777216) % 256 = bytes[1]
        /\ ((x % 4294967296) \div 65536) % 256 = bytes[2]
        /\ ((x % 4294967296) \div 256) % 256 = bytes[3]
        /\ ((x % 4294967296) \div 1) % 256 = bytes[4]
    BY SMTT(60), <1>4, <2>1, <2>2, <2>3, <2>4, <2>6, Bytes4
  <2>8. 256^3 = 16777216 /\ 256^2 = 65536 /\ 256^1 = 256 /\ 256^0 = 1
    BY SMT
  <2>9. CASE i = 1
    <3>1. 256^(w - i) = 16777216
      BY SMT, <1>8, <2>9
    <3> QED BY SMT, <2>5, <2>7, <2>9, <3>1
  <2>10. CASE i = 2
    <3>1. 256^(w - i) = 65536
      BY SMT, <1>8, <2>10
    <3> QED BY SMT, <2>5, <2>7, <2>10, <3>1
  <2>11. CASE i = 3
    <3>1. 256^(w - i) = 256
      BY SMT, <1>8, <2>11
    <3> QED BY SMT, <2>5, <2>7, <2>11, <3>1
  <2>12. CASE i = 4
    <3>1. 256^(w - i) = 1
      BY SMT, <1>8, <2>12
    <3> QED BY SMT, <2>5, <2>7, <2>12, <3>1
  <2> QED BY <1>8, <2>9, <2>10, <2>11, <2>12
<1> QED BY <1>6, <1>7, <1>8

=============================================================================
