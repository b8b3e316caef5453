-------------------------------- MODULE Buffer --------------------------------
(***************************************************************************)
(* Buffer.h and Buffer.cpp: the byte buffer of a connection, as operators  *)
(* from buffer to buffer.  TcpConnection.tla and TcpClient.tla call them.  *)
(*                                                                         *)
(* buffer_ is the whole vector, stale and prependable bytes included; byte *)
(* i of the code is buffer_[i + 1].  The shortcuts for integers of 8, 16,  *)
(* 32 and 64 bits are one operator each, with the width w in bytes.        *)
(***************************************************************************)
EXTENDS Integers, Sequences

CONSTANTS kCheapPrepend, kInitialSize,
          kExtraSize,  \* sizeof extrabuf, in ReadFd
          Nul          \* the byte the vector is filled with

ASSUME BufferAssumption ==
    kCheapPrepend \in Nat /\ kInitialSize \in Nat /\ kExtraSize \in Nat

Filled(n) == [i \in 1 .. n |-> Nul]

NewBuffer ==
    [buffer_ |-> Filled(kCheapPrepend + kInitialSize),
     readerIndex_ |-> kCheapPrepend, writerIndex_ |-> kCheapPrepend]

ReadableBytes(b) == b.writerIndex_ - b.readerIndex_

WriteableBytes(b) == Len(b.buffer_) - b.writerIndex_

PrependableBytes(b) == b.readerIndex_

\* What a reader finds at Peek().
Content(b) == SubSeq(b.buffer_, b.readerIndex_ + 1, b.writerIndex_)

Peek(b, len) == SubSeq(b.buffer_, b.readerIndex_ + 1, b.readerIndex_ + len)

RetrieveAll(b) ==
    [b EXCEPT !.readerIndex_ = kCheapPrepend, !.writerIndex_ = kCheapPrepend]

Retrieve(b, len) ==
    IF len < ReadableBytes(b) THEN [b EXCEPT !.readerIndex_ = @ + len]
    ELSE RetrieveAll(b)

\* std::copy of `bytes' to offset `at' of the vector v.
CopyTo(v, at, bytes) ==
    [i \in DOMAIN v |-> IF i - at \in DOMAIN bytes THEN bytes[i - at] ELSE v[i]]

\* Mutant: the content is moved, the indices are not.
BroadenSpace_StaleIndex(b, len) ==
    IF WriteableBytes(b) + PrependableBytes(b) < len + kCheapPrepend
    THEN [b EXCEPT !.buffer_ = @ \o Filled(len - WriteableBytes(b))]
    ELSE [b EXCEPT !.buffer_ = CopyTo(@, kCheapPrepend, Content(b)),
                   !.writerIndex_ = kCheapPrepend + ReadableBytes(b)]

\* Grow the vector, or, if the room in front of the content is enough, move
\* the content to where a new buffer starts.
BroadenSpace(b, len) ==
    IF WriteableBytes(b) + PrependableBytes(b) < len + kCheapPrepend
    THEN [b EXCEPT !.buffer_ = @ \o Filled(len - WriteableBytes(b))]
    ELSE [b EXCEPT !.buffer_ = CopyTo(@, kCheapPrepend, Content(b)),
                   !.readerIndex_ = kCheapPrepend,
                   !.writerIndex_ = kCheapPrepend + ReadableBytes(b)]

EnsureWriteableBytes(b, len) ==
    IF WriteableBytes(b) < len THEN BroadenSpace(b, len) ELSE b

\* Bytes written at BeginWrite(), then HasWritten.
Written(b, bytes) ==
    [b EXCEPT !.buffer_ = CopyTo(@, b.writerIndex_, bytes),
              !.writerIndex_ = @ + Len(bytes)]

BufferAppend(b, bytes) == Written(EnsureWriteableBytes(b, Len(bytes)), bytes)

Prepend(b, bytes) ==
    LET at == b.readerIndex_ - Len(bytes)
    IN  [b EXCEPT !.buffer_ = CopyTo(@, at, bytes), !.readerIndex_ = at]

\* How many bytes readv(2) can return: extrabuf is offered only if it is
\* larger than the room in the vector.
ReadFdRoom(b) == WriteableBytes(b) +
    (IF WriteableBytes(b) < kExtraSize THEN kExtraSize ELSE 0)

\* readv(2) returned `bytes': what does not fit is appended from extrabuf.
ReadFd(b, bytes) ==
    LET w == WriteableBytes(b)
    IN  IF Len(bytes) <= w THEN Written(b, bytes)
        ELSE BufferAppend(Written(b, SubSeq(bytes, 1, w)),
                          SubSeq(bytes, w + 1, Len(bytes)))

-----------------------------------------------------------------------------
\* Integers in network order, two's complement.

\* NativeToBig: the w bytes of x.
Big(x, w) == [i \in 1 .. w |-> ((x % 256^w) \div 256^(w - i)) % 256]

\* BigToNative: the signed number that the w bytes are.
Native(bytes) ==
    LET w == Len(bytes)
        u[i \in 0 .. w] == IF i = 0 THEN 0 ELSE 256 * u[i - 1] + bytes[i]
    IN  IF 2 * u[w] >= 256^w THEN u[w] - 256^w ELSE u[w]

AppendInt(b, x, w) == BufferAppend(b, Big(x, w))

PeekInt(b, w) == Native(Peek(b, w))

\* ReadInt returns PeekInt(b, w) and leaves:
ReadInt(b, w) == Retrieve(b, w)

PrependInt(b, x, w) == Prepend(b, Big(x, w))

===============================================================================
