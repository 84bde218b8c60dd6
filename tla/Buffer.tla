------------------------------- MODULE Buffer ------------------------------
(***************************************************************************)
(* muduo/net/Buffer.h and Buffer.cc: a byte vector with a reader and a     *)
(* writer index.  A Buffer is a record, an operation maps records to       *)
(* records; `ok` records whether the assertions of the code have held.     *)
(***************************************************************************)
EXTENDS Integers, Sequences, SequencesExt

CONSTANTS kCheapPrepend, kInitialSize,
          kExtraBuf   \* size of readFd()'s buffer on the stack

ASSUME BufferAssumption ==
    kCheapPrepend \in Nat /\ kInitialSize \in Nat /\ kExtraBuf \in Nat \ {0}

Garbage == 0  \* what a byte of the vector holds before it is written

EmptyBuffer ==
    [buffer_ |-> [i \in 1 .. kCheapPrepend + kInitialSize |-> Garbage],
     readerIndex_ |-> kCheapPrepend, writerIndex_ |-> kCheapPrepend, ok |-> TRUE]

readableBytes(b) == b.writerIndex_ - b.readerIndex_
writableBytes(b) == Len(b.buffer_) - b.writerIndex_
prependableBytes(b) == b.readerIndex_
toStringPiece(b) == SubSeq(b.buffer_, b.readerIndex_ + 1, b.writerIndex_)

(* std::copy of bytes into the vector, from offset at.                      *)
Copy(vector, bytes, at) ==
    [i \in DOMAIN vector |-> IF i \in at + 1 .. at + Len(bytes) THEN bytes[i - at] ELSE vector[i]]

Assert_(b, condition) == [b EXCEPT !.ok = @ /\ condition]

retrieve(b, len) ==
    IF len < readableBytes(b)
    THEN [b EXCEPT !.readerIndex_ = @ + len]
    ELSE [Assert_(b, len = readableBytes(b))
              EXCEPT !.readerIndex_ = kCheapPrepend, !.writerIndex_ = kCheapPrepend]

makeSpace_NotCopied(b, len) ==
    IF writableBytes(b) + prependableBytes(b) < len + kCheapPrepend
    THEN [b EXCEPT !.buffer_ =
              [i \in 1 .. b.writerIndex_ + len |-> IF i \in DOMAIN @ THEN @[i] ELSE Garbage]]
    ELSE [b EXCEPT !.readerIndex_ = kCheapPrepend,
                   !.writerIndex_ = kCheapPrepend + readableBytes(b)]

(* The vector grows, or the readable bytes move to the front.               *)
makeSpace(b, len) ==
    IF writableBytes(b) + prependableBytes(b) < len + kCheapPrepend
    THEN [b EXCEPT !.buffer_ =
              [i \in 1 .. b.writerIndex_ + len |-> IF i \in DOMAIN @ THEN @[i] ELSE Garbage]]
    ELSE [Assert_(b, kCheapPrepend < b.readerIndex_)
              EXCEPT !.buffer_ = Copy(@, toStringPiece(b), kCheapPrepend),
                     !.readerIndex_ = kCheapPrepend,
                     !.writerIndex_ = kCheapPrepend + readableBytes(b)]

ensureWritableBytes(b, len) ==
    LET c == IF writableBytes(b) < len THEN makeSpace(b, len) ELSE b
    IN Assert_(c, writableBytes(c) >= len)

hasWritten(b, bytes) ==
    [b EXCEPT !.buffer_ = Copy(@, bytes, b.writerIndex_), !.writerIndex_ = @ + Len(bytes)]

append(b, bytes) == hasWritten(ensureWritableBytes(b, Len(bytes)), bytes)

prepend(b, bytes) ==
    LET c == [Assert_(b, Len(bytes) <= prependableBytes(b)) EXCEPT !.readerIndex_ = @ - Len(bytes)]
    IN [c EXCEPT !.buffer_ = Copy(@, bytes, c.readerIndex_)]

(* readv(2) into the writable bytes and, if they are few, the stack.        *)
ReadLimit(b) == writableBytes(b) + (IF writableBytes(b) < kExtraBuf THEN kExtraBuf ELSE 0)

readFd(b, bytes) ==
    LET writable == writableBytes(b)
    IN IF Len(bytes) <= writable
       THEN hasWritten(b, bytes)
       ELSE append(hasWritten(b, SubSeq(bytes, 1, writable)),
                   SubSeq(bytes, writable + 1, Len(bytes)))
=============================================================================
