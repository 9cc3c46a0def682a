-------------------------------- MODULE Buffer --------------------------------
(***************************************************************************)
(* mtd::Buffer (server/include/m_buffer.h, server/src/m_buffer.cpp): a     *)
(* vector of bytes with a reader and a writer index. The state is the      *)
(* buffer of one connection and, beside it, the bytes that ought to be in  *)
(* it. Two uses occur in the program, and isInput says which of them this  *)
(* buffer is put to: an input buffer is filled by ReadFd() and emptied as  *)
(* one string, an output buffer is filled by Append() and emptied by       *)
(* Retrive() of what WriteFd() got rid of.                                 *)
(*                                                                         *)
(* Writing behind the end of the vector is undefined: the state "overrun"  *)
(* has no successor.                                                       *)
(***************************************************************************)
EXTENDS Naturals, Sequences

CONSTANTS
  kCheapPrepend,   \* 8
  kInitialSize,    \* 1024
  ExtraSize,       \* sizeof(extra_buf) in ReadFd(): 65536
  MaxBytes         \* bound: bytes put into the buffer

ASSUME SizeAssumption == {kCheapPrepend, kInitialSize, ExtraSize} \subseteq Nat
ASSUME BoundAssumption == MaxBytes \in Nat

VARIABLES
  isInput,         \* input_buf_, or output_buf_
  mem,             \* the bytes of buf_, from index 0; 0 if never written
  reader,          \* reader_index_
  writer,          \* writer_index_
  should,          \* the bytes put in and not yet taken out
  put,             \* number of bytes put in
  string,          \* the last string RetriveAllAsString() returned ...
  expected,        \* ... and the one it should have
  overrun          \* bytes written behind the end of buf_

vars == <<isInput, mem, reader, writer, should, put, string, expected, overrun>>

\* buf_.size(), and byte i of it, which are numbered from 0.
Size(m) == Len(m)
Byte(m, i) == m[i + 1]
Resize(m, n) == [i \in 1..n |-> IF i <= Len(m) THEN m[i] ELSE 0]

\* The n bytes from index i on.
Bytes(m, i, n) == SubSeq(m, i + 1, i + n)

\* std::copy() of data to index i; what falls behind the end is not in buf_.
CopyTo(m, i, data) ==
  [k \in 1..Len(m) |->
     IF k - 1 \in i..(i + Len(data) - 1) THEN data[k - i] ELSE m[k]]

\* The bytes to come, so that each is another one.
Fresh(n) == [k \in 1..n |-> put + k]

Init ==
  /\ isInput \in BOOLEAN
  /\ mem = [i \in 1..(kCheapPrepend + kInitialSize) |-> 0]
  /\ reader = kCheapPrepend /\ writer = kCheapPrepend
  /\ should = <<>> /\ put = 0
  /\ string = <<>> /\ expected = <<>> /\ overrun = 0

ReadeableBytes == writer - reader
WriteAbleBytes == Size(mem) - writer
PrependableBytes == reader

-----------------------------------------------------------------------------
(* Putting in.  An operator that changes the buffer in several steps works *)
(* on a record of its three members.                                       *)

Buf(m, r, w) == [m |-> m, r |-> r, w |-> w]

\* Wrong on purpose: twice the space in front is counted as free.
FitsTwice(b, len) == 2 * b.r + (Size(b.m) - b.w) >= len

\* The bytes free in front and behind are enough, kCheapPrepend of them
\* included.
Fits(b, len) == b.r + (Size(b.m) - b.w) >= len

\* Wrong on purpose: the bytes are moved, and the reader index is not.
ReaderStays(b) == b.r

ReaderMoved(b) == kCheapPrepend

\* EnsureWriteableBytes(): the bytes are moved to the front, or buf_ grows.
EnsureWriteableBytes(b, len) ==
  IF ~Fits(b, len) THEN Buf(Resize(b.m, b.w + len), b.r, b.w)
  ELSE Buf(CopyTo(b.m, kCheapPrepend, Bytes(b.m, b.r, b.w - b.r)),
           ReaderMoved(b), kCheapPrepend + (b.w - b.r))

Appended(b, data) ==
  LET e == EnsureWriteableBytes(b, Len(data)) IN
  Buf(CopyTo(e.m, e.w, data), e.r, e.w + Len(data))

\* The buffer becomes b, which holds n more bytes.
Becomes(b, n) ==
  /\ mem' = b.m /\ reader' = b.r /\ writer' = b.w
  /\ overrun' = IF b.w > Size(b.m) THEN b.w - Size(b.m) ELSE 0
  /\ should' = should \o Fresh(n) /\ put' = put + n
  /\ UNCHANGED <<isInput, string, expected>>

\* Append() on an output buffer.
Append_(n) ==
  /\ ~isInput
  /\ put + n <= MaxBytes
  /\ Becomes(Appended(Buf(mem, reader, writer), Fresh(n)), n)

\* Wrong on purpose: extra_buf is appended as if all the bytes were in it.
ExtraAll(data, fits) == data

\* What of the data is in extra_buf.
Extra(data, fits) == SubSeq(data, fits + 1, Len(data))

\* readv() into the space behind the writer index and extra_buf, and n bytes
\* come; extra_buf is left out when the space is as large.
ReadFd(n) ==
  LET fits == WriteAbleBytes
      data == Fresh(n)
      full == Buf(CopyTo(mem, writer, SubSeq(data, 1, fits)), reader, Size(mem))
  IN
  /\ isInput
  /\ put + n <= MaxBytes
  /\ n <= fits + (IF fits < ExtraSize THEN ExtraSize ELSE 0)
  /\ Becomes(IF n <= fits
               THEN Buf(CopyTo(mem, writer, data), reader, writer + n)
               ELSE Appended(full, Extra(data, fits)), n)

-----------------------------------------------------------------------------
(* Taking out.                                                             *)

\* Wrong on purpose: only one of the indices is set.
RetriveAllWriter == writer' = kCheapPrepend /\ UNCHANGED reader

RetriveAll == reader' = kCheapPrepend /\ writer' = kCheapPrepend

\* HandleWrite(): WriteFd() wrote the first n bytes, which are retrieved.
Retrive(n) ==
  /\ ~isInput
  /\ n \in 1..ReadeableBytes
  /\ IF n < ReadeableBytes
       THEN reader' = reader + n /\ UNCHANGED writer
       ELSE RetriveAll
  /\ should' = SubSeq(should, n + 1, Len(should))
  /\ UNCHANGED <<isInput, mem, put, string, expected, overrun>>

\* RetriveAsString() of all: the bytes are retrieved first and copied from
\* the new reader index then.
RetriveAllAsString ==
  /\ isInput
  /\ ReadeableBytes > 0
  /\ RetriveAll
  /\ string' = Bytes(mem, reader', ReadeableBytes)
  /\ expected' = should
  /\ should' = <<>>
  /\ UNCHANGED <<isInput, mem, put, overrun>>

-----------------------------------------------------------------------------
Next ==
  /\ overrun = 0
  /\ \/ \E n \in 1..MaxBytes : Append_(n) \/ ReadFd(n) \/ Retrive(n)
     \/ RetriveAllAsString

Spec == Init /\ [][Next]_vars

-----------------------------------------------------------------------------
(* Properties.                                                             *)

\* Type invariant.
TypeOK ==
  /\ isInput \in BOOLEAN
  /\ mem \in Seq(0..MaxBytes)
  /\ reader \in Nat /\ writer \in Nat /\ reader <= writer
  /\ should \in Seq(1..MaxBytes)
  /\ put \in 0..MaxBytes
  /\ overrun \in Nat

\* Between the two indices are exactly the bytes that went in and have not
\* come out, in order, whatever was moved, grown, or split between buf_ and
\* extra_buf.
ContentsExact ==
  overrun = 0 => writer <= Size(mem) /\ Bytes(mem, reader, writer - reader) = should

\* What is written behind the end of the vector is never more than the bytes
\* kept free in front, which EnsureWriteableBytes() counts as free but does
\* not give up.
OverrunBounded == overrun <= kCheapPrepend

\* A request is handed to the application byte for byte.  RetriveAsString()
\* copies after it has retrieved, which is right as long as the reader index
\* of an input buffer never leaves kCheapPrepend.
StringExact == string = expected
=============================================================================
