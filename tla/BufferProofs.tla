----------------------------- MODULE BufferProofs -----------------------------
(***************************************************************************)
(* Theorems about Buffer.tla, for every size of the vector, of the space   *)
(* kept free and of extra_buf.                                             *)
(***************************************************************************)
EXTENDS Buffer, SequenceTheorems, TLAPS

\* The one-line operators are expanded throughout.
USE DEF ReaderMoved, Extra, Size, ReadeableBytes, WriteAbleBytes

\* What the elements of the vector may be.
Values == 0..MaxBytes

\* The bytes of s are those of m from index i on.
Lie(m, i, s) == \A j \in 1..Len(s) : m[i + j] = s[j]

\* The indices of b are in order and leave room for the prefix; as many bytes
\* as s has lie between them, and they are those of s.
Holds(b, s) ==
  /\ b.m \in Seq(Values) /\ b.r \in Nat /\ b.w \in Nat
  /\ kCheapPrepend <= b.r /\ b.r <= b.w
  /\ Len(s) = b.w - b.r
  /\ b.w <= Len(b.m) => Lie(b.m, b.r, s)

\* The reader index never falls below kCheapPrepend, and that of an input
\* buffer stays there.
BufferInv ==
  /\ TypeOK /\ StringExact
  /\ Holds(Buf(mem, reader, writer), should)
  /\ isInput => reader = kCheapPrepend
  /\ overrun = IF writer > Size(mem) THEN writer - Size(mem) ELSE 0
  /\ overrun <= kCheapPrepend

-----------------------------------------------------------------------------
(* The operators on the vector.                                            *)

\* std::copy() changes the bytes it copies to, and no others.
LEMMA CopyToType ==
  ASSUME NEW m \in Seq(Values), NEW i \in Nat, NEW data \in Seq(Values)
  PROVE  /\ CopyTo(m, i, data) \in Seq(Values) /\ Len(CopyTo(m, i, data)) = Len(m)
         /\ \A k \in 1..Len(m) :
              CopyTo(m, i, data)[k] =
                IF k \in (i + 1)..(i + Len(data)) THEN data[k - i] ELSE m[k]
<1>1. Len(m) \in Nat /\ Len(data) \in Nat
  BY LenProperties
<1>2. \A k \in 1..Len(m) :
        (IF k - 1 \in i..(i + Len(data) - 1) THEN data[k - i] ELSE m[k]) =
          IF k \in (i + 1)..(i + Len(data)) THEN data[k - i] ELSE m[k]
  BY <1>1
<1>3. \A k \in 1..Len(m) :
        (IF k \in (i + 1)..(i + Len(data)) THEN data[k - i] ELSE m[k]) \in Values
  <2> SUFFICES ASSUME NEW k \in 1..Len(m)
               PROVE  (IF k \in (i + 1)..(i + Len(data)) THEN data[k - i] ELSE m[k]) \in Values
    OBVIOUS
  <2>1. m[k] \in Values
    BY ElementOfSeq
  <2>2. CASE k \in (i + 1)..(i + Len(data))
    <3>1. k - i \in 1..Len(data)
      BY <1>1, <2>2
    <3> QED
      BY <2>2, <3>1, ElementOfSeq
  <2> QED
    BY <2>1, <2>2
<1>4. CopyTo(m, i, data) \in [1..Len(m) -> Values]
  BY <1>2, <1>3 DEF CopyTo
<1>5. CopyTo(m, i, data) \in Seq(Values)
  BY <1>1, <1>4, SeqDef
<1> QED
  BY <1>1, <1>2, <1>4, <1>5, LenProperties DEF CopyTo

\* resize() to a larger size keeps what is there.
LEMMA ResizeType ==
  ASSUME NEW m \in Seq(Values), NEW n \in Nat, n >= Len(m), 0 \in Values
  PROVE  /\ Resize(m, n) \in Seq(Values) /\ Len(Resize(m, n)) = n
         /\ \A k \in 1..Len(m) : Resize(m, n)[k] = m[k]
<1>1. Len(m) \in Nat /\ \A k \in 1..Len(m) : m[k] \in Values
  BY LenProperties, ElementOfSeq
<1>2. Resize(m, n) \in [1..n -> Values]
  BY <1>1 DEF Resize
<1>3. Resize(m, n) \in Seq(Values)
  BY <1>2, SeqDef
<1> QED
  BY <1>1, <1>2, <1>3, LenProperties DEF Resize

\* The n bytes from index i on, one by one.
LEMMA BytesType ==
  ASSUME NEW m \in Seq(Values), NEW i \in Nat, NEW n \in Nat, i + n <= Len(m)
  PROVE  /\ Bytes(m, i, n) \in Seq(Values) /\ Len(Bytes(m, i, n)) = n
         /\ \A k \in 1..n : Bytes(m, i, n)[k] = m[i + k]
<1>1. Len(m) \in Nat /\ \A k \in (i + 1)..(i + n) : m[k] \in Values
  BY LenProperties, ElementOfSeq
<1>2. /\ SubSeq(m, i + 1, i + n) \in Seq(Values)
      /\ Len(SubSeq(m, i + 1, i + n)) = IF i + 1 <= i + n THEN (i + n) - (i + 1) + 1 ELSE 0
      /\ \A k \in 1..((i + n) - (i + 1) + 1) : SubSeq(m, i + 1, i + n)[k] = m[(i + 1) + k - 1]
  BY <1>1, SubSeqProperties
<1> QED
  BY <1>2 DEF Bytes

\* What lies from an index on is what is read from there.
LEMMA LieBytes ==
  ASSUME NEW m \in Seq(Values), NEW i \in Nat, NEW n \in Nat, i + n <= Len(m),
         NEW s \in Seq(Values), Len(s) = n, Lie(m, i, s)
  PROVE  Bytes(m, i, n) = s
<1>1. /\ Bytes(m, i, n) \in Seq(Values) /\ Len(Bytes(m, i, n)) = Len(s)
      /\ \A k \in 1..n : Bytes(m, i, n)[k] = m[i + k]
  BY BytesType
<1>2. \A k \in 1..Len(Bytes(m, i, n)) : Bytes(m, i, n)[k] = s[k]
  BY <1>1 DEF Lie
<1> QED
  BY <1>1, <1>2, SeqEqual

\* EnsureWriteableBytes() keeps the contents, and what it then takes to be
\* free exceeds the vector by the prefix at most.
LEMMA EnsureHolds ==
  ASSUME NEW b, NEW s, Holds(b, s), b.w <= Len(b.m), NEW len \in Nat, 0 \in Values
  PROVE  LET e == EnsureWriteableBytes(b, len) IN
         /\ Holds(e, s) /\ e.w <= Len(e.m) /\ e.w + len <= Len(e.m) + kCheapPrepend
         /\ e.r \in {b.r, kCheapPrepend}
<1> DEFINE e == EnsureWriteableBytes(b, len)
           n == b.w - b.r
<1>1. /\ Len(b.m) \in Nat /\ b.r \in Nat /\ b.w \in Nat
      /\ kCheapPrepend \in Nat /\ kCheapPrepend <= b.r /\ b.r <= b.w
      /\ n \in Nat /\ b.r + n = b.w
  BY LenProperties, SizeAssumption DEF Holds
<1>2. b.m \in Seq(Values) /\ Len(s) = n /\ \A j \in 1..n : b.m[b.r + j] = s[j]
  BY DEF Holds, Lie
<1>3. CASE ~Fits(b, len)
  <2>1. e = Buf(Resize(b.m, b.w + len), b.r, b.w)
    BY <1>3 DEF EnsureWriteableBytes
  <2>2. b.w + len \in Nat /\ b.w + len >= Len(b.m)
    <3>1. ~(b.r + (Len(b.m) - b.w) >= len)
      BY <1>3 DEF Fits
    <3>2. b.r \in Nat /\ b.w \in Nat /\ Len(b.m) \in Nat
      BY <1>1
    <3> QED
      BY <3>1, <3>2
  <2>3. /\ e.m = Resize(b.m, b.w + len) /\ e.r = b.r /\ e.w = b.w
    BY <2>1 DEF Buf
  <2>4. /\ e.m \in Seq(Values) /\ Len(e.m) = b.w + len
        /\ \A k \in 1..Len(b.m) : e.m[k] = b.m[k]
    BY <1>2, <2>2, <2>3, ResizeType
  <2> HIDE DEF e
  <2>5. \A j \in 1..n : b.r + j \in 1..Len(b.m)
    BY <1>1
  <2>6. \A j \in 1..n : e.m[e.r + j] = s[j]
    BY <1>2, <2>3, <2>4, <2>5
  <2>7. e.w <= Len(e.m) /\ e.w + len <= Len(e.m) + kCheapPrepend
    <3>1. e.w = b.w /\ Len(e.m) = b.w + len
      BY <2>3, <2>4
    <3> QED
      BY <1>1, <3>1
  <2>8. e.r \in Nat /\ e.w \in Nat /\ kCheapPrepend <= e.r /\ e.r <= e.w /\ Len(s) = e.w - e.r
    BY <1>1, <1>2, <2>3
  <2>9. Holds(e, s)
    BY <1>2, <2>4, <2>6, <2>8 DEF Holds, Lie
  <2> QED
    BY <2>3, <2>7, <2>9 DEF e
<1>4. CASE Fits(b, len)
  <2> DEFINE moved == Bytes(b.m, b.r, n)
  <2>1. e = Buf(CopyTo(b.m, kCheapPrepend, moved), kCheapPrepend, kCheapPrepend + n)
    BY <1>4 DEF EnsureWriteableBytes
  <2>2. moved \in Seq(Values) /\ Len(moved) = n /\ \A k \in 1..n : moved[k] = b.m[b.r + k]
    BY <1>1, <1>2, BytesType
  <2> HIDE DEF moved
  <2>3. e.m = CopyTo(b.m, kCheapPrepend, moved) /\ e.r = kCheapPrepend /\ e.w = kCheapPrepend + n
    BY <2>1 DEF Buf
  <2>4. /\ e.m \in Seq(Values) /\ Len(e.m) = Len(b.m)
        /\ \A k \in 1..Len(b.m) :
             e.m[k] = IF k \in (kCheapPrepend + 1)..(kCheapPrepend + n)
                        THEN moved[k - kCheapPrepend] ELSE b.m[k]
    BY <1>1, <1>2, <2>2, <2>3, CopyToType
  <2> HIDE DEF e
  <2>5. \A j \in 1..n : e.m[kCheapPrepend + j] = s[j]
    <3> SUFFICES ASSUME NEW j \in 1..n PROVE e.m[kCheapPrepend + j] = s[j]
      OBVIOUS
    <3>1. /\ kCheapPrepend + j \in 1..Len(b.m)
          /\ kCheapPrepend + j \in (kCheapPrepend + 1)..(kCheapPrepend + n)
          /\ (kCheapPrepend + j) - kCheapPrepend = j
      BY <1>1
    <3> QED
      BY <1>2, <2>2, <2>4, <3>1
  <2>6. e.w <= Len(e.m) /\ e.w + len <= Len(e.m) + kCheapPrepend
    <3>1. b.r + (Len(b.m) - b.w) >= len
      BY <1>4 DEF Fits
    <3>2. kCheapPrepend + n <= Len(b.m) /\ (kCheapPrepend + n) + len <= Len(b.m) + kCheapPrepend
      BY <1>1, <3>1
    <3> QED
      BY <2>3, <2>4, <3>2
  <2>7. e.r \in Nat /\ e.w \in Nat /\ kCheapPrepend <= e.r /\ e.r <= e.w /\ Len(s) = e.w - e.r
    <3>1. /\ kCheapPrepend + n \in Nat /\ kCheapPrepend <= kCheapPrepend + n
          /\ (kCheapPrepend + n) - kCheapPrepend = n
      BY <1>1
    <3> QED
      BY <1>1, <1>2, <2>3, <3>1
  <2>8. Holds(e, s)
    BY <1>2, <2>3, <2>4, <2>5, <2>7 DEF Holds, Lie
  <2> QED
    BY <2>3, <2>6, <2>8 DEF e
<1> QED
  BY <1>3, <1>4

\* Bytes copied to where others end lie behind them.
LEMMA CopiedBehind ==
  ASSUME NEW m \in Seq(Values), NEW r \in Nat, NEW w \in Nat,
         NEW s \in Seq(Values), NEW data \in Seq(Values),
         w = r + Len(s), w + Len(data) <= Len(m), Lie(m, r, s)
  PROVE  Lie(CopyTo(m, w, data), r, s \o data)
<1> DEFINE l == Len(data)
           n == Len(s)
           c == CopyTo(m, w, data)
<1>1. l \in Nat /\ n \in Nat /\ Len(m) \in Nat /\ w = r + n /\ w + l <= Len(m)
  BY LenProperties
<1>2. \A k \in 1..Len(m) : c[k] = IF k \in (w + 1)..(w + l) THEN data[k - w] ELSE m[k]
  BY <1>1, CopyToType
<1>3. /\ Len(s \o data) = n + l
      /\ \A j \in 1..(n + l) : (s \o data)[j] = IF j <= n THEN s[j] ELSE data[j - n]
  BY ConcatProperties
<1>4. \A j \in 1..n : m[r + j] = s[j]
  BY DEF Lie
<1> HIDE DEF c, l, n
<1>5. ASSUME NEW j \in 1..(n + l) PROVE c[r + j] = (s \o data)[j]
  <2>1. r + j \in 1..Len(m)
    BY <1>1
  <2>2. CASE j <= n
    <3>1. j \in 1..n /\ r + j \notin (w + 1)..(w + l)
      BY <1>1, <2>2
    <3> QED
      BY <1>2, <1>3, <1>4, <2>1, <2>2, <3>1
  <2>3. CASE ~(j <= n)
    <3>1. n < j /\ j <= n + l /\ n \in Nat /\ l \in Nat /\ j \in Nat /\ w = r + n
      BY <1>1, <2>3
    <3>2. r + j \in (w + 1)..(w + l)
      BY <3>1
    <3>3. (r + j) - w = j - n
      BY <3>1
    <3> QED
      BY <1>2, <1>3, <2>1, <2>3, <3>2, <3>3
  <2> QED
    BY <2>2, <2>3
<1> QED
  BY <1>3, <1>5 DEF Lie, c

\* Append() puts its bytes behind the others.
LEMMA AppendedHolds ==
  ASSUME NEW b, NEW s \in Seq(Values), Holds(b, s), b.w <= Len(b.m),
         NEW data \in Seq(Values), 0 \in Values
  PROVE  LET a == Appended(b, data) IN
         /\ Holds(a, s \o data) /\ a.w <= Len(a.m) + kCheapPrepend
         /\ a.r \in {b.r, kCheapPrepend}
<1> DEFINE e == EnsureWriteableBytes(b, Len(data))
           a == Appended(b, data)
           n == Len(s)
           l == Len(data)
<1>1. l \in Nat /\ n \in Nat
  BY LenProperties
<1>2. /\ Holds(e, s) /\ e.w <= Len(e.m) /\ e.w + l <= Len(e.m) + kCheapPrepend
      /\ e.r \in {b.r, kCheapPrepend}
  BY <1>1, EnsureHolds
<1>3. a = Buf(CopyTo(e.m, e.w, data), e.r, e.w + l)
  BY DEF Appended
<1> HIDE DEF a, e
<1>4. a.m = CopyTo(e.m, e.w, data) /\ a.r = e.r /\ a.w = e.w + l
  BY <1>3 DEF Buf
<1>5. /\ Len(e.m) \in Nat /\ e.r \in Nat /\ e.w \in Nat /\ kCheapPrepend \in Nat
      /\ kCheapPrepend <= e.r /\ e.r <= e.w /\ n = e.w - e.r /\ e.w <= Len(e.m)
      /\ e.w + l <= Len(e.m) + kCheapPrepend
  BY <1>2, LenProperties, SizeAssumption DEF Holds
<1>6. e.m \in Seq(Values) /\ Lie(e.m, e.r, s)
  BY <1>2 DEF Holds
<1>7. a.m \in Seq(Values) /\ Len(a.m) = Len(e.m)
  BY <1>4, <1>5, <1>6, CopyToType
<1>8. Len(s \o data) = n + l
  BY ConcatProperties
<1>9. ASSUME a.w <= Len(a.m)
      PROVE  Lie(a.m, a.r, s \o data)
  <2>1. e.w + l <= Len(e.m)
    BY <1>4, <1>7, <1>9
  <2>2. e.r \in Nat /\ e.w \in Nat /\ e.w = e.r + n
    BY <1>1, <1>5
  <2>3. Lie(CopyTo(e.m, e.w, data), e.r, s \o data)
    BY <1>6, <2>1, <2>2, CopiedBehind
  <2> QED
    BY <1>4, <2>3
<1> HIDE DEF n, l
<1>10. /\ a.r \in Nat /\ a.w \in Nat /\ kCheapPrepend <= a.r /\ a.r <= a.w
       /\ n + l = a.w - a.r /\ a.w <= Len(a.m) + kCheapPrepend
  <2>1. /\ e.w + l \in Nat /\ e.r <= e.w + l /\ n + l = (e.w + l) - e.r
    BY <1>1, <1>5
  <2> QED
    BY <1>4, <1>5, <1>7, <2>1
<1>11. Holds(a, s \o data)
  BY <1>7, <1>8, <1>9, <1>10 DEF Holds
<1> QED
  BY <1>2, <1>4, <1>10, <1>11 DEF a

\* Bytes copied to the writer index follow those that are there.
LEMMA CopiedHolds ==
  ASSUME NEW m, NEW r, NEW w, NEW s \in Seq(Values), NEW data \in Seq(Values),
         Holds(Buf(m, r, w), s), w + Len(data) <= Len(m)
  PROVE  Holds(Buf(CopyTo(m, w, data), r, w + Len(data)), s \o data)
<1>1. /\ m \in Seq(Values) /\ r \in Nat /\ w \in Nat /\ kCheapPrepend <= r /\ r <= w
      /\ Len(s) = w - r /\ Len(s) \in Nat /\ Len(data) \in Nat /\ Len(m) \in Nat
  BY LenProperties DEF Holds, Buf
<1>2. w <= Len(m) /\ w = r + Len(s)
  BY <1>1
<1>3. Lie(m, r, s)
  BY <1>2 DEF Holds, Buf
<1>4. Lie(CopyTo(m, w, data), r, s \o data)
  <2>1. m \in Seq(Values) /\ r \in Nat /\ w \in Nat
    BY <1>1
  <2> QED
    BY <1>2, <1>3, <2>1, CopiedBehind
<1>5. /\ CopyTo(m, w, data) \in Seq(Values) /\ Len(CopyTo(m, w, data)) = Len(m)
      /\ Len(s \o data) = Len(s) + Len(data)
  <2>1. Len(s \o data) = Len(s) + Len(data)
    BY ConcatProperties
  <2> QED
    BY <1>1, <2>1, CopyToType
<1>6. w + Len(data) \in Nat /\ r <= w + Len(data) /\ Len(s) + Len(data) = (w + Len(data)) - r
  BY <1>1
<1> QED
  BY <1>1, <1>2, <1>4, <1>5, <1>6 DEF Holds, Buf

-----------------------------------------------------------------------------
(* The steps.                                                              *)

\* The bytes to come are of the range.
LEMMA FreshType ==
  ASSUME TypeOK, NEW n \in Nat, put + n <= MaxBytes
  PROVE  /\ Fresh(n) \in Seq(1..MaxBytes) /\ Fresh(n) \in Seq(Values)
         /\ Len(Fresh(n)) = n /\ 0 \in Values
<1>1. \A k \in 1..n : put + k \in 1..MaxBytes
  BY BoundAssumption DEF TypeOK
<1>2. Fresh(n) \in [1..n -> 1..MaxBytes]
  BY <1>1 DEF Fresh
<1>3. Fresh(n) \in Seq(1..MaxBytes) /\ DOMAIN Fresh(n) = 1..n
  BY <1>2, SeqDef
<1>4. 1..MaxBytes \subseteq Values /\ 0 \in Values
  BY BoundAssumption DEF Values
<1>5. Len(Fresh(n)) = n
  BY <1>3, LenProperties
<1> QED
  BY <1>3, <1>4, <1>5, SeqMonotonic

\* A buffer with the right contents.
LEMMA BecomesKeeps ==
  ASSUME BufferInv, NEW n \in Nat, put + n <= MaxBytes,
         NEW b, Holds(b, should \o Fresh(n)), b.w <= Len(b.m) + kCheapPrepend,
         isInput => b.r = kCheapPrepend, Becomes(b, n)
  PROVE  BufferInv'
<1>1. TypeOK /\ StringExact
  BY DEF BufferInv
<1>2. Fresh(n) \in Seq(1..MaxBytes)
  BY <1>1, FreshType
<1>3. /\ b.m \in Seq(Values) /\ b.r \in Nat /\ b.w \in Nat /\ b.r <= b.w
      /\ Len(b.m) \in Nat /\ kCheapPrepend \in Nat
  BY LenProperties, SizeAssumption DEF Holds
<1>4. /\ mem' = b.m /\ reader' = b.r /\ writer' = b.w /\ should' = should \o Fresh(n)
      /\ put' = put + n /\ UNCHANGED <<isInput, string, expected>>
      /\ overrun' = IF b.w > Len(b.m) THEN b.w - Len(b.m) ELSE 0
  BY DEF Becomes
<1>5. overrun' \in Nat /\ overrun' <= kCheapPrepend
  BY <1>3, <1>4
<1>6. should' \in Seq(1..MaxBytes)
  BY <1>1, <1>2, <1>4, ConcatProperties DEF TypeOK
<1>7. TypeOK'
  BY <1>1, <1>3, <1>4, <1>5, <1>6, BoundAssumption DEF TypeOK, Values
<1>8. Holds(Buf(mem', reader', writer'), should')
  BY <1>4 DEF Holds, Buf
<1> QED
  BY <1>1, <1>4, <1>5, <1>7, <1>8 DEF BufferInv, StringExact

\* The new buffer.
LEMMA BufferInit == Init => BufferInv
<1> SUFFICES ASSUME Init PROVE BufferInv
  OBVIOUS
<1> DEFINE size == kCheapPrepend + kInitialSize
<1>1. size \in Nat /\ kCheapPrepend \in Nat /\ kCheapPrepend <= size /\ 0 \in Values
  BY SizeAssumption, BoundAssumption DEF Values
<1>2. mem \in [1..size -> Values]
  BY <1>1 DEF Init
<1> HIDE DEF size
<1>3. mem \in Seq(Values) /\ Len(mem) = size
  BY <1>1, <1>2, SeqDef, LenProperties
<1>4. should = <<>> /\ Len(should) = 0 /\ should \in Seq(1..MaxBytes)
  BY EmptySeq DEF Init
<1>5. reader = kCheapPrepend /\ writer = kCheapPrepend /\ overrun = 0 /\ writer <= Len(mem)
  BY <1>1, <1>3 DEF Init
<1>6. Holds(Buf(mem, reader, writer), should)
  BY <1>1, <1>3, <1>4, <1>5 DEF Holds, Buf, Lie
<1>7. TypeOK
  BY <1>1, <1>3, <1>4, <1>5, BoundAssumption DEF Init, TypeOK, Values
<1>8. StringExact
  BY DEF Init, StringExact
<1>9. overrun = (IF writer > Len(mem) THEN writer - Len(mem) ELSE 0) /\ overrun <= kCheapPrepend
  BY <1>1, <1>3, <1>5
<1> QED
  BY <1>5, <1>6, <1>7, <1>8, <1>9 DEF BufferInv

\* While nothing has been written behind the end, what BufferInv says of the
\* members themselves.
LEMMA BufferFacts ==
  ASSUME BufferInv, overrun = 0
  PROVE  /\ mem \in Seq(Values) /\ reader \in Nat /\ writer \in Nat /\ Len(mem) \in Nat
         /\ kCheapPrepend \in Nat /\ kCheapPrepend <= reader /\ reader <= writer
         /\ writer <= Len(mem) /\ Len(should) = writer - reader
         /\ should \in Seq(Values) /\ should \in Seq(1..MaxBytes)
         /\ Lie(mem, reader, should)
<1>1. /\ mem \in Seq(Values) /\ reader \in Nat /\ writer \in Nat /\ Len(mem) \in Nat
      /\ kCheapPrepend \in Nat /\ kCheapPrepend <= reader /\ reader <= writer
      /\ Len(should) = writer - reader
  BY LenProperties, SizeAssumption DEF BufferInv, Holds, Buf
<1>2. writer <= Len(mem)
  BY <1>1 DEF BufferInv
<1>3. 1..MaxBytes \subseteq Values
  BY BoundAssumption DEF Values
<1>4. should \in Seq(1..MaxBytes) /\ should \in Seq(Values)
  BY <1>3, SeqMonotonic DEF BufferInv, TypeOK
<1> QED
  BY <1>1, <1>2, <1>4 DEF BufferInv, Holds, Buf

\* Append() of n bytes.
LEMMA AppendKeeps ==
  ASSUME BufferInv, overrun = 0, NEW n \in 1..MaxBytes, Append_(n)
  PROVE  BufferInv'
<1> DEFINE b == Buf(mem, reader, writer)
           a == Appended(b, Fresh(n))
<1>1. n \in Nat /\ put + n <= MaxBytes /\ ~isInput /\ Becomes(a, n)
  BY BoundAssumption DEF Append_
<1>2. Fresh(n) \in Seq(Values) /\ 0 \in Values
  BY <1>1, FreshType DEF BufferInv
<1>3. should \in Seq(Values) /\ Holds(b, should) /\ b.w <= Len(b.m)
  BY BufferFacts DEF BufferInv, Buf
<1>4. Holds(a, should \o Fresh(n)) /\ a.w <= Len(a.m) + kCheapPrepend
  BY <1>2, <1>3, AppendedHolds
<1> HIDE DEF a
<1> QED
  BY <1>1, <1>4, BecomesKeeps

\* A read of n bytes, into buf_ or into buf_ and extra_buf.
LEMMA ReadFdKeeps ==
  ASSUME BufferInv, overrun = 0, NEW n \in 1..MaxBytes, ReadFd(n)
  PROVE  BufferInv'
<1> DEFINE fits == Len(mem) - writer
           data == Fresh(n)
<1>1. n \in Nat /\ put + n <= MaxBytes /\ isInput /\ reader = kCheapPrepend
  BY BoundAssumption DEF ReadFd, BufferInv
<1>2. data \in Seq(Values) /\ Len(data) = n /\ 0 \in Values
  BY <1>1, FreshType DEF BufferInv
<1>3. /\ mem \in Seq(Values) /\ writer \in Nat /\ Len(mem) \in Nat /\ writer <= Len(mem)
      /\ should \in Seq(Values) /\ Holds(Buf(mem, reader, writer), should)
      /\ kCheapPrepend \in Nat /\ fits \in Nat
  BY BufferFacts DEF BufferInv
<1>4. CASE n <= fits
  <2> DEFINE b == Buf(CopyTo(mem, writer, data), reader, writer + n)
  <2>1. Becomes(b, n)
    BY <1>4 DEF ReadFd
  <2>2. writer + Len(data) <= Len(mem)
    BY <1>2, <1>3, <1>4
  <2>3. Holds(b, should \o data)
    BY <1>2, <1>3, <2>2, CopiedHolds
  <2>4. b.w <= Len(b.m) + kCheapPrepend /\ b.r = kCheapPrepend
    <3>1. Len(CopyTo(mem, writer, data)) = Len(mem)
      BY <1>2, <1>3, CopyToType
    <3>2. b.w = writer + n /\ Len(b.m) = Len(mem) /\ b.r = reader
      BY <3>1 DEF Buf
    <3>3. writer + n <= Len(mem) + kCheapPrepend
      BY <1>1, <1>3, <1>4
    <3> QED
      BY <1>1, <3>2, <3>3
  <2> HIDE DEF b
  <2> QED
    BY <1>1, <2>1, <2>3, <2>4, BecomesKeeps
<1>5. CASE ~(n <= fits)
  <2> DEFINE front == SubSeq(data, 1, fits)
             rest == SubSeq(data, fits + 1, n)
             full == Buf(CopyTo(mem, writer, front), reader, Len(mem))
             a == Appended(full, rest)
  <2>1. Becomes(a, n)
    BY <1>2, <1>5 DEF ReadFd
  <2>2. fits \in 0..n /\ n \in fits..n /\ fits + 1 \in Nat
    BY <1>1, <1>3, <1>5
  <2>3. front \in Seq(Values) /\ Len(front) = fits /\ rest \in Seq(Values)
    <3>1. \A i \in 1..n : data[i] \in Values
      BY <1>2, ElementOfSeq
    <3>2. (\A i \in 1..fits : data[i] \in Values) /\ (\A i \in (fits + 1)..n : data[i] \in Values)
      BY <2>2, <3>1
    <3>3. fits = (IF 1 <= fits THEN fits - 1 + 1 ELSE 0)
      BY <1>3
    <3> QED
      BY <2>2, <3>2, <3>3, SubSeqProperties
  <2>4. front \o rest = data
    <3>1. 1 \in 1..(Len(data) + 1) /\ fits \in (1 - 1)..Len(data) /\ n \in fits..Len(data)
      BY <1>1, <1>2, <2>2
    <3>2. front \o rest = SubSeq(data, 1, n)
      BY <1>2, <3>1, ConcatAdjacentSubSeq
    <3> QED
      BY <1>2, <3>2, SubSeqFull
  <2> HIDE DEF front, rest
  <2>5. writer + Len(front) = Len(mem)
    BY <1>3, <2>3
  <2>6. Holds(full, should \o front)
    <3>1. Holds(Buf(CopyTo(mem, writer, front), reader, writer + Len(front)), should \o front)
      <4>1. writer + Len(front) <= Len(mem)
        BY <1>3, <2>5
      <4> QED
        BY <1>3, <2>3, <4>1, CopiedHolds
    <3> QED
      BY <2>5, <3>1
  <2>7. full.w <= Len(full.m) /\ full.r = kCheapPrepend
    <3>1. Len(CopyTo(mem, writer, front)) = Len(mem)
      BY <1>3, <2>3, CopyToType
    <3> QED
      BY <1>1, <1>3, <3>1 DEF Buf
  <2> HIDE DEF full
  <2>8. should \o front \in Seq(Values)
    BY <1>3, <2>3, ConcatProperties
  <2>9. /\ Holds(a, (should \o front) \o rest) /\ a.w <= Len(a.m) + kCheapPrepend
        /\ a.r \in {full.r, kCheapPrepend}
    BY <1>2, <2>3, <2>6, <2>7, <2>8, AppendedHolds
  <2> HIDE DEF a
  <2>10. (should \o front) \o rest = should \o data
    <3>1. should \in Seq(Values) /\ front \in Seq(Values) /\ rest \in Seq(Values)
      BY <1>3, <2>3
    <3>2. (should \o front) \o rest = should \o (front \o rest)
      BY <3>1, ConcatAssociative
    <3> QED
      BY <2>4, <3>2
  <2>11. Holds(a, should \o data) /\ a.r = kCheapPrepend
    BY <2>7, <2>9, <2>10
  <2> QED
    BY <1>1, <2>1, <2>9, <2>11, BecomesKeeps
<1> QED
  BY <1>4, <1>5

\* The buffer is empty and both indices are at the prefix.
LEMMA EmptyKeeps ==
  ASSUME BufferInv, overrun = 0, RetriveAll, should' = <<>>,
         UNCHANGED <<isInput, mem, put, overrun>>, StringExact'
  PROVE  BufferInv'
<1>1. /\ mem \in Seq(Values) /\ kCheapPrepend \in Nat /\ kCheapPrepend <= Len(mem)
      /\ TypeOK
  BY BufferFacts DEF BufferInv
<1>2. Len(should') = 0 /\ should' \in Seq(1..MaxBytes)
  BY EmptySeq
<1>3. reader' = kCheapPrepend /\ writer' = kCheapPrepend
  BY DEF RetriveAll
<1>4. TypeOK'
  BY <1>1, <1>2, <1>3 DEF TypeOK
<1>5. Holds(Buf(mem', reader', writer'), should')
  BY <1>1, <1>2, <1>3 DEF Holds, Buf, Lie
<1> QED
  BY <1>1, <1>3, <1>4, <1>5 DEF BufferInv

\* Retrive() of n bytes.
LEMMA RetriveKeeps ==
  ASSUME BufferInv, overrun = 0, NEW n \in 1..MaxBytes, Retrive(n)
  PROVE  BufferInv'
<1> DEFINE len == Len(should)
<1>1. /\ mem \in Seq(Values) /\ reader \in Nat /\ writer \in Nat /\ Len(mem) \in Nat
      /\ kCheapPrepend \in Nat /\ kCheapPrepend <= reader /\ reader <= writer
      /\ writer <= Len(mem) /\ len = writer - reader
      /\ TypeOK /\ StringExact /\ ~isInput
  BY BufferFacts DEF BufferInv, Retrive
<1>2. \A j \in 1..len : mem[reader + j] = should[j] /\ should[j] \in 1..MaxBytes
  BY BufferFacts, ElementOfSeq DEF Lie
<1>3. n \in 1..len /\ len \in Nat /\ n \in Nat
  BY <1>1 DEF Retrive
<1>4. CASE n < writer - reader
  <2>1. reader' = reader + n /\ writer' = writer /\ should' = SubSeq(should, n + 1, len)
    BY <1>4 DEF Retrive
  <2> HIDE DEF len
  <2>2. n + 1 \in Int /\ len \in Int /\ \A i \in (n + 1)..len : should[i] \in 1..MaxBytes
    BY <1>2, <1>3
  <2>3. /\ should' \in Seq(1..MaxBytes)
        /\ Len(should') = IF n + 1 <= len THEN len - (n + 1) + 1 ELSE 0
        /\ \A i \in 1..(len - (n + 1) + 1) : should'[i] = should[(n + 1) + i - 1]
    BY <2>1, <2>2, SubSeqProperties
  <2>4. Len(should') = len - n /\ \A i \in 1..(len - n) : should'[i] = should[n + i]
    BY <1>1, <1>3, <1>4, <2>3
  <2>5. \A i \in 1..(len - n) : mem[(reader + n) + i] = should'[i]
    <3> SUFFICES ASSUME NEW i \in 1..(len - n) PROVE mem[(reader + n) + i] = should'[i]
      OBVIOUS
    <3>1. n + i \in 1..len /\ (reader + n) + i = reader + (n + i)
      BY <1>1, <1>3
    <3> QED
      BY <1>2, <2>4, <3>1
  <2>6. reader + n \in Nat /\ kCheapPrepend <= reader + n /\ reader + n <= writer
        /\ len - n = writer - (reader + n)
    BY <1>1, <1>3, <1>4
  <2>7. Holds(Buf(mem', reader', writer'), should')
    BY <1>1, <2>1, <2>4, <2>5, <2>6 DEF Holds, Buf, Retrive, Lie
  <2>8. TypeOK'
    BY <1>1, <2>1, <2>3, <2>6 DEF TypeOK, Retrive
  <2> QED
    BY <1>1, <2>1, <2>7, <2>8 DEF BufferInv, Retrive, StringExact
<1>5. CASE ~(n < writer - reader)
  <2>1. RetriveAll /\ n = len /\ UNCHANGED <<isInput, mem, put, string, expected, overrun>>
    BY <1>1, <1>3, <1>5 DEF Retrive
  <2>2. should' = <<>>
    BY <1>3, <2>1, SubSeqEmpty DEF Retrive
  <2> QED
    BY <1>1, <2>1, <2>2, EmptyKeeps DEF StringExact
<1> QED
  BY <1>4, <1>5

\* RetriveAllAsString().
LEMMA RetriveStringKeeps ==
  ASSUME BufferInv, overrun = 0, RetriveAllAsString
  PROVE  BufferInv'
<1>1. /\ mem \in Seq(Values) /\ reader \in Nat /\ writer \in Nat /\ Len(mem) \in Nat
      /\ reader <= writer /\ writer <= Len(mem) /\ Len(should) = writer - reader
      /\ should \in Seq(Values) /\ Lie(mem, reader, should)
  BY BufferFacts
<1>2. /\ reader' = reader /\ string' = Bytes(mem, reader, writer - reader)
      /\ expected' = should
  BY DEF RetriveAllAsString, RetriveAll, BufferInv
<1>3. writer - reader \in Nat /\ reader + (writer - reader) <= Len(mem)
  BY <1>1
<1>4. string' = should
  BY <1>1, <1>2, <1>3, LieBytes
<1>5. StringExact'
  BY <1>2, <1>4 DEF StringExact
<1> QED
  BY <1>5, EmptyKeeps DEF RetriveAllAsString

-----------------------------------------------------------------------------
(* The theorems.                                                           *)

\* The indices stay in order, and between them is what ought to be there.
THEOREM BufferInvariant == Spec => []BufferInv
<1>1. BufferInv /\ UNCHANGED vars => BufferInv'
  BY DEF BufferInv, TypeOK, StringExact, Holds, Buf, vars
<1>2. BufferInv /\ [Next]_vars => BufferInv'
  BY <1>1, AppendKeeps, ReadFdKeeps, RetriveKeeps, RetriveStringKeeps DEF Next
<1> QED
  BY <1>2, BufferInit, PTL DEF Spec

\* The types of the buffer are kept.
THEOREM TypeCorrect == Spec => []TypeOK
<1>1. BufferInv => TypeOK
  BY DEF BufferInv
<1> QED
  BY <1>1, BufferInvariant, PTL

\* Between the indices are the bytes that went in and have not come out, in
\* order, for every size and every sequence of reads and appends.
THEOREM HoldsContents == Spec => []ContentsExact
<1>1. BufferInv => ContentsExact
  <2> SUFFICES ASSUME BufferInv, overrun = 0
               PROVE  writer <= Len(mem) /\ Bytes(mem, reader, writer - reader) = should
    BY DEF ContentsExact
  <2>1. /\ mem \in Seq(Values) /\ reader \in Nat /\ writer \in Nat /\ Len(mem) \in Nat
        /\ reader <= writer /\ writer <= Len(mem) /\ Len(should) = writer - reader
        /\ should \in Seq(Values) /\ Lie(mem, reader, should)
    BY BufferFacts
  <2>2. writer - reader \in Nat /\ reader + (writer - reader) <= Len(mem)
    BY <2>1
  <2> QED
    BY <2>1, <2>2, LieBytes
<1> QED
  BY <1>1, BufferInvariant, PTL

\* What is written behind the end of the vector is at most the prefix.
THEOREM OverrunIsBounded == Spec => []OverrunBounded
<1>1. BufferInv => OverrunBounded
  BY DEF BufferInv, OverrunBounded
<1> QED
  BY <1>1, BufferInvariant, PTL

\* A request is handed over byte for byte.
THEOREM HandsOverExactly == Spec => []StringExact
<1>1. BufferInv => StringExact
  BY DEF BufferInv
<1> QED
  BY <1>1, BufferInvariant, PTL
=============================================================================
